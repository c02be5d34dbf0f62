----------------------------- MODULE Codegraph -----------------------------
(***************************************************************************)
(* The dependency graph of the workspace and the questions asked of it     *)
(* (brain/memory.py, core/module_resolver.py, core/blast_radius.py,        *)
(* core/dead_code.py, core/symbol_refs.py, core/db.py).  Indexing a file stores one row for    *)
(* each import it holds, with the specifier as written, not the file it    *)
(* names.  Every reader resolves the specifiers against the files indexed  *)
(* at that moment: the radius of a change, the dead-code scan, the callers *)
(* of a symbol, and the analytics pass that labels the rows.  The pass     *)
(* reads its two tables in two steps and writes later, while files are     *)
(* indexed and purged.  A query reads its two tables in one step here.     *)
(*                                                                         *)
(* Abstractions: a file is the sequence of its path segments, the last one *)
(* without its extension, and the extension; an import statement is its    *)
(* form, the steps up, the segments and the extension it writes, and the   *)
(* members it lists.  Paths use forward slashes.                           *)
(***************************************************************************)
EXTENDS Naturals, Sequences, FiniteSets

CONSTANTS Workspaces,   \* set of [files, imports, defines, mentions]
          Depth,        \* hops of a radius (DEFAULT_DEPTH)
          MaxBlastEdges, \* rows above which no radius is computed
          MaxChanges,   \* files indexed or purged
          MaxObserved   \* files a trace may see

VARIABLES ws,        \* the workspace
          indexed,   \* files in the catalog
          holds,     \* the import each indexed file was indexed with, <<>> for none
          rows,      \* dependency_graph: [src, tgt, label]
          pass,      \* the analytics pass: [at, edges, files]
          settled,   \* the last pass saw the tables as they are now
          observed,  \* files a trace saw calling the symbol
          changes    \* changes so far
graphVars == <<ws, indexed, holds, rows, pass, settled, observed, changes>>

Max2(a, b) == IF a > b THEN a ELSE b
Front2(s) == SubSeq(s, 1, Max2(Len(s), 1) - 1)
IsSuffix2(s, t) == Len(s) <= Len(t) /\ SubSeq(t, Len(t) - Len(s) + 1, Len(t)) = s

Path(at, ext) == [style |-> "path", at |-> at, ext |-> ext]
Name(at) == [style |-> "name", at |-> at, ext |-> ""]
PathOf(f) == Path(f.at, f.ext)

(***************************************************************************)
(* Extraction: the targets an import statement stores.                     *)
(***************************************************************************)
Named(st, forms) == IF st.form \in forms THEN {Name(st.at)} ELSE {}

Members(st) == IF st.form = "group" THEN {Name(Append(st.at, m)) : m \in st.members} ELSE {}

(* A relative specifier that climbs out of the workspace is dropped.       *)
Relative(st, src, strip) ==
    LET dir == Front2(src.at)
    IN IF st.form # "rel" \/ st.up > Len(dir) THEN {}
       ELSE {Path(SubSeq(dir, 1, Len(dir) - st.up) \o st.at,
                  IF st.ext \in strip THEN "" ELSE st.ext)}

ExtractPython(st, src) == Named(st, {"name", "from"})          \* relative imports are skipped
ExtractEcmascript(st, src) ==
    Named(st, {"lib"}) \cup Relative(st, src, {"ts", "tsx", "js", "jsx", "mjs", "cjs"})
ExtractC(st, src) == Named(st, {"lib"}) \cup Relative(st, src, {})
ExtractRust(st, src) == Named(st, {"name"}) \cup Members(st)
ExtractGo(st, src) == Named(st, {"name"})
ExtractJava(st, src) == Named(st, {"name"})
ExtractKotlin(st, src) == Named(st, {"name"})
ExtractScala(st, src) == Named(st, {"name"}) \cup Members(st)
ExtractCsharp(st, src) == Named(st, {"name"})
ExtractRuby(st, src) == Named(st, {"lib"}) \cup Relative(st, src, {"rb"})
ExtractLua(st, src) == Named(st, {"name"})
ExtractZig(st, src) == Named(st, {"lib"}) \cup Relative(st, src, {})
ExtractElixir(st, src) == Named(st, {"name"}) \cup Members(st)
ExtractHaskell(st, src) == Named(st, {"name"})
ExtractBash(st, src) == Relative(st, src, {})
ExtractPowershell(st, src) == Named(st, {"lib"}) \cup Relative(st, src, {})
ExtractSwift(st, src) == Named(st, {"lib"})
ExtractPhp(st, src) == Named(st, {"name"}) \cup Relative(st, src, {})
ExtractDart(st, src) == Named(st, {"lib"}) \cup Relative(st, src, {})

Extract(st, src) ==
    CASE src.ext = "py" -> ExtractPython(st, src)
      [] src.ext \in {"ts", "mjs"} -> ExtractEcmascript(st, src)
      [] src.ext = "h" -> ExtractC(st, src)
      [] src.ext = "rs" -> ExtractRust(st, src)
      [] src.ext = "go" -> ExtractGo(st, src)
      [] src.ext = "java" -> ExtractJava(st, src)
      [] src.ext = "kt" -> ExtractKotlin(st, src)
      [] src.ext = "scala" -> ExtractScala(st, src)
      [] src.ext = "cs" -> ExtractCsharp(st, src)
      [] src.ext = "rb" -> ExtractRuby(st, src)
      [] src.ext = "lua" -> ExtractLua(st, src)
      [] src.ext = "zig" -> ExtractZig(st, src)
      [] src.ext = "ex" -> ExtractElixir(st, src)
      [] src.ext = "hs" -> ExtractHaskell(st, src)
      [] src.ext = "sh" -> ExtractBash(st, src)
      [] src.ext = "ps1" -> ExtractPowershell(st, src)
      [] src.ext = "swift" -> ExtractSwift(st, src)
      [] src.ext = "php" -> ExtractPhp(st, src)
      [] src.ext = "dart" -> ExtractDart(st, src)
      [] OTHER -> {}

(***************************************************************************)
(* Resolution against the files of the catalog.                            *)
(***************************************************************************)
CandidateExts == <<"ts", "tsx", "js", "jsx">>
CandidatePaths(t) ==
    <<t>> \o [i \in 1 .. 4 |-> Path(t.at, CandidateExts[i])]
          \o [i \in 1 .. 4 |-> Path(Append(t.at, "index"), CandidateExts[i])]

(* The first candidate that is a file of the catalog; a name is none.      *)
ResolveTargetToFile(t, files) ==
    LET c == IF t.style # "path" THEN <<>>
             ELSE IF t.ext = "" THEN CandidatePaths(t) ELSE <<t>>
        hits == {i \in DOMAIN c : \E f \in files : PathOf(f) = c[i]}
    IN IF hits = {} THEN {}
       ELSE {f \in files : PathOf(f) = c[CHOOSE i \in hits : \A k \in hits : i <= k]}

Families == {"py", "java", "kt", "scala", "cs", "rs", "go", "lua", "ex", "hs", "php"}

(* The path a name is matched against: the stem, a package's __init__      *)
(* standing for its directory; in Go the directory.                        *)
IndexKey(f) == IF f.ext = "go" \/ (f.ext = "py" /\ Len(f.at) > 1 /\ f.at[Len(f.at)] = "__init__")
               THEN Front2(f.at) ELSE f.at

SuffixWindows(name, f) == name # <<>> /\ IsSuffix2(name, IndexKey(f))

ResolveViaSuffixIndex(t, ext, files) ==
    {f \in files : f.ext = ext /\ ext \in Families /\ SuffixWindows(t.at, f)}

ResolvedPolyglot(src, t, files) ==
    LET direct == ResolveTargetToFile(t, files)
    IN IF direct # {} THEN direct
       ELSE IF t.style = "name" THEN ResolveViaSuffixIndex(t, src.ext, files) ELSE {}

(* The dead-code scan knows only the Python index, whatever the source.    *)
ResolvedPython(t, files) ==
    LET direct == ResolveTargetToFile(t, files)
    IN IF direct # {} THEN direct
       ELSE IF t.style = "name" THEN ResolveViaSuffixIndex(t, "py", files) ELSE {}

(***************************************************************************)
(* The label of an edge, under the target it is written back for.          *)
(***************************************************************************)
Scope(f) == IF f.ext \in {"ts", "mjs"} THEN "ecmascript" ELSE f.ext

(* What follows the last dot: the extension of a path that has one; the    *)
(* segments of a Rust path are not taken apart.                            *)
ModuleStem(src, t) == CASE t.ext # "" -> t.ext
                        [] t.ext = "" /\ src.ext = "rs" /\ Len(t.at) > 1 -> ""
                        [] OTHER -> t.at[Len(t.at)]

SameStem(src, t, files) ==
    {f \in files : f.at[Len(f.at)] = ModuleStem(src, t) /\ Scope(f) = Scope(src)}

ResolveEdgeConfidence(src, t, files) ==
    LET direct == ResolveTargetToFile(t, files)
        hits == IF t.style = "name" /\ src.ext # "go"
                THEN ResolveViaSuffixIndex(t, src.ext, files) ELSE {}
        lab(target, label) == [src |-> src, tgt |-> target, label |-> label]
    IN CASE direct # {} -> lab(PathOf(CHOOSE f \in direct : TRUE), "EXTRACTED")
         [] direct = {} /\ Cardinality(hits) = 1 ->
                lab(PathOf(CHOOSE f \in hits : TRUE), "EXTRACTED")
         [] direct = {} /\ Cardinality(hits) >= 2 -> lab(t, "AMBIGUOUS")
         [] OTHER -> lab(t, IF Cardinality(SameStem(src, t, files)) >= 2
                            THEN "AMBIGUOUS" ELSE "INFERRED")

(***************************************************************************)
(* The radius of a change: breadth first over the resolved rows, unless    *)
(* there are too many of them: then the answer is empty, like that for a   *)
(* file nobody imports.                                                    *)
(***************************************************************************)
TooManyEdges == Cardinality(rows) > MaxBlastEdges

ReverseAdjacency ==
    LET targets == [r \in rows |-> ResolvedPolyglot(r.src, r.tgt, indexed)]
    IN [f \in indexed |-> {r.src : r \in {q \in rows : f \in targets[q]}}]

Hop(importers, S) ==
    [seen |-> S.seen \cup S.front,
     front |-> (UNION {importers[f] : f \in S.front}) \ (S.seen \cup S.front)]

HopsFrom(seeds, depth) ==
    LET importers == ReverseAdjacency
        H[n \in 0 .. depth] ==
          IF n = 0 THEN [seen |-> {}, front |-> seeds] ELSE Hop(importers, H[n - 1])
    IN H

\* Mutant: the last hop is found and not reported.
RadiusShort(seeds, depth) ==
    IF TooManyEdges THEN {} ELSE HopsFrom(seeds, depth)[depth].seen \ seeds

BlastRadius(seeds, depth) ==
    LET S == HopsFrom(seeds, depth)[depth]
    IN IF TooManyEdges THEN {} ELSE (S.seen \cup S.front) \ seeds

(***************************************************************************)
(* The dead-code scan: files nobody's import resolves to, entry points     *)
(* aside (by name here; an allowlist and markers in the text exempt more). *)
(***************************************************************************)
IsEntrypoint(f) == f.at[Len(f.at)] = "main"

InDegree(f) == Cardinality({r \in rows : f \in ResolvedPython(r.tgt, indexed)})

DeadCode == {f \in indexed : InDegree(f) = 0 /\ ~IsEntrypoint(f)}

(***************************************************************************)
(* The callers of a symbol: files that mention it, ranked by evidence, in  *)
(* a scan that meets its deadline.                                         *)
(***************************************************************************)
NarrowCatalog == ws.mentions \cap indexed

SymbolCallers ==
    LET defs == ws.defines \cap indexed
        importers == IF defs = {} THEN {} ELSE BlastRadius(defs, 1)
        static(f) == IF f \in importers THEN "EXTRACTED"
                     ELSE IF Cardinality(defs) >= 2 THEN "AMBIGUOUS" ELSE "INFERRED"
    IN {[file |-> f, tier |-> IF f \in observed THEN "OBSERVED" ELSE static(f)] :
           f \in NarrowCatalog \cup (observed \cap indexed)}

(***************************************************************************)
(* Indexing, purging, the analytics pass.                                  *)
(***************************************************************************)
Idle == [at |-> "idle", edges |-> {}, files |-> {}]

GraphInit ==
    /\ ws \in Workspaces
    /\ indexed = {} /\ rows = {} /\ holds = [f \in ws.files |-> <<>>]
    /\ pass = Idle /\ settled = FALSE /\ observed = {} /\ changes = 0

(* Rows of the file are replaced, without a label, and the pass starts     *)
(* over.                                                                   *)
IndexFile(f, st) ==
    /\ changes < MaxChanges /\ changes' = changes + 1
    /\ holds' = [holds EXCEPT ![f] = st]
    /\ rows' = {r \in rows : r.src # f} \cup
               {[src |-> f, tgt |-> t, label |-> "none"] :
                   t \in IF st = <<>> THEN {} ELSE Extract(st, f)}
    /\ indexed' = indexed \cup {f}
    /\ pass' = [Idle EXCEPT !.at = "due"]
    /\ settled' = FALSE
    /\ UNCHANGED <<ws, observed>>

(* A purge removes what the file stored; the pass is not told.             *)
PurgeFile(f) ==
    /\ changes < MaxChanges /\ changes' = changes + 1
    /\ f \in indexed
    /\ indexed' = indexed \ {f}
    /\ rows' = {r \in rows : r.src # f}
    /\ holds' = [holds EXCEPT ![f] = <<>>]
    /\ settled' = FALSE
    /\ pass' = [pass EXCEPT !.at = IF @ \in {"files", "write"} THEN @ \o "_stale" ELSE @]
    /\ UNCHANGED <<ws, observed>>

(* What a trace of a run saw. *)
Observe(f) ==
    /\ f \in ws.files \ observed /\ Cardinality(observed) < MaxObserved
    /\ observed' = observed \cup {f}
    /\ UNCHANGED <<ws, indexed, holds, rows, pass, settled, changes>>

PassReadsEdges ==
    /\ pass.at = "due"
    /\ pass' = IF rows = {} THEN Idle ELSE [at |-> "files", edges |-> rows, files |-> {}]
    /\ UNCHANGED <<ws, indexed, holds, rows, settled, observed, changes>>

PassReadsFiles ==
    /\ pass.at \in {"files", "files_stale"}
    /\ pass' = [pass EXCEPT !.at = IF @ = "files" THEN "write" ELSE "write_stale",
                            !.files = indexed]
    /\ UNCHANGED <<ws, indexed, holds, rows, settled, observed, changes>>

Computed == {ResolveEdgeConfidence(e.src, e.tgt, pass.files) : e \in pass.edges}

(* UPDATE ... WHERE source_file = ? AND target_dependency = ?              *)
UpsertConfidence(r) ==
    LET mine == {c \in Computed : c.src = r.src /\ c.tgt = r.tgt}
    IN IF mine = {} THEN r ELSE [r EXCEPT !.label = (CHOOSE c \in mine : TRUE).label]

PassWrites ==
    /\ pass.at \in {"write", "write_stale"}
    /\ rows' = {UpsertConfidence(r) : r \in rows}
    /\ settled' = (pass.at = "write")
    /\ pass' = Idle
    /\ UNCHANGED <<ws, indexed, holds, observed, changes>>

GraphNext ==
    \/ \E f \in ws.files : \/ \E st \in ws.imports \cup {<<>>} : IndexFile(f, st)
                           \/ PurgeFile(f) \/ Observe(f)
    \/ PassReadsEdges \/ PassReadsFiles \/ PassWrites
GraphSpec == GraphInit /\ [][GraphNext]_graphVars

(***************************************************************************)
(* Properties.                                                             *)
(***************************************************************************)
(* What a statement means in its language: the files it may name.          *)
Means(st, src, f) ==
    CASE st.form \in {"name"} -> f.ext = src.ext /\ IsSuffix2(st.at, IndexKey(f))
      [] st.form = "from" -> /\ f.ext = src.ext
                             /\ \/ IsSuffix2(st.at, IndexKey(f))
                                \/ \E m \in st.members : IsSuffix2(Append(st.at, m), IndexKey(f))
      [] st.form = "group" -> /\ f.ext = src.ext
                              /\ \E m \in st.members : IsSuffix2(Append(st.at, m), IndexKey(f))
      [] st.form = "rel" ->
            LET dir == Front2(src.at)
            IN /\ st.up <= Len(dir)
               /\ f.at = SubSeq(dir, 1, Len(dir) - st.up) \o st.at
               /\ f.ext = st.ext \/ (st.ext = "" /\ f.ext = src.ext)
      [] OTHER -> FALSE

(* The resolver's own gaps: a member of a Python package, a relative       *)
(* Python import, and relative specifiers whose extension is stripped or   *)
(* left out where the candidates do not try it again.                      *)
Gap(st, src, f) ==
    \/ st.form = "from" /\ ~IsSuffix2(st.at, IndexKey(f))
    \/ st.form = "rel" /\ (src.ext \in {"py", "rb"} \/ f.ext \in {"mjs", "cjs"} \/ st.ext = "")
       /\ ~(src.ext = "ts" /\ f.ext = "ts")

(* Outside those gaps, and up to the ceiling on rows, the radius never     *)
(* undercounts: a file whose import, dotted, grouped, included or          *)
(* relative, means an indexed file is among that file's dependents,        *)
(* whatever the order in which they were indexed.  Above the ceiling it    *)
(* counts nobody, and says so to no one.                                   *)
ImportersAreCounted ==
    \A src, f \in indexed :
        LET st == holds[src]
        IN st # <<>> /\ src # f /\ Means(st, src, f) /\ ~Gap(st, src, f) /\ ~TooManyEdges
              => src \in BlastRadius({f}, 1)

(* The radius is exact at every depth: it holds the files with a chain of  *)
(* at most that many resolved imports to the seed, and no others, cycles   *)
(* included; above the ceiling on rows it is empty.                        *)
Chains(next, f, n) == {c \in [1 .. n -> indexed] :
                          /\ c[1] \in next[f]
                          /\ \A i \in 1 .. n - 1 : c[i + 1] \in next[c[i]]}
RadiusIsExact ==
    \A next \in {ReverseAdjacency} :
    \A f \in indexed, depth \in 0 .. Depth :
        BlastRadius({f}, depth) =
            IF TooManyEdges THEN {}
            ELSE {c[Len(c)] : c \in UNION {Chains(next, f, n) : n \in 1 .. depth}} \ {f}

(* The two resolvers agree where it matters: a Python file the scan calls  *)
(* dead has nobody in its radius.                                          *)
DeadHasNoDependents == \A f \in DeadCode : f.ext = "py" => BlastRadius({f}, 1) = {}

(* No caller is lost: every indexed file that mentions the symbol and      *)
(* every indexed file seen calling it is listed once, and a file whose     *)
(* call was observed is never ranked lower for it.                         *)
NoCallerIsLost ==
    /\ \A f \in indexed : (f \in ws.mentions \/ f \in observed)
          => Cardinality({c \in SymbolCallers : c.file = f}) = 1
    /\ \A c \in SymbolCallers : c.file \in observed <=> c.tier = "OBSERVED"

(* A pass that saw the tables as they are leaves no label that claims too  *)
(* much: an edge called EXTRACTED resolves to exactly one indexed file.    *)
NoOverclaim ==
    settled => \A r \in rows : r.label = "EXTRACTED"
                  => Cardinality(ResolvedPolyglot(r.src, r.tgt, indexed)) = 1

====
