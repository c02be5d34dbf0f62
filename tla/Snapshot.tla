------------------------------ MODULE Snapshot ------------------------------
(***************************************************************************)
(* The shared-memory snapshot (core/memory_snapshot.py, core/db.py): a     *)
(* clone of the repository exports its dependency graph and scores to      *)
(* .ailienant/memory.db.zst, the file is committed, and another clone      *)
(* warm-starts from it before its own crawl.  Exports run as tasks of      *)
(* their own beside the indexer and the analytics pass; two windows of one *)
(* clone may import at the same time.                                      *)
(*                                                                         *)
(* Abstractions: a path is a root and a name under it; an opaque module    *)
(* name has the root "module", and a path written relative to the          *)
(* workspace the root "rel", where the name "up" climbs out of it.  A      *)
(* score is the number of importers the pass counted.                      *)
(***************************************************************************)
EXTENDS Naturals, FiniteSets

CONSTANTS Clones,        \* workspace roots of the repository
          SourceFiles,   \* names of its source files
          FirstClone,    \* the clone there is, opened and crawling
          FirstTrees,    \* what its files may import: set of functions
          Exporters,     \* export tasks
          Windows,       \* editor windows opening a clone
          MaxRepoEvents      \* crawls, passes, saves and damages (bound)

VARIABLES tree,      \* what each file of a clone imports; <<>> where there is no clone
          edges,     \* dependency_graph, by clone: set of [src, tgt]
          ppr,       \* ppr_scores, by clone: set of [file, score]
          artifact,  \* .ailienant/memory.db.zst: [kind, edges, ppr]
          attrs,     \* .gitattributes holds the merge=ours rule
          export,    \* [at, clone, edges, ppr] of an export task
          open,      \* [at, clone, rows] of a window
          crawling,  \* clones whose indexer has been started
          warm,      \* clones whose tables hold an import and nothing else
          was,       \* every pair of tables that is not just an import: what a crawl,
                     \* a pass, or an import into filled tables left
          events     \* events so far
snapshotVars == <<tree, edges, ppr, artifact, attrs, export, open, crawling, warm, was, events>>

File(root, name) == [root |-> root, name |-> name]
NoArtifact == [kind |-> "none", edges |-> {}, ppr |-> {}]
NoExport == [at |-> "idle", clone |-> "", edges |-> {}, ppr |-> {}]
NoWindow == [at |-> "idle", clone |-> "", edges |-> {}, ppr |-> {}]

\* The names that say how a path is written are no clone's root, "up" is no file
\* of the tree, and what the first files import is inside the tree or a library.
ASSUME SnapshotAssumption ==
    /\ {"rel", "module"} \cap Clones = {} /\ FirstClone \in Clones
    /\ "up" \notin SourceFiles
    /\ \A t \in FirstTrees :
           /\ t = [f \in SourceFiles |-> t[f]]
           /\ \A f \in SourceFiles : \A p \in t[f] :
                  p = File(p.root, p.name) /\ p.root \notin Clones

(***************************************************************************)
(* Portability of the paths.                                               *)
(***************************************************************************)
IsPathTarget(p) == p.root # "module"

RelativizeFile(p, c) == IF p.root = c THEN File("rel", p.name) ELSE p

(* None (an empty set) for a path outside the local root.                  *)
AbsolutizeFile(p, c) ==
    CASE p.root = "rel" /\ p.name # "up" -> {File(c, p.name)}
      [] p.root = c -> {p}
      [] OTHER -> {}

PortableTarget(p, c) == IF IsPathTarget(p) THEN RelativizeFile(p, c) ELSE p
LocalTarget(p, c) == IF IsPathTarget(p) THEN AbsolutizeFile(p, c) ELSE {p}

PortableEdges(rows, c) ==
    {[src |-> RelativizeFile(r.src, c), tgt |-> PortableTarget(r.tgt, c)] : r \in rows}
PortableScores(rows, c) == {[file |-> RelativizeFile(r.file, c), score |-> r.score] : r \in rows}

LocalEdges(rows, c) ==
    UNION {{[src |-> s, tgt |-> t] : s \in AbsolutizeFile(r.src, c), t \in LocalTarget(r.tgt, c)}
             : r \in rows}
LocalScores(rows, c) ==
    UNION {{[file |-> f, score |-> r.score] : f \in AbsolutizeFile(r.file, c)} : r \in rows}

(***************************************************************************)
(* The tables of a clone.                                                  *)
(***************************************************************************)
RootedAt(p, c) == IF p.root = "rel" THEN File(c, p.name) ELSE p
Outgoing(f, c) == {[src |-> File(c, f), tgt |-> RootedAt(t, c)] : t \in tree[c][f]}

(* Replace the outgoing rows of one file.                                  *)
ReplaceOutgoing(rows, f, c) == {r \in rows : r.src # File(c, f)} \cup Outgoing(f, c)

Importers(rows, p) == Cardinality({r.src : r \in {q \in rows : q.tgt = p}})
Nodes(rows) == {r.src : r \in rows} \cup {r.tgt : r \in {q \in rows : IsPathTarget(q.tgt)}}
UpsertScores(scores, rows) ==
    {s \in scores : s.file \notin Nodes(rows)}
        \cup {[file |-> p, score |-> Importers(rows, p)] : p \in Nodes(rows)}

(* INSERT OR REPLACE in one transaction.                                   *)
BulkImportEdges(c, rows) == edges[c] \cup rows
BulkImportScores(c, rows) ==
    {s \in ppr[c] : \A r \in rows : r.file # s.file} \cup rows

SnapshotInit ==
    /\ \E t \in FirstTrees : tree = [c \in Clones |-> IF c = FirstClone THEN t ELSE <<>>]
    /\ edges = [c \in Clones |-> {}]
    /\ ppr = [c \in Clones |-> {}]
    /\ artifact = [c \in Clones |-> NoArtifact]
    /\ attrs = [c \in Clones |-> FALSE]
    /\ export = [e \in Exporters |-> NoExport]
    /\ open = [w \in Windows |-> NoWindow]
    /\ crawling = {FirstClone}
    /\ warm = {}
    /\ was = {}
    /\ events = 0

Checked(c) == tree[c] # <<>>
Counts == events < MaxRepoEvents /\ events' = events + 1
Records(c) == was' = was \cup {[edges |-> PortableEdges(edges'[c], c), ppr |-> PortableScores(ppr'[c], c)]}

(***************************************************************************)
(* Opening a workspace: import, then start the indexer.                    *)
(***************************************************************************)
WindowGoes(w, r) == open' = [open EXCEPT ![w] = r]

(* The artifact exists and the project has no edges, or the import is      *)
(* skipped and the indexer starts.                                         *)
OpenWorkspace(w) == \E c \in Clones :
    /\ open[w].at = "idle" /\ Checked(c)
    /\ IF artifact[c].kind # "none" /\ edges[c] = {}
       THEN WindowGoes(w, [NoWindow EXCEPT !.at = "parse", !.clone = c]) /\ UNCHANGED crawling
       ELSE WindowGoes(w, [NoWindow EXCEPT !.at = "opened", !.clone = c]) /\ crawling' = crawling \cup {c}
    /\ UNCHANGED <<tree, edges, ppr, artifact, attrs, export, warm, was, events>>

(* In a thread: a truncated, oversized or foreign file is no snapshot.     *)
DecompressAndParse(w) ==
    LET c == open[w].clone
        ok == artifact[c].kind = "whole"
    IN /\ open[w].at = "parse"
       /\ WindowGoes(w, IF ok THEN [open[w] EXCEPT !.at = "store",
                                             !.edges = LocalEdges(artifact[c].edges, c),
                                             !.ppr = LocalScores(artifact[c].ppr, c)]
                        ELSE [open[w] EXCEPT !.at = "opened"])
       /\ crawling' = IF ok THEN crawling ELSE crawling \cup {c}
       /\ UNCHANGED <<tree, edges, ppr, artifact, attrs, export, warm, was, events>>

ImportSnapshot(w) ==
    LET c == open[w].clone
        fresh == edges[c] = {} /\ ppr[c] = {}
        some == open[w].edges # {} \/ open[w].ppr # {}
    IN /\ open[w].at = "store"
       /\ edges' = [edges EXCEPT ![c] = BulkImportEdges(c, open[w].edges)]
       /\ ppr' = [ppr EXCEPT ![c] = BulkImportScores(c, open[w].ppr)]
       /\ warm' = IF fresh /\ some THEN warm \cup {c} ELSE IF some THEN warm \ {c} ELSE warm
       /\ crawling' = crawling \cup {c}
       /\ IF some /\ ~fresh THEN Records(c) ELSE UNCHANGED was
       /\ WindowGoes(w, [NoWindow EXCEPT !.at = "opened", !.clone = c])
       /\ UNCHANGED <<tree, artifact, attrs, export, events>>

(***************************************************************************)
(* The indexer and the analytics pass, each one transaction.               *)
(***************************************************************************)
CrawlFile(c) == \E f \in SourceFiles :
    /\ c \in crawling /\ Counts
    /\ edges' = [edges EXCEPT ![c] = ReplaceOutgoing(@, f, c)]
    /\ edges' # edges
    /\ warm' = warm \ {c}
    /\ UNCHANGED ppr /\ Records(c)
    /\ UNCHANGED <<tree, artifact, attrs, export, open, crawling>>

Analytics(c) ==
    /\ c \in crawling /\ edges[c] # {} /\ Counts
    /\ ppr' = [ppr EXCEPT ![c] = UpsertScores(@, edges[c])]
    /\ ppr' # ppr
    /\ warm' = warm \ {c}
    /\ UNCHANGED edges /\ Records(c)
    /\ UNCHANGED <<tree, artifact, attrs, export, open, crawling>>

(***************************************************************************)
(* Export: read both tables, build and compress, write, and register the   *)
(* merge rule.  A failure of any step ends the task without an artifact.   *)
(***************************************************************************)
Exports(e, r) == export' = [export EXCEPT ![e] = r]

(* Both SELECTs inside one deferred transaction.                           *)
ReadProjectGraph(e) == \E c \in Clones :
    /\ export[e].at = "idle" /\ Checked(c)
    /\ Exports(e, [at |-> "build", clone |-> c, edges |-> edges[c], ppr |-> ppr[c]])
    /\ UNCHANGED <<tree, edges, ppr, artifact, attrs, open, crawling, warm, was, events>>

(* Mutant: the second table is read when the file is built. *)
Rebuilt(e) == [edges |-> PortableEdges(export[e].edges, export[e].clone),
               ppr |-> PortableScores(ppr[export[e].clone], export[e].clone)]
Built(e) == [edges |-> PortableEdges(export[e].edges, export[e].clone),
             ppr |-> PortableScores(export[e].ppr, export[e].clone)]

BuildAndCompress(e) ==
    /\ export[e].at = "build"
    /\ Exports(e, [export[e] EXCEPT !.at = "write", !.edges = Built(e).edges, !.ppr = Built(e).ppr])
    /\ UNCHANGED <<tree, edges, ppr, artifact, attrs, open, crawling, warm, was, events>>

(* A temporary file beside the final one, then one rename.                 *)
AtomicWrite(e) ==
    /\ export[e].at = "write"
    /\ artifact' = [artifact EXCEPT ![export[e].clone] =
                        [kind |-> "whole", edges |-> export[e].edges, ppr |-> export[e].ppr]]
    /\ Exports(e, [export[e] EXCEPT !.at = "attrs"])
    /\ UNCHANGED <<tree, edges, ppr, attrs, open, crawling, warm, was, events>>

EnsureGitattributes(e) ==
    /\ export[e].at = "attrs"
    /\ attrs' = [attrs EXCEPT ![export[e].clone] = TRUE]
    /\ Exports(e, NoExport)
    /\ UNCHANGED <<tree, edges, ppr, artifact, open, crawling, warm, was, events>>

ExportFails(e) ==
    /\ export[e].at \in {"build", "write", "attrs"}
    /\ Exports(e, NoExport)
    /\ UNCHANGED <<tree, edges, ppr, artifact, attrs, open, crawling, warm, was, events>>

(***************************************************************************)
(* The repository around it: a save, a fresh clone, a damaged artifact, a  *)
(* row that names a path outside.                                          *)
(***************************************************************************)
SaveSource(c) == \E f \in SourceFiles, t \in {{}, {File("module", "m")}} :
    /\ Checked(c) /\ tree[c][f] # t /\ Counts
    /\ tree' = [tree EXCEPT ![c][f] = t]
    /\ UNCHANGED <<edges, ppr, artifact, attrs, export, open, crawling, warm, was>>

CloneRepository(c) == \E d \in Clones :
    /\ ~Checked(c) /\ Checked(d)
    /\ tree' = [tree EXCEPT ![c] = tree[d]]
    /\ artifact' = [artifact EXCEPT ![c] = artifact[d]]
    /\ attrs' = [attrs EXCEPT ![c] = attrs[d]]
    /\ UNCHANGED <<edges, ppr, export, open, crawling, warm, was, events>>

Outside == [src |-> File("rel", "up"), tgt |-> File("module", "m")]
DamageArtifact(c) ==
    /\ artifact[c].kind = "whole" /\ Counts
    /\ artifact' \in {[artifact EXCEPT ![c].kind = "corrupt"],
                      [artifact EXCEPT ![c].edges = @ \cup {Outside}]}
    /\ UNCHANGED <<tree, edges, ppr, attrs, export, open, crawling, warm, was>>

SnapshotNext ==
    \/ \E w \in Windows : OpenWorkspace(w) \/ DecompressAndParse(w) \/ ImportSnapshot(w)
    \/ \E c \in Clones : CrawlFile(c) \/ Analytics(c)
    \/ \E e \in Exporters : ReadProjectGraph(e) \/ BuildAndCompress(e) \/ AtomicWrite(e)
                              \/ EnsureGitattributes(e) \/ ExportFails(e)
    \/ \E c \in Clones : SaveSource(c) \/ CloneRepository(c) \/ DamageArtifact(c)

SnapshotSpec == SnapshotInit /\ [][SnapshotNext]_snapshotVars

(***************************************************************************)
(* Properties.                                                             *)
(***************************************************************************)
InTree(p) == p.root = "module" \/ (p.root = "rel" /\ p.name # "up")
InOwnTree(p) == p.root = "rel" /\ p.name # "up"
InsideEdges(rows) == {r \in rows : InOwnTree(r.src) /\ InTree(r.tgt)}
InsideScores(rows) == {r \in rows : InOwnTree(r.file)}

(* A clone that warm-started and has not crawled since holds exactly the   *)
(* in-tree part of a graph and the scores another clone had at ONE moment, *)
(* at its own root: nothing is torn between the two tables by an export    *)
(* that runs beside the analytics pass, and no row of the other machine's  *)
(* root or from outside the tree gets in (memory_snapshot.py:117, 330).    *)
WarmIsOneMoment ==
    \A c \in warm : \E w \in was \cup {[edges |-> {}, ppr |-> {}]} :
        /\ PortableEdges(edges[c], c) = InsideEdges(w.edges)
        /\ PortableScores(ppr[c], c) = InsideScores(w.ppr)

(* Every row of a clone's tables has its source in the clone's own tree,   *)
(* whatever the committed artifact says (memory_snapshot.py:95).           *)
RowsAreLocal == \A c \in Clones : \A r \in edges[c] : r.src.root = c /\ r.src.name # "up"

(* A warm start gives a clone one moment of another's graph, at its own    *)
(* root, and no row of elsewhere.                                          *)
WarmStartMatches == WarmIsOneMoment /\ RowsAreLocal
=============================================================================
