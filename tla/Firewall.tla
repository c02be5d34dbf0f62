------------------------------ MODULE Firewall ------------------------------
(***************************************************************************)
(* Reading a project file for a prompt (core/vfs_middleware.py read_safe,  *)
(* core/path_guard.py, core/rules.py).  A read passes the workspace jail,  *)
(* the exclude patterns of the project's and the user's rule files, the    *)
(* ignore files, and the limits on what is worth a prompt.  The rules are  *)
(* cached in one unlocked singleton keyed by the rule files' mtimes, which *)
(* the event loop and the worker threads of the search tools share; the    *)
(* ignore files are compiled once per project, under a lock.               *)
(***************************************************************************)
EXTENDS Naturals, FiniteSets

CONSTANTS
    Callers,        \* the event loop and the worker threads
    Projects,
    Files,          \* relative paths; every project has them all
    KindOf,         \* file -> "text", "outside", "binary", "large" or "minified"
    Patterns,       \* the file sets that rule and ignore files may match
    Buffers,        \* the file sets that may be open and unsaved
    HasRules,       \* the projects that begin with a rule file
    MaxReads,       \* calls in a behaviour
    MaxChanges      \* changes of rule files, ignore files and buffers

\* A project is a directory; the user's own rule file is no project's.
ASSUME FirewallAssumption == "global" \notin Projects

VARIABLES
    rules,          \* project -> its .ailienant.json: [mtime, excl]; mtime 0: no file
    global,         \* the user's own rule file, likewise
    ignores,        \* project -> what .gitignore and .ailienantignore match
    specs,          \* project -> [known, match]: the compiled ignore spec
    ram,            \* files of the open project held as unsaved buffers
    mgr,            \* RuleManager: _cache_key, whether text is cached, _cached_exclude_spec
    reading,        \* caller -> the call it is in
    overlapped,     \* two calls have been inside the rule cache at a time
    reads, changes

firewallVars == <<rules, global, ignores, specs, ram, mgr, reading, overlapped, reads, changes>>

NoKey == {<<"none">>}
NoCall == [pc |-> "idle"]

\* Mutant: the key names the files only.
CandidateNames(p) ==
    (IF rules[p].mtime > 0 THEN {<<p>>} ELSE {}) \cup (IF global.mtime > 0 THEN {<<"global">>} ELSE {})

\* The rule files that exist, with their mtimes.
CandidatePaths(p) ==
    (IF rules[p].mtime > 0 THEN {<<p, rules[p].mtime>>} ELSE {})
    \cup (IF global.mtime > 0 THEN {<<"global", global.mtime>>} ELSE {})

CacheKey(p) == CandidatePaths(p)

Names(key) == {path[1] : path \in key}

\* Exclude patterns of the two scopes are united; no pattern is dropped.  Only
\* the files that existed when the key was made are opened.
MergeExcludePatterns(p, key) ==
    (IF p \in Names(key) THEN rules[p].excl ELSE {})
    \cup (IF "global" \in Names(key) THEN global.excl ELSE {})

Inside(c) == reading[c].pc \in {"load", "publish", "compile", "decide"}
Moves(c, pc) == reading' = [reading EXCEPT ![c].pc = pc]
Answers(c, verdict) == reading' = [reading EXCEPT ![c].pc = "done", ![c].verdict = verdict]
fileVars == <<rules, global, ignores, ram>>

---------------------------------------------------------------------------
(* A call: get_combined_rules for a prompt, or read_safe for a file.        *)

\* The jail comes before anything else; then the key of the moment decides
\* whether the cached rules still stand.
BeginRead(c, p, kind, f) ==
    LET escape == kind = "read" /\ KindOf[f] = "outside"
        hit == mgr.primed /\ mgr.key = CacheKey(p)
    IN  /\ reading[c].pc = "idle" /\ reads < MaxReads
        /\ reads' = reads + 1
        /\ reading' = [reading EXCEPT ![c] =
                       [pc |-> IF escape THEN "done" ELSE IF ~hit THEN "load"
                               ELSE IF kind = "read" THEN "decide" ELSE "done",
                        project |-> p, kind |-> kind, file |-> f, key |-> CacheKey(p), excl |-> {},
                        verdict |-> IF escape THEN "PATH_ESCAPE" ELSE "none"]]
        /\ overlapped' = (overlapped \/ \E d \in Callers \ {c} : Inside(d))
        /\ UNCHANGED <<fileVars, specs, mgr, changes>>

\* Both files are opened and merged.
Load(c) ==
    /\ reading[c].pc = "load"
    /\ reading' = [reading EXCEPT ![c].pc = "publish",
                            ![c].excl = MergeExcludePatterns(reading[c].project, reading[c].key)]
    /\ UNCHANGED <<fileVars, specs, mgr, overlapped, reads, changes>>

\* The key and the text are stored before the exclude spec is compiled.
Publish(c) ==
    /\ reading[c].pc = "publish"
    /\ mgr' = [mgr EXCEPT !.key = reading[c].key, !.primed = TRUE]
    /\ Moves(c, "compile")
    /\ UNCHANGED <<fileVars, specs, overlapped, reads, changes>>

Compile(c) ==
    /\ reading[c].pc = "compile"
    /\ mgr' = [mgr EXCEPT !.spec = reading[c].excl]
    /\ Moves(c, IF reading[c].kind = "read" THEN "decide" ELSE "done")
    /\ UNCHANGED <<fileVars, specs, overlapped, reads, changes>>

\* is_excluded looks at the manager's spec, not at the rules it asked for.
IsExcluded(c) ==
    /\ reading[c].pc = "decide"
    /\ IF reading[c].file \in mgr.spec THEN Answers(c, "FILE_EXCLUDED") ELSE Moves(c, "ignore")
    /\ UNCHANGED <<fileVars, specs, mgr, overlapped, reads, changes>>

\* The ignore files are read the first time a project needs them, and never again.
LoadIgnoreSpec(c) ==
    LET p == reading[c].project
        match == IF specs[p].known THEN specs[p].match ELSE ignores[p]
    IN  /\ reading[c].pc = "ignore"
        /\ specs' = [specs EXCEPT ![p] = [known |-> TRUE, match |-> match]]
        /\ IF reading[c].file \in match THEN Answers(c, "FILE_IGNORED") ELSE Moves(c, "fit")
        /\ UNCHANGED <<fileVars, mgr, overlapped, reads, changes>>

\* Binary names and large files are refused; a buffer is never too large.
Fits(c) ==
    LET kind == KindOf[reading[c].file] IN
    /\ reading[c].pc = "fit"
    /\ CASE kind = "binary" -> Answers(c, "BINARY_FILE")
         [] kind = "large" /\ reading[c].file \notin ram -> Answers(c, "FILE_TOO_LARGE")
         [] OTHER -> Moves(c, "fetch")
    /\ UNCHANGED <<fileVars, specs, mgr, overlapped, reads, changes>>

\* The text, from the buffer or the disk, unless it looks minified or is gone.
Fetch(c) ==
    /\ reading[c].pc = "fetch"
    /\ \E verdict \in IF KindOf[reading[c].file] = "minified" THEN {"MINIFIED"}
                      ELSE {"content"} \cup (IF reading[c].file \in ram THEN {} ELSE {"READ_ERROR"}) :
          Answers(c, verdict)
    /\ UNCHANGED <<fileVars, specs, mgr, overlapped, reads, changes>>

\* The reader of make_safe_reader hands on the content, or nothing.
Return(c) ==
    /\ reading[c].pc = "done"
    /\ reading' = [reading EXCEPT ![c] = NoCall]
    /\ UNCHANGED <<fileVars, specs, mgr, overlapped, reads, changes>>

---------------------------------------------------------------------------
(* What changes underneath.                                                 *)

Change == changes < MaxChanges /\ changes' = changes + 1

\* The user saves a rule file.
SaveRules(p, excl) ==
    /\ Change
    /\ rules' = [rules EXCEPT ![p] = [mtime |-> @.mtime + 1, excl |-> excl]]
    /\ UNCHANGED <<global, ignores, specs, ram, mgr, reading, overlapped, reads>>

SaveGlobal(excl) ==
    /\ Change
    /\ global' = [mtime |-> global.mtime + 1, excl |-> excl]
    /\ UNCHANGED <<rules, ignores, specs, ram, mgr, reading, overlapped, reads>>

\* append_local_rule: the file is rewritten with every other key kept, then the
\* cache is reset, on the event loop but not for the threads.
AppendLocalRule(p) ==
    /\ Change
    /\ rules' = [rules EXCEPT ![p].mtime = @ + 1]
    /\ mgr' = [key |-> NoKey, primed |-> FALSE, spec |-> {}]
    /\ overlapped' = (overlapped \/ \E d \in Callers : Inside(d))
    /\ UNCHANGED <<global, ignores, specs, ram, reading, reads>>

SaveIgnores(p, match) ==
    /\ Change
    /\ ignores' = [ignores EXCEPT ![p] = match]
    /\ UNCHANGED <<rules, global, specs, ram, mgr, reading, overlapped, reads>>

\* A submission replaces the buffers.
Ingest(buffers) ==
    /\ Change
    /\ ram' = buffers
    /\ UNCHANGED <<rules, global, ignores, specs, mgr, reading, overlapped, reads>>

FirewallInit ==
    /\ rules = [p \in Projects |-> [mtime |-> IF p \in HasRules THEN 1 ELSE 0, excl |-> {}]]
    /\ global = [mtime |-> 0, excl |-> {}]
    /\ ignores = [p \in Projects |-> {}]
    /\ specs = [p \in Projects |-> [known |-> FALSE, match |-> {}]]
    /\ ram = {}
    /\ mgr = [key |-> NoKey, primed |-> FALSE, spec |-> {}]
    /\ reading = [c \in Callers |-> NoCall]
    /\ overlapped = FALSE /\ reads = 0 /\ changes = 0

FirewallNext ==
    \/ \E c \in Callers :
          \/ \E p \in Projects : BeginRead(c, p, "rules", "") \/ \E f \in Files : BeginRead(c, p, "read", f)
          \/ Load(c) \/ Publish(c) \/ Compile(c) \/ IsExcluded(c)
          \/ LoadIgnoreSpec(c) \/ Fits(c) \/ Fetch(c) \/ Return(c)
    \/ \E p \in Projects, fs \in Patterns : SaveRules(p, fs) \/ SaveIgnores(p, fs)
    \/ \E fs \in Patterns : SaveGlobal(fs)
    \/ \E fs \in Buffers : Ingest(fs)
    \/ \E p \in Projects : AppendLocalRule(p)

FirewallSpec == FirewallInit /\ [][FirewallNext]_firewallVars

---------------------------------------------------------------------------
(* Properties.                                                              *)

\* As long as no two callers have met in the rule cache, what the cache holds
\* under its key is what the rule files of that key say: a key that matches the
\* files of a project never answers with other patterns than theirs.
CachedRulesAreTheirs ==
    (~overlapped /\ ~\E c \in Callers : Inside(c)) =>
        \A p \in Projects : (mgr.primed /\ mgr.key = CacheKey(p)) => mgr.spec = MergeExcludePatterns(p, CacheKey(p))

=============================================================================
