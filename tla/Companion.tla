----------------------------- MODULE Companion -----------------------------
(***************************************************************************)
(* The explanations that accompany a mission (brain/coder_companion.py)    *)
(* and the response cache they share with the planner and the coder        *)
(* (core/response_cache.py).  A decision point starts a background job     *)
(* that nobody awaits: it is admitted against a per-task ceiling, waits    *)
(* for a slot, yields to a busy GPU, asks the cache and then the judge     *)
(* model, and announces what it has, if only that it has nothing.          *)
(***************************************************************************)
EXTENDS Naturals, Sequences, FiniteSets

CONSTANTS
    Tasks,          \* task ids; the code uses the same id for the session
    Contexts,       \* what a point is about: patches, or the scope's summary
    FilesOf,        \* the files each context refers to
    Cap,            \* _MAX_COMPANION_EMISSIONS_PER_TASK
    Slots,          \* _companion_semaphore
    MaxEntries,     \* SemanticResponseCache._max_entries
    LocalJudge,     \* the judge tier resolves to a local model
    Attempts,       \* retry counts, the ordinal of a coding point
    MaxJobs,        \* decision points in a behaviour
    MaxChurn        \* file saves and expiries in a behaviour

Scopes == {"coding", "planning", "ideation"}   \* "healing" takes the path of "planning"
Files == UNION {FilesOf[c] : c \in Contexts}

VARIABLES
    jobs,           \* the background tasks, in the order they were scheduled
    emitted,        \* _companion_emission_counts
    free,           \* slots of the semaphore
    holder,         \* the task whose turn holds the GPU lock, if any
    cache,          \* _cache: key -> value
    order,          \* the order of _cache, least recently used first
    keyPaths,       \* _key_paths
    paths,          \* _paths
    board,          \* the client's cards: emission id -> the analysis shown
    churn

cacheVars == <<cache, order, keyPaths, paths>>
companionVars == <<jobs, emitted, free, holder, cacheVars, board, churn>>

NoTurn == "none"
Another == "another"        \* a turn outside these tasks
Unavailable == "unavailable"
Nothing == [k \in {} |-> k]

BuildKey(j) == [task |-> j.task, scope |-> j.scope, attempt |-> j.attempt, about |-> j.about]
EmissionId(j) == [task |-> j.task, scope |-> j.scope, attempt |-> j.attempt]

Goes(i, pc) == jobs' = [jobs EXCEPT ![i].pc = pc]
Concludes(i, what) == jobs' = [jobs EXCEPT ![i].pc = "announcing", ![i].says = what]

---------------------------------------------------------------------------
(* The cache.  Its tables move together.                                    *)

Tables(c, o, k, p) == [cache |-> c, order |-> o, keyPaths |-> k, paths |-> p]
Now == Tables(cache, order, keyPaths, paths)
Except(f, keys) == [k \in DOMAIN f \ keys |-> f[k]]
Without(o, keys) == SelectSeq(o, LAMBDA k : k \notin keys)
FilesFor(t, key) == IF key \in DOMAIN t.keyPaths THEN t.keyPaths[key] ELSE {}

\* Mutant: the eviction pops the entries and their lists of files, not the index.
DropForwardOnly(t, keys) ==
    Tables(Except(t.cache, keys), Without(t.order, keys), Except(t.keyPaths, keys), t.paths)

\* The one way out of the cache, for one key or, under one lock, for several: the
\* reverse index is scrubbed at the files listed for a key, and no empty set stays.
DropLocked(t, keys) ==
    LET left == [f \in DOMAIN t.paths |->
                    {k \in t.paths[f] : k \notin keys \/ f \notin FilesFor(t, k)}]
    IN  Tables(Except(t.cache, keys), Without(t.order, keys), Except(t.keyPaths, keys),
               [f \in {g \in DOMAIN left : left[g] # {}} |-> left[f]])

\* A hit moves to the young end.
ProbeHit(key) ==
    order' = Append(Without(order, {key}), key) /\ UNCHANGED <<cache, keyPaths, paths>>

Put(t, key, value, files) ==
    Tables([k \in DOMAIN t.cache \cup {key} |-> IF k = key THEN value ELSE t.cache[k]],
           Append(Without(t.order, {key}), key),
           [k \in DOMAIN t.keyPaths \cup {key} |->
               FilesFor(t, k) \cup (IF k = key THEN files ELSE {})],
           [f \in DOMAIN t.paths \cup files |->
               (IF f \in DOMAIN t.paths THEN t.paths[f] ELSE {})
               \cup (IF f \in files THEN {key} ELSE {})])

Store(t, key, value, files) ==
    LET put == Put(t, key, value, files)
    IN  IF Len(put.order) > MaxEntries THEN DropLocked(put, {put.order[1]}) ELSE put

TablesBecome(t) ==
    cache' = t.cache /\ order' = t.order /\ keyPaths' = t.keyPaths /\ paths' = t.paths

\* A saved or purged file takes every answer that depended on it along.
InvalidatePath(f) ==
    /\ churn < MaxChurn /\ f \in DOMAIN paths
    /\ churn' = churn + 1
    /\ TablesBecome(DropLocked(Now, paths[f]))
    /\ UNCHANGED <<jobs, emitted, free, holder, board>>

---------------------------------------------------------------------------
(* A job.                                                                   *)

\* Fire and forget: the coder and the analyst go on at once.
Schedule(t, scope, retry, about) ==
    /\ Len(jobs) < MaxJobs
    /\ jobs' = Append(jobs, [task |-> t, scope |-> scope, attempt |-> retry,
                             about |-> about, pc |-> "scheduled", says |-> Unavailable])
    /\ UNCHANGED <<emitted, free, holder, cacheVars, board, churn>>

\* The task's ceiling first; an interview's job is dropped, its place in the
\* count kept, when the judge shares the local engine with the interview; a run
\* over its budget announces at once that there is nothing.
Admit(i) ==
    LET j == jobs[i] IN
    /\ j.pc = "scheduled"
    /\ \/ /\ emitted[j.task] >= Cap
          /\ Goes(i, "dropped") /\ UNCHANGED emitted
       \/ /\ emitted[j.task] < Cap
          /\ emitted' = [emitted EXCEPT ![j.task] = @ + 1]
          /\ IF j.scope = "ideation" /\ LocalJudge THEN Goes(i, "dropped")
             ELSE Goes(i, "waiting") \/ Concludes(i, Unavailable)
    /\ UNCHANGED <<free, holder, cacheVars, board, churn>>

EnterSlot(i) ==
    /\ jobs[i].pc = "waiting" /\ free > 0
    /\ free' = free - 1
    /\ Goes(i, "probing")
    /\ UNCHANGED <<emitted, holder, cacheVars, board, churn>>

\* The lock is looked at, never taken: a local judge yields to another turn.
GpuSlotAvailable(i) == LocalJudge => holder \in {NoTurn, jobs[i].task}

Probe(i) ==
    LET key == BuildKey(jobs[i]) IN
    /\ jobs[i].pc = "probing"
    /\ \/ /\ ~GpuSlotAvailable(i)
          /\ Concludes(i, Unavailable) /\ free' = free + 1
          /\ UNCHANGED cacheVars
       \/ /\ GpuSlotAvailable(i) /\ key \in DOMAIN cache
          /\ ProbeHit(key)
          /\ Concludes(i, cache[key]) /\ free' = free + 1
       \/ /\ GpuSlotAvailable(i) /\ key \notin DOMAIN cache
          /\ Goes(i, "calling") /\ UNCHANGED <<free, cacheVars>>
    /\ UNCHANGED <<emitted, holder, board, churn>>

\* No choices, a provider fault, or the deadline: nothing is cached.
JudgeFails(i) ==
    /\ jobs[i].pc = "calling"
    /\ Concludes(i, Unavailable)
    /\ free' = free + 1
    /\ UNCHANGED <<emitted, holder, cacheVars, board, churn>>

\* What the judge wrote is cached as it is, and parsed: text that is not the
\* object asked for reads as unavailable, now and on every later hit.
JudgeAnswers(i) ==
    /\ jobs[i].pc = "calling"
    /\ \E value \in {jobs[i].about, Unavailable} :
          /\ Concludes(i, value)
          /\ TablesBecome(Store(Now, BuildKey(jobs[i]), value,
                           IF jobs[i].scope = "coding" THEN FilesOf[jobs[i].about] ELSE {}))
    /\ free' = free + 1
    /\ UNCHANGED <<emitted, holder, board, churn>>

\* The client replaces a card that has the same emission id, and appends any other.
Announce(i) ==
    /\ jobs[i].pc = "announcing"
    /\ Goes(i, "announced")
    /\ board' = [e \in DOMAIN board \cup {EmissionId(jobs[i])} |->
                    IF e = EmissionId(jobs[i]) THEN [point |-> i, says |-> jobs[i].says]
                    ELSE board[e]]
    /\ UNCHANGED <<emitted, free, holder, cacheVars, churn>>

\* Turns take and release the GPU lock, and entries grow too old.
GpuTurn ==
    /\ churn < MaxChurn /\ churn' = churn + 1
    /\ \E t \in Tasks \cup {NoTurn, Another} : t # holder /\ (t = NoTurn \/ holder = NoTurn) /\ holder' = t
    /\ UNCHANGED <<jobs, emitted, free, cacheVars, board>>

Expire(key) ==
    /\ churn < MaxChurn /\ churn' = churn + 1
    /\ TablesBecome(DropLocked(Now, {key}))
    /\ UNCHANGED <<jobs, emitted, free, holder, board>>

CompanionInit ==
    /\ jobs = <<>> /\ emitted = [t \in Tasks |-> 0] /\ free = Slots /\ holder = NoTurn
    /\ cache = Nothing /\ order = <<>> /\ keyPaths = Nothing /\ paths = Nothing
    /\ board = Nothing /\ churn = 0

JobSteps(i) ==
    Admit(i) \/ EnterSlot(i) \/ Probe(i) \/ JudgeFails(i) \/ JudgeAnswers(i) \/ Announce(i)

CompanionNext ==
    \/ \E t \in Tasks, s \in Scopes, a \in Attempts, c \in Contexts : Schedule(t, s, a, c)
    \/ \E i \in DOMAIN jobs : JobSteps(i)
    \/ \E f \in Files : InvalidatePath(f)
    \/ \E key \in DOMAIN cache : Expire(key)
    \/ GpuTurn

CompanionSpec == CompanionInit /\ [][CompanionNext]_companionVars

---------------------------------------------------------------------------
(* Properties.                                                              *)

\* The reverse index of the response cache names exactly the entries that are
\* in it, whichever way entries left: eviction, expiry or a saved file.
CacheIndexIsExact ==
    /\ DOMAIN keyPaths = DOMAIN cache
    /\ paths = [f \in UNION {keyPaths[k] : k \in DOMAIN keyPaths} |->
                   {k \in DOMAIN keyPaths : f \in keyPaths[k]}]

\* An explanation that is announced explains the point it was made for, also
\* when the cache answered.
ExplanationsFit ==
    \A i \in DOMAIN jobs :
        jobs[i].pc \in {"announcing", "announced"} => jobs[i].says \in {jobs[i].about, Unavailable}

\* The response cache's index names exactly its entries, and an explanation that
\* is announced explains its own point (response_cache.py, coder_companion.py).
CacheIsSound == CacheIndexIsExact /\ ExplanationsFit

=============================================================================
