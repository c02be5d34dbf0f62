------------------------------ MODULE Toolbox ------------------------------
(***************************************************************************)
(* How an agent gets its tools and what a tool call must pass              *)
(* (core/tool_rag.py, core/deferred_tool_loader.py, core/tool_registry.py, *)
(* core/tool_dispatch.py, the gate of tools/coder_tools.py).  Tool         *)
(* families register their schemas in one store: at boot one after the     *)
(* other, later from every MCP server that connects.  A worker asks the    *)
(* store for the schemas its role and the session's mode may see, has them *)
(* resolved to callables and runs a bounded reason-call-observe loop.  A   *)
(* command tool asks the human once per task; the grant is shared by the   *)
(* workers of the task, which run side by side.                            *)
(*                                                                         *)
(* Abstractions: a schema is its name, roles and tier; the rank of a       *)
(* schema for an intent is arbitrary; arguments are "risky" or not; the    *)
(* size of a catalog is the number of its schemas; a reply calls at most   *)
(* one tool (the calls of one reply are dispatched one after the other).   *)
(***************************************************************************)
EXTENDS Naturals, Sequences, FiniteSets

CONSTANTS BootSchemas,   \* what the families register at boot, in order: [tool, roles, tier]
          McpSchemas,    \* what servers may list later
          FamilyTools,   \* tool dictionaries of the delegated families: [tool, roles, tier]
          FactoryTools,  \* tools built from the schema selected
          Unregistered,  \* _INTENTIONALLY_UNREGISTERED
          LoopUnsafe,    \* _NO_AUTONOMOUS_LOOP
          CommandTools,  \* tools whose run is a gated command
          Workers,       \* agents of a task that run side by side
          RoleOf,        \* the role of each worker
          Grounding,     \* workers that are the coder's read-only pre-pass
          TaskModes,     \* session modes of the tasks
          EagerLimit,    \* schemas that fit the context budget
          TopK,          \* schemas a retrieval may return
          SearchLimit,   \* rows a search fetches, max(4 TopK, 32)
          MaxLoop        \* iterations of a worker's loop

VARIABLES store,    \* the schema stored under each name, <<>> for none
          booted,   \* registrations of the boot that were tried
          embeds,   \* registrations waiting for their embedding
          listed,   \* registrations that reached the store
          task,     \* a task of the session runs
          mode,     \* its session mode
          trust,    \* tools the human approved (_session_trust)
          worker,   \* what each worker does
          asked,    \* tools the human approved in this task
          ran       \* commands that ran in this task: [tool, risky]
toolboxVars == <<store, booted, embeds, listed, task, mode, trust, worker, asked, ran>>

Tiers == <<"READ_ONLY", "WRITE", "EXECUTE", "DANGEROUS">>
Rank(t) == CHOOSE i \in 1 .. 4 : Tiers[i] = t
StricterTier(a, b) == IF Rank(a) >= Rank(b) THEN a ELSE b

AllSchemas == {BootSchemas[i] : i \in DOMAIN BootSchemas} \cup McpSchemas
ToolNames == {r.tool : r \in AllSchemas}
Schemas == [tool : ToolNames, roles : SUBSET UNION {r.roles : r \in AllSchemas},
            tier : {"READ_ONLY", "WRITE", "EXECUTE", "DANGEROUS"}]
Off == [at |-> "idle", seen |-> {}, tools |-> {}, left |-> 0, tool |-> "none", risky |-> FALSE]

ToolboxInit ==
    /\ store = [t \in ToolNames |-> <<>>]
    /\ booted = 0 /\ embeds = {} /\ listed = {}
    /\ task = FALSE /\ mode = "CAUTIOUS" /\ trust = {}
    /\ worker = [w \in Workers |-> Off]
    /\ asked = {} /\ ran = {}

storeVars == <<store, booted, embeds, listed>>
workVars == <<task, mode, trust, worker, asked, ran>>

(***************************************************************************)
(* The store.  A registration waits for its embedding and then merges with *)
(* the row it finds: roles are united, the stricter tier wins.             *)
(***************************************************************************)

MergeWithExisting(r) ==
    IF store[r.tool] = <<>> THEN r
    ELSE [tool |-> r.tool, roles |-> r.roles \cup store[r.tool].roles,
          tier |-> StricterTier(store[r.tool].tier, r.tier)]

Stores(r) == /\ store' = [store EXCEPT ![r.tool] = MergeWithExisting(r)]
             /\ listed' = listed \cup {r}

(* populate_tool_catalog, before the host serves requests: a family whose  *)
(* embedding fails is skipped.                                             *)
PopulateNext ==
    /\ booted < Len(BootSchemas)
    /\ booted' = booted + 1
    /\ Stores(BootSchemas[booted']) \/ UNCHANGED <<store, listed>>
    /\ UNCHANGED <<embeds, workVars>>

(* A connected server's tools; connects run side by side. *)
RegisterStarts(r) ==
    /\ booted = Len(BootSchemas)
    /\ r \notin listed \cup embeds
    /\ embeds' = embeds \cup {r}
    /\ UNCHANGED <<store, booted, listed, workVars>>

RegisterSchema(r) ==
    /\ r \in embeds
    /\ embeds' = embeds \ {r}
    /\ Stores(r)
    /\ UNCHANGED <<booted, workVars>>

(***************************************************************************)
(* Selection: what the role and the mode may see.                          *)
(***************************************************************************)
Visible(role) ==
    {t \in ToolNames : /\ store[t] # <<>> /\ role \in store[t].roles
                       /\ mode = "PLAN_ONLY" => store[t].tier = "READ_ONLY"}

(* What a search in today's store may fetch, before anything is filtered.  *)
Fetchable ==
    LET rows == {t \in ToolNames : store[t] # <<>>}
    IN {N \in SUBSET rows : /\ Cardinality(N) <= SearchLimit
                            /\ Cardinality(N) < SearchLimit => N = rows}

(* The best k of the ranked; when one of these is read-only, one is        *)
(* swapped in for the last.                                                *)
Best(ranked, k) ==
    {S \in SUBSET ranked :
        /\ Cardinality(S) <= k
        /\ Cardinality(S) < k => S = ranked
        /\ (\E t \in ranked : store[t].tier = "READ_ONLY")
              => \E t \in S : store[t].tier = "READ_ONLY"}

(* The survivors the search fetched, or all of them when it fetched none.  *)
SelectTools(survivors, k) ==
    UNION {Best(IF N \cap survivors = {} THEN survivors ELSE N \cap survivors, k) : N \in Fetchable}

MergeRegistered(t) ==
    LET mine == {FamilyTools[i] : i \in {k \in DOMAIN FamilyTools : FamilyTools[k].tool = t}}
    IN [tool |-> t, roles |-> UNION {r.roles : r \in mine},
        tier |-> (CHOOSE r \in mine : \A o \in mine : Rank(r.tier) >= Rank(o.tier)).tier]

FamilyNames == {FamilyTools[i].tool : i \in DOMAIN FamilyTools}

(* A name nobody builds fails the whole resolution. *)
Resolvable(names) == names \subseteq FamilyNames \cup FactoryTools \cup Unregistered

ResolveTools(names) ==
    {IF t \in FamilyNames THEN MergeRegistered(t) ELSE store[t] :
        t \in names \ Unregistered}

FilterLoopSafe(names) == names \ LoopUnsafe

(* The pre-pass keeps the read-only ones that need no human. *)
ForWorker(w, names) ==
    IF w \in Grounding
    THEN {t \in FilterLoopSafe(names) : store[t].tier = "READ_ONLY" /\ t # "ask_user_question"}
    ELSE FilterLoopSafe(names)

(* A worker without tools answers at once; a resolution that fails leaves  *)
(* it without tools.                                                       *)
EntersLoop(w, names) ==
    LET tools == IF Resolvable(names) THEN ResolveTools(names) ELSE {}
    IN worker' = [worker EXCEPT ![w] =
                    IF tools = {} THEN Off
                    ELSE [Off EXCEPT !.at = "loop", !.tools = tools, !.left = MaxLoop]]

(* The decision matrix, and the guard against risky commands. *)
SessionModes == {"FULL_AUTO", "STANDARD", "CAUTIOUS", "ASK_EXECUTE", "ASK_ALL",
                 "READ_ONLY", "PLAN_ONLY"}
ReadingModes == {"READ_ONLY", "PLAN_ONLY"}

Denied(m, tier) == m \in ReadingModes \/ (m = "ASK_EXECUTE" /\ tier = "DANGEROUS")
Permitted(m, tier) == m = "FULL_AUTO" \/ (m = "STANDARD" /\ tier # "DANGEROUS")

EvaluateTier(m, tier) ==
    IF tier = "READ_ONLY" THEN IF m = "ASK_ALL" THEN "hitl" ELSE "allow"
    ELSE IF Denied(m, tier) THEN "deny"
    ELSE IF Permitted(m, tier) THEN "allow" ELSE "hitl"

RiskIntercept(verdict, m, risky) ==
    IF verdict = "allow" /\ m \in {"FULL_AUTO", "STANDARD"} /\ risky THEN "hitl" ELSE verdict

(* A catalog that fits is handed over whole; otherwise the intent is       *)
(* embedded first.  The pre-pass always retrieves, unless every read would *)
(* need a human.                                                           *)
WorkerStarts(w) ==
    LET seen == Visible(RoleOf[w])
    IN /\ task /\ worker[w].at = "idle" /\ worker[w].left = 0
       /\ w \in Grounding => EvaluateTier(mode, "READ_ONLY") = "allow"
       /\ seen # {}
       /\ IF w \notin Grounding /\ Cardinality(seen) <= EagerLimit
          THEN EntersLoop(w, ForWorker(w, seen))
          ELSE worker' = [worker EXCEPT ![w].at = "select", ![w].seen = seen]
       /\ UNCHANGED <<storeVars, task, mode, trust, asked, ran>>

(* The discovery tool rides along when the worker may see it. *)
WorkerSelects(w) ==
    LET seen == worker[w].seen
        search == IF w \in Grounding THEN {} ELSE {"tool_search"} \cap seen
    IN /\ worker[w].at = "select"
       /\ \/ \E S \in SelectTools(seen, TopK) : EntersLoop(w, ForWorker(w, S \cup search))
          \/ worker' = [worker EXCEPT ![w] = Off]    \* the embedding failed
       /\ UNCHANGED <<storeVars, task, mode, trust, asked, ran>>

(***************************************************************************)
(* The loop.                                                               *)
(***************************************************************************)

Observes(w) == worker' = [worker EXCEPT ![w].at = "loop", ![w].left = @ - 1,
                                        ![w].tool = "none", ![w].risky = FALSE]

(* A reply that is no envelope costs an iteration. *)
BadReply(w) == Observes(w)

(* The model stops, answers badly (a failed transport counts as that), or  *)
(* calls a tool, one it was offered or one it made up.                     *)
Reason(w) ==
    /\ worker[w].at = "loop"
    /\ IF worker[w].left = 0 THEN worker' = [worker EXCEPT ![w] = Off]
       ELSE \/ worker' = [worker EXCEPT ![w] = Off]
            \/ BadReply(w)
            \/ \E t \in {r.tool : r \in worker[w].tools} \cup {"made_up"}, risky \in BOOLEAN :
                  worker' = [worker EXCEPT ![w].at = "call", ![w].tool = t, ![w].risky = risky]
    /\ UNCHANGED <<storeVars, task, mode, trust, asked, ran>>

ClassifyCall(w, t) ==
    LET reg == {r \in worker[w].tools : r.tool = t /\ RoleOf[w] \in r.roles}
    IN IF reg = {} THEN "deny" ELSE EvaluateTier(mode, (CHOOSE r \in reg : TRUE).tier)

CommandRuns(w) == ran' = ran \cup {[tool |-> worker[w].tool, risky |-> worker[w].risky]}

(* The command gate: a trusted tool passes, otherwise the matrix and the   *)
(* risk patterns decide.                                                   *)
CommandVerdict(w) ==
    IF worker[w].tool \in trust THEN "allow"
    ELSE RiskIntercept(EvaluateTier(mode, "EXECUTE"), mode, worker[w].risky)

(* No approval channel is wired to the dispatcher: what needs a human      *)
(* there is refused.  A command tool asks for itself.                      *)
DispatchCall(w) ==
    LET t == worker[w].tool
        verdict == IF ClassifyCall(w, t) # "allow" THEN "deny"
                   ELSE IF t \in CommandTools THEN CommandVerdict(w) ELSE "harmless"
    IN /\ worker[w].at = "call"
       /\ \/ verdict = "allow" /\ CommandRuns(w) /\ Observes(w)
          \/ /\ verdict = "hitl"
             /\ worker' = [worker EXCEPT ![w].at = "card"] /\ UNCHANGED ran
          \/ verdict \notin {"allow", "hitl"} /\ Observes(w) /\ UNCHANGED ran
       /\ UNCHANGED <<storeVars, task, mode, trust, asked>>

(* An approval is remembered for the tool; a refusal or no answer in time  *)
(* leaves the command unrun.                                               *)
CardAnswered(w) ==
    /\ worker[w].at = "card"
    /\ \/ /\ trust' = trust \cup {worker[w].tool}
          /\ asked' = asked \cup {worker[w].tool}
          /\ CommandRuns(w)
       \/ UNCHANGED <<trust, asked, ran>>
    /\ Observes(w)
    /\ UNCHANGED <<storeVars, task, mode>>

(***************************************************************************)
(* Tasks of the session.                                                   *)
(***************************************************************************)
TaskStarts(m) ==
    /\ booted = Len(BootSchemas) /\ ~task
    /\ task' = TRUE /\ mode' = m
    /\ UNCHANGED <<storeVars, trust, worker, asked, ran>>

\* Mutant: the grants of the task stay.
KeepTrust == UNCHANGED trust

ClearTrust == trust' = {}

(* However a task ends, its workers end with it and its grants are wiped. *)
TaskEnds ==
    /\ task /\ task' = FALSE
    /\ worker' = [w \in Workers |-> Off]
    /\ ClearTrust
    /\ asked' = {} /\ ran' = {}
    /\ UNCHANGED <<storeVars, mode>>

WorkerStep(w) == WorkerSelects(w) \/ Reason(w) \/ DispatchCall(w) \/ CardAnswered(w)

ToolboxNext ==
    \/ PopulateNext \/ TaskEnds
    \/ \E r \in McpSchemas : RegisterStarts(r) \/ RegisterSchema(r)
    \/ \E m \in TaskModes : TaskStarts(m)
    \/ \E w \in Workers : WorkerStarts(w) \/ WorkerStep(w)

ToolboxSpec == ToolboxInit /\ [][ToolboxNext]_toolboxVars

(* What the code's own tables give: a schema carries one of the four tiers, *)
(* a family builds a tool with the tier and for the roles it registers it   *)
(* with, and a session has one of the modes of the matrix.                  *)
ToolboxAssumption ==
    /\ BootSchemas \in Seq(Schemas) /\ AllSchemas \subseteq Schemas
    /\ \A i \in DOMAIN BootSchemas :
          LET built == MergeRegistered(BootSchemas[i].tool)
          IN BootSchemas[i].tool \in FamilyNames =>
                BootSchemas[i].roles \subseteq built.roles /\ BootSchemas[i].tier = built.tier
    /\ TaskModes \subseteq SessionModes
    /\ MaxLoop \in Nat

(***************************************************************************)
(* Properties.                                                             *)
(***************************************************************************)
(* Sharing a name widens access and never lowers a tier: whatever the      *)
(* order in which the registrations of a name reached the store, and       *)
(* however their embeddings overlapped, its row has the roles of all of    *)
(* them and the strictest of their tiers.                                  *)
SharedAccess ==
    \A t \in ToolNames :
        LET mine == {r \in listed : r.tool = t}
        IN mine # {} => /\ store[t].roles = UNION {r.roles : r \in mine}
                        /\ \A r \in mine : Rank(store[t].tier) >= Rank(r.tier)
                        /\ \E r \in mine : store[t].tier = r.tier

(* No tool lies: a worker in its loop is offered only tools its dispatcher *)
(* answers to its role, and a plan-only session is offered none that acts, *)
(* unless a server listed a tool under the name of a family's, or changed  *)
(* a tier while the worker was asking.                                     *)
NoLyingTool ==
    \A w \in Workers : \A r \in worker[w].tools :
        /\ \/ RoleOf[w] \in r.roles
           \/ \E s \in listed \cap McpSchemas : s.tool = r.tool /\ r.tool \in FamilyNames
        /\ mode = "PLAN_ONLY" /\ listed \cap McpSchemas = {} => r.tier = "READ_ONLY"

(* A command ran only under a verdict that lets it: never in a session     *)
(* that only reads, and where the matrix or the risk patterns want a       *)
(* human, the human approved that tool in the same task.                   *)
GatedRunsApproved ==
    \A c \in ran :
        LET verdict == RiskIntercept(EvaluateTier(mode, "EXECUTE"), mode, c.risky)
        IN verdict = "allow" \/ (verdict = "hitl" /\ c.tool \in asked)

(* What the tool store and the dispatcher promise together: whatever the   *)
(* order of registrations, workers are offered only what their role may    *)
(* call, and a command that needs a human ran only after one said yes in   *)
(* the same task (tool_rag.py, tool_registry.py, execution_tools.py).      *)
ToolsKeepTheirGates == GatedRunsApproved /\ NoLyingTool /\ SharedAccess

====
