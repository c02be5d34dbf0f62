--------------------------- MODULE Dialogue_proofs ---------------------------
(***************************************************************************)
(* What the parts that talk to the operator and to the models promise,     *)
(* proved for every value of their constants: the tools a worker is given  *)
(* and the commands it may run, the background passes of the host, the     *)
(* interview and the brief, the response cache and the explanations made   *)
(* from it, the streams beside the coding graph, the plans and the model   *)
(* settings.  The parts share no variable; each has a section with its     *)
(* inductive invariant, the lemmas about one step and the theorem.         *)
(***************************************************************************)
EXTENDS Toolbox, Endpoint, Ideation, Companion, Streams, Planning, Settings, TLAPS,
        FiniteSetTheorems

-----------------------------------------------------------------------------
(* The tool store and the dispatcher: the invariant.                       *)

\* The tools a worker may be offered, and the names it may call.
Offers == {MergeRegistered(t) : t \in FamilyNames} \cup Schemas
Callable == {"none", "made_up"} \cup {r.tool : r \in Offers}

WorkerStates ==
    [at : {"idle", "select", "loop", "call", "card"}, seen : SUBSET ToolNames,
     tools : SUBSET Offers, left : 0 .. MaxLoop, tool : Callable, risky : BOOLEAN]

\* The types of the variables.
ToolboxTypes ==
    /\ store \in [ToolNames -> {<<>>} \cup Schemas]
    /\ booted \in 0 .. Len(BootSchemas)
    /\ listed \subseteq AllSchemas /\ embeds \subseteq McpSchemas
    /\ task \in BOOLEAN
    /\ mode \in SessionModes
    /\ worker \in [Workers -> WorkerStates]

\* A name has a row exactly when a registration of it reached the store.
RowsAreListed ==
    \A t \in ToolNames : store[t] # <<>> <=> \E r \in listed : r.tool = t

\* What the store would show the worker now.
MayOffer(w, t) ==
    /\ t \in ToolNames /\ store[t] # <<>> /\ RoleOf[w] \in store[t].roles
    /\ mode = "PLAN_ONLY" /\ listed \cap McpSchemas = {} => store[t].tier = "READ_ONLY"

\* A selection that waits for its embedding stays permitted: a row only gains
\* roles, and its tier only rises by a server's registration.
SelectionsHold ==
    \A w \in Workers : worker[w].at = "select" => \A t \in worker[w].seen : MayOffer(w, t)

\* A task runs only after the boot, and nothing outlives it.
TasksAreClosed ==
    /\ task => booted = Len(BootSchemas)
    /\ ~task => /\ \A w \in Workers : worker[w] = Off
                /\ asked = {} /\ ran = {}

NeedsHuman(risky) ==
    RiskIntercept(EvaluateTier(mode, "EXECUTE"), mode, risky) = "hitl"

\* The grants are those of this task, a session that only reads asks for none, and a
\* card is only shown where the matrix or the risk patterns want a human.
GrantsAreOfTheTask ==
    /\ trust = asked
    /\ mode \in ReadingModes => asked = {}
    /\ \A w \in Workers :
          /\ worker[w].at = "card" => NeedsHuman(worker[w].risky)
          /\ worker[w].at \in {"call", "card"} => worker[w].left # 0

\* The inductive invariant.
ToolboxInv ==
    /\ ToolboxTypes /\ RowsAreListed /\ SharedAccess /\ SelectionsHold /\ NoLyingTool
    /\ TasksAreClosed /\ GrantsAreOfTheTask /\ GatedRunsApproved

-----------------------------------------------------------------------------
(* The tiers and the matrix.                                               *)

\* The four tiers are ranked from harmless to irreversible.
LEMMA Ranks ==
    /\ Rank("READ_ONLY") = 1 /\ Rank("WRITE") = 2
    /\ Rank("EXECUTE") = 3 /\ Rank("DANGEROUS") = 4
BY DEF Rank, Tiers

\* A row is not the absence of one.
LEMMA RowIsNoBlank ==
    ASSUME NEW r \in Schemas PROVE r # <<>>
BY DEF Schemas

\* A session that only reads denies every command; the other modes never do.
LEMMA CommandMatrix ==
    ASSUME mode \in SessionModes, NEW risky \in BOOLEAN
    PROVE  LET verdict == RiskIntercept(EvaluateTier(mode, "EXECUTE"), mode, risky)
           IN IF mode \in ReadingModes THEN verdict = "deny" ELSE verdict \in {"allow", "hitl"}
BY DEF RiskIntercept, EvaluateTier, Denied, Permitted, SessionModes, ReadingModes

-----------------------------------------------------------------------------
(* The store.                                                              *)

\* A registration widens its row's roles by its own and never lowers its tier.
LEMMA Merged ==
    ASSUME ToolboxAssumption, ToolboxTypes, NEW r \in AllSchemas
    PROVE  LET row == MergeWithExisting(r) IN
           /\ row \in Schemas
           /\ store[r.tool] = <<>> => row = r
           /\ store[r.tool] # <<>> =>
                 /\ row.roles = r.roles \cup store[r.tool].roles
                 /\ row.tier \in {r.tier, store[r.tool].tier}
                 /\ Rank(row.tier) >= Rank(r.tier)
                 /\ Rank(row.tier) >= Rank(store[r.tool].tier)
<1>1. r \in Schemas /\ r.tool \in ToolNames
  BY DEF ToolboxAssumption, ToolNames
<1>2. CASE store[r.tool] = <<>>
  BY <1>1, <1>2 DEF MergeWithExisting
<1>3. CASE store[r.tool] # <<>>
  <2>1. store[r.tool] \in Schemas
    BY <1>1, <1>3 DEF ToolboxTypes
  <2>2. /\ r.tier \in {"READ_ONLY", "WRITE", "EXECUTE", "DANGEROUS"}
        /\ store[r.tool].tier \in {"READ_ONLY", "WRITE", "EXECUTE", "DANGEROUS"}
        /\ r.roles \cup store[r.tool].roles \in SUBSET UNION {x.roles : x \in AllSchemas}
    BY <1>1, <2>1 DEF Schemas
  <2> DEFINE tier == StricterTier(store[r.tool].tier, r.tier)
  <2>3. /\ tier \in {r.tier, store[r.tool].tier}
        /\ Rank(tier) >= Rank(r.tier) /\ Rank(tier) >= Rank(store[r.tool].tier)
    BY <2>2, Ranks DEF StricterTier
  <2>4. MergeWithExisting(r)
          = [tool |-> r.tool, roles |-> r.roles \cup store[r.tool].roles, tier |-> tier]
    BY <1>3 DEF MergeWithExisting
  <2> HIDE DEF tier
  <2>5. MergeWithExisting(r) \in Schemas
    BY <1>1, <2>2, <2>3, <2>4 DEF Schemas
  <2> QED BY <1>3, <2>3, <2>4, <2>5
<1> QED BY <1>2, <1>3

\* Storing a registration keeps the rows in step with what reached the store.
LEMMA StoresKeeps ==
    ASSUME ToolboxAssumption, ToolboxTypes, RowsAreListed, SharedAccess,
           NEW r \in AllSchemas, Stores(r)
    PROVE  /\ store' \in [ToolNames -> {<<>>} \cup Schemas]
           /\ listed' \subseteq AllSchemas
           /\ RowsAreListed' /\ SharedAccess'
           /\ \A t \in ToolNames : store[t] # <<>> =>
                 store'[t] # <<>> /\ store[t].roles \subseteq store'[t].roles
<1> DEFINE row == MergeWithExisting(r)
<1>1. /\ r \in Schemas /\ r.tool \in ToolNames
      /\ row \in Schemas /\ row # <<>>
      /\ store' = [store EXCEPT ![r.tool] = row] /\ listed' = listed \cup {r}
      /\ store \in [ToolNames -> {<<>>} \cup Schemas]
  BY Merged, RowIsNoBlank DEF ToolboxAssumption, ToolNames, Stores, ToolboxTypes
<1>2. /\ store[r.tool] = <<>> => row = r
      /\ store[r.tool] # <<>> =>
            /\ row.roles = r.roles \cup store[r.tool].roles
            /\ row.tier \in {r.tier, store[r.tool].tier}
            /\ Rank(row.tier) >= Rank(r.tier)
            /\ Rank(row.tier) >= Rank(store[r.tool].tier)
  BY Merged
<1> HIDE DEF row
<1>3. store' \in [ToolNames -> {<<>>} \cup Schemas] /\ listed' \subseteq AllSchemas
  BY <1>1 DEF ToolboxTypes
<1>4. RowsAreListed'
  BY <1>1 DEF RowsAreListed
<1>5. SharedAccess'
  <2> SUFFICES ASSUME NEW t \in ToolNames, {x \in listed' : x.tool = t} # {}
               PROVE  /\ store'[t].roles = UNION {x.roles : x \in {y \in listed' : y.tool = t}}
                      /\ \A x \in {y \in listed' : y.tool = t} :
                            Rank(store'[t].tier) >= Rank(x.tier)
                      /\ \E x \in {y \in listed' : y.tool = t} : store'[t].tier = x.tier
    BY DEF SharedAccess
  <2> DEFINE mine == {x \in listed : x.tool = t}
             now == {x \in listed' : x.tool = t}
  <2>1. mine # {} => /\ store[t].roles = UNION {x.roles : x \in mine}
                     /\ \A x \in mine : Rank(store[t].tier) >= Rank(x.tier)
                     /\ \E x \in mine : store[t].tier = x.tier
    BY DEF SharedAccess
  <2>2. CASE t # r.tool
    <3>1. now = mine /\ store'[t] = store[t]
      BY <1>1, <2>2
    <3> QED BY <2>1, <3>1
  <2>3. CASE t = r.tool
    <3>1. now = mine \cup {r} /\ store'[t] = row
      BY <1>1, <2>3
    <3>2. CASE store[t] = <<>>
      <4>1. mine = {}
        BY <3>2 DEF RowsAreListed
      <4>2. now = {r} /\ row = r
        BY <1>2, <2>3, <3>1, <3>2, <4>1
      <4>3. r.tier \in {"READ_ONLY", "WRITE", "EXECUTE", "DANGEROUS"}
        BY <1>1 DEF Schemas
      <4> QED BY <3>1, <4>2, <4>3, Ranks
    <3>3. CASE store[t] # <<>>
      <4>1. mine # {}
        BY <3>3 DEF RowsAreListed
      <4>2. UNION {x.roles : x \in now} = r.roles \cup UNION {x.roles : x \in mine}
        BY <3>1
      <4>3. store[t] \in Schemas
        BY <1>1, <3>3
      <4>4. \A x \in mine \cup {r, store[t], row} :
               x.tier \in {"READ_ONLY", "WRITE", "EXECUTE", "DANGEROUS"}
        BY <1>1, <4>3 DEF ToolboxTypes, ToolboxAssumption, Schemas
      <4>5. \A x \in mine \cup {r, store[t], row} : Rank(x.tier) \in Nat
        BY <4>4, Ranks
      <4>6. \A x \in now : Rank(row.tier) >= Rank(x.tier)
        BY <1>2, <2>1, <2>3, <3>1, <3>3, <4>1, <4>5
      <4>7. \E x \in now : row.tier = x.tier
        BY <1>2, <2>1, <2>3, <3>1, <3>3, <4>1
      <4>8. row.roles = UNION {x.roles : x \in now}
        BY <1>2, <2>1, <2>3, <3>3, <4>1, <4>2
      <4> QED BY <3>1, <4>6, <4>7, <4>8
    <3> QED BY <3>2, <3>3
  <2> QED BY <2>2, <2>3
<1>6. ASSUME NEW t \in ToolNames, store[t] # <<>>
      PROVE  store'[t] # <<>> /\ store[t].roles \subseteq store'[t].roles
  BY <1>1, <1>2, <1>6
<1> QED BY <1>3, <1>4, <1>5, <1>6

-----------------------------------------------------------------------------
(* What a worker is given.                                                 *)

\* A tool the dispatcher would answer to the worker, unless a server listed its
\* name too, and in a plan-only session one that only reads.
Answered(w, r) ==
    /\ \/ RoleOf[w] \in r.roles
       \/ \E s \in listed \cap McpSchemas : s.tool = r.tool /\ r.tool \in FamilyNames
    /\ mode = "PLAN_ONLY" /\ listed \cap McpSchemas = {} => r.tier = "READ_ONLY"

\* The built tool of a name bears the name.
LEMMA BuiltName ==
    ASSUME NEW t PROVE MergeRegistered(t).tool = t
BY DEF MergeRegistered

\* A tool of a family's name that the store shows to a role was registered for
\* the role either by the family, which then builds it for the role and with
\* that tier, or by a server.
LEMMA FamilyToolIsAnswered ==
    ASSUME ToolboxAssumption, ToolboxTypes, RowsAreListed, SharedAccess,
           NEW w \in Workers, NEW t, MayOffer(w, t), t \in FamilyNames
    PROVE  Answered(w, MergeRegistered(t))
<1> DEFINE mine == {r \in listed : r.tool = t}
           built == MergeRegistered(t)
<1>1. mine # {}
  BY DEF MayOffer, RowsAreListed
<1>2. /\ store[t].roles = UNION {r.roles : r \in mine}
      /\ \E r \in mine : store[t].tier = r.tier
  BY <1>1 DEF SharedAccess, MayOffer
<1>3. ASSUME NEW r \in mine, r \notin McpSchemas
      PROVE  r.roles \subseteq built.roles /\ r.tier = built.tier
  <2>1. PICK i \in DOMAIN BootSchemas : r = BootSchemas[i]
    BY <1>3 DEF ToolboxTypes, AllSchemas
  <2>2. BootSchemas[i].tool = t
    BY <2>1
  <2> HIDE DEF mine
  <2> QED BY <2>1, <2>2 DEF ToolboxAssumption
<1>4. built.tool = t
  BY BuiltName
<1>5. \/ RoleOf[w] \in built.roles
      \/ \E s \in listed \cap McpSchemas : s.tool = built.tool /\ built.tool \in FamilyNames
  <2>1. PICK r \in mine : RoleOf[w] \in r.roles
    BY <1>2 DEF MayOffer
  <2>2. CASE r \in McpSchemas
    BY <1>4, <2>1, <2>2
  <2>3. CASE r \notin McpSchemas
    BY <1>3, <2>1, <2>3
  <2> QED BY <2>2, <2>3
<1>6. mode = "PLAN_ONLY" /\ listed \cap McpSchemas = {} => built.tier = "READ_ONLY"
  <2> SUFFICES ASSUME mode = "PLAN_ONLY", listed \cap McpSchemas = {}
               PROVE  built.tier = "READ_ONLY"
    OBVIOUS
  <2>1. PICK r \in mine : store[t].tier = r.tier
    BY <1>2
  <2>2. r \notin McpSchemas /\ store[t].tier = "READ_ONLY"
    BY <2>1 DEF MayOffer
  <2> QED BY <1>3, <2>1, <2>2
<1> HIDE DEF built
<1> QED BY <1>5, <1>6 DEF Answered, built

\* What a permitted selection is resolved to is answered and is one of the tools
\* that exist.
LEMMA ResolvedAreAnswered ==
    ASSUME ToolboxAssumption, ToolboxTypes, RowsAreListed, SharedAccess,
           NEW w \in Workers, NEW names, \A t \in names : MayOffer(w, t)
    PROVE  /\ ResolveTools(names) \in SUBSET Offers
           /\ \A r \in ResolveTools(names) : Answered(w, r)
<1> SUFFICES ASSUME NEW t \in names
             PROVE  LET r == IF t \in FamilyNames THEN MergeRegistered(t) ELSE store[t]
                    IN r \in Offers /\ Answered(w, r)
  BY DEF ResolveTools
<1>1. CASE t \in FamilyNames
  BY <1>1, FamilyToolIsAnswered DEF Offers
<1>2. CASE t \notin FamilyNames
  <2>1. store[t] \in Schemas
    BY DEF MayOffer, ToolboxTypes
  <2> QED BY <1>2, <2>1 DEF MayOffer, Answered, Offers
<1> QED BY <1>1, <1>2

\* The state a worker enters its loop in, for tools it may be offered.
Entered(w, next) ==
    /\ next \in WorkerStates /\ next.at \in {"idle", "loop"}
    /\ \A r \in next.tools : Answered(w, r)

\* A worker goes on with tools it may be offered, or answers without.
LEMMA EntersLoopFits ==
    ASSUME ToolboxAssumption, ToolboxTypes, RowsAreListed, SharedAccess,
           NEW w \in Workers, NEW names, \A t \in names : MayOffer(w, t),
           EntersLoop(w, ForWorker(w, names))
    PROVE  \E next : worker' = [worker EXCEPT ![w] = next] /\ Entered(w, next)
<1> DEFINE given == ForWorker(w, names)
           tools == IF Resolvable(given) THEN ResolveTools(given) ELSE {}
           next == IF tools = {} THEN Off
                   ELSE [Off EXCEPT !.at = "loop", !.tools = tools, !.left = MaxLoop]
<1>1. worker' = [worker EXCEPT ![w] = next]
  BY DEF EntersLoop
<1>2. \A t \in given : MayOffer(w, t)
  BY DEF ForWorker, FilterLoopSafe
<1> HIDE DEF given
<1>3. tools \in SUBSET Offers /\ \A r \in tools : Answered(w, r)
  BY <1>2, ResolvedAreAnswered
<1> HIDE DEF tools
<1>4. MaxLoop \in Nat
  BY DEF ToolboxAssumption
<1>5. Off \in WorkerStates /\ Off.at = "idle" /\ Off.tools = {}
  BY <1>4 DEF Off, WorkerStates, Callable
<1>6. CASE tools = {}
  BY <1>1, <1>5, <1>6 DEF Entered
<1>7. CASE tools # {}
  <2> DEFINE s == [at |-> "loop", seen |-> {}, tools |-> tools, left |-> MaxLoop,
                   tool |-> "none", risky |-> FALSE]
  <2>1. next = s
    BY <1>7 DEF Off
  <2>2. s \in WorkerStates
    BY <1>3, <1>4 DEF WorkerStates, Callable
  <2>3. Entered(w, s)
    BY <1>3, <2>2 DEF Entered
  <2> QED BY <1>1, <2>1, <2>3
<1> QED BY <1>6, <1>7

-----------------------------------------------------------------------------
(* The steps.                                                              *)

\* A move of one worker of a running task keeps the invariant when the state it
\* reaches fits and the command it ran was let through.
LEMMA WorkerMoves ==
    ASSUME ToolboxInv, task, NEW w \in Workers, NEW next \in WorkerStates,
           worker' = [worker EXCEPT ![w] = next],
           UNCHANGED <<storeVars, task, mode>>,
           next.at = "select" => \A t \in next.seen : MayOffer(w, t),
           \A r \in next.tools : Answered(w, r),
           next.at = "card" => NeedsHuman(next.risky),
           next.at \in {"call", "card"} => next.left # 0,
           trust' = asked', mode \in ReadingModes => asked' = {},
           GatedRunsApproved'
    PROVE  ToolboxInv'
<1> USE DEF ToolboxInv, storeVars
<1>1. \A v \in Workers : worker'[v] = IF v = w THEN next ELSE worker[v]
  BY DEF ToolboxTypes
<1>2. ToolboxTypes'
  BY DEF ToolboxTypes
<1>3. RowsAreListed' /\ SharedAccess'
  BY DEF RowsAreListed, SharedAccess
<1>4. SelectionsHold'
  BY <1>1 DEF SelectionsHold, MayOffer
<1>5. NoLyingTool'
  BY <1>1 DEF NoLyingTool, Answered
<1>6. TasksAreClosed'
  BY DEF TasksAreClosed
<1>7. GrantsAreOfTheTask'
  BY <1>1 DEF GrantsAreOfTheTask, NeedsHuman
<1> QED BY <1>2, <1>3, <1>4, <1>5, <1>6, <1>7

\* A worker that is not in its loop belongs to no task, or is idle.
LEMMA AtWorkInTask ==
    ASSUME ToolboxInv, NEW w \in Workers, worker[w].at # "idle" PROVE task
BY DEF ToolboxInv, TasksAreClosed, Off

\* What is answered and what a worker holds.
LEMMA HeldAreAnswered ==
    ASSUME ToolboxInv, NEW w \in Workers
    PROVE  /\ worker[w] \in WorkerStates
           /\ \A r \in worker[w].tools : Answered(w, r)
BY DEF ToolboxInv, ToolboxTypes, NoLyingTool, Answered

\* A registration reached the store.
LEMMA PopulateKeeps ==
    ASSUME ToolboxAssumption, ToolboxInv, PopulateNext PROVE ToolboxInv'
<1> USE DEF ToolboxInv, PopulateNext, workVars
<1>1. booted' \in 0 .. Len(BootSchemas) /\ ~task
  BY DEF ToolboxTypes, TasksAreClosed
<1>2. /\ store' \in [ToolNames -> {<<>>} \cup Schemas]
      /\ listed' \subseteq AllSchemas
      /\ RowsAreListed' /\ SharedAccess'
  <2>1. CASE UNCHANGED <<store, listed>>
    BY <2>1 DEF ToolboxTypes, RowsAreListed, SharedAccess
  <2>2. CASE Stores(BootSchemas[booted'])
    <3>1. booted' \in DOMAIN BootSchemas
      BY <1>1 DEF ToolboxTypes
    <3>2. BootSchemas[booted'] \in AllSchemas
      BY <3>1 DEF AllSchemas
    <3> QED BY <2>2, <3>2, StoresKeeps
  <2> QED BY <2>1, <2>2
<1>3. ToolboxTypes'
  BY <1>1, <1>2 DEF ToolboxTypes
<1>4. \A w \in Workers : worker'[w] = Off
  BY <1>1 DEF TasksAreClosed
<1>5. SelectionsHold' /\ NoLyingTool' /\ TasksAreClosed' /\ GrantsAreOfTheTask'
  BY <1>1, <1>4 DEF SelectionsHold, NoLyingTool, TasksAreClosed, GrantsAreOfTheTask, Off
<1>6. GatedRunsApproved'
  BY DEF GatedRunsApproved
<1> QED BY <1>2, <1>3, <1>5, <1>6

\* A server's tool waits for its embedding.
LEMMA RegisterStartsKeeps ==
    ASSUME ToolboxInv, NEW r \in McpSchemas, RegisterStarts(r) PROVE ToolboxInv'
<1> USE DEF ToolboxInv, RegisterStarts, workVars
<1>1. ToolboxTypes'
  BY DEF ToolboxTypes
<1>2. RowsAreListed' /\ SharedAccess' /\ GatedRunsApproved'
  BY DEF RowsAreListed, SharedAccess, GatedRunsApproved
<1>3. SelectionsHold' /\ NoLyingTool'
  BY DEF SelectionsHold, NoLyingTool, MayOffer
<1>4. TasksAreClosed' /\ GrantsAreOfTheTask'
  BY DEF TasksAreClosed, GrantsAreOfTheTask, NeedsHuman
<1> QED BY <1>1, <1>2, <1>3, <1>4

\* A server's tool reached the store, in the middle of whatever the workers do.
LEMMA RegisterSchemaKeeps ==
    ASSUME ToolboxAssumption, ToolboxInv, NEW r \in McpSchemas, RegisterSchema(r)
    PROVE  ToolboxInv'
<1> USE DEF ToolboxInv, RegisterSchema, workVars
<1>1. r \in AllSchemas
  BY DEF AllSchemas
<1>2. /\ store' \in [ToolNames -> {<<>>} \cup Schemas]
      /\ listed' \subseteq AllSchemas
      /\ RowsAreListed' /\ SharedAccess'
      /\ \A t \in ToolNames : store[t] # <<>> =>
            store'[t] # <<>> /\ store[t].roles \subseteq store'[t].roles
  BY <1>1, StoresKeeps
<1>3. ToolboxTypes'
  BY <1>2 DEF ToolboxTypes
<1>4. listed' \cap McpSchemas # {} /\ listed \subseteq listed'
  BY DEF Stores
<1>5. SelectionsHold'
  BY <1>2, <1>4 DEF SelectionsHold, MayOffer
<1>6. NoLyingTool'
  BY <1>4 DEF NoLyingTool
<1>7. TasksAreClosed' /\ GrantsAreOfTheTask' /\ GatedRunsApproved'
  BY DEF TasksAreClosed, GrantsAreOfTheTask, NeedsHuman, GatedRunsApproved
<1> QED BY <1>2, <1>3, <1>5, <1>6, <1>7

\* A worker is shown what its role and the mode permit.
LEMMA VisibleMayBeOffered ==
    ASSUME NEW w \in Workers, NEW t \in Visible(RoleOf[w]) PROVE MayOffer(w, t)
BY DEF Visible, MayOffer

\* A worker starts: with its whole catalog, or with a search.
LEMMA WorkerStartsKeeps ==
    ASSUME ToolboxAssumption, ToolboxInv, NEW w \in Workers, WorkerStarts(w)
    PROVE  ToolboxInv'
<1> DEFINE seen == Visible(RoleOf[w])
           waiting == [worker[w] EXCEPT !.at = "select", !.seen = seen]
<1>1. task /\ UNCHANGED <<storeVars, task, mode, trust, asked, ran>>
  BY DEF WorkerStarts
<1>2. \A t \in seen : MayOffer(w, t)
  BY VisibleMayBeOffered
<1>3. GatedRunsApproved' /\ trust' = asked' /\ (mode \in ReadingModes => asked' = {})
  BY <1>1 DEF ToolboxInv, GatedRunsApproved, GrantsAreOfTheTask
<1>4. CASE EntersLoop(w, ForWorker(w, seen))
  <2>1. PICK next : worker' = [worker EXCEPT ![w] = next] /\ Entered(w, next)
    BY <1>2, <1>4, EntersLoopFits DEF ToolboxInv
  <2> QED BY <1>1, <1>3, <2>1, WorkerMoves DEF Entered
<1>5. CASE worker' = [worker EXCEPT ![w].at = "select", ![w].seen = seen]
  <2>1. worker[w] \in WorkerStates /\ \A r \in worker[w].tools : Answered(w, r)
    BY HeldAreAnswered
  <2>2. seen \in SUBSET ToolNames
    BY DEF Visible
  <2> HIDE DEF seen
  <2>3. waiting \in WorkerStates /\ waiting.at = "select" /\ waiting.seen = seen
        /\ waiting.tools = worker[w].tools
    BY <2>1, <2>2 DEF WorkerStates
  <2>4. worker' = [worker EXCEPT ![w] = waiting]
    BY <1>5 DEF ToolboxInv, ToolboxTypes
  <2> HIDE DEF waiting
  <2> QED BY <1>1, <1>2, <1>3, <2>1, <2>3, <2>4, WorkerMoves
<1> QED BY <1>4, <1>5 DEF WorkerStarts

\* The embedding is there, and the store may have changed in the meantime.
LEMMA WorkerSelectsKeeps ==
    ASSUME ToolboxAssumption, ToolboxInv, NEW w \in Workers, WorkerSelects(w)
    PROVE  ToolboxInv'
<1>1. UNCHANGED <<storeVars, task, mode, trust, asked, ran>> /\ worker[w].at = "select"
  BY DEF WorkerSelects
<1>2. task
  BY <1>1, AtWorkInTask
<1>3. GatedRunsApproved' /\ trust' = asked' /\ (mode \in ReadingModes => asked' = {})
  BY <1>1 DEF ToolboxInv, GatedRunsApproved, GrantsAreOfTheTask
<1>4. \A t \in worker[w].seen : MayOffer(w, t)
  BY <1>1 DEF ToolboxInv, SelectionsHold
<1> DEFINE search == IF w \in Grounding THEN {} ELSE {"tool_search"} \cap worker[w].seen
<1>5. ASSUME NEW S \in SelectTools(worker[w].seen, TopK),
             EntersLoop(w, ForWorker(w, S \cup search))
      PROVE  ToolboxInv'
  <2>1. \A t \in S \cup search : MayOffer(w, t)
    BY <1>4 DEF SelectTools, Best
  <2> HIDE DEF search
  <2>2. PICK next : worker' = [worker EXCEPT ![w] = next] /\ Entered(w, next)
    BY <1>5, <2>1, EntersLoopFits DEF ToolboxInv
  <2> QED BY <1>1, <1>2, <1>3, <2>2, WorkerMoves DEF Entered
<1>6. CASE worker' = [worker EXCEPT ![w] = Off]
  <2>1. Off \in WorkerStates /\ Off.tools = {} /\ Off.at = "idle"
    BY DEF Off, WorkerStates, Callable, ToolboxAssumption
  <2> QED BY <1>1, <1>2, <1>3, <1>6, <2>1, WorkerMoves
<1> QED BY <1>5, <1>6 DEF WorkerSelects

\* The state after an observation.
Observed(w) == [worker[w] EXCEPT !.at = "loop", !.left = @ - 1,
                                 !.tool = "none", !.risky = FALSE]

\* An observation costs an iteration, of which there was one left.
LEMMA ObservesFits ==
    ASSUME ToolboxAssumption, ToolboxInv, NEW w \in Workers, worker[w].left # 0, Observes(w)
    PROVE  /\ worker' = [worker EXCEPT ![w] = Observed(w)]
           /\ Observed(w) \in WorkerStates /\ Observed(w).at = "loop"
           /\ \A r \in Observed(w).tools : Answered(w, r)
<1>1. worker[w] \in WorkerStates /\ \A r \in worker[w].tools : Answered(w, r)
  BY HeldAreAnswered
<1>2. worker' = [worker EXCEPT ![w] = Observed(w)]
  BY DEF Observes, Observed, ToolboxInv, ToolboxTypes
<1>3. MaxLoop \in Nat
  BY DEF ToolboxAssumption
<1>4. worker[w].left \in 0 .. MaxLoop /\ worker[w].left - 1 \in 0 .. MaxLoop
  BY <1>1, <1>3 DEF WorkerStates
<1>5. Observed(w) \in WorkerStates /\ Observed(w).at = "loop"
      /\ Observed(w).tools = worker[w].tools
  BY <1>1, <1>4 DEF Observed, WorkerStates, Callable
<1> QED BY <1>1, <1>2, <1>5

\* The model answered.
LEMMA ReasonKeeps ==
    ASSUME ToolboxAssumption, ToolboxInv, NEW w \in Workers, Reason(w)
    PROVE  ToolboxInv'
<1>1. UNCHANGED <<storeVars, task, mode, trust, asked, ran>> /\ worker[w].at = "loop"
  BY DEF Reason
<1>2. task
  BY <1>1, AtWorkInTask
<1>3. GatedRunsApproved' /\ trust' = asked' /\ (mode \in ReadingModes => asked' = {})
  BY <1>1 DEF ToolboxInv, GatedRunsApproved, GrantsAreOfTheTask
<1>4. CASE worker' = [worker EXCEPT ![w] = Off]
  <2>1. Off \in WorkerStates /\ Off.tools = {} /\ Off.at = "idle"
    BY DEF Off, WorkerStates, Callable, ToolboxAssumption
  <2> QED BY <1>1, <1>2, <1>3, <1>4, <2>1, WorkerMoves
<1>5. CASE worker[w].left # 0 /\ BadReply(w)
  BY <1>1, <1>2, <1>3, <1>5, ObservesFits, WorkerMoves DEF BadReply
<1>6. ASSUME NEW t \in {r.tool : r \in worker[w].tools} \cup {"made_up"}, NEW risky \in BOOLEAN,
             worker' = [worker EXCEPT ![w].at = "call", ![w].tool = t, ![w].risky = risky],
             worker[w].left # 0
      PROVE  ToolboxInv'
  <2> DEFINE next == [worker[w] EXCEPT !.at = "call", !.tool = t, !.risky = risky]
  <2>1. worker[w] \in WorkerStates /\ \A r \in worker[w].tools : Answered(w, r)
    BY HeldAreAnswered
  <2>2. t \in Callable
    BY <2>1 DEF Callable, WorkerStates
  <2>3. next \in WorkerStates /\ next.at = "call" /\ next.left # 0
        /\ next.tools = worker[w].tools
    BY <1>6, <2>1, <2>2 DEF WorkerStates
  <2>4. worker' = [worker EXCEPT ![w] = next]
    BY <1>6 DEF ToolboxInv, ToolboxTypes
  <2> HIDE DEF next
  <2> QED BY <1>1, <1>2, <1>3, <2>1, <2>3, <2>4, WorkerMoves
<1> QED BY <1>4, <1>5, <1>6 DEF Reason

\* A command that ran under a verdict that lets it keeps the record sound.
LEMMA RunKeepsGate ==
    ASSUME ToolboxInv, NEW w \in Workers, CommandRuns(w), mode' = mode, asked \subseteq asked',
           LET verdict == RiskIntercept(EvaluateTier(mode, "EXECUTE"), mode, worker[w].risky)
           IN verdict = "allow" \/ (verdict = "hitl" /\ worker[w].tool \in asked')
    PROVE  GatedRunsApproved'
<1> DEFINE now == [tool |-> worker[w].tool, risky |-> worker[w].risky]
<1>1. ran' = ran \cup {now}
  BY DEF CommandRuns
<1>2. now.tool = worker[w].tool /\ now.risky = worker[w].risky
  OBVIOUS
<1> HIDE DEF now
<1> SUFFICES ASSUME NEW c \in ran'
             PROVE  LET verdict == RiskIntercept(EvaluateTier(mode, "EXECUTE"), mode, c.risky)
                    IN verdict = "allow" \/ (verdict = "hitl" /\ c.tool \in asked')
  BY DEF GatedRunsApproved
<1>3. CASE c = now
  BY <1>2, <1>3
<1>4. CASE c \in ran
  BY <1>4 DEF ToolboxInv, GatedRunsApproved
<1> QED BY <1>1, <1>3, <1>4

\* The dispatcher answered the call.
LEMMA DispatchKeeps ==
    ASSUME ToolboxAssumption, ToolboxInv, NEW w \in Workers, DispatchCall(w)
    PROVE  ToolboxInv'
<1>1. UNCHANGED <<storeVars, task, mode, trust, asked>> /\ worker[w].at = "call"
  BY DEF DispatchCall
<1>2. task
  BY <1>1, AtWorkInTask
<1>3. trust' = asked' /\ (mode \in ReadingModes => asked' = {}) /\ worker[w].left # 0
  BY <1>1 DEF ToolboxInv, GrantsAreOfTheTask
<1>4. worker[w] \in WorkerStates /\ \A r \in worker[w].tools : Answered(w, r)
  BY HeldAreAnswered
<1>5. worker[w].risky \in BOOLEAN /\ mode \in SessionModes
  BY <1>4 DEF WorkerStates, ToolboxInv, ToolboxTypes
<1>6. CASE CommandVerdict(w) = "allow" /\ CommandRuns(w) /\ Observes(w)
  <2>1. GatedRunsApproved'
    BY <1>1, <1>5, <1>6, CommandMatrix, RunKeepsGate
    DEF CommandVerdict, ToolboxInv, GrantsAreOfTheTask
  <2> QED BY <1>1, <1>2, <1>3, <1>6, <2>1, ObservesFits, WorkerMoves
<1>7. CASE Observes(w) /\ UNCHANGED ran
  <2>1. GatedRunsApproved'
    BY <1>1, <1>7 DEF ToolboxInv, GatedRunsApproved
  <2> QED BY <1>1, <1>2, <1>3, <1>7, <2>1, ObservesFits, WorkerMoves
<1>8. CASE /\ CommandVerdict(w) = "hitl"
           /\ worker' = [worker EXCEPT ![w].at = "card"] /\ UNCHANGED ran
  <2> DEFINE next == [worker[w] EXCEPT !.at = "card"]
  <2>1. GatedRunsApproved'
    BY <1>1, <1>8 DEF ToolboxInv, GatedRunsApproved
  <2>2. NeedsHuman(worker[w].risky)
    BY <1>8 DEF CommandVerdict, NeedsHuman
  <2>3. next \in WorkerStates /\ next.at = "card" /\ next.left # 0
        /\ next.tools = worker[w].tools /\ next.risky = worker[w].risky
    BY <1>3, <1>4 DEF WorkerStates
  <2>4. worker' = [worker EXCEPT ![w] = next]
    BY <1>8 DEF ToolboxInv, ToolboxTypes
  <2> HIDE DEF next
  <2> QED BY <1>1, <1>2, <1>3, <1>4, <2>1, <2>2, <2>3, <2>4, WorkerMoves
<1> QED
  <2> DEFINE verdict == IF ClassifyCall(w, worker[w].tool) # "allow" THEN "deny"
                        ELSE IF worker[w].tool \in CommandTools THEN CommandVerdict(w)
                        ELSE "harmless"
  <2>1. verdict \in {"allow", "hitl"} => verdict = CommandVerdict(w)
    OBVIOUS
  <2>2. \/ verdict = "allow" /\ CommandRuns(w) /\ Observes(w)
        \/ /\ verdict = "hitl"
           /\ worker' = [worker EXCEPT ![w].at = "card"] /\ UNCHANGED ran
        \/ Observes(w) /\ UNCHANGED ran
    BY DEF DispatchCall
  <2> HIDE DEF verdict
  <2> QED BY <1>6, <1>7, <1>8, <2>1, <2>2

\* The human decided, or did not answer in time.
LEMMA CardAnsweredKeeps ==
    ASSUME ToolboxAssumption, ToolboxInv, NEW w \in Workers, CardAnswered(w)
    PROVE  ToolboxInv'
<1>1. UNCHANGED <<storeVars, task, mode>> /\ worker[w].at = "card" /\ Observes(w)
  BY DEF CardAnswered
<1>2. task
  BY <1>1, AtWorkInTask
<1>3. worker[w].left # 0 /\ NeedsHuman(worker[w].risky) /\ trust = asked
      /\ (mode \in ReadingModes => asked = {})
  BY <1>1 DEF ToolboxInv, GrantsAreOfTheTask
<1>4. worker[w].risky \in BOOLEAN /\ mode \in SessionModes
  BY HeldAreAnswered DEF WorkerStates, ToolboxInv, ToolboxTypes
<1>5. mode \notin ReadingModes
  BY <1>3, <1>4, CommandMatrix DEF NeedsHuman
<1>6. CASE UNCHANGED <<trust, asked, ran>>
  <2>1. GatedRunsApproved'
    BY <1>1, <1>6 DEF ToolboxInv, GatedRunsApproved
  <2> QED BY <1>1, <1>2, <1>3, <1>6, <2>1, ObservesFits, WorkerMoves
<1>7. CASE /\ trust' = trust \cup {worker[w].tool} /\ asked' = asked \cup {worker[w].tool}
           /\ CommandRuns(w)
  <2>1. GatedRunsApproved'
    BY <1>1, <1>3, <1>7, RunKeepsGate DEF NeedsHuman
  <2> QED BY <1>1, <1>2, <1>3, <1>5, <1>7, <2>1, ObservesFits, WorkerMoves
<1> QED BY <1>6, <1>7 DEF CardAnswered

\* A task starts, in a mode of the matrix.
LEMMA TaskStartsKeeps ==
    ASSUME ToolboxAssumption, ToolboxInv, NEW m \in TaskModes, TaskStarts(m)
    PROVE  ToolboxInv'
<1> USE DEF ToolboxInv, TaskStarts, storeVars
<1>1. /\ \A w \in Workers : worker'[w] = Off
      /\ asked' = {} /\ ran' = {} /\ trust' = {}
  BY DEF TasksAreClosed, GrantsAreOfTheTask
<1>2. ToolboxTypes'
  BY DEF ToolboxTypes, ToolboxAssumption
<1>3. RowsAreListed' /\ SharedAccess' /\ GatedRunsApproved'
  BY <1>1 DEF RowsAreListed, SharedAccess, GatedRunsApproved
<1>4. SelectionsHold' /\ NoLyingTool'
  BY <1>1 DEF SelectionsHold, NoLyingTool, Off
<1>5. TasksAreClosed' /\ GrantsAreOfTheTask'
  BY <1>1 DEF TasksAreClosed, GrantsAreOfTheTask, Off
<1> QED BY <1>2, <1>3, <1>4, <1>5

\* A task ends, however it ends.
LEMMA TaskEndsKeeps ==
    ASSUME ToolboxAssumption, ToolboxInv, TaskEnds PROVE ToolboxInv'
<1> USE DEF ToolboxInv, TaskEnds, ClearTrust, storeVars
<1>1. Off \in WorkerStates /\ Off.tools = {} /\ Off.at = "idle"
  BY DEF Off, WorkerStates, Callable, ToolboxAssumption
<1>2. ToolboxTypes'
  BY <1>1 DEF ToolboxTypes
<1>3. RowsAreListed' /\ SharedAccess' /\ GatedRunsApproved'
  BY DEF RowsAreListed, SharedAccess, GatedRunsApproved
<1>4. SelectionsHold' /\ NoLyingTool'
  BY <1>1 DEF SelectionsHold, NoLyingTool
<1>5. TasksAreClosed' /\ GrantsAreOfTheTask'
  BY <1>1 DEF TasksAreClosed, GrantsAreOfTheTask
<1> QED BY <1>2, <1>3, <1>4, <1>5

\* Before the boot there is nothing.
LEMMA ToolboxStarts == ASSUME ToolboxAssumption, ToolboxInit PROVE ToolboxInv
<1> USE DEF ToolboxInit
<1>1. Off \in WorkerStates /\ Off.tools = {} /\ Off.at = "idle"
  BY DEF Off, WorkerStates, Callable, ToolboxAssumption
<1>2. ToolboxTypes
  <2>1. Len(BootSchemas) \in Nat
    BY DEF ToolboxAssumption
  <2>2. store \in [ToolNames -> {<<>>} \cup Schemas]
    OBVIOUS
  <2>3. worker \in [Workers -> WorkerStates]
    BY <1>1
  <2>4. booted \in 0 .. Len(BootSchemas)
    BY <2>1
  <2>5. mode \in SessionModes
    BY DEF SessionModes
  <2> QED BY <2>2, <2>3, <2>4, <2>5 DEF ToolboxTypes
<1>3. RowsAreListed /\ SharedAccess /\ GatedRunsApproved
  BY DEF RowsAreListed, SharedAccess, GatedRunsApproved
<1>4. SelectionsHold /\ NoLyingTool
  BY <1>1 DEF SelectionsHold, NoLyingTool
<1>5. TasksAreClosed /\ GrantsAreOfTheTask
  BY <1>1 DEF TasksAreClosed, GrantsAreOfTheTask
<1> QED BY <1>2, <1>3, <1>4, <1>5 DEF ToolboxInv

\* Every step keeps the invariant.
LEMMA ToolboxStep == ASSUME ToolboxAssumption, ToolboxInv, [ToolboxNext]_toolboxVars
                     PROVE  ToolboxInv'
<1>1. CASE PopulateNext
  BY <1>1, PopulateKeeps
<1>2. CASE TaskEnds
  BY <1>2, TaskEndsKeeps
<1>3. ASSUME NEW r \in McpSchemas, RegisterStarts(r) \/ RegisterSchema(r) PROVE ToolboxInv'
  BY <1>3, RegisterStartsKeeps, RegisterSchemaKeeps
<1>4. ASSUME NEW m \in TaskModes, TaskStarts(m) PROVE ToolboxInv'
  BY <1>4, TaskStartsKeeps
<1>5. ASSUME NEW w \in Workers, WorkerStarts(w) \/ WorkerStep(w) PROVE ToolboxInv'
  BY <1>5, WorkerStartsKeeps, WorkerSelectsKeeps, ReasonKeeps, DispatchKeeps,
     CardAnsweredKeeps DEF WorkerStep
<1>6. CASE UNCHANGED toolboxVars
  BY <1>6 DEF toolboxVars, ToolboxInv, ToolboxTypes, RowsAreListed, SharedAccess,
     SelectionsHold, MayOffer, NoLyingTool, TasksAreClosed, GrantsAreOfTheTask, NeedsHuman,
     GatedRunsApproved
<1> QED BY <1>1, <1>2, <1>3, <1>4, <1>5, <1>6 DEF ToolboxNext

\* Whatever order the tool families and the servers register in, a worker in its
\* loop is offered only what its role may call and a plan-only session nothing
\* that acts (but for a server that takes a family's name), the shared rows never
\* get weaker, and every command that needed a human ran after one said yes in
\* the same task (tool_rag.py, tool_registry.py, tool_dispatch.py).
THEOREM ToolsStayGated ==
    ASSUME ToolboxAssumption PROVE ToolboxSpec => []ToolsKeepTheirGates
<1>1. ToolboxInit => ToolboxInv
  BY ToolboxStarts
<1>2. ToolboxInv /\ [ToolboxNext]_toolboxVars => ToolboxInv'
  BY ToolboxStep
<1>3. ToolboxInv => ToolsKeepTheirGates
  BY DEF ToolboxInv, ToolsKeepTheirGates
<1> QED BY <1>1, <1>2, <1>3, PTL DEF ToolboxSpec

-----------------------------------------------------------------------------
(* The background passes of the host.                                      *)

PassStates ==
    [kind : Kinds, proj : Projects \cup {NoProject}, step : Alive \cup {"none", "done"},
     epoch : Nat, base : Nat, cancel : BOOLEAN]

\* The types of the variables the passes depend on.
EndpointTypes ==
    /\ bound \in [Clients -> Projects \cup {NoProject}]
    /\ saves \in [Projects -> Nat]
    /\ epoch \in [Kinds -> [Projects -> Nat]]
    /\ slot \in [Kinds -> [Projects -> {0} \cup Passes]]
    /\ pass \in [Passes -> PassStates]

Lives(n) == pass[n].step \in Alive
Counts(n) == Lives(n) /\ ~pass[n].cancel

\* A slot names a living pass of its kind and project.
SlotsHold ==
    \A k \in Kinds, p \in Projects :
        slot[k][p] # 0 => /\ Lives(slot[k][p])
                          /\ pass[slot[k][p]].kind = k /\ pass[slot[k][p]].proj = p

\* A living pass belongs to a project, and unless it is being cancelled it holds
\* the slot of its kind and project.
PassesHold ==
    \A n \in Passes : Lives(n) =>
        /\ pass[n].proj \in Projects
        /\ ~pass[n].cancel => slot[pass[n].kind][pass[n].proj] = n

\* No save came since a pass that is not being cancelled took its snapshot.
BasesHold ==
    \A n \in Passes : pass[n].step \in {"model", "lock"} /\ ~pass[n].cancel
                         => pass[n].base = saves[pass[n].proj]

\* The inductive invariant.
EndpointInv == EndpointTypes /\ SlotsHold /\ PassesHold /\ BasesHold /\ NotesAreFresh

\* Passes are numbered from one.
LEMMA PassNumbers ==
    ASSUME EndpointAssumption PROVE \A n \in Passes : n # 0
BY DEF EndpointAssumption, Passes

\* A cancellation marks living passes and changes nothing else.
LEMMA CancelledFits ==
    ASSUME EndpointTypes, NEW ns, pass' = Cancelled(ns)
    PROVE  /\ pass' \in [Passes -> PassStates]
           /\ \A n \in Passes :
                 /\ pass'[n].kind = pass[n].kind /\ pass'[n].proj = pass[n].proj
                 /\ pass'[n].step = pass[n].step /\ pass'[n].base = pass[n].base
                 /\ ~pass'[n].cancel => ~pass[n].cancel /\ (Lives(n) => n \notin ns)
<1> SUFFICES ASSUME NEW n \in Passes
             PROVE  /\ pass'[n] \in PassStates
                    /\ pass'[n].kind = pass[n].kind /\ pass'[n].proj = pass[n].proj
                    /\ pass'[n].step = pass[n].step /\ pass'[n].base = pass[n].base
                    /\ ~pass'[n].cancel => ~pass[n].cancel /\ (Lives(n) => n \notin ns)
  BY DEF Cancelled
<1>1. pass[n] \in PassStates
  BY DEF EndpointTypes
<1>2. CASE n \in ns /\ Lives(n)
  <2>1. pass'[n] = [pass[n] EXCEPT !.cancel = TRUE]
    BY <1>2 DEF Cancelled, Lives
  <2> QED BY <1>1, <2>1 DEF PassStates
<1>3. CASE ~(n \in ns /\ Lives(n))
  <2>1. pass'[n] = pass[n]
    BY <1>3 DEF Cancelled, Lives
  <2> QED BY <1>1, <1>3, <2>1
<1> QED BY <1>2, <1>3

\* A step that leaves the passes, the saves and the notes alone.
LEMMA PassesUntouched ==
    ASSUME EndpointInv, UNCHANGED <<saves, background, written>>,
           bound' \in [Clients -> Projects \cup {NoProject}]
    PROVE  EndpointInv'
BY DEF EndpointInv, EndpointTypes, background, SlotsHold, PassesHold, BasesHold, NotesAreFresh,
   Lives

\* The handshake, the bindings and the end of the host's life.
LEMMA WireKeeps ==
    ASSUME EndpointAssumption, EndpointInv, NEW c \in Clients, NEW i \in 1 .. MaxSockets,
           \/ Dial(c, i) \/ Authenticate(c, i) \/ RejectHandshake(c, i) \/ Drop(c, i)
           \/ WorkspaceInit(c, i) \/ FileUpdate(c, i) \/ Refill(c) \/ FirePurge(c)
           \/ BeginShutdown
    PROVE  EndpointInv'
<1>1. bound \in [Clients -> Projects \cup {NoProject}]
  BY DEF EndpointInv, EndpointTypes
<1>2. CASE WorkspaceInit(c, i)
  <2>1. bound' \in [Clients -> Projects \cup {NoProject}]
    BY <1>1, <1>2 DEF WorkspaceInit, EndpointAssumption
  <2> QED BY <1>2, <2>1, PassesUntouched DEF WorkspaceInit
<1>3. CASE UNCHANGED <<bound, saves, background, written>>
  BY <1>1, <1>3, PassesUntouched
<1> QED BY <1>2, <1>3 DEF Dial, Authenticate, RejectHandshake, Drop, FileUpdate, Refill,
        FirePurge, BeginShutdown

\* A save cancels what it makes stale: what is not registered is cancelled
\* already.
LEMMA TelemetryKeeps ==
    ASSUME EndpointAssumption, EndpointInv, NEW c \in Clients, NEW i \in 1 .. MaxSockets,
           IdeTelemetry(c, i)
    PROVE  EndpointInv'
<1>1. UNCHANGED <<bound, written>>
  BY DEF IdeTelemetry
<1>2. CASE bound[c] = NoProject
  BY <1>1, <1>2, PassesUntouched DEF IdeTelemetry, EndpointInv, EndpointTypes
<1>3. CASE bound[c] # NoProject
  <2> DEFINE p == bound[c]
             ns == UNION {Registered(k, p) : k \in Kinds}
  <2>1. p \in Projects
    BY <1>3 DEF EndpointInv, EndpointTypes
  <2>2. /\ saves' = [saves EXCEPT ![p] = @ + 1] /\ slot' = slot /\ pass' = Cancelled(ns)
        /\ epoch' = [k \in Kinds |-> [epoch[k] EXCEPT ![p] = @ + 1]]
    BY <1>3 DEF IdeTelemetry, AbortPasses
  <2>3. \A k \in Kinds : slot[k][p] # 0 => slot[k][p] \in ns
    BY DEF Registered
  <2> HIDE DEF ns
  <2>4. /\ pass' \in [Passes -> PassStates]
        /\ \A n \in Passes :
              /\ pass'[n].kind = pass[n].kind /\ pass'[n].proj = pass[n].proj
              /\ pass'[n].step = pass[n].step /\ pass'[n].base = pass[n].base
              /\ ~pass'[n].cancel => ~pass[n].cancel /\ (Lives(n) => n \notin ns)
    BY <2>2, CancelledFits DEF EndpointInv
  <2> HIDE DEF p
  <2>5. EndpointTypes'
    BY <1>1, <2>1, <2>2, <2>4 DEF EndpointInv, EndpointTypes
  <2>6. SlotsHold'
    BY <2>2, <2>4 DEF EndpointInv, EndpointTypes, SlotsHold, Lives
  <2>7. PassesHold'
    BY <2>2, <2>4 DEF EndpointInv, EndpointTypes, PassesHold, Lives
  <2>8. BasesHold'
    <3> SUFFICES ASSUME NEW n \in Passes, pass'[n].step \in {"model", "lock"},
                        ~pass'[n].cancel
                 PROVE  pass'[n].base = saves'[pass'[n].proj]
      BY DEF BasesHold
    <3>1. Lives(n) /\ ~pass[n].cancel /\ n \notin ns /\ n # 0 /\ pass[n].kind \in Kinds
      BY <2>4, PassNumbers DEF Lives, Alive, EndpointInv, EndpointTypes, PassStates
    <3>2. pass[n].proj \in Projects /\ slot[pass[n].kind][pass[n].proj] = n
      BY <3>1 DEF EndpointInv, PassesHold
    <3>3. pass[n].proj # p
      BY <2>3, <3>1, <3>2
    <3>4. pass[n].base = saves[pass[n].proj]
      BY <2>4, <3>1 DEF EndpointInv, BasesHold
    <3> QED BY <2>2, <2>4, <3>2, <3>3, <3>4 DEF EndpointInv, EndpointTypes
  <2>9. NotesAreFresh'
    BY <1>1 DEF EndpointInv, NotesAreFresh
  <2> QED BY <2>5, <2>6, <2>7, <2>8, <2>9 DEF EndpointInv
<1> QED BY <1>2, <1>3

\* A lost connection takes the passes of its project with it.
LEMMA DisconnectedKeeps ==
    ASSUME EndpointAssumption, EndpointInv, NEW c \in Clients, NEW i \in 1 .. MaxSockets,
           Disconnected(c, i)
    PROVE  EndpointInv'
<1> DEFINE p == bound[c]
           ns == UNION {Registered(k, p) : k \in Kinds}
<1>1. UNCHANGED <<saves, written>> /\ bound' = [bound EXCEPT ![c] = NoProject]
  BY DEF Disconnected, EvictBindings
<1>2. bound' \in [Clients -> Projects \cup {NoProject}]
  BY <1>1 DEF EndpointInv, EndpointTypes
<1>3. CASE p = NoProject
  BY <1>1, <1>2, <1>3, PassesUntouched DEF Disconnected, EvictBindings
<1>4. CASE p # NoProject
  <2>1. p \in Projects
    BY <1>4 DEF EndpointInv, EndpointTypes
  <2>2. /\ pass' = Cancelled(ns)
        /\ slot' = [k \in Kinds |-> [slot[k] EXCEPT ![p] = 0]]
        /\ epoch' = [k \in Kinds |-> [epoch[k] EXCEPT ![p] = 0]]
    BY <1>4 DEF Disconnected, EvictBindings
  <2>3. \A k \in Kinds : slot[k][p] # 0 => slot[k][p] \in ns
    BY DEF Registered
  <2> HIDE DEF ns
  <2>4. /\ pass' \in [Passes -> PassStates]
        /\ \A n \in Passes :
              /\ pass'[n].kind = pass[n].kind /\ pass'[n].proj = pass[n].proj
              /\ pass'[n].step = pass[n].step /\ pass'[n].base = pass[n].base
              /\ ~pass'[n].cancel => ~pass[n].cancel /\ (Lives(n) => n \notin ns)
    BY <2>2, CancelledFits DEF EndpointInv
  <2> HIDE DEF p
  <2>5. EndpointTypes'
    BY <1>1, <1>2, <2>1, <2>2, <2>4 DEF EndpointInv, EndpointTypes
  <2>6. \A k \in Kinds, q \in Projects : slot'[k][q] = IF q = p THEN 0 ELSE slot[k][q]
    BY <2>2 DEF EndpointInv, EndpointTypes
  <2>7. SlotsHold'
    BY <2>4, <2>6 DEF EndpointInv, EndpointTypes, SlotsHold, Lives
  <2>8. PassesHold'
    <3> SUFFICES ASSUME NEW n \in Passes, Lives(n)'
                 PROVE  /\ pass'[n].proj \in Projects
                        /\ ~pass'[n].cancel => slot'[pass'[n].kind][pass'[n].proj] = n
      BY DEF PassesHold
    <3>1. Lives(n) /\ n # 0 /\ pass[n].kind \in Kinds /\ pass[n].proj \in Projects
      BY <2>4, PassNumbers DEF Lives, EndpointInv, EndpointTypes, PassStates, PassesHold
    <3>2. ASSUME ~pass'[n].cancel PROVE slot'[pass'[n].kind][pass'[n].proj] = n
      <4>1. n \notin ns /\ slot[pass[n].kind][pass[n].proj] = n
        BY <2>4, <3>1, <3>2 DEF EndpointInv, PassesHold
      <4>2. pass[n].proj # p
        BY <2>3, <3>1, <4>1
      <4> QED BY <2>4, <2>6, <3>1, <4>1, <4>2
    <3> QED BY <2>4, <3>1, <3>2
  <2>9. BasesHold'
    BY <1>1, <2>4 DEF EndpointInv, EndpointTypes, BasesHold
  <2>10. NotesAreFresh'
    BY <1>1 DEF EndpointInv, NotesAreFresh
  <2> QED BY <2>5, <2>7, <2>8, <2>9, <2>10 DEF EndpointInv
<1> QED BY <1>3, <1>4

\* The end of the host cancels what is registered.
LEMMA FinishShutdownKeeps ==
    ASSUME EndpointAssumption, EndpointInv, FinishShutdown PROVE EndpointInv'
<1> DEFINE ns == UNION {Registered(k, p) : k \in Kinds, p \in Projects}
<1>1. pass' = Cancelled(ns) /\ UNCHANGED <<bound, saves, epoch, slot, written>>
  BY DEF FinishShutdown
<1> HIDE DEF ns
<1>2. /\ pass' \in [Passes -> PassStates]
      /\ \A n \in Passes :
            /\ pass'[n].kind = pass[n].kind /\ pass'[n].proj = pass[n].proj
            /\ pass'[n].step = pass[n].step /\ pass'[n].base = pass[n].base
            /\ ~pass'[n].cancel => ~pass[n].cancel /\ (Lives(n) => n \notin ns)
  BY <1>1, CancelledFits DEF EndpointInv
<1>3. EndpointTypes'
  BY <1>1, <1>2 DEF EndpointInv, EndpointTypes
<1>4. SlotsHold'
  BY <1>1, <1>2 DEF EndpointInv, EndpointTypes, SlotsHold, Lives
<1>5. PassesHold' /\ BasesHold' /\ NotesAreFresh'
  BY <1>1, <1>2 DEF EndpointInv, PassesHold, BasesHold, NotesAreFresh, Lives
<1> QED BY <1>3, <1>4, <1>5 DEF EndpointInv

\* The new pass takes the slot, the one it replaces is cancelled.
LEMMA TriggerKeeps ==
    ASSUME EndpointAssumption, EndpointInv, NEW c \in Clients, NEW i \in 1 .. MaxSockets,
           NEW k \in Kinds, NEW n \in Passes, Trigger(c, i, k, n)
    PROVE  EndpointInv'
<1> DEFINE p == bound[c]
           old == Cancelled(Registered(k, p))
           fresh == NewPass(n, k, p)
<1>1. /\ p \in Projects /\ pass[n].step = "none"
      /\ UNCHANGED <<bound, saves, epoch, written>>
  BY DEF Trigger, EndpointInv, EndpointTypes
<1>2. pass' = [old EXCEPT ![n] = fresh] /\ slot' = [slot EXCEPT ![k][p] = n]
  BY DEF Trigger
<1>3. /\ fresh \in PassStates /\ fresh.kind = k /\ fresh.proj = p /\ fresh.step = "start"
      /\ ~fresh.cancel
  <2>1. fresh = [kind |-> k, proj |-> p, step |-> "start", epoch |-> epoch[k][p],
                 base |-> 0, cancel |-> FALSE]
    <3> DEFINE now == epoch[k][p]
    <3>1. fresh = [Unused EXCEPT !.kind = k, !.proj = p, !.step = "start", !.epoch = now]
      BY DEF NewPass
    <3> HIDE DEF now, p, fresh
    <3>2. fresh = [kind |-> k, proj |-> p, step |-> "start", epoch |-> now,
                   base |-> 0, cancel |-> FALSE]
      BY <3>1 DEF Unused
    <3> QED BY <3>2 DEF now
  <2>2. epoch[k][p] \in Nat
    BY <1>1 DEF EndpointInv, EndpointTypes
  <2> HIDE DEF fresh
  <2> QED BY <1>1, <2>1, <2>2 DEF PassStates, Alive
<1>4. \A m \in Passes :
         /\ old[m].kind = pass[m].kind /\ old[m].proj = pass[m].proj
         /\ old[m].step = pass[m].step /\ old[m].base = pass[m].base
         /\ old[m] \in PassStates
         /\ ~old[m].cancel => ~pass[m].cancel /\ (Lives(m) => m \notin Registered(k, p))
  <2> SUFFICES ASSUME NEW m \in Passes
               PROVE  /\ old[m].kind = pass[m].kind /\ old[m].proj = pass[m].proj
                      /\ old[m].step = pass[m].step /\ old[m].base = pass[m].base
                      /\ old[m] \in PassStates
                      /\ ~old[m].cancel =>
                            ~pass[m].cancel /\ (Lives(m) => m \notin Registered(k, p))
    OBVIOUS
  <2>1. pass[m] \in PassStates
    BY DEF EndpointInv, EndpointTypes
  <2>2. CASE m \in Registered(k, p) /\ Lives(m)
    <3>1. old[m] = [pass[m] EXCEPT !.cancel = TRUE]
      BY <2>2 DEF Cancelled, Lives
    <3> HIDE DEF old
    <3> QED BY <2>1, <3>1 DEF PassStates
  <2>3. CASE ~(m \in Registered(k, p) /\ Lives(m))
    <3>1. old[m] = pass[m]
      BY <2>3 DEF Cancelled, Lives
    <3> HIDE DEF old
    <3> QED BY <2>1, <2>3, <3>1
  <2> QED BY <2>2, <2>3
<1>5. \A m \in Passes : pass'[m] = IF m = n THEN fresh ELSE old[m]
  BY <1>2 DEF Cancelled
<1>6. slot[k][p] # 0 => slot[k][p] \in Registered(k, p)
  BY DEF Registered
<1>7. pass' \in [Passes -> PassStates]
  <2>1. DOMAIN pass' = Passes /\ pass' = [m \in Passes |-> pass'[m]]
    BY <1>2 DEF Cancelled
  <2> HIDE DEF old, fresh
  <2> QED BY <1>3, <1>4, <1>5, <2>1
<1> HIDE DEF p, old, fresh
<1>8. /\ slot' \in [Kinds -> [Projects -> {0} \cup Passes]]
      /\ \A j \in Kinds, q \in Projects :
            slot'[j][q] = IF j = k /\ q = p THEN n ELSE slot[j][q]
  BY <1>1, <1>2 DEF EndpointInv, EndpointTypes
<1>9. EndpointTypes'
  BY <1>1, <1>7, <1>8 DEF EndpointInv, EndpointTypes
<1>10. ~Lives(n) /\ \A m \in Passes : m # n => (Lives(m)' <=> Lives(m))
  BY <1>1, <1>4, <1>5 DEF Lives, Alive
<1>11. Lives(n)' /\ n # 0
  BY <1>3, <1>5, PassNumbers DEF Lives, Alive
<1>12. SlotsHold'
  <2> SUFFICES ASSUME NEW j \in Kinds, NEW q \in Projects, slot'[j][q] # 0
               PROVE  /\ pass'[slot'[j][q]].step \in Alive
                      /\ pass'[slot'[j][q]].kind = j /\ pass'[slot'[j][q]].proj = q
    BY DEF SlotsHold, Lives
  <2>1. CASE j = k /\ q = p
    BY <1>3, <1>5, <1>8, <1>11, <2>1 DEF Lives
  <2>2. CASE ~(j = k /\ q = p)
    <3> DEFINE m == slot[j][q]
    <3>1. slot'[j][q] = m /\ m # 0 /\ m \in Passes
      BY <1>8, <2>2 DEF EndpointInv, EndpointTypes
    <3>2. Lives(m) /\ pass[m].kind = j /\ pass[m].proj = q
      BY <3>1 DEF EndpointInv, SlotsHold
    <3> HIDE DEF m
    <3>3. m # n
      BY <1>10, <3>2
    <3> QED BY <1>4, <1>5, <3>1, <3>2, <3>3 DEF Lives
  <2> QED BY <2>1, <2>2
<1>13. PassesHold'
  <2> SUFFICES ASSUME NEW m \in Passes, Lives(m)'
               PROVE  /\ pass'[m].proj \in Projects
                      /\ ~pass'[m].cancel => slot'[pass'[m].kind][pass'[m].proj] = m
    BY DEF PassesHold
  <2>1. CASE m = n
    BY <1>1, <1>3, <1>5, <1>8, <2>1
  <2>2. CASE m # n
    <3>1. Lives(m) /\ pass[m].proj \in Projects /\ pass[m].kind \in Kinds
          /\ pass'[m].kind = pass[m].kind /\ pass'[m].proj = pass[m].proj /\ m # 0
      BY <1>4, <1>5, <1>10, <2>2, PassNumbers
      DEF EndpointInv, EndpointTypes, PassStates, PassesHold
    <3>2. ASSUME ~pass'[m].cancel PROVE slot'[pass[m].kind][pass[m].proj] = m
      <4>1. ~pass[m].cancel /\ m \notin Registered(k, p)
        BY <1>4, <1>5, <2>2, <3>1, <3>2
      <4>2. slot[pass[m].kind][pass[m].proj] = m
        BY <3>1, <4>1 DEF EndpointInv, PassesHold
      <4>3. ~(pass[m].kind = k /\ pass[m].proj = p)
        BY <1>6, <3>1, <4>1, <4>2
      <4> QED BY <1>8, <3>1, <4>2, <4>3
    <3> QED BY <3>1, <3>2
  <2> QED BY <2>1, <2>2
<1>14. BasesHold'
  BY <1>1, <1>3, <1>4, <1>5 DEF EndpointInv, BasesHold
<1>15. NotesAreFresh'
  BY <1>1 DEF EndpointInv, NotesAreFresh
<1> QED BY <1>9, <1>12, <1>13, <1>14, <1>15 DEF EndpointInv

\* A pass that ends leaves its slot, unless another holds it by now.
LEMMA EndsKeeps ==
    ASSUME EndpointAssumption, EndpointInv, NEW n \in Passes, Lives(n), Ends(n),
           UNCHANGED <<bound, saves, epoch>>, NotesAreFresh'
    PROVE  EndpointInv'
<1> DEFINE k == pass[n].kind
           p == pass[n].proj
           over == [pass[n] EXCEPT !.step = "done", !.cancel = FALSE]
<1>1. k \in Kinds /\ p \in Projects /\ pass[n] \in PassStates /\ n # 0
  BY PassNumbers DEF EndpointInv, EndpointTypes, PassStates, PassesHold
<1>2. pass' = [pass EXCEPT ![n] = over]
      /\ slot' = [slot EXCEPT ![k][p] = IF @ = n THEN 0 ELSE @]
  BY DEF Ends, EndpointInv, EndpointTypes
<1>3. over \in PassStates /\ over.step = "done"
  BY <1>1 DEF PassStates
<1> HIDE DEF over
<1>4. /\ pass' \in [Passes -> PassStates]
      /\ \A m \in Passes : pass'[m] = IF m = n THEN over ELSE pass[m]
  BY <1>2, <1>3 DEF EndpointInv, EndpointTypes
<1> HIDE DEF k, p
<1>5. /\ slot' \in [Kinds -> [Projects -> {0} \cup Passes]]
      /\ \A j \in Kinds, q \in Projects :
            slot'[j][q] = IF j = k /\ q = p /\ slot[j][q] = n THEN 0 ELSE slot[j][q]
  BY <1>1, <1>2 DEF EndpointInv, EndpointTypes
<1>6. EndpointTypes'
  BY <1>4, <1>5 DEF EndpointInv, EndpointTypes
<1>7. ~Lives(n)' /\ \A m \in Passes : m # n => (Lives(m)' <=> Lives(m))
  BY <1>3, <1>4 DEF Lives, Alive
<1>8. SlotsHold'
  <2> SUFFICES ASSUME NEW j \in Kinds, NEW q \in Projects, slot'[j][q] # 0
               PROVE  /\ pass'[slot'[j][q]].step \in Alive
                      /\ pass'[slot'[j][q]].kind = j /\ pass'[slot'[j][q]].proj = q
    BY DEF SlotsHold, Lives
  <2> DEFINE m == slot[j][q]
  <2>1. slot'[j][q] = m /\ m # 0 /\ m \in Passes
    BY <1>5 DEF EndpointInv, EndpointTypes
  <2>2. Lives(m) /\ pass[m].kind = j /\ pass[m].proj = q
    BY <2>1 DEF EndpointInv, SlotsHold
  <2>3. m # n
    BY <1>5, <2>1, <2>2 DEF k, p
  <2> HIDE DEF m
  <2> QED BY <1>4, <2>1, <2>2, <2>3 DEF Lives
<1>9. PassesHold'
  <2> SUFFICES ASSUME NEW m \in Passes, Lives(m)'
               PROVE  /\ pass'[m].proj \in Projects
                      /\ ~pass'[m].cancel => slot'[pass'[m].kind][pass'[m].proj] = m
    BY DEF PassesHold
  <2>1. m # n /\ Lives(m) /\ pass'[m] = pass[m] /\ pass[m].kind \in Kinds
    BY <1>4, <1>7 DEF EndpointInv, EndpointTypes, PassStates
  <2> QED BY <1>5, <2>1 DEF EndpointInv, PassesHold
<1>10. BasesHold'
  BY <1>3, <1>4 DEF EndpointInv, BasesHold
<1> QED BY <1>6, <1>8, <1>9, <1>10 DEF EndpointInv

\* A pass that goes on stays the pass it is.
LEMMA GoesOnKeeps ==
    ASSUME EndpointInv, NEW n \in Passes, Lives(n), NEW next \in PassStates,
           pass' = [pass EXCEPT ![n] = next],
           next.kind = pass[n].kind, next.proj = pass[n].proj, next.cancel = pass[n].cancel,
           next.step \in Alive,
           next.step \in {"model", "lock"} /\ ~next.cancel => next.base = saves[next.proj],
           UNCHANGED <<bound, saves, epoch, slot>>, NotesAreFresh'
    PROVE  EndpointInv'
<1>1. /\ pass' \in [Passes -> PassStates]
      /\ \A m \in Passes : pass'[m] = IF m = n THEN next ELSE pass[m]
  BY DEF EndpointInv, EndpointTypes
<1>2. EndpointTypes'
  BY <1>1 DEF EndpointInv, EndpointTypes
<1>3. \A m \in Passes : /\ Lives(m)' <=> Lives(m)
                        /\ pass'[m].kind = pass[m].kind /\ pass'[m].proj = pass[m].proj
                        /\ pass'[m].cancel = pass[m].cancel
  BY <1>1 DEF Lives
<1>4. SlotsHold'
  BY <1>3 DEF EndpointInv, EndpointTypes, SlotsHold
<1>5. PassesHold'
  BY <1>3 DEF EndpointInv, PassesHold
<1>6. BasesHold'
  BY <1>1 DEF EndpointInv, BasesHold
<1> QED BY <1>2, <1>4, <1>5, <1>6 DEF EndpointInv

\* What a pass writes is as of today.
LEMMA NoteIsFresh ==
    ASSUME EndpointInv, NEW n \in Passes, pass[n].step \in {"model", "lock"},
           ~pass[n].cancel, written' = written \cup {Note(n)}
    PROVE  NotesAreFresh'
<1>1. pass[n].base = saves[pass[n].proj]
  BY DEF EndpointInv, BasesHold
<1>2. Note(n).base = Note(n).at
  BY <1>1 DEF Note
<1> QED BY <1>2 DEF EndpointInv, NotesAreFresh

\* The steps of a pass.
LEMMA PassKeeps ==
    ASSUME EndpointAssumption, EndpointInv, NEW n \in Passes, PassRuns(n)
    PROVE  EndpointInv'
<1>1. pass[n] \in PassStates
  BY DEF EndpointInv, EndpointTypes
<1>2. Lives(n) /\ UNCHANGED <<bound, saves, epoch>>
  BY DEF PassRuns, PassBegins, PassAnswered, PassLocks, PassWritten, PassCancelled, Lives, Alive
<1>3. written' = written => NotesAreFresh'
  BY DEF EndpointInv, NotesAreFresh
<1>4. CASE Ends(n) /\ written' = written
  BY <1>2, <1>3, <1>4, EndsKeeps
<1>5. CASE /\ pass[n].step = "start"
           /\ pass' = [pass EXCEPT ![n].step = "model", ![n].base = saves[pass[n].proj]]
           /\ UNCHANGED <<slot, written>>
  <2> DEFINE next == [pass[n] EXCEPT !.step = "model", !.base = saves[pass[n].proj]]
  <2>1. saves[pass[n].proj] \in Nat
    BY <1>2 DEF EndpointInv, EndpointTypes, PassesHold
  <2>2. /\ next \in PassStates /\ next.kind = pass[n].kind /\ next.proj = pass[n].proj
        /\ next.cancel = pass[n].cancel /\ next.step \in Alive
        /\ next.base = saves[next.proj]
    BY <1>1, <2>1 DEF PassStates, Alive
  <2>3. pass' = [pass EXCEPT ![n] = next]
    BY <1>5 DEF EndpointInv, EndpointTypes
  <2> HIDE DEF next
  <2> QED BY <1>2, <1>3, <1>5, <2>2, <2>3, GoesOnKeeps
<1>6. CASE /\ pass[n].step = "model" /\ ~pass[n].cancel
           /\ Ends(n) /\ written' = written \cup {Note(n)}
  BY <1>2, <1>6, NoteIsFresh, EndsKeeps
<1>7. CASE /\ pass[n].step = "model" /\ ~pass[n].cancel
           /\ pass' = [pass EXCEPT ![n].step = "lock"] /\ UNCHANGED <<slot, written>>
  <2> DEFINE next == [pass[n] EXCEPT !.step = "lock"]
  <2>1. pass[n].base = saves[pass[n].proj]
    BY <1>7 DEF EndpointInv, BasesHold
  <2>2. /\ next \in PassStates /\ next.kind = pass[n].kind /\ next.proj = pass[n].proj
        /\ next.cancel = pass[n].cancel /\ next.step \in Alive
        /\ next.base = saves[next.proj]
    BY <1>1, <2>1 DEF PassStates, Alive
  <2>3. pass' = [pass EXCEPT ![n] = next]
    BY <1>7 DEF EndpointInv, EndpointTypes
  <2> HIDE DEF next
  <2> QED BY <1>2, <1>3, <1>7, <2>2, <2>3, GoesOnKeeps
<1>8. CASE /\ pass[n].step = "lock" /\ ~pass[n].cancel
           /\ pass' = [pass EXCEPT ![n].step = "write"] /\ UNCHANGED slot
           /\ written' = written \cup {Note(n)}
  <2> DEFINE next == [pass[n] EXCEPT !.step = "write"]
  <2>1. /\ next \in PassStates /\ next.kind = pass[n].kind /\ next.proj = pass[n].proj
        /\ next.cancel = pass[n].cancel /\ next.step \in Alive
        /\ next.step \notin {"model", "lock"}
    BY <1>1 DEF PassStates, Alive
  <2>2. pass' = [pass EXCEPT ![n] = next]
    BY <1>8 DEF EndpointInv, EndpointTypes
  <2>3. NotesAreFresh'
    BY <1>8, NoteIsFresh
  <2> HIDE DEF next
  <2> QED BY <1>2, <1>8, <2>1, <2>2, <2>3, GoesOnKeeps
<1> QED BY <1>4, <1>5, <1>6, <1>7, <1>8
        DEF PassRuns, PassBegins, PassAnswered, PassLocks, PassWritten, PassCancelled

\* A new host has no passes.
LEMMA EndpointStarts == ASSUME EndpointAssumption, EndpointInit PROVE EndpointInv
<1> USE DEF EndpointInit
<1>1. Unused \in PassStates /\ Unused.step = "none"
  BY DEF Unused, PassStates, Kinds
<1>2. EndpointTypes
  BY <1>1 DEF EndpointTypes
<1>3. \A n \in Passes : ~Lives(n) /\ pass[n].step = "none"
  BY <1>1 DEF Lives, Alive
<1> QED BY <1>2, <1>3 DEF EndpointInv, SlotsHold, PassesHold, BasesHold, NotesAreFresh

\* Every step keeps the invariant.
LEMMA EndpointStep ==
    ASSUME EndpointAssumption, EndpointInv, [EndpointNext]_endpointVars PROVE EndpointInv'
<1>1. ASSUME NEW c \in Clients, NEW i \in 1 .. MaxSockets, Serves(c, i) PROVE EndpointInv'
  BY <1>1, WireKeeps, DisconnectedKeeps, TelemetryKeeps, TriggerKeeps DEF Serves
<1>2. ASSUME NEW c \in Clients, Refill(c) \/ FirePurge(c) PROVE EndpointInv'
  BY <1>2, PassesUntouched DEF Refill, FirePurge, EndpointInv, EndpointTypes
<1>3. ASSUME NEW n \in Passes, PassRuns(n) PROVE EndpointInv'
  BY <1>3, PassKeeps
<1>4. CASE BeginShutdown
  BY <1>4, PassesUntouched DEF BeginShutdown, EndpointInv, EndpointTypes
<1>5. CASE FinishShutdown
  BY <1>5, FinishShutdownKeeps
<1>6. CASE UNCHANGED endpointVars
  BY <1>6, PassesUntouched DEF endpointVars, background, EndpointInv, EndpointTypes
<1> QED BY <1>1, <1>2, <1>3, <1>4, <1>5, <1>6 DEF EndpointNext

\* The slot of a kind and a project has room for one.
LEMMA OneHoldsTheSlot ==
    ASSUME EndpointInv, NEW k \in Kinds, NEW p \in Projects
    PROVE  Cardinality({n \in Running(k, p) : ~pass[n].cancel}) <= 1
<1> DEFINE S == {n \in Running(k, p) : ~pass[n].cancel}
<1>1. S \subseteq {slot[k][p]}
  BY DEF Running, EndpointInv, PassesHold, Lives
<1>2. IsFiniteSet({slot[k][p]}) /\ Cardinality({slot[k][p]}) = 1
  BY FS_Singleton
<1> HIDE DEF S
<1>3. Cardinality(S) <= Cardinality({slot[k][p]})
  BY <1>1, <1>2, FS_Subset
<1> QED BY <1>2, <1>3 DEF S

\* A background pass writes only from a snapshot no save has overtaken, a project
\* has one running pass of a kind, and a pass that runs can be stopped, however
\* triggers, saves, reconnects and the shutdown interleave (main.py, daemon.py,
\* project_init.py).
THEOREM PassesStayCurrent ==
    ASSUME EndpointAssumption PROVE EndpointSpec => []PassesAreCurrent
<1>1. EndpointInit => EndpointInv
  BY EndpointStarts
<1>2. EndpointInv /\ [EndpointNext]_endpointVars => EndpointInv'
  BY EndpointStep
<1>3. EndpointInv => PassesAreCurrent
  <2> SUFFICES ASSUME EndpointInv PROVE PassesAreCurrent
    OBVIOUS
  <2>1. OnePassPerProject
    BY OneHoldsTheSlot DEF OnePassPerProject
  <2>2. SlotsAreLive
    BY DEF EndpointInv, SlotsHold, PassesHold, SlotsAreLive, Running, Lives
  <2> QED BY <2>1, <2>2 DEF PassesAreCurrent, EndpointInv
<1> QED BY <1>1, <1>2, <1>3, PTL DEF EndpointSpec

-----------------------------------------------------------------------------
(* The ideation loop.                                                      *)

\* The operator looks at what the channel holds for as long as a card is up: the
\* node waits in the super-step after the one that committed the value, and
\* nothing else writes the channel meanwhile.
CardsMirrorChannels ==
    /\ at = "askCard" => card = ch.batch
    /\ at = "briefCard" => card = ch.brief

\* The inductive invariant.
IdeationInv == CardsMirrorChannels /\ AnswersMeetTheirQuestions

\* An edge never leads to a card, so a commit shows none.
LEMMA RoutesPassNoCard ==
    ASSUME NEW c
    PROVE  /\ RouteAfterAnalyst(c) \notin Cards
           /\ RouteAfterSynthesis(c) \notin Cards
BY DEF RouteAfterAnalyst, RouteAfterSynthesis, RouteAfterIdeation, Cards

\* A commit that leaves the exchanges alone keeps the invariant.
LEMMA CommitKeeps ==
    ASSUME IdeationInv, NEW c, NEW route, route \notin Cards, Commit(c, route),
           AnswersMeetTheirQuestions'
    PROVE  IdeationInv'
BY DEF IdeationInv, CardsMirrorChannels, Commit, Cards

\* The interview, up to the card.
LEMMA GrillKeeps ==
    ASSUME IdeationInv, Grill PROVE IdeationInv' /\ HandsOverReviewed
<1>1. CASE CloseInterview
  <2> DEFINE c == [ch EXCEPT !.understood = TRUE, !.hitl = FALSE]
  <2>1. Commit(c, RouteAfterAnalyst(c)) /\ UNCHANGED <<exchanges, handed>>
    BY <1>1 DEF CloseInterview
  <2> HIDE DEF c
  <2>2. AnswersMeetTheirQuestions' /\ HandsOverReviewed
    BY <2>1 DEF IdeationInv, AnswersMeetTheirQuestions, HandsOverReviewed
  <2> QED BY <2>1, <2>2, RoutesPassNoCard, CommitKeeps
<1>2. CASE ComposeBatch
  BY <1>2 DEF ComposeBatch, IdeationInv, CardsMirrorChannels, AnswersMeetTheirQuestions,
     HandsOverReviewed
<1>3. CASE Ask
  BY <1>3 DEF Ask, IdeationInv, CardsMirrorChannels, AnswersMeetTheirQuestions,
     HandsOverReviewed
<1>4. ASSUME NEW outcome, BatchComes(outcome) \/ NoChatTarget
      PROVE  IdeationInv' /\ HandsOverReviewed
  <2>1. PICK c : Commit(c, RouteAfterAnalyst(c)) /\ UNCHANGED <<exchanges, handed>>
    BY <1>4 DEF BatchComes, NoChatTarget
  <2>2. AnswersMeetTheirQuestions' /\ HandsOverReviewed
    BY <2>1 DEF IdeationInv, AnswersMeetTheirQuestions, HandsOverReviewed
  <2> QED BY <2>1, <2>2, RoutesPassNoCard, CommitKeeps
<1>5. ASSUME NEW reason, RetryBatch(reason) PROVE IdeationInv' /\ HandsOverReviewed
  BY <1>5 DEF RetryBatch, IdeationInv, CardsMirrorChannels, AnswersMeetTheirQuestions,
     HandsOverReviewed
<1> QED BY <1>1, <1>2, <1>3, <1>4, <1>5 DEF Grill

\* The answers come back while the card is up.
LEMMA AnswerKeeps ==
    ASSUME IdeationInv, Answer PROVE IdeationInv' /\ HandsOverReviewed
<1>1. PICK c : Commit(c, RouteAfterAnalyst(c))
  BY DEF Answer
<1>2. card = ch.batch /\ exchanges' = exchanges \cup {<<card, ch.batch>>} /\ handed' = handed
  BY DEF Answer, FoldedBatch, IdeationInv, CardsMirrorChannels
<1>3. AnswersMeetTheirQuestions'
  BY <1>2 DEF IdeationInv, AnswersMeetTheirQuestions
<1> QED BY <1>1, <1>2, <1>3, RoutesPassNoCard, CommitKeeps DEF HandsOverReviewed

\* The synthesis, up to the card.
LEMMA SynthesisKeeps ==
    ASSUME IdeationInv, Synthesis PROVE IdeationInv' /\ HandsOverReviewed
<1>1. CASE Draft
  <2>1. PICK c : Commit(c, RouteAfterSynthesis(c)) /\ UNCHANGED <<exchanges, handed>>
    BY <1>1 DEF Draft
  <2>2. AnswersMeetTheirQuestions' /\ HandsOverReviewed
    BY <2>1 DEF IdeationInv, AnswersMeetTheirQuestions, HandsOverReviewed
  <2> QED BY <2>1, <2>2, RoutesPassNoCard, CommitKeeps
<1>2. CASE ShowBrief
  BY <1>2 DEF ShowBrief, IdeationInv, CardsMirrorChannels, AnswersMeetTheirQuestions,
     HandsOverReviewed
<1> QED BY <1>1, <1>2 DEF Synthesis

\* What is handed over while a brief is on the card is that brief or the
\* operator's edit.
LEMMA HandOffKeeps ==
    ASSUME IdeationInv, at = "briefCard", NEW text \in {ch.brief, Edited}, HandOff(text)
    PROVE  IdeationInv' /\ HandsOverReviewed
<1>1. Commit(Accepted, RouteAfterSynthesis(Accepted)) /\ UNCHANGED exchanges /\ handed' = text
  BY DEF HandOff
<1>2. card = ch.brief
  BY DEF IdeationInv, CardsMirrorChannels
<1>3. AnswersMeetTheirQuestions'
  BY <1>1 DEF IdeationInv, AnswersMeetTheirQuestions
<1> QED BY <1>1, <1>2, <1>3, RoutesPassNoCard, CommitKeeps DEF HandsOverReviewed

\* The operator's decision.
LEMMA ReviewKeeps ==
    ASSUME IdeationInv, Review PROVE IdeationInv' /\ HandsOverReviewed
<1>1. CASE ApproveBrief \/ EditBrief \/ CommentAtCap
  BY <1>1, HandOffKeeps DEF ApproveBrief, EditBrief, CommentAtCap
<1>2. CASE SendBack \/ CancelReview
  <2>1. PICK c : Commit(c, RouteAfterSynthesis(c)) /\ UNCHANGED <<exchanges, handed>>
    BY <1>2 DEF SendBack, CancelReview
  <2>2. AnswersMeetTheirQuestions' /\ HandsOverReviewed
    BY <2>1 DEF IdeationInv, AnswersMeetTheirQuestions, HandsOverReviewed
  <2> QED BY <2>1, <2>2, RoutesPassNoCard, CommitKeeps
<1> QED BY <1>1, <1>2 DEF Review

\* Every step, and the start and the stop of a turn.
LEMMA IdeationStep ==
    ASSUME IdeationInv, [IdeationNext]_ideationVars
    PROVE  IdeationInv' /\ [HandsOverReviewed]_ideationVars
<1>1. CASE BuildInitialState
  BY <1>1 DEF BuildInitialState, IdeationInv, CardsMirrorChannels,
     AnswersMeetTheirQuestions, HandsOverReviewed
<1>2. CASE StopTurn
  BY <1>2 DEF StopTurn, IdeationInv, CardsMirrorChannels, AnswersMeetTheirQuestions,
     HandsOverReviewed
<1>3. CASE UNCHANGED ideationVars
  BY <1>3 DEF ideationVars, IdeationInv, CardsMirrorChannels, AnswersMeetTheirQuestions
<1> QED BY <1>1, <1>2, <1>3, GrillKeeps, AnswerKeeps, SynthesisKeeps, ReviewKeeps
        DEF IdeationNext

\* A new session shows no card.
LEMMA IdeationStarts == IdeationInit => IdeationInv
BY DEF IdeationInit, IdeationInv, CardsMirrorChannels, AnswersMeetTheirQuestions

\* The operator's answers are folded into the very batch of questions that was on
\* the card, in spite of the node being replayed on resume (analyst.py).
THEOREM AnswersFoldedRight == IdeationSpec => []AnswersMeetTheirQuestions
<1>1. IdeationInv => AnswersMeetTheirQuestions
  BY DEF IdeationInv
<1>2. IdeationInv /\ [IdeationNext]_ideationVars => IdeationInv'
  BY IdeationStep
<1> QED BY <1>1, <1>2, IdeationStarts, PTL DEF IdeationSpec

\* What the planner is handed is the brief that was on the review card, or the
\* operator's edit of it, in every step of every turn (ideation.py).
THEOREM BriefsAreReviewed == IdeationSpec => OnlyReviewedBriefs
<1>1. IdeationInv /\ [IdeationNext]_ideationVars
         => IdeationInv' /\ [HandsOverReviewed]_ideationVars
  BY IdeationStep
<1> QED BY <1>1, IdeationStarts, PTL DEF IdeationSpec, OnlyReviewedBriefs

-----------------------------------------------------------------------------
(* The companion and its cache.                                            *)

\* The index of a set of tables is the inverse of its lists of files, and the
\* lists are those of the entries.
IndexedExactly(t) ==
    /\ DOMAIN t.keyPaths = DOMAIN t.cache
    /\ t.paths = [f \in UNION {t.keyPaths[k] : k \in DOMAIN t.keyPaths} |->
                     {k \in DOMAIN t.keyPaths : f \in t.keyPaths[k]}]

\* An entry is what the judge said of the point in its key.
EntriesFit(t) == \A k \in DOMAIN t.cache : t.cache[k] \in {k.about, Unavailable}

JobStates ==
    [task : Tasks, scope : Scopes, attempt : Attempts, about : Contexts,
     pc : {"scheduled", "dropped", "waiting", "probing", "calling", "announcing", "announced"},
     says : Contexts \cup {Unavailable}]

\* A job has nothing to say but what it is about.
JobsFit ==
    /\ jobs \in Seq(JobStates)
    /\ \A i \in DOMAIN jobs : jobs[i].says \in {jobs[i].about, Unavailable}

\* The inductive invariant.
CompanionInv == IndexedExactly(Now) /\ EntriesFit(Now) /\ JobsFit

\* Dropping keys keeps the index exact: at the files of a dropped key the key is
\* scrubbed, and a file nobody refers to leaves the index.
LEMMA DropKeepsIndex ==
    ASSUME NEW t, NEW keys, IndexedExactly(t), EntriesFit(t)
    PROVE  IndexedExactly(DropLocked(t, keys)) /\ EntriesFit(DropLocked(t, keys))
<1> DEFINE left == [f \in DOMAIN t.paths |->
                       {k \in t.paths[f] : k \notin keys \/ f \notin FilesFor(t, k)}]
           d == DropLocked(t, keys)
           C == DOMAIN t.cache \ keys
<1>1. /\ d.cache = [k \in C |-> t.cache[k]]
      /\ d.keyPaths = [k \in DOMAIN t.keyPaths \ keys |-> t.keyPaths[k]]
      /\ d.paths = [f \in {g \in DOMAIN left : left[g] # {}} |-> left[f]]
  BY DEF DropLocked, Tables, Except
<1>2. /\ DOMAIN t.keyPaths = DOMAIN t.cache
      /\ DOMAIN t.paths = UNION {t.keyPaths[k] : k \in DOMAIN t.cache}
      /\ \A f \in DOMAIN t.paths : t.paths[f] = {k \in DOMAIN t.cache : f \in t.keyPaths[k]}
  BY DEF IndexedExactly
<1>3. \A f \in DOMAIN t.paths : left[f] = {k \in C : f \in t.keyPaths[k]}
  BY <1>2 DEF FilesFor
<1> HIDE DEF d, left
<1>4. DOMAIN d.keyPaths = C /\ DOMAIN d.cache = C
      /\ \A k \in C : d.keyPaths[k] = t.keyPaths[k] /\ d.cache[k] = t.cache[k]
  BY <1>1, <1>2
<1>5. DOMAIN left = DOMAIN t.paths
  BY DEF left
<1>6. {g \in DOMAIN left : left[g] # {}} = UNION {d.keyPaths[k] : k \in C}
  <2>1. \A g : g \in DOMAIN left /\ left[g] # {}
                  <=> g \in DOMAIN t.paths /\ \E k \in C : g \in t.keyPaths[k]
    BY <1>3, <1>5
  <2>2. \A g : g \in UNION {d.keyPaths[k] : k \in C} <=> \E k \in C : g \in t.keyPaths[k]
    BY <1>4
  <2>3. \A g : (\E k \in C : g \in t.keyPaths[k]) => g \in DOMAIN t.paths
    BY <1>2
  <2> QED BY <2>1, <2>2, <2>3
<1>7. \A f \in UNION {d.keyPaths[k] : k \in C} :
         left[f] = {k \in C : f \in d.keyPaths[k]}
  BY <1>3, <1>4, <1>5, <1>6
<1>8. d.paths = [f \in UNION {d.keyPaths[k] : k \in C} |-> {k \in C : f \in d.keyPaths[k]}]
  BY <1>1, <1>6, <1>7
<1>9. IndexedExactly(d)
  BY <1>4, <1>8 DEF IndexedExactly
<1>10. EntriesFit(d)
  BY <1>4 DEF EntriesFit
<1> QED BY <1>9, <1>10 DEF d

\* Putting an entry keeps the index exact: its files are added to what the key
\* listed before.
LEMMA PutKeepsIndex ==
    ASSUME NEW t, NEW key, NEW value \in {key.about, Unavailable}, NEW files,
           IndexedExactly(t), EntriesFit(t)
    PROVE  IndexedExactly(Put(t, key, value, files)) /\ EntriesFit(Put(t, key, value, files))
<1> DEFINE d == Put(t, key, value, files)
           C == DOMAIN t.cache \cup {key}
           lists == [k \in DOMAIN t.keyPaths \cup {key} |->
                        FilesFor(t, k) \cup (IF k = key THEN files ELSE {})]
           index == [f \in DOMAIN t.paths \cup files |->
                        (IF f \in DOMAIN t.paths THEN t.paths[f] ELSE {})
                        \cup (IF f \in files THEN {key} ELSE {})]
<1>1. /\ d.cache = [k \in C |-> IF k = key THEN value ELSE t.cache[k]]
      /\ d.keyPaths = lists /\ d.paths = index
  BY DEF Put, Tables
<1>2. /\ DOMAIN t.keyPaths = DOMAIN t.cache
      /\ DOMAIN t.paths = UNION {t.keyPaths[k] : k \in DOMAIN t.cache}
      /\ \A f \in DOMAIN t.paths : t.paths[f] = {k \in DOMAIN t.cache : f \in t.keyPaths[k]}
  BY DEF IndexedExactly
<1>3. /\ DOMAIN lists = C
      /\ \A k \in C : lists[k] = (IF k \in DOMAIN t.cache THEN t.keyPaths[k] ELSE {})
                                 \cup (IF k = key THEN files ELSE {})
  BY <1>2 DEF FilesFor
<1>4. /\ DOMAIN index = DOMAIN t.paths \cup files
      /\ \A f \in DOMAIN index :
            index[f] = (IF f \in DOMAIN t.paths THEN t.paths[f] ELSE {})
                       \cup (IF f \in files THEN {key} ELSE {})
      /\ index = [f \in DOMAIN index |-> index[f]]
  OBVIOUS
<1> HIDE DEF d, lists, index
<1>5. \A f, k : k \in C /\ f \in lists[k]
                   <=> \/ k \in DOMAIN t.cache /\ f \in t.keyPaths[k]
                       \/ k = key /\ f \in files
  BY <1>3
<1>6. UNION {lists[k] : k \in C} = DOMAIN index
  <2>1. \A f : f \in UNION {lists[k] : k \in C} <=> \E k : k \in C /\ f \in lists[k]
    OBVIOUS
  <2>2. \A f : f \in DOMAIN t.paths <=> \E k \in DOMAIN t.cache : f \in t.keyPaths[k]
    BY <1>2
  <2>3. \A f : f \in UNION {lists[k] : k \in C} <=> f \in DOMAIN index
    BY <1>4, <1>5, <2>1, <2>2
  <2> QED BY <2>3
<1>7. \A f \in DOMAIN index : index[f] = {k \in C : f \in lists[k]}
  <2> SUFFICES ASSUME NEW f \in DOMAIN index, NEW k
               PROVE  k \in index[f] <=> k \in C /\ f \in lists[k]
    OBVIOUS
  <2>1. k \in (IF f \in DOMAIN t.paths THEN t.paths[f] ELSE {})
           <=> k \in DOMAIN t.cache /\ f \in t.keyPaths[k]
    BY <1>2
  <2> QED BY <1>4, <1>5, <2>1
<1>8. index = [f \in UNION {lists[k] : k \in C} |-> {k \in C : f \in lists[k]}]
  BY <1>4, <1>6, <1>7
<1>9. IndexedExactly(d)
  BY <1>1, <1>3, <1>8 DEF IndexedExactly
<1>10. EntriesFit(d)
  BY <1>1 DEF EntriesFit
<1> QED BY <1>9, <1>10 DEF d

\* So does storing one, whether or not the oldest has to go.
LEMMA StoreKeepsIndex ==
    ASSUME NEW t, NEW key, NEW value \in {key.about, Unavailable}, NEW files,
           IndexedExactly(t), EntriesFit(t)
    PROVE  /\ IndexedExactly(Store(t, key, value, files))
           /\ EntriesFit(Store(t, key, value, files))
BY PutKeepsIndex, DropKeepsIndex DEF Store

\* What the tables become is what they are then.
LEMMA TablesThen ==
    ASSUME NEW t, TablesBecome(t), IndexedExactly(t), EntriesFit(t)
    PROVE  IndexedExactly(Now)' /\ EntriesFit(Now)'
BY DEF TablesBecome, Now, Tables, IndexedExactly, EntriesFit

\* A step that leaves the tables alone leaves them sound.
LEMMA TablesUntouched ==
    ASSUME CompanionInv, UNCHANGED <<cache, keyPaths, paths>>
    PROVE  IndexedExactly(Now)' /\ EntriesFit(Now)'
BY DEF CompanionInv, Now, Tables, IndexedExactly, EntriesFit

\* A job moves on, with nothing to say or with what it is about.
LEMMA JobMoves ==
    ASSUME JobsFit, NEW i \in DOMAIN jobs, NEW pc \in
              {"dropped", "waiting", "probing", "calling", "announcing", "announced"},
           \/ Goes(i, pc)
           \/ \E what \in {jobs[i].about, Unavailable} : Concludes(i, what)
    PROVE  JobsFit'
<1>1. jobs \in Seq(JobStates) /\ jobs[i] \in JobStates
      /\ jobs[i].says \in {jobs[i].about, Unavailable}
  BY DEF JobsFit
<1>2. ASSUME NEW next \in JobStates, next.says \in {next.about, Unavailable},
             jobs' = [jobs EXCEPT ![i] = next]
      PROVE  JobsFit'
  <2>1. jobs' \in Seq(JobStates) /\ DOMAIN jobs' = DOMAIN jobs
        /\ \A n \in DOMAIN jobs : jobs'[n] = IF n = i THEN next ELSE jobs[n]
    BY <1>1, <1>2
  <2> QED BY <1>2, <2>1 DEF JobsFit
<1>3. CASE Goes(i, pc)
  <2> DEFINE next == [jobs[i] EXCEPT !.pc = pc]
  <2>1. next \in JobStates /\ next.says = jobs[i].says /\ next.about = jobs[i].about
    BY <1>1 DEF JobStates
  <2>2. jobs' = [jobs EXCEPT ![i] = next]
    BY <1>3 DEF Goes
  <2> HIDE DEF next
  <2> QED BY <1>1, <1>2, <2>1, <2>2
<1>4. ASSUME NEW what \in {jobs[i].about, Unavailable}, Concludes(i, what) PROVE JobsFit'
  <2> DEFINE next == [jobs[i] EXCEPT !.pc = "announcing", !.says = what]
  <2>1. next \in JobStates /\ next.says = what /\ next.about = jobs[i].about
    BY <1>1, <1>4 DEF JobStates
  <2>2. jobs' = [jobs EXCEPT ![i] = next]
    BY <1>4 DEF Concludes
  <2> HIDE DEF next
  <2> QED BY <1>1, <1>2, <1>4, <2>1, <2>2
<1> QED BY <1>3, <1>4

\* A decision point starts a job.
LEMMA ScheduleKeeps ==
    ASSUME CompanionInv, NEW t \in Tasks, NEW scope \in Scopes, NEW retry \in Attempts,
           NEW about \in Contexts, Schedule(t, scope, retry, about)
    PROVE  CompanionInv'
<1> DEFINE new == [task |-> t, scope |-> scope, attempt |-> retry, about |-> about,
                   pc |-> "scheduled", says |-> Unavailable]
<1>1. jobs' = Append(jobs, new) /\ UNCHANGED <<cache, keyPaths, paths>>
  BY DEF Schedule, cacheVars
<1>2. new \in JobStates /\ new.says = Unavailable
  BY DEF JobStates
<1> HIDE DEF new
<1>3. JobsFit'
  BY <1>1, <1>2 DEF CompanionInv, JobsFit
<1> QED BY <1>1, <1>3, TablesUntouched DEF CompanionInv

\* The steps of a job.
LEMMA JobKeeps ==
    ASSUME CompanionInv, NEW i \in DOMAIN jobs, JobSteps(i) PROVE CompanionInv'
<1> USE DEF cacheVars
<1>1. JobsFit /\ jobs[i] \in JobStates
  BY DEF CompanionInv, JobsFit
<1>2. CASE Admit(i) \/ EnterSlot(i) \/ JudgeFails(i) \/ Announce(i)
  <2>1. UNCHANGED <<cache, keyPaths, paths>>
    BY <1>2 DEF Admit, EnterSlot, JudgeFails, Announce
  <2>2. JobsFit'
    <3>1. \/ Goes(i, "dropped") \/ Goes(i, "waiting") \/ Goes(i, "probing")
          \/ Goes(i, "announced") \/ Concludes(i, Unavailable)
      BY <1>2 DEF Admit, EnterSlot, JudgeFails, Announce
    <3> QED BY <1>1, <3>1, JobMoves
  <2> QED BY <2>1, <2>2, TablesUntouched DEF CompanionInv
<1>3. CASE Probe(i)
  <2> DEFINE key == BuildKey(jobs[i])
  <2>1. UNCHANGED <<cache, keyPaths, paths>>
    BY <1>3 DEF Probe, ProbeHit
  <2>2. JobsFit'
    <3>1. CASE Concludes(i, Unavailable) \/ Goes(i, "calling")
      BY <1>1, <3>1, JobMoves
    <3>2. CASE key \in DOMAIN cache /\ Concludes(i, cache[key])
      <4>1. key.about = jobs[i].about
        BY DEF BuildKey
      <4>2. cache[key] \in {key.about, Unavailable}
        BY <3>2 DEF CompanionInv, EntriesFit, Now, Tables
      <4> HIDE DEF key
      <4> QED BY <1>1, <3>2, <4>1, <4>2, JobMoves
    <3> QED BY <1>3, <3>1, <3>2 DEF Probe
  <2> QED BY <2>1, <2>2, TablesUntouched DEF CompanionInv
<1>4. CASE JudgeAnswers(i)
  <2> DEFINE key == BuildKey(jobs[i])
             files == IF jobs[i].scope = "coding" THEN FilesOf[jobs[i].about] ELSE {}
  <2>1. PICK value \in {jobs[i].about, Unavailable} :
           Concludes(i, value) /\ TablesBecome(Store(Now, key, value, files))
    BY <1>4 DEF JudgeAnswers
  <2>2. key.about = jobs[i].about
    BY DEF BuildKey
  <2> HIDE DEF key, files
  <2>3. IndexedExactly(Now)' /\ EntriesFit(Now)'
    BY <2>1, <2>2, StoreKeepsIndex, TablesThen DEF CompanionInv
  <2>4. JobsFit'
    BY <1>1, <2>1, JobMoves
  <2> QED BY <2>3, <2>4 DEF CompanionInv
<1> QED BY <1>2, <1>3, <1>4 DEF JobSteps

\* Every step keeps the invariant.
LEMMA CompanionStep ==
    ASSUME CompanionInv, [CompanionNext]_companionVars PROVE CompanionInv'
<1> USE DEF cacheVars
<1>1. ASSUME NEW keys, TablesBecome(DropLocked(Now, keys)), UNCHANGED jobs
      PROVE  CompanionInv'
  <2>1. JobsFit'
    BY <1>1 DEF CompanionInv, JobsFit
  <2> QED BY <1>1, <2>1, DropKeepsIndex, TablesThen DEF CompanionInv
<1>2. CASE UNCHANGED <<jobs, cache, keyPaths, paths>>
  <2>1. JobsFit'
    BY <1>2 DEF CompanionInv, JobsFit
  <2> QED BY <1>2, <2>1, TablesUntouched DEF CompanionInv
<1>3. ASSUME NEW f \in Files, InvalidatePath(f) PROVE CompanionInv'
  BY <1>1, <1>3 DEF InvalidatePath
<1>4. ASSUME NEW key \in DOMAIN cache, Expire(key) PROVE CompanionInv'
  BY <1>1, <1>4 DEF Expire
<1>5. CASE GpuTurn \/ UNCHANGED companionVars
  BY <1>2, <1>5 DEF GpuTurn, companionVars
<1>6. ASSUME NEW t \in Tasks, NEW s \in Scopes, NEW a \in Attempts, NEW c \in Contexts,
             Schedule(t, s, a, c)
      PROVE  CompanionInv'
  BY <1>6, ScheduleKeeps
<1>7. ASSUME NEW i \in DOMAIN jobs, JobSteps(i) PROVE CompanionInv'
  BY <1>7, JobKeeps
<1> QED BY <1>3, <1>4, <1>5, <1>6, <1>7 DEF CompanionNext

\* A new cache is empty.
LEMMA CompanionStarts == ASSUME CompanionInit PROVE CompanionInv
<1>1. DOMAIN Nothing = {} /\ Nothing = [f \in {} |-> {k \in {} : f \in Nothing[k]}]
  BY DEF Nothing
<1>2. cache = Nothing /\ keyPaths = Nothing /\ paths = Nothing /\ jobs = <<>>
  BY DEF CompanionInit
<1>3. JobsFit
  BY <1>2 DEF JobsFit
<1>4. IndexedExactly(Now) /\ EntriesFit(Now)
  BY <1>1, <1>2 DEF IndexedExactly, EntriesFit, Now, Tables
<1> QED BY <1>3, <1>4 DEF CompanionInv

\* The reverse index of the response cache names exactly its entries however they
\* left it, and an explanation that is announced was made for its own point
\* (response_cache.py, coder_companion.py).
THEOREM CacheStaysSound == CompanionSpec => []CacheIsSound
<1>1. CompanionInit => CompanionInv
  BY CompanionStarts
<1>2. CompanionInv /\ [CompanionNext]_companionVars => CompanionInv'
  BY CompanionStep
<1>3. CompanionInv => CacheIsSound
  BY DEF CompanionInv, JobsFit, IndexedExactly, Now, Tables, CacheIsSound, CacheIndexIsExact,
     ExplanationsFit
<1> QED BY <1>1, <1>2, <1>3, PTL DEF CompanionSpec

-----------------------------------------------------------------------------
(* The streams beside the coding graph.                                    *)

RunStates ==
    [step : Steps, made : Nat, buf : Nat, kept : Nat, shown : Nat,
     failed : BOOLEAN, cancel : BOOLEAN, cancels : Nat,
     opened : BOOLEAN, ended : Nat, remembered : BOOLEAN, cut : Steps]

\* The types of the variables the properties depend on.
StreamTypes ==
    /\ run \in [Runners -> RunStates]
    /\ active \in [Keys -> Runners \cup {Nobody}]
    /\ edits \subseteq Runners

\* What a task's locals and its client's screen have to do with each other: the
\* screen is never ahead of what the task keeps, it is empty before the stream,
\* a chat answer that stopped streaming and did not fail is remembered if any of
\* it was flushed, and a task ends once.
RunFits(r, s) ==
    /\ s.shown <= s.kept
    /\ s.step \in {"none", "spawned", "intent", "prepare"} => s.shown = 0
    /\ Is(r, "chat") /\ s.step \in {"notice", "close", "done"} /\ ~s.failed /\ s.shown > 0
          => s.remembered
    /\ s.step # "done" => s.ended = 0 /\ s.cut = "none"
    /\ s.ended <= 1
    /\ s.step = "done" /\ s.cut = "none" /\ RetryOf[r] = r => s.ended = 1

\* The steps at which an edit is registered; one cut off at its start frame is
\* never taken out.
Cancellable(s) ==
    s.step \in {"prepare", "stream", "send", "notice"} \/ (s.step = "done" /\ s.cut = "prepare")

\* A registered task runs under its own key, and only turns and analyst replies
\* are registered; a registered edit is one.
RegistriesHold ==
    /\ \A k \in Keys : active[k] # Nobody =>
          /\ Key(active[k]) = k /\ KindOf[active[k]] \in {"chat", "natt"}
          /\ run[active[k]].step \in Awaiting
    /\ \A r \in edits : Is(r, "edit") /\ Cancellable(run[r])

\* The inductive invariant.
StreamsInv ==
    /\ StreamTypes
    /\ \A r \in Runners : RunFits(r, run[r])
    /\ RegistriesHold

-----------------------------------------------------------------------------
(* A step moves one task.                                                  *)

\* What a step must do to the registries when it moves the task to a state.
RegistersWell(r, next) ==
    /\ \/ next.step \in Awaiting
          /\ \/ active' = active
             \/ /\ active' = [active EXCEPT ![Key(r)] = r]
                /\ KindOf[r] \in {"chat", "natt"}
       \/ PopIfCurrent(r)
       \/ active' = active /\ KindOf[r] \notin {"chat", "natt"}
    /\ \/ edits' \subseteq edits /\ (r \in edits /\ r \in edits' => Cancellable(next))
       \/ edits' = edits \cup {r} /\ Is(r, "edit") /\ Cancellable(next)

\* A move of one task keeps the invariant when the state it reaches fits and the
\* registries are kept.
LEMMA StreamMoves ==
    ASSUME StreamsInv, NEW r \in Runners, NEW next \in RunStates,
           Becomes(r, next), RunFits(r, next), RegistersWell(r, next)
    PROVE  StreamsInv'
<1>1. /\ run' \in [Runners -> RunStates]
      /\ \A q \in Runners : run'[q] = IF q = r THEN next ELSE run[q]
  BY DEF Becomes, StreamsInv, StreamTypes
<1>2. Key(r) \in Keys
  BY DEF Key, Keys
<1>3. /\ active' \in [Keys -> Runners \cup {Nobody}]
      /\ \A k \in Keys : active'[k] # Nobody =>
            \/ active'[k] = active[k] /\ (active[k] = r => next.step \in Awaiting)
            \/ /\ k = Key(r) /\ active'[k] = r /\ KindOf[r] \in {"chat", "natt"}
               /\ next.step \in Awaiting
  <2>1. /\ active \in [Keys -> Runners \cup {Nobody}]
        /\ \A k \in Keys : active[k] # Nobody =>
              Key(active[k]) = k /\ KindOf[active[k]] \in {"chat", "natt"}
    BY DEF StreamsInv, StreamTypes, RegistriesHold
  <2>2. CASE next.step \in Awaiting /\ active' = active
    BY <2>1, <2>2
  <2>3. CASE /\ next.step \in Awaiting /\ active' = [active EXCEPT ![Key(r)] = r]
             /\ KindOf[r] \in {"chat", "natt"}
    BY <1>2, <2>1, <2>3
  <2>4. CASE PopIfCurrent(r)
    BY <1>2, <2>1, <2>4 DEF PopIfCurrent
  <2>5. CASE active' = active /\ KindOf[r] \notin {"chat", "natt"}
    BY <2>1, <2>5
  <2> QED BY <2>2, <2>3, <2>4, <2>5 DEF RegistersWell
<1>4. /\ edits' \subseteq Runners
      /\ \A q \in edits' : Is(q, "edit") /\ Cancellable(run'[q])
  BY <1>1 DEF RegistersWell, StreamsInv, StreamTypes, RegistriesHold
<1>5. \A k \in Keys : active'[k] # Nobody =>
         /\ Key(active'[k]) = k /\ KindOf[active'[k]] \in {"chat", "natt"}
         /\ run'[active'[k]].step \in Awaiting
  BY <1>1, <1>3 DEF StreamsInv, StreamTypes, RegistriesHold
<1>6. \A q \in Runners : RunFits(q, run'[q])
  BY <1>1 DEF StreamsInv
<1>7. StreamTypes'
  BY <1>1, <1>3, <1>4 DEF StreamTypes
<1>8. RegistriesHold'
  BY <1>4, <1>5 DEF RegistriesHold
<1>9. (\A q \in Runners : RunFits(q, run[q]))'
  BY <1>6 DEF RunFits, Is
<1> QED BY <1>7, <1>8, <1>9 DEF StreamsInv

\* The steps a task can be cancelled at.
LEMMA AwaitingSteps ==
    Awaiting = {"spawned", "intent", "prepare", "stream", "send", "notice", "close"}
BY DEF Awaiting, Steps

\* What a state of an unfinished stream shows fits whatever else it holds, as long
\* as nothing is shown that is not kept.
LEMMA StreamingFits ==
    ASSUME NEW r \in Runners, run[r] \in RunStates, RunFits(r, run[r]), run[r].step # "done",
           NEW next \in RunStates, next.step \in {"stream", "send"},
           next.ended = run[r].ended, next.cut = run[r].cut, next.shown <= next.kept
    PROVE  RunFits(r, next)
BY DEF RunFits, RunStates

\* A task is created, and a chat turn registered with it.
LEMMA SpawnKeeps ==
    ASSUME StreamsAssumption, StreamsInv, NEW r \in Runners, Spawn(r) PROVE StreamsInv'
<1> DEFINE next == [run[r] EXCEPT !.step = "spawned"]
<1>1. /\ At(r, "none") /\ Becomes(r, next) /\ edits' = edits
      /\ \/ active' = active
         \/ active' = [active EXCEPT ![Key(r)] = r] /\ Is(r, "chat")
  BY DEF Spawn, SpawnChat, SpawnAnalyst, SpawnEdit, SpawnTrackedBash, SpawnRetry, Spawns
<1>2. run[r] \in RunStates /\ RunFits(r, run[r]) /\ r \notin edits
  BY <1>1 DEF StreamsInv, StreamTypes, RegistriesHold, At, Cancellable
<1>3. next \in RunStates /\ RunFits(r, next) /\ next.step = "spawned"
  BY <1>1, <1>2 DEF RunStates, RunFits, At, Steps
<1> HIDE DEF next
<1>4. RegistersWell(r, next)
  BY <1>1, <1>2, <1>3, AwaitingSteps DEF RegistersWell, Is
<1> QED BY <1>1, <1>3, <1>4, StreamMoves

\* The first step of a task, which registers it, and the retry whose call is
\* forgotten.
LEMMA BeginKeeps ==
    ASSUME StreamsAssumption, StreamsInv, NEW r \in Runners,
           \/ BeginChat(r) \/ ClassifyIntent(r) \/ BeginAnalyst(r) \/ BeginEdit(r)
           \/ BeginTrackedBash(r) \/ RetryToolCall(r)
    PROVE  StreamsInv'
<1>1. /\ run[r] \in RunStates /\ RunFits(r, run[r])
      /\ At(r, "spawned") \/ At(r, "intent")
  BY DEF StreamsInv, StreamTypes, BeginChat, ClassifyIntent, BeginAnalyst, BeginEdit,
     BeginTrackedBash, RetryToolCall, ExecuteTrackedTool, Begins
<1>2. r \notin edits
  BY <1>1 DEF StreamsInv, RegistriesHold, At, Cancellable
<1>3. CASE \/ BeginChat(r) \/ ClassifyIntent(r) \/ BeginAnalyst(r) \/ BeginEdit(r)
           \/ ExecuteTrackedTool(r)
  <2>1. PICK step \in {"intent", "prepare"} :
           /\ Becomes(r, [run[r] EXCEPT !.step = step])
           /\ \/ active' = active
              \/ active' = [active EXCEPT ![Key(r)] = r] /\ Is(r, "natt")
           /\ \/ edits' = edits
              \/ edits' = edits \cup {r} /\ Is(r, "edit") /\ step = "prepare"
    BY <1>3 DEF BeginChat, ClassifyIntent, BeginAnalyst, BeginEdit, ExecuteTrackedTool, Begins
  <2> DEFINE next == [run[r] EXCEPT !.step = step]
  <2>2. next \in RunStates /\ RunFits(r, next) /\ next.step = step
    BY <1>1, <2>1 DEF RunStates, RunFits, At, Steps
  <2> HIDE DEF next
  <2>3. RegistersWell(r, next)
    BY <1>2, <2>1, <2>2, AwaitingSteps DEF RegistersWell, Is, Cancellable
  <2>4. Becomes(r, next)
    BY <2>1 DEF next
  <2> QED BY <2>2, <2>3, <2>4, StreamMoves
<1>4. CASE /\ RetryOf[r] # r /\ Becomes(r, [run[r] EXCEPT !.step = "done"])
           /\ UNCHANGED <<active, edits>>
  <2> DEFINE next == [run[r] EXCEPT !.step = "done"]
  <2>1. KindOf[r] = "chip"
    BY <1>4 DEF StreamsAssumption
  <2>2. next \in RunStates /\ RunFits(r, next)
    BY <1>1, <1>4, <2>1 DEF RunStates, RunFits, At, Steps, Is
  <2> HIDE DEF next
  <2>3. RegistersWell(r, next)
    BY <1>2, <1>4, <2>1 DEF RegistersWell
  <2>4. Becomes(r, next)
    BY <1>4 DEF next
  <2> QED BY <2>2, <2>3, <2>4, StreamMoves
<1> QED BY <1>3, <1>4 DEF BeginTrackedBash, RetryToolCall

\* A task that goes on within its stream keeps its registrations.
LEMMA StreamGoesOn ==
    ASSUME StreamsInv, NEW r \in Runners, NEW next \in RunStates,
           Becomes(r, next), RunFits(r, next),
           next.step \in {"prepare", "stream", "send", "notice"},
           UNCHANGED <<active, edits>>
    PROVE  StreamsInv'
<1>1. RegistersWell(r, next)
  BY AwaitingSteps DEF RegistersWell, Cancellable
<1> QED BY <1>1, StreamMoves

\* The stream is opened, its deltas are buffered and sent.
LEMMA DeltasKeep ==
    ASSUME StreamsInv, NEW r \in Runners,
           \/ \E kind \in {"chat", "natt", "edit", "chip"} : Opens(r, kind) \/ Buffers(r, kind)
           \/ Flush(r) \/ Sent(r)
    PROVE  StreamsInv'
<1>1. run[r] \in RunStates /\ RunFits(r, run[r])
  BY DEF StreamsInv, StreamTypes
<1>2. UNCHANGED <<active, edits>>
  BY DEF Opens, Buffers, Flush, Sent
<1>3. ASSUME NEW kind \in {"chat", "natt", "edit", "chip"}, Opens(r, kind) PROVE StreamsInv'
  <2> DEFINE next == [run[r] EXCEPT !.step = "stream", !.opened = kind \in {"edit", "chip"}]
  <2>1. /\ next \in RunStates /\ next.step = "stream" /\ run[r].step # "done"
        /\ next.ended = run[r].ended /\ next.cut = run[r].cut
        /\ next.shown = run[r].shown /\ next.kept = run[r].kept
    <3> DEFINE out == kind \in {"edit", "chip"}
    <3>1. out \in BOOLEAN
      BY <1>1, <1>3 DEF RunStates
    <3>2. next = [run[r] EXCEPT !.step = "stream", !.opened = out]
      OBVIOUS
    <3> HIDE DEF next, out
    <3>3. /\ next \in RunStates /\ next.step = "stream"
           /\ next.ended = run[r].ended /\ next.cut = run[r].cut
           /\ next.shown = run[r].shown /\ next.kept = run[r].kept
      BY <1>1, <1>3, <3>1, <3>2 DEF RunStates, Steps, Opens, At
    <3> QED BY <1>1, <1>3, <3>3 DEF out, Opens, At
  <2>2. Becomes(r, next)
    BY <1>3 DEF Opens
  <2> HIDE DEF next
  <2>3. next.shown <= next.kept
    BY <1>1, <2>1 DEF RunStates, RunFits
  <2>4. RunFits(r, next)
    BY <1>1, <2>1, <2>3, StreamingFits
  <2> QED BY <1>2, <2>1, <2>2, <2>4, StreamGoesOn
<1>4. ASSUME NEW kind \in {"chat", "natt", "edit", "chip"}, Buffers(r, kind) PROVE StreamsInv'
  <2> DEFINE next == [run[r] EXCEPT !.made = @ + 1, !.buf = @ + 1]
  <2>1. /\ next \in RunStates /\ next.step = "stream" /\ run[r].step # "done"
        /\ next.ended = run[r].ended /\ next.cut = run[r].cut
        /\ next.shown = run[r].shown /\ next.kept = run[r].kept
    <3> DEFINE one == run[r].made + 1
               more == run[r].buf + 1
    <3>1. one \in Nat /\ more \in Nat
      BY <1>1, <1>4 DEF RunStates
    <3>2. next = [run[r] EXCEPT !.made = one, !.buf = more]
      OBVIOUS
    <3> HIDE DEF next, one, more
    <3>3. /\ next \in RunStates /\ next.step = run[r].step
           /\ next.ended = run[r].ended /\ next.cut = run[r].cut
           /\ next.shown = run[r].shown /\ next.kept = run[r].kept
      BY <1>1, <1>4, <3>1, <3>2 DEF RunStates, Steps, Buffers, At
    <3> QED BY <1>1, <1>4, <3>3 DEF one, more, Buffers, At
  <2>2. Becomes(r, next)
    BY <1>4 DEF Buffers
  <2> HIDE DEF next
  <2>3. next.shown <= next.kept
    BY <1>1, <2>1 DEF RunStates, RunFits
  <2>4. RunFits(r, next)
    BY <1>1, <2>1, <2>3, StreamingFits
  <2> QED BY <1>2, <2>1, <2>2, <2>4, StreamGoesOn
<1>5. CASE Flush(r)
  <2> DEFINE next == [run[r] EXCEPT !.step = "send", !.kept = @ + run[r].buf, !.buf = 0]
  <2>1. /\ next \in RunStates /\ next.step = "send" /\ run[r].step # "done"
        /\ next.ended = run[r].ended /\ next.cut = run[r].cut
        /\ next.shown = run[r].shown /\ next.kept = run[r].kept + run[r].buf
    <3> DEFINE all == run[r].kept + run[r].buf
    <3>1. all \in Nat
      BY <1>1, <1>5 DEF RunStates
    <3>2. next = [run[r] EXCEPT !.step = "send", !.kept = all, !.buf = 0]
      OBVIOUS
    <3> HIDE DEF next, all
    <3>3. /\ next \in RunStates /\ next.step = "send"
           /\ next.ended = run[r].ended /\ next.cut = run[r].cut
           /\ next.shown = run[r].shown /\ next.kept = all
      BY <1>1, <1>5, <3>1, <3>2 DEF RunStates, Steps, Flush, At
    <3> QED BY <1>1, <1>5, <3>3 DEF all, Flush, At
  <2>2. Becomes(r, next)
    BY <1>5 DEF Flush
  <2> HIDE DEF next
  <2>3. next.shown <= next.kept
    BY <1>1, <2>1 DEF RunStates, RunFits
  <2>4. RunFits(r, next)
    BY <1>1, <2>1, <2>3, StreamingFits
  <2> QED BY <1>2, <2>1, <2>2, <2>4, StreamGoesOn
<1>6. CASE Sent(r)
  <2> DEFINE next == [run[r] EXCEPT !.step = "stream", !.shown = run[r].kept]
  <2>1. /\ next \in RunStates /\ next.step = "stream" /\ run[r].step # "done"
        /\ next.ended = run[r].ended /\ next.cut = run[r].cut
        /\ next.shown = run[r].kept /\ next.kept = run[r].kept
    BY <1>1, <1>6 DEF RunStates, Sent, At, Steps
  <2>2. Becomes(r, next)
    BY <1>6 DEF Sent
  <2> HIDE DEF next
  <2>3. next.shown <= next.kept
    BY <1>1, <2>1 DEF RunStates, RunFits
  <2>4. RunFits(r, next)
    BY <1>1, <2>1, <2>3, StreamingFits
  <2> QED BY <1>2, <2>1, <2>2, <2>4, StreamGoesOn
<1> QED BY <1>3, <1>4, <1>5, <1>6

\* The answer is complete: a chat answer that has any text is remembered first.
LEMMA FinishKeeps ==
    ASSUME StreamsAssumption, StreamsInv, NEW r \in Runners,
           FinishChat(r) \/ FinishAnalyst(r) \/ FinishEdit(r) \/ FinishTool(r)
    PROVE  StreamsInv'
<1>1. run[r] \in RunStates /\ RunFits(r, run[r])
  BY DEF StreamsInv, StreamTypes
<1>2. CASE FinishChat(r)
  <2> DEFINE remembers == run[r].kept > 0
             next == [run[r] EXCEPT !.step = IF remembers THEN "close" ELSE "notice",
                                    !.remembered = remembers]
  <2>1. /\ next \in RunStates /\ next.step \in {"close", "notice"} /\ run[r].step = "stream"
        /\ next.remembered = remembers /\ next.ended = run[r].ended /\ next.cut = run[r].cut
        /\ next.shown = run[r].shown /\ next.kept = run[r].kept
    <3> DEFINE some == remembers
               step == IF remembers THEN "close" ELSE "notice"
    <3>1. some \in BOOLEAN /\ step \in {"close", "notice"}
      BY <1>1, <1>2 DEF RunStates
    <3>2. next = [run[r] EXCEPT !.step = step, !.remembered = some]
      OBVIOUS
    <3> HIDE DEF next, some, step
    <3>3. /\ next \in RunStates /\ next.step = step /\ next.remembered = some
           /\ next.ended = run[r].ended /\ next.cut = run[r].cut
           /\ next.shown = run[r].shown /\ next.kept = run[r].kept
      BY <1>1, <1>2, <3>1, <3>2 DEF RunStates, Steps, FinishChat, Drained, At
    <3> QED BY <1>1, <1>2, <3>3 DEF some, step, FinishChat, Drained, At
  <2>2. Becomes(r, next) /\ UNCHANGED <<active, edits>> /\ Is(r, "chat")
    BY <1>2 DEF FinishChat, Drained
  <2>3. r \notin edits
    BY <2>2 DEF StreamsInv, RegistriesHold, Is
  <2> HIDE DEF next
  <2>4. RegistersWell(r, next)
    BY <2>1, <2>2, <2>3, AwaitingSteps DEF RegistersWell
  <2>5. RunFits(r, next)
    BY <1>1, <2>1 DEF RunFits, RunStates
  <2> QED BY <2>1, <2>2, <2>4, <2>5, StreamMoves
<1>3. CASE FinishAnalyst(r) \/ FinishEdit(r) \/ FinishTool(r)
  <2> DEFINE next == [run[r] EXCEPT !.step = "close"]
  <2>1. Becomes(r, next) /\ At(r, "stream") /\ ~Is(r, "chat") /\ active' = active
    BY <1>3 DEF FinishAnalyst, FinishEdit, FinishTool, Drained, Is
  <2>2. next \in RunStates /\ RunFits(r, next) /\ next.step = "close"
    BY <1>1, <2>1 DEF RunStates, RunFits, At, Steps
  <2>3. edits' \subseteq edits /\ r \notin edits'
    BY <1>3 DEF FinishAnalyst, FinishEdit, FinishTool, Drained, Is, StreamsInv, RegistriesHold
  <2> HIDE DEF next
  <2>4. RegistersWell(r, next)
    BY <2>1, <2>2, <2>3, AwaitingSteps DEF RegistersWell
  <2> QED BY <2>1, <2>2, <2>4, StreamMoves
<1> QED BY <1>2, <1>3

\* The model, the edit or the command failed.
LEMMA FailKeeps ==
    ASSUME StreamsInv, NEW r \in Runners,
           FailChat(r) \/ FailEdit(r) \/ FailTool(r) \/ AnalystNotice(r)
    PROVE  StreamsInv'
<1>1. run[r] \in RunStates /\ RunFits(r, run[r])
  BY DEF StreamsInv, StreamTypes
<1>2. CASE FailChat(r) \/ FailEdit(r) \/ FailTool(r)
  <2> DEFINE next == [run[r] EXCEPT !.failed = TRUE, !.buf = 0, !.step = "notice"]
  <2>1. Becomes(r, next) /\ At(r, "stream") /\ UNCHANGED <<active, edits>>
    BY <1>2 DEF FailChat, FailEdit, FailTool, Fails
  <2>2. next \in RunStates /\ RunFits(r, next) /\ next.step = "notice"
    BY <1>1, <2>1 DEF RunStates, RunFits, At, Steps
  <2> HIDE DEF next
  <2> QED BY <2>1, <2>2, StreamGoesOn
<1>3. CASE AnalystNotice(r)
  <2> DEFINE next == [run[r] EXCEPT !.failed = TRUE, !.buf = 0, !.kept = @ + 1, !.step = "send"]
  <2>1. Becomes(r, next) /\ At(r, "stream") /\ UNCHANGED <<active, edits>>
    BY <1>3 DEF AnalystNotice
  <2>2. /\ next \in RunStates /\ next.step = "send" /\ run[r].step # "done"
        /\ next.ended = run[r].ended /\ next.cut = run[r].cut
        /\ next.shown = run[r].shown /\ next.kept = run[r].kept + 1
    <3> DEFINE all == run[r].kept + 1
    <3>1. all \in Nat
      BY <1>1, <2>1 DEF RunStates
    <3>2. next = [run[r] EXCEPT !.failed = TRUE, !.buf = 0, !.kept = all, !.step = "send"]
      OBVIOUS
    <3> HIDE DEF next, all
    <3>3. /\ next \in RunStates /\ next.step = "send"
           /\ next.ended = run[r].ended /\ next.cut = run[r].cut
           /\ next.shown = run[r].shown /\ next.kept = all
      BY <1>1, <2>1, <3>1, <3>2 DEF RunStates, Steps, At
    <3> QED BY <1>1, <2>1, <3>3 DEF all, At
  <2> HIDE DEF next
  <2>3. next.shown <= next.kept
    BY <1>1, <2>2 DEF RunStates, RunFits
  <2>4. RunFits(r, next)
    BY <1>1, <2>2, <2>3, StreamingFits
  <2> QED BY <2>1, <2>2, <2>4, StreamGoesOn
<1> QED BY <1>2, <1>3

\* A cancellation is noted.
LEMMA SignalKeeps ==
    ASSUME StreamsInv, NEW r \in Runners, Signal(r) PROVE StreamsInv'
<1> DEFINE next == [run[r] EXCEPT !.cancel = TRUE, !.cancels = @ + 1]
<1>1. run[r] \in RunStates /\ RunFits(r, run[r]) /\ run \in [Runners -> RunStates]
  BY DEF StreamsInv, StreamTypes
<1>2. Becomes(r, next) /\ run[r].step \in Awaiting /\ UNCHANGED <<active, edits>>
  BY <1>1 DEF Signal, Becomes
<1>3. /\ next \in RunStates /\ next.step = run[r].step /\ next.cut = run[r].cut
      /\ next.shown = run[r].shown /\ next.kept = run[r].kept /\ next.ended = run[r].ended
      /\ next.failed = run[r].failed /\ next.remembered = run[r].remembered
  <2> DEFINE one == run[r].cancels + 1
  <2>1. one \in Nat
    BY <1>1 DEF RunStates
  <2>2. next = [run[r] EXCEPT !.cancel = TRUE, !.cancels = one]
    OBVIOUS
  <2> HIDE DEF next, one
  <2>3. /\ next \in RunStates /\ next.step = run[r].step
           /\ next.ended = run[r].ended /\ next.cut = run[r].cut
           /\ next.shown = run[r].shown /\ next.kept = run[r].kept
           /\ next.failed = run[r].failed /\ next.remembered = run[r].remembered
    BY <1>1, <2>1, <2>2 DEF RunStates, Steps
  <2> QED BY <1>1, <2>3 DEF one
<1> HIDE DEF next
<1>4. RegistersWell(r, next)
  BY <1>2, <1>3 DEF RegistersWell, StreamsInv, RegistriesHold, Cancellable
<1>5. RunFits(r, next)
  BY <1>1, <1>3 DEF RunFits
<1> QED BY <1>2, <1>3, <1>4, <1>5, StreamMoves

\* A task that dies before its stream, or while it closes it, leaves the
\* registry of tasks; only an edit cut off at its start frame stays listed.
LEMMA DeathKeeps ==
    ASSUME StreamsInv, NEW r \in Runners, NEW next \in RunStates,
           run[r].step \in {"spawned", "intent", "prepare", "notice", "close"},
           next.step = "done", next.cut = run[r].step, next.ended = run[r].ended,
           next.shown = run[r].shown, next.kept = run[r].kept,
           next.failed = run[r].failed, next.remembered = run[r].remembered,
           Becomes(r, next), PopIfCurrent(r), edits' \subseteq edits,
           r \in edits' => run[r].step = "prepare"
    PROVE  StreamsInv'
<1>1. run[r] \in RunStates /\ RunFits(r, run[r])
  BY DEF StreamsInv, StreamTypes
<1>2. RunFits(r, next)
  BY <1>1 DEF RunFits, RunStates
<1>3. RegistersWell(r, next)
  BY DEF RegistersWell, Cancellable
<1> QED BY <1>2, <1>3, StreamMoves

\* The cancellation surfaces before the try block.
LEMMA HitEarlyKeeps ==
    ASSUME StreamsInv, NEW r \in Runners, HitEarly(r) PROVE StreamsInv'
<1>1. run[r] \in RunStates /\ edits' = edits
  BY DEF StreamsInv, StreamTypes, HitEarly
<1>2. r \in edits => Cancellable(run[r])
  BY DEF StreamsInv, RegistriesHold
<1>3. CASE run[r].step \in {"spawned", "intent"} /\ Dies(r)
  <2> DEFINE next == [run[r] EXCEPT !.step = "done", !.made = 0, !.cancel = FALSE,
                                    !.cut = run[r].step]
  <2>1. /\ next \in RunStates
        /\ next.step = "done" /\ next.cut = run[r].step /\ next.ended = run[r].ended
        /\ next.shown = run[r].shown /\ next.kept = run[r].kept
        /\ next.failed = run[r].failed /\ next.remembered = run[r].remembered
    BY <1>1 DEF RunStates, Steps
  <2>2. Becomes(r, next) /\ PopIfCurrent(r)
    BY <1>3 DEF Dies
  <2> HIDE DEF next
  <2> QED BY <1>1, <1>2, <1>3, <2>1, <2>2, DeathKeeps DEF Cancellable
<1>4. ASSUME run[r].step = "prepare", PopIfCurrent(r), NEW out \in BOOLEAN,
             Becomes(r, [run[r] EXCEPT !.step = "done", !.made = 0, !.cancel = FALSE,
                                       !.cut = "prepare", !.opened = out])
      PROVE  StreamsInv'
  <2> DEFINE next == [run[r] EXCEPT !.step = "done", !.made = 0, !.cancel = FALSE,
                                    !.cut = "prepare", !.opened = out]
  <2>1. /\ next \in RunStates
        /\ next.step = "done" /\ next.cut = run[r].step /\ next.ended = run[r].ended
        /\ next.shown = run[r].shown /\ next.kept = run[r].kept
        /\ next.failed = run[r].failed /\ next.remembered = run[r].remembered
    BY <1>1, <1>4 DEF RunStates, Steps
  <2>2. Becomes(r, next)
    BY <1>4
  <2> HIDE DEF next
  <2> QED BY <1>1, <1>4, <2>1, <2>2, DeathKeeps
<1> QED
  <2>1. Is(r, "edit") \in BOOLEAN
    BY DEF Is
  <2> QED BY <1>3, <1>4, <2>1 DEF HitEarly, At

\* Stop while streaming: what was flushed is remembered before the marker.
LEMMA HitStreamingKeeps ==
    ASSUME StreamsInv, NEW r \in Runners, HitStreaming(r) PROVE StreamsInv'
<1> DEFINE remembers == Is(r, "chat") /\ run[r].kept > 0
<1>1. PICK out \in {run[r].shown, IF At(r, "send") THEN run[r].kept ELSE run[r].shown} :
         Becomes(r, [run[r] EXCEPT !.step = "notice", !.cancel = FALSE, !.buf = 0,
                                   !.shown = out, !.remembered = remembers])
  BY DEF HitStreaming
<1>2. run[r] \in RunStates /\ RunFits(r, run[r]) /\ run[r].step \in {"stream", "send"}
      /\ UNCHANGED <<active, edits>>
  BY DEF StreamsInv, StreamTypes, HitStreaming
<1> DEFINE next == [run[r] EXCEPT !.step = "notice", !.cancel = FALSE, !.buf = 0,
                                  !.shown = out, !.remembered = remembers]
<1>3. out \in Nat /\ out <= run[r].kept /\ remembers \in BOOLEAN
  BY <1>1, <1>2 DEF RunStates, RunFits, Is
<1>4. /\ next \in RunStates /\ next.step = "notice" /\ next.shown = out
      /\ next.remembered = remembers /\ next.kept = run[r].kept
      /\ next.ended = run[r].ended /\ next.cut = run[r].cut
  BY <1>2, <1>3 DEF RunStates, Steps
<1>5. Becomes(r, next)
  BY <1>1
<1> HIDE DEF next
<1>6. RunFits(r, next)
  BY <1>2, <1>3, <1>4 DEF RunFits, RunStates
<1> QED BY <1>2, <1>4, <1>5, <1>6, StreamGoesOn

\* The marker or the notice is out, or a second cancellation surfaces in it.
LEMMA NoticeKeeps ==
    ASSUME StreamsInv, NEW r \in Runners, Noticed(r) \/ HitNotice(r) PROVE StreamsInv'
<1>1. run[r] \in RunStates /\ RunFits(r, run[r])
  BY DEF StreamsInv, StreamTypes
<1>2. run[r].step = "notice" /\ edits' = edits \ {r}
  BY DEF Noticed, HitNotice, At
<1>3. ASSUME NEW still \in BOOLEAN, UNCHANGED active,
             Becomes(r, [run[r] EXCEPT !.step = "close", !.cancel = still])
      PROVE  StreamsInv'
  <2> DEFINE next == [run[r] EXCEPT !.step = "close", !.cancel = still]
  <2>1. next \in RunStates /\ RunFits(r, next) /\ next.step = "close"
    BY <1>1, <1>2 DEF RunStates, RunFits, Steps
  <2>2. Becomes(r, next)
    BY <1>3
  <2> HIDE DEF next
  <2>3. RegistersWell(r, next)
    BY <1>2, <1>3, <2>1, AwaitingSteps DEF RegistersWell
  <2> QED BY <2>1, <2>2, <2>3, StreamMoves
<1>4. CASE Noticed(r)
  <2>1. [run[r] EXCEPT !.step = "close"] = [run[r] EXCEPT !.step = "close", !.cancel = FALSE]
    BY <1>1, <1>4 DEF Noticed, Unhit, RunStates
  <2> QED BY <1>3, <1>4, <2>1 DEF Noticed
<1>5. CASE UNCHANGED active
           /\ Becomes(r, [run[r] EXCEPT !.step = "close", !.cancel = FALSE])
  BY <1>3, <1>5
<1>6. CASE Dies(r)
  <2> DEFINE next == [run[r] EXCEPT !.step = "done", !.made = 0, !.cancel = FALSE,
                                    !.cut = run[r].step]
  <2>1. /\ next \in RunStates
        /\ next.step = "done" /\ next.cut = run[r].step /\ next.ended = run[r].ended
        /\ next.shown = run[r].shown /\ next.kept = run[r].kept
        /\ next.failed = run[r].failed /\ next.remembered = run[r].remembered
    BY <1>1, <1>2 DEF RunStates, Steps
  <2>2. Becomes(r, next) /\ PopIfCurrent(r)
    BY <1>6 DEF Dies
  <2> HIDE DEF next
  <2> QED BY <1>2, <2>1, <2>2, DeathKeeps
<1> QED BY <1>4, <1>5, <1>6 DEF HitNotice

\* The end frame counts once.
LEMMA OverFits ==
    ASSUME NEW r \in Runners, run[r] \in RunStates, RunFits(r, run[r]), run[r].step = "close"
    PROVE  /\ Over(r) \in RunStates /\ RunFits(r, Over(r))
           /\ Over(r).step = "done" /\ Over(r).ended = 1 /\ Over(r).cut = "none"
           /\ Over(r).shown <= Over(r).kept
<1> DEFINE next == Over(r)
<1>1. /\ next \in RunStates /\ next.step = "done" /\ next.ended = run[r].ended + 1
      /\ next.cut = run[r].cut /\ next.shown = run[r].shown /\ next.kept = run[r].kept
      /\ next.failed = run[r].failed /\ next.remembered = run[r].remembered
  <2> DEFINE one == run[r].ended + 1
  <2>1. one \in Nat
    BY DEF RunStates
  <2>2. next = [run[r] EXCEPT !.step = "done", !.made = 0, !.ended = one]
    BY DEF Over
  <2> HIDE DEF next, one
  <2>3. /\ next \in RunStates /\ next.step = "done" /\ next.ended = one
           /\ next.cut = run[r].cut
           /\ next.shown = run[r].shown /\ next.kept = run[r].kept
           /\ next.failed = run[r].failed /\ next.remembered = run[r].remembered
    BY <2>1, <2>2 DEF RunStates, Steps
  <2> QED BY <2>3 DEF one
<1> HIDE DEF next
<1>2. RunFits(r, next) /\ next.ended = 1 /\ next.cut = "none" /\ next.shown <= next.kept
  BY <1>1 DEF RunFits
<1> QED BY <1>1, <1>2 DEF next

\* The end frame, or a cancellation in it.
LEMMA CloseKeeps ==
    ASSUME StreamsInv, NEW r \in Runners,
           \/ HitClosing(r)
           \/ StreamEnd(r) \/ NattStreamEnd(r) \/ InlineEditEnd(r) \/ ToolResult(r)
    PROVE  StreamsInv'
<1>1. run[r] \in RunStates /\ RunFits(r, run[r]) /\ run[r].step = "close"
  BY DEF StreamsInv, StreamTypes, HitClosing, StreamEnd, NattStreamEnd, InlineEditEnd,
     ToolResult, EndsStream, At
<1>2. r \notin edits /\ edits' = edits
  BY <1>1 DEF StreamsInv, RegistriesHold, Cancellable, HitClosing, StreamEnd, NattStreamEnd,
     InlineEditEnd, ToolResult, EndsStream
<1>3. CASE HitClosing(r)
  <2> DEFINE next == [run[r] EXCEPT !.step = "done", !.made = 0, !.cancel = FALSE,
                                    !.cut = run[r].step]
  <2>1. /\ next \in RunStates
        /\ next.step = "done" /\ next.cut = run[r].step /\ next.ended = run[r].ended
        /\ next.shown = run[r].shown /\ next.kept = run[r].kept
        /\ next.failed = run[r].failed /\ next.remembered = run[r].remembered
    BY <1>1 DEF RunStates, Steps
  <2>2. Becomes(r, next) /\ PopIfCurrent(r)
    BY <1>3 DEF HitClosing, Dies
  <2> HIDE DEF next
  <2> QED BY <1>1, <1>2, <2>1, <2>2, DeathKeeps
<1>4. CASE StreamEnd(r) \/ InlineEditEnd(r) \/ ToolResult(r)
  <2> DEFINE next == Over(r)
  <2>1. next \in RunStates /\ RunFits(r, next)
    BY <1>1, OverFits
  <2>2. Becomes(r, next) /\ PopIfCurrent(r)
    BY <1>4 DEF StreamEnd, InlineEditEnd, ToolResult, EndsStream
  <2> HIDE DEF next
  <2>3. RegistersWell(r, next)
    BY <1>2, <2>2 DEF RegistersWell
  <2> QED BY <2>1, <2>2, <2>3, StreamMoves
<1>5. CASE NattStreamEnd(r)
  <2> DEFINE next == [Over(r) EXCEPT !.remembered = run[r].kept > 0]
  <2> DEFINE over == Over(r)
  <2>1. /\ over \in RunStates /\ over.step = "done" /\ over.ended = 1 /\ over.cut = "none"
        /\ over.shown <= over.kept
    BY <1>1, OverFits
  <2>2. Becomes(r, next) /\ PopIfCurrent(r) /\ ~Is(r, "chat")
    BY <1>5 DEF NattStreamEnd, EndsStream, Is
  <2> HIDE DEF over
  <2>3. next \in RunStates /\ RunFits(r, next)
    <3> DEFINE any == run[r].kept > 0
    <3>1. next = [over EXCEPT !.remembered = any] /\ any \in BOOLEAN
      BY DEF over
    <3> HIDE DEF next, any
    <3>2. /\ next \in RunStates /\ next.step = "done" /\ next.ended = 1 /\ next.cut = "none"
          /\ next.shown <= next.kept
      BY <2>1, <3>1 DEF RunStates
    <3> QED BY <2>2, <3>2 DEF RunFits
  <2> HIDE DEF next
  <2>4. RegistersWell(r, next)
    BY <1>2, <2>2 DEF RegistersWell
  <2> QED BY <2>2, <2>3, <2>4, StreamMoves
<1> QED BY <1>3, <1>4, <1>5

\* At first nothing runs and nothing is registered.
LEMMA StreamsStart == ASSUME StreamsInit PROVE StreamsInv
<1>1. Fresh \in RunStates /\ \A r \in Runners : RunFits(r, Fresh)
  BY DEF Fresh, RunStates, RunFits, Steps
<1>2. StreamTypes
  BY <1>1 DEF StreamsInit, StreamTypes
<1> QED BY <1>1, <1>2 DEF StreamsInit, StreamsInv, RegistriesHold

\* Every step keeps the invariant.
LEMMA StreamsStep ==
    ASSUME StreamsAssumption, StreamsInv, [StreamsNext]_streamVars PROVE StreamsInv'
<1>1. ASSUME NEW r \in Runners, Spawn(r) \/ Runs(r) \/ CancelInlineEdit(r) PROVE StreamsInv'
  <2>1. CASE Spawn(r)
    BY <2>1, SpawnKeeps
  <2>2. CASE CancelInlineEdit(r)
    BY <2>2, SignalKeeps DEF CancelInlineEdit
  <2>3. CASE \/ RetrieveForChat(r) \/ AssembleForAnalyst(r) \/ InlineEditStart(r)
             \/ ToolStart(r) \/ ChatDelta(r) \/ AnalystDelta(r) \/ EditDelta(r)
             \/ CommandOutput(r) \/ Flush(r) \/ Sent(r)
    BY <2>3, DeltasKeep DEF RetrieveForChat, AssembleForAnalyst, InlineEditStart, ToolStart,
       ChatDelta, AnalystDelta, EditDelta, CommandOutput
  <2> QED BY <1>1, <2>1, <2>2, <2>3, BeginKeeps, FinishKeeps, FailKeeps, HitEarlyKeeps,
          HitStreamingKeeps, NoticeKeeps, CloseKeeps DEF Runs
<1>2. ASSUME NEW k \in Keys, Stop(k) PROVE StreamsInv'
  <2>1. active[k] \in Runners /\ Signal(active[k])
    BY <1>2 DEF Stop, StreamsInv, StreamTypes
  <2> QED BY <2>1, SignalKeeps
<1>3. CASE UNCHANGED <<run, active, edits>>
  BY <1>3 DEF StreamsInv, StreamTypes, RegistriesHold, RunFits, Is, Key
<1> QED BY <1>1, <1>2, <1>3 DEF StreamsNext, streamVars, ClearConversation,
        RestoreConversation, Disconnect

\* Whenever Stop lands, what is on the screen of a chat answer that ended is in
\* the conversation memory, a stream that runs its course is closed once, and the
\* registries name only tasks that can still be stopped (task_service.py,
\* inline_edit.py, main.py).
THEOREM StreamsStaySound ==
    ASSUME StreamsAssumption PROVE StreamsSpec => []StreamsAreSound
<1>1. StreamsInit => StreamsInv
  BY StreamsStart
<1>2. StreamsInv /\ [StreamsNext]_streamVars => StreamsInv'
  BY StreamsStep
<1>3. StreamsInv => StreamsAreSound
  <2> SUFFICES ASSUME StreamsInv PROVE StreamsAreSound
    OBVIOUS
  <2>1. ScreenIsRemembered
    BY DEF StreamsInv, RunFits, ScreenIsRemembered
  <2>2. StreamsClose
    BY DEF StreamsInv, RunFits, StreamsClose, At
  <2>3. RegistriesAreCurrent
    BY AwaitingSteps DEF StreamsInv, RegistriesHold, Cancellable, RegistriesAreCurrent
  <2> QED BY <2>1, <2>2, <2>3 DEF StreamsAreSound
<1> QED BY <1>1, <1>2, <1>3, PTL DEF StreamsSpec

-----------------------------------------------------------------------------
(* The planner: the invariant.                                             *)

TurnFields == {"pc", "in", "base", "prompt", "retries", "stepless", "last", "plan", "from"}
InputFields == {"ask", "content", "decision", "rules", "dirty"}

\* Every local of a planner has its place.
TurnShape ==
    /\ DOMAIN turn = Planners
    /\ \A s \in Planners : DOMAIN turn[s] = TurnFields /\ DOMAIN turn[s].in = InputFields

\* The constraints of the mixed-syntax files are on the steps.
Noted(p) == \A i \in DOMAIN p.tasks : p.tasks[i].file \in Polyglot => p.tasks[i].noted

\* The plan is one for the inputs of the turn.
FitsTurn(t) ==
    /\ t.from.ask = t.in.ask /\ t.from.content = t.in.content
    /\ ResolveModelAlias(t.from.decision) = ResolveModelAlias(t.in.decision)
    /\ Noted(t.plan)

\* A draft fits from when it is made, whether it is committed or only left behind.
DraftsFit ==
    \A s \in Planners :
        turn[s].plan # NoPlan \/ turn[s].pc = "planned" => FitsTurn(turn[s])

\* An attempt after the first leaves the corrective of the one before it.
RetriesAreCorrected ==
    \A s \in Planners :
        /\ turn[s].retries \in Nat
        /\ turn[s].retries # 0 => turn[s].last # "none"

\* An entry is under the key of the inputs it was drafted from.
EntriesAreKeyed ==
    \A e \in planCache : e.key = PlannerKey(e.wrote) /\ e.draft \in Plans

PlanningInv == TurnShape /\ DraftsFit /\ RetriesAreCorrected /\ EntriesAreKeyed

-----------------------------------------------------------------------------
(* The planner: steps.                                                     *)

\* Whatever the model drafts, the note is on every step of a mixed-syntax file.
LEMMA InjectionNotes == ASSUME NEW p \in Plans PROVE Noted(InjectPolyglotConstraints(p))
<1>1. p.tasks \in Seq(PlanTasks) /\ p \in [tasks : Seq(PlanTasks), scope : SUBSET Seq(STRING)]
  BY PlanningAssumption
<1> DEFINE q == InjectPolyglotConstraints(p)
<1>2. /\ DOMAIN q.tasks = DOMAIN p.tasks
      /\ \A i \in DOMAIN p.tasks :
            q.tasks[i] = [p.tasks[i] EXCEPT !.noted = @ \/ p.tasks[i].file \in Polyglot]
  BY <1>1 DEF InjectPolyglotConstraints
<1>3. ASSUME NEW i \in DOMAIN p.tasks
      PROVE  q.tasks[i].file = p.tasks[i].file
             /\ q.tasks[i].noted = (p.tasks[i].noted \/ p.tasks[i].file \in Polyglot)
  <2>1. p.tasks[i] \in PlanTasks
    BY <1>1
  <2> QED BY <1>2, <2>1 DEF PlanTasks
<1>4. ASSUME NEW i \in DOMAIN q.tasks, q.tasks[i].file \in Polyglot PROVE q.tasks[i].noted
  BY <1>2, <1>3, <1>4
<1> QED BY <1>4 DEF Noted

\* A step of one planner leaves the others, and what is known of them, alone.
LEMMA OneTurnMoves ==
    ASSUME PlanningInv, NEW s \in Planners, NEW t, turn' = [turn EXCEPT ![s] = t],
           DOMAIN t = TurnFields, DOMAIN t.in = InputFields,
           t.retries \in Nat, t.retries # 0 => t.last # "none",
           t.plan # NoPlan \/ t.pc = "planned" => FitsTurn(t)
    PROVE  TurnShape' /\ DraftsFit' /\ RetriesAreCorrected'
<1>1. turn'[s] = t /\ DOMAIN turn' = Planners /\ \A r \in Planners \ {s} : turn'[r] = turn[r]
  BY DEF PlanningInv, TurnShape
<1>2. DraftsFit'
  BY <1>1 DEF PlanningInv, DraftsFit, FitsTurn, Noted
<1> QED BY <1>1, <1>2 DEF PlanningInv, TurnShape, RetriesAreCorrected

\* What is known of one planner.
LEMMA TurnFacts ==
    ASSUME PlanningInv, NEW s \in Planners
    PROVE  /\ DOMAIN turn[s] = TurnFields /\ DOMAIN turn[s].in = InputFields
           /\ turn[s].retries \in Nat /\ (turn[s].retries # 0 => turn[s].last # "none")
           /\ turn[s].plan # NoPlan \/ turn[s].pc = "planned" => FitsTurn(turn[s])
BY DEF PlanningInv, TurnShape, RetriesAreCorrected, DraftsFit

\* A planner whose inputs and plan stay, or who gives up its plan, is fine.
LEMMA SamePlanMoves ==
    ASSUME PlanningInv, NEW s \in Planners, NEW t, turn' = [turn EXCEPT ![s] = t],
           DOMAIN t = TurnFields, t.in = turn[s].in, t.from = turn[s].from,
           t.plan \in {turn[s].plan, NoPlan},
           t.pc = "planned" => turn[s].plan # NoPlan /\ t.plan = turn[s].plan,
           t.retries \in Nat, t.retries # 0 => t.last # "none"
    PROVE  TurnShape' /\ DraftsFit' /\ RetriesAreCorrected'
<1>1. t.plan # NoPlan \/ t.pc = "planned" => FitsTurn(t)
  BY TurnFacts DEF FitsTurn
<1> QED BY <1>1, TurnFacts, OneTurnMoves

\* When the node returns, its plan and its inputs are what is left of its locals.
LEMMA TurnEnds ==
    ASSUME PlanningInv, NEW s \in Planners, NEW pc, pc = "planned" => turn[s].plan # NoPlan,
           turn' = [turn EXCEPT ![s] = TurnOver(turn[s], pc)]
    PROVE  TurnShape' /\ DraftsFit' /\ RetriesAreCorrected'
<1> DEFINE n == TurnOver(turn[s], pc)
<1>1. /\ DOMAIN n = TurnFields /\ n.in = turn[s].in /\ n.from = turn[s].from
      /\ n.plan = turn[s].plan /\ n.retries = 0 /\ n.pc = pc
  BY TurnFacts DEF TurnOver, TurnFields
<1>2. turn' = [turn EXCEPT ![s] = n]
  OBVIOUS
<1> HIDE DEF n
<1>3. n.retries \in Nat /\ (n.retries # 0 => n.last # "none") /\ n.plan \in {turn[s].plan, NoPlan}
  BY <1>1
<1>4. n.pc = "planned" => turn[s].plan # NoPlan /\ n.plan = turn[s].plan
  BY <1>1
<1> QED BY <1>1, <1>2, <1>3, <1>4, SamePlanMoves

\* The steps of a turn that store nothing.
LEMMA QuietPlanSteps ==
    ASSUME PlanningInv, NEW s \in Planners,
           \/ \E a \in Asks, d \in Decisions, dirty \in BOOLEAN : StartTurn(s, a, d, dirty)
           \/ \E p \in Pinned, v \in Volatile : Assemble(s, p, v)
           \/ PlanMiss(s) \/ CancelPlanning(s) \/ Request(s) \/ Rejects(s) \/ Stepless(s)
           \/ Exhausted(s) \/ Raises(s)
    PROVE  TurnShape' /\ DraftsFit' /\ RetriesAreCorrected'
<1> DEFINE t == turn[s]
<1>1. /\ DOMAIN t = TurnFields /\ DOMAIN t.in = InputFields
      /\ t.retries \in Nat /\ (t.retries # 0 => t.last # "none")
      /\ t.plan # NoPlan \/ t.pc = "planned" => FitsTurn(t)
  BY TurnFacts
<1>2. ASSUME NEW a \in Asks, NEW d \in Decisions, NEW dirty \in BOOLEAN, StartTurn(s, a, d, dirty)
      PROVE  TurnShape' /\ DraftsFit' /\ RetriesAreCorrected'
  <2> DEFINE in == [ask |-> a, content |-> content, decision |-> d, rules |-> rules, dirty |-> dirty]
             n == [t EXCEPT !.pc = "assembling", !.plan = NoPlan, !.from = NoInput, !.in = in]
  <2>1. turn' = [turn EXCEPT ![s] = n]
    BY <1>2 DEF StartTurn
  <2>2. DOMAIN in = InputFields
    BY DEF InputFields
  <2> HIDE DEF t, in
  <2>3. /\ DOMAIN n = TurnFields /\ n.in = in /\ n.plan = NoPlan /\ n.pc = "assembling"
        /\ n.retries = t.retries /\ n.last = t.last
    BY <1>1 DEF TurnFields
  <2> HIDE DEF n
  <2> QED BY <1>1, <2>1, <2>2, <2>3, OneTurnMoves
<1>3. ASSUME NEW p \in Pinned, NEW v \in Volatile, Assemble(s, p, v)
      PROVE  TurnShape' /\ DraftsFit' /\ RetriesAreCorrected'
  <2> DEFINE size == BuildAgentContext(p, v).size + Instruction
             pc == IF t.in.dirty THEN "drafting" ELSE "probing"
             n == [t EXCEPT !.pc = pc, !.in.rules = rules, !.base = size, !.prompt = size]
  <2>1. turn' = [turn EXCEPT ![s] = n]
    BY <1>3 DEF Assemble
  <2>2. pc # "planned"
    OBVIOUS
  <2> HIDE DEF t, size, pc
  <2>3. /\ DOMAIN n = TurnFields /\ n.plan = t.plan /\ n.pc = pc /\ n.from = t.from
        /\ n.retries = t.retries /\ n.last = t.last
        /\ n.in = [t.in EXCEPT !.rules = rules]
    BY <1>1 DEF TurnFields
  <2>4. /\ DOMAIN n.in = InputFields
        /\ n.in.ask = t.in.ask /\ n.in.content = t.in.content /\ n.in.decision = t.in.decision
    BY <1>1, <2>3 DEF InputFields
  <2> HIDE DEF n
  <2>5. n.plan # NoPlan \/ n.pc = "planned" => FitsTurn(n)
    BY <1>1, <2>2, <2>3, <2>4 DEF FitsTurn
  <2> QED BY <1>1, <2>1, <2>3, <2>4, <2>5, OneTurnMoves
<1>4. CASE PlanMiss(s)
  <2> DEFINE n == [t EXCEPT !.pc = "drafting"]
  <2>1. turn' = [turn EXCEPT ![s] = n]
    BY <1>4 DEF PlanMiss, TurnGoes
  <2>2. /\ DOMAIN n = TurnFields /\ n.in = t.in /\ n.from = t.from /\ n.plan = t.plan
        /\ n.pc = "drafting" /\ n.retries = t.retries /\ n.last = t.last
    BY <1>1 DEF TurnFields
  <2> HIDE DEF n
  <2> QED BY <1>1, <2>1, <2>2, SamePlanMoves
<1>5. CASE CancelPlanning(s) \/ Raises(s)
  BY <1>5, TurnEnds DEF CancelPlanning, Raises, TurnGoes
<1>6. CASE Request(s)
  <2> DEFINE n == [t EXCEPT !.pc = "asking", !.prompt = Corrected(t)]
  <2>1. turn' = [turn EXCEPT ![s] = n] \/ turn' = [turn EXCEPT ![s] = TurnOver(t, "failed")]
    <3>1. CASE ResolveOutputBudget(Corrected(t))
      BY <1>6, <3>1 DEF Request
    <3>2. CASE ~ResolveOutputBudget(Corrected(t))
      BY <1>6, <3>2 DEF Request
    <3> QED BY <3>1, <3>2
  <2>2. /\ DOMAIN n = TurnFields /\ n.in = t.in /\ n.from = t.from /\ n.plan = t.plan
        /\ n.pc = "asking" /\ n.retries = t.retries /\ n.last = t.last
    BY <1>1 DEF TurnFields
  <2>3. CASE turn' = [turn EXCEPT ![s] = TurnOver(t, "failed")]
    <3>1. "failed" # "planned"
      OBVIOUS
    <3> QED BY <2>3, <3>1, TurnEnds
  <2> HIDE DEF n
  <2>4. CASE turn' = [turn EXCEPT ![s] = n]
    BY <1>1, <2>2, <2>4, SamePlanMoves
  <2> QED BY <2>1, <2>3, <2>4
<1>7. CASE Rejects(s)
  <2> DEFINE n == [t EXCEPT !.pc = "drafting", !.last = "rejected", !.retries = @ + 1]
  <2>1. turn' = [turn EXCEPT ![s] = n]
    BY <1>7 DEF Rejects
  <2>2. /\ DOMAIN n = TurnFields /\ n.in = t.in /\ n.from = t.from /\ n.plan = t.plan
        /\ n.pc = "drafting" /\ n.retries = t.retries + 1 /\ n.last = "rejected"
    BY <1>1 DEF TurnFields
  <2>3. n.retries \in Nat
    BY <1>1, <2>2
  <2> HIDE DEF n
  <2> QED BY <2>3, <1>1, <2>1, <2>2, SamePlanMoves
<1>8. CASE Stepless(s)
  <2> DEFINE over == [TurnOver(t, "failed") EXCEPT !.plan = NoPlan]
             again == [t EXCEPT !.pc = "drafting", !.stepless = @ + 1, !.last = "stepless",
                                !.plan = NoPlan, !.retries = @ + 1]
  <2>1. turn' = [turn EXCEPT ![s] = over] \/ turn' = [turn EXCEPT ![s] = again]
    <3>1. CASE t.stepless = EMPTY_WBS_MAX_RETRIES
      BY <1>8, <3>1 DEF Stepless
    <3>2. CASE t.stepless # EMPTY_WBS_MAX_RETRIES
      BY <1>8, <3>2 DEF Stepless
    <3> QED BY <3>1, <3>2
  <2>2. /\ DOMAIN over = TurnFields /\ over.in = t.in /\ over.from = t.from /\ over.plan = NoPlan
        /\ over.pc = "failed" /\ over.retries = 0
    BY <1>1 DEF TurnFields, TurnOver
  <2>3. /\ DOMAIN again = TurnFields /\ again.in = t.in /\ again.from = t.from /\ again.plan = NoPlan
        /\ again.pc = "drafting" /\ again.retries = t.retries + 1 /\ again.last = "stepless"
    BY <1>1 DEF TurnFields
  <2> HIDE DEF over, again
  <2> QED BY <1>1, <2>1, <2>2, <2>3, SamePlanMoves
<1>9. CASE Exhausted(s)
  <2>1. \E pc \in {"failed", "planned"} : /\ pc = "planned" => t.plan # NoPlan
                                          /\ turn' = [turn EXCEPT ![s] = TurnOver(t, pc)]
    BY <1>9 DEF Exhausted, TurnGoes
  <2> QED BY <2>1, TurnEnds
<1> QED BY <1>2, <1>3, <1>4, <1>5, <1>6, <1>7, <1>8, <1>9

\* An entry found under the turn's key was drafted for the turn's inputs.
LEMMA HitsFit == ASSUME PlanningInv, NEW s \in Planners, PlanHit(s) PROVE PlanningInv'
<1> DEFINE t == turn[s]
<1>1. DOMAIN t = TurnFields /\ DOMAIN t.in = InputFields
  BY TurnFacts
<1>2. PICK e \in Entries(t.in) :
        turn' = [turn EXCEPT ![s] = [TurnOver(t, "planned") EXCEPT !.from = e.wrote,
                                         !.plan = InjectPolyglotConstraints(e.draft)]]
  BY DEF PlanHit
<1>3. e \in planCache /\ e.draft \in Plans /\ PlannerKey(e.wrote) = PlannerKey(t.in)
  BY DEF Entries, PlanningInv, EntriesAreKeyed
<1>4. Noted(InjectPolyglotConstraints(e.draft))
  BY <1>3, InjectionNotes
<1>5. /\ e.wrote.ask = t.in.ask /\ e.wrote.content = t.in.content
      /\ ResolveModelAlias(e.wrote.decision) = ResolveModelAlias(t.in.decision)
  BY <1>3 DEF PlannerKey
<1> HIDE DEF t
<1> DEFINE n == [TurnOver(t, "planned") EXCEPT !.from = e.wrote,
                                               !.plan = InjectPolyglotConstraints(e.draft)]
<1>6. /\ DOMAIN n = TurnFields /\ n.in = t.in /\ n.from = e.wrote /\ n.retries = 0
      /\ n.plan = InjectPolyglotConstraints(e.draft)
  BY <1>1 DEF TurnOver, TurnFields
<1>7. turn' = [turn EXCEPT ![s] = n]
  BY <1>2
<1> HIDE DEF n
<1>8. FitsTurn(n)
  BY <1>4, <1>5, <1>6 DEF FitsTurn
<1>9. EntriesAreKeyed'
  BY DEF PlanHit, PlanningInv, EntriesAreKeyed, PlannerKey
<1>10. n.retries \in Nat /\ (n.retries # 0 => n.last # "none")
  BY <1>6
<1>11. TurnShape' /\ DraftsFit' /\ RetriesAreCorrected'
  BY <1>1, <1>6, <1>7, <1>8, <1>10, OneTurnMoves
<1> QED BY <1>9, <1>11 DEF PlanningInv

\* A draft is for the turn it is drafted in, and is stored under its key.
LEMMA DraftsKeep ==
    ASSUME PlanningInv, NEW s \in Planners, NEW p \in Plans, Drafts(s, p) PROVE PlanningInv'
<1> DEFINE t == turn[s]
           fit == [t EXCEPT !.plan = InjectPolyglotConstraints(p), !.from = t.in]
           n == IF ValidateWBSDependencies(mission[s]) THEN TurnOver(fit, "planned")
                ELSE [fit EXCEPT !.pc = "drafting", !.last = "rejected", !.retries = @ + 1]
<1>1. DOMAIN t = TurnFields /\ DOMAIN t.in = InputFields /\ t.retries \in Nat
  BY TurnFacts
<1>2. turn' = [turn EXCEPT ![s] = n]
  BY DEF Drafts
<1>3. planCache' \subseteq planCache \cup {[key |-> PlannerKey(t.in), draft |-> p, wrote |-> t.in]}
  BY DEF Drafts
<1>4. EntriesAreKeyed'
  BY <1>3 DEF PlanningInv, EntriesAreKeyed, PlannerKey
<1> HIDE DEF t
<1>5. /\ DOMAIN fit = TurnFields /\ fit.in = t.in /\ fit.from = t.in
      /\ fit.plan = InjectPolyglotConstraints(p) /\ fit.retries = t.retries
  BY <1>1 DEF TurnFields
<1> HIDE DEF fit
<1>6. /\ DOMAIN n = TurnFields /\ n.in = t.in /\ n.from = t.in
      /\ n.plan = InjectPolyglotConstraints(p)
      /\ n.retries \in Nat /\ (n.retries # 0 => n.last # "none")
  <2>1. CASE ValidateWBSDependencies(mission[s])
    BY <1>1, <1>5, <2>1 DEF TurnOver, TurnFields
  <2>2. CASE ~ValidateWBSDependencies(mission[s])
    BY <1>1, <1>5, <2>2 DEF TurnFields
  <2> QED BY <2>1, <2>2
<1> HIDE DEF n
<1>7. FitsTurn(n)
  BY <1>6, InjectionNotes DEF FitsTurn
<1> QED BY <1>1, <1>2, <1>4, <1>6, <1>7, OneTurnMoves DEF PlanningInv

LEMMA NextPlanning == PlanningInv /\ [PlanningNext]_planningVars => PlanningInv'
<1> SUFFICES ASSUME PlanningInv, [PlanningNext]_planningVars PROVE PlanningInv'
  OBVIOUS
<1>1. ASSUME NEW s \in Planners,
             \/ \E a \in Asks, d \in Decisions, dirty \in BOOLEAN : StartTurn(s, a, d, dirty)
             \/ PlanStep(s)
      PROVE  PlanningInv'
  <2>1. CASE PlanHit(s) \/ \E p \in Plans : Drafts(s, p)
    BY <2>1, HitsFit, DraftsKeep
  <2>2. CASE ~PlanHit(s) /\ ~\E p \in Plans : Drafts(s, p)
    <3>1. planCache' = planCache
      BY <1>1, <2>2 DEF PlanStep, StartTurn, Assemble, PlanMiss, CancelPlanning, Request, Rejects,
         Stepless, Exhausted, Raises
    <3>2. TurnShape' /\ DraftsFit' /\ RetriesAreCorrected'
      BY <1>1, <2>2, QuietPlanSteps DEF PlanStep
    <3> QED BY <3>1, <3>2 DEF PlanningInv, EntriesAreKeyed, PlannerKey
  <2> QED BY <2>1, <2>2
<1>2. CASE turn' = turn /\ planCache' \subseteq planCache
  BY <1>2 DEF PlanningInv, TurnShape, DraftsFit, FitsTurn, Noted, RetriesAreCorrected,
     EntriesAreKeyed, PlannerKey
<1>3. CASE (\E c \in Contents : SaveActive(c) \/ EditUnseen(c)) \/ EditRules \/ UNCHANGED planningVars
  BY <1>2, <1>3 DEF SaveActive, EditUnseen, EditRules, planningVars
<1> QED BY <1>1, <1>3 DEF PlanningNext

\* A retry that follows the corrective of the one before it has the prompt that was
\* measured: the first one, with one corrective.
LEMMA RefusedForRoom == PlanningInv /\ [PlanningNext]_planningVars => RetriesKeepTheirRoom
<1> SUFFICES ASSUME PlanningInv, [PlanningNext]_planningVars, NEW s \in Planners,
                    turn[s].pc = "drafting", turn[s].retries \in 1..MAX_PLANNER_RETRIES,
                    turn'[s].pc = "failed"
             PROVE  ~ResolveOutputBudget(turn[s].base + CorrectiveTokens)
  BY DEF RetriesKeepTheirRoom
<1>1. turn'[s] # turn[s] /\ turn[s].retries # 0 /\ turn[s].retries <= MAX_PLANNER_RETRIES
  BY PlanningAssumption
<1>2. PICK r \in Planners : (\E a \in Asks, d \in Decisions, dirty \in BOOLEAN : StartTurn(r, a, d, dirty))
                            \/ PlanStep(r)
  BY <1>1 DEF PlanningNext, SaveActive, EditUnseen, EditRules, planningVars
<1>3. \E x : turn' = [turn EXCEPT ![r] = x]
  BY <1>2 DEF PlanStep, StartTurn, Assemble, PlanHit, PlanMiss, CancelPlanning, Request, Rejects,
     Stepless, Exhausted, Raises, Drafts, TurnGoes
<1>4. r = s
  BY <1>1, <1>3 DEF PlanningInv, TurnShape
<1>5. Request(s)
  <2>1. ~(turn[s].retries > MAX_PLANNER_RETRIES)
    BY <1>1, TurnFacts, PlanningAssumption
  <2>2. ~Exhausted(s) /\ ~CancelPlanning(s) /\ ~PlanHit(s) /\ ~PlanMiss(s) /\ ~Rejects(s)
        /\ ~Stepless(s) /\ ~Raises(s)
    BY <1>1, <2>1 DEF Exhausted, CancelPlanning, PlanHit, PlanMiss, Rejects, Stepless, Raises
  <2>3. ~(\E a \in Asks, d \in Decisions, dirty \in BOOLEAN : StartTurn(s, a, d, dirty))
        /\ ~(\E p \in Pinned, v \in Volatile : Assemble(s, p, v)) /\ ~(\E p \in Plans : Drafts(s, p))
    BY DEF StartTurn, PlannerRests, Assemble, Drafts
  <2> QED BY <1>2, <1>4, <2>2, <2>3 DEF PlanStep
<1>6. turn[s].last # "none" /\ Corrected(turn[s]) = turn[s].base + CorrectiveTokens
  BY <1>1 DEF PlanningInv, RetriesAreCorrected, Corrected
<1>7. CASE ResolveOutputBudget(Corrected(turn[s]))
  <2>1. turn' = [turn EXCEPT ![s] = [turn[s] EXCEPT !.pc = "asking", !.prompt = Corrected(turn[s])]]
    BY <1>5, <1>7 DEF Request
  <2>2. turn'[s].pc = "asking"
    BY <2>1 DEF PlanningInv, TurnShape, TurnFields
  <2> QED BY <2>2
<1> QED BY <1>6, <1>7

LEMMA InitPlanning == PlanningInit => PlanningInv
BY DEF PlanningInit, PlanningInv, TurnShape, TurnFields, InputFields, NoInput, DraftsFit,
   RetriesAreCorrected, EntriesAreKeyed

\* The cached plan of another session is only served for what it was drafted from,
\* and the retries of a turn fit where its first attempt did (run_planner_node).
THEOREM PlansStayFit == PlanningSpec => PlansFitTheirTurn
<1>1. PlanningInv => \A s \in Planners : turn[s].pc = "planned" => PlanFits(s)
  BY DEF PlanningInv, PlanFits, DraftsFit, FitsTurn, Noted
<1> QED BY <1>1, InitPlanning, NextPlanning, RefusedForRoom, PTL DEF PlanningSpec, PlansFitTheirTurn

-----------------------------------------------------------------------------
(* The settings: the invariant.                                            *)

ConfigFields == {"keys", "presets", "active", "chat", "embed", "cache"}
RequestFields == {"at", "kind", "body", "base", "merged", "pool"}

RequestShape == DOMAIN req = Requests /\ \A r \in Requests : DOMAIN req[r] = RequestFields

\* The request has made its first save, and owes what is derived from it.
Applying(q) == q.at \in {"apply", "derive", "store"}

OneWriter == \A r, s \in Requests : Writing(req[r]) /\ Writing(req[s]) => r = s

\* What a request has loaded, saved or stored is what the file holds.
WritersKnowTheFile ==
    \A r \in Requests :
        /\ req[r].at = "save" => req[r].base = config
        /\ req[r].at \in {"apply", "derive"} => req[r].merged = config
        /\ req[r].at = "store" =>
              /\ config.presets = req[r].merged.presets /\ config.active = req[r].merged.active
              /\ config.chat = ChatModels(ActiveTiers(req[r]), req[r].merged.keys)

\* Between two applications the engine has the preset that is chosen, also while a
\* request has loaded the file and not saved it.
AppliedOrOwed == (\A r \in Requests : ~Applying(req[r])) /\ Chosen => Follows

SettingsInv ==
    /\ RequestShape /\ numCtx \in Nat
    /\ ~disturbed => /\ DOMAIN config = ConfigFields
                     /\ OneWriter /\ WritersKnowTheFile /\ AppliedOrOwed

-----------------------------------------------------------------------------
(* The settings: steps.                                                    *)

\* A step of one request leaves the others.
LEMMA OneRequestMoves ==
    ASSUME SettingsInv, NEW r \in Requests, NEW q, RequestGoes(r, q), DOMAIN q = RequestFields
    PROVE  RequestShape' /\ req'[r] = q /\ \A s \in Requests \ {r} : req'[s] = req[s]
BY DEF SettingsInv, RequestShape, RequestGoes

LEMMA IdleIsShaped == DOMAIN NoRequest = RequestFields /\ NoRequest.at = "idle"
BY DEF NoRequest, RequestFields

\* A step that writes nothing of what the clients follow, nor begins or ends a write.
LEMMA UnrelatedSteps ==
    ASSUME SettingsInv, RequestShape', UNCHANGED <<config, chatCache, embCache, announced>>,
           numCtx' \in Nat, ~disturbed' => ~disturbed,
           \A s \in Requests : (Writing(req[s]) \/ Writing(req[s])') => req'[s] = req[s]
    PROVE  SettingsInv'
<1> SUFFICES ASSUME ~disturbed'
             PROVE  (DOMAIN config = ConfigFields /\ OneWriter /\ WritersKnowTheFile /\ AppliedOrOwed)'
  BY DEF SettingsInv
<1>1. DOMAIN config = ConfigFields /\ OneWriter /\ WritersKnowTheFile /\ AppliedOrOwed
  BY DEF SettingsInv
<1>2. OneWriter'
  BY <1>1 DEF OneWriter
<1>3. WritersKnowTheFile'
  <2>1. ASSUME NEW s \in Requests, req'[s].at \in {"save", "apply", "derive", "store"}
        PROVE  req'[s] = req[s]
    BY <2>1 DEF Writing
  <2> QED BY <1>1, <2>1 DEF WritersKnowTheFile
<1>4. AppliedOrOwed'
  <2>1. \A s \in Requests : Applying(req'[s]) <=> Applying(req[s])
    BY DEF Writing, Applying
  <2>2. Chosen' = Chosen /\ Follows' = Follows
    BY DEF Chosen, Follows, Watchdog
  <2> QED BY <1>1, <2>1, <2>2 DEF AppliedOrOwed
<1> QED BY <1>1, <1>2, <1>3, <1>4

\* A request arrives.
LEMMA ArrivalKeeps ==
    ASSUME SettingsInv, NEW r \in Requests, PutConfig(r) \/ TestConnection(r) PROVE SettingsInv'
<1>1. \E q : RequestGoes(r, q) /\ DOMAIN q = RequestFields /\ ~Writing(q)
  <2>1. ASSUME NEW b \in Bodies, RequestGoes(r, [NoRequest EXCEPT !.at = "load", !.kind = "put", !.body = b])
        PROVE  \E q : RequestGoes(r, q) /\ DOMAIN q = RequestFields /\ ~Writing(q)
    <3> WITNESS [NoRequest EXCEPT !.at = "load", !.kind = "put", !.body = b]
    <3> QED BY <2>1 DEF NoRequest, RequestFields, Writing
  <2>2. ASSUME NEW e, RequestGoes(r, [NoRequest EXCEPT !.at = "load", !.kind = "test", !.body = e])
        PROVE  \E q : RequestGoes(r, q) /\ DOMAIN q = RequestFields /\ ~Writing(q)
    <3> WITNESS [NoRequest EXCEPT !.at = "load", !.kind = "test", !.body = e]
    <3> QED BY <2>2 DEF NoRequest, RequestFields, Writing
  <2>3. ASSUME RequestGoes(r, NoRequest)
        PROVE  \E q : RequestGoes(r, q) /\ DOMAIN q = RequestFields /\ ~Writing(q)
    BY <2>3, IdleIsShaped DEF Writing
  <2> QED BY <2>1, <2>2, <2>3 DEF PutConfig, TestConnection
<1>2. req[r].at = "idle" /\ UNCHANGED <<config, chatCache, embCache, announced, numCtx, disturbed>>
  BY DEF PutConfig, TestConnection
<1>3. PICK q : RequestGoes(r, q) /\ DOMAIN q = RequestFields /\ ~Writing(q)
  BY <1>1
<1>4. RequestShape' /\ req'[r] = q /\ \A s \in Requests \ {r} : req'[s] = req[s]
  BY <1>3, OneRequestMoves
<1>5. ~Writing(req[r]) /\ ~Writing(req[r])'
  BY <1>2, <1>3, <1>4 DEF Writing
<1>6. \A s \in Requests : (Writing(req[s]) \/ Writing(req[s])') => req'[s] = req[s]
  BY <1>4, <1>5
<1>7. numCtx' \in Nat
  BY <1>2 DEF SettingsInv
<1> QED BY <1>2, <1>4, <1>6, <1>7, UnrelatedSteps

\* Whoever loads the file beside another writer is counted as overlapping.
LEMMA LoadKeeps ==
    ASSUME SettingsInv, NEW r \in Requests, LoadByomConfig(r) PROVE SettingsInv'
<1> DEFINE q == [req[r] EXCEPT !.at = "save", !.base = config]
<1>1. DOMAIN q = RequestFields /\ q.at = "save" /\ q.base = config
  BY DEF SettingsInv, RequestShape, RequestFields
<1>2. RequestGoes(r, q)
  BY DEF LoadByomConfig
<1> HIDE DEF q
<1>3. RequestShape' /\ req'[r] = q /\ \A s \in Requests \ {r} : req'[s] = req[s]
  BY <1>1, <1>2, OneRequestMoves
<1>4. SUFFICES ASSUME ~disturbed'
               PROVE  (DOMAIN config = ConfigFields /\ OneWriter /\ WritersKnowTheFile /\ AppliedOrOwed)'
  BY <1>3 DEF SettingsInv, LoadByomConfig
<1>5. ~disturbed /\ \A s \in Requests \ {r} : ~Writing(req[s])
  BY <1>4 DEF LoadByomConfig, Overlaps
<1>6. \A s \in Requests \ {r} : ~Writing(req[s])'
  BY <1>3, <1>5
<1>7. OneWriter'
  BY <1>6 DEF OneWriter
<1>8. WritersKnowTheFile'
  <2>1. config' = config
    BY DEF LoadByomConfig
  <2>2. \A s \in Requests \ {r} : req'[s].at \notin {"save", "apply", "derive", "store"}
    BY <1>6 DEF Writing
  <2> QED BY <1>1, <1>3, <2>1, <2>2 DEF WritersKnowTheFile
<1>9. AppliedOrOwed'
  <2>1. \A s \in Requests : ~Applying(req[s])
    BY <1>5 DEF Writing, Applying, LoadByomConfig
  <2>2. Chosen' = Chosen /\ Follows' = Follows
    BY DEF Chosen, Follows, Watchdog, LoadByomConfig
  <2> QED BY <1>5, <2>1, <2>2 DEF AppliedOrOwed, SettingsInv
<1> QED BY <1>5, <1>7, <1>8, <1>9 DEF SettingsInv, LoadByomConfig

\* A merge touches neither what is derived nor, unless the body says so, the choice.
LEMMA MergeKeeps ==
    ASSUME NEW old, DOMAIN old = ConfigFields, NEW b
    PROVE  /\ DOMAIN MergePatch(old, b) = ConfigFields
           /\ MergePatch(old, b).chat = old.chat /\ MergePatch(old, b).embed = old.embed
           /\ b.active = Kept => MergePatch(old, b).active = old.active
BY DEF MergePatch, ConfigFields

LEMMA ImportKeeps ==
    ASSUME NEW old, DOMAIN old = ConfigFields, NEW e
    PROVE  /\ DOMAIN Imported(old, e) = ConfigFields
           /\ Imported(old, e).chat = old.chat /\ Imported(old, e).embed = old.embed
           /\ Imported(old, e).active = old.active /\ Imported(old, e).presets = old.presets
<1>1. CASE e \notin DOMAIN old.keys
  BY <1>1 DEF Imported
<1>2. CASE e \in DOMAIN old.keys
  BY <1>2 DEF Imported, ConfigFields
<1> QED BY <1>1, <1>2

\* A save that owes nothing leaves the choice and its tiers as they were.
LEMMA SaveOwes ==
    ASSUME NEW old, DOMAIN old = ConfigFields, NEW b, ~NeedsApply(old, MergePatch(old, b), b),
           MergePatch(old, b).active # "",
           MergePatch(old, b).active \in DOMAIN MergePatch(old, b).presets
    PROVE  /\ old.active = MergePatch(old, b).active /\ old.active \in DOMAIN old.presets
           /\ old.presets[old.active] = MergePatch(old, b).presets[old.active]
BY MergeKeeps DEF NeedsApply, ActivePresetTiersChanged

LEMMA SaveKeeps ==
    ASSUME SettingsInv, NEW r \in Requests, SaveByomConfig(r) PROVE SettingsInv'
<1> DEFINE q == req[r]
           new == IF q.kind = "put" THEN MergePatch(q.base, q.body) ELSE Imported(q.base, q.body)
           owes == q.kind = "put" /\ NeedsApply(q.base, new, q.body)
           n == IF owes THEN [q EXCEPT !.at = "apply", !.merged = new, !.pool = DiscoverModels(new)]
                ELSE NoRequest
<1>1. q.at = "save" /\ config' = new /\ RequestGoes(r, n)
      /\ UNCHANGED <<announced, chatCache, embCache, numCtx, disturbed>>
  BY DEF SaveByomConfig
<1>2. DOMAIN n = RequestFields /\ (owes => n.at = "apply" /\ n.merged = new) /\ (~owes => n.at = "idle")
  <2>1. CASE owes
    BY <2>1 DEF SettingsInv, RequestShape, RequestFields
  <2>2. CASE ~owes
    BY <2>2, IdleIsShaped
  <2> QED BY <2>1, <2>2
<1> HIDE DEF n
<1>3. RequestShape' /\ req'[r] = n /\ \A s \in Requests \ {r} : req'[s] = req[s]
  BY <1>1, <1>2, OneRequestMoves
<1>4. SUFFICES ASSUME ~disturbed'
               PROVE  (DOMAIN config = ConfigFields /\ OneWriter /\ WritersKnowTheFile /\ AppliedOrOwed)'
  BY <1>1, <1>3 DEF SettingsInv
<1>5. /\ ~disturbed /\ DOMAIN config = ConfigFields /\ q.base = config
      /\ \A s \in Requests \ {r} : ~Writing(req[s])
  BY <1>1, <1>4 DEF SettingsInv, WritersKnowTheFile, OneWriter, Writing
<1>6. DOMAIN new = ConfigFields /\ new.chat = config.chat /\ new.embed = config.embed
  BY <1>5, MergeKeeps, ImportKeeps
<1>7. \A s \in Requests \ {r} : req'[s].at \notin {"save", "apply", "derive", "store"}
  BY <1>3, <1>5 DEF Writing
<1>8. OneWriter'
  BY <1>7 DEF OneWriter, Writing
<1>9. WritersKnowTheFile'
  BY <1>1, <1>2, <1>3, <1>7 DEF WritersKnowTheFile
<1>10. AppliedOrOwed'
  <2> SUFFICES ASSUME \A s \in Requests : ~Applying(req'[s]), Chosen' PROVE Follows'
    BY DEF AppliedOrOwed, Applying
  <2>1. ~owes
    BY <1>2, <1>3 DEF Applying
  <2>2. /\ config.active = new.active /\ config.active \in DOMAIN config.presets
        /\ config.presets[config.active] = new.presets[config.active]
    <3>1. CASE q.kind = "put"
      BY <1>1, <1>5, <2>1, <3>1, SaveOwes DEF Chosen
    <3>2. CASE q.kind # "put"
      BY <1>1, <1>5, <3>2, ImportKeeps DEF Chosen
    <3> QED BY <3>1, <3>2
  <2>3. Follows
    <3>1. \A s \in Requests : ~Applying(req[s])
      BY <1>1, <1>5 DEF Applying, Writing
    <3>2. Chosen
      BY <1>1, <2>2 DEF Chosen
    <3> QED BY <1>5, <3>1, <3>2 DEF SettingsInv, AppliedOrOwed
  <2> HIDE DEF new
  <2> QED BY <1>1, <1>6, <2>2, <2>3 DEF Follows, Watchdog
<1> QED BY <1>1, <1>6, <1>8, <1>9, <1>10

LEMMA ApplyKeeps ==
    ASSUME SettingsInv, NEW r \in Requests, ApplyPreset(r) PROVE SettingsInv'
<1> DEFINE n == [req[r] EXCEPT !.at = "derive"]
<1>1. DOMAIN n = RequestFields /\ n.at = "derive" /\ n.merged = req[r].merged
  BY DEF SettingsInv, RequestShape, RequestFields
<1>2. RequestGoes(r, n) \/ RequestGoes(r, NoRequest)
  BY DEF ApplyPreset
<1> HIDE DEF n
<1>3. RequestShape' /\ (req'[r] = n \/ req'[r] = NoRequest) /\ \A s \in Requests \ {r} : req'[s] = req[s]
  BY <1>1, <1>2, OneRequestMoves, IdleIsShaped
<1>4. SUFFICES ASSUME ~disturbed'
               PROVE  (DOMAIN config = ConfigFields /\ OneWriter /\ WritersKnowTheFile /\ AppliedOrOwed)'
  BY <1>3 DEF SettingsInv, ApplyPreset
<1>5. /\ ~disturbed /\ DOMAIN config = ConfigFields /\ req[r].merged = config /\ req[r].at = "apply"
      /\ \A s \in Requests \ {r} : ~Writing(req[s])
      /\ UNCHANGED <<config, chatCache, embCache, announced>>
  BY <1>4 DEF SettingsInv, WritersKnowTheFile, OneWriter, Writing, ApplyPreset
<1>6. \A s \in Requests \ {r} : req'[s].at \notin {"save", "apply", "derive", "store"}
  BY <1>3, <1>5 DEF Writing
<1>7. OneWriter'
  BY <1>6 DEF OneWriter, Writing
<1>8. WritersKnowTheFile'
  BY <1>1, <1>3, <1>5, <1>6, IdleIsShaped DEF WritersKnowTheFile
<1>9. AppliedOrOwed'
  <2>1. CASE Named(req[r])
    <3>1. RequestGoes(r, n)
      BY <1>4, <2>1 DEF ApplyPreset, n
    <3>2. req'[r] = n
      BY <1>1, <3>1, OneRequestMoves
    <3> QED BY <1>1, <3>2 DEF AppliedOrOwed, Applying
  <2>2. CASE ~Named(req[r])
    <3>1. config.active \notin DOMAIN config.presets
      BY <1>5, <2>2 DEF Named, AllPresets
    <3> QED BY <1>5, <3>1 DEF AppliedOrOwed, Chosen
  <2> QED BY <2>1, <2>2
<1> QED BY <1>5, <1>7, <1>8, <1>9

LEMMA StoreKeeps ==
    ASSUME SettingsInv, NEW r \in Requests, StoreTargets(r) PROVE SettingsInv'
<1> DEFINE q == req[r]
           n == [q EXCEPT !.at = "store"]
<1>1. /\ DOMAIN n = RequestFields /\ n.at = "store" /\ n.merged = q.merged /\ n.pool = q.pool
  BY DEF SettingsInv, RequestShape, RequestFields
<1>2. RequestGoes(r, n)
  BY DEF StoreTargets
<1>3. ActiveTiers(n) = ActiveTiers(q)
  BY <1>1 DEF ActiveTiers, AllPresets
<1> HIDE DEF n
<1>4. RequestShape' /\ req'[r] = n /\ \A s \in Requests \ {r} : req'[s] = req[s]
  BY <1>1, <1>2, OneRequestMoves
<1>5. SUFFICES ASSUME ~disturbed'
               PROVE  (DOMAIN config = ConfigFields /\ OneWriter /\ WritersKnowTheFile /\ AppliedOrOwed)'
  BY <1>4 DEF SettingsInv, StoreTargets
<1>6. /\ DOMAIN config = ConfigFields /\ q.merged = config
      /\ \A s \in Requests \ {r} : ~Writing(req[s])
  BY <1>5 DEF SettingsInv, WritersKnowTheFile, OneWriter, Writing, StoreTargets
<1>7. \A s \in Requests \ {r} : req'[s].at \notin {"save", "apply", "derive", "store"}
  BY <1>4, <1>6 DEF Writing
<1>8. OneWriter'
  BY <1>7 DEF OneWriter, Writing
<1>9. /\ DOMAIN config' = ConfigFields /\ config'.presets = q.merged.presets
      /\ config'.active = q.merged.active /\ config'.chat = ChatModels(ActiveTiers(q), q.merged.keys)
  <2> DEFINE embed == DeriveEmbeddingTarget(ActiveTiers(q), q.merged.keys, q.pool)
             chat == ChatModels(ActiveTiers(q), q.merged.keys)
  <2>1. config' = [q.merged EXCEPT !.embed = embed, !.chat = chat]
    BY DEF StoreTargets
  <2> HIDE DEF embed, chat
  <2>2. config'.chat = chat /\ config'.presets = q.merged.presets /\ config'.active = q.merged.active
        /\ DOMAIN config' = ConfigFields
    BY <1>6, <2>1 DEF ConfigFields
  <2> QED BY <2>2 DEF chat
<1>10. WritersKnowTheFile'
  BY <1>1, <1>3, <1>4, <1>7, <1>9 DEF WritersKnowTheFile
<1>11. AppliedOrOwed'
  BY <1>1, <1>4 DEF AppliedOrOwed, Applying
<1> QED BY <1>8, <1>9, <1>10, <1>11

\* The targets that were stored are those of the chosen preset.
LEMMA RefreshKeeps ==
    ASSUME SettingsInv, NEW r \in Requests, RefreshResolvers(r) PROVE SettingsInv'
<1> DEFINE q == req[r]
<1>1. RequestShape' /\ req'[r] = NoRequest /\ \A s \in Requests \ {r} : req'[s] = req[s]
  BY OneRequestMoves, IdleIsShaped DEF RefreshResolvers
<1>2. SUFFICES ASSUME ~disturbed'
               PROVE  (DOMAIN config = ConfigFields /\ OneWriter /\ WritersKnowTheFile /\ AppliedOrOwed)'
  BY <1>1 DEF SettingsInv, RefreshResolvers
<1>3. /\ DOMAIN config = ConfigFields /\ config.presets = q.merged.presets
      /\ config.active = q.merged.active /\ config.chat = ChatModels(ActiveTiers(q), q.merged.keys)
      /\ \A s \in Requests \ {r} : ~Writing(req[s])
  BY <1>2 DEF SettingsInv, WritersKnowTheFile, OneWriter, Writing, RefreshResolvers
<1>4. \A s \in Requests : ~Writing(req'[s])
  BY <1>1, <1>3, IdleIsShaped DEF Writing
<1>5. OneWriter' /\ WritersKnowTheFile'
  BY <1>4 DEF OneWriter, WritersKnowTheFile, Writing
<1>6. AppliedOrOwed'
  <2> SUFFICES ASSUME Chosen' PROVE Follows'
    BY DEF AppliedOrOwed
  <2> DEFINE tiers == config.presets[config.active]
  <2>1. config.active \in DOMAIN q.merged.presets
    BY <1>3 DEF Chosen, RefreshResolvers
  <2>2. ActiveTiers(q) = tiers
    BY <1>3, <2>1 DEF ActiveTiers, AllPresets
  <2>3. DOMAIN config.chat = Assigned(tiers)
    BY <1>3, <2>2 DEF ChatModels
  <2>4. ASSUME NEW t \in Assigned(tiers) PROVE config.chat[t].of = tiers[t]
    <3>1. config.chat[t] = BuildChatTarget(tiers[t], q.merged.keys)
      BY <1>3, <2>2, <2>4 DEF ChatModels
    <3> QED BY <3>1 DEF BuildChatTarget
  <2>5. UNCHANGED config /\ chatCache' = <<>> /\ embCache' = <<>> /\ announced' = Watchdog(config.chat)
    BY DEF RefreshResolvers
  <2>6. Watchdog(config.chat)' = Watchdog(config.chat)
    BY <2>5 DEF Watchdog
  <2> HIDE DEF q
  <2> QED BY <2>3, <2>4, <2>5, <2>6 DEF Follows
<1> QED BY <1>3, <1>5, <1>6 DEF RefreshResolvers

\* The readers fill their caches with what the file holds.
LEMMA ReadersKeep ==
    ASSUME SettingsInv, PingModel \/ GetEmbeddingTarget PROVE SettingsInv'
<1>1. UNCHANGED <<config, req, announced, numCtx, disturbed>>
      /\ chatCache' \in {chatCache, config.chat} /\ embCache' \in {embCache, config.embed}
  BY DEF PingModel, GetEmbeddingTarget
<1>2. RequestShape' /\ OneWriter' = OneWriter /\ WritersKnowTheFile' = WritersKnowTheFile
  BY <1>1 DEF SettingsInv, RequestShape, OneWriter, WritersKnowTheFile
<1>3. Follows => Follows'
  BY <1>1 DEF Follows, Watchdog
<1>4. AppliedOrOwed => AppliedOrOwed'
  BY <1>1, <1>3 DEF AppliedOrOwed, Chosen
<1> QED BY <1>1, <1>2, <1>4 DEF SettingsInv

\* The largest of some numbers is none of the smaller ones.
LEMMA GreatestOfThree ==
    ASSUME NEW a \in Nat, NEW b \in Nat, NEW c \in Nat
    PROVE  Greatest({a, b, c}) \in {a, b, c} /\ Greatest({a, b, c}) >= b
<1>1. \E x \in {a, b, c} : \A y \in {a, b, c} : x >= y
  <2>1. CASE a >= b /\ a >= c
    BY <2>1
  <2>2. CASE b >= a /\ b >= c
    BY <2>2
  <2>3. CASE c >= a /\ c >= b
    BY <2>3
  <2> QED BY <2>1, <2>2, <2>3
<1> QED BY <1>1 DEF Greatest

LEMMA LeastOfThree ==
    ASSUME NEW a \in Nat, NEW b \in Nat, NEW c \in Nat PROVE Least({a, b, c}) \in Nat
<1>1. \E x \in {a, b, c} : \A y \in {a, b, c} : x <= y
  <2>1. CASE a <= b /\ a <= c
    BY <2>1
  <2>2. CASE b <= a /\ b <= c
    BY <2>2
  <2>3. CASE c <= a /\ c <= b
    BY <2>3
  <2> QED BY <2>1, <2>2, <2>3
<1> QED BY <1>1 DEF Least

LEMMA LeastOfTwo ==
    ASSUME NEW a \in Nat, NEW b \in Nat PROVE Least({a, b}) \in Nat
<1>1. \E x \in {a, b} : \A y \in {a, b} : x <= y
  OBVIOUS
<1> QED BY <1>1 DEF Least

\* The window a call is given is at least the one that is served.
LEMMA WindowGrows ==
    ASSUME numCtx \in Nat, NEW need \in {Served, Ceiling}, NEW ram \in Affordable
    PROVE  Window(need, ram) \in Nat /\ Window(need, ram) >= numCtx
<1>1. Served \in Nat /\ Ceiling \in Nat /\ Architecture \in Nat /\ ram \in Nat /\ need \in Nat
  BY SettingsAssumption
<1>2. CASE numCtx >= need
  BY <1>2 DEF Window
<1>3. CASE ~(numCtx >= need)
  <2>1. Affords(ram) \in Nat
    BY <1>1, LeastOfThree DEF Affords
  <2>2. Least({need, Affords(ram)}) \in Nat
    BY <1>1, <2>1, LeastOfTwo
  <2>3. Window(need, ram) = Greatest({Served, numCtx, Least({need, Affords(ram)})})
    BY <1>3 DEF Window
  <2> QED BY <1>1, <2>2, <2>3, GreatestOfThree
<1> QED BY <1>2, <1>3

LEMMA NextSettings == SettingsInv /\ [SettingsNext]_settingsVars => SettingsInv'
<1> SUFFICES ASSUME SettingsInv, [SettingsNext]_settingsVars PROVE SettingsInv'
  OBVIOUS
<1>1. CASE ProbeRuntimeCapabilities \/ ResolveNumCtx \/ UNCHANGED settingsVars
  <2>1. UNCHANGED <<config, chatCache, embCache, announced, req, disturbed>>
    BY <1>1 DEF ProbeRuntimeCapabilities, ResolveNumCtx, settingsVars
  <2>2. numCtx' \in Nat
    BY <1>1, WindowGrows DEF ProbeRuntimeCapabilities, ResolveNumCtx, settingsVars, SettingsInv
  <2>3. RequestShape'
    BY <2>1 DEF SettingsInv, RequestShape
  <2> QED BY <2>1, <2>2, <2>3, UnrelatedSteps
<1> QED BY <1>1, ArrivalKeeps, LoadKeeps, SaveKeeps, ApplyKeeps, StoreKeeps, RefreshKeeps,
           ReadersKeep DEF SettingsNext

LEMMA NextWindow == SettingsInv /\ [SettingsNext]_settingsVars => WindowOnlyGrows
<1> SUFFICES ASSUME SettingsInv, [SettingsNext]_settingsVars PROVE WindowOnlyGrows
  OBVIOUS
<1>1. CASE ResolveNumCtx
  BY <1>1, WindowGrows DEF ResolveNumCtx, SettingsInv, WindowOnlyGrows
<1>2. CASE numCtx' = numCtx \/ numCtx' = 0
  BY <1>2 DEF WindowOnlyGrows, SettingsInv
<1>3. CASE (\E r \in Requests : PutConfig(r) \/ TestConnection(r) \/ LoadByomConfig(r)
              \/ SaveByomConfig(r) \/ ApplyPreset(r) \/ StoreTargets(r) \/ RefreshResolvers(r))
           \/ PingModel \/ GetEmbeddingTarget \/ ProbeRuntimeCapabilities \/ UNCHANGED settingsVars
  BY <1>2, <1>3 DEF PutConfig, TestConnection, LoadByomConfig, SaveByomConfig, ApplyPreset,
     StoreTargets, RefreshResolvers, PingModel, GetEmbeddingTarget, ProbeRuntimeCapabilities, settingsVars
<1> QED BY <1>1, <1>3 DEF SettingsNext

LEMMA InitSettings == SettingsInit => SettingsInv
<1> SUFFICES ASSUME SettingsInit PROVE SettingsInv
  OBVIOUS
<1>1. RequestShape /\ \A r \in Requests : req[r].at = "idle"
  BY IdleIsShaped DEF SettingsInit, RequestShape
<1>2. DOMAIN config = ConfigFields /\ config.active = "" /\ numCtx \in Nat
  BY DEF SettingsInit, EmptyConfig, ConfigFields
<1> QED BY <1>1, <1>2 DEF SettingsInv, OneWriter, Writing, WritersKnowTheFile, AppliedOrOwed, Chosen

\* However the requests of the windows, the readers and the engine interleave, what
\* answers is what the user chose last, unless two writes overlapped or one failed
\* half-way; and the window served only grows until a preset is applied (put_config,
\* resolve_num_ctx).
THEOREM EngineStaysChosen == SettingsSpec => EngineFollowsTheChoice
<1>1. SettingsInv => (Quiet /\ ~disturbed /\ Chosen => Follows)
  BY DEF SettingsInv, AppliedOrOwed, Quiet, Applying, Writing
<1> QED BY <1>1, InitSettings, NextSettings, NextWindow, PTL DEF SettingsSpec, EngineFollowsTheChoice

=============================================================================
