--------------------------- MODULE Gateway_proofs ---------------------------
(***************************************************************************)
(* Proofs about the path of a language-model call, for any number of       *)
(* calls, sessions and models: the lock on the local model is exclusive    *)
(* and loses no wake-up, and no combination of retries, failovers, stalls  *)
(* and aborts repeats, mixes or miscounts an answer.                       *)
(***************************************************************************)
EXTENDS Gateway, FiniteSetTheorems, SequenceTheorems, WellFoundedInduction, TLAPS

USE GatewayBounds

-----------------------------------------------------------------------------
(* The lock on the local model.                                             *)

\* The stages of a call.
Stages == {"idle", "card", "asleep", "preparing", "reasoning", "ready", "guarded",
           "direct", "ended"}

\* The types of the variables about the lock.
LockTypes ==
    /\ client \in [Calls -> Roles]
    /\ stage \in [Calls -> Stages]
    /\ holds \in [Calls -> BOOLEAN]
    /\ holder \in Sessions \cup {None}
    /\ roused \in SUBSET Calls

\* A call that has started and not ended.
UnderWay(c) == stage[c] \notin {"idle", "ended"}
\* The stages after the broker has decided where a call goes.
Decided == {"preparing", "reasoning", "ready", "guarded"}

\* Whoever believes it has the lock is a brokered call past the broker's decision.
HolderIsUnderWay ==
    \A c \in Calls : holds[c] => client[c] \in Brokered /\ stage[c] \in Decided

\* The brokered calls of one session follow each other, so that a release by
\* session cannot take the lock away from another call of the session.
OneAtATime ==
    \A c, d \in Calls :
        (c # d /\ SessionOf[c] = SessionOf[d] /\ {client[c], client[d]} \subseteq Brokered)
            => ~(UnderWay(c) /\ UnderWay(d))

\* Only brokered calls are asked, and wait.
WaitersAreBrokered ==
    \A c \in Calls : stage[c] \in {"card", "asleep"} => client[c] \in Brokered

\* The inductive invariant of the lock.
LockInv ==
    /\ LockTypes
    /\ LockExcludes
    /\ NoSleepingWaiter
    /\ HolderIsUnderWay
    /\ OneAtATime
    /\ WaitersAreBrokered

\* A call that is under way moves on and leaves the lock alone.
LEMMA MovesOn ==
    ASSUME LockInv, NEW c \in Calls, NEW to \in Stages \ {"idle", "card", "asleep"}, UnderWay(c),
           stage' = [stage EXCEPT ![c] = to], UNCHANGED <<client, holds, holder, roused>>,
           holds[c] => to \in Decided
    PROVE  LockInv'
<1> USE DEF LockInv, LockTypes
<1>1. LockTypes' /\ LockExcludes'
  BY DEF LockExcludes
<1>2. NoSleepingWaiter'
  BY DEF NoSleepingWaiter, Asleep
<1>3. HolderIsUnderWay' /\ OneAtATime' /\ WaitersAreBrokered'
  BY DEF HolderIsUnderWay, OneAtATime, WaitersAreBrokered, UnderWay, Decided
<1> QED
  BY <1>1, <1>2, <1>3

\* Nothing of the lock changes.
LEMMA LockFrame ==
    ASSUME LockInv, UNCHANGED <<client, stage, holds, holder, roused>>
    PROVE  LockInv'
  BY DEF LockInv, LockTypes, LockExcludes, NoSleepingWaiter, Asleep, HolderIsUnderWay,
         OneAtATime, WaitersAreBrokered, UnderWay

\* A call starts without the lock.
LEMMA StartsWithout ==
    ASSUME LockInv, NEW c \in Calls, NEW to \in Stages \ {"idle", "asleep", "ended"}, Begin(c),
           to = "card" => client[c] \in Brokered,
           stage' = [stage EXCEPT ![c] = to], UNCHANGED <<client, holds, holder, roused>>
    PROVE  LockInv'
<1> USE DEF LockInv, LockTypes, Begin
<1>1. LockTypes' /\ LockExcludes'
  BY DEF LockExcludes
<1>2. NoSleepingWaiter'
  BY DEF NoSleepingWaiter, Asleep
<1>3. HolderIsUnderWay'
  BY DEF HolderIsUnderWay, Decided
<1>4. OneAtATime' /\ WaitersAreBrokered'
  BY DEF OneAtATime, WaitersAreBrokered, UnderWay, Brokered
<1> QED
  BY <1>1, <1>2, <1>3, <1>4

\* The lock is taken when it is free, or by the session that has it.
LEMMA TakesLock ==
    ASSUME LockInv, NEW c \in Calls, NEW to \in Stages \cap Decided,
           client[c] \in Brokered, Begin(c) \/ UnderWay(c), TryAcquire(SessionOf[c]),
           stage' = [stage EXCEPT ![c] = to], holds' = [holds EXCEPT ![c] = TRUE],
           roused' \in {roused, roused \ {c}}, client' = client
    PROVE  LockInv'
<1> USE DEF LockInv, LockTypes, TryAcquire
<1>1. SessionOf[c] \in Sessions /\ SessionOf[c] # None
  OBVIOUS
<1>2. LockTypes'
  BY <1>1
<1>3. LockExcludes'
  BY <1>1 DEF LockExcludes, Free
<1>4. NoSleepingWaiter'
  BY <1>1 DEF NoSleepingWaiter
<1>5. HolderIsUnderWay'
  BY DEF HolderIsUnderWay, Decided
<1>6. OneAtATime' /\ WaitersAreBrokered'
  BY DEF OneAtATime, WaitersAreBrokered, UnderWay, Decided, Begin, Brokered
<1> QED
  BY <1>2, <1>3, <1>4, <1>5, <1>6

\* A call ends and gives the lock back if it believes it has it.
LEMMA LeavesWithLock ==
    ASSUME LockInv, NEW c \in Calls, UnderWay(c), LetGo(c), client' = client,
           stage' = [stage EXCEPT ![c] = "ended"], holds' = [holds EXCEPT ![c] = FALSE]
    PROVE  LockInv'
<1> USE DEF LockInv, LockTypes, LetGo, ReleaseLock
<1>1. LockTypes'
  BY DEF Stages, Asleep
<1>2. LockExcludes'
  BY DEF LockExcludes, HolderIsUnderWay, OneAtATime, UnderWay, Decided
<1>3. NoSleepingWaiter'
  BY DEF NoSleepingWaiter, Asleep
<1>4. HolderIsUnderWay' /\ OneAtATime' /\ WaitersAreBrokered'
  BY DEF HolderIsUnderWay, OneAtATime, WaitersAreBrokered, UnderWay, Decided
<1> QED
  BY <1>1, <1>2, <1>3, <1>4

\* A call ends in the region that no try guards: the lock stays taken, but
\* nobody believes to have it.
LEMMA LeavesLockBehind ==
    ASSUME LockInv, NEW c \in Calls, UnderWay(c), UNCHANGED <<client, holder>>,
           roused' = roused \ {c},
           stage' = [stage EXCEPT ![c] = "ended"], holds' = [holds EXCEPT ![c] = FALSE]
    PROVE  LockInv'
<1> USE DEF LockInv, LockTypes
<1>1. LockTypes' /\ LockExcludes'
  BY DEF LockExcludes, Stages
<1>2. NoSleepingWaiter'
  BY DEF NoSleepingWaiter, Asleep
<1>3. HolderIsUnderWay' /\ OneAtATime' /\ WaitersAreBrokered'
  BY DEF HolderIsUnderWay, OneAtATime, WaitersAreBrokered, UnderWay, Decided
<1> QED
  BY <1>1, <1>2, <1>3

\* One turn of the loop of acquire_lock.
LEMMA TakesOrSleeps ==
    ASSUME LockInv, NEW c \in Calls, NEW q, stage[c] \in {"card", "asleep"},
           TakeOrSleep(c, q), client' = client
    PROVE  LockInv'
<1>0. client[c] \in Brokered /\ UnderWay(c) /\ ~holds[c]
  BY DEF LockInv, WaitersAreBrokered, HolderIsUnderWay, UnderWay, Decided
<1>1. CASE Free(SessionOf[c])
  <2>1. Into(c) \in Stages \cap Decided
    BY DEF Into, Stages, Decided
  <2> QED
    BY <1>0, <1>1, <2>1, TakesLock DEF TakeOrSleep
<1>2. CASE ~Free(SessionOf[c])
  <2> USE DEF LockInv, LockTypes
  <2>1. /\ stage' = [stage EXCEPT ![c] = "asleep"] /\ roused' = roused \ {c}
        /\ UNCHANGED <<holds, holder>>
    BY <1>2 DEF TakeOrSleep
  <2>2. LockTypes' /\ LockExcludes'
    BY <2>1 DEF LockExcludes, Stages
  <2>3. NoSleepingWaiter'
    BY <1>2, <2>1 DEF NoSleepingWaiter, Free
  <2>4. HolderIsUnderWay' /\ OneAtATime' /\ WaitersAreBrokered'
    BY <1>0, <2>1 DEF HolderIsUnderWay, OneAtATime, WaitersAreBrokered, UnderWay, Decided
  <2> QED
    BY <2>2, <2>3, <2>4
<1> QED
  BY <1>1, <1>2

\* A call whose request is over resumes: it goes on, or ends and lets go.
LEMMA ResumeLock ==
    ASSUME LockInv, NEW c \in Calls, NEW ok, UnderWay(c), Resume(c, ok), client' = client
    PROVE  LockInv'
<1>1. CASE stage[c] = "reasoning"
  <2>1. "ready" \in (Stages \ {"idle", "card", "asleep"}) \cap Decided
    BY DEF Stages, Decided
  <2> QED
    BY <1>1, <2>1, MovesOn DEF Resume, broker
<1>2. CASE /\ stage[c] # "reasoning" /\ stage[c] = "guarded" /\ client[c] = "planner"
           /\ ok /\ UNCHANGED <<stage, holds, broker>>
  BY <1>2, LockFrame DEF broker
<1>3. CASE /\ stage[c] # "reasoning" /\ LetGo(c)
           /\ stage' = [stage EXCEPT ![c] = "ended"] /\ holds' = [holds EXCEPT ![c] = FALSE]
  BY <1>3, LeavesWithLock
<1> QED
  BY <1>1, <1>2, <1>3 DEF Resume

\* A request of a call that has not begun, or has ended, does not exist.
LEMMA LockStep ==
    ASSUME LockInv, [Next]_vars,
           \A c \in Calls : req[c].phase # "none" => UnderWay(c)
    PROVE  LockInv'
<1> USE DEF clients, broker
<1>0. CASE UNCHANGED vars
  BY <1>0, LockFrame DEF vars
<1> SUFFICES ASSUME NEW c \in Calls, Next!(c)
             PROVE  LockInv'
  BY <1>0 DEF Next
<1>1. CASE Bypass(c) \/ Contend(c) \/ CallGateway(c)
  <2>1. Into(c) \in Stages \ {"idle", "card", "asleep", "ended"} /\ {"card", "direct"} \subseteq Stages
    BY DEF Into, Stages
  <2>2. \E to \in Stages \ {"idle", "asleep", "ended"} :
            /\ to = "card" => client[c] \in Brokered
            /\ stage' = [stage EXCEPT ![c] = to]
    BY <1>1, <2>1 DEF Bypass, Contend, CallGateway
  <2>3. Begin(c) /\ UNCHANGED <<client, holds, holder, roused>>
    BY <1>1 DEF Bypass, Contend, CallGateway
  <2> QED
    BY <2>2, <2>3, StartsWithout
<1>2. CASE AcquireNow(c)
  <2>1. Into(c) \in Stages \cap Decided
    BY DEF Into, Stages, Decided
  <2> QED
    BY <1>2, <2>1, TakesLock DEF AcquireNow
<1>3. CASE AnswerCancel(c) \/ AnswerSwitch(c)
  <2>1. stage[c] = "card" /\ UnderWay(c) /\ ~holds[c]
    BY <1>3 DEF AnswerCancel, AnswerSwitch, UnderWay, LockInv, HolderIsUnderWay, Decided
  <2>2. Into(c) \in Stages \ {"idle", "card", "asleep"} /\ "ended" \in Stages
    BY DEF Into, Stages
  <2>3. \E to \in Stages \ {"idle", "card", "asleep"} : stage' = [stage EXCEPT ![c] = to]
    BY <1>3, <2>2 DEF AnswerCancel, AnswerSwitch
  <2>4. UNCHANGED <<client, holds, holder, roused>>
    BY <1>3 DEF AnswerCancel, AnswerSwitch
  <2> QED
    BY <2>1, <2>3, <2>4, MovesOn
<1>4. CASE AnswerWait(c) \/ Wake(c)
  <2>1. stage[c] \in {"card", "asleep"} /\ client' = client
    BY <1>4 DEF AnswerWait, Wake
  <2>2. \E q : TakeOrSleep(c, q)
    BY <1>4 DEF AnswerWait, Wake
  <2> QED
    BY <2>1, <2>2, TakesOrSleeps
<1>5. CASE Reasoning(c) \/ Draft(c)
  <2>1. UnderWay(c) /\ UNCHANGED <<client, holds, holder, roused>>
    BY <1>5 DEF Reasoning, Draft, UnderWay
  <2>2. {"reasoning", "guarded"} \subseteq (Stages \ {"idle", "card", "asleep"}) \cap Decided
    BY DEF Stages, Decided
  <2>3. \E to \in (Stages \ {"idle", "card", "asleep"}) \cap Decided : stage' = [stage EXCEPT ![c] = to]
    BY <1>5, <2>2 DEF Reasoning, Draft
  <2> QED
    BY <2>1, <2>3, MovesOn
<1>6. CASE GiveUp(c)
  BY <1>6, LeavesWithLock DEF GiveUp, UnderWay
<1>7. CASE Summarize(c) \/ Enqueue(c) \/ Admit(c) \/ Strip(c) \/ OomCascade(c) \/ FailOver(c)
           \/ Chunk(c)
  BY <1>7, LockFrame DEF Summarize, Enqueue, Admit, Strip, OomCascade, FailOver, Chunk
<1>8. CASE Refuse(c) \/ Accept(c) \/ Finish(c) \/ Break(c) \/ Expire(c)
  <2>1. UnderWay(c)
    BY <1>8 DEF Refuse, Accept, Finish, Break, Expire, Sent
  <2>2. CASE \E ok \in BOOLEAN : Resume(c, ok) /\ client' = client
    BY <2>1, <2>2, ResumeLock
  <2>3. CASE UNCHANGED <<clients, broker>>
    BY <2>3, LockFrame
  <2> QED
    BY <1>8, <2>2, <2>3 DEF Refuse, Accept, Finish, Break, Expire, Return, Raise
<1>9. CASE Cancel(c)
  <2>1. UnderWay(c)
    BY <1>9 DEF Cancel, UnderWay
  <2>2. CASE stage[c] = "guarded"
    BY <1>9, <2>1, <2>2, LeavesWithLock DEF Cancel
  <2>3. CASE stage[c] # "guarded"
    BY <1>9, <2>1, <2>3, LeavesLockBehind DEF Cancel
  <2> QED
    BY <2>2, <2>3
<1> QED
  BY <1>1, <1>2, <1>3, <1>4, <1>5, <1>6, <1>7, <1>8, <1>9

-----------------------------------------------------------------------------
(* Requests and the ledger.                                                 *)

\* The entry points of the gateway.
Entries == {"ainvoke", "stream", "thinking", "byom"}
\* The requests that a call may have.
Requests ==
    [phase : Phases, entry : Entries, model : Models, rf : BOOLEAN, think : BOOLEAN,
     tries : {0, 1, 2}, from : SUBSET Models, chunks : Nat, usage : BOOLEAN]

\* What makes the four ways of repeating a request exclude each other: only the
\* entry points without optional parameters fall over, so a request that is
\* about to be sent a second time by one of the other ways was sent once.
WellFormed(q) ==
    /\ q.phase \in {"none", "asking", "gated"} => q.tries = 0
    /\ q.phase = "connect" =>
           IF q.entry \in {"ainvoke", "thinking"} THEN q.tries = 1
                                                  ELSE q.tries # 0 /\ ~q.rf
    /\ q.think => q.entry = "thinking"
    /\ q.phase = "gated" /\ q.rf => q.entry \in {"ainvoke", "thinking"}
    /\ q.phase # "stream" => q.from = {} /\ ~q.usage
    /\ q.from \subseteq {q.model}

\* The books of a request: nothing is charged before it is over, and only
\* acomplete_byom leaves a report uncharged.
Booked(q, role, u, v) ==
    /\ q.entry = "byom" => role = "byom"
    /\ IF q.phase = "none" THEN role # "byom" => v = u
                           ELSE v = 0 /\ u = IF q.usage THEN 1 ELSE 0

\* A call that waits for a request is in a stage that issues one.
Attended(q, st) == q.phase # "none" => st \in {"reasoning", "guarded", "direct"}

\* The inductive invariant of the requests and of the ledger.
RequestInv ==
    /\ client \in [Calls -> Roles]
    /\ stage \in [Calls -> Stages]
    /\ tier \in [Calls -> {"medium", "big"}]
    /\ req \in [Calls -> Requests]
    /\ used \in [Calls -> Nat] /\ charged \in [Calls -> Nat]
    /\ \A c \in Calls :
          /\ WellFormed(req[c])
          /\ Booked(req[c], client[c], used[c], charged[c])
          /\ Attended(req[c], stage[c])

\* The first model of a ladder is a model.
LEMMA FirstModel ==
    ASSUME NEW t \in {"medium", "big"}
    PROVE  Order[t][1] \in Models
<1>1. Order[t] \in Seq(Models) /\ Order[t] # <<>>
  OBVIOUS
<1> QED
  BY <1>1

\* A failover goes to a model of the ladder.
LEMMA FailoverModel ==
    ASSUME NEW t \in {"medium", "big"}, NEW m, FailoverTarget(t, m) # None
    PROVE  FailoverTarget(t, m) \in Models
<1> DEFINE callable == {i \in DOMAIN Order[t] : /\ Order[t][i] # m
                                                /\ Order[t][i] \in Local \cup Keyed}
<1>1. callable \subseteq Nat /\ callable # {}
  <2>1. callable # {}
    BY DEF FailoverTarget
  <2>2. Order[t] \in Seq(Models)
    OBVIOUS
  <2>3. DOMAIN Order[t] \subseteq Nat
    BY <2>2
  <2> QED
    BY <2>1, <2>3
<1> DEFINE less == {ss \in Nat \X Nat : ss[1] < ss[2]}
<1>2. IsWellFoundedOn(less, Nat)
  BY NatLessThanWellFounded DEF OpToRel
<1> HIDE DEF callable, less
<1>3. PICK i \in callable : \A j \in callable : ~(<<j, i>> \in less)
  BY <1>1, <1>2, WFMin
<1>4. \A j, k \in Nat : j < k => <<j, k>> \in less
  BY DEF less
<1>5. ASSUME NEW j \in callable
      PROVE  i <= j
  <2>1. i \in Nat /\ j \in Nat
    BY <1>1
  <2>2. ~(j < i)
    BY <1>3, <1>4, <2>1
  <2> QED
    BY <2>1, <2>2
<1>6. (CHOOSE k \in callable : \A j \in callable : k <= j) \in callable
  BY <1>5
<1> QED
  BY <1>1, <1>6 DEF FailoverTarget, callable

\* The request that a call starts with is a request, sent to nobody.
LEMMA NoRequestIsFine ==
    /\ NoRequest \in Requests /\ WellFormed(NoRequest) /\ NoRequest.phase = "none"
    /\ NoRequest.entry = "ainvoke"
  BY FirstModel DEF NoRequest, Requests, Entries, Phases, WellFormed

\* A step of a call that concerns its own request only.
LEMMA OneRequest ==
    ASSUME RequestInv, NEW c \in Calls, NEW q \in Requests, NEW u \in Nat, NEW v \in Nat,
           WellFormed(q), Booked(q, client[c], u, v), client' = client,
           req' = [req EXCEPT ![c] = q],
           used' = [used EXCEPT ![c] = u], charged' = [charged EXCEPT ![c] = v],
           tier' \in [Calls -> {"medium", "big"}], stage' \in [Calls -> Stages],
           \A d \in Calls \ {c} : stage'[d] = stage[d],
           Attended(q, stage'[c])
    PROVE  RequestInv'
  BY DEF RequestInv

\* A step that leaves the requests and the ledger alone.
LEMMA RequestFrame ==
    ASSUME RequestInv, UNCHANGED <<client, req, used, charged>>,
           tier' \in [Calls -> {"medium", "big"}], stage' \in [Calls -> Stages],
           \A d \in Calls : stage'[d] = stage[d] \/ req[d].phase = "none"
    PROVE  RequestInv'
  BY DEF RequestInv, Attended

\* A client asks.
LEMMA IssueStep ==
    ASSUME RequestInv, NEW c \in Calls, NEW entry \in Entries, NEW rf \in BOOLEAN,
           NEW t \in {"medium", "big"}, Issue(c, entry, rf, t), client' = client,
           entry = "byom" => client[c] = "byom",
           tier' \in [Calls -> {"medium", "big"}], stage' \in [Calls -> Stages],
           \A d \in Calls \ {c} : stage'[d] = stage[d],
           stage'[c] \in {"reasoning", "guarded", "direct"}
    PROVE  RequestInv'
<1>1. PICK think \in BOOLEAN :
        /\ think => entry = "thinking"
        /\ req' = [req EXCEPT ![c] =
                     [NoRequest EXCEPT !.phase = "asking", !.entry = entry,
                                       !.model = Order[t][1], !.rf = rf, !.think = think]]
        /\ used' = [used EXCEPT ![c] = 0] /\ charged' = [charged EXCEPT ![c] = 0]
  BY DEF Issue
<1> DEFINE q == [NoRequest EXCEPT !.phase = "asking", !.entry = entry,
                                  !.model = Order[t][1], !.rf = rf, !.think = think]
<1>2. q \in Requests
  BY FirstModel, NoRequestIsFine DEF Requests, Phases
<1>3. WellFormed(q) /\ Booked(q, client[c], 0, 0) /\ Attended(q, stage'[c])
  BY <1>1, NoRequestIsFine DEF NoRequest, WellFormed, Booked, Attended
<1> QED
  BY <1>1, <1>2, <1>3, OneRequest

\* A request is over; its usage is charged.
LEMMA SettleStep ==
    ASSUME RequestInv, NEW c \in Calls, NEW usage \in BOOLEAN, Settle(c, usage),
           UNCHANGED <<client, tier>>, stage' \in [Calls -> Stages],
           \A d \in Calls \ {c} : stage'[d] = stage[d],
           usage # req[c].usage => req[c].phase \in {"connect", "second", "rescue"}
    PROVE  RequestInv'
<1> DEFINE u == used[c] + (IF usage /\ ~req[c].usage THEN 1 ELSE 0)
           v == charged[c] + (IF usage /\ req[c].entry # "byom" THEN 1 ELSE 0)
<1>1. u \in Nat /\ v \in Nat
  BY DEF RequestInv
<1>2. req[c].usage \in BOOLEAN
  BY DEF RequestInv, Requests
<1>3. Booked(NoRequest, client[c], u, v)
  BY <1>2, NoRequestIsFine DEF RequestInv, Booked, WellFormed
<1> QED
  BY <1>1, <1>3, NoRequestIsFine, OneRequest DEF Settle, Attended, RequestInv

\* A request moves on at the gateway: its call stays where it is.
LEMMA RequestMoves ==
    ASSUME RequestInv, NEW c \in Calls, NEW q \in Requests,
           WellFormed(q), q.phase # "none", req[c].phase # "none",
           q.entry = req[c].entry, q.usage = req[c].usage,
           req' = [req EXCEPT ![c] = q], UNCHANGED <<clients, ledger>>
    PROVE  RequestInv'
<1>1. Booked(q, client[c], used[c], charged[c]) /\ Attended(q, stage[c])
  BY DEF RequestInv, Booked, Attended
<1>2. used' = [used EXCEPT ![c] = used[c]] /\ charged' = [charged EXCEPT ![c] = charged[c]]
  BY DEF RequestInv, ledger
<1>3. used[c] \in Nat /\ charged[c] \in Nat
  BY DEF RequestInv
<1> QED
  BY <1>1, <1>2, <1>3, OneRequest DEF RequestInv, clients

\* A request that enters the gate is still unsent.
LEMMA EnqueueStep ==
    ASSUME RequestInv, NEW c \in Calls, Enqueue(c)
    PROVE  RequestInv'
<1> DEFINE q == [req[c] EXCEPT !.phase = "gated",
                               !.rf = @ /\ req[c].entry \in {"ainvoke", "thinking"}
                                        /\ req[c].model \notin rfUnsupported]
<1>1. req[c] \in Requests /\ WellFormed(req[c]) /\ req[c].phase = "asking"
  BY DEF RequestInv, Enqueue
<1>2. req' = [req EXCEPT ![c] = q]
  BY DEF RequestInv, Enqueue
<1>3. q \in Requests
  BY <1>1 DEF Requests, Phases
<1>4. WellFormed(q) /\ q.phase = "gated" /\ q.entry = req[c].entry /\ q.usage = req[c].usage
  BY <1>1 DEF Requests, WellFormed
<1> HIDE DEF q
<1> QED
  BY <1>1, <1>2, <1>3, <1>4, RequestMoves DEF Enqueue

\* A request that leaves the gate is sent for the first time.
LEMMA AdmitStep ==
    ASSUME RequestInv, NEW c \in Calls, Admit(c), req[c].phase = "gated"
    PROVE  RequestInv'
<1> DEFINE q == [req[c] EXCEPT !.phase = "connect", !.tries = 1]
<1>1. req[c] \in Requests /\ WellFormed(req[c])
  BY DEF RequestInv
<1>2. req' = [req EXCEPT ![c] = q]
  BY DEF RequestInv, Admit
<1>3. q \in Requests
  BY <1>1 DEF Requests, Phases
<1>4. WellFormed(q) /\ q.phase = "connect" /\ q.entry = req[c].entry /\ q.usage = req[c].usage
  BY <1>1 DEF Requests, WellFormed
<1> HIDE DEF q
<1> QED
  BY <1>1, <1>2, <1>3, <1>4, RequestMoves DEF Admit

\* A request that was accepted streams: it is not sent again, and has no words yet.
LEMMA AcceptStream ==
    ASSUME RequestInv, NEW c \in Calls, req[c].phase \in {"connect", "second", "rescue"},
           req' = [req EXCEPT ![c].phase = "stream"], UNCHANGED <<clients, ledger>>
    PROVE  RequestInv'
<1> DEFINE q == [req[c] EXCEPT !.phase = "stream"]
<1>1. req[c] \in Requests /\ WellFormed(req[c])
  BY DEF RequestInv
<1>2. req' = [req EXCEPT ![c] = q]
  BY DEF RequestInv
<1>3. q \in Requests
  BY <1>1 DEF Requests, Phases
<1>4. WellFormed(q) /\ q.phase = "stream" /\ q.entry = req[c].entry /\ q.usage = req[c].usage
  BY <1>1 DEF Requests, WellFormed
<1> HIDE DEF q
<1> QED
  BY <1>1, <1>2, <1>3, <1>4, RequestMoves

\* A rejected parameter is only retried by a request that was sent once.
LEMMA StripStep ==
    ASSUME RequestInv, NEW c \in Calls, Strip(c)
    PROVE  RequestInv'
<1> DEFINE n == req[c].tries + 1
           q == [req[c] EXCEPT !.phase = "second", !.rf = FALSE, !.tries = n]
           r == [req[c] EXCEPT !.phase = "second", !.think = FALSE, !.tries = n]
<1>1. req[c] \in Requests /\ WellFormed(req[c]) /\ req[c].phase = "connect"
  BY DEF RequestInv, Strip
<1>2. n = 2
  BY <1>1 DEF Strip, WellFormed, Requests, Entries
<1>6. req' = [req EXCEPT ![c] = q] \/ req' = [req EXCEPT ![c] = r]
  BY DEF RequestInv, Strip
<1> HIDE DEF n
<1>3. q \in Requests /\ r \in Requests
  BY <1>1, <1>2 DEF Requests, Phases
<1>4. /\ WellFormed(q) /\ q.phase = "second" /\ q.entry = req[c].entry /\ q.usage = req[c].usage
      /\ WellFormed(r) /\ r.phase = "second" /\ r.entry = req[c].entry /\ r.usage = req[c].usage
  BY <1>1 DEF Requests, WellFormed
<1>5. UNCHANGED <<clients, ledger>>
  BY DEF Strip
<1> HIDE DEF q, r
<1> QED
  BY <1>1, <1>6, <1>3, <1>4, <1>5, RequestMoves

\* So is an out-of-memory first attempt.
LEMMA OomStep ==
    ASSUME RequestInv, NEW c \in Calls, OomCascade(c)
    PROVE  RequestInv'
<1> DEFINE n == req[c].tries + 1
           q == [req[c] EXCEPT !.phase = "rescue", !.tries = n]
<1>1. req[c] \in Requests /\ WellFormed(req[c]) /\ req[c].phase = "connect"
  BY DEF RequestInv, OomCascade
<1>2. n = 2
  BY <1>1 DEF OomCascade, WellFormed
<1>6. req' = [req EXCEPT ![c] = q]
  BY DEF RequestInv, OomCascade
<1> HIDE DEF n
<1>3. q \in Requests
  BY <1>1, <1>2 DEF Requests, Phases
<1>4. WellFormed(q) /\ q.phase = "rescue" /\ q.entry = req[c].entry /\ q.usage = req[c].usage
  BY <1>1 DEF Requests, WellFormed
<1> HIDE DEF q
<1> QED
  BY <1>1, <1>6, <1>3, <1>4, RequestMoves DEF OomCascade

\* A failover changes the model before anything was delivered.
LEMMA FailOverStep ==
    ASSUME RequestInv, NEW c \in Calls, FailOver(c)
    PROVE  RequestInv'
<1> DEFINE next == FailoverTarget(tier[c], req[c].model)
           n == req[c].tries + 1
           q == [req[c] EXCEPT !.model = next, !.tries = n]
<1>1. /\ req[c] \in Requests /\ WellFormed(req[c]) /\ req[c].phase = "connect"
      /\ req[c].entry \in {"stream", "byom"} /\ req[c].tries = 1
  BY DEF RequestInv, FailOver
<1>2. next \in Models
  BY FailoverModel DEF FailOver, RequestInv
<1>6. n = 2
  BY <1>1
<1>3. req' = [req EXCEPT ![c] = q]
  BY DEF RequestInv, FailOver
<1> HIDE DEF next, n
<1>4. q \in Requests
  BY <1>1, <1>2, <1>6 DEF Requests
<1>5. WellFormed(q) /\ q.phase = "connect" /\ q.entry = req[c].entry /\ q.usage = req[c].usage
  BY <1>1, <1>6 DEF Requests, WellFormed
<1> HIDE DEF q
<1> QED
  BY <1>1, <1>3, <1>4, <1>5, RequestMoves DEF FailOver

\* Deltas come from the model of the open stream; its usage is seen once.
LEMMA ChunkStep ==
    ASSUME RequestInv, NEW c \in Calls, Chunk(c)
    PROVE  RequestInv'
<1>1. /\ req[c] \in Requests /\ WellFormed(req[c]) /\ req[c].phase = "stream" /\ ~req[c].usage
      /\ Booked(req[c], client[c], used[c], charged[c]) /\ Attended(req[c], stage[c])
      /\ used[c] \in Nat /\ charged[c] \in Nat
  BY DEF RequestInv, Chunk
<1>2. CASE /\ req' = [req EXCEPT ![c].chunks = @ + 1, ![c].from = @ \cup {req[c].model}]
           /\ UNCHANGED ledger
  <2> DEFINE n == req[c].chunks + 1
             m == req[c].from \cup {req[c].model}
             q == [req[c] EXCEPT !.chunks = n, !.from = m]
  <2>1. req' = [req EXCEPT ![c] = q]
    BY <1>2 DEF RequestInv
  <2>a. n \in Nat /\ m \in SUBSET Models /\ m \subseteq {req[c].model}
    BY <1>1 DEF Requests, WellFormed
  <2> HIDE DEF n, m
  <2>2. q \in Requests
    BY <1>1, <2>a DEF Requests
  <2>3. WellFormed(q) /\ q.phase = "stream" /\ q.entry = req[c].entry /\ q.usage = req[c].usage
    BY <1>1, <2>a DEF Requests, WellFormed
  <2> HIDE DEF q
  <2> QED
    BY <1>1, <1>2, <2>1, <2>2, <2>3, RequestMoves DEF Chunk
<1>3. CASE /\ req' = [req EXCEPT ![c].usage = TRUE]
           /\ used' = [used EXCEPT ![c] = @ + 1] /\ UNCHANGED charged
  <2> DEFINE q == [req[c] EXCEPT !.usage = TRUE]
  <2>1. req' = [req EXCEPT ![c] = q] /\ charged' = [charged EXCEPT ![c] = charged[c]]
    BY <1>3 DEF RequestInv
  <2>2. q \in Requests
    BY <1>1 DEF Requests
  <2>3. /\ WellFormed(q) /\ Booked(q, client[c], used[c] + 1, charged[c])
        /\ Attended(q, stage[c])
    BY <1>1 DEF Requests, WellFormed, Booked, Attended
  <2>4. UNCHANGED <<client, stage, tier>> /\ used[c] + 1 \in Nat
    BY <1>1 DEF Chunk, clients
  <2>5. /\ charged[c] \in Nat /\ used' = [used EXCEPT ![c] = used[c] + 1]
        /\ tier' \in [Calls -> {"medium", "big"}] /\ stage' \in [Calls -> Stages]
        /\ \A d \in Calls \ {c} : stage'[d] = stage[d]
        /\ Attended(q, stage'[c]) /\ client' = client
    BY <1>1, <1>3, <2>3, <2>4 DEF RequestInv
  <2> HIDE DEF q
  <2> QED
    BY <2>1, <2>2, <2>3, <2>4, <2>5, OneRequest
<1> QED
  BY <1>2, <1>3 DEF Chunk

-----------------------------------------------------------------------------
(* The gate in front of the providers.                                      *)

\* The requests in the gate are those that wait for a slot, each once.
GateInv ==
    /\ gate \in Seq(Calls)
    /\ \A i \in 1..Len(gate) : req[gate[i]].phase = "gated"
    /\ \A i, j \in 1..Len(gate) : gate[i] = gate[j] => i = j

\* Removing an element of a sequence without repetitions.
LEMMA WithoutElement ==
    ASSUME NEW S, NEW s \in Seq(S), NEW x, \A i, j \in 1..Len(s) : s[i] = s[j] => i = j
    PROVE  /\ Without(s, x) \in Seq(S)
           /\ \A i \in 1..Len(Without(s, x)) :
                 Without(s, x)[i] # x /\ \E j \in 1..Len(s) : Without(s, x)[i] = s[j]
           /\ \A i, j \in 1..Len(Without(s, x)) :
                 Without(s, x)[i] = Without(s, x)[j] => i = j
<1>1. CASE \A i \in 1..Len(s) : s[i] # x
  BY <1>1 DEF Without
<1>2. CASE \E i \in 1..Len(s) : s[i] = x
  <2> DEFINE k == CHOOSE i \in 1..Len(s) : s[i] = x
             n == Len(s)
             t == [j \in 1..n - 1 |-> IF j < k THEN s[j] ELSE s[j + 1]]
  <2>1. k \in 1..n /\ s[k] = x
    BY <1>2
  <2>2. n \in Nat /\ n # 0 /\ n - 1 \in Nat
    BY <1>2
  <2>3. \A j \in 1..n : s[j] \in S
    OBVIOUS
  <2>4. Without(s, x) = t
    BY <1>2 DEF Without
  <2> HIDE DEF k
  <2>5. \A j \in 1..n - 1 : t[j] \in S
    BY <2>1, <2>2, <2>3
  <2>6. t \in Seq(S) /\ Len(t) = n - 1
    BY <2>2, <2>5, IsASeq
  <2>7. \A i \in 1..n - 1 : t[i] # x /\ \E j \in 1..n : t[i] = s[j]
    BY <2>1, <2>2
  <2>8. \A i, j \in 1..n - 1 : t[i] = t[j] => i = j
    BY <2>1, <2>2
  <2> HIDE DEF t
  <2> QED
    BY <2>4, <2>6, <2>7, <2>8
<1> QED
  BY <1>1, <1>2

\* The gate is left alone by a step of a request that is not in it.
LEMMA GateFrame ==
    ASSUME GateInv, NEW c \in Calls, req[c].phase # "gated",
           gate' = gate, \A d \in Calls \ {c} : req'[d] = req[d]
    PROVE  GateInv'
<1>1. \A i \in 1..Len(gate) : gate[i] \in Calls /\ gate[i] # c
  BY DEF GateInv
<1> QED
  BY <1>1 DEF GateInv

\* A request that is over leaves the gate, and the others keep their places.
LEMMA GateSettle ==
    ASSUME GateInv, req \in [Calls -> Requests], NEW c \in Calls, NEW usage, Settle(c, usage)
    PROVE  GateInv'
<1>1. gate' = Without(gate, c) /\ \A d \in Calls \ {c} : req'[d] = req[d]
  BY DEF Settle
<1>2. /\ gate' \in Seq(Calls)
      /\ \A i \in 1..Len(gate') : gate'[i] # c /\ \E j \in 1..Len(gate) : gate'[i] = gate[j]
      /\ \A i, j \in 1..Len(gate') : gate'[i] = gate'[j] => i = j
  <2>1. gate \in Seq(Calls) /\ \A i, j \in 1..Len(gate) : gate[i] = gate[j] => i = j
    BY DEF GateInv
  <2> QED
    BY <1>1, <2>1, WithoutElement
<1>3. \A i \in 1..Len(gate') : req'[gate'[i]].phase = "gated"
  BY <1>1, <1>2 DEF GateInv
<1> QED
  BY <1>2, <1>3 DEF GateInv

\* A request that enters the gate was not in it, and stands in it once.
LEMMA GateEnqueue ==
    ASSUME GateInv, req \in [Calls -> Requests], NEW c \in Calls, Enqueue(c)
    PROVE  GateInv'
<1>1. gate' = Append(gate, c) /\ req[c].phase # "gated" /\ req'[c].phase = "gated"
  BY DEF Enqueue, Requests
<1>2. \A d \in Calls \ {c} : req'[d] = req[d]
  BY DEF Enqueue
<1>3. /\ gate' \in Seq(Calls) /\ Len(gate') = Len(gate) + 1 /\ Len(gate) \in Nat
      /\ gate'[Len(gate) + 1] = c
      /\ \A i \in 1..Len(gate) : gate'[i] = gate[i] /\ gate[i] \in Calls
  BY <1>1 DEF GateInv
<1>4. \A i \in 1..Len(gate) : gate[i] # c
  BY <1>1 DEF GateInv
<1>5. \A i \in 1..Len(gate') : i = Len(gate) + 1 \/ i \in 1..Len(gate)
  BY <1>3
<1>6. \A i \in 1..Len(gate') : req'[gate'[i]].phase = "gated"
  BY <1>1, <1>2, <1>3, <1>4, <1>5 DEF GateInv
<1>7. \A i, j \in 1..Len(gate') : gate'[i] = gate'[j] => i = j
  BY <1>3, <1>4, <1>5 DEF GateInv
<1> QED
  BY <1>3, <1>6, <1>7 DEF GateInv

\* Whoever is admitted was at the head of the gate, and leaves it.
LEMMA GateAdmit ==
    ASSUME GateInv, req \in [Calls -> Requests], NEW c \in Calls, Admit(c)
    PROVE  GateInv' /\ req[c].phase = "gated"
<1>1. /\ gate \in Seq(Calls) /\ gate # <<>> /\ gate[1] = c /\ gate' = Tail(gate)
      /\ \A d \in Calls \ {c} : req'[d] = req[d]
  BY DEF Admit, GateInv
<1>2. /\ gate' \in Seq(Calls) /\ Len(gate) \in Nat /\ Len(gate) # 0 /\ Len(gate') = Len(gate) - 1
      /\ \A i \in 1..Len(gate') : gate'[i] = gate[i + 1]
  BY <1>1
<1>3. \A i \in 1..Len(gate') : i + 1 \in 1..Len(gate) /\ i + 1 # 1
  BY <1>2
<1>4. \A i \in 1..Len(gate') : gate'[i] \in Calls \ {c}
  BY <1>1, <1>2, <1>3 DEF GateInv
<1>5. \A i \in 1..Len(gate') : req'[gate'[i]].phase = "gated"
  BY <1>1, <1>2, <1>3, <1>4 DEF GateInv
<1>6. ASSUME NEW i \in 1..Len(gate'), NEW j \in 1..Len(gate'), gate'[i] = gate'[j]
      PROVE  i = j
  <2>1. gate[i + 1] = gate[j + 1]
    BY <1>2, <1>6
  <2>2. i + 1 \in 1..Len(gate) /\ j + 1 \in 1..Len(gate)
    BY <1>3
  <2>3. i + 1 = j + 1
    BY <2>1, <2>2 DEF GateInv
  <2>4. i \in Int /\ j \in Int
    BY <1>2
  <2> QED
    BY <2>3, <2>4
<1> QED
  BY <1>1, <1>2, <1>5, <1>6 DEF GateInv

-----------------------------------------------------------------------------
(* The steps of the whole, and the theorems.                                *)

\* Where a client resumes is a stage, and no other call is moved.
LEMMA ResumeStage ==
    ASSUME stage \in [Calls -> Stages], NEW c \in Calls, NEW ok, Resume(c, ok)
    PROVE  stage' \in [Calls -> Stages] /\ \A d \in Calls \ {c} : stage'[d] = stage[d]
  BY DEF Resume, Stages

\* Every step keeps the requests, the ledger and the gate in order.
LEMMA RequestStep ==
    ASSUME LockInv, RequestInv, GateInv, [Next]_vars
    PROVE  RequestInv' /\ GateInv'
<1> USE DEF clients, broker, ledger, memo
<1>0. CASE UNCHANGED vars
  BY <1>0 DEF vars, RequestInv, GateInv
<1> SUFFICES ASSUME NEW c \in Calls, Next!(c)
             PROVE  RequestInv' /\ GateInv'
  BY <1>0 DEF Next
<1>1. /\ req \in [Calls -> Requests] /\ stage \in [Calls -> Stages]
      /\ client[c] \in Roles /\ tier[c] \in {"medium", "big"} /\ req[c].usage \in BOOLEAN
  BY DEF RequestInv, Requests
<1>2. Into(c) \in Stages /\ {"card", "asleep", "reasoning", "guarded", "direct", "ended"} \subseteq Stages
  BY DEF Into, Stages
<1>3. CASE \/ Bypass(c) \/ AcquireNow(c) \/ Contend(c) \/ AnswerCancel(c) \/ AnswerSwitch(c)
           \/ AnswerWait(c) \/ Wake(c) \/ GiveUp(c)
  <2> USE DEF Bypass, AcquireNow, Contend, AnswerCancel, AnswerSwitch, AnswerWait, Wake, GiveUp
  <2>1. req[c].phase = "none"
    BY <1>1, <1>3 DEF RequestInv, Attended, Begin
  <2>2. UNCHANGED <<client, req, gate, used, charged>>
    BY <1>3
  <2>3. stage' \in [Calls -> Stages] /\ \A d \in Calls \ {c} : stage'[d] = stage[d]
    <3>1. \E st \in Stages : stage' = [stage EXCEPT ![c] = st]
      <4>1. CASE Bypass(c) \/ AcquireNow(c) \/ Contend(c) \/ AnswerCancel(c) \/ AnswerSwitch(c)
        BY <1>2, <4>1
      <4>2. CASE AnswerWait(c) \/ Wake(c)
        BY <1>2, <4>2 DEF TakeOrSleep
      <4>3. CASE GiveUp(c)
        BY <1>2, <4>3
      <4> QED
        BY <1>3, <4>1, <4>2, <4>3
    <3> QED
      BY <1>1, <3>1
  <2>4. tier' \in [Calls -> {"medium", "big"}]
    BY <1>3 DEF RequestInv
  <2>5. RequestInv'
    BY <2>1, <2>2, <2>3, <2>4, RequestFrame
  <2> QED
    BY <2>1, <2>2, <2>5, GateFrame
<1>4. CASE Reasoning(c) \/ Draft(c) \/ Summarize(c) \/ CallGateway(c)
  <2> USE DEF Reasoning, Draft, Summarize, CallGateway
  <2>1. req[c].phase = "none" /\ UNCHANGED <<client, gate>>
    BY <1>1, <1>4 DEF RequestInv, Attended, Begin
  <2>2. /\ stage' \in [Calls -> Stages] /\ \A d \in Calls \ {c} : stage'[d] = stage[d]
        /\ stage'[c] \in {"reasoning", "guarded", "direct"}
    <3>1. \E to \in {"reasoning", "guarded", "direct"} : stage' = [stage EXCEPT ![c] = to]
      BY <1>1, <1>4
    <3> QED
      BY <1>1, <1>2, <3>1
  <2>3. tier' \in [Calls -> {"medium", "big"}]
    BY <1>4 DEF RequestInv, Tiers
  <2>4. \E entry \in Entries, rf \in BOOLEAN, t \in {"medium", "big"} :
            Issue(c, entry, rf, t) /\ (entry = "byom" => client[c] = "byom")
    <3>1. \/ /\ Entry(client[c]) \in Entries
             /\ Entry(client[c]) = "byom" => client[c] = "byom"
          \/ client[c] \in Brokered
      BY <1>1 DEF Entry, Entries, Roles, Brokered
    <3>2. {"stream", "ainvoke", "thinking"} \subseteq Entries
      BY DEF Entries
    <3>3. CASE Reasoning(c) \/ Draft(c) \/ Summarize(c)
      BY <1>1, <3>2, <3>3
    <3>4. CASE CallGateway(c)
      BY <3>1, <3>4 DEF Tiers
    <3> QED
      BY <1>4, <3>3, <3>4
  <2>5. RequestInv'
    BY <2>1, <2>2, <2>3, <2>4, IssueStep
  <2>6. \A d \in Calls \ {c} : req'[d] = req[d]
    BY <1>1, <2>4 DEF Issue
  <2> QED
    BY <2>1, <2>5, <2>6, GateFrame
<1>5. CASE Enqueue(c)
  BY <1>1, <1>5, EnqueueStep, GateEnqueue
<1>6. CASE Admit(c)
  BY <1>1, <1>6, AdmitStep, GateAdmit
<1>7. CASE Strip(c) \/ OomCascade(c) \/ FailOver(c) \/ Chunk(c)
  <2> USE DEF Strip, OomCascade, FailOver, Chunk
  <2>1. RequestInv'
    BY <1>7, StripStep, OomStep, FailOverStep, ChunkStep
  <2>2. req[c].phase # "gated" /\ gate' = gate /\ \A d \in Calls \ {c} : req'[d] = req[d]
    BY <1>1, <1>7
  <2> QED
    BY <2>1, <2>2, GateFrame
<1>8. CASE Accept(c) /\ req[c].entry \notin {"ainvoke", "byom"}
  <2>1. RequestInv'
    BY <1>8, AcceptStream DEF Accept
  <2>2. req[c].phase # "gated" /\ gate' = gate /\ \A d \in Calls \ {c} : req'[d] = req[d]
    BY <1>1, <1>8 DEF Accept
  <2> QED
    BY <2>1, <2>2, GateFrame
<1>9. CASE \/ Accept(c) /\ req[c].entry \in {"ainvoke", "byom"}
           \/ Refuse(c) \/ Finish(c) \/ Break(c) \/ Expire(c) \/ Cancel(c)
  <2> USE DEF Accept, Refuse, Finish, Break, Expire, Cancel, Return, Raise
  <2>1. PICK usage \in BOOLEAN :
            /\ Settle(c, usage)
            /\ usage # req[c].usage => req[c].phase \in {"connect", "second", "rescue"}
    BY <1>1, <1>9 DEF RequestInv, WellFormed
  <2>2. UNCHANGED <<client, tier>>
    BY <1>9
  <2>3. stage' \in [Calls -> Stages] /\ \A d \in Calls \ {c} : stage'[d] = stage[d]
    <3>1. CASE Cancel(c)
      BY <1>1, <1>2, <3>1
    <3>2. CASE \E ok \in BOOLEAN : Resume(c, ok)
      BY <1>1, <3>2, ResumeStage
    <3> QED
      BY <1>9, <3>1, <3>2
  <2> QED
    BY <1>1, <2>1, <2>2, <2>3, SettleStep, GateSettle
<1> QED
  BY <1>3, <1>4, <1>5, <1>6, <1>7, <1>8, <1>9

\* The inductive invariant of the gateway as a whole.
Inv == LockInv /\ RequestInv /\ GateInv

\* The inductive invariant of the gateway: who believes to hold the lock on the
\* local model, how often a request may have been sent, what its call was
\* charged and which requests stand in the gate.
THEOREM Invariance == Spec => []Inv
<1>1. Init => Inv
  <2> SUFFICES ASSUME Init
               PROVE  Inv
    OBVIOUS
  <2>1. LockInv
    BY DEF Init, LockInv, LockTypes, LockExcludes, NoSleepingWaiter, Asleep,
           HolderIsUnderWay, OneAtATime, WaitersAreBrokered, UnderWay, Stages
  <2>2. RequestInv
    BY NoRequestIsFine DEF Init, RequestInv, Booked, Attended, Stages
  <2>3. GateInv
    BY DEF Init, GateInv
  <2> QED
    BY <2>1, <2>2, <2>3 DEF Inv
<1>2. Inv /\ [Next]_vars => Inv'
  <2> SUFFICES ASSUME Inv, [Next]_vars
               PROVE  Inv'
    OBVIOUS
  <2>1. \A c \in Calls : req[c].phase # "none" => UnderWay(c)
    BY DEF Inv, RequestInv, Attended, UnderWay
  <2>2. LockInv'
    BY <2>1, LockStep DEF Inv
  <2>3. RequestInv' /\ GateInv'
    BY RequestStep DEF Inv
  <2> QED
    BY <2>2, <2>3 DEF Inv
<1> QED
  BY <1>1, <1>2, PTL DEF Spec

\* The lock of GPUResourceManager is exclusive and no wake-up of it is lost, for
\* any number of calls and sessions, cancelled at any await.
THEOREM LockSafe == Spec => []LockIsSafe
<1>1. Inv => LockIsSafe
  BY DEF Inv, LockInv, LockIsSafe
<1> QED
  BY <1>1, Invariance, PTL

\* No combination of a stripped parameter, a failover, the out-of-memory cascade,
\* a broken stream and an abort repeats a request more than once, mixes the
\* words of two models, or charges a call for anything but what was reported.
THEOREM PaidOnce == Spec => []AnsweredAndPaidOnce
<1>1. Inv => AnsweredAndPaidOnce
  <2> SUFFICES ASSUME Inv, NEW c \in Calls
               PROVE  /\ req[c].tries <= 2 /\ Cardinality(req[c].from) <= 1
                      /\ client[c] # "byom" /\ req[c].phase = "none" => charged[c] = used[c]
    BY DEF AnsweredAndPaidOnce, OneAnswerOneModel, UsageIsCharged
  <2>1. req[c] \in Requests /\ WellFormed(req[c]) /\ Booked(req[c], client[c], used[c], charged[c])
    BY DEF Inv, RequestInv
  <2>2. req[c].tries <= 2
    BY <2>1 DEF Requests
  <2>3. req[c].from = {} \/ req[c].from = {req[c].model}
    BY <2>1 DEF WellFormed
  <2>4. Cardinality(req[c].from) <= 1
    <3>1. Cardinality({}) = 0 /\ \A m : Cardinality({m}) = 1
      BY FS_EmptySet, FS_Singleton
    <3>2. Cardinality(req[c].from) \in {0, 1}
      BY <2>3, <3>1, Zenon
    <3> QED
      BY <3>2
  <2> QED
    BY <2>1, <2>2, <2>4 DEF Booked
<1> QED
  BY <1>1, Invariance, PTL
=============================================================================
