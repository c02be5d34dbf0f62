------------------------------ MODULE Gateway ------------------------------
(***************************************************************************)
(* The path of a language-model call: the broker of the one local GPU      *)
(* (core/resource_manager.py) in front of the planner and the summarizer,  *)
(* and the entry points of LLMGateway (tools/llm_gateway.py) behind it,    *)
(* with their common concurrency gate, their retries (a stripped           *)
(* parameter, a failover, the out-of-memory cascade), their time limits    *)
(* and the token ledger.                                                   *)
(*                                                                         *)
(* A call is one activation of a client.  Any call may be cancelled (Stop) *)
(* at every await it makes.                                                *)
(***************************************************************************)
EXTENDS Integers, Sequences, FiniteSets

CONSTANTS
    Calls,          \* activations of the clients
    Sessions,
    Clients,        \* what the calls may be: [Calls -> role], a set of them
    SessionOf,      \* the session of each call
    Models,         \* concrete models of the active preset
    Local,          \* those served by this machine
    Native,         \* those that stream their reasoning on a channel of its own
    Keyed,          \* cloud models whose key is configured
    Order,          \* for each tier, its models nearest-first (_directional_order)
    MaxConcurrency, \* LLM_MAX_CONCURRENCY
    MaxDrafts,      \* MAX_PLANNER_RETRIES + 1
    MaxChunks,      \* bound: deltas of one stream
    None

Roles == {"planner", "summarizer", "complete", "stream", "thinking", "byom"}
Tiers == DOMAIN Order

ASSUME GatewayBounds ==
    /\ Clients \subseteq [Calls -> Roles]
    /\ SessionOf \in [Calls -> Sessions]
    /\ Local \subseteq Models /\ Native \subseteq Models /\ Keyed \subseteq Models \ Local
    /\ Order \in [{"medium", "big"} -> Seq(Models) \ {<<>>}]
    /\ MaxConcurrency \in Nat \ {0}
    /\ MaxDrafts \in Nat \ {0}
    /\ MaxChunks \in Nat
    /\ None \notin Sessions \cup Models

VARIABLES
    client,         \* the role of each call
    stage,          \* where its client is
    holds,          \* BrokerDecision.holds_lock
    tier,           \* the tier it asks the gateway for
    drafts,         \* drafts the planner has asked for
    holder,         \* locked_by_session_id
    event,          \* _release_event is set
    queue,          \* _LockState.queue
    roused,         \* waiters whose wait() has been resolved
    req,            \* the request each call has at the gateway
    gate,           \* requests waiting for a slot, first come first served
    rfUnsupported,  \* _RESPONSE_FORMAT_UNSUPPORTED
    thinkUnsupported, \* _THINKING_PARAM_UNSUPPORTED
    used,           \* history: usage reports of each call's latest request
    charged         \* those of them entered in the token ledger

broker == <<holder, event, queue, roused>>
memo == <<rfUnsupported, thinkUnsupported>>
ledger == <<used, charged>>
clients == <<client, stage, holds, tier, drafts>>
vars == <<clients, broker, req, gate, memo, ledger>>

Brokered == {"planner", "summarizer"}
Phases == {"none", "asking", "gated", "connect", "second", "rescue", "stream"}
Sent == Phases \ {"none", "asking", "gated"}

\* What a request is: its entry point, the model it is sent to, the optional
\* parameters in its kwargs, the requests made to providers for it so far, the
\* models that have delivered a part of the answer, and the usage it has seen.
NoRequest ==
    [phase |-> "none", entry |-> "ainvoke", model |-> Order["medium"][1],
     rf |-> FALSE, think |-> FALSE, tries |-> 0, from |-> {}, chunks |-> 0,
     usage |-> FALSE]

Init ==
    /\ client \in Clients
    /\ stage = [c \in Calls |-> "idle"]
    /\ holds = [c \in Calls |-> FALSE] /\ tier = [c \in Calls |-> "medium"]
    /\ drafts = [c \in Calls |-> 0]
    /\ holder = None /\ event = TRUE /\ queue = <<>> /\ roused = {}
    /\ req = [c \in Calls |-> NoRequest] /\ gate = <<>>
    /\ rfUnsupported = {} /\ thinkUnsupported = {}
    /\ used = [c \in Calls |-> 0] /\ charged = [c \in Calls |-> 0]

InFlight == {c \in Calls : req[c].phase \in Sent}
Asleep == {c \in Calls : stage[c] = "asleep"}
\* list.remove; nobody queues twice.
Without(s, x) ==
    IF \A i \in 1..Len(s) : s[i] # x THEN s
    ELSE LET i == CHOOSE i \in 1..Len(s) : s[i] = x
         IN [j \in 1..Len(s) - 1 |-> IF j < i THEN s[j] ELSE s[j + 1]]
InSeq(x, s) == \E i \in 1..Len(s) : s[i] = x

-----------------------------------------------------------------------------
(* The local-model lock (GPUResourceManager).  Nothing awaits while the     *)
(* mutex is held, so each method is one step.                               *)

Free(s) == holder \in {None, s}

\* Mutant: the lock is granted without looking at its holder.
TryAcquireUnchecked(s) ==
    /\ holder' = s
    /\ event' = FALSE

\* try_acquire_now, on success; the holder's own session takes it again.
TryAcquire(s) ==
    /\ Free(s)
    /\ holder' = s
    /\ event' = (event /\ holder = s)

\* release_lock: only for the holder; every sleeper's wait() resolves.
ReleaseLock(s) ==
    IF holder = s
    THEN holder' = None /\ event' = TRUE /\ roused' = roused \cup Asleep
    ELSE UNCHANGED <<holder, event, roused>>

\* ResourceBroker.release, called when the client leaves with the lock.
LetGo(c) ==
    /\ IF holds[c] THEN ReleaseLock(SessionOf[c])
                   ELSE UNCHANGED <<holder, event, roused>>
    /\ UNCHANGED queue

-----------------------------------------------------------------------------
(* Requests (LLMGateway)                                                    *)

\* The first model of the tier's ladder that differs from the one that
\* dropped and can be called (get_failover_target), or None.
FailoverTarget(t, dropped) ==
    LET callable == {i \in DOMAIN Order[t] :
                        /\ Order[t][i] # dropped
                        /\ Order[t][i] \in Local \cup Keyed}
    IN IF callable = {} THEN None
       ELSE Order[t][CHOOSE i \in callable : \A j \in callable : i <= j]

\* A client asks: the tier is resolved to a model, whose runtime is probed for
\* its reasoning channel and its context window.
Issue(c, entry, wantsRf, t) ==
    LET m == Order[t][1]
    IN \E think \in BOOLEAN :
        /\ think => entry = "thinking" /\ m \in Native \ thinkUnsupported
        /\ req' = [req EXCEPT ![c] =
                    [NoRequest EXCEPT !.phase = "asking", !.entry = entry,
                                      !.model = m, !.rf = wantsRf, !.think = think]]
        /\ used' = [used EXCEPT ![c] = 0]
        /\ charged' = [charged EXCEPT ![c] = 0]

\* The kwargs are built and the request queues for a slot.  A model that has
\* rejected response_format before is not sent it again; the flat entry points
\* never send it.
Enqueue(c) ==
    /\ req[c].phase = "asking"
    /\ req' = [req EXCEPT ![c].phase = "gated",
                          ![c].rf = @ /\ req[c].entry \in {"ainvoke", "thinking"}
                                      /\ req[c].model \notin rfUnsupported]
    /\ gate' = Append(gate, c)
    /\ UNCHANGED <<clients, broker, memo, ledger>>

\* The semaphore hands its slots out in the order they were asked for.
Admit(c) ==
    /\ gate # <<>> /\ Head(gate) = c
    /\ Cardinality(InFlight) < MaxConcurrency
    /\ gate' = Tail(gate)
    /\ req' = [req EXCEPT ![c].phase = "connect", ![c].tries = 1]
    /\ UNCHANGED <<clients, broker, memo, ledger>>

\* Where a client resumes when its request has returned (ok) or raised.
Resume(c, ok) ==
    CASE stage[c] = "reasoning" ->      \* best-effort: failures are swallowed
            /\ stage' = [stage EXCEPT ![c] = "ready"]
            /\ UNCHANGED <<holds, broker>>
      [] stage[c] = "guarded" /\ client[c] = "planner" /\ ok ->
            \/ UNCHANGED <<stage, holds, broker>>           \* rejected draft
            \/ /\ stage' = [stage EXCEPT ![c] = "ended"]    \* a plan
               /\ holds' = [holds EXCEPT ![c] = FALSE]
               /\ LetGo(c)
      [] OTHER ->
            /\ stage' = [stage EXCEPT ![c] = "ended"]
            /\ holds' = [holds EXCEPT ![c] = FALSE]
            /\ LetGo(c)

\* Mutant: the cascade's account and the common one both run for a rescue.
SettleRescueTwice(c, usage) ==
    /\ req' = [req EXCEPT ![c] = NoRequest]
    /\ gate' = Without(gate, c)
    /\ used' = [used EXCEPT ![c] = @ + (IF usage /\ ~req[c].usage THEN 1 ELSE 0)]
    /\ charged' = [charged EXCEPT ![c] =
                    @ + (IF ~usage \/ req[c].entry = "byom" THEN 0
                         ELSE IF req[c].phase = "rescue" THEN 2 ELSE 1)]

\* A request is over: the slot is free, and the usage it has seen, if any, is
\* charged -- except by acomplete_byom, which keeps no account.
Settle(c, usage) ==
    /\ req' = [req EXCEPT ![c] = NoRequest]
    /\ gate' = Without(gate, c)
    /\ used' = [used EXCEPT ![c] = @ + (IF usage /\ ~req[c].usage THEN 1 ELSE 0)]
    /\ charged' = [charged EXCEPT ![c] =
                    @ + (IF usage /\ req[c].entry # "byom" THEN 1 ELSE 0)]

Return(c, usage) ==
    /\ Settle(c, usage)
    /\ Resume(c, TRUE)
    /\ UNCHANGED <<client, tier, drafts, memo>>

Raise(c, usage) ==
    /\ Settle(c, usage)
    /\ Resume(c, FALSE)
    /\ UNCHANGED <<client, tier, drafts, memo>>

\* Pre-flight admission of a local model: there is not enough free memory.
\* ainvoke and the thinking stream ask before they queue, the plain stream
\* inside its slot and again for a failover.
Refuse(c) ==
    /\ req[c].model \in Local
    /\ \/ req[c].phase = "asking" /\ req[c].entry \in {"ainvoke", "thinking"}
       \/ req[c].phase = "connect" /\ req[c].entry = "stream"
    /\ Raise(c, FALSE)

\* The provider answers the request: a completion, or the head of a stream.
Accept(c) ==
    /\ req[c].phase \in {"connect", "second", "rescue"}
    /\ IF req[c].entry \in {"ainvoke", "byom"}
       THEN \E usage \in BOOLEAN : Return(c, usage)
       ELSE /\ req' = [req EXCEPT ![c].phase = "stream"]
            /\ UNCHANGED <<clients, broker, gate, memo, ledger>>

\* The provider rejects an optional parameter: the model is remembered and the
\* request repeated once without it.
Strip(c) ==
    /\ req[c].phase = "connect"
    /\ \/ /\ req[c].rf
          /\ rfUnsupported' = rfUnsupported \cup {req[c].model}
          /\ req' = [req EXCEPT ![c].phase = "second", ![c].rf = FALSE, ![c].tries = @ + 1]
          /\ UNCHANGED thinkUnsupported
       \/ /\ req[c].think
          /\ thinkUnsupported' = thinkUnsupported \cup {req[c].model}
          /\ req' = [req EXCEPT ![c].phase = "second", ![c].think = FALSE, ![c].tries = @ + 1]
          /\ UNCHANGED rfUnsupported
    /\ UNCHANGED <<clients, broker, gate, ledger>>

\* Context overflow or CUDA out-of-memory on the first attempt of ainvoke: the
\* trimmed prompt is re-emitted to the cloud fallback model, not recursively.
OomCascade(c) ==
    /\ req[c].phase = "connect" /\ req[c].entry = "ainvoke"
    /\ req' = [req EXCEPT ![c].phase = "rescue", ![c].tries = @ + 1]
    /\ UNCHANGED <<clients, broker, gate, memo, ledger>>

\* A local endpoint drops the connection before the first token: the flat
\* entry points fall over to the next model of the ladder, once.
FailOver(c) ==
    /\ req[c].phase = "connect" /\ req[c].entry \in {"stream", "byom"}
    /\ req[c].model \in Local /\ req[c].tries = 1
    /\ LET next == FailoverTarget(tier[c], req[c].model)
       IN /\ next # None
          /\ req' = [req EXCEPT ![c].model = next, ![c].tries = @ + 1]
    /\ UNCHANGED <<clients, broker, gate, memo, ledger>>

\* A delta of an open stream; the last one carries the usage, if the provider
\* reports any.
Chunk(c) ==
    /\ req[c].phase = "stream" /\ ~req[c].usage
    /\ \/ /\ req[c].chunks < MaxChunks
          /\ req' = [req EXCEPT ![c].chunks = @ + 1, ![c].from = @ \cup {req[c].model}]
          /\ UNCHANGED ledger
       \/ /\ req' = [req EXCEPT ![c].usage = TRUE]
          /\ used' = [used EXCEPT ![c] = @ + 1]
          /\ UNCHANGED charged
    /\ UNCHANGED <<clients, broker, gate, memo>>

\* The stream ends.
Finish(c) ==
    /\ req[c].phase = "stream"
    /\ Return(c, req[c].usage)

\* An error nothing above handles, at any moment of the exchange.
Break(c) ==
    /\ req[c].phase \in Sent
    /\ Raise(c, req[c].usage)

\* Mutant: no watchdog on an open stream.
ExpireUnopened(c) ==
    /\ req[c].phase \in Sent \ {"stream"}
    /\ Raise(c, req[c].usage)

\* Nothing comes back.  ainvoke's first attempt is cut off by wait_for, an open
\* local stream by the idle watchdog, everything else by the transport's own
\* timeout.
Expire(c) ==
    /\ req[c].phase \in Sent
    /\ Raise(c, req[c].usage)

-----------------------------------------------------------------------------
(* Clients                                                                  *)

\* A call starts.  The steps of one session's graph follow each other, so no
\* two brokered calls of a session are under way at once.
Begin(c) ==
    /\ stage[c] = "idle"
    /\ client[c] \in Brokered =>
        \A d \in Calls : (d # c /\ SessionOf[d] = SessionOf[c]
                           /\ client[d] \in Brokered) => stage[d] \in {"idle", "ended"}

Into(c) == IF client[c] = "planner" THEN "preparing" ELSE "guarded"

\* acquire_or_resolve: the big tier bypasses the lock.
Bypass(c) ==
    /\ Begin(c) /\ client[c] = "planner"
    /\ stage' = [stage EXCEPT ![c] = Into(c)]
    /\ tier' = [tier EXCEPT ![c] = "big"]
    /\ UNCHANGED <<client, holds, drafts, broker, req, gate, memo, ledger>>

AcquireNow(c) ==
    /\ Begin(c) /\ client[c] \in Brokered
    /\ TryAcquire(SessionOf[c])
    /\ holds' = [holds EXCEPT ![c] = TRUE]
    /\ stage' = [stage EXCEPT ![c] = Into(c)]
    /\ UNCHANGED <<client, tier, drafts, queue, roused, req, gate, memo, ledger>>

Contend(c) ==
    /\ Begin(c) /\ client[c] \in Brokered
    /\ ~Free(SessionOf[c])
    /\ stage' = [stage EXCEPT ![c] = "card"]
    /\ UNCHANGED <<client, holds, tier, drafts, broker, req, gate, memo, ledger>>

\* The operator cancels the call; no lock was taken.
AnswerCancel(c) ==
    /\ stage[c] = "card"
    /\ stage' = [stage EXCEPT ![c] = "ended"]
    /\ UNCHANGED <<client, holds, tier, drafts, broker, req, gate, memo, ledger>>

\* The operator switches to the cloud; silence and anything else mean the same.
AnswerSwitch(c) ==
    /\ stage[c] = "card"
    /\ stage' = [stage EXCEPT ![c] = Into(c)]
    /\ tier' = [tier EXCEPT ![c] = "big"]
    /\ UNCHANGED <<client, holds, drafts, broker, req, gate, memo, ledger>>

\* acquire_lock: one turn of its loop.
TakeOrSleep(c, q) ==
    LET s == SessionOf[c]
    IN IF Free(s)
       THEN /\ TryAcquire(s)
            /\ queue' = Without(q, s)
            /\ holds' = [holds EXCEPT ![c] = TRUE]
            /\ stage' = [stage EXCEPT ![c] = Into(c)]
            /\ roused' = roused \ {c}
       ELSE /\ queue' = q
            /\ stage' = [stage EXCEPT ![c] = "asleep"]
            /\ roused' = roused \ {c}
            /\ UNCHANGED <<holds, holder, event>>

AnswerWait(c) ==
    /\ stage[c] = "card"
    /\ LET s == SessionOf[c]
       IN TakeOrSleep(c, IF InSeq(s, queue) \/ holder = s THEN queue ELSE Append(queue, s))
    /\ UNCHANGED <<client, tier, drafts, req, gate, memo, ledger>>

Wake(c) ==
    /\ stage[c] = "asleep" /\ c \in roused
    /\ TakeOrSleep(c, queue)
    /\ UNCHANGED <<client, tier, drafts, req, gate, memo, ledger>>

\* The planner narrates its reasoning before the draft: a free-form stream,
\* before the try that guards the lock.
Reasoning(c) ==
    /\ client[c] = "planner" /\ stage[c] = "preparing"
    /\ Order[tier[c]][1] \notin Native
    /\ Issue(c, "stream", FALSE, tier[c])
    /\ stage' = [stage EXCEPT ![c] = "reasoning"]
    /\ UNCHANGED <<client, holds, tier, drafts, broker, gate, memo>>

\* One draft of the plan: the native thinking stream, or ainvoke in JSON mode.
Draft(c) ==
    /\ client[c] = "planner" /\ drafts[c] < MaxDrafts
    /\ stage[c] \in {"preparing", "ready", "guarded"} /\ req[c].phase = "none"
    /\ stage' = [stage EXCEPT ![c] = "guarded"]
    /\ drafts' = [drafts EXCEPT ![c] = @ + 1]
    /\ \/ Issue(c, "ainvoke", TRUE, tier[c])
       \/ /\ Order[tier[c]][1] \in Native
          /\ \E rf \in BOOLEAN : Issue(c, "thinking", rf, tier[c])
    /\ UNCHANGED <<client, holds, tier, broker, gate, memo>>

\* The last draft was rejected too: the planner returns its errors.
GiveUp(c) ==
    /\ client[c] = "planner" /\ stage[c] = "guarded" /\ req[c].phase = "none"
    /\ drafts[c] = MaxDrafts
    /\ stage' = [stage EXCEPT ![c] = "ended"]
    /\ holds' = [holds EXCEPT ![c] = FALSE]
    /\ LetGo(c)
    /\ UNCHANGED <<client, tier, drafts, req, gate, memo, ledger>>

Summarize(c) ==
    /\ client[c] = "summarizer" /\ stage[c] = "guarded" /\ req[c].phase = "none"
    /\ Issue(c, "ainvoke", FALSE, tier[c])
    /\ UNCHANGED <<clients, broker, gate, memo>>

\* The other callers of the gateway use no broker.
Entry(role) == IF role = "complete" THEN "ainvoke" ELSE role

CallGateway(c) ==
    /\ Begin(c) /\ client[c] \notin Brokered
    /\ \E t \in Tiers, rf \in BOOLEAN :
        /\ tier' = [tier EXCEPT ![c] = t]
        /\ Issue(c, Entry(client[c]), rf, t)
    /\ stage' = [stage EXCEPT ![c] = "direct"]
    /\ UNCHANGED <<client, holds, drafts, broker, gate, memo>>

\* Stop.  Only the region under the planner's and the summarizer's try gives
\* the lock back; a request's slot and its account are settled in any case.
Cancel(c) ==
    /\ stage[c] \notin {"idle", "ended"}
    /\ Settle(c, req[c].usage)
    /\ stage' = [stage EXCEPT ![c] = "ended"]
    /\ holds' = [holds EXCEPT ![c] = FALSE]
    /\ IF stage[c] = "guarded"
       THEN LetGo(c)
       ELSE /\ roused' = roused \ {c}
            /\ UNCHANGED <<holder, event, queue>>
    /\ UNCHANGED <<client, tier, drafts, memo>>

-----------------------------------------------------------------------------
Next ==
    \E c \in Calls :
        \/ Bypass(c) \/ AcquireNow(c) \/ Contend(c)
        \/ AnswerCancel(c) \/ AnswerSwitch(c) \/ AnswerWait(c) \/ Wake(c)
        \/ Reasoning(c) \/ Draft(c) \/ GiveUp(c) \/ Summarize(c) \/ CallGateway(c)
        \/ Enqueue(c) \/ Admit(c) \/ Refuse(c) \/ Accept(c) \/ Strip(c) \/ OomCascade(c)
        \/ FailOver(c) \/ Chunk(c) \/ Finish(c) \/ Break(c) \/ Expire(c)
        \/ Cancel(c)

\* The semaphore serves its queue and the time limits fire; nothing is assumed
\* of the providers, the operator or the waiters for the lock.
Fairness == \A c \in Calls : WF_vars(Enqueue(c)) /\ WF_vars(Admit(c)) /\ WF_vars(Expire(c))

Spec == Init /\ [][Next]_vars /\ Fairness

-----------------------------------------------------------------------------
(* Properties                                                               *)

\* Two sessions are never both inside a region that believes it holds the
\* local model: whoever's decision says holds_lock is of the session on record.
LockExcludes == \A c \in Calls : holds[c] => holder = SessionOf[c]

\* No wake-up is lost between the failed attempt of a waiter, its wait on the
\* event, the release and the next acquisition that clears the event again:
\* while the model is free no waiter is left asleep.
NoSleepingWaiter ==
    holder = None => \A c \in Asleep : c \in roused

\* The lock on the local model is exclusive and no wake-up of it is lost.
LockIsSafe == LockExcludes /\ NoSleepingWaiter

\* Retries, cascade, failover, stalls and aborts lose no usage report and
\* enter none twice: once a request is over its call has been charged for
\* exactly what the providers reported.
UsageIsCharged ==
    \A c \in Calls : (client[c] # "byom" /\ req[c].phase = "none")
                        => charged[c] = used[c]

\* The four ways of repeating a request do not add up: a request reaches the
\* providers at most twice, and every delta a reader has seen of one answer
\* comes from the same model.
OneAnswerOneModel ==
    \A c \in Calls : req[c].tries <= 2 /\ Cardinality(req[c].from) <= 1

\* One answer, paid once: a request is repeated at most once, its reader sees
\* one model's words, and its call is charged for what was used.
AnsweredAndPaidOnce == OneAnswerOneModel /\ UsageIsCharged

\* A mute provider, a stalled stream or a full gate delays a request but never
\* keeps it: every request made of the gateway returns or raises.
RequestsEnd == \A c \in Calls : req[c].phase # "none" ~> req[c].phase = "none"

=============================================================================
