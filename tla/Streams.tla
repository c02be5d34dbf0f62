------------------------------ MODULE Streams ------------------------------
(***************************************************************************)
(* The streams a session pours into the IDE beside its coding graph: chat   *)
(* answers, replies in the analyst pane, inline edits and tool chips        *)
(* (core/task_service.py, agents/inline_edit.py, the handlers of main.py    *)
(* and the broadcasts of api/websocket_manager.py).  Each is a task of its  *)
(* own: it prepares, streams coalesced deltas, and closes its stream with   *)
(* one end frame.  Stop and Esc cancel a task; the CancelledError surfaces  *)
(* at the await the task is in.  Text is counted, not spelled: the answer   *)
(* is a sequence of deltas and every holder has a prefix of it.             *)
(***************************************************************************)
EXTENDS Naturals, Sequences, FiniteSets

CONSTANTS
    Runners,     \* the tasks
    KindOf,      \* Runners -> {"chat", "natt", "edit", "chip"}
    KeyOf,       \* Runners -> the id the task is registered under: the session
                 \* for a submitted turn, the connection for the analyst
    MemOf,       \* Runners -> the key of its short-term memory: the session id,
                 \* or natt: and the connection id
    Connection,  \* the id of the socket
    RetryOf,     \* Runners -> the chip a chip replays, or the runner itself
    MaxDeltas,   \* bound on the deltas of one answer
    MaxHistory,  \* _MAX_HISTORY_MESSAGES
    MaxCancels,  \* bound on the cancellations of one task
    MaxSpawned   \* bound on the tasks of one behaviour

Keys == {KeyOf[r] : r \in Runners}
Memories == {MemOf[r] : r \in Runners} \cup {Connection}
StreamsAssumption ==
    /\ KindOf \in [Runners -> {"chat", "natt", "edit", "chip"}]
    /\ RetryOf \in [Runners -> Runners]
    /\ \A r \in Runners : RetryOf[r] # r => KindOf[r] = "chip"
    /\ {MaxDeltas, MaxHistory, MaxCancels, MaxSpawned} \subseteq Nat

VARIABLES
    run,     \* runner -> its locals and what the client got from it
    active,  \* _active_tasks: key -> runner
    edits,   \* _inline_edits: the edits that can be cancelled
    specs,   \* _tool_call_registry
    memory   \* _conversations: key -> messages, oldest first

streamVars == <<run, active, edits, specs, memory>>

Nobody == "nobody"
Steps == {"none", "spawned", "intent", "prepare", "stream", "send", "notice", "close", "done"}
Awaiting == Steps \ {"none", "done"}
Fresh == [step |-> "none", made |-> 0, buf |-> 0, kept |-> 0, shown |-> 0,
          failed |-> FALSE, cancel |-> FALSE, cancels |-> 0,
          opened |-> FALSE, ended |-> 0, remembered |-> FALSE, cut |-> "none"]

StreamsInit ==
    /\ run = [r \in Runners |-> Fresh]
    /\ active = [k \in Keys |-> Nobody]
    /\ edits = {} /\ specs = {}
    /\ memory = [k \in Memories |-> << >>]

-----------------------------------------------------------------------------
Is(r, kind) == KindOf[r] = kind
Key(r) == KeyOf[r]

\* _append_history, for the two messages of a turn.
Bounded(messages) ==
    SubSeq(messages, IF Len(messages) > MaxHistory
                     THEN Len(messages) - MaxHistory + 1 ELSE 1, Len(messages))
AppendHistory(k, r) ==
    memory' = [memory EXCEPT ![k] = Bounded(@ \o << <<"user", r>>, <<"assistant", r>> >>)]

\* _pop_active_task_if_current, run when the task is done.
PopIfCurrent(r) ==
    active' = [active EXCEPT ![Key(r)] = IF @ = r THEN Nobody ELSE @]

Becomes(r, changes) == run' = [run EXCEPT ![r] = changes]
At(r, step) == run[r].step = step
Unhit(r) == ~run[r].cancel

-----------------------------------------------------------------------------
\* Spawning.

Spawns(r, kind) ==
    /\ At(r, "none") /\ Is(r, kind)
    /\ Cardinality({q \in Runners : ~At(q, "none")}) < MaxSpawned
    /\ Becomes(r, [run[r] EXCEPT !.step = "spawned"])
    /\ UNCHANGED <<edits, specs, memory>>

\* submit_task registers the runner in the same step that creates it; the
\* handlers of the socket only create the task.
SpawnChat(r) ==
    /\ active[Key(r)] = Nobody
    /\ Spawns(r, "chat")
    /\ active' = [active EXCEPT ![Key(r)] = r]

SpawnAnalyst(r) == Spawns(r, "natt") /\ UNCHANGED active
SpawnEdit(r) == Spawns(r, "edit") /\ UNCHANGED active
SpawnTrackedBash(r) == RetryOf[r] = r /\ Spawns(r, "chip") /\ UNCHANGED active
SpawnRetry(r) == RetryOf[r] # r /\ Spawns(r, "chip") /\ UNCHANGED active

\* The first step of the task, up to its first await: the analyst's runner,
\* the inline edit and the tracked tool register themselves.
Begins(r, kind) ==
    /\ At(r, "spawned") /\ Unhit(r) /\ Is(r, kind)
    /\ Becomes(r, [run[r] EXCEPT !.step = "prepare"])
    /\ UNCHANGED memory

BeginChat(r) ==
    /\ At(r, "spawned") /\ Unhit(r) /\ Is(r, "chat")
    /\ Becomes(r, [run[r] EXCEPT !.step = "intent"])
    /\ UNCHANGED <<active, edits, specs, memory>>

\* The intent of the prompt, by the small model when the words leave it open;
\* here a question (a coding turn is the graph's, module Session).
ClassifyIntent(r) ==
    /\ At(r, "intent") /\ Unhit(r)
    /\ Becomes(r, [run[r] EXCEPT !.step = "prepare"])
    /\ UNCHANGED <<active, edits, specs, memory>>
BeginAnalyst(r) ==
    /\ Begins(r, "natt")
    /\ active' = [active EXCEPT ![Key(r)] = r]
    /\ UNCHANGED <<edits, specs>>
BeginEdit(r) ==
    /\ Begins(r, "edit")
    /\ edits' = edits \cup {r}
    /\ UNCHANGED <<active, specs>>
ExecuteTrackedTool(r) ==
    /\ Begins(r, "chip")
    /\ specs' = specs \cup {r}
    /\ UNCHANGED <<active, edits>>

BeginTrackedBash(r) == RetryOf[r] = r /\ ExecuteTrackedTool(r)

\* retry_tool_call replays a call it still has the spec of, as a new chip.
RetryToolCall(r) ==
    /\ RetryOf[r] # r
    /\ IF RetryOf[r] \in specs
       THEN ExecuteTrackedTool(r)
       ELSE /\ At(r, "spawned")
            /\ Becomes(r, [run[r] EXCEPT !.step = "done"])
            /\ UNCHANGED <<active, edits, specs, memory>>

\* What is awaited before the try block: the retrieval of a chat turn, the context of the analyst, the start frame of an edit or chip.
Opens(r, kind) ==
    /\ At(r, "prepare") /\ Unhit(r) /\ Is(r, kind)
    /\ Becomes(r, [run[r] EXCEPT !.step = "stream", !.opened = kind \in {"edit", "chip"}])
    /\ UNCHANGED <<active, edits, specs, memory>>

RetrieveForChat(r) == Opens(r, "chat")
AssembleForAnalyst(r) == Opens(r, "natt")
InlineEditStart(r) == Opens(r, "edit")
ToolStart(r) == Opens(r, "chip")

-----------------------------------------------------------------------------
\* Streaming.

\* A delta joins the coalescing buffer.
Buffers(r, kind) ==
    /\ At(r, "stream") /\ Unhit(r) /\ Is(r, kind)
    /\ run[r].made < MaxDeltas /\ ~run[r].failed
    /\ Becomes(r, [run[r] EXCEPT !.made = @ + 1, !.buf = @ + 1])
    /\ UNCHANGED <<active, edits, specs, memory>>

ChatDelta(r) == Buffers(r, "chat")
AnalystDelta(r) == Buffers(r, "natt")
EditDelta(r) == Buffers(r, "edit")

\* A command answers once, with all of its output.
CommandOutput(r) == run[r].made = 0 /\ Buffers(r, "chip")

\* The window elapsed, the buffer is full, or the source is exhausted: the
\* buffer is kept for the history and handed to the socket.
Flush(r) ==
    /\ At(r, "stream") /\ Unhit(r) /\ run[r].buf > 0
    /\ Becomes(r, [run[r] EXCEPT !.step = "send", !.kept = @ + run[r].buf, !.buf = 0])
    /\ UNCHANGED <<active, edits, specs, memory>>

Sent(r) ==
    /\ At(r, "send") /\ Unhit(r)
    /\ Becomes(r, [run[r] EXCEPT !.step = "stream", !.shown = run[r].kept])
    /\ UNCHANGED <<active, edits, specs, memory>>

Drained(r, kind) == At(r, "stream") /\ Unhit(r) /\ run[r].buf = 0 /\ Is(r, kind)

\* A chat answer that is complete enters the history; an empty one becomes a
\* notice.
FinishChat(r) ==
    /\ Drained(r, "chat")
    /\ LET remembers == run[r].kept > 0
       IN /\ IF remembers THEN AppendHistory(MemOf[r], r) ELSE UNCHANGED memory
          /\ Becomes(r, [run[r] EXCEPT !.step = IF remembers THEN "close" ELSE "notice",
                                       !.remembered = remembers])
    /\ UNCHANGED <<active, edits, specs>>

FinishAnalyst(r) ==
    /\ Drained(r, "natt") /\ run[r].kept > 0
    /\ Becomes(r, [run[r] EXCEPT !.step = "close"])
    /\ UNCHANGED <<active, edits, specs, memory>>

FinishEdit(r) ==
    /\ Drained(r, "edit")
    /\ Becomes(r, [run[r] EXCEPT !.step = "close"])
    /\ edits' = edits \ {r}
    /\ UNCHANGED <<active, specs, memory>>

FinishTool(r) ==
    /\ Drained(r, "chip")
    /\ Becomes(r, [run[r] EXCEPT !.step = "close"])
    /\ UNCHANGED <<active, edits, specs, memory>>

Fails(r, kind, next) ==
    /\ At(r, "stream") /\ Unhit(r) /\ ~run[r].failed /\ Is(r, kind)
    /\ Becomes(r, [run[r] EXCEPT !.failed = TRUE, !.buf = 0, !.step = next])
    /\ UNCHANGED <<active, edits, specs, memory>>

\* The model fails: a chat answer is not remembered and a notice is sent; an
\* edit aborts, as it does on a syntax break; a chip shows the error.
FailChat(r) == Fails(r, "chat", "notice")
FailEdit(r) == Fails(r, "edit", "notice")
FailTool(r) == Fails(r, "chip", "notice")

\* The analyst's notice, of a failure or of an empty answer, is itself a chunk
\* of the reply.
AnalystNotice(r) ==
    /\ At(r, "stream") /\ Unhit(r) /\ ~run[r].failed /\ Is(r, "natt")
    /\ Becomes(r, [run[r] EXCEPT !.failed = TRUE, !.buf = 0, !.kept = @ + 1, !.step = "send"])
    /\ UNCHANGED <<active, edits, specs, memory>>

-----------------------------------------------------------------------------
\* Cancellation.

Signal(r) ==
    /\ run[r].cancels < MaxCancels /\ Unhit(r)
    /\ run[r].step \in Awaiting
    /\ run' = [run EXCEPT ![r].cancel = TRUE, ![r].cancels = @ + 1]
    /\ UNCHANGED <<active, edits, specs, memory>>

\* client_abort_mesh: abort_session cancels the task registered under the id.
Stop(k) == active[k] # Nobody /\ Signal(active[k])

\* client_inline_edit_cancel.
CancelInlineEdit(r) == r \in edits /\ Signal(r)

Dies(r) ==
    /\ Becomes(r, [run[r] EXCEPT !.step = "done", !.made = 0, !.cancel = FALSE, !.cut = run[r].step])
    /\ PopIfCurrent(r)

\* Before the try block: nothing is closed, and an edit stays registered.
HitEarly(r) ==
    /\ run[r].cancel
    /\ \/ run[r].step \in {"spawned", "intent"} /\ Dies(r)
       \/ /\ At(r, "prepare")
          /\ \E out \in {FALSE, Is(r, "edit")} :   \* the start frame may be out
                Becomes(r, [run[r] EXCEPT !.step = "done", !.made = 0, !.cancel = FALSE,
                                          !.cut = "prepare", !.opened = out])
          /\ PopIfCurrent(r)
    /\ UNCHANGED <<edits, specs, memory>>

\* Faulty variant of HitStreaming: Stop forgets the partial answer.
HitStreamingForgets(r) ==
    /\ run[r].cancel
    /\ run[r].step \in {"stream", "send"}
    /\ Becomes(r, [run[r] EXCEPT !.step = "notice", !.cancel = FALSE, !.buf = 0])
    /\ UNCHANGED <<active, edits, specs, memory>>

\* While streaming: what was flushed is persisted, the rest of the buffer is
\* lost; the frame being sent may be out or not.
HitStreaming(r) ==
    /\ run[r].cancel
    /\ run[r].step \in {"stream", "send"}
    /\ \E out \in {run[r].shown, IF At(r, "send") THEN run[r].kept ELSE run[r].shown} :
          LET remembers == Is(r, "chat") /\ run[r].kept > 0
          IN /\ IF remembers THEN AppendHistory(MemOf[r], r) ELSE UNCHANGED memory
             /\ Becomes(r, [run[r] EXCEPT
                   !.step = "notice", !.cancel = FALSE, !.buf = 0, !.shown = out,
                   !.remembered = remembers])
    /\ UNCHANGED <<active, edits, specs>>

\* The abort marker, the ABORT delta of an edit, or the failure's notice.
Noticed(r) ==
    /\ At(r, "notice") /\ Unhit(r)
    /\ Becomes(r, [run[r] EXCEPT !.step = "close"])
    /\ edits' = edits \ {r}
    /\ UNCHANGED <<active, specs, memory>>

\* A second cancellation while the marker is being sent: the finally clause
\* of a chat answer or an edit still closes, the analyst's reply has none.
HitNotice(r) ==
    /\ run[r].cancel /\ At(r, "notice")
    /\ IF Is(r, "natt")
       THEN Dies(r)
       ELSE /\ Becomes(r, [run[r] EXCEPT !.step = "close", !.cancel = FALSE])
            /\ UNCHANGED active
    /\ edits' = edits \ {r}
    /\ UNCHANGED <<specs, memory>>

\* A cancellation while the end frame is being sent.
HitClosing(r) ==
    /\ run[r].cancel /\ At(r, "close")
    /\ Dies(r)
    /\ UNCHANGED <<edits, specs, memory>>

EndsStream(r, kind) ==
    /\ At(r, "close") /\ Unhit(r) /\ Is(r, kind)
    /\ PopIfCurrent(r)
    /\ UNCHANGED <<edits, specs>>
Over(r) == [run[r] EXCEPT !.step = "done", !.made = 0, !.ended = @ + 1]

\* The end frame; the analyst's turn is persisted after it.
StreamEnd(r) == EndsStream(r, "chat") /\ Becomes(r, Over(r)) /\ UNCHANGED memory
NattStreamEnd(r) ==
    /\ EndsStream(r, "natt")
    /\ IF run[r].kept > 0 THEN AppendHistory(MemOf[r], r) ELSE UNCHANGED memory
    /\ Becomes(r, [Over(r) EXCEPT !.remembered = run[r].kept > 0])
InlineEditEnd(r) == EndsStream(r, "edit") /\ Becomes(r, Over(r)) /\ UNCHANGED memory
ToolResult(r) == EndsStream(r, "chip") /\ Becomes(r, Over(r)) /\ UNCHANGED memory

-----------------------------------------------------------------------------
\* Memory and connection.

\* Both events carry no session: the handlers pass the connection's id.
ClearConversation ==
    /\ memory[Connection] # << >>
    /\ memory' = [memory EXCEPT ![Connection] = << >>]
    /\ UNCHANGED <<run, active, edits, specs>>

\* restore_conversation: seed-if-absent.
RestoreConversation ==
    /\ memory[Connection] = << >>
    /\ memory' = [memory EXCEPT ![Connection] =
                      Bounded(<< <<"user", Nobody>>, <<"assistant", Nobody>> >>)]
    /\ UNCHANGED <<run, active, edits, specs>>

\* The socket drops: the cleanup hooks purge the registry of tool calls.
Disconnect ==
    /\ specs # {}
    /\ specs' = {}
    /\ UNCHANGED <<run, active, edits, memory>>

-----------------------------------------------------------------------------
Spawn(r) ==
    SpawnChat(r) \/ SpawnAnalyst(r) \/ SpawnEdit(r) \/ SpawnTrackedBash(r) \/ SpawnRetry(r)

Runs(r) ==
    \/ BeginChat(r) \/ ClassifyIntent(r) \/ BeginAnalyst(r) \/ BeginEdit(r) \/ BeginTrackedBash(r) \/ RetryToolCall(r)
    \/ RetrieveForChat(r) \/ AssembleForAnalyst(r) \/ InlineEditStart(r) \/ ToolStart(r)
    \/ ChatDelta(r) \/ AnalystDelta(r) \/ EditDelta(r) \/ CommandOutput(r)
    \/ Flush(r) \/ Sent(r)
    \/ FinishChat(r) \/ FinishAnalyst(r) \/ FinishEdit(r) \/ FinishTool(r)
    \/ FailChat(r) \/ AnalystNotice(r) \/ FailEdit(r) \/ FailTool(r)
    \/ HitEarly(r) \/ HitStreaming(r) \/ Noticed(r) \/ HitNotice(r) \/ HitClosing(r)
    \/ StreamEnd(r) \/ NattStreamEnd(r) \/ InlineEditEnd(r) \/ ToolResult(r)

StreamsNext ==
    \/ \E r \in Runners : Spawn(r) \/ Runs(r) \/ CancelInlineEdit(r)
    \/ \E k \in Keys : Stop(k)
    \/ ClearConversation \/ RestoreConversation \/ Disconnect

StreamsSpec == StreamsInit /\ [][StreamsNext]_streamVars

-----------------------------------------------------------------------------
\* Properties.

\* What the operator saw of an answer before it completed or was stopped is in
\* the conversation memory: no text is on the screen that the next turn does
\* not know of, however Stop interleaves with the coalescing buffer.
ScreenIsRemembered ==
    \A r \in Runners :
        (/\ Is(r, "chat") /\ run[r].step \in {"notice", "close", "done"}
         /\ ~run[r].failed /\ run[r].shown > 0)
            => run[r].remembered /\ run[r].shown <= run[r].kept

\* A task that is not cut off before its try block or inside its closing sends
\* exactly one end frame, on success, on failure and when stopped.
StreamsClose ==
    \A r \in Runners :
        /\ run[r].ended <= 1
        /\ (At(r, "done") /\ run[r].cut = "none" /\ RetryOf[r] = r) => run[r].ended = 1

\* The registry of cancellable edits and of running tasks only names tasks
\* that can still be cancelled, except an edit cut off at its start frame.
RegistriesAreCurrent ==
    /\ \A k \in Keys : active[k] # Nobody => run[active[k]].step \in Awaiting
    /\ \A r \in edits : run[r].step \in Awaiting \/ run[r].cut = "prepare"

\* What the operator saw of an answer is remembered, every stream that runs its
\* course is closed once, and the registries of running tasks name only tasks
\* that can still be stopped (task_service.py).
StreamsAreSound == ScreenIsRemembered /\ StreamsClose /\ RegistriesAreCurrent

=============================================================================
