------------------------------- MODULE Shell -------------------------------
(***************************************************************************)
(* A persistent interactive shell session and the commands run in it       *)
(* (core/pty_session.py; api/devcontainer_bridge.py and the session        *)
(* tunnel of api/websocket_manager.py).  Two transports carry the same     *)
(* protocol:                                                               *)
(*   "pty"     a reader thread drains a local terminal into a bounded      *)
(*             queue and blocks when it is full;                           *)
(*   "bridge"  the editor host sends chunks over the socket into a bounded *)
(*             queue of the connection manager, which never blocks: it     *)
(*             asks the host to pause at the high-water mark, to resume at *)
(*             the low-water mark, and drops a chunk when it is full.      *)
(* A demux task takes the queue apart: output goes to the stream a         *)
(* consumer reads, a command's end marker resolves the future the pending  *)
(* run() waits on.  A run may give up at its timeout and the session stays *)
(* usable; the session is torn down by its owner, by the shell's own exit, *)
(* or by the loss of the host's socket.                                    *)
(*                                                                         *)
(* Abstractions: a chunk holds output or one whole end marker (the framer  *)
(* holds back a marker that is split over chunks, but passes a boundary    *)
(* line that is split after the marker on as output, so that its exit code *)
(* is lost); an exit code is named by the command it belongs to; the item  *)
(* a blocked reader holds is still counted in the terminal's buffer.       *)
(***************************************************************************)
EXTENDS Naturals, Sequences

CONSTANTS Transports,  \* transports a session may use, {"pty", "bridge"}
          MaxCmds,     \* commands run in the session
          MaxOut,      \* output chunks a command may print
          MaxWire,     \* chunks the terminal or the socket holds
          RawCap,      \* _QUEUE_MAXSIZE, _DEVC_SESSION_QUEUE_CAPACITY
          HighWater,   \* _DEVC_SESSION_QUEUE_HIGH_WATER
          LowWater,    \* _DEVC_SESSION_QUEUE_LOW_WATER
          OutCap       \* size of the stream's queue

ASSUME ShellBounds ==
    /\ MaxCmds \in Nat /\ MaxOut \in Nat /\ MaxWire \in Nat \ {0}
    /\ LowWater \in Nat /\ HighWater \in LowWater + 1 .. RawCap
    /\ RawCap \in Nat /\ OutCap \in Nat \ {0}

VARIABLES kind,     \* the session's transport
          phase,    \* "opening", "open", "closing" or "gone"
          proc,     \* the shell: still to be opened, alive, the commands written to it,
                    \* the output of the first one printed so far
          wire,     \* what the shell printed and the session has not read
          raw,      \* the queue into the demux
          reg,      \* bridge: the manager still has the session's queue
          out,      \* the queue out of the demux, read by stream()
          demux,    \* "get", "put" or "ended"
          hold,     \* the item the demux works on
          paused,   \* bridge: the manager's mark that the host was told to pause
          told,     \* bridge: the host holds its output back
          flow,     \* bridge: pause and resume frames on their way
          linked,   \* bridge: the host's socket is up
          pending,  \* the command whose future is _pending, 0 for None
          sent,     \* commands run so far
          waits,    \* the command a caller is waiting for, 0 for none
          got,      \* per command, the command whose exit code run() returned
          late,     \* commands whose run() timed out
          consumer  \* "reading" or "ended": the loop over stream()
shellVars == <<kind, phase, proc, wire, raw, reg, out, demux, hold, paused, told, flow,
               linked, pending, sent, waits, got, late, consumer>>

Cmds == 1 .. MaxCmds
Out == [k |-> "out", c |-> 0]
Mark(c) == [k |-> "mark", c |-> c]
Eof == [k |-> "eof", c |-> 0]
Exit == [k |-> "exit", c |-> 0]
Opened == [k |-> "opened", c |-> 0]
Refused == [k |-> "refused", c |-> 0]

demuxVars == <<raw, out, demux, hold>>
flowVars == <<paused, told, flow, linked>>
runVars == <<pending, sent, waits, got, late>>

Dead == [asked |-> FALSE, alive |-> FALSE, cmds |-> <<>>, printed |-> 0]

(* Evict one item if the queue is full, then put the end of the stream. *)
ForceEof(q, cap) == Append(IF Len(q) = cap THEN Tail(q) ELSE q, Eof)

(***************************************************************************)
(* Opening.  A local session exists once its shell was spawned; a bridged  *)
(* one registers its queue, asks the host and waits for its answer.        *)
(***************************************************************************)
ShellInit ==
    /\ kind \in Transports
    /\ phase = IF kind = "pty" THEN "open" ELSE "opening"
    /\ proc = [asked |-> kind = "bridge", alive |-> kind = "pty", cmds |-> <<>>, printed |-> 0]
    /\ wire = <<>> /\ raw = <<>> /\ out = <<>> /\ flow = <<>>
    /\ reg = (kind = "bridge")
    /\ demux = (IF kind = "pty" THEN "get" ELSE "ended") /\ hold = Eof
    /\ paused = FALSE /\ told = FALSE /\ linked = TRUE
    /\ pending = 0 /\ sent = 0 /\ waits = 0
    /\ got = [c \in Cmds |-> 0] /\ late = {}
    /\ consumer = "reading"

(* The host answers the request to open; only a live shell prints. *)
HostOpens ==
    /\ proc.asked /\ linked
    /\ \E ok \in BOOLEAN :
         /\ wire' = Append(wire, IF ok THEN Opened ELSE Refused)
         /\ proc' = [proc EXCEPT !.alive = ok, !.asked = FALSE]
    /\ UNCHANGED <<kind, phase, reg, demuxVars, flowVars, runVars, consumer>>

(* Drop the queue's bookkeeping; whoever reads the queue finds its end. *)
UnregisterSession == /\ reg' = FALSE
                     /\ paused' = FALSE
                     /\ raw' = IF reg THEN ForceEof(raw, RawCap) ELSE raw

(* The answer resolves the waiter; a refusal tears the queue down. *)
OpenAnswered ==
    /\ kind = "bridge" /\ linked /\ wire # <<>> /\ Head(wire) \in {Opened, Refused}
    /\ wire' = Tail(wire)
    /\ \/ /\ phase = "opening" /\ Head(wire) = Opened
          /\ phase' = "open" /\ demux' = "get"
          /\ UNCHANGED <<reg, paused, raw>>
       \/ /\ phase = "opening" /\ Head(wire) = Refused
          /\ phase' = "gone" /\ UnregisterSession
          /\ UNCHANGED demux
       \/ /\ phase # "opening"   \* unknown session_ref
          /\ UNCHANGED <<phase, demux, reg, paused, raw>>
    /\ UNCHANGED <<kind, proc, out, hold, told, flow, linked, runVars, consumer>>

OpenTimesOut ==
    /\ kind = "bridge" /\ phase = "opening"
    /\ phase' = "gone" /\ UnregisterSession
    /\ UNCHANGED <<kind, proc, wire, out, demux, hold, told, flow, linked, runVars, consumer>>

(***************************************************************************)
(* Commands.  run() makes a new future the pending one and writes the      *)
(* command; giving up leaves the command running in the shell.             *)
(***************************************************************************)
Run ==
    /\ phase = "open" /\ waits = 0 /\ sent < MaxCmds
    /\ sent' = sent + 1 /\ waits' = sent' /\ pending' = sent'
    /\ proc' = IF linked /\ proc.alive
               THEN [proc EXCEPT !.cmds = Append(@, sent')] ELSE proc
    /\ UNCHANGED <<kind, phase, wire, reg, demuxVars, flowVars, got, late, consumer>>

(* Only the bridged session forgets the future of a run that gave up. *)
RunTimesOut ==
    /\ waits # 0
    /\ waits' = 0 /\ late' = late \cup {waits}
    /\ pending' = IF kind = "bridge" THEN 0 ELSE pending
    /\ UNCHANGED <<kind, phase, proc, wire, reg, demuxVars, flowVars, sent, got, consumer>>

(* A marker resolves whatever future is pending, unless it is done. *)
Resolve(code) ==
    /\ pending' = 0
    /\ IF pending # 0 /\ pending = waits
       THEN waits' = 0 /\ got' = [got EXCEPT ![pending] = code]
       ELSE UNCHANGED <<waits, got>>
    /\ UNCHANGED <<sent, late>>

(***************************************************************************)
(* The shell prints a command's output, then its end marker.  A full       *)
(* buffer, or a host told to pause, blocks it.                             *)
(***************************************************************************)
MayPrint == proc.alive /\ Len(wire) < MaxWire /\ linked /\ (kind = "pty" \/ ~told)

EmitChunk ==
    /\ MayPrint /\ proc.cmds # <<>> /\ proc.printed < MaxOut
    /\ wire' = Append(wire, Out)
    /\ proc' = [proc EXCEPT !.printed = @ + 1]
    /\ UNCHANGED <<kind, phase, reg, demuxVars, flowVars, runVars, consumer>>

\* drain_boundaries finds the boundary line in the buffer, or keeps a suffix
\* that may begin the marker: a chunk that ends among the digits has neither.
Complete ==
    /\ MayPrint /\ proc.cmds # <<>>
    /\ \E splitInCode \in BOOLEAN :
           wire' = Append(wire, IF splitInCode THEN Out ELSE Mark(Head(proc.cmds)))
    /\ proc' = [proc EXCEPT !.cmds = Tail(@), !.printed = 0]
    /\ UNCHANGED <<kind, phase, reg, demuxVars, flowVars, runVars, consumer>>

(* The shell ends by itself: end of file locally, an exit frame bridged. *)
ShellExits ==
    /\ proc.alive /\ linked
    /\ proc' = Dead
    /\ wire' = Append(wire, IF kind = "pty" THEN Eof ELSE Exit)
    /\ UNCHANGED <<kind, phase, reg, demuxVars, flowVars, runVars, consumer>>

(***************************************************************************)
(* Into the demux.  Locally the reader thread waits for room; on the       *)
(* bridge the receive loop puts or drops, and marks a crossing.            *)
(***************************************************************************)
ReaderOffers ==
    /\ kind = "pty" /\ phase # "gone" /\ wire # <<>> /\ Len(raw) < RawCap
    /\ raw' = Append(raw, Head(wire)) /\ wire' = Tail(wire)
    /\ UNCHANGED <<kind, phase, proc, reg, out, demux, hold, flowVars, runVars, consumer>>

(* The queue's size after a put or a get against the two marks; a crossing *)
(* is told to the host, if there is still a route to it.                   *)
FlowState(size) ==
    /\ paused' = (size >= HighWater \/ (paused /\ size > LowWater))
    /\ flow' = IF paused' # paused /\ linked THEN Append(flow, paused') ELSE flow

IsChunk(i) == i.k \in {"out", "mark"}

PushChunk ==
    /\ kind = "bridge" /\ linked /\ wire # <<>> /\ IsChunk(Head(wire))
    /\ wire' = Tail(wire)
    /\ IF reg /\ Len(raw) < RawCap
       THEN raw' = Append(raw, Head(wire)) /\ FlowState(Len(raw'))
       ELSE UNCHANGED <<raw, paused, flow>>   \* unknown session, or dropped
    /\ UNCHANGED <<kind, phase, proc, reg, out, demux, hold, told, linked, runVars, consumer>>

ExitFrame ==
    /\ kind = "bridge" /\ linked /\ wire # <<>> /\ Head(wire) = Exit
    /\ wire' = Tail(wire)
    /\ raw' = IF reg THEN ForceEof(raw, RawCap) ELSE raw
    /\ UNCHANGED <<kind, phase, proc, reg, out, demux, hold, flowVars, runVars, consumer>>

(* The host obeys a pause or resume frame. *)
HostFlow ==
    /\ linked /\ flow # <<>>
    /\ told' = Head(flow) /\ flow' = Tail(flow)
    /\ UNCHANGED <<kind, phase, proc, wire, reg, demuxVars, paused, linked, runVars, consumer>>

(***************************************************************************)
(* The demux.                                                              *)
(***************************************************************************)
\* Mutant: a marker that resolved a run may stay in the buffer and be found again.
DemuxGetsAgain ==
    /\ demux = "get" /\ raw # <<>> /\ Head(raw) # Eof
    /\ raw' \in {Tail(raw), IF Head(raw).k = "mark" THEN raw ELSE Tail(raw)}
    /\ hold' = Head(raw)
    /\ IF kind = "bridge" /\ reg THEN FlowState(Len(raw')) ELSE UNCHANGED <<paused, flow>>
    /\ IF Head(raw).k = "mark" THEN Resolve(Head(raw).c) ELSE UNCHANGED runVars
    /\ demux' = IF Head(raw).k = "mark" THEN "get" ELSE "put"
    /\ UNCHANGED <<kind, phase, proc, wire, reg, out, told, linked, consumer>>

(* Take an item off the queue: output is handed on, a marker ends a run. *)
DemuxGets ==
    /\ demux = "get" /\ raw # <<>> /\ Head(raw) # Eof
    /\ raw' = Tail(raw) /\ hold' = Head(raw)
    /\ IF kind = "bridge" /\ reg THEN FlowState(Len(raw')) ELSE UNCHANGED <<paused, flow>>
    /\ IF Head(raw).k = "mark" THEN Resolve(Head(raw).c) ELSE UNCHANGED runVars
    /\ demux' = IF Head(raw).k = "mark" THEN "get" ELSE "put"
    /\ UNCHANGED <<kind, phase, proc, wire, reg, out, told, linked, consumer>>

DemuxPuts ==
    /\ demux = "put" /\ Len(out) < OutCap
    /\ out' = Append(out, hold) /\ demux' = "get"
    /\ UNCHANGED <<kind, phase, proc, wire, raw, reg, hold, flowVars, runVars, consumer>>

(* The end of the queue: the local demux waits for room, the bridged one   *)
(* forces the end of the stream and gives its bookkeeping back.            *)
DemuxSeesEof ==
    /\ demux = "get" /\ raw # <<>> /\ Head(raw) = Eof
    /\ IF kind = "pty"
       THEN /\ Len(out) < OutCap
            /\ out' = Append(out, Eof) /\ raw' = Tail(raw)
            /\ UNCHANGED <<reg, paused>>
       ELSE /\ out' = ForceEof(out, OutCap)
            /\ reg' = FALSE /\ paused' = FALSE /\ raw' = Tail(raw)
    /\ demux' = "ended"
    /\ UNCHANGED <<kind, phase, proc, wire, hold, told, flow, linked, runVars, consumer>>

ConsumerReads ==
    /\ consumer = "reading" /\ out # <<>>
    /\ out' = Tail(out)
    /\ consumer' = IF Head(out) = Eof THEN "ended" ELSE "reading"
    /\ UNCHANGED <<kind, phase, proc, wire, raw, reg, demux, hold, flowVars, runVars>>

(***************************************************************************)
(* Teardown.  The shell is killed and its terminal closed, or the host is  *)
(* told; the reader puts the end if there is room before it gives up; the  *)
(* owner waits for the demux, and cancels it when it stalls.               *)
(***************************************************************************)
SessionTeardown ==
    /\ phase = "open" /\ waits = 0
    /\ phase' = "closing"
    /\ \/ /\ kind = "pty"
          /\ proc' = Dead /\ wire' = <<>>
          /\ \/ Len(raw) < RawCap /\ raw' = Append(raw, Eof)
             \/ UNCHANGED raw
       \/ /\ kind = "bridge"
          /\ proc' = IF linked THEN Dead ELSE proc
          /\ wire' = IF linked /\ proc.alive THEN Append(wire, Exit) ELSE wire
          /\ UNCHANGED raw
    /\ UNCHANGED <<kind, reg, out, demux, hold, flowVars, runVars, consumer>>

DemuxJoined ==
    /\ phase = "closing" /\ demux = "ended"
    /\ phase' = "gone"
    /\ UNCHANGED <<kind, proc, wire, reg, demuxVars, flowVars, runVars, consumer>>

DemuxCancelled ==
    /\ phase = "closing" /\ demux # "ended"
    /\ phase' = "gone" /\ demux' = "ended"
    /\ out' = ForceEof(out, OutCap)
    /\ IF kind = "bridge" THEN UnregisterSession ELSE UNCHANGED <<reg, paused, raw>>
    /\ UNCHANGED <<kind, proc, wire, hold, told, flow, linked, runVars, consumer>>

(* The host's socket is lost: its frames go with it, the reap wakes the    *)
(* opener and ends the queue.                                              *)
LoseHost ==
    /\ kind = "bridge" /\ linked
    /\ linked' = FALSE /\ wire' = <<>> /\ flow' = <<>>
    /\ phase' = IF phase = "opening" THEN "gone" ELSE phase
    /\ UnregisterSession
    /\ UNCHANGED <<kind, proc, out, demux, hold, told, runVars, consumer>>

ShellNext ==
    \/ HostOpens \/ OpenAnswered \/ OpenTimesOut \/ Run \/ RunTimesOut
    \/ EmitChunk \/ Complete \/ ShellExits
    \/ ReaderOffers \/ PushChunk \/ ExitFrame \/ HostFlow
    \/ DemuxGets \/ DemuxPuts \/ DemuxSeesEof \/ ConsumerReads
    \/ SessionTeardown \/ DemuxJoined \/ DemuxCancelled \/ LoseHost

ShellSpec == ShellInit /\ [][ShellNext]_shellVars

(***************************************************************************)
(* Properties.                                                             *)
(***************************************************************************)
(* run() never returns the code of a later command, and returns the code   *)
(* of an earlier one only once some run before it gave up: until a timeout *)
(* command and answer stay in step (_resolve, the end markers).            *)
CodesLagOnlyAfterTimeout ==
    \A c \in Cmds : got[c] # 0 =>
        got[c] = c \/ (got[c] < c /\ \E t \in late : t < c)

(* Whoever reads stream() finds its end once the session is gone, whatever *)
(* queue was full when it went (_teardown, _force_out_eof, the demux's     *)
(* finally clause).                                                        *)
ReaderIsReleased ==
    phase = "gone" /\ demux = "ended" /\ sent > 0 =>
        consumer = "ended" \/ \E i \in DOMAIN out : out[i] = Eof

(* A terminal session answers a command with the code of an earlier one    *)
(* only after a timeout, and a reader finds its end (pty_session.py,       *)
(* devcontainer_bridge.py).                                                *)
ShellStaysInStep == CodesLagOnlyAfterTimeout /\ ReaderIsReleased

=============================================================================
