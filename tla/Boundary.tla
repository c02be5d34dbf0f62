------------------------------ MODULE Boundary ------------------------------
(***************************************************************************)
(* The cross-boundary graph (core/boundary_graph.py, core/db.py) and the   *)
(* tool that queries it (tools/perception_tools.py): which files declare,  *)
(* handle, emit or mention each channel of the WebSocket and MCP           *)
(* contracts.  The first query builds the graph by one scan of the indexed *)
(* files; calls that come meanwhile await the same future.  A call may be  *)
(* cancelled (a Stop) at every await, a scan may fail, files change while  *)
(* it reads.                                                               *)
(*                                                                         *)
(* Abstractions: a file is a record of its side and directory; its text is *)
(* the set of channels it quotes.  A cancelled task that awaits a bare     *)
(* future cancels the future, as asyncio does.                             *)
(***************************************************************************)
EXTENDS Naturals, Sequences, FiniteSets

CONSTANTS Tracers,     \* calls of trace_cross_boundary
          BoundaryFiles, \* indexed files: [name, side, gateway, declares]
          Channels,    \* [name, seam, prefix]
          MaxSaves,    \* saves while calls run (bound)
          MaxStopped   \* calls that are cancelled (bound)

VARIABLES quotes,     \* channels each file quotes
          table,      \* boundary_edges
          inflight,   \* _inflight: the future's number, 0 for none
          futures,    \* state of each future created: "pending", "done", "failed", "cancelled"
          tracing,       \* [at, fut, left, found] of each tracer
          saves,      \* saves so far
          stopped     \* tracers cancelled from outside
boundaryVars == <<quotes, table, inflight, futures, tracing, saves, stopped>>

NewCall == [at |-> "idle", fut |-> 0, left |-> {}, found |-> {}]

SideOf(f) == f.side

(* The edge kind of a confirmed reference: the side and the prefix.        *)
Classify(ch, f) ==
    CASE f.declares -> "declares"
      [] ~f.declares /\ ch.seam = "mcp" -> IF f.gateway THEN "handles" ELSE "references"
      [] ~f.declares /\ ch.seam = "ws" /\ ch.prefix = "server" ->
             IF SideOf(f) = "extension" THEN "handles" ELSE "references"
      [] ~f.declares /\ ch.seam = "ws" /\ ch.prefix = "client" ->
             IF SideOf(f) = "core" THEN "handles"
             ELSE IF SideOf(f) = "extension" THEN "emits" ELSE "references"
      [] OTHER -> "references"

(* The channels of the contract that the file quotes.                      *)
Confirmed(f) == quotes[f] \cap Channels

EdgesOf(f) == {[file |-> f, channel |-> ch, kind |-> Classify(ch, f)] : ch \in Confirmed(f)}

BoundaryInit ==
    /\ quotes \in [BoundaryFiles -> {{}, Channels}]
    /\ table = {}
    /\ inflight = 0
    /\ futures = <<>>
    /\ tracing = [c \in Tracers |-> NewCall]
    /\ saves = 0
    /\ stopped = {}

CallGoes(c, r) == tracing' = [tracing EXCEPT ![c] = r]

(* _arun: build only when the project has no edge yet.                     *)
GetBoundaryEdges(c) ==
    /\ tracing[c].at = "idle"
    /\ CallGoes(c, [tracing[c] EXCEPT !.at = IF table = {} THEN "refresh" ELSE "trace"])
    /\ UNCHANGED <<quotes, table, inflight, futures, saves, stopped>>

(* Await the rebuild in flight, or own a new one.                          *)
RefreshBoundaryGraph(c) ==
    /\ tracing[c].at = "refresh"
    /\ IF inflight # 0
       THEN /\ CallGoes(c, [tracing[c] EXCEPT !.at = "await", !.fut = inflight])
            /\ UNCHANGED <<inflight, futures>>
       ELSE /\ futures' = Append(futures, "pending")
            /\ inflight' = Len(futures) + 1
            /\ CallGoes(c, [tracing[c] EXCEPT !.at = "scan", !.fut = Len(futures) + 1,
                                           !.left = BoundaryFiles])
    /\ UNCHANGED <<quotes, table, saves, stopped>>

(* One candidate is read in a thread and confirmed.                        *)
ReadCapped(c) == \E f \in tracing[c].left :
    /\ tracing[c].at = "scan"
    /\ CallGoes(c, [tracing[c] EXCEPT !.left = @ \ {f}, !.found = @ \cup EdgesOf(f)])
    /\ UNCHANGED <<quotes, table, inflight, futures, saves, stopped>>

(* The whole table is replaced in one transaction.                         *)
ReplaceBoundaryEdges(c) ==
    /\ tracing[c].at = "scan" /\ tracing[c].left = {}
    /\ table' = tracing[c].found
    /\ CallGoes(c, [tracing[c] EXCEPT !.at = "settle"])
    /\ UNCHANGED <<quotes, inflight, futures, saves, stopped>>

(* The end of the owner: a future a waiter has cancelled can take neither  *)
(* the result nor the exception any more.                                  *)
(* Mutant: a scan that fails settles nothing. *)
SettlesResultOnly(f, as) ==
    /\ inflight' = 0
    /\ futures' = IF futures[f] = "pending" /\ as = "done" THEN [futures EXCEPT ![f] = as] ELSE futures
Settles(f, as) ==
    /\ inflight' = 0
    /\ futures' = IF futures[f] = "pending" THEN [futures EXCEPT ![f] = as] ELSE futures

SetResult(c) ==
    /\ tracing[c].at = "settle"
    /\ Settles(tracing[c].fut, "done")
    /\ CallGoes(c, [tracing[c] EXCEPT !.at = IF futures[tracing[c].fut] = "pending" THEN "trace" ELSE "answered"])
    /\ UNCHANGED <<quotes, table, saves, stopped>>

(* The tool answers an error; so does every call that shares the future.   *)
ScanFails(c) ==
    /\ tracing[c].at = "scan"
    /\ Settles(tracing[c].fut, "failed")
    /\ CallGoes(c, [tracing[c] EXCEPT !.at = "answered"])
    /\ UNCHANGED <<quotes, table, saves, stopped>>

AwaitReturns(c) ==
    /\ tracing[c].at = "await" /\ futures[tracing[c].fut] # "pending"
    /\ CallGoes(c, [tracing[c] EXCEPT !.at = CASE futures[tracing[c].fut] = "done" -> "trace"
                                             [] futures[tracing[c].fut] = "failed" -> "answered"
                                             [] OTHER -> "killed"])
    /\ UNCHANGED <<quotes, table, inflight, futures, saves, stopped>>

TraceBoundary(c) ==
    /\ tracing[c].at = "trace"
    /\ CallGoes(c, [tracing[c] EXCEPT !.at = "answered", !.found = table])
    /\ UNCHANGED <<quotes, table, inflight, futures, saves, stopped>>

(* A Stop reaches the call at one of its awaits.  The owner leaves the     *)
(* registry but not its future, which is only settled on an Exception; a   *)
(* waiter takes the shared future down with it.                            *)
CancelTracer(c) ==
    /\ tracing[c].at \in {"refresh", "scan", "settle", "await", "trace"}
    /\ c \notin stopped /\ Cardinality(stopped) < MaxStopped
    /\ stopped' = stopped \cup {c}
    /\ CallGoes(c, [tracing[c] EXCEPT !.at = "killed"])
    /\ inflight' = IF tracing[c].at \in {"scan", "settle"} THEN 0 ELSE inflight
    /\ futures' = IF tracing[c].at = "await" /\ futures[tracing[c].fut] = "pending"
                  THEN [futures EXCEPT ![tracing[c].fut] = "cancelled"] ELSE futures
    /\ UNCHANGED <<quotes, table, saves>>

SaveQuotes == \E f \in BoundaryFiles, q \in {{}, Channels} :
    /\ saves < MaxSaves /\ quotes[f] # q
    /\ quotes' = [quotes EXCEPT ![f] = q]
    /\ saves' = saves + 1
    /\ UNCHANGED <<table, inflight, futures, tracing, stopped>>

TracerSteps(c) ==
    GetBoundaryEdges(c) \/ RefreshBoundaryGraph(c) \/ ReadCapped(c) \/ ReplaceBoundaryEdges(c)
        \/ SetResult(c) \/ ScanFails(c) \/ AwaitReturns(c) \/ TraceBoundary(c)

BoundaryNext ==
    \/ \E c \in Tracers : TracerSteps(c) \/ CancelTracer(c)
    \/ SaveQuotes

BoundarySpec == BoundaryInit /\ [][BoundaryNext]_boundaryVars

(***************************************************************************)
(* Properties.                                                             *)
(***************************************************************************)
OwnerStopped(c) == \E d \in stopped : d # c /\ tracing[d].fut = tracing[c].fut

(* A call that waits for another call's rebuild has a rebuild to wait for, *)
(* whether scans succeed or fail: the future it holds is settled, or its   *)
(* owner is still at work, unless a task that shares the future was        *)
(* stopped (boundary_graph.py:162).                                        *)
NoOrphanedWaiter == \A c \in Tracers :
    tracing[c].at = "await" /\ futures[tracing[c].fut] = "pending" =>
        \/ OwnerStopped(c)
        \/ \E d \in Tracers : tracing[d].at \in {"scan", "settle"} /\ tracing[d].fut = tracing[c].fut

=============================================================================
