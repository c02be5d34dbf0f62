---------------------------- MODULE Background ----------------------------
(***************************************************************************)
(* Background tasks (BackgroundTaskManager of tools/execution_tools.py and *)
(* the task tools): shell commands that outlive the tool call that spawned *)
(* them.  A manager keeps the process handles it spawned; the registry of  *)
(* entries belongs to the state and is shared by the managers, of which    *)
(* every resolution of the tools builds a new one.  A watcher waits for    *)
(* the end of each process; a stop signals it, polls for a grace period    *)
(* and kills it.  Watcher, stops and the processes themselves interleave.  *)
(*                                                                         *)
(* A command runs under a shell: the shell either becomes the command or   *)
(* waits for it as its child.  The watcher's wait ends when both are gone, *)
(* since the child holds the pipes.  The platform is POSIX.                *)
(***************************************************************************)
EXTENDS Naturals, FiniteSets

CONSTANTS BgTasks,    \* task ids
          Managers,   \* managers, one per resolution of the tools
          Roles,      \* roles that own tasks
          MaxStops    \* task_stop calls

VARIABLES entry,    \* the registry: [status, owner, out], NoEntry before the task exists
          maker,    \* the manager that spawned a task
          procs,    \* handles held: pairs <<manager, task>>
          shell,    \* the shell: "none", "runs", "traps" (ignores SIGTERM), "gone"
          child,    \* its child: "none", "runs", "gone"
          watch,    \* the watcher: "none", "waits", "reports", "done"
          span,     \* the timeline row: "none", "open", "closed"
          stop,     \* the stop call under way for a task: "none", "grace"
          answer,   \* what the last stop of a task answered
          stops     \* stop calls so far
bgVars == <<entry, maker, procs, shell, child, watch, span, stop, answer, stops>>

NoEntry == [status |-> "none", owner |-> "none", out |-> FALSE]

BgInit ==
    /\ entry = [t \in BgTasks |-> NoEntry] /\ maker = [t \in BgTasks |-> "none"]
    /\ procs = {}
    /\ shell = [t \in BgTasks |-> "none"] /\ child = [t \in BgTasks |-> "none"]
    /\ watch = [t \in BgTasks |-> "none"] /\ span = [t \in BgTasks |-> "none"]
    /\ stop = [t \in BgTasks |-> "none"] /\ answer = [t \in BgTasks |-> "none"]
    /\ stops = 0

Exited(t) == shell[t] = "gone"
PipesClosed(t) == shell[t] = "gone" /\ child[t] # "runs"

(***************************************************************************)
(* task_create.  Whether the command ignores the soft signal, and whether  *)
(* the shell stays in front of it, is the command's business.              *)
(***************************************************************************)
CreateTask(m, t, role, traps, front) ==
    /\ entry[t] = NoEntry
    /\ entry' = [entry EXCEPT ![t] = [status |-> "running", owner |-> role, out |-> FALSE]]
    /\ maker' = [maker EXCEPT ![t] = m]
    /\ procs' = procs \cup {<<m, t>>}
    /\ shell' = [shell EXCEPT ![t] = IF traps THEN "traps" ELSE "runs"]
    /\ child' = [child EXCEPT ![t] = IF front THEN "runs" ELSE "none"]
    /\ span' = [span EXCEPT ![t] = "open"]
    /\ watch' = [watch EXCEPT ![t] = "waits"]
    /\ UNCHANGED <<stop, answer, stops>>

(* The command ends by itself, child first. *)
CommandEnds(t) ==
    /\ shell[t] \in {"runs", "traps"}
    /\ shell' = [shell EXCEPT ![t] = "gone"]
    /\ child' = [child EXCEPT ![t] = IF @ = "runs" THEN "gone" ELSE @]
    /\ UNCHANGED <<entry, maker, procs, watch, span, stop, answer, stops>>

(* A child whose shell was killed runs on until it ends. *)
OrphanEnds(t) ==
    /\ shell[t] = "gone" /\ child[t] = "runs"
    /\ child' = [child EXCEPT ![t] = "gone"]
    /\ UNCHANGED <<entry, maker, procs, shell, watch, span, stop, answer, stops>>

(***************************************************************************)
(* _watch: the handle is dropped; a cancellation that was committed wins.  *)
(***************************************************************************)
\* Mutant: the watcher reports the exit code whatever the entry says.
CommitsExit(t, status) == entry' = [entry EXCEPT ![t].status = status, ![t].out = TRUE]

CommitExit(t, status) ==
    entry' = IF entry[t].status = "cancelled" THEN entry
             ELSE [entry EXCEPT ![t].status = status, ![t].out = TRUE]

WatchReturns(t, status) ==
    /\ watch[t] = "waits" /\ PipesClosed(t)
    /\ procs' = procs \ {<<maker[t], t>>}
    /\ CommitExit(t, status)
    /\ watch' = [watch EXCEPT ![t] = "reports"]
    /\ UNCHANGED <<maker, shell, child, span, stop, answer, stops>>

(* _emit_detail closes the row; a cancelled task's too. *)
EmitDetail(t) == span' = [span EXCEPT ![t] = "closed"]

WatchEmits(t) ==
    /\ watch[t] = "reports"
    /\ EmitDetail(t)
    /\ watch' = [watch EXCEPT ![t] = "done"]
    /\ UNCHANGED <<entry, maker, procs, shell, child, stop, answer, stops>>

(***************************************************************************)
(* What the readers see: task_get reads the entry, task_list the entries   *)
(* of the caller's role, all of them for the orchestrator.                 *)
(***************************************************************************)
GetTask(t) == entry[t]
ListTasks(role) ==
    {t \in BgTasks : entry[t] # NoEntry /\ (role = "orchestrator" \/ entry[t].owner = role)}

(***************************************************************************)
(* task_stop, of a task the caller listed.  A manager that holds no handle *)
(* finds nothing to stop; else "cancelled" is committed before the signal  *)
(* is sent.                                                                *)
(***************************************************************************)
StopUnknown(m, t, role) ==
    /\ stops < MaxStops /\ t \in ListTasks(role) /\ <<m, t>> \notin procs
    /\ stops' = stops + 1
    /\ answer' = [answer EXCEPT ![t] = "not_found_or_completed"]
    /\ UNCHANGED <<entry, maker, procs, shell, child, watch, span, stop>>

Terminate(t) == shell' = [shell EXCEPT ![t] = IF @ = "runs" THEN "gone" ELSE @]

(* A process already gone ends the stop at once; a second stop within the  *)
(* grace period signals again.                                             *)
StopTask(m, t, role) ==
    /\ stops < MaxStops /\ t \in ListTasks(role) /\ <<m, t>> \in procs
    /\ stops' = stops + 1
    /\ entry' = [entry EXCEPT ![t].status = "cancelled"]
    /\ IF Exited(t)
       THEN /\ procs' = procs \ {<<m, t>>}
            /\ answer' = [answer EXCEPT ![t] = "cancelled"]
            /\ UNCHANGED <<shell, stop>>
       ELSE /\ Terminate(t)
            /\ stop' = [stop EXCEPT ![t] = "grace"]
            /\ UNCHANGED <<procs, answer>>
    /\ UNCHANGED <<maker, child, watch, span>>

(* The grace period ends: what still runs is killed, and the handle is     *)
(* dropped either way.                                                     *)
ForceKill(t) ==
    /\ shell' = [shell EXCEPT ![t] = "gone"]
    /\ stop' = [stop EXCEPT ![t] = "none"]
    /\ procs' = procs \ {<<maker[t], t>>}
    /\ answer' = [answer EXCEPT ![t] = "cancelled"]

GracePasses(t) ==
    /\ stop[t] = "grace"
    /\ ForceKill(t)
    /\ UNCHANGED <<entry, maker, child, watch, span, stops>>

BgNext ==
    \/ \E m \in Managers, t \in BgTasks, role \in Roles :
          \/ \E traps, front \in BOOLEAN : CreateTask(m, t, role, traps, front)
          \/ StopUnknown(m, t, role) \/ StopTask(m, t, role)
    \/ \E t \in BgTasks :
          \/ CommandEnds(t) \/ OrphanEnds(t) \/ WatchEmits(t) \/ GracePasses(t)
          \/ \E status \in {"completed", "failed"} : WatchReturns(t, status)

BgSpec == BgInit /\ [][BgNext]_bgVars

(***************************************************************************)
(* Properties.                                                             *)
(***************************************************************************)
(* The cancellation wins: once a stop committed it, no exit observed later *)
(* by the watcher, and no other manager, changes what task_get answers,    *)
(* although the watcher may wake first.                                    *)
CancellationStands ==
    \A t \in BgTasks : GetTask(t).status = "cancelled" => GetTask(t)' = GetTask(t)

(* A stop that answered "cancelled" leaves no shell behind, not even one   *)
(* that traps the soft signal.                                             *)
StoppedShellIsGone == \A t \in BgTasks : answer[t] = "cancelled" => shell[t] = "gone"

(* A background command that was stopped stays cancelled, whatever its     *)
(* watcher sees later, and its shell is gone (execution_tools.py).         *)
CancellationWins == [][CancellationStands]_bgVars /\ []StoppedShellIsGone

=============================================================================
