------------------------------ MODULE Cell_proofs ------------------------------
(***************************************************************************)
(* What the autonomous cell keeps safe, proved for every number of files,  *)
(* of calls, of iterations and of visits: an edit of an iteration survives *)
(* whatever the work surface brings back, one call at a time is put before *)
(* the operator, no command runs on an approval that was not given, and no *)
(* way out of the loop leaves a shell behind.                              *)
(***************************************************************************)
EXTENDS Cell, TLAPS, FiniteSetTheorems

-----------------------------------------------------------------------------
(* The invariant.                                                          *)

\* The phases in which an iteration holds files of its own, and the others.
Working == {"calls", "govern"}
Resting == {"idle", "open", "exec", "execRun", "tool", "answer", "reason"}

\* The types of the variables of a visit.
CellTypes ==
    /\ vfs \in [Paths -> Contents] /\ staged \in [Paths -> Contents]
    /\ surface \in [Paths -> Contents] /\ work \in [Paths -> Contents]
    /\ writes \in [Paths -> Contents]
    /\ candidates \in [Paths -> SUBSET Contents]
    /\ edited \in SUBSET Paths
    /\ edits \in 0 .. MaxEdits
    /\ phase \in Working \cup Resting
    /\ mode \in Modes
    /\ credit \in Int

\* What an iteration leaves in its locals is gone before the next one.
LocalsInv ==
    phase \in Resting =>
        work = Nothing /\ edited = {} /\ writes = Nothing
            /\ candidates = NoCandidates

\* An edit is in the working set and in the write that carries it; so is the
\* channel, and every content in competition was computed from the channel.
WorkInv ==
    phase \in Working =>
        \A p \in Paths :
            /\ p \in edited => work[p] # Absent /\ writes[p] \subseteq work[p]
            /\ vfs[p] # Absent => work[p] # Absent /\ vfs[p] \subseteq work[p]
            /\ \A c \in candidates[p] :
                    c # Absent /\ (vfs[p] # Absent => vfs[p] \subseteq c)

\* A channel is resumed before a new call can be deferred.
DeferralInv ==
    /\ pendings \in {{}, {"command"}, {"tool"}, {"question"}}
    /\ phase \in {"exec", "execRun"} => pendings = {"command"}
    /\ phase = "tool" => pendings = {"tool"}
    /\ phase = "answer" => pendings = {"question"}
    /\ phase \in {"reason", "calls", "govern"} => pendings = {}

\* The approval of a command is in hand when it runs.
CreditInv == credit >= 0 /\ (phase = "execRun" => credit >= 1)

\* The inductive invariant.
CellInv == /\ CellTypes /\ LocalsInv /\ WorkInv /\ DeferralInv /\ CreditInv
           /\ NoStrandedShell

-----------------------------------------------------------------------------
(* The content of the files.                                               *)

\* The constants are numbers.
LEMMA Bounds == MaxEdits \in Nat /\ MaxCalls \in Nat
BY CellBounds

\* An edit yields a content, and never loses what it was computed from.
LEMMA EditKeeps ==
    ASSUME NEW base \in Contents, NEW n \in 1 .. MaxEdits
    PROVE  /\ ComputeEdit(base, n) \in Contents
           /\ ComputeEdit(base, n) # Absent
           /\ base # Absent => base \subseteq ComputeEdit(base, n)
<1>1. n # -1 /\ n \in 0 .. MaxEdits
  BY Bounds
<1>2. n \in ComputeEdit(base, n)
  BY DEF ComputeEdit
<1>3. ComputeEdit(base, n) # {-1}
  BY <1>1, <1>2
<1>4. CASE base = Absent
  BY <1>1, <1>3, <1>4 DEF ComputeEdit, Contents, Absent
<1>5. CASE base # Absent
  BY <1>1, <1>3, <1>5 DEF ComputeEdit, Contents, Absent
<1> QED BY <1>4, <1>5

\* The surface holds contents after a push.
LEMMA PushTypes ==
    ASSUME surface \in [Paths -> Contents], NEW files \in [Paths -> Contents],
           NEW failed \in SUBSET Paths
    PROVE  /\ SurfaceAfterPush(files, failed) \in [Paths -> Contents]
           /\ PushVfsToSurface(files, failed) \in [Paths -> Contents]
BY DEF SurfaceAfterPush, PushVfsToSurface, Contents

\* A command leaves contents, and only adds to the files it does not remove.
LEMMA CommandAdds ==
    ASSUME NEW before \in [Paths -> Contents],
           NEW rewritten \in SUBSET Paths, NEW removed \in SUBSET Paths
    PROVE  LET after == AfterCommand(before, rewritten, removed) IN
           /\ after \in [Paths -> Contents]
           /\ \A p \in Paths :
                after[p] # Absent /\ before[p] # Absent =>
                    before[p] \subseteq after[p]
<1> DEFINE after == AfterCommand(before, rewritten, removed)
<1>1. Touched \in 0 .. MaxEdits
  BY Bounds DEF Touched
<1>2. ASSUME NEW p \in Paths
      PROVE  /\ after[p] \in Contents
             /\ after[p] # Absent /\ before[p] # Absent =>
                    before[p] \subseteq after[p]
  <2>1. before[p] \in Contents
    OBVIOUS
  <2>2. CASE p \in removed
    BY <2>1, <2>2 DEF AfterCommand, Contents
  <2>3. CASE p \notin removed /\ p \in rewritten
    BY <1>1, <2>1, <2>3 DEF AfterCommand, Contents
  <2>4. CASE p \notin removed /\ p \notin rewritten
    BY <2>1, <2>4 DEF AfterCommand
  <2> QED BY <2>2, <2>3, <2>4
<1>3. after = [p \in Paths |-> after[p]]
  BY DEF AfterCommand
<1> QED BY <1>2, <1>3

\* A pull brings back contents, and never an older version of a file the
\* caller holds: what was not pushed conflicts, what was pushed only grew.
LEMMA PullKeeps ==
    ASSUME surface \in [Paths -> Contents], NEW files \in [Paths -> Contents],
           NEW failed \in SUBSET Paths, NEW rewritten \in SUBSET Paths,
           NEW removed \in SUBSET Paths
    PROVE  LET after == AfterCommand(SurfaceAfterPush(files, failed),
                                     rewritten, removed)
               pulled == PullSurfaceToVfs(PushVfsToSurface(files, failed),
                                          files, after) IN
           /\ after \in [Paths -> Contents]
           /\ pulled \in [Paths -> Contents]
           /\ \A p \in Paths : files[p] # Absent =>
                    pulled[p] # Absent /\ files[p] \subseteq pulled[p]
<1> DEFINE pushed == SurfaceAfterPush(files, failed)
           snapshot == PushVfsToSurface(files, failed)
           after == AfterCommand(pushed, rewritten, removed)
           pulled == PullSurfaceToVfs(snapshot, files, after)
<1>1. /\ pushed \in [Paths -> Contents] /\ snapshot \in [Paths -> Contents]
  BY PushTypes
<1>2. /\ after \in [Paths -> Contents]
      /\ \A p \in Paths : after[p] # Absent /\ pushed[p] # Absent =>
                pushed[p] \subseteq after[p]
  <2> HIDE DEF pushed
  <2> QED BY <1>1, CommandAdds
<1>3. \A p \in Paths :
        pulled[p] = IF /\ after[p] # Absent /\ after[p] # snapshot[p]
                       /\ ~(snapshot[p] = Absent /\ files[p] # Absent)
                    THEN after[p] ELSE files[p]
  <2> HIDE DEF after, snapshot
  <2> QED BY DEF PullSurfaceToVfs, Conflicts
<1>4. \A p \in Paths : snapshot[p] # Absent /\ files[p] # Absent =>
        pushed[p] = files[p]
  BY DEF PushVfsToSurface, SurfaceAfterPush
<1>5. pulled = [p \in Paths |-> pulled[p]]
  BY DEF PullSurfaceToVfs
<1> HIDE DEF pulled, after, snapshot, pushed
<1>6. pulled \in [Paths -> Contents]
  BY <1>2, <1>3, <1>5
<1>7. ASSUME NEW p \in Paths, files[p] # Absent
      PROVE  pulled[p] # Absent /\ files[p] \subseteq pulled[p]
  BY <1>2, <1>3, <1>4, <1>7
<1> QED BY <1>2, <1>6, <1>7 DEF pulled, after, snapshot, pushed

\* The reducer and the overlay keep contents, whatever they choose.
LEMMA MergeTypes ==
    /\ \A delta \in [Paths -> Contents] : \A kept :
            vfs \in [Paths -> Contents] =>
                MergeVfs(delta, kept) \in [Paths -> Contents]
    /\ \A f, g \in [Paths -> Contents] : Overlay(f, g) \in [Paths -> Contents]
BY DEF MergeVfs, Overlay

\* Absent is a content, and so are the empty tables.
LEMMA EmptyTables ==
    /\ Absent \in Contents /\ {} \in Contents
    /\ Nothing \in [Paths -> Contents]
    /\ NoCandidates \in [Paths -> SUBSET Contents]
BY Bounds DEF Contents, Absent, Nothing, NoCandidates

-----------------------------------------------------------------------------
(* Types.                                                                  *)

\* A return drops the locals, whatever its verdict is.
LEMMA ReturnDrops ==
    ASSUME NEW verdict, Return(verdict)
    PROVE  /\ phase' \in {"open", "idle"}
           /\ work' = Nothing /\ edited' = {} /\ writes' = Nothing
           /\ candidates' = NoCandidates
           /\ phase' = "idle" => shell' = "none"
BY DEF Return, ResetLocals

\* The delta of an iteration is a table of contents.
LEMMA DeltaTypes ==
    ASSUME CellTypes, NEW kept
    PROVE  MergeVfs([p \in Paths |-> IF p \in edited THEN work[p]
                                     ELSE Absent], kept) \in [Paths -> Contents]
<1>1. [p \in Paths |-> IF p \in edited THEN work[p] ELSE Absent]
        \in [Paths -> Contents]
  BY EmptyTables DEF CellTypes
<1> QED BY <1>1, MergeTypes DEF CellTypes

\* A deferral returns the files of the iteration and drops its locals.
LEMMA DeferTypes ==
    ASSUME CellTypes, NEW channel, Defer(channel)
    PROVE  /\ vfs' \in [Paths -> Contents] /\ staged' \in [Paths -> Contents]
           /\ phase' \in {"open", "idle"}
           /\ work' = Nothing /\ edited' = {} /\ writes' = Nothing
           /\ candidates' = NoCandidates
           /\ phase' = "idle" => shell' = "none"
<1>1. Return("continue")
  BY DEF Defer
<1>2. staged' = Overlay(staged, writes)
  BY DEF Defer
<1>3. PICK kept \in SUBSET edited :
        vfs' = MergeVfs([p \in Paths |-> IF p \in edited THEN work[p]
                                         ELSE Absent], kept)
  BY DEF Defer
<1> QED BY <1>1, <1>2, <1>3, ReturnDrops, DeltaTypes, MergeTypes DEF CellTypes

\* The command of an approval, run over the files of the channel.
LEMMA ApprovedRunTypes ==
    ASSUME CellTypes, ExecApprovedRun
    PROVE  /\ vfs' \in [Paths -> Contents] /\ surface' \in [Paths -> Contents]
           /\ staged' = staged /\ edits' = edits /\ mode' = mode
           /\ phase' \in {"open", "idle"}
           /\ work' = Nothing /\ edited' = {} /\ writes' = Nothing
           /\ candidates' = NoCandidates
           /\ phase' = "idle" => shell' = "none"
<1>1. CASE shell = "dead" /\ Concede
  BY <1>1, ReturnDrops DEF Concede, CellTypes, environment
<1>2. CASE shell # "dead"
  <2>1. PICK failed \in SUBSET Paths, rewritten \in SUBSET Paths,
             removed \in SUBSET Paths, kept \in SUBSET Paths,
             exit \in {"zero", "nonzero", "timeout"} :
            LET snapshot == PushVfsToSurface(vfs, failed)
                after == AfterCommand(SurfaceAfterPush(vfs, failed),
                                      rewritten, removed)
                pulled == PullSurfaceToVfs(snapshot, vfs, after) IN
            /\ surface' = after
            /\ vfs' = MergeVfs([p \in Paths |-> IF pulled[p] = vfs[p]
                                     THEN Absent ELSE pulled[p]], kept)
            /\ IF exit = "zero" THEN Return("green")
               ELSE /\ status' = "continue"
                    /\ iteration' = iteration + 1
                    /\ phase' = "open"
                    /\ shell' = ShellAfterRun(exit)
                    /\ ResetLocals
    BY <1>2 DEF ExecApprovedRun
  <2> DEFINE after == AfterCommand(SurfaceAfterPush(vfs, failed),
                                   rewritten, removed)
             pulled == PullSurfaceToVfs(PushVfsToSurface(vfs, failed), vfs,
                                        after)
             delta == [p \in Paths |-> IF pulled[p] = vfs[p]
                                       THEN Absent ELSE pulled[p]]
  <2>2. surface' = after /\ vfs' = MergeVfs(delta, kept)
    BY <2>1
  <2>3. after \in [Paths -> Contents] /\ pulled \in [Paths -> Contents]
    BY PullKeeps DEF CellTypes
  <2>4. delta \in [Paths -> Contents]
    <3> HIDE DEF pulled
    <3> QED BY <2>3, EmptyTables
  <2>5. vfs' \in [Paths -> Contents] /\ surface' \in [Paths -> Contents]
    <3> HIDE DEF after, delta
    <3> QED BY <2>2, <2>3, <2>4, MergeTypes DEF CellTypes
  <2>6. /\ phase' \in {"open", "idle"}
        /\ work' = Nothing /\ edited' = {} /\ writes' = Nothing
        /\ candidates' = NoCandidates
        /\ phase' = "idle" => shell' = "none"
    BY <2>1, ReturnDrops DEF ResetLocals
  <2>7. staged' = staged /\ edits' = edits /\ mode' = mode
    BY <1>2 DEF ExecApprovedRun, environment
  <2> QED BY <2>5, <2>6, <2>7
<1> QED BY <1>1, <1>2 DEF ExecApprovedRun

\* The verdict of an iteration returns its files and drops its locals.
LEMMA DecideTypes ==
    ASSUME CellTypes, Decide
    PROVE  /\ vfs' \in [Paths -> Contents] /\ staged' \in [Paths -> Contents]
           /\ surface' = surface /\ edits' = edits /\ mode' = mode
           /\ phase' \in {"open", "idle"}
           /\ work' = Nothing /\ edited' = {} /\ writes' = Nothing
           /\ candidates' = NoCandidates
           /\ phase' = "idle" => shell' = "none"
<1>1. PICK verdict : Return(verdict)
  BY DEF Decide
<1>2. staged' = Overlay(staged, writes)
  BY DEF Decide
<1>3. PICK kept \in SUBSET edited :
        vfs' = MergeVfs([p \in Paths |-> IF p \in edited THEN work[p]
                                         ELSE Absent], kept)
  BY DEF Decide
<1>4. surface' = surface /\ edits' = edits /\ mode' = mode
  BY DEF Decide, environment
<1> QED BY <1>1, <1>2, <1>3, <1>4, ReturnDrops, DeltaTypes, MergeTypes
        DEF CellTypes

\* The edit the model proposes: its content is new, and the tables take it.
LEMMA EditTypes ==
    ASSUME CellTypes, edits < MaxEdits, NEW p \in Paths
    PROVE  LET base == IF candidates[p] # {} THEN vfs[p] ELSE work[p]
               content == ComputeEdit(base, edits + 1) IN
           /\ base \in Contents /\ content \in Contents /\ content # Absent
           /\ base # Absent => base \subseteq content
           /\ edits + 1 \in 0 .. MaxEdits
<1> DEFINE base == IF candidates[p] # {} THEN vfs[p] ELSE work[p]
<1>1. base \in Contents
  BY DEF CellTypes
<1>2. edits + 1 \in 1 .. MaxEdits /\ edits + 1 \in 0 .. MaxEdits
  BY Bounds DEF CellTypes
<1> HIDE DEF base
<1>3. /\ ComputeEdit(base, edits + 1) \in Contents
      /\ ComputeEdit(base, edits + 1) # Absent
      /\ base # Absent => base \subseteq ComputeEdit(base, edits + 1)
  BY <1>1, <1>2, EditKeeps
<1> QED BY <1>1, <1>2, <1>3 DEF base

\* Every step keeps the types.
LEMMA TypeStep ==
    ASSUME CellInv, [Next]_vars
    PROVE  CellTypes'
<1> USE DEF CellInv, CellTypes
<1>1. CASE Enter
  BY <1>1 DEF Enter, channels, locals, Working, Resting
<1>2. CASE ResolveSession
  <2>1. CASE Concede
    BY <2>1, ReturnDrops, EmptyTables
       DEF Concede, environment, Working, Resting
  <2>2. CASE ~Concede
    <3>1. phase' \in {"exec", "tool", "answer", "reason"}
      BY <1>2, <2>2 DEF ResolveSession, DeferralInv
    <3> QED BY <1>2, <2>2, <3>1
            DEF ResolveSession, channels, locals, environment, Working, Resting
  <2> QED BY <2>1, <2>2
<1>3. CASE InterruptRaises
  BY <1>3, ReturnDrops, EmptyTables
     DEF InterruptRaises, Concede, environment, Working, Resting
<1>4. CASE ExecApproval
  <2>1. CASE Return("continue")
    BY <1>4, <2>1, ReturnDrops, EmptyTables
       DEF ExecApproval, channels, locals, environment, Working, Resting
  <2>2. CASE phase' = "execRun"
    BY <1>4, <2>2 DEF ExecApproval, channels, locals, environment, Return,
                      Working, Resting
  <2> QED BY <1>4, <2>1, <2>2 DEF ExecApproval
<1>5. CASE ExecApprovedRun
  <2>1. credit' \in Int
    BY <1>5 DEF ExecApprovedRun, Concede
  <2> QED BY <1>5, <2>1, ApprovedRunTypes, EmptyTables DEF Working, Resting
<1>6. CASE ToolCallApproval
  BY <1>6, ReturnDrops, EmptyTables
     DEF ToolCallApproval, environment, Working, Resting
<1>7. CASE ClarificationResume
  BY <1>7, ReturnDrops, EmptyTables
     DEF ClarificationResume, environment, Working, Resting
<1>8. CASE Reason
  <2>1. surface' \in [Paths -> Contents]
    BY <1>8, PushTypes DEF Reason
  <2> QED BY <1>8, <2>1 DEF Reason, channels, environment, Working, Resting
<1>9. CASE RejectOrRead \/ DenyTerminal \/ DispatchTool
  BY <1>9 DEF RejectOrRead, DenyTerminal, DispatchTool, Observed, channels,
               environment
<1>10. CASE RunTerminal
  <2>1. PICK risky \in BOOLEAN :
       \/ /\ shell = "live"
          /\ \E failed, rewritten, removed \in SUBSET Paths :
                LET snapshot == PushVfsToSurface(work, failed)
                    after == AfterCommand(SurfaceAfterPush(work, failed),
                                          rewritten, removed) IN
                /\ surface' = after
                /\ work' = PullSurfaceToVfs(snapshot, work, after)
          /\ credit' = credit -
                (IF risky \/ mode \in {"CAUTIOUS", "ASK_ALL", "ASK_EXECUTE"}
                 THEN 1 ELSE 0)
          /\ UNCHANGED <<channels, phase, mode, approver, edited, writes,
                         candidates, drained, environment>>
       \/ Concede
       \/ /\ Defer("command")
          /\ UNCHANGED <<surface, mode, approver, queue, edits, visits,
                         credit>>
    BY <1>10 DEF RunTerminal
  <2>2. CASE Concede
    BY <2>2, ReturnDrops, EmptyTables
       DEF Concede, environment, Working, Resting
  <2>3. CASE Defer("command") /\ UNCHANGED <<surface, mode, approver, queue,
                                             edits, visits, credit>>
    BY <2>3, DeferTypes, EmptyTables DEF Working, Resting
  <2>4. CASE \E failed, rewritten, removed \in SUBSET Paths :
                LET snapshot == PushVfsToSurface(work, failed)
                    after == AfterCommand(SurfaceAfterPush(work, failed),
                                          rewritten, removed) IN
                /\ surface' = after
                /\ work' = PullSurfaceToVfs(snapshot, work, after)
    <3>1. surface' \in [Paths -> Contents] /\ work' \in [Paths -> Contents]
      <4>1. PICK failed \in SUBSET Paths, rewritten \in SUBSET Paths,
                 removed \in SUBSET Paths :
              LET snapshot == PushVfsToSurface(work, failed)
                  after == AfterCommand(SurfaceAfterPush(work, failed),
                                        rewritten, removed) IN
              /\ surface' = after
              /\ work' = PullSurfaceToVfs(snapshot, work, after)
        BY <2>4
      <4> QED BY <4>1, PullKeeps
    <3>2. CASE UNCHANGED <<channels, phase, mode, approver, edited, writes,
                           candidates, drained, environment>>
               /\ credit' \in Int
      BY <3>1, <3>2 DEF channels, environment
    <3> QED BY <2>1, <2>2, <2>3, <3>2
  <2> QED BY <2>1, <2>2, <2>3, <2>4
<1>11. CASE ApplyGranularEdit
  <2>1. CASE Return("concede")
    <3>1. edits' \in 0 .. MaxEdits
      BY <1>11, Bounds DEF ApplyGranularEdit
    <3> QED BY <1>11, <2>1, <3>1, ReturnDrops, EmptyTables
            DEF ApplyGranularEdit, channels, Working, Resting
  <2>2. CASE ~Return("concede")
    <3>1. PICK p \in Paths :
            LET base == IF candidates[p] # {} THEN vfs[p] ELSE work[p]
                content == ComputeEdit(base, edits + 1)
            IN /\ candidates' = [candidates EXCEPT ![p] = @ \cup {content}]
               /\ edited' = edited \cup {p}
               /\ work' = [work EXCEPT ![p] = content]
               /\ writes' = [writes EXCEPT ![p] = content]
               /\ UNCHANGED <<channels, shell, surface, phase, mode, approver,
                              lastExit, drained, queue, asked, visits,
                              credit>>
      BY <1>11, <2>2 DEF ApplyGranularEdit
    <3> DEFINE content == ComputeEdit(IF candidates[p] # {} THEN vfs[p]
                                      ELSE work[p], edits + 1)
    <3>2. content \in Contents /\ edits' \in 0 .. MaxEdits
      BY <1>11, EditTypes DEF ApplyGranularEdit
    <3>3. /\ candidates' = [candidates EXCEPT ![p] = @ \cup {content}]
          /\ work' = [work EXCEPT ![p] = content]
          /\ writes' = [writes EXCEPT ![p] = content]
      BY <3>1
    <3> HIDE DEF content
    <3>4. /\ candidates' \in [Paths -> SUBSET Contents]
          /\ work' \in [Paths -> Contents] /\ writes' \in [Paths -> Contents]
      BY <3>2, <3>3
    <3> QED BY <3>1, <3>2, <3>4 DEF channels
  <2> QED BY <2>1, <2>2
<1>12. CASE FallbackTool
  <2>1. PICK channel \in {"tool", "question"} : Defer(channel)
    BY <1>12 DEF FallbackTool
  <2> QED BY <1>12, <2>1, DeferTypes, EmptyTables
          DEF FallbackTool, Working, Resting
<1>13. CASE Tournament
  <2>1. CASE Concede
    BY <2>1, ReturnDrops, EmptyTables
       DEF Concede, environment, Working, Resting
  <2>2. CASE ~Concede
    <3>1. PICK p \in Paths :
          /\ \E winner \in candidates[p] :
                /\ work' = [work EXCEPT ![p] = winner]
                /\ writes' = [writes EXCEPT ![p] = winner]
                /\ surface' = [Overlay(surface, vfs) EXCEPT ![p] = winner]
          /\ candidates' = [candidates EXCEPT ![p] = {}]
          /\ UNCHANGED <<channels, phase, mode, approver, edited,
                         lastExit, drained, environment, credit>>
      BY <1>13, <2>2 DEF Tournament
    <3>2. PICK winner \in candidates[p] :
                /\ work' = [work EXCEPT ![p] = winner]
                /\ writes' = [writes EXCEPT ![p] = winner]
                /\ surface' = [Overlay(surface, vfs) EXCEPT ![p] = winner]
      BY <3>1
    <3>3. winner \in Contents /\ Overlay(surface, vfs) \in [Paths -> Contents]
      BY MergeTypes
    <3>4. /\ work' \in [Paths -> Contents] /\ writes' \in [Paths -> Contents]
          /\ surface' \in [Paths -> Contents]
          /\ candidates' \in [Paths -> SUBSET Contents]
      BY <3>1, <3>2, <3>3
    <3> QED BY <3>1, <3>4 DEF channels, environment
  <2> QED BY <2>1, <2>2
<1>14. CASE Govern
  BY <1>14 DEF Govern, channels, locals, environment, Working, Resting
<1>15. CASE Decide
  <2>1. credit' = credit
    BY <1>15 DEF Decide
  <2> QED BY <1>15, <2>1, DecideTypes, EmptyTables DEF Working, Resting
<1>16. CASE Steer
  BY <1>16 DEF Steer, channels, locals
<1>17. CASE Cancel
  BY <1>17, EmptyTables
     DEF Cancel, ResetLocals, channels, environment, Working, Resting
<1>18. CASE UNCHANGED vars
  BY <1>18 DEF vars
<1> QED BY <1>1, <1>2, <1>3, <1>4, <1>5, <1>6, <1>7, <1>8, <1>9, <1>10,
           <1>11, <1>12, <1>13, <1>14, <1>15, <1>16, <1>17, <1>18
        DEF Next, Node

-----------------------------------------------------------------------------
(* The files of an iteration.                                              *)

\* A step either drops what the iteration holds, or touches none of it
\* without entering an iteration, or is one of the six that work on it.
LEMMA HandSteps ==
    ASSUME CellInv, [Next]_vars
    PROVE  \/ /\ phase' \in Resting
              /\ work' = Nothing /\ edited' = {} /\ writes' = Nothing
              /\ candidates' = NoCandidates
           \/ /\ UNCHANGED <<vfs, work, edited, writes, candidates>>
              /\ phase \in Resting => phase' \in Resting
              /\ phase \in Working => phase' \in Working
           \/ Reason \/ RunTerminal \/ ApplyGranularEdit \/ Tournament
<1> USE DEF Working, Resting
<1>1. CASE Enter
  BY <1>1 DEF Enter, channels, locals
<1>2. CASE ResolveSession
  BY <1>2, ReturnDrops
     DEF ResolveSession, Concede, channels, locals, CellInv, DeferralInv
<1>3. CASE InterruptRaises
  BY <1>3, ReturnDrops DEF InterruptRaises, Concede
<1>4. CASE ExecApproval
  BY <1>4, ReturnDrops DEF ExecApproval, channels, locals
<1>5. CASE ExecApprovedRun
  BY <1>5, ApprovedRunTypes DEF CellInv
<1>6. CASE ToolCallApproval
  BY <1>6, ReturnDrops DEF ToolCallApproval
<1>7. CASE ClarificationResume
  BY <1>7, ReturnDrops DEF ClarificationResume
<1>8. CASE RejectOrRead \/ DenyTerminal \/ DispatchTool
  BY <1>8 DEF RejectOrRead, DenyTerminal, DispatchTool, Observed, channels
<1>9. CASE FallbackTool
  BY <1>9, DeferTypes DEF FallbackTool, CellInv
<1>10. CASE Govern
  BY <1>10 DEF Govern, channels, locals
<1>11. CASE Decide
  BY <1>11, DecideTypes DEF CellInv
<1>12. CASE Steer
  BY <1>12 DEF Steer, channels, locals
<1>13. CASE Cancel
  BY <1>13 DEF Cancel, ResetLocals
<1>14. CASE UNCHANGED vars
  BY <1>14 DEF vars
<1> QED BY <1>1, <1>2, <1>3, <1>4, <1>5, <1>6, <1>7, <1>8, <1>9, <1>10,
           <1>11, <1>12, <1>13, <1>14 DEF Next, Node

\* A command the iteration runs itself leaves the work of the iteration as
\* the pull brought it back; otherwise the iteration is over.
LEMMA TerminalWork ==
    ASSUME CellInv, RunTerminal
    PROVE  \/ /\ phase' \in Resting
              /\ work' = Nothing /\ edited' = {} /\ writes' = Nothing
              /\ candidates' = NoCandidates
           \/ /\ UNCHANGED <<vfs, edited, writes, candidates, phase>>
              /\ work' \in [Paths -> Contents]
              /\ \A p \in Paths : work[p] # Absent =>
                    work'[p] # Absent /\ work[p] \subseteq work'[p]
<1>1. CASE Concede
  BY <1>1, ReturnDrops DEF Concede, Resting
<1>2. CASE Defer("command")
  BY <1>2, DeferTypes DEF CellInv, Resting
<1>3. CASE ~Concede /\ ~Defer("command")
  <2>1. PICK failed \in SUBSET Paths, rewritten \in SUBSET Paths,
             removed \in SUBSET Paths :
          LET snapshot == PushVfsToSurface(work, failed)
              after == AfterCommand(SurfaceAfterPush(work, failed),
                                    rewritten, removed) IN
          /\ surface' = after
          /\ work' = PullSurfaceToVfs(snapshot, work, after)
    BY <1>3 DEF RunTerminal
  <2>2. /\ work' \in [Paths -> Contents]
        /\ \A p \in Paths : work[p] # Absent =>
                work'[p] # Absent /\ work[p] \subseteq work'[p]
    BY <2>1, PullKeeps DEF CellInv, CellTypes
  <2>3. UNCHANGED <<vfs, edited, writes, candidates, phase>>
    BY <1>3 DEF RunTerminal, channels
  <2> QED BY <2>2, <2>3
<1> QED BY <1>1, <1>2, <1>3

\* An iteration begins with nothing in hand and keeps what it has in hand.
LEMMA LocalsStep ==
    ASSUME CellInv, [Next]_vars
    PROVE  LocalsInv'
<1> USE DEF LocalsInv
<1>1. CASE /\ phase' \in Resting
           /\ work' = Nothing /\ edited' = {} /\ writes' = Nothing
           /\ candidates' = NoCandidates
  BY <1>1 DEF Nothing, NoCandidates
<1>2. CASE /\ UNCHANGED <<vfs, work, edited, writes, candidates>>
           /\ phase \in Resting => phase' \in Resting
           /\ phase \in Working => phase' \in Working
  BY <1>2 DEF CellInv, CellTypes, Working, Resting, Nothing, NoCandidates
<1>3. CASE Reason
  BY <1>3 DEF Reason, Resting
<1>4. CASE RunTerminal
  BY <1>1, <1>4, TerminalWork DEF RunTerminal, InCalls, Resting
<1>5. CASE ApplyGranularEdit
  BY <1>1, <1>5, ReturnDrops DEF ApplyGranularEdit, InCalls, Resting
<1>6. CASE Tournament
  BY <1>1, <1>6, ReturnDrops DEF Tournament, Concede, Resting
<1> QED BY <1>1, <1>2, <1>3, <1>4, <1>5, <1>6, HandSteps

\* The clause of WorkInv about one file.
Held(p) == /\ p \in edited => work[p] # Absent /\ writes[p] \subseteq work[p]
           /\ vfs[p] # Absent => work[p] # Absent /\ vfs[p] \subseteq work[p]
           /\ \A c \in candidates[p] :
                c # Absent /\ (vfs[p] # Absent => vfs[p] \subseteq c)

\* The edit of a file holds everything the channel holds, in whichever base
\* it was computed; the other files are not touched.
LEMMA EditWork ==
    ASSUME CellInv, ApplyGranularEdit, phase' \in Working, NEW q \in Paths
    PROVE  Held(q)'
<1> USE DEF CellInv, CellTypes
<1>1. ~Return("concede") /\ phase \in Working
  BY ReturnDrops DEF Working, ApplyGranularEdit, InCalls
<1>2. PICK p \in Paths :
        LET base == IF candidates[p] # {} THEN vfs[p] ELSE work[p]
            content == ComputeEdit(base, edits + 1)
        IN /\ candidates' = [candidates EXCEPT ![p] = @ \cup {content}]
           /\ edited' = edited \cup {p}
           /\ work' = [work EXCEPT ![p] = content]
           /\ writes' = [writes EXCEPT ![p] = content]
           /\ UNCHANGED channels
  BY <1>1 DEF ApplyGranularEdit
<1> DEFINE base == IF candidates[p] # {} THEN vfs[p] ELSE work[p]
           content == ComputeEdit(base, edits + 1)
<1>3. content # Absent /\ (base # Absent => base \subseteq content)
  BY EditTypes DEF ApplyGranularEdit
<1>4. vfs' = vfs
  BY <1>2 DEF channels
<1>5. Held(p) /\ Held(q)
  BY <1>1 DEF WorkInv, Held
<1>6. vfs[p] # Absent => vfs[p] \subseteq content
  <2>1. vfs[p] # Absent => base # Absent /\ vfs[p] \subseteq base
    BY <1>5 DEF Held
  <2> HIDE DEF base, content
  <2> QED BY <1>3, <2>1
<1>7. /\ candidates' = [candidates EXCEPT ![p] = @ \cup {content}]
      /\ edited' = edited \cup {p}
      /\ work' = [work EXCEPT ![p] = content]
      /\ writes' = [writes EXCEPT ![p] = content]
  BY <1>2
<1> HIDE DEF content, base
<1>8. CASE q = p
  <2>1. /\ candidates'[p] = candidates[p] \cup {content}
        /\ work'[p] = content /\ writes'[p] = content
    BY <1>7
  <2> QED BY <1>3, <1>4, <1>5, <1>6, <1>8, <2>1 DEF Held
<1>9. CASE q # p
  BY <1>4, <1>5, <1>7, <1>9 DEF Held
<1> QED BY <1>8, <1>9

\* The winner of a tournament was computed from the channel as well.
LEMMA TournamentWork ==
    ASSUME CellInv, Tournament, phase' \in Working, NEW q \in Paths
    PROVE  Held(q)'
<1> USE DEF CellInv, CellTypes
<1>1. ~Concede /\ phase \in Working
  BY ReturnDrops DEF Working, Tournament, Concede
<1>2. PICK p \in Paths :
        /\ \E winner \in candidates[p] :
              /\ work' = [work EXCEPT ![p] = winner]
              /\ writes' = [writes EXCEPT ![p] = winner]
        /\ candidates' = [candidates EXCEPT ![p] = {}]
        /\ vfs' = vfs /\ edited' = edited
  BY <1>1 DEF Tournament, channels
<1>3. PICK winner \in candidates[p] :
        /\ work' = [work EXCEPT ![p] = winner]
        /\ writes' = [writes EXCEPT ![p] = winner]
  BY <1>2
<1>4. Held(p) /\ Held(q)
  BY <1>1 DEF WorkInv, Held
<1>5. winner # Absent /\ (vfs[p] # Absent => vfs[p] \subseteq winner)
  BY <1>4 DEF Held
<1>6. CASE q = p
  <2>1. candidates'[p] = {} /\ work'[p] = winner /\ writes'[p] = winner
    BY <1>2, <1>3
  <2> QED BY <1>2, <1>5, <1>6, <2>1 DEF Held
<1>7. CASE q # p
  BY <1>2, <1>3, <1>4, <1>7 DEF Held
<1> QED BY <1>6, <1>7

\* Every step of an iteration keeps its edits and the channel in its files.
LEMMA WorkStep ==
    ASSUME CellInv, [Next]_vars
    PROVE  WorkInv'
<1> SUFFICES ASSUME phase' \in Working, NEW p \in Paths
             PROVE  Held(p)'
  BY DEF WorkInv, Held
<1> USE DEF CellInv, CellTypes
<1>1. CASE phase' \in Resting
  BY <1>1 DEF Working, Resting
<1>2. CASE /\ UNCHANGED <<vfs, work, edited, writes, candidates>>
           /\ phase \in Resting => phase' \in Resting
           /\ phase \in Working => phase' \in Working
  <2>1. phase \in Working
    BY <1>2 DEF Working, Resting
  <2> QED BY <1>2, <2>1 DEF WorkInv, Held
<1>3. CASE Reason
  <2>1. edited = {} /\ candidates = NoCandidates
    BY <1>3 DEF Reason, LocalsInv, Resting
  <2>2. work' = vfs /\ vfs' = vfs /\ edited' = {} /\ candidates'[p] = {}
    BY <1>3, <2>1 DEF Reason, channels, NoCandidates
  <2> QED BY <2>2 DEF Held
<1>4. CASE RunTerminal
  <2>1. phase \in Working
    BY <1>4 DEF RunTerminal, InCalls, Working
  <2>2. /\ UNCHANGED <<vfs, edited, writes, candidates, phase>>
        /\ work[p] # Absent => work'[p] # Absent /\ work[p] \subseteq work'[p]
    BY <1>1, <1>4, TerminalWork DEF Working, Resting
  <2> QED BY <2>1, <2>2 DEF WorkInv, Held
<1>5. CASE ApplyGranularEdit
  BY <1>5, EditWork
<1>6. CASE Tournament
  BY <1>6, TournamentWork
<1> QED BY <1>1, <1>2, <1>3, <1>4, <1>5, <1>6, HandSteps

-----------------------------------------------------------------------------
(* Deferred calls, approvals and the shell.                                *)

\* A return and a deferral leave one call at most in its channel.
LEMMA DeferralStep ==
    ASSUME CellInv, [Next]_vars
    PROVE  DeferralInv'
<1> USE DEF CellInv, DeferralInv
<1>1. CASE Enter
  BY <1>1 DEF Enter, channels
<1>2. CASE ResolveSession
  BY <1>2 DEF ResolveSession, Concede, Return, channels
<1>3. CASE InterruptRaises
  BY <1>3 DEF InterruptRaises, Concede, Return
<1>4. CASE ExecApproval
  BY <1>4 DEF ExecApproval, Return, channels
<1>5. CASE ExecApprovedRun
  <2>1. phase' \in {"open", "idle"}
    BY <1>5, ApprovedRunTypes
  <2>2. pendings' \in {{}, pendings}
    BY <1>5 DEF ExecApprovedRun, Concede
  <2> QED BY <2>1, <2>2
<1>6. CASE ToolCallApproval
  BY <1>6 DEF ToolCallApproval, Return
<1>7. CASE ClarificationResume
  BY <1>7 DEF ClarificationResume, Return
<1>8. CASE Reason
  BY <1>8 DEF Reason, channels
<1>9. CASE RejectOrRead \/ DenyTerminal \/ DispatchTool
  BY <1>9 DEF RejectOrRead, DenyTerminal, DispatchTool, Observed, InCalls,
              channels
<1>10. CASE RunTerminal
  <2>1. CASE Concede
    BY <1>10, <2>1 DEF Concede, Return, RunTerminal, InCalls
  <2>2. CASE Defer("command")
    BY <1>10, <2>2 DEF Defer, Return, RunTerminal, InCalls
  <2>3. CASE ~Concede /\ ~Defer("command")
    BY <1>10, <2>3 DEF RunTerminal, InCalls, channels
  <2> QED BY <2>1, <2>2, <2>3
<1>11. CASE ApplyGranularEdit
  BY <1>11 DEF ApplyGranularEdit, InCalls, Return, channels
<1>12. CASE FallbackTool
  BY <1>12 DEF FallbackTool, InCalls, Defer, Return
<1>13. CASE Tournament
  BY <1>13 DEF Tournament, Concede, Return, channels
<1>14. CASE Govern
  BY <1>14 DEF Govern, channels
<1>15. CASE Decide
  <2>1. phase' \in {"open", "idle"}
    BY <1>15, DecideTypes
  <2> QED BY <1>15, <2>1 DEF Decide
<1>16. CASE Steer
  BY <1>16 DEF Steer, channels
<1>17. CASE Cancel
  BY <1>17 DEF Cancel, channels
<1>18. CASE UNCHANGED vars
  BY <1>18 DEF vars
<1> QED BY <1>1, <1>2, <1>3, <1>4, <1>5, <1>6, <1>7, <1>8, <1>9, <1>10,
           <1>11, <1>12, <1>13, <1>14, <1>15, <1>16, <1>17, <1>18
        DEF Next, Node

\* The policy allows a command by itself only where it gates none: not under
\* a mode that asks, and not when the command matches a risk pattern.
LEMMA AllowedIsUngated ==
    ASSUME NEW risky \in BOOLEAN, mode \in Modes,
           ClassifyExecute(mode, risky) = "allow"
    PROVE  ~(risky \/ mode \in {"CAUTIOUS", "ASK_ALL", "ASK_EXECUTE"})
<1>1. mode \in AllModes
  BY CellBounds
<1>2. CASE mode = "FULL_AUTO"
  <2>1. EvaluateAction(mode, "EXECUTE") = "allow"
    BY <1>2 DEF EvaluateAction
  <2> QED BY <1>2, <2>1 DEF ClassifyExecute, RiskInterceptGuard
<1>3. CASE mode = "STANDARD"
  <2>1. EvaluateAction(mode, "EXECUTE") = "allow"
    BY <1>3 DEF EvaluateAction
  <2> QED BY <1>3, <2>1 DEF ClassifyExecute, RiskInterceptGuard
<1>4. CASE mode \in {"CAUTIOUS", "ASK_ALL", "ASK_EXECUTE"}
  <2>1. EvaluateAction(mode, "EXECUTE") = "hitl"
    BY <1>4 DEF EvaluateAction
  <2> QED BY <2>1 DEF ClassifyExecute, RiskInterceptGuard
<1>5. CASE mode \in {"READ_ONLY", "PLAN_ONLY"}
  <2>1. EvaluateAction(mode, "EXECUTE") = "deny"
    BY <1>5 DEF EvaluateAction
  <2> QED BY <2>1 DEF ClassifyExecute, RiskInterceptGuard
<1> QED BY <1>1, <1>2, <1>3, <1>4, <1>5 DEF AllModes

\* A run that spends an approval is the run the operator approved.
LEMMA CreditStep ==
    ASSUME CellInv, [Next]_vars
    PROVE  CreditInv'
<1> USE DEF CellInv, CellTypes, CreditInv
<1>1. CASE Enter
  BY <1>1 DEF Enter
<1>2. CASE ResolveSession
  BY <1>2 DEF ResolveSession, Concede, Return, DeferralInv
<1>3. CASE InterruptRaises
  BY <1>3 DEF InterruptRaises, Concede, Return
<1>4. CASE ExecApproval
  BY <1>4 DEF ExecApproval, Return
<1>5. CASE ExecApprovedRun
  <2>1. phase' # "execRun"
    BY <1>5, ApprovedRunTypes
  <2>2. credit' \in {credit, credit - 1} /\ phase = "execRun"
    BY <1>5 DEF ExecApprovedRun, Concede
  <2> QED BY <2>1, <2>2
<1>6. CASE ToolCallApproval
  BY <1>6 DEF ToolCallApproval, Return
<1>7. CASE ClarificationResume
  BY <1>7 DEF ClarificationResume, Return
<1>8. CASE Reason
  BY <1>8 DEF Reason
<1>9. CASE RejectOrRead \/ DenyTerminal \/ DispatchTool
  BY <1>9 DEF RejectOrRead, DenyTerminal, DispatchTool, Observed
<1>10. CASE RunTerminal
  <2>1. CASE Concede
    BY <2>1 DEF Concede, Return
  <2>2. CASE Defer("command") /\ credit' = credit
    BY <2>2 DEF Defer, Return
  <2>3. CASE phase' = phase /\ credit' # credit
    <3>1. PICK risky \in BOOLEAN :
            /\ ClassifyExecute(mode, risky) = "allow"
            /\ credit' = credit -
                  (IF risky \/ mode \in {"CAUTIOUS", "ASK_ALL", "ASK_EXECUTE"}
                   THEN 1 ELSE 0)
      BY <1>10, <2>3 DEF RunTerminal, Concede
    <3>2. credit' = credit
      BY <3>1, AllowedIsUngated
    <3> QED BY <2>3, <3>2
  <2>4. CASE phase' = phase /\ credit' = credit
    BY <2>4
  <2> QED BY <1>10, <2>1, <2>2, <2>3, <2>4 DEF RunTerminal
<1>11. CASE ApplyGranularEdit
  BY <1>11 DEF ApplyGranularEdit, InCalls, Return
<1>12. CASE FallbackTool
  BY <1>12, DeferTypes DEF FallbackTool
<1>13. CASE Tournament
  BY <1>13 DEF Tournament, Concede, Return
<1>14. CASE Govern
  BY <1>14 DEF Govern
<1>15. CASE Decide
  BY <1>15, DecideTypes DEF Decide
<1>16. CASE Steer
  BY <1>16 DEF Steer
<1>17. CASE Cancel
  BY <1>17 DEF Cancel
<1>18. CASE UNCHANGED vars
  BY <1>18 DEF vars
<1> QED BY <1>1, <1>2, <1>3, <1>4, <1>5, <1>6, <1>7, <1>8, <1>9, <1>10,
           <1>11, <1>12, <1>13, <1>14, <1>15, <1>16, <1>17, <1>18
        DEF Next, Node

\* A step that leaves the loop closes the shell.
LEMMA ShellStep ==
    ASSUME CellInv, [Next]_vars
    PROVE  NoStrandedShell'
<1> USE DEF CellInv, NoStrandedShell
<1>1. CASE Enter
  BY <1>1 DEF Enter
<1>2. CASE ResolveSession
  BY <1>2, ReturnDrops DEF ResolveSession, Concede, DeferralInv
<1>3. CASE InterruptRaises
  BY <1>3, ReturnDrops DEF InterruptRaises, Concede
<1>4. CASE ExecApproval
  BY <1>4, ReturnDrops DEF ExecApproval
<1>5. CASE ExecApprovedRun
  BY <1>5, ApprovedRunTypes
<1>6. CASE ToolCallApproval \/ ClarificationResume
  BY <1>6, ReturnDrops DEF ToolCallApproval, ClarificationResume
<1>7. CASE Reason
  BY <1>7 DEF Reason
<1>8. CASE RejectOrRead \/ DenyTerminal \/ DispatchTool
  BY <1>8 DEF RejectOrRead, DenyTerminal, DispatchTool, Observed, InCalls
<1>9. CASE RunTerminal
  BY <1>9, ReturnDrops DEF RunTerminal, InCalls, Concede, Defer
<1>10. CASE ApplyGranularEdit
  BY <1>10, ReturnDrops DEF ApplyGranularEdit, InCalls
<1>11. CASE FallbackTool
  BY <1>11, DeferTypes DEF FallbackTool
<1>12. CASE Tournament
  BY <1>12, ReturnDrops DEF Tournament, Concede
<1>13. CASE Govern
  BY <1>13 DEF Govern
<1>14. CASE Decide
  BY <1>14, DecideTypes
<1>15. CASE Steer
  BY <1>15 DEF Steer
<1>16. CASE Cancel
  BY <1>16 DEF Cancel
<1>17. CASE UNCHANGED vars
  BY <1>17 DEF vars
<1> QED BY <1>1, <1>2, <1>3, <1>4, <1>5, <1>6, <1>7, <1>8, <1>9, <1>10,
           <1>11, <1>12, <1>13, <1>14, <1>15, <1>16, <1>17 DEF Next, Node

-----------------------------------------------------------------------------
(* The theorems.                                                           *)

\* The invariant holds before the first step of a plan reaches the cell.
LEMMA InitHolds == Init => CellInv
<1> SUFFICES ASSUME Init PROVE CellInv
  OBVIOUS
<1>1. CellTypes
  <2>1. vfs \in [Paths -> Contents]
    BY EmptyTables DEF Init
  <2> QED BY <2>1, EmptyTables, Bounds DEF Init, CellTypes, Working, Resting
<1>2. LocalsInv /\ WorkInv /\ DeferralInv /\ CreditInv /\ NoStrandedShell
  BY DEF Init, LocalsInv, WorkInv, DeferralInv, CreditInv, NoStrandedShell,
         Working
<1> QED BY <1>1, <1>2 DEF CellInv

\* CellInv is an invariant of the loop, for every plan it is entered from.
THEOREM CellInvariance == Spec => []CellInv
<1>1. ASSUME CellInv, [Next]_vars PROVE CellInv'
  BY <1>1, TypeStep, LocalsStep, WorkStep, DeferralStep, CreditStep, ShellStep
     DEF CellInv
<1> QED BY <1>1, InitHolds, PTL DEF Spec

\* An edit of an iteration stays in its working set, and the working set
\* never falls behind the channel, whatever commands, failed pushes, pulls
\* and tournaments do to the work surface.
THEOREM EditsStay == Spec => []EditsOutliveTheSurface
<1>1. CellInv => EditsOutliveTheSurface
  BY DEF CellInv, WorkInv, Working, EditsOutliveTheSurface
<1> QED BY <1>1, CellInvariance, PTL

\* One call at a time waits for the operator, and what the policy puts
\* before a human runs at most as often as a human approved it.
THEOREM DeferralSafe == Spec => []DeferralIsSafe
<1>1. ASSUME CellInv PROVE OneDeferredCall
  <2>1. /\ Cardinality({}) = 0 /\ Cardinality({"command"}) = 1
        /\ Cardinality({"tool"}) = 1 /\ Cardinality({"question"}) = 1
    BY FS_EmptySet, FS_Singleton
  <2> QED BY <1>1, <2>1 DEF CellInv, DeferralInv, OneDeferredCall
<1>2. CellInv => NothingGatedRunsUnasked
  BY DEF CellInv, CreditInv, NothingGatedRunsUnasked
<1>3. CellInv => DeferralIsSafe
  BY <1>1, <1>2 DEF DeferralIsSafe
<1> QED BY <1>3, CellInvariance, PTL

\* No way out of the loop leaves a shell behind: the first half of
\* CellConcludes.
THEOREM ShellIsClosed == Spec => []NoStrandedShell
<1>1. CellInv => NoStrandedShell
  BY DEF CellInv
<1> QED BY <1>1, CellInvariance, PTL
=============================================================================
