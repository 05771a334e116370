--------------------- MODULE ManagerTransactionProofs ---------------------
(***************************************************************************)
(* Proofs about ManagerTransaction, for every set of transactions, every   *)
(* number of destinations, and any bound on outside writes and faults:     *)
(* type correctness, that nothing the user wrote is lost, that no          *)
(* transaction carries out a stale plan, that a commit and a rollback do   *)
(* what they report and can be recovered at any point, and that a session  *)
(* owns the files.                                                         *)
(***************************************************************************)
EXTENDS ManagerTransaction, TLAPS

---------------------------------------------------------------------------
(* The parts of the inductive invariant *)

CursorPC == {"mkdir", "intent", "linking", "displacing", "displaced", "installing",
             "unwinding", "installed", "undoing", "reinstating"}

\* A step on one destination has one
CursorOK == \A t \in Txn : pc[t] \in CursorPC => cur[t] \in Path

\* NothingLost, image by image
Found == \A i \in Path : \A x \in owed[i] :
            x = live[i] \/ \E s \in Txn : x = old[s][i] \/ x = rolled[s][i]

\* Only the holder of the lease revalidates, stages, commits and rolls back
Leased(t) == pc[t] \in GuardPC \cup CommitPC \/ (t \in Held /\ pc[t] = "preparing")
LeaseOK == \A t \in Txn : Leased(t) => lease = t

\* Nothing is in staging before the commit loop
EarlyPC == {"idle", "preparing"} \cup GuardPC
OldEmpty == \A t \in Txn : pc[t] \in EarlyPC => \A i \in Path : old[t][i] = Missing

\* What the last read saw is still there when the file is displaced
FreshPC == {"mkdir", "intent", "linking", "displacing"}
Fresh == \A t \in Txn : pc[t] \in FreshPC /\ cur[t] \notin touched[t] =>
            live[cur[t]] = before[t][cur[t]]

---------------------------------------------------------------------------
(* Facts about the data *)

\* Every image a transaction can write, and Missing, may be in a slot.
LEMMA MissingSlot == Missing \in Slot /\ \A t \in Txn, i \in Path : Want[t][i] \in Slot
  BY ImageAssumption DEF Slot

\* Replacing one image of one staging directory keeps the type of all of them.
LEMMA ShelvesUpdate ==
  ASSUME NEW o \in [Txn -> Shelf], NEW t \in Txn, NEW i \in Path, NEW v \in Slot
  PROVE  [o EXCEPT ![t][i] = v] \in [Txn -> Shelf]
<1>1. o[t] \in Shelf
  OBVIOUS
<1>2. [o[t] EXCEPT ![i] = v] \in Shelf
  BY DEF Shelf
<1>3. QED
  BY <1>2

---------------------------------------------------------------------------
(* Type correctness *)

\* Init establishes the type invariant.
LEMMA TypeInit == Init => TypeOK /\ CursorOK
<1>1. SUFFICES ASSUME Init PROVE TypeOK /\ CursorOK
  OBVIOUS
<1>2. FilesOK
  BY MissingSlot, <1>1 DEF Init, FilesOK, Shelf
<1>3. DirsOK
  BY <1>1 DEF Init, DirsOK
<1>4. GuardsOK
  BY <1>1 DEF Init, GuardsOK
<1>5. ControlOK
  BY <1>1 DEF Init, ControlOK, PC
<1>6. LoopOK
  BY <1>1 DEF Init, LoopOK
<1>7. PlanOK
  BY MissingSlot, <1>1 DEF Init, PlanOK, Shelf
<1>8. MemoryOK
  BY <1>1 DEF Init, MemoryOK
<1>9. JournalOK
  BY <1>1 DEF Init, JournalOK, Record, Status
<1>10. CountOK
  BY TxnAssumption, <1>1 DEF Init, CountOK
<1>11. GhostOK
  BY <1>1 DEF Init, GhostOK, Shelf, Slot
<1>12. CursorOK
  BY <1>1 DEF Init, CursorOK, CursorPC
<1>13. QED
  BY <1>2, <1>3, <1>4, <1>5, <1>6, <1>7, <1>8, <1>9, <1>10, <1>11, <1>12 DEF TypeOK

\* A journal record built from what memory holds is a journal record.
LEMMA WriteType ==
  ASSUME TypeOK, NEW t \in Txn, NEW status \in Status, NEW done \in SUBSET Path,
         NEW pend \in Path \cup {NoPath}, Write(t, status, done, pend)
  PROVE  JournalOK'
<1>1. [status |-> status, committed |-> done, created |-> created[t],
       pending |-> pend] \in Record
  BY DEF TypeOK, DirsOK, Record
<1>2. QED
  BY <1>1 DEF TypeOK, JournalOK, Write

\* Every step keeps the type invariant.
LEMMA TypeStep ==
  ASSUME TypeOK, CursorOK, [Next]_vars
  PROVE  TypeOK'
<1>1. FilesOK'
  <2>1. ASSUME NEW t \in Txn, (\E i \in Path : Add(t, i) \/ Revalidate(t, i) \/
     ReadTarget(t, i) \/ CheckUndo(t, i)) \/ Begin(t) \/ Lock(t) \/ AlreadyHeld(t) \/
     AssertStopped(t) \/ Stage(t) \/ OpenJournal(t) \/ MakeParent(t) \/ Intent(t) \/
     RecordPending(t) \/ Installed(t) \/ Finish(t) \/ RemoveParents(t) \/ Report(t) \/
     Crash(t)
        PROVE  UNCHANGED <<live, old, rolled>>
    BY <2>1 DEF Begin, inst, disk, Add, Lock, AlreadyHeld, Revalidate, AssertStopped,
       Stage, OpenJournal, ReadTarget, MakeParent, Intent, RecordPending, Installed,
       Finish, CheckUndo, RemoveParents, Report, Crash
  <2>2. ASSUME NEW t \in Txn, Link(t) \/ Install(t)
        PROVE  FilesOK'
    BY MissingSlot, <2>2 DEF TypeOK, CursorOK, CursorPC, FilesOK, Shelf, CanPlace,
       Link, disk, Install
  <2>3. ASSUME NEW t \in Txn, Displace(t)
        PROVE  FilesOK'
    <3>1. cur[t] \in Path /\ live[cur[t]] \in Slot /\ old[t][cur[t]] \in Slot
      BY <2>3 DEF Displace, CursorOK, CursorPC, TypeOK, FilesOK, Shelf
    <3>2. [old EXCEPT ![t][cur[t]] = live[cur[t]]] \in [Txn -> Shelf]
      BY <3>1, MissingSlot, ShelvesUpdate DEF TypeOK, FilesOK
    <3>3. old' = old \/ old' = [old EXCEPT ![t][cur[t]] = live[cur[t]]]
      BY <2>3 DEF Displace
    <3>4. live' \in Shelf
      BY <3>1, MissingSlot, <2>3 DEF TypeOK, FilesOK, Shelf, Displace
    <3>5. QED
      BY <3>2, <3>3, <3>4, <2>3 DEF TypeOK, FilesOK, Displace
  <2>4. ASSUME NEW t \in Txn, Unwind(t)
        PROVE  FilesOK'
    <3>1. cur[t] \in Path /\ live[cur[t]] \in Slot /\ old[t][cur[t]] \in Slot
      BY <2>4 DEF Unwind, CursorOK, CursorPC, TypeOK, FilesOK, Shelf
    <3>2. [old EXCEPT ![t][cur[t]] = Missing] \in [Txn -> Shelf]
      BY <3>1, MissingSlot, ShelvesUpdate DEF TypeOK, FilesOK
    <3>3. old' = old \/ old' = [old EXCEPT ![t][cur[t]] = Missing]
      BY <2>4 DEF Unwind
    <3>4. live' \in Shelf
      BY <3>1, MissingSlot, <2>4 DEF TypeOK, FilesOK, Shelf, Unwind
    <3>5. QED
      BY <3>2, <3>3, <3>4, <2>4 DEF TypeOK, FilesOK, Unwind
  <2>5. ASSUME NEW t \in Txn, RestorePending(t)
        PROVE  FilesOK'
    <3>1. pending[t] \in Path /\ live[pending[t]] \in Slot /\ old[t][pending[t]] \in
       Slot
      BY <2>5 DEF RestorePending, MemoryOK, TypeOK, FilesOK, Shelf
    <3>2. [old EXCEPT ![t][pending[t]] = Missing] \in [Txn -> Shelf]
      BY <3>1, MissingSlot, ShelvesUpdate DEF TypeOK, FilesOK
    <3>3. old' = old \/ old' = [old EXCEPT ![t][pending[t]] = Missing]
      BY <2>5 DEF RestorePending
    <3>4. live' \in Shelf
      BY <3>1, MissingSlot, <2>5 DEF TypeOK, FilesOK, Shelf, RestorePending
    <3>5. QED
      BY <3>2, <3>3, <3>4, <2>5 DEF TypeOK, FilesOK, RestorePending
  <2>6. ASSUME NEW t \in Txn, Undo(t)
        PROVE  FilesOK'
    <3>1. cur[t] \in Path /\ live[cur[t]] \in Slot /\ old[t][cur[t]] \in Slot
      BY <2>6 DEF Undo, CursorOK, CursorPC, TypeOK, FilesOK, Shelf
    <3>2. [rolled EXCEPT ![t][cur[t]] = live[cur[t]]] \in [Txn -> Shelf]
      BY <3>1, MissingSlot, ShelvesUpdate DEF TypeOK, FilesOK
    <3>3. rolled' = rolled \/ rolled' = [rolled EXCEPT ![t][cur[t]] = live[cur[t]]]
      BY <2>6 DEF Undo
    <3>4. live' \in Shelf
      BY <3>1, MissingSlot, <2>6 DEF TypeOK, FilesOK, Shelf, Undo
    <3>5. QED
      BY <3>2, <3>3, <3>4, <2>6 DEF TypeOK, FilesOK, Undo
  <2>7. ASSUME NEW t \in Txn, Reinstate(t)
        PROVE  FilesOK'
    <3>1. cur[t] \in Path /\ live[cur[t]] \in Slot /\ old[t][cur[t]] \in Slot
      BY <2>7 DEF Reinstate, CursorOK, CursorPC, TypeOK, FilesOK, Shelf
    <3>2. [old EXCEPT ![t][cur[t]] = Missing] \in [Txn -> Shelf]
      BY <3>1, MissingSlot, ShelvesUpdate DEF TypeOK, FilesOK
    <3>3. old' = old \/ old' = [old EXCEPT ![t][cur[t]] = Missing]
      BY <2>7 DEF Reinstate
    <3>4. live' \in Shelf
      BY <3>1, MissingSlot, <2>7 DEF TypeOK, FilesOK, Shelf, Reinstate
    <3>5. QED
      BY <3>2, <3>3, <3>4, <2>7 DEF TypeOK, FilesOK, Reinstate
  <2>8. ASSUME (\E d \in Dir : UserRemoveDir(d)) \/ Launch \/ Mark \/ BridgeGone \/
     SessionOver
        PROVE  UNCHANGED <<live, old, rolled>>
    BY <2>8 DEF UserRemoveDir, disk, Launch, inst, Mark, BridgeGone, SessionOver
  <2>9. ASSUME NEW i \in Path, NEW v \in Image, UserWrite(i, v)
        PROVE  FilesOK'
    BY MissingSlot, <2>9 DEF TypeOK, CursorOK, CursorPC, FilesOK, Shelf, Slot,
       UserWrite, disk
  <2>10. ASSUME NEW i \in Path, UserDelete(i)
        PROVE  FilesOK'
    BY MissingSlot, <2>10 DEF TypeOK, CursorOK, CursorPC, FilesOK, Shelf, Slot,
       UserDelete, disk
  <2>11. CASE UNCHANGED vars
    BY <2>11 DEF TypeOK, FilesOK, vars, inst, disk
  <2>12. QED
    BY <2>1, <2>2, <2>3, <2>4, <2>5, <2>6, <2>7, <2>8, <2>9, <2>10, <2>11 DEF TypeOK,
       FilesOK, Next, Step, Outside
<1>2. DirsOK'
  <2>1. ASSUME NEW t \in Txn, (\E i \in Path : Add(t, i) \/ Revalidate(t, i) \/
     ReadTarget(t, i) \/ CheckUndo(t, i)) \/ Begin(t) \/ Lock(t) \/ AlreadyHeld(t) \/
     AssertStopped(t) \/ Stage(t) \/ OpenJournal(t) \/ Intent(t) \/ Link(t) \/
     Displace(t) \/ RecordPending(t) \/ Install(t) \/ Unwind(t) \/ Installed(t) \/
     Finish(t) \/ RestorePending(t) \/ Undo(t) \/ Reinstate(t) \/ Report(t) \/ Crash(t)
        PROVE  UNCHANGED <<present, created>>
    BY <2>1 DEF Begin, inst, mem, Add, Lock, AlreadyHeld, Revalidate, AssertStopped,
       Stage, OpenJournal, ReadTarget, Intent, Link, Displace, RecordPending, Install,
       Unwind, Installed, Finish, RestorePending, CheckUndo, Undo, Reinstate, Report,
       Crash
  <2>2. ASSUME NEW t \in Txn, MakeParent(t) \/ RemoveParents(t)
        PROVE  DirsOK'
    BY PathAssumption, <2>2 DEF TypeOK, CursorOK, CursorPC, DirsOK, Exists, MakeParent,
       RemoveParents, mem
  <2>3. ASSUME (\E i \in Path : UserDelete(i)) \/ Launch \/ Mark \/ BridgeGone \/
     SessionOver
        PROVE  UNCHANGED <<present, created>>
    BY <2>3 DEF UserDelete, mem, Launch, inst, Mark, BridgeGone, SessionOver
  <2>4. ASSUME NEW i \in Path, NEW v \in Image, UserWrite(i, v)
        PROVE  DirsOK'
    BY PathAssumption, <2>4 DEF TypeOK, CursorOK, CursorPC, DirsOK, Exists, UserWrite,
       mem
  <2>5. ASSUME NEW d \in Dir, UserRemoveDir(d)
        PROVE  DirsOK'
    BY PathAssumption, <2>5 DEF TypeOK, CursorOK, CursorPC, DirsOK, Exists,
       UserRemoveDir, mem
  <2>6. CASE UNCHANGED vars
    BY <2>6 DEF TypeOK, DirsOK, vars, inst, mem
  <2>7. QED
    BY <2>1, <2>2, <2>3, <2>4, <2>5, <2>6 DEF TypeOK, DirsOK, Next, Step, Outside
<1>3. GuardsOK'
  <2>1. ASSUME NEW t \in Txn, (\E i \in Path : ReadTarget(t, i) \/ CheckUndo(t, i)) \/
     AlreadyHeld(t) \/ MakeParent(t) \/ Intent(t) \/ Link(t) \/ Displace(t) \/
     RecordPending(t) \/ Install(t) \/ Unwind(t) \/ Installed(t) \/ RestorePending(t)
     \/ Undo(t) \/ Reinstate(t) \/ RemoveParents(t)
        PROVE  UNCHANGED <<lease, marker, bridge>>
    BY <2>1 DEF AlreadyHeld, guards, ReadTarget, MakeParent, Intent, Link, Displace,
       RecordPending, Install, Unwind, Installed, RestorePending, CheckUndo, Undo,
       Reinstate, RemoveParents
  <2>2. ASSUME NEW t \in Txn, (\E i \in Path : Add(t, i) \/ Revalidate(t, i)) \/
     Begin(t) \/ Lock(t) \/ AssertStopped(t) \/ Stage(t) \/ OpenJournal(t) \/ Finish(t)
     \/ Report(t) \/ Crash(t)
        PROVE  GuardsOK'
    BY TxnAssumption, <2>2 DEF TypeOK, GuardsOK, Leave, Begin, Add, guards, Lock,
       Revalidate, AssertStopped, Stage, OpenJournal, Finish, Report, Crash
  <2>3. ASSUME (\E i \in Path, v \in Image : UserWrite(i, v)) \/ (\E i \in Path :
     UserDelete(i)) \/ (\E d \in Dir : UserRemoveDir(d))
        PROVE  UNCHANGED <<lease, marker, bridge>>
    BY <2>3 DEF UserWrite, guards, UserDelete, UserRemoveDir
  <2>4. ASSUME Launch
        PROVE  GuardsOK'
    BY TxnAssumption, <2>4 DEF TypeOK, GuardsOK, Launch
  <2>5. ASSUME Mark
        PROVE  GuardsOK'
    BY TxnAssumption, <2>5 DEF TypeOK, GuardsOK, Mark
  <2>6. ASSUME BridgeGone
        PROVE  GuardsOK'
    BY TxnAssumption, <2>6 DEF TypeOK, GuardsOK, BridgeGone
  <2>7. ASSUME SessionOver
        PROVE  GuardsOK'
    BY TxnAssumption, <2>7 DEF TypeOK, GuardsOK, SessionOver
  <2>8. CASE UNCHANGED vars
    BY <2>8 DEF TypeOK, GuardsOK, vars, guards
  <2>9. QED
    BY <2>1, <2>2, <2>3, <2>4, <2>5, <2>6, <2>7, <2>8 DEF TypeOK, GuardsOK, Next, Step,
       Outside
<1>4. ControlOK'
  <2>1. ASSUME NEW t \in Txn, (\E i \in Path : Add(t, i) \/ Revalidate(t, i)) \/
     Begin(t) \/ Lock(t) \/ AlreadyHeld(t)
        PROVE  ControlOK'
    BY <2>1 DEF TypeOK, ControlOK, PC, GuardPC, CommitPC, FinalPC, Goto, Leave, Begin,
       Add, Lock, AlreadyHeld, Revalidate
  <2>2. ASSUME NEW t \in Txn, AssertStopped(t) \/ Stage(t) \/ OpenJournal(t) \/
     Finish(t) \/ Report(t) \/ Crash(t)
        PROVE  ControlOK'
    BY <2>2 DEF TypeOK, ControlOK, PC, GuardPC, CommitPC, FinalPC, Goto, Leave,
       AssertStopped, Stage, OpenJournal, Finish, Report, Crash
  <2>3. ASSUME NEW t \in Txn, (\E i \in Path : ReadTarget(t, i)) \/ MakeParent(t) \/
     Intent(t) \/ Link(t) \/ Displace(t) \/ RecordPending(t)
        PROVE  ControlOK'
    BY <2>3 DEF TypeOK, ControlOK, PC, GuardPC, CommitPC, FinalPC, Goto, Fail, NextOp,
       ReadTarget, MakeParent, Intent, Link, Displace, RecordPending
  <2>4. ASSUME NEW t \in Txn, Install(t) \/ Unwind(t) \/ Installed(t)
        PROVE  ControlOK'
    BY <2>4 DEF TypeOK, ControlOK, PC, GuardPC, CommitPC, FinalPC, Goto, Fail, NextOp,
       Install, Unwind, Installed
  <2>5. ASSUME NEW t \in Txn, (\E i \in Path : CheckUndo(t, i)) \/ RestorePending(t) \/
     Undo(t) \/ Reinstate(t) \/ RemoveParents(t)
        PROVE  ControlOK'
    BY <2>5 DEF TypeOK, ControlOK, PC, GuardPC, CommitPC, FinalPC, Goto, NextUndo,
       RestorePending, CheckUndo, Undo, Reinstate, RemoveParents
  <2>6. ASSUME (\E i \in Path, v \in Image : UserWrite(i, v)) \/ (\E i \in Path :
     UserDelete(i)) \/ (\E d \in Dir : UserRemoveDir(d)) \/ Launch \/ Mark \/
     BridgeGone \/ SessionOver
        PROVE  UNCHANGED pc
    BY <2>6 DEF UserWrite, UserDelete, UserRemoveDir, Launch, Mark, BridgeGone,
       SessionOver
  <2>7. CASE UNCHANGED vars
    BY <2>7 DEF TypeOK, ControlOK, vars
  <2>8. QED
    BY <2>1, <2>2, <2>3, <2>4, <2>5, <2>6, <2>7 DEF TypeOK, ControlOK, Next, Step,
       Outside
<1>5. LoopOK'
  <2>1. ASSUME NEW t \in Txn, RestorePending(t) \/ RemoveParents(t)
        PROVE  UNCHANGED <<todo, cur>>
    BY <2>1 DEF RestorePending, loop, RemoveParents
  <2>2. ASSUME NEW t \in Txn, MakeParent(t) \/ Intent(t) \/ Link(t) \/ Install(t)
        PROVE  LoopOK'
    BY PathAssumption, <2>2 DEF TypeOK, CursorOK, CursorPC, LoopOK, PlanOK, MemoryOK,
       Fail, NextOp, MakeParent, Intent, Link, Install
  <2>3. ASSUME NEW t \in Txn, (\E i \in Path : Add(t, i) \/ Revalidate(t, i) \/
     ReadTarget(t, i))
        PROVE  LoopOK'
    BY PathAssumption, <2>3 DEF TypeOK, CursorOK, CursorPC, LoopOK, PlanOK, MemoryOK,
       Fail, Leave, NextOp, Add, Revalidate, ReadTarget
  <2>4. ASSUME NEW t \in Txn, (\E i \in Path : CheckUndo(t, i)) \/ Begin(t) \/ Lock(t)
     \/ AlreadyHeld(t)
        PROVE  LoopOK'
    BY PathAssumption, <2>4 DEF TypeOK, CursorOK, CursorPC, LoopOK, PlanOK, MemoryOK,
       Leave, CheckUndo, Begin, Lock, AlreadyHeld
  <2>5. ASSUME NEW t \in Txn, AssertStopped(t) \/ Stage(t) \/ OpenJournal(t) \/
     Finish(t) \/ Report(t) \/ Crash(t)
        PROVE  LoopOK'
    BY PathAssumption, <2>5 DEF TypeOK, CursorOK, CursorPC, LoopOK, PlanOK, MemoryOK,
       Leave, AssertStopped, loop, Stage, OpenJournal, Finish, Report, Crash
  <2>6. ASSUME NEW t \in Txn, Displace(t)
        PROVE  LoopOK'
    BY PathAssumption, <2>6 DEF TypeOK, CursorOK, CursorPC, LoopOK, PlanOK, MemoryOK,
       Fail, Displace
  <2>7. ASSUME NEW t \in Txn, Unwind(t)
        PROVE  LoopOK'
    BY PathAssumption, <2>7 DEF TypeOK, CursorOK, CursorPC, LoopOK, PlanOK, MemoryOK,
       Fail, Unwind
  <2>8. ASSUME NEW t \in Txn, RecordPending(t)
        PROVE  LoopOK'
    BY PathAssumption, <2>8 DEF TypeOK, CursorOK, CursorPC, LoopOK, PlanOK, MemoryOK,
       Fail, RecordPending
  <2>9. ASSUME NEW t \in Txn, Installed(t)
        PROVE  LoopOK'
    BY PathAssumption, <2>9 DEF TypeOK, CursorOK, CursorPC, LoopOK, PlanOK, MemoryOK,
       Fail, NextOp, Installed
  <2>10. ASSUME NEW t \in Txn, Undo(t) \/ Reinstate(t)
        PROVE  LoopOK'
    BY PathAssumption, <2>10 DEF TypeOK, CursorOK, CursorPC, LoopOK, PlanOK, MemoryOK,
       NextUndo, Undo, Reinstate
  <2>11. ASSUME (\E i \in Path, v \in Image : UserWrite(i, v)) \/ (\E i \in Path :
     UserDelete(i)) \/ (\E d \in Dir : UserRemoveDir(d)) \/ Launch \/ Mark \/
     BridgeGone \/ SessionOver
        PROVE  UNCHANGED <<todo, cur>>
    BY <2>11 DEF UserWrite, loop, UserDelete, UserRemoveDir, Launch, Mark, BridgeGone,
       SessionOver
  <2>12. CASE UNCHANGED vars
    BY <2>12 DEF TypeOK, LoopOK, vars, loop
  <2>13. QED
    BY <2>1, <2>2, <2>3, <2>4, <2>5, <2>6, <2>7, <2>8, <2>9, <2>10, <2>11, <2>12 DEF
       TypeOK, LoopOK, Next, Step, Outside
<1>6. PlanOK'
  <2>1. ASSUME NEW t \in Txn, (\E i \in Path : Revalidate(t, i) \/ ReadTarget(t, i) \/
     CheckUndo(t, i)) \/ Begin(t) \/ Lock(t) \/ AlreadyHeld(t) \/ AssertStopped(t) \/
     Stage(t) \/ OpenJournal(t) \/ MakeParent(t) \/ Intent(t) \/ Link(t) \/ Displace(t)
     \/ RecordPending(t) \/ Install(t) \/ Unwind(t) \/ Installed(t) \/ Finish(t) \/
     RestorePending(t) \/ Undo(t) \/ Reinstate(t) \/ RemoveParents(t) \/ Report(t) \/
     Crash(t)
        PROVE  UNCHANGED <<plan, before>>
    BY <2>1 DEF Begin, prep, Lock, AlreadyHeld, Revalidate, AssertStopped, Stage,
       OpenJournal, ReadTarget, MakeParent, Intent, Link, Displace, RecordPending,
       Install, Unwind, Installed, Finish, RestorePending, CheckUndo, Undo, Reinstate,
       RemoveParents, Report, Crash
  <2>2. ASSUME NEW t \in Txn, NEW i \in Path, Add(t, i)
        PROVE  PlanOK'
    <3>1. live[i] \in Slot
      BY <2>2 DEF TypeOK, FilesOK, Shelf
    <3>2. [before EXCEPT ![t][i] = live[i]] \in [Txn -> Shelf]
      BY <3>1, ShelvesUpdate DEF TypeOK, PlanOK
    <3>3. QED
      BY <3>2, <2>2 DEF TypeOK, PlanOK, Add, prep
  <2>3. ASSUME (\E i \in Path, v \in Image : UserWrite(i, v)) \/ (\E i \in Path :
     UserDelete(i)) \/ (\E d \in Dir : UserRemoveDir(d)) \/ Launch \/ Mark \/
     BridgeGone \/ SessionOver
        PROVE  UNCHANGED <<plan, before>>
    BY <2>3 DEF UserWrite, prep, UserDelete, UserRemoveDir, Launch, Mark, BridgeGone,
       SessionOver
  <2>4. CASE UNCHANGED vars
    BY <2>4 DEF TypeOK, PlanOK, vars, prep
  <2>5. QED
    BY <2>1, <2>2, <2>3, <2>4 DEF TypeOK, PlanOK, Next, Step, Outside
<1>7. MemoryOK'
  <2>1. ASSUME NEW t \in Txn, (\E i \in Path : Add(t, i) \/ Revalidate(t, i) \/
     ReadTarget(t, i) \/ CheckUndo(t, i)) \/ Begin(t) \/ Lock(t) \/ AlreadyHeld(t) \/
     AssertStopped(t) \/ Stage(t) \/ OpenJournal(t) \/ MakeParent(t) \/ Intent(t) \/
     Link(t) \/ RecordPending(t) \/ Install(t) \/ Finish(t) \/ Undo(t) \/ Reinstate(t)
     \/ RemoveParents(t) \/ Report(t) \/ Crash(t)
        PROVE  UNCHANGED <<committed, pending>>
    BY <2>1 DEF Begin, mem, Add, Lock, AlreadyHeld, Revalidate, AssertStopped, Stage,
       OpenJournal, ReadTarget, MakeParent, Intent, Link, RecordPending, Install,
       Finish, CheckUndo, Undo, Reinstate, RemoveParents, Report, Crash
  <2>2. ASSUME NEW t \in Txn, Displace(t) \/ Unwind(t) \/ Installed(t) \/
     RestorePending(t)
        PROVE  MemoryOK'
    BY PathAssumption, <2>2 DEF TypeOK, CursorOK, CursorPC, MemoryOK, Displace, Unwind,
       Installed, RestorePending
  <2>3. ASSUME (\E i \in Path, v \in Image : UserWrite(i, v)) \/ (\E i \in Path :
     UserDelete(i)) \/ (\E d \in Dir : UserRemoveDir(d)) \/ Launch \/ Mark \/
     BridgeGone \/ SessionOver
        PROVE  UNCHANGED <<committed, pending>>
    BY <2>3 DEF UserWrite, mem, UserDelete, UserRemoveDir, Launch, Mark, BridgeGone,
       SessionOver
  <2>4. CASE UNCHANGED vars
    BY <2>4 DEF TypeOK, MemoryOK, vars, mem
  <2>5. QED
    BY <2>1, <2>2, <2>3, <2>4 DEF TypeOK, MemoryOK, Next, Step, Outside
<1>8. JournalOK'
  <2>1. ASSUME NEW t \in Txn, (\E i \in Path : Add(t, i) \/ Revalidate(t, i) \/
     ReadTarget(t, i) \/ CheckUndo(t, i)) \/ Begin(t) \/ Lock(t) \/ AlreadyHeld(t) \/
     AssertStopped(t) \/ Stage(t) \/ MakeParent(t) \/ Link(t) \/ Displace(t) \/
     Install(t) \/ Unwind(t) \/ RestorePending(t) \/ Undo(t) \/ Reinstate(t) \/
     RemoveParents(t) \/ Crash(t)
        PROVE  UNCHANGED journal
    BY <2>1 DEF Begin, disk, Add, Lock, AlreadyHeld, Revalidate, AssertStopped, Stage,
       ReadTarget, MakeParent, Link, Displace, Install, Unwind, RestorePending,
       CheckUndo, Undo, Reinstate, RemoveParents, Crash
  <2>2. ASSUME NEW t \in Txn, OpenJournal(t)
        PROVE  JournalOK'
    BY WriteType, <2>2 DEF TypeOK, CursorOK, CursorPC, JournalOK, MemoryOK, Status,
       OpenJournal
  <2>3. ASSUME NEW t \in Txn, Installed(t)
        PROVE  JournalOK'
    BY WriteType, <2>3 DEF TypeOK, CursorOK, CursorPC, JournalOK, MemoryOK, Status,
       Installed
  <2>4. ASSUME NEW t \in Txn, Finish(t) \/ Report(t)
        PROVE  JournalOK'
    BY WriteType, <2>4 DEF TypeOK, CursorOK, CursorPC, JournalOK, MemoryOK, Status,
       Finish, Report
  <2>5. ASSUME NEW t \in Txn, Intent(t) \/ RecordPending(t)
        PROVE  JournalOK'
    BY WriteType, <2>5 DEF TypeOK, CursorOK, CursorPC, JournalOK, MemoryOK, Status,
       Intent, RecordPending
  <2>6. ASSUME (\E i \in Path, v \in Image : UserWrite(i, v)) \/ (\E i \in Path :
     UserDelete(i)) \/ (\E d \in Dir : UserRemoveDir(d)) \/ Launch \/ Mark \/
     BridgeGone \/ SessionOver
        PROVE  UNCHANGED journal
    BY <2>6 DEF UserWrite, disk, UserDelete, UserRemoveDir, Launch, Mark, BridgeGone,
       SessionOver
  <2>7. CASE UNCHANGED vars
    BY <2>7 DEF TypeOK, JournalOK, vars, disk
  <2>8. QED
    BY <2>1, <2>2, <2>3, <2>4, <2>5, <2>6, <2>7 DEF TypeOK, JournalOK, Next, Step,
       Outside
<1>9. CountOK'
  <2>1. ASSUME NEW t \in Txn, (\E i \in Path : Add(t, i) \/ ReadTarget(t, i) \/
     CheckUndo(t, i)) \/ Begin(t) \/ Lock(t) \/ AlreadyHeld(t) \/ AssertStopped(t) \/
     Crash(t)
        PROVE  UNCHANGED <<writes, faults>>
    BY <2>1 DEF Begin, Add, Lock, AlreadyHeld, AssertStopped, ReadTarget, CheckUndo,
       Crash
  <2>2. ASSUME NEW t \in Txn, (\E i \in Path : Revalidate(t, i)) \/ Stage(t) \/
     OpenJournal(t) \/ MakeParent(t) \/ Intent(t) \/ Link(t) \/ Displace(t) \/
     RecordPending(t) \/ Install(t) \/ Unwind(t) \/ Installed(t) \/ Finish(t) \/
     RestorePending(t) \/ Undo(t) \/ Reinstate(t) \/ RemoveParents(t) \/ Report(t)
        PROVE  CountOK'
    BY TxnAssumption, <2>2 DEF TypeOK, CountOK, NoFault, Fault, Revalidate, Stage,
       OpenJournal, MakeParent, Intent, Link, Displace, RecordPending, Install, Unwind,
       Installed, Finish, RestorePending, Undo, Reinstate, RemoveParents, Report
  <2>3. ASSUME Launch \/ Mark \/ BridgeGone \/ SessionOver
        PROVE  UNCHANGED <<writes, faults>>
    BY <2>3 DEF Launch, Mark, BridgeGone, SessionOver
  <2>4. ASSUME NEW i \in Path, NEW v \in Image, UserWrite(i, v)
        PROVE  CountOK'
    BY TxnAssumption, <2>4 DEF TypeOK, CountOK, UserWrite
  <2>5. ASSUME NEW i \in Path, UserDelete(i)
        PROVE  CountOK'
    BY TxnAssumption, <2>5 DEF TypeOK, CountOK, UserDelete
  <2>6. ASSUME NEW d \in Dir, UserRemoveDir(d)
        PROVE  CountOK'
    BY TxnAssumption, <2>6 DEF TypeOK, CountOK, UserRemoveDir
  <2>7. CASE UNCHANGED vars
    BY <2>7 DEF TypeOK, CountOK, vars
  <2>8. QED
    BY <2>1, <2>2, <2>3, <2>4, <2>5, <2>6, <2>7 DEF TypeOK, CountOK, Next, Step, Outside
<1>10. GhostOK'
  <2>1. ASSUME NEW t \in Txn, (\E i \in Path : Revalidate(t, i) \/ ReadTarget(t, i) \/
     CheckUndo(t, i)) \/ Begin(t) \/ Lock(t) \/ AlreadyHeld(t) \/ AssertStopped(t) \/
     Stage(t) \/ OpenJournal(t) \/ MakeParent(t) \/ Intent(t) \/ Link(t) \/ Displace(t)
     \/ RecordPending(t) \/ Install(t) \/ Unwind(t) \/ Installed(t) \/ Finish(t) \/
     RestorePending(t) \/ Undo(t) \/ Reinstate(t) \/ RemoveParents(t) \/ Report(t) \/
     Crash(t)
        PROVE  UNCHANGED <<touched, owed, marked>>
    BY <2>1 DEF Begin, ghost, Lock, AlreadyHeld, Revalidate, AssertStopped, Stage,
       OpenJournal, ReadTarget, MakeParent, Intent, Link, Displace, RecordPending,
       Install, Unwind, Installed, Finish, RestorePending, CheckUndo, Undo, Reinstate,
       RemoveParents, Report, Crash
  <2>2. ASSUME NEW t \in Txn, (\E i \in Path : Add(t, i))
        PROVE  GhostOK'
    BY <2>2 DEF TypeOK, GhostOK, Add
  <2>3. ASSUME Launch \/ Mark \/ BridgeGone \/ SessionOver
        PROVE  UNCHANGED <<touched, owed>> /\ marked' \in {marked, lease, Nobody}
    BY <2>3 DEF Launch, ghost, Mark, BridgeGone, SessionOver
  <2>4. ASSUME NEW i \in Path, NEW v \in Image, UserWrite(i, v)
        PROVE  GhostOK'
    BY <2>4 DEF TypeOK, GhostOK, Touch, FilesOK, Shelf, Slot, UserWrite
  <2>5. ASSUME NEW i \in Path, UserDelete(i)
        PROVE  GhostOK'
    BY <2>5 DEF TypeOK, GhostOK, Touch, FilesOK, Shelf, Slot, UserDelete
  <2>6. ASSUME NEW d \in Dir, UserRemoveDir(d)
        PROVE  GhostOK'
    BY <2>6 DEF TypeOK, GhostOK, Touch, FilesOK, Shelf, Slot, UserRemoveDir
  <2>7. CASE UNCHANGED vars
    BY <2>7 DEF TypeOK, GhostOK, vars, ghost
  <2>8. QED
    BY <2>1, <2>2, <2>3, <2>4, <2>5, <2>6, <2>7 DEF TypeOK, GuardsOK, GhostOK, Next, Step,
       Outside
<1>11. QED
  BY <1>1, <1>2, <1>3, <1>4, <1>5, <1>6, <1>7, <1>8, <1>9, <1>10 DEF TypeOK

\* A step goes to work on a destination only when it has picked one.
LEMMA CursorStep ==
  ASSUME TypeOK, CursorOK, [Next]_vars
  PROVE  CursorOK'
<1>1. ASSUME NEW t \in Txn, (\E i \in Path : Add(t, i) \/ Revalidate(t, i)) \/ Begin(t)
   \/ Lock(t) \/ AlreadyHeld(t)
      PROVE  CursorOK'
  BY <1>1 DEF TypeOK, ControlOK, LoopOK, CursorOK, CursorPC, Goto, Leave, Begin, Add,
     Lock, AlreadyHeld, Revalidate
<1>2. ASSUME NEW t \in Txn, AssertStopped(t) \/ Stage(t) \/ OpenJournal(t) \/ Finish(t)
   \/ Report(t) \/ Crash(t)
      PROVE  CursorOK'
  BY <1>2 DEF TypeOK, ControlOK, LoopOK, CursorOK, CursorPC, Goto, Leave,
     AssertStopped, loop, Stage, OpenJournal, Finish, Report, Crash
<1>3. ASSUME NEW t \in Txn, (\E i \in Path : ReadTarget(t, i)) \/ MakeParent(t) \/
   Intent(t) \/ Link(t) \/ Displace(t) \/ RecordPending(t)
      PROVE  CursorOK'
  BY <1>3 DEF TypeOK, ControlOK, LoopOK, CursorOK, CursorPC, Goto, Fail, NextOp,
     ReadTarget, MakeParent, Intent, Link, Displace, RecordPending
<1>4. ASSUME NEW t \in Txn, Install(t) \/ Unwind(t) \/ Installed(t)
      PROVE  CursorOK'
  BY <1>4 DEF TypeOK, ControlOK, LoopOK, CursorOK, CursorPC, Goto, Fail, NextOp,
     Install, Unwind, Installed
<1>5. ASSUME NEW t \in Txn, (\E i \in Path : CheckUndo(t, i)) \/ RestorePending(t) \/
   Undo(t) \/ Reinstate(t) \/ RemoveParents(t)
      PROVE  CursorOK'
  BY <1>5 DEF TypeOK, ControlOK, LoopOK, CursorOK, CursorPC, Goto, NextUndo,
     RestorePending, loop, CheckUndo, Undo, Reinstate, RemoveParents
<1>6. ASSUME (\E i \in Path, v \in Image : UserWrite(i, v)) \/ (\E i \in Path :
   UserDelete(i)) \/ (\E d \in Dir : UserRemoveDir(d)) \/ Launch \/ Mark \/ BridgeGone
   \/ SessionOver
      PROVE  UNCHANGED <<pc, cur>>
  BY <1>6 DEF UserWrite, loop, UserDelete, UserRemoveDir, Launch, Mark, BridgeGone,
     SessionOver
<1>7. CASE UNCHANGED vars
  BY <1>7 DEF CursorOK, vars, loop
<1>8. QED
  BY <1>1, <1>2, <1>3, <1>4, <1>5, <1>6, <1>7 DEF CursorOK, Next, Step, Outside

\* TypeOK and CursorOK are an inductive invariant.
THEOREM TypeCorrect == Spec => []TypeOK
<1>1. Init => TypeOK /\ CursorOK
  BY TypeInit
<1>2. TypeOK /\ CursorOK /\ [Next]_vars => (TypeOK /\ CursorOK)'
  BY TypeStep, CursorStep
<1>3. QED
  BY <1>1, <1>2, PTL DEF Spec

---------------------------------------------------------------------------
(* Nothing is lost *)

\* Found says the same as NothingLost, before and after a step.
LEMMA FoundIsNothingLost == Found => NothingLost
  BY DEF Found, NothingLost

\* Putting an original back keeps every image.
LEMMA PutBackKeeps ==
  ASSUME TypeOK, Found, NEW t \in Txn, NEW i \in Path, live[i] = Missing,
         live' = [live EXCEPT ![i] = old[t][i]], old' = [old EXCEPT ![t][i] = Missing],
         rolled' = rolled, owed' = owed
  PROVE  Found'
<1>1. SUFFICES ASSUME NEW j \in Path, NEW x \in owed[j]
               PROVE  x = live'[j] \/ \E s \in Txn : x = old'[s][j] \/ x = rolled[s][j]
  BY DEF Found
<1>2. x # Missing
  BY ImageAssumption DEF TypeOK, GhostOK
<1>3. live'[i] = old[t][i] /\ (j # i => live'[j] = live[j])
  BY DEF TypeOK, FilesOK, Shelf
<1>4. \A s \in Txn : s # t \/ j # i => old'[s][j] = old[s][j]
  BY DEF TypeOK, FilesOK, Shelf
<1>5. x = live[j] \/ \E s \in Txn : x = old[s][j] \/ x = rolled[s][j]
  BY DEF Found
<1>6. QED
  BY <1>2, <1>3, <1>4, <1>5

\* Moving an image to an empty place of a staging directory keeps every image.
LEMMA UndoKeeps ==
  ASSUME TypeOK, Found, NEW t \in Txn, NEW i \in Path, rolled[t][i] = Missing,
         rolled' = [rolled EXCEPT ![t][i] = live[i]], live' = [live EXCEPT ![i] =
            Missing],
         old' = old, owed' = owed
  PROVE  Found'
<1>1. SUFFICES ASSUME NEW j \in Path, NEW x \in owed[j]
               PROVE  x = live'[j] \/ \E s \in Txn : x = old[s][j] \/ x = rolled'[s][j]
  BY DEF Found
<1>2. x # Missing
  BY ImageAssumption DEF TypeOK, GhostOK
<1>3. rolled'[t][i] = live[i] /\ (j # i => live'[j] = live[j])
  BY DEF TypeOK, FilesOK, Shelf
<1>4. \A s \in Txn : s # t \/ j # i => rolled'[s][j] = rolled[s][j]
  BY DEF TypeOK, FilesOK, Shelf
<1>5. x = live[j] \/ \E s \in Txn : x = old[s][j] \/ x = rolled[s][j]
  BY DEF Found
<1>6. QED
  BY <1>2, <1>3, <1>4, <1>5

\* No step drops an image that an outsider wrote.
LEMMA FoundStep ==
  ASSUME TypeOK, CursorOK, Found, [Next]_vars
  PROVE  Found'
<1>1. ASSUME NEW t \in Txn, (\E i \in Path : Add(t, i) \/ Revalidate(t, i) \/
   ReadTarget(t, i) \/ CheckUndo(t, i)) \/ Begin(t) \/ Lock(t) \/ AlreadyHeld(t) \/
   AssertStopped(t) \/ Stage(t) \/ OpenJournal(t) \/ MakeParent(t) \/ Intent(t) \/
   RecordPending(t) \/ Installed(t) \/ Finish(t) \/ RemoveParents(t) \/ Report(t) \/
   Crash(t)
      PROVE  UNCHANGED <<live, old, rolled, owed>>
  BY <1>1 DEF Begin, inst, disk, ghost, Add, Lock, AlreadyHeld, Revalidate,
     AssertStopped, Stage, OpenJournal, ReadTarget, MakeParent, Intent, RecordPending,
     Installed, Finish, CheckUndo, RemoveParents, Report, Crash
<1>2. ASSUME NEW t \in Txn, Unwind(t)
      PROVE  Found'
  <2>1. cur[t] \in Path
    BY <1>2 DEF Unwind, CursorOK, CursorPC
  <2>2. rolled' = rolled /\ owed' = owed
    BY <1>2 DEF Unwind, ghost
  <2>3. CASE /\ live[cur[t]] = Missing
             /\ live' = [live EXCEPT ![cur[t]] = old[t][cur[t]]]
             /\ old' = [old EXCEPT ![t][cur[t]] = Missing]
    BY <2>1, <2>2, <2>3, PutBackKeeps
  <2>4. CASE UNCHANGED <<live, old>>
    BY <2>2, <2>4 DEF Found
  <2>5. QED
    BY <2>3, <2>4, <1>2 DEF Unwind, CanPlace, CanTake
<1>3. ASSUME NEW t \in Txn, RestorePending(t)
      PROVE  Found'
  <2>1. pending[t] \in Path
    BY <1>3 DEF RestorePending, TypeOK, MemoryOK
  <2>2. rolled' = rolled /\ owed' = owed
    BY <1>3 DEF RestorePending, ghost
  <2>3. CASE /\ live[pending[t]] = Missing
             /\ live' = [live EXCEPT ![pending[t]] = old[t][pending[t]]]
             /\ old' = [old EXCEPT ![t][pending[t]] = Missing]
    BY <2>1, <2>2, <2>3, PutBackKeeps
  <2>4. CASE UNCHANGED <<live, old>>
    BY <2>2, <2>4 DEF Found
  <2>5. QED
    BY <2>3, <2>4, <1>3 DEF RestorePending, CanPlace, CanTake
<1>4. ASSUME NEW t \in Txn, Undo(t)
      PROVE  Found'
  <2>1. cur[t] \in Path
    BY <1>4 DEF Undo, CursorOK, CursorPC
  <2>2. old' = old /\ owed' = owed
    BY <1>4 DEF Undo, ghost
  <2>3. CASE /\ rolled[t][cur[t]] = Missing
             /\ live' = [live EXCEPT ![cur[t]] = Missing]
             /\ rolled' = [rolled EXCEPT ![t][cur[t]] = live[cur[t]]]
    BY <2>1, <2>2, <2>3, UndoKeeps
  <2>4. CASE UNCHANGED <<live, rolled>>
    BY <2>2, <2>4 DEF Found
  <2>5. QED
    BY <2>3, <2>4, <1>4 DEF Undo, CanPlace, CanTake
<1>5. ASSUME NEW t \in Txn, Reinstate(t)
      PROVE  Found'
  <2>1. cur[t] \in Path
    BY <1>5 DEF Reinstate, CursorOK, CursorPC
  <2>2. rolled' = rolled /\ owed' = owed
    BY <1>5 DEF Reinstate, ghost
  <2>3. CASE /\ live[cur[t]] = Missing
             /\ live' = [live EXCEPT ![cur[t]] = old[t][cur[t]]]
             /\ old' = [old EXCEPT ![t][cur[t]] = Missing]
    BY <2>1, <2>2, <2>3, PutBackKeeps
  <2>4. CASE UNCHANGED <<live, old>>
    BY <2>2, <2>4 DEF Found
  <2>5. QED
    BY <2>3, <2>4, <1>5 DEF Reinstate, CanPlace, CanTake
<1>6. ASSUME NEW t \in Txn, Link(t)
      PROVE  Found'
  <2>1. cur[t] \in Path
    BY <1>6 DEF Link, CursorOK, CursorPC
  <2>2. QED
    BY <2>1, ImageAssumption, <1>6 DEF TypeOK, FilesOK, Shelf, GhostOK, Slot, Found,
       CanPlace, CanTake, Link, Goto, Fail, NextOp, disk, ghost
<1>7. ASSUME NEW t \in Txn, Install(t)
      PROVE  Found'
  <2>1. cur[t] \in Path
    BY <1>7 DEF Install, CursorOK, CursorPC
  <2>2. QED
    BY <2>1, ImageAssumption, <1>7 DEF TypeOK, FilesOK, Shelf, GhostOK, Slot, Found,
       CanPlace, CanTake, Install, Goto, Fail, disk, ghost
<1>8. ASSUME NEW t \in Txn, Displace(t)
      PROVE  Found'
  <2>1. cur[t] \in Path
    BY <1>8 DEF Displace, CursorOK, CursorPC
  <2>2. rolled' = rolled /\ owed' = owed
    BY <1>8 DEF Displace, ghost
  <2>3. \/ UNCHANGED <<live, old>>
        \/ /\ old[t][cur[t]] = Missing
           /\ old' = [old EXCEPT ![t][cur[t]] = live[cur[t]]]
           /\ live' = [live EXCEPT ![cur[t]] = Missing]
    BY <1>8 DEF Displace, CanTake
  <2>4. CASE UNCHANGED <<live, old>>
    BY <2>2, <2>4 DEF Found
  <2>5. CASE /\ old[t][cur[t]] = Missing
             /\ old' = [old EXCEPT ![t][cur[t]] = live[cur[t]]]
             /\ live' = [live EXCEPT ![cur[t]] = Missing]
    <3>1. SUFFICES ASSUME NEW j \in Path, NEW x \in owed[j]
                   PROVE  \/ x = live'[j]
                          \/ \E u \in Txn : x = old'[u][j] \/ x = rolled'[u][j]
      BY <2>2 DEF Found
    <3>2. x # Missing
      BY ImageAssumption DEF TypeOK, GhostOK
    <3>3. x = live[j] \/ \E u \in Txn : x = old[u][j] \/ x = rolled[u][j]
      BY DEF Found
    <3>4. QED
      BY <2>1, <2>2, <2>5, <3>2, <3>3 DEF TypeOK, FilesOK, Shelf
  <2>6. QED
    BY <2>3, <2>4, <2>5
<1>9. ASSUME (\E d \in Dir : UserRemoveDir(d)) \/ Launch \/ Mark \/ BridgeGone \/
   SessionOver
      PROVE  UNCHANGED <<live, old, rolled, owed>>
  BY <1>9 DEF UserRemoveDir, disk, Launch, inst, ghost, Mark, BridgeGone, SessionOver
<1>10. ASSUME NEW i \in Path, NEW v \in Image, UserWrite(i, v)
      PROVE  Found'
  BY ImageAssumption, <1>10 DEF TypeOK, FilesOK, Shelf, GhostOK, Slot, CursorOK,
     CursorPC, Found, CanPlace, CanTake, UserWrite, disk
<1>11. ASSUME NEW i \in Path, UserDelete(i)
      PROVE  Found'
  BY ImageAssumption, <1>11 DEF TypeOK, FilesOK, Shelf, GhostOK, Slot, CursorOK,
     CursorPC, Found, CanPlace, CanTake, UserDelete, disk
<1>12. CASE UNCHANGED vars
  BY <1>12 DEF Found, vars, inst, disk, ghost
<1>13. QED
  BY <1>1, <1>2, <1>3, <1>4, <1>5, <1>6, <1>7, <1>8, <1>9, <1>10, <1>11, <1>12 DEF
     Found, Next, Step, Outside

\* What the user or the game wrote is never destroyed by any interleaving.
THEOREM Retention == Spec => []NothingLost
<1>1. Init => TypeOK /\ CursorOK /\ Found
  BY TypeInit DEF Init, Found
<1>2. TypeOK /\ CursorOK /\ Found /\ [Next]_vars => (TypeOK /\ CursorOK /\ Found)'
  BY TypeStep, CursorStep, FoundStep
<1>3. Found => NothingLost
  BY FoundIsNothingLost
<1>4. QED
  BY <1>1, <1>2, <1>3, PTL DEF Spec

---------------------------------------------------------------------------
(* No stale plan is carried out *)

\* Nobody revalidates, commits or rolls back without the lease.
LEMMA LeaseStep ==
  ASSUME TypeOK, LeaseOK, [Next]_vars
  PROVE  LeaseOK'
<1>1. ASSUME NEW t \in Txn, (\E i \in Path : Add(t, i) \/ Revalidate(t, i)) \/ Begin(t)
   \/ Lock(t) \/ AlreadyHeld(t)
      PROVE  LeaseOK'
  BY TxnAssumption, <1>1 DEF TypeOK, ControlOK, LeaseOK, Leased, GuardPC, CommitPC,
     Goto, Leave, Begin, Add, guards, Lock, AlreadyHeld, Revalidate
<1>2. ASSUME NEW t \in Txn, AssertStopped(t) \/ Stage(t) \/ OpenJournal(t) \/ Finish(t)
   \/ Report(t) \/ Crash(t)
      PROVE  LeaseOK'
  BY TxnAssumption, <1>2 DEF TypeOK, ControlOK, LeaseOK, Leased, GuardPC, CommitPC,
     Goto, Leave, AssertStopped, guards, Stage, OpenJournal, Finish, Report, Crash
<1>3. ASSUME NEW t \in Txn, (\E i \in Path : ReadTarget(t, i)) \/ MakeParent(t) \/
   Intent(t) \/ Link(t) \/ Displace(t) \/ RecordPending(t)
      PROVE  LeaseOK'
  BY TxnAssumption, <1>3 DEF TypeOK, ControlOK, LeaseOK, Leased, GuardPC, CommitPC,
     Goto, Fail, NextOp, ReadTarget, guards, MakeParent, Intent, Link, Displace,
     RecordPending
<1>4. ASSUME NEW t \in Txn, Install(t) \/ Unwind(t) \/ Installed(t)
      PROVE  LeaseOK'
  BY TxnAssumption, <1>4 DEF TypeOK, ControlOK, LeaseOK, Leased, GuardPC, CommitPC,
     Goto, Fail, NextOp, Install, guards, Unwind, Installed
<1>5. ASSUME NEW t \in Txn, (\E i \in Path : CheckUndo(t, i)) \/ RestorePending(t) \/
   Undo(t) \/ Reinstate(t) \/ RemoveParents(t)
      PROVE  LeaseOK'
  BY TxnAssumption, <1>5 DEF TypeOK, ControlOK, LeaseOK, Leased, GuardPC, CommitPC,
     Goto, NextUndo, RestorePending, guards, CheckUndo, Undo, Reinstate, RemoveParents
<1>6. ASSUME (\E i \in Path, v \in Image : UserWrite(i, v)) \/ (\E i \in Path :
   UserDelete(i)) \/ (\E d \in Dir : UserRemoveDir(d)) \/ Mark \/ SessionOver
      PROVE  UNCHANGED <<pc, lease>>
  BY <1>6 DEF UserWrite, guards, UserDelete, UserRemoveDir, Mark, SessionOver
<1>7. ASSUME Launch
      PROVE  LeaseOK'
  BY TxnAssumption, <1>7 DEF TypeOK, ControlOK, LeaseOK, Leased, GuardPC, CommitPC,
     Goto, Launch
<1>8. ASSUME BridgeGone
      PROVE  LeaseOK'
  BY TxnAssumption, <1>8 DEF TypeOK, ControlOK, LeaseOK, Leased, GuardPC, CommitPC,
     Goto, BridgeGone
<1>9. CASE UNCHANGED vars
  BY <1>9 DEF LeaseOK, Leased, vars, guards
<1>10. QED
  BY <1>1, <1>2, <1>3, <1>4, <1>5, <1>6, <1>7, <1>8, <1>9 DEF LeaseOK, Leased, Next,
     Step, Outside

\* The staging directory is filled only by the commit loop.
LEMMA EmptyStep ==
  ASSUME TypeOK, OldEmpty, [Next]_vars
  PROVE  OldEmpty'
<1>1. ASSUME NEW t \in Txn, (\E i \in Path : Add(t, i) \/ Revalidate(t, i)) \/ Begin(t)
   \/ Lock(t) \/ AlreadyHeld(t)
      PROVE  OldEmpty'
  BY <1>1 DEF TypeOK, ControlOK, FilesOK, OldEmpty, EarlyPC, GuardPC, Goto, Leave,
     Begin, disk, Add, Lock, AlreadyHeld, Revalidate
<1>2. ASSUME NEW t \in Txn, AssertStopped(t) \/ Stage(t) \/ OpenJournal(t) \/ Finish(t)
   \/ Report(t) \/ Crash(t)
      PROVE  OldEmpty'
  BY <1>2 DEF TypeOK, ControlOK, FilesOK, OldEmpty, EarlyPC, GuardPC, Goto, Leave,
     AssertStopped, disk, Stage, OpenJournal, Finish, Report, Crash
<1>3. ASSUME NEW t \in Txn, (\E i \in Path : ReadTarget(t, i)) \/ MakeParent(t) \/
   Intent(t) \/ Link(t) \/ Displace(t) \/ RecordPending(t)
      PROVE  OldEmpty'
  BY <1>3 DEF TypeOK, ControlOK, FilesOK, OldEmpty, EarlyPC, GuardPC, Goto, Fail,
     NextOp, ReadTarget, disk, MakeParent, Intent, Link, Displace, RecordPending
<1>4. ASSUME NEW t \in Txn, Install(t) \/ Unwind(t) \/ Installed(t)
      PROVE  OldEmpty'
  BY <1>4 DEF TypeOK, ControlOK, FilesOK, OldEmpty, EarlyPC, GuardPC, Goto, Fail,
     NextOp, Install, disk, Unwind, Installed
<1>5. ASSUME NEW t \in Txn, (\E i \in Path : CheckUndo(t, i)) \/ RestorePending(t) \/
   Undo(t) \/ Reinstate(t) \/ RemoveParents(t)
      PROVE  OldEmpty'
  BY <1>5 DEF TypeOK, ControlOK, FilesOK, OldEmpty, EarlyPC, GuardPC, Goto, NextUndo,
     RestorePending, CheckUndo, disk, Undo, Reinstate, RemoveParents
<1>6. ASSUME (\E i \in Path, v \in Image : UserWrite(i, v)) \/ (\E i \in Path :
   UserDelete(i)) \/ (\E d \in Dir : UserRemoveDir(d)) \/ Launch \/ Mark \/ BridgeGone
   \/ SessionOver
      PROVE  UNCHANGED <<pc, old>>
  BY <1>6 DEF UserWrite, disk, UserDelete, UserRemoveDir, Launch, Mark, BridgeGone,
     SessionOver
<1>7. CASE UNCHANGED vars
  BY <1>7 DEF OldEmpty, vars, disk
<1>8. QED
  BY <1>1, <1>2, <1>3, <1>4, <1>5, <1>6, <1>7 DEF OldEmpty, Next, Step, Outside

\* Only the lease holder changes a destination it has just read.
LEMMA FreshStep ==
  ASSUME TypeOK, CursorOK, LeaseOK, Fresh, [Next]_vars
  PROVE  Fresh'
<1>1. ASSUME NEW t \in Txn, MakeParent(t) \/ Intent(t) \/ RecordPending(t)
      PROVE  Fresh'
  BY <1>1 DEF TypeOK, ControlOK, LoopOK, FilesOK, Shelf, PlanOK, GhostOK, Fresh,
     FreshPC, Goto, Fail, MakeParent, prep, ghost, Intent, inst, RecordPending
<1>2. ASSUME NEW t \in Txn, RemoveParents(t)
      PROVE  Fresh'
  BY <1>2 DEF TypeOK, ControlOK, LoopOK, FilesOK, Shelf, PlanOK, GhostOK, Fresh,
     FreshPC, Goto, RemoveParents, loop, prep, ghost
<1>3. ASSUME NEW t \in Txn, Link(t)
      PROVE  Fresh'
  <2>1. \A s \in Txn : pc[s] \in FreshPC => s = t
    BY <1>3 DEF LeaseOK, Leased, CommitPC, FreshPC, Link
  <2>2. pc'[t] \notin FreshPC /\ \A s \in Txn : s # t => pc'[s] = pc[s]
    BY <1>3 DEF TypeOK, ControlOK, FreshPC, Link, Goto, Fail, NextOp
  <2>3. QED
    BY <2>1, <2>2 DEF Fresh
<1>4. ASSUME NEW t \in Txn, Displace(t)
      PROVE  Fresh'
  <2>1. \A s \in Txn : pc[s] \in FreshPC => s = t
    BY <1>4 DEF LeaseOK, Leased, CommitPC, FreshPC, Displace
  <2>2. pc'[t] \notin FreshPC /\ \A s \in Txn : s # t => pc'[s] = pc[s]
    BY <1>4 DEF TypeOK, ControlOK, FreshPC, Displace, Goto, Fail
  <2>3. QED
    BY <2>1, <2>2 DEF Fresh
<1>5. ASSUME NEW t \in Txn, Install(t)
      PROVE  Fresh'
  <2>1. \A s \in Txn : pc[s] \in FreshPC => s = t
    BY <1>5 DEF LeaseOK, Leased, CommitPC, FreshPC, Install
  <2>2. pc'[t] \notin FreshPC /\ \A s \in Txn : s # t => pc'[s] = pc[s]
    BY <1>5 DEF TypeOK, ControlOK, FreshPC, Install, Goto, Fail
  <2>3. QED
    BY <2>1, <2>2 DEF Fresh
<1>6. ASSUME NEW t \in Txn, Unwind(t)
      PROVE  Fresh'
  <2>1. \A s \in Txn : pc[s] \in FreshPC => s = t
    BY <1>6 DEF LeaseOK, Leased, CommitPC, FreshPC, Unwind
  <2>2. pc'[t] \notin FreshPC /\ \A s \in Txn : s # t => pc'[s] = pc[s]
    BY <1>6 DEF TypeOK, ControlOK, FreshPC, Unwind, Fail, Goto
  <2>3. QED
    BY <2>1, <2>2 DEF Fresh
<1>7. ASSUME NEW t \in Txn, RestorePending(t)
      PROVE  Fresh'
  <2>1. \A s \in Txn : pc[s] \in FreshPC => s = t
    BY <1>7 DEF LeaseOK, Leased, CommitPC, FreshPC, RestorePending
  <2>2. pc'[t] \notin FreshPC /\ \A s \in Txn : s # t => pc'[s] = pc[s]
    BY <1>7 DEF TypeOK, ControlOK, FreshPC, RestorePending, Goto
  <2>3. QED
    BY <2>1, <2>2 DEF Fresh
<1>8. ASSUME NEW t \in Txn, Undo(t)
      PROVE  Fresh'
  <2>1. \A s \in Txn : pc[s] \in FreshPC => s = t
    BY <1>8 DEF LeaseOK, Leased, CommitPC, FreshPC, Undo
  <2>2. pc'[t] \notin FreshPC /\ \A s \in Txn : s # t => pc'[s] = pc[s]
    BY <1>8 DEF TypeOK, ControlOK, FreshPC, Undo, Goto, NextUndo
  <2>3. QED
    BY <2>1, <2>2 DEF Fresh
<1>9. ASSUME NEW t \in Txn, Reinstate(t)
      PROVE  Fresh'
  <2>1. \A s \in Txn : pc[s] \in FreshPC => s = t
    BY <1>9 DEF LeaseOK, Leased, CommitPC, FreshPC, Reinstate
  <2>2. pc'[t] \notin FreshPC /\ \A s \in Txn : s # t => pc'[s] = pc[s]
    BY <1>9 DEF TypeOK, ControlOK, FreshPC, Reinstate, Goto, NextUndo
  <2>3. QED
    BY <2>1, <2>2 DEF Fresh
<1>10. ASSUME NEW t \in Txn, NEW i \in Path, Add(t, i)
      PROVE  Fresh'
  <2>1. live' = live /\ pc'[t] \notin FreshPC
    BY <1>10 DEF Add, inst, TypeOK, ControlOK, FreshPC, Leave, Goto
  <2>2. \A s \in Txn : s # t => pc'[s] = pc[s] /\ cur'[s] = cur[s]
    BY <1>10 DEF Add, TypeOK, ControlOK, LoopOK, Leave, Goto
  <2>3. \A s \in Txn : s # t => before'[s] = before[s] /\ touched'[s] = touched[s]
    BY <1>10 DEF Add, TypeOK, PlanOK, GhostOK, prep
  <2>4. QED
    BY <2>1, <2>2, <2>3 DEF Fresh
<1>11. ASSUME NEW t \in Txn, NEW i \in Path, ReadTarget(t, i)
      PROVE  Fresh'
  <2>1. UNCHANGED <<live, before, touched>>
    BY <1>11 DEF ReadTarget, inst, prep, ghost
  <2>2. CASE pc'[t] \in FreshPC
    BY <2>1, <2>2, <1>11 DEF TypeOK, ControlOK, LoopOK, Fresh, FreshPC, ReadTarget,
       Goto, Fail, NextOp
  <2>3. CASE pc'[t] \notin FreshPC
    BY <2>1, <2>3, <1>11 DEF TypeOK, ControlOK, LoopOK, Fresh, FreshPC, ReadTarget,
       Goto, Fail, NextOp
  <2>4. QED
    BY <2>2, <2>3
<1>12. ASSUME NEW t \in Txn, Begin(t)
      PROVE  Fresh'
  <2>1. pc'[t] \notin FreshPC /\ UNCHANGED <<live, before, touched>>
    BY <1>12 DEF TypeOK, ControlOK, FreshPC, inst, prep, ghost, Begin, Goto
  <2>2. \A s \in Txn : s # t => pc'[s] = pc[s] /\ cur'[s] = cur[s]
    BY <1>12 DEF TypeOK, ControlOK, LoopOK, Begin, Goto
  <2>3. QED
    BY <2>1, <2>2 DEF Fresh
<1>13. ASSUME NEW t \in Txn, Lock(t)
      PROVE  Fresh'
  <2>1. pc'[t] \notin FreshPC /\ UNCHANGED <<live, before, touched>>
    BY <1>13 DEF TypeOK, ControlOK, FreshPC, inst, prep, ghost, Lock, Goto, Leave
  <2>2. \A s \in Txn : s # t => pc'[s] = pc[s] /\ cur'[s] = cur[s]
    BY <1>13 DEF TypeOK, ControlOK, LoopOK, Lock, Goto, Leave
  <2>3. QED
    BY <2>1, <2>2 DEF Fresh
<1>14. ASSUME NEW t \in Txn, AlreadyHeld(t)
      PROVE  Fresh'
  <2>1. pc'[t] \notin FreshPC /\ UNCHANGED <<live, before, touched>>
    BY <1>14 DEF TypeOK, ControlOK, FreshPC, inst, prep, ghost, AlreadyHeld, Goto
  <2>2. \A s \in Txn : s # t => pc'[s] = pc[s] /\ cur'[s] = cur[s]
    BY <1>14 DEF TypeOK, ControlOK, LoopOK, AlreadyHeld, Goto
  <2>3. QED
    BY <2>1, <2>2 DEF Fresh
<1>15. ASSUME NEW t \in Txn, NEW i \in Path, CheckUndo(t, i)
      PROVE  Fresh'
  <2>1. pc'[t] \notin FreshPC /\ UNCHANGED <<live, before, touched>>
    BY <1>15 DEF TypeOK, ControlOK, FreshPC, inst, prep, ghost, CheckUndo, Goto
  <2>2. \A s \in Txn : s # t => pc'[s] = pc[s] /\ cur'[s] = cur[s]
    BY <1>15 DEF TypeOK, ControlOK, LoopOK, CheckUndo, Goto
  <2>3. QED
    BY <2>1, <2>2 DEF Fresh
<1>16. ASSUME NEW t \in Txn, NEW i \in Path, Revalidate(t, i)
      PROVE  Fresh'
  <2>1. pc'[t] \notin FreshPC /\ UNCHANGED <<live, before, touched>>
    BY <1>16 DEF TypeOK, ControlOK, FreshPC, inst, prep, ghost, Revalidate, Leave, Goto
  <2>2. \A s \in Txn : s # t => pc'[s] = pc[s] /\ cur'[s] = cur[s]
    BY <1>16 DEF TypeOK, ControlOK, LoopOK, Revalidate, Leave, Goto
  <2>3. QED
    BY <2>1, <2>2 DEF Fresh
<1>17. ASSUME NEW t \in Txn, AssertStopped(t)
      PROVE  Fresh'
  <2>1. pc'[t] \notin FreshPC /\ UNCHANGED <<live, before, touched>>
    BY <1>17 DEF TypeOK, ControlOK, FreshPC, inst, prep, ghost, AssertStopped, Goto,
       Leave
  <2>2. \A s \in Txn : s # t => pc'[s] = pc[s] /\ cur'[s] = cur[s]
    BY <1>17 DEF TypeOK, ControlOK, LoopOK, AssertStopped, Goto, Leave, loop
  <2>3. QED
    BY <2>1, <2>2 DEF Fresh
<1>18. ASSUME NEW t \in Txn, Stage(t)
      PROVE  Fresh'
  <2>1. pc'[t] \notin FreshPC /\ UNCHANGED <<live, before, touched>>
    BY <1>18 DEF TypeOK, ControlOK, FreshPC, inst, prep, ghost, Stage, Goto, Leave
  <2>2. \A s \in Txn : s # t => pc'[s] = pc[s] /\ cur'[s] = cur[s]
    BY <1>18 DEF TypeOK, ControlOK, LoopOK, Stage, Goto, Leave
  <2>3. QED
    BY <2>1, <2>2 DEF Fresh
<1>19. ASSUME NEW t \in Txn, OpenJournal(t)
      PROVE  Fresh'
  <2>1. pc'[t] \notin FreshPC /\ UNCHANGED <<live, before, touched>>
    BY <1>19 DEF TypeOK, ControlOK, FreshPC, inst, prep, ghost, OpenJournal, Goto, Leave
  <2>2. \A s \in Txn : s # t => pc'[s] = pc[s] /\ cur'[s] = cur[s]
    BY <1>19 DEF TypeOK, ControlOK, LoopOK, OpenJournal, Goto, Leave
  <2>3. QED
    BY <2>1, <2>2 DEF Fresh
<1>20. ASSUME NEW t \in Txn, Finish(t)
      PROVE  Fresh'
  <2>1. pc'[t] \notin FreshPC /\ UNCHANGED <<live, before, touched>>
    BY <1>20 DEF TypeOK, ControlOK, FreshPC, inst, prep, ghost, Finish, Leave, Goto
  <2>2. \A s \in Txn : s # t => pc'[s] = pc[s] /\ cur'[s] = cur[s]
    BY <1>20 DEF TypeOK, ControlOK, LoopOK, Finish, Leave, Goto
  <2>3. QED
    BY <2>1, <2>2 DEF Fresh
<1>21. ASSUME NEW t \in Txn, Report(t)
      PROVE  Fresh'
  <2>1. pc'[t] \notin FreshPC /\ UNCHANGED <<live, before, touched>>
    BY <1>21 DEF TypeOK, ControlOK, FreshPC, inst, prep, ghost, Report, Leave, Goto
  <2>2. \A s \in Txn : s # t => pc'[s] = pc[s] /\ cur'[s] = cur[s]
    BY <1>21 DEF TypeOK, ControlOK, LoopOK, Report, Leave, Goto
  <2>3. QED
    BY <2>1, <2>2 DEF Fresh
<1>22. ASSUME NEW t \in Txn, Crash(t)
      PROVE  Fresh'
  <2>1. pc'[t] \notin FreshPC /\ UNCHANGED <<live, before, touched>>
    BY <1>22 DEF TypeOK, ControlOK, FreshPC, inst, prep, ghost, Crash, Leave, Goto
  <2>2. \A s \in Txn : s # t => pc'[s] = pc[s] /\ cur'[s] = cur[s]
    BY <1>22 DEF TypeOK, ControlOK, LoopOK, Crash, Leave, Goto
  <2>3. QED
    BY <2>1, <2>2 DEF Fresh
<1>23. ASSUME NEW t \in Txn, Installed(t)
      PROVE  Fresh'
  <2>1. pc'[t] \notin FreshPC /\ UNCHANGED <<live, before, touched>>
    BY <1>23 DEF TypeOK, ControlOK, FreshPC, inst, prep, ghost, Installed, Fail,
       NextOp, Goto
  <2>2. \A s \in Txn : s # t => pc'[s] = pc[s] /\ cur'[s] = cur[s]
    BY <1>23 DEF TypeOK, ControlOK, LoopOK, Installed, Fail, NextOp, Goto
  <2>3. QED
    BY <2>1, <2>2 DEF Fresh
<1>24. ASSUME Launch \/ Mark \/ BridgeGone \/ SessionOver
      PROVE  UNCHANGED <<pc, cur, live, touched, before>>
  BY <1>24 DEF Launch, inst, loop, prep, ghost, Mark, BridgeGone, SessionOver
<1>25. ASSUME NEW i \in Path, NEW v \in Image, UserWrite(i, v)
      PROVE  Fresh'
  BY <1>25 DEF TypeOK, ControlOK, LoopOK, FilesOK, Shelf, PlanOK, GhostOK, Fresh,
     FreshPC, Goto, CursorOK, CursorPC, Touch, UserWrite, loop, prep
<1>26. ASSUME NEW i \in Path, UserDelete(i)
      PROVE  Fresh'
  BY <1>26 DEF TypeOK, ControlOK, LoopOK, FilesOK, Shelf, PlanOK, GhostOK, Fresh,
     FreshPC, Goto, CursorOK, CursorPC, Touch, UserDelete, loop, prep
<1>27. ASSUME NEW d \in Dir, UserRemoveDir(d)
      PROVE  Fresh'
  BY <1>27 DEF TypeOK, ControlOK, LoopOK, FilesOK, Shelf, PlanOK, GhostOK, Fresh,
     FreshPC, Goto, CursorOK, CursorPC, Touch, UserRemoveDir, loop, prep
<1>28. CASE UNCHANGED vars
  BY <1>28 DEF Fresh, vars, inst, loop, prep, ghost
<1>29. QED
  BY <1>1, <1>2, <1>3, <1>4, <1>5, <1>6, <1>7, <1>8, <1>9, <1>10, <1>11, <1>12, <1>13,
     <1>14, <1>15, <1>16, <1>17, <1>18, <1>19, <1>20, <1>21, <1>22, <1>23, <1>24,
     <1>25, <1>26, <1>27, <1>28 DEF Fresh, Next, Step, Outside

\* A file is displaced only if it is the one the plan saw.
LEMMA StaleStep ==
  ASSUME TypeOK, CursorOK, OldEmpty, Fresh, NoStaleOverwrite, [Next]_vars
  PROVE  NoStaleOverwrite'
<1>1. ASSUME NEW t \in Txn, (\E i \in Path : Revalidate(t, i) \/ ReadTarget(t, i) \/
   CheckUndo(t, i)) \/ Begin(t) \/ Lock(t) \/ AlreadyHeld(t) \/ AssertStopped(t) \/
   Stage(t) \/ OpenJournal(t) \/ MakeParent(t) \/ Intent(t) \/ Link(t) \/
   RecordPending(t) \/ Install(t) \/ Installed(t) \/ Finish(t) \/ Undo(t) \/
   RemoveParents(t) \/ Report(t) \/ Crash(t)
      PROVE  UNCHANGED <<old, touched, before>>
  BY <1>1 DEF Begin, prep, disk, ghost, Lock, AlreadyHeld, Revalidate, AssertStopped,
     Stage, OpenJournal, ReadTarget, MakeParent, Intent, Link, RecordPending, Install,
     Installed, Finish, CheckUndo, Undo, RemoveParents, Report, Crash
<1>2. ASSUME NEW t \in Txn, (\E i \in Path : Add(t, i))
      PROVE  NoStaleOverwrite'
  BY <1>2 DEF TypeOK, FilesOK, PlanOK, GhostOK, NoStaleOverwrite, OldEmpty, EarlyPC,
     Add, prep, disk
<1>3. ASSUME NEW t \in Txn, Unwind(t)
      PROVE  NoStaleOverwrite'
  <2>1. UNCHANGED <<before, touched>>
    BY <1>3 DEF Unwind, prep, ghost
  <2>2. old' = old \/ old' = [old EXCEPT ![t][cur[t]] = Missing]
    BY <1>3 DEF Unwind
  <2>3. \A s \in Txn, j \in Path : old'[s][j] \in {old[s][j], Missing}
    BY <2>2 DEF TypeOK, FilesOK, Shelf
  <2>4. QED
    BY <2>1, <2>3 DEF NoStaleOverwrite
<1>4. ASSUME NEW t \in Txn, RestorePending(t)
      PROVE  NoStaleOverwrite'
  <2>1. UNCHANGED <<before, touched>>
    BY <1>4 DEF RestorePending, prep, ghost
  <2>2. old' = old \/ old' = [old EXCEPT ![t][pending[t]] = Missing]
    BY <1>4 DEF RestorePending
  <2>3. \A s \in Txn, j \in Path : old'[s][j] \in {old[s][j], Missing}
    BY <2>2 DEF TypeOK, FilesOK, Shelf
  <2>4. QED
    BY <2>1, <2>3 DEF NoStaleOverwrite
<1>5. ASSUME NEW t \in Txn, Reinstate(t)
      PROVE  NoStaleOverwrite'
  <2>1. UNCHANGED <<before, touched>>
    BY <1>5 DEF Reinstate, prep, ghost
  <2>2. old' = old \/ old' = [old EXCEPT ![t][cur[t]] = Missing]
    BY <1>5 DEF Reinstate
  <2>3. \A s \in Txn, j \in Path : old'[s][j] \in {old[s][j], Missing}
    BY <2>2 DEF TypeOK, FilesOK, Shelf
  <2>4. QED
    BY <2>1, <2>3 DEF NoStaleOverwrite
<1>6. ASSUME NEW t \in Txn, Displace(t)
      PROVE  NoStaleOverwrite'
  <2>1. cur[t] \in Path /\ UNCHANGED <<before, touched>>
    BY <1>6 DEF Displace, CursorOK, CursorPC, prep, ghost
  <2>2. cur[t] \in touched[t] \/ live[cur[t]] = before[t][cur[t]]
    BY <1>6 DEF Displace, Fresh, FreshPC
  <2>3. old' = old \/ old' = [old EXCEPT ![t][cur[t]] = live[cur[t]]]
    BY <1>6 DEF Displace
  <2>4. \A s \in Txn, j \in Path : \/ old'[s][j] = old[s][j]
                                   \/ s = t /\ j = cur[t] /\ old'[s][j] = live[j]
    BY <2>1, <2>3 DEF TypeOK, FilesOK, Shelf
  <2>5. QED
    BY <2>1, <2>2, <2>4 DEF NoStaleOverwrite
<1>7. ASSUME Launch \/ Mark \/ BridgeGone \/ SessionOver
      PROVE  UNCHANGED <<old, touched, before>>
  BY <1>7 DEF Launch, prep, disk, ghost, Mark, BridgeGone, SessionOver
<1>8. ASSUME NEW i \in Path, NEW v \in Image, UserWrite(i, v)
      PROVE  NoStaleOverwrite'
  BY <1>8 DEF TypeOK, FilesOK, PlanOK, GhostOK, NoStaleOverwrite, OldEmpty, EarlyPC,
     Touch, UserWrite, prep, disk
<1>9. ASSUME NEW i \in Path, UserDelete(i)
      PROVE  NoStaleOverwrite'
  BY <1>9 DEF TypeOK, FilesOK, PlanOK, GhostOK, NoStaleOverwrite, OldEmpty, EarlyPC,
     Touch, UserDelete, prep, disk
<1>10. ASSUME NEW d \in Dir, UserRemoveDir(d)
      PROVE  NoStaleOverwrite'
  BY <1>10 DEF TypeOK, FilesOK, PlanOK, GhostOK, NoStaleOverwrite, OldEmpty, EarlyPC,
     Touch, UserRemoveDir, prep, disk
<1>11. CASE UNCHANGED vars
  BY <1>11 DEF NoStaleOverwrite, vars, prep, disk, ghost
<1>12. QED
  BY <1>1, <1>2, <1>3, <1>4, <1>5, <1>6, <1>7, <1>8, <1>9, <1>10, <1>11 DEF
     NoStaleOverwrite, Next, Step, Outside

\* No interleaving of transactions lets one replace an image it never read.
THEOREM NoStalePlan == Spec => []NoStaleOverwrite
<1> DEFINE IInv == /\ TypeOK /\ CursorOK /\ LeaseOK
                   /\ OldEmpty /\ Fresh /\ NoStaleOverwrite
<1>1. Init => IInv
  <2>1. SUFFICES ASSUME Init PROVE IInv
    OBVIOUS
  <2>2. TypeOK /\ CursorOK
    BY TypeInit, <2>1
  <2>3. LeaseOK
    BY <2>1 DEF Init, LeaseOK, Leased, GuardPC, CommitPC
  <2>4. OldEmpty /\ NoStaleOverwrite
    BY <2>1 DEF Init, OldEmpty, NoStaleOverwrite
  <2>5. Fresh
    BY <2>1 DEF Init, Fresh, FreshPC
  <2>6. QED
    BY <2>2, <2>3, <2>4, <2>5
<1>2. IInv /\ [Next]_vars => IInv'
  BY TypeStep, CursorStep, LeaseStep, EmptyStep, FreshStep, StaleStep
<1>3. QED
  BY <1>1, <1>2, PTL DEF Spec

---------------------------------------------------------------------------
(* Where the original and the payload of a planned operation are *)

\* Before its turn, with its original out, and with its payload in
BeforePC == {"committing", "mkdir", "intent", "linking", "displacing"}
OutPC == {"displaced", "installing", "unwinding"}
LoopPC == BeforePC \cup OutPC \cup {"installed"}
UndoPC == {"rollback", "undoing", "reinstating", "reportClean"}

\* What the loop variables and the memory of t say of each other
PlanSound(t) ==
    /\ pc[t] = "idle" => plan[t] = {}
    /\ pc[t] = "preparing" => plan[t] \cap todo[t] = {}
    /\ \A i \in plan[t] \cap SeedPath : before[t][i] = Missing
    /\ pc[t] \in EarlyPC => committed[t] = {} /\ pending[t] = NoPath
LoopSound(t) ==
    pc[t] \in LoopPC =>
        /\ committed[t] \subseteq plan[t] /\ todo[t] \subseteq plan[t]
        /\ committed[t] \cap todo[t] = {}
        /\ pc[t] # "committing" => cur[t] \in todo[t]
        /\ pc[t] \in BeforePC => pending[t] = NoPath
        /\ pc[t] \in OutPC \cup {"displacing"} => cur[t] \notin SeedPath
        /\ pc[t] = "linking" => cur[t] \in SeedPath
        /\ pc[t] \in {"displaced", "unwinding"} => pending[t] = cur[t]
        /\ pc[t] \in {"displacing", "displaced", "unwinding"} =>
               before[t][cur[t]] # Missing
        /\ pc[t] = "installing" =>
               pending[t] = IF before[t][cur[t]] = Missing THEN NoPath ELSE cur[t]
UndoSound(t) ==
    pc[t] \in UndoPC =>
        /\ todo[t] \subseteq committed[t] /\ committed[t] \subseteq plan[t]
        /\ pending[t] \notin committed[t]
        /\ pc[t] # "rollback" => pending[t] = NoPath
        /\ pc[t] \in {"undoing", "reinstating"} => cur[t] \in todo[t]
        /\ pc[t] = "reportClean" => todo[t] = {}
Sound(t) == PlanSound(t) /\ LoopSound(t) /\ UndoSound(t)
BooksOK == \A t \in Txn : Sound(t)

Ahead(t, i)   == old[t][i] = Missing /\ AsPlanned(t, i)
Out(t, i)     == old[t][i] = before[t][i] /\ live[i] = Missing
In(t, i)      == old[t][i] = before[t][i] /\ live[i] = Want[t][i]
Skipped(t, i) == old[t][i] = Missing /\ i \in SeedPath /\ live[i] \in Regular
Back(t, i)    == old[t][i] = Missing /\ live[i] = before[t][i]
Left(t, i)    == old[t][i] = Missing /\ (live[i] = before[t][i] \/ i \in SeedPath)
OnDisk(t, i)  == before[t][i] # Missing =>
                     before[t][i] = IF old[t][i] # Missing THEN old[t][i] ELSE live[i]

\* The second revalidation holds until the loop begins
Checked(t, i) ==
    pc[t] = "opening" \/ (pc[t] = "rechecking" /\ i \notin todo[t]) => AsPlanned(t, i)

\* Committed, skipped, at work, or still to come
InLoop(t, i) ==
    pc[t] \in LoopPC =>
        /\ i \in committed[t] => In(t, i)
        /\ i \notin committed[t] \cup todo[t] => Skipped(t, i)
        /\ i \in todo[t] /\ (i # cur[t] \/ pc[t] \in BeforePC) => Ahead(t, i)
        /\ i = cur[t] /\ pc[t] \in OutPC => Out(t, i)
        /\ i = cur[t] /\ pc[t] = "installed" => In(t, i)

\* To be put back at once, to be undone, at work, undone, or never reached
InUndo(t, i) ==
    pc[t] \in UndoPC =>
        /\ i = pending[t] => Out(t, i)
        /\ i \in todo[t] /\ (i # cur[t] \/ pc[t] # "reinstating") => In(t, i)
        /\ i = cur[t] /\ pc[t] = "reinstating" => Out(t, i)
        /\ i \in committed[t] \ todo[t] => Back(t, i)
        /\ i \notin committed[t] \cup {pending[t]} => Left(t, i)

\* A rollback that stopped leaves every original on disk
Stopped(t, i) == pc[t] = "reportFailed" => OnDisk(t, i)

Where(t, i) == Checked(t, i) /\ InLoop(t, i) /\ InUndo(t, i) /\ Stopped(t, i)
Settled(t) == \A i \in plan[t] \ touched[t] : Where(t, i)
WhereOK == \A t \in Txn : Settled(t)

\* Directories of a clean rollback are gone, unless an outsider needed them
DirsGone == \A t \in Txn : pc[t] = "reportClean" =>
               \A d \in created[t] : d \in present =>
                   \E i \in touched[t] : ParentOf[i] = d

---------------------------------------------------------------------------
(* What the others see of a step *)

\* The state a transaction keeps for itself
Same(s) == /\ pc'[s] = pc[s] /\ todo'[s] = todo[s] /\ cur'[s] = cur[s]
           /\ plan'[s] = plan[s] /\ before'[s] = before[s]
           /\ committed'[s] = committed[s] /\ pending'[s] = pending[s]
           /\ created'[s] = created[s] /\ old'[s] = old[s]

\* A step of one transaction leaves what the others keep for themselves.
LEMMA OwnStep ==
  ASSUME TypeOK, NEW t \in Txn, Begin(t) \/ Step(t) \/ Crash(t), NEW s \in Txn, s # t
  PROVE  Same(s) /\ touched'[s] = touched[s]
<1>1. ASSUME NEW i \in Path, Add(t, i)
      PROVE  Same(s) /\ touched'[s] = touched[s]
  BY <1>1 DEF Add, Goto, Leave, inst, loop, prep, mem, disk, ghost, TypeOK, ControlOK,
     LoopOK, PlanOK, MemoryOK, DirsOK, FilesOK, GhostOK, Same
<1>2. ASSUME NEW i \in Path, Revalidate(t, i)
      PROVE  Same(s) /\ touched'[s] = touched[s]
  BY <1>2 DEF Revalidate, Goto, Leave, inst, loop, prep, mem, disk, ghost, TypeOK,
     ControlOK, LoopOK, PlanOK, MemoryOK, DirsOK, FilesOK, GhostOK, Same
<1>3. ASSUME NEW i \in Path, ReadTarget(t, i)
      PROVE  Same(s) /\ touched'[s] = touched[s]
  BY <1>3 DEF ReadTarget, Goto, Fail, NextOp, inst, loop, prep, mem, disk, ghost,
     TypeOK, ControlOK, LoopOK, PlanOK, MemoryOK, DirsOK, FilesOK, GhostOK, Same
<1>4. ASSUME NEW i \in Path, CheckUndo(t, i)
      PROVE  Same(s) /\ touched'[s] = touched[s]
  BY <1>4 DEF CheckUndo, Goto, inst, loop, prep, mem, disk, ghost, TypeOK, ControlOK,
     LoopOK, PlanOK, MemoryOK, DirsOK, FilesOK, GhostOK, Same
<1>5. CASE Begin(t)
  BY <1>5 DEF Begin, Goto, inst, loop, prep, mem, disk, ghost, TypeOK, ControlOK,
     LoopOK, PlanOK, MemoryOK, DirsOK, FilesOK, GhostOK, Same
<1>6. CASE Lock(t)
  BY <1>6 DEF Lock, Goto, Leave, inst, loop, prep, mem, disk, ghost, TypeOK, ControlOK,
     LoopOK, PlanOK, MemoryOK, DirsOK, FilesOK, GhostOK, Same
<1>7. CASE AlreadyHeld(t)
  BY <1>7 DEF AlreadyHeld, Goto, inst, loop, prep, mem, disk, ghost, TypeOK, ControlOK,
     LoopOK, PlanOK, MemoryOK, DirsOK, FilesOK, GhostOK, Same
<1>8. CASE AssertStopped(t)
  BY <1>8 DEF AssertStopped, Goto, Leave, inst, loop, prep, mem, disk, ghost, TypeOK,
     ControlOK, LoopOK, PlanOK, MemoryOK, DirsOK, FilesOK, GhostOK, Same
<1>9. CASE Stage(t)
  BY <1>9 DEF Stage, Goto, Leave, inst, loop, prep, mem, disk, ghost, TypeOK, ControlOK,
     LoopOK, PlanOK, MemoryOK, DirsOK, FilesOK, GhostOK, Same
<1>10. CASE OpenJournal(t)
  BY <1>10 DEF OpenJournal, Goto, Leave, inst, loop, prep, mem, disk, ghost, TypeOK,
     ControlOK, LoopOK, PlanOK, MemoryOK, DirsOK, FilesOK, GhostOK, Same
<1>11. CASE MakeParent(t)
  BY <1>11 DEF MakeParent, Goto, Fail, inst, loop, prep, mem, disk, ghost, TypeOK,
     ControlOK, LoopOK, PlanOK, MemoryOK, DirsOK, FilesOK, GhostOK, Same
<1>12. CASE Intent(t)
  BY <1>12 DEF Intent, Goto, Fail, inst, loop, prep, mem, disk, ghost, TypeOK,
     ControlOK, LoopOK, PlanOK, MemoryOK, DirsOK, FilesOK, GhostOK, Same
<1>13. CASE Link(t)
  BY <1>13 DEF Link, Goto, Fail, NextOp, inst, loop, prep, mem, disk, ghost, TypeOK,
     ControlOK, LoopOK, PlanOK, MemoryOK, DirsOK, FilesOK, GhostOK, Same
<1>14. CASE Displace(t)
  BY <1>14 DEF Displace, Goto, Fail, inst, loop, prep, mem, disk, ghost, TypeOK,
     ControlOK, LoopOK, PlanOK, MemoryOK, DirsOK, FilesOK, GhostOK, Same
<1>15. CASE RecordPending(t)
  BY <1>15 DEF RecordPending, Goto, Fail, inst, loop, prep, mem, disk, ghost, TypeOK,
     ControlOK, LoopOK, PlanOK, MemoryOK, DirsOK, FilesOK, GhostOK, Same
<1>16. CASE Install(t)
  BY <1>16 DEF Install, Goto, Fail, inst, loop, prep, mem, disk, ghost, TypeOK,
     ControlOK, LoopOK, PlanOK, MemoryOK, DirsOK, FilesOK, GhostOK, Same
<1>17. CASE Unwind(t)
  BY <1>17 DEF Unwind, Goto, Fail, inst, loop, prep, mem, disk, ghost, TypeOK,
     ControlOK, LoopOK, PlanOK, MemoryOK, DirsOK, FilesOK, GhostOK, Same
<1>18. CASE Installed(t)
  BY <1>18 DEF Installed, Goto, Fail, NextOp, inst, loop, prep, mem, disk, ghost,
     TypeOK, ControlOK, LoopOK, PlanOK, MemoryOK, DirsOK, FilesOK, GhostOK, Same
<1>19. CASE Finish(t)
  BY <1>19 DEF Finish, Goto, Leave, inst, loop, prep, mem, disk, ghost, TypeOK,
     ControlOK, LoopOK, PlanOK, MemoryOK, DirsOK, FilesOK, GhostOK, Same
<1>20. CASE RestorePending(t)
  BY <1>20 DEF RestorePending, Goto, inst, loop, prep, mem, disk, ghost, TypeOK,
     ControlOK, LoopOK, PlanOK, MemoryOK, DirsOK, FilesOK, GhostOK, Same
<1>21. CASE Undo(t)
  BY <1>21 DEF Undo, Goto, NextUndo, inst, loop, prep, mem, disk, ghost, TypeOK,
     ControlOK, LoopOK, PlanOK, MemoryOK, DirsOK, FilesOK, GhostOK, Same
<1>22. CASE Reinstate(t)
  BY <1>22 DEF Reinstate, Goto, NextUndo, inst, loop, prep, mem, disk, ghost, TypeOK,
     ControlOK, LoopOK, PlanOK, MemoryOK, DirsOK, FilesOK, GhostOK, Same
<1>23. CASE RemoveParents(t)
  BY <1>23 DEF RemoveParents, Goto, inst, loop, prep, mem, disk, ghost, TypeOK,
     ControlOK, LoopOK, PlanOK, MemoryOK, DirsOK, FilesOK, GhostOK, Same
<1>24. CASE Report(t)
  BY <1>24 DEF Report, Goto, Leave, inst, loop, prep, mem, disk, ghost, TypeOK,
     ControlOK, LoopOK, PlanOK, MemoryOK, DirsOK, FilesOK, GhostOK, Same
<1>25. CASE Crash(t)
  BY <1>25 DEF Crash, Goto, Leave, inst, loop, prep, mem, disk, ghost, TypeOK,
     ControlOK, LoopOK, PlanOK, MemoryOK, DirsOK, FilesOK, GhostOK, Same
<1>26. QED
  BY <1>1, <1>2, <1>3, <1>4, <1>5, <1>6, <1>7, <1>8, <1>9, <1>10, <1>11, <1>12, <1>13,
     <1>14, <1>15, <1>16, <1>17, <1>18, <1>19, <1>20, <1>21, <1>22, <1>23, <1>24, <1>25
     DEF Step

\* Only a transaction in its commit loop or its rollback changes files.
LEMMA WriterCommits ==
  ASSUME NEW t \in Txn, Begin(t) \/ Step(t) \/ Crash(t)
  PROVE  pc[t] \in CommitPC \/ UNCHANGED <<live, present>>
<1>1. CASE \E i \in Path : Add(t, i) \/ Revalidate(t, i) \/ ReadTarget(t, i) \/
   CheckUndo(t, i)
  BY <1>1 DEF Add, Revalidate, ReadTarget, CheckUndo, inst
<1>2. CASE Begin(t) \/ Lock(t) \/ AlreadyHeld(t) \/ AssertStopped(t) \/ Stage(t) \/
   OpenJournal(t) \/ Finish(t) \/ Report(t) \/ Crash(t)
  BY <1>2 DEF Begin, Lock, AlreadyHeld, AssertStopped, Stage, OpenJournal, Finish,
     Report, Crash, inst
<1>3. CASE MakeParent(t) \/ Intent(t) \/ Link(t) \/ Displace(t) \/ RecordPending(t) \/
   Install(t) \/ Unwind(t) \/ Installed(t) \/ RestorePending(t) \/ Undo(t) \/
   Reinstate(t) \/ RemoveParents(t)
  BY <1>3 DEF MakeParent, Intent, Link, Displace, RecordPending, Install, Unwind,
     Installed, RestorePending, Undo, Reinstate, RemoveParents, CommitPC
<1>4. QED
  BY <1>1, <1>2, <1>3 DEF Step

\* While a transaction holds the lease, a step of another changes no file.
LEMMA HolderAlone ==
  ASSUME LeaseOK, NEW t \in Txn, Begin(t) \/ Step(t) \/ Crash(t),
         NEW s \in Txn, s # t, Leased(s)
  PROVE  UNCHANGED <<live, present>>
<1>1. lease = s
  BY DEF LeaseOK
<1>2. pc[t] \notin CommitPC
  BY <1>1 DEF LeaseOK, Leased
<1>3. QED
  BY <1>2, WriterCommits

\* The user, the game and the bridge own nothing of a transaction, and what they
\* change is touched.
LEMMA OutsideStep ==
  ASSUME TypeOK, Outside, NEW s \in Txn
  PROVE  /\ Same(s) /\ touched[s] \subseteq touched'[s]
         /\ \A i \in Path \ touched'[s] : live'[i] = live[i]
         /\ \A d \in Dir : d \in present' /\ d \notin present =>
                \E i \in touched'[s] : ParentOf[i] = d
<1>1. ASSUME NEW i \in Path, NEW v \in Image, UserWrite(i, v)
      PROVE  /\ Same(s) /\ touched[s] \subseteq touched'[s]
             /\ \A j \in Path \ touched'[s] : live'[j] = live[j]
             /\ \A d \in Dir : d \in present' /\ d \notin present =>
                    \E j \in touched'[s] : ParentOf[j] = d
  BY <1>1 DEF UserWrite, Touch, loop, prep, mem, disk, TypeOK, FilesOK, Shelf, Same
<1>2. ASSUME NEW i \in Path, UserDelete(i)
      PROVE  /\ Same(s) /\ touched[s] \subseteq touched'[s]
             /\ \A j \in Path \ touched'[s] : live'[j] = live[j]
             /\ present' = present
  BY <1>2 DEF UserDelete, Touch, loop, prep, mem, disk, TypeOK, FilesOK, Shelf, Same
<1>3. ASSUME NEW d \in Dir, UserRemoveDir(d)
      PROVE  /\ Same(s) /\ touched[s] \subseteq touched'[s]
             /\ live' = live /\ present' \subseteq present
  BY <1>3 DEF UserRemoveDir, Touch, loop, prep, mem, disk, Same
<1>4. CASE Launch \/ Mark \/ BridgeGone \/ SessionOver
  BY <1>4 DEF Launch, Mark, BridgeGone, SessionOver, inst, loop, prep, mem, disk, ghost,
     Same
<1>5. QED
  BY <1>1, <1>2, <1>3, <1>4 DEF Outside

\* A transaction that did not move keeps its books, and its files if nobody
\* changed them.
LEMMA SameKeeps ==
  ASSUME NEW s \in Txn, Same(s), Sound(s), Settled(s),
         pc[s] \in {"opening", "rechecking"} \cup CommitPC =>
            \A i \in plan[s] \ touched'[s] : live'[i] = live[i],
         touched[s] \subseteq touched'[s]
  PROVE  Sound(s)' /\ Settled(s)'
<1>1. Sound(s)'
  BY DEF Same, Sound, PlanSound, LoopSound, UndoSound
<1>2. SUFFICES ASSUME NEW i \in plan[s] \ touched'[s]
               PROVE  Where(s, i)'
  BY <1>1 DEF Same, Settled
<1>3. Where(s, i)
  BY DEF Settled
<1>4. pc[s] \in {"opening", "rechecking"} \cup CommitPC => live'[i] = live[i]
  OBVIOUS
<1>5. Checked(s, i)'
  BY <1>3, <1>4 DEF Same, Where, Checked, AsPlanned
<1>6. InLoop(s, i)'
  BY <1>3, <1>4 DEF Same, Where, InLoop, LoopPC, BeforePC, OutPC, CommitPC, In, Out,
     Skipped, Ahead, AsPlanned
<1>7. InUndo(s, i)'
  BY <1>3, <1>4 DEF Same, Where, InUndo, UndoPC, CommitPC, In, Out, Back, Left
<1>8. Stopped(s, i)'
  BY <1>3, <1>4 DEF Same, Where, Stopped, CommitPC, OnDisk
<1>9. QED
  BY <1>5, <1>6, <1>7, <1>8 DEF Where

---------------------------------------------------------------------------
(* Each step keeps the books and the files of the transaction that takes it *)

\* A call that is over has nothing to keep.
LEMMA OverKeeps ==
  ASSUME NEW t \in Txn, Sound(t), pc'[t] \in FinalPC,
         plan'[t] = plan[t], before'[t] = before[t]
  PROVE  Sound(t)' /\ Settled(t)'
<1>1. Sound(t)'
  BY DEF Sound, PlanSound, LoopSound, UndoSound, FinalPC, LoopPC, BeforePC, OutPC,
     UndoPC,
     EarlyPC, GuardPC
<1>2. ASSUME NEW i \in plan'[t] \ touched'[t]
      PROVE  Where(t, i)'
  BY DEF Where, Checked, InLoop, InUndo, Stopped, FinalPC, LoopPC, BeforePC, OutPC,
     UndoPC
<1>3. QED
  BY <1>1, <1>2 DEF Settled

\* Until the second revalidation nothing is known of the files.
LEMMA EarlyKeeps ==
  ASSUME NEW t \in Txn, Sound(t), pc[t] \in EarlyPC,
         pc'[t] \in {"checking", "staging"} \/ (pc'[t] = "rechecking" /\ todo'[t] = plan[t]),
         plan'[t] = plan[t], before'[t] = before[t],
         committed'[t] = committed[t], pending'[t] = pending[t]
  PROVE  Sound(t)' /\ Settled(t)'
<1>1. Sound(t)'
  BY DEF Sound, PlanSound, LoopSound, UndoSound, LoopPC, BeforePC, OutPC, UndoPC,
     EarlyPC, GuardPC
<1>2. ASSUME NEW i \in plan'[t] \ touched'[t]
      PROVE  Where(t, i)'
  BY DEF Where, Checked, InLoop, InUndo, Stopped, LoopPC, BeforePC, OutPC, UndoPC
<1>3. QED
  BY <1>1, <1>2 DEF Settled

\* An error in the loop, at whatever point, leaves a state the rollback can undo.
LEMMA FailKeeps ==
  ASSUME TypeOK, NEW t \in Txn, Sound(t), Settled(t), pc[t] \in BeforePC \cup OutPC,
         pc'[t] = "rollback", todo'[t] = committed[t],
         UNCHANGED <<live, plan, before, committed, pending, old, touched>>
  PROVE  Sound(t)' /\ Settled(t)'
<1>1. plan[t] \subseteq Path /\ NoPath \notin Path
  BY PathAssumption DEF TypeOK, PlanOK, Path, NoPath
<1>2. LoopSound(t) /\ pc[t] \in LoopPC
  BY DEF Sound, LoopPC
<1>3. pending[t] \notin committed[t]
  BY <1>1, <1>2 DEF LoopSound, LoopPC, BeforePC, OutPC
<1>4. Sound(t)'
  BY <1>2, <1>3 DEF Sound, PlanSound, LoopSound, UndoSound, LoopPC, BeforePC, OutPC,
     UndoPC, EarlyPC, GuardPC
<1>5. ASSUME NEW i \in plan[t] \ touched[t]
      PROVE  Where(t, i)'
  <2>1. InLoop(t, i) /\ (i \in SeedPath => before[t][i] = Missing) /\ i # NoPath
    BY <1>1, <1>5 DEF Settled, Where, Sound, PlanSound
  <2>2. i = pending[t] => Out(t, i)
    BY <1>2, <2>1 DEF LoopSound, InLoop, LoopPC, BeforePC, OutPC
  <2>3. i \in committed[t] => In(t, i)
    BY <1>2, <2>1 DEF InLoop
  <2>4. i \notin committed[t] \cup {pending[t]} => Left(t, i)
    <3>1. CASE i \notin committed[t] \cup todo[t]
      BY <1>2, <2>1, <3>1 DEF InLoop, Skipped, Left
    <3>2. CASE i \in todo[t] /\ (i # cur[t] \/ pc[t] \in BeforePC)
      BY <1>2, <2>1, <3>2 DEF InLoop, Ahead, AsPlanned, Left
    <3>3. CASE i = cur[t] /\ pc[t] \in OutPC /\ i # pending[t]
      BY <1>2, <2>1, <3>3 DEF InLoop, Out, Left, LoopSound, OutPC
    <3>4. QED
      BY <3>1, <3>2, <3>3, <1>2 DEF LoopPC
  <2>5. InUndo(t, i)'
    BY <1>3, <2>2, <2>3, <2>4 DEF InUndo, UndoPC, Out, In, Left, Back
  <2>6. QED
    BY <2>5 DEF Where, Checked, InLoop, Stopped, LoopPC, BeforePC, OutPC
<1>6. QED
  BY <1>4, <1>5 DEF Settled

---------------------------------------------------------------------------
(* Planning *)

\* Begin starts with an empty plan.
LEMMA BeginKeeps ==
  ASSUME TypeOK, NEW t \in Txn, Sound(t), Begin(t)
  PROVE  Sound(t)' /\ Settled(t)'
<1>1. pc[t] = "idle" /\ pc'[t] = "preparing" /\ UNCHANGED <<plan, before, committed, pending>>
  BY DEF Begin, Goto, TypeOK, ControlOK, prep, mem
<1>2. Sound(t)'
  BY <1>1 DEF Sound, PlanSound, LoopSound, UndoSound, LoopPC, BeforePC, OutPC, UndoPC,
     EarlyPC
<1>3. ASSUME NEW i \in plan'[t] \ touched'[t]
      PROVE  Where(t, i)'
  BY <1>1 DEF Where, Checked, InLoop, InUndo, Stopped, LoopPC, BeforePC, OutPC, UndoPC
<1>4. QED
  BY <1>2, <1>3 DEF Settled

\* Prepared::add plans a destination once, and a seed only where there is nothing.
LEMMA AddKeeps ==
  ASSUME TypeOK, NEW t \in Txn, Sound(t), NEW i \in Path, Add(t, i)
  PROVE  Sound(t)' /\ Settled(t)'
<1>1. pc[t] = "preparing" /\ i \in todo[t] /\ UNCHANGED <<committed, pending>>
  BY DEF Add, Least, mem
<1>2. CASE SameKind(live[i], Want[t][i])
  <2>1. pc' = pc /\ todo'[t] = todo[t] \ {i} /\ before'[t][i] = live[i]
    BY <1>2 DEF Add, TypeOK, LoopOK, PlanOK, Shelf
  <2>2. \A j \in Path : j # i => before'[t][j] = before[t][j]
    BY <1>2 DEF Add, TypeOK, PlanOK, Shelf
  <2>3. plan'[t] = IF Planned(t, i, live[i]) THEN plan[t] \cup {i} ELSE plan[t]
    BY <1>2 DEF Add, TypeOK, PlanOK
  <2>4. plan[t] \subseteq Path /\ plan[t] \cap todo[t] = {}
    BY <1>1 DEF Sound, PlanSound, TypeOK, PlanOK
  <2>5. plan'[t] \cap todo'[t] = {}
    BY <2>1, <2>3, <2>4
  <2>6. \A j \in plan'[t] \cap SeedPath : before'[t][j] = Missing
    BY <1>1, <2>1, <2>2, <2>3, <2>4 DEF Planned, Sound, PlanSound
  <2>7. Sound(t)'
    BY <1>1, <2>1, <2>5, <2>6 DEF Sound, PlanSound, LoopSound, UndoSound, LoopPC,
       BeforePC, OutPC, UndoPC, EarlyPC
  <2>8. ASSUME NEW j \in plan'[t] \ touched'[t]
        PROVE  Where(t, j)'
    BY <1>1, <2>1 DEF Where, Checked, InLoop, InUndo, Stopped, LoopPC, BeforePC, OutPC,
       UndoPC
  <2>9. QED
    BY <2>7, <2>8 DEF Settled
<1>3. CASE ~SameKind(live[i], Want[t][i])
  <2>1. pc'[t] \in FinalPC /\ UNCHANGED <<plan, before>>
    BY <1>3 DEF Add, Leave, Goto, TypeOK, ControlOK, FinalPC, prep
  <2>2. QED
    BY <2>1, OverKeeps
<1>4. QED
  BY <1>2, <1>3

\* Taking the lease, or being refused it.
LEMMA LockKeeps ==
  ASSUME TypeOK, NEW t \in Txn, Sound(t), Lock(t) \/ AlreadyHeld(t)
  PROVE  Sound(t)' /\ Settled(t)'
<1>1. pc[t] \in EarlyPC /\ UNCHANGED <<plan, before, committed, pending>>
  BY DEF Lock, AlreadyHeld, prep, mem, EarlyPC
<1>2. pc'[t] = "checking" \/ pc'[t] \in FinalPC
  BY DEF Lock, AlreadyHeld, Leave, Goto, TypeOK, ControlOK, FinalPC
<1>3. QED
  BY <1>1, <1>2, OverKeeps, EarlyKeeps

\* A revalidated destination is as planned.
LEMMA RevalidateKeeps ==
  ASSUME TypeOK, NEW t \in Txn, Sound(t), Settled(t), NEW i \in Path, Revalidate(t, i)
  PROVE  Sound(t)' /\ Settled(t)'
<1>1. /\ pc[t] \in {"checking", "rechecking"}
      /\ UNCHANGED <<live, plan, before, committed, pending, old, touched>>
  BY DEF Revalidate, inst, prep, mem, disk, ghost
<1>2. CASE AsPlanned(t, i) /\ NoFault /\ pc' = pc /\ todo'[t] = todo[t] \ {i}
  <2>1. Sound(t)'
    BY <1>1, <1>2 DEF Sound, PlanSound, LoopSound, UndoSound, LoopPC, BeforePC, OutPC,
       UndoPC, EarlyPC, GuardPC
  <2>2. ASSUME NEW j \in plan[t] \ touched[t]
        PROVE  Where(t, j)'
    <3>1. Checked(t, j)
      BY <2>2 DEF Settled, Where
    <3>2. Checked(t, j)'
      BY <1>1, <1>2, <3>1 DEF Checked, AsPlanned
    <3>3. QED
      BY <1>1, <1>2, <3>2 DEF Where, InLoop, InUndo, Stopped, LoopPC, BeforePC, OutPC,
         UndoPC
  <2>3. QED
    BY <1>1, <2>1, <2>2 DEF Settled
<1>3. CASE pc'[t] \in FinalPC
  BY <1>1, <1>3, OverKeeps
<1>4. QED
  BY <1>2, <1>3 DEF Revalidate, Leave, Goto, TypeOK, ControlOK, LoopOK, FinalPC

\* assert_stopped after the second revalidation opens the transaction.
LEMMA StoppedKeeps ==
  ASSUME TypeOK, NEW t \in Txn, Sound(t), Settled(t), AssertStopped(t)
  PROVE  Sound(t)' /\ Settled(t)'
<1>1. /\ pc[t] \in {"checking", "rechecking"} /\ todo[t] = {} /\ pc[t] \in EarlyPC
      /\ UNCHANGED <<live, plan, before, committed, pending, old, touched>>
  BY DEF AssertStopped, inst, prep, mem, disk, ghost, EarlyPC, GuardPC
<1>2. CASE pc'[t] \in FinalPC
  BY <1>1, <1>2, OverKeeps
<1>3. CASE pc'[t] = "staging"
  BY <1>1, <1>3, EarlyKeeps
<1>4. CASE pc[t] = "rechecking" /\ pc'[t] = "opening"
  <2>1. Sound(t)'
    BY <1>1, <1>4 DEF Sound, PlanSound, LoopSound, UndoSound, LoopPC, BeforePC, OutPC,
       UndoPC, EarlyPC, GuardPC
  <2>2. ASSUME NEW j \in plan[t] \ touched[t]
        PROVE  Where(t, j)'
    <3>1. AsPlanned(t, j)
      BY <1>1, <1>4, <2>2 DEF Settled, Where, Checked
    <3>2. QED
      BY <1>1, <1>4, <3>1 DEF Where, Checked, AsPlanned, InLoop, InUndo, Stopped,
         LoopPC,
         BeforePC, OutPC, UndoPC
  <2>3. QED
    BY <1>1, <2>1, <2>2 DEF Settled
<1>5. QED
  BY <1>2, <1>3, <1>4, <1>1 DEF AssertStopped, Leave, Goto, TypeOK, ControlOK, FinalPC

\* Staging the payloads.
LEMMA StageKeeps ==
  ASSUME TypeOK, NEW t \in Txn, Sound(t), Stage(t)
  PROVE  Sound(t)' /\ Settled(t)'
<1>1. pc[t] \in EarlyPC /\ UNCHANGED <<plan, before, committed, pending>>
  BY DEF Stage, prep, mem, EarlyPC, GuardPC
<1>2. (pc'[t] = "rechecking" /\ todo'[t] = plan[t]) \/ pc'[t] \in FinalPC
  BY DEF Stage, Leave, Goto, TypeOK, ControlOK, LoopOK, FinalPC
<1>3. QED
  BY <1>1, <1>2, OverKeeps, EarlyKeeps

\* The loop begins with every destination as planned and nothing in staging.
LEMMA OpenKeeps ==
  ASSUME TypeOK, OldEmpty, NEW t \in Txn, Sound(t), Settled(t), OpenJournal(t)
  PROVE  Sound(t)' /\ Settled(t)'
<1>1. /\ pc[t] = "opening"
      /\ UNCHANGED <<live, plan, before, committed, pending, old, touched>>
  BY DEF OpenJournal, inst, prep, mem, ghost
<1>2. CASE pc'[t] \in FinalPC
  BY <1>1, <1>2, OverKeeps
<1>3. CASE pc'[t] = "committing" /\ todo'[t] = plan[t]
  <2>1. committed[t] = {} /\ pending[t] = NoPath
    BY <1>1 DEF Sound, PlanSound, EarlyPC, GuardPC
  <2>2. Sound(t)'
    BY <1>1, <1>3, <2>1 DEF Sound, PlanSound, LoopSound, UndoSound, LoopPC, BeforePC,
       OutPC, UndoPC, EarlyPC, GuardPC
  <2>3. ASSUME NEW j \in plan[t] \ touched[t]
        PROVE  Where(t, j)'
    <3>1. j \in Path
      BY <2>3 DEF TypeOK, PlanOK
    <3>2. Ahead(t, j)
      BY <1>1, <2>3, <3>1 DEF Settled, Where, Checked, OldEmpty, EarlyPC, GuardPC, Ahead
    <3>3. QED
      BY <1>1, <1>3, <2>1, <3>2 DEF Where, Checked, Ahead, AsPlanned, InLoop, InUndo,
         Stopped, LoopPC, BeforePC, OutPC, UndoPC
  <2>4. QED
    BY <1>1, <2>2, <2>3 DEF Settled
<1>4. QED
  BY <1>2, <1>3 DEF OpenJournal, Leave, Goto, TypeOK, ControlOK, LoopOK, FinalPC

---------------------------------------------------------------------------
(* The commit loop *)

\* Reading the destination skips a seed that is there and stops at a change.
LEMMA ReadKeeps ==
  ASSUME TypeOK, NEW t \in Txn, Sound(t), Settled(t), NEW i \in Path, ReadTarget(t, i)
  PROVE  Sound(t)' /\ Settled(t)'
<1>1. /\ pc[t] = "committing" /\ i \in todo[t] /\ pc[t] \in BeforePC
      /\ UNCHANGED <<live, plan, before, committed, pending, old, touched>>
  BY DEF ReadTarget, Least, inst, prep, mem, disk, ghost, BeforePC
<1>2. CASE i \in SeedPath /\ live[i] \in Regular /\ pc' = pc /\ todo'[t] = todo[t] \ {i}
  <2>1. Sound(t)'
    BY <1>1, <1>2 DEF Sound, PlanSound, LoopSound, UndoSound, LoopPC, BeforePC, OutPC,
       UndoPC, EarlyPC, GuardPC
  <2>2. ASSUME NEW j \in plan[t] \ touched[t]
        PROVE  Where(t, j)'
    <3>1. InLoop(t, j)
      BY <2>2 DEF Settled, Where
    <3>2. InLoop(t, j)'
      BY <1>1, <1>2, <3>1 DEF InLoop, LoopPC, BeforePC, OutPC, In, Out, Ahead,
         AsPlanned,
         Skipped
    <3>3. QED
      BY <1>1, <1>2, <3>2 DEF Where, Checked, InUndo, Stopped, UndoPC
  <2>3. QED
    BY <1>1, <2>1, <2>2 DEF Settled
<1>3. CASE pc'[t] = "mkdir" /\ cur'[t] = i /\ todo' = todo
  <2>1. Sound(t)'
    BY <1>1, <1>3 DEF Sound, PlanSound, LoopSound, UndoSound, LoopPC, BeforePC, OutPC,
       UndoPC, EarlyPC, GuardPC
  <2>2. ASSUME NEW j \in plan[t] \ touched[t]
        PROVE  Where(t, j)'
    <3>1. InLoop(t, j)
      BY <2>2 DEF Settled, Where
    <3>2. InLoop(t, j)'
      BY <1>1, <1>3, <3>1 DEF InLoop, LoopPC, BeforePC, OutPC, In, Out, Ahead,
         AsPlanned,
         Skipped
    <3>3. QED
      BY <1>1, <1>3, <3>2 DEF Where, Checked, InUndo, Stopped, UndoPC
  <2>3. QED
    BY <1>1, <2>1, <2>2 DEF Settled
<1>4. CASE pc'[t] = "rollback" /\ todo'[t] = committed[t]
  BY <1>1, <1>4, FailKeeps
<1>5. QED
  BY <1>1, <1>2, <1>3, <1>4 DEF ReadTarget, Fail, NextOp, Goto, TypeOK, ControlOK,
     LoopOK

\* The steps before a file moves.
LEMMA BeforeKeeps ==
  ASSUME TypeOK, NEW t \in Txn, Sound(t), Settled(t), pc[t] \in BeforePC \ {"committing"},
         pc'[t] \in BeforePC \ {"committing"},
         pc'[t] = "linking" => cur[t] \in SeedPath,
         pc'[t] = "displacing" => cur[t] \notin SeedPath /\ before[t][cur[t]] # Missing,
         UNCHANGED <<live, todo, cur, plan, before, committed, pending, old, touched>>
  PROVE  Sound(t)' /\ Settled(t)'
<1>1. Sound(t)'
  BY DEF Sound, PlanSound, LoopSound, UndoSound, LoopPC, BeforePC, OutPC, UndoPC,
     EarlyPC, GuardPC
<1>2. ASSUME NEW j \in plan[t] \ touched[t]
      PROVE  Where(t, j)'
  <2>1. InLoop(t, j)
    BY <1>2 DEF Settled, Where
  <2>2. InLoop(t, j)'
    BY <2>1 DEF InLoop, LoopPC, BeforePC, OutPC, In, Out, Ahead, AsPlanned, Skipped
  <2>3. QED
    BY <2>2 DEF Where, Checked, InUndo, Stopped, UndoPC, BeforePC
<1>3. QED
  BY <1>1, <1>2 DEF Settled

\* Making the parent touches no file.
LEMMA ParentKeeps ==
  ASSUME TypeOK, NEW t \in Txn, Sound(t), Settled(t), MakeParent(t)
  PROVE  Sound(t)' /\ Settled(t)'
<1>1. /\ pc[t] = "mkdir"
      /\ UNCHANGED <<live, cur, plan, before, committed, pending, old, touched>>
  BY DEF MakeParent, prep, disk, ghost
<1>2. CASE pc'[t] = "intent" /\ todo' = todo
  BY <1>1, <1>2, BeforeKeeps DEF BeforePC
<1>3. CASE pc'[t] = "rollback" /\ todo'[t] = committed[t]
  BY <1>1, <1>3, FailKeeps DEF BeforePC
<1>4. QED
  BY <1>2, <1>3 DEF MakeParent, Fail, Goto, TypeOK, ControlOK, LoopOK

\* The record of the intent decides how the payload goes in.
LEMMA IntentKeeps ==
  ASSUME TypeOK, NEW t \in Txn, Sound(t), Settled(t), Intent(t)
  PROVE  Sound(t)' /\ Settled(t)'
<1>1. /\ pc[t] = "intent"
      /\ UNCHANGED <<live, cur, plan, before, committed, pending, old, touched>>
  BY DEF Intent, inst, prep, mem, ghost
<1>2. CASE pc'[t] = "linking" /\ cur[t] \in SeedPath /\ todo' = todo
  BY <1>1, <1>2, BeforeKeeps DEF BeforePC
<1>3. CASE /\ pc'[t] = "displacing" /\ cur[t] \notin SeedPath
           /\ before[t][cur[t]] # Missing /\ todo' = todo
  BY <1>1, <1>3, BeforeKeeps DEF BeforePC
<1>4. CASE /\ pc'[t] = "installing" /\ cur[t] \notin SeedPath
           /\ before[t][cur[t]] = Missing /\ todo' = todo
  <2>1. Sound(t)'
    BY <1>1, <1>4 DEF Sound, PlanSound, LoopSound, UndoSound, LoopPC, BeforePC, OutPC,
       UndoPC, EarlyPC, GuardPC
  <2>2. ASSUME NEW j \in plan[t] \ touched[t]
        PROVE  Where(t, j)'
    <3>1. InLoop(t, j)
      BY <2>2 DEF Settled, Where
    <3>2. cur[t] \in todo[t]
      BY <1>1 DEF Sound, LoopSound, LoopPC, BeforePC
    <3>3. j = cur[t] => Out(t, j)
      BY <1>1, <1>4, <3>1, <3>2 DEF InLoop, LoopPC, BeforePC, Ahead, AsPlanned, Out
    <3>4. InLoop(t, j)'
      BY <1>1, <1>4, <3>1, <3>3 DEF InLoop, LoopPC, BeforePC, OutPC, In, Out, Ahead,
         AsPlanned, Skipped
    <3>5. QED
      BY <1>1, <1>4, <3>4 DEF Where, Checked, InUndo, Stopped, UndoPC
  <2>3. QED
    BY <1>1, <2>1, <2>2 DEF Settled
<1>5. CASE pc'[t] = "rollback" /\ todo'[t] = committed[t]
  BY <1>1, <1>5, FailKeeps DEF BeforePC
<1>6. QED
  BY <1>2, <1>3, <1>4, <1>5 DEF Intent, Fail, Goto, TypeOK, ControlOK, LoopOK

\* The displaced image is the original.
LEMMA DisplaceKeeps ==
  ASSUME TypeOK, CursorOK, NEW t \in Txn, Sound(t), Settled(t), Displace(t)
  PROVE  Sound(t)' /\ Settled(t)'
<1>1. /\ pc[t] = "displacing" /\ cur[t] \in Path
      /\ UNCHANGED <<cur, plan, before, committed, touched>>
  BY DEF Displace, CursorOK, CursorPC, prep, ghost
<1>2. CASE /\ pc'[t] = "displaced" /\ todo' = todo /\ pending'[t] = cur[t]
           /\ live' = [live EXCEPT ![cur[t]] = Missing]
           /\ old'[t] = [old[t] EXCEPT ![cur[t]] = live[cur[t]]]
  <2>1. /\ live'[cur[t]] = Missing /\ old'[t][cur[t]] = live[cur[t]]
        /\ \A j \in Path : j # cur[t] => live'[j] = live[j] /\ old'[t][j] = old[t][j]
    BY <1>1, <1>2 DEF TypeOK, FilesOK, Shelf
  <2>2. Sound(t)'
    BY <1>1, <1>2 DEF Sound, PlanSound, LoopSound, UndoSound, LoopPC, BeforePC, OutPC,
       UndoPC, EarlyPC, GuardPC
  <2>3. cur[t] \in todo[t] \ committed[t] /\ cur[t] \notin SeedPath
    BY <1>1 DEF Sound, LoopSound, LoopPC, BeforePC
  <2>4. ASSUME NEW j \in plan[t] \ touched[t]
        PROVE  Where(t, j)'
    <3>1. InLoop(t, j) /\ j \in Path
      BY <2>4 DEF Settled, Where, TypeOK, PlanOK
    <3>2. CASE j = cur[t]
      <4>1. Out(t, j)'
        BY <1>1, <2>1, <2>3, <3>1, <3>2 DEF InLoop, LoopPC, BeforePC, Ahead, AsPlanned,
           Out
      <4>2. QED
        BY <1>1, <1>2, <2>3, <3>2, <4>1 DEF Where, Checked, InLoop, InUndo, Stopped,
           UndoPC, LoopPC, BeforePC, OutPC
    <3>3. CASE j # cur[t]
      <4>1. InLoop(t, j)'
        BY <1>1, <1>2, <2>1, <3>1, <3>3 DEF InLoop, LoopPC, BeforePC, OutPC, In, Out,
           Ahead, AsPlanned, Skipped
      <4>2. QED
        BY <1>2, <4>1 DEF Where, Checked, InUndo, Stopped, UndoPC
    <3>4. QED
      BY <3>2, <3>3
  <2>5. QED
    BY <1>1, <2>2, <2>4 DEF Settled
<1>3. CASE /\ pc'[t] = "rollback" /\ todo'[t] = committed[t]
           /\ UNCHANGED <<live, pending, old>>
  BY <1>1, <1>3, FailKeeps DEF BeforePC
<1>4. QED
  BY <1>2, <1>3 DEF Displace, Fail, Goto, TypeOK, ControlOK, LoopOK, MemoryOK, FilesOK

\* Recording what is pending moves no file.
LEMMA PendingKeeps ==
  ASSUME TypeOK, NEW t \in Txn, Sound(t), Settled(t), RecordPending(t)
  PROVE  Sound(t)' /\ Settled(t)'
<1>1. /\ pc[t] = "displaced"
      /\ UNCHANGED <<live, cur, plan, before, committed, pending, old, touched>>
  BY DEF RecordPending, inst, prep, mem, ghost
<1>2. CASE pc'[t] = "installing" /\ todo' = todo
  <2>1. before[t][cur[t]] # Missing
    BY <1>1 DEF Sound, LoopSound, LoopPC, OutPC
  <2>2. Sound(t)'
    BY <1>1, <1>2, <2>1 DEF Sound, PlanSound, LoopSound, UndoSound, LoopPC, BeforePC,
       OutPC, UndoPC, EarlyPC, GuardPC
  <2>3. ASSUME NEW j \in plan[t] \ touched[t]
        PROVE  Where(t, j)'
    <3>1. InLoop(t, j)
      BY <2>3 DEF Settled, Where
    <3>2. InLoop(t, j)'
      BY <1>1, <1>2, <3>1 DEF InLoop, LoopPC, BeforePC, OutPC, In, Out, Ahead,
         AsPlanned,
         Skipped
    <3>3. QED
      BY <1>1, <1>2, <3>2 DEF Where, Checked, InUndo, Stopped, UndoPC
  <2>4. QED
    BY <1>1, <2>2, <2>3 DEF Settled
<1>3. CASE pc'[t] = "rollback" /\ todo'[t] = committed[t]
  BY <1>1, <1>3, FailKeeps DEF OutPC
<1>4. QED
  BY <1>2, <1>3 DEF RecordPending, Fail, Goto, TypeOK, ControlOK, LoopOK

\* A seed is linked, found to be there already, or given up.
LEMMA LinkKeeps ==
  ASSUME TypeOK, CursorOK, NEW t \in Txn, Sound(t), Settled(t), Link(t)
  PROVE  Sound(t)' /\ Settled(t)'
<1>1. /\ pc[t] = "linking" /\ cur[t] \in Path /\ pc[t] \in BeforePC
      /\ UNCHANGED <<cur, plan, before, committed, pending, old, touched>>
  BY DEF Link, CursorOK, CursorPC, prep, mem, disk, ghost, BeforePC
<1>2. cur[t] \in todo[t] \ committed[t] /\ cur[t] \in SeedPath /\ todo[t] \subseteq plan[t]
  BY <1>1 DEF Sound, LoopSound, LoopPC, BeforePC
<1>3. before[t][cur[t]] = Missing
  BY <1>2 DEF Sound, PlanSound
<1>4. CASE /\ pc'[t] = "installed" /\ todo' = todo
           /\ live' = [live EXCEPT ![cur[t]] = Want[t][cur[t]]]
  <2>1. /\ live'[cur[t]] = Want[t][cur[t]]
        /\ \A j \in Path : j # cur[t] => live'[j] = live[j]
    BY <1>1, <1>4 DEF TypeOK, FilesOK, Shelf
  <2>2. Sound(t)'
    BY <1>1, <1>4 DEF Sound, PlanSound, LoopSound, UndoSound, LoopPC, BeforePC, OutPC,
       UndoPC, EarlyPC, GuardPC
  <2>3. ASSUME NEW j \in plan[t] \ touched[t]
        PROVE  Where(t, j)'
    <3>1. InLoop(t, j) /\ j \in Path
      BY <2>3 DEF Settled, Where, TypeOK, PlanOK
    <3>2. j = cur[t] => In(t, j)'
      BY <1>1, <1>2, <1>3, <2>1, <3>1 DEF InLoop, LoopPC, BeforePC, Ahead, In
    <3>3. InLoop(t, j)'
      BY <1>1, <1>2, <1>4, <2>1, <3>1, <3>2 DEF InLoop, LoopPC, BeforePC, OutPC, In,
         Out,
         Ahead, AsPlanned, Skipped
    <3>4. QED
      BY <1>1, <1>4, <3>3 DEF Where, Checked, InUndo, Stopped, UndoPC
  <2>4. QED
    BY <1>1, <2>2, <2>3 DEF Settled
<1>5. CASE /\ pc'[t] = "committing" /\ todo'[t] = todo[t] \ {cur[t]}
           /\ live' = live /\ live[cur[t]] \in Regular
  <2>1. Sound(t)'
    BY <1>1, <1>5 DEF Sound, PlanSound, LoopSound, UndoSound, LoopPC, BeforePC, OutPC,
       UndoPC, EarlyPC, GuardPC
  <2>2. ASSUME NEW j \in plan[t] \ touched[t]
        PROVE  Where(t, j)'
    <3>1. InLoop(t, j)
      BY <2>2 DEF Settled, Where
    <3>2. j = cur[t] => Skipped(t, j)'
      BY <1>1, <1>2, <1>5, <3>1 DEF InLoop, LoopPC, BeforePC, Ahead, Skipped
    <3>3. InLoop(t, j)'
      BY <1>1, <1>5, <3>1, <3>2 DEF InLoop, LoopPC, BeforePC, OutPC, In, Out,
         Ahead, AsPlanned, Skipped
    <3>4. QED
      BY <1>1, <1>5, <3>3 DEF Where, Checked, InUndo, Stopped, UndoPC
  <2>3. QED
    BY <1>1, <2>1, <2>2 DEF Settled
<1>6. CASE pc'[t] = "rollback" /\ todo'[t] = committed[t] /\ live' = live
  BY <1>1, <1>6, FailKeeps
<1>7. QED
  BY <1>1, <1>4, <1>5, <1>6 DEF Link, Fail, NextOp, Goto, TypeOK, ControlOK, LoopOK

\* The payload goes in where the original was, or the original is to go back.
LEMMA InstallKeeps ==
  ASSUME TypeOK, CursorOK, NEW t \in Txn, Sound(t), Settled(t), Install(t)
  PROVE  Sound(t)' /\ Settled(t)'
<1>1. /\ pc[t] = "installing" /\ cur[t] \in Path /\ pc[t] \in OutPC
      /\ UNCHANGED <<cur, plan, before, committed, pending, old, touched>>
  BY DEF Install, CursorOK, CursorPC, prep, mem, disk, ghost, OutPC
<1>2. cur[t] \in todo[t] \ committed[t] /\ cur[t] \notin SeedPath
  BY <1>1 DEF Sound, LoopSound, LoopPC, OutPC
<1>3. CASE /\ pc'[t] = "installed" /\ todo' = todo
           /\ live' = [live EXCEPT ![cur[t]] = Want[t][cur[t]]]
  <2>1. /\ live'[cur[t]] = Want[t][cur[t]]
        /\ \A j \in Path : j # cur[t] => live'[j] = live[j]
    BY <1>1, <1>3 DEF TypeOK, FilesOK, Shelf
  <2>2. Sound(t)'
    BY <1>1, <1>3 DEF Sound, PlanSound, LoopSound, UndoSound, LoopPC, BeforePC, OutPC,
       UndoPC, EarlyPC, GuardPC
  <2>3. ASSUME NEW j \in plan[t] \ touched[t]
        PROVE  Where(t, j)'
    <3>1. InLoop(t, j) /\ j \in Path
      BY <2>3 DEF Settled, Where, TypeOK, PlanOK
    <3>2. j = cur[t] => In(t, j)'
      BY <1>1, <1>2, <2>1, <3>1 DEF InLoop, LoopPC, OutPC, Out, In
    <3>3. InLoop(t, j)'
      BY <1>1, <1>2, <1>3, <2>1, <3>1, <3>2 DEF InLoop, LoopPC, BeforePC, OutPC, In,
         Out,
         Ahead, AsPlanned, Skipped
    <3>4. QED
      BY <1>1, <1>3, <3>3 DEF Where, Checked, InUndo, Stopped, UndoPC
  <2>4. QED
    BY <1>1, <2>2, <2>3 DEF Settled
<1>4. CASE /\ pc'[t] = "unwinding" /\ UNCHANGED <<todo, live>>
           /\ before[t][cur[t]] # Missing
  <2>1. Sound(t)'
    BY <1>1, <1>4 DEF Sound, PlanSound, LoopSound, UndoSound, LoopPC, BeforePC, OutPC,
       UndoPC, EarlyPC, GuardPC
  <2>2. ASSUME NEW j \in plan[t] \ touched[t]
        PROVE  Where(t, j)'
    <3>1. InLoop(t, j)
      BY <2>2 DEF Settled, Where
    <3>2. InLoop(t, j)'
      BY <1>1, <1>4, <3>1 DEF InLoop, LoopPC, BeforePC, OutPC, In, Out, Ahead,
         AsPlanned,
         Skipped
    <3>3. QED
      BY <1>1, <1>4, <3>2 DEF Where, Checked, InUndo, Stopped, UndoPC
  <2>3. QED
    BY <1>1, <2>1, <2>2 DEF Settled
<1>5. CASE pc'[t] = "rollback" /\ todo'[t] = committed[t] /\ live' = live
  BY <1>1, <1>5, FailKeeps
<1>6. QED
  BY <1>3, <1>4, <1>5 DEF Install, Fail, Goto, TypeOK, ControlOK, LoopOK

\* The original is back at once, or stays pending for the rollback.
LEMMA UnwindKeeps ==
  ASSUME TypeOK, CursorOK, NEW t \in Txn, Sound(t), Settled(t), Unwind(t)
  PROVE  Sound(t)' /\ Settled(t)'
<1>1. /\ pc[t] = "unwinding" /\ cur[t] \in Path /\ pc[t] \in OutPC
      /\ pc'[t] = "rollback" /\ todo'[t] = committed[t]
      /\ UNCHANGED <<cur, plan, before, committed, touched>>
  BY DEF Unwind, Fail, Goto, TypeOK, ControlOK, LoopOK, CursorOK, CursorPC, prep, ghost,
     OutPC
<1>2. LoopSound(t) /\ cur[t] \in todo[t] \ committed[t] /\ pending[t] = cur[t]
  BY <1>1 DEF Sound, LoopSound, LoopPC, OutPC
<1>3. CASE /\ pending'[t] = NoPath
           /\ live' = [live EXCEPT ![cur[t]] = old[t][cur[t]]]
           /\ old'[t] = [old[t] EXCEPT ![cur[t]] = Missing]
  <2>1. /\ live'[cur[t]] = old[t][cur[t]] /\ old'[t][cur[t]] = Missing
        /\ \A j \in Path : j # cur[t] => live'[j] = live[j] /\ old'[t][j] = old[t][j]
    BY <1>1, <1>3 DEF TypeOK, FilesOK, Shelf
  <2>2. NoPath \notin committed[t] /\ NoPath \notin Path
    BY PathAssumption DEF TypeOK, MemoryOK, Path, NoPath
  <2>3. Sound(t)'
    BY <1>1, <1>3, <2>2 DEF Sound, PlanSound, LoopSound, UndoSound, LoopPC, BeforePC,
       OutPC, UndoPC, EarlyPC, GuardPC
  <2>4. ASSUME NEW j \in plan[t] \ touched[t]
        PROVE  Where(t, j)'
    <3>1. InLoop(t, j) /\ j \in Path
      BY <2>4 DEF Settled, Where, TypeOK, PlanOK
    <3>2. j \in committed[t] => In(t, j)'
      BY <1>1, <1>2, <2>1, <3>1 DEF InLoop, LoopPC, OutPC, In
    <3>3. j \notin committed[t] => Left(t, j)'
      <4>1. CASE j = cur[t]
        BY <1>1, <2>1, <3>1, <4>1 DEF InLoop, LoopPC, OutPC, Out, Left
      <4>2. CASE j # cur[t]
        BY <1>1, <2>1, <3>1, <4>2 DEF InLoop, LoopPC, OutPC, Ahead, AsPlanned, Skipped,
           Left
      <4>3. QED
        BY <4>1, <4>2
    <3>4. InUndo(t, j)'
      BY <1>1, <1>3, <2>2, <3>1, <3>2, <3>3 DEF InUndo, UndoPC
    <3>5. QED
      BY <1>1, <3>4 DEF Where, Checked, InLoop, Stopped, LoopPC, BeforePC, OutPC
  <2>5. QED
    BY <1>1, <2>3, <2>4 DEF Settled
<1>4. CASE UNCHANGED <<live, old, pending>>
  BY <1>1, <1>4, FailKeeps
<1>5. QED
  BY <1>3, <1>4 DEF Unwind, TypeOK, MemoryOK, FilesOK

\* committed.push comes before the record, so a failing record is rolled back too.
LEMMA InstalledKeeps ==
  ASSUME TypeOK, CursorOK, NEW t \in Txn, Sound(t), Settled(t), Installed(t)
  PROVE  Sound(t)' /\ Settled(t)'
<1>1. /\ pc[t] = "installed" /\ cur[t] \in Path
      /\ committed'[t] = committed[t] \cup {cur[t]} /\ pending'[t] = NoPath
      /\ UNCHANGED <<live, cur, plan, before, old, touched>>
  BY DEF Installed, TypeOK, MemoryOK, CursorOK, CursorPC, inst, prep, ghost
<1>2. LoopSound(t) /\ cur[t] \in todo[t] \ committed[t] /\ todo[t] \subseteq plan[t]
  BY <1>1 DEF Sound, LoopSound, LoopPC
<1>3. NoPath \notin committed'[t] /\ NoPath \notin Path
  BY <1>1, PathAssumption DEF TypeOK, MemoryOK, Path, NoPath
<1>4. CASE pc'[t] = "committing" /\ todo'[t] = todo[t] \ {cur[t]}
  <2>1. Sound(t)'
    BY <1>1, <1>2, <1>4 DEF Sound, PlanSound, LoopSound, UndoSound, LoopPC, BeforePC,
       OutPC, UndoPC, EarlyPC, GuardPC
  <2>2. ASSUME NEW j \in plan[t] \ touched[t]
        PROVE  Where(t, j)'
    <3>1. InLoop(t, j)
      BY <2>2 DEF Settled, Where
    <3>2. InLoop(t, j)'
      BY <1>1, <1>2, <1>4, <3>1 DEF InLoop, LoopPC, BeforePC, OutPC, In, Out, Ahead,
         AsPlanned, Skipped
    <3>3. QED
      BY <1>1, <1>4, <3>2 DEF Where, Checked, InUndo, Stopped, UndoPC
  <2>3. QED
    BY <1>1, <2>1, <2>2 DEF Settled
<1>5. CASE pc'[t] = "rollback" /\ todo'[t] = committed'[t]
  <2>1. Sound(t)'
    BY <1>1, <1>2, <1>3, <1>5 DEF Sound, PlanSound, LoopSound, UndoSound, LoopPC,
       BeforePC, OutPC, UndoPC, EarlyPC, GuardPC
  <2>2. ASSUME NEW j \in plan[t] \ touched[t]
        PROVE  Where(t, j)'
    <3>1. InLoop(t, j) /\ j \in Path
      BY <2>2 DEF Settled, Where, TypeOK, PlanOK
    <3>2. j \in committed'[t] => In(t, j)'
      BY <1>1, <3>1 DEF InLoop, LoopPC, In
    <3>3. j \notin committed'[t] => Left(t, j)'
      BY <1>1, <3>1 DEF InLoop, LoopPC, Ahead, AsPlanned, Skipped, Left
    <3>4. InUndo(t, j)'
      BY <1>1, <1>3, <1>5, <3>1, <3>2, <3>3 DEF InUndo, UndoPC
    <3>5. QED
      BY <1>5, <3>4 DEF Where, Checked, InLoop, Stopped, LoopPC, BeforePC, OutPC
  <2>3. QED
    BY <1>1, <2>1, <2>2 DEF Settled
<1>6. QED
  BY <1>1, <1>4, <1>5 DEF Installed, Fail, NextOp, Goto, TypeOK, ControlOK, LoopOK,
     MemoryOK

\* The last record, the verdict of a rollback, and a crash end the call.
LEMMA EndKeeps ==
  ASSUME TypeOK, NEW t \in Txn, Sound(t), Finish(t) \/ Report(t) \/ Crash(t)
  PROVE  Sound(t)' /\ Settled(t)'
<1>1. pc'[t] \in FinalPC /\ UNCHANGED <<plan, before>>
  BY DEF Finish, Report, Crash, Leave, Goto, TypeOK, ControlOK, FinalPC, prep
<1>2. QED
  BY <1>1, OverKeeps

---------------------------------------------------------------------------
(* The rollback *)

\* A rollback that stops halfway leaves every original where recovery looks for it.
LEMMA StopKeeps ==
  ASSUME NEW t \in Txn, Sound(t), Settled(t), pc[t] \in UndoPC, pc'[t] = "reportFailed",
         UNCHANGED <<live, plan, before, committed, pending, old, touched>>
  PROVE  Sound(t)' /\ Settled(t)'
<1>1. Sound(t)'
  BY DEF Sound, PlanSound, LoopSound, UndoSound, LoopPC, BeforePC, OutPC, UndoPC,
     EarlyPC,
     GuardPC
<1>2. ASSUME NEW j \in plan[t] \ touched[t]
      PROVE  Where(t, j)'
  <2>1. InUndo(t, j) /\ (j \in SeedPath => before[t][j] = Missing)
    BY <1>2 DEF Settled, Where, Sound, PlanSound
  <2>2. Out(t, j) \/ In(t, j) \/ Back(t, j) \/ Left(t, j)
    BY <2>1 DEF InUndo
  <2>3. OnDisk(t, j)
    BY <2>1, <2>2 DEF OnDisk, Out, In, Back, Left
  <2>4. QED
    BY <2>3 DEF OnDisk, Where, Checked, InLoop, InUndo, Stopped, LoopPC, BeforePC,
       OutPC,
       UndoPC
<1>3. QED
  BY <1>1, <1>2 DEF Settled

\* The pending original goes back first.
LEMMA RestoreKeeps ==
  ASSUME TypeOK, NEW t \in Txn, Sound(t), Settled(t), RestorePending(t)
  PROVE  Sound(t)' /\ Settled(t)'
<1>1. /\ pc[t] = "rollback" /\ pending[t] # NoPath /\ pending[t] \in Path
      /\ UNCHANGED <<todo, cur, plan, before, committed, touched>>
  BY DEF RestorePending, TypeOK, MemoryOK, loop, prep, ghost
<1>2. CASE /\ pending'[t] = NoPath /\ pc' = pc
           /\ live' = [live EXCEPT ![pending[t]] = old[t][pending[t]]]
           /\ old'[t] = [old[t] EXCEPT ![pending[t]] = Missing]
  <2>1. /\ live'[pending[t]] = old[t][pending[t]] /\ old'[t][pending[t]] = Missing
        /\ \A j \in Path : j # pending[t] => live'[j] = live[j] /\ old'[t][j] = old[t][j]
    BY <1>1, <1>2 DEF TypeOK, FilesOK, Shelf
  <2>2. NoPath \notin committed[t] /\ NoPath \notin Path
    BY PathAssumption DEF TypeOK, MemoryOK, Path, NoPath
  <2>3. UndoSound(t)
    BY DEF Sound
  <2>4. Sound(t)'
    BY <1>1, <1>2, <2>2 DEF Sound, PlanSound, LoopSound, UndoSound, LoopPC, BeforePC,
       OutPC, UndoPC, EarlyPC, GuardPC
  <2>5. ASSUME NEW j \in plan[t] \ touched[t]
        PROVE  Where(t, j)'
    <3>1. InUndo(t, j) /\ j \in Path
      BY <2>5 DEF Settled, Where, TypeOK, PlanOK
    <3>2. CASE j = pending[t]
      <4>1. Left(t, j)' /\ j \notin committed[t] \cup todo[t]
        BY <1>1, <2>1, <2>3, <3>1, <3>2 DEF InUndo, UndoSound, UndoPC, Out, Left
      <4>2. QED
        BY <1>1, <1>2, <4>1, <2>2, <3>1 DEF Where, Checked, InLoop, InUndo, Stopped,
           LoopPC,
           BeforePC, OutPC, UndoPC
    <3>3. CASE j # pending[t]
      <4>1. InUndo(t, j)'
        BY <1>1, <1>2, <2>1, <2>2, <3>1, <3>3 DEF InUndo, UndoPC, In, Out, Back, Left
      <4>2. QED
        BY <1>1, <1>2, <4>1 DEF Where, Checked, InLoop, Stopped, LoopPC, BeforePC, OutPC
    <3>4. QED
      BY <3>2, <3>3
  <2>6. QED
    BY <1>1, <2>4, <2>5 DEF Settled
<1>3. CASE pc'[t] = "reportFailed" /\ UNCHANGED <<live, old, pending>>
  BY <1>1, <1>3, StopKeeps DEF UndoPC
<1>4. QED
  BY <1>2, <1>3 DEF RestorePending, Goto, TypeOK, ControlOK, MemoryOK, FilesOK

\* Undo works on a destination that still has the payload.
LEMMA CheckKeeps ==
  ASSUME TypeOK, NEW t \in Txn, Sound(t), Settled(t), NEW i \in Path, CheckUndo(t, i)
  PROVE  Sound(t)' /\ Settled(t)'
<1>1. /\ pc[t] = "rollback" /\ pending[t] = NoPath /\ i \in todo[t]
      /\ UNCHANGED <<live, todo, plan, before, committed, pending, old, touched>>
  BY DEF CheckUndo, Greatest, inst, prep, mem, disk, ghost
<1>2. CASE pc'[t] = "undoing" /\ cur'[t] = i
  <2>1. Sound(t)'
    BY <1>1, <1>2 DEF Sound, PlanSound, LoopSound, UndoSound, LoopPC, BeforePC, OutPC,
       UndoPC, EarlyPC, GuardPC
  <2>2. ASSUME NEW j \in plan[t] \ touched[t]
        PROVE  Where(t, j)'
    <3>1. InUndo(t, j)
      BY <2>2 DEF Settled, Where
    <3>2. InUndo(t, j)'
      BY <1>1, <1>2, <3>1 DEF InUndo, UndoPC, In, Out, Back, Left
    <3>3. QED
      BY <1>2, <3>2 DEF Where, Checked, InLoop, Stopped, LoopPC, BeforePC, OutPC
  <2>3. QED
    BY <1>1, <2>1, <2>2 DEF Settled
<1>3. CASE pc'[t] = "reportFailed"
  BY <1>1, <1>3, StopKeeps DEF UndoPC
<1>4. QED
  BY <1>2, <1>3 DEF CheckUndo, Goto, TypeOK, ControlOK, LoopOK

\* The payload goes out; a destination that was empty is then restored.
LEMMA UndoneKeeps ==
  ASSUME TypeOK, CursorOK, NEW t \in Txn, Sound(t), Settled(t), Undo(t)
  PROVE  Sound(t)' /\ Settled(t)'
<1>1. /\ pc[t] = "undoing" /\ cur[t] \in Path
      /\ UNCHANGED <<cur, plan, before, committed, pending, old, touched>>
  BY DEF Undo, CursorOK, CursorPC, prep, mem, ghost
<1>2. /\ UndoSound(t) /\ cur[t] \in todo[t] /\ todo[t] \subseteq committed[t]
      /\ pending[t] \notin committed[t]
  BY <1>1 DEF Sound, UndoSound, UndoPC
<1>3. CASE live' = [live EXCEPT ![cur[t]] = Missing]
  <2>1. live'[cur[t]] = Missing /\ \A j \in Path : j # cur[t] => live'[j] = live[j]
    BY <1>1, <1>3 DEF TypeOK, FilesOK, Shelf
  <2>2. CASE pc'[t] = "reinstating" /\ todo' = todo
    <3>1. Sound(t)'
      BY <1>1, <2>2 DEF Sound, PlanSound, LoopSound, UndoSound, LoopPC, BeforePC, OutPC,
         UndoPC, EarlyPC, GuardPC
    <3>2. ASSUME NEW j \in plan[t] \ touched[t]
          PROVE  Where(t, j)'
      <4>1. InUndo(t, j) /\ j \in Path
        BY <3>2 DEF Settled, Where, TypeOK, PlanOK
      <4>2. j = cur[t] => Out(t, j)'
        BY <1>1, <1>2, <2>1, <4>1 DEF InUndo, UndoPC, In, Out
      <4>3. InUndo(t, j)'
        BY <1>1, <1>2, <2>1, <2>2, <4>1, <4>2 DEF InUndo, UndoPC, In, Out, Back, Left
      <4>4. QED
        BY <2>2, <4>3 DEF Where, Checked, InLoop, Stopped, LoopPC, BeforePC, OutPC
    <3>3. QED
      BY <1>1, <3>1, <3>2 DEF Settled
  <2>3. CASE /\ pc'[t] = "rollback" /\ todo'[t] = todo[t] \ {cur[t]}
             /\ before[t][cur[t]] = Missing
    <3>1. Sound(t)'
      BY <1>1, <2>3 DEF Sound, PlanSound, LoopSound, UndoSound, LoopPC, BeforePC, OutPC,
         UndoPC, EarlyPC, GuardPC
    <3>2. ASSUME NEW j \in plan[t] \ touched[t]
          PROVE  Where(t, j)'
      <4>1. InUndo(t, j) /\ j \in Path
        BY <3>2 DEF Settled, Where, TypeOK, PlanOK
      <4>2. j = cur[t] => Back(t, j)'
        BY <1>1, <1>2, <2>1, <2>3, <4>1 DEF InUndo, UndoPC, In, Back
      <4>3. InUndo(t, j)'
        BY <1>1, <1>2, <2>1, <2>3, <4>1, <4>2 DEF InUndo, UndoPC, In, Out, Back, Left
      <4>4. QED
        BY <2>3, <4>3 DEF Where, Checked, InLoop, Stopped, LoopPC, BeforePC, OutPC
    <3>3. QED
      BY <1>1, <3>1, <3>2 DEF Settled
  <2>4. CASE pc'[t] = "reportFailed" /\ live' = live
    BY <1>1, <2>4, StopKeeps DEF UndoPC
  <2>5. QED
    BY <1>3, <2>2, <2>3, <2>4 DEF Undo, NextUndo, Goto, TypeOK, ControlOK, LoopOK
<1>4. CASE pc'[t] = "reportFailed" /\ live' = live
  BY <1>1, <1>4, StopKeeps DEF UndoPC
<1>5. QED
  BY <1>3, <1>4 DEF Undo, Goto, TypeOK, ControlOK

\* The original goes back where the payload was.
LEMMA ReinstateKeeps ==
  ASSUME TypeOK, CursorOK, NEW t \in Txn, Sound(t), Settled(t), Reinstate(t)
  PROVE  Sound(t)' /\ Settled(t)'
<1>1. /\ pc[t] = "reinstating" /\ cur[t] \in Path
      /\ UNCHANGED <<cur, plan, before, committed, pending, touched>>
  BY DEF Reinstate, CursorOK, CursorPC, prep, mem, ghost
<1>2. /\ UndoSound(t) /\ cur[t] \in todo[t] /\ todo[t] \subseteq committed[t]
      /\ pending[t] \notin committed[t]
  BY <1>1 DEF Sound, UndoSound, UndoPC
<1>3. CASE /\ pc'[t] = "rollback" /\ todo'[t] = todo[t] \ {cur[t]}
           /\ live' = [live EXCEPT ![cur[t]] = old[t][cur[t]]]
           /\ old'[t] = [old[t] EXCEPT ![cur[t]] = Missing]
  <2>1. /\ live'[cur[t]] = old[t][cur[t]] /\ old'[t][cur[t]] = Missing
        /\ \A j \in Path : j # cur[t] => live'[j] = live[j] /\ old'[t][j] = old[t][j]
    BY <1>1, <1>3 DEF TypeOK, FilesOK, Shelf
  <2>2. Sound(t)'
    BY <1>1, <1>3 DEF Sound, PlanSound, LoopSound, UndoSound, LoopPC, BeforePC, OutPC,
       UndoPC, EarlyPC, GuardPC
  <2>3. ASSUME NEW j \in plan[t] \ touched[t]
        PROVE  Where(t, j)'
    <3>1. InUndo(t, j) /\ j \in Path
      BY <2>3 DEF Settled, Where, TypeOK, PlanOK
    <3>2. j = cur[t] => Back(t, j)'
      BY <1>1, <2>1, <3>1 DEF InUndo, UndoPC, Out, Back
    <3>3. InUndo(t, j)'
      BY <1>1, <1>2, <1>3, <2>1, <3>1, <3>2 DEF InUndo, UndoPC, In, Out, Back, Left
    <3>4. QED
      BY <1>3, <3>3 DEF Where, Checked, InLoop, Stopped, LoopPC, BeforePC, OutPC
  <2>4. QED
    BY <1>1, <2>2, <2>3 DEF Settled
<1>4. CASE pc'[t] = "reportFailed" /\ UNCHANGED <<live, old>>
  BY <1>1, <1>4, StopKeeps DEF UndoPC
<1>5. QED
  BY <1>3, <1>4 DEF Reinstate, NextUndo, Goto, TypeOK, ControlOK, LoopOK, FilesOK

\* The directories go when no destination is left to undo.
LEMMA RemoveKeeps ==
  ASSUME TypeOK, NEW t \in Txn, Sound(t), Settled(t), RemoveParents(t)
  PROVE  Sound(t)' /\ Settled(t)'
<1>1. /\ pc[t] = "rollback" /\ pending[t] = NoPath /\ todo[t] = {}
      /\ UNCHANGED <<live, todo, cur, plan, before, committed, pending, old, touched>>
  BY DEF RemoveParents, loop, prep, mem, disk, ghost
<1>2. CASE pc'[t] = "reportClean"
  <2>1. Sound(t)'
    BY <1>1, <1>2 DEF Sound, PlanSound, LoopSound, UndoSound, LoopPC, BeforePC, OutPC,
       UndoPC, EarlyPC, GuardPC
  <2>2. ASSUME NEW j \in plan[t] \ touched[t]
        PROVE  Where(t, j)'
    <3>1. InUndo(t, j)
      BY <2>2 DEF Settled, Where
    <3>2. InUndo(t, j)'
      BY <1>1, <1>2, <3>1 DEF InUndo, UndoPC, In, Out, Back, Left
    <3>3. QED
      BY <1>2, <3>2 DEF Where, Checked, InLoop, Stopped, LoopPC, BeforePC, OutPC
  <2>3. QED
    BY <1>1, <2>1, <2>2 DEF Settled
<1>3. CASE pc'[t] = "reportFailed"
  BY <1>1, <1>3, StopKeeps DEF UndoPC
<1>4. QED
  BY <1>2, <1>3 DEF RemoveParents, Goto, TypeOK, ControlOK

---------------------------------------------------------------------------
(* The invariant of the loop and of the rollback *)

\* The step of a transaction keeps its own books and files.
LEMMA OwnKeeps ==
  ASSUME TypeOK, CursorOK, OldEmpty, NEW t \in Txn, Sound(t), Settled(t),
         Begin(t) \/ Step(t) \/ Crash(t)
  PROVE  Sound(t)' /\ Settled(t)'
<1>1. CASE \E i \in Path : Add(t, i) \/ Revalidate(t, i) \/ ReadTarget(t, i) \/
   CheckUndo(t, i)
  BY <1>1, AddKeeps, RevalidateKeeps, ReadKeeps, CheckKeeps
<1>2. CASE Begin(t) \/ Lock(t) \/ AlreadyHeld(t) \/ AssertStopped(t) \/ Stage(t) \/
   OpenJournal(t)
  BY <1>2, BeginKeeps, LockKeeps, StoppedKeeps, StageKeeps, OpenKeeps
<1>3. CASE MakeParent(t) \/ Intent(t) \/ Link(t) \/ Displace(t) \/ RecordPending(t)
  BY <1>3, ParentKeeps, IntentKeeps, LinkKeeps, DisplaceKeeps, PendingKeeps
<1>4. CASE Install(t) \/ Unwind(t) \/ Installed(t) \/ Finish(t) \/ Report(t) \/ Crash(t)
  BY <1>4, InstallKeeps, UnwindKeeps, InstalledKeeps, EndKeeps
<1>5. CASE RestorePending(t) \/ Undo(t) \/ Reinstate(t) \/ RemoveParents(t)
  BY <1>5, RestoreKeeps, UndoneKeeps, ReinstateKeeps, RemoveKeeps
<1>6. QED
  BY <1>1, <1>2, <1>3, <1>4, <1>5 DEF Step

\* So does every step, of whoever takes it: the lease keeps the others away.
LEMMA WhereStep ==
  ASSUME TypeOK, CursorOK, LeaseOK, OldEmpty, BooksOK, WhereOK, [Next]_vars
  PROVE  (BooksOK /\ WhereOK)'
<1>1. SUFFICES ASSUME NEW s \in Txn
               PROVE  Sound(s)' /\ Settled(s)'
  BY DEF BooksOK, WhereOK
<1>2. Sound(s) /\ Settled(s) /\ plan[s] \subseteq Path
  BY DEF BooksOK, WhereOK, TypeOK, PlanOK
<1>3. ASSUME NEW t \in Txn, Begin(t) \/ Step(t) \/ Crash(t)
      PROVE  Sound(s)' /\ Settled(s)'
  <2>1. CASE s = t
    BY <1>2, <1>3, <2>1, OwnKeeps
  <2>2. CASE s # t
    <3>1. Same(s) /\ touched'[s] = touched[s]
      BY <1>3, <2>2, OwnStep
    <3>2. pc[s] \in {"opening", "rechecking"} \cup CommitPC => live' = live
      BY <1>3, <2>2, HolderAlone DEF Leased, GuardPC
    <3>3. QED
      BY <1>2, <3>1, <3>2, SameKeeps
  <2>3. QED
    BY <2>1, <2>2
<1>4. CASE Outside
  <2>1. /\ Same(s) /\ touched[s] \subseteq touched'[s]
        /\ \A i \in Path \ touched'[s] : live'[i] = live[i]
    BY <1>4, OutsideStep
  <2>2. QED
    BY <1>2, <2>1, SameKeeps
<1>5. CASE UNCHANGED vars
  <2>1. Same(s) /\ touched' = touched /\ live' = live
    BY <1>5 DEF vars, inst, loop, prep, mem, disk, ghost, Same
  <2>2. QED
    BY <1>2, <2>1, SameKeeps
<1>6. QED
  BY <1>3, <1>4, <1>5 DEF Next

\* A directory a clean rollback removed comes back only with a touched destination.
LEMMA DirsStep ==
  ASSUME TypeOK, LeaseOK, DirsGone, [Next]_vars
  PROVE  DirsGone'
<1>1. SUFFICES ASSUME NEW s \in Txn, pc'[s] = "reportClean", NEW d \in created'[s],
                      d \in present'
               PROVE  \E i \in touched'[s] : ParentOf[i] = d
  BY DEF DirsGone
<1>2. created[s] \subseteq Dir
  BY DEF TypeOK, DirsOK
<1>3. ASSUME NEW t \in Txn, Begin(t) \/ Step(t) \/ Crash(t)
      PROVE  \E i \in touched'[s] : ParentOf[i] = d
  <2>1. CASE s = t
    <3>1. CASE RemoveParents(t)
      BY <1>1, <2>1, <3>1 DEF RemoveParents, Goto, mem, TypeOK, ControlOK
    <3>2. CASE ~RemoveParents(t)
      <4>1. pc'[t] # "reportClean"
        <5>1. CASE \E i \in Path : Add(t, i) \/ Revalidate(t, i) \/ ReadTarget(t, i) \/
           CheckUndo(t, i)
          BY <5>1 DEF Add, Revalidate, ReadTarget, CheckUndo, Goto, Leave, Fail, NextOp,
             TypeOK, ControlOK
        <5>2. CASE Begin(t) \/ Lock(t) \/ AlreadyHeld(t) \/ AssertStopped(t) \/ Stage(t)
           \/ OpenJournal(t) \/ MakeParent(t) \/ Intent(t) \/ Link(t) \/ Displace(t)
          BY <5>2 DEF Begin, Lock, AlreadyHeld, AssertStopped, Stage, OpenJournal,
             MakeParent, Intent, Link, Displace, Goto, Leave, Fail, NextOp, TypeOK,
             ControlOK
        <5>3. CASE RecordPending(t) \/ Install(t) \/ Unwind(t) \/ Installed(t) \/
           Finish(t) \/ RestorePending(t) \/ Undo(t) \/ Reinstate(t) \/ Report(t) \/
           Crash(t)
          BY <5>3 DEF RecordPending, Install, Unwind, Installed, Finish, RestorePending,
             Undo, Reinstate, Report, Crash, Goto, Leave, Fail, NextOp, NextUndo,
             TypeOK, ControlOK
        <5>4. QED
          BY <1>3, <3>2, <5>1, <5>2, <5>3 DEF Step
      <4>2. QED
        BY <1>1, <2>1, <4>1
    <3>3. QED
      BY <3>1, <3>2
  <2>2. CASE s # t
    <3>1. Same(s) /\ touched'[s] = touched[s]
      BY <1>3, <2>2, OwnStep
    <3>2. pc[s] = "reportClean" /\ d \in created[s]
      BY <1>1, <3>1 DEF Same
    <3>3. present' = present
      BY <1>3, <2>2, <3>2, HolderAlone DEF Leased, CommitPC
    <3>4. QED
      BY <1>1, <3>1, <3>2, <3>3 DEF DirsGone
  <2>3. QED
    BY <2>1, <2>2
<1>4. CASE Outside
  <2>1. /\ Same(s) /\ touched[s] \subseteq touched'[s]
        /\ \A e \in Dir : e \in present' /\ e \notin present =>
               \E i \in touched'[s] : ParentOf[i] = e
    BY <1>4, OutsideStep
  <2>2. pc[s] = "reportClean" /\ d \in created[s]
    BY <1>1, <2>1 DEF Same
  <2>3. CASE d \in present
    BY <2>1, <2>2, <2>3 DEF DirsGone
  <2>4. CASE d \notin present
    BY <1>1, <1>2, <2>1, <2>2, <2>4
  <2>5. QED
    BY <2>3, <2>4
<1>5. CASE UNCHANGED vars
  BY <1>1, <1>5 DEF DirsGone, vars, inst, mem, ghost
<1>6. QED
  BY <1>3, <1>4, <1>5 DEF Next

\* Where every file of a transaction is, at each point of its loop and its rollback.
WhereInv == TypeOK /\ CursorOK /\ LeaseOK /\ OldEmpty /\ BooksOK /\ WhereOK /\ DirsGone

\* The invariant is inductive.
LEMMA WhereInvariant == Spec => []WhereInv
<1>1. Init => WhereInv
  <2>1. SUFFICES ASSUME Init PROVE WhereInv
    OBVIOUS
  <2>2. TypeOK /\ CursorOK
    BY TypeInit, <2>1
  <2>3. LeaseOK /\ OldEmpty
    BY <2>1 DEF Init, LeaseOK, Leased, GuardPC, CommitPC, OldEmpty
  <2>4. BooksOK
    BY <2>1 DEF Init, BooksOK, Sound, PlanSound, LoopSound, UndoSound, LoopPC, BeforePC,
       OutPC, UndoPC
  <2>5. WhereOK /\ DirsGone
    BY <2>1 DEF Init, WhereOK, Settled, DirsGone
  <2>6. QED
    BY <2>2, <2>3, <2>4, <2>5 DEF WhereInv
<1>2. WhereInv /\ [Next]_vars => WhereInv'
  BY TypeStep, CursorStep, LeaseStep, EmptyStep, WhereStep, DirsStep DEF WhereInv
<1>3. QED
  BY <1>1, <1>2, PTL DEF Spec

\* Whatever fails, whoever else is at work, and wherever the process dies, the
\* original of every planned operation that no outsider touched is in old-i or in
\* place, for any number of destinations and transactions.
THEOREM OriginalsSurvive == Spec => []OriginalsOnDisk
<1>1. WhereInv => OriginalsOnDisk
  <2>1. SUFFICES ASSUME WhereInv, NEW t \in Txn, NEW i \in plan[t] \ touched[t],
                        pc[t] \in CommitPC, before[t][i] # Missing
                 PROVE  before[t][i] = IF old[t][i] # Missing THEN old[t][i] ELSE live[i]
    BY DEF OriginalsOnDisk
  <2>2. Where(t, i) /\ (i \in SeedPath => before[t][i] = Missing)
    BY <2>1 DEF WhereInv, WhereOK, Settled, BooksOK, Sound, PlanSound
  <2>3. CASE pc[t] \in LoopPC
    <3>1. In(t, i) \/ Out(t, i) \/ Skipped(t, i) \/ Ahead(t, i)
      BY <2>2, <2>3 DEF Where, InLoop, LoopPC
    <3>2. QED
      BY <2>1, <2>2, <3>1 DEF In, Out, Skipped, Ahead, AsPlanned
  <2>4. CASE pc[t] \in UndoPC
    <3>1. Out(t, i) \/ In(t, i) \/ Back(t, i) \/ Left(t, i)
      BY <2>2, <2>4 DEF Where, InUndo
    <3>2. QED
      BY <2>1, <2>2, <3>1 DEF In, Out, Back, Left
  <2>5. CASE pc[t] = "reportFailed"
    BY <2>1, <2>2, <2>5 DEF Where, Stopped, OnDisk
  <2>6. QED
    BY <2>1, <2>3, <2>4, <2>5 DEF CommitPC, LoopPC, BeforePC, OutPC, UndoPC
<1>2. QED
  BY <1>1, WhereInvariant, PTL

\* The record "committed" is written only over a complete commit.
THEOREM CommittedIsTrue == Spec => []CommitComplete
<1>1. WhereInv => CommitComplete
  <2>1. SUFFICES ASSUME WhereInv, NEW t \in Txn, pc[t] = "committing", todo[t] = {},
                        NEW i \in plan[t] \ touched[t]
                 PROVE  live[i] = Want[t][i] \/ (i \in SeedPath /\ live[i] \in Regular)
    BY DEF CommitComplete
  <2>2. InLoop(t, i)
    BY <2>1 DEF WhereInv, WhereOK, Settled, Where
  <2>3. QED
    BY <2>1, <2>2 DEF InLoop, LoopPC, BeforePC, In, Skipped
<1>2. QED
  BY <1>1, WhereInvariant, PTL

\* A rollback that reports success has put everything back.
THEOREM RolledBackIsTrue == Spec => []RollbackRestores
<1>1. WhereInv => RollbackRestores
  <2>1. SUFFICES ASSUME WhereInv, NEW t \in Txn, pc[t] = "reportClean"
                 PROVE  /\ \A i \in plan[t] \ touched[t] :
                              live[i] = before[t][i] \/ i \in SeedPath \ committed[t]
                        /\ \A d \in created[t] : d \in present =>
                              \E i \in touched[t] : ParentOf[i] = d
    BY DEF RollbackRestores
  <2>2. todo[t] = {} /\ pending[t] = NoPath
    BY <2>1 DEF WhereInv, BooksOK, Sound, UndoSound, UndoPC
  <2>3. ASSUME NEW i \in plan[t] \ touched[t]
        PROVE  live[i] = before[t][i] \/ i \in SeedPath \ committed[t]
    <3>1. InUndo(t, i)
      BY <2>1, <2>3 DEF WhereInv, WhereOK, Settled, Where
    <3>2. i # NoPath
      BY <2>1, PathAssumption DEF WhereInv, TypeOK, PlanOK, Path, NoPath
    <3>3. QED
      BY <2>1, <2>2, <3>1, <3>2 DEF InUndo, UndoPC, Back, Left
  <2>4. QED
    BY <2>1, <2>3 DEF WhereInv, DirsGone
<1>2. QED
  BY <1>1, WhereInvariant, PTL

\* Whatever a transaction reports of itself is so (transaction.rs).
THEOREM VerdictsAreTrue == Spec => []VerdictsTrue
BY CommittedIsTrue, RolledBackIsTrue, PTL DEF VerdictsTrue

---------------------------------------------------------------------------
(* A session owns the installation *)

\* A transaction that is past its last look at the marker goes on under one only if it
\* held the lease when the session was marked.
MarkedPC == {"opening"} \cup CommitPC
SessionOK == \A t \in Txn : pc[t] \in MarkedPC /\ marker => marked = t

\* The steps of a transaction leave the session alone and look at it in time.
LEMMA LookedInTime ==
  ASSUME TypeOK, NEW t \in Txn, Begin(t) \/ Step(t) \/ Crash(t)
  PROVE  /\ UNCHANGED <<marker, marked, writes>>
         /\ pc'[t] \in MarkedPC => ~marker \/ pc[t] \in MarkedPC
         /\ \A s \in Txn : s # t => pc'[s] = pc[s]
<1>1. CASE \E i \in Path : Add(t, i) \/ Revalidate(t, i) \/ ReadTarget(t, i) \/
   CheckUndo(t, i)
  BY <1>1, TxnAssumption DEF Add, Revalidate, ReadTarget, CheckUndo, Goto, Leave, Fail,
     NextOp, guards, ghost,
     TypeOK, ControlOK, GuardsOK, MarkedPC, CommitPC
<1>2. CASE Begin(t) \/ Lock(t) \/ AlreadyHeld(t)
  BY <1>2, TxnAssumption DEF Begin, Lock, AlreadyHeld, Goto, Leave, guards, ghost, TypeOK,
     ControlOK, GuardsOK, MarkedPC, CommitPC
<1>3. CASE AssertStopped(t) \/ Stage(t) \/ OpenJournal(t) \/ Crash(t)
  BY <1>3, TxnAssumption DEF AssertStopped, Stage, OpenJournal, Crash, Goto, Leave,
     guards, ghost, TypeOK, ControlOK, GuardsOK, MarkedPC, CommitPC
<1>4. CASE MakeParent(t) \/ Intent(t) \/ Link(t) \/ Displace(t) \/ RecordPending(t)
  BY <1>4, TxnAssumption DEF MakeParent, Intent, Link, Displace, RecordPending, Fail,
     Goto, NextOp, guards, ghost, TypeOK, ControlOK, GuardsOK, MarkedPC, CommitPC
<1>5. CASE Install(t) \/ Unwind(t) \/ Installed(t) \/ Finish(t) \/ Report(t)
  BY <1>5, TxnAssumption DEF Install, Unwind, Installed, Finish, Report, Fail, Goto,
     Leave, NextOp, guards, ghost, TypeOK, ControlOK, GuardsOK, MarkedPC, CommitPC
<1>6. CASE RestorePending(t) \/ Undo(t) \/ Reinstate(t) \/ RemoveParents(t)
  BY <1>6, TxnAssumption DEF RestorePending, Undo, Reinstate, RemoveParents, Goto,
     NextUndo, guards, ghost, TypeOK, ControlOK, GuardsOK, MarkedPC, CommitPC
<1>7. QED
  BY <1>1, <1>2, <1>3, <1>4, <1>5, <1>6 DEF Step

\* Every step keeps this: whoever is past that look when the session is marked has the
\* lease.
LEMMA SessionStep ==
  ASSUME TypeOK, LeaseOK, SessionOK, [Next]_vars
  PROVE  SessionOK'
<1>1. ASSUME NEW t \in Txn, Begin(t) \/ Step(t) \/ Crash(t)
      PROVE  SessionOK'
  <2>1. /\ UNCHANGED <<marker, marked>>
        /\ pc'[t] \in MarkedPC => ~marker \/ pc[t] \in MarkedPC
        /\ \A s \in Txn : s # t => pc'[s] = pc[s]
    BY <1>1, LookedInTime
  <2>2. QED
    BY <2>1 DEF SessionOK
<1>2. CASE Mark
  <2>1. marked' = lease /\ pc' = pc
    BY <1>2 DEF Mark
  <2>2. \A t \in Txn : pc[t] \in MarkedPC => lease = t
    BY TxnAssumption DEF LeaseOK, Leased, MarkedPC, GuardPC
  <2>3. QED
    BY <2>1, <2>2 DEF SessionOK
<1>3. CASE SessionOver
  BY <1>3 DEF SessionOver, SessionOK
<1>4. CASE Launch \/ BridgeGone
  BY <1>4 DEF Launch, BridgeGone, ghost, SessionOK
<1>5. CASE (\E i \in Path : UserDelete(i) \/ \E v \in Image : UserWrite(i, v))
           \/ \E d \in Dir : UserRemoveDir(d)
  <2>1. UNCHANGED <<marker, marked, pc>>
    BY <1>5 DEF UserDelete, UserWrite, UserRemoveDir, guards
  <2>2. QED
    BY <2>1 DEF SessionOK
<1>6. CASE UNCHANGED vars
  BY <1>6 DEF vars, guards, ghost, SessionOK
<1>7. QED
  BY <1>1, <1>2, <1>3, <1>4, <1>5, <1>6 DEF Next, Outside

\* Under a session marker only the user, the game and the transaction that had the lease
\* when the session was marked change files, wherever the launcher dies (library.rs:1194).
THEOREM SessionOwnsFiles == Spec => NoMutationUnderSession
<1> DEFINE SInv == TypeOK /\ CursorOK /\ LeaseOK /\ SessionOK
<1>1. Init => SInv
  <2>1. SUFFICES ASSUME Init PROVE SInv
    OBVIOUS
  <2>2. TypeOK /\ CursorOK
    BY TypeInit, <2>1
  <2>3. QED
    BY <2>1, <2>2 DEF Init, LeaseOK, Leased, GuardPC, CommitPC, SessionOK, MarkedPC
<1>2. SInv /\ [Next]_vars => SInv'
  BY TypeStep, CursorStep, LeaseStep, SessionStep
<1>3. SInv /\ [Next]_vars => [marker /\ writes' = writes /\ live' # live =>
                                marked \in Txn /\ lease = marked]_vars
  <2>1. SUFFICES ASSUME SInv, Next, marker, writes' = writes, live' # live
                 PROVE  marked \in Txn /\ lease = marked
    BY DEF vars, inst
  <2>2. ASSUME NEW t \in Txn, Begin(t) \/ Step(t) \/ Crash(t)
        PROVE  marked \in Txn /\ lease = marked
    <3>1. pc[t] \in CommitPC
      BY <2>1, <2>2, WriterCommits
    <3>2. marked = t
      BY <2>1, <3>1 DEF SessionOK, MarkedPC
    <3>3. lease = t
      BY <2>1, <3>1 DEF LeaseOK, Leased
    <3>4. QED
      BY <3>2, <3>3
  <2>3. ASSUME NEW i \in Path, NEW v \in Image, UserWrite(i, v)
        PROVE  FALSE
    BY <2>1, <2>3 DEF UserWrite, TypeOK, CountOK
  <2>4. CASE (\E d \in Dir : UserRemoveDir(d)) \/ Launch \/ Mark \/ BridgeGone \/
     SessionOver
    BY <2>1, <2>4 DEF UserRemoveDir, Launch, Mark, BridgeGone, SessionOver, inst
  <2>5. ASSUME NEW i \in Path, UserDelete(i)
        PROVE  FALSE
    BY <2>1, <2>5 DEF UserDelete, TypeOK, CountOK
  <2>6. QED
    BY <2>1, <2>2, <2>3, <2>4, <2>5 DEF Next, Outside
<1>4. QED
  BY <1>1, <1>2, <1>3, PTL DEF Spec, NoMutationUnderSession
===========================================================================
