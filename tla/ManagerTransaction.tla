------------------------ MODULE ManagerTransaction ------------------------
(***************************************************************************)
(* The journaled file transaction of modde-manager                         *)
(* (crates/modde-manager/src/transaction.rs, files.rs).  A transaction     *)
(* plans replacements from what it reads, takes the lease on the instance  *)
(* root, revalidates, and then moves files one rename at a time, keeping   *)
(* what it displaces in a staging directory together with a journal.  A    *)
(* failure rolls back; a crash leaves the staging directory behind.        *)
(*                                                                         *)
(* Around it run other transactions on the same root, the game and the     *)
(* user, who write files without any lease, and the Library bridge, which  *)
(* takes the lease to launch the game and leaves a session marker.         *)
(***************************************************************************)
EXTENDS Integers, FiniteSets

CONSTANTS
    Txn,          \* transactions, each a run of `apply` or `install_files_held`
    Held,         \* the ones whose caller already holds the lease when they plan
    NPath,        \* destinations are 1..NPath, planned and committed in this order
    SeedPath,     \* destinations with mode "seed": never replace an existing file
    Dir,          \* parent directories that may be missing
    Root,         \* the instance root, which is always there
    ParentOf,     \* parent directory of each destination
    Image,        \* contents a destination can have
    Regular,      \* the ones that are regular files, the others are directories
    Missing,      \* no such file
    Want,         \* Want[t][i]: what transaction t wants at destination i
    Nobody, Bridge,
    MaxWrites,    \* bound on the steps of the user and the game
    MaxFaults,    \* bound on failing I/O calls
    WithBridge    \* bound: the Library bridge may launch the game

Path == 1..NPath
Slot == Image \cup {Missing}
Shelf == [Path -> Slot]

ASSUME PathAssumption ==
    /\ NPath \in Nat
    /\ SeedPath \subseteq Path
    /\ ParentOf \in [Path -> Dir \cup {Root}]
    /\ Root \notin Dir

ASSUME ImageAssumption ==
    /\ Missing \notin Image
    /\ Regular \subseteq Image
    /\ Want \in [Txn -> [Path -> Image]]
    /\ \A t \in Txn, i \in SeedPath : Want[t][i] \in Regular

ASSUME TxnAssumption ==
    /\ Held \subseteq Txn
    /\ Nobody \notin Txn /\ Bridge \notin Txn /\ Nobody # Bridge
    /\ MaxWrites \in Nat /\ MaxFaults \in Nat
    /\ WithBridge \in BOOLEAN

NoPath == 0

VARIABLES
    live,       \* live[i]: what is at destination i
    present,    \* parent directories that exist
    lease,      \* holder of the advisory lock on the root
    marker,     \* .modde-library-session.json is in the root
    bridge,     \* manager-wrap: "none", "spawned" (marker not written), "running"
    pc,         \* where each transaction is
    todo,       \* destinations its current loop has still to visit
    cur,        \* destination its current step works on
    plan,       \* planned operations
    before,     \* what each operation expects to replace
    committed,  \* operations it knows to be done
    created,    \* directories it created
    pending,    \* operation whose original is moved but whose payload is not
    old,        \* staging: old-i
    rolled,     \* staging: rolled-back-i
    journal,    \* staging: journal.json
    writes, faults,
    touched,    \* ghost: destinations outsiders changed since t read them
    owed,       \* ghost: outsiders' images that outsiders have not replaced
    marked      \* ghost: who held the lease when the session was marked

inst   == <<live, present>>
guards == <<lease, marker, bridge>>
loop   == <<todo, cur>>
prep   == <<plan, before>>
mem    == <<committed, created, pending>>
disk   == <<old, rolled, journal>>
ghost  == <<touched, owed, marked>>
vars   == <<inst, guards, pc, loop, prep, mem, disk, writes, faults, ghost>>

GuardPC == {"checking", "staging", "rechecking", "opening"}
CommitPC == {"committing", "mkdir", "intent", "linking", "displacing", "displaced",
             "installing", "unwinding", "installed", "rollback", "undoing",
             "reinstating", "reportClean", "reportFailed"}
FinalPC == {"refused", "unchanged", "done", "rolled-back", "rollback-failed",
            "error", "crashed"}
PC == {"idle", "preparing"} \cup GuardPC \cup CommitPC \cup FinalPC

\* journal.json
Status == {"none", "prepared", "committing", "committed", "rolled-back", "rollback-failed"}
Record == [status : Status, committed : SUBSET Path, created : SUBSET Dir,
           pending : Path \cup {NoPath}]

Exists(d) == d = Root \/ d \in present
Least(i, S)    == i \in S /\ \A j \in S : i <= j
Greatest(i, S) == i \in S /\ \A j \in S : j <= i

\* Prepared::add: a file replaces a file, a directory a directory
SameKind(a, b) == a = Missing \/ (a \in Regular <=> b \in Regular)
\* Prepared::add: an operation is planned when there is something to change
Planned(t, i, b) == b # Want[t][i] /\ (i \notin SeedPath \/ b = Missing)
\* Prepared::revalidate
AsPlanned(t, i) == \/ live[i] = before[t][i]
                   \/ i \in SeedPath /\ live[i] \in Regular

Init ==
    /\ present \in SUBSET Dir
    /\ live \in {f \in Shelf :
                    \A i \in Path : f[i] # Missing => Exists(ParentOf[i])}
    /\ lease = Nobody /\ marker = FALSE /\ bridge = "none"
    /\ pc = [t \in Txn |-> "idle"]
    /\ todo = [t \in Txn |-> {}] /\ cur = [t \in Txn |-> NoPath]
    /\ plan = [t \in Txn |-> {}]
    /\ before = [t \in Txn |-> [i \in Path |-> Missing]]
    /\ committed = [t \in Txn |-> {}] /\ created = [t \in Txn |-> {}]
    /\ pending = [t \in Txn |-> NoPath]
    /\ old = [t \in Txn |-> [i \in Path |-> Missing]]
    /\ rolled = [t \in Txn |-> [i \in Path |-> Missing]]
    /\ journal = [t \in Txn |-> [status |-> "none", committed |-> {},
                                 created |-> {}, pending |-> NoPath]]
    /\ writes = 0 /\ faults = 0
    /\ touched = [t \in Txn |-> {}]
    /\ owed = [i \in Path |-> {live[i]} \ {Missing}]
    /\ marked = Nobody

---------------------------------------------------------------------------
(* Helpers of the steps *)

Goto(t, to) == pc' = [pc EXCEPT ![t] = to]
NoFault == faults' = faults
Fault == faults < MaxFaults /\ faults' = faults + 1

\* Variant: an early return that forgets the lease
LeaveKeepingLease(t, to) ==
    /\ Goto(t, to)
    /\ todo' = [todo EXCEPT ![t] = {}] /\ cur' = [cur EXCEPT ![t] = NoPath]
    /\ lease' = IF lease = t /\ to # "refused" THEN Nobody ELSE lease
    /\ UNCHANGED <<marker, bridge>>

\* Leave with `to`: the loop is over and the lease, if it is this one's, is dropped
Leave(t, to) ==
    /\ Goto(t, to)
    /\ todo' = [todo EXCEPT ![t] = {}] /\ cur' = [cur EXCEPT ![t] = NoPath]
    /\ lease' = IF lease = t THEN Nobody ELSE lease
    /\ UNCHANGED <<marker, bridge>>

\* journal(status, ...): the file is replaced atomically by what memory holds
Write(t, status, done, pend) ==
    journal' = [journal EXCEPT ![t] = [status |-> status, committed |-> done,
                                       created |-> created[t], pending |-> pend]]

\* The closure returned an error: roll the committed operations back
Fail(t, done) == Goto(t, "rollback") /\ todo' = [todo EXCEPT ![t] = done]

\* The loop body is over for operation i
NextOp(t, i) == Goto(t, "committing") /\ todo' = [todo EXCEPT ![t] = @ \ {i}]
NextUndo(t, i) == Goto(t, "rollback") /\ todo' = [todo EXCEPT ![t] = @ \ {i}]

\* Variant: a rename that replaces whatever is at the destination
CanReplace(i) == Exists(ParentOf[i])

\* rename_noreplace with the destination on the live side, or on the staging side
CanPlace(i) == live[i] = Missing /\ Exists(ParentOf[i])
CanTake(i, shelf) == live[i] # Missing /\ shelf[i] = Missing

---------------------------------------------------------------------------
(* Planning: prepare, add, lock, revalidate, assert_stopped, staging *)

Begin(t) ==
    /\ pc[t] = "idle"
    /\ t \in Held => lease = Nobody
    /\ lease' = IF t \in Held THEN t ELSE lease
    /\ Goto(t, "preparing")
    /\ todo' = [todo EXCEPT ![t] = Path]
    /\ UNCHANGED <<inst, marker, bridge, cur, prep, mem, disk, writes, faults, ghost>>

Add(t, i) ==
    /\ pc[t] = "preparing" /\ Least(i, todo[t])
    /\ UNCHANGED <<inst, mem, disk, writes, faults, owed, marked>>
    /\ \/ /\ SameKind(live[i], Want[t][i])
          /\ todo' = [todo EXCEPT ![t] = @ \ {i}]
          /\ before' = [before EXCEPT ![t][i] = live[i]]
          /\ plan' = IF Planned(t, i, live[i])
                     THEN [plan EXCEPT ![t] = @ \cup {i}] ELSE plan
          /\ touched' = [touched EXCEPT ![t] = @ \ {i}]
          /\ UNCHANGED <<pc, guards, cur>>
       \/ /\ ~SameKind(live[i], Want[t][i])
          /\ Leave(t, "refused")
          /\ UNCHANGED <<prep, touched>>

\* Variant: the lease is not exclusive
LockAlways(t) ==
    /\ pc[t] = "preparing" /\ todo[t] = {} /\ t \notin Held
    /\ lease' = t
    /\ Goto(t, "checking")
    /\ todo' = [todo EXCEPT ![t] = plan[t]]
    /\ UNCHANGED <<inst, marker, bridge, cur, prep, mem, disk, writes, faults, ghost>>

\* Prepared::apply takes the lease; a held one does not take it again
Lock(t) ==
    /\ pc[t] = "preparing" /\ todo[t] = {} /\ t \notin Held
    /\ \/ /\ lease = Nobody
          /\ lease' = t
          /\ Goto(t, "checking")
          /\ todo' = [todo EXCEPT ![t] = plan[t]]
          /\ UNCHANGED cur
       \/ /\ lease # Nobody
          /\ Leave(t, "refused")
    /\ UNCHANGED <<inst, marker, bridge, prep, mem, disk, writes, faults, ghost>>

AlreadyHeld(t) ==
    /\ pc[t] = "preparing" /\ todo[t] = {} /\ t \in Held
    /\ Goto(t, "checking")
    /\ todo' = [todo EXCEPT ![t] = plan[t]]
    /\ UNCHANGED <<inst, guards, cur, prep, mem, disk, writes, faults, ghost>>

\* Both revalidations; a changed root or source is a fault here
Revalidate(t, i) ==
    /\ pc[t] \in {"checking", "rechecking"} /\ Least(i, todo[t])
    /\ \/ /\ AsPlanned(t, i) /\ NoFault
          /\ todo' = [todo EXCEPT ![t] = @ \ {i}]
          /\ UNCHANGED <<pc, guards, cur>>
       \/ /\ IF AsPlanned(t, i) THEN Fault ELSE NoFault
          /\ Leave(t, "refused")
    /\ UNCHANGED <<inst, prep, mem, disk, writes, ghost>>

\* Variant: only processes are looked at, not the session marker
AssertNoProcess(t) ==
    /\ pc[t] \in {"checking", "rechecking"} /\ todo[t] = {}
    /\ IF plan[t] = {}
       THEN Leave(t, "unchanged")
       ELSE /\ Goto(t, IF pc[t] = "checking" THEN "staging" ELSE "opening")
            /\ UNCHANGED <<guards, loop>>
    /\ UNCHANGED <<inst, prep, mem, disk, writes, faults, ghost>>

AssertStopped(t) ==
    /\ pc[t] \in {"checking", "rechecking"} /\ todo[t] = {}
    /\ IF marker
       THEN Leave(t, "refused")
       ELSE IF plan[t] = {}
            THEN Leave(t, "unchanged")
            ELSE /\ Goto(t, IF pc[t] = "checking" THEN "staging" ELSE "opening")
                 /\ UNCHANGED <<guards, loop>>
    /\ UNCHANGED <<inst, prep, mem, disk, writes, faults, ghost>>

\* Payloads are written and read back in a temporary directory
Stage(t) ==
    /\ pc[t] = "staging"
    /\ \/ /\ NoFault
          /\ Goto(t, "rechecking")
          /\ todo' = [todo EXCEPT ![t] = plan[t]]
          /\ UNCHANGED <<guards, cur>>
       \/ /\ Fault
          /\ Leave(t, "refused")
    /\ UNCHANGED <<inst, prep, mem, disk, writes, ghost>>

\* staging.keep() and the first journal record
OpenJournal(t) ==
    /\ pc[t] = "opening"
    /\ \/ /\ NoFault
          /\ Write(t, "prepared", {}, NoPath)
          /\ Goto(t, "committing")
          /\ todo' = [todo EXCEPT ![t] = plan[t]]
          /\ UNCHANGED <<guards, cur>>
       \/ /\ Fault
          /\ Leave(t, "refused")
          /\ UNCHANGED journal
    /\ UNCHANGED <<inst, prep, mem, old, rolled, writes, ghost>>

---------------------------------------------------------------------------
(* The commit loop of apply_inner *)

\* Variant: every existing file is treated as a seed that is already there
ReadTargetSkipping(t, i) ==
    /\ pc[t] = "committing" /\ Least(i, todo[t])
    /\ IF live[i] \in Regular
       THEN NextOp(t, i) /\ UNCHANGED cur
       ELSE Goto(t, "mkdir") /\ cur' = [cur EXCEPT ![t] = i] /\ UNCHANGED todo
    /\ UNCHANGED <<inst, guards, prep, mem, disk, writes, faults, ghost>>

ReadTarget(t, i) ==
    /\ pc[t] = "committing" /\ Least(i, todo[t])
    /\ CASE i \in SeedPath /\ live[i] \in Regular ->
                NextOp(t, i) /\ UNCHANGED cur
         [] live[i] = before[t][i] /\ ~(i \in SeedPath /\ live[i] \in Regular) ->
                Goto(t, "mkdir") /\ cur' = [cur EXCEPT ![t] = i] /\ UNCHANGED todo
         [] OTHER ->
                Fail(t, committed[t]) /\ UNCHANGED cur
    /\ UNCHANGED <<inst, guards, prep, mem, disk, writes, faults, ghost>>

\* Anchor::target with create: missing parents are made and remembered
MakeParent(t) ==
    LET d == ParentOf[cur[t]] IN
    /\ pc[t] = "mkdir"
    /\ \/ /\ NoFault
          /\ Goto(t, "intent")
          /\ present' = present \cup ({d} \cap Dir)
          /\ created' = IF Exists(d) THEN created
                        ELSE [created EXCEPT ![t] = @ \cup {d}]
          /\ UNCHANGED todo
       \/ /\ Fault
          /\ Fail(t, committed[t])
          /\ UNCHANGED <<present, created>>
    /\ UNCHANGED <<live, guards, cur, prep, committed, pending, disk, writes, ghost>>

\* The "committing" record, then revalidate_parent
Intent(t) ==
    LET i == cur[t] IN
    /\ pc[t] = "intent"
    /\ \/ /\ NoFault
          /\ Write(t, "committing", committed[t], pending[t])
          /\ IF ~Exists(ParentOf[i]) THEN Fail(t, committed[t])
             ELSE /\ Goto(t, IF i \in SeedPath THEN "linking"
                             ELSE IF before[t][i] = Missing THEN "installing"
                             ELSE "displacing")
                  /\ UNCHANGED todo
       \/ Fault /\ Fail(t, committed[t]) /\ UNCHANGED journal
    /\ UNCHANGED <<inst, guards, cur, prep, mem, old, rolled, writes, ghost>>

\* hard_link of a seed; losing the race against a file is not an error
Link(t) ==
    LET i == cur[t] IN
    /\ pc[t] = "linking"
    /\ \/ /\ CanPlace(i) /\ NoFault
          /\ live' = [live EXCEPT ![i] = Want[t][i]]
          /\ Goto(t, "installed") /\ UNCHANGED todo
       \/ /\ live[i] \in Regular /\ NoFault
          /\ NextOp(t, i) /\ UNCHANGED live
       \/ /\ IF CanPlace(i) \/ live[i] \in Regular THEN Fault ELSE NoFault
          /\ Fail(t, committed[t]) /\ UNCHANGED live
    /\ UNCHANGED <<present, guards, cur, prep, mem, disk, writes, ghost>>

\* rename_noreplace(target, old-i)
Displace(t) ==
    LET i == cur[t] IN
    /\ pc[t] = "displacing"
    /\ \/ /\ CanTake(i, old[t]) /\ NoFault
          /\ old' = [old EXCEPT ![t][i] = live[i]]
          /\ live' = [live EXCEPT ![i] = Missing]
          /\ pending' = [pending EXCEPT ![t] = i]
          /\ Goto(t, "displaced") /\ UNCHANGED todo
       \/ /\ IF CanTake(i, old[t]) THEN Fault ELSE NoFault
          /\ Fail(t, committed[t])
          /\ UNCHANGED <<old, live, pending>>
    /\ UNCHANGED <<present, guards, cur, prep, committed, created, rolled, journal,
                   writes, ghost>>

RecordPending(t) ==
    /\ pc[t] = "displaced"
    /\ \/ /\ NoFault
          /\ Write(t, "committing", committed[t], pending[t])
          /\ Goto(t, "installing") /\ UNCHANGED todo
       \/ Fault /\ Fail(t, committed[t]) /\ UNCHANGED journal
    /\ UNCHANGED <<inst, guards, cur, prep, mem, old, rolled, writes, ghost>>

\* rename_noreplace(new-i, target)
Install(t) ==
    LET i == cur[t] IN
    /\ pc[t] = "installing"
    /\ \/ /\ CanPlace(i) /\ NoFault
          /\ live' = [live EXCEPT ![i] = Want[t][i]]
          /\ Goto(t, "installed") /\ UNCHANGED todo
       \/ /\ IF CanPlace(i) THEN Fault ELSE NoFault
          /\ IF before[t][i] # Missing
             THEN Goto(t, "unwinding") /\ UNCHANGED todo
             ELSE Fail(t, committed[t])
          /\ UNCHANGED live
    /\ UNCHANGED <<present, guards, cur, prep, mem, disk, writes, ghost>>

\* The payload did not fit: put the original back at once
Unwind(t) ==
    LET i == cur[t] IN
    /\ pc[t] = "unwinding"
    /\ \/ /\ CanPlace(i) /\ NoFault
          /\ live' = [live EXCEPT ![i] = old[t][i]]
          /\ old' = [old EXCEPT ![t][i] = Missing]
          /\ pending' = [pending EXCEPT ![t] = NoPath]
       \/ /\ IF CanPlace(i) THEN Fault ELSE NoFault
          /\ UNCHANGED <<live, old, pending>>
    /\ Fail(t, committed[t])
    /\ UNCHANGED <<present, guards, cur, prep, committed, created, rolled, journal,
                   writes, ghost>>

\* Variant: the record is written before committed.push
InstalledLate(t) ==
    LET i == cur[t] IN
    /\ pc[t] = "installed"
    /\ pending' = [pending EXCEPT ![t] = NoPath]
    /\ \/ /\ NoFault /\ Write(t, "committing", committed[t], NoPath) /\ NextOp(t, i)
          /\ committed' = [committed EXCEPT ![t] = @ \cup {i}]
       \/ Fault /\ Fail(t, committed[t]) /\ UNCHANGED <<committed, journal>>
    /\ UNCHANGED <<inst, guards, cur, prep, created, old, rolled, writes, ghost>>

\* committed.push and the record that says so
Installed(t) ==
    LET i == cur[t]  done == committed[t] \cup {i} IN
    /\ pc[t] = "installed"
    /\ committed' = [committed EXCEPT ![t] = done]
    /\ pending' = [pending EXCEPT ![t] = NoPath]
    /\ \/ NoFault /\ Write(t, "committing", done, NoPath) /\ NextOp(t, i)
       \/ Fault /\ Fail(t, done) /\ UNCHANGED journal
    /\ UNCHANGED <<inst, guards, cur, prep, created, old, rolled, writes, ghost>>

\* Variant: the last record has a status nobody reads
FinishUnnamed(t) ==
    /\ pc[t] = "committing" /\ todo[t] = {}
    /\ \/ NoFault /\ Write(t, "done", committed[t], pending[t]) /\ Leave(t, "done")
       \/ Fault /\ Leave(t, "error") /\ UNCHANGED journal
    /\ UNCHANGED <<inst, prep, mem, old, rolled, writes, ghost>>

\* The loop is over; a failing last record is an error without a rollback
Finish(t) ==
    /\ pc[t] = "committing" /\ todo[t] = {}
    /\ \/ NoFault /\ Write(t, "committed", committed[t], pending[t]) /\ Leave(t, "done")
       \/ Fault /\ Leave(t, "error") /\ UNCHANGED journal
    /\ UNCHANGED <<inst, prep, mem, old, rolled, writes, ghost>>

---------------------------------------------------------------------------
(* The rollback of apply_inner *)

RestorePending(t) ==
    LET i == pending[t] IN
    /\ pc[t] = "rollback" /\ i # NoPath
    /\ \/ /\ CanPlace(i) /\ NoFault
          /\ live' = [live EXCEPT ![i] = old[t][i]]
          /\ old' = [old EXCEPT ![t][i] = Missing]
          /\ pending' = [pending EXCEPT ![t] = NoPath]
          /\ UNCHANGED pc
       \/ /\ IF CanPlace(i) THEN Fault ELSE NoFault
          /\ Goto(t, "reportFailed")
          /\ UNCHANGED <<live, old, pending>>
    /\ UNCHANGED <<present, guards, loop, prep, committed, created, rolled, journal,
                   writes, ghost>>

\* Undo refuses a destination somebody changed since
CheckUndo(t, i) ==
    /\ pc[t] = "rollback" /\ pending[t] = NoPath /\ Greatest(i, todo[t])
    /\ IF live[i] = Want[t][i]
       THEN Goto(t, "undoing") /\ cur' = [cur EXCEPT ![t] = i]
       ELSE Goto(t, "reportFailed") /\ UNCHANGED cur
    /\ UNCHANGED <<inst, guards, todo, prep, mem, disk, writes, faults, ghost>>

\* rename_noreplace(target, rolled-back-i)
Undo(t) ==
    LET i == cur[t] IN
    /\ pc[t] = "undoing"
    /\ \/ /\ CanTake(i, rolled[t]) /\ NoFault
          /\ rolled' = [rolled EXCEPT ![t][i] = live[i]]
          /\ live' = [live EXCEPT ![i] = Missing]
          /\ IF before[t][i] # Missing
             THEN Goto(t, "reinstating") /\ UNCHANGED todo
             ELSE NextUndo(t, i)
       \/ /\ IF CanTake(i, rolled[t]) THEN Fault ELSE NoFault
          /\ Goto(t, "reportFailed")
          /\ UNCHANGED <<rolled, live, todo>>
    /\ UNCHANGED <<present, guards, cur, prep, mem, old, journal, writes, ghost>>

\* Variant: the original is dropped, not put back
ReinstateNothing(t) ==
    LET i == cur[t] IN
    /\ pc[t] = "reinstating"
    /\ NoFault
    /\ old' = [old EXCEPT ![t][i] = Missing]
    /\ NextUndo(t, i)
    /\ UNCHANGED <<inst, guards, cur, prep, mem, rolled, journal, writes, ghost>>

\* rename_noreplace(old-i, target)
Reinstate(t) ==
    LET i == cur[t] IN
    /\ pc[t] = "reinstating"
    /\ \/ /\ CanPlace(i) /\ NoFault
          /\ live' = [live EXCEPT ![i] = old[t][i]]
          /\ old' = [old EXCEPT ![t][i] = Missing]
          /\ NextUndo(t, i)
       \/ /\ IF CanPlace(i) THEN Fault ELSE NoFault
          /\ Goto(t, "reportFailed")
          /\ UNCHANGED <<live, old, todo>>
    /\ UNCHANGED <<present, guards, cur, prep, mem, rolled, journal, writes, ghost>>

\* remove_dir of every created directory, until one is not empty
RemoveParents(t) ==
    /\ pc[t] = "rollback" /\ pending[t] = NoPath /\ todo[t] = {}
    /\ \E gone \in SUBSET created[t] :
         /\ gone \subseteq present
         /\ \A i \in Path : ParentOf[i] \in gone => live[i] = Missing
         /\ present' = present \ gone
         /\ Goto(t, IF gone = created[t] THEN "reportClean" ELSE "reportFailed")
         /\ IF \E d \in created[t] \ gone :
                 d \notin present \/ \E i \in Path : ParentOf[i] = d /\ live[i] # Missing
            THEN NoFault
            ELSE IF gone = created[t] THEN NoFault ELSE Fault
    /\ UNCHANGED <<live, guards, loop, prep, mem, disk, writes, ghost>>

\* The verdict goes to the journal; the call returns an error either way
Report(t) ==
    /\ pc[t] \in {"reportClean", "reportFailed"}
    /\ LET status == IF pc[t] = "reportClean" THEN "rolled-back" ELSE "rollback-failed" IN
       \/ NoFault /\ Write(t, status, committed[t], pending[t]) /\ Leave(t, status)
       \/ Fault /\ Leave(t, "error") /\ UNCHANGED journal
    /\ UNCHANGED <<inst, prep, mem, old, rolled, writes, ghost>>

\* The process dies: memory and lease are gone, the staging directory stays
Crash(t) ==
    /\ pc[t] \notin {"idle"} \cup FinalPC
    /\ Leave(t, "crashed")
    /\ UNCHANGED <<inst, prep, mem, disk, writes, faults, ghost>>

---------------------------------------------------------------------------
(* The user and the game, and the Library bridge *)

Touch(S) == touched' = [t \in Txn |-> touched[t] \cup S]

UserWrite(i, v) ==
    /\ writes < MaxWrites /\ v # live[i]
    /\ writes' = writes + 1
    /\ live' = [live EXCEPT ![i] = v]
    /\ present' = present \cup ({ParentOf[i]} \cap Dir)
    /\ owed' = [owed EXCEPT ![i] = (@ \ {live[i]}) \cup {v}]
    /\ Touch({i})
    /\ UNCHANGED <<guards, pc, loop, prep, mem, disk, faults, marked>>

UserDelete(i) ==
    /\ writes < MaxWrites /\ live[i] # Missing
    /\ writes' = writes + 1
    /\ live' = [live EXCEPT ![i] = Missing]
    /\ owed' = [owed EXCEPT ![i] = @ \ {live[i]}]
    /\ Touch({i})
    /\ UNCHANGED <<present, guards, pc, loop, prep, mem, disk, faults, marked>>

UserRemoveDir(d) ==
    /\ writes < MaxWrites /\ d \in present
    /\ \A i \in Path : ParentOf[i] = d => live[i] = Missing
    /\ writes' = writes + 1
    /\ present' = present \ {d}
    /\ Touch({i \in Path : ParentOf[i] = d})
    /\ UNCHANGED <<live, guards, pc, loop, prep, mem, disk, faults, owed, marked>>

\* wiring::launch: the lease, assert_stopped, then a `library manager-wrap` child
Launch ==
    /\ WithBridge /\ lease = Nobody /\ ~marker /\ bridge = "none"
    /\ lease' = Bridge /\ bridge' = "spawned"
    /\ UNCHANGED <<inst, marker, pc, loop, prep, mem, disk, writes, faults, ghost>>

\* The wrapper writes the durable marker before the game starts; it does not ask who
\* holds the lease by then
Mark ==
    /\ bridge = "spawned" /\ ~marker
    /\ marker' = TRUE /\ bridge' = "running" /\ marked' = lease
    /\ UNCHANGED <<inst, lease, pc, loop, prep, mem, disk, writes, faults, touched, owed>>

\* The launcher ends, of its own or killed; its wrapper goes on, whether it has marked
\* the session yet or not
BridgeGone ==
    /\ lease = Bridge
    /\ lease' = Nobody
    /\ UNCHANGED <<inst, marker, bridge, pc, loop, prep, mem, disk, writes, faults, ghost>>

\* `library finish` or a completed session clears the marker
SessionOver ==
    /\ bridge = "running"
    /\ marker' = FALSE /\ bridge' = "none" /\ marked' = Nobody
    /\ UNCHANGED <<inst, lease, pc, loop, prep, mem, disk, writes, faults, touched, owed>>

---------------------------------------------------------------------------
Step(t) ==
    \/ \E i \in Path : Add(t, i) \/ Revalidate(t, i) \/ ReadTarget(t, i) \/ CheckUndo(t, i)
    \/ Lock(t) \/ AlreadyHeld(t) \/ AssertStopped(t) \/ Stage(t) \/ OpenJournal(t)
    \/ MakeParent(t) \/ Intent(t) \/ Link(t) \/ Displace(t) \/ RecordPending(t)
    \/ Install(t) \/ Unwind(t) \/ Installed(t) \/ Finish(t)
    \/ RestorePending(t) \/ Undo(t) \/ Reinstate(t) \/ RemoveParents(t) \/ Report(t)

Outside ==
    \/ \E i \in Path : UserDelete(i) \/ \E v \in Image : UserWrite(i, v)
    \/ \E d \in Dir : UserRemoveDir(d)
    \/ Launch \/ Mark \/ BridgeGone \/ SessionOver

Next == (\E t \in Txn : Begin(t) \/ Step(t) \/ Crash(t)) \/ Outside

Spec == Init /\ [][Next]_vars
\* A started process keeps running until it ends or crashes
FairSpec == Spec /\ \A t \in Txn : WF_vars(Step(t))

---------------------------------------------------------------------------
(* Properties *)

FilesOK   == live \in Shelf /\ old \in [Txn -> Shelf] /\ rolled \in [Txn -> Shelf]
DirsOK    == present \subseteq Dir /\ created \in [Txn -> SUBSET Dir]
GuardsOK  == /\ lease \in Txn \cup {Nobody, Bridge} /\ marker \in BOOLEAN
             /\ bridge \in {"none", "spawned", "running"}
ControlOK == pc \in [Txn -> PC]
LoopOK    == todo \in [Txn -> SUBSET Path] /\ cur \in [Txn -> Path \cup {NoPath}]
PlanOK    == plan \in [Txn -> SUBSET Path] /\ before \in [Txn -> Shelf]
MemoryOK  == /\ committed \in [Txn -> SUBSET Path]
             /\ pending \in [Txn -> Path \cup {NoPath}]
JournalOK == journal \in [Txn -> Record]
CountOK   == writes \in 0..MaxWrites /\ faults \in 0..MaxFaults
GhostOK   == /\ touched \in [Txn -> SUBSET Path] /\ owed \in [Path -> SUBSET Image]
             /\ marked \in Txn \cup {Nobody, Bridge}

TypeOK == /\ FilesOK /\ DirsOK /\ GuardsOK /\ ControlOK /\ LoopOK /\ PlanOK
          /\ MemoryOK /\ JournalOK /\ CountOK /\ GhostOK

\* What the user or the game wrote, and did not replace themselves, is still in
\* place or in some transaction's staging directory: no interleaving of commits,
\* rollbacks, failing calls and crashes destroys it (rename_noreplace everywhere).
NothingLost ==
    \A i \in Path : owed[i] \subseteq
        {live[i]} \cup {old[t][i] : t \in Txn} \cup {rolled[t][i] : t \in Txn}

\* A transaction displaces only the image it planned to replace, unless an
\* outsider wrote the destination meanwhile: a plan made before another
\* transaction committed is never carried out (lease, revalidate, last read).
NoStaleOverwrite ==
    \A t \in Txn, i \in Path :
        old[t][i] # Missing /\ i \notin touched[t] => old[t][i] = before[t][i]

\* While a transaction is in its commit loop or its rollback, the original of every
\* operation is where a recovery that only sees the disk looks for it: in old-i
\* if there is one, else still in place.  So a crash at any point is recoverable.
OriginalsOnDisk ==
    \A t \in Txn : \A i \in plan[t] \ touched[t] :
        pc[t] \in CommitPC /\ before[t][i] # Missing =>
            before[t][i] = IF old[t][i] # Missing THEN old[t][i] ELSE live[i]

\* At the end of the commit loop every planned destination an outsider left alone
\* has its payload, or a file where a seed was planned, so the record "committed"
\* is the truth.
CommitComplete ==
    \A t \in Txn : pc[t] = "committing" /\ todo[t] = {} =>
        \A i \in plan[t] \ touched[t] :
            live[i] = Want[t][i] \/ (i \in SeedPath /\ live[i] \in Regular)

\* A rollback that reports "rolled-back" has restored every planned destination an
\* outsider left alone (a seed it did not place stays as it is) and removed the
\* directories it made.
RollbackRestores ==
    \A t \in Txn : pc[t] = "reportClean" =>
        /\ \A i \in plan[t] \ touched[t] :
              live[i] = before[t][i] \/ i \in SeedPath \ committed[t]
        /\ \A d \in created[t] : d \in present =>
              \E i \in touched[t] : ParentOf[i] = d

\* What a transaction reports is so: "committed" over a complete commit, "rolled-back"
\* over a complete restoration (transaction.rs).
VerdictsTrue == CommitComplete /\ RollbackRestores

\* The abstract store: images set aside are the ones in any staging directory
Kept == [i \in Path |-> ({old[t][i] : t \in Txn} \cup {rolled[t][i] : t \in Txn})
                        \ {Missing}]
Retaining == INSTANCE RetainingStore WITH kept <- Kept

\* Every transaction only fills empty destinations, sets images aside and puts them
\* back, one destination at a time: it implements RetainingStore.
RetainsEverything == Retaining!Spec

\* While a Library session owns the installation no transaction changes a file, but for
\* the one that was at work when the session was marked: it got the lease of a launcher
\* that died before its wrapper wrote the marker (library.rs:1194).
NoMutationUnderSession ==
    [][marker /\ writes' = writes /\ live' # live =>
          marked \in Txn /\ lease = marked]_vars

\* A transaction that took the lease gives it back, whatever fails or crashes.
LeaseReturned == \A t \in Txn : lease = t ~> lease # t
===========================================================================
