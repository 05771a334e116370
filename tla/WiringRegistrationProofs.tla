------------------- MODULE WiringRegistrationProofs --------------------
(***************************************************************************)
(* Proofs about WiringRegistration, for every set of instances, entries    *)
(* and slugs, any number of runners, and any number of changes and faults. *)
(***************************************************************************)
EXTENDS WiringRegistration, TLAPS, WellFoundedInduction

---------------------------------------------------------------------------
(* The parts of the inductive invariant *)

Registering == {"apply", "register"}
Registers(i) == job[i].op \in Registering

\* Which command is at which step, on which of its entries
JobOK(i) ==
    /\ pc[i] = "idle" => job[i] = Idle
    /\ pc[i] # "idle" => /\ E(i) \in Entry /\ Owner[E(i)] = i
                         /\ job[i].op \in Op /\ job[i].runner \in Version
    /\ pc[i] \in {"lock", "plan", "check", "refused", "settings", "yml", "read", "backup",
                  "write", "row", "upsert", "undo", "remove", "undone", "failed", "verify"} =>
       Registers(i)
    /\ pc[i] = "installer" => job[i].op = "install"

\* Past the lock a command that registers has it, and knows if Lutris may have run
HeldOK(i) ==
    /\ Registers(i) /\ pc[i] # "lock" => dblock = i
    /\ Registers(i) /\ pc[i] \notin {"lock", "plan"} /\ lutris => met[i]

\* What is recorded is the command's runner, or nothing yet, or to be chosen again
RunnerOK(i) ==
    /\ pc[i] # "idle" /\ ~job[i].reselect => record[i] \in {None, job[i].runner}
    /\ Registers(i) /\ pc[i] \in {"verify", "done"} => record[i] = job[i].runner

\* The prefix comes before all that is written about it
PrefixOK(i) ==
    Registers(i) /\ pc[i] \in {"settings", "yml", "read", "backup", "write", "row", "upsert",
                             "record", "verify", "done"} =>
       prefix[E(i)] = "ready"

\* What was planned without --adopt is still nobody else's
OwnedOK(i) ==
    Registers(i) /\ ~met[i] /\ ~job[i].adopt =>
       /\ pc[i] \in {"check", "prefix", "boot", "settings", "yml", "read", "backup",
                     "write"} => Ours(i)
       /\ pc[i] \in {"row", "upsert"} /\ row[S(i)] # None => row[S(i)].of = E(i)

\* What was written is still there
WrittenOK(i) ==
    Registers(i) /\ ~met[i] =>
       /\ pc[i] \in {"row", "upsert", "undo", "remove", "record", "verify", "done"} =>
             yml[S(i)] = Body(i)
       /\ pc[i] = "upsert" => job[i].found = (row[S(i)] # None)
       /\ pc[i] \in {"record", "verify", "done"} => row[S(i)] = Want(i)

Sound(i) == JobOK(i) /\ HeldOK(i) /\ RunnerOK(i) /\ PrefixOK(i) /\ OwnedOK(i) /\ WrittenOK(i)

\* What is about to be replaced is not what replaces it, and is in the backup it was
\* copied to
BackupOK(i) ==
    /\ pc[i] = "backup" => yml[S(i)] # Body(i)
    /\ pc[i] = "write" => /\ job[i].backup # None => job[i].backup \in kept[S(i)]
                          /\ ~met[i] => yml[S(i)] = job[i].backup

IInv == TypeOK /\ \A i \in Instance : Sound(i) /\ BackupOK(i)

---------------------------------------------------------------------------
(* Runners *)

\* A set of runners that is not empty has a newest one
LEMMA NewestIsMember ==
  ASSUME NEW R \in SUBSET Version, R # {}
  PROVE  \E v \in R : \A w \in R : w <= v
<1>1. Newest \in Nat
  BY NameAssumption
<1>2. DEFINE T == {n \in Nat : \E v \in R : n = Newest - v}
<1>3. T \subseteq Nat /\ T # {}
  <2>1. PICK v \in R : TRUE
    OBVIOUS
  <2>2. Newest - v \in Nat
    BY <1>1, <2>1 DEF Version
  <2>3. QED
    BY <2>1, <2>2
<1>4. PICK x \in T : \A y \in T : ~ (<<y, x>> \in OpToRel(<, Nat))
  BY <1>3, NatLessThanWellFounded, WFMin
<1>5. \A y \in T : ~ (y < x)
  BY <1>3, <1>4 DEF OpToRel
<1>6. PICK v \in R : x = Newest - v
  OBVIOUS
<1>7. ASSUME NEW w \in R PROVE w <= v
  <2>1. Newest - w \in T /\ w \in Nat /\ v \in Nat
    BY <1>1 DEF Version
  <2>2. QED
    BY <1>1, <1>5, <1>6, <2>1
<1>8. QED
  BY <1>7

\* A runner that is selected is one, and the recorded one unless it is to be chosen again
LEMMA SelectIs ==
  ASSUME TypeOK, NEW i \in Instance, NEW d \in Declaration, NEW r \in BOOLEAN,
         Select(i, d, r) # None
  PROVE  /\ Select(i, d, r) \in Version
         /\ ~r => record[i] \in {None, Select(i, d, r)}
<1>1. installed \subseteq Version /\ record[i] \in Version \cup {None}
  BY DEF TypeOK
<1>2. Discovered(d) # None => Discovered(d) \in Version
  <2>1. DEFINE fit == {v \in installed : d.pin \in {Latest, v}}
  <2>2. fit \in SUBSET Version
    BY <1>1
  <2>3. Discovered(d) = IF fit = {} THEN None ELSE CHOOSE v \in fit : \A w \in fit : w <= v
    BY DEF Discovered
  <2>4. HIDE DEF fit
  <2>5. fit # {} => Discovered(d) \in fit
    BY <2>2, <2>3, NewestIsMember
  <2>6. QED
    BY <2>2, <2>3, <2>5
<1>3. QED
  BY <1>1, <1>2 DEF Select

---------------------------------------------------------------------------
(* What a command leaves alone *)

StepOf(i) ==
    \/ \E e \in Entry, op \in Op, adopt \in BOOLEAN, reselect \in Reselect :
          Begin(i, e, op, adopt, reselect)
    \/ Proceed(i) \/ UpsertFails(i) \/ Die(i)

\* A step of one instance touches no command, runner or prefix of another, and Lutris' files
\* under the lock only
Within(i) ==
    /\ \A j \in Instance : j # i =>
          /\ pc'[j] = pc[j] /\ job'[j] = job[j] /\ record'[j] = record[j] /\ met'[j] = met[j]
          /\ dblock = j => dblock' = j
    /\ \A e \in Entry : Owner[e] # i => prefix'[e] = prefix[e]
    /\ lutris' = lutris
    /\ dblock # i => yml' = yml /\ row' = row /\ kept' = kept

\* Every step of a command is such a step
LEMMA StepWithin ==
  ASSUME IInv, NEW i \in Instance, StepOf(i)
  PROVE  Within(i)
<1>a. TypeOK /\ JobOK(i) /\ HeldOK(i) /\ None \notin Instance
  BY NameAssumption DEF IInv, Sound
<1>b. /\ pc[i] # "idle" => E(i) \in Entry /\ Owner[E(i)] = i
      /\ pc[i] \in {"backup", "write", "upsert", "undo", "remove"} => dblock = i
  BY <1>a DEF JobOK, HeldOK
<1> USE DEF Within, disk, world, Leave, At
<1>0. CASE \E e \in Entry, op \in Op, adopt \in BOOLEAN, reselect \in Reselect :
              Begin(i, e, op, adopt, reselect)
  <2>1. PICK e \in Entry, op \in Op, adopt \in BOOLEAN, reselect \in Reselect :
           Begin(i, e, op, adopt, reselect)
    BY <1>0
  <2>2. UNCHANGED <<yml, row, kept, prefix, record, lutris, dblock, met>>
    BY <2>1 DEF Begin
  <2>3. \A j \in Instance : j # i => pc'[j] = pc[j] /\ job'[j] = job[j]
    BY <1>a, <2>1 DEF Begin, TypeOK
  <2>4. QED
    BY <2>2, <2>3
<1>1. CASE LockDb(i)
  BY <1>a, <1>1 DEF LockDb
<1>2. CASE LockBusy(i)
  BY <1>2 DEF LockBusy
<1>3. CASE Plan(i)
  BY <1>3 DEF Plan
<1>4. CASE PlanRefused(i)
  BY <1>4 DEF PlanRefused
<1>5. CASE Check(i)
  BY <1>5 DEF Check
<1>6. CASE PrefixThere(i)
  BY <1>6 DEF PrefixThere
<1>7. CASE MakePrefix(i)
  BY <1>b, <1>7 DEF MakePrefix
<1>8. CASE PrefixAppeared(i)
  BY <1>8 DEF PrefixAppeared
<1>9. CASE Boot(i)
  BY <1>b, <1>9 DEF Boot
<1>10. CASE RunInstaller(i)
  BY <1>10 DEF RunInstaller
<1>11. CASE Reconcile(i)
  BY <1>11 DEF Reconcile
<1>12. CASE ReconcileFails(i)
  BY <1>12 DEF ReconcileFails
<1>13. CASE WriteYml(i)
  BY <1>b, <1>13 DEF WriteYml
<1>14. CASE UpsertRow(i)
  BY <1>b, <1>14 DEF UpsertRow
<1>15. CASE Undo(i)
  BY <1>b, <1>15 DEF Undo
<1>21. CASE BeginEntry(i)
  BY <1>a, <1>21 DEF BeginEntry, TypeOK
<1>22. CASE ReadYml(i)
  BY <1>a, <1>22 DEF ReadYml, TypeOK
<1>23. CASE BackUp(i)
  BY <1>a, <1>b, <1>23 DEF BackUp, TypeOK
<1>24. CASE NothingToBackUp(i)
  BY <1>24 DEF NothingToBackUp
<1>25. CASE ReadRow(i)
  BY <1>a, <1>25 DEF ReadRow, TypeOK
<1>26. CASE RemoveNew(i)
  BY <1>b, <1>26 DEF RemoveNew
<1>16. CASE Record(i)
  BY <1>16 DEF Record
<1>17. CASE Verify(i)
  BY <1>17 DEF Verify
<1>18. CASE Return(i)
  BY <1>18 DEF Return
<1>19. CASE UpsertFails(i)
  BY <1>19 DEF UpsertFails
<1>20. CASE Die(i)
  BY <1>a, <1>b, <1>20 DEF Die, TypeOK
<1>q. QED
  BY <1>0, <1>1, <1>2, <1>3, <1>4, <1>5, <1>6, <1>7, <1>8, <1>9, <1>10, <1>11, <1>12, <1>13,
     <1>14, <1>15, <1>16, <1>17, <1>18, <1>19, <1>20, <1>21, <1>22, <1>23, <1>24, <1>25,
     <1>26 DEF StepOf, Proceed

\* So no other command sees it
LEMMA OthersSound ==
  ASSUME IInv, NEW i \in Instance, NEW j \in Instance, j # i, Within(i)
  PROVE  Sound(j)'
<1>a. TypeOK /\ Sound(j) /\ None \notin Instance
  BY NameAssumption DEF IInv
<1>1. UNCHANGED <<pc[j], job[j], record[j], met[j], lutris>>
  BY DEF Within
<1>2. UNCHANGED <<E(j), S(j), Body(j), Want(j), Registers(j)>>
  BY <1>1 DEF E, S, Body, Want, Registers
<1>3. JobOK(j)' /\ RunnerOK(j)'
  BY <1>a, <1>1, <1>2 DEF Sound, JobOK, RunnerOK
<1>4. HeldOK(j)'
  BY <1>a, <1>2 DEF Sound, HeldOK, Within
<1>5. CASE Registers(j) /\ pc[j] # "lock"
  <2>1. dblock = j /\ UNCHANGED <<yml, row>>
    BY <1>a, <1>5 DEF Sound, HeldOK, Within
  <2>2. Ours(j)' = Ours(j)
    BY <1>2, <2>1 DEF Ours
  <2>3. OwnedOK(j)' /\ WrittenOK(j)'
    BY <1>a, <1>1, <1>2, <2>1, <2>2 DEF Sound, OwnedOK, WrittenOK
  <2>4. PrefixOK(j)'
    <3>1. (E(j) \in Entry /\ Owner[E(j)] = j) \/ pc[j] = "idle"
      BY <1>a DEF Sound, JobOK
    <3>2. QED
      BY <1>a, <1>2, <3>1 DEF Sound, PrefixOK, Within
  <2>5. QED
    BY <1>3, <1>4, <2>3, <2>4 DEF Sound
<1>6. CASE ~ (Registers(j) /\ pc[j] # "lock")
  <2>1. PrefixOK(j)' /\ OwnedOK(j)' /\ WrittenOK(j)'
    BY <1>1, <1>2, <1>6 DEF PrefixOK, OwnedOK, WrittenOK
  <2>2. QED
    BY <1>3, <1>4, <2>1 DEF Sound
<1>7. QED
  BY <1>5, <1>6

---------------------------------------------------------------------------
(* Types *)

\* Every step keeps the types
LEMMA TypeStep ==
  ASSUME IInv, Next
  PROVE  TypeOK'
<1>a. TypeOK /\ \A i \in Instance : JobOK(i)
  BY DEF IInv, Sound
<1>b. \A i \in Instance : pc[i] # "idle" =>
         /\ E(i) \in Entry /\ Owner[E(i)] = i /\ S(i) \in Slug /\ job[i].runner \in Version
         /\ job[i].op \in Op
  BY <1>a, OwnerAssumption DEF JobOK, S
<1>c. MaxFaults \in Nat /\ MaxChanges \in Nat /\ 1 \in Text
  BY BoundAssumption DEF Text
<1>d. \A i \in Instance : /\ job[i].backup \in Yml \cup {None}
                          /\ pc[i] # "idle" => Body(i) \in Yml /\ Want(i) \in Row
  <2>1. \A i \in Instance : job[i].decl \in Declaration /\ job[i].backup \in Yml \cup {None}
    BY <1>a DEF TypeOK, Job
  <2>2. QED
    BY <1>b, <2>1 DEF Body, Want, Yml, Row, Declaration
<1>e. Idle \in Job
  BY <1>c DEF Idle, Declaration, Job
<1>f. /\ [of |-> Foreign, runner |-> None, text |-> 1] \in Yml
      /\ [of |-> Foreign, text |-> 1] \in Row
  BY <1>c DEF Yml, Row
<1>1. ASSUME NEW i \in Instance, StepOf(i) PROVE TypeOK'
  <2>0. CASE \E e \in Entry, op \in Op, adopt \in BOOLEAN, reselect \in Reselect :
                Begin(i, e, op, adopt, reselect)
    <3>1. PICK e \in Entry, op \in Op, adopt \in BOOLEAN, reselect \in Reselect :
             Begin(i, e, op, adopt, reselect)
      BY <2>0
    <3>2. reselect \in BOOLEAN
      BY BoundAssumption
    <3>3. Select(i, declared[i], reselect) \in Version /\ declared[i] \in Declaration
      BY <1>a, <3>1, <3>2, SelectIs DEF Begin, TypeOK
    <3>4. [Idle EXCEPT !.entry = e, !.op = op, !.adopt = adopt, !.reselect = reselect,
                 !.runner = Select(i, declared[i], reselect), !.decl = declared[i]] \in Job
      BY <1>e, <3>2, <3>3 DEF Job
    <3>5. QED
      BY <1>a, <3>1, <3>4 DEF Begin, First, TypeOK, disk, world
  <2>1. CASE LockDb(i)
    BY <1>a, <2>1 DEF LockDb, TypeOK, At, disk, world
  <2>2. CASE LockBusy(i)
    BY <1>a, <1>e, <2>2 DEF LockBusy, TypeOK, Leave, disk, world
  <2>3. CASE Plan(i)
    BY <1>a, <2>3 DEF Plan, TypeOK, At, disk, world
  <2>4. CASE PlanRefused(i)
    BY <1>a, <1>e, <2>4 DEF PlanRefused, TypeOK, Leave, disk, world
  <2>5. CASE Check(i)
    BY <1>a, <2>5 DEF Check, TypeOK, At, disk, world
  <2>6. CASE PrefixThere(i)
    BY <1>a, <1>b, <2>6 DEF PrefixThere, TypeOK, At, disk, world, AfterPrefix, Op
  <2>7. CASE MakePrefix(i)
    BY <1>a, <2>7 DEF MakePrefix, TypeOK, At, world
  <2>8. CASE PrefixAppeared(i)
    BY <1>a, <1>e, <2>8 DEF PrefixAppeared, TypeOK, Leave, disk, world
  <2>9. CASE Boot(i)
    BY <1>a, <1>b, <2>9 DEF Boot, TypeOK, At, world, AfterPrefix, Op
  <2>10. CASE RunInstaller(i)
    BY <1>a, <2>10 DEF RunInstaller, TypeOK, At, disk, world
  <2>11. CASE Reconcile(i)
    <3>1. job[i] \in Job /\ settings[i] \in Setting \cup {None}
      BY <1>a DEF TypeOK
    <3>2. [job[i] EXCEPT !.checks = settings[i] # None] \in Job
      BY <3>1 DEF Job
    <3>3. job' \in [Instance -> Job]
      BY <1>a, <3>2, <2>11 DEF Reconcile, TypeOK
    <3>4. settings' \in [Instance -> Setting \cup {None}]
      <4>1. settings[i] # None =>
               [client |-> "root", active |-> IF settings[i].active = settings[i].client
                                              THEN "root" ELSE settings[i].active] \in Setting
        BY <3>1 DEF Setting, Dir
      <4>2. QED
        BY <1>a, <4>1, <2>11 DEF Reconcile, TypeOK
    <3>5. QED
      BY <1>a, <3>3, <3>4, <2>11 DEF Reconcile, At, TypeOK, world
  <2>12. CASE ReconcileFails(i)
    BY <1>a, <1>e, <2>12 DEF ReconcileFails, TypeOK, Leave, disk, world
  <2>13. CASE WriteYml(i)
    BY <1>a, <1>b, <1>d, <2>13 DEF WriteYml, TypeOK, At, world
  <2>14. CASE UpsertRow(i)
    BY <1>a, <1>d, <2>14 DEF UpsertRow, TypeOK, At, world
  <2>15. CASE Undo(i)
    BY <1>a, <1>d, <2>15 DEF Undo, TypeOK, At, world
  <2>21. CASE BeginEntry(i)
    <3>0. job[i] \in Job
      BY <1>a DEF TypeOK
    <3>1. [job[i] EXCEPT !.existed = yml[S(i)] # None] \in Job
      BY <3>0 DEF Job
    <3>2. job' \in [Instance -> Job]
      BY <1>a, <3>1, <2>21 DEF BeginEntry, TypeOK
    <3>3. QED
      BY <1>a, <3>2, <2>21 DEF BeginEntry, At, TypeOK, disk, world
  <2>22. CASE ReadYml(i)
    <3>1. [job[i] EXCEPT !.backup = None] \in Job
      BY <1>a DEF TypeOK, Job
    <3>2. job' \in [Instance -> Job]
      BY <1>a, <3>1, <2>22 DEF ReadYml, TypeOK
    <3>3. QED
      BY <1>a, <3>2, <2>22 DEF ReadYml, At, TypeOK, disk, world
  <2>23. CASE BackUp(i)
    <3>1. S(i) \in Slug /\ yml[S(i)] \in Yml
      BY <1>a, <1>b, <2>23 DEF BackUp, At, TypeOK
    <3>0. job[i] \in Job
      BY <1>a DEF TypeOK
    <3>2. [job[i] EXCEPT !.backup = yml[S(i)]] \in Job
      BY <3>0, <3>1 DEF Job
    <3>3. job' \in [Instance -> Job]
      BY <1>a, <3>2, <2>23 DEF BackUp, TypeOK
    <3>4. kept' \in [Slug -> SUBSET Yml]
      BY <1>a, <3>1, <2>23 DEF BackUp, TypeOK
    <3>5. QED
      BY <1>a, <3>3, <3>4, <2>23 DEF BackUp, At, TypeOK, world
  <2>24. CASE NothingToBackUp(i)
    BY <1>a, <1>e, <2>24 DEF NothingToBackUp, TypeOK, Leave, disk, world
  <2>25. CASE ReadRow(i)
    <3>0. job[i] \in Job
      BY <1>a DEF TypeOK
    <3>1. [job[i] EXCEPT !.found = row[S(i)] # None] \in Job
      BY <3>0 DEF Job
    <3>2. job' \in [Instance -> Job]
      BY <1>a, <3>1, <2>25 DEF ReadRow, TypeOK
    <3>3. QED
      BY <1>a, <3>2, <2>25 DEF ReadRow, At, TypeOK, disk, world
  <2>26. CASE RemoveNew(i)
    BY <1>a, <2>26 DEF RemoveNew, TypeOK, At, world
  <2>16. CASE Record(i)
    BY <1>a, <1>b, <2>16 DEF Record, TypeOK, At, world, AfterRecord
  <2>17. CASE Verify(i)
    BY <1>a, <2>17 DEF Verify, TypeOK, At, disk, world
  <2>18. CASE Return(i)
    BY <1>a, <1>e, <2>18 DEF Return, TypeOK, Leave, disk, world
  <2>19. CASE UpsertFails(i)
    BY <1>a, <1>c, <2>19 DEF UpsertFails, TypeOK, At, Fault, disk, world
  <2>20. CASE Die(i)
    BY <1>a, <1>c, <1>e, <2>20 DEF Die, TypeOK, Leave, Fault, world
  <2>q. QED
    BY <1>1, <2>0, <2>1, <2>2, <2>3, <2>4, <2>5, <2>6, <2>7, <2>8, <2>9, <2>10, <2>11, <2>12,
       <2>13, <2>14, <2>15, <2>16, <2>17, <2>18, <2>19, <2>20, <2>21, <2>22, <2>23, <2>24,
       <2>25, <2>26 DEF StepOf, Proceed
<1>2. ASSUME Outside PROVE TypeOK'
  <2>1. CASE UpdateRunners
    BY <1>a, <1>c, <2>1 DEF UpdateRunners, TypeOK, Change, disk, cmd
  <2>2. CASE LutrisStarts
    BY <1>a, <1>c, <2>2 DEF LutrisStarts, TypeOK, Change, disk
  <2>3. CASE LutrisStops
    BY <1>a, <2>3 DEF LutrisStops, TypeOK, disk, cmd
  <2>4. CASE \E s \in Slug : LutrisEdits(s)
    BY <1>a, <1>f, <2>4 DEF LutrisEdits, TypeOK, world, cmd
  <2>5. CASE \E i \in Instance : Edit(i)
    BY <1>a, <1>c, <2>5 DEF Edit, TypeOK, Change, disk, cmd
  <2>6. CASE \E i \in Instance, e \in Entry : RemovePrefix(i, e)
    BY <1>a, <2>6 DEF RemovePrefix, TypeOK, world, cmd
  <2>7. CASE \E i \in Instance, e \in Entry : LauncherStores(i, e)
    <3>1. PICK i \in Instance, e \in Entry : LauncherStores(i, e)
      BY <2>7
    <3>2. PICK s \in Settings : settings' = [settings EXCEPT ![i] = s]
      BY <3>1 DEF LauncherStores
    <3>3. s \in Setting
      BY BoundAssumption
    <3>4. QED
      BY <1>a, <1>c, <3>1, <3>2, <3>3 DEF LauncherStores, TypeOK, Change, cmd
  <2>q. QED
    BY <1>2, <2>1, <2>2, <2>3, <2>4, <2>5, <2>6, <2>7 DEF Outside
<1>3. QED
  BY <1>1, <1>2 DEF Next, StepOf

---------------------------------------------------------------------------
(* The invariant *)

\* The step is of the same command
SameJob(i) ==
    /\ job'[i].entry = job[i].entry /\ job'[i].op = job[i].op
    /\ job'[i].adopt = job[i].adopt /\ job'[i].reselect = job[i].reselect
    /\ job'[i].runner = job[i].runner /\ job'[i].decl = job[i].decl

\* It is about the same entry, file and row
LEMMA SameEntry ==
  ASSUME NEW i \in Instance, SameJob(i)
  PROVE  /\ UNCHANGED <<E(i), S(i), Body(i), Want(i), Registers(i)>>
         /\ UNCHANGED <<yml, row>> => Ours(i)' = Ours(i)
<1>1. UNCHANGED <<E(i), S(i), Body(i), Want(i), Registers(i)>>
  BY DEF SameJob, E, S, Body, Want, Registers
<1>2. QED
  BY <1>1 DEF Ours

\* A command that is over says nothing
LEMMA OverSound ==
  ASSUME NEW i \in Instance, pc'[i] = "idle", job'[i] = Idle
  PROVE  Sound(i)'
<1>1. job'[i].op = "none" /\ ~ Registers(i)'
  BY DEF Idle, Registers, Registering
<1>2. QED
  BY <1>1 DEF Sound, JobOK, HeldOK, RunnerOK, PrefixOK, OwnedOK, WrittenOK

\* Every step of a command leaves what the next one starts from
LEMMA OwnStep ==
  ASSUME IInv, NEW i \in Instance, StepOf(i)
  PROVE  Sound(i)'
<1>a. TypeOK /\ Sound(i)
  BY DEF IInv
<1>b. pc[i] # "idle" => S(i) \in Slug /\ E(i) \in Entry
  BY <1>a, OwnerAssumption DEF Sound, JobOK, S
<1>c. /\ \A v : DOMAIN pc = Instance /\ [pc EXCEPT ![i] = v][i] = v
      /\ \A v : [job EXCEPT ![i] = v][i] = v
      /\ \A v : [met EXCEPT ![i] = v][i] = v
      /\ \A v : [record EXCEPT ![i] = v][i] = v
      /\ \A v, s : s \in Slug => [yml EXCEPT ![s] = v][s] = v /\ [row EXCEPT ![s] = v][s] = v
      /\ \A v, e : e \in Entry => [prefix EXCEPT ![e] = v][e] = v
  BY <1>a DEF TypeOK
<1>d. job'[i] = job[i] => SameJob(i)
  BY DEF SameJob
<1>e. Leave(i) => pc'[i] = "idle" /\ job'[i] = Idle
  BY <1>c DEF Leave
<1>0. CASE \E e \in Entry, op \in Op, adopt \in BOOLEAN, reselect \in Reselect :
              Begin(i, e, op, adopt, reselect)
  <2>1. PICK e \in Entry, op \in Op, adopt \in BOOLEAN, reselect \in Reselect :
           Begin(i, e, op, adopt, reselect)
    BY <1>0
  <2>2. /\ Select(i, declared[i], reselect) \in Version
        /\ ~reselect => record[i] \in {None, Select(i, declared[i], reselect)}
    BY <1>a, <2>1, BoundAssumption, SelectIs DEF Begin, TypeOK
  <2>3. /\ job'[i].entry = e /\ job'[i].op = op /\ job'[i].reselect = reselect
        /\ job'[i].runner = Select(i, declared[i], reselect)
    BY <1>c, <2>1 DEF Begin, Idle
  <2>4. UNCHANGED <<record, dblock, lutris, met>> /\ Owner[e] = i /\ pc'[i] = First(op)
    BY <1>c, <2>1 DEF Begin, disk, world
  <2>5. JobOK(i)'
    BY <2>2, <2>3, <2>4 DEF JobOK, E, First, Op, Registers, Registering
  <2>6. HeldOK(i)' /\ RunnerOK(i)' /\ PrefixOK(i)' /\ OwnedOK(i)' /\ WrittenOK(i)'
    <3>1. Registers(i)' => pc'[i] = "lock"
      BY <2>3, <2>4 DEF Registers, Registering, First
    <3>2. QED
      BY <2>2, <2>3, <2>4, <3>1 DEF HeldOK, RunnerOK, PrefixOK, OwnedOK, WrittenOK
  <2>7. QED
    BY <2>5, <2>6 DEF Sound
<1>1. CASE LockDb(i)
  <2>1. SameJob(i)
    BY <1>d, <1>1 DEF LockDb
  <2>2. QED
    BY <1>a, <1>1, <2>1, SameEntry DEF LockDb, Sound, JobOK, HeldOK, RunnerOK, PrefixOK,
       OwnedOK, WrittenOK, At, disk
<1>2. CASE LockBusy(i)
  BY <1>e, <1>2, OverSound DEF LockBusy
<1>3. CASE Plan(i)
  <2>1. SameJob(i)
    BY <1>d, <1>3 DEF Plan
  <2>2. QED
    BY <1>a, <1>3, <2>1, SameEntry DEF Plan, Sound, JobOK, HeldOK, RunnerOK, PrefixOK, OwnedOK,
       WrittenOK, At, disk, world
<1>4. CASE PlanRefused(i)
  BY <1>e, <1>4, OverSound DEF PlanRefused
<1>5. CASE Check(i)
  <2>1. SameJob(i)
    BY <1>d, <1>5 DEF Check
  <2>2. QED
    BY <1>a, <1>c, <1>5, <2>1, SameEntry DEF Check, Sound, JobOK, HeldOK, RunnerOK, PrefixOK,
       OwnedOK, WrittenOK, At, disk, world
<1>6. CASE PrefixThere(i)
  <2>1. SameJob(i)
    BY <1>d, <1>6 DEF PrefixThere
  <2>2. QED
    BY <1>a, <1>6, <2>1, SameEntry DEF PrefixThere, Sound, JobOK, HeldOK, RunnerOK, PrefixOK,
       OwnedOK, WrittenOK, At, disk, world, Registers, Registering, AfterPrefix, Op
<1>7. CASE MakePrefix(i)
  <2>1. SameJob(i)
    BY <1>d, <1>7 DEF MakePrefix
  <2>2. QED
    BY <1>a, <1>7, <2>1, SameEntry DEF MakePrefix, Sound, JobOK, HeldOK, RunnerOK, PrefixOK,
       OwnedOK, WrittenOK, At, world
<1>8. CASE PrefixAppeared(i)
  BY <1>e, <1>8, OverSound DEF PrefixAppeared
<1>9. CASE Boot(i)
  <2>1. SameJob(i)
    BY <1>d, <1>9 DEF Boot
  <2>2. /\ pc[i] = "boot" /\ pc'[i] = AfterPrefix(job[i].op, TRUE)
        /\ prefix'[E(i)] = "ready" /\ UNCHANGED <<yml, row, record, lutris, dblock, met>>
    BY <1>b, <1>c, <1>9 DEF Boot, At, world
  <2>3. JobOK(i)' /\ HeldOK(i)' /\ RunnerOK(i)'
    BY <1>a, <2>1, <2>2, SameEntry DEF Sound, SameJob, JobOK, HeldOK, RunnerOK, Registers,
       Registering, AfterPrefix, Op
  <2>4. PrefixOK(i)' /\ OwnedOK(i)' /\ WrittenOK(i)'
    BY <1>a, <2>1, <2>2, SameEntry DEF Sound, SameJob, PrefixOK, OwnedOK, WrittenOK, Registers,
       Registering, AfterPrefix
  <2>5. QED
    BY <2>3, <2>4 DEF Sound
<1>10. CASE RunInstaller(i)
  <2>1. SameJob(i)
    BY <1>d, <1>10 DEF RunInstaller
  <2>2. QED
    BY <1>a, <1>10, <2>1, SameEntry DEF RunInstaller, Sound, JobOK, HeldOK, RunnerOK, PrefixOK,
       OwnedOK, WrittenOK, At, disk, Registers, Registering
<1>11. CASE Reconcile(i)
  <2>1. SameJob(i)
    BY <1>11 DEF Reconcile, SameJob
  <2>2. QED
    BY <1>a, <1>11, <2>1, SameEntry DEF Reconcile, Sound, JobOK, HeldOK, RunnerOK, PrefixOK,
       OwnedOK, WrittenOK, At, world
<1>12. CASE ReconcileFails(i)
  BY <1>e, <1>12, OverSound DEF ReconcileFails
<1>13. CASE WriteYml(i)
  <2>1. SameJob(i)
    BY <1>d, <1>13 DEF WriteYml
  <2>2. /\ pc[i] = "write" /\ pc'[i] = "row" /\ yml'[S(i)] = Body(i)
        /\ UNCHANGED <<prefix, record, lutris, dblock, met, row>>
    BY <1>a, <1>b, <1>c, <1>13 DEF WriteYml, At, disk, world
  <2>3. JobOK(i)' /\ HeldOK(i)' /\ RunnerOK(i)'
    BY <1>a, <2>1, <2>2, SameEntry DEF Sound, SameJob, JobOK, HeldOK, RunnerOK
  <2>4. PrefixOK(i)' /\ OwnedOK(i)' /\ WrittenOK(i)'
    BY <1>a, <2>1, <2>2, SameEntry DEF Sound, SameJob, PrefixOK, OwnedOK, WrittenOK, Ours
  <2>5. QED
    BY <2>3, <2>4 DEF Sound
<1>14. CASE UpsertRow(i)
  <2>1. SameJob(i)
    BY <1>d, <1>14 DEF UpsertRow
  <2>2. /\ pc[i] = "upsert" /\ pc'[i] = "record"
        /\ job[i].found = (row[S(i)] # None) => row'[S(i)] = Want(i)
        /\ UNCHANGED <<prefix, record, lutris, dblock, met, yml>>
    BY <1>a, <1>b, <1>c, <1>14 DEF UpsertRow, At, disk, world
  <2>3. JobOK(i)' /\ HeldOK(i)' /\ RunnerOK(i)'
    BY <1>a, <2>1, <2>2, SameEntry DEF Sound, SameJob, JobOK, HeldOK, RunnerOK
  <2>4. PrefixOK(i)' /\ OwnedOK(i)' /\ WrittenOK(i)'
    BY <1>a, <2>1, <2>2, SameEntry DEF Sound, SameJob, PrefixOK, OwnedOK, WrittenOK
  <2>5. QED
    BY <2>3, <2>4 DEF Sound
<1>15. CASE Undo(i)
  <2>1. SameJob(i)
    BY <1>d, <1>15 DEF Undo
  <2>2. /\ pc[i] = "undo" /\ pc'[i] \in {"remove", "undone"}
        /\ pc'[i] = "remove" => yml' = yml
        /\ UNCHANGED <<prefix, record, lutris, dblock, met, row>>
    BY <1>a, <1>b, <1>c, <1>15 DEF Undo, At, disk, world
  <2>3. JobOK(i)' /\ HeldOK(i)' /\ RunnerOK(i)'
    BY <1>a, <2>1, <2>2, SameEntry DEF Sound, SameJob, JobOK, HeldOK, RunnerOK
  <2>4. PrefixOK(i)' /\ OwnedOK(i)' /\ WrittenOK(i)'
    BY <1>a, <2>1, <2>2, SameEntry DEF Sound, SameJob, PrefixOK, OwnedOK, WrittenOK
  <2>5. QED
    BY <2>3, <2>4 DEF Sound
<1>21. CASE BeginEntry(i)
  <2>1. SameJob(i)
    BY <1>c, <1>21 DEF BeginEntry, SameJob
  <2>2. /\ pc[i] = "yml" /\ pc'[i] = "read"
        /\ UNCHANGED <<prefix, record, lutris, dblock, met, yml, row>>
    BY <1>a, <1>b, <1>c, <1>21 DEF BeginEntry, At, disk, world
  <2>3. JobOK(i)' /\ HeldOK(i)' /\ RunnerOK(i)'
    BY <1>a, <2>1, <2>2, SameEntry DEF Sound, SameJob, JobOK, HeldOK, RunnerOK
  <2>4. PrefixOK(i)' /\ OwnedOK(i)' /\ WrittenOK(i)'
    BY <1>a, <2>1, <2>2, SameEntry DEF Sound, SameJob, PrefixOK, OwnedOK, WrittenOK
  <2>5. QED
    BY <2>3, <2>4 DEF Sound
<1>22. CASE ReadYml(i)
  <2>1. SameJob(i)
    BY <1>c, <1>22 DEF ReadYml, SameJob
  <2>2. /\ pc[i] = "read" /\ pc'[i] \in {"row", "write", "backup"}
        /\ pc'[i] = "row" => yml[S(i)] = Body(i)
        /\ UNCHANGED <<prefix, record, lutris, dblock, met, yml, row>>
    BY <1>a, <1>b, <1>c, <1>22 DEF ReadYml, At, disk, world
  <2>3. JobOK(i)' /\ HeldOK(i)' /\ RunnerOK(i)'
    BY <1>a, <2>1, <2>2, SameEntry DEF Sound, SameJob, JobOK, HeldOK, RunnerOK
  <2>4. PrefixOK(i)' /\ OwnedOK(i)' /\ WrittenOK(i)'
    BY <1>a, <2>1, <2>2, SameEntry DEF Sound, SameJob, PrefixOK, OwnedOK, WrittenOK, Ours
  <2>5. QED
    BY <2>3, <2>4 DEF Sound
<1>23. CASE BackUp(i)
  <2>1. SameJob(i)
    BY <1>c, <1>23 DEF BackUp, SameJob
  <2>2. /\ pc[i] = "backup" /\ pc'[i] = "write"
        /\ UNCHANGED <<prefix, record, lutris, dblock, met, yml, row>>
    BY <1>a, <1>b, <1>c, <1>23 DEF BackUp, At, disk, world
  <2>3. JobOK(i)' /\ HeldOK(i)' /\ RunnerOK(i)'
    BY <1>a, <2>1, <2>2, SameEntry DEF Sound, SameJob, JobOK, HeldOK, RunnerOK
  <2>4. PrefixOK(i)' /\ OwnedOK(i)' /\ WrittenOK(i)'
    BY <1>a, <2>1, <2>2, SameEntry DEF Sound, SameJob, PrefixOK, OwnedOK, WrittenOK
  <2>5. QED
    BY <2>3, <2>4 DEF Sound
<1>24. CASE NothingToBackUp(i)
  BY <1>e, <1>24, OverSound DEF NothingToBackUp
<1>25. CASE ReadRow(i)
  <2>1. SameJob(i)
    BY <1>c, <1>25 DEF ReadRow, SameJob
  <2>2. /\ pc[i] = "row" /\ pc'[i] \in {"record", "upsert"} /\ job'[i].found = (row[S(i)] # None)
        /\ pc'[i] = "record" => row[S(i)] = Want(i)
        /\ UNCHANGED <<prefix, record, lutris, dblock, met, yml, row>>
    BY <1>a, <1>b, <1>c, <1>25 DEF ReadRow, At, disk, world
  <2>3. JobOK(i)' /\ HeldOK(i)' /\ RunnerOK(i)'
    BY <1>a, <2>1, <2>2, SameEntry DEF Sound, SameJob, JobOK, HeldOK, RunnerOK
  <2>4. PrefixOK(i)' /\ OwnedOK(i)' /\ WrittenOK(i)'
    BY <1>a, <2>1, <2>2, SameEntry DEF Sound, SameJob, PrefixOK, OwnedOK, WrittenOK
  <2>5. QED
    BY <2>3, <2>4 DEF Sound
<1>26. CASE RemoveNew(i)
  <2>1. SameJob(i)
    BY <1>d, <1>26 DEF RemoveNew
  <2>2. /\ pc[i] = "remove" /\ pc'[i] = "undone"
        /\ UNCHANGED <<prefix, record, lutris, dblock, met, row>>
    BY <1>a, <1>b, <1>c, <1>26 DEF RemoveNew, At, disk, world
  <2>3. JobOK(i)' /\ HeldOK(i)' /\ RunnerOK(i)'
    BY <1>a, <2>1, <2>2, SameEntry DEF Sound, SameJob, JobOK, HeldOK, RunnerOK
  <2>4. PrefixOK(i)' /\ OwnedOK(i)' /\ WrittenOK(i)'
    BY <1>a, <2>1, <2>2, SameEntry DEF Sound, SameJob, PrefixOK, OwnedOK, WrittenOK
  <2>5. QED
    BY <2>3, <2>4 DEF Sound
<1>16. CASE Record(i)
  <2>1. SameJob(i)
    BY <1>d, <1>16 DEF Record
  <2>2. QED
    BY <1>a, <1>c, <1>16, <2>1, SameEntry DEF Record, Sound, JobOK, HeldOK, RunnerOK, PrefixOK,
       OwnedOK, WrittenOK, At, world, Registers, Registering, AfterRecord, Op
<1>17. CASE Verify(i)
  <2>1. SameJob(i)
    BY <1>d, <1>17 DEF Verify
  <2>2. QED
    BY <1>a, <1>17, <2>1, SameEntry DEF Verify, Sound, JobOK, HeldOK, RunnerOK, PrefixOK,
       OwnedOK, WrittenOK, At, disk, world
<1>18. CASE Return(i)
  BY <1>e, <1>18, OverSound DEF Return
<1>19. CASE UpsertFails(i)
  <2>1. SameJob(i)
    BY <1>d, <1>19 DEF UpsertFails
  <2>2. QED
    BY <1>a, <1>19, <2>1, SameEntry DEF UpsertFails, Sound, JobOK, HeldOK, RunnerOK, PrefixOK,
       OwnedOK, WrittenOK, At, disk, world
<1>20. CASE Die(i)
  BY <1>e, <1>20, OverSound DEF Die
<1>q. QED
  BY <1>0, <1>1, <1>2, <1>3, <1>4, <1>5, <1>6, <1>7, <1>8, <1>9, <1>10, <1>11, <1>12, <1>13,
     <1>14, <1>15, <1>16, <1>17, <1>18, <1>19, <1>20, <1>21, <1>22, <1>23, <1>24, <1>25,
     <1>26 DEF StepOf, Proceed

\* So does whatever happens meanwhile
LEMMA OutsideSound ==
  ASSUME IInv, Outside, NEW j \in Instance
  PROVE  Sound(j)'
<1>a. TypeOK /\ Sound(j)
  BY DEF IInv
<1>1. pc' = pc /\ job' = job /\ record' = record /\ dblock' = dblock
  BY DEF Outside, UpdateRunners, LutrisStarts, LutrisStops, LutrisEdits, Edit, RemovePrefix,
     LauncherStores, disk, cmd
<1>2. SameJob(j)
  BY <1>1 DEF SameJob
<1>3. JobOK(j)' /\ RunnerOK(j)'
  BY <1>a, <1>1, <1>2, SameEntry DEF Sound, JobOK, RunnerOK
<1>4. HeldOK(j)'
  <2>1. pc[j] # "idle" /\ lutris' => met'[j] \/ (lutris /\ met' = met)
    <3>1. CASE LutrisStarts
      BY <3>1 DEF LutrisStarts
    <3>2. CASE LutrisStops
      BY <3>2 DEF LutrisStops
    <3>3. CASE ~ LutrisStarts /\ ~ LutrisStops
      BY <3>3 DEF Outside, UpdateRunners, LutrisEdits, Edit, RemovePrefix, LauncherStores,
         world, cmd
    <3>4. QED
      BY <3>1, <3>2, <3>3
  <2>2. pc[j] = "idle" => ~ Registers(j)
    BY <1>a DEF Sound, JobOK, Registers, Registering, Idle
  <2>3. QED
    BY <1>a, <1>1, <1>2, <2>1, <2>2, SameEntry DEF Sound, HeldOK
<1>5. PrefixOK(j)'
  <2>1. pc[j] # "idle" => prefix'[E(j)] = prefix[E(j)]
    BY <1>a DEF Sound, JobOK, TypeOK, Outside, UpdateRunners, LutrisStarts, LutrisStops,
       LutrisEdits, Edit, RemovePrefix, LauncherStores, disk
  <2>2. QED
    BY <1>a, <1>1, <1>2, <2>1, SameEntry DEF Sound, PrefixOK
<1>6. OwnedOK(j)' /\ WrittenOK(j)'
  <2>1. CASE Registers(j) /\ pc[j] \notin {"idle", "lock", "plan"} /\ ~met'[j]
    <3>1. UNCHANGED <<yml, row, met>>
      BY <1>a, <2>1 DEF Sound, HeldOK, Outside, UpdateRunners, LutrisStarts, LutrisStops,
         LutrisEdits, Edit, RemovePrefix, LauncherStores, disk, cmd
    <3>2. QED
      BY <1>a, <1>1, <1>2, <3>1, SameEntry DEF Sound, OwnedOK, WrittenOK
  <2>2. CASE ~ (Registers(j) /\ pc[j] \notin {"idle", "lock", "plan"} /\ ~met'[j])
    BY <1>1, <1>2, <2>2, SameEntry DEF OwnedOK, WrittenOK
  <2>3. QED
    BY <2>1, <2>2
<1>7. QED
  BY <1>3, <1>4, <1>5, <1>6 DEF Sound

\* A step of the command itself leaves a copied file copied
LEMMA OwnBackup ==
  ASSUME IInv, NEW i \in Instance, StepOf(i)
  PROVE  BackupOK(i)'
<1>a. TypeOK /\ Sound(i) /\ BackupOK(i)
  BY DEF IInv
<1>b. pc[i] # "idle" => S(i) \in Slug
  BY <1>a, OwnerAssumption DEF Sound, JobOK, S
<1>1. CASE ReadYml(i)
  <2>1. /\ SameJob(i) /\ job'[i].backup = None /\ UNCHANGED <<yml, kept>>
        /\ pc'[i] = "backup" => yml[S(i)] # Body(i)
        /\ pc'[i] = "write" => yml[S(i)] = None
    BY <1>a, <1>1 DEF ReadYml, At, SameJob, TypeOK, disk
  <2>2. QED
    BY <2>1, SameEntry DEF BackupOK
<1>2. CASE BackUp(i)
  <2>1. /\ SameJob(i) /\ job'[i].backup = yml[S(i)] /\ yml' = yml /\ pc'[i] = "write"
        /\ yml[S(i)] \in kept'[S(i)]
    BY <1>a, <1>b, <1>2 DEF BackUp, At, SameJob, TypeOK
  <2>2. QED
    BY <2>1, SameEntry DEF BackupOK
<1>3. CASE ~ ReadYml(i) /\ ~ BackUp(i)
  <2>1. pc'[i] \notin {"backup", "write"}
    <3>1. CASE \E e \in Entry, op \in Op, adopt \in BOOLEAN, reselect \in Reselect :
                  Begin(i, e, op, adopt, reselect)
      BY <1>a, <3>1 DEF Begin, First, Op, TypeOK
    <3>2. CASE Proceed(i)
      <4>1. CASE LockDb(i) \/ Plan(i) \/ Check(i) \/ MakePrefix(i) \/ RunInstaller(i)
                 \/ Reconcile(i) \/ BeginEntry(i) \/ WriteYml(i) \/ ReadRow(i) \/ UpsertRow(i)
                 \/ Undo(i) \/ RemoveNew(i) \/ Verify(i)
        BY <1>a, <4>1 DEF LockDb, Plan, Check, MakePrefix, RunInstaller, Reconcile, BeginEntry,
           WriteYml, ReadRow, UpsertRow, Undo, RemoveNew, Verify, At, TypeOK
      <4>2. CASE LockBusy(i) \/ PlanRefused(i) \/ PrefixAppeared(i) \/ ReconcileFails(i)
                 \/ NothingToBackUp(i) \/ Return(i)
        BY <1>a, <4>2 DEF LockBusy, PlanRefused, PrefixAppeared, ReconcileFails,
           NothingToBackUp, Return, Leave, TypeOK
      <4>3. CASE PrefixThere(i) \/ Boot(i)
        <5>1. job[i].op \in Op /\ \E b \in BOOLEAN : pc'[i] = AfterPrefix(job[i].op, b)
          BY <1>a, <4>3 DEF PrefixThere, Boot, At, TypeOK, Sound, JobOK
        <5>2. QED
          BY <5>1 DEF AfterPrefix, Op
      <4>4. CASE Record(i)
        <5>1. job[i].op \in Op /\ pc'[i] = AfterRecord(job[i].op)
          BY <1>a, <4>4 DEF Record, At, TypeOK, Sound, JobOK
        <5>2. QED
          BY <5>1 DEF AfterRecord, Op
      <4>5. QED
        BY <1>3, <3>2, <4>1, <4>2, <4>3, <4>4 DEF Proceed
    <3>3. CASE UpsertFails(i) \/ Die(i)
      BY <1>a, <3>3 DEF UpsertFails, Die, At, Leave, TypeOK
    <3>4. QED
      BY <3>1, <3>2, <3>3 DEF StepOf
  <2>2. QED
    BY <2>1 DEF BackupOK
<1>4. QED
  BY <1>1, <1>2, <1>3

\* No other command writes the file meanwhile
LEMMA OthersBackup ==
  ASSUME IInv, NEW i \in Instance, NEW j \in Instance, j # i, Within(i)
  PROVE  BackupOK(j)'
<1>a. BackupOK(j) /\ Sound(j) /\ None \notin Instance
  BY NameAssumption DEF IInv
<1>1. UNCHANGED <<pc[j], job[j], met[j]>>
  BY DEF Within
<1>2. UNCHANGED <<S(j), Body(j)>>
  BY <1>1 DEF E, S, Body
<1>3. CASE pc[j] \in {"backup", "write"}
  <2>1. dblock = j
    BY <1>a, <1>3 DEF Sound, JobOK, HeldOK
  <2>2. UNCHANGED <<yml, kept>>
    BY <2>1 DEF Within
  <2>3. QED
    BY <1>a, <1>1, <1>2, <2>2 DEF BackupOK
<1>4. CASE pc[j] \notin {"backup", "write"}
  BY <1>1, <1>4 DEF BackupOK
<1>5. QED
  BY <1>3, <1>4

\* Lutris writes no file that is the command's own, and none unseen
LEMMA OutsideBackup ==
  ASSUME IInv, Outside, NEW j \in Instance
  PROVE  BackupOK(j)'
<1>a. TypeOK /\ Sound(j) /\ BackupOK(j)
  BY DEF IInv
<1>1. pc' = pc /\ job' = job /\ kept' = kept
  BY DEF Outside, UpdateRunners, LutrisStarts, LutrisStops, LutrisEdits, Edit, RemovePrefix,
     LauncherStores, disk, cmd
<1>2. SameJob(j)
  BY <1>1 DEF SameJob
<1>3. CASE yml' = yml /\ (met'[j] = met[j] \/ met'[j])
  BY <1>a, <1>1, <1>2, <1>3, SameEntry DEF BackupOK
<1>4. CASE LutrisStarts
  <2>1. yml' = yml /\ (pc[j] # "idle" => met'[j])
    BY <1>4 DEF LutrisStarts, disk
  <2>2. QED
    BY <1>a, <1>1, <1>2, <2>1, SameEntry DEF BackupOK
<1>5. CASE \E s \in Slug : LutrisEdits(s)
  <2>1. PICK s \in Slug : LutrisEdits(s)
    BY <1>5
  <2>2. lutris /\ met' = met
    BY <2>1 DEF LutrisEdits, cmd
  <2>3. CASE pc[j] \in {"backup", "write"}
    <3>1. met[j] /\ E(j) \in Entry /\ S(j) \in Slug
      BY <1>a, <2>2, <2>3, OwnerAssumption DEF Sound, JobOK, HeldOK, S
    <3>2. yml'[S(j)] \in {yml[S(j)], None, [of |-> Foreign, runner |-> None, text |-> 1]}
      BY <1>a, <2>1, <3>1 DEF LutrisEdits, TypeOK
    <3>3. Body(j) # None
      <4>1. Body(j) \in Yml
        BY <1>a, <2>3, <3>1 DEF Body, Yml, TypeOK, Job, Declaration, Sound, JobOK
      <4>2. QED
        BY <4>1, NameAssumption
    <3>4. Body(j) # [of |-> Foreign, runner |-> None, text |-> 1]
      <4>1. Body(j).of = E(j) /\ E(j) # Foreign
        BY <3>1, NameAssumption DEF Body
      <4>2. QED
        BY <4>1
    <3>5. QED
      BY <1>a, <1>1, <1>2, <2>2, <3>1, <3>2, <3>3, <3>4, SameEntry DEF BackupOK
  <2>4. CASE pc[j] \notin {"backup", "write"}
    BY <1>1, <2>4 DEF BackupOK
  <2>5. QED
    BY <2>3, <2>4
<1>6. ASSUME ~ LutrisStarts, ~ \E s \in Slug : LutrisEdits(s)
      PROVE  yml' = yml /\ met' = met
  BY <1>6 DEF Outside, UpdateRunners, LutrisStops, Edit, RemovePrefix, LauncherStores, disk, cmd
<1>7. QED
  BY <1>3, <1>4, <1>5, <1>6

\* Nothing is under way at first
LEMMA InitIInv == Init => IInv
<1>0. SUFFICES ASSUME Init PROVE IInv
  OBVIOUS
<1>1. /\ MaxFaults \in Nat /\ MaxChanges \in Nat /\ 1 \in Text /\ Foreign \notin Entry
      /\ [text |-> 1, pin |-> Latest] \in Declaration
  BY BoundAssumption, NameAssumption DEF Text, Declaration
<1>2. /\ [of |-> Foreign, runner |-> None, text |-> 1] \in Yml
      /\ [of |-> Foreign, text |-> 1] \in Row
  BY <1>1 DEF Yml, Row
<1>3. Idle \in Job
  BY <1>1 DEF Idle, Job
<1>4. installed \subseteq Version
  BY <1>0, NameAssumption DEF Init, Version
<1>5. yml \in [Slug -> Yml \cup {None}] /\ row \in [Slug -> Row \cup {None}]
  BY <1>0, <1>2 DEF Init
<1>6. TypeOK
  <2>1. /\ kept \in [Slug -> SUBSET Yml] /\ prefix \in [Entry -> {"absent", "partial", "ready"}]
        /\ record \in [Instance -> Version \cup {None}]
        /\ settings \in [Instance -> Setting \cup {None}] /\ met \in [Instance -> BOOLEAN]
    BY <1>0 DEF Init
  <2>2. declared \in [Instance -> Declaration] /\ job \in [Instance -> Job]
    BY <1>0, <1>1, <1>3 DEF Init
  <2>3. dblock \in Instance \cup {None} /\ pc = [i \in Instance |-> "idle"]
    BY <1>0 DEF Init
  <2>4. changes \in 0..MaxChanges /\ faults \in 0..MaxFaults
    BY <1>0, <1>1 DEF Init
  <2>5. lutris \in BOOLEAN
    BY <1>0 DEF Init
  <2>6. QED
    BY <1>4, <1>5, <2>1, <2>2, <2>3, <2>4, <2>5 DEF TypeOK
<1>7. ASSUME NEW i \in Instance PROVE Sound(i) /\ BackupOK(i)
  <2>1. pc[i] = "idle" /\ job[i] = Idle /\ ~ Registers(i)
    BY <1>0 DEF Init, Registers, Registering, Idle
  <2>2. QED
    BY <2>1 DEF Sound, JobOK, HeldOK, RunnerOK, PrefixOK, OwnedOK, WrittenOK, BackupOK
<1>8. QED
  BY <1>6, <1>7 DEF IInv

\* The invariant is inductive
LEMMA NextIInv == IInv /\ [Next]_vars => IInv'
<1>1. ASSUME IInv, Next PROVE IInv'
  <2>1. TypeOK'
    BY <1>1, TypeStep
  <2>2. ASSUME NEW j \in Instance PROVE Sound(j)' /\ BackupOK(j)'
    <3>1. CASE Outside
      BY <1>1, <3>1, OutsideSound, OutsideBackup
    <3>2. ASSUME NEW i \in Instance, StepOf(i) PROVE Sound(j)' /\ BackupOK(j)'
      <4>1. CASE j = i
        BY <1>1, <3>2, <4>1, OwnStep, OwnBackup
      <4>2. CASE j # i
        BY <1>1, <3>2, <4>2, StepWithin, OthersSound, OthersBackup
      <4>3. QED
        BY <4>1, <4>2
    <3>3. QED
      BY <1>1, <3>1, <3>2 DEF Next, StepOf
  <2>3. QED
    BY <2>1, <2>2 DEF IInv
<1>2. ASSUME IInv, UNCHANGED vars PROVE IInv'
  <2>1. TypeOK'
    BY <1>2 DEF IInv, TypeOK, vars, disk, world, cmd
  <2>2. ASSUME NEW i \in Instance PROVE Sound(i)' /\ BackupOK(i)'
    <3>1. /\ UNCHANGED <<pc, job, met, record, dblock, lutris, prefix, yml, row, kept>>
          /\ SameJob(i)
      BY <1>2 DEF vars, disk, world, cmd, SameJob
    <3>2. QED
      BY <1>2, <3>1, SameEntry DEF IInv, Sound, JobOK, HeldOK, RunnerOK, PrefixOK, OwnedOK,
         WrittenOK, BackupOK
  <2>3. QED
    BY <2>1, <2>2 DEF IInv
<1>3. QED
  BY <1>1, <1>2

\* It holds in every state of every behaviour
LEMMA AlwaysIInv == Spec => []IInv
BY InitIInv, NextIInv, PTL DEF Spec

---------------------------------------------------------------------------
(* The properties *)

\* Every variable keeps its type: what is selected, planned, written and recorded is a runner,
\* a config file or a row (wiring.rs).
THEOREM WiringTypes == Spec => []TypeOK
<1>1. IInv => TypeOK
  BY DEF IInv
<1>2. QED
  BY <1>1, AlwaysIInv, PTL

\* What a command reports as done is so: file, row and record agree, unless Lutris was
\* started behind its back (wiring.rs:3105, :4380).
THEOREM DoneIsSo == Spec => []DoneAgrees
<1>1. ASSUME IInv, NEW i \in Instance,
             pc[i] = "done", job[i].op \in {"apply", "register"}, ~ met[i]
      PROVE  /\ row[S(i)] = Want(i) /\ prefix[E(i)] = "ready"
             /\ yml[S(i)] = [of |-> E(i), runner |-> record[i], text |-> job[i].decl.text]
  BY <1>1 DEF IInv, Sound, RunnerOK, PrefixOK, WrittenOK, Registers, Registering, Body
<1>2. IInv => DoneAgrees
  BY <1>1 DEF DoneAgrees
<1>3. QED
  BY <1>2, AlwaysIInv, PTL

\* Only a step of the command itself moves it
LEMMA ActsIs ==
  ASSUME IInv, [Next]_vars, NEW i \in Instance, Acts(i)
  PROVE  StepOf(i) /\ pc'[i] # pc[i]
<1>1. pc'[i] # pc[i]
  BY DEF Acts
<1>2. ~ UNCHANGED vars
  BY <1>1 DEF vars, cmd
<1>3. ~ Outside
  BY <1>1 DEF Outside, UpdateRunners, LutrisStarts, LutrisStops, LutrisEdits, Edit,
     RemovePrefix, LauncherStores, cmd
<1>4. PICK j \in Instance : StepOf(j)
  BY <1>2, <1>3 DEF Next, StepOf
<1>5. j = i
  BY <1>1, <1>4, StepWithin DEF Within
<1>6. QED
  BY <1>1, <1>4, <1>5

\* Which steps write what
LEMMA Writes ==
  ASSUME IInv, NEW i \in Instance, StepOf(i)
  PROVE  /\ yml' = yml \/ WriteYml(i) \/ Undo(i) \/ RemoveNew(i)
         /\ row' = row \/ UpsertRow(i)
         /\ kept' = kept \/ BackUp(i)
         /\ record' = record \/ Record(i)
         /\ prefix' = prefix \/ MakePrefix(i) \/ Boot(i) \/ Die(i)
BY DEF StepOf, Proceed, Begin, LockDb, LockBusy, Plan, PlanRefused, Check, PrefixThere,
   MakePrefix, PrefixAppeared, Boot, RunInstaller, Reconcile, ReconcileFails, UpsertRow, Undo,
   Record, Verify, Return, UpsertFails, Die, WriteYml, BeginEntry, ReadYml, BackUp,
   NothingToBackUp, ReadRow, RemoveNew, disk

\* Where a step of a command that registers stands
LEMMA Standing ==
  ASSUME IInv, NEW i \in Instance
  PROVE  /\ pc[i] # "idle" => E(i) \in Entry /\ S(i) \in Slug
         /\ pc[i] = "write" /\ ~ met[i] /\ ~ job[i].adopt => Ours(i)
         /\ pc[i] = "upsert" /\ ~ met[i] /\ ~ job[i].adopt =>
               row[S(i)] = None \/ row[S(i)].of = E(i)
         /\ pc[i] \in TakesBack /\ ~ met[i] => yml[S(i)] = Body(i)
<1>1. pc[i] # "idle" => E(i) \in Entry /\ S(i) \in Slug
  BY OwnerAssumption DEF IInv, Sound, JobOK, S
<1>2. QED
  BY <1>1 DEF IInv, Sound, JobOK, OwnedOK, WrittenOK, TakesBack

\* What is somebody else's is taken over with --adopt only (wiring.rs:2610).
THEOREM TakenOverByAdoption == Spec => TakenByAdoption
<1>1. ASSUME IInv, [Next]_vars, NEW i \in Instance, NEW s \in Slug,
             Acts(i), ~ job[i].adopt, ~ met[i]
      PROVE  /\ row[s] # None /\ row'[s] # row[s] => row'[s] # None /\ row'[s].of = row[s].of
             /\ row[s] = None /\ yml'[s] # yml[s] => yml[s] \in {None, Body(i)}
  <2>1. StepOf(i) /\ TypeOK
    BY <1>1, ActsIs DEF IInv
  <2>2. ASSUME row[s] # None, row'[s] # row[s]
        PROVE  row'[s] # None /\ row'[s].of = row[s].of
    <3>1. UpsertRow(i)
      BY <1>1, <2>1, <2>2, Writes
    <3>2. s = S(i) /\ row'[s] = Want(i)
      BY <2>2, <3>1 DEF UpsertRow
    <3>3. Want(i).of = E(i) /\ Want(i) # None
      <4>1. Want(i) \in Row /\ Want(i).of = E(i)
        <5>1. pc[i] = "upsert"
          BY <3>1 DEF UpsertRow, At
        <5>2. E(i) \in Entry
          BY <1>1, <5>1, Standing
        <5>3. job[i].decl \in Declaration
          BY <2>1 DEF TypeOK, Job
        <5>4. QED
          BY <5>2, <5>3 DEF Want, Row, Declaration
      <4>2. QED
        BY <4>1, NameAssumption
    <3>4. QED
      BY <1>1, <2>2, <3>1, <3>3, Standing DEF UpsertRow, At
  <2>3. ASSUME row[s] = None, yml'[s] # yml[s]
        PROVE  yml[s] \in {None, Body(i)}
    <3>1. WriteYml(i) \/ Undo(i) \/ RemoveNew(i)
      BY <1>1, <2>1, <2>3, Writes
    <3>2. s = S(i) /\ pc[i] \in {"write"} \cup TakesBack
      BY <2>1, <2>3, <3>1 DEF WriteYml, Undo, RemoveNew, At, TypeOK, TakesBack
    <3>3. QED
      BY <1>1, <2>3, <3>2, Standing DEF Ours
  <2>4. QED
    BY <2>2, <2>3
<1>2. IInv /\ [Next]_vars => [
         \A i \in Instance, s \in Slug :
            Acts(i) /\ ~job[i].adopt /\ ~met[i] =>
               /\ row[s] # None /\ row'[s] # row[s] => row'[s] # None /\ row'[s].of = row[s].of
               /\ row[s] = None /\ yml'[s] # yml[s] => yml[s] \in {None, Body(i)}]_vars
  BY <1>1
<1>3. QED
  BY <1>2, AlwaysIInv, PTL DEF Spec, TakenByAdoption

\* What a command overwrites is in a backup, but for its own write that it takes back and for
\* what Lutris, started behind its back, wrote between the copy and the rename, or after the
\* rename (wiring.rs:2499, :2649, :2652).
THEOREM YmlKept == Spec => YmlRetained
<1>1. ASSUME IInv, [Next]_vars, NEW i \in Instance, NEW s \in Slug,
             Acts(i), yml[s] # None, yml'[s] # yml[s]
      PROVE  \/ yml[s] \in kept'[s]
             \/ pc[i] \in TakesBack /\ yml[s] = Body(i)
             \/ pc[i] \in TakesBack \cup {"write"} /\ met[i] /\ yml[s] # LastSeen(i)
  <2>1. StepOf(i) /\ TypeOK /\ BackupOK(i)
    BY <1>1, ActsIs DEF IInv
  <2>2. CASE WriteYml(i)
    <3>1. s = S(i) /\ pc[i] = "write" /\ kept' = kept /\ LastSeen(i) = job[i].backup
      BY <1>1, <2>1, <2>2 DEF WriteYml, At, TypeOK, LastSeen
    <3>2. QED
      BY <1>1, <2>1, <3>1 DEF BackupOK
  <2>3. CASE Undo(i) \/ RemoveNew(i)
    <3>1. s = S(i) /\ pc[i] \in TakesBack /\ LastSeen(i) = Body(i)
      BY <1>1, <2>1, <2>3 DEF Undo, RemoveNew, At, TypeOK, TakesBack, LastSeen
    <3>2. QED
      BY <1>1, <3>1, Standing
  <2>4. QED
    BY <1>1, <2>1, <2>2, <2>3, Writes
<1>2. IInv /\ [Next]_vars => [
         \A i \in Instance, s \in Slug :
            Acts(i) /\ yml[s] # None /\ yml'[s] # yml[s] =>
               \/ yml[s] \in kept'[s]
               \/ pc[i] \in TakesBack /\ yml[s] = Body(i)
               \/ pc[i] \in TakesBack \cup {"write"} /\ met[i] /\ yml[s] # LastSeen(i)]_vars
  BY <1>1
<1>3. QED
  BY <1>2, AlwaysIInv, PTL DEF Spec, YmlRetained

\* "A repeat apply must be a literal no-op" (wiring.rs:3006).
THEOREM RepeatsDoNothing == Spec => RepeatIsNoOp
<1>1. ASSUME IInv, [Next]_vars, NEW e \in Entry, NEW i \in Instance, i = Owner[e],
             Acts(i), E(i) = e, Registered(i, e),
             job[i].decl = declared[i], ~ job[i].reselect, pc[i] \notin TakesBack
      PROVE  UNCHANGED <<yml[SlugOf[e]], row[SlugOf[e]], kept[SlugOf[e]], record[i], prefix[e]>>
  <2>1. StepOf(i) /\ TypeOK /\ pc[i] # "idle"
    <3>1. None \notin Entry
      BY NameAssumption
    <3>2. pc[i] = "idle" => E(i) = None
      BY <1>1 DEF IInv, Sound, JobOK, Idle, E
    <3>3. QED
      BY <1>1, <3>1, <3>2, ActsIs DEF IInv
  <2>2. record[i] = job[i].runner /\ S(i) = SlugOf[e]
    BY <1>1, <2>1 DEF IInv, Sound, RunnerOK, Registered, S
  <2>3. yml[S(i)] = Body(i) /\ row[S(i)] = Want(i) /\ prefix[E(i)] = "ready"
    BY <1>1, <2>2 DEF Registered, Body, Want
  <2>4. yml'[S(i)] = yml[S(i)] /\ kept'[S(i)] = kept[S(i)]
    <3>1. S(i) \in Slug
      BY <1>1, <2>1, Standing
    <3>2. WriteYml(i) => yml'[S(i)] = yml[S(i)] /\ kept' = kept
      BY <2>1, <2>3, <3>1 DEF WriteYml, TypeOK
    <3>3. ~ BackUp(i)
      BY <1>1, <2>3 DEF IInv, BackupOK, BackUp, At
    <3>4. ~ Undo(i) /\ ~ RemoveNew(i)
      BY <1>1 DEF Undo, RemoveNew, At, TakesBack
    <3>5. QED
      BY <1>1, <2>1, <3>2, <3>3, <3>4, Writes
  <2>5. row'[S(i)] = row[S(i)]
    BY <1>1, <2>1, <2>3, Writes DEF UpsertRow, TypeOK
  <2>6. record'[i] = record[i]
    BY <1>1, <2>1, <2>2, Writes DEF Record, TypeOK
  <2>7. prefix'[E(i)] = prefix[E(i)]
    <3>1. E(i) \in Entry
      BY <1>1, <2>1, Standing
    <3>2. QED
      BY <1>1, <2>1, <2>3, <3>1, Writes DEF MakePrefix, Boot, Die, TypeOK
  <2>8. QED
    BY <1>1, <2>2, <2>4, <2>5, <2>6, <2>7
<1>2. \A e \in Entry : Owner[e] \in Instance
  BY OwnerAssumption
<1>3. IInv /\ [Next]_vars => [
         \A e \in Entry : LET i == Owner[e] IN
            /\ Acts(i) /\ E(i) = e /\ Registered(i, e)
            /\ job[i].decl = declared[i] /\ ~job[i].reselect /\ pc[i] \notin TakesBack
            => UNCHANGED <<yml[SlugOf[e]], row[SlugOf[e]], kept[SlugOf[e]], record[i],
                           prefix[e]>>]_vars
  BY <1>1, <1>2
<1>4. QED
  BY <1>3, AlwaysIInv, PTL DEF Spec, RepeatIsNoOp
=========================================================================
