-------------------------- MODULE ClientDllsProofs --------------------------
(***************************************************************************)
(* Proofs about ClientDlls, for every set of keys, declarations, launches  *)
(* and gates, and any bound on outside writes and faults.                  *)
(***************************************************************************)
EXTENDS ClientDlls, TLAPS

---------------------------------------------------------------------------
(* The parts of the inductive invariant *)

ApplyPC == {"backing", "restoring", "installing", "committing", "removing", "dropping"}
LaunchPC == {"checking", "reinstalling", "playing"}

\* Who holds the lease: an apply past its start, or a launch past its start
LeaseOK == /\ apc \in ApplyPC => lease = Apply
           /\ \A r \in Launch : rpc[r] \in LaunchPC => lease = r

\* What apply has in memory, and how it stands to the manifest on disk
AtRest == apc \notin ApplyPC => /\ next = [k \in Key |-> "no"] /\ installs = None
                                /\ removals = {}
InMemory ==
    /\ apc \in {"backing", "restoring"} => was = managed
    /\ apc \in {"installing", "committing", "removing"} => managed = next
    /\ apc = "dropping" =>
          managed = [k \in Key |-> IF want[k] = Missing THEN "no" ELSE next[k]]
    /\ apc = "backing" => atodo \subseteq Declared(want)
    /\ apc \in {"restoring", "dropping"} => atodo \subseteq Undeclared
    /\ apc \in ApplyPC => \A k \in Key :
          want[k] = Missing \/ was[k] # "no" => next[k] = was[k]
    /\ \A k \in removals : want[k] = Missing /\ was[k] = "plain"

\* A manifest agrees with the backups
Agrees(m, b) == \A k \in Key : /\ m[k] = "backed" => b[k] # Missing
                               /\ m[k] = "plain" => b[k] = Missing
BackupsOK == /\ Agrees(managed, backup)
             /\ apc \in ApplyPC \ {"dropping"} => Agrees(next, backup)

\* BackUp(k) is over, its effect is not installed yet
BackedUpYet(k) == \/ apc = "backing" /\ k \notin atodo
                  \/ apc \in {"restoring", "installing", "committing"}
\* Restore(k) is over, its effect is not installed yet
Planned(k) == \/ apc = "restoring" /\ k \notin atodo
              \/ apc \in {"installing", "committing"}

\* apply installs what is declared and was not there, and only that
DeclaredOK ==
    \A k \in Key : want[k] # Missing =>
        /\ apc = "backing" /\ k \in atodo => installs[k] = Missing
        /\ BackedUpYet(k) \/ apc \in {"removing", "dropping"} => next[k] # "no"
        /\ BackedUpYet(k) =>
             \/ installs[k] = want[k]
             \/ installs[k] = Missing /\ (k \in touched[Apply] \/ target[k] = want[k])
        /\ apc \in {"removing", "dropping"} =>
             k \in touched[Apply] \/ target[k] = want[k]

\* It puts back what was backed up, and removes what was not
UndeclaredOK ==
    \A k \in Key : want[k] = Missing =>
        /\ apc = "backing" \/ (apc = "restoring" /\ k \in atodo)
               \/ (apc \in ApplyPC /\ was[k] # "backed") => installs[k] = Missing
        /\ was[k] = "backed" /\ Planned(k) =>
             \/ installs[k] = backup[k] /\ backup[k] # Missing
             \/ installs[k] = Missing /\ (k \in touched[Apply] \/ target[k] = backup[k])
        /\ was[k] = "backed" /\ (apc = "removing" \/ (apc = "dropping" /\ k \in atodo)) =>
             k \in touched[Apply] \/ target[k] = backup[k]
        /\ was[k] = "plain" /\ (Planned(k) \/ apc = "removing") =>
             k \in removals \/ k \in touched[Apply] \/ target[k] = Missing
        /\ was[k] = "plain" /\ apc = "dropping" =>
             k \in touched[Apply] \/ target[k] = Missing

\* What a launch has looked at is as it declared it
LaunchOK ==
    \A r \in Launch :
        /\ rpc[r] \in LaunchPC => \A k \in Declared(rwant[r]) :
              k \in rtodo[r] \/ k \in touched[r] \/ target[k] = rwant[r][k]
        /\ rpc[r] = "playing" => rtodo[r] = {}

\* The original of a managed key needs no target: it is in the backup or in staging
Safe(k) == origin[k] \in {Missing, backup[k]} \cup staged[k]
\* Unless it is managed over a leftover backup and not displaced yet
Held(k) == Safe(k) \/ (k \in leftover /\ origin[k] = target[k])
\* The original of a key that is given back needs no backup
Returned(k) == origin[k] \in {Missing, target[k]} \cup staged[k]
OriginAt(k) ==
    /\ Somewhere(k)
    /\ k \in leftover => backup[k] # Missing
    /\ managed[k] # "no" => Held(k)
    /\ apc \in ApplyPC \ {"dropping"} /\ next[k] # "no" => Held(k)
    /\ want[k] = Missing /\ was[k] = "backed" /\ Planned(k) =>
         installs[k] = backup[k] \/ Returned(k)
    /\ want[k] = Missing /\ was[k] # "no" /\
         (apc = "removing" \/ (apc = "dropping" /\ k \in atodo)) => Returned(k)
OriginOK == \A k \in Key \ stale : OriginAt(k)

IInv == /\ TypeOK /\ LeaseOK /\ AtRest /\ InMemory /\ BackupsOK
        /\ DeclaredOK /\ UndeclaredOK /\ LaunchOK /\ OriginOK

---------------------------------------------------------------------------
(* Type correctness *)

\* Init establishes the type invariant.
LEMMA TypeInit == Init => TypeOK
  BY ContentAssumption, ProcessAssumption
  DEF Init, TypeOK, Files, Content, Manifest, None

\* Leave resets what apply has in memory.
LEMMA LeaveTypes ==
  ASSUME TypeOK, Leave
  PROVE  /\ apc' = "idle" /\ lease' \in {Nobody, Apply} \cup Launch
         /\ atodo' = {} /\ removals' = {} /\ want' = None /\ installs' = None
         /\ was' \in Manifest /\ next' \in Manifest
         /\ touched' \in [{Apply} \cup Reader -> SUBSET Key]
  BY DEF TypeOK, Leave, Manifest

\* A transaction keeps the types of the files, wherever it stops.
LEMMA MovedTypes ==
  ASSUME TypeOK
  PROVE  \A done \in SUBSET Declared(installs), hole \in SUBSET Declared(installs) :
            Moved(done, hole) => /\ target' \in Files
                                 /\ staged' \in [Key -> SUBSET Content]
                                 /\ leftover' \subseteq Key
  BY DEF Moved, Declared, TypeOK, Files

\* Every step of apply keeps the type invariant.
LEMMA TypeApply ==
  ASSUME TypeOK, ApplyStep
  PROVE  TypeOK'
<1>1. CASE Load
  BY <1>1 DEF Load, TypeOK, disk, rvars, bound, ghost
<1>2. CASE Start
  BY <1>2 DEF Start, TypeOK, disk, rvars, bound, ghost, Declared
<1>3. ASSUME NEW k \in Key, BackUp(k) PROVE TypeOK'
  <2>1. installs' \in Files /\ backup' \in Files
    BY <1>3 DEF BackUp, TypeOK, Files, Content
  <2>2. next' \in Manifest
    BY <1>3 DEF BackUp, TypeOK, Manifest
  <2>3. stale' \subseteq Key
    BY <1>3 DEF BackUp, TypeOK
  <2>4. QED
    BY <1>3, <2>1, <2>2, <2>3 DEF BackUp, NoFault, TypeOK, rvars
<1>4. CASE BackedUp
  BY <1>4 DEF BackedUp, TypeOK, disk, amem, rvars, bound, ghost, Undeclared
<1>5. ASSUME NEW k \in Key, Restore(k) PROVE TypeOK'
  BY <1>5 DEF Restore, TypeOK, Files, disk, rvars, bound, ghost
<1>6. CASE WriteIntent
  BY <1>6 DEF WriteIntent, NoFault, TypeOK, amem, rvars, ghost
<1>7. CASE Commence
  BY <1>7 DEF Commence, TypeOK, disk, amem, rvars, bound, ghost
<1>8. CASE Install
  <2>1. target' \in Files /\ staged' \in [Key -> SUBSET Content] /\ leftover' \subseteq Key
    BY <1>8, MovedTypes DEF Install
  <2>2. QED
    BY <1>8, <2>1 DEF Install, NoFault, TypeOK, amem, rvars
<1>9. CASE InstallFails
  <2>1. target' \in Files /\ staged' \in [Key -> SUBSET Content] /\ leftover' \subseteq Key
    BY <1>9, MovedTypes DEF InstallFails
  <2>2. faults' \in 0..MaxFaults
    BY <1>9, ProcessAssumption DEF InstallFails, Fault, TypeOK
  <2>3. QED
    BY <1>9, <2>1, <2>2, LeaveTypes DEF InstallFails, TypeOK, Files, None, rvars
<1>10. ASSUME NEW k \in Key, Remove(k) PROVE TypeOK'
  BY <1>10 DEF Remove, NoFault, TypeOK, Files, rvars, ghost
<1>11. CASE WritePruned
  BY <1>11 DEF WritePruned, NoFault, TypeOK, Manifest, Undeclared, amem, rvars, ghost
<1>12. ASSUME NEW k \in Key, DropBackup(k) PROVE TypeOK'
  BY <1>12, ProcessAssumption DEF DropBackup, Fault, NoFault, TypeOK, Files, amem, rvars, ghost
<1>13. CASE Done \/ Abort
  BY <1>13, LeaveTypes DEF Done, Abort, TypeOK, Files, None, disk, rvars, bound
<1>14. QED
  BY <1>1, <1>2, <1>3, <1>4, <1>5, <1>6, <1>7, <1>8, <1>9, <1>10, <1>11, <1>12, <1>13
  DEF ApplyStep

\* The end of a reader resets what it has in memory.
LEMMA EndTypes ==
  ASSUME TypeOK, NEW r \in Reader, REnd(r)
  PROVE  /\ rpc' \in [Reader -> {"idle", "loaded", "checking", "reinstalling", "playing"}]
         /\ rtodo' \in [Reader -> SUBSET Key] /\ rcur' \in [Reader -> Key]
         /\ rwant' \in [Reader -> [Key -> Source \cup {Missing}]]
         /\ rwas' \in [Reader -> Manifest]
         /\ lease' \in {Nobody, Apply} \cup Launch
         /\ touched' \in [{Apply} \cup Reader -> SUBSET Key]
  BY DEF TypeOK, REnd, Manifest, None

\* Every step of a reader keeps the type invariant.
LEMMA TypeReader ==
  ASSUME TypeOK, NEW r \in Reader, ReaderStep(r)
  PROVE  TypeOK'
<1>1. CASE RLoad(r)
  BY <1>1 DEF RLoad, TypeOK, disk, amem, bound, ghost
<1>2. CASE Read(r)
  BY <1>2 DEF Read, Managed, Declared, TypeOK, disk, amem, bound, ghost
<1>3. ASSUME NEW k \in Key, Compare(r, k) PROVE TypeOK'
  <2>1. CASE REnd(r)
    BY <1>3, <2>1, EndTypes DEF Compare, TypeOK, disk, amem, bound
  <2>2. CASE ~REnd(r)
    BY <1>3, <2>2 DEF Compare, TypeOK, disk, amem, bound
  <2>3. QED
    BY <2>1, <2>2
<1>4. CASE Reinstall(r)
  <2>1. touched' \in [{Apply} \cup Reader -> SUBSET Key]
    <3>1. rcur[r] \in Key /\ touched \in [{Apply} \cup Reader -> SUBSET Key]
      BY DEF TypeOK
    <3>2. touched' = touched \/ Touch(rcur[r], r)
      BY <1>4 DEF Reinstall
    <3>3. QED
      BY <3>1, <3>2 DEF Touch
  <2>2. stale' \subseteq Key
    BY <1>4 DEF Reinstall, TypeOK
  <2>3. QED
    BY <1>4, <2>1, <2>2 DEF Reinstall, NoFault, TypeOK, Files, Content, amem
<1>5. CASE Play(r)
  BY <1>5 DEF Play, TypeOK, disk, amem, bound, ghost
<1>6. CASE Quit(r)
  BY <1>6, EndTypes DEF Quit, TypeOK, disk, amem, bound
<1>7. QED
  BY <1>1, <1>2, <1>3, <1>4, <1>5, <1>6 DEF ReaderStep

\* Every step keeps the type invariant.
LEMMA TypeStep ==
  ASSUME TypeOK, [Next]_vars
  PROVE  TypeOK'
<1>1. CASE UNCHANGED vars
  BY <1>1 DEF vars, disk, amem, rvars, bound, ghost, TypeOK
<1>2. ASSUME NEW k \in Key, NEW s \in Source \cup {Missing}, Declare(k, s)
      PROVE  TypeOK'
  BY <1>2 DEF Declare, TypeOK, amem, rvars, bound, ghost
<1>3. ASSUME NEW k \in Key, NEW c \in Original \cup {Missing}, Write(k, c)
      PROVE  TypeOK'
  <2>1. touched' \in [{Apply} \cup Reader -> SUBSET Key]
    BY <1>3 DEF Write, Touch, TypeOK
  <2>2. QED
    BY <1>3, <2>1, ProcessAssumption DEF Write, TypeOK, Files, Content, amem, rvars
<1>4. QED
  BY <1>1, <1>2, <1>3, TypeApply, TypeReader DEF Next, Outside

\* Every variable keeps its type, for any keys and processes.
THEOREM DllTypes == Spec => []TypeOK
  BY TypeInit, TypeStep, PTL DEF Spec

---------------------------------------------------------------------------
(* Control: the lease, and what apply has in memory *)

ApplyOwn == <<apc, atodo, want, was, next, installs, removals, managed, backup>>
\* A step of anybody but apply
Other == (\E r \in Reader : ReaderStep(r)) \/ Outside \/ UNCHANGED vars

\* Only apply changes what is its own.
LEMMA OtherSteps ==
  ASSUME Other
  PROVE  UNCHANGED ApplyOwn
  BY DEF Other, Outside, ReaderStep, RLoad, Read, Managed, Compare, Reinstall, Play, Quit,
     Declare, Write, ApplyOwn, vars, disk, amem

\* Apply changes nothing of a reader.
LEMMA ApplySteps ==
  ASSUME ApplyStep
  PROVE  UNCHANGED rvars
  BY DEF ApplyStep, Load, Start, BackUp, BackedUp, Restore, WriteIntent, Commence, Install,
     InstallFails, Remove, WritePruned, DropBackup, Done, Abort

\* An apply takes the lease when it starts and keeps it until it ends.
LEMMA ApplyLease ==
  ASSUME ApplyStep
  PROVE  \/ apc' \notin ApplyPC /\ lease' = IF lease = Apply THEN Nobody ELSE lease
         \/ apc' \notin ApplyPC /\ lease' = lease
         \/ apc' = "backing" /\ lease = Nobody /\ lease' = Apply
         \/ apc \in ApplyPC /\ apc' \in ApplyPC /\ lease' = lease
  BY DEF ApplyStep, Load, Start, BackUp, BackedUp, Restore, WriteIntent, Commence, Install,
     InstallFails, Remove, WritePruned, DropBackup, Done, Abort, Leave, ApplyPC

\* So does a launch; a gate takes none.
LEMMA ReaderLease ==
  ASSUME TypeOK, NEW r \in Reader, ReaderStep(r)
  PROVE  /\ \A q \in Reader \ {r} : rpc'[q] = rpc[q]
         /\ \/ rpc'[r] \notin LaunchPC /\ lease' = IF lease = r THEN Nobody ELSE lease
            \/ rpc'[r] \notin LaunchPC /\ lease' = lease
            \/ r \in Launch /\ rpc'[r] = "checking" /\ lease = Nobody /\ lease' = r
            \/ r \in Gate /\ lease' = lease
            \/ rpc[r] \in LaunchPC /\ rpc'[r] \in LaunchPC /\ lease' = lease
<1>1. CASE RLoad(r)
  BY <1>1 DEF RLoad, LaunchPC, TypeOK
<1>2. CASE Read(r)
  BY <1>2 DEF Read, Managed, LaunchPC, TypeOK, Reader
<1>3. CASE REnd(r)
  BY <1>3 DEF REnd, LaunchPC, TypeOK
<1>4. ASSUME NEW k \in Key, Compare(r, k), ~REnd(r)
      PROVE  rpc[r] \in LaunchPC /\ rpc'[r] \in LaunchPC /\ lease' = lease
               /\ \A q \in Reader \ {r} : rpc'[q] = rpc[q]
  BY <1>4 DEF Compare, LaunchPC, TypeOK
<1>5. CASE Reinstall(r) \/ Play(r)
  BY <1>5 DEF Reinstall, Play, LaunchPC, TypeOK
<1>6. QED
  BY <1>1, <1>2, <1>3, <1>4, <1>5 DEF ReaderStep, Quit

\* Nobody else holds the lease of an apply or of a launch.
LEMMA LeaseStep ==
  ASSUME TypeOK, LeaseOK, [Next]_vars
  PROVE  LeaseOK'
<1>1. CASE ApplyStep
  BY <1>1, ApplyLease, ApplySteps, ProcessAssumption DEF LeaseOK, rvars, Reader
<1>2. ASSUME NEW r \in Reader, ReaderStep(r) PROVE LeaseOK'
  <2>1. apc' = apc
    BY <1>2, OtherSteps DEF Other, ApplyOwn
  <2>2. /\ r # Apply /\ r # Nobody /\ Nobody # Apply
        /\ r \in Gate => r \notin Launch
        /\ \A q \in Launch : q \in Reader /\ q # Apply /\ q # Nobody
    BY ProcessAssumption DEF Reader
  <2>3. QED
    BY <1>2, <2>1, <2>2, ReaderLease DEF LeaseOK
<1>3. CASE Outside \/ UNCHANGED vars
  BY <1>3 DEF Outside, Declare, Write, vars, rvars, LeaseOK
<1>4. QED
  BY <1>1, <1>2, <1>3 DEF Next

\* Every step of apply keeps its memory as it should be.
LEMMA MemoryApply ==
  ASSUME TypeOK, AtRest, InMemory, ApplyStep
  PROVE  AtRest' /\ InMemory'
<1>1. CASE Leave
  BY <1>1 DEF Leave, AtRest, InMemory, ApplyPC
<1>2. CASE Load
  BY <1>2 DEF Load, AtRest, InMemory, ApplyPC, disk, None
<1>3. CASE Start
  BY <1>3 DEF Start, AtRest, InMemory, ApplyPC, disk, TypeOK
<1>4. ASSUME NEW k \in Key, BackUp(k) PROVE AtRest' /\ InMemory'
  BY <1>4 DEF BackUp, AtRest, InMemory, ApplyPC, Declared, TypeOK, Manifest
<1>5. CASE BackedUp
  BY <1>5 DEF BackedUp, AtRest, InMemory, ApplyPC, Undeclared, disk, amem
<1>6. ASSUME NEW k \in Key, Restore(k) PROVE AtRest' /\ InMemory'
  BY <1>6 DEF Restore, AtRest, InMemory, ApplyPC, Undeclared, disk
<1>7. CASE WriteIntent \/ Commence \/ Install
  BY <1>7 DEF WriteIntent, Commence, Install, AtRest, InMemory, ApplyPC, disk, amem
<1>8. ASSUME NEW k \in Key, Remove(k) PROVE AtRest' /\ InMemory'
  BY <1>8 DEF Remove, AtRest, InMemory, ApplyPC
<1>9. CASE WritePruned
  BY <1>9 DEF WritePruned, AtRest, InMemory, ApplyPC, Undeclared, amem
<1>10. ASSUME NEW k \in Key, DropBackup(k) PROVE AtRest' /\ InMemory'
  BY <1>10 DEF DropBackup, AtRest, InMemory, ApplyPC, Undeclared, amem
<1>11. QED
  BY <1>1, <1>2, <1>3, <1>4, <1>5, <1>6, <1>7, <1>8, <1>9, <1>10
  DEF ApplyStep, InstallFails, Done, Abort

\* Nobody else can change it.
LEMMA MemoryStep ==
  ASSUME TypeOK, AtRest, InMemory, [Next]_vars
  PROVE  AtRest' /\ InMemory'
<1>1. CASE ApplyStep
  BY <1>1, MemoryApply
<1>2. CASE Other
  BY <1>2, OtherSteps DEF ApplyOwn, AtRest, InMemory, Undeclared
<1>3. QED
  BY <1>1, <1>2 DEF Next, Other

---------------------------------------------------------------------------
(* The manifest and the backups *)

\* Every step keeps the manifest on disk, and the one to be written, true of the backups.
LEMMA BackupsStep ==
  ASSUME TypeOK, AtRest, InMemory, BackupsOK, [Next]_vars
  PROVE  BackupsOK'
<1>1. CASE Other
  BY <1>1, OtherSteps DEF ApplyOwn, BackupsOK, Agrees
<1>2. CASE Leave /\ UNCHANGED <<managed, backup>>
  BY <1>2 DEF Leave, BackupsOK, Agrees, ApplyPC
<1>3. CASE Load
  BY <1>3 DEF Load, BackupsOK, Agrees, ApplyPC, disk
<1>4. CASE Start
  BY <1>4 DEF Start, BackupsOK, Agrees, ApplyPC, disk
<1>5. ASSUME NEW k \in Key, BackUp(k) PROVE BackupsOK'
  <2>1. was = managed /\ apc = "backing" /\ apc' = apc
    BY <1>5 DEF BackUp, InMemory
  <2>2. QED
    BY <1>5, <2>1 DEF BackUp, BackupsOK, Agrees, ApplyPC, TypeOK, Files, Manifest
<1>6. ASSUME NEW k \in Key, Restore(k) PROVE BackupsOK'
  BY <1>6 DEF Restore, BackupsOK, Agrees, ApplyPC, disk
<1>7. CASE BackedUp \/ WriteIntent \/ Commence \/ Install
  BY <1>7 DEF BackedUp, WriteIntent, Commence, Install, BackupsOK, Agrees, ApplyPC, disk,
     amem
<1>8. ASSUME NEW k \in Key, Remove(k) PROVE BackupsOK'
  BY <1>8 DEF Remove, BackupsOK, Agrees, ApplyPC
<1>9. CASE WritePruned
  BY <1>9 DEF WritePruned, BackupsOK, Agrees, ApplyPC, amem
<1>10. ASSUME NEW k \in Key, DropBackup(k) PROVE BackupsOK'
  BY <1>10 DEF DropBackup, BackupsOK, Agrees, ApplyPC, InMemory, Undeclared, TypeOK, Files
<1>11. QED
  BY <1>1, <1>2, <1>3, <1>4, <1>5, <1>6, <1>7, <1>8, <1>9, <1>10
  DEF Next, Other, ApplyStep, InstallFails, Done, Abort, disk

---------------------------------------------------------------------------
(* What an apply makes true *)

\* While an apply is under way, whatever others change is touched for it.
LEMMA OthersTouch ==
  ASSUME TypeOK, LeaseOK, Other, apc \in ApplyPC
  PROVE  /\ touched[Apply] \subseteq touched'[Apply]
         /\ \A k \in Key : target'[k] = target[k] \/ k \in touched'[Apply]
<1>1. Busy(Apply)
  BY DEF Busy, ApplyPC
<1>2. ASSUME NEW r \in Reader, Reinstall(r)
      PROVE  /\ touched[Apply] \subseteq touched'[Apply]
             /\ \A k \in Key : target'[k] = target[k] \/ k \in touched'[Apply]
  <2>1. r \notin Launch /\ r # Apply
    BY <1>2, ProcessAssumption DEF Reinstall, LeaseOK, LaunchPC, Reader
  <2>2. Touch(rcur[r], r) /\ target' = [target EXCEPT ![rcur[r]] = rwant[r][rcur[r]]]
    BY <1>2, <2>1 DEF Reinstall
  <2>3. QED
    BY <1>1, <2>1, <2>2 DEF Touch, TypeOK, Files
<1>3. ASSUME NEW r \in Reader, RLoad(r) \/ Read(r) \/ Play(r) \/ Quit(r)
                                 \/ \E k \in Key : Compare(r, k)
      PROVE  target' = target /\ touched'[Apply] = touched[Apply]
  BY <1>3, ProcessAssumption DEF RLoad, Read, Managed, Compare, Play, Quit, REnd, disk,
     ghost, TypeOK, Reader
<1>4. ASSUME NEW k \in Key, NEW c \in Original \cup {Missing}, Write(k, c)
      PROVE  /\ touched[Apply] \subseteq touched'[Apply]
             /\ \A j \in Key : target'[j] = target[j] \/ j \in touched'[Apply]
  BY <1>1, <1>4, ProcessAssumption DEF Write, Touch, TypeOK, Files
<1>5. ASSUME NEW k \in Key, NEW s \in Source \cup {Missing}, Declare(k, s)
      PROVE  target' = target /\ touched' = touched
  BY <1>5 DEF Declare, ghost
<1>6. CASE UNCHANGED vars
  BY <1>6 DEF vars, disk, ghost
<1>7. QED
  BY <1>2, <1>3, <1>4, <1>5, <1>6 DEF Other, ReaderStep, Outside

\* A step of anybody else keeps what apply has made true so far.
LEMMA OthersKeep ==
  ASSUME TypeOK, LeaseOK, DeclaredOK, UndeclaredOK, Other
  PROVE  DeclaredOK' /\ UndeclaredOK'
<1>1. UNCHANGED ApplyOwn
  BY OtherSteps
<1>2. CASE apc \in ApplyPC
  <2>1. /\ touched[Apply] \subseteq touched'[Apply]
        /\ \A k \in Key : target'[k] = target[k] \/ k \in touched'[Apply]
    BY <1>2, OthersTouch
  <2>2. DeclaredOK'
    BY <1>1, <2>1 DEF ApplyOwn, DeclaredOK, BackedUpYet
  <2>3. UndeclaredOK'
    BY <1>1, <2>1 DEF ApplyOwn, UndeclaredOK, Planned
  <2>4. QED
    BY <2>2, <2>3
<1>3. CASE apc \notin ApplyPC
  BY <1>1, <1>3 DEF ApplyOwn, ApplyPC, DeclaredOK, UndeclaredOK, BackedUpYet, Planned
<1>4. QED
  BY <1>2, <1>3

\* Every step of apply does its part for the declared keys.
LEMMA DeclaredStep ==
  ASSUME TypeOK, AtRest, InMemory, DeclaredOK, ApplyStep
  PROVE  DeclaredOK'
<1>1. CASE apc' \notin ApplyPC
  BY <1>1 DEF DeclaredOK, BackedUpYet, ApplyPC
<1>2. CASE Start
  BY <1>2 DEF Start, DeclaredOK, BackedUpYet, AtRest, None, ApplyPC, Declared
<1>3. ASSUME NEW k \in Key, BackUp(k) PROVE DeclaredOK'
  <2>1. /\ want[k] # Missing /\ installs[k] = Missing /\ apc = "backing" /\ k \in atodo
        /\ was[k] # "no" => next[k] # "no"
    BY <1>3 DEF BackUp, InMemory, Declared, DeclaredOK, ApplyPC
  <2>2. UNCHANGED <<apc, want, target, touched>> /\ atodo' = atodo \ {k}
    BY <1>3 DEF BackUp
  <2>3. next'[k] # "no" /\ \A j \in Key : j # k => next'[j] = next[j]
    BY <1>3, <2>1 DEF BackUp, TypeOK, Manifest
  <2>4. /\ installs'[k] = want[k] \/ (installs'[k] = Missing /\ target[k] = want[k])
        /\ \A j \in Key : j # k => installs'[j] = installs[j]
    BY <1>3, <2>1 DEF BackUp, TypeOK, Files
  <2>5. QED
    BY <2>1, <2>2, <2>3, <2>4 DEF DeclaredOK, BackedUpYet
<1>4. CASE BackedUp
  BY <1>4 DEF BackedUp, DeclaredOK, BackedUpYet, disk, amem, ghost
<1>5. ASSUME NEW k \in Key, Restore(k) PROVE DeclaredOK'
  BY <1>5 DEF Restore, DeclaredOK, BackedUpYet, InMemory, Undeclared, TypeOK, Files, disk,
     ghost
<1>6. CASE WriteIntent \/ Commence
  BY <1>6 DEF WriteIntent, Commence, DeclaredOK, BackedUpYet, disk, amem, ghost
<1>7. CASE Install
  BY <1>7 DEF Install, Moved, Declared, DeclaredOK, BackedUpYet, TypeOK, Files, amem, ghost
<1>8. ASSUME NEW k \in Key, Remove(k) PROVE DeclaredOK'
  BY <1>8 DEF Remove, InMemory, DeclaredOK, BackedUpYet, TypeOK, Files, ghost
<1>9. CASE WritePruned
  BY <1>9 DEF WritePruned, DeclaredOK, BackedUpYet, amem, ghost
<1>10. ASSUME NEW k \in Key, DropBackup(k) PROVE DeclaredOK'
  BY <1>10 DEF DropBackup, DeclaredOK, BackedUpYet, amem, ghost
<1>11. CASE Load \/ InstallFails \/ Done \/ Abort
  BY <1>1, <1>11 DEF Load, InstallFails, Done, Abort, Leave, ApplyPC
<1>12. QED
  BY <1>2, <1>3, <1>4, <1>5, <1>6, <1>7, <1>8, <1>9, <1>10, <1>11 DEF ApplyStep

\* And for the keys that are no longer declared.
LEMMA UndeclaredStep ==
  ASSUME TypeOK, AtRest, InMemory, UndeclaredOK, ApplyStep
  PROVE  UndeclaredOK'
<1>1. CASE apc' \notin ApplyPC
  BY <1>1 DEF UndeclaredOK, Planned, ApplyPC
<1>2. CASE Start
  BY <1>2 DEF Start, UndeclaredOK, Planned, AtRest, None, ApplyPC
<1>3. ASSUME NEW k \in Key, BackUp(k) PROVE UndeclaredOK'
  BY <1>3 DEF BackUp, UndeclaredOK, Planned, InMemory, Declared, TypeOK, Files, ApplyPC
<1>4. CASE BackedUp
  BY <1>4 DEF BackedUp, UndeclaredOK, Planned, Undeclared, disk, amem, ghost, ApplyPC
<1>5. ASSUME NEW k \in Key, Restore(k) PROVE UndeclaredOK'
  BY <1>5 DEF Restore, UndeclaredOK, Planned, InMemory, Undeclared, TypeOK, Files, disk,
     ghost, ApplyPC
<1>6. CASE WriteIntent \/ Commence
  BY <1>6 DEF WriteIntent, Commence, UndeclaredOK, Planned, disk, amem, ghost, ApplyPC
<1>7. CASE Install
  BY <1>7 DEF Install, Moved, Declared, UndeclaredOK, Planned, TypeOK, Files, amem, ghost,
     ApplyPC
<1>8. ASSUME NEW k \in Key, Remove(k) PROVE UndeclaredOK'
  BY <1>8 DEF Remove, InMemory, UndeclaredOK, Planned, TypeOK, Files, ghost, ApplyPC
<1>9. CASE WritePruned
  BY <1>9 DEF WritePruned, UndeclaredOK, Planned, amem, ghost, ApplyPC
<1>10. ASSUME NEW k \in Key, DropBackup(k) PROVE UndeclaredOK'
  BY <1>10 DEF DropBackup, UndeclaredOK, Planned, amem, ghost, TypeOK, Files, ApplyPC
<1>11. CASE Load \/ InstallFails \/ Done \/ Abort
  BY <1>1, <1>11 DEF Load, InstallFails, Done, Abort, Leave, ApplyPC
<1>12. QED
  BY <1>2, <1>3, <1>4, <1>5, <1>6, <1>7, <1>8, <1>9, <1>10, <1>11 DEF ApplyStep

---------------------------------------------------------------------------
(* What a launch makes true *)

\* A launch keeps what it has looked at: applies and other launches are kept out by the
\* lease, and what a gate or an outsider writes is touched for it.
LEMMA LaunchStep ==
  ASSUME TypeOK, LeaseOK, LaunchOK, [Next]_vars
  PROVE  LaunchOK'
<1>1. CASE ApplyStep
  <2>1. UNCHANGED rvars
    BY <1>1, ApplySteps
  <2>2. \A r \in Launch : r \in Reader /\ r # Apply
    BY ProcessAssumption DEF Reader
  <2>3. CASE apc \in ApplyPC
    <3>1. \A r \in Launch : rpc[r] \notin LaunchPC
      BY <2>2, <2>3 DEF LeaseOK
    <3>2. QED
      BY <2>1, <3>1 DEF LaunchOK, LaunchPC, rvars
  <2>4. CASE apc \notin ApplyPC
    <3>1. target' = target /\ \A r \in Launch : touched'[r] = touched[r]
      BY <1>1, <2>2, <2>4 DEF ApplyStep, Load, Start, BackUp, BackedUp, Restore, WriteIntent,
         Commence, Install, InstallFails, Remove, WritePruned, DropBackup, Done, Abort,
         Leave, ApplyPC, disk, ghost, TypeOK
    <3>2. QED
      BY <2>1, <3>1 DEF LaunchOK, rvars
  <2>5. QED
    BY <2>3, <2>4
<1>2. ASSUME NEW q \in Reader, ReaderStep(q) PROVE LaunchOK'
  <2>1. SUFFICES ASSUME NEW r \in Launch
                 PROVE  /\ rpc'[r] \in LaunchPC => \A k \in Declared(rwant'[r]) :
                             k \in rtodo'[r] \/ k \in touched'[r] \/ target'[k] = rwant'[r][k]
                        /\ rpc'[r] = "playing" => rtodo'[r] = {}
    BY DEF LaunchOK
  <2>2. r \in Reader /\ r # Apply
    BY ProcessAssumption DEF Reader
  <2>3. CASE q = r
    <3>1. CASE RLoad(r)
      BY <3>1, <2>2 DEF RLoad, LaunchPC, TypeOK
    <3>2. CASE Read(r)
      BY <3>2, <2>2 DEF Read, Managed, TypeOK
    <3>3. CASE REnd(r)
      BY <3>3, <2>2 DEF REnd, LaunchPC, TypeOK
    <3>4. ASSUME NEW k \in Key, Compare(r, k), ~REnd(r)
          PROVE  /\ rpc'[r] \in LaunchPC => \A j \in Declared(rwant'[r]) :
                      j \in rtodo'[r] \/ j \in touched'[r] \/ target'[j] = rwant'[r][j]
                 /\ rpc'[r] = "playing" => rtodo'[r] = {}
      BY <3>4, <2>2 DEF Compare, LaunchOK, LaunchPC, TypeOK, disk
    <3>5. CASE Reinstall(r)
      BY <3>5, <2>2 DEF Reinstall, LaunchOK, LaunchPC, TypeOK, Files
    <3>6. CASE Play(r)
      BY <3>6, <2>2 DEF Play, LaunchOK, LaunchPC, TypeOK, disk, ghost
    <3>7. QED
      BY <1>2, <2>3, <3>1, <3>2, <3>3, <3>4, <3>5, <3>6 DEF ReaderStep, Quit
  <2>4. CASE q # r
    <3>1. rpc'[r] = rpc[r] /\ rtodo'[r] = rtodo[r] /\ rwant'[r] = rwant[r]
      BY <1>2, <2>2, <2>4 DEF ReaderStep, RLoad, Read, Managed, Compare, Reinstall, Play, Quit,
         REnd, TypeOK
    <3>2. CASE rpc[r] \notin LaunchPC
      BY <3>1, <3>2 DEF LaunchPC
    <3>3. CASE rpc[r] \in LaunchPC /\ Reinstall(q)
      <4>1. q \notin Launch /\ Busy(r)
        BY <2>2, <2>4, <3>3 DEF LeaseOK, Reinstall, LaunchPC, Busy
      <4>2. Touch(rcur[q], q) /\ target' = [target EXCEPT ![rcur[q]] = rwant[q][rcur[q]]]
        BY <3>3, <4>1 DEF Reinstall
      <4>3. /\ touched[r] \subseteq touched'[r]
            /\ \A k \in Key : target'[k] = target[k] \/ k \in touched'[r]
        BY <2>2, <2>4, <4>1, <4>2 DEF Touch, TypeOK, Files
      <4>4. QED
        BY <3>1, <3>3, <4>3 DEF LaunchOK, Declared
    <3>4. CASE ~Reinstall(q)
      <4>1. target' = target /\ touched'[r] = touched[r]
        BY <1>2, <2>2, <2>4, <3>4 DEF ReaderStep, RLoad, Read, Managed, Compare, Play,
           Quit, REnd, TypeOK, disk, ghost
      <4>2. QED
        BY <3>1, <4>1 DEF LaunchOK
    <3>5. QED
      BY <3>2, <3>3, <3>4
  <2>5. QED
    BY <2>3, <2>4
<1>3. ASSUME NEW k \in Key, NEW c \in Original \cup {Missing}, Write(k, c) PROVE LaunchOK'
  <2>1. \A r \in Launch : r \in Reader /\ r # Apply /\ r # Nobody
    BY ProcessAssumption DEF Reader
  <2>2. \A r \in Launch : rpc[r] \in LaunchPC => Busy(r)
    BY <2>1 DEF Busy, LaunchPC
  <2>3. \A r \in Launch : rpc[r] \in LaunchPC =>
          /\ touched[r] \subseteq touched'[r]
          /\ \A j \in Key : target'[j] = target[j] \/ j \in touched'[r]
    BY <1>3, <2>1, <2>2 DEF Write, Touch, TypeOK, Files
  <2>4. QED
    BY <1>3, <2>3 DEF Write, rvars, LaunchOK, Declared
<1>4. ASSUME NEW k \in Key, NEW s \in Source \cup {Missing}, Declare(k, s) PROVE LaunchOK'
  BY <1>4 DEF Declare, rvars, ghost, LaunchOK
<1>5. CASE UNCHANGED vars
  BY <1>5 DEF vars, disk, rvars, ghost, LaunchOK
<1>6. QED
  BY <1>1, <1>2, <1>3, <1>4, <1>5 DEF Next, Outside

---------------------------------------------------------------------------
(* The originals *)

\* Returned, Safe and Held, and what a transaction does to them, key by key.
LEMMA MovedKeeps ==
  \A done, hole : Moved(done, hole) /\ backup' = backup /\ origin' = origin
     => \A k \in Key : /\ Somewhere(k) => Somewhere(k)'
                       /\ Safe(k) => Safe(k)'
                       /\ Held(k) => Held(k)'
                       /\ Returned(k) => Returned(k)'
                       /\ k \in leftover' => k \in leftover
  BY DEF Moved, Somewhere, Safe, Held, Returned

\* Every step of apply keeps the originals.
LEMMA OriginApply ==
  ASSUME TypeOK, AtRest, InMemory, BackupsOK, OriginOK, ApplyStep
  PROVE  OriginOK'
<1>1. CASE Done \/ Abort \/ Load
  BY <1>1 DEF Done, Abort, Load, Leave, OriginOK, OriginAt, Somewhere, Safe, Held, Returned,
     Planned, ApplyPC, disk, ghost
<1>2. CASE Start
  BY <1>2 DEF Start, OriginOK, OriginAt, Somewhere, Safe, Held, Returned, Planned, ApplyPC, disk,
     ghost
<1>3. ASSUME NEW k \in Key, BackUp(k) PROVE OriginOK'
  <2>1. /\ UNCHANGED <<target, staged, origin, managed, apc, want, was, stale>>
        /\ was = managed /\ apc = "backing"
        /\ \A j \in Key : j # k => (j \in leftover' <=> j \in leftover)
    BY <1>3 DEF BackUp, InMemory
  <2>2. \A j \in Key : j # k => backup'[j] = backup[j] /\ next'[j] = next[j]
    BY <1>3 DEF BackUp, TypeOK, Files, Manifest
  <2>3. ASSUME NEW j \in Key \ stale', j # k PROVE OriginAt(j)'
    BY <1>3, <2>1, <2>2, <2>3 DEF BackUp, OriginOK, OriginAt, Somewhere, Safe, Held, Planned
  <2>4. CASE was[k] # "no"
    BY <1>3, <2>1, <2>3, <2>4 DEF BackUp, OriginOK, OriginAt, Somewhere, Safe, Held, Planned
  <2>5. CASE was[k] = "no"
    <3>1. /\ backup'[k] = IF backup[k] = Missing THEN target[k] ELSE backup[k]
          /\ k \in leftover' \ leftover => backup[k] # Missing
          /\ k \in leftover => k \in leftover'
          /\ k \notin leftover' => backup'[k] = target[k]
      BY <1>3, <2>5 DEF BackUp, TypeOK, Files
    <3>2. ASSUME k \notin stale
          PROVE  Somewhere(k)' /\ Held(k)' /\ (k \in leftover' => backup'[k] # Missing)
      <4>1. Somewhere(k) /\ (k \in leftover => backup[k] # Missing)
        BY <3>2 DEF OriginOK, OriginAt
      <4>2. QED
        BY <2>1, <3>1, <4>1 DEF Somewhere, Safe, Held
    <3>3. QED
      BY <2>1, <2>3, <3>2 DEF OriginOK, OriginAt, Planned
  <2>6. QED
    BY <2>4, <2>5
<1>4. CASE BackedUp
  BY <1>4 DEF BackedUp, OriginOK, OriginAt, Somewhere, Safe, Held, Returned, Planned, ApplyPC,
     Undeclared, disk, amem, ghost
<1>5. ASSUME NEW k \in Key, Restore(k) PROVE OriginOK'
  <2>1. /\ UNCHANGED <<target, staged, origin, managed, apc, want, was, next, backup,
                       leftover, stale>>
        /\ was = managed /\ apc = "restoring" /\ atodo' = atodo \ {k}
    BY <1>5 DEF Restore, InMemory, disk, ghost
  <2>2. \A j \in Key : j # k => installs'[j] = installs[j]
    BY <1>5 DEF Restore, TypeOK, Files
  <2>3. ASSUME NEW j \in Key \ stale', j # k PROVE OriginAt(j)'
    BY <2>1, <2>2, <2>3 DEF OriginOK, OriginAt, Somewhere, Safe, Held, Returned, Planned
  <2>4. was[k] = "backed" => installs'[k] = backup[k] \/ target[k] = backup[k]
    BY <1>5 DEF Restore, TypeOK, Files
  <2>5. k \notin stale => OriginAt(k)'
    BY <2>1, <2>4 DEF OriginOK, OriginAt, Somewhere, Safe, Held, Returned, Planned
  <2>6. QED
    BY <2>1, <2>3, <2>5 DEF OriginOK
<1>6. CASE WriteIntent \/ Commence
  BY <1>6 DEF WriteIntent, Commence, OriginOK, OriginAt, Somewhere, Safe, Held, Returned, Planned,
     ApplyPC, disk, amem, ghost
<1>7. CASE Install
  <2>1. /\ Moved(Declared(installs), {}) /\ apc = "committing" /\ apc' = "removing"
        /\ UNCHANGED <<backup, origin, managed, want, was, next, stale>> /\ managed = next
    BY <1>7 DEF Install, InMemory, amem, ghost
  <2>2. SUFFICES ASSUME NEW k \in Key, k \notin stale PROVE OriginAt(k)'
    BY <2>1 DEF OriginOK
  <2>3. /\ Somewhere(k) => Somewhere(k)'
        /\ Held(k) => Held(k)'
        /\ Returned(k) => Returned(k)'
        /\ k \in leftover' => k \in leftover
    BY <2>1, MovedKeeps
  <2>4. OriginAt(k)
    BY <2>2 DEF OriginOK
  <2>5. ASSUME want[k] = Missing, was[k] # "no" PROVE Returned(k)'
    <3>1. next[k] = was[k] /\ Held(k)
      BY <2>1, <2>4, <2>5 DEF InMemory, ApplyPC, OriginAt
    <3>2. CASE was[k] = "plain"
      <4>1. backup[k] = Missing /\ k \notin leftover
        BY <2>1, <2>4, <3>1, <3>2 DEF BackupsOK, Agrees, OriginAt
      <4>2. Returned(k)
        BY <3>1, <4>1 DEF Held, Safe, Held, Returned
      <4>3. QED
        BY <2>3, <4>2
    <3>3. CASE was[k] = "backed" /\ Returned(k)
      BY <2>3, <3>3
    <3>4. CASE was[k] = "backed" /\ installs[k] = backup[k]
      <4>1. backup[k] # Missing
        BY <2>1, <3>1, <3>4 DEF BackupsOK, Agrees
      <4>2. target'[k] = backup[k] /\ staged'[k] = staged[k] \cup ({target[k]} \ {Missing})
        BY <2>1, <3>4, <4>1 DEF Moved, Declared
      <4>3. QED
        BY <2>1, <3>1, <4>2 DEF Held, Safe, Held, Returned
    <3>5. was[k] = "plain" \/ was[k] = "backed"
      BY <2>5 DEF TypeOK, Manifest
    <3>6. QED
      BY <2>1, <2>4, <2>5, <3>2, <3>3, <3>4, <3>5 DEF OriginAt, Planned
  <2>6. QED
    BY <2>1, <2>3, <2>4, <2>5 DEF OriginAt, Planned, ApplyPC
<1>8. CASE InstallFails
  <2>1. PICK done, hole : Moved(done, hole)
    BY <1>8 DEF InstallFails
  <2>2. \A k \in Key : /\ Somewhere(k) => Somewhere(k)'
                       /\ Held(k) => Held(k)'
                       /\ k \in leftover' => k \in leftover
    BY <1>8, <2>1, MovedKeeps DEF InstallFails
  <2>3. QED
    BY <1>8, <2>2 DEF InstallFails, Leave, OriginOK, OriginAt, Planned, ApplyPC
<1>9. ASSUME NEW k \in Key, Remove(k) PROVE OriginOK'
  <2>1. /\ UNCHANGED <<staged, origin, managed, apc, want, was, next, backup,
                       leftover, stale>>
        /\ managed = next /\ apc = "removing" /\ want[k] = Missing /\ was[k] = "plain"
        /\ next[k] = "plain"
    BY <1>9 DEF Remove, InMemory, ghost, ApplyPC
  <2>2. \A j \in Key : j # k => target'[j] = target[j]
    BY <1>9 DEF Remove, TypeOK, Files
  <2>3. ASSUME NEW j \in Key \ stale', j # k PROVE OriginAt(j)'
    BY <2>1, <2>2, <2>3 DEF OriginOK, OriginAt, Somewhere, Safe, Held, Returned, Planned
  <2>4. backup[k] = Missing
    BY <2>1 DEF BackupsOK, Agrees
  <2>5. k \notin stale => OriginAt(k)'
    BY <2>1, <2>4 DEF OriginOK, OriginAt, Somewhere, Safe, Held, Returned, Planned
  <2>6. QED
    BY <2>1, <2>3, <2>5 DEF OriginOK
<1>10. CASE WritePruned
  BY <1>10 DEF WritePruned, OriginOK, OriginAt, Somewhere, Safe, Held, Returned, Planned, ApplyPC,
     amem, ghost
<1>11. ASSUME NEW k \in Key, DropBackup(k) PROVE OriginOK'
  <2>1. /\ UNCHANGED <<target, staged, origin, managed, apc, want, was, next, stale>>
        /\ leftover' = leftover \ {k}
        /\ apc = "dropping" /\ k \in atodo /\ atodo' = atodo \ {k}
    BY <1>11 DEF DropBackup, amem, ghost
  <2>2. want[k] = Missing /\ was[k] # "no" /\ managed[k] = "no"
    BY <2>1 DEF InMemory, Undeclared
  <2>3. \A j \in Key : j # k => backup'[j] = backup[j]
    BY <1>11 DEF DropBackup, TypeOK, Files
  <2>4. ASSUME NEW j \in Key \ stale', j # k PROVE OriginAt(j)'
    BY <2>1, <2>3, <2>4 DEF OriginOK, OriginAt, Somewhere, Safe, Held, Returned, Planned
  <2>5. k \notin stale => OriginAt(k)'
    BY <2>1, <2>2 DEF OriginOK, OriginAt, Somewhere, Safe, Held, Returned, Planned
  <2>6. QED
    BY <2>1, <2>4, <2>5 DEF OriginOK
<1>12. QED
  BY <1>1, <1>2, <1>3, <1>4, <1>5, <1>6, <1>7, <1>8, <1>9, <1>10, <1>11 DEF ApplyStep

\* So does every step of a reader: an original without a backup that a copy is renamed
\* over is stale from then on.
LEMMA OriginReader ==
  ASSUME TypeOK, OriginOK, NEW r \in Reader, ReaderStep(r)
  PROVE  OriginOK'
<1>1. UNCHANGED <<apc, atodo, want, was, next, installs, managed, backup, staged, origin,
                leftover>>
  BY DEF ReaderStep, RLoad, Read, Managed, Compare, Reinstall, Play, Quit, disk, amem, ghost
<1>2. CASE ~Reinstall(r)
  <2>1. target' = target /\ stale' = stale
    BY <1>2 DEF ReaderStep, RLoad, Read, Managed, Compare, Play, Quit, disk, ghost
  <2>2. QED
    BY <1>1, <2>1 DEF OriginOK, OriginAt, Somewhere, Safe, Held, Returned, Planned
<1>3. CASE Reinstall(r)
  <2>1. SUFFICES ASSUME NEW k \in Key, k \notin stale' PROVE OriginAt(k)'
    BY DEF OriginOK
  <2>2. k \notin stale /\ (k = rcur[r] => ~Unbacked(k))
    BY <1>3, <2>1 DEF Reinstall
  <2>3. CASE k # rcur[r]
    <3>1. target'[k] = target[k]
      BY <1>3, <2>3 DEF Reinstall, TypeOK, Files
    <3>2. QED
      BY <1>1, <2>2, <3>1 DEF OriginOK, OriginAt, Somewhere, Safe, Held, Returned, Planned
  <2>4. CASE k = rcur[r]
    <3>1. OriginAt(k)
      BY <2>2 DEF OriginOK
    <3>2. CASE target[k] # origin[k] \/ target[k] = Missing
      <4>1. Safe(k) /\ (Returned(k) => Returned(k)')
        BY <1>1, <3>1, <3>2 DEF OriginAt, Somewhere, Safe, Held, Returned
      <4>2. QED
        BY <1>1, <3>1, <4>1 DEF OriginAt, Somewhere, Safe, Held, Planned
    <3>3. CASE ~GivenBack(k) /\ k \notin leftover
      <4>1. managed[k] # "no" /\ (apc = "idle" \/ want[k] # Missing)
        BY <3>3 DEF GivenBack
      <4>2. Safe(k)
        BY <3>1, <3>3, <4>1 DEF OriginAt, Held
      <4>3. QED
        BY <1>1, <3>1, <3>3, <4>1, <4>2 DEF OriginAt, Somewhere, Safe, Held, Planned, ApplyPC
    <3>4. QED
      BY <2>2, <2>4, <3>2, <3>3 DEF Unbacked
  <2>5. QED
    BY <2>3, <2>4
<1>4. QED
  BY <1>2, <1>3

\* And whatever an outsider writes.
LEMMA OriginWrite ==
  ASSUME TypeOK, AtRest, InMemory, OriginOK, NEW k \in Key,
         NEW c \in Original \cup {Missing}, Write(k, c)
  PROVE  OriginOK'
<1>1. UNCHANGED <<apc, atodo, want, was, next, installs, managed, backup, staged, stale>>
     /\ leftover' = leftover \ {k}
  BY DEF Write, amem
<1>2. \A j \in Key : j # k => target'[j] = target[j] /\ origin'[j] = origin[j]
  BY DEF Write, TypeOK, Files
<1>3. ASSUME NEW j \in Key \ stale', j # k PROVE OriginAt(j)'
  BY <1>1, <1>2, <1>3 DEF OriginOK, OriginAt, Somewhere, Safe, Held, Returned, Planned
<1>4. ASSUME k \notin stale PROVE OriginAt(k)'
  <2>1. OriginAt(k) /\ target'[k] = c
    BY <1>4 DEF OriginOK, Write, TypeOK, Files
  <2>2. want[k] = Missing /\ was[k] # "no" /\ apc \in ApplyPC \ {"dropping"}
           => managed[k] # "no"
    BY DEF InMemory, ApplyPC
  <2>3. CASE Owned(k)
    <3>1. origin'[k] = c /\ managed[k] = "no" /\ (next[k] = "no" \/ want[k] = Missing)
      BY <2>3 DEF Owned, Write, TypeOK
    <3>2. Somewhere(k)' /\ Returned(k)'
      BY <2>1, <3>1 DEF Somewhere, Returned
    <3>3. apc \in ApplyPC \ {"dropping"} => next[k] = "no"
      BY <2>2, <3>1 DEF InMemory, ApplyPC
    <3>4. QED
      BY <1>1, <3>1, <3>2, <3>3 DEF OriginAt
  <2>4. CASE ~Owned(k) /\ (managed[k] # "no" \/ k \in leftover) /\ target[k] = origin[k]
    <3>1. origin'[k] = Missing
      BY <2>4 DEF Write, TypeOK
    <3>2. QED
      BY <1>1, <3>1 DEF OriginAt, Somewhere, Safe, Held, Returned
  <2>5. CASE ~Owned(k) /\ managed[k] # "no" /\ target[k] # origin[k]
    <3>1. origin'[k] = origin[k]
      BY <2>5 DEF Write
    <3>2. Safe(k)
      BY <2>1, <2>5 DEF OriginAt, Held
    <3>3. QED
      BY <1>1, <2>1, <2>5, <3>1, <3>2 DEF OriginAt, Somewhere, Safe, Held, Returned, Planned
  <2>6. CASE ~Owned(k) /\ managed[k] = "no" /\ ~(k \in leftover /\ target[k] = origin[k])
    <3>1. origin'[k] = origin[k] /\ next[k] # "no" /\ want[k] # Missing
      BY <2>6 DEF Write, Owned
    <3>2. apc \in ApplyPC \ {"dropping"}
      BY <2>6, <3>1 DEF AtRest, InMemory
    <3>3. Safe(k)
      BY <2>1, <2>6, <3>1, <3>2 DEF OriginAt, Held
    <3>4. QED
      BY <1>1, <2>6, <3>1, <3>3 DEF OriginAt, Somewhere, Safe, Held
  <2>7. QED
    BY <2>3, <2>4, <2>5, <2>6
<1>5. QED
  BY <1>1, <1>3, <1>4 DEF OriginOK

---------------------------------------------------------------------------
(* The theorems *)

\* Init establishes the invariant.
LEMMA InitIInv == Init => IInv
<1>1. SUFFICES ASSUME Init PROVE IInv
  OBVIOUS
<1>2. LeaseOK /\ AtRest /\ InMemory /\ BackupsOK
  BY <1>1, ProcessAssumption DEF Init, LeaseOK, AtRest, InMemory, BackupsOK, Agrees, ApplyPC,
     LaunchPC, Reader, None
<1>3. DeclaredOK /\ UndeclaredOK /\ LaunchOK
  BY <1>1 DEF Init, DeclaredOK, UndeclaredOK, LaunchOK, BackedUpYet, Planned, ApplyPC,
     LaunchPC, Reader
<1>4. OriginOK
  BY <1>1 DEF Init, OriginOK, OriginAt, Somewhere, Planned, ApplyPC
<1>5. QED
  BY <1>1, <1>2, <1>3, <1>4, TypeInit DEF IInv

\* Every step keeps it.
LEMMA StepIInv ==
  ASSUME IInv, [Next]_vars
  PROVE  IInv'
<1>1. /\ TypeOK /\ LeaseOK /\ AtRest /\ InMemory /\ BackupsOK
      /\ DeclaredOK /\ UndeclaredOK /\ LaunchOK /\ OriginOK
  BY DEF IInv
<1>2. TypeOK' /\ LeaseOK' /\ AtRest' /\ InMemory' /\ BackupsOK' /\ LaunchOK'
  BY <1>1, TypeStep, LeaseStep, MemoryStep, BackupsStep, LaunchStep
<1>3. ApplyStep \/ Other
  BY DEF Next, Other
<1>4. DeclaredOK' /\ UndeclaredOK'
  BY <1>1, <1>3, DeclaredStep, UndeclaredStep, OthersKeep
<1>5. OriginOK'
  <2>1. ASSUME NEW k \in Key, NEW s \in Source \cup {Missing}, Declare(k, s)
        PROVE  OriginOK'
    BY <1>1, <2>1 DEF Declare, amem, ghost, OriginOK, OriginAt, Somewhere, Safe, Held, Returned,
       Planned
  <2>2. CASE UNCHANGED vars
    BY <1>1, <2>2
    DEF vars, disk, amem, ghost, OriginOK, OriginAt, Somewhere, Safe, Held, Returned,
       Planned
  <2>3. QED
    BY <1>1, <1>3, <2>1, <2>2, OriginApply, OriginReader, OriginWrite DEF Other, Outside
<1>6. QED
  BY <1>2, <1>4, <1>5 DEF IInv

\* The invariant implies the properties.
LEMMA IInvImplies ==
  IInv => ManifestNamesBackup /\ KeptUnlessStale /\ DoneIsTrue /\ LaunchSeesDeclared
<1>1. SUFFICES ASSUME IInv
               PROVE  ManifestNamesBackup /\ KeptUnlessStale /\ DoneIsTrue /\ LaunchSeesDeclared
  OBVIOUS
<1>2. ManifestNamesBackup
  BY <1>1 DEF IInv, BackupsOK, Agrees, ManifestNamesBackup
<1>3. KeptUnlessStale
  BY <1>1 DEF IInv, OriginOK, OriginAt, KeptUnlessStale
<1>4. DoneIsTrue
  <2>1. SUFFICES ASSUME apc = "dropping", NEW k \in Key, k \notin touched[Apply]
                 PROVE  /\ want[k] # Missing => target[k] = want[k] /\ managed[k] # "no"
                        /\ was[k] = "backed" /\ k \in atodo => target[k] = backup[k]
                        /\ was[k] = "plain" /\ want[k] = Missing => target[k] = Missing
    BY DEF DoneIsTrue
  <2>2. want[k] # Missing => target[k] = want[k] /\ managed[k] # "no"
    BY <1>1, <2>1 DEF IInv, InMemory, DeclaredOK
  <2>3. k \in atodo => want[k] = Missing
    BY <1>1, <2>1 DEF IInv, InMemory, Undeclared
  <2>4. /\ was[k] = "backed" /\ k \in atodo => target[k] = backup[k]
        /\ was[k] = "plain" /\ want[k] = Missing => target[k] = Missing
    BY <1>1, <2>1, <2>3 DEF IInv, UndeclaredOK
  <2>5. QED
    BY <2>2, <2>4
<1>5. LaunchSeesDeclared
  BY <1>1 DEF IInv, LaunchOK, LaunchPC, LaunchSeesDeclared
<1>6. QED
  BY <1>2, <1>3, <1>4, <1>5

\* Whatever stops an apply, and whenever: a record of a backup has its backup.
THEOREM RecordsHaveBackups == Spec => []ManifestNamesBackup
  BY InitIInv, StepIInv, IInvImplies, PTL DEF Spec

\* No apply loses an original, even one managed over a leftover backup (client_dlls.rs:122); a
\* reassert loses only one that no backup stands for (client_dlls.rs:198).
THEOREM OriginalsKept == Spec => []KeptUnlessStale
  BY InitIInv, StepIInv, IInvImplies, PTL DEF Spec

\* An apply that ends has made the declaration true.
THEOREM ApplyDoes == Spec => []DoneIsTrue
  BY InitIInv, StepIInv, IInvImplies, PTL DEF Spec

\* A game started by a native launch runs on the declared copies.
THEOREM LaunchRunsOnDeclared == Spec => []LaunchSeesDeclared
  BY InitIInv, StepIInv, IInvImplies, PTL DEF Spec
=============================================================================
