--------------------------- MODULE ClientDlls ---------------------------
(***************************************************************************)
(* Replacement DLLs in the game root                                       *)
(* (crates/modde-manager/src/client_dlls.rs).  `apply` backs an original   *)
(* up, installs the declared copy, and undoes both when the key is no      *)
(* longer declared; a launch re-asserts the copy.  `apply` and `launch`    *)
(* hold the lease on the root, the Lutris `gate` holds nothing.  The       *)
(* vendor's launcher rewrites the files whenever it likes.                 *)
(***************************************************************************)
EXTENDS Integers, FiniteSets

CONSTANTS
    Key,          \* DLL names
    Source,       \* contents a declaration can ask for
    Original,     \* contents the vendor's launcher and the user write
    Missing,      \* no file, no declaration
    Launch,       \* native launches, which take the lease
    Gate,         \* Lutris launch gates, which do not
    Nobody, Apply,
    MaxWrites,    \* bound on writes of the launcher and the user
    MaxFaults     \* bound on failing I/O calls

Content == Source \cup Original
Files == [Key -> Content \cup {Missing}]
Reader == Launch \cup Gate

ASSUME ContentAssumption ==
    /\ Missing \notin Content
    /\ Source \cap Original = {}

ASSUME ProcessAssumption ==
    /\ Launch \cap Gate = {}
    /\ Nobody \notin Reader /\ Apply \notin Reader /\ Nobody # Apply
    /\ MaxWrites \in Nat /\ MaxFaults \in Nat

VARIABLES
    declared,     \* wiring.client_dlls
    target,       \* the files in the game root
    backup,       \* state_dir/client-dll-backups
    managed,      \* client-dlls.json: "no", "plain" (nothing to back up), "backed"
    staged,       \* what transactions displaced and kept
    lease,
    apc, atodo,   \* apply: where it is, keys its current loop has still to visit
    want,         \* the declaration it works on
    was, next,    \* the manifest it read, and the one it is about to write
    installs,     \* contents to install
    removals,     \* files to remove
    rpc, rtodo, rcur,  \* reassert: where it is, keys to visit, key it is reinstalling
    rwant, rwas,       \* the declaration and the manifest it read
    writes, faults,
    origin,       \* ghost: the file the vendor or the user owns at each key
    leftover,     \* ghost: keys managed over a backup left from an earlier time,
                  \* whose file no transaction has displaced yet
    stale,        \* ghost: keys whose copy was renamed over an original that no backup
                  \* stands for
    touched       \* ghost: keys outsiders wrote since each process read the manifest

disk  == <<declared, target, backup, managed, staged>>
amem  == <<want, was, next, installs, removals>>
rvars == <<rpc, rtodo, rcur, rwant, rwas>>
bound == <<writes, faults>>
ghost == <<origin, leftover, stale, touched>>
vars  == <<disk, lease, apc, atodo, amem, rvars, bound, ghost>>

None == [k \in Key |-> Missing]
Manifest == [Key -> {"no", "plain", "backed"}]
Declared(d) == {k \in Key : d[k] # Missing}
Undeclared == {k \in Key : was[k] # "no" /\ want[k] = Missing}

Init ==
    /\ declared \in [Key -> Source \cup {Missing}]
    /\ target \in [Key -> Original \cup {Missing}]
    /\ backup = None /\ managed = [k \in Key |-> "no"]
    /\ staged = [k \in Key |-> {}]
    /\ lease = Nobody /\ apc = "idle" /\ atodo = {}
    /\ want = None /\ was = managed /\ next = managed
    /\ installs = None /\ removals = {}
    /\ rpc = [r \in Reader |-> "idle"] /\ rtodo = [r \in Reader |-> {}]
    /\ rcur \in [Reader -> Key]
    /\ rwant = [r \in Reader |-> None] /\ rwas = [r \in Reader |-> managed]
    /\ writes = 0 /\ faults = 0
    /\ origin = target /\ leftover = {} /\ stale = {}
    /\ touched = [p \in {Apply} \cup Reader |-> {}]

NoFault == faults' = faults
Fault == faults < MaxFaults /\ faults' = faults + 1

\* Past its start: it has read the manifest
Busy(p) == IF p = Apply THEN apc \notin {"idle", "loaded"}
           ELSE rpc[p] \notin {"idle", "loaded"}
\* Every process under way but `by` sees k written by an outsider
Touch(k, by) == touched' = [p \in {Apply} \cup Reader |->
                   IF p # by /\ Busy(p) THEN touched[p] \cup {k} ELSE touched[p]]

\* assert_stopped: Lutris and the game it starts match the instance's process patterns
Stopped == \A g \in Gate : rpc[g] = "idle"

---------------------------------------------------------------------------
(* apply *)

\* It returns, with an error or not: the lease is dropped
Leave == /\ touched' = [touched EXCEPT ![Apply] = {}]
         /\ apc' = "idle" /\ lease' = IF lease = Apply THEN Nobody ELSE lease
         /\ atodo' = {} /\ want' = None /\ was' = [k \in Key |-> "no"]
         /\ next' = was' /\ installs' = None /\ removals' = {}

\* The process starts and reads its configuration
Load ==
    /\ apc = "idle"
    /\ apc' = "loaded" /\ want' = declared
    /\ UNCHANGED <<disk, lease, atodo, was, next, installs, removals, rvars, bound, ghost>>

\* lock, assert_stopped, read_managed
Start ==
    /\ apc = "loaded" /\ lease = Nobody /\ Stopped
    /\ Declared(want) # {} \/ \E k \in Key : managed[k] # "no"
    /\ lease' = Apply /\ apc' = "backing"
    /\ was' = managed /\ next' = managed
    /\ atodo' = Declared(want)
    /\ UNCHANGED <<disk, want, installs, removals, rvars, bound, ghost>>

\* Variant: the backup's state is taken from before it is made
BackUpLate(k) ==
    /\ apc = "backing" /\ k \in atodo
    /\ NoFault
    /\ atodo' = atodo \ {k}
    /\ installs' = IF target[k] = want[k] THEN installs
                   ELSE [installs EXCEPT ![k] = want[k]]
    /\ IF was[k] # "no" THEN UNCHANGED <<backup, next>>
       ELSE /\ backup' = IF backup[k] = Missing THEN [backup EXCEPT ![k] = target[k]]
                         ELSE backup
            /\ next' = [next EXCEPT ![k] = IF backup[k] = Missing THEN "plain"
                                           ELSE "backed"]
    /\ UNCHANGED <<declared, target, managed, staged, lease, apc, want, was, removals,
                   rvars, writes, origin, leftover, stale, touched>>

\* A declared key: back the original up when it is managed for the first time
BackUp(k) ==
    /\ apc = "backing" /\ k \in atodo
    /\ NoFault
    /\ atodo' = atodo \ {k}
    /\ installs' = IF target[k] = want[k] THEN installs
                   ELSE [installs EXCEPT ![k] = want[k]]
    /\ IF was[k] # "no" THEN UNCHANGED <<backup, next, leftover>>
       ELSE /\ backup' = IF backup[k] = Missing THEN [backup EXCEPT ![k] = target[k]]
                         ELSE backup
            /\ next' = [next EXCEPT ![k] = IF backup'[k] = Missing THEN "plain"
                                           ELSE "backed"]
            /\ leftover' = IF backup[k] \notin {Missing, target[k]}
                           THEN leftover \cup {k} ELSE leftover
    /\ UNCHANGED <<declared, target, managed, staged, lease, apc, want, was, removals,
                   rvars, writes, origin, stale, touched>>

BackedUp ==
    /\ apc = "backing" /\ atodo = {}
    /\ apc' = "restoring" /\ atodo' = Undeclared
    /\ UNCHANGED <<disk, lease, amem, rvars, bound, ghost>>

\* An undeclared key: its backup goes back, or the file that was created goes
Restore(k) ==
    /\ apc = "restoring" /\ k \in atodo
    /\ was[k] = "backed" => backup[k] # Missing
    /\ atodo' = atodo \ {k}
    /\ installs' = IF was[k] = "backed" /\ target[k] # backup[k]
                   THEN [installs EXCEPT ![k] = backup[k]] ELSE installs
    /\ removals' = IF was[k] = "plain" /\ target[k] # Missing
                   THEN removals \cup {k} ELSE removals
    /\ UNCHANGED <<disk, lease, apc, want, was, next, rvars, bound, ghost>>

WriteIntent ==
    /\ apc = "restoring" /\ atodo = {}
    /\ NoFault
    /\ managed' = next
    /\ apc' = "installing"
    /\ UNCHANGED <<declared, target, backup, staged, lease, atodo, amem, rvars,
                   writes, ghost>>

\* Variant: a destination that held nothing is recorded as displaced too
MovedNothing(done, hole) ==
    /\ target' = [k \in Key |-> IF k \in done THEN installs[k]
                                ELSE IF k \in hole THEN Missing ELSE target[k]]
    /\ staged' = [k \in Key |-> IF k \in done \cup hole THEN staged[k] \cup {target[k]}
                                ELSE staged[k]]
    /\ leftover' = leftover \ (done \cup hole)

\* What a transaction leaves at `done` and at `hole`, which it did not get to fill
Moved(done, hole) ==
    /\ target' = [k \in Key |-> IF k \in done THEN installs[k]
                                ELSE IF k \in hole THEN Missing ELSE target[k]]
    /\ staged' = [k \in Key |-> IF k \in done \cup hole
                                THEN staged[k] \cup ({target[k]} \ {Missing})
                                ELSE staged[k]]
    /\ leftover' = leftover \ (done \cup hole)

\* install_files_held asserts again that nothing runs
Commence ==
    /\ apc = "installing" /\ Stopped
    /\ apc' = "committing"
    /\ UNCHANGED <<disk, lease, atodo, amem, rvars, bound, ghost>>

\* It commits, and make_readable follows
Install ==
    /\ apc = "committing"
    /\ NoFault
    /\ Moved(Declared(installs), {})
    /\ apc' = "removing"
    /\ UNCHANGED <<declared, backup, managed, lease, atodo, amem, rvars, writes, origin,
                   stale, touched>>

\* Variant: the transaction's error is not looked at
InstallIgnored ==
    /\ apc = "committing"
    /\ Fault
    /\ \E done \in SUBSET Declared(installs) :
          \E hole \in SUBSET (Declared(installs) \ done) : Moved(done, hole)
    /\ apc' = "removing"
    /\ UNCHANGED <<declared, backup, managed, lease, atodo, amem, rvars, writes, origin,
                   stale, touched>>

\* The transaction is rolled back, stuck or killed half way, or
\* make_readable fails after it
InstallFails ==
    /\ apc = "committing"
    /\ Fault
    /\ \E done \in SUBSET Declared(installs) :
          \E hole \in SUBSET (Declared(installs) \ done) : Moved(done, hole)
    /\ Leave
    /\ UNCHANGED <<declared, backup, managed, rvars, writes, origin, stale>>

Remove(k) ==
    /\ apc = "removing" /\ k \in removals
    /\ target[k] # Missing /\ NoFault
    /\ target' = [target EXCEPT ![k] = Missing]
    /\ removals' = removals \ {k}
    /\ UNCHANGED <<declared, backup, managed, staged, lease, apc, atodo, want, was,
                   next, installs, rvars, writes, ghost>>

\* Variant: the backups are dropped before the manifest stops naming them
WritePrunedLate ==
    /\ apc = "removing" /\ removals = {}
    /\ NoFault
    /\ apc' = "dropping" /\ atodo' = Undeclared
    /\ UNCHANGED <<disk, lease, amem, rvars, writes, ghost>>

\* The manifest forgets what is no longer declared, before the backups go
WritePruned ==
    /\ apc = "removing" /\ removals = {}
    /\ NoFault
    /\ managed' = [k \in Key |-> IF want[k] = Missing THEN "no" ELSE next[k]]
    /\ apc' = "dropping" /\ atodo' = Undeclared
    /\ UNCHANGED <<declared, target, backup, staged, lease, amem, rvars, writes, ghost>>

\* remove_file, whose failure is ignored
DropBackup(k) ==
    /\ apc = "dropping" /\ k \in atodo
    /\ \/ NoFault /\ backup' = [backup EXCEPT ![k] = Missing]
       \/ Fault /\ backup' = backup
    /\ atodo' = atodo \ {k} /\ leftover' = leftover \ {k}
    /\ UNCHANGED <<declared, target, managed, staged, lease, apc, amem, rvars, writes,
                   origin, stale, touched>>

Done ==
    /\ apc = "dropping" /\ atodo = {}
    /\ Leave
    /\ UNCHANGED <<disk, rvars, bound, origin, leftover, stale>>

\* Any call fails, or the process dies: what is on disk stays
Abort ==
    /\ apc # "idle"
    /\ Leave
    /\ UNCHANGED <<disk, rvars, bound, origin, leftover, stale>>

---------------------------------------------------------------------------
(* reassert, from `launch` and from `gate` *)

\* The process ends; a launch drops the lease
REnd(r) ==
    /\ rpc' = [rpc EXCEPT ![r] = "idle"] /\ rtodo' = [rtodo EXCEPT ![r] = {}]
    /\ rwant' = [rwant EXCEPT ![r] = None]
    /\ rwas' = [rwas EXCEPT ![r] = [k \in Key |-> "no"]]
    /\ lease' = IF lease = r THEN Nobody ELSE lease
    /\ touched' = [touched EXCEPT ![r] = {}]
    /\ UNCHANGED rcur

\* The process starts and reads its configuration
RLoad(r) ==
    /\ rpc[r] = "idle" /\ Declared(declared) # {}
    /\ rpc' = [rpc EXCEPT ![r] = "loaded"]
    /\ rwant' = [rwant EXCEPT ![r] = declared]
    /\ UNCHANGED <<disk, lease, apc, atodo, amem, rtodo, rcur, rwas, bound, ghost>>

\* read_managed, once a launch has the lease and nothing else runs
Managed(r) ==
    /\ rpc[r] = "loaded"
    /\ rpc' = [rpc EXCEPT ![r] = "checking"]
    /\ rwas' = [rwas EXCEPT ![r] = managed]
    /\ rtodo' = [rtodo EXCEPT ![r] = Declared(rwant[r])]
    /\ UNCHANGED <<disk, apc, atodo, amem, rcur, rwant, bound, ghost>>

\* Variant: a launch takes no lease either
ReadUnleased(r) == lease' = lease /\ Managed(r)

Read(r) ==
    /\ IF r \in Launch THEN lease = Nobody /\ lease' = r /\ Stopped ELSE lease' = lease
    /\ Managed(r)

Compare(r, k) ==
    /\ rpc[r] = "checking" /\ k \in rtodo[r]
    /\ \/ /\ rwas[r][k] # "no" /\ target[k] = rwant[r][k]
          /\ rtodo' = [rtodo EXCEPT ![r] = @ \ {k}]
          /\ UNCHANGED <<lease, rpc, rcur, rwant, rwas, touched>>
       \/ /\ rwas[r][k] # "no" /\ target[k] # rwant[r][k]
          /\ rpc' = [rpc EXCEPT ![r] = "reinstalling"]
          /\ rcur' = [rcur EXCEPT ![r] = k]
          /\ UNCHANGED <<lease, rtodo, rwant, rwas, touched>>
       \/ rwas[r][k] = "no" /\ REnd(r)
    /\ UNCHANGED <<disk, apc, atodo, amem, bound, origin, leftover, stale>>

\* A key that is nobody's any more, or that apply is giving back
GivenBack(k) == managed[k] = "no" \/ (apc # "idle" /\ want[k] = Missing)
\* The original is in place, and no backup stands for it
Unbacked(k) == target[k] = origin[k] /\ target[k] # Missing /\ (GivenBack(k) \/ k \in leftover)

\* The copy is renamed over the target.  A gate does it without the lease, so to the
\* others it is an outsider, and it may hit an original
Reinstall(r) ==
    /\ rpc[r] = "reinstalling" /\ NoFault
    /\ target' = [target EXCEPT ![rcur[r]] = rwant[r][rcur[r]]]
    /\ rpc' = [rpc EXCEPT ![r] = "checking"]
    /\ rtodo' = [rtodo EXCEPT ![r] = @ \ {rcur[r]}]
    /\ stale' = IF Unbacked(rcur[r]) THEN stale \cup {rcur[r]} ELSE stale
    /\ IF r \in Launch THEN touched' = touched ELSE Touch(rcur[r], r)
    /\ UNCHANGED <<declared, backup, managed, staged, lease, apc, atodo, amem, rcur,
                   rwant, rwas, writes, origin, leftover>>

Play(r) ==
    /\ rpc[r] = "checking" /\ rtodo[r] = {}
    /\ rpc' = [rpc EXCEPT ![r] = "playing"]
    /\ UNCHANGED <<disk, lease, apc, atodo, amem, rtodo, rcur, rwant, rwas, bound, ghost>>

\* The game is over, the call failed, or the process was killed
Quit(r) ==
    /\ rpc[r] # "idle"
    /\ REnd(r)
    /\ UNCHANGED <<disk, apc, atodo, amem, bound, origin, leftover, stale>>

---------------------------------------------------------------------------
(* The user's configuration, and the vendor's launcher *)

Declare(k, s) ==
    /\ declared' = [declared EXCEPT ![k] = s] /\ s # declared[k]
    /\ UNCHANGED <<target, backup, managed, staged, lease, apc, atodo, amem, rvars,
                   bound, ghost>>

\* What the outsider writes is its own file: the key is not managed and no apply is
\* taking it over
Owned(k) == managed[k] = "no" /\ (next[k] = "no" \/ want[k] = Missing)

\* Over an original that is in place although the key is managed, the outsider disposes
\* of the original itself
Write(k, c) ==
    /\ writes < MaxWrites /\ writes' = writes + 1 /\ c # target[k]
    /\ target' = [target EXCEPT ![k] = c]
    /\ origin' = IF Owned(k) THEN [origin EXCEPT ![k] = c]
                 ELSE IF (managed[k] # "no" \/ k \in leftover) /\ target[k] = origin[k]
                      THEN [origin EXCEPT ![k] = Missing] ELSE origin
    /\ leftover' = leftover \ {k}
    /\ Touch(k, Nobody)
    /\ UNCHANGED <<declared, backup, managed, staged, lease, apc, atodo, amem, rvars,
                   faults, stale>>

---------------------------------------------------------------------------
ApplyStep ==
    \/ Load \/ Start \/ BackedUp \/ WriteIntent \/ Commence \/ Install \/ InstallFails
    \/ WritePruned \/ Done \/ Abort
    \/ \E k \in Key : BackUp(k) \/ Restore(k) \/ Remove(k) \/ DropBackup(k)

ReaderStep(r) ==
    \/ RLoad(r) \/ Read(r) \/ Reinstall(r) \/ Play(r) \/ Quit(r)
    \/ \E k \in Key : Compare(r, k)

Outside == \E k \in Key :
    \/ \E s \in Source \cup {Missing} : Declare(k, s)
    \/ \E c \in Original \cup {Missing} : Write(k, c)

Next == ApplyStep \/ (\E r \in Reader : ReaderStep(r)) \/ Outside

Spec == Init /\ [][Next]_vars

---------------------------------------------------------------------------
(* Properties *)

TypeOK ==
    /\ declared \in [Key -> Source \cup {Missing}]
    /\ target \in Files /\ backup \in Files /\ installs \in Files
    /\ want \in [Key -> Source \cup {Missing}]
    /\ managed \in Manifest /\ was \in Manifest /\ next \in Manifest
    /\ staged \in [Key -> SUBSET Content]
    /\ lease \in {Nobody, Apply} \cup Launch
    /\ apc \in {"idle", "loaded", "backing", "restoring", "installing", "committing", "removing",
                "dropping"}
    /\ atodo \subseteq Key /\ removals \subseteq Key
    /\ rpc \in [Reader -> {"idle", "loaded", "checking", "reinstalling", "playing"}]
    /\ rtodo \in [Reader -> SUBSET Key] /\ rcur \in [Reader -> Key]
    /\ rwant \in [Reader -> [Key -> Source \cup {Missing}]]
    /\ rwas \in [Reader -> Manifest]
    /\ writes \in 0..MaxWrites /\ faults \in 0..MaxFaults
    /\ origin \in [Key -> Original \cup {Missing}]
    /\ leftover \subseteq Key /\ stale \subseteq Key
    /\ touched \in [{Apply} \cup Reader -> SUBSET Key]

\* Whenever the manifest on disk says that an original was backed up, the backup is
\* there, so a crash between any two writes never leaves a record that no later
\* apply can carry out (intent first, pruned manifest before the backups go).
ManifestNamesBackup == \A k \in Key : managed[k] = "backed" => backup[k] # Missing

Somewhere(k) == origin[k] \in {Missing, target[k], backup[k]} \cup staged[k]

\* The file the vendor or the user had before a key was managed is somewhere: in
\* place, in the backup, or in a transaction's staging directory.  No apply loses it, not
\* even one that takes a leftover backup for that of a newer file (client_dlls.rs:122);
\* only a reassert, which keeps nothing, can (client_dlls.rs:198): before the transaction of
\* such an apply, or without the lease over a file just given back.
KeptUnlessStale == \A k \in Key \ stale : Somewhere(k)

\* An apply that comes to its end has made the declaration true: a declared
\* file is the declared copy, an undeclared one is its backup or is gone, unless
\* an outsider or a gate wrote it meanwhile.
DoneIsTrue ==
    apc = "dropping" => \A k \in Key \ touched[Apply] :
        /\ want[k] # Missing => target[k] = want[k] /\ managed[k] # "no"
        /\ was[k] = "backed" /\ k \in atodo => target[k] = backup[k]
        /\ was[k] = "plain" /\ want[k] = Missing => target[k] = Missing

\* A game that a native launch starts sees every declared copy, and no apply
\* or other launch changes one while it runs, unless an outsider or a gate rewrote the file.
LaunchSeesDeclared ==
    \A r \in Launch : rpc[r] = "playing" =>
        \A k \in Declared(rwant[r]) \ touched[r] : target[k] = rwant[r][k]
===========================================================================
