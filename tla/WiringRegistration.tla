----------------------- MODULE WiringRegistration -----------------------
(***************************************************************************)
(* How the manager wires an instance to Wine and to Lutris: `onboard       *)
(* apply`, `register-launcher`, `prepare` and `install-launcher`           *)
(* (crates/modde-manager/src/wiring.rs).  A command chooses a runner,      *)
(* creates a prefix, writes an entry's yml, upserts its row in Lutris'     *)
(* database, and records the runner: five places on disk, written one      *)
(* after the other, between which the command may fail or be killed.       *)
(*                                                                         *)
(* A command holds the lease on its instance's root; one that registers    *)
(* also takes the lock on Lutris' data directory, which all instances      *)
(* share.  Lutris itself takes no lock: it may be started while a command  *)
(* runs, and then edits what it likes.  The game and the launcher are      *)
(* stopped; client DLLs, which apply installs before it verifies, are      *)
(* ClientDlls' subject and fail or not; each entry has its own prefix.     *)
(***************************************************************************)
EXTENDS Integers, FiniteSets

CONSTANTS
    Instance,
    Game, Launcher,   \* the Lutris entries the instances declare
    Owner,            \* Owner[e]: the instance that declares entry e
    Slug, SlugOf,     \* slugs, and the one each entry has: instances may collide
    Newest,           \* runners are the versions 1..Newest
    Foreign,          \* whoever else has entries in Lutris
    None,             \* no file, row, runner or lock
    Settings,         \* what the launchers may have stored at first
    Touched,          \* bound: the slugs whose entries Lutris' user touches
    Reselect,         \* bound: with --reselect or without
    MaxChanges,       \* bound on what the operator and updates change, and Lutris' starts
    MaxFaults         \* bound on deaths and failures

Entry == Game \cup Launcher
Latest == -1          \* the declaration pins no version
Version == 1..Newest
Text == {1, 2}        \* what else the declaration puts in an entry: its name, its tunings
Declaration == [text : Text, pin : Version \cup {Latest}]
Yml == [of : Entry \cup {Foreign}, runner : Version \cup {None}, text : Text]
Row == [of : Entry \cup {Foreign}, text : Text]
Dir == {"none", "root", "old", "other"}
Setting == [client : Dir, active : Dir]

ASSUME OwnerAssumption == Owner \in [Entry -> Instance] /\ SlugOf \in [Entry -> Slug]
ASSUME SlugAssumption ==   \* validate_declaration
    \A d, e \in Entry : d # e /\ Owner[d] = Owner[e] => SlugOf[d] # SlugOf[e]
ASSUME NameAssumption ==
    /\ Newest \in Nat \ {0} /\ None \notin Instance \cup Entry \cup Yml \cup Row \cup Version
    /\ Foreign \notin Entry /\ Game \cap Launcher = {}
ASSUME BoundAssumption ==
    /\ Settings \subseteq Setting /\ Reselect \subseteq BOOLEAN
    /\ MaxChanges \in Nat /\ MaxFaults \in Nat

VARIABLES
    yml, row,      \* by slug: Lutris' config file and its database row
    kept,          \* by slug: the yml contents backed up
    prefix,        \* by entry: "absent", "partial" (no system.reg), "ready"
    record,        \* by instance: wiring-runtime.json
    settings,      \* by instance: the client folders the launcher stored
    declared,      \* by instance: the declaration's text and version pin
    installed,     \* runners that execute
    lutris,        \* Lutris runs
    dblock,        \* who holds the lock on Lutris' data directory
    pc, job,       \* by instance: the command that holds the root lease
    met,           \* ghost: Lutris ran since the command planned
    changes, faults

disk   == <<yml, row, kept, prefix, record, settings>>
world  == <<declared, installed, lutris, changes>>
cmd    == <<dblock, pc, job, met, faults>>
vars   == <<disk, world, cmd>>

Idle == [entry |-> None, op |-> "none", adopt |-> FALSE, reselect |-> FALSE,
         runner |-> None, decl |-> [text |-> 1, pin |-> Latest], existed |-> FALSE,
         backup |-> None, found |-> FALSE, checks |-> FALSE]
Op == {"apply", "register", "prepare", "install"}
Job == [entry : Entry \cup {None}, op : Op \cup {"none"}, adopt : BOOLEAN, reselect : BOOLEAN,
        runner : Version \cup {None}, decl : Declaration, existed : BOOLEAN,
        backup : Yml \cup {None}, found : BOOLEAN, checks : BOOLEAN]

TypeOK ==
    /\ yml \in [Slug -> Yml \cup {None}] /\ row \in [Slug -> Row \cup {None}]
    /\ kept \in [Slug -> SUBSET Yml]
    /\ prefix \in [Entry -> {"absent", "partial", "ready"}]
    /\ record \in [Instance -> Version \cup {None}]
    /\ settings \in [Instance -> Setting \cup {None}]
    /\ declared \in [Instance -> Declaration]
    /\ installed \subseteq Version /\ lutris \in BOOLEAN
    /\ dblock \in Instance \cup {None}
    /\ pc \in [Instance -> {"idle", "lock", "plan", "check", "refused", "prefix", "boot",
                            "installer", "settings", "yml", "read", "backup", "write", "row",
                            "upsert", "undo", "remove", "undone", "failed", "record",
                            "verify", "done"}]
    /\ job \in [Instance -> Job]
    /\ met \in [Instance -> BOOLEAN]
    /\ changes \in 0..MaxChanges /\ faults \in 0..MaxFaults

\* Nothing is wired; somebody else may have an entry
Init ==
    /\ yml \in [Slug -> {None, [of |-> Foreign, runner |-> None, text |-> 1]}]
    /\ row = [s \in Slug |-> IF yml[s] = None THEN None ELSE [of |-> Foreign, text |-> 1]]
    /\ kept = [s \in Slug |-> {}]
    /\ prefix = [e \in Entry |-> "absent"]
    /\ record = [i \in Instance |-> None]
    /\ settings = [i \in Instance |-> None]
    /\ declared = [i \in Instance |-> [text |-> 1, pin |-> Latest]]
    /\ installed \in {1..v : v \in Version} /\ lutris = FALSE /\ dblock = None
    /\ pc = [i \in Instance |-> "idle"] /\ job = [i \in Instance |-> Idle]
    /\ met = [i \in Instance |-> FALSE]
    /\ changes = 0 /\ faults = 0

---------------------------------------------------------------------------
(* Operators *)

E(i) == job[i].entry
S(i) == SlugOf[E(i)]
Body(i) == [of |-> E(i), runner |-> job[i].runner, text |-> job[i].decl.text]
Want(i) == [of |-> E(i), text |-> job[i].decl.text]

\* discover_runner: the newest that fits the declaration
Discovered(d) ==
    LET fit == {v \in installed : d.pin \in {Latest, v}}
    IN  IF fit = {} THEN None ELSE CHOOSE v \in fit : \A w \in fit : w <= v

\* Variant: the newest runner wins over the recorded one
SelectNewest(i, d, reselect) == Discovered(d)
\* The runner a command uses, or None if it fails
Select(i, d, reselect) ==
    IF reselect \/ record[i] = None THEN Discovered(d)
    ELSE IF d.pin \in {Latest, record[i]} /\ record[i] \in installed
         THEN record[i] ELSE None

At(i, a, b) == pc[i] = a /\ pc' = [pc EXCEPT ![i] = b]
Fault == faults < MaxFaults /\ faults' = faults + 1

\* The command returns: both locks are released
Leave(i) ==
    /\ pc' = [pc EXCEPT ![i] = "idle"] /\ job' = [job EXCEPT ![i] = Idle]
    /\ dblock' = IF dblock = i THEN None ELSE dblock
    /\ met' = [met EXCEPT ![i] = FALSE]

---------------------------------------------------------------------------
(* Commands *)

First(op) == CASE op = "prepare" -> "record" [] op = "install" -> "prefix" [] OTHER -> "lock"

\* The root lease is free, a runner is selected; register-launcher looks for Lutris first
Begin(i, e, op, adopt, reselect) ==
    /\ pc[i] = "idle" /\ Owner[e] = i
    /\ e \in IF op \in {"apply", "prepare"} THEN Game ELSE Launcher
    /\ adopt => op \in {"apply", "register"}
    /\ reselect => op \in {"apply", "prepare"}
    /\ op = "register" => ~lutris
    /\ Select(i, declared[i], reselect) # None
    /\ pc' = [pc EXCEPT ![i] = First(op)]
    /\ job' = [job EXCEPT ![i] = [Idle EXCEPT !.entry = e, !.op = op, !.adopt = adopt,
                  !.reselect = reselect, !.runner = Select(i, declared[i], reselect),
                  !.decl = declared[i]]]
    /\ UNCHANGED <<disk, world, dblock, met, faults>>

\* Variant: the lock is taken when the plan is executed
LockNothing(i) ==
    /\ At(i, "lock", "plan")
    /\ UNCHANGED <<disk, world, dblock, job, met, faults>>
LockDb(i) ==
    /\ At(i, "lock", "plan") /\ dblock = None /\ dblock' = i
    /\ UNCHANGED <<disk, world, job, met, faults>>

LockBusy(i) ==
    /\ pc[i] = "lock" /\ dblock # None /\ Leave(i)
    /\ UNCHANGED <<disk, world, faults>>

\* plan_entry: Lutris is closed, and the entry is ours or may be taken over
Ours(i) == IF row[S(i)] # None THEN row[S(i)].of = E(i)
           ELSE yml[S(i)] \in {None, Body(i)}

\* Variant: an orphaned yml is nobody's
PlanRowOnly(i) ==
    /\ At(i, "plan", IF job[i].op = "apply" THEN "check" ELSE "prefix")
    /\ ~lutris /\ (job[i].adopt \/ row[S(i)] = None \/ Ours(i))
    /\ UNCHANGED <<disk, world, dblock, job, met, faults>>
Plan(i) ==
    /\ At(i, "plan", IF job[i].op = "apply" THEN "check" ELSE "prefix")
    /\ ~lutris /\ (job[i].adopt \/ Ours(i))
    /\ met' = [met EXCEPT ![i] = FALSE]
    /\ UNCHANGED <<disk, world, dblock, job, faults>>

PlanRefused(i) ==
    /\ pc[i] = "plan" /\ ~(~lutris /\ (job[i].adopt \/ Ours(i))) /\ Leave(i)
    /\ UNCHANGED <<disk, world, faults>>

\* The blockers `status` reports: of those modelled here, the runner, which it
\* selects anew and never reselects
Check(i) ==
    /\ At(i, "check", IF Select(i, job[i].decl, FALSE) = None THEN "refused" ELSE "prefix")
    /\ UNCHANGED <<disk, world, dblock, job, met, faults>>

AfterPrefix(op, fresh) ==
    CASE op = "apply" -> "yml"
      [] op = "register" -> IF fresh THEN "yml" ELSE "settings"
      [] op = "prepare" -> "done"
      [] op = "install" -> "installer"

PrefixThere(i) ==
    /\ At(i, "prefix", AfterPrefix(job[i].op, FALSE)) /\ prefix[E(i)] = "ready"
    /\ UNCHANGED <<disk, world, dblock, job, met, faults>>

MakePrefix(i) ==
    /\ At(i, "prefix", "boot") /\ prefix[E(i)] = "absent"
    /\ prefix' = [prefix EXCEPT ![E(i)] = "partial"]
    /\ UNCHANGED <<yml, row, kept, record, settings, world, dblock, job,
                   met, faults>>

\* "prefix appeared during apply": a partial one is never deleted
PrefixAppeared(i) ==
    /\ pc[i] = "prefix" /\ prefix[E(i)] = "partial" /\ Leave(i)
    /\ UNCHANGED <<disk, world, faults>>

Boot(i) ==
    /\ At(i, "boot", AfterPrefix(job[i].op, TRUE))
    /\ prefix' = [prefix EXCEPT ![E(i)] = "ready"]
    /\ UNCHANGED <<yml, row, kept, record, settings, world, dblock, job,
                   met, faults>>

RunInstaller(i) ==
    /\ At(i, "installer", "record")
    /\ UNCHANGED <<disk, world, dblock, job, met, faults>>

\* reconcile_launcher_client_dir: clientDir follows the root, activeClientDir only
\* if it followed clientDir; without a clientDir it fails
Reconcile(i) ==
    LET s == settings[i] IN
    /\ s # None => s.client # "none"
    /\ At(i, "settings", "yml")
    /\ job' = [job EXCEPT ![i].checks = s # None]
    /\ settings' = IF s = None THEN settings
                 ELSE [settings EXCEPT ![i] = [client |-> "root",
                          active |-> IF s.active = s.client THEN "root" ELSE s.active]]
    /\ UNCHANGED <<yml, row, kept, prefix, record, world, dblock, met, faults>>

ReconcileFails(i) ==
    /\ pc[i] = "settings" /\ settings[i] # None /\ settings[i].client = "none" /\ Leave(i)
    /\ UNCHANGED <<disk, world, faults>>

(* execute_entry: the yml, then the row.  Every look at a file or a row,   *)
(* every copy and every replacement is a call of its own, and Lutris may   *)
(* write between any two of them.                                          *)

\* Undo will remove a yml only if there was none when the entry was begun
BeginEntry(i) ==
    /\ At(i, "yml", "read")
    /\ job' = [job EXCEPT ![i].existed = yml[S(i)] # None]
    /\ UNCHANGED <<disk, world, dblock, met, faults>>

\* write_yml reads what is there: the same text is not written again, and what is to
\* be replaced is copied first
ReadYml(i) ==
    /\ At(i, "read", IF yml[S(i)] = Body(i) THEN "row"
                     ELSE IF yml[S(i)] = None THEN "write" ELSE "backup")
    /\ job' = [job EXCEPT ![i].backup = None]
    /\ UNCHANGED <<disk, world, dblock, met, faults>>

\* Variant: no backup of what is overwritten
SkipBackup(i) ==
    /\ At(i, "backup", "write") /\ yml[S(i)] # None
    /\ UNCHANGED <<disk, world, dblock, job, met, faults>>
\* The backup is of what is there now
BackUp(i) ==
    /\ At(i, "backup", "write") /\ yml[S(i)] # None
    /\ kept' = [kept EXCEPT ![S(i)] = @ \cup {yml[S(i)]}]
    /\ job' = [job EXCEPT ![i].backup = yml[S(i)]]
    /\ UNCHANGED <<yml, row, prefix, record, settings, world, dblock, met, faults>>

NothingToBackUp(i) ==
    /\ pc[i] = "backup" /\ yml[S(i)] = None /\ Leave(i)
    /\ UNCHANGED <<disk, world, faults>>

\* atomic_write_0600: a rename over whatever is there by now
WriteYml(i) ==
    /\ At(i, "write", "row")
    /\ yml' = [yml EXCEPT ![S(i)] = Body(i)]
    /\ UNCHANGED <<row, kept, prefix, record, settings, world, dblock, job, met,
                   faults>>

\* upsert_pga_row reads the row; the same row is not written again
ReadRow(i) ==
    /\ At(i, "row", IF row[S(i)] = Want(i) THEN "record" ELSE "upsert")
    /\ job' = [job EXCEPT ![i].found = row[S(i)] # None]
    /\ UNCHANGED <<disk, world, dblock, met, faults>>

\* Updates the row it found, inserts the one it missed: a row that is gone is not
\* updated, and one that has come since stays in front of the inserted one
UpsertRow(i) ==
    /\ At(i, "upsert", "record")
    /\ row' = IF job[i].found = (row[S(i)] # None) THEN [row EXCEPT ![S(i)] = Want(i)]
              ELSE row
    /\ UNCHANGED <<yml, kept, prefix, record, settings, world, dblock, job, met,
                   faults>>

\* The row cannot be read, backed up or written
UpsertFails(i) ==
    /\ \E a \in {"row", "upsert"} : At(i, a, "undo")
    /\ Fault
    /\ UNCHANGED <<disk, world, dblock, job, met>>

\* The backup goes back, whatever is there; a new yml that still is what was written
\* is to be removed
Undo(i) ==
    LET restores == job[i].backup # None
        removes  == ~restores /\ ~job[i].existed /\ yml[S(i)] = Body(i)
    IN
    /\ At(i, "undo", IF removes THEN "remove" ELSE "undone")
    /\ yml' = IF restores THEN [yml EXCEPT ![S(i)] = job[i].backup] ELSE yml
    /\ UNCHANGED <<row, kept, prefix, record, settings, world, dblock, job, met,
                   faults>>

\* remove_file: whatever is there by now
RemoveNew(i) ==
    /\ At(i, "remove", "undone")
    /\ yml' = [yml EXCEPT ![S(i)] = None]
    /\ UNCHANGED <<row, kept, prefix, record, settings, world, dblock, job, met,
                   faults>>

AfterRecord(op) == CASE op = "prepare" -> "prefix"
                     [] op = "install" -> "done"
                     [] OTHER -> "verify"

\* Variant: a runner that is recorded stays recorded
RecordFirst(i) ==
    /\ At(i, "record", AfterRecord(job[i].op))
    /\ record' = IF record[i] # None THEN record ELSE [record EXCEPT ![i] = job[i].runner]
    /\ UNCHANGED <<yml, row, kept, prefix, settings, world, dblock, job, met,
                   faults>>
\* Variant: the version the declaration asks for is recorded
RecordDeclared(i) ==
    /\ At(i, "record", AfterRecord(job[i].op))
    /\ record' = [record EXCEPT ![i] = job[i].decl.pin]
    /\ UNCHANGED <<yml, row, kept, prefix, settings, world, dblock, job, met, faults>>
Record(i) ==
    /\ At(i, "record", AfterRecord(job[i].op))
    /\ record' = [record EXCEPT ![i] = job[i].runner]
    /\ UNCHANGED <<yml, row, kept, prefix, settings, world, dblock, job, met,
                   faults>>

\* What the post-conditions of apply and of register-launcher look at
Verified(i) ==
    /\ yml[S(i)] # None
    /\ yml[S(i)] = [of |-> E(i), runner |-> record[i], text |-> job[i].decl.text]
    /\ job[i].op = "apply" => /\ row[S(i)] # None /\ prefix[E(i)] = "ready"
                              /\ Select(i, job[i].decl, FALSE) # None
    /\ job[i].checks => settings[i] = [client |-> "root", active |-> "root"]

Verify(i) ==
    /\ At(i, "verify", IF Verified(i) THEN "done" ELSE "failed")
    /\ UNCHANGED <<disk, world, dblock, job, met, faults>>

Return(i) ==
    /\ pc[i] \in {"done", "undone", "failed", "refused"} /\ Leave(i)
    /\ UNCHANGED <<disk, world, faults>>

\* It fails, or is killed, before its next step; wineboot may go on without it
Die(i) ==
    /\ pc[i] # "idle" /\ Fault /\ Leave(i)
    /\ \/ prefix' = prefix
       \/ pc[i] = "boot" /\ prefix' = [prefix EXCEPT ![E(i)] = "ready"]
    /\ UNCHANGED <<yml, row, kept, record, settings, world>>

---------------------------------------------------------------------------
(* The operator, updates, the launcher and Lutris *)

Change == changes < MaxChanges /\ changes' = changes + 1

UpdateRunners ==
    /\ Change
    /\ \E v \in Version : installed' = IF v \in installed THEN installed \ {v}
                                      ELSE installed \cup {v}
    /\ UNCHANGED <<disk, declared, lutris, cmd>>

Edit(i) ==
    /\ Change
    /\ \E d \in Declaration \ {declared[i]} : declared' = [declared EXCEPT ![i] = d]
    /\ UNCHANGED <<disk, installed, lutris, cmd>>

\* Explicit operator recovery: no command ever removes a prefix
RemovePrefix(i, e) ==
    /\ Owner[e] = i /\ pc[i] = "idle" /\ prefix[e] = "partial"
    /\ prefix' = [prefix EXCEPT ![e] = "absent"]
    /\ UNCHANGED <<yml, row, kept, record, settings, world, cmd>>

LauncherStores(i, e) ==
    /\ Owner[e] = i /\ e \in Launcher /\ pc[i] = "idle" /\ prefix[e] = "ready"
    /\ Change
    /\ \E s \in Settings : settings' = [settings EXCEPT ![i] = s]
    /\ UNCHANGED <<yml, row, kept, prefix, record, declared, installed, lutris, cmd>>

LutrisStarts ==
    /\ ~lutris /\ Change /\ lutris' = TRUE
    /\ met' = [i \in Instance |-> pc[i] # "idle"]
    /\ UNCHANGED <<disk, declared, installed, dblock, pc, job, faults>>

LutrisStops ==
    /\ lutris /\ lutris' = FALSE
    /\ UNCHANGED <<disk, declared, installed, changes, cmd>>

\* Its user edits an entry, removes it, or adds one
LutrisEdits(s) ==
    LET theirs == [of |-> Foreign, runner |-> None, text |-> 1] IN
    /\ lutris /\ s \in Touched
    /\ \/ row[s] # None /\ yml' = [yml EXCEPT ![s] = theirs] /\ row' = row
       \/ yml' = [yml EXCEPT ![s] = None] /\ row' = [row EXCEPT ![s] = None]
       \/ /\ row[s] = None /\ yml' = [yml EXCEPT ![s] = theirs]
          /\ row' = [row EXCEPT ![s] = [of |-> Foreign, text |-> 1]]
    /\ UNCHANGED <<kept, prefix, record, settings, world, cmd>>

Proceed(i) ==
    \/ LockDb(i) \/ LockBusy(i) \/ Plan(i) \/ PlanRefused(i) \/ Check(i)
    \/ PrefixThere(i) \/ MakePrefix(i) \/ PrefixAppeared(i) \/ Boot(i)
    \/ RunInstaller(i) \/ Reconcile(i) \/ ReconcileFails(i)
    \/ BeginEntry(i) \/ ReadYml(i) \/ BackUp(i) \/ NothingToBackUp(i) \/ WriteYml(i)
    \/ ReadRow(i) \/ UpsertRow(i) \/ Undo(i) \/ RemoveNew(i)
    \/ Record(i) \/ Verify(i) \/ Return(i)

Outside ==
    \/ UpdateRunners \/ LutrisStarts \/ LutrisStops
    \/ \E s \in Slug : LutrisEdits(s)
    \/ \E i \in Instance : Edit(i)
    \/ \E i \in Instance, e \in Entry : RemovePrefix(i, e) \/ LauncherStores(i, e)

Next ==
    \/ \E i \in Instance, e \in Entry, op \in Op, adopt \in BOOLEAN, reselect \in Reselect :
          Begin(i, e, op, adopt, reselect)
    \/ \E i \in Instance : Proceed(i) \/ UpsertFails(i) \/ Die(i)
    \/ Outside

Spec == Init /\ [][Next]_vars

(* A command that does not fail goes on; the operator closes Lutris,       *)
(* removes what a failed wineboot left, chooses a runner again and applies *)
(* with --adopt, again and again.  These are enabled only between          *)
(* commands, hence strong fairness.                                        *)
FairSpec ==
    /\ Spec
    /\ \A i \in Instance : WF_vars(Proceed(i))
    /\ SF_vars(LutrisStops)
    /\ \A i \in Instance, e \in Game :
          /\ SF_vars(RemovePrefix(i, e))
          /\ SF_vars(Begin(i, e, "prepare", FALSE, TRUE))
          /\ SF_vars(Begin(i, e, "apply", TRUE, FALSE))

---------------------------------------------------------------------------
(* Properties *)

Acts(i) == pc'[i] # pc[i]

\* Without --adopt no command takes over a row that points elsewhere or a yml without
\* a row, however commands of other instances interleave with it and wherever they
\* died, unless Lutris was started behind its back (wiring.rs:2610).
TakenByAdoption == [][
    \A i \in Instance, s \in Slug :
       Acts(i) /\ ~job[i].adopt /\ ~met[i] =>
          /\ row[s] # None /\ row'[s] # row[s] => row'[s] # None /\ row'[s].of = row[s].of
          /\ row[s] = None /\ yml'[s] # yml[s] => yml[s] \in {None, Body(i)}]_vars

\* What the command last saw or left in its yml: the file it copied, or its own
LastSeen(i) == IF pc[i] = "write" THEN job[i].backup ELSE Body(i)
TakesBack == {"undo", "remove"}

\* A command never destroys a yml: what it overwrites is kept, but for its own write
\* that it takes back, and for what Lutris, started behind its back, wrote between
\* the copy and the rename, or after the rename (wiring.rs:2499, :2649, :2652).
YmlRetained == [][
    \A i \in Instance, s \in Slug :
       Acts(i) /\ yml[s] # None /\ yml'[s] # yml[s] =>
          \/ yml[s] \in kept'[s]
          \/ pc[i] \in TakesBack /\ yml[s] = Body(i)
          \/ pc[i] \in TakesBack \cup {"write"} /\ met[i] /\ yml[s] # LastSeen(i)]_vars

\* When a command reports success, file, row and record say the same: the entry is
\* this instance's and runs the runner on record (wiring.rs:3105, :4380).
DoneAgrees ==
    \A i \in Instance :
       pc[i] = "done" /\ job[i].op \in {"apply", "register"} /\ ~met[i] =>
          /\ row[S(i)] = Want(i) /\ prefix[E(i)] = "ready"
          /\ yml[S(i)] = [of |-> E(i), runner |-> record[i], text |-> job[i].decl.text]

Registered(i, e) ==
    LET s == SlugOf[e] IN
    /\ record[i] # None /\ prefix[e] = "ready"
    /\ yml[s] = [of |-> e, runner |-> record[i], text |-> declared[i].text]
    /\ row[s] = [of |-> e, text |-> declared[i].text]

\* "A repeat apply must be a literal no-op" (wiring.rs:3006): a command for an entry
\* that is registered as declared changes nothing, whatever runners were installed or
\* removed since, but for undoing its own write, and unless it is to reselect.
RepeatIsNoOp == [][
    \A e \in Entry : LET i == Owner[e] IN
       /\ Acts(i) /\ E(i) = e /\ Registered(i, e)
       /\ job[i].decl = declared[i] /\ ~job[i].reselect /\ pc[i] \notin TakesBack
       => UNCHANGED <<yml[SlugOf[e]], row[SlugOf[e]], kept[SlugOf[e]], record[i],
                      prefix[e]>>]_vars

\* Whatever died or failed, and whatever was installed, edited or run meanwhile, an
\* operator who repeats the recovery the errors name gets the game registered, if a
\* runner fits the declaration.
GamesRegister ==
    \A e \in Game : LET i == Owner[e] IN
       <>[](Discovered(declared[i]) # None) => <>[]Registered(i, e)

\* "A recorded binary that no longer executes blocks unless `reselect` explicitly
\* re-resolves" (wiring.rs:1134): apply --reselect, having chosen a runner that
\* executes, is not refused for the runner.
ReselectChooses ==
    \A i \in Instance :
       pc[i] = "refused" /\ job[i].reselect /\ record[i] \notin {None, job[i].runner} =>
          job[i].runner \notin installed
=============================================================================
