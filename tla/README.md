# Verification of modde-rs

TLA+ specifications of the parts of modde whose correctness depends on the
order of things: file transactions, sessions, locks, rollbacks and what a crash
leaves behind. TLC checks them on small instances, and TLAPS proves the most
important results for every value of the constants.

## The system

modde is a mod manager: a workspace of Rust crates around a SQLite or Postgres
database and directories on disk that it shares with games, launchers, the user
and other processes of itself.

| crate | what it is | state it keeps |
|---|---|---|
| `modde-core` | profiles, resolver, virtual file system, library sessions, save vaults, installers, database | the database, staging directories, the session and its journal |
| `modde-cli` | the commands, and the helper processes of a Library session (supervisor, completion worker, `manager-wrap`) | mutation lock, request, evidence |
| `modde-games` | per-game detection, deployment policies, tools, Library providers and launch preparation | configuration of tools |
| `modde-sources` | downloads (Nexus, direct, Google Drive, MEGA, GitHub), queue, Wabbajack installation | queue, cache, resumable staging |
| `modde-ui` | the iced user interface: messages, tasks and view state | in-memory state |
| `modde-manager` | declarative manager of one game installation: plan, apply, onboard, launch | the instance root, its lease, journals, client DLL backups |

Almost nothing in modde is protected by memory: its commands, its helper
processes, the game, the vendor's launcher and the user all meet on the same
directories. Three means keep them apart: advisory `flock` locks that end with
the process that holds them, files whose presence means something (journals,
markers, receipts, manifests), and renames. What is hard is the order of those
steps when a process dies between two of them.

### Inventory

**Manager file transaction** (`modde-manager/src/transaction.rs`, `files.rs`).
State: the instance root, the lease on it, and per transaction a staging
directory with payloads, `old-i`, `rolled-back-i` and `journal.json`.
Operations: `prepare`/`add`, `revalidate`, `commit`, `rollback`. It shares the
root with the game and the user, who take no lock, and with the Library bridge.
Hard: plans made before the lease, failing calls in the middle of a
commit or of a rollback, crashes between any two renames. Correct when nothing
somebody else wrote is destroyed, a plan is carried out only against what it
was made for, what the journal says is true, and the lease comes back.

**Manager client DLLs** (`client_dlls.rs`). State: `client-dlls.json`, the
backup directory, the DLLs in the root. Operations: `apply`, `reassert` (from a
native launch with the lease, from the Lutris gate without). Hard: three places
that are written one after the other, a vendor's launcher that rewrites the
files at any time. Correct when the manifest never names a backup that is not
there, the vendor's file is never lost, and a finished apply made the
declaration true.

**Manager wiring, onboarding, launch** (`wiring.rs`, `main.rs`). State: per instance
the recorded runner (`wiring-runtime.json`) and a Wine prefix per entry; per Lutris
directory, shared by all instances, one yml per slug, a row per slug in `pga.db`, the
backups of overwritten ymls, and a lock; the settings the vendor's launcher stores.
Operations: `onboard apply`, `onboard prepare`, `register-launcher`,
`install-launcher`. Hard: five places written one after the other, other instances
that write the same directory, Lutris that may start at any time and takes no lock,
runners that come and go between commands. Correct when nobody's entry is taken
without `--adopt`, nothing is overwritten without a backup, a command for what is
registered changes nothing, and success means that file, row and record agree.

**Library session** (`modde-core/src/library/`, `modde-cli/src/commands/library*`).
State: the session journal, the completion receipt, one request and one
evidence file per launch, `mutation.lock`, one `observer.lock` per launch, the
live save directory, the active profile, `needs_deploy`. Operations: `play`
(deploy, switch saves, launch, wait, capture), `finish`, `recover`, save
switch and restore, and two helper processes, the supervisor that starts and reaps the
game and the completion worker that finishes a session whose `play` is gone.
Hard: four processes, two kinds of lock, a dozen durable steps, and a
crash after each. Correct when saves are never lost or mixed between
profiles, a game runs only as the session of the journal, and an interrupted
preparation is put back.

**Save vault** (`save/`): a git repository with a branch per profile; capture,
deploy, restore, fork, tag, park.

**Profiles and experiments** (`profile/manager.rs`): the active profile and a
stack of experiments. The command line and the GUI switch profiles through the
journalled save transition of the Library session; the direct `activate_scoped`,
`try_profile_scoped` and `rollback_scoped` have no caller there.

**Virtual file system and hot deploy** (`vfs/`, `hot_deploy.rs`, the plugins'
`deploy`). State: per profile a staging tree of links into the store, a
`staging.bak`, a `staging.old`; in the game links into a staging tree; the enabled
mods in the database. Operations: materialize and project (`modde deploy`), project
only (the GUI's deploy), patch tree and game and save the profile (`hot-deploy`),
swap the tree with the restore point (`rollback`). Hard: no journal, the tree is
emptied and filled while the game is linked into it, every command is a sequence of
single paths. Correct when after a deploy the game shows the profile, a hot deploy
keeps it so or says it failed, and a deploy recovers from whatever was left.

**Resolver** (`resolver/`): order of mods from rules; pure.

**Bisect** (`bisect.rs`, `db/bisect.rs`, `commands/bisect/`). State: a session row,
a row per step, a candidate profile per step, the active profile, and the Library's
receipt of a launched candidate. Operations: `start`, `run`, `retry`, `mark`,
`abort`, and the completion of a launch. Hard: each is a sequence of database
statements that a death cuts, completions come again, and the halves must respect
the dependencies between mods. Correct when the culprit is never cleared, a session
that ends gives the installation back and removes its candidates, and repeating
`run` ends it.

**Download queue** (`queue.rs`, `meta.rs`): tasks, their states and sidecars. The GUI
keeps it as the list it shows; what schedules and persists has no caller.

**Wabbajack installation** (`wabbajack/`): verified archives to a staging tree,
in parallel batches with sentinels, resumable, and from there by hard links into
the game. Hard: what a crash leaves in a file that exists, what a resumed run
believes, and that staging and game share inodes. Correct when a strict run that
ends has installed the list, and a run that must not deploy leaves the game alone.

**The rest**: download sources, database access, installers and manifest
formats, instance registry and settings, refresh notification, game
plugins and diagnostics, user interface, oracle and build tooling. They are
listed in `PROJECT.json` with the reason each is left aside; the hazards they
carry are listed there too.

### How they interact

```
 manager apply / onboard --- lease on the root ---+--- manager launch (bridge)
      | Prepared            (files::lock)         |        | spawns
      v                                           |        v
 instance root <--- game, launcher, user          |   library manager-wrap
      ^                                           +--- marker in the root
      | client_dlls apply, reassert                        |
                                                           v
 library play --- mutation.lock --- journal --- supervisor (observer.lock) --- game
      |                               |              | evidence
      +-- deploy, saves, active       +-- completion worker (both locks)
```

## Modules

| module | models | proved about in |
|---|---|---|
| `ManagerTransaction` | the file transaction, the lease, the session marker | `ManagerTransactionProofs`, `ManagerTransactionRefinement` |
| `RetainingStore` | what a transaction promises; `ManagerTransaction` refines it | |
| `ClientDlls` | `client_dlls::apply` and `reassert`, launches and gates | `ClientDllsProofs` |
| `LibrarySession` | `play`, `finish`, `recover`, save operations, supervisor, worker | `LibrarySessionProofs` |
| `WabbajackStaging` | a Wabbajack list installed, resumed, repaired and deployed | `WabbajackStagingProofs` |
| `BisectSession` | a bisect session and the grading of its candidates | `BisectSessionProofs` |
| `WiringRegistration` | `onboard apply` and `prepare`, `register-launcher`, `install-launcher` | `WiringRegistrationProofs` |
| `ProfileDeployment` | the symlink farm, deploys, hot deploy, rollback | `ProfileDeploymentProofs` |
| `MC...` | instances for TLC | |

Definitions keep the names of the code where they can. A definition whose comment
begins with "Variant:" is a plausible mistake; no behaviour of the specification
uses it. `PROJECT.json` says which property each variant breaks.

### ManagerTransaction

One destination is an index into the plan, in the order of the plan. A file's
content is a model value (`Image`), a directory tree is one too; regular files and trees are
told apart because `add` and the seed rule do so. A transaction is a process
with a program counter; between two steps that other processes can observe or a crash
can separate there is a state.

| code | here |
|---|---|
| `Prepared::add` | `Add`: reads the destination; refuses another kind; plans if there is a change |
| `files::lock` or a caller that holds it | `Lock`, `AlreadyHeld` |
| `revalidate`, twice around `assert_stopped` | `Revalidate`, `AssertStopped` |
| staging directory and payloads | `Stage`, `OpenJournal` |
| the loop of `commit_inner` | `ReadTarget`, `MakeParent`, `Intent`, `Link`, `Displace`, `RecordPending`, `Install`, `Unwind`, `Installed`, `Finish` |
| `rollback` | `RestorePending`, `CheckUndo`, `Undo`, `Reinstate`, `RemoveParents`, `Report` |
| lease dropped on return or by the kernel | `Leave`, `Crash` |
| the game and the user | `UserWrite`, `UserDelete`, `UserRemoveDir` |
| `wiring::launch`, `manager-wrap`, its marker | `Launch`, `Mark`, `BridgeGone`, `SessionOver` |

Every I/O call can fail while the bound on faults allows it, and takes the
branch the code takes: most go to `rollback`, a failing rename of the payload
tries to put the backup back first, a failing journal write after a rename
leaves the disk ahead of the journal. `old` and `rolled` are the staging
directories; they are never emptied, as in the code. The launcher may die at any time
after it started its wrapper (`BridgeGone`), before the marker as well; the wrapper writes it all
the same (`Mark`). `marked` remembers who had the lease then. `assert_stopped` is modelled for
an instance that declares no process patterns, the default: only the marker stops it.

### RetainingStore

The promise in one sentence: the manager fills an empty destination, puts an
image aside, or puts one it had set aside back, and nothing else. `kept` maps to
all `old-i` and `rolled-back-i` at once.

### ClientDlls

`apply` is a loop over declared keys that backs up (`BackUp`), a loop over keys
no longer declared that plans restoring (`Restore`), the manifest with both
(`WriteIntent`), the transaction (`Commence`, `Install`, `InstallFails`), the
removals, the pruned manifest and the dropped backups. The transaction is one step here with every
partial outcome it can have: `ManagerTransaction` shows what those are. A
reader is a native launch, which holds the lease until the game is over, or a
Lutris gate, which holds nothing: to the others a gate that reinstalls is an outsider
(`Touch`). `leftover` marks keys managed over a backup left from an earlier time, until the
transaction displaces the newer file; `stale` marks keys whose copy a reassert renamed over an
original that no backup stands for: one of those, or one just given back.

### LibrarySession

| code | here |
|---|---|
| `session::Journal`, `Completion`, request, evidence | `journal`, `receipt`, `request`, `evidence` |
| `mutation.lock`, `observer.lock` | `mutex`, `observer` |
| `play_prepared` | `Play`, `StartDeploy`, `Deploy`, `CaptureOutgoing`, `MarkSwitch`, `ReplaceSaves`, `SetActive`, `Launch`, `Spawn`, `Waited` |
| store hook and `wrap` | `RequestStore`, then `Play` with the journal in `AwaitingStore` |
| `change_profile`, `restore_saves` | `SaveOperation`, the same middle, `CommitSaveOperation` |
| `complete_session` | `CaptureSession`, `Complete`, `Analysed` |
| `finish`, `recover` | `Finish`, `Recover`, `RestorePreparation`, `Recovered` |
| `process::supervise` | `SupervisorLocks` to `Reaped`, with `ReportFails`, `StartFails` |
| `complete_observed` | `WorkerLeaves` to `WorkerGivesUp` |
| locks dropped, power cut | `HolderDies`, `SupervisorDies`, `WorkerDies`, `Restart` |

A version of saves is the profile it belongs to and a number. A vault is the set of snapshots
ever captured on the profile's branch, because a branch that is reset leaves its
commits reachable by id, and `head` is the branch itself. `Mixed` is a save
directory, or an installation, between two file copies. `Finish(TRUE)` is a user who
confirms that no game runs and is right.

Left out of this module: the manager's marker (it is in `ManagerTransaction`),
`modde save capture --profile` of any profile the user names, which captures what is in place,
store sessions without an observer, the systemd unit check and the sandboxed
inner observer, the experiment stack a transition carries, bisect's nested save
journal, legacy journals and the ownership of data directories, launches that
switch or capture nothing, parked saves, and an interruption inside git itself
(a capture is one step, because a commit is visible only when the branch moves).

### WabbajackStaging

| code | here |
|---|---|
| plain file, `.modde-zst`, file in the game | `staged`, `packed`, `game`; `linked` where the first and the last are one inode |
| `_state/archive-batches`, `_state/create-bsa` | `sentinel`, `built` |
| `install_wabbajack` | `Start`, `Reset`, `ResetInterrupted`, `Preflight`, `Validate`, `DeployOver`, `Return` |
| `adopt_existing_staging` | `Adopt`, `AdoptFails` |
| inline pass, `apply_inline_file` | `WriteInline`, `InlineFails`, `InlineOver` |
| `apply_archive_batch`, one of each archive side by side | `StartBatch`, `RefuseBatch`, `Extract`, `ExtractFails`, `Patch`, `PatchFails`, `EndBatch`, `EndBatchFails` |
| collection of errors | `BatchesOver` |
| CreateBSA pass, `compress_eligible_files` | `CreateBsa`, `CreateBsaFails`, `BsaOver`, `Compress`, `CompressOver` |
| `deploy_mo2_to_game`, `link_or_copy`, `materialize_logical_file` | `Deploy` |
| a kill, an error that is returned at once | `Crash` |

Contents are the names the list has for them: two lists that take an output from
the same archive take the same content. `Torn` is a file that was cut, or built from a
cut or missing one; a file created and not yet filled is torn at once. `InPlace`
writes through to the game when the two are linked, `Replace` does not. A batch's
directive indices are the set of its outputs, and the index and name of a BSA are the same in every
list, so that its sentinel survives an update as it does in the code. An output
has one size class (`Eligible`) in all lists and is under `mods/` of an enabled mod,
or in a BSA's temporary directory. The part file of a patch is not kept: it is
removed before it is used. Deploying a truncated compressed file goes on here,
while the decoder may stop there, which is the step `Crash`.

Left out: downloads, trust checks and pruning of archives, the plans for missing
archives, game-file sources, which are linked into staging, two mods that
provide one path, `--skip-validate`, the launcher's configuration, the database, the
name a list gives the temporary directory of a BSA, and power loss (a completed write stays).

### BisectSession

| code | here |
|---|---|
| `bisect_sessions`, `bisect_steps` | `session`, `steps` |
| profile rows, the active one | `profiles`, `active`; candidate `k` belongs to step `k`, `Source` is 0 |
| a running candidate, the Library's receipt | `play` |
| `handle_start` | `Start` |
| `handle_run` | `Run`, `CreateCandidate` or `NameTaken`, `RecordStep`, `Await`, `Launch` |
| `handle_retry` | `Retry`, then `Launch` |
| `complete_session` and `complete_launch` | `GameExits`, `ResumeEnd`, `GradeExit`, `LeaveExit`, `SkipAnalysis` |
| `handle_mark` | `Mark` |
| `complete_and_advance` | `Grade`, `Update`, then `Restore`, `RemoveCandidate`, `CleanupDone` if it ended |
| `handle_abort` | `Abort`, `Restore`, `RemoveCandidate`, `RecordAbort` |
| `next_candidate_with_dependencies` | `FirstHalf`, `Enabled`, `Disabled` |
| an error or a death | `Die` |

Mods are the numbers of their places in the load order; the closure over the suspects,
which the code computes by repeated passes, is the least closed set (`Enabled`). The
culprit and the dependencies are chosen at the start and never change. A verdict is
`Truth`: bad exactly when the culprit is enabled, and bad as well when a candidate
leaves out something an enabled mod needs (`Broken`), since the game then fails for
another reason; a launch may also end with no verdict. A command is refused while a
game runs or a receipt is pending (`Free`), as the command line does for all of them.
Left out: the refusal of games whose saves depend on the mods (sessions are those
started with `--force-save-risk`), how the performance oracle measures, and a
source profile deleted during the session.

### WiringRegistration

| code | here |
|---|---|
| `games/<slug>.yml`, the row in `pga.db`, backups | `yml`, `row`, `kept` |
| a prefix with or without `system.reg` | `prefix` |
| `wiring-runtime.json`; the folders the launcher stored | `record`, `settings` |
| the root lease | `pc[i] # "idle"`: one command per instance |
| the lock on Lutris' directory | `LockDb`, `LockBusy`, `dblock` |
| `select_runner`, `discover_runner` | `Select`, `Discovered` |
| `prepare` of a wiring | `Begin`, `Plan`, `PlanRefused`, `Check` |
| `create_prefix` | `PrefixThere`, `MakePrefix`, `PrefixAppeared`, `Boot` |
| `execute_entry`, its own look, undo | `BeginEntry`, `UpsertFails`, `Undo`, `RemoveNew` |
| `write_yml` | `ReadYml`, `BackUp` or `NothingToBackUp`, `WriteYml` |
| `upsert_pga_row` | `ReadRow`, `UpsertRow` |
| `record_runner`, `verify` | `Record`, `Verify`, `Return` |
| `install_launcher`, `reconcile_launcher_client_dir` | `RunInstaller`, `Reconcile`, `ReconcileFails` |
| a failing call, a kill | `Die` |
| the operator, updates, the launcher, Lutris | `Edit`, `RemovePrefix`, `UpdateRunners`, `LauncherStores`, `LutrisStarts`, `LutrisStops`, `LutrisEdits` |

A yml is what tells two of them apart: whose entry it is, the runner it names, and the
rest of the declaration as one of two texts. Commands differ in the order of their
steps (`First`, `AfterPrefix`, `AfterRecord`): `prepare` records the runner before
it makes the prefix, `apply` after the entry. A partial prefix is refused and never
repaired by a command; the operator removes it. Left out: the validation of the
declaration, `--expect-runner`, observations of `status` other than the runner,
desktop entries, HD patches, journal lines, the launch itself. The client DLLs that
`apply` installs before it verifies are in `ClientDlls` and here only fail or not.
Lutris takes no lock, so every look at its files and every change of them is a step of
its own: the look, the copy and the rename of `write_yml` (`wiring.rs:2493-2503`), the read
and the write of the row, the comparison and the removal of undo. `met` says that Lutris was
started since the command saw it closed. A row that was found and is gone is
not updated, and one that came meanwhile stays in front of the inserted one (`UpsertRow`).

### ProfileDeployment

| code | here |
|---|---|
| `staging`, `staging.bak`, `staging.old` of a profile | `staging`, `bak`, `aside` |
| links in the game | `link`: by entry, the profile whose tree it leads into |
| the enabled mods of a profile | `enabled` |
| `SymlinkFarm::build` | `Farm`: the last enabled mod that provides a path |
| `materialize` | `Clear`, `Create`, `Build`, `Materialized` |
| `deploy_symlinks`, Cyberpunk's `deploy` | `Place`, `Project`, `Projected` |
| `modde deploy`, the GUI's deploy | `Deploy`, `GuiDeploy` |
| `modde hot-deploy` | `HotDeploy` or `HotDeployRecords`, `Patch`, `Patched`, `Refresh`, `Persist` |
| `modde rollback` | `Rollback`, `SetAside` or `RollbackBlocked`, `Restore`, `Discard` |
| an error or a death | `Fail` |
| the GUI's toggle, the user's copy of a tree | `Toggle`, `Preserve` |

A tree maps a path to the mod that provides it, or to 0. What the game sees goes
through both levels (`Seen`): a link into a tree that no longer has the path dangles.
`plugin` is chosen at the start: `"files"` links each path, as most plugins do,
`"roots"` links the first component of each, as Cyberpunk's does, and only that one
accepts hot deploys. `fresh` holds the profiles whose last command ended and that were
not edited since, and `point` is the tree a user preserved; both are ghosts. Nothing in
the code writes `staging.bak`, so `Preserve` is the user. Left out: overrides (a last
mod that is always enabled), hidden files, case folding, the steps after a deploy
(tools, patchers, Wine), targets other than the mod directory, Wabbajack profiles,
the check for a running game, and whether an empty folder stays.

## Runs

| run | instance | states | what it shows |
|---|---|---|---|
| `tx_safety` | 2 transactions with different declarations, one with the lease from the start; a file in the root and a seed in a directory that may be missing; 1 outside write, 1 fault, a launch whose launcher may die | 4.3 M | types; nothing lost; no stale plan carried out; no mutation under a session but by who had the lease when it was marked |
| `tx_outsiders` | 1 transaction, 3 destinations (one a directory tree); 2 outside writes, 2 faults, no launch | 0.28 M | every crash point recoverable; verdicts `committed` and `rolled-back` are true; refinement of `RetainingStore`; the lease always comes back |
| `dll` | 1 key, changing declarations, a native launch, a gate, 1 fault, 2 writes by the vendor's launcher or the user | 4.0 M | manifest and backups agree; no apply loses an original, and a reassert only one without a backup; a finished apply is true; the game starts on the declared copy |
| `session_crash` | 2 symmetric profiles, 1 launch, 2 saves, 3 failures | 0.7 M | saves kept and pure; games prepared; debts remembered; recovery restores |
| `session_again` | 1 profile, 2 launches, 1 failure | 0.28 M | no late supervisor, no session ended under its game (`GameOwned`); `mutation.lock` always comes back |
| `wj_resume` | a list and its update, 5 outputs and a BSA of 3 archives, 2 runs with 5 combinations of options, 1 crash, 1 fault | 0.7 M | a patched file is never torn; what is deployed and hashed is right; after a reset the list is installed |
| `bisect_resume` | 5 mods, any culprit, 4 dependency relations, 5 candidates, 1 relaunch, 2 deaths or unobserved exits | 0.3 M | the culprit is kept; an end that is reported is clean; no candidate is deleted while active; repeating `run` ends the session |
| `wiring_rivals` | 2 instances whose games have one slug, somebody else's entry or none, Lutris and its user at any time, no `--reselect`, 1 change, 1 fault | 1.4 M | nothing taken without `--adopt`; no yml destroyed but in the windows named; success is true |
| `wiring_recovers` | 1 instance with a game and a launcher, all four commands, 2 runners, Lutris touching the game's entry, 1 change, 1 fault | 0.65 M | a repeated command changes nothing; the operator's recovery registers the game |
| `wiring_reselect` | the same without a fault | | violation: `--reselect` is refused when it is needed |
| `deploy` | 2 profiles, 2 mods that meet in a file, a file in a folder and one at the top, both plugins, 1 fault | 1.7 M | the game shows the profile; a restore point is not lost; a deploy recovers |
| `deploy_gui` | 1 profile, 3 files, no fault | | violation: the GUI's deploy ends with the game on the old set |

`PROJECT.json` names the properties of each run and, for each of them, a variant of the
code that breaks it.

### Bounds

Every bound is a constant and stands in a guard, except the files and mods of an
instance, which are its data. *Transactions*: two are
enough for a stale plan, which needs one that plans and one that commits
between; the lease excludes a third from mattering in the commit loop. *Launch*: one at a time,
which is what the lease allows; `WithBridge` switches it off in `tx_outsiders`, whose properties
are about one transaction against what happens to its files.
*Destinations*: two let one be done, or undone, while the other fails; three let
a rollback fail in the middle, with operations before and after it; two share a
missing parent so that only one creates it. *Images*: one original, and one wanted by
each transaction, so that "already as wanted", "someone else's" and "mine" differ. *Outside
writes and faults*: one breaks any single step, two break a step and its
recovery. *Keys*: one. The module's actions take one key at a time and no property of a key
mentions another; what could couple two is the transaction, which is one step with every
partial outcome.
*Vendor versions*: two, so that a backup can be old. *Launches*: two, so that a
late process of the first meets the second. *Failures*: three deaths cut play, its
recovery, and the retry of that recovery. *Saves*: two, so that one can be
captured while a later one is not. *Lists*: a list and
its update, which share an archive, an archive that serves a file and a patch, and a BSA. *Runs of an
installation*: two, so that one meets what the other left. *Suspects*: five, so that
a half is split twice, one half is the larger, and a dependency can lie within a half or
across; five candidates are more than any of these sessions needs. *Deaths of a
bisect command*: two, so that the command that takes up the rest can die as well.
*Rivals*: two instances with one slug; they meet nowhere else. *Runners*: two, so that
a newer one can appear or the recorded one go. *Profiles and mods of a deployment*: two each,
so that one profile's links are under the other's, and a mod wins over another and gives way
again; a file in a folder and one at the top are the two ways an entry is
named. *Faults of a deployment*: one; every command that follows starts from what it left.
The main results of `ManagerTransaction`, `ClientDlls`, `BisectSession`, `ProfileDeployment`,
`WabbajackStaging` and `WiringRegistration` are also proved with no bound.

Symmetry is used for the profiles of `session_crash` only, a run of invariants: no
constant names a particular profile there.

`CHECK_DEADLOCK FALSE` stands in the runs of `ManagerTransaction`, where a behaviour
ends when every transaction has ended and the outsiders' bounds are used, in
those of `LibrarySession` and `WabbajackStaging`, where the player may stop for good,
and in those of `WiringRegistration`, where the operator may. The runs of `ClientDlls`,
`BisectSession` and `ProfileDeployment` check deadlock.

### Fairness

`ManagerTransaction!FairSpec`: weak fairness of each started transaction. It is
a thread of straight code with no wait but the lease, which it only tries
(`try_lock`): a refusal ends it. It says nothing of the game, the user,
failures or crashes, and does not make a transaction begin.

`LibrarySession!FairSpec`: weak fairness of the lease holder, each worker and each
supervisor, which poll and never block forever, and of the game's exit: the
player leaves the game at some time. `play` holds the lease while the game
runs, so without that last assumption nothing gives it back. Nothing forces a
user's command or a failure.

`BisectSession!FairSpec`: weak fairness of a command under way (straight code), of the
completion of a launch, which the worker or the next command takes up, of the game's exit,
and of the player who starts a session, runs its next candidate and marks one that
was not graded. Convergence is about a player who goes on; nothing forces `retry`, `abort`
or a death. `Converges` also allows two other ends: a candidate's name that is taken
(`Orphan`) and a half that the dependencies leave empty (`Stuck`), see Observations.

`WiringRegistration!FairSpec`: weak fairness of each command's steps, and strong fairness
of what an operator does again and again after a failure: closing Lutris, removing a
partial prefix, `onboard prepare --reselect` and `onboard apply --adopt`. Strong, because the
other commands of the instance disable these for a while. It is a
statement about that recovery, not about an operator who does nothing.

`ProfileDeployment!FairSpec`: weak fairness of the command under way. `DeployRecovers` is
about a deploy that has begun, so nothing forces one.

## Findings

`wiring_reselect`: `onboard apply --reselect` is documented to choose a runner again
(`main.rs:109`, and the error of `wiring.rs:1162` tells the operator to pass it).
`prepare` does choose one, and then asks `status` for what blocks it; `status` selects
without `reselect`, so a recorded runner that is gone blocks the command that was to
replace it. `onboard prepare --reselect` works, and `GamesRegister` relies on it.

`deploy_gui`: `gui.md:37` says that Deploy writes the active profile into the game. The GUI
projects the staging tree that the last `modde deploy` built; a mod toggled since then
is not in it. The command line builds the tree first.

## Observations

Read in the code, or found while a property was being stated; the models contain them
where their subject is modelled, and the properties are stated so that they are true
with them.

*Transactions*. `library.rs:1193` presents the durable marker as what blocks manager mutations
after an interruption of the bridge. The wrapper writes it some time after the launcher, which
holds the lease, has started it. A launcher that is killed in between leaves neither lease nor
marker; a transaction passes `assert_stopped`, the wrapper then marks the session and starts the
game without asking who holds the lease, and the two go on side by side, at least where the
instance declares no process patterns. `NoMutationUnderSession` says that this is
the only way: it exempts the transaction that has the lease at the moment of the mark, and nobody
who takes it later.

*Client DLLs*. `wiring.rs:3629` says that readiness observes client-file state that apply
never mutates, and takes no lease; `reassert` reads and rewrites what `apply` installs and
restores, so a gate that read the manifest before `apply` pruned it can put its copy
over the original just restored. `client_dlls.rs:119` says that the first management of a
file backs the original up; but a backup that is there is not overwritten (`:122-124`), and an
apply that died before its manifest leaves one. If the vendor's launcher replaced the file
since, the backup stands for the older file: undeclaring restores that one, the newer survives only
as the transaction's `old-i`, and a reassert that comes before the transaction loses it.
`KeptUnlessStale` shows that these are the only ways an original is lost, and that no apply loses one.

*Wabbajack*. Adoption (`installer/state.rs:74`) writes the sentinel of every batch whose files
exist, while `architecture.md:473` says that interrupted batches are run again whole; files
without a hash are not found torn later. `PatchedNeverTorn` shows that patched files are safe
from it, and `ResetInstalls` that `--reset-staging` is. With `--no-deploy`
(`wabbajack.md:174`) a staged file that is a hard link into the game is still rewritten in place.

*Bisect*. Three things go wrong in the code, and the properties name them. `handle_run` creates the
candidate profile before it records the step (`flow.rs:44`, `:53`) and names it after the number of recorded
steps: after a death in between every later `run` is refused for the name, until the user deletes
the profile, although `cli.md:1521` calls a session resumable (`Orphan`). `troubleshooting.md:247`
says that each step disables half of the suspects: the closure (`bisect.rs:202`) may move all of
that half back; the candidate equals the source, a bad verdict leaves the same suspects, and every
later `run` plans the same candidate (`Stuck`). `troubleshooting.md:249` says that dependents move with their
masters: the closure looks only at suspects, so a mod that was cleared stays enabled while what
it needs is disabled; the game then fails for that reason, and the verdict may clear the culprit
(`Broken`). `Converges` shows that the first two are the only ways for a session not to end, and
`CulpritKept` assumes candidates that are not `Broken`. A `mark` that dies after the
session was completed leaves the cleanup to `abort`.

*Deployment*. Projection replaces a real file of the game at a destination (`fs.rs:163`;
`first-profile.md:208` calls it non-destructive). Nobody creates the `staging.bak` that `rollback`
needs and the documents describe (`first-profile.md:210`, `architecture.md:289`). A `modde deploy` after a rollback
rebuilds the tree that was restored. A `staging.old` that is not empty blocks every later
rollback (`RollbackBlocked`). Links into another profile's tree stay. After a failed hot enable,
`--disable` finds nothing to change. The plugin of Baldur's Gate 3 links folders on a hot deploy and
files on a deploy: a deploy that follows writes through the folder's link into the staging
tree and replaces its files by links to themselves.

*Wiring*. A partial prefix blocks every command until the operator removes it, by design.
That Lutris is closed is checked once, at planning. `wiring.rs:2485` says that the previous yml
is retained under a unique backup name: between the look at the file or its copy (2493, 2499) and the
rename (2500, 2503) Lutris, started since, may write it; that text is replaced and is in no backup. Undo restores
a backup without looking at what
is there now, and removes a new yml after it compared it: what Lutris wrote since is lost. `YmlRetained`
names these windows and shows that there is no other. `GamesRegister`
holds with all of them, because the operator closes Lutris and applies again.

## Proofs

`ManagerTransactionProofs` proves, for every set of transactions, any number of
destinations, images, parents, and any bounds:

- `TypeCorrect`: `Spec => []TypeOK`. Inductive together with `CursorOK` (a step on
  one destination has one), since several actions write at `cur`.
- `Retention`: `Spec => []NothingLost`. The invariant is restated image by image
  (`Found`); each rename only moves an image between `live`, `old` and
  `rolled`, and only into an empty place (`rename_noreplace`). It needs no
  lease: that nothing is lost does not depend on mutual exclusion.
- `NoStalePlan`: `Spec => []NoStaleOverwrite`. This one does. `LeaseOK` (whoever
  revalidates, commits or rolls back holds the lease), `OldEmpty` (nothing
  is set aside before the loop) and `Fresh` (from the last read to the
  displacement, an untouched destination is what was planned) are inductive
  together; `Fresh` holds across another transaction's steps because both would hold the
  lease.
- `OriginalsSurvive` (`OriginalsOnDisk`) and `VerdictsAreTrue` (`VerdictsTrue`), from
  `CommittedIsTrue` (`CommitComplete`) and `RolledBackIsTrue` (`RollbackRestores`). None is inductive: whether an original can be found
  depends on what the call remembers. `BooksOK` relates plan, loop variables, `committed` and
  `pending` at each step; `WhereOK` says, for a planned destination that no outsider
  touched, where its original and its payload are: before its turn (`Ahead`), with
  the original out (`Out`), with the payload in (`In`), a seed that was there (`Skipped`), undone
  (`Back`), or never reached (`Left`). An error anywhere in the loop leaves a state that the
  rollback can undo (`FailKeeps`), and a rollback that stops leaves every original on disk
  (`StopKeeps`). Each action keeps this for its own transaction (one lemma each,
  `OwnKeeps`); the lease keeps the others away (`HolderAlone`, `SameKeeps`). `DirsGone` is the
  part about directories. TLC checked `WhereInv` on the instances of both runs first.
- `SessionOwnsFiles`: `Spec => NoMutationUnderSession`, with no assumption on who dies when. A
  transaction between its last look at the marker and its end, if there is a marker now, is
  the one that had the lease when the marker was written (`SessionOK`): `LeaseOK` says that it
  has the lease, so `Mark` makes it `marked`; whoever asks later is refused, until the session is
  over.

`ManagerTransactionRefinement` proves `Refinement`: `Spec => RetainsEverything`, from the same
`TypeOK` and `CursorOK`. The mapping takes `live` and `writes` as they are and `Kept`, everything
in any `old-i` or `rolled-back-i`, for `kept`. `SlotFilled` and `SlotEmptied` say what one rename
does to `Kept`: filling an empty slot adds its image, emptying one drops it unless another
transaction has the same image. Each action then is one step of `RetainingStore` or changes nothing
there (`StepRefines`).

These assume `PathAssumption`, `ImageAssumption` and `TxnAssumption`, which only
say that the constants have their types and that `Missing`, `Nobody` and `Bridge`
are nobody's.

`ClientDllsProofs` proves, for every set of keys, declarations, launches and gates, and any
bounds, every property of the run `dll`: `DllTypes`, `RecordsHaveBackups`
(`ManifestNamesBackup`), `OriginalsKept` (`KeptUnlessStale`), `ApplyDoes` (`DoneIsTrue`) and
`LaunchRunsOnDeclared` (`LaunchSeesDeclared`). `IInv` says who holds the lease
(`LeaseOK`), how apply's memory stands to the manifest (`AtRest`, `InMemory`) and the manifest to
the backups (`BackupsOK`), what each key's loop has achieved (`DeclaredOK`, `UndeclaredOK`,
`LaunchOK`), and where the original is (`OriginOK`): as long as the key is managed, `Safe`, in the
backup or in staging, or `Held`, in place over a leftover backup, which the transaction that
displaces it makes `Safe`; and `Returned`, in place or in staging, before its backup may go. Only the
last needs the order of the writes; `LaunchOK` is where the lease counts. They assume
`ContentAssumption` and `ProcessAssumption`: the processes differ from each other and from
`Nobody`, `Missing` is no content, and the bounds are numbers.

`BisectSessionProofs` proves, for every number of mods, every set of dependency relations and
any bounds:

- `BisectTypes`: `Spec => []TypeOK`.
- `CulpritStays`: `Spec => []CulpritKept`. A verdict that is recorded was true of the candidate
  it is recorded for (`TrueSteps`, `TruePlay`, `Graded`): that is what lets a completion come
  twice, or late, or be replaced by a `mark`. The culprit is then in the half that the
  verdict keeps (lemma `Halves`: a candidate and its complement partition the suspects).
- `SomethingToSplit`: `Spec => []Undecided`. A session that goes on has two suspects or more.
- `EndsClean`: `Spec => []ReportedEndIsClean`. `Closing` says, for each step of the way to a
  report, what is done already, whichever command took the way up; `Housed` and `Unused`
  relate profiles to steps.
- `StaysActive`: `Spec => NeverDeactivated`. No candidate is deleted while it is active.

The inductive invariant `IInv` is the conjunction of these with `Waits` and `Begun`, which
say what a command under way found when it began. They assume `CountAssumption`,
`RelationAssumption` and `BoundAssumption`, which say that the constants have their types and
that there are two mods. `Undecided` stands in no run.

`ProfileDeploymentProofs` proves, for every set of profiles, mods, paths and folders, and any
number of faults, the three invariants of the run `deploy`:

- `DeploymentTypes`: `Spec => []TypeOK`. A farm is a tree (`FarmType`) because a non-empty set
  of mods has a last one (`MaxIsMember`, from `NatLessThanWellFounded`: no induction); a step
  on a tree finds one (`TreeThere`).
- `RestorePointKept`: `Spec => []PointKept`. `PointOK` adds that a rollback under way has not
  lost `staging.bak` before it moves it, and that a deploy or patch that changes a restored
  tree has given the point up.
- `GameShows`: `Spec => []GameShowsProfile`. `Built` and `FreshOK` follow a tree from one visited path
  to the next until it is the farm; `LinksOK` follows the entries the same way, and says that
  the entries of the shown profile lead into its tree, all but those that a hot deploy has still
  to visit. An entry that a hot deploy does not link again was removed from the farm
  because no file has the name of a folder.

They assume `ConstantsAssumption`, which says that the constants have their types, that `Gone`,
`NoProfile` and `NoTree` are none, and that no path is both a file and a folder of a tree; two
mods that disagree on that make the deploy fail in the code.

`WabbajackStagingProofs` proves, for every set of lists, archives and outputs, and any number of
runs, deaths and faults, the four invariants of the run `wj_resume`:

- `StagingTypes`: `Spec => []TypeOK`. Its last part, that a file of the game linked to staging is
  the staged file, rests on who writes in place (`InPlaceIs`: both change) and who renames
  (`ReplaceIs`: the link is gone).
- `NeverTorn`: `Spec => []PatchedNeverTorn`. `WholeOK` adds that the plain file is there while
  its compressed copy is torn, but for a reset that was interrupted.
- `DeployedAreRight`: `Spec => []HashedAreRight`. After validation nothing writes to staging.
- `ResetDoesAll`: `Spec => []ResetInstalls`. `Phases` says what a strict run with
  `--reset-staging` has achieved when each phase begins and while it lasts: staging, sentinels
  and markers are gone (`Emptied`), then the inline files (`AtInline`), the batches
  (`AtBatches`, archive by archive in `BatchDone`) and the archives built from them (`AtBsa`) are as
  listed, and stay so through compression, validation and deployment (`AllListed`,
  `Reached`). Only here the order of the phases counts: a sentinel that adoption wrote for
  an earlier tree would break `AtBatches`.

`TodoOK` says that what a pass has to do is in the list. They assume `OutputAssumption` and
`OptionAssumption`: the kinds of outputs are disjoint, `Missing` and `Torn` are no contents, and the
bounds are numbers.

`WiringRegistrationProofs` proves, for every set of instances, entries and slugs, and any number
of runners, changes and faults, the five safety properties of the runs `wiring_rivals` and
`wiring_recovers`: `WiringTypes` (`TypeOK`), `DoneIsSo` (`DoneAgrees`), `TakenOverByAdoption`
(`TakenByAdoption`), `YmlKept` (`YmlRetained`) and `RepeatsDoNothing` (`RepeatIsNoOp`).
The invariant is one statement about each instance (`Sound`): which command is at which step
(`JobOK`), that past the lock it has Lutris' directory and knows if Lutris may have run
(`HeldOK`), and what was chosen, planned and written so far is still so (`RunnerOK`, `PrefixOK`,
`OwnedOK`, `WrittenOK`), and that a command about to rename has its copy among the backups, of what
is there unless it met Lutris (`BackupOK`). `StepWithin` says what a command leaves alone: the commands, records and
prefixes of other instances always, and Lutris' files unless it has the lock. With that,
`OthersSound` deals with all the other instances at once, and `OwnStep` has only the one that moves. They
assume `OwnerAssumption`, `NameAssumption` and `BoundAssumption`; that slugs differ within
an instance (`SlugAssumption`) is not needed.

`LibrarySessionProofs` proves, for every set of profiles and any number of runs, saves and
failures, the seven invariants of the runs of `LibrarySession`: `SessionTypes` (`TypeOK`),
`ProgressIsKept` (`ProgressKept`), `VaultIsPure` (`VaultPure`), `GameIsOwned` (`GameOwned`),
`GameIsPrepared` (`GamePrepared`), `DeploymentIsOwed` (`DeploymentOwed`) and `RecoveryPutsBack`
(`RecoveryRestores`). None is inductive alone. `IInv` has these parts, and TLC checked it on
both instances of the runs before it was proved:

- `ShapeOK`: what can be said of any session on disk or in memory from its fields alone, such as
  that one that waits for the store has started no deployment.
- `HolderOK`, `PhaseOK`: what the holder of the lease has in memory is what the journal says, with
  two exceptions: between the capture and the mark it knows the snapshot already, and a `play` that
  waits lets its supervisor write the journal.
- `SupervisorOK`, `RunsOK`: from its check to its last write a supervisor owns the observer's lock
  and the journal is its own. With `HolderOK` this gives `HolderAlone`: whoever holds the lease,
  but for the `play` that waits, holds it with no supervisor at work and no game running. That
  is why the steps of the holder and those of the supervisors can be dealt with apart.
- `EvidenceOK`: a session whose game completed is not one that can be recovered.
- `VaultOK`, `SettledOK`: what is in place is the active profile's, except from the mark to the
  replacement and from there back to it, so a capture can only take what belongs to the branch.
- `HistoryOK`: while no game of the session was started, the journal has the active profile of
  before the operation and, from the mark on, the saves of before it; and the last save of every
  profile is in the vault from then on, because the capture comes before the mark.
- `DeployedOK`: a played phase is reached only over a whole deployment, and recovery owes what it
  does not finish before it clears the journal.

They assume `ConstantAssumption`, `LockAssumption` and `ValueAssumption`: the bounds are
numbers, and `NoProfile`, `NoSession`, `Empty`, `Mixed`, `Nobody` and `Cli` are values of their own.

Only model-checked: liveness (the two `LeaseReturned`, `Converges`, `GamesRegister`,
`DeployRecovers`). Every safety property of a passing run is a theorem. Out of the prover's reach are liveness under
fairness, `ENABLED`, and what a recursive definition computes for every input.

## Not modelled

Formats, command lines, discovery of games, HTTP and the user interface are
validation, parsing and plumbing: their order matters little, and tests reach it. The
direct profile operations and the scheduling half of the download queue have no caller in
the program, so no order of their steps is the program's. What each
component leaves out is in the notes of `PROJECT.json`; a hazard that no
property covers has a note there.

## Plan

Later work, the most important first:

1. `Resolver`: the order as a function, against a reference definition.
2. `SaveVault`: branches, forks, tags, parking.
3. Whole-file stores (instance registry, settings), two gates on one temporary name, and the
   plugin that links folders and files.
