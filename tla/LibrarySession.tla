------------------------- MODULE LibrarySession -------------------------
(***************************************************************************)
(* A Library game session, from the preparation of a profile to the        *)
(* capture of its saves: crates/modde-core/src/library/session.rs and      *)
(* save_transition.rs, crates/modde-cli/src/commands/library.rs and        *)
(* library/process.rs.                                                     *)
(*                                                                         *)
(* A command that changes state holds the mutation lease for as long as it *)
(* runs.  `play` journals every phase, starts a completion worker and a    *)
(* supervisor, and waits; the supervisor owns observer.lock, starts the    *)
(* game and reaps it.  Whoever of `play`, the worker and `finish` gets     *)
(* both locks captures the saves.  Any process may die at any point, and   *)
(* the machine may be restarted.                                           *)
(***************************************************************************)
EXTENDS Integers, FiniteSets

CONSTANTS
    Profile,
    NoProfile,    \* no profile is active
    NoSession,    \* no journal, no receipt
    Empty,        \* a save directory without saves
    Mixed,        \* a save directory, or an installation, that is partly replaced
    Nobody, Cli,
    MaxRuns,      \* bound on launches
    MaxSaves,     \* bound on saves the games write
    MaxCrashes    \* bound on failures, deaths and restarts

ASSUME ConstantAssumption ==
    /\ NoProfile \notin Profile /\ Mixed # Empty /\ Nobody # Cli
    /\ Mixed \notin Profile
    /\ MaxRuns \in Nat /\ MaxSaves \in Nat /\ MaxCrashes \in Nat

ASSUME LockAssumption == Nobody \notin 1..MaxRuns /\ Cli \notin 1..MaxRuns

Run == 1..MaxRuns
Version == [of : Profile, n : 0..MaxSaves]
Save == Version \cup {Empty, Mixed}
Phase == {"Preparing", "SwitchingSaves", "Ready", "Launching", "AwaitingStore",
          "Running", "Exited", "Capturing", "Captured", "SaveCommitted"}
Session == [run : 0..MaxRuns, op : {"play", "switch", "restore"}, phase : Phase,
            profile : Profile, prev : Profile \cup {NoProfile}, snapshot : Save,
            deploy : BOOLEAN, started : BOOLEAN, switched : BOOLEAN,
            observed : BOOLEAN]

\* What a session records next
InPhase(s, ph) == [s EXCEPT !.phase = ph]
DeployStarted(s) == [s EXCEPT !.started = TRUE]
WithSnapshot(s, v) == [s EXCEPT !.snapshot = v]
Switching(s) == [s EXCEPT !.phase = "SwitchingSaves", !.switched = TRUE]
Observed(s) == [s EXCEPT !.observed = TRUE]

ASSUME ValueAssumption == NoSession \notin Session /\ Version \cap {Empty, Mixed} = {}

VARIABLES
    journal,      \* sessions/pending-session.json
    receipt,      \* sessions/pending-completion.json
    request,      \* runs whose request.json is still there
    evidence,     \* evidence.json of each run
    live,         \* the game's save directory
    head, vault,  \* of each profile's branch of the vault: its head, all its snapshots
    active,       \* the active profile
    needs,        \* needs_deploy holds the installation
    deployed,     \* whose mods are in the installation
    mutex,        \* sessions/mutation.lock: Cli, or the run whose worker has it
    observer,     \* observer.lock of each run: free, supervisor, worker, or with mutex
    pc, mine, to, \* the mutex holder: where it is, its session, the saves it puts live
    spc, smine,   \* each supervisor, and the session it read
    wpc,          \* each completion worker
    game,         \* each run's game
    restarted,    \* runs that began before the machine's last restart
    runs, saves, crashes,
    latest,       \* ghost: the last save the game wrote under each profile
    before        \* ghost: the saves and the active profile when the operation began

disk  == <<journal, receipt, request, evidence, needs, deployed>>
store == <<live, head, vault, active>>
locks == <<mutex, observer>>
mem   == <<pc, mine, to>>
procs == <<spc, smine, wpc, game, restarted>>
count == <<runs, saves, crashes>>
ghost == <<latest, before>>
vars  == <<disk, store, locks, mem, procs, count, ghost>>

Preparation == {"Preparing", "SwitchingSaves", "Ready", "SaveCommitted", "AwaitingStore"}
\* Variant: everything before the exit can be recovered
BeforeExit(s) == s # NoSession /\ s.phase \notin {"Exited", "Capturing", "Captured"}

IsPreparation(s) == s # NoSession /\ s.phase \in Preparation

\* load_blocking: the journal, else the receipt
Blocking == IF journal # NoSession THEN journal ELSE receipt

Init ==
    /\ journal = NoSession /\ receipt = NoSession /\ request = {}
    /\ evidence = [r \in Run |-> "none"]
    /\ head = [p \in Profile |-> [of |-> p, n |-> 0]]
    /\ vault = [p \in Profile |-> {head[p]}]
    /\ active \in Profile \cup {NoProfile}
    /\ live = IF active = NoProfile THEN Empty ELSE head[active]
    /\ deployed \in Profile /\ active \in {NoProfile, deployed}
    /\ needs = FALSE
    /\ mutex = Nobody /\ observer = [r \in Run |-> "free"]
    /\ pc = "idle" /\ mine = NoSession /\ to = Empty
    /\ spc = [r \in Run |-> "none"] /\ smine = [r \in Run |-> NoSession]
    /\ wpc = [r \in Run |-> "none"] /\ game = [r \in Run |-> "no"]
    /\ restarted = {} /\ runs = 0 /\ saves = 0 /\ crashes = 0
    /\ latest = head /\ before = [live |-> live, active |-> active]

---------------------------------------------------------------------------
(* Steps of the process that holds the mutation lease *)

At(a, b) == pc = a /\ pc' = b
Advance(s) == journal' = s /\ mine' = s

\* Variant: the lease outlives the command
ReleaseKeepingLease ==
    /\ pc' = "idle" /\ mine' = NoSession /\ to' = Empty /\ mutex' = mutex
    /\ observer' = [r \in Run |-> IF observer[r] = "mutex" THEN "free" ELSE observer[r]]
    /\ wpc' = wpc

\* The process returns or dies, and its locks go with it
Release ==
    /\ pc' = "idle" /\ mine' = NoSession /\ to' = Empty /\ mutex' = Nobody
    /\ observer' = [r \in Run |-> IF observer[r] = "mutex" THEN "free" ELSE observer[r]]
    /\ wpc' = [r \in Run |-> IF mutex = r THEN "gone" ELSE wpc[r]]

\* capture_with_fingerprint: the live saves become the head of p's branch
Capture(p) == /\ head' = [head EXCEPT ![p] = live]
              /\ vault' = [vault EXCEPT ![p] = @ \cup {live}]

Begin(r, p, op, d) ==
    [run |-> r, op |-> op, phase |-> "Preparing", profile |-> p, prev |-> active,
     snapshot |-> Empty, deploy |-> d, started |-> FALSE, switched |-> FALSE,
     observed |-> FALSE]

Acquire(s, at) ==
    /\ mutex = Nobody /\ mutex' = Cli /\ pc' = at
    /\ Advance(s)
    /\ before' = [live |-> live, active |-> active]

\* `play` of a store game whose hook is installed: the wrapper will claim the request
RequestStore(p, d) ==
    /\ mutex = Nobody /\ Blocking = NoSession
    /\ journal' = InPhase(Begin(0, p, "play", d), "AwaitingStore")
    /\ before' = [live |-> live, active |-> active]
    /\ UNCHANGED <<receipt, request, evidence, needs, deployed, store, locks, mem, procs,
                   count, latest>>

\* play_prepared up to its journal: a direct launch, or the store's wrapper, which
\* claims a waiting request or comes on its own
Play(p, d) ==
    /\ receipt = NoSession /\ runs < MaxRuns
    /\ \/ journal = NoSession
       \/ journal # NoSession /\ journal.phase = "AwaitingStore"
             /\ journal.profile = p /\ journal.deploy = d
    /\ needs => d
    /\ Acquire(Begin(runs + 1, p, "play", d), "prepared")
    /\ runs' = runs + 1
    /\ UNCHANGED <<receipt, request, evidence, needs, deployed, store, observer, to, procs,
                   saves, crashes, latest>>

\* change_profile, restore_saves: a save operation without a game
SaveOperation(p, v) ==
    /\ Blocking = NoSession
    /\ \/ /\ v = head[p] /\ Acquire(Begin(0, p, "switch", FALSE), "deployed")
       \/ /\ v \in vault[p] /\ active = p /\ Acquire(Begin(0, p, "restore", FALSE), "deployed")
    /\ to' = v
    /\ UNCHANGED <<receipt, request, evidence, needs, deployed, store, observer, procs,
                   count, latest>>

StartDeploy ==
    /\ At("prepared", IF mine.deploy THEN "deploying" ELSE "deployed")
    /\ IF mine.deploy THEN Advance(DeployStarted(mine))
       ELSE UNCHANGED <<journal, mine>>
    /\ UNCHANGED <<receipt, request, evidence, needs, deployed, store, locks, to, procs,
                   count, ghost>>

Deploy ==
    /\ \/ At("deploying", "replacing mods") /\ deployed' = Mixed
       \/ At("replacing mods", "deployed") /\ deployed' = mine.profile
    /\ UNCHANGED <<journal, receipt, request, evidence, needs, store, locks, mine, to,
                   procs, count, ghost>>

\* Variant: the saves in place are taken to be the profile's
CaptureUnlessActive ==
    /\ pc = "deployed" /\ (active = NoProfile => live = Empty)
    /\ IF mine.op = "play" /\ active # NoProfile
       THEN pc' = "switched" /\ UNCHANGED <<head, vault, mine, to>>
       ELSE /\ pc' = "captured"
            /\ IF active = NoProfile THEN UNCHANGED <<head, vault, mine>>
               ELSE Capture(active) /\ mine' = WithSnapshot(mine, live)
            /\ to' = IF mine.op = "restore" THEN to ELSE head'[mine.profile]
    /\ UNCHANGED <<disk, live, active, locks, procs, count, ghost>>

\* prepare_save_transition captures the outgoing saves before its journal
CaptureOutgoing ==
    /\ pc = "deployed" /\ (active = NoProfile => live = Empty)
    /\ IF mine.op = "play" /\ active = mine.profile
       THEN pc' = "switched" /\ UNCHANGED <<head, vault, mine, to>>
       ELSE /\ pc' = "captured"
            /\ IF active = NoProfile THEN UNCHANGED <<head, vault, mine>>
               ELSE Capture(active) /\ mine' = WithSnapshot(mine, live)
            /\ to' = IF mine.op = "restore" THEN to ELSE head'[mine.profile]
    /\ UNCHANGED <<disk, live, active, locks, procs, count, ghost>>

MarkSwitch ==
    /\ At("captured", "marked")
    /\ Advance(Switching(mine))
    /\ UNCHANGED <<receipt, request, evidence, needs, deployed, store, locks, to, procs,
                   count, ghost>>

\* activate_captured, SaveManager::restore: a restore moves the branch first
ReplaceSaves ==
    /\ \/ /\ At("marked", "replacing saves")
          /\ live' = Mixed /\ head' = [head EXCEPT ![mine.profile] = to]
       \/ At("replacing saves", "replaced") /\ live' = to /\ head' = head
    /\ UNCHANGED <<disk, vault, active, locks, mine, to, procs, count, ghost>>

SetActive ==
    /\ At("replaced", IF mine.op = "play" THEN "switched" ELSE "operated")
    /\ active' = mine.profile
    /\ UNCHANGED <<disk, live, head, vault, locks, mine, to, procs, count, ghost>>

\* The rest of change_profile and restore_saves
CommitSaveOperation ==
    /\ \/ At("operated", "committing") /\ UNCHANGED <<locks, journal, mine, to, wpc>>
             /\ needs' = (needs \/ mine.prev # mine.profile)
       \/ At("committing", "committed") /\ UNCHANGED <<locks, needs, to, wpc>>
             /\ Advance(InPhase(mine, "SaveCommitted"))
       \/ pc = "committed" /\ Release /\ journal' = NoSession /\ UNCHANGED needs
    /\ UNCHANGED <<receipt, request, evidence, deployed, store, spc, smine, game,
                   restarted, count, ghost>>

\* Ready, the deployment debt settled, then the launch intent
Launch ==
    /\ \/ At("switched", "ready") /\ Advance(InPhase(mine, "Ready"))
             /\ UNCHANGED <<needs, request>>
       \/ At("ready", "launching") /\ needs' = (needs /\ ~mine.started)
             /\ UNCHANGED <<journal, mine, request>>
       \/ At("launching", "intended") /\ Advance(InPhase(mine, "Launching"))
             /\ UNCHANGED <<needs, request>>
       \/ At("intended", "requested") /\ request' = request \cup {mine.run}
             /\ UNCHANGED <<journal, mine, needs>>
       \/ At("requested", "observed") /\ Advance(Observed(mine))
             /\ UNCHANGED <<needs, request>>
    /\ UNCHANGED <<receipt, evidence, deployed, store, locks, to, procs, count, ghost>>

Spawn ==
    /\ \/ At("observed", "accompanied")
             /\ wpc' = [wpc EXCEPT ![mine.run] = "polling"] /\ UNCHANGED spc
       \/ At("accompanied", "waiting")
             /\ spc' = [spc EXCEPT ![mine.run] = "starting"] /\ UNCHANGED wpc
    /\ UNCHANGED <<disk, store, locks, mine, to, smine, game, restarted, count, ghost>>

---------------------------------------------------------------------------
(* Exit and capture *)

Completed(r) == evidence[r] \in {"completed", "failed"}

\* Variant: the lock is only looked at
RequireExitLoose(s, confirm) ==
    IF s.observed
    THEN /\ observer[s.run] = "free"
         /\ s.run \in restarted \/ confirm \/ s.phase = "Captured" \/ Completed(s.run)
         /\ observer' = observer
    ELSE (confirm \/ s.phase = "Captured") /\ observer' = observer

\* require_exit; the observer's lock is kept until the session is cleared
RequireExit(s, confirm) ==
    IF s.observed
    THEN /\ observer[s.run] = "free"
         /\ s.run \in restarted \/ confirm \/ s.phase = "Captured" \/ Completed(s.run)
         /\ observer' = [observer EXCEPT ![s.run] = "mutex"]
    ELSE (confirm \/ s.phase = "Captured") /\ observer' = observer

\* Variant: `play` waits for evidence of completion, whatever the supervisor's end
WaitedForEvidence ==
    /\ pc = "waiting" /\ spc[mine.run] = "gone"
    /\ evidence[mine.run] = "completed"
    /\ IF observer[mine.run] = "free"
       THEN /\ RequireExit(mine, FALSE)
            /\ Advance(InPhase(mine, "Exited"))
            /\ pc' = "complete" /\ UNCHANGED <<mutex, to, wpc>>
       ELSE Release /\ journal' = journal
    /\ UNCHANGED <<receipt, request, evidence, needs, deployed, store, spc, smine, game,
                   restarted, count, ghost>>

\* The supervisor of `play` has returned
Waited ==
    /\ pc = "waiting" /\ spc[mine.run] = "gone"
    /\ IF evidence[mine.run] = "completed" /\ observer[mine.run] = "free"
       THEN /\ RequireExit(mine, FALSE)
            /\ Advance(InPhase(mine, "Exited"))
            /\ pc' = "complete" /\ UNCHANGED <<mutex, to, wpc>>
       ELSE Release /\ journal' = journal
    /\ UNCHANGED <<receipt, request, evidence, needs, deployed, store, spc, smine, game,
                   restarted, count, ghost>>

\* Variant: any pending session can be finished
FinishAny(confirm) ==
    /\ mutex = Nobody /\ Blocking # NoSession
    /\ confirm => \A r \in Run : game[r] # "running"
    /\ RequireExit(Blocking, confirm)
    /\ mutex' = Cli /\ pc' = "complete" /\ mine' = Blocking
    /\ UNCHANGED <<disk, store, to, procs, count, ghost>>

\* `library finish`; the user confirms only what is so
Finish(confirm) ==
    /\ mutex = Nobody /\ Blocking # NoSession /\ ~IsPreparation(Blocking)
    /\ confirm => \A r \in Run : game[r] # "running"
    /\ RequireExit(Blocking, confirm)
    /\ mutex' = Cli /\ pc' = "complete" /\ mine' = Blocking
    /\ UNCHANGED <<disk, store, to, procs, count, ghost>>

\* capture_session
CaptureSession ==
    /\ \/ /\ pc = "complete" /\ mine.phase = "Captured" /\ pc' = "receipt"
          /\ UNCHANGED <<journal, mine, head, vault>>
       \/ /\ At("complete", "capturing") /\ mine.phase # "Captured"
          /\ Advance(InPhase(mine, "Capturing")) /\ UNCHANGED <<head, vault>>
       \/ At("capturing", "stored") /\ Capture(mine.profile) /\ UNCHANGED <<journal, mine>>
       \/ At("stored", "receipt") /\ Advance(InPhase(mine, "Captured"))
             /\ UNCHANGED <<head, vault>>
    /\ UNCHANGED <<receipt, request, evidence, needs, deployed, live, active, locks, to,
                   procs, count, ghost>>

\* complete_session: the receipt comes before the journal goes, the analysis last
Complete ==
    /\ \/ At("receipt", "received") /\ receipt' = mine /\ UNCHANGED <<request, journal>>
       \/ At("received", "unrequested") /\ UNCHANGED <<receipt, journal>>
             /\ request' = request \ {mine.run}
       \/ At("unrequested", "analysing") /\ journal' = NoSession
             /\ UNCHANGED <<receipt, request>>
    /\ UNCHANGED <<evidence, needs, deployed, store, locks, mine, to, procs, count, ghost>>

\* The analysis succeeds or is skipped
Analysed ==
    /\ pc = "analysing"
    /\ receipt' = NoSession
    /\ Release
    /\ UNCHANGED <<journal, request, evidence, needs, deployed, store, spc, smine, game,
                   restarted, count, ghost>>

---------------------------------------------------------------------------
(* recover *)

Recover ==
    /\ mutex = Nobody /\ journal # NoSession /\ IsPreparation(journal)
    /\ mutex' = Cli /\ mine' = journal
    /\ pc' = IF journal.phase = "SaveCommitted" \/ ~journal.switched
             THEN "restored" ELSE "restoring"
    /\ UNCHANGED <<disk, store, observer, to, procs, count, ghost>>

\* Variant: the head of the branch instead of the snapshot
RestoreHead ==
    /\ \/ /\ At("restoring", "restoring saves") /\ live' = Mixed
          /\ UNCHANGED <<head, active>>
       \/ /\ At("restoring saves", "activating")
          /\ live' = IF mine.prev = NoProfile THEN Empty ELSE head[mine.prev]
          /\ UNCHANGED <<head, active>>
       \/ /\ At("activating", "restored") /\ active' = mine.prev
          /\ UNCHANGED <<head, live>>
    /\ UNCHANGED <<disk, vault, locks, mine, to, procs, count, ghost>>

\* restore_preparation: the immutable snapshot, whose branch it resets
RestorePreparation ==
    /\ \/ /\ At("restoring", "restoring saves") /\ live' = Mixed
          /\ head' = IF mine.prev = NoProfile THEN head
                     ELSE [head EXCEPT ![mine.prev] = mine.snapshot]
          /\ UNCHANGED active
       \/ /\ At("restoring saves", "activating") /\ live' = mine.snapshot
          /\ UNCHANGED <<head, active>>
       \/ /\ At("activating", "restored") /\ active' = mine.prev
          /\ UNCHANGED <<head, live>>
    /\ UNCHANGED <<disk, vault, locks, mine, to, procs, count, ghost>>

\* Variant: the deployment debt is forgotten
RecoveredForgetful ==
    /\ \/ At("restored", "clearing") /\ UNCHANGED <<locks, journal, mine, to, wpc>>
             /\ request' = IF mine.observed THEN request \ {mine.run} ELSE request
       \/ pc = "clearing" /\ Release /\ journal' = NoSession /\ UNCHANGED request
    /\ UNCHANGED <<receipt, evidence, needs, deployed, store, spc, smine, game, restarted,
                   count, ghost>>

Recovered ==
    /\ \/ At("restored", "owing") /\ UNCHANGED <<locks, journal, request, mine, to, wpc>>
             /\ needs' = (needs \/ mine.started)
       \/ At("owing", "clearing") /\ UNCHANGED <<locks, journal, needs, mine, to, wpc>>
             /\ request' = IF mine.observed THEN request \ {mine.run} ELSE request
       \/ pc = "clearing" /\ Release /\ journal' = NoSession /\ UNCHANGED <<needs, request>>
    /\ UNCHANGED <<receipt, evidence, deployed, store, spc, smine, game, restarted, count,
                   ghost>>

---------------------------------------------------------------------------
(* complete_observed: the completion worker *)

WUnchanged == UNCHANGED <<disk, store, to, spc, smine, game, restarted, count, ghost>>
Pinned(r) == Blocking # NoSession /\ Blocking.run = r /\ Blocking.observed
Polling(r) == wpc[r] = "polling" /\ mutex # r
Goto(r, at) == wpc' = [wpc EXCEPT ![r] = at]

\* The session is over, or another one; or the supervisor never came
WorkerLeaves(r) ==
    /\ Polling(r)
    /\ ~Pinned(r) \/ IsPreparation(Blocking) \/ evidence[r] = "none"
    /\ Goto(r, "gone")
    /\ UNCHANGED <<locks, pc, mine>> /\ WUnchanged

\* The evidence is read, and does not tell of a completed game yet
WorkerDoubts(r) ==
    /\ Polling(r) /\ Pinned(r) /\ ~IsPreparation(Blocking)
    /\ evidence[r] \notin {"none", "completed"}
    /\ Goto(r, "doubting")
    /\ UNCHANGED <<locks, pc, mine>> /\ WUnchanged

\* The observer's lock is tried
WorkerProbes(r) ==
    /\ wpc[r] = "doubting"
    /\ IF observer[r] = "free"
       THEN observer' = [observer EXCEPT ![r] = "worker"] /\ Goto(r, "probing")
       ELSE UNCHANGED observer /\ Goto(r, "polling")
    /\ UNCHANGED <<mutex, pc, mine>> /\ WUnchanged

\* "observation stopped without a completed game session"
WorkerBails(r) ==
    /\ wpc[r] = "probing"
    /\ observer' = [observer EXCEPT ![r] = "free"] /\ Goto(r, "bailed")
    /\ UNCHANGED <<mutex, pc, mine>> /\ WUnchanged

\* The game is over: finish the session if both locks are to be had
WorkerFinishes(r) ==
    /\ Polling(r) /\ Pinned(r) /\ evidence[r] = "completed"
    /\ mutex = Nobody
    /\ IF IsPreparation(Blocking) THEN Goto(r, "gone") /\ UNCHANGED <<locks, pc, mine>>
       ELSE /\ RequireExit(Blocking, FALSE)
            /\ mutex' = r /\ pc' = "complete" /\ mine' = Blocking /\ UNCHANGED wpc
    /\ WUnchanged

\* Someone else has the observer's lock for thirty seconds
WorkerGivesUp(r) ==
    /\ Polling(r) /\ Pinned(r) /\ evidence[r] = "completed"
    /\ mutex = Nobody /\ observer[r] # "free"
    /\ Goto(r, "gone")
    /\ UNCHANGED <<locks, pc, mine>> /\ WUnchanged

---------------------------------------------------------------------------
(* supervise *)

SUnchanged == UNCHANGED <<receipt, needs, deployed, store, mutex, mem, wpc, restarted,
                          count, ghost>>
SGoto(r, a, b) == spc[r] = a /\ spc' = [spc EXCEPT ![r] = b]

SupervisorLocks(r) ==
    /\ IF observer[r] = "free"
       THEN SGoto(r, "starting", "locked")
            /\ observer' = [observer EXCEPT ![r] = "supervisor"]
       ELSE SGoto(r, "starting", "gone") /\ UNCHANGED observer
    /\ UNCHANGED <<journal, request, evidence, smine, game>> /\ SUnchanged

\* The request and the journal must still be those of this launch, and unconsumed
Owns(r) == /\ r \in request /\ journal # NoSession
           /\ journal.phase = "Launching" /\ journal.run = r /\ journal.observed
           /\ evidence[r] = "none"

SupervisorChecks(r) ==
    /\ IF Owns(r)
       THEN SGoto(r, "locked", "checked") /\ smine' = [smine EXCEPT ![r] = journal]
            /\ UNCHANGED observer
       ELSE SGoto(r, "locked", "gone") /\ observer' = [observer EXCEPT ![r] = "free"]
            /\ UNCHANGED smine
    /\ UNCHANGED <<journal, request, evidence, game>> /\ SUnchanged

Consume(r) ==
    /\ \/ SGoto(r, "checked", "consuming") /\ evidence' = [evidence EXCEPT ![r] = "begun"]
             /\ UNCHANGED request
       \/ SGoto(r, "consuming", "spawning") /\ request' = request \ {r}
             /\ UNCHANGED evidence
    /\ UNCHANGED <<journal, observer, smine, game>> /\ SUnchanged

\* The game starts; the evidence and then the journal say so, unless they cannot
StartGame(r) ==
    /\ \/ SGoto(r, "spawning", "reporting") /\ game' = [game EXCEPT ![r] = "running"]
             /\ UNCHANGED <<evidence, journal>>
       \/ SGoto(r, "reporting", "journalling")
             /\ evidence' = [evidence EXCEPT ![r] = "started"] /\ UNCHANGED <<game, journal>>
       \/ SGoto(r, "journalling", "reaping")
             /\ journal' = InPhase(smine[r], "Running")
             /\ UNCHANGED <<game, evidence>>
    /\ UNCHANGED <<request, observer, smine>> /\ SUnchanged

ReportFails(r) ==
    /\ SGoto(r, "reporting", "reaping") \/ SGoto(r, "journalling", "reaping")
    /\ crashes < MaxCrashes /\ crashes' = crashes + 1
    /\ UNCHANGED <<disk, store, locks, mem, smine, wpc, game, restarted, runs, saves, ghost>>

\* The game does not start: the evidence, then Ready, which `recover` takes up
StartFails(r) ==
    /\ \/ SGoto(r, "spawning", "failing") /\ evidence' = [evidence EXCEPT ![r] = "failed"]
             /\ UNCHANGED <<journal, observer>>
       \/ SGoto(r, "failing", "gone") /\ journal' = InPhase(smine[r], "Ready")
             /\ observer' = [observer EXCEPT ![r] = "free"] /\ UNCHANGED evidence
    /\ UNCHANGED <<request, smine, game>> /\ SUnchanged

\* Every descendant is reaped
Reaped(r) ==
    /\ game[r] = "over"
    /\ \/ SGoto(r, "reaping", "recording")
             /\ evidence' = [evidence EXCEPT ![r] = "completed"] /\ UNCHANGED observer
       \/ SGoto(r, "recording", "gone")
             /\ observer' = [observer EXCEPT ![r] = "free"] /\ UNCHANGED evidence
    /\ UNCHANGED <<journal, request, smine, game>> /\ SUnchanged

---------------------------------------------------------------------------
(* The game, and what goes wrong *)

GameSaves(r) ==
    /\ game[r] = "running" /\ saves < MaxSaves /\ live \in Version
    /\ saves' = saves + 1
    /\ live' = [live EXCEPT !.n = saves + 1]
    /\ latest' = [latest EXCEPT ![live.of] = live']
    /\ UNCHANGED <<disk, head, vault, active, locks, mem, procs, runs, crashes, before>>

GameExits(r) ==
    /\ game[r] = "running" /\ game' = [game EXCEPT ![r] = "over"]
    /\ UNCHANGED <<disk, store, locks, mem, spc, smine, wpc, restarted, count, ghost>>

Crash == crashes < MaxCrashes /\ crashes' = crashes + 1 /\ UNCHANGED <<runs, saves>>

\* The holder of the mutation lease fails or dies
HolderDies ==
    /\ mutex # Nobody /\ Release /\ Crash
    /\ UNCHANGED <<disk, store, spc, smine, game, restarted, ghost>>

\* The game goes on without its supervisor
SupervisorDies(r) ==
    /\ spc[r] \notin {"none", "gone"} /\ spc' = [spc EXCEPT ![r] = "gone"]
    /\ observer' = [observer EXCEPT ![r] = IF @ = "supervisor" THEN "free" ELSE @]
    /\ Crash
    /\ UNCHANGED <<disk, store, mutex, mem, smine, wpc, game, restarted, ghost>>

WorkerDies(r) ==
    /\ wpc[r] \in {"polling", "doubting", "probing"} /\ mutex # r /\ Goto(r, "gone")
    /\ observer' = [observer EXCEPT ![r] = IF @ = "worker" THEN "free" ELSE @]
    /\ Crash
    /\ UNCHANGED <<disk, store, mutex, mem, spc, smine, game, restarted, ghost>>

Restart ==
    /\ Crash
    /\ restarted' = 1..runs
    /\ mutex' = Nobody /\ observer' = [r \in Run |-> "free"]
    /\ pc' = "idle" /\ mine' = NoSession /\ to' = Empty
    /\ spc' = [r \in Run |-> IF spc[r] = "none" THEN "none" ELSE "gone"]
    /\ wpc' = [r \in Run |-> IF wpc[r] = "none" THEN "none" ELSE "gone"]
    /\ game' = [r \in Run |-> IF game[r] = "no" THEN "no" ELSE "over"]
    /\ UNCHANGED <<disk, store, smine, ghost>>

---------------------------------------------------------------------------
Holder ==
    \/ StartDeploy \/ Deploy \/ CaptureOutgoing \/ MarkSwitch \/ ReplaceSaves \/ SetActive
    \/ CommitSaveOperation \/ Launch \/ Spawn \/ Waited \/ CaptureSession \/ Complete
    \/ Analysed \/ RestorePreparation \/ Recovered

User ==
    \/ \E p \in Profile, d \in BOOLEAN : RequestStore(p, d) \/ Play(p, d)
    \/ \E p \in Profile : \E v \in vault[p] : SaveOperation(p, v)
    \/ \E confirm \in BOOLEAN : Finish(confirm)
    \/ Recover

Worker(r) == WorkerLeaves(r) \/ WorkerDoubts(r) \/ WorkerProbes(r) \/ WorkerBails(r)
             \/ WorkerFinishes(r) \/ WorkerGivesUp(r)

Supervisor(r) == SupervisorLocks(r) \/ SupervisorChecks(r) \/ Consume(r) \/ StartGame(r)
                 \/ StartFails(r) \/ Reaped(r)

Game(r) == GameSaves(r) \/ GameExits(r)

Failure == HolderDies \/ Restart \/ \E r \in Run : ReportFails(r) \/ SupervisorDies(r)
                                                   \/ WorkerDies(r)

Next == Holder \/ User \/ Failure \/ \E r \in Run : Worker(r) \/ Supervisor(r) \/ Game(r)

Spec == Init /\ [][Next]_vars

\* Every process runs on; the player leaves the game at some time
FairSpec ==
    /\ Spec /\ WF_vars(Holder)
    /\ \A r \in Run : WF_vars(Worker(r)) /\ WF_vars(Supervisor(r)) /\ WF_vars(GameExits(r))

---------------------------------------------------------------------------
(* Properties *)

TypeOK ==
    /\ {journal, receipt, mine} \subseteq Session \cup {NoSession}
    /\ smine \in [Run -> Session \cup {NoSession}]
    /\ request \subseteq Run /\ restarted \subseteq Run
    /\ evidence \in [Run -> {"none", "begun", "started", "completed", "failed"}]
    /\ {live, to, before.live} \subseteq Save
    /\ head \in [Profile -> Save] /\ vault \in [Profile -> SUBSET Save]
    /\ {active, before.active} \subseteq Profile \cup {NoProfile}
    /\ needs \in BOOLEAN /\ deployed \in Profile \cup {Mixed}
    /\ mutex \in {Nobody, Cli} \cup Run
    /\ observer \in [Run -> {"free", "supervisor", "worker", "mutex"}]
    /\ (pc = "idle") = (mutex = Nobody)
    /\ spc \in [Run -> {"none", "starting", "locked", "checked", "consuming", "spawning",
                       "reporting", "journalling", "reaping", "recording", "failing", "gone"}]
    /\ wpc \in [Run -> {"none", "polling", "doubting", "probing", "bailed", "gone"}]
    /\ game \in [Run -> {"no", "running", "over"}]
    /\ runs \in 0..MaxRuns /\ saves \in 0..MaxSaves /\ crashes \in 0..MaxCrashes
    /\ latest \in [Profile -> Version]

\* What the player last saved under a profile is in the profile's vault or still in
\* the save directory, whatever is interrupted and however it is taken up again.
ProgressKept == \A p \in Profile : latest[p] \in vault[p] \cup {live}

\* A partly replaced save directory, or another profile's saves, are never captured
\* into a profile's branch.
VaultPure == \A p \in Profile : \A v \in vault[p] : v \in Version /\ v.of = p

\* A running game is the one of the journal, in a phase that lets nobody recover it:
\* late supervisors start nothing, and nobody ends a session under a game, even one
\* whose supervisor has died.
GameOwned ==
    \A r \in Run : game[r] = "running" =>
        journal # NoSession /\ journal.run = r /\ ~IsPreparation(journal)

\* A game runs on the saves of the active profile and on a whole deployment.
GamePrepared ==
    \A r \in Run : game[r] = "running" =>
        /\ live \in Version /\ live.of = active /\ active = journal.profile
        /\ deployed # Mixed

\* An interrupted deployment is owed: the journal or needs_deploy remembers it.
DeploymentOwed ==
    deployed = Mixed => needs \/ (journal # NoSession /\ journal.started)

\* Recovery that is about to clear the journal has put back the saves and the active
\* profile of before the operation, unless the operation had committed.
RecoveryRestores ==
    pc \in {"restored", "owing", "clearing"} /\ mine.phase # "SaveCommitted" =>
        live = before.live /\ active = before.active

\* The mutation lease is always returned: by `play` after any end of the supervisor,
\* by the worker, by `finish` and by `recover`.
LeaseReturned == mutex # Nobody ~> mutex = Nobody
=========================================================================
