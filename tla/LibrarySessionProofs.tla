----------------------- MODULE LibrarySessionProofs -----------------------
(***************************************************************************)
(* Proofs about LibrarySession, for every set of profiles and any number   *)
(* of runs, saves, failures, deaths and restarts.                          *)
(***************************************************************************)
EXTENDS LibrarySession, TLAPS

---------------------------------------------------------------------------
(* The parts of the inductive invariant *)

PreparePC == {"prepared", "deploying", "replacing mods", "deployed", "captured", "marked",
              "replacing saves", "replaced", "switched", "operated", "committing",
              "committed", "ready", "launching", "intended", "requested", "observed",
              "accompanied"}
FinishPC == {"complete", "capturing", "stored", "receipt", "received", "unrequested",
             "analysing"}
RecoverPC == {"restoring", "restoring saves", "activating", "restored", "owing", "clearing"}
OwnPC == {"checked", "consuming", "spawning", "reporting", "journalling", "failing"}
Launched == {"Launching", "Running"}
Played == {"Launching", "Running", "Exited", "Capturing", "Captured"}

\* The same session, up to its phase and its snapshot
Same(s, t) ==
    /\ s.run = t.run /\ s.op = t.op /\ s.profile = t.profile /\ s.prev = t.prev
    /\ s.started = t.started /\ s.switched = t.switched /\ s.observed = t.observed

\* What every session on disk and in memory satisfies
Shape(s) ==
    /\ s.phase \in {"Preparing", "AwaitingStore"} => ~s.switched
    /\ s.phase = "SwitchingSaves" => s.switched
    /\ s.phase = "AwaitingStore" => ~s.started /\ s.run = 0
    /\ s.phase \in Played => s.run \in Run
    /\ s.op # "play" => s.run = 0 /\ ~s.started
    /\ s.observed => s.run \in Run
    /\ s.run <= runs

ShapeOK ==
    /\ journal # NoSession => Shape(journal)
    /\ mine # NoSession => Shape(mine)
    /\ receipt # NoSession => Shape(receipt) /\ receipt.phase = "Captured"

\* Runs that have not begun, and runs of before the restart
RunsOK ==
    \A r \in Run :
        /\ r > runs => spc[r] = "none" /\ game[r] = "no" /\ evidence[r] = "none"
        /\ r \in restarted => r <= runs /\ spc[r] \in {"none", "gone"} /\ game[r] # "running"

SupervisorOK ==
    \A r \in Run :
        /\ spc[r] \in {"none", "starting", "locked", "checked"} =>
               evidence[r] = "none" /\ game[r] = "no"
        /\ spc[r] \in {"consuming", "spawning"} => evidence[r] = "begun" /\ game[r] = "no"
        /\ spc[r] = "failing" => evidence[r] = "failed" /\ game[r] = "no"
        /\ game[r] = "running" => evidence[r] \in {"begun", "started"}
        /\ spc[r] \in {"reporting", "journalling", "reaping"} =>
               evidence[r] \in {"begun", "started"}
        /\ spc[r] \in OwnPC \cup {"locked", "reaping", "recording"} => observer[r] = "supervisor"
        /\ spc[r] \in OwnPC => /\ smine[r] = journal /\ journal # NoSession
                               /\ journal.phase = "Launching" /\ journal.run = r
                               /\ journal.observed
        /\ spc[r] \in {"reaping", "recording"} \/ game[r] = "running" =>
               /\ journal # NoSession /\ journal.phase \in Launched /\ journal.run = r
               /\ journal.observed
        /\ wpc[r] = "probing" => observer[r] = "worker"

\* No supervisor has the journal's session, and no game runs
Silent == \A r \in Run : spc[r] \notin OwnPC \cup {"reaping", "recording"} /\ game[r] # "running"

\* A game that completed is not of a session that can be recovered
EvidenceOK ==
    \A r \in Run : evidence[r] = "completed" /\ journal # NoSession /\ journal.run = r =>
                      journal.phase \in Played

\* The holder of the lease, its session and the journal
HolderOK ==
    /\ pc \in {"idle", "waiting"} \cup PreparePC \cup FinishPC \cup RecoverPC
    /\ (pc = "idle") = (mine = NoSession)
    /\ pc \in PreparePC \ {"captured"} => journal = mine
    /\ pc \in {"captured", "waiting"} => journal # NoSession /\ Same(journal, mine)
    /\ pc = "captured" => journal.phase = "Preparing"
    /\ pc = "waiting" => journal.snapshot = mine.snapshot
                         /\ journal.phase \in Launched \cup {"Ready"}
    /\ pc \in RecoverPC => journal = mine /\ mine.phase \in Preparation
    /\ pc \in FinishPC => /\ journal = mine \/ (journal = NoSession /\ mine.phase = "Captured")
                          /\ mine.phase \in Played
                          /\ mine.observed => observer[mine.run] = "mutex" \/ pc = "analysing"
                          /\ \A r \in Run : game[r] # "running"
    /\ pc = "analysing" => journal = NoSession
    /\ pc \in PreparePC \cup {"waiting"} =>
           /\ (mine.op = "play") = (mine.run \in Run)
           /\ mine.run \in Run => /\ mine.run = runs /\ mine.run \notin restarted
                                  /\ pc # "waiting" => spc[mine.run] = "none"

\* Where the holder is in the session's phases
PhaseOK ==
    /\ pc \in {"prepared", "deploying", "replacing mods", "deployed", "captured"} =>
           mine.phase = "Preparing"
    /\ pc \in {"marked", "replacing saves", "replaced", "operated", "committing"} =>
           mine.phase = "SwitchingSaves"
    /\ pc = "switched" => mine.phase \in {"Preparing", "SwitchingSaves"}
    /\ pc \in {"ready", "launching"} => mine.phase = "Ready"
    /\ pc \in {"intended", "requested", "observed", "accompanied", "waiting"} =>
           mine.phase = "Launching"
    /\ pc = "committed" => mine.phase = "SaveCommitted"
    /\ pc \in {"capturing", "stored"} => mine.phase = "Capturing"
    /\ pc \in {"receipt", "received", "unrequested", "analysing"} => mine.phase = "Captured"
    /\ pc \in {"prepared", "deploying", "replacing mods", "switched", "ready", "launching",
               "intended", "requested", "observed", "accompanied", "waiting"} =>
           mine.op = "play"
    /\ pc \in {"operated", "committing", "committed"} => mine.op # "play"
    /\ pc \in {"restoring", "restoring saves", "activating"} => mine.switched
                  /\ mine.phase # "SaveCommitted"
    /\ pc \in {"deploying", "replacing mods"} => mine.started

\* The vault: immutable snapshots, each of its own profile, and every head one of them
VaultOK == /\ VaultPure
           /\ \A p \in Profile : head[p] \in vault[p]
           /\ pc \in {"captured", "marked", "replacing saves", "replaced"} =>
                  to \in vault[mine.profile]
           /\ pc = "deployed" /\ mine.op = "restore" => to \in vault[mine.profile]

\* No game of the journal's session has been started
Unplayed == /\ journal # NoSession
            /\ \/ journal.phase \in Preparation
               \/ journal.phase = "Launching" /\ game[journal.run] = "no"

Snapshot(s) == \/ s.prev = NoProfile /\ s.snapshot = Empty
               \/ s.prev # NoProfile /\ s.snapshot \in vault[s.prev]

BeforeOK ==
    /\ journal # NoSession => journal.prev = before.active
    /\ journal # NoSession /\ journal.switched => Snapshot(journal)
                                                  /\ journal.snapshot = before.live
    /\ pc \in {"prepared", "deploying", "replacing mods", "deployed"} => mine.snapshot = Empty
    /\ pc = "captured" => Snapshot(mine) /\ mine.snapshot = before.live
    /\ Unplayed /\ ~journal.switched /\ journal.phase # "SaveCommitted" =>
           live = before.live /\ active = before.active

Kept == \A p \in Profile : latest[p] \in vault[p]

KeptOK == /\ ProgressKept
          /\ \A p \in Profile : latest[p].of = p
          /\ Unplayed /\ journal.switched => Kept
          /\ pc = "captured" => Kept

\* What the session and the vault remember of the operation's beginning
HistoryOK == BeforeOK /\ KeptOK

\* The saves in place are those of the active profile
Settled == \/ active = NoProfile /\ live = Empty
           \/ active # NoProfile /\ live \in Version /\ live.of = active

SettledOK ==
    /\ journal = NoSession => Settled
    /\ journal # NoSession =>
           Settled \/ (journal.switched /\ journal.phase \in {"SwitchingSaves", "Ready"})
    /\ journal # NoSession /\ journal.phase \in Played => active = journal.profile
    /\ pc \in {"switched", "operated", "committing", "ready", "launching"} =>
           Settled /\ active = mine.profile
    /\ pc = "replaced" => live = to
    /\ pc = "activating" => live = mine.snapshot
    /\ pc \in {"restored", "owing", "clearing"} => Settled

DeployedOK ==
    /\ DeploymentOwed
    /\ journal # NoSession /\ journal.phase \in Played => deployed # Mixed
    /\ pc = "prepared" /\ ~mine.deploy => deployed # Mixed
    /\ pc \in {"deployed", "captured", "marked", "replacing saves", "replaced", "switched",
               "ready", "launching"} /\ mine.op = "play" => deployed # Mixed
    /\ pc \in {"owing", "clearing"} /\ deployed = Mixed => needs

IInv == /\ TypeOK /\ ShapeOK /\ RunsOK /\ SupervisorOK /\ EvidenceOK /\ HolderOK /\ PhaseOK
        /\ VaultOK /\ HistoryOK /\ SettledOK /\ DeployedOK /\ RecoveryRestores
\* Another process, and the journal stays as it is
Bystander(r) ==
    \/ WorkerLeaves(r) \/ WorkerDoubts(r) \/ WorkerProbes(r) \/ WorkerBails(r)
    \/ WorkerGivesUp(r) \/ SupervisorLocks(r) \/ SupervisorChecks(r) \/ Consume(r)
    \/ Reaped(r) \/ ReportFails(r) \/ SupervisorDies(r) \/ WorkerDies(r)

\* The points of the holder that the parts of the invariant speak of
HistoryPC == {"prepared", "deploying", "replacing mods", "deployed", "captured"}
VaultPC == {"deployed", "captured", "marked", "replacing saves", "replaced"}
SettledPC == {"switched", "operated", "committing", "ready", "launching", "replaced",
              "activating", "restored", "owing", "clearing"}
DeployedPC == {"prepared", "deployed", "captured", "marked", "replacing saves", "replaced",
               "switched", "ready", "launching", "owing", "clearing"}
RestoredPC == {"restored", "owing", "clearing"}

---------------------------------------------------------------------------
(* The fields of sessions *)

\* The fields of a session
LEMMA SessionFields ==
    ASSUME NEW s \in Session
    PROVE  /\ s.run \in 0..MaxRuns /\ s.op \in {"play", "switch", "restore"} /\ s.phase \in Phase
           /\ s.profile \in Profile /\ s.prev \in Profile \cup {NoProfile} /\ s.snapshot \in Save
           /\ s.deploy \in BOOLEAN /\ s.started \in BOOLEAN /\ s.switched \in BOOLEAN
           /\ s.observed \in BOOLEAN
BY DEF Session

\* A session in another phase differs in nothing else
LEMMA InPhaseFields ==
    ASSUME NEW s \in Session, NEW ph \in Phase
    PROVE  LET t == InPhase(s, ph)
           IN  /\ t \in Session /\ t.phase = ph /\ t.run = s.run /\ t.op = s.op
               /\ t.profile = s.profile /\ t.prev = s.prev /\ t.snapshot = s.snapshot
               /\ t.deploy = s.deploy /\ t.started = s.started /\ t.switched = s.switched
               /\ t.observed = s.observed
BY DEF Session, InPhase

\* A session whose deployment started differs in nothing else
LEMMA DeployStartedFields ==
    ASSUME NEW s \in Session
    PROVE  LET t == DeployStarted(s)
           IN  /\ t \in Session /\ t.phase = s.phase /\ t.run = s.run /\ t.op = s.op
               /\ t.profile = s.profile /\ t.prev = s.prev /\ t.snapshot = s.snapshot
               /\ t.deploy = s.deploy /\ t.started /\ t.switched = s.switched
               /\ t.observed = s.observed
BY DEF Session, DeployStarted

\* A session with a snapshot differs in nothing else
LEMMA WithSnapshotFields ==
    ASSUME NEW s \in Session, NEW v \in Save
    PROVE  LET t == WithSnapshot(s, v)
           IN  /\ t \in Session /\ t.phase = s.phase /\ t.run = s.run /\ t.op = s.op
               /\ t.profile = s.profile /\ t.prev = s.prev /\ t.snapshot = v
               /\ t.deploy = s.deploy /\ t.started = s.started /\ t.switched = s.switched
               /\ t.observed = s.observed
BY DEF Session, WithSnapshot

\* A session that switches differs in its phase and that it switches
LEMMA SwitchingFields ==
    ASSUME NEW s \in Session
    PROVE  LET t == Switching(s)
           IN  /\ t \in Session /\ t.phase = "SwitchingSaves" /\ t.run = s.run /\ t.op = s.op
               /\ t.profile = s.profile /\ t.prev = s.prev /\ t.snapshot = s.snapshot
               /\ t.deploy = s.deploy /\ t.started = s.started /\ t.switched
               /\ t.observed = s.observed
BY DEF Session, Switching, Phase

\* An observed session differs in nothing else
LEMMA ObservedFields ==
    ASSUME NEW s \in Session
    PROVE  LET t == Observed(s)
           IN  /\ t \in Session /\ t.phase = s.phase /\ t.run = s.run /\ t.op = s.op
               /\ t.profile = s.profile /\ t.prev = s.prev /\ t.snapshot = s.snapshot
               /\ t.deploy = s.deploy /\ t.started = s.started /\ t.switched = s.switched
               /\ t.observed
BY DEF Session, Observed

\* A session that begins
LEMMA BeginFields ==
    ASSUME active \in Profile \cup {NoProfile},
           NEW r \in 0..MaxRuns, NEW p \in Profile, NEW op \in {"play", "switch", "restore"},
           NEW d \in BOOLEAN
    PROVE  LET t == Begin(r, p, op, d)
           IN  /\ t \in Session /\ t.phase = "Preparing" /\ t.run = r /\ t.op = op
               /\ t.profile = p /\ t.prev = active /\ t.snapshot = Empty
               /\ t.deploy = d /\ ~t.started /\ ~t.switched /\ ~t.observed
BY DEF Session, Begin, Phase, Save

---------------------------------------------------------------------------
(* The holder, its session and the supervisors *)

\* What the other processes leave alone
LEMMA Bystanders ==
    ASSUME NEW r \in Run, Bystander(r)
    PROVE  UNCHANGED <<journal, receipt, needs, deployed, live, head, vault, active, pc, mine,
                       to, game, restarted, runs, latest, before>>
BY DEF Bystander, WorkerLeaves, WorkerDoubts, WorkerProbes, WorkerBails, WorkerGivesUp,
   SupervisorLocks, SupervisorChecks, Consume, Reaped, ReportFails, SupervisorDies, WorkerDies,
   WUnchanged, SUnchanged, Crash, disk, store, mem, count, ghost

\* What is recorded is a session again
LEMMA Updates ==
    ASSUME NEW s \in Session
    PROVE  /\ \A ph \in Phase : InPhase(s, ph) \in Session
           /\ \A v \in Save : WithSnapshot(s, v) \in Session
           /\ DeployStarted(s) \in Session /\ Switching(s) \in Session
           /\ Observed(s) \in Session
BY InPhaseFields, DeployStartedFields, WithSnapshotFields, SwitchingFields, ObservedFields

\* Whoever holds the lease has a session
LEMMA MineTyped ==
    ASSUME TypeOK, HolderOK, pc # "idle"
    PROVE  mine \in Session
BY DEF TypeOK, HolderOK

\* That session has the shape of one
LEMMA MineShaped ==
    ASSUME TypeOK, ShapeOK, HolderOK, pc # "idle"
    PROVE  mine \in Session /\ Shape(mine)
BY MineTyped, ValueAssumption DEF ShapeOK, ValueAssumption

\* So has the one of the journal
LEMMA JournalShaped ==
    ASSUME TypeOK, ShapeOK, journal # NoSession
    PROVE  journal \in Session /\ Shape(journal)
BY DEF TypeOK, ShapeOK

\* A launched session keeps its shape from Ready to Captured
LEMMA LaterPhases ==
    ASSUME NEW s \in Session, Shape(s), s.run \in Run
    PROVE  /\ \A ph \in Played \cup {"Ready"} :
                  InPhase(s, ph) \in Session /\ Shape(InPhase(s, ph))
           /\ Observed(s) \in Session /\ Shape(Observed(s))
<1>1. Shape(Observed(s))
  BY ObservedFields DEF Shape
<1>2. ASSUME NEW ph \in Played \cup {"Ready"}
      PROVE  InPhase(s, ph) \in Session /\ Shape(InPhase(s, ph))
  <2>1. ph \in Phase
    BY DEF Played, Phase
  <2> QED
    BY <2>1, InPhaseFields DEF Shape, Played
<1> QED
  BY <1>1, <1>2, Updates

\* So it is as long as the lease is held by anything but a `play` that waits
LEMMA HolderAlone ==
    ASSUME SupervisorOK, HolderOK, pc \notin {"idle", "waiting"}
    PROVE  Silent
<1>1. CASE pc \in PreparePC
  <2>1. \A r \in Run : mine.run = r => spc[r] = "none"
    BY <1>1 DEF HolderOK, PreparePC
  <2>2. journal.run = mine.run
    BY <1>1 DEF HolderOK, Same, PreparePC
  <2> QED
    BY <2>1, <2>2 DEF SupervisorOK, Silent, OwnPC
<1>2. CASE pc \in FinishPC
  BY <1>2 DEF HolderOK, SupervisorOK, Silent, OwnPC, FinishPC
<1>3. CASE pc \in RecoverPC
  BY <1>3 DEF HolderOK, SupervisorOK, Silent, Preparation, Launched
<1> QED
  BY <1>1, <1>2, <1>3 DEF HolderOK

\* A session that is being prepared or is over leaves the supervisors alone
LEMMA JournalFree ==
    ASSUME SupervisorOK, journal = NoSession \/ journal.phase \notin Launched
    PROVE  Silent
BY DEF SupervisorOK, Silent, OwnPC, Launched

\* What can be finished was launched, and is the journal or what is left of it
LEMMA BlockingShaped ==
    ASSUME TypeOK, ShapeOK, Blocking # NoSession, ~IsPreparation(Blocking)
    PROVE  /\ Blocking \in Session /\ Shape(Blocking) /\ Blocking.phase \in Played
           /\ journal = Blocking \/ (journal = NoSession /\ Blocking.phase = "Captured")
<1>1. /\ Blocking \in Session /\ Shape(Blocking)
      /\ journal = Blocking \/ (journal = NoSession /\ Blocking.phase = "Captured")
  BY DEF Blocking, TypeOK, ShapeOK
<1>2. Blocking.phase \in Phase /\ Blocking.phase \notin Preparation
  BY <1>1, SessionFields DEF IsPreparation
<1> QED
  BY <1>1, <1>2 DEF Phase, Preparation, Played

---------------------------------------------------------------------------
(* The types *)

\* Every step keeps the types
LEMMA TypeStep ==
    ASSUME TypeOK, HolderOK, PhaseOK, SupervisorOK, Next
    PROVE  TypeOK'
<1>1. ASSUME StartDeploy PROVE TypeOK'
  <2>1. mine \in Session
    BY <1>1, MineTyped DEF StartDeploy, At
  <2> QED
    BY <1>1, <2>1, Updates DEF StartDeploy, At, Advance, store, locks, procs, count, ghost, TypeOK
<1>2. ASSUME Deploy PROVE TypeOK'
  <2>1. mine \in Session
    BY <1>2, MineTyped DEF Deploy, At
  <2> QED
    BY <1>2, <2>1, SessionFields DEF Deploy, At, store, locks, procs, count, ghost, TypeOK
<1>3. ASSUME CaptureOutgoing PROVE TypeOK'
  <2>1. mine \in Session /\ live \in Save /\ pc # "idle"
    BY <1>3, MineTyped DEF CaptureOutgoing, TypeOK
  <2>2. mine' \in Session
    BY <1>3, <2>1, Updates DEF CaptureOutgoing
  <2>3. head' \in [Profile -> Save] /\ vault' \in [Profile -> SUBSET Save]
    BY <1>3, <2>1 DEF TypeOK, CaptureOutgoing, Capture
  <2>4. to' \in Save /\ pc' # "idle"
    BY <1>3, <2>1, <2>3, SessionFields DEF TypeOK, CaptureOutgoing
  <2> QED
    BY <1>3, <2>2, <2>4 DEF CaptureOutgoing, Capture, disk, locks, procs, count, ghost, TypeOK
<1>4. ASSUME MarkSwitch PROVE TypeOK'
  <2>1. mine \in Session
    BY <1>4, MineTyped DEF MarkSwitch, At
  <2> QED
    BY <1>4, <2>1, Updates DEF MarkSwitch, At, Advance, store, locks, procs, count, ghost, TypeOK
<1>5. ASSUME ReplaceSaves PROVE TypeOK'
  <2>1. mine \in Session
    BY <1>5, MineTyped DEF ReplaceSaves, At
  <2>2. head' \in [Profile -> Save] /\ live' \in Save
    BY <1>5, <2>1, SessionFields DEF TypeOK, ReplaceSaves, Save
  <2> QED
    BY <1>5, <2>2 DEF ReplaceSaves, At, disk, locks, procs, count, ghost, TypeOK
<1>6. ASSUME SetActive PROVE TypeOK'
  <2>1. mine \in Session
    BY <1>6, MineTyped DEF SetActive, At
  <2> QED
    BY <1>6, <2>1, SessionFields DEF SetActive, At, disk, locks, procs, count, ghost, TypeOK
<1>7. ASSUME CommitSaveOperation PROVE TypeOK'
  <2>1. mine \in Session
    BY <1>7, MineTyped DEF CommitSaveOperation, At, Release
  <2>2. needs' \in BOOLEAN
    BY <1>7 DEF TypeOK, CommitSaveOperation
  <2>3. {journal', mine'} \subseteq Session \cup {NoSession}
    BY <1>7, <2>1, Updates DEF TypeOK, CommitSaveOperation, Advance, Release, Phase
  <2> QED
    BY <1>7, <2>2, <2>3 DEF CommitSaveOperation, At, Release, store, locks, count, ghost,
       TypeOK, Save
<1>8. ASSUME Launch PROVE TypeOK'
  <2>1. mine \in Session
    BY <1>8, MineTyped DEF Launch, At
  <2>2. mine.run \in Run
    BY <1>8, <2>1 DEF Launch, At, HolderOK, PhaseOK, PreparePC
  <2>3. needs' \in BOOLEAN
    BY <1>8 DEF TypeOK, Launch
  <2>4. {journal', mine'} \subseteq Session \cup {NoSession}
    BY <1>8, <2>1, Updates DEF TypeOK, Launch, Advance, Phase
  <2>5. request' \subseteq Run
    BY <1>8, <2>2 DEF TypeOK, Launch
  <2> QED
    BY <1>8, <2>4, <2>5 DEF Launch, At, store, locks, procs, count, ghost, TypeOK
<1>9. ASSUME Spawn PROVE TypeOK'
  BY <1>9 DEF Spawn, At, disk, store, locks, count, ghost, TypeOK
<1>10. ASSUME Waited PROVE TypeOK'
  <2>1. mine \in Session
    BY <1>10, MineTyped DEF Waited
  <2>2. InPhase(mine, "Exited") \in Session
    BY <1>10, <2>1, Updates DEF Phase
  <2>3. \/ journal' = InPhase(mine, "Exited") /\ mine' = journal'
        \/ journal' = journal /\ mine' = NoSession
    BY <1>10 DEF Waited, Advance, Release, RequireExit, Completed
  <2>4. {journal', mine'} \subseteq Session \cup {NoSession}
    BY <1>10, <2>2, <2>3 DEF TypeOK
  <2> QED
    BY <1>10, <2>4 DEF Waited, RequireExit, Release, store, count, ghost, TypeOK, Save
<1>11. ASSUME CaptureSession PROVE TypeOK'
  <2>1. mine \in Session
    BY <1>11, MineTyped DEF CaptureSession, At
  <2>2. InPhase(mine, "Capturing") \in Session /\ InPhase(mine, "Captured") \in Session
    BY <1>11, <2>1, Updates DEF Phase
  <2>3. {journal', mine'} \subseteq Session \cup {NoSession}
    BY <1>11, <2>1, <2>2 DEF TypeOK, CaptureSession, Advance
  <2>4. head' \in [Profile -> Save] /\ vault' \in [Profile -> SUBSET Save]
    BY <1>11, <2>1, SessionFields DEF TypeOK, CaptureSession, Capture
  <2> QED
    BY <1>11, <2>3, <2>4 DEF CaptureSession, At, locks, procs, count, ghost, TypeOK
<1>12. ASSUME Complete PROVE TypeOK'
  BY <1>12 DEF Complete, At, store, locks, procs, count, ghost, TypeOK
<1>13. ASSUME Analysed PROVE TypeOK'
  BY <1>13 DEF Analysed, Release, store, count, ghost, TypeOK, Save
<1>14. ASSUME RestorePreparation PROVE TypeOK'
  <2>1. mine \in Session
    BY <1>14, MineTyped DEF RestorePreparation, At
  <2>2. head' \in [Profile -> Save] /\ live' \in Save /\ active' \in Profile \cup {NoProfile}
    BY <1>14, <2>1, SessionFields DEF TypeOK, RestorePreparation, Save
  <2> QED
    BY <1>14, <2>2 DEF RestorePreparation, At, disk, locks, procs, count, ghost, TypeOK
<1>15. ASSUME Recovered PROVE TypeOK'
  <2>1. needs' \in BOOLEAN
    BY <1>15 DEF TypeOK, Recovered
  <2>2. request' \subseteq Run
    BY <1>15 DEF TypeOK, Recovered
  <2> QED
    BY <1>15, <2>1 DEF Recovered, At, Release, store, locks, count, ghost, TypeOK, Save
<1>16. ASSUME NEW p \in Profile, NEW d \in BOOLEAN, RequestStore(p, d) PROVE TypeOK'
  <2>1. journal' \in Session
    BY <1>16, BeginFields, Updates, ConstantAssumption DEF RequestStore, TypeOK, Phase
  <2> QED
    BY <1>16, <2>1 DEF RequestStore, store, locks, mem, procs, count, TypeOK
<1>17. ASSUME NEW p \in Profile, NEW d \in BOOLEAN, Play(p, d) PROVE TypeOK'
  <2>1. runs \in 0..MaxRuns /\ MaxRuns \in Nat /\ runs < MaxRuns
    BY <1>17, ConstantAssumption DEF Play, TypeOK, ConstantAssumption
  <2>2. active \in Profile \cup {NoProfile} /\ runs + 1 \in 0..MaxRuns
    BY <1>17, <2>1 DEF TypeOK
  <2>3. Begin(runs + 1, p, "play", d) \in Session
    BY <1>17, <2>2, BeginFields
  <2>4. /\ journal' \in Session /\ mine' \in Session /\ mutex' = Cli /\ pc' # "idle"
        /\ before' = [live |-> live, active |-> active]
    BY <1>17, <2>3 DEF Play, Acquire, Advance
  <2>5. runs' \in 0..MaxRuns
    BY <1>17, <2>1 DEF Play
  <2>6. before'.live \in Save /\ before'.active \in Profile \cup {NoProfile}
    BY <1>17, <2>4 DEF TypeOK
  <2>7. mutex' \in {Nobody, Cli} \cup Run /\ (pc' = "idle") = (mutex' = Nobody)
    BY <1>17, <2>4, ConstantAssumption DEF ConstantAssumption
  <2> QED
    BY <1>17, <2>4, <2>5, <2>7 DEF Play, store, procs, TypeOK
<1>18. ASSUME NEW p \in Profile, NEW v \in vault[p], SaveOperation(p, v) PROVE TypeOK'
  <2>1. \A op \in {"switch", "restore"} : Begin(0, p, op, FALSE) \in Session
    BY ConstantAssumption DEF TypeOK, Session, Begin, Phase, Save
  <2>2. journal' \in Session /\ mine' \in Session /\ mine' = journal'
    BY <1>18, <2>1 DEF SaveOperation, Acquire, Advance
  <2>3. /\ pc' # "idle" /\ mutex' = Cli /\ to' \in Save
        /\ before' = [live |-> live, active |-> active]
    BY <1>18 DEF SaveOperation, Acquire, TypeOK
  <2> QED
    BY <1>18, <2>2, <2>3, ConstantAssumption DEF SaveOperation, store, procs, count, TypeOK
<1>19. ASSUME NEW confirm \in BOOLEAN, Finish(confirm) PROVE TypeOK'
  BY <1>19, ConstantAssumption DEF Finish, RequireExit, Blocking, disk, store, procs, count,
     ghost, TypeOK
<1>20. ASSUME Recover PROVE TypeOK'
  BY <1>20, ConstantAssumption DEF Recover, disk, store, procs, count, ghost, TypeOK
<1>21. ASSUME NEW r \in Run, WorkerLeaves(r) PROVE TypeOK'
  BY <1>21 DEF WorkerLeaves, Goto, WUnchanged, disk, store, locks, count, ghost, TypeOK
<1>22. ASSUME NEW r \in Run, WorkerDoubts(r) PROVE TypeOK'
  BY <1>22 DEF WorkerDoubts, Goto, WUnchanged, disk, store, locks, count, ghost, TypeOK
<1>23. ASSUME NEW r \in Run, WorkerProbes(r) PROVE TypeOK'
  BY <1>23 DEF WorkerProbes, Goto, WUnchanged, disk, store, count, ghost, TypeOK
<1>24. ASSUME NEW r \in Run, WorkerBails(r) PROVE TypeOK'
  BY <1>24 DEF WorkerBails, Goto, WUnchanged, disk, store, count, ghost, TypeOK
<1>25. ASSUME NEW r \in Run, WorkerFinishes(r) PROVE TypeOK'
  BY <1>25 DEF WorkerFinishes, Polling, Goto, WUnchanged, RequireExit, Blocking, disk, store,
     locks, count, ghost, TypeOK
<1>26. ASSUME NEW r \in Run, WorkerGivesUp(r) PROVE TypeOK'
  BY <1>26 DEF WorkerGivesUp, Goto, WUnchanged, disk, store, locks, count, ghost, TypeOK
<1>27. ASSUME NEW r \in Run, SupervisorLocks(r) PROVE TypeOK'
  BY <1>27 DEF SupervisorLocks, SGoto, SUnchanged, store, mem, count, ghost, TypeOK
<1>28. ASSUME NEW r \in Run, SupervisorChecks(r) PROVE TypeOK'
  <2>1. smine' \in [Run -> Session \cup {NoSession}]
    BY <1>28 DEF SupervisorChecks, TypeOK
  <2> QED
    BY <1>28 DEF SupervisorChecks, SGoto, SUnchanged, store, mem, count, ghost, TypeOK
<1>29. ASSUME NEW r \in Run, Consume(r) PROVE TypeOK'
  BY <1>29 DEF Consume, SGoto, SUnchanged, store, mem, count, ghost, TypeOK
<1>30. ASSUME NEW r \in Run, StartGame(r) PROVE TypeOK'
  <2>1. smine[r] \in Session \/ spc[r] # "journalling"
    BY <1>30 DEF TypeOK, SupervisorOK, OwnPC
  <2>2. journal' \in Session \cup {NoSession}
    BY <1>30, <2>1, Updates DEF StartGame, SGoto, TypeOK, Phase
  <2> QED
    BY <1>30, <2>2 DEF StartGame, SGoto, SUnchanged, store, mem, count, ghost, TypeOK
<1>31. ASSUME NEW r \in Run, StartFails(r) PROVE TypeOK'
  <2>1. smine[r] \in Session \/ spc[r] # "failing"
    BY <1>31 DEF TypeOK, SupervisorOK, OwnPC
  <2>2. journal' \in Session \cup {NoSession}
    BY <1>31, <2>1, Updates DEF StartFails, SGoto, TypeOK, Phase
  <2> QED
    BY <1>31, <2>2 DEF StartFails, SGoto, SUnchanged, store, mem, count, ghost, TypeOK
<1>32. ASSUME NEW r \in Run, Reaped(r) PROVE TypeOK'
  BY <1>32 DEF Reaped, SGoto, SUnchanged, store, mem, count, ghost, TypeOK
<1>33. ASSUME NEW r \in Run, GameSaves(r) PROVE TypeOK'
  <2>1. saves \in 0..MaxSaves /\ MaxSaves \in Nat /\ saves < MaxSaves
    BY <1>33, ConstantAssumption DEF GameSaves, TypeOK, ConstantAssumption
  <2>2. saves' \in 0..MaxSaves /\ saves + 1 \in 0..MaxSaves
    BY <1>33, <2>1 DEF GameSaves
  <2>3. live' \in Version /\ live.of \in Profile
    BY <1>33, <2>2 DEF GameSaves, Version
  <2>4. latest' \in [Profile -> Version]
    BY <1>33, <2>3 DEF GameSaves, TypeOK
  <2> QED
    BY <1>33, <2>2, <2>4 DEF GameSaves, disk, locks, mem, procs, TypeOK, Save
<1>34. ASSUME NEW r \in Run, GameExits(r) PROVE TypeOK'
  BY <1>34 DEF GameExits, disk, store, locks, mem, count, ghost, TypeOK
<1>35. ASSUME HolderDies PROVE TypeOK'
  BY <1>35, ConstantAssumption DEF HolderDies, Release, Crash, disk, store, ghost, TypeOK, Save
<1>36. ASSUME Restart PROVE TypeOK'
  BY <1>36, ConstantAssumption DEF Restart, Crash, disk, store, ghost, TypeOK, Save, Run
<1>37. ASSUME NEW r \in Run, ReportFails(r) PROVE TypeOK'
  BY <1>37, ConstantAssumption DEF ReportFails, SGoto, disk, store, locks, mem, ghost, TypeOK
<1>38. ASSUME NEW r \in Run, SupervisorDies(r) PROVE TypeOK'
  BY <1>38, ConstantAssumption DEF SupervisorDies, Crash, disk, store, mem, ghost, TypeOK
<1>39. ASSUME NEW r \in Run, WorkerDies(r) PROVE TypeOK'
  BY <1>39, ConstantAssumption DEF WorkerDies, Crash, Goto, disk, store, mem, ghost, TypeOK
<1> QED
  BY <1>1, <1>2, <1>3, <1>4, <1>5, <1>6, <1>7, <1>8, <1>9, <1>10, <1>11, <1>12, <1>13, <1>14,
     <1>15, <1>16, <1>17, <1>18, <1>19, <1>20, <1>21, <1>22, <1>23, <1>24, <1>25, <1>26, <1>27,
     <1>28, <1>29, <1>30, <1>31, <1>32, <1>33, <1>34, <1>35, <1>36, <1>37, <1>38, <1>39 DEF
     Next, Holder, User, Failure, Worker, Supervisor, Game

---------------------------------------------------------------------------
(* What a session on disk and in memory satisfies *)

\* Every step keeps the shape of every session
LEMMA ShapeStep ==
    ASSUME TypeOK, ShapeOK, HolderOK, PhaseOK, SupervisorOK, Next
    PROVE  ShapeOK'
<1>1. ASSUME StartDeploy PROVE ShapeOK'
  <2>1. mine \in Session /\ Shape(mine)
    BY <1>1, MineShaped DEF StartDeploy, At
  <2> QED
    BY <1>1, <2>1, DeployStartedFields DEF StartDeploy, At, Advance, count, ShapeOK, Shape,
       PhaseOK
<1>2. ASSUME CaptureOutgoing PROVE ShapeOK'
  <2>1. mine \in Session /\ Shape(mine)
    BY <1>2, MineShaped DEF CaptureOutgoing
  <2>2. live \in Save
    BY <1>2 DEF TypeOK
  <2> QED
    BY <1>2, <2>1, <2>2, WithSnapshotFields DEF CaptureOutgoing, disk, count, ShapeOK, Shape
<1>3. ASSUME MarkSwitch PROVE ShapeOK'
  <2>1. mine \in Session /\ Shape(mine)
    BY <1>3, MineShaped DEF MarkSwitch, At
  <2> QED
    BY <1>3, <2>1, SwitchingFields DEF MarkSwitch, Advance, count, ShapeOK, Shape, Played
<1>4. ASSUME CommitSaveOperation PROVE ShapeOK'
  <2>1. mine \in Session /\ Shape(mine)
    BY <1>4, MineShaped DEF CommitSaveOperation, At, Release
  <2> QED
    BY <1>4, <2>1, InPhaseFields DEF CommitSaveOperation, Advance, Release, count, ShapeOK,
       Shape, Phase, Played
<1>5. ASSUME Launch PROVE ShapeOK'
  <2>1. mine \in Session /\ Shape(mine)
    BY <1>5, MineShaped DEF Launch, At
  <2>2. mine.run \in Run
    BY <1>5 DEF Launch, At, PhaseOK, HolderOK, PreparePC
  <2>3. Shape(Observed(mine)) /\ \A ph \in Played \cup {"Ready"} : Shape(InPhase(mine, ph))
    BY <1>5, <2>1, <2>2, LaterPhases
  <2> QED
    BY <1>5, <2>3 DEF Launch, Advance, count, ShapeOK, Shape, Played
<1>6. ASSUME Waited PROVE ShapeOK'
  <2>1. mine \in Session /\ Shape(mine)
    BY <1>6, MineShaped DEF Waited
  <2>2. mine.run \in Run
    BY <1>6 DEF Waited, PhaseOK, HolderOK
  <2>3. \A ph \in Played \cup {"Ready"} : Shape(InPhase(mine, ph))
    BY <1>6, <2>1, <2>2, LaterPhases
  <2> QED
    BY <1>6, <2>3 DEF Waited, Advance, Release, count, ShapeOK, Shape, Played
<1>7. ASSUME CaptureSession PROVE ShapeOK'
  <2>1. mine \in Session /\ Shape(mine)
    BY <1>7, MineShaped DEF CaptureSession, At
  <2>2. mine.run \in Run
    BY <1>7, <2>1 DEF CaptureSession, At, HolderOK, Shape, FinishPC
  <2>3. \A ph \in Played : Shape(InPhase(mine, ph)) /\ InPhase(mine, ph).phase = ph
    BY <1>7, <2>1, <2>2, LaterPhases, InPhaseFields DEF Played, Phase
  <2> QED
    BY <1>7, <2>3 DEF CaptureSession, Advance, count, ShapeOK, Shape, Played
<1>8. ASSUME Complete PROVE ShapeOK'
  <2>1. mine \in Session /\ Shape(mine)
    BY <1>8, MineShaped DEF Complete, At
  <2> QED
    BY <1>8 DEF Complete, At, count, ShapeOK, Shape, PhaseOK
<1>9. ASSUME Analysed PROVE ShapeOK'
  BY <1>9 DEF Analysed, Release, count, ShapeOK, Shape
<1>10. ASSUME Recovered PROVE ShapeOK'
  BY <1>10 DEF Recovered, Release, count, ShapeOK, Shape
<1>11. ASSUME NEW p \in Profile, NEW d \in BOOLEAN, RequestStore(p, d) PROVE ShapeOK'
  <2>1. journal' \in Session /\ Shape(journal')
    BY <1>11, BeginFields, InPhaseFields, ConstantAssumption DEF RequestStore, TypeOK, Phase,
       Shape, Played
  <2> QED
    BY <1>11, <2>1 DEF RequestStore, mem, count, ShapeOK, Shape
<1>12. ASSUME NEW p \in Profile, NEW d \in BOOLEAN, Play(p, d) PROVE ShapeOK'
  <2>1. runs \in 0..MaxRuns /\ MaxRuns \in Nat /\ runs < MaxRuns
    BY <1>12, ConstantAssumption DEF Play, TypeOK, ConstantAssumption
  <2>2. active \in Profile \cup {NoProfile} /\ runs + 1 \in Run
    BY <1>12, <2>1 DEF TypeOK, Run
  <2>3. LET s == Begin(runs + 1, p, "play", d)
        IN  /\ s.phase = "Preparing" /\ s.op = "play" /\ s.run = runs + 1
            /\ ~s.switched /\ ~s.observed
    BY <1>12, <2>1, <2>2, BeginFields DEF Run
  <2>4. Shape(journal)' /\ mine' = journal' /\ receipt' = receipt /\ receipt = NoSession
    BY <1>12, <2>3 DEF Play, Acquire, Advance, Shape, Played
  <2> QED
    BY <2>4 DEF ShapeOK
<1>13. ASSUME NEW p \in Profile, NEW v \in vault[p], SaveOperation(p, v) PROVE ShapeOK'
  <2>1. active \in Profile \cup {NoProfile} /\ 0 \in 0..MaxRuns /\ runs >= 0
    BY <1>13, ConstantAssumption DEF TypeOK, ConstantAssumption
  <2>2. \E op \in {"switch", "restore"} : journal' = Begin(0, p, op, FALSE) /\ mine' = journal'
    BY <1>13 DEF SaveOperation, Acquire, Advance
  <2>3. /\ journal'.phase = "Preparing" /\ journal'.run = 0 /\ ~journal'.started
        /\ ~journal'.switched /\ ~journal'.observed
    BY <1>13, <2>2 DEF Begin
  <2> QED
    BY <1>13, <2>1, <2>2, <2>3 DEF SaveOperation, count, ShapeOK, Shape, Played
<1>14. ASSUME NEW confirm \in BOOLEAN, Finish(confirm) PROVE ShapeOK'
  BY <1>14 DEF Finish, Blocking, disk, count, ShapeOK, Shape
<1>15. ASSUME Recover PROVE ShapeOK'
  BY <1>15 DEF Recover, disk, count, ShapeOK, Shape
<1>16. ASSUME NEW r \in Run, WorkerFinishes(r) PROVE ShapeOK'
  BY <1>16 DEF WorkerFinishes, WUnchanged, RequireExit, Blocking, disk, count, ShapeOK, Shape
<1>17. ASSUME NEW r \in Run, StartGame(r) PROVE ShapeOK'
  <2>1. spc[r] = "journalling" => smine[r] \in Session /\ Shape(smine[r]) /\ smine[r].run \in Run
    BY <1>17, JournalShaped DEF SupervisorOK, OwnPC
  <2>2. spc[r] = "journalling" => Shape(InPhase(smine[r], "Running"))
    BY <1>17, <2>1, LaterPhases DEF Played
  <2> QED
    BY <1>17, <2>2 DEF StartGame, SGoto, SUnchanged, mem, count, ShapeOK, Shape
<1>18. ASSUME NEW r \in Run, StartFails(r) PROVE ShapeOK'
  <2>1. spc[r] = "failing" => smine[r] \in Session /\ Shape(smine[r]) /\ smine[r].run \in Run
    BY <1>18, JournalShaped DEF SupervisorOK, OwnPC
  <2>2. spc[r] = "failing" => Shape(InPhase(smine[r], "Ready"))
    BY <1>18, <2>1, LaterPhases DEF Played
  <2> QED
    BY <1>18, <2>2 DEF StartFails, SGoto, SUnchanged, mem, count, ShapeOK, Shape
<1>19. ASSUME HolderDies PROVE ShapeOK'
  BY <1>19 DEF HolderDies, Release, Crash, disk, ShapeOK, Shape
<1>20. ASSUME Restart PROVE ShapeOK'
  BY <1>20 DEF Restart, Crash, disk, ShapeOK, Shape
<1>21. ASSUME Deploy \/ ReplaceSaves \/ SetActive \/ Spawn \/ RestorePreparation \/ (\E r
              \in Run : GameSaves(r)) \/ (\E r \in Run : GameExits(r))
       PROVE  ShapeOK'
  <2>1. UNCHANGED <<journal, mine, receipt, runs>>
    BY <1>21 DEF Deploy, ReplaceSaves, SetActive, Spawn, RestorePreparation, GameSaves,
       GameExits, disk, mem, count
  <2> QED
    BY <2>1 DEF ShapeOK, Shape
<1>22. ASSUME NEW r \in Run, Bystander(r) PROVE ShapeOK'
  BY <1>22, Bystanders DEF ShapeOK, Shape
<1> QED
  BY <1>1, <1>2, <1>3, <1>4, <1>5, <1>6, <1>7, <1>8, <1>9, <1>10, <1>11, <1>12, <1>13, <1>14,
     <1>15, <1>16, <1>17, <1>18, <1>19, <1>20, <1>21, <1>22 DEF Next, Holder, User, Failure,
     Worker, Supervisor, Game, Bystander

---------------------------------------------------------------------------
(* Runs that have not begun or are over *)

\* Every step keeps what is known of runs not begun and of runs before a restart
LEMMA RunsStep ==
    ASSUME TypeOK, RunsOK, HolderOK, PhaseOK, SupervisorOK, Next
    PROVE  RunsOK'
<1>1. ASSUME Spawn PROVE RunsOK'
  <2>1. mine.run \in Run /\ mine.run = runs /\ mine.run \notin restarted
    BY <1>1 DEF Spawn, At, HolderOK, PreparePC, PhaseOK
  <2>2. spc' = spc \/ spc' = [spc EXCEPT ![mine.run] = "starting"]
    BY <1>1 DEF Spawn
  <2>3. UNCHANGED <<runs, restarted, game, evidence>>
    BY <1>1 DEF Spawn, disk, count
  <2>4. /\ ~(mine.run > runs)
        /\ DOMAIN spc = Run
    BY <2>1 DEF TypeOK, Run
  <2>5. \A r \in Run : r # mine.run => spc'[r] = spc[r]
    BY <2>2, <2>4
  <2>6. ~(mine.run > runs) /\ mine.run \notin restarted
    BY <2>1, <2>4
  <2> QED
    BY <2>3, <2>5, <2>6 DEF RunsOK
<1>2. ASSUME NEW p \in Profile, NEW d \in BOOLEAN, Play(p, d) PROVE RunsOK'
  BY <1>2 DEF Play, procs, RunsOK, TypeOK, Run
<1>3. ASSUME NEW r \in Run, SupervisorLocks(r) PROVE RunsOK'
  BY <1>3 DEF SupervisorLocks, SGoto, SUnchanged, count, RunsOK, TypeOK
<1>4. ASSUME NEW r \in Run, SupervisorChecks(r) PROVE RunsOK'
  BY <1>4 DEF SupervisorChecks, SGoto, SUnchanged, count, RunsOK, TypeOK
<1>5. ASSUME NEW r \in Run, Consume(r) PROVE RunsOK'
  BY <1>5 DEF Consume, SGoto, SUnchanged, count, RunsOK, TypeOK
<1>6. ASSUME NEW r \in Run, StartGame(r) PROVE RunsOK'
  BY <1>6 DEF StartGame, SGoto, SUnchanged, count, RunsOK, TypeOK
<1>7. ASSUME NEW r \in Run, StartFails(r) PROVE RunsOK'
  BY <1>7 DEF StartFails, SGoto, SUnchanged, count, RunsOK, TypeOK
<1>8. ASSUME NEW r \in Run, Reaped(r) PROVE RunsOK'
  BY <1>8 DEF Reaped, SGoto, SUnchanged, count, RunsOK, TypeOK
<1>9. ASSUME NEW r \in Run, GameExits(r) PROVE RunsOK'
  BY <1>9 DEF GameExits, disk, count, RunsOK
<1>10. ASSUME Restart PROVE RunsOK'
  BY <1>10 DEF Restart, Crash, disk, RunsOK
<1>11. ASSUME NEW r \in Run, ReportFails(r) PROVE RunsOK'
  BY <1>11 DEF ReportFails, SGoto, disk, RunsOK, TypeOK
<1>12. ASSUME NEW r \in Run, SupervisorDies(r) PROVE RunsOK'
  BY <1>12 DEF SupervisorDies, Crash, disk, RunsOK
<1>13. ASSUME StartDeploy \/ Deploy \/ CaptureOutgoing \/ MarkSwitch \/ ReplaceSaves \/
              SetActive \/ CommitSaveOperation \/ Launch \/ Waited \/ CaptureSession \/
              Complete \/ Analysed \/ RestorePreparation \/ Recovered \/ (\E p \in
              Profile, d \in BOOLEAN : RequestStore(p, d)) \/ (\E p \in Profile : \E v \in
              vault[p] : SaveOperation(p, v)) \/ (\E confirm \in BOOLEAN :
              Finish(confirm)) \/ Recover \/ (\E r \in Run : WorkerLeaves(r)) \/ (\E r \in
              Run : WorkerDoubts(r)) \/ (\E r \in Run : WorkerProbes(r)) \/ (\E r \in Run
              : WorkerBails(r)) \/ (\E r \in Run : WorkerFinishes(r)) \/ (\E r \in Run :
              WorkerGivesUp(r)) \/ (\E r \in Run : GameSaves(r)) \/ HolderDies \/ (\E r
              \in Run : WorkerDies(r))
       PROVE  RunsOK'
  <2>1. UNCHANGED <<runs, restarted, spc, game, evidence>>
    BY <1>13 DEF StartDeploy, Deploy, CaptureOutgoing, MarkSwitch, ReplaceSaves, SetActive,
       CommitSaveOperation, Launch, Waited, CaptureSession, Complete, Analysed,
       RestorePreparation, Recovered, RequestStore, SaveOperation, Finish, Recover,
       WorkerLeaves, WorkerDoubts, WorkerProbes, WorkerBails, WorkerFinishes, WorkerGivesUp,
       GameSaves, HolderDies, WorkerDies, WUnchanged, Crash, disk, procs, count
  <2> QED
    BY <2>1 DEF RunsOK
<1> QED
  BY <1>1, <1>2, <1>3, <1>4, <1>5, <1>6, <1>7, <1>8, <1>9, <1>10, <1>11, <1>12, <1>13 DEF Next,
     Holder, User, Failure, Worker, Supervisor, Game

---------------------------------------------------------------------------
(* The supervisors, and the games they started *)

\* Every step keeps the supervisors and their games to the journal
LEMMA SupervisorStep ==
    ASSUME TypeOK, ShapeOK, RunsOK, HolderOK, PhaseOK, SupervisorOK, Next
    PROVE  SupervisorOK'
<1>1. ASSUME StartDeploy PROVE SupervisorOK'
  <2>1. Silent
    BY <1>1, HolderAlone DEF StartDeploy, At
  <2>2. UNCHANGED <<spc, game, evidence, observer, smine, wpc>>
    BY <1>1 DEF StartDeploy, locks, procs
  <2> QED
    BY <2>1, <2>2 DEF SupervisorOK, OwnPC, Launched, Silent
<1>2. ASSUME Deploy PROVE SupervisorOK'
  BY <1>2 DEF Deploy, At, store, locks, procs, count, ghost, SupervisorOK, OwnPC, Launched, TypeOK
<1>3. ASSUME CaptureOutgoing PROVE SupervisorOK'
  BY <1>3 DEF CaptureOutgoing, disk, locks, procs, SupervisorOK
<1>4. ASSUME MarkSwitch PROVE SupervisorOK'
  <2>1. Silent
    BY <1>4, HolderAlone DEF MarkSwitch, At
  <2>2. UNCHANGED <<spc, game, evidence, observer, smine, wpc>>
    BY <1>4 DEF MarkSwitch, locks, procs
  <2> QED
    BY <2>1, <2>2 DEF SupervisorOK, OwnPC, Launched, Silent
<1>5. ASSUME ReplaceSaves PROVE SupervisorOK'
  BY <1>5 DEF ReplaceSaves, disk, locks, procs, count, SupervisorOK
<1>6. ASSUME SetActive PROVE SupervisorOK'
  BY <1>6 DEF SetActive, disk, locks, procs, SupervisorOK
<1>7. ASSUME CommitSaveOperation PROVE SupervisorOK'
  <2>1. Silent
    BY <1>7, HolderAlone DEF CommitSaveOperation, At, Release
  <2> QED
    BY <1>7, <2>1 DEF CommitSaveOperation, Release, locks, SupervisorOK, Silent
<1>8. ASSUME Launch PROVE SupervisorOK'
  <2>1. Silent
    BY <1>8, HolderAlone DEF Launch, At
  <2>2. UNCHANGED <<spc, game, evidence, observer, smine, wpc>>
    BY <1>8 DEF Launch, locks, procs
  <2> QED
    BY <2>1, <2>2 DEF SupervisorOK, OwnPC, Launched, Silent
<1>9. ASSUME Spawn PROVE SupervisorOK'
  <2>1. Silent /\ mine.run \in Run /\ spc[mine.run] = "none"
    BY <1>9, HolderAlone DEF Spawn, At, HolderOK, PreparePC, PhaseOK
  <2>2. /\ spc' = spc \/ spc' = [spc EXCEPT ![mine.run] = "starting"]
        /\ wpc' = wpc \/ wpc' = [wpc EXCEPT ![mine.run] = "polling"]
    BY <1>9 DEF Spawn
  <2>3. UNCHANGED <<game, evidence, observer, smine, journal>>
    BY <1>9 DEF Spawn, disk, locks
  <2> QED
    BY <2>1, <2>2, <2>3 DEF SupervisorOK, OwnPC, TypeOK
<1>10. ASSUME Waited PROVE SupervisorOK'
  <2>1. /\ spc[mine.run] = "gone" /\ (journal # NoSession => journal.run = mine.run)
        /\ mine.run \in Run
    BY <1>10 DEF Waited, HolderOK, PhaseOK, Same
  <2>2. evidence[mine.run] = "completed" => Silent
    BY <2>1 DEF SupervisorOK, Silent, OwnPC
  <2> QED
    BY <1>10, <2>2 DEF Waited, RequireExit, Release, SupervisorOK, Silent, TypeOK
<1>11. ASSUME CaptureSession PROVE SupervisorOK'
  <2>1. Silent
    BY <1>11, HolderAlone DEF CaptureSession, At
  <2>2. UNCHANGED <<spc, game, evidence, observer, smine, wpc>>
    BY <1>11 DEF CaptureSession, locks, procs
  <2> QED
    BY <2>1, <2>2 DEF SupervisorOK, OwnPC, Launched, Silent
<1>12. ASSUME Complete PROVE SupervisorOK'
  <2>1. Silent
    BY <1>12, HolderAlone DEF Complete, At
  <2>2. UNCHANGED <<spc, game, evidence, observer, smine, wpc>>
    BY <1>12 DEF Complete, locks, procs
  <2> QED
    BY <2>1, <2>2 DEF SupervisorOK, OwnPC, Launched, Silent
<1>13. ASSUME Analysed PROVE SupervisorOK'
  BY <1>13 DEF Analysed, Release, SupervisorOK
<1>14. ASSUME RestorePreparation PROVE SupervisorOK'
  BY <1>14 DEF RestorePreparation, At, disk, locks, procs, count, ghost, SupervisorOK, OwnPC,
     Launched, TypeOK
<1>15. ASSUME Recovered PROVE SupervisorOK'
  <2>1. Silent
    BY <1>15, HolderAlone DEF Recovered, At, Release
  <2> QED
    BY <1>15, <2>1 DEF Recovered, Release, locks, SupervisorOK, Silent
<1>16. ASSUME NEW p \in Profile, NEW d \in BOOLEAN, RequestStore(p, d) PROVE SupervisorOK'
  <2>1. Silent
    BY <1>16, JournalFree DEF RequestStore, Blocking
  <2> QED
    BY <1>16, <2>1 DEF RequestStore, locks, procs, SupervisorOK, Silent
<1>17. ASSUME NEW p \in Profile, NEW d \in BOOLEAN, Play(p, d) PROVE SupervisorOK'
  BY <1>17 DEF Play, procs, SupervisorOK, Launched
<1>18. ASSUME NEW p \in Profile, NEW v \in vault[p], SaveOperation(p, v) PROVE SupervisorOK'
  <2>1. Silent
    BY <1>18, JournalFree DEF SaveOperation, Blocking
  <2> QED
    BY <1>18, <2>1 DEF SaveOperation, procs, SupervisorOK, Silent
<1>19. ASSUME NEW confirm \in BOOLEAN, Finish(confirm) PROVE SupervisorOK'
  BY <1>19 DEF Finish, RequireExit, disk, procs, SupervisorOK, TypeOK
<1>20. ASSUME Recover PROVE SupervisorOK'
  BY <1>20 DEF Recover, disk, procs, SupervisorOK
<1>21. ASSUME NEW r \in Run, WorkerLeaves(r) PROVE SupervisorOK'
  BY <1>21 DEF WorkerLeaves, Goto, WUnchanged, disk, locks, SupervisorOK
<1>22. ASSUME NEW r \in Run, WorkerDoubts(r) PROVE SupervisorOK'
  BY <1>22 DEF WorkerDoubts, Goto, WUnchanged, disk, locks, SupervisorOK
<1>23. ASSUME NEW r \in Run, WorkerProbes(r) PROVE SupervisorOK'
  BY <1>23 DEF WorkerProbes, Goto, WUnchanged, disk, SupervisorOK, TypeOK
<1>24. ASSUME NEW r \in Run, WorkerBails(r) PROVE SupervisorOK'
  BY <1>24 DEF WorkerBails, Goto, WUnchanged, disk, SupervisorOK, TypeOK
<1>25. ASSUME NEW r \in Run, WorkerFinishes(r) PROVE SupervisorOK'
  BY <1>25 DEF WorkerFinishes, Goto, WUnchanged, RequireExit, disk, locks, SupervisorOK, TypeOK
<1>26. ASSUME NEW r \in Run, WorkerGivesUp(r) PROVE SupervisorOK'
  BY <1>26 DEF WorkerGivesUp, Goto, WUnchanged, disk, locks, SupervisorOK
<1>27. ASSUME NEW r \in Run, SupervisorLocks(r) PROVE SupervisorOK'
  BY <1>27 DEF SupervisorLocks, SGoto, SUnchanged, SupervisorOK, OwnPC, TypeOK
<1>28. ASSUME NEW r \in Run, SupervisorChecks(r) PROVE SupervisorOK'
  BY <1>28 DEF SupervisorChecks, SGoto, SUnchanged, Owns, SupervisorOK, OwnPC, TypeOK
<1>29. ASSUME NEW r \in Run, Consume(r) PROVE SupervisorOK'
  BY <1>29 DEF Consume, SGoto, SUnchanged, SupervisorOK, OwnPC, TypeOK
<1>30. ASSUME NEW r \in Run, StartGame(r) PROVE SupervisorOK'
  <2>1. spc[r] = "journalling" => /\ smine[r] = journal /\ journal \in Session
                                  /\ journal.run = r /\ journal.observed
    BY DEF SupervisorOK, OwnPC, TypeOK
  <2>2. spc[r] = "journalling" => /\ InPhase(journal, "Running").phase = "Running"
                                 /\ InPhase(journal, "Running").run = r
                                 /\ InPhase(journal, "Running").observed
                                 /\ InPhase(journal, "Running") # NoSession
    BY <2>1, InPhaseFields, ValueAssumption DEF Phase, ValueAssumption
  <2> QED
    BY <1>30, <2>2 DEF StartGame, SGoto, SUnchanged, SupervisorOK, OwnPC, Launched, TypeOK
<1>31. ASSUME NEW r \in Run, StartFails(r) PROVE SupervisorOK'
  BY <1>31 DEF StartFails, SGoto, SUnchanged, SupervisorOK, OwnPC, TypeOK
<1>32. ASSUME NEW r \in Run, Reaped(r) PROVE SupervisorOK'
  BY <1>32 DEF Reaped, SGoto, SUnchanged, SupervisorOK, OwnPC, TypeOK
<1>33. ASSUME NEW r \in Run, GameSaves(r) PROVE SupervisorOK'
  BY <1>33 DEF GameSaves, disk, locks, procs, SupervisorOK
<1>34. ASSUME NEW r \in Run, GameExits(r) PROVE SupervisorOK'
  BY <1>34 DEF GameExits, disk, locks, SupervisorOK
<1>35. ASSUME HolderDies PROVE SupervisorOK'
  BY <1>35 DEF HolderDies, Release, disk, SupervisorOK
<1>36. ASSUME Restart PROVE SupervisorOK'
  BY <1>36 DEF Restart, disk, SupervisorOK, OwnPC
<1>37. ASSUME NEW r \in Run, ReportFails(r) PROVE SupervisorOK'
  BY <1>37 DEF ReportFails, SGoto, disk, locks, SupervisorOK, OwnPC, Launched, TypeOK
<1>38. ASSUME NEW r \in Run, SupervisorDies(r) PROVE SupervisorOK'
  BY <1>38 DEF SupervisorDies, disk, SupervisorOK, OwnPC, TypeOK
<1>39. ASSUME NEW r \in Run, WorkerDies(r) PROVE SupervisorOK'
  BY <1>39 DEF WorkerDies, Goto, disk, SupervisorOK, TypeOK
<1> QED
  BY <1>1, <1>2, <1>3, <1>4, <1>5, <1>6, <1>7, <1>8, <1>9, <1>10, <1>11, <1>12, <1>13, <1>14,
     <1>15, <1>16, <1>17, <1>18, <1>19, <1>20, <1>21, <1>22, <1>23, <1>24, <1>25, <1>26, <1>27,
     <1>28, <1>29, <1>30, <1>31, <1>32, <1>33, <1>34, <1>35, <1>36, <1>37, <1>38, <1>39 DEF
     Next, Holder, User, Failure, Worker, Supervisor, Game

---------------------------------------------------------------------------
(* The holder of the lease *)

\* A step of the holder between two points of the preparation
LEMMA PreparationStep ==
    ASSUME HolderOK, pc \in PreparePC, pc' \in PreparePC \ {"captured"},
           mine' # NoSession, journal' = mine', mine'.run = mine.run, mine'.op = mine.op,
           UNCHANGED <<spc, runs, restarted>>
    PROVE  HolderOK'
<1>1. pc' \notin FinishPC \cup RecoverPC \cup {"idle", "waiting", "analysing", "captured"}
  BY DEF PreparePC, FinishPC, RecoverPC
<1>2. pc # "waiting"
  BY DEF PreparePC
<1> QED
  BY <1>1, <1>2 DEF HolderOK

\* A step to a point after the game
LEMMA FinishStep ==
    ASSUME pc' \in FinishPC, mine' # NoSession, mine'.phase \in Played,
           journal' = mine' \/ (journal' = NoSession /\ mine'.phase = "Captured"),
           pc' = "analysing" => journal' = NoSession,
           mine'.observed => observer'[mine'.run] = "mutex" \/ pc' = "analysing",
           \A r \in Run : game'[r] # "running"
    PROVE  HolderOK'
<1>1. pc' \notin PreparePC \cup RecoverPC \cup {"idle", "waiting", "captured"}
  BY DEF PreparePC, FinishPC, RecoverPC
<1> QED
  BY <1>1 DEF HolderOK

\* A step to a point of the recovery
LEMMA RecoverStep ==
    ASSUME pc' \in RecoverPC, mine' # NoSession, mine'.phase \in Preparation, journal' = mine'
    PROVE  HolderOK'
<1>1. pc' \notin PreparePC \cup FinishPC \cup {"idle", "waiting", "captured", "analysing"}
  BY DEF PreparePC, FinishPC, RecoverPC
<1> QED
  BY <1>1 DEF HolderOK

\* The lease is given up
LEMMA IdleStep ==
    ASSUME pc' = "idle", mine' = NoSession
    PROVE  HolderOK'
BY DEF HolderOK, PreparePC, FinishPC, RecoverPC

\* A step of another process that leaves the journal alone
LEMMA OtherStep ==
    ASSUME ShapeOK, HolderOK,
           UNCHANGED <<pc, mine, journal, runs, restarted>>,
           \A r \in Run : observer[r] = "mutex" => observer'[r] = "mutex",
           \A r \in Run : spc[r] = "none" => spc'[r] = "none",
           pc \in FinishPC => \A r \in Run : game'[r] = "running" => game[r] = "running"
    PROVE  HolderOK'
<1>1. mine # NoSession => (mine.observed => mine.run \in Run)
  BY DEF ShapeOK, Shape
<1>2. pc \in FinishPC => mine # NoSession
  BY DEF HolderOK, FinishPC
<1> QED
  BY <1>1, <1>2 DEF HolderOK

\* The supervisor that `play` waits for writes the journal
LEMMA SupervisorWrites ==
    ASSUME HolderOK, SupervisorOK, NEW r \in Run, spc[r] \in OwnPC,
           journal' # NoSession, Same(journal', journal), journal'.snapshot = journal.snapshot,
           journal'.phase \in {"Running", "Ready"},
           UNCHANGED <<pc, mine, runs, restarted>>
    PROVE  HolderOK'
<1>1. pc \in {"idle", "waiting"}
  BY HolderAlone DEF Silent
<1> QED
  BY <1>1 DEF HolderOK, PreparePC, FinishPC, RecoverPC, Same, Launched


\* Every step keeps the holder, its session and the journal together
LEMMA HolderStep ==
    ASSUME TypeOK, ShapeOK, RunsOK, HolderOK, PhaseOK, SupervisorOK, Next
    PROVE  HolderOK'
<1>1. ASSUME StartDeploy PROVE HolderOK'
  <2>1. mine \in Session /\ mine # NoSession
    BY <1>1, MineTyped, ValueAssumption DEF StartDeploy, At, ValueAssumption
  <2>2. pc \in PreparePC /\ pc' \in PreparePC \ {"captured"} /\ journal = mine
    BY <1>1 DEF StartDeploy, At, HolderOK, PreparePC
  <2>3. mine' # NoSession /\ journal' = mine' /\ mine'.run = mine.run /\ mine'.op = mine.op
    BY <1>1, <2>1, <2>2, DeployStartedFields, ValueAssumption DEF StartDeploy, Advance
  <2>4. UNCHANGED <<spc, runs, restarted>>
    BY <1>1 DEF StartDeploy, procs, count
  <2> QED
    BY <2>2, <2>3, <2>4, PreparationStep
<1>2. ASSUME Deploy PROVE HolderOK'
  <2>1. mine \in Session /\ mine # NoSession
    BY <1>2, MineTyped, ValueAssumption DEF Deploy, At, ValueAssumption
  <2>2. pc \in PreparePC /\ pc' \in PreparePC \ {"captured"} /\ journal = mine
    BY <1>2 DEF Deploy, At, HolderOK, PreparePC
  <2>3. mine' # NoSession /\ journal' = mine' /\ mine'.run = mine.run /\ mine'.op = mine.op
    BY <1>2, <2>1, <2>2 DEF Deploy
  <2>4. UNCHANGED <<spc, runs, restarted>>
    BY <1>2 DEF Deploy, procs, count
  <2> QED
    BY <2>2, <2>3, <2>4, PreparationStep
<1>3. ASSUME CaptureOutgoing PROVE HolderOK'
  <2>1. mine \in Session /\ mine # NoSession
    BY <1>3, MineTyped, ValueAssumption DEF CaptureOutgoing, ValueAssumption
  <2>2. journal = mine /\ mine.phase = "Preparing" /\ live \in Save
    BY <1>3 DEF CaptureOutgoing, HolderOK, PreparePC, PhaseOK, TypeOK
  <2>3. UNCHANGED <<spc, runs, restarted, journal>>
    BY <1>3 DEF CaptureOutgoing, disk, procs, count
  <2>4. CASE pc' = "switched"
    <3>1. mine' = mine /\ pc \in PreparePC /\ pc' \in PreparePC \ {"captured"}
      BY <1>3, <2>4 DEF CaptureOutgoing, PreparePC
    <3> QED
      BY <2>1, <2>2, <2>3, <3>1, PreparationStep
  <2>5. CASE pc' = "captured"
    <3>1. mine' # NoSession /\ Same(mine', mine)
      BY <1>3, <2>1, <2>2, WithSnapshotFields, ValueAssumption DEF CaptureOutgoing, Same
    <3>2. pc = "deployed"
      BY <1>3 DEF CaptureOutgoing
    <3> QED
      BY <2>2, <2>3, <2>5, <3>1, <3>2 DEF HolderOK, Same, PreparePC, FinishPC, RecoverPC
  <2> QED
    BY <1>3, <2>4, <2>5 DEF CaptureOutgoing
<1>4. ASSUME MarkSwitch PROVE HolderOK'
  <2>1. mine \in Session /\ mine # NoSession
    BY <1>4, MineTyped, ValueAssumption DEF MarkSwitch, At, ValueAssumption
  <2>2. pc \in PreparePC /\ pc' \in PreparePC \ {"captured"}
    BY <1>4 DEF MarkSwitch, At, PreparePC
  <2>3. mine' # NoSession /\ journal' = mine' /\ mine'.run = mine.run /\ mine'.op = mine.op
    BY <1>4, <2>1, SwitchingFields, ValueAssumption DEF MarkSwitch, Advance
  <2>4. UNCHANGED <<spc, runs, restarted>>
    BY <1>4 DEF MarkSwitch, procs, count
  <2> QED
    BY <2>2, <2>3, <2>4, PreparationStep
<1>5. ASSUME ReplaceSaves PROVE HolderOK'
  <2>1. mine \in Session /\ mine # NoSession
    BY <1>5, MineTyped, ValueAssumption DEF ReplaceSaves, At, ValueAssumption
  <2>2. pc \in PreparePC /\ pc' \in PreparePC \ {"captured"} /\ journal = mine
    BY <1>5 DEF ReplaceSaves, At, HolderOK, PreparePC
  <2>3. mine' # NoSession /\ journal' = mine' /\ mine'.run = mine.run /\ mine'.op = mine.op
    BY <1>5, <2>1, <2>2 DEF ReplaceSaves, disk
  <2>4. UNCHANGED <<spc, runs, restarted>>
    BY <1>5 DEF ReplaceSaves, procs, count
  <2> QED
    BY <2>2, <2>3, <2>4, PreparationStep
<1>6. ASSUME SetActive PROVE HolderOK'
  <2>1. mine \in Session /\ mine # NoSession
    BY <1>6, MineTyped, ValueAssumption DEF SetActive, At, ValueAssumption
  <2>2. pc \in PreparePC /\ pc' \in PreparePC \ {"captured"} /\ journal = mine
    BY <1>6 DEF SetActive, At, HolderOK, PreparePC
  <2>3. mine' # NoSession /\ journal' = mine' /\ mine'.run = mine.run /\ mine'.op = mine.op
    BY <1>6, <2>1, <2>2 DEF SetActive, disk
  <2>4. UNCHANGED <<spc, runs, restarted>>
    BY <1>6 DEF SetActive, procs, count
  <2> QED
    BY <2>2, <2>3, <2>4, PreparationStep
<1>7. ASSUME CommitSaveOperation PROVE HolderOK'
  <2>1. mine \in Session /\ mine # NoSession
    BY <1>7, MineTyped, ValueAssumption DEF CommitSaveOperation, At, Release, ValueAssumption
  <2>2. CASE pc = "committed"
    BY <1>7, <2>2, IdleStep DEF CommitSaveOperation, At, Release
  <2>3. CASE pc # "committed"
    <3>1. pc \in PreparePC /\ pc' \in PreparePC \ {"captured"} /\ journal = mine
      BY <1>7, <2>3 DEF CommitSaveOperation, At, HolderOK, PreparePC
    <3>2. mine' # NoSession /\ journal' = mine' /\ mine'.run = mine.run /\ mine'.op = mine.op
      BY <1>7, <2>1, <2>3, <3>1, InPhaseFields, ValueAssumption DEF CommitSaveOperation,
         Advance, Phase
    <3>3. UNCHANGED <<spc, runs, restarted>>
      BY <1>7 DEF CommitSaveOperation, count
    <3> QED
      BY <3>1, <3>2, <3>3, PreparationStep
  <2> QED
    BY <2>2, <2>3
<1>8. ASSUME Launch PROVE HolderOK'
  <2>1. mine \in Session /\ mine # NoSession
    BY <1>8, MineTyped, ValueAssumption DEF Launch, At, ValueAssumption
  <2>2. pc \in PreparePC /\ pc' \in PreparePC \ {"captured"} /\ journal = mine
    BY <1>8 DEF Launch, At, HolderOK, PreparePC
  <2>3. mine' # NoSession /\ journal' = mine' /\ mine'.run = mine.run /\ mine'.op = mine.op
    BY <1>8, <2>1, <2>2, InPhaseFields, ObservedFields, ValueAssumption DEF Launch, Advance, Phase
  <2>4. UNCHANGED <<spc, runs, restarted>>
    BY <1>8 DEF Launch, procs, count
  <2> QED
    BY <2>2, <2>3, <2>4, PreparationStep
<1>9. ASSUME Spawn PROVE HolderOK'
  <2>1. mine \in Session /\ mine # NoSession
    BY <1>9, MineTyped, ValueAssumption DEF Spawn, At, ValueAssumption
  <2>2. /\ pc \in {"observed", "accompanied"} /\ journal = mine /\ mine.phase = "Launching"
        /\ UNCHANGED <<mine, journal, runs, restarted>>
    BY <1>9 DEF Spawn, At, disk, count, HolderOK, PhaseOK
  <2>3. CASE pc = "observed"
    <3>1. pc' = "accompanied" /\ spc' = spc
      BY <1>9, <2>3 DEF Spawn, At
    <3> QED
      BY <2>1, <2>2, <2>3, <3>1, PreparationStep DEF PreparePC
  <2>4. CASE pc = "accompanied"
    <3>1. pc' = "waiting" /\ pc \in PreparePC
      BY <1>9, <2>4 DEF Spawn, At, PreparePC
    <3> QED
      BY <2>2, <3>1 DEF HolderOK, Same, FinishPC, RecoverPC, Launched
  <2> QED
    BY <2>2, <2>3, <2>4
<1>10. ASSUME Waited PROVE HolderOK'
  <2>1. mine \in Session /\ mine # NoSession
    BY <1>10, MineTyped, ValueAssumption DEF Waited, ValueAssumption
  <2>2. mine.run \in Run /\ pc = "waiting" /\ journal # NoSession /\ journal.run = mine.run
    BY <1>10 DEF Waited, HolderOK, PhaseOK, Same
  <2>3. CASE evidence[mine.run] = "completed" /\ observer[mine.run] = "free"
    <3>1. /\ pc' = "complete" /\ mine' = InPhase(mine, "Exited") /\ journal' = mine'
          /\ UNCHANGED game
      BY <1>10, <2>3 DEF Waited, Advance
    <3>2. /\ mine' # NoSession /\ mine'.phase = "Exited" /\ mine'.run = mine.run
          /\ mine'.observed = mine.observed
      BY <2>1, <3>1, InPhaseFields, ValueAssumption DEF Phase, ValueAssumption
    <3>3. mine.observed => observer'[mine.run] = "mutex"
      BY <1>10, <2>2, <2>3 DEF Waited, RequireExit, TypeOK
    <3>4. \A r \in Run : game[r] # "running"
      BY <2>2, <2>3 DEF SupervisorOK
    <3> QED
      BY <3>1, <3>2, <3>3, <3>4, FinishStep DEF FinishPC, Played
  <2>4. CASE ~(evidence[mine.run] = "completed" /\ observer[mine.run] = "free")
    BY <1>10, <2>4, IdleStep DEF Waited, Release
  <2> QED
    BY <2>3, <2>4
<1>11. ASSUME CaptureSession PROVE HolderOK'
  <2>1. mine \in Session /\ mine # NoSession
    BY <1>11, MineTyped, ValueAssumption DEF CaptureSession, At, ValueAssumption
  <2>2. /\ pc \in FinishPC \ {"analysing"} /\ pc' \in FinishPC \ {"analysing"}
        /\ UNCHANGED <<observer, game>>
    BY <1>11 DEF CaptureSession, At, locks, procs, FinishPC
  <2>3. /\ journal = mine \/ (journal = NoSession /\ mine.phase = "Captured")
        /\ mine.phase \in Played
        /\ mine.observed => observer[mine.run] = "mutex"
        /\ \A r \in Run : game[r] # "running"
    BY <2>2 DEF HolderOK
  <2>4. /\ mine' # NoSession /\ mine'.phase \in Played /\ mine'.run = mine.run
        /\ mine'.observed = mine.observed
        /\ journal' = mine' \/ (mine' = mine /\ journal' = journal)
    BY <1>11, <2>1, <2>3, InPhaseFields, ValueAssumption DEF CaptureSession, Advance, Phase,
       Played
  <2> QED
    BY <2>2, <2>3, <2>4, FinishStep
<1>12. ASSUME Complete PROVE HolderOK'
  <2>1. mine \in Session /\ mine # NoSession
    BY <1>12, MineTyped, ValueAssumption DEF Complete, At, ValueAssumption
  <2>2. /\ pc \in FinishPC \ {"analysing"} /\ pc' \in FinishPC
        /\ UNCHANGED <<observer, game, mine>>
        /\ \/ journal' = journal /\ pc' # "analysing"
           \/ journal' = NoSession /\ pc' = "analysing"
    BY <1>12 DEF Complete, At, locks, procs, FinishPC
  <2>3. /\ journal = mine \/ (journal = NoSession /\ mine.phase = "Captured")
        /\ mine.phase = "Captured" /\ mine.phase \in Played
        /\ mine.observed => observer[mine.run] = "mutex"
        /\ \A r \in Run : game[r] # "running"
    BY <1>12, <2>2 DEF HolderOK, PhaseOK, Complete, At, Played
  <2> QED
    BY <2>1, <2>2, <2>3, FinishStep
<1>13. ASSUME Analysed PROVE HolderOK'
  <2> QED
    BY <1>13, IdleStep DEF Analysed, Release
<1>14. ASSUME RestorePreparation PROVE HolderOK'
  <2>1. mine \in Session /\ mine # NoSession
    BY <1>14, MineTyped, ValueAssumption DEF RestorePreparation, At, ValueAssumption
  <2>2. pc \in RecoverPC /\ pc' \in RecoverPC /\ UNCHANGED <<journal, mine>>
    BY <1>14 DEF RestorePreparation, At, disk, RecoverPC
  <2> QED
    BY <2>1, <2>2, RecoverStep DEF HolderOK
<1>15. ASSUME Recovered PROVE HolderOK'
  <2>1. mine \in Session /\ mine # NoSession
    BY <1>15, MineTyped, ValueAssumption DEF Recovered, At, Release, ValueAssumption
  <2>2. CASE pc = "clearing"
    BY <1>15, <2>2, IdleStep DEF Recovered, At, Release
  <2>3. CASE pc # "clearing"
    <3>1. pc \in RecoverPC /\ pc' \in RecoverPC /\ UNCHANGED <<journal, mine>>
      BY <1>15, <2>3 DEF Recovered, At, RecoverPC
    <3> QED
      BY <2>1, <3>1, RecoverStep DEF HolderOK
  <2> QED
    BY <2>2, <2>3
<1>16. ASSUME NEW p \in Profile, NEW d \in BOOLEAN, RequestStore(p, d) PROVE HolderOK'
  <2>1. mutex = Nobody /\ pc = "idle" /\ UNCHANGED <<pc, mine>>
    BY <1>16 DEF RequestStore, mem, TypeOK
  <2> QED
    BY <2>1 DEF HolderOK, PreparePC, FinishPC, RecoverPC
<1>17. ASSUME NEW p \in Profile, NEW d \in BOOLEAN, Play(p, d) PROVE HolderOK'
  <2>1. runs \in 0..MaxRuns /\ MaxRuns \in Nat /\ runs < MaxRuns
    BY <1>17, ConstantAssumption DEF Play, TypeOK, ConstantAssumption
  <2>2. active \in Profile \cup {NoProfile} /\ runs + 1 \in 0..MaxRuns /\ runs + 1 \in Run
    BY <2>1 DEF TypeOK, Run
  <2>3. mine' \in Session /\ mine'.run = runs + 1 /\ mine'.op = "play"
    BY <1>17, <2>2, BeginFields DEF Play, Acquire, Advance
  <2>4. pc' = "prepared" /\ journal' = mine' /\ runs' = runs + 1 /\ UNCHANGED <<spc, restarted>>
    BY <1>17 DEF Play, Acquire, Advance, procs
  <2>5. spc[runs + 1] = "none" /\ runs + 1 \notin restarted
    BY <2>1, <2>2 DEF RunsOK
  <2> QED
    BY <2>2, <2>3, <2>4, <2>5, ValueAssumption DEF HolderOK, PreparePC, FinishPC, RecoverPC
<1>18. ASSUME NEW p \in Profile, NEW v \in vault[p], SaveOperation(p, v) PROVE HolderOK'
  <2>1. 0 \in 0..MaxRuns /\ 0 \notin Run
    BY ConstantAssumption DEF Run, ConstantAssumption
  <2>2. \E op \in {"switch", "restore"} : mine' = Begin(0, p, op, FALSE)
    BY <1>18 DEF SaveOperation, Acquire, Advance
  <2>3. mine'.run = 0 /\ mine'.op # "play"
    BY <2>2 DEF Begin
  <2>4. mine' \in Session
    BY <2>1, <2>2 DEF TypeOK, Session, Begin, Phase, Save
  <2>5. pc' = "deployed" /\ journal' = mine'
    BY <1>18 DEF SaveOperation, Acquire, Advance
  <2>6. (mine'.op = "play") = (mine'.run \in Run) /\ mine' # NoSession /\ mine'.run \notin Run
    BY <2>1, <2>3, <2>4, ValueAssumption DEF ValueAssumption
  <2> QED
    BY <2>5, <2>6 DEF HolderOK, PreparePC, FinishPC, RecoverPC
<1>19. ASSUME NEW confirm \in BOOLEAN, Finish(confirm) PROVE HolderOK'
  <2>1. /\ Blocking # NoSession /\ Blocking \in Session /\ Shape(Blocking)
        /\ journal = Blocking \/ (journal = NoSession /\ Blocking.phase = "Captured")
        /\ Blocking.phase \in Played
    BY <1>19, BlockingShaped DEF Finish
  <2>2. pc' = "complete" /\ mine' = Blocking /\ UNCHANGED <<journal, game>>
    BY <1>19 DEF Finish, disk, procs
  <2>3. Blocking.observed => observer'[Blocking.run] = "mutex"
    BY <1>19, <2>1 DEF Finish, RequireExit, Shape, TypeOK
  <2>4. \A r \in Run : game[r] # "running"
    BY <1>19, <2>1 DEF Finish, RequireExit, Completed, SupervisorOK, RunsOK, Launched
  <2> QED
    BY <2>1, <2>2, <2>3, <2>4, FinishStep DEF FinishPC
<1>20. ASSUME Recover PROVE HolderOK'
  <2>1. /\ pc' \in {"restored", "restoring"} /\ mine' = journal /\ journal' = journal
        /\ journal # NoSession /\ journal.phase \in Preparation
    BY <1>20 DEF Recover, IsPreparation, disk
  <2> QED
    BY <2>1, RecoverStep DEF RecoverPC
<1>21. ASSUME NEW r \in Run, WorkerLeaves(r) PROVE HolderOK'
  <2>1. UNCHANGED <<pc, mine, journal, runs, restarted>>
    BY <1>21 DEF WorkerLeaves, WUnchanged, disk, count
  <2>2. \A q \in Run : /\ observer[q] = "mutex" => observer'[q] = "mutex"
                       /\ spc[q] = "none" => spc'[q] = "none"
                       /\ game'[q] = "running" => game[q] = "running"
    BY <1>21 DEF WorkerLeaves, WUnchanged, locks
  <2> QED
    BY <2>1, <2>2, OtherStep
<1>22. ASSUME NEW r \in Run, WorkerDoubts(r) PROVE HolderOK'
  <2>1. UNCHANGED <<pc, mine, journal, runs, restarted>>
    BY <1>22 DEF WorkerDoubts, WUnchanged, disk, count
  <2>2. \A q \in Run : /\ observer[q] = "mutex" => observer'[q] = "mutex"
                       /\ spc[q] = "none" => spc'[q] = "none"
                       /\ game'[q] = "running" => game[q] = "running"
    BY <1>22 DEF WorkerDoubts, WUnchanged, locks
  <2> QED
    BY <2>1, <2>2, OtherStep
<1>23. ASSUME NEW r \in Run, WorkerProbes(r) PROVE HolderOK'
  <2>1. UNCHANGED <<pc, mine, journal, runs, restarted>>
    BY <1>23 DEF WorkerProbes, WUnchanged, disk, count
  <2>2. \A q \in Run : /\ observer[q] = "mutex" => observer'[q] = "mutex"
                       /\ spc[q] = "none" => spc'[q] = "none"
                       /\ game'[q] = "running" => game[q] = "running"
    BY <1>23 DEF WorkerProbes, WUnchanged, TypeOK
  <2> QED
    BY <2>1, <2>2, OtherStep
<1>24. ASSUME NEW r \in Run, WorkerBails(r) PROVE HolderOK'
  <2>1. UNCHANGED <<pc, mine, journal, runs, restarted>>
    BY <1>24 DEF WorkerBails, WUnchanged, disk, count
  <2>2. \A q \in Run : /\ observer[q] = "mutex" => observer'[q] = "mutex"
                       /\ spc[q] = "none" => spc'[q] = "none"
                       /\ game'[q] = "running" => game[q] = "running"
    BY <1>24 DEF WorkerBails, WUnchanged, SupervisorOK
  <2> QED
    BY <2>1, <2>2, OtherStep
<1>25. ASSUME NEW r \in Run, WorkerFinishes(r) PROVE HolderOK'
  <2>1. CASE IsPreparation(Blocking)
    <3>1. UNCHANGED <<pc, mine, journal, runs, restarted, observer, spc, game>>
      BY <1>25, <2>1 DEF WorkerFinishes, disk, locks, count, WUnchanged
    <3> QED
      BY <3>1, OtherStep
  <2>2. CASE ~IsPreparation(Blocking)
    <3>1. /\ Blocking # NoSession /\ Blocking \in Session /\ Shape(Blocking)
          /\ journal = Blocking \/ (journal = NoSession /\ Blocking.phase = "Captured")
          /\ Blocking.phase \in Played
      BY <1>25, <2>2, BlockingShaped DEF WorkerFinishes, Pinned
    <3>2. pc' = "complete" /\ mine' = Blocking /\ UNCHANGED <<journal, game>>
      BY <1>25, <2>2 DEF WorkerFinishes, disk, WUnchanged
    <3>3. Blocking.observed => observer'[Blocking.run] = "mutex"
      BY <1>25, <2>2, <3>1 DEF WorkerFinishes, RequireExit, Shape, TypeOK
    <3>4. \A q \in Run : game[q] # "running"
      BY <1>25, <2>2, <3>1 DEF WorkerFinishes, Pinned, SupervisorOK, Launched
    <3> QED
      BY <3>1, <3>2, <3>3, <3>4, FinishStep DEF FinishPC
  <2> QED
    BY <2>1, <2>2
<1>26. ASSUME NEW r \in Run, WorkerGivesUp(r) PROVE HolderOK'
  <2>1. UNCHANGED <<pc, mine, journal, runs, restarted>>
    BY <1>26 DEF WorkerGivesUp, WUnchanged, disk, count
  <2>2. \A q \in Run : /\ observer[q] = "mutex" => observer'[q] = "mutex"
                       /\ spc[q] = "none" => spc'[q] = "none"
                       /\ game'[q] = "running" => game[q] = "running"
    BY <1>26 DEF WorkerGivesUp, WUnchanged, locks
  <2> QED
    BY <2>1, <2>2, OtherStep
<1>27. ASSUME NEW r \in Run, SupervisorLocks(r) PROVE HolderOK'
  <2>1. UNCHANGED <<pc, mine, journal, runs, restarted>>
    BY <1>27 DEF SupervisorLocks, SUnchanged, mem, count
  <2>2. \A q \in Run : /\ observer[q] = "mutex" => observer'[q] = "mutex"
                       /\ spc[q] = "none" => spc'[q] = "none"
                       /\ game'[q] = "running" => game[q] = "running"
    BY <1>27 DEF SupervisorLocks, SGoto, TypeOK
  <2> QED
    BY <2>1, <2>2, OtherStep
<1>28. ASSUME NEW r \in Run, SupervisorChecks(r) PROVE HolderOK'
  <2>1. UNCHANGED <<pc, mine, journal, runs, restarted>>
    BY <1>28 DEF SupervisorChecks, SUnchanged, mem, count
  <2>2. \A q \in Run : /\ observer[q] = "mutex" => observer'[q] = "mutex"
                       /\ spc[q] = "none" => spc'[q] = "none"
                       /\ game'[q] = "running" => game[q] = "running"
    BY <1>28 DEF SupervisorChecks, SGoto, TypeOK, SupervisorOK
  <2> QED
    BY <2>1, <2>2, OtherStep
<1>29. ASSUME NEW r \in Run, Consume(r) PROVE HolderOK'
  <2>1. UNCHANGED <<pc, mine, journal, runs, restarted>>
    BY <1>29 DEF Consume, SUnchanged, mem, count
  <2>2. \A q \in Run : /\ observer[q] = "mutex" => observer'[q] = "mutex"
                       /\ spc[q] = "none" => spc'[q] = "none"
                       /\ game'[q] = "running" => game[q] = "running"
    BY <1>29 DEF Consume, SGoto, TypeOK
  <2> QED
    BY <2>1, <2>2, OtherStep
<1>30. ASSUME NEW r \in Run, StartGame(r) PROVE HolderOK'
  <2>1. CASE spc[r] = "journalling"
    <3>1. journal \in Session /\ smine[r] = journal /\ spc[r] \in OwnPC
      BY <2>1 DEF SupervisorOK, OwnPC, TypeOK
    <3>2. journal' = InPhase(journal, "Running") /\ UNCHANGED <<pc, mine, runs, restarted>>
      BY <1>30, <2>1, <3>1 DEF StartGame, SGoto, SUnchanged, mem, count
    <3>3. /\ journal' # NoSession /\ Same(journal', journal)
          /\ journal'.snapshot = journal.snapshot /\ journal'.phase = "Running"
      BY <3>1, <3>2, InPhaseFields, ValueAssumption DEF Same, Phase, ValueAssumption
    <3> QED
      BY <3>1, <3>2, <3>3, SupervisorWrites
  <2>2. CASE spc[r] # "journalling"
    <3>1. UNCHANGED <<pc, mine, journal, runs, restarted, observer>> /\ spc[r] \in OwnPC
      BY <1>30, <2>2 DEF StartGame, SGoto, SUnchanged, mem, count, OwnPC
    <3>2. pc \in {"idle", "waiting"}
      BY <3>1, HolderAlone DEF Silent
    <3>3. \A q \in Run : spc[q] = "none" => spc'[q] = "none"
      BY <1>30, <2>2 DEF StartGame, SGoto, TypeOK
    <3> QED
      BY <3>1, <3>2, <3>3, OtherStep DEF FinishPC
  <2> QED
    BY <2>1, <2>2
<1>31. ASSUME NEW r \in Run, StartFails(r) PROVE HolderOK'
  <2>1. CASE spc[r] = "failing"
    <3>1. journal \in Session /\ smine[r] = journal /\ spc[r] \in OwnPC
      BY <2>1 DEF SupervisorOK, OwnPC, TypeOK
    <3>2. journal' = InPhase(journal, "Ready") /\ UNCHANGED <<pc, mine, runs, restarted>>
      BY <1>31, <2>1, <3>1 DEF StartFails, SGoto, SUnchanged, mem, count
    <3>3. /\ journal' # NoSession /\ Same(journal', journal)
          /\ journal'.snapshot = journal.snapshot /\ journal'.phase = "Ready"
      BY <3>1, <3>2, InPhaseFields, ValueAssumption DEF Same, Phase, ValueAssumption
    <3> QED
      BY <3>1, <3>2, <3>3, SupervisorWrites
  <2>2. CASE spc[r] # "failing"
    <3>1. UNCHANGED <<pc, mine, journal, runs, restarted, observer, game>>
      BY <1>31, <2>2 DEF StartFails, SGoto, SUnchanged, mem, count
    <3>2. \A q \in Run : spc[q] = "none" => spc'[q] = "none"
      BY <1>31, <2>2 DEF StartFails, SGoto, TypeOK
    <3> QED
      BY <3>1, <3>2, OtherStep
  <2> QED
    BY <2>1, <2>2
<1>32. ASSUME NEW r \in Run, Reaped(r) PROVE HolderOK'
  <2>1. UNCHANGED <<pc, mine, journal, runs, restarted>>
    BY <1>32 DEF Reaped, SUnchanged, mem, count
  <2>2. \A q \in Run : /\ observer[q] = "mutex" => observer'[q] = "mutex"
                       /\ spc[q] = "none" => spc'[q] = "none"
                       /\ game'[q] = "running" => game[q] = "running"
    BY <1>32 DEF Reaped, SGoto, TypeOK, SupervisorOK
  <2> QED
    BY <2>1, <2>2, OtherStep
<1>33. ASSUME NEW r \in Run, GameSaves(r) PROVE HolderOK'
  <2>1. UNCHANGED <<pc, mine, journal, runs, restarted>>
    BY <1>33 DEF GameSaves, disk, mem, procs
  <2>2. \A q \in Run : /\ observer[q] = "mutex" => observer'[q] = "mutex"
                       /\ spc[q] = "none" => spc'[q] = "none"
                       /\ game'[q] = "running" => game[q] = "running"
    BY <1>33 DEF GameSaves, locks, procs
  <2> QED
    BY <2>1, <2>2, OtherStep
<1>34. ASSUME NEW r \in Run, GameExits(r) PROVE HolderOK'
  <2>1. UNCHANGED <<pc, mine, journal, runs, restarted>>
    BY <1>34 DEF GameExits, disk, mem, count
  <2>2. \A q \in Run : /\ observer[q] = "mutex" => observer'[q] = "mutex"
                       /\ spc[q] = "none" => spc'[q] = "none"
                       /\ game'[q] = "running" => game[q] = "running"
    BY <1>34 DEF GameExits, locks
  <2> QED
    BY <2>1, <2>2, OtherStep
<1>35. ASSUME HolderDies PROVE HolderOK'
  <2> QED
    BY <1>35, IdleStep DEF HolderDies, Release
<1>36. ASSUME Restart PROVE HolderOK'
  <2> QED
    BY <1>36, IdleStep DEF Restart
<1>37. ASSUME NEW r \in Run, ReportFails(r) PROVE HolderOK'
  <2>1. UNCHANGED <<pc, mine, journal, runs, restarted>>
    BY <1>37 DEF ReportFails, disk, mem
  <2>2. \A q \in Run : /\ observer[q] = "mutex" => observer'[q] = "mutex"
                       /\ spc[q] = "none" => spc'[q] = "none"
                       /\ game'[q] = "running" => game[q] = "running"
    BY <1>37 DEF ReportFails, SGoto, locks, TypeOK
  <2> QED
    BY <2>1, <2>2, OtherStep
<1>38. ASSUME NEW r \in Run, SupervisorDies(r) PROVE HolderOK'
  <2>1. UNCHANGED <<pc, mine, journal, runs, restarted>>
    BY <1>38 DEF SupervisorDies, Crash, disk, mem
  <2>2. \A q \in Run : /\ observer[q] = "mutex" => observer'[q] = "mutex"
                       /\ spc[q] = "none" => spc'[q] = "none"
                       /\ game'[q] = "running" => game[q] = "running"
    BY <1>38 DEF SupervisorDies
  <2> QED
    BY <2>1, <2>2, OtherStep
<1>39. ASSUME NEW r \in Run, WorkerDies(r) PROVE HolderOK'
  <2>1. UNCHANGED <<pc, mine, journal, runs, restarted>>
    BY <1>39 DEF WorkerDies, Crash, disk, mem
  <2>2. \A q \in Run : /\ observer[q] = "mutex" => observer'[q] = "mutex"
                       /\ spc[q] = "none" => spc'[q] = "none"
                       /\ game'[q] = "running" => game[q] = "running"
    BY <1>39 DEF WorkerDies
  <2> QED
    BY <2>1, <2>2, OtherStep
<1> QED
  BY <1>1, <1>2, <1>3, <1>4, <1>5, <1>6, <1>7, <1>8, <1>9, <1>10, <1>11, <1>12, <1>13, <1>14,
     <1>15, <1>16, <1>17, <1>18, <1>19, <1>20, <1>21, <1>22, <1>23, <1>24, <1>25, <1>26, <1>27,
     <1>28, <1>29, <1>30, <1>31, <1>32, <1>33, <1>34, <1>35, <1>36, <1>37, <1>38, <1>39 DEF
     Next, Holder, User, Failure, Worker, Supervisor, Game

---------------------------------------------------------------------------
(* The phases of the holder's session *)

\* Every step keeps the phases
LEMMA PhaseStep ==
    ASSUME TypeOK, ShapeOK, HolderOK, PhaseOK, Next
    PROVE  PhaseOK'
<1>1. ASSUME StartDeploy PROVE PhaseOK'
  <2>1. mine \in Session /\ mine # NoSession
    BY <1>1, MineTyped, ValueAssumption DEF StartDeploy, At, ValueAssumption
  <2> QED
    BY <1>1, <2>1, DeployStartedFields DEF StartDeploy, At, Advance, PhaseOK
<1>2. ASSUME Deploy PROVE PhaseOK'
  <2>1. mine \in Session /\ mine # NoSession
    BY <1>2, MineTyped, ValueAssumption DEF Deploy, At, ValueAssumption
  <2> QED
    BY <1>2, <2>1 DEF Deploy, At, PhaseOK, mem
<1>3. ASSUME CaptureOutgoing PROVE PhaseOK'
  <2>1. mine \in Session /\ mine # NoSession
    BY <1>3, MineTyped, ValueAssumption DEF CaptureOutgoing, ValueAssumption
  <2>2. live \in Save /\ mine.phase = "Preparing"
    BY <1>3 DEF CaptureOutgoing, TypeOK, PhaseOK
  <2>3. mine' = mine \/ mine' = WithSnapshot(mine, live)
    BY <1>3 DEF CaptureOutgoing
  <2>4. mine'.phase = "Preparing" /\ mine'.op = mine.op
    BY <2>1, <2>2, <2>3, WithSnapshotFields
  <2>5. pc' = "captured" \/ (pc' = "switched" /\ mine.op = "play")
    BY <1>3 DEF CaptureOutgoing
  <2> QED
    BY <2>4, <2>5 DEF PhaseOK
<1>4. ASSUME MarkSwitch PROVE PhaseOK'
  <2>1. mine \in Session /\ mine # NoSession
    BY <1>4, MineTyped, ValueAssumption DEF MarkSwitch, At, ValueAssumption
  <2> QED
    BY <1>4, <2>1, SwitchingFields DEF MarkSwitch, At, Advance, PhaseOK
<1>5. ASSUME ReplaceSaves PROVE PhaseOK'
  BY <1>5 DEF ReplaceSaves, At, PhaseOK
<1>6. ASSUME SetActive PROVE PhaseOK'
  BY <1>6 DEF SetActive, At, PhaseOK
<1>7. ASSUME CommitSaveOperation PROVE PhaseOK'
  <2>1. mine \in Session /\ mine # NoSession
    BY <1>7, MineTyped, ValueAssumption DEF CommitSaveOperation, At, Release, ValueAssumption
  <2>2. /\ InPhase(mine, "SaveCommitted").phase = "SaveCommitted"
        /\ InPhase(mine, "SaveCommitted").op = mine.op
    BY <2>1, InPhaseFields DEF Phase
  <2> QED
    BY <1>7, <2>2 DEF CommitSaveOperation, At, Advance, Release, PhaseOK
<1>8. ASSUME Launch PROVE PhaseOK'
  <2>1. mine \in Session /\ mine # NoSession
    BY <1>8, MineTyped, ValueAssumption DEF Launch, At, ValueAssumption
  <2>2. \A ph \in {"Ready", "Launching"} :
            InPhase(mine, ph).phase = ph /\ InPhase(mine, ph).op = mine.op
    BY <2>1, InPhaseFields DEF Phase
  <2> QED
    BY <1>8, <2>1, <2>2, ObservedFields DEF Launch, At, Advance, PhaseOK
<1>9. ASSUME Spawn PROVE PhaseOK'
  BY <1>9 DEF Spawn, At, PhaseOK
<1>10. ASSUME Waited PROVE PhaseOK'
  BY <1>10 DEF Waited, Release, PhaseOK
<1>11. ASSUME CaptureSession PROVE PhaseOK'
  <2>1. mine \in Session /\ mine # NoSession
    BY <1>11, MineTyped, ValueAssumption DEF CaptureSession, At, ValueAssumption
  <2>2. \A ph \in {"Capturing", "Captured"} : InPhase(mine, ph).phase = ph
    BY <2>1, InPhaseFields DEF Phase
  <2> QED
    BY <1>11, <2>2 DEF CaptureSession, At, Advance, PhaseOK
<1>12. ASSUME Complete PROVE PhaseOK'
  BY <1>12 DEF Complete, At, PhaseOK
<1>13. ASSUME Analysed PROVE PhaseOK'
  BY <1>13 DEF Analysed, Release, PhaseOK
<1>14. ASSUME RestorePreparation PROVE PhaseOK'
  BY <1>14 DEF RestorePreparation, At, PhaseOK
<1>15. ASSUME Recovered PROVE PhaseOK'
  BY <1>15 DEF Recovered, At, Release, PhaseOK
<1>16. ASSUME NEW p \in Profile, NEW d \in BOOLEAN, Play(p, d) PROVE PhaseOK'
  <2>1. runs \in 0..MaxRuns /\ MaxRuns \in Nat /\ runs < MaxRuns
    BY <1>16, ConstantAssumption DEF Play, TypeOK, ConstantAssumption
  <2>2. active \in Profile \cup {NoProfile} /\ runs + 1 \in 0..MaxRuns
    BY <2>1 DEF TypeOK
  <2>3. mine'.phase = "Preparing" /\ mine'.op = "play" /\ pc' = "prepared"
    BY <1>16, <2>2, BeginFields DEF Play, Acquire, Advance
  <2> QED
    BY <2>3 DEF PhaseOK
<1>17. ASSUME NEW p \in Profile, NEW v \in vault[p], SaveOperation(p, v) PROVE PhaseOK'
  <2>1. mine'.phase = "Preparing" /\ pc' = "deployed"
    BY <1>17 DEF SaveOperation, Acquire, Advance, Begin
  <2> QED
    BY <2>1 DEF PhaseOK
<1>18. ASSUME NEW confirm \in BOOLEAN, Finish(confirm) PROVE PhaseOK'
  BY <1>18 DEF Finish, PhaseOK
<1>19. ASSUME Recover PROVE PhaseOK'
  BY <1>19 DEF Recover, PhaseOK
<1>20. ASSUME NEW r \in Run, WorkerFinishes(r) PROVE PhaseOK'
  BY <1>20 DEF WorkerFinishes, PhaseOK
<1>21. ASSUME HolderDies PROVE PhaseOK'
  BY <1>21 DEF HolderDies, Release, PhaseOK
<1>22. ASSUME Restart PROVE PhaseOK'
  BY <1>22 DEF Restart, PhaseOK
<1>23. ASSUME (\E p \in Profile, d \in BOOLEAN : RequestStore(p, d)) \/ (\E r \in Run :
              StartGame(r)) \/ (\E r \in Run : StartFails(r)) \/ (\E r \in Run :
              GameSaves(r)) \/ (\E r \in Run : GameExits(r))
       PROVE  PhaseOK'
  <2>1. UNCHANGED <<pc, mine>>
    BY <1>23 DEF RequestStore, StartGame, StartFails, GameSaves, GameExits, SUnchanged, mem
  <2> QED
    BY <2>1 DEF PhaseOK
<1>24. ASSUME NEW r \in Run, Bystander(r) PROVE PhaseOK'
  BY <1>24, Bystanders DEF PhaseOK
<1> QED
  BY <1>1, <1>2, <1>3, <1>4, <1>5, <1>6, <1>7, <1>8, <1>9, <1>10, <1>11, <1>12, <1>13, <1>14,
     <1>15, <1>16, <1>17, <1>18, <1>19, <1>20, <1>21, <1>22, <1>23, <1>24 DEF Next, Holder,
     User, Failure, Worker, Supervisor, Game, Bystander

---------------------------------------------------------------------------
(* The vault *)

\* A step that leaves the vault alone
LEMMA VaultFrame ==
    ASSUME VaultOK, UNCHANGED <<vault, head>>,
           \/ pc' \notin VaultPC
           \/ UNCHANGED <<pc, mine, to>>
    PROVE  VaultOK'
BY DEF VaultOK, VaultPure, VaultPC

\* Saves of a profile captured into its branch
LEMMA CaptureKeeps ==
    ASSUME TypeOK, VaultPure, \A q \in Profile : head[q] \in vault[q],
           NEW p \in Profile, live \in Version, live.of = p, Capture(p)
    PROVE  /\ VaultPure'
           /\ \A q \in Profile : head'[q] \in vault'[q] /\ vault[q] \subseteq vault'[q]
           /\ live \in vault'[p]
<1>1. /\ head' = [q \in Profile |-> IF q = p THEN live ELSE head[q]]
      /\ vault' = [q \in Profile |-> IF q = p THEN vault[q] \cup {live} ELSE vault[q]]
  BY DEF Capture, TypeOK
<1> QED
  BY <1>1 DEF VaultPure

\* Every step keeps the vault pure and its heads inside it
LEMMA VaultStep ==
    ASSUME TypeOK, ShapeOK, HolderOK, PhaseOK, VaultOK, HistoryOK, SettledOK, Next
    PROVE  VaultOK'
<1>1. ASSUME StartDeploy PROVE VaultOK'
  <2>1. mine \in Session /\ mine # NoSession
    BY <1>1, MineTyped, ValueAssumption DEF StartDeploy, At, ValueAssumption
  <2>2. mine.op = "play"
    BY <1>1 DEF StartDeploy, At, PhaseOK
  <2>3. /\ mine'.op = mine.op /\ UNCHANGED <<vault, head>>
        /\ pc' \in {"deploying", "replacing mods", "deployed"}
    BY <1>1, <2>1, DeployStartedFields DEF StartDeploy, At, Advance, store
  <2> QED
    BY <2>2, <2>3 DEF VaultOK, VaultPure
<1>2. ASSUME Deploy PROVE VaultOK'
  <2>1. mine \in Session /\ mine # NoSession
    BY <1>2, MineTyped, ValueAssumption DEF Deploy, At, ValueAssumption
  <2>2. mine.op = "play"
    BY <1>2 DEF Deploy, At, PhaseOK
  <2>3. /\ mine'.op = mine.op /\ UNCHANGED <<vault, head>>
        /\ pc' \in {"deploying", "replacing mods", "deployed"}
    BY <1>2 DEF Deploy, At, store
  <2> QED
    BY <2>2, <2>3 DEF VaultOK, VaultPure
<1>3. ASSUME CaptureOutgoing PROVE VaultOK'
  <2>1. mine \in Session /\ mine # NoSession
    BY <1>3, MineTyped, ValueAssumption DEF CaptureOutgoing, ValueAssumption
  <2>2. mine.profile \in Profile /\ active \in Profile \cup {NoProfile}
    BY <2>1, SessionFields DEF TypeOK
  <2>3. active # NoProfile => live \in Version /\ live.of = active
    BY <1>3 DEF CaptureOutgoing, HolderOK, PhaseOK, SettledOK, Settled
  <2>4. \/ UNCHANGED <<head, vault>>
        \/ active # NoProfile /\ active \in Profile /\ Capture(active)
    BY <1>3, <2>2 DEF CaptureOutgoing
  <2>5. VaultPure' /\ (\A p \in Profile : head'[p] \in vault'[p] /\ vault[p] \subseteq vault'[p])
    BY <2>2, <2>3, <2>4, CaptureKeeps DEF VaultOK, VaultPure
  <2>6. live \in Save /\ (mine' = mine \/ mine' = WithSnapshot(mine, live))
    BY <1>3 DEF CaptureOutgoing, TypeOK
  <2>7. mine'.profile = mine.profile /\ mine'.op = mine.op
    BY <2>1, <2>6, WithSnapshotFields
  <2>8. /\ pc = "deployed"
        /\ \/ pc' = "switched"
           \/ /\ pc' = "captured"
              /\ to' = IF mine.op = "restore" THEN to ELSE head'[mine.profile]
    BY <1>3 DEF CaptureOutgoing
  <2> QED
    BY <2>2, <2>5, <2>7, <2>8 DEF VaultOK
<1>4. ASSUME MarkSwitch PROVE VaultOK'
  <2>1. mine \in Session /\ mine # NoSession
    BY <1>4, MineTyped, ValueAssumption DEF MarkSwitch, At, ValueAssumption
  <2>2. /\ mine'.profile = mine.profile /\ pc = "captured" /\ pc' = "marked"
        /\ UNCHANGED <<vault, head, to>>
    BY <1>4, <2>1, SwitchingFields DEF MarkSwitch, At, Advance, store
  <2> QED
    BY <2>2 DEF VaultOK, VaultPure
<1>5. ASSUME ReplaceSaves PROVE VaultOK'
  <2>1. mine \in Session /\ mine # NoSession
    BY <1>5, MineTyped, ValueAssumption DEF ReplaceSaves, At, ValueAssumption
  <2>2. mine.profile \in Profile /\ to \in vault[mine.profile]
    BY <1>5, <2>1, SessionFields DEF ReplaceSaves, At, VaultOK
  <2>3. pc' \in {"replacing saves", "replaced"} /\ UNCHANGED <<vault, mine, to>>
        /\ (head' = head \/ head' = [head EXCEPT ![mine.profile] = to])
    BY <1>5 DEF ReplaceSaves, At
  <2>4. \A p \in Profile : head'[p] \in vault[p]
    BY <2>2, <2>3 DEF VaultOK, TypeOK
  <2> QED
    BY <2>2, <2>3, <2>4 DEF VaultOK, VaultPure
<1>6. ASSUME SetActive PROVE VaultOK'
  <2>1. UNCHANGED <<vault, head>> /\ pc' \in {"switched", "operated"}
    BY <1>6 DEF SetActive, At
  <2> QED
    BY <2>1, VaultFrame DEF VaultPC
<1>7. ASSUME CaptureSession PROVE VaultOK'
  <2>1. mine \in Session /\ mine # NoSession
    BY <1>7, MineTyped, ValueAssumption DEF CaptureSession, At, ValueAssumption, VaultPC
  <2>2. mine.profile \in Profile /\ pc' \notin VaultPC
    BY <1>7, <2>1, SessionFields DEF CaptureSession, At, VaultPC
  <2>3. CASE pc = "capturing"
    <3>1. live \in Version /\ live.of = mine.profile
      BY <2>2, <2>3, ConstantAssumption DEF HolderOK, PhaseOK, FinishPC, SettledOK, Settled
    <3>2. Capture(mine.profile)
      BY <1>7, <2>3 DEF CaptureSession, At, VaultPC
    <3> QED
      BY <2>2, <3>1, <3>2, CaptureKeeps DEF VaultOK, VaultPC
  <2>4. CASE pc # "capturing"
    BY <1>7, <2>2, <2>4, VaultFrame DEF CaptureSession, At, VaultPC
  <2> QED
    BY <2>3, <2>4 DEF VaultPC
<1>8. ASSUME RestorePreparation PROVE VaultOK'
  <2>1. mine \in Session /\ mine # NoSession
    BY <1>8, MineTyped, ValueAssumption DEF RestorePreparation, At, ValueAssumption, VaultPC
  <2>2. mine.prev \in Profile \cup {NoProfile} /\ pc' \notin VaultPC /\ vault' = vault
    BY <1>8, <2>1, SessionFields DEF RestorePreparation, At, VaultPC
  <2>3. Snapshot(mine)
    BY <1>8 DEF RestorePreparation, At, HolderOK, RecoverPC, PhaseOK, HistoryOK, BeforeOK
  <2>4. \/ head' = head
        \/ mine.prev # NoProfile /\ head' = [head EXCEPT ![mine.prev] = mine.snapshot]
    BY <1>8 DEF RestorePreparation, VaultPC
  <2> QED
    BY <2>2, <2>3, <2>4 DEF VaultOK, VaultPure, Snapshot, TypeOK, VaultPC
<1>9. ASSUME NEW p \in Profile, NEW v \in vault[p], SaveOperation(p, v) PROVE VaultOK'
  <2>1. to' \in vault'[p] /\ UNCHANGED <<vault, head>> /\ pc' = "deployed"
    BY <1>9 DEF SaveOperation, Acquire, store
  <2>2. mine'.profile = p
    BY <1>9 DEF SaveOperation, Acquire, Advance, Begin
  <2> QED
    BY <2>1, <2>2 DEF VaultOK, VaultPure
<1>10. ASSUME NEW r \in Run, WorkerFinishes(r) PROVE VaultOK'
  <2>1. UNCHANGED <<vault, head>> /\ (pc' = "complete" \/ UNCHANGED <<pc, mine, to>>)
    BY <1>10 DEF WorkerFinishes, WUnchanged, store
  <2> QED
    BY <2>1, VaultFrame DEF VaultPC
<1>11. ASSUME CommitSaveOperation \/ Launch \/ Spawn \/ Waited \/ Complete \/ Analysed \/
              Recovered \/ (\E p \in Profile, d \in BOOLEAN : Play(p, d)) \/ (\E confirm
              \in BOOLEAN : Finish(confirm)) \/ Recover \/ HolderDies \/ Restart
       PROVE  VaultOK'
  <2>1. UNCHANGED <<vault, head>> /\ pc' \notin VaultPC
    BY <1>11 DEF CommitSaveOperation, Launch, Spawn, Waited, Complete, Analysed, Recovered,
       Play, Finish, Recover, HolderDies, Restart, At, Release, store, Acquire, VaultPC
  <2> QED
    BY <2>1, VaultFrame DEF VaultPC
<1>12. ASSUME NEW r \in Run, Bystander(r) PROVE VaultOK'
  <2>1. UNCHANGED <<vault, head>> /\ UNCHANGED <<pc, mine, to>>
    BY <1>12, Bystanders DEF VaultPC
  <2> QED
    BY <2>1, VaultFrame DEF VaultPC
<1>13. ASSUME NEW r \in Run, StartGame(r) \/ StartFails(r) \/ GameSaves(r) \/ GameExits(r)
       PROVE  VaultOK'
  <2>1. UNCHANGED <<vault, head>> /\ UNCHANGED <<pc, mine, to>>
    BY <1>13 DEF StartGame, StartFails, GameSaves, GameExits, SUnchanged, store, mem
  <2> QED
    BY <2>1, VaultFrame DEF VaultPC
<1>14. ASSUME (\E p \in Profile, d \in BOOLEAN : RequestStore(p, d)) PROVE VaultOK'
  <2>1. UNCHANGED <<vault, head>> /\ UNCHANGED <<pc, mine, to>>
    BY <1>14 DEF RequestStore, store, mem
  <2> QED
    BY <2>1, VaultFrame DEF VaultPC
<1> QED
  BY <1>1, <1>2, <1>3, <1>4, <1>5, <1>6, <1>7, <1>8, <1>9, <1>10, <1>11, <1>12, <1>13, <1>14 DEF
     Next, Holder, User, Failure, Worker, Supervisor, Game, Bystander

---------------------------------------------------------------------------
(* The beginning of the operation, and the last saves *)

\* The vault only grows
LEMMA SnapshotStays ==
    ASSUME NEW s \in Session, Snapshot(s), \A p \in Profile : vault[p] \subseteq vault'[p]
    PROVE  \/ s.prev = NoProfile /\ s.snapshot = Empty
           \/ s.prev # NoProfile /\ s.snapshot \in vault'[s.prev]
BY SessionFields DEF Snapshot

\* A step that leaves the saves and their history alone
LEMMA BeforeFrame ==
    ASSUME TypeOK, HolderOK, HistoryOK, UNCHANGED <<before, live, active, latest>>,
           \A p \in Profile : vault[p] \subseteq vault'[p],
           \/ journal' = NoSession
           \/ /\ journal # NoSession
              /\ journal'.prev = journal.prev /\ journal'.snapshot = journal.snapshot
              /\ journal'.switched = journal.switched
              /\ Unplayed' => Unplayed
              /\ journal.phase = "SaveCommitted" => journal'.phase = "SaveCommitted",
           \/ pc' \notin HistoryPC
           \/ UNCHANGED <<pc, mine>>
    PROVE  HistoryOK'
<1>1. ASSUME journal' # NoSession, journal'.switched
      PROVE  Snapshot(journal)' /\ journal'.snapshot = before'.live
  <2>1. journal \in Session /\ Snapshot(journal) /\ journal.snapshot = before.live
    BY <1>1 DEF HistoryOK, BeforeOK, TypeOK, HistoryPC
  <2> QED
    BY <1>1, <2>1, SnapshotStays DEF Snapshot, HistoryPC
<1>2. ASSUME pc' = "captured" PROVE Snapshot(mine)' /\ mine'.snapshot = before'.live
  <2>1. mine \in Session /\ Snapshot(mine) /\ mine.snapshot = before.live /\ mine' = mine
    BY <1>2, MineTyped DEF HistoryOK, BeforeOK, HistoryPC
  <2> QED
    BY <2>1, SnapshotStays DEF Snapshot, HistoryPC
<1>3. ASSUME Unplayed' PROVE journal' # NoSession
  BY <1>3 DEF Unplayed, HistoryPC
<1>4. BeforeOK'
  BY <1>1, <1>2, <1>3 DEF HistoryOK, BeforeOK, HistoryPC
<1>5. KeptOK'
  BY <1>3 DEF HistoryOK, KeptOK, ProgressKept, Kept, HistoryPC
<1> QED
  BY <1>4, <1>5 DEF HistoryOK, HistoryPC

\* Every step keeps what is remembered of the beginning
LEMMA HistoryStep ==
    ASSUME TypeOK, ShapeOK, SupervisorOK, HolderOK, PhaseOK, SettledOK, HistoryOK, Next
    PROVE  HistoryOK'
<1>1. ASSUME StartDeploy PROVE HistoryOK'
  <2>1. mine \in Session /\ mine # NoSession
    BY <1>1, MineTyped, ValueAssumption DEF StartDeploy, At, ValueAssumption
  <2>2. journal # NoSession /\ journal = mine
    BY <1>1 DEF StartDeploy, At, HolderOK, PhaseOK
  <2>3. /\ mine'.prev = mine.prev /\ mine'.snapshot = mine.snapshot
        /\ mine'.switched = mine.switched
        /\ mine'.phase = mine.phase /\ mine'.run = mine.run /\ journal' = mine'
        /\ UNCHANGED <<before, live, active, latest, vault, game>>
    BY <1>1, <2>1, <2>2, DeployStartedFields DEF StartDeploy, Advance, store, procs, ghost
  <2>4. /\ mine.snapshot = Empty /\ ~mine.switched /\ mine.prev = before.active
        /\ mine.phase = "Preparing"
    BY <1>1, <2>2 DEF StartDeploy, At, HistoryOK, BeforeOK, PhaseOK, ShapeOK, Shape
  <2>5. live = before.live /\ active = before.active
    BY <2>2, <2>4 DEF HistoryOK, BeforeOK, Unplayed, Preparation
  <2>6. pc' \in {"deploying", "deployed"}
    BY <1>1 DEF StartDeploy, At
  <2>7. BeforeOK'
    BY <2>3, <2>4, <2>5, <2>6 DEF HistoryOK, BeforeOK
  <2>8. KeptOK'
    BY <2>2, <2>3, <2>4, <2>6 DEF HistoryOK, KeptOK, ProgressKept
  <2> QED
    BY <2>7, <2>8 DEF HistoryOK
<1>2. ASSUME Deploy PROVE HistoryOK'
  <2>1. /\ UNCHANGED <<before, live, active, latest, vault, journal, game, mine>>
        /\ pc \in {"deploying", "replacing mods"} /\ pc' \in {"replacing mods", "deployed"}
    BY <1>2 DEF Deploy, At, store, procs, ghost
  <2>2. BeforeOK'
    BY <2>1 DEF HistoryOK, BeforeOK, Unplayed, Snapshot
  <2>3. KeptOK'
    BY <2>1 DEF HistoryOK, KeptOK, ProgressKept, Kept, Unplayed
  <2> QED
    BY <2>2, <2>3 DEF HistoryOK
<1>3. ASSUME CaptureOutgoing PROVE HistoryOK'
  <2>1. mine \in Session /\ mine # NoSession
    BY <1>3, MineTyped, ValueAssumption DEF CaptureOutgoing, ValueAssumption
  <2>2. /\ journal = mine /\ mine.snapshot = Empty /\ mine.phase = "Preparing"
        /\ ~mine.switched /\ mine.prev = before.active
    BY <1>3 DEF CaptureOutgoing, HolderOK, HistoryOK, BeforeOK, PhaseOK, ShapeOK, Shape
  <2>3. live = before.live /\ active = before.active /\ live \in Save
    BY <2>1, <2>2 DEF HistoryOK, BeforeOK, Unplayed, Preparation, TypeOK
  <2>4. /\ UNCHANGED <<before, live, active, journal, game>>
        /\ (pc' = "switched" \/ pc' = "captured") /\ (active = NoProfile => live = Empty)
    BY <1>3 DEF CaptureOutgoing, disk, procs, ghost
  <2>5. pc' = "captured" =>
          \/ mine' = mine /\ active = NoProfile
          \/ mine' = WithSnapshot(mine, live) /\ active # NoProfile /\ Capture(active)
    BY <1>3 DEF CaptureOutgoing
  <2>6. ASSUME pc' = "captured" PROVE Snapshot(mine)' /\ mine'.snapshot = before'.live
    <3>1. CASE mine' = mine /\ active = NoProfile
      BY <2>2, <2>3, <2>4, <3>1 DEF Snapshot
    <3>2. CASE mine' = WithSnapshot(mine, live) /\ active # NoProfile /\ Capture(active)
      <4>1. mine'.prev = mine.prev /\ mine'.snapshot = live
        BY <2>1, <2>3, <3>2, WithSnapshotFields
      <4>2. live \in vault'[active]
        BY <3>2 DEF Capture, TypeOK
      <4> QED
        BY <2>2, <2>3, <2>4, <3>2, <4>1, <4>2 DEF Snapshot
    <3> QED
      BY <2>5, <2>6, <3>1, <3>2
  <2>7. BeforeOK'
    BY <2>1, <2>2, <2>3, <2>4, <2>6 DEF HistoryOK, BeforeOK
  <2>8. active = NoProfile \/ (active # NoProfile /\ live.of = active)
    BY <2>2 DEF SettledOK, Settled
  <2>9. UNCHANGED latest /\ \A p \in Profile : vault[p] \subseteq vault'[p]
    BY <1>3 DEF CaptureOutgoing, Capture, ghost, TypeOK
  <2>10. ASSUME pc' = "captured", NEW p \in Profile PROVE latest[p] \in vault'[p]
    <3>1. latest[p] # Empty
      BY ValueAssumption DEF TypeOK, ValueAssumption
    <3>2. live \in vault'[p] \/ live # latest[p]
      <4>1. CASE active # NoProfile /\ Capture(active)
        BY <2>8, <4>1 DEF HistoryOK, KeptOK, Capture, TypeOK
      <4>2. CASE active = NoProfile
        BY <2>4, <3>1, <4>2
      <4> QED
        BY <2>5, <2>10, <4>1, <4>2
    <3> QED
      BY <2>9, <3>2 DEF HistoryOK, KeptOK, ProgressKept
  <2>11. KeptOK'
    BY <2>4, <2>9, <2>10 DEF HistoryOK, KeptOK, ProgressKept, Kept, Unplayed
  <2> QED
    BY <2>7, <2>11 DEF HistoryOK
<1>4. ASSUME MarkSwitch PROVE HistoryOK'
  <2>1. mine \in Session /\ mine # NoSession
    BY <1>4, MineTyped, ValueAssumption DEF MarkSwitch, At, ValueAssumption
  <2>2. /\ mine'.prev = mine.prev /\ mine'.snapshot = mine.snapshot /\ mine'.switched
        /\ journal' = mine'
        /\ UNCHANGED <<before, live, active, latest, vault, game>>
    BY <1>4, <2>1, SwitchingFields DEF MarkSwitch, Advance, store, procs, ghost
  <2>3. Snapshot(mine) /\ mine.snapshot = before.live /\ mine.prev = before.active
    BY <1>4 DEF MarkSwitch, At, HistoryOK, BeforeOK, HolderOK, Same
  <2>4. pc' = "marked"
    BY <1>4 DEF MarkSwitch, At
  <2>5. BeforeOK'
    BY <2>2, <2>3, <2>4 DEF HistoryOK, BeforeOK, Snapshot
  <2>6. Kept /\ latest' = latest
    BY <1>4 DEF MarkSwitch, At, ghost, HistoryOK, KeptOK
  <2>7. KeptOK'
    BY <2>2, <2>4, <2>6 DEF HistoryOK, KeptOK, ProgressKept, Kept
  <2> QED
    BY <2>5, <2>7 DEF HistoryOK
<1>5. ASSUME ReplaceSaves PROVE HistoryOK'
  <2>1. mine \in Session /\ mine # NoSession
    BY <1>5, MineTyped, ValueAssumption DEF ReplaceSaves, At, ValueAssumption, HistoryPC
  <2>2. /\ journal = mine /\ mine.switched
        /\ UNCHANGED <<before, vault, journal, mine>>
        /\ pc' \notin HistoryPC
    BY <1>5 DEF ReplaceSaves, At, disk, ghost, HolderOK, PhaseOK, ShapeOK, Shape, HistoryPC
  <2>3. BeforeOK'
    BY <2>2 DEF HistoryOK, BeforeOK, Snapshot, HistoryPC
  <2>4. Unplayed
    BY <1>5 DEF ReplaceSaves, At, HolderOK, PhaseOK, Preparation, Unplayed
  <2>5. Kept /\ latest' = latest
    BY <1>5, <2>2, <2>4 DEF ReplaceSaves, ghost, HistoryOK, KeptOK
  <2>6. KeptOK'
    BY <2>2, <2>5 DEF HistoryOK, KeptOK, ProgressKept, Kept, HistoryPC
  <2> QED
    BY <2>3, <2>6 DEF HistoryOK, HistoryPC
<1>6. ASSUME SetActive PROVE HistoryOK'
  <2>1. mine \in Session /\ mine # NoSession
    BY <1>6, MineTyped, ValueAssumption DEF SetActive, At, ValueAssumption, HistoryPC
  <2>2. /\ journal = mine /\ mine.switched
        /\ UNCHANGED <<before, vault, journal, mine>>
        /\ pc' \notin HistoryPC
    BY <1>6 DEF SetActive, At, disk, ghost, HolderOK, PhaseOK, ShapeOK, Shape, HistoryPC
  <2>3. BeforeOK'
    BY <2>2 DEF HistoryOK, BeforeOK, Snapshot, HistoryPC
  <2>4. Unplayed
    BY <1>6 DEF SetActive, At, HolderOK, PhaseOK, Preparation, Unplayed
  <2>5. Kept /\ latest' = latest
    BY <1>6, <2>2, <2>4 DEF SetActive, ghost, HistoryOK, KeptOK
  <2>6. KeptOK'
    BY <2>2, <2>5 DEF HistoryOK, KeptOK, ProgressKept, Kept, HistoryPC
  <2> QED
    BY <2>3, <2>6 DEF HistoryOK, HistoryPC
<1>7. ASSUME CommitSaveOperation PROVE HistoryOK'
  <2>1. mine \in Session /\ mine # NoSession
    BY <1>7, MineTyped, ValueAssumption DEF CommitSaveOperation, At
  <2>2. UNCHANGED <<before, live, active, latest, vault, game>> /\ pc' \notin HistoryPC
    BY <1>7 DEF CommitSaveOperation, At, Release, store, ghost, HistoryPC
  <2>3. journal = mine /\ mine.phase \in Preparation
    BY <1>7 DEF CommitSaveOperation, At, HolderOK, PhaseOK, Preparation
  <2>4. journal' \in {NoSession, mine, InPhase(mine, "SaveCommitted")}
    BY <1>7, <2>3 DEF CommitSaveOperation, Advance, Release, HistoryPC
  <2>5. LET s == InPhase(mine, "SaveCommitted")
        IN  /\ s.prev = mine.prev /\ s.snapshot = mine.snapshot
            /\ s.switched = mine.switched /\ s.phase = "SaveCommitted"
    BY <2>1, InPhaseFields DEF Phase, HistoryPC
  <2> QED
    BY <2>1, <2>2, <2>3, <2>4, <2>5, BeforeFrame DEF Unplayed
<1>8. ASSUME Launch PROVE HistoryOK'
  <2>1. mine \in Session /\ mine # NoSession
    BY <1>8, MineTyped, ValueAssumption DEF Launch, At, ValueAssumption, HistoryPC
  <2>2. journal # NoSession /\ journal = mine
    BY <1>8 DEF Launch, At, HolderOK, PhaseOK
  <2>3. /\ UNCHANGED <<before, live, active, latest, vault, game>> /\ journal' = mine'
        /\ pc' \notin HistoryPC
    BY <1>8, <2>2 DEF Launch, At, Advance, store, procs, ghost, HistoryPC
  <2>4. \/ mine.phase \in {"Preparing", "SwitchingSaves", "Ready"}
        \/ mine.phase = "Launching" /\ mine' \in {mine, Observed(mine)}
    BY <1>8 DEF Launch, At, Advance, PhaseOK, HistoryPC
  <2>5. /\ mine'.prev = mine.prev /\ mine'.snapshot = mine.snapshot
        /\ mine'.switched = mine.switched /\ mine'.run = mine.run
        /\ mine.phase = "Launching" => mine'.phase = "Launching"
    BY <1>8, <2>1, <2>4, InPhaseFields, ObservedFields DEF Launch, Advance, Phase
  <2> QED
    BY <2>2, <2>3, <2>4, <2>5, BeforeFrame DEF Unplayed, Preparation
<1>9. ASSUME Waited PROVE HistoryOK'
  <2>1. mine \in Session /\ mine # NoSession
    BY <1>9, MineTyped, ValueAssumption DEF Waited, ValueAssumption, HistoryPC
  <2>2. /\ journal # NoSession /\ Same(journal, mine) /\ journal.snapshot = mine.snapshot
        /\ journal.phase # "SaveCommitted"
    BY <1>9 DEF Waited, HolderOK, Launched, HistoryPC
  <2>3. /\ UNCHANGED <<before, live, active, latest, vault, game>>
        /\ (journal' = journal \/ journal' = InPhase(mine, "Exited")) /\ pc' \notin HistoryPC
    BY <1>9 DEF Waited, Advance, Release, store, ghost, HistoryPC
  <2>4. LET s == InPhase(mine, "Exited")
        IN  /\ s.prev = mine.prev /\ s.snapshot = mine.snapshot
            /\ s.switched = mine.switched /\ s.phase = "Exited"
    BY <2>1, InPhaseFields DEF Phase, HistoryPC
  <2> QED
    BY <2>2, <2>3, <2>4, BeforeFrame DEF Unplayed, Same, Preparation
<1>10. ASSUME CaptureSession PROVE HistoryOK'
  <2>1. mine \in Session /\ mine # NoSession
    BY <1>10, MineTyped, ValueAssumption DEF CaptureSession, At, ValueAssumption, HistoryPC
  <2>2. journal = NoSession \/ (journal = mine /\ mine.phase \in Played)
    BY <1>10 DEF CaptureSession, At, HolderOK, FinishPC, HistoryPC
  <2>3. /\ UNCHANGED <<before, live, active, latest, game>>
        /\ \/ journal' = journal
           \/ \E ph \in {"Capturing", "Captured"} : journal' = InPhase(mine, ph) /\ journal = mine
        /\ pc' \notin HistoryPC
    BY <1>10 DEF CaptureSession, At, Advance, procs, ghost, HolderOK, PhaseOK, HistoryPC
  <2>4. \A p \in Profile : vault[p] \subseteq vault'[p]
    BY <1>10 DEF CaptureSession, Capture, TypeOK, HistoryPC
  <2>5. \A ph \in {"Capturing", "Captured"} :
            LET s == InPhase(mine, ph)
            IN  /\ s.prev = mine.prev /\ s.snapshot = mine.snapshot
                /\ s.switched = mine.switched /\ s.phase = ph
    BY <2>1, InPhaseFields DEF Phase, HistoryPC
  <2> QED
    BY <2>1, <2>2, <2>3, <2>4, <2>5, BeforeFrame DEF Unplayed, Played, Preparation
<1>11. ASSUME RestorePreparation PROVE HistoryOK'
  <2>1. mine \in Session /\ mine # NoSession
    BY <1>11, MineTyped, ValueAssumption DEF RestorePreparation, At, ValueAssumption, HistoryPC
  <2>2. /\ journal = mine /\ mine.switched
        /\ UNCHANGED <<before, vault, journal, mine>>
        /\ pc' \notin HistoryPC
    BY <1>11 DEF RestorePreparation, At, disk, ghost, HolderOK, PhaseOK, RecoverPC, HistoryPC
  <2>3. BeforeOK'
    BY <2>2 DEF HistoryOK, BeforeOK, Snapshot, HistoryPC
  <2>4. Unplayed
    BY <1>11 DEF RestorePreparation, At, HolderOK, RecoverPC, Unplayed
  <2>5. Kept /\ latest' = latest
    BY <1>11, <2>2, <2>4 DEF RestorePreparation, ghost, HistoryOK, KeptOK
  <2>6. KeptOK'
    BY <2>2, <2>5 DEF HistoryOK, KeptOK, ProgressKept, Kept, HistoryPC
  <2> QED
    BY <2>3, <2>6 DEF HistoryOK, HistoryPC
<1>12. ASSUME NEW p \in Profile, NEW d \in BOOLEAN, RequestStore(p, d) PROVE HistoryOK'
  <2>1. active \in Profile \cup {NoProfile} /\ 0 \in 0..MaxRuns
    BY ConstantAssumption DEF TypeOK, ConstantAssumption
  <2>2. journal'.prev = active /\ ~journal'.switched
    BY <1>12, <2>1, BeginFields, InPhaseFields DEF RequestStore, Phase
  <2>3. /\ before' = [live |-> live, active |-> active]
        /\ UNCHANGED <<live, active, pc, mine>> /\ pc = "idle"
    BY <1>12 DEF RequestStore, store, mem, TypeOK
  <2>4. BeforeOK'
    BY <2>2, <2>3 DEF HistoryOK, BeforeOK
  <2>5. UNCHANGED <<latest, vault>>
    BY <1>12 DEF RequestStore, store
  <2>6. KeptOK'
    BY <2>2, <2>3, <2>5 DEF HistoryOK, KeptOK, ProgressKept, Kept
  <2> QED
    BY <2>4, <2>6 DEF HistoryOK
<1>13. ASSUME NEW p \in Profile, NEW d \in BOOLEAN, Play(p, d) PROVE HistoryOK'
  <2>1. journal'.prev = active /\ ~journal'.switched /\ mine'.snapshot = Empty
    BY <1>13 DEF Play, Acquire, Advance, Begin
  <2>2. /\ before' = [live |-> live, active |-> active] /\ UNCHANGED <<live, active>>
        /\ pc' = "prepared"
    BY <1>13 DEF Play, Acquire, store
  <2>3. BeforeOK'
    BY <2>1, <2>2 DEF HistoryOK, BeforeOK
  <2>4. UNCHANGED <<latest, vault>>
    BY <1>13 DEF Play, store
  <2>5. KeptOK'
    BY <2>1, <2>2, <2>4 DEF HistoryOK, KeptOK, ProgressKept, Kept
  <2> QED
    BY <2>3, <2>5 DEF HistoryOK
<1>14. ASSUME NEW p \in Profile, NEW v \in vault[p], SaveOperation(p, v) PROVE HistoryOK'
  <2>1. journal'.prev = active /\ ~journal'.switched /\ mine'.snapshot = Empty
    BY <1>14 DEF SaveOperation, Acquire, Advance, Begin
  <2>2. /\ before' = [live |-> live, active |-> active] /\ UNCHANGED <<live, active>>
        /\ pc' = "deployed"
    BY <1>14 DEF SaveOperation, Acquire, store
  <2>3. BeforeOK'
    BY <2>1, <2>2 DEF HistoryOK, BeforeOK
  <2>4. UNCHANGED <<latest, vault>>
    BY <1>14 DEF SaveOperation, store
  <2>5. KeptOK'
    BY <2>1, <2>2, <2>4 DEF HistoryOK, KeptOK, ProgressKept, Kept
  <2> QED
    BY <2>3, <2>5 DEF HistoryOK
<1>15. ASSUME NEW r \in Run, WorkerFinishes(r) PROVE HistoryOK'
  <2>1. /\ UNCHANGED <<before, live, active, latest, vault, journal, game>>
        /\ (pc' = "complete" \/ UNCHANGED <<pc, mine>>)
    BY <1>15 DEF WorkerFinishes, WUnchanged, disk, store, ghost
  <2> QED
    BY <2>1, BeforeFrame DEF Unplayed, HistoryPC
<1>16. ASSUME NEW r \in Run, StartGame(r) PROVE HistoryOK'
  <2>1. UNCHANGED <<before, live, active, latest, vault, pc, mine>>
    BY <1>16 DEF StartGame, SUnchanged, store, mem, ghost
  <2>2. CASE spc[r] = "journalling"
    <3>1. /\ journal \in Session /\ smine[r] = journal /\ journal # NoSession
          /\ journal.phase = "Launching" /\ journal.run = r
          /\ (game[r] = "no" \/ spc[r] # "failing")
      BY <2>2 DEF SupervisorOK, OwnPC, TypeOK, HistoryPC
    <3>2. journal' = InPhase(journal, "Running")
      BY <1>16, <2>2, <3>1 DEF StartGame, SGoto, HistoryPC
    <3>3. /\ journal'.prev = journal.prev /\ journal'.snapshot = journal.snapshot
          /\ journal'.switched = journal.switched /\ journal'.phase = "Running"
      BY <3>1, <3>2, InPhaseFields DEF Phase, HistoryPC
    <3> QED
      BY <2>1, <3>1, <3>3, BeforeFrame DEF Unplayed, Preparation
  <2>3. CASE spc[r] # "journalling"
    <3>1. journal' = journal /\ (game' = game \/ game' = [game EXCEPT ![r] = "running"])
      BY <1>16, <2>3 DEF StartGame, SGoto, HistoryPC
    <3>2. journal # NoSession /\ journal.phase = "Launching" => journal.run \in Run
      BY DEF ShapeOK, Shape, Played, HistoryPC
    <3>3. Unplayed' => Unplayed
      BY <3>2, <3>1 DEF Unplayed, TypeOK, HistoryPC
    <3> QED
      BY <2>1, <3>1, <3>3, BeforeFrame DEF Unplayed, HistoryPC
  <2> QED
    BY <2>2, <2>3 DEF HistoryPC
<1>17. ASSUME NEW r \in Run, StartFails(r) PROVE HistoryOK'
  <2>1. UNCHANGED <<before, live, active, latest, vault, pc, mine>>
    BY <1>17 DEF StartFails, SUnchanged, store, mem, ghost
  <2>2. CASE spc[r] = "failing"
    <3>1. /\ journal \in Session /\ smine[r] = journal /\ journal # NoSession
          /\ journal.phase = "Launching" /\ journal.run = r
          /\ (game[r] = "no" \/ spc[r] # "failing")
      BY <2>2 DEF SupervisorOK, OwnPC, TypeOK, HistoryPC
    <3>2. journal' = InPhase(journal, "Ready")
      BY <1>17, <2>2, <3>1 DEF StartFails, SGoto, HistoryPC
    <3>3. /\ journal'.prev = journal.prev /\ journal'.snapshot = journal.snapshot
          /\ journal'.switched = journal.switched /\ journal'.phase = "Ready"
      BY <3>1, <3>2, InPhaseFields DEF Phase, HistoryPC
    <3> QED
      BY <2>1, <2>2, <3>1, <3>3, BeforeFrame DEF Unplayed
  <2>3. CASE spc[r] # "failing"
    <3>1. journal' = journal /\ (game' = game \/ game' = [game EXCEPT ![r] = "running"])
      BY <1>17, <2>3 DEF StartFails, SGoto, HistoryPC
    <3>2. journal # NoSession /\ journal.phase = "Launching" => journal.run \in Run
      BY DEF ShapeOK, Shape, Played, HistoryPC
    <3>3. Unplayed' => Unplayed
      BY <3>2, <3>1 DEF Unplayed, TypeOK, HistoryPC
    <3> QED
      BY <2>1, <3>1, <3>3, BeforeFrame DEF Unplayed, HistoryPC
  <2> QED
    BY <2>2, <2>3 DEF HistoryPC
<1>18. ASSUME NEW r \in Run, GameSaves(r) PROVE HistoryOK'
  <2>1. UNCHANGED <<before, active, vault, pc, mine, journal, game>> /\ game[r] = "running"
    BY <1>18 DEF GameSaves, disk, mem, procs
  <2>2. ~Unplayed
    BY <2>1 DEF SupervisorOK, Unplayed, Launched, Preparation
  <2>3. BeforeOK'
    BY <2>1, <2>2 DEF HistoryOK, BeforeOK, Unplayed, Snapshot
  <2>4. pc # "captured"
    BY <2>1, HolderAlone DEF Silent
  <2>5. /\ latest' = [latest EXCEPT ![live.of] = live']
        /\ live' = [live EXCEPT !.n = saves + 1] /\ live \in Version
    BY <1>18 DEF GameSaves
  <2>6. live'.of = live.of /\ live.of \in Profile
    BY <2>5 DEF Version
  <2>7. \A p \in Profile : latest'[p] = IF p = live.of THEN live' ELSE latest[p]
    BY <2>5, <2>6 DEF TypeOK
  <2>8. \A p \in Profile : p # live.of => latest[p] \in vault[p]
    BY DEF HistoryOK, KeptOK, ProgressKept
  <2>9. KeptOK'
    BY <2>1, <2>2, <2>4, <2>6, <2>7 DEF HistoryOK, KeptOK, ProgressKept, Unplayed
  <2> QED
    BY <2>3, <2>9 DEF HistoryOK
<1>19. ASSUME NEW r \in Run, GameExits(r) PROVE HistoryOK'
  <2>1. /\ UNCHANGED <<before, live, active, latest, vault, pc, mine, journal>>
        /\ game[r] = "running" /\ game' = [game EXCEPT ![r] = "over"]
    BY <1>19 DEF GameExits, disk, store, mem, ghost
  <2>2. Unplayed' => Unplayed
    BY <2>1 DEF Unplayed, TypeOK, HistoryPC
  <2> QED
    BY <2>1, <2>2, BeforeFrame DEF Unplayed, HistoryPC
<1>20. ASSUME Restart PROVE HistoryOK'
  <2>1. UNCHANGED <<before, live, active, latest, vault, journal>> /\ pc' \notin HistoryPC
    BY <1>20 DEF Restart, disk, store, ghost, HistoryPC
  <2>2. \A r \in Run : game'[r] = "no" => game[r] = "no"
    BY <1>20 DEF Restart, HistoryPC
  <2>3. journal # NoSession /\ journal.phase = "Launching" => journal.run \in Run
    BY DEF ShapeOK, Shape, Played, HistoryPC
  <2>4. Unplayed' => Unplayed
    BY <2>1, <2>2, <2>3 DEF Unplayed, HistoryPC
  <2> QED
    BY <2>1, <2>4, BeforeFrame DEF Unplayed, HistoryPC
<1>21. ASSUME Spawn \/ Analysed \/ (\E confirm \in BOOLEAN : Finish(confirm)) \/ Recover
              \/ HolderDies
       PROVE  HistoryOK'
  <2>1. UNCHANGED <<before, live, active, latest, vault, journal, game>> /\ pc' \notin HistoryPC
    BY <1>21 DEF Spawn, Analysed, Finish, Recover, HolderDies, At, disk, store, procs, ghost,
       Release, HistoryPC
  <2> QED
    BY <2>1, BeforeFrame DEF Unplayed, HistoryPC
<1>22. ASSUME Complete \/ Recovered PROVE HistoryOK'
  <2>1. /\ UNCHANGED <<before, live, active, latest, vault, game>>
        /\ (journal' = journal \/ journal' = NoSession) /\ pc' \notin HistoryPC
    BY <1>22 DEF Complete, Recovered, At, store, procs, ghost, Release, HistoryPC
  <2> QED
    BY <2>1, BeforeFrame DEF Unplayed, HistoryPC
<1>23. ASSUME NEW r \in Run, Bystander(r) PROVE HistoryOK'
  <2>1. UNCHANGED <<before, live, active, latest, vault, journal, game>> /\ UNCHANGED <<pc, mine>>
    BY <1>23, Bystanders DEF HistoryPC
  <2> QED
    BY <2>1, BeforeFrame DEF Unplayed, HistoryPC
<1> QED
  BY <1>1, <1>2, <1>3, <1>4, <1>5, <1>6, <1>7, <1>8, <1>9, <1>10, <1>11, <1>12, <1>13, <1>14,
     <1>15, <1>16, <1>17, <1>18, <1>19, <1>20, <1>21, <1>22, <1>23 DEF Next, Holder, User,
     Failure, Worker, Supervisor, Game, Bystander

---------------------------------------------------------------------------
(* The evidence of a completed game *)

\* Every step keeps completed games out of recovery
LEMMA EvidenceStep ==
    ASSUME TypeOK, ShapeOK, RunsOK, SupervisorOK, EvidenceOK, HolderOK, PhaseOK, Next
    PROVE  EvidenceOK'
<1>1. ASSUME StartDeploy PROVE EvidenceOK'
  <2>1. mine \in Session /\ mine # NoSession
    BY <1>1, MineTyped, ValueAssumption DEF StartDeploy, At, ValueAssumption
  <2>2. journal' = mine' /\ mine'.run = mine.run /\ evidence' = evidence /\ pc \in PreparePC
    BY <1>1, <2>1, DeployStartedFields DEF StartDeploy, At, Advance, HolderOK, PreparePC
  <2>3. mine.run \in Run => evidence[mine.run] = "none"
    BY <2>2 DEF HolderOK, SupervisorOK, PreparePC
  <2> QED
    BY <2>2, <2>3 DEF EvidenceOK
<1>2. ASSUME Deploy PROVE EvidenceOK'
  <2>1. UNCHANGED <<journal, evidence>>
    BY <1>2 DEF Deploy
  <2> QED
    BY <2>1 DEF EvidenceOK
<1>3. ASSUME CaptureOutgoing PROVE EvidenceOK'
  <2>1. UNCHANGED <<journal, evidence>>
    BY <1>3 DEF CaptureOutgoing, disk
  <2> QED
    BY <2>1 DEF EvidenceOK
<1>4. ASSUME MarkSwitch PROVE EvidenceOK'
  <2>1. mine \in Session /\ mine # NoSession
    BY <1>4, MineTyped, ValueAssumption DEF MarkSwitch, At, ValueAssumption
  <2>2. journal' = mine' /\ mine'.run = mine.run /\ evidence' = evidence /\ pc \in PreparePC
    BY <1>4, <2>1, SwitchingFields DEF MarkSwitch, At, Advance, PreparePC
  <2>3. mine.run \in Run => evidence[mine.run] = "none"
    BY <2>2 DEF HolderOK, SupervisorOK, PreparePC
  <2> QED
    BY <2>2, <2>3 DEF EvidenceOK
<1>5. ASSUME ReplaceSaves PROVE EvidenceOK'
  <2>1. UNCHANGED <<journal, evidence>>
    BY <1>5 DEF ReplaceSaves, disk
  <2> QED
    BY <2>1 DEF EvidenceOK
<1>6. ASSUME SetActive PROVE EvidenceOK'
  <2>1. UNCHANGED <<journal, evidence>>
    BY <1>6 DEF SetActive, disk
  <2> QED
    BY <2>1 DEF EvidenceOK
<1>7. ASSUME CommitSaveOperation PROVE EvidenceOK'
  <2>1. mine \in Session /\ mine # NoSession
    BY <1>7, MineTyped, ValueAssumption DEF CommitSaveOperation, At, Release, ValueAssumption
  <2>2. journal' = NoSession \/ journal' = mine \/ journal' = InPhase(mine, "SaveCommitted")
    BY <1>7 DEF CommitSaveOperation, At, Advance, HolderOK
  <2>3. evidence' = evidence /\ InPhase(mine, "SaveCommitted").run = mine.run
    BY <1>7, <2>1, InPhaseFields DEF CommitSaveOperation, Phase
  <2>4. mine.run \notin Run
    BY <1>7 DEF CommitSaveOperation, At, HolderOK, PhaseOK, PreparePC
  <2> QED
    BY <2>2, <2>3, <2>4 DEF EvidenceOK
<1>8. ASSUME Launch PROVE EvidenceOK'
  <2>1. mine \in Session /\ mine # NoSession
    BY <1>8, MineTyped, ValueAssumption DEF Launch, At, ValueAssumption
  <2>2. mine' \in {mine, Observed(mine), InPhase(mine, "Ready"), InPhase(mine, "Launching")}
    BY <1>8 DEF Launch, At, Advance
  <2>3. mine'.run = mine.run
    BY <2>1, <2>2, InPhaseFields, ObservedFields DEF Phase
  <2>4. journal' = mine' /\ evidence' = evidence /\ pc \in PreparePC
    BY <1>8 DEF Launch, At, Advance, HolderOK, PreparePC
  <2>5. mine.run \in Run => evidence[mine.run] = "none"
    BY <1>8, <2>4 DEF Launch, At, HolderOK, SupervisorOK, PreparePC
  <2> QED
    BY <2>3, <2>4, <2>5 DEF EvidenceOK
<1>9. ASSUME Spawn PROVE EvidenceOK'
  <2>1. UNCHANGED <<journal, evidence>>
    BY <1>9 DEF Spawn, disk
  <2> QED
    BY <2>1 DEF EvidenceOK
<1>10. ASSUME Waited PROVE EvidenceOK'
  <2>1. mine \in Session /\ mine # NoSession
    BY <1>10, MineTyped, ValueAssumption DEF Waited, ValueAssumption
  <2>2. (journal' = journal \/ journal' = InPhase(mine, "Exited")) /\ evidence' = evidence
    BY <1>10 DEF Waited, Advance
  <2>3. InPhase(mine, "Exited").phase \in Played
    BY <2>1, InPhaseFields DEF Phase, Played
  <2> QED
    BY <2>2, <2>3 DEF EvidenceOK
<1>11. ASSUME CaptureSession PROVE EvidenceOK'
  <2>1. mine \in Session /\ mine # NoSession
    BY <1>11, MineTyped, ValueAssumption DEF CaptureSession, At, ValueAssumption
  <2>2. /\ \/ journal' = journal
           \/ \E ph \in {"Capturing", "Captured"} : journal' = InPhase(mine, ph)
        /\ evidence' = evidence
    BY <1>11 DEF CaptureSession, Advance
  <2>3. \A ph \in {"Capturing", "Captured"} : InPhase(mine, ph).phase \in Played
    BY <2>1, InPhaseFields DEF Phase, Played
  <2> QED
    BY <2>2, <2>3 DEF EvidenceOK
<1>12. ASSUME Complete PROVE EvidenceOK'
  <2>1. (journal' = journal \/ journal' = NoSession) /\ evidence' = evidence
    BY <1>12 DEF Complete
  <2> QED
    BY <2>1 DEF EvidenceOK
<1>13. ASSUME Analysed PROVE EvidenceOK'
  <2>1. UNCHANGED <<journal, evidence>>
    BY <1>13 DEF Analysed
  <2> QED
    BY <2>1 DEF EvidenceOK
<1>14. ASSUME RestorePreparation PROVE EvidenceOK'
  <2>1. UNCHANGED <<journal, evidence>>
    BY <1>14 DEF RestorePreparation, disk
  <2> QED
    BY <2>1 DEF EvidenceOK
<1>15. ASSUME Recovered PROVE EvidenceOK'
  <2>1. (journal' = journal \/ journal' = NoSession) /\ evidence' = evidence
    BY <1>15 DEF Recovered
  <2> QED
    BY <2>1 DEF EvidenceOK
<1>16. ASSUME NEW p \in Profile, NEW d \in BOOLEAN, RequestStore(p, d) PROVE EvidenceOK'
  <2>1. active \in Profile \cup {NoProfile} /\ 0 \in 0..MaxRuns /\ 0 \notin Run
    BY ConstantAssumption DEF TypeOK, ConstantAssumption, Run
  <2>2. journal'.run = 0 /\ evidence' = evidence
    BY <1>16, <2>1, BeginFields, InPhaseFields DEF RequestStore, Phase
  <2> QED
    BY <2>1, <2>2 DEF EvidenceOK
<1>17. ASSUME NEW p \in Profile, NEW d \in BOOLEAN, Play(p, d) PROVE EvidenceOK'
  <2>1. journal'.run = runs + 1 /\ evidence' = evidence
    BY <1>17 DEF Play, Acquire, Advance, Begin
  <2>2. \A r \in Run : r = runs + 1 => evidence[r] = "none"
    BY DEF RunsOK, TypeOK
  <2> QED
    BY <2>1, <2>2 DEF EvidenceOK
<1>18. ASSUME NEW p \in Profile, NEW v \in vault[p], SaveOperation(p, v) PROVE EvidenceOK'
  <2>1. 0 \notin Run
    BY ConstantAssumption DEF ConstantAssumption, Run
  <2>2. journal'.run = 0 /\ evidence' = evidence
    BY <1>18 DEF SaveOperation, Acquire, Advance, Begin
  <2> QED
    BY <2>1, <2>2 DEF EvidenceOK
<1>19. ASSUME NEW confirm \in BOOLEAN, Finish(confirm) PROVE EvidenceOK'
  <2>1. UNCHANGED <<journal, evidence>>
    BY <1>19 DEF Finish, disk
  <2> QED
    BY <2>1 DEF EvidenceOK
<1>20. ASSUME Recover PROVE EvidenceOK'
  <2>1. UNCHANGED <<journal, evidence>>
    BY <1>20 DEF Recover, disk
  <2> QED
    BY <2>1 DEF EvidenceOK
<1>21. ASSUME NEW r \in Run, WorkerLeaves(r) PROVE EvidenceOK'
  <2>1. UNCHANGED <<journal, evidence>>
    BY <1>21 DEF WorkerLeaves, WUnchanged, disk
  <2> QED
    BY <2>1 DEF EvidenceOK
<1>22. ASSUME NEW r \in Run, WorkerDoubts(r) PROVE EvidenceOK'
  <2>1. UNCHANGED <<journal, evidence>>
    BY <1>22 DEF WorkerDoubts, WUnchanged, disk
  <2> QED
    BY <2>1 DEF EvidenceOK
<1>23. ASSUME NEW r \in Run, WorkerProbes(r) PROVE EvidenceOK'
  <2>1. UNCHANGED <<journal, evidence>>
    BY <1>23 DEF WorkerProbes, WUnchanged, disk
  <2> QED
    BY <2>1 DEF EvidenceOK
<1>24. ASSUME NEW r \in Run, WorkerBails(r) PROVE EvidenceOK'
  <2>1. UNCHANGED <<journal, evidence>>
    BY <1>24 DEF WorkerBails, WUnchanged, disk
  <2> QED
    BY <2>1 DEF EvidenceOK
<1>25. ASSUME NEW r \in Run, WorkerFinishes(r) PROVE EvidenceOK'
  <2>1. UNCHANGED <<journal, evidence>>
    BY <1>25 DEF WorkerFinishes, WUnchanged, disk
  <2> QED
    BY <2>1 DEF EvidenceOK
<1>26. ASSUME NEW r \in Run, WorkerGivesUp(r) PROVE EvidenceOK'
  <2>1. UNCHANGED <<journal, evidence>>
    BY <1>26 DEF WorkerGivesUp, WUnchanged, disk
  <2> QED
    BY <2>1 DEF EvidenceOK
<1>27. ASSUME NEW r \in Run, SupervisorLocks(r) PROVE EvidenceOK'
  <2>1. UNCHANGED <<journal, evidence>>
    BY <1>27 DEF SupervisorLocks
  <2> QED
    BY <2>1 DEF EvidenceOK
<1>28. ASSUME NEW r \in Run, SupervisorChecks(r) PROVE EvidenceOK'
  <2>1. UNCHANGED <<journal, evidence>>
    BY <1>28 DEF SupervisorChecks
  <2> QED
    BY <2>1 DEF EvidenceOK
<1>29. ASSUME NEW r \in Run, Consume(r) PROVE EvidenceOK'
  <2>1. /\ UNCHANGED journal
        /\ (evidence' = evidence \/ evidence' = [evidence EXCEPT ![r] = "begun"])
    BY <1>29 DEF Consume
  <2> QED
    BY <2>1 DEF EvidenceOK, TypeOK
<1>30. ASSUME NEW r \in Run, StartGame(r) PROVE EvidenceOK'
  <2>1. CASE spc[r] = "journalling"
    <3>1. journal \in Session /\ smine[r] = journal /\ evidence' = evidence
      BY <1>30, <2>1 DEF StartGame, SGoto, SupervisorOK, OwnPC, TypeOK
    <3>2. journal' = InPhase(journal, "Running")
      BY <1>30, <2>1, <3>1 DEF StartGame, SGoto
    <3> QED
      BY <3>1, <3>2, InPhaseFields DEF EvidenceOK, Phase, Played
  <2>2. CASE spc[r] # "journalling"
    <3>1. /\ UNCHANGED journal
          /\ (evidence' = evidence \/ evidence' = [evidence EXCEPT ![r] = "started"])
      BY <1>30, <2>2 DEF StartGame, SGoto
    <3> QED
      BY <3>1 DEF EvidenceOK, TypeOK
  <2> QED
    BY <2>1, <2>2
<1>31. ASSUME NEW r \in Run, StartFails(r) PROVE EvidenceOK'
  <2>1. CASE spc[r] = "failing"
    <3>1. /\ journal \in Session /\ smine[r] = journal /\ evidence' = evidence
          /\ journal.run = r /\ evidence[r] = "failed"
      BY <1>31, <2>1 DEF StartFails, SGoto, SupervisorOK, OwnPC, TypeOK
    <3>2. journal' = InPhase(journal, "Ready")
      BY <1>31, <2>1, <3>1 DEF StartFails, SGoto
    <3> QED
      BY <3>1, <3>2, InPhaseFields DEF EvidenceOK, Phase, Played
  <2>2. CASE spc[r] # "failing"
    <3>1. /\ UNCHANGED journal
          /\ (evidence' = evidence \/ evidence' = [evidence EXCEPT ![r] = "failed"])
      BY <1>31, <2>2 DEF StartFails, SGoto
    <3> QED
      BY <3>1 DEF EvidenceOK, TypeOK
  <2> QED
    BY <2>1, <2>2
<1>32. ASSUME NEW r \in Run, Reaped(r) PROVE EvidenceOK'
  <2>1. /\ UNCHANGED journal
        /\ \/ evidence' = evidence
           \/ spc[r] = "reaping" /\ evidence' = [evidence EXCEPT ![r] = "completed"]
    BY <1>32 DEF Reaped, SGoto
  <2>2. spc[r] = "reaping" => journal.phase \in Played
    BY DEF SupervisorOK, Launched, Played
  <2> QED
    BY <2>1, <2>2 DEF EvidenceOK, TypeOK
<1>33. ASSUME NEW r \in Run, GameSaves(r) PROVE EvidenceOK'
  <2>1. UNCHANGED <<journal, evidence>>
    BY <1>33 DEF GameSaves, disk
  <2> QED
    BY <2>1 DEF EvidenceOK
<1>34. ASSUME NEW r \in Run, GameExits(r) PROVE EvidenceOK'
  <2>1. UNCHANGED <<journal, evidence>>
    BY <1>34 DEF GameExits, disk
  <2> QED
    BY <2>1 DEF EvidenceOK
<1>35. ASSUME HolderDies PROVE EvidenceOK'
  <2>1. UNCHANGED <<journal, evidence>>
    BY <1>35 DEF HolderDies, disk
  <2> QED
    BY <2>1 DEF EvidenceOK
<1>36. ASSUME Restart PROVE EvidenceOK'
  <2>1. UNCHANGED <<journal, evidence>>
    BY <1>36 DEF Restart, disk
  <2> QED
    BY <2>1 DEF EvidenceOK
<1>37. ASSUME NEW r \in Run, ReportFails(r) PROVE EvidenceOK'
  <2>1. UNCHANGED <<journal, evidence>>
    BY <1>37 DEF ReportFails, disk
  <2> QED
    BY <2>1 DEF EvidenceOK
<1>38. ASSUME NEW r \in Run, SupervisorDies(r) PROVE EvidenceOK'
  <2>1. UNCHANGED <<journal, evidence>>
    BY <1>38 DEF SupervisorDies, disk
  <2> QED
    BY <2>1 DEF EvidenceOK
<1>39. ASSUME NEW r \in Run, WorkerDies(r) PROVE EvidenceOK'
  <2>1. UNCHANGED <<journal, evidence>>
    BY <1>39 DEF WorkerDies, disk
  <2> QED
    BY <2>1 DEF EvidenceOK
<1> QED
  BY <1>1, <1>2, <1>3, <1>4, <1>5, <1>6, <1>7, <1>8, <1>9, <1>10, <1>11, <1>12, <1>13, <1>14,
     <1>15, <1>16, <1>17, <1>18, <1>19, <1>20, <1>21, <1>22, <1>23, <1>24, <1>25, <1>26, <1>27,
     <1>28, <1>29, <1>30, <1>31, <1>32, <1>33, <1>34, <1>35, <1>36, <1>37, <1>38, <1>39 DEF
     Next, Holder, User, Failure, Worker, Supervisor, Game

---------------------------------------------------------------------------
(* The saves in place *)

\* A step that leaves the saves and the journal alone
LEMMA SettledFrame ==
    ASSUME SettledOK, UNCHANGED <<live, active, journal>>,
           \/ pc' \notin SettledPC
           \/ UNCHANGED <<pc, mine, to>>
    PROVE  SettledOK'
BY DEF SettledOK, Settled, SettledPC

\* The saves in place are the active profile's, and stay
LEMMA SettledNow ==
    ASSUME Settled, UNCHANGED <<live, active>>,
           journal' # NoSession /\ journal'.phase \in Played => active = journal'.profile,
           pc' \notin {"replaced", "activating"},
           pc' \in {"switched", "operated", "committing", "ready", "launching"} =>
               active = mine'.profile
    PROVE  SettledOK'
BY DEF SettledOK, Settled, SettledPC

\* Every step keeps the saves in place those of the active profile
LEMMA SettledStep ==
    ASSUME TypeOK, ShapeOK, SupervisorOK, EvidenceOK, HolderOK, PhaseOK, VaultOK, HistoryOK,
           SettledOK, Next
    PROVE  SettledOK'
<1>1. ASSUME StartDeploy PROVE SettledOK'
  <2>1. mine \in Session /\ mine # NoSession
    BY <1>1, MineTyped, ValueAssumption DEF StartDeploy, At, ValueAssumption, SettledPC
  <2>2. journal = mine /\ mine.phase = "Preparing" /\ ~mine.switched
    BY <1>1 DEF StartDeploy, At, HolderOK, PhaseOK, ShapeOK, Shape
  <2>3. Settled
    BY <2>1, <2>2 DEF SettledOK, SettledPC
  <2>4. /\ journal'.phase = "Preparing" /\ pc' \in {"deploying", "deployed"}
        /\ UNCHANGED <<live, active>>
    BY <1>1, <2>1, <2>2, DeployStartedFields DEF StartDeploy, At, Advance, store
  <2> QED
    BY <2>3, <2>4, SettledNow DEF Played, SettledPC
<1>2. ASSUME CaptureOutgoing PROVE SettledOK'
  <2>1. mine \in Session /\ mine # NoSession
    BY <1>2, MineTyped, ValueAssumption DEF CaptureOutgoing, ValueAssumption, SettledPC
  <2>2. journal = mine /\ mine.phase = "Preparing" /\ ~mine.switched
    BY <1>2 DEF CaptureOutgoing, HolderOK, PhaseOK, ShapeOK, Shape
  <2>3. Settled
    BY <2>1, <2>2 DEF SettledOK, SettledPC
  <2>4. /\ UNCHANGED <<live, active, journal>>
        /\ (pc' = "captured" \/ (pc' = "switched" /\ mine' = mine /\ active = mine.profile))
    BY <1>2 DEF CaptureOutgoing, disk
  <2> QED
    BY <2>2, <2>3, <2>4, SettledNow DEF Played, SettledPC
<1>3. ASSUME MarkSwitch PROVE SettledOK'
  <2>1. mine \in Session /\ mine # NoSession
    BY <1>3, MineTyped, ValueAssumption DEF MarkSwitch, At, ValueAssumption
  <2>2. /\ journal' # NoSession /\ journal'.phase = "SwitchingSaves" /\ journal'.switched
        /\ pc' = "marked"
    BY <1>3, <2>1, SwitchingFields, ValueAssumption DEF MarkSwitch, At, Advance
  <2> QED
    BY <2>2 DEF SettledOK, Played
<1>4. ASSUME ReplaceSaves PROVE SettledOK'
  <2>1. mine \in Session /\ mine # NoSession
    BY <1>4, MineTyped, ValueAssumption DEF ReplaceSaves, At, ValueAssumption
  <2>2. journal = mine /\ mine.phase = "SwitchingSaves" /\ mine.switched
    BY <1>4 DEF ReplaceSaves, At, HolderOK, PhaseOK, ShapeOK, Shape
  <2>3. /\ UNCHANGED <<journal, mine, to>>
        /\ (pc' = "replacing saves" \/ (pc' = "replaced" /\ live' = to))
    BY <1>4 DEF ReplaceSaves, At, disk
  <2> QED
    BY <2>1, <2>2, <2>3 DEF SettledOK, Played
<1>5. ASSUME SetActive PROVE SettledOK'
  <2>1. mine \in Session /\ mine # NoSession
    BY <1>5, MineTyped, ValueAssumption DEF SetActive, At, ValueAssumption
  <2>2. /\ journal = mine /\ mine.phase = "SwitchingSaves" /\ mine.profile \in Profile
        /\ to \in vault[mine.profile] /\ live = to
    BY <1>5, <2>1, SessionFields DEF SetActive, At, HolderOK, PhaseOK, VaultOK, SettledOK
  <2>3. live \in Version /\ live.of = mine.profile /\ mine.profile # NoProfile
    BY <2>2, ConstantAssumption DEF VaultOK, VaultPure, ConstantAssumption
  <2>4. /\ UNCHANGED <<journal, mine, live>> /\ active' = mine.profile
        /\ pc' \in {"switched", "operated"}
    BY <1>5 DEF SetActive, At, disk
  <2> QED
    BY <2>1, <2>2, <2>3, <2>4 DEF SettledOK, Settled, Played
<1>6. ASSUME CommitSaveOperation PROVE SettledOK'
  <2>1. mine \in Session /\ mine # NoSession
    BY <1>6, MineTyped, ValueAssumption DEF CommitSaveOperation, At
  <2>2. CASE pc = "operated"
    <3>1. Settled /\ active = mine.profile /\ journal = mine /\ mine.phase = "SwitchingSaves"
      BY <2>2 DEF SettledOK, HolderOK, PhaseOK, PreparePC, SettledPC
    <3>2. pc' = "committing" /\ UNCHANGED <<live, active, journal, mine>>
      BY <1>6, <2>2 DEF CommitSaveOperation, At, store
    <3> QED
      BY <3>1, <3>2, SettledNow DEF Played, SettledPC
  <2>3. CASE pc = "committing"
    <3>1. Settled
      BY <2>3 DEF SettledOK, SettledPC
    <3>2. /\ pc' = "committed" /\ UNCHANGED <<live, active>>
          /\ journal' = InPhase(mine, "SaveCommitted")
      BY <1>6, <2>3 DEF CommitSaveOperation, At, Advance, store
    <3>3. journal'.phase = "SaveCommitted"
      BY <2>1, <3>2, InPhaseFields DEF Phase, SettledPC
    <3> QED
      BY <3>1, <3>2, <3>3, SettledNow DEF Played, SettledPC
  <2>4. CASE pc = "committed"
    <3>1. Settled
      BY <2>1, <2>4 DEF SettledOK, HolderOK, PhaseOK, PreparePC, SettledPC
    <3>2. pc' = "idle" /\ UNCHANGED <<live, active>> /\ journal' = NoSession
      BY <1>6, <2>4 DEF CommitSaveOperation, At, Release, store
    <3> QED
      BY <3>1, <3>2, SettledNow DEF SettledPC
  <2> QED
    BY <1>6, <2>2, <2>3, <2>4 DEF CommitSaveOperation, At, SettledPC
<1>7. ASSUME Launch PROVE SettledOK'
  <2>1. mine \in Session /\ mine # NoSession
    BY <1>7, MineTyped, ValueAssumption DEF Launch, At, ValueAssumption, SettledPC
  <2>2. journal = mine /\ UNCHANGED <<live, active>> /\ journal' = mine'
    BY <1>7 DEF Launch, At, Advance, store, HolderOK, PreparePC
  <2>3. Settled /\ active = mine.profile
    BY <1>7, <2>1, <2>2 DEF Launch, At, PhaseOK, SettledOK, Played
  <2>4. mine' \in {mine, Observed(mine), InPhase(mine, "Ready"), InPhase(mine, "Launching")}
    BY <1>7 DEF Launch, At, Advance, SettledPC
  <2>5. mine'.profile = mine.profile
    BY <2>1, <2>4, InPhaseFields, ObservedFields DEF Phase, SettledPC
  <2>6. pc' \notin {"replaced", "activating"}
    BY <1>7 DEF Launch, At, SettledPC
  <2> QED
    BY <2>2, <2>3, <2>5, <2>6, SettledNow DEF SettledPC
<1>8. ASSUME Waited PROVE SettledOK'
  <2>1. mine \in Session /\ mine # NoSession
    BY <1>8, MineTyped, ValueAssumption DEF Waited, ValueAssumption, SettledPC
  <2>2. CASE evidence[mine.run] = "completed" /\ observer[mine.run] = "free"
    <3>1. mine.run \in Run /\ journal # NoSession /\ Same(journal, mine)
      BY <1>8 DEF Waited, HolderOK, PhaseOK, SettledPC
    <3>2. journal.phase \in Played
      BY <2>2, <3>1 DEF EvidenceOK, Same, SettledPC
    <3>3. Settled /\ active = mine.profile
      BY <3>1, <3>2 DEF SettledOK, Played, Same, SettledPC
    <3>4. UNCHANGED <<live, active>> /\ journal' = InPhase(mine, "Exited") /\ pc' = "complete"
      BY <1>8, <2>2 DEF Waited, Advance, store
    <3>5. journal'.profile = mine.profile
      BY <2>1, <3>4, InPhaseFields DEF Phase, SettledPC
    <3> QED
      BY <3>3, <3>4, <3>5, SettledNow DEF SettledPC
  <2>3. CASE ~(evidence[mine.run] = "completed" /\ observer[mine.run] = "free")
    <3>1. UNCHANGED <<live, active, journal>> /\ pc' = "idle"
      BY <1>8, <2>3 DEF Waited, Release, store
    <3> QED
      BY <3>1, SettledFrame DEF SettledPC
  <2> QED
    BY <2>2, <2>3 DEF SettledPC
<1>9. ASSUME CaptureSession PROVE SettledOK'
  <2>1. mine \in Session /\ mine # NoSession
    BY <1>9, MineTyped, ValueAssumption DEF CaptureSession, At, ValueAssumption, SettledPC
  <2>2. /\ pc' \notin SettledPC
        /\ UNCHANGED <<live, active>>
        /\ \/ journal' = journal
           \/ \E ph \in {"Capturing", "Captured"} : journal' = InPhase(mine, ph) /\ journal = mine
    BY <1>9 DEF CaptureSession, At, Advance, HolderOK, PhaseOK, SettledPC
  <2>3. journal = mine => Settled /\ active = mine.profile
    BY <1>9 DEF CaptureSession, At, HolderOK, FinishPC, SettledOK, Played
  <2>4. \A ph \in {"Capturing", "Captured"} : InPhase(mine, ph).profile = mine.profile
    BY <2>1, InPhaseFields DEF Phase, SettledPC
  <2> QED
    BY <2>2, <2>3, <2>4, SettledFrame, SettledNow DEF SettledPC
<1>10. ASSUME Complete PROVE SettledOK'
  <2>1. mine \in Session /\ mine # NoSession
    BY <1>10, MineTyped, ValueAssumption DEF Complete, At, ValueAssumption, SettledPC
  <2>2. /\ pc' \notin SettledPC /\ UNCHANGED <<live, active>>
        /\ (journal' = journal \/ journal' = NoSession)
    BY <1>10 DEF Complete, At, store, SettledPC
  <2>3. Settled
    BY <1>10 DEF Complete, At, HolderOK, PhaseOK, SettledOK
  <2> QED
    BY <2>2, <2>3, SettledFrame, SettledNow DEF SettledPC
<1>11. ASSUME RestorePreparation PROVE SettledOK'
  <2>1. mine \in Session /\ mine # NoSession
    BY <1>11, MineTyped, ValueAssumption DEF RestorePreparation, At, ValueAssumption
  <2>2. journal = mine /\ mine.switched /\ mine.phase \in {"SwitchingSaves", "Ready"}
    BY <1>11 DEF RestorePreparation, At, HolderOK, PhaseOK, RecoverPC, Preparation, ShapeOK, Shape
  <2>3. Snapshot(mine) /\ mine.prev \in Profile \cup {NoProfile}
    BY <2>1, <2>2, SessionFields DEF HistoryOK, BeforeOK
  <2>4. UNCHANGED <<journal, mine>>
    BY <1>11 DEF RestorePreparation, disk
  <2>5. CASE pc \in {"restoring", "restoring saves"}
    <3>1. pc' = "restoring saves" \/ (pc' = "activating" /\ live' = mine.snapshot)
      BY <1>11, <2>5 DEF RestorePreparation, At
    <3> QED
      BY <2>1, <2>2, <2>4, <3>1 DEF SettledOK, Played
  <2>6. CASE pc = "activating"
    <3>1. pc' = "restored" /\ live' = live /\ active' = mine.prev /\ live = mine.snapshot
      BY <1>11, <2>6 DEF RestorePreparation, At, SettledOK
    <3>2. Settled'
      BY <2>3, <3>1 DEF Settled, Snapshot, VaultOK, VaultPure
    <3> QED
      BY <2>1, <2>2, <2>4, <3>1, <3>2 DEF SettledOK, Played
  <2> QED
    BY <1>11, <2>5, <2>6 DEF RestorePreparation, At
<1>12. ASSUME Recovered PROVE SettledOK'
  <2>1. mine \in Session /\ mine # NoSession
    BY <1>12, MineTyped, ValueAssumption DEF Recovered, At
  <2>2. Settled /\ journal = mine /\ mine.phase \in Preparation
    BY <1>12 DEF Recovered, At, SettledOK, HolderOK, RecoverPC, SettledPC
  <2>3. /\ UNCHANGED <<live, active>> /\ (journal' = journal \/ journal' = NoSession)
        /\ pc' \in {"owing", "clearing", "idle"}
    BY <1>12 DEF Recovered, At, Release, store
  <2> QED
    BY <2>2, <2>3, SettledNow DEF Preparation, Played, SettledPC
<1>13. ASSUME NEW p \in Profile, NEW d \in BOOLEAN, RequestStore(p, d) PROVE SettledOK'
  <2>1. active \in Profile \cup {NoProfile} /\ 0 \in 0..MaxRuns
    BY ConstantAssumption DEF TypeOK, ConstantAssumption, SettledPC
  <2>2. journal'.phase = "AwaitingStore"
    BY <1>13, <2>1, BeginFields, InPhaseFields DEF RequestStore, Phase, SettledPC
  <2>3. pc' = "idle" /\ UNCHANGED <<live, active>> /\ journal = NoSession
    BY <1>13 DEF RequestStore, store, mem, TypeOK, Blocking
  <2>4. Settled
    BY <2>3 DEF SettledOK, SettledPC
  <2> QED
    BY <2>2, <2>3, <2>4, SettledNow DEF Played, SettledPC
<1>14. ASSUME NEW p \in Profile, NEW d \in BOOLEAN, Play(p, d) PROVE SettledOK'
  <2>1. journal'.phase = "Preparing" /\ pc' = "prepared" /\ UNCHANGED <<live, active>>
    BY <1>14 DEF Play, Acquire, Advance, store, Begin
  <2>2. journal = NoSession \/ (journal # NoSession /\ ~journal.switched)
    BY <1>14 DEF Play, Blocking, ShapeOK, Shape, SettledPC
  <2>3. Settled
    BY <2>2 DEF SettledOK, SettledPC
  <2> QED
    BY <2>1, <2>3, SettledNow DEF Played, SettledPC
<1>15. ASSUME NEW p \in Profile, NEW v \in vault[p], SaveOperation(p, v) PROVE SettledOK'
  <2>1. journal'.phase = "Preparing" /\ pc' = "deployed" /\ UNCHANGED <<live, active>>
    BY <1>15 DEF SaveOperation, Acquire, Advance, store, Begin
  <2>2. journal = NoSession \/ (journal # NoSession /\ ~journal.switched)
    BY <1>15 DEF SaveOperation, Blocking, ShapeOK, Shape, SettledPC
  <2>3. Settled
    BY <2>2 DEF SettledOK, SettledPC
  <2> QED
    BY <2>1, <2>3, SettledNow DEF Played, SettledPC
<1>16. ASSUME Recover PROVE SettledOK'
  <2>1. /\ journal # NoSession /\ mine' = journal /\ UNCHANGED <<live, active, journal>>
        /\ journal.phase \in Preparation
        /\ \/ pc' = "restoring"
           \/ pc' = "restored" /\ (journal.phase = "SaveCommitted" \/ ~journal.switched)
    BY <1>16 DEF Recover, IsPreparation, disk, store
  <2>2. pc' = "restored" => Settled
    BY <2>1 DEF SettledOK, SettledPC
  <2> QED
    BY <2>1, <2>2, SettledFrame, SettledNow DEF Preparation, Played, SettledPC
<1>17. ASSUME NEW r \in Run, WorkerFinishes(r) PROVE SettledOK'
  <2>1. UNCHANGED <<live, active, journal>> /\ (pc' = "complete" \/ UNCHANGED <<pc, mine, to>>)
    BY <1>17 DEF WorkerFinishes, WUnchanged, disk, store
  <2> QED
    BY <2>1, SettledFrame DEF SettledPC
<1>18. ASSUME NEW r \in Run, StartGame(r) PROVE SettledOK'
  <2>1. UNCHANGED <<live, active, pc, mine, to>>
    BY <1>18 DEF StartGame, SUnchanged, store, mem
  <2>2. CASE spc[r] = "journalling"
    <3>1. /\ journal \in Session /\ smine[r] = journal /\ journal # NoSession
          /\ journal.phase = "Launching"
      BY <2>2 DEF SupervisorOK, OwnPC, TypeOK, SettledPC
    <3>2. journal' = InPhase(journal, "Running")
      BY <1>18, <2>2, <3>1 DEF StartGame, SGoto, SettledPC
    <3>3. journal'.profile = journal.profile
      BY <3>1, <3>2, InPhaseFields DEF Phase, SettledPC
    <3>4. Settled /\ active = journal.profile
      BY <3>1 DEF SettledOK, Played, SettledPC
    <3>5. pc \in {"idle", "waiting"}
      BY <2>2, HolderAlone DEF Silent, OwnPC, SettledPC
    <3> QED
      BY <2>1, <3>3, <3>4, <3>5, SettledNow DEF SettledPC
  <2>3. CASE spc[r] # "journalling"
    <3>1. journal' = journal
      BY <1>18, <2>3 DEF StartGame, SGoto, SettledPC
    <3> QED
      BY <2>1, <3>1, SettledFrame DEF SettledPC
  <2> QED
    BY <2>2, <2>3 DEF SettledPC
<1>19. ASSUME NEW r \in Run, StartFails(r) PROVE SettledOK'
  <2>1. UNCHANGED <<live, active, pc, mine, to>>
    BY <1>19 DEF StartFails, SUnchanged, store, mem
  <2>2. CASE spc[r] = "failing"
    <3>1. /\ journal \in Session /\ smine[r] = journal /\ journal # NoSession
          /\ journal.phase = "Launching"
      BY <2>2 DEF SupervisorOK, OwnPC, TypeOK, SettledPC
    <3>2. journal' = InPhase(journal, "Ready")
      BY <1>19, <2>2, <3>1 DEF StartFails, SGoto, SettledPC
    <3>3. journal'.profile = journal.profile
      BY <3>1, <3>2, InPhaseFields DEF Phase, SettledPC
    <3>4. Settled /\ active = journal.profile
      BY <3>1 DEF SettledOK, Played, SettledPC
    <3>5. pc \in {"idle", "waiting"}
      BY <2>2, HolderAlone DEF Silent, OwnPC, SettledPC
    <3> QED
      BY <2>1, <3>3, <3>4, <3>5, SettledNow DEF SettledPC
  <2>3. CASE spc[r] # "failing"
    <3>1. journal' = journal
      BY <1>19, <2>3 DEF StartFails, SGoto, SettledPC
    <3> QED
      BY <2>1, <3>1, SettledFrame DEF SettledPC
  <2> QED
    BY <2>2, <2>3 DEF SettledPC
<1>20. ASSUME NEW r \in Run, GameSaves(r) PROVE SettledOK'
  <2>1. UNCHANGED <<active, pc, mine, journal>> /\ game[r] = "running"
    BY <1>20 DEF GameSaves, disk, mem
  <2>2. pc \in {"idle", "waiting"}
    BY <2>1, HolderAlone DEF Silent
  <2>3. journal # NoSession /\ journal.phase \in Launched
    BY <2>1 DEF SupervisorOK
  <2>4. Settled
    BY <2>3 DEF SettledOK, Launched
  <2>5. live \in Version /\ live' = [live EXCEPT !.n = saves + 1] /\ saves + 1 \in 0..MaxSaves
    BY <1>20, ConstantAssumption DEF GameSaves, TypeOK, ConstantAssumption
  <2>6. live' \in Version /\ live'.of = live.of
    BY <2>5 DEF Version
  <2>7. Settled'
    BY <2>1, <2>4, <2>5, <2>6, ValueAssumption DEF Settled, ValueAssumption
  <2> QED
    BY <2>1, <2>2, <2>7 DEF SettledOK
<1>21. ASSUME Deploy \/ Spawn \/ Analysed \/ (\E confirm \in BOOLEAN : Finish(confirm)) \/
              HolderDies \/ Restart
       PROVE  SettledOK'
  <2>1. UNCHANGED <<live, active, journal>> /\ pc' \notin SettledPC
    BY <1>21 DEF Deploy, Spawn, Analysed, Finish, HolderDies, Restart, At, disk, store, Release,
       SettledPC
  <2> QED
    BY <2>1, SettledFrame DEF SettledPC
<1>22. ASSUME NEW r \in Run, Bystander(r) PROVE SettledOK'
  <2>1. UNCHANGED <<live, active, journal>> /\ UNCHANGED <<pc, mine, to>>
    BY <1>22, Bystanders DEF SettledPC
  <2> QED
    BY <2>1, SettledFrame DEF SettledPC
<1>23. ASSUME NEW r \in Run, GameExits(r) PROVE SettledOK'
  <2>1. UNCHANGED <<live, active, journal>> /\ UNCHANGED <<pc, mine, to>>
    BY <1>23 DEF GameExits, disk, store, mem
  <2> QED
    BY <2>1, SettledFrame DEF SettledPC
<1> QED
  BY <1>1, <1>2, <1>3, <1>4, <1>5, <1>6, <1>7, <1>8, <1>9, <1>10, <1>11, <1>12, <1>13, <1>14,
     <1>15, <1>16, <1>17, <1>18, <1>19, <1>20, <1>21, <1>22, <1>23 DEF Next, Holder, User,
     Failure, Worker, Supervisor, Game, Bystander

---------------------------------------------------------------------------
(* The deployment and its debt *)

\* A step that leaves the installation, its debt and the journal alone
LEMMA DeployedFrame ==
    ASSUME DeployedOK, UNCHANGED <<deployed, needs, journal>>,
           \/ pc' \notin DeployedPC
           \/ UNCHANGED <<pc, mine>>
    PROVE  DeployedOK'
BY DEF DeployedOK, DeploymentOwed, DeployedPC

\* The deployment is whole, and stays
LEMMA DeployedWhole ==
    ASSUME deployed' # Mixed
    PROVE  DeployedOK'
BY DEF DeployedOK, DeploymentOwed

\* A deployment that is not whole is owed when a session begins
LEMMA DeploymentRemembered ==
    ASSUME ShapeOK, DeployedOK, deployed = Mixed,
           journal = NoSession \/ journal.phase = "AwaitingStore"
    PROVE  needs
BY DEF ShapeOK, Shape, DeployedOK, DeploymentOwed

\* Every step keeps a partial deployment owed
LEMMA DeployedStep ==
    ASSUME TypeOK, ShapeOK, SupervisorOK, EvidenceOK, HolderOK, PhaseOK, DeployedOK, Next
    PROVE  DeployedOK'
<1>1. ASSUME StartDeploy PROVE DeployedOK'
  <2>1. mine \in Session /\ mine # NoSession
    BY <1>1, MineTyped, ValueAssumption DEF StartDeploy, At, ValueAssumption
  <2>2. mine.phase = "Preparing"
    BY <1>1 DEF StartDeploy, At, PhaseOK
  <2>3. CASE mine.deploy
    <3>1. /\ journal'.started /\ journal'.phase = "Preparing" /\ journal' # NoSession
          /\ pc' = "deploying"
      BY <1>1, <2>1, <2>2, <2>3, DeployStartedFields, ValueAssumption DEF StartDeploy, At, Advance
    <3> QED
      BY <3>1 DEF DeployedOK, DeploymentOwed, Played
  <2>4. CASE ~mine.deploy
    <3>1. deployed' = deployed /\ deployed # Mixed
      BY <1>1, <2>4 DEF DeployedOK, StartDeploy, At
    <3> QED
      BY <3>1, DeployedWhole
  <2> QED
    BY <2>3, <2>4
<1>2. ASSUME Deploy PROVE DeployedOK'
  <2>1. mine \in Session /\ mine # NoSession
    BY <1>2, MineTyped, ValueAssumption DEF Deploy, At, ValueAssumption
  <2>2. journal = mine /\ mine.phase = "Preparing" /\ mine.started /\ mine.profile \in Profile
    BY <1>2, <2>1, SessionFields DEF Deploy, At, HolderOK, PhaseOK
  <2>3. UNCHANGED <<journal, mine>> /\ (pc' = "replacing mods" \/ deployed' = mine.profile)
    BY <1>2 DEF Deploy, At
  <2> QED
    BY <2>1, <2>2, <2>3, ConstantAssumption DEF DeployedOK, DeploymentOwed, Played
<1>3. ASSUME CaptureOutgoing PROVE DeployedOK'
  <2>1. mine \in Session /\ mine # NoSession
    BY <1>3, MineTyped, ValueAssumption DEF CaptureOutgoing, ValueAssumption
  <2>2. /\ UNCHANGED <<deployed, needs, journal>> /\ pc = "deployed"
        /\ pc' \in {"switched", "captured"} /\ (pc' = "switched" => mine' = mine)
    BY <1>3 DEF CaptureOutgoing, disk
  <2>3. live \in Save /\ mine' \in {mine, WithSnapshot(mine, live)}
    BY <1>3 DEF CaptureOutgoing, TypeOK
  <2>4. mine'.op = mine.op
    BY <2>1, <2>3, WithSnapshotFields
  <2> QED
    BY <2>2, <2>4 DEF DeployedOK, DeploymentOwed
<1>4. ASSUME MarkSwitch PROVE DeployedOK'
  <2>1. mine \in Session /\ mine # NoSession
    BY <1>4, MineTyped, ValueAssumption DEF MarkSwitch, At, ValueAssumption
  <2>2. /\ journal'.started = journal.started /\ journal'.phase = "SwitchingSaves"
        /\ journal' # NoSession
        /\ mine'.op = mine.op
    BY <1>4, <2>1, SwitchingFields, ValueAssumption DEF MarkSwitch, At, Advance, HolderOK, Same
  <2>3. UNCHANGED <<deployed, needs>> /\ pc = "captured" /\ pc' = "marked"
    BY <1>4 DEF MarkSwitch, At
  <2> QED
    BY <2>2, <2>3 DEF DeployedOK, DeploymentOwed, Played
<1>5. ASSUME ReplaceSaves PROVE DeployedOK'
  <2>1. /\ UNCHANGED <<deployed, needs, journal, mine>>
        /\ pc \in {"marked", "replacing saves"} /\ pc' \in {"replacing saves", "replaced"}
    BY <1>5 DEF ReplaceSaves, At, disk
  <2> QED
    BY <2>1 DEF DeployedOK, DeploymentOwed
<1>6. ASSUME SetActive PROVE DeployedOK'
  <2>1. /\ UNCHANGED <<deployed, needs, journal, mine>> /\ pc = "replaced"
        /\ pc' \in {"switched", "operated"}
    BY <1>6 DEF SetActive, At, disk
  <2> QED
    BY <2>1 DEF DeployedOK, DeploymentOwed
<1>7. ASSUME CommitSaveOperation PROVE DeployedOK'
  <2>1. mine \in Session /\ mine # NoSession
    BY <1>7, MineTyped, ValueAssumption DEF CommitSaveOperation, At, Release, ValueAssumption
  <2>2. journal = mine /\ mine.op # "play" /\ ~mine.started
    BY <1>7 DEF CommitSaveOperation, At, HolderOK, PhaseOK, ShapeOK, Shape
  <2>3. deployed = Mixed => needs
    BY <2>2 DEF DeployedOK, DeploymentOwed
  <2>4. journal' \in {mine, NoSession, InPhase(mine, "SaveCommitted")}
    BY <1>7, <2>2 DEF CommitSaveOperation, Advance
  <2>5. UNCHANGED deployed
    BY <1>7 DEF CommitSaveOperation
  <2>6. needs' = needs \/ needs' = (needs \/ mine.prev # mine.profile)
    <3>1. CASE needs' = (needs \/ mine.prev # mine.profile)
      BY <3>1
    <3>2. CASE UNCHANGED needs
      BY <3>2
    <3> QED
      BY <1>7, <3>1, <3>2 DEF CommitSaveOperation
  <2>7. needs => needs'
    BY <2>6, Zenon
  <2>8. pc' \in {"committing", "committed", "idle"}
    BY <1>7 DEF CommitSaveOperation, At, Release
  <2>9. InPhase(mine, "SaveCommitted").phase = "SaveCommitted"
    BY <2>1, InPhaseFields DEF Phase
  <2> QED
    BY <2>2, <2>4, <2>9, <2>5, <2>8, <2>7 DEF DeployedOK, DeploymentOwed, Played
<1>8. ASSUME Launch PROVE DeployedOK'
  <2>1. deployed # Mixed
    BY <1>8 DEF Launch, At, HolderOK, PhaseOK, DeployedOK, Played
  <2>2. deployed' = deployed
    BY <1>8 DEF Launch
  <2> QED
    BY <2>1, <2>2, DeployedWhole
<1>9. ASSUME Spawn PROVE DeployedOK'
  <2>1. deployed # Mixed
    BY <1>9 DEF Spawn, At, HolderOK, PhaseOK, DeployedOK, Played
  <2>2. deployed' = deployed
    BY <1>9 DEF Spawn, disk
  <2> QED
    BY <2>1, <2>2, DeployedWhole
<1>10. ASSUME Waited PROVE DeployedOK'
  <2>1. CASE evidence[mine.run] = "completed" /\ observer[mine.run] = "free"
    <3>1. mine.run \in Run /\ journal # NoSession /\ Same(journal, mine)
      BY <1>10 DEF Waited, HolderOK, PhaseOK, DeployedPC
    <3>2. journal.phase \in Played
      BY <2>1, <3>1 DEF EvidenceOK, Same, DeployedPC
    <3>3. deployed' = deployed
      BY <1>10 DEF Waited
    <3> QED
      BY <3>1, <3>2, <3>3, DeployedWhole DEF DeployedOK, DeployedPC
  <2>2. CASE ~(evidence[mine.run] = "completed" /\ observer[mine.run] = "free")
    <3>1. UNCHANGED <<deployed, needs, journal>> /\ pc' = "idle"
      BY <1>10, <2>2 DEF Waited, Release
    <3> QED
      BY <3>1, DeployedFrame DEF DeployedPC
  <2> QED
    BY <2>1, <2>2 DEF DeployedPC
<1>11. ASSUME CaptureSession PROVE DeployedOK'
  <2>1. mine \in Session /\ mine # NoSession
    BY <1>11, MineTyped, ValueAssumption DEF CaptureSession, At, ValueAssumption, DeployedPC
  <2>2. UNCHANGED <<deployed, needs>> /\ pc' \notin DeployedPC
    BY <1>11 DEF CaptureSession, At, DeployedPC
  <2>3. journal = NoSession => journal' = NoSession
    BY <1>11 DEF CaptureSession, At, HolderOK, PhaseOK
  <2>4. journal # NoSession => journal.phase \in Played
    BY <1>11 DEF CaptureSession, At, HolderOK, FinishPC, DeployedPC
  <2>5. CASE journal = NoSession
    BY <2>2, <2>3, <2>5, DeployedFrame DEF DeployedPC
  <2>6. CASE journal # NoSession
    BY <2>2, <2>4, <2>6, DeployedWhole DEF DeployedOK, DeployedPC
  <2> QED
    BY <2>5, <2>6 DEF DeployedPC
<1>12. ASSUME Complete PROVE DeployedOK'
  <2>1. mine \in Session /\ mine # NoSession
    BY <1>12, MineTyped, ValueAssumption DEF Complete, At, ValueAssumption, DeployedPC
  <2>2. UNCHANGED <<deployed, needs>> /\ pc' \notin DeployedPC
    BY <1>12 DEF Complete, At, DeployedPC
  <2>3. journal = NoSession => journal' = NoSession
    BY <1>12 DEF Complete
  <2>4. journal # NoSession => journal.phase \in Played
    BY <1>12 DEF Complete, At, HolderOK, FinishPC, DeployedPC
  <2>5. CASE journal = NoSession
    BY <2>2, <2>3, <2>5, DeployedFrame DEF DeployedPC
  <2>6. CASE journal # NoSession
    BY <2>2, <2>4, <2>6, DeployedWhole DEF DeployedOK, DeployedPC
  <2> QED
    BY <2>5, <2>6 DEF DeployedPC
<1>13. ASSUME Recovered PROVE DeployedOK'
  <2>1. mine \in Session /\ mine # NoSession
    BY <1>13, MineTyped, ValueAssumption DEF Recovered, At, Release, ValueAssumption
  <2>2. journal = mine
    BY <1>13 DEF Recovered, At, HolderOK, RecoverPC
  <2>3. \/ /\ pc = "restored" /\ pc' = "owing" /\ UNCHANGED journal
           /\ needs' = (needs \/ mine.started)
        \/ pc = "owing" /\ pc' = "clearing" /\ UNCHANGED <<journal, needs>>
        \/ pc = "clearing" /\ pc' = "idle" /\ journal' = NoSession /\ UNCHANGED needs
    BY <1>13 DEF Recovered, At, Release
  <2>4. deployed' = deployed
    BY <1>13 DEF Recovered
  <2> QED
    BY <2>1, <2>2, <2>3, <2>4 DEF DeployedOK, DeploymentOwed
<1>14. ASSUME NEW p \in Profile, NEW d \in BOOLEAN, RequestStore(p, d) PROVE DeployedOK'
  <2>1. active \in Profile \cup {NoProfile} /\ 0 \in 0..MaxRuns
    BY ConstantAssumption DEF TypeOK, ConstantAssumption
  <2>2. journal'.phase = "AwaitingStore"
    BY <1>14, <2>1, BeginFields, InPhaseFields DEF RequestStore, Phase
  <2>3. pc' = "idle" /\ UNCHANGED <<deployed, needs>> /\ journal = NoSession
    BY <1>14 DEF RequestStore, mem, TypeOK, Blocking
  <2> QED
    BY <2>2, <2>3, DeploymentRemembered DEF DeployedOK, DeploymentOwed, Played
<1>15. ASSUME NEW p \in Profile, NEW d \in BOOLEAN, Play(p, d) PROVE DeployedOK'
  <2>1. /\ journal'.phase = "Preparing" /\ pc' = "prepared" /\ UNCHANGED <<deployed, needs>>
        /\ (needs => d) /\ mine'.deploy = d
    BY <1>15 DEF Play, Acquire, Advance, Begin
  <2>2. journal = NoSession \/ journal.phase = "AwaitingStore"
    BY <1>15 DEF Play
  <2> QED
    BY <2>1, <2>2, DeploymentRemembered DEF DeployedOK, DeploymentOwed, Played
<1>16. ASSUME NEW p \in Profile, NEW v \in vault[p], SaveOperation(p, v) PROVE DeployedOK'
  <2>1. /\ journal'.phase = "Preparing" /\ pc' = "deployed" /\ UNCHANGED <<deployed, needs>>
        /\ mine'.op # "play"
    BY <1>16 DEF SaveOperation, Acquire, Advance, Begin
  <2>2. journal = NoSession
    BY <1>16 DEF SaveOperation, Blocking
  <2> QED
    BY <2>1, <2>2, DeploymentRemembered DEF DeployedOK, DeploymentOwed, Played
<1>17. ASSUME NEW r \in Run, WorkerFinishes(r) PROVE DeployedOK'
  <2>1. UNCHANGED <<deployed, needs, journal>> /\ (pc' = "complete" \/ UNCHANGED <<pc, mine>>)
    BY <1>17 DEF WorkerFinishes, WUnchanged, disk
  <2> QED
    BY <2>1, DeployedFrame DEF DeployedPC
<1>18. ASSUME NEW r \in Run, StartGame(r) PROVE DeployedOK'
  <2>1. CASE spc[r] = "journalling"
    <3>1. deployed' = deployed
      BY <1>18 DEF StartGame, SUnchanged
    <3> QED
      BY <2>1, <3>1, DeployedWhole DEF SupervisorOK, OwnPC, DeployedOK, Played
  <2>2. CASE spc[r] # "journalling"
    <3>1. UNCHANGED <<deployed, needs, journal, pc, mine>>
      BY <1>18, <2>2 DEF StartGame, SGoto, SUnchanged, mem
    <3> QED
      BY <3>1, DeployedFrame DEF DeployedPC
  <2> QED
    BY <2>1, <2>2 DEF DeployedPC
<1>19. ASSUME NEW r \in Run, StartFails(r) PROVE DeployedOK'
  <2>1. CASE spc[r] = "failing"
    <3>1. deployed' = deployed
      BY <1>19 DEF StartFails, SUnchanged
    <3> QED
      BY <2>1, <3>1, DeployedWhole DEF SupervisorOK, OwnPC, DeployedOK, Played
  <2>2. CASE spc[r] # "failing"
    <3>1. UNCHANGED <<deployed, needs, journal, pc, mine>>
      BY <1>19, <2>2 DEF StartFails, SGoto, SUnchanged, mem
    <3> QED
      BY <3>1, DeployedFrame DEF DeployedPC
  <2> QED
    BY <2>1, <2>2 DEF DeployedPC
<1>20. ASSUME Analysed \/ RestorePreparation \/ (\E confirm \in BOOLEAN : Finish(confirm))
              \/ Recover \/ HolderDies \/ Restart
       PROVE  DeployedOK'
  <2>1. UNCHANGED <<deployed, needs, journal>> /\ pc' \notin DeployedPC
    BY <1>20 DEF Analysed, RestorePreparation, Finish, Recover, HolderDies, Restart, Release,
       disk, At, DeployedPC
  <2> QED
    BY <2>1, DeployedFrame DEF DeployedPC
<1>21. ASSUME NEW r \in Run, Bystander(r) PROVE DeployedOK'
  <2>1. UNCHANGED <<deployed, needs, journal>> /\ UNCHANGED <<pc, mine>>
    BY <1>21, Bystanders DEF DeployedPC
  <2> QED
    BY <2>1, DeployedFrame DEF DeployedPC
<1>22. ASSUME NEW r \in Run, GameSaves(r) \/ GameExits(r) PROVE DeployedOK'
  <2>1. UNCHANGED <<deployed, needs, journal>> /\ UNCHANGED <<pc, mine>>
    BY <1>22 DEF GameSaves, GameExits, disk, mem
  <2> QED
    BY <2>1, DeployedFrame DEF DeployedPC
<1> QED
  BY <1>1, <1>2, <1>3, <1>4, <1>5, <1>6, <1>7, <1>8, <1>9, <1>10, <1>11, <1>12, <1>13, <1>14,
     <1>15, <1>16, <1>17, <1>18, <1>19, <1>20, <1>21, <1>22 DEF Next, Holder, User, Failure,
     Worker, Supervisor, Game, Bystander

---------------------------------------------------------------------------
(* The end of a recovery *)

\* A step to a point of no recovery, or one that leaves the saves and the session alone
LEMMA RestoredFrame ==
    ASSUME RecoveryRestores,
           \/ pc' \notin RestoredPC
           \/ /\ pc \in RestoredPC
              /\ UNCHANGED <<mine, live, active, before>>
           \/ UNCHANGED <<pc, mine, live, active, before>>
    PROVE  RecoveryRestores'
BY DEF RecoveryRestores, RestoredPC

\* Every step keeps recovery to what was before
LEMMA RestoredStep ==
    ASSUME TypeOK, SupervisorOK, HolderOK, PhaseOK, HistoryOK, SettledOK, RecoveryRestores, Next
    PROVE  RecoveryRestores'
<1>1. ASSUME RestorePreparation PROVE RecoveryRestores'
  <2>1. mine \in Session /\ mine # NoSession
    BY <1>1, MineTyped, ValueAssumption DEF RestorePreparation, At, ValueAssumption, RestoredPC
  <2>2. CASE pc \in {"restoring", "restoring saves"}
    <3>1. pc' \notin RestoredPC
      BY <1>1, <2>2 DEF RestorePreparation, At, RestoredPC
    <3> QED
      BY <3>1, RestoredFrame DEF RestoredPC
  <2>3. CASE pc = "activating"
    <3>1. journal = mine /\ mine.switched
      BY <2>3 DEF HolderOK, RecoverPC, PhaseOK, RestoredPC
    <3>2. mine.prev = before.active /\ mine.snapshot = before.live
      BY <2>1, <3>1 DEF HistoryOK, BeforeOK, RestoredPC
    <3>3. live = mine.snapshot
      BY <2>3 DEF SettledOK, RestoredPC
    <3>4. UNCHANGED <<mine, live, before>> /\ active' = mine.prev
      BY <1>1, <2>3 DEF RestorePreparation, At, ghost
    <3> QED
      BY <3>2, <3>3, <3>4 DEF RecoveryRestores, RestoredPC
  <2> QED
    BY <1>1, <2>2, <2>3 DEF RestorePreparation, At, RestoredPC
<1>2. ASSUME Recovered PROVE RecoveryRestores'
  <2>1. pc' \notin RestoredPC \/ (pc \in RestoredPC /\ UNCHANGED <<mine, live, active, before>>)
    BY <1>2 DEF Recovered, At, Release, store, ghost, RestoredPC
  <2> QED
    BY <2>1, RestoredFrame DEF RestoredPC
<1>3. ASSUME NEW p \in Profile, NEW d \in BOOLEAN, RequestStore(p, d) PROVE RecoveryRestores'
  <2>1. pc' = "idle"
    BY <1>3 DEF RequestStore, mem, TypeOK
  <2> QED
    BY <2>1, RestoredFrame DEF RestoredPC
<1>4. ASSUME Recover PROVE RecoveryRestores'
  <2>1. /\ journal # NoSession /\ journal.phase \in Preparation
        /\ mine' = journal /\ UNCHANGED <<live, active, before>>
        /\ pc' = "restored" => journal.phase = "SaveCommitted" \/ ~journal.switched
        /\ pc' \in {"restored", "restoring"}
    BY <1>4 DEF Recover, IsPreparation, store, ghost
  <2>2. Unplayed
    BY <2>1 DEF Unplayed
  <2>3. journal.phase # "SaveCommitted" /\ ~journal.switched =>
            live = before.live /\ active = before.active
    BY <2>2 DEF HistoryOK, BeforeOK
  <2> QED
    BY <2>1, <2>3 DEF RecoveryRestores
<1>5. ASSUME NEW r \in Run, WorkerFinishes(r) PROVE RecoveryRestores'
  <2>1. pc' = "complete" \/ UNCHANGED <<pc, mine, live, active, before>>
    BY <1>5 DEF WorkerFinishes, WUnchanged, store, ghost
  <2> QED
    BY <2>1, RestoredFrame DEF RestoredPC
<1>6. ASSUME NEW r \in Run, GameSaves(r) PROVE RecoveryRestores'
  <2>1. pc' = pc /\ game[r] = "running"
    BY <1>6 DEF GameSaves, mem
  <2>2. pc \in {"idle", "waiting"}
    BY <2>1, HolderAlone DEF Silent, RestoredPC
  <2> QED
    BY <2>1, <2>2, RestoredFrame DEF RestoredPC
<1>7. ASSUME StartDeploy \/ Deploy \/ CaptureOutgoing \/ MarkSwitch \/ ReplaceSaves \/
             SetActive \/ CommitSaveOperation \/ Launch \/ Spawn \/ Waited \/
             CaptureSession \/ Complete \/ Analysed \/ (\E p \in Profile, d \in BOOLEAN :
             Play(p, d)) \/ (\E p \in Profile : \E v \in vault[p] : SaveOperation(p, v))
             \/ (\E confirm \in BOOLEAN : Finish(confirm)) \/ HolderDies \/ Restart
      PROVE  RecoveryRestores'
  <2>1. pc' \notin RestoredPC
    BY <1>7 DEF StartDeploy, Deploy, CaptureOutgoing, MarkSwitch, ReplaceSaves, SetActive,
       CommitSaveOperation, Launch, Spawn, Waited, CaptureSession, Complete, Analysed, Play,
       SaveOperation, Finish, HolderDies, Restart, At, Release, Acquire, RestoredPC
  <2> QED
    BY <2>1, RestoredFrame DEF RestoredPC
<1>8. ASSUME NEW r \in Run, Bystander(r) PROVE RecoveryRestores'
  <2>1. UNCHANGED <<pc, mine, live, active, before>>
    BY <1>8, Bystanders DEF RestoredPC
  <2> QED
    BY <2>1, RestoredFrame DEF RestoredPC
<1>9. ASSUME NEW r \in Run, StartGame(r) \/ StartFails(r) \/ GameExits(r) PROVE RecoveryRestores'
  <2>1. UNCHANGED <<pc, mine, live, active, before>>
    BY <1>9 DEF StartGame, StartFails, GameExits, SUnchanged, store, mem, ghost
  <2> QED
    BY <2>1, RestoredFrame DEF RestoredPC
<1> QED
  BY <1>1, <1>2, <1>3, <1>4, <1>5, <1>6, <1>7, <1>8, <1>9 DEF Next, Holder, User, Failure,
     Worker, Supervisor, Game, Bystander

---------------------------------------------------------------------------
(* The invariant, and what it implies *)

\* The invariant holds when no session has begun
LEMMA InitInvariant ==
    ASSUME Init
    PROVE  IInv
<1>1. /\ \A p \in Profile : [of |-> p, n |-> 0] \in Version
      /\ active \in Profile \cup {NoProfile}
  BY ConstantAssumption DEF Init, Version, ConstantAssumption
<1>2. \A p \in Profile : head[p] = [of |-> p, n |-> 0] /\ vault[p] = {head[p]}
  BY DEF Init
<1>3. live \in Save /\ head \in [Profile -> Version] /\ vault \in [Profile -> SUBSET Save]
  BY <1>1, <1>2 DEF Init, Save
<1>4. TypeOK
  <2>1. head \in [Profile -> Save]
    BY <1>3 DEF Save
  <2>2. /\ journal = NoSession /\ receipt = NoSession /\ mine = NoSession
        /\ smine \in [Run -> Session \cup {NoSession}]
    BY DEF Init
  <2>3. to \in Save /\ before.live = live /\ before.active = active
    BY DEF Init, Save
  <2>4. runs \in 0..MaxRuns /\ saves \in 0..MaxSaves /\ crashes \in 0..MaxCrashes
    BY ConstantAssumption DEF Init, ConstantAssumption
  <2> QED
    BY <1>3, <2>3, <2>4 DEF Init, TypeOK
<1>5. ShapeOK /\ RunsOK /\ SupervisorOK /\ EvidenceOK
  BY DEF Init, ShapeOK, RunsOK, SupervisorOK, EvidenceOK, OwnPC
<1>6. HolderOK /\ PhaseOK
  BY DEF Init, HolderOK, PhaseOK, PreparePC, FinishPC, RecoverPC
<1>7. VaultOK
  BY <1>1, <1>2 DEF Init, VaultOK, VaultPure
<1>8. HistoryOK
  <2>1. BeforeOK
    BY DEF Init, BeforeOK, Unplayed
  <2>2. KeptOK
    BY <1>2 DEF Init, KeptOK, ProgressKept, Unplayed
  <2> QED
    BY <2>1, <2>2 DEF HistoryOK
<1>9. Settled
  BY <1>1, <1>2, ConstantAssumption DEF Init, Settled, ConstantAssumption
<1>10. SettledOK /\ RecoveryRestores
  BY <1>9 DEF Init, SettledOK, RecoveryRestores
<1>11. DeployedOK
  BY ConstantAssumption DEF Init, DeployedOK, DeploymentOwed, ConstantAssumption
<1> QED
  BY <1>4, <1>5, <1>6, <1>7, <1>8, <1>10, <1>11 DEF IInv

\* A step that changes nothing keeps it
LEMMA StutterInvariant ==
    ASSUME IInv, UNCHANGED vars
    PROVE  IInv'
<1>1. UNCHANGED <<disk, store, locks, mem, procs, count, ghost>>
  BY DEF vars
<1>2. TypeOK' /\ ShapeOK' /\ RunsOK' /\ SupervisorOK' /\ EvidenceOK'
  BY <1>1 DEF IInv, disk, store, locks, mem, procs, count, ghost, TypeOK, ShapeOK, Shape,
     RunsOK, SupervisorOK, EvidenceOK
<1>3. HolderOK' /\ PhaseOK'
  <2>1. UNCHANGED <<journal, observer, pc, mine, spc, game, restarted, runs>>
    BY <1>1 DEF disk, locks, mem, procs, count
  <2>2. HolderOK'
    BY <2>1 DEF IInv, HolderOK, Same
  <2>3. PhaseOK'
    BY <2>1 DEF IInv, PhaseOK
  <2> QED
    BY <2>2, <2>3
<1>4. VaultOK' /\ HistoryOK'
  BY <1>1 DEF IInv, disk, store, mem, procs, ghost, VaultOK, VaultPure, HistoryOK, BeforeOK,
     KeptOK, Kept, ProgressKept, Unplayed, Snapshot
<1>5. SettledOK' /\ DeployedOK' /\ RecoveryRestores'
  BY <1>1 DEF IInv, disk, store, mem, ghost, SettledOK, Settled, DeployedOK, DeploymentOwed,
     RecoveryRestores
<1> QED
  BY <1>2, <1>3, <1>4, <1>5 DEF IInv

\* Every step keeps the invariant
LEMMA InvariantStep ==
    ASSUME IInv, [Next]_vars
    PROVE  IInv'
<1>1. CASE Next
  <2>1. TypeOK'
    BY <1>1, TypeStep DEF IInv
  <2>2. ShapeOK'
    BY <1>1, ShapeStep DEF IInv
  <2>3. RunsOK'
    BY <1>1, RunsStep DEF IInv
  <2>4. SupervisorOK'
    BY <1>1, SupervisorStep DEF IInv
  <2>5. HolderOK'
    BY <1>1, HolderStep DEF IInv
  <2>6. PhaseOK'
    BY <1>1, PhaseStep DEF IInv
  <2>7. VaultOK'
    BY <1>1, VaultStep DEF IInv
  <2>8. HistoryOK'
    BY <1>1, HistoryStep DEF IInv
  <2>9. EvidenceOK'
    BY <1>1, EvidenceStep DEF IInv
  <2>10. SettledOK'
    BY <1>1, SettledStep DEF IInv
  <2>11. DeployedOK'
    BY <1>1, DeployedStep DEF IInv
  <2>12. RecoveryRestores'
    BY <1>1, RestoredStep DEF IInv
  <2> QED
    BY <2>1, <2>2, <2>3, <2>4, <2>5, <2>6, <2>7, <2>8, <2>9, <2>10, <2>11, <2>12 DEF IInv
<1>2. CASE UNCHANGED vars
  BY <1>2, StutterInvariant
<1> QED
  BY <1>1, <1>2

\* The invariant holds in every state of a session's life, whatever dies
THEOREM SessionInvariant == Spec => []IInv
<1>1. Init => IInv
  BY InitInvariant
<1>2. IInv /\ [Next]_vars => IInv'
  BY InvariantStep
<1> QED
  BY <1>1, <1>2, PTL DEF Spec

\* The journal, the receipt, the locks and the processes keep their types
THEOREM SessionTypes == Spec => []TypeOK
<1>1. IInv => TypeOK
  BY DEF IInv
<1> QED
  BY <1>1, SessionInvariant, PTL

\* Whatever interrupts a session, the last save of every profile is in its vault or in place
THEOREM ProgressIsKept == Spec => []ProgressKept
<1>1. IInv => ProgressKept
  BY DEF IInv, HistoryOK, KeptOK
<1> QED
  BY <1>1, SessionInvariant, PTL

\* No partly replaced directory and no other profile's saves get into a branch of the vault
THEOREM VaultIsPure == Spec => []VaultPure
<1>1. IInv => VaultPure
  BY DEF IInv, VaultOK
<1> QED
  BY <1>1, SessionInvariant, PTL

\* A running game is the journal's, in a phase that nobody recovers
THEOREM GameIsOwned == Spec => []GameOwned
<1>1. IInv => GameOwned
  BY DEF IInv, SupervisorOK, GameOwned, IsPreparation, Launched, Preparation
<1> QED
  BY <1>1, SessionInvariant, PTL

\* A game runs on the saves of its own profile and on a whole deployment
THEOREM GameIsPrepared == Spec => []GamePrepared
<1>1. IInv => GamePrepared
  <2> SUFFICES ASSUME IInv, NEW r \in Run, game[r] = "running"
               PROVE  /\ live \in Version /\ live.of = active /\ active = journal.profile
                      /\ deployed # Mixed
    BY DEF GamePrepared
  <2>1. journal # NoSession /\ journal.phase \in Launched
    BY DEF IInv, SupervisorOK
  <2>2. Settled /\ active = journal.profile
    BY <2>1 DEF IInv, SettledOK, Launched, Played
  <2>3. active # NoProfile
    BY <2>1, <2>2, SessionFields, ConstantAssumption DEF IInv, TypeOK, ConstantAssumption
  <2>4. deployed # Mixed
    BY <2>1 DEF IInv, DeployedOK, Launched, Played
  <2> QED
    BY <2>2, <2>3, <2>4 DEF Settled
<1> QED
  BY <1>1, SessionInvariant, PTL

\* An interrupted deployment stays owed until one is whole
THEOREM DeploymentIsOwed == Spec => []DeploymentOwed
<1>1. IInv => DeploymentOwed
  BY DEF IInv, DeployedOK
<1> QED
  BY <1>1, SessionInvariant, PTL

\* Recovery puts back the saves and the profile of before the operation
THEOREM RecoveryPutsBack == Spec => []RecoveryRestores
<1>1. IInv => RecoveryRestores
  BY DEF IInv
<1> QED
  BY <1>1, SessionInvariant, PTL
===========================================================================
