--------------------------- MODULE BisectSession ---------------------------
(***************************************************************************)
(* A bisect session: `modde bisect start | run | retry | mark | abort` and *)
(* the grading of a candidate when its game exits                          *)
(* (crates/modde-core/src/bisect.rs and db/bisect.rs,                      *)
(* crates/modde-cli/src/commands/bisect/).                                 *)
(*                                                                         *)
(* Every command holds the mutation lease and is refused while the Library *)
(* has a session or a completion receipt pending, so at most one command   *)
(* is under way; but each is a sequence of separate database statements    *)
(* and profile operations, and may die between any two of them.  How a     *)
(* launch prepares, observes and captures is LibrarySession's subject:     *)
(* here a launch activates the candidate and leaves a game, and the game   *)
(* leaves a receipt.  Sessions of games whose save fingerprint depends on  *)
(* the mods are those started with --force-save-risk.                      *)
(***************************************************************************)
EXTENDS Integers, FiniteSets, Sequences

CONSTANTS
    N,            \* the mods enabled in the source profile, in load order: 1..N
    Relations,    \* the dependency relations a source profile may have: <<m, d>>, m needs d
    MaxSteps,     \* bound on candidates
    MaxRetries,   \* bound on relaunches
    MaxCrashes    \* bound on deaths of a command, and on exits nobody observed

ASSUME CountAssumption == N \in Nat /\ N >= 2
ASSUME RelationAssumption == Relations \subseteq SUBSET ((1..N) \X (1..N))
ASSUME BoundAssumption == MaxSteps \in Nat /\ MaxRetries \in Nat /\ MaxCrashes \in Nat

Mod == 1..N
Source == 0           \* the source profile; candidate k is the profile of step k
NoProfile == -1
NoStep == 0
Status == {"None", "Active", "Waiting", "Complete", "Inconclusive", "Aborted"}
Result == {"none", "good", "bad"}

VARIABLES
    culprit, requires, oracle, keep,   \* the world and the options: they never change
    session,      \* its row in bisect_sessions
    steps,        \* its rows in bisect_steps
    profiles,     \* the source and the candidates that exist
    active,       \* the installation's active profile
    play,         \* the Library: a game under way, or its completion receipt
    pc,           \* where the command under way is
    aborting,     \* that command is `abort`
    grading,      \* the step being graded, and its result
    retries, crashes

world == <<culprit, requires, oracle, keep>>
db    == <<session, steps, profiles, active>>
cmd   == <<pc, aborting, grading>>
count == <<retries, crashes>>
vars  == <<world, db, play, cmd, count>>

Session == [status : Status, suspects : SUBSET Mod, good : SUBSET Mod, bad : SUBSET Mod,
            current : 0..MaxSteps]
Step    == [enabled : SUBSET Mod, disabled : SUBSET Mod, result : Result]
Idle    == [phase |-> "idle", step |-> NoStep, verdict |-> "none"]
Nothing == [step |-> NoStep, result |-> "none"]

WorldOK == /\ culprit \in Mod /\ requires \in Relations
           /\ oracle \in {"manual", "observed"} /\ keep \in BOOLEAN
StepsOK == steps \in Seq(Step) /\ Len(steps) <= MaxSteps
ProfilesOK == profiles \subseteq 0..MaxSteps /\ active \in profiles \cup {NoProfile}
PlayOK == play \in [phase : {"idle", "game", "receipt"}, step : 0..MaxSteps, verdict : Result]
CommandOK == /\ pc \in {"idle", "create", "record", "wait", "launch", "grade", "update",
                        "restore", "cleanup", "abort", "report"}
             /\ aborting \in BOOLEAN
             /\ grading \in [step : 0..MaxSteps, result : Result]
CountOK == retries \in 0..MaxRetries /\ crashes \in 0..MaxCrashes

TypeOK == /\ WorldOK /\ session \in Session /\ StepsOK /\ ProfilesOK
          /\ PlayOK /\ CommandOK /\ CountOK

---------------------------------------------------------------------------
(* The next candidate *)

\* The first half, rounded down, of the suspects in load order
FirstHalf(S) == {m \in S : Cardinality({k \in S : k < m}) < Cardinality(S) \div 2}

\* Whatever in T a member of E needs is in E
ClosedIn(E, T) == \A m \in E, d \in T : <<m, d>> \in requires => d \in E

\* The half that stays enabled: the second, and what it needs of the first, and so on
Enabled(S) ==
    {m \in S : \A E \in SUBSET S : S \ FirstHalf(S) \subseteq E /\ ClosedIn(E, S) => m \in E}

Disabled(S) == S \ Enabled(S)

\* A candidate whose disabled mods are D has an enabled mod without one it needs
Broken(D) == \E m \in Mod \ D, d \in D : <<m, d>> \in requires

\* What the player sees: the culprit, or a mod without what it needs, spoils the game
Truth(k) == IF culprit \notin steps[k].disabled \/ Broken(steps[k].disabled)
            THEN "bad" ELSE "good"

\* Variant: the halves swapped
ApplySwapped(s, r) == IF r = "bad" THEN s.disabled ELSE s.enabled
\* The suspects a graded step leaves
Apply(s, r) == IF r = "good" THEN s.disabled ELSE s.enabled

Ended == session.status \in {"Complete", "Inconclusive", "Aborted"}
Recorded == DOMAIN steps
---------------------------------------------------------------------------
(* Actions *)

Init ==
    /\ culprit \in Mod /\ requires \in Relations
    /\ oracle \in {"manual", "observed"} /\ keep \in BOOLEAN
    /\ session = [status |-> "None", suspects |-> {}, good |-> {}, bad |-> {}, current |-> NoStep]
    /\ steps = <<>> /\ profiles = {Source} /\ active \in {Source, NoProfile}
    /\ play = Idle /\ pc = "idle" /\ aborting = FALSE /\ grading = Nothing
    /\ retries = 0 /\ crashes = 0

At(a, b) == pc = a /\ pc' = b

\* A command may begin: none is under way, no journal and no receipt is pending
Free == pc = "idle" /\ play.phase = "idle"

Start ==
    /\ Free /\ session.status = "None"
    /\ session' = [session EXCEPT !.status = "Active", !.suspects = Mod]
    /\ UNCHANGED <<world, steps, profiles, active, play, cmd, count>>

(* run: the candidate's profile, its step, the session, the launch.        *)
(* With at most one suspect run would finish without a candidate; it never *)
(* does (Undecided).                                                       *)

Run ==
    /\ Free /\ session.status = "Active" /\ session.current = NoStep
    /\ Len(steps) < MaxSteps
    /\ pc' = "create"
    /\ UNCHANGED <<world, db, play, aborting, grading, count>>

\* Profile names are unique
CreateCandidate ==
    /\ At("create", "record") /\ Len(steps) + 1 \notin profiles
    /\ profiles' = profiles \cup {Len(steps) + 1}
    /\ UNCHANGED <<world, session, steps, active, play, aborting, grading, count>>

NameTaken ==
    /\ At("create", "idle") /\ Len(steps) + 1 \in profiles
    /\ UNCHANGED <<world, db, play, aborting, grading, count>>

RecordStep ==
    /\ At("record", "wait")
    /\ steps' = Append(steps, [enabled |-> Enabled(session.suspects),
                               disabled |-> Disabled(session.suspects), result |-> "none"])
    /\ UNCHANGED <<world, session, profiles, active, play, aborting, grading, count>>

Await ==
    /\ At("wait", "launch")
    /\ session' = [session EXCEPT !.status = "Waiting", !.current = Len(steps)]
    /\ UNCHANGED <<world, steps, profiles, active, play, aborting, grading, count>>

\* The Library activates the candidate, deploys it and starts the game
Launch ==
    /\ At("launch", "idle")
    /\ active' = session.current
    /\ play' = [phase |-> "game", step |-> session.current, verdict |-> "none"]
    /\ UNCHANGED <<world, session, steps, profiles, aborting, grading, count>>

Retry ==
    /\ Free /\ session.status = "Waiting" /\ session.current # NoStep
    /\ session.current \in profiles /\ retries < MaxRetries
    /\ pc' = "launch" /\ retries' = retries + 1
    /\ UNCHANGED <<world, db, play, aborting, grading, crashes>>

\* The saves are captured, a receipt is kept; the exit may have had no witness
GameExits ==
    /\ pc = "idle" /\ play.phase = "game"
    /\ \/ play' = [play EXCEPT !.phase = "receipt", !.verdict = Truth(play.step)]
          /\ UNCHANGED crashes
       \/ /\ crashes < MaxCrashes /\ crashes' = crashes + 1
          /\ play' = [play EXCEPT !.phase = "receipt"]
    /\ UNCHANGED <<world, db, cmd, retries>>

(* complete_launch, by whoever clears the receipt.  It grades only the     *)
(* candidate the session waits for, and resumes what a dead one began.     *)

Receipt == pc = "idle" /\ play.phase = "receipt"
EndedByIt == /\ session.status \in {"Complete", "Inconclusive"}
             /\ steps[play.step].result # "none" /\ play.step = Len(steps)
AwaitsIt == session.current = play.step /\ session.status = "Waiting"
Witnessed == play.verdict # "none"

ResumeEnd ==
    /\ Receipt /\ Witnessed /\ EndedByIt
    /\ pc' = "restore"
    /\ UNCHANGED <<world, db, play, aborting, grading, count>>

GradeExit ==
    /\ Receipt /\ Witnessed /\ AwaitsIt
    /\ oracle = "observed" \/ steps[play.step].result # "none"
    /\ pc' = "grade"
    /\ grading' = [step |-> play.step,
                   result |-> IF steps[play.step].result # "none"
                              THEN steps[play.step].result ELSE play.verdict]
    /\ UNCHANGED <<world, db, play, aborting, count>>

\* Nothing to grade: no witness, another candidate, or the player is to mark it
LeaveExit ==
    /\ Receipt
    /\ ~(Witnessed /\ (EndedByIt \/ (AwaitsIt /\ (oracle = "observed"
                                                \/ steps[play.step].result # "none"))))
    /\ play' = Idle
    /\ UNCHANGED <<world, db, cmd, count>>

\* `library finish --skip-analysis`
SkipAnalysis ==
    /\ Receipt
    /\ play' = Idle
    /\ UNCHANGED <<world, db, cmd, count>>

\* The player's own verdict, which is truthful
Mark ==
    /\ Free /\ session.current # NoStep
    /\ pc' = "grade"
    /\ grading' = [step |-> session.current, result |-> Truth(session.current)]
    /\ UNCHANGED <<world, db, play, aborting, count>>

(* complete_and_advance *)

Grade ==
    /\ At("grade", "update")
    /\ steps' = [steps EXCEPT ![grading.step].result = grading.result]
    /\ UNCHANGED <<world, session, profiles, active, play, aborting, grading, count>>

Verdict(left) == IF left = {} THEN "Inconclusive"
                 ELSE IF Cardinality(left) = 1 THEN "Complete" ELSE "Active"

\* Variant: the session keeps waiting for the step it has counted
UpdateKeepsStep ==
    LET s == steps[grading.step]
        left == Apply(s, grading.result)
    IN
    /\ At("update", IF Cardinality(left) <= 1 THEN "restore" ELSE "report")
    /\ session' = [session EXCEPT !.status = Verdict(left), !.suspects = left]
    /\ UNCHANGED <<world, steps, profiles, active, play, aborting, grading, count>>
Update ==
    LET s == steps[grading.step]
        left == Apply(s, grading.result)
    IN
    /\ At("update", IF Cardinality(left) <= 1 THEN "restore" ELSE "report")
    /\ session' = [status |-> Verdict(left), suspects |-> left, current |-> NoStep,
          good |-> session.good \cup (IF grading.result = "bad" THEN s.disabled ELSE {}),
          bad  |-> session.bad \cup (IF grading.result = "good" THEN s.disabled ELSE {})]
    /\ UNCHANGED <<world, steps, profiles, active, play, aborting, grading, count>>

\* Through the journalled save transition; the source becomes the active profile
Restore ==
    /\ At("restore", "cleanup")
    /\ active' = Source
    /\ UNCHANGED <<world, session, steps, profiles, play, aborting, grading, count>>

\* Variant: the source is listed among the candidates
RemoveListed ==
    /\ pc = "cleanup" /\ ~keep
    /\ \E k \in {Source} \cup (Recorded \cap profiles) : profiles' = profiles \ {k}
    /\ UNCHANGED <<world, session, steps, active, play, cmd, count>>
\* Deleting a profile deletes what refers to it, the active profile's row too
RemoveCandidate ==
    /\ pc = "cleanup" /\ ~keep
    /\ \E k \in Recorded \cap profiles :
          /\ \A j \in Recorded \cap profiles : k <= j
          /\ profiles' = profiles \ {k}
          /\ active' = IF active = k THEN NoProfile ELSE active
    /\ UNCHANGED <<world, session, steps, play, cmd, count>>

\* Variant: only candidates that were graded are removed
CleanupGraded ==
    /\ At("cleanup", IF aborting THEN "abort" ELSE "report")
    /\ keep \/ \A k \in Recorded \cap profiles : steps[k].result = "none"
    /\ UNCHANGED <<world, db, play, aborting, grading, count>>
CleanupDone ==
    /\ At("cleanup", IF aborting THEN "abort" ELSE "report")
    /\ keep \/ Recorded \cap profiles = {}
    /\ UNCHANGED <<world, db, play, aborting, grading, count>>

\* Variant: the candidates are removed before the source is active
AbortCleansFirst ==
    /\ Free /\ session.status # "None"
    /\ pc' = "cleanup" /\ aborting' = TRUE
    /\ UNCHANGED <<world, db, play, grading, count>>
Abort ==
    /\ Free /\ session.status # "None"
    /\ pc' = "restore" /\ aborting' = TRUE
    /\ UNCHANGED <<world, db, play, grading, count>>

RecordAbort ==
    /\ At("abort", "report")
    /\ session' = [session EXCEPT !.status = "Aborted", !.current = NoStep]
    /\ UNCHANGED <<world, steps, profiles, active, play, aborting, grading, count>>

\* The command ends well; a completion clears its receipt
Report ==
    /\ At("report", "idle")
    /\ play' = Idle /\ aborting' = FALSE /\ grading' = Nothing
    /\ UNCHANGED <<world, db, count>>

\* The command fails or is killed before its next step
Die ==
    /\ pc # "idle" /\ crashes < MaxCrashes
    /\ crashes' = crashes + 1
    /\ pc' = "idle" /\ aborting' = FALSE /\ grading' = Nothing
    /\ UNCHANGED <<world, db, play, retries>>

Proceed ==
    \/ CreateCandidate \/ NameTaken \/ RecordStep \/ Await \/ Launch
    \/ Grade \/ Update \/ Restore \/ RemoveCandidate \/ CleanupDone
    \/ RecordAbort \/ Report
Complete == ResumeEnd \/ GradeExit \/ LeaveExit

Next ==
    \/ Start \/ Run \/ Retry \/ Mark \/ Abort
    \/ GameExits \/ Complete \/ SkipAnalysis
    \/ Proceed \/ Die

Spec == Init /\ [][Next]_vars

(* The player repeats run, or marks a candidate nobody graded; the game is *)
(* left at some time, a command that does not die goes on, and a receipt   *)
(* is completed.                                                           *)
FairSpec == /\ Spec /\ WF_vars(Proceed) /\ WF_vars(Complete) /\ WF_vars(GameExits)
            /\ WF_vars(Start) /\ WF_vars(Run) /\ WF_vars(Mark)

---------------------------------------------------------------------------
(* Properties *)

\* "Constraints are respected, so dependents move with their masters"
\* (guides/troubleshooting.md:249): every candidate so far had, for each enabled mod,
\* the mods it needs.
Respected == \A k \in DOMAIN steps : ~Broken(steps[k].disabled)

\* As long as every candidate respected the dependencies and every verdict was
\* truthful, the culprit is a suspect, or the one found, and was never cleared,
\* through deaths, relaunches, repeated marks and completions (bisect.rs:244).
CulpritKept ==
    session.status # "None" /\ Respected =>
        /\ culprit \in session.suspects /\ culprit \notin session.good
        /\ session.bad # {} => culprit \in session.bad

\* A session that goes on has something left to split: run never finds fewer than
\* two suspects, and finishing without a candidate is never needed (flow.rs:40).
Undecided ==
    session.status \in {"Active", "Waiting"} => Cardinality(session.suspects) >= 2

\* A command that reports the end of a session has given the installation back to
\* the source profile and removed every candidate it knows of, whether or not an
\* earlier one died on the way (flow.rs:128, candidate.rs:200).
ReportedEndIsClean ==
    pc = "report" /\ Ended =>
        active = Source /\ (keep \/ profiles \cap Recorded = {})

\* No step leaves the installation without an active profile: no candidate is deleted
\* while it is the active one, at whatever step an earlier command died.
NeverDeactivated == [][active # NoProfile => active' # NoProfile]_vars

\* A candidate profile was created, its step was not recorded, and no command under
\* way is about to record it: run will find its name taken
Orphan == pc # "record" /\ Len(steps) + 1 \in profiles

\* Every suspect of the first half is needed by the second: a candidate would equal
\* the source
Stuck == Disabled(session.suspects) = {}

\* Repeating run ends the session, if no death left an orphan and the dependencies
\* leave something to disable (guides/troubleshooting.md:253, "repeat until converged").
Converges == session.status = "Active" ~> (Ended \/ Orphan \/ Stuck)
=============================================================================
