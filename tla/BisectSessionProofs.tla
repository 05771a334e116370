------------------------ MODULE BisectSessionProofs ------------------------
(***************************************************************************)
(* Proofs about BisectSession, for every number of mods, every dependency  *)
(* relation and every bound: its five invariants and the action property.  *)
(* None of them is inductive by itself; IInv below is.                     *)
(***************************************************************************)
EXTENDS BisectSession, FiniteSetTheorems, TLAPS

---------------------------------------------------------------------------
(* The parts of the inductive invariant *)

\* The step the session waits for, or is about to wait for, splits the suspects
Splits(s) == /\ s.disabled \subseteq session.suspects
             /\ s.enabled = session.suspects \ s.disabled

Waits == /\ session.status = "Waiting" <=> session.current # NoStep
         /\ session.status = "Waiting" =>
               session.current \in DOMAIN steps /\ Splits(steps[session.current])

\* Verdicts, recorded or still in a receipt, are what the player saw
TrueSteps == \A k \in DOMAIN steps : steps[k].result \in {"none", Truth(k)}
TruePlay == play.phase # "idle" => /\ play.step \in DOMAIN steps
                                   /\ play.verdict \in {"none", Truth(play.step)}

\* What a command relies on between two of its steps
Begun == /\ pc \in {"create", "record"} => session.status = "Active" /\ Len(steps) < MaxSteps
         /\ pc = "wait" => /\ session.status = "Active" /\ Len(steps) > 0
                           /\ Splits(steps[Len(steps)])
         /\ pc = "launch" => session.status = "Waiting"
Graded == pc \in {"grade", "update"} =>
              /\ session.status = "Waiting" /\ grading.step = session.current
              /\ grading.result = Truth(grading.step)

\* The source outlives its candidates, and a candidate is there when it is activated
Housed == /\ Source \in profiles
          /\ pc = "record" => Len(steps) + 1 \in profiles
          /\ pc = "wait" => Len(steps) \in profiles
          /\ pc = "launch" => session.current \in profiles

Clean == active = Source /\ (keep \/ profiles \cap Recorded = {})
Closing == /\ pc \in {"restore", "cleanup", "abort"} => session.status # "None"
           /\ pc = "cleanup" => active = Source
           /\ pc = "abort" => Clean

Unused == session.status = "None" => session.good = {} /\ session.bad = {}

IInv == /\ TypeOK /\ Housed
        /\ Waits /\ TrueSteps /\ TruePlay /\ Begun /\ Graded /\ Closing /\ Unused
        /\ CulpritKept /\ Undecided /\ ReportedEndIsClean

---------------------------------------------------------------------------
(* Facts about the data *)

\* The half that stays enabled, and the other, are suspects.
LEMMA Halves ==
  ASSUME NEW S
  PROVE  Enabled(S) \subseteq S /\ Disabled(S) \subseteq S /\ Enabled(S) = S \ Disabled(S)
BY DEF Enabled, Disabled

\* A set of mods is finite.
LEMMA ModsFinite == ASSUME NEW S \in SUBSET Mod
                    PROVE  IsFiniteSet(S) /\ Cardinality(S) \in Nat
                           /\ (Cardinality(S) = 0 <=> S = {})
<1>1. IsFiniteSet(Mod)
  BY CountAssumption, FS_Interval DEF Mod
<1>2. IsFiniteSet(S)
  BY <1>1, FS_Subset
<1>3. QED
  BY <1>2, FS_CardinalityType, FS_EmptySet

\* There are at least two mods.
LEMMA ManyMods == Cardinality(Mod) = N /\ N >= 2
BY CountAssumption, FS_Interval DEF Mod

---------------------------------------------------------------------------
(* Type correctness *)

---------------------------------------------------------------------------
(* Which actions change what *)

\* The world and the options never change.
LEMMA WorldFrame == [Next]_vars => UNCHANGED world
BY DEF Next, Proceed, Complete, Start, Run, CreateCandidate, NameTaken, RecordStep, Await,
     Launch, Retry, GameExits, ResumeEnd, GradeExit, LeaveExit, SkipAnalysis, Mark, Grade,
     Update, Restore, RemoveCandidate, CleanupDone, Abort, RecordAbort, Report, Die, vars

\* The session's row changes when it starts, waits, is graded and is aborted.
LEMMA SessionFrame ==
  [Next]_vars => session' = session \/ Start \/ Await \/ Update \/ RecordAbort
<1>. SUFFICES ASSUME Next PROVE session' = session \/ Start \/ Await \/ Update \/ RecordAbort
  BY DEF vars, db
<1>. QED
  BY DEF Next, Proceed, Complete, Run, CreateCandidate, NameTaken, RecordStep, Launch,
       Retry, GameExits, ResumeEnd, GradeExit, LeaveExit, SkipAnalysis, Mark, Grade,
       Restore, RemoveCandidate, CleanupDone, Abort, Report, Die, world, db, cmd, count

\* Steps are recorded and graded, nothing else.
LEMMA StepsFrame ==
  [Next]_vars => steps' = steps \/ RecordStep \/ Grade
<1>. SUFFICES ASSUME Next PROVE steps' = steps \/ RecordStep \/ Grade
  BY DEF vars, db
<1>. QED
  BY DEF Next, Proceed, Complete, Start, Run, CreateCandidate, NameTaken, Await, Launch,
       Retry, GameExits, ResumeEnd, GradeExit, LeaveExit, SkipAnalysis, Mark, Update,
       Restore, RemoveCandidate, CleanupDone, Abort, RecordAbort, Report, Die, world, db,
       cmd, count

\* Candidates are created and removed.
LEMMA ProfilesFrame ==
  [Next]_vars => profiles' = profiles \/ CreateCandidate \/ RemoveCandidate
<1>. SUFFICES ASSUME Next PROVE profiles' = profiles \/ CreateCandidate \/ RemoveCandidate
  BY DEF vars, db
<1>. QED
  BY DEF Next, Proceed, Complete, Start, Run, NameTaken, RecordStep, Await, Launch, Retry,
       GameExits, ResumeEnd, GradeExit, LeaveExit, SkipAnalysis, Mark, Grade, Update,
       Restore, CleanupDone, Abort, RecordAbort, Report, Die, world, db, cmd, count

\* The active profile changes at a launch, at the restoration and when it is removed.
LEMMA ActiveFrame ==
  [Next]_vars => active' = active \/ Launch \/ Restore \/ RemoveCandidate
<1>. SUFFICES ASSUME Next PROVE active' = active \/ Launch \/ Restore \/ RemoveCandidate
  BY DEF vars, db
<1>. QED
  BY DEF Next, Proceed, Complete, Start, Run, CreateCandidate, NameTaken, RecordStep, Await,
       Retry, GameExits, ResumeEnd, GradeExit, LeaveExit, SkipAnalysis, Mark, Grade, Update,
       CleanupDone, Abort, RecordAbort, Report, Die, world, db, cmd, count

\* The Library's part changes when the game starts and exits, and when its receipt is cleared.
LEMMA PlayFrame ==
  [Next]_vars => play' = play \/ Launch \/ GameExits \/ LeaveExit \/ SkipAnalysis \/ Report
<1>. SUFFICES ASSUME Next
     PROVE  play' = play \/ Launch \/ GameExits \/ LeaveExit \/ SkipAnalysis \/ Report
  BY DEF vars, db
<1>. QED
  BY DEF Next, Proceed, Complete, Start, Run, CreateCandidate, NameTaken, RecordStep, Await,
       Retry, ResumeEnd, GradeExit, Mark, Grade, Update, Restore, RemoveCandidate,
       CleanupDone, Abort, RecordAbort, Die, world, db, cmd, count

---------------------------------------------------------------------------
(* Type correctness *)

\* A session's row keeps its type.
LEMMA SessionType == IInv /\ [Next]_vars => session' \in Session
<1>. SUFFICES ASSUME IInv, [Next]_vars PROVE session' \in Session
  OBVIOUS
<1>1. CASE Start
  BY <1>1 DEF Start, Session, Status, IInv, TypeOK
<1>2. CASE Await
  <2>1. Len(steps) \in 0..MaxSteps
    BY BoundAssumption DEF IInv, TypeOK, StepsOK
  <2>2. QED
    BY <1>2, <2>1 DEF Await, Session, Status, IInv, TypeOK
<1>3. CASE Update
  <2>1. steps[grading.step] \in Step
    BY <1>3 DEF Update, At, IInv, Graded, Waits, TypeOK, StepsOK
  <2>2. QED
    BY <1>3, <2>1, BoundAssumption DEF Update, Verdict, Apply, Session, Status, Step,
         NoStep, IInv, TypeOK
<1>4. CASE RecordAbort
  <2>1. NoStep \in 0..MaxSteps
    BY BoundAssumption DEF NoStep
  <2>2. QED
    BY <1>4, <2>1 DEF RecordAbort, Session, Status, IInv, TypeOK
<1>5. CASE session' = session
  BY <1>5 DEF IInv, TypeOK
<1>6. QED
  BY <1>1, <1>2, <1>3, <1>4, <1>5, SessionFrame

\* Steps keep their type, and stay within the bound.
LEMMA StepsType == IInv /\ [Next]_vars => StepsOK'
<1>. SUFFICES ASSUME IInv, [Next]_vars PROVE StepsOK'
  OBVIOUS
<1>1. CASE RecordStep
  <2>1. [enabled |-> Enabled(session.suspects), disabled |-> Disabled(session.suspects),
         result |-> "none"] \in Step
    BY Halves DEF Step, Result, IInv, TypeOK, Session
  <2>2. Len(steps) < MaxSteps
    BY <1>1 DEF RecordStep, At, IInv, Begun
  <2>3. QED
    BY <1>1, <2>1, <2>2, BoundAssumption DEF RecordStep, IInv, TypeOK, StepsOK
<1>2. CASE Grade
  <2>1. grading.step \in DOMAIN steps /\ grading.result \in Result
    BY <1>2 DEF Grade, At, IInv, Graded, Waits, TypeOK, CommandOK
  <2>. DEFINE s == steps[grading.step]
  <2>2. s \in Step
    BY <2>1 DEF IInv, TypeOK, StepsOK
  <2>. HIDE DEF s
  <2>3. [s EXCEPT !.result = grading.result] \in Step
    BY <2>1, <2>2 DEF Step
  <2>4. QED
    BY <1>2, <2>1, <2>3 DEF s, Grade, IInv, TypeOK, StepsOK
<1>3. CASE steps' = steps
  BY <1>3 DEF IInv, TypeOK, StepsOK
<1>4. QED
  BY <1>1, <1>2, <1>3, StepsFrame

\* The profiles keep their type, and the active one is one of them.
LEMMA ProfilesType == IInv /\ [Next]_vars => ProfilesOK'
<1>. SUFFICES ASSUME IInv, [Next]_vars PROVE ProfilesOK'
  OBVIOUS
<1>1. CASE CreateCandidate
  <2>1. Len(steps) + 1 \in 0..MaxSteps
    BY <1>1, BoundAssumption DEF CreateCandidate, At, IInv, Begun, TypeOK, StepsOK
  <2>2. QED
    BY <1>1, <2>1 DEF CreateCandidate, IInv, TypeOK, ProfilesOK
<1>2. CASE RemoveCandidate
  BY <1>2 DEF RemoveCandidate, IInv, TypeOK, ProfilesOK
<1>3. CASE Launch
  BY <1>3 DEF Launch, At, IInv, Housed, TypeOK, ProfilesOK
<1>4. CASE Restore
  BY <1>4 DEF Restore, IInv, Housed, TypeOK, ProfilesOK
<1>5. CASE UNCHANGED <<profiles, active>>
  BY <1>5 DEF IInv, TypeOK, ProfilesOK
<1>6. QED
  BY <1>1, <1>2, <1>3, <1>4, <1>5, ProfilesFrame, ActiveFrame

\* The game under way, and its receipt, keep their type.
LEMMA PlayType == IInv /\ [Next]_vars => PlayOK'
<1>. SUFFICES ASSUME IInv, [Next]_vars PROVE PlayOK'
  OBVIOUS
<1>1. CASE Launch
  BY <1>1 DEF Launch, IInv, TypeOK, PlayOK, Session, Result
<1>2. CASE GameExits
  <2>1. Truth(play.step) \in Result
    BY DEF Truth, Result
  <2>2. QED
    BY <1>2, <2>1 DEF GameExits, IInv, TypeOK, PlayOK
<1>3. CASE LeaveExit \/ SkipAnalysis \/ Report
  BY <1>3, BoundAssumption DEF LeaveExit, SkipAnalysis, Report, Idle, NoStep, PlayOK, Result
<1>4. CASE play' = play
  BY <1>4 DEF IInv, TypeOK, PlayOK
<1>5. QED
  BY <1>1, <1>2, <1>3, <1>4, PlayFrame

\* The command under way keeps its type.
LEMMA CommandType == IInv /\ [Next]_vars => CommandOK'
<1>. SUFFICES ASSUME IInv, [Next]_vars PROVE CommandOK'
  OBVIOUS
<1>. CommandOK /\ Nothing \in [step : 0..MaxSteps, result : Result]
  BY BoundAssumption DEF IInv, TypeOK, Nothing, NoStep, Result
<1>. USE DEF CommandOK
<1>1. CASE GradeExit
  <2>1. steps[play.step] \in Step /\ play.step \in 0..MaxSteps /\ play.verdict \in Result
    BY <1>1 DEF GradeExit, Receipt, IInv, TruePlay, TypeOK, StepsOK, PlayOK
  <2>2. QED
    BY <1>1, <2>1 DEF GradeExit, Step
<1>2. CASE Mark
  <2>1. session.current \in 0..MaxSteps /\ Truth(session.current) \in Result
    BY DEF IInv, TypeOK, Session, Truth, Result
  <2>2. QED
    BY <1>2, <2>1 DEF Mark
<1>3. CASE \/ Start \/ Launch \/ GameExits \/ LeaveExit \/ SkipAnalysis
           \/ RemoveCandidate \/ Abort \/ Report \/ Die
  BY <1>3 DEF Start, Launch, GameExits, LeaveExit, SkipAnalysis, RemoveCandidate, Abort,
       Report, Die, Free, At, Receipt, cmd
<1>4. CASE Run \/ Retry \/ ResumeEnd
  BY <1>4 DEF Run, Retry, ResumeEnd, Free, cmd
<1>5. CASE CreateCandidate \/ NameTaken \/ RecordStep \/ Await \/ Grade
  BY <1>5 DEF CreateCandidate, NameTaken, RecordStep, Await, Grade, At, cmd
<1>6. CASE Restore \/ CleanupDone \/ RecordAbort
  BY <1>6 DEF Restore, CleanupDone, RecordAbort, At, cmd
<1>7. CASE Update
  BY <1>7 DEF Update, At
<1>8. CASE UNCHANGED vars
  BY <1>8 DEF vars, cmd
<1>9. QED
  BY <1>1, <1>2, <1>3, <1>4, <1>5, <1>6, <1>7, <1>8 DEF Next, Proceed, Complete

\* The counts stay within their bounds.
LEMMA CountType == IInv /\ [Next]_vars => CountOK'
<1>. SUFFICES ASSUME IInv, [Next]_vars PROVE CountOK'
  OBVIOUS
<1>1. \/ UNCHANGED count
      \/ retries < MaxRetries /\ retries' = retries + 1 /\ crashes' = crashes
      \/ crashes < MaxCrashes /\ crashes' = crashes + 1 /\ retries' = retries
  BY DEF Next, Proceed, Complete, Start, Run, CreateCandidate, NameTaken, RecordStep, Await,
       Launch, Retry, GameExits, ResumeEnd, GradeExit, LeaveExit, SkipAnalysis, Mark, Grade,
       Update, Restore, RemoveCandidate, CleanupDone, Abort, RecordAbort, Report, Die, vars,
       count
<1>2. QED
  BY <1>1, BoundAssumption DEF IInv, TypeOK, CountOK, count

\* Every step preserves the type invariant.
LEMMA TypeStep == IInv /\ [Next]_vars => TypeOK'
<1>. SUFFICES ASSUME IInv, [Next]_vars PROVE TypeOK'
  OBVIOUS
<1>1. WorldOK'
  BY WorldFrame DEF IInv, TypeOK, WorldOK, world
<1>2. QED
  BY <1>1, SessionType, StepsType, ProfilesType, PlayType, CommandType, CountType DEF TypeOK

---------------------------------------------------------------------------
(* Steps and verdicts *)

\* A recorded step keeps its halves, and its result unless it is being graded.
LEMMA StepKept ==
  ASSUME IInv, [Next]_vars, NEW k \in DOMAIN steps
  PROVE  /\ k \in DOMAIN steps'
         /\ steps'[k].disabled = steps[k].disabled /\ steps'[k].enabled = steps[k].enabled
         /\ \/ steps'[k].result = steps[k].result
            \/ Grade /\ k = grading.step /\ steps'[k].result = grading.result
<1>. steps \in Seq(Step)
  BY DEF IInv, TypeOK, StepsOK
<1>1. CASE RecordStep
  BY <1>1 DEF RecordStep
<1>2. CASE Grade
  <2>. DEFINE g == grading.step
  <2>1. steps' = [steps EXCEPT ![g].result = grading.result] /\ k \in DOMAIN steps'
    BY <1>2 DEF Grade
  <2>2. CASE k = g
    <3>1. steps'[k] = [steps[k] EXCEPT !.result = grading.result]
      BY <2>1, <2>2
    <3>2. steps[k] \in Step
      OBVIOUS
    <3>3. QED
      BY <1>2, <2>1, <2>2, <3>1, <3>2 DEF Step
  <2>3. CASE k # g
    BY <2>1, <2>3
  <2>4. QED
    BY <2>2, <2>3
<1>3. CASE steps' = steps
  BY <1>3
<1>4. QED
  BY <1>1, <1>2, <1>3, StepsFrame

\* What the player would see in a candidate never changes.
LEMMA TruthKept ==
  ASSUME IInv, [Next]_vars, NEW k \in DOMAIN steps
  PROVE  Truth(k)' = Truth(k) /\ Broken(steps[k].disabled)' = Broken(steps[k].disabled)
<1>1. steps'[k].disabled = steps[k].disabled /\ culprit' = culprit /\ requires' = requires
  BY StepKept, WorldFrame DEF world
<1>2. QED
  BY <1>1 DEF Truth, Broken

\* A new candidate does not make the earlier ones respect the dependencies.
LEMMA RespectedBefore == IInv /\ [Next]_vars /\ Respected' => Respected
BY StepKept, TruthKept DEF Respected

\* The step just recorded splits the suspects, and has no verdict.
LEMMA NewStep ==
  ASSUME IInv, RecordStep
  PROVE  /\ DOMAIN steps' = 1..(Len(steps) + 1) /\ Len(steps') = Len(steps) + 1
         /\ Splits(steps[Len(steps)])' /\ steps'[Len(steps')].result = "none"
<1>1. steps \in Seq(Step) /\ session' = session
  BY DEF RecordStep, IInv, TypeOK, StepsOK
<1>2. Len(steps') = Len(steps) + 1 /\ DOMAIN steps' = 1..(Len(steps) + 1)
  BY <1>1 DEF RecordStep
<1>3. steps'[Len(steps')] = [enabled |-> Enabled(session.suspects),
                             disabled |-> Disabled(session.suspects), result |-> "none"]
  BY <1>1, <1>2 DEF RecordStep
<1>4. QED
  BY <1>1, <1>2, <1>3, Halves DEF Splits

\* Recorded verdicts stay true.
LEMMA TrueStepsStep == IInv /\ [Next]_vars => TrueSteps'
<1>. SUFFICES ASSUME IInv, [Next]_vars, NEW k \in DOMAIN steps'
              PROVE  steps'[k].result \in {"none", Truth(k)'}
  BY DEF TrueSteps
<1>1. CASE k \in DOMAIN steps
  BY <1>1, StepKept, TruthKept DEF IInv, TrueSteps, Grade, At, Graded
<1>2. CASE k \notin DOMAIN steps
  <2>1. RecordStep
    BY <1>2, StepsFrame DEF Grade
  <2>2. k = Len(steps')
    BY <1>2, <2>1, NewStep DEF IInv, TypeOK, StepsOK
  <2>3. QED
    BY <2>1, <2>2, NewStep
<1>3. QED
  BY <1>1, <1>2

\* The verdict in a receipt stays true.
LEMMA TruePlayStep == IInv /\ [Next]_vars => TruePlay'
<1>. SUFFICES ASSUME IInv, [Next]_vars, play'.phase # "idle"
              PROVE  play'.step \in DOMAIN steps' /\ play'.verdict \in {"none", Truth(play.step)'}
  BY DEF TruePlay
<1>1. CASE Launch
  <2>1. play'.step \in DOMAIN steps
    BY <1>1 DEF Launch, At, IInv, Begun, Waits
  <2>2. QED
    BY <1>1, <2>1, StepKept DEF Launch
<1>2. CASE GameExits
  <2>1. play.step \in DOMAIN steps /\ play.verdict \in {"none", Truth(play.step)}
    BY <1>2 DEF GameExits, IInv, TruePlay
  <2>2. play'.step = play.step /\ play'.verdict \in {play.verdict, Truth(play.step)}
    BY <1>2 DEF GameExits, IInv, TypeOK, PlayOK
  <2>3. Truth(play.step)' = Truth(play.step)
    BY <1>2, <2>1, <2>2, TruthKept DEF GameExits, db, world, Truth, Broken
  <2>4. QED
    BY <2>1, <2>2, <2>3, StepKept
<1>3. CASE LeaveExit \/ SkipAnalysis \/ Report
  BY <1>3 DEF LeaveExit, SkipAnalysis, Report, Idle
<1>4. CASE play' = play
  <2>1. play.step \in DOMAIN steps /\ play.verdict \in {"none", Truth(play.step)}
    BY <1>4 DEF IInv, TruePlay
  <2>2. Truth(play.step)' = Truth(play.step)
    BY <1>4, <2>1, StepKept, WorldFrame DEF Truth, Broken, world
  <2>3. QED
    BY <1>4, <2>1, <2>2, StepKept
<1>5. QED
  BY <1>1, <1>2, <1>3, <1>4, PlayFrame

---------------------------------------------------------------------------
(* Between the steps of a command *)

\* Each place of a command is entered by its own actions.
LEMMA Entry ==
  [Next]_vars =>
    \/ UNCHANGED vars
    \/ /\ pc' = "create" => Run
       /\ pc' = "record" => CreateCandidate
       /\ pc' = "wait" => RecordStep
       /\ pc' = "launch" => Await \/ Retry
       /\ pc' = "grade" => GradeExit \/ Mark
       /\ pc' = "update" => Grade
       /\ pc' = "restore" => Update \/ ResumeEnd \/ Abort
       /\ pc' = "cleanup" => Restore \/ RemoveCandidate
       /\ pc' = "abort" => CleanupDone
       /\ pc' = "report" => Update \/ CleanupDone \/ RecordAbort
BY DEF Next, Proceed, Complete, Start, Run, CreateCandidate, NameTaken, RecordStep, Await,
     Launch, Retry, GameExits, ResumeEnd, GradeExit, LeaveExit, SkipAnalysis, Mark, Grade,
     Update, Restore, RemoveCandidate, CleanupDone, Abort, RecordAbort, Report, Die, Free,
     Receipt, At, cmd

\* What starting, waiting and aborting leave of a session's row.
LEMMA StartRow ==
  ASSUME session \in Session, Start
  PROVE  /\ session'.status = "Active" /\ session'.suspects = Mod
         /\ session'.current = session.current
         /\ session'.good = session.good /\ session'.bad = session.bad
BY DEF Start, Session

\* Waiting for a candidate, in the database (handle_run, flow.rs:65).
LEMMA AwaitRow ==
  ASSUME session \in Session, Await
  PROVE  /\ session'.status = "Waiting" /\ session'.current = Len(steps)
         /\ session'.suspects = session.suspects
         /\ session'.good = session.good /\ session'.bad = session.bad
BY DEF Await, Session

\* Recording the abort, after the installation was given back (flow.rs:388).
LEMMA AbortRow ==
  ASSUME session \in Session, RecordAbort
  PROVE  /\ session'.status = "Aborted" /\ session'.current = NoStep
         /\ session'.suspects = session.suspects
         /\ session'.good = session.good /\ session'.bad = session.bad
BY DEF RecordAbort, Session

\* A session never becomes one that was not started.
LEMMA StartedStays == IInv /\ [Next]_vars /\ session' # session => session'.status # "None"
<1>1. Update => session'.status # "None"
  BY DEF Update, Verdict
<1>2. QED
  BY <1>1, StartRow, AwaitRow, AbortRow, SessionFrame DEF IInv, TypeOK

\* The source stays, and so does a candidate that a command is about to activate.
LEMMA HousedStep == IInv /\ [Next]_vars => Housed'
<1>. SUFFICES ASSUME IInv, [Next]_vars PROVE Housed'
  OBVIOUS
<1>. Housed /\ DOMAIN steps = 1..Len(steps) /\ Len(steps) \in Nat
  BY DEF IInv, TypeOK, StepsOK
<1>1. Source \in profiles'
  BY ProfilesFrame DEF Housed, CreateCandidate, RemoveCandidate, Recorded, Source
<1>2. CASE UNCHANGED vars
  BY <1>2 DEF vars, db, cmd, Housed
<1>3. CASE ~UNCHANGED vars
  <2>1. pc' = "record" => Len(steps') + 1 \in profiles'
    BY <1>3, Entry DEF CreateCandidate
  <2>2. pc' = "wait" => Len(steps') \in profiles'
    BY <1>3, Entry, NewStep DEF RecordStep, At, Housed
  <2>3. pc' = "launch" => session'.current \in profiles'
    <3>1. CASE Await
      BY <3>1 DEF Await, At, Housed, IInv, TypeOK, Session
    <3>2. CASE Retry
      BY <3>2 DEF Retry, db
    <3>3. QED
      BY <1>3, <3>1, <3>2, Entry
  <2>4. QED
    BY <1>1, <2>1, <2>2, <2>3 DEF Housed
<1>4. QED
  BY <1>2, <1>3

\* A session waits for a step that splits its suspects.
LEMMA WaitsStep == IInv /\ [Next]_vars => Waits'
<1>. SUFFICES ASSUME IInv, [Next]_vars PROVE Waits'
  OBVIOUS
<1>. Waits /\ session \in Session /\ DOMAIN steps = 1..Len(steps) /\ Len(steps) \in Nat
  BY DEF IInv, TypeOK, StepsOK
<1>1. CASE Start
  <2>1. session.status = "None" /\ UNCHANGED steps
    BY <1>1 DEF Start
  <2>2. QED
    BY <1>1, <2>1, StartRow DEF Waits
<1>2. CASE Await
  <2>1. Len(steps) > 0 /\ Splits(steps[Len(steps)]) /\ UNCHANGED steps
    BY <1>2 DEF Await, At, IInv, Begun
  <2>2. QED
    BY <1>2, <2>1, AwaitRow DEF Waits, Splits, NoStep
<1>3. CASE Update
  BY <1>3 DEF Update, Verdict, Waits
<1>4. CASE RecordAbort
  BY <1>4, AbortRow DEF Waits
<1>5. CASE session' = session
  BY <1>5, StepKept DEF Waits, Splits
<1>6. QED
  BY <1>1, <1>2, <1>3, <1>4, <1>5, SessionFrame

\* What run relies on from one of its statements to the next.
LEMMA BegunStep == IInv /\ [Next]_vars => Begun'
<1>. SUFFICES ASSUME IInv, [Next]_vars, ~UNCHANGED vars PROVE Begun'
  BY DEF vars, db, cmd, Begun, IInv, Splits
<1>. Begun /\ session \in Session /\ Len(steps) \in Nat
  BY DEF IInv, TypeOK, StepsOK
<1>1. pc' \in {"create", "record"} => session'.status = "Active" /\ Len(steps') < MaxSteps
  BY Entry DEF Run, CreateCandidate, At, Free, Begun, db
<1>2. pc' = "wait" => /\ session'.status = "Active" /\ Len(steps') > 0
                      /\ Splits(steps[Len(steps)])'
  <2>1. SUFFICES ASSUME RecordStep
                 PROVE  /\ session'.status = "Active" /\ Len(steps') > 0
                        /\ Splits(steps[Len(steps)])'
    BY Entry
  <2>2. QED
    BY <2>1, NewStep DEF RecordStep, At, Begun
<1>3. pc' = "launch" => session'.status = "Waiting"
  BY Entry, AwaitRow DEF Retry, db
<1>4. QED
  BY <1>1, <1>2, <1>3 DEF Begun

\* What is being graded is the step the session waits for, with a true verdict.
LEMMA GradedStep == IInv /\ [Next]_vars => Graded'
<1>. SUFFICES ASSUME IInv, [Next]_vars, ~UNCHANGED vars, pc' \in {"grade", "update"}
              PROVE  /\ session'.status = "Waiting" /\ grading'.step = session'.current
                     /\ grading'.result = Truth(grading.step)'
  BY DEF vars, db, cmd, world, Graded, IInv, Truth, Broken
<1>1. CASE GradeExit
  <2>1. play.step \in DOMAIN steps /\ play.verdict = Truth(play.step)
    BY <1>1 DEF GradeExit, Receipt, Witnessed, IInv, TruePlay
  <2>2. steps[play.step].result \in {"none", Truth(play.step)}
    BY <2>1 DEF IInv, TrueSteps
  <2>3. grading'.step = play.step /\ grading'.result = Truth(play.step)
    BY <1>1, <2>1, <2>2 DEF GradeExit
  <2>4. Truth(grading.step)' = Truth(play.step)
    BY <1>1, <2>3 DEF GradeExit, db, world, Truth, Broken
  <2>5. QED
    BY <1>1, <2>3, <2>4 DEF GradeExit, AwaitsIt, db
<1>2. CASE Mark
  <2>1. grading'.step = session.current /\ grading'.result = Truth(session.current)
    BY <1>2 DEF Mark
  <2>2. Truth(grading.step)' = Truth(session.current)
    BY <1>2, <2>1 DEF Mark, db, world, Truth, Broken
  <2>3. QED
    BY <1>2, <2>1, <2>2 DEF Mark, db, IInv, Waits
<1>3. CASE Grade
  <2>1. /\ session.status = "Waiting" /\ grading.step = session.current
        /\ grading.result = Truth(grading.step) /\ grading.step \in DOMAIN steps
    BY <1>3 DEF Grade, At, IInv, Graded, Waits
  <2>2. Truth(grading.step)' = Truth(grading.step)
    <3>1. /\ steps'[grading.step].disabled = steps[grading.step].disabled
          /\ culprit' = culprit /\ requires' = requires /\ grading' = grading
      BY <1>3, <2>1, StepKept DEF Grade, world
    <3>2. QED
      BY <3>1 DEF Truth, Broken
  <2>3. QED
    BY <1>3, <2>1, <2>2 DEF Grade
<1>4. QED
  BY <1>1, <1>2, <1>3, Entry

\* The session that is being closed was started, and cleanup follows restoration.
LEMMA ClosingStep == IInv /\ [Next]_vars => Closing'
<1>. SUFFICES ASSUME IInv, [Next]_vars, ~UNCHANGED vars PROVE Closing'
  BY DEF vars, world, db, cmd, Closing, Clean, IInv, Recorded
<1>. Closing /\ session \in Session /\ DOMAIN steps = 1..Len(steps) /\ Len(steps) \in Nat
  BY DEF IInv, TypeOK, StepsOK
<1>1. pc' \in {"restore", "cleanup", "abort"} => session'.status # "None"
  <2>1. SUFFICES ASSUME pc' \in {"restore", "cleanup", "abort"}, session' = session
                 PROVE  session.status # "None"
    BY StartedStays
  <2>2. CASE Update
    BY <2>2 DEF Update, At, IInv, Graded
  <2>3. CASE ResumeEnd \/ Abort
    BY <2>3 DEF ResumeEnd, EndedByIt, Abort
  <2>4. CASE Restore \/ RemoveCandidate \/ CleanupDone
    BY <2>4 DEF Restore, RemoveCandidate, CleanupDone, At, Closing
  <2>5. QED
    BY <2>1, <2>2, <2>3, <2>4, Entry
<1>2. pc' = "cleanup" => active' = Source
  <2>1. CASE Restore
    BY <2>1 DEF Restore
  <2>2. CASE RemoveCandidate
    BY <2>2 DEF RemoveCandidate, Closing, Recorded, Source
  <2>3. QED
    BY <2>1, <2>2, Entry
<1>3. pc' = "abort" => Clean'
  BY Entry DEF CleanupDone, At, Closing, Clean, Recorded, db, world
<1>4. QED
  BY <1>1, <1>2, <1>3 DEF Closing

\* A session that was not started has found nothing.
LEMMA UnusedStep == IInv /\ [Next]_vars => Unused'
BY StartedStays DEF Unused, IInv

---------------------------------------------------------------------------
(* The properties *)

\* The half a true verdict leaves has the culprit, and the half it clears has not.
LEMMA CulpritInLeft ==
  ASSUME IInv, [Next]_vars, Update, Respected, CulpritKept, session.status # "None"
  PROVE  CulpritKept'
<1>. DEFINE s == steps[grading.step]
<1>1. /\ grading.step \in DOMAIN steps /\ Splits(s)
      /\ grading.result = IF culprit \notin s.disabled \/ Broken(s.disabled)
                          THEN "bad" ELSE "good"
  BY DEF Update, At, IInv, Graded, Waits, Truth
<1>2. ~Broken(s.disabled)
  BY <1>1 DEF Respected
<1>3. culprit \in session.suspects /\ culprit \notin session.good
      /\ (session.bad # {} => culprit \in session.bad)
  BY DEF CulpritKept
<1>4. UNCHANGED <<culprit, requires, steps, grading>>
  BY DEF Update, world
<1>. HIDE DEF s
<1>5. CASE culprit \in s.disabled
  <2>1. grading.result = "good"
    BY <1>1, <1>2, <1>5
  <2>2. /\ session'.suspects = s.disabled /\ session'.good = session.good \cup {}
        /\ session'.bad = session.bad \cup s.disabled
    BY <2>1 DEF Update, Apply, s
  <2>3. QED
    BY <1>3, <1>4, <1>5, <2>2 DEF CulpritKept
<1>6. CASE culprit \notin s.disabled
  <2>1. grading.result = "bad"
    BY <1>1, <1>6
  <2>2. /\ session'.suspects = s.enabled /\ session'.good = session.good \cup s.disabled
        /\ session'.bad = session.bad \cup {}
    BY <2>1 DEF Update, Apply, s
  <2>3. culprit \in s.enabled
    BY <1>1, <1>3, <1>6 DEF Splits
  <2>4. QED
    BY <1>3, <1>4, <1>6, <2>2, <2>3 DEF CulpritKept
<1>7. QED
  BY <1>5, <1>6

\* The culprit stays a suspect.
LEMMA CulpritStep == IInv /\ [Next]_vars => CulpritKept'
<1>. SUFFICES ASSUME IInv, [Next]_vars, session'.status # "None", Respected'
              PROVE  CulpritKept'
  BY DEF CulpritKept
<1>. CulpritKept /\ session \in Session /\ Respected /\ culprit' = culprit
  BY RespectedBefore, WorldFrame DEF IInv, TypeOK, world
<1>1. CASE Start
  <2>1. session.good = {} /\ session.bad = {} /\ culprit \in Mod
    BY <1>1 DEF Start, IInv, Unused, TypeOK, WorldOK
  <2>2. QED
    BY <1>1, <2>1, StartRow DEF CulpritKept
<1>2. CASE Await
  BY <1>2, AwaitRow DEF CulpritKept, Await, At, IInv, Begun
<1>3. CASE Update
  <2>1. session.status # "None"
    BY <1>3 DEF Update, At, IInv, Graded
  <2>2. QED
    BY <1>3, <2>1, CulpritInLeft
<1>4. CASE RecordAbort
  BY <1>4, AbortRow DEF CulpritKept, RecordAbort, At, IInv, Closing
<1>5. CASE session' = session
  BY <1>5 DEF CulpritKept
<1>6. QED
  BY <1>1, <1>2, <1>3, <1>4, <1>5, SessionFrame

\* A session that goes on has at least two suspects.
LEMMA UndecidedStep == IInv /\ [Next]_vars => Undecided'
<1>. SUFFICES ASSUME IInv, [Next]_vars, session'.status \in {"Active", "Waiting"}
              PROVE  Cardinality(session'.suspects) >= 2
  BY DEF Undecided
<1>. Undecided /\ session \in Session
  BY DEF IInv, TypeOK
<1>1. CASE Start
  BY <1>1, StartRow, ManyMods
<1>2. CASE Await
  BY <1>2, AwaitRow DEF Undecided, Await, At, IInv, Begun
<1>3. CASE Update
  <2>. DEFINE left == Apply(steps[grading.step], grading.result)
  <2>1. session'.suspects = left /\ session'.status = Verdict(left)
    BY <1>3 DEF Update
  <2>2. left \in SUBSET Mod
    BY <1>3, <2>1, SessionType DEF Session
  <2>. HIDE DEF left
  <2>3. left # {} /\ Cardinality(left) # 1
    BY <2>1 DEF Verdict
  <2>4. Cardinality(left) \in Nat /\ Cardinality(left) # 0
    BY <2>2, <2>3, ModsFinite
  <2>5. QED
    BY <2>1, <2>3, <2>4
<1>4. CASE RecordAbort
  BY <1>4, AbortRow
<1>5. CASE session' = session
  BY <1>5 DEF Undecided
<1>6. QED
  BY <1>1, <1>2, <1>3, <1>4, <1>5, SessionFrame

\* A command reports an end only after it has cleaned up.
LEMMA ReportStep == IInv /\ [Next]_vars => ReportedEndIsClean'
<1>. SUFFICES ASSUME IInv, [Next]_vars, ~UNCHANGED vars, pc' = "report", Ended'
              PROVE  Clean'
  BY DEF vars, world, db, cmd, ReportedEndIsClean, Clean, IInv, Recorded, Ended
<1>1. CASE Update
  <2>. DEFINE left == Apply(steps[grading.step], grading.result)
  <2>1. session'.suspects = left /\ session'.status = Verdict(left) /\ ~(Cardinality(left) <= 1)
    BY <1>1 DEF Update, At
  <2>2. left \in SUBSET Mod
    BY <1>1, <2>1, SessionType DEF Session
  <2>. HIDE DEF left
  <2>3. left # {} /\ Cardinality(left) # 1
    BY <2>1, <2>2, ModsFinite
  <2>4. QED
    BY <2>1, <2>3 DEF Verdict, Ended
<1>2. CASE CleanupDone
  BY <1>2 DEF CleanupDone, At, IInv, Closing, Clean, Recorded, db, world
<1>3. CASE RecordAbort
  BY <1>3 DEF RecordAbort, At, IInv, Closing, Clean, Recorded, world
<1>4. QED
  BY <1>1, <1>2, <1>3, Entry

\* Init establishes the inductive invariant.
LEMMA Initially == Init => IInv
<1>. SUFFICES ASSUME Init PROVE IInv
  OBVIOUS
<1>. USE BoundAssumption DEF Init
<1>1. WorldOK /\ StepsOK /\ ProfilesOK /\ CountOK
  BY DEF WorldOK, StepsOK, ProfilesOK, CountOK, Source, NoProfile
<1>2. session \in Session
  BY DEF Session, Status, NoStep
<1>3. PlayOK /\ CommandOK
  <2>1. Idle \in [phase : {"idle", "game", "receipt"}, step : 0..MaxSteps, verdict : Result]
    BY DEF Idle, NoStep, Result
  <2>2. Nothing \in [step : 0..MaxSteps, result : Result]
    BY DEF Nothing, NoStep, Result
  <2>3. QED
    BY <2>1, <2>2 DEF PlayOK, CommandOK
<1>4. Housed /\ Waits /\ TrueSteps /\ TruePlay
  BY DEF Housed, Waits, TrueSteps, TruePlay, Idle, NoStep
<1>5. Begun /\ Graded /\ Closing /\ Unused
  BY DEF Begun, Graded, Closing, Unused
<1>6. CulpritKept /\ Undecided /\ ReportedEndIsClean
  BY DEF CulpritKept, Undecided, ReportedEndIsClean
<1>7. QED
  BY <1>1, <1>2, <1>3, <1>4, <1>5, <1>6 DEF IInv, TypeOK

\* IInv is inductive.
LEMMA Inductive == IInv /\ [Next]_vars => IInv'
BY TypeStep, HousedStep, WaitsStep, TrueStepsStep, TruePlayStep, BegunStep, GradedStep,
   ClosingStep, UnusedStep, CulpritStep, UndecidedStep, ReportStep DEF IInv

\* Every reachable state satisfies the inductive invariant.
LEMMA Invariance == Spec => []IInv
BY Initially, Inductive, PTL DEF Spec

\* The variables keep their types (bisect.rs, db/bisect.rs).
THEOREM BisectTypes == Spec => []TypeOK
<1>1. IInv => TypeOK
  BY DEF IInv
<1>2. QED
  BY <1>1, Invariance, PTL

\* However a session is interrupted, resumed, graded twice or relaunched, the mod that
\* spoils the game stays among the suspects and is never cleared, as long as every
\* candidate had what its mods need (apply_result, bisect.rs:244).
THEOREM CulpritStays == Spec => []CulpritKept
<1>1. IInv => CulpritKept
  BY DEF IInv
<1>2. QED
  BY <1>1, Invariance, PTL

\* A session that goes on always has something to split (handle_run, flow.rs:40).
THEOREM SomethingToSplit == Spec => []Undecided
<1>1. IInv => Undecided
  BY DEF IInv
<1>2. QED
  BY <1>1, Invariance, PTL

\* A reported end leaves the source active and no candidate that was not to be kept
\* (complete_and_advance, candidate.rs:200).
THEOREM EndsClean == Spec => []ReportedEndIsClean
<1>1. IInv => ReportedEndIsClean
  BY DEF IInv
<1>2. QED
  BY <1>1, Invariance, PTL

\* No step takes the active profile away (cleanup_candidates, candidate.rs:268).
THEOREM StaysActive == Spec => NeverDeactivated
<1>1. ASSUME IInv, [Next]_vars PROVE active # NoProfile => active' # NoProfile
  <2>. SUFFICES ASSUME active # NoProfile PROVE active' # NoProfile
    OBVIOUS
  <2>1. CASE Launch
    BY <1>1, <2>1 DEF Launch, IInv, TypeOK, Session, NoProfile
  <2>2. CASE Restore
    BY <2>2 DEF Restore, Source, NoProfile
  <2>3. CASE RemoveCandidate
    <3>1. active = Source /\ DOMAIN steps = 1..Len(steps)
      BY <1>1, <2>3 DEF RemoveCandidate, IInv, Closing, TypeOK, StepsOK
    <3>2. QED
      BY <2>3, <3>1 DEF RemoveCandidate, Recorded, Source, NoProfile
  <2>4. CASE active' = active
    BY <2>4
  <2>5. QED
    BY <1>1, <2>1, <2>2, <2>3, <2>4, ActiveFrame
<1>2. IInv /\ [Next]_vars => [active # NoProfile => active' # NoProfile]_vars
  BY <1>1
<1>3. QED
  BY <1>2, Invariance, PTL DEF Spec, NeverDeactivated
=============================================================================
