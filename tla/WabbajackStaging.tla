------------------------ MODULE WabbajackStaging ------------------------
(***************************************************************************)
(* Installing a Wabbajack list into a staging tree and from there into the *)
(* game (crates/modde-sources/src/wabbajack/).  An installation that was   *)
(* interrupted, or an older list of the same profile, leaves files, and a  *)
(* later run decides from what exists what it need not do again.  Staged   *)
(* files are hard-linked into the game, or stored compressed.              *)
(*                                                                         *)
(* One installation runs at a time: the command holds the mutation lease   *)
(* that LibrarySession models.                                             *)
(***************************************************************************)
EXTENDS Naturals, FiniteSets

CONSTANTS
    List,         \* the lists a user installs into one profile
    Plain,        \* outputs extracted from an archive, which have no hash
    Patched,      \* outputs patched from an archive's file
    Inline,       \* outputs carried by the list itself
    Bsa,          \* outputs built from other outputs
    Parts,        \* Parts[b]: the outputs that b is built from
    From,         \* From[l][o]: the content list l names at o: its archive, its data
    Eligible,     \* outputs worth compressing
    Option,       \* the options a user gives: subsets of Flags
    Missing,      \* no file; not in the list
    Torn,         \* a file that was cut, or made from such a file
    HardLinks,    \* staging and game are on one file system
    MaxRuns, MaxCrashes, MaxFaults

Flags  == {"force", "reset", "noDeploy", "lenient"}
Output == Plain \cup Patched \cup Inline \cup Bsa
Temp   == UNION {Parts[b] : b \in Bsa}      \* bsa_temp_*: neither packed nor deployed
Source == {From[l][o] : l \in List, o \in Output} \ {Missing}
Content == Source \cup {Missing, Torn}

ASSUME OutputAssumption ==
    /\ Plain \cap Patched = {} /\ Bsa \cap (Plain \cup Patched \cup Inline) = {}
    /\ Inline \cap (Plain \cup Patched) = {}
    /\ Parts \in [Bsa -> SUBSET Plain] /\ Eligible \subseteq Output \ Temp

ASSUME OptionAssumption ==
    /\ Option \subseteq SUBSET Flags /\ HardLinks \in BOOLEAN
    /\ Torn # Missing /\ \A l \in List, o \in Output : From[l][o] # Torn
    /\ MaxRuns \in Nat /\ MaxCrashes \in Nat /\ MaxFaults \in Nat

VARIABLES
    staged,       \* the plain file of each output
    packed,       \* its .modde-zst
    sentinel,     \* of each archive: the outputs its batch had, {} if there is none
    built,        \* BSAs that have a sentinel
    game,         \* the file in the game
    linked,       \* outputs whose plain file and game file are one inode
    pc, list, opts,
    batch,        \* where each archive's batch is
    todo,         \* outputs the current pass has still to do
    opened,       \* outputs being written
    bad,          \* outputs whose directive failed in this run
    runs, crashes, faults,
    erased        \* ghost: the files are what an interrupted reset left

tree   == <<staged, packed>>
marks  == <<sentinel, built>>
target == <<game, linked>>
run    == <<list, opts>>
work   == <<batch, todo, opened, bad>>
bound  == <<runs, crashes, faults>>
vars   == <<tree, marks, target, pc, run, work, bound, erased>>

Wanted(o)  == From[list][o]
Listed     == {o \in Output : Wanted(o) # Missing}
Archive    == {From[l][o] : l \in List, o \in Plain \cup Patched} \ {Missing}
Of(a)      == {o \in Plain \cup Patched : Wanted(o) = a}
\* logical_exists, open_logical_reader: the plain file is preferred
There(o)   == staged[o] # Missing \/ packed[o] # Missing
Logical(o) == IF staged[o] # Missing THEN staged[o] ELSE packed[o]
\* collect_expected_files
Expected   == Listed \ Bsa
Hashed     == Listed \ (Plain \cup Bsa)

Init ==
    /\ staged = [o \in Output |-> Missing] /\ packed = staged
    /\ sentinel = [a \in Archive |-> {}] /\ built = {}
    /\ game = staged /\ linked = {}
    /\ pc = "idle" /\ list \in List /\ opts = {}
    /\ batch = [a \in Archive |-> "over"] /\ todo = {} /\ opened = {} /\ bad = {}
    /\ runs = 0 /\ crashes = 0 /\ faults = 0
    /\ erased = FALSE

Goto(from, to) == pc = from /\ pc' = to
Fault == faults < MaxFaults /\ faults' = faults + 1 /\ UNCHANGED <<runs, crashes>>

\* The command ends, of its own or not
End == /\ pc' = "idle" /\ todo' = {} /\ opened' = {} /\ bad' = {} /\ opts' = {}
       /\ batch' = [a \in Archive |-> "over"] /\ list' = list

\* Variant: the write does not reach the game
InPlaceAlone(o, c) ==
    staged' = [staged EXCEPT ![o] = c] /\ UNCHANGED <<game, linked>>

\* File::create and fs::write cut the file that is there, and every link to it
InPlace(o, c) ==
    /\ staged' = [staged EXCEPT ![o] = c]
    /\ game' = IF o \in linked THEN [game EXCEPT ![o] = c] ELSE game
    /\ linked' = linked

\* A rename puts a new inode in place
Replace(o, c) == /\ staged' = [staged EXCEPT ![o] = c]
                 /\ linked' = linked \ {o} /\ game' = game

---------------------------------------------------------------------------
(* install_wabbajack *)

Start(l, s) ==
    /\ runs < MaxRuns /\ runs' = runs + 1
    /\ Goto("idle", IF "reset" \in s THEN "reset" ELSE "preflight")
    /\ list' = l /\ opts' = s
    /\ UNCHANGED <<tree, marks, target, work, crashes, faults, erased>>

\* reset_and_prepare removes staging with its _state
Reset ==
    /\ Goto("reset", "preflight")
    /\ staged' = [o \in Output |-> Missing] /\ packed' = staged'
    /\ sentinel' = [a \in Archive |-> {}] /\ built' = {}
    /\ linked' = {} /\ erased' = FALSE
    /\ UNCHANGED <<game, run, work, bound>>

\* ... or removes some of it
ResetInterrupted ==
    /\ pc = "reset" /\ crashes < MaxCrashes /\ crashes' = crashes + 1
    /\ \E P \in SUBSET {o \in Output : staged[o] # Missing} :
          /\ staged' = [o \in Output |-> IF o \in P THEN Missing ELSE staged[o]]
          /\ linked' = linked \ P
    /\ \E P \in SUBSET {o \in Output : packed[o] # Missing} :
          packed' = [o \in Output |-> IF o \in P THEN Missing ELSE packed[o]]
    /\ \E A \in SUBSET {a \in Archive : sentinel[a] # {}} :
          sentinel' = [a \in Archive |-> IF a \in A THEN {} ELSE sentinel[a]]
    /\ built' \in SUBSET built
    /\ erased' = TRUE
    /\ End /\ UNCHANGED <<game, runs, faults>>

\* skip_install: everything expected exists
Preflight ==
    /\ Goto("preflight",
            IF "force" \notin opts /\ Expected # {} /\ \A o \in Expected : There(o)
            THEN "validating" ELSE "adopting")
    /\ UNCHANGED <<tree, marks, target, run, work, bound, erased>>

---------------------------------------------------------------------------
(* WabbajackInstaller::install *)

Valid(a) == sentinel[a] = Of(a) /\ \A o \in Of(a) : There(o)
ValidBsa(b) == b \in built /\ There(b)

\* Batches and BSAs that adoption takes to be done, because their outputs exist
Adoptable    == {a \in Archive : Of(a) # {} /\ ~Valid(a) /\ \A o \in Of(a) : There(o)}
AdoptableBsa == {b \in Bsa \cap Listed : There(b)} \ built

\* adopt_existing_staging
Adopt ==
    /\ Goto("adopting", "inline")
    /\ sentinel' = [a \in Archive |-> IF a \in Adoptable THEN Of(a) ELSE sentinel[a]]
    /\ built' = built \cup AdoptableBsa
    /\ todo' = Listed \cap Inline
    /\ UNCHANGED <<tree, target, run, batch, opened, bad, bound, erased>>

\* Writing a sentinel fails after others were written, and may leave half of it
AdoptFails ==
    /\ pc = "adopting" /\ Fault
    /\ \E A \in SUBSET Adoptable : \E T \in SUBSET (Adoptable \ A) :
          /\ Cardinality(T) <= 1
          /\ sentinel' = [a \in Archive |-> IF a \in A THEN Of(a)
                                            ELSE IF a \in T THEN {} ELSE sentinel[a]]
    /\ \E B \in SUBSET AdoptableBsa : built' = built \cup B
    /\ End /\ UNCHANGED <<tree, target, erased>>

\* apply_inline_file, in place: the large ones are compressed at once
WriteInline(o) ==
    /\ pc = "inline" /\ o \in todo
    /\ LET c == IF o \in opened THEN Wanted(o) ELSE Torn IN
         IF o \in Eligible
         THEN packed' = [packed EXCEPT ![o] = c] /\ UNCHANGED <<staged, target>>
         ELSE InPlace(o, c) /\ UNCHANGED packed
    /\ opened' = IF o \in opened THEN opened \ {o} ELSE opened \cup {o}
    /\ todo' = IF o \in opened THEN todo \ {o} ELSE todo
    /\ UNCHANGED <<marks, pc, run, batch, bad, bound, erased>>

InlineFails(o) ==
    /\ pc = "inline" /\ o \in todo /\ Fault
    /\ todo' = todo \ {o} /\ opened' = opened \ {o} /\ bad' = bad \cup {o}
    /\ UNCHANGED <<tree, marks, target, pc, run, batch, erased>>

InlineOver ==
    /\ todo = {} /\ Goto("inline", "batches")
    /\ batch' = [a \in Archive |-> IF Of(a) # {} THEN "waiting" ELSE "over"]
    /\ UNCHANGED <<tree, marks, target, run, todo, opened, bad, bound, erased>>

---------------------------------------------------------------------------
(* apply_archive_batch: the batches of the archives run side by side *)

Busy(a) == pc = "batches" /\ batch[a] = "writing"

StartBatch(a) ==
    /\ pc = "batches" /\ batch[a] = "waiting"
    /\ IF Valid(a) THEN batch' = [batch EXCEPT ![a] = "over"] /\ todo' = todo
       ELSE batch' = [batch EXCEPT ![a] = "writing"] /\ todo' = todo \cup Of(a)
    /\ UNCHANGED <<tree, marks, target, pc, run, opened, bad, bound, erased>>

\* No memory, or no archive that can be trusted
RefuseBatch(a) ==
    /\ pc = "batches" /\ batch[a] = "waiting" /\ Fault
    /\ batch' = [batch EXCEPT ![a] = "over"] /\ bad' = bad \cup Of(a)
    /\ UNCHANGED <<tree, marks, target, pc, run, todo, opened, erased>>

\* extract_selected creates each output and streams into it
Extract(a, o) ==
    /\ Busy(a) /\ o \in todo \cap Of(a) \cap Plain
    /\ InPlace(o, IF o \in opened THEN Wanted(o) ELSE Torn)
    /\ opened' = IF o \in opened THEN opened \ {o} ELSE opened \cup {o}
    /\ todo' = IF o \in opened THEN todo \ {o} ELSE todo
    /\ UNCHANGED <<packed, marks, pc, run, batch, bad, bound, erased>>

\* One error stands for all requests of the extraction
ExtractFails(a) ==
    /\ Busy(a) /\ todo \cap Of(a) \cap Plain # {} /\ Fault
    /\ bad' = bad \cup (Of(a) \cap Plain)
    /\ todo' = todo \ (Of(a) \cap Plain) /\ opened' = opened \ (Of(a) \cap Plain)
    /\ UNCHANGED <<tree, marks, target, pc, run, batch, erased>>

Patching(a, o) ==
    Busy(a) /\ o \in todo \cap Of(a) \cap Patched /\ todo \cap Of(a) \cap Plain = {}

\* write_patched_output: the stale compressed file goes, the part file comes into place
Patch(a, o) ==
    /\ Patching(a, o)
    /\ IF packed[o] # Missing
       THEN packed' = [packed EXCEPT ![o] = Missing] /\ UNCHANGED <<staged, target, todo>>
       ELSE Replace(o, Wanted(o)) /\ todo' = todo \ {o} /\ UNCHANGED packed
    /\ UNCHANGED <<marks, pc, run, batch, opened, bad, bound, erased>>

PatchFails(a, o) ==
    /\ Patching(a, o) /\ Fault
    /\ todo' = todo \ {o} /\ bad' = bad \cup {o}
    /\ UNCHANGED <<tree, marks, target, pc, run, batch, opened, erased>>

\* The sentinel is written when every directive succeeded
EndBatch(a) ==
    /\ Busy(a) /\ todo \cap Of(a) = {}
    /\ batch' = [batch EXCEPT ![a] = "over"]
    /\ sentinel' = IF bad \cap Of(a) = {} THEN [sentinel EXCEPT ![a] = Of(a)] ELSE sentinel
    /\ UNCHANGED <<tree, built, target, pc, run, todo, opened, bad, bound, erased>>

EndBatchFails(a) ==
    /\ Busy(a) /\ todo \cap Of(a) = {} /\ bad \cap Of(a) = {} /\ Fault
    /\ batch' = [batch EXCEPT ![a] = "over"]
    /\ sentinel' \in {sentinel, [sentinel EXCEPT ![a] = {}]}
    /\ bad' = bad \cup Of(a)
    /\ UNCHANGED <<tree, built, target, pc, run, todo, opened, erased>>

\* Variant: errors are logged and forgotten, as with continue_on_error
BatchesOverLenient ==
    /\ \A a \in Archive : batch[a] = "over"
    /\ Goto("batches", "bsa")
    /\ todo' = Listed \cap Bsa
    /\ UNCHANGED <<tree, marks, target, run, batch, opened, bad, bound, erased>>

\* Both passes are over, and errors count now
BatchesOver ==
    /\ pc = "batches" /\ \A a \in Archive : batch[a] = "over"
    /\ IF bad = {} \/ "lenient" \in opts
       THEN /\ pc' = "bsa" /\ todo' = Listed \cap Bsa
            /\ UNCHANGED <<run, batch, opened, bad>>
       ELSE End
    /\ UNCHANGED <<tree, marks, target, bound, erased>>

---------------------------------------------------------------------------
(* CreateBSA, one after the other, then compression *)

\* A part that is missing becomes an empty member
Made(b) == IF \A o \in Parts[b] : staged[o] = Wanted(o) THEN Wanted(b) ELSE Torn

CreateBsa(b) ==
    /\ pc = "bsa" /\ b \in todo /\ opened \subseteq {b}
    /\ IF b \notin opened /\ ValidBsa(b)
       THEN todo' = todo \ {b} /\ UNCHANGED <<opened, staged, target, built>>
       ELSE IF b \notin opened
       THEN InPlace(b, Torn) /\ opened' = {b} /\ UNCHANGED <<todo, built>>
       ELSE /\ InPlace(b, Made(b)) /\ opened' = {} /\ todo' = todo \ {b}
            /\ built' = built \cup {b}
    /\ UNCHANGED <<packed, sentinel, pc, run, batch, bad, bound, erased>>

CreateBsaFails(b) ==
    /\ pc = "bsa" /\ b \in todo /\ opened \subseteq {b} /\ Fault
    /\ ~ValidBsa(b) \/ b \in opened
    /\ IF "lenient" \in opts
       THEN /\ todo' = todo \ {b} /\ opened' = {} /\ bad' = bad \cup {b}
            /\ UNCHANGED <<pc, run, batch>>
       ELSE End
    /\ UNCHANGED <<tree, marks, target, erased>>

BsaOver ==
    /\ todo = {} /\ Goto("bsa", "compressing")
    /\ todo' = {o \in Eligible : staged[o] # Missing}
    /\ UNCHANGED <<tree, marks, target, run, batch, opened, bad, bound, erased>>

\* Variant: the original goes before its compressed copy is finished
CompressEarly(o) ==
    /\ pc = "compressing" /\ o \in todo /\ opened \subseteq {o}
    /\ IF o \notin opened
       THEN /\ packed' = [packed EXCEPT ![o] = Torn] /\ staged' = [staged EXCEPT ![o] = Missing]
            /\ opened' = {o} /\ linked' = linked \ {o} /\ UNCHANGED todo
       ELSE /\ packed' = [packed EXCEPT ![o] = Wanted(o)] /\ opened' = {} /\ todo' = todo \ {o}
            /\ UNCHANGED <<staged, linked>>
    /\ UNCHANGED <<game, marks, pc, run, batch, bad, bound, erased>>

\* compress_file, then remove_file
Compress(o) ==
    /\ pc = "compressing" /\ o \in todo /\ opened \subseteq {o}
    /\ \/ /\ o \notin opened /\ opened' = {o}
          /\ packed' = [packed EXCEPT ![o] = Torn]
          /\ UNCHANGED <<staged, linked, todo>>
       \/ /\ o \in opened /\ packed[o] = Torn /\ staged[o] # Torn
          /\ packed' = [packed EXCEPT ![o] = staged[o]]
          /\ UNCHANGED <<staged, linked, todo, opened>>
       \/ /\ o \in opened /\ packed[o] = staged[o]
          /\ staged' = [staged EXCEPT ![o] = Missing]
          /\ linked' = linked \ {o} /\ opened' = {} /\ todo' = todo \ {o}
          /\ UNCHANGED packed
    /\ UNCHANGED <<game, marks, pc, run, batch, bad, bound, erased>>

CompressOver ==
    /\ todo = {} /\ Goto("compressing", "validating")
    /\ UNCHANGED <<tree, marks, target, run, work, bound, erased>>

---------------------------------------------------------------------------
(* Validation and deployment *)

Mismatched == {o \in Expected : ~There(o)} \cup {o \in Hashed : Logical(o) # Wanted(o)}

\* Variant: files with a hash are only looked for
ValidateExistence ==
    /\ pc = "validating"
    /\ IF \A o \in Expected : There(o)
       THEN /\ pc' = IF "noDeploy" \in opts THEN "done" ELSE "deploying"
            /\ todo' = IF "noDeploy" \in opts THEN {} ELSE {o \in Output \ Temp : There(o)}
            /\ UNCHANGED <<run, batch, opened, bad>>
       ELSE End
    /\ UNCHANGED <<tree, marks, target, bound, erased>>

Validate ==
    /\ pc = "validating"
    /\ IF Mismatched = {}
       THEN /\ pc' = IF "noDeploy" \in opts THEN "done" ELSE "deploying"
            /\ todo' = IF "noDeploy" \in opts THEN {} ELSE {o \in Output \ Temp : There(o)}
            /\ UNCHANGED <<run, batch, opened, bad>>
       ELSE End
    /\ UNCHANGED <<tree, marks, target, bound, erased>>

\* deploy_mo2_to_game: the destination is removed, then linked, or unpacked into.  A file
\* that has both forms is met as either; the plain one is taken.
Deploy(o) ==
    /\ pc = "deploying" /\ o \in todo /\ opened \subseteq {o}
    /\ \/ /\ o \in linked /\ "force" \notin opts /\ o \notin opened
          /\ todo' = todo \ {o} /\ UNCHANGED <<target, opened>>
       \/ /\ o \notin linked \/ "force" \in opts \/ packed[o] # Missing
          /\ o \notin opened /\ opened' = {o}
          /\ game' = [game EXCEPT ![o] = Missing] /\ linked' = linked \ {o}
          /\ UNCHANGED todo
       \/ /\ o \in opened /\ game[o] = Missing
          /\ (staged[o] = Missing \/ ~HardLinks) /\ Logical(o) # Torn
          /\ game' = [game EXCEPT ![o] = Torn] /\ UNCHANGED <<linked, todo, opened>>
       \/ /\ o \in opened
          /\ game' = [game EXCEPT ![o] = Logical(o)]
          /\ linked' = IF staged[o] # Missing /\ HardLinks THEN linked \cup {o} ELSE linked
          /\ todo' = todo \ {o} /\ opened' = {}
    /\ UNCHANGED <<tree, marks, pc, run, batch, bad, bound, erased>>

\* The profile is saved and the command returns
DeployOver ==
    /\ todo = {} /\ Goto("deploying", "done")
    /\ UNCHANGED <<tree, marks, target, run, work, bound, erased>>

Return == pc = "done" /\ End /\ UNCHANGED <<tree, marks, target, bound, erased>>

\* Killed, or an error that ends the command where it stands
Crash ==
    /\ pc \notin {"idle", "reset", "done"} /\ crashes < MaxCrashes
    /\ crashes' = crashes + 1
    /\ End /\ UNCHANGED <<tree, marks, target, runs, faults, erased>>

---------------------------------------------------------------------------
Next ==
    \/ \E l \in List, s \in Option : Start(l, s)
    \/ Reset
    \/ ResetInterrupted
    \/ Preflight \/ Adopt \/ AdoptFails
    \/ \E o \in Inline : WriteInline(o) \/ InlineFails(o)
    \/ InlineOver
    \/ \E a \in Archive : \/ StartBatch(a) \/ RefuseBatch(a) \/ ExtractFails(a)
                          \/ EndBatch(a) \/ EndBatchFails(a)
                          \/ \E o \in Plain : Extract(a, o)
                          \/ \E o \in Patched : Patch(a, o) \/ PatchFails(a, o)
    \/ BatchesOver
    \/ \E b \in Bsa : CreateBsa(b) \/ CreateBsaFails(b)
    \/ BsaOver \/ CompressOver \/ Validate \/ DeployOver \/ Return \/ Crash
    \/ \E o \in Output : Compress(o) \/ Deploy(o)

Spec == Init /\ [][Next]_vars

---------------------------------------------------------------------------
(* Properties *)

TypeOK ==
    /\ staged \in [Output -> Content] /\ packed \in [Output -> Content]
    /\ game \in [Output -> Content] /\ linked \subseteq Output
    /\ \A o \in linked : game[o] = staged[o] /\ staged[o] # Missing
    /\ sentinel \in [Archive -> SUBSET (Plain \cup Patched)]
    /\ built \subseteq Bsa
    /\ pc \in {"idle", "reset", "preflight", "adopting", "inline", "batches", "bsa",
               "compressing", "validating", "deploying", "done"}
    /\ list \in List /\ opts \subseteq Flags
    /\ batch \in [Archive -> {"waiting", "writing", "over"}]
    /\ todo \subseteq Output /\ opened \subseteq Output /\ bad \subseteq Output
    /\ runs \in 0..MaxRuns /\ crashes \in 0..MaxCrashes /\ faults \in 0..MaxFaults
    /\ erased \in BOOLEAN

Right(o) == game[o] = Wanted(o)

\* A patched output is never torn, wherever the patching and the compression of it are
\* interrupted and however often: what exists of it is whole, so that taking it for done
\* is safe.  Only an interrupted removal of the staging tree can break this.
PatchedNeverTorn == \A o \in Patched : Logical(o) = Torn => erased

\* What is deployed, and has a hash, is what the list says, whatever earlier runs,
\* other lists and interruptions left in staging.
HashedAreRight == pc \in {"deploying", "done"} => \A o \in Hashed : Logical(o) = Wanted(o)

\* A strict run that started from an emptied staging tree and reached its end has put
\* every listed file into the game as the list says, whatever was there before.
ResetInstalls ==
    pc = "done" /\ "reset" \in opts /\ opts \cap {"lenient", "noDeploy"} = {} =>
        \A o \in Listed \ Temp : Right(o)

=========================================================================
