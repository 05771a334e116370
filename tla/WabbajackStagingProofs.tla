--------------------- MODULE WabbajackStagingProofs ---------------------
(***************************************************************************)
(* Proofs about WabbajackStaging, for every set of lists, archives and     *)
(* outputs, and any number of runs, deaths and faults.                     *)
(***************************************************************************)
EXTENDS WabbajackStaging, TLAPS

---------------------------------------------------------------------------
(* The parts of the inductive invariant *)

\* What a pass has to do is in the list
TodoOK ==
    /\ pc = "inline" => todo \subseteq Listed \cap Inline
    /\ pc = "batches" => todo \subseteq Plain \cup Patched
    /\ pc = "bsa" => todo \subseteq Listed \cap Bsa
    /\ pc = "compressing" => \A o \in todo : staged[o] # Missing
    /\ \A a \in Archive : pc = "batches" /\ batch[a] # "over" => Of(a) # {}

\* The plain file of a patched output is whole, and is there while its compressed file
\* is not
WholeOK == \A o \in Patched :
    /\ staged[o] # Torn
    /\ packed[o] = Torn /\ staged[o] = Missing => erased

\* The run a user asks for who wants all of it anew
Strict == "reset" \in opts /\ opts \cap {"lenient", "noDeploy"} = {}

NoFile(o) == staged[o] = Missing /\ packed[o] = Missing
NoSentinel(a) == sentinel[a] = {}
AsListed(o) == Logical(o) = Wanted(o)
Plainly(o) == staged[o] = Wanted(o)

\* What such a run has achieved in each phase
Emptied == /\ \A o \in Output : NoFile(o)
           /\ \A a \in Archive : NoSentinel(a)
           /\ built = {}
InlineDone(o) == /\ o \in Listed => o \in bad \/ AsListed(o)
                 /\ o \notin Listed => NoFile(o)
AtInline == /\ \A o \in Output \ Inline : NoFile(o)
            /\ \A a \in Archive : NoSentinel(a)
            /\ built = {}
            /\ \A o \in Inline \ todo : InlineDone(o)
            /\ \A o \in Inline \cap Eligible : staged[o] = Missing
BatchDone(a) == CASE batch[a] = "waiting" -> NoSentinel(a)
                  [] batch[a] = "writing" -> /\ NoSentinel(a)
                                             /\ \A o \in Of(a) \ todo : o \in bad \/ Plainly(o)
                  [] batch[a] = "over"    -> bad \cap Of(a) # {} \/ \A o \in Of(a) : Plainly(o)
AtBatches == /\ \A o \in Bsa : NoFile(o)
             /\ built = {}
             /\ \A o \in (Plain \cup Patched) \ Listed : NoFile(o)
             /\ \A o \in Inline : InlineDone(o)
             /\ \A a \in Archive : BatchDone(a)
AtBsa == /\ \A o \in Plain \cup Patched : Plainly(o)
         /\ \A o \in Inline \cap Listed : AsListed(o)
         /\ built \subseteq Listed
         /\ \A b \in Listed \cap Bsa : b \in built \/ b \notin todo => Plainly(b)
AllListed == \A o \in Listed : AsListed(o)
Reached == \A o \in (Listed \ Temp) \ todo : Right(o)

Phases ==
    /\ pc \in {"preflight", "adopting"} => Emptied
    /\ pc = "inline" => AtInline
    /\ pc = "batches" => AtBatches
    /\ pc = "bsa" => AtBsa
    /\ pc \in {"compressing", "validating", "deploying"} => AllListed
    /\ pc \in {"deploying", "done"} => Reached
    /\ pc = "done" => todo = {}
StrictOK == Strict => Phases

IInv == TypeOK /\ TodoOK /\ WholeOK /\ HashedAreRight /\ StrictOK

---------------------------------------------------------------------------
(* Lists and outputs *)

\* What a list wants of its outputs, and of an archive's batch
LEMMA WantedIs ==
  ASSUME list \in List
  PROVE  /\ \A o \in Output : Wanted(o) \in Content /\ Wanted(o) # Torn
         /\ \A o \in Output : o \in Listed <=> Wanted(o) # Missing
         /\ \A a \in Archive : \A o \in Of(a) :
               o \in Plain \cup Patched /\ o \in Output /\ o \in Listed /\ Wanted(o) = a
         /\ \A o \in (Plain \cup Patched) \cap Listed :
               Wanted(o) \in Archive /\ o \in Of(Wanted(o))
         /\ \A a \in Archive : a # Missing
<1>1. \A o \in Output : Wanted(o) \in Content /\ Wanted(o) # Torn
  BY OptionAssumption DEF Wanted, Content, Source
<1>2. \A o \in Output : o \in Listed <=> Wanted(o) # Missing
  BY DEF Listed
<1>3. \A a \in Archive : a # Missing
  BY DEF Archive
<1>4. Plain \cup Patched \subseteq Output
  BY DEF Output
<1>5. \A a \in Archive : \A o \in Of(a) : o \in Plain \cup Patched /\ Wanted(o) = a
  BY DEF Of
<1>6. \A o \in Plain \cup Patched : Wanted(o) # Missing => Wanted(o) \in Archive
  BY DEF Archive, Wanted
<1>7. \A o \in Plain \cup Patched : o \in Of(Wanted(o))
  BY DEF Of
<1>8. QED
  BY <1>1, <1>2, <1>3, <1>4, <1>5, <1>6, <1>7

\* The kinds of outputs
LEMMA KindsAre ==
  /\ Plain \subseteq Output /\ Patched \subseteq Output
  /\ Inline \subseteq Output /\ Bsa \subseteq Output
  /\ Eligible \subseteq Output /\ Eligible \cap Temp = {}
  /\ Plain \cap Patched = {} /\ Inline \cap Plain = {} /\ Inline \cap Patched = {}
  /\ Bsa \cap Plain = {} /\ Bsa \cap Patched = {} /\ Bsa \cap Inline = {}
  /\ \A b \in Bsa : Parts[b] \subseteq Plain
  /\ Output = Plain \cup Patched \cup Inline \cup Bsa
BY OutputAssumption DEF Output

\* The list stays the same but for a new run
LEMMA ListIs ==
  ASSUME list' = list
  PROVE  /\ Listed' = Listed /\ Expected' = Expected /\ Hashed' = Hashed
         /\ \A o : Wanted(o)' = Wanted(o)
         /\ \A a : Of(a)' = Of(a)
BY DEF Listed, Expected, Hashed, Wanted, Of

LinksOK(g, s, L) == \A o \in L : g[o] = s[o] /\ s[o] # Missing

\* Writing in place writes the game's file as well if it is the same
LEMMA InPlaceIs ==
  ASSUME TypeOK, NEW o \in Output, NEW c \in Content, c # Missing, InPlace(o, c)
  PROVE  /\ staged' \in [Output -> Content] /\ game' \in [Output -> Content] /\ linked' = linked
         /\ LinksOK(game', staged', linked')
         /\ staged'[o] = c /\ \A x \in Output : x # o => staged'[x] = staged[x]
BY DEF InPlace, TypeOK, LinksOK

\* A rename leaves it alone
LEMMA ReplaceIs ==
  ASSUME TypeOK, NEW o \in Output, NEW c \in Content, Replace(o, c)
  PROVE  /\ staged' \in [Output -> Content] /\ game' = game /\ linked' \subseteq linked
         /\ LinksOK(game', staged', linked')
         /\ staged'[o] = c /\ \A x \in Output : x # o => staged'[x] = staged[x]
BY DEF Replace, TypeOK, LinksOK

\* A BSA is what the list says, or torn
LEMMA MadeIs ==
  ASSUME list \in List, NEW b \in Bsa
  PROVE  /\ Made(b) \in Content
         /\ b \in Listed => Made(b) # Missing
<1>1. Wanted(b) \in Content /\ (b \in Listed => Wanted(b) # Missing)
  BY WantedIs, KindsAre
<1>2. QED
  BY <1>1, OptionAssumption DEF Made, Content

---------------------------------------------------------------------------
(* Types *)

\* Every step keeps the types
LEMMA TypeStep == IInv /\ Next => TypeOK'
<1>0. SUFFICES ASSUME IInv, Next PROVE TypeOK'
  OBVIOUS
<1>a. TypeOK /\ TodoOK /\ list \in List
  BY <1>0 DEF IInv, TypeOK
<1>b. /\ Torn \in Content /\ Missing \in Content /\ Torn # Missing
      /\ Option \subseteq SUBSET Flags
      /\ MaxRuns \in Nat /\ MaxCrashes \in Nat /\ MaxFaults \in Nat
  BY OptionAssumption DEF Content
<1>c. /\ \A o \in Output : Wanted(o) \in Content /\ (o \in Listed => Wanted(o) # Missing)
      /\ Listed \subseteq Output /\ \A a \in Archive : Of(a) \subseteq Plain \cup Patched
  BY <1>a, WantedIs DEF Listed
<1> USE DEF TypeOK, tree, marks, target, run, work, bound, Goto, End
<1>d. Fault => faults' \in 0..MaxFaults /\ UNCHANGED <<runs, crashes>>
  BY <1>a, <1>b DEF Fault
<1>1. CASE \E l \in List, s \in Option : Start(l, s)
  BY <1>a, <1>b, <1>1 DEF Start
<1>2. CASE Reset
  BY <1>a, <1>b, <1>2 DEF Reset
<1>3. CASE ResetInterrupted
  BY <1>a, <1>b, <1>3 DEF ResetInterrupted
<1>4. CASE Preflight
  BY <1>a, <1>4 DEF Preflight
<1>5. CASE Adopt
  <2>1. sentinel' \in [Archive -> SUBSET (Plain \cup Patched)]
    BY <1>a, <1>c, <1>5 DEF Adopt
  <2>2. built' \subseteq Bsa /\ todo' \subseteq Output
    BY <1>a, <1>c, <1>5 DEF Adopt, AdoptableBsa
  <2>3. QED
    BY <1>a, <1>5, <2>1, <2>2 DEF Adopt
<1>6. CASE AdoptFails
  <2>1. sentinel' \in [Archive -> SUBSET (Plain \cup Patched)]
    BY <1>a, <1>c, <1>6 DEF AdoptFails
  <2>2. built' \subseteq Bsa
    BY <1>a, <1>c, <1>6 DEF AdoptFails, AdoptableBsa
  <2>3. QED
    BY <1>a, <1>d, <1>6, <2>1, <2>2 DEF AdoptFails
<1>7. CASE \E o \in Inline : WriteInline(o)
  <2>1. PICK o \in Inline : WriteInline(o)
    BY <1>7
  <2>2. o \in Output /\ Wanted(o) \in Content /\ Wanted(o) # Missing
    BY <1>a, <1>c, <2>1, KindsAre DEF WriteInline, TodoOK
  <2>3. CASE o \in Eligible
    BY <1>a, <1>b, <2>1, <2>2, <2>3 DEF WriteInline
  <2>4. CASE o \notin Eligible
    <3>1. PICK c \in {Wanted(o), Torn} : InPlace(o, c)
      BY <2>1, <2>4 DEF WriteInline
    <3>2. /\ staged' \in [Output -> Content] /\ game' \in [Output -> Content] /\ linked' = linked
          /\ LinksOK(game', staged', linked')
      BY <1>a, <1>b, <2>2, <3>1, InPlaceIs
    <3>3. QED
      BY <1>a, <2>1, <2>2, <2>4, <3>2 DEF WriteInline, LinksOK
  <2>5. QED
    BY <2>3, <2>4, <1>a
<1>8. CASE \E o \in Inline : InlineFails(o)
  <2>1. PICK o \in Inline : InlineFails(o)
    BY <1>8
  <2>2. o \in Output
    BY KindsAre
  <2>3. QED
    BY <1>a, <1>d, <2>1, <2>2 DEF InlineFails
<1>9. CASE InlineOver
  BY <1>a, <1>9 DEF InlineOver
<1>10. CASE \E a \in Archive : StartBatch(a)
  <2>1. PICK a \in Archive : StartBatch(a)
    BY <1>10
  <2>2. batch' \in [Archive -> {"waiting", "writing", "over"}]
    BY <1>a, <2>1 DEF StartBatch
  <2>3. todo' \subseteq Output
    BY <1>a, <1>c, <2>1, KindsAre DEF StartBatch
  <2>4. QED
    BY <1>a, <2>1, <2>2, <2>3 DEF StartBatch
<1>11. CASE \E a \in Archive : RefuseBatch(a)
  <2>1. PICK a \in Archive : RefuseBatch(a)
    BY <1>11
  <2>2. batch' \in [Archive -> {"waiting", "writing", "over"}]
    BY <1>a, <2>1 DEF RefuseBatch
  <2>3. bad' \subseteq Output
    BY <1>a, <1>c, <2>1, KindsAre DEF RefuseBatch
  <2>4. QED
    BY <1>a, <1>d, <2>1, <2>2, <2>3 DEF RefuseBatch
<1>12. CASE \E a \in Archive : ExtractFails(a)
  <2>1. PICK a \in Archive : ExtractFails(a)
    BY <1>12
  <2>2. bad' \subseteq Output /\ todo' \subseteq Output /\ opened' \subseteq Output
    BY <1>a, <1>c, <2>1, KindsAre DEF ExtractFails
  <2>3. QED
    BY <1>a, <1>d, <2>1, <2>2 DEF ExtractFails
<1>13. CASE \E a \in Archive : EndBatch(a)
  <2>1. PICK a \in Archive : EndBatch(a)
    BY <1>13
  <2>2. /\ batch' \in [Archive -> {"waiting", "writing", "over"}]
        /\ sentinel' \in [Archive -> SUBSET (Plain \cup Patched)]
    BY <1>a, <1>c, <2>1 DEF EndBatch
  <2>3. QED
    BY <1>a, <2>1, <2>2 DEF EndBatch
<1>14. CASE \E a \in Archive : EndBatchFails(a)
  <2>1. PICK a \in Archive : EndBatchFails(a)
    BY <1>14
  <2>2. /\ batch' \in [Archive -> {"waiting", "writing", "over"}]
        /\ sentinel' \in [Archive -> SUBSET (Plain \cup Patched)]
    BY <1>a, <1>c, <2>1 DEF EndBatchFails
  <2>3. bad' \subseteq Output
    BY <1>a, <1>c, <2>1, KindsAre DEF EndBatchFails
  <2>4. QED
    BY <1>a, <1>d, <2>1, <2>2, <2>3 DEF EndBatchFails
<1>15. CASE \E a \in Archive, o \in Plain : Extract(a, o)
  <2>1. PICK a \in Archive, o \in Plain : Extract(a, o)
    BY <1>15
  <2>2. o \in Output /\ Wanted(o) \in Content /\ Wanted(o) # Missing
    BY <1>a, <2>1, WantedIs, KindsAre DEF Extract
  <2>3. PICK c \in {Wanted(o), Torn} : InPlace(o, c)
    BY <2>1 DEF Extract
  <2>4. /\ staged' \in [Output -> Content] /\ game' \in [Output -> Content] /\ linked' = linked
        /\ LinksOK(game', staged', linked')
    BY <1>a, <1>b, <2>2, <2>3, InPlaceIs
  <2>5. QED
    BY <1>a, <2>1, <2>2, <2>4 DEF Extract, LinksOK
<1>16. CASE \E a \in Archive, o \in Patched : Patch(a, o)
  <2>1. PICK a \in Archive, o \in Patched : Patch(a, o)
    BY <1>16
  <2>2. o \in Output /\ Wanted(o) \in Content
    BY <1>c, KindsAre
  <2>3. CASE packed[o] # Missing
    BY <1>a, <1>b, <2>1, <2>2, <2>3 DEF Patch
  <2>4. CASE packed[o] = Missing
    <3>1. Replace(o, Wanted(o)) /\ todo' = todo \ {o}
      BY <2>1, <2>4 DEF Patch
    <3>2. /\ staged' \in [Output -> Content] /\ game' = game /\ linked' \subseteq linked
          /\ LinksOK(game', staged', linked')
      BY <1>a, <2>2, <3>1, ReplaceIs
    <3>3. QED
      BY <1>a, <2>1, <2>4, <3>1, <3>2 DEF Patch, LinksOK
  <2>5. QED
    BY <2>3, <2>4, <1>a
<1>17. CASE \E a \in Archive, o \in Patched : PatchFails(a, o)
  <2>1. PICK a \in Archive, o \in Patched : PatchFails(a, o)
    BY <1>17
  <2>2. o \in Output
    BY KindsAre
  <2>3. QED
    BY <1>a, <1>d, <2>1, <2>2 DEF PatchFails
<1>18. CASE BatchesOver
  BY <1>a, KindsAre, <1>18 DEF BatchesOver
<1>19. CASE \E b \in Bsa : CreateBsa(b)
  <2>1. PICK b \in Bsa : CreateBsa(b)
    BY <1>19
  <2>2. b \in Output /\ b \in Listed /\ Made(b) \in Content /\ Made(b) # Missing
    BY <1>a, <2>1, MadeIs, KindsAre DEF CreateBsa, TodoOK
  <2>3. CASE UNCHANGED <<staged, target>>
    BY <1>a, <2>1, <2>2, <2>3 DEF CreateBsa
  <2>4. CASE \E c \in {Made(b), Torn} : InPlace(b, c)
    <3>1. PICK c \in {Made(b), Torn} : InPlace(b, c)
      BY <2>4
    <3>2. /\ staged' \in [Output -> Content] /\ game' \in [Output -> Content] /\ linked' = linked
          /\ LinksOK(game', staged', linked')
      BY <1>a, <1>b, <2>2, <3>1, InPlaceIs
    <3>3. QED
      BY <1>a, <2>1, <2>2, <3>2 DEF CreateBsa, LinksOK
  <2>5. UNCHANGED <<staged, target>> \/ \E c \in {Made(b), Torn} : InPlace(b, c)
    BY <2>1 DEF CreateBsa
  <2>6. QED
    BY <2>3, <2>4, <2>5
<1>20. CASE \E b \in Bsa : CreateBsaFails(b)
  <2>1. PICK b \in Bsa : CreateBsaFails(b)
    BY <1>20
  <2>2. b \in Output
    BY KindsAre
  <2>3. QED
    BY <1>a, <1>d, <2>1, <2>2 DEF CreateBsaFails
<1>21. CASE BsaOver
  BY <1>a, KindsAre, <1>21 DEF BsaOver
<1>22. CASE CompressOver
  BY <1>a, <1>22 DEF CompressOver
<1>23. CASE Validate
  BY <1>a, <1>23 DEF Validate
<1>24. CASE DeployOver
  BY <1>a, <1>24 DEF DeployOver
<1>25. CASE Return
  BY <1>a, <1>25 DEF Return
<1>26. CASE Crash
  BY <1>a, <1>b, <1>26 DEF Crash
<1>27. CASE \E o \in Output : Compress(o)
  <2>1. PICK o \in Output : Compress(o)
    BY <1>27
  <2>2. CASE /\ packed' = [packed EXCEPT ![o] = Torn] /\ opened' = {o}
             /\ UNCHANGED <<staged, linked, todo>>
    BY <1>a, <1>b, <2>1, <2>2 DEF Compress
  <2>3. CASE /\ packed' = [packed EXCEPT ![o] = staged[o]]
             /\ UNCHANGED <<staged, linked, todo, opened>>
    BY <1>a, <2>1, <2>3 DEF Compress
  <2>4. CASE /\ staged' = [staged EXCEPT ![o] = Missing] /\ linked' = linked \ {o}
             /\ opened' = {} /\ todo' = todo \ {o} /\ UNCHANGED packed
    BY <1>a, <1>b, <2>1, <2>4 DEF Compress
  <2>5. QED
    BY <2>1, <2>2, <2>3, <2>4 DEF Compress
<1>28. CASE \E o \in Output : Deploy(o)
  <2>1. PICK o \in Output : Deploy(o)
    BY <1>28
  <2>2. UNCHANGED <<tree, marks, pc, run, batch, bad, bound, erased>>
    BY <2>1 DEF Deploy
  <2>3. todo' \subseteq Output /\ opened' \subseteq Output
    BY <1>a, <2>1 DEF Deploy
  <2>4. /\ game' \in [Output -> Content] /\ linked' \subseteq Output
        /\ \A x \in linked' : game'[x] = staged'[x] /\ staged'[x] # Missing
    <3>1. CASE UNCHANGED target
      BY <1>a, <2>2, <3>1
    <3>2. CASE game' = [game EXCEPT ![o] = Missing] /\ linked' = linked \ {o}
      BY <1>a, <1>b, <2>2, <3>2
    <3>3. CASE game[o] = Missing /\ game' = [game EXCEPT ![o] = Torn] /\ UNCHANGED linked
      BY <1>a, <1>b, <2>2, <3>3
    <3>4. CASE /\ game' = [game EXCEPT ![o] = Logical(o)]
               /\ linked' = IF staged[o] # Missing /\ HardLinks THEN linked \cup {o} ELSE linked
      <4>1. Logical(o) \in Content
        BY <1>a DEF Logical
      <4>2. staged[o] # Missing => Logical(o) = staged[o]
        BY DEF Logical
      <4>3. HIDE DEF Logical
      <4>4. QED
        BY <1>a, <2>2, <3>4, <4>1, <4>2
    <3>5. QED
      BY <2>1, <3>1, <3>2, <3>3, <3>4 DEF Deploy
  <2>5. QED
    BY <1>a, <2>2, <2>3, <2>4
<1>q. QED
  BY <1>0, <1>1, <1>2, <1>3, <1>4, <1>5, <1>6, <1>7, <1>8, <1>9, <1>10, <1>11, <1>12, <1>13,
     <1>14, <1>15, <1>16, <1>17, <1>18, <1>19, <1>20, <1>21, <1>22, <1>23, <1>24, <1>25, <1>26,
     <1>27, <1>28 DEF Next

\* What a pass has still to do never leaves the list
LEMMA TodoStep == IInv /\ Next => TodoOK'
<1>0. SUFFICES ASSUME IInv, Next PROVE TodoOK'
  OBVIOUS
<1>a. TypeOK /\ TodoOK /\ list \in List
  BY <1>0 DEF IInv, TypeOK
<1>b. list' = list => Listed' = Listed /\ \A x : Of(x)' = Of(x)
  BY ListIs
<1>c. \A x \in Archive : Of(x) \subseteq Plain \cup Patched
  BY DEF Of
<1>d. /\ staged \in [Output -> Content] /\ batch \in [Archive -> {"waiting", "writing", "over"}]
  BY <1>a DEF TypeOK
<1> USE DEF TodoOK, tree, marks, target, run, work, bound, Goto, End
<1>1. CASE \E l \in List, s \in Option : Start(l, s)
  BY <1>1 DEF Start
<1>2. CASE Reset
  BY <1>2 DEF Reset
<1>3. CASE ResetInterrupted
  BY <1>3 DEF ResetInterrupted
<1>4. CASE Preflight
  BY <1>4 DEF Preflight
<1>5. CASE Adopt
  BY <1>5 DEF Adopt
<1>6. CASE AdoptFails
  BY <1>6 DEF AdoptFails
<1>7. CASE \E o \in Inline : WriteInline(o)
  BY <1>a, <1>7 DEF WriteInline
<1>8. CASE \E o \in Inline : InlineFails(o)
  BY <1>a, <1>8 DEF InlineFails
<1>9. CASE InlineOver
  <2>1. /\ pc' = "batches" /\ todo' = {} /\ list' = list
        /\ \A x \in Archive : batch'[x] # "over" => Of(x) # {}
    BY <1>9 DEF InlineOver
  <2>2. QED
    BY <1>b, <2>1
<1>10. CASE \E a \in Archive : StartBatch(a)
  <2>1. PICK a \in Archive : StartBatch(a)
    BY <1>10
  <2>2. /\ pc = "batches" /\ pc' = pc /\ list' = list
        /\ todo' \subseteq todo \cup Of(a)
        /\ \A x \in Archive : batch'[x] # "over" => batch[x] # "over"
    BY <1>d, <2>1 DEF StartBatch
  <2>3. QED
    BY <1>a, <1>b, <1>c, <2>2
<1>11. CASE \E a \in Archive : RefuseBatch(a)
  <2>1. PICK a \in Archive : RefuseBatch(a)
    BY <1>11
  <2>2. /\ pc = "batches" /\ pc' = pc /\ list' = list
        /\ todo' \subseteq todo \cup Of(a)
        /\ \A x \in Archive : batch'[x] # "over" => batch[x] # "over"
    BY <1>d, <2>1 DEF RefuseBatch
  <2>3. QED
    BY <1>a, <1>b, <1>c, <2>2
<1>12. CASE \E a \in Archive : ExtractFails(a)
  <2>1. PICK a \in Archive : ExtractFails(a)
    BY <1>12
  <2>2. /\ pc = "batches" /\ pc' = pc /\ list' = list
        /\ todo' \subseteq todo \cup Of(a)
        /\ \A x \in Archive : batch'[x] # "over" => batch[x] # "over"
    BY <1>d, <2>1 DEF ExtractFails, Busy
  <2>3. QED
    BY <1>a, <1>b, <1>c, <2>2
<1>13. CASE \E a \in Archive : EndBatch(a)
  <2>1. PICK a \in Archive : EndBatch(a)
    BY <1>13
  <2>2. /\ pc = "batches" /\ pc' = pc /\ list' = list
        /\ todo' \subseteq todo \cup Of(a)
        /\ \A x \in Archive : batch'[x] # "over" => batch[x] # "over"
    BY <1>d, <2>1 DEF EndBatch, Busy
  <2>3. QED
    BY <1>a, <1>b, <1>c, <2>2
<1>14. CASE \E a \in Archive : EndBatchFails(a)
  <2>1. PICK a \in Archive : EndBatchFails(a)
    BY <1>14
  <2>2. /\ pc = "batches" /\ pc' = pc /\ list' = list
        /\ todo' \subseteq todo \cup Of(a)
        /\ \A x \in Archive : batch'[x] # "over" => batch[x] # "over"
    BY <1>d, <2>1 DEF EndBatchFails, Busy
  <2>3. QED
    BY <1>a, <1>b, <1>c, <2>2
<1>15. CASE \E a \in Archive, o \in Plain : Extract(a, o)
  <2>1. PICK a \in Archive, o \in Plain : Extract(a, o)
    BY <1>15
  <2>2. /\ pc = "batches" /\ pc' = pc /\ list' = list
        /\ todo' \subseteq todo \cup Of(a)
        /\ \A x \in Archive : batch'[x] # "over" => batch[x] # "over"
    BY <1>d, <2>1 DEF Extract, Busy, Patching
  <2>3. QED
    BY <1>a, <1>b, <1>c, <2>2
<1>16. CASE \E a \in Archive, o \in Patched : Patch(a, o)
  <2>1. PICK a \in Archive, o \in Patched : Patch(a, o)
    BY <1>16
  <2>2. /\ pc = "batches" /\ pc' = pc /\ list' = list
        /\ todo' \subseteq todo \cup Of(a)
        /\ \A x \in Archive : batch'[x] # "over" => batch[x] # "over"
    BY <1>d, <2>1 DEF Patch, Busy, Patching
  <2>3. QED
    BY <1>a, <1>b, <1>c, <2>2
<1>17. CASE \E a \in Archive, o \in Patched : PatchFails(a, o)
  <2>1. PICK a \in Archive, o \in Patched : PatchFails(a, o)
    BY <1>17
  <2>2. /\ pc = "batches" /\ pc' = pc /\ list' = list
        /\ todo' \subseteq todo \cup Of(a)
        /\ \A x \in Archive : batch'[x] # "over" => batch[x] # "over"
    BY <1>d, <2>1 DEF PatchFails, Busy, Patching
  <2>3. QED
    BY <1>a, <1>b, <1>c, <2>2
<1>18. CASE BatchesOver
  BY <1>18 DEF BatchesOver
<1>19. CASE \E b \in Bsa : CreateBsa(b)
  BY <1>a, <1>19 DEF CreateBsa
<1>20. CASE \E b \in Bsa : CreateBsaFails(b)
  BY <1>a, <1>20 DEF CreateBsaFails
<1>21. CASE BsaOver
  BY <1>21 DEF BsaOver
<1>22. CASE CompressOver
  BY <1>22 DEF CompressOver
<1>23. CASE Validate
  BY <1>23 DEF Validate
<1>24. CASE DeployOver
  BY <1>24 DEF DeployOver
<1>25. CASE Return
  BY <1>25 DEF Return
<1>26. CASE Crash
  BY <1>26 DEF Crash
<1>27. CASE \E o \in Output : Compress(o)
  <2>1. PICK o \in Output : Compress(o)
    BY <1>27
  <2>2. /\ pc = "compressing" /\ pc' = pc
        /\ \A x \in todo' : x \in todo /\ x \in Output /\ staged'[x] = staged[x]
    BY <1>a, <1>d, <2>1 DEF Compress, TypeOK
  <2>3. QED
    BY <1>a, <2>2
<1>28. CASE \E o \in Output : Deploy(o)
  BY <1>28 DEF Deploy
<1>q. QED
  BY <1>0, <1>1, <1>2, <1>3, <1>4, <1>5, <1>6, <1>7, <1>8, <1>9, <1>10, <1>11, <1>12, <1>13,
     <1>14, <1>15, <1>16, <1>17, <1>18, <1>19, <1>20, <1>21, <1>22, <1>23, <1>24, <1>25, <1>26,
     <1>27, <1>28 DEF Next

---------------------------------------------------------------------------
(* Patched outputs *)

\* Nothing tears a patched output
LEMMA WholeStep == IInv /\ Next => WholeOK'
<1>0. SUFFICES ASSUME IInv, Next PROVE WholeOK'
  OBVIOUS
<1>a. TypeOK /\ TodoOK /\ WholeOK /\ list \in List
  BY <1>0 DEF IInv, TypeOK
<1>b. Missing # Torn /\ Missing \in Content /\ Torn \in Content
  BY OptionAssumption DEF Content
<1>d. /\ staged \in [Output -> Content] /\ packed \in [Output -> Content]
      /\ Patched \subseteq Output
  BY <1>a, KindsAre DEF TypeOK
<1> USE DEF WholeOK, tree, marks, target, run, work, bound, Goto, End
<1>1. CASE \E l \in List, s \in Option : Start(l, s)
  BY <1>a, <1>1 DEF Start
<1>2. CASE Reset
  BY <1>b, <1>d, <1>2 DEF Reset
<1>3. CASE ResetInterrupted
  BY <1>a, <1>b, <1>d, <1>3 DEF ResetInterrupted
<1>4. CASE Preflight
  BY <1>a, <1>4 DEF Preflight
<1>5. CASE Adopt
  BY <1>a, <1>5 DEF Adopt
<1>6. CASE AdoptFails
  BY <1>a, <1>6 DEF AdoptFails
<1>7. CASE \E o \in Inline : WriteInline(o)
  <2>1. PICK o \in Inline : WriteInline(o)
    BY <1>7
  <2>2. \A x \in Patched : x # o /\ o \in Output
    BY KindsAre
  <2>3. \A x \in Patched : staged'[x] = staged[x] /\ packed'[x] = packed[x]
    BY <1>d, <2>1, <2>2 DEF WriteInline, InPlace
  <2>4. QED
    BY <1>a, <2>1, <2>3 DEF WriteInline
<1>8. CASE \E o \in Inline : InlineFails(o)
  BY <1>a, <1>8 DEF InlineFails
<1>9. CASE InlineOver
  BY <1>a, <1>9 DEF InlineOver
<1>10. CASE \E a \in Archive : StartBatch(a)
  BY <1>a, <1>10 DEF StartBatch
<1>11. CASE \E a \in Archive : RefuseBatch(a)
  BY <1>a, <1>11 DEF RefuseBatch
<1>12. CASE \E a \in Archive : ExtractFails(a)
  BY <1>a, <1>12 DEF ExtractFails
<1>13. CASE \E a \in Archive : EndBatch(a)
  BY <1>a, <1>13 DEF EndBatch
<1>14. CASE \E a \in Archive : EndBatchFails(a)
  BY <1>a, <1>14 DEF EndBatchFails
<1>15. CASE \E a \in Archive, o \in Plain : Extract(a, o)
  <2>1. PICK a \in Archive, o \in Plain : Extract(a, o)
    BY <1>15
  <2>2. \A x \in Patched : x # o /\ o \in Output
    BY KindsAre
  <2>3. \A x \in Patched : staged'[x] = staged[x] /\ packed'[x] = packed[x]
    BY <1>d, <2>1, <2>2 DEF Extract, InPlace
  <2>4. QED
    BY <1>a, <2>1, <2>3 DEF Extract
<1>16. CASE \E a \in Archive, o \in Patched : Patch(a, o)
  <2>1. PICK a \in Archive, o \in Patched : Patch(a, o)
    BY <1>16
  <2>2. Wanted(o) \in Content /\ Wanted(o) # Torn /\ Wanted(o) # Missing /\ o \in Output
    BY <1>a, <1>d, <2>1, WantedIs DEF Patch, Patching
  <2>3. CASE packed' = [packed EXCEPT ![o] = Missing] /\ UNCHANGED staged
    BY <1>a, <1>b, <1>d, <2>1, <2>3 DEF Patch
  <2>4. CASE Replace(o, Wanted(o)) /\ UNCHANGED packed
    BY <1>a, <1>d, <2>1, <2>2, <2>4 DEF Replace, Patch
  <2>5. QED
    BY <2>1, <2>3, <2>4 DEF Patch
<1>17. CASE \E a \in Archive, o \in Patched : PatchFails(a, o)
  BY <1>a, <1>17 DEF PatchFails
<1>18. CASE BatchesOver
  BY <1>a, <1>18 DEF BatchesOver
<1>19. CASE \E b \in Bsa : CreateBsa(b)
  <2>1. PICK b \in Bsa : CreateBsa(b)
    BY <1>19
  <2>2. \A x \in Patched : x # b /\ b \in Output
    BY KindsAre
  <2>3. \A x \in Patched : staged'[x] = staged[x] /\ packed'[x] = packed[x]
    BY <1>d, <2>1, <2>2 DEF CreateBsa, InPlace
  <2>4. QED
    BY <1>a, <2>1, <2>3 DEF CreateBsa
<1>20. CASE \E b \in Bsa : CreateBsaFails(b)
  BY <1>a, <1>20 DEF CreateBsaFails
<1>21. CASE BsaOver
  BY <1>a, <1>21 DEF BsaOver
<1>22. CASE CompressOver
  BY <1>a, <1>22 DEF CompressOver
<1>23. CASE Validate
  BY <1>a, <1>23 DEF Validate
<1>24. CASE DeployOver
  BY <1>a, <1>24 DEF DeployOver
<1>25. CASE Return
  BY <1>a, <1>25 DEF Return
<1>26. CASE Crash
  BY <1>a, <1>26 DEF Crash
<1>27. CASE \E o \in Output : Compress(o)
  <2>1. PICK o \in Output : Compress(o)
    BY <1>27
  <2>2. /\ erased' = erased
        /\ \A x \in Patched : x # o => staged'[x] = staged[x] /\ packed'[x] = packed[x]
    BY <1>d, <2>1 DEF Compress
  <2>3. CASE o \notin Patched
    BY <1>a, <2>2, <2>3
  <2>4. CASE o \in Patched
    <3>1. staged[o] # Missing
      BY <1>a, <2>1 DEF Compress, TodoOK
    <3>2. /\ staged'[o] # Torn
          /\ packed'[o] = Torn => staged'[o] # Missing
      BY <1>a, <1>b, <1>d, <2>1, <2>4, <3>1 DEF Compress
    <3>3. QED
      BY <1>a, <2>2, <3>2
  <2>5. QED
    BY <2>3, <2>4
<1>28. CASE \E o \in Output : Deploy(o)
  BY <1>a, <1>28 DEF Deploy
<1>q. QED
  BY <1>0, <1>1, <1>2, <1>3, <1>4, <1>5, <1>6, <1>7, <1>8, <1>9, <1>10, <1>11, <1>12, <1>13,
     <1>14, <1>15, <1>16, <1>17, <1>18, <1>19, <1>20, <1>21, <1>22, <1>23, <1>24, <1>25, <1>26,
     <1>27, <1>28 DEF Next

---------------------------------------------------------------------------
(* What is deployed *)

\* After validation nothing touches staging
LEMMA HashedStep == IInv /\ Next => HashedAreRight'
<1>0. SUFFICES ASSUME IInv, Next PROVE HashedAreRight'
  OBVIOUS
<1>a. HashedAreRight
  BY <1>0 DEF IInv
<1>b. list' = list => Hashed' = Hashed /\ \A o : Wanted(o)' = Wanted(o)
  BY ListIs
<1>c. UNCHANGED tree => \A o : Logical(o)' = Logical(o)
  BY DEF Logical, tree
<1> USE DEF HashedAreRight, marks, target, run, work, bound, Goto, End
<1>1. CASE \E l \in List, s \in Option : Start(l, s)
  <2>1. pc' \notin {"deploying", "done"}
    BY <1>1 DEF Start
  <2>2. QED
    BY <2>1
<1>2. CASE Reset
  BY <1>2 DEF Reset
<1>3. CASE ResetInterrupted
  BY <1>3 DEF ResetInterrupted
<1>4. CASE Preflight
  BY <1>4 DEF Preflight
<1>5. CASE Adopt
  BY <1>5 DEF Adopt
<1>6. CASE AdoptFails
  BY <1>6 DEF AdoptFails
<1>7. CASE \E o \in Inline : WriteInline(o)
  <2>1. pc' \notin {"deploying", "done"}
    BY <1>7 DEF WriteInline
  <2>2. QED
    BY <2>1
<1>8. CASE \E o \in Inline : InlineFails(o)
  <2>1. pc' \notin {"deploying", "done"}
    BY <1>8 DEF InlineFails
  <2>2. QED
    BY <2>1
<1>9. CASE InlineOver
  BY <1>9 DEF InlineOver
<1>10. CASE \E a \in Archive : StartBatch(a)
  <2>1. pc' \notin {"deploying", "done"}
    BY <1>10 DEF StartBatch
  <2>2. QED
    BY <2>1
<1>11. CASE \E a \in Archive : RefuseBatch(a)
  <2>1. pc' \notin {"deploying", "done"}
    BY <1>11 DEF RefuseBatch
  <2>2. QED
    BY <2>1
<1>12. CASE \E a \in Archive : ExtractFails(a)
  <2>1. pc' \notin {"deploying", "done"}
    BY <1>12 DEF ExtractFails, Busy
  <2>2. QED
    BY <2>1
<1>13. CASE \E a \in Archive : EndBatch(a)
  <2>1. pc' \notin {"deploying", "done"}
    BY <1>13 DEF EndBatch, Busy
  <2>2. QED
    BY <2>1
<1>14. CASE \E a \in Archive : EndBatchFails(a)
  <2>1. pc' \notin {"deploying", "done"}
    BY <1>14 DEF EndBatchFails, Busy
  <2>2. QED
    BY <2>1
<1>15. CASE \E a \in Archive, o \in Plain : Extract(a, o)
  <2>1. pc' \notin {"deploying", "done"}
    BY <1>15 DEF Extract, Busy
  <2>2. QED
    BY <2>1
<1>16. CASE \E a \in Archive, o \in Patched : Patch(a, o)
  <2>1. pc' \notin {"deploying", "done"}
    BY <1>16 DEF Patch, Patching, Busy
  <2>2. QED
    BY <2>1
<1>17. CASE \E a \in Archive, o \in Patched : PatchFails(a, o)
  <2>1. pc' \notin {"deploying", "done"}
    BY <1>17 DEF PatchFails, Patching, Busy
  <2>2. QED
    BY <2>1
<1>18. CASE BatchesOver
  BY <1>18 DEF BatchesOver
<1>19. CASE \E b \in Bsa : CreateBsa(b)
  <2>1. pc' \notin {"deploying", "done"}
    BY <1>19 DEF CreateBsa
  <2>2. QED
    BY <2>1
<1>20. CASE \E b \in Bsa : CreateBsaFails(b)
  <2>1. pc' \notin {"deploying", "done"}
    BY <1>20 DEF CreateBsaFails
  <2>2. QED
    BY <2>1
<1>21. CASE BsaOver
  BY <1>21 DEF BsaOver
<1>22. CASE CompressOver
  BY <1>22 DEF CompressOver
<1>23. CASE Validate
  <2>1. list' = list /\ UNCHANGED tree
    BY <1>23 DEF Validate
  <2>2. CASE Mismatched = {}
    <3>1. \A o \in Hashed : Logical(o) = Wanted(o)
      BY <2>2 DEF Mismatched
    <3>2. QED
      BY <1>b, <1>c, <2>1, <3>1
  <2>3. CASE Mismatched # {}
    BY <1>23, <2>3 DEF Validate
  <2>4. QED
    BY <2>2, <2>3
<1>24. CASE DeployOver
  BY <1>a, <1>b, <1>c, <1>24 DEF DeployOver
<1>25. CASE Return
  BY <1>25 DEF Return
<1>26. CASE Crash
  BY <1>26 DEF Crash
<1>27. CASE \E o \in Output : Compress(o)
  <2>1. pc' \notin {"deploying", "done"}
    BY <1>27 DEF Compress
  <2>2. QED
    BY <2>1
<1>28. CASE \E o \in Output : Deploy(o)
  BY <1>a, <1>b, <1>c, <1>28 DEF Deploy
<1>q. QED
  BY <1>0, <1>1, <1>2, <1>3, <1>4, <1>5, <1>6, <1>7, <1>8, <1>9, <1>10, <1>11, <1>12, <1>13,
     <1>14, <1>15, <1>16, <1>17, <1>18, <1>19, <1>20, <1>21, <1>22, <1>23, <1>24, <1>25, <1>26,
     <1>27, <1>28 DEF Next

---------------------------------------------------------------------------
(* The run that starts from an emptied tree *)

\* A file or sentinel elsewhere says nothing here
LEMMA SameFile ==
  ASSUME NEW o, staged'[o] = staged[o], packed'[o] = packed[o], list' = list
  PROVE  /\ NoFile(o)' = NoFile(o) /\ AsListed(o)' = AsListed(o) /\ Plainly(o)' = Plainly(o)
         /\ Logical(o)' = Logical(o)
BY DEF NoFile, AsListed, Plainly, Logical, Wanted

\* A listed output that is plainly there is as listed
LEMMA PlainlyIs ==
  ASSUME list \in List, NEW o \in Output \cap Listed, Plainly(o)
  PROVE  AsListed(o)
BY WantedIs DEF Plainly, AsListed, Logical

\* A strict run with --reset achieves in every phase what the next one starts from
LEMMA StrictStep == IInv /\ Next => StrictOK'
<1>0. SUFFICES ASSUME IInv, Next, Strict' PROVE Phases'
  BY DEF StrictOK
<1>a. TypeOK /\ TodoOK /\ list \in List /\ (Strict => Phases)
  BY <1>0 DEF IInv, TypeOK, StrictOK
<1>b. list' = list => /\ Listed' = Listed /\ \A x : Of(x)' = Of(x)
                      /\ \A o : Wanted(o)' = Wanted(o)
  BY ListIs
<1>c. opts' = opts => Strict
  BY <1>0 DEF Strict
<1>d. /\ staged \in [Output -> Content] /\ packed \in [Output -> Content]
      /\ game \in [Output -> Content]
      /\ batch \in [Archive -> {"waiting", "writing", "over"}] /\ bad \subseteq Output
      /\ sentinel \in [Archive -> SUBSET (Plain \cup Patched)]
      /\ todo \subseteq Output /\ built \subseteq Bsa
      /\ Plain \subseteq Output /\ Patched \subseteq Output /\ Inline \subseteq Output
      /\ Bsa \subseteq Output /\ Listed \subseteq Output
  BY <1>a, KindsAre DEF TypeOK, Listed
<1>e. /\ \A x \in Archive : \A o \in Of(x) :
            o \in Plain \cup Patched /\ o \in Output /\ o \in Listed /\ Wanted(o) = x
      /\ \A o \in Listed : Wanted(o) # Missing
  BY <1>a, <1>d, WantedIs
<1>i. pc' \in {"idle", "reset"} => Phases'
  BY DEF Phases
<1> USE DEF tree, marks, target, run, work, bound, Goto, End
<1>1. CASE \E l \in List, s \in Option : Start(l, s)
  <2>1. PICK l \in List, s \in Option : Start(l, s)
    BY <1>1
  <2>2. "reset" \in s
    BY <1>0, <2>1 DEF Start, Strict
  <2>3. QED
    BY <1>i, <2>1, <2>2 DEF Start
<1>2. CASE Reset
  <2>1. pc' = "preflight" /\ Emptied'
    BY <1>2 DEF Reset, Emptied, NoFile, NoSentinel
  <2>2. QED
    BY <2>1 DEF Phases
<1>3. CASE ResetInterrupted
  BY <1>i, <1>3 DEF ResetInterrupted
<1>4. CASE Preflight
  <2>1. Emptied /\ list' = list /\ opts' = opts
    BY <1>a, <1>c, <1>4 DEF Preflight, Phases
  <2>2. Emptied'
    BY <2>1, <1>4 DEF Preflight, Emptied, NoFile, NoSentinel
  <2>3. pc' = "adopting"
    BY <1>d, <2>1, <1>4 DEF Preflight, Emptied, NoFile, There, Expected
  <2>4. QED
    BY <2>2, <2>3 DEF Phases
<1>5. CASE Adopt
  <2>1. Emptied /\ list' = list /\ opts' = opts /\ pc' = "inline"
    BY <1>a, <1>c, <1>5 DEF Adopt, Phases
  <2>2. \A o \in Output : ~There(o)
    BY <2>1 DEF Emptied, NoFile, There
  <2>3. Adoptable = {} /\ AdoptableBsa = {}
    BY <1>d, <1>e, <2>2 DEF Adoptable, AdoptableBsa
  <2>4. /\ \A o \in Output : NoFile(o)'
        /\ \A x \in Archive : NoSentinel(x)'
        /\ built' = {} /\ todo' = Listed \cap Inline
    BY <1>d, <2>1, <2>3, <1>5 DEF Adopt, Emptied, NoFile, NoSentinel
  <2>5. AtInline'
    BY <1>b, <1>d, <2>1, <2>4 DEF AtInline, InlineDone, NoFile
  <2>6. QED
    BY <2>1, <2>5 DEF Phases
<1>6. CASE AdoptFails
  BY <1>i, <1>6 DEF AdoptFails
<1>7. CASE \E o \in Inline : WriteInline(o)
  <2>1. PICK o \in Inline : WriteInline(o)
    BY <1>7
  <2>2. /\ AtInline /\ list' = list /\ opts' = opts /\ pc' = "inline" /\ o \in todo
        /\ o \in Listed /\ o \in Output /\ UNCHANGED <<sentinel, built, bad>>
    BY <1>a, <1>c, <1>d, <2>1 DEF WriteInline, Phases, TodoOK
  <2>3. \A x \in Output : x # o => staged'[x] = staged[x] /\ packed'[x] = packed[x]
    BY <1>d, <2>1 DEF WriteInline, InPlace
  <2>4. /\ o \in Eligible => staged'[o] = staged[o]
        /\ \A x \in Inline \cap Eligible : staged'[x] = staged[x]
    BY <1>d, <2>1, <2>2, <2>3 DEF WriteInline
  <2>5. CASE o \in opened
    <3>1. todo' = todo \ {o}
      BY <2>1, <2>5 DEF WriteInline
    <3>2. AsListed(o)'
      <4>1. IF o \in Eligible THEN staged'[o] = Missing /\ packed'[o] = Wanted(o)
                              ELSE staged'[o] = Wanted(o)
        BY <1>d, <2>1, <2>2, <2>4, <2>5 DEF WriteInline, InPlace, AtInline
      <4>2. QED
        BY <1>b, <1>e, <2>2, <4>1 DEF AsListed, Logical
    <3>3. \A x \in Inline \ todo' : InlineDone(x)'
      BY <1>b, <1>d, <2>2, <2>3, <3>1, <3>2, SameFile DEF InlineDone, AtInline
    <3>4. QED
      BY <1>d, <2>2, <2>3, <2>4, <3>3, SameFile DEF Phases, AtInline, NoSentinel
  <2>6. CASE o \notin opened
    <3>1. todo' = todo
      BY <2>1, <2>6 DEF WriteInline
    <3>2. \A x \in Inline \ todo' : InlineDone(x)'
      BY <1>b, <1>d, <2>2, <2>3, <3>1, SameFile DEF InlineDone, AtInline
    <3>3. QED
      BY <1>d, <2>2, <2>3, <2>4, <3>2, SameFile DEF Phases, AtInline, NoSentinel
  <2>7. QED
    BY <2>5, <2>6
<1>8. CASE \E o \in Inline : InlineFails(o)
  <2>1. PICK o \in Inline : InlineFails(o)
    BY <1>8
  <2>2. /\ AtInline /\ list' = list /\ opts' = opts /\ pc' = "inline" /\ o \in todo
        /\ o \in Listed /\ UNCHANGED <<sentinel, built, staged, packed>>
        /\ todo' = todo \ {o} /\ bad' = bad \cup {o}
    BY <1>a, <1>c, <1>d, <2>1 DEF InlineFails, Phases, TodoOK
  <2>3. \A x \in Inline \ todo' : InlineDone(x)'
    BY <1>b, <1>d, <2>2, SameFile DEF InlineDone, AtInline
  <2>4. QED
    BY <1>d, <2>2, <2>3, SameFile DEF Phases, AtInline, NoSentinel
<1>9. CASE InlineOver
  <2>1. /\ AtInline /\ list' = list /\ opts' = opts /\ pc' = "batches" /\ todo = {}
        /\ UNCHANGED <<sentinel, built, staged, packed, todo, bad>>
        /\ \A x \in Archive : IF Of(x) # {} THEN batch'[x] = "waiting" ELSE batch'[x] = "over"
    BY <1>a, <1>c, <1>d, <1>9 DEF InlineOver, Phases
  <2>2. \A x \in Inline : InlineDone(x)'
    BY <1>b, <1>d, <2>1, SameFile DEF InlineDone, AtInline
  <2>3. \A x \in Archive : BatchDone(x)'
    BY <1>b, <2>1 DEF BatchDone, AtInline, NoSentinel
  <2>4. \A x \in Plain \cup Patched \cup Bsa : NoFile(x)'
    BY <1>d, <2>1, SameFile, KindsAre DEF AtInline
  <2>5. AtBatches'
    BY <1>b, <2>1, <2>2, <2>3, <2>4 DEF AtBatches, AtInline
  <2>6. QED
    BY <2>1, <2>5 DEF Phases
<1>10. CASE \E a \in Archive : StartBatch(a)
  <2>1. PICK a \in Archive : StartBatch(a)
    BY <1>10
  <2>2. /\ AtBatches /\ list' = list /\ opts' = opts /\ pc' = "batches" /\ built' = built
        /\ BatchDone(a)
    BY <1>a, <1>c, <2>1 DEF StartBatch, Phases, AtBatches
  <2>3. UNCHANGED <<staged, packed>>
    BY <2>1 DEF StartBatch
  <2>4. /\ batch[a] = "waiting" /\ sentinel[a] = {} /\ Of(a) # {}
        /\ UNCHANGED <<sentinel, bad>>
    BY <1>a, <2>1, <2>2 DEF StartBatch, BatchDone, NoSentinel, TodoOK
  <2>5. /\ batch' = [batch EXCEPT ![a] = "writing"] /\ todo' = todo \cup Of(a)
        /\ bad \subseteq bad'
    BY <2>1, <2>4 DEF StartBatch, Valid
  <2>6. \A x \in Inline : InlineDone(x)'
    BY <1>b, <1>d, <2>2, <2>3, <2>5, SameFile DEF AtBatches, InlineDone
  <2>7. \A x \in Archive : BatchDone(x)'
    <3>1. BatchDone(a)'
      BY <1>b, <1>d, <2>2, <2>4, <2>5 DEF BatchDone, NoSentinel
    <3>2. ASSUME NEW x \in Archive, x # a PROVE BatchDone(x)'
      <4>1. BatchDone(x) /\ batch'[x] = batch[x] /\ Of(x)' = Of(x)
        BY <1>b, <1>d, <2>2, <2>5, <3>2 DEF AtBatches
      <4>2. \A o \in Of(x) : Plainly(o)' = Plainly(o)
        BY <2>2, <2>3, SameFile
      <4>3. QED
        BY <1>d, <2>4, <2>5, <4>1, <4>2 DEF BatchDone, NoSentinel
    <3>3. QED
      BY <3>1, <3>2
  <2>8. AtBatches'
    BY <1>b, <1>d, <2>2, <2>3, <2>6, <2>7, SameFile DEF AtBatches
  <2>9. QED
    BY <2>2, <2>8 DEF Phases
<1>11. CASE \E a \in Archive : RefuseBatch(a)
  <2>1. PICK a \in Archive : RefuseBatch(a)
    BY <1>11
  <2>2. /\ AtBatches /\ list' = list /\ opts' = opts /\ pc' = "batches" /\ built' = built
        /\ BatchDone(a)
    BY <1>a, <1>c, <2>1 DEF RefuseBatch, Phases, AtBatches
  <2>3. UNCHANGED <<staged, packed>>
    BY <2>1 DEF RefuseBatch
  <2>4. batch[a] = "waiting" /\ Of(a) # {} /\ UNCHANGED <<sentinel, todo>>
    BY <1>a, <2>1, <2>2 DEF RefuseBatch, TodoOK
  <2>5. batch' = [batch EXCEPT ![a] = "over"] /\ bad' = bad \cup Of(a) /\ bad \subseteq bad'
    BY <2>1 DEF RefuseBatch
  <2>6. \A x \in Inline : InlineDone(x)'
    BY <1>b, <1>d, <2>2, <2>3, <2>5, SameFile DEF AtBatches, InlineDone
  <2>7. \A x \in Archive : BatchDone(x)'
    <3>1. BatchDone(a)'
      BY <1>b, <1>d, <2>2, <2>4, <2>5 DEF BatchDone
    <3>2. ASSUME NEW x \in Archive, x # a PROVE BatchDone(x)'
      <4>1. BatchDone(x) /\ batch'[x] = batch[x] /\ Of(x)' = Of(x)
        BY <1>b, <1>d, <2>2, <2>5, <3>2 DEF AtBatches
      <4>2. \A o \in Of(x) : Plainly(o)' = Plainly(o)
        BY <2>2, <2>3, SameFile
      <4>3. QED
        BY <1>d, <2>4, <2>5, <4>1, <4>2 DEF BatchDone, NoSentinel
    <3>3. QED
      BY <3>1, <3>2
  <2>8. AtBatches'
    BY <1>b, <1>d, <2>2, <2>3, <2>6, <2>7, SameFile DEF AtBatches
  <2>9. QED
    BY <2>2, <2>8 DEF Phases
<1>12. CASE \E a \in Archive : ExtractFails(a)
  <2>1. PICK a \in Archive : ExtractFails(a)
    BY <1>12
  <2>2. /\ AtBatches /\ list' = list /\ opts' = opts /\ pc' = "batches" /\ built' = built
        /\ BatchDone(a)
    BY <1>a, <1>c, <2>1 DEF ExtractFails, Busy, Phases, AtBatches
  <2>3. UNCHANGED <<staged, packed>>
    BY <2>1 DEF ExtractFails
  <2>4. batch[a] = "writing" /\ UNCHANGED <<sentinel, batch>>
    BY <2>1 DEF ExtractFails, Busy
  <2>5. /\ bad' = bad \cup (Of(a) \cap Plain) /\ todo' = todo \ (Of(a) \cap Plain)
        /\ bad \subseteq bad'
    BY <2>1 DEF ExtractFails
  <2>6. \A x \in Inline : InlineDone(x)'
    BY <1>b, <1>d, <2>2, <2>3, <2>5, SameFile DEF AtBatches, InlineDone
  <2>7. \A x \in Archive : BatchDone(x)'
    <3>2. SUFFICES ASSUME NEW x \in Archive PROVE BatchDone(x)'
      OBVIOUS
    <3>3. BatchDone(x) /\ Of(x)' = Of(x)
      BY <1>b, <2>2 DEF AtBatches
    <3>4. \A o \in Of(x) : Plainly(o)' = Plainly(o)
      BY <2>2, <2>3, SameFile
    <3>5. \A o \in Of(x) \ todo' : o \in bad' \/ o \in Of(x) \ todo
      BY <1>e, <2>5
    <3>6. QED
      BY <1>d, <2>4, <2>5, <3>3, <3>4, <3>5 DEF BatchDone, NoSentinel
  <2>8. AtBatches'
    BY <1>b, <1>d, <2>2, <2>3, <2>6, <2>7, SameFile DEF AtBatches
  <2>9. QED
    BY <2>2, <2>8 DEF Phases
<1>13. CASE \E a \in Archive : EndBatch(a)
  <2>1. PICK a \in Archive : EndBatch(a)
    BY <1>13
  <2>2. /\ AtBatches /\ list' = list /\ opts' = opts /\ pc' = "batches" /\ built' = built
        /\ BatchDone(a)
    BY <1>a, <1>c, <2>1 DEF EndBatch, Busy, Phases, AtBatches
  <2>3. UNCHANGED <<staged, packed>>
    BY <2>1 DEF EndBatch
  <2>4. /\ batch[a] = "writing" /\ todo \cap Of(a) = {}
        /\ UNCHANGED <<todo, bad>> /\ bad \subseteq bad'
    BY <2>1 DEF EndBatch, Busy
  <2>5. /\ batch' = [batch EXCEPT ![a] = "over"] /\ bad \subseteq bad'
        /\ \A x \in Archive : x # a => sentinel'[x] = sentinel[x]
    BY <1>d, <2>1, <2>4 DEF EndBatch
  <2>6. \A x \in Inline : InlineDone(x)'
    BY <1>b, <1>d, <2>2, <2>3, <2>5, SameFile DEF AtBatches, InlineDone
  <2>7. \A x \in Archive : BatchDone(x)'
    <3>1. BatchDone(a)'
      <4>1. \A o \in Of(a) : Plainly(o)' = Plainly(o)
        BY <2>2, <2>3, SameFile
      <4>2. \A o \in Of(a) : o \in bad \/ Plainly(o)
        BY <2>2, <2>4 DEF BatchDone
      <4>3. QED
        BY <1>b, <1>d, <2>2, <2>4, <2>5, <4>1, <4>2 DEF BatchDone
    <3>2. ASSUME NEW x \in Archive, x # a PROVE BatchDone(x)'
      <4>1. BatchDone(x) /\ batch'[x] = batch[x] /\ Of(x)' = Of(x)
        BY <1>b, <1>d, <2>2, <2>5, <3>2 DEF AtBatches
      <4>2. \A o \in Of(x) : Plainly(o)' = Plainly(o)
        BY <2>2, <2>3, SameFile
      <4>3. QED
        BY <1>d, <2>4, <2>5, <3>2, <4>1, <4>2 DEF BatchDone, NoSentinel
    <3>3. QED
      BY <3>1, <3>2
  <2>8. AtBatches'
    BY <1>b, <1>d, <2>2, <2>3, <2>6, <2>7, SameFile DEF AtBatches
  <2>9. QED
    BY <2>2, <2>8 DEF Phases
<1>14. CASE \E a \in Archive : EndBatchFails(a)
  <2>1. PICK a \in Archive : EndBatchFails(a)
    BY <1>14
  <2>2. /\ AtBatches /\ list' = list /\ opts' = opts /\ pc' = "batches" /\ built' = built
        /\ BatchDone(a)
    BY <1>a, <1>c, <2>1 DEF EndBatchFails, Busy, Phases, AtBatches
  <2>3. UNCHANGED <<staged, packed>>
    BY <2>1 DEF EndBatchFails
  <2>4. batch[a] = "writing" /\ Of(a) # {} /\ UNCHANGED todo
    BY <1>a, <2>1 DEF EndBatchFails, Busy, TodoOK
  <2>5. /\ batch' = [batch EXCEPT ![a] = "over"] /\ bad' = bad \cup Of(a) /\ bad \subseteq bad'
        /\ \A x \in Archive : x # a => sentinel'[x] = sentinel[x]
    BY <1>d, <2>1 DEF EndBatchFails
  <2>6. \A x \in Inline : InlineDone(x)'
    BY <1>b, <1>d, <2>2, <2>3, <2>5, SameFile DEF AtBatches, InlineDone
  <2>7. \A x \in Archive : BatchDone(x)'
    <3>1. BatchDone(a)'
      BY <1>b, <1>d, <2>2, <2>4, <2>5 DEF BatchDone
    <3>2. ASSUME NEW x \in Archive, x # a PROVE BatchDone(x)'
      <4>1. BatchDone(x) /\ batch'[x] = batch[x] /\ Of(x)' = Of(x)
        BY <1>b, <1>d, <2>2, <2>5, <3>2 DEF AtBatches
      <4>2. \A o \in Of(x) : Plainly(o)' = Plainly(o)
        BY <2>2, <2>3, SameFile
      <4>3. QED
        BY <1>d, <2>4, <2>5, <3>2, <4>1, <4>2 DEF BatchDone, NoSentinel
    <3>3. QED
      BY <3>1, <3>2
  <2>8. AtBatches'
    BY <1>b, <1>d, <2>2, <2>3, <2>6, <2>7, SameFile DEF AtBatches
  <2>9. QED
    BY <2>2, <2>8 DEF Phases
<1>15. CASE \E a \in Archive, o \in Plain : Extract(a, o)
  <2>1. PICK a \in Archive, o \in Plain : Extract(a, o)
    BY <1>15
  <2>2. /\ AtBatches /\ list' = list /\ opts' = opts /\ pc' = "batches" /\ built' = built
        /\ BatchDone(a)
    BY <1>a, <1>c, <2>1 DEF Extract, Busy, Phases, AtBatches
  <2>3. /\ o \in Of(a) /\ o \in todo /\ batch[a] = "writing" /\ UNCHANGED <<sentinel, batch, bad>>
        /\ o \in Plain \cup Patched
    BY <2>1 DEF Extract, Busy
  <2>4. \A x \in Output : x # o => staged'[x] = staged[x] /\ packed'[x] = packed[x]
    BY <1>d, <1>e, <2>1, <2>3 DEF Extract, InPlace
  <2>5. todo' = todo \/ (todo' = todo \ {o} /\ staged'[o] = Wanted(o))
    BY <1>d, <1>e, <2>1, <2>3 DEF Extract, InPlace
  <2>6. \A x \in Inline : InlineDone(x)'
    BY <1>b, <1>d, <2>2, <2>3, <2>4, SameFile, KindsAre DEF AtBatches, InlineDone
  <2>7. \A x \in Archive : BatchDone(x)'
    <3>1. SUFFICES ASSUME NEW x \in Archive PROVE BatchDone(x)'
      OBVIOUS
    <3>2. BatchDone(x) /\ Of(x)' = Of(x) /\ NoSentinel(x)' = NoSentinel(x)
      BY <1>b, <2>2, <2>3 DEF AtBatches, NoSentinel
    <3>3. \A y \in Of(x) : y # o => Plainly(y)' = Plainly(y)
      BY <1>e, <2>2, <2>4, SameFile
    <3>4. o \in Of(x) => x = a
      BY <1>e, <2>3
    <3>5. todo' = todo \/ (todo' = todo \ {o} /\ Plainly(o)')
      BY <1>b, <2>2, <2>5 DEF Plainly
    <3>6. QED
      BY <2>3, <3>2, <3>3, <3>4, <3>5 DEF BatchDone
  <2>8. AtBatches'
    <3>1. \A x \in Bsa \cup ((Plain \cup Patched) \ Listed) : x # o /\ x \in Output
      BY <1>d, <1>e, <2>3, KindsAre
    <3>2. QED
      BY <1>b, <2>2, <2>4, <2>6, <2>7, <3>1, SameFile DEF AtBatches
  <2>9. QED
    BY <2>2, <2>8 DEF Phases
<1>16. CASE \E a \in Archive, o \in Patched : Patch(a, o)
  <2>1. PICK a \in Archive, o \in Patched : Patch(a, o)
    BY <1>16
  <2>2. /\ AtBatches /\ list' = list /\ opts' = opts /\ pc' = "batches" /\ built' = built
        /\ BatchDone(a)
    BY <1>a, <1>c, <2>1 DEF Patch, Busy, Patching, Phases, AtBatches
  <2>3. /\ o \in Of(a) /\ o \in todo /\ batch[a] = "writing" /\ UNCHANGED <<sentinel, batch, bad>>
        /\ o \in Plain \cup Patched
    BY <2>1 DEF Patch, Busy, Patching
  <2>4. \A x \in Output : x # o => staged'[x] = staged[x] /\ packed'[x] = packed[x]
    BY <1>d, <1>e, <2>1, <2>3 DEF Patch, Replace
  <2>5. todo' = todo \/ (todo' = todo \ {o} /\ staged'[o] = Wanted(o))
    BY <1>d, <1>e, <2>1, <2>3 DEF Patch, Replace
  <2>6. \A x \in Inline : InlineDone(x)'
    BY <1>b, <1>d, <2>2, <2>3, <2>4, SameFile, KindsAre DEF AtBatches, InlineDone
  <2>7. \A x \in Archive : BatchDone(x)'
    <3>1. SUFFICES ASSUME NEW x \in Archive PROVE BatchDone(x)'
      OBVIOUS
    <3>2. BatchDone(x) /\ Of(x)' = Of(x) /\ NoSentinel(x)' = NoSentinel(x)
      BY <1>b, <2>2, <2>3 DEF AtBatches, NoSentinel
    <3>3. \A y \in Of(x) : y # o => Plainly(y)' = Plainly(y)
      BY <1>e, <2>2, <2>4, SameFile
    <3>4. o \in Of(x) => x = a
      BY <1>e, <2>3
    <3>5. todo' = todo \/ (todo' = todo \ {o} /\ Plainly(o)')
      BY <1>b, <2>2, <2>5 DEF Plainly
    <3>6. QED
      BY <2>3, <3>2, <3>3, <3>4, <3>5 DEF BatchDone
  <2>8. AtBatches'
    <3>1. \A x \in Bsa \cup ((Plain \cup Patched) \ Listed) : x # o /\ x \in Output
      BY <1>d, <1>e, <2>3, KindsAre
    <3>2. QED
      BY <1>b, <2>2, <2>4, <2>6, <2>7, <3>1, SameFile DEF AtBatches
  <2>9. QED
    BY <2>2, <2>8 DEF Phases
<1>17. CASE \E a \in Archive, o \in Patched : PatchFails(a, o)
  <2>1. PICK a \in Archive, o \in Patched : PatchFails(a, o)
    BY <1>17
  <2>2. /\ AtBatches /\ list' = list /\ opts' = opts /\ pc' = "batches" /\ built' = built
        /\ BatchDone(a)
    BY <1>a, <1>c, <2>1 DEF PatchFails, Patching, Busy, Phases, AtBatches
  <2>3. UNCHANGED <<staged, packed>>
    BY <2>1 DEF PatchFails
  <2>4. batch[a] = "writing" /\ UNCHANGED <<sentinel, batch>>
    BY <2>1 DEF PatchFails, Patching, Busy
  <2>5. /\ bad' = bad \cup {o} /\ todo' = todo \ {o} /\ bad \subseteq bad'
    BY <2>1 DEF PatchFails
  <2>6. \A x \in Inline : InlineDone(x)'
    BY <1>b, <1>d, <2>2, <2>3, <2>5, SameFile DEF AtBatches, InlineDone
  <2>7. \A x \in Archive : BatchDone(x)'
    <3>2. SUFFICES ASSUME NEW x \in Archive PROVE BatchDone(x)'
      OBVIOUS
    <3>3. BatchDone(x) /\ Of(x)' = Of(x)
      BY <1>b, <2>2 DEF AtBatches
    <3>4. \A y \in Of(x) : Plainly(y)' = Plainly(y)
      BY <2>2, <2>3, SameFile
    <3>5. \A y \in Of(x) \ todo' : y \in bad' \/ y \in Of(x) \ todo
      BY <2>5
    <3>6. QED
      BY <1>d, <2>4, <2>5, <3>3, <3>4, <3>5 DEF BatchDone, NoSentinel
  <2>8. AtBatches'
    BY <1>b, <1>d, <2>2, <2>3, <2>6, <2>7, SameFile DEF AtBatches
  <2>9. QED
    BY <2>2, <2>8 DEF Phases
<1>18. CASE BatchesOver
  <2>1. CASE pc' = "idle"
    BY <1>i, <2>1
  <2>2. CASE pc' # "idle"
    <3>1. /\ pc' = "bsa" /\ list' = list /\ opts' = opts /\ todo' = Listed \cap Bsa
          /\ pc = "batches"
          /\ \A x \in Archive : batch[x] = "over"
          /\ UNCHANGED <<staged, packed, built>> /\ (bad = {} \/ "lenient" \in opts)
      BY <1>18, <2>2 DEF BatchesOver
    <3>2. bad = {} /\ AtBatches
      BY <1>a, <1>c, <3>1 DEF Phases, Strict
    <3>3. \A x \in Archive : \A o \in Of(x) : Plainly(o)
      BY <3>1, <3>2 DEF AtBatches, BatchDone
    <3>4. ASSUME NEW o \in Plain \cup Patched PROVE Plainly(o)
      <4>1. CASE o \in Listed
        BY <1>a, <3>3, <4>1, WantedIs
      <4>2. CASE o \notin Listed
        BY <1>a, <1>d, <3>2, <4>2, WantedIs DEF AtBatches, NoFile, Plainly
      <4>3. QED
        BY <4>1, <4>2
    <3>5. \A o \in Inline \cap Listed : AsListed(o)
      BY <3>2 DEF AtBatches, InlineDone
    <3>6. \A o \in Output : AsListed(o)' = AsListed(o) /\ Plainly(o)' = Plainly(o)
      BY <3>1, SameFile
    <3>7. built' = {}
      BY <3>1, <3>2 DEF AtBatches
    <3>8. AtBsa'
      BY <1>b, <1>d, <3>1, <3>4, <3>5, <3>6, <3>7 DEF AtBsa
    <3>9. QED
      BY <3>1, <3>8 DEF Phases
  <2>3. QED
    BY <2>1, <2>2
<1>19. CASE \E b \in Bsa : CreateBsa(b)
  <2>1. PICK b \in Bsa : CreateBsa(b)
    BY <1>19
  <2>2. /\ AtBsa /\ list' = list /\ opts' = opts /\ pc' = "bsa" /\ packed' = packed
        /\ b \in Listed /\ b \in Output /\ b \in todo
    BY <1>a, <1>c, <1>d, <2>1 DEF CreateBsa, Phases, TodoOK
  <2>3. \A x \in Output : x # b => staged'[x] = staged[x] /\ packed'[x] = packed[x]
    BY <1>d, <2>1, <2>2 DEF CreateBsa, InPlace
  <2>4. \A x \in Output : x # b => AsListed(x)' = AsListed(x) /\ Plainly(x)' = Plainly(x)
    BY <2>2, <2>3, SameFile
  <2>5. Made(b) = Wanted(b)
    BY <2>2, KindsAre DEF Made, AtBsa, Plainly
  <2>6. \/ /\ b \notin opened /\ ValidBsa(b) /\ todo' = todo \ {b} /\ UNCHANGED <<staged, built>>
        \/ /\ b \notin opened /\ ~ValidBsa(b) /\ UNCHANGED <<todo, built>>
        \/ staged'[b] = Made(b) /\ todo' = todo \ {b} /\ built' = built \cup {b}
    BY <1>d, <2>1, <2>2 DEF CreateBsa, InPlace
  <2>7. b \in built => Plainly(b) /\ There(b)
    BY <1>e, <2>2 DEF AtBsa, Plainly, There
  <2>8. /\ b \in built' \/ b \notin todo' => Plainly(b)'
        /\ built' \subseteq built \cup {b} /\ todo \ {b} \subseteq todo'
    <3>1. CASE b \notin opened /\ ValidBsa(b) /\ todo' = todo \ {b} /\ UNCHANGED <<staged, built>>
      BY <2>2, <2>7, <3>1, SameFile DEF ValidBsa
    <3>2. CASE b \notin opened /\ ~ValidBsa(b) /\ UNCHANGED <<todo, built>>
      BY <2>2, <2>7, <3>2 DEF ValidBsa
    <3>3. CASE staged'[b] = Made(b) /\ todo' = todo \ {b} /\ built' = built \cup {b}
      BY <1>b, <2>2, <2>5, <3>3 DEF Plainly
    <3>4. QED
      BY <2>6, <3>1, <3>2, <3>3
  <2>9. \A x \in Listed \cap Bsa : x \in built' \/ x \notin todo' => Plainly(x)'
    BY <1>d, <2>2, <2>4, <2>8 DEF AtBsa
  <2>10. \A x \in Plain \cup Patched \cup Inline : x # b /\ x \in Output
    BY <1>d, KindsAre
  <2>11. built' \subseteq Listed
    BY <2>2, <2>8 DEF AtBsa
  <2>12. AtBsa'
    BY <1>b, <2>2, <2>4, <2>9, <2>10, <2>11 DEF AtBsa
  <2>13. QED
    BY <2>2, <2>12 DEF Phases
<1>20. CASE \E b \in Bsa : CreateBsaFails(b)
  <2>1. PICK b \in Bsa : CreateBsaFails(b)
    BY <1>20
  <2>2. opts' = opts => "lenient" \notin opts
    BY <1>c DEF Strict
  <2>3. pc' = "idle"
    BY <2>1, <2>2 DEF CreateBsaFails
  <2>4. QED
    BY <1>i, <2>3
<1>21. CASE BsaOver
  <2>1. /\ AtBsa /\ todo = {} /\ list' = list /\ opts' = opts /\ pc' = "compressing"
        /\ UNCHANGED <<staged, packed>>
    BY <1>a, <1>c, <1>21 DEF BsaOver, Phases
  <2>2. \A o \in Listed : AsListed(o)
    <3>1. SUFFICES ASSUME NEW o \in Listed, o \notin Inline PROVE AsListed(o)
      BY <2>1 DEF AtBsa
    <3>2. Plainly(o) /\ o \in Output
      BY <1>d, <2>1, <3>1, KindsAre DEF AtBsa
    <3>3. QED
      BY <1>a, <3>2, PlainlyIs
  <2>3. AllListed'
    BY <1>b, <2>1, <2>2, SameFile DEF AllListed
  <2>4. QED
    BY <2>1, <2>3 DEF Phases
<1>22. CASE CompressOver
  <2>1. /\ AllListed /\ list' = list /\ opts' = opts /\ pc' = "validating"
        /\ UNCHANGED <<staged, packed>>
    BY <1>a, <1>c, <1>22 DEF CompressOver, Phases
  <2>2. AllListed'
    BY <1>b, <2>1, SameFile DEF AllListed
  <2>3. QED
    BY <2>1, <2>2 DEF Phases
<1>23. CASE Validate
  <2>1. CASE pc' = "idle"
    BY <1>i, <1>23, <2>1
  <2>2. CASE pc' # "idle"
    <3>1. /\ list' = list /\ opts' = opts /\ UNCHANGED <<staged, packed>> /\ pc = "validating"
          /\ pc' = (IF "noDeploy" \in opts THEN "done" ELSE "deploying")
          /\ todo' = IF "noDeploy" \in opts THEN {} ELSE {o \in Output \ Temp : There(o)}
      BY <1>23, <2>2 DEF Validate
    <3>2. AllListed /\ "noDeploy" \notin opts
      BY <1>a, <1>c, <3>1 DEF Phases, Strict
    <3>3. AllListed'
      BY <1>b, <3>1, <3>2, SameFile DEF AllListed
    <3>4. \A o \in Listed : There(o) /\ o \in Output
      BY <1>d, <1>e, <3>2 DEF AllListed, AsListed, Logical, There
    <3>5. Reached'
      BY <1>b, <3>1, <3>2, <3>4 DEF Reached
    <3>6. QED
      BY <3>1, <3>2, <3>3, <3>5 DEF Phases
  <2>3. QED
    BY <2>1, <2>2
<1>24. CASE DeployOver
  <2>1. /\ Reached /\ list' = list /\ opts' = opts /\ pc' = "done" /\ todo = {}
        /\ UNCHANGED <<game, todo>>
    BY <1>a, <1>c, <1>24 DEF DeployOver, Phases
  <2>2. Reached'
    BY <1>b, <2>1 DEF Reached, Right
  <2>3. QED
    BY <2>1, <2>2 DEF Phases
<1>25. CASE Return
  BY <1>i, <1>25 DEF Return
<1>26. CASE Crash
  BY <1>i, <1>26 DEF Crash
<1>27. CASE \E o \in Output : Compress(o)
  <2>1. PICK o \in Output : Compress(o)
    BY <1>27
  <2>2. /\ AllListed /\ list' = list /\ opts' = opts /\ pc' = "compressing" /\ staged[o] # Missing
    BY <1>a, <1>c, <2>1 DEF Compress, Phases, TodoOK
  <2>3. \A x \in Output : x # o => staged'[x] = staged[x] /\ packed'[x] = packed[x]
    BY <1>d, <2>1 DEF Compress
  <2>4. Logical(o)' = Logical(o)
    BY <1>d, <2>1, <2>2 DEF Compress, Logical
  <2>5. \A x \in Output : AsListed(x)' = AsListed(x)
    BY <1>b, <2>2, <2>3, <2>4, SameFile DEF AsListed
  <2>6. AllListed'
    BY <1>b, <1>d, <2>2, <2>5 DEF AllListed
  <2>7. QED
    BY <2>2, <2>6 DEF Phases
<1>28. CASE \E o \in Output : Deploy(o)
  <2>1. PICK o \in Output : Deploy(o)
    BY <1>28
  <2>2. /\ AllListed /\ Reached /\ list' = list /\ opts' = opts /\ pc' = "deploying" /\ o \in todo
        /\ UNCHANGED <<staged, packed>>
    BY <1>a, <1>c, <2>1 DEF Deploy, Phases
  <2>3. \A x \in Output : x # o => game'[x] = game[x]
    BY <1>d, <2>1 DEF Deploy
  <2>4. todo' = todo \/ (todo' = todo \ {o} /\ game'[o] = Logical(o))
    <3>1. o \in linked => game[o] = Logical(o)
      BY <1>a DEF TypeOK, Logical
    <3>2. QED
      BY <1>d, <2>1, <3>1 DEF Deploy
  <2>5. o \in Listed /\ todo' # todo => Right(o)'
    BY <1>b, <2>2, <2>4 DEF Right, AllListed, AsListed
  <2>6. \A x \in Output : x # o => Right(x)' = Right(x)
    BY <1>b, <2>2, <2>3 DEF Right
  <2>7. Reached'
    BY <1>b, <1>d, <2>2, <2>4, <2>5, <2>6 DEF Reached
  <2>8. AllListed'
    BY <1>b, <2>2, SameFile DEF AllListed
  <2>9. QED
    BY <2>2, <2>7, <2>8 DEF Phases
<1>q. QED
  BY <1>0, <1>1, <1>2, <1>3, <1>4, <1>5, <1>6, <1>7, <1>8, <1>9, <1>10, <1>11, <1>12, <1>13,
     <1>14, <1>15, <1>16, <1>17, <1>18, <1>19, <1>20, <1>21, <1>22, <1>23, <1>24, <1>25, <1>26,
     <1>27, <1>28 DEF Next

---------------------------------------------------------------------------
(* The theorems *)

\* Nothing is installed at first
LEMMA InitIInv == Init => IInv
<1>0. SUFFICES ASSUME Init PROVE IInv
  OBVIOUS
<1>1. /\ Missing # Torn /\ Missing \in Content
      /\ MaxRuns \in Nat /\ MaxCrashes \in Nat /\ MaxFaults \in Nat
  BY OptionAssumption DEF Content
<1>2. \A o \in Output : staged[o] = Missing /\ packed[o] = Missing
  BY <1>0 DEF Init
<1>3. TypeOK
  <2>1. /\ staged \in [Output -> Content] /\ packed \in [Output -> Content]
        /\ game \in [Output -> Content]
    BY <1>0, <1>1 DEF Init
  <2>2. /\ sentinel \in [Archive -> SUBSET (Plain \cup Patched)]
        /\ batch \in [Archive -> {"waiting", "writing", "over"}]
    BY <1>0 DEF Init
  <2>3. runs \in 0..MaxRuns /\ crashes \in 0..MaxCrashes /\ faults \in 0..MaxFaults
    BY <1>0, <1>1 DEF Init
  <2>4. QED
    BY <1>0, <2>1, <2>2, <2>3 DEF Init, TypeOK
<1>4. TodoOK /\ HashedAreRight
  BY <1>0 DEF Init, TodoOK, HashedAreRight
<1>5. WholeOK
  BY <1>1, <1>2, KindsAre DEF WholeOK
<1>6. StrictOK
  BY <1>0 DEF Init, StrictOK, Strict
<1>7. QED
  BY <1>3, <1>4, <1>5, <1>6 DEF IInv

\* What the invariant says is a matter of the variables alone
LEMMA StutterIInv == IInv /\ UNCHANGED vars => IInv'
<1>0. SUFFICES ASSUME IInv, UNCHANGED vars PROVE IInv'
  OBVIOUS
<1> USE DEF vars, tree, marks, target, run, work, bound
<1>1. /\ Listed' = Listed /\ Hashed' = Hashed /\ \A o : Wanted(o)' = Wanted(o)
      /\ \A a : Of(a)' = Of(a)
  BY <1>0, ListIs
<1>2. TypeOK' /\ TodoOK' /\ WholeOK'
  BY <1>0, <1>1 DEF IInv, TypeOK, TodoOK, WholeOK
<1>3. HashedAreRight'
  BY <1>0, <1>1 DEF IInv, HashedAreRight, Logical
<1>4. \A o : /\ NoFile(o)' = NoFile(o) /\ AsListed(o)' = AsListed(o) /\ Plainly(o)' = Plainly(o)
             /\ Right(o)' = Right(o) /\ InlineDone(o)' = InlineDone(o)
  BY <1>0, <1>1 DEF NoFile, AsListed, Plainly, Right, Logical, InlineDone
<1>5. \A a : NoSentinel(a)' = NoSentinel(a) /\ BatchDone(a)' = BatchDone(a)
  BY <1>0, <1>1, <1>4 DEF NoSentinel, BatchDone
<1>6. StrictOK'
  BY <1>0, <1>1, <1>4, <1>5 DEF IInv, StrictOK, Strict, Phases, Emptied, AtInline, AtBatches,
     AtBsa, AllListed, Reached
<1>7. QED
  BY <1>2, <1>3, <1>6 DEF IInv

\* The invariant is inductive
LEMMA NextIInv == IInv /\ [Next]_vars => IInv'
BY TypeStep, TodoStep, WholeStep, HashedStep, StrictStep, StutterIInv DEF IInv

\* It holds in every state of every behaviour
LEMMA AlwaysIInv == Spec => []IInv
BY InitIInv, NextIInv, PTL DEF Spec

\* Every variable keeps its type; in particular a file of the game that is one inode with a
\* staged file is that file.
THEOREM StagingTypes == Spec => []TypeOK
<1>1. IInv => TypeOK
  BY DEF IInv
<1>2. QED
  BY <1>1, AlwaysIInv, PTL

\* Patching goes through a part file and compression keeps the original until its copy is
\* whole, so no death or fault leaves a torn patched output (install.rs, compression).
THEOREM NeverTorn == Spec => []PatchedNeverTorn
<1>1. IInv => PatchedNeverTorn
  BY OptionAssumption DEF IInv, WholeOK, PatchedNeverTorn, Logical
<1>2. QED
  BY <1>1, AlwaysIInv, PTL

\* Validation is the last word on what has a hash, whatever was adopted or skipped before.
THEOREM DeployedAreRight == Spec => []HashedAreRight
<1>1. IInv => HashedAreRight
  BY DEF IInv
<1>2. QED
  BY <1>1, AlwaysIInv, PTL

\* A strict run with --reset that returns has put the whole list into the game, whatever ran
\* before: no sentinel, no output and no link of an earlier run decides anything then.
THEOREM ResetDoesAll == Spec => []ResetInstalls
<1>1. IInv => ResetInstalls
  BY DEF IInv, StrictOK, Strict, Phases, Reached, ResetInstalls
<1>2. QED
  BY <1>1, AlwaysIInv, PTL
=========================================================================
