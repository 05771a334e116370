------------------- MODULE ManagerTransactionRefinement -------------------
(***************************************************************************)
(* The file transaction implements RetainingStore: each of its steps fills *)
(* an empty destination, sets one image aside, puts one back, belongs to   *)
(* an outsider, or changes neither a destination nor an image set aside.   *)
(***************************************************************************)
EXTENDS ManagerTransactionProofs

---------------------------------------------------------------------------
(* What two shelves keep *)

KeptOf(o, r) == [i \in Path |-> ({o[t][i] : t \in Txn} \cup {r[t][i] : t \in Txn})
                                \ {Missing}]

\* What is kept does not depend on which shelf holds it.
LEMMA KeptSymmetric == \A o, r : KeptOf(o, r) = KeptOf(r, o)
  BY DEF KeptOf

\* The mapped variable, before and after a step.
LEMMA KeptMapped == Kept = KeptOf(old, rolled) /\ Kept' = KeptOf(old', rolled')
  BY DEF Kept, KeptOf

\* p is o but for one slot of one shelf
OneSlot(o, p, t, i) == \A s \in Txn, j \in Path : s # t \/ j # i => p[s][j] = o[s][j]

\* What is kept of the other destinations stays.
LEMMA OthersKept ==
  \A o, p, r : \A t \in Txn, i, j \in Path :
     OneSlot(o, p, t, i) /\ j # i => KeptOf(p, r)[j] = KeptOf(o, r)[j]
<1>1. SUFFICES ASSUME NEW o, NEW p, NEW r, NEW t \in Txn, NEW i \in Path, NEW j \in Path,
                      OneSlot(o, p, t, i), j # i
               PROVE  KeptOf(p, r)[j] = KeptOf(o, r)[j]
  OBVIOUS
<1>2. {p[s][j] : s \in Txn} = {o[s][j] : s \in Txn}
  BY <1>1 DEF OneSlot
<1>3. QED
  BY <1>2 DEF KeptOf

Adds(k, l, i, v) == l = [k EXCEPT ![i] = @ \cup {v}]
Drops(k, l, i, v) == l = k \/ l = [k EXCEPT ![i] = @ \ {v}]

\* An image moved into an empty slot is kept, with everything else.
LEMMA SlotFilled ==
  \A o, p, r : \A t \in Txn, i \in Path :
     OneSlot(o, p, t, i) /\ o[t][i] = Missing /\ p[t][i] # Missing
        => Adds(KeptOf(o, r), KeptOf(p, r), i, p[t][i])
<1>1. SUFFICES ASSUME NEW o, NEW p, NEW r, NEW t \in Txn, NEW i \in Path,
                      OneSlot(o, p, t, i), o[t][i] = Missing, p[t][i] # Missing
               PROVE  Adds(KeptOf(o, r), KeptOf(p, r), i, p[t][i])
  OBVIOUS
<1>2. {p[s][i] : s \in Txn} \ {Missing}
         = ({o[s][i] : s \in Txn} \ {Missing}) \cup {p[t][i]}
  BY <1>1 DEF OneSlot
<1>3. KeptOf(p, r)[i] = KeptOf(o, r)[i] \cup {p[t][i]}
  BY <1>2 DEF KeptOf
<1>4. \A j \in Path : j # i => KeptOf(p, r)[j] = KeptOf(o, r)[j]
  BY <1>1, OthersKept
<1>5. QED
  BY <1>3, <1>4 DEF Adds, KeptOf

\* Emptying a slot drops its image, unless another slot holds it as well.
LEMMA SlotEmptied ==
  \A o, p, r : \A t \in Txn, i \in Path :
     OneSlot(o, p, t, i) /\ p[t][i] = Missing
        => Drops(KeptOf(o, r), KeptOf(p, r), i, o[t][i])
<1>1. SUFFICES ASSUME NEW o, NEW p, NEW r, NEW t \in Txn, NEW i \in Path,
                      OneSlot(o, p, t, i), p[t][i] = Missing
               PROVE  Drops(KeptOf(o, r), KeptOf(p, r), i, o[t][i])
  OBVIOUS
<1>2. /\ {p[s][i] : s \in Txn} \ {Missing} \subseteq {o[s][i] : s \in Txn} \ {Missing}
      /\ ({o[s][i] : s \in Txn} \ {Missing}) \ {o[t][i]}
            \subseteq {p[s][i] : s \in Txn} \ {Missing}
  BY <1>1 DEF OneSlot
<1>3. /\ KeptOf(p, r)[i] \subseteq KeptOf(o, r)[i]
      /\ KeptOf(o, r)[i] \ {o[t][i]} \subseteq KeptOf(p, r)[i]
  BY <1>2 DEF KeptOf
<1>4. \/ KeptOf(p, r)[i] = KeptOf(o, r)[i]
      \/ KeptOf(p, r)[i] = KeptOf(o, r)[i] \ {o[t][i]}
  BY <1>3
<1>5. \A j \in Path : j # i => KeptOf(p, r)[j] = KeptOf(o, r)[j]
  BY <1>1, OthersKept
<1>6. QED
  BY <1>4, <1>5 DEF Drops, KeptOf

---------------------------------------------------------------------------
(* The steps *)

\* What goes into an empty slot of either shelf is kept, with everything else.
LEMMA TakenIsKept ==
  ASSUME NEW t \in Txn, NEW i \in Path, NEW v, v # Missing,
         \/ /\ OneSlot(old, old', t, i) /\ rolled' = rolled
            /\ old[t][i] = Missing /\ old'[t][i] = v
         \/ /\ OneSlot(rolled, rolled', t, i) /\ old' = old
            /\ rolled[t][i] = Missing /\ rolled'[t][i] = v
  PROVE  Adds(Kept, Kept', i, v)
<1>1. CASE /\ OneSlot(old, old', t, i) /\ rolled' = rolled
           /\ old[t][i] = Missing /\ old'[t][i] = v
  BY <1>1, SlotFilled, KeptMapped
<1>2. CASE /\ OneSlot(rolled, rolled', t, i) /\ old' = old
           /\ rolled[t][i] = Missing /\ rolled'[t][i] = v
  <2>1. Adds(KeptOf(rolled, old), KeptOf(rolled', old), i, v)
    BY <1>2, SlotFilled
  <2>2. /\ Kept = KeptOf(rolled, old) /\ Kept' = KeptOf(rolled', old)
    BY <1>2, KeptSymmetric, KeptMapped
  <2>3. QED
    BY <2>1, <2>2
<1>3. QED
  BY <1>1, <1>2

\* What leaves a slot of `old` is dropped from Kept, if anything is.
LEMMA ReturnedIsDropped ==
  ASSUME NEW t \in Txn, NEW i \in Path, OneSlot(old, old', t, i), old'[t][i] = Missing,
         rolled' = rolled
  PROVE  Drops(Kept, Kept', i, old[t][i])
<1>1. Drops(KeptOf(old, rolled), KeptOf(old', rolled), i, old[t][i])
  BY SlotEmptied
<1>2. QED
  BY <1>1, KeptMapped

\* Taking the file of a destination to an empty slot is SetAside.
LEMMA TakeRefines ==
  ASSUME TypeOK, NEW i \in Path, live[i] # Missing, live' = [live EXCEPT ![i] = Missing],
         Adds(Kept, Kept', i, live[i]), writes' = writes
  PROVE  Retaining!Next
  BY DEF Adds, Retaining!Next, Retaining!SetAside

\* Returning what a slot of `old` holds is PutBack, and nothing if it is empty.
LEMMA ReturnRefines ==
  ASSUME TypeOK, NEW t \in Txn, NEW i \in Path, live[i] = Missing,
         live' = [live EXCEPT ![i] = old[t][i]], old' = [old EXCEPT ![t][i] = Missing],
         rolled' = rolled, writes' = writes
  PROVE  Retaining!Next \/ UNCHANGED Retaining!vars
<1>1. CASE old[t][i] = Missing
  <2>1. live' = live /\ old' = old
    BY <1>1 DEF TypeOK, FilesOK, Shelf
  <2>2. QED
    BY <2>1, KeptMapped DEF Retaining!vars
<1>2. CASE old[t][i] # Missing
  <2>1. old[t][i] \in Image
    BY <1>2 DEF TypeOK, FilesOK, Shelf, Slot
  <2>2. old[t][i] \in Kept[i]
    BY <1>2 DEF Kept
  <2>3. OneSlot(old, old', t, i) /\ old'[t][i] = Missing
    BY DEF OneSlot, TypeOK, FilesOK, Shelf
  <2>4. Drops(Kept, Kept', i, old[t][i])
    BY <2>3, ReturnedIsDropped
  <2>5. QED
    BY <2>1, <2>2, <2>4 DEF Drops, Retaining!Next, Retaining!PutBack
<1>3. QED
  BY <1>1, <1>2

\* Every step is one of RetainingStore or changes nothing there.
LEMMA StepRefines ==
  ASSUME TypeOK, CursorOK, [Next]_vars
  PROVE  [Retaining!Next]_(Retaining!vars)
<1>1. ASSUME UNCHANGED <<live, old, rolled, writes>>
      PROVE  UNCHANGED Retaining!vars
  BY <1>1, KeptMapped DEF Retaining!vars
<1>2. ASSUME NEW t \in Txn, (\E i \in Path : Add(t, i) \/ Revalidate(t, i) \/
   ReadTarget(t, i) \/ CheckUndo(t, i)) \/ Begin(t) \/ Lock(t) \/ AlreadyHeld(t) \/
   AssertStopped(t) \/ Stage(t) \/ OpenJournal(t) \/ MakeParent(t) \/ Intent(t) \/
   RecordPending(t) \/ Installed(t) \/ Finish(t) \/ RemoveParents(t) \/ Report(t) \/
   Crash(t)
      PROVE  UNCHANGED <<live, old, rolled, writes>>
  BY <1>2 DEF Begin, inst, disk, Add, Lock, AlreadyHeld, Revalidate, AssertStopped,
     Stage, OpenJournal, ReadTarget, MakeParent, Intent, RecordPending, Installed,
     Finish, CheckUndo, RemoveParents, Report, Crash
<1>3. ASSUME NEW t \in Txn, Link(t) \/ Install(t)
      PROVE  Retaining!Next \/ UNCHANGED Retaining!vars
  <2>1. cur[t] \in Path /\ UNCHANGED <<old, rolled, writes>>
    BY <1>3 DEF Link, Install, CursorOK, CursorPC, disk
  <2>2. Want[t][cur[t]] \in Image
    BY <2>1, ImageAssumption
  <2>3. CASE live' = live
    BY <1>1, <2>1, <2>3
  <2>4. CASE CanPlace(cur[t]) /\ live' = [live EXCEPT ![cur[t]] = Want[t][cur[t]]]
    <3>1. Kept' = Kept
      BY <2>1, KeptMapped
    <3>2. QED
      BY <2>1, <2>2, <2>4, <3>1 DEF CanPlace, Retaining!Next, Retaining!Place
  <2>5. QED
    BY <1>3, <2>3, <2>4 DEF Link, Install
<1>4. ASSUME NEW t \in Txn, Displace(t)
      PROVE  Retaining!Next \/ UNCHANGED Retaining!vars
  <2>1. cur[t] \in Path /\ UNCHANGED <<rolled, writes>>
    BY <1>4 DEF Displace, CursorOK, CursorPC
  <2>2. CASE UNCHANGED <<live, old>>
    BY <1>1, <2>1, <2>2
  <2>3. CASE /\ CanTake(cur[t], old[t]) /\ live' = [live EXCEPT ![cur[t]] = Missing]
             /\ old' = [old EXCEPT ![t][cur[t]] = live[cur[t]]]
    <3>1. old \in [Txn -> Shelf] /\ live[cur[t]] # Missing /\ old[t][cur[t]] = Missing
      BY <2>3 DEF CanTake, TypeOK, FilesOK
    <3>2. OneSlot(old, old', t, cur[t]) /\ old'[t][cur[t]] = live[cur[t]]
      BY <2>1, <2>3, <3>1 DEF OneSlot, Shelf
    <3>3. Adds(Kept, Kept', cur[t], live[cur[t]])
      BY <2>1, <3>1, <3>2, TakenIsKept
    <3>4. QED
      BY <2>1, <2>3, <3>1, <3>3, TakeRefines DEF CanTake
  <2>4. QED
    BY <1>4, <2>2, <2>3 DEF Displace
<1>5. ASSUME NEW t \in Txn, Undo(t)
      PROVE  Retaining!Next \/ UNCHANGED Retaining!vars
  <2>1. cur[t] \in Path /\ UNCHANGED <<old, writes>>
    BY <1>5 DEF Undo, CursorOK, CursorPC
  <2>2. CASE UNCHANGED <<live, rolled>>
    BY <1>1, <2>1, <2>2
  <2>3. CASE /\ CanTake(cur[t], rolled[t]) /\ live' = [live EXCEPT ![cur[t]] = Missing]
             /\ rolled' = [rolled EXCEPT ![t][cur[t]] = live[cur[t]]]
    <3>1. /\ rolled \in [Txn -> Shelf] /\ live[cur[t]] # Missing
          /\ rolled[t][cur[t]] = Missing
      BY <2>3 DEF CanTake, TypeOK, FilesOK
    <3>2. OneSlot(rolled, rolled', t, cur[t]) /\ rolled'[t][cur[t]] = live[cur[t]]
      BY <2>1, <2>3, <3>1 DEF OneSlot, Shelf
    <3>3. Adds(Kept, Kept', cur[t], live[cur[t]])
      BY <2>1, <3>1, <3>2, TakenIsKept
    <3>4. QED
      BY <2>1, <2>3, <3>1, <3>3, TakeRefines DEF CanTake
  <2>4. QED
    BY <1>5, <2>2, <2>3 DEF Undo
<1>6. ASSUME NEW t \in Txn, Unwind(t) \/ Reinstate(t) \/ RestorePending(t)
      PROVE  Retaining!Next \/ UNCHANGED Retaining!vars
  <2>1. PICK i \in Path : \/ UNCHANGED <<live, old>>
                          \/ /\ CanPlace(i) /\ live' = [live EXCEPT ![i] = old[t][i]]
                             /\ old' = [old EXCEPT ![t][i] = Missing]
    BY <1>6 DEF Unwind, Reinstate, RestorePending, CursorOK, CursorPC, TypeOK, MemoryOK
  <2>2. UNCHANGED <<rolled, writes>>
    BY <1>6 DEF Unwind, Reinstate, RestorePending
  <2>3. QED
    BY <1>1, <2>1, <2>2, ReturnRefines DEF CanPlace
<1>7. ASSUME \/ \E i \in Path : UserDelete(i) \/ \E v \in Image : UserWrite(i, v)
             \/ \E d \in Dir : UserRemoveDir(d)
      PROVE  Retaining!Next
  <2>1. UNCHANGED <<old, rolled>> /\ writes' = writes + 1
    BY <1>7 DEF UserDelete, UserWrite, UserRemoveDir, disk
  <2>2. live' \in [Path -> Image \cup {Missing}]
    BY <1>7 DEF UserDelete, UserWrite, UserRemoveDir, TypeOK, FilesOK, Shelf, Slot
  <2>3. QED
    BY <2>1, <2>2, KeptMapped DEF Retaining!Next, Retaining!Outsider
<1>8. ASSUME Launch \/ Mark \/ BridgeGone \/ SessionOver
      PROVE  UNCHANGED <<live, old, rolled, writes>>
  BY <1>8 DEF Launch, Mark, BridgeGone, SessionOver, inst, disk
<1>9. CASE UNCHANGED vars
  BY <1>1, <1>9 DEF vars, inst, disk
<1>10. QED
  BY <1>1, <1>2, <1>3, <1>4, <1>5, <1>6, <1>7, <1>8, <1>9 DEF Next, Step, Outside

---------------------------------------------------------------------------
\* Every behaviour of the transactions, with any interleaving, failures and crashes,
\* is one of RetainingStore: no file is overwritten or deleted in place.
THEOREM Refinement == Spec => RetainsEverything
<1>1. Init => Retaining!Init
  <2>1. SUFFICES ASSUME Init PROVE Retaining!Init
    OBVIOUS
  <2>2. \A i \in Path : Kept[i] = {}
    BY <2>1 DEF Init, Kept
  <2>3. Kept = [i \in Path |-> {}]
    BY <2>2 DEF Kept
  <2>4. QED
    BY <2>1, <2>3 DEF Init, Retaining!Init, Shelf, Slot
<1>2. TypeOK /\ CursorOK /\ [Next]_vars => [Retaining!Next]_(Retaining!vars)
  BY StepRefines
<1>3. Init => TypeOK /\ CursorOK
  BY TypeInit
<1>4. TypeOK /\ CursorOK /\ [Next]_vars => (TypeOK /\ CursorOK)'
  BY TypeStep, CursorStep
<1>5. QED
  BY <1>1, <1>2, <1>3, <1>4, PTL DEF Spec, RetainsEverything, Retaining!Spec
===========================================================================
