-------------------------- MODULE RetainingStore --------------------------
(***************************************************************************)
(* What a manager transaction promises about the files of an instance: the *)
(* manager never overwrites or deletes a file in place.  It only fills an  *)
(* empty destination, puts an image aside, or puts an image that it had    *)
(* set aside back.  Everybody else may do what they like.                  *)
(***************************************************************************)
EXTENDS Naturals

CONSTANTS Path, Image, Missing

VARIABLES live,    \* live[i]: the image at destination i, or Missing
          kept,    \* kept[i]: images set aside from destination i
          writes   \* steps of outsiders so far

vars == <<live, kept, writes>>

Init == /\ live \in [Path -> Image \cup {Missing}]
        /\ kept = [i \in Path |-> {}]
        /\ writes = 0

Place(i, v) == /\ live[i] = Missing
               /\ live' = [live EXCEPT ![i] = v]
               /\ UNCHANGED <<kept, writes>>

SetAside(i) == /\ live[i] # Missing
               /\ live' = [live EXCEPT ![i] = Missing]
               /\ kept' = [kept EXCEPT ![i] = @ \cup {live[i]}]
               /\ UNCHANGED writes

\* Two transactions may have set the same image aside: the other copy stays
PutBack(i, v) == /\ live[i] = Missing /\ v \in kept[i]
                 /\ live' = [live EXCEPT ![i] = v]
                 /\ \/ kept' = kept
                    \/ kept' = [kept EXCEPT ![i] = @ \ {v}]
                 /\ UNCHANGED writes

Outsider == /\ live' \in [Path -> Image \cup {Missing}]
            /\ writes' = writes + 1
            /\ UNCHANGED kept

Next == \/ \E i \in Path : SetAside(i)
        \/ \E i \in Path, v \in Image : Place(i, v) \/ PutBack(i, v)
        \/ Outsider

Spec == Init /\ [][Next]_vars
===========================================================================
