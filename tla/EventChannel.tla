---------------------------- MODULE EventChannel ----------------------------
(***************************************************************************)
(* What a ring buffer and its reader task promise together: a channel that *)
(* hands over the records it accepted, each once, in order, and none that  *)
(* its producer has not finished.  RingBuf implements it.                  *)
(***************************************************************************)
EXTENDS Integers

VARIABLES
    accepted,    \* records the channel has accepted
    finished,    \* those whose producer is done
    delivered    \* records handed over

vars == <<accepted, finished, delivered>>

Init == accepted = 0 /\ finished = {} /\ delivered = 0

Accept ==
    /\ accepted' = accepted + 1
    /\ UNCHANGED <<finished, delivered>>

Finish ==
    /\ \E p \in 0 .. accepted - 1 : finished' = finished \cup {p}
    /\ UNCHANGED <<accepted, delivered>>

\* The reader takes records up to some position, all of them finished.
Deliver ==
    /\ \E n \in delivered + 1 .. accepted :
          /\ delivered .. n - 1 \subseteq finished
          /\ delivered' = n
    /\ UNCHANGED <<accepted, finished>>

Next == Accept \/ Finish \/ Deliver

Spec == Init /\ [][Next]_vars

\* A finished record is not left in the channel.
FairSpec == Spec /\ WF_vars(Deliver)
=============================================================================
