------------------------------- MODULE Ledger -------------------------------
(***************************************************************************)
(* What the statistics and the report promise together: a ledger with one  *)
(* count per panel, to which the events of a batch are posted in one step, *)
(* and panels that are copies of it, printed in rounds.  Module Collector  *)
(* implements it with three mutexes and a reader that records one event    *)
(* after the other.                                                        *)
(***************************************************************************)
EXTENDS Integers

VARIABLES
    accepted,    \* events accepted
    ledger,      \* panel -> events posted to it
    shown,       \* panel -> what it showed when last printed
    turn         \* the panel that is printed next

vars == <<accepted, ledger, shown, turn>>

Panels == {"stats", "cmd", "client"}

Zeros == [p \in Panels |-> 0]

Init == accepted = 0 /\ ledger = Zeros /\ shown = Zeros /\ turn = "stats"

Accept ==
    /\ accepted' = accepted + 1
    /\ UNCHANGED <<ledger, shown, turn>>

\* A batch of n events, k of them with a client address.
Post ==
    /\ \E n \in 1 .. accepted - ledger["stats"] : \E k \in 0 .. n :
          ledger' = [stats |-> ledger["stats"] + n, cmd |-> ledger["cmd"] + n,
                     client |-> ledger["client"] + k]
    /\ UNCHANGED <<accepted, shown, turn>>

Following == [stats |-> "cmd", cmd |-> "client", client |-> "stats"]

Show ==
    /\ shown' = [shown EXCEPT ![turn] = ledger[turn]]
    /\ turn' = Following[turn]
    /\ UNCHANGED <<accepted, ledger>>

Next == Accept \/ Post \/ Show

Spec == Init /\ [][Next]_vars
=============================================================================
