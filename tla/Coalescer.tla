------------------------------ MODULE Coalescer ------------------------------
(***************************************************************************)
(* What Publisher.EnqueueDeviceState promises its callers, without threads *)
(* or signals: one slot per device in which a newer offer replaces an      *)
(* older one, and a courier that keeps emptying the slots until it closes, *)
(* which it does only when no slot is filled.                              *)
(***************************************************************************)
CONSTANTS Devices, States, Empty

VARIABLES slot, hand, open

vars == <<slot, hand, open>>

Nothing == [dev |-> Empty, st |-> Empty]

Init == /\ slot = [d \in Devices |-> Empty]
        /\ hand = Nothing
        /\ open = TRUE

Offer(d) == /\ \E s \in States : slot' = [slot EXCEPT ![d] = s]
            /\ UNCHANGED <<hand, open>>

Take(d) == /\ open /\ hand = Nothing /\ slot[d] # Empty
           /\ hand' = [dev |-> d, st |-> slot[d]]
           /\ slot' = [slot EXCEPT ![d] = Empty]
           /\ UNCHANGED open

HandOver == /\ hand # Nothing
            /\ hand' = Nothing
            /\ UNCHANGED <<slot, open>>

Shut == /\ open /\ hand = Nothing
        /\ \A d \in Devices : slot[d] = Empty
        /\ open' = FALSE
        /\ UNCHANGED <<slot, hand>>

Next == \/ \E d \in Devices : Offer(d) \/ Take(d)
        \/ HandOver \/ Shut

Safety == Init /\ [][Next]_vars

\* The courier never rests while a slot is filled and it is open.
Spec == Safety /\ WF_vars(\E d \in Devices : Take(d)) /\ WF_vars(HandOver)
=============================================================================
