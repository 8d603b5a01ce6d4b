------------------------------- MODULE BusContract -------------------------------
(***************************************************************************)
(* What the users of an event bus count on, whichever bus the engine was   *)
(* given: a subscription hears of events in the order in which the bus     *)
(* took them, of each at most once, and of nothing the bus did not take.   *)
(* Events are numbered in the order in which they are taken.  A bus may    *)
(* lose events: the queue is bounded, and a subscription that came late    *)
(* hears nothing of what went before.                                      *)
(***************************************************************************)
EXTENDS Integers

CONSTANTS Subscriptions

VARIABLES
    taken,   \* events the bus took
    heard,   \* the latest event each subscription was called with
    times    \* how often each subscription was called

Init ==
    /\ taken = 0
    /\ heard = [s \in Subscriptions |-> 0]
    /\ times = [s \in Subscriptions |-> 0]

Take == taken' = taken + 1 /\ UNCHANGED <<heard, times>>

Call(s, n) ==
    /\ n > heard[s] /\ n <= taken
    /\ heard' = [heard EXCEPT ![s] = n]
    /\ times' = [times EXCEPT ![s] = @ + 1]
    /\ UNCHANGED taken

Next == Take \/ \E s \in Subscriptions : \E n \in heard[s] + 1 .. taken : Call(s, n)

Spec == Init /\ [][Next]_<<taken, heard, times>>

===============================================================================
