----------------------------- MODULE LeaseContract -----------------------------
(***************************************************************************)
(* What a lease promises the agents (agent/coordination.py, the module's   *)
(* docstring): exclusive access to a device until a known time, unless the *)
(* holder gives it up or a higher priority takes it.  Who notices that a   *)
(* lease has run out, and when, is no part of the promise: here it lapses  *)
(* with the clock.                                                         *)
(***************************************************************************)
EXTENDS Integers

CONSTANTS Devices, Agents, Priorities, NoAgent, MinLease, MaxLease, Epoch, MaxTime

VARIABLES
    now,
    grant     \* who may write to a device, with what priority and until when

vars == <<now, grant>>

Free == [holder |-> NoAgent, priority |-> 0, until |-> 0]

TypeOK ==
    /\ now \in Epoch..MaxTime
    /\ grant \in [Devices -> [holder : Agents \cup {NoAgent}, priority : Int, until : Int]]

Init == now = Epoch /\ grant = [d \in Devices |-> Free]

Take(a, d, p, n) ==
    /\ grant[d].holder = NoAgent \/ (grant[d].holder # a /\ p > grant[d].priority)
    /\ grant' = [grant EXCEPT ![d] = [holder |-> a, priority |-> p, until |-> now + n]]
    /\ UNCHANGED now

Renew(a, d, n) ==
    /\ grant[d].holder = a
    /\ grant' = [grant EXCEPT ![d].until = now + n]
    /\ UNCHANGED now

\* An agent gives up some of the devices it holds.
GiveUp(a, S) ==
    /\ \A d \in S : grant[d].holder = a
    /\ grant' = [d \in Devices |-> IF d \in S THEN Free ELSE grant[d]]
    /\ UNCHANGED now

\* A lease is good for the whole of its last instant.
Tick ==
    /\ now < MaxTime
    /\ now' = now + 1
    /\ grant' = [d \in Devices |-> IF now' > grant[d].until THEN Free ELSE grant[d]]

Next ==
    \/ Tick
    \/ \E a \in Agents :
        \/ \E S \in SUBSET Devices : GiveUp(a, S)
        \/ \E d \in Devices, n \in MinLease..MaxLease :
            \/ Renew(a, d, n)
            \/ \E p \in Priorities : Take(a, d, p, n)

Spec == Init /\ [][Next]_vars
================================================================================
