--------------------------- MODULE DeviceCoordinator ---------------------------
(***************************************************************************)
(* The lease table of agent/coordination.py.  Its lock is never held over  *)
(* an await, so every operation is atomic; an operation whose clock moves  *)
(* on between the cleanup and the second look at the lease does what it    *)
(* would have done at the later time.                                      *)
(*                                                                         *)
(* Expired leases stay in the table until somebody looks.  A lease id is a *)
(* fresh uuid: one that is no longer in the table releases nothing, so     *)
(* releasing by id and by device come to the same.  Left out: the          *)
(* statistics and the reasons.                                             *)
(***************************************************************************)
EXTENDS Integers

CONSTANTS
    Devices,
    Agents,
    NoAgent,      \* the holder of a device nobody has leased
    Durations,    \* the durations agents ask for
    Priorities,
    MinLease,     \* MIN_LEASE_SECONDS
    MaxLease,     \* MAX_LEASE_SECONDS
    Epoch,        \* the clock when the process starts
    MaxTime       \* bound on the clock

ASSUME AgentsAssumption == NoAgent \notin Agents
ASSUME TimesAssumption ==
    /\ MinLease \in Nat /\ MaxLease \in Nat /\ MinLease <= MaxLease
    /\ Durations \subseteq Int /\ Priorities \subseteq Int
    /\ Epoch \in Nat \ {0} /\ MaxTime \in Nat /\ MaxTime >= Epoch

VARIABLES
    now,      \* time.monotonic()
    leases,   \* _leases: a DeviceLease per device, or NoLease
    told      \* history: what each agent was last told of its lease on a device

vars == <<now, leases, told>>

---------------------------------------------------------------------------
NoLease == [agent |-> NoAgent, priority |-> 0, expires_at |-> 0]
Untold == [priority |-> 0, until |-> 0]

\* Mutant of Expired: the last instant of a lease is lost.
ExpiredEarly(d) == now >= leases[d].expires_at

\* DeviceLease.is_expired; and a device whose lease counts.
Expired(d) == now > leases[d].expires_at
Held(d) == leases[d].agent # NoAgent /\ ~Expired(d)

\* _cleanup_expired, which every operation but a release begins with.
Cleaned == [d \in Devices |-> IF Expired(d) THEN NoLease ELSE leases[d]]

\* check_write: nobody, or the agent itself, holds the device.
CheckWrite(d, a) == Held(d) => leases[d].agent = a

\* Mutant of Granted: no lower limit.
GrantedUnclamped(duration) == IF duration > MaxLease THEN MaxLease ELSE duration

\* The duration an agent gets, whatever it asked for.
Granted(duration) ==
    IF duration > MaxLease THEN MaxLease ELSE IF duration < MinLease THEN MinLease ELSE duration

---------------------------------------------------------------------------
(* acquire, by what it finds.                                              *)

\* The agent's own lease: a new end, which may be an earlier one, and the
\* priority it was first taken with.
Extend(a, d, duration) ==
    LET until == now + Granted(duration) IN
    /\ Held(d) /\ leases[d].agent = a
    /\ leases' = [e \in Devices |->
         IF e = d THEN [agent |-> a, priority |-> leases[d].priority, expires_at |-> until]
                  ELSE Cleaned[e]]
    /\ told' = [told EXCEPT ![d][a] = [priority |-> leases[d].priority, until |-> until]]
    /\ UNCHANGED now

\* Mutant of Outranked: equals preempt each other.
OutrankedStrictly(d, p) == p < leases[d].priority

Outranked(d, p) == p <= leases[d].priority

Deny(a, d, p) ==
    /\ Held(d) /\ leases[d].agent # a /\ Outranked(d, p)
    /\ leases' = Cleaned
    /\ UNCHANGED <<now, told>>

\* The device is free, or taken from an agent that accepted to lose it to a
\* higher priority: from then on that agent may no longer count on it.
Acquire(a, d, p, duration) ==
    LET until == now + Granted(duration) IN
    /\ ~Held(d) \/ (leases[d].agent # a /\ ~Outranked(d, p))
    /\ leases' = [e \in Devices |->
         IF e = d THEN [agent |-> a, priority |-> p, expires_at |-> until] ELSE Cleaned[e]]
    /\ told' = [told EXCEPT ![d] = [b \in Agents |->
         IF b = a THEN [priority |-> p, until |-> until]
         ELSE IF p > told[d][b].priority THEN Untold ELSE told[d][b]]]
    /\ UNCHANGED now

---------------------------------------------------------------------------
(* The releases, which look at the agent and not at the clock.             *)

\* Mutant of Without: anybody may release.
WithoutAnybodys(a, S) == [d \in Devices |-> IF d \in S THEN NoLease ELSE leases[d]]

\* The table without the leases of a on the devices in S.
Without(a, S) ==
    [d \in Devices |-> IF d \in S /\ leases[d].agent = a THEN NoLease ELSE leases[d]]

GivesUp(a, S) ==
    /\ leases' = Without(a, S)
    /\ told' = [d \in Devices |->
         IF d \in S THEN [told[d] EXCEPT ![a] = Untold] ELSE told[d]]
    /\ UNCHANGED now

\* release and release_device.
Release(a, d) == GivesUp(a, {d})

ReleaseAll(a) == GivesUp(a, Devices)

\* check_write, get_lease, list_leases and stats: asking cleans up.
Look ==
    /\ leases' = Cleaned
    /\ UNCHANGED <<now, told>>

Tick ==
    /\ now < MaxTime
    /\ now' = now + 1
    /\ UNCHANGED <<leases, told>>

---------------------------------------------------------------------------
Init ==
    /\ now = Epoch
    /\ leases = [d \in Devices |-> NoLease]
    /\ told = [d \in Devices |-> [a \in Agents |-> Untold]]

Operation ==
    \/ Look
    \/ \E a \in Agents :
        \/ ReleaseAll(a)
        \/ \E d \in Devices :
            \/ Release(a, d)
            \/ \E n \in Durations : Extend(a, d, n)
            \/ \E p \in Priorities : Deny(a, d, p)
            \/ \E p \in Priorities, n \in Durations : Acquire(a, d, p, n)

Next == Tick \/ Operation

Spec == Init /\ [][Next]_vars

---------------------------------------------------------------------------
\* Type invariant of the lease table (DeviceLease) and of what agents know.
TypeOK ==
    /\ now \in Epoch..MaxTime
    /\ leases \in [Devices -> [agent : Agents \cup {NoAgent}, priority : Int, expires_at : Int]]
    /\ told \in [Devices -> [Agents -> [priority : Int, until : Int]]]

\* An agent that was told it has a device until some time, has not released it
\* and has met no higher priority, is until then the only one check_write lets
\* through, whoever else acquires, releases or cleans up.
PromiseKept ==
    \A d \in Devices, a \in Agents :
        told[d][a].until >= now => \A b \in Agents : CheckWrite(d, b) <=> b = a

\* The leases that count, as the contract sees them.
Grants ==
    [d \in Devices |->
        IF Held(d) THEN [holder |-> leases[d].agent, priority |-> leases[d].priority,
                         until |-> leases[d].expires_at]
        ELSE [holder |-> NoAgent, priority |-> 0, until |-> 0]]

Contract == INSTANCE LeaseContract WITH grant <- Grants

\* The lease table, cleaned up lazily, keeps the contract of LeaseContract.
KeepsContract == Contract!Spec
================================================================================
