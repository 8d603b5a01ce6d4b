--------------------------------- MODULE Poller ---------------------------------
(***************************************************************************)
(* The polling scheduler (core/scheduler.py): a table of points to read,   *)
(* kept in insertion order, and one loop that every tick reads the first   *)
(* ten that are due, waits for all of them, and sleeps.  A point that      *)
(* fails five times running is suspended and retried five minutes later.   *)
(*                                                                         *)
(* A poll holds on to the PollTarget it was started with: a target that is *)
(* removed, or replaced by adding its point again, while it is being read  *)
(* leaves the poll with an object no longer in the table.                  *)
(*                                                                         *)
(* The order of the table is kept as the points that stand before each.    *)
(* Time is kept as ages, capped where the code stops telling them apart,   *)
(* so the clock needs no bound.  The event loop is assumed to keep up:     *)
(* time does not pass while the loop is ready to run or a poll has timed   *)
(* out.  The host has been up for longer than an interval, so the 0.0 a    *)
(* target starts with means due.                                           *)
(***************************************************************************)
EXTENDS Integers, FiniteSets

CONSTANTS
    Polled,        \* points that may be polled
    Conns,         \* connections that they may be polled over
    Interval,      \* [Polled -> ticks], interval_sec of each point
    BatchSize,     \* the 10 of due[:10]
    PollTimeout,   \* POLL_TIMEOUT, in ticks
    Recovery,      \* RECOVERY_INTERVAL, in ticks
    MaxErrors      \* max_errors

ASSUME PolledAssumption == IsFiniteSet(Polled)
ASSUME ConnsAssumption == "none" \notin Conns /\ Conns # {}
ASSUME IntervalsAssumption == Interval \in [Polled -> Nat \ {0}]
ASSUME PollerLimits ==
    /\ BatchSize \in Nat \ {0} /\ MaxErrors \in Nat \ {0}
    /\ PollTimeout \in Nat \ {0} /\ Recovery \in Nat \ {0}

VARIABLES
    before,    \* the order of _targets: for each key, the keys inserted before it
    target,    \* _targets: what each scheduled point's PollTarget holds
    loop,      \* where _poll_loop is: stopped, ready, gathering, sleeping
    poll,      \* the _poll_one of each point: none, reading, orphan or over
    pollAge,   \* how long a read has lasted
    \* history
    begun,     \* polls begun on a target since its errors were last cleared
    wait       \* ticks since a target was read, or one before it was replaced, while active

pollerVars == <<before, target, loop, poll, pollAge, begun, wait>>

---------------------------------------------------------------------------
Scheduled == {p \in Polled : target[p].conn # "none"}
Suspended(p) == target[p].errors >= MaxErrors
Never == -1

\* The longest pass of the loop, and more than a point should ever wait.
Cycle == PollTimeout + 1
Horizon(p) == Interval[p] + (1 + Cardinality(Polled)) * Cycle
Lesser(a, b) == IF a <= b THEN a ELSE b

Unscheduled == [conn |-> "none", age |-> 0, errors |-> 0, since |-> Never]

\* PollTarget(connection_id, point_id, interval_sec): last_polled is 0.0.
Fresh(p, c) == [conn |-> c, age |-> Interval[p], errors |-> 0, since |-> Never]

Cleared(t) == [t EXCEPT !.errors = 0, !.since = Never]

\* A failed poll counts an error, and dates the suspension it leads to.
Failed(t) == [t EXCEPT !.errors = @ + 1, !.since = IF t.errors + 1 >= MaxErrors THEN 0 ELSE @]

---------------------------------------------------------------------------
(* The table.                                                              *)

\* Mutant of Orphaned: a removed target's poll is taken for its successor's.
OrphanedNot(ps) == poll

\* A poll under way on p loses the table's entry.
Orphaned(ps) == [p \in Polled |-> IF p \in ps /\ poll[p] = "reading" THEN "orphan" ELSE poll[p]]

\* add_target, also through add_targets_from_inventory: a point that is there
\* keeps its place and gets a new PollTarget.
AddTarget(p, c) ==
    /\ before' = IF p \in Scheduled THEN before ELSE [before EXCEPT ![p] = Scheduled]
    /\ target' = [target EXCEPT ![p] = Fresh(p, c)]
    /\ poll' = Orphaned({p})
    /\ begun' = [begun EXCEPT ![p] = 0]
    /\ wait' = [q \in Polled |-> IF q = p \/ p \in before[q] THEN 0 ELSE wait[q]]
    /\ UNCHANGED <<loop, pollAge>>

Drop(ps) ==
    /\ before' = [p \in Polled |-> IF p \in ps THEN {} ELSE before[p] \ ps]
    /\ target' = [p \in Polled |-> IF p \in ps THEN Unscheduled ELSE target[p]]
    /\ poll' = Orphaned(ps)
    /\ begun' = [p \in Polled |-> IF p \in ps THEN 0 ELSE begun[p]]
    /\ wait' = [p \in Polled |-> IF p \in ps THEN 0 ELSE wait[p]]
    /\ UNCHANGED <<loop, pollAge>>

RemoveTarget(p) == p \in Scheduled /\ Drop({p})

Over(c) == {p \in Scheduled : target[p].conn = c}

RemoveConnection(c) == Over(c) # {} /\ Drop(Over(c))

Reset(ps) ==
    /\ target' = [p \in Polled |-> IF p \in ps THEN Cleared(target[p]) ELSE target[p]]
    /\ begun' = [p \in Polled |->
                    IF p \in ps THEN IF poll[p] = "reading" THEN 1 ELSE 0 ELSE begun[p]]
    /\ UNCHANGED <<before, loop, poll, pollAge, wait>>

ResetErrors(p) == p \in Scheduled /\ Reset({p})
ResetAllErrors(c) == Over(c) # {} /\ Reset(Over(c))

---------------------------------------------------------------------------
(* The loop.                                                               *)

\* The engine sets the read function before it starts the scheduler.
Start ==
    /\ loop = "stopped"
    /\ loop' = "ready"
    /\ UNCHANGED <<before, target, poll, pollAge, begun, wait>>

\* Cancelling the loop cancels the polls it gathers: nothing is counted.
Stop ==
    /\ loop # "stopped"
    /\ loop' = "stopped"
    /\ poll' = [p \in Polled |-> "none"]
    /\ pollAge' = [p \in Polled |-> 0]
    /\ wait' = [p \in Polled |-> 0]
    /\ UNCHANGED <<before, target, begun>>

\* Mutant of Recovering: only looked for when there is something to poll.
RecoveringIfBusy(ps) ==
    IF \E p \in ps : ~Suspended(p)
    THEN {p \in ps : Suspended(p) /\ target[p].since >= Recovery}
    ELSE {}

Recovering(ps) == {p \in ps : Suspended(p) /\ target[p].since # Never /\ target[p].since >= Recovery}

Earliest(ps) == {p \in ps : Cardinality(before[p] \cap ps) < BatchSize}

\* Mutant of FirstDue: the first of the table, due or not.
FirstDueAlways(ps) == Earliest(ps)

\* due[:10], in the order of the table.
FirstDue(ps) == Earliest({p \in ps : target[p].age >= Interval[p]})

\* One pass: recover what has been suspended long enough, then start polling.
\* The polls note the time at once.
Check ==
    /\ loop = "ready"
    /\ LET back == Recovering(Scheduled)
           active == {p \in Scheduled : ~Suspended(p)} \cup back
           batch == FirstDue(active)
       IN  /\ target' = [p \in Polled |->
                 LET t == IF p \in back THEN Cleared(target[p]) ELSE target[p]
                 IN  IF p \in batch THEN [t EXCEPT !.age = 0] ELSE t]
           /\ poll' = [p \in Polled |-> IF p \in batch THEN "reading" ELSE "none"]
           /\ loop' = IF batch = {} THEN "sleeping" ELSE "gathering"
           /\ begun' = [p \in Polled |->
                 LET n == IF p \in back THEN 0 ELSE begun[p]
                 IN  IF p \in batch THEN Lesser(n + 1, MaxErrors) ELSE n]
           /\ wait' = [p \in Polled |-> IF p \in batch THEN 0 ELSE wait[p]]
    /\ pollAge' = [p \in Polled |-> 0]
    /\ UNCHANGED before

Gathered(ps) == \A p \in Polled : ps[p] \in {"none", "over"}

\* One of the polls ends; gather returns when the last one has.
PollEnds(p) ==
    /\ poll' = [poll EXCEPT ![p] = "over"]
    /\ loop' = IF Gathered(poll') THEN "sleeping" ELSE "gathering"
    /\ UNCHANGED <<before, pollAge, wait>>

PollSucceeds(p) ==
    /\ poll[p] = "reading"
    /\ target' = [target EXCEPT ![p].errors = 0]
    /\ begun' = [begun EXCEPT ![p] = 0]
    /\ PollEnds(p)

\* Mutant of PollFails: the target is looked up again by its point.
PollFailsByPoint(p) ==
    /\ poll[p] \in {"reading", "orphan"}
    /\ target' = [target EXCEPT ![p] = IF p \in Scheduled THEN Failed(@) ELSE @]
    /\ PollEnds(p)
    /\ UNCHANGED begun

\* The read raised, or took POLL_TIMEOUT.
PollFails(p) ==
    /\ poll[p] = "reading"
    /\ target' = [target EXCEPT ![p] = Failed(@)]
    /\ PollEnds(p)
    /\ UNCHANGED begun

\* What an orphan counts, it counts on an object nobody looks at.
OrphanEnds(p) ==
    /\ poll[p] = "orphan"
    /\ PollEnds(p)
    /\ UNCHANGED <<target, begun>>

Reading(p) == poll[p] \in {"reading", "orphan"}

\* A tick of the clock, which is also what the loop sleeps.
Tick ==
    /\ loop # "ready"
    /\ \A p \in Polled : Reading(p) => pollAge[p] < PollTimeout
    /\ target' = [p \in Polled |->
          IF p \in Scheduled
          THEN [target[p] EXCEPT
                  !.age = Lesser(@ + 1, Interval[p]),
                  !.since = IF @ = Never THEN Never ELSE Lesser(@ + 1, Recovery)]
          ELSE target[p]]
    /\ pollAge' = [p \in Polled |-> IF Reading(p) THEN pollAge[p] + 1 ELSE 0]
    /\ loop' = IF loop = "sleeping" THEN "ready" ELSE loop
    /\ wait' = [p \in Polled |->
          IF p \in Scheduled /\ ~Suspended(p) /\ loop # "stopped"
          THEN Lesser(wait[p] + 1, Horizon(p)) ELSE 0]
    /\ UNCHANGED <<before, poll, begun>>

PollerInit ==
    /\ before = [p \in Polled |-> {}]
    /\ target = [p \in Polled |-> Unscheduled]
    /\ loop = "stopped"
    /\ poll = [p \in Polled |-> "none"]
    /\ pollAge = [p \in Polled |-> 0]
    /\ begun = [p \in Polled |-> 0]
    /\ wait = [p \in Polled |-> 0]

PollerNext ==
    \/ \E p \in Polled, c \in Conns : AddTarget(p, c)
    \/ \E p \in Polled : RemoveTarget(p) \/ ResetErrors(p)
    \/ \E c \in Conns : RemoveConnection(c) \/ ResetAllErrors(c)
    \/ Start \/ Stop \/ Check \/ Tick
    \/ \E p \in Polled : PollSucceeds(p) \/ PollFails(p) \/ OrphanEnds(p)

\* The event loop runs what is ready, the clock goes on, and wait_for ends
\* every read.
PollerFairness ==
    /\ WF_pollerVars(Check) /\ WF_pollerVars(Tick)
    /\ \A p \in Polled : WF_pollerVars(PollFails(p)) /\ WF_pollerVars(OrphanEnds(p))

PollerSpec == PollerInit /\ [][PollerNext]_pollerVars /\ PollerFairness

---------------------------------------------------------------------------
(* Properties.                                                             *)

\* The state has its shape: the table has an order, and a poll is under way only
\* while the loop waits for it (core/scheduler.py:54, 145).
PollerTypeOK ==
    /\ target \in [Polled -> [conn : Conns \cup {"none"}, age : Nat,
                              errors : 0..MaxErrors, since : (0..Recovery) \cup {Never}]]
    /\ before \in [Polled -> SUBSET Scheduled]
    /\ \A p \in Polled \ Scheduled : before[p] = {}
    /\ \A p, q \in Scheduled : p # q => (p \in before[q] <=> q \notin before[p])
    /\ \A p, q \in Scheduled : p \in before[q] => p # q /\ before[p] \subseteq before[q]
    /\ loop \in {"stopped", "ready", "gathering", "sleeping"}
    /\ poll \in [Polled -> {"none", "reading", "orphan", "over"}]
    /\ \A p \in Polled : poll[p] = "reading" => p \in Scheduled
    /\ (\E p \in Polled : Reading(p)) <=> loop = "gathering"
    /\ pollAge \in [Polled -> 0..PollTimeout]
    /\ begun \in [Polled -> 0..MaxErrors]
    /\ wait \in [Polled -> Nat] /\ \A p \in Polled : wait[p] <= Horizon(p)

\* Errors are earned: a target never counts more errors than polls were begun
\* on it since they were last cleared, whatever became of reads that outlived
\* a removal, a replacement or a reset (core/scheduler.py:169-199).
ErrorsEarned == \A p \in Polled : target[p].errors <= begun[p]

\* The batches that all the points fill, and whether every interval has room
\* for them.
Rounds == 1 + (Cardinality(Polled) - 1) \div BatchSize
Fits == \A p \in Polled : Rounds * Cycle <= Interval[p]

\* An active target is read within its interval and one pass of the loop for
\* every batch of points, if that many passes fit into every interval
\* (core/scheduler.py:139-149).  Only replacing a target that stands before it
\* may hold it up: suspensions, recoveries, resets, removals, and targets added
\* after it, do not.
PolledInTime == Fits => \A p \in Scheduled : wait[p] <= Interval[p] + Rounds * Cycle

\* A suspended point is retried: it does not stay suspended while the scheduler
\* runs, even if nothing else is polled (core/scheduler.py:124-135).
SuspendedComesBack ==
    \A p \in Polled :
        (p \in Scheduled /\ Suspended(p) /\ loop # "stopped")
            ~> (p \notin Scheduled \/ ~Suspended(p) \/ loop = "stopped")

===============================================================================
