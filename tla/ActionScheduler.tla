---------------------------- MODULE ActionScheduler ----------------------------
(***************************************************************************)
(* Delayed, one-shot and recurring actions (agent/agent_scheduler.py): a   *)
(* table of schedules, and for each an asyncio task that sleeps, runs the  *)
(* action through the tool executor and, if it recurs, sleeps again.       *)
(*                                                                         *)
(* cancel() sets the status at once, but the task only hears of it when    *)
(* the loop resumes it, as a CancelledError at the await it is in.  An     *)
(* action awaits several things one after the other: the audit rows, the   *)
(* adapter, the readback, and for a scene the same for each device.  The   *)
(* adapter is awaited in asyncio.wait_for (core/registry.py), which up to  *)
(* Python 3.11, the image's, returns an answer that is already there and   *)
(* drops the CancelledError.  The action then goes on to what it awaits    *)
(* next, with its row cancelled and nothing to stop it.                    *)
(*                                                                         *)
(* Left out: what the action is, and the absolute times.                   *)
(***************************************************************************)
EXTENDS Integers

CONSTANTS
    Ids,             \* schedule ids
    Initiators,
    InitiatorOf,     \* who asks for which schedule
    Anyone,          \* cancel_all without an initiator
    Limits,          \* values of max_runs
    NoLimit,         \* stands for a max_runs of None
    RunCap,          \* run_count is only counted up to here
    WaitForSwallows  \* whether wait_for may drop a cancellation

ASSUME InitiatorsAssumption == InitiatorOf \in [Ids -> Initiators] /\ Anyone \notin Initiators
ASSUME LimitsAssumption ==
    Limits \subseteq Nat /\ NoLimit \notin Nat /\ RunCap \in Nat \ {0}
    /\ (\A n \in Limits : n < RunCap) /\ WaitForSwallows \in BOOLEAN

VARIABLES
    sched,   \* _schedules: [kind, max_runs, status, runs]
    task,    \* _task: where it is
    thrown   \* a CancelledError awaits the task when it resumes

vars == <<sched, task, thrown>>

---------------------------------------------------------------------------
Nothing == [kind |-> "none", max_runs |-> NoLimit, status |-> "none", runs |-> 0]

Active == {"pending", "running"}

\* Mutant of UsedUp: off by one.
UsedUpLate(r) == r.kind = "recurring" /\ r.max_runs # NoLimit /\ r.runs > r.max_runs

\* The top of _run_recurring's loop.
UsedUp(r) == r.kind = "recurring" /\ r.max_runs # NoLimit /\ r.runs >= r.max_runs

\* A schedule that is about to wait: it ends here, or its task sleeps.
Waits(s, r) ==
    IF UsedUp(r)
    THEN /\ sched' = [sched EXCEPT ![s] = [r EXCEPT !.status = "completed"]]
         /\ task' = [task EXCEPT ![s] = "done"]
    ELSE /\ sched' = [sched EXCEPT ![s] = r]
         /\ task' = [task EXCEPT ![s] = "asleep"]

\* The action of a schedule is over without an exception.
Ends(s, r) ==
    IF r.kind = "once"
    THEN /\ sched' = [sched EXCEPT ![s] = [r EXCEPT !.status = "completed"]]
         /\ task' = [task EXCEPT ![s] = "done"]
    ELSE Waits(s, [r EXCEPT !.status = "pending"])

---------------------------------------------------------------------------
(* schedule_delay, schedule_at, schedule_recurring.                        *)

Schedule(s, kind, limit) ==
    /\ sched[s] = Nothing
    /\ kind = "once" => limit = NoLimit
    /\ sched' = [sched EXCEPT ![s] =
         [kind |-> kind, max_runs |-> limit, status |-> "pending", runs |-> 0]]
    /\ task' = [task EXCEPT ![s] = "created"]
    /\ UNCHANGED thrown

---------------------------------------------------------------------------
(* cancel and cancel_all.                                                  *)

\* Mutant of CancelThese: only the table is marked.
CancelTheseMarkOnly(S) ==
    /\ sched' = [s \in Ids |-> IF s \in S THEN [sched[s] EXCEPT !.status = "cancelled"]
                                          ELSE sched[s]]
    /\ UNCHANGED <<task, thrown>>

\* The schedules in S are marked, and those of their tasks that still live get
\* a CancelledError.
CancelThese(S) ==
    /\ sched' = [s \in Ids |-> IF s \in S THEN [sched[s] EXCEPT !.status = "cancelled"]
                                          ELSE sched[s]]
    /\ thrown' = [s \in Ids |-> thrown[s] \/ (s \in S /\ task[s] # "done")]
    /\ UNCHANGED task

\* A failed schedule may still be cancelled.
Cancel(s) ==
    /\ sched[s].status \in Active \cup {"failed"}
    /\ CancelThese({s})

CancelAll(who) ==
    CancelThese({s \in Ids : who \in {Anyone, InitiatorOf[s]} /\ sched[s].status \in Active})

---------------------------------------------------------------------------
(* _run_after_delay and _run_recurring.                                    *)

\* Mutant of Start: nobody holds on to the task of a recurring schedule, and it
\* is collected before it ran.
StartUnreferenced(s) ==
    /\ task[s] = "created" /\ sched[s].kind = "once"
    /\ IF thrown[s] THEN task' = [task EXCEPT ![s] = "done"] /\ UNCHANGED sched
                    ELSE Waits(s, sched[s])
    /\ thrown' = [thrown EXCEPT ![s] = FALSE]

\* A task that is cancelled before its first step never enters its try block:
\* the status stays as cancel left it.
Start(s) ==
    /\ task[s] = "created"
    /\ IF thrown[s] THEN task' = [task EXCEPT ![s] = "done"] /\ UNCHANGED sched
                    ELSE Waits(s, sched[s])
    /\ thrown' = [thrown EXCEPT ![s] = FALSE]

\* The sleep is over, and the loop will resume the task.
TimerFires(s) ==
    /\ task[s] = "asleep"
    /\ task' = [task EXCEPT ![s] = "woken"]
    /\ UNCHANGED <<sched, thrown>>

\* The row of a schedule that begins a run.
Counted(s) ==
    [sched[s] EXCEPT !.status = "running",
                     !.runs = IF @ < RunCap THEN @ + 1 ELSE @]

\* The task's sleep is behind it.  The check for a cancelled status finds
\* nothing: a task that was cancelled asleep has an exception to meet instead.
Awake(s) ==
    /\ task[s] = "woken" /\ ~thrown[s]
    /\ ~(sched[s].kind = "recurring" /\ sched[s].status = "cancelled")

\* _execute up to the first await of the action.
BeginRun(s) ==
    /\ Awake(s)
    /\ sched' = [sched EXCEPT ![s] = Counted(s)]
    /\ task' = [task EXCEPT ![s] = "executing"]
    /\ UNCHANGED thrown

\* _execute of an action that awaits nothing, as a write that the policy
\* refuses or holds back for a confirmation.
RunAtOnce(s) ==
    /\ Awake(s)
    /\ Ends(s, Counted(s))
    /\ UNCHANGED thrown

\* What the action awaits is there, with a success or a failure, and the loop
\* will resume the task; a cancellation may have come before it, or may come
\* before the task resumes.
Answer(s) ==
    /\ task[s] = "executing"
    /\ task' = [task EXCEPT ![s] = "answered"]
    /\ UNCHANGED <<sched, thrown>>

\* The task resumes with what it awaited; a cancellation that came meanwhile
\* is dropped, which only wait_for does.
Answered(s) == task[s] = "answered" /\ (thrown[s] => WaitForSwallows)

\* The action has more to await: the second audit row, the readback, the next
\* device of its scene.  Its row stays as it is, cancelled or not.
GoesOn(s) ==
    /\ Answered(s)
    /\ task' = [task EXCEPT ![s] = "executing"]
    /\ thrown' = [thrown EXCEPT ![s] = FALSE]
    /\ UNCHANGED sched

\* The last of what it awaited.  A cancellation dropped here is one that met
\* an exception of the adapter, which ends the action at once.
Finish(s) ==
    /\ Answered(s)
    /\ Ends(s, sched[s])
    /\ thrown' = [thrown EXCEPT ![s] = FALSE]

\* The callback raises.  ToolExecutor.call, the one the program installs, turns
\* every exception into an answer; another callback need not.
Fail(s) ==
    /\ Answered(s)
    /\ sched' = [sched EXCEPT ![s].status = "failed"]
    /\ task' = [task EXCEPT ![s] = "done"]
    /\ thrown' = [thrown EXCEPT ![s] = FALSE]

\* The task resumes with the CancelledError.  An answer that is there is lost
\* unless wait_for returns it; outside wait_for it always is.
MeetCancellation(s) ==
    /\ thrown[s] /\ task[s] \in {"asleep", "woken", "executing", "answered"}
    /\ sched' = [sched EXCEPT ![s].status = "cancelled"]
    /\ task' = [task EXCEPT ![s] = "done"]
    /\ thrown' = [thrown EXCEPT ![s] = FALSE]

Resume(s) ==
    \/ Start(s) \/ BeginRun(s) \/ RunAtOnce(s)
    \/ GoesOn(s) \/ Finish(s) \/ Fail(s) \/ MeetCancellation(s)

---------------------------------------------------------------------------
Init ==
    /\ sched = [s \in Ids |-> Nothing]
    /\ task = [s \in Ids |-> "none"]
    /\ thrown = [s \in Ids |-> FALSE]

Next ==
    \/ \E who \in Initiators \cup {Anyone} : CancelAll(who)
    \/ \E s \in Ids :
        \/ \E kind \in {"once", "recurring"}, limit \in Limits \cup {NoLimit} :
             Schedule(s, kind, limit)
        \/ Cancel(s) \/ TimerFires(s) \/ Answer(s) \/ Resume(s)

Spec == Init /\ [][Next]_vars

\* Timers fire and the loop resumes what is ready.  Nothing is assumed of the
\* answer: execute has a timeout, but the readback after it has none.
FairSpec == Spec /\ \A s \in Ids : WF_vars(TimerFires(s)) /\ WF_vars(Resume(s))

---------------------------------------------------------------------------
\* Type invariant of the schedule table and the tasks.
TypeOK ==
    /\ sched \in [Ids ->
         [kind : {"none", "once", "recurring"}, max_runs : Limits \cup {NoLimit},
          status : {"none", "pending", "running", "completed", "cancelled", "failed"},
          runs : 0..RunCap]]
    /\ task \in [Ids -> {"none", "created", "asleep", "woken", "executing", "answered", "done"}]
    /\ thrown \in [Ids -> BOOLEAN]

\* A schedule that is listed as active has a task that will still act, and one
\* that is completed or failed has none.  The task of a cancelled one is over or
\* about to hear of it; only if wait_for dropped the cancellation in the middle
\* of the action does it live on unwarned, and then inside that action.
StatusMatchesTask ==
    \A s \in Ids :
        /\ sched[s].status \in Active => task[s] \notin {"none", "done"} /\ ~thrown[s]
        /\ sched[s].status \in {"completed", "failed"} => task[s] = "done"
        /\ sched[s].status = "cancelled" =>
             \/ task[s] = "done" \/ thrown[s]
             \/ WaitForSwallows /\ task[s] \in {"executing", "answered"}

\* No schedule runs more often than it was asked to, and one that is completed
\* has run exactly as often.
RunsAsAsked ==
    \A s \in Ids :
        LET asked == IF sched[s].kind = "once" THEN 1 ELSE sched[s].max_runs
        IN /\ asked # NoLimit => sched[s].runs <= asked
           /\ sched[s].status = "completed" => sched[s].runs = asked

\* A schedule that is cancelled while its task waits, even when the timer has
\* fired and only the loop has not come round to it, never runs again.
CancelledAsleepNeverRuns ==
    \A s \in Ids, n \in 0..RunCap :
        []((sched[s].status = "cancelled" /\ sched[s].runs = n
              /\ task[s] \in {"created", "asleep", "woken"})
             => [](sched[s].status = "cancelled" /\ sched[s].runs = n))

\* A schedule that is created runs, or is cancelled before, or asked for no run.
ScheduleGetsGoing ==
    \A s \in Ids : task[s] = "created" ~> (sched[s].runs > 0 \/ task[s] = "done")
================================================================================
