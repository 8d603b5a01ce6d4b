------------------------ MODULE ActionScheduler_proofs ------------------------
(***************************************************************************)
(* For any schedules, limits and initiators, and whatever wait_for does    *)
(* with a cancellation: the table tells the truth about the tasks, nothing *)
(* runs more often than it was asked to, and what is cancelled while it    *)
(* waits never runs.  Machine-checked by TLAPS.                            *)
(***************************************************************************)
EXTENDS ActionScheduler, TLAPS

USE InitiatorsAssumption, LimitsAssumption DEF InitiatorsAssumption, LimitsAssumption

---------------------------------------------------------------------------
(* The inductive invariant, one schedule at a time.                        *)

Schedules ==
    [kind : {"none", "once", "recurring"}, max_runs : Limits \cup {NoLimit},
     status : {"none", "pending", "running", "completed", "cancelled", "failed"},
     runs : 0..RunCap]

Places == {"none", "created", "asleep", "woken", "executing", "answered", "done"}

\* What the row r of a schedule says of its task, which is at t and has, if c,
\* a CancelledError to meet.
RowMatches(r, t, c) ==
    /\ r.status = "pending" => t \in {"created", "asleep", "woken"} /\ ~c
    /\ r.status = "running" => t \in {"executing", "answered"} /\ ~c
    /\ r.status \in {"completed", "failed"} => t = "done"
    /\ r.status = "cancelled" =>
         t = "done" \/ c \/ (WaitForSwallows /\ t \in {"executing", "answered"})
    /\ c => r.status = "cancelled" /\ t # "done"

\* How often a schedule has run, by where its task is.
OnceMatches(r, t) ==
    /\ r.runs <= 1
    /\ t \in {"created", "asleep", "woken"} => r.runs = 0
    /\ t \in {"executing", "answered"} \/ r.status = "completed" => r.runs = 1

RecurringMatches(r, t) ==
    /\ r.max_runs # NoLimit => r.runs <= r.max_runs
    /\ r.status = "completed" => r.runs = r.max_runs
    /\ t \in {"asleep", "woken"} /\ r.max_runs # NoLimit => r.runs < r.max_runs

Good(r, t, c) ==
    /\ RowMatches(r, t, c)
    /\ r.kind = "none" => r.status = "none" /\ r.max_runs = NoLimit
    /\ r.kind = "once" => OnceMatches(r, t)
    /\ r.kind = "recurring" => RecurringMatches(r, t)
    /\ t # "none" => r.kind # "none"
    /\ r.status = "none" => r.kind = "none"

AllGood == \A s \in Ids : Good(sched[s], task[s], thrown[s])

IInv == TypeOK /\ AllGood

\* At the start there is no schedule and no task.
LEMMA InitIInv == Init => IInv
  BY DEF Init, IInv, TypeOK, AllGood, Good, RowMatches, Nothing

\* One schedule and its task change, and match again.
LEMMA OneStep ==
    ASSUME IInv, NEW s \in Ids, NEW r \in Schedules, NEW t \in Places, NEW c \in BOOLEAN,
           Good(r, t, c),
           sched' = [sched EXCEPT ![s] = r], task' = [task EXCEPT ![s] = t],
           thrown' = [thrown EXCEPT ![s] = c]
    PROVE  IInv'
<1>1. /\ sched'[s] = r /\ task'[s] = t /\ thrown'[s] = c
      /\ \A o \in Ids \ {s} : sched'[o] = sched[o] /\ task'[o] = task[o] /\ thrown'[o] = thrown[o]
  BY DEF IInv, TypeOK
<1>2. TypeOK'
  BY DEF IInv, TypeOK, Schedules, Places
<1>3. AllGood'
  BY <1>1 DEF IInv, AllGood, Good, RowMatches, OnceMatches, RecurringMatches
<1> QED
  BY <1>2, <1>3 DEF IInv

\* What the invariant says of one schedule.
LEMMA OneFacts ==
    ASSUME IInv, NEW s \in Ids
    PROVE  /\ sched[s] \in Schedules /\ task[s] \in Places /\ thrown[s] \in BOOLEAN
           /\ Good(sched[s], task[s], thrown[s])
           /\ sched = [sched EXCEPT ![s] = sched[s]]
           /\ task = [task EXCEPT ![s] = task[s]]
           /\ thrown = [thrown EXCEPT ![s] = thrown[s]]
  BY DEF IInv, TypeOK, AllGood, Schedules, Places

\* Counts and limits are integers.
LEMMA OneInts ==
    \A r \in Schedules : /\ r.runs \in Nat /\ r.runs <= RunCap
                         /\ r.max_runs # NoLimit => r.max_runs \in Nat /\ r.max_runs < RunCap
                         /\ r.kind \in {"none", "once", "recurring"}
<1> SUFFICES ASSUME NEW r \in Schedules
             PROVE  /\ r.runs \in Nat /\ r.runs <= RunCap
                    /\ r.max_runs # NoLimit => r.max_runs \in Nat /\ r.max_runs < RunCap
                    /\ r.kind \in {"none", "once", "recurring"}
  OBVIOUS
<1>1. /\ r.kind \in {"none", "once", "recurring"}
      /\ r.max_runs \in Limits \cup {NoLimit} /\ r.runs \in 0..RunCap
  BY DEF Schedules
<1>2. r.runs \in Nat /\ r.runs <= RunCap
  BY <1>1
<1>3. ASSUME r.max_runs # NoLimit PROVE r.max_runs \in Nat /\ r.max_runs < RunCap
  <2>1. r.max_runs \in Limits
    BY <1>1, <1>3
  <2> QED
    BY <2>1
<1> QED
  BY <1>1, <1>2, <1>3

---------------------------------------------------------------------------
(* The steps.                                                              *)

\* A new schedule is pending, with a task and no run behind it.
LEMMA ScheduleStep ==
    ASSUME IInv, NEW s \in Ids, NEW kind \in {"once", "recurring"},
           NEW limit \in Limits \cup {NoLimit}, Schedule(s, kind, limit)
    PROVE  IInv'
<1> DEFINE r == [kind |-> kind, max_runs |-> limit, status |-> "pending", runs |-> 0]
<1>1. r \in Schedules
  BY DEF Schedules
<1>2. ~thrown[s]
  BY OneFacts DEF Schedule, Nothing, Good, RowMatches
<1>3. Good(r, "created", FALSE)
  BY DEF Good, RowMatches, OnceMatches, RecurringMatches
<1>4. thrown' = [thrown EXCEPT ![s] = FALSE]
  BY <1>2, OneFacts DEF Schedule
<1> QED
  BY <1>1, <1>3, <1>4, OneStep DEF Schedule, Places

\* What is about to wait is used up, and then it is done, or has runs left.
LEMMA WaitsStep ==
    ASSUME IInv, NEW s \in Ids, NEW r \in Schedules, Waits(s, r),
           r.status = "pending", r.kind # "none",
           r.kind = "once" => r.runs = 0,
           r.kind = "recurring" /\ r.max_runs # NoLimit => r.runs <= r.max_runs,
           thrown' = [thrown EXCEPT ![s] = FALSE]
    PROVE  IInv'
<1>1. CASE UsedUp(r)
  <2> DEFINE done == [kind |-> r.kind, max_runs |-> r.max_runs, status |-> "completed",
                      runs |-> r.runs]
  <2>1. /\ sched' = [sched EXCEPT ![s] = [r EXCEPT !.status = "completed"]]
        /\ task' = [task EXCEPT ![s] = "done"]
    BY <1>1 DEF Waits
  <2>2. [r EXCEPT !.status = "completed"] = done /\ done \in Schedules
    BY DEF Schedules
  <2>3. r.runs = r.max_runs /\ r.kind = "recurring" /\ r.max_runs # NoLimit
    BY <1>1, OneInts DEF UsedUp
  <2>4. /\ done.kind = "recurring" /\ done.status = "completed"
        /\ done.runs = done.max_runs /\ done.max_runs \in Int
    BY <2>3, OneInts
  <2> HIDE DEF done
  <2>5. Good(done, "done", FALSE)
    BY <2>4 DEF Good, RowMatches, RecurringMatches
  <2> QED
    BY <2>1, <2>2, <2>5, OneStep DEF Places
<1>2. CASE ~UsedUp(r)
  <2>1. sched' = [sched EXCEPT ![s] = r] /\ task' = [task EXCEPT ![s] = "asleep"]
    BY <1>2 DEF Waits
  <2>2. r.kind = "recurring" /\ r.max_runs # NoLimit => r.runs < r.max_runs
    BY <1>2, OneInts DEF UsedUp
  <2>3. Good(r, "asleep", FALSE)
    BY <2>2, OneInts DEF Good, RowMatches, OnceMatches, RecurringMatches
  <2> QED
    BY <2>1, <2>3, OneStep DEF Places
<1> QED
  BY <1>1, <1>2

\* A row whose status alone changes.
WithStatus(r, status) ==
    [kind |-> r.kind, max_runs |-> r.max_runs, status |-> status, runs |-> r.runs]

\* Changing the status alone leaves a row.
LEMMA WithStatusRow ==
    ASSUME NEW r \in Schedules,
           NEW status \in {"none", "pending", "running", "completed", "cancelled", "failed"}
    PROVE  /\ [r EXCEPT !.status = status] = WithStatus(r, status)
           /\ WithStatus(r, status) \in Schedules
  BY DEF Schedules, WithStatus

\* An action is over: a schedule for once is done, another waits again.
LEMMA EndsStep ==
    ASSUME IInv, NEW s \in Ids, NEW r \in Schedules, Ends(s, r),
           r.kind # "none",
           r.kind = "once" => r.runs = 1,
           r.kind = "recurring" /\ r.max_runs # NoLimit => r.runs <= r.max_runs,
           thrown' = [thrown EXCEPT ![s] = FALSE]
    PROVE  IInv'
<1>1. CASE r.kind = "once"
  <2> DEFINE done == WithStatus(r, "completed")
  <2>1. /\ sched' = [sched EXCEPT ![s] = done] /\ done \in Schedules
        /\ task' = [task EXCEPT ![s] = "done"]
    BY <1>1, WithStatusRow DEF Ends
  <2>2. done.kind = "once" /\ done.status = "completed" /\ done.runs = 1
    BY <1>1 DEF WithStatus
  <2> HIDE DEF done
  <2>3. Good(done, "done", FALSE)
    BY <2>2 DEF Good, RowMatches, OnceMatches
  <2> QED
    BY <2>1, <2>3, OneStep DEF Places
<1>2. CASE r.kind # "once"
  <2> DEFINE next == WithStatus(r, "pending")
  <2>1. Waits(s, next) /\ next \in Schedules
    BY <1>2, WithStatusRow DEF Ends
  <2>2. /\ next.status = "pending" /\ next.kind = r.kind
        /\ next.max_runs = r.max_runs /\ next.runs = r.runs
    BY DEF WithStatus
  <2> HIDE DEF next
  <2> QED
    BY <1>2, <2>1, <2>2, WaitsStep
<1> QED
  BY <1>1, <1>2

\* The first step of a task, which a cancellation may prevent.
LEMMA StartStep ==
    ASSUME IInv, NEW s \in Ids, Start(s)
    PROVE  IInv'
<1>1. /\ task[s] = "created" /\ thrown' = [thrown EXCEPT ![s] = FALSE]
      /\ sched[s] \in Schedules /\ Good(sched[s], task[s], thrown[s])
  BY OneFacts DEF Start
<1>2. CASE thrown[s]
  <2>1. /\ sched' = [sched EXCEPT ![s] = sched[s]] /\ task' = [task EXCEPT ![s] = "done"]
    BY <1>2, OneFacts DEF Start
  <2>2. Good(sched[s], "done", FALSE)
    BY <1>1, <1>2 DEF Good, RowMatches, OnceMatches, RecurringMatches
  <2> QED
    BY <1>1, <2>1, <2>2, OneStep DEF Places
<1>3. CASE ~thrown[s]
  <2>1. Waits(s, sched[s])
    BY <1>3 DEF Start
  <2>2. sched[s].status = "pending" /\ sched[s].kind # "none"
    BY <1>1, <1>3 DEF Good, RowMatches, Schedules
  <2>3. /\ sched[s].kind = "once" => sched[s].runs = 0
        /\ sched[s].kind = "recurring" /\ sched[s].max_runs # NoLimit
             => sched[s].runs <= sched[s].max_runs
    BY <1>1 DEF Good, OnceMatches, RecurringMatches
  <2> QED
    BY <1>1, <2>1, <2>2, <2>3, WaitsStep
<1> QED
  BY <1>2, <1>3

\* The timer only moves a task on.
LEMMA TimerFiresStep == ASSUME IInv, NEW s \in Ids, TimerFires(s) PROVE IInv'
<1>1. /\ sched[s] \in Schedules /\ thrown[s] \in BOOLEAN
      /\ Good(sched[s], "asleep", thrown[s])
  BY OneFacts DEF TimerFires
<1>2. Good(sched[s], "woken", thrown[s])
  BY <1>1 DEF Good, RowMatches, OnceMatches, RecurringMatches
<1>3. /\ sched' = [sched EXCEPT ![s] = sched[s]] /\ task' = [task EXCEPT ![s] = "woken"]
      /\ thrown' = [thrown EXCEPT ![s] = thrown[s]]
  BY OneFacts DEF TimerFires
<1>4. "woken" \in Places
  BY DEF Places
<1> QED
  BY <1>1, <1>2, <1>3, <1>4, OneStep

\* The row of a schedule that starts to run, field by field.
LEMMA RunningRow ==
    ASSUME NEW o \in Schedules, NEW n
    PROVE  [o EXCEPT !.status = "running", !.runs = n]
             = [kind |-> o.kind, max_runs |-> o.max_runs, status |-> "running", runs |-> n]
<1> DEFINE mid == [kind |-> o.kind, max_runs |-> o.max_runs, status |-> "running",
                   runs |-> o.runs]
<1>1. [o EXCEPT !.status = "running"] = mid
  BY DEF Schedules
<1>2. [mid EXCEPT !.runs = n]
        = [kind |-> o.kind, max_runs |-> o.max_runs, status |-> "running", runs |-> n]
  OBVIOUS
<1>3. [o EXCEPT !.status = "running", !.runs = n] = [[o EXCEPT !.status = "running"] EXCEPT !.runs = n]
  OBVIOUS
<1> QED
  BY <1>1, <1>2, <1>3

\* A task that begins a run has one left to begin.
LEMMA CountedRow ==
    ASSUME IInv, NEW s \in Ids, Awake(s)
    PROVE  /\ Counted(s) \in Schedules /\ Counted(s).status = "running"
           /\ Counted(s).kind \in {"once", "recurring"}
           /\ Counted(s).kind = "once" => Counted(s).runs = 1
           /\ Counted(s).kind = "recurring" /\ Counted(s).max_runs # NoLimit
                => Counted(s).runs <= Counted(s).max_runs
           /\ thrown[s] = FALSE
<1> DEFINE old == sched[s]
           n == IF old.runs < RunCap THEN old.runs + 1 ELSE old.runs
           r == [kind |-> old.kind, max_runs |-> old.max_runs, status |-> "running",
                 runs |-> n]
<1>1. old \in Schedules /\ Good(old, "woken", FALSE) /\ thrown[s] = FALSE
  BY OneFacts DEF Awake
<1>2. Counted(s) = r
  <2> Counted(s) = [old EXCEPT !.status = "running", !.runs = n]
    BY DEF Counted
  <2> HIDE DEF n
  <2> QED
    BY <1>1, RunningRow
<1>3. r \in Schedules
  BY <1>1 DEF Schedules
<1>4. /\ r.kind = old.kind /\ r.kind \in {"once", "recurring"}
      /\ r.status = "running" /\ r.max_runs = old.max_runs
      /\ r.kind = "once" => r.runs = 1
      /\ r.kind = "recurring" /\ r.max_runs # NoLimit => r.runs <= r.max_runs
  BY <1>1, OneInts DEF Good, OnceMatches, RecurringMatches
<1> HIDE DEF r
<1> QED
  BY <1>1, <1>2, <1>3, <1>4

\* A run begins with its count up and no cancellation about.
LEMMA BeginRunStep == ASSUME IInv, NEW s \in Ids, BeginRun(s) PROVE IInv'
<1> DEFINE r == Counted(s)
<1>1. /\ r \in Schedules /\ r.status = "running" /\ r.kind \in {"once", "recurring"}
      /\ r.kind = "once" => r.runs = 1
      /\ r.kind = "recurring" /\ r.max_runs # NoLimit => r.runs <= r.max_runs
      /\ thrown[s] = FALSE
  BY CountedRow DEF BeginRun
<1>2. sched' = [sched EXCEPT ![s] = r] /\ task' = [task EXCEPT ![s] = "executing"]
  BY DEF BeginRun
<1>3. thrown' = [thrown EXCEPT ![s] = FALSE]
  BY <1>1, OneFacts DEF BeginRun
<1> HIDE DEF r
<1>4. Good(r, "executing", FALSE)
  BY <1>1 DEF Good, RowMatches, OnceMatches, RecurringMatches
<1> QED
  BY <1>1, <1>2, <1>3, <1>4, OneStep DEF Places

\* An action that awaits nothing begins and ends in one step.
LEMMA RunAtOnceStep == ASSUME IInv, NEW s \in Ids, RunAtOnce(s) PROVE IInv'
<1>1. thrown' = [thrown EXCEPT ![s] = FALSE]
  BY CountedRow, OneFacts DEF RunAtOnce
<1> QED
  BY <1>1, CountedRow, EndsStep DEF RunAtOnce

\* The answer moves the task on, and a cancellation stays with it.
LEMMA AnswerStep == ASSUME IInv, NEW s \in Ids, Answer(s) PROVE IInv'
<1>1. /\ sched[s] \in Schedules /\ thrown[s] \in BOOLEAN
      /\ Good(sched[s], "executing", thrown[s])
  BY OneFacts DEF Answer
<1>2. Good(sched[s], "answered", thrown[s])
  BY <1>1 DEF Good, RowMatches, OnceMatches, RecurringMatches
<1>3. /\ sched' = [sched EXCEPT ![s] = sched[s]] /\ task' = [task EXCEPT ![s] = "answered"]
      /\ thrown' = [thrown EXCEPT ![s] = thrown[s]]
  BY OneFacts DEF Answer
<1>4. "answered" \in Places
  BY DEF Places
<1> QED
  BY <1>1, <1>2, <1>3, <1>4, OneStep

\* A task that goes on keeps what its row says, and has nothing to meet.
LEMMA GoesOnStep == ASSUME IInv, NEW s \in Ids, GoesOn(s) PROVE IInv'
<1>1. /\ sched[s] \in Schedules /\ thrown[s] \in BOOLEAN /\ (thrown[s] => WaitForSwallows)
      /\ Good(sched[s], "answered", thrown[s])
  BY OneFacts DEF GoesOn, Answered
<1>2. Good(sched[s], "executing", FALSE)
  BY <1>1 DEF Good, RowMatches, OnceMatches, RecurringMatches
<1>3. /\ sched' = [sched EXCEPT ![s] = sched[s]] /\ task' = [task EXCEPT ![s] = "executing"]
      /\ thrown' = [thrown EXCEPT ![s] = FALSE]
  BY OneFacts DEF GoesOn
<1>4. "executing" \in Places
  BY DEF Places
<1> QED
  BY <1>1, <1>2, <1>3, <1>4, OneStep

\* A row whose status alone changes, to one that ends it.
EndedRow(s, status) == WithStatus(sched[s], status)

\* A task stops short with a status that says so.
LEMMA StopsStep ==
    ASSUME IInv, NEW s \in Ids, NEW status \in {"cancelled", "failed"},
           task[s] \notin {"none", "done"},
           sched' = [sched EXCEPT ![s].status = status], task' = [task EXCEPT ![s] = "done"],
           thrown' = [thrown EXCEPT ![s] = FALSE]
    PROVE  IInv'
<1> DEFINE r == EndedRow(s, status)
<1>1. sched[s] \in Schedules /\ Good(sched[s], task[s], thrown[s])
  BY OneFacts
<1>2. sched' = [sched EXCEPT ![s] = r]
  <2>1. sched' = [sched EXCEPT ![s] = [sched[s] EXCEPT !.status = status]]
    BY DEF IInv, TypeOK
  <2> QED
    BY <1>1, <2>1 DEF Schedules, EndedRow, WithStatus
<1>3. /\ r \in Schedules /\ r.status = status /\ r.kind = sched[s].kind
      /\ r.max_runs = sched[s].max_runs /\ r.runs = sched[s].runs
  BY <1>1 DEF Schedules, EndedRow, WithStatus
<1>4. Good(r, "done", FALSE)
  BY <1>1, <1>3, OneInts DEF Good, RowMatches, OnceMatches, RecurringMatches
<1> QED
  BY <1>2, <1>3, <1>4, OneStep DEF Places

\* The task goes on with the answer: it ends, or waits for the next run.
LEMMA FinishStep == ASSUME IInv, NEW s \in Ids, Finish(s) PROVE IInv'
<1>1. /\ task[s] = "answered" /\ thrown' = [thrown EXCEPT ![s] = FALSE]
      /\ sched[s] \in Schedules /\ Good(sched[s], task[s], thrown[s])
      /\ Ends(s, sched[s])
  BY OneFacts DEF Finish, Answered
<1>2. /\ sched[s].kind # "none"
      /\ sched[s].kind = "once" => sched[s].runs = 1
      /\ sched[s].kind = "recurring" /\ sched[s].max_runs # NoLimit
           => sched[s].runs <= sched[s].max_runs
  BY <1>1 DEF Good, OnceMatches, RecurringMatches
<1> QED
  BY <1>1, <1>2, EndsStep

\* The marked schedules lose their right to run; those whose task is over
\* have no more to lose.
LEMMA CancelTheseStep ==
    ASSUME IInv, NEW S \in SUBSET Ids,
           \A s \in S : sched[s].status \in {"pending", "running", "failed"},
           CancelThese(S)
    PROVE  IInv'
<1>1. /\ UNCHANGED task
      /\ \A s \in Ids : thrown'[s] = (thrown[s] \/ (s \in S /\ task[s] # "done"))
  BY DEF CancelThese
<1>2. ASSUME NEW s \in Ids
      PROVE  /\ sched'[s] \in Schedules /\ thrown'[s] \in BOOLEAN
             /\ Good(sched'[s], task[s], thrown'[s])
  <2>1. sched[s] \in Schedules /\ thrown[s] \in BOOLEAN /\ Good(sched[s], task[s], thrown[s])
    BY OneFacts
  <2>2. CASE s \in S
    <3>1. sched'[s] = EndedRow(s, "cancelled")
      BY <2>1, <2>2 DEF CancelThese, Schedules, EndedRow, WithStatus
    <3>2. /\ sched'[s] \in Schedules /\ sched'[s].status = "cancelled"
          /\ sched'[s].kind = sched[s].kind /\ sched'[s].max_runs = sched[s].max_runs
          /\ sched'[s].runs = sched[s].runs
      BY <2>1, <3>1 DEF Schedules, EndedRow, WithStatus
    <3>3. (thrown'[s] <=> thrown[s] \/ task[s] # "done") /\ thrown'[s] \in BOOLEAN
      BY <1>1, <2>1, <2>2
    <3>4. Good(sched'[s], task[s], thrown'[s])
      BY <2>1, <2>2, <3>2, <3>3, OneInts DEF Good, RowMatches, OnceMatches, RecurringMatches
    <3> QED
      BY <3>2, <3>3, <3>4
  <2>3. CASE s \notin S
    <3>1. sched'[s] = sched[s] /\ thrown'[s] = thrown[s]
      BY <2>1, <2>3 DEF CancelThese
    <3> QED
      BY <2>1, <3>1
  <2> QED
    BY <2>2, <2>3
<1>3. TypeOK'
  <2>1. sched' \in [Ids -> Schedules] /\ thrown' \in [Ids -> BOOLEAN]
    BY <1>2 DEF CancelThese
  <2> QED
    BY <1>1, <2>1 DEF IInv, TypeOK, Schedules
<1>4. AllGood'
  BY <1>1, <1>2 DEF AllGood, Good, RowMatches, OnceMatches, RecurringMatches
<1> QED
  BY <1>3, <1>4 DEF IInv

---------------------------------------------------------------------------
\* The table and the tasks match in every reachable state.
THEOREM SchedulerSafety == Spec => []IInv
<1>1. IInv /\ [Next]_vars => IInv'
  <2> SUFFICES ASSUME IInv, [Next]_vars PROVE IInv'
    OBVIOUS
  <2>1. ASSUME NEW who \in Initiators \cup {Anyone}, CancelAll(who) PROVE IInv'
    BY <2>1, CancelTheseStep DEF CancelAll, Active
  <2>2. ASSUME NEW s \in Ids, Cancel(s) PROVE IInv'
    BY <2>2, CancelTheseStep DEF Cancel, Active
  <2>3. ASSUME NEW s \in Ids, NEW kind \in {"once", "recurring"},
               NEW limit \in Limits \cup {NoLimit}, Schedule(s, kind, limit)
        PROVE  IInv'
    BY <2>3, ScheduleStep
  <2>4. ASSUME NEW s \in Ids, TimerFires(s) PROVE IInv'
    BY <2>4, TimerFiresStep
  <2>5. ASSUME NEW s \in Ids, Answer(s) PROVE IInv'
    BY <2>5, AnswerStep
  <2>6. ASSUME NEW s \in Ids, Resume(s) PROVE IInv'
    <3>1. CASE Fail(s)
      BY <3>1, StopsStep DEF Fail, Answered
    <3>2. CASE MeetCancellation(s)
      BY <3>2, StopsStep DEF MeetCancellation
    <3> QED
      BY <2>6, <3>1, <3>2, StartStep, BeginRunStep, RunAtOnceStep, GoesOnStep, FinishStep
         DEF Resume
  <2>7. CASE UNCHANGED vars
    BY <2>7 DEF vars, IInv, TypeOK, AllGood, Good, RowMatches, OnceMatches, RecurringMatches
  <2> QED
    BY <2>1, <2>2, <2>3, <2>4, <2>5, <2>6, <2>7 DEF Next
<1> QED
  BY <1>1, InitIInv, PTL DEF Spec

\* Type correctness of the schedule table and the tasks.
THEOREM SchedulerTypeOK == Spec => []TypeOK
<1>1. IInv => TypeOK
  BY DEF IInv
<1> QED
  BY <1>1, SchedulerSafety, PTL

\* An active schedule has a live task, one that is over has none, and one that
\* was cancelled is over, about to hear of it, or inside an action that goes on
\* because wait_for dropped the cancellation.
THEOREM StatusTellsTheTruth == Spec => []StatusMatchesTask
<1>1. IInv => StatusMatchesTask
  BY DEF IInv, AllGood, Good, RowMatches, StatusMatchesTask, Active
<1> QED
  BY <1>1, SchedulerSafety, PTL

\* No schedule runs more often than it was asked to.
THEOREM SchedulesRunAsAsked == Spec => []RunsAsAsked
<1>1. IInv => RunsAsAsked
  <2> SUFFICES ASSUME IInv, NEW s \in Ids
               PROVE  LET asked == IF sched[s].kind = "once" THEN 1 ELSE sched[s].max_runs
                      IN /\ asked # NoLimit => sched[s].runs <= asked
                         /\ sched[s].status = "completed" => sched[s].runs = asked
    BY DEF RunsAsAsked
  <2>1. sched[s] \in Schedules /\ Good(sched[s], task[s], thrown[s])
    BY OneFacts
  <2> QED
    BY <2>1, OneInts DEF Good, RowMatches, OnceMatches, RecurringMatches
<1> QED
  BY <1>1, SchedulerSafety, PTL

---------------------------------------------------------------------------
\* The schedule s is cancelled, has run n times, and its task is over or will
\* meet the CancelledError where it waits.
Doomed(s, n) ==
    /\ sched[s].status = "cancelled" /\ sched[s].runs = n
    /\ \/ task[s] = "done"
       \/ thrown[s] /\ task[s] \in {"created", "asleep", "woken"}

\* No step takes a doomed schedule back.
LEMMA DoomedStaysDoomed ==
    ASSUME IInv, NEW s \in Ids, NEW n \in 0..RunCap, Doomed(s, n), [Next]_vars
    PROVE  Doomed(s, n)'
<1>1. /\ sched[s] \in Schedules /\ thrown[s] \in BOOLEAN /\ sched[s].status = "cancelled"
      /\ sched[s].kind # "none"
      /\ sched \in [Ids -> Schedules] /\ task \in [Ids -> Places] /\ thrown \in [Ids -> BOOLEAN]
  BY OneFacts DEF Doomed, Good, IInv, TypeOK, Schedules, Places
<1>2. ASSUME NEW S \in SUBSET Ids, s \notin S, CancelThese(S)
      PROVE  Doomed(s, n)'
  BY <1>1, <1>2 DEF CancelThese, Doomed
<1>3. ASSUME NEW who \in Initiators \cup {Anyone}, CancelAll(who) PROVE Doomed(s, n)'
  BY <1>1, <1>2, <1>3 DEF CancelAll, Active
<1>4. ASSUME NEW o \in Ids, Cancel(o) PROVE Doomed(s, n)'
  BY <1>1, <1>2, <1>4 DEF Cancel, Active
<1>5. ASSUME NEW o \in Ids, NEW kind \in {"once", "recurring"},
             NEW limit \in Limits \cup {NoLimit}, Schedule(o, kind, limit)
      PROVE  Doomed(s, n)'
  <2>1. o # s
    BY <1>1, <1>5 DEF Schedule, Nothing
  <2> QED
    BY <1>1, <1>5, <2>1 DEF Schedule, Doomed
<1>6. ASSUME NEW o \in Ids, TimerFires(o) \/ Answer(o) PROVE Doomed(s, n)'
  BY <1>1, <1>6 DEF TimerFires, Answer, Doomed
<1>7. ASSUME NEW o \in Ids \ {s}, Resume(o) PROVE Doomed(s, n)'
  BY <1>1, <1>7 DEF Resume, Start, BeginRun, RunAtOnce, Ends, GoesOn, Finish, Fail,
                    MeetCancellation, Waits, Doomed
<1>8. ASSUME Resume(s) PROVE Doomed(s, n)'
  <2>1. Start(s) \/ MeetCancellation(s)
    BY <1>8 DEF Resume, Doomed, BeginRun, RunAtOnce, Awake, GoesOn, Finish, Fail, Answered
  <2>2. task[s] # "done" /\ thrown[s]
    BY <2>1 DEF Doomed, Start, MeetCancellation
  <2>3. sched'[s].status = "cancelled" /\ sched'[s].runs = n
    BY <1>1, <2>1, <2>2 DEF Doomed, Start, MeetCancellation, Schedules
  <2>4. task'[s] = "done"
    BY <1>1, <2>1, <2>2 DEF Start, MeetCancellation
  <2> QED
    BY <2>3, <2>4 DEF Doomed
<1>9. CASE UNCHANGED vars
  BY <1>9 DEF vars, Doomed
<1> QED
  BY <1>3, <1>4, <1>5, <1>6, <1>7, <1>8, <1>9 DEF Next

\* A schedule that is cancelled while its task waits never runs again.
THEOREM CancelledSchedulesDoNotRun == Spec => CancelledAsleepNeverRuns
<1>1. ASSUME NEW s \in Ids, NEW n \in 0..RunCap
      PROVE  Spec => []((sched[s].status = "cancelled" /\ sched[s].runs = n
                           /\ task[s] \in {"created", "asleep", "woken"})
                        => [](sched[s].status = "cancelled" /\ sched[s].runs = n))
  <2>1. IInv /\ sched[s].status = "cancelled" /\ sched[s].runs = n
          /\ task[s] \in {"created", "asleep", "woken"} => Doomed(s, n)
    BY OneFacts DEF Doomed, Good, RowMatches
  <2>2. IInv /\ Doomed(s, n) /\ [Next]_vars => Doomed(s, n)'
    BY DoomedStaysDoomed
  <2>3. Doomed(s, n) => sched[s].status = "cancelled" /\ sched[s].runs = n
    BY DEF Doomed
  <2> QED
    BY <2>1, <2>2, <2>3, SchedulerSafety, PTL DEF Spec
<1> QED
  BY <1>1 DEF CancelledAsleepNeverRuns
===============================================================================
