------------------------------ MODULE AgentGateway ------------------------------
(***************************************************************************)
(* The one path by which an AI agent changes a device: the set_device tool *)
(* (agent/tools.py), the AI safety guard it asks first (agent/safety.py),  *)
(* and the REST endpoints where a human approves or denies a gated         *)
(* operation (core/api.py).                                                *)
(*                                                                         *)
(* Everything runs on one event loop, so a handler is atomic between two   *)
(* awaits.  set_device asks the guard, then awaits the adapter, and only   *)
(* then tells the guard about the write: other callers run in between.     *)
(* Scenes, groups, schedules and resolved intents all reach a device       *)
(* through set_device, so a caller here is any of them.                    *)
(***************************************************************************)
EXTENDS Integers, FiniteSets

CONSTANTS
    Devices,        \* semantic device names the space registry resolves
    Callers,        \* concurrent set_device calls (agents, schedules, scenes, humans)
    ConfIds,        \* confirmation ids that may be minted (uuid4 in the code)
    AiAccess,       \* [Devices -> access level], fixed by the spaces YAML
    SafetyClass,    \* [Devices -> 0..5], the digit of S0..S5
    BlockedCap,     \* devices with a capability of blocked_capabilities
    ConfirmCap,     \* devices with a capability of confirm_capabilities
    Wired,          \* devices whose mapping has a connection_id
    Cooldown,       \* cooldown_seconds
    Window,         \* the 60 s of the rate window
    MaxWrites,      \* max_writes_per_minute
    TTL,            \* confirmation_ttl_seconds
    MaxTime         \* bound on the clock

ASSUME DevicesAssumption == IsFiniteSet(Callers) /\ Wired \subseteq Devices
ASSUME PolicyAssumption ==
    /\ AiAccess \in [Devices -> {"full", "read_only", "confirm_required", "blocked"}]
    /\ SafetyClass \in [Devices -> 0..5]
    /\ BlockedCap \subseteq Devices /\ ConfirmCap \subseteq Devices
ASSUME LimitsAssumption ==
    /\ Cooldown \in Nat /\ Window \in Nat /\ TTL \in Nat
    /\ MaxWrites \in Nat \ {0}
    /\ MaxTime \in Nat /\ MaxTime > Window + Cooldown

VARIABLES
    now,            \* time.monotonic() and time.time(), one clock
    rate,           \* _rate_limits, one RateLimitState per device
    confirmations,  \* _pending_confirmations, and how each id left it
    caller,         \* the set_device call each caller is awaiting
    lastEffect,     \* history: when the device last acted on an agent's write
    recordedEffect  \* history: the latest effect whose write has been recorded

vars == <<now, rate, confirmations, caller, lastEffect, recordedEffect>>

---------------------------------------------------------------------------
(* RateLimitState() starts at 0.0, which on a host that has been up for    *)
(* more than a minute lies outside the window and the cooldown.            *)
Start == Window + Cooldown + 1
Never == 0

FreshRate == [last_write |-> Never, writes_in_window |-> 0, window_start |-> Never]
Unused == [status |-> "unused", device |-> "none", requested_at |-> Never]
Idle == [st |-> "idle", device |-> "none", applied |-> Never, prior |-> Never]

InFlight(d) == {c \in Callers : caller[c].st = "executing" /\ caller[c].device = d}

---------------------------------------------------------------------------
(* AISafetyGuard.check_write: the checks in the order the code makes them. *)

\* Mutant of Refused: the capability list is not consulted.
RefusedByAccessOnly(d) == AiAccess[d] \in {"blocked", "read_only"}

Refused(d) == AiAccess[d] \in {"blocked", "read_only"} \/ d \in BlockedCap

\* Mutant of NeedsHuman: the safety class is not consulted.
NeedsHumanIgnoringClass(d) == AiAccess[d] = "confirm_required" \/ d \in ConfirmCap

NeedsHuman(d) ==
    SafetyClass[d] >= 3 \/ AiAccess[d] = "confirm_required" \/ d \in ConfirmCap

Cooling(d) == now - rate[d].last_write < Cooldown

\* The window restarts at the first check made after it ran out.
Renewed(d) ==
    IF now - rate[d].window_start > Window
    THEN [rate[d] EXCEPT !.window_start = now, !.writes_in_window = 0]
    ELSE rate[d]

\* Mutant of RateLimited: off by one.
RateLimitedLate(d) == Renewed(d).writes_in_window > MaxWrites

RateLimited(d) == Renewed(d).writes_in_window >= MaxWrites

\* The verdicts "CONFIRM: ..." and "ok".  Every other verdict is an error.
AsksHuman(d) == ~Refused(d) /\ NeedsHuman(d)
Ungated(d)   == ~Refused(d) /\ ~NeedsHuman(d)
Allows(d)    == Ungated(d) /\ ~Cooling(d) /\ ~RateLimited(d)

\* check_write writes the window back whenever it gets as far as the window.
RateAfterCheck(d) ==
    IF Ungated(d) /\ ~Cooling(d) THEN [rate EXCEPT ![d] = Renewed(d)] ELSE rate

---------------------------------------------------------------------------
(* AISafetyGuard's confirmations.                                          *)

\* Mutant of Purged: nothing is purged.
PurgedNever == confirmations

\* _purge_expired_confirmations: strictly older than the time to live.
Purged ==
    [i \in ConfIds |->
        IF confirmations[i].status = "pending" /\ now - confirmations[i].requested_at > TTL
        THEN [confirmations[i] EXCEPT !.status = "expired"] ELSE confirmations[i]]

\* approve_confirmation and deny_confirmation: purge first, then pop the id if
\* it is still there.
Answered(i, answer) ==
    [j \in ConfIds |->
        IF j = i /\ Purged[j].status = "pending"
        THEN [Purged[j] EXCEPT !.status = answer] ELSE Purged[j]]

\* request_confirmation with a fresh id; conf is the table before it.
RequestConfirmation(conf, d) ==
    \E i \in ConfIds :
        /\ conf[i] = Unused
        /\ confirmations' =
             [conf EXCEPT ![i] = [status |-> "pending", device |-> d, requested_at |-> now]]

---------------------------------------------------------------------------
(* _tool_set_device up to its first await.                                 *)

Admit(c, d) ==
    caller' = [caller EXCEPT ![c] =
        [st |-> "executing", device |-> d, applied |-> Never, prior |-> recordedEffect[d]]]

StartWrite(c, d, conf) ==
    /\ caller[c].st = "idle"
    /\ rate' = RateAfterCheck(d)
    /\ \/ AsksHuman(d) /\ RequestConfirmation(conf, d) /\ UNCHANGED caller
       \/ Allows(d) /\ d \in Wired /\ confirmations' = conf /\ Admit(c, d)
       \/ /\ ~AsksHuman(d) /\ ~(Allows(d) /\ d \in Wired)
          /\ confirmations' = conf /\ UNCHANGED caller
    /\ UNCHANGED <<now, lastEffect, recordedEffect>>

SetDevice(c, d) == StartWrite(c, d, confirmations)

\* POST /api/agent/confirmations/{id}/approve: purge, pop, then the same
\* set_device call an agent would make.
Approve(c, i) ==
    /\ Purged[i].status = "pending"
    /\ StartWrite(c, confirmations[i].device, Answered(i, "approved"))

\* POST .../deny, and approving or denying an id that is no longer there:
\* only the purge happens.
Deny(i) ==
    /\ confirmations' = Answered(i, "denied")
    /\ UNCHANGED <<now, rate, caller, lastEffect, recordedEffect>>

\* GET /api/agent/confirmations: listing purges.
ListPending ==
    /\ confirmations' = Purged
    /\ UNCHANGED <<now, rate, caller, lastEffect, recordedEffect>>

---------------------------------------------------------------------------
(* While set_device awaits registry.execute.                               *)

\* The device acts on the command, at some time before the answer.
AdapterApplies(c) ==
    /\ caller[c].st = "executing" /\ caller[c].applied = Never
    /\ caller' = [caller EXCEPT ![c].applied = now]
    /\ lastEffect' = [lastEffect EXCEPT ![caller[c].device] = now]
    /\ UNCHANGED <<now, rate, confirmations, recordedEffect>>

\* Mutant of ExecuteReturns: the write is counted but not stamped.
ExecuteReturnsUnstamped(c) ==
    LET d == caller[c].device IN
    /\ caller[c].st = "executing"
    /\ rate' = [rate EXCEPT ![d].writes_in_window = @ + 1]
    /\ recordedEffect' =
         IF caller[c].applied > recordedEffect[d]
         THEN [recordedEffect EXCEPT ![d] = caller[c].applied] ELSE recordedEffect
    /\ caller' = [caller EXCEPT ![c].st = "readback"]
    /\ UNCHANGED <<now, confirmations, lastEffect>>

\* registry.execute returns, with success, with the adapter's failure or with
\* the 30 s timeout's: record_write follows in every case, then the readback.
ExecuteReturns(c) ==
    LET d == caller[c].device IN
    /\ caller[c].st = "executing"
    /\ rate' = [rate EXCEPT ![d].last_write = now, ![d].writes_in_window = @ + 1]
    /\ recordedEffect' =
         IF caller[c].applied > recordedEffect[d]
         THEN [recordedEffect EXCEPT ![d] = caller[c].applied] ELSE recordedEffect
    /\ caller' = [caller EXCEPT ![c].st = "readback"]
    /\ UNCHANGED <<now, confirmations, lastEffect>>

\* The adapter raises, or the task that awaits it is cancelled: set_device
\* unwinds and the guard never hears of the write.
ExecuteRaises(c) ==
    /\ caller[c].st = "executing"
    /\ caller' = [caller EXCEPT ![c] = Idle]
    /\ UNCHANGED <<now, rate, confirmations, lastEffect, recordedEffect>>

\* The readback is over, whether it read the point or failed to.
ReadbackDone(c) ==
    /\ caller[c].st = "readback"
    /\ caller' = [caller EXCEPT ![c] = Idle]
    /\ UNCHANGED <<now, rate, confirmations, lastEffect, recordedEffect>>

Tick ==
    /\ now < MaxTime
    /\ now' = now + 1
    /\ UNCHANGED <<rate, confirmations, caller, lastEffect, recordedEffect>>

---------------------------------------------------------------------------
Init ==
    /\ now = Start
    /\ rate = [d \in Devices |-> FreshRate]
    /\ confirmations = [i \in ConfIds |-> Unused]
    /\ caller = [c \in Callers |-> Idle]
    /\ lastEffect = [d \in Devices |-> Never]
    /\ recordedEffect = [d \in Devices |-> Never]

Operation ==
    \/ ListPending
    \/ \E i \in ConfIds : Deny(i)
    \/ \E c \in Callers :
        \/ \E d \in Devices : SetDevice(c, d)
        \/ \E i \in ConfIds : Approve(c, i)
        \/ AdapterApplies(c) \/ ExecuteReturns(c) \/ ExecuteRaises(c) \/ ReadbackDone(c)

Next == Tick \/ Operation

Spec == Init /\ [][Next]_vars

---------------------------------------------------------------------------
Time == Start..MaxTime
TimeOrNever == Time \cup {Never}

\* Type invariant of the guard's tables and the calls in progress
\* (RateLimitState, the confirmation dict, set_device's locals).
TypeOK ==
    /\ now \in Time
    /\ rate \in [Devices -> [last_write : TimeOrNever, writes_in_window : Nat,
                             window_start : TimeOrNever]]
    /\ confirmations \in [ConfIds ->
         [status : {"unused", "pending", "approved", "denied", "expired"},
          device : Devices \cup {"none"}, requested_at : TimeOrNever]]
    /\ \A i \in ConfIds : confirmations[i].status # "unused" =>
                            confirmations[i].device \in Devices
    /\ caller \in [Callers -> [st : {"idle", "executing", "readback"},
                               device : Devices \cup {"none"},
                               applied : TimeOrNever, prior : TimeOrNever]]
    /\ \A c \in Callers : caller[c].st # "idle" => caller[c].device \in Devices
    /\ lastEffect \in [Devices -> TimeOrNever]
    /\ recordedEffect \in [Devices -> TimeOrNever]

\* What the policy of a device says, apart from the checks the code makes.
FreeToWrite(d) ==
    AiAccess[d] = "full" /\ SafetyClass[d] <= 2 /\ d \notin BlockedCap \cup ConfirmCap
ForAHuman(d) ==
    AiAccess[d] \in {"full", "confirm_required"} /\ d \notin BlockedCap /\ ~FreeToWrite(d)

\* No interleaving of calls, approvals and denials makes an agent's write act
\* on a device whose access level, safety class or capability forbids it or
\* asks for a human first (safety.py, check_write before the await).
GatedNeverWritten == \A d \in Devices : lastEffect[d] # Never => FreeToWrite(d)

\* The calls in flight and the writes recorded in the current window exceed
\* max_writes_per_minute by at most the callers that race past the check: the
\* check and the count are on different sides of an await (tools.py:545-586).
OvershootBounded ==
    \A d \in Devices :
        rate[d].writes_in_window + Cardinality(InFlight(d))
            <= MaxWrites - 1 + Cardinality(Callers)

\* A write that was admitted after an earlier one was recorded reaches the
\* device at least cooldown_seconds after the earlier one did, however long
\* either spent in the adapter.
SequentialCooldown ==
    \A c \in Callers :
        caller[c].st # "idle" /\ caller[c].applied # Never /\ caller[c].prior # Never
            => caller[c].applied - caller[c].prior >= Cooldown

\* A human is asked only about devices that a human may release: never about
\* one whose access or capability is blocked outright, and never about a
\* device that needs no approval.
OnlyGatedAwaitHuman ==
    \A i \in ConfIds : confirmations[i].status # "unused" => ForAHuman(confirmations[i].device)

\* A confirmation is answered once and in time: an approved, denied or expired
\* id never changes again, and an approval finds it within its time to live.
AnsweredOnceInTime ==
    [][\A i \in ConfIds :
        /\ confirmations[i].status \in {"approved", "denied", "expired"}
             => confirmations'[i] = confirmations[i]
        /\ confirmations'[i].status = "approved" /\ confirmations[i].status # "approved"
             => confirmations[i].status = "pending"
                /\ now - confirmations[i].requested_at <= TTL]_vars

---------------------------------------------------------------------------
(* What the documents say and the code does not do.                        *)

\* core/api.py:810 "Approve a pending confirmation and execute the operation."
ApprovalExecutes ==
    [][\A i \in ConfIds :
        confirmations[i].status = "pending" /\ confirmations'[i].status = "approved"
            => \E c \in Callers :
                 caller'[c].st = "executing" /\ caller'[c].device = confirmations[i].device]_vars
================================================================================
