-------------------------- MODULE AgentGateway_proofs --------------------------
(***************************************************************************)
(* The safety guard keeps its promises for any number of devices, callers  *)
(* and confirmations, and any limits: machine-checked by TLAPS.            *)
(***************************************************************************)
EXTENDS AgentGateway, FiniteSetTheorems, TLAPS

USE DevicesAssumption, PolicyAssumption, LimitsAssumption
    DEF DevicesAssumption, PolicyAssumption, LimitsAssumption

---------------------------------------------------------------------------
(* What the guard's operators return.                                      *)

\* The order in which check_write makes its checks comes to exactly the policy.
LEMMA PolicyAgrees ==
    \A d \in Devices : (Ungated(d) <=> FreeToWrite(d)) /\ (AsksHuman(d) <=> ForAHuman(d))
  BY DEF Ungated, AsksHuman, Refused, NeedsHuman, FreeToWrite, ForAHuman

\* A window check never moves the clock of the last write, and leaves at most
\* as many writes in the window as there were.
LEMMA RenewedType ==
    ASSUME TypeOK, NEW d \in Devices
    PROVE  /\ Renewed(d) \in [last_write : TimeOrNever, writes_in_window : Nat,
                              window_start : TimeOrNever]
           /\ Renewed(d).last_write = rate[d].last_write
           /\ Renewed(d).writes_in_window <= rate[d].writes_in_window
<1>1. /\ rate[d] \in [last_write : TimeOrNever, writes_in_window : Nat, window_start : TimeOrNever]
      /\ now \in TimeOrNever
  BY DEF TypeOK, TimeOrNever
<1>2. CASE now - rate[d].window_start > Window
  <2>1. Renewed(d) = [last_write |-> rate[d].last_write, writes_in_window |-> 0,
                      window_start |-> now]
    BY <1>1, <1>2 DEF Renewed
  <2> QED
    BY <1>1, <2>1
<1>3. CASE ~(now - rate[d].window_start > Window)
  <2>1. Renewed(d) = rate[d]
    BY <1>3 DEF Renewed
  <2> QED
    BY <1>1, <2>1
<1> QED
  BY <1>2, <1>3

\* A check keeps the last writes and lowers no window below what it admits: a call
\* it allows finds room for itself.
LEMMA RateAfterCheckType ==
    ASSUME TypeOK, NEW d \in Devices
    PROVE  /\ RateAfterCheck(d) \in [Devices ->
                [last_write : TimeOrNever, writes_in_window : Nat, window_start : TimeOrNever]]
           /\ \A e \in Devices :
                /\ RateAfterCheck(d)[e].last_write = rate[e].last_write
                /\ RateAfterCheck(d)[e].writes_in_window <= rate[e].writes_in_window
           /\ Allows(d) => RateAfterCheck(d)[d].writes_in_window <= MaxWrites - 1
<1>1. rate \in [Devices -> [last_write : TimeOrNever, writes_in_window : Nat,
                            window_start : TimeOrNever]]
  BY DEF TypeOK
<1>2. \A e \in Devices : rate[e].writes_in_window \in Nat
  BY <1>1
<1>3. Allows(d) => RateAfterCheck(d)[d] = Renewed(d) /\ ~(Renewed(d).writes_in_window >= MaxWrites)
  BY <1>1 DEF Allows, RateAfterCheck, RateLimited
<1>4. CASE Ungated(d) /\ ~Cooling(d)
  <2>1. RateAfterCheck(d) = [rate EXCEPT ![d] = Renewed(d)]
    BY <1>4 DEF RateAfterCheck
  <2> QED
    BY <1>1, <1>2, <1>3, <2>1, RenewedType
<1>5. CASE ~(Ungated(d) /\ ~Cooling(d))
  <2>1. RateAfterCheck(d) = rate /\ ~Allows(d)
    BY <1>5 DEF RateAfterCheck, Allows
  <2> QED
    BY <1>1, <1>2, <2>1
<1> QED
  BY <1>4, <1>5

ConfTable ==
    [ConfIds -> [status : {"unused", "pending", "approved", "denied", "expired"},
                 device : Devices \cup {"none"}, requested_at : TimeOrNever]]

Conf == [status : {"unused", "pending", "approved", "denied", "expired"},
         device : Devices \cup {"none"}, requested_at : TimeOrNever]

\* Purging expires pending requests and changes nothing else.
LEMMA PurgedType ==
    ASSUME TypeOK
    PROVE  /\ \A j \in ConfIds : confirmations[j] \in Conf
           /\ Purged \in ConfTable
           /\ \A j \in ConfIds :
                /\ Purged[j] \in Conf
                /\ Purged[j].device = confirmations[j].device
                /\ \/ Purged[j].status = confirmations[j].status
                   \/ confirmations[j].status = "pending" /\ Purged[j].status = "expired"
                /\ confirmations[j].status # "pending" => Purged[j] = confirmations[j]
                /\ Purged[j].status = "pending" =>
                     Purged[j] = confirmations[j] /\ ~(now - confirmations[j].requested_at > TTL)
<1>1. \A j \in ConfIds : confirmations[j] \in Conf
  BY DEF TypeOK, Conf
<1>2. ASSUME NEW j \in ConfIds
      PROVE  /\ Purged[j] \in Conf
             /\ Purged[j].device = confirmations[j].device
             /\ \/ Purged[j].status = confirmations[j].status
                \/ confirmations[j].status = "pending" /\ Purged[j].status = "expired"
             /\ confirmations[j].status # "pending" => Purged[j] = confirmations[j]
             /\ Purged[j].status = "pending" =>
                  Purged[j] = confirmations[j] /\ ~(now - confirmations[j].requested_at > TTL)
  <2>1. CASE confirmations[j].status = "pending" /\ now - confirmations[j].requested_at > TTL
    <3>1. Purged[j] = [status |-> "expired", device |-> confirmations[j].device,
                       requested_at |-> confirmations[j].requested_at]
      BY <1>1, <2>1 DEF Purged, Conf
    <3> QED
      BY <1>1, <2>1, <3>1 DEF Conf
  <2>2. CASE ~(confirmations[j].status = "pending" /\ now - confirmations[j].requested_at > TTL)
    <3>1. Purged[j] = confirmations[j]
      BY <2>2 DEF Purged
    <3> QED
      BY <1>1, <2>2, <3>1
  <2> QED
    BY <2>1, <2>2
<1>3. Purged \in ConfTable
  BY <1>2 DEF Purged, Conf, ConfTable
<1> QED
  BY <1>1, <1>2, <1>3

\* Answering purges, and moves a request that is still pending to its answer.
LEMMA AnsweredType ==
    ASSUME TypeOK, NEW i \in ConfIds, NEW answer \in {"approved", "denied"}
    PROVE  /\ Answered(i, answer) \in ConfTable
           /\ \A j \in ConfIds :
                /\ Answered(i, answer)[j].device = confirmations[j].device
                /\ Answered(i, answer)[j].status # "unused" => confirmations[j].status # "unused"
                /\ confirmations[j].status # "pending" => Answered(i, answer)[j] = confirmations[j]
                /\ Answered(i, answer)[j].status = answer /\ confirmations[j].status = "pending"
                     => Purged[j].status = "pending"
<1>1. \A j \in ConfIds :
        Answered(i, answer)[j] = IF j = i /\ Purged[j].status = "pending"
                                 THEN [Purged[j] EXCEPT !.status = answer] ELSE Purged[j]
  BY DEF Answered
<1>2. \A j \in ConfIds :
        /\ Answered(i, answer)[j] \in Conf
        /\ Answered(i, answer)[j].device = confirmations[j].device
        /\ Answered(i, answer)[j].status # "unused" => confirmations[j].status # "unused"
        /\ confirmations[j].status # "pending" => Answered(i, answer)[j] = confirmations[j]
        /\ Answered(i, answer)[j].status = answer /\ confirmations[j].status = "pending"
             => Purged[j].status = "pending"
  <2> TAKE j \in ConfIds
  <2>1. CASE j = i /\ Purged[j].status = "pending"
    <3>1. Answered(i, answer)[j] = [status |-> answer, device |-> Purged[j].device,
                                    requested_at |-> Purged[j].requested_at]
      BY PurgedType, <1>1, <2>1 DEF Conf
    <3>2. Purged[j] = confirmations[j] /\ confirmations[j] \in Conf
      BY PurgedType, <2>1
    <3> QED
      BY <2>1, <3>1, <3>2 DEF Conf
  <2>2. CASE ~(j = i /\ Purged[j].status = "pending")
    BY PurgedType, <1>1, <2>2
  <2> QED
    BY <2>1, <2>2
<1>3. Answered(i, answer) \in ConfTable
  BY <1>2 DEF Answered, Conf, ConfTable
<1> QED
  BY <1>2, <1>3

---------------------------------------------------------------------------
(* The inductive invariant.                                                *)

CallerTable ==
    [Callers -> [st : {"idle", "executing", "readback"}, device : Devices \cup {"none"},
                 applied : TimeOrNever, prior : TimeOrNever]]

\* A call under way is on an ungated device.
CallsUngated == \A c \in Callers : caller[c].st # "idle" => Ungated(caller[c].device)

\* The guard's last_write is never older than an effect it has recorded, and
\* nothing lies in the future.
RecordsLag ==
    \A d \in Devices : recordedEffect[d] <= rate[d].last_write /\ rate[d].last_write <= now

\* From its admission on, a call is a cooldown away from what was recorded
\* before it.
AdmittedLate ==
    \A c \in Callers : caller[c].st # "idle" =>
        /\ caller[c].applied <= now
        /\ caller[c].prior # Never => now - caller[c].prior >= Cooldown

IInv ==
    /\ TypeOK
    /\ CallsUngated /\ GatedNeverWritten
    /\ OvershootBounded
    /\ RecordsLag /\ AdmittedLate /\ SequentialCooldown
    /\ OnlyGatedAwaitHuman

\* The calls in flight on a device are some of the callers.
LEMMA InFlightFinite ==
    \A d \in Devices : IsFiniteSet(InFlight(d)) /\ Cardinality(InFlight(d)) \in Nat
                         /\ Cardinality(InFlight(d)) <= Cardinality(Callers)
                         /\ Cardinality(Callers) \in Nat
  BY FS_Subset, FS_CardinalityType DEF InFlight

---------------------------------------------------------------------------
\* The tables start out empty, and so does every flight.
LEMMA InitIInv == Init => IInv
<1> SUFFICES ASSUME Init PROVE IInv
  OBVIOUS
<1>1. \A d \in Devices : InFlight(d) = {}
  BY DEF Init, InFlight, Idle
<1>2. TypeOK
  BY DEF Init, TypeOK, Time, TimeOrNever, Start, Never, FreshRate, Unused, Idle
<1>3. OvershootBounded
  <2>1. Cardinality(Callers) \in Nat /\ Cardinality({}) = 0
    BY FS_EmptySet, FS_CardinalityType
  <2>2. \A d \in Devices : rate[d].writes_in_window = 0 /\ Cardinality(InFlight(d)) = 0
    BY <1>1, <2>1 DEF Init, FreshRate
  <2>3. 0 + 0 <= MaxWrites - 1 + Cardinality(Callers)
    BY <2>1
  <2> QED
    BY <2>2, <2>3 DEF OvershootBounded
<1> QED
  BY <1>2, <1>3 DEF Init, IInv, CallsUngated, GatedNeverWritten, RecordsLag, AdmittedLate,
     SequentialCooldown, OnlyGatedAwaitHuman, FreshRate, Unused, Idle, Never, Start

\* The call set_device makes up to its first await, from any confirmation table
\* whose open requests are for gated devices.
LEMMA StartWriteStep ==
    ASSUME IInv, NEW c \in Callers, NEW d \in Devices, NEW conf \in ConfTable,
           \A i \in ConfIds : conf[i].status # "unused" =>
                conf[i].device \in Devices /\ ForAHuman(conf[i].device),
           StartWrite(c, d, conf)
    PROVE  IInv'
<1> USE DEF IInv
<1>1. /\ caller \in CallerTable
      /\ now \in TimeOrNever /\ now \in Int /\ Never \in TimeOrNever
  <2>1. caller \in CallerTable /\ now \in TimeOrNever /\ Never \in TimeOrNever
    BY DEF TypeOK, CallerTable, TimeOrNever
  <2>2. now \in Int
    BY DEF TypeOK, Time, Start
  <2> QED
    BY <2>1, <2>2
<1>2. /\ rate' \in [Devices -> [last_write : TimeOrNever, writes_in_window : Nat,
                                window_start : TimeOrNever]]
      /\ \A e \in Devices : /\ rate'[e].last_write = rate[e].last_write
                            /\ rate'[e].writes_in_window <= rate[e].writes_in_window
                            /\ rate'[e].writes_in_window \in Nat
                            /\ rate[e].writes_in_window \in Nat
      /\ Allows(d) => rate'[d].writes_in_window <= MaxWrites - 1
  BY RateAfterCheckType DEF StartWrite, TypeOK
<1>3. UNCHANGED <<now, lastEffect, recordedEffect>>
  BY DEF StartWrite
<1>4. /\ confirmations' \in ConfTable /\ OnlyGatedAwaitHuman'
      /\ \A i \in ConfIds : confirmations'[i].status # "unused" =>
                              confirmations'[i].device \in Devices
  <2>1. CASE confirmations' = conf
    BY <2>1 DEF OnlyGatedAwaitHuman, ForAHuman, FreeToWrite
  <2>2. CASE AsksHuman(d) /\ RequestConfirmation(conf, d)
    <3>1. PICK i \in ConfIds : confirmations' =
             [conf EXCEPT ![i] = [status |-> "pending", device |-> d, requested_at |-> now]]
      BY <2>2 DEF RequestConfirmation
    <3> QED
      BY <1>1, <2>2, <3>1, PolicyAgrees DEF ConfTable, OnlyGatedAwaitHuman, ForAHuman,
         FreeToWrite
  <2> QED
    BY <2>1, <2>2 DEF StartWrite
<1>5. CASE UNCHANGED caller
  <2>1. \A e \in Devices : InFlight(e)' = InFlight(e)
    BY <1>5 DEF InFlight
  <2>2. OvershootBounded'
    BY <1>2, <2>1, InFlightFinite DEF OvershootBounded
  <2> QED
    BY <1>2, <1>3, <1>4, <1>5, <2>2 DEF TypeOK, ConfTable, CallsUngated, GatedNeverWritten,
       Ungated, Refused, NeedsHuman, FreeToWrite, RecordsLag, AdmittedLate,
       SequentialCooldown
<1>6. CASE Allows(d) /\ Admit(c, d)
  <2>1. caller' = [caller EXCEPT ![c] =
          [st |-> "executing", device |-> d, applied |-> Never, prior |-> recordedEffect[d]]]
    BY <1>6 DEF Admit
  <2>2. caller' \in CallerTable
    BY <1>1, <2>1 DEF CallerTable, TypeOK
  <2>3. \A b \in Callers \ {c} : caller'[b] = caller[b]
    BY <1>1, <2>1 DEF CallerTable
  <2>4. /\ caller'[c].device = d /\ caller'[c].applied = Never
        /\ caller'[c].prior = recordedEffect[d]
    BY <1>1, <2>1 DEF CallerTable
  <2>5. TypeOK'
    BY <1>2, <1>3, <1>4, <2>2, <2>3, <2>4 DEF TypeOK, ConfTable, CallerTable
  <2>6. OvershootBounded'
    <3> SUFFICES ASSUME NEW e \in Devices
                 PROVE  rate'[e].writes_in_window + Cardinality(InFlight(e)')
                          <= MaxWrites - 1 + Cardinality(Callers)
      BY DEF OvershootBounded
    <3>1. CASE e = d
      <4>1. InFlight(e)' \subseteq Callers
        BY DEF InFlight
      <4>2. /\ Cardinality(InFlight(e)') \in Nat /\ Cardinality(Callers) \in Nat
            /\ Cardinality(InFlight(e)') <= Cardinality(Callers)
        BY <4>1, FS_Subset, FS_CardinalityType
      <4> QED
        BY <1>2, <1>6, <3>1, <4>2
    <3>2. CASE e # d
      <4>1. InFlight(e)' = InFlight(e)
        BY <1>6, <2>3, <2>4, <3>2 DEF InFlight, StartWrite
      <4> QED
        BY <1>2, <4>1, InFlightFinite DEF OvershootBounded
    <3> QED
      BY <3>1, <3>2
  <2>7. CallsUngated' /\ GatedNeverWritten'
    BY <1>3, <1>6, <2>3, <2>4 DEF CallsUngated, GatedNeverWritten, Allows, Ungated, Refused,
       NeedsHuman, FreeToWrite
  <2>8. RecordsLag'
    BY <1>2, <1>3 DEF RecordsLag
  <2>9. AdmittedLate' /\ SequentialCooldown'
    <3>1. now - recordedEffect[d] >= Cooldown
      <4>1. /\ now \in Int /\ recordedEffect[d] \in Int /\ rate[d].last_write \in Int
            /\ recordedEffect[d] <= rate[d].last_write
        BY DEF TypeOK, Time, TimeOrNever, Start, Never, RecordsLag
      <4> QED
        BY <1>6, <4>1 DEF Allows, Cooling
    <3>2. Never <= now
      BY DEF TypeOK, Time, Start, Never
    <3> QED
      BY <1>3, <2>3, <2>4, <3>1, <3>2 DEF AdmittedLate, SequentialCooldown
  <2> QED
    BY <1>4, <2>5, <2>6, <2>7, <2>8, <2>9
<1> QED
  BY <1>5, <1>6 DEF StartWrite

---------------------------------------------------------------------------
\* A set_device call starts from the confirmation table as it is.
LEMMA SetDeviceStep ==
    ASSUME IInv, NEW c \in Callers, NEW d \in Devices, SetDevice(c, d)
    PROVE  IInv'
<1>1. confirmations \in ConfTable
  BY DEF IInv, TypeOK, ConfTable
<1> QED
  BY <1>1, StartWriteStep DEF SetDevice, IInv, TypeOK, OnlyGatedAwaitHuman

\* An approval starts the call of a request that was open, so for a device a human
\* may release.
LEMMA ApproveStep ==
    ASSUME IInv, NEW c \in Callers, NEW i \in ConfIds, Approve(c, i)
    PROVE  IInv'
<1> DEFINE d == confirmations[i].device
           conf == Answered(i, "approved")
<1>1. /\ conf \in ConfTable
      /\ \A j \in ConfIds : conf[j].device = confirmations[j].device
      /\ \A j \in ConfIds : conf[j].status # "unused" => confirmations[j].status # "unused"
      /\ Purged[i].status = confirmations[i].status \/ Purged[i].status = "expired"
  BY AnsweredType, PurgedType DEF IInv
<1>2. confirmations[i].status = "pending"
  BY <1>1 DEF Approve
<1>3. \A j \in ConfIds : conf[j].status # "unused" =>
        conf[j].device \in Devices /\ ForAHuman(conf[j].device)
  BY <1>1 DEF IInv, TypeOK, OnlyGatedAwaitHuman
<1>4. d \in Devices
  BY <1>2 DEF IInv, TypeOK
<1> QED
  BY <1>1, <1>3, <1>4, StartWriteStep DEF Approve

\* Denying and listing touch the confirmation table alone, and open nothing.
LEMMA TableStep ==
    ASSUME IInv, NEW conf \in ConfTable,
           \A i \in ConfIds : /\ conf[i].device = confirmations[i].device
                              /\ conf[i].status # "unused" => confirmations[i].status # "unused",
           confirmations' = conf,
           UNCHANGED <<now, rate, caller, lastEffect, recordedEffect>>
    PROVE  IInv'
<1>1. TypeOK' /\ OnlyGatedAwaitHuman'
  BY DEF IInv, TypeOK, ConfTable, OnlyGatedAwaitHuman, ForAHuman,
     FreeToWrite
<1>2. OvershootBounded'
  BY DEF IInv, OvershootBounded, InFlight
<1>3. CallsUngated' /\ GatedNeverWritten' /\ RecordsLag' /\ AdmittedLate' /\ SequentialCooldown'
  BY DEF IInv, CallsUngated, GatedNeverWritten, RecordsLag, AdmittedLate, SequentialCooldown,
     Ungated, Refused, NeedsHuman, FreeToWrite, ForAHuman
<1> QED
  BY <1>1, <1>2, <1>3 DEF IInv

\* POST .../deny keeps the invariant.
LEMMA DenyStep == ASSUME IInv, NEW i \in ConfIds, Deny(i) PROVE IInv'
  BY AnsweredType, TableStep DEF IInv, Deny

\* GET .../confirmations keeps the invariant.
LEMMA ListPendingStep == ASSUME IInv, ListPending PROVE IInv'
<1>1. /\ Purged \in ConfTable
      /\ \A j \in ConfIds :
           /\ Purged[j].device = confirmations[j].device
           /\ Purged[j].status # "unused" => confirmations[j].status # "unused"
  BY PurgedType DEF IInv
<1> QED
  BY <1>1, TableStep DEF ListPending

---------------------------------------------------------------------------
(* The steps of a call that is under way, and the clock's.                 *)

\* Times are integers, and the clock is past the value that stands for never.
LEMMA TimeFacts ==
    ASSUME TypeOK
    PROVE  /\ now \in Int /\ now \in TimeOrNever /\ Never \in TimeOrNever /\ now > Never
           /\ \A t \in TimeOrNever : t \in Int
  BY DEF TypeOK, Time, TimeOrNever, Start, Never

\* The device acts for a call that is in flight, a cooldown after what its
\* admission knew of.
LEMMA AdapterAppliesStep ==
    ASSUME IInv, NEW c \in Callers, AdapterApplies(c)
    PROVE  IInv'
<1> USE DEF IInv
<1> DEFINE d == caller[c].device
<1>1. /\ caller[c].st = "executing" /\ d \in Devices /\ Ungated(d)
      /\ caller' = [caller EXCEPT ![c].applied = now]
      /\ lastEffect' = [lastEffect EXCEPT ![d] = now]
      /\ UNCHANGED <<now, rate, confirmations, recordedEffect>>
  BY DEF AdapterApplies, TypeOK, CallsUngated
<1>2. caller \in CallerTable
  BY DEF TypeOK, CallerTable
<1>3. /\ caller' \in CallerTable
      /\ \A b \in Callers : /\ caller'[b].st = caller[b].st
                            /\ caller'[b].device = caller[b].device
                            /\ caller'[b].prior = caller[b].prior
                            /\ b # c => caller'[b].applied = caller[b].applied
      /\ caller'[c].applied = now
  BY <1>1, <1>2, TimeFacts DEF CallerTable
<1>4. TypeOK'
  <2>1. lastEffect' \in [Devices -> TimeOrNever]
    BY <1>1, TimeFacts DEF TypeOK
  <2> QED
    BY <1>1, <1>3, <2>1 DEF TypeOK, CallerTable
<1>5. OvershootBounded'
  <2>1. \A e \in Devices : InFlight(e)' = InFlight(e)
    BY <1>3 DEF InFlight
  <2> QED
    BY <1>1, <2>1 DEF OvershootBounded
<1>6. CallsUngated' /\ GatedNeverWritten'
  BY <1>1, <1>3 DEF CallsUngated, GatedNeverWritten, Ungated, Refused, NeedsHuman,
     FreeToWrite, TypeOK
<1>7. AdmittedLate' /\ SequentialCooldown' /\ RecordsLag'
  BY <1>1, <1>3, TimeFacts DEF AdmittedLate, SequentialCooldown, RecordsLag
<1>8. OnlyGatedAwaitHuman'
  BY <1>1 DEF OnlyGatedAwaitHuman, ForAHuman, FreeToWrite
<1> QED
  BY <1>4, <1>5, <1>6, <1>7, <1>8

\* A call that leaves the state "executing" frees the place it held.
LEMMA LeavesFlight ==
    ASSUME IInv, NEW c \in Callers, caller[c].st = "executing", caller'[c].st # "executing",
           \A b \in Callers \ {c} : caller'[b] = caller[b]
    PROVE  \A e \in Devices :
             /\ Cardinality(InFlight(e)') \in Nat
             /\ e = caller[c].device => Cardinality(InFlight(e)') = Cardinality(InFlight(e)) - 1
             /\ e # caller[c].device => InFlight(e)' = InFlight(e)
<1> TAKE e \in Devices
<1>1. CASE e = caller[c].device
  <2>1. InFlight(e)' = InFlight(e) \ {c} /\ c \in InFlight(e)
    BY <1>1 DEF InFlight
  <2> QED
    BY <1>1, <2>1, InFlightFinite, FS_RemoveElement, FS_CardinalityType
<1>2. CASE e # caller[c].device
  <2>1. InFlight(e)' = InFlight(e)
    BY <1>2 DEF InFlight
  <2> QED
    BY <1>2, <2>1, InFlightFinite
<1> QED
  BY <1>1, <1>2

\* record_write trades a call in flight for a write in the window.
LEMMA ExecuteReturnsStep ==
    ASSUME IInv, NEW c \in Callers, ExecuteReturns(c)
    PROVE  IInv'
<1> USE DEF IInv
<1> DEFINE d == caller[c].device
<1>1. /\ caller[c].st = "executing" /\ d \in Devices
      /\ caller' = [caller EXCEPT ![c].st = "readback"]
      /\ UNCHANGED <<now, confirmations, lastEffect>>
  BY DEF ExecuteReturns, TypeOK
<1>2. /\ rate' \in [Devices -> [last_write : TimeOrNever, writes_in_window : Nat,
                                window_start : TimeOrNever]]
      /\ rate'[d].last_write = now
      /\ rate'[d].writes_in_window = rate[d].writes_in_window + 1
      /\ \A e \in Devices \ {d} : rate'[e] = rate[e]
      /\ \A e \in Devices : rate[e].writes_in_window \in Nat
  <2>1. rate' = [rate EXCEPT ![d] =
          [last_write |-> now, writes_in_window |-> rate[d].writes_in_window + 1,
           window_start |-> rate[d].window_start]]
    BY <1>1 DEF ExecuteReturns, TypeOK
  <2> QED
    BY <1>1, <2>1, TimeFacts DEF TypeOK
<1>3. /\ recordedEffect' \in [Devices -> TimeOrNever]
      /\ recordedEffect'[d] \in {recordedEffect[d], caller[c].applied}
      /\ \A e \in Devices \ {d} : recordedEffect'[e] = recordedEffect[e]
  BY <1>1 DEF ExecuteReturns, TypeOK
<1>4. /\ caller' \in CallerTable
      /\ \A b \in Callers \ {c} : caller'[b] = caller[b]
      /\ caller'[c].st = "readback"
      /\ \A b \in Callers : /\ caller'[b].device = caller[b].device
                            /\ caller'[b].prior = caller[b].prior
                            /\ caller'[b].applied = caller[b].applied
                            /\ caller'[b].st # "idle" <=> caller[b].st # "idle"
  BY <1>1 DEF TypeOK, CallerTable
<1>5. TypeOK'
  BY <1>1, <1>2, <1>3, <1>4 DEF TypeOK, CallerTable
<1>6. OvershootBounded'
  <2> SUFFICES ASSUME NEW e \in Devices
               PROVE  rate'[e].writes_in_window + Cardinality(InFlight(e)')
                        <= MaxWrites - 1 + Cardinality(Callers)
    BY DEF OvershootBounded
  <2>1. CASE e = d
    BY <1>1, <1>2, <1>4, <2>1, LeavesFlight, InFlightFinite DEF OvershootBounded
  <2>2. CASE e # d
    BY <1>1, <1>2, <1>4, <2>2, LeavesFlight, InFlightFinite DEF OvershootBounded
  <2> QED
    BY <2>1, <2>2
<1>7. RecordsLag'
  <2>1. caller[c].applied <= now
    BY <1>1 DEF AdmittedLate
  <2> QED
    BY <1>1, <1>2, <1>3, <2>1, TimeFacts DEF RecordsLag, TypeOK
<1>8. CallsUngated' /\ GatedNeverWritten' /\ AdmittedLate' /\ SequentialCooldown'
  BY <1>1, <1>4 DEF CallsUngated, GatedNeverWritten, AdmittedLate, SequentialCooldown, Ungated,
     Refused, NeedsHuman, FreeToWrite, ForAHuman
<1>9. OnlyGatedAwaitHuman'
  BY <1>1 DEF OnlyGatedAwaitHuman, ForAHuman, FreeToWrite
<1> QED
  BY <1>5, <1>6, <1>7, <1>8, <1>9

\* A call that raises, or whose readback is over, leaves the rest alone.
LEMMA BecomesIdleStep ==
    ASSUME IInv, NEW c \in Callers, ExecuteRaises(c) \/ ReadbackDone(c)
    PROVE  IInv'
<1> USE DEF IInv
<1>1. /\ caller' = [caller EXCEPT ![c] = Idle]
      /\ UNCHANGED <<now, rate, confirmations, lastEffect, recordedEffect>>
  BY DEF ExecuteRaises, ReadbackDone
<1>2. /\ caller' \in CallerTable /\ caller'[c].st = "idle"
      /\ \A b \in Callers \ {c} : caller'[b] = caller[b]
  BY <1>1, TimeFacts DEF TypeOK, CallerTable, Idle
<1>3. TypeOK'
  BY <1>1, <1>2 DEF TypeOK, CallerTable
<1>4. OvershootBounded'
  <2> SUFFICES ASSUME NEW e \in Devices
               PROVE  rate[e].writes_in_window + Cardinality(InFlight(e)')
                        <= MaxWrites - 1 + Cardinality(Callers)
    BY <1>1 DEF OvershootBounded
  <2>1. InFlight(e)' \subseteq InFlight(e)
    BY <1>2 DEF InFlight
  <2>2. /\ Cardinality(InFlight(e)') <= Cardinality(InFlight(e))
        /\ Cardinality(InFlight(e)') \in Nat /\ Cardinality(InFlight(e)) \in Nat
    BY <2>1, InFlightFinite, FS_Subset, FS_CardinalityType
  <2>3. rate[e].writes_in_window \in Nat
    BY DEF TypeOK
  <2> QED
    BY <2>2, <2>3, InFlightFinite DEF OvershootBounded
<1>5. CallsUngated' /\ GatedNeverWritten' /\ AdmittedLate' /\ SequentialCooldown' /\ RecordsLag'
  BY <1>1, <1>2 DEF CallsUngated, GatedNeverWritten, AdmittedLate, SequentialCooldown, RecordsLag,
     Ungated, Refused, NeedsHuman, FreeToWrite, ForAHuman
<1>6. OnlyGatedAwaitHuman'
  BY <1>1 DEF OnlyGatedAwaitHuman, ForAHuman, FreeToWrite
<1> QED
  BY <1>3, <1>4, <1>5, <1>6

\* Time only widens the gaps the invariant speaks of.
LEMMA TickStep == ASSUME IInv, Tick PROVE IInv'
<1> USE DEF IInv
<1>1. /\ now' = now + 1 /\ now' \in Time
      /\ UNCHANGED <<rate, confirmations, caller, lastEffect, recordedEffect>>
  BY DEF Tick, TypeOK, Time, Start
<1>2. TypeOK'
  BY <1>1 DEF TypeOK
<1>3. OvershootBounded'
  BY <1>1 DEF OvershootBounded, InFlight
<1>4. RecordsLag' /\ AdmittedLate' /\ SequentialCooldown'
  BY <1>1, TimeFacts DEF TypeOK, RecordsLag, AdmittedLate, SequentialCooldown
<1>5. CallsUngated' /\ GatedNeverWritten' /\ OnlyGatedAwaitHuman'
  BY <1>1 DEF CallsUngated, GatedNeverWritten, OnlyGatedAwaitHuman, Ungated, Refused,
     NeedsHuman, FreeToWrite, ForAHuman
<1> QED
  BY <1>2, <1>3, <1>4, <1>5

\* Nothing changes when nothing happens.
LEMMA StutterStep == ASSUME IInv, UNCHANGED vars PROVE IInv'
  BY DEF IInv, vars, TypeOK, CallsUngated, GatedNeverWritten, OvershootBounded, InFlight,
     RecordsLag, AdmittedLate, SequentialCooldown, OnlyGatedAwaitHuman, Ungated, Refused,
     NeedsHuman, FreeToWrite, ForAHuman

---------------------------------------------------------------------------
(* The invariance theorems.                                                *)

\* The conjunction of the safety properties, with what makes it inductive,
\* holds in every reachable state.
THEOREM GatewaySafety == Spec => []IInv
<1>1. Init => IInv
  BY InitIInv
<1>2. IInv /\ [Next]_vars => IInv'
  <2> SUFFICES ASSUME IInv, [Next]_vars PROVE IInv'
    OBVIOUS
  <2>1. CASE Tick
    BY <2>1, TickStep
  <2>2. CASE ListPending
    BY <2>2, ListPendingStep
  <2>3. CASE \E i \in ConfIds : Deny(i)
    BY <2>3, DenyStep
  <2>4. ASSUME NEW c \in Callers, \E d \in Devices : SetDevice(c, d) PROVE IInv'
    BY <2>4, SetDeviceStep
  <2>5. ASSUME NEW c \in Callers, \E i \in ConfIds : Approve(c, i) PROVE IInv'
    BY <2>5, ApproveStep
  <2>6. ASSUME NEW c \in Callers, AdapterApplies(c) PROVE IInv'
    BY <2>6, AdapterAppliesStep
  <2>7. ASSUME NEW c \in Callers, ExecuteReturns(c) PROVE IInv'
    BY <2>7, ExecuteReturnsStep
  <2>8. ASSUME NEW c \in Callers, ExecuteRaises(c) \/ ReadbackDone(c) PROVE IInv'
    BY <2>8, BecomesIdleStep
  <2>9. CASE UNCHANGED vars
    BY <2>9, StutterStep
  <2> QED
    BY <2>1, <2>2, <2>3, <2>4, <2>5, <2>6, <2>7, <2>8, <2>9 DEF Next, Operation
<1> QED
  BY <1>1, <1>2, PTL DEF Spec

\* Type correctness of the guard's tables and the calls in progress.
THEOREM GatewayTypeOK == Spec => []TypeOK
<1>1. IInv => TypeOK
  BY DEF IInv
<1> QED
  BY <1>1, GatewaySafety, PTL

\* No agent write ever acts on a device that is refused or awaits a human.
THEOREM GatedDevicesStayUnwritten == Spec => []GatedNeverWritten
<1>1. IInv => GatedNeverWritten
  BY DEF IInv
<1> QED
  BY <1>1, GatewaySafety, PTL

\* The rate limit is overshot by at most the callers racing past the check.
THEOREM RateOvershootIsBounded == Spec => []OvershootBounded
<1>1. IInv => OvershootBounded
  BY DEF IInv
<1> QED
  BY <1>1, GatewaySafety, PTL

\* Writes admitted one after the other's record are a cooldown apart.
THEOREM SequentialWritesCoolDown == Spec => []SequentialCooldown
<1>1. IInv => SequentialCooldown
  BY DEF IInv
<1> QED
  BY <1>1, GatewaySafety, PTL

\* Only devices a human may release ever wait for one.
THEOREM HumansSeeOnlyGated == Spec => []OnlyGatedAwaitHuman
<1>1. IInv => OnlyGatedAwaitHuman
  BY DEF IInv
<1> QED
  BY <1>1, GatewaySafety, PTL

---------------------------------------------------------------------------
(* The life of a confirmation.                                             *)

\* What one step may do to a confirmation: leave a settled one alone, and
\* approve only one that is pending and within its time to live.
SettledOnce(i) ==
    /\ confirmations[i].status \in {"approved", "denied", "expired"}
         => confirmations'[i] = confirmations[i]
    /\ confirmations'[i].status = "approved" /\ confirmations[i].status # "approved"
         => confirmations[i].status = "pending" /\ now - confirmations[i].requested_at <= TTL

\* A new request takes an unused id, so it disturbs no settled one and answers none.
LEMMA StartWriteSettles ==
    ASSUME TypeOK, NEW c \in Callers, NEW d, NEW conf \in ConfTable, StartWrite(c, d, conf),
           NEW i \in ConfIds,
           confirmations[i].status # "pending" => conf[i] = confirmations[i],
           conf[i].status = "approved" /\ confirmations[i].status # "approved"
             => confirmations[i].status = "pending" /\ now - confirmations[i].requested_at <= TTL
    PROVE  SettledOnce(i)
<1>1. CASE confirmations' = conf
  BY <1>1 DEF SettledOnce
<1>2. CASE RequestConfirmation(conf, d)
  <2>1. PICK j \in ConfIds :
          /\ conf[j] = Unused
          /\ confirmations' =
               [conf EXCEPT ![j] = [status |-> "pending", device |-> d, requested_at |-> now]]
    BY <1>2 DEF RequestConfirmation
  <2>2. CASE i = j
    <3>1. conf[i].status = "unused" /\ confirmations'[i].status = "pending"
      BY <2>1, <2>2 DEF Unused, ConfTable
    <3> QED
      BY <3>1 DEF SettledOnce
  <2>3. CASE i # j
    <3>1. confirmations'[i] = conf[i]
      BY <2>1, <2>3 DEF ConfTable
    <3> QED
      BY <3>1 DEF SettledOnce
  <2> QED
    BY <2>2, <2>3
<1> QED
  BY <1>1, <1>2 DEF StartWrite

\* Each id is answered at most once, and approved only in time.
THEOREM ConfirmationsAnsweredOnce == Spec => AnsweredOnceInTime
<1>1. TypeOK /\ [Next]_vars => [\A i \in ConfIds : SettledOnce(i)]_vars
  <2> SUFFICES ASSUME TypeOK, Next, NEW i \in ConfIds PROVE SettledOnce(i)
    BY DEF SettledOnce
  <2>1. confirmations \in ConfTable /\ confirmations[i] \in Conf
    BY DEF TypeOK, ConfTable, Conf
  <2>2. /\ now - confirmations[i].requested_at \in Int
        /\ TTL \in Int
    BY <2>1, TimeFacts DEF Conf
  <2>3. CASE UNCHANGED confirmations
    BY <2>3 DEF SettledOnce
  <2>4. ASSUME NEW c \in Callers, NEW d \in Devices, SetDevice(c, d) PROVE SettledOnce(i)
    BY <2>1, <2>4, StartWriteSettles DEF SetDevice
  <2>5. ASSUME NEW c \in Callers, NEW j \in ConfIds, Approve(c, j) PROVE SettledOnce(i)
    <3>1. PICK conf \in ConfTable : conf = Answered(j, "approved")
      BY AnsweredType
    <3>2. confirmations[i].status # "pending" => conf[i] = confirmations[i]
      BY <3>1, AnsweredType
    <3>3. conf[i].status = "approved" /\ confirmations[i].status # "approved"
            => confirmations[i].status = "pending" /\ now - confirmations[i].requested_at <= TTL
      BY <2>2, <3>1, <3>2, AnsweredType, PurgedType
    <3> QED
      BY <2>5, <3>1, <3>2, <3>3, StartWriteSettles DEF Approve
  <2>6. ASSUME NEW j \in ConfIds, Deny(j) PROVE SettledOnce(i)
    <3>1. confirmations'[i] = Answered(j, "denied")[i]
      BY <2>6 DEF Deny
    <3>2. Answered(j, "denied")[i].status # "approved" \/ confirmations[i].status # "pending"
      BY PurgedType DEF Answered
    <3> QED
      BY <3>1, <3>2, AnsweredType DEF SettledOnce
  <2>7. CASE ListPending
    <3>1. confirmations'[i] = Purged[i]
      BY <2>7 DEF ListPending
    <3> QED
      BY <3>1, PurgedType DEF SettledOnce
  <2> QED
    BY <2>3, <2>4, <2>5, <2>6, <2>7 DEF Next, Operation, Tick, AdapterApplies, ExecuteReturns,
       ExecuteRaises, ReadbackDone
<1>2. [\A i \in ConfIds : SettledOnce(i)]_vars
        => [\A i \in ConfIds :
             /\ confirmations[i].status \in {"approved", "denied", "expired"}
                  => confirmations'[i] = confirmations[i]
             /\ confirmations'[i].status = "approved" /\ confirmations[i].status # "approved"
                  => confirmations[i].status = "pending"
                     /\ now - confirmations[i].requested_at <= TTL]_vars
  BY DEF SettledOnce
<1> QED
  BY <1>1, <1>2, GatewayTypeOK, PTL DEF Spec, AnsweredOnceInTime
================================================================================
