------------------------------- MODULE CommandPath -------------------------------
(***************************************************************************)
(* A device command from POST /api/commands to its audit trail: the        *)
(* idempotency cache of the API (core/api.py), AdapterRegistry.execute     *)
(* (core/registry.py) and the audit table of the state store.              *)
(*                                                                         *)
(* The handler looks its key up, awaits the audit row, the adapter and the *)
(* second audit row, and only then stores the answer under the key.  The   *)
(* process may crash at any point: the audit table survives it, the cache  *)
(* and the requests under way do not (README "process-local").             *)
(*                                                                         *)
(* Left out: the command.* event, which nobody in the program subscribes   *)
(* to, and the body of a command, which no decision here looks at.         *)
(***************************************************************************)
EXTENDS Integers, FiniteSets

CONSTANTS
    Requests,     \* the requests ever sent, each with a command id of its own
    Keys,         \* idempotency keys
    NoKey,        \* a request without one
    TTL,          \* _IDEMPOTENCY_TTL
    MaxEntries,   \* the 10,000 entries the cache is trimmed to
    MaxTime,      \* bound on the clock
    MaxCrashes    \* bound on the restarts

ASSUME KeysAssumption == NoKey \notin Keys
ASSUME BoundsAssumption ==
    TTL \in Nat /\ MaxEntries \in Nat \ {0} /\ MaxTime \in Nat \ {0} /\ MaxCrashes \in Nat

VARIABLES
    now,      \* time.time()
    live,     \* the connection the requests name is in _connection_to_adapter
    cache,    \* _idempotency_cache: [result, at] or NoEntry
    elders,   \* the dict's order: for each cached key, the keys inserted before it
    req,      \* the requests, with what their handler has done so far and, in gap,
              \* the time since the answer under its key when the cache missed it
    audit,    \* the audit table: the rows of each request's command
    promise,  \* history: when this process last answered under the key
    crashes   \* restarts so far

vars == <<now, live, cache, elders, req, audit, promise, crashes>>

---------------------------------------------------------------------------
Never == 0
NoPromise == -1
NoEntry == [result |-> "none", at |-> Never]
Unsent == [st |-> "unsent", key |-> NoKey, applied |-> FALSE, result |-> "none",
           replayed |-> FALSE, gap |-> NoPromise]
NoRows == [accepted |-> FALSE, outcome |-> "none"]

InHandler == {"accepting", "executing", "recording"}
UnderWay(q) == req[q].st \in InHandler

\* Mutant of Fresh: the last second is left out.
FreshTooShort(k) == k \in Keys /\ cache[k] # NoEntry /\ now - cache[k].at < TTL

\* _idempotency_get: an entry is good for TTL, its last second included.
Fresh(k) == k \in Keys /\ cache[k] # NoEntry /\ now - cache[k].at <= TTL

Cached == {k \in Keys : cache[k] # NoEntry}

\* The order es without the keys in S.
Without(es, S) == [k \in Keys |-> IF k \in S THEN {} ELSE es[k] \ S]

\* History: how long ago this process answered under k.
SincePromise(k) ==
    IF k \in Keys /\ promise[k] # Never THEN now - promise[k] ELSE NoPromise

---------------------------------------------------------------------------
(* The handler's first, unbroken stretch: the cache, then the registry's   *)
(* lookup of the connection.                                               *)

Replay(q, k) ==
    /\ Fresh(k)
    /\ req' = [req EXCEPT ![q] = [@ EXCEPT !.st = "answered", !.key = k,
                                           !.result = cache[k].result, !.replayed = TRUE]]
    /\ UNCHANGED <<cache, elders>>

Begin(q, k) ==
    /\ ~Fresh(k)
    /\ req' = [req EXCEPT ![q] =
         [@ EXCEPT !.st = IF live THEN "accepting" ELSE "refused", !.key = k,
                   !.gap = SincePromise(k)]]
    \* An expired entry is deleted when it is looked up.
    /\ cache' = [j \in Keys |-> IF j = k THEN NoEntry ELSE cache[j]]
    /\ elders' = Without(elders, {k})

Submit(q, k) ==
    /\ req[q].st = "unsent"
    /\ Replay(q, k) \/ Begin(q, k)
    /\ UNCHANGED <<now, live, audit, promise, crashes>>

---------------------------------------------------------------------------
(* AdapterRegistry.execute.                                                *)

\* The command's rows once the one its handler is about to write is in.
RowWritten(q) ==
    [accepted |-> TRUE,
     outcome |-> IF req[q].st = "recording" THEN req[q].result ELSE audit[q].outcome]

\* Mutant of AuditAccepted: the adapter is called without waiting for the row.
AuditAcceptedUnawaited(q) ==
    /\ req[q].st = "accepting"
    /\ req' = [req EXCEPT ![q].st = "executing"]
    /\ UNCHANGED <<now, live, cache, elders, audit, promise, crashes>>

\* The row "command.accepted" is committed before the adapter is called.
AuditAccepted(q) ==
    /\ req[q].st = "accepting"
    /\ req' = [req EXCEPT ![q].st = "executing"]
    /\ audit' = [audit EXCEPT ![q] = RowWritten(q)]
    /\ UNCHANGED <<now, live, cache, elders, promise, crashes>>

\* The device acts, at some time before the adapter answers.
AdapterApplies(q) ==
    /\ req[q].st = "executing" /\ ~req[q].applied
    /\ req' = [req EXCEPT ![q].applied = TRUE]
    /\ UNCHANGED <<now, live, cache, elders, audit, promise, crashes>>

\* An adapter reports success only for what the device did; it may report
\* failure of either.
AdapterAnswers(q) ==
    /\ req[q].st = "executing"
    /\ \E result \in {"failed"} \cup (IF req[q].applied THEN {"succeeded"} ELSE {}) :
         req' = [req EXCEPT ![q].st = "recording", ![q].result = result]
    /\ UNCHANGED <<now, live, cache, elders, audit, promise, crashes>>

\* Mutants of TimesOut: a timeout is taken for a success; it gets a status of
\* its own that nobody knows.
TimesOutSucceeded(q) ==
    /\ req[q].st = "executing"
    /\ req' = [req EXCEPT ![q].st = "recording", ![q].result = "succeeded"]
    /\ UNCHANGED <<now, live, cache, elders, audit, promise, crashes>>
TimesOutUnknown(q) ==
    /\ req[q].st = "executing"
    /\ req' = [req EXCEPT ![q].st = "recording", ![q].result = "unknown"]
    /\ UNCHANGED <<now, live, cache, elders, audit, promise, crashes>>

\* wait_for gives up after EXECUTE_TIMEOUT, whatever the device did.
TimesOut(q) ==
    /\ req[q].st = "executing"
    /\ req' = [req EXCEPT ![q].st = "recording", ![q].result = "failed"]
    /\ UNCHANGED <<now, live, cache, elders, audit, promise, crashes>>

\* The adapter raises, or the audit table cannot be written: the exception
\* leaves execute, the client gets a 400, nothing is cached.  A row whose commit
\* failed stays in the shared connection's transaction, and may be committed by
\* whoever commits next.
Raises(q) ==
    /\ UnderWay(q)
    /\ req' = [req EXCEPT ![q].st = "refused"]
    /\ \E row \in {audit[q], RowWritten(q)} : audit' = [audit EXCEPT ![q] = row]
    /\ UNCHANGED <<now, live, cache, elders, promise, crashes>>

\* A key keeps its place in the dict, a new one goes to its end.
Placed(k) == IF k \in Cached THEN elders ELSE [elders EXCEPT ![k] = Cached]

\* Mutant of CacheSet: only expired entries are ever dropped.
CacheSetNeverEvicts(k, result) ==
    LET stored  == [cache EXCEPT ![k] = [result |-> result, at |-> now]]
        expired == {j \in Cached \cup {k} : now - stored[j].at > TTL}
    IN /\ cache' = [j \in Keys |-> IF j \in expired THEN NoEntry ELSE stored[j]]
       /\ elders' = Without(Placed(k), expired)
       /\ promise' = [promise EXCEPT ![k] = now]

\* _idempotency_set: a cache that has grown too large loses its expired entries
\* and then, if need be, its oldest one.
CacheSet(k, result) ==
    LET stored  == [cache EXCEPT ![k] = [result |-> result, at |-> now]]
        grown   == Cached \cup {k}
        full    == Cardinality(grown) > MaxEntries
        expired == {j \in grown : full /\ now - stored[j].at > TTL}
        kept    == grown \ expired
        oldest  == {j \in kept : Cardinality(kept) > MaxEntries /\ Placed(k)[j] \cap kept = {}}
        dropped == expired \cup oldest
    IN /\ cache' = [j \in Keys |-> IF j \in dropped THEN NoEntry ELSE stored[j]]
       /\ elders' = Without(Placed(k), dropped)
       /\ promise' = [j \in Keys |->
            IF j \in oldest THEN Never ELSE IF j = k THEN now ELSE promise[j]]

\* Mutant of AuditOutcome: a row that cannot be written is ignored.
AuditOutcomeSwallowed(q) ==
    /\ req[q].st = "recording"
    /\ req' = [req EXCEPT ![q].st = "answered"]
    /\ IF req[q].key \in Keys THEN CacheSet(req[q].key, req[q].result)
                              ELSE UNCHANGED <<cache, elders, promise>>
    /\ UNCHANGED <<now, live, audit, crashes>>

\* The row "command.<status>" is committed; from there to the answer the
\* handler does not yield.
AuditOutcome(q) ==
    /\ req[q].st = "recording"
    /\ req' = [req EXCEPT ![q].st = "answered"]
    /\ audit' = [audit EXCEPT ![q] = RowWritten(q)]
    /\ IF req[q].key \in Keys THEN CacheSet(req[q].key, req[q].result)
                              ELSE UNCHANGED <<cache, elders, promise>>
    /\ UNCHANGED <<now, live, crashes>>

---------------------------------------------------------------------------
\* The connection is torn down by another request.
Teardown ==
    /\ live
    /\ live' = FALSE
    /\ UNCHANGED <<now, cache, elders, req, audit, promise, crashes>>

\* The process dies and comes back, with or without the connection.
Crash ==
    /\ crashes < MaxCrashes
    /\ crashes' = crashes + 1
    /\ live' \in BOOLEAN
    /\ cache' = [k \in Keys |-> NoEntry]
    /\ elders' = [k \in Keys |-> {}]
    /\ promise' = [k \in Keys |-> Never]
    /\ req' = [q \in Requests |-> IF UnderWay(q) THEN [req[q] EXCEPT !.st = "lost"] ELSE req[q]]
    /\ UNCHANGED <<now, audit>>

Tick ==
    /\ now < MaxTime
    /\ now' = now + 1
    /\ UNCHANGED <<live, cache, elders, req, audit, promise, crashes>>

---------------------------------------------------------------------------
Init ==
    /\ now = 1
    /\ live = TRUE
    /\ cache = [k \in Keys |-> NoEntry]
    /\ elders = [k \in Keys |-> {}]
    /\ req = [q \in Requests |-> Unsent]
    /\ audit = [q \in Requests |-> NoRows]
    /\ promise = [k \in Keys |-> Never]
    /\ crashes = 0

Next ==
    \/ Tick \/ Teardown \/ Crash
    \/ \E q \in Requests :
        \/ \E k \in Keys \cup {NoKey} : Submit(q, k)
        \/ AuditAccepted(q) \/ AdapterApplies(q) \/ AdapterAnswers(q) \/ TimesOut(q)
        \/ Raises(q) \/ AuditOutcome(q)

Spec == Init /\ [][Next]_vars

---------------------------------------------------------------------------
Time == 1..MaxTime
TimeOrNever == Time \cup {Never}

\* Type invariant of the cache, whose keys have one order (core/api.py:356-377),
\* the handlers' locals and the audit table.
TypeOK ==
    /\ now \in Time /\ live \in BOOLEAN /\ crashes \in 0..MaxCrashes
    /\ cache \in [Keys -> [result : {"none", "succeeded", "failed"}, at : TimeOrNever]]
    /\ elders \in [Keys -> SUBSET Cached] /\ \A k \in Keys \ Cached : elders[k] = {}
    /\ \A j, k \in Cached : j # k => (j \in elders[k] <=> k \notin elders[j])
    /\ \A j, k \in Cached : j \in elders[k] => j # k /\ elders[j] \subseteq elders[k]
    /\ req \in [Requests ->
         [st : {"unsent", "answered", "refused", "lost"} \cup InHandler,
          key : Keys \cup {NoKey}, applied : BOOLEAN,
          result : {"none", "succeeded", "failed"},
          replayed : BOOLEAN, gap : {NoPromise} \cup 0..MaxTime]]
    /\ audit \in [Requests -> [accepted : BOOLEAN, outcome : {"none", "succeeded", "failed"}]]
    /\ promise \in [Keys -> TimeOrNever]

\* Nothing reaches a device that is not already in the audit table, whatever
\* crashes, times out or raises (registry.execute, "Audit: before").
WriteAheadAudit == \A q \in Requests : req[q].applied => audit[q].accepted

\* The audit table and the client never learn of a success that did not happen,
\* and the client hears what the table says.
OutcomeIsTrue ==
    \A q \in Requests :
        /\ audit[q].outcome = "succeeded" => req[q].applied
        /\ audit[q].outcome # "none" => audit[q].accepted
        /\ req[q].st = "answered" /\ ~req[q].replayed => audit[q].outcome = req[q].result

Recorded(k, result) ==
    \E q \in Requests : req[q].key = k /\ result # "none" /\ audit[q].outcome = result

\* An answer under a key, cached or replayed, is the recorded outcome of a
\* request that carried that key, never another's.
ReplayIsRecorded ==
    /\ \A k \in Keys : cache[k] # NoEntry => Recorded(k, cache[k].result)
    /\ \A q \in Requests :
         req[q].st = "answered" /\ req[q].key \in Keys => Recorded(req[q].key, req[q].result)

\* A retry sent after this process answered under its key, within the time to
\* live and with the entry not pushed out by newer ones, is not executed again.
AnsweredKeyNotRerun ==
    \A q \in Requests :
        req[q].gap # NoPromise => req[q].gap > TTL

\* The cache never outgrows its bound: an entry that makes it too large pushes
\* out enough others, expired or not (core/api.py:367-377).
CacheBounded == IsFiniteSet(Cached) /\ Cardinality(Cached) <= MaxEntries
================================================================================
