-------------------------- MODULE CommandPath_proofs --------------------------
(***************************************************************************)
(* The audit trail and the idempotency cache for any number of requests    *)
(* and keys, any limits and any number of crashes: machine-checked by      *)
(* TLAPS.  What is answered, recorded and run again is proved without a    *)
(* look at the order in which the cache evicts (IInv).  That it is bounded *)
(* rests on the order (CacheInv): a set of keys always has a first one.    *)
(***************************************************************************)
EXTENDS CommandPath, TLAPS, FiniteSetTheorems

USE KeysAssumption, BoundsAssumption DEF KeysAssumption, BoundsAssumption

Result == {"none", "succeeded", "failed"}
Entry == [result : Result, at : TimeOrNever]
Row == [accepted : BOOLEAN, outcome : Result]
Request ==
    [st : {"unsent", "answered", "refused", "lost"} \cup InHandler,
     key : Keys \cup {NoKey}, applied : BOOLEAN, result : Result,
     replayed : BOOLEAN, gap : {NoPromise} \cup 0..MaxTime]

---------------------------------------------------------------------------
(* The inductive invariant.                                                *)

\* TypeOK, apart from the order of the cache and what no proof of IInv needs.
Typed ==
    /\ now \in Time
    /\ cache \in [Keys -> Entry] /\ promise \in [Keys -> TimeOrNever]
    /\ req \in [Requests -> Request] /\ audit \in [Requests -> Row]

\* What a request's handler has done, and what the audit table says it has.
Honest(r, row) ==
    /\ r.st \in {"executing", "recording"} => row.accepted
    /\ r.applied => row.accepted
    /\ r.st = "recording" => r.result # "none"
    /\ r.st = "recording" /\ r.result = "succeeded" => r.applied
    /\ row.outcome = "succeeded" => r.applied
    /\ row.outcome # "none" => row.accepted /\ r.st \in {"answered", "refused", "lost"}
    /\ r.st = "answered" /\ ~r.replayed => row.outcome = r.result

AllHonest == \A q \in Requests : Honest(req[q], audit[q])

\* What was answered under a key is still cached, or out of date.
PromiseCached ==
    \A k \in Keys : promise[k] # Never =>
        /\ promise[k] <= now
        /\ \/ cache[k] # NoEntry /\ cache[k].at = promise[k]
           \/ now - promise[k] > TTL

IInv == Typed /\ AllHonest /\ ReplayIsRecorded /\ PromiseCached /\ AnsweredKeyNotRerun

\* Times are integers, and the clock is past the value that stands for never.
LEMMA TimeFacts ==
    ASSUME Typed
    PROVE  /\ now \in Int /\ now > Never /\ now \in TimeOrNever /\ Never \in TimeOrNever
           /\ \A t \in TimeOrNever : t \in Int /\ t >= 0 /\ t <= MaxTime
  BY DEF Typed, Time, TimeOrNever, Never

\* Before the first request everything is empty.
LEMMA InitIInv == Init => IInv
<1> SUFFICES ASSUME Init PROVE IInv
  OBVIOUS
<1>1. Typed
  BY DEF Init, Typed, Time, TimeOrNever, Never, NoEntry, Unsent, NoRows, Entry, Row, Request,
     Result, NoPromise, InHandler
<1>2. AllHonest
  BY DEF Init, AllHonest, Honest, Unsent, NoRows
<1>3. ReplayIsRecorded /\ PromiseCached /\ AnsweredKeyNotRerun
  BY DEF Init, ReplayIsRecorded, PromiseCached, AnsweredKeyNotRerun, Unsent, NoEntry
<1> QED
  BY <1>1, <1>2, <1>3 DEF IInv

---------------------------------------------------------------------------
(* A handler that goes on.                                                 *)

\* A recorded outcome stays recorded, as long as settled requests keep their
\* key and their row.
LEMMA RecordedStays ==
    ASSUME NEW k, NEW result, Recorded(k, result),
           \A q \in Requests : audit[q].outcome # "none" =>
               req'[q].key = req[q].key /\ audit'[q].outcome = audit[q].outcome
    PROVE  Recorded(k, result)'
  BY DEF Recorded

\* One handler advances to the request r and the audit row row, and the cache
\* is left alone.
LEMMA HandlerStep ==
    ASSUME IInv, NEW q \in Requests, UnderWay(q),
           NEW r \in Request, NEW row \in Row, Honest(r, row),
           r.st # "answered", r.key = req[q].key, r.gap = req[q].gap,
           req' = [req EXCEPT ![q] = r], audit' = [audit EXCEPT ![q] = row],
           UNCHANGED <<now, cache, promise>>
    PROVE  IInv'
<1>1. /\ req'[q] = r /\ audit'[q] = row
      /\ \A p \in Requests \ {q} : req'[p] = req[p] /\ audit'[p] = audit[p]
  BY DEF IInv, Typed
<1>2. Typed' /\ AllHonest' /\ PromiseCached' /\ AnsweredKeyNotRerun'
  BY <1>1 DEF IInv, Typed, AllHonest, Honest, PromiseCached, AnsweredKeyNotRerun
<1>3. audit[q].outcome = "none"
  BY DEF IInv, AllHonest, Honest, UnderWay, InHandler
<1>4. \A p \in Requests : audit[p].outcome # "none" =>
        req'[p].key = req[p].key /\ audit'[p].outcome = audit[p].outcome
  BY <1>1, <1>3
<1>5. ReplayIsRecorded'
  BY <1>1, <1>4, RecordedStays DEF IInv, ReplayIsRecorded
<1> QED
  BY <1>2, <1>5 DEF IInv

\* What a request under way looks like.
LEMMA UnderWayFacts ==
    ASSUME IInv, NEW q \in Requests
    PROVE  /\ req[q] \in Request /\ audit[q] \in Row /\ Honest(req[q], audit[q])
           /\ audit = [audit EXCEPT ![q] = audit[q]]
           /\ RowWritten(q) \in Row /\ RowWritten(q).accepted
           /\ req[q].st = "recording" => RowWritten(q).outcome = req[q].result
           /\ req[q].st # "recording" => RowWritten(q).outcome = audit[q].outcome
  BY DEF IInv, Typed, AllHonest, Row, Request, RowWritten

\* The row that says the command was accepted, before the adapter is called.
LEMMA AuditAcceptedStep ==
    ASSUME IInv, NEW q \in Requests, AuditAccepted(q) PROVE IInv'
<1> DEFINE r == [req[q] EXCEPT !.st = "executing"]
           row == RowWritten(q)
<1>1. /\ req[q].st = "accepting" /\ UnderWay(q)
      /\ req' = [req EXCEPT ![q] = r] /\ audit' = [audit EXCEPT ![q] = row]
      /\ UNCHANGED <<now, cache, promise>>
  BY DEF AuditAccepted, UnderWay, InHandler
<1>2. r \in Request /\ r.st = "executing" /\ r.key = req[q].key /\ r.gap = req[q].gap
  BY UnderWayFacts DEF Request, InHandler
<1>3. Honest(r, row)
  BY <1>1, UnderWayFacts DEF Honest, Request
<1> QED
  BY <1>1, <1>2, <1>3, UnderWayFacts, HandlerStep

\* The device acts for a command that is in the audit table.
LEMMA AdapterAppliesStep ==
    ASSUME IInv, NEW q \in Requests, AdapterApplies(q) PROVE IInv'
<1> DEFINE r == [req[q] EXCEPT !.applied = TRUE]
<1>1. /\ req[q].st = "executing" /\ UnderWay(q)
      /\ req' = [req EXCEPT ![q] = r] /\ audit' = [audit EXCEPT ![q] = audit[q]]
      /\ UNCHANGED <<now, cache, promise>>
  BY UnderWayFacts DEF AdapterApplies, UnderWay, InHandler
<1>2. r \in Request /\ r.st = "executing" /\ r.key = req[q].key /\ r.gap = req[q].gap
  BY <1>1, UnderWayFacts DEF Request
<1>3. Honest(r, audit[q])
  BY <1>1, UnderWayFacts DEF Honest, Request
<1> QED
  BY <1>1, <1>2, <1>3, UnderWayFacts, HandlerStep

\* The adapter's answer, or the timeout's: a success only for what was done.
LEMMA AnswerStep ==
    ASSUME IInv, NEW q \in Requests, AdapterAnswers(q) \/ TimesOut(q) PROVE IInv'
<1>1. PICK result \in {"succeeded", "failed"} :
        /\ result = "succeeded" => req[q].applied
        /\ req' = [req EXCEPT ![q].st = "recording", ![q].result = result]
  BY DEF AdapterAnswers, TimesOut
<1> DEFINE r == [req[q] EXCEPT !.st = "recording", !.result = result]
<1>2. /\ req[q].st = "executing" /\ UnderWay(q)
      /\ audit' = [audit EXCEPT ![q] = audit[q]]
      /\ UNCHANGED <<now, cache, promise>>
  BY UnderWayFacts DEF AdapterAnswers, TimesOut, UnderWay, InHandler
<1>3. req' = [req EXCEPT ![q] = r]
  BY <1>1 DEF IInv, Typed
<1>4. /\ r \in Request /\ r.st = "recording" /\ r.result = result
      /\ r.key = req[q].key /\ r.gap = req[q].gap /\ r.applied = req[q].applied
  BY <1>1, UnderWayFacts DEF Request, Result, InHandler
<1>5. Honest(r, audit[q])
  BY <1>1, <1>2, <1>4, UnderWayFacts DEF Honest
<1> QED
  BY <1>2, <1>3, <1>4, <1>5, UnderWayFacts, HandlerStep

\* An exception, with the row it interrupted written or not.
LEMMA RaisesStep ==
    ASSUME IInv, NEW q \in Requests, Raises(q) PROVE IInv'
<1>1. PICK row \in {audit[q], RowWritten(q)} : audit' = [audit EXCEPT ![q] = row]
  BY DEF Raises
<1> DEFINE r == [req[q] EXCEPT !.st = "refused"]
<1>2. /\ req[q].st \in {"accepting", "executing", "recording"} /\ UnderWay(q)
      /\ req' = [req EXCEPT ![q] = r] /\ UNCHANGED <<now, cache, promise>>
  BY DEF Raises, UnderWay, InHandler
<1>3. /\ r \in Request /\ r.st = "refused" /\ r.applied = req[q].applied
      /\ r.key = req[q].key /\ r.gap = req[q].gap
  BY UnderWayFacts DEF Request
<1>4. row \in Row /\ Honest(r, row)
  BY <1>1, <1>2, <1>3, UnderWayFacts DEF Honest, Row
<1> QED
  BY <1>1, <1>2, <1>3, <1>4, HandlerStep

---------------------------------------------------------------------------
(* A request that arrives.                                                 *)

\* Nothing is written about a request that has not been sent.
LEMMA UnsentFacts ==
    ASSUME IInv, NEW q \in Requests, req[q].st = "unsent"
    PROVE  audit[q].outcome = "none"
  BY DEF IInv, AllHonest, Honest

\* The answer found under the key is the one recorded for it.
LEMMA ReplayStep ==
    ASSUME IInv, NEW q \in Requests, NEW k \in Keys \cup {NoKey}, req[q].st = "unsent",
           Replay(q, k), UNCHANGED <<now, audit, promise>>
    PROVE  IInv'
<1> DEFINE r == [req[q] EXCEPT !.st = "answered", !.key = k, !.result = cache[k].result,
                               !.replayed = TRUE]
<1>1. /\ k \in Keys /\ cache[k] # NoEntry /\ req' = [req EXCEPT ![q] = r] /\ UNCHANGED cache
  BY DEF Replay, Fresh
<1>2. req[q] \in Request /\ cache[k] \in Entry
  BY <1>1 DEF IInv, Typed
<1>3. /\ r \in Request /\ r.st = "answered" /\ r.key = k /\ r.result = cache[k].result
      /\ r.replayed /\ r.applied = req[q].applied /\ r.gap = req[q].gap
  BY <1>2 DEF Request, Entry
<1>4. req'[q] = r /\ \A p \in Requests \ {q} : req'[p] = req[p]
  BY <1>1 DEF IInv, Typed
<1>5. Typed'
  BY <1>1, <1>3 DEF IInv, Typed
<1>6. AllHonest' /\ AnsweredKeyNotRerun'
  <2>1. Honest(r, audit[q])
    BY <1>3, UnsentFacts DEF IInv, AllHonest, Honest
  <2> HIDE DEF r
  <2>2. AllHonest'
    BY <1>4, <2>1 DEF IInv, AllHonest, Honest
  <2>3. AnsweredKeyNotRerun'
    BY <1>3, <1>4 DEF IInv, AnsweredKeyNotRerun
  <2> QED
    BY <2>2, <2>3
<1>7. PromiseCached'
  BY <1>1 DEF IInv, PromiseCached
<1>8. \A p \in Requests : audit[p].outcome # "none" =>
        req'[p].key = req[p].key /\ audit'[p].outcome = audit[p].outcome
  BY <1>4, UnsentFacts
<1>9. Recorded(k, cache[k].result)
  BY <1>1 DEF IInv, ReplayIsRecorded
<1>10. ReplayIsRecorded'
  BY <1>1, <1>3, <1>4, <1>8, <1>9, RecordedStays DEF IInv, ReplayIsRecorded
<1> QED
  BY <1>5, <1>6, <1>7, <1>10 DEF IInv

\* A cache that misses has nothing under the key that is still good: whatever
\* was promised under it is out of date.
LEMMA MissedPromise ==
    ASSUME IInv, NEW k \in Keys \cup {NoKey}, ~Fresh(k)
    PROVE  /\ SincePromise(k) \in {NoPromise} \cup 0..MaxTime
           /\ SincePromise(k) # NoPromise => SincePromise(k) > TTL
           /\ k \in Keys /\ promise[k] # Never => now - promise[k] > TTL /\ promise[k] <= now
<1>1. CASE k \in Keys /\ promise[k] # Never
  <2>1. /\ SincePromise(k) = now - promise[k]
        /\ promise[k] <= now /\ promise[k] \in 0..MaxTime /\ now \in 0..MaxTime
    BY <1>1, TimeFacts DEF SincePromise, IInv, PromiseCached, Typed, Time, TimeOrNever, Never
  <2>2. now - promise[k] > TTL
    BY <1>1, <2>1 DEF IInv, PromiseCached, Fresh
  <2> QED
    BY <2>1, <2>2
<1>2. CASE ~(k \in Keys /\ promise[k] # Never)
  BY <1>2 DEF SincePromise
<1> QED
  BY <1>1, <1>2

\* A request the cache does not answer starts its handler, or is refused for
\* want of a connection, and drops the stale entry.
LEMMA BeginStep ==
    ASSUME IInv, NEW q \in Requests, NEW k \in Keys \cup {NoKey}, req[q].st = "unsent",
           Begin(q, k), UNCHANGED <<now, audit, promise>>
    PROVE  IInv'
<1> DEFINE st == IF live THEN "accepting" ELSE "refused"
           r == [req[q] EXCEPT !.st = st, !.key = k, !.gap = SincePromise(k)]
<1>1. /\ ~Fresh(k) /\ req' = [req EXCEPT ![q] = r]
      /\ cache' = [j \in Keys |-> IF j = k THEN NoEntry ELSE cache[j]]
  BY DEF Begin
<1>2. req[q] \in Request /\ cache \in [Keys -> Entry] /\ NoEntry \in Entry
  BY TimeFacts DEF IInv, Typed, NoEntry, Entry, Result
<1>3. st \in {"accepting", "refused"}
  OBVIOUS
<1>4. /\ r \in Request /\ r.st \in {"accepting", "refused"} /\ r.applied = req[q].applied
      /\ r.gap = SincePromise(k)
  BY <1>1, <1>2, <1>3, MissedPromise DEF Request, InHandler
<1>5. req'[q] = r /\ \A p \in Requests \ {q} : req'[p] = req[p]
  BY <1>1 DEF IInv, Typed
<1>6. Typed'
  BY <1>1, <1>2, <1>4 DEF IInv, Typed
<1>7. AllHonest'
  <2>1. Honest(r, audit[q])
    BY <1>4, UnsentFacts DEF IInv, AllHonest, Honest
  <2> HIDE DEF r
  <2> QED
    BY <1>5, <2>1 DEF IInv, AllHonest, Honest
<1>8. AnsweredKeyNotRerun'
  BY <1>1, <1>4, <1>5, MissedPromise DEF IInv, AnsweredKeyNotRerun
<1>9. PromiseCached'
  <2> SUFFICES ASSUME NEW j \in Keys, promise[j] # Never
               PROVE  /\ promise[j] <= now
                      /\ \/ cache'[j] # NoEntry /\ cache'[j].at = promise[j]
                         \/ now - promise[j] > TTL
    BY DEF PromiseCached
  <2>1. CASE j = k
    BY <1>1, <2>1, MissedPromise
  <2>2. CASE j # k
    BY <1>1, <2>2 DEF IInv, PromiseCached
  <2> QED
    BY <2>1, <2>2
<1>10. \A p \in Requests : audit[p].outcome # "none" =>
         req'[p].key = req[p].key /\ audit'[p].outcome = audit[p].outcome
  BY <1>5, UnsentFacts
<1>11. ReplayIsRecorded'
  BY <1>1, <1>4, <1>5, <1>10, RecordedStays DEF IInv, ReplayIsRecorded
<1> QED
  BY <1>6, <1>7, <1>8, <1>9, <1>11 DEF IInv

---------------------------------------------------------------------------
(* The answer.                                                             *)

\* What is left in the cache once the answer is in: the new entry, unless it
\* is the one pushed out, and old ones that are not out of date.
LEMMA CacheSetFacts ==
    ASSUME IInv, NEW k \in Keys, NEW result \in {"succeeded", "failed"}, CacheSet(k, result)
    PROVE  /\ cache' \in [Keys -> Entry] /\ promise' \in [Keys -> TimeOrNever]
           /\ \A j \in Keys :
                \/ cache'[j] = NoEntry
                \/ j = k /\ cache'[j] = [result |-> result, at |-> now]
                \/ cache'[j] = cache[j]
           /\ \A j \in Keys : promise'[j] # Never =>
                /\ promise'[j] <= now
                /\ \/ cache'[j] # NoEntry /\ cache'[j].at = promise'[j]
                   \/ now - promise'[j] > TTL
<1> DEFINE stored  == [cache EXCEPT ![k] = [result |-> result, at |-> now]]
           grown   == Cached \cup {k}
           full    == Cardinality(grown) > MaxEntries
           expired == {j \in grown : full /\ now - stored[j].at > TTL}
           kept    == grown \ expired
           oldest  == {j \in kept : Cardinality(kept) > MaxEntries /\ Placed(k)[j] \cap kept = {}}
           entry   == [result |-> result, at |-> now]
<1>1. /\ cache' = [j \in Keys |-> IF j \in expired \cup oldest THEN NoEntry ELSE stored[j]]
      /\ promise' = [j \in Keys |->
           IF j \in oldest THEN Never ELSE IF j = k THEN now ELSE promise[j]]
  BY DEF CacheSet
<1>2. /\ cache \in [Keys -> Entry] /\ promise \in [Keys -> TimeOrNever]
      /\ now \in TimeOrNever /\ Never \in TimeOrNever /\ now \in Int
      /\ entry \in Entry /\ NoEntry \in Entry /\ entry # NoEntry
  BY TimeFacts DEF IInv, Typed, NoEntry, Entry, Result
<1>3. stored[k] = entry /\ \A j \in Keys \ {k} : stored[j] = cache[j]
  BY <1>2
<1>4. k \notin expired
  BY <1>2, <1>3
<1>5. \A j \in expired : now - stored[j].at > TTL
  OBVIOUS
<1> HIDE DEF stored, grown, full, expired, kept, oldest
<1>6. \A j \in Keys :
        /\ cache'[j] = IF j \in expired \cup oldest THEN NoEntry ELSE stored[j]
        /\ promise'[j] = IF j \in oldest THEN Never ELSE IF j = k THEN now ELSE promise[j]
  BY <1>1
<1>7. \A j \in Keys : stored[j] \in Entry
  BY <1>2, <1>3
<1>8. cache' \in [Keys -> Entry] /\ promise' \in [Keys -> TimeOrNever]
  BY <1>1, <1>2, <1>7
<1>9. ASSUME NEW j \in Keys, promise'[j] # Never
      PROVE  /\ promise'[j] <= now
             /\ \/ cache'[j] # NoEntry /\ cache'[j].at = promise'[j]
                \/ now - promise'[j] > TTL
  <2>1. CASE j = k
    BY <1>2, <1>3, <1>4, <1>6, <1>9, <2>1
  <2>2. CASE j # k
    <3>1. j \notin oldest /\ promise'[j] = promise[j] /\ stored[j] = cache[j]
      BY <1>3, <1>6, <1>9, <2>2
    <3>2. /\ promise[j] <= now
          /\ \/ cache[j] # NoEntry /\ cache[j].at = promise[j]
             \/ now - promise[j] > TTL
      BY <1>9, <3>1 DEF IInv, PromiseCached
    <3>3. CASE j \in expired
      BY <1>5, <3>1, <3>2, <3>3
    <3>4. CASE j \notin expired
      BY <1>6, <3>1, <3>2, <3>4
    <3> QED
      BY <3>3, <3>4
  <2> QED
    BY <2>1, <2>2
<1>10. \A j \in Keys :
         \/ cache'[j] = NoEntry
         \/ j = k /\ cache'[j] = entry
         \/ cache'[j] = cache[j]
  BY <1>3, <1>6
<1> QED
  BY <1>8, <1>9, <1>10

\* The row is written, then the answer is cached and given.
LEMMA AuditOutcomeStep ==
    ASSUME IInv, NEW q \in Requests, AuditOutcome(q) PROVE IInv'
<1> DEFINE r == [req[q] EXCEPT !.st = "answered"]
           row == RowWritten(q)
           k == req[q].key
<1>1. /\ req[q].st = "recording" /\ UNCHANGED now
      /\ req' = [req EXCEPT ![q] = r] /\ audit' = [audit EXCEPT ![q] = row]
      /\ IF k \in Keys THEN CacheSet(k, req[q].result) ELSE UNCHANGED <<cache, promise>>
  BY DEF AuditOutcome
<1>2. /\ r \in Request /\ r.st = "answered" /\ r.key = k /\ r.gap = req[q].gap
      /\ r.applied = req[q].applied /\ r.result = req[q].result
      /\ req[q].result \in {"succeeded", "failed"}
      /\ row \in Row /\ row.outcome = req[q].result /\ Honest(r, row)
  BY <1>1, UnderWayFacts DEF Honest, Request, Result
<1>3. /\ req'[q] = r /\ audit'[q] = row
      /\ \A p \in Requests \ {q} : req'[p] = req[p] /\ audit'[p] = audit[p]
  BY <1>1 DEF IInv, Typed
<1>4. audit[q].outcome = "none"
  BY <1>1 DEF IInv, AllHonest, Honest
<1>5. /\ cache' \in [Keys -> Entry] /\ promise' \in [Keys -> TimeOrNever]
      /\ PromiseCached'
      /\ \A j \in Keys :
           \/ cache'[j] = NoEntry
           \/ j = k /\ cache'[j] = [result |-> req[q].result, at |-> now]
           \/ cache'[j] = cache[j]
  <2>1. CASE k \in Keys
    BY <1>1, <1>2, <2>1, CacheSetFacts DEF PromiseCached
  <2>2. CASE k \notin Keys
    BY <1>1, <2>2 DEF IInv, Typed, PromiseCached
  <2> QED
    BY <2>1, <2>2
<1>6. Typed'
  BY <1>1, <1>2, <1>5 DEF IInv, Typed
<1>7. AllHonest' /\ AnsweredKeyNotRerun'
  <2> HIDE DEF r, row
  <2>1. AllHonest'
    BY <1>2, <1>3 DEF IInv, AllHonest, Honest
  <2>2. AnsweredKeyNotRerun'
    BY <1>1, <1>2, <1>3 DEF IInv, AnsweredKeyNotRerun
  <2> QED
    BY <2>1, <2>2
<1>8. ReplayIsRecorded'
  <2>1. \A p \in Requests : audit[p].outcome # "none" =>
          req'[p].key = req[p].key /\ audit'[p].outcome = audit[p].outcome
    BY <1>3, <1>4
  <2>2. ASSUME NEW j \in Keys, cache'[j] # NoEntry PROVE Recorded(j, cache[j].result)'
    <3>1. CASE j = k /\ cache'[j] = [result |-> req[q].result, at |-> now]
      <4>1. /\ req'[q].key = j /\ cache'[j].result # "none"
            /\ audit'[q].outcome = cache'[j].result
        BY <1>2, <1>3, <3>1
      <4> QED
        BY <4>1 DEF Recorded
    <3>2. CASE cache'[j] = cache[j]
      <4>1. Recorded(j, cache[j].result)
        BY <2>2, <3>2 DEF IInv, ReplayIsRecorded
      <4> QED
        BY <2>1, <3>2, <4>1 DEF Recorded
    <3> QED
      BY <1>5, <2>2, <3>1, <3>2
  <2>3. ASSUME NEW p \in Requests, req'[p].st = "answered", req'[p].key \in Keys
        PROVE  Recorded(req[p].key, req[p].result)'
    <3>1. CASE p = q
      <4>1. req'[q].result # "none" /\ audit'[q].outcome = req'[q].result
        BY <1>2, <1>3
      <4> QED
        BY <3>1, <4>1 DEF Recorded
    <3>2. CASE p # q
      <4>1. req'[p] = req[p]
        BY <1>3, <3>2
      <4>2. Recorded(req[p].key, req[p].result)
        BY <2>3, <4>1 DEF IInv, ReplayIsRecorded
      <4> QED
        BY <2>1, <4>1, <4>2 DEF Recorded
    <3> QED
      BY <3>1, <3>2
  <2> QED
    BY <2>2, <2>3 DEF ReplayIsRecorded
<1> QED
  BY <1>5, <1>6, <1>7, <1>8 DEF IInv

---------------------------------------------------------------------------
(* The world around the handlers.                                          *)

\* A crash empties the cache, and with it every promise; the rows stay.
LEMMA CrashStep == ASSUME IInv, Crash PROVE IInv'
<1>1. /\ UNCHANGED <<now, audit>>
      /\ cache' = [k \in Keys |-> NoEntry] /\ promise' = [k \in Keys |-> Never]
      /\ req' = [q \in Requests |->
           IF UnderWay(q) THEN [req[q] EXCEPT !.st = "lost"] ELSE req[q]]
  BY DEF Crash
<1>2. ASSUME NEW q \in Requests
      PROVE  /\ req'[q] \in Request /\ Honest(req'[q], audit[q])
             /\ req'[q].key = req[q].key /\ req'[q].gap = req[q].gap
             /\ req'[q].result = req[q].result
             /\ req'[q].st = "answered" => req[q].st = "answered"
  <2>1. CASE UnderWay(q)
    <3>1. req'[q] = [req[q] EXCEPT !.st = "lost"]
      BY <1>1, <2>1
    <3> QED
      BY <3>1, UnderWayFacts DEF Request, Honest
  <2>2. CASE ~UnderWay(q)
    BY <1>1, <2>2, UnderWayFacts
  <2> QED
    BY <2>1, <2>2
<1>3. Typed'
  <2>1. NoEntry \in Entry /\ Never \in TimeOrNever
    BY TimeFacts DEF IInv, NoEntry, Entry, Result
  <2>2. req' \in [Requests -> Request]
    BY <1>1, <1>2
  <2> QED
    BY <1>1, <2>1, <2>2 DEF IInv, Typed
<1>4. AllHonest' /\ AnsweredKeyNotRerun'
  BY <1>1, <1>2 DEF IInv, AllHonest, Honest, AnsweredKeyNotRerun
<1>5. PromiseCached'
  BY <1>1 DEF PromiseCached
<1>6. ReplayIsRecorded'
  BY <1>1, <1>2, RecordedStays DEF IInv, ReplayIsRecorded
<1> QED
  BY <1>3, <1>4, <1>5, <1>6 DEF IInv

\* Time takes promises out of date, and nothing else.
LEMMA TickStep == ASSUME IInv, Tick PROVE IInv'
<1>1. /\ now' = now + 1 /\ now' \in Time
      /\ UNCHANGED <<cache, req, audit, promise>>
  BY DEF Tick, IInv, Typed, Time
<1>2. PromiseCached'
  BY <1>1, TimeFacts DEF IInv, Typed, PromiseCached
<1> QED
  BY <1>1, <1>2 DEF IInv, Typed, AllHonest, Honest, ReplayIsRecorded, Recorded, AnsweredKeyNotRerun

\* No other change touches what the invariant speaks of.
LEMMA ElsewhereStep ==
    ASSUME IInv, UNCHANGED <<now, cache, req, audit, promise>> PROVE IInv'
  BY DEF IInv, Typed, AllHonest, Honest, ReplayIsRecorded, Recorded, PromiseCached,
     AnsweredKeyNotRerun

---------------------------------------------------------------------------
\* The audit table, the cache and the handlers agree in every reachable state.
THEOREM CommandSafety == Spec => []IInv
<1>1. IInv /\ [Next]_vars => IInv'
  <2> SUFFICES ASSUME IInv, [Next]_vars PROVE IInv'
    OBVIOUS
  <2>1. CASE Tick
    BY <2>1, TickStep
  <2>2. CASE Teardown
    BY <2>2, ElsewhereStep DEF Teardown
  <2>3. CASE Crash
    BY <2>3, CrashStep
  <2>4. ASSUME NEW q \in Requests, NEW k \in Keys \cup {NoKey}, Submit(q, k) PROVE IInv'
    BY <2>4, ReplayStep, BeginStep DEF Submit
  <2>5. ASSUME NEW q \in Requests, AuditAccepted(q) PROVE IInv'
    BY <2>5, AuditAcceptedStep
  <2>6. ASSUME NEW q \in Requests, AdapterApplies(q) PROVE IInv'
    BY <2>6, AdapterAppliesStep
  <2>7. ASSUME NEW q \in Requests, AdapterAnswers(q) \/ TimesOut(q) PROVE IInv'
    BY <2>7, AnswerStep
  <2>8. ASSUME NEW q \in Requests, Raises(q) PROVE IInv'
    BY <2>8, RaisesStep
  <2>9. ASSUME NEW q \in Requests, AuditOutcome(q) PROVE IInv'
    BY <2>9, AuditOutcomeStep
  <2>10. CASE UNCHANGED vars
    BY <2>10, ElsewhereStep DEF vars
  <2> QED
    BY <2>1, <2>2, <2>3, <2>4, <2>5, <2>6, <2>7, <2>8, <2>9, <2>10 DEF Next
<1> QED
  BY <1>1, InitIInv, PTL DEF Spec

\* Nothing reaches a device before it is in the audit table.
THEOREM AuditIsWrittenAhead == Spec => []WriteAheadAudit
<1>1. IInv => WriteAheadAudit
  BY DEF IInv, AllHonest, Honest, WriteAheadAudit
<1> QED
  BY <1>1, CommandSafety, PTL

\* No success is recorded or reported that did not happen.
THEOREM OutcomesAreTrue == Spec => []OutcomeIsTrue
<1>1. IInv => OutcomeIsTrue
  BY DEF IInv, AllHonest, Honest, OutcomeIsTrue
<1> QED
  BY <1>1, CommandSafety, PTL

\* Every answer under a key is the recorded outcome of a request with that key.
THEOREM ReplaysAreRecorded == Spec => []ReplayIsRecorded
<1>1. IInv => ReplayIsRecorded
  BY DEF IInv
<1> QED
  BY <1>1, CommandSafety, PTL

\* A key that was answered and not pushed out is not executed again in time.
THEOREM AnsweredKeysAreNotRerun == Spec => []AnsweredKeyNotRerun
<1>1. IInv => AnsweredKeyNotRerun
  BY DEF IInv
<1> QED
  BY <1>1, CommandSafety, PTL

---------------------------------------------------------------------------
(* The order of the cache.                                                 *)

Ordered(set, es) ==
    /\ es \in [Keys -> SUBSET set]
    /\ \A k \in Keys \ set : es[k] = {}
    /\ \A j, k \in set : j # k => (j \in es[k] <=> k \notin es[j])
    /\ \A j, k \in set : j \in es[k] => j # k /\ es[j] \subseteq es[k]

\* A new key goes to the end.
LEMMA OrderGrows ==
    ASSUME NEW set \in SUBSET Keys, NEW es, Ordered(set, es), NEW k \in Keys \ set
    PROVE  Ordered(set \cup {k}, [es EXCEPT ![k] = set])
BY DEF Ordered

\* Keys leave it, and the others stay in order.
LEMMA OrderShrinks ==
    ASSUME NEW set \in SUBSET Keys, NEW es, Ordered(set, es), NEW gone
    PROVE  Ordered(set \ gone, Without(es, gone))
BY DEF Ordered, Without

\* How many of a set of keys come before one of them grows along the order.
LEMMA Standings ==
    ASSUME NEW whole \in SUBSET Keys, NEW es, Ordered(whole, es),
           NEW set \in SUBSET whole, IsFiniteSet(set), NEW k \in set
    PROVE  /\ IsFiniteSet(es[k] \cap set) /\ Cardinality(es[k] \cap set) \in Nat
           /\ Cardinality(es[k] \cap set) < Cardinality(set)
           /\ \A j \in set \cap es[k] : Cardinality(es[j] \cap set) < Cardinality(es[k] \cap set)
<1>1. ASSUME NEW T \in SUBSET set, NEW S \in SUBSET T, S # T
      PROVE  IsFiniteSet(S) /\ Cardinality(S) \in Nat /\ Cardinality(S) < Cardinality(T)
  <2>1. IsFiniteSet(T)
    BY FS_Subset
  <2>2. /\ IsFiniteSet(S) /\ Cardinality(S) <= Cardinality(T)
        /\ Cardinality(T) = Cardinality(S) => T = S
    BY <2>1, FS_Subset
  <2>3. Cardinality(S) \in Nat /\ Cardinality(T) \in Nat
    BY <2>1, <2>2, FS_CardinalityType
  <2> QED
    BY <1>1, <2>2, <2>3
<1>2. k \notin es[k]
  BY DEF Ordered
<1>3. set \in SUBSET set /\ es[k] \cap set \in SUBSET set /\ es[k] \cap set # set
  BY <1>2
<1>4. ASSUME NEW j \in set \cap es[k]
      PROVE  Cardinality(es[j] \cap set) < Cardinality(es[k] \cap set)
  <2>1. es[j] \cap set \in SUBSET (es[k] \cap set) /\ es[j] \cap set # es[k] \cap set
    BY DEF Ordered
  <2> QED
    BY <1>1, <1>3, <2>1
<1>5. /\ IsFiniteSet(es[k] \cap set) /\ Cardinality(es[k] \cap set) \in Nat
      /\ Cardinality(es[k] \cap set) < Cardinality(set)
  BY <1>1, <1>3
<1> QED
  BY <1>4, <1>5

\* A set of keys has a first one: no two have as many before them, so not all
\* can have one.
LEMMA FirstExists ==
    ASSUME NEW whole \in SUBSET Keys, NEW es, Ordered(whole, es),
           NEW set \in SUBSET whole, IsFiniteSet(set), set # {}
    PROVE  \E k \in set : es[k] \cap set = {}
<1> SUFFICES ASSUME \A k \in set : es[k] \cap set # {} PROVE FALSE
  OBVIOUS
<1> DEFINE n == Cardinality(set)
           places == 1..n - 1
           rank == [k \in set |-> Cardinality(es[k] \cap set)]
<1>1. n \in Nat /\ n # 0
  BY FS_CardinalityType, FS_EmptySet
<1>2. \A k \in set : /\ IsFiniteSet(es[k] \cap set) /\ Cardinality(es[k] \cap set) \in Nat
                     /\ Cardinality(es[k] \cap set) < n
                     /\ Cardinality(es[k] \cap set) # 0
  BY Standings, FS_EmptySet
<1>3. rank \in [set -> places]
  <2>1. ASSUME NEW k \in set PROVE Cardinality(es[k] \cap set) \in places
    <3>1. /\ Cardinality(es[k] \cap set) \in Nat /\ Cardinality(es[k] \cap set) < n
          /\ Cardinality(es[k] \cap set) # 0
      BY <1>2
    <3> HIDE DEF n
    <3> QED
      BY <1>1, <3>1
  <2> HIDE DEF places
  <2> QED
    BY <2>1
<1>4. \A j, k \in set : j # k => rank[j] # rank[k]
  <2> TAKE j, k \in set
  <2> HAVE j # k
  <2>1. j \in es[k] \/ k \in es[j]
    BY DEF Ordered
  <2>2. ASSUME NEW x \in set, NEW y \in set, x \in es[y]
        PROVE  Cardinality(es[x] \cap set) < Cardinality(es[y] \cap set)
    BY <2>2, Standings
  <2>3. Cardinality(es[j] \cap set) \in Nat /\ Cardinality(es[k] \cap set) \in Nat
    BY <1>2
  <2>4. Cardinality(es[j] \cap set) # Cardinality(es[k] \cap set)
    <3>1. j \in es[k] => Cardinality(es[j] \cap set) < Cardinality(es[k] \cap set)
      BY <2>2
    <3>2. k \in es[j] => Cardinality(es[k] \cap set) < Cardinality(es[j] \cap set)
      BY <2>2
    <3> QED
      BY <2>1, <2>3, <3>1, <3>2
  <2> QED
    BY <2>4
<1>5. IsFiniteSet(places) /\ Cardinality(places) < n
  <2> HIDE DEF n
  <2>1. 1 \in Int /\ n - 1 \in Int
    BY <1>1
  <2>2. IsFiniteSet(places) /\ Cardinality(places) = IF 1 > n - 1 THEN 0 ELSE (n - 1) - 1 + 1
    BY <2>1, FS_Interval
  <2> QED
    BY <1>1, <2>2
<1> HIDE DEF places, rank
<1>6. \E j, k \in set : j # k /\ rank[j] = rank[k]
  BY <1>3, <1>5, FS_PigeonHole
<1> QED
  BY <1>4, <1>6

---------------------------------------------------------------------------
(* The bound of the cache.                                                 *)

Few(set) == IsFiniteSet(set) /\ Cardinality(set) <= MaxEntries

CacheInv == Ordered(Cached, elders) /\ Few(Cached)

LEMMA FewerAreFew ==
    ASSUME NEW set, Few(set), NEW part \in SUBSET set PROVE Few(part)
<1>1. /\ IsFiniteSet(part) /\ Cardinality(part) <= Cardinality(set)
      /\ Cardinality(part) \in Nat /\ Cardinality(set) \in Nat
  BY FS_Subset, FS_CardinalityType DEF Few
<1> QED
  BY <1>1 DEF Few

\* Entries leave the cache.
LEMMA CacheShrinks ==
    ASSUME CacheInv, NEW gone, elders' = Without(elders, gone), Cached' = Cached \ gone
    PROVE  CacheInv'
<1>1. Cached \in SUBSET Keys /\ Cached \ gone \in SUBSET Cached
  BY DEF Cached
<1>2. Ordered(Cached \ gone, Without(elders, gone)) /\ Few(Cached \ gone)
  BY <1>1, OrderShrinks, FewerAreFew DEF CacheInv
<1> QED
  BY <1>2 DEF CacheInv

\* The answer is cached, and the cache is trimmed.
LEMMA CacheSetBounds ==
    ASSUME Typed, CacheInv, NEW k \in Keys, NEW result \in {"succeeded", "failed"},
           CacheSet(k, result)
    PROVE  CacheInv'
<1> DEFINE stored  == [cache EXCEPT ![k] = [result |-> result, at |-> now]]
           grown   == Cached \cup {k}
           full    == Cardinality(grown) > MaxEntries
           expired == {j \in grown : full /\ now - stored[j].at > TTL}
           kept    == grown \ expired
           es      == Placed(k)
           oldest  == {j \in kept : Cardinality(kept) > MaxEntries /\ es[j] \cap kept = {}}
           dropped == expired \cup oldest
<1>1. /\ cache' = [j \in Keys |-> IF j \in dropped THEN NoEntry ELSE stored[j]]
      /\ elders' = Without(es, dropped)
  BY DEF CacheSet
<1>2. Cached' = grown \ dropped
  <2>1. [result |-> result, at |-> now] # NoEntry
    BY DEF NoEntry
  <2>2. grown \in SUBSET Keys
    BY DEF Cached
  <2>3. \A j \in Keys : stored[j] # NoEntry <=> j \in grown
    BY <2>1 DEF Cached, Typed
  <2> HIDE DEF stored, grown, dropped
  <2> QED
    BY <1>1, <2>2, <2>3 DEF Cached
<1>3. grown \in SUBSET Keys /\ Cached \in SUBSET Keys
  BY DEF Cached
<1>4. Ordered(grown, es)
  <2>1. CASE k \in Cached
    <3>1. grown = Cached /\ es = elders
      BY <2>1 DEF Placed
    <3> HIDE DEF grown, es
    <3> QED
      BY <3>1 DEF CacheInv
  <2>2. CASE k \notin Cached
    <3>1. es = [elders EXCEPT ![k] = Cached]
      BY <2>2 DEF Placed
    <3>2. Ordered(Cached \cup {k}, [elders EXCEPT ![k] = Cached])
      BY <1>3, <2>2, OrderGrows DEF CacheInv
    <3> HIDE DEF es
    <3> QED
      BY <3>1, <3>2
  <2> QED
    BY <2>1, <2>2
<1>5. /\ IsFiniteSet(grown) /\ Cardinality(grown) \in Nat /\ Cardinality(grown) <= MaxEntries + 1
  <2>1. IsFiniteSet(Cached) /\ Cardinality(Cached) <= MaxEntries /\ Cardinality(Cached) \in Nat
    BY FS_CardinalityType DEF CacheInv, Few
  <2>2. /\ IsFiniteSet(grown)
        /\ Cardinality(grown) = IF k \in Cached THEN Cardinality(Cached) ELSE Cardinality(Cached) + 1
    BY <2>1, FS_AddElement
  <2> QED
    BY <2>1, <2>2
<1>6. kept \in SUBSET grown /\ grown \ dropped = kept \ oldest /\ oldest \in SUBSET kept
  OBVIOUS
<1> HIDE DEF stored, grown, full, expired, es
<1>7. IsFiniteSet(kept) /\ Cardinality(kept) \in Nat /\ Cardinality(kept) <= MaxEntries + 1
  <2> HIDE DEF kept
  <2>1. IsFiniteSet(kept) /\ Cardinality(kept) <= Cardinality(grown)
    BY <1>5, <1>6, FS_Subset
  <2>2. Cardinality(kept) \in Nat
    BY <2>1, FS_CardinalityType
  <2> QED
    BY <1>5, <2>1, <2>2
<1>8. Few(kept \ oldest)
  <2>1. CASE Cardinality(kept) <= MaxEntries
    <3>1. Few(kept) /\ kept \ oldest \in SUBSET kept
      BY <1>7, <2>1 DEF Few
    <3> QED
      BY <3>1, FewerAreFew
  <2>2. CASE ~(Cardinality(kept) <= MaxEntries)
    <3>1. Cardinality(kept) > MaxEntries /\ kept # {}
      BY <1>7, <2>2, FS_EmptySet
    <3>2. PICK j \in kept : es[j] \cap kept = {}
      <4> HIDE DEF kept, grown, oldest, dropped
      <4>1. kept \in SUBSET grown /\ IsFiniteSet(kept) /\ kept # {}
        BY <1>6, <1>7, <3>1
      <4> QED
        BY <1>3, <1>4, <4>1, FirstExists
    <3>3. j \in oldest
      BY <3>1, <3>2
    <3> HIDE DEF kept, oldest
    <3>4. IsFiniteSet(kept \ {j}) /\ Cardinality(kept \ {j}) = Cardinality(kept) - 1
      BY <1>7, <3>2, FS_RemoveElement
    <3>5. Few(kept \ {j}) /\ kept \ oldest \in SUBSET (kept \ {j})
      BY <1>7, <3>3, <3>4 DEF Few
    <3> QED
      BY <3>5, FewerAreFew
  <2> QED
    BY <2>1, <2>2
<1>9. Ordered(grown \ dropped, Without(es, dropped))
  <2> HIDE DEF dropped
  <2> QED
    BY <1>3, <1>4, OrderShrinks
<1> HIDE DEF dropped, kept, oldest
<1> QED
  BY <1>1, <1>2, <1>6, <1>8, <1>9 DEF CacheInv

LEMMA CacheStep ==
    ASSUME IInv, CacheInv, [Next]_vars PROVE CacheInv'
<1>0. Typed
  BY DEF IInv
<1>1. ASSUME UNCHANGED <<cache, elders>> PROVE CacheInv'
  BY <1>1 DEF CacheInv, Cached
<1>2. CASE Crash
  <2>1. Cached' = {} /\ elders' = [k \in Keys |-> {}]
    BY <1>2 DEF Crash, Cached
  <2>2. Ordered({}, [k \in Keys |-> {}]) /\ Few({})
    BY FS_EmptySet DEF Ordered, Few
  <2> QED
    BY <2>1, <2>2 DEF CacheInv
<1>3. ASSUME NEW q \in Requests, NEW k \in Keys \cup {NoKey}, Submit(q, k) PROVE CacheInv'
  <2>1. CASE Replay(q, k)
    BY <1>1, <2>1 DEF Replay
  <2>2. CASE Begin(q, k)
    <3>1. elders' = Without(elders, {k}) /\ Cached' = Cached \ {k}
      BY <2>2 DEF Begin, Cached
    <3> QED
      BY <3>1, CacheShrinks
  <2> QED
    BY <1>3, <2>1, <2>2 DEF Submit
<1>4. ASSUME NEW q \in Requests, AuditOutcome(q) PROVE CacheInv'
  <2>1. req[q].result \in {"succeeded", "failed"}
    BY <1>4, UnderWayFacts DEF AuditOutcome, Honest, Request, Result
  <2>2. CASE req[q].key \in Keys
    BY <1>0, <1>4, <2>1, <2>2, CacheSetBounds DEF AuditOutcome
  <2>3. CASE req[q].key \notin Keys
    BY <1>1, <1>4, <2>3 DEF AuditOutcome
  <2> QED
    BY <2>2, <2>3
<1>5. CASE \/ Tick \/ Teardown \/ UNCHANGED vars
           \/ \E q \in Requests : \/ AuditAccepted(q) \/ AdapterApplies(q) \/ AdapterAnswers(q)
                                  \/ TimesOut(q) \/ Raises(q)
  BY <1>1, <1>5 DEF Tick, Teardown, vars, AuditAccepted, AdapterApplies, AdapterAnswers,
                    TimesOut, Raises
<1> QED
  BY <1>2, <1>3, <1>4, <1>5 DEF Next

\* What surrounds the handlers.
Around == live \in BOOLEAN /\ crashes \in 0..MaxCrashes

LEMMA AroundStep == Around /\ [Next]_vars => Around'
<1> SUFFICES ASSUME Around, [Next]_vars PROVE Around'
  OBVIOUS
<1>1. CASE Crash
  BY <1>1 DEF Around, Crash
<1>2. CASE Teardown
  BY <1>2 DEF Around, Teardown
<1>3. CASE UNCHANGED <<live, crashes>>
  BY <1>3 DEF Around
<1>4. CASE Tick \/ UNCHANGED vars
  BY <1>3, <1>4 DEF Tick, vars
<1>5. ASSUME NEW q \in Requests, NEW k \in Keys \cup {NoKey}, Submit(q, k) PROVE Around'
  BY <1>3, <1>5 DEF Submit
<1>6. ASSUME NEW q \in Requests,
             \/ AuditAccepted(q) \/ AdapterApplies(q) \/ AdapterAnswers(q)
             \/ TimesOut(q) \/ Raises(q) \/ AuditOutcome(q)
      PROVE  Around'
  BY <1>3, <1>6 DEF AuditAccepted, AdapterApplies, AdapterAnswers, TimesOut, Raises, AuditOutcome
<1> QED
  BY <1>1, <1>2, <1>4, <1>5, <1>6 DEF Next

LEMMA CacheSafety == Spec => [](IInv /\ CacheInv /\ Around)
<1>1. Init => CacheInv /\ Around
  <2> SUFFICES ASSUME Init PROVE CacheInv /\ Around
    OBVIOUS
  <2>1. Cached = {} /\ elders = [k \in Keys |-> {}]
    BY DEF Init, Cached
  <2>2. Ordered({}, [k \in Keys |-> {}]) /\ Few({})
    BY FS_EmptySet DEF Ordered, Few
  <2>3. Around
    BY DEF Init, Around
  <2> QED
    BY <2>1, <2>2, <2>3 DEF CacheInv
<1>2. IInv /\ CacheInv /\ [Next]_vars => CacheInv'
  BY CacheStep
<1> QED
  BY <1>1, <1>2, AroundStep, CommandSafety, PTL DEF Spec

\* However many requests come and whatever expires, the cache never holds more
\* entries than its bound, and has a first one to push out when it must
\* (core/api.py:367-377).
THEOREM CacheIsBounded == Spec => []CacheBounded
<1>1. CacheInv => CacheBounded
  BY DEF CacheInv, Few, CacheBounded
<1> QED
  BY <1>1, CacheSafety, PTL

\* The cache has one order, on exactly the keys it holds, through every expiry,
\* eviction, answer and crash (core/api.py:356-377).
THEOREM CommandPathIsTyped == Spec => []TypeOK
<1>1. IInv /\ CacheInv /\ Around => TypeOK
  BY DEF IInv, Typed, CacheInv, Ordered, Around, TypeOK, Entry, Request, Row, Result
<1> QED
  BY <1>1, CacheSafety, PTL
================================================================================
