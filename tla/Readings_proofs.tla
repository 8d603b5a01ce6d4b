----------------------------- MODULE Readings_proofs -----------------------------
(***************************************************************************)
(* The values that readers save and publish, for any points, readers,      *)
(* clients and queue sizes, and the scheduler that polls them, for any     *)
(* points, intervals, batch size, time-outs and error limit.               *)
(* Machine-checked by TLAPS.                                               *)
(*                                                                         *)
(* PointValues.  The bus keeps its contract because a subscription that    *)
(* has yet to be called with an event has heard only of earlier ones       *)
(* (InOrder).  A point settles on its last reading because whatever writes *)
(* an older one still has the newer one behind it: in the line for the     *)
(* write lock, in the queue, or both (ToldLast, Settles).  A stream's      *)
(* counts add up because each event it was called with is counted once     *)
(* (Accounts), and its queue ends with the newest (Newest).                *)
(*                                                                         *)
(* Poller.  A target's errors are at most the polls begun on it; a poll    *)
(* under way may still add one, so it is paid for when it begins (Paid).   *)
(* A target that waits longer than its interval has, in every pass of the  *)
(* loop since, seen a full batch of others go first (FullBatchBefore), and *)
(* never one of them twice: read once, a point is due again only after all *)
(* the passes that fit into its interval (Accounted).  So the others run   *)
(* out before the passes do (RoundsFit).                                   *)
(***************************************************************************)
EXTENDS PointValues, Poller, TLAPS, SequenceTheorems, FiniteSetTheorems

---------------------------------------------------------------------------
(*                              P O I N T S                                *)
---------------------------------------------------------------------------

Reported == "point.reported"

Distinct(q) == \A i, j \in DOMAIN q : q[i] = q[j] => i = j

---------------------------------------------------------------------------
(* The inductive invariant.                                                *)

\* Nobody subscribes twice, and nobody is called twice with an event.
OncePerCaller ==
    /\ \A p \in Patterns : Distinct(subscribed[p])
    /\ Distinct(calls)
    /\ \A i \in DOMAIN calls : calls[i][1] \in {"*", Prefix, event.type}

\* Whoever still has to hear of an event has heard only of earlier ones.
InOrder ==
    /\ \A i, j \in DOMAIN queue : i < j => queue[i].n < queue[j].n
    /\ \A i \in DOMAIN queue, s \in Subscriptions : heard[s] < queue[i].n
    /\ event # NoEvent =>
          /\ \A i \in DOMAIN queue : event.n < queue[i].n
          /\ \A s \in Subscriptions : heard[s] <= event.n
          /\ heard[Head(calls)] = event.n
          /\ \A i \in DOMAIN calls : i > 1 => heard[calls[i]] < event.n

BusInv == BusTypeOK(Points, 0..MaxReadings) /\ OncePerCaller /\ InOrder

\* The subscription that persists is made before anything else happens, and stays.
WiredFirst ==
    /\ Wired => "engine" \in Range(subscribed[Reported])
    /\ ~Wired => /\ queue = <<>> /\ event = NoEvent /\ heard[Streams] = 0
                 /\ \A r \in Readers : reader[r].pc = "idle"

\* The values, and the line for the write lock.
ValuesOK ==
    /\ reader \in [Readers -> [pc : {"idle", "reading", "saving"},
                               point : Points \cup {"none"}, value : 0..MaxReadings]]
    /\ \A r \in Readers : reader[r].pc # "idle" => reader[r].point \in Points
    /\ stored \in [Points -> [value : 0..MaxReadings, raw : BOOLEAN]]
    /\ readings \in [Points -> 0..MaxReadings]
    /\ saved \in [Points -> 0..MaxReadings]
    /\ spoiled \subseteq Points
    /\ faults \in 0..MaxFaults

WriterSet == Readers \cup {Dispatcher}
Saving == {r \in Readers : reader[r].pc = "saving"}
PersistsNow(cs) == cs # <<>> /\ Head(cs) = Persists

\* Whoever is in the line, and nobody twice.
Queued(ws, rs, cs) ==
    /\ ws \in Seq(WriterSet) /\ Distinct(ws)
    /\ Range(ws) = rs \cup {d \in {Dispatcher} : PersistsNow(cs)}

Tells(e, p) == e.type = Reported /\ e.about = p

\* The last queued event that tells of p carries the value v.
ToldLast(q, p, v) ==
    \E i \in DOMAIN q :
        /\ Tells(q[i], p) /\ q[i].value = v
        /\ \A j \in DOMAIN q : Tells(q[j], p) => j <= i

Untold(q, p) == \A j \in DOMAIN q : ~Tells(q[j], p)

\* The event being dispatched has yet to write p.
Writing(e, cs, p) == e.about = p /\ Persists \in Range(cs)

\* What is still to come ends with the value v, and so does the point.
Settles(q, e, cs, p, now, v) ==
    \/ ToldLast(q, p, v)
    \/ Untold(q, p) /\ Writing(e, cs, p) /\ e.value = v
    \/ Untold(q, p) /\ ~Writing(e, cs, p) /\ now = v

SettlesInv == \A p \in Points \ spoiled : Settles(queue, event, calls, p, stored[p].value, saved[p])

\* The latest event the streams are through with.
StreamsNow(cs) == cs # <<>> /\ Head(cs) = Streams
Through == IF StreamsNow(calls) THEN event.n - 1 ELSE heard[Streams]

Counted == [on : BOOLEAN, box : Seq(Nat), sent : Nat, dropped : Nat, yielded : Nat]

\* A client's queue and counts, after the events up to n.
Accounts(c, n) ==
    /\ c \in [on : BOOLEAN, box : Seq(1..n), sent : 0..n, dropped : 0..n, yielded : 0..n]
    /\ Len(c.box) <= ClientQueue
    /\ \A i, j \in DOMAIN c.box : i < j => c.box[i] < c.box[j]
    /\ c.sent = c.yielded + c.dropped + Len(c.box)
    /\ ~c.on => c.box = <<>>

Newest(c, n) == c.box # <<>> => c.box[Len(c.box)] = n

ClientsInv ==
    /\ client \in [Clients -> Counted]
    /\ \A c \in Clients :
          /\ Accounts(client[c], Through)
          /\ (running /\ ~StreamsNow(calls) /\ Wants[c] = {}) => Newest(client[c], heard[Streams])

PointsInv ==
    /\ BusInv /\ WiredFirst /\ ValuesOK
    /\ Queued(writers, Saving, calls) /\ SettlesInv /\ ClientsInv

---------------------------------------------------------------------------
(* Lists without duplicates.                                               *)

LEMMA SeqFacts ==
    ASSUME NEW S, NEW s \in Seq(S)
    PROVE  /\ Len(s) \in Nat /\ DOMAIN s = 1..Len(s) /\ \A i \in DOMAIN s : s[i] \in S
           /\ Range(s) = {s[i] : i \in DOMAIN s}
           /\ s = <<>> <=> Len(s) = 0
BY LenProperties, ElementOfSeq, EmptySeq DEF Range

LEMMA InRange == ASSUME NEW q, NEW i \in DOMAIN q PROVE q[i] \in Range(q)
BY DEF Range

LEMMA NothingIn == Range(<<>>) = {} /\ Distinct(<<>>)
BY DEF Range, Distinct

\* An element that is not in the list goes to its end.
LEMMA GrowsOnce ==
    ASSUME NEW S, NEW q \in Seq(S), NEW e \in S
    PROVE  /\ Append(q, e) \in Seq(S) /\ Len(Append(q, e)) = Len(q) + 1 /\ Len(q) \in Nat
           /\ DOMAIN Append(q, e) = 1..Len(q) + 1 /\ DOMAIN q = 1..Len(q)
           /\ \A i \in DOMAIN q : Append(q, e)[i] = q[i]
           /\ Append(q, e)[Len(q) + 1] = e
           /\ Range(Append(q, e)) = Range(q) \cup {e}
           /\ Distinct(q) /\ e \notin Range(q) => Distinct(Append(q, e))
<1> DEFINE a == Append(q, e)
<1>1. /\ a \in Seq(S) /\ Len(a) = Len(q) + 1 /\ Len(q) \in Nat
      /\ DOMAIN a = 1..Len(q) + 1 /\ DOMAIN q = 1..Len(q)
      /\ \A i \in 1..Len(q) : a[i] = q[i]
      /\ a[Len(q) + 1] = e
  BY AppendProperties, LenProperties
<1> HIDE DEF a
<1>2. ASSUME Distinct(q), e \notin Range(q) PROVE Distinct(a)
  <2>1. \A i \in 1..Len(q) : q[i] # e
    BY <1>1, <1>2 DEF Range
  <2> QED
    BY <1>1, <1>2, <2>1 DEF Distinct
<1>3. Range(a) = Range(q) \cup {e}
  BY <1>1 DEF Range
<1> QED
  BY <1>1, <1>2, <1>3 DEF a

\* The first element leaves the list.
LEMMA ShrinksOnce ==
    ASSUME NEW S, NEW q \in Seq(S), q # <<>>
    PROVE  /\ Tail(q) \in Seq(S) /\ Len(Tail(q)) = Len(q) - 1 /\ Len(q) \in Nat \ {0}
           /\ DOMAIN Tail(q) = 1..Len(q) - 1 /\ DOMAIN q = 1..Len(q)
           /\ \A i \in 1..Len(q) - 1 : Tail(q)[i] = q[i + 1]
           /\ Head(q) \in S /\ Head(q) = q[1]
           /\ Range(q) = Range(Tail(q)) \cup {Head(q)}
           /\ Distinct(q) => Distinct(Tail(q)) /\ Head(q) \notin Range(Tail(q))
<1> DEFINE t == Tail(q)
<1>1. /\ t \in Seq(S) /\ Len(t) = Len(q) - 1 /\ Len(q) \in Nat \ {0}
      /\ DOMAIN t = 1..Len(q) - 1 /\ DOMAIN q = 1..Len(q)
      /\ \A i \in 1..Len(q) - 1 : t[i] = q[i + 1]
      /\ Head(q) \in S /\ Head(q) = q[1]
  BY HeadTailProperties, LenProperties, EmptySeq
<1> HIDE DEF t
<1>2. ASSUME Distinct(q) PROVE Distinct(t) /\ Head(q) \notin Range(t)
  <2>1. Distinct(t)
    <3> SUFFICES ASSUME NEW i \in 1..Len(q) - 1, NEW j \in 1..Len(q) - 1, t[i] = t[j]
                 PROVE  i = j
      BY <1>1 DEF Distinct
    <3>1. \A m, n \in 1..Len(q) : q[m] = q[n] => m = n
      BY <1>1, <1>2 DEF Distinct
    <3> QED
      BY <1>1, <3>1
  <2>2. \A i \in 1..Len(q) - 1 : q[i + 1] # q[1]
    BY <1>1, <1>2 DEF Distinct
  <2>3. Head(q) \notin Range(t)
    BY <1>1, <2>2 DEF Range
  <2> QED
    BY <2>1, <2>3
<1>3. Range(q) \subseteq Range(t) \cup {Head(q)}
  <2>1. \A i \in 1..Len(q) : i = 1 \/ (i - 1 \in DOMAIN t /\ q[i] = t[i - 1])
    BY <1>1
  <2> QED
    BY <1>1, <2>1, SMTT(30) DEF Range
<1>4. Range(t) \cup {Head(q)} \subseteq Range(q)
  <2>1. \A i \in 1..Len(q) - 1 : i + 1 \in DOMAIN q /\ t[i] = q[i + 1]
    BY <1>1
  <2>2. Head(q) \in Range(q)
    BY <1>1 DEF Range
  <2>3. ASSUME NEW e \in Range(t) PROVE e \in Range(q)
    BY <1>1, <2>1, <2>3, SMTT(30) DEF Range
  <2> QED
    BY <2>2, <2>3
<1> QED
  BY <1>1, <1>2, <1>3, <1>4 DEF t

\* One element leaves the list, and the others close up.
LEMMA RemoveAtFacts ==
    ASSUME NEW S, NEW s \in Seq(S), NEW k \in DOMAIN s
    PROVE  /\ RemoveAt(s, k) \in Seq(S) /\ Len(RemoveAt(s, k)) = Len(s) - 1
           /\ \A i \in 1..Len(s) - 1 : RemoveAt(s, k)[i] = IF i < k THEN s[i] ELSE s[i + 1]
<1> DEFINE a == SubSeq(s, 1, k - 1)
           b == SubSeq(s, k + 1, Len(s))
<1>1. k \in 1..Len(s) /\ Len(s) \in Nat /\ \A i \in 1..Len(s) : s[i] \in S
  BY SeqFacts
<1>2. a \in Seq(S) /\ Len(a) = k - 1 /\ \A i \in 1..k - 1 : a[i] = s[i]
  <2>1. /\ a \in Seq(S) /\ Len(a) = IF 1 <= k - 1 THEN (k - 1) - 1 + 1 ELSE 0
        /\ \A i \in 1..(k - 1) - 1 + 1 : a[i] = s[1 + i - 1]
    BY <1>1, SubSeqProperties
  <2> HIDE DEF a
  <2> QED
    BY <1>1, <2>1
<1>3. b \in Seq(S) /\ Len(b) = Len(s) - k /\ \A i \in 1..Len(s) - k : b[i] = s[k + i]
  <2>1. /\ b \in Seq(S) /\ Len(b) = IF k + 1 <= Len(s) THEN Len(s) - (k + 1) + 1 ELSE 0
        /\ \A i \in 1..Len(s) - (k + 1) + 1 : b[i] = s[(k + 1) + i - 1]
    BY <1>1, SubSeqProperties
  <2> HIDE DEF b
  <2>2. \A i \in 1..Len(s) - k : i \in 1..Len(s) - (k + 1) + 1 /\ (k + 1) + i - 1 = k + i
    BY <1>1
  <2> QED
    BY <1>1, <2>1, <2>2
<1>4. RemoveAt(s, k) = a \o b
  BY DEF RemoveAt
<1> HIDE DEF a, b
<1>5. /\ a \o b \in Seq(S) /\ Len(a \o b) = Len(a) + Len(b)
      /\ \A i \in 1..Len(a) + Len(b) : (a \o b)[i] = IF i <= Len(a) THEN a[i] ELSE b[i - Len(a)]
  BY <1>2, <1>3, ConcatProperties
<1> DEFINE c == a \o b
<1> HIDE DEF c
<1>6. /\ c \in Seq(S) /\ Len(c) = Len(s) - 1
      /\ \A i \in 1..Len(s) - 1 : c[i] = IF i <= k - 1 THEN a[i] ELSE b[i - (k - 1)]
  <2>1. Len(a) + Len(b) = Len(s) - 1
    BY <1>1, <1>2, <1>3
  <2>2. /\ c \in Seq(S) /\ Len(c) = Len(a) + Len(b)
        /\ \A i \in 1..Len(a) + Len(b) : c[i] = IF i <= Len(a) THEN a[i] ELSE b[i - Len(a)]
    BY <1>5 DEF c
  <2> QED
    BY <1>2, <2>1, <2>2
<1>7. ASSUME NEW i \in 1..Len(s) - 1 PROVE c[i] = IF i < k THEN s[i] ELSE s[i + 1]
  <2>0. c[i] = IF i <= k - 1 THEN a[i] ELSE b[i - (k - 1)]
    BY <1>6
  <2>1. CASE i < k
    <3>1. i \in 1..k - 1 /\ i <= k - 1
      BY <1>1, <2>1
    <3>2. a[i] = s[i]
      BY <1>2, <3>1
    <3> QED
      BY <2>0, <2>1, <3>1, <3>2
  <2>2. CASE ~(i < k)
    <3>1. i - (k - 1) \in 1..Len(s) - k /\ k + (i - (k - 1)) = i + 1 /\ ~(i <= k - 1)
      BY <1>1, <2>2
    <3>2. b[i - (k - 1)] = s[k + (i - (k - 1))]
      BY <1>3, <3>1
    <3> QED
      BY <2>0, <2>2, <3>1, <3>2
  <2> QED
    BY <2>1, <2>2
<1> QED
  BY <1>4, <1>6, <1>7 DEF c

LEMMA WithoutFacts ==
    ASSUME NEW S, NEW s \in Seq(S), Distinct(s), NEW e
    PROVE  /\ Without(s, e) \in Seq(S) /\ Distinct(Without(s, e))
           /\ Range(Without(s, e)) = Range(s) \ {e}
<1>1. CASE e \notin Range(s)
  BY <1>1 DEF Without
<1>2. CASE e \in Range(s)
  <2> DEFINE k == CHOOSE i \in DOMAIN s : s[i] = e
             r == RemoveAt(s, k)
  <2>1. k \in DOMAIN s /\ s[k] = e
    BY <1>2 DEF Range
  <2>2. Without(s, e) = r
    BY <1>2 DEF Without
  <2> HIDE DEF k
  <2>3. /\ r \in Seq(S) /\ Len(r) = Len(s) - 1
        /\ \A i \in 1..Len(s) - 1 : r[i] = IF i < k THEN s[i] ELSE s[i + 1]
    BY <2>1, RemoveAtFacts
  <2> HIDE DEF r
  <2>4. /\ Len(s) \in Nat /\ DOMAIN s = 1..Len(s) /\ k \in 1..Len(s)
        /\ DOMAIN r = 1..Len(s) - 1
    BY <2>1, <2>3, SeqFacts
  <2>5. Distinct(r)
    <3> SUFFICES ASSUME NEW i \in 1..Len(s) - 1, NEW j \in 1..Len(s) - 1, r[i] = r[j]
                 PROVE  i = j
      BY <2>4 DEF Distinct
    <3> DEFINE From(n) == IF n < k THEN n ELSE n + 1
    <3>1. \A m, n \in 1..Len(s) : s[m] = s[n] => m = n
      BY <2>4 DEF Distinct
    <3>2. From(i) \in 1..Len(s) /\ From(j) \in 1..Len(s)
      BY <2>4
    <3>3. r[i] = s[From(i)] /\ r[j] = s[From(j)]
      BY <2>3, <2>4
    <3>4. From(i) = From(j)
      BY <3>1, <3>2, <3>3
    <3> QED
      BY <2>4, <3>4
  <2>6. Range(r) \subseteq Range(s) \ {e}
    <3> SUFFICES ASSUME NEW i \in 1..Len(s) - 1 PROVE r[i] \in Range(s) /\ r[i] # e
      BY <2>4 DEF Range
    <3>1. \A m, n \in 1..Len(s) : s[m] = s[n] => m = n
      BY <2>4 DEF Distinct
    <3>2. \A m \in 1..Len(s) : s[m] \in Range(s) /\ (m # k => s[m] # e)
      BY <2>1, <2>4, <3>1 DEF Range
    <3> QED
      BY <2>3, <2>4, <3>2
  <2>7. Range(s) \ {e} \subseteq Range(r)
    <3> SUFFICES ASSUME NEW m \in 1..Len(s), s[m] # e PROVE s[m] \in Range(r)
      BY <2>4 DEF Range
    <3>1. m # k
      BY <2>1
    <3>2. CASE m < k
      <4>1. m \in DOMAIN r /\ r[m] = s[m]
        BY <2>3, <2>4, <3>2
      <4> QED
        BY <4>1, InRange
    <3>3. CASE m > k
      <4>1. m - 1 \in DOMAIN r /\ r[m - 1] = s[m]
        BY <2>3, <2>4, <3>3
      <4> QED
        BY <4>1, InRange
    <3> QED
      BY <2>4, <3>1, <3>2, <3>3
  <2> QED
    BY <2>2, <2>3, <2>5, <2>6, <2>7
<1> QED
  BY <1>1, <1>2

---------------------------------------------------------------------------
(* The bus.                                                                *)

Ev == Events(Points, 0..MaxReadings)

LEMMA EventFacts ==
    ASSUME taken \in Nat, NEW e \in Ev
    PROVE  /\ e.n \in 1..taken /\ e.type \in Types /\ e.about \in Points
           /\ e.value \in 0..MaxReadings /\ e # NoEvent
           /\ e.type # "*" /\ e.type # Prefix
<1>1. e \in [n : 1..taken, type : Types, about : Points, value : 0..MaxReadings]
  BY DEF Ev, Events
<1>2. e.n \in 1..taken /\ e.type \in Types /\ e.about \in Points /\ e.value \in 0..MaxReadings
  BY <1>1
<1>3. e # NoEvent
  BY <1>2 DEF NoEvent
<1> QED
  BY <1>2, <1>3 DEF Types, Prefix

\* Two lists with nothing in common, one after the other.
LEMMA JoinsOnce ==
    ASSUME NEW S, NEW a \in Seq(S), NEW b \in Seq(S), Distinct(a), Distinct(b),
           Range(a) \cap Range(b) = {}
    PROVE  a \o b \in Seq(S) /\ Distinct(a \o b) /\ Range(a \o b) = Range(a) \cup Range(b)
<1> DEFINE c == a \o b
<1>1. /\ c \in Seq(S) /\ Len(c) = Len(a) + Len(b)
      /\ \A i \in 1..Len(a) + Len(b) : c[i] = IF i <= Len(a) THEN a[i] ELSE b[i - Len(a)]
  BY ConcatProperties
<1>2. Range(c) = Range(a) \cup Range(b)
  BY RangeConcatenation
<1> HIDE DEF c
<1>3. /\ Len(a) \in Nat /\ Len(b) \in Nat /\ DOMAIN a = 1..Len(a) /\ DOMAIN b = 1..Len(b)
      /\ DOMAIN c = 1..Len(a) + Len(b)
  BY <1>1, SeqFacts
<1>4. \A i \in 1..Len(a), j \in 1..Len(b) : a[i] # b[j]
  BY <1>3 DEF Range
<1>5. ASSUME NEW i \in DOMAIN c, NEW j \in DOMAIN c, c[i] = c[j] PROVE i = j
  <2>1. CASE i <= Len(a) /\ j <= Len(a)
    <3>1. i \in DOMAIN a /\ j \in DOMAIN a /\ a[i] = a[j]
      BY <1>1, <1>3, <1>5, <2>1
    <3> QED
      BY <3>1 DEF Distinct
  <2>2. CASE i > Len(a) /\ j > Len(a)
    <3>1. /\ i - Len(a) \in DOMAIN b /\ j - Len(a) \in DOMAIN b
          /\ b[i - Len(a)] = b[j - Len(a)]
      BY <1>1, <1>3, <1>5, <2>2
    <3>2. i - Len(a) = j - Len(a)
      BY <3>1 DEF Distinct
    <3> QED
      BY <1>3, <3>2
  <2>3. CASE i <= Len(a) /\ j > Len(a)
    <3>1. i \in 1..Len(a) /\ j - Len(a) \in 1..Len(b) /\ a[i] = b[j - Len(a)]
      BY <1>1, <1>3, <1>5, <2>3
    <3> QED
      BY <1>4, <3>1
  <2>4. CASE i > Len(a) /\ j <= Len(a)
    <3>1. j \in 1..Len(a) /\ i - Len(a) \in 1..Len(b) /\ a[j] = b[i - Len(a)]
      BY <1>1, <1>3, <1>5, <2>4
    <3> QED
      BY <1>4, <3>1
  <2> QED
    BY <1>3, <2>1, <2>2, <2>3, <2>4
<1> QED
  BY <1>1, <1>2, <1>5 DEF Distinct, c

LEMMA UnderFacts ==
    ASSUME NEW p \in Patterns, subscribed \in [Patterns -> Seq(Subscribers)],
           Distinct(subscribed[p])
    PROVE  /\ Under(p) \in Seq(Subscriptions) /\ Distinct(Under(p))
           /\ Range(Under(p)) = {<<p, who>> : who \in Range(subscribed[p])}
<1>1. subscribed[p] \in Seq(Subscribers)
  OBVIOUS
<1>2. /\ Len(subscribed[p]) \in Nat /\ DOMAIN subscribed[p] = 1..Len(subscribed[p])
      /\ \A i \in DOMAIN subscribed[p] : subscribed[p][i] \in Subscribers
  BY <1>1, SeqFacts
<1>3. /\ DOMAIN Under(p) = 1..Len(subscribed[p])
      /\ \A i \in 1..Len(subscribed[p]) : Under(p)[i] = <<p, subscribed[p][i]>>
  BY <1>2 DEF Under
<1>4. \A i \in 1..Len(subscribed[p]) : <<p, subscribed[p][i]>> \in Subscriptions
  BY <1>2 DEF Subscriptions
<1>5. Under(p) \in Seq(Subscriptions)
  <2>1. [i \in 1..Len(subscribed[p]) |-> <<p, subscribed[p][i]>>] \in Seq(Subscriptions)
    BY <1>2, <1>4, IsASeq
  <2> QED
    BY <1>2, <2>1 DEF Under
<1>6. Distinct(Under(p))
  <2> SUFFICES ASSUME NEW i \in 1..Len(subscribed[p]), NEW j \in 1..Len(subscribed[p]),
                      Under(p)[i] = Under(p)[j]
               PROVE  i = j
    BY <1>3 DEF Distinct
  <2>1. subscribed[p][i] = subscribed[p][j]
    BY <1>3
  <2> QED
    BY <1>2, <2>1 DEF Distinct
<1>7. Range(Under(p)) = {<<p, who>> : who \in Range(subscribed[p])}
  BY <1>2, <1>3 DEF Range
<1> QED
  BY <1>5, <1>6, <1>7

\* Every subscription that matches is called, and no other, and once.
LEMMA MatchingFacts ==
    ASSUME BusInv, NEW e \in Ev
    PROVE  /\ Matching(e) \in Seq(Subscriptions) /\ Distinct(Matching(e))
           /\ \A s \in Range(Matching(e)) : s[1] \in {"*", Prefix, e.type}
           /\ \A who \in Range(subscribed[e.type]) : <<e.type, who>> \in Range(Matching(e))
<1>1. subscribed \in [Patterns -> Seq(Subscribers)] /\ \A p \in Patterns : Distinct(subscribed[p])
  BY DEF BusInv, BusTypeOK, OncePerCaller
<1>2. e.type \in Patterns /\ "*" \in Patterns /\ Prefix \in Patterns
  BY EventFacts DEF Patterns, BusInv, BusTypeOK
<1>3. e.type # "*" /\ e.type # Prefix /\ Prefix # "*"
  BY EventFacts DEF Prefix, BusInv, BusTypeOK
<1> DEFINE Of(p) == {<<p, who>> : who \in Range(subscribed[p])}
<1>4. \A p \in Patterns : /\ Under(p) \in Seq(Subscriptions) /\ Distinct(Under(p))
                          /\ Range(Under(p)) = Of(p)
  BY <1>1, UnderFacts
<1>5. \A p, q \in Patterns : p # q => Of(p) \cap Of(q) = {}
  OBVIOUS
<1>6. \A p \in Patterns : \A s \in Of(p) : s[1] = p
  OBVIOUS
<1> DEFINE a == Under("*")
           b == Under(e.type)
           c == Under(Prefix)
<1>7. /\ a \o b \in Seq(Subscriptions) /\ Distinct(a \o b)
      /\ Range(a \o b) = Of("*") \cup Of(e.type)
  BY <1>2, <1>3, <1>4, <1>5, JoinsOnce
<1> DEFINE ab == a \o b
<1> HIDE DEF ab
<1>8. /\ ab \o c \in Seq(Subscriptions) /\ Distinct(ab \o c)
      /\ Range(ab \o c) = Of("*") \cup Of(e.type) \cup Of(Prefix)
  <2>1. (Of("*") \cup Of(e.type)) \cap Of(Prefix) = {}
    BY <1>2, <1>3, <1>5
  <2> HIDE DEF Of, a, b, c
  <2>2. Distinct(c) /\ c \in Seq(Subscriptions) /\ Range(c) = Of(Prefix)
    BY <1>2, <1>4 DEF c
  <2>3. ab \in Seq(Subscriptions) /\ Distinct(ab) /\ Range(ab) = Of("*") \cup Of(e.type)
    BY <1>7 DEF ab
  <2>4. /\ ab \o c \in Seq(Subscriptions) /\ Distinct(ab \o c)
        /\ Range(ab \o c) = Range(ab) \cup Range(c)
    BY <2>1, <2>2, <2>3, JoinsOnce
  <2> QED
    BY <2>2, <2>3, <2>4
<1>9. Matching(e) = ab \o c
  BY DEF Matching, ab
<1>10. \A s \in Range(Matching(e)) : s[1] \in {"*", Prefix, e.type}
  BY <1>2, <1>6, <1>8, <1>9
<1>11. \A who \in Range(subscribed[e.type]) : <<e.type, who>> \in Range(Matching(e))
  BY <1>8, <1>9
<1> QED
  BY <1>8, <1>9, <1>10, <1>11

\* Accepting an event leaves the earlier ones as they were.
LEMMA EventsStay == ASSUME taken \in Nat, taken' = taken + 1 PROVE Ev \subseteq Ev'
<1>1. 1..taken \subseteq 1..taken'
  OBVIOUS
<1> QED
  BY <1>1 DEF Ev, Events

LEMMA AcceptBus ==
    ASSUME BusInv, NEW type \in Types, NEW about \in Points, NEW value \in 0..MaxReadings,
           Accept(type, about, value)
    PROVE  BusInv'
<1> DEFINE e == [n |-> taken', type |-> type, about |-> about, value |-> value]
<1>1. /\ taken' = taken + 1 /\ taken \in Nat /\ Len(queue) < QueueSize
      /\ queue' = Append(queue, e)
      /\ UNCHANGED <<running, subscribed, event, calls, heard, times>>
  BY DEF Accept, HasRoom, BusInv, BusTypeOK
<1>2. e \in Ev' /\ e.n = taken + 1
  BY <1>1 DEF Ev, Events
<1>3. Ev \subseteq Ev' /\ queue \in Seq(Ev)
  BY <1>1, EventsStay DEF BusInv, BusTypeOK, Ev
<1>4. queue \in Seq(Ev')
  BY <1>3, SeqMonotonic
<1> HIDE DEF e
<1>5. /\ queue' \in Seq(Ev') /\ Len(queue') = Len(queue) + 1 /\ Len(queue) \in Nat
      /\ DOMAIN queue' = 1..Len(queue) + 1 /\ DOMAIN queue = 1..Len(queue)
      /\ \A i \in DOMAIN queue : queue'[i] = queue[i]
      /\ queue'[Len(queue) + 1] = e
  BY <1>1, <1>2, <1>4, GrowsOnce
<1>6. \A i \in DOMAIN queue : queue[i].n \in 1..taken
  BY <1>1, <1>3, SeqFacts, EventFacts
<1>7. BusTypeOK(Points, 0..MaxReadings)'
  <2>1. 0..taken \subseteq 0..taken'
    BY <1>1
  <2>2. heard' \in [Subscriptions -> 0..taken']
    BY <1>1, <2>1 DEF BusInv, BusTypeOK
  <2>3. Len(queue') <= QueueSize
    BY <1>1, <1>5, QueueAssumption DEF QueueAssumption
  <2>4. event' \in Ev' \cup {NoEvent}
    BY <1>1, <1>3 DEF BusInv, BusTypeOK, Ev
  <2> QED
    BY <1>1, <1>5, <2>2, <2>3, <2>4 DEF BusInv, BusTypeOK, Ev
<1>8. OncePerCaller'
  BY <1>1 DEF BusInv, OncePerCaller
<1>9. InOrder'
  <2>1. ASSUME NEW i \in DOMAIN queue', NEW j \in DOMAIN queue', i < j
        PROVE  queue'[i].n < queue'[j].n
    <3>1. i \in DOMAIN queue
      BY <1>5, <2>1
    <3>2. CASE j \in DOMAIN queue
      BY <1>5, <2>1, <3>1, <3>2 DEF BusInv, InOrder
    <3>3. CASE j = Len(queue) + 1
      BY <1>1, <1>2, <1>5, <1>6, <3>1, <3>3
    <3> QED
      BY <1>5, <3>2, <3>3
  <2>2. ASSUME NEW i \in DOMAIN queue', NEW s \in Subscriptions PROVE heard'[s] < queue'[i].n
    <3>1. heard[s] \in 0..taken
      BY DEF BusInv, BusTypeOK
    <3>2. CASE i \in DOMAIN queue
      BY <1>1, <1>5, <3>2 DEF BusInv, InOrder
    <3>3. CASE i = Len(queue) + 1
      BY <1>1, <1>2, <1>5, <3>1, <3>3
    <3> QED
      BY <1>5, <3>2, <3>3
  <2>3. ASSUME event # NoEvent, NEW i \in DOMAIN queue' PROVE event.n < queue'[i].n
    <3>1. event.n \in 1..taken
      BY <1>1, <2>3, EventFacts DEF BusInv, BusTypeOK, Ev
    <3>2. CASE i \in DOMAIN queue
      BY <1>5, <2>3, <3>2 DEF BusInv, InOrder
    <3>3. CASE i = Len(queue) + 1
      BY <1>1, <1>2, <1>5, <3>1, <3>3
    <3> QED
      BY <1>5, <3>2, <3>3
  <2> QED
    BY <1>1, <2>1, <2>2, <2>3 DEF BusInv, InOrder
<1> QED
  BY <1>7, <1>8, <1>9 DEF BusInv

\* The next callback is called with an event that it has not heard of, nor of a
\* later one.
LEMMA CallsNext ==
    ASSUME BusInv, NEW e \in Ev, NEW cs \in Seq(Subscriptions), Distinct(cs),
           running, UNCHANGED <<running, subscribed, taken>>, CallNext(e, cs),
           \A i \in DOMAIN cs : cs[i][1] \in {"*", Prefix, e.type} /\ heard[cs[i]] < e.n,
           \A s \in Subscriptions : heard[s] <= e.n,
           queue' \in Seq(Ev), Len(queue') <= QueueSize,
           \A i, j \in DOMAIN queue' : i < j => queue'[i].n < queue'[j].n,
           \A i \in DOMAIN queue' : e.n < queue'[i].n
    PROVE  BusInv'
<1>1. /\ e.n \in 1..taken /\ taken \in Nat /\ e # NoEvent /\ Ev' = Ev
      /\ heard \in [Subscriptions -> 0..taken] /\ times \in [Subscriptions -> Nat]
  BY EventFacts DEF BusInv, BusTypeOK, Ev, Events
<1>2. \A i \in DOMAIN queue' : queue'[i].n \in 1..taken
  BY <1>1, SeqFacts, EventFacts
<1>3. CASE cs = <<>>
  <2>1. calls' = <<>> /\ event' = NoEvent /\ heard' = heard /\ times' = times
    BY <1>3 DEF CallNext
  <2>2. BusTypeOK(Points, 0..MaxReadings)'
    BY <1>1, <2>1, EmptySeq DEF BusInv, BusTypeOK, Ev
  <2>3. OncePerCaller'
    BY <2>1, NothingIn, EmptySeq DEF BusInv, OncePerCaller
  <2>4. InOrder'
    <3>1. ASSUME NEW i \in DOMAIN queue', NEW s \in Subscriptions PROVE heard[s] < queue'[i].n
      BY <1>1, <1>2
    <3> QED
      BY <2>1, <3>1 DEF InOrder
  <2> QED
    BY <2>2, <2>3, <2>4 DEF BusInv
<1>4. CASE cs # <<>>
  <2> DEFINE h == Head(cs)
  <2>1. calls' = cs /\ event' = e
    BY <1>4 DEF CallNext
  <2>2. /\ DOMAIN cs = 1..Len(cs) /\ Len(cs) \in Nat \ {0} /\ h \in Subscriptions /\ h = cs[1]
        /\ \A i \in DOMAIN cs : cs[i] \in Subscriptions
    BY <1>4, ShrinksOnce, SeqFacts
  <2> HIDE DEF h
  <2>3. /\ heard' = [heard EXCEPT ![h] = e.n]
        /\ times' = [times EXCEPT ![h] = times[h] + 1]
    BY <1>4 DEF CallNext, h
  <2>4. /\ heard' \in [Subscriptions -> 0..taken] /\ heard'[h] = e.n
        /\ \A s \in Subscriptions : s # h => heard'[s] = heard[s]
        /\ times' \in [Subscriptions -> Nat]
    BY <1>1, <2>2, <2>3
  <2>5. BusTypeOK(Points, 0..MaxReadings)'
    BY <1>1, <1>4, <2>1, <2>4 DEF BusInv, BusTypeOK, Ev
  <2>6. OncePerCaller'
    BY <2>1 DEF BusInv, OncePerCaller
  <2>7. ASSUME NEW s \in Subscriptions PROVE heard'[s] <= e.n
    <3>1. CASE s = h
      BY <1>1, <2>4, <3>1
    <3>2. CASE s # h
      BY <1>1, <2>4, <3>2
    <3> QED
      BY <3>1, <3>2
  <2>8. ASSUME NEW i \in DOMAIN queue', NEW s \in Subscriptions PROVE heard'[s] < queue'[i].n
    BY <1>1, <1>2, <2>4, <2>7
  <2>9. ASSUME NEW i \in DOMAIN cs, i > 1 PROVE heard'[cs[i]] < e.n
    <3>1. cs[i] # h
      BY <2>2, <2>9 DEF Distinct
    <3> QED
      BY <2>2, <2>4, <3>1
  <2>10. InOrder'
    BY <2>1, <2>2, <2>4, <2>7, <2>8, <2>9 DEF InOrder, h
  <2> QED
    BY <2>5, <2>6, <2>10 DEF BusInv
<1> QED
  BY <1>3, <1>4

LEMMA TakeOffBus ==
    ASSUME BusInv, TakeOff
    PROVE  /\ BusInv' /\ Head(queue) \in Ev /\ event = NoEvent
           /\ calls' = Matching(Head(queue))
           /\ queue' = Tail(queue) /\ subscribed' = subscribed /\ running' = running
<1> DEFINE e == Head(queue)
<1>1. /\ running /\ event = NoEvent /\ queue # <<>> /\ queue' = Tail(queue)
      /\ CallNext(e, Matching(e)) /\ UNCHANGED <<running, subscribed, taken>>
  BY DEF TakeOff
<1>2. queue \in Seq(Ev) /\ Len(queue) <= QueueSize
  BY DEF BusInv, BusTypeOK, Ev
<1>3. /\ queue' \in Seq(Ev) /\ Len(queue') = Len(queue) - 1 /\ Len(queue) \in Nat \ {0}
      /\ DOMAIN queue' = 1..Len(queue) - 1 /\ DOMAIN queue = 1..Len(queue)
      /\ \A i \in 1..Len(queue) - 1 : queue'[i] = queue[i + 1]
      /\ e \in Ev /\ e = queue[1]
  BY <1>1, <1>2, ShrinksOnce
<1> HIDE DEF e
<1>4. /\ Matching(e) \in Seq(Subscriptions) /\ Distinct(Matching(e))
      /\ \A s \in Range(Matching(e)) : s[1] \in {"*", Prefix, e.type}
  BY <1>3, MatchingFacts
<1>5. \A s \in Subscriptions : heard[s] < e.n
  BY <1>3 DEF BusInv, InOrder
<1>6. taken \in Nat /\ e.n \in 1..taken /\ heard \in [Subscriptions -> 0..taken]
  BY <1>3, EventFacts DEF BusInv, BusTypeOK
<1>7. ASSUME NEW i \in DOMAIN queue', NEW j \in DOMAIN queue', i < j
      PROVE  queue'[i].n < queue'[j].n
  <2>1. i + 1 \in DOMAIN queue /\ j + 1 \in DOMAIN queue /\ i + 1 < j + 1
    BY <1>3, <1>7
  <2>2. queue[i + 1].n < queue[j + 1].n
    BY <2>1 DEF BusInv, InOrder
  <2> QED
    BY <1>3, <2>2
<1>8. ASSUME NEW i \in DOMAIN queue' PROVE e.n < queue'[i].n
  <2>1. 1 \in DOMAIN queue /\ i + 1 \in DOMAIN queue /\ 1 < i + 1
    BY <1>3
  <2>2. queue[1].n < queue[i + 1].n
    BY <2>1 DEF BusInv, InOrder
  <2> QED
    BY <1>3, <2>2
<1>9. \A i \in DOMAIN Matching(e) : Matching(e)[i][1] \in {"*", Prefix, e.type}
  BY <1>4, InRange
<1>10. \A i \in DOMAIN Matching(e) : heard[Matching(e)[i]] < e.n
  BY <1>4, <1>5, SeqFacts
<1>11. Len(queue') <= QueueSize /\ \A s \in Subscriptions : heard[s] <= e.n
  BY <1>2, <1>3, <1>5, <1>6, QueueAssumption DEF QueueAssumption
<1>12. BusInv'
  BY <1>1, <1>3, <1>4, <1>7, <1>8, <1>9, <1>10, <1>11, CallsNext
<1>13. calls' = Matching(e)
  BY <1>1 DEF CallNext
<1> QED
  BY <1>1, <1>3, <1>12, <1>13 DEF e

LEMMA ReturnsBus ==
    ASSUME BusInv, Returns
    PROVE  /\ BusInv' /\ event \in Ev /\ event # NoEvent
           /\ calls # <<>> /\ calls' = Tail(calls) /\ Distinct(calls)
           /\ event' = IF calls' = <<>> THEN NoEvent ELSE event
           /\ UNCHANGED <<queue, subscribed, running, taken>>
<1>1. /\ event # NoEvent /\ CallNext(event, Tail(calls))
      /\ UNCHANGED <<running, queue, subscribed, taken>>
  BY DEF Returns
<1>2. /\ event \in Ev /\ calls # <<>> /\ calls \in Seq(Subscriptions) /\ running /\ Distinct(calls)
      /\ queue \in Seq(Ev) /\ Len(queue) <= QueueSize
  BY <1>1 DEF BusInv, BusTypeOK, Ev, OncePerCaller
<1> DEFINE cs == Tail(calls)
<1>3. /\ cs \in Seq(Subscriptions) /\ Distinct(cs) /\ Len(calls) \in Nat \ {0}
      /\ DOMAIN cs = 1..Len(calls) - 1 /\ DOMAIN calls = 1..Len(calls)
      /\ \A i \in 1..Len(calls) - 1 : cs[i] = calls[i + 1]
  BY <1>2, ShrinksOnce
<1>4. CallNext(event, cs)
  BY <1>1
<1> HIDE DEF cs
<1>5. ASSUME NEW i \in DOMAIN cs
      PROVE  cs[i][1] \in {"*", Prefix, event.type} /\ heard[cs[i]] < event.n
  <2>1. i + 1 \in DOMAIN calls /\ i + 1 > 1 /\ cs[i] = calls[i + 1]
    BY <1>3
  <2> QED
    BY <1>1, <2>1 DEF BusInv, InOrder, OncePerCaller
<1>6. /\ \A s \in Subscriptions : heard[s] <= event.n
      /\ \A i, j \in DOMAIN queue : i < j => queue[i].n < queue[j].n
      /\ \A i \in DOMAIN queue : event.n < queue[i].n
  BY <1>1 DEF BusInv, InOrder
<1>7. BusInv'
  <2>1. /\ queue' \in Seq(Ev) /\ Len(queue') <= QueueSize
        /\ \A i, j \in DOMAIN queue' : i < j => queue'[i].n < queue'[j].n
        /\ \A i \in DOMAIN queue' : event.n < queue'[i].n
    BY <1>1, <1>2, <1>6
  <2> QED
    BY <1>1, <1>2, <1>3, <1>4, <1>5, <1>6, <2>1, CallsNext
<1>8. calls' = cs /\ event' = IF cs = <<>> THEN NoEvent ELSE event
  BY <1>4 DEF CallNext
<1> QED
  BY <1>1, <1>2, <1>7, <1>8 DEF cs

\* The table of subscriptions changes, and nothing else.
LEMMA TableBus ==
    ASSUME BusInv, subscribed' \in [Patterns -> Seq(Subscribers)],
           \A p \in Patterns : Distinct(subscribed'[p]),
           UNCHANGED <<running, queue, event, calls, taken, heard, times>>
    PROVE  BusInv'
<1>1. BusTypeOK(Points, 0..MaxReadings)'
  BY DEF BusInv, BusTypeOK, Events
<1>2. OncePerCaller'
  BY DEF BusInv, OncePerCaller
<1>3. InOrder'
  BY DEF BusInv, InOrder
<1> QED
  BY <1>1, <1>2, <1>3 DEF BusInv

LEMMA SubscribeBus ==
    ASSUME BusInv, NEW p \in Patterns, NEW who \in Subscribers,
           who \notin Range(subscribed[p]), Subscribe(p, who)
    PROVE  /\ BusInv'
           /\ \A q \in Patterns : subscribed'[q] =
                 IF q = p THEN Append(subscribed[p], who) ELSE subscribed[q]
           /\ Range(subscribed'[p]) = Range(subscribed[p]) \cup {who}
           /\ subscribed'[p] # <<>>
           /\ UNCHANGED <<running, queue, event, calls, taken, heard, times>>
<1>1. /\ subscribed' = [subscribed EXCEPT ![p] = Append(subscribed[p], who)]
      /\ UNCHANGED <<running, queue, event, calls, taken, heard, times>>
  BY DEF Subscribe
<1>2. subscribed \in [Patterns -> Seq(Subscribers)] /\ \A q \in Patterns : Distinct(subscribed[q])
  BY DEF BusInv, BusTypeOK, OncePerCaller
<1>3. subscribed[p] \in Seq(Subscribers) /\ Distinct(subscribed[p])
  BY <1>2
<1> DEFINE a == Append(subscribed[p], who)
<1>4. /\ a \in Seq(Subscribers) /\ Distinct(a) /\ a # <<>>
      /\ Range(a) = Range(subscribed[p]) \cup {who}
  BY <1>3, GrowsOnce, AppendProperties
<1> HIDE DEF a
<1>5. \A q \in Patterns : subscribed'[q] = IF q = p THEN a ELSE subscribed[q]
  BY <1>1, <1>2 DEF a
<1>6. subscribed' \in [Patterns -> Seq(Subscribers)]
  BY <1>1, <1>2, <1>4 DEF a
<1>7. BusInv'
  BY <1>1, <1>2, <1>4, <1>5, <1>6, TableBus
<1> QED
  BY <1>1, <1>4, <1>5, <1>7 DEF a

LEMMA UnsubscribeBus ==
    ASSUME BusInv, NEW p \in Patterns, NEW who, Unsubscribe(p, who)
    PROVE  /\ BusInv'
           /\ \A q \in Patterns : q # p => subscribed'[q] = subscribed[q]
           /\ Range(subscribed'[p]) = Range(subscribed[p]) \ {who}
           /\ UNCHANGED <<running, queue, event, calls, taken, heard, times>>
<1>1. /\ subscribed' = [subscribed EXCEPT ![p] = Without(subscribed[p], who)]
      /\ UNCHANGED <<running, queue, event, calls, taken, heard, times>>
  BY DEF Unsubscribe
<1>2. subscribed \in [Patterns -> Seq(Subscribers)] /\ \A q \in Patterns : Distinct(subscribed[q])
  BY DEF BusInv, BusTypeOK, OncePerCaller
<1>3. subscribed[p] \in Seq(Subscribers) /\ Distinct(subscribed[p])
  BY <1>2
<1> DEFINE a == Without(subscribed[p], who)
<1>4. a \in Seq(Subscribers) /\ Distinct(a) /\ Range(a) = Range(subscribed[p]) \ {who}
  BY <1>3, WithoutFacts
<1> HIDE DEF a
<1>5. \A q \in Patterns : subscribed'[q] = IF q = p THEN a ELSE subscribed[q]
  BY <1>1, <1>2 DEF a
<1>6. subscribed' \in [Patterns -> Seq(Subscribers)]
  BY <1>1, <1>2, <1>4 DEF a
<1>7. BusInv'
  BY <1>1, <1>2, <1>4, <1>5, <1>6, TableBus
<1> QED
  BY <1>1, <1>4, <1>5, <1>7

LEMMA StartBusBus == ASSUME BusInv, StartBus PROVE BusInv'
<1>1. /\ running' = TRUE /\ UNCHANGED <<queue, subscribed, event, calls, taken, heard, times>>
  BY DEF StartBus
<1>2. BusTypeOK(Points, 0..MaxReadings)'
  BY <1>1 DEF BusInv, BusTypeOK, Events
<1>3. OncePerCaller'
  BY <1>1 DEF BusInv, OncePerCaller
<1>4. InOrder'
  BY <1>1 DEF BusInv, InOrder
<1> QED
  BY <1>2, <1>3, <1>4 DEF BusInv

LEMMA StopBusBus == ASSUME BusInv, StopBus PROVE BusInv'
<1>1. /\ running' = FALSE /\ event' = NoEvent /\ calls' = <<>>
      /\ UNCHANGED <<queue, subscribed, taken, heard, times>>
  BY DEF StopBus
<1>2. BusTypeOK(Points, 0..MaxReadings)'
  BY <1>1, EmptySeq DEF BusInv, BusTypeOK, Events
<1>3. OncePerCaller'
  BY <1>1, NothingIn, EmptySeq DEF BusInv, OncePerCaller
<1>4. InOrder'
  BY <1>1 DEF BusInv, InOrder
<1> QED
  BY <1>2, <1>3, <1>4 DEF BusInv

LEMMA IdleBus == ASSUME BusInv, UNCHANGED busVars PROVE BusInv'
<1>1. UNCHANGED <<running, queue, subscribed, event, calls, taken, heard, times>>
  BY DEF busVars
<1>2. BusTypeOK(Points, 0..MaxReadings)'
  BY <1>1 DEF BusInv, BusTypeOK, Events
<1>3. OncePerCaller'
  BY <1>1 DEF BusInv, OncePerCaller
<1>4. InOrder'
  BY <1>1 DEF BusInv, InOrder
<1> QED
  BY <1>2, <1>3, <1>4 DEF BusInv

\* Every step of the readers, of the streams and of the engine keeps the bus in
\* order.
LEMMA BusStep == ASSUME BusInv, ValuesOK, [Next]_vars PROVE BusInv'
<1>1. ASSUME NEW type \in Types, NEW about \in Points, NEW value \in 0..MaxReadings,
             PublishNowait(type, about, value)
      PROVE  BusInv'
  BY <1>1, AcceptBus, IdleBus DEF PublishNowait
<1>2. ASSUME NEW r \in Readers, Saves(r) PROVE BusInv'
  <2>1. reader[r].point \in Points /\ reader[r].value \in 0..MaxReadings
    BY <1>2 DEF Saves, ValuesOK
  <2>2. Reported \in Types
    BY DEF Reported, Types
  <2>3. PublishNowait(Reported, reader[r].point, reader[r].value)
    BY <1>2 DEF Saves, Reported
  <2> QED
    BY <1>1, <2>1, <2>2, <2>3
<1>3. ASSUME NEW r \in Readers,
             \/ \E p \in Points : ReadBegins(r, p)
             \/ ReadReturns(r) \/ ReadFails(r) \/ SaveFails(r)
      PROVE  BusInv'
  BY <1>3, IdleBus DEF ReadBegins, ReadReturns, ReadFails, SaveFails
<1>4. ASSUME NEW p \in Points, QualityChanges(p) PROVE BusInv'
  <2>1. "point.quality_changed" \in Types /\ 0 \in 0..MaxReadings
    BY LimitsAssumption DEF Types, LimitsAssumption
  <2> QED
    BY <1>1, <1>4, <2>1 DEF QualityChanges
<1>5. CASE Dispatches
  BY <1>5, TakeOffBus DEF Dispatches
<1>6. CASE Persisted \/ PersistFails \/ Watched \/ Streamed
  BY <1>6, ReturnsBus DEF Persisted, PersistFails, Watched, Streamed
<1>7. ASSUME NEW pattern \in WatchedFor, Watches(pattern) \/ Unwatches(pattern) PROVE BusInv'
  <2>1. pattern \in Patterns /\ "watcher" \in Subscribers
    BY WatchedAssumption, PeopleAssumption DEF WatchedAssumption, PeopleAssumption
  <2> QED
    BY <1>7, <2>1, SubscribeBus, UnsubscribeBus DEF Watches, Unwatches
<1>8. CASE Starts
  BY <1>8, StartBusBus DEF Starts
<1>9. CASE Wires \/ Binds
  <2>1. /\ "point.reported" \in Patterns /\ "engine" \in Subscribers /\ "stream" \in Subscribers
        /\ Persists[1] = "point.reported" /\ Persists[2] = "engine"
    BY PeopleAssumption DEF PeopleAssumption, Patterns, Types, Persists
  <2>2. "engine" \notin Range(<<>>)
    BY NothingIn
  <2> QED
    BY <1>9, <2>1, <2>2, SubscribeBus DEF Wires, Binds
<1>10. CASE Stops
  BY <1>10, StopBusBus DEF Stops
<1>11. ASSUME NEW c \in Clients, Connects(c) \/ Disconnects(c) \/ Yields(c) PROVE BusInv'
  BY <1>11, IdleBus DEF Connects, Disconnects, Yields
<1>12. CASE UNCHANGED vars
  BY <1>12, IdleBus DEF vars
<1> QED
  BY <1>2, <1>3, <1>4, <1>5, <1>6, <1>7, <1>8, <1>9, <1>10, <1>11, <1>12 DEF Next

---------------------------------------------------------------------------
(* The subscription that persists.                                         *)

LEMMA ReportedFacts ==
    /\ Persists[1] = Reported /\ Persists[2] = "engine" /\ Reported \in Patterns
    /\ Reported \in Types /\ Reported # "*" /\ Reported # Prefix
    /\ Persists = <<Reported, "engine">> /\ Streams = <<Reported, "stream">>
    /\ Persists \in Subscriptions /\ Streams \in Subscriptions
    /\ Persists # Streams
BY PeopleAssumption
   DEF PeopleAssumption, Persists, Streams, Reported, Patterns, Types, Prefix, Subscriptions

LEMMA StaysWired == ASSUME "engine" \in Range(subscribed'[Reported]) PROVE WiredFirst'
BY NothingIn, ReportedFacts DEF WiredFirst, Wired

\* A step that leaves the table alone finds the engine wired, or changes nothing
\* it waits for.
LEMMA StaysFirst ==
    ASSUME WiredFirst, UNCHANGED subscribed,
           Wired \/ UNCHANGED <<queue, event, heard, reader>>
    PROVE  WiredFirst'
BY DEF WiredFirst, Wired

LEMMA WiredStep == ASSUME BusInv, WiredFirst, ValuesOK, [Next]_vars PROVE WiredFirst'
<1>1. ASSUME NEW r \in Readers,
             \/ \E p \in Points : ReadBegins(r, p)
             \/ ReadReturns(r) \/ ReadFails(r) \/ Saves(r) \/ SaveFails(r)
      PROVE  WiredFirst'
  <2>1. UNCHANGED subscribed
    BY <1>1 DEF ReadBegins, ReadReturns, ReadFails, Saves, SaveFails, PublishNowait, Accept, busVars
  <2>2. Wired
    BY <1>1 DEF ReadBegins, ReadReturns, ReadFails, Saves, SaveFails, WiredFirst
  <2> QED
    BY <2>1, <2>2, StaysFirst
<1>2. ASSUME NEW p \in Points, QualityChanges(p) PROVE WiredFirst'
  BY <1>2, StaysFirst DEF QualityChanges, PublishNowait, Accept, busVars
<1>3. CASE Dispatches
  BY <1>3, StaysFirst DEF Dispatches, TakeOff, WiredFirst
<1>4. CASE Persisted \/ PersistFails \/ Watched \/ Streamed
  BY <1>4, StaysFirst DEF Persisted, PersistFails, Watched, Streamed, Returns, WiredFirst
<1>5. ASSUME NEW pattern \in WatchedFor, Watches(pattern) \/ Unwatches(pattern)
      PROVE  WiredFirst'
  <2>1. pattern \in Patterns /\ "watcher" \in Subscribers
    BY WatchedAssumption, PeopleAssumption DEF WatchedAssumption, PeopleAssumption
  <2>2. CASE Watches(pattern)
    <3>1. /\ \A q \in Patterns : q # pattern => subscribed'[q] = subscribed[q]
          /\ Range(subscribed'[pattern]) = Range(subscribed[pattern]) \cup {"watcher"}
          /\ Wired
      BY <2>1, <2>2, SubscribeBus DEF Watches
    <3> QED
      BY <3>1, StaysWired, ReportedFacts DEF WiredFirst
  <2>3. CASE Unwatches(pattern)
    <3>1. /\ \A q \in Patterns : q # pattern => subscribed'[q] = subscribed[q]
          /\ Range(subscribed'[pattern]) = Range(subscribed[pattern]) \ {"watcher"}
          /\ "watcher" \in Range(subscribed[pattern])
          /\ UNCHANGED <<queue, event, heard, reader>>
      BY <2>1, <2>3, UnsubscribeBus DEF Unwatches, valueVars
    <3>2. CASE Wired
      BY <3>1, <3>2, StaysWired, ReportedFacts DEF WiredFirst
    <3>3. CASE ~Wired
      <4>1. pattern # Reported
        BY <3>1, <3>3, NothingIn, ReportedFacts DEF Wired
      <4> QED
        BY <3>1, <3>3, <4>1, ReportedFacts DEF WiredFirst, Wired
    <3> QED
      BY <3>2, <3>3
  <2> QED
    BY <1>5, <2>2, <2>3
<1>6. CASE Starts
  BY <1>6, StaysFirst DEF Starts, StartBus, valueVars
<1>7. CASE Wires
  <2>1. "engine" \in Subscribers /\ "engine" \notin Range(<<>>)
    BY PeopleAssumption, NothingIn DEF PeopleAssumption
  <2>2. Range(subscribed'[Reported]) = Range(subscribed[Reported]) \cup {"engine"}
    BY <1>7, <2>1, SubscribeBus, ReportedFacts DEF Wires
  <2> QED
    BY <2>2, StaysWired
<1>8. CASE Binds
  <2>1. "stream" \in Subscribers /\ "point.reported" = Reported
    BY PeopleAssumption DEF PeopleAssumption, Reported
  <2>2. Range(subscribed'[Reported]) = Range(subscribed[Reported]) \cup {"stream"} /\ Wired
    BY <1>8, <2>1, SubscribeBus, ReportedFacts DEF Binds
  <2> QED
    BY <2>2, StaysWired DEF WiredFirst
<1>9. CASE Stops
  BY <1>9, StaysFirst DEF Stops, StopBus
<1>10. ASSUME NEW c \in Clients, Connects(c) \/ Disconnects(c) \/ Yields(c) PROVE WiredFirst'
  BY <1>10, StaysFirst DEF Connects, Disconnects, Yields, busVars, valueVars
<1>11. CASE UNCHANGED vars
  BY <1>11, StaysFirst DEF vars, busVars, valueVars
<1> QED
  BY <1>1, <1>2, <1>3, <1>4, <1>5, <1>6, <1>7, <1>8, <1>9, <1>10, <1>11 DEF Next

---------------------------------------------------------------------------
(* The values.                                                             *)

Reader == [pc : {"idle", "reading", "saving"}, point : Points \cup {"none"},
           value : 0..MaxReadings]
Row == [value : 0..MaxReadings, raw : BOOLEAN]

LEMMA IdleFacts == Idle \in Reader /\ Idle.pc = "idle"
BY LimitsAssumption DEF LimitsAssumption, Idle, Reader

\* A point is read and its reading is saved: only the one reader moves.
LEMMA ReaderMoves ==
    ASSUME ValuesOK, NEW r \in Readers, NEW to \in Reader, to.pc # "idle" => to.point \in Points,
           reader' = [reader EXCEPT ![r] = to],
           stored' \in [Points -> Row], readings' \in [Points -> 0..MaxReadings],
           saved' \in [Points -> 0..MaxReadings], spoiled' \subseteq Points, faults' \in 0..MaxFaults
    PROVE  ValuesOK'
<1>1. reader \in [Readers -> Reader]
  BY DEF ValuesOK, Reader
<1>2. reader' \in [Readers -> Reader]
  BY <1>1
<1>3. \A s \in Readers : reader'[s].pc # "idle" => reader'[s].point \in Points
  BY <1>1 DEF ValuesOK
<1> QED
  BY <1>2, <1>3 DEF ValuesOK, Reader, Row

LEMMA ReadBeginsValues ==
    ASSUME ValuesOK, NEW r \in Readers, NEW p \in Points, ReadBegins(r, p) PROVE ValuesOK'
<1> DEFINE to == [Idle EXCEPT !.pc = "reading", !.point = p]
<1>1. to \in Reader /\ to.point = p
  BY IdleFacts DEF Reader
<1>2. reader' = [reader EXCEPT ![r] = to] /\ UNCHANGED <<stored, readings, saved, spoiled, faults>>
  BY DEF ReadBegins
<1> HIDE DEF to
<1> QED
  BY <1>1, <1>2, ReaderMoves DEF ValuesOK, Row

LEMMA ReadReturnsValues == ASSUME ValuesOK, NEW r \in Readers, ReadReturns(r) PROVE ValuesOK'
<1> DEFINE p == reader[r].point
           n == readings[p] + 1
           to == [reader[r] EXCEPT !.pc = "saving", !.value = n]
<1>1. p \in Points /\ reader[r] \in Reader /\ reader \in [Readers -> Reader]
  BY DEF ReadReturns, ValuesOK, Reader
<1>2. n \in 0..MaxReadings /\ readings' = [readings EXCEPT ![p] = n] /\ readings'[p] = n
  BY <1>1, LimitsAssumption DEF LimitsAssumption, ReadReturns, ValuesOK
<1>3. readings' \in [Points -> 0..MaxReadings]
  BY <1>1, <1>2 DEF ValuesOK
<1>4. /\ reader' = [reader EXCEPT ![r].pc = "saving", ![r].value = readings'[p]]
      /\ UNCHANGED <<stored, saved, spoiled, faults>>
  BY DEF ReadReturns
<1>5. reader' = [reader EXCEPT ![r] = to]
  BY <1>1, <1>2, <1>4
<1>6. to \in Reader /\ to.point \in Points
  BY <1>1, <1>2 DEF Reader
<1> HIDE DEF to, p, n
<1> QED
  BY <1>3, <1>4, <1>5, <1>6, ReaderMoves DEF ValuesOK, Row

LEMMA SavesValues == ASSUME ValuesOK, NEW r \in Readers, Saves(r) PROVE ValuesOK'
<1> DEFINE p == reader[r].point
           row == [value |-> reader[r].value, raw |-> TRUE]
<1>1. p \in Points /\ row \in Row /\ reader[r].value \in 0..MaxReadings
  BY DEF Saves, ValuesOK, Row
<1>2. /\ reader' = [reader EXCEPT ![r] = Idle] /\ stored' = [stored EXCEPT ![p] = row]
      /\ saved' = [saved EXCEPT ![p] = reader[r].value]
      /\ spoiled' \in {spoiled, spoiled \cup {p}} /\ UNCHANGED <<readings, faults>>
  BY DEF Saves
<1> HIDE DEF p, row
<1>3. stored' \in [Points -> Row]
  BY <1>1, <1>2 DEF ValuesOK, Row
<1>4. saved' \in [Points -> 0..MaxReadings] /\ spoiled' \subseteq Points
  BY <1>1, <1>2 DEF ValuesOK
<1> QED
  BY <1>2, <1>3, <1>4, ReaderMoves, IdleFacts DEF ValuesOK

LEMMA SaveFailsValues == ASSUME ValuesOK, NEW r \in Readers, SaveFails(r) PROVE ValuesOK'
<1> DEFINE p == reader[r].point
           row == [value |-> reader[r].value, raw |-> TRUE]
<1>1. p \in Points /\ row \in Row
  BY DEF SaveFails, ValuesOK, Row
<1>2. /\ reader' = [reader EXCEPT ![r] = Idle] /\ faults < MaxFaults /\ faults' = faults + 1
      /\ stored' \in {stored, [stored EXCEPT ![p] = row]}
      /\ spoiled' = spoiled \cup {p} /\ UNCHANGED <<readings, saved>>
  BY DEF SaveFails
<1> HIDE DEF p, row
<1>3. stored' \in [Points -> Row] /\ spoiled' \subseteq Points
  <2>1. stored \in [Points -> Row]
    BY DEF ValuesOK, Row
  <2>2. [stored EXCEPT ![p] = row] \in [Points -> Row]
    BY <1>1, <2>1
  <2> QED
    BY <1>1, <1>2, <2>1, <2>2 DEF ValuesOK
<1>4. faults' \in 0..MaxFaults
  BY <1>2, LimitsAssumption DEF LimitsAssumption, ValuesOK
<1> QED
  BY <1>2, <1>3, <1>4, ReaderMoves, IdleFacts DEF ValuesOK

\* The dispatcher writes, or tries to.
LEMMA PersistsValues ==
    ASSUME BusInv, ValuesOK, Persisted \/ PersistFails PROVE ValuesOK'
<1> DEFINE row == [value |-> event.value, raw |-> FALSE]
<1>1. event \in Ev /\ taken \in Nat
  BY ReturnsBus DEF Persisted, PersistFails, BusInv, BusTypeOK
<1>2. event.about \in Points /\ event.value \in 0..MaxReadings
  BY <1>1, EventFacts
<1>3. row \in Row
  BY <1>2 DEF Row
<1>4. /\ stored' \in {stored, [stored EXCEPT ![event.about] = row]}
      /\ spoiled' \in {spoiled, spoiled \cup {event.about}}
      /\ faults' = faults \/ (faults < MaxFaults /\ faults' = faults + 1)
      /\ UNCHANGED <<reader, readings, saved>>
  BY DEF Persisted, PersistFails
<1> HIDE DEF row
<1>5. stored' \in [Points -> Row] /\ spoiled' \subseteq Points
  <2>1. stored \in [Points -> Row]
    BY DEF ValuesOK, Row
  <2>2. [stored EXCEPT ![event.about] = row] \in [Points -> Row]
    BY <1>2, <1>3, <2>1
  <2> QED
    BY <1>2, <1>4, <2>1, <2>2 DEF ValuesOK
<1>6. faults' \in 0..MaxFaults
  BY <1>4, LimitsAssumption DEF LimitsAssumption, ValuesOK
<1> QED
  BY <1>4, <1>5, <1>6 DEF ValuesOK, Row

LEMMA ValuesElsewhere ==
    ASSUME ValuesOK, UNCHANGED <<reader, stored, readings, saved, faults>>, spoiled' \subseteq Points
    PROVE  ValuesOK'
BY DEF ValuesOK

LEMMA ValuesStep == ASSUME BusInv, ValuesOK, [Next]_vars PROVE ValuesOK'
<1>1. ASSUME NEW r \in Readers, ReadFails(r) PROVE ValuesOK'
  BY <1>1, ReaderMoves, IdleFacts DEF ReadFails, ValuesOK, Row
<1>2. ASSUME NEW p \in Points, QualityChanges(p) PROVE ValuesOK'
  BY <1>2, ValuesElsewhere DEF QualityChanges, valueVars, ValuesOK
<1>3. CASE Dispatches \/ Watched \/ Streamed
  BY <1>3, ValuesElsewhere DEF Dispatches, Watched, Streamed, ValuesOK
<1>4. ASSUME NEW pattern \in WatchedFor, Watches(pattern) \/ Unwatches(pattern)
      PROVE  ValuesOK'
  BY <1>4, ValuesElsewhere DEF Watches, Unwatches, valueVars, ValuesOK
<1>5. CASE Starts \/ Wires \/ Binds
  BY <1>5, ValuesElsewhere DEF Starts, Wires, Binds, valueVars, ValuesOK
<1>6. CASE Stops
  <2>1. queue \in Seq(Ev) /\ taken \in Nat /\ event \in Ev \cup {NoEvent}
    BY DEF BusInv, BusTypeOK, Ev
  <2>2. \A i \in DOMAIN queue : queue[i].about \in Points
    BY <2>1, SeqFacts, EventFacts
  <2>3. event # NoEvent => event.about \in Points
    BY <2>1, EventFacts
  <2>4. spoiled' \subseteq Points
    BY <1>6, <2>2, <2>3 DEF Stops, ValuesOK
  <2> QED
    BY <1>6, <2>4, ValuesElsewhere DEF Stops
<1>7. ASSUME NEW c \in Clients, Connects(c) \/ Disconnects(c) \/ Yields(c) PROVE ValuesOK'
  BY <1>7, ValuesElsewhere DEF Connects, Disconnects, Yields, valueVars, ValuesOK
<1>8. CASE UNCHANGED vars
  BY <1>8, ValuesElsewhere DEF vars, valueVars, ValuesOK
<1> QED
  BY <1>1, <1>2, <1>3, <1>4, <1>5, <1>6, <1>7, <1>8, ReadBeginsValues, ReadReturnsValues,
     SavesValues, SaveFailsValues, PersistsValues DEF Next

---------------------------------------------------------------------------
(* The line for the write lock.                                            *)

\* The dispatcher gets in line if its callback persists, unless it stands there.
LEMMA LineFacts ==
    ASSUME NEW ws \in Seq(WriterSet), Distinct(ws), NEW cs, Dispatcher \notin Range(ws)
    PROVE  /\ Line(ws, cs) \in Seq(WriterSet) /\ Distinct(Line(ws, cs))
           /\ Range(Line(ws, cs)) = Range(ws) \cup {d \in {Dispatcher} : PersistsNow(cs)}
<1>1. Dispatcher \in WriterSet
  BY DEF WriterSet
<1>2. CASE PersistsNow(cs)
  <2>1. Line(ws, cs) = Append(ws, Dispatcher)
    BY <1>2 DEF Line, PersistsNow
  <2> QED
    BY <1>1, <1>2, <2>1, GrowsOnce
<1>3. CASE ~PersistsNow(cs)
  <2>1. Line(ws, cs) = ws
    BY <1>3 DEF Line, PersistsNow
  <2> QED
    BY <1>3, <2>1
<1> QED
  BY <1>2, <1>3

LEMMA QueuedFacts ==
    ASSUME Queued(writers, Saving, calls)
    PROVE  /\ writers \in Seq(WriterSet) /\ Distinct(writers) /\ Saving \subseteq Readers
           /\ Dispatcher \notin Saving
           /\ Range(writers) \ {Dispatcher} = Saving
           /\ PersistsNow(calls) <=> Dispatcher \in Range(writers)
BY ReadersAssumption DEF ReadersAssumption, Queued, Saving, WriterSet, Dispatcher

LEMMA SavingChanges ==
    ASSUME ValuesOK, NEW r \in Readers, NEW to, reader' = [reader EXCEPT ![r] = to]
    PROVE  Saving' = IF to.pc = "saving" THEN Saving \cup {r} ELSE Saving \ {r}
BY DEF Saving, ValuesOK

LEMMA LineStep ==
    ASSUME BusInv, ValuesOK, Queued(writers, Saving, calls), [Next]_vars
    PROVE  Queued(writers', Saving', calls')
<1> USE QueuedFacts
<1>2. Range(writers) = Saving \cup {d \in {Dispatcher} : PersistsNow(calls)}
  BY DEF Queued
<1>3. ASSUME UNCHANGED <<writers, calls>>, Saving' = Saving PROVE Queued(writers', Saving', calls')
  BY <1>3
<1>4. ASSUME NEW r \in Readers, \E p \in Points : ReadBegins(r, p)
      PROVE  Queued(writers', Saving', calls')
  <2>1. PICK p \in Points : ReadBegins(r, p)
    BY <1>4
  <2> DEFINE to == [Idle EXCEPT !.pc = "reading", !.point = p]
  <2>2. to.pc = "reading" /\ reader' = [reader EXCEPT ![r] = to] /\ reader[r].pc = "idle"
    BY <2>1, IdleFacts DEF ReadBegins, Reader
  <2> HIDE DEF to
  <2>3. Saving' = Saving \ {r} /\ r \notin Saving
    BY <2>2, SavingChanges DEF Saving
  <2> QED
    BY <1>3, <2>1, <2>3 DEF ReadBegins, busVars
<1>5. ASSUME NEW r \in Readers, ReadReturns(r) PROVE Queued(writers', Saving', calls')
  <2>1. r \notin Saving /\ writers' = Append(writers, r) /\ calls' = calls /\ r # Dispatcher
    BY <1>5, ReadersAssumption
       DEF ReadersAssumption, ReadReturns, Saving, busVars, Dispatcher
  <2>2. Saving' = Saving \cup {r}
    BY <1>5 DEF ReadReturns, Saving, ValuesOK
  <2>3. r \in WriterSet /\ r \notin Range(writers)
    BY <2>1 DEF WriterSet
  <2>4. /\ writers' \in Seq(WriterSet) /\ Distinct(writers')
        /\ Range(writers') = Range(writers) \cup {r}
    BY <2>1, <2>3, GrowsOnce
  <2> QED
    BY <1>2, <2>1, <2>2, <2>4 DEF Queued
<1>6. ASSUME NEW r \in Readers, ReadFails(r) PROVE Queued(writers', Saving', calls')
  <2>1. Saving' = Saving \ {r} /\ r \notin Saving
    BY <1>6, SavingChanges, IdleFacts DEF ReadFails, Saving
  <2> QED
    BY <1>3, <1>6, <2>1 DEF ReadFails, busVars
<1>7. ASSUME NEW r \in Readers, Saves(r) PROVE Queued(writers', Saving', calls')
  <2>1. /\ writers # <<>> /\ Head(writers) = r /\ writers' = Tail(writers) /\ calls' = calls
        /\ r # Dispatcher
    BY <1>7, ReadersAssumption
       DEF ReadersAssumption, Saves, Holds, PublishNowait, Accept, busVars, Dispatcher
  <2>2. Saving' = Saving \ {r}
    BY <1>7, SavingChanges, IdleFacts DEF Saves
  <2>3. /\ writers' \in Seq(WriterSet) /\ Distinct(writers')
        /\ Range(writers) = Range(writers') \cup {r} /\ r \notin Range(writers')
    BY <2>1, ShrinksOnce
  <2> QED
    BY <1>2, <2>1, <2>2, <2>3 DEF Queued
<1>8. ASSUME NEW r \in Readers, SaveFails(r) PROVE Queued(writers', Saving', calls')
  <2>1. writers' = Without(writers, r) /\ calls' = calls /\ r # Dispatcher
    BY <1>8, ReadersAssumption DEF ReadersAssumption, SaveFails, busVars, Dispatcher
  <2>2. Saving' = Saving \ {r}
    BY <1>8, SavingChanges, IdleFacts DEF SaveFails
  <2>3. /\ writers' \in Seq(WriterSet) /\ Distinct(writers')
        /\ Range(writers') = Range(writers) \ {r}
    BY <2>1, WithoutFacts
  <2> QED
    BY <1>2, <2>1, <2>2, <2>3 DEF Queued
<1>9. ASSUME UNCHANGED reader PROVE Saving' = Saving
  BY <1>9 DEF Saving
<1>10. ASSUME writers' = Line(writers, calls'), ~PersistsNow(calls), UNCHANGED reader
       PROVE  Queued(writers', Saving', calls')
  <2>1. Dispatcher \notin Range(writers) /\ Range(writers) = Saving
    BY <1>10
  <2> QED
    BY <1>9, <1>10, <2>1, LineFacts DEF Queued
<1>11. CASE Dispatches
  <2>1. ~PersistsNow(calls)
    BY <1>11, TakeOffBus DEF Dispatches, PersistsNow, BusInv, BusTypeOK
  <2> QED
    BY <1>10, <1>11, <2>1 DEF Dispatches
<1>12. CASE Watched \/ Streamed
  <2>1. ~PersistsNow(calls)
    BY <1>12, ReportedFacts DEF Watched, Streamed, PersistsNow
  <2> QED
    BY <1>10, <1>12, <2>1 DEF Watched, Streamed
<1>13. CASE Persisted \/ PersistFails
  <2> DEFINE ws == Tail(writers)
  <2>1. /\ writers # <<>> /\ Head(writers) = Dispatcher
        /\ writers' = Line(ws, calls') /\ UNCHANGED reader
    BY <1>13 DEF Persisted, PersistFails, Holds
  <2>2. /\ ws \in Seq(WriterSet) /\ Distinct(ws) /\ Dispatcher \notin Range(ws)
        /\ Range(writers) = Range(ws) \cup {Dispatcher}
    BY <2>1, ShrinksOnce
  <2> HIDE DEF ws
  <2>3. Range(ws) = Saving
    BY <2>2
  <2> QED
    BY <1>9, <2>1, <2>2, <2>3, LineFacts DEF Queued
<1>14. ASSUME UNCHANGED valueVars, UNCHANGED calls PROVE Queued(writers', Saving', calls')
  BY <1>3, <1>9, <1>14 DEF valueVars
<1>15. ASSUME NEW p \in Points, QualityChanges(p) PROVE Queued(writers', Saving', calls')
  BY <1>14, <1>15 DEF QualityChanges, PublishNowait, Accept, busVars
<1>16. ASSUME NEW pattern \in WatchedFor, Watches(pattern) \/ Unwatches(pattern)
       PROVE  Queued(writers', Saving', calls')
  BY <1>14, <1>16 DEF Watches, Unwatches, Subscribe, Unsubscribe
<1>17. CASE Starts \/ Wires \/ Binds
  BY <1>14, <1>17 DEF Starts, Wires, Binds, StartBus, Subscribe
<1>18. CASE Stops
  <2>1. writers' = Without(writers, Dispatcher) /\ calls' = <<>> /\ UNCHANGED reader
    BY <1>18 DEF Stops, StopBus
  <2>2. /\ writers' \in Seq(WriterSet) /\ Distinct(writers')
        /\ Range(writers') = Range(writers) \ {Dispatcher}
    BY <2>1, WithoutFacts
  <2>3. ~PersistsNow(calls')
    BY <2>1 DEF PersistsNow
  <2> QED
    BY <1>9, <2>1, <2>2, <2>3 DEF Queued
<1>19. ASSUME NEW c \in Clients, Connects(c) \/ Disconnects(c) \/ Yields(c)
       PROVE  Queued(writers', Saving', calls')
  BY <1>14, <1>19 DEF Connects, Disconnects, Yields, busVars
<1>20. CASE UNCHANGED vars
  BY <1>14, <1>20 DEF vars, busVars
<1> QED
  BY <1>4, <1>5, <1>6, <1>7, <1>8, <1>11, <1>12, <1>13, <1>15, <1>16, <1>17, <1>18, <1>19,
     <1>20 DEF Next

---------------------------------------------------------------------------
(* What is still to be written.                                            *)

\* An event comes to the end of the queue.
LEMMA ToldAfterAppend ==
    ASSUME NEW S, NEW q \in Seq(S), NEW e \in S, NEW p
    PROVE  /\ Tells(e, p) => ToldLast(Append(q, e), p, e.value)
           /\ ~Tells(e, p) => /\ \A v : ToldLast(q, p, v) => ToldLast(Append(q, e), p, v)
                              /\ Untold(q, p) => Untold(Append(q, e), p)
<1> DEFINE a == Append(q, e)
           n == Len(q) + 1
<1>1. /\ DOMAIN a = 1..n /\ DOMAIN q = 1..Len(q) /\ Len(q) \in Nat
      /\ \A i \in DOMAIN q : a[i] = q[i]
      /\ a[n] = e
  BY GrowsOnce
<1> HIDE DEF a
<1>2. ASSUME Tells(e, p) PROVE ToldLast(a, p, e.value)
  <2>1. n \in DOMAIN a /\ \A j \in DOMAIN a : j <= n
    BY <1>1
  <2>2. Tells(a[n], p) /\ a[n].value = e.value
    BY <1>1, <1>2
  <2> QED
    BY <2>1, <2>2 DEF ToldLast
<1>3. ASSUME ~Tells(e, p), NEW v, ToldLast(q, p, v) PROVE ToldLast(a, p, v)
  <2>1. PICK i \in DOMAIN q : /\ Tells(q[i], p) /\ q[i].value = v
                              /\ \A j \in DOMAIN q : Tells(q[j], p) => j <= i
    BY <1>3 DEF ToldLast
  <2>2. i \in DOMAIN a /\ a[i] = q[i]
    BY <1>1
  <2>3. ASSUME NEW j \in DOMAIN a, Tells(a[j], p) PROVE j <= i
    <3>1. j \in DOMAIN q /\ a[j] = q[j]
      BY <1>1, <1>3, <2>3
    <3> QED
      BY <2>1, <2>3, <3>1
  <2> QED
    BY <2>1, <2>2, <2>3 DEF ToldLast
<1>4. ASSUME ~Tells(e, p), Untold(q, p) PROVE Untold(a, p)
  <2> SUFFICES ASSUME NEW j \in DOMAIN a PROVE ~Tells(a[j], p)
    BY DEF Untold
  <2>1. CASE j = n
    BY <1>1, <1>4, <2>1
  <2>2. CASE j # n
    BY <1>1, <1>4, <2>2 DEF Untold
  <2> QED
    BY <2>1, <2>2
<1> QED
  BY <1>2, <1>3, <1>4 DEF a

\* The first event leaves the queue.
LEMMA ToldAfterTail ==
    ASSUME NEW S, NEW q \in Seq(S), q # <<>>, NEW p
    PROVE  /\ \A v : ToldLast(q, p, v) =>
                 \/ ToldLast(Tail(q), p, v)
                 \/ Untold(Tail(q), p) /\ Tells(Head(q), p) /\ Head(q).value = v
           /\ Untold(q, p) => Untold(Tail(q), p) /\ ~Tells(Head(q), p)
<1> DEFINE t == Tail(q)
           h == Head(q)
<1>1. /\ DOMAIN t = 1..Len(q) - 1 /\ DOMAIN q = 1..Len(q) /\ Len(q) \in Nat \ {0}
      /\ \A i \in 1..Len(q) - 1 : t[i] = q[i + 1]
      /\ h = q[1]
  BY ShrinksOnce
<1> HIDE DEF t, h
<1>2. ASSUME NEW v, ToldLast(q, p, v)
      PROVE  ToldLast(t, p, v) \/ (Untold(t, p) /\ Tells(h, p) /\ h.value = v)
  <2>1. PICK i \in DOMAIN q : /\ Tells(q[i], p) /\ q[i].value = v
                              /\ \A j \in DOMAIN q : Tells(q[j], p) => j <= i
    BY <1>2 DEF ToldLast
  <2>2. CASE i = 1
    <3>1. ASSUME NEW j \in DOMAIN t PROVE ~Tells(t[j], p)
      <4>1. j + 1 \in DOMAIN q /\ t[j] = q[j + 1] /\ ~(j + 1 <= 1)
        BY <1>1
      <4> QED
        BY <2>1, <2>2, <4>1
    <3> QED
      BY <1>1, <2>1, <2>2, <3>1 DEF Untold
  <2>3. CASE i # 1
    <3> DEFINE k == i - 1
    <3>1. k \in DOMAIN t /\ t[k] = q[i]
      BY <1>1, <2>3
    <3>2. ASSUME NEW j \in DOMAIN t, Tells(t[j], p) PROVE j <= k
      <4>1. j + 1 \in DOMAIN q /\ t[j] = q[j + 1]
        BY <1>1
      <4>2. j + 1 <= i
        BY <2>1, <3>2, <4>1
      <4> QED
        BY <1>1, <4>2
    <3> HIDE DEF k
    <3> QED
      BY <2>1, <3>1, <3>2 DEF ToldLast
  <2> QED
    BY <2>2, <2>3
<1>3. ASSUME Untold(q, p) PROVE Untold(t, p) /\ ~Tells(h, p)
  <2>1. \A j \in DOMAIN t : j + 1 \in DOMAIN q /\ t[j] = q[j + 1]
    BY <1>1
  <2>2. 1 \in DOMAIN q
    BY <1>1
  <2> QED
    BY <1>1, <1>3, <2>1, <2>2 DEF Untold
<1> QED
  BY <1>2, <1>3 DEF t, h

\* What the point settles on is still what it settled on: nothing was taken off
\* the queue, and the same event is still to write it, or none.
LEMMA SettlesAsBefore ==
    ASSUME NEW q, NEW e, NEW cs, NEW e2, NEW cs2, NEW p, NEW now, NEW v,
           Settles(q, e, cs, p, now, v),
           Writing(e2, cs2, p) <=> Writing(e, cs, p),
           Writing(e, cs, p) => e2.value = e.value
    PROVE  Settles(q, e2, cs2, p, now, v)
BY DEF Settles

LEMMA SettlesStep ==
    ASSUME BusInv, WiredFirst, ValuesOK, SettlesInv, [Next]_vars PROVE SettlesInv'
<1> DEFINE Good(p) == Settles(queue', event', calls', p, stored'[p].value, saved'[p])
<1>1. ASSUME \A p \in Points \ spoiled' : Good(p) PROVE SettlesInv'
  BY <1>1 DEF SettlesInv
<1> HIDE DEF Good
<1>2. SUFFICES ASSUME NEW p \in Points, p \notin spoiled' PROVE Good(p)
  BY <1>1
<1>3. spoiled \subseteq spoiled'
  BY DEF Next, vars, valueVars, ReadBegins, ReadReturns, ReadFails, Saves, SaveFails,
     QualityChanges, Dispatches, Persisted, PersistFails, Watched, Streamed, Watches, Unwatches,
     Starts, Wires, Binds, Stops, Connects, Disconnects, Yields
<1>4. Settles(queue, event, calls, p, stored[p].value, saved[p])
  BY <1>2, <1>3 DEF SettlesInv
<1>5. queue \in Seq(Ev) /\ taken \in Nat
  BY DEF BusInv, BusTypeOK, Ev
<1>6. ASSUME UNCHANGED <<queue, event, calls, saved>>, stored'[p].value = stored[p].value
      PROVE  Good(p)
  BY <1>4, <1>6 DEF Good
<1>7. ASSUME UNCHANGED busVars, UNCHANGED <<stored, saved>> PROVE Good(p)
  BY <1>6, <1>7 DEF busVars
<1>8. ASSUME NEW r \in Readers,
             \/ \E q \in Points : ReadBegins(r, q)
             \/ ReadReturns(r) \/ ReadFails(r)
      PROVE  Good(p)
  BY <1>7, <1>8 DEF ReadBegins, ReadReturns, ReadFails
<1>9. ASSUME NEW e, e.about # p \/ e.type # Reported, queue' = Append(queue, e), e \in Ev',
             taken' = taken + 1, UNCHANGED <<event, calls, saved>>,
             stored'[p].value = stored[p].value
      PROVE  Good(p)
  <2>1. queue \in Seq(Ev')
    BY <1>5, <1>9, EventsStay, SeqMonotonic
  <2>2. ~Tells(e, p)
    BY <1>9 DEF Tells
  <2>3. /\ \A v : ToldLast(queue, p, v) => ToldLast(queue', p, v)
        /\ Untold(queue, p) => Untold(queue', p)
    BY <1>9, <2>1, <2>2, ToldAfterAppend
  <2> QED
    BY <1>4, <1>9, <2>3 DEF Good, Settles
<1>10. ASSUME NEW r \in Readers, Saves(r) PROVE Good(p)
  <2> DEFINE a == reader[r].point
             v == reader[r].value
             e == [n |-> taken', type |-> Reported, about |-> a, value |-> v]
  <2>1. /\ a \in Points /\ v \in 0..MaxReadings
        /\ stored' = [stored EXCEPT ![a] = [value |-> v, raw |-> TRUE]]
        /\ saved' = [saved EXCEPT ![a] = v]
        /\ PublishNowait(Reported, a, v)
        /\ spoiled' = IF HasRoom THEN spoiled ELSE spoiled \cup {a}
    BY <1>10 DEF Saves, ValuesOK, Reported
  <2>2. CASE a # p
    <3>1. stored'[p] = stored[p] /\ saved'[p] = saved[p]
      BY <2>1, <2>2 DEF ValuesOK
    <3>2. CASE Accept(Reported, a, v)
      <4>1. /\ e \in Ev' /\ e.about = a /\ e.type = Reported /\ e.value = v
            /\ queue' = Append(queue, e) /\ taken' = taken + 1 /\ UNCHANGED <<event, calls>>
        BY <1>5, <2>1, <3>2, ReportedFacts DEF Accept, Ev, Events
      <4> HIDE DEF e
      <4>2. queue \in Seq(Ev')
        BY <1>5, <4>1, EventsStay, SeqMonotonic
      <4>3. /\ \A w : ToldLast(queue, p, w) => ToldLast(queue', p, w)
            /\ Untold(queue, p) => Untold(queue', p)
        BY <2>2, <4>1, <4>2, ToldAfterAppend DEF Tells
      <4> QED
        BY <1>4, <3>1, <4>1, <4>3 DEF Good, Settles
    <3>3. CASE UNCHANGED busVars
      BY <1>4, <3>1, <3>3 DEF Good, busVars
    <3> QED
      BY <2>1, <3>2, <3>3 DEF PublishNowait
  <2>3. CASE a = p
    <3>1. HasRoom /\ Accept(Reported, a, v)
      BY <1>2, <2>1, <2>3 DEF PublishNowait
    <3>2. /\ e \in Ev' /\ e.about = a /\ e.type = Reported /\ e.value = v
          /\ queue' = Append(queue, e) /\ taken' = taken + 1
      BY <1>5, <2>1, <3>1, ReportedFacts DEF Accept, Ev, Events
    <3>3. saved'[p] = v
      BY <2>1, <2>3 DEF ValuesOK
    <3> HIDE DEF e
    <3>4. queue \in Seq(Ev')
      BY <1>5, <3>2, EventsStay, SeqMonotonic
    <3>5. ToldLast(queue', p, v)
      BY <2>3, <3>2, <3>4, ToldAfterAppend DEF Tells
    <3> QED
      BY <3>3, <3>5 DEF Good, Settles
  <2> QED
    BY <2>2, <2>3
<1>11. ASSUME NEW r \in Readers, SaveFails(r) PROVE Good(p)
  <2>1. p # reader[r].point
    BY <1>2, <1>11 DEF SaveFails
  <2>2. stored'[p] = stored[p] /\ UNCHANGED <<queue, event, calls, saved>>
    BY <1>11, <2>1 DEF SaveFails, busVars, ValuesOK
  <2> QED
    BY <1>6, <2>2
<1>12. ASSUME NEW a \in Points, QualityChanges(a) PROVE Good(p)
  <2> DEFINE e == [n |-> taken', type |-> "point.quality_changed", about |-> a, value |-> 0]
  <2>1. PublishNowait("point.quality_changed", a, 0) /\ UNCHANGED <<stored, saved>>
    BY <1>12 DEF QualityChanges, valueVars
  <2>2. CASE Accept("point.quality_changed", a, 0)
    <3>1. /\ e \in Ev' /\ e.type # Reported
          /\ queue' = Append(queue, e) /\ taken' = taken + 1 /\ UNCHANGED <<event, calls>>
      BY <1>5, <2>2, LimitsAssumption DEF LimitsAssumption, Accept, Ev, Events, Types, Reported
    <3> HIDE DEF e
    <3> QED
      BY <1>9, <2>1, <3>1
  <2> QED
    BY <1>7, <2>1, <2>2 DEF PublishNowait
<1>13. ASSUME Dispatches PROVE Good(p)
  <2> DEFINE e == Head(queue)
  <2>1. /\ TakeOff /\ UNCHANGED <<stored, saved>>
    BY <1>13 DEF Dispatches
  <2>2. /\ e \in Ev /\ event = NoEvent /\ calls = <<>> /\ queue # <<>> /\ queue' = Tail(queue)
        /\ calls' = Matching(e) /\ event' = IF calls' = <<>> THEN NoEvent ELSE e
    BY <2>1, TakeOffBus DEF TakeOff, CallNext, BusInv, BusTypeOK
  <2> HIDE DEF e
  <2>3. /\ \A v : ToldLast(queue, p, v) =>
              \/ ToldLast(queue', p, v)
              \/ Untold(queue', p) /\ Tells(e, p) /\ e.value = v
        /\ Untold(queue, p) => Untold(queue', p) /\ ~Tells(e, p)
    BY <1>5, <2>2, ToldAfterTail DEF e
  <2>4. ~Writing(event, calls, p)
    BY <2>2, NothingIn DEF Writing
  <2>5. ASSUME Tells(e, p) PROVE Writing(event', calls', p) /\ event' = e
    <3>1. Wired /\ "engine" \in Range(subscribed[Reported])
      BY <2>2 DEF WiredFirst
    <3>2. Persists \in Range(calls')
      BY <2>2, <2>5, <3>1, MatchingFacts, ReportedFacts DEF Tells
    <3>3. calls' # <<>>
      BY <3>2, NothingIn
    <3> QED
      BY <2>2, <2>5, <3>2, <3>3 DEF Writing, Tells
  <2>6. ASSUME ~Tells(e, p) PROVE ~Writing(event', calls', p)
    <3>1. CASE calls' = <<>>
      BY <3>1, NothingIn DEF Writing
    <3>2. CASE calls' # <<>>
      <4> SUFFICES ASSUME e.about = p, Persists \in Range(calls') PROVE FALSE
        BY <2>2, <3>2 DEF Writing
      <4>1. Persists[1] \in {"*", Prefix, e.type}
        BY <2>2, MatchingFacts
      <4> QED
        BY <2>6, <4>1, ReportedFacts DEF Tells
    <3> QED
      BY <3>1, <3>2
  <2>7. CASE ToldLast(queue', p, saved[p])
    BY <2>1, <2>7 DEF Good, Settles
  <2>8. CASE Untold(queue', p) /\ Tells(e, p) /\ e.value = saved[p]
    BY <2>1, <2>5, <2>8 DEF Good, Settles
  <2>9. CASE Untold(queue', p) /\ ~Tells(e, p) /\ stored[p].value = saved[p]
    BY <2>1, <2>6, <2>9 DEF Good, Settles
  <2> QED
    BY <1>4, <2>3, <2>4, <2>7, <2>8, <2>9 DEF Settles
<1>14. ASSUME Persisted \/ PersistFails PROVE Good(p)
  <2>1. /\ calls # <<>> /\ Head(calls) = Persists /\ Returns /\ UNCHANGED saved
    BY <1>14 DEF Persisted, PersistFails
  <2>2. /\ queue' = queue /\ calls' = Tail(calls) /\ event \in Ev /\ Distinct(calls)
        /\ calls \in Seq(Subscriptions)
    BY <2>1, ReturnsBus DEF BusInv, BusTypeOK
  <2>3. Range(calls) = Range(calls') \cup {Persists} /\ Persists \notin Range(calls')
    BY <2>1, <2>2, ShrinksOnce
  <2>4. ~Writing(event', calls', p)
    BY <2>3 DEF Writing
  <2>5. CASE event.about = p
    <3>1. Persisted
      BY <1>2, <1>14, <2>5 DEF PersistFails
    <3>2. stored'[p].value = event.value
      BY <2>5, <3>1 DEF Persisted, ValuesOK
    <3>3. Writing(event, calls, p)
      BY <2>3, <2>5 DEF Writing
    <3> QED
      BY <1>4, <2>1, <2>2, <2>4, <3>2, <3>3 DEF Good, Settles
  <2>6. CASE event.about # p
    <3>1. stored'[p] = stored[p]
      BY <1>14, <2>6 DEF Persisted, PersistFails, ValuesOK
    <3>2. ~Writing(event, calls, p)
      BY <2>6 DEF Writing
    <3> QED
      BY <1>4, <2>1, <2>2, <2>4, <3>1, <3>2 DEF Good, Settles
  <2> QED
    BY <2>5, <2>6
<1>15. ASSUME Watched \/ Streamed PROVE Good(p)
  <2>1. calls # <<>> /\ Head(calls) # Persists /\ Returns /\ UNCHANGED <<stored, saved>>
    BY <1>15, ReportedFacts DEF Watched, Streamed
  <2>2. /\ queue' = queue /\ calls' = Tail(calls) /\ calls \in Seq(Subscriptions)
        /\ event' = IF calls' = <<>> THEN NoEvent ELSE event
    BY <2>1, ReturnsBus DEF BusInv, BusTypeOK
  <2>3. Range(calls) = Range(calls') \cup {Head(calls)}
    BY <2>1, <2>2, ShrinksOnce
  <2>4. Persists \in Range(calls') <=> Persists \in Range(calls)
    BY <2>1, <2>3
  <2>5. Persists \in Range(calls') => event' = event
    BY <2>2, NothingIn
  <2>6. Writing(event', calls', p) <=> Writing(event, calls, p)
    BY <2>4, <2>5 DEF Writing
  <2>7. Writing(event, calls, p) => event'.value = event.value
    BY <2>4, <2>5 DEF Writing
  <2>8. Settles(queue, event', calls', p, stored[p].value, saved[p])
    BY <1>4, <2>6, <2>7, SettlesAsBefore
  <2> QED
    BY <2>1, <2>2, <2>8 DEF Good
<1>16. ASSUME NEW pattern \in WatchedFor, Watches(pattern) \/ Unwatches(pattern) PROVE Good(p)
  BY <1>6, <1>16 DEF Watches, Unwatches, Subscribe, Unsubscribe, valueVars
<1>17. ASSUME Starts \/ Wires \/ Binds PROVE Good(p)
  BY <1>6, <1>17 DEF Starts, Wires, Binds, StartBus, Subscribe, valueVars
<1>18. ASSUME Stops PROVE Good(p)
  <2>1. /\ UNCHANGED <<queue, stored, saved>> /\ event' = NoEvent /\ calls' = <<>>
        /\ \A i \in DOMAIN queue : queue[i].about # p
        /\ event # NoEvent => event.about # p
    BY <1>2, <1>18 DEF Stops, StopBus
  <2>2. Untold(queue, p)
    BY <2>1 DEF Untold, Tells
  <2>3. ~ToldLast(queue, p, saved[p])
    BY <2>1 DEF ToldLast, Tells
  <2>4. ~Writing(event, calls, p)
    BY <2>1, NothingIn DEF Writing, BusInv, BusTypeOK
  <2>5. ~Writing(event', calls', p)
    BY <2>1, NothingIn DEF Writing
  <2> QED
    BY <1>4, <2>1, <2>2, <2>3, <2>4, <2>5 DEF Good, Settles
<1>19. ASSUME NEW c \in Clients, Connects(c) \/ Disconnects(c) \/ Yields(c) PROVE Good(p)
  BY <1>7, <1>19 DEF Connects, Disconnects, Yields, valueVars
<1>20. ASSUME UNCHANGED vars PROVE Good(p)
  BY <1>7, <1>20 DEF vars, valueVars
<1> QED
  BY <1>8, <1>10, <1>11, <1>12, <1>13, <1>14, <1>15, <1>16, <1>17, <1>18, <1>19, <1>20 DEF Next

---------------------------------------------------------------------------
(* The clients.                                                            *)

\* Later, what a client has is no newer than it was.
LEMMA AccountsLater ==
    ASSUME NEW m \in Nat, NEW n \in Nat, m <= n, NEW c, Accounts(c, m) PROVE Accounts(c, n)
<1>1. 1..m \subseteq 1..n /\ 0..m \subseteq 0..n
  OBVIOUS
<1>2. Seq(1..m) \subseteq Seq(1..n)
  BY <1>1, SeqMonotonic
<1> QED
  BY <1>1, <1>2 DEF Accounts

\* What Accounts says, of a client's queue and counts one by one.
LEMMA AccountsParts ==
    ASSUME NEW n \in Nat, NEW c \in Counted
    PROVE  Accounts(c, n) <=>
              /\ c.box \in Seq(1..n) /\ Len(c.box) <= ClientQueue
              /\ c.sent \in 0..n /\ c.dropped \in 0..n /\ c.yielded \in 0..n
              /\ \A i, j \in DOMAIN c.box : i < j => c.box[i] < c.box[j]
              /\ c.sent = c.yielded + c.dropped + Len(c.box)
              /\ ~c.on => c.box = <<>>
BY DEF Accounts, Counted

LEMMA OffAccounts ==
    ASSUME NEW n \in Nat, NEW c \in {Off, [Off EXCEPT !.on = TRUE]}
    PROVE  c \in Counted /\ Accounts(c, n) /\ \A v : Newest(c, v)
<1>1. <<>> \in Seq(1..n) /\ <<>> \in Seq(Nat) /\ Len(<<>>) = 0 /\ DOMAIN <<>> = {}
  BY EmptySeq
<1>2. Off \in Counted /\ Off.box = <<>> /\ Off.sent = 0 /\ Off.yielded = 0 /\ Off.dropped = 0
  BY <1>1 DEF Off, Counted
<1>3. c \in Counted /\ c.box = <<>> /\ c.sent = 0 /\ c.yielded = 0 /\ c.dropped = 0
  <2>1. CASE c = Off
    BY <1>2, <2>1
  <2>2. CASE c = [Off EXCEPT !.on = TRUE]
    BY <1>2, <2>2 DEF Counted
  <2> QED
    BY <2>1, <2>2
<1>4. 0 \in 0..n /\ 0 <= ClientQueue /\ 0 = 0 + 0 + 0
  BY LimitsAssumption DEF LimitsAssumption
<1>5. Accounts(c, n)
  BY <1>1, <1>3, <1>4, AccountsParts
<1> QED
  BY <1>3, <1>5 DEF Newest

Increasing(s) == \A i, j \in DOMAIN s : i < j => s[i] < s[j]

LEMMA TailIncreases ==
    ASSUME NEW S, NEW s \in Seq(S), s # <<>>, Increasing(s)
    PROVE  /\ Tail(s) \in Seq(S) /\ Len(Tail(s)) = Len(s) - 1 /\ Len(s) \in Nat \ {0}
           /\ Increasing(Tail(s))
           /\ Tail(s) # <<>> => Tail(s)[Len(Tail(s))] = s[Len(s)]
<1> DEFINE t == Tail(s)
<1>1. /\ t \in Seq(S) /\ Len(t) = Len(s) - 1 /\ Len(s) \in Nat \ {0}
      /\ DOMAIN t = 1..Len(s) - 1 /\ DOMAIN s = 1..Len(s)
      /\ \A i \in 1..Len(s) - 1 : t[i] = s[i + 1]
  BY ShrinksOnce
<1> HIDE DEF t
<1>2. ASSUME NEW i \in DOMAIN t, NEW j \in DOMAIN t, i < j PROVE t[i] < t[j]
  <2>1. i + 1 \in DOMAIN s /\ j + 1 \in DOMAIN s /\ i + 1 < j + 1
    BY <1>1, <1>2
  <2>2. s[i + 1] < s[j + 1]
    BY <2>1 DEF Increasing
  <2> QED
    BY <1>1, <2>2
<1>3. ASSUME t # <<>> PROVE t[Len(t)] = s[Len(s)]
  <2>1. Len(t) \in 1..Len(s) - 1 /\ Len(t) + 1 = Len(s)
    BY <1>1, <1>3, EmptySeq
  <2> QED
    BY <1>1, <2>1
<1> QED
  BY <1>1, <1>2, <1>3 DEF Increasing, t

LEMMA AppendIncreases ==
    ASSUME NEW n \in Nat \ {0}, NEW s \in Seq(1..n - 1), Increasing(s)
    PROVE  /\ Append(s, n) \in Seq(1..n) /\ Len(Append(s, n)) = Len(s) + 1 /\ Len(s) \in Nat
           /\ Increasing(Append(s, n))
           /\ Append(s, n)[Len(s) + 1] = n
<1> DEFINE a == Append(s, n)
<1>1. 1..n - 1 \subseteq 1..n /\ n \in 1..n
  OBVIOUS
<1>2. s \in Seq(1..n)
  BY <1>1, SeqMonotonic
<1>3. /\ a \in Seq(1..n) /\ Len(a) = Len(s) + 1 /\ Len(s) \in Nat
      /\ DOMAIN a = 1..Len(s) + 1 /\ DOMAIN s = 1..Len(s)
      /\ \A i \in DOMAIN s : a[i] = s[i]
      /\ a[Len(s) + 1] = n
  BY <1>1, <1>2, GrowsOnce
<1> HIDE DEF a
<1>4. ASSUME NEW i \in DOMAIN a, NEW j \in DOMAIN a, i < j PROVE a[i] < a[j]
  <2>1. i \in DOMAIN s /\ a[i] = s[i] /\ s[i] \in 1..n - 1
    BY <1>3, <1>4, SeqFacts
  <2>2. CASE j \in DOMAIN s
    BY <1>3, <1>4, <2>1, <2>2 DEF Increasing
  <2>3. CASE j = Len(s) + 1
    BY <1>3, <2>1, <2>3
  <2> QED
    BY <1>3, <2>2, <2>3
<1> QED
  BY <1>3, <1>4 DEF Increasing, a

\* The client takes the first of its events.
Yielded(c) == [c EXCEPT !.box = Tail(c.box), !.yielded = c.yielded + 1]

LEMMA YieldAccounts ==
    ASSUME NEW n \in Nat, NEW c \in Counted, Accounts(c, n), c.box # <<>>, c.on
    PROVE  /\ Yielded(c) \in Counted /\ Accounts(Yielded(c), n)
           /\ \A v : Newest(c, v) => Newest(Yielded(c), v)
<1> DEFINE d == Yielded(c)
           box == c.box
           sent == c.sent
           dropped == c.dropped
           yielded == c.yielded
<1>1. /\ box \in Seq(1..n) /\ Len(box) <= ClientQueue /\ Increasing(box) /\ box # <<>>
      /\ sent \in 0..n /\ dropped \in 0..n /\ yielded \in 0..n
      /\ sent = yielded + dropped + Len(box)
  BY AccountsParts DEF Increasing
<1>2. Tail(box) \in Seq(Nat) /\ yielded + 1 \in Nat /\ 1..n \subseteq Nat
  BY <1>1, TailIncreases, SeqMonotonic
<1>3. /\ d \in Counted /\ d.box = Tail(box) /\ d.yielded = yielded + 1 /\ d.sent = sent
      /\ d.dropped = dropped /\ d.on = c.on
  BY <1>2 DEF Counted, Yielded
<1> HIDE DEF d, box, sent, dropped, yielded
<1>4. /\ Tail(box) \in Seq(1..n) /\ Len(Tail(box)) = Len(box) - 1 /\ Len(box) \in Nat \ {0}
      /\ Increasing(Tail(box))
      /\ Tail(box) # <<>> => Tail(box)[Len(Tail(box))] = box[Len(box)]
  BY <1>1, TailIncreases
<1>5. /\ yielded + 1 \in 0..n /\ sent = (yielded + 1) + dropped + Len(Tail(box))
      /\ Len(Tail(box)) <= ClientQueue
  <2>1. ASSUME NEW l \in Nat \ {0}, l <= ClientQueue, sent = yielded + dropped + l
        PROVE  /\ yielded + 1 \in 0..n /\ sent = (yielded + 1) + dropped + (l - 1)
               /\ l - 1 <= ClientQueue
    <3>1. sent \in 0..n /\ dropped \in 0..n /\ yielded \in 0..n /\ ClientQueue \in Nat
      BY <1>1, LimitsAssumption DEF LimitsAssumption
    <3> QED
      BY <2>1, <3>1
  <2>2. Len(box) \in Nat \ {0} /\ Len(Tail(box)) = Len(box) - 1
    BY <1>4
  <2>3. Len(box) <= ClientQueue /\ sent = yielded + dropped + Len(box)
    BY <1>1
  <2>4. /\ yielded + 1 \in 0..n /\ sent = (yielded + 1) + dropped + (Len(box) - 1)
        /\ Len(box) - 1 <= ClientQueue
    BY <2>1, <2>2, <2>3
  <2> QED
    BY <2>2, <2>4
<1>6. Accounts(d, n)
  BY <1>1, <1>3, <1>4, <1>5, AccountsParts DEF Increasing
<1>7. ASSUME NEW v, Newest(c, v) PROVE Newest(d, v)
  BY <1>1, <1>3, <1>4, <1>7 DEF Newest, box
<1> QED
  BY <1>3, <1>6, <1>7 DEF d

\* The streams are told of an event newer than all they have.
LEMMA PutAccounts ==
    ASSUME NEW n \in Nat \ {0}, NEW c \in Counted, Accounts(c, n - 1), c.on
    PROVE  Put(c, n) \in Counted /\ Accounts(Put(c, n), n) /\ Newest(Put(c, n), n)
<1> DEFINE box == c.box
           sent == c.sent
           dropped == c.dropped
           yielded == c.yielded
           full == ~(Len(c.box) < ClientQueue)
           from == IF full THEN Tail(c.box) ELSE c.box
           more == IF full THEN c.dropped + 1 ELSE c.dropped
           d == Put(c, n)
<1>1. /\ box \in Seq(1..n - 1) /\ Len(box) <= ClientQueue /\ Increasing(box)
      /\ sent \in 0..n - 1 /\ dropped \in 0..n - 1 /\ yielded \in 0..n - 1
      /\ sent = yielded + dropped + Len(box)
  BY AccountsParts DEF Increasing
<1>2. Len(box) \in Nat /\ ClientQueue \in Nat \ {0} /\ (full => box # <<>>)
  BY <1>1, LenProperties, EmptySeq, LimitsAssumption DEF LimitsAssumption
<1>3. d = [c EXCEPT !.box = Append(from, n), !.sent = c.sent + 1, !.dropped = more]
  BY DEF Put, Counted
<1> HIDE DEF box, sent, dropped, yielded
<1>4. /\ from \in Seq(1..n - 1) /\ Len(from) < ClientQueue /\ Increasing(from)
      /\ more \in 0..n /\ sent + 1 = yielded + more + (Len(from) + 1)
  <2>1. CASE full
    <3>1. from = Tail(box) /\ more = dropped + 1
      BY <2>1 DEF box, dropped
    <3>2. box # <<>> /\ Len(box) = ClientQueue
      BY <1>1, <1>2, <2>1 DEF box
    <3>3. /\ Tail(box) \in Seq(1..n - 1) /\ Len(Tail(box)) = Len(box) - 1
          /\ Increasing(Tail(box))
      BY <1>1, <3>2, TailIncreases
    <3> HIDE DEF full, from, more
    <3> QED
      BY <1>1, <1>2, <3>1, <3>2, <3>3
  <2>2. CASE ~full
    <3>1. from = box /\ more = dropped /\ Len(box) < ClientQueue
      BY <2>2 DEF box, dropped
    <3> HIDE DEF full, from, more
    <3> QED
      BY <1>1, <1>2, <3>1
  <2> QED
    BY <2>1, <2>2
<1> HIDE DEF full, from, more, d
<1>5. /\ Append(from, n) \in Seq(1..n) /\ Len(Append(from, n)) = Len(from) + 1
      /\ Len(from) \in Nat /\ Increasing(Append(from, n))
      /\ Append(from, n)[Len(from) + 1] = n
  BY <1>4, AppendIncreases
<1>6. Append(from, n) \in Seq(Nat) /\ more \in Nat /\ c.sent + 1 \in Nat
  <2>1. 1..n \subseteq Nat
    OBVIOUS
  <2> QED
    BY <1>1, <1>4, <1>5, <2>1, SeqMonotonic DEF sent
<1>7. /\ d \in Counted /\ d.box = Append(from, n) /\ d.yielded = yielded /\ d.sent = sent + 1
      /\ d.dropped = more /\ d.on
  BY <1>3, <1>6 DEF Counted, yielded, sent
<1>8. /\ Len(Append(from, n)) <= ClientQueue /\ sent + 1 \in 0..n /\ yielded \in 0..n
      /\ sent + 1 = yielded + more + Len(Append(from, n))
  BY <1>1, <1>2, <1>4, <1>5
<1>9. Accounts(d, n)
  <2>1. /\ d.box \in Seq(1..n) /\ Len(d.box) <= ClientQueue
        /\ \A i, j \in DOMAIN d.box : i < j => d.box[i] < d.box[j]
        /\ (~d.on => d.box = <<>>)
    BY <1>5, <1>7, <1>8 DEF Increasing
  <2>2. d.sent \in 0..n /\ d.dropped \in 0..n /\ d.yielded \in 0..n
    BY <1>4, <1>7, <1>8
  <2>3. d.sent = d.yielded + d.dropped + Len(d.box)
    BY <1>7, <1>8
  <2>4. n \in Nat /\ d \in Counted
    BY <1>7
  <2> QED
    BY <2>1, <2>2, <2>3, <2>4, AccountsParts
<1>10. Newest(d, n)
  BY <1>5, <1>7 DEF Newest
<1> QED
  BY <1>7, <1>9, <1>10 DEF d

---------------------------------------------------------------------------
(* How far the streams are.                                                *)

LEMMA ThroughType == ASSUME BusInv PROVE Through \in Nat /\ Through <= taken /\ taken \in Nat
<1>1. taken \in Nat /\ heard[Streams] \in 0..taken
  BY ReportedFacts DEF BusInv, BusTypeOK
<1>2. StreamsNow(calls) => event.n \in 1..taken
  BY <1>1, EventFacts DEF StreamsNow, BusInv, BusTypeOK, Ev
<1> QED
  BY <1>1, <1>2 DEF Through

\* The streams are not called while another callback is.
LEMMA ThroughCalls ==
    ASSUME BusInv, NEW e \in Ev, NEW cs, CallNext(e, cs), ~StreamsNow(calls),
           cs # <<>> => Head(cs) \in Subscriptions /\ heard[Head(cs)] < e.n
    PROVE  /\ Through' \in Nat /\ Through' >= Through
           /\ ~StreamsNow(calls') => heard'[Streams] = heard[Streams]
<1>1. taken \in Nat /\ heard \in [Subscriptions -> 0..taken] /\ e.n \in 1..taken
  BY EventFacts DEF BusInv, BusTypeOK
<1>2. Through = heard[Streams] /\ heard[Streams] \in 0..taken
  BY <1>1, ReportedFacts DEF Through
<1>3. calls' = cs
  BY DEF CallNext
<1>4. CASE cs = <<>>
  <2>1. heard' = heard /\ ~StreamsNow(cs)
    BY <1>4 DEF CallNext, StreamsNow
  <2> QED
    BY <1>2, <1>3, <2>1 DEF Through
<1>5. CASE cs # <<>> /\ Head(cs) = Streams
  <2>1. StreamsNow(cs) /\ event' = e /\ heard[Streams] < e.n
    BY <1>5 DEF StreamsNow, CallNext
  <2> QED
    BY <1>1, <1>2, <1>3, <2>1 DEF Through
<1>6. CASE cs # <<>> /\ Head(cs) # Streams
  <2>1. heard'[Streams] = heard[Streams] /\ ~StreamsNow(cs)
    BY <1>1, <1>6, ReportedFacts DEF StreamsNow, CallNext
  <2> QED
    BY <1>2, <1>3, <2>1 DEF Through
<1> QED
  BY <1>4, <1>5, <1>6

\* The streams have been told, and are not called again with the event.
LEMMA ThroughStreamed ==
    ASSUME BusInv, Returns, calls # <<>>, Head(calls) = Streams
    PROVE  /\ event.n \in Nat \ {0} /\ Through = event.n - 1
           /\ Through' = event.n /\ heard'[Streams] = event.n
<1> DEFINE cs == Tail(calls)
<1>1. /\ event \in Ev /\ taken \in Nat /\ calls \in Seq(Subscriptions) /\ Distinct(calls)
      /\ heard \in [Subscriptions -> 0..taken] /\ event # NoEvent
  BY ReturnsBus DEF BusInv, BusTypeOK
<1>2. event.n \in 1..taken /\ heard[Streams] = event.n
  BY <1>1, EventFacts DEF BusInv, InOrder
<1>3. cs \in Seq(Subscriptions) /\ Streams \notin Range(cs)
  BY <1>1, ShrinksOnce
<1>4. CallNext(event, cs)
  BY DEF Returns
<1> HIDE DEF cs
<1>5. ASSUME cs # <<>> PROVE Head(cs) # Streams /\ Head(cs) \in Subscriptions
  <2>1. Head(cs) \in Range(cs) /\ Head(cs) \in Subscriptions
    BY <1>3, <1>5, ShrinksOnce
  <2> QED
    BY <1>3, <2>1
<1>6. calls' = cs /\ heard'[Streams] = heard[Streams]
  BY <1>1, <1>4, <1>5, ReportedFacts DEF CallNext
<1>7. ~StreamsNow(calls')
  BY <1>5, <1>6 DEF StreamsNow
<1>8. StreamsNow(calls)
  BY DEF StreamsNow
<1> QED
  BY <1>2, <1>6, <1>7, <1>8 DEF Through

LEMMA ClientsStay ==
    ASSUME BusInv, ClientsInv, UNCHANGED client, Through' \in Nat, Through' >= Through,
           running' /\ ~StreamsNow(calls') =>
               running /\ ~StreamsNow(calls) /\ heard'[Streams] = heard[Streams]
    PROVE  ClientsInv'
<1>1. Through \in Nat
  BY ThroughType
<1>2. ASSUME NEW c \in Clients PROVE Accounts(client'[c], Through')
  BY <1>1, AccountsLater DEF ClientsInv
<1> QED
  BY <1>2 DEF ClientsInv

LEMMA ClientsStep ==
    ASSUME BusInv, WiredFirst, ValuesOK, ClientsInv, [Next]_vars PROVE ClientsInv'
<1>1. Through \in Nat /\ Through <= taken /\ taken \in Nat
  BY ThroughType
<1>2. ASSUME UNCHANGED <<running, event, calls, heard, client>> PROVE ClientsInv'
  <2>1. Through' = Through
    BY <1>2 DEF Through
  <2> QED
    BY <1>1, <1>2, <2>1, ClientsStay
<1>3. ASSUME NEW r \in Readers,
             \/ \E p \in Points : ReadBegins(r, p)
             \/ ReadReturns(r) \/ ReadFails(r) \/ Saves(r) \/ SaveFails(r)
      PROVE  ClientsInv'
  BY <1>2, <1>3 DEF ReadBegins, ReadReturns, ReadFails, Saves, SaveFails, PublishNowait, Accept,
     busVars
<1>4. ASSUME NEW p \in Points, QualityChanges(p) PROVE ClientsInv'
  BY <1>2, <1>4 DEF QualityChanges, PublishNowait, Accept, busVars
<1>5. ASSUME NEW pattern \in WatchedFor, Watches(pattern) \/ Unwatches(pattern)
      PROVE  ClientsInv'
  BY <1>2, <1>5 DEF Watches, Unwatches, Subscribe, Unsubscribe
<1>6. CASE Wires \/ Binds
  BY <1>2, <1>6 DEF Wires, Binds, Subscribe
<1>7. CASE UNCHANGED vars
  BY <1>2, <1>7 DEF vars, busVars
<1>8. CASE Dispatches
  <2> DEFINE e == Head(queue)
             cs == Matching(e)
  <2>1. TakeOff /\ UNCHANGED client /\ running' = running
    BY <1>8 DEF Dispatches, TakeOff
  <2>2. e \in Ev /\ CallNext(e, cs) /\ queue # <<>> /\ event = NoEvent /\ calls = <<>>
    BY <2>1, TakeOffBus DEF TakeOff, BusInv, BusTypeOK
  <2>3. cs \in Seq(Subscriptions)
    BY <2>2, MatchingFacts
  <2>4. \A s \in Subscriptions : heard[s] < e.n
    <3>1. 1 \in DOMAIN queue /\ e = queue[1]
      BY <2>2, ShrinksOnce DEF BusInv, BusTypeOK
    <3> QED
      BY <3>1 DEF BusInv, InOrder
  <2> HIDE DEF e, cs
  <2>5. cs # <<>> => Head(cs) \in Subscriptions /\ heard[Head(cs)] < e.n
    BY <2>3, <2>4, ShrinksOnce
  <2>6. ~StreamsNow(calls)
    BY <2>2 DEF StreamsNow
  <2>7. /\ Through' \in Nat /\ Through' >= Through
        /\ ~StreamsNow(calls') => heard'[Streams] = heard[Streams]
    BY <2>2, <2>5, <2>6, ThroughCalls
  <2> QED
    BY <2>1, <2>6, <2>7, ClientsStay
<1>9. ASSUME Returns PROVE \A s \in Range(Tail(calls)) : s \in Subscriptions /\ heard[s] < event.n
  <2> DEFINE cs == Tail(calls)
  <2>1. event # NoEvent /\ calls # <<>> /\ calls \in Seq(Subscriptions)
    BY <1>9, ReturnsBus DEF BusInv, BusTypeOK
  <2>2. /\ DOMAIN cs = 1..Len(calls) - 1 /\ DOMAIN calls = 1..Len(calls)
        /\ Len(calls) \in Nat \ {0} /\ cs \in Seq(Subscriptions)
        /\ \A i \in 1..Len(calls) - 1 : cs[i] = calls[i + 1]
    BY <2>1, ShrinksOnce
  <2> HIDE DEF cs
  <2>3. ASSUME NEW i \in DOMAIN cs PROVE heard[cs[i]] < event.n
    <3>1. i + 1 \in DOMAIN calls /\ i + 1 > 1 /\ cs[i] = calls[i + 1]
      BY <2>2
    <3> QED
      BY <2>1, <3>1 DEF BusInv, InOrder
  <2>4. \A s \in Range(cs) : s \in Subscriptions /\ heard[s] < event.n
    BY <2>2, <2>3, SeqFacts DEF Range
  <2> QED
    BY <2>4 DEF cs
<1>10. CASE Persisted \/ PersistFails \/ Watched
  <2> DEFINE cs == Tail(calls)
  <2>1. Returns /\ UNCHANGED client /\ running' = running /\ ~StreamsNow(calls)
    BY <1>10, ReportedFacts DEF Persisted, PersistFails, Watched, Returns, StreamsNow
  <2>2. event \in Ev /\ CallNext(event, cs) /\ calls # <<>> /\ calls \in Seq(Subscriptions)
    BY <2>1, ReturnsBus DEF Returns, BusInv, BusTypeOK
  <2>3. cs \in Seq(Subscriptions) /\ \A s \in Range(cs) : heard[s] < event.n
    BY <1>9, <2>1, <2>2, ShrinksOnce
  <2> HIDE DEF cs
  <2>4. cs # <<>> => Head(cs) \in Subscriptions /\ Head(cs) \in Range(cs)
    BY <2>3, ShrinksOnce
  <2>5. /\ Through' \in Nat /\ Through' >= Through
        /\ ~StreamsNow(calls') => heard'[Streams] = heard[Streams]
    BY <2>1, <2>2, <2>3, <2>4, ThroughCalls
  <2> QED
    BY <2>1, <2>5, ClientsStay
<1>11. CASE Streamed
  <2>1. /\ calls # <<>> /\ Head(calls) = Streams /\ Returns
        /\ client' = [c \in Clients |->
               IF client[c].on /\ Passes(c, event.about) THEN Put(client[c], event.n)
               ELSE client[c]]
    BY <1>11 DEF Streamed
  <2>2. /\ event.n \in Nat \ {0} /\ Through = event.n - 1
        /\ Through' = event.n /\ heard'[Streams] = event.n
    BY <2>1, ThroughStreamed
  <2>3. ASSUME NEW c \in Clients
        PROVE  /\ client'[c] \in Counted /\ Accounts(client'[c], event.n)
               /\ Wants[c] = {} => Newest(client'[c], event.n)
    <3>1. client[c] \in Counted /\ Accounts(client[c], event.n - 1)
      BY <2>2 DEF ClientsInv
    <3>2. CASE client[c].on /\ Passes(c, event.about)
      <4>1. client'[c] = Put(client[c], event.n)
        BY <2>1, <3>2
      <4> QED
        BY <2>2, <3>1, <3>2, <4>1, PutAccounts
    <3>3. CASE ~(client[c].on /\ Passes(c, event.about))
      <4>1. client'[c] = client[c]
        BY <2>1, <3>3
      <4>2. Accounts(client[c], event.n)
        BY <2>2, <3>1, AccountsLater
      <4>3. Wants[c] = {} => ~client[c].on
        BY <3>3 DEF Passes
      <4>4. Wants[c] = {} => Newest(client[c], event.n)
        BY <3>1, <4>3 DEF Accounts, Newest
      <4> QED
        BY <3>1, <4>1, <4>2, <4>4
    <3> QED
      BY <3>2, <3>3
  <2>4. client' \in [Clients -> Counted]
    <3>1. client' = [c \in Clients |-> client'[c]]
      BY <2>1
    <3> QED
      BY <2>3, <3>1
  <2> QED
    BY <2>2, <2>3, <2>4 DEF ClientsInv
<1>12. CASE Starts
  <2>1. ~Wired /\ UNCHANGED <<event, calls, heard, client>>
    BY <1>12 DEF Starts, StartBus, Wired
  <2>2. event = NoEvent /\ calls = <<>> /\ heard[Streams] = 0
    BY <2>1 DEF WiredFirst, BusInv, BusTypeOK
  <2>3. Through = 0 /\ Through' = 0
    BY <2>1, <2>2 DEF Through, StreamsNow
  <2>4. ASSUME NEW c \in Clients PROVE client[c].box = <<>>
    <3>1. client[c] \in Counted /\ Accounts(client[c], 0)
      BY <2>3 DEF ClientsInv
    <3> DEFINE box == client[c].box
    <3>2. box \in Seq(1..0)
      BY <3>1, AccountsParts
    <3> HIDE DEF box
    <3>3. /\ Len(box) \in Nat /\ DOMAIN box = 1..Len(box) /\ \A i \in DOMAIN box : box[i] \in 1..0
          /\ box = <<>> <=> Len(box) = 0
      BY <3>2, SeqFacts
    <3>4. ASSUME Len(box) # 0 PROVE FALSE
      <4>1. 1 \in DOMAIN box
        BY <3>3, <3>4
      <4> QED
        BY <3>3, <4>1
    <3> QED
      BY <3>3, <3>4 DEF box
  <2> QED
    BY <2>1, <2>3, <2>4 DEF ClientsInv, Newest
<1>13. CASE Stops
  <2>1. running' = FALSE /\ calls' = <<>> /\ UNCHANGED <<heard, client>>
    BY <1>13 DEF Stops, StopBus
  <2>2. Through' = heard[Streams] /\ heard[Streams] \in 0..taken
    BY <2>1, ReportedFacts DEF Through, StreamsNow, BusInv, BusTypeOK
  <2>3. Through' >= Through
    <3>1. CASE StreamsNow(calls)
      <4>1. event # NoEvent /\ heard[Streams] = event.n
        BY <3>1 DEF StreamsNow, BusInv, BusTypeOK, InOrder
      <4> QED
        BY <2>2, <3>1, <4>1 DEF Through
    <3>2. CASE ~StreamsNow(calls)
      BY <2>2, <3>2 DEF Through
    <3> QED
      BY <3>1, <3>2
  <2> QED
    BY <2>1, <2>2, <2>3, ClientsStay
<1>14. ASSUME NEW c \in Clients, NEW to \in Counted, client' = [client EXCEPT ![c] = to],
              Accounts(to, Through), \A v : Newest(client[c], v) => Newest(to, v),
              UNCHANGED busVars
       PROVE  ClientsInv'
  <2>1. Through' = Through /\ UNCHANGED <<running, calls, heard>>
    BY <1>14 DEF busVars, Through
  <2>2. client' \in [Clients -> Counted]
    BY <1>14 DEF ClientsInv
  <2>3. \A d \in Clients : client'[d] = IF d = c THEN to ELSE client[d]
    BY <1>14 DEF ClientsInv
  <2> QED
    BY <1>14, <2>1, <2>2, <2>3 DEF ClientsInv
<1>15. ASSUME NEW c \in Clients, Connects(c) \/ Disconnects(c) PROVE ClientsInv'
  <2>1. PICK to \in {Off, [Off EXCEPT !.on = TRUE]} : client' = [client EXCEPT ![c] = to]
    BY <1>15 DEF Connects, Disconnects
  <2>2. to \in Counted /\ Accounts(to, Through) /\ \A v : Newest(to, v)
    BY <1>1, OffAccounts
  <2> QED
    BY <1>14, <1>15, <2>1, <2>2 DEF Connects, Disconnects
<1>16. ASSUME NEW c \in Clients, Yields(c) PROVE ClientsInv'
  <2> DEFINE from == client[c]
  <2>1. from \in Counted /\ Accounts(from, Through) /\ from.box # <<>> /\ from.on
    BY <1>16 DEF ClientsInv, Yields
  <2>2. client' = [client EXCEPT ![c] = Yielded(from)]
    BY <1>16 DEF Yields, ClientsInv, Yielded
  <2>3. /\ Yielded(from) \in Counted /\ Accounts(Yielded(from), Through)
        /\ \A v : Newest(from, v) => Newest(Yielded(from), v)
    <3> HIDE DEF from
    <3> QED
      BY <1>1, <2>1, YieldAccounts
  <2> QED
    BY <1>14, <1>16, <2>2, <2>3 DEF Yields
<1> QED
  BY <1>3, <1>4, <1>5, <1>6, <1>7, <1>8, <1>10, <1>11, <1>12, <1>13, <1>15, <1>16 DEF Next

---------------------------------------------------------------------------
(* The invariant, and what follows from it.                                *)

LEMMA PointsInvInit == Init => PointsInv
<1> SUFFICES ASSUME Init PROVE PointsInv
  OBVIOUS
<1>1. /\ running = FALSE /\ queue = <<>> /\ subscribed = [p \in Patterns |-> <<>>]
      /\ event = NoEvent /\ calls = <<>> /\ taken = 0
      /\ heard = [s \in Subscriptions |-> 0] /\ times = [s \in Subscriptions |-> 0]
  BY DEF Init, BusInit
<1>2. /\ reader = [r \in Readers |-> Idle] /\ writers = <<>>
      /\ stored = [p \in Points |-> [value |-> 0, raw |-> FALSE]]
      /\ readings = [p \in Points |-> 0] /\ client = [c \in Clients |-> Off] /\ faults = 0
      /\ saved = [p \in Points |-> 0] /\ spoiled = {}
  BY DEF Init
<1>3. \A S : <<>> \in Seq(S) /\ Len(<<>>) = 0 /\ DOMAIN <<>> = {}
  BY EmptySeq
<1>4. BusTypeOK(Points, 0..MaxReadings)
  <2>1. queue \in Seq(Events(Points, 0..MaxReadings)) /\ Len(queue) <= QueueSize
    BY <1>1, <1>3, QueueAssumption DEF QueueAssumption
  <2>2. subscribed \in [Patterns -> Seq(Subscribers)] /\ calls \in Seq(Subscriptions)
    BY <1>1, <1>3
  <2>3. /\ taken \in Nat /\ heard \in [Subscriptions -> 0..taken]
        /\ times \in [Subscriptions -> Nat]
    BY <1>1
  <2>4. (event = NoEvent <=> calls = <<>>) /\ (~running => event = NoEvent)
    BY <1>1
  <2> QED
    BY <1>1, <2>1, <2>2, <2>3, <2>4, Zenon DEF BusTypeOK
<1>5. OncePerCaller
  BY <1>1, <1>3, NothingIn DEF OncePerCaller
<1>6. InOrder
  BY <1>1, <1>3 DEF InOrder
<1>7. WiredFirst
  BY <1>1, <1>2, IdleFacts, ReportedFacts DEF WiredFirst, Wired
<1>8. ValuesOK
  BY <1>2, IdleFacts, LimitsAssumption DEF LimitsAssumption, ValuesOK, Reader
<1>9. Queued(writers, Saving, calls)
  <2>1. Saving = {} /\ ~PersistsNow(calls)
    BY <1>1, <1>2, IdleFacts DEF Saving, PersistsNow
  <2> QED
    BY <1>2, <1>3, <2>1, NothingIn DEF Queued
<1>10. SettlesInv
  <2>1. \A p \in Points : Untold(queue, p) /\ ~Writing(event, calls, p)
    BY <1>1, <1>3, NothingIn DEF Untold, Writing
  <2> QED
    BY <1>2, <2>1 DEF SettlesInv, Settles
<1>11. ClientsInv
  <2>1. Through = 0
    BY <1>1, ReportedFacts DEF Through, StreamsNow
  <2>2. Off \in Counted /\ Accounts(Off, 0) /\ \A v : Newest(Off, v)
    BY OffAccounts
  <2> QED
    BY <1>2, <2>1, <2>2 DEF ClientsInv
<1> QED
  BY <1>4, <1>5, <1>6, <1>7, <1>8, <1>9, <1>10, <1>11 DEF PointsInv, BusInv

LEMMA PointsInvStep == PointsInv /\ [Next]_vars => PointsInv'
BY BusStep, WiredStep, ValuesStep, LineStep, SettlesStep, ClientsStep DEF PointsInv

LEMMA PointsInvAlways == Spec => []PointsInv
BY PointsInvInit, PointsInvStep, PTL DEF Spec

\* The state has its shape, and everyone who writes stands in the line for the
\* lock once and nobody else does (core/state_store.py:355).
THEOREM PointValuesTypeOK == Spec => []TypeOK
<1>1. PointsInv => TypeOK
  <2> SUFFICES ASSUME PointsInv PROVE TypeOK
    OBVIOUS
  <2>1. Through \in Nat /\ Through <= taken /\ taken \in Nat
    BY ThroughType DEF PointsInv
  <2>2. ASSUME NEW c \in Clients
        PROVE  client[c] \in [on : BOOLEAN, box : Seq(1..taken), sent : 0..taken,
                              dropped : 0..taken, yielded : 0..taken]
    BY <2>1, AccountsLater DEF PointsInv, ClientsInv, Accounts
  <2>3. client \in [Clients -> [on : BOOLEAN, box : Seq(1..taken), sent : 0..taken,
                                dropped : 0..taken, yielded : 0..taken]]
    <3>1. client = [c \in Clients |-> client[c]]
      BY DEF PointsInv, ClientsInv
    <3> QED
      BY <2>2, <3>1
  <2>4. /\ writers \in Seq(Readers \cup {Dispatcher})
        /\ \A i, j \in DOMAIN writers : writers[i] = writers[j] => i = j
        /\ Range(writers) = {r \in Readers : reader[r].pc = "saving"} \cup
                            {d \in {Dispatcher} : calls # <<>> /\ Head(calls) = Persists}
    BY DEF PointsInv, Queued, WriterSet, Saving, PersistsNow, Distinct
  <2> QED
    BY <2>3, <2>4 DEF TypeOK, PointsInv, BusInv, ValuesOK
<1> QED
  BY <1>1, PointsInvAlways, PTL

\* A point settles on the reading saved last, though every value is written
\* twice and the second write may come late (core/registry.py:213-226,
\* core/engine.py:231-239).
THEOREM ValueSettlesOnTheLast == Spec => []SettlesOnTheLast
<1>1. PointsInv => SettlesOnTheLast
  <2> SUFFICES ASSUME PointsInv, NEW p \in Points \ spoiled
               PROVE  \/ stored[p].value = saved[p]
                      \/ \E i \in DOMAIN queue : queue[i].about = p /\ queue[i].value = saved[p]
                      \/ event.about = p /\ event.value = saved[p] /\ Persists \in Range(calls)
    BY DEF SettlesOnTheLast
  <2> QED
    BY DEF PointsInv, SettlesInv, Settles, ToldLast, Tells, Writing
<1> QED
  BY <1>1, PointsInvAlways, PTL

\* A client's queue holds the newest events it asked for, and every event
\* counted as sent is accounted for (agent/events.py:155-189).
THEOREM StreamsAccount == Spec => []StreamAccounts
<1>1. PointsInv => StreamAccounts
  <2> SUFFICES ASSUME PointsInv, NEW c \in Clients
               PROVE  LET box == client[c].box
                      IN  /\ Len(box) <= ClientQueue
                          /\ \A i, j \in DOMAIN box : i < j => box[i] < box[j]
                          /\ client[c].sent =
                                 client[c].yielded + client[c].dropped + Len(box)
                          /\ (running /\ event = NoEvent /\ Wants[c] = {} /\ box # <<>>)
                                 => Last(box) = heard[Streams]
    BY DEF StreamAccounts
  <2>1. Accounts(client[c], Through)
    BY DEF PointsInv, ClientsInv
  <2>2. ASSUME running, event = NoEvent, Wants[c] = {}, client[c].box # <<>>
        PROVE  Last(client[c].box) = heard[Streams]
    <3>1. ~StreamsNow(calls)
      BY <2>2 DEF StreamsNow, PointsInv, BusInv, BusTypeOK
    <3> QED
      BY <2>2, <3>1 DEF PointsInv, ClientsInv, Newest, Last
  <2> QED
    BY <2>1, <2>2 DEF Accounts
<1> QED
  BY <1>1, PointsInvAlways, PTL

\* The bus of the engine implements the contract: each subscription hears of
\* events in the order they were taken, of each at most once, and of nothing
\* else, whoever subscribes and leaves, raises, stops or starts meanwhile
\* (core/event_bus.py:104-131).
THEOREM BusKeepsContract == Spec => KeepsBusContract
<1>1. Init => Contract!Init
  BY DEF Init, BusInit, Contract!Init
<1>2. ASSUME BusInv, NEW e \in Ev, NEW cs \in Seq(Subscriptions), CallNext(e, cs), UNCHANGED taken,
             cs # <<>> => heard[Head(cs)] < e.n
      PROVE  Contract!Next \/ UNCHANGED <<taken, heard, times>>
  <2>1. CASE cs = <<>>
    BY <1>2, <2>1 DEF CallNext
  <2>2. CASE cs # <<>>
    <3> DEFINE s == Head(cs)
    <3>1. s \in Subscriptions
      BY <2>2, ShrinksOnce
    <3> HIDE DEF s
    <3>2. /\ e.n \in 1..taken /\ heard[s] \in 0..taken /\ taken \in Nat /\ heard[s] < e.n
      BY <1>2, <2>2, <3>1, EventFacts DEF BusInv, BusTypeOK, s
    <3>3. e.n \in heard[s] + 1..taken
      BY <3>2
    <3>4. Contract!Call(s, e.n)
      BY <1>2, <2>2, <3>2 DEF CallNext, Contract!Call, s
    <3> QED
      BY <3>1, <3>3, <3>4 DEF Contract!Next
  <2> QED
    BY <2>1, <2>2
<1>3. PointsInv /\ [Next]_vars => [Contract!Next]_<<taken, heard, times>>
  <2> SUFFICES ASSUME PointsInv, [Next]_vars
               PROVE  Contract!Next \/ UNCHANGED <<taken, heard, times>>
    OBVIOUS
  <2>1. BusInv
    BY DEF PointsInv
  <2>2. ASSUME NEW type, NEW about, NEW value, PublishNowait(type, about, value)
        PROVE  Contract!Next \/ UNCHANGED <<taken, heard, times>>
    BY <2>2 DEF PublishNowait, Accept, busVars, Contract!Next, Contract!Take
  <2>3. ASSUME NEW r \in Readers,
               \/ \E p \in Points : ReadBegins(r, p)
               \/ ReadReturns(r) \/ ReadFails(r) \/ SaveFails(r)
        PROVE  UNCHANGED <<taken, heard, times>>
    BY <2>3 DEF ReadBegins, ReadReturns, ReadFails, SaveFails, busVars
  <2>4. ASSUME NEW r \in Readers, Saves(r)
        PROVE  Contract!Next \/ UNCHANGED <<taken, heard, times>>
    BY <2>2, <2>4 DEF Saves
  <2>5. ASSUME NEW p \in Points, QualityChanges(p)
        PROVE  Contract!Next \/ UNCHANGED <<taken, heard, times>>
    BY <2>2, <2>5 DEF QualityChanges
  <2>6. CASE Dispatches
    <3> DEFINE e == Head(queue)
               cs == Matching(e)
    <3>1. /\ TakeOff /\ CallNext(e, cs) /\ UNCHANGED taken /\ queue # <<>>
      BY <2>6 DEF Dispatches, TakeOff
    <3>2. e \in Ev
      BY <2>1, <3>1, TakeOffBus
    <3>3. cs \in Seq(Subscriptions)
      BY <2>1, <3>2, MatchingFacts
    <3>4. \A s \in Subscriptions : heard[s] < e.n
      <4>1. 1 \in DOMAIN queue /\ e = queue[1]
        BY <2>1, <3>1, ShrinksOnce DEF BusInv, BusTypeOK
      <4> QED
        BY <2>1, <4>1 DEF BusInv, InOrder
    <3> HIDE DEF e, cs
    <3>5. cs # <<>> => heard[Head(cs)] < e.n
      BY <3>3, <3>4, ShrinksOnce
    <3> QED
      BY <1>2, <2>1, <3>1, <3>2, <3>3, <3>5
  <2>7. CASE Persisted \/ PersistFails \/ Watched \/ Streamed
    <3> DEFINE cs == Tail(calls)
    <3>1. Returns
      BY <2>7 DEF Persisted, PersistFails, Watched, Streamed
    <3>2. /\ event \in Ev /\ event # NoEvent /\ calls # <<>> /\ UNCHANGED taken
          /\ CallNext(event, cs) /\ calls \in Seq(Subscriptions)
      BY <2>1, <3>1, ReturnsBus DEF Returns, BusInv, BusTypeOK
    <3>3. /\ cs \in Seq(Subscriptions) /\ Len(calls) \in Nat \ {0}
          /\ DOMAIN cs = 1..Len(calls) - 1 /\ DOMAIN calls = 1..Len(calls)
          /\ \A i \in 1..Len(calls) - 1 : cs[i] = calls[i + 1]
      BY <3>2, ShrinksOnce
    <3> HIDE DEF cs
    <3>4. ASSUME cs # <<>> PROVE heard[Head(cs)] < event.n
      <4>1. 1 \in DOMAIN cs /\ Head(cs) = cs[1]
        BY <3>3, <3>4, ShrinksOnce
      <4>2. 2 \in DOMAIN calls /\ cs[1] = calls[2]
        BY <3>3, <4>1
      <4> QED
        BY <2>1, <3>2, <4>1, <4>2 DEF BusInv, InOrder
    <3> QED
      BY <1>2, <2>1, <3>2, <3>3, <3>4
  <2>8. ASSUME NEW pattern \in WatchedFor, Watches(pattern) \/ Unwatches(pattern)
        PROVE  UNCHANGED <<taken, heard, times>>
    BY <2>8 DEF Watches, Unwatches, Subscribe, Unsubscribe
  <2>9. CASE Starts \/ Wires \/ Binds \/ Stops
    BY <2>9 DEF Starts, Wires, Binds, Stops, StartBus, StopBus, Subscribe
  <2>10. ASSUME NEW c \in Clients, Connects(c) \/ Disconnects(c) \/ Yields(c)
         PROVE  UNCHANGED <<taken, heard, times>>
    BY <2>10 DEF Connects, Disconnects, Yields, busVars
  <2>11. CASE UNCHANGED vars
    BY <2>11 DEF vars, busVars
  <2> QED
    BY <2>3, <2>4, <2>5, <2>6, <2>7, <2>8, <2>9, <2>10, <2>11 DEF Next
<1> QED
  BY <1>1, <1>3, PointsInvAlways, PTL DEF Spec, KeepsBusContract, Contract!Spec

---------------------------------------------------------------------------
(*                             P O L L I N G                               *)
---------------------------------------------------------------------------

USE ConnsAssumption, IntervalsAssumption, PollerLimits
    DEF ConnsAssumption, IntervalsAssumption, PollerLimits

PollTarget == [conn : Conns \cup {"none"}, age : Int, errors : Nat, since : Int]

TargetsTyped ==
    /\ target \in [Polled -> PollTarget]
    /\ poll \in [Polled -> {"none", "reading", "orphan", "over"}]
    /\ begun \in [Polled -> 0..MaxErrors]

\* Every poll under way has been counted, and has not reported yet.
Paid(t, state, n) == IF state = "reading" THEN t.errors < n ELSE t.errors <= n

PaidInv == TargetsTyped /\ \A p \in Polled : Paid(target[p], poll[p], begun[p])

---------------------------------------------------------------------------
(* What may be put into the table.                                         *)

LEMMA FreshTarget ==
    ASSUME NEW p \in Polled, NEW c \in Conns
    PROVE  Fresh(p, c) \in PollTarget /\ Fresh(p, c).errors = 0
BY DEF Fresh, PollTarget, Never

LEMMA NoTarget == Unscheduled \in PollTarget /\ Unscheduled.errors = 0
BY DEF Unscheduled, PollTarget, Never

\* Errors and the date of a suspension, or an age and that date, are replaced.
LEMMA Recounted ==
    ASSUME NEW t \in PollTarget, NEW errors \in Nat, NEW since \in Int
    PROVE  /\ [t EXCEPT !.errors = errors, !.since = since] \in PollTarget
           /\ [t EXCEPT !.errors = errors, !.since = since].errors = errors
BY DEF PollTarget

LEMMA Redated ==
    ASSUME NEW t \in PollTarget, NEW age \in Int, NEW since \in Int
    PROVE  /\ [t EXCEPT !.age = age, !.since = since] \in PollTarget
           /\ [t EXCEPT !.age = age, !.since = since].errors = t.errors
BY DEF PollTarget

LEMMA ClearedTarget ==
    ASSUME NEW t \in PollTarget
    PROVE  Cleared(t) \in PollTarget /\ Cleared(t).errors = 0
<1>1. Never \in Int /\ 0 \in Nat
  BY DEF Never
<1> QED
  BY <1>1, Recounted DEF Cleared

LEMMA FailedTarget ==
    ASSUME NEW t \in PollTarget
    PROVE  Failed(t) \in PollTarget /\ Failed(t).errors = t.errors + 1
<1> DEFINE errors == t.errors + 1
           since == IF t.errors + 1 >= MaxErrors THEN 0 ELSE t.since
<1>1. since \in Int /\ errors \in Nat
  BY DEF PollTarget
<1>2. Failed(t) = [t EXCEPT !.errors = errors, !.since = since]
  BY DEF Failed
<1> HIDE DEF errors, since
<1>3. ASSUME NEW e \in Nat, NEW d \in Int
      PROVE  /\ [t EXCEPT !.errors = e, !.since = d] \in PollTarget
             /\ [t EXCEPT !.errors = e, !.since = d].errors = e
  BY Recounted
<1>4. /\ [t EXCEPT !.errors = errors, !.since = since] \in PollTarget
      /\ [t EXCEPT !.errors = errors, !.since = since].errors = errors
  BY <1>1, <1>3
<1>5. Failed(t) \in PollTarget /\ Failed(t).errors = errors
  BY <1>2, <1>4, Zenon
<1> QED
  BY <1>5 DEF errors

\* A poll that loses its entry is not under way on what takes its place.
LEMMA OrphanedPolls ==
    ASSUME TargetsTyped, NEW ps
    PROVE  /\ Orphaned(ps) \in [Polled -> {"none", "reading", "orphan", "over"}]
           /\ \A p \in Polled : Orphaned(ps)[p] = "reading" => p \notin ps /\ poll[p] = "reading"
BY DEF Orphaned, TargetsTyped

---------------------------------------------------------------------------
(* The table's operations.                                                 *)

LEMMA AddTargetPays ==
    ASSUME PaidInv, NEW p \in Polled, NEW c \in Conns, AddTarget(p, c) PROVE PaidInv'
<1>1. /\ target' = [target EXCEPT ![p] = Fresh(p, c)] /\ poll' = Orphaned({p})
      /\ begun' = [begun EXCEPT ![p] = 0]
  BY DEF AddTarget
<1>2. TargetsTyped'
  BY <1>1, FreshTarget, OrphanedPolls DEF PaidInv, TargetsTyped
<1>3. ASSUME NEW q \in Polled PROVE Paid(target'[q], poll'[q], begun'[q])
  <2>1. poll'[q] = "reading" => q # p /\ poll[q] = "reading"
    BY <1>1, OrphanedPolls DEF PaidInv
  <2>2. CASE q = p
    BY <1>1, <2>1, <2>2, FreshTarget DEF PaidInv, TargetsTyped, Paid
  <2>3. CASE q # p
    BY <1>1, <2>1, <2>3 DEF PaidInv, TargetsTyped, Paid, PollTarget
  <2> QED
    BY <2>2, <2>3
<1> QED
  BY <1>2, <1>3 DEF PaidInv

LEMMA DropPays == ASSUME PaidInv, NEW ps, Drop(ps) PROVE PaidInv'
<1>1. /\ target' = [p \in Polled |-> IF p \in ps THEN Unscheduled ELSE target[p]]
      /\ poll' = Orphaned(ps)
      /\ begun' = [p \in Polled |-> IF p \in ps THEN 0 ELSE begun[p]]
  BY DEF Drop
<1>2. TargetsTyped'
  BY <1>1, NoTarget, OrphanedPolls DEF PaidInv, TargetsTyped
<1>3. ASSUME NEW q \in Polled PROVE Paid(target'[q], poll'[q], begun'[q])
  <2>1. poll'[q] = "reading" => q \notin ps /\ poll[q] = "reading"
    BY <1>1, OrphanedPolls DEF PaidInv
  <2> QED
    BY <1>1, <2>1, NoTarget DEF PaidInv, TargetsTyped, Paid, PollTarget
<1> QED
  BY <1>2, <1>3 DEF PaidInv

LEMMA ResetPays == ASSUME PaidInv, NEW ps, Reset(ps) PROVE PaidInv'
<1>1. /\ target' = [p \in Polled |-> IF p \in ps THEN Cleared(target[p]) ELSE target[p]]
      /\ begun' = [p \in Polled |->
                      IF p \in ps THEN IF poll[p] = "reading" THEN 1 ELSE 0 ELSE begun[p]]
      /\ poll' = poll
  BY DEF Reset
<1>2. TargetsTyped'
  BY <1>1, ClearedTarget DEF PaidInv, TargetsTyped
<1>3. \A q \in Polled : Paid(target'[q], poll'[q], begun'[q])
  BY <1>1, ClearedTarget DEF PaidInv, TargetsTyped, Paid
<1> QED
  BY <1>2, <1>3 DEF PaidInv

---------------------------------------------------------------------------
(* The loop.                                                               *)

LEMMA StopPays == ASSUME PaidInv, Stop PROVE PaidInv'
<1>1. target' = target /\ begun' = begun /\ poll' = [p \in Polled |-> "none"]
  BY DEF Stop
<1>2. TargetsTyped'
  BY <1>1 DEF PaidInv, TargetsTyped
<1>3. \A q \in Polled : Paid(target'[q], poll'[q], begun'[q])
  BY <1>1 DEF PaidInv, TargetsTyped, Paid, PollTarget
<1> QED
  BY <1>2, <1>3 DEF PaidInv

\* Only targets that may count another error are polled.
LEMMA CheckPays == ASSUME PaidInv, Check PROVE PaidInv'
<1> DEFINE back == Recovering(Scheduled)
           batch == FirstDue({p \in Scheduled : ~Suspended(p)} \cup back)
           recovered(p) == IF p \in back THEN Cleared(target[p]) ELSE target[p]
           counted(p) == IF p \in back THEN 0 ELSE begun[p]
<1>1. /\ target' = [p \in Polled |->
              IF p \in batch THEN [recovered(p) EXCEPT !.age = 0] ELSE recovered(p)]
      /\ poll' = [p \in Polled |-> IF p \in batch THEN "reading" ELSE "none"]
      /\ begun' = [p \in Polled |->
              IF p \in batch THEN Lesser(counted(p) + 1, MaxErrors) ELSE counted(p)]
  BY DEF Check
<1>2. \A p \in batch : p \in back \/ ~Suspended(p)
  BY DEF FirstDue, Earliest
<1> HIDE DEF back, batch
<1>3. ASSUME NEW p \in Polled
      PROVE  /\ recovered(p) \in PollTarget /\ counted(p) \in 0..MaxErrors
             /\ recovered(p).errors <= counted(p)
             /\ p \in batch => recovered(p).errors < MaxErrors
  <2>1. CASE p \in back
    BY <2>1, ClearedTarget DEF PaidInv, TargetsTyped
  <2>2. CASE p \notin back
    <3>1. target[p] \in PollTarget /\ target[p].errors \in Nat /\ begun[p] \in 0..MaxErrors
      BY DEF PaidInv, TargetsTyped, PollTarget
    <3>2. target[p].errors <= begun[p]
      BY <3>1 DEF PaidInv, Paid
    <3>3. p \in batch => target[p].errors < MaxErrors
      BY <1>2, <2>2, <3>1 DEF Suspended
    <3> QED
      BY <2>2, <3>1, <3>2, <3>3
  <2> QED
    BY <2>1, <2>2
<1> HIDE DEF recovered, counted
<1>4. ASSUME NEW p \in Polled
      PROVE  /\ target'[p] \in PollTarget /\ target'[p].errors = recovered(p).errors
             /\ poll'[p] = IF p \in batch THEN "reading" ELSE "none"
             /\ begun'[p] \in 0..MaxErrors
             /\ p \notin batch => begun'[p] = counted(p)
             /\ p \in batch => begun'[p] = Lesser(counted(p) + 1, MaxErrors)
  BY <1>1, <1>3 DEF PollTarget, Lesser
<1>5. TargetsTyped'
  BY <1>1, <1>4 DEF TargetsTyped
<1>6. ASSUME NEW p \in Polled PROVE Paid(target'[p], poll'[p], begun'[p])
  <2>1. recovered(p).errors \in Nat
    BY <1>3 DEF PollTarget
  <2> QED
    BY <1>3, <1>4, <2>1 DEF Paid, Lesser
<1> QED
  BY <1>5, <1>6 DEF PaidInv

LEMMA PollPays ==
    ASSUME PaidInv, NEW p \in Polled, PollSucceeds(p) \/ PollFails(p) \/ OrphanEnds(p) PROVE PaidInv'
<1>0. /\ poll' = [poll EXCEPT ![p] = "over"] /\ target[p] \in PollTarget
      /\ poll' \in [Polled -> {"none", "reading", "orphan", "over"}]
      /\ Paid(target[p], poll[p], begun[p])
  BY DEF PollSucceeds, PollFails, OrphanEnds, PollEnds, PaidInv, TargetsTyped
<1>1. /\ target' = [target EXCEPT ![p] = target'[p]] /\ target'[p] \in PollTarget
      /\ begun' = [begun EXCEPT ![p] = begun'[p]] /\ begun'[p] \in 0..MaxErrors
      /\ target'[p].errors <= begun'[p]
  <2>1. CASE PollSucceeds(p)
    <3>1. /\ target' = [target EXCEPT ![p].errors = 0] /\ begun' = [begun EXCEPT ![p] = 0]
      BY <2>1 DEF PollSucceeds
    <3>2. target'[p] \in PollTarget /\ target'[p].errors = 0
      BY <1>0, <3>1 DEF PaidInv, TargetsTyped, PollTarget
    <3> QED
      BY <3>1, <3>2 DEF PaidInv, TargetsTyped
  <2>2. CASE PollFails(p)
    <3>1. /\ target' = [target EXCEPT ![p] = Failed(target[p])] /\ begun' = begun
          /\ poll[p] = "reading"
      BY <2>2 DEF PollFails
    <3>2. target[p].errors < begun[p] /\ begun[p] \in 0..MaxErrors /\ target[p].errors \in Nat
      BY <1>0, <3>1 DEF PaidInv, TargetsTyped, Paid, PollTarget
    <3> QED
      BY <1>0, <3>1, <3>2, FailedTarget DEF PaidInv, TargetsTyped
  <2>3. CASE OrphanEnds(p)
    <3>1. target' = target /\ begun' = begun /\ poll[p] = "orphan"
      BY <2>3 DEF OrphanEnds
    <3> QED
      BY <1>0, <3>1 DEF PaidInv, TargetsTyped, Paid
  <2> QED
    BY <2>1, <2>2, <2>3
<1>2. TargetsTyped'
  BY <1>0, <1>1 DEF PaidInv, TargetsTyped
<1>3. ASSUME NEW q \in Polled PROVE Paid(target'[q], poll'[q], begun'[q])
  <2>1. CASE q = p
    BY <1>0, <1>1, <2>1 DEF PaidInv, TargetsTyped, Paid
  <2>2. CASE q # p
    <3>1. target'[q] = target[q] /\ poll'[q] = poll[q] /\ begun'[q] = begun[q]
      BY <1>0, <1>1, <2>2 DEF PaidInv, TargetsTyped
    <3> QED
      BY <3>1 DEF PaidInv
  <2> QED
    BY <2>1, <2>2
<1> QED
  BY <1>2, <1>3 DEF PaidInv

LEMMA TickPays == ASSUME PaidInv, Tick PROVE PaidInv'
<1>1. /\ target' = [p \in Polled |->
              IF p \in Scheduled
              THEN [target[p] EXCEPT
                      !.age = Lesser(@ + 1, Interval[p]),
                      !.since = IF @ = Never THEN Never ELSE Lesser(@ + 1, Recovery)]
              ELSE target[p]]
      /\ poll' = poll /\ begun' = begun
  BY DEF Tick
<1>2. ASSUME NEW p \in Polled
      PROVE  target'[p] \in PollTarget /\ target'[p].errors = target[p].errors
  <2> DEFINE t == target[p]
             age == Lesser(t.age + 1, Interval[p])
             since == IF t.since = Never THEN Never ELSE Lesser(t.since + 1, Recovery)
  <2>1. t \in PollTarget /\ Interval[p] \in Nat
    BY DEF PaidInv, TargetsTyped
  <2>2. age \in Int /\ since \in Int
    BY <2>1 DEF PollTarget, Lesser, Never
  <2>3. target'[p] \in {t, [t EXCEPT !.age = age, !.since = since]}
    BY <1>1
  <2> HIDE DEF t, age, since
  <2>4. /\ [t EXCEPT !.age = age, !.since = since] \in PollTarget
        /\ [t EXCEPT !.age = age, !.since = since].errors = t.errors
    BY <2>1, <2>2, Redated
  <2>5. target'[p] \in PollTarget /\ target'[p].errors = t.errors
    BY <2>1, <2>3, <2>4
  <2> QED
    BY <2>5 DEF t
<1>3. TargetsTyped'
  BY <1>1, <1>2 DEF PaidInv, TargetsTyped
<1>4. \A q \in Polled : Paid(target'[q], poll'[q], begun'[q])
  BY <1>1, <1>2 DEF PaidInv, Paid
<1> QED
  BY <1>3, <1>4 DEF PaidInv

---------------------------------------------------------------------------
(* The errors, in every step.                                              *)

LEMMA PaidInit == PollerInit => PaidInv
<1> SUFFICES ASSUME PollerInit PROVE PaidInv
  OBVIOUS
<1>1. /\ target = [p \in Polled |-> Unscheduled] /\ poll = [p \in Polled |-> "none"]
      /\ begun = [p \in Polled |-> 0]
  BY DEF PollerInit
<1>2. TargetsTyped
  BY <1>1, NoTarget DEF TargetsTyped
<1>3. \A p \in Polled : Paid(target[p], poll[p], begun[p])
  BY <1>1, NoTarget DEF Paid
<1> QED
  BY <1>2, <1>3 DEF PaidInv

LEMMA PaidStep == PaidInv /\ [PollerNext]_pollerVars => PaidInv'
<1> SUFFICES ASSUME PaidInv, [PollerNext]_pollerVars PROVE PaidInv'
  OBVIOUS
<1>1. ASSUME NEW p \in Polled, NEW c \in Conns, AddTarget(p, c) PROVE PaidInv'
  BY <1>1, AddTargetPays
<1>2. ASSUME NEW p \in Polled, RemoveTarget(p) \/ ResetErrors(p) PROVE PaidInv'
  BY <1>2, DropPays, ResetPays DEF RemoveTarget, ResetErrors
<1>3. ASSUME NEW c \in Conns, RemoveConnection(c) \/ ResetAllErrors(c) PROVE PaidInv'
  BY <1>3, DropPays, ResetPays DEF RemoveConnection, ResetAllErrors
<1>4. CASE Start
  BY <1>4 DEF Start, PaidInv, TargetsTyped
<1>5. CASE Stop
  BY <1>5, StopPays
<1>6. CASE Check
  BY <1>6, CheckPays
<1>7. CASE Tick
  BY <1>7, TickPays
<1>8. ASSUME NEW p \in Polled, PollSucceeds(p) \/ PollFails(p) \/ OrphanEnds(p) PROVE PaidInv'
  BY <1>8, PollPays
<1>9. CASE UNCHANGED pollerVars
  BY <1>9 DEF pollerVars, PaidInv, TargetsTyped
<1> QED
  BY <1>1, <1>2, <1>3, <1>4, <1>5, <1>6, <1>7, <1>8, <1>9 DEF PollerNext
---------------------------------------------------------------------------
(* What becomes of the targets.                                            *)

LEMMA TargetIs ==
    ASSUME TargetsTyped, NEW p \in Polled
    PROVE  /\ target[p] \in PollTarget /\ target[p].conn \in Conns \cup {"none"}
           /\ target[p].age \in Int /\ target[p].errors \in Nat /\ target[p].since \in Int
BY DEF TargetsTyped, PollTarget

\* Only the number and the date of errors change.
Recounts(t, u) == u.conn = t.conn /\ u.age = t.age /\ u.since \in {t.since, Never, 0}

LEMMA ClearedRecounts == ASSUME NEW t \in PollTarget PROVE Recounts(t, Cleared(t))
BY DEF PollTarget, Cleared, Recounts

LEMMA FailedRecounts == ASSUME NEW t \in PollTarget PROVE Recounts(t, Failed(t))
<1> DEFINE errors == t.errors + 1
           since == IF t.errors + 1 >= MaxErrors THEN 0 ELSE t.since
<1>1. since \in {t.since, 0}
  OBVIOUS
<1>2. Failed(t) = [t EXCEPT !.errors = errors, !.since = since]
  BY DEF Failed
<1> HIDE DEF errors, since
<1> QED
  BY <1>1, <1>2 DEF PollTarget, Recounts

LEMMA ResetFields ==
    ASSUME PaidInv, NEW ps, Reset(ps), NEW q \in Polled
    PROVE  Recounts(target[q], target'[q]) /\ target'[q].errors \in {target[q].errors, 0}
<1>1. target'[q] = IF q \in ps THEN Cleared(target[q]) ELSE target[q]
  BY DEF Reset
<1>2. target[q] \in PollTarget
  BY TargetIs DEF PaidInv
<1>3. CASE q \in ps
  BY <1>1, <1>2, <1>3, ClearedRecounts, ClearedTarget
<1>4. CASE q \notin ps
  BY <1>1, <1>4 DEF Recounts
<1> QED
  BY <1>3, <1>4

LEMMA PollFields ==
    ASSUME PaidInv, NEW p \in Polled, PollSucceeds(p) \/ PollFails(p) \/ OrphanEnds(p),
           NEW q \in Polled
    PROVE  /\ Recounts(target[q], target'[q])
           /\ target'[q].errors # target[q].errors => q = p /\ poll[p] = "reading"
<1>2. target[q] \in PollTarget /\ target \in [Polled -> PollTarget]
  BY TargetIs DEF PaidInv, TargetsTyped
<1>3. CASE PollSucceeds(p)
  <2>1. target' = [target EXCEPT ![p] = [target[p] EXCEPT !.errors = 0]] /\ poll[p] = "reading"
    BY <1>3 DEF PollSucceeds
  <2> QED
    BY <1>2, <2>1 DEF Recounts, PollTarget
<1>4. CASE PollFails(p)
  <2>1. target' = [target EXCEPT ![p] = Failed(target[p])] /\ poll[p] = "reading"
    BY <1>4 DEF PollFails
  <2>2. CASE q = p
    BY <1>2, <2>1, <2>2, FailedRecounts
  <2>3. CASE q # p
    BY <1>2, <2>1, <2>3 DEF Recounts
  <2> QED
    BY <2>2, <2>3
<1>5. CASE OrphanEnds(p)
  BY <1>5 DEF OrphanEnds, Recounts
<1> QED
  BY <1>3, <1>4, <1>5

\* What one pass starts to poll.
Active == {p \in Scheduled : ~Suspended(p)} \cup Recovering(Scheduled)
Batch == FirstDue(Active)

LEMMA CheckFields ==
    ASSUME PaidInv, Check, NEW q \in Polled
    PROVE  /\ target'[q].conn = target[q].conn
           /\ target'[q].age = IF q \in Batch THEN 0 ELSE target[q].age
           /\ target'[q].since \in {target[q].since, Never, 0}
           /\ target'[q].errors \in {target[q].errors, 0}
<1> DEFINE t == IF q \in Recovering(Scheduled) THEN Cleared(target[q]) ELSE target[q]
<1>1. target'[q] = IF q \in Batch THEN [t EXCEPT !.age = 0] ELSE t
  BY DEF Check, Batch, Active
<1>2. target[q] \in PollTarget
  BY TargetIs DEF PaidInv
<1>3. /\ t \in PollTarget /\ Recounts(target[q], t) /\ t.errors \in {target[q].errors, 0}
  BY <1>2, ClearedRecounts, ClearedTarget DEF Recounts
<1> HIDE DEF t
<1> QED
  BY <1>1, <1>3 DEF PollTarget, Recounts

LEMMA TickFields ==
    ASSUME PaidInv, Tick, NEW q \in Polled
    PROVE  /\ target'[q].conn = target[q].conn /\ target'[q].errors = target[q].errors
           /\ q \in Scheduled => /\ target'[q].age = Lesser(target[q].age + 1, Interval[q])
                                 /\ target'[q].since = IF target[q].since = Never THEN Never
                                                       ELSE Lesser(target[q].since + 1, Recovery)
           /\ q \notin Scheduled => target'[q] = target[q]
<1> DEFINE t == target[q]
           age == Lesser(t.age + 1, Interval[q])
           since == IF t.since = Never THEN Never ELSE Lesser(t.since + 1, Recovery)
<1>1. target'[q] = IF q \in Scheduled THEN [t EXCEPT !.age = age, !.since = since] ELSE t
  BY DEF Tick
<1>2. t \in PollTarget
  BY TargetIs DEF PaidInv
<1>3. /\ [t EXCEPT !.age = age, !.since = since].age = age
      /\ [t EXCEPT !.age = age, !.since = since].since = since
      /\ [t EXCEPT !.age = age, !.since = since].conn = t.conn
      /\ [t EXCEPT !.age = age, !.since = since].errors = t.errors
  <2> HIDE DEF t, age, since
  <2> QED
    BY <1>2 DEF PollTarget
<1> QED
  BY <1>1, <1>3

\* The same fields, as long as nobody touches the table.
LEMMA KeepsTable ==
    ASSUME PaidInv,
           \/ \E ps \in SUBSET Polled : Reset(ps)
           \/ \E p \in Polled : PollSucceeds(p) \/ PollFails(p) \/ OrphanEnds(p)
           \/ Start \/ Stop \/ Check \/ Tick \/ UNCHANGED pollerVars
    PROVE  /\ \A q \in Polled : target'[q].conn = target[q].conn
           /\ Scheduled' = Scheduled /\ before' = before
<1>1. ASSUME NEW q \in Polled PROVE target'[q].conn = target[q].conn
  <2>1. ASSUME NEW ps \in SUBSET Polled, Reset(ps) PROVE target'[q].conn = target[q].conn
    BY <2>1, ResetFields DEF Recounts
  <2>2. ASSUME NEW p \in Polled, PollSucceeds(p) \/ PollFails(p) \/ OrphanEnds(p)
        PROVE  target'[q].conn = target[q].conn
    BY <2>2, PollFields DEF Recounts
  <2>3. Start \/ Stop \/ UNCHANGED pollerVars => target'[q].conn = target[q].conn
    BY DEF Start, Stop, pollerVars
  <2> QED
    BY <2>1, <2>2, <2>3, CheckFields, TickFields
<1>2. before' = before
  BY DEF Reset, PollSucceeds, PollFails, OrphanEnds, PollEnds, Start, Stop, Check, Tick, pollerVars
<1> QED
  BY <1>1, <1>2 DEF Scheduled

LEMMA AddTargetTable ==
    ASSUME PaidInv, NEW p \in Polled, NEW c \in Conns, AddTarget(p, c)
    PROVE  /\ target'[p] = Fresh(p, c) /\ \A q \in Polled \ {p} : target'[q] = target[q]
           /\ Scheduled' = Scheduled \cup {p}
<1>1. target' = [target EXCEPT ![p] = Fresh(p, c)] /\ target \in [Polled -> PollTarget]
  BY DEF AddTarget, PaidInv, TargetsTyped
<1>2. target'[p] = Fresh(p, c) /\ \A q \in Polled \ {p} : target'[q] = target[q]
  BY <1>1
<1>3. Fresh(p, c).conn # "none"
  BY DEF Fresh
<1> QED
  BY <1>2, <1>3 DEF Scheduled

LEMMA DropTable ==
    ASSUME NEW ps, Drop(ps)
    PROVE  /\ \A q \in Polled : target'[q] = IF q \in ps THEN Unscheduled ELSE target[q]
           /\ Scheduled' = Scheduled \ ps
BY DEF Drop, Scheduled, Unscheduled

\* Every step is one of these.
LEMMA PollerCases ==
    ASSUME [PollerNext]_pollerVars
    PROVE  \/ \E p \in Polled, c \in Conns : AddTarget(p, c)
           \/ \E ps \in SUBSET Polled : Drop(ps)
           \/ \E ps \in SUBSET Polled : Reset(ps)
           \/ \E p \in Polled : PollSucceeds(p) \/ PollFails(p) \/ OrphanEnds(p)
           \/ Start \/ Stop \/ Check \/ Tick \/ UNCHANGED pollerVars
<1>1. \A p \in Polled : {p} \in SUBSET Polled
  OBVIOUS
<1>2. \A c \in Conns : Over(c) \in SUBSET Polled
  BY DEF Over, Scheduled
<1> QED
  BY <1>1, <1>2 DEF PollerNext, RemoveTarget, ResetErrors, RemoveConnection, ResetAllErrors

---------------------------------------------------------------------------
(* The order of the table.                                                 *)

Ordered(set, bef) ==
    /\ bef \in [Polled -> SUBSET set]
    /\ \A p \in Polled \ set : bef[p] = {}
    /\ \A p, q \in set : p # q => (p \in bef[q] <=> q \notin bef[p])
    /\ \A p, q \in set : p \in bef[q] => p # q /\ bef[p] \subseteq bef[q]

LEMMA OrderGrows ==
    ASSUME NEW set \in SUBSET Polled, NEW bef, Ordered(set, bef), NEW p \in Polled \ set,
           NEW bef2, bef2 = [bef EXCEPT ![p] = set]
    PROVE  Ordered(set \cup {p}, bef2)
BY DEF Ordered

LEMMA OrderShrinks ==
    ASSUME NEW set \in SUBSET Polled, NEW bef, Ordered(set, bef), NEW ps,
           NEW bef2, bef2 = [p \in Polled |-> IF p \in ps THEN {} ELSE bef[p] \ ps]
    PROVE  Ordered(set \ ps, bef2)
BY DEF Ordered

LEMMA OrderStep ==
    ASSUME PaidInv, Ordered(Scheduled, before), [PollerNext]_pollerVars
    PROVE  Ordered(Scheduled', before')
<1>0. Scheduled \in SUBSET Polled
  BY DEF Scheduled
<1>1. ASSUME NEW p \in Polled, NEW c \in Conns, AddTarget(p, c)
      PROVE  Ordered(Scheduled', before')
  <2>1. Scheduled' = Scheduled \cup {p}
    BY <1>1, AddTargetTable
  <2>2. CASE p \in Scheduled
    <3>1. Scheduled' = Scheduled /\ before' = before
      BY <1>1, <2>1, <2>2 DEF AddTarget
    <3> QED
      BY <3>1
  <2>3. CASE p \notin Scheduled
    <3>1. before' = [before EXCEPT ![p] = Scheduled]
      BY <1>1, <2>3 DEF AddTarget
    <3> QED
      BY <1>0, <2>1, <2>3, <3>1, OrderGrows
  <2> QED
    BY <2>2, <2>3
<1>2. ASSUME NEW ps \in SUBSET Polled, Drop(ps) PROVE Ordered(Scheduled', before')
  <2>1. /\ Scheduled' = Scheduled \ ps
        /\ before' = [p \in Polled |-> IF p \in ps THEN {} ELSE before[p] \ ps]
    BY <1>2, DropTable DEF Drop
  <2> QED
    BY <1>0, <2>1, OrderShrinks
<1>3. CASE Scheduled' = Scheduled /\ before' = before
  BY <1>3
<1> QED
  BY <1>1, <1>2, <1>3, KeepsTable, PollerCases

---------------------------------------------------------------------------
(* The loop, and the bounds of the times.                                  *)

TimesTyped ==
    /\ pollAge \in [Polled -> 0..PollTimeout]
    /\ wait \in [Polled -> Nat] /\ \A p \in Polled : wait[p] <= Horizon(p)
    /\ \A p \in Polled : target[p].age \in Nat
    /\ \A p \in Polled : target[p].since \in (0..Recovery) \cup {Never}

\* The loop waits for the polls, and for nothing else.
Gathering ==
    /\ loop \in {"stopped", "ready", "gathering", "sleeping"}
    /\ \A p \in Polled : poll[p] = "reading" => p \in Scheduled
    /\ (\E p \in Polled : Reading(p)) <=> loop = "gathering"

LEMMA HorizonIsNat ==
    ASSUME NEW p \in Polled
    PROVE  Cardinality(Polled) \in Nat /\ Cycle \in Nat /\ Interval[p] \in Nat /\ Horizon(p) \in Nat
<1>1. Cardinality(Polled) \in Nat /\ Interval[p] \in Nat
  BY FS_CardinalityType, PolledAssumption DEF PolledAssumption
<1>2. Cycle \in Nat
  BY DEF Cycle
<1>3. \A i, j \in Nat : i * j \in Nat
  BY SMT
<1>4. (1 + Cardinality(Polled)) * Cycle \in Nat
  BY <1>1, <1>2, <1>3
<1> QED
  BY <1>1, <1>2, <1>4 DEF Horizon

LEMMA TimesStep ==
    ASSUME PaidInv, TimesTyped, [PollerNext]_pollerVars
    PROVE  TimesTyped'
<1>0. ASSUME NEW ps \in SUBSET Polled, Drop(ps) PROVE TimesTyped'
  <2>1. pollAge' = pollAge /\ wait' = [p \in Polled |-> IF p \in ps THEN 0 ELSE wait[p]]
    BY <1>0 DEF Drop
  <2>2. \A q \in Polled : target'[q] = IF q \in ps THEN Unscheduled ELSE target[q]
    BY <1>0, DropTable
  <2>3. Unscheduled.age = 0 /\ Unscheduled.since = Never
    BY DEF Unscheduled
  <2>4. \A p \in Polled : Horizon(p) \in Nat
    BY HorizonIsNat
  <2>5. wait' \in [Polled -> Nat] /\ \A p \in Polled : wait'[p] <= Horizon(p)
    BY <2>1, <2>4 DEF TimesTyped
  <2> QED
    BY <2>1, <2>2, <2>3, <2>5 DEF TimesTyped, Horizon
<1>1. ASSUME NEW p \in Polled, NEW c \in Conns, AddTarget(p, c) PROVE TimesTyped'
  <2>1. /\ pollAge' = pollAge
        /\ wait' = [q \in Polled |-> IF q = p \/ p \in before[q] THEN 0 ELSE wait[q]]
    BY <1>1 DEF AddTarget
  <2>2. target'[p] = Fresh(p, c) /\ \A q \in Polled \ {p} : target'[q] = target[q]
    BY <1>1, AddTargetTable
  <2>3. Fresh(p, c).age = Interval[p] /\ Fresh(p, c).since = Never
    BY DEF Fresh
  <2>4. \A q \in Polled : Horizon(q) \in Nat /\ Interval[q] \in Nat
    BY HorizonIsNat
  <2>5. wait' \in [Polled -> Nat] /\ \A q \in Polled : wait'[q] <= Horizon(q)
    BY <2>1, <2>4 DEF TimesTyped
  <2>6. ASSUME NEW q \in Polled
        PROVE  target'[q].age \in Nat /\ target'[q].since \in (0..Recovery) \cup {Never}
    BY <2>2, <2>3, <2>4 DEF TimesTyped
  <2> QED
    BY <2>1, <2>5, <2>6 DEF TimesTyped, Horizon
<1>2. ASSUME \/ \E ps \in SUBSET Polled : Reset(ps)
             \/ \E p \in Polled : PollSucceeds(p) \/ PollFails(p) \/ OrphanEnds(p)
      PROVE  TimesTyped'
  <2>1. pollAge' = pollAge /\ wait' = wait
    BY <1>2 DEF Reset, PollSucceeds, PollFails, OrphanEnds, PollEnds
  <2>2. \A q \in Polled : Recounts(target[q], target'[q])
    BY <1>2, ResetFields, PollFields
  <2>3. ASSUME NEW q \in Polled
        PROVE  target'[q].age \in Nat /\ target'[q].since \in (0..Recovery) \cup {Never}
    BY <2>2 DEF TimesTyped, Recounts
  <2> QED
    BY <2>1, <2>3 DEF TimesTyped, Horizon
<1>3. CASE Start \/ Stop \/ UNCHANGED pollerVars
  <2>1. /\ target' = target /\ pollAge' \in {pollAge, [p \in Polled |-> 0]}
        /\ wait' \in {wait, [p \in Polled |-> 0]}
    BY <1>3 DEF Start, Stop, pollerVars
  <2>2. \A q \in Polled : Horizon(q) \in Nat
    BY HorizonIsNat
  <2>3. wait' \in [Polled -> Nat] /\ \A q \in Polled : wait'[q] <= Horizon(q)
    BY <2>1, <2>2 DEF TimesTyped
  <2>4. pollAge' \in [Polled -> 0..PollTimeout]
    BY <2>1 DEF TimesTyped
  <2> QED
    BY <2>1, <2>3, <2>4 DEF TimesTyped, Horizon
<1>4. CASE Check
  <2>1. /\ pollAge' = [p \in Polled |-> 0]
        /\ wait' = [p \in Polled |-> IF p \in Batch THEN 0 ELSE wait[p]]
    BY <1>4 DEF Check, Batch, Active
  <2>2. \A q \in Polled : Horizon(q) \in Nat
    BY HorizonIsNat
  <2>3. wait' \in [Polled -> Nat] /\ \A q \in Polled : wait'[q] <= Horizon(q)
    BY <2>1, <2>2 DEF TimesTyped
  <2>4. ASSUME NEW q \in Polled
        PROVE  target'[q].age \in Nat /\ target'[q].since \in (0..Recovery) \cup {Never}
    BY <1>4, CheckFields DEF TimesTyped
  <2>5. pollAge' \in [Polled -> 0..PollTimeout]
    BY <2>1
  <2> QED
    BY <2>3, <2>4, <2>5 DEF TimesTyped, Horizon
<1>5. CASE Tick
  <2>1. /\ pollAge' = [p \in Polled |-> IF Reading(p) THEN pollAge[p] + 1 ELSE 0]
        /\ \A p \in Polled : Reading(p) => pollAge[p] < PollTimeout
        /\ wait' = [p \in Polled |->
              IF p \in Scheduled /\ ~Suspended(p) /\ loop # "stopped"
              THEN Lesser(wait[p] + 1, Horizon(p)) ELSE 0]
    BY <1>5 DEF Tick
  <2>2. \A q \in Polled : Horizon(q) \in Nat /\ Interval[q] \in Nat
    BY HorizonIsNat
  <2>3. \A q \in Polled : /\ wait'[q] \in {Lesser(wait[q] + 1, Horizon(q)), 0}
                          /\ wait[q] \in Nat
    BY <2>1 DEF TimesTyped
  <2>4. \A q \in Polled : wait'[q] \in Nat /\ wait'[q] <= Horizon(q)
    BY <2>2, <2>3 DEF Lesser
  <2>5. ASSUME NEW q \in Polled
        PROVE  target'[q].age \in Nat /\ target'[q].since \in (0..Recovery) \cup {Never}
    BY <1>5, <2>2, TickFields DEF TimesTyped, Lesser, Never
  <2>6. wait' \in [Polled -> Nat]
    BY <2>1, <2>4
  <2>7. pollAge' \in [Polled -> 0..PollTimeout]
    BY <2>1 DEF TimesTyped
  <2> QED
    BY <2>4, <2>5, <2>6, <2>7 DEF TimesTyped, Horizon
<1> QED
  BY <1>0, <1>1, <1>2, <1>3, <1>4, <1>5, PollerCases

\* Whose reads are under way stays so when the table's entries go.
LEMMA OrphansRead ==
    ASSUME PaidInv, NEW ps, poll' = Orphaned(ps), NEW p \in Polled
    PROVE  Reading(p)' <=> Reading(p)
BY DEF Orphaned, Reading, PaidInv, TargetsTyped

LEMMA GatheringStep ==
    ASSUME PaidInv, Gathering, [PollerNext]_pollerVars
    PROVE  Gathering'
<1>1. ASSUME NEW ps, poll' = Orphaned(ps), loop' = loop, Scheduled \ ps \subseteq Scheduled'
      PROVE  Gathering'
  <2>1. \A p \in Polled : poll'[p] = "reading" => p \notin ps /\ poll[p] = "reading"
    BY <1>1, OrphanedPolls DEF PaidInv
  <2>2. \A p \in Polled : Reading(p)' <=> Reading(p)
    BY <1>1, OrphansRead
  <2> QED
    BY <1>1, <2>1, <2>2 DEF Gathering
<1>2. ASSUME NEW p \in Polled, NEW c \in Conns, AddTarget(p, c) PROVE Gathering'
  <2>1. poll' = Orphaned({p}) /\ loop' = loop
    BY <1>2 DEF AddTarget
  <2>2. Scheduled' = Scheduled \cup {p}
    BY <1>2, AddTargetTable
  <2> QED
    BY <1>1, <2>1, <2>2
<1>3. ASSUME NEW ps \in SUBSET Polled, Drop(ps) PROVE Gathering'
  <2>1. poll' = Orphaned(ps) /\ loop' = loop
    BY <1>3 DEF Drop
  <2>2. Scheduled' = Scheduled \ ps
    BY <1>3, DropTable
  <2> QED
    BY <1>1, <2>1, <2>2
<1>4. ASSUME poll' = poll, loop = "gathering" <=> loop' = "gathering",
             loop' \in {"stopped", "ready", "gathering", "sleeping"}, Scheduled' = Scheduled
      PROVE  Gathering'
  BY <1>4 DEF Gathering, Reading
<1>5. CASE \E ps \in SUBSET Polled : Reset(ps)
  <2>1. poll' = poll /\ loop' = loop
    BY <1>5 DEF Reset
  <2> QED
    BY <1>4, <1>5, <2>1, KeepsTable DEF Gathering
<1>6. CASE Start \/ Tick \/ UNCHANGED pollerVars
  <2>1. /\ poll' = poll /\ (loop = "gathering" <=> loop' = "gathering")
        /\ loop' \in {"ready", loop}
    BY <1>6 DEF Start, Tick, pollerVars
  <2> QED
    BY <1>4, <1>6, <2>1, KeepsTable DEF Gathering
<1>7. CASE Stop
  BY <1>7 DEF Stop, Gathering, Reading
<1>8. CASE Check
  <2>1. /\ poll' = [p \in Polled |-> IF p \in Batch THEN "reading" ELSE "none"]
        /\ loop' = IF Batch = {} THEN "sleeping" ELSE "gathering"
    BY <1>8 DEF Check, Batch, Active
  <2>2. Batch \subseteq Scheduled /\ Scheduled \subseteq Polled /\ Scheduled' = Scheduled
    BY <1>8, KeepsTable DEF Batch, Active, FirstDue, Earliest, Recovering, Scheduled
  <2> QED
    BY <2>1, <2>2 DEF Gathering, Reading
<1>9. ASSUME NEW p \in Polled, PollSucceeds(p) \/ PollFails(p) \/ OrphanEnds(p) PROVE Gathering'
  <2>1. /\ poll' = [poll EXCEPT ![p] = "over"]
        /\ loop' = IF Gathered(poll') THEN "sleeping" ELSE "gathering"
        /\ poll \in [Polled -> {"none", "reading", "orphan", "over"}]
    BY <1>9 DEF PollSucceeds, PollFails, OrphanEnds, PollEnds, PaidInv, TargetsTyped
  <2>2. Scheduled' = Scheduled
    BY <1>9, KeepsTable
  <2>3. \A q \in Polled : poll'[q] = "reading" => poll[q] = "reading"
    BY <2>1
  <2>4. Gathered(poll') <=> ~\E q \in Polled : Reading(q)'
    BY <2>1 DEF Gathered, Reading
  <2> QED
    BY <2>1, <2>2, <2>3, <2>4 DEF Gathering
<1> QED
  BY <1>2, <1>3, <1>5, <1>6, <1>7, <1>8, <1>9, PollerCases

---------------------------------------------------------------------------
(* The order of the table has no gaps: who is not among the first of a set *)
(* of points has a full batch of it before it.                             *)

Standing(p, set, bef) == Cardinality(bef[p] \cap set)
First(set, bef) == {p \in set : Standing(p, set, bef) < BatchSize}

LEMMA Standings ==
    ASSUME NEW whole \in SUBSET Polled, NEW bef, Ordered(whole, bef),
           NEW set \in SUBSET whole, NEW p \in set
    PROVE  /\ Standing(p, set, bef) \in Nat /\ Standing(p, set, bef) < Cardinality(set)
           /\ \A q \in set \cap bef[p] : Standing(q, set, bef) < Standing(p, set, bef)
<1>1. IsFiniteSet(set) /\ Cardinality(set) \in Nat
  <2>1. set \in SUBSET Polled
    OBVIOUS
  <2>2. IsFiniteSet(set)
    BY <2>1, PolledAssumption, FS_Subset DEF PolledAssumption
  <2> QED
    BY <2>2, FS_CardinalityType
<1>2. ASSUME NEW S \in SUBSET set, NEW x \in set \ S
      PROVE  IsFiniteSet(S) /\ Cardinality(S) \in Nat /\ Cardinality(S) < Cardinality(set)
  <2>1. IsFiniteSet(S) /\ Cardinality(S) <= Cardinality(set)
        /\ (Cardinality(set) = Cardinality(S) => set = S)
    BY <1>1, FS_Subset
  <2>2. Cardinality(S) \in Nat
    BY <2>1, FS_CardinalityType
  <2>3. set # S
    OBVIOUS
  <2> QED
    BY <1>1, <2>1, <2>2, <2>3
<1>3. ASSUME NEW q \in set PROVE q \notin bef[q] /\ bef[q] \cap set \in SUBSET set
  BY DEF Ordered
<1>4. ASSUME NEW q \in set
      PROVE  /\ IsFiniteSet(bef[q] \cap set) /\ Cardinality(bef[q] \cap set) \in Nat
             /\ Cardinality(bef[q] \cap set) < Cardinality(set)
  <2>1. q \in set \ (bef[q] \cap set)
    BY <1>3
  <2> QED
    BY <1>2, <1>3, <2>1
<1>5. ASSUME NEW q \in set \cap bef[p]
      PROVE  Cardinality(bef[q] \cap set) < Cardinality(bef[p] \cap set)
  <2>1. bef[q] \cap set \in SUBSET (bef[p] \cap set) /\ q \in (bef[p] \cap set) \ bef[q]
    BY <1>3 DEF Ordered
  <2>2. /\ Cardinality(bef[q] \cap set) <= Cardinality(bef[p] \cap set)
        /\ Cardinality(bef[p] \cap set) = Cardinality(bef[q] \cap set)
              => bef[p] \cap set = bef[q] \cap set
    BY <1>4, <2>1, FS_Subset
  <2>3. bef[p] \cap set # bef[q] \cap set
    BY <2>1
  <2>4. Cardinality(bef[q] \cap set) \in Nat /\ Cardinality(bef[p] \cap set) \in Nat
    BY <1>4
  <2> QED
    BY <2>2, <2>3, <2>4
<1> QED
  BY <1>4, <1>5 DEF Standing

LEMMA FullBatchBefore ==
    ASSUME NEW whole \in SUBSET Polled, NEW bef, Ordered(whole, bef),
           NEW set \in SUBSET whole, NEW p \in set \ First(set, bef)
    PROVE  /\ First(set, bef) \subseteq bef[p]
           /\ Cardinality(First(set, bef)) \in Nat /\ Cardinality(First(set, bef)) >= BatchSize
<1> DEFINE E == First(set, bef)
           late == set \ E
           n == Cardinality(set)
           rank == [q \in late |-> Standing(q, set, bef)]
<1>1. IsFiniteSet(set) /\ n \in Nat
  <2>1. set \in SUBSET Polled
    OBVIOUS
  <2>2. IsFiniteSet(set)
    BY <2>1, PolledAssumption, FS_Subset DEF PolledAssumption
  <2> QED
    BY <2>2, FS_CardinalityType
<1>2. ASSUME NEW q \in set
      PROVE  /\ Standing(q, set, bef) \in Nat /\ Standing(q, set, bef) < n
             /\ \A r \in set \cap bef[q] : Standing(r, set, bef) < Standing(q, set, bef)
  BY <1>2, Standings
<1>3. ASSUME NEW q \in E PROVE q \in bef[p]
  <2>1. q \in set /\ q # p /\ Standing(q, set, bef) < BatchSize /\ p \in set
        /\ ~(Standing(p, set, bef) < BatchSize)
    BY <1>3 DEF First
  <2>2. p \notin bef[q]
    BY <1>2, <2>1
  <2> QED
    BY <2>1, <2>2 DEF Ordered
<1>4. IsFiniteSet(E) /\ IsFiniteSet(late) /\ Cardinality(E) \in Nat /\ Cardinality(late) \in Nat
  <2>1. E \in SUBSET set /\ late \in SUBSET set
    BY DEF First
  <2> HIDE DEF E, late
  <2>2. IsFiniteSet(E) /\ IsFiniteSet(late)
    BY <1>1, <2>1, FS_Subset
  <2> QED
    BY <2>2, FS_CardinalityType
<1>5. n = Cardinality(E) + Cardinality(late)
  <2>1. set = E \cup late /\ E \cap late = {}
    BY DEF First
  <2> HIDE DEF E, late
  <2>2. Cardinality(E \cup late) = Cardinality(E) + Cardinality(late) - Cardinality(E \cap late)
    BY <1>4, FS_Union
  <2>3. Cardinality(E \cap late) = 0
    BY <2>1, FS_EmptySet
  <2> QED
    BY <1>4, <2>1, <2>2, <2>3
<1>6. rank \in [late -> BatchSize..(n - 1)]
  BY <1>1, <1>2 DEF First
<1>7. \A x, y \in late : x # y => rank[x] # rank[y]
  <2> TAKE x, y \in late
  <2> HAVE x # y
  <2>1. x \in set /\ y \in set
    OBVIOUS
  <2>2. x \in bef[y] \/ y \in bef[x]
    BY <2>1 DEF Ordered
  <2>3. Standing(x, set, bef) # Standing(y, set, bef)
    BY <1>2, <2>1, <2>2
  <2> QED
    BY <2>3
<1>8. p \in late /\ BatchSize <= n - 1
  BY <1>1, <1>2 DEF First
<1>9. IsFiniteSet(BatchSize..(n - 1)) /\ Cardinality(BatchSize..(n - 1)) = n - BatchSize
  BY <1>1, <1>8, FS_Interval
<1> HIDE DEF E, late, n, rank
<1>10. ~(Cardinality(BatchSize..(n - 1)) < Cardinality(late))
  <2> DEFINE places == BatchSize..(n - 1)
  <2>1. rank \in [late -> places] /\ IsFiniteSet(places)
    BY <1>6, <1>9
  <2> HIDE DEF places
  <2>2. Cardinality(places) < Cardinality(late) => \E x, y \in late : x # y /\ rank[x] = rank[y]
    BY <1>4, <2>1, FS_PigeonHole
  <2> QED
    BY <1>7, <2>2 DEF places
<1>11. Cardinality(E) \in Nat /\ Cardinality(E) >= BatchSize
  BY <1>1, <1>4, <1>5, <1>9, <1>10
<1>12. E \subseteq bef[p]
  BY <1>3
<1> QED
  BY <1>11, <1>12 DEF E

\* A number of batches that all the others fill is one less than the rounds.
LEMMA BatchesFit ==
    ASSUME NEW k \in Nat, NEW m \in Nat, k * BatchSize <= m
    PROVE  k <= m \div BatchSize
<1>1. BatchSize \in Nat \ {0}
  BY PollerLimits DEF PollerLimits
<1> DEFINE d == m \div BatchSize
<1>2. d \in Nat /\ m = d * BatchSize + (m % BatchSize) /\ m % BatchSize \in 0..(BatchSize - 1)
  BY <1>1
<1>3. SUFFICES ASSUME k >= d + 1 PROVE FALSE
  BY <1>2
<1>4. k * BatchSize >= (d + 1) * BatchSize
  <2>1. \A i, j, b \in Nat : i >= j => i * b >= j * b
    OBVIOUS
  <2> QED
    BY <1>1, <1>2, <1>3, <2>1
<1>5. (d + 1) * BatchSize = d * BatchSize + BatchSize
  BY <1>1, <1>2
<1> HIDE DEF d
<1> QED
  BY <1>1, <1>2, <1>4, <1>5

---------------------------------------------------------------------------
(* Whoever waits longer than its interval has seen a full batch of others  *)
(* read in every pass since, and no point twice: it would have become due  *)
(* again only after all passes that fit into its interval.                 *)

\* It may be e ticks since the loop last looked for due targets.
InPass(e, lp, state, ages) ==
    /\ lp # "ready" => e <= PollTimeout
    /\ \A q \in Polled : state[q] \in {"reading", "orphan"} => e <= ages[q]

\* In k passes the points of R were read, before p, which became due before them.
PassedOver(p, k, e, R, bef, t, w) ==
    /\ k * BatchSize <= Cardinality(R)
    /\ \A q \in R \cap bef : t[q].age <= (k - 1) * Cycle + e
    /\ w <= Interval[p] + k * Cycle + e

Accounted(p, bef, t, w, lp, state, ages) ==
    \E k \in Nat, e \in 0..Cycle, R \in SUBSET (Polled \ {p}) :
        InPass(e, lp, state, ages) /\ PassedOver(p, k, e, R, bef, t, w)

Overdue(p) == wait[p] >= Interval[p]

Waits ==
    /\ \A p \in Scheduled : target[p].age >= Lesser(wait[p], Interval[p])
    /\ \A p \in Polled : poll[p] = "reading" => wait[p] <= pollAge[p]

Served ==
    \A p \in Scheduled :
        /\ Suspended(p) => ~Overdue(p)
        /\ Overdue(p) => Accounted(p, before[p], target, wait[p], loop, poll, pollAge)

PollerInv ==
    /\ PaidInv /\ Ordered(Scheduled, before) /\ TimesTyped /\ Gathering
    /\ Waits /\ (Fits => Served)

LEMMA TimesAre ==
    ASSUME TimesTyped, NEW p \in Polled
    PROVE  /\ pollAge[p] \in 0..PollTimeout /\ wait[p] \in Nat /\ target[p].age \in Nat
           /\ Interval[p] \in Nat \ {0} /\ Cycle \in Nat /\ Cycle = PollTimeout + 1
           /\ PollTimeout \in Nat
BY DEF TimesTyped, Cycle

LEMMA RoundsFit ==
    ASSUME Fits, NEW p \in Polled
    PROVE  /\ Rounds \in Nat /\ Rounds >= 1 /\ Cycle \in Nat /\ Cycle >= 1
           /\ Rounds * Cycle \in Nat /\ Rounds * Cycle <= Interval[p] /\ Cycle <= Interval[p]
           /\ \A k \in Nat, R \in SUBSET (Polled \ {p}) :
                k * BatchSize <= Cardinality(R) =>
                    (k + 1) * Cycle <= Rounds * Cycle /\ IsFiniteSet(R)
                    /\ Cardinality(R) \in Nat
<1> DEFINE n == Cardinality(Polled)
<1>1. IsFiniteSet(Polled) /\ n \in Nat /\ n >= 1
  <2>1. IsFiniteSet(Polled) /\ n \in Nat
    BY FS_CardinalityType, PolledAssumption DEF PolledAssumption
  <2>2. n # 0
    BY <2>1, FS_EmptySet
  <2> QED
    BY <2>1, <2>2
<1>2. (n - 1) \div BatchSize \in Nat
  BY <1>1
<1>3. Rounds = 1 + (n - 1) \div BatchSize
  BY DEF Rounds
<1>4. Cycle \in Nat /\ Cycle >= 1
  BY DEF Cycle
<1>5. \A i, j, c \in Nat : i * c \in Nat /\ (i <= j => i * c <= j * c) /\ 1 * c = c
  OBVIOUS
<1>6. Rounds \in Nat /\ Rounds >= 1
  BY <1>2, <1>3
<1>7. /\ Rounds * Cycle \in Nat /\ Rounds * Cycle <= Interval[p] /\ Cycle <= Interval[p]
  <2>1. Rounds * Cycle \in Nat /\ Cycle <= Rounds * Cycle
    BY <1>4, <1>5, <1>6
  <2> QED
    BY <1>4, <2>1 DEF Fits
<1>8. ASSUME NEW k \in Nat, NEW R \in SUBSET (Polled \ {p}), k * BatchSize <= Cardinality(R)
      PROVE  /\ (k + 1) * Cycle <= Rounds * Cycle /\ IsFiniteSet(R)
             /\ Cardinality(R) \in Nat
  <2>1. IsFiniteSet(Polled \ {p}) /\ Cardinality(Polled \ {p}) = n - 1
    BY <1>1, FS_RemoveElement
  <2>2. IsFiniteSet(R) /\ Cardinality(R) <= n - 1
    BY <2>1, FS_Subset
  <2>3. Cardinality(R) \in Nat
    BY <2>2, FS_CardinalityType
  <2>4. k * BatchSize <= n - 1
    <3>1. k * BatchSize \in Nat
      BY <1>5
    <3> QED
      BY <1>1, <1>8, <2>2, <2>3, <3>1
  <2>5. k <= (n - 1) \div BatchSize
    <3>1. n - 1 \in Nat
      BY <1>1
    <3> HIDE DEF n
    <3> QED
      BY <2>4, <3>1, BatchesFit
  <2>6. k + 1 <= Rounds
    BY <1>2, <1>3, <2>5
  <2> QED
    BY <1>4, <1>5, <1>6, <2>2, <2>3, <2>6
<1> QED
  BY <1>4, <1>6, <1>7, <1>8

\* What changes neither the ages before p nor the pass keeps the account.
LEMMA AccountStays ==
    ASSUME NEW p \in Polled, NEW bef, NEW t, NEW w, NEW lp, NEW state, NEW ages,
           NEW bef2, NEW t2, NEW lp2, NEW state2,
           Accounted(p, bef, t, w, lp, state, ages),
           bef2 \subseteq bef, \A q \in bef2 : t2[q].age = t[q].age,
           lp2 # "ready" => lp # "ready",
           \A q \in Polled : state2[q] \in {"reading", "orphan"} => state[q] \in {"reading", "orphan"}
    PROVE  Accounted(p, bef2, t2, w, lp2, state2, ages)
<1>1. PICK k \in Nat, e \in 0..Cycle, R \in SUBSET (Polled \ {p}) :
          InPass(e, lp, state, ages) /\ PassedOver(p, k, e, R, bef, t, w)
  BY DEF Accounted
<1>2. InPass(e, lp2, state2, ages)
  BY <1>1 DEF InPass
<1>3. PassedOver(p, k, e, R, bef2, t2, w)
  BY <1>1 DEF PassedOver
<1> QED
  BY <1>2, <1>3 DEF Accounted

LEMMA WaitsStep ==
    ASSUME PollerInv, [PollerNext]_pollerVars
    PROVE  Waits'
<1>0. PaidInv /\ TimesTyped /\ Waits
  BY DEF PollerInv
<1>1. ASSUME NEW p \in Polled, NEW c \in Conns, AddTarget(p, c) PROVE Waits'
  <2>1. /\ wait' = [q \in Polled |-> IF q = p \/ p \in before[q] THEN 0 ELSE wait[q]]
        /\ poll' = Orphaned({p}) /\ pollAge' = pollAge
    BY <1>1 DEF AddTarget
  <2>2. /\ target'[p] = Fresh(p, c) /\ \A q \in Polled \ {p} : target'[q] = target[q]
        /\ Scheduled' = Scheduled \cup {p} /\ Fresh(p, c).age = Interval[p]
    BY <1>0, <1>1, AddTargetTable DEF Fresh
  <2>3. \A q \in Polled : poll'[q] = "reading" => q # p /\ poll[q] = "reading"
    BY <1>0, <2>1, OrphanedPolls DEF PaidInv
  <2>4. \A q \in Polled : wait'[q] \in {0, wait[q]} /\ (q = p => wait'[q] = 0)
    BY <2>1
  <2>5. ASSUME NEW q \in Scheduled' PROVE target'[q].age >= Lesser(wait'[q], Interval[q])
    <3>1. q \in Polled
      BY DEF Scheduled
    <3>2. CASE q = p
      BY <1>0, <2>2, <2>4, <3>1, <3>2, TimesAre DEF Lesser
    <3>3. CASE q # p
      <4>1. target'[q].age = target[q].age /\ target[q].age >= Lesser(wait[q], Interval[q])
        BY <1>0, <2>2, <3>1, <3>3 DEF Waits
      <4> QED
        BY <1>0, <2>4, <3>1, <4>1, TimesAre DEF Lesser
    <3> QED
      BY <3>2, <3>3
  <2>6. ASSUME NEW q \in Polled, poll'[q] = "reading" PROVE wait'[q] <= pollAge'[q]
    <3>1. wait[q] <= pollAge[q]
      BY <1>0, <2>3, <2>6 DEF Waits
    <3> QED
      BY <1>0, <2>1, <2>4, <3>1, TimesAre
  <2> QED
    BY <2>5, <2>6 DEF Waits
<1>2. ASSUME NEW ps \in SUBSET Polled, Drop(ps) PROVE Waits'
  <2>1. /\ wait' = [q \in Polled |-> IF q \in ps THEN 0 ELSE wait[q]]
        /\ poll' = Orphaned(ps) /\ pollAge' = pollAge
    BY <1>2 DEF Drop
  <2>2. /\ \A q \in Polled : target'[q] = IF q \in ps THEN Unscheduled ELSE target[q]
        /\ Scheduled' = Scheduled \ ps
    BY <1>2, DropTable
  <2>3. \A q \in Polled : poll'[q] = "reading" => q \notin ps /\ poll[q] = "reading"
    BY <1>0, <2>1, OrphanedPolls DEF PaidInv
  <2> QED
    BY <1>0, <2>1, <2>2, <2>3 DEF Waits, Scheduled
<1>3. CASE \/ \E ps \in SUBSET Polled : Reset(ps)
           \/ \E p \in Polled : PollSucceeds(p) \/ PollFails(p) \/ OrphanEnds(p)
           \/ Start \/ UNCHANGED pollerVars
  <2>1. wait' = wait /\ pollAge' = pollAge
    BY <1>3 DEF Reset, PollSucceeds, PollFails, OrphanEnds, PollEnds, Start, pollerVars
  <2>2. \A q \in Polled : poll'[q] = "reading" => poll[q] = "reading"
    BY <1>0, <1>3 DEF Reset, PollSucceeds, PollFails, OrphanEnds, PollEnds, Start, pollerVars,
                      PaidInv, TargetsTyped
  <2>3. ASSUME NEW q \in Polled PROVE target'[q].age = target[q].age
    <3>1. Start \/ UNCHANGED pollerVars => target'[q].age = target[q].age
      BY DEF Start, pollerVars
    <3> QED
      BY <1>0, <1>3, <3>1, ResetFields, PollFields DEF Recounts
  <2>4. Scheduled' = Scheduled /\ Scheduled \subseteq Polled
    BY <1>0, <1>3, KeepsTable DEF Scheduled
  <2> QED
    BY <1>0, <2>1, <2>2, <2>3, <2>4 DEF Waits
<1>4. CASE Stop
  <2>1. /\ wait' = [p \in Polled |-> 0] /\ poll' = [p \in Polled |-> "none"] /\ target' = target
    BY <1>4 DEF Stop
  <2>2. \A p \in Polled : target[p].age >= Lesser(0, Interval[p])
    BY <1>0, TimesAre DEF Lesser
  <2> QED
    BY <2>1, <2>2 DEF Waits, Scheduled
<1>5. CASE Check
  <2>1. /\ wait' = [p \in Polled |-> IF p \in Batch THEN 0 ELSE wait[p]]
        /\ poll' = [p \in Polled |-> IF p \in Batch THEN "reading" ELSE "none"]
        /\ pollAge' = [p \in Polled |-> 0]
    BY <1>5 DEF Check, Batch, Active
  <2>2. Scheduled' = Scheduled /\ Scheduled \subseteq Polled
    BY <1>0, <1>5, KeepsTable DEF Scheduled
  <2>3. \A q \in Polled : target'[q].age = IF q \in Batch THEN 0 ELSE target[q].age
    BY <1>0, <1>5, CheckFields
  <2>4. ASSUME NEW q \in Scheduled PROVE target'[q].age >= Lesser(wait'[q], Interval[q])
    <3>1. CASE q \in Batch
      BY <1>0, <2>1, <2>2, <2>3, <3>1, TimesAre DEF Lesser
    <3>2. CASE q \notin Batch
      BY <1>0, <2>1, <2>2, <2>3, <3>2 DEF Waits
    <3> QED
      BY <3>1, <3>2
  <2> QED
    BY <2>1, <2>2, <2>4 DEF Waits
<1>6. CASE Tick
  <2>1. /\ pollAge' = [p \in Polled |-> IF Reading(p) THEN pollAge[p] + 1 ELSE 0]
        /\ wait' = [p \in Polled |->
              IF p \in Scheduled /\ ~Suspended(p) /\ loop # "stopped"
              THEN Lesser(wait[p] + 1, Horizon(p)) ELSE 0]
        /\ poll' = poll
    BY <1>6 DEF Tick
  <2>2. Scheduled' = Scheduled /\ Scheduled \subseteq Polled
    BY <1>0, <1>6, KeepsTable DEF Scheduled
  <2>3. \A p \in Polled : wait[p] \in Nat /\ wait'[p] \in Int /\ wait'[p] <= wait[p] + 1
    BY <1>0, <2>1, TimesAre, HorizonIsNat DEF Lesser
  <2>4. ASSUME NEW q \in Scheduled PROVE target'[q].age >= Lesser(wait'[q], Interval[q])
    <3>1. target'[q].age = Lesser(target[q].age + 1, Interval[q])
      BY <1>0, <1>6, <2>2, TickFields
    <3>2. target[q].age >= Lesser(wait[q], Interval[q])
      BY <1>0 DEF Waits
    <3> QED
      BY <1>0, <2>2, <2>3, <3>1, <3>2, TimesAre DEF Lesser
  <2>5. ASSUME NEW q \in Polled, poll'[q] = "reading" PROVE wait'[q] <= pollAge'[q]
    <3>1. pollAge'[q] = pollAge[q] + 1 /\ wait[q] <= pollAge[q]
      BY <1>0, <2>1, <2>5 DEF Reading, Waits
    <3> QED
      BY <1>0, <2>3, <3>1, TimesAre
  <2> QED
    BY <2>2, <2>4, <2>5 DEF Waits
<1> QED
  BY <1>1, <1>2, <1>3, <1>4, <1>5, <1>6, PollerCases

\* One pass of the loop: a full batch goes before whoever is still overdue.
LEMMA CheckServes ==
    ASSUME PollerInv, Fits, Check, NEW p \in Scheduled, Overdue(p)'
    PROVE  ~Suspended(p) /\ Accounted(p, before'[p], target', wait'[p], loop', poll', pollAge')
<1>0. /\ PaidInv /\ TimesTyped /\ Waits /\ Served /\ Ordered(Scheduled, before)
      /\ p \in Polled /\ Scheduled \in SUBSET Polled
  BY DEF PollerInv, Scheduled
<1>1. /\ wait' = [q \in Polled |-> IF q \in Batch THEN 0 ELSE wait[q]]
      /\ pollAge' = [q \in Polled |-> 0] /\ before' = before /\ loop = "ready"
  BY DEF Check, Batch, Active
<1>2. p \notin Batch /\ wait'[p] = wait[p] /\ Overdue(p) /\ ~Suspended(p)
  <2>1. wait'[p] >= Interval[p] /\ Interval[p] > 0 /\ wait[p] \in Nat
    BY <1>0, TimesAre DEF Overdue
  <2>2. p \notin Batch /\ wait'[p] = wait[p] /\ Overdue(p)
    BY <1>0, <1>1, <2>1 DEF Overdue
  <2> QED
    BY <1>0, <2>2 DEF Served
<1> DEFINE due == {q \in Active : target[q].age >= Interval[q]}
<1>3. Batch = First(due, before) /\ due \in SUBSET Scheduled
  BY DEF Batch, FirstDue, Earliest, First, Standing, Active, Recovering
<1>4. p \in due
  <2>1. target[p].age >= Lesser(wait[p], Interval[p])
    BY <1>0 DEF Waits
  <2>2. target[p].age >= Interval[p]
    BY <1>0, <1>2, <2>1, TimesAre DEF Overdue, Lesser
  <2> QED
    BY <1>2, <2>2 DEF Active
<1>5. \A q \in Batch : q \in Scheduled /\ target[q].age >= Interval[q]
  BY <1>3 DEF First
<1> HIDE DEF due
<1>6. /\ Batch \subseteq before[p]
      /\ Cardinality(Batch) \in Nat /\ Cardinality(Batch) >= BatchSize
  BY <1>0, <1>2, <1>3, <1>4, FullBatchBefore
<1>7. PICK k \in Nat, e \in 0..Cycle, R \in SUBSET (Polled \ {p}) :
          /\ InPass(e, loop, poll, pollAge)
          /\ PassedOver(p, k, e, R, before[p], target, wait[p])
  BY <1>0, <1>2 DEF Served, Accounted
<1> DEFINE kc == k * Cycle
           R2 == R \cup Batch
<1>8. /\ Cycle \in Nat /\ Cycle >= 1 /\ Rounds * Cycle \in Nat /\ kc \in Nat
      /\ (k - 1) * Cycle = kc - Cycle /\ (k + 1) * Cycle = kc + Cycle
      /\ \A q \in Polled : Rounds * Cycle <= Interval[q]
      /\ kc + Cycle <= Rounds * Cycle /\ IsFiniteSet(R) /\ Cardinality(R) \in Nat
      /\ k * BatchSize <= Cardinality(R)
  <2>1. k * BatchSize <= Cardinality(R)
    BY <1>7 DEF PassedOver
  <2>2. \A i, c \in Nat : i * c \in Nat /\ (i - 1) * c = i * c - c /\ (i + 1) * c = i * c + c
    OBVIOUS
  <2>3. /\ Cycle \in Nat /\ Cycle >= 1 /\ Rounds * Cycle \in Nat
        /\ (k + 1) * Cycle <= Rounds * Cycle /\ IsFiniteSet(R) /\ Cardinality(R) \in Nat
    BY <1>0, <2>1, RoundsFit
  <2>4. \A q \in Polled : Rounds * Cycle <= Interval[q]
    BY DEF Fits
  <2>5. kc \in Nat /\ (k - 1) * Cycle = kc - Cycle /\ (k + 1) * Cycle = kc + Cycle
    BY <2>2, <2>3
  <2> QED
    BY <2>1, <2>3, <2>4, <2>5
<1> HIDE DEF kc
<1>9. \A q \in R \cap before[p] : target[q].age <= kc - Cycle + e
  BY <1>7, <1>8 DEF PassedOver
<1>10. wait[p] <= Interval[p] + kc + e
  BY <1>7 DEF PassedOver, kc
<1>11. R \cap Batch = {}
  <2>1. SUFFICES ASSUME NEW q \in R \cap Batch PROVE FALSE
    OBVIOUS
  <2>2. target[q].age <= kc - Cycle + e
    BY <1>6, <1>9, <2>1
  <2>3. target[q].age >= Interval[q] /\ Interval[q] >= Rounds * Cycle /\ q \in Polled
    BY <1>0, <1>5, <1>8, <2>1
  <2>4. target[q].age \in Nat /\ Interval[q] \in Nat
    BY <1>0, <2>3, TimesAre
  <2> QED
    BY <1>8, <2>2, <2>3, <2>4
<1>12. (k + 1) * BatchSize <= Cardinality(R2)
  <2>1. IsFiniteSet(Batch)
    BY <1>0, <1>3, FS_Subset, PolledAssumption DEF First, PolledAssumption
  <2>2. Cardinality(R2) = Cardinality(R) + Cardinality(Batch) - Cardinality(R \cap Batch)
    BY <1>8, <2>1, FS_Union
  <2>3. Cardinality(R \cap Batch) = 0
    BY <1>11, FS_EmptySet
  <2>4. (k + 1) * BatchSize = k * BatchSize + BatchSize /\ k * BatchSize \in Nat
    OBVIOUS
  <2> QED
    BY <1>6, <1>8, <2>2, <2>3, <2>4
<1>13. ASSUME NEW q \in R2 \cap before[p] PROVE target'[q].age <= kc
  <2>1. q \in Polled
    BY <1>0, <1>3 DEF First
  <2>2. target'[q].age = IF q \in Batch THEN 0 ELSE target[q].age
    BY <1>0, <2>1, CheckFields
  <2>3. CASE q \in Batch
    BY <1>8, <2>2, <2>3
  <2>4. CASE q \notin Batch
    <3>1. target[q].age <= kc - Cycle + e
      BY <1>9, <1>13, <2>4
    <3> QED
      BY <1>0, <1>8, <2>1, <2>2, <2>4, <3>1, TimesAre
  <2> QED
    BY <2>3, <2>4
<1>14. wait'[p] <= Interval[p] + (k + 1) * Cycle + 0
  BY <1>0, <1>2, <1>8, <1>10, TimesAre
<1>15. R2 \in SUBSET (Polled \ {p})
  <2>1. Batch \subseteq Polled
    BY <1>0, <1>3 DEF First
  <2> QED
    BY <1>2, <2>1
<1>16. InPass(0, loop', poll', pollAge')
  BY <1>1 DEF InPass
<1> HIDE DEF R2
<1>17. PassedOver(p, k + 1, 0, R2, before'[p], target', wait'[p])
  <2>1. (k + 1 - 1) * Cycle + 0 = kc
    BY <1>8 DEF kc
  <2> QED
    BY <1>1, <1>12, <1>13, <1>14, <2>1 DEF PassedOver
<1>18. k + 1 \in Nat /\ 0 \in 0..Cycle
  BY <1>8
<1> QED
  BY <1>2, <1>15, <1>16, <1>17, <1>18 DEF Accounted

LEMMA TickServes ==
    ASSUME PollerInv, Fits, Tick, NEW p \in Scheduled, Overdue(p)'
    PROVE  ~Suspended(p) /\ Accounted(p, before'[p], target', wait'[p], loop', poll', pollAge')
<1>0. /\ PaidInv /\ TimesTyped /\ Waits /\ Served /\ Gathering /\ Ordered(Scheduled, before)
      /\ p \in Polled /\ Scheduled \in SUBSET Polled
  BY DEF PollerInv, Scheduled
<1>1. /\ pollAge' = [q \in Polled |-> IF Reading(q) THEN pollAge[q] + 1 ELSE 0]
      /\ \A q \in Polled : Reading(q) => pollAge[q] < PollTimeout
      /\ wait' = [q \in Polled |->
            IF q \in Scheduled /\ ~Suspended(q) /\ loop # "stopped"
            THEN Lesser(wait[q] + 1, Horizon(q)) ELSE 0]
      /\ loop' = IF loop = "sleeping" THEN "ready" ELSE loop
      /\ poll' = poll /\ before' = before /\ loop # "ready"
  BY DEF Tick
<1>2. /\ wait[p] \in Nat /\ Interval[p] \in Nat \ {0} /\ Horizon(p) \in Nat
      /\ wait'[p] \in Nat /\ wait'[p] >= Interval[p] /\ wait'[p] <= wait[p] + 1
      /\ ~Suspended(p) /\ loop # "stopped"
  <2>1. wait[p] \in Nat /\ Interval[p] \in Nat \ {0} /\ Horizon(p) \in Nat
    BY <1>0, TimesAre, HorizonIsNat
  <2>2. wait'[p] >= Interval[p]
    BY DEF Overdue
  <2>3. ~Suspended(p) /\ loop # "stopped" /\ wait'[p] = Lesser(wait[p] + 1, Horizon(p))
    BY <1>0, <1>1, <2>1, <2>2
  <2> QED
    BY <2>1, <2>2, <2>3 DEF Lesser
<1>3. \A q \in Polled : Reading(q) <=> poll'[q] \in {"reading", "orphan"}
  BY <1>1 DEF Reading
<1>4. CASE Overdue(p)
  <2>1. PICK k \in Nat, e \in 0..Cycle, R \in SUBSET (Polled \ {p}) :
            /\ InPass(e, loop, poll, pollAge)
            /\ PassedOver(p, k, e, R, before[p], target, wait[p])
    BY <1>0, <1>4 DEF Served, Accounted
  <2>2. e <= PollTimeout /\ \A q \in Polled : Reading(q) => e <= pollAge[q]
    BY <1>1, <2>1 DEF InPass, Reading
  <2>3. Cycle = PollTimeout + 1 /\ Cycle \in Nat /\ PollTimeout \in Nat
    BY <1>0, TimesAre
  <2>4. InPass(e + 1, loop', poll', pollAge')
    <3>1. ASSUME loop' # "ready" PROVE e + 1 <= PollTimeout
      <4>1. loop = "gathering"
        BY <1>0, <1>1, <1>2, <3>1 DEF Gathering
      <4>2. PICK q \in Polled : Reading(q)
        BY <1>0, <4>1 DEF Gathering
      <4>3. e <= pollAge[q] /\ pollAge[q] < PollTimeout /\ pollAge[q] \in Nat
        BY <1>0, <1>1, <2>2, <4>2, TimesAre
      <4> QED
        BY <2>3, <4>3
    <3>2. ASSUME NEW q \in Polled, poll'[q] \in {"reading", "orphan"} PROVE e + 1 <= pollAge'[q]
      <4>1. pollAge'[q] = pollAge[q] + 1 /\ e <= pollAge[q] /\ pollAge[q] \in Nat
        BY <1>0, <1>1, <1>3, <2>2, <3>2, TimesAre
      <4> QED
        BY <4>1
    <3> QED
      BY <3>1, <3>2 DEF InPass
  <2> DEFINE kc == k * Cycle
             kd == (k - 1) * Cycle
  <2>5. kc \in Int /\ kd \in Int
    BY <2>3
  <2>6. /\ k * BatchSize <= Cardinality(R)
        /\ \A q \in R \cap before[p] : target[q].age <= kd + e
        /\ wait[p] <= Interval[p] + kc + e
    BY <2>1 DEF PassedOver
  <2> HIDE DEF kc, kd
  <2>7. wait'[p] <= Interval[p] + kc + (e + 1)
    BY <1>2, <2>5, <2>6
  <2>8. ASSUME NEW q \in R \cap before[p] PROVE target'[q].age <= kd + (e + 1)
    <3>1. q \in Scheduled /\ q \in Polled
      BY <1>0 DEF Ordered
    <3>2. target'[q].age = Lesser(target[q].age + 1, Interval[q])
      BY <1>0, <3>1, TickFields
    <3>3. target[q].age \in Nat /\ Interval[q] \in Nat /\ target[q].age <= kd + e
      BY <1>0, <2>6, <3>1, TimesAre
    <3> QED
      BY <2>5, <3>2, <3>3 DEF Lesser
  <2>9. PassedOver(p, k, e + 1, R, before'[p], target', wait'[p])
    BY <1>1, <2>6, <2>7, <2>8 DEF PassedOver, kc, kd
  <2>10. e + 1 \in 0..Cycle
    BY <2>2, <2>3
  <2> QED
    BY <1>2, <2>4, <2>9, <2>10 DEF Accounted
<1>5. CASE ~Overdue(p)
  <2>1. wait'[p] <= Interval[p]
    BY <1>2, <1>5 DEF Overdue
  <2>2. Cycle \in Nat /\ PollTimeout \in Nat
    BY <1>0, TimesAre
  <2>3. 0 * Cycle = 0 /\ 0 * BatchSize = 0 /\ Cardinality({}) = 0
    BY <2>2, FS_EmptySet
  <2>4. PassedOver(p, 0, 0, {}, before'[p], target', wait'[p])
    BY <1>2, <2>1, <2>3 DEF PassedOver
  <2>5. InPass(0, loop', poll', pollAge')
    <3>1. ASSUME NEW q \in Polled PROVE 0 <= pollAge'[q]
      BY <1>0, <1>1, TimesAre
    <3> QED
      BY <2>2, <3>1 DEF InPass
  <2>6. 0 \in Nat /\ 0 \in 0..Cycle /\ {} \in SUBSET (Polled \ {p})
    BY <2>2
  <2> QED
    BY <1>2, <2>4, <2>5, <2>6 DEF Accounted
<1> QED
  BY <1>4, <1>5

LEMMA ServedStep ==
    ASSUME PollerInv, Fits, [PollerNext]_pollerVars
    PROVE  Served'
<1>0. /\ PaidInv /\ TimesTyped /\ Waits /\ Served /\ Gathering /\ Ordered(Scheduled, before)
      /\ Scheduled \in SUBSET Polled
  BY DEF PollerInv, Scheduled
<1>1. \A q \in Polled : Interval[q] > 0 /\ wait[q] \in Nat
  BY <1>0, TimesAre
<1> DEFINE S(p) == /\ Suspended(p)' => ~Overdue(p)'
                   /\ Overdue(p)' => Accounted(p, before'[p], target', wait'[p], loop', poll', pollAge')
           Was(p) == /\ Suspended(p) => ~Overdue(p)
                     /\ Overdue(p) => Accounted(p, before[p], target, wait[p], loop, poll, pollAge)
<1>2. \A p \in Scheduled : Was(p)
  BY <1>0 DEF Served
<1>3. ASSUME NEW p \in Polled, wait'[p] = 0 PROVE S(p)
  BY <1>1, <1>3 DEF Overdue
<1>4. ASSUME NEW p \in Scheduled, wait'[p] = wait[p], Suspended(p)' => Suspended(p),
             before'[p] \subseteq before[p],
             \A q \in before'[p] : target'[q].age = target[q].age,
             loop' # "ready" => loop # "ready", pollAge' = pollAge,
             \A q \in Polled : poll'[q] \in {"reading", "orphan"} => poll[q] \in {"reading", "orphan"}
      PROVE  S(p)
  <2>1. p \in Polled /\ (Overdue(p)' <=> Overdue(p)) /\ Was(p)
    BY <1>0, <1>2, <1>4 DEF Overdue
  <2>2. Suspended(p)' => ~Overdue(p)'
    BY <1>4, <2>1
  <2>3. ASSUME Accounted(p, before[p], target, wait[p], loop, poll, pollAge)
        PROVE  Accounted(p, before'[p], target', wait[p], loop', poll', pollAge)
    BY <1>4, <2>1, <2>3, AccountStays
  <2>4. Overdue(p)' => Accounted(p, before'[p], target', wait'[p], loop', poll', pollAge')
    BY <1>4, <2>1, <2>3
  <2> QED
    BY <2>2, <2>4
<1> HIDE DEF S, Was
<1>5. ASSUME NEW x \in Polled, NEW c \in Conns, AddTarget(x, c), NEW p \in Scheduled' PROVE S(p)
  <2>1. /\ wait' = [q \in Polled |-> IF q = x \/ x \in before[q] THEN 0 ELSE wait[q]]
        /\ before' = (IF x \in Scheduled THEN before ELSE [before EXCEPT ![x] = Scheduled])
        /\ poll' = Orphaned({x}) /\ loop' = loop /\ pollAge' = pollAge
    BY <1>5 DEF AddTarget
  <2>2. /\ \A q \in Polled \ {x} : target'[q] = target[q]
        /\ Scheduled' = Scheduled \cup {x}
    BY <1>0, <1>5, AddTargetTable
  <2>3. \A q \in Polled : Reading(q)' <=> Reading(q)
    BY <1>0, <2>1, OrphansRead
  <2>4. CASE p = x \/ x \in before[p]
    BY <1>0, <1>3, <2>1, <2>2, <2>4
  <2>5. CASE p # x /\ x \notin before[p]
    <3>1. p \in Scheduled /\ p \in Polled /\ wait'[p] = wait[p] /\ before'[p] = before[p]
          /\ before[p] \subseteq Polled
      BY <1>0, <2>1, <2>2, <2>5 DEF Ordered
    <3>2. (Suspended(p)' => Suspended(p)) /\ \A q \in before'[p] : target'[q].age = target[q].age
      BY <2>2, <2>5, <3>1 DEF Suspended
    <3> QED
      BY <1>4, <2>1, <2>3, <3>1, <3>2 DEF Reading
  <2> QED
    BY <2>4, <2>5
<1>6. ASSUME NEW ps \in SUBSET Polled, Drop(ps), NEW p \in Scheduled' PROVE S(p)
  <2>1. /\ wait' = [q \in Polled |-> IF q \in ps THEN 0 ELSE wait[q]]
        /\ before' = [q \in Polled |-> IF q \in ps THEN {} ELSE before[q] \ ps]
        /\ poll' = Orphaned(ps) /\ loop' = loop /\ pollAge' = pollAge
    BY <1>6 DEF Drop
  <2>2. /\ \A q \in Polled : target'[q] = IF q \in ps THEN Unscheduled ELSE target[q]
        /\ Scheduled' = Scheduled \ ps
    BY <1>6, DropTable
  <2>3. \A q \in Polled : Reading(q)' <=> Reading(q)
    BY <1>0, <2>1, OrphansRead
  <2>4. /\ p \in Scheduled /\ p \in Polled /\ wait'[p] = wait[p]
        /\ before'[p] \subseteq before[p] /\ before'[p] \subseteq Polled \ ps
    BY <1>0, <1>6, <2>1, <2>2 DEF Ordered
  <2>5. (Suspended(p)' => Suspended(p)) /\ \A q \in before'[p] : target'[q].age = target[q].age
    BY <1>6, <2>2, <2>4 DEF Suspended
  <2> QED
    BY <1>4, <2>1, <2>3, <2>4, <2>5 DEF Reading
<1>7. ASSUME NEW ps \in SUBSET Polled, Reset(ps), NEW p \in Scheduled PROVE S(p)
  <2>1. wait' = wait /\ before' = before /\ loop' = loop /\ pollAge' = pollAge /\ poll' = poll
    BY <1>7 DEF Reset
  <2>2. \A q \in Polled : /\ target'[q].age = target[q].age
                          /\ target'[q].errors \in {target[q].errors, 0}
    BY <1>0, <1>7, ResetFields DEF Recounts
  <2>3. Suspended(p)' => Suspended(p)
    BY <1>0, <2>2 DEF Suspended
  <2> QED
    BY <1>0, <1>4, <2>1, <2>2, <2>3 DEF Ordered
<1>8. ASSUME NEW x \in Polled, PollSucceeds(x) \/ PollFails(x) \/ OrphanEnds(x), NEW p \in Scheduled
      PROVE  S(p)
  <2>1. wait' = wait /\ before' = before /\ loop' \in {"gathering", "sleeping"}
        /\ pollAge' = pollAge /\ poll' = [poll EXCEPT ![x] = "over"] /\ Reading(x)
    BY <1>8 DEF PollSucceeds, PollFails, OrphanEnds, PollEnds, Reading
  <2>2. \A q \in Polled : /\ target'[q].age = target[q].age
                          /\ target'[q].errors # target[q].errors => q = x /\ poll[x] = "reading"
    BY <1>0, <1>8, PollFields DEF Recounts
  <2>3. loop # "ready" /\ \A q \in Polled : poll'[q] \in {"reading", "orphan"}
                                             => poll[q] \in {"reading", "orphan"}
    BY <1>0, <2>1 DEF Gathering, PaidInv, TargetsTyped
  <2>4. CASE target'[p].errors = target[p].errors
    <3>1. Suspended(p)' => Suspended(p)
      BY <2>4 DEF Suspended
    <3> QED
      BY <1>0, <1>4, <2>1, <2>2, <2>3, <3>1 DEF Ordered
  <2>5. CASE target'[p].errors # target[p].errors
    <3>1. wait[p] <= pollAge[p] /\ p \in Polled
      BY <1>0, <2>2, <2>5 DEF Waits
    <3>2. pollAge[p] \in 0..PollTimeout /\ Cycle = PollTimeout + 1 /\ wait[p] \in Nat
          /\ PollTimeout \in Nat /\ Interval[p] \in Nat
      BY <1>0, <3>1, TimesAre
    <3>3. Cycle <= Interval[p]
      BY <3>1, RoundsFit
    <3>4. ~Overdue(p)'
      BY <2>1, <3>1, <3>2, <3>3 DEF Overdue
    <3> QED
      BY <3>4 DEF S
  <2> QED
    BY <2>4, <2>5
<1>9. ASSUME Start \/ UNCHANGED pollerVars, NEW p \in Scheduled PROVE S(p)
  <2>1. wait' = wait /\ before' = before /\ loop' \in {loop, "ready"}
        /\ pollAge' = pollAge /\ poll' = poll /\ target' = target
    BY <1>9 DEF Start, pollerVars
  <2>2. Suspended(p)' => Suspended(p)
    BY <2>1 DEF Suspended
  <2> QED
    BY <1>0, <1>4, <2>1, <2>2
<1>10. ASSUME Stop, NEW p \in Scheduled PROVE S(p)
  BY <1>0, <1>3, <1>10 DEF Stop
<1>11. ASSUME Check, NEW p \in Scheduled PROVE S(p)
  <2>1. ASSUME Suspended(p)', Overdue(p)' PROVE FALSE
    <3>1. ~Suspended(p)
      BY <1>11, <2>1, CheckServes
    <3>2. target'[p].errors \in {target[p].errors, 0} /\ MaxErrors > 0
      BY <1>0, <1>11, CheckFields
    <3> QED
      BY <2>1, <3>1, <3>2 DEF Suspended
  <2>2. Overdue(p)' => Accounted(p, before'[p], target', wait'[p], loop', poll', pollAge')
    BY <1>11, CheckServes
  <2> QED
    BY <2>1, <2>2 DEF S
<1>12. ASSUME Tick, NEW p \in Scheduled PROVE S(p)
  <2>1. ASSUME Suspended(p)', Overdue(p)' PROVE FALSE
    <3>1. ~Suspended(p)
      BY <1>12, <2>1, TickServes
    <3>2. target'[p].errors = target[p].errors
      BY <1>0, <1>12, TickFields
    <3> QED
      BY <2>1, <3>1, <3>2 DEF Suspended
  <2>2. Overdue(p)' => Accounted(p, before'[p], target', wait'[p], loop', poll', pollAge')
    BY <1>12, TickServes
  <2> QED
    BY <2>1, <2>2 DEF S
<1>13. ASSUME NEW p \in Scheduled' PROVE S(p)
  <2>1. CASE \/ \E ps \in SUBSET Polled : Reset(ps)
             \/ \E x \in Polled : PollSucceeds(x) \/ PollFails(x) \/ OrphanEnds(x)
             \/ Start \/ Stop \/ Check \/ Tick \/ UNCHANGED pollerVars
    <3>1. p \in Scheduled
      BY <1>0, <1>13, <2>1, KeepsTable
    <3> QED
      BY <1>7, <1>8, <1>9, <1>10, <1>11, <1>12, <2>1, <3>1
  <2> QED
    BY <1>5, <1>6, <1>13, <2>1, PollerCases
<1> QED
  BY <1>13 DEF Served, S

---------------------------------------------------------------------------
(* The theorems.                                                           *)

LEMMA PollerInvInit == PollerInit => PollerInv
<1> SUFFICES ASSUME PollerInit PROVE PollerInv
  OBVIOUS
<1>1. /\ before = [p \in Polled |-> {}] /\ target = [p \in Polled |-> Unscheduled]
      /\ loop = "stopped" /\ poll = [p \in Polled |-> "none"]
      /\ pollAge = [p \in Polled |-> 0] /\ wait = [p \in Polled |-> 0]
  BY DEF PollerInit
<1>2. Unscheduled.conn = "none" /\ Unscheduled.age = 0 /\ Unscheduled.since = Never
  BY DEF Unscheduled
<1>3. Scheduled = {}
  BY <1>1, <1>2 DEF Scheduled
<1>4. Ordered(Scheduled, before) /\ Served
  BY <1>1, <1>3 DEF Ordered, Served
<1>5. Gathering /\ Waits
  BY <1>1, <1>3 DEF Gathering, Reading, Waits
<1>6. \A p \in Polled : Horizon(p) \in Nat
  BY HorizonIsNat
<1>7. TimesTyped
  BY <1>1, <1>2, <1>6 DEF TimesTyped
<1> QED
  BY <1>4, <1>5, <1>7, PaidInit DEF PollerInv

LEMMA PollerInvStep == PollerInv /\ [PollerNext]_pollerVars => PollerInv'
<1> SUFFICES ASSUME PollerInv, [PollerNext]_pollerVars PROVE PollerInv'
  OBVIOUS
<1>1. PaidInv /\ Ordered(Scheduled, before) /\ TimesTyped /\ Gathering
  BY DEF PollerInv
<1>2. PaidInv' /\ Ordered(Scheduled', before') /\ TimesTyped' /\ Gathering'
  BY <1>1, PaidStep, OrderStep, TimesStep, GatheringStep
<1>3. Waits' /\ (Fits => Served')
  BY WaitsStep, ServedStep
<1> QED
  BY <1>2, <1>3 DEF PollerInv, Fits, Rounds, Cycle

LEMMA PollerInvAlways == PollerSpec => []PollerInv
BY PollerInvInit, PollerInvStep, PTL DEF PollerSpec

\* A target's errors were earned by its own polls, for any table and limits: a
\* read that outlives a removal, a replacement or a reset never brings a target
\* nearer to its suspension (core/scheduler.py:169-199).
THEOREM ErrorsAreEarned == PollerSpec => []ErrorsEarned
<1>1. PollerInv => ErrorsEarned
  BY DEF PollerInv, PaidInv, TargetsTyped, Paid, PollTarget, ErrorsEarned
<1> QED
  BY <1>1, PollerInvAlways, PTL

\* The table keeps one order whatever is added, replaced and removed, polls are
\* under way exactly while the loop waits for them, and errors stop at the limit
\* (core/scheduler.py:54, 145, 169-200).
THEOREM PollerIsTyped == PollerSpec => []PollerTypeOK
<1>1. ASSUME PollerInv PROVE PollerTypeOK
  <2>1. /\ PaidInv /\ Ordered(Scheduled, before) /\ TimesTyped /\ Gathering
    BY <1>1 DEF PollerInv
  <2>2. ASSUME NEW p \in Polled
        PROVE  target[p] \in [conn : Conns \cup {"none"}, age : Nat,
                              errors : 0..MaxErrors, since : (0..Recovery) \cup {Never}]
    <3>1. target[p] \in PollTarget
      BY <2>1, TargetIs DEF PaidInv
    <3>2. target[p].age \in Nat /\ target[p].since \in (0..Recovery) \cup {Never}
      BY <2>1 DEF TimesTyped
    <3>3. target[p].errors \in 0..MaxErrors
      <4>1. target[p].errors \in Nat /\ begun[p] \in 0..MaxErrors
        BY <2>1 DEF PaidInv, TargetsTyped, PollTarget
      <4> QED
        BY <2>1, <4>1 DEF PaidInv, Paid
    <3> QED
      BY <3>1, <3>2, <3>3 DEF PollTarget
  <2>3. target \in [Polled -> [conn : Conns \cup {"none"}, age : Nat,
                               errors : 0..MaxErrors, since : (0..Recovery) \cup {Never}]]
    BY <2>1, <2>2 DEF PaidInv, TargetsTyped
  <2> QED
    BY <2>1, <2>3 DEF PollerTypeOK, PaidInv, TargetsTyped, Ordered, TimesTyped, Gathering
<1> QED
  BY <1>1, PollerInvAlways, PTL

\* For any points, intervals, batch size and time-out that fit together, an
\* active target waits no longer than its interval and one pass of the loop for
\* every batch, whatever else is suspended, recovered, reset, removed or added
\* after it (core/scheduler.py:119-149).
THEOREM TargetsArePolledInTime == PollerSpec => []PolledInTime
<1>1. ASSUME PollerInv, Fits, NEW p \in Scheduled
      PROVE  wait[p] <= Interval[p] + Rounds * Cycle
  <2>1. p \in Polled /\ TimesTyped /\ Served
    BY <1>1 DEF PollerInv, Scheduled
  <2>2. wait[p] \in Nat /\ Interval[p] \in Nat /\ Cycle \in Nat /\ Rounds * Cycle \in Nat
    BY <1>1, <2>1, TimesAre, RoundsFit
  <2>3. CASE Overdue(p)
    <3>1. PICK k \in Nat, e \in 0..Cycle, R \in SUBSET (Polled \ {p}) :
              PassedOver(p, k, e, R, before[p], target, wait[p])
      BY <2>1, <2>3 DEF Served, Accounted
    <3>2. k * BatchSize <= Cardinality(R) /\ wait[p] <= Interval[p] + k * Cycle + e
      BY <3>1 DEF PassedOver
    <3>3. (k + 1) * Cycle <= Rounds * Cycle
      BY <1>1, <2>1, <3>2, RoundsFit
    <3>4. (k + 1) * Cycle = k * Cycle + Cycle /\ k * Cycle \in Nat
      BY <2>2
    <3> QED
      BY <2>2, <3>2, <3>3, <3>4
  <2>4. CASE ~Overdue(p)
    BY <2>2, <2>4 DEF Overdue
  <2> QED
    BY <2>3, <2>4
<1>2. PollerInv => PolledInTime
  BY <1>1 DEF PolledInTime
<1> QED
  BY <1>2, PollerInvAlways, PTL

===============================================================================
