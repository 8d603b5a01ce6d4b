----------------------------- MODULE AdapterSdk -----------------------------
(***************************************************************************)
(* What sdk/adapter_api asks of an adapter, in the terms the adapters' own *)
(* modules use.                                                            *)
(*                                                                         *)
(* A quantity <<part, number, of>> is one thing the equipment has: an      *)
(* output, a level, a register; an endpoint is the <<part, number>> its    *)
(* quantities share.  The adapter glues the name of the device and these   *)
(* into an id, and finds the quantity again by cutting the id up:          *)
(* inventory() and read_point() are separate pieces of code that have to   *)
(* agree.  An id is kept as its words, the pieces between underscores.     *)
(***************************************************************************)
EXTENDS Naturals, Sequences, FiniteSets

Nothing == <<>>                      \* the native object an id leads nowhere to

EndpointOf(q) == <<q[1], q[2]>>

\* One entry of InventorySnapshot.points.
Point(id, native, readable, writable) ==
    [id |-> id, native |-> native, readable |-> readable, writable |-> writable]

-----------------------------------------------------------------------------
\* Cutting up an id: "_word_" occurs in it, the word after its first
\* occurrence, and the word it ends with.
Inside(id, word) == {k \in 2..(Len(id) - 1) : id[k] = word}
Has(id, word) == Inside(id, word) # {}
After(id, word) == id[1 + CHOOSE k \in Inside(id, word) : \A j \in Inside(id, word) : k <= j]
Ending(id) == id[Len(id)]

Digits == {"0", "1", "2", "3"}      \* the words isdigit() is true of

-----------------------------------------------------------------------------
\* What read_point() answers: the quality it claims and the quantity whose
\* value it returns.  Default is a value the adapter makes up, Asked one that
\* a command asked for and nobody confirmed.
Good(q) == [quality |-> "good", of |-> q]
Stale   == [quality |-> "stale", of |-> Nothing]
Bad     == [quality |-> "bad", of |-> Nothing]
Raises  == [quality |-> "raises", of |-> Nothing]

Default == <<"default">>
Asked   == <<"asked">>

\* A read that is one request: it raises when the equipment has no such object
\* or does not answer.
Requested(q, s) == IF q \in s.has /\ s.up THEN Good(q) ELSE Raises

\* A read that looks the object up in a status report of the whole device,
\* with a default for what the report does not mention.
Reported(q, s) ==
    IF ~s.up THEN Raises ELSE Good(IF q \in s.has THEN q ELSE Default)

\* The adapters that keep a dictionary of what they have heard or been told:
\* s.known maps a key to the quantity whose value is kept there, or to Nothing.
Remembers(s, key) == IF key \in DOMAIN s.known THEN s.known[key] ELSE Nothing

Recalled(q) == IF q = Nothing THEN Stale ELSE Good(q)

-----------------------------------------------------------------------------
\* What execute() does: the requests it sends one after the other, and the
\* status it returns when all were answered.  Of a put the verdict is looked at,
\* of a told request only that there was one; a queued one is handed on and not
\* awaited at all.
Put(q, v)   == [do |-> "put", q |-> q, v |-> v]
Told(q, v)  == [do |-> "told", q |-> q, v |-> v]
Queue(q, v) == [do |-> "queue", q |-> q, v |-> v]
Get(q)      == [do |-> "get", q |-> q, v |-> "none"]

\* A value of which only whether it is true is sent.
Turned(v) == IF v = "off" THEN "off" ELSE "on"

\* What a request names when the equipment has nothing by that name.
Nobody == <<"nobody", "nobody", "none">>

Sends(requests) == [todo |-> requests, ends |-> "succeeded"]
Fails           == [todo |-> <<>>, ends |-> "failed"]

-----------------------------------------------------------------------------
\* What commission() leaves behind: its status, and what became of the client
\* it opened for the probe.
TurnedAway == [status |-> "failed", client |-> "none"]
Closed     == [status |-> "failed", client |-> "closed"]
Opened     == [status |-> "ok", client |-> "kept"]
Uncaught   == [status |-> "raises", client |-> "none"]

\* Most adapters: an address, a client, one probing request, and the client is
\* closed again when the probe fails.
Probed(addressed, answers) ==
    IF ~addressed THEN TurnedAway ELSE IF answers THEN Opened ELSE Closed

\* A client library that may not be installed: nothing is opened without it.
ThroughLibrary(addressed, r, connects) == Probed(addressed /\ r.library, connects)

\* The port is the caller's or the protocol's usual one; a target that was
\* found does not carry it.
Reaches(r, s) == s.up /\ r.port = s.port

\* What discover() reports of one host.
Found(asked, answers) == IF asked /\ answers THEN {"target"} ELSE {}
=============================================================================
