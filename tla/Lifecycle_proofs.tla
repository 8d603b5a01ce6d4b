---------------------------- MODULE Lifecycle_proofs ----------------------------
(***************************************************************************)
(* The life of connections for any handlers, bridges, ids, refused writes  *)
(* and crashes: what a client was told of is durable, what was             *)
(* disconnected stays so, targets of dead connections were overtaken and   *)
(* inventories are whole.  Machine-checked by TLAPS.                       *)
(*                                                                         *)
(* The invariant has five parts besides the types: where the workers can   *)
(* be in each phase (Placed), who stands in the line for the lock and in   *)
(* what order (Lined), whose connection is whose (Owned), what is polled   *)
(* over what (Polled) and what the rows say of it all (Recorded).          *)
(***************************************************************************)
EXTENDS Lifecycle, TLAPS, SequenceTheorems

USE WorkersAssumption, RestoresAssumption, BoundsAssumption
    DEF WorkersAssumption, RestoresAssumption, BoundsAssumption, Workers, Conns, Nobody

Distinct(q) == \A i, j \in DOMAIN q : q[i] = q[j] => i = j

Pcs == {"idle", "commissioning", "saving", "inventory", "devices", "points", "closing",
        "dropping", "refused", "marking"}
Busy(w) == frame[w].pc \in {"saving", "inventory", "devices", "points"}
Ending(w) == frame[w].pc \in {"closing", "dropping"}
Locking == {"saving", "devices", "points", "dropping", "refused", "marking"}

---------------------------------------------------------------------------
(* The inductive invariant.                                                *)

Typed ==
    /\ TypeOK
    /\ live \subseteq 1..issued /\ acked \subseteq 1..issued
    /\ gone \subseteq 1..issued /\ overtaken \subseteq 1..issued

\* Handlers work while the process is up; the engine only while it starts or
\* stops.
Placed ==
    /\ \A w \in Handlers :
          /\ frame[w].pc \in Pcs \ {"refused", "marking"}
          /\ frame[w].pc # "idle" => phase = "up"
    /\ phase \in {"down", "up"} => frame[Engine].pc = "idle"
    /\ frame[Engine].pc = "idle" => frame[Engine] = Idle
    /\ phase = "starting" => ~Ending(Engine)
    /\ phase = "stopping" => frame[Engine].pc \in {"idle", "closing", "dropping"}
    /\ Ending(Engine) => frame[Engine].old = Nobody
    /\ \A w \in Workers :
          /\ Busy(w) \/ Ending(w) => frame[w].conn \in 1..issued
          /\ Busy(w) \/ frame[w].pc \in {"commissioning", "refused", "marking"}
                => frame[w].profile \in Profiles

\* The line holds those who wait for the lock, once each; whoever is between
\* devices and points has it, and a connection's row is saved before it is
\* marked.
Lined ==
    /\ writers \in Seq(Workers) /\ Distinct(writers)
    /\ \A w \in Workers : w \in Range(writers) <=> frame[w].pc \in Locking
    /\ \A w \in Workers : At(w, "points") => Holds(w)
    /\ \A x, y \in Workers :
          (At(x, "saving") /\ At(y, "dropping") /\ frame[x].conn = frame[y].conn)
          => \E i, j \in DOMAIN writers : i < j /\ writers[i] = x /\ writers[j] = y

\* A connection is made by one worker, and not acknowledged before it is made
\* or after somebody set out to end it.
Owned ==
    /\ \A x, y \in Workers :
          (Busy(x) /\ Busy(y) /\ frame[x].conn = frame[y].conn) => x = y
    /\ \A w \in Workers : Busy(w) \/ Ending(w) => frame[w].conn \notin acked
    /\ \A w \in Workers : At(w, "saving") => frame[w].conn \notin gone
    /\ \A w \in Workers : At(w, "dropping") => frame[w].conn \notin live
    /\ \A x \in Handlers, y \in Workers :
          (Busy(x) /\ Ending(y) /\ frame[x].conn = frame[y].conn) => frame[x].conn \in overtaken
    /\ frame[Engine].old \notin acked
    /\ \A c \in gone : c \notin live

\* What is polled over a connection that somebody ends was added late.
Polled ==
    /\ \A w \in Handlers : Busy(w) => frame[w].conn \in live \cup overtaken
    /\ \A w \in Handlers : At(w, "closing") =>
          \A p \in Profiles : targets[p] = frame[w].conn => frame[w].conn \in overtaken
    /\ phase \in {"down", "starting"} => \A p \in Profiles : targets[p] = Nobody
    /\ StaleTargetsWereOvertaken

\* What the rows of s say of the connections clients were told about.
Sound(s) ==
    /\ \A c \in acked :
          /\ s.rows[c].status = "commissioned"
          /\ s.rows[c].profile \in s.points /\ s.device[s.rows[c].profile] # Nobody
    /\ \A c \in gone : s.rows[c].status = "disconnected"
    /\ \A c \in Conns : s.rows[c].status = "commissioned" => s.rows[c].profile \in Profiles

\* The open transaction differs from what is committed by the devices of
\* whoever is about to write their points, or failed to.
Recorded ==
    /\ Sound(store) /\ Sound(durable)
    /\ \A w \in Handlers :
          (frame[w].pc \in {"inventory", "devices", "points"} /\ frame[w].conn \notin overtaken)
          => /\ store.rows[frame[w].conn].status = "commissioned"
             /\ store.rows[frame[w].conn].profile = frame[w].profile
    /\ \A w \in Workers : At(w, "points") => store.device[frame[w].profile] # Nobody
    /\ WholeInventory
    /\ \A p \in Profiles \ torn : store.device[p] # Nobody =>
          p \in store.points \/ \E w \in Workers : At(w, "points") /\ frame[w].profile = p
    /\ phase = "starting" => \A c \in todo : store.rows[c].profile \in Profiles

IInv == Typed /\ Placed /\ Lined /\ Owned /\ Polled /\ Recorded

---------------------------------------------------------------------------
(* The line for the lock.                                                  *)

\* Somebody who is not in line goes to its end.
LEMMA LineGrows ==
    ASSUME NEW S, NEW q \in Seq(S), Distinct(q), NEW e \in S, e \notin Range(q)
    PROVE  /\ Append(q, e) \in Seq(S) /\ Distinct(Append(q, e))
           /\ Range(Append(q, e)) = Range(q) \cup {e}
           /\ Len(q) \in Nat /\ DOMAIN q = 1..Len(q) /\ DOMAIN Append(q, e) = 1..Len(q) + 1
           /\ Append(q, e)[Len(q) + 1] = e
           /\ \A i \in 1..Len(q) : Append(q, e)[i] = q[i]
           /\ q # <<>> => Append(q, e) # <<>> /\ Head(Append(q, e)) = Head(q)
<1> DEFINE a == Append(q, e)
<1>1. /\ a \in Seq(S) /\ Len(a) = Len(q) + 1 /\ Len(q) \in Nat
      /\ DOMAIN a = 1..Len(q) + 1 /\ DOMAIN q = 1..Len(q)
      /\ \A i \in 1..Len(q) : a[i] = q[i]
      /\ a[Len(q) + 1] = e
  BY AppendProperties, LenProperties
<1>2. q # <<>> => a # <<>> /\ Head(a) = Head(q)
  <2> SUFFICES ASSUME q # <<>> PROVE a # <<>> /\ Head(a) = Head(q)
    OBVIOUS
  <2>1. a # <<>> /\ Len(q) >= 1
    BY <1>1, EmptySeq, LenProperties
  <2>2. Head(a) = a[1] /\ Head(q) = q[1]
    BY <1>1, <2>1, HeadTailProperties
  <2> QED
    BY <1>1, <2>1, <2>2
<1> HIDE DEF a
<1>3. \A i \in 1..Len(q) : q[i] # e
  BY <1>1 DEF Range
<1>4. Distinct(a)
  BY <1>1, <1>3 DEF Distinct
<1>5. Range(a) = Range(q) \cup {e}
  BY <1>1 DEF Range
<1> QED
  BY <1>1, <1>2, <1>4, <1>5 DEF a

\* The first leaves the line.
LEMMA LineShrinks ==
    ASSUME NEW S, NEW q \in Seq(S), Distinct(q), q # <<>>
    PROVE  /\ Tail(q) \in Seq(S) /\ Distinct(Tail(q))
           /\ Range(Tail(q)) = Range(q) \ {Head(q)}
           /\ Len(q) \in Nat /\ DOMAIN q = 1..Len(q) /\ DOMAIN Tail(q) = 1..Len(q) - 1
           /\ Head(q) = q[1] /\ Head(q) \in S
           /\ \A i \in 1..Len(q) - 1 : Tail(q)[i] = q[i + 1]
<1> DEFINE t == Tail(q)
<1>1. /\ t \in Seq(S) /\ Len(t) = Len(q) - 1 /\ Len(q) \in Nat \ {0}
      /\ DOMAIN t = 1..Len(q) - 1 /\ DOMAIN q = 1..Len(q)
      /\ \A i \in 1..Len(q) - 1 : t[i] = q[i + 1]
      /\ Head(q) \in S /\ Head(q) = q[1]
  BY HeadTailProperties, LenProperties, EmptySeq
<1> HIDE DEF t
<1>2. Distinct(t)
  BY <1>1 DEF Distinct
<1>3. \A i \in 1..Len(q) - 1 : q[i + 1] # q[1]
  BY <1>1 DEF Distinct
<1>4. Head(q) \notin Range(t)
  BY <1>1, <1>3 DEF Range
<1>5. \A i \in 1..Len(q) : i = 1 \/ (i - 1 \in DOMAIN t /\ q[i] = t[i - 1])
  BY <1>1
<1>6. Range(q) \subseteq Range(t) \cup {Head(q)}
  <2> SUFFICES ASSUME NEW e \in Range(q), e # Head(q) PROVE e \in Range(t)
    OBVIOUS
  <2>1. PICK i \in DOMAIN q : e = q[i]
    BY DEF Range
  <2>2. i - 1 \in DOMAIN t /\ e = t[i - 1]
    BY <1>1, <1>5, <2>1
  <2> QED
    BY <2>2 DEF Range
<1>7. Range(t) \subseteq Range(q)
  <2> SUFFICES ASSUME NEW e \in Range(t) PROVE e \in Range(q)
    OBVIOUS
  <2>1. PICK i \in DOMAIN t : e = t[i]
    BY DEF Range
  <2>2. i + 1 \in DOMAIN q /\ e = q[i + 1]
    BY <1>1, <2>1
  <2> QED
    BY <2>2 DEF Range
<1> QED
  BY <1>1, <1>2, <1>4, <1>6, <1>7 DEF t

---------------------------------------------------------------------------
(* Workers and rows.                                                       *)

\* One worker's frame is replaced by f.
Becomes(w, f) ==
    /\ f \in Frame /\ frame' \in [Workers -> Frame] /\ frame'[w] = f
    /\ \A x \in Workers \ {w} : frame'[x] = frame[x]

LEMMA FrameSet ==
    ASSUME Typed, NEW w \in Workers, NEW f \in Frame, frame' = [frame EXCEPT ![w] = f]
    PROVE  Becomes(w, f)
BY DEF Becomes, Typed, TypeOK

LEMMA IdleFrame == Idle \in Frame /\ Idle.pc = "idle" /\ Idle.conn = Nobody /\ Idle.old = Nobody
BY DEF Idle, Frame

\* A worker goes on, with what it had.
Moved(w, pc) == [frame[w] EXCEPT !.pc = pc]

LEMMA WentTo ==
    ASSUME Typed, NEW w \in Workers, NEW pc \in Pcs, Goto(w, pc)
    PROVE  /\ Becomes(w, Moved(w, pc))
           /\ Moved(w, pc).pc = pc /\ Moved(w, pc).conn = frame[w].conn
           /\ Moved(w, pc).profile = frame[w].profile /\ Moved(w, pc).old = frame[w].old
<1>1. frame[w] \in Frame /\ frame \in [Workers -> Frame]
  BY DEF Typed, TypeOK
<1>2. /\ Moved(w, pc) \in Frame /\ Moved(w, pc).pc = pc /\ Moved(w, pc).conn = frame[w].conn
      /\ Moved(w, pc).profile = frame[w].profile /\ Moved(w, pc).old = frame[w].old
  BY <1>1 DEF Moved, Frame, Pcs
<1>3. frame' = [frame EXCEPT ![w] = Moved(w, pc)]
  BY <1>1 DEF Goto, Moved
<1> QED
  BY <1>2, <1>3, FrameSet

\* save_connection changes one row and nothing else.
LEMMA RowSet ==
    ASSUME NEW s \in Rows, NEW c, NEW p \in Profiles \cup {"none"},
           NEW status \in {"commissioned", "disconnected"}
    PROVE  /\ WithRow(s, c, p, status) \in Rows
           /\ WithRow(s, c, p, status).device = s.device
           /\ WithRow(s, c, p, status).points = s.points
           /\ \A d \in Conns : d # c => WithRow(s, c, p, status).rows[d] = s.rows[d]
           /\ c \in Conns => /\ WithRow(s, c, p, status).rows[c].status = status
                             /\ WithRow(s, c, p, status).rows[c].profile = p
BY DEF WithRow, Rows, Row

---------------------------------------------------------------------------
(* What a step does to the line, whatever else it does.                    *)

LEMMA LineUntouched ==
    ASSUME Typed, Lined, NEW w \in Workers, NEW f, Becomes(w, f), writers' = writers,
           f.pc \in Locking <=> frame[w].pc \in Locking,
           f.pc # "saving" /\ f.pc # "dropping",
           f.pc = "points" => Holds(w)
    PROVE  Lined'
<1>1. \A x \in Workers : x \in Range(writers') <=> frame'[x].pc \in Locking
  BY DEF Lined, Becomes
<1>2. \A x \in Workers : frame'[x].pc = "points" => Holds(x)'
  BY DEF Lined, Becomes, Holds, At
<1>3. ASSUME NEW x \in Workers, NEW y \in Workers,
             frame'[x].pc = "saving", frame'[y].pc = "dropping", frame'[x].conn = frame'[y].conn
      PROVE  \E i, j \in DOMAIN writers' : i < j /\ writers'[i] = x /\ writers'[j] = y
  BY <1>3 DEF Lined, Becomes, At
<1> QED
  BY <1>1, <1>2, <1>3 DEF Lined, At

LEMMA LineJoined ==
    ASSUME Typed, Lined, NEW w \in Workers, NEW f, Becomes(w, f), Queue(w),
           frame[w].pc \notin Locking, f.pc \in Locking \ {"points"},
           f.pc = "saving" => \A y \in Workers : At(y, "dropping") => frame[y].conn # f.conn
    PROVE  Lined'
<1>1. writers' = Append(writers, w) /\ writers \in Seq(Workers) /\ Distinct(writers)
      /\ w \notin Range(writers)
  BY DEF Queue, Lined
<1>2. /\ writers' \in Seq(Workers) /\ Distinct(writers')
      /\ Range(writers') = Range(writers) \cup {w}
      /\ Len(writers) \in Nat /\ DOMAIN writers = 1..Len(writers)
      /\ DOMAIN writers' = 1..Len(writers) + 1 /\ writers'[Len(writers) + 1] = w
      /\ \A i \in 1..Len(writers) : writers'[i] = writers[i]
      /\ writers # <<>> => writers' # <<>> /\ Head(writers') = Head(writers)
  BY <1>1, LineGrows
<1>3. \A x \in Workers : x \in Range(writers') <=> frame'[x].pc \in Locking
  BY <1>2 DEF Lined, Becomes
<1>4. \A x \in Workers : frame'[x].pc = "points" => Holds(x)'
  BY <1>2 DEF Lined, Becomes, Holds, At
<1>5. ASSUME NEW x \in Workers, NEW y \in Workers,
             frame'[x].pc = "saving", frame'[y].pc = "dropping", frame'[x].conn = frame'[y].conn
      PROVE  \E i, j \in DOMAIN writers' : i < j /\ writers'[i] = x /\ writers'[j] = y
  <2>1. CASE x = w
    BY <1>5, <2>1 DEF Becomes, At
  <2>2. CASE x # w /\ y = w
    <3>1. x \in Range(writers)
      BY <1>5, <2>2 DEF Lined, Becomes, Locking
    <3>2. PICK i \in 1..Len(writers) : writers[i] = x
      BY <1>2, <3>1 DEF Range
    <3>3. /\ i \in DOMAIN writers' /\ Len(writers) + 1 \in DOMAIN writers'
          /\ i < Len(writers) + 1 /\ writers'[i] = x /\ writers'[Len(writers) + 1] = y
      BY <1>2, <2>2, <3>2
    <3> QED
      BY <3>3
  <2>3. CASE x # w /\ y # w
    <3>1. PICK i, j \in DOMAIN writers : i < j /\ writers[i] = x /\ writers[j] = y
      BY <1>5, <2>3 DEF Lined, Becomes, At
    <3> QED
      BY <1>2, <3>1
  <2> QED
    BY <2>1, <2>2, <2>3
<1> QED
  BY <1>2, <1>3, <1>4, <1>5 DEF Lined, At

\* Only the holder of the lock is between devices and points.
LEMMA HolderAlone ==
    ASSUME Lined, NEW w \in Workers, Holds(w), NEW x \in Workers, At(x, "points")
    PROVE  x = w
BY DEF Lined, Holds

LEMMA LineLeft ==
    ASSUME Typed, Lined, NEW w \in Workers, NEW f, Becomes(w, f), Holds(w), Unlock,
           f.pc \notin Locking
    PROVE  Lined'
<1>1. writers' = Tail(writers) /\ writers \in Seq(Workers) /\ Distinct(writers)
      /\ writers # <<>> /\ Head(writers) = w
  BY DEF Unlock, Holds, Lined
<1>2. /\ writers' \in Seq(Workers) /\ Distinct(writers')
      /\ Range(writers') = Range(writers) \ {w}
      /\ Len(writers) \in Nat /\ DOMAIN writers = 1..Len(writers)
      /\ DOMAIN writers' = 1..Len(writers) - 1 /\ writers[1] = w
      /\ \A i \in 1..Len(writers) - 1 : writers'[i] = writers[i + 1]
  BY <1>1, LineShrinks
<1>3. \A x \in Workers : x \in Range(writers') <=> frame'[x].pc \in Locking
  BY <1>2 DEF Lined, Becomes
<1>4. \A x \in Workers : frame'[x].pc # "points"
  BY HolderAlone DEF Lined, Becomes, At, Locking
<1>5. ASSUME NEW x \in Workers, NEW y \in Workers,
             frame'[x].pc = "saving", frame'[y].pc = "dropping", frame'[x].conn = frame'[y].conn
      PROVE  \E i, j \in DOMAIN writers' : i < j /\ writers'[i] = x /\ writers'[j] = y
  <2>1. x # w /\ y # w
    BY <1>5 DEF Becomes, Locking
  <2>2. PICK i, j \in DOMAIN writers : i < j /\ writers[i] = x /\ writers[j] = y
    BY <1>5, <2>1 DEF Lined, Becomes, At
  <2>3. /\ i - 1 \in DOMAIN writers' /\ j - 1 \in DOMAIN writers' /\ i - 1 < j - 1
        /\ writers'[i - 1] = x /\ writers'[j - 1] = y
    BY <1>2, <2>1, <2>2
  <2> QED
    BY <2>3
<1> QED
  BY <1>2, <1>3, <1>4, <1>5 DEF Lined, At

\* The holder goes to the end of the line.
LEMMA LineRejoined ==
    ASSUME Typed, Lined, NEW w \in Workers, NEW f, Becomes(w, f), Holds(w),
           writers' = Append(Tail(writers), w), f.pc \in Locking \ {"points", "saving", "dropping"}
    PROVE  Lined'
<1> DEFINE t == Tail(writers)
<1>1. writers \in Seq(Workers) /\ Distinct(writers) /\ writers # <<>> /\ Head(writers) = w
  BY DEF Holds, Lined
<1>2. /\ t \in Seq(Workers) /\ Distinct(t) /\ Range(t) = Range(writers) \ {w}
      /\ Len(writers) \in Nat /\ DOMAIN writers = 1..Len(writers)
      /\ DOMAIN t = 1..Len(writers) - 1 /\ writers[1] = w
      /\ \A i \in 1..Len(writers) - 1 : t[i] = writers[i + 1]
  BY <1>1, LineShrinks
<1>3. writers' = Append(t, w)
  OBVIOUS
<1> HIDE DEF t
<1>a. t \in Seq(Workers) /\ Distinct(t) /\ w \notin Range(t)
  BY <1>2
<1>4. /\ writers' \in Seq(Workers) /\ Distinct(writers')
      /\ Range(writers') = Range(t) \cup {w}
      /\ Len(t) \in Nat /\ DOMAIN t = 1..Len(t)
      /\ DOMAIN writers' = 1..Len(t) + 1
      /\ \A i \in 1..Len(t) : writers'[i] = t[i]
  <2>1. /\ Append(t, w) \in Seq(Workers) /\ Distinct(Append(t, w))
        /\ Range(Append(t, w)) = Range(t) \cup {w}
        /\ Len(t) \in Nat /\ DOMAIN t = 1..Len(t)
        /\ DOMAIN Append(t, w) = 1..Len(t) + 1
        /\ \A i \in 1..Len(t) : Append(t, w)[i] = t[i]
    <3>1. ASSUME NEW q \in Seq(Workers), Distinct(q), w \notin Range(q)
          PROVE  /\ Append(q, w) \in Seq(Workers) /\ Distinct(Append(q, w))
                 /\ Range(Append(q, w)) = Range(q) \cup {w}
                 /\ Len(q) \in Nat /\ DOMAIN q = 1..Len(q)
                 /\ DOMAIN Append(q, w) = 1..Len(q) + 1
                 /\ \A i \in 1..Len(q) : Append(q, w)[i] = q[i]
      BY <3>1, LineGrows
    <3> QED
      BY <1>a, <3>1
  <2> QED
    BY <1>3, <2>1, Zenon
<1>5. \A x \in Workers : x \in Range(writers') <=> frame'[x].pc \in Locking
  BY <1>2, <1>4 DEF Lined, Becomes
<1>6. \A x \in Workers : frame'[x].pc # "points"
  BY HolderAlone DEF Lined, Becomes, At
<1>7. ASSUME NEW x \in Workers, NEW y \in Workers,
             frame'[x].pc = "saving", frame'[y].pc = "dropping", frame'[x].conn = frame'[y].conn
      PROVE  \E i, j \in DOMAIN writers' : i < j /\ writers'[i] = x /\ writers'[j] = y
  <2>1. x # w /\ y # w
    BY <1>7 DEF Becomes
  <2>2. PICK i, j \in DOMAIN writers : i < j /\ writers[i] = x /\ writers[j] = y
    BY <1>7, <2>1 DEF Lined, Becomes, At
  <2>3. /\ i - 1 \in DOMAIN t /\ j - 1 \in DOMAIN t /\ i - 1 < j - 1
        /\ t[i - 1] = x /\ t[j - 1] = y
    BY <1>2, <2>1, <2>2
  <2>4. /\ i - 1 \in DOMAIN writers' /\ j - 1 \in DOMAIN writers'
        /\ writers'[i - 1] = x /\ writers'[j - 1] = y
    BY <1>4, <2>3
  <2> QED
    BY <2>3, <2>4
<1> QED
  <2>1. \A x \in Workers : At(x, "points")' => Holds(x)'
    BY <1>6 DEF At
  <2> QED
    BY <1>4, <1>5, <1>7, <2>1 DEF Lined, At

\* Nobody's row is marked before it was saved.
LEMMA SavedFirst ==
    ASSUME Lined, NEW x \in Workers, NEW y \in Workers, At(y, "dropping"), Holds(y),
           At(x, "saving")
    PROVE  frame[x].conn # frame[y].conn
<1> SUFFICES ASSUME frame[x].conn = frame[y].conn PROVE FALSE
  OBVIOUS
<1>1. PICK i, j \in DOMAIN writers : i < j /\ writers[i] = x /\ writers[j] = y
  BY DEF Lined
<1>2. writers \in Seq(Workers) /\ Distinct(writers) /\ writers # <<>> /\ Head(writers) = y
  BY DEF Lined, Holds
<1>3. /\ writers[1] = y /\ 1 \in DOMAIN writers /\ i \in Nat /\ i >= 1 /\ j \in Nat
  BY <1>1, <1>2, HeadTailProperties, LenProperties, EmptySeq
<1> QED
  BY <1>1, <1>2, <1>3 DEF Distinct

---------------------------------------------------------------------------
(* Steps that change no connection, target or row.                         *)

\* A worker gives up, begins, or goes on from the inventory: nobody else is
\* concerned.
LEMMA Quiet ==
    ASSUME IInv, NEW w \in Workers, NEW f, Becomes(w, f),
           f.pc \in {"idle", "commissioning", "refused", "marking", "devices"},
           f.pc = "devices" => /\ frame[w].pc = "inventory" /\ f.conn = frame[w].conn
                               /\ f.profile = frame[w].profile,
           f.old \in {Nobody, frame[w].old},
           torn' = IF frame[w].pc = "points" THEN torn \cup {frame[w].profile} ELSE torn,
           todo' \subseteq todo, phase' = phase,
           UNCHANGED <<live, targets, store, durable, acked, gone, overtaken>>
    PROVE  Owned' /\ Polled' /\ Recorded'
<1>1. Typed /\ Owned /\ Polled /\ Recorded
  BY DEF IInv
<1>2. Owned'
  <2>1. Nobody \notin acked
    BY <1>1 DEF Typed
  <2>2. frame'[Engine].old \notin acked'
    BY <1>1, <2>1 DEF Owned, Becomes
  <2>3. \A x \in Workers : /\ Busy(x)' => Busy(x) /\ frame'[x].conn = frame[x].conn
                           /\ Ending(x)' => Ending(x) /\ frame'[x] = frame[x]
                           /\ At(x, "saving")' => At(x, "saving") /\ frame'[x] = frame[x]
                           /\ At(x, "dropping")' => At(x, "dropping") /\ frame'[x] = frame[x]
    BY DEF Becomes, Busy, Ending, At
  <2> QED
    BY <1>1, <2>2, <2>3 DEF Owned
<1>3. Polled'
  <2>1. \A x \in Handlers : /\ Busy(x)' => Busy(x) /\ frame'[x].conn = frame[x].conn
                            /\ At(x, "closing")' => At(x, "closing") /\ frame'[x] = frame[x]
    BY DEF Becomes, Busy, At
  <2> QED
    BY <1>1, <2>1 DEF Polled, StaleTargetsWereOvertaken
<1>4. Recorded'
  <2>1. Sound(store)' /\ Sound(durable)'
    BY <1>1 DEF Recorded, Sound
  <2>2. \A x \in Handlers :
          (frame'[x].pc \in {"inventory", "devices", "points"} /\ frame'[x].conn \notin overtaken)
          => /\ store.rows[frame'[x].conn].status = "commissioned"
             /\ store.rows[frame'[x].conn].profile = frame'[x].profile
    BY <1>1 DEF Recorded, Becomes
  <2>3. \A x \in Workers : At(x, "points")' => store.device[frame'[x].profile] # Nobody
    BY <1>1 DEF Recorded, Becomes, At
  <2>4. WholeInventory'
    BY <1>1 DEF Recorded, WholeInventory
  <2>5. ASSUME NEW p \in Profiles \ torn', store.device[p] # Nobody, p \notin store.points
        PROVE  \E x \in Workers : At(x, "points")' /\ frame'[x].profile = p
    <3>1. PICK x \in Workers : At(x, "points") /\ frame[x].profile = p
      BY <1>1, <2>5 DEF Recorded
    <3>2. x # w
      BY <3>1, <2>5 DEF At
    <3> QED
      BY <3>1, <3>2 DEF Becomes, At
  <2>6. phase' = "starting" => \A c \in todo' : store.rows[c].profile \in Profiles
    BY <1>1 DEF Recorded
  <2> QED
    BY <2>1, <2>2, <2>3, <2>4, <2>5, <2>6 DEF Recorded
<1> QED
  BY <1>2, <1>3, <1>4

\* Where workers may be, when one of them moves.
LEMMA PlacedMoves ==
    ASSUME Placed, Typed, NEW w \in Workers, NEW f, Becomes(w, f), phase' = phase,
           issued' \in {issued, issued + 1},
           w \in Handlers => f.pc \in Pcs \ {"refused", "marking"} /\ phase = "up",
           f.pc = "idle" => f = Idle,
           w = Engine => /\ phase \in {"starting", "stopping"}
                         /\ phase = "starting" => f.pc \notin {"closing", "dropping"}
                         /\ phase = "stopping" => f.pc \in {"idle", "closing", "dropping"}
                         /\ f.pc \in {"closing", "dropping"} => f.old = Nobody,
           f.pc \in {"saving", "inventory", "devices", "points", "closing", "dropping"}
             => f.conn \in 1..issued',
           f.pc \in {"saving", "inventory", "devices", "points", "commissioning", "refused",
                     "marking"} => f.profile \in Profiles
    PROVE  Placed'
<1>1. \A x \in Workers \ {w} : frame'[x] = frame[x]
  BY DEF Becomes
<1>2. 1..issued \subseteq 1..issued'
  BY DEF Typed, TypeOK
<1>3. \A x \in Handlers :
          /\ frame'[x].pc \in Pcs \ {"refused", "marking"}
          /\ frame'[x].pc # "idle" => phase = "up"
  BY <1>1 DEF Placed, Becomes
<1>4. \A x \in Workers :
          /\ Busy(x)' \/ Ending(x)' => frame'[x].conn \in 1..issued'
          /\ Busy(x)' \/ frame'[x].pc \in {"commissioning", "refused", "marking"}
                => frame'[x].profile \in Profiles
  BY <1>1, <1>2 DEF Placed, Becomes, Busy, Ending
<1>5. /\ phase \in {"down", "up"} => frame'[Engine].pc = "idle"
      /\ frame'[Engine].pc = "idle" => frame'[Engine] = Idle
      /\ phase = "starting" => ~Ending(Engine)'
      /\ phase = "stopping" => frame'[Engine].pc \in {"idle", "closing", "dropping"}
      /\ Ending(Engine)' => frame'[Engine].old = Nobody
  BY <1>1 DEF Placed, Becomes, Ending
<1> QED
  BY <1>3, <1>4, <1>5 DEF Placed

\* Who is where when a worker takes a step.
LEMMA WhereAmI ==
    ASSUME Placed, Typed, NEW w \in Workers, frame[w].pc # "idle"
    PROVE  /\ w \in Handlers => phase = "up" /\ frame[w].pc \in Pcs \ {"refused", "marking"}
           /\ w = Engine => phase \in {"starting", "stopping"}
           /\ (w = Engine /\ phase = "starting") => ~Ending(w)
           /\ (w = Engine /\ phase = "stopping") => Ending(w) /\ frame[w].old = Nobody
           /\ phase = "up" => w \in Handlers
           /\ phase = "starting" => w = Engine
           /\ \A x \in Workers : (w \in Handlers /\ frame[x].pc # "idle") => x \in Handlers
           /\ \A x \in Handlers : w = Engine => frame[x].pc = "idle"
<1>1. w \in Handlers => phase = "up" /\ frame[w].pc \in Pcs \ {"refused", "marking"}
  BY DEF Placed
<1>2. w \in Handlers \/ w = Engine
  OBVIOUS
<1>3. w = Engine => phase \notin {"down", "up"}
  BY IdleFrame DEF Placed
<1>4. w = Engine => phase \in {"starting", "stopping"}
  BY <1>3 DEF Typed, TypeOK
<1>5. /\ (w = Engine /\ phase = "starting") => ~Ending(w)
      /\ (w = Engine /\ phase = "stopping") => Ending(w) /\ frame[w].old = Nobody
  BY DEF Placed, Ending
<1>6. \A x \in Workers : (w \in Handlers /\ frame[x].pc # "idle") => x \in Handlers
  BY <1>1, IdleFrame DEF Placed
<1>7. \A x \in Handlers : w = Engine => frame[x].pc = "idle"
  BY <1>4 DEF Placed
<1> QED
  BY <1>1, <1>2, <1>3, <1>4, <1>5, <1>6, <1>7

LEMMA QuietIInv ==
    ASSUME IInv, NEW w \in Workers, NEW f, Becomes(w, f),
           f.pc \in {"idle", "commissioning", "refused", "marking", "devices"},
           f.pc = "devices" => /\ frame[w].pc = "inventory" /\ f.conn = frame[w].conn
                               /\ f.profile = frame[w].profile,
           f.old \in {Nobody, frame[w].old},
           torn' = IF frame[w].pc = "points" THEN torn \cup {frame[w].profile} ELSE torn,
           todo' \subseteq todo, phase' = phase,
           UNCHANGED <<live, sessions, targets, store, durable, issued, crashes, acked, gone,
                       overtaken, lastLive>>,
           faults' \in 0..MaxFaults, Placed', Lined'
    PROVE  IInv'
<1>1. Owned' /\ Polled' /\ Recorded'
  BY Quiet
<1>2. torn' \subseteq Profiles
  BY DEF IInv, Typed, TypeOK, Placed, Busy
<1>3. Typed'
  BY <1>2 DEF IInv, Typed, TypeOK, Becomes, Lined
<1> QED
  BY <1>1, <1>3 DEF IInv

LEMMA ConnectStep ==
    ASSUME IInv, NEW w \in Workers, NEW p \in Profiles, Connect(w, p)
    PROVE  IInv'
<1> DEFINE f == [Idle EXCEPT !.pc = "commissioning", !.profile = p]
<1>1. /\ f \in Frame /\ f.pc = "commissioning" /\ f.conn = Nobody /\ f.profile = p
      /\ f.old = Nobody
  BY DEF Idle, Frame
<1>2. Becomes(w, f)
  BY <1>1, FrameSet DEF Connect, IInv
<1>3. /\ phase = "up" /\ w \in Handlers /\ frame[w].pc = "idle" /\ torn' = torn /\ todo' = todo
      /\ UNCHANGED <<phase, live, sessions, targets, store, durable, issued, crashes, acked, gone,
                     overtaken, lastLive, faults, writers>>
  BY DEF Connect, At, history
<1> HIDE DEF f
<1>4. Placed'
  BY <1>1, <1>2, <1>3, PlacedMoves DEF IInv, Pcs
<1>5. Lined'
  BY <1>1, <1>2, <1>3, LineUntouched DEF IInv, Locking
<1>6. faults' \in 0..MaxFaults
  BY <1>3 DEF IInv, Typed, TypeOK
<1> QED
  BY <1>1, <1>2, <1>3, <1>4, <1>5, <1>6, QuietIInv

\* What giving up does to the worker.
LEMMA GivesUp ==
    ASSUME IInv, NEW w \in Workers, GiveUp(w), frame[w].pc \in {"commissioning", "inventory"},
           phase' = phase, issued' = issued
    PROVE  \E f : /\ Becomes(w, f) /\ f.pc \in {"idle", "marking"} /\ f.old \in {Nobody, frame[w].old}
                  /\ Placed' /\ Lined'
<1>0. Typed /\ Placed /\ Lined
  BY DEF IInv
<1>1. CASE w = Engine /\ frame[w].old # Nobody
  <2> DEFINE f == Moved(w, "marking")
  <2>1. Goto(w, "marking") /\ Queue(w)
    BY <1>1 DEF GiveUp
  <2>2. /\ Becomes(w, f) /\ f.pc = "marking" /\ f.conn = frame[w].conn
        /\ f.profile = frame[w].profile /\ f.old = frame[w].old
    BY <1>0, <2>1, WentTo DEF Pcs
  <2> HIDE DEF f
  <2>3. phase = "starting" /\ frame[w].profile \in Profiles
    BY <1>0, <1>1, WhereAmI DEF Placed, Busy, Ending
  <2>4. Placed'
    BY <1>0, <1>1, <2>2, <2>3, PlacedMoves DEF IInv
  <2>5. Lined'
    BY <1>0, <2>1, <2>2, LineJoined DEF Locking
  <2> QED
    BY <2>2, <2>4, <2>5
<1>2. CASE ~(w = Engine /\ frame[w].old # Nobody)
  <2>1. frame' = [frame EXCEPT ![w] = Idle] /\ writers' = writers
    BY <1>2 DEF GiveUp
  <2>2. Becomes(w, Idle)
    BY <1>0, <2>1, FrameSet, IdleFrame
  <2>3. Placed'
    BY <1>0, <2>2, PlacedMoves, IdleFrame, WhereAmI DEF Pcs
  <2>4. Lined'
    BY <1>0, <2>1, <2>2, LineUntouched, IdleFrame DEF Locking
  <2> QED
    BY <2>2, <2>3, <2>4, IdleFrame
<1> QED
  BY <1>1, <1>2

LEMMA NotCommissionedStep ==
    ASSUME IInv, NEW w \in Workers, NotCommissioned(w) PROVE IInv'
<1>0. /\ Typed /\ Placed /\ Lined
      /\ frame[w].pc = "commissioning" /\ torn' = torn /\ todo' = todo
      /\ UNCHANGED <<phase, live, sessions, targets, store, durable, issued, crashes, acked, gone,
                     overtaken, lastLive, faults>>
  BY DEF NotCommissioned, At, history, IInv
<1>1. faults' \in 0..MaxFaults
  BY <1>0 DEF Typed, TypeOK
<1>2. CASE GiveUp(w)
  BY <1>0, <1>1, <1>2, GivesUp, QuietIInv
<1>3. CASE w = Engine /\ Goto(w, "refused") /\ Queue(w)
  <2> DEFINE f == Moved(w, "refused")
  <2>1. /\ Becomes(w, f) /\ f.pc = "refused" /\ f.conn = frame[w].conn
        /\ f.profile = frame[w].profile /\ f.old = frame[w].old
    BY <1>0, <1>3, WentTo DEF Pcs
  <2> HIDE DEF f
  <2>2. phase = "starting" /\ frame[w].profile \in Profiles
    BY <1>0, <1>3, WhereAmI DEF Placed, Busy, Ending
  <2>3. Placed'
    BY <1>0, <1>3, <2>1, <2>2, PlacedMoves
  <2>4. Lined'
    BY <1>0, <1>3, <2>1, LineJoined DEF Locking
  <2> QED
    BY <1>0, <1>1, <2>1, <2>3, <2>4, QuietIInv
<1> QED
  BY <1>2, <1>3 DEF NotCommissioned

LEMMA InventoryStep ==
    ASSUME IInv, NEW w \in Workers, InventoryReturns(w) \/ InventoryFails(w) PROVE IInv'
<1>0. /\ Typed /\ Placed /\ Lined
      /\ frame[w].pc = "inventory" /\ torn' = torn /\ todo' = todo
      /\ UNCHANGED <<phase, live, sessions, targets, store, durable, issued, crashes, acked, gone,
                     overtaken, lastLive, faults>>
  BY DEF InventoryReturns, InventoryFails, At, history, IInv
<1>1. faults' \in 0..MaxFaults
  BY <1>0 DEF Typed, TypeOK
<1>2. CASE InventoryFails(w)
  <2>1. GiveUp(w)
    BY <1>2 DEF InventoryFails
  <2> QED
    BY <1>0, <1>1, <2>1, GivesUp, QuietIInv
<1>3. CASE InventoryReturns(w)
  <2> DEFINE f == Moved(w, "devices")
  <2>0. Goto(w, "devices") /\ Queue(w)
    BY <1>3 DEF InventoryReturns
  <2>1. /\ Becomes(w, f) /\ f.pc = "devices" /\ f.conn = frame[w].conn
        /\ f.profile = frame[w].profile /\ f.old = frame[w].old
    BY <1>0, <2>0, WentTo DEF Pcs
  <2> HIDE DEF f
  <2>2. frame[w].conn \in 1..issued /\ frame[w].profile \in Profiles
    BY <1>0 DEF Placed, Busy
  <2>3. Placed'
    BY <1>0, <2>1, <2>2, PlacedMoves, WhereAmI DEF Pcs, Ending
  <2>4. Lined'
    BY <1>0, <2>0, <2>1, LineJoined DEF Locking
  <2> QED
    BY <1>0, <1>1, <2>1, <2>3, <2>4, QuietIInv
<1> QED
  BY <1>2, <1>3

LEMMA CloseFailsStep == ASSUME IInv, NEW w \in Workers, CloseFails(w) PROVE IInv'
<1>0. /\ Typed /\ Placed /\ Lined
      /\ frame[w].pc = "closing" /\ torn' = torn /\ todo' = todo /\ writers' = writers
      /\ UNCHANGED <<phase, live, sessions, targets, store, durable, issued, crashes, acked, gone,
                     overtaken, lastLive, faults>>
      /\ frame' = [frame EXCEPT ![w] = Idle]
  BY DEF CloseFails, At, history, IInv
<1>1. faults' \in 0..MaxFaults
  BY <1>0 DEF Typed, TypeOK
<1>2. Becomes(w, Idle)
  BY <1>0, FrameSet, IdleFrame
<1>3. Placed'
  BY <1>0, <1>2, PlacedMoves, IdleFrame, WhereAmI DEF Pcs
<1>4. Lined'
  BY <1>0, <1>2, LineUntouched, IdleFrame DEF Locking
<1> QED
  BY <1>0, <1>1, <1>2, <1>3, <1>4, IdleFrame, QuietIInv

\* Giving up with the lock in hand.
LEMMA GivesUpLocked ==
    ASSUME IInv, NEW w \in Workers, GiveUpLocked(w), Holds(w), phase' = phase, issued' = issued
    PROVE  \E f : /\ Becomes(w, f) /\ f.pc \in {"idle", "marking"} /\ f.old \in {Nobody, frame[w].old}
                  /\ Placed' /\ Lined'
<1>0. Typed /\ Placed /\ Lined
  BY DEF IInv
<1>a. frame[w].pc \in Locking
  <2>1. w \in Range(writers)
    BY <1>0, HeadTailProperties, LenProperties, EmptySeq DEF Lined, Holds, Range
  <2> QED
    BY <1>0, <2>1 DEF Lined
<1>1. CASE w = Engine /\ frame[w].old # Nobody
  <2> DEFINE f == Moved(w, "marking")
  <2>1. Goto(w, "marking") /\ writers' = Append(Tail(writers), w)
    BY <1>1 DEF GiveUpLocked
  <2>2. /\ Becomes(w, f) /\ f.pc = "marking" /\ f.conn = frame[w].conn
        /\ f.profile = frame[w].profile /\ f.old = frame[w].old
    BY <1>0, <2>1, WentTo DEF Pcs
  <2> HIDE DEF f
  <2>3. phase = "starting" /\ frame[w].profile \in Profiles
    BY <1>0, <1>1, <1>a, WhereAmI DEF Placed, Busy, Ending, Locking
  <2>4. Placed'
    BY <1>0, <1>1, <2>2, <2>3, PlacedMoves
  <2>5. Lined'
    BY <1>0, <2>1, <2>2, LineRejoined DEF Locking
  <2> QED
    BY <2>2, <2>4, <2>5
<1>2. CASE ~(w = Engine /\ frame[w].old # Nobody)
  <2>1. frame' = [frame EXCEPT ![w] = Idle] /\ Unlock
    BY <1>2 DEF GiveUpLocked
  <2>2. Becomes(w, Idle)
    BY <1>0, <2>1, FrameSet, IdleFrame
  <2>3. Placed'
    BY <1>0, <1>a, <2>2, PlacedMoves, IdleFrame, WhereAmI DEF Pcs, Locking
  <2>4. Lined'
    BY <1>0, <2>1, <2>2, LineLeft, IdleFrame DEF Locking
  <2> QED
    BY <2>2, <2>3, <2>4, IdleFrame
<1> QED
  BY <1>1, <1>2

LEMMA WriteFailsStep == ASSUME IInv, NEW w \in Workers, WriteFails(w) PROVE IInv'
<1>0. /\ Typed /\ Placed /\ Lined /\ Holds(w)
      /\ faults < MaxFaults /\ faults' = faults + 1
      /\ UNCHANGED <<phase, live, sessions, targets, store, durable, issued, crashes, acked, gone,
                     overtaken, lastLive>>
      /\ torn' = IF frame[w].pc = "points" THEN torn \cup {frame[w].profile} ELSE torn
  BY DEF WriteFails, IInv
<1>1. faults' \in 0..MaxFaults
  BY <1>0 DEF Typed, TypeOK
<1>2. CASE frame[w].pc = "marking"
  <2>1. frame' = [frame EXCEPT ![w] = Idle] /\ Unlock /\ todo' = {}
    BY <1>2 DEF WriteFails
  <2>2. Becomes(w, Idle)
    BY <1>0, <2>1, FrameSet, IdleFrame
  <2>3. Placed'
    BY <1>0, <1>2, <2>2, PlacedMoves, IdleFrame, WhereAmI DEF Pcs
  <2>4. Lined'
    BY <1>0, <2>1, <2>2, LineLeft, IdleFrame DEF Locking
  <2> QED
    BY <1>0, <1>1, <2>1, <2>2, <2>3, <2>4, IdleFrame, QuietIInv
<1>3. CASE frame[w].pc # "marking"
  <2>1. GiveUpLocked(w) /\ todo' = todo
    BY <1>3 DEF WriteFails
  <2> QED
    BY <1>0, <1>1, <2>1, GivesUpLocked, QuietIInv
<1> QED
  BY <1>2, <1>3

---------------------------------------------------------------------------
(* Commissioning.                                                          *)

LEMMA CommissionedStep == ASSUME IInv, NEW w \in Workers, Commissioned(w) PROVE IInv'
<1> DEFINE f == [frame[w] EXCEPT !.pc = "saving", !.conn = issued']
<1>0. /\ Typed /\ Placed /\ Lined /\ Owned /\ Polled /\ Recorded
      /\ frame[w].pc = "commissioning" /\ issued < MaxConns /\ issued' = issued + 1
      /\ sessions' = sessions \cup {issued'} /\ live' = live \cup {issued'} /\ Queue(w)
      /\ UNCHANGED <<phase, targets, store, durable, todo, faults, crashes, acked, gone,
                     overtaken, torn, lastLive>>
  BY DEF Commissioned, At, history, IInv
<1>1. /\ issued \in Nat /\ issued' \in Conns /\ issued' \notin acked /\ issued' \notin gone
      /\ issued' \notin live /\ issued' \notin overtaken /\ issued' \notin 1..issued
      /\ frame[w].profile \in Profiles
  BY <1>0 DEF Typed, TypeOK, Placed
<1>2. /\ Becomes(w, f) /\ f.pc = "saving" /\ f.conn = issued' /\ f.profile = frame[w].profile
      /\ f.old = frame[w].old
  <2>1. frame[w] \in Frame /\ frame \in [Workers -> Frame]
    BY <1>0 DEF Typed, TypeOK
  <2>2. f \in Frame
    BY <1>1, <2>1 DEF Frame
  <2>3. /\ f.pc = "saving" /\ f.conn = issued' /\ f.profile = frame[w].profile
        /\ f.old = frame[w].old
    BY <2>1 DEF Frame
  <2>4. frame' = [frame EXCEPT ![w] = f]
    BY <2>1 DEF Commissioned
  <2> QED
    BY <1>0, <2>2, <2>3, <2>4, FrameSet
<1> HIDE DEF f
<1>3. Placed'
  BY <1>0, <1>1, <1>2, PlacedMoves, WhereAmI DEF Pcs, Ending
<1>4. \A y \in Workers : Busy(y) \/ Ending(y) => frame[y].conn # issued'
  BY <1>0, <1>1 DEF Placed
<1>5. Lined'
  BY <1>0, <1>2, <1>4, LineJoined DEF Locking, Ending, At
<1>6. \A x \in Workers \ {w} : frame'[x] = frame[x]
  BY <1>2 DEF Becomes
<1>7. frame'[w] = f
  BY <1>2 DEF Becomes
<1>8. Owned'
  <2>1. \A x, y \in Workers :
          (Busy(x)' /\ Busy(y)' /\ frame'[x].conn = frame'[y].conn) => x = y
    BY <1>0, <1>2, <1>4, <1>6, <1>7 DEF Owned, Busy
  <2>2. \A x \in Workers : Busy(x)' \/ Ending(x)' => frame'[x].conn \notin acked
    BY <1>0, <1>1, <1>2, <1>6, <1>7 DEF Owned, Busy, Ending
  <2>3. \A x \in Workers : At(x, "saving")' => frame'[x].conn \notin gone
    BY <1>0, <1>1, <1>2, <1>6, <1>7 DEF Owned, At
  <2>4. \A x \in Workers : At(x, "dropping")' => frame'[x].conn \notin live'
    BY <1>0, <1>2, <1>4, <1>6, <1>7 DEF Owned, At, Ending
  <2>5. \A x \in Handlers, y \in Workers :
          (Busy(x)' /\ Ending(y)' /\ frame'[x].conn = frame'[y].conn)
          => frame'[x].conn \in overtaken
    BY <1>0, <1>2, <1>4, <1>6, <1>7 DEF Owned, Busy, Ending
  <2>6. frame'[Engine].old \notin acked
    BY <1>0, <1>2, <1>6, <1>7 DEF Owned
  <2>7. \A c \in gone : c \notin live'
    BY <1>0, <1>1 DEF Owned
  <2> QED
    BY <1>0, <2>1, <2>2, <2>3, <2>4, <2>5, <2>6, <2>7 DEF Owned
<1>9. Polled'
  BY <1>0, <1>2, <1>6, <1>7 DEF Polled, Busy, At, StaleTargetsWereOvertaken
<1>10. Recorded'
  <2>1. Sound(store)' /\ Sound(durable)' /\ WholeInventory'
    BY <1>0 DEF Recorded, Sound, WholeInventory
  <2>2. \A x \in Handlers :
          (frame'[x].pc \in {"inventory", "devices", "points"} /\ frame'[x].conn \notin overtaken)
          => /\ store.rows[frame'[x].conn].status = "commissioned"
             /\ store.rows[frame'[x].conn].profile = frame'[x].profile
    BY <1>0, <1>2, <1>6, <1>7 DEF Recorded
  <2>3. \A x \in Workers : At(x, "points")' <=> At(x, "points")
    BY <1>0, <1>2, <1>6, <1>7 DEF At
  <2>4. \A x \in Workers : At(x, "points") => frame'[x] = frame[x]
    BY <1>0, <1>6 DEF At
  <2>5. \A p \in Profiles \ torn : store.device[p] # Nobody =>
          p \in store.points \/ \E x \in Workers : At(x, "points")' /\ frame'[x].profile = p
    BY <1>0, <2>3, <2>4 DEF Recorded
  <2> QED
    BY <1>0, <2>1, <2>2, <2>3, <2>4, <2>5 DEF Recorded
<1>11. Typed'
  <2>1. 1..issued \subseteq 1..issued' /\ issued' \in 0..MaxConns
    BY <1>0, <1>1
  <2> QED
    BY <1>0, <1>1, <1>2, <1>5, <2>1 DEF Typed, TypeOK, Becomes, Lined
<1> QED
  BY <1>3, <1>5, <1>8, <1>9, <1>10, <1>11 DEF IInv

\* Committing while nobody is between devices and points.
LEMMA WholeCommit ==
    ASSUME Recorded, NEW s, Commit(s), s.device = store.device, s.points = store.points,
           \A x \in Workers : ~At(x, "points"), torn' = torn
    PROVE  /\ WholeInventory'
           /\ \A p \in Profiles \ torn : s.device[p] # Nobody => p \in s.points
BY DEF Recorded, Commit, WholeInventory

LEMMA SaveCommissionedStep ==
    ASSUME IInv, NEW w \in Workers, SaveCommissioned(w) PROVE IInv'
<1> DEFINE s == WithRow(store, frame[w].conn, frame[w].profile, "commissioned")
<1>0. /\ Typed /\ Placed /\ Lined /\ Owned /\ Polled /\ Recorded
      /\ frame[w].pc = "saving" /\ Holds(w) /\ Commit(s)
      /\ UNCHANGED <<phase, live, sessions, targets, todo, issued, faults, crashes, acked, gone,
                     overtaken, torn, lastLive>>
  BY DEF SaveCommissioned, At, history, IInv
<1>1. /\ frame[w].conn \in Conns /\ frame[w].profile \in Profiles /\ frame[w].conn \notin acked
      /\ frame[w].conn \notin gone
  BY <1>0 DEF Typed, TypeOK, Placed, Owned, Busy, At
<1>2. /\ s \in Rows /\ s.device = store.device /\ s.points = store.points
      /\ \A d \in Conns : d # frame[w].conn => s.rows[d] = store.rows[d]
      /\ s.rows[frame[w].conn].status = "commissioned"
      /\ s.rows[frame[w].conn].profile = frame[w].profile
  BY <1>0, <1>1, RowSet DEF Typed, TypeOK
<1> HIDE DEF s
<1>3. store' = s /\ durable' = s
  BY <1>0 DEF Commit
<1>4. \E f : /\ Becomes(w, f) /\ f.pc \in {"idle", "marking", "inventory"}
             /\ f.old \in {Nobody, frame[w].old}
             /\ f.pc = "inventory" => f.conn = frame[w].conn /\ f.profile = frame[w].profile
             /\ Placed' /\ Lined'
  <2>1. CASE GiveUpLocked(w)
    BY <1>0, <2>1, GivesUpLocked
  <2>2. CASE Goto(w, "inventory") /\ Unlock
    <3> DEFINE f == Moved(w, "inventory")
    <3>1. /\ Becomes(w, f) /\ f.pc = "inventory" /\ f.conn = frame[w].conn
          /\ f.profile = frame[w].profile /\ f.old = frame[w].old
      BY <1>0, <2>2, WentTo DEF Pcs
    <3> HIDE DEF f
    <3>2. frame[w].conn \in 1..issued
      BY <1>0 DEF Placed, Busy
    <3>3. Placed'
      BY <1>0, <1>1, <3>1, <3>2, PlacedMoves, WhereAmI DEF Pcs, Ending
    <3>4. Lined'
      BY <1>0, <2>2, <3>1, LineLeft DEF Locking
    <3> QED
      BY <3>1, <3>3, <3>4
  <2> QED
    BY <2>1, <2>2 DEF SaveCommissioned
<1>5. PICK f : /\ Becomes(w, f) /\ f.pc \in {"idle", "marking", "inventory"}
               /\ f.old \in {Nobody, frame[w].old}
               /\ f.pc = "inventory" => f.conn = frame[w].conn /\ f.profile = frame[w].profile
  BY <1>4
<1>6. Placed' /\ Lined'
  BY <1>4
<1>7. frame'[w] = f /\ \A x \in Workers \ {w} : frame'[x] = frame[x]
  BY <1>5 DEF Becomes
<1>8. Owned' /\ Polled'
  <2>1. \A x \in Workers : /\ Busy(x)' => Busy(x) /\ frame'[x].conn = frame[x].conn
                           /\ Ending(x)' => Ending(x) /\ frame'[x] = frame[x]
                           /\ At(x, "saving")' => At(x, "saving") /\ frame'[x] = frame[x]
                           /\ At(x, "closing")' => At(x, "closing") /\ frame'[x] = frame[x]
                           /\ At(x, "dropping")' => At(x, "dropping") /\ frame'[x] = frame[x]
    BY <1>0, <1>5, <1>7 DEF Busy, Ending, At
  <2>2. Nobody \notin acked
    BY <1>0 DEF Typed
  <2>3. frame'[Engine].old \notin acked
    BY <1>0, <1>5, <1>7, <2>2 DEF Owned
  <2>4. Owned'
    BY <1>0, <2>1, <2>3 DEF Owned
  <2>5. Polled'
    BY <1>0, <2>1 DEF Polled, StaleTargetsWereOvertaken
  <2> QED
    BY <2>4, <2>5
<1>9. Recorded'
  <2>0. \A x \in Workers : ~At(x, "points")
    BY <1>0, HolderAlone DEF At
  <2>1. \A x \in Workers : ~At(x, "points")'
    BY <1>5, <1>7, <2>0 DEF At
  <2>2. /\ WholeInventory'
        /\ \A p \in Profiles \ torn' : store'.device[p] # Nobody => p \in store'.points
    BY <1>0, <1>2, <1>3, <2>0, WholeCommit
  <2>3. acked \subseteq Conns /\ gone \subseteq Conns /\ todo \subseteq Conns
    BY <1>0 DEF Typed, TypeOK
  <2>4. /\ \A c \in acked :
              /\ s.rows[c].status = "commissioned"
              /\ s.rows[c].profile \in s.points /\ s.device[s.rows[c].profile] # Nobody
        /\ \A c \in gone : s.rows[c].status = "disconnected"
        /\ \A c \in Conns : s.rows[c].status = "commissioned" => s.rows[c].profile \in Profiles
    BY <1>0, <1>1, <1>2, <2>3 DEF Recorded, Sound
  <2>5. \A x \in Handlers :
          (frame'[x].pc \in {"inventory", "devices", "points"} /\ frame'[x].conn \notin overtaken)
          => /\ s.rows[frame'[x].conn].status = "commissioned"
             /\ s.rows[frame'[x].conn].profile = frame'[x].profile
    <3> SUFFICES ASSUME NEW x \in Handlers, frame'[x].pc \in {"inventory", "devices", "points"},
                        frame'[x].conn \notin overtaken
                 PROVE  /\ s.rows[frame'[x].conn].status = "commissioned"
                        /\ s.rows[frame'[x].conn].profile = frame'[x].profile
      OBVIOUS
    <3>1. CASE x = w
      BY <1>2, <1>5, <1>7, <3>1
    <3>2. CASE x # w
      <4>1. frame'[x] = frame[x] /\ frame[x].conn # frame[w].conn /\ frame[x].conn \in Conns
        BY <1>0, <1>7, <3>2 DEF Owned, Busy, Placed, Typed, TypeOK
      <4> QED
        BY <1>0, <1>2, <4>1 DEF Recorded
    <3> QED
      BY <3>1, <3>2
  <2>6. phase = "starting" => \A c \in todo : s.rows[c].profile \in Profiles
    BY <1>0, <1>1, <1>2, <2>3 DEF Recorded
  <2>7. Sound(store)' /\ Sound(durable)'
    BY <1>0, <1>3, <2>4 DEF Sound
  <2> QED
    BY <1>0, <1>3, <2>1, <2>2, <2>5, <2>6, <2>7 DEF Recorded
<1>10. Typed'
  BY <1>0, <1>2, <1>3, <1>5, <1>6 DEF Typed, TypeOK, Becomes, Lined
<1> QED
  BY <1>6, <1>8, <1>9, <1>10 DEF IInv

LEMMA PersistDevicesStep ==
    ASSUME IInv, NEW w \in Workers, PersistDevices(w) PROVE IInv'
<1> DEFINE f == Moved(w, "points")
<1>0. /\ Typed /\ Placed /\ Lined /\ Owned /\ Polled /\ Recorded
      /\ frame[w].pc = "devices" /\ Holds(w) /\ Goto(w, "points")
      /\ UNCHANGED <<phase, live, sessions, targets, durable, writers, todo, issued, faults,
                     crashes, acked, gone, overtaken, torn, lastLive>>
  BY DEF PersistDevices, At, history, IInv
<1>1. frame[w].conn \in 1..issued /\ frame[w].conn \in Conns /\ frame[w].profile \in Profiles
  BY <1>0 DEF Typed, TypeOK, Placed, Busy, At
<1>2. /\ Becomes(w, f) /\ f.pc = "points" /\ f.conn = frame[w].conn
      /\ f.profile = frame[w].profile /\ f.old = frame[w].old
  BY <1>0, WentTo DEF Pcs
<1> HIDE DEF f
<1>3. /\ store' \in Rows /\ store'.rows = store.rows /\ store'.points = store.points
      /\ store'.device[frame[w].profile] # Nobody
      /\ \A p \in Profiles : p # frame[w].profile => store'.device[p] = store.device[p]
      /\ \A p \in Profiles : store.device[p] # Nobody => store'.device[p] # Nobody
  <2>1. store \in Rows
    BY <1>0 DEF Typed, TypeOK
  <2>2. store' = [store EXCEPT !.device[frame[w].profile] =
                    IF @ = Nobody THEN frame[w].conn ELSE @]
    BY DEF PersistDevices
  <2> QED
    BY <1>1, <2>1, <2>2 DEF Rows
<1>4. Placed'
  BY <1>0, <1>1, <1>2, PlacedMoves, WhereAmI DEF Pcs, Ending
<1>5. Lined'
  BY <1>0, <1>2, LineUntouched DEF Locking
<1>6. frame'[w] = f /\ \A x \in Workers \ {w} : frame'[x] = frame[x]
  BY <1>2 DEF Becomes
<1>7. Owned' /\ Polled'
  <2>1. \A x \in Workers : /\ Busy(x)' => Busy(x) /\ frame'[x].conn = frame[x].conn
                           /\ Ending(x)' => Ending(x) /\ frame'[x] = frame[x]
                           /\ At(x, "saving")' => At(x, "saving") /\ frame'[x] = frame[x]
                           /\ At(x, "closing")' => At(x, "closing") /\ frame'[x] = frame[x]
                           /\ At(x, "dropping")' => At(x, "dropping") /\ frame'[x] = frame[x]
    BY <1>0, <1>2, <1>6 DEF Busy, Ending, At
  <2>2. frame'[Engine].old \notin acked
    BY <1>0, <1>2, <1>6 DEF Owned
  <2>3. Owned'
    BY <1>0, <2>1, <2>2 DEF Owned
  <2>4. Polled'
    BY <1>0, <2>1 DEF Polled, StaleTargetsWereOvertaken
  <2> QED
    BY <2>3, <2>4
<1>8. Recorded'
  <2>1. Sound(store)' /\ Sound(durable)'
    <3>1. store.points \subseteq Profiles
      BY <1>0 DEF Typed, TypeOK, Rows
    <3> QED
      BY <1>0, <1>3, <3>1 DEF Recorded, Sound
  <2>2. \A x \in Handlers :
          (frame'[x].pc \in {"inventory", "devices", "points"} /\ frame'[x].conn \notin overtaken)
          => /\ store'.rows[frame'[x].conn].status = "commissioned"
             /\ store'.rows[frame'[x].conn].profile = frame'[x].profile
    BY <1>0, <1>2, <1>3, <1>6 DEF Recorded
  <2>3. \A x \in Workers : At(x, "points")' => x = w
    BY <1>0, <1>6, HolderAlone DEF At
  <2>4. \A x \in Workers : At(x, "points")' => store'.device[frame'[x].profile] # Nobody
    BY <1>2, <1>3, <1>6, <2>3
  <2>5. WholeInventory'
    BY <1>0 DEF Recorded, WholeInventory
  <2>6. At(w, "points")' /\ frame'[w].profile = frame[w].profile
    BY <1>2, <1>6 DEF At
  <2>7. \A x \in Workers : ~At(x, "points")
    BY <1>0, HolderAlone DEF At
  <2>8. \A p \in Profiles \ torn : store'.device[p] # Nobody =>
          p \in store'.points \/ \E x \in Workers : At(x, "points")' /\ frame'[x].profile = p
    BY <1>0, <1>3, <2>6, <2>7 DEF Recorded
  <2>9. phase = "starting" => \A c \in todo : store'.rows[c].profile \in Profiles
    BY <1>0, <1>3 DEF Recorded
  <2> QED
    BY <1>0, <2>1, <2>2, <2>4, <2>5, <2>8, <2>9 DEF Recorded
<1>9. Typed'
  BY <1>0, <1>2, <1>3 DEF Typed, TypeOK, Becomes
<1> QED
  BY <1>4, <1>5, <1>7, <1>8, <1>9 DEF IInv

LEMMA PersistPointsStep ==
    ASSUME IInv, NEW w \in Workers, PersistPoints(w) PROVE IInv'
<1> DEFINE c == frame[w].conn
           p == frame[w].profile
<1>0. /\ Typed /\ Placed /\ Lined /\ Owned /\ Polled /\ Recorded
      /\ frame[w].pc = "points" /\ Holds(w) /\ frame' = [frame EXCEPT ![w] = Idle] /\ Unlock
      /\ UNCHANGED <<phase, live, sessions, todo, issued, faults, crashes, gone, overtaken, torn,
                     lastLive>>
  BY DEF PersistPoints, At, IInv
<1>1. c \in 1..issued /\ c \in Conns /\ p \in Profiles /\ c \notin acked
  BY <1>0 DEF Typed, TypeOK, Placed, Owned, Busy, At
<1>2. Becomes(w, Idle) /\ Idle.pc = "idle" /\ Idle.old = Nobody
  BY <1>0, FrameSet, IdleFrame
<1>3. /\ store' \in Rows /\ store'.rows = store.rows /\ store'.device = store.device
      /\ store'.points = store.points \cup {p} /\ durable' = store'
  <2>1. store \in Rows
    BY <1>0 DEF Typed, TypeOK
  <2>2. store' = [store EXCEPT !.points = @ \cup {p}] /\ durable' = store'
    BY DEF PersistPoints, Commit
  <2> QED
    BY <1>1, <2>1, <2>2 DEF Rows
<1>4. Placed'
  BY <1>0, <1>2, PlacedMoves, WhereAmI DEF Pcs
<1>5. Lined'
  BY <1>0, <1>2, LineLeft DEF Locking
<1>6. frame'[w] = Idle /\ \A x \in Workers \ {w} : frame'[x] = frame[x]
  BY <1>2 DEF Becomes
<1>7. /\ w = Engine => acked' = acked /\ targets' = targets
      /\ w # Engine => /\ acked' = acked \cup ({c} \ overtaken)
                       /\ targets' = [targets EXCEPT ![p] = c]
  BY DEF PersistPoints
<1>8. /\ acked' \subseteq acked \cup ({c} \ overtaken) /\ acked' \subseteq 1..issued
      /\ w = Engine => acked' = acked
  BY <1>0, <1>1, <1>7 DEF Typed
<1>a. /\ \A q \in Profiles : targets'[q] = targets[q] \/ (w \in Handlers /\ targets'[q] = c)
      /\ targets' \in [Profiles -> Conns \cup {Nobody}]
  BY <1>0, <1>1, <1>7 DEF Typed, TypeOK
<1>9. \A x \in Workers : /\ Busy(x)' => Busy(x) /\ x # w /\ frame'[x] = frame[x]
                         /\ Ending(x)' => Ending(x) /\ frame'[x] = frame[x]
                         /\ At(x, "saving")' => At(x, "saving") /\ frame'[x] = frame[x]
                         /\ At(x, "closing")' => At(x, "closing") /\ frame'[x] = frame[x]
                         /\ At(x, "dropping")' => At(x, "dropping") /\ frame'[x] = frame[x]
  BY <1>0, <1>2, <1>6 DEF Busy, Ending, At
<1>10. Owned'
  <2>1. \A x \in Workers : Busy(x)' \/ Ending(x)' => frame'[x].conn \notin acked'
    <3> SUFFICES ASSUME NEW x \in Workers, Busy(x)' \/ Ending(x)', frame'[x].conn \in acked'
                 PROVE  FALSE
      OBVIOUS
    <3>1. frame'[x] = frame[x] /\ frame[x].conn \notin acked
      BY <1>0, <1>9 DEF Owned
    <3>2. frame[x].conn = c /\ c \notin overtaken /\ w # Engine
      BY <1>8, <3>1
    <3>3. CASE Busy(x)'
      BY <1>0, <1>9, <3>2, <3>3 DEF Owned, Busy
    <3>4. CASE Ending(x)'
      BY <1>0, <1>9, <3>2, <3>4 DEF Owned, Busy
    <3> QED
      BY <3>3, <3>4
  <2>2. frame'[Engine].old \notin acked'
    <3>1. frame'[Engine].old = Nobody
      <4>1. CASE w = Engine
        BY <1>2, <1>6, <4>1
      <4>2. CASE w # Engine
        BY <1>0, <1>6, <4>2, IdleFrame, WhereAmI DEF Placed
      <4> QED
        BY <4>1, <4>2
    <3>2. CASE w = Engine
      BY <1>8, <3>1 DEF Typed
    <3> QED
      BY <1>8, <3>1
  <2> QED
    BY <1>0, <1>9, <2>1, <2>2 DEF Owned
<1>11. Polled'
  <2>1. \A x \in Handlers : Busy(x)' => frame'[x].conn \in live' \cup overtaken'
    BY <1>0, <1>9 DEF Polled
  <2>2. ASSUME NEW x \in Handlers, At(x, "closing")', NEW q \in Profiles,
               targets'[q] = frame'[x].conn
        PROVE  frame'[x].conn \in overtaken'
    <3>1. At(x, "closing") /\ frame'[x] = frame[x]
      BY <1>9, <2>2
    <3>2. CASE targets'[q] = targets[q]
      BY <1>0, <2>2, <3>1, <3>2 DEF Polled
    <3>3. CASE w \in Handlers /\ targets'[q] = c
      BY <1>0, <2>2, <3>1, <3>3 DEF Owned, Busy, Ending, At
    <3> QED
      BY <1>a, <3>2, <3>3
  <2>3. phase' \in {"down", "starting"} => \A q \in Profiles : targets'[q] = Nobody
    BY <1>0, <1>7, WhereAmI DEF Polled
  <2>4. StaleTargetsWereOvertaken'
    <3> SUFFICES ASSUME phase = "up", NEW q \in Profiles
                 PROVE  targets'[q] \in live \cup overtaken \cup {Nobody}
      BY <1>0 DEF StaleTargetsWereOvertaken
    <3>1. CASE targets'[q] = targets[q]
      BY <1>0, <3>1 DEF Polled, StaleTargetsWereOvertaken
    <3>2. CASE w \in Handlers /\ targets'[q] = c
      BY <1>0, <3>2 DEF Polled, Busy
    <3> QED
      BY <1>a, <3>1, <3>2
  <2> QED
    BY <2>1, <2>2, <2>3, <2>4 DEF Polled
<1>12. Recorded'
  <2>1. \A x \in Workers : ~At(x, "points")'
    BY <1>0, <1>2, <1>6, HolderAlone DEF At
  <2>2. \A q \in Profiles \ torn : store'.device[q] # Nobody => q \in store'.points
    <3> SUFFICES ASSUME NEW q \in Profiles \ torn, store'.device[q] # Nobody, q \notin store.points
                 PROVE  q = p
      BY <1>3
    <3>1. PICK x \in Workers : At(x, "points") /\ frame[x].profile = q
      BY <1>0, <1>3 DEF Recorded
    <3> QED
      BY <1>0, <3>1, HolderAlone
  <2>3. ASSUME NEW d \in acked'
        PROVE  /\ store'.rows[d].status = "commissioned"
               /\ store'.rows[d].profile \in store'.points
               /\ store'.device[store'.rows[d].profile] # Nobody
    <3>1. CASE d \in acked
      BY <1>0, <1>3, <3>1 DEF Recorded, Sound
    <3>2. CASE d \notin acked
      <4>1. d = c /\ c \notin overtaken /\ w \in Handlers
        BY <1>7, <2>3, <3>2
      <4>2. /\ store.rows[c].status = "commissioned" /\ store.rows[c].profile = p
            /\ store.device[p] # Nobody
        BY <1>0, <4>1 DEF Recorded, At
      <4> QED
        BY <1>3, <4>1, <4>2
    <3> QED
      BY <3>1, <3>2
  <2>4. Sound(store)'
    BY <1>0, <1>3, <2>3 DEF Recorded, Sound
  <2>5. Sound(durable)'
    BY <1>3, <2>4 DEF Sound
  <2>6. \A x \in Handlers :
          (frame'[x].pc \in {"inventory", "devices", "points"} /\ frame'[x].conn \notin overtaken)
          => /\ store'.rows[frame'[x].conn].status = "commissioned"
             /\ store'.rows[frame'[x].conn].profile = frame'[x].profile
    BY <1>0, <1>2, <1>3, <1>6 DEF Recorded
  <2>7. WholeInventory'
    BY <1>0, <1>3, <2>2 DEF WholeInventory
  <2>8. phase = "starting" => \A d \in todo : store'.rows[d].profile \in Profiles
    BY <1>0, <1>3 DEF Recorded
  <2> QED
    BY <1>0, <2>1, <2>2, <2>4, <2>5, <2>6, <2>7, <2>8 DEF Recorded
<1>13. Typed'
  BY <1>0, <1>2, <1>3, <1>5, <1>8, <1>a DEF Typed, TypeOK, Becomes, Lined
<1> QED
  BY <1>4, <1>5, <1>10, <1>11, <1>12, <1>13 DEF IInv

---------------------------------------------------------------------------
(* Disconnecting.                                                          *)

\* A teardown moves its worker to closing, if the registry knows the connection.
LEMMA TeardownStarts ==
    ASSUME Typed, NEW w \in Workers, frame[w].pc = "idle", NEW c \in 1..issued, StartTeardown(w, c)
    PROVE  \E f : /\ Becomes(w, f) /\ sessions' \subseteq sessions
                  /\ f = frame[w] \/ (f.pc = "closing" /\ f.conn = c /\ f.old = Nobody /\ c \in live)
<1>1. c \in Conns /\ frame \in [Workers -> Frame] /\ frame[w] \in Frame
  BY DEF Typed, TypeOK
<1>2. CASE c \in live
  <2> DEFINE f == [Idle EXCEPT !.pc = "closing", !.conn = c]
  <2>1. f \in Frame /\ f.pc = "closing" /\ f.conn = c /\ f.old = Nobody
    BY <1>1 DEF Idle, Frame
  <2>2. frame' = [frame EXCEPT ![w] = f] /\ sessions' = sessions \ {c}
    BY <1>2 DEF StartTeardown
  <2>3. Becomes(w, f)
    BY <2>1, <2>2, FrameSet
  <2> QED
    BY <1>2, <2>1, <2>2, <2>3
<1>3. CASE c \notin live
  <2>1. frame' = frame /\ sessions' = sessions
    BY <1>3 DEF StartTeardown
  <2>2. Becomes(w, frame[w])
    BY <1>1, <2>1 DEF Becomes
  <2> QED
    BY <2>1, <2>2
<1> QED
  BY <1>2, <1>3

LEMMA DisconnectStep ==
    ASSUME IInv, NEW w \in Workers, NEW c \in Conns, Disconnect(w, c) PROVE IInv'
<1>0. /\ Typed /\ Placed /\ Lined /\ Owned /\ Polled /\ Recorded
      /\ phase = "up" /\ w \in Handlers /\ frame[w].pc = "idle" /\ c \in 1..issued
      /\ targets' = Untargeted(c) /\ StartTeardown(w, c) /\ acked' = acked \ {c}
      /\ overtaken' = IF c \in Connecting THEN overtaken \cup {c} ELSE overtaken
      /\ UNCHANGED <<phase, live, store, durable, writers, todo, issued, faults, crashes, gone,
                     torn, lastLive>>
  BY DEF Disconnect, At, IInv, Typed, TypeOK
<1>1. PICK f : /\ Becomes(w, f) /\ sessions' \subseteq sessions
               /\ f = frame[w] \/ (f.pc = "closing" /\ f.conn = c /\ f.old = Nobody /\ c \in live)
  BY <1>0, TeardownStarts
<1>2. frame'[w] = f /\ \A x \in Workers \ {w} : frame'[x] = frame[x]
  BY <1>1 DEF Becomes
<1>3. f.pc \in {"idle", "closing"} /\ (f.pc = "closing" => f.conn = c)
  BY <1>0, <1>1
<1>4. \A x \in Workers : /\ Busy(x)' => Busy(x) /\ frame'[x] = frame[x]
                         /\ At(x, "saving")' => At(x, "saving") /\ frame'[x] = frame[x]
                         /\ At(x, "dropping")' => At(x, "dropping") /\ frame'[x] = frame[x]
                         /\ Ending(x)' => \/ Ending(x) /\ frame'[x] = frame[x] /\ x # w
                                          \/ x = w /\ frame'[x].conn = c
  BY <1>0, <1>2, <1>3 DEF Busy, Ending, At
<1>5. overtaken \subseteq overtaken' /\ overtaken' \subseteq overtaken \cup {c}
  BY <1>0
<1>6. Placed'
  <2>1. w # Engine
    BY <1>0
  <2>2. /\ \A x \in Handlers : /\ frame'[x].pc \in Pcs \ {"refused", "marking"}
                               /\ frame'[x].pc # "idle" => phase' = "up"
    BY <1>0, <1>2, <1>3 DEF Placed, Pcs
  <2>3. \A x \in Workers :
          /\ Busy(x)' \/ Ending(x)' => frame'[x].conn \in 1..issued'
          /\ Busy(x)' \/ frame'[x].pc \in {"commissioning", "refused", "marking"}
                => frame'[x].profile \in Profiles
    BY <1>0, <1>2, <1>3 DEF Placed, Busy, Ending
  <2>4. frame'[Engine] = frame[Engine]
    BY <1>2, <2>1
  <2> QED
    BY <1>0, <2>2, <2>3, <2>4 DEF Placed, Ending
<1>7. Lined'
  BY <1>0, <1>1, <1>3, LineUntouched DEF Locking
<1>8. Owned'
  <2>1. ASSUME NEW x \in Handlers, NEW y \in Workers, Busy(x)', Ending(y)',
               frame'[x].conn = frame'[y].conn
        PROVE  frame'[x].conn \in overtaken'
    <3>1. Busy(x) /\ frame'[x] = frame[x]
      BY <1>4, <2>1
    <3>2. CASE Ending(y) /\ frame'[y] = frame[y]
      BY <1>0, <1>5, <2>1, <3>1, <3>2 DEF Owned
    <3>3. CASE y = w /\ frame'[y].conn = c
      BY <1>0, <2>1, <3>1, <3>3 DEF Connecting, Busy
    <3> QED
      BY <1>4, <2>1, <3>2, <3>3
  <2>2. \A x \in Workers : Busy(x)' \/ Ending(x)' => frame'[x].conn \notin acked'
    BY <1>0, <1>4 DEF Owned
  <2>3. frame'[Engine] = frame[Engine]
    BY <1>0, <1>2
  <2> QED
    BY <1>0, <1>4, <2>1, <2>2, <2>3 DEF Owned
<1>9. \A p \in Profiles : targets'[p] # c /\ targets'[p] \in {targets[p], Nobody}
  BY <1>0 DEF Untargeted
<1>10. Polled'
  <2>1. \A x \in Handlers : Busy(x)' => frame'[x].conn \in live \cup overtaken'
    BY <1>0, <1>4, <1>5 DEF Polled
  <2>2. ASSUME NEW x \in Handlers, At(x, "closing")', NEW p \in Profiles,
               targets'[p] = frame'[x].conn
        PROVE  frame'[x].conn \in overtaken'
    <3>1. Ending(x)'
      BY <2>2 DEF Ending, At
    <3>2. Ending(x) /\ frame'[x] = frame[x]
      BY <1>4, <1>9, <2>2, <3>1
    <3>3. frame[x].conn \in 1..issued
      BY <1>0, <3>2 DEF Placed
    <3>4. targets[p] = frame[x].conn /\ At(x, "closing")
      BY <1>9, <2>2, <3>2, <3>3 DEF At
    <3> QED
      BY <1>0, <1>5, <3>2, <3>4 DEF Polled
  <2>3. StaleTargetsWereOvertaken'
    BY <1>0, <1>5, <1>9 DEF Polled, StaleTargetsWereOvertaken
  <2> QED
    BY <1>0, <2>1, <2>2, <2>3 DEF Polled
<1>11. Recorded'
  <2>1. Sound(store)' /\ Sound(durable)' /\ WholeInventory'
    BY <1>0 DEF Recorded, Sound, WholeInventory
  <2>2. \A x \in Handlers :
          (frame'[x].pc \in {"inventory", "devices", "points"} /\ frame'[x].conn \notin overtaken')
          => /\ store.rows[frame'[x].conn].status = "commissioned"
             /\ store.rows[frame'[x].conn].profile = frame'[x].profile
    BY <1>0, <1>2, <1>3, <1>5 DEF Recorded
  <2>3. \A x \in Workers : /\ At(x, "points")' <=> At(x, "points")
                           /\ At(x, "points") => frame'[x] = frame[x]
    BY <1>0, <1>2, <1>3 DEF At
  <2>4. \A p \in Profiles \ torn : store.device[p] # Nobody =>
          p \in store.points \/ \E x \in Workers : At(x, "points")' /\ frame'[x].profile = p
    BY <1>0, <2>3 DEF Recorded
  <2> QED
    BY <1>0, <2>1, <2>2, <2>3, <2>4 DEF Recorded
<1>12. Typed'
  <2>1. targets' \in [Profiles -> Conns \cup {Nobody}]
    BY <1>0 DEF Untargeted, Typed, TypeOK
  <2>2. c \in Conns /\ overtaken' \subseteq Conns /\ overtaken' \subseteq 1..issued
    BY <1>0, <1>5 DEF Typed, TypeOK
  <2> QED
    BY <1>0, <1>1, <2>1, <2>2 DEF Typed, TypeOK, Becomes
<1> QED
  BY <1>6, <1>7, <1>8, <1>10, <1>11, <1>12 DEF IInv

LEMMA ClosedStep == ASSUME IInv, NEW w \in Workers, Closed(w) PROVE IInv'
<1> DEFINE f == Moved(w, "dropping")
           c == frame[w].conn
<1>0. /\ Typed /\ Placed /\ Lined /\ Owned /\ Polled /\ Recorded
      /\ frame[w].pc = "closing" /\ live' = live \ {c} /\ Goto(w, "dropping") /\ Queue(w)
      /\ UNCHANGED <<phase, sessions, targets, store, durable, todo, issued, faults, crashes,
                     acked, gone, overtaken, torn, lastLive>>
  BY DEF Closed, At, history, IInv
<1>1. /\ Becomes(w, f) /\ f.pc = "dropping" /\ f.conn = c
      /\ f.profile = frame[w].profile /\ f.old = frame[w].old
  BY <1>0, WentTo DEF Pcs
<1> HIDE DEF f
<1>2. frame'[w] = f /\ \A x \in Workers \ {w} : frame'[x] = frame[x]
  BY <1>1 DEF Becomes
<1>3. c \in 1..issued /\ Ending(w) /\ At(w, "closing") /\ c \notin acked
  BY <1>0 DEF Placed, Owned, Ending, At
<1>4. Placed'
  BY <1>0, <1>1, <1>3, PlacedMoves, WhereAmI DEF Pcs
<1>5. Lined'
  BY <1>0, <1>1, LineJoined DEF Locking
<1>6. \A x \in Workers : /\ Busy(x)' => Busy(x) /\ frame'[x] = frame[x]
                         /\ At(x, "saving")' => At(x, "saving") /\ frame'[x] = frame[x]
                         /\ At(x, "closing")' => At(x, "closing") /\ frame'[x] = frame[x]
                         /\ At(x, "dropping")' => \/ At(x, "dropping") /\ frame'[x] = frame[x]
                                                  \/ x = w /\ frame'[x].conn = c
                         /\ Ending(x)' => Ending(x) /\ frame'[x].conn = frame[x].conn
  BY <1>0, <1>1, <1>2 DEF Busy, Ending, At
<1>7. Owned'
  <2>1. frame'[Engine].old \notin acked
    BY <1>0, <1>1, <1>2 DEF Owned
  <2>2. \A x \in Workers : At(x, "dropping")' => frame'[x].conn \notin live'
    BY <1>0, <1>6 DEF Owned
  <2> QED
    BY <1>0, <1>6, <2>1, <2>2 DEF Owned
<1>8. Polled'
  <2>1. ASSUME NEW x \in Handlers, Busy(x)', frame'[x].conn \notin overtaken
        PROVE  frame'[x].conn \in live'
    <3>1. Busy(x) /\ frame'[x] = frame[x] /\ frame[x].conn \in live
      BY <1>0, <1>6, <2>1 DEF Polled
    <3>2. frame[x].conn # c
      BY <1>0, <1>3, <2>1, <3>1 DEF Owned
    <3> QED
      BY <1>0, <3>1, <3>2
  <2>2. \A x \in Handlers : At(x, "closing")' =>
          \A p \in Profiles : targets[p] = frame'[x].conn => frame'[x].conn \in overtaken
    BY <1>0, <1>6 DEF Polled
  <2>3. ASSUME phase = "up", NEW p \in Profiles
        PROVE  targets[p] \in live' \cup overtaken \cup {Nobody}
    <3>1. targets[p] \in live \cup overtaken \cup {Nobody}
      BY <1>0, <2>3 DEF Polled, StaleTargetsWereOvertaken
    <3>2. w \in Handlers
      BY <1>0, <2>3, WhereAmI
    <3>3. targets[p] = c => c \in overtaken
      BY <1>0, <1>3, <3>2 DEF Polled
    <3> QED
      BY <1>0, <3>1, <3>3
  <2>4. StaleTargetsWereOvertaken'
    BY <1>0, <2>3 DEF StaleTargetsWereOvertaken
  <2> QED
    BY <1>0, <2>1, <2>2, <2>4 DEF Polled
<1>9. Recorded'
  <2>1. Sound(store)' /\ Sound(durable)' /\ WholeInventory'
    BY <1>0 DEF Recorded, Sound, WholeInventory
  <2>2. \A x \in Handlers :
          (frame'[x].pc \in {"inventory", "devices", "points"} /\ frame'[x].conn \notin overtaken)
          => /\ store.rows[frame'[x].conn].status = "commissioned"
             /\ store.rows[frame'[x].conn].profile = frame'[x].profile
    BY <1>0, <1>1, <1>2 DEF Recorded
  <2>3. \A x \in Workers : /\ At(x, "points")' <=> At(x, "points")
                           /\ At(x, "points") => frame'[x] = frame[x]
    BY <1>0, <1>1, <1>2 DEF At
  <2>4. \A p \in Profiles \ torn : store.device[p] # Nobody =>
          p \in store.points \/ \E x \in Workers : At(x, "points")' /\ frame'[x].profile = p
    BY <1>0, <2>3 DEF Recorded
  <2> QED
    BY <1>0, <2>1, <2>2, <2>3, <2>4 DEF Recorded
<1>10. Typed'
  BY <1>0, <1>1, <1>5 DEF Typed, TypeOK, Becomes, Lined
<1> QED
  BY <1>4, <1>5, <1>7, <1>8, <1>9, <1>10 DEF IInv

\* A row is marked disconnected that no client counts on, and that no handler is
\* still connecting; the worker is done.
LEMMA RowMarked ==
    ASSUME IInv, NEW w \in Workers, NEW c \in Conns \cup {Nobody}, NEW p \in Profiles \cup {"none"},
           frame[w].pc \in Locking \ {"points"}, Holds(w), Unlock,
           frame' = [frame EXCEPT ![w] = Idle],
           Commit(WithRow(store, c, p, "disconnected")),
           c \notin acked, c \in overtaken \/ \A x \in Handlers : Busy(x) => frame[x].conn # c,
           p \in Profiles \/ phase # "starting",
           gone' \subseteq gone \cup {c}, gone' \subseteq 1..issued, c \in gone' => c \notin live,
           \A x \in Workers : At(x, "saving") => frame[x].conn \notin gone',
           UNCHANGED <<phase, live, sessions, targets, todo, issued, faults, crashes, acked,
                       overtaken, torn, lastLive>>
    PROVE  IInv'
<1> DEFINE s == WithRow(store, c, p, "disconnected")
<1>0. Typed /\ Placed /\ Lined /\ Owned /\ Polled /\ Recorded
  BY DEF IInv
<1>1. /\ s \in Rows /\ s.device = store.device /\ s.points = store.points
      /\ \A d \in Conns : d # c => s.rows[d] = store.rows[d]
      /\ c \in Conns => s.rows[c].status = "disconnected" /\ s.rows[c].profile = p
  BY <1>0, RowSet DEF Typed, TypeOK
<1>2. Commit(s)
  OBVIOUS
<1> HIDE DEF s
<1>3. store' = s /\ durable' = s
  BY <1>2 DEF Commit
<1>4. Becomes(w, Idle) /\ Idle.pc = "idle" /\ Idle.old = Nobody
  BY <1>0, FrameSet, IdleFrame
<1>5. frame'[w] = Idle /\ \A x \in Workers \ {w} : frame'[x] = frame[x]
  BY <1>4 DEF Becomes
<1>6. Placed'
  BY <1>0, <1>4, PlacedMoves, WhereAmI DEF Pcs, Locking
<1>7. Lined'
  BY <1>0, <1>4, LineLeft DEF Locking
<1>8. \A x \in Workers : /\ Busy(x)' => Busy(x) /\ frame'[x] = frame[x] /\ x # w
                         /\ Ending(x)' => Ending(x) /\ frame'[x] = frame[x]
                         /\ At(x, "saving")' => At(x, "saving") /\ frame'[x] = frame[x]
                         /\ At(x, "closing")' => At(x, "closing") /\ frame'[x] = frame[x]
                         /\ At(x, "dropping")' => At(x, "dropping") /\ frame'[x] = frame[x]
  BY <1>4, <1>5 DEF Busy, Ending, At
<1>9. Owned'
  <2>1. frame'[Engine].old \notin acked
    BY <1>0, <1>4, <1>5 DEF Owned, Typed
  <2>2. \A d \in gone' : d \notin live
    BY <1>0 DEF Owned
  <2> QED
    BY <1>0, <1>8, <2>1, <2>2 DEF Owned
<1>10. Polled'
  BY <1>0, <1>8 DEF Polled, StaleTargetsWereOvertaken
<1>11. Recorded'
  <2>0. \A x \in Workers : ~At(x, "points")'
    BY <1>0, <1>4, <1>5, HolderAlone DEF At
  <2>1. acked \subseteq Conns /\ gone' \subseteq Conns /\ todo \subseteq Conns
    BY <1>0 DEF Typed, TypeOK
  <2>2. /\ \A d \in acked :
              /\ s.rows[d].status = "commissioned"
              /\ s.rows[d].profile \in s.points /\ s.device[s.rows[d].profile] # Nobody
        /\ \A d \in gone' : s.rows[d].status = "disconnected"
        /\ \A d \in Conns : s.rows[d].status = "commissioned" => s.rows[d].profile \in Profiles
    <3>1. ASSUME NEW d \in gone' PROVE s.rows[d].status = "disconnected"
      <4>1. d \in Conns /\ (d \in gone \/ d = c)
        BY <2>1
      <4>2. d \in gone => store.rows[d].status = "disconnected"
        BY <1>0 DEF Recorded, Sound
      <4> QED
        BY <1>1, <4>1, <4>2
    <3>2. \A d \in acked : s.rows[d] = store.rows[d]
      BY <1>1, <2>1
    <3>3. \A d \in Conns : s.rows[d].status = "commissioned" => s.rows[d] = store.rows[d]
      BY <1>1
    <3> QED
      BY <1>0, <1>1, <3>1, <3>2, <3>3 DEF Recorded, Sound
  <2>3. Sound(store)' /\ Sound(durable)'
    BY <1>3, <2>2 DEF Sound
  <2>4. ASSUME NEW x \in Handlers, frame'[x].pc \in {"inventory", "devices", "points"},
               frame'[x].conn \notin overtaken
        PROVE  /\ s.rows[frame'[x].conn].status = "commissioned"
               /\ s.rows[frame'[x].conn].profile = frame'[x].profile
    <3>1. Busy(x) /\ frame'[x] = frame[x]
      BY <1>8, <2>4 DEF Busy
    <3>2. frame[x].conn # c /\ frame[x].conn \in Conns
      BY <1>0, <2>4, <3>1 DEF Placed, Typed, TypeOK
    <3> QED
      BY <1>0, <1>1, <2>4, <3>1, <3>2 DEF Recorded
  <2>5. \A x \in Workers : ~At(x, "points")
    BY <1>0, HolderAlone DEF At
  <2>6. /\ WholeInventory'
        /\ \A q \in Profiles \ torn' : store'.device[q] # Nobody => q \in store'.points
    BY <1>0, <1>1, <1>2, <1>3, <2>5, WholeCommit
  <2>7. phase = "starting" => \A d \in todo : s.rows[d].profile \in Profiles
    BY <1>0, <1>1, <2>1 DEF Recorded
  <2> QED
    BY <1>0, <1>3, <2>0, <2>3, <2>4, <2>6, <2>7 DEF Recorded
<1>12. Typed'
  BY <1>0, <1>1, <1>3, <1>4, <1>7 DEF Typed, TypeOK, Becomes, Lined
<1> QED
  BY <1>6, <1>7, <1>9, <1>10, <1>11, <1>12 DEF IInv

\* A teardown's row is saved after the row it undoes.
LEMMA SaveDisconnectedStep == ASSUME IInv, NEW w \in Workers, SaveDisconnected(w) PROVE IInv'
<1>0. /\ Typed /\ Placed /\ Lined /\ Owned /\ Polled /\ Recorded
      /\ At(w, "dropping") /\ frame[w].pc = "dropping" /\ Holds(w) /\ Unlock
      /\ Commit(WithRow(store, frame[w].conn, "none", "disconnected"))
      /\ frame' = [frame EXCEPT ![w] = Idle]
      /\ gone' = IF w = Engine THEN gone ELSE gone \cup {frame[w].conn}
      /\ UNCHANGED <<phase, live, sessions, targets, todo, issued, faults, crashes, acked,
                     overtaken, torn, lastLive>>
  BY DEF SaveDisconnected, At, IInv
<1> DEFINE c == frame[w].conn
<1>1. /\ Ending(w) /\ c \in 1..issued /\ c \in Conns \cup {Nobody} /\ c \notin acked
      /\ c \notin live
  BY <1>0 DEF Ending, Placed, Owned, Typed, TypeOK
<1>2. ASSUME c \notin overtaken, NEW x \in Handlers, Busy(x) PROVE frame[x].conn # c
  BY <1>0, <1>1, <1>2 DEF Owned
<1>3. phase # "starting"
  BY <1>0, <1>1, WhereAmI
<1>4. \A x \in Workers : At(x, "saving") => frame[x].conn \notin gone'
  BY <1>0, SavedFirst DEF Owned
<1>5. gone' \subseteq gone \cup {c} /\ gone' \subseteq 1..issued
  BY <1>0, <1>1 DEF Typed
<1>6. frame[w].pc \in Locking \ {"points"}
  BY <1>0 DEF Locking
<1> HIDE DEF c
<1>7. Commit(WithRow(store, c, "none", "disconnected"))
  BY <1>0 DEF c
<1> QED
  BY <1>0, <1>1, <1>2, <1>3, <1>4, <1>5, <1>6, <1>7, RowMarked

---------------------------------------------------------------------------
(* The engine, stops and crashes.                                          *)

LEMMA MarkDisconnectedStep == ASSUME IInv, MarkDisconnected PROVE IInv'
<1> DEFINE c == frame[Engine].old
           p == frame[Engine].profile
<1>0. /\ Typed /\ Placed /\ Lined /\ Owned /\ Polled /\ Recorded
      /\ frame[Engine].pc \in {"refused", "marking"} /\ Holds(Engine) /\ Unlock
      /\ Commit(WithRow(store, c, p, "disconnected"))
      /\ frame' = [frame EXCEPT ![Engine] = Idle]
      /\ UNCHANGED <<phase, live, sessions, targets, todo, issued, faults, crashes, acked, gone,
                     overtaken, torn, lastLive>>
  BY DEF MarkDisconnected, history, IInv
<1>1. /\ Engine \in Workers /\ c \in Conns \cup {Nobody} /\ p \in Profiles /\ c \notin acked
  BY <1>0 DEF Typed, TypeOK, Frame, Placed, Owned
<1>2. \A x \in Handlers : ~Busy(x)
  BY <1>0, <1>1, WhereAmI DEF Busy
<1>3. \A x \in Workers : At(x, "saving") => frame[x].conn \notin gone'
  BY <1>0 DEF Owned
<1>4. \A d \in gone : d \notin live
  BY <1>0 DEF Owned
<1>5. frame[Engine].pc \in Locking \ {"points"}
  BY <1>0 DEF Locking
<1>6. p \in Profiles \cup {"none"} /\ gone' \subseteq gone \cup {c} /\ gone' \subseteq 1..issued
  BY <1>0, <1>1 DEF Typed
<1> QED
  BY <1>0, <1>1, <1>2, <1>3, <1>4, <1>5, <1>6, RowMarked

LEMMA RestoreNextStep == ASSUME IInv, RestoreNext PROVE IInv'
<1>0. /\ Typed /\ Placed /\ Lined /\ Owned /\ Polled /\ Recorded
      /\ phase = "starting" /\ frame[Engine].pc = "idle" /\ Engine \in Workers
      /\ UNCHANGED <<phase, live, sessions, targets, store, durable, issued, faults, crashes,
                     gone, overtaken, torn, lastLive>>
  BY DEF RestoreNext, At, IInv
<1>1. PICK c \in todo, pc \in {"commissioning", "marking"} :
        /\ frame' = [frame EXCEPT ![Engine] =
                        [Idle EXCEPT !.pc = pc, !.profile = store.rows[c].profile, !.old = c]]
        /\ pc = "commissioning" => writers' = writers
        /\ pc = "marking" => Queue(Engine)
        /\ acked' = acked \ {c} /\ todo' = todo \ {c}
  BY DEF RestoreNext
<1> DEFINE f == [Idle EXCEPT !.pc = pc, !.profile = store.rows[c].profile, !.old = c]
<1>2. /\ f \in Frame /\ f.pc = pc /\ f.conn = Nobody /\ f.old = c
      /\ f.profile = store.rows[c].profile /\ f.profile \in Profiles
  <2>1. c \in Conns /\ store.rows[c].profile \in Profiles
    BY <1>0 DEF Typed, TypeOK, Recorded
  <2> QED
    BY <2>1 DEF Idle, Frame
<1>3. Becomes(Engine, f)
  BY <1>0, <1>1, <1>2, FrameSet
<1> HIDE DEF f
<1>4. frame'[Engine] = f /\ \A x \in Workers \ {Engine} : frame'[x] = frame[x]
  BY <1>3 DEF Becomes
<1>5. Placed'
  BY <1>0, <1>2, <1>3, PlacedMoves
<1>6. Lined'
  <2>1. CASE pc = "commissioning"
    BY <1>0, <1>1, <1>2, <1>3, <2>1, LineUntouched DEF Locking
  <2>2. CASE pc = "marking"
    BY <1>0, <1>1, <1>2, <1>3, <2>2, LineJoined DEF Locking
  <2> QED
    BY <2>1, <2>2
<1>7. \A x \in Workers : /\ Busy(x)' => Busy(x) /\ frame'[x] = frame[x]
                         /\ Ending(x)' => Ending(x) /\ frame'[x] = frame[x]
                         /\ At(x, "saving")' => At(x, "saving") /\ frame'[x] = frame[x]
                         /\ At(x, "closing")' => At(x, "closing") /\ frame'[x] = frame[x]
                         /\ At(x, "dropping")' => At(x, "dropping") /\ frame'[x] = frame[x]
  BY <1>2, <1>4 DEF Busy, Ending, At
<1>8. Owned'
  <2>1. frame'[Engine].old \notin acked'
    BY <1>1, <1>2, <1>4
  <2>2. acked' \subseteq acked
    BY <1>1
  <2> QED
    BY <1>0, <1>7, <2>1, <2>2 DEF Owned
<1>9. Polled'
  BY <1>0, <1>7 DEF Polled, StaleTargetsWereOvertaken
<1>10. Recorded'
  <2>1. Sound(store)' /\ Sound(durable)' /\ WholeInventory'
    BY <1>0, <1>1 DEF Recorded, Sound, WholeInventory
  <2>2. \A x \in Handlers : frame'[x].pc = "idle"
    BY <1>0, <1>4 DEF Placed
  <2>3. \A x \in Workers : /\ At(x, "points")' <=> At(x, "points")
                           /\ At(x, "points") => frame'[x] = frame[x]
    BY <1>0, <1>2, <1>4 DEF At
  <2>4. \A p \in Profiles \ torn : store.device[p] # Nobody =>
          p \in store.points \/ \E x \in Workers : At(x, "points")' /\ frame'[x].profile = p
    BY <1>0, <2>3 DEF Recorded
  <2> QED
    BY <1>0, <1>1, <2>1, <2>2, <2>3, <2>4 DEF Recorded
<1>11. Typed'
  BY <1>0, <1>1, <1>3, <1>6 DEF Typed, TypeOK, Becomes, Lined
<1> QED
  BY <1>5, <1>6, <1>8, <1>9, <1>10, <1>11 DEF IInv

LEMMA TeardownNextStep == ASSUME IInv, TeardownNext PROVE IInv'
<1>0. /\ Typed /\ Placed /\ Lined /\ Owned /\ Polled /\ Recorded
      /\ phase = "stopping" /\ frame[Engine].pc = "idle" /\ Engine \in Workers
      /\ UNCHANGED <<phase, live, targets, store, durable, writers, issued, faults, crashes,
                     gone, overtaken, torn, lastLive>>
  BY DEF TeardownNext, At, IInv
<1>1. PICK c \in todo : /\ StartTeardown(Engine, c)
                       /\ acked' = acked \ {c} /\ todo' = todo \ {c}
  BY DEF TeardownNext
<1>2. c \in todo /\ frame[Engine] = Idle /\ live \subseteq 1..issued
  BY <1>0 DEF Placed, Typed
<1>3. \E f : /\ Becomes(Engine, f) /\ sessions' \subseteq sessions
             /\ f = Idle \/ (f.pc = "closing" /\ f.conn = c /\ f.old = Nobody /\ c \in live)
  <2>1. CASE c \in live
    <3>1. c \in 1..issued
      BY <1>2, <2>1
    <3> QED
      BY <1>0, <1>1, <1>2, <3>1, TeardownStarts
  <2>2. CASE c \notin live
    <3>1. frame' = frame /\ sessions' = sessions
      BY <1>1, <2>2 DEF StartTeardown
    <3> QED
      BY <1>0, <1>2, <3>1, IdleFrame DEF Becomes, Typed, TypeOK
  <2> QED
    BY <2>1, <2>2
<1>4. PICK f : /\ Becomes(Engine, f) /\ sessions' \subseteq sessions
               /\ f = Idle \/ (f.pc = "closing" /\ f.conn = c /\ f.old = Nobody /\ c \in live)
  BY <1>3
<1>5. /\ f.pc \in {"idle", "closing"} /\ (f.pc = "idle" => f = Idle) /\ f.old = Nobody
      /\ f.pc = "closing" => f.conn = c /\ f.conn \in 1..issued
  BY <1>2, <1>4, IdleFrame
<1>6. frame'[Engine] = f /\ \A x \in Workers \ {Engine} : frame'[x] = frame[x]
  BY <1>4 DEF Becomes
<1>7. Placed'
  BY <1>0, <1>4, <1>5, PlacedMoves
<1>8. Lined'
  BY <1>0, <1>4, <1>5, LineUntouched DEF Locking
<1>9. \A x \in Handlers : frame'[x].pc = "idle"
  BY <1>0, <1>6 DEF Placed
<1>10. Owned'
  <2>1. /\ \A x \in Workers : ~Busy(x)' /\ ~At(x, "saving")'
        /\ \A x \in Workers : Ending(x)' => frame'[x].conn = c
        /\ \A x \in Workers : ~At(x, "dropping")'
    BY <1>5, <1>6, <1>9 DEF Busy, Ending, At
  <2>2. frame'[Engine].old \notin acked' /\ acked' \subseteq acked /\ c \notin acked'
    BY <1>0, <1>1, <1>5, <1>6 DEF Typed
  <2> QED
    BY <1>0, <2>1, <2>2 DEF Owned
<1>11. Polled'
  BY <1>0, <1>9 DEF Polled, StaleTargetsWereOvertaken, Busy, At
<1>12. Recorded'
  <2>1. Sound(store)' /\ Sound(durable)' /\ WholeInventory'
    BY <1>0, <1>1 DEF Recorded, Sound, WholeInventory
  <2>2. \A x \in Workers : ~At(x, "points")' /\ ~At(x, "points")
    BY <1>0, <1>5, <1>6, <1>9 DEF At
  <2>3. \A p \in Profiles \ torn : store.device[p] # Nobody => p \in store.points
    BY <1>0, <2>2 DEF Recorded
  <2> QED
    BY <1>0, <1>9, <2>1, <2>2, <2>3 DEF Recorded
<1>13. Typed'
  BY <1>0, <1>1, <1>4 DEF Typed, TypeOK, Becomes
<1> QED
  BY <1>7, <1>8, <1>10, <1>11, <1>12, <1>13 DEF IInv

\* The phases follow one another while nobody is at work.
LEMMA PhaseStep == ASSUME IInv, Start \/ Started \/ Stop PROVE IInv'
<1>0. /\ Typed /\ Placed /\ Lined /\ Owned /\ Polled /\ Recorded
      /\ UNCHANGED <<live, sessions, targets, store, durable, writers, frame, issued, faults,
                     crashes, acked, gone, overtaken, torn>>
  BY DEF Start, Started, Stop, memory, history, IInv
<1>1. \A w \in Workers : frame[w].pc = "idle"
  BY <1>0 DEF Start, Started, Stop, Placed, At
<1>2. /\ phase' \in {"starting", "up", "stopping"}
      /\ phase' = "starting" => phase = "down"
      /\ phase' = "up" => \A p \in Profiles : targets[p] = Nobody
  BY <1>0 DEF Start, Started, Stop, Polled
<1>3. Placed'
  BY <1>0, <1>1, <1>2 DEF Placed, Ending, Busy
<1>4. Lined'
  BY <1>0 DEF Lined, At, Holds
<1>5. Owned'
  BY <1>0 DEF Owned, Busy, Ending, At
<1>6. Polled'
  BY <1>0, <1>1, <1>2 DEF Polled, Busy, At, StaleTargetsWereOvertaken
<1>7. todo' \subseteq Conns /\ lastLive' \subseteq Conns
  BY <1>0 DEF Start, Started, Stop, memory, history, Typed, TypeOK, CommissionedRows
<1>8. Recorded'
  <2>1. Sound(store)' /\ Sound(durable)' /\ WholeInventory'
    BY <1>0 DEF Recorded, Sound, WholeInventory
  <2>2. phase' = "starting" => \A c \in todo' : store.rows[c].profile \in Profiles
    BY <1>0, <1>2 DEF Start, Started, Stop, Recorded, Sound, CommissionedRows, Status
  <2> QED
    BY <1>0, <1>1, <2>1, <2>2 DEF Recorded, At
<1>9. Typed'
  BY <1>0, <1>2, <1>7 DEF Typed, TypeOK
<1> QED
  BY <1>3, <1>4, <1>5, <1>6, <1>8, <1>9 DEF IInv

\* What is left when the process ends is what was committed.
LEMMA ForgetStep == ASSUME IInv, Stopped \/ Crash PROVE IInv'
<1>0. /\ Typed /\ Placed /\ Lined /\ Owned /\ Polled /\ Recorded /\ Forget
      /\ UNCHANGED <<durable, issued, faults, acked, gone, overtaken, torn>>
  BY DEF Stopped, Crash, history, IInv
<1>1. /\ phase' = "down" /\ live' = {} /\ sessions' = {} /\ store' = durable /\ writers' = <<>>
      /\ targets' = [p \in Profiles |-> Nobody] /\ frame' = [w \in Workers |-> Idle] /\ todo' = {}
  BY <1>0 DEF Forget
<1>2. /\ \A w \in Workers : frame'[w] = Idle
      /\ Idle.pc = "idle" /\ Idle.conn = Nobody /\ Idle.old = Nobody
  BY <1>1, IdleFrame
<1>3. Placed'
  BY <1>1, <1>2 DEF Placed, Busy, Ending, Pcs
<1>4. Lined'
  <2>1. writers' \in Seq(Workers) /\ DOMAIN writers' = {} /\ Range(writers') = {}
    BY <1>1, EmptySeq DEF Range
  <2> QED
    BY <1>2, <2>1 DEF Lined, Distinct, At, Locking
<1>5. Owned'
  BY <1>0, <1>1, <1>2 DEF Owned, Busy, Ending, At, Typed
<1>6. Polled'
  BY <1>1, <1>2 DEF Polled, Busy, At, StaleTargetsWereOvertaken
<1>7. Recorded'
  <2>1. Sound(store)' /\ Sound(durable)' /\ WholeInventory'
    BY <1>0, <1>1 DEF Recorded, Sound, WholeInventory
  <2>2. \A p \in Profiles \ torn' : store'.device[p] # Nobody => p \in store'.points
    BY <1>0, <1>1 DEF Recorded, WholeInventory
  <2> QED
    BY <1>1, <1>2, <2>1, <2>2 DEF Recorded, At
<1>8. lastLive' \subseteq Conns /\ crashes' \in 0..MaxCrashes
  <2>1. lastLive \subseteq Conns /\ crashes \in 0..MaxCrashes /\ live \subseteq Conns
    BY <1>0 DEF Typed, TypeOK
  <2>2. Active \subseteq Conns
    <3>1. \A w \in Workers : At(w, "dropping") => frame[w].conn \in Conns
      BY <1>0 DEF Placed, Ending, At, Typed, TypeOK
    <3> QED
      BY <2>1, <3>1 DEF Active
  <2>3. CASE Stopped
    BY <2>1, <2>3 DEF Stopped, history
  <2>4. CASE Crash
    <3>1. /\ lastLive' = IF phase = "up" THEN Active ELSE lastLive \cup Active
          /\ crashes < MaxCrashes /\ crashes' = crashes + 1
      BY <2>4 DEF Crash
    <3> QED
      BY <2>1, <2>2, <3>1
  <2> QED
    BY <2>3, <2>4
<1>9. Typed'
  BY <1>0, <1>1, <1>4, <1>8, IdleFrame DEF Typed, TypeOK, Lined
<1> QED
  BY <1>3, <1>4, <1>5, <1>6, <1>7, <1>9 DEF IInv

---------------------------------------------------------------------------
(* The invariant.                                                          *)

LEMMA InitIInv == Init => IInv
<1> SUFFICES ASSUME Init PROVE IInv
  OBVIOUS
<1>1. /\ phase = "down" /\ live = {} /\ sessions = {} /\ writers = <<>> /\ todo = {}
      /\ targets = [p \in Profiles |-> Nobody] /\ frame = [w \in Workers |-> Idle]
      /\ issued = 0 /\ faults = 0 /\ crashes = 0 /\ durable = store
      /\ acked = {} /\ gone = {} /\ overtaken = {} /\ torn = {} /\ lastLive = {}
  BY DEF Init
<1>2. /\ \A w \in Workers : frame[w] = Idle
      /\ Idle.pc = "idle" /\ Idle.conn = Nobody /\ Idle.old = Nobody
  BY <1>1, IdleFrame
<1>3. /\ store \in Rows /\ \A c \in Conns : store.rows[c].status = "none"
      /\ \A p \in Profiles : store.device[p] = Nobody
  BY DEF Init, Rows, Row, NoRow
<1>4. writers \in Seq(Workers) /\ DOMAIN writers = {} /\ Range(writers) = {}
  BY <1>1, EmptySeq DEF Range
<1>5. Typed
  BY <1>1, <1>3, <1>4, IdleFrame DEF Typed, TypeOK
<1>6. Placed
  BY <1>1, <1>2 DEF Placed, Busy, Ending, Pcs
<1>7. Lined
  BY <1>2, <1>4 DEF Lined, Distinct, At, Locking
<1>8. Owned
  BY <1>1, <1>2 DEF Owned, Busy, Ending, At
<1>9. Polled
  BY <1>1, <1>2 DEF Polled, Busy, At, StaleTargetsWereOvertaken
<1>10. Recorded
  BY <1>1, <1>2, <1>3 DEF Recorded, Sound, At, WholeInventory
<1> QED
  BY <1>5, <1>6, <1>7, <1>8, <1>9, <1>10 DEF IInv

LEMMA StutterStep == ASSUME IInv, UNCHANGED vars PROVE IInv'
<1>1. /\ UNCHANGED <<phase, live, sessions, targets, store, durable, writers, frame, todo, issued,
                     faults, crashes, acked, gone, overtaken, torn, lastLive>>
  BY DEF vars, memory, history
<1>2. Typed' /\ Placed' /\ Owned' /\ Polled'
  BY <1>1 DEF IInv, Typed, TypeOK, Placed, Owned, Polled, Busy, Ending, At,
              StaleTargetsWereOvertaken
<1>3. Lined'
  BY <1>1 DEF IInv, Lined, Holds, At
<1>4. Recorded'
  BY <1>1 DEF IInv, Recorded, Sound, WholeInventory, At
<1> QED
  BY <1>2, <1>3, <1>4 DEF IInv

LEMMA NextIInv == IInv /\ [Next]_vars => IInv'
<1> SUFFICES ASSUME IInv, [Next]_vars PROVE IInv'
  OBVIOUS
<1>1. ASSUME NEW w \in Workers, Api(w) PROVE IInv'
  BY <1>1, ConnectStep, DisconnectStep DEF Api
<1>2. ASSUME NEW w \in Workers, Work(w) PROVE IInv'
  BY <1>2, CommissionedStep, NotCommissionedStep, SaveCommissionedStep, InventoryStep,
     PersistDevicesStep, PersistPointsStep, ClosedStep, CloseFailsStep, SaveDisconnectedStep,
     WriteFailsStep DEF Work
<1>3. CASE Runtime
  BY <1>3, PhaseStep, RestoreNextStep, MarkDisconnectedStep, TeardownNextStep, ForgetStep
     DEF Runtime
<1>4. CASE Crash
  BY <1>4, ForgetStep
<1>5. CASE UNCHANGED vars
  BY <1>5, StutterStep
<1> QED
  BY <1>1, <1>2, <1>3, <1>4, <1>5 DEF Next

\* Workers, the line for the lock, connections, targets and rows fit together in
\* every reachable state (core/registry.py, core/state_store.py, core/api.py).
THEOREM LifecycleSafety == Spec => []IInv
BY InitIInv, NextIInv, PTL DEF Spec

\* The variables keep their types.
THEOREM LifecycleTypeOK == Spec => []TypeOK
<1>1. IInv => TypeOK
  BY DEF IInv, Typed
<1> QED
  BY <1>1, LifecycleSafety, PTL

\* However writes fail and whenever the process is killed, a connection a client
\* was told of is in the database with its device and points, until somebody
\* takes it down (core/api.py:418-443, core/state_store.py:416-447).
THEOREM AckedSurvives == Spec => []AckedIsDurable
<1>1. IInv => AckedIsDurable
  BY DEF IInv, Recorded, Sound, AckedIsDurable
<1> QED
  BY <1>1, LifecycleSafety, PTL

\* For any handlers and engine at work at once: no one brings back a connection
\* whose disconnect was answered (core/registry.py:307-335).
THEOREM DisconnectedStaysSo == Spec => []DisconnectedForGood
<1>1. IInv => DisconnectedForGood
  BY DEF IInv, Owned, Recorded, Sound, DisconnectedForGood, Status
<1> QED
  BY <1>1, LifecycleSafety, PTL

\* Targets over dead connections have one cause: a disconnect that overtook its
\* connect (core/api.py:432, 463).
THEOREM StaleTargetsAreOvertaken == Spec => []StaleTargetsWereOvertaken
<1>1. IInv => StaleTargetsWereOvertaken
  BY DEF IInv, Polled
<1> QED
  BY <1>1, LifecycleSafety, PTL

\* A device is durable without its points only if an inventory failed between
\* them (core/state_store.py:416-447).
THEOREM InventoriesAreWhole == Spec => []WholeInventory
<1>1. IInv => WholeInventory
  BY DEF IInv, Recorded
<1> QED
  BY <1>1, LifecycleSafety, PTL
================================================================================
