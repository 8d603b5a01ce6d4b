---------------------------- MODULE Adapters_proofs ----------------------------
(***************************************************************************)
(* The adapters at work, for any well addressed installations, callers,    *)
(* connections, verbs and values, and any part of the equipment missing:   *)
(* what a read answers is what was asked for or a value made up, what a    *)
(* command changes it changes on its endpoint, what a checking adapter     *)
(* reports as done it has done, and which clients can be left open.        *)
(* Machine-checked by TLAPS.                                               *)
(*                                                                         *)
(* An id is words glued together, and the first lemmas say what a cut at a *)
(* word finds when the device's name is free of it.  Where a request goes  *)
(* is settled when execute() makes its plan, before anything is sent: a    *)
(* lemma per adapter says that the plan is Sound, that is, where it goes   *)
(* and that the request the command is about is in it; the invariant       *)
(* carries the plan through the requests that are answered.  What a read   *)
(* finds depends on the id and on the dictionary: the invariant says what  *)
(* each holds (Lists, Dictionary), and a lemma per adapter that a read of  *)
(* the one with the other answers for the point.                           *)
(***************************************************************************)
EXTENDS Adapters, TLAPS, SequenceTheorems

---------------------------------------------------------------------------
(* Ids and their words.                                                    *)

\* What a name and two or three words make.
LEMMA GluedThree ==
    ASSUME NEW name \in Seq(STRING), NEW a, NEW b, NEW c
    PROVE  LET id == name \o <<a, b, c>>  n == Len(name) IN
           /\ Len(id) = n + 3 /\ n \in Nat
           /\ \A k \in 1..n : id[k] = name[k]
           /\ id[n + 1] = a /\ id[n + 2] = b /\ id[n + 3] = c
<1> DEFINE S == STRING \cup {a, b, c}
           more == <<a, b, c>>
<1>1. name \in Seq(S) /\ more \in Seq(S) /\ Len(more) = 3
  OBVIOUS
<1>2. more[1] = a /\ more[2] = b /\ more[3] = c
  OBVIOUS
<1> HIDE DEF S, more
<1>3. /\ Len(name \o more) = Len(name) + 3 /\ Len(name) \in Nat
      /\ \A k \in 1..(Len(name) + 3) :
            (name \o more)[k] = IF k <= Len(name) THEN name[k] ELSE more[k - Len(name)]
  <2>1. /\ Len(name \o more) = Len(name) + Len(more)
        /\ \A k \in 1..(Len(name) + Len(more)) :
              (name \o more)[k] = IF k <= Len(name) THEN name[k] ELSE more[k - Len(name)]
    BY <1>1, ConcatProperties
  <2> QED
    BY <1>1, <2>1
<1>4. /\ Len(name) + 1 \in 1..(Len(name) + 3) /\ Len(name) + 2 \in 1..(Len(name) + 3)
      /\ Len(name) + 3 \in 1..(Len(name) + 3) /\ 1..Len(name) \subseteq 1..(Len(name) + 3)
  BY <1>3
<1>5. /\ (name \o more)[Len(name) + 1] = more[1] /\ (name \o more)[Len(name) + 2] = more[2]
      /\ (name \o more)[Len(name) + 3] = more[3]
  BY <1>3, <1>4
<1> QED
  BY <1>2, <1>3, <1>4, <1>5 DEF more

LEMMA GluedTwo ==
    ASSUME NEW name \in Seq(STRING), NEW a, NEW b
    PROVE  LET id == name \o <<a, b>>  n == Len(name) IN
           /\ Len(id) = n + 2 /\ n \in Nat
           /\ \A k \in 1..n : id[k] = name[k]
           /\ id[n + 1] = a /\ id[n + 2] = b
<1> DEFINE S == STRING \cup {a, b}
           more == <<a, b>>
<1>1. name \in Seq(S) /\ more \in Seq(S) /\ Len(more) = 2
  OBVIOUS
<1>2. more[1] = a /\ more[2] = b
  OBVIOUS
<1> HIDE DEF S, more
<1>3. /\ Len(name \o more) = Len(name) + 2 /\ Len(name) \in Nat
      /\ \A k \in 1..(Len(name) + 2) :
            (name \o more)[k] = IF k <= Len(name) THEN name[k] ELSE more[k - Len(name)]
  <2>1. /\ Len(name \o more) = Len(name) + Len(more)
        /\ \A k \in 1..(Len(name) + Len(more)) :
              (name \o more)[k] = IF k <= Len(name) THEN name[k] ELSE more[k - Len(name)]
    BY <1>1, ConcatProperties
  <2> QED
    BY <1>1, <2>1
<1>4. /\ Len(name) + 1 \in 1..(Len(name) + 2) /\ Len(name) + 2 \in 1..(Len(name) + 2)
      /\ 1..Len(name) \subseteq 1..(Len(name) + 2)
  BY <1>3
<1>5. /\ (name \o more)[Len(name) + 1] = more[1] /\ (name \o more)[Len(name) + 2] = more[2]
  BY <1>3, <1>4
<1> QED
  BY <1>2, <1>3, <1>4, <1>5 DEF more

LEMMA Appended ==
    ASSUME NEW a, NEW b, NEW c
    PROVE  <<a, b>> \o <<c>> = <<a, b, c>>
<1> DEFINE S == {a, b, c}
           front == <<a, b>>
           last == <<c>>
           whole == <<a, b, c>>
<1>1. /\ front \in Seq(S) /\ last \in Seq(S) /\ whole \in Seq(S)
      /\ Len(front) = 2 /\ Len(last) = 1 /\ Len(whole) = 3
      /\ front[1] = a /\ front[2] = b /\ last[1] = c /\ whole[1] = a /\ whole[2] = b /\ whole[3] = c
  OBVIOUS
<1> HIDE DEF S, front, last, whole
<1> DEFINE glued == front \o last
<1>2. /\ glued \in Seq(S) /\ Len(glued) = Len(front) + Len(last)
      /\ \A n \in 1..(Len(front) + Len(last)) :
            glued[n] = IF n <= Len(front) THEN front[n] ELSE last[n - Len(front)]
  BY <1>1, ConcatProperties
<1> HIDE DEF glued
<1>3. Len(glued) = 3 /\ glued[1] = a /\ glued[2] = b /\ glued[3] = c
  BY <1>1, <1>2
<1>4. glued = whole
  BY <1>1, <1>2, <1>3, SeqEqual
<1> QED
  BY <1>4 DEF glued, front, last, whole

\* The word after the only occurrence of another.
LEMMA OnlyAfter ==
    ASSUME NEW id, NEW w, NEW k, Inside(id, w) = {k}, k \in Nat
    PROVE  Has(id, w) /\ After(id, w) = id[1 + k]
<1> DEFINE least == CHOOSE i \in Inside(id, w) : \A j \in Inside(id, w) : i <= j
<1>1. least = k
  <2>1. k \in Inside(id, w) /\ \A j \in Inside(id, w) : k <= j
    OBVIOUS
  <2> QED
    BY <2>1
<1>2. After(id, w) = id[1 + least]
  BY DEF After
<1> QED
  BY <1>1, <1>2 DEF Has

\* A point id and an endpoint id of a device whose name is free of the word: it is
\* found where it was put, and what follows it with it.
LEMMA PointWords ==
    ASSUME NEW name \in Seq(STRING), name # <<>>, NEW a, NEW b, NEW c,
           NEW w, \A k \in DOMAIN name : name[k] # w, b # w
    PROVE  LET id == name \o <<a, b, c>> IN
           /\ Has(id, w) <=> a = w
           /\ a = w => After(id, w) = b
           /\ Ending(id) = c
<1> DEFINE id == name \o <<a, b, c>>
           n == Len(name)
<1>1. /\ Len(id) = n + 3 /\ n \in Nat
      /\ \A k \in 1..n : id[k] = name[k]
      /\ id[n + 1] = a /\ id[n + 2] = b /\ id[n + 3] = c
  BY GluedThree
<1>2. n >= 1 /\ DOMAIN name = 1..n
  BY EmptySeq, LenProperties
<1> HIDE DEF id, n
<1>3. \A k \in Inside(id, w) : k = n + 1 /\ a = w
  BY <1>1, <1>2 DEF Inside
<1>4. a = w => n + 1 \in Inside(id, w)
  BY <1>1, <1>2 DEF Inside
<1>5. CASE a = w
  <2> DEFINE k == n + 1
  <2>1. Inside(id, w) = {k} /\ k \in Nat /\ 1 + k = n + 2
    BY <1>1, <1>3, <1>4, <1>5
  <2> HIDE DEF k
  <2>2. Has(id, w) /\ After(id, w) = id[1 + k]
    BY <2>1, OnlyAfter
  <2> QED
    BY <1>1, <1>5, <2>1, <2>2 DEF id, Ending
<1>6. CASE a # w
  BY <1>1, <1>3, <1>6 DEF id, Has, Ending
<1> QED
  BY <1>5, <1>6

LEMMA EndpointWords ==
    ASSUME NEW name \in Seq(STRING), name # <<>>, NEW a, NEW b,
           NEW w, \A k \in DOMAIN name : name[k] # w
    PROVE  LET id == name \o <<a, b>> IN
           /\ Has(id, w) <=> a = w
           /\ a = w => After(id, w) = b
           /\ Ending(id) = b
<1> DEFINE id == name \o <<a, b>>
           n == Len(name)
<1>1. /\ Len(id) = n + 2 /\ n \in Nat
      /\ \A k \in 1..n : id[k] = name[k]
      /\ id[n + 1] = a /\ id[n + 2] = b
  BY GluedTwo
<1>2. n >= 1 /\ DOMAIN name = 1..n
  BY EmptySeq, LenProperties
<1> HIDE DEF id, n
<1>3. \A k \in Inside(id, w) : k = n + 1 /\ a = w
  BY <1>1, <1>2 DEF Inside
<1>4. a = w => n + 1 \in Inside(id, w)
  BY <1>1, <1>2 DEF Inside
<1>5. CASE a = w
  <2> DEFINE k == n + 1
  <2>1. Inside(id, w) = {k} /\ k \in Nat /\ 1 + k = n + 2
    BY <1>1, <1>3, <1>4, <1>5
  <2> HIDE DEF k
  <2>2. Has(id, w) /\ After(id, w) = id[1 + k]
    BY <2>1, OnlyAfter
  <2> QED
    BY <1>1, <1>5, <2>1, <2>2 DEF id, Ending
<1>6. CASE a # w
  BY <1>1, <1>3, <1>6 DEF id, Has, Ending
<1> QED
  BY <1>5, <1>6

\* A Hue light's number is the word after the first "hue".
LEMMA HueWords ==
    ASSUME NEW n, n # "light", NEW x
    PROVE  /\ After(<<"dev", "hue", n, "light">>, "hue") = n
           /\ Has(<<"dev", "hue", n, "light", x>>, "light")
           /\ After(<<"dev", "hue", n, "light", x>>, "hue") = n
           /\ Ending(<<"dev", "hue", n, "light", x>>) = x
<1> DEFINE first(id) == CHOOSE i \in Inside(id, "hue") : \A j \in Inside(id, "hue") : i <= j
<1>1. ASSUME NEW id, 2 \in Inside(id, "hue"), id[3] = n, Inside(id, "hue") \subseteq 2..3
      PROVE  After(id, "hue") = n
  <2>1. 2 \in Inside(id, "hue") /\ \A j \in Inside(id, "hue") : 2 <= j
    BY <1>1
  <2>2. \A i \in Inside(id, "hue") : (\A j \in Inside(id, "hue") : i <= j) => i = 2
    BY <1>1
  <2>3. first(id) = 2
    BY <2>1, <2>2
  <2>4. After(id, "hue") = id[1 + first(id)]
    BY DEF After
  <2> HIDE DEF first
  <2> QED
    BY <1>1, <2>3, <2>4
<1> DEFINE short == <<"dev", "hue", n, "light">>
           long == <<"dev", "hue", n, "light", x>>
<1>2. /\ Len(short) = 4 /\ short[2] = "hue" /\ short[3] = n
      /\ Len(long) = 5 /\ long[2] = "hue" /\ long[3] = n /\ long[4] = "light" /\ long[5] = x
  OBVIOUS
<1> HIDE DEF short, long
<1>3. 2 \in Inside(short, "hue") /\ Inside(short, "hue") \subseteq 2..3
  BY <1>2 DEF Inside
<1>4. 2 \in Inside(long, "hue") /\ Inside(long, "hue") \subseteq 2..3
  BY <1>2 DEF Inside
<1>5. 4 \in Inside(long, "light")
  BY <1>2 DEF Inside
<1>6. After(short, "hue") = n /\ After(long, "hue") = n
  BY <1>1, <1>2, <1>3, <1>4
<1> QED
  BY <1>2, <1>5, <1>6 DEF short, long, Has, Ending

---------------------------------------------------------------------------
(* Requests and plans.                                                     *)

SlotsOf(st) == st.has \cup {Filed(q) : q \in st.has} \cup {<<"crob", "0", "value">>}

\* A request that can have an effect is for the endpoint of its command, and what
\* an adapter with a dictionary writes down afterwards belongs there.
Aims(st, rq, cmd) ==
    /\ rq.q \in st.has => EndpointOf(rq.q) = cmd.of
    /\ st.adapter \in {"bacnet", "opcua"} => rq.do \in {"put", "get"}
    /\ st.adapter = "knx" => rq.q \in st.has
    /\ st.adapter = "dnp3" => rq.q \in SlotsOf(st)

OnTask(st, todo, cmd) == \E S : todo \in Seq(S) /\ \A rq \in S : Aims(st, rq, cmd)

\* The request that does what the command asks, and the commands that are declared
\* done without it.
Excused(st, cmd) == st.adapter \in Unchecked \/ (st.adapter = "shelly" /\ cmd.of[1] = "cover")

Wanted(st, cmd) ==
    IF st.adapter = "esphome" \/ (st.adapter = "modbus" /\ cmd.of[1] = "coil")
    THEN Turned(cmd.v) ELSE cmd.v

Carries(st, rq, cmd) == rq.do = "put" /\ (cmd.verb = "set" => rq.v = Wanted(st, cmd))

Honest(st, plan, cmd) ==
    plan.ends = "succeeded" /\ ~Excused(st, cmd) =>
        \E n \in 1..Len(plan.todo) : Carries(st, plan.todo[n], cmd)

\* What every plan is.
Sound(st, plan, cmd) ==
    /\ OnTask(st, plan.todo, cmd)
    /\ Honest(st, plan, cmd)
    /\ plan.ends \in {"succeeded", "failed"}

\* What every command names.
Proper(cmd) ==
    /\ cmd.ep = EndpointId(cmd.of) /\ cmd.native \in BOOLEAN
    /\ \E q \in SlotsOf(site) : cmd.of = EndpointOf(q) /\ (A # "dnp3" => q \in site.has)

LEMMA Installation ==
    ASSUME site \in Sites
    PROVE  /\ A \in Names /\ A = site.adapter
           /\ Vocabulary(site) /\ \A q \in site.has : q = <<q[1], q[2], q[3]>>
           /\ site.name \in Seq(STRING) /\ site.name # <<>>
           /\ A \in {"shelly", "hue", "kincony"} =>
                 /\ \A w \in Cuts : \A k \in DOMAIN site.name : site.name[k] # w
                 /\ \A q \in site.has : q[2] \notin Cuts
           /\ site.instance \in Seq(STRING) /\ Len(site.instance) <= 1
BY SitesAssumption DEF SitesAssumption, A, Vocabulary, WellNamed

LEMMA NoRequests == ASSUME NEW cmd PROVE OnTask(site, <<>>, cmd)
<1> DEFINE S == {}
<1>1. <<>> \in Seq(S) /\ \A rq \in S : Aims(site, rq, cmd)
  OBVIOUS
<1> HIDE DEF S
<1> QED
  BY <1>1 DEF OnTask

LEMMA FailsIsSound == ASSUME NEW cmd PROVE Sound(site, Fails, cmd)
<1>1. OnTask(site, Fails.todo, cmd)
  BY NoRequests DEF Fails
<1> QED
  BY <1>1 DEF Sound, Honest, Fails

LEMMA SendsIsSound ==
    ASSUME NEW cmd, NEW S, NEW todo \in Seq(S), \A rq \in S : Aims(site, rq, cmd),
           Excused(site, cmd) \/ (1 \in 1..Len(todo) /\ Carries(site, todo[1], cmd))
    PROVE  Sound(site, Sends(todo), cmd)
<1>1. Sends(todo).todo = todo /\ Sends(todo).ends = "succeeded"
  BY DEF Sends
<1>2. OnTask(site, todo, cmd)
  BY DEF OnTask
<1>3. Honest(site, Sends(todo), cmd)
  BY <1>1 DEF Honest
<1> QED
  BY <1>1, <1>2, <1>3 DEF Sound

LEMMA OneIsSound ==
    ASSUME NEW cmd, NEW a, Aims(site, a, cmd), Excused(site, cmd) \/ Carries(site, a, cmd)
    PROVE  Sound(site, Sends(<<a>>), cmd)
<1> DEFINE S == {a}
           todo == <<a>>
<1>1. /\ todo \in Seq(S) /\ 1 \in 1..Len(todo) /\ todo[1] = a
      /\ \A rq \in S : Aims(site, rq, cmd)
  OBVIOUS
<1> HIDE DEF S, todo
<1>2. Sound(site, Sends(todo), cmd)
  BY <1>1, SendsIsSound
<1> QED
  BY <1>2 DEF todo

LEMMA TwoIsSound ==
    ASSUME NEW cmd, NEW a, NEW b, Aims(site, a, cmd), Aims(site, b, cmd),
           Excused(site, cmd) \/ Carries(site, a, cmd)
    PROVE  Sound(site, Sends(<<a, b>>), cmd)
<1> DEFINE S == {a, b}
           todo == <<a, b>>
<1>1. /\ todo \in Seq(S) /\ 1 \in 1..Len(todo) /\ todo[1] = a
      /\ \A rq \in S : Aims(site, rq, cmd)
  OBVIOUS
<1> HIDE DEF S, todo
<1>2. Sound(site, Sends(todo), cmd)
  BY <1>1, SendsIsSound
<1> QED
  BY <1>2 DEF todo

\* One request and then another, or two and another.
LEMMA FollowedIsSound ==
    ASSUME NEW cmd, NEW a, NEW b, NEW c, \A rq \in {a, b, c} : Aims(site, rq, cmd),
           Excused(site, cmd) \/ Carries(site, a, cmd)
    PROVE  Sound(site, Sends(<<a>> \o <<c>>), cmd) /\ Sound(site, Sends(<<a, b>> \o <<c>>), cmd)
<1> DEFINE S == {a, b, c}
           one == <<a>>
           two == <<a, b>>
           last == <<c>>
<1>1. /\ one \in Seq(S) /\ two \in Seq(S) /\ last \in Seq(S)
      /\ Len(one) = 1 /\ Len(two) = 2 /\ Len(last) = 1 /\ one[1] = a /\ two[1] = a
  OBVIOUS
<1>2. \A rq \in S : Aims(site, rq, cmd)
  OBVIOUS
<1> HIDE DEF S, one, two, last
<1>3. /\ one \o last \in Seq(S) /\ Len(one \o last) = Len(one) + Len(last)
      /\ \A i \in 1..(Len(one) + Len(last)) :
            (one \o last)[i] = IF i <= Len(one) THEN one[i] ELSE last[i - Len(one)]
  BY <1>1, ConcatProperties
<1>4. /\ two \o last \in Seq(S) /\ Len(two \o last) = Len(two) + Len(last)
      /\ \A i \in 1..(Len(two) + Len(last)) :
            (two \o last)[i] = IF i <= Len(two) THEN two[i] ELSE last[i - Len(two)]
  BY <1>1, ConcatProperties
<1>5. 1 \in 1..Len(one \o last) /\ (one \o last)[1] = a
  BY <1>1, <1>3
<1>6. 1 \in 1..Len(two \o last) /\ (two \o last)[1] = a
  BY <1>1, <1>4
<1>7. Sound(site, Sends(one \o last), cmd) /\ Sound(site, Sends(two \o last), cmd)
  BY <1>2, <1>3, <1>4, <1>5, <1>6, SendsIsSound
<1> QED
  BY <1>7 DEF one, two, last

\* A request that names a part of the command's endpoint.
LEMMA OnEndpoint ==
    ASSUME NEW cmd, cmd.of = <<cmd.of[1], cmd.of[2]>>, NEW x, NEW v, NEW do,
           A \notin {"knx", "dnp3"}, A \in {"bacnet", "opcua"} => do \in {"put", "get"}
    PROVE  Aims(site, [do |-> do, q |-> <<cmd.of[1], cmd.of[2], x>>, v |-> v], cmd)
BY DEF A, Aims, EndpointOf

\* A request that names nothing there is.
LEMMA OnNothing ==
    ASSUME site \in Sites, NEW cmd, NEW v, NEW do, A \notin {"knx", "dnp3"},
           A \in {"bacnet", "opcua"} => do \in {"put", "get"},
           NEW q \in {Nobody, <<"analogOutput", "0", "pv">>}
    PROVE  Aims(site, [do |-> do, q |-> q, v |-> v], cmd)
BY SitesAssumption DEF SitesAssumption, A, Aims

LEMMA ProperPair ==
    ASSUME NEW cmd, Proper(cmd)
    PROVE  cmd.of = <<cmd.of[1], cmd.of[2]>>
BY DEF Proper, EndpointOf

\* The adapters that cut the endpoint's id find its pieces in it.
LEMMA CutEndpoint ==
    ASSUME site \in Sites, A \in {"shelly", "kincony"}, NEW cmd, Proper(cmd), NEW w \in Cuts
    PROVE  /\ Has(cmd.ep, w) <=> cmd.of[1] = w
           /\ cmd.of[1] = w => After(cmd.ep, w) = cmd.of[2]
           /\ Ending(cmd.ep) = cmd.of[2]
<1>1. cmd.ep = site.name \o cmd.of /\ cmd.of = <<cmd.of[1], cmd.of[2]>>
  BY ProperPair DEF Proper, EndpointId
<1>2. cmd.ep = site.name \o <<cmd.of[1], cmd.of[2]>>
  BY <1>1
<1> DEFINE e1 == cmd.of[1]
           e2 == cmd.of[2]
<1>3. site.name \in Seq(STRING) /\ site.name # <<>> /\ \A k \in DOMAIN site.name : site.name[k] # w
  BY Installation
<1>4. cmd.ep = site.name \o <<e1, e2>>
  BY <1>2
<1> HIDE DEF e1, e2
<1>5. LET id == site.name \o <<e1, e2>> IN
      /\ Has(id, w) <=> e1 = w
      /\ e1 = w => After(id, w) = e2
      /\ Ending(id) = e2
  BY <1>3, EndpointWords
<1> QED
  BY <1>4, <1>5 DEF e1, e2

LEMMA ShellyPlan ==
    ASSUME site \in Sites, NEW cmd, Proper(cmd), A = "shelly"
    PROVE  Sound(site, ShellyExecute(cmd), cmd)
<1> DEFINE out == <<cmd.of[1], cmd.of[2], "output">>
           pos == <<cmd.of[1], cmd.of[2], "current_pos">>
           turned == [open |-> "100", close |-> "0", stop |-> "here", set |-> "100"]
<1>1. /\ Has(cmd.ep, "switch") <=> cmd.of[1] = "switch"
      /\ cmd.of[1] = "switch" => After(cmd.ep, "switch") = cmd.of[2]
      /\ Has(cmd.ep, "cover") <=> cmd.of[1] = "cover"
      /\ cmd.of[1] = "cover" => After(cmd.ep, "cover") = cmd.of[2]
  BY CutEndpoint DEF Cuts
<1>2. cmd.of = <<cmd.of[1], cmd.of[2]>>
  BY ProperPair
<1>3. /\ \A v : Aims(site, Put(out, v), cmd) /\ Aims(site, Put(pos, v), cmd)
      /\ Aims(site, Get(out), cmd)
  BY <1>2, OnEndpoint DEF Put, Get
<1>4. CASE cmd.of[1] = "switch"
  <2>1. \/ cmd.verb = "set" /\ ShellyExecute(cmd) = Sends(<<Put(out, cmd.v), Get(out)>>)
        \/ cmd.verb = "toggle" /\ ShellyExecute(cmd) = Sends(<<Put(out, "flip"), Get(out)>>)
        \/ ShellyExecute(cmd) = Fails
    BY <1>1, <1>4 DEF ShellyExecute
  <2>2. /\ Carries(site, Put(out, cmd.v), cmd)
        /\ cmd.verb = "toggle" => Carries(site, Put(out, "flip"), cmd)
    BY DEF Carries, Wanted, Put, A
  <2> HIDE DEF out
  <2> QED
    BY <1>3, <2>1, <2>2, TwoIsSound, FailsIsSound
<1>5. CASE cmd.of[1] = "cover"
  <2>1. \/ ShellyExecute(cmd) = Sends(<<Put(pos, turned[cmd.verb])>>)
        \/ ShellyExecute(cmd) = Sends(<<>>)
    BY <1>1, <1>5 DEF ShellyExecute
  <2>2. Excused(site, cmd)
    BY <1>5 DEF Excused, A
  <2>3. Sound(site, Sends(<<>>), cmd)
    <3> DEFINE S == {}
    <3>1. <<>> \in Seq(S) /\ \A rq \in S : Aims(site, rq, cmd)
      OBVIOUS
    <3> HIDE DEF S
    <3> QED
      BY <2>2, <3>1, SendsIsSound
  <2> HIDE DEF pos, turned
  <2> QED
    BY <1>3, <2>1, <2>2, <2>3, OneIsSound
<1>6. CASE cmd.of[1] \notin {"switch", "cover"}
  <2>1. ShellyExecute(cmd) = Fails
    BY <1>1, <1>6 DEF ShellyExecute
  <2> QED
    BY <2>1, FailsIsSound
<1> QED
  BY <1>4, <1>5, <1>6

LEMMA HuePlan ==
    ASSUME site \in Sites, NEW cmd, Proper(cmd), A = "hue"
    PROVE  Sound(site, HueExecute(cmd), cmd)
<1> DEFINE on == <<cmd.of[1], cmd.of[2], "on">>
           level == <<cmd.of[1], cmd.of[2], "brightness">>
<1>1. cmd.of = <<cmd.of[1], cmd.of[2]>>
  BY ProperPair
<1>2. PICK q \in site.has : cmd.of = EndpointOf(q)
  BY DEF Proper
<1>3. cmd.of[1] = "light" /\ cmd.of[2] # "light"
  <2>1. q[1] = "light" /\ q[2] \notin Cuts
    BY Installation DEF Vocabulary
  <2> QED
    BY <1>2, <2>1 DEF EndpointOf, Cuts
<1>4. cmd.ep = <<"dev", "hue", cmd.of[2], "light">>
  BY <1>3 DEF Proper, EndpointId
<1> DEFINE e == cmd.of[2]
<1>5. After(cmd.ep, "hue") = e
  <2>1. cmd.ep = <<"dev", "hue", e, "light">> /\ e # "light"
    BY <1>3, <1>4
  <2> HIDE DEF e
  <2> QED
    BY <2>1, HueWords
<1>6. /\ \A v : Aims(site, Told(on, v), cmd) /\ Aims(site, Told(level, v), cmd)
      /\ Aims(site, Get(on), cmd)
  BY <1>1, OnEndpoint DEF Told, Get
<1>7. \/ HueExecute(cmd) = Sends(<<Told(on, Turned(cmd.v))>>)
      \/ HueExecute(cmd) = Sends(<<Get(on), Told(on, "flip")>>)
      \/ HueExecute(cmd) = Sends(<<Told(level, "half")>>)
      \/ HueExecute(cmd) = Fails
  BY <1>3, <1>5 DEF HueExecute
<1>8. Excused(site, cmd)
  BY DEF Excused, Unchecked, A
<1> HIDE DEF on, level
<1> QED
  BY <1>6, <1>7, <1>8, OneIsSound, TwoIsSound, FailsIsSound

LEMMA EspHomePlan ==
    ASSUME site \in Sites, NEW cmd, Proper(cmd), A = "esphome", NEW s, s.name = site.name
    PROVE  Sound(site, EspHomeExecute(cmd, s), cmd)
<1> DEFINE q == IF cmd.of[1] \in Obeys THEN <<cmd.of[1], cmd.of[2], "state">> ELSE Nobody
           action == IF cmd.verb = "toggle" THEN "flip" ELSE Turned(cmd.v)
<1>1. cmd.of = <<cmd.of[1], cmd.of[2]>>
  BY ProperPair
<1>2. EspHomeEntity(cmd.ep, s) = <<cmd.of[1], cmd.of[2], "state">>
  <2> DEFINE e1 == cmd.of[1]
             e2 == cmd.of[2]
  <2>1. cmd.ep = site.name \o <<e1, e2>> /\ site.name \in Seq(STRING)
    BY <1>1, Installation DEF Proper, EndpointId
  <2> HIDE DEF e1, e2
  <2>2. /\ cmd.ep[Len(site.name) + 1] = e1
        /\ cmd.ep[Len(site.name) + 2] = e2
    BY <2>1, GluedTwo
  <2> QED
    BY <2>2 DEF EspHomeEntity, e1, e2
<1>3. Aims(site, Put(q, action), cmd)
  <2>1. CASE cmd.of[1] \in Obeys
    BY <1>1, <2>1, OnEndpoint DEF Put
  <2>2. CASE cmd.of[1] \notin Obeys
    BY <2>2, OnNothing DEF Put
  <2> QED
    BY <2>1, <2>2
<1>4. Carries(site, Put(q, action), cmd)
  BY DEF Carries, Wanted, Put, A
<1>5. EspHomeExecute(cmd, s) = Sends(<<Put(q, action)>>) \/ EspHomeExecute(cmd, s) = Fails
  BY <1>2 DEF EspHomeExecute
<1> HIDE DEF q, action
<1> QED
  BY <1>3, <1>4, <1>5, OneIsSound, FailsIsSound

LEMMA KinConyPlan ==
    ASSUME site \in Sites, NEW cmd, Proper(cmd), A = "kincony"
    PROVE  Sound(site, KinConyExecute(cmd), cmd)
<1> DEFINE power == <<cmd.of[1], cmd.of[2], "channel">>
           pulse == <<cmd.of[1], cmd.of[2], "pulse_time">>
<1>1. cmd.of = <<cmd.of[1], cmd.of[2]>>
  BY ProperPair
<1>2. /\ Has(cmd.ep, "relay") <=> cmd.of[1] = "relay"
      /\ cmd.of[1] = "relay" => After(cmd.ep, "relay") = cmd.of[2]
      /\ Ending(cmd.ep) = cmd.of[2]
  BY CutEndpoint DEF Cuts, Channels
<1>3. PICK q \in site.has : cmd.of = EndpointOf(q)
  BY DEF Proper
<1>4. cmd.of[1] = "ir" \/ (cmd.of[1] \in Channels /\ cmd.of[2] \in Digits)
  <2>1. q[1] = "ir" \/ (q[1] \in Channels /\ q[2] \in Digits)
    BY Installation DEF Vocabulary
  <2> QED
    BY <1>3, <2>1 DEF EndpointOf
<1>5. /\ \A v : Aims(site, Told(power, v), cmd) /\ Aims(site, Told(pulse, v), cmd)
      /\ Aims(site, Get(power), cmd)
  BY <1>1, OnEndpoint DEF Told, Get
<1>6. Excused(site, cmd)
  BY DEF Excused, Unchecked, A
<1>7. CASE cmd.of[1] = "relay"
  <2>1. ChannelAfter(cmd.ep, "relay") = cmd.of[2]
    BY <1>2, <1>4, <1>7 DEF ChannelAfter
  <2>2. \/ KinConyExecute(cmd) = Sends(<<Told(power, Turned(cmd.v))>> \o <<Get(power)>>)
        \/ KinConyExecute(cmd) = Sends(<<Told(power, "flip")>> \o <<Get(power)>>)
        \/ KinConyExecute(cmd) =
             Sends(<<Told(pulse, "duration"), Told(power, "on")>> \o <<Get(power)>>)
        \/ KinConyExecute(cmd) = Fails
    BY <1>2, <1>7, <2>1 DEF KinConyExecute
  <2> HIDE DEF power, pulse
  <2> QED
    BY <1>5, <1>6, <2>2, FollowedIsSound, FailsIsSound
<1>8. CASE cmd.of[1] # "relay" /\ cmd.of[2] = "tx"
  <2>1. cmd.of[1] = "ir"
    BY <1>4, <1>8 DEF Digits
  <2>2. power = <<"ir", "tx", "channel">>
    BY <1>8, <2>1
  <2>3. KinConyExecute(cmd) = Sends(<<Told(<<"ir", "tx", "channel">>, "code")>>)
    BY <1>2, <1>8 DEF KinConyExecute
  <2>4. KinConyExecute(cmd) = Sends(<<Told(power, "code")>>)
    BY <2>2, <2>3
  <2> HIDE DEF power
  <2> QED
    BY <1>5, <1>6, <2>4, OneIsSound
<1>9. CASE cmd.of[1] # "relay" /\ cmd.of[2] # "tx"
  <2>1. KinConyExecute(cmd) = Fails
    BY <1>2, <1>9 DEF KinConyExecute
  <2> QED
    BY <2>1, FailsIsSound
<1> QED
  BY <1>7, <1>8, <1>9

LEMMA ModbusPlan ==
    ASSUME NEW cmd, Proper(cmd), A = "modbus", NEW s
    PROVE  Sound(site, ModbusExecute(cmd, s), cmd)
<1> DEFINE q == <<cmd.of[1], cmd.of[2], "rw">>
           v == IF cmd.of[1] = "coil" THEN Turned(cmd.v) ELSE cmd.v
<1>1. Aims(site, Put(q, v), cmd) /\ Aims(site, Get(q), cmd)
  BY ProperPair, OnEndpoint DEF Put, Get
<1>2. Carries(site, Put(q, v), cmd)
  BY DEF Carries, Wanted, Put, A
<1>3. ModbusExecute(cmd, s) = Sends(<<Put(q, v)>> \o <<Get(q)>>) \/ ModbusExecute(cmd, s) = Fails
  BY DEF ModbusExecute, ModbusWrites
<1> HIDE DEF q, v
<1> QED
  BY <1>1, <1>2, <1>3, FollowedIsSound, FailsIsSound

LEMMA BacnetPlan ==
    ASSUME site \in Sites, NEW cmd, Proper(cmd), A = "bacnet"
    PROVE  Sound(site, BacnetExecute(cmd), cmd)
<1> DEFINE q == IF cmd.native THEN <<cmd.of[1], cmd.of[2], "pv">> ELSE <<"analogOutput", "0", "pv">>
<1>1. Aims(site, Put(q, cmd.v), cmd)
  <2>1. CASE cmd.native
    BY <2>1, ProperPair, OnEndpoint DEF Put
  <2>2. CASE ~cmd.native
    BY <2>2, OnNothing DEF Put
  <2> QED
    BY <2>1, <2>2
<1>2. Carries(site, Put(q, cmd.v), cmd)
  BY DEF Carries, Wanted, Put, A
<1>3. BacnetExecute(cmd) = Sends(<<Put(q, cmd.v)>>)
  BY DEF BacnetExecute, BacnetWrites
<1> HIDE DEF q
<1> QED
  BY <1>1, <1>2, <1>3, OneIsSound

LEMMA OpcUaPlan ==
    ASSUME NEW cmd, Proper(cmd), A = "opcua"
    PROVE  Sound(site, OpcUaExecute(cmd), cmd)
<1> DEFINE q == <<cmd.of[1], cmd.of[2], "rw">>
<1>1. Aims(site, Put(q, cmd.v), cmd)
  BY ProperPair, OnEndpoint DEF Put
<1>2. Carries(site, Put(q, cmd.v), cmd)
  BY DEF Carries, Wanted, Put, A
<1>3. OpcUaExecute(cmd) = Sends(<<Put(q, cmd.v)>>) \/ OpcUaExecute(cmd) = Fails
  BY DEF OpcUaExecute, OpcUaWrites
<1> HIDE DEF q
<1> QED
  BY <1>1, <1>2, <1>3, OneIsSound, FailsIsSound

\* KNX looks the group up by its endpoint, and finds one because the endpoint is
\* one of the installation.
LEMMA KnxPlan ==
    ASSUME NEW cmd, Proper(cmd), A = "knx", NEW s, s.listed = site.has
    PROVE  Sound(site, KnxExecute(cmd, s), cmd)
<1> DEFINE q == CHOOSE q \in s.listed : EndpointOf(q) = cmd.of
<1>1. q \in site.has /\ EndpointOf(q) = cmd.of
  BY DEF Proper
<1>2. KnxExecute(cmd, s) = Sends(<<Queue(q, cmd.v)>>) \/ KnxExecute(cmd, s) = Fails
  BY DEF KnxExecute, KnxWrites
<1> HIDE DEF q
<1>3. Aims(site, Queue(q, cmd.v), cmd)
  BY <1>1 DEF A, Aims, Queue
<1>4. Excused(site, cmd)
  BY DEF Excused, Unchecked, A
<1> QED
  BY <1>2, <1>3, <1>4, OneIsSound, FailsIsSound

\* DNP3's commands go to a slot of the dictionary.
LEMMA Dnp3Plan ==
    ASSUME site \in Sites, NEW cmd, Proper(cmd), A = "dnp3"
    PROVE  Sound(site, Dnp3Execute(cmd), cmd)
<1> DEFINE q == IF cmd.native THEN <<cmd.of[1], cmd.of[2], "value">> ELSE <<"crob", "0", "value">>
<1>1. q \in SlotsOf(site) /\ (q \in site.has => EndpointOf(q) = cmd.of)
  <2>1. CASE cmd.native
    <3>1. PICK h \in SlotsOf(site) : cmd.of = EndpointOf(h)
      BY DEF Proper
    <3>2. h = <<h[1], h[2], "value">>
      <4>1. \A x \in site.has : x = <<x[1], x[2], "value">>
        BY Installation DEF Vocabulary
      <4> QED
        BY <4>1 DEF SlotsOf, Filed
    <3>3. q = h
      BY <2>1, <3>1, <3>2 DEF EndpointOf
    <3> QED
      BY <3>1, <3>3
  <2>2. CASE ~cmd.native
    <3>1. q = <<"crob", "0", "value">>
      BY <2>2
    <3>2. q \notin site.has
      BY <3>1, SitesAssumption DEF SitesAssumption
    <3> QED
      BY <3>1, <3>2 DEF SlotsOf
  <2> QED
    BY <2>1, <2>2
<1>2. \/ \E v : Dnp3Execute(cmd) = Sends(<<Told(q, v)>>)
      \/ Dnp3Execute(cmd) = Fails
  BY DEF Dnp3Execute, Dnp3Operates
<1> HIDE DEF q
<1>3. \A v : Aims(site, Told(q, v), cmd)
  BY <1>1 DEF A, Aims, Told
<1>4. Excused(site, cmd)
  BY DEF Excused, Unchecked, A
<1> QED
  BY <1>2, <1>3, <1>4, OneIsSound, FailsIsSound

LEMMA BridgePlans ==
    ASSUME site \in Sites, NEW cmd, Proper(cmd), A \in {"zigbee", "zwave", "matter", "lutron"}
    PROVE  /\ Sound(site, ZigbeeExecute(cmd), cmd) /\ Sound(site, ZWaveExecute(cmd), cmd)
           /\ Sound(site, MatterExecute(cmd), cmd) /\ Sound(site, LutronExecute(cmd), cmd)
<1> DEFINE q == IF cmd.native THEN <<cmd.of[1], cmd.of[2], "rw">> ELSE Nobody
<1>1. Aims(site, Told(Nobody, cmd.v), cmd)
  BY OnNothing DEF Told
<1>2. Aims(site, Told(q, cmd.v), cmd)
  <2>1. CASE cmd.native
    BY <2>1, ProperPair, OnEndpoint DEF Told
  <2>2. CASE ~cmd.native
    BY <1>1, <2>2
  <2> QED
    BY <2>1, <2>2
<1>3. Excused(site, cmd)
  BY DEF Excused, Unchecked, A
<1>4. /\ ZigbeeExecute(cmd) = Sends(<<Told(Nobody, cmd.v)>>)
      /\ ZWaveExecute(cmd) = Sends(<<Told(q, cmd.v)>>)
      /\ MatterExecute(cmd) = Sends(<<Told(q, cmd.v)>>)
      /\ LutronExecute(cmd) = Sends(<<Told(q, cmd.v)>>)
  BY DEF ZigbeeExecute, ZWaveExecute, MatterExecute, LutronExecute
<1> HIDE DEF q
<1> QED
  BY <1>1, <1>2, <1>3, <1>4, OneIsSound

\* MQTT compares the component and the object: the entity found is of the
\* endpoint because no other has both.
LEMMA MqttPlan ==
    ASSUME site \in Sites, A = "mqtt", NEW cmd, Proper(cmd),
           NEW s, DOMAIN s.known \subseteq site.has, NEW plan \in MqttExecute(cmd, s)
    PROVE  Sound(site, plan, cmd)
<1> DEFINE alike == {q \in DOMAIN s.known :
                       q[1] = cmd.of[1] /\ q[2][1] = cmd.of[2][1] /\ q[3] = "rw"}
<1>1. plan = Fails \/ \E q \in alike : plan = Sends(<<Queue(q, cmd.v)>>)
  BY DEF MqttExecute
<1>2. SUFFICES ASSUME NEW q \in alike, plan = Sends(<<Queue(q, cmd.v)>>)
               PROVE  Sound(site, plan, cmd)
  BY <1>1, FailsIsSound
<1>3. PICK r \in site.has : cmd.of = EndpointOf(r)
  BY DEF Proper
<1>4. q \in site.has /\ q[1] = r[1] /\ q[2][1] = r[2][1]
  BY <1>3 DEF EndpointOf
<1>5. q[2] = r[2]
  BY <1>4, SitesAssumption DEF SitesAssumption, A
<1>6. Aims(site, Queue(q, cmd.v), cmd)
  BY <1>3, <1>4, <1>5 DEF A, Aims, Queue, EndpointOf
<1>7. Excused(site, cmd)
  BY DEF Excused, Unchecked, A
<1> QED
  BY <1>2, <1>6, <1>7, OneIsSound

LEMMA EveryPlan ==
    ASSUME site \in Sites, NEW cmd, Proper(cmd),
           NEW s, s.name = site.name, s.listed = site.has,
           A = "mqtt" => DOMAIN s.known \subseteq site.has,
           NEW plan \in Executes(cmd, s)
    PROVE  Sound(site, plan, cmd)
<1>1. A \in Names
  BY Installation
<1>2. CASE A \in {"shelly", "hue", "esphome", "kincony", "onvif"}
  BY <1>2, ShellyPlan, HuePlan, EspHomePlan, KinConyPlan, FailsIsSound DEF Executes, OnvifExecute
<1>3. CASE A \in {"modbus", "bacnet", "knx", "opcua", "dnp3"}
  BY <1>3, ModbusPlan, BacnetPlan, KnxPlan, OpcUaPlan, Dnp3Plan DEF Executes
<1>4. CASE A \in {"zigbee", "zwave", "matter", "lutron"}
  BY <1>4, BridgePlans DEF Executes
<1>5. CASE A = "mqtt"
  BY <1>5, MqttPlan DEF Executes
<1> QED
  BY <1>1, <1>2, <1>3, <1>4, <1>5 DEF Names

LEMMA TheRest ==
    ASSUME NEW cmd, NEW todo, OnTask(site, todo, cmd), todo # <<>>
    PROVE  /\ Aims(site, Head(todo), cmd) /\ OnTask(site, Tail(todo), cmd)
           /\ Head(todo) = todo[1] /\ Len(todo) \in Nat \ {0} /\ Len(Tail(todo)) = Len(todo) - 1
           /\ \A n \in 1..(Len(todo) - 1) : Tail(todo)[n] = todo[n + 1]
           /\ Len(todo) = 1 <=> Tail(todo) = <<>>
<1>1. PICK S : todo \in Seq(S) /\ \A rq \in S : Aims(site, rq, cmd)
  BY DEF OnTask
<1>2. /\ Head(todo) \in S /\ Tail(todo) \in Seq(S) /\ Len(Tail(todo)) = Len(todo) - 1
      /\ Len(todo) \in Nat \ {0} /\ \A n \in 1..(Len(todo) - 1) : Tail(todo)[n] = todo[n + 1]
  BY <1>1, HeadTailProperties, EmptySeq
<1>3. Len(todo) = 1 <=> Tail(todo) = <<>>
  <2> DEFINE rest == Tail(todo)
  <2>1. rest \in Seq(S) /\ Len(rest) = Len(todo) - 1 /\ Len(todo) \in Nat
    BY <1>2
  <2> HIDE DEF rest
  <2>2. (rest = <<>> => Len(rest) = 0) /\ (rest # <<>> => Len(rest) # 0)
    BY <2>1, EmptySeq
  <2> QED
    BY <2>1, <2>2 DEF rest
<1>4. OnTask(site, Tail(todo), cmd)
  BY <1>1, <1>2 DEF OnTask
<1>5. Head(todo) = todo[1]
  BY <1>1 DEF Head
<1> QED
  BY <1>1, <1>2, <1>3, <1>4, <1>5

---------------------------------------------------------------------------
(* What the dictionaries hold and the inventories list.                    *)

\* A key is an object of the installation or one of DNP3's slots, and what it leads
\* to is an object, its own unless ids are ambiguous; or what a command asked for.
Dictionary(st, k) ==
    /\ DOMAIN k \subseteq SlotsOf(st)
    /\ st.adapter # "dnp3" => DOMAIN k \subseteq st.has
    /\ \A x \in DOMAIN k :
          \/ k[x] = Nothing
          \/ k[x] \in st.has /\ (Unambiguous(st) => k[x] = x)
          \/ k[x] = Asked /\ st.adapter \in {"knx", "dnp3"}

\* The point ids an adapter makes of an object.
Ids(st, q) ==
    CASE st.adapter = "shelly"  -> {st.name \o <<q[1], q[2], ShellySuffix[q[3]]>>}
      [] st.adapter = "hue"     -> {<<"dev", "hue", q[2], q[1], HueSuffix[q[3]]>>}
      [] st.adapter = "kincony" ->
           {st.name \o <<q[1], q[2], x>> : x \in IF q[1] = "ainput" THEN {"raw", "voltage"} ELSE {"state"}}
      [] st.adapter = "knx"     -> {<<"dev", "knx", q[1]>> \o q[2] \o <<"ep", "value">>}
      [] st.adapter = "bacnet"  -> {st.name \o st.instance \o q}
      [] st.adapter \in {"esphome", "dnp3"} -> {st.name \o q}
      [] OTHER                  -> {q}

Lists(st, p) ==
    /\ p.native \in SlotsOf(st) /\ {p.readable, p.writable} \subseteq BOOLEAN
    /\ st.adapter # "dnp3" => p.native \in st.has
    /\ p.id \in Ids(st, p.native)
    /\ st.adapter = "kincony" => p.native[1] \in Channels /\ p.native[3] = "channel"
    /\ st.adapter = "esphome" => p.native[1] \in Reports \cup Obeys
    /\ st.adapter = "onvif" => p.native[3] # "image"
    /\ st.adapter = "dnp3" => (p.readable => p.native[1] \notin Commands)

\* The equipment as an adapter meets it.
Meets(s) ==
    /\ s.name = site.name /\ s.instance = site.instance
    /\ s.has \subseteq site.has /\ s.listed = site.has
    /\ Dictionary(site, s.known)

LEMMA EmptyDictionary == ASSUME NEW st PROVE Dictionary(st, <<>>)
BY DEF Dictionary

LEMMA PreloadedIsDictionary ==
    ASSUME NEW st, NEW r, NEW s, s.listed = st.has
    PROVE  Dictionary(st, Preloaded(r, s))
BY DEF Dictionary, Preloaded, SlotsOf

LEMMA BrowsedIsDictionary ==
    ASSUME NEW st, NEW s, s.has \subseteq st.has, Dictionary(st, s.known)
    PROVE  Dictionary(st, OpcUaBrowsed(s))
BY DEF Dictionary, OpcUaBrowsed, SlotsOf, Remembers

LEMMA LearnsIsDictionary ==
    ASSUME NEW st, NEW s, Dictionary(st, s.known),
           NEW key \in SlotsOf(st), st.adapter # "dnp3" => key \in st.has,
           NEW q, \/ q = Nothing
                  \/ (q = key /\ q \in st.has)
                  \/ (q = Asked /\ st.adapter \in {"knx", "dnp3"})
    PROVE  Dictionary(st, Learns(s, key, q))
BY DEF Dictionary, Learns

LEMMA ScanIsDictionary ==
    ASSUME NEW st, st.adapter = "dnp3", NEW s, s.has \subseteq st.has, Dictionary(st, s.known),
           NEW k \in Dnp3Scans(s)
    PROVE  Dictionary(st, k)
<1> DEFINE slots == {Filed(q) : q \in Measured(s)}
<1>1. PICK f \in [slots -> Measured(s)] :
         /\ \A x \in slots : Filed(f[x]) = x
         /\ k = [x \in DOMAIN s.known \cup slots |-> IF x \in slots THEN f[x] ELSE s.known[x]]
  BY DEF Dnp3Scans
<1>2. \A q \in Measured(s) : q \in st.has /\ q[1] \notin Commands
  BY DEF Measured
<1>3. slots \subseteq SlotsOf(st) /\ \A x \in slots : f[x] \in st.has
  BY <1>1, <1>2 DEF SlotsOf
<1>4. Unambiguous(st) => \A x \in slots : f[x] = x
  BY <1>1, <1>2 DEF Unambiguous
<1> HIDE DEF slots
<1> QED
  BY <1>1, <1>3, <1>4 DEF Dictionary

\* KNX finds in the id the address it was made from.
LEMMA AddressFound ==
    ASSUME NEW q, Addressed(q), NEW id, id = <<"dev", "knx", q[1]>> \o q[2] \o <<"ep", "value">>
    PROVE  KnxAddress(id) = q[2]
<1>1. PICK a \in Digits, b \in Digits, c \in Digits : q[2] = <<a, b, c>>
  BY DEF Addressed
<1> DEFINE front == <<"dev", "knx", q[1]>>
           ga == <<a, b, c>>
           back == <<"ep", "value">>
           S == {"dev", "knx", q[1], a, b, c, "ep", "value"}
<1>2. front \in Seq(S) /\ ga \in Seq(S) /\ back \in Seq(S)
  OBVIOUS
<1>3. /\ Len(front) = 3 /\ Len(ga) = 3 /\ Len(back) = 2
      /\ front[3] = q[1] /\ ga[1] = a /\ ga[2] = b /\ ga[3] = c
  OBVIOUS
<1>4. id = (front \o ga) \o back
  BY <1>1
<1> HIDE DEF front, ga, back, S
<1>5. /\ front \o ga \in Seq(S) /\ Len(front \o ga) = 6
      /\ \A n \in 1..6 : (front \o ga)[n] = IF n <= 3 THEN front[n] ELSE ga[n - 3]
  <2>1. /\ front \o ga \in Seq(S) /\ Len(front \o ga) = Len(front) + Len(ga)
        /\ \A n \in 1..(Len(front) + Len(ga)) :
              (front \o ga)[n] = IF n <= Len(front) THEN front[n] ELSE ga[n - Len(front)]
    BY <1>2, ConcatProperties
  <2> QED
    BY <1>3, <2>1
<1> DEFINE both == front \o ga
<1>6. /\ both \in Seq(S) /\ Len(both) = 6
      /\ both[3] = q[1] /\ both[4] = a /\ both[5] = b /\ both[6] = c
  BY <1>3, <1>5
<1>7. id = both \o back
  BY <1>4
<1> HIDE DEF both
<1>8. /\ Len(id) = 8
      /\ \A n \in 1..8 : id[n] = IF n <= 6 THEN both[n] ELSE back[n - 6]
  <2>1. /\ Len(both \o back) = Len(both) + Len(back)
        /\ \A n \in 1..(Len(both) + Len(back)) :
              (both \o back)[n] = IF n <= Len(both) THEN both[n] ELSE back[n - Len(both)]
    BY <1>2, <1>6, ConcatProperties
  <2>2. Len(both) = 6 /\ Len(back) = 2 /\ Len(both) + Len(back) = 8
    BY <1>3, <1>6
  <2> QED
    BY <1>7, <2>1, <2>2
<1>9. Len(id) = 8 /\ id[3] = q[1] /\ id[4] = a /\ id[5] = b /\ id[6] = c
  BY <1>6, <1>8
<1> DEFINE numeric == {i \in 3..(Len(id) - 4) : \A k \in 0..2 : id[i + k] \in Digits}
           least == CHOOSE i \in numeric : \A j \in numeric : i <= j
<1>10. numeric = {4}
  <2>1. numeric \subseteq {3, 4}
    BY <1>9
  <2>2. 3 \notin numeric
    BY <1>9 DEF Addressed
  <2>3. 4 \in numeric
    <3>1. id[4 + 0] = a /\ id[4 + 1] = b /\ id[4 + 2] = c
      BY <1>9
    <3>2. \A k \in 0..2 : k = 0 \/ k = 1 \/ k = 2
      OBVIOUS
    <3>3. \A k \in 0..2 : id[4 + k] \in Digits
      BY <3>1, <3>2
    <3> QED
      BY <1>9, <3>3
  <2> HIDE DEF numeric
  <2> QED
    BY <2>1, <2>2, <2>3
<1>11. KnxAddress(id) = IF numeric = {} THEN Nothing
                        ELSE <<id[least], id[least + 1], id[least + 2]>>
  BY DEF KnxAddress
<1> HIDE DEF numeric
<1>12. least = 4 /\ least + 1 = 5 /\ least + 2 = 6 /\ numeric # {}
  BY <1>10
<1> HIDE DEF least
<1>13. KnxAddress(id) = <<id[least], id[least + 1], id[least + 2]>>
  BY <1>11, <1>12
<1>14. KnxAddress(id) = <<id[4], id[5], id[6]>>
  BY <1>12, <1>13
<1> QED
  BY <1>1, <1>9, <1>14

---------------------------------------------------------------------------
(* Every inventory lists what there is under the ids made from it.         *)

LEMMA PointLists ==
    ASSUME NEW st, NEW q \in st.has, NEW id \in Ids(st, q),
           NEW readable \in BOOLEAN, NEW writable \in BOOLEAN,
           st.adapter \notin {"kincony", "onvif", "esphome", "dnp3"}
    PROVE  Lists(st, Point(id, q, readable, writable))
BY DEF Lists, Point, SlotsOf

LEMMA InventoryLists ==
    ASSUME site \in Sites, NEW s, Meets(s), NEW points \in Inventories(s), NEW p \in points
    PROVE  Lists(site, p)
<1>1. A \in Names /\ A = site.adapter
  BY Installation
<1>2. /\ s.has \subseteq site.has /\ s.listed = site.has
      /\ s.name = site.name /\ s.instance = site.instance
      /\ A # "dnp3" => DOMAIN s.known \subseteq site.has
      /\ A # "dnp3" => DOMAIN OpcUaBrowsed(s) \subseteq site.has
  BY BrowsedIsDictionary DEF Meets, Dictionary, A
<1>3. CASE A = "shelly"
  <2>1. PICK q \in site.has :
           p = Point(site.name \o <<q[1], q[2], ShellySuffix[q[3]]>>, q, TRUE,
                     q[3] \in {"output", "current_pos"})
    BY <1>2, <1>3 DEF Inventories, ShellyPoints
  <2> DEFINE id == site.name \o <<q[1], q[2], ShellySuffix[q[3]]>>
             rd == TRUE
             wr == q[3] \in {"output", "current_pos"}
  <2>2. rd \in BOOLEAN /\ wr \in BOOLEAN /\ id \in Ids(site, q)
    BY <1>1, <1>3 DEF Ids
  <2>3. p = Point(id, q, rd, wr)
    BY <2>1
  <2> HIDE DEF id, rd, wr
  <2> QED
    BY <1>1, <1>3, <2>2, <2>3, PointLists
<1>4. CASE A = "hue"
  <2>1. PICK q \in site.has :
           p = Point(<<"dev", "hue", q[2], q[1], HueSuffix[q[3]]>>, q, TRUE,
                     TRUE)
    BY <1>2, <1>4 DEF Inventories, HuePoints
  <2> DEFINE id == <<"dev", "hue", q[2], q[1], HueSuffix[q[3]]>>
             rd == TRUE
             wr == TRUE
  <2>2. rd \in BOOLEAN /\ wr \in BOOLEAN /\ id \in Ids(site, q)
    BY <1>1, <1>4 DEF Ids
  <2>3. p = Point(id, q, rd, wr)
    BY <2>1
  <2> HIDE DEF id, rd, wr
  <2> QED
    BY <1>1, <1>4, <2>2, <2>3, PointLists
<1>5. CASE A = "modbus"
  <2>1. PICK q \in site.has :
           p = Point(q, q, TRUE,
                     q[3] = "rw")
    BY <1>2, <1>5 DEF Inventories, ModbusPoints
  <2> DEFINE id == q
             rd == TRUE
             wr == q[3] = "rw"
  <2>2. rd \in BOOLEAN /\ wr \in BOOLEAN /\ id \in Ids(site, q)
    BY <1>1, <1>5 DEF Ids
  <2>3. p = Point(id, q, rd, wr)
    BY <2>1
  <2> HIDE DEF id, rd, wr
  <2> QED
    BY <1>1, <1>5, <2>2, <2>3, PointLists
<1>6. CASE A = "bacnet"
  <2>1. PICK q \in site.has :
           p = Point(site.name \o site.instance \o q, q, TRUE,
                     q[1] \in Written)
    BY <1>2, <1>6 DEF Inventories, BacnetPoints
  <2> DEFINE id == site.name \o site.instance \o q
             rd == TRUE
             wr == q[1] \in Written
  <2>2. rd \in BOOLEAN /\ wr \in BOOLEAN /\ id \in Ids(site, q)
    BY <1>1, <1>6 DEF Ids
  <2>3. p = Point(id, q, rd, wr)
    BY <2>1
  <2> HIDE DEF id, rd, wr
  <2> QED
    BY <1>1, <1>6, <2>2, <2>3, PointLists
<1>7. CASE A = "knx"
  <2>1. PICK q \in site.has :
           p = Point(<<"dev", "knx", q[1]>> \o q[2] \o <<"ep", "value">>, q, TRUE,
                     q[3] \notin KnxSensors)
    BY <1>2, <1>7 DEF Inventories, KnxPoints
  <2> DEFINE id == <<"dev", "knx", q[1]>> \o q[2] \o <<"ep", "value">>
             rd == TRUE
             wr == q[3] \notin KnxSensors
  <2>2. rd \in BOOLEAN /\ wr \in BOOLEAN /\ id \in Ids(site, q)
    BY <1>1, <1>7 DEF Ids
  <2>3. p = Point(id, q, rd, wr)
    BY <2>1
  <2> HIDE DEF id, rd, wr
  <2> QED
    BY <1>1, <1>7, <2>2, <2>3, PointLists
<1>8. CASE A = "opcua"
  <2>1. PICK q \in site.has :
           p = Point(q, q, TRUE,
                     q[3] = "rw")
    BY <1>2, <1>8 DEF Inventories, OpcUaPoints
  <2> DEFINE id == q
             rd == TRUE
             wr == q[3] = "rw"
  <2>2. rd \in BOOLEAN /\ wr \in BOOLEAN /\ id \in Ids(site, q)
    BY <1>1, <1>8 DEF Ids
  <2>3. p = Point(id, q, rd, wr)
    BY <2>1
  <2> HIDE DEF id, rd, wr
  <2> QED
    BY <1>1, <1>8, <2>2, <2>3, PointLists
<1>9. CASE A = "zigbee"
  <2>1. PICK q \in site.has :
           p = Point(q, q, q[3] \in {"r", "rw"},
                     q[3] \in {"w", "rw"})
    BY <1>2, <1>9 DEF Inventories, ZigbeePoints
  <2> DEFINE id == q
             rd == q[3] \in {"r", "rw"}
             wr == q[3] \in {"w", "rw"}
  <2>2. rd \in BOOLEAN /\ wr \in BOOLEAN /\ id \in Ids(site, q)
    BY <1>1, <1>9 DEF Ids
  <2>3. p = Point(id, q, rd, wr)
    BY <2>1
  <2> HIDE DEF id, rd, wr
  <2> QED
    BY <1>1, <1>9, <2>2, <2>3, PointLists
<1>10. CASE A = "zwave"
  <2>1. PICK q \in site.has :
           p = Point(q, q, q[3] \in {"r", "rw"},
                     q[3] \in {"w", "rw"})
    BY <1>2, <1>10 DEF Inventories, ZWavePoints
  <2> DEFINE id == q
             rd == q[3] \in {"r", "rw"}
             wr == q[3] \in {"w", "rw"}
  <2>2. rd \in BOOLEAN /\ wr \in BOOLEAN /\ id \in Ids(site, q)
    BY <1>1, <1>10 DEF Ids
  <2>3. p = Point(id, q, rd, wr)
    BY <2>1
  <2> HIDE DEF id, rd, wr
  <2> QED
    BY <1>1, <1>10, <2>2, <2>3, PointLists
<1>11. CASE A = "matter"
  <2>1. PICK q \in site.has :
           p = Point(q, q, TRUE,
                     q[3] = "rw")
    BY <1>2, <1>11 DEF Inventories, MatterPoints
  <2> DEFINE id == q
             rd == TRUE
             wr == q[3] = "rw"
  <2>2. rd \in BOOLEAN /\ wr \in BOOLEAN /\ id \in Ids(site, q)
    BY <1>1, <1>11 DEF Ids
  <2>3. p = Point(id, q, rd, wr)
    BY <2>1
  <2> HIDE DEF id, rd, wr
  <2> QED
    BY <1>1, <1>11, <2>2, <2>3, PointLists
<1>12. CASE A = "lutron"
  <2>1. PICK q \in site.has :
           p = Point(q, q, TRUE,
                     q[3] = "rw")
    BY <1>2, <1>12 DEF Inventories, LutronPoints
  <2> DEFINE id == q
             rd == TRUE
             wr == q[3] = "rw"
  <2>2. rd \in BOOLEAN /\ wr \in BOOLEAN /\ id \in Ids(site, q)
    BY <1>1, <1>12 DEF Ids
  <2>3. p = Point(id, q, rd, wr)
    BY <2>1
  <2> HIDE DEF id, rd, wr
  <2> QED
    BY <1>1, <1>12, <2>2, <2>3, PointLists
<1>13. CASE A = "mqtt"
  <2>1. PICK q \in site.has :
           p = Point(q, q, TRUE,
                     q[3] = "rw")
    BY <1>2, <1>13 DEF Inventories, MqttPoints
  <2> DEFINE id == q
             rd == TRUE
             wr == q[3] = "rw"
  <2>2. rd \in BOOLEAN /\ wr \in BOOLEAN /\ id \in Ids(site, q)
    BY <1>1, <1>13 DEF Ids
  <2>3. p = Point(id, q, rd, wr)
    BY <2>1
  <2> HIDE DEF id, rd, wr
  <2> QED
    BY <1>1, <1>13, <2>2, <2>3, PointLists
<1>14. CASE A = "esphome"
  <2>1. PICK q \in site.has : /\ q[1] \in Reports \cup Obeys
                             /\ p = Point(site.name \o q, q, q[1] \in Reports, q[1] \in Obeys)
    BY <1>2, <1>14 DEF Inventories, EspHomePoints
  <2> DEFINE id == site.name \o q
             rd == q[1] \in Reports
             wr == q[1] \in Obeys
  <2>2. rd \in BOOLEAN /\ wr \in BOOLEAN /\ id \in Ids(site, q)
    BY <1>1, <1>14 DEF Ids
  <2>3. p = Point(id, q, rd, wr) /\ q[1] \in Reports \cup Obeys
    BY <2>1
  <2> HIDE DEF id, rd, wr
  <2> QED
    BY <1>1, <1>14, <2>2, <2>3 DEF Lists, Point, SlotsOf
<1>15. CASE A = "kincony"
  <2>1. PICK q \in site.has, x \in {"state", "raw", "voltage"}, w \in BOOLEAN :
           /\ q[1] \in Channels /\ (q[1] = "ainput" <=> x # "state")
           /\ q[1] # "ainput" => q[3] = "channel"
           /\ p = Point(site.name \o <<q[1], q[2], x>>, q, TRUE, w)
    <3>1. \/ \E q \in site.has :
                /\ q[1] \in {"relay", "dinput"} /\ q[3] = "channel"
                /\ p = Point(site.name \o <<q[1], q[2], "state">>, q, TRUE, q[1] = "relay")
          \/ \E q \in site.has, x \in {"raw", "voltage"} :
                q[1] = "ainput" /\ p = Point(site.name \o <<q[1], q[2], x>>, q, TRUE, q[1] = "relay")
      <4> DEFINE point(q, suffix) == Point(s.name \o <<q[1], q[2], suffix>>, q, TRUE, q[1] = "relay")
                 digital == {q \in s.listed : q[1] \in {"relay", "dinput"} /\ q[3] = "channel"}
                 analog == {q \in s.listed : q[1] = "ainput"}
      <4>1. KinConyPoints(s) = {point(q, "state") : q \in digital}
                               \cup {point(q, suffix) : q \in analog, suffix \in {"raw", "voltage"}}
        BY DEF KinConyPoints
      <4>2. points = KinConyPoints(s)
        BY <1>15 DEF Inventories
      <4> HIDE DEF point
      <4>3. \/ \E q \in digital : p = point(q, "state")
            \/ \E q \in analog, x \in {"raw", "voltage"} : p = point(q, x)
        BY <4>1, <4>2
      <4>4. \A q, x : point(q, x) = Point(site.name \o <<q[1], q[2], x>>, q, TRUE, q[1] = "relay")
        BY <1>2 DEF point
      <4> QED
        BY <1>2, <4>3, <4>4
    <3>2. ASSUME NEW q \in site.has, NEW x,
                 p = Point(site.name \o <<q[1], q[2], x>>, q, TRUE, q[1] = "relay")
          PROVE  \E w \in BOOLEAN : p = Point(site.name \o <<q[1], q[2], x>>, q, TRUE, w)
      <4> DEFINE wr == q[1] = "relay"
                 id == site.name \o <<q[1], q[2], x>>
      <4>1. wr \in BOOLEAN /\ p = Point(id, q, TRUE, wr)
        BY <3>2
      <4> HIDE DEF wr, id
      <4>2. \E w \in BOOLEAN : p = Point(id, q, TRUE, w)
        BY <4>1
      <4> QED
        BY <4>2 DEF id
    <3>3. CASE \E q \in site.has :
                /\ q[1] \in {"relay", "dinput"} /\ q[3] = "channel"
                /\ p = Point(site.name \o <<q[1], q[2], "state">>, q, TRUE, q[1] = "relay")
      BY <3>2, <3>3 DEF Channels
    <3>4. CASE \E q \in site.has, x \in {"raw", "voltage"} :
                q[1] = "ainput" /\ p = Point(site.name \o <<q[1], q[2], x>>, q, TRUE, q[1] = "relay")
      BY <3>2, <3>4 DEF Channels
    <3> QED
      BY <3>1, <3>3, <3>4
  <2> DEFINE id == site.name \o <<q[1], q[2], x>>
  <2>2. id \in Ids(site, q)
    BY <1>1, <1>15, <2>1 DEF Ids
  <2>3. q[3] = "channel"
    BY <1>15, <2>1, Installation DEF Vocabulary
  <2>4. p = Point(id, q, TRUE, w) /\ q[1] \in Channels
    BY <2>1
  <2> HIDE DEF id
  <2> QED
    BY <1>1, <1>15, <2>2, <2>3, <2>4 DEF Lists, Point, SlotsOf
<1>16. CASE A = "onvif"
  <2>1. \E q \in site.has : q[3] # "image" /\ p = Point(q, q, TRUE, FALSE)
    BY <1>2, <1>16 DEF Inventories, OnvifPoints
  <2> QED
    BY <1>1, <1>16, <2>1 DEF Lists, Point, SlotsOf, Ids
<1>17. CASE A = "dnp3"
  <2>1. PICK q \in SlotsOf(site) :
           p = Point(site.name \o q, q, q[1] \notin Commands,
                     q[1] \in Commands \cup {"binary_output", "analog_output"})
    BY <1>2, <1>17 DEF Inventories, Dnp3Points, Meets, Dictionary
  <2> DEFINE id == site.name \o q
             rd == q[1] \notin Commands
             wr == q[1] \in Commands \cup {"binary_output", "analog_output"}
  <2>2. rd \in BOOLEAN /\ wr \in BOOLEAN /\ id \in Ids(site, q)
    BY <1>1, <1>17 DEF Ids
  <2>3. p = Point(id, q, rd, wr) /\ (rd => q[1] \notin Commands)
    BY <2>1
  <2> HIDE DEF id, rd, wr
  <2> QED
    BY <1>1, <1>17, <2>2, <2>3 DEF Lists, Point
<1> QED
  BY <1>1, <1>3, <1>4, <1>5, <1>6, <1>7, <1>8,
     <1>9, <1>10, <1>11, <1>12, <1>13, <1>14, <1>15, <1>16, <1>17 DEF Names

---------------------------------------------------------------------------
(* Every reading is of what the id was made from.                          *)

Qualities == {"good", "stale", "bad", "raises"}

\* A reading of the point p leaves a dictionary and claims no other value but one
\* that is made up.
AnswersFor(st, s, p, r) ==
    /\ Dictionary(st, r.known)
    /\ r.answer.quality \in Qualities /\ r.answer.of \in st.has \cup {Nothing, Default, Asked}
    /\ Unambiguous(st) /\ r.answer.quality = "good" =>
          \/ r.answer.of = p.native
          \/ /\ r.answer.of = Default /\ st.adapter \in {"shelly", "hue", "kincony"}
             /\ p.native \in st.has \ s.has
          \/ r.answer.of = Asked /\ st.adapter \in {"knx", "dnp3"}

LEMMA IsReported ==
    ASSUME NEW s, Meets(s), NEW p, p.native \in site.has, A \in {"shelly", "hue", "kincony"}
    PROVE  AnswersFor(site, s, p, Reading(Reported(p.native, s), s.known))
BY DEF AnswersFor, Reading, Reported, Good, Raises, Qualities, Meets, A

LEMMA IsRequested ==
    ASSUME NEW s, Meets(s), NEW p
    PROVE  AnswersFor(site, s, p, Reading(Requested(p.native, s), s.known))
BY DEF AnswersFor, Reading, Requested, Good, Raises, Qualities, Meets

LEMMA NotRead ==
    ASSUME NEW s, Meets(s), NEW p, NEW a \in {Stale, Bad, Raises}
    PROVE  AnswersFor(site, s, p, Reading(a, s.known))
BY DEF AnswersFor, Reading, Stale, Bad, Raises, Qualities, Meets

\* Of something in the dictionary.
LEMMA FromMemory ==
    ASSUME NEW s, NEW t, Dictionary(site, t.known), NEW p,
           NEW q, q \in DOMAIN t.known /\ Unambiguous(site) => q = p.native
    PROVE  AnswersFor(site, s, p, Reading(Recalled(Remembers(t, q)), t.known))
<1>1. \/ Remembers(t, q) = Nothing
      \/ Remembers(t, q) \in site.has /\ (Unambiguous(site) => Remembers(t, q) = p.native)
      \/ Remembers(t, q) = Asked /\ site.adapter \in {"knx", "dnp3"}
  BY DEF Dictionary, Remembers
<1> QED
  BY <1>1 DEF AnswersFor, Reading, Recalled, Good, Stale, Qualities

\* Of an object that answers, which is then in the dictionary.
LEMMA FromTheBus ==
    ASSUME NEW s, Meets(s), NEW p, NEW q \in s.has, Unambiguous(site) => q = p.native
    PROVE  AnswersFor(site, s, p, Reading(Good(q), Learns(s, q, q)))
<1>1. q \in site.has /\ q \in SlotsOf(site)
  BY DEF Meets, SlotsOf
<1>2. Dictionary(site, Learns(s, q, q))
  BY <1>1, LearnsIsDictionary DEF Meets
<1> QED
  BY <1>1, <1>2 DEF AnswersFor, Reading, Good, Qualities

---------------------------------------------------------------------------
(* What the ids are cut into.                                              *)

LEMMA ShellyFinds ==
    ASSUME site \in Sites, A = "shelly", NEW s, NEW p, Lists(site, p)
    PROVE  /\ ShellyRead(p.id, s) \in {Reported(p.native, s), Raises}
           /\ p.native[3] \notin {"aenergy", "motor"} => ShellyRead(p.id, s) = Reported(p.native, s)
<1> DEFINE a == p.native[1]
           b == p.native[2]
           x == ShellySuffix[p.native[3]]
<1>1. p.native \in site.has /\ p.id = site.name \o <<a, b, x>>
  BY DEF Lists, Ids, A
<1>2. p.native = <<a, b, p.native[3]>> /\ b \notin Cuts /\ <<a, p.native[3]>> \in ShellyKeys
  BY <1>1, Installation DEF Vocabulary
<1>3. ASSUME NEW w \in {"switch", "input", "cover"}
      PROVE  (Has(p.id, w) <=> a = w) /\ (a = w => After(p.id, w) = b) /\ Ending(p.id) = x
  <2>1. w \in Cuts
    BY DEF Cuts
  <2>2. site.name \in Seq(STRING) /\ site.name # <<>> /\ \A k \in DOMAIN site.name : site.name[k] # w
    BY <2>1, Installation
  <2>3. b # w
    BY <1>2, <2>1
  <2> HIDE DEF a, b, x
  <2>4. LET id == site.name \o <<a, b, x>> IN
        (Has(id, w) <=> a = w) /\ (a = w => After(id, w) = b) /\ Ending(id) = x
    BY <2>2, <2>3, PointWords
  <2> QED
    BY <1>1, <2>4
<1>4. /\ (Has(p.id, "switch") <=> a = "switch") /\ (a = "switch" => After(p.id, "switch") = b)
      /\ (Has(p.id, "input") <=> a = "input") /\ (a = "input" => After(p.id, "input") = b)
      /\ (Has(p.id, "cover") <=> a = "cover") /\ (a = "cover" => After(p.id, "cover") = b)
      /\ Ending(p.id) = x
  BY <1>3
<1> QED
  BY <1>2, <1>4 DEF ShellyRead, ShellyKeys, ShellySuffix

LEMMA HueFinds ==
    ASSUME site \in Sites, A = "hue", NEW s, NEW p, Lists(site, p)
    PROVE  /\ HueRead(p.id, s) \in {Reported(p.native, s), Raises}
           /\ p.native[3] \notin {"mirek", "xy"} /\ p.native \in s.has =>
                 HueRead(p.id, s) = Reported(p.native, s)
<1> DEFINE n == p.native[2]
           x == HueSuffix[p.native[3]]
<1>1. p.native \in site.has /\ p.id = <<"dev", "hue", n, p.native[1], x>>
  BY DEF Lists, Ids, A
<1>2. /\ p.native = <<"light", n, p.native[3]>> /\ n # "light"
      /\ p.native[3] \in DOMAIN HueSuffix /\ p.native[1] = "light"
  BY <1>1, Installation DEF Vocabulary, Cuts
<1>3. /\ Has(p.id, "light") /\ After(p.id, "hue") = n /\ Ending(p.id) = x
  <2>1. p.id = <<"dev", "hue", n, "light", x>> /\ n # "light"
    BY <1>1, <1>2
  <2> HIDE DEF n, x
  <2>2. /\ Has(<<"dev", "hue", n, "light", x>>, "light")
        /\ After(<<"dev", "hue", n, "light", x>>, "hue") = n
        /\ Ending(<<"dev", "hue", n, "light", x>>) = x
    BY <2>1, HueWords
  <2> QED
    BY <2>1, <2>2
<1>4. x \in {"on", "brightness"} <=> p.native[3] \notin {"mirek", "xy"}
  BY <1>2 DEF HueSuffix
<1>5. x \in {"on", "brightness"} => p.native = <<"light", n>> \o <<x>>
  <2>1. x \in {"on", "brightness"} => p.native[3] = x
    BY <1>2 DEF HueSuffix
  <2>2. <<"light", n>> \o <<x>> = <<"light", n, x>>
    BY Appended
  <2> QED
    BY <1>2, <2>1, <2>2
<1>6. p.native \in s.has => <<"light", n>> \in {EndpointOf(q) : q \in s.has}
  BY <1>2 DEF EndpointOf
<1>7. HueRead(p.id, s) =
        IF x \in {"on", "brightness"} /\ <<"light", n>> \in {EndpointOf(q) : q \in s.has}
        THEN Reported(<<"light", n>> \o <<x>>, s) ELSE Raises
  BY <1>3 DEF HueRead
<1> HIDE DEF n, x
<1> QED
  BY <1>4, <1>5, <1>6, <1>7

LEMMA EspHomeFinds ==
    ASSUME site \in Sites, A = "esphome", NEW s, s.name = site.name, NEW p, Lists(site, p)
    PROVE  EspHomeRead(p.id, s) = Requested(p.native, s)
<1> DEFINE a == p.native[1]
           b == p.native[2]
           c == p.native[3]
<1>1. p.native \in site.has /\ p.id = site.name \o p.native
  BY DEF Lists, Ids, A
<1>2. p.native = <<a, b, c>> /\ c = "state" /\ a \in Reports \cup Obeys
  BY <1>1, Installation DEF Vocabulary, Lists, A
<1>3. site.name \in Seq(STRING) /\ p.id = site.name \o <<a, b, c>>
  BY <1>1, <1>2, Installation
<1> HIDE DEF a, b, c
<1>4. p.id[Len(site.name) + 1] = a /\ p.id[Len(site.name) + 2] = b
  BY <1>3, GluedThree
<1> QED
  BY <1>2, <1>4 DEF EspHomeRead, EspHomeEntity

LEMMA KinConyFinds ==
    ASSUME site \in Sites, A = "kincony", NEW s, NEW p, Lists(site, p)
    PROVE  KinConyRead(p.id, s) = Reported(p.native, s)
<1> DEFINE a == p.native[1]
           b == p.native[2]
<1>1. p.native \in site.has /\ a \in Channels /\ p.native[3] = "channel"
  BY DEF Lists, A
<1>2. PICK x \in {"state", "raw", "voltage"} :
         p.id = site.name \o <<a, b, x>> /\ (a = "ainput" <=> x # "state")
  BY DEF Lists, Ids, A
<1>3. p.native = <<a, b, "channel">> /\ b \notin Cuts /\ b \in Digits
  BY <1>1, Installation DEF Vocabulary, Channels
<1>4. ASSUME NEW w \in Channels
      PROVE  (Has(p.id, w) <=> a = w) /\ (a = w => After(p.id, w) = b) /\ Ending(p.id) = x
  <2>1. w \in Cuts
    BY DEF Cuts
  <2>2. site.name \in Seq(STRING) /\ site.name # <<>> /\ \A k \in DOMAIN site.name : site.name[k] # w
    BY <2>1, Installation
  <2>3. b # w
    BY <1>3, <2>1
  <2> HIDE DEF a, b
  <2> DEFINE name == site.name
  <2>4. /\ name \in Seq(STRING) /\ name # <<>> /\ b # w
        /\ \A k \in DOMAIN name : name[k] # w
    BY <2>2, <2>3
  <2> HIDE DEF name
  <2>5. LET id == name \o <<a, b, x>> IN
        /\ Has(id, w) <=> a = w
        /\ a = w => After(id, w) = b
        /\ Ending(id) = x
    BY <2>4, PointWords, Z3
  <2> QED
    BY <1>2, <2>5 DEF name
<1>5. /\ (Has(p.id, "relay") <=> a = "relay") /\ (a = "relay" => After(p.id, "relay") = b)
      /\ (Has(p.id, "dinput") <=> a = "dinput") /\ (a = "dinput" => After(p.id, "dinput") = b)
      /\ (Has(p.id, "ainput") <=> a = "ainput") /\ (a = "ainput" => After(p.id, "ainput") = b)
      /\ Ending(p.id) = x
  BY <1>4 DEF Channels
<1>6. a = "relay" \/ a = "dinput" \/ a = "ainput"
  BY <1>1 DEF Channels
<1> QED
  BY <1>2, <1>3, <1>5, <1>6 DEF KinConyRead, ChannelAfter

\* The instance of a BACnet device hides its objects.
LEMMA BacnetFinds ==
    ASSUME site \in Sites, A = "bacnet", NEW s, s.name = site.name, NEW p, Lists(site, p)
    PROVE  /\ site.instance = <<>> => BacnetReads(p.id, s) = BacnetProperty(p.native, s)
           /\ site.instance # <<>> => BacnetReads(p.id, s) = {Reading(Raises, s.known)}
<1> DEFINE a == p.native[1]
           b == p.native[2]
           c == p.native[3]
           front == site.name \o site.instance
<1>1. p.native \in site.has /\ p.id = front \o p.native
  BY DEF Lists, Ids, A
<1>2. p.native = <<a, b, c>> /\ c = "pv" /\ a \notin Digits /\ b \in Digits
  BY <1>1, Installation DEF Vocabulary
<1>3. /\ site.name \in Seq(STRING) /\ site.instance \in Seq(STRING) /\ Len(site.instance) <= 1
      /\ front \in Seq(STRING) /\ Len(front) = Len(site.name) + Len(site.instance)
      /\ Len(site.name) \in Nat /\ Len(site.instance) \in Nat
  BY Installation, ConcatProperties
<1>4. p.id = front \o <<a, b, c>>
  BY <1>1, <1>2
<1> HIDE DEF a, b, c, front
<1>5. p.id[Len(front) + 1] = a /\ p.id[Len(front) + 2] = b
  <2> front \in Seq(STRING)
    BY <1>3
  <2>1. LET id == front \o <<a, b, c>> IN id[Len(front) + 1] = a /\ id[Len(front) + 2] = b
    BY GluedThree
  <2> QED
    BY <1>4, <2>1
<1>6. CASE site.instance = <<>>
  <2>1. Len(site.instance) = 0 /\ Len(front) = Len(site.name)
    BY <1>3, <1>6
  <2>2. p.id[Len(s.name) + 1] = a /\ p.id[Len(s.name) + 2] = b
    BY <1>5, <2>1
  <2> QED
    BY <1>2, <1>6, <2>2 DEF BacnetReads
<1>7. CASE site.instance # <<>>
  <2>1. Len(site.instance) = 1
    <3> DEFINE l == Len(site.instance)
    <3>1. l \in Nat \ {0} /\ l <= 1
      BY <1>3, <1>7, EmptySeq
    <3> HIDE DEF l
    <3>2. l = 1
      BY <3>1
    <3> QED
      BY <3>2 DEF l
  <2>2. Len(front) + 1 = Len(s.name) + 2
    BY <1>3, <2>1
  <2>3. p.id[Len(s.name) + 2] = a
    BY <1>5, <2>2
  <2> QED
    BY <1>2, <1>7, <2>3 DEF BacnetReads
<1> QED
  BY <1>6, <1>7

LEMMA Dnp3Finds ==
    ASSUME site \in Sites, A = "dnp3", NEW s, NEW p, Lists(site, p)
    PROVE  Dnp3Reads(p.id, s) = Dnp3Value(p.native, s)
<1> DEFINE a == p.native[1]
           b == p.native[2]
           c == p.native[3]
<1>1. p.native \in SlotsOf(site) /\ p.id = site.name \o p.native
  BY DEF Lists, Ids, A
<1>2. p.native = <<a, b, c>> /\ c = "value"
  <2>1. \A q \in site.has : q = <<q[1], q[2], "value">>
    BY Installation DEF Vocabulary
  <2> QED
    BY <1>1, <2>1 DEF SlotsOf, Filed
<1>3. site.name \in Seq(STRING) /\ p.id = site.name \o <<a, b, c>>
  BY <1>1, <1>2, Installation
<1> HIDE DEF a, b, c
<1>4. /\ Len(p.id) = Len(site.name) + 3 /\ Len(site.name) \in Nat
      /\ p.id[Len(site.name) + 1] = a /\ p.id[Len(site.name) + 2] = b
  BY <1>3, GluedThree
<1>5. Len(p.id) - 2 = Len(site.name) + 1 /\ Len(p.id) - 1 = Len(site.name) + 2
  BY <1>4
<1>6. p.id[Len(p.id) - 2] = a /\ p.id[Len(p.id) - 1] = b
  BY <1>4, <1>5
<1> QED
  BY <1>2, <1>6 DEF Dnp3Reads

---------------------------------------------------------------------------
(* What a reading answers.                                                 *)

LEMMA HttpReading ==
    ASSUME site \in Sites, A \in {"shelly", "hue", "esphome", "kincony"},
           NEW s, Meets(s), NEW p, Lists(site, p), NEW r \in Reads(p.id, s)
    PROVE  AnswersFor(site, s, p, r)
<1>1. p.native \in site.has
  BY DEF Lists, A
<1>2. CASE A = "shelly"
  <2>1. r = Reading(ShellyRead(p.id, s), s.known)
    BY <1>2 DEF Reads
  <2> QED
    BY <1>1, <1>2, <2>1, ShellyFinds, IsReported, NotRead
<1>3. CASE A = "hue"
  <2>1. r = Reading(HueRead(p.id, s), s.known)
    BY <1>3 DEF Reads
  <2> QED
    BY <1>1, <1>3, <2>1, HueFinds, IsReported, NotRead
<1>4. CASE A = "esphome"
  <2>1. r = Reading(EspHomeRead(p.id, s), s.known)
    BY <1>4 DEF Reads
  <2>2. EspHomeRead(p.id, s) = Requested(p.native, s)
    BY <1>4, EspHomeFinds DEF Meets
  <2> QED
    BY <2>1, <2>2, IsRequested
<1>5. CASE A = "kincony"
  <2>1. r = Reading(KinConyRead(p.id, s), s.known)
    BY <1>5 DEF Reads
  <2> QED
    BY <1>1, <1>5, <2>1, KinConyFinds, IsReported
<1> QED
  BY <1>2, <1>3, <1>4, <1>5

LEMMA WholeIdReading ==
    ASSUME site \in Sites, A \in {"onvif", "modbus"},
           NEW s, Meets(s), NEW p, Lists(site, p), NEW r \in Reads(p.id, s)
    PROVE  AnswersFor(site, s, p, r)
<1>1. p.native \in site.has /\ p.id = p.native
  BY DEF Lists, Ids, A
<1>2. AnswersFor(site, s, p, Reading(Good(p.native), s.known))
  BY <1>1 DEF AnswersFor, Reading, Good, Qualities, Meets
<1>3. CASE A = "onvif"
  <2>1. r = Reading(OnvifRead(p.id, s), s.known)
    BY <1>3 DEF Reads
  <2>2. Ending(p.id) = "uri" => p.native = <<"stream", "main", "uri">>
    <3>1. /\ p.native = <<p.native[1], p.native[2], p.native[3]>>
          /\ p.native[3] \in {"motion", "image"} \/ p.native = <<"stream", "main", "uri">>
      BY <1>1, <1>3, Installation DEF Vocabulary
    <3>2. Ending(p.id) = p.native[3]
      BY <1>1, <3>1 DEF Ending
    <3> QED
      BY <3>1, <3>2
  <2>3. OnvifRead(p.id, s) \in {Good(p.native), Bad, Raises}
    BY <2>2 DEF OnvifRead, OnvifStreamUri
  <2> QED
    BY <1>2, <2>1, <2>3, NotRead
<1>4. CASE A = "modbus"
  <2>1. \E a \in {Good(p.native), Bad, Raises} : r = Reading(a, s.known)
    BY <1>1, <1>4 DEF Reads, ModbusReads, ModbusRegister
  <2> QED
    BY <1>2, <2>1, NotRead
<1> QED
  BY <1>3, <1>4

LEMMA BacnetReading ==
    ASSUME site \in Sites, A = "bacnet",
           NEW s, Meets(s), NEW p, Lists(site, p), NEW r \in Reads(p.id, s)
    PROVE  AnswersFor(site, s, p, r)
<1>1. r \in BacnetReads(p.id, s)
  BY DEF Reads
<1>2. CASE site.instance = <<>>
  <2>1. r \in BacnetProperty(p.native, s)
    BY <1>1, <1>2, BacnetFinds DEF Meets
  <2>2. \/ p.native \in s.has /\ r = Reading(Good(p.native), Learns(s, p.native, p.native))
        \/ r = Reading(Recalled(Remembers(s, p.native)), s.known)
    BY <2>1 DEF BacnetProperty
  <2> QED
    BY <2>2, FromTheBus, FromMemory DEF Meets
<1>3. CASE site.instance # <<>>
  <2>1. BacnetReads(p.id, s) = {Reading(Raises, s.known)}
    BY <1>3, BacnetFinds DEF Meets
  <2>2. r = Reading(Raises, s.known)
    BY <1>1, <2>1
  <2> QED
    BY <2>2, NotRead
<1> QED
  BY <1>2, <1>3

LEMMA KnxReading ==
    ASSUME A = "knx", NEW s, Meets(s), NEW p, Lists(site, p), NEW r \in Reads(p.id, s)
    PROVE  AnswersFor(site, s, p, r)
<1>1. /\ p.native \in site.has /\ s.has \cup DOMAIN s.known \subseteq site.has
      /\ p.id = <<"dev", "knx", p.native[1]>> \o p.native[2] \o <<"ep", "value">>
  BY DEF Lists, Ids, A, Meets, Dictionary
<1>2. r \in KnxReads(p.id, s)
  BY DEF Reads
<1>3. CASE r = Reading(Stale, s.known)
  BY <1>3, NotRead
<1>4. CASE \E q \in s.has \cup DOMAIN s.known : q[2] = KnxAddress(p.id) /\ r = KnxGroup(q, s)
  <2>1. PICK q \in site.has : q[2] = KnxAddress(p.id) /\ r = KnxGroup(q, s)
    BY <1>1, <1>4
  <2>2. Unambiguous(site) => q = p.native
    <3> SUFFICES ASSUME Unambiguous(site) PROVE q = p.native
      OBVIOUS
    <3>1. Addressed(p.native) /\ \A x \in site.has : p.native[2] = x[2] => p.native = x
      BY <1>1 DEF Unambiguous, A
    <3>2. KnxAddress(p.id) = p.native[2]
      BY <1>1, <3>1, AddressFound
    <3> QED
      BY <2>1, <3>1, <3>2
  <2>3. \/ q \in s.has /\ r = Reading(Good(q), Learns(s, q, q))
        \/ r = Reading(Recalled(Remembers(s, q)), s.known)
    BY <2>1 DEF KnxGroup
  <2> QED
    BY <2>2, <2>3, FromTheBus, FromMemory DEF Meets
<1> QED
  BY <1>2, <1>3, <1>4 DEF KnxReads

\* The node asked for is nobody's.
LEMMA OpcUaReading ==
    ASSUME site \in Sites, A = "opcua", NEW s, Meets(s), NEW p, NEW r \in Reads(p.id, s)
    PROVE  AnswersFor(site, s, p, r)
<1>1. Nobody \notin s.has /\ Nobody \notin DOMAIN s.known
  BY SitesAssumption DEF SitesAssumption, Dictionary, Meets, A
<1>2. r \in OpcUaValue(Nobody, s)
  BY DEF Reads, OpcUaReads
<1>3. r = Reading(Recalled(Remembers(s, Nobody)), s.known)
  BY <1>1, <1>2 DEF OpcUaValue
<1> QED
  BY <1>1, <1>3, FromMemory DEF Meets

LEMMA Dnp3Reading ==
    ASSUME site \in Sites, A = "dnp3",
           NEW s, Meets(s), NEW p, Lists(site, p), NEW r \in Reads(p.id, s)
    PROVE  AnswersFor(site, s, p, r)
<1>1. r \in Dnp3Value(p.native, s)
  BY Dnp3Finds DEF Reads
<1>2. CASE r = Reading(Recalled(Remembers(s, p.native)), s.known)
  BY <1>2, FromMemory DEF Meets
<1>3. CASE \E k \in Dnp3Scans(s) : r = Reading(Recalled(Remembers([known |-> k], p.native)), k)
  <2>1. PICK k \in Dnp3Scans(s) : r = Reading(Recalled(Remembers([known |-> k], p.native)), k)
    BY <1>3
  <2> DEFINE t == [known |-> k]
  <2>2. Dictionary(site, t.known) /\ r = Reading(Recalled(Remembers(t, p.native)), t.known)
    BY <2>1, ScanIsDictionary DEF A, Meets
  <2> HIDE DEF t
  <2> QED
    BY <2>2, FromMemory
<1> QED
  BY <1>1, <1>2, <1>3 DEF Dnp3Value

LEMMA MqttReading ==
    ASSUME A = "mqtt", NEW s, Meets(s), NEW p, Lists(site, p), NEW r \in Reads(p.id, s)
    PROVE  AnswersFor(site, s, p, r)
<1>1. r = Reading(Stale, s.known) \/ \E q \in DOMAIN s.known : r = Reading(Good(q), s.known)
  BY DEF Reads, MqttReads
<1>2. ASSUME NEW q \in DOMAIN s.known, r = Reading(Good(q), s.known)
      PROVE  AnswersFor(site, s, p, r)
  <2>1. q \in site.has /\ p.native \in site.has
    BY DEF Meets, Dictionary, Lists, A
  <2>2. Unambiguous(site) => q = p.native
    BY <2>1 DEF Unambiguous, A
  <2> QED
    BY <1>2, <2>1, <2>2 DEF AnswersFor, Reading, Good, Qualities, Meets
<1> QED
  BY <1>1, <1>2, NotRead

LEMMA EveryReading ==
    ASSUME site \in Sites, NEW s, Meets(s), NEW p, Lists(site, p), NEW r \in Reads(p.id, s)
    PROVE  AnswersFor(site, s, p, r)
<1>1. A \in Names
  BY Installation
<1>2. CASE A \in {"zigbee", "zwave", "matter", "lutron"}
  BY <1>2, NotRead DEF Reads, ZigbeeRead, ZWaveRead, MatterRead, LutronRead
<1> QED
  BY <1>1, <1>2, HttpReading, WholeIdReading, BacnetReading, KnxReading, OpcUaReading, Dnp3Reading,
     MqttReading DEF Names

LEMMA EveryHealth ==
    ASSUME site \in Sites, NEW s, NEW h \in Healths(s)
    PROVE  h \in {"healthy", "degraded", "error", "offline"}
<1>1. A \in Names
  BY Installation
<1>2. CASE A \in {"shelly", "hue", "esphome", "kincony", "onvif"}
  BY <1>2 DEF Healths, ShellyHealth, HueHealth, EspHomeHealth, KinConyHealth, OnvifHealth
<1>3. CASE A \in {"modbus", "bacnet", "knx", "opcua", "dnp3"}
  BY <1>3 DEF Healths, ModbusHealth, BacnetHealth, KnxHealth, OpcUaHealth, Dnp3Health
<1>4. CASE A \in {"zigbee", "zwave", "matter", "lutron", "mqtt"}
  BY <1>4 DEF Healths, ZigbeeHealth, ZWaveHealth, MatterHealth, LutronHealth, MqttHealth
<1> QED
  BY <1>1, <1>2, <1>3, <1>4 DEF Names

---------------------------------------------------------------------------
(* What can be read.                                                       *)

\* A reading that is good and not made up.
Answers(p, s) == \E r \in Reads(p.id, s) : r.answer.quality = "good" /\ r.answer.of # Default

LEMMA GoodIsAnswer ==
    ASSUME NEW s, NEW p, NEW q, q \in site.has \cup {Asked}, site \in Sites, NEW k,
           Reading(Good(q), k) \in Reads(p.id, s)
    PROVE  Answers(p, s)
<1>1. q # Default
  <2>1. \A a, b, c : <<a, b, c>> # Default
    BY DEF Default
  <2>2. Asked # Default
    BY DEF Asked, Default
  <2> QED
    BY <2>1, <2>2, Installation
<1>2. Reading(Good(q), k).answer.quality = "good" /\ Reading(Good(q), k).answer.of = q
  BY DEF Reading, Good
<1> QED
  BY <1>1, <1>2 DEF Answers

LEMMA HttpAnswers ==
    ASSUME site \in Sites, A \in {"shelly", "hue", "esphome", "kincony", "onvif", "modbus"},
           NEW s, Meets(s), s.up, NEW p, Lists(site, p), p.native \in s.has, ~NeverRead(p)
    PROVE  Answers(p, s)
<1>1. p.native \in site.has
  BY DEF Lists, A
<1>2. Reported(p.native, s) = Good(p.native) /\ Requested(p.native, s) = Good(p.native)
  BY DEF Reported, Requested
<1>3. SUFFICES Reading(Good(p.native), s.known) \in Reads(p.id, s)
  BY <1>1, GoodIsAnswer
<1>4. CASE A = "shelly"
  <2>1. ShellyRead(p.id, s) = Reported(p.native, s)
    BY <1>4, ShellyFinds DEF NeverRead
  <2> QED
    BY <1>2, <1>4, <2>1 DEF Reads
<1>5. CASE A = "hue"
  <2>1. HueRead(p.id, s) = Reported(p.native, s)
    BY <1>5, HueFinds DEF NeverRead
  <2> QED
    BY <1>2, <1>5, <2>1 DEF Reads
<1>6. CASE A = "esphome"
  <2>1. EspHomeRead(p.id, s) = Requested(p.native, s)
    BY <1>6, EspHomeFinds DEF Meets
  <2> QED
    BY <1>2, <1>6, <2>1 DEF Reads
<1>7. CASE A = "kincony"
  BY <1>2, <1>7, KinConyFinds DEF Reads
<1>8. CASE A = "onvif"
  <2>1. p.id = p.native /\ p.native = <<"stream", "main", "uri">>
    BY <1>1, <1>8, Installation DEF Ids, Vocabulary, Lists, NeverRead
  <2>2. Ending(p.id) = "uri"
    BY <2>1 DEF Ending
  <2>3. OnvifRead(p.id, s) = Good(p.native)
    BY <2>1, <2>2 DEF OnvifRead, OnvifStreamUri
  <2> QED
    BY <1>8, <2>3 DEF Reads
<1>9. CASE A = "modbus"
  <2>1. p.id = p.native /\ p.id \in s.listed /\ p.id \in s.has
    BY <1>1, <1>9 DEF Lists, Ids, A, Meets
  <2>2. Good(p.native) \in ModbusRegister(p.id, s)
    BY <2>1 DEF ModbusRegister
  <2> QED
    BY <1>9, <2>1, <2>2 DEF Reads, ModbusReads
<1> QED
  BY <1>4, <1>5, <1>6, <1>7, <1>8, <1>9

\* A scan of the outstation files something under every slot.
LEMMA ScanFills ==
    ASSUME NEW s
    PROVE  \E k \in Dnp3Scans(s) : \A q \in Measured(s) : Filed(q) \in DOMAIN k /\ k[Filed(q)] \in Measured(s)
<1> DEFINE slots == {Filed(q) : q \in Measured(s)}
           f == [x \in slots |-> CHOOSE q \in Measured(s) : Filed(q) = x]
           k == [x \in DOMAIN s.known \cup slots |-> IF x \in slots THEN f[x] ELSE s.known[x]]
<1>1. \A x \in slots : f[x] \in Measured(s) /\ Filed(f[x]) = x
  OBVIOUS
<1>2. f \in {g \in [slots -> Measured(s)] : \A x \in slots : Filed(g[x]) = x}
  BY <1>1
<1>3. k \in Dnp3Scans(s)
  <2>1. Dnp3Scans(s) =
          {[x \in DOMAIN s.known \cup slots |-> IF x \in slots THEN g[x] ELSE s.known[x]] :
             g \in {g \in [slots -> Measured(s)] : \A x \in slots : Filed(g[x]) = x}}
    BY DEF Dnp3Scans
  <2> HIDE DEF f, slots
  <2> QED
    BY <1>2, <2>1
<1>4. \A q \in Measured(s) : Filed(q) \in slots
  OBVIOUS
<1>5. \A x \in slots : x \in DOMAIN k /\ k[x] \in Measured(s)
  <2> HIDE DEF f, slots
  <2> QED
    BY <1>1
<1> HIDE DEF k, slots
<1> QED
  BY <1>3, <1>4, <1>5

LEMMA BusAnswers ==
    ASSUME site \in Sites, A \in {"bacnet", "knx", "dnp3"},
           NEW s, Meets(s), s.up, NEW p, Lists(site, p), p.native \in s.has,
           p.readable, ~NeverRead(p)
    PROVE  Answers(p, s)
<1>1. p.native \in site.has
  BY DEF Meets
<1>2. CASE A = "bacnet"
  <2>1. Reads(p.id, s) = BacnetProperty(p.native, s)
    BY <1>2, BacnetFinds DEF Reads, NeverRead, Meets
  <2>2. Reading(Good(p.native), Learns(s, p.native, p.native)) \in Reads(p.id, s)
    BY <2>1 DEF BacnetProperty
  <2> QED
    BY <1>1, <2>2, GoodIsAnswer
<1>3. CASE A = "knx"
  <2>1. p.id = <<"dev", "knx", p.native[1]>> \o p.native[2] \o <<"ep", "value">>
    BY <1>3 DEF Lists, Ids, A
  <2>2. p.native[2] = KnxAddress(p.id)
    BY <1>3, <2>1, AddressFound DEF NeverRead
  <2>3. KnxGroup(p.native, s) = Reading(Good(p.native), Learns(s, p.native, p.native))
    BY DEF KnxGroup
  <2>4. KnxGroup(p.native, s) \in Reads(p.id, s)
    <3>1. p.native \in {q \in s.has \cup DOMAIN s.known : q[2] = KnxAddress(p.id)}
      BY <2>2
    <3> QED
      BY <1>3, <3>1 DEF Reads, KnxReads
  <2> QED
    BY <1>1, <2>3, <2>4, GoodIsAnswer
<1>4. CASE A = "dnp3"
  <2> DEFINE q == p.native
  <2>1. q = Filed(q) /\ q \in Measured(s)
    BY <1>4 DEF Lists, NeverRead, A, Measured
  <2>2. Reads(p.id, s) = Dnp3Value(q, s)
    BY <1>4, Dnp3Finds DEF Reads
  <2> HIDE DEF q
  <2>3. CASE Remembers(s, q) # Nothing
    <3>1. Remembers(s, q) \in site.has \cup {Asked}
      BY <2>3 DEF Remembers, Meets, Dictionary
    <3>2. Reading(Good(Remembers(s, q)), s.known) \in Reads(p.id, s)
      BY <2>2, <2>3 DEF Dnp3Value, Recalled
    <3> QED
      BY <3>1, <3>2, GoodIsAnswer
  <2>4. CASE Remembers(s, q) = Nothing
    <3>1. PICK k \in Dnp3Scans(s) :
             \A h \in Measured(s) : Filed(h) \in DOMAIN k /\ k[Filed(h)] \in Measured(s)
      BY ScanFills
    <3>2. Remembers([known |-> k], q) = k[q] /\ k[q] \in s.has
      BY <2>1, <3>1 DEF Remembers, Measured
    <3>3. Reading(Recalled(Remembers([known |-> k], q)), k) \in Reads(p.id, s)
      BY <2>2, <2>4 DEF Dnp3Value
    <3>4. k[q] \in site.has /\ k[q] # Nothing
      <4>1. k[q] \in site.has
        BY <3>2 DEF Meets
      <4> QED
        BY <4>1, Installation DEF Nothing
    <3>5. Recalled(Remembers([known |-> k], q)) = Good(k[q])
      BY <3>2, <3>4 DEF Recalled
    <3> QED
      BY <3>3, <3>4, <3>5, GoodIsAnswer
  <2> QED
    BY <2>3, <2>4
<1> QED
  BY <1>2, <1>3, <1>4

---------------------------------------------------------------------------
(* The invariant.                                                          *)

Shape ==
    /\ site \in Sites
    /\ known = [i \in Sessions |-> known[i]] /\ topics = [i \in Sessions |-> topics[i]]
    /\ snapshot = [i \in Sessions |-> snapshot[i]] /\ task = [c \in Callers |-> task[c]]

Dictionaries == \A i \in Sessions : Dictionary(site, known[i]) /\ topics[i] \subseteq site.has

Listings == \A i \in Sessions : \A p \in snapshot[i] : Lists(site, p)

Running(t) ==
    /\ t.state \in {"idle", "running", "done"} /\ t.ends \in {"none", "succeeded", "failed"}
    /\ t.state = "idle" => t.todo = <<>>
    /\ t.state = "running" => t.on \in Sessions

Typed ==
    /\ up \in BOOLEAN /\ gone \subseteq site.has /\ targets \subseteq {"target"}
    /\ DOMAIN probing \subseteq Sessions
    /\ sessions \subseteq Sessions /\ clients \subseteq Sessions /\ stray \subseteq Sessions
    /\ answer.quality \in Qualities \cup {"none", "healthy", "degraded", "error", "offline"}
    /\ answer.of \in site.has \cup {Nothing, Default, Asked}
    /\ \A c \in Callers : Running(task[c])

\* What is left of a command's plan, and what has come of it.
Kept(st, t) == \E e \in t.effects : t.cmd.verb = "set" => e[2] = Wanted(st, t.cmd)

OnCourse(st, t) ==
    /\ t = [state |-> t.state, on |-> t.on, cmd |-> t.cmd, todo |-> t.todo,
            ends |-> t.ends, effects |-> t.effects]
    /\ OnTask(st, t.todo, t.cmd)
    /\ t.state = "running" => t.todo # <<>>
    /\ t.state = "done" => t.todo = <<>>
    /\ \A e \in t.effects : EndpointOf(e[1]) = t.cmd.of
    /\ Kept(st, t) \/ Honest(st, t, t.cmd)

Tasks == \A c \in Callers : OnCourse(site, task[c])

IInv ==
    /\ Shape /\ Typed /\ Dictionaries /\ Listings /\ AnswersItsOwn
    /\ Tasks /\ NoStrayClient

LEMMA InitIInv == Init => IInv
<1> SUFFICES ASSUME Init PROVE IInv
  OBVIOUS
<1>1. Shape /\ NoStrayClient /\ Listings /\ AnswersItsOwn
  BY DEF Init, Shape, NoStrayClient, Listings, AnswersItsOwn, NoAnswer
<1>2. OnCourse(site, Idle)
  BY NoRequests DEF OnCourse, Honest, Idle
<1>3. Tasks
  BY <1>2 DEF Init, Tasks
<1>4. Typed
  BY DEF Init, Typed, Running, NoAnswer, Idle, Qualities
<1>5. Dictionaries
  BY EmptyDictionary DEF Init, Dictionaries
<1> QED
  BY <1>1, <1>3, <1>4, <1>5 DEF IInv

\* No step moves to another installation or loses the shape of the state.
LEMMA ShapeStep == ASSUME Shape, [Next]_vars PROVE Shape' /\ site' = site
<1>1. CASE Discover \/ Goes \/ Returns \/ Changes
  BY <1>1 DEF Shape, Discover, Goes, Returns, Changes
<1>2. ASSUME NEW i \in Sessions, Commission(i) \/ Commissioned(i) \/ CutOff(i)
      PROVE  Shape' /\ site' = site
  BY <1>2 DEF Shape, Commission, Commissioned, CutOff
<1>3. ASSUME NEW i \in Sessions, Inventory(i) PROVE Shape' /\ site' = site
  BY <1>3 DEF Shape, Inventory
<1>4. ASSUME NEW i \in Sessions, ReadPoint(i) PROVE Shape' /\ site' = site
  BY <1>4 DEF Shape, ReadPoint
<1>5. ASSUME NEW i \in Sessions, Health(i) \/ Teardown(i) PROVE Shape' /\ site' = site
  BY <1>5 DEF Shape, Health, Teardown
<1>6. ASSUME NEW i \in Sessions, Announced(i) \/ Unsolicited(i) PROVE Shape' /\ site' = site
  BY <1>6 DEF Shape, Announced, Unsolicited
<1>7. ASSUME NEW c \in Callers, NEW i \in Sessions, Execute(c, i) PROVE Shape' /\ site' = site
  BY <1>7 DEF Shape, Execute
<1>8. ASSUME NEW c \in Callers, Answered(c) PROVE Shape' /\ site' = site
  BY <1>8 DEF Shape, Answered
<1>9. ASSUME NEW c \in Callers, Unanswered(c) \/ Returned(c) PROVE Shape' /\ site' = site
  BY <1>9 DEF Shape, Unanswered, Returned
<1>10. CASE UNCHANGED vars
  BY <1>10 DEF Shape, vars
<1> QED
  BY <1>1, <1>2, <1>3, <1>4, <1>5, <1>6, <1>7, <1>8, <1>9, <1>10 DEF Next

LEMMA AtMeets == ASSUME Dictionaries, NEW i \in Sessions PROVE Meets(At(i)) /\ At(i).known = known[i]
BY DEF Dictionaries, Meets, At, Equipped, Present

---------------------------------------------------------------------------
(* The dictionaries.                                                       *)

LEMMA OneDictionary ==
    ASSUME Shape, Dictionaries, NEW i \in Sessions, NEW k, Dictionary(site, k),
           known' = [known EXCEPT ![i] = k], topics' = topics, site' = site
    PROVE  Dictionaries'
BY DEF Shape, Dictionaries

\* What an answered request leaves in the dictionary.
LEMMA WrittenDown ==
    ASSUME IInv, NEW c \in Callers, Answered(c)
    PROVE  \/ known' = known
           \/ \E q : /\ known' = [known EXCEPT ![task[c].on] =
                                    Learns(At(task[c].on), Head(task[c].todo).q, q)]
                     /\ Dictionary(site, Learns(At(task[c].on), Head(task[c].todo).q, q))
<1> DEFINE rq == Head(task[c].todo)
           i == task[c].on
<1>1. /\ OnTask(site, task[c].todo, task[c].cmd) /\ task[c].todo # <<>> /\ i \in Sessions
  BY DEF Answered, IInv, Tasks, OnCourse, Typed, Running
<1>2. Aims(site, rq, task[c].cmd)
  BY <1>1, TheRest
<1>3. PICK did \in {{}, Effect(rq)} :
         /\ GoodEnough(c, rq, did)
         /\ known' = IF A \in Remembering /\ rq.do # "get" /\ i \in sessions
                     THEN [known EXCEPT ![i] =
                             Learns(At(i), rq.q, IF did = {} THEN Asked ELSE rq.q)]
                     ELSE known
  BY DEF Answered
<1> SUFFICES ASSUME A \in Remembering, rq.do # "get", i \in sessions
             PROVE  Dictionary(site, Learns(At(i), rq.q, IF did = {} THEN Asked ELSE rq.q))
  BY <1>3
<1> HIDE DEF rq, i
<1>4. did # {} => rq.q \in site.has
  BY <1>3 DEF Effect, Present
<1>5. A \in {"bacnet", "opcua"} => did # {}
  BY <1>2, <1>3 DEF Aims, GoodEnough, A
<1>6. rq.q \in SlotsOf(site) /\ (site.adapter # "dnp3" => rq.q \in site.has)
  BY <1>2, <1>4, <1>5 DEF Aims, SlotsOf, Remembering, A
<1>7. \/ did # {} /\ rq.q \in site.has
      \/ did = {} /\ site.adapter \in {"knx", "dnp3"}
  BY <1>4, <1>5 DEF Remembering, A
<1>8. Dictionary(site, At(i).known)
  BY <1>1, AtMeets DEF IInv, Meets
<1> QED
  BY <1>6, <1>7, <1>8, LearnsIsDictionary

LEMMA DictionariesStep == ASSUME IInv, [Next]_vars PROVE Dictionaries'
<1>1. Shape /\ Shape' /\ site' = site /\ Dictionaries /\ site \in Sites
  BY ShapeStep DEF IInv, Shape
<1>2. \A i \in Sessions : At(i).known = known[i] /\ Meets(At(i)) /\ Dictionary(site, known[i])
  BY <1>1, AtMeets DEF Dictionaries
<1>3. ASSUME UNCHANGED <<known, topics>> PROVE Dictionaries'
  BY <1>1, <1>3 DEF Dictionaries
<1>4. ASSUME NEW i \in Sessions, Commissioned(i) PROVE Dictionaries'
  <2>1. known' = known \/ known' = [known EXCEPT ![i] = Preloaded(probing[i], Equipment)]
    BY <1>4 DEF Commissioned
  <2>2. topics' = topics
    BY <1>4 DEF Commissioned
  <2>3. Dictionary(site, Preloaded(probing[i], Equipment))
    BY PreloadedIsDictionary DEF Equipment, Equipped
  <2> QED
    BY <1>1, <1>3, <2>1, <2>2, <2>3, OneDictionary
<1>5. ASSUME NEW i \in Sessions, Inventory(i) PROVE Dictionaries'
  <2>1. CASE A = "opcua"
    <3>1. known' = [known EXCEPT ![i] = OpcUaBrowsed(At(i))] /\ topics' = topics
      BY <1>5, <2>1 DEF Inventory
    <3>2. Dictionary(site, OpcUaBrowsed(At(i)))
      BY <1>2, BrowsedIsDictionary DEF Meets
    <3> QED
      BY <1>1, <3>1, <3>2, OneDictionary
  <2>2. CASE A = "mqtt"
    <3>1. known' = known /\ topics' = [topics EXCEPT ![i] = DOMAIN known[i]]
      BY <1>5, <2>2 DEF Inventory
    <3>2. DOMAIN known[i] \subseteq site.has
      BY <1>2, <2>2 DEF Dictionary, A
    <3> QED
      BY <1>1, <3>1, <3>2 DEF Dictionaries, Shape
  <2>3. CASE A \notin {"opcua", "mqtt"}
    BY <1>3, <1>5, <2>3 DEF Inventory
  <2> QED
    BY <2>1, <2>2, <2>3
<1>6. ASSUME NEW i \in Sessions, ReadPoint(i) PROVE Dictionaries'
  <2>1. PICK p \in snapshot[i] : \E r \in Reads(p.id, At(i)) : known' = [known EXCEPT ![i] = r.known]
    BY <1>6 DEF ReadPoint
  <2>2. PICK r \in Reads(p.id, At(i)) : known' = [known EXCEPT ![i] = r.known]
    BY <2>1
  <2>3. Lists(site, p)
    BY DEF IInv, Listings
  <2>4. Dictionary(site, r.known)
    BY <1>1, <1>2, <2>3, EveryReading DEF AnswersFor
  <2>5. topics' = topics
    BY <1>6 DEF ReadPoint
  <2> QED
    BY <1>1, <2>2, <2>4, <2>5, OneDictionary
<1>7. ASSUME NEW i \in Sessions, Teardown(i) PROVE Dictionaries'
  <2>1. known' = [known EXCEPT ![i] = <<>>] /\ topics' = [topics EXCEPT ![i] = {}]
    BY <1>7 DEF Teardown
  <2> SUFFICES ASSUME NEW j \in Sessions
               PROVE  Dictionary(site, known'[j]) /\ topics'[j] \subseteq site.has
    BY <1>1 DEF Dictionaries
  <2>2. CASE j = i
    <3>1. known'[j] = <<>> /\ topics'[j] = {}
      BY <1>1, <2>1, <2>2 DEF Shape
    <3> QED
      BY <3>1, EmptyDictionary
  <2>3. CASE j # i
    <3>1. known'[j] = known[j] /\ topics'[j] = topics[j]
      BY <1>1, <2>1, <2>3 DEF Shape
    <3> QED
      BY <1>1, <3>1 DEF Dictionaries
  <2> QED
    BY <2>2, <2>3
<1>8. ASSUME NEW i \in Sessions, Announced(i) PROVE Dictionaries'
  <2>1. PICK q \in site.has : \E k \in {q, Nothing} : known' = [known EXCEPT ![i] = Learns(At(i), q, k)]
    BY <1>8 DEF Announced, Present
  <2>2. PICK k \in {q, Nothing} : known' = [known EXCEPT ![i] = Learns(At(i), q, k)]
    BY <2>1
  <2>3. Dictionary(site, Learns(At(i), q, k))
    <3>1. /\ q \in SlotsOf(site) /\ q \in site.has /\ Dictionary(site, At(i).known)
          /\ k = Nothing \/ (k = q /\ q \in site.has)
      BY <1>2, <2>1, <2>2 DEF SlotsOf
    <3> DEFINE s == At(i)
    <3> HIDE DEF s
    <3>2. Dictionary(site, s.known)
      BY <3>1 DEF s
    <3>3. CASE k = Nothing
      <4>1. Dictionary(site, Learns(s, q, Nothing))
        BY <3>1, <3>2 DEF Dictionary, Learns
      <4> QED
        BY <3>3, <4>1 DEF s
    <3>4. CASE k = q
      <4>1. Dictionary(site, Learns(s, q, q))
        BY <3>1, <3>2, LearnsIsDictionary
      <4> QED
        BY <3>4, <4>1 DEF s
    <3> QED
      BY <3>1, <3>3, <3>4
  <2>4. topics' = topics
    BY <1>8 DEF Announced
  <2> QED
    BY <1>1, <2>2, <2>3, <2>4, OneDictionary
<1>9. ASSUME NEW i \in Sessions, Unsolicited(i) PROVE Dictionaries'
  <2>1. PICK k \in Dnp3Scans(At(i)) : known' = [known EXCEPT ![i] = k]
    BY <1>9 DEF Unsolicited
  <2>2. topics' = topics /\ site.adapter = "dnp3"
    BY <1>9 DEF Unsolicited, A
  <2>3. Dictionary(site, k)
    BY <1>2, <2>2, ScanIsDictionary DEF Meets
  <2> QED
    BY <1>1, <2>1, <2>2, <2>3, OneDictionary
<1>10. ASSUME NEW c \in Callers, Answered(c) PROVE Dictionaries'
  <2>1. topics' = topics
    BY <1>10 DEF Answered
  <2>2. task[c].on \in Sessions
    BY <1>10 DEF Answered, IInv, Typed, Running
  <2> QED
    BY <1>1, <1>3, <1>10, <2>1, <2>2, WrittenDown, OneDictionary
<1>11. CASE Goes
  BY <1>1, <1>11 DEF Goes, Dictionaries
<1>12. CASE Discover \/ Returns \/ Changes \/ UNCHANGED vars
  BY <1>3, <1>12 DEF Discover, Returns, Changes, vars
<1>13. ASSUME NEW i \in Sessions, Commission(i) \/ CutOff(i) \/ Health(i) PROVE Dictionaries'
  BY <1>3, <1>13 DEF Commission, CutOff, Health
<1>14. ASSUME NEW c \in Callers, (\E i \in Sessions : Execute(c, i)) \/ Unanswered(c) \/ Returned(c)
       PROVE  Dictionaries'
  BY <1>3, <1>14 DEF Execute, Unanswered, Returned
<1> QED
  BY <1>4, <1>5, <1>6, <1>7, <1>8, <1>9, <1>10, <1>11, <1>12, <1>13, <1>14 DEF Next

---------------------------------------------------------------------------
(* The inventories.                                                        *)

LEMMA ListingsStep == ASSUME IInv, [Next]_vars PROVE Listings'
<1>1. Shape /\ Shape' /\ site' = site /\ site \in Sites
  BY ShapeStep DEF IInv, Shape
<1>2. ASSUME snapshot' = snapshot PROVE Listings'
  BY <1>1, <1>2 DEF IInv, Listings
<1>3. ASSUME NEW i \in Sessions, Inventory(i) PROVE Listings'
  <2>1. Meets(At(i))
    BY AtMeets DEF IInv
  <2>2. PICK points \in Inventories(At(i)) : snapshot' = [snapshot EXCEPT ![i] = points]
    BY <1>3 DEF Inventory
  <2>3. \A p \in points : Lists(site, p)
    BY <1>1, <2>1, InventoryLists
  <2> QED
    BY <1>1, <2>2, <2>3 DEF IInv, Listings, Shape
<1>4. ASSUME NEW i \in Sessions, Teardown(i) PROVE Listings'
  BY <1>1, <1>4 DEF IInv, Listings, Shape, Teardown
<1>5. CASE Discover \/ Goes \/ Returns \/ Changes \/ UNCHANGED vars
  BY <1>2, <1>5 DEF Discover, Goes, Returns, Changes, vars
<1>6. ASSUME NEW i \in Sessions,
             \/ Commission(i) \/ Commissioned(i) \/ CutOff(i) \/ ReadPoint(i) \/ Health(i)
             \/ Announced(i) \/ Unsolicited(i)
      PROVE  Listings'
  BY <1>2, <1>6 DEF Commission, Commissioned, CutOff, ReadPoint, Health, Announced, Unsolicited
<1>7. ASSUME NEW c \in Callers,
             (\E i \in Sessions : Execute(c, i)) \/ Answered(c) \/ Unanswered(c) \/ Returned(c)
      PROVE  Listings'
  BY <1>2, <1>7 DEF Execute, Answered, Unanswered, Returned
<1> QED
  BY <1>3, <1>4, <1>5, <1>6, <1>7 DEF Next

---------------------------------------------------------------------------
(* The answers and the types.                                              *)

\* What read_point() answers, whatever it was asked for.
LEMMA ReadPointAnswers ==
    ASSUME IInv, NEW i \in Sessions, ReadPoint(i)
    PROVE  /\ answer'.quality \in Qualities
           /\ answer'.of \in site.has \cup {Nothing, Default, Asked}
           /\ AnswersItsOwn'
<1>1. PICK p \in snapshot[i] : \E r \in Reads(p.id, At(i)) :
         answer' = [native |-> p.native, quality |-> r.answer.quality, of |-> r.answer.of]
  BY DEF ReadPoint
<1>2. PICK r \in Reads(p.id, At(i)) :
         answer' = [native |-> p.native, quality |-> r.answer.quality, of |-> r.answer.of]
  BY <1>1
<1>3. Lists(site, p) /\ Meets(At(i)) /\ site \in Sites
  BY AtMeets DEF IInv, Listings, Shape
<1>4. AnswersFor(site, At(i), p, r)
  BY <1>3, EveryReading
<1>5. At(i).has = site.has \ gone /\ site' = site /\ gone' = gone
  BY DEF At, Equipped, Present, ReadPoint
<1>6. answer'.native = p.native /\ answer'.quality = r.answer.quality /\ answer'.of = r.answer.of
  BY <1>2
<1> QED
  BY <1>4, <1>5, <1>6 DEF AnswersFor, AnswersItsOwn, MadeUp, A

LEMMA HealthAnswers ==
    ASSUME IInv, NEW i \in Sessions, Health(i)
    PROVE  answer'.quality \in {"healthy", "degraded", "error", "offline"} /\ answer'.of = Nothing
<1>1. PICK h \in Healths(At(i)) : answer' = [native |-> Nothing, quality |-> h, of |-> Nothing]
  BY DEF Health
<1>2. h \in {"healthy", "degraded", "error", "offline"}
  BY EveryHealth DEF IInv, Shape
<1> QED
  BY <1>1, <1>2

LEMMA AnswersStep == ASSUME IInv, [Next]_vars PROVE AnswersItsOwn'
<1>1. ASSUME answer' = NoAnswer PROVE AnswersItsOwn'
  BY <1>1 DEF AnswersItsOwn, NoAnswer
<1>2. ASSUME NEW i \in Sessions, ReadPoint(i) PROVE AnswersItsOwn'
  BY <1>2, ReadPointAnswers
<1>3. ASSUME NEW i \in Sessions, Health(i) PROVE AnswersItsOwn'
  BY <1>3, HealthAnswers DEF AnswersItsOwn
<1>4. CASE Discover \/ Goes \/ Returns \/ Changes
  BY <1>1, <1>4 DEF Discover, Goes, Returns, Changes
<1>5. ASSUME NEW i \in Sessions,
             \/ Commission(i) \/ Commissioned(i) \/ CutOff(i) \/ Inventory(i) \/ Teardown(i)
             \/ Announced(i) \/ Unsolicited(i)
      PROVE  AnswersItsOwn'
  <2>1. CASE Commission(i) \/ Commissioned(i) \/ CutOff(i)
    BY <1>1, <2>1 DEF Commission, Commissioned, CutOff
  <2>2. CASE Inventory(i) \/ Teardown(i) \/ Announced(i) \/ Unsolicited(i)
    BY <1>1, <2>2 DEF Inventory, Teardown, Announced, Unsolicited
  <2> QED
    BY <1>5, <2>1, <2>2
<1>6. ASSUME NEW c \in Callers,
             (\E i \in Sessions : Execute(c, i)) \/ Answered(c) \/ Unanswered(c) \/ Returned(c)
      PROVE  AnswersItsOwn'
  <2>1. CASE \E i \in Sessions : Execute(c, i)
    BY <1>1, <2>1 DEF Execute
  <2>2. CASE Answered(c)
    BY <1>1, <2>2 DEF Answered
  <2>3. CASE Unanswered(c)
    BY <1>1, <2>3 DEF Unanswered
  <2>4. CASE Returned(c)
    BY <1>1, <2>4 DEF Returned
  <2> QED
    BY <1>6, <2>1, <2>2, <2>3, <2>4
<1>7. CASE UNCHANGED vars
  BY <1>7 DEF vars, IInv, AnswersItsOwn, MadeUp, A
<1> QED
  BY <1>2, <1>3, <1>4, <1>5, <1>6, <1>7 DEF Next

LEMMA DiscoversTargets ==
    ASSUME site \in Sites, NEW r, NEW s
    PROVE  Discovers(r, s) \subseteq {"target"}
<1>1. A \in Names
  BY Installation
<1>2. \A x, y : Found(x, y) \subseteq {"target"}
  BY DEF Found
<1>3. CASE A \in {"shelly", "hue", "esphome", "kincony", "onvif"}
  BY <1>2, <1>3 DEF Discovers, ShellyDiscover, HueDiscover, EspHomeDiscover, KinConyDiscover,
                    OnvifDiscover
<1>4. CASE A \in {"modbus", "bacnet", "knx", "opcua", "dnp3"}
  BY <1>2, <1>4 DEF Discovers, ModbusDiscover, BacnetDiscover, KnxDiscover, OpcUaDiscover,
                    Dnp3Discover
<1>5. CASE A \in {"zigbee", "zwave", "matter", "lutron", "mqtt"}
  BY <1>2, <1>5 DEF Discovers, ZigbeeDiscover, ZWaveDiscover, MatterDiscover, LutronDiscover,
                    MqttDiscover
<1> QED
  BY <1>1, <1>3, <1>4, <1>5 DEF Names

\* A caller's command, and nothing else of Typed but the clients, is changed.
LEMMA TaskTyped ==
    ASSUME Shape, Typed, NEW c \in Callers, NEW t, Running(t), task' = [task EXCEPT ![c] = t],
           UNCHANGED <<site, up, gone, targets, probing, sessions>>, answer' = NoAnswer,
           clients' \subseteq Sessions, stray' \subseteq Sessions
    PROVE  Typed'
BY DEF Shape, Typed, Running, NoAnswer

\* Every command names an endpoint as the adapter does, and so its plan is sound.
LEMMA PlanMade ==
    ASSUME IInv, NEW i \in Sessions, NEW cmd \in CommandsOn(i), NEW plan \in Executes(cmd, At(i))
    PROVE  Sound(site, plan, cmd)
<1>1. site \in Sites /\ Meets(At(i))
  BY AtMeets DEF IInv, Shape
<1>2. PICK e \in {EndpointOf(p.native) : p \in snapshot[i]} \cup site.endpoints :
         cmd.of = e /\ cmd.ep = EndpointId(e) /\ cmd.native \in BOOLEAN
  <2> DEFINE carries == A \in Addressable
             ends == {EndpointOf(p.native) : p \in snapshot[i]} \cup site.endpoints
  <2>1. cmd \in {[ep |-> EndpointId(e), of |-> e, verb |-> verb, v |-> v, native |-> native] :
                   e \in ends, verb \in Verbs, v \in Values, native \in {FALSE, carries}}
    BY DEF CommandsOn
  <2>2. carries \in BOOLEAN
    OBVIOUS
  <2> HIDE DEF carries, ends
  <2>3. PICK e \in ends, verb \in Verbs, v \in Values, native \in {FALSE, carries} :
           cmd = [ep |-> EndpointId(e), of |-> e, verb |-> verb, v |-> v, native |-> native]
    BY <2>1
  <2>4. native \in BOOLEAN
    BY <2>2, <2>3
  <2>5. e \in ends /\ cmd.of = e /\ cmd.ep = EndpointId(e) /\ cmd.native = native
    BY <2>3
  <2> QED
    BY <2>4, <2>5 DEF ends
<1>3. \E q \in SlotsOf(site) : e = EndpointOf(q) /\ (A # "dnp3" => q \in site.has)
  <2>1. CASE e \in site.endpoints
    <3>1. PICK q \in site.has : e = EndpointOf(q)
      BY <1>1, <2>1, SitesAssumption DEF SitesAssumption
    <3> QED
      BY <3>1 DEF SlotsOf
  <2>2. CASE e \in {EndpointOf(p.native) : p \in snapshot[i]}
    <3>1. PICK p \in snapshot[i] : e = EndpointOf(p.native)
      BY <2>2
    <3>2. Lists(site, p)
      BY <3>1 DEF IInv, Listings
    <3> QED
      BY <3>1, <3>2 DEF Lists, A
  <2> QED
    BY <1>2, <2>1, <2>2
<1>4. Proper(cmd)
  BY <1>2, <1>3 DEF Proper
<1>5. A = "mqtt" => DOMAIN At(i).known \subseteq site.has
  BY <1>1 DEF Meets, Dictionary, A
<1> QED
  BY <1>1, <1>4, <1>5, EveryPlan DEF Meets

LEMMA TypedStep == ASSUME IInv, [Next]_vars PROVE Typed'
<1>1. Shape /\ Shape' /\ site' = site /\ site \in Sites /\ Typed
  BY ShapeStep DEF IInv, Shape
<1>2. ASSUME UNCHANGED <<up, gone, targets, probing, sessions, clients, stray, task>>,
             /\ answer'.quality \in Qualities \cup {"none", "healthy", "degraded", "error", "offline"}
             /\ answer'.of \in site.has \cup {Nothing, Default, Asked}
      PROVE  Typed'
  BY <1>1, <1>2 DEF Typed, Running
<1>3. /\ answer.quality \in Qualities \cup {"none", "healthy", "degraded", "error", "offline"}
      /\ answer.of \in site.has \cup {Nothing, Default, Asked}
  BY <1>1 DEF Typed
<1>4. /\ NoAnswer.quality \in Qualities \cup {"none", "healthy", "degraded", "error", "offline"}
      /\ NoAnswer.of \in site.has \cup {Nothing, Default, Asked}
  BY DEF NoAnswer
<1>5. CASE Discover
  <2>1. targets' \subseteq {"target"}
    BY <1>1, <1>5, DiscoversTargets DEF Discover
  <2> QED
    BY <1>1, <1>4, <1>5, <2>1 DEF Discover, Typed, Running
<1>6. CASE Goes \/ Returns
  BY <1>1, <1>4, <1>6 DEF Goes, Returns, Typed, Running
<1>7. CASE Changes
  <2>1. gone' \subseteq site.has
    BY <1>1, <1>7 DEF Changes, Present, Typed
  <2> QED
    BY <1>1, <1>4, <1>7, <2>1 DEF Changes, Typed, Running
<1>8. CASE UNCHANGED vars
  BY <1>2, <1>3, <1>8 DEF vars
<1>9. ASSUME NEW i \in Sessions, Commission(i) PROVE Typed'
  <2>1. /\ DOMAIN probing' = DOMAIN probing \cup {i} /\ clients' = clients \cup {i}
        /\ targets' = {} /\ answer' = NoAnswer
        /\ UNCHANGED <<up, gone, sessions, stray, task>>
    BY <1>9 DEF Commission
  <2> QED
    BY <1>1, <1>4, <2>1 DEF Typed, Running
<1>10. ASSUME NEW i \in Sessions, Commissioned(i) PROVE Typed'
  <2>1. /\ DOMAIN probing' = DOMAIN probing \ {i}
        /\ clients' \subseteq clients /\ sessions' \subseteq sessions \cup {i}
        /\ answer' = NoAnswer /\ UNCHANGED <<up, gone, targets, stray, task>>
    BY <1>10 DEF Commissioned
  <2> QED
    BY <1>1, <1>4, <2>1 DEF Typed, Running
<1>11. ASSUME NEW i \in Sessions, CutOff(i) PROVE Typed'
  <2>1. /\ DOMAIN probing' = DOMAIN probing \ {i} /\ stray' = stray \cup {i}
        /\ answer' = NoAnswer /\ UNCHANGED <<up, gone, targets, sessions, clients, task>>
    BY <1>11 DEF CutOff
  <2> QED
    BY <1>1, <1>4, <2>1 DEF Typed, Running
<1>12. ASSUME NEW i \in Sessions, Inventory(i) \/ Announced(i) \/ Unsolicited(i) PROVE Typed'
  BY <1>2, <1>4, <1>12 DEF Inventory, Announced, Unsolicited
<1>13. ASSUME NEW i \in Sessions, ReadPoint(i) PROVE Typed'
  BY <1>2, <1>13, ReadPointAnswers DEF ReadPoint
<1>14. ASSUME NEW i \in Sessions, Health(i) PROVE Typed'
  BY <1>2, <1>14, HealthAnswers DEF Health
<1>15. ASSUME NEW i \in Sessions, Teardown(i) PROVE Typed'
  BY <1>1, <1>4, <1>15 DEF Teardown, Typed, Running
<1>16. ASSUME NEW c \in Callers, NEW i \in Sessions, Execute(c, i) PROVE Typed'
  <2>1. PICK cmd \in CommandsOn(i) : \E plan \in Executes(cmd, At(i)) :
           task' = [task EXCEPT ![c] =
                      [state |-> IF plan.todo = <<>> THEN "done" ELSE "running",
                       on |-> i, cmd |-> cmd, todo |-> plan.todo, ends |-> plan.ends,
                       effects |-> {}]]
    BY <1>16 DEF Execute
  <2>2. PICK plan \in Executes(cmd, At(i)) :
           task' = [task EXCEPT ![c] =
                      [state |-> IF plan.todo = <<>> THEN "done" ELSE "running",
                       on |-> i, cmd |-> cmd, todo |-> plan.todo, ends |-> plan.ends,
                       effects |-> {}]]
    BY <2>1
  <2>3. plan.ends \in {"succeeded", "failed"}
    BY <2>1, <2>2, PlanMade DEF Sound
  <2> DEFINE t == [state |-> IF plan.todo = <<>> THEN "done" ELSE "running",
                   on |-> i, cmd |-> cmd, todo |-> plan.todo, ends |-> plan.ends,
                   effects |-> {}]
  <2>4. Running(t)
    BY <2>3 DEF Running
  <2>5. task' = [task EXCEPT ![c] = t]
    BY <2>2
  <2>6. /\ UNCHANGED <<site, up, gone, targets, probing, sessions>> /\ answer' = NoAnswer
        /\ clients' \subseteq Sessions /\ stray' \subseteq Sessions
    BY <1>1, <1>16 DEF Execute, Typed
  <2> HIDE DEF t
  <2> QED
    BY <1>1, <2>4, <2>5, <2>6, TaskTyped
<1>17. ASSUME NEW c \in Callers, Answered(c) PROVE Typed'
  <2>1. PICK did : task' = [task EXCEPT ![c].todo = Tail(@), ![c].effects = @ \cup did,
                              ![c].state = IF Len(task[c].todo) = 1 THEN "done" ELSE "running"]
    BY <1>17 DEF Answered
  <2> DEFINE t == [task[c] EXCEPT !.todo = Tail(@), !.effects = @ \cup did,
                                  !.state = IF Len(task[c].todo) = 1 THEN "done" ELSE "running"]
  <2>2. task' = [task EXCEPT ![c] = t]
    BY <1>1, <2>1 DEF Shape
  <2>3. /\ task[c] = [state |-> task[c].state, on |-> task[c].on, cmd |-> task[c].cmd,
                      todo |-> task[c].todo, ends |-> task[c].ends, effects |-> task[c].effects]
        /\ Running(task[c]) /\ task[c].state = "running"
    BY <1>1, <1>17 DEF IInv, Tasks, OnCourse, Typed, Answered
  <2>4. Running(t) /\ task[c].on \in Sessions
    BY <2>3 DEF Running
  <2>5. /\ UNCHANGED <<site, up, gone, targets, probing, sessions>> /\ answer' = NoAnswer
        /\ clients' \subseteq Sessions /\ stray' \subseteq Sessions
    BY <1>1, <1>17, <2>4 DEF Answered, Typed, Reopens
  <2> HIDE DEF t
  <2> QED
    BY <1>1, <2>2, <2>4, <2>5, TaskTyped
<1>18. ASSUME NEW c \in Callers, Unanswered(c) PROVE Typed'
  <2>1. PICK did : task' = [task EXCEPT ![c].todo = <<>>, ![c].ends = "failed",
                                        ![c].effects = @ \cup did, ![c].state = "done"]
    BY <1>18 DEF Unanswered
  <2> DEFINE t == [task[c] EXCEPT !.todo = <<>>, !.ends = "failed", !.effects = @ \cup did, !.state = "done"]
  <2>2. task' = [task EXCEPT ![c] = t]
    BY <1>1, <2>1 DEF Shape
  <2>3. /\ task[c] = [state |-> task[c].state, on |-> task[c].on, cmd |-> task[c].cmd,
                      todo |-> task[c].todo, ends |-> task[c].ends, effects |-> task[c].effects]
        /\ Running(task[c]) /\ task[c].state = "running"
    BY <1>1, <1>18 DEF IInv, Tasks, OnCourse, Typed, Unanswered
  <2>4. Running(t) /\ task[c].on \in Sessions
    BY <2>3 DEF Running
  <2>5. /\ UNCHANGED <<site, up, gone, targets, probing, sessions>> /\ answer' = NoAnswer
        /\ clients' \subseteq Sessions /\ stray' \subseteq Sessions
    <3>1. PICK sent \in SUBSET Reopens(c) :
             clients' = clients \cup sent /\ stray' = stray \cup (sent \ sessions)
      BY <1>18 DEF Unanswered
    <3>2. sent \subseteq Sessions
      BY <2>4, <3>1 DEF Reopens
    <3> QED
      BY <1>1, <1>18, <3>1, <3>2 DEF Unanswered, Typed
  <2> HIDE DEF t
  <2> QED
    BY <1>1, <2>2, <2>4, <2>5, TaskTyped
<1>19. ASSUME NEW c \in Callers, Returned(c) PROVE Typed'
  <2>1. Running(Idle)
    BY DEF Running, Idle
  <2>2. /\ UNCHANGED <<site, up, gone, targets, probing, sessions>> /\ answer' = NoAnswer
        /\ clients' \subseteq Sessions /\ stray' \subseteq Sessions
        /\ task' = [task EXCEPT ![c] = Idle]
    BY <1>1, <1>19 DEF Returned, Typed
  <2> QED
    BY <1>1, <2>1, <2>2, TaskTyped
<1> QED
  BY <1>5, <1>6, <1>7, <1>8, <1>9, <1>10, <1>11, <1>12, <1>13, <1>14, <1>15, <1>16, <1>17, <1>18,
     <1>19 DEF Next

---------------------------------------------------------------------------
(* The commands under way.                                                 *)

LEMMA EffectHere ==
    ASSUME NEW cmd, NEW rq, Aims(site, rq, cmd)
    PROVE  \A e \in Effect(rq) : EndpointOf(e[1]) = cmd.of
BY DEF Effect, Aims, Present

LEMMA ExecuteStep ==
    ASSUME IInv, NEW c \in Callers, NEW i \in Sessions, Execute(c, i)
    PROVE  Tasks'
<1>1. Shape /\ Shape' /\ site' = site
  BY ShapeStep DEF IInv, Next
<1>2. PICK cmd \in CommandsOn(i) : \E plan \in Executes(cmd, At(i)) :
         task' = [task EXCEPT ![c] =
                    [state |-> IF plan.todo = <<>> THEN "done" ELSE "running",
                     on |-> i, cmd |-> cmd, todo |-> plan.todo, ends |-> plan.ends,
                     effects |-> {}]]
  BY DEF Execute
<1>3. PICK plan \in Executes(cmd, At(i)) :
         task' = [task EXCEPT ![c] =
                    [state |-> IF plan.todo = <<>> THEN "done" ELSE "running",
                     on |-> i, cmd |-> cmd, todo |-> plan.todo, ends |-> plan.ends,
                     effects |-> {}]]
  BY <1>2
<1>4. Sound(site, plan, cmd)
  BY <1>2, <1>3, PlanMade
<1> DEFINE t == [state |-> IF plan.todo = <<>> THEN "done" ELSE "running",
                 on |-> i, cmd |-> cmd, todo |-> plan.todo, ends |-> plan.ends,
                 effects |-> {}]
<1>5. OnCourse(site, t)
  BY <1>4 DEF OnCourse, Sound, Honest
<1>6. task' = [task EXCEPT ![c] = t]
  BY <1>3
<1> HIDE DEF t
<1> QED
  BY <1>1, <1>5, <1>6 DEF IInv, Tasks, Shape

LEMMA AnsweredStep ==
    ASSUME IInv, NEW c \in Callers, Answered(c)
    PROVE  Tasks'
<1>1. Shape /\ Shape' /\ site' = site
  BY ShapeStep DEF IInv, Next
<1>2. PICK did \in {{}, Effect(Head(task[c].todo))} :
         /\ GoodEnough(c, Head(task[c].todo), did)
         /\ task' = [task EXCEPT ![c].todo = Tail(@), ![c].effects = @ \cup did,
                       ![c].state = IF Len(task[c].todo) = 1 THEN "done" ELSE "running"]
  BY DEF Answered
<1> DEFINE t == task[c]
           u == [state |-> IF Len(t.todo) = 1 THEN "done" ELSE "running", on |-> t.on,
                 cmd |-> t.cmd, todo |-> Tail(t.todo), ends |-> t.ends,
                 effects |-> t.effects \cup did]
<1>3. task' = [task EXCEPT ![c] = u]
  BY <1>1, <1>2 DEF Shape, IInv, Tasks, OnCourse
<1>4. OnCourse(site, t) /\ t.state = "running"
  BY DEF IInv, Tasks, Answered
<1>5. did \subseteq Effect(Head(t.todo)) /\ (Head(t.todo).do = "put" => did # {})
  BY <1>2 DEF GoodEnough
<1> HIDE DEF t
<1>6. t.todo # <<>>
  BY <1>4 DEF OnCourse
<1>7. /\ Aims(site, Head(t.todo), t.cmd) /\ OnTask(site, Tail(t.todo), t.cmd)
      /\ Head(t.todo) = t.todo[1] /\ Len(t.todo) \in Nat \ {0}
      /\ Len(Tail(t.todo)) = Len(t.todo) - 1
      /\ \A n \in 1..(Len(t.todo) - 1) : Tail(t.todo)[n] = t.todo[n + 1]
      /\ Len(t.todo) = 1 <=> Tail(t.todo) = <<>>
  BY <1>4, <1>6, TheRest DEF OnCourse
<1>8. \A e \in did : EndpointOf(e[1]) = t.cmd.of
  BY <1>5, <1>7, EffectHere
<1>9. Kept(site, u) \/ Honest(site, u, u.cmd)
  <2>1. CASE Kept(site, t)
    BY <2>1 DEF Kept
  <2>2. CASE ~(t.ends = "succeeded" /\ ~Excused(site, t.cmd))
    BY <2>2 DEF Honest
  <2>3. CASE ~Kept(site, t) /\ t.ends = "succeeded" /\ ~Excused(site, t.cmd)
    <3>1. PICK n \in 1..Len(t.todo) : Carries(site, t.todo[n], t.cmd)
      BY <1>4, <2>3 DEF OnCourse, Honest
    <3>2. CASE n = 1
      <4>1. did # {} /\ (t.cmd.verb = "set" => Head(t.todo).v = Wanted(site, t.cmd))
        BY <1>5, <1>7, <3>1, <3>2 DEF Carries
      <4>2. \A e \in did : e[2] = Head(t.todo).v
        BY <1>5 DEF Effect
      <4> QED
        BY <4>1, <4>2 DEF Kept
    <3>3. CASE n # 1
      <4> DEFINE m == n - 1
      <4>1. m \in 1..(Len(t.todo) - 1) /\ m + 1 = n
        BY <1>7, <3>1, <3>3
      <4> HIDE DEF m
      <4>2. m \in 1..Len(Tail(t.todo)) /\ Carries(site, Tail(t.todo)[m], t.cmd)
        BY <1>7, <3>1, <4>1
      <4> QED
        BY <4>2 DEF Honest
    <3> QED
      BY <3>2, <3>3
  <2> QED
    BY <2>1, <2>2, <2>3
<1>10. OnCourse(site, u)
  BY <1>4, <1>7, <1>8, <1>9 DEF OnCourse
<1> HIDE DEF u
<1> QED
  BY <1>1, <1>3, <1>10 DEF IInv, Tasks, Shape

LEMMA UnansweredStep ==
    ASSUME IInv, NEW c \in Callers, Unanswered(c)
    PROVE  Tasks'
<1>1. Shape /\ Shape' /\ site' = site
  BY ShapeStep DEF IInv, Next
<1>2. PICK did \in {{}, Effect(Head(task[c].todo))} :
         task' = [task EXCEPT ![c].todo = <<>>, ![c].ends = "failed",
                              ![c].effects = @ \cup did, ![c].state = "done"]
  BY DEF Unanswered
<1> DEFINE t == task[c]
           u == [state |-> "done", on |-> t.on, cmd |-> t.cmd, todo |-> <<>>,
                 ends |-> "failed", effects |-> t.effects \cup did]
<1>3. task' = [task EXCEPT ![c] = u]
  BY <1>1, <1>2 DEF Shape, IInv, Tasks, OnCourse
<1>4. OnCourse(site, t) /\ t.state = "running" /\ did \in {{}, Effect(Head(t.todo))}
  BY <1>2 DEF IInv, Tasks, Unanswered
<1> HIDE DEF t
<1>5. Aims(site, Head(t.todo), t.cmd)
  BY <1>4, TheRest DEF OnCourse
<1>6. \A e \in did : EndpointOf(e[1]) = t.cmd.of
  BY <1>4, <1>5, EffectHere
<1>7. OnTask(site, <<>>, t.cmd)
  BY NoRequests
<1>8. OnCourse(site, u)
  BY <1>4, <1>6, <1>7 DEF OnCourse, Honest
<1> HIDE DEF u
<1> QED
  BY <1>1, <1>3, <1>8 DEF IInv, Tasks, Shape

LEMMA TasksStep == ASSUME IInv, [Next]_vars PROVE Tasks'
<1>1. Shape /\ Shape' /\ site' = site
  BY ShapeStep DEF IInv
<1>2. ASSUME UNCHANGED task PROVE Tasks'
  BY <1>1, <1>2 DEF IInv, Tasks
<1>3. ASSUME NEW c \in Callers, Returned(c) PROVE Tasks'
  <2>1. OnCourse(site, Idle)
    BY NoRequests DEF OnCourse, Honest, Idle
  <2> QED
    BY <1>1, <1>3, <2>1 DEF IInv, Tasks, Shape, Returned
<1>4. CASE Discover \/ Goes \/ Returns \/ Changes \/ UNCHANGED vars
  BY <1>2, <1>4 DEF Discover, Goes, Returns, Changes, vars
<1>5. ASSUME NEW i \in Sessions,
             \/ Commission(i) \/ Commissioned(i) \/ CutOff(i) \/ Inventory(i) \/ ReadPoint(i)
             \/ Health(i) \/ Teardown(i) \/ Announced(i) \/ Unsolicited(i)
      PROVE  Tasks'
  <2>1. UNCHANGED task
    BY <1>5 DEF Commission, Commissioned, CutOff, Inventory, ReadPoint, Health, Teardown,
                Announced, Unsolicited
  <2> QED
    BY <1>2, <2>1
<1> QED
  BY <1>3, <1>4, <1>5, ExecuteStep, AnsweredStep, UnansweredStep DEF Next

---------------------------------------------------------------------------
(* The clients.                                                            *)

\* A client is kept by a commissioning that succeeded.
LEMMA KeptIsOpened ==
    ASSUME site \in Sites, NEW r, NEW s, Commissions(r, s).client = "kept"
    PROVE  Commissions(r, s).status = "ok"
<1>1. A \in Names
  BY Installation
<1>2. \A x, y : Probed(x, y) \in {TurnedAway, Closed, Opened}
  BY DEF Probed
<1>3. Commissions(r, s) \in {TurnedAway, Closed, Opened, Uncaught}
  <2>1. CASE A \in {"shelly", "hue", "esphome", "kincony", "onvif"}
    BY <1>2, <2>1 DEF Commissions, ShellyCommission, HueCommission, EspHomeCommission,
                      KinConyCommission, OnvifCommission
  <2>2. CASE A \in {"modbus", "bacnet", "knx", "opcua", "dnp3"}
    BY <1>2, <2>2 DEF Commissions, ThroughLibrary, ModbusCommission, BacnetCommission,
                      KnxCommission, OpcUaCommission, Dnp3Commission
  <2>3. CASE A \in {"zigbee", "zwave", "matter", "lutron", "mqtt"}
    BY <1>2, <2>3 DEF Commissions, ThroughLibrary, ZigbeeCommission, ZWaveCommission,
                      MatterCommission, LutronCommission, MqttCommission
  <2> QED
    BY <1>1, <2>1, <2>2, <2>3 DEF Names
<1> QED
  BY <1>3 DEF TurnedAway, Closed, Opened, Uncaught

LEMMA ClientsStep == ASSUME IInv, [Next]_vars PROVE NoStrayClient'
<1>1. site \in Sites /\ clients \subseteq sessions \cup DOMAIN probing \cup stray
  BY DEF IInv, NoStrayClient, Shape
<1>2. ASSUME UNCHANGED <<probing, sessions, clients, stray>> PROVE NoStrayClient'
  BY <1>1, <1>2 DEF NoStrayClient
<1>3. ASSUME NEW i \in Sessions, Commission(i) PROVE NoStrayClient'
  <2>1. /\ DOMAIN probing' = DOMAIN probing \cup {i} /\ clients' = clients \cup {i}
        /\ UNCHANGED <<sessions, stray>>
    BY <1>3 DEF Commission
  <2> QED
    BY <1>1, <2>1 DEF NoStrayClient
<1>4. ASSUME NEW i \in Sessions, Commissioned(i) PROVE NoStrayClient'
  <2> DEFINE result == Commissions(probing[i], Equipment)
  <2>1. /\ sessions' = IF result.status = "ok" THEN sessions \cup {i} ELSE sessions
        /\ clients' = IF result.client = "kept" THEN clients ELSE clients \ {i}
        /\ DOMAIN probing' = DOMAIN probing \ {i} /\ stray' = stray
    BY <1>4 DEF Commissioned
  <2>2. result.client = "kept" => result.status = "ok"
    BY <1>1, KeptIsOpened
  <2> HIDE DEF result
  <2> QED
    BY <1>1, <2>1, <2>2 DEF NoStrayClient
<1>5. ASSUME NEW i \in Sessions, CutOff(i) PROVE NoStrayClient'
  <2>1. /\ DOMAIN probing' = DOMAIN probing \ {i} /\ stray' = stray \cup {i}
        /\ UNCHANGED <<sessions, clients>>
    BY <1>5 DEF CutOff
  <2> QED
    BY <1>1, <2>1 DEF NoStrayClient
<1>6. ASSUME NEW i \in Sessions, Teardown(i) PROVE NoStrayClient'
  BY <1>1, <1>6 DEF Teardown, NoStrayClient
<1>7. ASSUME NEW c \in Callers, Answered(c) PROVE NoStrayClient'
  BY <1>1, <1>7 DEF Answered, NoStrayClient
<1>8. ASSUME NEW c \in Callers, Unanswered(c) PROVE NoStrayClient'
  <2>1. PICK sent : clients' = clients \cup sent /\ stray' = stray \cup (sent \ sessions)
    BY <1>8 DEF Unanswered
  <2> QED
    BY <1>1, <1>8, <2>1 DEF Unanswered, NoStrayClient
<1>9. CASE Discover \/ Goes \/ Returns \/ Changes \/ UNCHANGED vars
  BY <1>2, <1>9 DEF Discover, Goes, Returns, Changes, vars
<1>10. ASSUME NEW i \in Sessions,
              Inventory(i) \/ ReadPoint(i) \/ Health(i) \/ Announced(i) \/ Unsolicited(i)
       PROVE  NoStrayClient'
  BY <1>2, <1>10 DEF Inventory, ReadPoint, Health, Announced, Unsolicited
<1>11. ASSUME NEW c \in Callers, (\E i \in Sessions : Execute(c, i)) \/ Returned(c)
       PROVE  NoStrayClient'
  BY <1>2, <1>11 DEF Execute, Returned
<1> QED
  BY <1>3, <1>4, <1>5, <1>6, <1>7, <1>8, <1>9, <1>10, <1>11 DEF Next

---------------------------------------------------------------------------
(* The theorems.                                                           *)

LEMMA Invariance == Spec => []IInv
<1>1. IInv /\ [Next]_vars => IInv'
  BY ShapeStep, TypedStep, DictionariesStep, ListingsStep, AnswersStep, TasksStep, ClientsStep
     DEF IInv
<1> QED
  BY InitIInv, <1>1, PTL DEF Spec

\* The adapters' state keeps its types: the dictionaries hold objects of the
\* installation, or slots DNP3 files them under, and lead to such objects or to
\* what a command asked for, whatever was read, written, reported or announced
\* (for instance adapters/dnp3/adapter.py:105-133).
THEOREM AdaptersAreTyped == Spec => []TypeOK
<1>1. IInv => TypeOK
  <2> SUFFICES ASSUME IInv PROVE TypeOK
    OBVIOUS
  <2>1. Slots = SlotsOf(site)
    BY DEF Slots, SlotsOf, Quantities
  <2>2. \A i \in Sessions :
           /\ DOMAIN known[i] \subseteq Slots
           /\ \A k \in DOMAIN known[i] : known[i][k] \in Quantities \cup {Nothing, Asked}
           /\ topics[i] \subseteq Quantities
           /\ \A p \in snapshot[i] : p.native \in Slots /\ {p.readable, p.writable} \subseteq BOOLEAN
    BY <2>1 DEF IInv, Dictionaries, Dictionary, Listings, Lists, Quantities
  <2>3. \A c \in Callers : task[c].state = "running" <=> task[c].todo # <<>>
    BY DEF IInv, Typed, Running, Tasks, OnCourse
  <2> QED
    BY <2>2, <2>3 DEF TypeOK, IInv, Shape, Typed, Running, Qualities, Quantities
<1> QED
  BY Invariance, <1>1, PTL

\* A value given as good is of the quantity listed under the id that was asked
\* for, through every adapter that glues ids together and cuts them up again
\* (for instance adapters/kincony/adapter.py:389-441), for every name a device
\* may have that is free of the words the adapter cuts at, wherever the ids are
\* not ambiguous and however the dictionaries were filled; or it is made up, and
\* then the thing is gone or the adapter keeps what commands asked for.
THEOREM ReadsAnswerTheirOwn == Spec => []AnswersItsOwn
<1>1. IInv => AnswersItsOwn
  BY DEF IInv
<1> QED
  BY Invariance, <1>1, PTL

\* Every point an inventory lists as readable is answered with a value that is
\* no default while the connection and the equipment are up and the thing is
\* there, but for those NeverRead names (for instance
\* adapters/shelly/adapter.py:326-366).
THEOREM ReadablePointsAnswer == Spec => []ReadableMeansAnswered
<1>1. IInv => ReadableMeansAnswered
  <2> SUFFICES ASSUME IInv, NEW i \in sessions \cap clients, NEW p \in snapshot[i],
                      p.readable, up, p.native \in Present, ~NeverRead(p)
               PROVE  Answers(p, At(i))
    BY DEF ReadableMeansAnswered, Answers
  <2>1. i \in Sessions /\ site \in Sites
    BY DEF IInv, Typed, Shape
  <2>2. Lists(site, p) /\ Meets(At(i))
    BY <2>1, AtMeets DEF IInv, Listings
  <2>3. At(i).has = Present /\ At(i).up
    BY DEF At, Equipped
  <2>4. A \in Names
    BY <2>1, Installation
  <2>5. A \notin {"zigbee", "zwave", "matter", "lutron", "opcua", "mqtt"}
    BY DEF NeverRead
  <2>6. CASE A \in {"shelly", "hue", "esphome", "kincony", "onvif", "modbus"}
    BY <2>1, <2>2, <2>3, <2>6, HttpAnswers
  <2>7. CASE A \in {"bacnet", "knx", "dnp3"}
    BY <2>1, <2>2, <2>3, <2>7, BusAnswers
  <2> QED
    BY <2>4, <2>5, <2>6, <2>7 DEF Names
<1> QED
  BY Invariance, <1>1, PTL

\* Whatever a command changes in the equipment it changes on the endpoint it
\* was sent to, through every adapter's execute() and however the command ends
\* (for instance adapters/kincony/adapter.py:443-505).
THEOREM EffectsStayOnEndpoint == Spec => []EffectsOnEndpoint
<1>1. IInv => EffectsOnEndpoint
  BY DEF IInv, Tasks, OnCourse, EffectsOnEndpoint
<1> QED
  BY Invariance, <1>1, PTL

\* A client that is open belongs to a registered connection or to a commissioning
\* under way, or was left by a commissioning that the registry cut off
\* (core/registry.py:129-134) or by a Tasmota command that outlived the teardown:
\* no probe that fails and no other command leaves one behind (for instance
\* adapters/zigbee/adapter.py:109-124).
THEOREM ClientsAreRegistered == Spec => []NoStrayClient
<1>1. IInv => NoStrayClient
  BY DEF IInv
<1> QED
  BY Invariance, <1>1, PTL

\* When one of the adapters that look at the verdict of every request reports
\* success (Shelly's switches, ESPHome, Modbus, BACnet and OPC UA; for instance
\* adapters/shelly/adapter.py:369-389), the equipment has been changed and a
\* "set" has left the value meant, whatever was lost between the requests.  The
\* adapters that do not look are excepted by name.
THEOREM SuccessIsDone == Spec => []SucceededMeansDone
<1>1. IInv => SucceededMeansDone
  <2> SUFFICES ASSUME IInv, NEW c \in Callers, task[c].state = "done",
                      task[c].ends = "succeeded", ~DeclaredOnly(task[c].cmd)
               PROVE  /\ task[c].effects # {}
                      /\ task[c].cmd.verb = "set" =>
                            \E e \in task[c].effects : e[2] = Meant(task[c].cmd)
    BY DEF SucceededMeansDone
  <2> DEFINE t == task[c]
  <2>1. OnCourse(site, t) /\ t.state = "done" /\ t.ends = "succeeded"
    BY DEF IInv, Tasks
  <2>2. ~Excused(site, t.cmd) /\ Wanted(site, t.cmd) = Meant(t.cmd)
    BY DEF DeclaredOnly, Excused, Wanted, Meant, A
  <2> HIDE DEF t
  <2>3. ~Honest(site, t, t.cmd)
    <3>1. Len(t.todo) = 0
      BY <2>1 DEF OnCourse
    <3> QED
      BY <2>1, <2>2, <3>1 DEF Honest
  <2>4. Kept(site, t)
    BY <2>1, <2>3 DEF OnCourse
  <2>5. /\ t.effects # {}
        /\ t.cmd.verb = "set" => \E e \in t.effects : e[2] = Meant(t.cmd)
    BY <2>2, <2>4 DEF Kept
  <2> QED
    BY <2>5 DEF t
<1> QED
  BY Invariance, <1>1, PTL
==============================================================================
