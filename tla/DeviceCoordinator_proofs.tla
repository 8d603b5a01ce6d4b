----------------------- MODULE DeviceCoordinator_proofs -----------------------
(***************************************************************************)
(* For any agents, devices, durations and priorities: the lease table      *)
(* keeps what agents were told, and implements the contract of             *)
(* LeaseContract.  Machine-checked by TLAPS.                               *)
(***************************************************************************)
EXTENDS DeviceCoordinator, TLAPS

USE AgentsAssumption, TimesAssumption DEF AgentsAssumption, TimesAssumption

Lease == [agent : Agents \cup {NoAgent}, priority : Int, expires_at : Int]
Word == [priority : Int, until : Int]

---------------------------------------------------------------------------
(* What the coordinator's operators return.                                *)

\* Cleaning up keeps the leases that count and forgets the others.
LEMMA CleanedFacts ==
    ASSUME TypeOK
    PROVE  \A d \in Devices :
             /\ leases[d] \in Lease /\ Cleaned[d] \in Lease
             /\ Held(d) => Cleaned[d] = leases[d]
             /\ ~Held(d) => \/ Cleaned[d] = NoLease
                            \/ Cleaned[d] = leases[d] /\ leases[d].agent = NoAgent
<1>1. \A d \in Devices : leases[d] \in Lease
  BY DEF TypeOK, Lease
<1>2. NoLease \in Lease
  BY DEF NoLease, Lease
<1> QED
  BY <1>1, <1>2 DEF Cleaned, Held, Expired

\* An agent gets a whole number of seconds between the two limits.
LEMMA GrantedFacts ==
    \A n \in Durations : Granted(n) \in MinLease..MaxLease /\ Granted(n) \in Nat
  BY DEF Granted

---------------------------------------------------------------------------
(* The inductive invariant: what an agent was told and may still count on  *)
(* is what the table says.                                                 *)

TableMatchesWord ==
    \A d \in Devices, a \in Agents :
        told[d][a].until >= now =>
            /\ leases[d].agent = a
            /\ leases[d].expires_at = told[d][a].until
            /\ leases[d].priority = told[d][a].priority

IInv == TypeOK /\ TableMatchesWord

\* At the start nothing is leased, and nobody was told anything.
LEMMA InitIInv == Init => IInv
  BY DEF Init, IInv, TypeOK, TableMatchesWord, NoLease, Untold

\* The table after an operation that gives d to a: the others are cleaned up.
GivenTo(a, d, p, until) ==
    leases' = [e \in Devices |->
        IF e = d THEN [agent |-> a, priority |-> p, expires_at |-> until] ELSE Cleaned[e]]

\* A cleanup, with or without a lease that changes hands, keeps the word given
\* about the devices it leaves alone.
LEMMA OthersKeepTheirWord ==
    ASSUME IInv, NEW d \in Devices, UNCHANGED now,
           leases'[d] = Cleaned[d], told'[d] = told[d]
    PROVE  \A a \in Agents :
             told'[d][a].until >= now' =>
               /\ leases'[d].agent = a
               /\ leases'[d].expires_at = told'[d][a].until
               /\ leases'[d].priority = told'[d][a].priority
<1> SUFFICES ASSUME NEW a \in Agents, told[d][a].until >= now
             PROVE  /\ leases'[d].agent = a
                    /\ leases'[d].expires_at = told[d][a].until
                    /\ leases'[d].priority = told[d][a].priority
  OBVIOUS
<1>1. /\ leases[d].agent = a
      /\ leases[d].expires_at = told[d][a].until
      /\ leases[d].priority = told[d][a].priority
  BY DEF IInv, TableMatchesWord
<1>2. now \in Int /\ told[d][a].until \in Int
  BY DEF IInv, TypeOK
<1>3. Held(d)
  BY <1>1, <1>2 DEF Held, Expired
<1> QED
  BY <1>1, <1>3, CleanedFacts DEF IInv

\* The agent's own lease gets a new end, and the agent is told of it.
LEMMA ExtendStep ==
    ASSUME IInv, NEW a \in Agents, NEW d \in Devices, NEW n \in Durations, Extend(a, d, n)
    PROVE  IInv'
<1> DEFINE until == now + Granted(n)
           p == leases[d].priority
<1>1. /\ Held(d) /\ leases[d].agent = a /\ GivenTo(a, d, p, until) /\ UNCHANGED now
      /\ told' = [told EXCEPT ![d][a] = [priority |-> p, until |-> until]]
  BY DEF Extend, GivenTo
<1>2. /\ until \in Int /\ p \in Int /\ now \in Int
      /\ told \in [Devices -> [Agents -> Word]]
  BY GrantedFacts DEF IInv, TypeOK, Word
<1>3. /\ told' \in [Devices -> [Agents -> Word]]
      /\ told'[d][a] = [priority |-> p, until |-> until]
      /\ \A b \in Agents \ {a} : told'[d][b] = told[d][b]
      /\ \A e \in Devices \ {d} : told'[e] = told[e]
  BY <1>1, <1>2 DEF Word
<1>4. /\ leases' \in [Devices -> Lease]
      /\ leases'[d] = [agent |-> a, priority |-> p, expires_at |-> until]
      /\ \A e \in Devices \ {d} : leases'[e] = Cleaned[e]
  BY <1>1, <1>2, CleanedFacts DEF GivenTo, IInv, Lease
<1>5. \A b \in Agents \ {a} : ~(told[d][b].until >= now)
  BY <1>1 DEF IInv, TableMatchesWord
<1>6. TypeOK'
  BY <1>1, <1>3, <1>4 DEF IInv, TypeOK, Lease, Word
<1>7. TableMatchesWord'
  <2> SUFFICES ASSUME NEW e \in Devices, NEW b \in Agents, told'[e][b].until >= now'
               PROVE  /\ leases'[e].agent = b
                      /\ leases'[e].expires_at = told'[e][b].until
                      /\ leases'[e].priority = told'[e][b].priority
    BY DEF TableMatchesWord
  <2>1. CASE e = d /\ b = a
    BY <1>3, <1>4, <2>1
  <2>2. CASE e = d /\ b # a
    BY <1>1, <1>3, <1>5, <2>2
  <2>3. CASE e # d
    BY <1>1, <1>3, <1>4, <2>3, OthersKeepTheirWord
  <2> QED
    BY <2>1, <2>2, <2>3
<1> QED
  BY <1>6, <1>7 DEF IInv

\* A refusal, like every look at the table, only cleans up.
LEMMA CleanupStep ==
    ASSUME IInv, leases' = Cleaned, UNCHANGED <<now, told>>
    PROVE  IInv'
<1>1. TypeOK'
  BY CleanedFacts DEF IInv, TypeOK, Cleaned, Lease
<1>2. TableMatchesWord'
  BY OthersKeepTheirWord DEF TableMatchesWord
<1> QED
  BY <1>1, <1>2 DEF IInv

\* Whoever loses the device was told of a lower priority, or of a time that is
\* over; whoever gets it is told so.
LEMMA AcquireStep ==
    ASSUME IInv, NEW a \in Agents, NEW d \in Devices, NEW p \in Priorities, NEW n \in Durations,
           Acquire(a, d, p, n)
    PROVE  IInv'
<1> DEFINE until == now + Granted(n)
           word == [priority |-> p, until |-> until]
<1>1. /\ ~Held(d) \/ (leases[d].agent # a /\ ~(p <= leases[d].priority))
      /\ GivenTo(a, d, p, until) /\ UNCHANGED now
      /\ told' = [told EXCEPT ![d] = [b \in Agents |->
           IF b = a THEN word ELSE IF p > told[d][b].priority THEN Untold ELSE told[d][b]]]
  BY DEF Acquire, GivenTo, Outranked
<1>2. /\ until \in Int /\ p \in Int /\ now \in Nat /\ now > 0
      /\ told \in [Devices -> [Agents -> Word]]
      /\ Untold \in Word /\ word \in Word
  BY GrantedFacts DEF IInv, TypeOK, Word, Untold
<1>3. /\ told' \in [Devices -> [Agents -> Word]]
      /\ told'[d][a] = word
      /\ \A b \in Agents \ {a} :
           told'[d][b] = IF p > told[d][b].priority THEN Untold ELSE told[d][b]
      /\ \A e \in Devices \ {d} : told'[e] = told[e]
  BY <1>1, <1>2
<1>4. /\ leases' \in [Devices -> Lease]
      /\ leases'[d] = [agent |-> a, priority |-> p, expires_at |-> until]
      /\ \A e \in Devices \ {d} : leases'[e] = Cleaned[e]
  BY <1>1, <1>2, CleanedFacts DEF GivenTo, IInv, Lease
<1>5. \A b \in Agents \ {a} : ~(told'[d][b].until >= now)
  <2> SUFFICES ASSUME NEW b \in Agents \ {a}, told'[d][b].until >= now PROVE FALSE
    OBVIOUS
  <2>1. told'[d][b] = told[d][b] /\ ~(p > told[d][b].priority)
    BY <1>2, <1>3 DEF Untold
  <2>2. /\ leases[d].agent = b /\ leases[d].expires_at = told[d][b].until
        /\ leases[d].priority = told[d][b].priority
    BY <2>1 DEF IInv, TableMatchesWord
  <2>3. told[d][b].until \in Int /\ told[d][b].priority \in Int
    BY <1>2 DEF Word
  <2>4. Held(d)
    BY <1>2, <2>1, <2>2, <2>3 DEF Held, Expired
  <2> QED
    BY <1>1, <1>2, <2>1, <2>2, <2>3, <2>4
<1>6. TypeOK'
  BY <1>1, <1>3, <1>4 DEF IInv, TypeOK, Lease, Word
<1>7. TableMatchesWord'
  <2> SUFFICES ASSUME NEW e \in Devices, NEW b \in Agents, told'[e][b].until >= now'
               PROVE  /\ leases'[e].agent = b
                      /\ leases'[e].expires_at = told'[e][b].until
                      /\ leases'[e].priority = told'[e][b].priority
    BY DEF TableMatchesWord
  <2>1. CASE e = d /\ b = a
    BY <1>3, <1>4, <2>1
  <2>2. CASE e = d /\ b # a
    BY <1>1, <1>5, <2>2
  <2>3. CASE e # d
    BY <1>1, <1>3, <1>4, <2>3, OthersKeepTheirWord
  <2> QED
    BY <2>1, <2>2, <2>3
<1> QED
  BY <1>6, <1>7 DEF IInv

\* Giving up takes the agent's own leases only, and it is told so.
LEMMA GivesUpStep ==
    ASSUME IInv, NEW a \in Agents, NEW S \in SUBSET Devices, GivesUp(a, S)
    PROVE  IInv'
<1>1. \A d \in Devices :
        leases'[d] = IF d \in S /\ leases[d].agent = a THEN NoLease ELSE leases[d]
  BY DEF GivesUp, Without
<1>2. /\ leases \in [Devices -> Lease] /\ told \in [Devices -> [Agents -> Word]]
      /\ now \in Nat /\ now > 0 /\ UNCHANGED now
  BY DEF GivesUp, IInv, TypeOK, Lease, Word
<1>3. NoLease \in Lease /\ Untold \in Word
  BY DEF NoLease, Lease, Untold, Word
<1>4. \A d \in Devices, b \in Agents :
        told'[d][b] = IF d \in S /\ b = a THEN Untold ELSE told[d][b]
  BY <1>2 DEF GivesUp
<1>5. leases' \in [Devices -> Lease] /\ told' \in [Devices -> [Agents -> Word]]
  BY <1>2, <1>3 DEF GivesUp, Without
<1>6. TypeOK'
  BY <1>2, <1>5 DEF IInv, TypeOK, Lease, Word
<1>7. TableMatchesWord'
  <2> SUFFICES ASSUME NEW d \in Devices, NEW b \in Agents, told'[d][b].until >= now
               PROVE  /\ leases'[d].agent = b
                      /\ leases'[d].expires_at = told'[d][b].until
                      /\ leases'[d].priority = told'[d][b].priority
    BY <1>2 DEF TableMatchesWord
  <2>1. told'[d][b] = told[d][b] /\ ~(d \in S /\ b = a)
    BY <1>2, <1>4 DEF Untold
  <2>2. /\ leases[d].agent = b /\ leases[d].expires_at = told[d][b].until
        /\ leases[d].priority = told[d][b].priority
    BY <2>1 DEF IInv, TableMatchesWord
  <2>3. leases'[d] = leases[d]
    BY <1>1, <2>1, <2>2
  <2> QED
    BY <2>1, <2>2, <2>3
<1> QED
  BY <1>6, <1>7 DEF IInv

\* The clock only makes promises run out.
LEMMA TickStep == ASSUME IInv, Tick PROVE IInv'
<1>1. /\ now' = now + 1 /\ now \in Int /\ now' \in Epoch..MaxTime
      /\ UNCHANGED <<leases, told>>
      /\ \A d \in Devices, a \in Agents : told[d][a].until \in Int
  BY DEF Tick, IInv, TypeOK
<1> QED
  BY <1>1 DEF IInv, TypeOK, TableMatchesWord

---------------------------------------------------------------------------
\* The lease table and what the agents know agree in every reachable state.
THEOREM CoordinatorSafety == Spec => []IInv
<1>1. IInv /\ [Next]_vars => IInv'
  <2> SUFFICES ASSUME IInv, [Next]_vars PROVE IInv'
    OBVIOUS
  <2>1. CASE Tick
    BY <2>1, TickStep
  <2>2. CASE Look
    BY <2>2, CleanupStep DEF Look
  <2>3. ASSUME NEW a \in Agents, ReleaseAll(a) PROVE IInv'
    BY <2>3, GivesUpStep DEF ReleaseAll
  <2>4. ASSUME NEW a \in Agents, NEW d \in Devices, Release(a, d) PROVE IInv'
    BY <2>4, GivesUpStep DEF Release
  <2>5. ASSUME NEW a \in Agents, NEW d \in Devices, NEW n \in Durations, Extend(a, d, n)
        PROVE  IInv'
    BY <2>5, ExtendStep
  <2>6. ASSUME NEW a \in Agents, NEW d \in Devices, NEW p \in Priorities, Deny(a, d, p)
        PROVE  IInv'
    BY <2>6, CleanupStep DEF Deny
  <2>7. ASSUME NEW a \in Agents, NEW d \in Devices, NEW p \in Priorities, NEW n \in Durations,
               Acquire(a, d, p, n)
        PROVE  IInv'
    BY <2>7, AcquireStep
  <2>8. CASE UNCHANGED vars
    BY <2>8 DEF vars, IInv, TypeOK, TableMatchesWord
  <2> QED
    BY <2>1, <2>2, <2>3, <2>4, <2>5, <2>6, <2>7, <2>8 DEF Next, Operation
<1> QED
  BY <1>1, InitIInv, PTL DEF Spec

\* Type correctness of the lease table.
THEOREM CoordinatorTypeOK == Spec => []TypeOK
<1>1. IInv => TypeOK
  BY DEF IInv
<1> QED
  BY <1>1, CoordinatorSafety, PTL

\* An agent that was told it has a device is, until the time it was told, the
\* only one check_write lets through.
THEOREM LeasePromiseKept == Spec => []PromiseKept
<1>1. IInv => PromiseKept
  <2> SUFFICES ASSUME IInv, NEW d \in Devices, NEW a \in Agents, told[d][a].until >= now,
                      NEW b \in Agents
               PROVE  CheckWrite(d, b) <=> b = a
    BY DEF PromiseKept
  <2>1. leases[d].agent = a /\ leases[d].expires_at = told[d][a].until
    BY DEF IInv, TableMatchesWord
  <2>2. now \in Int /\ told[d][a].until \in Int
    BY DEF IInv, TypeOK
  <2> QED
    BY <2>1, <2>2 DEF CheckWrite, Held, Expired
<1> QED
  BY <1>1, CoordinatorSafety, PTL

---------------------------------------------------------------------------
(* The coordinator implements LeaseContract.                               *)

GrantOf(d) ==
    [holder |-> leases[d].agent, priority |-> leases[d].priority, until |-> leases[d].expires_at]

Nothing == [holder |-> NoAgent, priority |-> 0, until |-> 0]

\* The contract does not see a cleanup.
LEMMA CleanupUnseen ==
    ASSUME TypeOK, NEW d \in Devices, UNCHANGED now, leases'[d] = Cleaned[d]
    PROVE  Grants'[d] = Grants[d]
<1>1. Held(d)' <=> Held(d)
  BY CleanedFacts DEF Held, Expired, NoLease
<1>2. Held(d) => leases'[d] = leases[d]
  BY CleanedFacts
<1> QED
  BY <1>1, <1>2 DEF Grants

\* A device that is given to an agent for a while is held by it from then on.
LEMMA GivenSeen ==
    ASSUME TypeOK, NEW a \in Agents, NEW d \in Devices, NEW p, NEW n \in MinLease..MaxLease,
           GivenTo(a, d, p, now + n), UNCHANGED now
    PROVE  Grants' = [Grants EXCEPT ![d] = [holder |-> a, priority |-> p, until |-> now + n]]
<1>1. /\ leases'[d] = [agent |-> a, priority |-> p, expires_at |-> now + n]
      /\ \A e \in Devices \ {d} : leases'[e] = Cleaned[e]
  BY DEF GivenTo
<1>2. now \in Int
  BY DEF TypeOK
<1>3. Held(d)'
  BY <1>1, <1>2 DEF Held, Expired
<1>4. Grants'[d] = [holder |-> a, priority |-> p, until |-> now + n]
  BY <1>1, <1>3 DEF Grants
<1>5. \A e \in Devices \ {d} : Grants'[e] = Grants[e]
  BY <1>1, CleanupUnseen
<1> QED
  BY <1>4, <1>5 DEF Grants

\* Extending is renewing: the holder and its priority stay.
LEMMA ExtendRenews ==
    ASSUME TypeOK, NEW a \in Agents, NEW d \in Devices, NEW n \in Durations, Extend(a, d, n)
    PROVE  Contract!Renew(a, d, Granted(n))
<1>1. /\ Held(d) /\ leases[d].agent = a /\ UNCHANGED now
      /\ GivenTo(a, d, leases[d].priority, now + Granted(n))
  BY DEF Extend, GivenTo
<1>2. Grants[d] = GrantOf(d)
  BY <1>1 DEF Grants, GrantOf
<1>3. Grants' = [Grants EXCEPT ![d] =
        [holder |-> a, priority |-> leases[d].priority, until |-> now + Granted(n)]]
  BY <1>1, GivenSeen, GrantedFacts
<1>4. [GrantOf(d) EXCEPT !.until = now + Granted(n)] =
        [holder |-> a, priority |-> leases[d].priority, until |-> now + Granted(n)]
  BY <1>1 DEF GrantOf
<1>5. Grants' = [Grants EXCEPT ![d].until = now + Granted(n)]
  BY <1>2, <1>3, <1>4
<1> QED
  BY <1>1, <1>2, <1>5 DEF Contract!Renew, GrantOf

\* Acquiring takes a device that is free for the contract, or outranks its holder.
LEMMA AcquireTakes ==
    ASSUME TypeOK, NEW a \in Agents, NEW d \in Devices, NEW p \in Priorities, NEW n \in Durations,
           Acquire(a, d, p, n)
    PROVE  Contract!Take(a, d, p, Granted(n))
<1>1. /\ ~Held(d) \/ (leases[d].agent # a /\ ~(p <= leases[d].priority))
      /\ GivenTo(a, d, p, now + Granted(n)) /\ UNCHANGED now
  BY DEF Acquire, GivenTo, Outranked
<1>2. p \in Int /\ leases[d].priority \in Int
  BY DEF TypeOK
<1>3. Grants[d].holder = NoAgent \/ (Grants[d].holder # a /\ p > Grants[d].priority)
  BY <1>1, <1>2 DEF Grants
<1>4. Grants' = [Grants EXCEPT ![d] = [holder |-> a, priority |-> p, until |-> now + Granted(n)]]
  BY <1>1, GivenSeen, GrantedFacts
<1> QED
  BY <1>1, <1>3, <1>4 DEF Contract!Take

\* An agent gives up those devices that it still holds.
LEMMA GivesUpSeen ==
    ASSUME TypeOK, NEW a \in Agents, NEW S \in SUBSET Devices, GivesUp(a, S)
    PROVE  \E T \in SUBSET Devices : Contract!GiveUp(a, T)
<1> DEFINE T == {d \in S : Held(d) /\ leases[d].agent = a}
<1>1. UNCHANGED now
  BY DEF GivesUp
<1>2. \A d \in Devices :
        leases'[d] = IF d \in S /\ leases[d].agent = a THEN NoLease ELSE leases[d]
  BY DEF GivesUp, Without
<1>3. \A d \in T : Grants[d].holder = a
  BY DEF Grants
<1>4. ASSUME NEW d \in Devices
      PROVE  Grants'[d] = IF d \in T THEN Nothing ELSE Grants[d]
  <2>1. CASE d \in S /\ leases[d].agent = a
    <3>1. ~Held(d)' /\ Grants'[d] = Nothing
      BY <1>2, <2>1 DEF Held, NoLease, Grants, Nothing
    <3>2. ~Held(d) => Grants[d] = Nothing
      BY DEF Grants, Nothing
    <3> QED
      BY <2>1, <3>1, <3>2
  <2>2. CASE ~(d \in S /\ leases[d].agent = a)
    BY <1>1, <1>2, <2>2 DEF Grants, Held, Expired
  <2> QED
    BY <2>1, <2>2
<1>5. Grants' = [d \in Devices |-> IF d \in T THEN Nothing ELSE Grants[d]]
  BY <1>4 DEF Grants
<1> QED
  BY <1>1, <1>3, <1>5 DEF Contract!GiveUp, Contract!Free, Nothing

\* Leases that run out, noticed or not, lapse with the contract's clock.
LEMMA TickLapses ==
    ASSUME TypeOK, Tick
    PROVE  Contract!Tick
<1>1. /\ now < MaxTime /\ now' = now + 1 /\ UNCHANGED leases
      /\ now \in Nat /\ \A d \in Devices : leases[d].expires_at \in Int
  BY DEF Tick, TypeOK
<1>2. ASSUME NEW d \in Devices
      PROVE  Grants'[d] = IF now' > Grants[d].until THEN Nothing ELSE Grants[d]
  <2>1. CASE Held(d)
    <3>1. Grants[d] = GrantOf(d) /\ Grants[d].until = leases[d].expires_at
      BY <2>1 DEF Grants, GrantOf
    <3>2. Held(d)' <=> ~(now' > leases[d].expires_at)
      BY <1>1, <2>1 DEF Held, Expired
    <3> QED
      BY <1>1, <3>1, <3>2 DEF Grants, GrantOf, Nothing
  <2>2. CASE ~Held(d)
    <3>1. Grants[d] = Nothing /\ now' > Nothing.until
      BY <1>1, <2>2 DEF Grants, Nothing
    <3>2. ~Held(d)'
      BY <1>1, <2>2 DEF Held, Expired
    <3> QED
      BY <3>1, <3>2 DEF Grants, Nothing
  <2> QED
    BY <2>1, <2>2
<1>3. Grants' = [d \in Devices |-> IF now' > Grants[d].until THEN Nothing ELSE Grants[d]]
  BY <1>2 DEF Grants
<1> QED
  BY <1>1, <1>3 DEF Contract!Tick, Contract!Free, Nothing

\* Every operation of the lazily cleaned table is one of the contract's, or is
\* not seen by it at all: the table implements the contract.
THEOREM CoordinatorKeepsContract == Spec => KeepsContract
<1>1. Init => Contract!Init
  BY DEF Init, Grants, Held, NoLease, Contract!Init, Contract!Free
<1>2. TypeOK /\ [Next]_vars => [Contract!Next]_(Contract!vars)
  <2> SUFFICES ASSUME TypeOK, [Next]_vars
               PROVE  Contract!Next \/ UNCHANGED Contract!vars
    OBVIOUS
  <2>1. ASSUME leases' = Cleaned, UNCHANGED now PROVE UNCHANGED Contract!vars
    <3>1. \A d \in Devices : Grants'[d] = Grants[d]
      BY <2>1, CleanupUnseen DEF Cleaned
    <3>2. Grants' = Grants
      BY <3>1 DEF Grants
    <3> QED
      BY <2>1, <3>2 DEF Contract!vars
  <2>2. CASE Tick
    BY <2>2, TickLapses DEF Contract!Next
  <2>3. CASE Look
    BY <2>1, <2>3 DEF Look
  <2>4. ASSUME NEW a \in Agents, ReleaseAll(a) PROVE Contract!Next
    BY <2>4, GivesUpSeen DEF ReleaseAll, Contract!Next
  <2>5. ASSUME NEW a \in Agents, NEW d \in Devices, Release(a, d) PROVE Contract!Next
    BY <2>5, GivesUpSeen DEF Release, Contract!Next
  <2>6. ASSUME NEW a \in Agents, NEW d \in Devices, NEW n \in Durations, Extend(a, d, n)
        PROVE  Contract!Next
    BY <2>6, ExtendRenews, GrantedFacts DEF Contract!Next
  <2>7. ASSUME NEW a \in Agents, NEW d \in Devices, NEW p \in Priorities, Deny(a, d, p)
        PROVE  UNCHANGED Contract!vars
    BY <2>1, <2>7 DEF Deny
  <2>8. ASSUME NEW a \in Agents, NEW d \in Devices, NEW p \in Priorities, NEW n \in Durations,
               Acquire(a, d, p, n)
        PROVE  Contract!Next
    BY <2>8, AcquireTakes, GrantedFacts DEF Contract!Next
  <2>9. CASE UNCHANGED vars
    BY <2>9 DEF vars, Contract!vars, Grants, Held, Expired
  <2> QED
    BY <2>2, <2>3, <2>4, <2>5, <2>6, <2>7, <2>8, <2>9 DEF Next, Operation
<1> QED
  BY <1>1, <1>2, CoordinatorTypeOK, PTL DEF Spec, KeepsContract, Contract!Spec
================================================================================
