------------------------- MODULE RelayChainProofs -------------------------
(* Theorems about MultiRelay.appendMessage, for every chain of relays, any *)
(* number of calls, and every threshold and cooldown of the breakers.      *)
EXTENDS RelayChain, TLAPS, WellFoundedInduction

(***************************************************************************)
(* Breakers.                                                               *)
(***************************************************************************)

\* A breaker that counts a failure or a success is a breaker, and one that is
\* open then has counted Threshold failures.
LEMMA RecordType ==
  ASSUME NEW h \in Health, NEW t \in Nat, h.openUntil > t => h.fails = Threshold
  PROVE  /\ RecordFailure(h, t) \in Health /\ RecordSuccess(h) \in Health
         /\ IsOpen(RecordFailure(h, t), t) => RecordFailure(h, t).fails = Threshold
         /\ ~IsOpen(RecordSuccess(h), t)
BY BreakerAssumption DEF Health, Healthy, RecordFailure, RecordSuccess, IsOpen

(***************************************************************************)
(* The order of the relays.                                                *)
(***************************************************************************)

\* Every nonempty set of naturals has a least element.
LEMMA LeastNatural ==
  ASSUME NEW S \in SUBSET Nat, S # {}
  PROVE  \E x \in S : \A y \in S : x <= y
<1>. DEFINE smaller == {p \in Nat \X Nat : p[1] < p[2]}
<1>1. IsWellFoundedOn(smaller, Nat)
  BY NatLessThanWellFounded DEF OpToRel
<1>2. PICK x \in S : \A y \in S : ~ (<<y, x>> \in smaller)
  BY <1>1, WFMin
<1>3. ASSUME NEW y \in S PROVE x <= y
  <2>1. x \in Nat /\ y \in Nat /\ <<y, x>> \notin smaller
    BY <1>2
  <2>. QED BY <2>1
<1>. QED BY <1>3

\* Of two relays one precedes the other, and only one.
LEMMA Total ==
  ASSUME NEW last, NEW r \in Relays, NEW s \in Relays
  PROVE  /\ r # s => Precedes(last, r, s) \/ Precedes(last, s, r)
         /\ ~(Precedes(last, r, s) /\ Precedes(last, s, r))
         /\ ~Precedes(last, r, r)
<1>1. DOMAIN Chain \subseteq Nat
  BY ChainAssumption
<1>2. PICK i \in DOMAIN Chain, j \in DOMAIN Chain : Chain[i] = r /\ Chain[j] = s
  BY DEF Relays
<1>3. /\ Earlier(r, s) <=> i < j
      /\ Earlier(s, r) <=> j < i
      /\ ~Earlier(r, r)
  BY <1>1, <1>2, ChainAssumption DEF Earlier
<1>. QED BY <1>1, <1>2, <1>3 DEF Precedes

\* A group of relays that is not empty has an earliest one.
LEMMA EarliestExists ==
  ASSUME NEW S \in SUBSET Relays, S # {}
  PROVE  \E r \in S : \A s \in S : ~Earlier(s, r)
<1>. DEFINE places == {i \in DOMAIN Chain : Chain[i] \in S}
<1>1. places \in SUBSET Nat /\ places # {}
  BY ChainAssumption DEF Relays
<1>2. PICK i \in places : \A j \in places : i <= j
  BY ONLY <1>1, LeastNatural
<1>3. ASSUME NEW s \in S, Earlier(s, Chain[i]) PROVE FALSE
  <2>1. PICK k \in DOMAIN Chain, j \in DOMAIN Chain : k < j /\ Chain[k] = s /\ Chain[j] = Chain[i]
    BY <1>3 DEF Earlier
  <2>2. j = i /\ k \in places
    BY <2>1, ChainAssumption
  <2>3. i <= k /\ k < i /\ i \in Nat /\ k \in Nat
    BY <1>1, <1>2, <2>1, <2>2
  <2>. QED BY <2>3
<1>. QED BY <1>2, <1>3

\* If a pass asks none of todo, none of them suits it.
LEMMA NoneSuits ==
  ASSUME NEW h, NEW pass, NEW todo \in SUBSET Relays, NEW last \in SUBSET Relays,
         Asks(h, pass, todo, last) = {}
  PROVE  \A r \in todo : ~Suits(h, pass, r)
<1>. DEFINE S == {r \in todo : Suits(h, pass, r)}
<1>. SUFFICES ASSUME S # {} PROVE FALSE
  OBVIOUS
<1>1. CASE S \ last # {}
  <2>1. PICK r \in S \ last : \A s \in S \ last : ~Earlier(s, r)
    BY <1>1, EarliestExists
  <2>2. \A s \in S : ~Precedes(last, s, r)
    BY <2>1 DEF Precedes
  <2>. QED BY <2>1, <2>2 DEF Asks
<1>2. CASE S \ last = {}
  <2>1. PICK r \in S : \A s \in S : ~Earlier(s, r)
    BY EarliestExists
  <2>2. \A s \in S : ~Precedes(last, s, r)
    BY <1>2, <2>1 DEF Precedes
  <2>. QED BY <2>1, <2>2 DEF Asks
<1>. QED BY <1>1, <1>2

-----------------------------------------------------------------------------
(***************************************************************************)
(* The invariant.                                                          *)
(***************************************************************************)

\* A breaker that is open has counted enough failures, and is known to have
\* opened.
Known == \A r \in Relays : IsOpen(health[r], now) => health[r].fails = Threshold /\ r \in opened

\* What a call has not asked it is still to look at, or it has opened.
Looked(c) ==
  /\ call[c].at = "awaiting" =>
       /\ call[c].relay \in Relays /\ call[c].relay \in tried[c]
       /\ Relays \ opened \subseteq tried[c] \cup (IF call[c].pass = 1 THEN call[c].todo ELSE {})
  /\ call[c].at = "failed" => tried[c] # {} /\ Relays \ opened \subseteq tried[c]

Inv == TypeOK /\ Known /\ \A c \in Calls : Looked(c)

\* Everything holds at first.
LEMMA InitInv == Init => Inv
<1>. SUFFICES ASSUME Init PROVE Inv
  OBVIOUS
<1>1. TypeOK
  BY BreakerAssumption DEF Init, TypeOK, Health, Healthy, Idle, States
<1>2. Known /\ \A c \in Calls : Looked(c)
  BY DEF Init, Known, Looked, Idle, IsOpen, Healthy
<1>. QED BY <1>1, <1>2 DEF Inv

\* A call that goes on keeps its part of the invariant: whom it does not look
\* at any more has an open breaker.
LEMMA ContinueKeeps ==
  ASSUME TypeOK, NEW c \in Calls, NEW h, NEW pass \in {1, 2},
         NEW todo \in SUBSET Relays, NEW last \in SUBSET Relays,
         Continue(c, h, pass, todo, last),
         OpenIn(h) \subseteq opened',
         Relays \ opened' \subseteq tried[c] \cup (IF pass = 1 THEN todo ELSE {}),
         tried[c] # {} \/ (pass = 1 /\ todo = Relays)
  PROVE  /\ Looked(c)'
         /\ call' \in [Calls -> [at: States, pass: {1, 2}, relay: Relays \cup {NoRelay},
                                 todo: SUBSET Relays, last: SUBSET Relays]]
         /\ tried' \in [Calls -> SUBSET Relays]
         /\ \A d \in Calls \ {c} : call'[d] = call[d] /\ tried'[d] = tried[d]
<1>. USE DEF States
<1>1. OpenIn(h) \in SUBSET Relays
  BY DEF OpenIn
<1>2. ASSUME NEW r \in Asks(h, pass, todo, last), Ask(c, pass, r, todo, last)
      PROVE  Relays \ opened' \subseteq
               tried'[c] \cup (IF pass = 1 THEN {s \in todo : Precedes(last, r, s)} ELSE {})
  <2>1. r \in Relays /\ r \in todo
    BY <1>2 DEF Asks
  <2>2. tried'[c] = tried[c] \cup {r}
    BY <1>2 DEF Ask, TypeOK
  <2>3. ASSUME pass = 1, NEW s \in todo, s \notin opened', s # r PROVE Precedes(last, r, s)
    <3>1. Suits(h, pass, s)
      BY <2>3 DEF Suits
    <3>2. ~Precedes(last, s, r)
      BY <1>2, <3>1, <2>3 DEF Asks
    <3>. QED BY <2>1, <2>3, <3>2, Total
  <2>. QED BY <2>2, <2>3
<1>3. ASSUME NEW r \in Asks(h, pass, todo, last), Ask(c, pass, r, todo, last)
      PROVE  /\ call'[c] = [at |-> "awaiting", pass |-> pass, relay |-> r,
                            todo |-> {s \in todo : Precedes(last, r, s)}, last |-> last]
             /\ tried'[c] = tried[c] \cup {r} /\ r \in Relays
             /\ tried' \in [Calls -> SUBSET Relays]
             /\ call' \in [Calls -> [at: States, pass: {1, 2}, relay: Relays \cup {NoRelay},
                                     todo: SUBSET Relays, last: SUBSET Relays]]
             /\ \A d \in Calls \ {c} : call'[d] = call[d] /\ tried'[d] = tried[d]
  <2>1. r \in Relays
    BY <1>3 DEF Asks
  <2>. QED BY <1>3, <2>1 DEF Ask, TypeOK
<1>4. CASE \E r \in Asks(h, pass, todo, last) : Ask(c, pass, r, todo, last)
  <2>1. PICK r \in Asks(h, pass, todo, last) : Ask(c, pass, r, todo, last)
    BY <1>4
  <2>2. /\ call'[c].at = "awaiting" /\ call'[c].relay = r /\ call'[c].pass = pass
        /\ call'[c].todo = {s \in todo : Precedes(last, r, s)}
        /\ tried'[c] = tried[c] \cup {r} /\ r \in Relays
    <3>1. /\ call'[c] = [at |-> "awaiting", pass |-> pass, relay |-> r,
                         todo |-> {s \in todo : Precedes(last, r, s)}, last |-> last]
          /\ tried'[c] = tried[c] \cup {r} /\ r \in Relays
      BY <1>3, <2>1, Zenon
    <3>. QED BY <3>1
  <2>3. Relays \ opened' \subseteq
          tried'[c] \cup (IF call'[c].pass = 1 THEN call'[c].todo ELSE {})
    <3>1. Relays \ opened' \subseteq
            tried'[c] \cup (IF pass = 1 THEN {s \in todo : Precedes(last, r, s)} ELSE {})
      BY <1>2, <2>1
    <3>. QED BY <2>2, <3>1
  <2>4. Looked(c)'
    BY <2>2, <2>3 DEF Looked
  <2>. QED BY <1>3, <2>1, <2>4
<1>5. ASSUME End(c, "failed"), tried[c] # {}, Relays \ opened' \subseteq tried[c]
      PROVE  /\ Looked(c)'
             /\ call' \in [Calls -> [at: States, pass: {1, 2}, relay: Relays \cup {NoRelay},
                                     todo: SUBSET Relays, last: SUBSET Relays]]
             /\ tried' \in [Calls -> SUBSET Relays]
             /\ \A d \in Calls \ {c} : call'[d] = call[d] /\ tried'[d] = tried[d]
  BY <1>5 DEF End, Idle, Looked, TypeOK
<1>6. CASE Asks(h, pass, todo, last) = {} /\ pass = 2 /\ End(c, "failed")
  BY <1>5, <1>6
<1>7. CASE Asks(h, pass, todo, last) = {} /\ pass = 1 /\ SecondPass(c, h)
  <2>1. \A r \in todo : r \in OpenIn(h)
    BY <1>7, NoneSuits DEF Suits
  <2>2. Relays \ opened' \subseteq tried[c]
    BY <1>7, <2>1
  <2>3. CASE \E r \in Asks(h, 2, Relays, OpenIn(h)) : Ask(c, 2, r, Relays, OpenIn(h))
    <3>1. PICK r \in Asks(h, 2, Relays, OpenIn(h)) : Ask(c, 2, r, Relays, OpenIn(h))
      BY <2>3
    <3>2. r \in Relays
      BY DEF Asks
    <3>3. /\ call'[c] = [at |-> "awaiting", pass |-> 2, relay |-> r,
                         todo |-> {s \in Relays : Precedes(OpenIn(h), r, s)}, last |-> OpenIn(h)]
          /\ tried'[c] = tried[c] \cup {r}
          /\ tried' \in [Calls -> SUBSET Relays]
          /\ call' \in [Calls -> [at: States, pass: {1, 2}, relay: Relays \cup {NoRelay},
                                  todo: SUBSET Relays, last: SUBSET Relays]]
          /\ \A d \in Calls \ {c} : call'[d] = call[d] /\ tried'[d] = tried[d]
      BY <1>1, <3>1, <3>2 DEF Ask, TypeOK
    <3>. QED BY <2>2, <3>2, <3>3 DEF Looked
  <2>4. CASE Asks(h, 2, Relays, OpenIn(h)) = {} /\ End(c, "failed")
    <3>1. \A r \in Relays : r \notin OpenIn(h)
      BY <1>1, <2>4, NoneSuits DEF Suits
    <3>2. Relays # {}
      BY ChainAssumption DEF Relays
    <3>3. tried[c] # {}
      BY <2>1, <3>1, <3>2
    <3>. QED BY <1>5, <2>2, <2>4, <3>3
  <2>. QED BY <1>7, <2>3, <2>4 DEF SecondPass
<1>. QED BY <1>4, <1>6, <1>7 DEF Continue

\* What an attempt or another use records of relay r keeps the breakers'.
LEMMA HealthKeeps ==
  ASSUME Inv, NEW r \in Relays, health' \in {Failed(r), Worked(r)}, NoteOpened, now' = now
  PROVE  /\ health' \in [Relays -> Health] /\ opened' \subseteq Relays
         /\ opened \subseteq opened' /\ OpenIn(health') \subseteq opened'
         /\ Known'
<1>1. /\ health[r] \in Health /\ now \in Nat
      /\ health[r].openUntil > now => health[r].fails = Threshold
  BY DEF Inv, TypeOK, Known, IsOpen
<1>2. /\ RecordFailure(health[r], now) \in Health /\ RecordSuccess(health[r]) \in Health
      /\ IsOpen(RecordFailure(health[r], now), now) => RecordFailure(health[r], now).fails = Threshold
      /\ ~IsOpen(RecordSuccess(health[r]), now)
  BY <1>1, RecordType
<1>3. health' \in [Relays -> Health]
  BY <1>2 DEF Inv, TypeOK, Failed, Worked
<1>4. opened' \subseteq Relays /\ opened \subseteq opened' /\ OpenIn(health') \subseteq opened'
  BY DEF NoteOpened, OpenIn, Inv, TypeOK
<1>5. ASSUME NEW q \in Relays, IsOpen(health'[q], now) PROVE health'[q].fails = Threshold
  <2>1. CASE q = r
    BY <1>2, <1>5, <2>1 DEF Failed, Worked, Inv, TypeOK
  <2>2. CASE q # r
    BY <1>5, <2>2 DEF Failed, Worked, Inv, TypeOK, Known
  <2>. QED BY <2>1, <2>2
<1>6. Known'
  BY <1>4, <1>5 DEF Known, OpenIn
<1>. QED BY <1>3, <1>4, <1>6

\* Calls that a step leaves alone keep their part, as ever more relays open.
LEMMA OthersKeep ==
  ASSUME NEW c \in Calls, Looked(c), call'[c] = call[c], tried'[c] = tried[c], opened \subseteq opened'
  PROVE  Looked(c)'
BY DEF Looked

\* Every step keeps the invariant.
LEMMA NextInv ==
  ASSUME Inv, [Next]_vars
  PROVE  Inv'
<1>1. ASSUME NEW c \in Calls, AppendMessage(c) PROVE Inv'
  <2>. USE <1>1 DEF AppendMessage
  <2>1. OpenIn(health) \subseteq opened /\ opened' = opened /\ OpenIn(health) \in SUBSET Relays
    BY DEF Inv, Known, OpenIn
  <2>2. /\ Looked(c)'
        /\ call' \in [Calls -> [at: States, pass: {1, 2}, relay: Relays \cup {NoRelay},
                                todo: SUBSET Relays, last: SUBSET Relays]]
        /\ tried' \in [Calls -> SUBSET Relays]
        /\ \A d \in Calls \ {c} : call'[d] = call[d] /\ tried'[d] = tried[d]
    BY <2>1, ContinueKeeps DEF Inv
  <2>3. TypeOK' /\ Known'
    BY <2>2 DEF Inv, TypeOK, Known
  <2>4. \A d \in Calls : Looked(d)'
    BY <2>1, <2>2, OthersKeep DEF Inv
  <2>. QED BY <2>3, <2>4 DEF Inv
<1>2. ASSUME NEW c \in Calls, AttemptWorks(c) PROVE Inv'
  <2>. USE <1>2 DEF AttemptWorks
  <2>1. call[c].relay \in Relays
    BY DEF Inv, Looked
  <2>2. /\ health' \in [Relays -> Health] /\ opened' \subseteq Relays
        /\ opened \subseteq opened' /\ Known'
    BY <2>1, HealthKeeps
  <2>3. TypeOK' /\ Looked(c)'
    BY <2>2 DEF Inv, TypeOK, End, Idle, Looked, States
  <2>4. \A d \in Calls \ {c} : call'[d] = call[d] /\ tried'[d] = tried[d]
    BY DEF End, Inv, TypeOK
  <2>5. \A d \in Calls : Looked(d)'
    BY <2>2, <2>3, <2>4, OthersKeep DEF Inv
  <2>. QED BY <2>2, <2>3, <2>5 DEF Inv
<1>3. ASSUME NEW c \in Calls, AttemptFails(c) PROVE Inv'
  <2>. USE <1>3 DEF AttemptFails
  <2>1. /\ call[c].relay \in Relays /\ call[c].pass \in {1, 2}
        /\ call[c].todo \in SUBSET Relays /\ call[c].last \in SUBSET Relays
    BY DEF Inv, Looked, TypeOK
  <2>2. /\ health' \in [Relays -> Health] /\ opened' \subseteq Relays
        /\ opened \subseteq opened' /\ OpenIn(health') \subseteq opened' /\ Known'
    BY <2>1, HealthKeeps
  <2>3. /\ Relays \ opened' \subseteq
             tried[c] \cup (IF call[c].pass = 1 THEN call[c].todo ELSE {})
        /\ tried[c] # {}
    BY <2>2 DEF Inv, Looked
  <2>4. /\ Looked(c)'
        /\ call' \in [Calls -> [at: States, pass: {1, 2}, relay: Relays \cup {NoRelay},
                                todo: SUBSET Relays, last: SUBSET Relays]]
        /\ tried' \in [Calls -> SUBSET Relays]
        /\ \A d \in Calls \ {c} : call'[d] = call[d] /\ tried'[d] = tried[d]
    BY <2>1, <2>2, <2>3, ContinueKeeps DEF Inv
  <2>5. TypeOK'
    BY <2>2, <2>4 DEF Inv, TypeOK
  <2>6. \A d \in Calls : Looked(d)'
    BY <2>2, <2>4, OthersKeep DEF Inv
  <2>. QED BY <2>2, <2>5, <2>6 DEF Inv
<1>4. ASSUME NEW r \in Relays, OtherUse(r) PROVE Inv'
  <2>. USE <1>4 DEF OtherUse
  <2>1. /\ health' \in [Relays -> Health] /\ opened' \subseteq Relays
        /\ opened \subseteq opened' /\ Known'
    BY HealthKeeps
  <2>2. TypeOK'
    BY <2>1 DEF Inv, TypeOK
  <2>3. \A d \in Calls : Looked(d)'
    BY <2>1, OthersKeep DEF Inv
  <2>. QED BY <2>1, <2>2, <2>3 DEF Inv
<1>5. CASE Tick
  <2>. USE <1>5 DEF Tick
  <2>1. TypeOK' /\ Known'
    BY DEF Inv, TypeOK, Known, IsOpen, Health
  <2>2. \A d \in Calls : Looked(d)'
    BY OthersKeep DEF Inv
  <2>. QED BY <2>1, <2>2 DEF Inv
<1>6. CASE UNCHANGED vars
  BY <1>6 DEF vars, Inv, TypeOK, Known, Looked
<1>. QED BY <1>1, <1>2, <1>3, <1>4, <1>5, <1>6 DEF Next

-----------------------------------------------------------------------------
(***************************************************************************)
(* The theorems.                                                           *)
(***************************************************************************)

\* The invariant holds at every moment.
THEOREM Invariance == Spec => []Inv
BY InitInv, NextInv, PTL DEF Spec

\* Type correctness (the state of MultiRelay and of its calls).
THEOREM Typing == Spec => []TypeOK
<1>1. Inv => TypeOK
  BY DEF Inv
<1>. QED BY <1>1, Invariance, PTL

\* _recordFailure opens no breaker before its threshold.
THEOREM OpensLate == Spec => []OpenAfterEnoughFailures
<1>1. Inv => OpenAfterEnoughFailures
  BY DEF Inv, Known, OpenAfterEnoughFailures
<1>. QED BY <1>1, Invariance, PTL

\* A call that fails has asked every relay whose breaker never opened, and at
\* least one.
THEOREM Reluctant == Spec => []GivesUpReluctantly
<1>1. Inv => GivesUpReluctantly
  BY DEF Inv, Looked, GivesUpReluctantly
<1>. QED BY <1>1, Invariance, PTL
=============================================================================
