---------------------------- MODULE RouterProofs ----------------------------
(* Theorems about ConnectionRouter.deliver, for any number of deliveries to*)
(* any list of agents, over connections that come, go, fail and time out in*)
(* any order.                                                              *)
EXTENDS Router, TLAPS

\* Failing and succeeding keep a breaker a breaker.
LEMMA Breakers ==
  ASSUME NEW h \in Health, NEW t \in Nat
  PROVE  RecordFailure(h, t) \in Health /\ RecordSuccess(h) \in Health
BY BreakerAssumption DEF Health, Healthy, RecordFailure, RecordSuccess

(***************************************************************************)
(* The invariant.                                                          *)
(***************************************************************************)

\* The list u ends AgentNames, and of the copies c the agents before it have
\* one each, the others none.
Progress(u, c) ==
  /\ u \in Seq(Agents) /\ u # <<>> /\ Len(u) <= Len(AgentNames)
  /\ \A i \in 1 .. Len(u) : u[i] = AgentNames[Len(AgentNames) - Len(u) + i]
  /\ \A i \in 1 .. Len(AgentNames) :
       c[AgentNames[i]] = IF i <= Len(AgentNames) - Len(u) THEN 1 ELSE 0

\* Delivery d at r, with the copies c, in the log or not, and having asked k.
Good(d, r, c, log, k) ==
  /\ \A a \in Agents : c[a] <= 1
  /\ r.at = "idle" => \A a \in Agents : c[a] = 0
  /\ r.at \in {"direct", "orphaned"} => Progress(r.unsent, c)
  /\ r.at = "relay" => "relay" \in k
  /\ r.at = "delivered" => d \in log \/ \A a \in Agents : c[a] > 0

Inv ==
  /\ TypeOK
  /\ \A d \in Deliveries : Good(d, delivery[d], copies[d], logged, asked[d])
-----------------------------------------------------------------------------
\* Everything holds at first.
LEMMA InitInv == Init => Inv
<1>. SUFFICES ASSUME Init PROVE Inv
  OBVIOUS
<1>1. TypeOK
  <2>1. Healthy \in Health /\ <<>> \in Seq(Agents)
    BY BreakerAssumption DEF Healthy, Health
  <2>2. At("idle", <<>>) \in [at: Places, unsent: Seq(Agents)]
    BY <2>1 DEF At, Places
  <2>. QED BY <2>1, <2>2 DEF Init, TypeOK
<1>2. ASSUME NEW d \in Deliveries PROVE Good(d, delivery[d], copies[d], logged, asked[d])
  <2>1. delivery[d].at = "idle" /\ \A a \in Agents : copies[d][a] = 0
    BY DEF Init, At
  <2>. QED BY <2>1 DEF Good
<1>. QED BY <1>1, <1>2 DEF Inv

\* A delivery that has sent nothing starts with the whole list.
LEMMA Starting ==
  ASSUME NEW c, \A a \in Agents : c[a] = 0
  PROVE  Progress(AgentNames, c)
<1>1. AgentNames \in Seq(Agents) /\ AgentNames # <<>> /\ Len(AgentNames) \in Nat
  BY RouterAssumption
<1>2. \A i \in 1 .. Len(AgentNames) : AgentNames[i] \in Agents
  BY <1>1
<1>. QED BY <1>1, <1>2 DEF Progress

\* One more copy goes to the first agent that has none.
LEMMA Sent ==
  ASSUME NEW u, NEW c \in [Agents -> Nat], NEW c1, Progress(u, c),
         c1 = [c EXCEPT ![Head(u)] = @ + 1],
         \A a \in Agents : c[a] <= 1
  PROVE  /\ c1 \in [Agents -> Nat]
         /\ \A a \in Agents : c1[a] <= 1
         /\ Tail(u) \in Seq(Agents)
         /\ Tail(u) # <<>> => Progress(Tail(u), c1)
         /\ Tail(u) = <<>> => \A a \in Agents : c1[a] > 0
<1>. DEFINE n == Len(AgentNames)
            k == Len(AgentNames) - Len(u)
<1>1. /\ AgentNames \in Seq(Agents) /\ n \in Nat /\ DOMAIN AgentNames = 1 .. n
      /\ \A i, j \in 1 .. n : AgentNames[i] = AgentNames[j] => i = j
      /\ \A i \in 1 .. n : AgentNames[i] \in Agents
      /\ \A a \in Agents : \E i \in 1 .. n : a = AgentNames[i]
  BY RouterAssumption DEF Agents
<1>2. /\ u \in Seq(Agents) /\ u # <<>> /\ Len(u) \in Nat /\ Len(u) > 0 /\ Len(u) <= n
      /\ Head(u) = u[1] /\ Tail(u) \in Seq(Agents) /\ Len(Tail(u)) = Len(u) - 1
      /\ \A i \in 1 .. Len(Tail(u)) : Tail(u)[i] = u[i + 1]
  BY DEF Progress
<1>3. k \in Nat /\ k + 1 \in 1 .. n /\ Head(u) = AgentNames[k + 1]
  BY <1>1, <1>2 DEF Progress
<1>4. c[AgentNames[k + 1]] = 0
  BY <1>3 DEF Progress
<1>5. /\ c1 \in [Agents -> Nat] /\ c1[AgentNames[k + 1]] = 1
      /\ \A a \in Agents : a # AgentNames[k + 1] => c1[a] = c[a]
  BY <1>1, <1>3, <1>4
<1>6. \A i \in 1 .. n : c1[AgentNames[i]] = IF i <= k + 1 THEN 1 ELSE 0
  <2>. SUFFICES ASSUME NEW i \in 1 .. n PROVE c1[AgentNames[i]] = IF i <= k + 1 THEN 1 ELSE 0
    OBVIOUS
  <2>1. c[AgentNames[i]] = IF i <= k THEN 1 ELSE 0
    BY DEF Progress
  <2>2. i # k + 1 => c1[AgentNames[i]] = c[AgentNames[i]]
    BY <1>1, <1>3, <1>5
  <2>3. i \in Int /\ k \in Int
    BY <1>3
  <2>4. CASE i = k + 1
    <3>1. i <= k + 1
      BY <2>3, <2>4
    <3>. QED BY <3>1, <2>4, <1>5
  <2>5. CASE i # k + 1
    <3>1. i <= k <=> i <= k + 1
      BY <2>3, <2>5
    <3>2. c1[AgentNames[i]] = c[AgentNames[i]]
      BY <2>2, <2>5
    <3>. QED BY <3>1, <3>2, <2>1
  <2>. QED BY <2>4, <2>5
<1>7. Tail(u) # <<>> => Progress(Tail(u), c1)
  <2>. SUFFICES ASSUME Tail(u) # <<>> PROVE Progress(Tail(u), c1)
    OBVIOUS
  <2>1. Len(Tail(u)) <= n /\ n - Len(Tail(u)) = k + 1
    BY <1>1, <1>2
  <2>2. ASSUME NEW i \in 1 .. Len(Tail(u)) PROVE Tail(u)[i] = AgentNames[n - Len(Tail(u)) + i]
    <3>1. i + 1 \in 1 .. Len(u) /\ k + (i + 1) = n - Len(Tail(u)) + i
      BY <1>1, <1>2
    <3>2. u[i + 1] = AgentNames[k + (i + 1)]
      BY <3>1 DEF Progress
    <3>. QED BY <3>1, <3>2, <1>2
  <2>. QED BY <1>2, <1>6, <2>1, <2>2 DEF Progress
<1>8. Tail(u) = <<>> => \A a \in Agents : c1[a] > 0
  <2>. SUFFICES ASSUME Tail(u) = <<>>, NEW a \in Agents PROVE c1[a] > 0
    OBVIOUS
  <2>1. Len(u) = 1
    BY <1>2
  <2>2. PICK i \in 1 .. n : a = AgentNames[i]
    BY <1>1
  <2>. QED BY <2>1, <2>2, <1>1, <1>6
<1>9. \A a \in Agents : c1[a] <= 1
  BY <1>5
<1>. QED BY <1>2, <1>5, <1>7, <1>8, <1>9

\* Where TryRelay leaves a delivery.
LEMMA Falling ==
  ASSUME TypeOK, NEW d \in Deliveries, NEW h, TryRelay(d, h)
  PROVE  /\ delivery' \in [Deliveries -> [at: Places, unsent: Seq(Agents)]]
         /\ asked' \in [Deliveries -> SUBSET Connections]
         /\ delivery'[d].at \in {"relay", "thrown"}
         /\ delivery'[d].at = "relay" => "relay" \in asked'[d]
         /\ delivery'[d].at = "thrown" => IsOpen(h["relay"], now)
         /\ \A e \in Deliveries : e # d => delivery'[e] = delivery[e] /\ asked'[e] = asked[e]
<1>1. /\ At("thrown", <<>>) \in [at: Places, unsent: Seq(Agents)]
      /\ At("relay", <<>>) \in [at: Places, unsent: Seq(Agents)]
      /\ At("thrown", <<>>).at = "thrown" /\ At("relay", <<>>).at = "relay"
  BY DEF At, Places
<1>2. "relay" \in Connections
  BY DEF Connections
<1>t. /\ delivery \in [Deliveries -> [at: Places, unsent: Seq(Agents)]]
      /\ asked \in [Deliveries -> SUBSET Connections]
  BY DEF TypeOK
<1>3. CASE IsOpen(h["relay"], now)
  <2>1. delivery' = [delivery EXCEPT ![d] = At("thrown", <<>>)] /\ asked' = asked
    BY <1>3 DEF TryRelay
  <2>2. delivery'[d] = At("thrown", <<>>) /\ \A e \in Deliveries : e # d => delivery'[e] = delivery[e]
    BY <1>t, <2>1
  <2>3. delivery' \in [Deliveries -> [at: Places, unsent: Seq(Agents)]]
    BY <1>1, <1>t, <2>1
  <2>. QED BY <1>1, <1>3, <1>t, <2>1, <2>2, <2>3
<1>4. CASE ~IsOpen(h["relay"], now)
  <2>1. /\ delivery' = [delivery EXCEPT ![d] = At("relay", <<>>)]
        /\ asked' = [asked EXCEPT ![d] = asked[d] \cup {"relay"}]
    BY <1>4 DEF TryRelay
  <2>2. /\ delivery'[d] = At("relay", <<>>) /\ "relay" \in asked'[d]
        /\ \A e \in Deliveries : e # d => delivery'[e] = delivery[e] /\ asked'[e] = asked[e]
    BY <1>t, <2>1
  <2>3. delivery' \in [Deliveries -> [at: Places, unsent: Seq(Agents)]]
    BY <1>1, <1>t, <2>1
  <2>4. asked' \in [Deliveries -> SUBSET Connections]
    BY <1>2, <1>t, <2>1
  <2>. QED BY <1>1, <2>2, <2>3, <2>4
<1>. QED BY <1>3, <1>4

\* A step of one delivery leaves the others alone.
LEMMA OthersStay ==
  ASSUME Inv, NEW d \in Deliveries, TypeOK',
         logged \subseteq logged',
         \A e \in Deliveries : e # d => /\ delivery'[e] = delivery[e] /\ copies'[e] = copies[e]
                                        /\ asked'[e] = asked[e],
         Good(d, delivery'[d], copies'[d], logged', asked'[d])
  PROVE  Inv'
<1>1. ASSUME NEW e \in Deliveries PROVE Good(e, delivery'[e], copies'[e], logged', asked'[e])
  <2>1. CASE e = d
    BY <2>1
  <2>2. CASE e # d
    BY <2>2 DEF Inv, Good
  <2>. QED BY <2>1, <2>2
<1>. QED BY <1>1 DEF Inv

\* What the breakers become.
LEMMA HealthStays ==
  ASSUME TypeOK, NEW k \in Connections,
         health' = Failed(k) \/ health' = Worked(k) \/ health' = health
  PROVE  health' \in [Connections -> Health]
<1>1. health[k] \in Health /\ now \in Nat
  BY DEF TypeOK
<1>2. RecordFailure(health[k], now) \in Health /\ RecordSuccess(health[k]) \in Health
  BY <1>1, Breakers
<1>. QED BY <1>2 DEF TypeOK, Failed, Worked
-----------------------------------------------------------------------------
\* What a step owes a delivery that throws.
Throws ==
  \A d \in Deliveries : delivery[d].at # "thrown" /\ delivery'[d].at = "thrown" =>
    "relay" \in asked[d] \/ health'["relay"].openUntil > now

\* A delivery starts over the direct connection, over the relay, or throws.
LEMMA DeliverKeeps ==
  ASSUME Inv, NEW d \in Deliveries, Deliver(d)
  PROVE  Inv' /\ Throws
<1>0. /\ TypeOK /\ Good(d, delivery[d], copies[d], logged, asked[d])
      /\ delivery[d].at = "idle"
      /\ UNCHANGED <<health, now, attached, connected, copies, logged>>
  BY DEF Inv, Deliver, network
<1>1. CASE DirectUsable
  <2>1. /\ delivery' = [delivery EXCEPT ![d] = At("direct", AgentNames)]
        /\ asked' = [asked EXCEPT ![d] = @ \cup {"direct"}]
    BY <1>1 DEF Deliver
  <2>2. /\ At("direct", AgentNames) \in [at: Places, unsent: Seq(Agents)]
        /\ At("direct", AgentNames).at = "direct" /\ At("direct", AgentNames).unsent = AgentNames
        /\ "direct" \in Connections
    BY RouterAssumption DEF At, Places, Connections
  <2>3. /\ delivery'[d] = At("direct", AgentNames)
        /\ \A e \in Deliveries : e # d => delivery'[e] = delivery[e] /\ asked'[e] = asked[e]
    BY <1>0, <2>1 DEF TypeOK
  <2>4. TypeOK'
    BY <1>0, <2>1, <2>2 DEF TypeOK
  <2>5. Good(d, delivery'[d], copies'[d], logged', asked'[d])
    <3>1. Progress(AgentNames, copies[d])
      BY <1>0, Starting DEF Good
    <3>. QED BY <1>0, <2>2, <2>3, <3>1 DEF Good
  <2>6. Inv'
    BY <1>0, <2>3, <2>4, <2>5, OthersStay
  <2>. QED BY <2>2, <2>3, <2>6 DEF Throws
<1>2. CASE ~DirectUsable
  <2>1. TryRelay(d, health)
    BY <1>2 DEF Deliver
  <2>2. /\ delivery' \in [Deliveries -> [at: Places, unsent: Seq(Agents)]]
        /\ asked' \in [Deliveries -> SUBSET Connections]
        /\ delivery'[d].at \in {"relay", "thrown"}
        /\ delivery'[d].at = "relay" => "relay" \in asked'[d]
        /\ delivery'[d].at = "thrown" => IsOpen(health["relay"], now)
        /\ \A e \in Deliveries : e # d => delivery'[e] = delivery[e] /\ asked'[e] = asked[e]
    BY <2>1, <1>0, Falling
  <2>3. TypeOK'
    BY <1>0, <2>2 DEF TypeOK
  <2>4. Good(d, delivery'[d], copies'[d], logged', asked'[d])
    BY <1>0, <2>2 DEF Good
  <2>5. Inv'
    BY <1>0, <2>2, <2>3, <2>4, OthersStay
  <2>. QED BY <1>0, <2>2, <2>5 DEF Throws, IsOpen
<1>. QED BY <1>1, <1>2

\* What one more copy, or none, makes of the copies of a delivery.
LEMMA Copied ==
  ASSUME Inv, NEW d \in Deliveries, Sending(d), OneMoreCopy(d) \/ UNCHANGED copies
  PROVE  /\ copies' \in [Deliveries -> [Agents -> Nat]]
         /\ \A e \in Deliveries : e # d => copies'[e] = copies[e]
         /\ \A a \in Agents : copies'[d][a] <= 1
         /\ OneMoreCopy(d) =>
              /\ Tail(delivery[d].unsent) \in Seq(Agents)
              /\ Tail(delivery[d].unsent) # <<>> => Progress(Tail(delivery[d].unsent), copies'[d])
              /\ Tail(delivery[d].unsent) = <<>> => \A a \in Agents : copies'[d][a] > 0
<1>. DEFINE u == delivery[d].unsent
<1>1. /\ Progress(u, copies[d]) /\ \A a \in Agents : copies[d][a] <= 1
      /\ copies \in [Deliveries -> [Agents -> Nat]] /\ copies[d] \in [Agents -> Nat]
  BY DEF Inv, Good, Sending, TypeOK
<1>2. CASE OneMoreCopy(d)
  <2>1. copies' = [copies EXCEPT ![d] = [copies[d] EXCEPT ![Head(u)] = @ + 1]]
    BY <1>1, <1>2 DEF OneMoreCopy
  <2>2. /\ copies'[d] = [copies[d] EXCEPT ![Head(u)] = @ + 1]
        /\ \A e \in Deliveries : e # d => copies'[e] = copies[e]
    BY <1>1, <2>1
  <2>. HIDE DEF u
  <2>3. /\ copies'[d] \in [Agents -> Nat] /\ \A a \in Agents : copies'[d][a] <= 1
        /\ Tail(u) \in Seq(Agents)
        /\ Tail(u) # <<>> => Progress(Tail(u), copies'[d])
        /\ Tail(u) = <<>> => \A a \in Agents : copies'[d][a] > 0
    BY <1>1, <2>2, Sent
  <2>4. copies' \in [Deliveries -> [Agents -> Nat]]
    BY <1>1, <2>1, <2>2, <2>3
  <2>. QED BY <2>2, <2>3, <2>4 DEF u
<1>3. CASE ~OneMoreCopy(d)
  BY <1>1, <1>3
<1>. QED BY <1>2, <1>3

\* The broker has acknowledged one agent's copy.
LEMMA AckedKeeps ==
  ASSUME Inv, NEW d \in Deliveries, SendAcked(d)
  PROVE  Inv' /\ Throws
<1>. DEFINE rest == Tail(delivery[d].unsent)
<1>0. /\ TypeOK /\ Sending(d) /\ OneMoreCopy(d)
      /\ UNCHANGED <<now, attached, connected, logged>>
      /\ \/ /\ rest = <<>>
            /\ delivery' = [delivery EXCEPT ![d] = At("delivered", <<>>)]
            /\ health' = Worked("direct")
            /\ UNCHANGED asked
         \/ /\ rest # <<>>
            /\ delivery' = [delivery EXCEPT ![d].unsent = rest]
            /\ UNCHANGED <<health, asked>>
         \/ /\ rest # <<>>
            /\ health' = Failed("direct")
            /\ TryRelay(d, health')
  BY DEF Inv, SendAcked, network
<1>1. /\ copies' \in [Deliveries -> [Agents -> Nat]]
      /\ \A e \in Deliveries : e # d => copies'[e] = copies[e]
      /\ \A a \in Agents : copies'[d][a] <= 1
      /\ rest \in Seq(Agents)
      /\ rest # <<>> => Progress(rest, copies'[d])
      /\ rest = <<>> => \A a \in Agents : copies'[d][a] > 0
  BY <1>0, Copied
<1>2. health' \in [Connections -> Health]
  BY <1>0, HealthStays DEF Connections
<1>3. delivery[d].at \in {"direct", "orphaned"} /\ delivery[d] \in [at: Places, unsent: Seq(Agents)]
  BY <1>0 DEF Sending, TypeOK
<1>. HIDE DEF rest
<1>4. CASE /\ rest = <<>>
           /\ delivery' = [delivery EXCEPT ![d] = At("delivered", <<>>)]
           /\ UNCHANGED asked
  <2>1. /\ At("delivered", <<>>) \in [at: Places, unsent: Seq(Agents)]
        /\ At("delivered", <<>>).at = "delivered"
    BY DEF At, Places
  <2>2. /\ delivery'[d].at = "delivered"
        /\ \A e \in Deliveries : e # d => delivery'[e] = delivery[e] /\ asked'[e] = asked[e]
    BY <1>0, <1>4, <2>1 DEF TypeOK
  <2>3. TypeOK'
    BY <1>0, <1>1, <1>2, <1>4, <2>1 DEF TypeOK
  <2>4. Good(d, delivery'[d], copies'[d], logged', asked'[d])
    BY <1>1, <1>4, <2>2 DEF Good
  <2>. QED BY <1>0, <1>1, <2>2, <2>3, <2>4, OthersStay DEF Throws
<1>5. CASE /\ rest # <<>>
           /\ delivery' = [delivery EXCEPT ![d].unsent = rest]
           /\ UNCHANGED <<health, asked>>
  <2>1. /\ delivery'[d].at = delivery[d].at /\ delivery'[d].unsent = rest
        /\ \A e \in Deliveries : e # d => delivery'[e] = delivery[e] /\ asked'[e] = asked[e]
    BY <1>0, <1>3, <1>5 DEF TypeOK
  <2>2. TypeOK'
    <3>1. delivery' \in [Deliveries -> [at: Places, unsent: Seq(Agents)]]
      BY <1>0, <1>1, <1>3, <1>5 DEF TypeOK
    <3>. QED BY <1>0, <1>1, <1>2, <1>5, <3>1 DEF TypeOK
  <2>3. Good(d, delivery'[d], copies'[d], logged', asked'[d])
    BY <1>1, <1>3, <1>5, <2>1 DEF Good
  <2>. QED BY <1>0, <1>1, <1>3, <2>1, <2>2, <2>3, OthersStay DEF Throws
<1>6. CASE TryRelay(d, health')
  <2>1. /\ delivery' \in [Deliveries -> [at: Places, unsent: Seq(Agents)]]
        /\ asked' \in [Deliveries -> SUBSET Connections]
        /\ delivery'[d].at \in {"relay", "thrown"}
        /\ delivery'[d].at = "relay" => "relay" \in asked'[d]
        /\ delivery'[d].at = "thrown" => IsOpen(health'["relay"], now)
        /\ \A e \in Deliveries : e # d => delivery'[e] = delivery[e] /\ asked'[e] = asked[e]
    BY <1>0, <1>6, Falling
  <2>2. TypeOK'
    BY <1>0, <1>1, <1>2, <2>1 DEF TypeOK
  <2>3. Good(d, delivery'[d], copies'[d], logged', asked'[d])
    BY <1>1, <2>1 DEF Good
  <2>. QED BY <1>0, <1>1, <2>1, <2>2, <2>3, OthersStay DEF Throws, IsOpen
<1>. QED BY <1>0, <1>4, <1>5, <1>6 DEF rest

\* No acknowledgement in time.
LEMMA TimeoutKeeps ==
  ASSUME Inv, NEW d \in Deliveries, SendTimesOut(d)
  PROVE  Inv' /\ Throws
<1>0. /\ TypeOK /\ Sending(d) /\ (OneMoreCopy(d) \/ UNCHANGED copies)
      /\ UNCHANGED <<now, attached, connected, logged>>
      /\ health' = Failed("direct") /\ TryRelay(d, health')
  BY DEF Inv, SendTimesOut, network
<1>1. /\ copies' \in [Deliveries -> [Agents -> Nat]]
      /\ \A e \in Deliveries : e # d => copies'[e] = copies[e]
      /\ \A a \in Agents : copies'[d][a] <= 1
  BY <1>0, Copied
<1>2. health' \in [Connections -> Health]
  BY <1>0, HealthStays DEF Connections
<1>3. /\ delivery' \in [Deliveries -> [at: Places, unsent: Seq(Agents)]]
      /\ asked' \in [Deliveries -> SUBSET Connections]
      /\ delivery'[d].at \in {"relay", "thrown"}
      /\ delivery'[d].at = "relay" => "relay" \in asked'[d]
      /\ delivery'[d].at = "thrown" => IsOpen(health'["relay"], now)
      /\ \A e \in Deliveries : e # d => delivery'[e] = delivery[e] /\ asked'[e] = asked[e]
  BY <1>0, Falling
<1>4. TypeOK'
  BY <1>0, <1>1, <1>2, <1>3 DEF TypeOK
<1>5. Good(d, delivery'[d], copies'[d], logged', asked'[d])
  BY <1>1, <1>3 DEF Good
<1>. QED BY <1>0, <1>1, <1>3, <1>4, <1>5, OthersStay DEF Throws, IsOpen

\* The relay has the message, or has not.
LEMMA RelayKeeps ==
  ASSUME Inv, NEW d \in Deliveries, RelayAppends(d) \/ RelayFails(d)
  PROVE  Inv' /\ Throws
<1>. DEFINE place == IF RelayAppends(d) THEN "delivered" ELSE "thrown"
<1>0. /\ TypeOK /\ delivery[d].at = "relay" /\ Good(d, delivery[d], copies[d], logged, asked[d])
      /\ UNCHANGED <<now, attached, connected, copies, asked>>
      /\ health' \in {Worked("relay"), Failed("relay")}
      /\ delivery' = [delivery EXCEPT ![d] = At(place, <<>>)]
      /\ logged \subseteq logged' /\ logged' \subseteq Deliveries
      /\ place = "delivered" => d \in logged'
  BY DEF Inv, TypeOK, RelayAppends, RelayFails, network
<1>1. health' \in [Connections -> Health]
  BY <1>0, HealthStays DEF Connections
<1>2. /\ At(place, <<>>) \in [at: Places, unsent: Seq(Agents)] /\ At(place, <<>>).at = place
      /\ place \in {"delivered", "thrown"}
  BY DEF At, Places
<1>. HIDE DEF place
<1>3. /\ delivery'[d].at = place
      /\ \A e \in Deliveries : e # d => delivery'[e] = delivery[e] /\ asked'[e] = asked[e]
  BY <1>0, <1>2 DEF TypeOK
<1>4. TypeOK'
  BY <1>0, <1>1, <1>2 DEF TypeOK
<1>5. Good(d, delivery'[d], copies'[d], logged', asked'[d])
  BY <1>0, <1>2, <1>3 DEF Good
<1>6. Throws
  BY <1>0, <1>3 DEF Throws, Good
<1>. QED BY <1>0, <1>3, <1>4, <1>5, <1>6, OthersStay

\* The transport comes and goes, and time passes.
LEMMA RestKeeps ==
  Inv /\ (Attach \/ Connect \/ Drop \/ Detach \/ Tick \/ UNCHANGED vars) => Inv' /\ Throws
<1>. SUFFICES ASSUME Inv, Attach \/ Connect \/ Drop \/ Detach \/ Tick \/ UNCHANGED vars
              PROVE  Inv' /\ Throws
  OBVIOUS
<1>0. /\ TypeOK /\ UNCHANGED <<health, copies, logged, asked>>
      /\ now' \in {now, now + 1} /\ attached' \in BOOLEAN /\ connected' \in BOOLEAN
  BY DEF Inv, TypeOK, Attach, Connect, Drop, Detach, Tick, vars, network
<1>1. /\ delivery' \in [Deliveries -> [at: Places, unsent: Seq(Agents)]]
      /\ \A e \in Deliveries :
           \/ delivery'[e] = delivery[e]
           \/ /\ delivery[e].at = "direct" /\ delivery'[e].at = "orphaned"
              /\ delivery'[e].unsent = delivery[e].unsent
  <2>1. CASE Detach
    <3>1. \A e \in Deliveries : delivery[e] \in [at: Places, unsent: Seq(Agents)]
      BY <1>0 DEF TypeOK
    <3>2. delivery' = [e \in Deliveries |-> IF delivery[e].at = "direct"
                                            THEN [delivery[e] EXCEPT !.at = "orphaned"]
                                            ELSE delivery[e]]
      BY <2>1 DEF Detach
    <3>. QED BY <3>1, <3>2 DEF Places
  <2>2. CASE ~Detach
    BY <1>0, <2>2 DEF TypeOK, Attach, Connect, Drop, Tick, vars
  <2>. QED BY <2>1, <2>2
<1>2. TypeOK'
  BY <1>0, <1>1 DEF TypeOK
<1>3. \A e \in Deliveries : Good(e, delivery'[e], copies'[e], logged', asked'[e])
  BY <1>0, <1>1 DEF Inv, Good
<1>4. Throws
  BY <1>1 DEF Throws
<1>. QED BY <1>2, <1>3, <1>4 DEF Inv

\* Every step.
LEMMA StepKeeps == Inv /\ [Next]_vars => Inv' /\ Throws
BY DeliverKeeps, AckedKeeps, TimeoutKeeps, RelayKeeps, RestKeeps DEF Next, Answer
-----------------------------------------------------------------------------
\* The invariant holds at every moment.
THEOREM Invariance == Spec => []Inv
<1>1. Init => Inv
  BY InitInv
<1>2. Inv /\ [Next]_vars => Inv'
  BY StepKeeps
<1>. QED BY <1>1, <1>2, PTL DEF Spec

\* The state of the router has its type.
THEOREM Typing == Spec => []TypeOK
<1>1. Inv => TypeOK
  BY DEF Inv
<1>. QED BY <1>1, Invariance, PTL

\* What is reported delivered has reached, or will reach, every agent.
THEOREM Reported == Spec => []DeliveredToAll
<1>1. Inv => DeliveredToAll
  BY DEF Inv, Good, DeliveredToAll
<1>. QED BY <1>1, Invariance, PTL

\* Falling back sends no agent a second copy over one connection.
THEOREM OneCopy == Spec => []OneCopyPerConnection
<1>1. Inv => OneCopyPerConnection
  BY DEF Inv, Good, OneCopyPerConnection
<1>. QED BY <1>1, Invariance, PTL

\* A delivery throws for the relay's sake only.
THEOREM Thrown == Spec => ThrowsAfterTheRelay
<1>1. Inv /\ [Next]_vars =>
        [\A d \in Deliveries : delivery[d].at # "thrown" /\ delivery'[d].at = "thrown" =>
           "relay" \in asked[d] \/ health'["relay"].openUntil > now]_vars
  BY StepKeeps DEF Throws
<1>. QED BY <1>1, Invariance, PTL DEF Spec, ThrowsAfterTheRelay
=============================================================================
