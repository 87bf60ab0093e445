------------------------------ MODULE Router ------------------------------
(***************************************************************************)
(* How a message leaves for one peer environment: ConnectionRouter.deliver *)
(* and DirectConnection, RelayConnection of src/vortex-relay/connection.js,*)
(* over the transport that DirectMqttTransport keeps connected.  Several   *)
(* deliveries run at a time, each over the direct connection first, agent  *)
(* by agent, and then over the relay.  (RelayChain is what happens behind  *)
(* the relay.  Pins are not modelled: index.js sets none.)                 *)
(***************************************************************************)
EXTENDS Breaker, Sequences, FiniteSets

CONSTANTS
  Deliveries,
  AgentNames,   (* routed.agentNames: the agents a message is for          *)
  MaxNow        (* bound of the clock                                      *)

Agents      == {AgentNames[i] : i \in DOMAIN AgentNames}
Connections == {"direct", "relay"}

ASSUME RouterAssumption ==
  /\ AgentNames \in Seq(Agents) /\ AgentNames # <<>> /\ MaxNow \in Nat
  /\ \A i, j \in DOMAIN AgentNames : AgentNames[i] = AgentNames[j] => i = j

VARIABLES
  health,       (* this._health, of the peer's two connections             *)
  now,          (* Date.now()                                              *)
  attached,     (* _directTransports has a transport for the peer          *)
  connected,    (* transport.connected                                     *)
  delivery,     (* where each delivery is, and the agents still to send to *)
  copies,       (* history: direct copies of each message at each agent    *)
  logged,       (* history: messages in the peer's log on the relay        *)
  asked         (* history: the connections each delivery has tried        *)

network == <<attached, connected>>
vars    == <<health, now, network, delivery, copies, logged, asked>>

(* "orphaned": sending over a transport that has been detached since.      *)
Places == {"idle", "direct", "orphaned", "relay", "delivered", "thrown"}

At(place, unsent) == [at |-> place, unsent |-> unsent]

Failed(k) == [health EXCEPT ![k] = RecordFailure(@, now)]
Worked(k) == [health EXCEPT ![k] = RecordSuccess(@)]

\* Mutant of TryRelay: goes back to the direct connection.
TryDirectAgain(d, h) ==
  /\ delivery' = [delivery EXCEPT ![d] = At("direct", AgentNames)]
  /\ asked' = [asked EXCEPT ![d] = @ \cup {"direct"}]

\* The last connection of the list, whose isAvailable() is always true.
TryRelay(d, h) ==
  IF IsOpen(h["relay"], now)
  THEN delivery' = [delivery EXCEPT ![d] = At("thrown", <<>>)] /\ UNCHANGED asked
  ELSE /\ delivery' = [delivery EXCEPT ![d] = At("relay", <<>>)]
       /\ asked' = [asked EXCEPT ![d] = @ \cup {"relay"}]

DirectUsable == attached /\ ~IsOpen(health["direct"], now) /\ connected

Deliver(d) ==
  /\ delivery[d].at = "idle"
  /\ \/ /\ DirectUsable
        /\ delivery' = [delivery EXCEPT ![d] = At("direct", AgentNames)]
        /\ asked' = [asked EXCEPT ![d] = @ \cup {"direct"}]
     \/ ~DirectUsable /\ TryRelay(d, health)
  /\ UNCHANGED <<health, now, network, copies, logged>>

\* Mutant of Sending: nobody answers for a transport that was detached.
SendingAttached(d) == delivery[d].at = "direct"

\* What is pending on a transport that was detached still settles.
Sending(d) == delivery[d].at \in {"direct", "orphaned"}

\* What a send over the transport finds: one that is being disconnected is
\* connected for as long as its close takes.
StillUp(d) == delivery[d].at = "orphaned" \/ connected
NowDown(d) == delivery[d].at = "orphaned" \/ ~connected

OneMoreCopy(d) == copies' = [copies EXCEPT ![d][Head(delivery[d].unsent)] = @ + 1]

\* Mutant of SendAcked: the first acknowledgement counts for all agents.
FirstAckCounts(d) ==
  /\ Sending(d)
  /\ OneMoreCopy(d)
  /\ delivery' = [delivery EXCEPT ![d] = At("delivered", <<>>)]
  /\ health' = Worked("direct")
  /\ UNCHANGED <<asked, now, network, logged>>

\* The peer's broker acknowledges; the next send throws at once if the
\* transport has been lost meanwhile.
SendAcked(d) ==
  LET rest == Tail(delivery[d].unsent)
  IN  /\ Sending(d)
      /\ OneMoreCopy(d)
      /\ \/ /\ rest = <<>>
            /\ delivery' = [delivery EXCEPT ![d] = At("delivered", <<>>)]
            /\ health' = Worked("direct")
            /\ UNCHANGED asked
         \/ /\ rest # <<>> /\ StillUp(d)
            /\ delivery' = [delivery EXCEPT ![d].unsent = rest]
            /\ UNCHANGED <<health, asked>>
         \/ /\ rest # <<>> /\ NowDown(d)
            /\ health' = Failed("direct")
            /\ TryRelay(d, health')
      /\ UNCHANGED <<now, network, logged>>

\* Mutant of SendTimesOut: the error is thrown on, past the relay.
TimeoutThrows(d) ==
  /\ Sending(d)
  /\ OneMoreCopy(d) \/ UNCHANGED copies
  /\ health' = Failed("direct")
  /\ delivery' = [delivery EXCEPT ![d] = At("thrown", <<>>)]
  /\ UNCHANGED <<asked, now, network, logged>>

\* sendConfirmed rejects: no acknowledgement in time, whether or not the
\* message has got there.
SendTimesOut(d) ==
  /\ Sending(d)
  /\ OneMoreCopy(d) \/ UNCHANGED copies
  /\ health' = Failed("direct")
  /\ TryRelay(d, health')
  /\ UNCHANGED <<now, network, logged>>

RelayAppends(d) ==
  /\ delivery[d].at = "relay"
  /\ logged' = logged \cup {d}
  /\ health' = Worked("relay")
  /\ delivery' = [delivery EXCEPT ![d] = At("delivered", <<>>)]
  /\ UNCHANGED <<now, network, copies, asked>>

\* appendMessage rejects; the message may be in the log all the same.
RelayFails(d) ==
  /\ delivery[d].at = "relay"
  /\ logged' \in {logged, logged \cup {d}}
  /\ health' = Failed("relay")
  /\ delivery' = [delivery EXCEPT ![d] = At("thrown", <<>>)]
  /\ UNCHANGED <<now, network, copies, asked>>

\* The peer is found on the LAN, its broker connects, drops and connects
\* again, and it leaves.
Attach ==
  /\ ~attached
  /\ attached' = TRUE
  /\ UNCHANGED <<health, now, connected, delivery, copies, logged, asked>>

Connect ==
  /\ attached /\ ~connected
  /\ connected' = TRUE
  /\ UNCHANGED <<health, now, attached, delivery, copies, logged, asked>>

Drop ==
  /\ connected
  /\ connected' = FALSE
  /\ UNCHANGED <<health, now, attached, delivery, copies, logged, asked>>

Detach ==
  /\ attached
  /\ attached' = FALSE /\ connected' = FALSE
  /\ delivery' = [d \in Deliveries |-> IF delivery[d].at = "direct"
                                       THEN [delivery[d] EXCEPT !.at = "orphaned"]
                                       ELSE delivery[d]]
  /\ UNCHANGED <<health, now, copies, logged, asked>>

Tick ==
  /\ now < MaxNow
  /\ now' = now + 1
  /\ UNCHANGED <<health, network, delivery, copies, logged, asked>>

Init ==
  /\ health = [k \in Connections |-> Healthy]
  /\ now = 0
  /\ attached = FALSE /\ connected = FALSE
  /\ delivery = [d \in Deliveries |-> At("idle", <<>>)]
  /\ copies = [d \in Deliveries |-> [a \in Agents |-> 0]]
  /\ logged = {}
  /\ asked = [d \in Deliveries |-> {}]

Answer(d) == SendAcked(d) \/ SendTimesOut(d) \/ RelayAppends(d) \/ RelayFails(d)

Next ==
  \/ \E d \in Deliveries : Deliver(d) \/ Answer(d)
  \/ Attach \/ Connect \/ Drop \/ Detach \/ Tick

Spec == Init /\ [][Next]_vars

(* sendConfirmed has a timeout, and an append comes back (RelayChain).     *)
FairSpec == Spec /\ \A d \in Deliveries : WF_vars(Answer(d))
-----------------------------------------------------------------------------
TypeOK ==
  /\ health \in [Connections -> Health] /\ now \in Nat
  /\ attached \in BOOLEAN /\ connected \in BOOLEAN
  /\ delivery \in [Deliveries -> [at: Places, unsent: Seq(Agents)]]
  /\ copies \in [Deliveries -> [Agents -> Nat]]
  /\ logged \subseteq Deliveries
  /\ asked \in [Deliveries -> SUBSET Connections]

(* What deliver() reports as delivered has reached every agent, or waits   *)
(* for all of them in the log, however often the connection came and went. *)
DeliveredToAll ==
  \A d \in Deliveries : delivery[d].at = "delivered" =>
    d \in logged \/ \A a \in Agents : copies[d][a] > 0

(* Falling back never sends anything twice over the direct connection: an  *)
(* agent gets one copy of it at most, and one from the log.                *)
OneCopyPerConnection == \A d \in Deliveries, a \in Agents : copies[d][a] <= 1

(* A delivery throws after the relay has been asked, or, which the comment *)
(* "the guaranteed fallback" (connection.js:84) does not say, while the    *)
(* router's own breaker is open on the relay: never for a direct           *)
(* connection that was lost, timed out, or in cooldown.                    *)
ThrowsAfterTheRelay ==
  [][\A d \in Deliveries : delivery[d].at # "thrown" /\ delivery'[d].at = "thrown" =>
       "relay" \in asked[d] \/ health'["relay"].openUntil > now]_vars

(* Every delivery is reported delivered, or throws.                        *)
EveryDeliveryEnds ==
  \A d \in Deliveries : delivery[d].at \in {"direct", "orphaned", "relay"}
                          ~> delivery[d].at \in {"delivered", "thrown"}
=============================================================================
