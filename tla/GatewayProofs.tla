--------------------------- MODULE GatewayProofs ---------------------------
(* Theorems about the process of `vortexia start`: the gateway, for every  *)
(* set of messages and of signals and any number of starts, and the ports. *)
EXTENDS Gateway, Ports, TLAPS, FiniteSetTheorems, WellFoundedInduction

(***************************************************************************)
(* The invariant: what stands beside OneWayBack and StoppedForGood.        *)
(***************************************************************************)

\* Before the bridge listens there is neither a timer nor a shutdown, and
\* nothing of a process is left behind it.
Quiet ==
  /\ proc = "off" => link = "off" /\ timers = 0
  /\ proc # "running" => \A s \in Signals : shutdown[s] = "none"
  /\ proc = "starting" => closer = NoSignal /\ ~stopping
  /\ proc # "off" /\ bridge = "none" => proc = "starting"
  /\ bridge # "attached" => timers = 0
  /\ bridge = "failed" => link = "off"

\* A shutdown stops the gateway before it closes the broker.
StopsFirst ==
  /\ \A s \in Signals : shutdown[s] = "gateway" => bridge = "attached"
  /\ \A s \in Signals : bridge = "attached" /\ shutdown[s] # "none" => stopping
  /\ proc # "off" /\ bridge = "attached" /\ closer # NoSignal => stopping /\ link = "off"
  /\ proc # "off" /\ stopping => timers = 0

\* What close() has flushed is not touched any more.
Flushed == proc # "off" /\ broker = "flushed" => disk = mail

Inv == TypeOK /\ Quiet /\ OneWayBack /\ StopsFirst /\ Flushed

-----------------------------------------------------------------------------
\* Everything holds at first.
LEMMA InitInv == Init => Inv
<1>. SUFFICES ASSUME Init PROVE Inv
  OBVIOUS
<1>1. TypeOK
  <2>1. starts \in 0 .. MaxStarts /\ timers \in Nat
    BY GatewayAssumption DEF Init
  <2>2. shutdown \in [Signals -> {"none", "gateway", "broker"}]
    BY DEF Init
  <2>. QED BY <2>1, <2>2 DEF Init, TypeOK
<1>2. Quiet /\ OneWayBack /\ StopsFirst /\ Flushed
  BY DEF Init, Quiet, OneWayBack, StopsFirst, Flushed
<1>. QED BY <1>1, <1>2 DEF Inv

\* Every step keeps it.
LEMMA NextInv ==
  ASSUME Inv, [Next]_vars
  PROVE  Inv'
<1>. USE GatewayAssumption DEF Inv, mailVars, linkVars, stopVars
<1>1. CASE Start
  <2>. USE <1>1 DEF Start
  <2>1. TypeOK'
    <3>1. starts' \in 0 .. MaxStarts
      BY DEF TypeOK
    <3>2. /\ shutdown' \in [Signals -> {"none", "gateway", "broker"}]
          /\ closer' \in Signals \cup {NoSignal}
      OBVIOUS
    <3>. QED BY <3>1, <3>2 DEF TypeOK
  <2>2. Quiet'
    BY DEF TypeOK, Quiet, StopsFirst
  <2>3. OneWayBack'
    BY DEF TypeOK, Quiet, OneWayBack, Ways, StopsFirst
  <2>4. StopsFirst'
    BY DEF TypeOK, Quiet, OneWayBack, Ways, StopsFirst
  <2>5. Flushed'
    BY DEF TypeOK, Quiet, Flushed
  <2>. QED BY <2>1, <2>2, <2>3, <2>4, <2>5
<1>2. CASE Attach
  <2>. USE <1>2 DEF Attach
  <2>1. TypeOK'
    BY DEF TypeOK
  <2>2. Quiet'
    BY DEF TypeOK, Quiet, StopsFirst
  <2>3. OneWayBack'
    BY DEF TypeOK, Quiet, OneWayBack, Ways, StopsFirst
  <2>4. StopsFirst'
    BY DEF TypeOK, Quiet, OneWayBack, Ways, StopsFirst
  <2>5. Flushed'
    BY DEF TypeOK, Quiet, Flushed
  <2>. QED BY <2>1, <2>2, <2>3, <2>4, <2>5
<1>3. CASE StartFails
  <2>. USE <1>3 DEF StartFails
  <2>1. TypeOK'
    BY DEF TypeOK
  <2>2. Quiet'
    BY DEF TypeOK, Quiet, StopsFirst
  <2>3. OneWayBack'
    BY DEF TypeOK, Quiet, OneWayBack, Ways, StopsFirst
  <2>4. StopsFirst'
    BY DEF TypeOK, Quiet, OneWayBack, Ways, StopsFirst
  <2>5. Flushed'
    BY DEF TypeOK, Quiet, Flushed
  <2>. QED BY <2>1, <2>2, <2>3, <2>4, <2>5
<1>4. CASE Started
  <2>. USE <1>4 DEF Started
  <2>1. TypeOK'
    BY DEF TypeOK
  <2>2. Quiet'
    BY DEF TypeOK, Quiet, StopsFirst
  <2>3. OneWayBack'
    BY DEF TypeOK, Quiet, OneWayBack, Ways, StopsFirst
  <2>4. StopsFirst'
    BY DEF TypeOK, Quiet, OneWayBack, Ways, StopsFirst
  <2>5. Flushed'
    BY DEF TypeOK, Quiet, Flushed
  <2>. QED BY <2>1, <2>2, <2>3, <2>4, <2>5
<1>5. CASE TimerFires
  <2>. USE <1>5 DEF TimerFires
  <2>1. TypeOK'
    BY DEF TypeOK
  <2>2. Quiet'
    BY DEF TypeOK, Quiet, StopsFirst
  <2>3. OneWayBack'
    BY DEF TypeOK, Quiet, OneWayBack, Ways, StopsFirst
  <2>4. StopsFirst'
    BY DEF TypeOK, Quiet, OneWayBack, Ways, StopsFirst
  <2>5. Flushed'
    BY DEF TypeOK, Quiet, Flushed
  <2>. QED BY <2>1, <2>2, <2>3, <2>4, <2>5
<1>6. CASE Connected
  <2>. USE <1>6 DEF Connected
  <2>1. TypeOK'
    BY DEF TypeOK
  <2>2. Quiet'
    BY DEF TypeOK, Quiet, StopsFirst
  <2>3. OneWayBack'
    BY DEF TypeOK, Quiet, OneWayBack, Ways, StopsFirst
  <2>4. StopsFirst'
    BY DEF TypeOK, Quiet, OneWayBack, Ways, StopsFirst
  <2>5. Flushed'
    BY DEF TypeOK, Quiet, Flushed
  <2>. QED BY <2>1, <2>2, <2>3, <2>4, <2>5
<1>7. CASE ConnectFails
  <2>. USE <1>7 DEF ConnectFails, ReconnectGateway
  <2>1. TypeOK'
    BY DEF TypeOK
  <2>2. Quiet'
    BY DEF TypeOK, Quiet, StopsFirst
  <2>3. OneWayBack'
    BY DEF TypeOK, Quiet, OneWayBack, Ways, StopsFirst
  <2>4. StopsFirst'
    BY DEF TypeOK, Quiet, OneWayBack, Ways, StopsFirst
  <2>5. Flushed'
    BY DEF TypeOK, Quiet, Flushed
  <2>. QED BY <2>1, <2>2, <2>3, <2>4, <2>5
<1>8. CASE Dropped
  <2>. USE <1>8 DEF Dropped, ReconnectGateway
  <2>1. TypeOK'
    BY DEF TypeOK
  <2>2. Quiet'
    BY DEF TypeOK, Quiet, StopsFirst
  <2>3. OneWayBack'
    BY DEF TypeOK, Quiet, OneWayBack, Ways, StopsFirst
  <2>4. StopsFirst'
    BY DEF TypeOK, Quiet, OneWayBack, Ways, StopsFirst
  <2>5. Flushed'
    BY DEF TypeOK, Quiet, Flushed
  <2>. QED BY <2>1, <2>2, <2>3, <2>4, <2>5
<1>9. ASSUME NEW m \in Messages, Publish(m) PROVE Inv'
  <2>. USE <1>9 DEF Publish
  <2>1. TypeOK'
    BY DEF TypeOK
  <2>2. Quiet'
    BY DEF TypeOK, Quiet, StopsFirst
  <2>3. OneWayBack'
    BY DEF TypeOK, Quiet, OneWayBack, Ways, StopsFirst
  <2>4. StopsFirst'
    BY DEF TypeOK, Quiet, OneWayBack, Ways, StopsFirst
  <2>5. Flushed'
    BY DEF TypeOK, Quiet, Flushed
  <2>. QED BY <2>1, <2>2, <2>3, <2>4, <2>5
<1>10. ASSUME NEW m \in Messages, Deliver(m) PROVE Inv'
  <2>. USE <1>10 DEF Deliver
  <2>1. TypeOK'
    BY DEF TypeOK
  <2>2. Quiet'
    BY DEF TypeOK, Quiet, StopsFirst
  <2>3. OneWayBack'
    BY DEF TypeOK, Quiet, OneWayBack, Ways, StopsFirst
  <2>4. StopsFirst'
    BY DEF TypeOK, Quiet, OneWayBack, Ways, StopsFirst
  <2>5. Flushed'
    BY DEF TypeOK, Quiet, Flushed
  <2>. QED BY <2>1, <2>2, <2>3, <2>4, <2>5
<1>11. ASSUME NEW m \in Messages, Forwarded(m) PROVE Inv'
  <2>. USE <1>11 DEF Forwarded
  <2>1. TypeOK'
    BY DEF TypeOK
  <2>2. Quiet'
    BY DEF TypeOK, Quiet, StopsFirst
  <2>3. OneWayBack'
    BY DEF TypeOK, Quiet, OneWayBack, Ways, StopsFirst
  <2>4. StopsFirst'
    BY DEF TypeOK, Quiet, OneWayBack, Ways, StopsFirst
  <2>5. Flushed'
    BY DEF TypeOK, Quiet, Flushed
  <2>. QED BY <2>1, <2>2, <2>3, <2>4, <2>5
<1>12. CASE Snapshot
  <2>. USE <1>12 DEF Snapshot
  <2>1. TypeOK'
    BY DEF TypeOK
  <2>2. Quiet'
    BY DEF TypeOK, Quiet, StopsFirst
  <2>3. OneWayBack'
    BY DEF TypeOK, Quiet, OneWayBack, Ways, StopsFirst
  <2>4. StopsFirst'
    BY DEF TypeOK, Quiet, OneWayBack, Ways, StopsFirst
  <2>5. Flushed'
    BY DEF TypeOK, Quiet, Flushed
  <2>. QED BY <2>1, <2>2, <2>3, <2>4, <2>5
<1>13. ASSUME NEW s \in Signals, Signal(s) PROVE Inv'
  <2>. USE <1>13 DEF Signal, Close, Gone
  <2>1. TypeOK'
    <3>1. shutdown' \in [Signals -> {"none", "gateway", "broker"}]
      BY DEF TypeOK
    <3>2. closer' \in Signals \cup {NoSignal} /\ timers' \in Nat /\ stopping' \in BOOLEAN
      <4>1. CASE bridge = "attached"
        BY <4>1 DEF TypeOK
      <4>2. CASE bridge # "attached" /\ closer = NoSignal
        BY <4>2 DEF TypeOK
      <4>3. CASE bridge # "attached" /\ closer # NoSignal
        BY <4>3 DEF TypeOK
      <4>. QED BY <4>1, <4>2, <4>3
    <3>3. /\ mail' \subseteq Messages /\ disk' \subseteq Messages
          /\ forwarding' \subseteq Messages /\ published' \subseteq Messages
          /\ handled' \subseteq Messages /\ wasted' \subseteq Messages
      BY DEF TypeOK
    <3>4. /\ proc' \in {"off", "starting", "running"} /\ starts' \in 0 .. MaxStarts
          /\ bridge' \in {"none", "attached", "failed"}
          /\ link' \in {"off", "connecting", "open"}
          /\ broker' \in {"up", "closed", "flushed"}
          /\ exit' \in {"none", "clean", "hurried", "crash"}
      BY DEF TypeOK
    <3>. QED BY <3>1, <3>2, <3>3, <3>4 DEF TypeOK
  <2>2. Quiet'
    BY DEF TypeOK, Quiet, StopsFirst
  <2>3. OneWayBack'
    BY DEF TypeOK, Quiet, OneWayBack, Ways, StopsFirst
  <2>4. StopsFirst'
    BY DEF TypeOK, Quiet, OneWayBack, Ways, StopsFirst
  <2>5. Flushed'
    BY DEF TypeOK, Quiet, Flushed
  <2>. QED BY <2>1, <2>2, <2>3, <2>4, <2>5
<1>14. ASSUME NEW s \in Signals, GatewayStopped(s) PROVE Inv'
  <2>. USE <1>14 DEF GatewayStopped, Close, Gone
  <2>1. TypeOK'
    BY DEF TypeOK
  <2>2. Quiet'
    BY DEF TypeOK, Quiet, StopsFirst
  <2>3. OneWayBack'
    BY DEF TypeOK, Quiet, OneWayBack, Ways, StopsFirst
  <2>4. StopsFirst'
    BY DEF TypeOK, Quiet, OneWayBack, Ways, StopsFirst
  <2>5. Flushed'
    BY DEF TypeOK, Quiet, Flushed
  <2>. QED BY <2>1, <2>2, <2>3, <2>4, <2>5
<1>15. ASSUME NEW s \in Signals, CloseBroker(s) PROVE Inv'
  <2>. USE <1>15 DEF CloseBroker
  <2>1. TypeOK'
    BY DEF TypeOK
  <2>2. Quiet'
    BY DEF TypeOK, Quiet, StopsFirst
  <2>3. OneWayBack'
    BY DEF TypeOK, Quiet, OneWayBack, Ways, StopsFirst
  <2>4. StopsFirst'
    BY DEF TypeOK, Quiet, OneWayBack, Ways, StopsFirst
  <2>5. Flushed'
    BY DEF TypeOK, Quiet, Flushed
  <2>. QED BY <2>1, <2>2, <2>3, <2>4, <2>5
<1>16. ASSUME NEW s \in Signals, Stopped(s) PROVE Inv'
  <2>. USE <1>16 DEF Stopped, Gone
  <2>1. TypeOK'
    BY DEF TypeOK
  <2>2. Quiet'
    BY DEF TypeOK, Quiet, StopsFirst
  <2>3. OneWayBack'
    BY DEF TypeOK, Quiet, OneWayBack, Ways, StopsFirst
  <2>4. StopsFirst'
    BY DEF TypeOK, Quiet, OneWayBack, Ways, StopsFirst
  <2>5. Flushed'
    BY DEF TypeOK, Quiet, Flushed
  <2>. QED BY <2>1, <2>2, <2>3, <2>4, <2>5
<1>17. CASE Deadline
  <2>. USE <1>17 DEF Deadline, Gone
  <2>1. TypeOK'
    BY DEF TypeOK
  <2>2. Quiet'
    BY DEF TypeOK, Quiet, StopsFirst
  <2>3. OneWayBack'
    BY DEF TypeOK, Quiet, OneWayBack, Ways, StopsFirst
  <2>4. StopsFirst'
    BY DEF TypeOK, Quiet, OneWayBack, Ways, StopsFirst
  <2>5. Flushed'
    BY DEF TypeOK, Quiet, Flushed
  <2>. QED BY <2>1, <2>2, <2>3, <2>4, <2>5
<1>18. CASE Crash
  <2>. USE <1>18 DEF Crash, Gone
  <2>1. TypeOK'
    BY DEF TypeOK
  <2>2. Quiet'
    BY DEF TypeOK, Quiet, StopsFirst
  <2>3. OneWayBack'
    BY DEF TypeOK, Quiet, OneWayBack, Ways, StopsFirst
  <2>4. StopsFirst'
    BY DEF TypeOK, Quiet, OneWayBack, Ways, StopsFirst
  <2>5. Flushed'
    BY DEF TypeOK, Quiet, Flushed
  <2>. QED BY <2>1, <2>2, <2>3, <2>4, <2>5
<1>19. CASE UNCHANGED vars
  BY <1>19 DEF vars, TypeOK, Quiet, OneWayBack, Ways, StopsFirst, Flushed
<1>. QED BY <1>1, <1>2, <1>3, <1>4, <1>5, <1>6, <1>7, <1>8, <1>9, <1>10, <1>11, <1>12, <1>13, <1>14, <1>15, <1>16, <1>17, <1>18, <1>19 DEF Next

-----------------------------------------------------------------------------
(***************************************************************************)
(* The theorems.                                                           *)
(***************************************************************************)

\* The invariant holds at every moment.
THEOREM Invariance == Spec => []Inv
BY InitInv, NextInv, PTL DEF Spec

\* Type correctness (the state of cmdStart and startVortexRelay).
THEOREM Typing == Spec => []TypeOK
<1>1. Inv => TypeOK
  BY DEF Inv
<1>. QED BY <1>1, Invariance, PTL

\* reconnectGateway keeps one connection, attempt or timer, never two.
THEOREM OneWay == Spec => []OneWayBack
<1>1. Inv => OneWayBack
  BY DEF Inv
<1>. QED BY <1>1, Invariance, PTL

\* stopGateway is final.
THEOREM Stops == Spec => []StoppedForGood
<1>1. Inv => StoppedForGood
  BY DEF Inv, TypeOK, StopsFirst, StoppedForGood, Ways
<1>. QED BY <1>1, Invariance, PTL

\* A shutdown that comes to its end has saved the mailbox.
THEOREM KeepsMail == Spec => CleanStopKeepsMail
<1>1. ASSUME Inv, [Next]_vars, proc # "off", proc' = "off", exit' = "clean"
      PROVE  disk = mail
  <2>1. PICK s \in Signals : Stopped(s)
    BY <1>1 DEF Next, vars, mailVars, linkVars, stopVars, Start, Attach, StartFails, Started, TimerFires,
                Connected, ConnectFails, Dropped, Publish, Deliver, Forwarded, Snapshot, Signal,
                GatewayStopped, CloseBroker, Deadline, Crash, Gone, Close
  <2>. QED BY <1>1, <2>1 DEF Inv, Flushed, Stopped
<1>. QED BY <1>1, Invariance, PTL DEF Spec, CleanStopKeepsMail

-----------------------------------------------------------------------------
(***************************************************************************)
(* The ports that the same process binds and registers (module Ports), for *)
(* every set of ports and of pins, and any number of starts and attempts.  *)
(* The invariant behind StickyKept and ReleasedForGood:                    *)
(***************************************************************************)

\* bindWithPolicy binds one listener after the other, while the broker starts;
\* the first with nothing excluded, the second all but the first one's port.
InOrder ==
  /\ \A a \in Apps : step[a] \notin {"no", "bound"} => phase = "starting"
  /\ phase = "starting" => step[Mqtt] # "no" /\ (step[Ws] # "no" => step[Mqtt] = "bound")
  /\ phase # "starting" => excluded = {}
  /\ step[Mqtt] = "ask" => excluded = {}
  /\ step[Ws] = "ask" => excluded = {port[Mqtt]}

\* Who claims or scans for a port has none to keep, or found it taken.
MovesIfTaken ==
  \A a \in Apps :
    /\ step[a] \in {"listen", "tell", "claim", "scan"} => pin[a] = 0
    /\ step[a] \in {"claim", "scan"} => sticky[a] = 0 \/ a \in turned

\* Which listeners have a port.
HavePorts ==
  \A a \in Apps : /\ step[a] \in {"listen", "tell"} => sticky[a] # 0
                  /\ step[a] \in {"get", "put", "bound"} \/ a \in released => port[a] # 0

\* close() stops the loops, and what was released stays so.
Releases ==
  /\ phase \in {"closing", "releasing"} =>
       stopped /\ \A a \in Apps \ late : loop[a] \notin {"get", "put"}
  /\ released # {} => phase = "releasing"
  /\ \A a \in released \ late : registry[port[a]] # a

PortsInv == PortsTypeOK /\ InOrder /\ MovesIfTaken /\ HavePorts /\ Releases

-----------------------------------------------------------------------------
\* There are two listeners.
LEMMA TwoApps ==
  /\ Mqtt \in Apps /\ Ws \in Apps /\ Ws # Mqtt
  /\ \A a \in Apps : a = Mqtt \/ a = Ws
<1>1. IsFiniteSet(Apps \ {Mqtt}) /\ Cardinality(Apps \ {Mqtt}) = 1
  BY PortsAssumption, FS_RemoveElement
<1>2. PICK w : Apps \ {Mqtt} = {w}
  BY <1>1, FS_Singleton
<1>. QED BY <1>2, PortsAssumption DEF Ws

\* findFreePort returns one of the ports it looks at.
LEMMA MinIsOne ==
  ASSUME NEW S, S \subseteq Nat, S # {}
  PROVE  Min(S) \in S
<1>. DEFINE smaller == {p \in Nat \X Nat : p[1] < p[2]}
<1>1. IsWellFoundedOn(smaller, Nat)
  BY NatLessThanWellFounded DEF OpToRel
<1>2. PICK x \in S : \A y \in S : ~(<<y, x>> \in smaller)
  BY <1>1, WFMin
<1>3. ASSUME NEW y \in S PROVE x =< y
  <2>1. x \in Nat /\ y \in Nat /\ <<y, x>> \notin smaller
    BY <1>2
  <2>. QED BY <2>1
<1>. QED BY <1>3 DEF Min

\* Everything holds at first.
LEMMA PortsInitInv == PortsInit => PortsInv
<1>. SUFFICES ASSUME PortsInit PROVE PortsInv
  OBVIOUS
<1>1. PortsTypeOK
  BY PortsAssumption DEF PortsInit, PortsTypeOK
<1>2. InOrder /\ MovesIfTaken /\ HavePorts /\ Releases
  BY TwoApps DEF PortsInit, InOrder, MovesIfTaken, HavePorts, Releases
<1>. QED BY <1>1, <1>2 DEF PortsInv

\* A start asks for the first port; what is excluded is still empty.
LEMMA StartBrokerKeeps ==
  ASSUME PortsInv, StartBroker
  PROVE  PortsInv'
<1>. USE TwoApps, PortsAssumption DEF PortsInv, StartBroker, bindVars, loopVars, endVars
<1>1. PortsTypeOK'
  BY DEF PortsTypeOK
<1>2. InOrder'
  BY DEF PortsTypeOK, InOrder
<1>3. MovesIfTaken'
  BY DEF PortsTypeOK, InOrder, MovesIfTaken
<1>4. HavePorts'
  BY DEF PortsTypeOK, InOrder, HavePorts
<1>5. Releases'
  BY DEF PortsTypeOK, InOrder, HavePorts, Releases
<1>. QED BY <1>1, <1>2, <1>3, <1>4, <1>5

\* The second listener starts with the first one's port excluded.
LEMMA BindNextKeeps ==
  ASSUME PortsInv, BindNext
  PROVE  PortsInv'
<1>. USE TwoApps, PortsAssumption DEF PortsInv, BindNext, Goes, bindVars, loopVars, endVars
<1>1. PortsTypeOK'
  BY DEF PortsTypeOK, HavePorts
<1>2. InOrder'
  BY DEF PortsTypeOK, InOrder
<1>3. MovesIfTaken'
  BY DEF PortsTypeOK, InOrder, MovesIfTaken
<1>4. HavePorts'
  BY DEF PortsTypeOK, InOrder, HavePorts
<1>5. Releases'
  BY DEF PortsTypeOK, InOrder, HavePorts, Releases
<1>. QED BY <1>1, <1>2, <1>3, <1>4, <1>5

\* Both listeners have a port when the ports are remembered.
LEMMA BrokerStartedKeeps ==
  ASSUME PortsInv, BrokerStarted
  PROVE  PortsInv'
<1>. USE TwoApps, PortsAssumption DEF PortsInv, BrokerStarted, bindVars, loopVars, endVars
<1>1. PortsTypeOK'
  BY DEF PortsTypeOK
<1>2. InOrder'
  BY DEF PortsTypeOK, InOrder
<1>3. MovesIfTaken'
  BY DEF PortsTypeOK, InOrder, MovesIfTaken
<1>4. HavePorts'
  BY DEF PortsTypeOK, InOrder, HavePorts
<1>5. Releases'
  BY DEF PortsTypeOK, InOrder, HavePorts, Releases
<1>. QED BY <1>1, <1>2, <1>3, <1>4, <1>5

\* close() stops the loops; those under way count as late.
LEMMA CloseBeginsKeeps ==
  ASSUME PortsInv, CloseBegins
  PROVE  PortsInv'
<1>. USE TwoApps, PortsAssumption DEF PortsInv, CloseBegins, bindVars, loopVars, endVars
<1>1. PortsTypeOK'
  BY DEF PortsTypeOK
<1>2. InOrder'
  BY DEF PortsTypeOK, InOrder
<1>3. MovesIfTaken'
  BY DEF PortsTypeOK, InOrder, MovesIfTaken
<1>4. HavePorts'
  BY DEF PortsTypeOK, InOrder, HavePorts
<1>5. Releases'
  BY DEF PortsTypeOK, InOrder, HavePorts, Releases
<1>. QED BY <1>1, <1>2, <1>3, <1>4, <1>5

\* Closing the listeners releases nothing yet.
LEMMA ListenersClosedKeeps ==
  ASSUME PortsInv, ListenersClosed
  PROVE  PortsInv'
<1>. USE TwoApps, PortsAssumption DEF PortsInv, ListenersClosed, bindVars, loopVars, endVars
<1>1. PortsTypeOK'
  BY DEF PortsTypeOK
<1>2. InOrder'
  BY DEF PortsTypeOK, InOrder
<1>3. MovesIfTaken'
  BY DEF PortsTypeOK, InOrder, MovesIfTaken
<1>4. HavePorts'
  BY DEF PortsTypeOK, InOrder, HavePorts
<1>5. Releases'
  BY DEF PortsTypeOK, InOrder, HavePorts, Releases
<1>. QED BY <1>1, <1>2, <1>3, <1>4, <1>5

\* A process that ends leaves nothing.
LEMMA ProcessGoneKeeps ==
  ASSUME PortsInv, ProcessGone
  PROVE  PortsInv'
<1>. USE TwoApps, PortsAssumption DEF PortsInv, ProcessGone, Idle, bindVars, loopVars, endVars
<1>1. PortsTypeOK'
  BY DEF PortsTypeOK
<1>2. InOrder'
  BY DEF PortsTypeOK, InOrder
<1>3. MovesIfTaken'
  BY DEF PortsTypeOK, InOrder, MovesIfTaken
<1>4. HavePorts'
  BY DEF PortsTypeOK, InOrder, HavePorts
<1>5. Releases'
  BY DEF PortsTypeOK, InOrder, HavePorts, Releases
<1>. QED BY <1>1, <1>2, <1>3, <1>4, <1>5

\* A pinned port is bound without asking the registry.
LEMMA BindPinnedKeeps ==
  ASSUME PortsInv, NEW a \in Apps, BindPinned(a)
  PROVE  PortsInv'
<1>. USE TwoApps, PortsAssumption DEF PortsInv, BindPinned, Goes, bindVars, loopVars, endVars
<1>1. PortsTypeOK'
  BY DEF PortsTypeOK
<1>2. InOrder'
  BY DEF PortsTypeOK, InOrder
<1>3. MovesIfTaken'
  BY DEF PortsTypeOK, InOrder, MovesIfTaken
<1>4. HavePorts'
  BY DEF PortsTypeOK, InOrder, HavePorts
<1>5. Releases'
  BY DEF PortsTypeOK, InOrder, HavePorts, Releases
<1>. QED BY <1>1, <1>2, <1>3, <1>4, <1>5

\* Who turns from the last port to a claim found it excluded, taken or registered.
LEMMA AskKeeps ==
  ASSUME PortsInv, NEW a \in Apps, Ask(a)
  PROVE  PortsInv'
<1>. USE TwoApps, PortsAssumption DEF PortsInv, Ask, Goes, Noted, LastTaken, NothingToAsk, Taken,
                                   bindVars, loopVars, endVars
<1>1. PortsTypeOK'
  <2>1. turned' \subseteq Apps
    BY DEF PortsTypeOK
  <2>2. excluded' \subseteq Ports
    <3>1. excluded' = excluded \/ (sticky[a] # 0 /\ excluded' = excluded \cup {sticky[a]})
      OBVIOUS
    <3>2. ASSUME NEW q \in excluded' PROVE q \in excluded \/ (q = sticky[a] /\ q # 0)
      BY <3>1, <3>2
    <3>3. excluded \subseteq Ports /\ (sticky[a] \in Ports \/ sticky[a] = 0)
      BY DEF PortsTypeOK
    <3>. QED BY <3>2, <3>3
  <2>3. step' \in [Apps -> {"no", "ask", "listen", "tell", "get", "put", "claim", "scan", "bound"}]
    BY DEF PortsTypeOK
  <2>. QED BY <2>1, <2>2, <2>3 DEF PortsTypeOK
<1>2. InOrder'
  BY DEF PortsTypeOK, InOrder
<1>3. MovesIfTaken'
  <2>1. ASSUME step'[a] = "claim", sticky[a] # 0 PROVE a \in turned'
    <3>1. CASE sticky[a] \in excluded
      <4>1. a # Mqtt
        BY <3>1 DEF InOrder
      <4>2. sticky[a] = port[Mqtt]
        BY <3>1, <4>1 DEF InOrder
      <4>3. LastTaken(a)
        BY <2>1, <4>2
      <4>. QED BY <4>3
    <3>2. CASE sticky[a] \notin excluded
      BY <2>1, <3>2 DEF PortsTypeOK, SomeoneElse
    <3>. QED BY <3>1, <3>2
  <2>2. step'[a] # "scan"
    BY DEF PortsTypeOK
  <2>3. \A b \in Apps \ {a} : step'[b] = step[b]
    BY DEF PortsTypeOK
  <2>4. turned \subseteq turned'
    BY DEF PortsTypeOK
  <2>5. pin[a] = 0 /\ UNCHANGED <<pin, sticky>>
    OBVIOUS
  <2>. QED BY <2>1, <2>2, <2>3, <2>4, <2>5 DEF MovesIfTaken
<1>4. HavePorts'
  BY DEF PortsTypeOK, InOrder, HavePorts
<1>5. Releases'
  BY DEF PortsTypeOK, InOrder, HavePorts, Releases
<1>. QED BY <1>1, <1>2, <1>3, <1>4, <1>5

\* Who turns from it when it listens found it taken.
LEMMA ListenKeeps ==
  ASSUME PortsInv, NEW a \in Apps, Listen(a)
  PROVE  PortsInv'
<1>. USE TwoApps, PortsAssumption DEF PortsInv, Listen, Goes, Noted, LastTaken, Taken,
                                   bindVars, loopVars, endVars
<1>1. PortsTypeOK'
  <2>1. turned' \subseteq Apps
    BY DEF PortsTypeOK
  <2>2. sticky[a] \in Ports
    BY DEF PortsTypeOK, HavePorts
  <2>3. excluded' \subseteq Ports /\ port' \in [Apps -> Ports \cup {0}]
    BY <2>2 DEF PortsTypeOK
  <2>4. step' \in [Apps -> {"no", "ask", "listen", "tell", "get", "put", "claim", "scan", "bound"}]
    BY DEF PortsTypeOK
  <2>5. loop' \in [Apps -> {"none", "get", "put", "wait", "done"}]
    BY DEF PortsTypeOK
  <2>. QED BY <2>1, <2>3, <2>4, <2>5 DEF PortsTypeOK
<1>2. InOrder'
  BY DEF PortsTypeOK, InOrder
<1>3. MovesIfTaken'
  <2>1. step'[a] = "claim" => a \in turned'
    BY DEF PortsTypeOK, HavePorts
  <2>2. step'[a] # "scan"
    BY DEF PortsTypeOK
  <2>3. \A b \in Apps \ {a} : step'[b] = step[b]
    BY DEF PortsTypeOK
  <2>4. turned \subseteq turned'
    BY DEF PortsTypeOK
  <2>. QED BY <2>1, <2>2, <2>3, <2>4 DEF MovesIfTaken
<1>4. HavePorts'
  BY DEF PortsTypeOK, InOrder, HavePorts
<1>5. Releases'
  BY DEF PortsTypeOK, InOrder, HavePorts, Releases
<1>. QED BY <1>1, <1>2, <1>3, <1>4, <1>5

\* A claim gives a port, or excludes one, or leads to the scan.
LEMMA ClaimKeeps ==
  ASSUME PortsInv, NEW a \in Apps, Claim(a)
  PROVE  PortsInv'
<1>. USE TwoApps, PortsAssumption DEF PortsInv, Claim, Goes, Registered, bindVars, loopVars, endVars
<1>1. PortsTypeOK'
  <2>1. registry' \in [Ports -> Apps \cup {Other, NoEntry}]
    BY DEF PortsTypeOK
  <2>2. attempt' \in Nat
    <3>1. attempt' = attempt \/ attempt' = attempt + 1
      OBVIOUS
    <3>. QED BY <3>1 DEF PortsTypeOK
  <2>3. excluded' \subseteq Ports
    <3>1. excluded' = excluded \/ \E p \in Ports : excluded' = excluded \cup {p}
      OBVIOUS
    <3>2. ASSUME NEW q \in excluded' PROVE q \in excluded \/ q \in Ports
      BY <3>1, <3>2
    <3>. QED BY <3>2 DEF PortsTypeOK
  <2>4. port' \in [Apps -> Ports \cup {0}]
    <3>1. port' = port \/ \E p \in Ports : port' = [port EXCEPT ![a] = p]
      OBVIOUS
    <3>. QED BY <3>1 DEF PortsTypeOK
  <2>5. step' \in [Apps -> {"no", "ask", "listen", "tell", "get", "put", "claim", "scan", "bound"}]
    BY DEF PortsTypeOK
  <2>. QED BY <2>1, <2>2, <2>3, <2>4, <2>5 DEF PortsTypeOK
<1>2. InOrder'
  BY DEF PortsTypeOK, InOrder
<1>3. MovesIfTaken'
  BY DEF PortsTypeOK, InOrder, MovesIfTaken
<1>4. HavePorts'
  BY DEF PortsTypeOK, InOrder, HavePorts
<1>5. Releases'
  BY DEF PortsTypeOK, InOrder, HavePorts, Releases
<1>. QED BY <1>1, <1>2, <1>3, <1>4, <1>5

\* The scan gives one of the ports.
LEMMA ScanKeeps ==
  ASSUME PortsInv, NEW a \in Apps, Scan(a)
  PROVE  PortsInv'
<1>. USE TwoApps, PortsAssumption DEF PortsInv, Scan, Goes, Scannable, bindVars, loopVars, endVars
<1>0. Min(Scannable) \in Ports
  <2>1. Scannable \subseteq Ports /\ Scannable \subseteq Nat /\ Scannable # {}
    OBVIOUS
  <2>. HIDE DEF Scannable
  <2>. QED BY <2>1, MinIsOne
<1>1. PortsTypeOK'
  BY <1>0 DEF PortsTypeOK
<1>2. InOrder'
  BY DEF PortsTypeOK, InOrder
<1>3. MovesIfTaken'
  BY DEF PortsTypeOK, InOrder, MovesIfTaken
<1>4. HavePorts'
  BY <1>0 DEF PortsTypeOK, InOrder, HavePorts
<1>5. Releases'
  BY DEF PortsTypeOK, InOrder, HavePorts, Releases
<1>. QED BY <1>1, <1>2, <1>3, <1>4, <1>5

\* Within bindWithPolicy the registry is read once the port is bound.
LEMMA BinderGetsKeeps ==
  ASSUME PortsInv, NEW a \in Apps, BinderGets(a)
  PROVE  PortsInv'
<1>. USE TwoApps, PortsAssumption DEF PortsInv, BinderGets, Goes, GetPorts, Mine, bindVars, loopVars, endVars
<1>1. PortsTypeOK'
  BY DEF PortsTypeOK
<1>2. InOrder'
  BY DEF PortsTypeOK, InOrder
<1>3. MovesIfTaken'
  BY DEF PortsTypeOK, InOrder, MovesIfTaken
<1>4. HavePorts'
  BY DEF PortsTypeOK, InOrder, HavePorts
<1>5. Releases'
  BY DEF PortsTypeOK, InOrder, HavePorts, Releases
<1>. QED BY <1>1, <1>2, <1>3, <1>4, <1>5

\* The registration that follows leaves the port bound, whatever comes back.
LEMMA BinderPutsKeeps ==
  ASSUME PortsInv, NEW a \in Apps, BinderPuts(a)
  PROVE  PortsInv'
<1>. USE TwoApps, PortsAssumption DEF PortsInv, BinderPuts, Goes, PutPort, PutFails, Registered,
                                   bindVars, loopVars, endVars
<1>1. PortsTypeOK'
  BY DEF PortsTypeOK
<1>2. InOrder'
  BY DEF PortsTypeOK, InOrder
<1>3. MovesIfTaken'
  BY DEF PortsTypeOK, InOrder, MovesIfTaken
<1>4. HavePorts'
  BY DEF PortsTypeOK, InOrder, HavePorts
<1>5. Releases'
  BY DEF PortsTypeOK, InOrder, HavePorts, Releases
<1>. QED BY <1>1, <1>2, <1>3, <1>4, <1>5

\* Once close() has begun only a late loop reads the registry,
LEMMA LoopGetsKeeps ==
  ASSUME PortsInv, NEW a \in Apps, LoopGets(a)
  PROVE  PortsInv'
<1>. USE TwoApps, PortsAssumption DEF PortsInv, LoopGets, Running, GetPorts, Mine, bindVars, loopVars, endVars
<1>1. PortsTypeOK'
  BY DEF PortsTypeOK
<1>2. InOrder'
  BY DEF PortsTypeOK, InOrder
<1>3. MovesIfTaken'
  BY DEF PortsTypeOK, InOrder, MovesIfTaken
<1>4. HavePorts'
  BY DEF PortsTypeOK, InOrder, HavePorts
<1>5. Releases'
  BY DEF PortsTypeOK, InOrder, HavePorts, Releases
<1>. QED BY <1>1, <1>2, <1>3, <1>4, <1>5

\* Only a late loop writes then, and never an entry of the other listener.
LEMMA LoopPutsKeeps ==
  ASSUME PortsInv, NEW a \in Apps, LoopPuts(a)
  PROVE  PortsInv'
<1>. USE TwoApps, PortsAssumption DEF PortsInv, LoopPuts, Running, PutPort, PutFails, Registered,
                                   AfterFailure, bindVars, loopVars, endVars
<1>1. PortsTypeOK'
  BY DEF PortsTypeOK
<1>2. InOrder'
  BY DEF PortsTypeOK, InOrder
<1>3. MovesIfTaken'
  BY DEF PortsTypeOK, InOrder, MovesIfTaken
<1>4. HavePorts'
  BY DEF PortsTypeOK, InOrder, HavePorts
<1>5. Releases'
  <2>1. phase \in {"closing", "releasing"} =>
          stopped' /\ \A b \in Apps \ late : loop'[b] \notin {"get", "put"}
    BY DEF PortsTypeOK, Releases
  <2>2. ASSUME NEW b \in released \ late PROVE registry'[port[b]] # b
    <3>1. b # a /\ port[b] \in Ports /\ registry[port[b]] # b
      BY DEF PortsTypeOK, HavePorts, Releases
    <3>2. registry'[port[b]] \in {a, NoEntry, registry[port[b]]}
      BY <3>1
    <3>. QED BY <3>1, <3>2 DEF PortsTypeOK
  <2>. QED BY <2>1, <2>2 DEF Releases
<1>. QED BY <1>1, <1>2, <1>3, <1>4, <1>5

\* A loop that wakes up after stop() is over.
LEMMA WakesKeeps ==
  ASSUME PortsInv, NEW a \in Apps, Wakes(a)
  PROVE  PortsInv'
<1>. USE TwoApps, PortsAssumption DEF PortsInv, Wakes, Running, bindVars, loopVars, endVars
<1>1. PortsTypeOK'
  BY DEF PortsTypeOK
<1>2. InOrder'
  BY DEF PortsTypeOK, InOrder
<1>3. MovesIfTaken'
  BY DEF PortsTypeOK, InOrder, MovesIfTaken
<1>4. HavePorts'
  BY DEF PortsTypeOK, InOrder, HavePorts
<1>5. Releases'
  BY DEF PortsTypeOK, InOrder, HavePorts, Releases
<1>. QED BY <1>1, <1>2, <1>3, <1>4, <1>5

\* A release frees the port of one listener.
LEMMA ReleaseKeeps ==
  ASSUME PortsInv, NEW a \in Apps, Release(a)
  PROVE  PortsInv'
<1>. USE TwoApps, PortsAssumption DEF PortsInv, Release, Goes, bindVars, loopVars, endVars
<1>1. PortsTypeOK'
  BY DEF PortsTypeOK
<1>2. InOrder'
  BY DEF PortsTypeOK, InOrder
<1>3. MovesIfTaken'
  BY DEF PortsTypeOK, InOrder, MovesIfTaken
<1>4. HavePorts'
  BY DEF PortsTypeOK, InOrder, HavePorts
<1>5. Releases'
  BY DEF PortsTypeOK, InOrder, HavePorts, Releases
<1>. QED BY <1>1, <1>2, <1>3, <1>4, <1>5

\* Another program registers itself, not one of the listeners.
LEMMA OtherListensKeeps ==
  ASSUME PortsInv, NEW p \in Ports, OtherListens(p)
  PROVE  PortsInv'
<1>. USE TwoApps, PortsAssumption DEF PortsInv, OtherListens, bindVars, loopVars, endVars
<1>1. PortsTypeOK'
  BY DEF PortsTypeOK
<1>2. InOrder'
  BY DEF PortsTypeOK, InOrder
<1>3. MovesIfTaken'
  BY DEF PortsTypeOK, InOrder, MovesIfTaken
<1>4. HavePorts'
  BY DEF PortsTypeOK, InOrder, HavePorts
<1>5. Releases'
  BY DEF PortsTypeOK, InOrder, HavePorts, Releases
<1>. QED BY <1>1, <1>2, <1>3, <1>4, <1>5

\* Another program removes no entry but its own.
LEMMA OtherLeavesKeeps ==
  ASSUME PortsInv, NEW p \in Ports, OtherLeaves(p)
  PROVE  PortsInv'
<1>. USE TwoApps, PortsAssumption DEF PortsInv, OtherLeaves, bindVars, loopVars, endVars
<1>1. PortsTypeOK'
  BY DEF PortsTypeOK
<1>2. InOrder'
  BY DEF PortsTypeOK, InOrder
<1>3. MovesIfTaken'
  BY DEF PortsTypeOK, InOrder, MovesIfTaken
<1>4. HavePorts'
  BY DEF PortsTypeOK, InOrder, HavePorts
<1>5. Releases'
  BY DEF PortsTypeOK, InOrder, HavePorts, Releases
<1>. QED BY <1>1, <1>2, <1>3, <1>4, <1>5

\* Every step keeps it.
LEMMA PortsNextInv ==
  ASSUME PortsInv, [PortsNext]_portsVars
  PROVE  PortsInv'
<1>1. CASE UNCHANGED portsVars
  BY <1>1 DEF portsVars, bindVars, loopVars, endVars, PortsInv, PortsTypeOK, InOrder,
              MovesIfTaken, HavePorts, Releases
<1>2. CASE StartBroker \/ BindNext \/ BrokerStarted \/ CloseBegins \/ ListenersClosed
  BY <1>2, StartBrokerKeeps, BindNextKeeps, BrokerStartedKeeps, CloseBeginsKeeps, ListenersClosedKeeps
<1>3. CASE ReleasesOver \/ ProcessCrash
  BY <1>3, ProcessGoneKeeps DEF ReleasesOver, ProcessCrash
<1>4. ASSUME NEW a \in Apps,
             \/ BindPinned(a) \/ Ask(a) \/ Listen(a) \/ Claim(a) \/ Scan(a) \/ BindFails(a)
             \/ BinderGets(a) \/ BinderPuts(a)
      PROVE  PortsInv'
  BY <1>4, BindPinnedKeeps, AskKeeps, ListenKeeps, ClaimKeeps, ScanKeeps, ProcessGoneKeeps,
     BinderGetsKeeps, BinderPutsKeeps DEF BindFails
<1>5. ASSUME NEW a \in Apps, LoopGets(a) \/ LoopPuts(a) \/ Wakes(a) \/ Release(a)
      PROVE  PortsInv'
  BY <1>5, LoopGetsKeeps, LoopPutsKeeps, WakesKeeps, ReleaseKeeps
<1>6. ASSUME NEW p \in Ports, OtherListens(p) \/ OtherLeaves(p) PROVE PortsInv'
  BY <1>6, OtherListensKeeps, OtherLeavesKeeps
<1>. QED BY <1>1, <1>2, <1>3, <1>4, <1>5, <1>6 DEF PortsNext

\* The invariant of the ports holds at every moment.
THEOREM PortsInvariance == PortsSpec => []PortsInv
BY PortsInitInv, PortsNextInv, PTL DEF PortsSpec

\* Type correctness (the state of startBroker, ports.js and ports.json).
THEOREM PortsTyping == PortsSpec => []PortsTypeOK
<1>1. PortsInv => PortsTypeOK
  BY DEF PortsInv
<1>. QED BY <1>1, PortsInvariance, PTL

\* A listener that claims or scans for a port had none, or found it taken.
THEOREM KeepsSticky == PortsSpec => StickyKept
<1>1. ASSUME PortsInv, [PortsNext]_portsVars, NEW a \in Apps, port[a] = 0, port'[a] # 0, pin[a] = 0,
             sticky[a] \notin {0, port'[a]}
      PROVE  a \in turned'
  <2>. USE <1>1 DEF portsVars, bindVars, loopVars, endVars
  <2>1. PICK b \in Apps : BindPinned(b) \/ Listen(b) \/ Claim(b) \/ Scan(b)
    BY DEF PortsNext, StartBroker, BindNext, BrokerStarted, CloseBegins, ListenersClosed, ReleasesOver,
           ProcessCrash, ProcessGone, Idle, Ask, BindFails, BinderGets, BinderPuts, LoopGets, LoopPuts,
           Wakes, Release, OtherListens, OtherLeaves
  <2>2. b = a
    BY <2>1 DEF BindPinned, Listen, Claim, Scan, PortsInv, PortsTypeOK
  <2>3. ~BindPinned(a)
    BY DEF BindPinned
  <2>4. ~Listen(a)
    BY DEF Listen, PortsInv, PortsTypeOK
  <2>5. Claim(a) \/ Scan(a)
    BY <2>1, <2>2, <2>3, <2>4
  <2>6. step[a] \in {"claim", "scan"} /\ turned' = turned
    BY <2>5 DEF Claim, Scan
  <2>. QED BY <2>6 DEF PortsInv, MovesIfTaken
<1>2. ASSUME PortsInv, [PortsNext]_portsVars
      PROVE  \A a \in Apps : port[a] = 0 /\ port'[a] # 0 /\ pin[a] = 0 /\ sticky[a] \notin {0, port'[a]} =>
                             a \in turned'
  BY <1>1, <1>2
<1>. QED BY <1>2, PortsInvariance, PTL DEF PortsSpec, StickyKept

\* What a shutdown released, and no late registration put back, is free.
THEOREM StaysReleased == PortsSpec => ReleasedForGood
<1>1. PortsInv => \A a \in released \ late : registry[port[a]] # a
  BY DEF PortsInv, Releases
<1>. QED BY <1>1, PortsInvariance, PTL DEF PortsSpec, ReleasedForGood
=============================================================================
