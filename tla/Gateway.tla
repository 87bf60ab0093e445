------------------------------ MODULE Gateway ------------------------------
(***************************************************************************)
(* The process that `vortexia start` runs (src/index.js): the broker with  *)
(* the mailbox of the vortex-relay gateway, the gateway's connection to    *)
(* it, kept up by reconnectGateway, the bridge that listens on it, and     *)
(* shutdown, which a second signal or a five-second deadline can overtake. *)
(***************************************************************************)
EXTENDS Naturals, FiniteSets

CONSTANTS
  Messages,     (* what agents publish to the gateway's inbox              *)
  Signals,      (* SIGINT and SIGTERM that one process may get             *)
  NoSignal,
  MaxStarts     (* bound of the processes started                          *)

ASSUME GatewayAssumption == NoSignal \notin Signals /\ MaxStarts \in Nat

VARIABLES
  proc,         (* "off", "starting" (no signal handlers yet) or "running" *)
  starts,       (* processes started                                       *)
  bridge,       (* "none", "attached" to the gateway, or its start "failed" *)
  link,         (* the gateway's connection: "off", "connecting" or "open" *)
  timers,       (* reconnection timers armed                               *)
  stopping,     (* gatewayStopping                                         *)
  shutdown,     (* where each shutdown call is                             *)
  closer,       (* the call that runs the body of close()                  *)
  broker,       (* "up", "closed" (takes no connection), or "flushed"      *)
  mail,         (* the gateway's mailbox in memory                         *)
  disk,         (* the gateway's mailbox in the snapshot                   *)
  forwarding,   (* messages acknowledged, their delivery awaited           *)
  published,    (* history: messages published                             *)
  handled,      (* history: messages the bridge was given                  *)
  wasted,       (* history: messages acknowledged that nobody listened to  *)
  exit          (* history: how the last process ended                     *)

linkVars == <<link, timers, stopping>>
stopVars == <<shutdown, closer, broker>>
mailVars == <<mail, disk, forwarding, published, handled, wasted>>
vars == <<proc, starts, bridge, linkVars, stopVars, mailVars, exit>>

-----------------------------------------------------------------------------
(* Starting *)

\* cmdStart: the broker restores its snapshot, the gateway registers.
Start ==
  /\ proc = "off" /\ starts < MaxStarts
  /\ proc' = "starting" /\ starts' = starts + 1
  /\ bridge' = "none" /\ link' = "connecting" /\ timers' = 0 /\ stopping' = FALSE
  /\ shutdown' = [s \in Signals |-> "none"] /\ closer' = NoSignal /\ broker' = "up"
  /\ mail' = disk
  /\ UNCHANGED <<disk, forwarding, published, handled, wasted, exit>>

\* register() has resolved: the bridge listens from now on.
Attach ==
  /\ proc = "starting" /\ bridge = "none" /\ link = "open"
  /\ bridge' = "attached"
  /\ UNCHANGED <<proc, starts, linkVars, stopVars, mailVars, exit>>

\* register() has rejected: the process goes on without a gateway.
StartFails ==
  /\ proc = "starting" /\ bridge = "none"
  /\ bridge' = "failed" /\ link' = "off"
  /\ UNCHANGED <<proc, starts, timers, stopping, stopVars, mailVars, exit>>

\* cmdStart is done: SIGINT and SIGTERM are handled from now on.
Started ==
  /\ proc = "starting" /\ bridge # "none"
  /\ proc' = "running"
  /\ UNCHANGED <<starts, bridge, linkVars, stopVars, mailVars, exit>>

-----------------------------------------------------------------------------
(* The gateway's connection *)

\* Mutant of ReconnectGateway: one more attempt, pending or not.
ReconnectAnyway(n) == IF stopping THEN n ELSE n + 1

\* The timers armed after a call of reconnectGateway, if n were before.
ReconnectGateway(n) == IF stopping \/ n > 0 THEN n ELSE n + 1

TimerFires ==
  /\ timers > 0
  /\ timers' = timers - 1
  /\ link' = "connecting"
  /\ UNCHANGED <<proc, starts, bridge, stopping, stopVars, mailVars, exit>>

\* CONNACK: the mailbox's backlog flows.
Connected ==
  /\ link = "connecting" /\ broker = "up"
  /\ link' = "open"
  /\ UNCHANGED <<proc, starts, bridge, timers, stopping, stopVars, mailVars, exit>>

\* Mutant of ConnectFails: the gateway gives up after a failed attempt.
ConnectFailsForGood ==
  /\ link = "connecting" /\ bridge = "attached"
  /\ link' = "off"
  /\ UNCHANGED <<proc, starts, bridge, timers, stopping, stopVars, mailVars, exit>>

\* A failed connect both rejects and emits 'close'.
ConnectFails ==
  /\ link = "connecting" /\ bridge = "attached"
  /\ link' = "off"
  /\ timers' = ReconnectGateway(ReconnectGateway(timers))
  /\ UNCHANGED <<proc, starts, bridge, stopping, stopVars, mailVars, exit>>

Dropped ==
  /\ link = "open" /\ bridge = "attached"
  /\ link' = "off"
  /\ timers' = ReconnectGateway(timers)
  /\ UNCHANGED <<proc, starts, bridge, stopping, stopVars, mailVars, exit>>

-----------------------------------------------------------------------------
(* Messages *)

Publish(m) ==
  /\ proc # "off" /\ broker = "up" /\ m \notin published
  /\ published' = published \cup {m}
  /\ mail' = mail \cup {m}
  /\ UNCHANGED <<proc, starts, bridge, linkVars, stopVars, disk, forwarding, handled, wasted, exit>>

\* The gateway gets m and acknowledges it, whether or not the bridge listens.
Deliver(m) ==
  /\ link = "open" /\ broker = "up" /\ m \in mail
  /\ mail' = mail \ {m}
  /\ \/ /\ bridge = "attached"
        /\ handled' = handled \cup {m} /\ forwarding' = forwarding \cup {m}
        /\ UNCHANGED wasted
     \/ /\ bridge # "attached"
        /\ wasted' = wasted \cup {m}
        /\ UNCHANGED <<handled, forwarding>>
  /\ UNCHANGED <<proc, starts, bridge, linkVars, stopVars, disk, published, exit>>

\* _onLocalMessage is through with m.
Forwarded(m) ==
  /\ m \in forwarding
  /\ forwarding' = forwarding \ {m}
  /\ UNCHANGED <<proc, starts, bridge, linkVars, stopVars, mail, disk, published, handled, wasted, exit>>

\* The store's own timer, while the process runs.
Snapshot ==
  /\ proc # "off"
  /\ disk' = mail
  /\ UNCHANGED <<proc, starts, bridge, linkVars, stopVars, mail, forwarding, published, handled, wasted, exit>>

-----------------------------------------------------------------------------
(* Stopping *)

\* The process is gone, and with it all but the snapshot.
Gone(how) ==
  /\ proc' = "off" /\ exit' = how
  /\ link' = "off" /\ timers' = 0
  /\ shutdown' = [s \in Signals |-> "none"]
  /\ mail' = {} /\ forwarding' = {}
  /\ UNCHANGED <<starts, bridge, stopping, closer, broker, disk, published, handled, wasted>>

\* close(): its body runs once, later calls return at once.
Close(s) ==
  /\ closer = NoSignal
  /\ closer' = s
  /\ shutdown' = [shutdown EXCEPT ![s] = "broker"]

\* Mutant of Signal: the reconnection timer stays armed.
SignalKeepsTimer(s) ==
  /\ proc = "running" /\ shutdown[s] = "none"
  /\ \/ /\ bridge = "attached"
        /\ stopping' = TRUE
        /\ shutdown' = [shutdown EXCEPT ![s] = "gateway"]
        /\ UNCHANGED <<proc, starts, bridge, link, timers, closer, broker, mailVars, exit>>
     \/ /\ bridge # "attached" /\ Close(s)
        /\ UNCHANGED <<proc, starts, bridge, linkVars, broker, mailVars, exit>>
     \/ bridge # "attached" /\ closer # NoSignal /\ Gone("hurried")

\* shutdown(): the gateway first, if there is one.
Signal(s) ==
  /\ proc = "running" /\ shutdown[s] = "none"
  /\ \/ /\ bridge = "attached"
        /\ stopping' = TRUE /\ timers' = 0
        /\ shutdown' = [shutdown EXCEPT ![s] = "gateway"]
        /\ UNCHANGED <<proc, starts, bridge, link, closer, broker, mailVars, exit>>
     \/ /\ bridge # "attached" /\ Close(s)
        /\ UNCHANGED <<proc, starts, bridge, linkVars, broker, mailVars, exit>>
     \/ bridge # "attached" /\ closer # NoSignal /\ Gone("hurried")

\* gateway.close() has returned.
GatewayStopped(s) ==
  /\ shutdown[s] = "gateway"
  /\ \/ /\ Close(s)
        /\ link' = "off"
        /\ UNCHANGED <<proc, starts, bridge, timers, stopping, broker, mailVars, exit>>
     \/ closer # NoSignal /\ Gone("hurried")

\* Mutant of CloseBroker: what is not in the snapshot yet is left to its timer.
CloseUnflushed(s) ==
  /\ shutdown[s] = "broker"
  /\ \/ broker = "up" /\ broker' = "closed" /\ link' = "off"
     \/ broker = "closed" /\ broker' = "flushed" /\ UNCHANGED link
  /\ UNCHANGED <<proc, starts, bridge, timers, stopping, shutdown, closer, mailVars, exit>>

\* close(): connections and listeners first, then the snapshot.
CloseBroker(s) ==
  /\ shutdown[s] = "broker"
  /\ \/ broker = "up" /\ broker' = "closed" /\ link' = "off" /\ UNCHANGED disk
     \/ broker = "closed" /\ broker' = "flushed" /\ disk' = mail /\ UNCHANGED link
  /\ UNCHANGED <<proc, starts, bridge, timers, stopping, shutdown, closer,
                 mail, forwarding, published, handled, wasted, exit>>

\* The ports are released; exit(0).
Stopped(s) ==
  /\ shutdown[s] = "broker" /\ broker = "flushed"
  /\ Gone("clean")

\* Five seconds after a signal.
Deadline ==
  /\ proc # "off" /\ \E s \in Signals : shutdown[s] # "none"
  /\ Gone("hurried")

\* An uncaught exception, or a signal that nothing handles.
Crash ==
  /\ proc # "off"
  /\ Gone("crash")

-----------------------------------------------------------------------------
Init ==
  /\ proc = "off" /\ starts = 0 /\ bridge = "none"
  /\ link = "off" /\ timers = 0 /\ stopping = FALSE
  /\ shutdown = [s \in Signals |-> "none"] /\ closer = NoSignal /\ broker = "up"
  /\ mail = {} /\ disk = {} /\ forwarding = {}
  /\ published = {} /\ handled = {} /\ wasted = {}
  /\ exit = "none"

Next ==
  \/ Start \/ Attach \/ StartFails \/ Started
  \/ TimerFires \/ Connected \/ ConnectFails \/ Dropped
  \/ \E m \in Messages : Publish(m) \/ Deliver(m) \/ Forwarded(m)
  \/ \E s \in Signals : Signal(s) \/ GatewayStopped(s) \/ CloseBroker(s) \/ Stopped(s)
  \/ Snapshot \/ Deadline \/ Crash

Spec == Init /\ [][Next]_vars

(* Timers fire, the broker of the same process does not refuse every       *)
(* connection, and writes what is queued to the one that is open.          *)
Fairness ==
  /\ WF_vars(TimerFires) /\ WF_vars(ConnectFails \/ Connected) /\ SF_vars(Connected)
  /\ \A m \in Messages : SF_vars(Deliver(m))

FairSpec == Spec /\ Fairness
-----------------------------------------------------------------------------
TypeOK ==
  /\ proc \in {"off", "starting", "running"} /\ starts \in 0 .. MaxStarts
  /\ bridge \in {"none", "attached", "failed"}
  /\ link \in {"off", "connecting", "open"} /\ timers \in Nat /\ stopping \in BOOLEAN
  /\ shutdown \in [Signals -> {"none", "gateway", "broker"}]
  /\ closer \in Signals \cup {NoSignal} /\ broker \in {"up", "closed", "flushed"}
  /\ mail \subseteq Messages /\ disk \subseteq Messages /\ forwarding \subseteq Messages
  /\ published \subseteq Messages /\ handled \subseteq Messages /\ wasted \subseteq Messages
  /\ exit \in {"none", "clean", "hurried", "crash"}

(* A gateway that is not being stopped is connected, connecting, or has    *)
(* exactly one attempt pending: never dead "until the next restart", never *)
(* two connections that take the session over from each other              *)
(* (index.js:140-152).                                                     *)
Ways == timers + (IF link = "off" THEN 0 ELSE 1)
OneWayBack == proc # "off" /\ bridge = "attached" /\ ~stopping => Ways = 1

(* Once stopGateway has returned the gateway is never connected again, be  *)
(* it that a timer was armed or an attempt under way (index.js:172).       *)
StoppedForGood ==
  proc # "off" /\ bridge = "attached" /\ closer # NoSignal => Ways = 0

(* A shutdown that comes to its end leaves on disk what was in the mailbox *)
(* then: nothing is lost, nothing handled is handed again (broker.js:235). *)
CleanStopKeepsMail ==
  [][proc # "off" /\ proc' = "off" /\ exit' = "clean" => disk = mail]_vars

(* While the process runs on, what agents queue for the gateway reaches    *)
(* it, whatever connections are lost meanwhile.                            *)
MailIsTaken ==
  <>[](proc = "running" /\ bridge = "attached" /\ ~stopping) =>
     \A m \in Messages : [](m \in mail => <>(m \notin mail))

(* index.js:134-137: an intent published before the gateway was up "is     *)
(* queued and handled, not dropped".                                       *)
NothingWasted == wasted = {}
=============================================================================
