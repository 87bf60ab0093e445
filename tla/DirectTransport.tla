-------------------------- MODULE DirectTransport --------------------------
(***************************************************************************)
(* The direct connections to one peer environment: DirectMqttTransport of  *)
(* src/vortex-relay/directTransport.js, and attachDirectTransport,         *)
(* detachDirectTransport and attachLanDiscovery of bridge.js, driven by    *)
(* the peer-up and peer-down events of LanDiscovery (lanDiscovery.js).     *)
(* Every call suspends at its awaits, and the others go on meanwhile.      *)
(***************************************************************************)
EXTENDS FiniteSets

CONSTANTS
  Transports,   (* the DirectMqttTransports made, one for each onUp event  *)
  Clients,      (* VortexiaClient objects; one that is done can serve again *)
  None

ASSUME NoneAssumption ==
  /\ None \notin Transports \cup Clients
  /\ {"new", "done"} \cap Transports = {}

VARIABLES
  attached,     (* _directTransports.get(peer)                             *)
  attaching,    (* attachDirectTransport(t): "new" before it is called,    *)
                (* the transport it waits to see detached, or "done"       *)
  connected,    (* this.connected                                          *)
  deliberate,   (* this._deliberatelyClosed                                *)
  timer,        (* this._reconnectTimer is set                             *)
  client,       (* this.client                                             *)
  closing,      (* the client whose close() a disconnect() awaits          *)
  phase,        (* of a client: "idle", "registering" or "up"              *)
  owner,        (* the transport whose connect() made a client             *)
  retry,        (* clients made by the timer, not by attachDirectTransport *)
  watched,      (* clients whose 'close' event has a listener              *)
  ended,        (* clients on which close() has run to its end             *)
  reachable,    (* the peer's broker accepts connections                   *)
  left          (* history: disconnect() was called while an attempt was   *)
                (* under way ("busy"), or was not ("quiet"), or never      *)

transportVars == <<connected, deliberate, timer, client, closing>>
clientVars    == <<phase, owner, retry, watched, ended>>
vars == <<attached, attaching, transportVars, clientVars, reachable, left>>

Attempts(t) == {c \in Clients : phase[c] = "registering" /\ owner[c] = t}

\* A client object that nothing refers to any more stands for a new one.
Fresh(c) == phase[c] = "idle" /\ \A t \in Transports : c \notin {client[t], closing[t]}

Closed(c) == c \in ended \/ \E t \in Transports : closing[t] = c

-----------------------------------------------------------------------------
(* DirectMqttTransport *)

\* Mutant of Connect: it does not look whether it is connected already.
ConnectAnyway(t, byTimer) ==
  /\ deliberate' = [deliberate EXCEPT ![t] = FALSE]
  /\ \E c \in Clients :
       /\ Fresh(c)
       /\ client' = [client EXCEPT ![t] = c]
       /\ phase'  = [phase EXCEPT ![c] = "registering"]
       /\ owner'  = [owner EXCEPT ![c] = t]
       /\ retry'  = IF byTimer THEN retry \cup {c} ELSE retry \ {c}
       /\ ended'  = ended \ {c}
  /\ UNCHANGED watched

\* connect(), up to the await of register().
Connect(t, byTimer) ==
  \/ /\ connected[t]
     /\ UNCHANGED <<deliberate, client, clientVars>>
  \/ /\ ~connected[t]
     /\ deliberate' = [deliberate EXCEPT ![t] = FALSE]
     /\ \E c \in Clients :
          /\ Fresh(c)
          /\ client' = [client EXCEPT ![t] = c]
          /\ phase'  = [phase EXCEPT ![c] = "registering"]
          /\ owner'  = [owner EXCEPT ![c] = t]
          /\ retry'  = IF byTimer THEN retry \cup {c} ELSE retry \ {c}
          /\ ended'  = ended \ {c}
     /\ UNCHANGED watched

\* Mutant of Registered: the 'close' event is listened to by retries only.
RegisteredUnwatched(c) ==
  /\ phase[c] = "registering" /\ c \notin ended /\ reachable
  /\ LET t == owner[c]
     IN  /\ connected' = [connected EXCEPT ![t] = TRUE]
         /\ \/ client[t] # None /\ watched' = (IF c \in retry THEN watched \cup {client[t]} ELSE watched) /\ UNCHANGED timer
            \/ client[t] = None /\ timer' = [timer EXCEPT ![t] = @ \/ c \in retry] /\ UNCHANGED watched
  /\ phase' = [phase EXCEPT ![c] = "up"]
  /\ UNCHANGED <<attached, attaching, deliberate, client, closing, owner, retry, ended, reachable, left>>

\* register() resolves: connected is set, then the listener is put on
\* this.client.  Where a disconnect() has cleared this.client meanwhile that
\* throws, and the timer's connect() is tried again.
Registered(c) ==
  /\ phase[c] = "registering" /\ c \notin ended /\ reachable
  /\ LET t == owner[c]
     IN  /\ connected' = [connected EXCEPT ![t] = TRUE]
         /\ \/ client[t] # None /\ watched' = watched \cup {client[t]} /\ UNCHANGED timer
            \/ client[t] = None /\ timer' = [timer EXCEPT ![t] = @ \/ c \in retry] /\ UNCHANGED watched
  /\ phase' = [phase EXCEPT ![c] = "up"]
  /\ UNCHANGED <<attached, attaching, deliberate, client, closing, owner, retry, ended, reachable, left>>

\* Mutant of RegisterFails: the timer's connect() is not tried again.
RegisterFailsForGood(c) ==
  /\ phase[c] = "registering" /\ (Closed(c) \/ ~reachable)
  /\ phase' = [phase EXCEPT ![c] = "idle"]
  /\ UNCHANGED <<attached, attaching, transportVars, owner, retry, watched, ended, reachable, left>>

\* register() rejects.  Only what the timer began is tried again.
RegisterFails(c) ==
  /\ phase[c] = "registering" /\ (Closed(c) \/ ~reachable)
  /\ phase' = [phase EXCEPT ![c] = "idle"]
  /\ timer' = [timer EXCEPT ![owner[c]] = @ \/ c \in retry]
  /\ UNCHANGED <<attached, attaching, connected, deliberate, client, closing,
                 owner, retry, watched, ended, reachable, left>>

\* The connection of c ends, by close() or on its own; then its 'close' event.
Dropped(c) ==
  /\ phase[c] = "up"
  /\ phase' = [phase EXCEPT ![c] = "idle"]
  /\ watched' = watched \ {c}
  /\ IF c \in watched
     THEN /\ connected' = [connected EXCEPT ![owner[c]] = FALSE]
          /\ timer' = [timer EXCEPT ![owner[c]] = @ \/ ~deliberate[owner[c]]]
     ELSE UNCHANGED <<connected, timer>>
  /\ UNCHANGED <<attached, attaching, deliberate, client, closing, owner, retry, ended, reachable, left>>

TimerFires(t) ==
  /\ timer[t]
  /\ timer' = [timer EXCEPT ![t] = FALSE]
  /\ Connect(t, TRUE)
  /\ UNCHANGED <<attached, attaching, connected, closing, reachable, left>>

\* Mutant of Disconnect: the timer of a reconnection stays set.
DisconnectKeepsTimer(t) ==
  /\ deliberate' = [deliberate EXCEPT ![t] = TRUE]
  /\ closing'    = [closing EXCEPT ![t] = client[t]]
  /\ left'       = [left EXCEPT ![t] = IF Attempts(t) = {} THEN "quiet" ELSE "busy"]
  /\ UNCHANGED <<timer, connected, client>>

\* disconnect(), up to the await of close().
Disconnect(t) ==
  /\ deliberate' = [deliberate EXCEPT ![t] = TRUE]
  /\ timer'      = [timer EXCEPT ![t] = FALSE]
  /\ closing'    = [closing EXCEPT ![t] = client[t]]
  /\ left'       = [left EXCEPT ![t] = IF Attempts(t) = {} THEN "quiet" ELSE "busy"]
  /\ UNCHANGED <<connected, client>>

\* close() has returned, its connection gone or given up: whatever client
\* the transport has by now is forgotten.
Disconnected(t) ==
  /\ closing[t] # None
  /\ ended'     = ended \cup {closing[t]}
  /\ closing'   = [closing EXCEPT ![t] = None]
  /\ connected' = [connected EXCEPT ![t] = FALSE]
  /\ client'    = [client EXCEPT ![t] = None]
  /\ UNCHANGED <<attached, attaching, deliberate, timer, phase, owner, retry, watched, reachable, left>>

-----------------------------------------------------------------------------
(* The bridge *)

\* onUp: a new transport.  The one in the map is removed and disconnected
\* first; if there is none, t enters the map at once.
OnUp(t) ==
  /\ attaching[t] = "new"
  /\ \/ /\ attached # None
        /\ attached'  = None
        /\ attaching' = [attaching EXCEPT ![t] = attached]
        /\ Disconnect(attached)
        /\ UNCHANGED clientVars
     \/ /\ attached = None
        /\ attached'  = t
        /\ attaching' = [attaching EXCEPT ![t] = "done"]
        /\ Connect(t, FALSE)
        /\ UNCHANGED <<connected, timer, closing, left>>
  /\ UNCHANGED reachable

\* The transport found in the map is disconnected: t takes its place, and
\* that of any other that has entered the map meanwhile.
AttachGoesOn(t) ==
  /\ attaching[t] \in Transports
  /\ closing[attaching[t]] = None
  /\ attached'  = t
  /\ attaching' = [attaching EXCEPT ![t] = "done"]
  /\ Connect(t, FALSE)
  /\ UNCHANGED <<connected, timer, closing, reachable, left>>

\* onDown: detachDirectTransport.
OnDown ==
  /\ attached # None
  /\ attached' = None
  /\ Disconnect(attached)
  /\ UNCHANGED <<attaching, clientVars, reachable>>

PeerChanges ==
  /\ reachable' = ~reachable
  /\ UNCHANGED <<attached, attaching, transportVars, clientVars, left>>

-----------------------------------------------------------------------------
Init ==
  /\ attached = None
  /\ attaching = [t \in Transports |-> "new"]
  /\ connected = [t \in Transports |-> FALSE]
  /\ deliberate = [t \in Transports |-> FALSE]
  /\ timer = [t \in Transports |-> FALSE]
  /\ client = [t \in Transports |-> None] /\ closing = [t \in Transports |-> None]
  /\ phase = [c \in Clients |-> "idle"]
  /\ owner = [c \in Clients |-> None]
  /\ retry = {} /\ watched = {} /\ ended = {}
  /\ reachable \in BOOLEAN
  /\ left = [t \in Transports |-> "never"]

Next ==
  \/ \E t \in Transports : OnUp(t) \/ AttachGoesOn(t) \/ TimerFires(t) \/ Disconnected(t)
  \/ \E c \in Clients : Registered(c) \/ RegisterFails(c) \/ Dropped(c)
  \/ OnDown \/ PeerChanges

Spec == Init /\ [][Next]_vars

(* Timers fire, and a broker that accepts connections answers: a register  *)
(* or a close under way comes to an end.                                   *)
Fairness ==
  /\ \A t \in Transports : WF_vars(TimerFires(t)) /\ WF_vars(Disconnected(t)) /\ WF_vars(AttachGoesOn(t))
  /\ \A c \in Clients : WF_vars(Registered(c) \/ RegisterFails(c))

FairSpec == Spec /\ Fairness
-----------------------------------------------------------------------------
TypeOK ==
  /\ attached \in Transports \cup {None}
  /\ attaching \in [Transports -> Transports \cup {"new", "done"}]
  /\ connected \in [Transports -> BOOLEAN] /\ deliberate \in [Transports -> BOOLEAN]
  /\ timer \in [Transports -> BOOLEAN]
  /\ client \in [Transports -> Clients \cup {None}]
  /\ closing \in [Transports -> Clients \cup {None}]
  /\ phase \in [Clients -> {"idle", "registering", "up"}]
  /\ owner \in [Clients -> Transports \cup {None}]
  /\ retry \subseteq Clients /\ watched \subseteq Clients /\ ended \subseteq Clients
  /\ reachable \in BOOLEAN
  /\ left \in [Transports -> {"never", "quiet", "busy"}]

(* The transport that deliveries are sent over never looks connected when  *)
(* its connection is gone or its end would go unnoticed ("a dropped        *)
(* connection must stop looking connected", directTransport.js:70-73).     *)
AttachedIsWatched ==
  \A t \in Transports :
    attached = t /\ connected[t] =>
      client[t] # None /\ phase[client[t]] = "up" /\ client[t] \in watched

(* However timers, failed attempts and closes interleave, a transport      *)
(* never has two connections, or two attempts, at a time.                  *)
Links(t) == {c \in Clients : phase[c] # "idle" /\ owner[c] = t /\ c \notin ended}
OneLink == \A t \in Transports : \A c, d \in Links(t) : c = d

(* A transport that was not connecting when the peer left is silent for    *)
(* good: no timer, no attempt (directTransport.js:51-54).                  *)
QuietTeardownIsFinal ==
  \A t \in Transports : left[t] = "quiet" => ~timer[t] /\ Attempts(t) = {}

(* "Self-heal": an attached transport that has been connected is connected *)
(* again and again while its peer can be reached.                          *)
SelfHeals ==
  \A t \in Transports :
    <>[](attached = t /\ reachable) /\ <>(connected[t]) => []<>(connected[t])
=============================================================================
