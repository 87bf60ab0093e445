----------------------- MODULE DirectTransportProofs -----------------------
(* Theorems about the direct connections to a peer, for every set of       *)
(* transports and of clients.                                              *)
EXTENDS DirectTransport, TLAPS

Busy(c) == phase[c] # "idle"

(***************************************************************************)
(* The invariant.  What keeps a transport to one connection: a timer is    *)
(* set only of one that has no client, or that is taken to be connected.   *)
(***************************************************************************)
OneClient ==
  /\ \A c \in Clients : Busy(c) => owner[c] \in Transports
  /\ \A c, d \in Clients : Busy(c) /\ Busy(d) /\ owner[c] = owner[d] => c = d
  /\ \A c \in Clients : phase[c] = "registering" => ~connected[owner[c]]
  /\ \A t \in Transports : timer[t] /\ ~connected[t] => \A c \in Clients : Busy(c) => owner[c] # t

ClosingOne ==
  \A t \in Transports : closing[t] # None => client[t] # None /\ ~(timer[t] /\ connected[t])

\* A transport that has not been connected yet is as its constructor left it.
Untouched ==
  \A t \in Transports : attaching[t] # "done" =>
    /\ attached # t /\ ~timer[t] /\ ~connected[t] /\ client[t] = None /\ closing[t] = None
    /\ left[t] = "never"
    /\ \A c \in Clients : Busy(c) => owner[c] # t

ClientOwner == \A t \in Transports : client[t] # None => owner[client[t]] = t

\* Until disconnect() is called, this.client is the one connection, and
\* connected tells the truth about it.
Truthful ==
  \A t \in Transports : left[t] = "never" =>
    /\ closing[t] = None
    /\ \A c \in Clients : Busy(c) /\ owner[c] = t => client[t] = c
    /\ connected[t] => client[t] # None /\ phase[client[t]] = "up" /\ client[t] \in watched

NeverLeft == \A t \in Transports : attached = t => left[t] = "never"

Silent == \A t \in Transports : left[t] = "quiet" => deliberate[t] /\ ~timer[t] /\ Attempts(t) = {}

Inv ==
  /\ TypeOK /\ OneClient /\ ClosingOne /\ Untouched /\ ClientOwner /\ Truthful
  /\ NeverLeft /\ Silent

-----------------------------------------------------------------------------
\* Everything holds at first.
LEMMA InitInv == Init => Inv
<1>. SUFFICES ASSUME Init PROVE Inv
  OBVIOUS
<1>1. TypeOK
  BY DEF Init, TypeOK
<1>2. OneClient /\ ClosingOne /\ Untouched /\ ClientOwner /\ Truthful
  BY NoneAssumption DEF Init, OneClient, ClosingOne, Untouched, ClientOwner, Truthful, Busy
<1>3. NeverLeft /\ Silent
  BY NoneAssumption DEF Init, NeverLeft, Silent, Attempts
<1>. QED BY <1>1, <1>2, <1>3 DEF Inv

\* connect() keeps everything, of a transport without a client if it is not
\* connected, whether or not it enters the map in the same step.
LEMMA ConnectKeeps ==
  ASSUME Inv, NEW t \in Transports, NEW byTimer \in BOOLEAN, Connect(t, byTimer),
         ~connected[t] => \A c \in Clients : Busy(c) => owner[c] # t,
         timer' = [timer EXCEPT ![t] = FALSE], left[t] = "quiet" => connected[t],
         UNCHANGED <<connected, closing, left, reachable>>,
         \/ UNCHANGED <<attached, attaching>>
         \/ attached' = t /\ attaching' = [attaching EXCEPT ![t] = "done"] /\ left[t] = "never",
         attaching'[t] = "done"
  PROVE  Inv'
<1>. USE DEF Inv
<1>1. TypeOK'
  <2>1. /\ client' \in [Transports -> Clients \cup {None}]
        /\ deliberate' \in [Transports -> BOOLEAN]
        /\ phase' \in [Clients -> {"idle", "registering", "up"}]
        /\ owner' \in [Clients -> Transports \cup {None}]
    <3>1. CASE connected[t]
      BY <3>1 DEF TypeOK, Connect, clientVars
    <3>2. CASE ~connected[t]
      <4>1. PICK c \in Clients :
              /\ client' = [client EXCEPT ![t] = c]
              /\ phase' = [phase EXCEPT ![c] = "registering"]
              /\ owner' = [owner EXCEPT ![c] = t]
        BY <3>2 DEF Connect
      <4>2. deliberate' = [deliberate EXCEPT ![t] = FALSE]
        BY <3>2 DEF Connect
      <4>. QED BY <4>1, <4>2 DEF TypeOK
    <3>. QED BY <3>1, <3>2
  <2>2. retry' \subseteq Clients /\ watched' \subseteq Clients /\ ended' \subseteq Clients
    BY DEF TypeOK, Connect, clientVars
  <2>3. /\ attached' \in Transports \cup {None}
        /\ attaching' \in [Transports -> Transports \cup {"new", "done"}]
        /\ timer' \in [Transports -> BOOLEAN]
    BY DEF TypeOK
  <2>. QED BY <2>1, <2>2, <2>3 DEF TypeOK
<1>2. CASE connected[t]
  <2>1. UNCHANGED <<deliberate, client, clientVars>>
    BY <1>2 DEF Connect
  <2>. USE <2>1, <1>2 DEF TypeOK, clientVars, Busy
  <2>2. OneClient'
    BY NoneAssumption DEF OneClient
  <2>3. ClosingOne'
    BY NoneAssumption DEF ClosingOne
  <2>4. Untouched'
    BY NoneAssumption DEF Untouched
  <2>5. ClientOwner'
    BY NoneAssumption DEF ClientOwner
  <2>6. Truthful'
    BY NoneAssumption DEF Truthful
  <2>7. NeverLeft'
    BY NoneAssumption DEF NeverLeft
  <2>8. Silent'
    BY NoneAssumption DEF Silent, Attempts
  <2>. QED BY <1>1, <2>2, <2>3, <2>4, <2>5, <2>6, <2>7, <2>8
<1>3. CASE ~connected[t]
  <2>1. PICK c \in Clients :
          /\ Fresh(c) /\ client' = [client EXCEPT ![t] = c]
          /\ phase' = [phase EXCEPT ![c] = "registering"]
          /\ owner' = [owner EXCEPT ![c] = t]
          /\ UNCHANGED watched
    BY <1>3 DEF Connect
  <2>2. deliberate' = [deliberate EXCEPT ![t] = FALSE]
    BY <1>3 DEF Connect
  <2>. USE <2>1, <2>2, <1>3 DEF TypeOK, Busy, Fresh
  <2>3. OneClient'
    BY NoneAssumption DEF OneClient
  <2>4. ClosingOne'
    BY NoneAssumption DEF ClosingOne
  <2>5. Untouched'
    BY NoneAssumption DEF Untouched
  <2>6. ClientOwner'
    BY NoneAssumption DEF ClientOwner
  <2>7. Truthful'
    BY NoneAssumption DEF Truthful
  <2>8. NeverLeft'
    BY NoneAssumption DEF NeverLeft
  <2>9. Silent'
    BY NoneAssumption DEF Silent, Attempts
  <2>. QED BY <1>1, <2>3, <2>4, <2>5, <2>6, <2>7, <2>8, <2>9
<1>. QED BY <1>2, <1>3

\* register() resolves: the one client of its transport is up.
LEMMA RegisteredKeeps ==
  ASSUME Inv, NEW c \in Clients, Registered(c)
  PROVE  Inv'
<1>. USE DEF Inv, Registered, Busy
<1>1. TypeOK'
  <2>1. owner[c] \in Transports
    BY DEF OneClient
  <2>2. timer' \in [Transports -> BOOLEAN] /\ watched' \subseteq Clients
    BY <2>1, Zenon DEF TypeOK
  <2>. QED BY <2>1, <2>2 DEF TypeOK
<1>2. OneClient'
  BY NoneAssumption DEF TypeOK, OneClient
<1>3. ClosingOne'
  BY NoneAssumption DEF TypeOK, ClosingOne, OneClient
<1>4. Untouched'
  BY NoneAssumption DEF TypeOK, Untouched, OneClient
<1>5. ClientOwner'
  BY NoneAssumption DEF TypeOK, ClientOwner, OneClient
<1>6. Truthful'
  BY NoneAssumption DEF TypeOK, Truthful, OneClient
<1>7. NeverLeft'
  BY NoneAssumption DEF TypeOK, NeverLeft, OneClient
<1>8. Silent'
  BY NoneAssumption DEF TypeOK, Silent, Attempts, OneClient
<1>. QED BY <1>1, <1>2, <1>3, <1>4, <1>5, <1>6, <1>7, <1>8

\* register() rejects: its transport has no client that is connected.
LEMMA RegisterFailsKeeps ==
  ASSUME Inv, NEW c \in Clients, RegisterFails(c)
  PROVE  Inv'
<1>. USE DEF Inv, RegisterFails, Busy
<1>1. TypeOK'
  BY NoneAssumption DEF TypeOK, OneClient
<1>2. OneClient'
  BY NoneAssumption DEF TypeOK, OneClient
<1>3. ClosingOne'
  BY NoneAssumption DEF TypeOK, ClosingOne, OneClient
<1>4. Untouched'
  BY NoneAssumption DEF TypeOK, Untouched, OneClient
<1>5. ClientOwner'
  BY NoneAssumption DEF TypeOK, ClientOwner, OneClient
<1>6. Truthful'
  BY NoneAssumption DEF TypeOK, Truthful, OneClient
<1>7. NeverLeft'
  BY NoneAssumption DEF TypeOK, NeverLeft, OneClient
<1>8. Silent'
  BY NoneAssumption DEF TypeOK, Silent, Attempts, OneClient
<1>. QED BY <1>1, <1>2, <1>3, <1>4, <1>5, <1>6, <1>7, <1>8

\* A connection ends: its transport has no other.
LEMMA DroppedKeeps ==
  ASSUME Inv, NEW c \in Clients, Dropped(c)
  PROVE  Inv'
<1>. USE DEF Inv, Dropped, Busy
<1>1. TypeOK'
  <2>1. connected' \in [Transports -> BOOLEAN]
    BY DEF TypeOK
  <2>2. timer' \in [Transports -> BOOLEAN]
    BY Zenon DEF TypeOK
  <2>. QED BY <2>1, <2>2 DEF TypeOK
<1>2. OneClient'
  BY NoneAssumption DEF TypeOK, OneClient, ClientOwner, Truthful
<1>3. ClosingOne'
  BY NoneAssumption DEF TypeOK, ClosingOne, OneClient, ClientOwner, Truthful
<1>4. Untouched'
  BY NoneAssumption DEF TypeOK, Untouched, OneClient, ClientOwner, Truthful
<1>5. ClientOwner'
  BY NoneAssumption DEF TypeOK, ClientOwner, OneClient, Truthful
<1>6. Truthful'
  BY NoneAssumption DEF TypeOK, Truthful, OneClient, ClientOwner
<1>7. NeverLeft'
  BY NoneAssumption DEF TypeOK, NeverLeft, OneClient, ClientOwner, Truthful
<1>8. Silent'
  BY NoneAssumption DEF TypeOK, Silent, Attempts, OneClient, ClientOwner, Truthful
<1>. QED BY <1>1, <1>2, <1>3, <1>4, <1>5, <1>6, <1>7, <1>8

\* close() returns.
LEMMA DisconnectedKeeps ==
  ASSUME Inv, NEW t \in Transports, Disconnected(t)
  PROVE  Inv'
<1>. USE DEF Inv, Disconnected, Busy
<1>1. TypeOK'
  BY NoneAssumption DEF TypeOK, Truthful, ClosingOne
<1>2. OneClient'
  BY NoneAssumption DEF TypeOK, OneClient, Truthful, ClosingOne
<1>3. ClosingOne'
  BY NoneAssumption DEF TypeOK, ClosingOne, Truthful
<1>4. Untouched'
  BY NoneAssumption DEF TypeOK, Untouched, Truthful, ClosingOne
<1>5. ClientOwner'
  BY NoneAssumption DEF TypeOK, ClientOwner, Truthful, ClosingOne
<1>6. Truthful'
  BY NoneAssumption DEF TypeOK, Truthful, ClosingOne
<1>7. NeverLeft'
  BY NoneAssumption DEF TypeOK, NeverLeft, Truthful, ClosingOne
<1>8. Silent'
  BY NoneAssumption DEF TypeOK, Silent, Attempts, Truthful, ClosingOne
<1>. QED BY <1>1, <1>2, <1>3, <1>4, <1>5, <1>6, <1>7, <1>8

\* The peer leaves.
LEMMA OnDownKeeps ==
  ASSUME Inv, OnDown
  PROVE  Inv'
<1>. USE DEF Inv, OnDown, Busy
<1>1. TypeOK'
  BY NoneAssumption DEF TypeOK, Disconnect, Untouched, clientVars, NeverLeft
<1>2. OneClient'
  BY NoneAssumption DEF TypeOK, OneClient, Disconnect, Untouched, clientVars, NeverLeft
<1>3. ClosingOne'
  BY NoneAssumption DEF TypeOK, ClosingOne, Disconnect, Untouched, clientVars, NeverLeft
<1>4. Untouched'
  BY NoneAssumption DEF TypeOK, Untouched, Disconnect, clientVars, NeverLeft
<1>5. ClientOwner'
  BY NoneAssumption DEF TypeOK, ClientOwner, Disconnect, Untouched, clientVars, NeverLeft
<1>6. Truthful'
  BY NoneAssumption DEF TypeOK, Truthful, Disconnect, Untouched, clientVars, NeverLeft
<1>7. NeverLeft'
  BY NoneAssumption DEF TypeOK, NeverLeft, Disconnect, Untouched, clientVars
<1>8. Silent'
  BY NoneAssumption DEF TypeOK, Silent, Attempts, Disconnect, Untouched, clientVars, NeverLeft
<1>. QED BY <1>1, <1>2, <1>3, <1>4, <1>5, <1>6, <1>7, <1>8

\* The peer comes or goes.
LEMMA PeerChangesKeeps ==
  ASSUME Inv, PeerChanges
  PROVE  Inv'
<1>. USE DEF Inv, PeerChanges, Busy
<1>1. TypeOK'
  BY NoneAssumption DEF TypeOK, transportVars, clientVars
<1>2. OneClient'
  BY NoneAssumption DEF TypeOK, OneClient, transportVars, clientVars
<1>3. ClosingOne'
  BY NoneAssumption DEF TypeOK, ClosingOne, transportVars, clientVars
<1>4. Untouched'
  BY NoneAssumption DEF TypeOK, Untouched, transportVars, clientVars
<1>5. ClientOwner'
  BY NoneAssumption DEF TypeOK, ClientOwner, transportVars, clientVars
<1>6. Truthful'
  BY NoneAssumption DEF TypeOK, Truthful, transportVars, clientVars
<1>7. NeverLeft'
  BY NoneAssumption DEF TypeOK, NeverLeft, transportVars, clientVars
<1>8. Silent'
  BY NoneAssumption DEF TypeOK, Silent, Attempts, transportVars, clientVars
<1>. QED BY <1>1, <1>2, <1>3, <1>4, <1>5, <1>6, <1>7, <1>8

\* A reconnection timer fires: of a transport that has no client, unless it
\* is connected.
LEMMA TimerFiresKeeps ==
  ASSUME Inv, NEW t \in Transports, TimerFires(t)
  PROVE  Inv'
<1>1. ~connected[t] => \A c \in Clients : Busy(c) => owner[c] # t
  BY DEF TimerFires, Inv, OneClient
<1>2. attaching'[t] = "done" /\ left[t] # "quiet"
  BY DEF TimerFires, Inv, Untouched, Silent
<1>. QED BY <1>1, <1>2, ConnectKeeps DEF TimerFires

\* A transport that is connected for the first time enters the map.
LEMMA EntersTheMap ==
  ASSUME Inv, NEW t \in Transports, attaching[t] # "done",
         attached' = t, attaching' = [attaching EXCEPT ![t] = "done"], Connect(t, FALSE),
         UNCHANGED <<connected, timer, closing, left, reachable>>
  PROVE  Inv'
<1>1. /\ ~timer[t] /\ left[t] = "never"
      /\ \A c \in Clients : Busy(c) => owner[c] # t
  BY DEF Inv, Untouched
<1>2. timer' = [timer EXCEPT ![t] = FALSE] /\ attaching'[t] = "done"
  BY <1>1 DEF Inv, TypeOK
<1>. QED BY <1>1, <1>2, ConnectKeeps

\* The transport before it has been disconnected.
LEMMA AttachGoesOnKeeps ==
  ASSUME Inv, NEW t \in Transports, AttachGoesOn(t)
  PROVE  Inv'
BY EntersTheMap, NoneAssumption DEF AttachGoesOn

\* A peer is found.
LEMMA OnUpKeeps ==
  ASSUME Inv, NEW t \in Transports, OnUp(t)
  PROVE  Inv'
<1>1. CASE attached = None
  BY <1>1, EntersTheMap, NoneAssumption DEF OnUp
<1>2. CASE attached # None
  <2>1. attached \in Transports /\ attaching[attached] = "done" /\ left[attached] = "never"
    BY <1>2 DEF Inv, TypeOK, Untouched, NeverLeft
  <2>2. /\ attaching' = [attaching EXCEPT ![t] = attached] /\ attached' = None
        /\ Disconnect(attached) /\ UNCHANGED <<clientVars, reachable>>
        /\ attaching[t] = "new"
    BY <1>2 DEF OnUp
  <2>. USE <2>1, <2>2 DEF Inv, Disconnect, clientVars, Busy
  <2>3. TypeOK'
    BY NoneAssumption DEF TypeOK
  <2>4. OneClient'
    BY NoneAssumption DEF TypeOK, OneClient
  <2>5. ClosingOne'
    BY NoneAssumption DEF TypeOK, ClosingOne
  <2>6. Untouched'
    BY NoneAssumption DEF TypeOK, Untouched
  <2>7. ClientOwner'
    BY NoneAssumption DEF TypeOK, ClientOwner
  <2>8. Truthful'
    BY NoneAssumption DEF TypeOK, Truthful
  <2>9. NeverLeft'
    BY NoneAssumption DEF TypeOK, NeverLeft
  <2>10. Silent'
    BY NoneAssumption DEF TypeOK, Silent, Attempts
  <2>. QED BY <2>3, <2>4, <2>5, <2>6, <2>7, <2>8, <2>9, <2>10
<1>. QED BY <1>1, <1>2

-----------------------------------------------------------------------------
(***************************************************************************)
(* The theorems.                                                           *)
(***************************************************************************)

\* The invariant, which every step keeps.
THEOREM Invariance == Spec => []Inv
<1>1. Inv /\ [Next]_vars => Inv'
  <2>. SUFFICES ASSUME Inv, [Next]_vars PROVE Inv'
    OBVIOUS
  <2>1. CASE Next
    BY <2>1, OnUpKeeps, AttachGoesOnKeeps, TimerFiresKeeps, DisconnectedKeeps, RegisteredKeeps,
       RegisterFailsKeeps, DroppedKeeps, OnDownKeeps, PeerChangesKeeps DEF Next
  <2>2. CASE UNCHANGED vars
    BY <2>2 DEF vars, transportVars, clientVars, Inv, TypeOK, OneClient, ClosingOne, Untouched,
                ClientOwner, Truthful, NeverLeft, Silent, Attempts, Busy
  <2>. QED BY <2>1, <2>2
<1>. QED BY InitInv, <1>1, PTL DEF Spec

\* Type correctness (the state of directTransport.js and bridge.js).
THEOREM Typing == Spec => []TypeOK
<1>1. Inv => TypeOK
  BY DEF Inv
<1>. QED BY <1>1, Invariance, PTL

\* The transport in the map tells the truth about its connection.
THEOREM Watched == Spec => []AttachedIsWatched
<1>1. Inv => AttachedIsWatched
  BY DEF Inv, AttachedIsWatched, NeverLeft, Truthful
<1>. QED BY <1>1, Invariance, PTL

\* No transport ever has two connections, or attempts, at a time.
THEOREM One == Spec => []OneLink
<1>1. Inv => OneLink
  BY DEF Inv, OneLink, Links, OneClient, Busy
<1>. QED BY <1>1, Invariance, PTL

\* A transport that was not connecting when it was disconnected stays silent.
THEOREM Final == Spec => []QuietTeardownIsFinal
<1>1. Inv => QuietTeardownIsFinal
  BY DEF Inv, QuietTeardownIsFinal, Silent
<1>. QED BY <1>1, Invariance, PTL
=============================================================================
