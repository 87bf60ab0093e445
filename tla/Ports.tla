------------------------------- MODULE Ports -------------------------------
(***************************************************************************)
(* Which ports the broker binds and how the port registry learns of it:    *)
(* src/ports.js, and startBroker and close of src/broker.js, process after *)
(* process.  Each listener goes to its pin, or to the port it had last     *)
(* time, or to one that the registry hands out, or to the first free one.  *)
(* Other programs bind and register ports meanwhile, and every request to  *)
(* the registry may fail.                                                  *)
(***************************************************************************)
EXTENDS Naturals, FiniteSets, FiniteSetsExt

CONSTANTS
  Apps,         (* the two listeners, in the order they are bound          *)
  Mqtt,
  Ports,        (* DEFAULT_RANGE                                           *)
  Pins,         (* what can be pinned: functions on Apps, 0 for no pin     *)
  Other,        (* who registers ports besides                             *)
  NoEntry,
  MaxAttempts,  (* claims tried                                            *)
  MaxProcesses, (* bound of the processes started                          *)
  MaxMoves      (* bound of the ports they come to use                      *)

ASSUME PortsAssumption ==
  /\ Mqtt \in Apps /\ IsFiniteSet(Apps) /\ Cardinality(Apps) = 2
  /\ IsFiniteSet(Ports) /\ Ports \subseteq Nat \ {0}
  /\ Pins \subseteq [Apps -> Ports \cup {0}]
  /\ Other \notin Apps /\ NoEntry \notin Apps \cup {Other}
  /\ MaxAttempts \in Nat /\ MaxProcesses \in Nat /\ MaxMoves \in Nat

Ws == CHOOSE a \in Apps : a # Mqtt

VARIABLES
  pin,          (* the pins of this deployment                             *)
  sticky,       (* data/ports.json; 0 if nothing is remembered             *)
  registry,     (* the registry's entry for each port                      *)
  foreign,      (* ports that other programs listen on                     *)
  phase,        (* "off", "starting", "up", "closing" or "releasing"       *)
  step,         (* of each listener's bindWithPolicy: "no", "ask" (who has *)
                (* the last port), "listen" there (and "tell" the registry *)
                (* if it answered), "get" and "put" (tell it), "claim",    *)
                (* "scan" or "bound"                                       *)
  attempt,      (* claims made by the listener being bound                 *)
  excluded,     (* ports that the listener being bound will not try        *)
  port,         (* the port that each listener has, 0 if none              *)
  loop,         (* reconcileRegistry of each app: "none", "get", "put",    *)
                (* "wait" or "done"                                        *)
  stopped,      (* stop() of the loops has been called                     *)
  stale,        (* entries each registration has found to be superseded    *)
  processes,    (* processes started                                       *)
  moves,        (* how often they came to use one                          *)
  turned,       (* history: the listener being bound found its port taken  *)
  late,         (* history: registrations under way when close() began     *)
  released      (* history: listeners whose release was answered           *)

bindVars == <<step, attempt, excluded, port, turned>>
loopVars == <<loop, stopped, stale>>
endVars  == <<late, released>>
portsVars == <<pin, sticky, registry, foreign, phase, bindVars, loopVars, endVars, processes, moves>>

Taken(p)   == p \in foreign \/ \E a \in Apps : port[a] = p
Mine(a)    == {p \in Ports : registry[p] = a}
Registered(a, p, removed) ==
  [q \in Ports |-> IF q = p THEN a ELSE IF q \in removed THEN NoEntry ELSE registry[q]]

-----------------------------------------------------------------------------
(* Binding: one step for each request to the registry and each listen()    *)

StartBroker ==
  /\ phase = "off" /\ processes < MaxProcesses
  /\ processes' = processes + 1
  /\ phase' = "starting"
  /\ step' = [a \in Apps |-> IF a = Mqtt THEN "ask" ELSE "no"]
  /\ UNCHANGED <<pin, sticky, registry, foreign, attempt, excluded, port, turned, loopVars,
                 endVars, moves>>

\* The last port counts as taken by somebody when this listener looks.
LastTaken(a) == sticky[a] # 0 /\ (Taken(sticky[a]) \/ registry[sticky[a]] \notin {a, NoEntry})
Noted(a) == turned' = IF LastTaken(a) THEN turned \cup {a} ELSE turned

Goes(a, to) == step' = [step EXCEPT ![a] = to]

\* Mutant of SomeoneElse: an entry of our own is in the way, too.
AnyEntry(a, entry) == entry # NoEntry

\* The last port is registered to somebody else, be it the other listener.
SomeoneElse(a, entry) == entry \notin {a, NoEntry}

\* bindWithPolicy of listener a starts: its pin, its last port, or a claim.
BindPinned(a) ==
  /\ step[a] = "ask" /\ pin[a] # 0 /\ ~Taken(pin[a])
  /\ Goes(a, "bound")
  /\ port' = [port EXCEPT ![a] = pin[a]]
  /\ loop' = [loop EXCEPT ![a] = "get"]
  /\ UNCHANGED <<pin, sticky, registry, foreign, phase, attempt, excluded, turned,
                 stopped, stale, endVars, processes, moves>>

NothingToAsk(a) == sticky[a] = 0 \/ sticky[a] \in excluded

Ask(a) ==
  /\ step[a] = "ask" /\ pin[a] = 0
  /\ Noted(a)
  /\ \/ NothingToAsk(a) /\ Goes(a, "claim") /\ UNCHANGED excluded
     \/ /\ ~NothingToAsk(a) /\ SomeoneElse(a, registry[sticky[a]])
        /\ Goes(a, "claim")
        /\ excluded' = excluded \cup {sticky[a]}
     \/ /\ ~NothingToAsk(a) /\ ~SomeoneElse(a, registry[sticky[a]])
        /\ Goes(a, "tell") /\ UNCHANGED excluded
     \/ /\ ~NothingToAsk(a)
        /\ Goes(a, "listen") /\ UNCHANGED excluded
  /\ UNCHANGED <<pin, sticky, registry, foreign, phase, attempt, port, loopVars, endVars, processes, moves>>

Listen(a) ==
  /\ step[a] \in {"listen", "tell"}
  /\ Noted(a)
  /\ \/ /\ Taken(sticky[a])
        /\ Goes(a, "claim")
        /\ excluded' = excluded \cup {sticky[a]}
        /\ UNCHANGED <<port, loop>>
     \/ /\ ~Taken(sticky[a])
        /\ port' = [port EXCEPT ![a] = sticky[a]]
        /\ \/ step[a] = "tell" /\ Goes(a, "get") /\ UNCHANGED loop
           \/ step[a] = "listen" /\ Goes(a, "bound") /\ loop' = [loop EXCEPT ![a] = "get"]
        /\ UNCHANGED excluded
  /\ UNCHANGED <<pin, sticky, registry, foreign, phase, attempt, stopped, stale, endVars, processes, moves>>

\* claimPort: the registry hands out a port that nobody has registered, and
\* forgets what the app had; it is bound, unless somebody listens there.  No
\* answer, even to a claim that was granted: without the registry.
Claim(a) ==
  /\ step[a] = "claim"
  /\ \/ /\ attempt < MaxAttempts
        /\ \E p \in Ports :
             /\ registry[p] = NoEntry
             /\ registry' = Registered(a, p, Mine(a))
             /\ \/ /\ p \notin excluded /\ ~Taken(p)
                   /\ port' = [port EXCEPT ![a] = p] /\ Goes(a, "bound")
                   /\ UNCHANGED <<attempt, excluded>>
                \/ /\ p \in excluded \/ Taken(p)
                   /\ attempt' = attempt + 1 /\ excluded' = excluded \cup {p}
                   /\ UNCHANGED <<port, step>>
     \/ /\ Goes(a, "scan")
        /\ \/ UNCHANGED registry
           \/ \E p \in Ports : registry[p] = NoEntry /\ registry' = Registered(a, p, Mine(a))
        /\ UNCHANGED <<port, attempt, excluded>>
  /\ UNCHANGED <<pin, sticky, foreign, phase, turned, loopVars, endVars, processes, moves>>

Scannable == {p \in Ports : p \notin excluded /\ ~Taken(p)}

Scan(a) ==
  /\ step[a] = "scan" /\ Scannable # {}
  /\ port' = [port EXCEPT ![a] = Min(Scannable)]
  /\ Goes(a, "bound")
  /\ loop' = [loop EXCEPT ![a] = "get"]
  /\ UNCHANGED <<pin, sticky, registry, foreign, phase, attempt, excluded, turned,
                 stopped, stale, endVars, processes, moves>>

\* Nothing is left of a process that ends.
Idle ==
  /\ step' = [a \in Apps |-> "no"] /\ attempt' = 0 /\ excluded' = {}
  /\ port' = [a \in Apps |-> 0] /\ turned' = {}
  /\ loop' = [a \in Apps |-> "none"] /\ stopped' = FALSE /\ stale' = [a \in Apps |-> {}]
  /\ late' = {} /\ released' = {}

ProcessGone ==
  /\ phase' = "off"
  /\ Idle
  /\ UNCHANGED <<pin, sticky, registry, foreign, processes, moves>>

\* A pinned port that is taken, or no port left: the process ends.
BindFails(a) ==
  /\ \/ step[a] = "ask" /\ pin[a] # 0 /\ Taken(pin[a])
     \/ step[a] = "scan" /\ Scannable = {}
  /\ ProcessGone

\* The first listener is bound: the other one, elsewhere.
BindNext ==
  /\ phase = "starting" /\ step[Mqtt] = "bound" /\ step[Ws] = "no"
  /\ Goes(Ws, "ask")
  /\ attempt' = 0 /\ excluded' = {port[Mqtt]} /\ turned' = {}
  /\ UNCHANGED <<pin, sticky, registry, foreign, phase, port, loopVars, endVars, processes, moves>>

\* Both are: the ports are remembered (a write that fails is logged), and the
\* loops started.
BrokerStarted ==
  /\ phase = "starting" /\ \A a \in Apps : step[a] = "bound"
  /\ phase' = "up"
  /\ sticky' \in {port, sticky}
  /\ attempt' = 0 /\ excluded' = {} /\ turned' = {}
  /\ UNCHANGED <<pin, registry, foreign, step, port, loopVars, endVars, processes, moves>>

-----------------------------------------------------------------------------
(* Telling the registry: registerBoundPort, by bindWithPolicy or by the    *)
(* loop of reconcileRegistry once the broker is up                         *)

\* What the registry lists: the entries of the app elsewhere are stale.
GetPorts(a) ==
  stale' = [stale EXCEPT ![a] = Mine(a) \ {port[a]}]

\* They are deleted, and the port is registered; each request may fail.
PutPort(a, removed) ==
  /\ registry' = Registered(a, port[a], removed)
  /\ stale' = [stale EXCEPT ![a] = {}]

PutFails(a, removed) ==
  /\ registry' = [q \in Ports |-> IF q \in removed THEN NoEntry ELSE registry[q]]
  /\ stale' = [stale EXCEPT ![a] = {}]

BinderGets(a) ==
  /\ step[a] = "get"
  /\ \/ GetPorts(a) /\ Goes(a, "put") /\ UNCHANGED loop
     \/ Goes(a, "bound") /\ loop' = [loop EXCEPT ![a] = "get"] /\ UNCHANGED stale
  /\ UNCHANGED <<pin, sticky, registry, foreign, phase, attempt, excluded, port, turned,
                 stopped, endVars, processes, moves>>

BinderPuts(a) ==
  /\ step[a] = "put"
  /\ \E removed \in SUBSET stale[a] :
       \/ PutPort(a, removed) /\ UNCHANGED loop
       \/ PutFails(a, removed) /\ loop' = [loop EXCEPT ![a] = "get"]
  /\ Goes(a, "bound")
  /\ UNCHANGED <<pin, sticky, foreign, phase, attempt, excluded, port, turned,
                 stopped, endVars, processes, moves>>

Running == phase \in {"up", "closing", "releasing"}

LoopGets(a) ==
  /\ Running /\ loop[a] = "get"
  /\ \/ GetPorts(a) /\ loop' = [loop EXCEPT ![a] = "put"]
     \/ loop' = [loop EXCEPT ![a] = "wait"] /\ UNCHANGED stale
  /\ UNCHANGED <<pin, sticky, registry, foreign, phase, bindVars, stopped, endVars, processes, moves>>

\* Mutant of AfterFailure: one failure ends the loop.
GivesUp == "done"

AfterFailure == "wait"

LoopPuts(a) ==
  /\ Running /\ loop[a] = "put"
  /\ \E removed \in SUBSET stale[a] :
       \/ PutPort(a, removed) /\ loop' = [loop EXCEPT ![a] = "done"]
       \/ PutFails(a, removed) /\ loop' = [loop EXCEPT ![a] = AfterFailure]
  /\ UNCHANGED <<pin, sticky, foreign, phase, bindVars, stopped, endVars, processes, moves>>

\* Mutant of Wakes: stop() does not end the loop.
WakesAlways(a) ==
  /\ Running /\ loop[a] = "wait"
  /\ loop' = [loop EXCEPT ![a] = "get"]
  /\ UNCHANGED <<pin, sticky, registry, foreign, phase, bindVars, stopped, stale, endVars, processes, moves>>

\* The delay is over, or cut short by stop().
Wakes(a) ==
  /\ Running /\ loop[a] = "wait"
  /\ loop' = [loop EXCEPT ![a] = IF stopped THEN "done" ELSE "get"]
  /\ UNCHANGED <<pin, sticky, registry, foreign, phase, bindVars, stopped, stale, endVars, processes, moves>>

-----------------------------------------------------------------------------
(* Stopping *)

CloseBegins ==
  /\ phase = "up"
  /\ phase' = "closing"
  /\ stopped' = TRUE
  /\ late' = {a \in Apps : loop[a] \in {"get", "put"}}
  /\ UNCHANGED <<pin, sticky, registry, foreign, bindVars, loop, stale, released, processes, moves>>

ListenersClosed ==
  /\ phase = "closing"
  /\ phase' = "releasing"
  /\ UNCHANGED <<pin, sticky, registry, foreign, bindVars, loopVars, endVars, processes, moves>>

\* releasePort, one after the other; unreachable, or refused for good.
Release(a) ==
  /\ phase = "releasing" /\ step[a] = "bound"
  /\ a = Ws => step[Mqtt] = "no"
  /\ Goes(a, "no")
  /\ \/ /\ registry' = [registry EXCEPT ![port[a]] = NoEntry]
        /\ released' = released \cup {a}
     \/ UNCHANGED <<registry, released>>
  /\ UNCHANGED <<pin, sticky, foreign, phase, attempt, excluded, port, turned,
                 loopVars, late, processes, moves>>

ReleasesOver ==
  /\ phase = "releasing" /\ \A a \in Apps : step[a] = "no"
  /\ ProcessGone

\* Any time: a crash, or the deadline of five seconds.
ProcessCrash == phase # "off" /\ ProcessGone

-----------------------------------------------------------------------------
(* Other programs *)

\* The process listens on its ports until its listeners are closed.
Listening(p) == phase # "releasing" /\ \E a \in Apps : port[a] = p

OtherListens(p) ==
  /\ p \notin foreign /\ ~Listening(p)
  /\ foreign' = foreign \cup {p}
  /\ \/ registry[p] = NoEntry /\ registry' = [registry EXCEPT ![p] = Other]
     \/ UNCHANGED registry
  /\ moves < MaxMoves /\ moves' = moves + 1
  /\ UNCHANGED <<pin, sticky, phase, bindVars, loopVars, endVars, processes>>

OtherLeaves(p) ==
  /\ p \in foreign
  /\ foreign' = foreign \ {p}
  /\ \/ registry[p] = Other /\ registry' = [registry EXCEPT ![p] = NoEntry]
     \/ UNCHANGED registry
  /\ UNCHANGED <<pin, sticky, phase, bindVars, loopVars, endVars, processes, moves>>

-----------------------------------------------------------------------------
PortsInit ==
  /\ pin \in Pins
  /\ sticky = [a \in Apps |-> 0]
  /\ registry = [p \in Ports |-> NoEntry] /\ foreign = {}
  /\ phase = "off" /\ processes = 0 /\ moves = 0
  /\ step = [a \in Apps |-> "no"] /\ attempt = 0 /\ excluded = {}
  /\ port = [a \in Apps |-> 0]
  /\ loop = [a \in Apps |-> "none"] /\ stopped = FALSE /\ stale = [a \in Apps |-> {}]
  /\ turned = {} /\ late = {} /\ released = {}

PortsNext ==
  \/ StartBroker \/ BindNext \/ BrokerStarted
  \/ CloseBegins \/ ListenersClosed \/ ReleasesOver \/ ProcessCrash
  \/ \E a \in Apps :
       \/ BindPinned(a) \/ Ask(a) \/ Listen(a) \/ Claim(a) \/ Scan(a) \/ BindFails(a)
       \/ BinderGets(a) \/ BinderPuts(a) \/ LoopGets(a) \/ LoopPuts(a) \/ Wakes(a)
       \/ Release(a)
  \/ \E p \in Ports : OtherListens(p) \/ OtherLeaves(p)

PortsSpec == PortsInit /\ [][PortsNext]_portsVars

(* Requests come back, delays end, and the registry answers again and      *)
(* again.                                                                  *)
GetAnswered(a) == LoopGets(a) /\ loop'[a] = "put"
PutAnswered(a) == LoopPuts(a) /\ registry'[port[a]] = a

PortsFairness ==
  \A a \in Apps :
    /\ WF_portsVars(LoopGets(a)) /\ WF_portsVars(LoopPuts(a)) /\ WF_portsVars(Wakes(a))
    /\ SF_portsVars(GetAnswered(a)) /\ SF_portsVars(PutAnswered(a))

PortsFairSpec == PortsSpec /\ PortsFairness
-----------------------------------------------------------------------------
PortsTypeOK ==
  /\ pin \in Pins /\ sticky \in [Apps -> Ports \cup {0}]
  /\ registry \in [Ports -> Apps \cup {Other, NoEntry}] /\ foreign \subseteq Ports
  /\ phase \in {"off", "starting", "up", "closing", "releasing"}
  /\ step \in [Apps -> {"no", "ask", "listen", "tell", "get", "put", "claim", "scan", "bound"}]
  /\ attempt \in Nat
  /\ excluded \subseteq Ports /\ port \in [Apps -> Ports \cup {0}]
  /\ loop \in [Apps -> {"none", "get", "put", "wait", "done"}] /\ stopped \in BOOLEAN
  /\ stale \in [Apps -> SUBSET Ports] /\ processes \in Nat /\ moves \in Nat
  /\ turned \subseteq Apps /\ late \subseteq Apps /\ released \subseteq Apps

(* A listener leaves the port it had last time only if somebody had taken  *)
(* that port: neither a registry that is down, nor an entry left by a      *)
(* crash, moves it (ports.js:13-17).                                       *)
StickyKept ==
  [][\A a \in Apps :
       port[a] = 0 /\ port'[a] # 0 /\ pin[a] = 0 /\ sticky[a] \notin {0, port'[a]} => a \in turned']_portsVars

(* What one listener's registration read is stale for it, and registered   *)
(* by the other listener meanwhile, or soon: the two loops run in parallel *)
(* (broker.js:231-232), and the entry is deleted (ports.js:133-136).       *)
Crossed == \E a, b \in Apps : a # b /\ port[b] \in stale[a]

(* "The registry learns the real port as soon as it's up" (ports.js:183-   *)
(* 188): of a broker that stays up, whatever failed before, unless the     *)
(* registrations of its two listeners cross.                               *)
RegistryLearns ==
  <>[](phase = "up") /\ []~Crossed => <>[](phase = "up" /\ \A a \in Apps : registry[port[a]] = a)

(* A shutdown whose releases were answered leaves no entry of its own, but *)
(* for registrations that were under way when it began (ports.js:155-159). *)
ReleasedForGood ==
  [][phase = "releasing" /\ ReleasesOver =>
       \A a \in released \ late : registry[port[a]] # a]_portsVars
=============================================================================
