---------------------------- MODULE RelayChain ----------------------------
(***************************************************************************)
(* MultiRelay.appendMessage of src/vortex-relay/relay.js: several calls at *)
(* a time, each trying the relays in order of preference.  A first pass    *)
(* skips those whose breaker is open, a second one, if no relay took the   *)
(* message, is meant for the open ones.  Time passes, and other calls and  *)
(* reads change the breakers, while an attempt is awaited.                 *)
(***************************************************************************)
EXTENDS Breaker, Sequences, FiniteSets

CONSTANTS
  Chain,        (* the relays, in the order given to the constructor       *)
  Calls,        (* calls of appendMessage                                  *)
  NoRelay,
  MaxNow        (* bound of the clock                                      *)

Relays == {Chain[i] : i \in DOMAIN Chain}

ASSUME ChainAssumption ==
  /\ Chain \in Seq(Relays) /\ \A i, j \in DOMAIN Chain : Chain[i] = Chain[j] => i = j
  /\ Chain # <<>> /\ NoRelay \notin Relays /\ MaxNow \in Nat

VARIABLES
  health,       (* this._health                                            *)
  now,          (* Date.now()                                              *)
  call,         (* where each call is: its pass, the relay it awaits, the  *)
                (* relays still to look at, and those that come last       *)
  tried,        (* history: the relays each call has asked                 *)
  opened        (* history: the relays whose breaker has ever opened       *)

vars == <<health, now, call, tried, opened>>

States == {"idle", "awaiting", "delivered", "failed"}
Idle   == [at |-> "idle", pass |-> 1, relay |-> NoRelay, todo |-> {}, last |-> {}]

OpenIn(h)  == {r \in Relays : IsOpen(h[r], now)}
Earlier(r, s) == \E i, j \in DOMAIN Chain : i < j /\ Chain[i] = r /\ Chain[j] = s

\* The order of _orderedRelays: those that were open last, each group in the
\* order of the chain.
Precedes(last, r, s) ==
  \/ r \notin last /\ s \in last
  \/ (r \in last <=> s \in last) /\ Earlier(r, s)

Suits(h, pass, r) == r \in OpenIn(h) <=> pass = 2

\* Those of todo that a pass asks next: none, or one.
Asks(h, pass, todo, last) ==
  {r \in todo : /\ Suits(h, pass, r)
                /\ \A s \in todo : Precedes(last, s, r) => ~Suits(h, pass, s)}

Ask(c, pass, r, todo, last) ==
  /\ call'  = [call EXCEPT ![c] = [at |-> "awaiting", pass |-> pass, relay |-> r,
                                   todo |-> {s \in todo : Precedes(last, r, s)}, last |-> last]]
  /\ tried' = [tried EXCEPT ![c] = @ \cup {r}]

End(c, state) ==
  /\ call' = [call EXCEPT ![c] = [Idle EXCEPT !.at = state]]
  /\ UNCHANGED tried

\* Mutant of SecondPass: the call gives up after the first pass.
NoSecondPass(c, h) == End(c, "failed")

SecondPass(c, h) ==
  \/ \E r \in Asks(h, 2, Relays, OpenIn(h)) : Ask(c, 2, r, Relays, OpenIn(h))
  \/ Asks(h, 2, Relays, OpenIn(h)) = {} /\ End(c, "failed")

\* What call c does, without letting go, once the breakers are h and todo is
\* left of its pass.
Continue(c, h, pass, todo, last) ==
  \/ \E r \in Asks(h, pass, todo, last) : Ask(c, pass, r, todo, last)
  \/ Asks(h, pass, todo, last) = {} /\ pass = 1 /\ SecondPass(c, h)
  \/ Asks(h, pass, todo, last) = {} /\ pass = 2 /\ End(c, "failed")

AppendMessage(c) ==
  /\ call[c].at = "idle"
  /\ Continue(c, health, 1, Relays, OpenIn(health))
  /\ UNCHANGED <<health, now, opened>>

Failed(r) == [health EXCEPT ![r] = RecordFailure(@, now)]
Worked(r) == [health EXCEPT ![r] = RecordSuccess(@)]

\* Bookkeeping of the history.
NoteOpened == opened' = opened \cup OpenIn(health')

AttemptWorks(c) ==
  /\ call[c].at = "awaiting"
  /\ health' = Worked(call[c].relay)
  /\ End(c, "delivered")
  /\ NoteOpened
  /\ UNCHANGED now

\* Mutant of AttemptFails: the pass starts over instead of going on.
AttemptRestarts(c) ==
  /\ call[c].at = "awaiting"
  /\ health' = Failed(call[c].relay)
  /\ Continue(c, health', call[c].pass, Relays, OpenIn(health'))
  /\ NoteOpened
  /\ UNCHANGED now

AttemptFails(c) ==
  /\ call[c].at = "awaiting"
  /\ health' = Failed(call[c].relay)
  /\ Continue(c, health', call[c].pass, call[c].todo, call[c].last)
  /\ NoteOpened
  /\ UNCHANGED now

\* A readFile or a writeFile that was under way records what relay r did.
OtherUse(r) ==
  /\ health' \in {Failed(r), Worked(r)}
  /\ NoteOpened
  /\ UNCHANGED <<now, call, tried>>

Tick ==
  /\ now < MaxNow
  /\ now' = now + 1
  /\ UNCHANGED <<health, call, tried, opened>>

Init ==
  /\ health = [r \in Relays |-> Healthy]
  /\ now = 0
  /\ call = [c \in Calls |-> Idle]
  /\ tried = [c \in Calls |-> {}]
  /\ opened = {}

Next ==
  \/ \E c \in Calls : AppendMessage(c) \/ AttemptWorks(c) \/ AttemptFails(c)
  \/ \E r \in Relays : OtherUse(r)
  \/ Tick

Spec == Init /\ [][Next]_vars

(* Every request comes back, with an answer or with a timeout.             *)
FairSpec == Spec /\ \A c \in Calls : WF_vars(AttemptWorks(c) \/ AttemptFails(c))
-----------------------------------------------------------------------------
TypeOK ==
  /\ health \in [Relays -> Health]
  /\ now \in Nat
  /\ call \in [Calls -> [at: States, pass: {1, 2}, relay: Relays \cup {NoRelay},
                       todo: SUBSET Relays, last: SUBSET Relays]]
  /\ tried \in [Calls -> SUBSET Relays]
  /\ opened \subseteq Relays

(* A breaker is open only of a relay that has failed Threshold times and   *)
(* not worked since, whichever of the concurrent calls and reads saw it.   *)
OpenAfterEnoughFailures ==
  \A r \in Relays : IsOpen(health[r], now) => health[r].fails = Threshold

(* A call never gives up without having asked somebody, "a fully-open set  *)
(* still attempts something" (relay.js:403-407), nor passes over a relay   *)
(* that was never in cooldown.                                             *)
GivesUpReluctantly ==
  \A c \in Calls : call[c].at = "failed" => tried[c] # {} /\ Relays \ opened \subseteq tried[c]

(* Every call of appendMessage comes to an end.                            *)
EveryCallEnds == \A c \in Calls : call[c].at = "awaiting" ~> call[c].at \in {"delivered", "failed"}
=============================================================================
