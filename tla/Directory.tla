----------------------------- MODULE Directory -----------------------------
(***************************************************************************)
(* The federated agent directory: startDirectorySync and syncDirectory of  *)
(* src/vortex-relay/bridge.js, publishDirectory and mergeDirectories of    *)
(* directory.js, the roster source of index.js, and MultiRelay.readFile    *)
(* and writeFile of relay.js, which they go through.  The environments     *)
(* publish their rosters; one process, Home's, merges what it reads.  Time *)
(* is relative: Tick moves what a breaker waits for nearer.                *)
(***************************************************************************)
EXTENDS Breaker, FiniteSets, Sequences

CONSTANTS
  EnvNames,     (* environments of this.envNames, in the order of the reads *)
  Home,         (* the environment whose merged directory is modelled      *)
  Transports,   (* the relays that can be configured                       *)
  Callers,      (* those who call syncDirectory: the timer, and others     *)
  Timer,
  MaxRoster,    (* bound: rosters are numbered in order, 0 is the empty one *)
  MaxRestarts,  (* bound of the restarts                                   *)
  NoFile, Unread, Failed, Never

Envs    == {EnvNames[i] : i \in DOMAIN EnvNames}
Rosters == 0 .. MaxRoster

ASSUME DirectoryAssumption ==
  /\ Timer \in Callers /\ MaxRoster \in Nat \ {0} /\ MaxRestarts \in Nat
  /\ EnvNames \in Seq(Envs)
  /\ IsFiniteSet(Transports) /\ Cardinality(Transports) <= 2   \* Nostr and Gist
  /\ {NoFile, Unread, Failed, Never} \cap Rosters = {} /\ Unread # Failed

VARIABLES
  relays,       (* the transports configured: one, or several in a MultiRelay *)
  health,       (* this._health of Home's MultiRelay                       *)
  copy,         (* copy[r][e]: the directory file of e on relay r          *)
  newest,       (* the relays that hold the file of e last written         *)
  agents,       (* the agents that e's backend knows                       *)
  roster,       (* roster of e's process (index.js), 0 at first            *)
  writing,      (* the roster a publish of e has under way, or Never       *)
  published,    (* lastPublished                                           *)
  sync,         (* what each call of syncDirectory has read; <<>> if none  *)
  started,      (* the caller that _syncGeneration belongs to              *)
  merged,       (* the roster of each environment in _mergedEntries        *)
  restarts,     (* number of restarts                                      *)
  known,        (* history: environments whose process has seen agents     *)
  done          (* history: callers other than the timer that have called  *)

relayVars   == <<relays, health, copy, newest>>
publishVars == <<agents, roster, writing, published, known>>
syncVars    == <<sync, started, merged, done>>
vars        == <<relayVars, publishVars, syncVars, restarts>>

NoSync  == [e \in Envs |-> Unread]

-----------------------------------------------------------------------------
(* MultiRelay; a transport alone is used as it is *)

Multi == Cardinality(relays) > 1

\* The breakers once the relays in good have answered and those in bad failed.
Recorded(good, bad) ==
  IF Multi
  THEN [r \in Transports |-> IF r \in good THEN RecordSuccess(health[r])
                             ELSE IF r \in bad THEN RecordFailure(health[r], 0) ELSE health[r]]
  ELSE health

\* Whom readFile asks.
Candidates == {r \in relays : Multi => ~IsOpen(health[r], 0)}

\* What readFile returns for the file of e when good of them answer: the
\* newest snapshot, or [] if none of them has one, or none was asked.
Answers(e, good) ==
  LET holders == {r \in good : copy[r][e] # NoFile}
      best    == IF holders \cap newest[e] # {} THEN holders \cap newest[e] ELSE holders
  IN  IF good = {} /\ Candidates # {} THEN {Failed}
      ELSE IF holders = {} THEN {0} ELSE {copy[r][e] : r \in best}

\* writeFile: every relay is asked; a write may land and its answer be lost.
WriteFile(e, v, landed, ok) ==
  /\ copy' = [r \in Transports |-> IF r \in landed THEN [copy[r] EXCEPT ![e] = v] ELSE copy[r]]
  /\ newest' = IF landed = {} THEN newest ELSE [newest EXCEPT ![e] = landed]
  /\ health' = IF e = Home THEN Recorded(ok, relays \ ok) ELSE health
  /\ UNCHANGED relays

\* Polls and appends of Home use the same breakers.
OtherUse(r) ==
  /\ Multi /\ r \in relays
  /\ health' \in {Recorded({r}, {}), Recorded({}, {r})}
  /\ UNCHANGED <<relays, copy, newest, publishVars, syncVars, restarts>>

Tick ==
  /\ \E r \in relays : IsOpen(health[r], 0)
  /\ health' = [r \in Transports |->
                  [health[r] EXCEPT !.openUntil = IF @ = 0 THEN 0 ELSE @ - 1]]
  /\ UNCHANGED <<relays, copy, newest, publishVars, syncVars, restarts>>

-----------------------------------------------------------------------------
(* Publishing *)

RosterChanges(e) ==
  /\ agents[e] < MaxRoster
  /\ agents' = [agents EXCEPT ![e] = @ + 1]
  /\ UNCHANGED <<relayVars, roster, writing, published, known, syncVars, restarts>>

\* discoverLocalRoster: [] if the backend cannot be read.
Discovered(e) == {0, agents[e]}

\* Mutant of RosterSource: a failed read counts as an empty roster.
RosterAsRead(e, fresh) == fresh

\* rosterSource: a failed read leaves the last roster.
RosterSource(e, fresh) == IF fresh # 0 THEN fresh ELSE roster[e]

\* publishTick, up to its write: once every five minutes, or, only if the
\* roster has changed, at every synchronisation.
PublishTick(e, onlyIfChanged) ==
  /\ writing[e] = Never
  /\ \E fresh \in Discovered(e) :
       /\ roster' = [roster EXCEPT ![e] = RosterSource(e, fresh)]
       /\ known' = IF fresh = 0 THEN known ELSE known \cup {e}
  /\ \/ onlyIfChanged /\ roster'[e] = published[e] /\ UNCHANGED writing
     \/ ~(onlyIfChanged /\ roster'[e] = published[e]) /\ writing' = [writing EXCEPT ![e] = roster'[e]]
  /\ UNCHANGED <<relayVars, agents, published, syncVars, restarts>>

\* The write of a publishTick has returned, or thrown.
Published(e, ok) ==
  /\ writing' = [writing EXCEPT ![e] = Never]
  /\ published' = IF ok # {} THEN [published EXCEPT ![e] = writing[e]] ELSE published

PublishWrite(e, landed, ok) ==
  /\ writing[e] # Never /\ ok \subseteq landed
  /\ WriteFile(e, writing[e], landed, ok)
  /\ Published(e, ok)
  /\ UNCHANGED <<agents, roster, known, syncVars, restarts>>

-----------------------------------------------------------------------------
(* Merging *)

\* The environment whose directory a call reads next: none at its end.
NextRead(c) ==
  {EnvNames[i] : i \in {j \in DOMAIN EnvNames :
     /\ sync[c][EnvNames[j]] = Unread
     /\ \A k \in 1 .. j - 1 : sync[c][EnvNames[k]] # Unread}}

\* syncDirectory: the timer has one call under way at most.
SyncDirectory(c) ==
  /\ sync[c] = <<>> /\ c \notin done
  /\ sync' = [sync EXCEPT ![c] = NoSync]
  /\ started' = c
  /\ done' = IF c = Timer THEN done ELSE done \cup {c}
  /\ UNCHANGED <<relayVars, publishVars, merged, restarts>>

ReadDirectory(c, good) ==
  /\ sync[c] # <<>>
  /\ \E e \in NextRead(c) : \E got \in Answers(e, good) :
       sync' = [sync EXCEPT ![c][e] = got]
  /\ health' = Recorded(good, Candidates \ good)
  /\ UNCHANGED <<relays, copy, newest, publishVars, started, merged, done, restarts>>

\* What could not be read keeps its stale entries.
Merge(got) == [e \in Envs |-> IF got[e] = Failed THEN merged[e] ELSE got[e]]

\* Mutant of Superseded: the last call to finish wins.
NeverSuperseded(c) == FALSE

\* A later call of syncDirectory has started.
Superseded(c) == started # c

SyncEnds(c) ==
  /\ sync[c] # <<>> /\ NextRead(c) = {}
  /\ sync' = [sync EXCEPT ![c] = <<>>]
  /\ merged' = IF Superseded(c) THEN merged ELSE Merge(sync[c])
  /\ UNCHANGED <<relayVars, publishVars, started, done, restarts>>

StartPublishing(e) ==
  /\ \E fresh \in Discovered(e) :
       /\ roster' = [roster EXCEPT ![e] = fresh]
       /\ known' = IF fresh = 0 THEN known \ {e} ELSE known \cup {e}
  /\ writing' = [writing EXCEPT ![e] = Never]
  /\ published' = [published EXCEPT ![e] = Never]

StartReading ==
  /\ health' = [r \in Transports |-> Healthy]
  /\ sync' = [c \in Callers |-> <<>>]
  /\ merged' = [d \in Envs |-> 0]

\* The process of e starts anew: what it had in memory is gone.
Restart(e) ==
  /\ restarts < MaxRestarts
  /\ restarts' = restarts + 1
  /\ IF e \in Envs THEN StartPublishing(e) ELSE UNCHANGED <<roster, known, writing, published>>
  /\ IF e = Home THEN StartReading ELSE UNCHANGED <<health, sync, merged>>
  /\ UNCHANGED <<relays, copy, newest, agents, started, done>>

-----------------------------------------------------------------------------
Init ==
  /\ relays \in (SUBSET Transports) \ {{}}
  /\ health = [r \in Transports |-> Healthy]
  /\ copy = [r \in Transports |-> [e \in Envs |-> NoFile]]
  /\ newest = [e \in Envs |-> {}]
  /\ agents = [e \in Envs |-> 0] /\ roster = [e \in Envs |-> 0] /\ known = {}
  /\ writing = [e \in Envs |-> Never] /\ published = [e \in Envs |-> Never]
  /\ sync = [c \in Callers |-> <<>>] /\ started = Timer
  /\ merged = [e \in Envs |-> 0]
  /\ restarts = 0 /\ done = {}

\* Requests fail and answers get lost, each on its own.
Writes(e) == \E landed \in SUBSET relays, ok \in SUBSET relays : PublishWrite(e, landed, ok)
Reads(c)  == \E good \in SUBSET Candidates : ReadDirectory(c, good)

Next ==
  \/ \E e \in Envs :
       \/ RosterChanges(e)
       \/ \E onlyIfChanged \in BOOLEAN : PublishTick(e, onlyIfChanged)
       \/ Writes(e)
  \/ \E e \in Envs \cup {Home} : Restart(e)
  \/ \E c \in Callers :
       SyncDirectory(c) \/ Reads(c) \/ SyncEnds(c)
  \/ (\E r \in relays : OtherUse(r)) \/ Tick

Spec == Init /\ [][Next]_vars

(* Timers fire and requests come back, and again and again the backend is  *)
(* read when its roster is to be published.                                *)
FreshTick(e) == PublishTick(e, FALSE) /\ roster'[e] = agents[e]

Fairness ==
  /\ \A e \in Envs : SF_vars(FreshTick(e)) /\ WF_vars(Writes(e))
  /\ \A c \in Callers : WF_vars(Reads(c)) /\ WF_vars(SyncEnds(c))
  /\ WF_vars(SyncDirectory(Timer)) /\ WF_vars(Tick)

FairSpec == Spec /\ Fairness
-----------------------------------------------------------------------------
TypeOK ==
  /\ relays \subseteq Transports /\ relays # {}
  /\ health \in [Transports -> Health]
  /\ copy \in [Transports -> [Envs -> Rosters \cup {NoFile}]]
  /\ newest \in [Envs -> SUBSET Transports]
  /\ agents \in [Envs -> Rosters] /\ roster \in [Envs -> Rosters]
  /\ writing \in [Envs -> Rosters \cup {Never}] /\ published \in [Envs -> Rosters \cup {Never}]
  /\ sync \in [Callers -> {<<>>} \cup [Envs -> Rosters \cup {Unread, Failed}]]
  /\ started \in Callers /\ merged \in [Envs -> Rosters]
  /\ restarts \in Nat /\ known \subseteq Envs /\ done \subseteq Callers

(* Whatever calls of syncDirectory overlap, and reads and writes fail, a   *)
(* process with one transport never shows an older roster than it did      *)
(* ("clobber fresher data with staler data", bridge.js:336-346).           *)
NeverBack ==
  [][~Multi /\ restarts' = 0 => \A e \in Envs : merged'[e] >= merged[e]]_vars

(* "Keep the last non-empty roster rather than publishing an empty one     *)
(* over it" (index.js:177-178): a process that has seen its agents never   *)
(* empties the file, on any relay.                                         *)
NeverEmptied ==
  [][\A e \in known, r \in Transports : copy'[r][e] = 0 => copy[r][e] = 0]_vars

(* Whatever publishes and reads failed before: once they work, the         *)
(* directory comes to show everybody's roster, and keeps showing it.       *)
Working ==
  \/ \E e \in Envs : PublishTick(e, TRUE) \/ PublishTick(e, FALSE) \/ PublishWrite(e, relays, relays)
  \/ \E c \in Callers : SyncDirectory(c) \/ ReadDirectory(c, Candidates) \/ SyncEnds(c)
  \/ \E r \in relays : OtherUse(r) /\ health' = Recorded({r}, {})
  \/ Tick
Converges ==
  <>[][Working]_vars => <>[](\A e \in Envs : merged[e] = agents[e])
=============================================================================
