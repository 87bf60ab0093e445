-------------------------- MODULE DirectoryProofs --------------------------
(***************************************************************************)
(* Theorems about Directory: type correctness; that a process which has    *)
(* seen its agents never empties its file; and that the merged directory   *)
(* of a process with one transport never goes back, which needs an         *)
(* invariant that orders every place a roster passes through, from the     *)
(* backend to the merged directory.                                        *)
(***************************************************************************)
EXTENDS Directory, TLAPS, FiniteSetTheorems, WellFoundedInduction

Values == Rosters \cup {Unread, Failed}

\* A process that has seen its agents neither keeps nor writes the empty roster.
KnownKept == \A e \in known : roster[e] # 0 /\ writing[e] # 0

\* As long as nobody has restarted, the rosters of e follow one another: the
\* backend, the process, its write under way, the file, the reads, the merge.
Behind(e, r) ==
  /\ roster[e] <= agents[e]
  /\ writing[e] # Never => writing[e] <= roster[e]
  /\ copy[r][e] # NoFile =>
       /\ copy[r][e] <= roster[e]
       /\ writing[e] # Never => copy[r][e] <= writing[e]
  /\ merged[e] = 0 \/ (copy[r][e] # NoFile /\ merged[e] <= copy[r][e])
  /\ sync[started] # <<>> /\ sync[started][e] \in Rosters =>
       /\ merged[e] <= sync[started][e]
       /\ sync[started][e] = 0 \/ (copy[r][e] # NoFile /\ sync[started][e] <= copy[r][e])

InOrder == ~Multi /\ restarts = 0 => \A e \in Envs, r \in relays : Behind(e, r)

Inv == TypeOK /\ KnownKept /\ InOrder

-----------------------------------------------------------------------------
(***************************************************************************)
(* Breakers, reads, and the order of the reads.                            *)
(***************************************************************************)

\* A breaker stays a breaker.
LEMMA BreakerType ==
  ASSUME NEW h \in Health
  PROVE  /\ Healthy \in Health /\ RecordSuccess(h) \in Health
         /\ RecordFailure(h, 0) \in Health
BY BreakerAssumption DEF Health, Healthy, RecordSuccess, RecordFailure

\* Recording the outcome of a request keeps the breakers breakers.
LEMMA RecordedType ==
  ASSUME TypeOK, NEW good, NEW bad
  PROVE  Recorded(good, bad) \in [Transports -> Health]
BY BreakerType DEF TypeOK, Recorded

\* The empty roster is a roster, and none of the model's marks is one.
LEMMA RosterFacts ==
  /\ 0 \in Rosters /\ Rosters \subseteq Nat
  /\ NoFile \notin Rosters /\ Unread \notin Rosters /\ Failed \notin Rosters /\ Never \notin Rosters
  /\ Unread # Failed
BY DirectoryAssumption DEF Rosters

\* What a configured relay holds.
LEMMA CopyType ==
  ASSUME TypeOK, NEW e \in Envs, NEW r \in relays
  PROVE  r \in Transports /\ copy[r][e] \in Rosters \cup {NoFile}
<1>1. r \in Transports /\ copy[r] \in [Envs -> Rosters \cup {NoFile}]
  BY DEF TypeOK
<1>. QED BY <1>1

\* A read returns a roster, or fails.
LEMMA AnswerType ==
  ASSUME TypeOK, NEW e \in Envs, NEW good \in SUBSET Candidates, NEW got \in Answers(e, good)
  PROVE  got \in Rosters \cup {Failed}
<1>. DEFINE holders == {r \in good : copy[r][e] # NoFile}
            best == IF holders \cap newest[e] # {} THEN holders \cap newest[e] ELSE holders
<1>1. best \subseteq holders /\ holders \subseteq Transports
  BY DEF TypeOK, Candidates
<1>2. \A r \in best : copy[r][e] \in Rosters
  BY <1>1 DEF TypeOK
<1>. QED BY <1>2, RosterFacts DEF Answers

\* A call that has nothing left to read has read every file.
LEMMA AllRead ==
  ASSUME NEW c \in Callers, NextRead(c) = {}
  PROVE  \A e \in Envs : sync[c][e] # Unread
<1>. DEFINE Waiting == {j \in DOMAIN EnvNames : sync[c][EnvNames[j]] = Unread}
<1>1. DOMAIN EnvNames \subseteq Nat
  BY DirectoryAssumption
<1>2. SUFFICES Waiting = {}
  BY DEF Envs
<1>3. SUFFICES ASSUME Waiting # {} PROVE FALSE
  OBVIOUS
<1>4. PICK j \in Waiting : \A k \in Waiting : ~(<<k, j>> \in OpToRel(<, Nat))
  <2>. HIDE DEF Waiting
  <2>1. Waiting \subseteq Nat
    BY <1>1 DEF Waiting
  <2>. QED BY <1>3, <2>1, NatLessThanWellFounded, WFMin
<1>5. ASSUME NEW k \in 1 .. j - 1 PROVE sync[c][EnvNames[k]] # Unread
  <2>1. k \in DOMAIN EnvNames /\ k \in Nat /\ j \in Nat /\ k < j
    BY <1>1, <1>5, DirectoryAssumption
  <2>2. <<k, j>> \in OpToRel(<, Nat)
    BY <2>1 DEF OpToRel
  <2>. QED BY <1>4, <2>1, <2>2
<1>6. EnvNames[j] \in NextRead(c)
  BY <1>4, <1>5 DEF NextRead
<1>. QED BY <1>6

\* Without a MultiRelay there is one transport, and it is always asked.
LEMMA OneTransport ==
  ASSUME TypeOK, ~Multi
  PROVE  (\E r \in Transports : relays = {r}) /\ Candidates = relays
<1>1. IsFiniteSet(relays)
  BY DirectoryAssumption, FS_Subset DEF TypeOK
<1>2. Cardinality(relays) = 1
  BY <1>1, FS_CardinalityType, FS_EmptySet DEF TypeOK, Multi
<1>3. \E r : relays = {r}
  BY <1>1, <1>2, FS_Singleton
<1>. QED BY <1>3 DEF TypeOK, Candidates, Multi

-----------------------------------------------------------------------------
(***************************************************************************)
(* The invariant.                                                          *)
(***************************************************************************)

\* Everything holds at first.
LEMMA InitInv == Init => Inv
<1>. SUFFICES ASSUME Init PROVE Inv
  OBVIOUS
<1>1. relays \subseteq Transports /\ relays # {} /\ health \in [Transports -> Health]
  BY BreakerAssumption DEF Init, Healthy, Health
<1>2. copy \in [Transports -> [Envs -> Rosters \cup {NoFile}]]
  BY DEF Init
<1>a. newest \in [Envs -> SUBSET Transports] /\ known \subseteq Envs /\ done \subseteq Callers
  BY DEF Init
<1>b. /\ agents \in [Envs -> Rosters] /\ roster \in [Envs -> Rosters] /\ merged \in [Envs -> Rosters]
      /\ writing \in [Envs -> Rosters \cup {Never}] /\ published \in [Envs -> Rosters \cup {Never}]
  BY RosterFacts DEF Init
<1>c. sync \in [Callers -> {<<>>} \cup [Envs -> Rosters \cup {Unread, Failed}]]
  BY DEF Init
<1>d. started \in Callers /\ restarts \in Nat
  BY DirectoryAssumption DEF Init
<1>3. TypeOK
  BY <1>1, <1>2, <1>a, <1>b, <1>c, <1>d DEF TypeOK
<1>4. KnownKept
  BY DEF Init, KnownKept
<1>5. InOrder
  <2>. SUFFICES ASSUME NEW e \in Envs, NEW r \in relays PROVE Behind(e, r)
    BY DEF InOrder
  <2>1. /\ roster[e] = 0 /\ agents[e] = 0 /\ writing[e] = Never /\ merged[e] = 0
        /\ copy[r][e] = NoFile /\ sync[started] = <<>>
    BY <1>1, DirectoryAssumption DEF Init
  <2>. QED BY <2>1 DEF Behind
<1>. QED BY <1>3, <1>4, <1>5 DEF Inv

\* Breakers move: the rosters do not.
LEMMA HealthOnly ==
  ASSUME Inv, health' \in [Transports -> Health],
         UNCHANGED <<relays, copy, newest, publishVars, syncVars, restarts>>
  PROVE  Inv'
<1>1. TypeOK'
  BY DEF Inv, TypeOK, publishVars, syncVars
<1>2. KnownKept'
  BY DEF Inv, KnownKept, publishVars
<1>3. InOrder'
  BY DEF Inv, InOrder, Behind, Multi, publishVars, syncVars
<1>. QED BY <1>1, <1>2, <1>3 DEF Inv

\* The backend learns of an agent: only agents grows.
LEMMA InvRosterChanges ==
  ASSUME Inv, NEW e \in Envs, RosterChanges(e)
  PROVE  Inv'
<1>. USE DEF RosterChanges, relayVars, syncVars
<1>1. TypeOK'
  BY DirectoryAssumption DEF Inv, TypeOK, Rosters
<1>2. KnownKept'
  BY DEF Inv, KnownKept
<1>3. InOrder'
  <2>. SUFFICES ASSUME ~Multi, restarts = 0, NEW d \in Envs, NEW r \in relays
                PROVE  Behind(d, r)'
    BY DEF InOrder, Multi
  <2>1. Behind(d, r)
    BY DEF Inv, InOrder
  <2>2. agents[d] \in Nat /\ agents'[d] \in {agents[d], agents[d] + 1} /\ roster[d] \in Nat
    BY RosterFacts DEF Inv, TypeOK
  <2>. QED BY <2>1, <2>2 DEF Behind
<1>. QED BY <1>1, <1>2, <1>3 DEF Inv

\* A publish reads the backend and hands its roster on.
LEMMA InvPublishTick ==
  ASSUME Inv, NEW e \in Envs, NEW onlyIfChanged \in BOOLEAN, PublishTick(e, onlyIfChanged)
  PROVE  Inv'
<1>. USE DEF PublishTick, relayVars, syncVars
<1>1. PICK fresh \in Discovered(e) :
        /\ roster' = [roster EXCEPT ![e] = RosterSource(e, fresh)]
        /\ known' = IF fresh = 0 THEN known ELSE known \cup {e}
  OBVIOUS
<1>2. fresh \in Rosters /\ (fresh = 0 \/ fresh = agents[e])
  BY RosterFacts DEF Inv, TypeOK, Discovered
<1>a. roster' \in [Envs -> Rosters] /\ known' \subseteq Envs
  BY <1>1, <1>2 DEF Inv, TypeOK, RosterSource
<1>b. writing' \in [Envs -> Rosters \cup {Never}]
  <2>1. writing' = writing \/ writing' = [writing EXCEPT ![e] = roster'[e]]
    OBVIOUS
  <2>2. roster'[e] \in Rosters
    BY <1>a
  <2>. QED BY <2>1, <2>2 DEF Inv, TypeOK
<1>3. TypeOK'
  BY <1>a, <1>b DEF Inv, TypeOK
<1>4. KnownKept'
  <2>1. \A d \in known' : roster'[d] # 0
    BY <1>1 DEF Inv, TypeOK, KnownKept, RosterSource
  <2>2. \A d \in known' : writing'[d] = roster'[d] \/ (writing'[d] = writing[d] /\ d \in known) \/ d = e
    BY <1>1 DEF Inv, TypeOK
  <2>3. writing'[e] # 0 \/ e \notin known'
    <3>1. writing'[e] = Never \/ writing'[e] = roster'[e]
      BY DEF Inv, TypeOK
    <3>. QED BY <2>1, <3>1, RosterFacts
  <2>. QED BY <2>1, <2>2, <2>3 DEF Inv, KnownKept
<1>5. InOrder'
  <2>. SUFFICES ASSUME ~Multi, restarts = 0, NEW d \in Envs, NEW r \in relays
                PROVE  Behind(d, r)'
    BY DEF InOrder, Multi
  <2>1. Behind(d, r)
    BY DEF Inv, InOrder
  <2>2. roster[d] \in Nat /\ agents[d] \in Nat /\ roster'[d] \in Nat
    BY <1>3, RosterFacts DEF Inv, TypeOK
  <2>6. copy[r][d] # NoFile => copy[r][d] \in Nat
    BY CopyType, RosterFacts DEF Inv
  <2>3. roster[d] <= roster'[d] /\ roster'[d] <= agents[d]
    BY <1>1, <1>2, <2>1, <2>2 DEF Inv, TypeOK, RosterSource, Behind
  <2>4. writing'[d] = roster'[d] \/ writing'[d] = writing[d]
    BY DEF Inv, TypeOK
  <2>5. writing[d] = Never \/ writing[d] \in Nat
    BY RosterFacts DEF Inv, TypeOK
  <2>. QED BY <2>1, <2>2, <2>3, <2>4, <2>5, <2>6 DEF Behind
<1>. QED BY <1>3, <1>4, <1>5 DEF Inv

\* A write puts on the relay what its process held.
LEMMA InvPublishWrite ==
  ASSUME Inv, NEW e \in Envs, NEW landed \in SUBSET relays, NEW ok \in SUBSET relays,
         PublishWrite(e, landed, ok)
  PROVE  Inv'
<1>. USE DEF PublishWrite, WriteFile, Published, syncVars
<1>1. health' \in [Transports -> Health]
  BY RecordedType DEF Inv, TypeOK
<1>2. writing[e] \in Rosters
  BY DEF Inv, TypeOK
<1>3. copy' \in [Transports -> [Envs -> Rosters \cup {NoFile}]]
  BY <1>2 DEF Inv, TypeOK
<1>4. newest' \in [Envs -> SUBSET Transports]
  BY DEF Inv, TypeOK
<1>5. TypeOK'
  BY <1>1, <1>2, <1>3, <1>4 DEF Inv, TypeOK
<1>6. KnownKept'
  BY DirectoryAssumption, RosterFacts DEF Inv, TypeOK, KnownKept
<1>7. InOrder'
  <2>. SUFFICES ASSUME ~Multi, restarts = 0, NEW d \in Envs, NEW r \in relays
                PROVE  Behind(d, r)'
    BY DEF InOrder, Multi
  <2>1. Behind(d, r)
    BY DEF Inv, InOrder
  <2>2. /\ writing'[d] = writing[d] \/ writing'[d] = Never
        /\ copy'[r][d] = copy[r][d] \/ (copy'[r][d] = writing[d] /\ writing[d] # Never /\ d = e)
        /\ d = e => writing'[d] = Never
    BY CopyType DEF Inv, TypeOK
  <2>3. /\ copy[r][d] # NoFile => copy[r][d] \in Nat
        /\ writing[d] # Never => writing[d] \in Nat /\ writing[d] # NoFile
        /\ roster[d] \in Nat /\ merged[d] \in Nat
    BY CopyType, RosterFacts DEF Inv, TypeOK
  <2>4. sync[started] # <<>> /\ sync[started][d] \in Rosters => sync[started][d] \in Nat
    BY RosterFacts
  <2>. QED BY <2>1, <2>2, <2>3, <2>4 DEF Behind
<1>. QED BY <1>5, <1>6, <1>7 DEF Inv

\* A call starts with nothing read.
LEMMA InvSyncDirectory ==
  ASSUME Inv, NEW c \in Callers, SyncDirectory(c)
  PROVE  Inv'
<1>. USE DEF SyncDirectory, relayVars, publishVars
<1>1. NoSync \in [Envs -> Rosters \cup {Unread, Failed}]
  BY DEF NoSync
<1>2. TypeOK'
  BY <1>1 DEF Inv, TypeOK
<1>3. KnownKept'
  BY DEF Inv, KnownKept
<1>4. InOrder'
  <2>. SUFFICES ASSUME ~Multi, restarts = 0, NEW d \in Envs, NEW r \in relays
                PROVE  Behind(d, r)'
    BY DEF InOrder, Multi
  <2>1. Behind(d, r)
    BY DEF Inv, InOrder
  <2>2. sync'[started'][d] \notin Rosters
    BY RosterFacts DEF Inv, TypeOK, NoSync
  <2>. QED BY <2>1, <2>2 DEF Behind
<1>. QED BY <1>2, <1>3, <1>4 DEF Inv

\* A read returns what the relay has.
LEMMA InvReadDirectory ==
  ASSUME Inv, NEW c \in Callers, NEW good \in SUBSET Candidates, ReadDirectory(c, good)
  PROVE  Inv'
<1>. USE DEF ReadDirectory, publishVars
<1>0. PICK e \in NextRead(c) : \E got \in Answers(e, good) : sync' = [sync EXCEPT ![c][e] = got]
  OBVIOUS
<1>1. PICK got \in Answers(e, good) : sync' = [sync EXCEPT ![c][e] = got]
  BY <1>0
<1>2. e \in Envs
  BY <1>1 DEF NextRead, Envs
<1>3. got \in Rosters \cup {Failed}
  BY <1>1, <1>2, AnswerType DEF Inv
<1>4. /\ sync[c] \in [Envs -> Rosters \cup {Unread, Failed}]
      /\ sync[c][e] = Unread
  BY <1>1, <1>2 DEF Inv, TypeOK, NextRead
<1>5. sync' = [sync EXCEPT ![c] = [sync[c] EXCEPT ![e] = got]]
  BY <1>1
<1>6. sync' \in [Callers -> {<<>>} \cup [Envs -> Rosters \cup {Unread, Failed}]]
  BY <1>2, <1>3, <1>4, <1>5 DEF Inv, TypeOK
<1>7. health' \in [Transports -> Health]
  BY RecordedType DEF Inv
<1>8. TypeOK'
  BY <1>6, <1>7 DEF Inv, TypeOK
<1>9. KnownKept'
  BY DEF Inv, KnownKept
<1>10. InOrder'
  <2>. SUFFICES ASSUME ~Multi, restarts = 0, NEW d \in Envs, NEW r \in relays
                PROVE  Behind(d, r)'
    BY DEF InOrder, Multi
  <2>1. Behind(d, r)
    BY DEF Inv, InOrder
  <2>2. CASE ~(started = c /\ d = e)
    <3>1. sync[started] \in {<<>>} \cup [Envs -> Rosters \cup {Unread, Failed}] /\ started \in Callers
      BY DEF Inv, TypeOK
    <3>2. CASE started # c
      <4>1. sync'[started'] = sync[started]
        BY <3>1, <3>2, <1>5 DEF Inv, TypeOK
      <4>. QED BY <2>1, <4>1 DEF Behind
    <3>3. CASE started = c /\ d # e
      <4>1. sync[started] # <<>> /\ sync'[started'][d] = sync[started][d]
        BY <3>3, <1>4, <1>5 DEF Inv, TypeOK
      <4>. QED BY <2>1, <4>1 DEF Behind
    <3>. QED BY <2>2, <3>2, <3>3
  <2>3. CASE started = c /\ d = e
    <3>1. sync'[started'][d] = got
      BY <2>3, <1>2, <1>4, <1>5 DEF Inv, TypeOK
    <3>2. got = Failed \/ (copy[r][d] = NoFile /\ got = 0) \/ (copy[r][d] # NoFile /\ got = copy[r][d])
      <4>1. relays = {r} /\ Candidates = {r}
        BY OneTransport DEF Inv
      <4>2. good = {} \/ good = {r}
        BY <4>1
      <4>. QED BY <4>1, <4>2, <1>1, <2>3 DEF Answers
    <3>3. merged[d] \in Nat /\ (copy[r][d] # NoFile => copy[r][d] \in Nat)
      BY CopyType, RosterFacts DEF Inv, TypeOK
    <3>. QED BY <2>1, <3>1, <3>2, <3>3, RosterFacts DEF Behind
  <2>. QED BY <2>2, <2>3
<1>. QED BY <1>8, <1>9, <1>10 DEF Inv

\* Only the call started last merges what it read.
LEMMA InvSyncEnds ==
  ASSUME Inv, NEW c \in Callers, SyncEnds(c)
  PROVE  Inv' /\ (~Multi /\ restarts' = 0 => \A e \in Envs : merged'[e] >= merged[e])
<1>. USE DEF SyncEnds, relayVars, publishVars
<1>1. /\ sync[c] \in [Envs -> Rosters \cup {Unread, Failed}]
      /\ \A e \in Envs : sync[c][e] \in Rosters \cup {Failed}
  BY AllRead DEF Inv, TypeOK
<1>2. Merge(sync[c]) \in [Envs -> Rosters]
  BY <1>1, RosterFacts DEF Inv, TypeOK, Merge
<1>3. TypeOK'
  BY <1>2 DEF Inv, TypeOK
<1>4. KnownKept'
  BY DEF Inv, KnownKept
<1>5. ASSUME ~Multi, restarts = 0, NEW d \in Envs, NEW r \in relays
      PROVE  Behind(d, r)' /\ merged'[d] >= merged[d]
  <2>1. Behind(d, r)
    BY <1>5 DEF Inv, InOrder
  <2>2. merged[d] \in Nat /\ (copy[r][d] # NoFile => copy[r][d] \in Nat)
    BY <1>5, CopyType, RosterFacts DEF Inv, TypeOK
  <2>3. CASE started # c
    <3>1. merged' = merged /\ sync'[started'] = sync[started]
      BY <2>3 DEF Superseded, Inv, TypeOK
    <3>. QED BY <2>1, <2>2, <3>1 DEF Behind
  <2>4. CASE started = c
    <3>1. sync'[started'] = <<>>
      BY <2>4 DEF Inv, TypeOK
    <3>2. merged'[d] = IF sync[c][d] = Failed THEN merged[d] ELSE sync[c][d]
      BY <2>4, <1>5 DEF Superseded, Merge
    <3>. QED BY <2>1, <2>2, <2>4, <3>1, <3>2, <1>1, <1>5, RosterFacts DEF Behind
  <2>. QED BY <2>3, <2>4
<1>6. InOrder'
  BY <1>5 DEF InOrder, Multi
<1>7. ASSUME ~Multi, restarts = 0, NEW d \in Envs PROVE merged'[d] >= merged[d]
  <2>1. PICK r \in relays : TRUE
    BY DEF Inv, TypeOK
  <2>. QED BY <1>5, <1>7, <2>1
<1>. QED BY <1>3, <1>4, <1>6, <1>7 DEF Inv

\* A restart ends the order of the rosters, and keeps the rest.
LEMMA InvRestart ==
  ASSUME Inv, NEW e \in Envs \cup {Home}, Restart(e)
  PROVE  Inv' /\ restarts' # 0
<1>. USE DEF Restart, StartPublishing, StartReading
<1>1. e \in Envs => /\ roster' \in [Envs -> Rosters]
                    /\ known' \subseteq Envs
  BY RosterFacts DEF Inv, TypeOK, Discovered
<1>2. health' \in [Transports -> Health]
  BY BreakerAssumption DEF Inv, TypeOK, Healthy, Health
<1>3. sync' \in [Callers -> {<<>>} \cup [Envs -> Rosters \cup {Unread, Failed}]]
  BY DEF Inv, TypeOK
<1>4. merged' \in [Envs -> Rosters]
  BY RosterFacts DEF Inv, TypeOK
<1>a. writing' \in [Envs -> Rosters \cup {Never}] /\ published' \in [Envs -> Rosters \cup {Never}]
  BY DEF Inv, TypeOK
<1>5. TypeOK'
  BY <1>1, <1>2, <1>3, <1>4, <1>a DEF Inv, TypeOK
<1>6. KnownKept'
  <2>1. CASE e \in Envs
    BY <2>1, DirectoryAssumption, RosterFacts DEF Inv, TypeOK, KnownKept, Discovered
  <2>2. CASE e \notin Envs
    BY <2>2 DEF Inv, KnownKept
  <2>. QED BY <2>1, <2>2
<1>7. restarts' # 0
  BY DEF Inv, TypeOK
<1>. QED BY <1>5, <1>6, <1>7 DEF Inv, InOrder

\* Every step keeps it.
LEMMA NextInv == Inv /\ [Next]_vars => Inv'
<1>. SUFFICES ASSUME Inv, [Next]_vars PROVE Inv'
  OBVIOUS
<1>1. ASSUME NEW e \in Envs, RosterChanges(e) PROVE Inv'
  BY <1>1, InvRosterChanges
<1>2. ASSUME NEW e \in Envs, NEW onlyIfChanged \in BOOLEAN, PublishTick(e, onlyIfChanged) PROVE Inv'
  BY <1>2, InvPublishTick
<1>3. ASSUME NEW e \in Envs, Writes(e) PROVE Inv'
  BY <1>3, InvPublishWrite DEF Writes
<1>4. ASSUME NEW e \in Envs \cup {Home}, Restart(e) PROVE Inv'
  BY <1>4, InvRestart
<1>5. ASSUME NEW c \in Callers, SyncDirectory(c) PROVE Inv'
  BY <1>5, InvSyncDirectory
<1>6. ASSUME NEW c \in Callers, Reads(c) PROVE Inv'
  BY <1>6, InvReadDirectory DEF Reads
<1>7. ASSUME NEW c \in Callers, SyncEnds(c) PROVE Inv'
  BY <1>7, InvSyncEnds
<1>8. ASSUME NEW r \in relays, OtherUse(r) PROVE Inv'
  <2>1. health' \in [Transports -> Health]
    BY <1>8, RecordedType DEF Inv, OtherUse
  <2>. QED BY <1>8, <2>1, HealthOnly DEF OtherUse
<1>9. CASE Tick
  <2>1. ASSUME NEW h \in Health
        PROVE  [h EXCEPT !.openUntil = IF @ = 0 THEN 0 ELSE @ - 1] \in Health
    BY DEF Health
  <2>2. health' \in [Transports -> Health]
    BY <1>9, <2>1 DEF Inv, TypeOK, Tick
  <2>. QED BY <1>9, <2>2, HealthOnly DEF Tick
<1>10. CASE UNCHANGED vars
  <2>1. health' \in [Transports -> Health]
    BY <1>10 DEF Inv, TypeOK, vars, relayVars
  <2>. QED BY <1>10, <2>1, HealthOnly DEF vars, relayVars
<1>. QED BY <1>1, <1>2, <1>3, <1>4, <1>5, <1>6, <1>7, <1>8, <1>9, <1>10 DEF Next

-----------------------------------------------------------------------------
(***************************************************************************)
(* The theorems.                                                           *)
(***************************************************************************)

\* The invariant holds at every moment.
THEOREM Invariance == Spec => []Inv
BY InitInv, NextInv, PTL DEF Spec

\* Type correctness (the state of startDirectorySync and of MultiRelay).
THEOREM Typing == Spec => []TypeOK
<1>1. Inv => TypeOK
  BY DEF Inv
<1>. QED BY <1>1, Invariance, PTL

\* Whatever fails, rosterSource never lets an empty roster over a known one.
THEOREM Emptied == Spec => NeverEmptied
<1>1. ASSUME Inv, [Next]_vars, NEW e \in known, NEW r \in Transports, copy'[r][e] = 0
      PROVE  copy[r][e] = 0
  <2>0. e \in Envs /\ writing[e] # 0
    BY <1>1 DEF Inv, TypeOK, KnownKept
  <2>1. ASSUME NEW d \in Envs, Writes(d) PROVE copy[r][e] = 0
    <3>1. PICK landed \in SUBSET relays, ok \in SUBSET relays : PublishWrite(d, landed, ok)
      BY <2>1 DEF Writes
    <3>2. copy'[r][e] = copy[r][e] \/ copy'[r][e] = writing[e]
      BY <2>0, <3>1, <1>1 DEF PublishWrite, WriteFile, Inv, TypeOK
    <3>. QED BY <2>0, <3>2, <1>1
  <2>2. CASE copy' = copy
    BY <2>2, <1>1
  <2>3. (\E d \in Envs : Writes(d)) \/ copy' = copy
    BY <1>1 DEF Next, vars, relayVars, RosterChanges, PublishTick, Restart, SyncDirectory,
                Reads, ReadDirectory, SyncEnds, OtherUse, Tick
  <2>. QED BY <2>1, <2>2, <2>3
<1>2. Inv /\ [Next]_vars => [\A e \in known, r \in Transports : copy'[r][e] = 0 => copy[r][e] = 0]_vars
  BY <1>1
<1>. QED BY <1>2, Invariance, PTL DEF Spec, NeverEmptied

\* A process that nobody restarted, with one transport, never shows an older
\* roster, however calls of syncDirectory overlap.
THEOREM Forwards == Spec => NeverBack
<1>1. ASSUME Inv, [Next]_vars, ~Multi, restarts' = 0, NEW e \in Envs
      PROVE  merged'[e] >= merged[e]
  <2>0. merged[e] \in Nat
    BY <1>1, RosterFacts DEF Inv, TypeOK
  <2>1. ASSUME NEW c \in Callers, SyncEnds(c) PROVE merged'[e] >= merged[e]
    BY <2>1, <1>1, InvSyncEnds
  <2>2. ASSUME NEW d \in Envs \cup {Home}, Restart(d) PROVE merged'[e] >= merged[e]
    BY <2>2, <1>1, InvRestart
  <2>3. CASE merged' = merged
    BY <2>0, <2>3
  <2>4. \/ \E c \in Callers : SyncEnds(c)
        \/ \E d \in Envs \cup {Home} : Restart(d)
        \/ merged' = merged
    BY <1>1 DEF Next, vars, syncVars, RosterChanges, PublishTick, Writes, PublishWrite,
                SyncDirectory, Reads, ReadDirectory, OtherUse, Tick
  <2>. QED BY <2>1, <2>2, <2>3, <2>4
<1>2. Inv /\ [Next]_vars =>
        [~Multi /\ restarts' = 0 => \A e \in Envs : merged'[e] >= merged[e]]_vars
  BY <1>1
<1>. QED BY <1>2, Invariance, PTL DEF Spec, NeverBack
=============================================================================
