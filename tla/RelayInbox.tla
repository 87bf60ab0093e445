---------------------------- MODULE RelayInbox ----------------------------
(***************************************************************************)
(* The receiving side of vortex-relay: VortexRelayBridge._pollOnce,        *)
(* _loadSeen and _saveSeen of src/vortex-relay/bridge.js.  A poll reads    *)
(* this environment's log (a read may miss any part of it), hands what it  *)
(* has not seen to the local broker through the gateway's connection, and  *)
(* saves the seen-set, which keeps the newest SeenMax marks not older than *)
(* SeenTTL.  Nothing ever trims the log.                                   *)
(***************************************************************************)
EXTENDS Integers, FiniteSets

CONSTANTS
  Messages,
  SeenMax,      (* SEEN_MAX                                                *)
  SeenTTL,      (* SEEN_TTL_MS                                             *)
  Window,       (* SEEN_BOOTSTRAP_WINDOW_MS                                *)
  FirstRun,     (* time of the first start; the log may be older           *)
  MaxNow,       (* bound of the clock                                      *)
  MaxStarts     (* bound of the number of restarts                         *)

ASSUME InboxAssumption ==
  /\ IsFiniteSet(Messages)
  /\ SeenMax \in Nat /\ SeenTTL \in Nat /\ Window \in Nat
  /\ FirstRun \in Nat \ {0} /\ MaxNow \in Nat /\ MaxStarts \in Nat

VARIABLES
  stamp,        (* ts of each message in the log; 0 if it is not there     *)
  now,          (* Date.now()                                              *)
  seen,         (* this._seen: time of the first sight; 0 if none          *)
  seenFile,     (* what the seen file holds                                *)
  fileThere,    (* the seen file exists                                    *)
  cutoff,       (* this._bootstrapCutoff; 0 is null                        *)
  linkUp,       (* the gateway's client is connected to the local broker   *)
  starts,       (* number of restarts                                      *)
  handed,       (* history: how often the local broker got each message    *)
  lost,         (* history: messages published on a closed client          *)
  unsaved,      (* history: marks of each message that a restart lost      *)
  backlog       (* history: messages older than the cutoff of a first run  *)

marks   == <<seen, seenFile, fileThere, cutoff>>
history == <<handed, lost, unsaved, backlog>>
vars    == <<stamp, now, marks, linkUp, starts, history>>

MaxHanded == MaxStarts + 2      \* bound of the count handed
NoMarks   == [m \in Messages |-> 0]
Marked(s) == {m \in Messages : s[m] # 0}
Stored    == Marked(stamp)

\* Mutant of Fresh: a cursor, what is newer than all that was seen.
PastTheCursor(answer) ==
  {m \in answer : seen[m] = 0 /\ \A n \in Marked(seen) : stamp[m] > stamp[n]}

Fresh(answer) == {m \in answer : seen[m] = 0}

\* Marked seen on a first run, without being handed over.
Skipped(answer) == {m \in Fresh(answer) : cutoff # 0 /\ stamp[m] < cutoff}

\* The sets of marks that _saveSeen may keep of s: ties are anybody's.
Bounded(s) ==
  LET live == {m \in Marked(s) : s[m] >= now - SeenTTL}
      Newest(keep) == \A k \in keep, d \in live \ keep : s[d] <= s[k]
  IN  IF Cardinality(live) <= SeenMax THEN {live}
      ELSE {keep \in SUBSET live : Cardinality(keep) = SeenMax /\ Newest(keep)}

\* The file is replaced by a rename; a failure is logged, and memory has
\* shrunk all the same.
SaveSeen(s, ok) ==
  \E keep \in Bounded(s) :
    /\ seen' = [m \in Messages |-> IF m \in keep THEN s[m] ELSE 0]
    /\ seenFile' = IF ok THEN seen' ELSE seenFile
    /\ fileThere' = (fileThere \/ ok)

\* _deliverLocally: publishes on the gateway's client, closed or not.
DeliverLocally(ms) ==
  IF linkUp
  THEN /\ handed' = [m \in Messages |-> IF m \in ms /\ handed[m] < MaxHanded
                                       THEN handed[m] + 1 ELSE handed[m]]
       /\ UNCHANGED lost
  ELSE lost' = lost \cup ms /\ UNCHANGED handed

PollOnce(answer, ok) ==
  /\ DeliverLocally(Fresh(answer) \ Skipped(answer))
  /\ cutoff' = IF answer # {} THEN 0 ELSE cutoff
  /\ \/ Fresh(answer) = {} /\ UNCHANGED <<seen, seenFile, fileThere>>
     \/ /\ Fresh(answer) # {}
        /\ SaveSeen([m \in Messages |-> IF m \in Fresh(answer) THEN now ELSE seen[m]], ok)
  /\ UNCHANGED <<stamp, now, linkUp, starts, unsaved, backlog>>

\* Mutant of FirstCutoff: the cutoff is set at every start.
CutoffAlways == now - Window

\* Only a seen file that is not there sets a cutoff.
FirstCutoff == IF fileThere THEN 0 ELSE now - Window

\* Mutant of LoadSeen: starts from nothing.
LoadNothing == NoMarks

LoadSeen == seenFile

\* The process dies or is stopped, and another one starts and connects.
Restart ==
  /\ starts < MaxStarts
  /\ starts' = starts + 1
  /\ seen' = LoadSeen
  /\ cutoff' = FirstCutoff
  /\ linkUp' = TRUE
  /\ unsaved' = [m \in Messages |-> IF seen[m] # 0 /\ seenFile[m] = 0 THEN unsaved[m] + 1
                                                                      ELSE unsaved[m]]
  /\ backlog' = IF fileThere THEN backlog
                ELSE backlog \cup {m \in Stored : stamp[m] < now - Window}
  /\ UNCHANGED <<stamp, now, seenFile, fileThere, handed, lost>>

\* Another environment appends m.
Arrive(m) ==
  /\ stamp[m] = 0
  /\ stamp' = [stamp EXCEPT ![m] = now]
  /\ UNCHANGED <<now, marks, linkUp, starts, history>>

\* A keep-alive timeout, and the reconnection that index.js retries.
LinkDown ==
  /\ linkUp
  /\ linkUp' = FALSE
  /\ UNCHANGED <<stamp, now, marks, starts, history>>

LinkUp ==
  /\ ~linkUp
  /\ linkUp' = TRUE
  /\ UNCHANGED <<stamp, now, marks, starts, history>>

Tick ==
  /\ now < MaxNow
  /\ now' = now + 1
  /\ UNCHANGED <<stamp, marks, linkUp, starts, history>>

Init ==
  /\ now = FirstRun
  /\ stamp \in [Messages -> 0 .. FirstRun]
  /\ seen = NoMarks /\ seenFile = NoMarks /\ fileThere = FALSE
  /\ cutoff = FirstRun - Window
  /\ linkUp = TRUE /\ starts = 0
  /\ handed = NoMarks /\ lost = {} /\ unsaved = NoMarks
  /\ backlog = {m \in Stored : stamp[m] < FirstRun - Window}

Next ==
  \/ \E answer \in SUBSET Stored, ok \in BOOLEAN : PollOnce(answer, ok)
  \/ Restart
  \/ \E m \in Messages : Arrive(m)
  \/ LinkDown \/ LinkUp \/ Tick

Spec == Init /\ [][Next]_vars

(* The poll timer keeps firing, and a read returns the whole log again and *)
(* again.                                                                  *)
FairSpec == Spec /\ WF_vars(\E ok \in BOOLEAN : PollOnce(Stored, ok))
-----------------------------------------------------------------------------
TypeOK ==
  /\ stamp \in [Messages -> Nat] /\ now \in Nat
  /\ seen \in [Messages -> Nat] /\ seenFile \in [Messages -> Nat]
  /\ fileThere \in BOOLEAN /\ cutoff \in Int
  /\ linkUp \in BOOLEAN /\ starts \in Nat
  /\ handed \in [Messages -> Nat] /\ unsaved \in [Messages -> Nat]
  /\ lost \subseteq Messages /\ backlog \subseteq Messages

(* While the log fits in the seen-set and the message is younger than its  *)
(* TTL, shorter and longer reads, restarts and failed writes of the seen   *)
(* file never hand a message over again, but for a mark that a restart     *)
(* lost before it could be written.                                        *)
OnceWithinBounds ==
  \A m \in Stored :
    Cardinality(Stored) <= SeenMax /\ now - stamp[m] <= SeenTTL =>
      handed[m] <= 1 + unsaved[m]

(* Nothing is marked without being handed over, but for the backlog of a   *)
(* first run; on disk and in memory alike.                                 *)
MarkedWasHanded ==
  \A m \in Marked(seen) \cup Marked(seenFile) :
    handed[m] > 0 \/ m \in lost \/ m \in backlog

(* What gets into the log is looked at, however patchy the reads are.      *)
EveryMessageSeen == \A m \in Messages : stamp[m] # 0 ~> handed[m] > 0 \/ m \in lost \cup backlog
=============================================================================
