------------------------------ MODULE GistLog ------------------------------
(***************************************************************************)
(* GistRelay.appendMessage of src/vortex-relay/relay.js on one file, the   *)
(* inbox of one environment: a read of the whole file and then a PATCH     *)
(* that replaces it.  A queue per process orders the appends of one        *)
(* environment; nothing orders those of two.                               *)
(***************************************************************************)
EXTENDS Naturals, Sequences

CONSTANTS
  Envs,         (* the environments that route messages to the file's owner*)
  Messages,
  Sender        (* Sender[m]: the environment that appends message m       *)

ASSUME SenderAssumption == Sender \in [Messages -> Envs]

VARIABLES
  file,         (* the log, as GitHub stores it                            *)
  queue,        (* this._writeQueues: appends not settled yet, in order    *)
  stage,        (* how far the append of each message has got              *)
  current,      (* the log as the append of each message has read it       *)
  calls,        (* history: the messages in the order of their calls       *)
  misread       (* history: a read has failed                              *)

vars == <<file, queue, stage, current, calls, misread>>

Stages == {"new", "queued", "patching", "accepted", "failed"}

AppendMessage(m) ==
  /\ stage[m] = "new"
  /\ stage' = [stage EXCEPT ![m] = "queued"]
  /\ queue' = [queue EXCEPT ![Sender[m]] = Append(@, m)]
  /\ calls' = Append(calls, m)
  /\ UNCHANGED <<file, current, misread>>

\* Mutant of Turn: no queue, every call starts at once.
AnyTurn(m) == stage[m] = "queued"

\* What was queued before m has settled, well or badly.
Turn(m) == stage[m] = "queued" /\ Head(queue[Sender[m]]) = m

ReadWorks(m) ==
  /\ Turn(m)
  /\ stage'   = [stage EXCEPT ![m] = "patching"]
  /\ current' = [current EXCEPT ![m] = file]
  /\ UNCHANGED <<file, queue, calls, misread>>

\* readFile(...).catch(() => []).
ReadFails(m) ==
  /\ Turn(m)
  /\ stage'   = [stage EXCEPT ![m] = "patching"]
  /\ current' = [current EXCEPT ![m] = <<>>]
  /\ misread' = TRUE
  /\ UNCHANGED <<file, queue, calls>>

\* Mutant of Settled: a failure leaves the chain rejected, and what comes
\* after it waits for ever.
Wedged(m, result) ==
  /\ stage' = [stage EXCEPT ![m] = result]
  /\ queue' = IF result = "failed" THEN queue ELSE [queue EXCEPT ![Sender[m]] = Tail(@)]

\* The append of m is over, and the next of the queue starts.
Settled(m, result) ==
  /\ stage' = [stage EXCEPT ![m] = result]
  /\ queue' = [queue EXCEPT ![Sender[m]] = Tail(@)]

\* Mutant of NewLog: the message goes to the head of the log.
NewestFirst(m) == <<m>> \o current[m]

NewLog(m) == Append(current[m], m)

\* GitHub applies the PATCH; the answer may get lost on its way back.
Patched(m) ==
  /\ stage[m] = "patching"
  /\ file' = NewLog(m)
  /\ \E result \in {"accepted", "failed"} : Settled(m, result)
  /\ UNCHANGED <<current, calls, misread>>

\* 403, or no connection.
PatchRefused(m) ==
  /\ stage[m] = "patching"
  /\ Settled(m, "failed")
  /\ UNCHANGED <<file, current, calls, misread>>

Init ==
  /\ file = <<>>
  /\ queue = [w \in Envs |-> <<>>]
  /\ stage = [m \in Messages |-> "new"]
  /\ current = [m \in Messages |-> <<>>]
  /\ calls = <<>>
  /\ misread = FALSE

Next ==
  \E m \in Messages :
    AppendMessage(m) \/ ReadWorks(m) \/ ReadFails(m) \/ Patched(m) \/ PatchRefused(m)

Spec == Init /\ [][Next]_vars

Step(m) == ReadWorks(m) \/ ReadFails(m) \/ Patched(m) \/ PatchRefused(m)

(* GitHub answers each request, or the request times out.                  *)
FairSpec == Spec /\ \A m \in Messages : WF_vars(Step(m))
-----------------------------------------------------------------------------
InLog == {file[i] : i \in DOMAIN file}
OneSender == \A i, j \in DOMAIN calls : Sender[calls[i]] = Sender[calls[j]]

TypeOK ==
  /\ file \in Seq(Messages)
  /\ queue \in [Envs -> Seq(Messages)]
  /\ stage \in [Messages -> Stages]
  /\ current \in [Messages -> Seq(Messages)]
  /\ calls \in Seq(Messages)
  /\ misread \in BOOLEAN

(* As long as one environment alone writes the file, and every read of it  *)
(* works, no append is lost to another (the queue of appendMessage).       *)
OneWriterKeepsAll ==
  ~misread /\ OneSender =>
    \A m \in Messages : stage[m] = "accepted" => m \in InLog

(* The log holds a message once at most, and the messages of a sender in   *)
(* the order it sent them, whatever was refused, misread or overwritten.   *)
SendersInOrder ==
  \A i, j \in DOMAIN file : i < j =>
    /\ file[i] # file[j]
    /\ Sender[file[i]] = Sender[file[j]] =>
         \E a, b \in DOMAIN calls : a < b /\ calls[a] = file[i] /\ calls[b] = file[j]

(* A failed append does not hold up the ones after it (relay.js:111-116).  *)
EveryAppendSettles ==
  \A m \in Messages : stage[m] = "queued" ~> stage[m] \in {"accepted", "failed"}
=============================================================================
