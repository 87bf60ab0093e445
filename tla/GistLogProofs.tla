--------------------------- MODULE GistLogProofs ---------------------------
(* Theorems about GistRelay.appendMessage, for every set of environments   *)
(* and of messages, whatever is refused, misread, lost or overwritten.     *)
EXTENDS GistLog, TLAPS

(***************************************************************************)
(* The invariant.                                                          *)
(***************************************************************************)

Live == {"queued", "patching"}
Done == {"accepted", "failed"}

\* In the sequence s, m comes before n.
Before(s, m, n) == \E a, b \in DOMAIN s : a < b /\ s[a] = m /\ s[b] = n

\* The appends of a sender wait in the order of their calls, each once, and
\* only the first of them can be under way.
Queued ==
  /\ \A m \in Messages : stage[m] = "new" <=> \A i \in DOMAIN calls : calls[i] # m
  /\ \A a, b \in DOMAIN calls : calls[a] = calls[b] => a = b
  /\ \A w \in Envs : \A i \in DOMAIN queue[w] :
       Sender[queue[w][i]] = w /\ stage[queue[w][i]] \in Live
  /\ \A w \in Envs : \A i, j \in DOMAIN queue[w] :
       i < j => Before(calls, queue[w][i], queue[w][j])
  /\ \A m \in Messages : stage[m] \in Live =>
       \E i \in DOMAIN queue[Sender[m]] : queue[Sender[m]][i] = m
  /\ \A m \in Messages : stage[m] = "patching" => queue[Sender[m]][1] = m

\* What is over was called before what is pending.
InTurn ==
  \A m, n \in Messages :
    stage[m] \in Done /\ stage[n] \in Live /\ Sender[m] = Sender[n] => Before(calls, m, n)

\* A log, on GitHub or in the hands of an append, holds only what is over (by
\* the stages st), and of each sender in the order of its calls (c).
InOrder(c, st, log) ==
  /\ \A i \in DOMAIN log : st[log[i]] \in Done
  /\ \A i, j \in DOMAIN log : i < j =>
       log[i] # log[j] /\ (Sender[log[i]] = Sender[log[j]] => Before(c, log[i], log[j]))

Logs ==
  /\ InOrder(calls, stage, file)
  /\ \A m \in Messages : stage[m] = "patching" => InOrder(calls, stage, current[m])

\* One sender's append has read whatever was accepted before it.
Holds(st, log) == \A m \in Messages : st[m] = "accepted" => \E i \in DOMAIN log : log[i] = m

Kept ==
  ~misread /\ OneSender =>
    /\ Holds(stage, file)
    /\ \A m \in Messages : stage[m] = "patching" => Holds(stage, current[m])

Inv == TypeOK /\ Queued /\ InTurn /\ Logs /\ Kept

-----------------------------------------------------------------------------
\* Everything holds at first.
LEMMA InitInv == Init => Inv
<1>. SUFFICES ASSUME Init PROVE Inv
  OBVIOUS
<1>1. TypeOK
  <2>1. <<>> \in Seq(Messages)
    OBVIOUS
  <2>. QED BY <2>1 DEF Init, TypeOK, Stages
<1>2. Queued /\ InTurn
  <2>1. \A m \in Messages : stage[m] = "new"
    BY DEF Init
  <2>2. DOMAIN calls = {}
    BY DEF Init
  <2>3. \A w \in Envs : queue[w] = <<>>
    BY DEF Init
  <2>. QED BY <2>1, <2>2, <2>3 DEF Queued, InTurn, Live, Done
<1>3. Logs /\ Kept
  BY DEF Init, Logs, InOrder, Kept, Holds, Done
<1>. QED BY <1>1, <1>2, <1>3 DEF Inv

\* A call of appendMessage comes after all the others.
LEMMA AppendKeeps ==
  ASSUME Inv, NEW m \in Messages, AppendMessage(m)
  PROVE  Inv'
<1>. DEFINE w == Sender[m]
<1>0. /\ TypeOK /\ Queued /\ InTurn /\ Logs /\ Kept
      /\ stage[m] = "new" /\ w \in Envs
      /\ queue[w] \in Seq(Messages)
  BY SenderAssumption DEF Inv, AppendMessage, TypeOK
<1>1. /\ stage' = [stage EXCEPT ![m] = "queued"]
      /\ queue' = [queue EXCEPT ![w] = Append(queue[w], m)]
      /\ calls' = Append(calls, m)
      /\ file' = file /\ current' = current /\ misread' = misread
  BY DEF AppendMessage
<1>2. /\ calls \in Seq(Messages) /\ calls' \in Seq(Messages)
      /\ DOMAIN calls = 1..Len(calls) /\ DOMAIN calls' = 1..(Len(calls) + 1)
      /\ Len(calls) \in Nat
      /\ calls'[Len(calls) + 1] = m
      /\ \A i \in DOMAIN calls : calls'[i] = calls[i] /\ i \in DOMAIN calls'
  BY <1>0, <1>1 DEF TypeOK
<1>3. \A x, y : Before(calls, x, y) => Before(calls', x, y)
  BY <1>2 DEF Before
<1>4. \A x \in Messages : stage[x] # "new" => Before(calls', x, m)
  <2>. SUFFICES ASSUME NEW x \in Messages, stage[x] # "new" PROVE Before(calls', x, m)
    OBVIOUS
  <2>1. PICK i \in DOMAIN calls : calls[i] = x
    BY <1>0 DEF Queued
  <2>. QED BY <2>1, <1>2 DEF Before
<1>5. /\ \A v \in Envs : v # w => queue'[v] = queue[v]
      /\ queue'[w] \in Seq(Messages)
      /\ DOMAIN queue[w] = 1..Len(queue[w]) /\ DOMAIN queue'[w] = 1..(Len(queue[w]) + 1)
      /\ Len(queue[w]) \in Nat
      /\ queue'[w][Len(queue[w]) + 1] = m
      /\ \A i \in DOMAIN queue[w] : queue'[w][i] = queue[w][i] /\ i \in DOMAIN queue'[w]
  <2>1. queue'[w] = Append(queue[w], m)
    BY <1>0, <1>1 DEF TypeOK
  <2>2. \A v \in Envs : v # w => queue'[v] = queue[v]
    BY <1>0, <1>1 DEF TypeOK
  <2>. HIDE DEF w
  <2>. QED BY <2>1, <2>2, <1>0
<1>6. /\ stage'[m] = "queued" /\ \A x \in Messages : x # m => stage'[x] = stage[x]
      /\ stage'[m] \in Live
      /\ \A x \in Messages : stage'[x] \in Live => x = m \/ stage[x] \in Live
      /\ \A x \in Messages : stage'[x] \in Done <=> stage[x] \in Done
      /\ \A x \in Messages : stage[x] \in Live \cup Done => stage[x] # "new"
      /\ \A x \in Messages : stage[x] \in Live => stage'[x] \in Live
  BY <1>0, <1>1 DEF TypeOK, Live, Done
<1>. HIDE DEF w
<1>7. TypeOK'
  <2>1. queue' \in [Envs -> Seq(Messages)]
    BY <1>0, <1>1, <1>5 DEF TypeOK
  <2>2. stage' \in [Messages -> Stages]
    BY <1>0, <1>1 DEF TypeOK, Stages
  <2>. QED BY <1>0, <1>1, <1>2, <2>1, <2>2 DEF TypeOK
<1>8. Queued'
  <2>1. \A x \in Messages : stage'[x] = "new" <=> \A i \in DOMAIN calls' : calls'[i] # x
    BY <1>0, <1>2, <1>6 DEF Queued
  <2>2. \A a, b \in DOMAIN calls' : calls'[a] = calls'[b] => a = b
    <3>1. \A a \in DOMAIN calls : calls[a] # m
      BY <1>0 DEF Queued
    <3>. QED BY <1>0, <1>2, <3>1 DEF Queued
  <2>3. \A v \in Envs : \A i \in DOMAIN queue'[v] :
           Sender[queue'[v][i]] = v /\ stage'[queue'[v][i]] \in Live
    <3>. SUFFICES ASSUME NEW v \in Envs, NEW i \in DOMAIN queue'[v]
                  PROVE  Sender[queue'[v][i]] = v /\ stage'[queue'[v][i]] \in Live
      OBVIOUS
    <3>1. CASE v = w /\ i = Len(queue[w]) + 1
      BY <3>1, <1>5, <1>6 DEF w
    <3>2. CASE ~(v = w /\ i = Len(queue[w]) + 1)
      <4>1. i \in DOMAIN queue[v] /\ queue'[v][i] = queue[v][i]
        BY <3>2, <1>5
      <4>2. queue[v][i] \in Messages
        BY <4>1, <1>0 DEF TypeOK
      <4>. QED BY <4>1, <4>2, <1>0, <1>6 DEF Queued
    <3>. QED BY <3>1, <3>2
  <2>4. \A v \in Envs : \A i, j \in DOMAIN queue'[v] :
           i < j => Before(calls', queue'[v][i], queue'[v][j])
    <3>. SUFFICES ASSUME NEW v \in Envs, NEW i \in DOMAIN queue'[v], NEW j \in DOMAIN queue'[v], i < j
                  PROVE  Before(calls', queue'[v][i], queue'[v][j])
      OBVIOUS
    <3>0. queue[v] \in Seq(Messages) /\ DOMAIN queue[v] = 1..Len(queue[v])
      BY <1>0 DEF TypeOK
    <3>1. i \in DOMAIN queue[v] /\ queue'[v][i] = queue[v][i]
      BY <1>5, <3>0
    <3>2. queue[v][i] \in Messages
      BY <3>1, <3>0
    <3>3. CASE v = w /\ j = Len(queue[w]) + 1
      <4>1. stage[queue[v][i]] \in Live
        BY <1>0, <3>1 DEF Queued
      <4>. QED BY <3>1, <3>2, <3>3, <4>1, <1>4, <1>5, <1>6
    <3>4. CASE ~(v = w /\ j = Len(queue[w]) + 1)
      <4>1. j \in DOMAIN queue[v] /\ queue'[v][j] = queue[v][j]
        BY <3>4, <1>5
      <4>. QED BY <3>1, <4>1, <1>0, <1>3 DEF Queued
    <3>. QED BY <3>3, <3>4
  <2>5. \A x \in Messages : stage'[x] \in Live =>
           \E i \in DOMAIN queue'[Sender[x]] : queue'[Sender[x]][i] = x
    <3>. SUFFICES ASSUME NEW x \in Messages, stage'[x] \in Live
                  PROVE  \E i \in DOMAIN queue'[Sender[x]] : queue'[Sender[x]][i] = x
      OBVIOUS
    <3>1. CASE x = m
      <4>1. Len(queue[w]) + 1 \in DOMAIN queue'[w]
        BY <1>5
      <4>. QED BY <3>1, <4>1, <1>5 DEF w
    <3>2. CASE x # m
      <4>1. PICK i \in DOMAIN queue[Sender[x]] : queue[Sender[x]][i] = x
        BY <3>2, <1>0, <1>6 DEF Queued
      <4>2. Sender[x] \in Envs
        BY SenderAssumption
      <4>. QED BY <4>1, <4>2, <1>5
    <3>. QED BY <3>1, <3>2
  <2>6. \A x \in Messages : stage'[x] = "patching" => queue'[Sender[x]][1] = x
    <3>. SUFFICES ASSUME NEW x \in Messages, stage'[x] = "patching"
                  PROVE  queue'[Sender[x]][1] = x
      OBVIOUS
    <3>1. stage[x] = "patching" /\ x # m /\ queue[Sender[x]][1] = x
      BY <1>0, <1>6 DEF Queued
    <3>2. PICK i \in DOMAIN queue[Sender[x]] : queue[Sender[x]][i] = x
      BY <3>1, <1>0 DEF Queued, Live
    <3>3. Sender[x] \in Envs /\ queue[Sender[x]] \in Seq(Messages)
      BY SenderAssumption, <1>0 DEF TypeOK
    <3>4. 1 \in DOMAIN queue[Sender[x]]
      BY <3>2, <3>3
    <3>. QED BY <3>1, <3>3, <3>4, <1>5
  <2>. QED BY <2>1, <2>2, <2>3, <2>4, <2>5, <2>6 DEF Queued
<1>9. InTurn'
  <2>. SUFFICES ASSUME NEW x \in Messages, NEW y \in Messages,
                       stage'[x] \in Done, stage'[y] \in Live, Sender[x] = Sender[y]
                PROVE  Before(calls', x, y)
    BY DEF InTurn
  <2>1. stage[x] \in Done /\ stage[x] # "new"
    BY <1>6
  <2>. QED BY <2>1, <1>0, <1>3, <1>4, <1>6 DEF InTurn
<1>10. Logs'
  <2>1. \A log \in Seq(Messages) : InOrder(calls, stage, log) => InOrder(calls', stage', log)
    <3>. SUFFICES ASSUME NEW log \in Seq(Messages), InOrder(calls, stage, log) PROVE InOrder(calls', stage', log)
      OBVIOUS
    <3>1. \A i \in DOMAIN log : log[i] \in Messages
      OBVIOUS
    <3>. QED BY <3>1, <1>3, <1>6 DEF InOrder
  <2>2. \A x \in Messages : stage'[x] = "patching" => stage[x] = "patching"
    BY <1>6
  <2>3. file \in Seq(Messages) /\ \A x \in Messages : current[x] \in Seq(Messages)
    BY <1>0 DEF TypeOK
  <2>. QED BY <1>0, <1>1, <2>1, <2>2, <2>3 DEF Logs
<1>11. Kept'
  <2>1. OneSender' => OneSender
    <3>. SUFFICES ASSUME OneSender' PROVE OneSender
      OBVIOUS
    <3>. QED BY <1>2 DEF OneSender
  <2>2. \A x \in Messages : stage'[x] \in {"accepted", "patching"} => stage[x] = stage'[x]
    BY <1>6
  <2>. QED BY <1>0, <1>1, <2>1, <2>2 DEF Kept, Holds
<1>. QED BY <1>7, <1>8, <1>9, <1>10, <1>11 DEF Inv

\* The read of an append gives it the file, or nothing.
LEMMA ReadKeeps ==
  ASSUME Inv, NEW m \in Messages, ReadWorks(m) \/ ReadFails(m)
  PROVE  Inv'
<1>0. /\ TypeOK /\ Queued /\ InTurn /\ Logs /\ Kept
      /\ stage[m] = "queued"
  BY DEF Inv, ReadWorks, ReadFails, Turn
<1>1. /\ stage' = [stage EXCEPT ![m] = "patching"]
      /\ queue' = queue /\ calls' = calls /\ file' = file
      /\ \/ current' = [current EXCEPT ![m] = file] /\ misread' = misread
         \/ current' = [current EXCEPT ![m] = <<>>] /\ misread' = TRUE
  BY DEF ReadWorks, ReadFails
<1>2. queue[Sender[m]][1] = m
  <2>1. queue[Sender[m]] \in Seq(Messages)
    BY <1>0, SenderAssumption DEF TypeOK
  <2>2. Head(queue[Sender[m]]) = m
    BY DEF ReadWorks, ReadFails, Turn
  <2>3. PICK i \in DOMAIN queue[Sender[m]] : TRUE
    BY <1>0 DEF Queued, Live
  <2>. QED BY <2>1, <2>2, <2>3
<1>3. /\ stage'[m] = "patching" /\ \A x \in Messages : x # m => stage'[x] = stage[x]
      /\ \A x \in Messages : /\ stage'[x] \in Live <=> stage[x] \in Live
                             /\ stage'[x] \in Done <=> stage[x] \in Done
                             /\ stage'[x] = "new" <=> stage[x] = "new"
                             /\ stage'[x] = "accepted" <=> stage[x] = "accepted"
  BY <1>0, <1>1 DEF TypeOK, Live, Done
<1>4. TypeOK'
  <2>1. stage' \in [Messages -> Stages]
    BY <1>0, <1>1 DEF TypeOK, Stages
  <2>2. current' \in [Messages -> Seq(Messages)]
    <3>1. <<>> \in Seq(Messages) /\ file \in Seq(Messages)
      BY <1>0 DEF TypeOK
    <3>. QED BY <1>0, <1>1, <3>1 DEF TypeOK
  <2>. QED BY <1>0, <1>1, <2>1, <2>2 DEF TypeOK
<1>5. Queued'
  <2>1. \A w \in Envs : \A i \in DOMAIN queue[w] : queue[w][i] \in Messages
    BY <1>0 DEF TypeOK
  <2>. QED BY <1>0, <1>1, <1>2, <1>3, <2>1 DEF Queued
<1>6. InTurn'
  BY <1>0, <1>1, <1>3 DEF InTurn
<1>7. /\ current'[m] = <<>> \/ current'[m] = file
      /\ ~misread' => ~misread /\ current'[m] = file
      /\ \A x \in Messages : x # m => current'[x] = current[x]
  BY <1>0, <1>1 DEF TypeOK
<1>8. Logs'
  <2>1. \A log \in Seq(Messages) :
           InOrder(calls, stage, log) => InOrder(calls', stage', log)
    BY <1>1, <1>3 DEF InOrder
  <2>2. InOrder(calls', stage', <<>>)
    BY DEF InOrder
  <2>3. file \in Seq(Messages) /\ \A x \in Messages : current[x] \in Seq(Messages)
    BY <1>0 DEF TypeOK
  <2>. QED BY <1>0, <1>1, <1>3, <1>7, <2>1, <2>2, <2>3 DEF Logs
<1>9. Kept'
  <2>1. OneSender' = OneSender
    BY <1>1 DEF OneSender
  <2>2. \A log : Holds(stage, log) => Holds(stage', log)
    BY <1>3 DEF Holds
  <2>. QED BY <1>0, <1>1, <1>3, <1>7, <2>1, <2>2 DEF Kept
<1>. QED BY <1>4, <1>5, <1>6, <1>8, <1>9 DEF Inv

\* The end of an append: GitHub has applied its PATCH, or it has not.
LEMMA PatchKeeps ==
  ASSUME Inv, NEW m \in Messages, Patched(m) \/ PatchRefused(m)
  PROVE  Inv'
<1>. DEFINE w == Sender[m]
<1>0. /\ TypeOK /\ Queued /\ InTurn /\ Logs /\ Kept
      /\ stage[m] = "patching" /\ w \in Envs
      /\ queue[w] \in Seq(Messages) /\ queue[w][1] = m
  BY SenderAssumption DEF Inv, Patched, PatchRefused, TypeOK, Queued
<1>1. PICK result \in Done :
        /\ stage' = [stage EXCEPT ![m] = result]
        /\ queue' = [queue EXCEPT ![w] = Tail(queue[w])]
        /\ calls' = calls /\ current' = current /\ misread' = misread
        /\ file' = Append(current[m], m) \/ (file' = file /\ result = "failed")
  BY DEF Patched, PatchRefused, Settled, NewLog, Done
<1>2. /\ stage'[m] = result /\ \A x \in Messages : x # m => stage'[x] = stage[x]
      /\ \A x \in Messages : stage'[x] \in Live => x # m /\ stage[x] \in Live
      /\ \A x \in Messages : stage[x] \in Live => stage[x] \notin Done
      /\ \A x \in Messages : stage[x] \in Done => x # m /\ stage'[x] = stage[x]
      /\ \A x \in Messages : stage'[x] = "new" <=> stage[x] = "new"
      /\ \A x \in Messages : x # m /\ stage[x] \in Live => stage'[x] \in Live
      /\ \A x \in Messages : stage'[x] \in Done => x = m \/ stage[x] \in Done
  BY <1>0, <1>1 DEF TypeOK, Live, Done
<1>3. PICK k \in DOMAIN queue[w] : queue[w][k] = m
  BY <1>0 DEF Queued, Live
<1>4. /\ queue'[w] \in Seq(Messages) /\ Len(queue[w]) \in Nat
      /\ DOMAIN queue[w] = 1..Len(queue[w]) /\ 1 \in DOMAIN queue[w]
      /\ DOMAIN queue'[w] = 1..(Len(queue[w]) - 1)
      /\ \A i \in DOMAIN queue'[w] : queue'[w][i] = queue[w][i + 1] /\ i + 1 \in DOMAIN queue[w]
      /\ \A v \in Envs : v # w => queue'[v] = queue[v]
  <2>1. queue'[w] = Tail(queue[w]) /\ \A v \in Envs : v # w => queue'[v] = queue[v]
    BY <1>0, <1>1 DEF TypeOK
  <2>. HIDE DEF w
  <2>. QED BY <2>1, <1>0, <1>3
<1>5. \A i \in DOMAIN queue[w] : i > 1 => queue[w][i] # m /\ Before(calls, m, queue[w][i])
  <2>. SUFFICES ASSUME NEW i \in DOMAIN queue[w], i > 1
                PROVE  queue[w][i] # m /\ Before(calls, m, queue[w][i])
    OBVIOUS
  <2>1. Before(calls, m, queue[w][i])
    BY <1>0, <1>4 DEF Queued
  <2>2. calls \in Seq(Messages)
    BY <1>0 DEF TypeOK
  <2>3. PICK a, b \in DOMAIN calls : a < b /\ calls[a] = m /\ calls[b] = queue[w][i]
    BY <2>1 DEF Before
  <2>4. queue[w][i] # m
    BY <2>2, <2>3, <1>0 DEF Queued
  <2>. QED BY <2>1, <2>4
<1>. HIDE DEF w
<1>6. TypeOK'
  <2>1. stage' \in [Messages -> Stages]
    BY <1>0, <1>1 DEF TypeOK, Stages, Done
  <2>2. queue' \in [Envs -> Seq(Messages)]
    BY <1>0, <1>1, <1>4 DEF TypeOK
  <2>3. file' \in Seq(Messages)
    <3>1. file \in Seq(Messages) /\ current[m] \in Seq(Messages)
      BY <1>0 DEF TypeOK
    <3>2. Append(current[m], m) \in Seq(Messages)
      BY <3>1
    <3>. QED BY <1>1, <3>1, <3>2
  <2>. QED BY <1>0, <1>1, <2>1, <2>2, <2>3 DEF TypeOK
<1>7. Queued'
  <2>1. \A x \in Messages : stage'[x] = "new" <=> \A i \in DOMAIN calls' : calls'[i] # x
    BY <1>0, <1>1, <1>2 DEF Queued
  <2>2. \A a, b \in DOMAIN calls' : calls'[a] = calls'[b] => a = b
    BY <1>0, <1>1 DEF Queued
  <2>3. \A v \in Envs : \A i \in DOMAIN queue'[v] :
           Sender[queue'[v][i]] = v /\ stage'[queue'[v][i]] \in Live
    <3>. SUFFICES ASSUME NEW v \in Envs, NEW i \in DOMAIN queue'[v]
                  PROVE  Sender[queue'[v][i]] = v /\ stage'[queue'[v][i]] \in Live
      OBVIOUS
    <3>1. CASE v = w
      <4>1. i + 1 \in DOMAIN queue[w] /\ i + 1 > 1 /\ queue'[w][i] = queue[w][i + 1]
        BY <3>1, <1>4
      <4>2. queue[w][i + 1] \in Messages
        BY <4>1, <1>0
      <4>. QED BY <3>1, <4>1, <4>2, <1>0, <1>2, <1>5 DEF Queued
    <3>2. CASE v # w
      <4>1. queue'[v] = queue[v] /\ queue[v][i] \in Messages
        BY <3>2, <1>0, <1>4 DEF TypeOK
      <4>2. Sender[queue[v][i]] = v /\ stage[queue[v][i]] \in Live
        BY <4>1, <1>0 DEF Queued
      <4>. QED BY <3>2, <4>1, <4>2, <1>2 DEF w
    <3>. QED BY <3>1, <3>2
  <2>4. \A v \in Envs : \A i, j \in DOMAIN queue'[v] :
           i < j => Before(calls', queue'[v][i], queue'[v][j])
    <3>. SUFFICES ASSUME NEW v \in Envs, NEW i \in DOMAIN queue'[v], NEW j \in DOMAIN queue'[v], i < j
                  PROVE  Before(calls', queue'[v][i], queue'[v][j])
      OBVIOUS
    <3>1. CASE v = w
      <4>1. /\ i + 1 \in DOMAIN queue[w] /\ j + 1 \in DOMAIN queue[w] /\ i + 1 < j + 1
            /\ queue'[w][i] = queue[w][i + 1] /\ queue'[w][j] = queue[w][j + 1]
        BY <3>1, <1>4
      <4>. QED BY <3>1, <4>1, <1>0, <1>1 DEF Queued
    <3>2. CASE v # w
      BY <3>2, <1>0, <1>1, <1>4 DEF Queued
    <3>. QED BY <3>1, <3>2
  <2>5. \A x \in Messages : stage'[x] \in Live =>
           \E i \in DOMAIN queue'[Sender[x]] : queue'[Sender[x]][i] = x
    <3>. SUFFICES ASSUME NEW x \in Messages, stage'[x] \in Live
                  PROVE  \E i \in DOMAIN queue'[Sender[x]] : queue'[Sender[x]][i] = x
      OBVIOUS
    <3>1. x # m /\ Sender[x] \in Envs
      BY <1>2, SenderAssumption
    <3>2. PICK i \in DOMAIN queue[Sender[x]] : queue[Sender[x]][i] = x
      BY <1>0, <1>2 DEF Queued
    <3>3. CASE Sender[x] = w
      <4>1. i # 1
        BY <3>1, <3>2, <3>3, <1>0
      <4>2. i - 1 \in DOMAIN queue'[w] /\ (i - 1) + 1 = i
        BY <4>1, <3>2, <3>3, <1>4
      <4>3. queue'[w][i - 1] = x
        BY <4>2, <3>2, <3>3, <1>4
      <4>. QED BY <4>2, <4>3, <3>3
    <3>4. CASE Sender[x] # w
      BY <3>1, <3>2, <3>4, <1>4
    <3>. QED BY <3>3, <3>4
  <2>6. \A x \in Messages : stage'[x] = "patching" => queue'[Sender[x]][1] = x
    <3>. SUFFICES ASSUME NEW x \in Messages, stage'[x] = "patching"
                  PROVE  queue'[Sender[x]][1] = x
      OBVIOUS
    <3>1. x # m /\ stage[x] = "patching" /\ Sender[x] \in Envs
      BY <1>1, <1>2, SenderAssumption DEF Done, Live
    <3>2. queue[Sender[x]][1] = x
      BY <3>1, <1>0 DEF Queued
    <3>3. Sender[x] # w
      BY <3>1, <3>2, <1>0
    <3>. QED BY <3>1, <3>2, <3>3, <1>4
  <2>. QED BY <2>1, <2>2, <2>3, <2>4, <2>5, <2>6 DEF Queued
<1>8. \A x \in Messages : stage[x] \in Done /\ Sender[x] = w => Before(calls, x, m)
  BY <1>0 DEF InTurn, Live, w
<1>9. InTurn'
  <2>. SUFFICES ASSUME NEW x \in Messages, NEW y \in Messages,
                       stage'[x] \in Done, stage'[y] \in Live, Sender[x] = Sender[y]
                PROVE  Before(calls', x, y)
    BY DEF InTurn
  <2>1. y # m /\ stage[y] \in Live
    BY <1>2
  <2>2. CASE x = m
    <3>1. PICK i \in DOMAIN queue[Sender[y]] : queue[Sender[y]][i] = y
      BY <2>1, <1>0 DEF Queued
    <3>2. i \in DOMAIN queue[w] /\ queue[w][i] = y /\ i > 1
      BY <3>1, <2>1, <2>2, <1>0, <1>4 DEF w
    <3>. QED BY <3>2, <2>2, <1>1, <1>5
  <2>3. CASE x # m
    BY <2>1, <2>3, <1>0, <1>1, <1>2 DEF InTurn
  <2>. QED BY <2>2, <2>3
<1>10. Logs'
  <2>1. \A log \in Seq(Messages) :
           InOrder(calls, stage, log) => InOrder(calls', stage', log)
    BY <1>1, <1>2 DEF InOrder
  <2>2. file \in Seq(Messages) /\ \A x \in Messages : current[x] \in Seq(Messages)
    BY <1>0 DEF TypeOK
  <2>3. InOrder(calls, stage, current[m]) /\ current[m] \in Seq(Messages)
    BY <1>0, <2>2 DEF Logs
  <2>4. InOrder(calls', stage', Append(current[m], m))
    <3>1. \A i \in DOMAIN current[m] :
             /\ current[m][i] \in Messages /\ current[m][i] # m
             /\ stage'[current[m][i]] \in Done
             /\ Sender[current[m][i]] = w => Before(calls', current[m][i], m)
      BY <2>3, <1>1, <1>2, <1>8 DEF InOrder
    <3>. DEFINE new == Append(current[m], m)
                n   == Len(current[m]) + 1
    <3>2. /\ DOMAIN new = 1..n /\ DOMAIN current[m] = 1..Len(current[m]) /\ Len(current[m]) \in Nat
          /\ new[n] = m
          /\ \A i \in DOMAIN current[m] : new[i] = current[m][i]
          /\ \A i \in DOMAIN new : i = n \/ i \in DOMAIN current[m]
          /\ \A i, j \in DOMAIN new : i < j => i \in DOMAIN current[m] /\ (j = n \/ j \in DOMAIN current[m])
      BY <2>3
    <3>. HIDE DEF new, n
    <3>3. \A i \in DOMAIN new : stage'[new[i]] \in Done
      BY <3>1, <3>2, <1>2
    <3>4. ASSUME NEW i \in DOMAIN new, NEW j \in DOMAIN new, i < j
          PROVE  new[i] # new[j] /\ (Sender[new[i]] = Sender[new[j]] => Before(calls', new[i], new[j]))
      <4>1. CASE j = n
        BY <3>1, <3>2, <3>4, <4>1 DEF w
      <4>2. CASE j \in DOMAIN current[m]
        BY <3>2, <3>4, <4>2, <2>3, <1>1 DEF InOrder
      <4>. QED BY <3>2, <3>4, <4>1, <4>2
    <3>5. InOrder(calls', stage', new)
      BY <3>3, <3>4 DEF InOrder
    <3>. QED BY <3>5 DEF new
  <2>5. InOrder(calls', stage', file')
    BY <1>0, <1>1, <2>1, <2>2, <2>4 DEF Logs
  <2>6. \A x \in Messages : stage'[x] = "patching" => stage[x] = "patching"
    BY <1>1, <1>2 DEF Done
  <2>. QED BY <1>0, <1>1, <2>1, <2>2, <2>5, <2>6 DEF Logs
<1>11. Kept'
  <2>. SUFFICES ASSUME ~misread', OneSender'
                PROVE  /\ Holds(stage', file')
                       /\ \A x \in Messages : stage'[x] = "patching" => Holds(stage', current'[x])
    BY DEF Kept
  <2>1. ~misread /\ OneSender
    BY <1>1 DEF OneSender
  <2>2. Holds(stage, file) /\ Holds(stage, current[m])
    BY <2>1, <1>0 DEF Kept
  <2>3. Holds(stage', file')
    <3>1. CASE file' = Append(current[m], m)
      <4>1. current[m] \in Seq(Messages)
        BY <1>0 DEF TypeOK
      <4>2. /\ \A i \in DOMAIN current[m] : i \in DOMAIN file' /\ file'[i] = current[m][i]
            /\ Len(current[m]) + 1 \in DOMAIN file' /\ file'[Len(current[m]) + 1] = m
        BY <3>1, <4>1
      <4>. QED BY <4>2, <2>2, <1>2 DEF Holds
    <3>2. CASE file' = file /\ result = "failed"
      BY <3>2, <2>2, <1>1, <1>2 DEF Holds
    <3>. QED BY <1>1, <3>1, <3>2
  <2>4. \A x \in Messages : stage'[x] # "patching"
    <3>. SUFFICES ASSUME NEW x \in Messages, stage'[x] = "patching" PROVE FALSE
      OBVIOUS
    <3>1. x # m /\ stage[x] = "patching"
      BY <1>1, <1>2 DEF Done
    <3>2. queue[Sender[x]][1] = x
      BY <3>1, <1>0 DEF Queued
    <3>3. PICK i \in DOMAIN calls : calls[i] = x
      BY <3>1, <1>0 DEF Queued
    <3>4. PICK j \in DOMAIN calls : calls[j] = m
      BY <1>0 DEF Queued
    <3>5. Sender[x] = w
      BY <3>3, <3>4, <2>1 DEF OneSender, w
    <3>. QED BY <3>1, <3>2, <3>5, <1>0
  <2>. QED BY <2>3, <2>4
<1>. QED BY <1>6, <1>7, <1>9, <1>10, <1>11 DEF Inv

\* The invariant holds at every moment.
THEOREM Invariance == Spec => []Inv
<1>1. Init => Inv
  BY InitInv
<1>2. Inv /\ [Next]_vars => Inv'
  <2>. SUFFICES ASSUME Inv, [Next]_vars PROVE Inv'
    OBVIOUS
  <2>1. CASE UNCHANGED vars
    BY <2>1 DEF vars, Inv, TypeOK, Queued, InTurn, Logs, Kept, OneSender
  <2>2. ASSUME NEW m \in Messages,
               AppendMessage(m) \/ ReadWorks(m) \/ ReadFails(m) \/ Patched(m) \/ PatchRefused(m)
        PROVE  Inv'
    BY <2>2, AppendKeeps, ReadKeeps, PatchKeeps
  <2>. QED BY <2>1, <2>2 DEF Next
<1>. QED BY <1>1, <1>2, PTL DEF Spec

\* The state of the relay has its type.
THEOREM Typing == Spec => []TypeOK
<1>1. Inv => TypeOK
  BY DEF Inv
<1>. QED BY <1>1, Invariance, PTL

\* One environment that writes a file alone, and reads it well, loses nothing.
THEOREM KeepsAll == Spec => []OneWriterKeepsAll
<1>1. Inv => OneWriterKeepsAll
  BY DEF Inv, Kept, Holds, OneWriterKeepsAll, InLog
<1>. QED BY <1>1, Invariance, PTL

\* Whatever happens to it, a log has each message once and in its sender's order.
THEOREM Ordered == Spec => []SendersInOrder
<1>1. Inv => SendersInOrder
  BY DEF Inv, Logs, InOrder, Before, SendersInOrder
<1>. QED BY <1>1, Invariance, PTL
=============================================================================
