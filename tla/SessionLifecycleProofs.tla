----------------------- MODULE SessionLifecycleProofs -----------------------
(***************************************************************************)
(* Proofs about SessionLifecycle for a queue of any length, any number of  *)
(* binder threads and clients, and any bounds.                             *)
(***************************************************************************)
EXTENDS SessionLifecycle, TLAPS

Entry   == [id : Task, running : BOOLEAN]
TaskRec == [kind : Kinds, of : Client \cup {NoOne}]
NoTask  == Task \cup {NoOne}

-----------------------------------------------------------------------------
(* Sequences.                                                              *)

LEMMA TailFacts ==
  ASSUME NEW S, NEW q \in Seq(S), q # <<>>
  PROVE  /\ Tail(q) \in Seq(S)
         /\ Len(q) \in Nat \ {0}
         /\ Len(Tail(q)) = Len(q) - 1
         /\ \A i \in 1..(Len(q) - 1) : Tail(q)[i] = q[i + 1]
         /\ Head(q) = q[1] /\ Head(q) \in S
  OBVIOUS

LEMMA AppendFacts ==
  ASSUME NEW S, NEW q \in Seq(S), NEW e \in S
  PROVE  /\ Append(q, e) \in Seq(S)
         /\ Len(q) \in Nat
         /\ Len(Append(q, e)) = Len(q) + 1
         /\ \A i \in 1..Len(q) : Append(q, e)[i] = q[i]
         /\ Append(q, e)[Len(q) + 1] = e
  OBVIOUS

LEMMA NotLast ==
  ASSUME NEW n \in Nat, NEW i \in 1..(n + 1), i # n + 1
  PROVE  i \in 1..n
  OBVIOUS

LEMMA OneIsFirst ==
  ASSUME NEW n \in Nat
  PROVE  1 \in 1..(n + 1) /\ (n + 1 # 1 => 1 \in 1..n)
  OBVIOUS

\* The front of the queue is set running, nothing else changes.
LEMMA StartedFacts ==
  ASSUME NEW q \in Seq(Entry)
  PROVE  /\ Started(q) \in Seq(Entry)
         /\ Len(Started(q)) = Len(q)
         /\ \A i \in 1..Len(q) : /\ Started(q)[i].id = q[i].id
                                 /\ Started(q)[i].running = (i = 1 \/ q[i].running)
         /\ ToPost(q) \in NoTask
         /\ q # <<>> /\ ~q[1].running => ToPost(q) = q[1].id
<1>1. CASE q = <<>>
  BY <1>1 DEF Started, ToPost, NoTask
<1>2. CASE q # <<>>
  <2>1. 1 \in DOMAIN q /\ q[1] \in Entry
    BY <1>2
  <2>2. Started(q) = [q EXCEPT ![1] = [q[1] EXCEPT !.running = TRUE]]
    BY <1>2 DEF Started
  <2>3. [q[1] EXCEPT !.running = TRUE] \in Entry
    BY <2>1 DEF Entry
  <2>4. Started(q) \in Seq(Entry) /\ Len(Started(q)) = Len(q)
    BY <2>1, <2>2, <2>3
  <2>5. ASSUME NEW i \in 1..Len(q)
        PROVE  /\ Started(q)[i].id = q[i].id
               /\ Started(q)[i].running = (i = 1 \/ q[i].running)
    <3>1. q[i] \in Entry
      OBVIOUS
    <3>2. CASE i = 1
      BY <2>1, <2>2, <3>1, <3>2 DEF Entry
    <3>3. CASE i # 1
      BY <2>1, <2>2, <3>1, <3>3 DEF Entry
    <3> QED
      BY <3>2, <3>3
  <2>6. q[1].id \in Task
    BY <2>1 DEF Entry
  <2> QED
    BY <1>2, <2>4, <2>5, <2>6 DEF ToPost, NoTask
<1> QED
  BY <1>1, <1>2

-----------------------------------------------------------------------------
(* The parts of the type invariant, and what the queue, the handler and    *)
(* the ability manager's call have to do with each other.                  *)

QueueOK ==
  /\ queue \in Seq(Entry) /\ Len(queue) <= QueueLimit
  /\ expired \in BOOLEAN /\ (expired => queue # <<>>)
  /\ tasks \in Seq(TaskRec)
  /\ early \subseteq Task
ThreadsOK ==
  /\ posting \in [Callers -> NoTask]
  /\ inline \in NoTask
  /\ jq \in Seq(Task)
  /\ js \in [answered : NoTask, run : NoTask]
  /\ ended \subseteq Task
MessagesOK ==
  /\ handler \in Seq(Messages)
  /\ ams \in {"no", "cold", "late", "warm", "fail", "nothing"}
  /\ ams # "no" => inline = NoOne /\ handler # <<>>
                 /\ Head(handler).do \in {"activate", "call"}
ClientsOK ==
  /\ newest \in Client \cup {NoOne}
  /\ client \in [Client -> Statuses]
  /\ closing \subseteq Client
  /\ request \in [Client -> Requests \cup {"none"}]
  /\ closes \in Nat
  /\ called \in BOOLEAN
SessionOK ==
  session \in [state : States, pid : Client \cup {NoOne}, token : Client \cup {NoOne},
               stage : Client \cup {NoOne}, isActive : BOOLEAN, isTerminating : BOOLEAN]
BudgetOK == budget \in Budget /\ budget.clients <= MaxClient
TypeInv == QueueOK /\ ThreadsOK /\ MessagesOK /\ ClientsOK /\ SessionOK /\ BudgetOK

\* What the queue keeps when the front has run too long.
LEMMA KeptFacts ==
  ASSUME QueueOK
  PROVE  /\ Kept \in Seq(Entry)
         /\ Len(Kept) = IF expired THEN Len(queue) - 1 ELSE Len(queue)
         /\ Len(Kept) <= QueueLimit
         /\ \A i \in 1..Len(Kept) : Kept[i] = IF expired THEN queue[i + 1] ELSE queue[i]
<1>1. CASE expired
  <2>1. queue # <<>> /\ Kept = Tail(queue)
    BY <1>1 DEF QueueOK, Kept
  <2>2. /\ Tail(queue) \in Seq(Entry) /\ Len(Tail(queue)) = Len(queue) - 1
        /\ Len(queue) \in Nat /\ \A i \in 1..(Len(queue) - 1) : Tail(queue)[i] = queue[i + 1]
    BY <2>1, TailFacts DEF QueueOK
  <2>3. Len(queue) <= QueueLimit /\ QueueLimit \in Nat
    BY SessionLifecycleAssumption DEF QueueOK
  <2> QED
    BY <1>1, <2>1, <2>2, <2>3
<1>2. CASE ~expired
  BY <1>2 DEF QueueOK, Kept
<1> QED
  BY <1>1, <1>2

\* A task that is accepted.
LEMMA PostFacts ==
  ASSUME QueueOK, Accepted
  PROVE  /\ Len(tasks) \in Nat /\ Len(tasks) + 1 \in Task
         /\ WithNew \in Seq(Entry) /\ WithNew # <<>>
         /\ Len(WithNew) = Len(Kept) + 1 /\ Len(WithNew) <= QueueLimit
         /\ \A i \in 1..Len(Kept) : WithNew[i] = Kept[i]
         /\ WithNew[Len(Kept) + 1] = [id |-> Len(tasks) + 1, running |-> FALSE]
<1> DEFINE new == [id |-> Len(tasks) + 1, running |-> FALSE]
<1>1. Len(tasks) \in Nat /\ Len(tasks) + 1 \in Task
  BY DEF QueueOK, Task
<1>2. new \in Entry
  BY <1>1 DEF Entry
<1>3. Kept \in Seq(Entry) /\ Len(Kept) <= QueueLimit /\ Len(Kept) # QueueLimit
  BY KeptFacts DEF Accepted
<1>4. WithNew = Append(Kept, new)
  BY DEF WithNew
<1>5. /\ WithNew \in Seq(Entry) /\ Len(Kept) \in Nat /\ Len(WithNew) = Len(Kept) + 1
      /\ \A i \in 1..Len(Kept) : WithNew[i] = Kept[i]
      /\ WithNew[Len(Kept) + 1] = new
  <2> HIDE DEF new
  <2> QED
    BY <1>2, <1>3, <1>4, AppendFacts
<1>6. Len(WithNew) <= QueueLimit /\ WithNew # <<>>
  <2>1. QueueLimit \in Nat
    BY SessionLifecycleAssumption
  <2>2. Len(WithNew) <= QueueLimit /\ Len(WithNew) > 0
    BY <1>3, <1>5, <2>1
  <2> QED
    BY <2>2
<1> QED
  BY <1>1, <1>5, <1>6

LEMMA PostType ==
  ASSUME QueueOK, NEW task \in TaskRec, PostLifeCycleTask(task)
  PROVE  QueueOK' /\ PostReleases \in NoTask
<1>1. CASE Accepted
  <2>1. /\ queue' = Started(WithNew) /\ tasks' = Append(tasks, task) /\ expired' = FALSE
        /\ early' = IF expired THEN early \cup {Head(queue).id} ELSE early
    BY <1>1 DEF PostLifeCycleTask
  <2>2. WithNew \in Seq(Entry) /\ Len(WithNew) <= QueueLimit
    BY <1>1, PostFacts
  <2>3. queue' \in Seq(Entry) /\ Len(queue') <= QueueLimit /\ ToPost(WithNew) \in NoTask
    BY <2>1, <2>2, StartedFacts
  <2>4. tasks' \in Seq(TaskRec)
    BY <2>1 DEF QueueOK
  <2>5. expired => Head(queue).id \in Task
    <3>1. expired => Head(queue) \in Entry
      BY TailFacts DEF QueueOK
    <3> QED
      BY <3>1 DEF Entry
  <2>6. early' \subseteq Task
    BY <2>1, <2>5 DEF QueueOK
  <2> QED
    BY <1>1, <2>1, <2>3, <2>4, <2>6 DEF QueueOK, PostReleases
<1>2. CASE ~Accepted
  BY <1>2 DEF PostLifeCycleTask, PostReleases, QueueOK, queueVars, NoTask
<1> QED
  BY <1>1, <1>2

LEMMA RemoveType ==
  ASSUME QueueOK, NEW type, NEW n, RemoveLifeCycleTask(type, n)
  PROVE  QueueOK' /\ RemoveReleases(type) \in NoTask
<1>1. CASE Matches(type)
  <2>1. /\ queue # <<>> /\ queue' = Started(Tail(queue)) /\ expired' = FALSE /\ tasks' = tasks
        /\ early' = early \cup ({Head(queue).id} \ {n})
    BY <1>1 DEF RemoveLifeCycleTask, Matches
  <2>2. /\ Tail(queue) \in Seq(Entry) /\ Len(Tail(queue)) = Len(queue) - 1
        /\ Len(queue) \in Nat /\ Head(queue) \in Entry
    BY <2>1, TailFacts DEF QueueOK
  <2>3. Len(Tail(queue)) <= QueueLimit
    <3>1. Len(queue) <= QueueLimit /\ QueueLimit \in Nat
      BY SessionLifecycleAssumption DEF QueueOK
    <3> QED
      BY <2>2, <3>1
  <2>4. queue' \in Seq(Entry) /\ Len(queue') <= QueueLimit /\ ToPost(Tail(queue)) \in NoTask
    BY <2>1, <2>2, <2>3, StartedFacts
  <2>5. Head(queue).id \in Task
    BY <2>2 DEF Entry
  <2> QED
    BY <1>1, <2>1, <2>4, <2>5 DEF QueueOK, RemoveReleases
<1>2. CASE ~Matches(type)
  BY <1>2 DEF RemoveLifeCycleTask, RemoveReleases, QueueOK, NoTask
<1> QED
  BY <1>1, <1>2

-----------------------------------------------------------------------------
(* Type correctness.                                                       *)

\* What a step does to the queue.
LEMMA QueueEffect ==
  ASSUME Next
  PROVE  \/ \E task \in TaskRec : PostLifeCycleTask(task)
         \/ \E type \in {"start", "stop"}, n \in {NoOne, js.answered, Running} :
              RemoveLifeCycleTask(type, n)
         \/ UNCHANGED queueVars
         \/ queue # <<>> /\ expired' = TRUE /\ UNCHANGED <<queue, tasks, early>>
<1>1. CASE HandlerStep
  BY <1>1 DEF HandlerStep, PendingSessionActivation, Clear, HandlerTask, RefuseTask, RunTask,
     StartUIAbility, StartUIAbilityReturns, ColdStart, FailedStart,
     RequestSceneSessionBackground, RequestSceneSessionDestruction, Connect, Foreground,
     Background, Disconnect, Handle, queueVars, TaskRec, Kinds
<1>2. CASE JsStep \/ ChangeUIAbilityVisibilityBySCB
  BY <1>2 DEF JsStep, JsCallback, JsRemove, JsPost, ChangeUIAbilityVisibilityBySCB, queueVars,
     Type
<1>3. ASSUME NEW b \in Callers,
             \/ TerminateSession(b) \/ BinderPost(b)
             \/ \E c \in Client : NotifySessionException(b, c)
      PROVE  UNCHANGED queueVars \/ \E task \in TaskRec : PostLifeCycleTask(task)
  BY <1>3 DEF TerminateSession, BinderPost, NotifySessionException, BinderStop, TaskRec, Kinds,
     queueVars
<1>4. CASE \/ Ask("start", "starts") \/ Ask("clear", "clears")
           \/ \E do \in {"activate", "hide"} : Ask(do, "taps")
           \/ \E c \in Client : ClientStep(c)
           \/ CloseUIAbility
  BY <1>4 DEF Ask, ClientStep, ClientConnect, ClientPost, ClientDies, ClientCheck,
     CloseUIAbility, Elsewhere, queueVars
<1>5. CASE Expire
  BY <1>5 DEF Expire
<1> QED
  BY <1>1, <1>2, <1>3, <1>4, <1>5 DEF Next

LEMMA QueueStep ==
  ASSUME QueueOK, Next
  PROVE  QueueOK'
<1>1. CASE UNCHANGED queueVars
  BY <1>1 DEF QueueOK, queueVars
<1>2. CASE queue # <<>> /\ expired' = TRUE /\ UNCHANGED <<queue, tasks, early>>
  BY <1>2 DEF QueueOK
<1> QED
  BY <1>1, <1>2, QueueEffect, PostType, RemoveType

\* The task that runs is a task.
LEMMA RunningIsTask ==
  ASSUME ThreadsOK, MessagesOK
  PROVE  Running \in NoTask
<1>1. ASSUME At("life") PROVE Head(handler).n \in Task
  <2>1. Head(handler) \in Messages /\ Head(handler).do = "life"
    BY <1>1, TailFacts DEF At, MessagesOK
  <2> QED
    BY <2>1 DEF Messages, Requests
<1> QED
  BY <1>1 DEF Running, ThreadsOK, NoTask

LEMMA ThreadsStep ==
  ASSUME QueueOK, ThreadsOK, MessagesOK, Next
  PROVE  ThreadsOK'
<1> USE DEF ThreadsOK
<1>1. CASE HandlerStep
  <2>1. CASE PendingSessionActivation \/ Clear
    <3>1. PICK task \in TaskRec : PostLifeCycleTask(task)
      BY <2>1 DEF PendingSessionActivation, Clear, HandlerTask, TaskRec, Kinds
    <3>2. inline' \in NoTask
      BY <2>1, <3>1, PostType DEF PendingSessionActivation, Clear, HandlerTask
    <3> QED
      BY <2>1, <3>2 DEF PendingSessionActivation, Clear, HandlerTask
  <2>2. CASE RefuseTask
    <3>1. inline' \in NoTask
      BY <2>2, RemoveType DEF RefuseTask
    <3>2. ended' \subseteq Task
      BY <2>2, RunningIsTask DEF RefuseTask, NoTask
    <3> QED
      BY <2>2, <3>1, <3>2 DEF RefuseTask
  <2>3. CASE RunTask
    <3>1. Running \in Task
      BY <2>3, RunningIsTask DEF RunTask, NoTask
    <3>2. jq' \in Seq(Task)
      BY <2>3, <3>1 DEF RunTask
    <3> QED
      BY <2>3, <3>2 DEF RunTask, NoTask
  <2>4. CASE StartUIAbilityReturns
    <3>1. CASE FailedStart
      <4>1. PICK task \in TaskRec : PostLifeCycleTask(task)
        BY <3>1 DEF FailedStart, TaskRec, Kinds
      <4>2. inline' \in NoTask
        BY <3>1, <4>1, PostType DEF FailedStart
      <4> QED
        BY <2>4, <4>2 DEF StartUIAbilityReturns
    <3>2. CASE ~FailedStart
      BY <2>4, <3>2 DEF StartUIAbilityReturns, ColdStart
    <3> QED
      BY <3>1, <3>2
  <2>5. CASE \/ \E do \in {"activate", "call"} : StartUIAbility(do)
             \/ RequestSceneSessionBackground \/ RequestSceneSessionDestruction
             \/ Connect \/ Foreground \/ Background \/ Disconnect
    BY <2>5 DEF StartUIAbility, RequestSceneSessionBackground, RequestSceneSessionDestruction,
       Connect, Foreground, Background, Disconnect, Handle, threadVars
  <2> QED
    BY <1>1, <2>1, <2>2, <2>3, <2>4, <2>5 DEF HandlerStep
<1>2. CASE JsStep \/ ChangeUIAbilityVisibilityBySCB
  <2>1. CASE JsCallback
    <3>1. Head(jq) \in Task /\ Tail(jq) \in Seq(Task)
      BY <2>1, TailFacts DEF JsCallback
    <3> QED
      BY <2>1, <3>1 DEF JsCallback, NoTask
  <2>2. CASE JsRemove
    <3>1. RemoveReleases(Type(js.answered)) \in NoTask
      BY <2>2, RemoveType DEF JsRemove
    <3> QED
      BY <2>2, <3>1 DEF JsRemove, NoTask
  <2>3. CASE ChangeUIAbilityVisibilityBySCB
    <3>1. RemoveReleases("start") \in NoTask
      BY <2>3, RemoveType DEF ChangeUIAbilityVisibilityBySCB
    <3> QED
      BY <2>3, <3>1 DEF ChangeUIAbilityVisibilityBySCB
  <2>4. CASE JsPost
    BY <2>4 DEF JsPost, NoTask
  <2> QED
    BY <1>2, <2>1, <2>2, <2>3, <2>4 DEF JsStep
<1>3. ASSUME NEW b \in Callers,
             \/ TerminateSession(b) \/ BinderPost(b)
             \/ \E c \in Client : NotifySessionException(b, c)
      PROVE  ThreadsOK'
  <2>1. CASE BinderPost(b)
    BY <2>1 DEF BinderPost, NoTask
  <2>2. CASE TerminateSession(b) \/ \E c \in Client : NotifySessionException(b, c)
    <3>1. PICK task \in TaskRec : BinderStop(b, task)
      BY <2>2 DEF TerminateSession, NotifySessionException, TaskRec, Kinds
    <3>2. PostReleases \in NoTask
      BY <3>1, PostType DEF BinderStop
    <3> QED
      BY <3>1, <3>2 DEF BinderStop
  <2> QED
    BY <1>3, <2>1, <2>2
<1>4. CASE \/ Ask("start", "starts") \/ Ask("clear", "clears")
           \/ \E do \in {"activate", "hide"} : Ask(do, "taps")
           \/ \E c \in Client : ClientStep(c)
           \/ CloseUIAbility \/ Expire
  BY <1>4 DEF Ask, ClientStep, ClientConnect, ClientPost, ClientDies, ClientCheck,
     CloseUIAbility, Expire, Elsewhere, threadVars
<1> QED
  BY <1>1, <1>2, <1>3, <1>4 DEF Next

\* What a step does to the messages of the handler thread.
LEMMA HandlerEffect ==
  ASSUME ThreadsOK, MessagesOK, ClientsOK, Next
  PROVE  \/ UNCHANGED handler
         \/ HandlerStep /\ handler # <<>> /\ handler' = Tail(handler)
         \/ \E msg \in Messages :
              /\ handler' = Append(handler, msg)
              /\ msg.do = "connect" => \E c \in Client : ClientConnect(c)
<1>1. CASE HandlerStep
  <2>1. CASE RefuseTask \/ RunTask
    BY <1>1, <2>1 DEF RefuseTask, RunTask, Took, TakeNext, Running, At
  <2>2. CASE ~(RefuseTask \/ RunTask)
    BY <1>1, <2>2 DEF HandlerStep, PendingSessionActivation, Clear, HandlerTask, StartUIAbility,
     StartUIAbilityReturns, ColdStart, FailedStart, RequestSceneSessionBackground,
     RequestSceneSessionDestruction, Connect, Foreground, Background, Disconnect, Handle,
     TakeNext, At, MessagesOK
  <2> QED
    BY <2>1, <2>2
<1>2. CASE JsCallback
  <2>1. Head(jq) \in Task
    BY <1>2, TailFacts DEF JsCallback, ThreadsOK
  <2>2. PICK do \in {"activate", "call", "none", "destroy"} :
          handler' = IF do = "none" THEN handler ELSE Append(handler, [do |-> do, n |-> Head(jq)])
    BY <1>2 DEF JsCallback, Answers
  <2>3. do # "none" => [do |-> do, n |-> Head(jq)] \in Messages
    BY <2>1 DEF Messages
  <2> QED
    BY <2>2, <2>3
<1>3. CASE JsPost
  <2>1. [do |-> "life", n |-> js.run] \in Messages
    BY <1>3 DEF JsPost, ThreadsOK, NoTask, Messages
  <2> QED
    BY <1>3, <2>1 DEF JsPost
<1>4. CASE JsRemove \/ ChangeUIAbilityVisibilityBySCB
  BY <1>4 DEF JsRemove, ChangeUIAbilityVisibilityBySCB
<1>5. ASSUME NEW b \in Callers, BinderPost(b)
      PROVE  \E msg \in Messages : msg.do # "connect" /\ handler' = Append(handler, msg)
  <2>1. [do |-> "life", n |-> posting[b]] \in Messages
    BY <1>5 DEF BinderPost, ThreadsOK, NoTask, Messages
  <2> QED
    BY <1>5, <2>1 DEF BinderPost
<1>6. ASSUME NEW b \in Callers,
             TerminateSession(b) \/ \E c \in Client : NotifySessionException(b, c)
      PROVE  UNCHANGED handler
  BY <1>6 DEF TerminateSession, NotifySessionException, BinderStop
<1>7. ASSUME NEW do \in {"start", "clear", "activate", "hide"}, NEW what, Ask(do, what)
      PROVE  \E msg \in Messages : msg.do # "connect" /\ handler' = Append(handler, msg)
  <2>1. [do |-> do, n |-> NoOne] \in Messages
    BY DEF Messages
  <2> QED
    BY <1>7, <2>1 DEF Ask
<1>8. ASSUME NEW c \in Client, ClientStep(c)
      PROVE  \/ UNCHANGED handler
             \/ \E msg \in Messages : /\ handler' = Append(handler, msg)
                                      /\ msg.do = "connect" => ClientConnect(c)
  <2>1. [do |-> "connect", n |-> c] \in Messages
    BY DEF Messages
  <2>2. request[c] # "none" => /\ [do |-> request[c], n |-> c] \in Messages
                               /\ request[c] # "connect"
    BY DEF Messages, Requests, ClientsOK
  <2> QED
    BY <1>8, <2>1, <2>2 DEF ClientStep, ClientConnect, ClientPost, ClientDies, ClientCheck
<1>9. CASE CloseUIAbility \/ Expire
  BY <1>9 DEF CloseUIAbility, Expire
<1> QED
  BY <1>1, <1>2, <1>3, <1>4, <1>5, <1>6, <1>7, <1>8, <1>9 DEF Next, JsStep

LEMMA MessagesStep ==
  ASSUME ThreadsOK, MessagesOK, ClientsOK, Next
  PROVE  MessagesOK'
<1>1. handler' \in Seq(Messages)
  BY HandlerEffect, TailFacts, AppendFacts DEF MessagesOK
<1>2. ams' \in {"no", "cold", "late", "warm", "fail", "nothing"}
  <2>1. CASE \E do \in {"activate", "call"} : StartUIAbility(do)
    BY <2>1 DEF StartUIAbility, Outcomes
  <2>2. CASE ~\E do \in {"activate", "call"} : StartUIAbility(do)
    BY <2>2 DEF MessagesOK, Next, HandlerStep, PendingSessionActivation, Clear, HandlerTask,
       RefuseTask, RunTask, StartUIAbilityReturns, RequestSceneSessionBackground,
       RequestSceneSessionDestruction, Connect, Foreground, Background, Disconnect, Handle,
       JsStep, JsCallback, JsRemove, JsPost, ChangeUIAbilityVisibilityBySCB, TerminateSession,
       BinderPost, NotifySessionException, BinderStop, Ask, ClientStep, ClientConnect,
       ClientPost, ClientDies, ClientCheck, CloseUIAbility, Expire, Elsewhere
  <2> QED
    BY <2>1, <2>2
<1>3. ams' # "no" => inline' = NoOne /\ handler' # <<>>
                  /\ Head(handler').do \in {"activate", "call"}
  <2>1. CASE HandlerStep
    BY <2>1 DEF MessagesOK, HandlerStep, PendingSessionActivation, Clear, HandlerTask,
       RefuseTask, RunTask, StartUIAbility, StartUIAbilityReturns,
       RequestSceneSessionBackground, RequestSceneSessionDestruction, Connect, Foreground,
       Background, Disconnect, Handle, At, Busy, threadVars
  <2>2. CASE ~HandlerStep
    <3>1. UNCHANGED <<ams, inline>>
      BY <2>2 DEF Next, JsStep, JsCallback, JsRemove, JsPost, ChangeUIAbilityVisibilityBySCB,
         TerminateSession, BinderPost, NotifySessionException, BinderStop, Ask, ClientStep,
         ClientConnect, ClientPost, ClientDies, ClientCheck, CloseUIAbility, Expire, Elsewhere,
         threadVars
    <3>2. UNCHANGED handler \/ \E msg \in Messages : handler' = Append(handler, msg)
      BY <2>2, HandlerEffect
    <3>3. handler # <<>> => handler' # <<>> /\ Head(handler') = Head(handler)
      BY <3>2 DEF MessagesOK
    <3> QED
      BY <3>1, <3>3 DEF MessagesOK
  <2> QED
    BY <2>1, <2>2
<1> QED
  BY <1>1, <1>2, <1>3 DEF MessagesOK

\* A client is one that was started.
LEMMA HeadClient ==
  ASSUME MessagesOK, At("connect")
  PROVE  Head(handler).n \in Client
<1>1. Head(handler) \in Messages /\ Head(handler).do = "connect"
  BY TailFacts DEF At, MessagesOK
<1> QED
  BY <1>1 DEF Messages

LEMMA ClientsStep ==
  ASSUME MessagesOK, ClientsOK, BudgetOK, Next
  PROVE  ClientsOK'
<1> USE DEF ClientsOK
<1>1. CASE HandlerStep
  <2>1. ASSUME NEW do, StartUIAbility(do) PROVE ClientsOK'
    <3>1. PICK outcome \in Outcomes(do) :
            IF outcome \in {"cold", "late"}
            THEN /\ newest' = newest + 1
                 /\ client' = [client EXCEPT ![newest + 1] = "started"]
            ELSE UNCHANGED <<newest, client>>
      BY <2>1 DEF StartUIAbility
    <3>2. outcome \in {"cold", "late"} => newest + 1 \in Client
      <4>1. outcome \in {"cold", "late"} => ~(newest >= budget.clients)
        BY <3>1 DEF Outcomes
      <4>2. newest \in Nat /\ budget.clients \in Nat /\ budget.clients <= MaxClient
        BY SessionLifecycleAssumption DEF BudgetOK, Budget, Client, NoOne
      <4>3. MaxClient \in Nat
        BY SessionLifecycleAssumption
      <4> QED
        BY <4>1, <4>2, <4>3 DEF Client
    <3>3. newest' \in Client \cup {NoOne} /\ client' \in [Client -> Statuses]
      BY <3>1, <3>2 DEF Statuses
    <3> QED
      BY <2>1, <3>3 DEF StartUIAbility
  <2>2. CASE StartUIAbilityReturns
    <3>1. called' \in BOOLEAN
      BY <2>2 DEF StartUIAbilityReturns, ColdStart, FailedStart
    <3> QED
      BY <2>2, <3>1 DEF StartUIAbilityReturns, clientVars
  <2>3. CASE Connect
    <3>1. client' \in [Client -> Statuses]
      BY <2>3 DEF Connect, Statuses
    <3> QED
      BY <2>3, <3>1 DEF Connect, Handle
  <2>4. CASE \/ PendingSessionActivation \/ Clear \/ RefuseTask \/ RunTask
             \/ RequestSceneSessionBackground \/ RequestSceneSessionDestruction
             \/ Foreground \/ Background \/ Disconnect
    BY <2>4 DEF PendingSessionActivation, Clear, HandlerTask, RefuseTask, RunTask,
       RequestSceneSessionBackground, RequestSceneSessionDestruction, Foreground, Background,
       Disconnect, Handle, clientVars
  <2> QED
    BY <1>1, <2>1, <2>2, <2>3, <2>4 DEF HandlerStep
<1>2. CASE JsStep \/ ChangeUIAbilityVisibilityBySCB \/ Expire
           \/ \E b \in Callers : TerminateSession(b) \/ BinderPost(b)
  BY <1>2 DEF JsStep, JsCallback, JsRemove, JsPost, ChangeUIAbilityVisibilityBySCB, Expire,
     TerminateSession, BinderStop, BinderPost, clientVars
<1>3. ASSUME NEW b \in Callers, NEW c \in Client, NotifySessionException(b, c) PROVE ClientsOK'
  <2>1. client' \in [Client -> Statuses]
    BY <1>3 DEF NotifySessionException, Statuses
  <2> QED
    BY <1>3, <2>1 DEF NotifySessionException, BinderStop
<1>4. ASSUME NEW do, NEW what, Ask(do, what) PROVE ClientsOK'
  BY <1>4 DEF Ask, clientVars
<1>5. ASSUME NEW c \in Client, ClientStep(c) PROVE ClientsOK'
  <2>1. client' \in {client} \cup {[client EXCEPT ![c] = v] : v \in Statuses}
    BY <1>5 DEF ClientStep, ClientConnect, ClientPost, ClientDies, ClientCheck, Statuses
  <2>2. \E v \in Requests \cup {"none"} : request' \in {request, [request EXCEPT ![c] = v]}
    BY <1>5 DEF ClientStep, ClientConnect, ClientPost, ClientDies, ClientCheck
  <2>3. client' \in [Client -> Statuses] /\ request' \in [Client -> Requests \cup {"none"}]
    BY <2>1, <2>2
  <2> QED
    BY <1>5, <2>3 DEF ClientStep, ClientConnect, ClientPost, ClientDies, ClientCheck, Elsewhere
<1>6. CASE CloseUIAbility
  <2>1. closes' \in Nat
    BY <1>6 DEF CloseUIAbility
  <2>2. closing' \subseteq Client
    BY <1>6 DEF CloseUIAbility
  <2> QED
    BY <1>6, <2>1, <2>2 DEF CloseUIAbility, Elsewhere
<1> QED
  BY <1>1, <1>2, <1>3, <1>4, <1>5, <1>6 DEF Next

LEMMA SessionStep ==
  ASSUME MessagesOK, ClientsOK, SessionOK, Next
  PROVE  SessionOK'
<1> USE DEF SessionOK, States
<1>1. CASE StartUIAbilityReturns
  BY <1>1 DEF StartUIAbilityReturns, ColdStart, FailedStart, ClientsOK
<1>2. CASE Connect
  BY <1>2, HeadClient DEF Connect, Handle
<1>3. CASE Foreground
  BY <1>3 DEF Foreground
<1>4. CASE RequestSceneSessionBackground \/ Background
  BY <1>4 DEF RequestSceneSessionBackground, Background, InBackground, Inactive
<1>5. CASE RunTask \/ RequestSceneSessionDestruction \/ Disconnect
  BY <1>5 DEF RunTask, RequestSceneSessionDestruction, Disconnect
<1>6. CASE UNCHANGED session
  BY <1>6
<1>7. \/ StartUIAbilityReturns \/ Connect \/ Foreground \/ Background \/ Disconnect
      \/ RequestSceneSessionBackground \/ RequestSceneSessionDestruction \/ RunTask
      \/ UNCHANGED session
  BY DEF Next, HandlerStep, PendingSessionActivation, Clear, HandlerTask, RefuseTask,
     StartUIAbility, JsStep, JsCallback, JsRemove, JsPost, ChangeUIAbilityVisibilityBySCB,
     TerminateSession, BinderPost, NotifySessionException, BinderStop, Ask, ClientStep,
     ClientConnect, ClientPost, ClientDies, ClientCheck, CloseUIAbility, Expire, Elsewhere
<1> QED
  BY <1>1, <1>2, <1>3, <1>4, <1>5, <1>6, <1>7

LEMMA BudgetStep ==
  ASSUME BudgetOK, Next
  PROVE  BudgetOK'
<1>1. ASSUME NEW what \in {"starts", "clears", "taps", "visible", "stops", "requests", "deaths",
                           "expiries"}, Spend(what)
      PROVE  BudgetOK'
  BY <1>1 DEF Spend, BudgetOK, Budget
<1>2. \/ UNCHANGED budget
      \/ \E what \in {"starts", "clears", "taps", "visible", "stops", "requests", "deaths",
                      "expiries"} : Spend(what)
  BY DEF Next, HandlerStep, PendingSessionActivation, Clear, HandlerTask, RefuseTask, RunTask,
     StartUIAbility, StartUIAbilityReturns, RequestSceneSessionBackground,
     RequestSceneSessionDestruction, Connect, Foreground, Background, Disconnect, Handle, JsStep,
     JsCallback, JsRemove, JsPost, ChangeUIAbilityVisibilityBySCB, TerminateSession, BinderPost,
     NotifySessionException, BinderStop, Ask, ClientStep, ClientConnect, ClientPost, ClientDies,
     ClientCheck, CloseUIAbility, Expire
<1> QED
  BY <1>1, <1>2 DEF BudgetOK

LEMMA TypeInit ==
  ASSUME Init
  PROVE  TypeInv
<1> USE DEF Init
<1>1. QueueOK
  <2>1. queue \in Seq(Entry) /\ Len(queue) = 0 /\ tasks \in Seq(TaskRec)
    OBVIOUS
  <2>2. 0 <= QueueLimit
    BY SessionLifecycleAssumption
  <2> QED
    BY <2>1, <2>2 DEF QueueOK
<1>2. ThreadsOK
  BY DEF ThreadsOK, NoTask
<1>3. MessagesOK
  BY DEF MessagesOK
<1>4. ClientsOK
  BY DEF ClientsOK, Statuses
<1>5. SessionOK
  BY DEF SessionOK, SessionInit, States
<1>6. BudgetOK
  BY SessionLifecycleAssumption DEF BudgetOK
<1> QED
  BY <1>1, <1>2, <1>3, <1>4, <1>5, <1>6 DEF TypeInv

LEMMA TypeStep ==
  ASSUME TypeInv, [Next]_vars
  PROVE  TypeInv'
<1>1. CASE Next
  BY <1>1, QueueStep, ThreadsStep, MessagesStep, ClientsStep, SessionStep, BudgetStep DEF TypeInv
<1>2. CASE UNCHANGED vars
  BY <1>2 DEF TypeInv, QueueOK, ThreadsOK, MessagesOK, ClientsOK, SessionOK, BudgetOK, vars,
     queueVars, threadVars, clientVars
<1> QED
  BY <1>1, <1>2

\* Every variable has its type: TypeInv without what ties queue, handler and
\* call together.
THEOREM TypeCorrect == Spec => []TypeOK
<1>1. TypeInv => TypeOK
  BY DEF TypeInv, QueueOK, ThreadsOK, MessagesOK, ClientsOK, SessionOK, BudgetOK, TypeOK, Entry,
     TaskRec, NoTask
<1> QED
  BY <1>1, TypeInit, TypeStep, PTL DEF Spec

-----------------------------------------------------------------------------
(* Who is told: a client connects once, and the session is active for the  *)
(* client that has connected.                                              *)

\* A client connects once, after it was started and before the session speaks
\* to it.
Waiting == {"none", "started"}
ConnectsOnce ==
  \A c \in Client :
     /\ c > newest => client[c] = "none"
     /\ client[c] \in Waiting => session.stage # c
     /\ \A i \in DOMAIN handler : handler[i].do = "connect" /\ handler[i].n = c =>
          /\ client[c] \notin Waiting
          /\ session.stage # c
          /\ \A j \in DOMAIN handler : handler[j].do = "connect" /\ handler[j].n = c => j = i

\* What it takes to become active again: SetActive(true) finds the session not
\* active, but for a cold start by call or one whose token is unknown.
ActiveOK ==
  /\ session.state \in {"background", "inactive"} => ~session.isActive
  /\ session.state = "connect" /\ session.isActive => called \/ session.token = NoOne
  /\ session.isActive /\ ~called /\ session.token # NoOne => session.stage = session.token

LifeInv == ConnectsOnce /\ ConnectedIsCurrent /\ ActiveOK /\ ForegroundIsActive

LEMMA SessionEffect ==
  ASSUME Next
  PROVE  \/ StartUIAbilityReturns /\ ColdStart(Head(handler).do)
         \/ Connect \/ Foreground \/ Background \/ Disconnect
         \/ RequestSceneSessionBackground \/ RequestSceneSessionDestruction
         \/ RunTask \/ UNCHANGED <<session, called>>
  BY DEF Next, HandlerStep, PendingSessionActivation, Clear, HandlerTask, RefuseTask,
     StartUIAbility, StartUIAbilityReturns, FailedStart, JsStep, JsCallback, JsRemove, JsPost,
     ChangeUIAbilityVisibilityBySCB, TerminateSession, BinderPost, NotifySessionException,
     BinderStop, Ask, ClientStep, ClientConnect, ClientPost, ClientDies, ClientCheck,
     CloseUIAbility, Expire, Elsewhere

LEMMA ConnectedStep ==
  ASSUME TypeInv, ConnectedIsCurrent, Next
  PROVE  ConnectedIsCurrent'
<1> USE DEF ConnectedIsCurrent, TypeInv, SessionOK
<1>1. CASE StartUIAbilityReturns /\ ColdStart(Head(handler).do)
  BY <1>1 DEF ColdStart
<1>2. CASE Connect
  BY <1>2 DEF Connect, KnownToken
<1>3. CASE Foreground
  BY <1>3 DEF Foreground
<1>4. CASE RequestSceneSessionBackground \/ Background
  BY <1>4 DEF RequestSceneSessionBackground, Background, InBackground, Inactive
<1>5. CASE RunTask \/ RequestSceneSessionDestruction \/ Disconnect
  BY <1>5 DEF RunTask, RequestSceneSessionDestruction, Disconnect
<1> QED
  BY <1>1, <1>2, <1>3, <1>4, <1>5, SessionEffect

LEMMA ActiveStep ==
  ASSUME TypeInv, LifeInv, Next
  PROVE  ActiveOK' /\ ForegroundIsActive'
<1> USE DEF LifeInv, ActiveOK, ForegroundIsActive, TypeInv, SessionOK
<1>1. CASE StartUIAbilityReturns /\ ColdStart(Head(handler).do)
  BY <1>1 DEF ColdStart
<1>2. CASE Connect
  <2>1. Head(handler).n \in Client /\ handler # <<>> /\ 1 \in DOMAIN handler
        /\ Head(handler) = handler[1] /\ handler[1].do = "connect"
    BY <1>2, HeadClient, TailFacts DEF Connect, Handle, At, MessagesOK
  <2>2. session.stage # Head(handler).n
    BY <2>1 DEF ConnectsOnce
  <2>3. UNCHANGED called
    BY <1>2 DEF Connect, Handle
  <2>4. CASE KnownToken(Head(handler).n) /\ Free
    <3>1. session' = [session EXCEPT !.stage = Head(handler).n, !.pid = Head(handler).n,
                                     !.state = "connect"]
      BY <1>2, <2>4 DEF Connect
    <3>2. session.token \in {NoOne, Head(handler).n}
      BY <2>4 DEF KnownToken
    <3>3. session.isActive => called \/ session.token = NoOne
      BY <2>2, <3>2
    <3> QED
      BY <2>3, <3>1, <3>2, <3>3
  <2>5. CASE ~(KnownToken(Head(handler).n) /\ Free)
    BY <1>2, <2>3, <2>5 DEF Connect
  <2> QED
    BY <2>4, <2>5
<1>3. CASE Foreground
  <2>1. UNCHANGED called
    BY <1>3 DEF Foreground, Handle
  <2> QED
    BY <1>3, <2>1 DEF Foreground, ConnectedIsCurrent
<1>4. CASE RequestSceneSessionBackground \/ Background
  <2>1. UNCHANGED called
    BY <1>4 DEF RequestSceneSessionBackground, Background, Handle
  <2> QED
    BY <1>4, <2>1 DEF RequestSceneSessionBackground, Background, InBackground, Inactive
<1>5. CASE RunTask \/ RequestSceneSessionDestruction \/ Disconnect
  BY <1>5 DEF RunTask, RequestSceneSessionDestruction, Disconnect, Handle
<1> QED
  BY <1>1, <1>2, <1>3, <1>4, <1>5, SessionEffect

\* A step that starts no client and takes no connection.
LEMMA ConnectsKept ==
  ASSUME TypeInv, ConnectsOnce,
         newest' = newest, session'.stage = session.stage,
         \A c \in Client : /\ client[c] = "none" => client'[c] = "none"
                           /\ client'[c] \in Waiting => client[c] \in Waiting,
         \/ handler' = handler
         \/ handler # <<>> /\ handler' = Tail(handler)
         \/ \E msg \in Messages : msg.do # "connect" /\ handler' = Append(handler, msg)
  PROVE  ConnectsOnce'
<1> SUFFICES ASSUME NEW c \in Client, NEW i \in DOMAIN handler',
                    handler'[i].do = "connect", handler'[i].n = c
             PROVE  /\ client[c] \notin Waiting /\ session.stage # c
                    /\ \A j \in DOMAIN handler' :
                         handler'[j].do = "connect" /\ handler'[j].n = c => j = i
  BY DEF ConnectsOnce
<1>1. CASE handler' = handler
  BY <1>1 DEF ConnectsOnce
<1>2. CASE handler # <<>> /\ handler' = Tail(handler)
  <2>1. /\ DOMAIN handler' = 1..(Len(handler) - 1) /\ Len(handler) \in Nat
        /\ \A j \in 1..(Len(handler) - 1) : handler'[j] = handler[j + 1]
    BY <1>2, TailFacts DEF TypeInv, MessagesOK
  <2>2. \A j \in DOMAIN handler' : j + 1 \in DOMAIN handler
    BY <2>1 DEF TypeInv, MessagesOK
  <2>3. handler[i + 1].do = "connect" /\ handler[i + 1].n = c
    BY <2>1
  <2>4. \A j \in DOMAIN handler : handler[j].do = "connect" /\ handler[j].n = c => j = i + 1
    BY <2>2, <2>3 DEF ConnectsOnce
  <2>5. ASSUME NEW j \in DOMAIN handler', handler'[j].do = "connect", handler'[j].n = c
        PROVE  j = i
    <3>1. j + 1 = i + 1
      BY <2>1, <2>2, <2>4, <2>5
    <3> QED
      BY <2>1, <3>1
  <2> QED
    BY <2>2, <2>3, <2>5 DEF ConnectsOnce
<1>3. ASSUME NEW msg \in Messages, msg.do # "connect", handler' = Append(handler, msg)
      PROVE  /\ client[c] \notin Waiting /\ session.stage # c
             /\ \A j \in DOMAIN handler' :
                  handler'[j].do = "connect" /\ handler'[j].n = c => j = i
  <2>1. /\ DOMAIN handler' = 1..(Len(handler) + 1) /\ Len(handler) \in Nat
        /\ DOMAIN handler = 1..Len(handler)
        /\ \A j \in 1..Len(handler) : handler'[j] = handler[j]
        /\ handler'[Len(handler) + 1] = msg
    BY <1>3, AppendFacts DEF TypeInv, MessagesOK
  <2>2. ASSUME NEW j \in DOMAIN handler', handler'[j].do = "connect"
        PROVE  j \in DOMAIN handler /\ handler'[j] = handler[j]
    <3>1. handler'[Len(handler) + 1].do # "connect"
      BY <1>3, <2>1
    <3>2. j # Len(handler) + 1
      BY <2>2, <3>1
    <3>3. j \in 1..Len(handler)
      <4>1. Len(handler) \in Nat /\ j \in 1..(Len(handler) + 1)
        BY <2>1
      <4> QED
        BY <3>2, <4>1, NotLast
    <3> QED
      BY <2>1, <3>3
  <2> QED
    BY <2>2 DEF ConnectsOnce
<1> QED
  BY <1>1, <1>2, <1>3

LEMMA ConnectsStep ==
  ASSUME TypeInv, ConnectsOnce, Next
  PROVE  ConnectsOnce'
<1>1. ASSUME NEW c \in Client, ClientConnect(c) PROVE ConnectsOnce'
  <2>1. /\ client[c] = "started" /\ client' = [client EXCEPT ![c] = "connecting"]
        /\ handler' = Append(handler, [do |-> "connect", n |-> c])
        /\ newest' = newest /\ session' = session
    BY <1>1 DEF ClientConnect, Elsewhere
  <2>2. /\ session.stage # c
        /\ \A i \in DOMAIN handler : ~(handler[i].do = "connect" /\ handler[i].n = c)
        /\ ~(c > newest)
    BY <2>1 DEF ConnectsOnce, Waiting
  <2>3. \A d \in Client : client'[d] = IF d = c THEN "connecting" ELSE client[d]
    BY <2>1 DEF TypeInv, ClientsOK
  <2>4. [do |-> "connect", n |-> c] \in Messages
    BY DEF Messages
  <2>5. /\ DOMAIN handler' = 1..(Len(handler) + 1) /\ Len(handler) \in Nat
        /\ DOMAIN handler = 1..Len(handler)
        /\ \A i \in 1..Len(handler) : handler'[i] = handler[i]
        /\ handler'[Len(handler) + 1] = [do |-> "connect", n |-> c]
    BY <2>1, <2>4, AppendFacts DEF TypeInv, MessagesOK
  <2>6. ASSUME NEW d \in Client, NEW i \in DOMAIN handler',
               handler'[i].do = "connect", handler'[i].n = d
        PROVE  /\ client'[d] \notin Waiting /\ session.stage # d
               /\ \A j \in DOMAIN handler' :
                    handler'[j].do = "connect" /\ handler'[j].n = d => j = i
    <3>1. \A j \in DOMAIN handler' :
            j = Len(handler) + 1 \/ (j \in DOMAIN handler /\ handler'[j] = handler[j])
      <4>1. ASSUME NEW j \in 1..(Len(handler) + 1), j # Len(handler) + 1
            PROVE  j \in DOMAIN handler /\ handler'[j] = handler[j]
        BY <2>5, <4>1, NotLast
      <4> QED
        BY <2>5, <4>1
    <3>2. CASE d = c
      <4>1. \A j \in DOMAIN handler' :
              handler'[j].do = "connect" /\ handler'[j].n = c => j = Len(handler) + 1
        BY <2>2, <3>1
      <4> QED
        BY <2>2, <2>3, <2>6, <3>2, <4>1 DEF Waiting
    <3>3. CASE d # c
      <4>1. \A j \in DOMAIN handler' :
              handler'[j].n = d => j \in DOMAIN handler /\ handler'[j] = handler[j]
        BY <2>5, <3>1, <3>3
      <4> QED
        BY <2>3, <2>6, <3>3, <4>1 DEF ConnectsOnce
    <3> QED
      BY <3>2, <3>3
  <2>7. \A d \in Client : /\ d > newest => client'[d] = "none"
                          /\ client'[d] \in Waiting => session.stage # d
    BY <2>2, <2>3 DEF ConnectsOnce, Waiting
  <2> QED
    BY <2>1, <2>6, <2>7 DEF ConnectsOnce
<1>2. CASE Connect
  <2> DEFINE c == Head(handler).n
  <2>1. c \in Client /\ handler # <<>> /\ 1 \in DOMAIN handler /\ Head(handler) = handler[1]
        /\ handler[1].do = "connect" /\ handler' = Tail(handler) /\ newest' = newest
    BY <1>2, HeadClient, TailFacts DEF Connect, Handle, TakeNext, At, TypeInv, MessagesOK
  <2>2. session'.stage \in {session.stage, c}
    BY <1>2 DEF Connect, TypeInv, SessionOK
  <2>3. client[c] \notin Waiting
        /\ \A j \in DOMAIN handler : handler[j].do = "connect" /\ handler[j].n = c => j = 1
    BY <2>1 DEF ConnectsOnce
  <2>4. \A d \in Client : client'[d] = client[d] \/ (d = c /\ client'[d] = "connected")
    BY <1>2, <2>1 DEF Connect, TypeInv, ClientsOK
  <2>5. \A d \in Client : /\ client'[d] \in Waiting <=> client[d] \in Waiting
                          /\ client[d] = "none" => client'[d] = "none"
    BY <2>3, <2>4 DEF Waiting
  <2>6. /\ DOMAIN handler' = 1..(Len(handler) - 1) /\ Len(handler) \in Nat
        /\ \A j \in 1..(Len(handler) - 1) : handler'[j] = handler[j + 1]
    BY <2>1, TailFacts DEF TypeInv, MessagesOK
  <2>7. \A j \in DOMAIN handler' : j + 1 \in DOMAIN handler /\ j + 1 # 1
    BY <2>6 DEF TypeInv, MessagesOK
  <2> HIDE DEF c
  <2>8. ASSUME NEW d \in Client, NEW i \in DOMAIN handler',
               handler'[i].do = "connect", handler'[i].n = d
        PROVE  /\ client'[d] \notin Waiting /\ session'.stage # d
               /\ \A j \in DOMAIN handler' :
                    handler'[j].do = "connect" /\ handler'[j].n = d => j = i
    <3>1. handler[i + 1].do = "connect" /\ handler[i + 1].n = d /\ i + 1 \in DOMAIN handler
      BY <2>6, <2>7, <2>8
    <3>2. d # c
      BY <2>3, <2>7, <3>1
    <3>3. /\ client[d] \notin Waiting /\ session.stage # d
          /\ \A j \in DOMAIN handler : handler[j].do = "connect" /\ handler[j].n = d => j = i + 1
      BY <3>1 DEF ConnectsOnce
    <3>4. ASSUME NEW j \in DOMAIN handler', handler'[j].do = "connect", handler'[j].n = d
          PROVE  j = i
      <4>1. j + 1 = i + 1
        BY <2>6, <2>7, <3>3, <3>4
      <4> QED
        BY <2>6, <4>1
    <3> QED
      BY <2>2, <2>5, <3>2, <3>3, <3>4
  <2>9. \A d \in Client : /\ d > newest => client'[d] = "none"
                          /\ client'[d] \in Waiting => session'.stage # d
    BY <2>2, <2>3, <2>5 DEF ConnectsOnce
  <2> QED
    BY <2>1, <2>8, <2>9 DEF ConnectsOnce
<1>3. ASSUME NEW do, StartUIAbility(do) PROVE ConnectsOnce'
  <2>1. UNCHANGED <<handler, session>>
    BY <1>3 DEF StartUIAbility
  <2>2. CASE UNCHANGED <<newest, client>>
    BY <2>1, <2>2 DEF ConnectsOnce
  <2>3. CASE ~UNCHANGED <<newest, client>>
    <3>1. newest' = newest + 1 /\ client' = [client EXCEPT ![newest + 1] = "started"]
      BY <1>3, <2>3 DEF StartUIAbility
    <3>2. newest \in Nat
      BY SessionLifecycleAssumption DEF TypeInv, ClientsOK, Client, NoOne
    <3>3. \A c \in Client : client'[c] = IF c = newest + 1 THEN "started" ELSE client[c]
      BY <3>1 DEF TypeInv, ClientsOK
    <3>4. \A c \in Client : c = newest + 1 => client[c] = "none"
      BY <3>2 DEF ConnectsOnce, Client
    <3>5. \A c \in Client : c > newest + 1 => c > newest /\ c # newest + 1
      BY <3>2 DEF Client
    <3>6. \A c \in Client : /\ c > newest' => client'[c] = "none"
                            /\ client'[c] \in Waiting <=> client[c] \in Waiting
      BY <3>1, <3>3, <3>4, <3>5 DEF ConnectsOnce, Waiting
    <3> QED
      BY <2>1, <3>6 DEF ConnectsOnce
  <2> QED
    BY <2>2, <2>3
<1>4. CASE ~ \/ \E c \in Client : ClientConnect(c)
             \/ \E do \in {"activate", "call"} : StartUIAbility(do)
             \/ Connect
  <2>1. newest' = newest
    BY <1>4 DEF Next, HandlerStep, PendingSessionActivation, Clear, HandlerTask, RefuseTask,
       RunTask, StartUIAbilityReturns, RequestSceneSessionBackground,
       RequestSceneSessionDestruction, Foreground, Background, Disconnect, Handle, JsStep,
       JsCallback, JsRemove, JsPost, ChangeUIAbilityVisibilityBySCB, TerminateSession,
       BinderPost, NotifySessionException, BinderStop, Ask, ClientStep, ClientPost,
       ClientDies, ClientCheck, CloseUIAbility, Expire, Elsewhere, clientVars
  <2>2. session'.stage = session.stage
    BY <1>4, SessionEffect DEF ColdStart, Foreground, Background, Disconnect,
       RequestSceneSessionBackground, RequestSceneSessionDestruction, RunTask, InBackground,
       Inactive, TypeInv, SessionOK
  <2>3. \/ UNCHANGED client
        \/ \E c \in Client : client[c] = "died" /\ client' = [client EXCEPT ![c] = "gone"]
        \/ \E c \in Client : Alive(c) /\ client' = [client EXCEPT ![c] = "died"]
        \/ \E c \in Client : client[c] = "connected" /\ client' = [client EXCEPT ![c] = "gone"]
    BY <1>4 DEF Next, HandlerStep, PendingSessionActivation, Clear, HandlerTask, RefuseTask,
       RunTask, StartUIAbilityReturns, RequestSceneSessionBackground,
       RequestSceneSessionDestruction, Foreground, Background, Disconnect, Handle, JsStep,
       JsCallback, JsRemove, JsPost, ChangeUIAbilityVisibilityBySCB, TerminateSession,
       BinderPost, NotifySessionException, BinderStop, Ask, ClientStep, ClientPost,
       ClientDies, ClientCheck, CloseUIAbility, Expire, Elsewhere, clientVars
  <2>4. \A c \in Client : /\ client[c] = "none" => client'[c] = "none"
                          /\ client'[c] \in Waiting => client[c] \in Waiting
    BY <2>3 DEF TypeInv, ClientsOK, Alive, Waiting
  <2>5. \/ handler' = handler
        \/ handler # <<>> /\ handler' = Tail(handler)
        \/ \E msg \in Messages : msg.do # "connect" /\ handler' = Append(handler, msg)
    BY <1>4, HandlerEffect DEF TypeInv
  <2> QED
    BY <2>1, <2>2, <2>4, <2>5, ConnectsKept
<1> QED
  BY <1>1, <1>2, <1>3, <1>4

LEMMA LifeCorrect == Spec => [](TypeInv /\ LifeInv)
<1>1. Init => TypeInv /\ LifeInv
  <2>1. Init => ConnectsOnce
    BY SessionLifecycleAssumption DEF Init, SessionInit, ConnectsOnce, Client, NoOne
  <2>2. Init => ConnectedIsCurrent /\ ActiveOK /\ ForegroundIsActive
    BY DEF Init, SessionInit, ConnectedIsCurrent, ActiveOK, ForegroundIsActive
  <2> QED
    BY <2>1, <2>2, TypeInit DEF LifeInv
<1>2. TypeInv /\ LifeInv /\ [Next]_vars => (TypeInv /\ LifeInv)'
  <2> SUFFICES ASSUME TypeInv, LifeInv, [Next]_vars PROVE TypeInv' /\ LifeInv'
    OBVIOUS
  <2>1. CASE Next
    BY <2>1, TypeStep, ConnectedStep, ActiveStep, ConnectsStep DEF LifeInv
  <2>2. CASE UNCHANGED vars
    BY <2>2, TypeStep DEF LifeInv, ConnectsOnce, ConnectedIsCurrent, ActiveOK,
       ForegroundIsActive, vars, clientVars
  <2> QED
    BY <2>1, <2>2
<1> QED
  BY <1>1, <1>2, PTL DEF Spec

\* The session is connected to the client that was started last.
THEOREM ConnectedCorrect == Spec => []ConnectedIsCurrent
<1>1. LifeInv => ConnectedIsCurrent
  BY DEF LifeInv
<1> QED
  BY <1>1, LifeCorrect, PTL

\* A session that came to the foreground is active.
THEOREM ForegroundCorrect == Spec => []ForegroundIsActive
<1>1. LifeInv => ForegroundIsActive
  BY DEF LifeInv
<1> QED
  BY <1>1, LifeCorrect, PTL

-----------------------------------------------------------------------------
(* The way of a task.                                                      *)

Elems(q) == {q[i] : i \in DOMAIN q}

LEMMA ElemsTail ==
  ASSUME NEW S, NEW q \in Seq(S), q # <<>>
  PROVE  Elems(q) = {Head(q)} \cup Elems(Tail(q))
<1>1. /\ Len(q) \in Nat \ {0} /\ Head(q) = q[1]
      /\ DOMAIN q = 1..Len(q) /\ DOMAIN Tail(q) = 1..(Len(q) - 1)
      /\ \A i \in 1..(Len(q) - 1) : Tail(q)[i] = q[i + 1]
  BY TailFacts
<1>2. ASSUME NEW i \in DOMAIN q PROVE q[i] \in {Head(q)} \cup Elems(Tail(q))
  <2>1. CASE i = 1
    BY <1>1, <2>1
  <2>2. CASE i # 1
    <3>1. i - 1 \in DOMAIN Tail(q) /\ (i - 1) + 1 = i
      BY <1>1, <2>2
    <3>2. Tail(q)[i - 1] = q[i]
      BY <1>1, <3>1
    <3> QED
      BY <3>1, <3>2 DEF Elems
  <2> QED
    BY <2>1, <2>2
<1>3. ASSUME NEW i \in DOMAIN Tail(q) PROVE Tail(q)[i] \in Elems(q)
  <2>1. i + 1 \in DOMAIN q /\ Tail(q)[i] = q[i + 1]
    BY <1>1
  <2> QED
    BY <2>1 DEF Elems
<1>4. Head(q) \in Elems(q)
  BY <1>1 DEF Elems
<1> QED
  BY <1>2, <1>3, <1>4 DEF Elems

LEMMA ElemsAppend ==
  ASSUME NEW S, NEW q \in Seq(S), NEW e \in S
  PROVE  Elems(Append(q, e)) = Elems(q) \cup {e}
<1>1. /\ Len(q) \in Nat /\ DOMAIN q = 1..Len(q) /\ DOMAIN Append(q, e) = 1..(Len(q) + 1)
      /\ \A i \in 1..Len(q) : Append(q, e)[i] = q[i]
      /\ Append(q, e)[Len(q) + 1] = e
  BY AppendFacts
<1>2. ASSUME NEW i \in DOMAIN Append(q, e) PROVE Append(q, e)[i] \in Elems(q) \cup {e}
  <2>1. CASE i = Len(q) + 1
    BY <1>1, <2>1
  <2>2. CASE i # Len(q) + 1
    <3>1. i \in 1..Len(q)
      BY <1>1, <2>2, NotLast
    <3> QED
      BY <1>1, <3>1 DEF Elems
  <2> QED
    BY <2>1, <2>2
<1>3. ASSUME NEW i \in DOMAIN q PROVE q[i] \in Elems(Append(q, e))
  <2>1. i \in DOMAIN Append(q, e) /\ Append(q, e)[i] = q[i]
    BY <1>1
  <2> QED
    BY <2>1 DEF Elems
<1>4. e \in Elems(Append(q, e))
  <2>1. Len(q) + 1 \in DOMAIN Append(q, e)
    BY <1>1
  <2> QED
    BY <1>1, <2>1 DEF Elems
<1> QED
  BY <1>2, <1>3, <1>4 DEF Elems

\* Where a task may be.
InHandler(n) == \E msg \in Elems(handler) : msg.do = "life" /\ msg.n = n
InPosting(n) == \E b \in Callers : posting[b] = n
InJq(n)      == n \in Elems(jq)
InJs(n)      == n \in {js.answered, js.run}

LEMMA WayParts ==
  ASSUME NEW n
  PROVE  OnItsWay(n) <=> n = inline \/ InJs(n) \/ InPosting(n) \/ InHandler(n) \/ InJq(n)
  BY DEF OnItsWay, Elems, InHandler, InPosting, InJq, InJs

LEMMA WayPartsNext ==
  ASSUME NEW n
  PROVE  OnItsWay(n)' <=> n = inline' \/ InJs(n)' \/ InPosting(n)' \/ InHandler(n)' \/ InJq(n)'
  BY DEF OnItsWay, Elems, InHandler, InPosting, InJq, InJs

\* A message that is no task, and one that is.
LEMMA MessageAppended ==
  ASSUME TypeInv, NEW msg \in Messages, handler' = Append(handler, msg), NEW n
  PROVE  InHandler(n)' <=> InHandler(n) \/ (msg.do = "life" /\ msg.n = n)
<1>1. Elems(handler') = Elems(handler) \cup {msg}
  BY ElemsAppend DEF TypeInv, MessagesOK
<1> QED
  BY <1>1 DEF InHandler, Elems

LEMMA MessageTaken ==
  ASSUME TypeInv, handler # <<>>, handler' = Tail(handler), NEW n
  PROVE  InHandler(n) <=> InHandler(n)' \/ (Head(handler).do = "life" /\ Head(handler).n = n)
<1>1. Elems(handler) = {Head(handler)} \cup Elems(handler')
  BY ElemsTail DEF TypeInv, MessagesOK
<1> QED
  BY <1>1 DEF InHandler, Elems

\* A step that accepts a task, or refuses one: what it releases is on its way.
PostStep(task) ==
  /\ PostLifeCycleTask(task)
  /\ UNCHANGED <<ended, jq>>
  /\ js'.answered = js.answered
  /\ \A n \in Task : OnItsWay(n)' <=> OnItsWay(n) \/ n = PostReleases

\* A step that takes the front of the queue out, for the answer of task m.
RemoveStep(type, m) ==
  /\ RemoveLifeCycleTask(type, m)
  /\ m # NoOne => m \in Task /\ Type(m) = type /\ OnItsWay(m)
  /\ m \in ended' \/ m = js.answered \/ m = NoOne
  /\ ended' \in {ended, ended \cup {m}}
  /\ js'.answered \in {NoOne, js.answered}
  /\ UNCHANGED jq
  /\ \A n \in Task : /\ OnItsWay(n)' => OnItsWay(n) \/ n = RemoveReleases(type)
                     /\ (OnItsWay(n) /\ n # m) \/ n = RemoveReleases(type) => OnItsWay(n)'

\* A step that leaves the queue alone.
OtherStep ==
  /\ UNCHANGED <<queue, tasks, early>>
  /\ \A n \in Task : OnItsWay(n)' <=> OnItsWay(n)
  /\ \A n \in ended' : n \in ended \/ OnItsWay(n)
  /\ ended \subseteq ended'
  /\ js'.answered \in ended' \cup {NoOne, js.answered}

LEMMA BinderWay ==
  ASSUME TypeInv, NEW b \in Callers, NEW task \in TaskRec, BinderStop(b, task)
  PROVE  PostStep(task)
<1> SUFFICES ASSUME NEW n \in Task PROVE OnItsWay(n)' <=> OnItsWay(n) \/ n = PostReleases
  BY DEF BinderStop, PostStep
<1>1. InPosting(n)' <=> InPosting(n) \/ n = PostReleases
  <2>1. /\ posting[b] = NoOne /\ posting' = [posting EXCEPT ![b] = PostReleases]
        /\ posting \in [Callers -> NoTask]
    BY DEF BinderStop, TypeInv, ThreadsOK
  <2>2. n # NoOne
    BY DEF Task, NoOne
  <2> QED
    BY <2>1, <2>2 DEF InPosting
<1>2. UNCHANGED <<inline, js, jq, handler>>
  BY DEF BinderStop
<1> QED
  BY <1>1, <1>2, WayParts, WayPartsNext DEF InJs, InHandler, InJq

LEMMA HandlerWay ==
  ASSUME TypeInv, NEW task \in TaskRec, PostLifeCycleTask(task), inline = NoOne,
         inline' = PostReleases, handler # <<>>, Head(handler).do # "life", TakeNext,
         UNCHANGED <<posting, jq, js, ended>>
  PROVE  PostStep(task)
<1> SUFFICES ASSUME NEW n \in Task PROVE OnItsWay(n)' <=> OnItsWay(n) \/ n = PostReleases
  BY DEF PostStep
<1>1. InHandler(n)' <=> InHandler(n)
  BY MessageTaken DEF TakeNext
<1>2. n # NoOne
  BY DEF Task, NoOne
<1> QED
  BY <1>1, <1>2, WayParts, WayPartsNext DEF InJs, InPosting, InJq

\* The task that runs leaves the place it ran from.
LEMMA RunningWay ==
  ASSUME TypeInv, Running # NoOne, Took, ams = "no", NEW n \in Task
  PROVE  /\ Running \in Task
         /\ n = inline \/ InHandler(n) <=> n = Running \/ InHandler(n)'
<1>1. Running \in Task
  BY RunningIsTask DEF TypeInv, NoTask
<1>2. CASE inline # NoOne
  BY <1>1, <1>2 DEF Running, Took, InHandler, Elems
<1>3. CASE inline = NoOne
  <2>1. /\ handler # <<>> /\ Head(handler).do = "life" /\ Head(handler).n = Running
        /\ handler' = Tail(handler)
    BY <1>3 DEF Running, At, Took, TakeNext
  <2>2. n # inline
    BY <1>3 DEF Task, NoOne
  <2> QED
    BY <1>1, <2>1, <2>2, MessageTaken
<1> QED
  BY <1>2, <1>3

LEMMA RefuseWay ==
  ASSUME TypeInv, RefuseTask
  PROVE  RemoveStep("stop", Running)
<1>1. Running \in Task /\ Type(Running) = "stop"
  BY RunningIsTask DEF RefuseTask, Refuses, Type, TypeInv, NoTask
<1>2. /\ RemoveLifeCycleTask("stop", Running) /\ inline' = RemoveReleases("stop")
      /\ ended' = ended \cup {Running} /\ UNCHANGED <<posting, jq, js>>
      /\ Running # NoOne /\ Took /\ ams = "no"
  BY DEF RefuseTask
<1>3. ASSUME NEW n \in Task
      PROVE  /\ OnItsWay(n)' => OnItsWay(n) \/ n = RemoveReleases("stop")
             /\ (OnItsWay(n) /\ n # Running) \/ n = RemoveReleases("stop") => OnItsWay(n)'
  BY <1>2, RunningWay, WayParts, WayPartsNext DEF InJs, InPosting, InJq
<1>4. OnItsWay(Running)
  BY <1>1, <1>2, RunningWay, WayParts
<1> QED
  BY <1>1, <1>2, <1>3, <1>4 DEF RemoveStep

LEMMA RunWay ==
  ASSUME TypeInv, RunTask
  PROVE  OtherStep
<1>1. /\ Running # NoOne /\ Took /\ ams = "no" /\ inline' = NoOne /\ jq' = Append(jq, Running)
      /\ UNCHANGED <<queue, tasks, early, posting, js, ended>>
  BY DEF RunTask, queueVars
<1>2. Running \in Task
  BY RunningIsTask DEF RunTask, TypeInv, NoTask
<1>3. Elems(jq') = Elems(jq) \cup {Running}
  BY <1>1, <1>2, ElemsAppend DEF TypeInv, ThreadsOK
<1>4. ASSUME NEW n \in Task PROVE OnItsWay(n)' <=> OnItsWay(n)
  <2>1. InJq(n)' <=> InJq(n) \/ n = Running
    BY <1>3 DEF InJq, Elems
  <2>2. n # NoOne
    BY DEF Task, NoOne
  <2> QED
    BY <1>1, <2>1, <2>2, RunningWay, WayParts, WayPartsNext DEF InJs, InPosting
<1> QED
  BY <1>1, <1>4 DEF OtherStep

LEMMA JsWay ==
  ASSUME TypeInv
  PROVE  /\ JsCallback \/ JsPost => OtherStep
         /\ JsRemove => RemoveStep(Type(js.answered), js.answered)
         /\ ChangeUIAbilityVisibilityBySCB => RemoveStep("start", NoOne)
<1>1. ASSUME JsCallback PROVE OtherStep
  <2>1. /\ js = [answered |-> NoOne, run |-> NoOne] /\ jq # <<>> /\ jq' = Tail(jq)
        /\ js' = [js EXCEPT !.answered = Head(jq)] /\ ended' = ended \cup {Head(jq)}
        /\ UNCHANGED <<queue, tasks, early, posting, inline>>
    BY <1>1 DEF JsCallback, queueVars
  <2>2. Elems(jq) = {Head(jq)} \cup Elems(jq') /\ Head(jq) \in Task
    BY <2>1, ElemsTail, TailFacts DEF TypeInv, ThreadsOK
  <2>3. ASSUME NEW n \in Task PROVE InHandler(n)' <=> InHandler(n)
    <3>1. CASE handler' = handler
      BY <3>1 DEF InHandler, Elems
    <3>2. CASE handler' # handler
      <4>1. PICK do \in {"activate", "call", "destroy"} :
              handler' = Append(handler, [do |-> do, n |-> Head(jq)])
        BY <1>1, <3>2 DEF JsCallback, Answers
      <4>2. [do |-> do, n |-> Head(jq)] \in Messages
        BY <2>2 DEF Messages
      <4> QED
        BY <4>1, <4>2, MessageAppended
    <3> QED
      BY <3>1, <3>2
  <2>4. ASSUME NEW n \in Task PROVE InJs(n)' \/ InJq(n)' <=> InJs(n) \/ InJq(n)
    <3>1. InJq(n) <=> n = Head(jq) \/ InJq(n)'
      BY <2>2 DEF InJq, Elems
    <3>2. InJs(n)' <=> n = Head(jq)
      BY <2>1 DEF InJs, Task, NoOne
    <3>3. ~InJs(n)
      BY <2>1 DEF InJs, Task, NoOne
    <3> QED
      BY <3>1, <3>2, <3>3
  <2>5. ASSUME NEW n \in Task PROVE OnItsWay(n)' <=> OnItsWay(n)
    BY <2>1, <2>3, <2>4, WayParts, WayPartsNext DEF InPosting
  <2>6. OnItsWay(Head(jq))
    BY <2>2, WayParts DEF InJq
  <2>7. js'.answered = Head(jq)
    BY <2>1
  <2> QED
    BY <2>1, <2>5, <2>6, <2>7 DEF OtherStep
<1>2. ASSUME JsPost PROVE OtherStep
  <2>1. /\ js.run # NoOne /\ handler' = Append(handler, [do |-> "life", n |-> js.run])
        /\ js' = [js EXCEPT !.run = NoOne]
        /\ UNCHANGED <<queue, tasks, early, posting, inline, jq, ended>>
    BY <1>2 DEF JsPost, queueVars
  <2>2. [do |-> "life", n |-> js.run] \in Messages
    BY <2>1 DEF TypeInv, ThreadsOK, NoTask, Messages
  <2>3. ASSUME NEW n \in Task PROVE InHandler(n)' <=> InHandler(n) \/ n = js.run
    BY <2>1, <2>2, MessageAppended
  <2>4. ASSUME NEW n \in Task PROVE InJs(n)' <=> n = js.answered
    BY <2>1 DEF InJs, TypeInv, ThreadsOK, Task, NoOne
  <2>5. ASSUME NEW n \in Task PROVE OnItsWay(n)' <=> OnItsWay(n)
    BY <2>1, <2>3, <2>4, WayParts, WayPartsNext DEF InPosting, InJq, InJs
  <2>6. js'.answered = js.answered
    BY <2>1 DEF TypeInv, ThreadsOK
  <2> QED
    BY <2>1, <2>5, <2>6 DEF OtherStep
<1>3. ASSUME JsRemove PROVE RemoveStep(Type(js.answered), js.answered)
  <2> DEFINE r == RemoveReleases(Type(js.answered))
  <2>1. /\ js.answered # NoOne /\ js.run = NoOne /\ js' = [answered |-> NoOne, run |-> r]
        /\ RemoveLifeCycleTask(Type(js.answered), js.answered)
        /\ UNCHANGED <<posting, inline, jq, handler, ended>>
    BY <1>3 DEF JsRemove
  <2>2. js.answered \in Task
    BY <2>1 DEF TypeInv, ThreadsOK, NoTask
  <2> HIDE DEF r
  <2>3. ASSUME NEW n \in Task PROVE /\ InJs(n)' <=> n = r
                                    /\ InJs(n) <=> n = js.answered
    BY <2>1 DEF InJs, Task, NoOne
  <2>4. ASSUME NEW n \in Task
        PROVE  /\ OnItsWay(n)' => OnItsWay(n) \/ n = r
               /\ (OnItsWay(n) /\ n # js.answered) \/ n = r => OnItsWay(n)'
    BY <2>1, <2>3, WayParts, WayPartsNext DEF InPosting, InJq, InHandler, Elems
  <2>5. OnItsWay(js.answered)
    BY WayParts DEF InJs
  <2>6. js'.answered = NoOne
    BY <2>1
  <2> QED
    BY <2>1, <2>2, <2>4, <2>5, <2>6 DEF RemoveStep, r
<1>4. ASSUME ChangeUIAbilityVisibilityBySCB PROVE RemoveStep("start", NoOne)
  <2> DEFINE r == RemoveReleases("start")
  <2>1. /\ js.run = NoOne /\ js' = [js EXCEPT !.run = r]
        /\ RemoveLifeCycleTask("start", NoOne)
        /\ UNCHANGED <<posting, inline, jq, handler, ended>>
    BY <1>4 DEF ChangeUIAbilityVisibilityBySCB
  <2> HIDE DEF r
  <2>2. js'.answered = js.answered /\ js'.run = r
    BY <2>1 DEF TypeInv, ThreadsOK
  <2>3. ASSUME NEW n \in Task PROVE InJs(n)' <=> InJs(n) \/ n = r
    BY <2>1, <2>2 DEF InJs, Task, NoOne
  <2>4. ASSUME NEW n \in Task
        PROVE  /\ OnItsWay(n)' => OnItsWay(n) \/ n = r
               /\ (OnItsWay(n) /\ n # NoOne) \/ n = r => OnItsWay(n)'
    BY <2>1, <2>3, WayParts, WayPartsNext DEF InPosting, InJq, InHandler, Elems
  <2> QED
    BY <2>1, <2>2, <2>4 DEF RemoveStep, r
<1> QED
  BY <1>1, <1>2, <1>3, <1>4

\* Only the binder threads and JsPost put tasks back into the handler's queue.
LEMMA MessageWay ==
  ASSUME TypeInv, UNCHANGED <<queue, tasks, early, posting, inline, jq, js, ended>>,
         \/ handler' = handler
         \/ handler # <<>> /\ Head(handler).do # "life" /\ handler' = Tail(handler)
         \/ \E msg \in Messages : msg.do # "life" /\ handler' = Append(handler, msg)
  PROVE  OtherStep
<1>1. ASSUME NEW n \in Task PROVE InHandler(n)' <=> InHandler(n)
  <2>1. CASE handler' = handler
    BY <2>1 DEF InHandler, Elems
  <2>2. CASE handler' # handler
    BY <2>2, MessageAppended, MessageTaken
  <2> QED
    BY <2>1, <2>2
<1>2. ASSUME NEW n \in Task PROVE OnItsWay(n)' <=> OnItsWay(n)
  BY <1>1, WayParts, WayPartsNext DEF InJs, InPosting, InJq, Elems
<1> QED
  BY <1>2 DEF OtherStep

LEMMA BinderPostWay ==
  ASSUME TypeInv, NEW b \in Callers, BinderPost(b)
  PROVE  OtherStep
<1>1. /\ posting[b] # NoOne /\ handler' = Append(handler, [do |-> "life", n |-> posting[b]])
      /\ posting' = [posting EXCEPT ![b] = NoOne]
      /\ UNCHANGED <<queue, tasks, early, inline, jq, js, ended>>
  BY DEF BinderPost, queueVars
<1>2. posting \in [Callers -> NoTask] /\ [do |-> "life", n |-> posting[b]] \in Messages
  BY <1>1 DEF TypeInv, ThreadsOK, NoTask, Messages
<1>3. ASSUME NEW n \in Task PROVE InHandler(n)' <=> InHandler(n) \/ n = posting[b]
  BY <1>1, <1>2, MessageAppended
<1>4. ASSUME NEW n \in Task PROVE InPosting(n) <=> InPosting(n)' \/ n = posting[b]
  BY <1>1, <1>2 DEF InPosting, Task, NoOne
<1>5. ASSUME NEW n \in Task PROVE OnItsWay(n)' <=> OnItsWay(n)
  BY <1>1, <1>3, <1>4, WayParts, WayPartsNext DEF InJs, InJq, Elems
<1> QED
  BY <1>1, <1>5 DEF OtherStep

LEMMA WayEffect ==
  ASSUME TypeInv, Next
  PROVE  \/ \E task \in TaskRec : PostStep(task)
         \/ \E type \in {"start", "stop"}, m \in NoTask : RemoveStep(type, m)
         \/ OtherStep
<1>1. CASE HandlerStep
  <2>1. ASSUME NEW do \in {"start", "clear"}, NEW kind \in Kinds, HandlerTask(do, kind)
        PROVE  \E task \in TaskRec : PostStep(task)
    <3> DEFINE task == [kind |-> kind, of |-> NoOne]
    <3>1. task \in TaskRec
      BY DEF TaskRec
    <3>2. /\ PostLifeCycleTask(task) /\ inline = NoOne /\ inline' = PostReleases
          /\ handler # <<>> /\ Head(handler).do # "life" /\ TakeNext
          /\ UNCHANGED <<posting, jq, js, ended>>
      BY <2>1 DEF HandlerTask, At, Busy
    <3> HIDE DEF task
    <3> QED
      BY <3>1, <3>2, HandlerWay
  <2>2. CASE PendingSessionActivation \/ Clear
    BY <2>1, <2>2 DEF PendingSessionActivation, Clear, Kinds
  <2>3. CASE StartUIAbilityReturns /\ FailedStart
    <3> DEFINE task == [kind |-> "exception", of |-> NoOne]
    <3>1. task \in TaskRec
      BY DEF TaskRec, Kinds
    <3>2. /\ PostLifeCycleTask(task) /\ inline = NoOne /\ inline' = PostReleases
          /\ handler # <<>> /\ Head(handler).do # "life" /\ TakeNext
          /\ UNCHANGED <<posting, jq, js, ended>>
      BY <2>3 DEF StartUIAbilityReturns, FailedStart, TypeInv, MessagesOK
    <3> HIDE DEF task
    <3> QED
      BY <3>1, <3>2, HandlerWay
  <2>4. CASE StartUIAbilityReturns /\ ~FailedStart
    <3>1. UNCHANGED <<queue, tasks, early, posting, inline, jq, js, ended>>
      BY <2>4 DEF StartUIAbilityReturns, ColdStart, queueVars
    <3>2. handler # <<>> /\ Head(handler).do # "life" /\ handler' = Tail(handler)
      BY <2>4 DEF StartUIAbilityReturns, TakeNext, TypeInv, MessagesOK
    <3> QED
      BY <3>1, <3>2, MessageWay
  <2>5. CASE \E do \in {"activate", "call"} : StartUIAbility(do)
    <3>1. UNCHANGED <<queue, tasks, early, posting, inline, jq, js, ended, handler>>
      BY <2>5 DEF StartUIAbility, queueVars, threadVars
    <3> QED
      BY <3>1, MessageWay
  <2>6. CASE \/ RequestSceneSessionBackground \/ RequestSceneSessionDestruction
             \/ Connect \/ Foreground \/ Background \/ Disconnect
    <3>1. UNCHANGED <<queue, tasks, early, posting, inline, jq, js, ended>>
      BY <2>6 DEF RequestSceneSessionBackground, RequestSceneSessionDestruction, Connect,
         Foreground, Background, Disconnect, Handle, queueVars, threadVars
    <3>2. handler # <<>> /\ Head(handler).do # "life" /\ handler' = Tail(handler)
      BY <2>6 DEF RequestSceneSessionBackground, RequestSceneSessionDestruction, Connect,
         Foreground, Background, Disconnect, Handle, At, TakeNext
    <3> QED
      BY <3>1, <3>2, MessageWay
  <2>7. CASE RefuseTask
    <3>1. Running \in NoTask
      BY RunningIsTask DEF TypeInv
    <3> QED
      BY <2>7, <3>1, RefuseWay
  <2> QED
    BY <1>1, <2>2, <2>3, <2>4, <2>5, <2>6, <2>7, RunWay DEF HandlerStep
<1>2. CASE JsStep \/ ChangeUIAbilityVisibilityBySCB
  <2>1. Type(js.answered) \in {"start", "stop"} /\ js.answered \in NoTask /\ NoOne \in NoTask
    BY DEF Type, TypeInv, ThreadsOK, NoTask
  <2> QED
    BY <1>2, <2>1, JsWay DEF JsStep
<1>3. ASSUME NEW b \in Callers,
             TerminateSession(b) \/ \E c \in Client : NotifySessionException(b, c)
      PROVE  \E task \in TaskRec : PostStep(task)
  <2>1. PICK task \in TaskRec : BinderStop(b, task)
    BY <1>3 DEF TerminateSession, NotifySessionException, TaskRec, Kinds
  <2> QED
    BY <2>1, BinderWay
<1>4. ASSUME NEW do \in {"start", "clear", "activate", "hide"}, NEW what, Ask(do, what)
      PROVE  OtherStep
  <2>1. [do |-> do, n |-> NoOne] \in Messages
    BY DEF Messages
  <2>2. /\ UNCHANGED <<queue, tasks, early, posting, inline, jq, js, ended>>
        /\ handler' = Append(handler, [do |-> do, n |-> NoOne])
    BY <1>4 DEF Ask, queueVars, threadVars
  <2> QED
    BY <2>1, <2>2, MessageWay
<1>5. ASSUME NEW c \in Client, ClientStep(c) PROVE OtherStep
  <2>1. [do |-> "connect", n |-> c] \in Messages
    BY DEF Messages
  <2>2. request[c] # "none" => /\ [do |-> request[c], n |-> c] \in Messages
                               /\ request[c] # "life"
    BY DEF Messages, Requests, TypeInv, ClientsOK
  <2>3. UNCHANGED <<queue, tasks, early, posting, inline, jq, js, ended>>
    BY <1>5 DEF ClientStep, ClientConnect, ClientPost, ClientDies, ClientCheck, Elsewhere,
       queueVars, threadVars
  <2>4. \/ handler' = handler
        \/ \E msg \in Messages : msg.do # "life" /\ handler' = Append(handler, msg)
    BY <1>5, <2>1, <2>2 DEF ClientStep, ClientConnect, ClientPost, ClientDies, ClientCheck
  <2> QED
    BY <2>3, <2>4, MessageWay
<1>6. CASE CloseUIAbility \/ Expire
  <2>1. UNCHANGED <<queue, tasks, early, posting, inline, jq, js, ended, handler>>
    BY <1>6 DEF CloseUIAbility, Expire, Elsewhere, queueVars, threadVars
  <2> QED
    BY <2>1, MessageWay
<1> QED
  BY <1>1, <1>2, <1>3, <1>4, <1>5, <1>6, BinderPostWay DEF Next

-----------------------------------------------------------------------------
(* The queue never stands still.                                           *)

LEMMA EntryFacts ==
  ASSUME NEW q \in Seq(Entry), NEW i \in DOMAIN q
  PROVE  q[i] \in Entry /\ q[i].id \in Task /\ q[i].running \in BOOLEAN
<1>1. q[i] \in Entry
  OBVIOUS
<1> QED
  BY <1>1 DEF Entry

\* The front of the queue, before a step and after it.
LEMMA StallFront ==
  ASSUME QueueOK, NoStall, queue # <<>>
  PROVE  /\ queue[1].id \in Task /\ queue[1].running
         /\ \E n \in Task : n = queue[1].id /\ OnItsWay(n)
<1>1. 1 \in DOMAIN queue
  BY DEF QueueOK
<1>2. queue[1].id \in Task
  BY <1>1, EntryFacts DEF QueueOK
<1> QED
  BY <1>1, <1>2 DEF NoStall, OnItsWay

LEMMA StallNext ==
  ASSUME NEW n \in Task, OnItsWay(n)',
         \A i \in DOMAIN queue' : queue'[i].running = (i = 1),
         1 \in DOMAIN queue' => queue'[1].id = n
  PROVE  NoStall'
  BY DEF NoStall, OnItsWay

LEMMA StallSame ==
  ASSUME QueueOK, NoStall, queue' = queue,
         queue # <<>> => \A n \in Task : n = queue[1].id => OnItsWay(n)'
  PROVE  NoStall'
<1>1. CASE queue = <<>>
  BY <1>1 DEF NoStall
<1>2. CASE queue # <<>>
  <2>1. PICK n \in Task : n = queue[1].id
    BY <1>2, StallFront
  <2>2. \A i \in DOMAIN queue' : queue'[i].running = (i = 1)
    BY DEF NoStall
  <2> QED
    BY <1>2, <2>1, <2>2, StallNext
<1> QED
  BY <1>1, <1>2

LEMMA StallPost ==
  ASSUME TypeInv, NoStall, NEW task \in TaskRec, PostStep(task)
  PROVE  NoStall'
<1>1. CASE ~Accepted
  <2>1. queue' = queue
    BY <1>1 DEF PostStep, PostLifeCycleTask, queueVars
  <2>2. queue # <<>> => \A n \in Task : n = queue[1].id => OnItsWay(n)'
    BY StallFront DEF TypeInv, PostStep
  <2> QED
    BY <2>1, <2>2, StallSame DEF TypeInv
<1>2. CASE Accepted
  <2>1. queue' = Started(WithNew) /\ PostReleases = ToPost(WithNew)
    BY <1>2 DEF PostStep, PostLifeCycleTask, PostReleases
  <2>2. /\ WithNew \in Seq(Entry) /\ WithNew # <<>> /\ Len(WithNew) = Len(Kept) + 1
        /\ \A i \in 1..Len(Kept) : WithNew[i] = Kept[i]
        /\ WithNew[Len(Kept) + 1] = [id |-> Len(tasks) + 1, running |-> FALSE]
    BY <1>2, PostFacts DEF TypeInv
  <2>3. /\ DOMAIN queue' = 1..(Len(Kept) + 1)
        /\ \A i \in 1..(Len(Kept) + 1) : /\ queue'[i].id = WithNew[i].id
                                         /\ queue'[i].running = (i = 1 \/ WithNew[i].running)
        /\ ~WithNew[1].running => ToPost(WithNew) = WithNew[1].id
    <3>1. /\ Started(WithNew) \in Seq(Entry) /\ Len(Started(WithNew)) = Len(WithNew)
          /\ \A i \in 1..Len(WithNew) :
               /\ Started(WithNew)[i].id = WithNew[i].id
               /\ Started(WithNew)[i].running = (i = 1 \/ WithNew[i].running)
          /\ ~WithNew[1].running => ToPost(WithNew) = WithNew[1].id
      BY <2>2, StartedFacts
    <3> QED
      BY <2>1, <2>2, <3>1
  <2>4. /\ Kept \in Seq(Entry) /\ Len(Kept) \in Nat
        /\ \A i \in 1..Len(Kept) : Kept[i] = IF expired THEN queue[i + 1] ELSE queue[i]
        /\ Len(Kept) = IF expired THEN Len(queue) - 1 ELSE Len(queue)
        /\ Len(queue) \in Nat /\ DOMAIN queue = 1..Len(queue)
    BY KeptFacts DEF TypeInv, QueueOK
  <2>5. \A i \in 1..Len(Kept) : Kept[i].running = (i = 1 /\ ~expired)
    <3>1. CASE expired
      <4>1. \A i \in 1..Len(Kept) : i + 1 \in DOMAIN queue /\ i + 1 # 1
        BY <2>4, <3>1
      <4> QED
        BY <2>4, <3>1, <4>1 DEF NoStall
    <3>2. CASE ~expired
      BY <2>4, <3>2 DEF NoStall
    <3> QED
      BY <3>1, <3>2
  <2>6. \A i \in 1..(Len(Kept) + 1) : WithNew[i].running => i = 1
    <3>1. \A i \in 1..(Len(Kept) + 1) : i = Len(Kept) + 1 \/ i \in 1..Len(Kept)
      BY <2>4, NotLast
    <3>2. ~WithNew[Len(Kept) + 1].running
      BY <2>2
    <3>3. \A i \in 1..Len(Kept) : WithNew[i].running => i = 1
      BY <2>2, <2>5
    <3> QED
      BY <3>1, <3>2, <3>3
  <2>7. \A i \in DOMAIN queue' : queue'[i].running = (i = 1)
    BY <2>3, <2>6
  <2>8. WithNew[1].id \in Task
    <3>1. 1 \in DOMAIN WithNew
      BY <2>2
    <3> QED
      BY <2>2, <3>1, EntryFacts
  <2>9. ASSUME NEW n \in Task, n = WithNew[1].id PROVE OnItsWay(n)'
    <3>1. CASE WithNew[1].running
      <4>1. 1 \in 1..Len(Kept) /\ ~expired
        <5>1. Len(Kept) + 1 # 1
          BY <2>2, <3>1
        <5>2. 1 \in 1..Len(Kept)
          BY <2>4, <5>1, OneIsFirst
        <5> QED
          BY <2>2, <2>5, <3>1, <5>2
      <4>2. WithNew[1] = queue[1] /\ 1 \in DOMAIN queue
        BY <2>2, <2>4, <4>1
      <4> QED
        BY <2>9, <4>2, StallFront DEF PostStep, TypeInv
    <3>2. CASE ~WithNew[1].running
      BY <2>1, <2>3, <2>9, <3>2 DEF PostStep
    <3> QED
      BY <3>1, <3>2
  <2>10. queue'[1].id = WithNew[1].id
    <3>1. 1 \in 1..(Len(Kept) + 1)
      BY <2>4, OneIsFirst
    <3> QED
      BY <2>3, <3>1
  <2> QED
    BY <2>7, <2>8, <2>9, <2>10, StallNext
<1> QED
  BY <1>1, <1>2

LEMMA StallRemove ==
  ASSUME TypeInv, NoStall, NEW type, NEW m \in NoTask, RemoveStep(type, m)
  PROVE  NoStall'
<1>1. CASE ~Matches(type)
  <2>1. queue' = queue
    BY <1>1 DEF RemoveStep, RemoveLifeCycleTask
  <2>2. queue # <<>> => queue[1].id # m
    <3>1. queue # <<>> => Head(queue) = queue[1] /\ queue[1].id \in Task
      BY StallFront DEF TypeInv, QueueOK
    <3> QED
      BY <1>1, <3>1 DEF RemoveStep, Matches, Task, NoOne
  <2>3. queue # <<>> => \A n \in Task : n = queue[1].id => OnItsWay(n)'
    BY <2>2, StallFront DEF TypeInv, RemoveStep
  <2> QED
    BY <2>1, <2>3, StallSame DEF TypeInv
<1>2. CASE Matches(type)
  <2>1. /\ queue # <<>> /\ queue' = Started(Tail(queue))
        /\ RemoveReleases(type) = ToPost(Tail(queue))
    BY <1>2 DEF RemoveStep, RemoveLifeCycleTask, RemoveReleases, Matches
  <2>2. /\ Tail(queue) \in Seq(Entry) /\ Len(queue) \in Nat /\ DOMAIN queue = 1..Len(queue)
        /\ Len(Tail(queue)) = Len(queue) - 1
        /\ \A i \in 1..(Len(queue) - 1) : Tail(queue)[i] = queue[i + 1]
    BY <2>1, TailFacts DEF TypeInv, QueueOK
  <2>3. \A i \in 1..(Len(queue) - 1) : ~Tail(queue)[i].running
    <3>1. \A i \in 1..(Len(queue) - 1) : i + 1 \in DOMAIN queue /\ i + 1 # 1
      BY <2>2
    <3> QED
      BY <2>2, <3>1 DEF NoStall
  <2>4. /\ DOMAIN queue' = 1..(Len(queue) - 1)
        /\ \A i \in 1..(Len(queue) - 1) : /\ queue'[i].id = Tail(queue)[i].id
                                          /\ queue'[i].running = (i = 1 \/ Tail(queue)[i].running)
        /\ Tail(queue) # <<>> /\ ~Tail(queue)[1].running => ToPost(Tail(queue)) = Tail(queue)[1].id
    <3>1. /\ Started(Tail(queue)) \in Seq(Entry) /\ Len(Started(Tail(queue))) = Len(Tail(queue))
          /\ \A i \in 1..Len(Tail(queue)) :
               /\ Started(Tail(queue))[i].id = Tail(queue)[i].id
               /\ Started(Tail(queue))[i].running = (i = 1 \/ Tail(queue)[i].running)
          /\ Tail(queue) # <<>> /\ ~Tail(queue)[1].running =>
               ToPost(Tail(queue)) = Tail(queue)[1].id
      BY <2>2, StartedFacts
    <3> QED
      BY <2>1, <2>2, <3>1
  <2>5. \A i \in DOMAIN queue' : queue'[i].running = (i = 1)
    BY <2>3, <2>4
  <2>6. CASE 1 \in DOMAIN queue'
    <3>1. 1 \in 1..(Len(queue) - 1) /\ 1 \in DOMAIN Tail(queue) /\ Tail(queue) # <<>>
      <4>1. 1 \in 1..(Len(queue) - 1)
        BY <2>4, <2>6
      <4>2. 1 \in DOMAIN Tail(queue)
        BY <2>2, <4>1
      <4>3. Tail(queue) # <<>>
        <5>1. DOMAIN << >> = {}
          OBVIOUS
        <5> QED
          BY <4>2, <5>1
      <4> QED
        BY <4>1, <4>2, <4>3
    <3>2. Tail(queue)[1].id \in Task
      BY <2>2, <3>1, EntryFacts
    <3>3. queue'[1].id = Tail(queue)[1].id /\ RemoveReleases(type) = Tail(queue)[1].id
      BY <2>1, <2>3, <2>4, <3>1
    <3>4. PICK n \in Task : n = Tail(queue)[1].id
      BY <3>2
    <3>5. OnItsWay(n)'
      BY <3>3, <3>4 DEF RemoveStep
    <3> QED
      BY <2>5, <3>3, <3>4, <3>5, StallNext
  <2>7. CASE 1 \notin DOMAIN queue'
    <3>1. DOMAIN queue' = {}
      BY <2>2, <2>4, <2>7
    <3> QED
      BY <3>1 DEF NoStall
  <2> QED
    BY <2>6, <2>7
<1> QED
  BY <1>1, <1>2

\* The queue never stands still, however posts, answers and late answers meet.
THEOREM StallCorrect == Spec => []NoStall
<1>1. Init => TypeInv /\ NoStall
  <2>1. Init => DOMAIN queue = {}
    BY DEF Init
  <2> QED
    BY <2>1, TypeInit DEF NoStall
<1>2. TypeInv /\ NoStall /\ [Next]_vars => (TypeInv /\ NoStall)'
  <2> SUFFICES ASSUME TypeInv, NoStall, [Next]_vars PROVE TypeInv' /\ NoStall'
    OBVIOUS
  <2>1. CASE OtherStep
    <3>1. queue # <<>> => \A n \in Task : n = queue[1].id => OnItsWay(n)'
      BY <2>1, StallFront DEF TypeInv, OtherStep
    <3>2. NoStall'
      BY <2>1, <3>1, StallSame DEF TypeInv, OtherStep
    <3> QED
      BY <3>2, TypeStep
  <2>2. CASE UNCHANGED vars
    BY <2>2, TypeStep DEF NoStall, OnItsWay, vars, queueVars, threadVars
  <2> QED
    BY <2>1, <2>2, TypeStep, WayEffect, StallPost, StallRemove
<1> QED
  BY <1>1, <1>2, PTL DEF Spec

-----------------------------------------------------------------------------
(* The order of the tasks.                                                 *)

\* The tasks before the front of the queue are out of it, those in it follow
\* one another, and no task behind the front has left or is on its way.
Out == Len(tasks) - Len(queue)
Places ==
  /\ Len(queue) <= Len(tasks)
  /\ \A i \in 1..Len(queue) : queue[i].id = Out + i
  /\ \A n \in 1..Out : n \in ended \cup early
  /\ \A n \in Task : OnItsWay(n) \/ n \in ended => n <= Out + 1 /\ n <= Len(tasks)
  /\ js.answered # NoOne => js.answered \in ended

LEMMA PlacesPost ==
  ASSUME TypeInv, Places, NEW task \in TaskRec, PostStep(task)
  PROVE  Places'
<1>0. UNCHANGED ended /\ js'.answered = js.answered
  BY DEF PostStep
<1>1. CASE ~Accepted
  <2>1. UNCHANGED <<queue, tasks, early>> /\ PostReleases = NoOne
    BY <1>1 DEF PostStep, PostLifeCycleTask, PostReleases, queueVars
  <2>2. \A n \in Task : OnItsWay(n)' => OnItsWay(n)
    BY <2>1 DEF PostStep, Task, NoOne
  <2> QED
    BY <1>0, <2>1, <2>2 DEF Places, Out
<1>2. CASE Accepted
  <2> DEFINE k == Len(Kept)  t == Len(tasks)  q == Len(queue)
  <2>1. /\ queue' = Started(WithNew) /\ PostReleases = ToPost(WithNew)
        /\ tasks' = Append(tasks, task)
        /\ early' = IF expired THEN early \cup {Head(queue).id} ELSE early
    BY <1>2 DEF PostStep, PostLifeCycleTask, PostReleases
  <2>2. /\ WithNew \in Seq(Entry) /\ WithNew # <<>> /\ Len(WithNew) = k + 1
        /\ \A i \in 1..k : WithNew[i] = Kept[i]
        /\ WithNew[k + 1] = [id |-> t + 1, running |-> FALSE]
        /\ t \in Nat
    BY <1>2, PostFacts DEF TypeInv
  <2>3. /\ k \in Nat /\ q \in Nat
        /\ \A i \in 1..k : Kept[i] = IF expired THEN queue[i + 1] ELSE queue[i]
        /\ k = IF expired THEN q - 1 ELSE q
    BY KeptFacts DEF TypeInv, QueueOK
  <2>4. Len(queue') = k + 1 /\ Len(tasks') = t + 1
    BY <2>1, <2>2, StartedFacts, AppendFacts DEF TypeInv, QueueOK
  <2>5. \A i \in 1..(k + 1) : queue'[i].id = WithNew[i].id
    BY <2>1, <2>2, StartedFacts
  <2>6. q <= t /\ \A i \in 1..q : queue[i].id = t - q + i
    BY DEF Places, Out
  <2> HIDE DEF k, t, q
  <2>7. Out = t - q /\ Out' = t - k
    BY <2>2, <2>3, <2>4 DEF Out, t, q
  <2>8. \A i \in 1..k : WithNew[i].id = t - k + i
    <3>1. CASE expired
      <4> SUFFICES ASSUME NEW i \in 1..k PROVE WithNew[i].id = t - k + i
        OBVIOUS
      <4>1. i + 1 \in 1..q /\ t - q + (i + 1) = t - k + i
        BY <2>2, <2>3, <3>1
      <4>2. WithNew[i] = queue[i + 1]
        BY <2>2, <2>3, <3>1
      <4>3. queue[i + 1].id = t - q + (i + 1)
        BY <2>6, <4>1
      <4> QED
        BY <4>1, <4>2, <4>3
    <3>2. CASE ~expired
      BY <2>2, <2>3, <2>6, <3>2
    <3> QED
      BY <3>1, <3>2
  <2>9. WithNew[k + 1].id = t - k + (k + 1)
    BY <2>2, <2>3
  <2>10. \A i \in 1..(k + 1) : WithNew[i].id = t - k + i
    <3>1. \A i \in 1..(k + 1) : i = k + 1 \/ i \in 1..k
      BY <2>3, NotLast
    <3> QED
      BY <2>8, <2>9, <3>1
  <2>11. k <= t /\ t - q <= t - k
    BY <2>2, <2>3, <2>6
  <2>12. ASSUME NEW n \in 1..(t - k) PROVE n \in ended \cup early'
    <3>1. CASE n \in 1..(t - q)
      BY <2>1, <2>7, <3>1 DEF Places
    <3>2. CASE n \notin 1..(t - q)
      <4>1. expired /\ n = t - q + 1
        BY <2>2, <2>3, <3>2
      <4>2. queue # <<>> /\ Head(queue) = queue[1] /\ 1 \in 1..q
        BY <4>1, TailFacts DEF TypeInv, QueueOK, q
      <4>3. Head(queue).id = n
        BY <2>6, <4>1, <4>2
      <4> QED
        BY <2>1, <4>1, <4>3
    <3> QED
      BY <3>1, <3>2
  <2>13. ASSUME NEW n \in Task, OnItsWay(n)' \/ n \in ended
         PROVE  n <= t - k + 1 /\ n <= t + 1
    <3>1. CASE OnItsWay(n) \/ n \in ended
      <4>1. n <= t - q + 1 /\ n <= t /\ n \in Nat
        BY <2>7, <3>1 DEF Places, t, Task
      <4> QED
        BY <2>2, <2>3, <2>11, <4>1
    <3>2. CASE ~(OnItsWay(n) \/ n \in ended)
      <4>1. n = ToPost(WithNew) /\ n # NoOne
        BY <2>1, <2>13, <3>2 DEF PostStep, Task, NoOne
      <4>2. n = WithNew[1].id
        BY <4>1 DEF ToPost
      <4>3. n = t - k + 1
        BY <2>3, <2>10, <4>2, OneIsFirst
      <4> QED
        BY <2>2, <2>3, <4>3
    <3> QED
      BY <3>1, <3>2
  <2>14. Len(queue') <= Len(tasks')
    BY <2>2, <2>3, <2>4, <2>11
  <2>15. \A i \in 1..Len(queue') : queue'[i].id = Out' + i
    BY <2>4, <2>5, <2>7, <2>10
  <2> QED
    BY <1>0, <2>4, <2>7, <2>12, <2>13, <2>14, <2>15 DEF Places
<1> QED
  BY <1>1, <1>2

LEMMA PlacesRemove ==
  ASSUME TypeInv, Places, NEW type, NEW m \in NoTask, RemoveStep(type, m)
  PROVE  Places'
<1>0. /\ ended' \in {ended, ended \cup {m}} /\ js'.answered \in {NoOne, js.answered}
      /\ m \in ended' \/ m = NoOne
      /\ m # NoOne => OnItsWay(m)
  BY DEF RemoveStep, Places
<1>1. CASE ~Matches(type)
  <2>1. UNCHANGED <<queue, tasks, early>> /\ RemoveReleases(type) = NoOne
    BY <1>1 DEF RemoveStep, RemoveLifeCycleTask, RemoveReleases
  <2>2. \A n \in Task : OnItsWay(n)' => OnItsWay(n)
    BY <2>1 DEF RemoveStep, Task, NoOne
  <2>3. \A n \in Task : n \in ended' => n \in ended \/ OnItsWay(n)
    BY <1>0 DEF Task, NoOne
  <2> QED
    BY <1>0, <2>1, <2>2, <2>3 DEF Places, Out
<1>2. CASE Matches(type)
  <2> DEFINE t == Len(tasks)  q == Len(queue)
  <2>1. /\ queue # <<>> /\ queue' = Started(Tail(queue)) /\ tasks' = tasks
        /\ RemoveReleases(type) = ToPost(Tail(queue))
        /\ early' = early \cup ({Head(queue).id} \ {m})
    BY <1>2 DEF RemoveStep, RemoveLifeCycleTask, RemoveReleases, Matches
  <2>2. /\ Tail(queue) \in Seq(Entry) /\ q \in Nat \ {0} /\ t \in Nat /\ Head(queue) = queue[1]
        /\ Len(Tail(queue)) = q - 1
        /\ \A i \in 1..(q - 1) : Tail(queue)[i] = queue[i + 1]
    BY <2>1, TailFacts DEF TypeInv, QueueOK
  <2>3. Len(queue') = q - 1 /\ \A i \in 1..(q - 1) : queue'[i].id = Tail(queue)[i].id
    <3>1. /\ Len(Started(Tail(queue))) = Len(Tail(queue))
          /\ \A i \in 1..Len(Tail(queue)) : Started(Tail(queue))[i].id = Tail(queue)[i].id
      BY <2>2, StartedFacts
    <3> QED
      BY <2>1, <2>2, <3>1
  <2>4. q <= t /\ \A i \in 1..q : queue[i].id = t - q + i
    BY DEF Places, Out
  <2>5. Tail(queue) # <<>> => 1 \in 1..(q - 1)
    BY <2>2
  <2> HIDE DEF t, q
  <2>6. Out = t - q /\ Out' = t - q + 1
    <3>1. Len(tasks') = t /\ t - (q - 1) = t - q + 1
      BY <2>1, <2>2 DEF t
    <3> QED
      BY <2>3, <3>1 DEF Out, t, q
  <2>7. \A i \in 1..(q - 1) : i + 1 \in 1..q /\ t - q + (i + 1) = t - q + 1 + i
    BY <2>2
  <2>8. \A i \in 1..(q - 1) : Tail(queue)[i].id = t - q + 1 + i
    BY <2>2, <2>4, <2>7
  <2>9. ASSUME NEW n \in 1..(t - q + 1) PROVE n \in ended' \cup early'
    <3>1. CASE n \in 1..(t - q)
      BY <1>0, <2>1, <2>6, <3>1 DEF Places
    <3>2. CASE n \notin 1..(t - q)
      <4>1. n = t - q + 1 /\ n \in Nat \ {0}
        BY <2>2, <2>4, <3>2
      <4>2. 1 \in 1..q
        BY <2>2
      <4>3. Head(queue).id = n
        BY <2>2, <2>4, <4>1, <4>2
      <4> QED
        BY <1>0, <2>1, <4>1, <4>3 DEF NoOne
    <3> QED
      BY <3>1, <3>2
  <2>10. ASSUME NEW n \in Task, OnItsWay(n)' \/ n \in ended'
         PROVE  n <= t - q + 2 /\ n <= t
    <3>1. CASE OnItsWay(n) \/ n \in ended \/ n = m
      <4>1. n <= t - q + 1 /\ n <= t /\ n \in Nat
        BY <1>0, <2>6, <3>1 DEF Places, t, Task, NoOne
      <4> QED
        BY <2>2, <4>1
    <3>2. CASE ~(OnItsWay(n) \/ n \in ended \/ n = m)
      <4>1. n = ToPost(Tail(queue)) /\ n # NoOne
        BY <1>0, <2>1, <2>10, <3>2 DEF RemoveStep, Task, NoOne
      <4>2. n = Tail(queue)[1].id /\ Tail(queue) # <<>>
        BY <4>1 DEF ToPost
      <4>3. n = t - q + 1 + 1 /\ 1 <= q - 1
        BY <2>5, <2>8, <4>2
      <4> QED
        BY <2>2, <4>3
    <3> QED
      BY <3>1, <3>2
  <2>11. Len(queue') <= Len(tasks') /\ t - q + 1 + 1 = t - q + 2
    <3>1. q - 1 <= t /\ t - q + 1 + 1 = t - q + 2
      BY <2>2, <2>4
    <3> QED
      BY <2>1, <2>3, <3>1 DEF t
  <2>12. \A i \in 1..Len(queue') : queue'[i].id = Out' + i
    BY <2>3, <2>6, <2>8
  <2>13. Len(tasks') = t
    BY <2>1 DEF t
  <2> QED
    BY <1>0, <2>6, <2>9, <2>10, <2>11, <2>12, <2>13 DEF Places
<1> QED
  BY <1>1, <1>2

LEMMA PlacesCorrect == Spec => [](TypeInv /\ Places)
<1>1. Init => TypeInv /\ Places
  <2> SUFFICES ASSUME Init PROVE Places
    BY TypeInit
  <2>1. Len(queue) = 0 /\ Len(tasks) = 0 /\ ended = {} /\ js.answered = NoOne
    BY DEF Init
  <2>2. \A n \in Task : ~OnItsWay(n)
    BY DEF Init, OnItsWay, Task, NoOne
  <2> QED
    BY <2>1, <2>2 DEF Places, Out
<1>2. TypeInv /\ Places /\ [Next]_vars => (TypeInv /\ Places)'
  <2> SUFFICES ASSUME TypeInv, Places, [Next]_vars PROVE TypeInv' /\ Places'
    OBVIOUS
  <2>1. CASE OtherStep
    BY <2>1, TypeStep DEF Places, Out, OtherStep
  <2>2. CASE UNCHANGED vars
    BY <2>2, TypeStep DEF Places, Out, OnItsWay, vars, queueVars, threadVars
  <2> QED
    BY <2>1, <2>2, TypeStep, WayEffect, PlacesPost, PlacesRemove
<1> QED
  BY <1>1, <1>2, PTL DEF Spec

\* SCB is asked in the order of the queue, but for the tasks that lost their
\* place.
THEOREM OrderCorrect == Spec => []InOrder
<1>1. TypeInv /\ Places => InOrder
  <2> SUFFICES ASSUME TypeInv, Places, NEW n \in ended, NEW m \in 1..n
               PROVE  m \in ended \cup early
    BY DEF InOrder
  <2>1. n \in Task /\ Len(tasks) \in Nat /\ Len(queue) \in Nat
    BY DEF TypeInv, ThreadsOK, QueueOK
  <2>2. n <= Out + 1
    BY <2>1 DEF Places
  <2>3. m = n \/ m \in 1..Out
    BY <2>1, <2>2 DEF Out, Task
  <2> QED
    BY <2>3 DEF Places
<1> QED
  BY <1>1, PlacesCorrect, PTL

-----------------------------------------------------------------------------
(* Who resets isTerminating_.                                              *)

StopAsked == \E n \in Elems(jq) : Type(n) = "stop"
DestroyAsked == \E msg \in Elems(handler) : msg.do = "destroy"
Owed == session.isTerminating => StopAsked \/ DestroyAsked

\* A task on its way to the JS thread keeps its kind.
LEMMA StopStays ==
  ASSUME TypeInv, Places, Next, NEW n \in Elems(jq), Type(n) = "stop"
  PROVE  Type(n)' = "stop"
<1>1. n \in Task
  BY DEF TypeInv, ThreadsOK, Elems
<1>2. n \in 1..Len(tasks) /\ tasks \in Seq(TaskRec)
  <2>1. n <= Len(tasks) /\ n \in Nat \ {0} /\ Len(tasks) \in Nat
    BY <1>1, WayParts DEF Places, InJq, Task, TypeInv, QueueOK
  <2> QED
    BY <2>1 DEF TypeInv, QueueOK
<1>3. tasks' = tasks \/ \E task \in TaskRec : tasks' = Append(tasks, task)
  BY QueueEffect DEF PostLifeCycleTask, RemoveLifeCycleTask, queueVars
<1>4. tasks'[n] = tasks[n]
  BY <1>2, <1>3, AppendFacts
<1> QED
  BY <1>4 DEF Type

\* The other steps neither take a task to SCB nor a destruction from the queue.
LEMMA OwedKept ==
  ASSUME TypeInv, Places, Owed, Next, Elems(jq) \subseteq Elems(jq'),
         session'.isTerminating => session.isTerminating,
         DestroyAsked => DestroyAsked'
  PROVE  Owed'
<1>1. StopAsked => StopAsked'
  <2> SUFFICES ASSUME NEW n \in Elems(jq), Type(n) = "stop" PROVE StopAsked'
    BY DEF StopAsked
  <2>1. n \in Elems(jq') /\ Type(n)' = "stop"
    BY StopStays
  <2> QED
    BY <2>1 DEF StopAsked, Elems
<1> QED
  BY <1>1 DEF Owed

LEMMA DestroyStays ==
  ASSUME TypeInv, Next, ~RequestSceneSessionDestruction, DestroyAsked
  PROVE  DestroyAsked'
<1>1. PICK msg \in Elems(handler) : msg.do = "destroy"
  BY DEF DestroyAsked
<1>2. CASE handler' = handler
  BY <1>1, <1>2 DEF DestroyAsked, Elems
<1>3. CASE \E new \in Messages : handler' = Append(handler, new)
  <2>1. Elems(handler) \subseteq Elems(handler')
    BY <1>3, ElemsAppend DEF TypeInv, MessagesOK
  <2> QED
    BY <1>1, <2>1 DEF DestroyAsked, Elems
<1>4. CASE HandlerStep /\ handler # <<>> /\ handler' = Tail(handler) /\ handler' # handler
  <2>1. Elems(handler) = {Head(handler)} \cup Elems(handler')
    BY <1>4, ElemsTail DEF TypeInv, MessagesOK
  <2>2. Head(handler).do # "destroy"
    BY <1>4 DEF HandlerStep, PendingSessionActivation, Clear, HandlerTask, RefuseTask, RunTask,
       Running, Took, StartUIAbility, StartUIAbilityReturns, RequestSceneSessionBackground,
       Connect, Foreground, Background, Disconnect, Handle, At, TypeInv, MessagesOK
  <2>3. msg \in Elems(handler')
    BY <1>1, <2>1, <2>2
  <2> QED
    BY <1>1, <2>3 DEF DestroyAsked, Elems
<1> QED
  BY <1>2, <1>3, <1>4, HandlerEffect DEF TypeInv

LEMMA OwedStep ==
  ASSUME TypeInv, Places, Owed, Next
  PROVE  Owed'
<1>1. CASE RequestSceneSessionDestruction \/ Foreground
  <2>1. session'.isTerminating => session.isTerminating /\ ~RequestSceneSessionDestruction
    BY <1>1 DEF RequestSceneSessionDestruction, Foreground, TypeInv, SessionOK
  <2>2. jq' = jq
    BY <1>1 DEF RequestSceneSessionDestruction, Foreground, Handle, threadVars
  <2>3. CASE session'.isTerminating
    BY <2>1, <2>2, <2>3, DestroyStays, OwedKept
  <2>4. CASE ~session'.isTerminating
    BY <2>4 DEF Owed
  <2> QED
    BY <2>3, <2>4
<1>2. CASE RunTask
  <2>1. Running \in Task /\ jq' = Append(jq, Running) /\ UNCHANGED tasks
    BY <1>2, RunningIsTask DEF RunTask, queueVars, TypeInv, NoTask
  <2>2. Elems(jq') = Elems(jq) \cup {Running}
    BY <2>1, ElemsAppend DEF TypeInv, ThreadsOK
  <2>3. CASE Type(Running) = "stop"
    <3>1. PICK n \in Task : n = Running
      BY <2>1
    <3>2. n \in Elems(jq') /\ Type(n)' = "stop"
      BY <2>1, <2>2, <2>3, <3>1 DEF Type
    <3>3. StopAsked'
      BY <3>2 DEF StopAsked, Elems
    <3> QED
      BY <3>3 DEF Owed
  <2>4. CASE Type(Running) # "stop"
    <3>1. session'.isTerminating => session.isTerminating
      BY <1>2, <2>4 DEF RunTask, TypeInv, SessionOK
    <3>2. ~RequestSceneSessionDestruction
      BY <1>2 DEF RunTask, RequestSceneSessionDestruction, Handle, Running, Took, TakeNext, At,
         Busy, TypeInv, ThreadsOK, NoTask
    <3> QED
      BY <2>2, <3>1, <3>2, DestroyStays, OwedKept
  <2> QED
    BY <2>3, <2>4
<1>3. CASE JsCallback
  <2>1. jq # <<>> /\ jq' = Tail(jq) /\ UNCHANGED <<session, tasks>>
    BY <1>3 DEF JsCallback, queueVars
  <2>2. Elems(jq) = {Head(jq)} \cup Elems(jq') /\ Head(jq) \in Task
    BY <2>1, ElemsTail, TailFacts DEF TypeInv, ThreadsOK
  <2>3. CASE Type(Head(jq)) = "stop"
    <3>1. handler' = Append(handler, [do |-> "destroy", n |-> Head(jq)])
      BY <1>3, <2>3 DEF JsCallback, Answers
    <3>2. [do |-> "destroy", n |-> Head(jq)] \in Messages
      BY <2>2 DEF Messages
    <3>3. [do |-> "destroy", n |-> Head(jq)] \in Elems(handler')
      BY <3>1, <3>2, ElemsAppend DEF TypeInv, MessagesOK
    <3>4. DestroyAsked'
      BY <3>3 DEF DestroyAsked, Elems
    <3> QED
      BY <3>4 DEF Owed
  <2>4. CASE Type(Head(jq)) # "stop"
    <3>1. ASSUME NEW n \in Elems(jq), Type(n) = "stop" PROVE StopAsked'
      <4>1. n \in Elems(jq') /\ Type(n)' = "stop"
        BY <2>1, <2>2, <2>4, <3>1 DEF Type
      <4> QED
        BY <4>1 DEF StopAsked, Elems
    <3>2. ~RequestSceneSessionDestruction
      BY <1>3 DEF JsCallback, RequestSceneSessionDestruction, Handle, threadVars, TypeInv, ThreadsOK,
       Task, NoOne
    <3>3. DestroyAsked => DestroyAsked'
      BY <3>2, DestroyStays
    <3> QED
      BY <2>1, <3>1, <3>3 DEF Owed, StopAsked
  <2> QED
    BY <2>3, <2>4
<1>4. CASE ~(RequestSceneSessionDestruction \/ Foreground \/ RunTask \/ JsCallback)
  <2>1. session'.isTerminating => session.isTerminating
    BY <1>4, SessionEffect DEF ColdStart, Connect, Background, Disconnect,
       RequestSceneSessionBackground, InBackground, Inactive, TypeInv, SessionOK
  <2>2. jq' = jq
    BY <1>4 DEF Next, HandlerStep, PendingSessionActivation, Clear, HandlerTask, RefuseTask,
       StartUIAbility, StartUIAbilityReturns, RequestSceneSessionBackground, Connect,
       Background, Disconnect, Handle, JsStep, JsRemove, JsPost, ChangeUIAbilityVisibilityBySCB,
       TerminateSession, BinderPost, NotifySessionException, BinderStop, Ask, ClientStep,
       ClientConnect, ClientPost, ClientDies, ClientCheck, CloseUIAbility, Expire, Elsewhere,
       threadVars
  <2> QED
    BY <1>4, <2>1, <2>2, DestroyStays, OwedKept
<1> QED
  BY <1>1, <1>2, <1>3, <1>4

\* While isTerminating_ is set, what resets it is on its way.
THEOREM OwedCorrect == Spec => []TerminatingIsOwed
<1>1. Init => Owed
  BY DEF Init, SessionInit, Owed
<1>2. TypeInv /\ Places /\ Owed /\ [Next]_vars => Owed'
  <2>1. ASSUME Owed, UNCHANGED vars PROVE Owed'
    BY <2>1 DEF Owed, StopAsked, DestroyAsked, Elems, Type, vars, queueVars, threadVars
  <2> QED
    BY <2>1, OwedStep
<1>3. TypeInv /\ Owed => TerminatingIsOwed
  BY DEF Owed, StopAsked, DestroyAsked, Elems, TerminatingIsOwed
<1> QED
  BY <1>1, <1>2, <1>3, PlacesCorrect, PTL DEF Spec
=============================================================================
