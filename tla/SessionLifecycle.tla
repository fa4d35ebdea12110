-------------------------- MODULE SessionLifecycle --------------------------
(***************************************************************************)
(* The life of one main window session: the queue of its start and stop    *)
(* tasks (Session::PostLifeCycleTask, RemoveLifeCycleTask), the tasks on   *)
(* their way through the session's handler thread, the JS thread of SCB    *)
(* and back, the activation, hiding and destruction that SCB asks for in   *)
(* return, and the connection of the client that the ability manager       *)
(* starts for it.                                                          *)
(*                                                                         *)
(* A task of the queue is taken out, and the next one posted, only when    *)
(* SCB has answered it: the next task is set running under the queue's     *)
(* lock and posted after the unlock, on whichever thread came by.  Posting *)
(* to the handler thread from the handler thread runs the task at once.    *)
(*                                                                         *)
(* A phone: no backgroundswitch, the screen unlocked, no reused delegator  *)
(* window, the session kept in sceneSessionMap_ when it is destroyed.      *)
(***************************************************************************)
EXTENDS Naturals, Sequences

CONSTANTS
  QueueLimit,   \* MAX_LIFE_CYCLE_TASK_IN_QUEUE
  Callers,      \* binder threads that post a stop
  MaxClient,    \* bound: client processes the ability manager starts
  MaxEnd,       \* bound: tasks that TasksEnd looks at
  Budgets       \* bounds: requests from outside, and tasks that take too long

Budget == [starts : Nat, clears : Nat, taps : Nat, visible : Nat, stops : Nat,
           requests : Nat, clients : Nat, deaths : Nat, expiries : Nat]

ASSUME SessionLifecycleAssumption ==
  /\ QueueLimit \in Nat \ {0}
  /\ MaxClient \in Nat /\ MaxEnd \in Nat
  /\ \A b \in Budgets : b.clients <= MaxClient
  /\ Budgets \subseteq Budget

VARIABLES
  queue,      \* lifeCycleTaskQueue_: tasks by number, and their running flag
  expired,    \* the front has been running for longer than the limit
  tasks,      \* what was accepted, a task's number is its place
  posting,    \* a task set running by a binder thread, still to be posted
  handler,    \* messages of the session's handler thread
  inline,     \* a task that the handler thread runs before its next message
  jq,         \* tasks on their way to the JS thread
  js,         \* the JS thread: the task SCB has answered, the task to post
  ams,        \* outcome of the ability manager's call under way, "no": there is none
  session,    \* the members state_, callingPid_, the identity token, the client that
              \* sessionStage_ speaks to, isActive_ and isTerminating_
  newest,     \* number of client processes started
  client,     \* the life of a client process
  closing,    \* clients told to close
  request,    \* a client's request between its checks and its post
  closes,     \* CloseUIAbilityBySCB calls still to be carried out
  budget,     \* how often the bounded actions may still be taken
  ended,      \* history: tasks refused, or carried out by SCB
  early,      \* history: tasks taken out of the queue by another's answer, or late
  called      \* history: the last cold start was by RequestSceneSessionByCall

queueVars  == <<queue, expired, tasks, early>>
threadVars == <<posting, inline, jq, js>>
clientVars == <<newest, client, closing, request, closes>>
vars == <<queueVars, threadVars, clientVars, handler, ams, session, ended, called, budget>>

Task     == Nat \ {0}
Client   == 1..MaxClient
NoOne    == 0     \* no task; no client; the empty token; the pid -1
Kinds    == {"start", "terminate", "exception", "clear"}
States   == {"disconnect", "connect", "foreground", "active", "inactive", "background"}
Statuses == {"none", "started", "connecting", "connected", "died", "gone"}
Requests == {"foreground", "background", "disconnect"}

\* Messages: a task to run, what SCB asks for in answer to a task or of its
\* own, and clients' requests.
Messages == [do : {"life"}, n : Task]
              \cup [do : {"start", "clear", "activate", "call", "hide", "destroy"},
                    n : Task \cup {NoOne}]
              \cup [do : Requests \cup {"connect"}, n : Client]

Alive(c) == client[c] \in {"started", "connecting", "connected"}

\* A client's identity token, and its process, are its number.
SessionInit ==
  [state |-> "disconnect", pid |-> NoOne, token |-> NoOne, stage |-> NoOne,
   isActive |-> FALSE, isTerminating |-> FALSE]

Init ==
  /\ queue = <<>> /\ expired = FALSE /\ tasks = <<>> /\ early = {}
  /\ posting = [b \in Callers |-> NoOne]
  /\ inline = NoOne
  /\ jq = <<>>
  /\ js = [answered |-> NoOne, run |-> NoOne]
  /\ handler = <<>>
  /\ ams = "no"
  /\ session = SessionInit
  /\ newest = NoOne
  /\ client = [c \in Client |-> "none"]
  /\ closing = {}
  /\ request = [c \in Client |-> "none"]
  /\ closes = 0
  /\ ended = {}
  /\ called = FALSE
  /\ budget \in Budgets

Spend(what) == budget[what] > 0 /\ budget' = [budget EXCEPT ![what] = @ - 1]

-----------------------------------------------------------------------------
(* The queue of life cycle tasks, under lifeCycleTaskQueueMutex_.          *)

Type(n) == IF tasks[n].kind = "start" THEN "start" ELSE "stop"

\* SetLifeCycleTaskRunning of the front, and what it leaves to be posted.
Started(q) == IF q = <<>> THEN q ELSE [q EXCEPT ![1].running = TRUE]
ToPost(q)  == IF q = <<>> \/ q[1].running THEN NoOne ELSE q[1].id

\* The queue without its front when that has been running too long.
KeptUntimed == IF queue # <<>> THEN Tail(queue) ELSE queue
Kept == IF expired THEN Tail(queue) ELSE queue

\* A queue that is full has lost nothing: what is taken out makes room.
AcceptedAlways == TRUE
Accepted == Len(Kept) # QueueLimit
WithNew  == Append(Kept, [id |-> Len(tasks) + 1, running |-> FALSE])

\* PostLifeCycleTask up to the unlock, and what it has to post then.
PostLifeCycleTask(task) ==
  IF Accepted
  THEN /\ queue' = Started(WithNew)
       /\ tasks' = Append(tasks, task)
       /\ expired' = FALSE
       /\ early' = IF expired THEN early \cup {Head(queue).id} ELSE early
  ELSE UNCHANGED queueVars
PostReleases == IF Accepted THEN ToPost(WithNew) ELSE NoOne

\* RemoveLifeCycleTask up to the unlock.  It is told a type, not a task: m is
\* the task whose answer it is.
Matches(type) == queue # <<>> /\ Type(Head(queue).id) = type
RemoveLifeCycleTask(type, m) ==
  /\ IF Matches(type)
     THEN /\ queue' = Started(Tail(queue))
          /\ expired' = FALSE
          /\ early' = early \cup ({Head(queue).id} \ {m})
     ELSE UNCHANGED <<queue, expired, early>>
  /\ UNCHANGED tasks
ReleasesNone(type) == NoOne
RemoveReleases(type) == IF Matches(type) THEN ToPost(Tail(queue)) ELSE NoOne

\* The front has been running for LIFE_CYCLE_TASK_EXPIRED_TIME_LIMIT.
Expire ==
  /\ queue # <<>> /\ ~expired
  /\ Spend("expiries")
  /\ expired' = TRUE
  /\ UNCHANGED <<queue, tasks, early, threadVars, clientVars, handler, ams, session, ended, called>>

-----------------------------------------------------------------------------
(* Stops that a binder thread posts: the client's, or the ability          *)
(* manager's report of a client that died.                                 *)

BinderStop(b, task) ==
  /\ posting[b] = NoOne
  /\ PostLifeCycleTask(task)
  /\ posting' = [posting EXCEPT ![b] = PostReleases]
  /\ UNCHANGED <<inline, jq, js, newest, closing, request, closes, handler, ams, session,
                 ended, called>>

\* SceneSession::TerminateSession
TerminateSession(b) ==
  /\ Spend("stops")
  /\ BinderStop(b, [kind |-> "terminate", of |-> NoOne])
  /\ UNCHANGED client

\* SceneSession::NotifySessionException.  The client is not compared when it
\* was killed for want of memory.
NotifySessionException(b, c) ==
  /\ client[c] = "died"
  /\ client' = [client EXCEPT ![c] = "gone"]
  /\ \E of \in {c, NoOne} : BinderStop(b, [kind |-> "exception", of |-> of])
  /\ UNCHANGED budget

\* PostTask to the handler thread, after the unlock.
BinderPost(b) ==
  /\ posting[b] # NoOne
  /\ handler' = Append(handler, [do |-> "life", n |-> posting[b]])
  /\ posting' = [posting EXCEPT ![b] = NoOne]
  /\ UNCHANGED <<queueVars, inline, jq, js, clientVars, ams, session, ended, called, budget>>

\* Requests posted to the handler thread first: a start of the session, and
\* Clear or TerminateSessionNew.
Ask(do, what) ==
  /\ Spend(what)
  /\ handler' = Append(handler, [do |-> do, n |-> NoOne])
  /\ UNCHANGED <<queueVars, threadVars, clientVars, ams, session, ended, called>>

-----------------------------------------------------------------------------
(* The handler thread.                                                     *)

Busy == inline # NoOne \/ ams # "no"
At(do) == ~Busy /\ handler # <<>> /\ Head(handler).do = do
TakeNext == handler' = Tail(handler)

\* A start or an unconditional stop is queued, and run at once when the
\* queue was empty.
HandlerTask(do, kind) ==
  /\ At(do) /\ TakeNext
  /\ PostLifeCycleTask([kind |-> kind, of |-> NoOne])
  /\ inline' = PostReleases
  /\ UNCHANGED <<posting, jq, js, clientVars, ams, session, ended, called, budget>>

PendingSessionActivation == HandlerTask("start", "start")
Clear == HandlerTask("clear", "clear")

\* The task that runs now: the inline one, or the next message.
Running == IF inline # NoOne THEN inline
           ELSE IF At("life") THEN Head(handler).n ELSE NoOne
Took == IF inline # NoOne THEN UNCHANGED handler ELSE TakeNext

\* The tests of TerminateSession and NotifySessionExceptionInner.
Refuses(task) ==
  \/ task.kind \in {"terminate", "exception"} /\ session.isTerminating
  \/ /\ task.kind = "exception" /\ task.of # NoOne
     /\ session.token \notin {NoOne, task.of}

\* A refused stop takes itself out of the queue.
RefuseTaskKept ==
  /\ Running # NoOne /\ ams = "no"
  /\ Refuses(tasks[Running])
  /\ Took
  /\ inline' = NoOne
  /\ ended' = ended \cup {Running}
  /\ UNCHANGED <<queueVars, posting, jq, js, clientVars, ams, session, called, budget>>
RefuseTask ==
  /\ Running # NoOne /\ ams = "no"
  /\ Refuses(tasks[Running])
  /\ Took
  /\ RemoveLifeCycleTask("stop", Running)
  /\ inline' = RemoveReleases("stop")
  /\ ended' = ended \cup {Running}
  /\ UNCHANGED <<posting, jq, js, clientVars, ams, session, called, budget>>

\* A task that is let through goes to the JS thread.
RunTask ==
  /\ Running # NoOne /\ ams = "no"
  /\ ~Refuses(tasks[Running])
  /\ Took
  /\ inline' = NoOne
  /\ jq' = Append(jq, Running)
  /\ session' = [session EXCEPT !.isTerminating = @ \/ Type(Running) = "stop"]
  /\ UNCHANGED <<queueVars, posting, js, clientVars, ams, ended, called, budget>>

-----------------------------------------------------------------------------
(* The JS thread: SCB's callbacks, and its own requests.                   *)

\* SCB answers a stop with a destruction, a start with an activation, a call,
\* or not at all.
Answers(type) == IF type = "start" THEN {"activate", "call", "none"} ELSE {"destroy"}

JsCallback ==
  /\ js = [answered |-> NoOne, run |-> NoOne]
  /\ jq # <<>>
  /\ \E do \in Answers(Type(Head(jq))) :
       handler' = IF do = "none" THEN handler
                  ELSE Append(handler, [do |-> do, n |-> Head(jq)])
  /\ jq' = Tail(jq)
  /\ js' = [js EXCEPT !.answered = Head(jq)]
  /\ ended' = ended \cup {Head(jq)}
  /\ UNCHANGED <<queueVars, posting, inline, clientVars, ams, session, called, budget>>

\* RemoveLifeCycleTaskByPersistentId after the callback.
JsRemove ==
  /\ js.answered # NoOne /\ js.run = NoOne
  /\ RemoveLifeCycleTask(Type(js.answered), js.answered)
  /\ js' = [answered |-> NoOne, run |-> RemoveReleases(Type(js.answered))]
  /\ UNCHANGED <<posting, inline, jq, clientVars, handler, ams, session, ended, called, budget>>

\* ChangeUIAbilityVisibilityBySCB, inside a callback or outside, takes out a
\* start as well.
ChangeUIAbilityVisibilityBySCB ==
  /\ js.run = NoOne
  /\ Spend("visible")
  /\ RemoveLifeCycleTask("start", NoOne)
  /\ js' = [js EXCEPT !.run = RemoveReleases("start")]
  /\ UNCHANGED <<posting, inline, jq, clientVars, handler, ams, session, ended, called>>

JsPost ==
  /\ js.run # NoOne
  /\ handler' = Append(handler, [do |-> "life", n |-> js.run])
  /\ js' = [js EXCEPT !.run = NoOne]
  /\ UNCHANGED <<queueVars, posting, inline, jq, clientVars, ams, session, ended, called, budget>>

-----------------------------------------------------------------------------
(* Activation, hiding and destruction on the handler thread.               *)

\* The ability manager needs a new client when the last one ends or has ended.
Cold == newest = NoOne \/ ~Alive(newest) \/ newest \in closing

Outcomes(do) ==
  (IF do = "activate" THEN {"fail"} ELSE {"nothing"})
    \cup (IF ~Cold THEN {"warm"}
          ELSE IF newest >= budget.clients THEN {}
          ELSE IF do = "activate" THEN {"cold", "late"} ELSE {"cold"})

\* The call of the ability manager.  A cold start puts a client up, which may
\* connect from now on; one that takes too long ("late") does so as well, and
\* its result is not looked at.
StartUIAbility(do) ==
  /\ At(do)
  /\ \E outcome \in Outcomes(do) :
       /\ ams' = outcome
       /\ IF outcome \in {"cold", "late"}
          THEN /\ newest' = newest + 1
               /\ client' = [client EXCEPT ![newest + 1] = "started"]
          ELSE UNCHANGED <<newest, client>>
  /\ UNCHANGED <<queueVars, threadVars, closing, request, closes, handler, session, ended, called, budget>>

\* A cold start clears what an earlier client left: ResetIsActive is not
\* called for one by call.
ColdStartActive(do) ==
  /\ ams = "cold"
  /\ session' = [session EXCEPT !.token = newest, !.state = "disconnect", !.pid = NoOne]
  /\ called' = (do = "call")
  /\ UNCHANGED <<queueVars, inline>>
ColdStart(do) ==
  /\ ams = "cold"
  /\ session' = [session EXCEPT !.token = newest, !.state = "disconnect", !.pid = NoOne,
                                !.isActive = @ /\ do = "call"]
  /\ called' = (do = "call")
  /\ UNCHANGED <<queueVars, inline>>

\* A start that failed is an exception of the session's own.
FailedStart ==
  /\ ams \in {"fail", "late"}
  /\ PostLifeCycleTask([kind |-> "exception", of |-> NoOne])
  /\ inline' = PostReleases
  /\ UNCHANGED <<session, called>>

StartUIAbilityReturns ==
  /\ ams # "no"
  /\ \/ ColdStart(Head(handler).do)
     \/ FailedStart
     \/ ams \in {"warm", "nothing"} /\ UNCHANGED <<queueVars, inline, session, called>>
  /\ ams' = "no"
  /\ TakeNext
  /\ UNCHANGED <<posting, jq, js, clientVars, ended, budget>>

\* Session::Background, and BackgroundTask around it.
InBackground(s) ==
  IF s.state = "active" THEN [s EXCEPT !.state = "background", !.isActive = FALSE]
  ELSE IF s.state = "inactive" THEN [s EXCEPT !.state = "background"]
  ELSE s

\* SetActive(false)
Inactive(s) ==
  IF s.isActive /\ s.state = "active" THEN [s EXCEPT !.state = "inactive", !.isActive = FALSE]
  ELSE s

Handle(do) ==
  /\ At(do) /\ TakeNext
  /\ UNCHANGED <<queueVars, threadVars, newest, closing, request, ams, ended, called, budget>>

RequestSceneSessionBackground ==
  /\ Handle("hide")
  /\ session' = InBackground(Inactive(session))
  /\ UNCHANGED <<client, closes>>

DestructionKeeps ==
  /\ Handle("destroy")
  /\ session' = [session EXCEPT !.state = "disconnect", !.isActive = FALSE]
  /\ closes' = closes + 1
  /\ UNCHANGED client
RequestSceneSessionDestruction ==
  /\ Handle("destroy")
  /\ session' = [session EXCEPT !.state = "disconnect", !.isActive = FALSE,
                                !.isTerminating = FALSE]
  /\ closes' = closes + 1
  /\ UNCHANGED client

-----------------------------------------------------------------------------
(* Requests of clients on the handler thread.                              *)

\* CheckIdentityTokenIfMatched: no token matches any.
KnownTokenAny(c) == TRUE
KnownToken(c) == session.token \in {NoOne, c}

\* SceneSession::ConnectInner: the wrong client is told that all is well.
Free == session.state = "disconnect" \/ session.isTerminating
Connect ==
  /\ Handle("connect")
  /\ LET c == Head(handler).n
     IN /\ session' = IF KnownToken(c) /\ Free
                      THEN [session EXCEPT !.stage = c, !.pid = c, !.state = "connect"]
                      ELSE session
        /\ client' = IF client[c] = "connecting" /\ (~KnownToken(c) \/ Free)
                     THEN [client EXCEPT ![c] = "connected"] ELSE client
  /\ UNCHANGED closes

\* ForegroundTask; SetActive(true) of an active session does nothing.
Foreground ==
  /\ Handle("foreground")
  /\ session' =
       IF session.state \in {"connect", "background", "inactive"}
       THEN [session EXCEPT !.state = IF session.isActive THEN "foreground" ELSE "active",
                            !.isActive = TRUE, !.isTerminating = FALSE]
       ELSE session
  /\ UNCHANGED <<client, closes>>

Background ==
  /\ Handle("background")
  /\ session' = InBackground(session)
  /\ UNCHANGED <<client, closes>>

\* DisconnectTask of a client: nothing but the state.
Disconnect ==
  /\ Handle("disconnect")
  /\ session' = [session EXCEPT !.state = "disconnect"]
  /\ UNCHANGED <<client, closes>>

-----------------------------------------------------------------------------
(* Clients and the ability manager.                                        *)

Elsewhere == UNCHANGED <<queueVars, threadVars, ams, session, ended, called, newest>>

ClientConnect(c) ==
  /\ client[c] = "started"
  /\ client' = [client EXCEPT ![c] = "connecting"]
  /\ handler' = Append(handler, [do |-> "connect", n |-> c])
  /\ Elsewhere /\ UNCHANGED <<closing, request, closes, budget>>

\* CheckPidIfMatched and CheckIdentityTokenIfMatched, on the binder thread.
ClientCheck(c, do) ==
  /\ client[c] = "connected" /\ request[c] = "none"
  /\ Spend("requests")
  /\ session.pid = c /\ KnownToken(c)
  /\ request' = [request EXCEPT ![c] = do]
  /\ Elsewhere /\ UNCHANGED <<client, closing, closes, handler>>

ClientPost(c) ==
  /\ request[c] # "none"
  /\ handler' = Append(handler, [do |-> request[c], n |-> c])
  /\ request' = [request EXCEPT ![c] = "none"]
  /\ client' = IF request[c] = "disconnect" /\ client[c] = "connected"
               THEN [client EXCEPT ![c] = "gone"] ELSE client
  /\ Elsewhere /\ UNCHANGED <<closing, closes, budget>>

ClientDies(c) ==
  /\ Alive(c)
  /\ Spend("deaths")
  /\ client' = [client EXCEPT ![c] = "died"]
  /\ Elsewhere /\ UNCHANGED <<closing, request, closes, handler>>

\* A queued CloseUIAbilityBySCB: it closes whatever client the session has by
\* now.
CloseUIAbility ==
  /\ closes > 0
  /\ closes' = closes - 1
  /\ closing' = IF newest # NoOne /\ Alive(newest) THEN closing \cup {newest} ELSE closing
  /\ Elsewhere /\ UNCHANGED <<client, request, handler, budget>>

-----------------------------------------------------------------------------
HandlerStep ==
  \/ PendingSessionActivation \/ Clear \/ RefuseTask \/ RunTask
  \/ \E do \in {"activate", "call"} : StartUIAbility(do)
  \/ StartUIAbilityReturns
  \/ RequestSceneSessionBackground \/ RequestSceneSessionDestruction
  \/ Connect \/ Foreground \/ Background \/ Disconnect

JsStep == JsCallback \/ JsRemove \/ JsPost

ClientStep(c) ==
  \/ ClientConnect(c) \/ ClientPost(c) \/ ClientDies(c)
  \/ \E do \in Requests : ClientCheck(c, do)

Next ==
  \/ HandlerStep
  \/ JsStep \/ ChangeUIAbilityVisibilityBySCB
  \/ \E b \in Callers :
       \/ TerminateSession(b) \/ BinderPost(b)
       \/ \E c \in Client : NotifySessionException(b, c)
  \/ Ask("start", "starts") \/ Ask("clear", "clears")
  \/ \E do \in {"activate", "hide"} : Ask(do, "taps")
  \/ \E c \in Client : ClientStep(c)
  \/ CloseUIAbility
  \/ Expire

Spec == Init /\ [][Next]_vars

\* The threads go on: a call of the ability manager returns, a callback of SCB
\* ends.
FairSpec ==
  /\ Spec
  /\ WF_vars(HandlerStep) /\ WF_vars(JsStep)
  /\ \A b \in Callers : WF_vars(BinderPost(b))

-----------------------------------------------------------------------------
\* Every variable has its type, and the queue never grows past its limit.
TypeOK ==
  /\ queue \in Seq([id : Task, running : BOOLEAN]) /\ Len(queue) <= QueueLimit
  /\ expired \in BOOLEAN
  /\ tasks \in Seq([kind : Kinds, of : Client \cup {NoOne}])
  /\ posting \in [Callers -> Task \cup {NoOne}]
  /\ inline \in Task \cup {NoOne}
  /\ jq \in Seq(Task)
  /\ js \in [answered : Task \cup {NoOne}, run : Task \cup {NoOne}]
  /\ handler \in Seq(Messages)
  /\ ams \in {"no", "cold", "late", "warm", "fail", "nothing"}
  /\ session \in [state : States, pid : Client \cup {NoOne}, token : Client \cup {NoOne},
                  stage : Client \cup {NoOne}, isActive : BOOLEAN, isTerminating : BOOLEAN]
  /\ newest \in Client \cup {NoOne}
  /\ client \in [Client -> Statuses]
  /\ closing \subseteq Client
  /\ request \in [Client -> Requests \cup {"none"}]
  /\ closes \in Nat
  /\ ended \subseteq Task /\ early \subseteq Task
  /\ called \in BOOLEAN
  /\ budget \in Budget /\ budget.clients <= MaxClient

\* A task is on its way to SCB, or at SCB.
OnItsWay(n) ==
  \/ n \in {inline, js.answered, js.run}
  \/ \E b \in Callers : posting[b] = n
  \/ \E i \in DOMAIN handler : handler[i].do = "life" /\ handler[i].n = n
  \/ \E i \in DOMAIN jq : jq[i] = n

\* The queue never stands still: its front has been set running and is on its
\* way to the answer that takes it out, although whoever takes a task out posts
\* the next one only after the unlock, and answers come late, or twice; and
\* nothing behind the front has been set running.
NoStall ==
  \A i \in DOMAIN queue :
     /\ queue[i].running = (i = 1)
     /\ i = 1 => OnItsWay(queue[i].id)

\* SCB is asked for the starts and stops in the order in which the queue
\* accepted them, but for those that lost their place: because they took too
\* long, or because the answer of another task of their type came first.
InOrder == \A n \in ended : \A m \in 1..n : m \in ended \cup early

\* The session is connected to the client that was started last, not to one
\* before it, unless the start took so long that its result was not looked at.
ConnectedIsCurrent == session.state # "disconnect" => session.token \in {NoOne, session.stage}

\* A session that came to the foreground is active: left in STATE_FOREGROUND it
\* could not go to the background again.  A cold start by call does leave it so
\* (ResetIsActive is not called).
ForegroundIsActive == session.state = "foreground" => called \/ session.token = NoOne

\* isTerminating_ refuses every further stop, so while it is set a stop must be
\* on its way to SCB, or the destruction that resets it on its way back.
TerminatingIsOwed ==
  session.isTerminating =>
     \/ \E i \in DOMAIN jq : Type(jq[i]) = "stop"
     \/ \E i \in DOMAIN handler : handler[i].do = "destroy"

\* Every task that the queue accepts (the first MaxEnd of them) is refused by its
\* own tests or reaches SCB, whether it loses its place or not.
TasksEnd == \A n \in 1..MaxEnd : n <= Len(tasks) ~> n \in ended
=============================================================================
