----------------------------- MODULE UserSwitch -----------------------------
(***************************************************************************)
(* Switching users in ScreenSessionManager: which SCB process (one per     *)
(* user, restarted when it dies) is the current client, whose display      *)
(* nodes are on top, and which screens each client was told about.         *)
(*                                                                         *)
(* SetClient (cold: a process registers) and SwitchUser (hot: the process  *)
(* of a user in the background asks to come back) run on binder threads    *)
(* and hold oldScbPidsMutex_ from Begin to Finish, the wait for the switch *)
(* animation included.  The death recipient of each process, the screen    *)
(* events, the animation notice (one-way) and the delayed                  *)
(* SwitchUserCallback task run on threads of their own.                    *)
(*                                                                         *)
(* One display with all users on it (IsConcurrentUser() is false).  The    *)
(* bounded wait for userSwitching_ before the mutex is part of how long a  *)
(* call stays queued.                                                      *)
(***************************************************************************)
EXTENDS Naturals, FiniteSets

CONSTANTS
  Users,       \* user ids
  Pids,        \* SCB processes, every restart a new one
  UserOf,      \* the user whose SCB a process is
  NoUser,      \* 0, the initial currentUserId_
  NoPid,       \* INVALID_SCB_PID, and the null client proxy
  RealScreens, \* physical screens
  Main,        \* the built-in one, never unplugged
  Virtual,     \* virtual screens that the SCB shows
  Boot,        \* owner of the node that a screen's session is created with
  Budgets      \* bounds: starts and deaths of processes, SwitchUser calls,
               \* screens connected

ASSUME UserSwitchAssumption ==
  /\ UserOf \in [Pids -> Users]
  /\ NoUser \notin Users /\ NoPid \notin Pids
  /\ Main \in RealScreens /\ RealScreens \cap Virtual = {}
  /\ Boot \notin Users \cup {NoUser}
  /\ Budgets \subseteq [starts : Nat, deaths : Nat, hot : Nat, plugs : Nat]

VARIABLES
  life,      \* is the process of a pid unborn, alive or dead
  setCall,   \* where the SetClient call of a process is
  hotCall,   \* where the SwitchUser call of a process is
  watched,   \* the death recipient is registered with the process
  death,     \* where the death recipient's handler is
  proxy,     \* clientProxy_
  clientMap, \* multiClientProxyMap_ (NoPid: no entry)
  user,      \* currentUserId_
  settings,  \* currentUserIdForSettings_
  pid,       \* currentScbPId_
  oldPids,   \* oldScbPids_
  flag,      \* animateFinishAllNotified_
  own,       \* the notice of the switch that waits is still to come
  owed,      \* number of notices of earlier switches still to come
  session,   \* whose node the session of a physical screen holds
  nodes,     \* userDisplayNodeMap_: the screens a user has a node of
  tree,      \* nodes on the render tree, as <<owner, screen>>
  z,         \* their position Z
  screens,   \* screenSessionMap_
  event,     \* where the connect or disconnect event of a screen is
  told,      \* connectedScreenSet_ of a process
  drawsOn,   \* owner of the node a process got for a physical screen
  budget,    \* how often the bounded actions may still be taken
  timedOut,  \* history: the wait of some switch timed out
  early,     \* history: the notice of an earlier switch ended a wait
  raced,     \* history: <<process, screen>> disconnected while it registered
  away,      \* history: <<process, screen>> connected while it was not current
  late,      \* history: processes that died with a SwitchUser call queued
  crossed,   \* history: the last switch overlapped a queued SwitchUser, or was lost
  lost,      \* history: some SwitchUser found no client and was given up
  tasks,     \* posted SwitchUserCallback tasks
  scbPid,    \* the pid that the render service was told last
  overtook   \* history: a switch came before the task of an earlier one, or had no old pid

procVars   == <<life, watched>>
switchVars == <<proxy, clientMap, user, pid, oldPids>>
animVars   == <<flag, own, owed, timedOut, early>>
nodeVars   == <<session, nodes, tree, z>>
taskVars   == <<tasks, scbPid, overtook>>
screenVars == <<screens, event, told, drawsOn, raced, away>>
vars == <<procVars, setCall, hotCall, death, switchVars, settings, animVars,
          nodeVars, screenVars, taskVars, budget, crossed, late, lost>>

Owners == Users \cup {Boot}
Low == 1
Default == 2
High == 3

Init ==
  /\ life = [p \in Pids |-> "unborn"]
  /\ setCall = [p \in Pids |-> "none"]
  /\ hotCall = [p \in Pids |-> "none"]
  /\ watched = [p \in Pids |-> FALSE]
  /\ death = [p \in Pids |-> "none"]
  /\ proxy = NoPid
  /\ clientMap = [u \in Users |-> NoPid]
  /\ user = NoUser
  /\ settings = NoUser
  /\ pid = NoPid
  /\ oldPids = {}
  /\ flag = FALSE
  /\ own = FALSE
  /\ owed = 0
  /\ session = [s \in RealScreens |-> IF s = Main THEN Boot ELSE NoUser]
  /\ nodes = [u \in Users |-> {}]
  /\ tree = {<<Boot, Main>>}
  /\ z = [n \in Owners \X RealScreens |-> 0]
  /\ screens = {Main}
  /\ event = [s \in RealScreens \cup Virtual |-> "none"]
  /\ told = [p \in Pids |-> {}]
  /\ drawsOn = [p \in Pids |-> [s \in RealScreens |-> NoUser]]
  /\ budget \in Budgets
  /\ timedOut = FALSE
  /\ early = FALSE
  /\ raced = {}
  /\ away = {}
  /\ late = {}
  /\ crossed = FALSE
  /\ lost = FALSE
  /\ tasks = {}
  /\ scbPid = NoPid
  /\ overtook = FALSE

-----------------------------------------------------------------------------
(* State formulae.                                                         *)

SetRunning == {"deal", "tell", "node", "animate"}

\* Does a call hold oldScbPidsMutex_ ?
Locked == \E p \in Pids : setCall[p] \in SetRunning \/ hotCall[p] = "animate"

Alive(p) == p # NoPid /\ life[p] = "alive"

\* The client that its user's SwitchUser will find.
Registered(p) == clientMap[UserOf[p]] = p

NodesOf(u) == IF u \in Users THEN {u} \X nodes[u] ELSE {}

\* The client's OnScreenConnectionChanged(CONNECTED) for the screens in S.
TellConnected(p, S) ==
  IF ~Alive(p) THEN UNCHANGED <<told, drawsOn>>
  ELSE /\ told' = [told EXCEPT ![p] = @ \cup S]
       /\ drawsOn' = [drawsOn EXCEPT ![p] =
            [s \in RealScreens |-> IF s \in S \ told[p] THEN session[s] ELSE @[s]]]

-----------------------------------------------------------------------------
(* Processes (their starts and deaths are the system's).                   *)

\* foundation starts the SCB of a user; it connects and calls SetClient.
Start(p) ==
  /\ life[p] = "unborn"
  /\ budget.starts > 0
  /\ budget' = [budget EXCEPT !.starts = @ - 1]
  /\ \A q \in Pids : UserOf[q] = UserOf[p] => life[q] # "alive"
  /\ life' = [life EXCEPT ![p] = "alive"]
  /\ setCall' = [setCall EXCEPT ![p] = "queued"]
  /\ UNCHANGED <<hotCall, watched, death, switchVars, settings, animVars, nodeVars,
                 screenVars, taskVars, crossed, late, lost>>

\* A process dies; the kernel calls a recipient that was registered.
Die(p) ==
  /\ life[p] = "alive"
  /\ budget.deaths > 0
  /\ budget' = [budget EXCEPT !.deaths = @ - 1]
  /\ life' = [life EXCEPT ![p] = "dead"]
  /\ death' = [death EXCEPT ![p] = IF watched[p] THEN "fired" ELSE @]
  /\ late' = IF hotCall[p] = "queued" THEN late \cup {p} ELSE late
  /\ told' = [told EXCEPT ![p] = {}]
  /\ drawsOn' = [drawsOn EXCEPT ![p] = [s \in RealScreens |-> NoUser]]
  /\ raced' = {r \in raced : r[1] # p}
  /\ away' = {r \in away : r[1] # p}
  /\ UNCHANGED <<setCall, hotCall, watched, switchVars, settings, animVars, nodeVars,
                 screens, event, taskVars, crossed, lost>>

-----------------------------------------------------------------------------
(* What both switches do.                                                  *)

\* SwitchUserDealUserDisplayNode(u): every physical screen's session gets the
\* node of u, created on the tree if u has none.  A node that neither a session
\* nor a map holds is destroyed, those of unplugged screens included.
Real == screens \cap RealScreens
DealtSessionNew(u) == [s \in RealScreens |-> IF s \in Real \ nodes[u] THEN u ELSE session[s]]
DealtSession(u) == [s \in RealScreens |-> IF s \in Real THEN u ELSE session[s]]
DealtNodes(u) == [nodes EXCEPT ![u] = Real]
DealtTree(u) ==
  (tree \ ({<<Boot, s>> : s \in Real} \cup ({u} \X (nodes[u] \ Real))))
    \cup ({u} \X (Real \ nodes[u]))
DealtZ(u) == [n \in DOMAIN z |-> IF n \in {u} \X (Real \ nodes[u]) THEN 0 ELSE z[n]]

AtZ(zs, N, height) == [n \in DOMAIN zs |-> IF n \in N THEN height ELSE zs[n]]

HandleNewUserDisplayNodeOffTree(u, cold) ==
  /\ session' = IF cold THEN session ELSE DealtSession(u)
  /\ nodes' = IF cold THEN nodes ELSE DealtNodes(u)
  /\ tree' = IF cold THEN tree ELSE DealtTree(u)
  /\ z' = AtZ(AtZ(IF cold THEN z ELSE DealtZ(u), NodesOf(user), Default),
              {u} \X nodes'[u], Low)
\* HandleNewUserDisplayNode: the current user's nodes to the middle, those of
\* the new user below them and on the tree.  A cold switch has dealt already.
HandleNewUserDisplayNode(u, cold) ==
  /\ session' = IF cold THEN session ELSE DealtSession(u)
  /\ nodes' = IF cold THEN nodes ELSE DealtNodes(u)
  /\ tree' = (IF cold THEN tree ELSE DealtTree(u)) \cup ({u} \X nodes'[u])
  /\ z' = AtZ(AtZ(IF cold THEN z ELSE DealtZ(u), NodesOf(user), Default),
              {u} \X nodes'[u], Low)

\* The end of SwitchScbNodeHandle.  (Its notify_all shortens the wait of the
\* death handlers, which may end at any time.)
Finish(u, p) == user' = u /\ pid' = p

\* From the end of the hand-over to the wait for the animation, which a call for
\* the current user skips.  wait and return are the caller's next places.
WaitOrFinish(u, p, call, wait, return) ==
  IF user = u
  THEN /\ Finish(u, p)
       /\ call' = [call EXCEPT ![p] = return]
       /\ own' = own
  ELSE /\ own' = TRUE
       /\ call' = [call EXCEPT ![p] = wait]
       /\ UNCHANGED <<user, pid>>

NodesOfNewUser(u, cold) ==
  IF user = u THEN UNCHANGED nodeVars ELSE HandleNewUserDisplayNode(u, cold)

RememberOldPidAlways(p) == oldPids' = (oldPids \cup {pid}) \ {p}
RememberOldPid(p) ==
  oldPids' = IF pid = NoPid THEN oldPids ELSE (oldPids \cup {pid}) \ {p}

\* A client's SwitchUserCallback: the render service learns the new pid, unless
\* the client got no old pid.
Callback(client, olds, new) ==
  scbPid' = IF Alive(client) /\ olds # {} THEN new ELSE scbPid

-----------------------------------------------------------------------------
(* SetClient.                                                              *)

SettingsFollow(p) == settings' = UserOf[p]

SetClientBegin(p) ==
  /\ setCall[p] = "queued"
  /\ ~Locked
  /\ setCall' = [setCall EXCEPT ![p] = "deal"]
  /\ proxy' = p
  /\ SettingsFollow(p)
  /\ crossed' = (\E q \in Pids : hotCall[q] = "queued")
  /\ UNCHANGED <<procVars, hotCall, death, clientMap, user, pid, oldPids, animVars,
                 nodeVars, screenVars, taskVars, budget, late, lost>>

\* SetClientInner, first half.
SetClientDeal(p) ==
  /\ setCall[p] = "deal"
  /\ setCall' = [setCall EXCEPT ![p] = "tell"]
  /\ session' = DealtSession(UserOf[p])
  /\ nodes' = DealtNodes(UserOf[p])
  /\ tree' = DealtTree(UserOf[p])
  /\ z' = DealtZ(UserOf[p])
  /\ UNCHANGED <<procVars, hotCall, death, switchVars, settings, animVars, screenVars,
                 taskVars, budget, crossed, late, lost>>

ScreensToTellPhysical == Real
ScreensToTell == screens

\* SetClientInner, second half, under screenSessionMapMutex_: every screen there
\* is, one whose disconnection has been told to the others included.
SetClientTell(p) ==
  /\ setCall[p] = "tell"
  /\ setCall' = [setCall EXCEPT ![p] = "node"]
  /\ TellConnected(p, ScreensToTell)
  /\ raced' = raced \cup {<<p, s>> : s \in {t \in screens : event[t] = "disconnecting"}}
  /\ UNCHANGED <<procVars, hotCall, death, switchVars, settings, animVars, nodeVars,
                 screens, event, away, taskVars, budget, crossed, late, lost>>

\* SwitchScbNodeHandle, cold.
SetClientNode(p) ==
  LET u == UserOf[p]
  IN /\ setCall[p] = "node"
     /\ NodesOfNewUser(u, TRUE)
     /\ RememberOldPid(p)
     /\ Callback(proxy, oldPids', p)
     /\ overtook' = (overtook \/ tasks # {} \/ (pid # NoPid /\ oldPids' = {}))
     /\ clientMap' = [clientMap EXCEPT ![u] = proxy]
     /\ WaitOrFinish(u, p, setCall, "animate", "watch")
     /\ UNCHANGED <<procVars, hotCall, death, proxy, settings, flag, owed, timedOut, early,
                    screenVars, tasks, budget, crossed, late, lost>>

\* After the mutex: AddDeathRecipient, which fails for a dead process.
AddScbClientDeathRecipient(p) ==
  /\ setCall[p] = "watch"
  /\ setCall' = [setCall EXCEPT ![p] = "done"]
  /\ watched' = [watched EXCEPT ![p] = (life[p] = "alive")]
  /\ UNCHANGED <<life, hotCall, death, switchVars, settings, animVars, nodeVars,
                 screenVars, taskVars, budget, crossed, late, lost>>

-----------------------------------------------------------------------------
(* SwitchUser.                                                             *)

\* A process that has called SetClient calls SwitchUser when its user comes
\* back; the settings follow before the mutex is taken.
SwitchUser(p) ==
  /\ budget.hot > 0
  /\ life[p] = "alive"
  /\ setCall[p] # "none"
  /\ hotCall[p] = "none"
  /\ hotCall' = [hotCall EXCEPT ![p] = "queued"]
  /\ SettingsFollow(p)
  /\ budget' = [budget EXCEPT !.hot = @ - 1]
  /\ UNCHANGED <<procVars, setCall, death, switchVars, animVars, nodeVars, screenVars,
                 taskVars, crossed, late, lost>>

HotSwitchUnposted(u, p) ==
  IF clientMap[u] = NoPid \/ u = user
  THEN UNCHANGED <<proxy, tasks, overtook>>
  ELSE proxy' = clientMap[u] /\ UNCHANGED <<tasks, overtook>>

\* HotSwitch: the client that the user's process registered becomes the proxy
\* and the callback is posted.
HotSwitch(u, p) ==
  IF clientMap[u] = NoPid \/ u = user
  THEN overtook' = (overtook \/ pid # p) /\ UNCHANGED <<proxy, tasks>>
  ELSE /\ proxy' = clientMap[u]
       /\ tasks' = tasks \cup {[new |-> p, olds |-> oldPids', no |-> budget.hot]}
       /\ overtook' = (overtook \/ tasks # {} \/ oldPids' = {})

\* The mutex and SwitchScbNodeHandle, hot: without a client it gives up after
\* the nodes and the pids were changed.
SwitchUserNode(p) ==
  LET u == UserOf[p]
  IN /\ hotCall[p] = "queued"
     /\ ~Locked
     /\ NodesOfNewUser(u, FALSE)
     /\ RememberOldPid(p)
     /\ crossed' = (settings # u \/ proxy = NoPid
                    \/ \E q \in Pids \ {p} : hotCall[q] = "queued")
     /\ lost' = (lost \/ proxy = NoPid)
     /\ IF proxy = NoPid
        THEN /\ hotCall' = [hotCall EXCEPT ![p] = "none"]
             /\ UNCHANGED <<proxy, user, pid, own, taskVars>>
        ELSE /\ HotSwitch(u, p)
             /\ WaitOrFinish(u, p, hotCall, "animate", "none")
             /\ UNCHANGED scbPid
     /\ UNCHANGED <<procVars, setCall, death, clientMap, settings, flag, owed, timedOut, early,
                    screenVars, budget, late>>

\* The task of ScbStatusRecoveryWhenSwitchUser: whoever is the client by then
\* gets the pids of the switch that posted it.  The delay depends on the fold
\* state, so that tasks may run in any order.
RunCallbackTask(t) ==
  /\ t \in tasks
  /\ tasks' = tasks \ {t}
  /\ Callback(proxy, t.olds, t.new)
  /\ UNCHANGED <<procVars, setCall, hotCall, death, switchVars, settings, animVars,
                 nodeVars, screenVars, overtook, budget, crossed, late, lost>>

-----------------------------------------------------------------------------
(* The animation of a switch.                                              *)

\* The wait ends by the flag or by its timeout.
EndWaitUntimed ==
  /\ flag
  /\ early' = (early \/ own)
  /\ owed' = IF own THEN owed + 1 ELSE owed
  /\ own' = FALSE
  /\ flag' = FALSE
  /\ timedOut' = timedOut
EndWait ==
  /\ timedOut' = (timedOut \/ ~flag)
  /\ early' = (early \/ (flag /\ own))
  /\ owed' = IF own THEN owed + 1 ELSE owed
  /\ own' = FALSE
  /\ flag' = FALSE

\* WaitSwitchUserAnimateFinish ends and SwitchScbNodeHandle with
\* it: the new user's nodes are raised, the old user's leave the tree.
AnimateFinish(p, call, return) ==
  LET u == UserOf[p]
  IN /\ call[p] = "animate"
     /\ EndWait
     /\ z' = IF proxy = NoPid THEN z ELSE AtZ(z, NodesOf(u), High)
     /\ tree' = IF proxy = NoPid THEN tree ELSE tree \ NodesOf(user)
     /\ Finish(u, p)
     /\ call' = [call EXCEPT ![p] = return]
     /\ UNCHANGED <<procVars, death, proxy, clientMap, oldPids, settings, session, nodes,
                    screenVars, taskVars, budget, crossed, late, lost>>

SetClientFinish(p) == AnimateFinish(p, setCall, "watch") /\ UNCHANGED hotCall
SwitchUserFinish(p) == AnimateFinish(p, hotCall, "none") /\ UNCHANGED setCall

\* NotifySwitchUserAnimationFinish: a one-way notice, sent when the SCB's
\* animations have ended, arrives at any time.
NotifySwitchUserAnimationFinish ==
  /\ \/ own /\ own' = FALSE /\ owed' = owed
     \/ owed > 0 /\ owed' = owed - 1 /\ own' = own
  /\ flag' = TRUE
  /\ UNCHANGED <<procVars, setCall, hotCall, death, switchVars, settings, timedOut, early,
                 nodeVars, screenVars, taskVars, budget, crossed, late, lost>>

-----------------------------------------------------------------------------
(* ScbClientDeathCallback: it drops the client if its process is the        *)
(* current one, waits for the next switch (at most CV_WAIT_SCBSWITCH_MS,    *)
(* the mutex released) and forgets the pid.                                 *)

IsCurrentPidInitially(p) == pid = NoPid
IsCurrentPidUntested(p) == TRUE
IsCurrentPid(p) == p = pid \/ pid = NoPid

DeathDropsClient(p) ==
  /\ death[p] = "fired"
  /\ ~Locked
  /\ proxy' = IF IsCurrentPid(p) THEN NoPid ELSE proxy
  /\ death' = [death EXCEPT ![p] = "waiting"]
  /\ UNCHANGED <<procVars, setCall, hotCall, clientMap, user, pid, oldPids, settings,
                 animVars, nodeVars, screenVars, taskVars, budget, crossed, late, lost>>

DeathForgetsPid(p) ==
  /\ death[p] = "waiting"
  /\ ~Locked
  /\ oldPids' = oldPids \ {p}
  /\ death' = [death EXCEPT ![p] = "done"]
  /\ UNCHANGED <<procVars, setCall, hotCall, proxy, clientMap, user, pid, settings,
                 animVars, nodeVars, screenVars, taskVars, budget, crossed, late, lost>>

-----------------------------------------------------------------------------
(* Screens.                                                                *)

\* A session is created (a physical screen's with a node) and enters the map.
Connect(s) ==
  /\ budget.plugs > 0
  /\ s \notin screens
  /\ event[s] = "none"
  /\ screens' = screens \cup {s}
  /\ event' = [event EXCEPT ![s] = "connecting"]
  /\ session' = [t \in RealScreens |-> IF t = s THEN Boot ELSE session[t]]
  /\ tree' = IF s \in RealScreens THEN tree \cup {<<Boot, s>>} ELSE tree
  /\ z' = AtZ(z, {<<Boot, s>>} \cap DOMAIN z, 0)
  /\ budget' = [budget EXCEPT !.plugs = @ - 1]
  /\ UNCHANGED <<procVars, setCall, hotCall, death, switchVars, settings, animVars, nodes,
                 told, drawsOn, raced, away, taskVars, crossed, late, lost>>

\* HandleScreenConnectEvent, OnVirtualScreenChange(CONNECTED): the current
\* client is told.
ConnectTold(s) ==
  /\ event[s] = "connecting"
  /\ event' = [event EXCEPT ![s] = "none"]
  /\ TellConnected(proxy, {s})
  /\ away' = away \cup {<<p, s>> : p \in {q \in Pids \ {proxy} : life[q] # "unborn"}}
  /\ UNCHANGED <<procVars, setCall, hotCall, death, switchVars, settings, animVars,
                 nodeVars, screens, raced, taskVars, budget, crossed, late, lost>>

\* Who hears of a disconnection: the current client of a physical screen's,
\* every registered one of a virtual screen's.
DisconnectHearersCurrent(s) == {p \in Pids : Alive(p) /\ p = proxy}
DisconnectHearers(s) ==
  {p \in Pids : Alive(p) /\ IF s \in RealScreens THEN p = proxy
                            ELSE \E u \in Users : clientMap[u] = p}

\* HandleScreenDisconnectEvent, OnVirtualScreenChange(DISCONNECTED): the
\* clients are told first.
Disconnect(s) ==
  /\ s \in screens \ {Main}
  /\ event[s] = "none"
  /\ event' = [event EXCEPT ![s] = "disconnecting"]
  /\ told' = [p \in Pids |-> IF p \in DisconnectHearers(s) THEN told[p] \ {s} ELSE told[p]]
  /\ raced' = raced \cup {<<p, s>> : p \in {q \in Pids : setCall[q] \in {"deal", "tell", "node"}}}
  /\ UNCHANGED <<procVars, setCall, hotCall, death, switchVars, settings, animVars,
                 nodeVars, screens, drawsOn, away, taskVars, budget, crossed, late, lost>>

\* ... and the session leaves the map, its own node with it.
DisconnectErases(s) ==
  /\ event[s] = "disconnecting"
  /\ event' = [event EXCEPT ![s] = "none"]
  /\ screens' = screens \ {s}
  /\ session' = [t \in RealScreens |-> IF t = s THEN NoUser ELSE session[t]]
  /\ tree' = tree \ {<<Boot, s>>}
  /\ UNCHANGED <<procVars, setCall, hotCall, death, switchVars, settings, animVars, nodes,
                 z, told, drawsOn, raced, away, taskVars, budget, crossed, late, lost>>

-----------------------------------------------------------------------------
Switching(p) ==
  \/ SetClientBegin(p) \/ SetClientDeal(p) \/ SetClientTell(p) \/ SetClientNode(p)
  \/ SetClientFinish(p) \/ AddScbClientDeathRecipient(p)
  \/ SwitchUserNode(p) \/ SwitchUserFinish(p)

Death(p) == DeathDropsClient(p) \/ DeathForgetsPid(p)

ScreenEvent(s) == ConnectTold(s) \/ DisconnectErases(s)

Next ==
  \/ \E p \in Pids : Start(p) \/ Die(p) \/ SwitchUser(p) \/ Switching(p) \/ Death(p)
  \/ NotifySwitchUserAnimationFinish
  \/ \E t \in tasks : RunCallbackTask(t)
  \/ \E s \in RealScreens \cup Virtual : Connect(s) \/ Disconnect(s) \/ ScreenEvent(s)

Spec == Init /\ [][Next]_vars

\* Some binder thread that can go on does; the wait for the animation has a
\* timeout.  Nothing is assumed of processes, users, screens or animations, nor
\* of the order in which threads get the mutex.
FairSpec == Spec /\ WF_vars(\E p \in Pids : Switching(p))

-----------------------------------------------------------------------------
(* Properties.                                                             *)

TypeOK ==
  /\ life \in [Pids -> {"unborn", "alive", "dead"}]
  /\ setCall \in [Pids -> {"none", "queued", "deal", "tell", "node", "animate", "watch", "done"}]
  /\ hotCall \in [Pids -> {"none", "queued", "animate"}]
  /\ watched \in [Pids -> BOOLEAN]
  /\ death \in [Pids -> {"none", "fired", "waiting", "done"}]
  /\ proxy \in Pids \cup {NoPid}
  /\ clientMap \in [Users -> Pids \cup {NoPid}]
  /\ {user, settings} \subseteq Users \cup {NoUser}
  /\ pid \in Pids \cup {NoPid}
  /\ oldPids \subseteq Pids
  /\ owed \in Nat
  /\ session \in [RealScreens -> Owners \cup {NoUser}]
  /\ nodes \in [Users -> SUBSET RealScreens]
  /\ tree \subseteq Owners \X RealScreens
  /\ z \in [Owners \X RealScreens -> 0..High]
  /\ Main \in screens /\ screens \subseteq RealScreens \cup Virtual
  /\ event \in [RealScreens \cup Virtual -> {"none", "connecting", "disconnecting"}]
  /\ told \in [Pids -> SUBSET (RealScreens \cup Virtual)]
  /\ drawsOn \in [Pids -> [RealScreens -> Owners \cup {NoUser}]]
  /\ budget \in [starts : Nat, deaths : Nat, hot : Nat, plugs : Nat]
  /\ raced \cup away \subseteq Pids \X (RealScreens \cup Virtual)
  /\ late \subseteq Pids
  /\ {flag, own, timedOut, early, crossed, lost, overtook} \subseteq BOOLEAN
  /\ \A t \in tasks : t.new \in Pids /\ t.olds \subseteq Pids /\ t.no \in Nat
  /\ scbPid \in Pids \cup {NoPid}

\* Between two switches the client is a process of the current user, once that
\* user has registered: the proxy, the map and the user id are set at different
\* places of two kinds of switch.  And a process that registered, was switched
\* to last and lives is the client: a death handler that comes late does not
\* drop the client of the process that was started in place of the dead one.
ProxyIsOfCurrentUser ==
  ~Locked =>
    /\ proxy # NoPid /\ clientMap[user] # NoPid => UserOf[proxy] = user
    /\ Alive(pid) /\ Registered(pid) => proxy = pid

\* Between two switches the nodes of the current user are on the tree and above
\* those of every other user, on the screens that it has nodes of: a switch that
\* is given up half-way or ended early leaves nobody else's windows on top.  One
\* node may lie below: the one that a restart of the current user's SCB makes of
\* a new screen is never raised, and a SwitchUser that found no client leaves
\* the nodes of its user on the tree.
NeverRaised(u, s) == lost /\ z[<<u, s>>] = 0
CurrentUserOnTop ==
  ~Locked /\ user # NoUser =>
    \A s \in nodes[user] \cap screens :
      /\ <<user, s>> \in tree
      /\ \A u \in Users \ {user} :
           <<u, s>> \in tree => z[<<u, s>>] < z[<<user, s>>] \/ NeverRaised(user, s)

\* Between two switches the session of the built-in screen holds the node that
\* the current client draws on.
MainNodeIsDrawnOn ==
  ~Locked /\ Alive(proxy) /\ UserOf[proxy] = user =>
    /\ Main \in told[proxy]
    /\ session[Main] = user
    /\ drawsOn[proxy][Main] = user

\* The client the service calls is dead only as long as its death is not
\* handled, or if nobody watched it, or if it died with a SwitchUser queued.
DeadProxyOnlyIfMissed ==
  ~Locked /\ proxy # NoPid /\ life[proxy] = "dead" =>
    death[proxy] = "fired" \/ ~watched[proxy] \/ proxy \in late \/ pid # proxy

\* A client shows a virtual screen that is gone only if the screen went while
\* the client was registering.
GoneScreenShownOnlyIfRaced ==
  \A p \in Pids : \A s \in Virtual :
    Alive(p) /\ Registered(p) /\ s \in told[p] /\ s \notin screens => <<p, s>> \in raced

\* A client that has registered lacks a screen only if the screen was connected
\* while another client was the current one.
ScreenMissedOnlyIfAway ==
  \A p \in Pids : \A s \in screens :
    Alive(p) /\ Registered(p) /\ event[s] = "none" /\ s \notin told[p]
      => <<p, s>> \in away

\* The notice of an earlier switch ends a wait only after some wait timed out.
\* (The flag of a late notice is not taken back.)
EndedEarlyOnlyAfterTimeout == early => timedOut

\* When nothing is going on, the settings in use are those of the current user,
\* unless the last switch overlapped another call or found no client.
SettingsFollowUser ==
  ~Locked /\ (\A p \in Pids : hotCall[p] # "queued") /\ ~crossed => settings = user

\* When nothing is going on, the render service has the pid of the current SCB,
\* unless a switch came before the task of an earlier one had run, or found no
\* old pid to hand over from (it logs "swicth user failed").
RenderedPidIsCurrent ==
  ~Locked /\ tasks = {} /\ Alive(proxy) /\ proxy = pid /\ scbPid # NoPid /\ ~overtook
    => scbPid = pid

\* Calls that register a client do not wait for ever for one another, whatever
\* the animations and the processes do: the wait inside the mutex ends.
SetClientReturns ==
  (\E p \in Pids : setCall[p] \in SetRunning \cup {"queued"})
    ~> (\A p \in Pids : setCall[p] \in {"none", "watch", "done"})
=============================================================================
