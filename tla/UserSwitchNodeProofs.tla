------------------------ MODULE UserSwitchNodeProofs ------------------------
(***************************************************************************)
(* Proofs about the display nodes of UserSwitch and about the pid that the *)
(* render service has, on top of the invariants of UserSwitchProofs.       *)
(***************************************************************************)
EXTENDS UserSwitchProofs

\* The steps that take or leave the mutex, or deal nodes.
Plain(p) ==
  /\ ProcStep(p)
  /\ ~SetClientBegin(p) /\ ~SetClientDeal(p) /\ ~SetClientNode(p) /\ ~SwitchUserNode(p)
  /\ ~SetClientFinish(p) /\ ~SwitchUserFinish(p)

\* Whether a call waits for the animation.
Waits(p) == setCall[p] = "animate" \/ hotCall[p] = "animate"

-----------------------------------------------------------------------------
(* The render service.                                                     *)

\* The pid that the render service has, or will have when the task has run.
Target(p) ==
  /\ tasks = {} /\ Alive(proxy) /\ proxy = p /\ scbPid # NoPid => scbPid = p
  /\ \A t \in tasks : t.new = p

\* Before the first switch is over there is nothing to hand over from.
FirstSwitch ==
  pid = NoPid => /\ scbPid = NoPid /\ oldPids = {} /\ tasks = {}
                 /\ ~Locked => proxy = NoPid
                 /\ \A p \in Pids : hotCall[p] # "animate"
RenderAgrees ==
  ~overtook => /\ \A t \in tasks : t.olds # {}
               /\ \A p \in Pids : Waits(p) => Target(p)
               /\ ~Locked => Target(pid)

\* A step that does not take or leave the mutex leaves the pids alone.
LEMMA PlainStep ==
  ASSUME ProcsOK, ClientsOK, NotStarted, ClientAgrees, NEW p \in Pids, Plain(p)
  PROVE  /\ Locked' = Locked
         /\ \A q \in Pids : Waits(q)' = Waits(q) /\ (hotCall'[q] = "animate" <=> hotCall[q] = "animate")
         /\ UNCHANGED <<clientMap, user, pid, nodeVars, taskVars, lost>>
         /\ proxy' = proxy \/ (proxy' = NoPid /\ ~Locked)
         /\ proxy' # NoPid /\ Alive(proxy)' => Alive(proxy)
         /\ oldPids' \subseteq oldPids
<1> USE DEF Plain
<1>1. QuietCalls(p) /\ UNCHANGED <<clientMap, user, pid>>
  BY QuietStep
<1>2. /\ Locked' = Locked
      /\ \A q \in Pids : Waits(q)' = Waits(q) /\ (hotCall'[q] = "animate" <=> hotCall[q] = "animate")
  BY <1>1 DEF QuietCalls, Locked, SetRunning, Waits, ProcsOK
<1>3. UNCHANGED <<nodeVars, taskVars, lost>>
  BY DEF ProcStep, Start, Die, SwitchUser, Switching, Death, SetClientTell,
     AddScbClientDeathRecipient, DeathDropsClient, DeathForgetsPid
<1>4. proxy' = proxy \/ (proxy' = NoPid /\ ~Locked)
  BY DEF ProcStep, Start, Die, SwitchUser, Switching, Death, SetClientTell,
     AddScbClientDeathRecipient, DeathDropsClient, DeathForgetsPid, switchVars
<1>5. oldPids' \subseteq oldPids
  BY DEF ProcStep, Start, Die, SwitchUser, Switching, Death, SetClientTell,
     AddScbClientDeathRecipient, DeathDropsClient, DeathForgetsPid, switchVars
<1>6. \A q \in Pids : life'[q] = "alive" => life[q] = "alive" \/ setCall[q] = "none"
  BY DEF ProcStep, Start, Die, SwitchUser, Switching, Death, SetClientTell,
     AddScbClientDeathRecipient, DeathDropsClient, DeathForgetsPid, procVars, ProcsOK, NotStarted
<1>7. proxy' # NoPid /\ Alive(proxy)' => Alive(proxy)
  BY <1>4, <1>6 DEF ClientAgrees, ClientsOK, Alive
<1> QED
  BY <1>1, <1>2, <1>3, <1>4, <1>5, <1>7

LEMMA RenderStep ==
  ASSUME ProcsOK, ClientsOK, NotStarted, Mutex, ClientAgrees, FirstSwitch, RenderAgrees, Next
  PROVE  FirstSwitch' /\ RenderAgrees'
<1> USE UserSwitchAssumption DEF ProcsOK, FirstSwitch, RenderAgrees
<1>1. ASSUME NEW p \in Pids, SetClientBegin(p) \/ SetClientDeal(p) PROVE FirstSwitch' /\ RenderAgrees'
  <2>1. /\ Locked'
        /\ \A q \in Pids : ~Waits(q) /\ ~Waits(q)'
        /\ UNCHANGED <<hotCall, pid, oldPids, tasks, scbPid, overtook>>
    BY <1>1 DEF SetClientBegin, SetClientDeal, Locked, SetRunning, Mutex, Waits, taskVars, switchVars
  <2> QED
    BY <2>1
<1>2. ASSUME NEW p \in Pids, SetClientNode(p) PROVE FirstSwitch' /\ RenderAgrees'
  <2>1. /\ setCall[p] = "node" /\ proxy = p /\ proxy' = p
        /\ UNCHANGED <<life, hotCall, tasks>>
        /\ RememberOldPid(p)
        /\ Callback(p, oldPids', p)
        /\ overtook' = (overtook \/ tasks # {} \/ (pid # NoPid /\ oldPids' = {}))
        /\ \/ pid' = p /\ setCall' = [setCall EXCEPT ![p] = "watch"]
           \/ pid' = pid /\ setCall' = [setCall EXCEPT ![p] = "animate"]
    BY <1>2 DEF SetClientNode, WaitOrFinish, Finish, SetRunning, ClientAgrees, procVars
  <2>2. \A q \in Pids : /\ setCall[q] \in SetRunning => q = p
                        /\ hotCall[q] # "animate"
    BY <2>1 DEF Mutex, SetRunning
  <2>3. ~overtook' => Target(p)'
    BY <2>1 DEF Target, RememberOldPid, Callback, Alive
  <2>4. FirstSwitch'
    BY <2>1, <2>2 DEF RememberOldPid, Callback, Locked, SetRunning
  <2>5. \A q \in Pids : Waits(q)' => q = p
    BY <2>1, <2>2 DEF Waits, SetRunning
  <2>6. ~Locked' => pid' = p
    BY <2>1 DEF Locked, SetRunning
  <2> QED
    BY <2>1, <2>3, <2>4, <2>5, <2>6
<1>3. ASSUME NEW p \in Pids, SetClientFinish(p) \/ SwitchUserFinish(p)
      PROVE  FirstSwitch' /\ RenderAgrees'
  <2>1. /\ Waits(p) /\ pid' = p
        /\ UNCHANGED <<life, proxy, tasks, scbPid, overtook>>
        /\ \A q \in Pids : Waits(q)' => Waits(q)
    BY <1>3 DEF SetClientFinish, SwitchUserFinish, AnimateFinish, Finish, Waits, procVars, taskVars
  <2>2. ~overtook => Target(p)'
    BY <2>1 DEF Target, Alive
  <2>3. \A q \in Pids : Waits(q)' => q = p
    BY <2>1 DEF Waits, Mutex, SetRunning
  <2> QED
    BY <2>1, <2>2, <2>3
<1>4. ASSUME NEW p \in Pids, SwitchUserNode(p) PROVE FirstSwitch' /\ RenderAgrees'
  <2>1. /\ ~Locked /\ RememberOldPid(p)
        /\ UNCHANGED <<life, setCall, scbPid>>
        /\ \A q \in Pids : ~Waits(q)
    BY <1>4 DEF SwitchUserNode, procVars, taskVars, Locked, SetRunning, Waits
  <2>2. CASE proxy = NoPid
    <3>1. /\ UNCHANGED <<proxy, pid, tasks, overtook>>
          /\ hotCall' = [hotCall EXCEPT ![p] = "none"]
      BY <1>4, <2>2 DEF SwitchUserNode, taskVars
    <3>2. \A q \in Pids : ~Waits(q)' /\ hotCall'[q] # "animate"
      BY <2>1, <3>1 DEF Waits
    <3>3. Target(pid)' = Target(pid)
      BY <2>1, <3>1 DEF Target, Alive
    <3> QED
      BY <2>1, <2>2, <3>1, <3>2, <3>3 DEF RememberOldPid
  <2>3. CASE proxy # NoPid
    <3>1. /\ HotSwitch(UserOf[p], p)
          /\ \/ user = UserOf[p] /\ pid' = p
             \/ user # UserOf[p] /\ pid' = pid
          /\ \A q \in Pids : Waits(q)' => q = p
          /\ ~Locked' => pid' = p
      BY <1>4, <2>1, <2>3 DEF SwitchUserNode, WaitOrFinish, Finish, Waits, Locked, SetRunning
    <3>2. pid # NoPid
      BY <2>1, <2>3
    <3>3. pid' # NoPid
      BY <3>1, <3>2
    <3>4. ~overtook' => Target(p)' /\ \A t \in tasks' : t.olds # {}
      <4>1. CASE clientMap[UserOf[p]] = NoPid \/ user = UserOf[p]
        BY <2>1, <3>1, <4>1 DEF HotSwitch, Target, Alive
      <4>2. CASE ~(clientMap[UserOf[p]] = NoPid \/ user = UserOf[p])
        <5> SUFFICES ASSUME ~overtook' PROVE Target(p)' /\ \A t \in tasks' : t.olds # {}
          OBVIOUS
        <5>1. tasks' = {[new |-> p, olds |-> oldPids', no |-> budget.hot]} /\ oldPids' # {}
          BY <3>1, <4>2 DEF HotSwitch
        <5>2. \A t \in tasks' : t.new = p /\ t.olds = oldPids'
          BY <5>1
        <5>3. tasks' # {}
          BY <5>1
        <5> QED
          BY <5>1, <5>2, <5>3 DEF Target
      <4> QED
        BY <4>1, <4>2
    <3> QED
      BY <3>1, <3>3, <3>4
  <2> QED
    BY <2>2, <2>3
<1>5. ASSUME NEW p \in Pids, Plain(p) PROVE FirstSwitch' /\ RenderAgrees'
  <2>1. /\ Locked' = Locked
        /\ \A q \in Pids : Waits(q)' = Waits(q) /\ (hotCall'[q] = "animate" <=> hotCall[q] = "animate")
        /\ UNCHANGED <<pid, tasks, scbPid, overtook>>
        /\ proxy' = proxy \/ (proxy' = NoPid /\ ~Locked)
        /\ proxy' # NoPid /\ Alive(proxy)' => Alive(proxy)
        /\ oldPids' \subseteq oldPids
    BY <1>5, PlainStep DEF taskVars
  <2>2. \A q : Target(q) => Target(q)'
    BY <2>1 DEF Target, Alive
  <2>3. FirstSwitch'
    BY <2>1
  <2> QED
    BY <2>1, <2>2, <2>3
<1>6. ASSUME NEW t \in tasks, RunCallbackTask(t) PROVE FirstSwitch' /\ RenderAgrees'
  <2>1. /\ UNCHANGED <<life, setCall, hotCall, proxy, pid, overtook>>
        /\ tasks' = tasks \ {t}
        /\ Callback(proxy, t.olds, t.new)
    BY <1>6 DEF RunCallbackTask, procVars, switchVars
  <2>2. ~overtook => \A q : Target(q) => Target(q)'
    BY <2>1 DEF Target, Callback, Alive
  <2>3. Locked' = Locked /\ \A q \in Pids : Waits(q)' = Waits(q)
    BY <2>1 DEF Locked, Waits
  <2> QED
    BY <2>1, <2>2, <2>3
<1>7. ASSUME \/ NotifySwitchUserAnimationFinish
             \/ \E s \in RealScreens \cup Virtual : ScreenStep(s)
      PROVE  FirstSwitch' /\ RenderAgrees'
  <2>1. UNCHANGED <<life, setCall, hotCall, proxy, pid, oldPids, tasks, scbPid, overtook>>
    BY <1>7 DEF NotifySwitchUserAnimationFinish, ScreenStep, Connect, Disconnect, ScreenEvent,
       ConnectTold, DisconnectErases, procVars, switchVars, taskVars
  <2> QED
    BY <2>1 DEF Locked, Waits, Target, Alive
<1> QED
  BY <1>1, <1>2, <1>3, <1>4, <1>5, <1>6, <1>7 DEF Next, ProcStep, Switching, Plain, ScreenStep

-----------------------------------------------------------------------------
(* The effect of a switch on the nodes.                                    *)

\* Every node of a user that is on the tree is in its map.
TreeHolds(u) == \A s \in RealScreens : <<u, s>> \in tree => s \in nodes[u]

\* Dealing nodes to a user changes nobody else's.
LEMMA DealEffect ==
  ASSUME NodesOK, ScreensOK, NEW u \in Users
  PROVE  /\ DealtSession(u)[Main] = u
         /\ DealtNodes(u)[u] = Real
         /\ \A v \in Users \ {u} : DealtNodes(u)[v] = nodes[v]
         /\ \A s : <<u, s>> \in DealtTree(u) <=>
                     \/ <<u, s>> \in tree /\ s \notin nodes[u] \ Real
                     \/ s \in Real \ nodes[u]
         /\ \A v \in Users \ {u} : \A s : <<v, s>> \in DealtTree(u) <=> <<v, s>> \in tree
         /\ \A v \in Users, s \in RealScreens :
              DealtZ(u)[<<v, s>>] = IF v = u /\ s \in Real \ nodes[u] THEN 0 ELSE z[<<v, s>>]
<1> USE UserSwitchAssumption DEF NodesOK, ScreensOK
<1>1. DealtSession(u)[Main] = u
  BY DEF DealtSession, Real
<1>2. DealtNodes(u)[u] = Real /\ \A v \in Users \ {u} : DealtNodes(u)[v] = nodes[v]
  BY DEF DealtNodes
<1>3. \A s : <<u, s>> \in DealtTree(u) <=> \/ <<u, s>> \in tree /\ s \notin nodes[u] \ Real
                                           \/ s \in Real \ nodes[u]
  BY DEF DealtTree
<1>4. \A v \in Users \ {u} : \A s : <<v, s>> \in DealtTree(u) <=> <<v, s>> \in tree
  BY DEF DealtTree
<1>5. \A v \in Users, s \in RealScreens :
        DealtZ(u)[<<v, s>>] = IF v = u /\ s \in Real \ nodes[u] THEN 0 ELSE z[<<v, s>>]
  BY DEF DealtZ, Owners
<1> QED
  BY <1>1, <1>2, <1>3, <1>4, <1>5

\* The hand-over to u shows its nodes at the bottom and those of the current
\* user in the middle.
LEMMA HandOverEffect ==
  ASSUME NodesOK, ScreensOK, user \in Users \cup {NoUser}, NEW u \in Users, u # user,
         NEW cold \in BOOLEAN, HandleNewUserDisplayNode(u, cold)
  PROVE  /\ session'[Main] = IF cold THEN session[Main] ELSE u
         /\ \A v \in Users \ {u} : nodes'[v] = nodes[v]
         /\ \A v \in Users \ {u} : \A s : <<v, s>> \in tree' <=> <<v, s>> \in tree
         /\ \A s \in nodes'[u] : <<u, s>> \in tree' /\ z'[<<u, s>>] = Low
         /\ TreeHolds(u) => TreeHolds(u)'
         /\ \A v \in Users \ {u, user} : \A s \in RealScreens : z'[<<v, s>>] = z[<<v, s>>]
         /\ user \in Users => \A s \in nodes[user] : z'[<<user, s>>] = Default
<1>1. session'[Main] = IF cold THEN session[Main] ELSE u
  BY DealEffect DEF HandleNewUserDisplayNode
<1>2. \A v \in Users \ {u} : nodes'[v] = nodes[v]
  BY DealEffect DEF HandleNewUserDisplayNode
<1>3. \A v \in Users \ {u} : \A s : <<v, s>> \in tree' <=> <<v, s>> \in tree
  BY DealEffect DEF HandleNewUserDisplayNode
<1>4. nodes'[u] \subseteq RealScreens /\ \A s \in nodes'[u] : <<u, s>> \in tree'
  BY HandOverTypes DEF HandleNewUserDisplayNode, NodesOK
<1>5. TreeHolds(u) => TreeHolds(u)'
  BY DealEffect DEF HandleNewUserDisplayNode, TreeHolds
<1> DEFINE z0 == IF cold THEN z ELSE DealtZ(u)
           z1 == AtZ(z0, NodesOf(user), Default)
<1>6. z0 \in [Owners \X RealScreens -> 0..High] /\ Default \in 0..High
  <2>1. 0 \in 0..High /\ Default \in 0..High /\ z \in [Owners \X RealScreens -> 0..High]
    BY DEF NodesOK, Default, High
  <2>2. DealtZ(u) \in [Owners \X RealScreens -> 0..High]
    BY <2>1, NodeOperators
  <2> QED
    BY <2>1, <2>2
<1>7. \A v \in Users \ {u}, s \in RealScreens : z0[<<v, s>>] = z[<<v, s>>]
  <2>1. \A v \in Users \ {u}, s \in RealScreens : DealtZ(u)[<<v, s>>] = z[<<v, s>>]
    BY DEF DealtZ, NodesOK, Owners
  <2> QED
    BY <2>1
<1>8. z' = AtZ(z1, {u} \X nodes'[u], Low)
  BY DEF HandleNewUserDisplayNode
<1> HIDE DEF z0
<1>9. z1 \in [Owners \X RealScreens -> 0..High]
  BY <1>6, NodeOperators
<1>10. \A v \in Users, s \in RealScreens :
         z1[<<v, s>>] = IF v = user /\ user \in Users /\ s \in nodes[user] THEN Default ELSE z0[<<v, s>>]
  <2>1. CASE user \in Users
    BY <1>6, <2>1 DEF NodesOf, AtZ, Owners
  <2>2. CASE user \notin Users
    BY <1>6, <2>2 DEF NodesOf, AtZ, Owners
  <2> QED
    BY <2>1, <2>2
<1> HIDE DEF z1
<1>11. \A v \in Users, s \in RealScreens :
         z'[<<v, s>>] = IF v = u /\ s \in nodes'[u] THEN Low ELSE z1[<<v, s>>]
  BY <1>8, <1>9 DEF AtZ, Owners
<1>12. \A s \in nodes'[u] : z'[<<u, s>>] = Low
  BY <1>4, <1>11
<1>13. \A v \in Users \ {u, user} : \A s \in RealScreens : z'[<<v, s>>] = z[<<v, s>>]
  BY <1>7, <1>10, <1>11
<1>14. user \in Users => \A s \in nodes[user] : z'[<<user, s>>] = Default
  BY <1>10, <1>11 DEF NodesOK
<1> QED
  BY <1>1, <1>2, <1>3, <1>4, <1>5, <1>12, <1>13, <1>14

-----------------------------------------------------------------------------
(* The built-in screen.                                                    *)

\* Whose node the session of the built-in screen holds, and what the clients
\* that have registered draw on.
MainRow(p) ==
  /\ setCall[p] \in {"none", "queued", "deal", "tell"} => Main \notin told[p]
  /\ setCall[p] \in {"tell", "node"} \/ Waits(p) => session[Main] = UserOf[p]
  /\ Alive(p) /\ setCall[p] \in Entered \cup {"node"} =>
       Main \in told[p] /\ drawsOn[p][Main] = UserOf[p]
MainAgrees ==
  /\ event[Main] = "none"
  /\ \A p \in Pids : MainRow(p)
  /\ ~Locked /\ proxy # NoPid => session[Main] = user

LEMMA MainStep ==
  ASSUME ProcsOK, ClientsOK, NodesOK, ScreensOK, ToldOK, NotStarted, Mutex, ClientAgrees,
         MainAgrees, Next
  PROVE  MainAgrees'
<1> USE UserSwitchAssumption DEF ProcsOK, MainAgrees, MainRow
<1>1. ASSUME NEW p \in Pids, SetClientBegin(p) PROVE MainAgrees'
  <2>1. /\ setCall[p] = "queued" /\ setCall' = [setCall EXCEPT ![p] = "deal"]
        /\ UNCHANGED <<life, hotCall, session, event, told, drawsOn>>
    BY <1>1 DEF SetClientBegin, procVars, nodeVars, screenVars
  <2>2. Locked'
    BY <2>1 DEF Locked, SetRunning
  <2>3. \A q \in Pids : MainRow(q)'
    BY <2>1 DEF Waits, Alive, Entered
  <2> QED
    BY <2>1, <2>2, <2>3
<1>2. ASSUME NEW p \in Pids, SetClientDeal(p) PROVE MainAgrees'
  <2>1. /\ setCall[p] = "deal" /\ setCall' = [setCall EXCEPT ![p] = "tell"]
        /\ session' = DealtSession(UserOf[p])
        /\ UNCHANGED <<life, hotCall, event, told, drawsOn>>
    BY <1>2 DEF SetClientDeal, procVars, screenVars
  <2>2. session'[Main] = UserOf[p]
    BY <2>1, DealEffect
  <2>3. Locked'
    BY <2>1 DEF Locked, SetRunning
  <2>4. \A q \in Pids : setCall'[q] \in {"tell", "node"} \/ Waits(q)' => q = p
    BY <2>1 DEF Mutex, SetRunning, Waits
  <2>5. \A q \in Pids : MainRow(q)'
    BY <2>1, <2>2, <2>4 DEF Alive, Entered
  <2> QED
    BY <2>1, <2>3, <2>5
<1>3. ASSUME NEW p \in Pids, SetClientTell(p) PROVE MainAgrees'
  <2>1. /\ setCall[p] = "tell" /\ setCall' = [setCall EXCEPT ![p] = "node"]
        /\ UNCHANGED <<life, hotCall, event, session>>
        /\ TellConnected(p, screens)
    BY <1>3 DEF SetClientTell, procVars, nodeVars, ScreensToTell
  <2>2. \A q \in Pids \ {p} : told'[q] = told[q] /\ drawsOn'[q] = drawsOn[q]
    BY <2>1 DEF TellConnected, ToldOK
  <2>3. ASSUME Alive(p) PROVE Main \in told'[p] /\ drawsOn'[p][Main] = UserOf[p]
    BY <2>1, <2>3 DEF TellConnected, ToldOK, ScreensOK
  <2>4. Locked'
    BY <2>1 DEF Locked, SetRunning
  <2>5. \A q \in Pids : MainRow(q)'
    BY <2>1, <2>2, <2>3 DEF Alive, Waits
  <2> QED
    BY <2>1, <2>4, <2>5
<1>4. ASSUME NEW p \in Pids, SetClientNode(p) PROVE MainAgrees'
  <2>1. /\ setCall[p] = "node" /\ NodesOfNewUser(UserOf[p], TRUE)
        /\ UNCHANGED <<life, hotCall, event, told, drawsOn>>
        /\ \/ user' = UserOf[p] /\ setCall' = [setCall EXCEPT ![p] = "watch"]
           \/ setCall' = [setCall EXCEPT ![p] = "animate"]
    BY <1>4 DEF SetClientNode, WaitOrFinish, Finish, procVars, screenVars
  <2>2. session' = session
    BY <2>1 DEF NodesOfNewUser, HandleNewUserDisplayNode, nodeVars
  <2>3. \A q \in Pids : MainRow(q)'
    BY <2>1, <2>2 DEF Alive, Waits, Entered
  <2>4. ~Locked' => user' = UserOf[p]
    BY <2>1 DEF Locked, SetRunning
  <2> QED
    BY <2>1, <2>2, <2>3, <2>4
<1>5. ASSUME NEW p \in Pids, SetClientFinish(p) \/ SwitchUserFinish(p) PROVE MainAgrees'
  <2>1. /\ Waits(p) /\ user' = UserOf[p]
        /\ UNCHANGED <<life, session, event, told, drawsOn>>
        /\ \/ /\ setCall[p] = "animate" /\ setCall' = [setCall EXCEPT ![p] = "watch"]
              /\ UNCHANGED hotCall
           \/ hotCall' = [hotCall EXCEPT ![p] = "none"] /\ UNCHANGED setCall
    BY <1>5 DEF SetClientFinish, SwitchUserFinish, AnimateFinish, Finish, Waits, procVars, screenVars
  <2>2. \A q \in Pids : MainRow(q)'
    BY <2>1 DEF Alive, Waits, Entered
  <2> QED
    BY <2>1, <2>2
<1>6. ASSUME NEW p \in Pids, SwitchUserNode(p) PROVE MainAgrees'
  <2>1. /\ ~Locked /\ NodesOfNewUser(UserOf[p], FALSE)
        /\ UNCHANGED <<life, setCall, event, told, drawsOn>>
        /\ \A q \in Pids : setCall[q] \notin {"tell", "node"} /\ ~Waits(q)
        /\ \A q \in Pids \ {p} : ~Waits(q)'
        /\ user # UserOf[p] \/ user' = user
        /\ \/ proxy = NoPid /\ proxy' = NoPid /\ hotCall' = [hotCall EXCEPT ![p] = "none"]
           \/ proxy # NoPid /\ user # UserOf[p] /\ hotCall' = [hotCall EXCEPT ![p] = "animate"]
           \/ /\ proxy # NoPid /\ user = UserOf[p]
              /\ proxy' = proxy /\ hotCall' = [hotCall EXCEPT ![p] = "none"]
    BY <1>6 DEF SwitchUserNode, WaitOrFinish, Finish, HotSwitch, Locked, SetRunning, Waits,
       procVars, screenVars
  <2>2. user # UserOf[p] => session'[Main] = UserOf[p]
    BY <2>1, HandOverEffect DEF NodesOfNewUser, ClientsOK
  <2>3. user = UserOf[p] => session' = session
    BY <2>1 DEF NodesOfNewUser, nodeVars
  <2>4. hotCall'[p] = "animate" => session'[Main] = UserOf[p]
    BY <2>1, <2>2
  <2>5. \A q \in Pids : MainRow(q)'
    BY <2>1, <2>4 DEF Alive, Waits, Entered
  <2>6. ~Locked' /\ proxy' # NoPid => session'[Main] = user'
    BY <2>1, <2>3 DEF Locked
  <2> QED
    BY <2>1, <2>5, <2>6
<1>7. ASSUME NEW p \in Pids, Plain(p), ~SetClientTell(p) PROVE MainAgrees'
  <2>1. /\ Locked' = Locked /\ UNCHANGED <<user, session, event>>
        /\ proxy' = proxy \/ proxy' = NoPid
        /\ \A q \in Pids : Waits(q)' = Waits(q)
    BY <1>7, PlainStep DEF nodeVars, Plain, ProcStep, Start, Die, SwitchUser, Switching, Death,
       AddScbClientDeathRecipient, DeathDropsClient, DeathForgetsPid, screenVars
  <2>2. /\ \A q \in Pids \ {p} : UNCHANGED <<life[q], setCall[q], told[q], drawsOn[q]>>
        /\ \/ UNCHANGED <<told, drawsOn>>
           \/ life'[p] = "dead" /\ told'[p] = {}
    BY <1>7 DEF Plain, ProcStep, Start, Die, SwitchUser, Switching, Death,
       AddScbClientDeathRecipient, DeathDropsClient, DeathForgetsPid, screenVars, procVars, ToldOK
  <2>3. \/ setCall'[p] = setCall[p] /\ (life'[p] = life[p] \/ life'[p] = "dead")
        \/ setCall[p] = "none" /\ setCall'[p] = "queued"
        \/ setCall[p] = "watch" /\ setCall'[p] = "done" /\ life'[p] = life[p]
    BY <1>7 DEF Plain, ProcStep, Start, Die, SwitchUser, Switching, Death, NotStarted,
       AddScbClientDeathRecipient, DeathDropsClient, DeathForgetsPid, screenVars, procVars
  <2>4. \A q \in Pids \ {p} : MainRow(q)'
    BY <2>1, <2>2 DEF Alive
  <2>5. MainRow(p)'
    BY <2>1, <2>2, <2>3 DEF Alive, Entered
  <2> QED
    BY <2>1, <2>4, <2>5
<1>8. ASSUME NEW s \in RealScreens \cup Virtual, ScreenStep(s) PROVE MainAgrees'
  <2>1. s # Main
    BY <1>8 DEF ScreenStep, Connect, Disconnect, ScreenEvent, ConnectTold, DisconnectErases, ScreensOK
  <2>2. UNCHANGED <<life, setCall, hotCall, proxy, user>>
    BY <1>8, OutsideStep
  <2>3. event'[Main] = event[Main] /\ session'[Main] = session[Main]
    BY <1>8, <2>1 DEF ScreenStep, Connect, Disconnect, ScreenEvent, ConnectTold, DisconnectErases,
       nodeVars, ScreensOK, NodesOK
  <2>4. \A q \in Pids : /\ Main \in told'[q] <=> Main \in told[q]
                        /\ Main \in told[q] => drawsOn'[q][Main] = drawsOn[q][Main]
    <3>1. CASE UNCHANGED <<told, drawsOn>>
      BY <3>1
    <3>2. CASE TellConnected(proxy, {s})
      BY <2>1, <3>2 DEF TellConnected, ToldOK, Alive, ClientsOK
    <3>3. CASE Disconnect(s)
      BY <2>1, <3>3 DEF Disconnect
    <3> QED
      BY <1>8, <3>1, <3>2, <3>3 DEF ScreenStep, Connect, ScreenEvent, ConnectTold, DisconnectErases
  <2>5. \A q \in Pids : MainRow(q)'
    BY <2>2, <2>3, <2>4 DEF Alive, Waits
  <2> QED
    BY <2>2, <2>3, <2>5 DEF Locked
<1>9. ASSUME OtherStep PROVE MainAgrees'
  <2>1. UNCHANGED <<life, setCall, hotCall, proxy, user, session, event, told, drawsOn>>
    BY <1>9 DEF OtherStep, NotifySwitchUserAnimationFinish, RunCallbackTask, procVars, switchVars,
       nodeVars, screenVars
  <2> QED
    BY <2>1 DEF Locked, Waits, Alive
<1> QED
  BY <1>1, <1>2, <1>3, <1>4, <1>5, <1>6, <1>7, <1>8, <1>9
     DEF Next, ProcStep, Switching, Plain, ScreenStep, OtherStep

-----------------------------------------------------------------------------
(* The nodes of the users.                                                 *)

\* A call whose user has its nodes from the switch that is not over.
Dealt(p) == setCall[p] \in {"tell", "node"} \/ hotCall[p] = "animate"

\* The nodes of u are all on the tree.
Shown(u) == \A s \in nodes[u] : <<u, s>> \in tree

\* The node of another user is at the bottom, unless that user is being
\* switched to, and is there only for a SwitchUser that was lost.
LowNode(u, s) ==
  <<u, s>> \in tree =>
    /\ z[<<u, s>>] = Low \/ \E p \in Pids : UserOf[p] = u /\ Dealt(p)
    /\ lost \/ \E p \in Pids : UserOf[p] = u /\ (Dealt(p) \/ Waits(p))

\* The nodes of the current user were raised, or never moved.
RaisedNode(u, s) == z[<<u, s>>] \in {0, Default, High}

NodesAgree ==
  /\ \A u \in Users : TreeHolds(u)
  /\ user \in Users => Shown(user) /\ \A s \in nodes[user] : RaisedNode(user, s)
  /\ \A p \in Pids : Waits(p) => Shown(UserOf[p]) /\ UserOf[p] # user
  /\ \A u \in Users \ {user} : \A s \in RealScreens : LowNode(u, s)

LEMMA NodesAgreeStep ==
  ASSUME ProcsOK, ClientsOK, NodesOK, ScreensOK, NotStarted, Mutex, ClientAgrees, NodesAgree, Next
  PROVE  NodesAgree'
<1> USE UserSwitchAssumption DEF ProcsOK
<1>1. ASSUME NEW p \in Pids, SetClientBegin(p) \/ SetClientTell(p) PROVE NodesAgree'
  <2>1. /\ setCall[p] \in {"queued", "tell"}
        /\ setCall' = [setCall EXCEPT ![p] = IF setCall[p] = "queued" THEN "deal" ELSE "node"]
        /\ UNCHANGED <<hotCall, user, nodes, tree, z, lost>>
    BY <1>1 DEF SetClientBegin, SetClientTell, nodeVars, switchVars
  <2>2. \A q \in Pids : Waits(q)' = Waits(q) /\ Dealt(q)' = Dealt(q)
    BY <2>1 DEF Waits, Dealt
  <2> QED
    BY <2>1, <2>2 DEF NodesAgree, TreeHolds, Shown, RaisedNode, LowNode
<1>2. ASSUME NEW p \in Pids, SetClientDeal(p) PROVE NodesAgree'
  <2> DEFINE u == UserOf[p]
  <2>1. /\ setCall[p] = "deal" /\ setCall' = [setCall EXCEPT ![p] = "tell"]
        /\ nodes' = DealtNodes(u) /\ tree' = DealtTree(u) /\ z' = DealtZ(u)
        /\ UNCHANGED <<hotCall, user, lost>>
    BY <1>2 DEF SetClientDeal, switchVars
  <2>2. \A q \in Pids : ~Waits(q) /\ ~Waits(q)' /\ ~Dealt(q) /\ Dealt(p)'
    BY <2>1 DEF Mutex, SetRunning, Waits, Dealt
  <2>3. u \in Users
    OBVIOUS
  <2> HIDE DEF u
  <2>4. \A v \in Users \ {u} : /\ nodes'[v] = nodes[v]
                               /\ \A s \in RealScreens : <<v, s>> \in tree' <=> <<v, s>> \in tree
                               /\ \A s \in RealScreens : z'[<<v, s>>] = z[<<v, s>>]
    BY <2>1, <2>3, DealEffect
  <2>5. /\ nodes'[u] = Real
        /\ \A s : <<u, s>> \in tree' <=> \/ <<u, s>> \in tree /\ s \notin nodes[u] \ Real
                                         \/ s \in Real \ nodes[u]
        /\ \A s \in RealScreens : z'[<<u, s>>] = IF s \in Real \ nodes[u] THEN 0 ELSE z[<<u, s>>]
    BY <2>1, <2>3, DealEffect
  <2>6. \A v \in Users : TreeHolds(v)'
    BY <2>4, <2>5 DEF NodesAgree, TreeHolds
  <2>7. user \in Users => (Shown(user) /\ \A s \in nodes[user] : RaisedNode(user, s))'
    <3>1. CASE user = u
      BY <2>1, <2>3, <2>5, <3>1 DEF NodesAgree, Shown, RaisedNode, Real
    <3>2. CASE user # u
      BY <2>1, <2>4, <3>2 DEF NodesAgree, Shown, RaisedNode, NodesOK
    <3> QED
      BY <3>1, <3>2
  <2>8. \A v \in Users \ {user} : \A s \in RealScreens : LowNode(v, s)'
    BY <2>1, <2>2, <2>4 DEF NodesAgree, LowNode, u
  <2> QED
    BY <2>1, <2>2, <2>6, <2>7, <2>8 DEF NodesAgree
<1>3. ASSUME NEW p \in Pids, SetClientNode(p) \/ SwitchUserNode(p), user # UserOf[p]
      PROVE  NodesAgree'
  <2> DEFINE u == UserOf[p]
  <2>1. /\ \E cold \in BOOLEAN : HandleNewUserDisplayNode(u, cold)
        /\ user' = user
        /\ \A q \in Pids : q # p => ~Waits(q)' /\ ~Waits(q) /\ ~Dealt(q)
        /\ Waits(p)' \/ lost'
        /\ lost => lost'
    <3>1. CASE SetClientNode(p)
      <4>1. /\ setCall[p] = "node" /\ setCall' = [setCall EXCEPT ![p] = "animate"]
            /\ HandleNewUserDisplayNode(u, TRUE)
            /\ UNCHANGED <<hotCall, user, lost>>
        BY <1>3, <3>1 DEF SetClientNode, NodesOfNewUser, WaitOrFinish
      <4> HIDE DEF u
      <4> QED
        BY <4>1 DEF Waits, Dealt, SetRunning, Mutex
    <3>2. CASE SwitchUserNode(p)
      <4>1. /\ \/ hotCall' = [hotCall EXCEPT ![p] = "animate"]
               \/ hotCall' = [hotCall EXCEPT ![p] = "none"] /\ lost'
            /\ HandleNewUserDisplayNode(u, FALSE)
            /\ UNCHANGED <<setCall, user>>
            /\ lost => lost'
            /\ ~Locked
        <5>1. CASE proxy = NoPid
          BY <1>3, <3>2, <5>1 DEF SwitchUserNode, NodesOfNewUser
        <5>2. CASE proxy # NoPid
          BY <1>3, <3>2, <5>2 DEF SwitchUserNode, NodesOfNewUser, WaitOrFinish
        <5> QED
          BY <5>1, <5>2
      <4> HIDE DEF u
      <4> QED
        BY <4>1 DEF Waits, Dealt, SetRunning, Locked
    <3> QED
      BY <1>3, <3>1, <3>2
  <2>2. u \in Users /\ u # user
    BY <1>3
  <2>3. \A q \in Pids : Waits(q)' => UserOf[q] = u
    BY <2>1
  <2>4. \A q \in Pids : Dealt(q) \/ Waits(q) => UserOf[q] = u
    BY <2>1
  <2>5. Waits(p)' => \E q \in Pids : UserOf[q] = u /\ Waits(q)'
    BY DEF u
  <2> HIDE DEF u
  <2>6. /\ \A v \in Users \ {u} : /\ nodes'[v] = nodes[v]
                                  /\ \A s \in RealScreens : <<v, s>> \in tree' <=> <<v, s>> \in tree
        /\ \A s \in nodes'[u] : <<u, s>> \in tree' /\ z'[<<u, s>>] = Low
        /\ TreeHolds(u) => TreeHolds(u)'
        /\ \A v \in Users \ {u, user} : \A s \in RealScreens : z'[<<v, s>>] = z[<<v, s>>]
        /\ user \in Users => \A s \in nodes[user] : z'[<<user, s>>] = Default
    BY <2>1, <2>2, HandOverEffect DEF ClientsOK
  <2>7. \A v \in Users : TreeHolds(v)'
    BY <2>6 DEF NodesAgree, TreeHolds
  <2>8. user \in Users => (Shown(user) /\ \A s \in nodes[user] : RaisedNode(user, s))'
    BY <2>1, <2>2, <2>6 DEF NodesAgree, Shown, RaisedNode, NodesOK
  <2>9. Shown(u)'
    BY <2>6 DEF Shown
  <2>10. \A v \in Users \ {user} : \A s \in RealScreens : LowNode(v, s)'
    <3>1. \A s \in RealScreens : LowNode(u, s)'
      BY <2>1, <2>5, <2>6, <2>7, <2>2 DEF LowNode, TreeHolds
    <3>2. \A v \in Users \ {user, u} : \A s \in RealScreens : LowNode(v, s)'
      BY <2>1, <2>4, <2>6 DEF LowNode, NodesAgree
    <3> QED
      BY <3>1, <3>2
  <2> QED
    BY <2>1, <2>2, <2>3, <2>7, <2>8, <2>9, <2>10 DEF NodesAgree
<1>4. ASSUME NEW p \in Pids, SetClientNode(p) \/ SwitchUserNode(p), user = UserOf[p]
      PROVE  NodesAgree'
  <2>1. /\ UNCHANGED <<user, nodes, tree, z>>
        /\ \A q \in Pids : ~Waits(q) /\ ~Waits(q)' /\ (Dealt(q) => q = p)
        /\ lost => lost'
    <3>1. CASE SetClientNode(p)
      <4>1. /\ setCall[p] = "node" /\ setCall' = [setCall EXCEPT ![p] = "watch"]
            /\ UNCHANGED <<user, nodes, tree, z, hotCall, lost>>
        BY <1>4, <3>1 DEF SetClientNode, NodesOfNewUser, WaitOrFinish, Finish, nodeVars
      <4> QED
        BY <4>1 DEF Waits, Dealt, SetRunning, Mutex
    <3>2. CASE SwitchUserNode(p)
      <4>1. /\ hotCall' = [hotCall EXCEPT ![p] = "none"]
            /\ UNCHANGED <<user, nodes, tree, z, setCall>>
            /\ lost => lost'
            /\ ~Locked
        BY <1>4, <3>2 DEF SwitchUserNode, NodesOfNewUser, WaitOrFinish, Finish, nodeVars
      <4> QED
        BY <4>1 DEF Waits, Dealt, SetRunning, Locked
    <3> QED
      BY <1>4, <3>1, <3>2
  <2>2. \A v \in Users \ {user} : \A s \in RealScreens : LowNode(v, s)'
    BY <1>4, <2>1 DEF NodesAgree, LowNode
  <2> QED
    BY <2>1, <2>2 DEF NodesAgree, TreeHolds, Shown, RaisedNode
<1>5. ASSUME NEW p \in Pids, SetClientFinish(p) \/ SwitchUserFinish(p) PROVE NodesAgree'
  <2> DEFINE u == UserOf[p]
  <2>1. /\ Waits(p) /\ user' = u /\ proxy # NoPid
        /\ z' = AtZ(z, NodesOf(u), High) /\ tree' = tree \ NodesOf(user)
        /\ UNCHANGED <<nodes, lost>>
        /\ \A q \in Pids : ~Waits(q)' /\ (Dealt(q) \/ Waits(q) => q = p)
    BY <1>5 DEF SetClientFinish, SwitchUserFinish, AnimateFinish, Finish, Waits, Dealt, Mutex,
       SetRunning, ClientAgrees
  <2>2. u \in Users /\ u # user /\ Shown(u)
    BY <2>1 DEF NodesAgree
  <2>3. \A q \in Pids : Dealt(q) \/ Waits(q) => UserOf[q] = u
    BY <2>1
  <2> HIDE DEF u
  <2>4. \A v \in Users, s \in RealScreens :
          z'[<<v, s>>] = IF v = u /\ s \in nodes[u] THEN High ELSE z[<<v, s>>]
    BY <2>1, <2>2 DEF AtZ, NodesOf, NodesOK, Owners
  <2>5. \A v \in Users, s \in RealScreens :
          <<v, s>> \in tree' <=> <<v, s>> \in tree /\ ~(v = user /\ s \in nodes[v])
    BY <2>1 DEF NodesOf
  <2>6. \A v \in Users : TreeHolds(v)'
    BY <2>1, <2>5 DEF NodesAgree, TreeHolds
  <2>7. (Shown(user) /\ \A s \in nodes[user] : RaisedNode(user, s))'
    BY <2>1, <2>2, <2>4, <2>5 DEF Shown, RaisedNode, NodesOK
  <2>8. ASSUME NEW v \in Users \ {u}, NEW s \in RealScreens PROVE LowNode(v, s)'
    <3>1. CASE v = user
      BY <2>5, <2>6, <3>1 DEF LowNode, NodesAgree, TreeHolds
    <3>2. CASE v # user
      BY <2>1, <2>3, <2>4, <2>5, <3>2 DEF LowNode, NodesAgree
    <3> QED
      BY <3>1, <3>2
  <2> QED
    BY <2>1, <2>6, <2>7, <2>8 DEF NodesAgree
<1>6. ASSUME NEW p \in Pids, Plain(p), ~SetClientTell(p) PROVE NodesAgree'
  <2>1. /\ UNCHANGED <<user, nodes, tree, z, lost>>
        /\ \A q \in Pids : Waits(q)' = Waits(q) /\ (hotCall'[q] = "animate" <=> hotCall[q] = "animate")
    BY <1>6, PlainStep DEF nodeVars
  <2>2. \A q \in Pids : setCall'[q] \in {"tell", "node"} <=> setCall[q] \in {"tell", "node"}
    BY <1>6 DEF Plain, ProcStep, Start, Die, SwitchUser, Switching, Death, NotStarted,
       AddScbClientDeathRecipient, DeathDropsClient, DeathForgetsPid
  <2>3. \A q \in Pids : Dealt(q)' = Dealt(q)
    BY <2>1, <2>2 DEF Dealt
  <2> QED
    BY <2>1, <2>3 DEF NodesAgree, TreeHolds, Shown, RaisedNode, LowNode
<1>7. ASSUME OtherStep \/ \E s \in RealScreens \cup Virtual : ScreenStep(s) PROVE NodesAgree'
  <2>1. UNCHANGED <<setCall, hotCall, user, nodes, lost>>
    BY <1>7 DEF OtherStep, ScreenStep, NotifySwitchUserAnimationFinish, RunCallbackTask, Connect,
       Disconnect, ScreenEvent, ConnectTold, DisconnectErases, switchVars, nodeVars
  <2>2. \A v \in Users, s \in RealScreens :
          (<<v, s>> \in tree' <=> <<v, s>> \in tree) /\ z'[<<v, s>>] = z[<<v, s>>]
    <3>1. CASE UNCHANGED <<tree, z>>
      BY <3>1
    <3>2. ASSUME NEW s \in RealScreens \cup Virtual, Connect(s) \/ DisconnectErases(s)
          PROVE  \A v \in Users, t \in RealScreens :
                   (<<v, t>> \in tree' <=> <<v, t>> \in tree) /\ z'[<<v, t>>] = z[<<v, t>>]
      <4>1. z' = z \/ z' = AtZ(z, {<<Boot, s>>} \cap DOMAIN z, 0)
        BY <3>2 DEF Connect, DisconnectErases
      <4>2. \A v \in Users, t \in RealScreens : z'[<<v, t>>] = z[<<v, t>>]
        BY <4>1 DEF AtZ, NodesOK, Owners
      <4>3. tree' \in {tree, tree \cup {<<Boot, s>>}, tree \ {<<Boot, s>>}}
        BY <3>2 DEF Connect, DisconnectErases
      <4>4. \A v \in Users, t \in RealScreens : <<v, t>> \in tree' <=> <<v, t>> \in tree
        BY <4>3
      <4> QED
        BY <4>2, <4>4
    <3> QED
      BY <1>7, <3>1, <3>2 DEF OtherStep, ScreenStep, NotifySwitchUserAnimationFinish, RunCallbackTask,
         Disconnect, ScreenEvent, ConnectTold, nodeVars
  <2>3. \A q \in Pids : Waits(q)' = Waits(q) /\ Dealt(q)' = Dealt(q)
    BY <2>1 DEF Waits, Dealt
  <2> QED
    BY <2>1, <2>2, <2>3 DEF NodesAgree, TreeHolds, Shown, RaisedNode, LowNode, NodesOK
<1> QED
  BY <1>1, <1>2, <1>3, <1>4, <1>5, <1>6, <1>7
     DEF Next, ProcStep, Switching, Plain, ScreenStep, OtherStep

-----------------------------------------------------------------------------
NodeInv == FirstSwitch /\ RenderAgrees /\ MainAgrees /\ NodesAgree

LEMMA NodeInvCorrect == Spec => []NodeInv
<1>1. Init => NodeInv
  <2> SUFFICES ASSUME Init PROVE NodeInv
    OBVIOUS
  <2> USE UserSwitchAssumption DEF Init
  <2>1. FirstSwitch /\ RenderAgrees
    BY DEF FirstSwitch, RenderAgrees, Waits, Target
  <2>2. MainAgrees
    BY DEF MainAgrees, MainRow, Waits, Alive
  <2>3. NodesAgree
    BY DEF NodesAgree, TreeHolds, Waits, LowNode
  <2> QED
    BY <2>1, <2>2, <2>3 DEF NodeInv
<1>2. ASSUME TypeInv, SwitchInv, NodeInv, [Next]_vars PROVE NodeInv'
  <2>1. CASE Next
    <3>1. (FirstSwitch /\ RenderAgrees)'
      BY <1>2, <2>1, RenderStep DEF TypeInv, SwitchInv, NodeInv
    <3>2. MainAgrees'
      BY <1>2, <2>1, MainStep DEF TypeInv, SwitchInv, NodeInv
    <3>3. NodesAgree'
      BY <1>2, <2>1, NodesAgreeStep DEF TypeInv, SwitchInv, NodeInv
    <3> QED
      BY <3>1, <3>2, <3>3 DEF NodeInv
  <2>2. CASE UNCHANGED vars
    <3> USE <1>2, <2>2 DEF vars, procVars, switchVars, nodeVars, taskVars, screenVars, NodeInv, Locked
    <3>1. (FirstSwitch /\ RenderAgrees)'
      BY DEF FirstSwitch, RenderAgrees, Waits, Target, Alive
    <3>2. MainAgrees'
      BY DEF MainAgrees, MainRow, Waits, Alive
    <3>3. NodesAgree'
      BY DEF NodesAgree, TreeHolds, Shown, RaisedNode, LowNode, Waits, Dealt
    <3> QED
      BY <3>1, <3>2, <3>3
  <2> QED
    BY <1>2, <2>1, <2>2
<1> QED
  BY <1>1, <1>2, TypeInvCorrect, SwitchInvCorrect, PTL DEF Spec

\* Whatever calls are given up half-way, between two switches the nodes of the
\* current user are on the tree and above those of every other user, except one
\* that was never raised where a SwitchUser was lost.
THEOREM NodesCorrect == Spec => []CurrentUserOnTop
<1>1. TypeInv /\ NodeInv => CurrentUserOnTop
  <2> SUFFICES ASSUME TypeInv, NodeInv, ~Locked, user # NoUser, NEW s \in nodes[user] \cap screens
               PROVE  /\ <<user, s>> \in tree
                      /\ \A u \in Users \ {user} :
                           <<u, s>> \in tree => z[<<u, s>>] < z[<<user, s>>] \/ NeverRaised(user, s)
    BY DEF CurrentUserOnTop
  <2>1. user \in Users /\ s \in RealScreens
    BY DEF TypeInv, ClientsOK, NodesOK
  <2>2. <<user, s>> \in tree /\ RaisedNode(user, s)
    BY <2>1 DEF NodeInv, NodesAgree, Shown
  <2>3. \A q \in Pids : ~Dealt(q) /\ ~Waits(q)
    BY DEF Locked, SetRunning, Dealt, Waits
  <2>4. ASSUME NEW u \in Users \ {user}, <<u, s>> \in tree PROVE z[<<u, s>>] = Low /\ lost
    BY <2>1, <2>3, <2>4 DEF NodeInv, NodesAgree, LowNode
  <2> QED
    BY <2>2, <2>4 DEF RaisedNode, NeverRaised, Low, Default, High
<1> QED
  BY <1>1, NodeInvCorrect, TypeInvCorrect, PTL

\* The current client draws on the node that the session of the built-in screen
\* holds, for any order of restarts, switches and screen events.
THEOREM MainNodeCorrect == Spec => []MainNodeIsDrawnOn
<1>1. TypeInv /\ SwitchInv /\ NodeInv => MainNodeIsDrawnOn
  <2> SUFFICES ASSUME TypeInv, SwitchInv, NodeInv, ~Locked, Alive(proxy), UserOf[proxy] = user
               PROVE  Main \in told[proxy] /\ session[Main] = user /\ drawsOn[proxy][Main] = user
    BY DEF MainNodeIsDrawnOn
  <2>1. proxy \in Pids /\ proxy # NoPid
    BY DEF TypeInv, ClientsOK, Alive
  <2>2. setCall[proxy] \in Entered
    BY <2>1 DEF TypeInv, ProcsOK, SetCalls, SwitchInv, ClientAgrees, Locked, SetRunning, Entered
  <2> QED
    BY <2>1, <2>2 DEF NodeInv, MainAgrees, MainRow
<1> QED
  BY <1>1, NodeInvCorrect, SwitchInvCorrect, TypeInvCorrect, PTL

\* Once the posted tasks have run, the render service has the pid of the current
\* client, unless switches overtook a task or found no old pid.
THEOREM RenderedPidCorrect == Spec => []RenderedPidIsCurrent
<1>1. NodeInv => RenderedPidIsCurrent
  BY DEF NodeInv, RenderAgrees, Target, RenderedPidIsCurrent
<1> QED
  BY <1>1, NodeInvCorrect, PTL
=============================================================================
