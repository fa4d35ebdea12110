-------------------------- MODULE UserSwitchProofs --------------------------
(***************************************************************************)
(* Proofs about UserSwitch for any users, processes, screens and bounds.   *)
(***************************************************************************)
EXTENDS UserSwitch, TLAPS

\* The step of a process, of a screen, or of neither.
ProcStep(p) == Start(p) \/ Die(p) \/ SwitchUser(p) \/ Switching(p) \/ Death(p)
ScreenStep(s) == Connect(s) \/ Disconnect(s) \/ ScreenEvent(s)
OtherStep == NotifySwitchUserAnimationFinish \/ \E t \in tasks : RunCallbackTask(t)

\* The parts of the type invariant, with what keeps Main in the map.
SetCalls == {"none", "queued", "deal", "tell", "node", "animate", "watch", "done"}
HotCalls == {"none", "queued", "animate"}
ProcsOK ==
  /\ life \in [Pids -> {"unborn", "alive", "dead"}]
  /\ setCall \in [Pids -> SetCalls]
  /\ hotCall \in [Pids -> HotCalls]
  /\ watched \in [Pids -> BOOLEAN]
  /\ death \in [Pids -> {"none", "fired", "waiting", "done"}]
ClientsOK ==
  /\ proxy \in Pids \cup {NoPid}
  /\ clientMap \in [Users -> Pids \cup {NoPid}]
  /\ {user, settings} \subseteq Users \cup {NoUser}
  /\ pid \in Pids \cup {NoPid}
  /\ oldPids \subseteq Pids
TasksOK ==
  /\ \A t \in tasks : t.new \in Pids /\ t.olds \subseteq Pids /\ t.no \in Nat
  /\ scbPid \in Pids \cup {NoPid}
AnimationOK ==
  /\ owed \in Nat
  /\ {flag, own, timedOut, early, crossed, lost, overtook} \subseteq BOOLEAN
NodesOK ==
  /\ session \in [RealScreens -> Owners \cup {NoUser}]
  /\ nodes \in [Users -> SUBSET RealScreens]
  /\ tree \subseteq Owners \X RealScreens
  /\ z \in [Owners \X RealScreens -> 0..High]
ScreensOK ==
  /\ Main \in screens /\ screens \subseteq RealScreens \cup Virtual
  /\ event \in [RealScreens \cup Virtual -> {"none", "connecting", "disconnecting"}]
  /\ event[Main] # "disconnecting"
ToldOK ==
  /\ told \in [Pids -> SUBSET (RealScreens \cup Virtual)]
  /\ drawsOn \in [Pids -> [RealScreens -> Owners \cup {NoUser}]]
  /\ raced \cup away \subseteq Pids \X (RealScreens \cup Virtual)
  /\ late \subseteq Pids
BudgetOK == budget \in [starts : Nat, deaths : Nat, hot : Nat, plugs : Nat]

LEMMA TypeParts ==
  ASSUME ProcsOK, ClientsOK, TasksOK, AnimationOK, NodesOK, ScreensOK, ToldOK, BudgetOK
  PROVE  TypeOK
  BY DEF TypeOK, ProcsOK, ClientsOK, TasksOK, AnimationOK, NodesOK, ScreensOK, ToldOK,
     BudgetOK, SetCalls, HotCalls

\* The processes and their calls.
LEMMA ProcsStep ==
  ASSUME ProcsOK, Next
  PROVE  ProcsOK'
<1> USE DEF ProcsOK
<1>1. ASSUME NEW p \in Pids, ProcStep(p) PROVE ProcsOK'
  <2>1. life' \in {life, [life EXCEPT ![p] = "alive"], [life EXCEPT ![p] = "dead"]}
    BY <1>1 DEF ProcStep, Start, Die, SwitchUser, Switching, Death, SetClientBegin,
       SetClientDeal, SetClientTell, SetClientNode, SetClientFinish, SwitchUserNode,
       SwitchUserFinish, AnimateFinish, AddScbClientDeathRecipient, DeathDropsClient,
       DeathForgetsPid, procVars
  <2>2. setCall' = setCall \/ \E v \in SetCalls : setCall' = [setCall EXCEPT ![p] = v]
    BY <1>1 DEF ProcStep, Start, Die, SwitchUser, Switching, Death, SetClientBegin,
       SetClientDeal, SetClientTell, SetClientNode, SetClientFinish, SwitchUserNode,
       SwitchUserFinish, AnimateFinish, AddScbClientDeathRecipient, DeathDropsClient,
       DeathForgetsPid, WaitOrFinish, SetCalls
  <2>3. hotCall' = hotCall \/ \E v \in HotCalls : hotCall' = [hotCall EXCEPT ![p] = v]
    BY <1>1 DEF ProcStep, Start, Die, SwitchUser, Switching, Death, SetClientBegin,
       SetClientDeal, SetClientTell, SetClientNode, SetClientFinish, SwitchUserNode,
       SwitchUserFinish, AnimateFinish, AddScbClientDeathRecipient, DeathDropsClient,
       DeathForgetsPid, WaitOrFinish, HotCalls
  <2>4. watched' = watched \/ \E b \in BOOLEAN : watched' = [watched EXCEPT ![p] = b]
    BY <1>1 DEF ProcStep, Start, Die, SwitchUser, Switching, Death, SetClientBegin,
       SetClientDeal, SetClientTell, SetClientNode, SetClientFinish, SwitchUserNode,
       SwitchUserFinish, AnimateFinish, AddScbClientDeathRecipient, DeathDropsClient,
       DeathForgetsPid, procVars
  <2>5. death' \in {death, [death EXCEPT ![p] = "fired"], [death EXCEPT ![p] = "waiting"],
                    [death EXCEPT ![p] = "done"]}
    BY <1>1 DEF ProcStep, Start, Die, SwitchUser, Switching, Death, SetClientBegin,
       SetClientDeal, SetClientTell, SetClientNode, SetClientFinish, SwitchUserNode,
       SwitchUserFinish, AnimateFinish, AddScbClientDeathRecipient, DeathDropsClient,
       DeathForgetsPid, procVars
  <2>6. life' \in [Pids -> {"unborn", "alive", "dead"}]
    BY <2>1
  <2>7. setCall' \in [Pids -> SetCalls]
    BY <2>2
  <2>8. hotCall' \in [Pids -> HotCalls]
    BY <2>3
  <2>9. watched' \in [Pids -> BOOLEAN]
    BY <2>4
  <2>10. death' \in [Pids -> {"none", "fired", "waiting", "done"}]
    BY <2>5
  <2> QED
    BY <2>6, <2>7, <2>8, <2>9, <2>10
<1>2. ASSUME OtherStep \/ \E s \in RealScreens \cup Virtual : ScreenStep(s) PROVE ProcsOK'
  BY <1>2 DEF OtherStep, ScreenStep, NotifySwitchUserAnimationFinish, RunCallbackTask, Connect,
     Disconnect, ScreenEvent, ConnectTold, DisconnectErases, procVars
<1> QED
  BY <1>1, <1>2 DEF Next, ProcStep, ScreenStep, OtherStep

\* The clients and the pids.
LEMMA ClientsStep ==
  ASSUME ProcsOK, ClientsOK, Next
  PROVE  ClientsOK'
<1> USE UserSwitchAssumption DEF ClientsOK
<1>1. ASSUME NEW p \in Pids, ProcStep(p) PROVE ClientsOK'
  <2>1. proxy' \in {proxy, p, NoPid, clientMap[UserOf[p]]}
    BY <1>1 DEF ProcStep, Start, Die, SwitchUser, Switching, Death, SetClientBegin,
       SetClientDeal, SetClientTell, SetClientNode, SetClientFinish, SwitchUserNode,
       SwitchUserFinish, AnimateFinish, AddScbClientDeathRecipient, DeathDropsClient,
       DeathForgetsPid, switchVars, HotSwitch
  <2>2. clientMap' \in {clientMap, [clientMap EXCEPT ![UserOf[p]] = proxy]}
    BY <1>1 DEF ProcStep, Start, Die, SwitchUser, Switching, Death, SetClientBegin,
       SetClientDeal, SetClientTell, SetClientNode, SetClientFinish, SwitchUserNode,
       SwitchUserFinish, AnimateFinish, AddScbClientDeathRecipient, DeathDropsClient,
       DeathForgetsPid, switchVars
  <2>3. /\ user' \in {user, UserOf[p]}
        /\ pid' \in {pid, p}
    BY <1>1 DEF ProcStep, Start, Die, SwitchUser, Switching, Death, SetClientBegin,
       SetClientDeal, SetClientTell, SetClientNode, SetClientFinish, SwitchUserNode,
       SwitchUserFinish, AnimateFinish, AddScbClientDeathRecipient, DeathDropsClient,
       DeathForgetsPid, switchVars, WaitOrFinish, Finish
  <2>4. settings' \in {settings, UserOf[p]}
    BY <1>1 DEF ProcStep, Start, Die, SwitchUser, Switching, Death, SetClientBegin,
       SetClientDeal, SetClientTell, SetClientNode, SetClientFinish, SwitchUserNode,
       SwitchUserFinish, AnimateFinish, AddScbClientDeathRecipient, DeathDropsClient,
       DeathForgetsPid, SettingsFollow
  <2>5. \/ UNCHANGED oldPids
        \/ RememberOldPid(p)
        \/ oldPids' = oldPids \ {p}
    BY <1>1 DEF ProcStep, Start, Die, SwitchUser, Switching, Death, SetClientBegin,
       SetClientDeal, SetClientTell, SetClientNode, SetClientFinish, SwitchUserNode,
       SwitchUserFinish, AnimateFinish, AddScbClientDeathRecipient, DeathDropsClient,
       DeathForgetsPid, switchVars
  <2>6. oldPids' \subseteq Pids
    BY <2>5 DEF RememberOldPid
  <2>7. clientMap' \in [Users -> Pids \cup {NoPid}]
    BY <2>2
  <2> QED
    BY <2>1, <2>3, <2>4, <2>6, <2>7
<1>2. ASSUME OtherStep \/ \E s \in RealScreens \cup Virtual : ScreenStep(s) PROVE ClientsOK'
  <2>1. UNCHANGED <<proxy, clientMap, user, pid, oldPids, settings>>
    BY <1>2 DEF OtherStep, ScreenStep, NotifySwitchUserAnimationFinish, RunCallbackTask, Connect,
       Disconnect, ScreenEvent, ConnectTold, DisconnectErases, switchVars
  <2> QED
    BY <2>1
<1> QED
  BY <1>1, <1>2 DEF Next, ProcStep, ScreenStep, OtherStep

\* The posted tasks and the pid that the render service has.
LEMMA TasksStep ==
  ASSUME ProcsOK, ClientsOK, ClientsOK', TasksOK, BudgetOK, Next
  PROVE  TasksOK'
<1> USE DEF TasksOK
<1>1. ASSUME NEW p \in Pids, ProcStep(p) PROVE TasksOK'
  <2>1. tasks' \in {tasks, tasks \cup {[new |-> p, olds |-> oldPids', no |-> budget.hot]}}
    BY <1>1 DEF ProcStep, Start, Die, SwitchUser, Switching, Death, SetClientBegin,
       SetClientDeal, SetClientTell, SetClientNode, SetClientFinish, SwitchUserNode,
       SwitchUserFinish, AnimateFinish, AddScbClientDeathRecipient, DeathDropsClient,
       DeathForgetsPid, taskVars, HotSwitch
  <2>2. scbPid' \in {scbPid, p}
    BY <1>1 DEF ProcStep, Start, Die, SwitchUser, Switching, Death, SetClientBegin,
       SetClientDeal, SetClientTell, SetClientNode, SetClientFinish, SwitchUserNode,
       SwitchUserFinish, AnimateFinish, AddScbClientDeathRecipient, DeathDropsClient,
       DeathForgetsPid, taskVars, Callback
  <2>3. oldPids' \subseteq Pids /\ budget.hot \in Nat
    BY DEF ClientsOK, BudgetOK
  <2> QED
    BY <2>1, <2>2, <2>3
<1>2. ASSUME NEW t \in tasks, RunCallbackTask(t) PROVE TasksOK'
  BY <1>2 DEF RunCallbackTask, Callback
<1>3. ASSUME \/ NotifySwitchUserAnimationFinish
             \/ \E s \in RealScreens \cup Virtual : ScreenStep(s)
      PROVE  TasksOK'
  BY <1>3 DEF ScreenStep, NotifySwitchUserAnimationFinish, Connect,
     Disconnect, ScreenEvent, ConnectTold, DisconnectErases, taskVars
<1> QED
  BY <1>1, <1>2, <1>3 DEF Next, ProcStep, ScreenStep

\* The animation's flag, its notices and the history.
LEMMA AnimationStep ==
  ASSUME AnimationOK, Next
  PROVE  AnimationOK'
<1> USE DEF AnimationOK
<1>1. ASSUME NEW p \in Pids, ProcStep(p) PROVE AnimationOK'
  <2>1. owed' \in {owed, owed + 1}
    BY <1>1 DEF ProcStep, Start, Die, SwitchUser, Switching, Death, SetClientBegin,
       SetClientDeal, SetClientTell, SetClientNode, SetClientFinish, SwitchUserNode,
       SwitchUserFinish, AnimateFinish, AddScbClientDeathRecipient, DeathDropsClient,
       DeathForgetsPid, animVars, EndWait
  <2>2. flag' \in BOOLEAN /\ own' \in BOOLEAN
    BY <1>1 DEF ProcStep, Start, Die, SwitchUser, Switching, Death, SetClientBegin,
       SetClientDeal, SetClientTell, SetClientNode, SetClientFinish, SwitchUserNode,
       SwitchUserFinish, AnimateFinish, AddScbClientDeathRecipient, DeathDropsClient,
       DeathForgetsPid, animVars, EndWait, WaitOrFinish
  <2>3. timedOut' \in BOOLEAN /\ early' \in BOOLEAN
    BY <1>1 DEF ProcStep, Start, Die, SwitchUser, Switching, Death, SetClientBegin,
       SetClientDeal, SetClientTell, SetClientNode, SetClientFinish, SwitchUserNode,
       SwitchUserFinish, AnimateFinish, AddScbClientDeathRecipient, DeathDropsClient,
       DeathForgetsPid, animVars, EndWait
  <2>4. crossed' \in BOOLEAN /\ lost' \in BOOLEAN
    BY <1>1 DEF ProcStep, Start, Die, SwitchUser, Switching, Death, SetClientBegin,
       SetClientDeal, SetClientTell, SetClientNode, SetClientFinish, SwitchUserNode,
       SwitchUserFinish, AnimateFinish, AddScbClientDeathRecipient, DeathDropsClient,
       DeathForgetsPid
  <2>5. overtook' \in BOOLEAN
    BY <1>1 DEF ProcStep, Start, Die, SwitchUser, Switching, Death, SetClientBegin,
       SetClientDeal, SetClientTell, SetClientNode, SetClientFinish, SwitchUserNode,
       SwitchUserFinish, AnimateFinish, AddScbClientDeathRecipient, DeathDropsClient,
       DeathForgetsPid, taskVars, HotSwitch
  <2>6. owed' \in Nat
    BY <2>1
  <2> QED
    BY <2>2, <2>3, <2>4, <2>5, <2>6
<1>2. ASSUME NotifySwitchUserAnimationFinish PROVE AnimationOK'
  <2>1. owed' \in Nat
    BY <1>2 DEF NotifySwitchUserAnimationFinish
  <2>2. {flag, own, timedOut, early, crossed, lost, overtook}' \subseteq BOOLEAN
    BY <1>2 DEF NotifySwitchUserAnimationFinish, taskVars
  <2> QED
    BY <2>1, <2>2
<1>3. ASSUME \/ \E t \in tasks : RunCallbackTask(t)
             \/ \E s \in RealScreens \cup Virtual : ScreenStep(s)
      PROVE  AnimationOK'
  BY <1>3 DEF ScreenStep, RunCallbackTask, Connect,
     Disconnect, ScreenEvent, ConnectTold, DisconnectErases, animVars, taskVars
<1> QED
  BY <1>1, <1>2, <1>3 DEF Next, ProcStep, ScreenStep

\* The nodes.
LEMMA NodeOperators ==
  ASSUME NodesOK, ScreensOK, NEW u \in Users,
         NEW zs \in [Owners \X RealScreens -> 0..High], NEW N, NEW height \in 0..High
  PROVE  /\ AtZ(zs, N, height) \in [Owners \X RealScreens -> 0..High]
         /\ DealtSession(u) \in [RealScreens -> Owners \cup {NoUser}]
         /\ DealtNodes(u) \in [Users -> SUBSET RealScreens]
         /\ DealtTree(u) \subseteq Owners \X RealScreens
         /\ DealtZ(u) \in [Owners \X RealScreens -> 0..High]
<1> USE DEF NodesOK
<1>1. AtZ(zs, N, height) \in [Owners \X RealScreens -> 0..High]
  BY DEF AtZ
<1>2. DealtSession(u) \in [RealScreens -> Owners \cup {NoUser}]
  BY DEF DealtSession, Owners
<1>3. DealtNodes(u) \in [Users -> SUBSET RealScreens]
  BY DEF DealtNodes, Real
<1>4. DealtTree(u) \subseteq Owners \X RealScreens
  BY DEF DealtTree, Real, Owners
<1>5. DealtZ(u) \in [Owners \X RealScreens -> 0..High]
  BY DEF DealtZ, High
<1> QED
  BY <1>1, <1>2, <1>3, <1>4, <1>5

LEMMA HandOverTypes ==
  ASSUME NodesOK, ScreensOK, NEW u \in Users, NEW cold \in BOOLEAN,
         HandleNewUserDisplayNode(u, cold)
  PROVE  NodesOK'
<1>1. 0 \in 0..High /\ Low \in 0..High /\ Default \in 0..High
  BY DEF High, Low, Default
<1>2. session' \in [RealScreens -> Owners \cup {NoUser}] /\ nodes' \in [Users -> SUBSET RealScreens]
  BY <1>1, NodeOperators DEF HandleNewUserDisplayNode, NodesOK
<1>3. tree' \subseteq Owners \X RealScreens
  <2>1. {u} \X nodes'[u] \subseteq Owners \X RealScreens
    BY <1>2 DEF Owners
  <2>2. DealtTree(u) \subseteq Owners \X RealScreens /\ tree \subseteq Owners \X RealScreens
    BY <1>1, NodeOperators DEF NodesOK
  <2> QED
    BY <2>1, <2>2 DEF HandleNewUserDisplayNode
<1>4. z' \in [Owners \X RealScreens -> 0..High]
  <2> DEFINE z0 == IF cold THEN z ELSE DealtZ(u)
             z1 == AtZ(z0, NodesOf(user), Default)
  <2>1. z0 \in [Owners \X RealScreens -> 0..High]
    BY <1>1, NodeOperators DEF NodesOK
  <2>2. z' = AtZ(z1, {u} \X nodes'[u], Low)
    BY DEF HandleNewUserDisplayNode
  <2> HIDE DEF z0
  <2>3. z1 \in [Owners \X RealScreens -> 0..High]
    BY <1>1, <2>1, NodeOperators
  <2> HIDE DEF z1
  <2> QED
    BY <1>1, <2>2, <2>3, NodeOperators
<1> QED
  BY <1>2, <1>3, <1>4 DEF NodesOK

LEMMA NodesStep ==
  ASSUME ProcsOK, NodesOK, ScreensOK, Next
  PROVE  NodesOK'
<1> USE UserSwitchAssumption DEF ProcsOK
<1>1. 0 \in 0..High /\ High \in 0..High
  BY DEF High
<1>2. ASSUME NEW p \in Pids, ProcStep(p) PROVE NodesOK'
  <2> DEFINE u == UserOf[p]
  <2>1. u \in Users
    OBVIOUS
  <2> HIDE DEF u
  <2>2. CASE SetClientDeal(p)
    BY <2>2, <2>1, <1>1, NodeOperators DEF SetClientDeal, NodesOK, u
  <2>3. CASE SetClientNode(p) \/ SwitchUserNode(p)
    <3>1. UNCHANGED nodeVars \/ \E cold \in BOOLEAN : HandleNewUserDisplayNode(u, cold)
      BY <2>3 DEF SetClientNode, SwitchUserNode, NodesOfNewUser, u
    <3>2. CASE UNCHANGED nodeVars
      BY <3>2 DEF nodeVars, NodesOK
    <3> QED
      BY <3>1, <3>2, <2>1, HandOverTypes
  <2>4. CASE SetClientFinish(p) \/ SwitchUserFinish(p)
    <3>1. /\ UNCHANGED <<session, nodes>>
          /\ z' \in {z, AtZ(z, NodesOf(u), High)}
          /\ tree' \subseteq tree
      BY <2>4 DEF SetClientFinish, SwitchUserFinish, AnimateFinish, u
    <3>2. z \in [Owners \X RealScreens -> 0..High]
      BY DEF NodesOK
    <3>3. AtZ(z, NodesOf(u), High) \in [Owners \X RealScreens -> 0..High]
      BY <3>2, <2>1, <1>1, NodeOperators
    <3>4. z' \in [Owners \X RealScreens -> 0..High]
      BY <3>1, <3>2, <3>3
    <3> QED
      BY <3>1, <3>4 DEF NodesOK
  <2>5. CASE ~(SetClientDeal(p) \/ SetClientNode(p) \/ SwitchUserNode(p) \/ SetClientFinish(p)
               \/ SwitchUserFinish(p))
    <3>1. UNCHANGED <<session, nodes, tree, z>>
      BY <1>2, <2>5 DEF ProcStep, Start, Die, SwitchUser, Switching, Death, SetClientBegin,
         SetClientTell, AddScbClientDeathRecipient, DeathDropsClient, DeathForgetsPid, nodeVars
    <3> QED
      BY <3>1 DEF NodesOK
  <2> QED
    BY <2>2, <2>3, <2>4, <2>5
<1>3. ASSUME NEW s \in RealScreens \cup Virtual, ScreenStep(s) PROVE NodesOK'
  <2>1. CASE Connect(s)
    <3>1. /\ UNCHANGED nodes
          /\ session' \in [RealScreens -> Owners \cup {NoUser}]
          /\ tree' \subseteq Owners \X RealScreens
      BY <2>1 DEF Connect, NodesOK, Owners
    <3>2. z' = AtZ(z, {<<Boot, s>>} \cap DOMAIN z, 0)
      BY <2>1 DEF Connect
    <3>3. z' \in [Owners \X RealScreens -> 0..High]
      BY <3>2, <1>1 DEF AtZ, NodesOK
    <3> QED
      BY <3>1, <3>3 DEF NodesOK
  <2>2. CASE DisconnectErases(s)
    BY <2>2 DEF DisconnectErases, NodesOK
  <2>3. CASE Disconnect(s) \/ ConnectTold(s)
    BY <2>3 DEF Disconnect, ConnectTold, NodesOK, nodeVars
  <2> QED
    BY <1>3, <2>1, <2>2, <2>3 DEF ScreenStep, ScreenEvent
<1>4. ASSUME OtherStep PROVE NodesOK'
  <2>1. UNCHANGED <<session, nodes, tree, z>>
    BY <1>4 DEF OtherStep, NotifySwitchUserAnimationFinish, RunCallbackTask, nodeVars
  <2> QED
    BY <2>1 DEF NodesOK
<1> QED
  BY <1>2, <1>3, <1>4 DEF Next, ProcStep, ScreenStep, OtherStep

\* The screens, their events and the bounds.
LEMMA ScreensStep ==
  ASSUME ScreensOK, Next
  PROVE  ScreensOK'
<1> USE UserSwitchAssumption DEF ScreensOK
<1>1. ASSUME (\E p \in Pids : ProcStep(p)) \/ OtherStep PROVE UNCHANGED <<screens, event>>
  BY <1>1 DEF ProcStep, Start, Die, SwitchUser, Switching, Death, SetClientBegin,
     SetClientDeal, SetClientTell, SetClientNode, SetClientFinish, SwitchUserNode,
     SwitchUserFinish, AnimateFinish, AddScbClientDeathRecipient, DeathDropsClient,
     DeathForgetsPid, OtherStep, NotifySwitchUserAnimationFinish, RunCallbackTask, screenVars
<1>2. ASSUME NEW s \in RealScreens \cup Virtual, ScreenStep(s) PROVE ScreensOK'
  <2>1. CASE Connect(s)
    BY <2>1 DEF Connect
  <2>2. CASE ConnectTold(s)
    BY <2>2 DEF ConnectTold
  <2>3. CASE Disconnect(s)
    BY <2>3 DEF Disconnect
  <2>4. CASE DisconnectErases(s)
    BY <2>4 DEF DisconnectErases
  <2> QED
    BY <1>2, <2>1, <2>2, <2>3, <2>4 DEF ScreenStep, ScreenEvent
<1> QED
  BY <1>1, <1>2 DEF Next, ProcStep, ScreenStep, OtherStep

\* What the clients were told, and the history of it.
LEMMA TellTypes ==
  ASSUME NodesOK, ToldOK, NEW p, NEW S \in SUBSET (RealScreens \cup Virtual), TellConnected(p, S)
  PROVE  /\ told' \in [Pids -> SUBSET (RealScreens \cup Virtual)]
         /\ drawsOn' \in [Pids -> [RealScreens -> Owners \cup {NoUser}]]
<1> USE DEF ToldOK
<1>1. CASE ~Alive(p)
  BY <1>1 DEF TellConnected
<1>2. CASE Alive(p)
  <2> DEFINE row == [s \in RealScreens |-> IF s \in S \ told[p] THEN session[s] ELSE drawsOn[p][s]]
  <2>1. /\ told' = [told EXCEPT ![p] = told[p] \cup S]
        /\ drawsOn' = [drawsOn EXCEPT ![p] = row]
    BY <1>2 DEF TellConnected
  <2>2. told' \in [Pids -> SUBSET (RealScreens \cup Virtual)]
    BY <2>1
  <2>3. p \in Pids => row \in [RealScreens -> Owners \cup {NoUser}]
    BY DEF NodesOK
  <2> HIDE DEF row
  <2>4. drawsOn' \in [Pids -> [RealScreens -> Owners \cup {NoUser}]]
    BY <2>1, <2>3
  <2> QED
    BY <2>2, <2>4
<1> QED
  BY <1>1, <1>2

LEMMA ToldStep ==
  ASSUME NodesOK, ScreensOK, ToldOK, Next
  PROVE  ToldOK'
<1> USE DEF ToldOK
<1>1. ASSUME NEW p \in Pids, ProcStep(p) PROVE ToldOK'
  <2>1. CASE SetClientTell(p)
    <3>1. TellConnected(p, screens) /\ UNCHANGED <<away, late>>
      BY <2>1 DEF SetClientTell, ScreensToTell
    <3>2. /\ told' \in [Pids -> SUBSET (RealScreens \cup Virtual)]
          /\ drawsOn' \in [Pids -> [RealScreens -> Owners \cup {NoUser}]]
      BY <3>1, TellTypes DEF ScreensOK
    <3>3. raced' \subseteq Pids \X (RealScreens \cup Virtual)
      BY <2>1 DEF SetClientTell, ScreensOK
    <3> QED
      BY <3>1, <3>2, <3>3
  <2>2. CASE Die(p)
    BY <2>2 DEF Die
  <2>3. CASE ~SetClientTell(p) /\ ~Die(p)
    <3>1. UNCHANGED <<told, drawsOn, raced, away, late>>
      BY <1>1, <2>3 DEF ProcStep, Start, SwitchUser, Switching, Death, SetClientBegin,
         SetClientDeal, SetClientNode, SetClientFinish, SwitchUserNode,
         SwitchUserFinish, AnimateFinish, AddScbClientDeathRecipient, DeathDropsClient,
         DeathForgetsPid, screenVars
    <3> QED
      BY <3>1
  <2> QED
    BY <2>1, <2>2, <2>3
<1>2. ASSUME NEW s \in RealScreens \cup Virtual, ScreenStep(s) PROVE ToldOK'
  <2>1. CASE ConnectTold(s)
    <3>1. /\ told' \in [Pids -> SUBSET (RealScreens \cup Virtual)]
          /\ drawsOn' \in [Pids -> [RealScreens -> Owners \cup {NoUser}]]
      BY <2>1, TellTypes DEF ConnectTold
    <3>2. away' \subseteq Pids \X (RealScreens \cup Virtual) /\ UNCHANGED <<raced, late>>
      BY <2>1 DEF ConnectTold
    <3> QED
      BY <3>1, <3>2
  <2>2. CASE Disconnect(s)
    BY <2>2 DEF Disconnect
  <2>3. CASE Connect(s) \/ DisconnectErases(s)
    BY <2>3 DEF Connect, DisconnectErases
  <2> QED
    BY <1>2, <2>1, <2>2, <2>3 DEF ScreenStep, ScreenEvent
<1>3. ASSUME OtherStep PROVE UNCHANGED <<told, drawsOn, raced, away, late>>
  BY <1>3 DEF OtherStep, NotifySwitchUserAnimationFinish, RunCallbackTask, screenVars
<1> QED
  BY <1>1, <1>2, <1>3 DEF Next, ProcStep, ScreenStep, OtherStep

LEMMA BudgetStep ==
  ASSUME BudgetOK, Next
  PROVE  BudgetOK'
<1> USE DEF BudgetOK
<1>1. \/ UNCHANGED budget
      \/ budget.starts > 0 /\ budget' = [budget EXCEPT !.starts = @ - 1]
      \/ budget.deaths > 0 /\ budget' = [budget EXCEPT !.deaths = @ - 1]
      \/ budget.hot > 0 /\ budget' = [budget EXCEPT !.hot = @ - 1]
      \/ budget.plugs > 0 /\ budget' = [budget EXCEPT !.plugs = @ - 1]
  <2>1. CASE \E p \in Pids : Start(p) \/ Die(p) \/ SwitchUser(p)
    BY <2>1 DEF Start, Die, SwitchUser
  <2>2. CASE \E p \in Pids : Switching(p) \/ Death(p)
    BY <2>2 DEF Switching, Death, SetClientBegin, SetClientDeal, SetClientTell,
       SetClientNode, SetClientFinish, SwitchUserNode, SwitchUserFinish, AnimateFinish,
       AddScbClientDeathRecipient, DeathDropsClient, DeathForgetsPid
  <2>3. CASE OtherStep \/ \E s \in RealScreens \cup Virtual : ScreenStep(s)
    BY <2>3 DEF OtherStep, ScreenStep, NotifySwitchUserAnimationFinish, RunCallbackTask, Connect,
       Disconnect, ScreenEvent, ConnectTold, DisconnectErases
  <2> QED
    BY <2>1, <2>2, <2>3 DEF Next, ScreenStep, OtherStep
<1> QED
  BY <1>1

TypeInv ==
  /\ ProcsOK /\ ClientsOK /\ TasksOK /\ AnimationOK
  /\ NodesOK /\ ScreensOK /\ ToldOK /\ BudgetOK

LEMMA TypeInvCorrect == Spec => []TypeInv
<1>1. Init => TypeInv
  <2> SUFFICES ASSUME Init PROVE TypeInv
    OBVIOUS
  <2> USE UserSwitchAssumption
  <2>1. ProcsOK
    BY DEF Init, ProcsOK, SetCalls, HotCalls
  <2>2. ClientsOK /\ TasksOK /\ AnimationOK
    BY DEF Init, ClientsOK, TasksOK, AnimationOK
  <2>3. NodesOK
    <3>1. 0 \in 0..High
      BY DEF High
    <3> QED
      BY <3>1 DEF Init, NodesOK, Owners
  <2>4. ScreensOK /\ ToldOK
    BY DEF Init, ScreensOK, ToldOK
  <2>5. BudgetOK
    BY DEF Init, BudgetOK
  <2> QED
    BY <2>1, <2>2, <2>3, <2>4, <2>5 DEF TypeInv
<1>2. TypeInv /\ [Next]_vars => TypeInv'
  <2> SUFFICES ASSUME TypeInv, [Next]_vars PROVE TypeInv'
    OBVIOUS
  <2>1. CASE Next
    <3>1. ProcsOK' /\ ClientsOK'
      BY <2>1, ProcsStep, ClientsStep DEF TypeInv
    <3>2. TasksOK' /\ AnimationOK' /\ NodesOK'
      BY <2>1, <3>1, TasksStep, AnimationStep, NodesStep DEF TypeInv
    <3>3. ScreensOK' /\ ToldOK' /\ BudgetOK'
      BY <2>1, ScreensStep, ToldStep, BudgetStep DEF TypeInv
    <3> QED
      BY <3>1, <3>2, <3>3 DEF TypeInv
  <2>2. CASE UNCHANGED vars
    <3> USE <2>2 DEF vars, procVars, switchVars, animVars, nodeVars, taskVars, screenVars
    <3>1. (ProcsOK /\ ClientsOK)'
      BY DEF TypeInv, ProcsOK, ClientsOK
    <3>2. (TasksOK /\ AnimationOK)'
      BY DEF TypeInv, TasksOK, AnimationOK
    <3>3. NodesOK'
      BY DEF TypeInv, NodesOK
    <3>4. (ScreensOK /\ ToldOK /\ BudgetOK)'
      BY DEF TypeInv, ScreensOK, ToldOK, BudgetOK
    <3> QED
      BY <3>1, <3>2, <3>3, <3>4 DEF TypeInv
  <2> QED
    BY <2>1, <2>2
<1> QED
  BY <1>1, <1>2, PTL DEF Spec

\* The type invariant: calls, clients, nodes, screens and what the clients were
\* told stay in their sets, and the built-in screen stays in the map.
THEOREM TypeCorrect == Spec => []TypeOK
<1>1. TypeInv => TypeOK
  BY TypeParts DEF TypeInv
<1> QED
  BY <1>1, TypeInvCorrect, PTL

-----------------------------------------------------------------------------
(* oldScbPidsMutex_.                                                       *)

\* A process that was not started has made no call.
NotStarted ==
  \A p \in Pids : life[p] = "unborn" =>
    setCall[p] = "none" /\ hotCall[p] = "none" /\ ~watched[p] /\ death[p] = "none"

\* One call at most is inside the mutex.
Mutex ==
  \A p, q \in Pids :
    /\ setCall[p] \in SetRunning /\ setCall[q] \in SetRunning => p = q
    /\ hotCall[p] = "animate" /\ hotCall[q] = "animate" => p = q
    /\ ~(setCall[p] \in SetRunning /\ hotCall[q] = "animate")

\* Until some wait times out, every notice comes during the wait it is for.
Animating == \E p \in Pids : setCall[p] = "animate" \/ hotCall[p] = "animate"
NoticesInTime ==
  ~timedOut => /\ owed = 0 /\ ~early
               /\ flag => ~own
               /\ flag \/ own => Animating

\* The client map, and the client during a switch and after it.
Entered == {"animate", "watch", "done"}
ClientAgrees ==
  /\ \A u \in Users : clientMap[u] # NoPid =>
       UserOf[clientMap[u]] = u /\ setCall[clientMap[u]] \in Entered
  /\ \A p \in Pids : setCall[p] \in SetRunning => proxy = p
  /\ \A p \in Pids : hotCall[p] = "animate" =>
       /\ proxy # NoPid
       /\ clientMap[UserOf[p]] # NoPid => UserOf[proxy] = UserOf[p]
  /\ ~Locked /\ proxy # NoPid =>
       /\ user \in Users
       /\ clientMap[user] # NoPid => UserOf[proxy] = user
  /\ proxy # NoPid => setCall[proxy] \notin {"none", "queued"}

\* The client is the one that its user registered last, and a process that was
\* switched to last has one as long as it lives.
ClientKept ==
  /\ pid # NoPid => UserOf[pid] = user /\ life[pid] # "unborn"
  /\ \A p \in Pids : setCall[p] = "animate" => clientMap[UserOf[p]] = p
  /\ \A p \in Pids : hotCall[p] = "animate" => clientMap[UserOf[p]] \in {NoPid, proxy}
  /\ ~Locked /\ proxy # NoPid => clientMap[user] \in {NoPid, proxy}
  /\ ~Locked /\ Alive(pid) => proxy # NoPid

\* The settings are those of the switch that runs, and of the user it made the
\* current one.
SettingsAgree ==
  ~crossed /\ (\A p \in Pids : hotCall[p] # "queued") =>
    /\ \A p \in Pids : setCall[p] \in SetRunning \/ hotCall[p] = "animate" => settings = UserOf[p]
    /\ ~Locked => settings = user

\* What a client was told, from the first part of its registration on.
Leaving(s) == s \notin screens \/ event[s] = "disconnecting"
ToldRow(p) ==
  /\ setCall[p] \in {"none", "queued"} => told[p] = {}
  /\ \A s \in Virtual :
       /\ Alive(p) /\ s \in told[p] /\ Leaving(s)
       /\ Registered(p) \/ setCall[p] \in {"deal", "tell", "node"}
       => <<p, s>> \in raced
  /\ \A s \in screens :
       /\ Alive(p) /\ event[s] = "none" /\ s \notin told[p]
       /\ setCall[p] \in Entered \cup {"node"}
       => <<p, s>> \in away
ToldAgrees ==
  /\ \A s \in RealScreens \cup Virtual : event[s] # "none" => s \in screens
  /\ \A p \in Pids : ToldRow(p)

\* The death of a client, as long as nobody has handled it.
Unhandled(p) == death[p] = "fired" \/ ~watched[p] \/ p \in late
DeathSeen(p) ==
  /\ death[p] # "none" => watched[p]
  /\ watched[p] => setCall[p] = "done"
  /\ watched[p] /\ life[p] = "alive" => death[p] = "none"
  /\ hotCall[p] = "queued" => life[p] = "alive" \/ p \in late
  /\ hotCall[p] = "animate" => life[p] = "alive" \/ Unhandled(p)
DeathsSeen ==
  /\ \A p \in Pids : DeathSeen(p)
  /\ ~Locked /\ proxy # NoPid /\ life[proxy] = "dead" => Unhandled(proxy) \/ pid # proxy

-----------------------------------------------------------------------------
\* What a step of a process does to the calls: it enters the mutex only if that
\* is free.
LEMMA CallEffect ==
  ASSUME ProcsOK, NEW p \in Pids, ProcStep(p)
  PROVE  \/ UNCHANGED <<setCall, hotCall>>
         \/ /\ UNCHANGED hotCall
            /\ \E v \in SetCalls : /\ setCall' = [setCall EXCEPT ![p] = v]
                                   /\ v \in SetRunning => setCall[p] \in SetRunning \/ ~Locked
         \/ /\ UNCHANGED setCall
            /\ \E v \in HotCalls : /\ hotCall' = [hotCall EXCEPT ![p] = v]
                                   /\ v = "animate" => ~Locked
  BY DEF ProcStep, Start, Die, SwitchUser, Switching, Death, SetClientBegin,
     SetClientDeal, SetClientTell, SetClientNode, SetClientFinish, SwitchUserNode,
     SwitchUserFinish, AnimateFinish, AddScbClientDeathRecipient, DeathDropsClient,
     DeathForgetsPid, WaitOrFinish, SetCalls, HotCalls, SetRunning

LEMMA NotStartedStep ==
  ASSUME ProcsOK, NotStarted, Next
  PROVE  NotStarted'
<1> USE DEF ProcsOK, NotStarted
<1>1. ASSUME NEW p \in Pids, ProcStep(p) PROVE NotStarted'
  <2>1. \A q \in Pids \ {p} : /\ life'[q] = life[q] /\ setCall'[q] = setCall[q]
                              /\ hotCall'[q] = hotCall[q]
    BY <1>1 DEF ProcStep, Start, Die, SwitchUser, Switching, Death, SetClientBegin,
       SetClientDeal, SetClientTell, SetClientNode, SetClientFinish, SwitchUserNode,
       SwitchUserFinish, AnimateFinish, AddScbClientDeathRecipient, DeathDropsClient,
       DeathForgetsPid, procVars, WaitOrFinish
  <2>2. \A q \in Pids \ {p} : watched'[q] = watched[q] /\ death'[q] = death[q]
    BY <1>1 DEF ProcStep, Start, Die, SwitchUser, Switching, Death, SetClientBegin,
       SetClientDeal, SetClientTell, SetClientNode, SetClientFinish, SwitchUserNode,
       SwitchUserFinish, AnimateFinish, AddScbClientDeathRecipient, DeathDropsClient,
       DeathForgetsPid, procVars
  <2>3. life'[p] # "unborn"
    BY <1>1 DEF ProcStep, Start, Die, SwitchUser, Switching, Death, SetClientBegin,
       SetClientDeal, SetClientTell, SetClientNode, SetClientFinish, SwitchUserNode,
       SwitchUserFinish, AnimateFinish, AddScbClientDeathRecipient, DeathDropsClient,
       DeathForgetsPid, procVars
  <2> QED
    BY <2>1, <2>2, <2>3
<1>2. ASSUME OtherStep \/ \E s \in RealScreens \cup Virtual : ScreenStep(s)
      PROVE  UNCHANGED <<life, setCall, hotCall, watched, death>>
  BY <1>2 DEF OtherStep, ScreenStep, NotifySwitchUserAnimationFinish, RunCallbackTask, Connect,
     Disconnect, ScreenEvent, ConnectTold, DisconnectErases, procVars
<1> QED
  BY <1>1, <1>2 DEF Next, ProcStep, ScreenStep, OtherStep

LEMMA MutexStep ==
  ASSUME ProcsOK, Mutex, Next
  PROVE  Mutex'
<1> USE DEF ProcsOK, Mutex
<1>1. ASSUME NEW p \in Pids, ProcStep(p) PROVE Mutex'
  <2>1. CASE UNCHANGED <<setCall, hotCall>>
    BY <2>1
  <2>2. CASE /\ UNCHANGED hotCall
             /\ \E v \in SetCalls : /\ setCall' = [setCall EXCEPT ![p] = v]
                                    /\ v \in SetRunning => setCall[p] \in SetRunning \/ ~Locked
    BY <2>2 DEF Locked
  <2>3. CASE /\ UNCHANGED setCall
             /\ \E v \in HotCalls : /\ hotCall' = [hotCall EXCEPT ![p] = v]
                                    /\ v = "animate" => ~Locked
    BY <2>3 DEF Locked
  <2> QED
    BY <1>1, <2>1, <2>2, <2>3, CallEffect
<1>2. ASSUME OtherStep \/ \E s \in RealScreens \cup Virtual : ScreenStep(s)
      PROVE  UNCHANGED <<setCall, hotCall>>
  BY <1>2 DEF OtherStep, ScreenStep, NotifySwitchUserAnimationFinish, RunCallbackTask, Connect,
     Disconnect, ScreenEvent, ConnectTold, DisconnectErases
<1> QED
  BY <1>1, <1>2 DEF Next, ProcStep, ScreenStep, OtherStep

LEMMA NoticesStep ==
  ASSUME ProcsOK, AnimationOK, NotStarted, Mutex, NoticesInTime, Next
  PROVE  NoticesInTime'
<1> USE DEF ProcsOK, AnimationOK, NoticesInTime
<1>1. ASSUME NEW p \in Pids, SetClientNode(p) \/ SwitchUserNode(p) PROVE NoticesInTime'
  <2>1. ~Animating
    BY <1>1 DEF SetClientNode, SwitchUserNode, Mutex, Animating, Locked, SetRunning
  <2>2. UNCHANGED <<flag, owed, timedOut, early>>
    BY <1>1 DEF SetClientNode, SwitchUserNode
  <2>3. UNCHANGED own \/ Animating'
    BY <1>1 DEF SetClientNode, SwitchUserNode, WaitOrFinish, Animating
  <2> QED
    BY <2>1, <2>2, <2>3
<1>2. ASSUME NEW p \in Pids, SetClientFinish(p) \/ SwitchUserFinish(p) PROVE NoticesInTime'
  <2>1. EndWait
    BY <1>2 DEF SetClientFinish, SwitchUserFinish, AnimateFinish
  <2> QED
    BY <2>1 DEF EndWait
<1>3. ASSUME NEW p \in Pids, ProcStep(p),
             ~(SetClientNode(p) \/ SwitchUserNode(p)), ~(SetClientFinish(p) \/ SwitchUserFinish(p))
      PROVE  NoticesInTime'
  <2>1. UNCHANGED <<flag, own, owed, timedOut, early>>
    BY <1>3 DEF ProcStep, Start, Die, SwitchUser, Switching, Death, SetClientBegin,
       SetClientDeal, SetClientTell, AddScbClientDeathRecipient, DeathDropsClient,
       DeathForgetsPid, animVars
  <2>2. \/ UNCHANGED <<setCall, hotCall>>
        \/ UNCHANGED hotCall /\ \E v : setCall[p] # "animate" /\ setCall' = [setCall EXCEPT ![p] = v]
        \/ UNCHANGED setCall /\ \E v : hotCall[p] # "animate" /\ hotCall' = [hotCall EXCEPT ![p] = v]
    BY <1>3 DEF ProcStep, Start, Die, SwitchUser, Switching, Death, SetClientBegin,
       SetClientDeal, SetClientTell, AddScbClientDeathRecipient, DeathDropsClient,
       DeathForgetsPid, NotStarted
  <2>3. Animating => Animating'
    BY <2>2 DEF Animating
  <2> QED
    BY <2>1, <2>3
<1>4. ASSUME NotifySwitchUserAnimationFinish PROVE NoticesInTime'
  <2>1. ~timedOut => owed = 0
    OBVIOUS
  <2>2. ~timedOut => own /\ own' = FALSE /\ owed' = owed
    BY <1>4, <2>1 DEF NotifySwitchUserAnimationFinish
  <2>3. UNCHANGED <<timedOut, early, setCall, hotCall>>
    BY <1>4 DEF NotifySwitchUserAnimationFinish
  <2> QED
    BY <2>2, <2>3 DEF Animating
<1>5. ASSUME \/ \E t \in tasks : RunCallbackTask(t)
             \/ \E s \in RealScreens \cup Virtual : ScreenStep(s)
      PROVE  NoticesInTime'
  <2>1. UNCHANGED <<flag, own, owed, timedOut, early, setCall, hotCall>>
    BY <1>5 DEF ScreenStep, RunCallbackTask, Connect, Disconnect, ScreenEvent, ConnectTold,
       DisconnectErases, animVars
  <2> QED
    BY <2>1 DEF Animating
<1> QED
  BY <1>1, <1>2, <1>3, <1>4, <1>5 DEF Next, ProcStep, ScreenStep

\* A step of a process that neither takes nor leaves the mutex.
QuietCalls(p) ==
  \/ UNCHANGED <<setCall, hotCall>>
  \/ UNCHANGED hotCall /\ setCall[p] = "none" /\ setCall' = [setCall EXCEPT ![p] = "queued"]
  \/ UNCHANGED hotCall /\ setCall[p] = "deal" /\ setCall' = [setCall EXCEPT ![p] = "tell"]
  \/ UNCHANGED hotCall /\ setCall[p] = "tell" /\ setCall' = [setCall EXCEPT ![p] = "node"]
  \/ UNCHANGED hotCall /\ setCall[p] = "watch" /\ setCall' = [setCall EXCEPT ![p] = "done"]
  \/ UNCHANGED setCall /\ hotCall[p] = "none" /\ hotCall' = [hotCall EXCEPT ![p] = "queued"]

LEMMA QuietStep ==
  ASSUME ProcsOK, NotStarted, NEW p \in Pids, ProcStep(p),
         ~SetClientBegin(p), ~SetClientNode(p), ~SwitchUserNode(p),
         ~SetClientFinish(p), ~SwitchUserFinish(p)
  PROVE  /\ QuietCalls(p)
         /\ UNCHANGED <<clientMap, user, pid>>
         /\ \/ UNCHANGED <<proxy, settings, crossed>>
            \/ /\ DeathDropsClient(p) /\ ~Locked
               /\ UNCHANGED <<setCall, hotCall, settings, crossed>>
            \/ SwitchUser(p) /\ UNCHANGED <<proxy, crossed>>
<1>1. QuietCalls(p)
  BY DEF ProcStep, Start, Die, SwitchUser, Switching, Death, SetClientBegin,
     SetClientDeal, SetClientTell, AddScbClientDeathRecipient, DeathDropsClient,
     DeathForgetsPid, QuietCalls, NotStarted
<1>2. UNCHANGED <<clientMap, user, pid>>
  BY DEF ProcStep, Start, Die, SwitchUser, Switching, Death, SetClientBegin,
     SetClientDeal, SetClientTell, AddScbClientDeathRecipient, DeathDropsClient,
     DeathForgetsPid, switchVars
<1>3. \/ UNCHANGED <<proxy, settings, crossed>>
      \/ /\ DeathDropsClient(p) /\ ~Locked
         /\ UNCHANGED <<setCall, hotCall, settings, crossed>>
      \/ SwitchUser(p) /\ UNCHANGED <<proxy, crossed>>
  BY DEF ProcStep, Start, Die, SwitchUser, Switching, Death, SetClientBegin,
     SetClientDeal, SetClientTell, AddScbClientDeathRecipient, DeathDropsClient,
     DeathForgetsPid, switchVars
<1> QED
  BY <1>1, <1>2, <1>3

\* Nor do the steps of screens, of notices and of tasks.
LEMMA OutsideStep ==
  ASSUME OtherStep \/ \E s \in RealScreens \cup Virtual : ScreenStep(s)
  PROVE  /\ UNCHANGED <<life, setCall, hotCall, watched, death, late>>
         /\ UNCHANGED <<proxy, clientMap, user, pid, settings, crossed>>
  BY DEF OtherStep, ScreenStep, NotifySwitchUserAnimationFinish, RunCallbackTask, Connect,
     Disconnect, ScreenEvent, ConnectTold, DisconnectErases, procVars, switchVars

LEMMA ClientStep ==
  ASSUME ProcsOK, ClientsOK, NotStarted, Mutex, ClientAgrees, Next
  PROVE  ClientAgrees'
<1> USE UserSwitchAssumption DEF ProcsOK, ClientsOK, Mutex, ClientAgrees
<1>1. ASSUME NEW p \in Pids, SetClientBegin(p) PROVE ClientAgrees'
  <2>1. /\ setCall[p] = "queued" /\ setCall' = [setCall EXCEPT ![p] = "deal"]
        /\ proxy' = p /\ UNCHANGED <<hotCall, clientMap, user>>
        /\ \A q \in Pids : setCall[q] \notin SetRunning /\ hotCall[q] # "animate"
    BY <1>1 DEF SetClientBegin, Locked
  <2>2. Locked'
    BY <2>1 DEF Locked, SetRunning
  <2>3. ClientAgrees!1'
    BY <2>1 DEF Entered
  <2>4. ClientAgrees!2' /\ ClientAgrees!3' /\ ClientAgrees!5'
    BY <2>1
  <2> QED
    BY <2>2, <2>3, <2>4
<1>2. ASSUME NEW p \in Pids, SetClientNode(p) PROVE ClientAgrees'
  <2>1. /\ setCall[p] = "node" /\ proxy = p /\ UNCHANGED <<proxy, hotCall>>
        /\ clientMap' = [clientMap EXCEPT ![UserOf[p]] = p]
        /\ \/ user' = UserOf[p] /\ setCall' = [setCall EXCEPT ![p] = "watch"]
           \/ setCall' = [setCall EXCEPT ![p] = "animate"]
    BY <1>2 DEF SetClientNode, WaitOrFinish, Finish, SetRunning
  <2>2. \A q \in Pids : hotCall[q] # "animate"
    BY <2>1 DEF SetRunning
  <2>3. ClientAgrees!1'
    BY <2>1 DEF Entered
  <2>4. ClientAgrees!2' /\ ClientAgrees!3' /\ ClientAgrees!5'
    BY <2>1, <2>2 DEF SetRunning
  <2>5. ClientAgrees!4'
    BY <2>1 DEF Locked, SetRunning
  <2> QED
    BY <2>3, <2>4, <2>5
<1>3. ASSUME NEW p \in Pids, SetClientFinish(p) PROVE ClientAgrees'
  <2>1. /\ setCall[p] = "animate" /\ setCall' = [setCall EXCEPT ![p] = "watch"]
        /\ proxy = p /\ UNCHANGED <<proxy, clientMap, hotCall>> /\ user' = UserOf[p]
    BY <1>3 DEF SetClientFinish, AnimateFinish, Finish, SetRunning
  <2>2. \A q \in Pids : hotCall[q] # "animate"
    BY <2>1 DEF SetRunning
  <2> QED
    BY <2>1, <2>2 DEF Entered, SetRunning
<1>4. ASSUME NEW p \in Pids, SwitchUserFinish(p) PROVE ClientAgrees'
  <2>1. /\ hotCall[p] = "animate" /\ hotCall' = [hotCall EXCEPT ![p] = "none"]
        /\ UNCHANGED <<proxy, clientMap, setCall>> /\ user' = UserOf[p]
    BY <1>4 DEF SwitchUserFinish, AnimateFinish, Finish
  <2> QED
    BY <2>1
<1>5. ASSUME NEW p \in Pids, SwitchUserNode(p) PROVE ClientAgrees'
  <2>1. /\ \A q \in Pids : setCall[q] \notin SetRunning /\ hotCall[q] # "animate"
        /\ ~Locked /\ UNCHANGED <<setCall, clientMap>>
    BY <1>5 DEF SwitchUserNode, Locked
  <2>2. CASE proxy = NoPid
    BY <1>5, <2>1, <2>2 DEF SwitchUserNode
  <2>3. CASE proxy # NoPid /\ user = UserOf[p]
    <3>1. UNCHANGED <<proxy, user>> /\ hotCall' = [hotCall EXCEPT ![p] = "none"]
      BY <1>5, <2>3 DEF SwitchUserNode, HotSwitch, WaitOrFinish, Finish
    <3> QED
      BY <2>1, <3>1
  <2>4. CASE proxy # NoPid /\ user # UserOf[p]
    <3>1. hotCall' = [hotCall EXCEPT ![p] = "animate"]
      BY <1>5, <2>4 DEF SwitchUserNode, WaitOrFinish
    <3>2. proxy' = IF clientMap[UserOf[p]] = NoPid THEN proxy ELSE clientMap[UserOf[p]]
      BY <1>5, <2>4 DEF SwitchUserNode, HotSwitch
    <3>3. Locked'
      BY <3>1 DEF Locked
    <3> QED
      BY <2>1, <2>4, <3>1, <3>2, <3>3 DEF Entered
  <2> QED
    BY <2>2, <2>3, <2>4
<1>6. ASSUME NEW p \in Pids, ProcStep(p),
             ~SetClientBegin(p), ~SetClientNode(p), ~SwitchUserNode(p),
             ~SetClientFinish(p), ~SwitchUserFinish(p)
      PROVE  ClientAgrees'
  <2>1. /\ QuietCalls(p)
        /\ UNCHANGED <<clientMap, user>>
        /\ \/ UNCHANGED proxy
           \/ ~Locked /\ UNCHANGED <<setCall, hotCall>> /\ proxy' \in {proxy, NoPid}
    BY <1>6, QuietStep DEF DeathDropsClient
  <2>2. ~Locked' => ~Locked
    BY <2>1 DEF QuietCalls, Locked, SetRunning
  <2>3. ClientAgrees!1'
    BY <2>1 DEF QuietCalls, Entered
  <2>4. ClientAgrees!2'
    BY <2>1 DEF QuietCalls, SetRunning, Locked
  <2>5. ClientAgrees!3'
    BY <2>1 DEF QuietCalls, Locked
  <2>6. ClientAgrees!4'
    BY <2>1, <2>2
  <2>7. ClientAgrees!5'
    BY <2>1 DEF QuietCalls
  <2> QED
    BY <2>3, <2>4, <2>5, <2>6, <2>7
<1>7. ASSUME OtherStep \/ \E s \in RealScreens \cup Virtual : ScreenStep(s)
      PROVE  ClientAgrees'
  BY <1>7, OutsideStep DEF Locked
<1> QED
  BY <1>1, <1>2, <1>3, <1>4, <1>5, <1>6, <1>7 DEF Next, ProcStep, ScreenStep, OtherStep

LEMMA KeptStep ==
  ASSUME ProcsOK, ClientsOK, NotStarted, Mutex, ClientAgrees, ClientKept, DeathsSeen, Next
  PROVE  ClientKept'
<1> USE UserSwitchAssumption DEF ProcsOK, ClientsOK, Mutex, ClientAgrees, ClientKept
<1>1. ASSUME NEW p \in Pids, SetClientBegin(p) PROVE ClientKept'
  <2>1. /\ setCall[p] = "queued" /\ setCall' = [setCall EXCEPT ![p] = "deal"]
        /\ UNCHANGED <<hotCall, clientMap, user, pid, life>>
        /\ \A q \in Pids : hotCall[q] # "animate"
    BY <1>1 DEF SetClientBegin, Locked, procVars
  <2>2. Locked'
    BY <2>1 DEF Locked, SetRunning
  <2> QED
    BY <2>1, <2>2
<1>2. ASSUME NEW p \in Pids, SetClientNode(p) PROVE ClientKept'
  <2>1. /\ setCall[p] = "node" /\ proxy = p /\ UNCHANGED <<proxy, hotCall, life>>
        /\ clientMap' = [clientMap EXCEPT ![UserOf[p]] = p]
        /\ \/ /\ user' = UserOf[p] /\ pid' = p
              /\ setCall' = [setCall EXCEPT ![p] = "watch"]
           \/ UNCHANGED <<user, pid>> /\ setCall' = [setCall EXCEPT ![p] = "animate"]
    BY <1>2 DEF SetClientNode, WaitOrFinish, Finish, SetRunning, procVars
  <2>2. \A q \in Pids : hotCall[q] # "animate" /\ (q # p => setCall[q] \notin SetRunning)
    BY <2>1 DEF SetRunning
  <2>3. life[p] # "unborn"
    BY <2>1 DEF NotStarted
  <2>4. CASE user' = UserOf[p] /\ pid' = p /\ setCall' = [setCall EXCEPT ![p] = "watch"]
    BY <2>1, <2>2, <2>3, <2>4 DEF SetRunning
  <2>5. CASE UNCHANGED <<user, pid>> /\ setCall' = [setCall EXCEPT ![p] = "animate"]
    <3>1. Locked'
      BY <2>5 DEF Locked, SetRunning
    <3> QED
      BY <2>1, <2>2, <2>5, <3>1 DEF SetRunning
  <2> QED
    BY <2>1, <2>4, <2>5
<1>3. ASSUME NEW p \in Pids, SetClientFinish(p) PROVE ClientKept'
  <2>1. /\ setCall[p] = "animate" /\ setCall' = [setCall EXCEPT ![p] = "watch"]
        /\ proxy = p /\ UNCHANGED <<proxy, clientMap, hotCall, life>>
        /\ user' = UserOf[p] /\ pid' = p
    BY <1>3 DEF SetClientFinish, AnimateFinish, Finish, SetRunning, procVars
  <2>2. life[p] # "unborn" /\ \A q \in Pids : hotCall[q] # "animate"
    BY <2>1 DEF SetRunning, NotStarted
  <2> QED
    BY <2>1, <2>2
<1>4. ASSUME NEW p \in Pids, SwitchUserFinish(p) PROVE ClientKept'
  <2>1. /\ hotCall[p] = "animate" /\ hotCall' = [hotCall EXCEPT ![p] = "none"]
        /\ UNCHANGED <<proxy, clientMap, setCall, life>> /\ user' = UserOf[p] /\ pid' = p
    BY <1>4 DEF SwitchUserFinish, AnimateFinish, Finish, procVars
  <2>2. life[p] # "unborn" /\ proxy # NoPid
    BY <2>1 DEF NotStarted
  <2> QED
    BY <2>1, <2>2
<1>5. ASSUME NEW p \in Pids, SwitchUserNode(p) PROVE ClientKept'
  <2>1. /\ ~Locked /\ UNCHANGED <<setCall, clientMap, life>> /\ life[p] # "unborn"
        /\ \A q \in Pids : setCall[q] \notin SetRunning /\ hotCall[q] # "animate"
    BY <1>5 DEF SwitchUserNode, Locked, procVars, NotStarted
  <2>2. CASE proxy = NoPid
    <3>1. UNCHANGED <<proxy, user, pid>> /\ hotCall' = [hotCall EXCEPT ![p] = "none"]
      BY <1>5, <2>2 DEF SwitchUserNode
    <3> QED
      BY <2>1, <2>2, <3>1 DEF Alive
  <2>3. CASE proxy # NoPid /\ user = UserOf[p]
    <3>1. UNCHANGED <<proxy, user>> /\ pid' = p /\ hotCall' = [hotCall EXCEPT ![p] = "none"]
      BY <1>5, <2>3 DEF SwitchUserNode, HotSwitch, WaitOrFinish, Finish
    <3> QED
      BY <2>1, <2>3, <3>1
  <2>4. CASE proxy # NoPid /\ user # UserOf[p]
    <3>1. hotCall' = [hotCall EXCEPT ![p] = "animate"] /\ UNCHANGED <<user, pid>>
      BY <1>5, <2>4 DEF SwitchUserNode, WaitOrFinish
    <3>2. proxy' = IF clientMap[UserOf[p]] = NoPid THEN proxy ELSE clientMap[UserOf[p]]
      BY <1>5, <2>4 DEF SwitchUserNode, HotSwitch
    <3>3. Locked'
      BY <3>1 DEF Locked
    <3> QED
      BY <2>1, <2>4, <3>1, <3>2, <3>3 DEF SetRunning
  <2> QED
    BY <2>2, <2>3, <2>4
<1>6. ASSUME NEW p \in Pids, ProcStep(p),
             ~SetClientBegin(p), ~SetClientNode(p), ~SwitchUserNode(p),
             ~SetClientFinish(p), ~SwitchUserFinish(p)
      PROVE  ClientKept'
  <2>1. /\ QuietCalls(p)
        /\ UNCHANGED <<clientMap, user, pid>>
        /\ \/ UNCHANGED proxy
           \/ /\ DeathDropsClient(p) /\ ~Locked /\ UNCHANGED <<setCall, hotCall, life>>
              /\ proxy' = IF IsCurrentPid(p) THEN NoPid ELSE proxy
    BY <1>6, QuietStep DEF DeathDropsClient, procVars
  <2>2. /\ ~Locked' => ~Locked
        /\ \A q \in Pids : /\ setCall'[q] = "animate" => setCall[q] = "animate"
                           /\ hotCall'[q] = "animate" => hotCall[q] = "animate"
    BY <2>1 DEF QuietCalls, Locked, SetRunning
  <2>3. \A q \in Pids : /\ life[q] # "unborn" => life'[q] # "unborn"
                        /\ life'[q] = "alive" /\ life[q] # "unborn" => life[q] = "alive"
    BY <1>6 DEF ProcStep, Start, Die, SwitchUser, Switching, Death, SetClientDeal, SetClientTell,
       AddScbClientDeathRecipient, DeathDropsClient, DeathForgetsPid, procVars
  <2>4. ClientKept!1' /\ ClientKept!2'
    BY <2>1, <2>2, <2>3
  <2>5. Alive(pid)' => Alive(pid)
    BY <2>1, <2>3 DEF Alive
  <2>6. CASE UNCHANGED proxy
    BY <2>1, <2>2, <2>4, <2>5, <2>6
  <2>7. CASE DeathDropsClient(p) /\ ~Locked /\ UNCHANGED <<setCall, hotCall, life>>
             /\ proxy' = IF IsCurrentPid(p) THEN NoPid ELSE proxy
    <3>1. life[p] # "alive"
      BY <2>7 DEF DeathDropsClient, DeathsSeen, DeathSeen
    <3>2. \A q \in Pids : hotCall[q] # "animate"
      BY <2>7 DEF Locked
    <3>3. IsCurrentPid(p) => ~Alive(pid)
      BY <3>1 DEF IsCurrentPid, Alive
    <3> QED
      BY <2>1, <2>2, <2>4, <2>5, <2>7, <3>2, <3>3
  <2> QED
    BY <2>1, <2>6, <2>7
<1>7. ASSUME OtherStep \/ \E s \in RealScreens \cup Virtual : ScreenStep(s)
      PROVE  ClientKept'
  BY <1>7, OutsideStep DEF Locked, Alive
<1> QED
  BY <1>1, <1>2, <1>3, <1>4, <1>5, <1>6, <1>7 DEF Next, ProcStep, ScreenStep, OtherStep

LEMMA SettingsStep ==
  ASSUME ProcsOK, NotStarted, Mutex, SettingsAgree, Next
  PROVE  SettingsAgree'
<1> USE DEF ProcsOK, Mutex, SettingsAgree
<1>1. ASSUME NEW p \in Pids, SetClientBegin(p) PROVE SettingsAgree'
  BY <1>1 DEF SetClientBegin, SettingsFollow, Locked, SetRunning
<1>2. ASSUME NEW p \in Pids, SetClientNode(p) PROVE SettingsAgree'
  <2>1. /\ setCall[p] = "node" /\ UNCHANGED <<hotCall, settings, crossed>>
        /\ \/ user' = UserOf[p] /\ setCall' = [setCall EXCEPT ![p] = "watch"]
           \/ setCall' = [setCall EXCEPT ![p] = "animate"]
    BY <1>2 DEF SetClientNode, WaitOrFinish, Finish
  <2>2. setCall'[p] = "animate" => Locked'
    BY <2>1 DEF Locked, SetRunning
  <2> QED
    BY <2>1, <2>2 DEF SetRunning
<1>3. ASSUME NEW p \in Pids, SetClientFinish(p) PROVE SettingsAgree'
  BY <1>3 DEF SetClientFinish, AnimateFinish, Finish, SetRunning
<1>4. ASSUME NEW p \in Pids, SwitchUserFinish(p) PROVE SettingsAgree'
  BY <1>4 DEF SwitchUserFinish, AnimateFinish, Finish
<1>5. ASSUME NEW p \in Pids, SwitchUserNode(p) PROVE SettingsAgree'
  <2>1. /\ \A q \in Pids : setCall[q] \notin SetRunning /\ hotCall[q] # "animate"
        /\ UNCHANGED <<setCall, settings>>
        /\ ~crossed' => settings = UserOf[p] /\ proxy # NoPid
    BY <1>5 DEF SwitchUserNode, Locked
  <2>2. CASE crossed'
    BY <2>2
  <2>3. CASE ~crossed' /\ user = UserOf[p]
    <3>1. UNCHANGED user /\ hotCall' = [hotCall EXCEPT ![p] = "none"]
      BY <1>5, <2>1, <2>3 DEF SwitchUserNode, WaitOrFinish, Finish
    <3> QED
      BY <2>1, <2>3, <3>1
  <2>4. CASE ~crossed' /\ user # UserOf[p]
    <3>1. hotCall' = [hotCall EXCEPT ![p] = "animate"]
      BY <1>5, <2>1, <2>4 DEF SwitchUserNode, WaitOrFinish
    <3>2. Locked'
      BY <3>1 DEF Locked
    <3> QED
      BY <2>1, <2>4, <3>1, <3>2
  <2> QED
    BY <2>2, <2>3, <2>4
<1>6. ASSUME NEW p \in Pids, ProcStep(p),
             ~SetClientBegin(p), ~SetClientNode(p), ~SwitchUserNode(p),
             ~SetClientFinish(p), ~SwitchUserFinish(p)
      PROVE  SettingsAgree'
  <2>1. CASE SwitchUser(p)
    BY <2>1 DEF SwitchUser
  <2>2. CASE ~SwitchUser(p)
    <3>1. QuietCalls(p) /\ UNCHANGED <<user, settings, crossed>>
      BY <1>6, <2>2, QuietStep
    <3>2. ~Locked' => ~Locked
      BY <3>1 DEF QuietCalls, Locked, SetRunning
    <3>3. \A q \in Pids : /\ setCall'[q] \in SetRunning => setCall[q] \in SetRunning
                          /\ hotCall'[q] = "animate" => hotCall[q] = "animate"
                          /\ hotCall[q] = "queued" => hotCall'[q] = "queued"
      BY <3>1 DEF QuietCalls, SetRunning
    <3> QED
      BY <3>1, <3>2, <3>3
  <2> QED
    BY <2>1, <2>2
<1>7. ASSUME OtherStep \/ \E s \in RealScreens \cup Virtual : ScreenStep(s)
      PROVE  SettingsAgree'
  BY <1>7, OutsideStep DEF Locked
<1> QED
  BY <1>1, <1>2, <1>3, <1>4, <1>5, <1>6, <1>7 DEF Next, ProcStep, ScreenStep, OtherStep

\* A step that leaves alone what a client was told and lets its call go on.
LEMMA RowKept ==
  ASSUME NEW q \in Pids, ToldRow(q),
         setCall'[q] \in {"none", "queued"} => setCall[q] \in {"none", "queued"},
         setCall'[q] \in {"deal", "tell", "node"} => setCall[q] \in {"queued", "deal", "tell", "node"},
         setCall'[q] \in Entered \cup {"node"} => setCall[q] \in Entered \cup {"node"},
         Alive(q)' => Alive(q) \/ setCall'[q] = "queued",
         Registered(q)' => Registered(q) \/ setCall[q] = "node",
         UNCHANGED <<screens, event>>, told'[q] = told[q],
         \A s : <<q, s>> \in raced => <<q, s>> \in raced',
         \A s : <<q, s>> \in away => <<q, s>> \in away'
  PROVE  ToldRow(q)'
<1>1. ToldRow(q)!1'
  BY DEF ToldRow
<1>2. ToldRow(q)!2'
  BY DEF ToldRow, Leaving
<1>3. ToldRow(q)!3'
  BY DEF ToldRow, Entered
<1> QED
  BY <1>1, <1>2, <1>3 DEF ToldRow

LEMMA ToldAgreeStep ==
  ASSUME ProcsOK, ClientsOK, NodesOK, ScreensOK, ToldOK, NotStarted, ClientAgrees, ToldAgrees, Next
  PROVE  ToldAgrees'
<1> USE UserSwitchAssumption DEF ProcsOK, ToldAgrees
<1>1. ASSUME NEW p \in Pids, SetClientTell(p) PROVE ToldAgrees'
  <2>1. /\ setCall[p] = "tell" /\ setCall' = [setCall EXCEPT ![p] = "node"]
        /\ TellConnected(p, screens)
        /\ UNCHANGED <<life, clientMap, screens, event, away>>
        /\ raced' = raced \cup {<<p, s>> : s \in {t \in screens : event[t] = "disconnecting"}}
    BY <1>1 DEF SetClientTell, ScreensToTell, procVars, switchVars
  <2>2. \A q \in Pids \ {p} : told'[q] = told[q]
    <3>1. told' = told \/ told' = [told EXCEPT ![p] = told[p] \cup screens]
      BY <2>1 DEF TellConnected
    <3> QED
      BY <3>1 DEF ToldOK
  <2>3. ASSUME NEW q \in Pids \ {p} PROVE ToldRow(q)'
    <3>1. /\ setCall'[q] = setCall[q] /\ told'[q] = told[q]
          /\ Alive(q)' = Alive(q) /\ Registered(q)' = Registered(q)
      BY <2>1, <2>2 DEF Alive, Registered
    <3> QED
      BY <3>1, <2>1, RowKept
  <2>4. ToldRow(p)'
    <3>1. CASE ~Alive(p)
      BY <3>1, <2>1 DEF ToldRow, Alive
    <3>2. CASE Alive(p)
      <4>1. told'[p] = told[p] \cup screens
        BY <3>2, <2>1 DEF TellConnected, ToldOK
      <4>2. ASSUME NEW s \in Virtual, s \in told'[p], Leaving(s)' PROVE <<p, s>> \in raced'
        <5>1. CASE s \in screens
          BY <5>1, <4>2, <2>1 DEF Leaving
        <5>2. CASE s \notin screens
          BY <5>2, <4>1, <4>2, <3>2, <2>1 DEF Leaving, ToldRow
        <5> QED
          BY <5>1, <5>2
      <4> QED
        BY <4>1, <4>2, <2>1 DEF ToldRow
    <3> QED
      BY <3>1, <3>2
  <2> QED
    BY <2>1, <2>3, <2>4
<1>2. ASSUME NEW p \in Pids, Die(p) PROVE ToldAgrees'
  <2>1. /\ told' = [told EXCEPT ![p] = {}] /\ life' = [life EXCEPT ![p] = "dead"]
        /\ UNCHANGED <<setCall, clientMap, screens, event>>
        /\ raced' = {r \in raced : r[1] # p} /\ away' = {r \in away : r[1] # p}
    BY <1>2 DEF Die, switchVars
  <2>2. ASSUME NEW q \in Pids \ {p} PROVE ToldRow(q)'
    <3>1. /\ told'[q] = told[q] /\ Alive(q)' = Alive(q) /\ Registered(q)' = Registered(q)
          /\ \A s : <<q, s>> \in raced => <<q, s>> \in raced'
          /\ \A s : <<q, s>> \in away => <<q, s>> \in away'
      BY <2>1 DEF Alive, Registered, ToldOK
    <3> QED
      BY <3>1, <2>1, RowKept
  <2>3. ToldRow(p)'
    BY <2>1 DEF ToldRow, Alive, ToldOK
  <2> QED
    BY <2>1, <2>2, <2>3
<1>3. ASSUME NEW p \in Pids, ProcStep(p), ~SetClientTell(p), ~Die(p) PROVE ToldAgrees'
  <2>1. /\ UNCHANGED <<told, raced, away, screens, event>>
        /\ life' = life \/ setCall' = [setCall EXCEPT ![p] = "queued"]
    BY <1>3 DEF ProcStep, Start, SwitchUser, Switching, Death, SetClientBegin,
       SetClientDeal, SetClientNode, SetClientFinish, SwitchUserNode, SwitchUserFinish,
       AnimateFinish, AddScbClientDeathRecipient, DeathDropsClient, DeathForgetsPid,
       screenVars, procVars
  <2>2. life' = life \/ life' = [life EXCEPT ![p] = "alive"]
    BY <1>3 DEF ProcStep, Start, SwitchUser, Switching, Death, SetClientBegin,
       SetClientDeal, SetClientNode, SetClientFinish, SwitchUserNode, SwitchUserFinish,
       AnimateFinish, AddScbClientDeathRecipient, DeathDropsClient, DeathForgetsPid, procVars
  <2>3. \/ UNCHANGED setCall
        \/ setCall[p] = "none" /\ setCall' = [setCall EXCEPT ![p] = "queued"]
        \/ setCall[p] = "queued" /\ setCall' = [setCall EXCEPT ![p] = "deal"]
        \/ setCall[p] = "deal" /\ setCall' = [setCall EXCEPT ![p] = "tell"]
        \/ setCall[p] = "node" /\ \E v \in Entered : setCall' = [setCall EXCEPT ![p] = v]
        \/ setCall[p] \in Entered /\ \E v \in Entered : setCall' = [setCall EXCEPT ![p] = v]
    BY <1>3 DEF ProcStep, Start, SwitchUser, Switching, Death, SetClientBegin,
       SetClientDeal, SetClientNode, SetClientFinish, SwitchUserNode, SwitchUserFinish,
       AnimateFinish, AddScbClientDeathRecipient, DeathDropsClient, DeathForgetsPid,
       WaitOrFinish, Entered, NotStarted
  <2>4. \/ UNCHANGED clientMap
        \/ setCall[p] = "node" /\ clientMap' = [clientMap EXCEPT ![UserOf[p]] = p]
    <3>1. \/ UNCHANGED clientMap
          \/ setCall[p] = "node" /\ clientMap' = [clientMap EXCEPT ![UserOf[p]] = proxy]
      BY <1>3 DEF ProcStep, Start, SwitchUser, Switching, Death, SetClientBegin,
         SetClientDeal, SetClientNode, SetClientFinish, SwitchUserNode, SwitchUserFinish,
         AnimateFinish, AddScbClientDeathRecipient, DeathDropsClient, DeathForgetsPid,
         switchVars
    <3>2. setCall[p] = "node" => proxy = p
      BY DEF ClientAgrees, SetRunning
    <3> QED
      BY <3>1, <3>2
  <2>5. ASSUME NEW q \in Pids PROVE ToldRow(q)'
    <3>1. Registered(q)' => Registered(q) \/ setCall[q] = "node"
      BY <2>4 DEF Registered, ClientsOK
    <3>2. Alive(q)' => Alive(q) \/ setCall'[q] = "queued"
      BY <2>1, <2>2 DEF Alive
    <3>3. /\ setCall'[q] \in {"none", "queued"} => setCall[q] \in {"none", "queued"}
          /\ setCall'[q] \in {"deal", "tell", "node"} => setCall[q] \in {"queued", "deal", "tell", "node"}
          /\ setCall'[q] \in Entered \cup {"node"} => setCall[q] \in Entered \cup {"node"}
      BY <2>3 DEF Entered
    <3> QED
      BY <2>1, <3>1, <3>2, <3>3, RowKept
  <2> QED
    BY <2>1, <2>5
<1>4. ASSUME NEW s \in RealScreens \cup Virtual, ConnectTold(s) PROVE ToldAgrees'
  <2>1. /\ event[s] = "connecting" /\ event' = [event EXCEPT ![s] = "none"]
        /\ s \in screens
        /\ TellConnected(proxy, {s})
        /\ away' = away \cup {<<p, s>> : p \in {q \in Pids \ {proxy} : life[q] # "unborn"}}
        /\ UNCHANGED <<life, setCall, clientMap, screens, raced>>
    BY <1>4 DEF ConnectTold, procVars, switchVars
  <2>2. ASSUME NEW p \in Pids PROVE ToldRow(p)'
    <3>1. /\ Alive(p)' = Alive(p) /\ Registered(p)' = Registered(p)
          /\ \A t : Leaving(t)' => Leaving(t) /\ t # s
      BY <2>1 DEF Alive, Registered, Leaving, ScreensOK
    <3>2. \/ told'[p] = told[p]
          \/ p = proxy /\ Alive(p) /\ told'[p] = told[p] \cup {s}
      <4>1. \/ told' = told
            \/ Alive(proxy) /\ told' = [told EXCEPT ![proxy] = told[proxy] \cup {s}]
        BY <2>1 DEF TellConnected
      <4> QED
        BY <4>1 DEF ToldOK
    <3>3. ToldRow(p)!1'
      BY <2>1, <3>2 DEF ToldRow, ClientAgrees
    <3>4. ToldRow(p)!2'
      BY <2>1, <3>1, <3>2 DEF ToldRow
    <3>5. Alive(p) => s \in told'[p] \/ <<p, s>> \in away'
      BY <2>1 DEF TellConnected, ToldOK, Alive
    <3>6. ToldRow(p)!3'
      BY <2>1, <3>1, <3>2, <3>5 DEF ToldRow, ScreensOK
    <3> QED
      BY <3>3, <3>4, <3>6 DEF ToldRow
  <2> QED
    BY <2>1, <2>2
<1>5. ASSUME NEW s \in RealScreens \cup Virtual, Disconnect(s) PROVE ToldAgrees'
  <2>1. /\ s \in screens /\ event[s] = "none"
        /\ event' = [event EXCEPT ![s] = "disconnecting"]
        /\ told' = [p \in Pids |-> IF p \in DisconnectHearers(s) THEN told[p] \ {s} ELSE told[p]]
        /\ raced' = raced \cup {<<p, s>> : p \in {q \in Pids : setCall[q] \in {"deal", "tell", "node"}}}
        /\ UNCHANGED <<life, setCall, clientMap, screens, away>>
    BY <1>5 DEF Disconnect, procVars, switchVars
  <2>2. ASSUME NEW p \in Pids PROVE ToldRow(p)'
    <3>1. Alive(p)' = Alive(p) /\ Registered(p)' = Registered(p)
      BY <2>1 DEF Alive, Registered
    <3>2. told'[p] \in {told[p], told[p] \ {s}}
      BY <2>1
    <3>3. s \in Virtual /\ s \in told'[p] /\ Alive(p) => ~Registered(p)
      BY <2>1 DEF DisconnectHearers, Registered
    <3>4. ASSUME NEW t \in Virtual, Alive(p), t \in told'[p], Leaving(t)',
                 Registered(p) \/ setCall[p] \in {"deal", "tell", "node"}
          PROVE  <<p, t>> \in raced'
      <4>1. CASE t = s
        BY <4>1, <3>3, <3>4, <2>1
      <4>2. CASE t # s
        BY <4>2, <3>2, <3>4, <2>1 DEF ToldRow, Leaving, ScreensOK
      <4> QED
        BY <4>1, <4>2
    <3>5. ASSUME NEW t \in screens, Alive(p), event'[t] = "none", t \notin told'[p],
                 setCall[p] \in Entered \cup {"node"}
          PROVE  <<p, t>> \in away
      BY <3>2, <3>5, <2>1 DEF ToldRow, ScreensOK
    <3> QED
      BY <3>1, <3>2, <3>4, <3>5, <2>1 DEF ToldRow
  <2> QED
    BY <2>1, <2>2
<1>6. ASSUME NEW s \in RealScreens \cup Virtual, Connect(s) \/ DisconnectErases(s)
      PROVE  ToldAgrees'
  <2>1. /\ UNCHANGED <<life, setCall, clientMap, told, raced, away>>
        /\ \/ /\ s \notin screens /\ screens' = screens \cup {s}
              /\ event' = [event EXCEPT ![s] = "connecting"]
           \/ /\ event[s] = "disconnecting" /\ screens' = screens \ {s}
              /\ event' = [event EXCEPT ![s] = "none"]
    BY <1>6 DEF Connect, DisconnectErases, procVars, switchVars
  <2>2. \A t \in RealScreens \cup Virtual : event'[t] # "none" => t \in screens'
    BY <2>1 DEF ScreensOK
  <2>3. \A t \in RealScreens \cup Virtual : Leaving(t)' => Leaving(t)
    BY <2>1 DEF Leaving, ScreensOK
  <2>4. \A t \in screens' : event'[t] = "none" => t \in screens /\ event[t] = "none"
    BY <2>1 DEF ScreensOK
  <2>5. ASSUME NEW p \in Pids PROVE ToldRow(p)'
    <3>1. Alive(p)' = Alive(p) /\ Registered(p)' = Registered(p)
      BY <2>1 DEF Alive, Registered
    <3> QED
      BY <3>1, <2>1, <2>3, <2>4 DEF ToldRow
  <2> QED
    BY <2>2, <2>5
<1>7. ASSUME OtherStep PROVE ToldAgrees'
  <2>1. UNCHANGED <<life, setCall, clientMap, screens, event, told, raced, away>>
    BY <1>7 DEF OtherStep, NotifySwitchUserAnimationFinish, RunCallbackTask, procVars,
       switchVars, screenVars
  <2> QED
    BY <2>1 DEF ToldRow, Alive, Registered, Leaving
<1> QED
  BY <1>1, <1>2, <1>3, <1>4, <1>5, <1>6, <1>7 DEF Next, ProcStep, ScreenStep, ScreenEvent, OtherStep

LEMMA DeathsStep ==
  ASSUME ProcsOK, ClientsOK, NotStarted, ClientAgrees, DeathsSeen, Next
  PROVE  DeathsSeen'
<1> USE UserSwitchAssumption DEF ProcsOK
<1> DEFINE Rows == \A q \in Pids : DeathSeen(q)
           Last == ~Locked /\ proxy # NoPid /\ life[proxy] = "dead" => Unhandled(proxy) \/ pid # proxy
<1>1. ASSUME NEW p \in Pids, Start(p) PROVE DeathsSeen'
  <2>1. /\ life[p] = "unborn" /\ life' = [life EXCEPT ![p] = "alive"]
        /\ setCall' = [setCall EXCEPT ![p] = "queued"]
        /\ UNCHANGED <<hotCall, watched, death, late, proxy, pid>>
    BY <1>1 DEF Start, switchVars
  <2>2. Rows'
    BY <2>1 DEF DeathsSeen, DeathSeen, Unhandled, NotStarted
  <2>3. Locked' = Locked
    BY <2>1 DEF Locked, SetRunning, NotStarted
  <2>4. Last'
    BY <2>1, <2>3 DEF DeathsSeen, Unhandled
  <2> QED
    BY <2>2, <2>4 DEF DeathsSeen
<1>2. ASSUME NEW p \in Pids, Die(p) PROVE DeathsSeen'
  <2>1. /\ life' = [life EXCEPT ![p] = "dead"]
        /\ death' = [death EXCEPT ![p] = IF watched[p] THEN "fired" ELSE death[p]]
        /\ late' = IF hotCall[p] = "queued" THEN late \cup {p} ELSE late
        /\ UNCHANGED <<setCall, hotCall, watched, proxy, pid>>
    BY <1>2 DEF Die, switchVars
  <2>2. Unhandled(p)' /\ \A q \in Pids : Unhandled(q) => Unhandled(q)'
    BY <2>1 DEF Unhandled
  <2>3. Rows'
    BY <2>1, <2>2 DEF DeathsSeen, DeathSeen
  <2>4. Last'
    BY <2>1, <2>2 DEF DeathsSeen, Locked, ClientAgrees, Unhandled
  <2> QED
    BY <2>3, <2>4 DEF DeathsSeen
<1>3. ASSUME NEW p \in Pids, SwitchUser(p) PROVE DeathsSeen'
  <2>1. /\ life[p] = "alive" /\ hotCall[p] = "none"
        /\ hotCall' = [hotCall EXCEPT ![p] = "queued"]
        /\ UNCHANGED <<life, setCall, watched, death, late, proxy, pid>>
    BY <1>3 DEF SwitchUser, procVars, switchVars
  <2> QED
    BY <2>1 DEF DeathsSeen, DeathSeen, Unhandled, Locked
<1>4. ASSUME NEW p \in Pids, SetClientBegin(p) \/ SetClientDeal(p) \/ SetClientTell(p)
      PROVE  DeathsSeen'
  <2>1. /\ setCall[p] \in {"queued", "deal", "tell"}
        /\ \E v \in {"deal", "tell", "node"} : setCall' = [setCall EXCEPT ![p] = v]
        /\ UNCHANGED <<life, hotCall, watched, death, late>>
    BY <1>4 DEF SetClientBegin, SetClientDeal, SetClientTell, procVars
  <2>2. Rows'
    BY <2>1 DEF DeathsSeen, DeathSeen, Unhandled
  <2>3. Locked'
    BY <2>1 DEF Locked, SetRunning
  <2> QED
    BY <2>2, <2>3 DEF DeathsSeen
<1>5. ASSUME NEW p \in Pids, SetClientNode(p) \/ SetClientFinish(p) PROVE DeathsSeen'
  <2>1. /\ setCall[p] \in {"node", "animate"}
        /\ \E v \in {"animate", "watch"} : setCall' = [setCall EXCEPT ![p] = v]
        /\ UNCHANGED <<life, hotCall, watched, death, late, proxy>>
    BY <1>5 DEF SetClientNode, SetClientFinish, AnimateFinish, WaitOrFinish, procVars
  <2>2. proxy = p
    BY <2>1 DEF ClientAgrees, SetRunning
  <2>3. Rows' /\ ~watched[p]
    BY <2>1 DEF DeathsSeen, DeathSeen, Unhandled
  <2> QED
    BY <2>1, <2>2, <2>3 DEF DeathsSeen, Unhandled
<1>6. ASSUME NEW p \in Pids, AddScbClientDeathRecipient(p) PROVE DeathsSeen'
  <2>1. /\ setCall[p] = "watch" /\ setCall' = [setCall EXCEPT ![p] = "done"]
        /\ watched' = [watched EXCEPT ![p] = (life[p] = "alive")]
        /\ UNCHANGED <<life, hotCall, death, late, proxy, pid>>
    BY <1>6 DEF AddScbClientDeathRecipient, switchVars
  <2>2. /\ life[p] # "alive" => Unhandled(p)'
        /\ \A q \in Pids \ {p} : Unhandled(q)' = Unhandled(q)
    BY <2>1 DEF Unhandled
  <2>3. Rows'
    BY <2>1, <2>2 DEF DeathsSeen, DeathSeen
  <2>4. Locked' = Locked
    BY <2>1 DEF Locked, SetRunning
  <2>5. proxy # NoPid => proxy \in Pids
    BY DEF ClientsOK
  <2> QED
    BY <2>1, <2>2, <2>3, <2>4, <2>5 DEF DeathsSeen
<1>7. ASSUME NEW p \in Pids, SwitchUserNode(p) PROVE DeathsSeen'
  <2>1. /\ hotCall[p] = "queued" /\ ~Locked
        /\ \E v \in {"none", "animate"} : hotCall' = [hotCall EXCEPT ![p] = v]
        /\ UNCHANGED <<life, setCall, watched, death, late>>
    BY <1>7 DEF SwitchUserNode, WaitOrFinish, procVars
  <2>2. life[p] = "alive" \/ Unhandled(p)
    BY <2>1 DEF DeathsSeen, DeathSeen, Unhandled
  <2>3. Rows'
    BY <2>1, <2>2 DEF DeathsSeen, DeathSeen, Unhandled
  <2>4. CASE hotCall'[p] = "animate"
    BY <2>3, <2>4 DEF DeathsSeen, Locked
  <2>5. CASE hotCall'[p] # "animate"
    <3>1. UNCHANGED <<proxy, pid>> \/ (UNCHANGED proxy /\ pid' = p)
      BY <1>7, <2>5 DEF SwitchUserNode, WaitOrFinish, Finish, HotSwitch
    <3> QED
      BY <2>1, <2>2, <2>3, <3>1 DEF DeathsSeen, Unhandled
  <2> QED
    BY <2>4, <2>5
<1>8. ASSUME NEW p \in Pids, SwitchUserFinish(p) PROVE DeathsSeen'
  <2>1. /\ hotCall[p] = "animate" /\ hotCall' = [hotCall EXCEPT ![p] = "none"]
        /\ pid' = p
        /\ UNCHANGED <<life, setCall, watched, death, late, proxy>>
    BY <1>8 DEF SwitchUserFinish, AnimateFinish, Finish, procVars
  <2> QED
    BY <2>1 DEF DeathsSeen, DeathSeen, Unhandled
<1>9. ASSUME NEW p \in Pids, Death(p) PROVE DeathsSeen'
  <2>1. /\ ~Locked /\ death[p] \in {"fired", "waiting"}
        /\ \E v \in {"waiting", "done"} : death' = [death EXCEPT ![p] = v]
        /\ UNCHANGED <<life, setCall, hotCall, watched, late, pid>>
        /\ \/ UNCHANGED proxy /\ (death[p] = "fired" => p # pid)
           \/ UNCHANGED proxy /\ death[p] = "waiting"
           \/ proxy' = NoPid
    BY <1>9 DEF Death, DeathDropsClient, DeathForgetsPid, IsCurrentPid, procVars
  <2>2. Rows'
    BY <2>1 DEF DeathsSeen, DeathSeen, Unhandled, Locked
  <2>3. Last'
    BY <2>1 DEF DeathsSeen, Unhandled, Locked
  <2> QED
    BY <2>2, <2>3 DEF DeathsSeen
<1>10. ASSUME OtherStep \/ \E s \in RealScreens \cup Virtual : ScreenStep(s)
       PROVE  DeathsSeen'
  BY <1>10, OutsideStep DEF DeathsSeen, DeathSeen, Unhandled, Locked
<1> QED
  BY <1>1, <1>2, <1>3, <1>4, <1>5, <1>6, <1>7, <1>8, <1>9, <1>10
     DEF Next, Switching, ScreenStep, OtherStep

SwitchInv ==
  /\ NotStarted /\ Mutex /\ NoticesInTime
  /\ ClientAgrees /\ ClientKept /\ SettingsAgree
  /\ ToldAgrees /\ DeathsSeen

LEMMA SwitchInvCorrect == Spec => []SwitchInv
<1>1. Init => SwitchInv
  <2> SUFFICES ASSUME Init PROVE SwitchInv
    OBVIOUS
  <2> USE UserSwitchAssumption DEF Init
  <2>1. NotStarted /\ Mutex /\ NoticesInTime
    BY DEF NotStarted, Mutex, NoticesInTime, SetRunning
  <2>2. ClientAgrees /\ ClientKept /\ SettingsAgree
    BY DEF ClientAgrees, ClientKept, SettingsAgree, SetRunning, Alive
  <2>3. ToldAgrees
    BY DEF ToldAgrees, ToldRow, Alive, Entered
  <2>4. DeathsSeen
    BY DEF DeathsSeen, DeathSeen
  <2> QED
    BY <2>1, <2>2, <2>3, <2>4 DEF SwitchInv
<1>2. ASSUME TypeInv, SwitchInv, [Next]_vars PROVE SwitchInv'
  <2>1. CASE Next
    <3>1. (NotStarted /\ Mutex /\ NoticesInTime)'
      BY <1>2, <2>1, NotStartedStep, MutexStep, NoticesStep DEF TypeInv, SwitchInv
    <3>2. (ClientAgrees /\ SettingsAgree)'
      BY <1>2, <2>1, ClientStep, SettingsStep DEF TypeInv, SwitchInv
    <3>3. (ToldAgrees /\ DeathsSeen)'
      BY <1>2, <2>1, ToldAgreeStep, DeathsStep DEF TypeInv, SwitchInv
    <3>4. ClientKept'
      BY <1>2, <2>1, KeptStep DEF TypeInv, SwitchInv
    <3> QED
      BY <3>1, <3>2, <3>3, <3>4 DEF SwitchInv
  <2>2. CASE UNCHANGED vars
    <3> USE <1>2, <2>2 DEF vars, procVars, switchVars, animVars, screenVars, SwitchInv
    <3>1. (NotStarted /\ Mutex /\ NoticesInTime)'
      BY DEF NotStarted, Mutex, NoticesInTime, Animating
    <3>2. (ClientAgrees /\ SettingsAgree)'
      BY DEF ClientAgrees, SettingsAgree, Locked
    <3>3. ToldAgrees'
      BY DEF ToldAgrees, ToldRow, Leaving, Alive, Registered
    <3>4. DeathsSeen'
      BY DEF DeathsSeen, DeathSeen, Unhandled, Locked
    <3>5. ClientKept'
      BY DEF ClientKept, Locked, Alive
    <3> QED
      BY <3>1, <3>2, <3>3, <3>4, <3>5
  <2> QED
    BY <1>2, <2>1, <2>2
<1> QED
  BY <1>1, <1>2, TypeInvCorrect, PTL DEF Spec

\* Whatever the processes and their deaths, the client between two switches is
\* of the current user, once that user has registered, and no death handler drops
\* the client of a live process that was switched to last.
THEOREM ProxyCorrect == Spec => []ProxyIsOfCurrentUser
<1>1. SwitchInv => ProxyIsOfCurrentUser
  <2>1. ASSUME SwitchInv, ~Locked, Alive(pid), Registered(pid) PROVE proxy = pid
    BY <2>1 DEF SwitchInv, ClientKept, Alive, Registered
  <2> QED
    BY <2>1 DEF SwitchInv, ClientAgrees, ProxyIsOfCurrentUser
<1> QED
  BY <1>1, SwitchInvCorrect, PTL

\* A wait for the animation is ended by an earlier switch's notice only after
\* some wait has timed out.
THEOREM NoticesCorrect == Spec => []EndedEarlyOnlyAfterTimeout
<1>1. SwitchInv => EndedEarlyOnlyAfterTimeout
  BY DEF SwitchInv, NoticesInTime, EndedEarlyOnlyAfterTimeout
<1> QED
  BY <1>1, SwitchInvCorrect, PTL

\* The settings follow the current user, unless switches overlap.
THEOREM SettingsCorrect == Spec => []SettingsFollowUser
<1>1. SwitchInv => SettingsFollowUser
  BY DEF SwitchInv, SettingsAgree, SettingsFollowUser
<1> QED
  BY <1>1, SwitchInvCorrect, PTL

\* For any number of screens, a client shows a virtual screen that is gone only
\* if the screen went while the client registered.
THEOREM GoneScreensCorrect == Spec => []GoneScreenShownOnlyIfRaced
<1>1. SwitchInv => GoneScreenShownOnlyIfRaced
  BY DEF SwitchInv, ToldAgrees, ToldRow, Leaving, GoneScreenShownOnlyIfRaced
<1> QED
  BY <1>1, SwitchInvCorrect, PTL

\* A client lacks a screen only if it was connected under another client.
THEOREM MissedScreensCorrect == Spec => []ScreenMissedOnlyIfAway
<1>1. TypeInv /\ SwitchInv => ScreenMissedOnlyIfAway
  <2>1. ASSUME TypeInv, SwitchInv, NEW p \in Pids, Registered(p) PROVE setCall[p] \in Entered
    BY <2>1, UserSwitchAssumption DEF SwitchInv, ClientAgrees, Registered
  <2> QED
    BY <2>1 DEF SwitchInv, ToldAgrees, ToldRow, ScreenMissedOnlyIfAway
<1> QED
  BY <1>1, SwitchInvCorrect, TypeInvCorrect, PTL

\* The client is a dead process only while its death is on its way, or where
\* the code cannot know of it.
THEOREM DeadProxyCorrect == Spec => []DeadProxyOnlyIfMissed
<1>1. SwitchInv => DeadProxyOnlyIfMissed
  BY DEF SwitchInv, DeathsSeen, Unhandled, DeadProxyOnlyIfMissed
<1> QED
  BY <1>1, SwitchInvCorrect, PTL
=============================================================================
