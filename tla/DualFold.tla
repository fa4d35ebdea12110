------------------------------ MODULE DualFold ------------------------------
(***************************************************************************)
(* The display mode of a phone with an inner (main) and an outer (sub)     *)
(* panel: DualDisplayFoldPolicy, the sensor, tent, power, boot and IPC     *)
(* handlers that ask it for a mode, and the screen power runner that it    *)
(* posts the panel work to.                                                *)
(*                                                                         *)
(* A change of mode is finished by three decrements of pengdingTask_, one  *)
(* by the call and two by the posted work.  The last one clears the        *)
(* running flag and, if another mode was asked for meanwhile (kept in      *)
(* lastCachedisplayMode_), starts the change to it on its own thread.      *)
(*                                                                         *)
(* A thread is a stack of calls, the innermost first.  A task that the     *)
(* runner posts to itself runs at once (TaskScheduler::PostAsyncTask).     *)
(* Angles are abstracted to the fold status that GetNextFoldState makes of *)
(* them.                                                                   *)
(***************************************************************************)
EXTENDS Integers, SequencesExt

CONSTANTS
  CoordinationSupported, \* const.window.foldabledevice.is_coordination_support
  Requests,              \* modes that SetFoldDisplayMode is called with
  Reports,               \* fold statuses that the sensors report
  Scenarios              \* bounds: see Budget

Screens  == {"main", "sub"}
Modes    == {"UNKNOWN", "FULL", "MAIN", "SUB", "COORDINATION"}
Statuses == {"UNKNOWN", "EXPAND", "HALF_FOLD", "FOLDED"}
Threads  == {"sensor", "tent", "ipc", "power", "boot", "runner"}

\* How often the environment may act: SetFoldDisplayMode, sensor reports,
\* tent reports, power keys, casts, lock changes, changes of a property
\* with no client, and 2 s passing.  deep: follow what comes after an overlap
\* of changes too (1), or have the calls come one by one (2): bounds on the
\* exploration, see MCDualFold.
Budget == [modes : Nat, reports : Nat, tents : Nat, powers : Nat, casts : Nat,
           locks : Nat, strays : Nat, slow : Nat, deep : {0, 1, 2}]

ASSUME DualFoldAssumption ==
  /\ CoordinationSupported \in BOOLEAN
  /\ Requests \subseteq Modes
  /\ Reports \subseteq Statuses \ {"UNKNOWN"}
  /\ Scenarios \subseteq [cold : BOOLEAN, scb : BOOLEAN, budget : Budget]

VARIABLES
  cache,    \* lastCachedisplayMode_
  last,     \* lastDisplayMode_, what GetScreenDisplayMode returns
  current,  \* currentDisplayMode_
  running,  \* displayModeChangeRunning_
  pending,  \* pengdingTask_
  elapsed,  \* more than MODE_CHANGE_TIMEOUT_MS since startTimePoint_
  screenId, \* screenId_: the panel that SetScreenPower is about
  status,   \* currentFoldStatus_ (and mState_)
  locked,   \* lockDisplayStatus_
  tent,     \* IsTentMode()
  onBoot,   \* onBootAnimation_
  subReady, \* the session of the sub screen is in screenSessionMap_
  scb,      \* the SCB client is connected
  notices,  \* NotifyFoldToExpandCompletion calls that the SCB owes
  nodes,    \* screens whose display node is on the render tree
  lit,      \* panels that are powered
  deviceOn, \* PowerMgrClient::IsFoldScreenOn()
  wake,     \* a WakeupDeviceAsync is under way
  stack,    \* the calls each thread is in
  queue,    \* tasks of screenPowerTaskScheduler_
  budget,   \* what is left of the bounds
  wanted,   \* history: the mode asked for last
  upset     \* history: irregularities that have happened

modeVars  == <<cache, last, current, wanted>>
countVars == <<running, pending, elapsed>>
foldVars  == <<status, locked, tent>>
bootVars  == <<onBoot, subReady, scb, notices>>
panelVars == <<screenId, nodes, lit>>
powerVars == <<deviceOn, wake>>
vars == <<modeVars, countVars, foldVars, bootVars, panelVars, powerVars,
          stack, queue, budget, upset>>

Frame(fn, pc, mode, flag) == [fn |-> fn, pc |-> pc, mode |-> mode, flag |-> flag]

\* ChangeScreenDisplayMode(mode); flag: not a catch-up with the cached mode
Change(mode)  == Frame("change", "cache", mode, TRUE)
CatchUp(mode) == Frame("change", "cache", mode, FALSE)
\* SetdisplayModeChangeStatus(false)
Done == Frame("done", "count", "UNKNOWN", FALSE)

\* The phone as it boots, and as it is used, the last change long finished.
Init ==
  /\ \E s \in Scenarios, m \in {"UNKNOWN", "MAIN", "SUB"} :
       /\ s.cold <=> m = "UNKNOWN"
       /\ budget = s.budget
       /\ scb = s.scb
       /\ onBoot = s.cold
       /\ subReady = ~s.cold
       /\ cache = m /\ last = m /\ current = m /\ wanted = m
       /\ pending = IF s.cold THEN 3 ELSE 0
       /\ elapsed = ~s.cold
       /\ status = CASE m = "UNKNOWN" -> "UNKNOWN"
                     [] m = "MAIN" -> "EXPAND"
                     [] OTHER -> "FOLDED"
       /\ screenId = CASE m = "UNKNOWN" -> "none"
                       [] m = "MAIN" -> "main"
                       [] OTHER -> "sub"
       /\ nodes = IF s.cold THEN Screens ELSE {screenId}
       /\ lit = IF s.cold THEN {} ELSE {screenId}
  /\ running = FALSE
  /\ locked = FALSE
  /\ tent = FALSE
  /\ notices = 0
  /\ deviceOn = TRUE
  /\ wake = FALSE
  /\ stack = [t \in Threads |-> <<>>]
  /\ queue = <<>>
  /\ upset = {}

-----------------------------------------------------------------------------
(* Calls.                                                                  *)

Top(t) == Head(stack[t])
At(t, fn, pc) == stack[t] # <<>> /\ Top(t).fn = fn /\ Top(t).pc = pc

Goto(t, pc) == stack' = [stack EXCEPT ![t][1].pc = pc]
Return(t) == stack' = [stack EXCEPT ![t] = Tail(@)]
\* The innermost call of t ends with the calls fs.
ReturnBy(t, fs) == stack' = [stack EXCEPT ![t] = fs \o Tail(@)]
\* The innermost call of t goes to pc after the calls fs.
Call(t, fs, pc) ==
  stack' = [stack EXCEPT ![t] = fs \o <<[Top(t) EXCEPT !.pc = pc]>> \o Tail(@)]
Begin(t, fs) == stack[t] = <<>> /\ stack' = [stack EXCEPT ![t] = fs]

Idle(t) == stack[t] = <<>>
Frames(t) == {stack[t][i] : i \in DOMAIN stack[t]}
Quiet == (\A t \in Threads : Idle(t)) /\ queue = <<>> /\ notices = 0

Spend(k) == budget[k] > 0 /\ budget' = [budget EXCEPT ![k] = @ - 1]

\* mStateMutex_ is held from a change of fold status to the end of the
\* change of mode that it asks for.
StateLocked == \E t \in Threads : \E f \in Frames(t) : f.fn = "sense"

ModeOf(s) ==
  CASE s \in {"EXPAND", "HALF_FOLD"} -> "MAIN"
    [] s = "FOLDED" -> "SUB"
    [] OTHER -> "UNKNOWN"
GetModeMatchStatus == ModeOf(status)

OnScreen(mode)  == IF mode = "SUB" THEN "sub" ELSE "main"
OffScreen(mode) == IF mode = "SUB" THEN "main" ELSE "sub"

\* Work of a change that has started and is not finished.
Working(f) ==
  \/ f.fn \in {"offOn", "onMain", "onSub"}
  \/ f.fn = "change" /\ f.pc \in {"post", "postMain", "postSub", "nodes", "current"}
  \/ f.fn = "done"
Unfinished ==
  \/ notices > 0
  \/ \E i \in DOMAIN queue : Working(queue[i])
  \/ \E t \in Threads : \E f \in Frames(t) : Working(f)

Changing == Unfinished \/ \E t \in Threads : \E f \in Frames(t) : f.fn = "change"

\* The coordination mode is being left, the sub panel of it already is off.
Exiting == \E t \in Threads : \E f \in Frames(t) : f.pc = "exitMode"

\* The coordination mode is left while a change is under way, or after one,
\* or while another call leaves it.
ExitRaces(t) ==
  \/ Changing \/ running \/ last # "COORDINATION"
  \/ \E u \in Threads \ {t} : \E f \in Frames(u) : f.pc \in {"exit", "exitMode"}

Note(P, r) == upset' = IF P THEN upset \cup {r} ELSE upset

-----------------------------------------------------------------------------
(* ChangeScreenDisplayMode                                                 *)

SetLastCacheDisplayMode(t) ==
  /\ At(t, "change", "cache")
  /\ cache' = Top(t).mode
  /\ wanted' = IF Top(t).flag THEN Top(t).mode ELSE wanted
  /\ Note(~Top(t).flag /\ Top(t).mode # wanted, "stale")
  /\ Goto(t, "running")
  /\ UNCHANGED <<last, current, countVars, foldVars, bootVars, panelVars,
                 powerVars, queue, budget>>

\* GetModeChangeRunningStatus
TestRunningWaits(t) ==
  /\ At(t, "change", "running")
  /\ ~running
  /\ Goto(t, "check")
  /\ UNCHANGED <<modeVars, countVars, foldVars, bootVars, panelVars, powerVars,
                 queue, budget, upset>>
TestRunning(t) ==
  /\ At(t, "change", "running")
  /\ IF running /\ ~elapsed THEN Return(t) ELSE Goto(t, "check")
  /\ UNCHANGED <<modeVars, countVars, foldVars, bootVars, panelVars, powerVars,
                 queue, budget, upset>>

\* GetScreenSession, CheckDisplayMode and, if there is a change to make,
\* SetdisplayModeChangeStatus(true)
Start(t) ==
  /\ At(t, "change", "check")
  /\ LET mode == Top(t).mode
         refused == \/ mode = "SUB" /\ ~subReady
                    \/ mode = "COORDINATION" /\ ~CoordinationSupported
     IN  IF refused \/ current = mode
           THEN /\ Return(t)
                /\ Note(refused, "refused")
                /\ UNCHANGED <<last, countVars>>
           ELSE /\ pending' = 3
                /\ elapsed' = FALSE
                /\ running' = TRUE
                /\ last' = mode
                /\ Goto(t, "post")
                /\ upset' = upset \cup {r \in {"overlap", "fromSub", "bootRaces", "exitRaces"} :
                     CASE r = "overlap"   -> Unfinished
                       [] r = "fromSub"   -> mode = "COORDINATION" /\ "main" \notin nodes
                       [] r = "bootRaces" -> t # "boot" /\ ~Idle("boot")
                       [] r = "exitRaces" -> Exiting}
  /\ UNCHANGED <<cache, current, wanted, foldVars, bootVars, panelVars, powerVars,
                 queue, budget>>

\* Post task f to the screen power runner, and go on at pc.
PostTask(t, f, pc) ==
  IF t = "runner"
    THEN Call(t, <<f>>, pc) /\ UNCHANGED queue
    ELSE Goto(t, pc) /\ queue' = Append(queue, f)

\* ChangeScreenDisplayModeOnBootAnimation: a listener that has no client
\* decrements at once, an SCB answers with NotifyFoldToExpandCompletion.
ShowOnBootAnimation(t) ==
  /\ Top(t).fn \in {"change", "trigger"} /\ Top(t).pc = "post"
  /\ Top(t).mode \in {"MAIN", "SUB"} /\ onBoot
  /\ IF scb
       THEN notices' = notices + 1 /\ Goto(t, "current")
       ELSE Call(t, <<Done>>, "current") /\ UNCHANGED notices
  /\ screenId' = OnScreen(Top(t).mode)
  /\ upset' = upset \cup {"boot"} \cup (IF Idle("boot") THEN {} ELSE {"bootRaces"})
  /\ UNCHANGED <<modeVars, countVars, foldVars, onBoot, subReady, scb, nodes, lit,
                 powerVars, queue, budget>>

\* ChangeScreenDisplayModeInner
PostOffOn(t) ==
  /\ Top(t).fn \in {"change", "trigger"} /\ Top(t).pc = "post"
  /\ Top(t).mode \in {"MAIN", "SUB"} /\ ~onBoot
  /\ PostTask(t, Frame("offOn", "off", Top(t).mode, FALSE), "nodes")
  /\ UNCHANGED <<modeVars, countVars, foldVars, bootVars, panelVars, powerVars,
                 budget, upset>>

\* ChangeScreenDisplayModeToCoordination: the power state is read, ...
ReadScreenOn(t) ==
  /\ Top(t).fn = "change" /\ Top(t).pc = "post" /\ Top(t).mode = "COORDINATION"
  /\ stack' = [stack EXCEPT ![t] = <<[Top(t) EXCEPT !.pc = "postMain", !.flag = deviceOn]>> \o Tail(@)]
  /\ Note(~deviceOn, "coordOff")
  /\ UNCHANGED <<modeVars, countVars, foldVars, bootVars, panelVars, powerVars,
                 queue, budget>>

\* The panel task of a power key is yet to be posted, or run, and comes after
\* what t posts now.
PanelToCome(t) == stack["power"] # <<>> /\ (t = "runner" \/ Top("power").pc = "panel")

\* ... and carried by the two tasks that are posted then.
PostOnMain(t) ==
  /\ At(t, "change", "postMain")
  /\ PostTask(t, Frame("onMain", "on", "COORDINATION", Top(t).flag), "postSub")
  /\ Note(~Top(t).flag /\ deviceOn /\ ~PanelToCome(t), "staleOff")
  /\ UNCHANGED <<modeVars, countVars, foldVars, bootVars, panelVars, powerVars,
                 budget>>

PostOnSub(t) ==
  /\ At(t, "change", "postSub")
  /\ PostTask(t, Frame("onSub", "on", "COORDINATION", Top(t).flag), "nodes")
  /\ UNCHANGED <<modeVars, countVars, foldVars, bootVars, panelVars, powerVars,
                 budget, upset>>

\* ChangeScreenDisplayModeProc has nothing to do for the other modes.
PostNothing(t) ==
  /\ Top(t).fn \in {"change", "trigger"} /\ Top(t).pc = "post"
  /\ \/ Top(t).mode \in {"UNKNOWN", "FULL"}
     \/ Top(t).fn = "trigger" /\ Top(t).mode = "COORDINATION"
  /\ Goto(t, "current")
  /\ Note(Top(t).fn = "change", "unhandled")
  /\ UNCHANGED <<modeVars, countVars, foldVars, bootVars, panelVars, powerVars,
                 queue, budget>>

PostWork(t) ==
  /\ stack[t] # <<>>
  /\ \/ ShowOnBootAnimation(t)
     \/ PostOffOn(t)
     \/ ReadScreenOn(t)
     \/ PostOnMain(t)
     \/ PostOnSub(t)
     \/ PostNothing(t)

\* AddOrRemoveDisplayNodeToTree
NodesAfter(mode) ==
  IF mode = "COORDINATION" THEN nodes \cup {"sub"}
  ELSE (nodes \ {OffScreen(mode)}) \cup {OnScreen(mode)}

\* TriggerScreenDisplayModeUpdate ends here;
\* ChangeScreenDisplayMode sets the mode and ends with
\* SetdisplayModeChangeStatus(false).
Finish(t) ==
  /\ stack[t] # <<>> /\ Top(t).fn \in {"change", "trigger"}
  /\ Top(t).pc \in {"nodes", "current"}
  /\ LET mode == Top(t).mode IN
       /\ nodes' = IF Top(t).pc = "nodes" THEN NodesAfter(mode) ELSE nodes
       /\ IF Top(t).fn = "change"
            THEN current' = mode /\ ReturnBy(t, <<Done>>)
            ELSE Return(t) /\ UNCHANGED current
  /\ UNCHANGED <<cache, last, wanted, countVars, foldVars, bootVars, screenId, lit,
                 powerVars, queue, budget, upset>>

-----------------------------------------------------------------------------
(* SetdisplayModeChangeStatus(false)                                       *)

CountDown(t) ==
  /\ At(t, "done", "count")
  /\ pending' = pending - 1
  /\ Goto(t, "test")
  /\ UNCHANGED <<modeVars, running, elapsed, foldVars, bootVars, panelVars,
                 powerVars, queue, budget, upset>>

CountedDown == pending = 0

\* Every thread that reads 0 ends the change.
TestCount(t) ==
  /\ At(t, "done", "test")
  /\ IF CountedDown THEN running' = FALSE /\ Goto(t, "compare")
                    ELSE Return(t) /\ UNCHANGED running
  /\ UNCHANGED <<modeVars, pending, elapsed, foldVars, bootVars, panelVars, powerVars,
                 queue, budget, upset>>

CaughtUpAlways == TRUE
CaughtUp == cache = last

CompareWithCache(t) ==
  /\ At(t, "done", "compare")
  /\ IF CaughtUp THEN Return(t) ELSE ReturnBy(t, <<CatchUp(cache)>>)
  /\ UNCHANGED <<modeVars, countVars, foldVars, bootVars, panelVars, powerVars,
                 queue, budget, upset>>

-----------------------------------------------------------------------------
(* The screen power runner                                                 *)

TakeTask ==
  /\ Idle("runner") /\ queue # <<>> /\ Head(queue).fn # "panel"
  /\ stack' = [stack EXCEPT !["runner"] = <<Head(queue)>>]
  /\ queue' = Tail(queue)
  /\ UNCHANGED <<modeVars, countVars, foldVars, bootVars, panelVars, powerVars,
                 budget, upset>>

OffUncounted == <<>>
OffCounted == <<Done>>

TurnOff ==
  /\ At("runner", "offOn", "off")
  /\ screenId' = OffScreen(Top("runner").mode)
  /\ lit' = lit \ {screenId'}
  /\ Call("runner", OffCounted, "on")
  /\ UNCHANGED <<modeVars, countVars, foldVars, bootVars, nodes, powerVars, queue,
                 budget, upset>>

\* The panel goes on if the device is, or if a suspend is being cancelled
\* (GetCancelSuspendStatus, a choice); otherwise the device is woken up.
TurnOn ==
  /\ At("runner", "offOn", "on")
  /\ screenId' = OnScreen(Top("runner").mode)
  /\ \/ lit' = lit \cup {screenId'} /\ UNCHANGED wake
     \/ ~deviceOn /\ wake' = TRUE /\ UNCHANGED lit
  /\ ReturnBy("runner", <<Done>>)
  /\ UNCHANGED <<modeVars, countVars, foldVars, bootVars, nodes, deviceOn, queue,
                 budget, upset>>

MainSkipped == lit
MainOn == lit \cup {"main"}

TurnOnMain ==
  /\ At("runner", "onMain", "on")
  /\ screenId' = "main"
  /\ IF Top("runner").flag
       THEN lit' = MainOn /\ UNCHANGED wake
       ELSE wake' = (wake \/ ~deviceOn) /\ UNCHANGED lit
  /\ ReturnBy("runner", <<Done>>)
  /\ UNCHANGED <<modeVars, countVars, foldVars, bootVars, nodes, deviceOn, queue,
                 budget, upset>>

TurnOnSub ==
  /\ At("runner", "onSub", "on")
  /\ lit' = IF Top("runner").flag THEN lit \cup {"sub"} ELSE lit
  /\ ReturnBy("runner", <<Done>>)
  /\ UNCHANGED <<modeVars, countVars, foldVars, bootVars, screenId, nodes, powerVars,
                 queue, budget, upset>>

-----------------------------------------------------------------------------
(* SetScreenPower, by the power manager                                    *)

\* SetScreenPower first tests for the coordination mode.
PowerOff ==
  /\ deviceOn /\ ~onBoot /\ Spend("powers")
  /\ Begin("power", <<Frame("suspend", IF last = "COORDINATION" THEN "exit" ELSE "panel",
                           "UNKNOWN", FALSE)>>)
  /\ deviceOn' = FALSE
  /\ UNCHANGED <<modeVars, countVars, foldVars, bootVars, panelVars, wake, queue, upset>>

\* By the power key, or because of WakeupDeviceAsync.
PowerOn ==
  /\ ~deviceOn
  /\ \/ wake /\ UNCHANGED budget
     \/ ~wake /\ Spend("powers")
  /\ Begin("power", <<Frame("resume", "panel", "UNKNOWN", TRUE)>>)
  /\ deviceOn' = TRUE
  /\ wake' = FALSE
  /\ UNCHANGED <<modeVars, countVars, foldVars, bootVars, panelVars, queue, upset>>

\* CallRsSetScreenPowerStatusSyncForFold: the caller waits for the task.
PostPanel ==
  /\ stack["power"] # <<>> /\ Top("power").pc = "panel"
  /\ queue' = Append(queue, Frame("panel", "set", "UNKNOWN", Top("power").flag))
  /\ Goto("power", "wait")
  /\ UNCHANGED <<modeVars, countVars, foldVars, bootVars, panelVars, powerVars,
                 budget, upset>>

SetPanel ==
  /\ Idle("runner") /\ queue # <<>> /\ Head(queue).fn = "panel"
  /\ lit' = IF Head(queue).flag THEN lit \cup ({screenId} \cap Screens)
                                ELSE lit \ {screenId}
  /\ queue' = Tail(queue)
  /\ IF Top("power").fn = "resume" THEN Return("power") ELSE Goto("power", "recover")
  /\ UNCHANGED <<modeVars, countVars, foldVars, bootVars, screenId, nodes, powerVars,
                 budget, upset>>

\* RecoverDisplayMode, after the panel went off
RecoverDisplayMode ==
  /\ At("power", "suspend", "recover")
  /\ IF GetModeMatchStatus = last THEN Return("power")
     ELSE ReturnBy("power", <<Change(GetModeMatchStatus)>>)
  /\ UNCHANGED <<modeVars, countVars, foldVars, bootVars, panelVars, powerVars,
                 queue, budget, upset>>

SubStays == lit
SubOff == lit \ {"sub"}

ModeOnExit == GetModeMatchStatus

\* ExitCoordination, by SetScreenPower and CreateVirtualScreen, which have
\* tested the mode: the sub panel, and the mode
ExitSub(t) ==
  /\ stack[t] # <<>> /\ Top(t).pc = "exit"
  /\ lit' = SubOff
  /\ nodes' = nodes \ {"sub"}
  /\ Goto(t, "exitMode")
  /\ Note(ExitRaces(t), "exitRaces")
  /\ UNCHANGED <<modeVars, countVars, foldVars, bootVars, screenId, powerVars,
                 queue, budget>>

ExitMode(t) ==
  /\ stack[t] # <<>> /\ Top(t).pc = "exitMode"
  /\ current' = ModeOnExit
  /\ last' = GetModeMatchStatus
  /\ wanted' = GetModeMatchStatus
  /\ upset' = upset \cup (IF ExitRaces(t) THEN {"exitRaces"} ELSE {})
                    \cup (IF GetModeMatchStatus = "MAIN" THEN {} ELSE {"exitFolded"})
                    \cup {"exit"}
  /\ IF Top(t).fn = "suspend" THEN Goto(t, "panel") ELSE Return(t)
  /\ UNCHANGED <<cache, countVars, foldVars, bootVars, panelVars, powerVars, queue, budget>>

-----------------------------------------------------------------------------
(* The fold sensors and tent mode                                          *)

\* SendSensorResult asks for a mode unless the display is locked, or in
\* coordination on a device that is on.
Asks(s) ==
  ~locked /\ ~(current = "COORDINATION" /\ deviceOn /\ ModeOf(s) = "MAIN")

\* HandleSensorChange(s) of SensorFoldStateManager; its calls.
HandleSensorChange(s) == ~StateLocked /\ status' = s
SensorCalls(s) ==
  IF s # status /\ Asks(s)
    THEN <<Change(ModeOf(s)), Frame("sense", "unlock", "UNKNOWN", FALSE)>>
    ELSE <<>>

\* A report of the angle or hall sensor, on the sensor thread or, for a hall
\* report that no angle confirmed, in a task of the runner.  It looks at the
\* tent mode before it takes the mutex.
Report(t) ==
  /\ Spend("reports")
  /\ Begin(t, <<Frame("report", "sense", "UNKNOWN", tent)>>)
  /\ UNCHANGED <<modeVars, countVars, foldVars, bootVars, panelVars, powerVars,
                 queue, upset>>

\* In tent mode a report counts only if it ends the tent mode.
HandleReport(t, s) ==
  /\ At(t, "report", "sense")
  /\ HandleSensorChange(s)
  /\ IF Top(t).flag THEN Call(t, SensorCalls(s), "leave") ELSE ReturnBy(t, SensorCalls(s))
  /\ UNCHANGED <<modeVars, countVars, locked, tent, bootVars, panelVars, powerVars,
                 queue, budget, upset>>

EndHandleSensorChange(t) ==
  /\ At(t, "sense", "unlock")
  /\ Return(t)
  /\ UNCHANGED <<modeVars, countVars, foldVars, bootVars, panelVars, powerVars,
                 queue, budget, upset>>

LeaveTent(t) ==
  /\ At(t, "report", "leave")
  /\ tent' = FALSE
  /\ Return(t)
  /\ UNCHANGED <<modeVars, countVars, status, locked, bootVars, panelVars, powerVars,
                 queue, budget, upset>>

\* HandleTentChange
SwitchTent ==
  /\ Spend("tents")
  /\ tent' = ~tent
  /\ Begin("tent", <<Frame(IF tent THEN "tentOff" ELSE "tentOn", "sense", "UNKNOWN", FALSE)>>)
  /\ Note(Changing, "tentInChange")
  /\ UNCHANGED <<modeVars, countVars, status, locked, bootVars, panelVars, powerVars, queue>>

HandleTent(s) ==
  /\ \/ At("tent", "tentOn", "sense") /\ s = "FOLDED"
     \/ At("tent", "tentOff", "sense")
  /\ HandleSensorChange(s)
  /\ Call("tent", SensorCalls(s), "change")
  /\ UNCHANGED <<modeVars, countVars, locked, tent, bootVars, panelVars, powerVars,
                 queue, budget, upset>>

ChangeOnTentMode ==
  /\ At("tent", "tentOn", "change")
  /\ Call("tent", <<Change("SUB")>>, "wake")
  /\ UNCHANGED <<modeVars, countVars, foldVars, bootVars, panelVars, powerVars,
                 queue, budget, upset>>

WakeupOnTentMode ==
  /\ At("tent", "tentOn", "wake")
  /\ wake' = (wake \/ ~deviceOn)
  /\ Return("tent")
  /\ UNCHANGED <<modeVars, countVars, foldVars, bootVars, panelVars, deviceOn,
                 queue, budget, upset>>

ChangeOffTentMode ==
  /\ At("tent", "tentOff", "change")
  /\ wake' = (wake \/ ~deviceOn)
  /\ ReturnBy("tent", <<Change(GetModeMatchStatus)>>)
  /\ UNCHANGED <<modeVars, countVars, foldVars, bootVars, panelVars, deviceOn,
                 queue, budget, upset>>

-----------------------------------------------------------------------------
(* IPC calls, the SCB and the boot                                         *)

NotInTent(mode) == tent /\ mode \in {"FULL", "COORDINATION"}

SetFoldDisplayMode(mode) ==
  /\ ~NotInTent(mode)
  /\ Spend("modes")
  /\ Begin("ipc", <<Change(mode)>>)
  /\ UNCHANGED <<modeVars, countVars, foldVars, bootVars, panelVars, powerVars,
                 queue, upset>>

LockDisplayStatus ==
  /\ Idle("ipc") /\ Spend("locks")
  /\ locked' = ~locked
  /\ UNCHANGED <<modeVars, countVars, status, tent, bootVars, panelVars, powerVars,
                 stack, queue, upset>>

CreateCastScreen ==
  /\ last = "COORDINATION" /\ Spend("casts")
  /\ Begin("ipc", <<Frame("cast", "exit", "UNKNOWN", FALSE)>>)
  /\ UNCHANGED <<modeVars, countVars, foldVars, bootVars, panelVars, powerVars,
                 queue, upset>>

NotifyUnasked ==
  /\ Begin("ipc", <<Done>>)
  /\ notices' = notices - 1
  /\ UNCHANGED <<modeVars, countVars, foldVars, onBoot, subReady, scb, panelVars,
                 powerVars, queue, budget, upset>>
NotifyFoldToExpandCompletion ==
  /\ notices > 0
  /\ Begin("ipc", <<Done>>)
  /\ notices' = notices - 1
  /\ UNCHANGED <<modeVars, countVars, foldVars, onBoot, subReady, scb, panelVars,
                 powerVars, queue, budget, upset>>

\* OnPropertyChange for another reason, with no client
StrayPropertyChange ==
  /\ ~scb /\ Spend("strays")
  /\ Begin("ipc", <<Done>>)
  /\ Note(TRUE, "stray")
  /\ UNCHANGED <<modeVars, countVars, foldVars, bootVars, panelVars, powerVars, queue>>

\* The session of the sub screen enters screenSessionMap_.  The sensors
\* were enabled before, after UpdateForPhyScreenPropertyChange.
ConnectSub ==
  /\ ~subReady
  /\ subReady' = TRUE
  /\ UNCHANGED <<modeVars, countVars, foldVars, onBoot, scb, notices, panelVars,
                 powerVars, stack, queue, budget, upset>>

\* The boot animation has finished: FoldScreenPowerInit sets the panels, ...
PowerInit ==
  /\ onBoot /\ subReady
  /\ Begin("boot", <<Frame("boot", "recover", "UNKNOWN", FALSE)>>)
  /\ lit' = IF screenId = "none" THEN lit ELSE {screenId}
  /\ nodes' = IF screenId = "none" THEN nodes ELSE nodes \cap {screenId}
  /\ upset' = upset \cup (IF Changing THEN {"bootRaces"} ELSE {})
                    \cup (IF last = "COORDINATION" THEN {"bootBoth"} ELSE {})
                    \cup (IF screenId \in Screens \ nodes THEN {"bootBare"} ELSE {})
  /\ UNCHANGED <<modeVars, countVars, foldVars, bootVars, screenId, powerVars,
                 queue, budget>>

\* ... and SetOnBootAnimation(false) shows the mode of the fold status.
RecoverWhenBootAnimationExit ==
  /\ At("boot", "boot", "recover")
  /\ onBoot' = FALSE
  /\ ReturnBy("boot", IF current # GetModeMatchStatus
                      THEN <<Change(GetModeMatchStatus)>>
                      ELSE <<Frame("trigger", "post", GetModeMatchStatus, FALSE)>>)
  /\ Note(Changing, "bootRaces")
  /\ UNCHANGED <<modeVars, countVars, foldVars, subReady, scb, notices, panelVars,
                 powerVars, queue, budget>>

\* MODE_CHANGE_TIMEOUT_MS pass before the change is finished.
TwoSecondsPass ==
  /\ running /\ ~elapsed /\ Spend("slow")
  /\ elapsed' = TRUE
  /\ Note(Unfinished, "slow")
  /\ UNCHANGED <<modeVars, running, pending, foldVars, bootVars, panelVars, powerVars,
                 stack, queue>>

-----------------------------------------------------------------------------
Step(t) ==
  \/ SetLastCacheDisplayMode(t)
  \/ TestRunning(t)
  \/ Start(t)
  \/ PostWork(t)
  \/ Finish(t)
  \/ CountDown(t)
  \/ TestCount(t)
  \/ CompareWithCache(t)
  \/ ExitSub(t)
  \/ ExitMode(t)
  \/ EndHandleSensorChange(t)
  \/ LeaveTent(t)
  \/ \E s \in Reports : HandleReport(t, s)

RunnerStep ==
  TakeTask \/ SetPanel \/ TurnOff \/ TurnOn \/ TurnOnMain \/ TurnOnSub

PowerStep == PostPanel \/ RecoverDisplayMode

TentStep ==
  \/ \E s \in Reports \cup {"FOLDED"} : HandleTent(s)
  \/ ChangeOnTentMode \/ WakeupOnTentMode \/ ChangeOffTentMode

Environment ==
  \/ \E t \in {"sensor", "runner"} : Report(t)
  \/ \E mode \in Requests : SetFoldDisplayMode(mode)
  \/ SwitchTent \/ PowerOff \/ PowerOn
  \/ LockDisplayStatus \/ CreateCastScreen \/ StrayPropertyChange
  \/ TwoSecondsPass
  \/ NotifyFoldToExpandCompletion
  \/ ConnectSub \/ PowerInit

Next ==
  \/ \E t \in Threads : Step(t)
  \/ RunnerStep
  \/ PowerStep
  \/ TentStep
  \/ RecoverWhenBootAnimationExit
  \/ Environment

Spec == Init /\ [][Next]_vars

Fairness ==
  /\ \A t \in Threads : WF_vars(Step(t))
  /\ WF_vars(RunnerStep) /\ WF_vars(PowerStep) /\ WF_vars(TentStep)
  /\ WF_vars(RecoverWhenBootAnimationExit) /\ WF_vars(NotifyFoldToExpandCompletion)
FairSpec == Spec /\ Fairness

-----------------------------------------------------------------------------
Calls == {"change", "trigger", "done", "offOn", "onMain", "onSub", "panel", "suspend",
          "resume", "cast", "sense", "report", "tentOn", "tentOff", "boot"}
Labels == {"cache", "running", "check", "post", "postMain", "postSub", "nodes",
           "current", "count", "test", "compare", "off", "on", "set", "panel", "wait", "recover",
           "exit", "exitMode", "sense", "leave", "unlock", "change", "wake"}
FrameType == [fn : Calls, pc : Labels, mode : Modes, flag : BOOLEAN]

TypeOK ==
  /\ cache \in Modes /\ last \in Modes /\ current \in Modes /\ wanted \in Modes
  /\ running \in BOOLEAN /\ pending \in Int /\ elapsed \in BOOLEAN
  /\ status \in Statuses /\ locked \in BOOLEAN /\ tent \in BOOLEAN
  /\ onBoot \in BOOLEAN /\ subReady \in BOOLEAN /\ scb \in BOOLEAN /\ notices \in Nat
  /\ screenId \in Screens \cup {"none"} /\ nodes \subseteq Screens /\ lit \subseteq Screens
  /\ deviceOn \in BOOLEAN /\ wake \in BOOLEAN
  /\ stack \in [Threads -> Seq(FrameType)] /\ queue \in Seq(FrameType)
  /\ budget \in Budget

Upset(rs) == upset \cap rs # {}

\* The panels, and the display nodes, of a mode
PanelsOf(mode) == CASE mode = "MAIN" -> {"main"}
                    [] mode = "SUB" -> {"sub"}
                    [] OTHER -> Screens

\* The decrements of pengdingTask_ that a call, or a task, has yet to make
Owed(f) ==
  CASE f.fn = "change" -> (CASE f.pc \in {"post", "postMain"} -> 3
                             [] f.pc = "postSub" -> 2
                             [] f.pc \in {"nodes", "current"} -> 1
                             [] OTHER -> 0)
    [] f.fn = "offOn" -> IF f.pc = "off" THEN 2 ELSE 1
    [] f.fn \in {"onMain", "onSub"} -> 1
    [] f.fn = "done" /\ f.pc = "count" -> 1
    [] OTHER -> 0
\* The same of a list of calls, the i-th of them to make its n-th: <<i, n>>
OwedBy(fs) == {d \in (DOMAIN fs) \X (1..3) : d[2] <= Owed(fs[d[1]])}
OwedByCalls == UNION {{t} \X OwedBy(stack[t]) : t \in Threads}

Ending(t) == \E f \in Frames(t) : f.fn = "done" /\ f.pc = "test"

\* While a change runs, pengdingTask_ is what its call and its two posted
\* tasks have yet to count down, nothing else counts it down, and when nothing
\* is left some thread is about to end the change
\* (SetdisplayModeChangeStatus).  A flag that stays set has
\* ChangeScreenDisplayMode refuse every mode for two seconds.  It stays set
\* when two changes overlap, and by the code's own doing after a change to a
\* mode that ChangeScreenDisplayModeProc has no case for and after one during
\* the boot animation.
CountIsOwed ==
  running /\ ~Upset({"overlap", "unhandled", "boot", "stray", "bootRaces"}) =>
    /\ pending = Cardinality(OwedBy(queue)) + Cardinality(OwedByCalls)
    /\ pending = 0 => \E t \in Threads : Ending(t)

\* Once every call has returned and no change runs, the mode is the one
\* asked for last, though it was asked for while another change ran
\* (lastCachedisplayMode_), unless something else counted the change down
\* early; then in tent mode, which ends the coordination mode and has
\* SetFoldDisplayMode refuse it, it is not that mode unless a change was under
\* way as the tent was set up; and the mode that the clients are told
\* (GetScreenDisplayMode) is the one that requests are compared with
\* (CheckDisplayMode), whatever exits and changes came in between.
ModeAgrees ==
  Quiet =>
    /\ ~running =>
         \/ /\ last = wanted
            /\ tent => last # "COORDINATION" \/ Upset({"tentInChange"})
         \/ Upset({"overlap", "stale", "refused", "exitRaces", "stray", "bootRaces"})
    /\ last = current \/ Upset({"overlap", "exitRaces"})

\* Whatever overlaps, the panel that the power keys act on ends up lit on a
\* device that is on: the tasks turn a panel on after they turn one off.  An
\* exit from a coordination mode that overlapped another change turns the sub
\* panel off while it may be that panel; and a change to the coordination mode
\* that read that the device is off, and posts its tasks when a power key has
\* turned on the sub panel, makes the main panel that panel and does not light it.
ActivePanelIsLit ==
  Quiet /\ ~onBoot /\ deviceOn /\ ~wake /\ screenId \in Screens =>
    \/ screenId \in lit
    \/ Upset({"exitRaces", "bootRaces"})
    \/ {"overlap", "exit"} \subseteq upset
    \/ Upset({"staleOff"}) /\ screenId = "main"

\* The panels that are lit are those of the mode that the clients are told,
\* though the changes light them in other threads and power keys light and
\* darken one of them; and so are the display nodes on the tree.  The boot
\* that ends in the coordination mode leaves one panel to a mode that the next
\* change replaces, if there is one; one that ends on a panel with no display
\* node, as a change during the boot animation leaves it, takes the node of the
\* other panel away and needs a change to bring one back.
PanelsFollowMode ==
  Quiet /\ ~onBoot /\ last \in {"MAIN", "SUB", "COORDINATION"} =>
    /\ deviceOn /\ ~wake =>
         \/ lit = PanelsOf(last)
         \/ Upset({"overlap", "coordOff", "exitFolded", "exitRaces", "bootRaces",
                   "bootBoth"})
    /\ \/ nodes = PanelsOf(last)
       \/ Upset({"overlap", "fromSub", "exitFolded", "exitRaces", "bootRaces",
                 "bootBoth", "bootBare"})

\* Changes that overlap restart each other through the cached mode, but not
\* for ever.
Settles == <>[]Quiet
=============================================================================
