# Formal models of the window manager

TLA+ models of the core of this repository (the OpenHarmony window and display
manager), the TLC configurations that check them on small instances, and proofs
of what holds for instances of any size. Source paths below are relative to
`src/`; SSM is
`window_scene/screen_session_manager/src/screen_session_manager.cpp` in the
sections on screens and users, and `window_scene/session_manager/src/scene_session_manager.cpp`
in those on the focus and on the life of a session. The scene board, one process for each user, is
called SCB as in the code.

Contents: 1 the system, 2 plan, 3 ScreenPower, 4 SnapshotPicker, 5 WindowFocus,
6 UserSwitch, 7 DualFold, 8 SessionLifecycle, 9 the runs, 10 the proofs, 11 what the
runs found, 12 what is not modelled.

## 1 The system

Two services of builds with the scene board hold the state; clients, the scene
board process, the power service and the lock screen call them. Builds without
the scene board use the window and display servers under `wmserver/` and
`dmserver/` in their place.

| component | state it keeps | operations | what is hard |
|---|---|---|---|
| **Screen power handshake** (SSM, `session_display_power_controller.cpp`) | display state in three places (controller, screen sessions, `lastDisplayState_`), some 16 flags, three mutexes with condition variables | WakeUpBegin/End, SuspendBegin/End, SetDisplayState, SetScreenPowerForAll, TryToCancelScreenOff, ForceSkipScreenOffAnimation, NotifyDisplayEvent, SetKeyguardDrawnDoneFlag | flags are plain bools read and written outside the mutexes; waits have no predicate; answers and cancels race the timer |
| **Snapshot picker** (`connection/screen_snapshot_picker_connection.cpp`, `screen_session_ability_connection.cpp`) | the connection object, its stub's fields and flag | GetSnapshotByPicker; connect, disconnect, answer and death callbacks | a wait without a timeout, released without the mutex; the extension dies or is dropped |
| **Window focus** (SSM, `window_focus_controller.cpp`, `session.cpp`) | focus groups, `isFocused_`, highlight set, post-process requests of each session | focus and unfocus requests, flush of UI parameters, state changes, destruction, displays that come and go | one event starts several focus changes; notifications are held back and given later by flags |
| **Session lifecycle** (`session.cpp`, `scene_session.cpp`, `js_scene_session.cpp`, SSM) | queue of start and stop tasks, SessionState, client stage, pid and token, `isActive_`, `isTerminating_` | PendingSessionActivation, TerminateSession, NotifySessionException, Clear; RequestSceneSessionActivation, Background, Destruction, ByCall; Connect, Foreground, Background, Disconnect | a task set running under a lock is posted after it, from three kinds of threads; answers name a type and not a task; clients linger, die and reconnect |
| Scene session manager, other parts | sceneSessionMap_, visibility, start-up and recovery tables | session creation, flushes, specific windows, recovery | tasks that hold sessions over a reposting |
| **User switch and client death** (SSM 8565-9160) | current user, SCB pids and proxies, display nodes of each user, screens each client knows | SwitchUser, SetClient, SwitchScbNodeHandle, HotSwitch, ScbClientDeathCallback, NotifySwitchUserAnimationFinish, connect and disconnect notices | waits for a client that may die; one switch inside a mutex while deaths, screens and delayed tasks go on outside |
| Screen connection and multi-screen modes (SSM, `multi_screen_manager.cpp`) | screen sessions, mirror/expand/only modes, secondary display | connect, disconnect, mode changes, BlockScreenConnect | disconnects during a mode change; condition variables that wait for the scene board |
| Virtual screens and screen groups (SSM, `screen_session.cpp`) | id maps, groups, combinations | create, destroy, make mirror/expand, unlink | id reuse, death of the owner |
| **Fold screen policies** (`fold_screen_controller/*policy*.cpp`; modelled: the dual one) | three copies of the display mode, running flag, count of tasks, panels, display nodes | ChangeScreenDisplayMode and its tasks, ExitCoordination, RecoverDisplayMode, SetOnBootAnimation | flag and count set by one thread and cleared by another, fold events in between |
| **Fold sensors**, super fold (`sensor_fold_state_manager.cpp`, `fold_screen_sensor_manager.cpp`, `super_fold_state_manager.cpp`; modelled: who asks for a mode when, on the dual device) | fold status, tent mode, angle | sensor events | a mutex held through the change a sensor asks for; thresholds and hysteresis |
| Screen session client (`screen_session_manager_client.cpp`) | copies of the screen sessions in the scene board | events from SSM | copies lag behind |
| Session manager recovery (`wm/src/window_manager.cpp`, `session_manager.cpp`) | proxies, recovery listeners | reconnect after the scene board died | a client's call during recovery |
| Persistence and event channel | snapshot files | save, load, rename | mostly file I/O |
| Clients (`wm`, `dm`, `dm_lite`), legacy servers (`wmserver`, `dmserver`), extension windows, interfaces, previewer, utilities | | | proxies, or code that other builds use |

How they interact. The power service calls SSM on one thread; SSM tells its
clients the display state and the lock screen the power event, and the lock
screen's answers return through NotifyDisplayEvent on binder threads. The scene
board receives screens from SSM, shows windows and sends back UI parameters
(FlushUIParams), state changes and focus requests, which SceneSessionManager
runs as tasks of one scheduler; screens that come and go create and remove its
focus groups. The picker is an extension process bound through the ability
manager.

A session is started and stopped by tasks that the ability manager and clients have
queued; SCB, on its JS thread, answers each of them with a request to
SceneSessionManager, which starts, hides or destroys it, and the client that the
ability manager starts connects to it.

Properties that make each of the modelled components correct: sections 3 to 8.
For the others: a change of the multi-screen mode that was started ends in the
mode asked for or in the one before; a screen id names one screen; recovery gives
every live client its session back once.

## 2 Plan

Done so far:

1. `ScreenPower` and `ScreenPowerProofs` - the handshake that decides whether
   the screen goes off; `DisplayState`, what SetDisplayState promises, and the
   proof that the handshake implements it.
2. `SnapshotPicker` and `SnapshotPickerProofs` - the blocking request to another
   process.
3. `WindowFocus`, `WindowFocusProofs` and `WindowFocusShiftProofs` - who has the
   focus, who knows it, what is highlighted.
4. `UserSwitch`, `UserSwitchProofs` and `UserSwitchNodeProofs` - which SCB is the
   current client and whose nodes are on top, with processes that die and restart at
   every step.
5. `DualFold` and `DualFoldProofs` - the display mode of a dual-panel fold device:
   threads that ask for modes, and the tasks that finish them.
6. `SessionLifecycle` and `SessionLifecycleProofs` - one main window from its start
   tasks to its destruction, with the clients that come and go under it.

Open, in this order:

7. `MultiScreen` - external screens, BlockScreenConnect and
   NotifyScreenConnectCompletion, secondary mode changes; one internal and two
   external screens. Abstract specification: a set of screens with one mode
   each; `MultiScreen` to implement it with INSTANCE ... WITH.
8. `SessionLifecycle` composed with `WindowFocus` by the state changes both have
   (ToForeground, ToBackground, Disconnect), and on a PC (backgroundswitch).
9. The other fold policies (single, pocket, secondary), of which only the counting
   of tasks differs from `DualFold`; the threshold functions of the fold sensors
   and `WindowPair` of the legacy server as operators against a reference
   definition.
10. An abstract specification of `WindowFocus`: one focused session for each
   group that clients hear of in order, up to the two exceptions of section 11.

Every invariant and every action property of the passing runs is stated by a theorem;
what is left to TLC is liveness. The modules contain no RECURSIVE operator, so all of them
can be proved about. Every module keeps to one layout: one component module, one MC module
with the instances, a proof module or two once there are theorems.

## 3 ScreenPower: the screen on/off handshake

`ScreenPower.tla`; instances in `MCScreenPower.tla`; proofs in
`ScreenPowerProofs.tla`.

Threads. `Power` is the power service's thread, which calls WakeUpBegin,
WakeUpEnd, SuspendBegin, SuspendEnd, SetDisplayState and SetScreenPowerForAll one at a time.
`Callers` are binder and fold-policy threads in NotifyDisplayEvent,
TryToCancelScreenOff, ForceSkipScreenOffAnimation and SetKeyguardDrawnDoneFlag. `pc`
says where each thread is.

State. `flags` holds the flags of SSM and of the controller under their names
(`needScreenOffNotify_` is `flags.needScreenOffNotify`). `displayState` is the
controller's, `screenState` that of the screen sessions, `lastDisplayState`
SSM's; `panel` is the power state of the panel; `announced` what
NotifyDisplayStateChanged said last; `req` the arguments and locals of the
running call; `mutex` who owns `notifyMutex_`, `screenOffMutex_` and
`screenOnMutex_`.

Steps. The flags are not atomic and are read outside the mutexes, so each test
of a flag is a step of its own and its result is used later (OffTest and
OffNeed, OnTest and OnNeed, CancelReadGot and CancelReadNeed, OffCheck and
OffCanceledAfterNotify). A section of the power thread that runs under a mutex
and touches nothing the others read outside it is one step. A wait_for is
entered (OffWait), ended by a timer (OffTimer), by a notification (NotifyAll) or by
nothing (OffSpurious), and left when the mutex is free again (OffWake,
OffTimeout).

`credit` and `cycle` are history variables that no action reads except for the
bound: cancels granted less refusals, and what happened since the last
SuspendBegin.

Properties:
- `RefusalsAreGranted`: a screen-off is refused at most once for each cancel that
  was granted, although both flags are tested and reset without a mutex.
- `EarlyCancelHonoured`: a cancel that came before the suspend was announced is
  never followed by a screen-off that succeeds.
- `ScreensAgree`: between calls, controller, screens and `lastDisplayState_` hold
  the same state, however a screen-off ended.
- `ImplementsDisplay`: SetDisplayState as `DisplayState` promises it. There, three
  copies of the state take a requested state in one step, and the clients are
  told it (or ON_SUSPEND for a display that goes off), or the request for OFF is
  refused, all copies keep what they had and the clients are told UNKNOWN. The
  refinement mapping gives the abstract copies the old state (`req.last`) for as
  long as the call runs, although controller and sessions change early, in
  steps, and are restored when the screen-off is refused.
- `NoDanglingWait`: `needScreenOffNotify_` is not left set after its wait, timer,
  answer and cancel racing.
- `CallsReturn` (liveness): every call of every thread returns.
- `GrantedCancelStopsScreenOff`: what the API promises; it fails (section 11).

Fairness. `FairSpec` is strong fairness of PowerStep and of CallerStep for each
caller: a thread inside a call goes on, wait_for's timers run out, and a mutex
that keeps being released is some time acquired. No fairness is put on new
calls, answers of the lock screen or spurious wake-ups, so nobody has to answer.

Left out: builds without a screen session or a controller, permission failures,
and the length of the delay (a wait may time out at once). DOZE and DOZE_SUSPEND
as display states are in the module and under `TypeCorrect`, not in the runs: a
refused DOZE leaves the three copies apart. What the module shows and no property
is about: a cancel during a suspend for a collaboration is not looked at
(`session_display_power_controller.cpp`, HandleSetDisplayStateOff); a skip granted before the
notification leaves `skipScreenOffBlock_` set for the next suspend when its own
is cancelled; a late answer of the lock screen to one suspend lets the next one
pass at once; a fingerprint that arrives during the render service call is
dropped.

## 4 SnapshotPicker: asking the picker for an area

`SnapshotPicker.tla`; instances in `MCSnapshotPicker.tla`; proofs in
`SnapshotPickerProofs.tla`.

`Clients` call GetSnapshotByPicker; `snapBypickerMutex_` lets one through. A call
connects the extension (AlreadyConnected, ConnectExtension), waits up to a timer
for the connection (LinkWait, LinkCheck), sends the request with
`remoteObjectMutex_` held (Send, SendReturn), resets `sendMessageWaitFlag_`
(ResetFlag), waits for it without a timeout (TestFlag, Wait), reads the stub
field by field (ReadErrCode, ReadScreen, ReadRect) and disconnects. `stub` are
the fields of the connection's stub object, `connection` whether
`abilityConnection_` is set. The callbacks run on other threads:
StoreRemote/AddObjectDeathRecipient/ConnectDone are OnAbilityConnectDone,
DisconnectDone is OnAbilityDisconnectDone, AnswerArea/AnswerRect/AnswerPrivacy/
AnswerUnknown are OnRemoteRequest, DeathRelease/DeathClear the death recipient.
PickerDies is the environment.

Properties:
- `AnsweredIsSelected`: when the picker answered with an area and lived, a
  successful call returns that area: no half of another, none of an earlier call.
- `LeftWaitingOnlyIfMissed`: a raised flag leaves a call waiting only if it was
  raised before the call waited.
- `BrokenConnectionUsedOnce` (proved, in no run): a connection object left by a
  failed connect spoils one call.
- `CallReturns` (liveness): every call returns, the queued ones too, unless the
  release came before the wait (`missed`) or the ability manager dropped the
  connection (`dropped`). The code hangs in both cases; the property says that
  there is no third.

A picker that dies before it answers ends the wait as an answer does
(`screen_session_ability_connection.cpp:91`), and the call returns DM_OK with
screen 0 and an empty rectangle, which `display_manager.h:296` calls the area the
user selected. The module has that step; `AnsweredIsSelected` is about a picker
that lived.

Fairness. Strong fairness of each client's CallStep: the thread runs, gets its
turn at the mutex, and the timer of `connectedCv_` runs out. Weak fairness of
Callback: the ability manager reports the connection, and the user answers the
picker sooner or later. None for PickerDies, DisconnectDone and spurious
wake-ups.

Each connection has a stub of its own, so callbacks of an earlier connection
touch an object that nobody reads any more, and only the current is kept.
SendMessageSync with a timeout belongs to the cast connection and is not part of
this module.

## 5 WindowFocus: focus groups of the scene session manager

`WindowFocus.tla`; instances in `MCWindowFocus.tla`; proofs in
`WindowFocusProofs.tla` (the highlight) and `WindowFocusShiftProofs.tla` (where the
focus goes and who is told).

All of it runs in tasks of one scheduler thread. What a task does after it called
into the focus code (the listeners of a state change, the disconnection inside a
destruction, the requests of a flush one after the other) is kept in `task`,
`subject` and `todo`; requests and state changes wait for `Idle`.

State: for each session `state`, `visible`, `z`, `display`, `starting`
(`isStarting_`) and `post` (`postProcessFocusState_`); `groups` is
`focusGroupMap_` with the focused id, the last focused ids and
`needBlockNotifyFocusStatusUntilForeground_`; `groupOf` maps displays to groups;
`isFocused`, `highlighted` and `highlightIds` are the flags of the sessions and the
set; `told` and `lit` are what the clients were told last.
`needBlockNotifyUnfocusStatus_` is always set just before ShiftFocus reads it, so
it is an argument of ShiftFocus here.

Actions: AskFocus (RequestFocusStatus, RaiseWindowToTop, ShiftAppWindowFocus),
AskUnfocus, AskImmediatelyBySCB, MoveUpBySCB, AskBySCB (RequestFocusStatusBySCB by
reason), AllAppUnfocus, Activate (RequestSceneSessionActivationInner), Connect,
ToForeground and OnForeground, ToBackground and OnBackground, Destroy and
Disconnect, FlushUIParams, PostProcessFocus with DelayFocusChange, MoveToDisplay,
AddFocusGroup, RemoveFocusGroup.

std::sort in PostProcessFocus is given a comparison that is no strict weak order;
the order it leaves is then undefined. `MayPrecede` allows any order that some
chain of comparisons explains. A traversal by zOrder may meet windows with equal
zOrder in either order (`Topmost`).

Properties:
- `FocusFlagMatches`: `isFocused_` of the sessions and the focused ids of the
  groups agree, and no focused id is that of an erased session.
- `ToldMeansFocused`: a client that was told of the focus is told when it is gone,
  although notifications of both kinds are held back.
- `HighlightMatches`: `isHighlighted_` and `highlightIds_` agree, and with one
  display group the focused session is highlighted.
- `FocusStaysInGroup`: the focus of a group passes to sessions on its displays only.
- `OneShiftPerFlush`: one flush moves the focus of a group once.
- `KeyguardKeepsFocus`: nothing below a focused keyguard takes its focus.
- `FocusedForegroundTold`, `HighlightTold`: an app in the foreground that has the
  focus was told so, and an app in the foreground was last told what its
  highlight is, as `window.h` says of its listeners; they fail (section 11).

No fairness: every property is one of safety.

Scope: a PC with the scene board core, main windows of apps and the scene board's
own system windows, all focusable and focused on show. Left out are sub-windows,
dialogs, topmost and split-screen windows, voice interaction, recents, a
full-screen dropdown panel, STATE_INACTIVE and pausing, failures to start the
ability, and flushes that change nothing. Whether an app that starts waits for
its starting window (`hidingStartWindow_`) is left open at each flush. The
default display stays connected. The step back to the desktop when a pop-up menu
gives up the focus (BackToDesktop) is in the module; no run has a pop-up. ShiftAppWindowFocus runs on a binder thread in
the code and as a task here; its data races are beyond the model.

## 6 UserSwitch: one client, several scene boards

`UserSwitch.tla`; instances in `MCUserSwitch.tla`; proofs in
`UserSwitchProofs.tla` and, about the display nodes, in `UserSwitchNodeProofs.tla`.

Threads. A SetClient call for each SCB process that starts (`setCall`), a
SwitchUser call of a process whose user comes back (`hotCall`), the death
recipient's handler (`death`), the screen events (`event`), posted
SwitchUserCallback tasks (`tasks`) and one-way notices of animations that ended
(`own`, `owed`). A switch holds `oldScbPidsMutex_` from Begin to Finish, its wait
for the animation included (`Locked`); the others run beside it.

State. `proxy` is `clientProxy_`, `clientMap` `multiClientProxyMap_`, `user` and
`settings` the two user ids, `pid` and `oldPids` the SCB pids; `flag` is
`animateFinishAllNotified_`. `session`, `nodes`, `tree` and `z` are the display
nodes: whose node each physical screen's session holds, the nodes of
`userDisplayNodeMap_`, the render tree and the position Z there. `told` is what
each client has been told of screens, `drawsOn` the node it got with a screen,
`scbPid` what the render service was told last.

Actions. SetClientBegin, SetClientDeal, SetClientTell (SetClientInner),
SetClientNode (SwitchScbNodeHandle, cold), SetClientFinish and
AddScbClientDeathRecipient are the cold switch; SwitchUser, SwitchUserNode
(SwitchScbNodeHandle with HotSwitch) and SwitchUserFinish the hot one;
RunCallbackTask the delayed SwitchUserCallback; NotifySwitchUserAnimationFinish
the notice; DeathDropsClient and DeathForgetsPid ScbClientDeathCallback; Connect,
ConnectTold, Disconnect and DisconnectErases the screens; Start and Die are the
processes, which die at any time, inside a call too.

History: `timedOut`, `early`, `raced`, `away`, `late`, `crossed`, `lost` and
`overtook` record irregularities that the properties name as exceptions. No
action reads them. Each exception is something that the code lets happen:

- `ProxyIsOfCurrentUser`: between two switches the client is a process of the
  current user, once that user has registered; and a process that registered, was
  switched to last and lives is the client, whatever death handlers of earlier processes
  run late: the handler looks at the pid (SSM 8572).
- `CurrentUserOnTop`: between two switches the current user's nodes are on the
  tree above everyone else's. A SwitchUser that finds no client (its SCB died
  before) gives up after it put its user's nodes on the tree (SSM 9044), and a node
  made of a new screen by a restart of the current user's SCB is never raised,
  since SwitchScbNodeHandle leaves the nodes of a switch to the current user
  alone: after both, that one node is below the other user's (`NeverRaised`).
- `MainNodeIsDrawnOn`: the built-in screen's session holds the node that the
  current client draws on.
- `DeadProxyOnlyIfMissed`: the client is dead only while its death is on its way,
  or if it died before AddDeathRecipient (SSM 8600), or with a SwitchUser queued,
  or when another switch has taken its pid.
- `GoneScreenShownOnlyIfRaced`, `ScreenMissedOnlyIfAway`: what the clients were
  told of the screens; exceptions are a virtual screen that goes while a client
  registers, and a screen that is connected under another client.
- `EndedEarlyOnlyAfterTimeout` (proved, in no run): the notice of one switch ends the wait of another
  only after a wait timed out; the flag of a late notice is not taken back.
- `SettingsFollowUser` (proved, in no run): the settings are the current user's, unless calls overlap:
  SwitchUser sets them before the mutex, SetClient under it.
- `RenderedPidIsCurrent`: the render service has the current SCB's pid, unless a
  switch came before the delayed task of an earlier one, or found no old pid.
- `SetClientReturns` (liveness): calls that register a client return.

Fairness: weak fairness of "some call takes a step". The wait for the animation
has a timeout, so the holder of the mutex goes on; nothing is assumed of
processes, users, screens and animations, nor of the order in which threads get
the mutex, so with endless switches one call might starve. The bounds stop that,
and the property is about all of them being done.

Left out: concurrent users (IsConcurrentUser() is false), mirrored screens, the
recovery of the multi-screen mode after a switch. The bounded wait for
`userSwitching_` before the mutex is part of being queued, and the death handler's
wait for the next switch may end at any time.

## 7 DualFold: the display mode of a phone with two panels

`DualFold.tla`; instances in `MCDualFold.tla`; proofs in `DualFoldProofs.tla`.

DualDisplayFoldPolicy shows one of the modes MAIN, SUB, FULL and COORDINATION.
ChangeScreenDisplayMode may run on the thread of the fold sensor, of tent mode, of
an IPC call, of the power manager, of the boot or of the screen power runner; it
holds no mutex. It stores the mode it is asked for, gives up while a change runs,
and otherwise sets the running flag and a count of 3, posts panel work to the
runner, and counts down once; the posted work counts down twice. Who counts to zero
clears the flag and, if another mode was stored meanwhile, starts a change to it on
its own thread.

State. A thread is a stack of calls (`stack`), so that a change started from the
end of another, from a power-off or from a sensor report returns to the right
place. `queue` are the runner's tasks; a task that the runner posts to itself runs
at once, as in TaskScheduler. `cache`, `last`, `current`, `running`, `pending` and
`screenId` are the policy's members; `nodes` the display nodes on the tree, `lit`
the panels that are powered, `deviceOn` and `wake` the power manager's side;
`notices` the answers that the SCB owes while the boot animation is shown.

Actions. SetLastCacheDisplayMode, TestRunning, Start, PostWork and Finish are
ChangeScreenDisplayMode; CountDown, TestCount and CompareWithCache
SetdisplayModeChangeStatus(false), whose decrement and test are two steps; TakeTask,
TurnOff, TurnOn, TurnOnMain, TurnOnSub and SetPanel the runner; PowerOff, PowerOn,
PostPanel and RecoverDisplayMode SetScreenPower; PostWork what a change posts, for the
coordination mode in three steps: ReadScreenOn keeps the power state in the frame, PostOnMain
and PostOnSub hand it to their tasks; ExitSub and ExitMode
ExitCoordination; Report, HandleReport, SwitchTent and HandleTent the sensors, with
mStateMutex_ held through the change they ask for (`StateLocked`); then
SetFoldDisplayMode, LockDisplayStatus, CreateCastScreen,
NotifyFoldToExpandCompletion, ConnectSub, PowerInit and
RecoverWhenBootAnimationExit. TwoSecondsPass is the timeout of the running flag.

`upset` is a history of irregularities, each one something that the code allows:

| reason | what happened |
|---|---|
| overlap | a change started while another one had work left: both passed the test of the flag, which is set ten lines later, or the first took two seconds |
| stale | a thread caught up with a mode that was asked for no more |
| refused | SUB without its session, or COORDINATION on a device without it: the mode stays in the cache |
| unhandled | UNKNOWN or FULL, which ChangeScreenDisplayModeProc has no case for: nothing is posted and the flag stays set for two seconds |
| boot, bootRaces | a change during the boot animation, which counts down less than three; a change beside the end of the boot |
| bootBoth | the boot ended in the coordination mode, of whose panels FoldScreenPowerInit keeps one |
| bootBare | the boot ended on a panel without a display node, as a change during the animation leaves it: FoldScreenPowerInit takes away the other node. The mode that the end of the boot asks for brings one back, unless the flag that such a change left set refuses it |
| stray | a property change without a client, counted down like the answer to one |
| slow | two seconds passed with work left |
| exit, exitRaces, exitFolded | the coordination mode was left; while a change was under way, or with one started when the exit was half done; on a folded device, whose sub panel was just switched off |
| fromSub, coordOff | COORDINATION from SUB, which leaves the main node off the tree; COORDINATION on a device that is off, whose sub panel stays dark |
| staleOff | the tasks of COORDINATION, told that the device is off, are posted after a power key turned it on, and with it the panel of before: main becomes the panel of the power keys and stays dark |
| tentInChange | tent mode was entered or left during a change |

Properties, each with the reasons after which the code does not keep it:
- `CountIsOwed`: while a change runs, the count is what its call and tasks still
  have to count down, and at zero some thread is about to end it. After an
  overlap the count may end negative, with the flag set until it times out.
- `ModeAgrees`: when all is done, the mode is the one asked for last, though it was
  asked for while another change ran; the mode that clients are told is the one that
  requests are compared with; and once no change runs tent mode and coordination
  exclude each other. When a suspend leaves the coordination mode during the change to it, `last` says MAIN and
  `current` COORDINATION.
- `ActivePanelIsLit`: the panel that the power keys act on is lit on a device that
  is on. This one survives overlaps, unless the coordination mode was left during one. The
  other exceptions are an exit or the boot beside a change, and the main panel after `staleOff`:
  ChangeScreenDisplayModeToCoordination reads the power state
  (`dual_display_fold_policy.cpp:462`) and posts the task that uses it 22 lines on, with no
  lock, so that a power key may come in between. Without that exception TLC shows it.
- `PanelsFollowMode`: panels and display nodes are those of the mode. After
  COORDINATION entered from SUB is left, no node is on the tree.
- `Settles` (liveness): changes that overlap restart each other, not for ever; nor
  do the runner and a sensor wait for each other at mStateMutex_.

Fairness: weak fairness of each thread's steps, of the runner and of the SCB's
answer (NotifyFoldToExpandCompletion is sent for every request). None for sensors,
keys, IPC calls, and time passing.

Left out: how angles and hall states make a fold status (a report has a status
here), the timer of the hall confirmation (a late report comes on the runner at any
time), UpdateForPhyScreenPropertyChange, the recovery after a call (SSM 11967), the
dumper's TriggerFoldStatusChange, and the other policies.

## 8 SessionLifecycle: from the start task to the destruction

`SessionLifecycle.tla`; instances in `MCSessionLifecycle.tla`; proofs in
`SessionLifecycleProofs.tla`.

One main window on a phone. Starts and stops are tasks of `lifeCycleTaskQueue_`: the
front runs, and it leaves the queue when its answer comes (RemoveLifeCycleTask) or, 350
ms later, when another task is posted (PostLifeCycleTask). Both set the next front
running under the queue's lock and post it to the handler thread after the unlock.

Threads. `Callers` are binder threads, which post TerminateSession and
NotifySessionException; `posting` is the task that such a thread has set running and
not yet posted. The handler thread takes its messages (`handler`) one by one; what it
posts to itself runs at once (`inline`). The JS thread takes the tasks that were let
through (`jq`), calls SCB, removes the task from the queue and posts the next (`js`).
SCB's requests and the clients' requests come back to the handler thread as messages.

State. `queue` and `expired` are the queue and whether its front has run too long;
`tasks` lists all that were accepted, so that a task's number is its place; `session`
holds `state_`, `callingPid_`, the identity token, the client that `sessionStage_` speaks
to, `isActive_` and `isTerminating_`. `client` is the life of each client process,
`closing` those told to close, `ams` the call of the ability manager that the handler
thread is in. History: `ended` (tasks refused, or carried out by SCB), `early` (tasks
that lost their place), `called` (the last cold start was by RequestSceneSessionByCall).

Actions. TerminateSession, NotifySessionException and BinderPost on the binder
threads; PendingSessionActivation, Clear (with TerminateSessionNew), RefuseTask and RunTask
the tasks on the handler thread; JsCallback, JsRemove and JsPost the JS thread, and
ChangeUIAbilityVisibilityBySCB, which removes a start on its own account;
StartUIAbility and StartUIAbilityReturns (ColdStart, FailedStart)
RequestSceneSessionActivation and RequestSceneSessionByCall, around the call of the
ability manager; RequestSceneSessionBackground and RequestSceneSessionDestruction;
Connect, Foreground, Background and Disconnect of clients, which a binder thread checks
(ClientCheck) before it posts them (ClientPost). Expire is the passing of the 350 ms.
The clients' lives, CloseUIAbility and SCB's `Answers` are the environment.

Properties:
- `NoStall`: the front of the queue has been set running and is on its way to the
  answer that takes it out, and nothing behind it runs.
- `InOrder`: SCB gets starts and stops in the order in which they were accepted, but
  for those that lost their place to another's answer, or took too long.
- `TasksEnd` (liveness): every accepted task is refused by its own tests or reaches
  SCB, also when it lost its place.
- `ConnectedIsCurrent`: a connected session is connected to the client whose token it
  holds, whatever an earlier client still sends. While a start takes longer than its
  timeout the token is the earlier client's, and so is the connection.
- `ForegroundIsActive`: a session does not stay in STATE_FOREGROUND, from where it
  could not go to the background. A cold start by RequestSceneSessionByCall is the
  exception: it resets the connection and not `isActive_`
  (`scene_session_manager.cpp:10228`), so that the new client's Foreground skips
  SetActive.
- `TerminatingIsOwed`: `isTerminating_`, which refuses every further stop, is set only
  while a stop is on its way to SCB or the destruction that resets it on its way back.

Fairness: weak fairness of the handler thread, of the JS thread, and of each binder
thread's post after the unlock. A call of the ability manager returns (the code puts a
timeout around it) and a callback of SCB ends. Nothing is assumed of clients, of the
ability manager's closing, of time, or of new requests.

SCB's script is not in this repository. The model takes it that SCB answers a stop with
a destruction inside its callback, and a start with an activation, a call, or nothing;
besides, it activates, hides and changes visibility of its own accord.
TerminatingIsOwed rests on the first of these.

Left out: TerminateSessionTotal, a PC's backgroundswitch, the lock screen, reused delegator
windows, sessions erased from the map with their destruction, sub-windows, snapshots.
The start of a collaborator and a new want for a running client are a warm start here.

## 9 The runs

| run | cfg | question | bounds |
|---|---|---|---|
| `screen_power` | `ScreenPower.cfg` | TypeOK, RefusalsAreGranted, EarlyCancelHonoured, ScreensAgree, NoDanglingWait, and ImplementsDisplay | two callers (symmetric), ON and OFF, spurious wake-ups |
| `screen_power_live` | `ScreenPowerLive.cfg` | CallsReturn with every kind of wait, collaborations and authentication failures included | one caller |
| `cancel_race` | `ScreenPowerCancelRace.cfg` | GrantedCancelStopsScreenOff is violated | one caller |
| `snapshot_picker` | `SnapshotPicker.cfg` | TypeOK, AnsweredIsSelected, LeftWaitingOnlyIfMissed, CallReturns | two clients, screens 0 and 1, selections on 1 and on the missing 2 |
| `window_focus` | `WindowFocus.cfg` | ToldMeansFocused | app, floating app, dropdown panel; an app overtakes another |
| `window_focus_keyguard` | `WindowFocusKeyguard.cfg` | TypeOK, FocusFlagMatches with erased sessions, OneShiftPerFlush, KeyguardKeepsFocus | app that starts, desktop, keyguard, focused before they are shown |
| `window_focus_displays` | `WindowFocusDisplays.cfg` | HighlightMatches, FocusStaysInGroup | two apps, two displays with groups of their own |
| `window_focus_untold` | `WindowFocusUntold.cfg` | FocusedForegroundTold is violated | two apps |
| `window_focus_highlight` | `WindowFocusHighlight.cfg` | HighlightTold is violated | two apps |
| `user_switch` | `UserSwitch.cfg` | TypeOK, seven invariants of section 6 and SetClientReturns | two users, three processes (one a restart), two physical screens and a virtual one, `Budgets` |
| `dual_fold` | `DualFold.cfg` | TypeOK, four invariants of section 7 and Settles | all six threads, `Scenarios` |
| `session_lifecycle` | `SessionLifecycle.cfg` | TypeOK, five invariants of section 8 and TasksEnd | a queue of two tasks, a binder thread, two clients, `Budgets` |

`user_switch`, `dual_fold` and `session_lifecycle` turn deadlock checking off, because
a phone that nobody touches rests once the bounds are used up; that calls and tasks
end there is what SetClientReturns, Settles and TasksEnd say. In the other runs some thread or task can
always go on.

Bounds, and why they are enough:
- `MaxCredit` (ScreenPower) stops a caller from starting a cancel while that many
  granted cancels are unused. Two callers with 2 cover two cancels in flight at
  once, which is where grants and refusals meet; the flags cannot count further.
- Callers: every race of the handshake is between the power thread and one other
  thread, or between two that hold `notifyMutex_` in turn; a third waits at the
  mutex. The theorems of section 10 hold for any number.
- Clients (SnapshotPicker): one holds the mutex, one queues or comes with the
  connection the first left behind.
- Sessions (WindowFocus): three give every rule of the checks (the asking, the
  focused and a blocking session in between) something to apply to. `Kind`,
  `Blocking` and `Shared` choose the windows, `Ops` the requests of the run.
- `ZOrders` gives each session the zOrders a flush may assign; an app has two
  where it can overtake another, and one where sessions of different layers are in play.
- `Budgets` (UserSwitch) are how many processes start, die, switch back and how many
  screens are connected in one behaviour: a hot switch with a restart, two hot
  switches, and a restart or two users with a screen that comes and goes. Every
  exception that a property names occurs within them.
- `Scenarios` (DualFold) are how often each kind of event happens in one behaviour:
  two requests or reports, or one with a power key, tent mode, a cast, a lock, a
  boot. Two events at once are what the policy's flag and count have to cope with.
  The CONSTRAINT `Followed` ends a behaviour at the first overlap, except in the
  scenarios with `deep` = 1, which are followed through the restarts to their end. In
  the two with `deep` = 2 the calls come one after the other, which leaves room for
  longer behaviours: a boot with changes before and after it, and exits from the
  coordination mode between them.
- `Budgets` (SessionLifecycle) are how many starts, stops, requests of SCB's own, client
  processes, deaths, clients' requests and expiries one behaviour has: two starts with a
  stop, a late answer and a stray removal; a second client while the first one still asks; a
  client that dies while another is started; stops from two threads; requests of SCB's own.
  `QueueLimit` 2 makes a queue full that is 15 in the code; `MaxEnd` 4 is as many tasks as
  TasksEnd looks at, more than any of the budgets posts. One binder thread is enough: two
  never hold the queue's lock together, and the handler and JS threads post beside it.
- Nothing else is bounded: within the bounds all the state spaces are finite and
  explored in full.

Each property has a mutant in PROJECT.json: a definition with a plausible bug,
defined beside the original (`OffTimerNever`, `EndWaitUntimed`, `OffUncounted`,
...), with which TLC finds the property violated.

## 10 The proofs

Each proof module uses the ASSUMEs of its component module only.

`ScreenPowerProofs.tla`, for any set of callers, any reasons, states, powers and
operations and any `MaxCredit`:

- `TypeCorrect == Spec => []TypeOK`. The type invariant is inductive; its four
  parts (flags, threads, data, history) have a step lemma each (`FlagsStep`,
  `ThreadsStep`, `DataStep`, `HistoryStep`), so that a step is looked at by the
  part it disturbs.
- `RefusalsCorrect == Spec => []RefusalsAreGranted`. `credit >= 0` is not
  inductive: a refusal takes one away. `CreditInv` adds that the credit covers
  the flags that stand for a grant not yet used, `needCancelNotify_` and
  `canceledSuspend_`, one each, and that a power thread between test and reset
  of `canceledSuspend_` still has it set. `SameFlags` and `NotClear` name the
  steps that cannot disturb it; the rest are proved one by one (`CreditStep`).
- `AgreementCorrect`: if the power service asks for ON and OFF only,
  `Spec => []ScreensAgree`. `AgreeInv` says what the three copies are at every
  position of the power thread: during a screen-off the values to restore are
  the ones in `req`. The hypothesis is needed: a refused DOZE is not undone.
- `DisplayRefinement`: under the same hypothesis `Spec => Display!Spec`: every step
  of the handshake is a step of `DisplayState` or leaves its variables alone. It
  uses `AgreeInv` for the copies at the end of a call.
- `DanglingCorrect == Spec => []NoDanglingWait`. The strengthening says who is
  about to take `needScreenOffNotify_` down at every place where it is up: the
  thread that waits, the one that was woken, or the one that timed out.
- `EarlyCorrect`: unless suspends for a collaboration are among the reasons,
  `Spec => []EarlyCancelHonoured`. `EarlyInv` adds that a cancel is granted early
  only while no screen-off is past its test of `needCancelNotify_` or done, and
  that the flag then stays up until a screen-off tests it.

`SnapshotPickerProofs.tla`, for any clients, screens, selections and answers,
with and without deaths and dropped connections: `TypeCorrect`, `AnswerCorrect`
(AnsweredIsSelected), `MissedCorrect` (LeftWaitingOnlyIfMissed) and `BrokenCorrect`
(BrokenConnectionUsedOnce). All follow from `CallInv`: one client is between mutex
and return (`OneInside`), nothing is answered before the request is sent and the
stub holds what the picker has answered so far (`AnswerKept`), what the call has
read of it is from that answer (`ReadKept`), a raised flag with a waiting call was
missed (`MissedIfUp`), and a connection object that is left behind has not been
used before a connect finds it (`FreshUnlessUsed`).

`UserSwitchProofs.tla`, for any users, processes, screens and budgets: `TypeCorrect`;
`ProxyCorrect`, `NoticesCorrect`, `SettingsCorrect`, `GoneScreensCorrect`,
`MissedScreensCorrect` and `DeadProxyCorrect` for the properties of section 6.
`SwitchInv` adds to `TypeInv` that one call holds the mutex (`Mutex`), what the
proxy and the map are at each place of a switch (`ClientAgrees`), that the proxy is the
client in the map and is not dropped while the current process lives (`ClientKept`), that until some
wait times out a notice comes during the wait it is for (`NoticesInTime`), what
each process has been told of the screens at each place of its registration
(`ToldAgrees`), and what is known of a death that nobody has handled
(`DeathsSeen`).
`CallEffect`, `QuietStep` and `OutsideStep` say what a step can do to the places of
the calls, so that the parts are shown for a few kinds of steps.

`UserSwitchNodeProofs.tla`, about the same system: `NodesCorrect`, `MainNodeCorrect` and
`RenderedPidCorrect`. `NodeInv` has four parts. `NodesAgree` gives the z and the tree of the
nodes of every user at each place of a switch: those of the user to come are on the tree from
its deal on, those of all the others are low or of a process that is still dealing.
`RenderAgrees` says which pid the render service has, or gets from the task that is left,
until two switches overtake each other; `FirstSwitch`, that before the first switch there is
nothing to hand over from; and `MainAgrees`, what each process draws the main screen on. A
step that neither takes nor leaves the mutex leaves the pids alone (`PlainStep`); the two
that move nodes are described once (`DealEffect`, `HandOverEffect`).

`SessionLifecycleProofs.tla`, for any queue limit, binder threads, clients and budgets:

- `TypeCorrect == Spec => []TypeOK`. `TypeInv` adds to it what the actions rely on: only
  a queue that is not empty has run too long, and while the ability manager's call runs the
  handler thread has the activation or the call before it and no task to run at once.
- `ConnectedCorrect`, `ForegroundCorrect`. `LifeInv` adds that a client connects once,
  after it was started and before the session speaks to it (`ConnectsOnce`), and when
  `isActive_` may be set (`ActiveOK`). Both are needed for ForegroundIsActive: a session
  that connects anew while it is active would skip SetActive.
- `StallCorrect == Spec => []NoStall`: inductive with `TypeInv`, once each step is known to
  post to the queue, to remove from it, or to leave it alone and move tasks forward
  (`PostStep`, `RemoveStep`, `OtherStep`, collected in `WayEffect`).
- `OrderCorrect == Spec => []InOrder`. `Places` says that the queue holds the tasks with
  the highest numbers in their order, that all before them ended or lost their place, and
  that nothing behind the front is on its way.
- `OwedCorrect == Spec => []TerminatingIsOwed`.

`WindowFocusProofs.tla`, for any sessions, kinds of windows, zOrders, displays and
display groups, and any set of requests:

- `TypeCorrect == Spec => []TypeOK`, and with it that a focus is passed to a
  session or to none, and that the session of a pending state change or
  disconnection is not erased before it.
- `HighlightCorrect == Spec => []HighlightMatches`. What a focused session says of
  the highlight is not inductive: a shift takes `isFocused_` from the focused id of
  the group, so `HighlightInv` adds that with one group no other session that is
  alive says that it is focused, and that the default display keeps the group in
  `focusGroupMap_`. Erased sessions stay erased (`GoneForGood`), which is where
  the type invariant's part about disconnections is used.

Both rest on `FocusStep`: every step shifts the focus of one group from groups
whose focused ids it has not touched (`Shifts`, with one lemma for each way to
ShiftFocus), leaves focus and highlight alone (`Still`), or is one of the two
display actions (`Plug`). Each invariant is shown for the three, not for twenty
actions.

`WindowFocusShiftProofs.tla`, on top of it: `GroupCorrect` (FocusStaysInGroup),
`KeyguardCorrect` (KeyguardKeepsFocus), `OneShiftCorrect` (OneShiftPerFlush), `FlagsCorrect`
(FocusFlagMatches) and `ToldCorrect` (ToldMeansFocused). `Shifted(g, next)` says what
ShiftFocus does to the groups, the flags and the notifications, `Steady` and `Moved` what the
other steps do; each property follows from these. Three of the theorems have a hypothesis,
and TLC has a counterexample without it:

- `OneShiftCorrect` needs `"MOVE" \notin Ops`. A group remembers its last sessions, also when
  they move to another display; a flush that falls back on such a session asks for the focus
  of a group that it has served before. The comment at `scene_session_manager.cpp:13528` says
  that each group is asked for once.
- `FlagsCorrect` and `ToldCorrect` need `Settled`, that there is neither MOVE nor PLUG: a
  session that leaves the group it has the focus of keeps `isFocused_`, and nobody tells it.
  The runs with moves and displays check the properties that survive this.

`DualFoldProofs.tla`, for any requests, reports, threads' events and scenarios:

- `TypeCorrect == Spec => []TypeOK`. `TypeInv` adds which calls each thread may have and
  where in them it may be (`StackOK`), that a power call which waits for its panel task is
  the one that posted it (`PanelOK`), and that power calls, the boot and its trigger call nothing
  while they are there (`LoneOK`). `Moves` says what a step does to the list of calls of a
  thread, `Trades` the same as sets; `Held` is the set of all calls, the queued ones included.
- `PanelCorrect == Spec => []ActivePanelIsLit`, by `FoldInv`. `ModeInv` says that without
  overlaps the changes under way and their tasks are to the mode that is told to the clients,
  `PowerOK` that a device that is on is in no power call but the one that turned it on, whose
  panel task comes after every task of the coordination mode that was told otherwise (but after
  `staleOff`), and `LitOK` that the panel of the power keys is lit, or about to be.
- `CountCorrect == Spec => []CountIsOwed`. What is owed is the size of a set of pairs, a call
  and a number below what it counts for, so that a step can be shown to take some of them
  and add others (`Exchange`) with the library's theorems on cardinality; a sum by recursion
  would need induction. `FlightOK` bounds the count while the change is being counted,
  `EvenOK` gives it afterwards, with the call that will end the change.
- `AgreeCorrect == Spec => []ModeAgrees`. `CacheOK` and `WantedOK` follow the mode asked for
  last from the request through the cache to the change, or to the call that will see that
  another one was asked for; `TentOK`, the tent mode and the change that leaves the coordination
  mode for it.
- `FollowCorrect == Spec => []PanelsFollowMode`, by `FollowInv`. A panel may be the wrong one
  for as long as a call or a task has yet to put it right, so that each part says which call
  that is. On one panel: the panel of the power keys is that of the mode, or a call will set
  it (`ScreenOK`), and the other panel is dark, or a call will turn it off (`OffOK`). In the
  coordination mode: the sub panel is lit, or a call will light it (`SubOK`), which it does
  with the power state that it read while the device was on (`LampOK`); no suspend darkens it
  (`AwayOK`), and the power state goes stale only if it was read as off (`PromptOK`); and nothing lights it again once the mode is being left (`LeftOK`). The display
  nodes are those of the mode, or a call will give them (`NodesOK`). Together with `CoordOK`
  and `LitOK` that is the property, once no call is left. `FollowKept` is the step: the calls
  that a step adds owe all that the calls it takes away did.

Only model-checked: all liveness (fairness and ENABLED are beyond the prover).

## 11 What the runs found

1. `cancel_race`: TryToCancelScreenOff may return true and the screen goes off
   all the same: `needScreenOffNotify_` is still set when the wait has timed out,
   and the power thread may be past its test of `canceledSuspend_`
   (`session_display_power_controller.cpp:65`). `display_manager.h:395` promises
   that true means success. The same holds for a cancel during a suspend for
   collaboration, whose flags are not looked at.
2. `window_focus_untold`: RequestSessionFocusImmediately never takes back the flag
   that holds back focus notifications (`scene_session_manager.cpp:7459`): an app in
   the foreground that gets the focus from one that is still starting is not told.
3. `window_focus_highlight`: the flag that blocks the notification reaches
   Session::UpdateHighlightStatus (`session.cpp:3353`) as the one that asks for it:
   apps in the foreground are not told that they are highlighted, and no app is
   told that it is not.

## 12 What is not modelled

PROJECT.json lists every component with its status. Not modelled yet, and in the
plan: external screens and multi-screen modes, the other fold policies, what section 8
leaves out of the session lifecycle, recovery, virtual screens. Not to be modelled:
clients and proxies (they pass calls on), drawing, animation, file and database
I/O, dumping, configuration and tracing. The legacy servers serve other builds;
only the window pair has logic of its own that would be worth a module.

Known hazards of the modelled code that no property covers: those named under
"Left out" in section 3; a screen-off delay that is not above
SCREEN_OFF_MIN_DELAY_TIME; in the picker, a connection that is dropped during the
wait (OnAbilityDisconnectDone does not end it) and a death that counts as an answer;
in the focus, the order std::sort leaves in a flush, the unfocus request of a window
that is hidden in the same flush, an erased group whose session keeps `isFocused_`,
and ShiftAppWindowFocus on its binder thread; in the life of a session, the start whose
answer SCB never gives, which holds the queue until another task comes; in the user switch, a waiter for
`userSwitching_` that is woken early; in the fold policy, the decrement and the
reset of the count by two changes at once beyond what `CountIsOwed` excepts.
