---------------------------- MODULE ScreenPower ----------------------------
(***************************************************************************)
(* The screen on/off handshake of ScreenSessionManager and its             *)
(* SessionDisplayPowerController.                                           *)
(*                                                                         *)
(* One thread, Power, runs the calls of the power service one at a time:   *)
(* WakeUpBegin, WakeUpEnd, SuspendBegin, SuspendEnd, SetDisplayState and   *)
(* SetScreenPowerForAll.  SetDisplayState blocks on a condition variable   *)
(* until the lock screen answers or a timer runs out.  The threads in      *)
(* Callers are the binder and fold-policy threads that meanwhile run       *)
(* NotifyDisplayEvent, TryToCancelScreenOff, ForceSkipScreenOffAnimation   *)
(* and SetKeyguardDrawnDoneFlag.                                           *)
(*                                                                         *)
(* Most of the flags are plain bools that are read and written outside the *)
(* mutexes, so every test of such a flag and every later use of its result *)
(* are separate steps.  At least one screen session is present, every      *)
(* caller has the system permission, and the controller object exists, so  *)
(* the early returns for those are not taken.                              *)
(***************************************************************************)
EXTENDS Integers, FiniteSets

CONSTANTS
  Callers,        \* threads other than the power thread
  NoThread,       \* owner of a free mutex
  IsPcDevice,     \* g_isPcDevice
  Reasons,        \* the PowerStateChangeReasons the power service uses
  DisplayStates,  \* the DisplayStates the power service asks for
  PowerStates,    \* the ScreenPowerStates the power service asks for
  CallerOps,      \* what the other threads do
  SpuriousWakeups, \* may wait_for return although nobody notified
  MaxCredit       \* bound: cancels granted and not yet consumed

Power == "power"
Threads == Callers \cup {Power}

\* PRE_BRIGHT stands for the three pre-bright reasons that leave the suspend
\* uncancellable without being an authentication failure.
AllReasons == {"NORMAL", "COLLABORATION", "PRE_BRIGHT", "AUTH_FAIL_OFF",
               "START_DREAM", "END_DREAM", "SHUT_DOWN"}
AllStates == {"UNKNOWN", "OFF", "ON", "DOZE", "DOZE_SUSPEND", "ON_SUSPEND"}
AllPower == {"ON", "ON_ADVANCED", "OFF", "OFF_ADVANCED", "SUSPEND", "DOZE", "DOZE_SUSPEND"}
LockEvents == {"KEYGUARD_DRAWN", "SCREEN_LOCK_SUSPEND", "SCREEN_LOCK_OFF",
               "SCREEN_LOCK_FINGERPRINT", "SCREEN_LOCK_DOZE_FINISH",
               "SCREEN_LOCK_START_DREAM", "SCREEN_LOCK_END_DREAM"}
AllOps == LockEvents \cup {"CANCEL", "SKIP", "KEYGUARD_RESET", "PHY_SCREEN"}
Request == [state : AllStates, last : AllStates, shown : AllStates,
            power : AllPower, reason : AllReasons]
NoRequest == [state |-> "UNKNOWN", last |-> "UNKNOWN", shown |-> "UNKNOWN",
              power |-> "ON", reason |-> "NORMAL"]

ASSUME ThreadsAssumption == /\ Power \notin Callers
                            /\ NoThread \notin Callers \cup {Power}
ASSUME InputsAssumption == /\ {IsPcDevice, SpuriousWakeups} \subseteq BOOLEAN
                           /\ Reasons \subseteq AllReasons
                           /\ DisplayStates \subseteq AllStates \ {"UNKNOWN", "ON_SUSPEND"}
                           /\ PowerStates \subseteq {"ON", "OFF", "SUSPEND", "DOZE", "DOZE_SUSPEND"}
                           /\ CallerOps \subseteq AllOps
                           /\ MaxCredit \in Nat

VARIABLES
  flags,            \* the bool members of the manager and of the controller
  mutex,            \* owner of notifyMutex_, screenOffMutex_, screenOnMutex_
  pc,               \* where each thread is
  op,               \* CANCEL or SKIP, in the code the two calls share
  req,              \* arguments and locals of the power thread's call
  displayState,     \* controller displayState_
  screenState,      \* DisplayState in the property of every screen session
  lastDisplayState, \* manager lastDisplayState_
  announced,        \* last state given to NotifyDisplayStateChanged
  panel,            \* ScreenPowerStatus last sent to the render service
  credit,           \* history: cancels granted minus screen-offs refused
  cycle             \* history of the current suspend

vars == <<flags, mutex, pc, op, req, displayState, screenState, lastDisplayState,
          announced, panel, credit, cycle>>
powerVars == <<req, displayState, screenState, lastDisplayState, announced, panel>>

FlagNames == {"needCancelNotify", "canceledSuspend", "canCancelSuspendNotify",
              "skipScreenOffBlock", "isSuspendBegin",
              "gotScreenOffNotify", "needScreenOffNotify",
              "keyguardDrawnDone", "needScreenOnWhenKeyguardNotify",
              "isScreenLockSuspend", "gotScreenlockFingerprint",
              "isMultiScreenCollaboration", "isPhyScreenConnected",
              "isPreBrightAuthFail", "pictureFrameReady", "pictureFrameBreak"}
CycleNames == {"granted", "early", "done", "spurious"}
Mutexes == {"notify", "off", "on"}

OffPcs == {"offLock", "offBlock", "offTest", "offNeed", "offWait", "offWaiting",
           "offWoken", "offExpired", "offSkip", "offSuspend", "offCheck", "offClear",
           "offReturn"}
OnPcs == {"onTest", "onNeed", "onWait", "onWaiting", "onWoken"}
DreamPcs == {"dreamEnter", "dreamWaiting", "dreamWoken"}
InCall == OffPcs \cup OnPcs \* in SetDisplayState
PowerPcs == {"idle", "suspendFlags", "powerStatus", "powerFin"}
               \cup OffPcs \cup OnPcs \cup DreamPcs
CallerPcs == {"idle", "cancelGot", "cancelNeed", "cancelSet", "cancelFin",
              "lockGot", "lockNeed", "lockNotify", "lockFin",
              "keyNeed", "keyNotify", "keyFin"}

Init ==
  /\ flags = [f \in FlagNames |-> f = "keyguardDrawnDone"]
  /\ mutex = [m \in Mutexes |-> NoThread]
  /\ pc = [t \in Threads |-> "idle"]
  /\ op = [c \in Callers |-> "NONE"]
  /\ req = NoRequest
  /\ displayState = "UNKNOWN"
  /\ screenState = "UNKNOWN"
  /\ lastDisplayState = "UNKNOWN"
  /\ announced = "UNKNOWN"
  /\ panel = "ON"
  /\ credit = 0
  /\ cycle = [h \in CycleNames |-> FALSE]

-----------------------------------------------------------------------------
At(t, l) == pc[t] = l
Goto(t, l) == pc' = [pc EXCEPT ![t] = l]
Free(m) == mutex[m] = NoThread
With(f, b) == [flags EXCEPT ![f] = b]
SetFlag(f, b) == flags' = With(f, b)

\* Thread t moves from l to m: in a local step, which at most reads the flags,
\* and in one that writes them.
Move(t, l, m) ==
  /\ At(t, l) /\ Goto(t, m)
  /\ UNCHANGED <<flags, mutex, op, powerVars, credit, cycle>>
Write(t, l, m, newFlags) ==
  /\ At(t, l) /\ Goto(t, m)
  /\ flags' = newFlags
  /\ UNCHANGED <<mutex, op, powerVars, credit, cycle>>

\* notify_all on a condition variable whose only waiter is the power thread.
Woken(p) == CASE p = "offWaiting" -> "offWoken" [] p = "onWaiting" -> "onWoken"
              [] p = "dreamWaiting" -> "dreamWoken" [] OTHER -> p
NotifyAll(t, l, waiting) ==
  pc' = [pc EXCEPT ![t] = l,
                   ![Power] = IF @ = waiting THEN Woken(@) ELSE @]

-----------------------------------------------------------------------------
(* The calls of the power service that do not block.                       *)

WakeUpBegin(reason) ==
  /\ At(Power, "idle")
  /\ reason # "START_DREAM"
  /\ \/ /\ reason = "END_DREAM"
        /\ Goto(Power, "dreamEnter") /\ UNCHANGED flags
     \/ /\ reason = "COLLABORATION"
        /\ SetFlag("isMultiScreenCollaboration", TRUE) /\ UNCHANGED pc
     \/ /\ reason \notin {"END_DREAM", "COLLABORATION"}
        /\ SetFlag("isPreBrightAuthFail", reason = "AUTH_FAIL_OFF") /\ UNCHANGED pc
  /\ UNCHANGED <<mutex, op, powerVars, credit, cycle>>

\* WakeUpEnd and SuspendEnd both end a collaboration; outside one they only
\* send a power event.
EndCollaboration ==
  /\ At(Power, "idle")
  /\ flags.isMultiScreenCollaboration
  /\ SetFlag("isMultiScreenCollaboration", FALSE)
  /\ UNCHANGED <<mutex, pc, op, powerVars, credit, cycle>>

\* gotScreenOffNotify_ is reset first; a screen-off that is cancelled or that
\* completed before belongs to an earlier suspend.
SuspendBegin(reason) ==
  /\ At(Power, "idle")
  /\ reason # "END_DREAM"
  /\ \/ /\ reason = "START_DREAM"
        /\ Goto(Power, "dreamEnter") /\ UNCHANGED <<flags, req, cycle>>
     \/ /\ reason # "START_DREAM"
        /\ flags' = [flags EXCEPT !.gotScreenlockFingerprint = FALSE,
                                 !.isPreBrightAuthFail = reason = "AUTH_FAIL_OFF",
                                 !.gotScreenOffNotify = FALSE]
        /\ cycle' = [cycle EXCEPT !.granted = FALSE, !.done = FALSE]
        /\ req' = [req EXCEPT !.reason = reason]
        /\ Goto(Power, "suspendFlags")
  /\ UNCHANGED <<mutex, op, displayState, screenState, lastDisplayState, announced,
                 panel, credit>>

SuspendFlags ==
  /\ At(Power, "suspendFlags")
  /\ flags' = [flags EXCEPT
       !.canCancelSuspendNotify =
          @ \/ (~IsPcDevice /\ req.reason \notin {"PRE_BRIGHT", "AUTH_FAIL_OFF"}),
       !.isSuspendBegin = TRUE,
       !.isMultiScreenCollaboration = @ \/ req.reason = "COLLABORATION"]
  /\ req' = NoRequest
  /\ Goto(Power, "idle")
  /\ UNCHANGED <<mutex, op, displayState, screenState, lastDisplayState, announced,
                 panel, credit, cycle>>

\* GetPowerStatus.
PowerStatus(state, reason) ==
  CASE state = "ON" /\ reason = "PRE_BRIGHT" -> "ON_ADVANCED"
    [] state = "OFF" /\ reason = "AUTH_FAIL_OFF" -> "OFF_ADVANCED"
    [] OTHER -> state

PowersOff(status) == status \in {"OFF", "SUSPEND", "DOZE"}

SetScreenPowerForAll(state, reason) ==
  /\ At(Power, "idle")
  /\ flags' = [flags EXCEPT !.gotScreenOffNotify = FALSE, !.keyguardDrawnDone = FALSE]
  /\ req' = [req EXCEPT !.power = state, !.reason = reason]
  /\ Goto(Power, "powerStatus")
  /\ UNCHANGED <<mutex, op, displayState, screenState, lastDisplayState, announced,
                 panel, credit, cycle>>

\* SetScreenPower: an unlock by fingerprint that is under way keeps the panel
\* powered, except for a shut-down.
SetScreenPower ==
  /\ At(Power, "powerStatus")
  /\ LET status == PowerStatus(req.power, req.reason)
     IN IF /\ PowersOff(status)
           /\ flags.gotScreenlockFingerprint
           /\ req.reason # "SHUT_DOWN"
        THEN /\ SetFlag("gotScreenlockFingerprint", FALSE)
             /\ req' = NoRequest
             /\ Goto(Power, "idle")
             /\ UNCHANGED panel
        ELSE /\ panel' = status
             /\ Goto(Power, "powerFin")
             /\ UNCHANGED <<flags, req>>
  /\ UNCHANGED <<mutex, op, displayState, screenState, lastDisplayState,
                 announced, credit, cycle>>

\* After the render service call, which blocks, the fingerprint is forgotten.
SetScreenPowerFin ==
  /\ At(Power, "powerFin")
  /\ SetFlag("gotScreenlockFingerprint",
             /\ flags.gotScreenlockFingerprint
             /\ PowersOff(panel) => req.reason = "COLLABORATION")
  /\ req' = NoRequest
  /\ Goto(Power, "idle")
  /\ UNCHANGED <<mutex, op, displayState, screenState, lastDisplayState, announced,
                 panel, credit, cycle>>

-----------------------------------------------------------------------------
(* SetDisplayState.                                                        *)

\* UpdateDisplayState on every screen, then the controller's first lines.
\* DOZE_SUSPEND reaches the screens and the clients, not the controller.
SetDisplayState(state) ==
  /\ At(Power, "idle")
  /\ req' = [req EXCEPT !.state = state, !.last = displayState, !.shown = state]
  /\ screenState' = state
  /\ displayState' = IF state = "DOZE_SUSPEND" THEN displayState ELSE state
  /\ Goto(Power,
          IF state = "DOZE_SUSPEND" \/ flags.isMultiScreenCollaboration
          THEN "offReturn"
          ELSE IF state = "ON" THEN "onTest" ELSE "offLock")
  /\ UNCHANGED <<flags, mutex, op, lastDisplayState, announced, panel, credit, cycle>>

\* Controller and manager tell that the state was taken: SetDisplayState
\* returns true.
ReturnTrue ==
  /\ At(Power, "offReturn")
  /\ announced' = req.shown
  /\ lastDisplayState' = req.state
  /\ cycle' = [cycle EXCEPT !.done = (req.state = "OFF" \/ req.state = "DOZE")]
  /\ req' = NoRequest
  /\ Goto(Power, "idle")
  /\ UNCHANGED <<flags, mutex, op, displayState, screenState, panel, credit>>

\* The manager puts the screens back only when the state asked for was OFF.
RestoredNever(new) == new
Restored(new) == IF req.state = "OFF" THEN lastDisplayState ELSE new

\* A refused screen-off is told as UNKNOWN.
ToldAsState == req.shown
ToldUnknown == "UNKNOWN"

\* The screen-off was cancelled: SetDisplayState returns false.
ReturnFalse(l) ==
  /\ At(Power, l)
  /\ displayState' = req.last
  /\ announced' = ToldUnknown
  /\ screenState' = Restored(screenState)
  /\ lastDisplayState' = Restored(req.state)
  /\ credit' = credit - 1
  /\ cycle' = [cycle EXCEPT !.granted = FALSE, !.early = FALSE]
  /\ req' = NoRequest
  /\ Goto(Power, "idle")
  /\ UNCHANGED <<mutex, op, panel>>

\* HandleSetDisplayStateOff under notifyMutex_.
OffNotifiedUntested ==
  /\ Free("notify")
  /\ Write(Power, "offLock", "offBlock", With("canCancelSuspendNotify", FALSE))

OffNotified ==
  /\ Free("notify")
  /\ ~flags.needCancelNotify
  /\ Write(Power, "offLock", "offBlock", With("canCancelSuspendNotify", FALSE))

OffCanceledBeforeNotify ==
  /\ Free("notify")
  /\ flags.needCancelNotify
  /\ flags' = [flags EXCEPT !.canCancelSuspendNotify = FALSE, !.needCancelNotify = FALSE]
  /\ ReturnFalse("offLock")

\* WaitScreenOffNotify up to the call of BlockScreenOffByCV.
OffBlock ==
  Move(Power, "offBlock",
       IF ~flags.isSuspendBegin \/ flags.isPreBrightAuthFail THEN "offCheck"
       ELSE IF flags.skipScreenOffBlock THEN "offSkip" ELSE "offTest")

\* BlockScreenOffByCV.
OffTest ==
  Move(Power, "offTest", IF flags.gotScreenOffNotify THEN "offSkip" ELSE "offNeed")

OffNeed ==
  /\ At(Power, "offNeed")
  /\ SetFlag("needScreenOffNotify", TRUE)
  /\ cycle' = [cycle EXCEPT !.spurious = FALSE]
  /\ Goto(Power, "offWait")
  /\ UNCHANGED <<mutex, op, powerVars, credit>>

\* Lock screenOffMutex_ and start to wait, which releases it again.
OffWait ==
  /\ Free("off")
  /\ Move(Power, "offWait", "offWaiting")

\* The timer of wait_for runs out; the thread still has to lock the mutex.  A
\* notified thread that has not locked it yet reports the timeout all the same.
OffTimerNever == FALSE
OffTimer == \E l \in {"offWaiting", "offWoken"} : Move(Power, l, "offExpired")

\* wait_for without a predicate may return although nobody notified.
OffSpurious ==
  /\ SpuriousWakeups
  /\ At(Power, "offWaiting")
  /\ cycle' = [cycle EXCEPT !.spurious = TRUE]
  /\ Goto(Power, "offWoken")
  /\ UNCHANGED <<flags, mutex, op, powerVars, credit>>

OffWake ==
  /\ Free("off")
  /\ Move(Power, "offWoken", "offSkip")

OffTimeoutKept ==
  /\ Free("off")
  /\ Write(Power, "offExpired", "offSkip", With("isScreenLockSuspend", FALSE))

OffTimeout ==
  /\ Free("off")
  /\ Write(Power, "offExpired", "offSkip",
           [flags EXCEPT !.isScreenLockSuspend = FALSE, !.needScreenOffNotify = FALSE])

\* The end of WaitScreenOffNotify.
OffSkip == Write(Power, "offSkip", "offSuspend", With("skipScreenOffBlock", FALSE))

OffSuspendMixedUp ==
  /\ At(Power, "offSuspend")
  /\ req' = [req EXCEPT !.shown = IF flags.isScreenLockSuspend THEN "SUSPEND" ELSE @]
  /\ Goto(Power, "offCheck")
  /\ UNCHANGED <<flags, mutex, op, displayState, screenState, lastDisplayState,
                 announced, panel, credit, cycle>>

OffSuspend ==
  /\ At(Power, "offSuspend")
  /\ req' = [req EXCEPT !.shown = IF flags.isScreenLockSuspend THEN "ON_SUSPEND" ELSE @]
  /\ Goto(Power, "offCheck")
  /\ UNCHANGED <<flags, mutex, op, displayState, screenState, lastDisplayState,
                 announced, panel, credit, cycle>>

\* The rest of HandleSetDisplayStateOff: canceledSuspend_ is read, then reset.
OffCheck ==
  Write(Power, "offCheck", IF flags.canceledSuspend THEN "offClear" ELSE "offReturn",
        With("isSuspendBegin", FALSE))

OffCanceledAfterNotifyKept == UNCHANGED flags /\ ReturnFalse("offClear")

OffCanceledAfterNotify ==
  /\ SetFlag("canceledSuspend", FALSE)
  /\ ReturnFalse("offClear")

\* BlockScreenOnByCV.
OnTest ==
  Move(Power, "onTest", IF flags.keyguardDrawnDone THEN "offReturn" ELSE "onNeed")

OnNeed ==
  Write(Power, "onNeed", "onWait", With("needScreenOnWhenKeyguardNotify", TRUE))

OnWait ==
  /\ Free("on")
  /\ Move(Power, "onWait", "onWaiting")

\* A timeout and a spurious wake-up of screenOnCV_ only end the wait.
OnTimer == Move(Power, "onWaiting", "onWoken")

OnWake ==
  /\ Free("on")
  /\ Move(Power, "onWoken", "offReturn")

\* BlockScreenWaitPictureFrameByCV.  The flags are used under
\* screenWaitPictureFrameMutex_ only, whose sections are single steps; they only
\* choose the answer that goes back to the power service.
DreamEnter ==
  Write(Power, "dreamEnter", "dreamWaiting",
        [flags EXCEPT !.pictureFrameReady = FALSE, !.pictureFrameBreak = FALSE])

DreamTimer == Move(Power, "dreamWaiting", "dreamWoken")

DreamReturn == Move(Power, "dreamWoken", "idle")

-----------------------------------------------------------------------------
(* TryToCancelScreenOff and ForceSkipScreenOffAnimation.                    *)

Grant(flag) ==
  /\ SetFlag(flag, TRUE)
  /\ credit' = credit + 1

\* The suspend has not been announced yet: one section under notifyMutex_.
CancelBeforeNotify(c) ==
  /\ At(c, "idle")
  /\ credit < MaxCredit
  /\ Free("notify")
  /\ flags.canCancelSuspendNotify
  /\ Grant("needCancelNotify")
  /\ cycle' = [cycle EXCEPT !.granted = TRUE, !.early = TRUE]
  /\ UNCHANGED <<mutex, pc, op, powerVars>>

SkipBeforeNotify(c) ==
  /\ At(c, "idle")
  /\ Free("notify")
  /\ flags.canCancelSuspendNotify
  /\ SetFlag("skipScreenOffBlock", TRUE)
  /\ UNCHANGED <<mutex, pc, op, powerVars, credit, cycle>>

\* Otherwise two flags are read while only notifyMutex_ is held.
EnterNotified(c, kind) ==
  /\ At(c, "idle")
  /\ Free("notify")
  /\ ~flags.canCancelSuspendNotify
  /\ mutex' = [mutex EXCEPT !.notify = c]
  /\ op' = [op EXCEPT ![c] = kind]
  /\ Goto(c, "cancelGot")
  /\ UNCHANGED <<flags, powerVars, credit, cycle>>

CancelBegin(c) == credit < MaxCredit /\ EnterNotified(c, "CANCEL")
SkipBegin(c) == EnterNotified(c, "SKIP")

\* A read that fails the test releases notifyMutex_; a cancel returns false.
ReadOrGiveUp(c, l, ok, next) ==
  /\ At(c, l)
  /\ Goto(c, IF ok THEN next ELSE "idle")
  /\ mutex' = IF ok THEN mutex ELSE [mutex EXCEPT !.notify = NoThread]
  /\ op' = IF ok THEN op ELSE [op EXCEPT ![c] = "NONE"]
  /\ UNCHANGED <<flags, powerVars, credit, cycle>>

CancelReadGot(c) == ReadOrGiveUp(c, "cancelGot", ~flags.gotScreenOffNotify, "cancelNeed")
CancelReadNeed(c) == ReadOrGiveUp(c, "cancelNeed", flags.needScreenOffNotify, "cancelSet")

\* Lock screenOffMutex_, mark the suspend cancelled and wake the waiter.
CancelSet(c) ==
  /\ At(c, "cancelSet")
  /\ Free("off")
  /\ mutex' = [mutex EXCEPT !.off = c]
  /\ NotifyAll(c, "cancelFin", "offWaiting")
  /\ IF op[c] = "CANCEL"
     THEN Grant("canceledSuspend")
     ELSE UNCHANGED <<flags, credit>>
  /\ UNCHANGED <<op, powerVars, cycle>>

CancelFin(c) ==
  /\ At(c, "cancelFin")
  /\ SetFlag("needScreenOffNotify", FALSE)
  /\ mutex' = [mutex EXCEPT !.off = NoThread, !.notify = NoThread]
  /\ cycle' = [cycle EXCEPT !.granted = @ \/ op[c] = "CANCEL"]
  /\ op' = [op EXCEPT ![c] = "NONE"]
  /\ Goto(c, "idle")
  /\ UNCHANGED <<powerVars, credit>>

-----------------------------------------------------------------------------
(* NotifyDisplayEvent, the answers of the lock screen.                      *)

LockAnswer(c, event) ==
  /\ At(c, "idle")
  /\ event \in {"SCREEN_LOCK_SUSPEND", "SCREEN_LOCK_OFF",
                "SCREEN_LOCK_FINGERPRINT", "SCREEN_LOCK_DOZE_FINISH"}
  /\ flags' = [flags EXCEPT
       !.isScreenLockSuspend =
          CASE event = "SCREEN_LOCK_SUSPEND" -> ~flags.isPhyScreenConnected
            [] event = "SCREEN_LOCK_OFF" -> FALSE
            [] OTHER -> @,
       !.gotScreenlockFingerprint = @ \/ event = "SCREEN_LOCK_FINGERPRINT"]
  /\ Goto(c, "lockGot")
  /\ UNCHANGED <<mutex, op, powerVars, credit, cycle>>

\* SetGotScreenOffAndWakeUpBlock.
LockGot(c) == Write(c, "lockGot", "lockNeed", With("gotScreenOffNotify", TRUE))

LockNeed(c) ==
  Move(c, "lockNeed", IF flags.needScreenOffNotify THEN "lockNotify" ELSE "idle")

\* ScreenOffCVNotify.
LockNotify(c) ==
  /\ At(c, "lockNotify")
  /\ Free("off")
  /\ mutex' = [mutex EXCEPT !.off = c]
  /\ NotifyAll(c, "lockFin", "offWaiting")
  /\ UNCHANGED <<flags, op, powerVars, credit, cycle>>

LockFin(c) ==
  /\ At(c, "lockFin")
  /\ SetFlag("needScreenOffNotify", FALSE)
  /\ mutex' = [mutex EXCEPT !.off = NoThread]
  /\ Goto(c, "idle")
  /\ UNCHANGED <<op, powerVars, credit, cycle>>

KeyguardDrawn(c) == Write(c, "idle", "keyNeed", With("keyguardDrawnDone", TRUE))

KeyNeed(c) ==
  Move(c, "keyNeed", IF flags.needScreenOnWhenKeyguardNotify THEN "keyNotify" ELSE "idle")

KeyNotify(c) ==
  /\ At(c, "keyNotify")
  /\ Free("on")
  /\ mutex' = [mutex EXCEPT !.on = c]
  /\ NotifyAll(c, "keyFin", "onWaiting")
  /\ UNCHANGED <<flags, op, powerVars, credit, cycle>>

KeyFin(c) ==
  /\ At(c, "keyFin")
  /\ SetFlag("needScreenOnWhenKeyguardNotify", FALSE)
  /\ mutex' = [mutex EXCEPT !.on = NoThread]
  /\ Goto(c, "idle")
  /\ UNCHANGED <<op, powerVars, credit, cycle>>

\* WakeUpPictureFrameBlock.
PictureFrame(c, event) ==
  /\ At(c, "idle")
  /\ \/ event = "SCREEN_LOCK_START_DREAM" /\ SetFlag("pictureFrameReady", TRUE)
     \/ event = "SCREEN_LOCK_END_DREAM" /\ SetFlag("pictureFrameBreak", TRUE)
  /\ NotifyAll(c, "idle", "dreamWaiting")
  /\ UNCHANGED <<mutex, op, powerVars, credit, cycle>>

\* SetKeyguardDrawnDoneFlag(false), called by the fold policies.
KeyguardReset(c) ==
  Write(c, "idle", "idle", With("keyguardDrawnDone", FALSE))

\* A mirrored physical screen is plugged in or pulled out.
PhyScreen(c) ==
  Write(c, "idle", "idle", With("isPhyScreenConnected", ~flags.isPhyScreenConnected))

-----------------------------------------------------------------------------
PowerCall ==
  \/ \E r \in Reasons : WakeUpBegin(r) \/ SuspendBegin(r)
  \/ EndCollaboration
  \/ \E s \in DisplayStates : SetDisplayState(s)
  \/ \E s \in PowerStates, r \in Reasons : SetScreenPowerForAll(s, r)

\* What the power thread does inside a call.
PowerStep ==
  \/ SuspendFlags \/ SetScreenPower \/ SetScreenPowerFin
  \/ OffNotified \/ OffCanceledBeforeNotify \/ OffBlock \/ OffTest \/ OffNeed
  \/ OffWait \/ OffTimer \/ OffWake \/ OffTimeout \/ OffSkip \/ OffSuspend
  \/ OffCheck \/ OffCanceledAfterNotify
  \/ OnTest \/ OnNeed \/ OnWait \/ OnTimer \/ OnWake
  \/ DreamEnter \/ DreamTimer \/ DreamReturn
  \/ ReturnTrue

CallerCall(c) ==
  \/ "CANCEL" \in CallerOps /\ (CancelBeforeNotify(c) \/ CancelBegin(c))
  \/ "SKIP" \in CallerOps /\ (SkipBeforeNotify(c) \/ SkipBegin(c))
  \/ \E e \in CallerOps \cap LockEvents : LockAnswer(c, e) \/ PictureFrame(c, e)
  \/ "KEYGUARD_DRAWN" \in CallerOps /\ KeyguardDrawn(c)
  \/ "KEYGUARD_RESET" \in CallerOps /\ KeyguardReset(c)
  \/ "PHY_SCREEN" \in CallerOps /\ PhyScreen(c)

CallerStep(c) ==
  \/ CancelReadGot(c) \/ CancelReadNeed(c) \/ CancelSet(c) \/ CancelFin(c)
  \/ LockGot(c) \/ LockNeed(c) \/ LockNotify(c) \/ LockFin(c)
  \/ KeyNeed(c) \/ KeyNotify(c) \/ KeyFin(c)

Next ==
  \/ PowerCall
  \/ PowerStep
  \/ OffSpurious
  \/ \E c \in Callers : CallerCall(c) \/ CallerStep(c)

Spec == Init /\ [][Next]_vars

\* A thread inside a call keeps running, the timers of wait_for run out, and a
\* thread is not passed over for ever at a mutex that keeps being released.
\* New calls are never forced.
Fairness == /\ SF_vars(PowerStep)
            /\ \A c \in Callers : SF_vars(CallerStep(c))

FairSpec == Spec /\ Fairness

-----------------------------------------------------------------------------
(* Properties.                                                             *)

FlagsOK == flags \in [FlagNames -> BOOLEAN]

ThreadsOK ==
  /\ mutex \in [Mutexes -> Callers \cup {NoThread}]
  /\ pc \in [Threads -> PowerPcs \cup CallerPcs]
  /\ pc[Power] \in PowerPcs
  /\ \A c \in Callers : pc[c] \in CallerPcs
  /\ op \in [Callers -> {"NONE", "CANCEL", "SKIP"}]

DataOK ==
  /\ req \in Request
  /\ {displayState, screenState, lastDisplayState, announced} \subseteq AllStates
  /\ panel \in AllPower

HistoryOK ==
  /\ credit \in Int
  /\ cycle \in [CycleNames -> BOOLEAN]

TypeOK == FlagsOK /\ ThreadsOK /\ DataOK /\ HistoryOK

\* A screen-off is refused (HandleSetDisplayStateOff returns true) at most
\* once for every cancel that TryToCancelScreenOff granted.
RefusalsAreGranted == credit >= 0

\* A cancel granted before the suspend was announced (the branch of
\* TryToCancelScreenOff on canCancelSuspendNotify_) is never followed by a
\* screen-off that succeeds.
EarlyCancelHonoured == ~(cycle.early /\ cycle.done)

\* display_manager.h on TryToCancelScreenOff: "True means cancel screenoff
\* action success": once it has returned true, the screen-off of that suspend
\* does not succeed.
GrantedCancelStopsScreenOff == ~(cycle.granted /\ cycle.done)

\* Between two calls of the power service the controller, the screens and the
\* manager's lastDisplayState_ agree on the display state, however the last
\* screen-off ended.
ScreensAgree ==
  At(Power, "idle") => /\ screenState = displayState
                       /\ lastDisplayState = displayState

\* SetDisplayState is one step for those who look between the calls: all three
\* copies take the state and the clients are told of it, as OFF or as
\* ON_SUSPEND, or the screen-off is refused, the copies keep theirs and the
\* clients are told UNKNOWN.  Inside a call the copies count with the values
\* that a refusal puts back.
Display == INSTANCE DisplayState WITH
  States <- DisplayStates,
  Copies <- {"controller", "screens", "manager"},
  copies <- IF pc[Power] \in InCall
              THEN [c \in {"controller", "screens", "manager"} |-> req.last]
              ELSE [c \in {"controller", "screens", "manager"} |->
                      CASE c = "controller" -> displayState
                        [] c = "screens" -> screenState
                        [] OTHER -> lastDisplayState],
  target <- IF pc[Power] \in InCall THEN req.state ELSE "NONE",
  told   <- announced
ImplementsDisplay == Display!Spec

\* needScreenOffNotify_ outlives the wait it announces only after a spurious
\* wake-up: when no thread is inside the handshake, nobody is taken to wait.
NoDanglingWait ==
  /\ flags.needScreenOffNotify
  /\ ~cycle.spurious
  => \/ pc[Power] \in {"offWait", "offWaiting", "offExpired"}
     \/ \E c \in Callers : pc[c] \in {"cancelFin", "lockFin"}

\* Every call returns: the waits of the power thread are bounded although a
\* notification can be lost, and no two threads wait for each other.
CallsReturn == \A t \in Threads : ~At(t, "idle") ~> At(t, "idle")
=============================================================================
