--------------------------- MODULE SnapshotPicker ---------------------------
(***************************************************************************)
(* ScreenSessionManager::GetSnapshotByPicker and the connection to the     *)
(* picker extension it uses (ScreenSnapshotPickerConnection,               *)
(* ScreenSessionAbilityConnection and its stub).                           *)
(*                                                                         *)
(* A call holds snapBypickerMutex_ from Enter to its end.  It connects the *)
(* extension, waits until the ability manager reports the connection, asks *)
(* the picker for an area and blocks, without a timeout, until the picker  *)
(* answers or dies.  The callbacks (OnAbilityConnectDone,                  *)
(* OnAbilityDisconnectDone, OnRemoteRequest and the death recipient) run   *)
(* on other threads and raise sendMessageWaitFlag_ without                 *)
(* sendMessageMutex_.                                                      *)
(*                                                                         *)
(* Each connection has a stub object of its own; callbacks of an earlier   *)
(* one touch a stub nobody reads any more, so only the current is kept.    *)
(* The extension's bundle and ability are configured.                      *)
(***************************************************************************)
EXTENDS Naturals

CONSTANTS
  Clients,       \* binder threads that call GetSnapshotByPicker
  Screens,       \* ids of the screens that have a session
  DefaultScreen, \* 0, the value screenId_ is created with
  SelScreens,    \* screen ids the user may select on
  Rects,         \* rectangles the user may select
  NoRect,        \* the rectangle 0, 0, 0, 0 the stub is created with
  Answers,       \* what the picker may answer
  PickerMayDie,  \* whether the extension's process may die
  LinkMayDrop    \* whether the ability manager may drop the connection

ASSUME PickerAssumption ==
  /\ Answers \subseteq {"AREA", "PRIVACY", "UNKNOWN"}
  /\ {PickerMayDie, LinkMayDrop} \subseteq BOOLEAN
  /\ NoRect \notin Rects

VARIABLES
  pc,          \* where each client is in its call
  connection,  \* abilityConnection_ is not null
  stub,        \* the fields of abilityConnectionStub_
  connecting,  \* how far OnAbilityConnectDone is
  watched,     \* the death recipient is registered with the picker
  picker,      \* is the extension's process up
  answer,      \* how far the picker's answer is
  selection,   \* what the user selected in the current call
  death,       \* how far the death recipient's handler is
  local,       \* ret, screenId and rect of the call that holds the mutex
  result,      \* what each client's last call returned
  skips,       \* history: calls in a row that reused a connection
  missed,      \* history: a release came while the call was not waiting
  dropped      \* history: the connection was dropped during the call

vars == <<pc, connection, stub, connecting, watched, picker, answer, selection,
          death, local, result, skips, missed, dropped>>

NoSelection == [screen |-> DefaultScreen, rect |-> NoRect]
NewStub == [present |-> TRUE, connected |-> FALSE, remote |-> FALSE, flag |-> FALSE,
            err |-> FALSE, screen |-> DefaultScreen, rect |-> NoRect]
NoStub == [NewStub EXCEPT !.present = FALSE]
NoCall == [ret |-> "FAILURE", screen |-> DefaultScreen, rect |-> NoRect]
Codes == {"NONE", "OK", "SYSTEM_INNORMAL", "NO_PERMISSION", "INVALID_CALLING",
          "DEVICE_NOT_SUPPORT"}

ClientPcs == {"idle", "queued", "connect", "info", "linking", "linked", "send",
              "sending", "reset", "test", "enqueue", "waiting", "errCode",
              "readScreen", "readRect", "disconnect"}

Init ==
  /\ pc = [c \in Clients |-> "idle"]
  /\ connection = FALSE
  /\ stub = NoStub
  /\ connecting = "none"
  /\ watched = FALSE
  /\ picker = "down"
  /\ answer = "none"
  /\ selection = NoSelection
  /\ death = "none"
  /\ local = NoCall
  /\ result = [c \in Clients |-> [code |-> "NONE", screen |-> DefaultScreen, rect |-> NoRect]]
  /\ skips = 0
  /\ missed = FALSE /\ dropped = FALSE

-----------------------------------------------------------------------------
Goto(c, l) == pc' = [pc EXCEPT ![c] = l]
Move(c, l, m) == pc[c] = l /\ Goto(c, m)
Fail(c, l) == Move(c, l, "disconnect") /\ local' = [local EXCEPT !.ret = "FAILURE"]

\* snapBypickerMutex_, and remoteObjectMutex_, which is held during SendRequest.
MutexFree == \A c \in Clients : pc[c] \in {"idle", "queued"}
RemoteFree == \A c \in Clients : pc[c] # "sending"

platform == <<connecting, watched, picker, answer, selection, death>>
callVars == <<connection, stub, local>>
history == <<skips, missed, dropped>>

Finish(c, code) ==
  /\ Goto(c, "idle")
  /\ result' = [result EXCEPT ![c] =
       IF code = "OK" THEN [code |-> code, screen |-> local.screen, rect |-> local.rect]
       ELSE [code |-> code, screen |-> DefaultScreen, rect |-> NoRect]]

-----------------------------------------------------------------------------
(* GetSnapshotByPicker.                                                    *)

Call(c) ==
  /\ Move(c, "idle", "queued")
  /\ UNCHANGED <<callVars, platform, result, history>>

\* Screenshots are forbidden by a system parameter.
Disallowed(c) ==
  /\ pc[c] = "queued" /\ MutexFree
  /\ Finish(c, "NO_PERMISSION")
  /\ UNCHANGED <<callVars, platform, history>>

Enter(c) ==
  /\ MutexFree
  /\ Move(c, "queued", "connect")
  /\ local' = NoCall
  /\ missed' = FALSE /\ dropped' = FALSE
  /\ UNCHANGED <<connection, stub, platform, result, skips>>

\* SnapshotPickerConnectExtension finds a connection object.
AlreadyConnected(c) ==
  /\ connection
  /\ Move(c, "connect", "info")
  /\ skips' = skips + 1
  /\ UNCHANGED <<callVars, platform, result, missed, dropped>>

\* It makes one and connects it; the bundle manager may be missing, and the
\* ability manager may refuse.
ConnectExtension(c, how) ==
  /\ ~connection
  /\ pc[c] = "connect"
  /\ connection' = TRUE
  /\ stub' = IF how = "noBundleManager" THEN NoStub ELSE NewStub
  /\ IF how = "accepted"
     THEN /\ Goto(c, "info")
          /\ connecting' = "pending" /\ picker' = "up"
          /\ UNCHANGED result
     ELSE /\ Finish(c, "DEVICE_NOT_SUPPORT")
          /\ UNCHANGED <<connecting, picker>>
  /\ skips' = 0
  /\ UNCHANGED <<watched, answer, selection, death, local, missed, dropped>>

\* GetScreenSnapshotInfo and the first lines of SendMessageSyncBlock.
GetScreenSnapshotInfo(c) ==
  /\ IF stub.present
     THEN /\ Move(c, "info", IF stub.connected THEN "send" ELSE "linking")
          /\ UNCHANGED local
     ELSE Fail(c, "info")
  /\ UNCHANGED <<connection, stub, platform, result, history>>

\* wait_for on connectedCv_ ends by a notification or by its timer, and
\* isConnected_ is read again.
LinkWait(c) ==
  /\ Move(c, "linking", "linked")
  /\ UNCHANGED <<callVars, platform, result, history>>

LinkCheck(c) ==
  /\ IF stub.connected
     THEN Move(c, "linked", "send") /\ UNCHANGED local
     ELSE Fail(c, "linked")
  /\ UNCHANGED <<connection, stub, platform, result, history>>

\* Lock remoteObjectMutex_ and send the request, which a dead picker never gets.
Send(c) ==
  /\ RemoteFree
  /\ IF stub.remote
     THEN /\ Move(c, "send", "sending")
          /\ answer' = IF picker = "up" THEN "asked" ELSE answer
          /\ UNCHANGED local
     ELSE Fail(c, "send") /\ UNCHANGED answer
  /\ UNCHANGED <<connection, stub, connecting, watched, picker, selection, death,
                 result, history>>

SendReturn(c) ==
  /\ \/ /\ answer # "none"
        /\ Move(c, "sending", "reset")
        /\ UNCHANGED local
     \/ /\ picker # "up"
        /\ Fail(c, "sending")
  /\ UNCHANGED <<connection, stub, platform, result, history>>

\* sendMessageMutex_ is locked by no other thread.
ResetFlag(c) ==
  /\ Move(c, "reset", "test")
  /\ stub' = [stub EXCEPT !.flag = FALSE]
  /\ UNCHANGED <<connection, local, platform, result, history>>

TestFlag(c) ==
  /\ Move(c, "test", IF stub.flag THEN "errCode" ELSE "enqueue")
  /\ UNCHANGED <<callVars, platform, result, history>>

Wait(c) ==
  /\ Move(c, "enqueue", "waiting")
  /\ UNCHANGED <<callVars, platform, result, history>>

SpuriousWakeupEnds(c) ==
  /\ Move(c, "waiting", "errCode")
  /\ UNCHANGED <<callVars, platform, result, history>>

SpuriousWakeup(c) ==
  /\ Move(c, "waiting", "test")
  /\ UNCHANGED <<callVars, platform, result, history>>

\* SendMessageSyncBlock returned success: GetScreenSnapshotInfo reads the
\* stub's fields one by one.
ReadErrCode(c) ==
  /\ pc[c] = "errCode"
  /\ IF stub.err
     THEN /\ stub' = [stub EXCEPT !.err = FALSE]
          /\ local' = [local EXCEPT !.ret = "PRIVACY"]
          /\ Goto(c, "disconnect")
     ELSE Goto(c, "readScreen") /\ UNCHANGED <<stub, local>>
  /\ UNCHANGED <<connection, platform, result, history>>

ReadScreen(c) ==
  /\ Move(c, "readScreen", "readRect")
  /\ local' = [local EXCEPT !.screen = stub.screen]
  /\ UNCHANGED <<connection, stub, platform, result, history>>

ReadRect(c) ==
  /\ Move(c, "readRect", "disconnect")
  /\ local' = [local EXCEPT !.rect = stub.rect, !.ret = "SUCCESS"]
  /\ UNCHANGED <<connection, stub, platform, result, history>>

\* SnapshotPickerDisconnectExtension and the end of the call.
OutcomeRaw == IF local.ret = "FAILURE" THEN "DEVICE_NOT_SUPPORT" ELSE local.ret
Outcome ==
  CASE local.ret = "PRIVACY" -> "INVALID_CALLING"
    [] local.ret = "FAILURE" -> "DEVICE_NOT_SUPPORT"
    [] local.ret = "SUCCESS" /\ local.screen \notin Screens -> "SYSTEM_INNORMAL"
    [] OTHER -> "OK"

Disconnect(c) ==
  /\ pc[c] = "disconnect"
  /\ connection' = FALSE
  /\ stub' = NoStub
  /\ connecting' = "none" /\ watched' = FALSE /\ picker' = "down"
  /\ answer' = "none" /\ selection' = NoSelection /\ death' = "none"
  /\ Finish(c, Outcome)
  /\ UNCHANGED <<local, history>>

-----------------------------------------------------------------------------
(* The callbacks of the stub.                                              *)

\* OnAbilityConnectDone: store the remote object, watch it, tell the waiter.
StoreRemote ==
  /\ connecting = "pending" /\ RemoteFree
  /\ connecting' = "stored"
  /\ stub' = [stub EXCEPT !.remote = TRUE]
  /\ UNCHANGED <<pc, connection, watched, picker, answer, selection, death, local,
                 result, history>>

AddObjectDeathRecipient ==
  /\ connecting = "stored" /\ RemoteFree
  /\ LET ok == stub.remote /\ picker = "up"
     IN /\ connecting' = IF ok THEN "watched" ELSE "none"
        /\ watched' = ok
  /\ UNCHANGED <<pc, callVars, picker, answer, selection, death, result, history>>

ConnectDone ==
  /\ connecting = "watched"
  /\ connecting' = "none"
  /\ stub' = [stub EXCEPT !.connected = TRUE]
  /\ UNCHANGED <<pc, connection, watched, picker, answer, selection, death, local,
                 result, history>>

\* OnAbilityDisconnectDone, which the ability manager sends after the connect's
\* callback has returned: the wait for the answer is not ended.
DisconnectDone ==
  /\ LinkMayDrop /\ connecting = "none"
  /\ stub.remote /\ RemoteFree
  /\ watched' = FALSE
  /\ stub' = [stub EXCEPT !.remote = FALSE, !.connected = FALSE]
  /\ dropped' = TRUE
  /\ UNCHANGED <<pc, connection, connecting, picker, answer, selection, death, local,
                 result, skips, missed>>

\* Raise sendMessageWaitFlag_ and notify_all, without the mutex: a call that is
\* not waiting yet does not see the notification.
ReleaseSilent(newStub) ==
  /\ stub' = [newStub EXCEPT !.flag = TRUE]
  /\ missed' = (missed \/ \A c \in Clients : pc[c] # "waiting")
  /\ UNCHANGED <<pc, skips, dropped>>

Release(newStub) ==
  /\ stub' = [newStub EXCEPT !.flag = TRUE]
  /\ pc' = [c \in Clients |-> IF pc[c] = "waiting" THEN "test" ELSE pc[c]]
  /\ missed' = (missed \/ \A c \in Clients : pc[c] # "waiting")
  /\ UNCHANGED <<skips, dropped>>

\* OnRemoteRequest.  For an area the fields are written one by one first.
AnswerArea(s, r) ==
  /\ "AREA" \in Answers /\ answer = "asked" /\ picker = "up"
  /\ answer' = "area"
  /\ selection' = [screen |-> s, rect |-> r]
  /\ stub' = [stub EXCEPT !.screen = s]
  /\ UNCHANGED <<pc, connection, connecting, watched, picker, death, local, result,
                 history>>

AnswerRect ==
  /\ answer = "area"
  /\ answer' = "done"
  /\ Release([stub EXCEPT !.rect = selection.rect])
  /\ UNCHANGED <<connection, connecting, watched, picker, selection, death, local, result>>

AnswerPrivacy ==
  /\ "PRIVACY" \in Answers /\ answer = "asked" /\ picker = "up"
  /\ answer' = "done"
  /\ Release([stub EXCEPT !.err = TRUE])
  /\ UNCHANGED <<connection, connecting, watched, picker, selection, death, local, result>>

\* A transaction code that is not known only ends the wait.
AnswerUnknown ==
  /\ "UNKNOWN" \in Answers /\ answer = "asked" /\ picker = "up"
  /\ answer' = "done"
  /\ Release(stub)
  /\ UNCHANGED <<connection, connecting, watched, picker, selection, death, local, result>>

PickerDies ==
  /\ PickerMayDie
  /\ picker = "up"
  /\ picker' = "down"
  /\ UNCHANGED <<pc, callVars, connecting, watched, answer, selection, death, result,
                 history>>

\* The handler of ScreenSessionAbilityDeathRecipient.
DeathRelease ==
  /\ picker = "down" /\ watched /\ death = "none"
  /\ death' = "released"
  /\ Release(stub)
  /\ UNCHANGED <<connection, connecting, watched, picker, answer, selection, local, result>>

DeathClear ==
  /\ death = "released" /\ RemoteFree
  /\ death' = "done"
  /\ stub' = [stub EXCEPT !.remote = FALSE, !.connected = FALSE]
  /\ UNCHANGED <<pc, connection, connecting, watched, picker, answer, selection, local,
                 result, history>>

-----------------------------------------------------------------------------
CallStep(c) ==
  \/ Disallowed(c) \/ Enter(c) \/ AlreadyConnected(c)
  \/ \E how \in {"accepted", "refused", "noBundleManager"} : ConnectExtension(c, how)
  \/ GetScreenSnapshotInfo(c) \/ LinkWait(c) \/ LinkCheck(c)
  \/ Send(c) \/ SendReturn(c) \/ ResetFlag(c) \/ TestFlag(c) \/ Wait(c)
  \/ ReadErrCode(c) \/ ReadScreen(c) \/ ReadRect(c) \/ Disconnect(c)

Callback ==
  \/ StoreRemote \/ AddObjectDeathRecipient \/ ConnectDone
  \/ \E s \in SelScreens, r \in Rects : AnswerArea(s, r)
  \/ AnswerRect \/ AnswerPrivacy \/ AnswerUnknown
  \/ DeathRelease \/ DeathClear

Next ==
  \/ \E c \in Clients : Call(c) \/ CallStep(c) \/ SpuriousWakeup(c)
  \/ Callback
  \/ DisconnectDone
  \/ PickerDies

Spec == Init /\ [][Next]_vars

\* A call keeps running and gets its turn at the mutexes, the timer of
\* connectedCv_ runs out, and the callbacks run; the user answers the picker.
Fairness == /\ \A c \in Clients : SF_vars(CallStep(c))
            /\ WF_vars(Callback)

FairSpec == Spec /\ Fairness

-----------------------------------------------------------------------------
(* Properties.                                                             *)

Stubs == [present : BOOLEAN, connected : BOOLEAN, remote : BOOLEAN, flag : BOOLEAN,
          err : BOOLEAN, screen : SelScreens \cup {DefaultScreen},
          rect : Rects \cup {NoRect}]

TypeOK ==
  /\ pc \in [Clients -> ClientPcs]
  /\ {connection, watched, missed, dropped} \subseteq BOOLEAN
  /\ stub \in Stubs
  /\ connecting \in {"none", "pending", "stored", "watched"}
  /\ picker \in {"up", "down"}
  /\ answer \in {"none", "asked", "area", "done"}
  /\ selection \in [screen : SelScreens \cup {DefaultScreen}, rect : Rects \cup {NoRect}]
  /\ death \in {"none", "released", "done"}
  /\ local \in [ret : {"FAILURE", "PRIVACY", "SUCCESS"},
                screen : SelScreens \cup {DefaultScreen}, rect : Rects \cup {NoRect}]
  /\ result \in [Clients -> [code : Codes, screen : SelScreens \cup {DefaultScreen},
                             rect : Rects \cup {NoRect}]]
  /\ skips \in Nat

\* A call whose picker answered with an area, and lived, returns that area: its
\* fields are read one by one while the callbacks write them, spurious wake-ups
\* included, and are never those of another call or half of them.
AnsweredIsSelected ==
  \A c \in Clients :
    /\ pc[c] = "disconnect" /\ Outcome = "OK"
    /\ death = "none" /\ answer = "done" /\ selection.rect \in Rects
    => local.screen = selection.screen /\ local.rect = selection.rect

\* A call is left waiting although sendMessageWaitFlag_ is up only if the
\* release came before it waited: a notification to a waiting call is not lost.
LeftWaitingOnlyIfMissed ==
  \A c \in Clients : pc[c] = "waiting" /\ stub.flag => missed

\* A connection object that a failed connect left behind spoils one call: the
\* next but one connects again.
BrokenConnectionUsedOnce == skips <= 1

\* Every call returns, those queued at snapBypickerMutex_ included, unless the
\* answer or the death of the picker came before the call that holds the mutex
\* waited for it, or the ability manager dropped its connection.
CallReturns ==
  \A c \in Clients : pc[c] # "idle" ~> (pc[c] = "idle" \/ missed \/ dropped)
=============================================================================
