------------------------ MODULE SnapshotPickerProofs ------------------------
(***************************************************************************)
(* Proofs about SnapshotPicker for any clients, screens, selections and    *)
(* answers, whether or not the picker may die or be dropped.               *)
(*                                                                         *)
(* snapBypickerMutex_ lets one client into the call, so that the facts    *)
(* about the stub can be said at the places of that client.                *)
(***************************************************************************)
EXTENDS SnapshotPicker, TLAPS

\* The stub and the locals as they are created are well typed.
LEMMA StubTypes ==
  /\ NewStub \in Stubs /\ NoStub \in Stubs
  /\ NoCall \in [ret : {"FAILURE", "PRIVACY", "SUCCESS"},
                 screen : SelScreens \cup {DefaultScreen}, rect : Rects \cup {NoRect}]
  BY DEF NewStub, NoStub, Stubs, NoCall

\* The parts of the type invariant that the steps of a call and the callbacks
\* disturb.
PcsOK == pc \in [Clients -> ClientPcs]
StubOK == stub \in Stubs
LocalOK == local \in [ret : {"FAILURE", "PRIVACY", "SUCCESS"},
                      screen : SelScreens \cup {DefaultScreen}, rect : Rects \cup {NoRect}]
ResultOK == result \in [Clients -> [code : Codes, screen : SelScreens \cup {DefaultScreen},
                                    rect : Rects \cup {NoRect}]]
SelectionOK == selection \in [screen : SelScreens \cup {DefaultScreen}, rect : Rects \cup {NoRect}]
RestOK ==
  /\ {connection, watched, missed, dropped} \subseteq BOOLEAN
  /\ connecting \in {"none", "pending", "stored", "watched"}
  /\ picker \in {"up", "down"}
  /\ answer \in {"none", "asked", "area", "done"}
  /\ death \in {"none", "released", "done"}
  /\ skips \in Nat

\* The positions of the clients are typed.
LEMMA PcsStep ==
  ASSUME TypeOK, Next
  PROVE  PcsOK'
<1> USE DEF TypeOK, PcsOK
<1>1. ASSUME NEW c \in Clients, Call(c) \/ CallStep(c) \/ SpuriousWakeup(c) PROVE PcsOK'
  <2>1. \E l \in ClientPcs : Goto(c, l)
    BY <1>1 DEF Call, CallStep, SpuriousWakeup, Disallowed, Enter, AlreadyConnected,
       ConnectExtension, GetScreenSnapshotInfo, LinkWait, LinkCheck, Send, SendReturn,
       ResetFlag, TestFlag, Wait, ReadErrCode, ReadScreen, ReadRect, Disconnect, Move, Fail,
       Finish, ClientPcs
  <2> QED
    BY <2>1 DEF Goto
<1>2. ASSUME Callback \/ DisconnectDone \/ PickerDies PROVE PcsOK'
  <2>1. UNCHANGED pc \/ pc' = [c \in Clients |-> IF pc[c] = "waiting" THEN "test" ELSE pc[c]]
    BY <1>2 DEF Callback, StoreRemote, AddObjectDeathRecipient, ConnectDone, AnswerArea,
       AnswerRect, AnswerPrivacy, AnswerUnknown, DeathRelease, DeathClear, DisconnectDone,
       PickerDies, Release
  <2> QED
    BY <2>1 DEF ClientPcs
<1> QED
  BY <1>1, <1>2 DEF Next

\* The stub keeps its type, written field by field.
LEMMA StubStep ==
  ASSUME TypeOK, Next
  PROVE  StubOK'
<1> USE StubTypes DEF TypeOK, StubOK
<1>1. ASSUME NEW c \in Clients, Call(c) \/ CallStep(c) \/ SpuriousWakeup(c) PROVE StubOK'
  <2>1. \/ UNCHANGED stub
        \/ stub' \in {NewStub, NoStub}
        \/ stub' = [stub EXCEPT !.flag = FALSE]
        \/ stub' = [stub EXCEPT !.err = FALSE]
    BY <1>1 DEF Call, CallStep, SpuriousWakeup, Disallowed, Enter, AlreadyConnected,
       ConnectExtension, GetScreenSnapshotInfo, LinkWait, LinkCheck, Send, SendReturn,
       ResetFlag, TestFlag, Wait, ReadErrCode, ReadScreen, ReadRect, Disconnect, callVars
  <2> QED
    BY <2>1 DEF Stubs
<1>2. ASSUME Callback \/ DisconnectDone \/ PickerDies PROVE StubOK'
  <2>1. \/ UNCHANGED stub
        \/ stub' = [stub EXCEPT !.remote = TRUE]
        \/ stub' = [stub EXCEPT !.connected = TRUE]
        \/ stub' = [stub EXCEPT !.remote = FALSE, !.connected = FALSE]
        \/ \E s \in SelScreens : stub' = [stub EXCEPT !.screen = s]
        \/ stub' = [stub EXCEPT !.flag = TRUE]
        \/ stub' = [[stub EXCEPT !.err = TRUE] EXCEPT !.flag = TRUE]
        \/ stub' = [[stub EXCEPT !.rect = selection.rect] EXCEPT !.flag = TRUE]
    BY <1>2 DEF Callback, StoreRemote, AddObjectDeathRecipient, ConnectDone, AnswerArea,
       AnswerRect, AnswerPrivacy, AnswerUnknown, DeathRelease, DeathClear, DisconnectDone,
       PickerDies, Release, callVars
  <2> QED
    BY <2>1 DEF Stubs
<1> QED
  BY <1>1, <1>2 DEF Next

\* The locals of the call and the results keep their types.
LEMMA LocalStep ==
  ASSUME TypeOK, Next
  PROVE  LocalOK' /\ ResultOK'
<1> USE StubTypes DEF TypeOK, LocalOK, ResultOK
<1>1. ASSUME NEW c \in Clients, Call(c) \/ CallStep(c) \/ SpuriousWakeup(c)
      PROVE  LocalOK' /\ ResultOK'
  <2>1. \/ UNCHANGED local
        \/ local' = NoCall
        \/ local' = [local EXCEPT !.ret = "FAILURE"]
        \/ local' = [local EXCEPT !.ret = "PRIVACY"]
        \/ local' = [local EXCEPT !.screen = stub.screen]
        \/ local' = [local EXCEPT !.rect = stub.rect, !.ret = "SUCCESS"]
    BY <1>1 DEF Call, CallStep, SpuriousWakeup, Disallowed, Enter, AlreadyConnected,
       ConnectExtension, GetScreenSnapshotInfo, LinkWait, LinkCheck, Send, SendReturn,
       ResetFlag, TestFlag, Wait, ReadErrCode, ReadScreen, ReadRect, Disconnect, callVars, Fail
  <2>2. \/ UNCHANGED result
        \/ \E code \in Codes : Finish(c, code)
    BY <1>1 DEF Call, CallStep, SpuriousWakeup, Disallowed, Enter, AlreadyConnected,
       ConnectExtension, GetScreenSnapshotInfo, LinkWait, LinkCheck, Send, SendReturn,
       ResetFlag, TestFlag, Wait, ReadErrCode, ReadScreen, ReadRect, Disconnect, Codes, Outcome
  <2>3. LocalOK'
    BY <2>1 DEF Stubs
  <2>4. ResultOK'
    BY <2>2 DEF Finish
  <2> QED
    BY <2>3, <2>4
<1>2. ASSUME Callback \/ DisconnectDone \/ PickerDies PROVE UNCHANGED <<local, result>>
  BY <1>2 DEF Callback, StoreRemote, AddObjectDeathRecipient, ConnectDone, AnswerArea,
     AnswerRect, AnswerPrivacy, AnswerUnknown, DeathRelease, DeathClear, DisconnectDone,
     PickerDies, callVars
<1> QED
  BY <1>1, <1>2 DEF Next

\* So do the selection and the state of the platform.
LEMMA RestStep ==
  ASSUME TypeOK, Next
  PROVE  SelectionOK' /\ RestOK'
<1> USE DEF TypeOK, SelectionOK, RestOK
<1>1. ASSUME NEW c \in Clients, Call(c) \/ CallStep(c) \/ SpuriousWakeup(c)
      PROVE  SelectionOK' /\ RestOK'
  <2>1. selection' \in {selection, NoSelection}
    BY <1>1 DEF Call, CallStep, SpuriousWakeup, Disallowed, Enter, AlreadyConnected,
       ConnectExtension, GetScreenSnapshotInfo, LinkWait, LinkCheck, Send, SendReturn,
       ResetFlag, TestFlag, Wait, ReadErrCode, ReadScreen, ReadRect, Disconnect, callVars,
       platform, history
  <2>2. /\ connection' \in {connection, TRUE, FALSE} /\ watched' \in {watched, FALSE}
        /\ missed' \in {missed, FALSE} /\ dropped' \in {dropped, FALSE}
    BY <1>1 DEF Call, CallStep, SpuriousWakeup, Disallowed, Enter, AlreadyConnected,
       ConnectExtension, GetScreenSnapshotInfo, LinkWait, LinkCheck, Send, SendReturn,
       ResetFlag, TestFlag, Wait, ReadErrCode, ReadScreen, ReadRect, Disconnect, callVars,
       platform, history
  <2>3. /\ connecting' \in {connecting, "none", "pending"}
        /\ picker' \in {picker, "up", "down"}
    BY <1>1 DEF Call, CallStep, SpuriousWakeup, Disallowed, Enter, AlreadyConnected,
       ConnectExtension, GetScreenSnapshotInfo, LinkWait, LinkCheck, Send, SendReturn,
       ResetFlag, TestFlag, Wait, ReadErrCode, ReadScreen, ReadRect, Disconnect, callVars,
       platform, history
  <2>4. /\ answer' \in {answer, "none", "asked"}
        /\ death' \in {death, "none"}
        /\ skips' \in {skips, skips + 1, 0}
    BY <1>1 DEF Call, CallStep, SpuriousWakeup, Disallowed, Enter, AlreadyConnected,
       ConnectExtension, GetScreenSnapshotInfo, LinkWait, LinkCheck, Send, SendReturn,
       ResetFlag, TestFlag, Wait, ReadErrCode, ReadScreen, ReadRect, Disconnect, callVars,
       platform, history
  <2>5. SelectionOK'
    BY <2>1 DEF NoSelection
  <2>6. {connection, watched, missed, dropped}' \subseteq BOOLEAN
    BY <2>2
  <2>7. /\ connecting' \in {"none", "pending", "stored", "watched"}
        /\ picker' \in {"up", "down"}
    BY <2>3
  <2>8. /\ answer' \in {"none", "asked", "area", "done"}
        /\ death' \in {"none", "released", "done"}
        /\ skips' \in Nat
    BY <2>4
  <2> QED
    BY <2>5, <2>6, <2>7, <2>8
<1>2. ASSUME Callback \/ DisconnectDone \/ PickerDies PROVE SelectionOK' /\ RestOK'
  <2>1. \/ UNCHANGED selection
        \/ \E s \in SelScreens, r \in Rects : selection' = [screen |-> s, rect |-> r]
    BY <1>2 DEF Callback, StoreRemote, AddObjectDeathRecipient, ConnectDone, AnswerArea,
       AnswerRect, AnswerPrivacy, AnswerUnknown, DeathRelease, DeathClear, DisconnectDone,
       PickerDies, Release, callVars, history
  <2>2. /\ UNCHANGED <<connection, skips>>
        /\ watched' \in BOOLEAN /\ missed' \in BOOLEAN /\ dropped' \in BOOLEAN
    BY <1>2 DEF Callback, StoreRemote, AddObjectDeathRecipient, ConnectDone, AnswerArea,
       AnswerRect, AnswerPrivacy, AnswerUnknown, DeathRelease, DeathClear, DisconnectDone,
       PickerDies, Release, callVars, history
  <2>3. /\ connecting' \in {connecting, "none", "stored", "watched"}
        /\ picker' \in {picker, "down"}
        /\ answer' \in {answer, "area", "done"}
        /\ death' \in {death, "released", "done"}
    BY <1>2 DEF Callback, StoreRemote, AddObjectDeathRecipient, ConnectDone, AnswerArea,
       AnswerRect, AnswerPrivacy, AnswerUnknown, DeathRelease, DeathClear, DisconnectDone,
       PickerDies, Release, callVars, history
  <2>4. SelectionOK'
    BY <2>1
  <2> QED
    BY <2>2, <2>3, <2>4
<1> QED
  BY <1>1, <1>2 DEF Next

\* The type invariant: the places of the clients, the fields of the stub and of
\* the platform, and what the calls returned stay in their sets.
THEOREM TypeCorrect == Spec => []TypeOK
<1>1. Init => TypeOK
  <2> SUFFICES ASSUME Init PROVE TypeOK
    OBVIOUS
  <2>1. /\ pc \in [Clients -> ClientPcs]
        /\ {connection, watched, missed, dropped} \subseteq BOOLEAN
        /\ connecting = "none" /\ picker = "down" /\ answer = "none" /\ death = "none"
        /\ skips \in Nat
    BY DEF Init, ClientPcs
  <2>2. stub \in Stubs
    BY StubTypes DEF Init
  <2>3. selection \in [screen : SelScreens \cup {DefaultScreen}, rect : Rects \cup {NoRect}]
    BY DEF Init, NoSelection
  <2>4. result \in [Clients -> [code : Codes, screen : SelScreens \cup {DefaultScreen},
                                rect : Rects \cup {NoRect}]]
    BY DEF Init, Codes
  <2>5. local = NoCall
    BY DEF Init
  <2> QED
    BY <2>1, <2>2, <2>3, <2>4, <2>5, StubTypes DEF TypeOK
<1>2. TypeOK /\ [Next]_vars => TypeOK'
  <2> SUFFICES ASSUME TypeOK, [Next]_vars PROVE TypeOK'
    OBVIOUS
  <2>1. CASE Next
    <3>1. (PcsOK /\ StubOK /\ LocalOK /\ ResultOK /\ SelectionOK /\ RestOK)'
      BY <2>1, PcsStep, StubStep, LocalStep, RestStep
    <3> QED
      BY <3>1 DEF TypeOK, PcsOK, StubOK, LocalOK, ResultOK, SelectionOK, RestOK
  <2>2. CASE UNCHANGED vars
    BY <2>2 DEF vars, TypeOK
  <2> QED
    BY <2>1, <2>2
<1> QED
  BY <1>1, <1>2, PTL DEF Spec

-----------------------------------------------------------------------------
(* The call that holds the mutex.                                          *)

\* One client at most is past Enter.
OneInside ==
  \A c, d \in Clients :
    pc[c] \notin {"idle", "queued"} /\ pc[d] \notin {"idle", "queued"} => c = d

\* Before a connect finds or makes a connection object, the one that is left
\* behind has not been used again.
FreshUnlessUsed ==
  /\ skips \in {0, 1}
  /\ connection /\ (\A c \in Clients : pc[c] \in {"idle", "queued", "connect"}) => skips = 0

\* A call about to wait, or waiting, finds the flag up only if its release was
\* missed.
MissedIfUp ==
  \A c \in Clients : pc[c] \in {"enqueue", "waiting"} /\ stub.flag => missed

\* No answer comes before the request is sent, and the flag is up only after
\* an answer or a death; the stub holds what the picker has answered so far.
Unasked == {"idle", "queued", "connect", "info", "linking", "linked", "send"}
Released == answer = "done" \/ death # "none"
AnswerKept ==
  /\ (\A c \in Clients : pc[c] \in Unasked) => answer = "none"
  /\ stub.flag => Released
  /\ answer \in {"none", "asked"} => selection = NoSelection
  /\ answer = "area" => stub.screen = selection.screen
  /\ answer = "done" /\ selection.rect \in Rects
     => stub.screen = selection.screen /\ stub.rect = selection.rect

\* What the call has read of it is of that answer.
ReadKept ==
  \A c \in Clients :
    /\ pc[c] \in {"errCode", "readScreen", "readRect"} => Released
    /\ pc[c] = "readRect" /\ death = "none" /\ selection.rect \in Rects
       => local.screen = selection.screen
    /\ /\ pc[c] = "disconnect" /\ local.ret = "SUCCESS"
       /\ death = "none" /\ answer = "done" /\ selection.rect \in Rects
       => local.screen = selection.screen /\ local.rect = selection.rect
    /\ pc[c] = "disconnect" /\ local.ret = "SUCCESS" => Released

LEMMA OneInsideStep ==
  ASSUME TypeOK, OneInside, Next
  PROVE  OneInside'
<1> USE DEF TypeOK, OneInside
<1>1. ASSUME NEW c \in Clients, Call(c) \/ CallStep(c) \/ SpuriousWakeup(c)
      PROVE  OneInside'
  <2>1. \/ pc' = [pc EXCEPT ![c] = "queued"]
        \/ /\ pc[c] \notin {"idle", "queued"} \/ MutexFree
           /\ \E l \in ClientPcs : pc' = [pc EXCEPT ![c] = l]
    BY <1>1 DEF Call, CallStep, SpuriousWakeup, Disallowed, Enter, AlreadyConnected,
       ConnectExtension, GetScreenSnapshotInfo, LinkWait, LinkCheck, Send, SendReturn,
       ResetFlag, TestFlag, Wait, ReadErrCode, ReadScreen, ReadRect, Disconnect, Move, Fail,
       Finish, Goto, ClientPcs
  <2> QED
    BY <2>1 DEF MutexFree
<1>2. ASSUME Callback \/ DisconnectDone \/ PickerDies PROVE OneInside'
  <2>1. UNCHANGED pc \/ pc' = [c \in Clients |-> IF pc[c] = "waiting" THEN "test" ELSE pc[c]]
    BY <1>2 DEF Callback, StoreRemote, AddObjectDeathRecipient, ConnectDone, AnswerArea,
       AnswerRect, AnswerPrivacy, AnswerUnknown, DeathRelease, DeathClear, DisconnectDone,
       PickerDies, Release
  <2> QED
    BY <2>1
<1> QED
  BY <1>1, <1>2 DEF Next

\* Only AlreadyConnected counts, and only Disconnect leaves a call that did.
LEMMA FreshStep ==
  ASSUME TypeOK, OneInside, FreshUnlessUsed, Next
  PROVE  FreshUnlessUsed'
<1> USE DEF TypeOK, FreshUnlessUsed
<1> DEFINE Early == {"idle", "queued", "connect"}
<1>1. ASSUME NEW c \in Clients, Call(c) \/ CallStep(c) \/ SpuriousWakeup(c)
      PROVE  FreshUnlessUsed'
  <2>1. CASE AlreadyConnected(c)
    <3>1. \A d \in Clients : pc[d] \in Early
      BY <2>1 DEF AlreadyConnected, Move, OneInside
    <3>2. skips = 0
      BY <2>1, <3>1 DEF AlreadyConnected
    <3>3. skips' = 1 /\ pc'[c] = "info"
      BY <2>1, <3>2 DEF AlreadyConnected, Move, Goto
    <3> QED
      BY <3>3
  <2>2. CASE \E how \in {"accepted", "refused", "noBundleManager"} : ConnectExtension(c, how)
    BY <2>2 DEF ConnectExtension
  <2>3. CASE Disconnect(c)
    BY <2>3 DEF Disconnect, history
  <2>4. CASE /\ ~AlreadyConnected(c) /\ ~Disconnect(c)
             /\ ~\E how \in {"accepted", "refused", "noBundleManager"} : ConnectExtension(c, how)
    <3>1. /\ UNCHANGED <<connection, skips>>
          /\ \E l \in ClientPcs : /\ pc' = [pc EXCEPT ![c] = l]
                                  /\ l \in Early => pc[c] \in Early
      BY <1>1, <2>4 DEF Call, CallStep, SpuriousWakeup, Disallowed, Enter,
         GetScreenSnapshotInfo, LinkWait, LinkCheck, Send, SendReturn,
         ResetFlag, TestFlag, Wait, ReadErrCode, ReadScreen, ReadRect, Move, Fail,
         Finish, Goto, ClientPcs, callVars, history
    <3> QED
      BY <3>1
  <2> QED
    BY <2>1, <2>2, <2>3, <2>4
<1>2. ASSUME Callback \/ DisconnectDone \/ PickerDies PROVE FreshUnlessUsed'
  <2>1. /\ UNCHANGED <<connection, skips>>
        /\ UNCHANGED pc \/ pc' = [c \in Clients |-> IF pc[c] = "waiting" THEN "test" ELSE pc[c]]
    BY <1>2 DEF Callback, StoreRemote, AddObjectDeathRecipient, ConnectDone, AnswerArea,
       AnswerRect, AnswerPrivacy, AnswerUnknown, DeathRelease, DeathClear, DisconnectDone,
       PickerDies, Release, callVars, history
  <2> QED
    BY <2>1
<1> QED
  BY <1>1, <1>2 DEF Next

\* The flag is raised by Release alone, which wakes the call if it waits and
\* counts as missed if none does.
LEMMA MissedStep ==
  ASSUME TypeOK, OneInside, MissedIfUp, Next
  PROVE  MissedIfUp'
<1> USE StubTypes DEF TypeOK, MissedIfUp
<1>1. ASSUME NEW c \in Clients, Call(c) \/ CallStep(c) \/ SpuriousWakeup(c)
      PROVE  MissedIfUp'
  <2>1. CASE Enter(c)
    BY <2>1 DEF Enter, MutexFree, Move, Goto
  <2>2. CASE TestFlag(c)
    BY <2>2 DEF TestFlag, Move, Goto, callVars, history
  <2>3. CASE ~Enter(c) /\ ~TestFlag(c)
    <3>1. \/ stub'.flag = FALSE
          \/ stub'.flag = stub.flag
      BY <1>1, <2>3 DEF Call, CallStep, SpuriousWakeup, Disallowed, AlreadyConnected,
         ConnectExtension, GetScreenSnapshotInfo, LinkWait, LinkCheck, Send, SendReturn,
         ResetFlag, Wait, ReadErrCode, ReadScreen, ReadRect, Disconnect, callVars,
         NewStub, NoStub, Stubs
    <3>2. /\ UNCHANGED missed
          /\ \E l \in ClientPcs : /\ pc' = [pc EXCEPT ![c] = l]
                                  /\ l \in {"enqueue", "waiting"} => pc[c] = "enqueue"
      BY <1>1, <2>3 DEF Call, CallStep, SpuriousWakeup, Disallowed, AlreadyConnected,
         ConnectExtension, GetScreenSnapshotInfo, LinkWait, LinkCheck, Send, SendReturn,
         ResetFlag, Wait, ReadErrCode, ReadScreen, ReadRect, Disconnect, Move, Fail, Finish,
         Goto, ClientPcs, callVars, history
    <3> QED
      BY <3>1, <3>2
  <2> QED
    BY <2>1, <2>2, <2>3
<1>2. ASSUME Callback \/ DisconnectDone \/ PickerDies PROVE MissedIfUp'
  <2>1. CASE \E s \in Stubs : Release(s)
    <3>1. \A c \in Clients : pc'[c] \in {"enqueue", "waiting"} => pc[c] = "enqueue"
      BY <2>1 DEF Release
    <3>2. ASSUME NEW c \in Clients, pc[c] = "enqueue" PROVE missed'
      BY <2>1, <3>2 DEF Release, OneInside
    <3> QED
      BY <3>1, <3>2
  <2>2. CASE UNCHANGED <<pc, missed>> /\ stub'.flag = stub.flag
    BY <2>2
  <2>3. \/ \E s \in Stubs : Release(s)
        \/ UNCHANGED <<pc, missed>> /\ stub'.flag = stub.flag
    <3>1. CASE AnswerRect \/ AnswerPrivacy \/ AnswerUnknown \/ DeathRelease
      <4>1. /\ [stub EXCEPT !.rect = selection.rect] \in Stubs
            /\ [stub EXCEPT !.err = TRUE] \in Stubs
        BY DEF Stubs
      <4> QED
        BY <3>1, <4>1 DEF AnswerRect, AnswerPrivacy, AnswerUnknown, DeathRelease
    <3>2. CASE ~(AnswerRect \/ AnswerPrivacy \/ AnswerUnknown \/ DeathRelease)
      BY <1>2, <3>2 DEF Callback, StoreRemote, AddObjectDeathRecipient, ConnectDone, AnswerArea,
         DeathClear, DisconnectDone, PickerDies, callVars, history, Stubs
    <3> QED
      BY <3>1, <3>2
  <2> QED
    BY <2>1, <2>2, <2>3
<1> QED
  BY <1>1, <1>2 DEF Next

\* The parts of an answer that a step of the call can change: a new connection,
\* the sending of the request and the end of the call; the rest touches the
\* flag and the error only.
LEMMA CallEffect ==
  ASSUME TypeOK, NEW c \in Clients, Call(c) \/ CallStep(c) \/ SpuriousWakeup(c)
  PROVE  \/ /\ pc[c] = "connect" /\ stub' \in {NewStub, NoStub}
            /\ UNCHANGED <<answer, selection, death>>
            /\ \E l \in Unasked : pc' = [pc EXCEPT ![c] = l]
         \/ /\ pc[c] = "send" /\ pc' = [pc EXCEPT ![c] = "sending"]
            /\ answer' \in {answer, "asked"} /\ UNCHANGED <<stub, selection, death, local>>
         \/ /\ pc[c] = "disconnect" /\ pc' = [pc EXCEPT ![c] = "idle"]
            /\ stub' = NoStub /\ answer' = "none" /\ selection' = NoSelection
         \/ /\ UNCHANGED <<answer, selection, death>>
            /\ stub' \in {stub, [stub EXCEPT !.flag = FALSE], [stub EXCEPT !.err = FALSE]}
            /\ \E l \in ClientPcs : /\ pc' = [pc EXCEPT ![c] = l]
                                    /\ l \in Unasked => pc[c] \in Unasked
<1>1. CASE \E how \in {"accepted", "refused", "noBundleManager"} : ConnectExtension(c, how)
  BY <1>1 DEF ConnectExtension, Finish, Goto, Unasked
<1>2. CASE Send(c) /\ stub.remote
  BY <1>2 DEF Send, Move, Goto
<1>3. CASE Disconnect(c)
  BY <1>3 DEF Disconnect, Finish, Goto
<1>4. CASE /\ ~Disconnect(c) /\ ~(Send(c) /\ stub.remote)
           /\ ~\E how \in {"accepted", "refused", "noBundleManager"} : ConnectExtension(c, how)
  <2>1. /\ UNCHANGED <<answer, selection, death>>
        /\ stub' \in {stub, [stub EXCEPT !.flag = FALSE], [stub EXCEPT !.err = FALSE]}
    BY <1>4 DEF Call, CallStep, SpuriousWakeup, Disallowed, Enter, AlreadyConnected,
       GetScreenSnapshotInfo, LinkWait, LinkCheck, Send, SendReturn, ResetFlag, TestFlag,
       Wait, ReadErrCode, ReadScreen, ReadRect, callVars, platform
  <2>2. \E l \in ClientPcs : /\ pc' = [pc EXCEPT ![c] = l]
                             /\ l \in Unasked => pc[c] \in Unasked
    BY <1>4 DEF Call, CallStep, SpuriousWakeup, Disallowed, Enter, AlreadyConnected,
       GetScreenSnapshotInfo, LinkWait, LinkCheck, Send, SendReturn, ResetFlag, TestFlag,
       Wait, ReadErrCode, ReadScreen, ReadRect, Move, Fail, Finish, Goto, ClientPcs, Unasked
  <2> QED
    BY <2>1, <2>2
<1> QED
  BY <1>1, <1>2, <1>3, <1>4

\* A callback that writes the answer, releases the call, or does neither.
LEMMA CallbackEffect ==
  ASSUME TypeOK, Callback \/ DisconnectDone \/ PickerDies
  PROVE  /\ UNCHANGED local
         /\ UNCHANGED pc \/ pc' = [c \in Clients |-> IF pc[c] = "waiting" THEN "test" ELSE pc[c]]
         /\ \/ /\ answer = "asked" /\ answer' = "area" /\ UNCHANGED death
               /\ stub'.flag = stub.flag /\ stub'.screen = selection'.screen
            \/ /\ answer = "area" /\ answer' = "done" /\ UNCHANGED <<selection, death>>
               /\ stub'.screen = stub.screen /\ stub'.rect = selection.rect
            \/ /\ answer = "asked" /\ answer' = "done" /\ UNCHANGED <<selection, death>>
               /\ stub'.screen = stub.screen /\ stub'.rect = stub.rect
            \/ /\ death' # "none" /\ UNCHANGED <<answer, selection>>
               /\ stub'.screen = stub.screen /\ stub'.rect = stub.rect
            \/ /\ UNCHANGED <<answer, selection, death>> /\ stub'.flag = stub.flag
               /\ stub'.screen = stub.screen /\ stub'.rect = stub.rect
<1> USE DEF TypeOK
<1>1. CASE \E s \in SelScreens, r \in Rects : AnswerArea(s, r)
  BY <1>1 DEF AnswerArea, Stubs
<1>2. CASE AnswerRect
  BY <1>2 DEF AnswerRect, Release, Stubs
<1>3. CASE AnswerPrivacy \/ AnswerUnknown
  BY <1>3 DEF AnswerPrivacy, AnswerUnknown, Release, Stubs
<1>4. CASE DeathRelease \/ DeathClear
  BY <1>4 DEF DeathRelease, DeathClear, Release, Stubs
<1>5. CASE StoreRemote \/ AddObjectDeathRecipient \/ ConnectDone \/ DisconnectDone \/ PickerDies
  BY <1>5 DEF StoreRemote, AddObjectDeathRecipient, ConnectDone, DisconnectDone, PickerDies,
     callVars, Stubs
<1> QED
  BY <1>1, <1>2, <1>3, <1>4, <1>5 DEF Callback

\* A call keeps the answer in the stub from its request to its end.
LEMMA AnswerStep ==
  ASSUME TypeOK, OneInside, AnswerKept, Next
  PROVE  AnswerKept'
<1> USE PickerAssumption DEF TypeOK, AnswerKept, Released
<1>1. ASSUME NEW c \in Clients, Call(c) \/ CallStep(c) \/ SpuriousWakeup(c)
      PROVE  AnswerKept'
  <2>1. ASSUME pc[c] \in Unasked, pc[c] \notin {"idle", "queued"} PROVE answer = "none"
    BY <2>1 DEF OneInside, Unasked
  <2>2. CASE /\ pc[c] = "connect" /\ stub' \in {NewStub, NoStub}
             /\ UNCHANGED <<answer, selection, death>>
             /\ \E l \in Unasked : pc' = [pc EXCEPT ![c] = l]
    <3>1. answer = "none" /\ stub'.flag = FALSE
      BY <2>1, <2>2 DEF Unasked, NewStub, NoStub
    <3> QED
      BY <2>2, <3>1
  <2>3. CASE /\ pc[c] = "send" /\ pc' = [pc EXCEPT ![c] = "sending"]
             /\ answer' \in {answer, "asked"} /\ UNCHANGED <<stub, selection, death, local>>
    <3>1. answer = "none" /\ pc'[c] \notin Unasked
      BY <2>1, <2>3 DEF Unasked
    <3> QED
      BY <2>3, <3>1
  <2>4. CASE /\ pc[c] = "disconnect" /\ pc' = [pc EXCEPT ![c] = "idle"]
             /\ stub' = NoStub /\ answer' = "none" /\ selection' = NoSelection
    BY <2>4 DEF NoStub, NewStub
  <2>5. CASE /\ UNCHANGED <<answer, selection, death>>
             /\ stub' \in {stub, [stub EXCEPT !.flag = FALSE], [stub EXCEPT !.err = FALSE]}
             /\ \E l \in ClientPcs : /\ pc' = [pc EXCEPT ![c] = l]
                                     /\ l \in Unasked => pc[c] \in Unasked
    <3>1. /\ stub'.flag => stub.flag
          /\ stub'.screen = stub.screen /\ stub'.rect = stub.rect
      BY <2>5 DEF Stubs
    <3>2. (\A d \in Clients : pc'[d] \in Unasked) => answer = "none"
      BY <2>5
    <3> QED
      BY <2>5, <3>1, <3>2
  <2> QED
    BY <1>1, <2>2, <2>3, <2>4, <2>5, CallEffect
<1>2. ASSUME Callback \/ DisconnectDone \/ PickerDies PROVE AnswerKept'
  <2>1. (\A d \in Clients : pc'[d] \in Unasked) => \A d \in Clients : pc[d] \in Unasked
    BY <1>2, CallbackEffect DEF Unasked
  <2>2. answer = "none" => answer' = "none"
    BY <1>2, CallbackEffect
  <2>3. AnswerKept!2'
    BY <1>2, CallbackEffect
  <2>4. AnswerKept!3' /\ AnswerKept!4'
    BY <1>2, CallbackEffect
  <2>5. AnswerKept!5'
    BY <1>2, CallbackEffect DEF NoSelection
  <2> QED
    BY <2>1, <2>2, <2>3, <2>4, <2>5
<1> QED
  BY <1>1, <1>2 DEF Next

\* What the call reads from the stub is of the answer the stub keeps.
LEMMA ReadStep ==
  ASSUME TypeOK, OneInside, AnswerKept, ReadKept, Next
  PROVE  ReadKept'
<1> USE PickerAssumption DEF TypeOK, ReadKept, Released
<1> DEFINE Reading == {"errCode", "readScreen", "readRect", "disconnect"}
<1>1. ASSUME NEW c \in Clients, Call(c) \/ CallStep(c) \/ SpuriousWakeup(c)
      PROVE  ReadKept'
  <2>1. CASE TestFlag(c)
    BY <2>1 DEF TestFlag, Move, Goto, platform, callVars, AnswerKept, OneInside
  <2>2. CASE ReadErrCode(c)
    BY <2>2 DEF ReadErrCode, Move, Goto, platform, OneInside
  <2>3. CASE ReadScreen(c)
    <3>1. /\ death = "none" /\ selection.rect \in Rects => stub.screen = selection.screen
          /\ local'.screen = stub.screen
      BY <2>3 DEF ReadScreen, Move, AnswerKept
    <3> QED
      BY <2>3, <3>1 DEF ReadScreen, Move, Goto, platform, OneInside
  <2>4. CASE ReadRect(c)
    <3>1. /\ death = "none" /\ selection.rect \in Rects => stub.rect = selection.rect
          /\ local'.rect = stub.rect /\ local'.screen = local.screen
      BY <2>4 DEF ReadRect, Move, AnswerKept
    <3> QED
      BY <2>4, <3>1 DEF ReadRect, Move, Goto, platform, OneInside
  <2>5. CASE Call(c)
    BY <2>5 DEF Call, Move, Goto, callVars, platform
  <2>6. CASE ~(Call(c) \/ TestFlag(c) \/ ReadErrCode(c) \/ ReadScreen(c) \/ ReadRect(c))
    <3>1. \A d \in Clients \ {c} : pc'[d] = pc[d]
      BY CallEffect, <1>1
    <3>2. pc'[c] \notin Reading \/ (pc'[c] = "disconnect" /\ local'.ret = "FAILURE")
      BY <1>1, <2>6 DEF CallStep, SpuriousWakeup, Disallowed, Enter, AlreadyConnected,
         ConnectExtension, GetScreenSnapshotInfo, LinkWait, LinkCheck, Send, SendReturn,
         ResetFlag, Wait, Disconnect, Move, Fail, Finish, Goto, ClientPcs
    <3>3. pc[c] \notin {"idle", "queued"} \/ MutexFree
      BY <1>1, <2>6 DEF CallStep, SpuriousWakeup, Disallowed, Enter, AlreadyConnected,
         ConnectExtension, GetScreenSnapshotInfo, LinkWait, LinkCheck, Send, SendReturn,
         ResetFlag, Wait, Disconnect, Move, Fail
    <3>4. \A d \in Clients \ {c} : pc[d] \in {"idle", "queued"}
      BY <3>3 DEF OneInside, MutexFree
    <3> QED
      BY <3>1, <3>2, <3>4
  <2> QED
    BY <1>1, <2>1, <2>2, <2>3, <2>4, <2>5, <2>6
<1>2. ASSUME Callback \/ DisconnectDone \/ PickerDies PROVE ReadKept'
  <2>1. \A c \in Clients : pc'[c] \in Reading => pc'[c] = pc[c]
    BY <1>2, CallbackEffect
  <2>2. UNCHANGED local
    BY <1>2, CallbackEffect
  <2>3. \/ answer # "done" /\ death' = death
        \/ death' # "none" /\ UNCHANGED <<answer, selection>>
        \/ UNCHANGED <<answer, selection, death>>
    BY <1>2, CallbackEffect
  <2>4. Released => Released'
    BY <1>2, CallbackEffect
  <2> QED
    BY <2>1, <2>2, <2>3, <2>4
<1> QED
  BY <1>1, <1>2 DEF Next

CallInv ==
  /\ TypeOK
  /\ OneInside
  /\ FreshUnlessUsed
  /\ MissedIfUp
  /\ AnswerKept
  /\ ReadKept

LEMMA CallInvCorrect == Spec => []CallInv
<1>1. Init => OneInside /\ FreshUnlessUsed /\ MissedIfUp /\ AnswerKept /\ ReadKept
  BY DEF Init, OneInside, FreshUnlessUsed, MissedIfUp, AnswerKept, ReadKept, NoStub, NewStub
<1>2. ASSUME TypeOK, TypeOK',
             OneInside /\ FreshUnlessUsed /\ MissedIfUp /\ AnswerKept /\ ReadKept, [Next]_vars
      PROVE  (OneInside /\ FreshUnlessUsed /\ MissedIfUp /\ AnswerKept /\ ReadKept)'
  <2>1. CASE Next
    BY <1>2, <2>1, OneInsideStep, FreshStep, MissedStep, AnswerStep, ReadStep
  <2>2. CASE UNCHANGED vars
    BY <1>2, <2>2 DEF vars, OneInside, FreshUnlessUsed, MissedIfUp, AnswerKept, ReadKept, Released
  <2> QED
    BY <1>2, <2>1, <2>2
<1> QED
  BY <1>1, <1>2, TypeCorrect, PTL DEF Spec, CallInv

\* Whatever the clients, and however often the picker dies or is dropped, a
\* call whose picker answered with an area returns that area.
THEOREM AnswerCorrect == Spec => []AnsweredIsSelected
<1>1. CallInv => AnsweredIsSelected
  BY PickerAssumption DEF CallInv, ReadKept, AnsweredIsSelected, Outcome, TypeOK
<1> QED
  BY <1>1, CallInvCorrect, PTL

\* A notification is lost only if it comes before the wait.
THEOREM MissedCorrect == Spec => []LeftWaitingOnlyIfMissed
<1>1. CallInv => LeftWaitingOnlyIfMissed
  BY DEF CallInv, MissedIfUp, LeftWaitingOnlyIfMissed
<1> QED
  BY <1>1, CallInvCorrect, PTL

\* A connection that a failed connect left behind is used by one call.
THEOREM BrokenCorrect == Spec => []BrokenConnectionUsedOnce
<1>1. CallInv => BrokenConnectionUsedOnce
  BY DEF CallInv, FreshUnlessUsed, BrokenConnectionUsedOnce
<1> QED
  BY <1>1, CallInvCorrect, PTL
=============================================================================
