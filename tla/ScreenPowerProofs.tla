-------------------------- MODULE ScreenPowerProofs --------------------------
(***************************************************************************)
(* Proofs about ScreenPower for any set of callers, any reasons, display   *)
(* states, power states and caller operations, and any MaxCredit.          *)
(*                                                                         *)
(* The type invariant is proved part by part (flags, threads, data,        *)
(* history).  Each of the two safety invariants has a strengthening, and a *)
(* lemma that splits Next into the steps that leave the state it talks     *)
(* about alone and the few that do not.                                    *)
(***************************************************************************)
EXTENDS ScreenPower, TLAPS

(* Threads: where the power thread and the callers may be.                 *)
PcsOK ==
  /\ pc \in [Threads -> PowerPcs \cup CallerPcs]
  /\ pc[Power] \in PowerPcs
  /\ \A c \in Callers : pc[c] \in CallerPcs
MutexOK ==
  /\ mutex \in [Mutexes -> Callers \cup {NoThread}]
  /\ op \in [Callers -> {"NONE", "CANCEL", "SKIP"}]

\* The power thread keeps the mutexes (its sections are single steps).
LEMMA PowerMoves ==
  ASSUME PowerCall \/ PowerStep \/ OffSpurious
  PROVE  /\ UNCHANGED <<mutex, op>>
         /\ UNCHANGED pc \/ \E l \in PowerPcs : Goto(Power, l)
<1>1. CASE PowerCall
  BY <1>1 DEF PowerCall, Move, Write, PowerPcs, OffPcs, OnPcs, DreamPcs, WakeUpBegin,
     SuspendBegin, EndCollaboration, SetDisplayState, SetScreenPowerForAll
<1>2. CASE PowerStep
  BY <1>2 DEF PowerStep, PowerPcs, OffPcs, OnPcs, DreamPcs, SuspendFlags,
     SetScreenPower, SetScreenPowerFin, OffNotified, OffCanceledBeforeNotify,
     OffBlock, OffTest, OffNeed, OffWait, OffTimer, OffWake, OffTimeout,
     OffSkip, OffSuspend, OffCheck, OffCanceledAfterNotify, ReturnFalse, ToldUnknown, Restored,
     OnTest, OnNeed, OnWait, OnTimer, OnWake, DreamEnter, DreamTimer,
     DreamReturn, ReturnTrue, Move, Write
<1>3. CASE OffSpurious
  BY <1>3 DEF OffSpurious, PowerPcs, OffPcs
<1> QED BY <1>1, <1>2, <1>3

\* A caller moves itself, and may wake the power thread.
LEMMA CallerMoves ==
  ASSUME NEW c \in Callers, CallerCall(c) \/ CallerStep(c)
  PROVE  \/ UNCHANGED pc
         \/ \E l \in CallerPcs : Goto(c, l) \/ \E w \in PowerPcs : NotifyAll(c, l, w)
<1>1. CASE CallerCall(c)
  BY <1>1 DEF CallerCall, CallerPcs, PowerPcs, OffPcs, OnPcs, DreamPcs, CancelBegin,
     SkipBegin, EnterNotified, CancelBeforeNotify, SkipBeforeNotify, Grant,
     LockAnswer, PictureFrame, KeyguardDrawn, KeyguardReset, PhyScreen, Move,
     Write
<1>2. CASE CallerStep(c)
  BY <1>2 DEF CallerStep, CallerPcs, PowerPcs, OffPcs, OnPcs, DreamPcs, CancelReadGot,
     CancelReadNeed, ReadOrGiveUp, CancelSet, CancelFin, Grant, LockGot,
     LockNeed, LockNotify, LockFin, KeyNeed, KeyNotify, KeyFin, Move, Write
<1> QED BY <1>1, <1>2

\* A move of the power thread keeps the thread part.
LEMMA GotoPower ==
  ASSUME ThreadsOK, NEW l \in PowerPcs, Goto(Power, l), UNCHANGED <<mutex, op>>
  PROVE  ThreadsOK'
  BY ThreadsAssumption DEF ThreadsOK, Goto, Threads

\* A move of a caller keeps the positions typed.
LEMMA GotoCaller ==
  ASSUME PcsOK, NEW c \in Callers, NEW l \in CallerPcs, Goto(c, l)
  PROVE  PcsOK'
  BY ThreadsAssumption DEF PcsOK, Goto, Threads

\* A notify_all keeps the positions typed.
LEMMA NotifyCaller ==
  ASSUME PcsOK, NEW c \in Callers, NEW l \in CallerPcs, NEW w, NotifyAll(c, l, w)
  PROVE  PcsOK'
<1>1. \A p \in PowerPcs : Woken(p) \in PowerPcs
  BY DEF Woken, PowerPcs, OffPcs, OnPcs, DreamPcs
<1>2. c # Power /\ c \in Threads /\ Power \in Threads
  BY ThreadsAssumption DEF Threads
<1>3. pc' \in [Threads -> PowerPcs \cup CallerPcs]
  BY <1>1, <1>2 DEF PcsOK, NotifyAll
<1>4. pc'[Power] \in PowerPcs
  BY <1>1, <1>2 DEF PcsOK, NotifyAll
<1>5. \A d \in Callers : d # Power /\ d \in Threads
  BY ThreadsAssumption DEF Threads
<1>6. \A d \in Callers : pc'[d] = IF d = c THEN l ELSE pc[d]
  BY <1>2, <1>5 DEF PcsOK, NotifyAll
<1> QED
  BY <1>3, <1>4, <1>6 DEF PcsOK

\* A caller takes and gives back the mutexes in its own name.
LEMMA CallerMutex ==
  ASSUME MutexOK, NEW c \in Callers, CallerCall(c) \/ CallerStep(c)
  PROVE  MutexOK'
<1>1. CASE CallerCall(c)
  BY <1>1 DEF MutexOK, CallerCall, CancelBegin, SkipBegin, EnterNotified, CancelBeforeNotify,
     SkipBeforeNotify, Grant, LockAnswer, PictureFrame, KeyguardDrawn,
     KeyguardReset, PhyScreen, Move, Write
<1>2. CASE CallerStep(c)
  BY <1>2 DEF MutexOK, CallerStep, CancelReadGot, CancelReadNeed, ReadOrGiveUp, CancelSet, CancelFin, Grant,
     LockGot, LockNeed, LockNotify, LockFin, KeyNeed, KeyNotify, KeyFin, Move,
     Write
<1> QED BY <1>1, <1>2

\* The thread part of the type invariant is inductive.
LEMMA ThreadsStep ==
  ASSUME ThreadsOK, Next
  PROVE  ThreadsOK'
<1>1. CASE PowerCall \/ PowerStep \/ OffSpurious
  <2>1. CASE UNCHANGED <<pc, mutex, op>>
    BY <2>1 DEF ThreadsOK
  <2> QED
    BY <1>1, <2>1, PowerMoves, GotoPower
<1>2. ASSUME NEW c \in Callers, CallerCall(c) \/ CallerStep(c) PROVE ThreadsOK'
  <2>1. PcsOK /\ MutexOK
    BY DEF ThreadsOK, PcsOK, MutexOK
  <2>2. PcsOK'
    <3>1. CASE UNCHANGED pc
      BY <3>1, <2>1 DEF PcsOK
    <3> QED
      BY <1>2, <2>1, <3>1, CallerMoves, GotoCaller, NotifyCaller
  <2>3. MutexOK'
    BY <1>2, <2>1, CallerMutex
  <2> QED
    BY <2>2, <2>3 DEF ThreadsOK, PcsOK, MutexOK
<1> QED
  BY <1>1, <1>2 DEF Next

-----------------------------------------------------------------------------
(* Flags.                                                                  *)

\* The flag part of the type invariant is inductive.
LEMMA FlagsStep ==
  ASSUME FlagsOK, Next
  PROVE  FlagsOK'
<1> USE DEF FlagsOK, SetFlag, With
<1>1. CASE PowerCall
  BY <1>1 DEF PowerCall, WakeUpBegin, SuspendBegin, EndCollaboration, SetDisplayState,
     SetScreenPowerForAll
<1>2. CASE PowerStep
  BY <1>2 DEF PowerStep,
     SuspendFlags, SetScreenPower, SetScreenPowerFin, OffNotified,
     OffCanceledBeforeNotify, OffBlock, OffTest, OffNeed, OffWait, OffTimer,
     OffWake, OffTimeout, OffSkip, OffSuspend, OffCheck,
     OffCanceledAfterNotify, ReturnFalse, ToldUnknown, Restored, OnTest, OnNeed, OnWait, OnTimer,
     OnWake, DreamEnter, DreamTimer, DreamReturn, ReturnTrue, Move, Write
<1>3. CASE OffSpurious
  BY <1>3 DEF OffSpurious
<1>4. ASSUME NEW c \in Callers, CallerCall(c) PROVE FlagsOK'
  BY <1>4 DEF CallerCall,
     CancelBegin, SkipBegin, EnterNotified, CancelBeforeNotify,
     SkipBeforeNotify, Grant, LockAnswer, PictureFrame, KeyguardDrawn,
     KeyguardReset, PhyScreen, Move, Write
<1>5. ASSUME NEW c \in Callers, CallerStep(c) PROVE FlagsOK'
  BY <1>5 DEF CallerStep,
     CancelReadGot, CancelReadNeed, ReadOrGiveUp, CancelSet, CancelFin, Grant,
     LockGot, LockNeed, LockNotify, LockFin, KeyNeed, KeyNotify, KeyFin, Move,
     Write
<1> QED
  BY <1>1, <1>2, <1>3, <1>4, <1>5 DEF Next

-----------------------------------------------------------------------------
(* Data: the display states, the panel and the locals of the call.         *)

\* The locals of an idle power thread are well typed.
LEMMA NoRequestType == NoRequest \in Request
  BY DEF NoRequest, Request, AllStates, AllPower, AllReasons

\* The data part of the type invariant is inductive.
LEMMA DataStep ==
  ASSUME DataOK, Next
  PROVE  DataOK'
<1> USE NoRequestType DEF DataOK
<1>1. CASE UNCHANGED powerVars
  BY <1>1 DEF powerVars
<1>2. ASSUME NEW r \in Reasons, SuspendBegin(r) PROVE DataOK'
  BY <1>2, InputsAssumption DEF SuspendBegin, Request
<1>3. CASE SuspendFlags
  BY <1>3 DEF SuspendFlags
<1>4. ASSUME NEW s \in DisplayStates, SetDisplayState(s) PROVE DataOK'
  BY <1>4, InputsAssumption DEF SetDisplayState, Request
<1>5. ASSUME NEW s \in PowerStates, NEW r \in Reasons, SetScreenPowerForAll(s, r) PROVE DataOK'
  BY <1>5, InputsAssumption DEF SetScreenPowerForAll, Request, AllPower
<1>6. CASE SetScreenPower
  <2>1. PowerStatus(req.power, req.reason) \in AllPower
    BY DEF PowerStatus, AllPower, Request
  <2> QED
    BY <1>6, <2>1 DEF SetScreenPower, AllPower
<1>7. CASE SetScreenPowerFin
  BY <1>7 DEF SetScreenPowerFin
<1>8. CASE OffCanceledBeforeNotify \/ OffCanceledAfterNotify
  BY <1>8 DEF OffCanceledBeforeNotify, OffCanceledAfterNotify, ReturnFalse, ToldUnknown, Restored, Request, AllStates
<1>9. CASE OffSuspend
  BY <1>9 DEF OffSuspend, Request, AllStates
<1>10. CASE ReturnTrue
  BY <1>10 DEF ReturnTrue, Request
<1>11. Next => \/ UNCHANGED powerVars
               \/ \E r \in Reasons : SuspendBegin(r)
               \/ SuspendFlags \/ SetScreenPower \/ SetScreenPowerFin
               \/ \E s \in DisplayStates : SetDisplayState(s)
               \/ \E s \in PowerStates, r \in Reasons : SetScreenPowerForAll(s, r)
               \/ OffCanceledBeforeNotify \/ OffCanceledAfterNotify
               \/ OffSuspend \/ ReturnTrue
  <2>1. PowerCall => \/ UNCHANGED powerVars
                     \/ \E r \in Reasons : SuspendBegin(r)
                     \/ \E s \in DisplayStates : SetDisplayState(s)
                     \/ \E s \in PowerStates, r \in Reasons : SetScreenPowerForAll(s, r)
    BY DEF PowerCall, WakeUpBegin, EndCollaboration
  <2>2. PowerStep => \/ UNCHANGED powerVars
                     \/ SuspendFlags \/ SetScreenPower \/ SetScreenPowerFin
                     \/ OffCanceledBeforeNotify \/ OffCanceledAfterNotify
                     \/ OffSuspend \/ ReturnTrue
    BY DEF PowerStep, OffNotified, OffBlock, OffTest, OffNeed, OffWait, OffTimer, OffWake,
           OffTimeout, OffSkip, OffCheck, OnTest, OnNeed, OnWait, OnTimer, OnWake,
           DreamEnter, DreamTimer, DreamReturn, Move, Write
  <2>3. OffSpurious => UNCHANGED powerVars
    BY DEF OffSpurious
  <2>4. \A c \in Callers : CallerCall(c) => UNCHANGED powerVars
    BY DEF CallerCall, CancelBegin, SkipBegin, EnterNotified, CancelBeforeNotify,
           SkipBeforeNotify, LockAnswer, PictureFrame, KeyguardDrawn, KeyguardReset,
           PhyScreen, Move, Write
  <2>5. \A c \in Callers : CallerStep(c) => UNCHANGED powerVars
    BY DEF CallerStep, CancelReadGot, CancelReadNeed, ReadOrGiveUp, CancelSet, CancelFin,
           LockGot, LockNeed, LockNotify, LockFin, KeyNeed, KeyNotify, KeyFin, Move, Write
  <2> QED
    BY <2>1, <2>2, <2>3, <2>4, <2>5 DEF Next
<1> QED
  BY <1>1, <1>2, <1>3, <1>4, <1>5, <1>6, <1>7, <1>8, <1>9, <1>10, <1>11

-----------------------------------------------------------------------------
(* History: only these steps touch it.                                     *)

\* The history part of the type invariant is inductive.
LEMMA HistoryStep ==
  ASSUME HistoryOK, Next
  PROVE  HistoryOK'
<1>1. CASE UNCHANGED <<credit, cycle>>
  BY <1>1 DEF HistoryOK
<1>2. ASSUME NEW r \in Reasons, SuspendBegin(r) PROVE HistoryOK'
  BY <1>2 DEF SuspendBegin, HistoryOK
<1>3. CASE OffCanceledBeforeNotify \/ OffCanceledAfterNotify
  <2>1. credit' = credit - 1
    BY <1>3 DEF OffCanceledBeforeNotify, OffCanceledAfterNotify, ReturnFalse, ToldUnknown, Restored
  <2>2. cycle' \in [CycleNames -> BOOLEAN]
    BY <1>3 DEF OffCanceledBeforeNotify, OffCanceledAfterNotify, ReturnFalse, ToldUnknown, Restored, HistoryOK
  <2> QED
    BY <2>1, <2>2 DEF HistoryOK
<1>4. CASE OffNeed
  BY <1>4 DEF OffNeed, HistoryOK
<1>5. CASE OffSpurious
  BY <1>5 DEF OffSpurious, HistoryOK
<1>6. CASE ReturnTrue
  BY <1>6 DEF ReturnTrue, HistoryOK
<1>7. ASSUME NEW c \in Callers, CancelBeforeNotify(c) \/ CancelSet(c) \/ CancelFin(c)
      PROVE  HistoryOK'
  <2>1. credit' = credit \/ credit' = credit + 1
    BY <1>7 DEF CancelBeforeNotify, CancelSet, CancelFin, Grant
  <2>2. cycle' \in [CycleNames -> BOOLEAN]
    BY <1>7 DEF CancelBeforeNotify, CancelSet, CancelFin, HistoryOK
  <2> QED
    BY <2>1, <2>2 DEF HistoryOK
<1>8. Next => \/ UNCHANGED <<credit, cycle>>
              \/ \E r \in Reasons : SuspendBegin(r)
              \/ OffCanceledBeforeNotify \/ OffCanceledAfterNotify
              \/ OffNeed \/ OffSpurious \/ ReturnTrue
              \/ \E c \in Callers : CancelBeforeNotify(c) \/ CancelSet(c) \/ CancelFin(c)
  <2>1. PowerCall => UNCHANGED <<credit, cycle>> \/ \E r \in Reasons : SuspendBegin(r)
    BY DEF PowerCall, WakeUpBegin, EndCollaboration, SetDisplayState, SetScreenPowerForAll
  <2>2. PowerStep => \/ UNCHANGED <<credit, cycle>>
                     \/ OffCanceledBeforeNotify \/ OffCanceledAfterNotify
                     \/ OffNeed \/ ReturnTrue
    BY DEF PowerStep,
           SuspendFlags, SetScreenPower, SetScreenPowerFin, OffNotified,
           OffBlock, OffTest, OffWait, OffTimer, OffWake, OffTimeout, OffSkip,
           OffSuspend, OffCheck, OnTest, OnNeed, OnWait, OnTimer, OnWake,
           DreamEnter, DreamTimer, DreamReturn, Move, Write
  <2>3. \A c \in Callers : CallerCall(c) => UNCHANGED <<credit, cycle>> \/ CancelBeforeNotify(c)
    BY DEF CallerCall,
           CancelBegin, SkipBegin, EnterNotified, SkipBeforeNotify,
           LockAnswer, PictureFrame, KeyguardDrawn, KeyguardReset, PhyScreen,
           Move, Write
  <2>4. \A c \in Callers : CallerStep(c) => \/ UNCHANGED <<credit, cycle>>
                                           \/ CancelSet(c) \/ CancelFin(c)
    BY DEF CallerStep,
           CancelReadGot, CancelReadNeed, ReadOrGiveUp, LockGot, LockNeed,
           LockNotify, LockFin, KeyNeed, KeyNotify, KeyFin, Move, Write
  <2> QED
    BY <2>1, <2>2, <2>3, <2>4 DEF Next
<1> QED
  BY <1>1, <1>2, <1>3, <1>4, <1>5, <1>6, <1>7, <1>8

-----------------------------------------------------------------------------
\* The type invariant: every flag, thread position, mutex owner, state and
\* history variable of the handshake stays in its set, whatever calls overlap.
THEOREM TypeCorrect == Spec => []TypeOK
<1>1. Init => TypeOK
  <2> SUFFICES ASSUME Init PROVE TypeOK
    OBVIOUS
  <2>1. FlagsOK
    BY DEF Init, FlagsOK
  <2>2. ThreadsOK
    BY ThreadsAssumption DEF Init, ThreadsOK, Threads, PowerPcs, CallerPcs
  <2>3. DataOK
    BY NoRequestType DEF Init, DataOK, AllStates, AllPower
  <2>4. HistoryOK
    BY DEF Init, HistoryOK
  <2> QED
    BY <2>1, <2>2, <2>3, <2>4 DEF TypeOK
<1>2. TypeOK /\ [Next]_vars => TypeOK'
  <2> SUFFICES ASSUME TypeOK, [Next]_vars PROVE TypeOK'
    OBVIOUS
  <2>1. CASE Next
    BY <2>1, FlagsStep, ThreadsStep, DataStep, HistoryStep DEF TypeOK
  <2>2. CASE UNCHANGED vars
    BY <2>2 DEF vars, TypeOK, FlagsOK, ThreadsOK, DataOK, HistoryOK
  <2> QED
    BY <2>1, <2>2
<1> QED
  BY <1>1, <1>2, PTL DEF Spec

-----------------------------------------------------------------------------
(* Every refused screen-off consumes a granted cancel.                     *)

\* The cancels that were granted and still wait to be consumed.
Pending == (IF flags.needCancelNotify THEN 1 ELSE 0) + (IF flags.canceledSuspend THEN 1 ELSE 0)
CreditInv ==
  credit >= Pending /\ (At(Power, "offClear") => flags.canceledSuspend)
SameFlags ==
  /\ credit' = credit
  /\ flags'.needCancelNotify = flags.needCancelNotify
  /\ flags'.canceledSuspend = flags.canceledSuspend
NotClear == At(Power, "offClear")' => At(Power, "offClear")
Same == SameFlags /\ NotClear

\* The strengthening with the two cancel flags is inductive.
LEMMA CreditStep ==
  ASSUME TypeOK, CreditInv, Next
  PROVE  CreditInv'
<1> USE DEF TypeOK, FlagsOK, HistoryOK
<1>a. \A t \in Threads : \A l : Goto(t, l) => \A u \in Threads : pc'[u] = IF u = t THEN l ELSE pc[u]
  BY DEF Goto, ThreadsOK
<1>b. Power \in Threads /\ \A c \in Callers : c \in Threads /\ c # Power
  BY ThreadsAssumption DEF Threads
<1>c. \A c \in Callers : \A l, w : NotifyAll(c, l, w) => (At(Power, "offClear")' => At(Power, "offClear"))
  BY <1>b DEF NotifyAll, Woken, ThreadsOK, At
<1>f. "needCancelNotify" \in FlagNames /\ "canceledSuspend" \in FlagNames
  BY DEF FlagNames
<1> USE <1>b, <1>f DEF SetFlag, With, Same, SameFlags, NotClear
<1>1. PowerCall => Same
  <2> SUFFICES ASSUME PowerCall PROVE SameFlags /\ NotClear
    OBVIOUS
  <2>1. SameFlags
    BY DEF PowerCall, WakeUpBegin, SuspendBegin, EndCollaboration, SetDisplayState,
     SetScreenPowerForAll
  <2>2. UNCHANGED pc \/ \E l \in PowerPcs \ {"offClear"} : Goto(Power, l)
    BY DEF PowerCall, PowerPcs, OffPcs, OnPcs, DreamPcs, WakeUpBegin, SuspendBegin, EndCollaboration, SetDisplayState,
     SetScreenPowerForAll
  <2> QED
    BY <2>1, <2>2, <1>a DEF At
<1>2. PowerStep => Same \/ OffCanceledBeforeNotify \/ OffCanceledAfterNotify \/ OffCheck
  <2> SUFFICES ASSUME PowerStep, ~OffCanceledBeforeNotify, ~OffCanceledAfterNotify, ~OffCheck
               PROVE  SameFlags /\ NotClear
    OBVIOUS
  <2>1. SameFlags
    BY DEF PowerStep, SuspendFlags, SetScreenPower, SetScreenPowerFin, OffNotified, OffBlock,
     OffTest, OffNeed, OffWait, OffTimer, OffWake, OffTimeout, OffSkip,
     OffSuspend, ReturnFalse, ToldUnknown, Restored, OnTest, OnNeed, OnWait, OnTimer, OnWake,
     DreamEnter, DreamTimer, DreamReturn, ReturnTrue, Move, Write
  <2>2. \E l \in PowerPcs \ {"offClear"} : Goto(Power, l)
    BY DEF PowerStep, PowerPcs, OffPcs, OnPcs, DreamPcs, SuspendFlags, SetScreenPower, SetScreenPowerFin, OffNotified, OffBlock,
     OffTest, OffNeed, OffWait, OffTimer, OffWake, OffTimeout, OffSkip,
     OffSuspend, ReturnFalse, ToldUnknown, Restored, OnTest, OnNeed, OnWait, OnTimer, OnWake,
     DreamEnter, DreamTimer, DreamReturn, ReturnTrue, Move, Write
  <2> QED
    BY <2>1, <2>2, <1>a DEF At
<1> USE <1>a DEF At
<1>3. OffSpurious => Same
  BY DEF OffSpurious
<1>4. ASSUME NEW c \in Callers, CallerCall(c) PROVE Same \/ CancelBeforeNotify(c)
  BY <1>4, <1>c DEF CallerCall, CancelBegin, SkipBegin, EnterNotified, SkipBeforeNotify, Grant,
     LockAnswer, PictureFrame, KeyguardDrawn, KeyguardReset, PhyScreen, Move,
     Write
<1>5. ASSUME NEW c \in Callers, CallerStep(c) PROVE Same \/ CancelSet(c)
  BY <1>5, <1>c DEF CallerStep, CancelReadGot, CancelReadNeed, ReadOrGiveUp, CancelFin, Grant, LockGot,
     LockNeed, LockNotify, LockFin, KeyNeed, KeyNotify, KeyFin, Move, Write
<1> HIDE DEF Same, SameFlags, NotClear
<1>6. CASE Same
  BY <1>6 DEF Same, SameFlags, NotClear, CreditInv, Pending
<1>7. CASE OffCanceledBeforeNotify
  <2>1. flags.needCancelNotify /\ credit' = credit - 1
    BY <1>7 DEF OffCanceledBeforeNotify, ReturnFalse, ToldUnknown, Restored
  <2>2. ~flags'.needCancelNotify /\ flags'.canceledSuspend = flags.canceledSuspend
    BY <1>7 DEF OffCanceledBeforeNotify, ReturnFalse, ToldUnknown, Restored
  <2>3. ~At(Power, "offClear")'
    BY <1>7 DEF OffCanceledBeforeNotify, ReturnFalse, ToldUnknown, Restored
  <2> QED
    BY <2>1, <2>2, <2>3 DEF CreditInv, Pending
<1>8. CASE OffCanceledAfterNotify
  <2>1. At(Power, "offClear") /\ credit' = credit - 1
    BY <1>8 DEF OffCanceledAfterNotify, ReturnFalse, ToldUnknown, Restored
  <2>2. ~flags'.canceledSuspend /\ flags'.needCancelNotify = flags.needCancelNotify
    BY <1>8 DEF OffCanceledAfterNotify, ReturnFalse, ToldUnknown, Restored
  <2>3. ~At(Power, "offClear")'
    BY <1>8 DEF OffCanceledAfterNotify, ReturnFalse, ToldUnknown, Restored
  <2> QED
    BY <2>1, <2>2, <2>3 DEF CreditInv, Pending
<1>9. CASE OffCheck
  <2>1. SameFlags
    BY <1>9 DEF OffCheck, Write, SameFlags
  <2>2. At(Power, "offClear")' => flags.canceledSuspend
    BY <1>9 DEF OffCheck, Write
  <2> QED
    BY <2>1, <2>2 DEF SameFlags, CreditInv, Pending
<1>10. ASSUME NEW c \in Callers, CancelBeforeNotify(c) PROVE CreditInv'
  <2>1. credit' = credit + 1 /\ pc' = pc /\ flags'.canceledSuspend = flags.canceledSuspend
    BY <1>10 DEF CancelBeforeNotify, Grant
  <2> QED
    BY <2>1 DEF CreditInv, Pending
<1>11. ASSUME NEW c \in Callers, CancelSet(c) PROVE CreditInv'
  <2>1. At(Power, "offClear")' => At(Power, "offClear")
    BY <1>11, <1>c DEF CancelSet
  <2>2. \/ SameFlags
        \/ /\ credit' = credit + 1
           /\ flags'.canceledSuspend
           /\ flags'.needCancelNotify = flags.needCancelNotify
    BY <1>11 DEF CancelSet, Grant, SameFlags
  <2> QED
    BY <2>1, <2>2 DEF SameFlags, CreditInv, Pending
<1> QED
  BY <1>1, <1>2, <1>3, <1>4, <1>5, <1>6, <1>7, <1>8, <1>9, <1>10, <1>11 DEF Next

\* A screen-off is refused at most once for every cancel that
\* TryToCancelScreenOff granted, through either of its two flags, although
\* canceledSuspend_ is tested and reset in two unprotected steps.
THEOREM RefusalsCorrect == Spec => []RefusalsAreGranted
<1>1. Init => CreditInv
  <2> SUFFICES ASSUME Init PROVE CreditInv
    OBVIOUS
  <2>1. ~flags.needCancelNotify /\ ~flags.canceledSuspend
    <3>1. "needCancelNotify" \in FlagNames /\ "canceledSuspend" \in FlagNames
      BY DEF FlagNames
    <3> QED
      BY <3>1, Zenon DEF Init
  <2>2. pc[Power] = "idle" /\ credit = 0
    BY DEF Init, Threads
  <2> QED
    BY <2>1, <2>2 DEF CreditInv, Pending, At
<1>2. TypeOK /\ CreditInv /\ [Next]_vars => CreditInv'
  <2> SUFFICES ASSUME TypeOK, CreditInv, [Next]_vars PROVE CreditInv'
    OBVIOUS
  <2>1. CASE UNCHANGED vars
    BY <2>1 DEF vars, CreditInv, Pending, At
  <2> QED
    BY <2>1, CreditStep
<1>3. TypeOK /\ CreditInv => RefusalsAreGranted
  BY DEF TypeOK, HistoryOK, CreditInv, Pending, RefusalsAreGranted
<1> QED
  BY <1>1, <1>2, <1>3, TypeCorrect, PTL DEF Spec

-----------------------------------------------------------------------------
(* The copies of the display state agree between calls.                    *)

OffBefore == OffPcs \ {"offReturn"}

\* What the three copies of the display state are inside and outside a call, and
\* what the clients will be told when the state is taken.
AgreeInv ==
  /\ pc[Power] \notin InCall =>
       screenState = displayState /\ lastDisplayState = displayState
  /\ pc[Power] \in InCall =>
       displayState = req.state /\ screenState = req.state /\ lastDisplayState = req.last
  /\ pc[Power] \in InCall =>
       \/ req.shown = req.state
       \/ req.state = "OFF" /\ req.shown = "ON_SUSPEND"
  /\ pc[Power] \in InCall => req.state \in {"ON", "OFF"}
  /\ pc[Power] \in OffBefore => req.state = "OFF"

\* A step that leaves the states alone moves Power inside or outside the call.
Quiet ==
  /\ UNCHANGED <<displayState, screenState, lastDisplayState, announced>>
  /\ \/ pc[Power] \notin InCall /\ pc'[Power] \notin InCall
     \/ /\ pc[Power] \in InCall /\ pc'[Power] \in InCall
        /\ req'.state = req.state /\ req'.last = req.last
        /\ pc'[Power] \in OffBefore => pc[Power] \in OffBefore
        /\ \/ req'.shown = req.shown
           \/ pc[Power] \in OffBefore /\ req'.shown = "ON_SUSPEND"

\* The display states change at the beginning and at the end of a call only.
LEMMA QuietOrCall ==
  ASSUME TypeOK, Next
  PROVE  \/ Quiet
         \/ \E s \in DisplayStates : SetDisplayState(s)
         \/ OffCanceledBeforeNotify \/ OffCanceledAfterNotify \/ ReturnTrue
<1>a. \A l : Goto(Power, l) => pc'[Power] = l
  BY DEF Goto, TypeOK, ThreadsOK, Threads
<1>b. \A c \in Callers : \A l : Goto(c, l) => pc'[Power] = pc[Power]
  BY ThreadsAssumption DEF Goto, TypeOK, ThreadsOK, Threads
<1>c. \A c \in Callers : \A l, w : NotifyAll(c, l, w) => pc'[Power] \in {pc[Power], Woken(pc[Power])}
  BY ThreadsAssumption DEF NotifyAll, TypeOK, ThreadsOK, Threads
<1>d. /\ pc[Power] \in InCall <=> Woken(pc[Power]) \in InCall
      /\ Woken(pc[Power]) \in OffBefore => pc[Power] \in OffBefore
  BY DEF Woken, InCall, OffBefore, OffPcs, OnPcs
<1>e. OffBefore \subseteq InCall
  BY DEF OffBefore, InCall
<1>1. PowerCall => Quiet \/ \E s \in DisplayStates : SetDisplayState(s)
  <2> SUFFICES ASSUME PowerCall, ~\E s \in DisplayStates : SetDisplayState(s) PROVE Quiet
    OBVIOUS
  <2>1. UNCHANGED <<displayState, screenState, lastDisplayState, announced>>
    BY DEF PowerCall, powerVars, WakeUpBegin, SuspendBegin, EndCollaboration, SetScreenPowerForAll
  <2>2. /\ pc[Power] = "idle"
        /\ UNCHANGED pc \/ \E l \in {"dreamEnter", "suspendFlags", "powerStatus"} : Goto(Power, l)
    BY DEF PowerCall, At, WakeUpBegin, SuspendBegin, EndCollaboration, SetScreenPowerForAll
  <2> QED
    BY <2>1, <2>2, <1>a DEF Quiet, InCall, OffPcs, OnPcs
<1>2. PowerStep => \/ Quiet
                  \/ OffCanceledBeforeNotify \/ OffCanceledAfterNotify \/ ReturnTrue
  <2> SUFFICES ASSUME PowerStep, ~OffCanceledBeforeNotify, ~OffCanceledAfterNotify, ~ReturnTrue
               PROVE  Quiet
    OBVIOUS
  <2>1. UNCHANGED <<displayState, screenState, lastDisplayState, announced>>
    BY DEF PowerStep, powerVars,
           SuspendFlags, SetScreenPower, SetScreenPowerFin, OffNotified,
           OffBlock, OffTest, OffNeed, OffWait, OffTimer, OffWake, OffTimeout,
           OffSkip, OffSuspend, OffCheck, OnTest, OnNeed, OnWait, OnTimer,
           OnWake, DreamEnter, DreamTimer, DreamReturn, Move, Write
  <2>2. \/ UNCHANGED req
        \/ OffSuspend
        \/ pc[Power] \in {"suspendFlags", "powerStatus", "powerFin"}
    BY DEF PowerStep, powerVars, At,
           SuspendFlags, SetScreenPower, SetScreenPowerFin, OffNotified,
           OffBlock, OffTest, OffNeed, OffWait, OffTimer, OffWake, OffTimeout,
           OffSkip, OffCheck, OnTest, OnNeed, OnWait, OnTimer, OnWake,
           DreamEnter, DreamTimer, DreamReturn, Move, Write
  <2>4. OffSuspend => /\ req'.state = req.state /\ req'.last = req.last
                      /\ pc[Power] \in OffBefore
                      /\ req'.shown = req.shown \/ req'.shown = "ON_SUSPEND"
    BY DEF OffSuspend, TypeOK, DataOK, Request, At, OffBefore, OffPcs
  <2>3. \/ pc[Power] \notin InCall /\ pc'[Power] \notin InCall
        \/ /\ pc[Power] \in InCall /\ pc'[Power] \in InCall
           /\ pc'[Power] \in OffBefore => pc[Power] \in OffBefore
    BY <1>a DEF PowerStep, At, InCall, OffBefore, OffPcs, OnPcs,
           SuspendFlags, SetScreenPower, SetScreenPowerFin, OffNotified,
           OffBlock, OffTest, OffNeed, OffWait, OffTimer, OffWake, OffTimeout,
           OffSkip, OffSuspend, OffCheck, OnTest, OnNeed, OnWait, OnTimer,
           OnWake, DreamEnter, DreamTimer, DreamReturn, Move, Write
  <2> QED
    BY <2>1, <2>2, <2>3, <2>4 DEF Quiet, InCall, OffPcs, OnPcs
<1>3. OffSpurious => Quiet
  BY <1>a DEF OffSpurious, powerVars, Quiet, At, InCall, OffBefore, OffPcs
<1>4. ASSUME NEW c \in Callers, CallerCall(c) PROVE Quiet
  <2>1. UNCHANGED powerVars /\ pc'[Power] \in {pc[Power], Woken(pc[Power])}
    BY <1>4, <1>b, <1>c DEF CallerCall,
           CancelBegin, SkipBegin, EnterNotified, CancelBeforeNotify,
           SkipBeforeNotify, Grant, LockAnswer, PictureFrame, KeyguardDrawn,
           KeyguardReset, PhyScreen, Move, Write
  <2> QED
    BY <2>1, <1>d DEF Quiet, powerVars
<1>5. ASSUME NEW c \in Callers, CallerStep(c) PROVE Quiet
  <2>1. UNCHANGED powerVars /\ pc'[Power] \in {pc[Power], Woken(pc[Power])}
    BY <1>5, <1>b, <1>c DEF CallerStep,
           CancelReadGot, CancelReadNeed, ReadOrGiveUp, CancelSet, CancelFin,
           Grant, LockGot, LockNeed, LockNotify, LockFin, KeyNeed, KeyNotify,
           KeyFin, Move, Write
  <2> QED
    BY <2>1, <1>d DEF Quiet, powerVars
<1> QED
  BY <1>1, <1>2, <1>3, <1>4, <1>5 DEF Next

\* The strengthening over the whole call is inductive.
LEMMA AgreeStep ==
  ASSUME TypeOK, AgreeInv, Next, DisplayStates \subseteq {"ON", "OFF"}
  PROVE  AgreeInv'
<1>a. \A l : Goto(Power, l) => pc'[Power] = l
  BY DEF Goto, TypeOK, ThreadsOK, Threads
<1>e. OffBefore \subseteq InCall
  BY DEF OffBefore, InCall
<1>6. CASE Quiet
  BY <1>6, <1>e DEF Quiet, AgreeInv
<1>7. ASSUME NEW s \in DisplayStates, SetDisplayState(s) PROVE AgreeInv'
  <2>1. pc[Power] \notin InCall /\ s \in {"ON", "OFF"}
    BY <1>7 DEF SetDisplayState, At, InCall, OffPcs, OnPcs
  <2>2. displayState' = s /\ screenState' = s /\ lastDisplayState' = lastDisplayState
    BY <1>7, <2>1 DEF SetDisplayState
  <2>3. req'.state = s /\ req'.last = displayState /\ req'.shown = s
    BY <1>7 DEF SetDisplayState, TypeOK, DataOK, Request
  <2>4. pc'[Power] \in InCall /\ (pc'[Power] \in OffBefore => s = "OFF")
    BY <1>7, <1>a, <2>1 DEF SetDisplayState, InCall, OffBefore, OffPcs, OnPcs
  <2> QED
    BY <2>1, <2>2, <2>3, <2>4 DEF AgreeInv
<1>8. CASE OffCanceledBeforeNotify \/ OffCanceledAfterNotify
  <2>1. pc[Power] \in OffBefore /\ pc[Power] \in InCall /\ pc'[Power] = "idle"
    BY <1>8, <1>a DEF OffCanceledBeforeNotify, OffCanceledAfterNotify, ReturnFalse, ToldUnknown, Restored, At,
                      InCall, OffBefore, OffPcs
  <2>2. /\ displayState' = req.last
        /\ req.state = "OFF" => screenState' = lastDisplayState /\ lastDisplayState' = lastDisplayState
    BY <1>8 DEF OffCanceledBeforeNotify, OffCanceledAfterNotify, ReturnFalse, ToldUnknown, Restored
  <2> QED
    BY <2>1, <2>2 DEF AgreeInv, InCall, OffBefore, OffPcs, OnPcs
<1>9. CASE ReturnTrue
  <2>1. pc[Power] \in InCall /\ pc'[Power] = "idle"
    BY <1>9, <1>a DEF ReturnTrue, At, InCall, OffPcs
  <2> QED
    BY <1>9, <2>1 DEF ReturnTrue, AgreeInv, InCall, OffBefore, OffPcs, OnPcs
<1> QED
  BY <1>6, <1>7, <1>8, <1>9, QuietOrCall

\* The strengthening holds while the power service asks for ON and OFF only.
LEMMA AgreeInvCorrect ==
  ASSUME DisplayStates \subseteq {"ON", "OFF"}
  PROVE  Spec => []AgreeInv
<1>1. Init => AgreeInv
  BY DEF Init, AgreeInv, Threads, InCall, OffBefore, OffPcs, OnPcs
<1>2. TypeOK /\ AgreeInv /\ [Next]_vars => AgreeInv'
  <2> SUFFICES ASSUME TypeOK, AgreeInv, [Next]_vars PROVE AgreeInv'
    OBVIOUS
  <2>1. CASE UNCHANGED vars
    BY <2>1 DEF vars, AgreeInv
  <2> QED
    BY <2>1, AgreeStep
<1> QED
  BY <1>1, <1>2, TypeCorrect, PTL DEF Spec

\* As long as the power service asks for ON and OFF only, the controller, the
\* screens and lastDisplayState_ agree between its calls: a cancelled
\* screen-off restores all three.
THEOREM AgreementCorrect ==
  ASSUME DisplayStates \subseteq {"ON", "OFF"}
  PROVE  Spec => []ScreensAgree
<1>1. AgreeInv => ScreensAgree
  BY DEF AgreeInv, ScreensAgree, At, InCall, OffPcs, OnPcs
<1> QED
  BY <1>1, AgreeInvCorrect, PTL

-----------------------------------------------------------------------------
(* The handshake implements the one-step display state.                    *)

\* Every step of the handshake is a step of SetDisplayState as its callers see
\* it, or none of their business.
LEMMA DisplayStep ==
  ASSUME TypeOK, AgreeInv, AgreeInv', Next, DisplayStates \subseteq {"ON", "OFF"}
  PROVE  [Display!Next]_(Display!vars)
<1>a. \A l : Goto(Power, l) => pc'[Power] = l
  BY DEF Goto, TypeOK, ThreadsOK, Threads
<1>e. OffBefore \subseteq InCall
  BY DEF OffBefore, InCall
<1>1. CASE Quiet
  <2>1. CASE pc[Power] \notin InCall /\ pc'[Power] \notin InCall
    BY <1>1, <2>1 DEF Quiet, Display!vars
  <2>2. CASE pc[Power] \in InCall /\ pc'[Power] \in InCall
    BY <1>1, <2>2 DEF Quiet, Display!vars
  <2> QED
    BY <1>1, <2>1, <2>2 DEF Quiet
<1>2. ASSUME NEW s \in DisplayStates, SetDisplayState(s) PROVE Display!Request(s)
  <2>1. pc[Power] \notin InCall
    BY <1>2 DEF SetDisplayState, At, InCall, OffPcs, OnPcs
  <2>2. pc'[Power] \in InCall
    BY <1>2, <1>a DEF SetDisplayState, InCall, OffPcs, OnPcs
  <2>3. req'.state = s /\ req'.last = displayState
    BY <1>2 DEF SetDisplayState, TypeOK, DataOK, Request
  <2>4. announced' = announced
    BY <1>2 DEF SetDisplayState
  <2>5. screenState = displayState /\ lastDisplayState = displayState
    BY <2>1 DEF AgreeInv
  <2> QED
    BY <2>1, <2>2, <2>3, <2>4, <2>5 DEF Display!Request, Display!NoTarget
<1>3. CASE OffCanceledBeforeNotify \/ OffCanceledAfterNotify
  <2>1. pc[Power] \in InCall /\ pc'[Power] \notin InCall /\ req.state = "OFF"
    BY <1>3, <1>a DEF OffCanceledBeforeNotify, OffCanceledAfterNotify, ReturnFalse, ToldUnknown, Restored, At,
                      InCall, OffBefore, OffPcs, OnPcs, AgreeInv
  <2>2. announced' = "UNKNOWN" /\ displayState' = req.last
    BY <1>3 DEF OffCanceledBeforeNotify, OffCanceledAfterNotify, ReturnFalse, ToldUnknown
  <2>3. screenState' = req.last /\ lastDisplayState' = req.last
    BY <2>1, <2>2 DEF AgreeInv
  <2>4. Display!Refuse
    BY <2>1, <2>2, <2>3 DEF Display!Refuse, Display!NoTarget
  <2> QED
    BY <2>4 DEF Display!Next
<1>4. CASE ReturnTrue
  <2>1. pc[Power] \in InCall /\ pc'[Power] \notin InCall
    BY <1>4, <1>a DEF ReturnTrue, At, InCall, OffPcs, OnPcs
  <2>2. /\ announced' = req.shown
        /\ displayState' = req.state /\ screenState' = req.state /\ lastDisplayState' = req.state
    BY <1>4, <2>1 DEF ReturnTrue, AgreeInv
  <2>3. /\ req.state \in {"ON", "OFF"}
        /\ req.shown = req.state \/ (req.state = "OFF" /\ req.shown = "ON_SUSPEND")
    BY <2>1 DEF AgreeInv
  <2>4. Display!Take
    BY <2>1, <2>2, <2>3 DEF Display!Take, Display!NoTarget
  <2> QED
    BY <2>4 DEF Display!Next
<1> QED
  BY <1>1, <1>2, <1>3, <1>4, QuietOrCall DEF Display!Next

\* SetDisplayState implements its abstract specification: while the power
\* service asks for ON and OFF only, the three copies of the display state take
\* a state together and the clients are told so, or the screen-off is refused,
\* all three are what they were and the clients are told UNKNOWN.
THEOREM DisplayRefinement ==
  ASSUME DisplayStates \subseteq {"ON", "OFF"}
  PROVE  Spec => ImplementsDisplay
<1>1. Init => Display!Init
  BY DEF Init, Display!Init, Display!NoTarget, Threads, InCall, OffPcs, OnPcs
<1>2. TypeOK /\ AgreeInv /\ AgreeInv' /\ [Next]_vars => [Display!Next]_(Display!vars)
  <2> SUFFICES ASSUME TypeOK, AgreeInv, AgreeInv', [Next]_vars
               PROVE  [Display!Next]_(Display!vars)
    OBVIOUS
  <2>1. CASE UNCHANGED vars
    BY <2>1 DEF vars, Display!vars
  <2> QED
    BY <2>1, DisplayStep
<1> QED
  BY <1>1, <1>2, AgreeInvCorrect, TypeCorrect, PTL DEF Spec, ImplementsDisplay, Display!Spec

-----------------------------------------------------------------------------
(* needScreenOffNotify_ does not outlive the wait.                         *)

Waiting == pc[Power] \in {"offWait", "offWaiting", "offExpired"}
Answering == \E c \in Callers : pc[c] \in {"cancelFin", "lockFin"}

\* A step that does not raise the flag, nor forget a spurious wake-up, and that
\* leaves the places where the flag may be up.
Harmless ==
  /\ flags'.needScreenOffNotify => flags.needScreenOffNotify
  /\ cycle'.spurious = cycle.spurious
  /\ Waiting => Waiting'
  /\ Answering => Answering'

\* The property is inductive as it stands.
LEMMA DanglingStep ==
  ASSUME TypeOK, NoDanglingWait, Next
  PROVE  NoDanglingWait'
<1> USE DEF TypeOK, FlagsOK, HistoryOK, SetFlag, With
<1>a. \A t \in Threads : \A l : Goto(t, l) => \A u \in Threads : pc'[u] = IF u = t THEN l ELSE pc[u]
  BY DEF Goto, ThreadsOK
<1>b. Power \in Threads /\ \A c \in Callers : c \in Threads /\ c # Power
  BY ThreadsAssumption DEF Threads
<1>c. \A c \in Callers : \A l, w : NotifyAll(c, l, w) =>
        /\ pc'[c] = l
        /\ pc'[Power] = pc[Power] \/ (pc[Power] = w /\ pc'[Power] = Woken(w))
        /\ \A d \in Callers \ {c} : pc'[d] = pc[d]
  BY <1>b DEF NotifyAll, ThreadsOK
<1>f. "needScreenOffNotify" \in FlagNames /\ "spurious" \in CycleNames
  BY DEF FlagNames, CycleNames
<1>g. \A l : Goto(Power, l) => pc'[Power] = l /\ (Answering => Answering')
  BY <1>a, <1>b DEF Answering
<1>h. \A c \in Callers : \A l : Goto(c, l) =>
        /\ Waiting => Waiting'
        /\ pc[c] \notin {"cancelFin", "lockFin"} => (Answering => Answering')
  BY <1>a, <1>b DEF Answering, Waiting
<1>i. \A c \in Callers : \A l, w : NotifyAll(c, l, w) /\ w # "offWaiting" =>
        /\ Waiting => Waiting'
        /\ pc[c] \notin {"cancelFin", "lockFin"} => (Answering => Answering')
  BY <1>b, <1>c DEF Answering, Waiting, Woken
<1> USE <1>f
<1>1. PowerCall => Harmless
  <2> SUFFICES ASSUME PowerCall PROVE Harmless
    OBVIOUS
  <2>1. /\ flags'.needScreenOffNotify = flags.needScreenOffNotify
        /\ cycle'.spurious = cycle.spurious
    BY DEF PowerCall, WakeUpBegin, SuspendBegin, EndCollaboration, SetDisplayState,
           SetScreenPowerForAll
  <2>2. ~Waiting
    BY DEF PowerCall, WakeUpBegin, SuspendBegin, EndCollaboration, SetDisplayState,
           SetScreenPowerForAll, At, Waiting
  <2>3. UNCHANGED pc \/ \E l : Goto(Power, l)
    BY DEF PowerCall, WakeUpBegin, SuspendBegin, EndCollaboration, SetDisplayState,
           SetScreenPowerForAll
  <2> QED
    BY <2>1, <2>2, <2>3, <1>g DEF Harmless, Answering
<1>2. PowerStep => Harmless \/ OffNeed \/ OffTimeout
  <2> SUFFICES ASSUME PowerStep, ~OffNeed, ~OffTimeout PROVE Harmless
    OBVIOUS
  <2>1. flags'.needScreenOffNotify = flags.needScreenOffNotify
    BY DEF PowerStep, SuspendFlags, SetScreenPower, SetScreenPowerFin, OffNotified,
     OffCanceledBeforeNotify, OffBlock, OffTest, OffWait, OffTimer, OffWake, OffSkip,
     OffSuspend, OffCheck, OffCanceledAfterNotify, ReturnFalse, OnTest, OnNeed, OnWait,
     OnTimer, OnWake, DreamEnter, DreamTimer, DreamReturn, ReturnTrue, Move, Write
  <2>2. cycle'.spurious = cycle.spurious
    BY DEF PowerStep, SuspendFlags, SetScreenPower, SetScreenPowerFin, OffNotified,
     OffCanceledBeforeNotify, OffBlock, OffTest, OffWait, OffTimer, OffWake, OffSkip,
     OffSuspend, OffCheck, OffCanceledAfterNotify, ReturnFalse, OnTest, OnNeed, OnWait,
     OnTimer, OnWake, DreamEnter, DreamTimer, DreamReturn, ReturnTrue, Move, Write
  <2>3. \E l : Goto(Power, l) /\ (Waiting => l \in {"offWaiting", "offExpired"})
    BY DEF PowerStep, SuspendFlags, SetScreenPower, SetScreenPowerFin, OffNotified,
     OffCanceledBeforeNotify, OffBlock, OffTest, OffWait, OffTimer, OffWake, OffSkip,
     OffSuspend, OffCheck, OffCanceledAfterNotify, ReturnFalse, OnTest, OnNeed, OnWait,
     OnTimer, OnWake, DreamEnter, DreamTimer, DreamReturn, ReturnTrue, Move, Write,
     At, Waiting
  <2> QED
    BY <2>1, <2>2, <2>3, <1>g DEF Harmless, Waiting
<1>4. ASSUME NEW c \in Callers, CallerCall(c) PROVE Harmless
  <2>1. /\ flags'.needScreenOffNotify = flags.needScreenOffNotify
        /\ cycle'.spurious = cycle.spurious
    BY <1>4 DEF CallerCall, CancelBegin, SkipBegin, EnterNotified, CancelBeforeNotify,
     SkipBeforeNotify, Grant, LockAnswer, PictureFrame, KeyguardDrawn, KeyguardReset,
     PhyScreen, Move, Write
  <2>2. /\ pc[c] = "idle"
        /\ UNCHANGED pc \/ (\E l : Goto(c, l)) \/ (\E l : NotifyAll(c, l, "dreamWaiting"))
    BY <1>4 DEF CallerCall, CancelBegin, SkipBegin, EnterNotified, CancelBeforeNotify,
     SkipBeforeNotify, Grant, LockAnswer, PictureFrame, KeyguardDrawn, KeyguardReset,
     PhyScreen, Move, Write, At
  <2> QED
    BY <2>1, <2>2, <1>h, <1>i DEF Harmless, Waiting, Answering
<1>5. ASSUME NEW c \in Callers, CallerStep(c)
      PROVE  Harmless \/ CancelSet(c) \/ CancelFin(c) \/ LockNotify(c) \/ LockFin(c)
  <2> SUFFICES ASSUME ~CancelSet(c), ~CancelFin(c), ~LockNotify(c), ~LockFin(c)
               PROVE  Harmless
    OBVIOUS
  <2>1. /\ flags'.needScreenOffNotify = flags.needScreenOffNotify
        /\ cycle'.spurious = cycle.spurious
    BY <1>5 DEF CallerStep, CancelReadGot, CancelReadNeed, ReadOrGiveUp, LockGot, LockNeed,
     KeyNeed, KeyNotify, KeyFin, Move, Write
  <2>2. /\ pc[c] \notin {"cancelFin", "lockFin"}
        /\ (\E l : Goto(c, l)) \/ (\E l : NotifyAll(c, l, "onWaiting"))
    BY <1>5 DEF CallerStep, CancelReadGot, CancelReadNeed, ReadOrGiveUp, LockGot, LockNeed,
     KeyNeed, KeyNotify, KeyFin, Move, Write, At
  <2> QED
    BY <2>1, <2>2, <1>h, <1>i DEF Harmless
<1>6. CASE Harmless
  BY <1>6 DEF Harmless, NoDanglingWait, Waiting, Answering
<1>7. CASE OffNeed
  <2>1. pc'[Power] = "offWait"
    BY <1>7, <1>g DEF OffNeed
  <2> QED
    BY <2>1 DEF NoDanglingWait
<1>8. CASE OffTimeout
  <2>1. ~flags'.needScreenOffNotify
    BY <1>8 DEF OffTimeout, Write
  <2> QED
    BY <2>1 DEF NoDanglingWait
<1>9. CASE OffSpurious
  <2>1. cycle'.spurious
    BY <1>9 DEF OffSpurious
  <2> QED
    BY <2>1 DEF NoDanglingWait
<1>10. ASSUME NEW c \in Callers, CancelSet(c) \/ LockNotify(c) PROVE NoDanglingWait'
  <2>1. pc'[c] \in {"cancelFin", "lockFin"}
    BY <1>10, <1>c DEF CancelSet, LockNotify
  <2> QED
    BY <2>1 DEF NoDanglingWait
<1>11. ASSUME NEW c \in Callers, CancelFin(c) \/ LockFin(c) PROVE NoDanglingWait'
  <2>1. ~flags'.needScreenOffNotify
    BY <1>11 DEF CancelFin, LockFin
  <2> QED
    BY <2>1 DEF NoDanglingWait
<1> QED
  BY <1>1, <1>2, <1>4, <1>5, <1>6, <1>7, <1>8, <1>9, <1>10, <1>11 DEF Next

\* needScreenOffNotify_ is up only while the screen-off waits or somebody is
\* about to take it down, however timers, answers, cancels and skips race, until
\* a wait ends for no reason at all.
THEOREM DanglingCorrect == Spec => []NoDanglingWait
<1>1. Init => NoDanglingWait
  BY DEF Init, NoDanglingWait, FlagNames
<1>2. TypeOK /\ NoDanglingWait /\ [Next]_vars => NoDanglingWait'
  <2> SUFFICES ASSUME TypeOK, NoDanglingWait, [Next]_vars PROVE NoDanglingWait'
    OBVIOUS
  <2>1. CASE UNCHANGED vars
    BY <2>1 DEF vars, NoDanglingWait
  <2> QED
    BY <2>1, DanglingStep
<1> QED
  BY <1>1, <1>2, TypeCorrect, PTL DEF Spec

-----------------------------------------------------------------------------
(* A cancel that came before the suspend was announced stops it.           *)

\* The test of needCancelNotify_ is behind the power thread, in a screen-off.
Past == pc[Power] \in OffPcs \ {"offLock"} /\ req.state \in {"OFF", "DOZE"}

\* A cancel can be granted early only while no screen-off is past the test nor
\* done, and a cancel that was granted waits there.
EarlyInv ==
  /\ ~flags.isMultiScreenCollaboration
  /\ flags.canCancelSuspendNotify => ~cycle.done /\ ~Past
  /\ cycle.early => flags.needCancelNotify /\ ~cycle.done /\ ~Past
  /\ At(Power, "suspendFlags") => ~cycle.done /\ req.reason # "COLLABORATION"
  /\ pc[Power] \in OnPcs => req.state = "ON"

FlagsEven ==
  /\ flags'.isMultiScreenCollaboration => flags.isMultiScreenCollaboration
  /\ flags'.canCancelSuspendNotify => flags.canCancelSuspendNotify
  /\ flags.needCancelNotify => flags'.needCancelNotify
CycleEven == (cycle'.early => cycle.early) /\ (cycle'.done => cycle.done)
PlaceEven ==
  /\ pc'[Power] \in OffPcs \ {"offLock"} => pc[Power] \in (OffPcs \ {"offLock"}) \cup OnPcs
  /\ pc'[Power] = "suspendFlags" => pc[Power] = "suspendFlags"
  /\ pc'[Power] \in OnPcs => pc[Power] \in OnPcs
  /\ pc'[Power] \in OffPcs \cup OnPcs \cup {"suspendFlags"} =>
       req'.state = req.state /\ req'.reason = req.reason
Even == FlagsEven /\ CycleEven /\ PlaceEven

\* The strengthening is inductive while nobody collaborates.
LEMMA EarlyStep ==
  ASSUME TypeOK, EarlyInv, Next, "COLLABORATION" \notin Reasons
  PROVE  EarlyInv'
<1> USE DEF TypeOK, FlagsOK, HistoryOK, SetFlag, With
<1>a. \A l : Goto(Power, l) => pc'[Power] = l
  BY DEF Goto, ThreadsOK, Threads
<1>b. \A c \in Callers : \A l : Goto(c, l) => pc'[Power] = pc[Power]
  BY ThreadsAssumption DEF Goto, ThreadsOK, Threads
<1>c. \A c \in Callers : \A l, w : NotifyAll(c, l, w) => pc'[Power] \in {pc[Power], Woken(pc[Power])}
  BY ThreadsAssumption DEF NotifyAll, ThreadsOK, Threads
<1>f. /\ {"needCancelNotify", "canCancelSuspendNotify", "isMultiScreenCollaboration"} \subseteq FlagNames
      /\ {"early", "done"} \subseteq CycleNames
  BY DEF FlagNames, CycleNames
<1>g. UNCHANGED req /\ pc'[Power] \in {pc[Power], Woken(pc[Power])} => PlaceEven
  BY DEF PlaceEven, Woken, OffPcs, OnPcs
<1> USE <1>f
<1>1. ASSUME PowerCall, \A r \in Reasons : ~SuspendBegin(r),
             \A s \in DisplayStates : ~SetDisplayState(s)
      PROVE  Even
  <2>1. FlagsEven /\ CycleEven
    BY <1>1 DEF PowerCall, WakeUpBegin, EndCollaboration, SetScreenPowerForAll, FlagsEven, CycleEven
  <2>2. /\ pc[Power] = "idle"
        /\ UNCHANGED pc \/ \E l \in {"dreamEnter", "powerStatus"} : Goto(Power, l)
    BY <1>1 DEF PowerCall, WakeUpBegin, EndCollaboration, SetScreenPowerForAll, At
  <2>3. pc'[Power] \in {"idle", "dreamEnter", "powerStatus"}
    BY <2>2, <1>a
  <2>4. PlaceEven
    BY <2>3 DEF PlaceEven, OffPcs, OnPcs
  <2> QED
    BY <2>1, <2>4 DEF Even
<1>2. PowerStep => \/ Even \/ SuspendFlags \/ ReturnTrue \/ OffNotified
                  \/ OffCanceledBeforeNotify
  <2> SUFFICES ASSUME PowerStep, ~SuspendFlags, ~ReturnTrue, ~OffNotified,
                      ~OffCanceledBeforeNotify
               PROVE  Even
    OBVIOUS
  <2>1. FlagsEven
    BY DEF PowerStep, SetScreenPower, SetScreenPowerFin, OffBlock, OffTest, OffNeed, OffWait,
     OffTimer, OffWake, OffTimeout, OffSkip, OffSuspend, OffCheck, OffCanceledAfterNotify,
     ReturnFalse, OnTest, OnNeed, OnWait, OnTimer, OnWake, DreamEnter, DreamTimer,
     DreamReturn, Move, Write, FlagsEven
  <2>2. CycleEven
    BY DEF PowerStep, SetScreenPower, SetScreenPowerFin, OffBlock, OffTest, OffNeed, OffWait,
     OffTimer, OffWake, OffTimeout, OffSkip, OffSuspend, OffCheck, OffCanceledAfterNotify,
     ReturnFalse, OnTest, OnNeed, OnWait, OnTimer, OnWake, DreamEnter, DreamTimer,
     DreamReturn, Move, Write, CycleEven
  <2>3. \/ UNCHANGED req
        \/ OffSuspend
        \/ \E l \in {"idle", "powerFin"} : Goto(Power, l)
    BY DEF PowerStep, powerVars, SetScreenPower, SetScreenPowerFin, OffBlock, OffTest, OffNeed,
     OffWait, OffTimer, OffWake, OffTimeout, OffSkip, OffCheck, OffCanceledAfterNotify,
     ReturnFalse, OnTest, OnNeed, OnWait, OnTimer, OnWake, DreamEnter, DreamTimer,
     DreamReturn, Move, Write
  <2>4. OffSuspend => req'.state = req.state /\ req'.reason = req.reason
    BY DEF OffSuspend, DataOK, Request
  <2>5. /\ pc'[Power] \in OffPcs \ {"offLock"} => pc[Power] \in (OffPcs \ {"offLock"}) \cup OnPcs
        /\ pc'[Power] # "suspendFlags"
        /\ pc'[Power] \in OnPcs => pc[Power] \in OnPcs
    BY <1>a DEF PowerStep, At, OffPcs, OnPcs, SetScreenPower, SetScreenPowerFin, OffBlock, OffTest,
     OffNeed, OffWait, OffTimer, OffWake, OffTimeout, OffSkip, OffSuspend, OffCheck,
     OffCanceledAfterNotify, ReturnFalse, OnTest, OnNeed, OnWait, OnTimer, OnWake, DreamEnter,
     DreamTimer, DreamReturn, Move, Write
  <2>6. PlaceEven
    BY <2>3, <2>4, <2>5, <1>a DEF PlaceEven, OffPcs, OnPcs
  <2> QED
    BY <2>1, <2>2, <2>6 DEF Even
<1>3. OffSpurious => Even
  <2> SUFFICES ASSUME OffSpurious PROVE Even
    OBVIOUS
  <2>1. FlagsEven /\ CycleEven
    BY DEF OffSpurious, FlagsEven, CycleEven
  <2>2. UNCHANGED req /\ pc[Power] = "offWaiting" /\ pc'[Power] = "offWoken"
    BY <1>a DEF OffSpurious, powerVars, At
  <2> QED
    BY <2>1, <2>2, <1>g DEF Even, Woken
<1>4. ASSUME NEW c \in Callers, CallerCall(c) PROVE Even \/ CancelBeforeNotify(c)
  <2> SUFFICES ASSUME ~CancelBeforeNotify(c) PROVE Even
    OBVIOUS
  <2>1. FlagsEven /\ CycleEven
    BY <1>4 DEF CallerCall, CancelBegin, SkipBegin, EnterNotified, SkipBeforeNotify,
     LockAnswer, PictureFrame, KeyguardDrawn, KeyguardReset, PhyScreen, Move, Write,
     FlagsEven, CycleEven
  <2>2. UNCHANGED req /\ pc'[Power] \in {pc[Power], Woken(pc[Power])}
    BY <1>4, <1>b, <1>c DEF CallerCall, CancelBegin, SkipBegin, EnterNotified, SkipBeforeNotify,
     LockAnswer, PictureFrame, KeyguardDrawn, KeyguardReset, PhyScreen, Move, Write, powerVars
  <2> QED
    BY <2>1, <2>2, <1>g DEF Even
<1>5. ASSUME NEW c \in Callers, CallerStep(c) PROVE Even
  <2>1. FlagsEven /\ CycleEven
    BY <1>5 DEF CallerStep, CancelReadGot, CancelReadNeed, ReadOrGiveUp, CancelSet, CancelFin, Grant,
     LockGot, LockNeed, LockNotify, LockFin, KeyNeed, KeyNotify, KeyFin, Move, Write,
     FlagsEven, CycleEven
  <2>2. UNCHANGED req /\ pc'[Power] \in {pc[Power], Woken(pc[Power])}
    BY <1>5, <1>b, <1>c DEF CallerStep, CancelReadGot, CancelReadNeed, ReadOrGiveUp, CancelSet,
     CancelFin, LockGot, LockNeed, LockNotify, LockFin, KeyNeed, KeyNotify, KeyFin, Move, Write,
     powerVars
  <2> QED
    BY <2>1, <2>2, <1>g DEF Even
<1>6. CASE Even
  <2>1. Past' => Past
    BY <1>6 DEF Even, PlaceEven, Past, EarlyInv, OffPcs, OnPcs
  <2> QED
    BY <1>6, <2>1 DEF Even, FlagsEven, CycleEven, PlaceEven, EarlyInv, At, OnPcs, OffPcs
<1>7. ASSUME NEW r \in Reasons, SuspendBegin(r) PROVE EarlyInv'
  <2>1. /\ flags'.isMultiScreenCollaboration = flags.isMultiScreenCollaboration
        /\ flags'.canCancelSuspendNotify = flags.canCancelSuspendNotify
        /\ flags'.needCancelNotify = flags.needCancelNotify
        /\ cycle'.early = cycle.early
    BY <1>7 DEF SuspendBegin
  <2>2. \/ pc'[Power] = "dreamEnter" /\ cycle' = cycle
        \/ pc'[Power] = "suspendFlags" /\ ~cycle'.done /\ req'.reason = r
    BY <1>7, <1>a DEF SuspendBegin, DataOK, Request
  <2>3. ~Past'
    BY <2>2 DEF Past, OffPcs
  <2> QED
    BY <2>1, <2>2, <2>3 DEF EarlyInv, At, OnPcs
<1>8. ASSUME NEW s \in DisplayStates, SetDisplayState(s) PROVE EarlyInv'
  <2>1. UNCHANGED <<flags, cycle>> /\ req'.state = s
    BY <1>8 DEF SetDisplayState, DataOK, Request
  <2>2. /\ pc'[Power] # "suspendFlags"
        /\ pc'[Power] \in OnPcs => s = "ON"
        /\ s \in {"OFF", "DOZE"} => pc'[Power] = "offLock"
    BY <1>8, <1>a DEF SetDisplayState, EarlyInv, OnPcs
  <2>3. ~Past'
    BY <2>1, <2>2 DEF Past
  <2> QED
    BY <2>1, <2>2, <2>3 DEF EarlyInv, At
<1>9. CASE SuspendFlags
  <2>1. /\ ~flags'.isMultiScreenCollaboration
        /\ flags'.needCancelNotify = flags.needCancelNotify
        /\ UNCHANGED cycle /\ ~cycle.done
    BY <1>9 DEF SuspendFlags, EarlyInv, At
  <2>2. pc'[Power] = "idle"
    BY <1>9, <1>a DEF SuspendFlags
  <2> QED
    BY <2>1, <2>2 DEF EarlyInv, At, Past, OffPcs, OnPcs
<1>10. CASE ReturnTrue
  <2>1. UNCHANGED flags /\ pc'[Power] = "idle" /\ cycle'.early = cycle.early
    BY <1>10, <1>a DEF ReturnTrue
  <2>2. cycle'.done => Past
    BY <1>10 DEF ReturnTrue, Past, At, OffPcs
  <2> QED
    BY <2>1, <2>2 DEF EarlyInv, At, Past, OffPcs, OnPcs
<1>11. CASE OffNotified
  <2>1. /\ ~flags.needCancelNotify
        /\ ~flags'.canCancelSuspendNotify
        /\ flags'.isMultiScreenCollaboration = flags.isMultiScreenCollaboration
        /\ cycle' = cycle /\ pc'[Power] = "offBlock"
    BY <1>11, <1>a DEF OffNotified, Write
  <2> QED
    BY <2>1 DEF EarlyInv, At, OnPcs
<1>12. CASE OffCanceledBeforeNotify
  <2>1. /\ ~flags'.canCancelSuspendNotify
        /\ flags'.isMultiScreenCollaboration = flags.isMultiScreenCollaboration
        /\ ~cycle'.early /\ pc'[Power] = "idle"
    BY <1>12, <1>a DEF OffCanceledBeforeNotify, ReturnFalse
  <2> QED
    BY <2>1 DEF EarlyInv, At, OnPcs
<1>13. ASSUME NEW c \in Callers, CancelBeforeNotify(c) PROVE EarlyInv'
  <2>1. /\ flags.canCancelSuspendNotify
        /\ flags'.needCancelNotify
        /\ flags'.canCancelSuspendNotify = flags.canCancelSuspendNotify
        /\ flags'.isMultiScreenCollaboration = flags.isMultiScreenCollaboration
        /\ cycle'.done = cycle.done /\ UNCHANGED <<pc, req>>
    BY <1>13 DEF CancelBeforeNotify, Grant, powerVars
  <2> QED
    BY <2>1 DEF EarlyInv, At, Past
<1> QED
  BY <1>1, <1>2, <1>3, <1>4, <1>5, <1>6, <1>7, <1>8, <1>9, <1>10, <1>11, <1>12, <1>13 DEF Next

\* Unless the power service suspends for a collaboration, whose screen-off does
\* not look at the cancels, a cancel that TryToCancelScreenOff grants before the
\* suspend was announced is never followed by a screen-off that succeeds.
THEOREM EarlyCorrect ==
  ASSUME "COLLABORATION" \notin Reasons
  PROVE  Spec => []EarlyCancelHonoured
<1>1. Init => EarlyInv
  <2> SUFFICES ASSUME Init PROVE EarlyInv
    OBVIOUS
  <2>1. ~flags.isMultiScreenCollaboration /\ ~flags.canCancelSuspendNotify
    <3>1. {"canCancelSuspendNotify", "isMultiScreenCollaboration"} \subseteq FlagNames
      BY DEF FlagNames
    <3> QED
      BY <3>1, Zenon DEF Init
  <2>2. pc[Power] = "idle" /\ ~cycle.early
    BY DEF Init, Threads, CycleNames
  <2> QED
    BY <2>1, <2>2 DEF EarlyInv, At, OnPcs
<1>2. TypeOK /\ EarlyInv /\ [Next]_vars => EarlyInv'
  <2> SUFFICES ASSUME TypeOK, EarlyInv, [Next]_vars PROVE EarlyInv'
    OBVIOUS
  <2>1. CASE UNCHANGED vars
    BY <2>1 DEF vars, EarlyInv, At, Past
  <2> QED
    BY <2>1, EarlyStep
<1>3. EarlyInv => EarlyCancelHonoured
  BY DEF EarlyInv, EarlyCancelHonoured
<1> QED
  BY <1>1, <1>2, <1>3, TypeCorrect, PTL DEF Spec
=============================================================================
