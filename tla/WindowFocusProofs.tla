-------------------------- MODULE WindowFocusProofs --------------------------
(***************************************************************************)
(* Proofs about WindowFocus for any sessions, kinds of windows, zOrders,    *)
(* displays and display groups, and any set of requests.                    *)
(*                                                                         *)
(* Every step either shifts the focus of one group (Shifts), leaves the     *)
(* focus and the highlight alone (Still), or connects or disconnects a      *)
(* display.  The type invariant and the highlight invariant are shown for   *)
(* each of the three.                                                       *)
(***************************************************************************)
EXTENDS WindowFocus, TLAPS

(* The ways to shift the focus.                                            *)

\* Groups as a caller hands them to ShiftFocus: it may have changed what they
\* hold back and remember, not what they are.
SameGroups(gs) ==
  /\ gs \in [Groups -> FocusGroups]
  /\ \A h \in Groups : /\ gs[h].focused = groups[h].focused
                       /\ gs[h].exists = groups[h].exists
                       /\ gs[h].displays = groups[h].displays
Shifts ==
  \E gs \in [Groups -> FocusGroups], g \in Groups, next \in Ids, pro \in BOOLEAN, bu \in BOOLEAN :
    SameGroups(gs) /\ ShiftFocus(gs, g, next, pro, bu)
Still ==
  /\ SameGroups(groups')
  /\ UNCHANGED <<isFocused, highlighted, highlightIds>>
  /\ told' \subseteq Sessions /\ lit' \subseteq Sessions

LEMMA GroupsTyped == DefaultGroup \in Groups
  BY DisplaysAssumption DEF DefaultGroup, Groups

LEMMA SameGroupsSelf ==
  ASSUME FocusOK
  PROVE  SameGroups(groups)
  BY DEF FocusOK, SameGroups

\* Taking back the flag of a group, setting it, or forgetting the last app.
LEMMA SameGroupsBut ==
  ASSUME FocusOK, NEW gs, SameGroups(gs), NEW g \in Groups, NEW b \in BOOLEAN
  PROVE  /\ SameGroups([gs EXCEPT ![g].blockFocus = b])
         /\ SameGroups([gs EXCEPT ![g].lastApp = NoSession])
<1>1. gs \in [Groups -> FocusGroups] /\ gs[g] \in FocusGroups
  BY DEF SameGroups
<1>2. [gs[g] EXCEPT !.blockFocus = b] \in FocusGroups
  BY <1>1 DEF FocusGroups
<1>3. [gs[g] EXCEPT !.lastApp = NoSession] \in FocusGroups
  BY <1>1 DEF FocusGroups, Ids
<1>4. SameGroups([gs EXCEPT ![g].blockFocus = b])
  BY <1>1, <1>2 DEF SameGroups, FocusGroups
<1>5. SameGroups([gs EXCEPT ![g].lastApp = NoSession])
  BY <1>1, <1>3 DEF SameGroups, FocusGroups
<1> QED BY <1>4, <1>5

\* One shift with its arguments named.
LEMMA ShiftsBy ==
  ASSUME NEW gs, SameGroups(gs), NEW g \in Groups, NEW next \in Ids,
         NEW pro \in BOOLEAN, NEW bu \in BOOLEAN, ShiftFocus(gs, g, next, pro, bu)
  PROVE  Shifts
  BY DEF Shifts, SameGroups

LEMMA FocusSessionShifts ==
  ASSUME FocusOK, NEW gs, SameGroups(gs), NEW s \in Sessions, Group(s) \in Groups,
         FocusSession(gs, s)
  PROVE  Shifts
<1>1. SameGroups(Unblocked(gs, Group(s)))
  BY SameGroupsBut DEF Unblocked
<1>2. gs[Group(s)].blockFocus \in BOOLEAN /\ s \in Ids
  BY DEF SameGroups, FocusGroups, Ids
<1>3. Unblocked(gs, Group(s)) \in [Groups -> FocusGroups]
  BY <1>1 DEF SameGroups
<1> QED
  BY <1>1, <1>2, <1>3 DEF Shifts, FocusSession

\* A group that a session is found in.
LEMMA HasGroupTyped ==
  ASSUME WindowsOK, FocusOK, NEW s \in Sessions, HasGroup(s)
  PROVE  Group(s) \in Groups
  BY DEF HasGroup, Group, WindowsOK, FocusOK

LEMMA FocusGrantedTyped ==
  ASSUME WindowsOK, FocusOK, NEW s \in Ids, NEW fg, NEW click, FocusGranted(s, fg, click)
  PROVE  s \in Sessions /\ Group(s) \in Groups
<1>1. s \in Sessions /\ HasGroup(s)
  BY DEF FocusGranted, BasicCheck, Alive, Ids
<1> QED
  BY <1>1, HasGroupTyped

LEMMA FocusImmediatelyShifts ==
  ASSUME WindowsOK, FocusOK, NEW s \in Sessions, ImmediateGranted(s), FocusImmediately(s)
  PROVE  Shifts
<1> DEFINE g == Group(s)
           gs == [groups EXCEPT ![g].blockFocus = @ \/ (s \in Apps /\ ~VisibleForeground(s))]
<1>1. g \in Groups
  BY HasGroupTyped DEF ImmediateGranted, BasicCheck
<1>2. groups[g].blockFocus \in BOOLEAN
  BY <1>1 DEF FocusOK, FocusGroups
<1>3. SameGroups(gs)
  BY <1>1, <1>2, SameGroupsSelf, SameGroupsBut
<1>4. ShiftFocus(gs, g, s, FALSE, groups[g].blockFocus)
  BY DEF FocusImmediately
<1>5. s \in Ids
  BY DEF Ids
<1> HIDE DEF g, gs
<1> QED
  BY <1>1, <1>2, <1>3, <1>4, <1>5, ShiftsBy

\* What a traversal stops at.
LEMMA TopmostTyped ==
  ASSUME NEW S \in SUBSET Sessions, NEW tied
  PROVE  Topmost(S, tied) \subseteq Ids
  BY DEF Topmost, Ids

LEMMA NextFocusableTyped ==
  ASSUME NEW s \in Sessions
  PROVE  NextFocusable(s) \subseteq Ids
  BY TopmostTyped DEF NextFocusable, SameGroup

LEMMA UnfocusToShifts ==
  ASSUME WindowsOK, FocusOK, NEW s \in Sessions, UnfocusGranted(s),
         NEW next \in Ids, UnfocusTo(s, next)
  PROVE  Shifts
<1> DEFINE g == Group(s)
           last == groups[g].lastApp
           gs == Unblocked(groups, g)
           refused == IF AsksLastApp(s, next) THEN [gs EXCEPT ![g].lastApp = NoSession] ELSE gs
           b == next # NoSession /\ next \in Apps /\ ~Foreground(next)
<1>1. g \in Groups
  BY HasGroupTyped DEF UnfocusGranted
<1>2. last \in Ids /\ groups[g].blockFocus \in BOOLEAN
  BY <1>1 DEF FocusOK, FocusGroups
<1>3. SameGroups(gs)
  BY <1>1, SameGroupsSelf, SameGroupsBut DEF Unblocked
<1>4. SameGroups(refused)
  BY <1>1, <1>3, SameGroupsBut
<1>5. CASE AsksLastApp(s, next) /\ FocusGranted(last, FALSE, FALSE)
  <2>1. FocusSession(gs, last)
    BY <1>5 DEF UnfocusTo
  <2>2. last \in Sessions /\ Group(last) \in Groups
    BY <1>2, <1>5, FocusGrantedTyped
  <2> QED
    BY <1>3, <2>1, <2>2, FocusSessionShifts
<1>6. CASE ~(AsksLastApp(s, next) /\ FocusGranted(last, FALSE, FALSE))
  <2>1. SameGroups([refused EXCEPT ![g].blockFocus = b])
    BY <1>1, <1>4, SameGroupsBut
  <2>2. ShiftFocus([refused EXCEPT ![g].blockFocus = b], g, next, TRUE, groups[g].blockFocus)
    BY <1>6 DEF UnfocusTo
  <2> DEFINE blocked == [refused EXCEPT ![g].blockFocus = b]
  <2> HIDE DEF blocked
  <2> QED
    BY <1>1, <1>2, <2>1, <2>2, ShiftsBy DEF blocked
<1> QED
  BY <1>5, <1>6

LEMMA UnfocusSessionShifts ==
  ASSUME WindowsOK, FocusOK, NEW s \in Sessions, UnfocusGranted(s), UnfocusSession(s)
  PROVE  Shifts
<1>1. CASE BackToDesktop(s)
  <2>1. Group(s) \in Groups
    BY HasGroupTyped DEF UnfocusGranted
  <2>2. groups[Group(s)].last \in Ids
    BY <2>1 DEF FocusOK, FocusGroups
  <2>3. groups[Group(s)].last \in Sessions /\ Group(groups[Group(s)].last) \in Groups
    BY <1>1, <2>2, FocusGrantedTyped DEF BackToDesktop
  <2>4. FocusSession(groups, groups[Group(s)].last)
    BY <1>1 DEF UnfocusSession
  <2> QED
    BY <2>3, <2>4, SameGroupsSelf, FocusSessionShifts
<1>2. CASE ~BackToDesktop(s)
  BY <1>2, NextFocusableTyped, UnfocusToShifts DEF UnfocusSession
<1> QED
  BY <1>1, <1>2

-----------------------------------------------------------------------------
(* Every step is one of the three.                                         *)

Plug == \E d \in Displays : AddFocusGroup(d) \/ RemoveFocusGroup(d)

LEMMA UnchangedStill ==
  ASSUME FocusOK, UNCHANGED focusVars
  PROVE  Still
<1>1. SameGroups(groups)
  BY SameGroupsSelf
<1>2. groups' = groups
  BY DEF focusVars
<1>3. SameGroups(groups')
  BY <1>1, <1>2
<1> QED
  BY <1>3 DEF Still, focusVars, FocusOK

LEMMA FocusOrNotMoves ==
  ASSUME WindowsOK, FocusOK, NEW s \in Ids, NEW fg, NEW click, FocusOrNot(s, fg, click)
  PROVE  Shifts \/ Still
<1>1. CASE FocusGranted(s, fg, click)
  BY <1>1, FocusGrantedTyped, SameGroupsSelf, FocusSessionShifts DEF FocusOrNot
<1>2. CASE ~FocusGranted(s, fg, click)
  BY <1>2, UnchangedStill DEF FocusOrNot
<1> QED
  BY <1>1, <1>2

LEMMA UnfocusOrNotMoves ==
  ASSUME WindowsOK, FocusOK, NEW s \in Ids, UnfocusOrNot(s)
  PROVE  Shifts \/ Still
<1>1. UnfocusGranted(s) => s \in Sessions
  BY DEF UnfocusGranted, Alive, Ids
<1>2. CASE UnfocusGranted(s)
  BY <1>1, <1>2, UnfocusSessionShifts DEF UnfocusOrNot
<1>3. CASE ~UnfocusGranted(s)
  BY <1>3, UnchangedStill DEF UnfocusOrNot
<1> QED
  BY <1>2, <1>3

\* The request of one session in PostProcessFocus.
LEMMA PostMoves ==
  ASSUME WindowsOK, FocusOK, NEW s \in Sessions,
         DelayFocusChange(s) \/ PostProcessRequest(s)
  PROVE  Shifts \/ Still
<1>1. CASE UNCHANGED focusVars
  BY <1>1, UnchangedStill
<1>2. CASE PostGranted(s) /\ PostRequest(s)
  <2>1. CASE post[s] = "start"
    <3>1. ImmediateGranted(s) /\ FocusImmediately(s)
      BY <1>2, <2>1 DEF PostGranted, PostRequest
    <3> QED
      BY <3>1, FocusImmediatelyShifts
  <2>2. CASE post[s] = "unfocus"
    <3>1. UnfocusGranted(s) /\ UnfocusSession(s)
      BY <1>2, <2>2 DEF PostGranted, PostRequest
    <3> QED
      BY <3>1, UnfocusSessionShifts
  <2>3. CASE post[s] \in {"focus", "focusBehind"}
    <3>1. \E fg \in BOOLEAN : FocusGranted(s, fg, FALSE)
      BY <1>2, <2>3 DEF PostGranted
    <3>2. FocusSession(groups, s)
      BY <1>2, <2>3 DEF PostRequest
    <3>3. s \in Ids
      BY DEF Ids
    <3> QED
      BY <3>1, <3>2, <3>3, FocusGrantedTyped, SameGroupsSelf, FocusSessionShifts
  <2>4. post[s] \in {"start", "unfocus", "focus", "focusBehind"}
    BY <1>2 DEF PostGranted
  <2> QED
    BY <2>1, <2>2, <2>3, <2>4
<1> QED
  BY <1>1, <1>2 DEF DelayFocusChange, PostProcessRequest

\* ProcessFocusWhenForeground.
LEMMA ForegroundMoves ==
  ASSUME WindowsOK, FocusOK, NEW s \in Sessions,
         ForegroundFocused(s) \/ ForegroundUnfocused(s)
  PROVE  Shifts \/ Still
<1>1. CASE ForegroundFocused(s)
  <2>1. Group(s) \in Groups
    BY <1>1, HasGroupTyped DEF ForegroundFocused
  <2>2. SameGroups(Unblocked(groups, Group(s)))
    BY <2>1, SameGroupsSelf, SameGroupsBut DEF Unblocked
  <2>3. groups' = groups \/ groups' = Unblocked(groups, Group(s))
    BY <1>1 DEF ForegroundFocused
  <2>4. SameGroups(groups')
    BY <2>2, <2>3, SameGroupsSelf
  <2> QED
    BY <1>1, <2>4 DEF ForegroundFocused, Still, FocusOK
<1>2. CASE ForegroundUnfocused(s)
  BY <1>2, FocusOrNotMoves, UnchangedStill DEF ForegroundUnfocused, Ids
<1> QED
  BY <1>1, <1>2

LEMMA AllAppUnfocusMoves ==
  ASSUME FocusOK, AllAppUnfocus
  PROVE  Shifts
<1>1. TopFocusableNonApp \subseteq Ids
  BY TopmostTyped DEF TopFocusableNonApp
<1>2. PICK next \in TopFocusableNonApp :
        ShiftFocus(Unblocked(groups, DefaultGroup), DefaultGroup, next, TRUE,
                   groups[DefaultGroup].blockFocus)
  BY DEF AllAppUnfocus
<1>3. groups[DefaultGroup].blockFocus \in BOOLEAN
  BY GroupsTyped DEF FocusOK, FocusGroups
<1>4. SameGroups(Unblocked(groups, DefaultGroup))
  BY GroupsTyped, SameGroupsSelf, SameGroupsBut DEF Unblocked
<1> QED
  BY <1>1, <1>2, <1>3, <1>4, GroupsTyped, ShiftsBy

LEMMA FlushStill ==
  ASSUME FocusOK, NEW d \in Displays, NEW shown \in SUBSET Sessions,
         NEW order \in Orders(shown), FlushUIParams(d, shown, order)
  PROVE  Still
<1>1. SameGroups([groups EXCEPT ![DefaultGroup].lastApp = NoSession])
  BY GroupsTyped, SameGroupsSelf, SameGroupsBut
<1>2. groups' = groups \/ groups' = [groups EXCEPT ![DefaultGroup].lastApp = NoSession]
  BY DEF FlushUIParams
<1>3. SameGroups(groups')
  BY <1>1, <1>2, SameGroupsSelf
<1> QED
  BY <1>3 DEF FlushUIParams, Still, FocusOK

LEMMA FocusStep ==
  ASSUME TypeOK, Next
  PROVE  Plug \/ ((Shifts \/ Still) /\ UNCHANGED groupOf)
<1> USE DEF TypeOK
<1>1. ASSUME NEW s \in Sessions, NEW fg \in BOOLEAN, NEW click \in BOOLEAN, AskFocus(s, fg, click)
      PROVE  Shifts /\ UNCHANGED groupOf
  <2>1. s \in Ids
    BY DEF Ids
  <2> QED
    BY <1>1, <2>1, FocusGrantedTyped, SameGroupsSelf, FocusSessionShifts DEF AskFocus
<1>2. ASSUME NEW s \in Sessions, AskUnfocus(s)
      PROVE  Shifts /\ UNCHANGED groupOf
  BY <1>2, UnfocusSessionShifts DEF AskUnfocus
<1>3. ASSUME NEW s \in Sessions, AskImmediatelyBySCB(s)
      PROVE  Shifts /\ UNCHANGED groupOf
  BY <1>3, FocusImmediatelyShifts DEF AskImmediatelyBySCB
<1>4. ASSUME NEW s \in Sessions, NEW fg \in BOOLEAN, AskBySCB(s, fg)
      PROVE  (Shifts \/ Still) /\ UNCHANGED groupOf
  <2>1. s \in Ids
    BY DEF Ids
  <2> QED
    BY <1>4, <2>1, FocusOrNotMoves DEF AskBySCB
<1>5. ASSUME NEW s \in Sessions, Activate(s)
      PROVE  (Shifts \/ Still) /\ UNCHANGED groupOf
  BY <1>5, FocusImmediatelyShifts, UnchangedStill DEF Activate
<1>6. ASSUME NEW s \in Sessions, Connect(s)
      PROVE  Still /\ UNCHANGED groupOf
  <2>1. SameGroups(groups')
    BY <1>6, SameGroupsSelf DEF Connect
  <2> QED
    BY <1>6, <2>1 DEF Connect, Still, FocusOK
<1>7. ASSUME NEW s \in Sessions, Destroy(s)
      PROVE  (Shifts \/ Still) /\ UNCHANGED groupOf
  BY <1>7, UnfocusOrNotMoves DEF Destroy, Ids
<1>8. ASSUME NEW s \in Sessions, PostProcessFocus(s)
      PROVE  (Shifts \/ Still) /\ UNCHANGED groupOf
  BY <1>8, PostMoves DEF PostProcessFocus, DelayFocusChange, PostProcessRequest, Processed
<1>9. CASE OnForeground
  <2>1. subject \in Sessions
    BY <1>9 DEF OnForeground, TasksOK, Ids, Alive
  <2> QED
    BY <1>9, <2>1, ForegroundMoves, UnchangedStill DEF OnForeground
<1>10. CASE OnBackground \/ Disconnect("disconnect") \/ Disconnect("gone")
  <2>1. UnfocusOrNot(subject) /\ UNCHANGED groupOf
    BY <1>10 DEF OnBackground, Disconnect
  <2> QED
    BY <2>1, UnfocusOrNotMoves DEF TasksOK
<1>11. CASE AllAppUnfocus
  BY <1>11, AllAppUnfocusMoves DEF AllAppUnfocus
<1>12. ASSUME NEW d \in Displays, NEW shown \in SUBSET Sessions,
              NEW order \in Orders(shown), FlushUIParams(d, shown, order)
       PROVE  Still /\ UNCHANGED groupOf
  BY <1>12, FlushStill DEF FlushUIParams
<1>13. ASSUME NEW s \in Sessions,
              \/ MoveUpBySCB(s) \/ ToForeground(s) \/ ToBackground(s)
              \/ \E d \in Displays : MoveToDisplay(s, d)
       PROVE  Still /\ UNCHANGED groupOf
  <2>1. UNCHANGED focusVars /\ UNCHANGED groupOf
    BY <1>13 DEF MoveUpBySCB, ToForeground, ToBackground, MoveToDisplay
  <2> QED
    BY <2>1, UnchangedStill
<1> QED
  BY <1>1, <1>2, <1>3, <1>4, <1>5, <1>6, <1>7, <1>8, <1>9, <1>10, <1>11, <1>12, <1>13
     DEF Next, Plug

-----------------------------------------------------------------------------
(* The type invariant, part by part.                                       *)

LEMMA NewGroupTyped ==
  ASSUME NEW ds \in SUBSET Displays
  PROVE  NewGroup(ds) \in FocusGroups
  BY DEF NewGroup, FocusGroups, Ids

LEMMA ShiftTyped ==
  ASSUME FocusOK, Shifts
  PROVE  /\ groups' \in [Groups -> FocusGroups]
         /\ isFocused' \subseteq Sessions /\ told' \subseteq Sessions /\ lit' \subseteq Sessions
         /\ highlighted' \subseteq Sessions /\ highlightIds' \subseteq Sessions
<1>1. PICK gs \in [Groups -> FocusGroups], g \in Groups, next \in Ids,
           pro \in BOOLEAN, bu \in BOOLEAN : ShiftFocus(gs, g, next, pro, bu)
  BY DEF Shifts
<1> DEFINE prev == gs[g].focused
<1>2. prev \in Ids /\ gs[g] \in FocusGroups /\ gs[g].lastApp \in Ids /\ gs[g].last \in Ids
  BY DEF FocusGroups
<1>3. groups' \in [Groups -> FocusGroups]
  <2> DEFINE last == IF next = prev THEN gs[g].last ELSE prev
             lastApp == IF next = NoSession THEN NoSession
                        ELSE IF next \in Apps \/ Kind[next] = "desktop" THEN next
                        ELSE gs[g].lastApp
             new == [gs[g] EXCEPT !.focused = next, !.last = last, !.lastApp = lastApp]
  <2>1. groups' = [gs EXCEPT ![g] = new]
    BY <1>1 DEF ShiftFocus
  <2>2. last \in Ids /\ lastApp \in Ids
    BY <1>2 DEF Ids
  <2>3. new \in FocusGroups
    BY <1>2, <2>2 DEF FocusGroups
  <2> QED
    BY <2>1, <2>3
<1>4. LosesFocus(prev) \subseteq Sessions /\ GainsFocus(next) \subseteq Sessions
  BY <1>2 DEF LosesFocus, GainsFocus, Alive, Ids
<1>5. isFocused' \subseteq Sessions /\ told' \subseteq Sessions
  BY <1>1, <1>4 DEF ShiftFocus, FocusOK
<1>6. UpdateHighlightStatus(prev, next, pro, gs[g].blockFocus)
  BY <1>1 DEF ShiftFocus
<1>7. /\ highlighted' \subseteq Sessions /\ highlightIds' \subseteq Sessions
      /\ lit' \subseteq Sessions
  BY <1>6 DEF UpdateHighlightStatus, FocusOK, Ids
<1> QED
  BY <1>3, <1>5, <1>7

LEMMA PlugTyped ==
  ASSUME FocusOK, Plug
  PROVE  FocusOK'
<1>1. \A d \in Displays : DisplayGroup[d] \in Groups
  BY DEF Groups
<1>2. ASSUME NEW d \in Displays, AddFocusGroup(d) PROVE FocusOK'
  <2> DEFINE g == DisplayGroup[d]
             new == IF groups[g].exists
                    THEN [groups[g] EXCEPT !.displays = groups[g].displays \cup {d}] ELSE NewGroup({d})
  <2>1. groups' = [groups EXCEPT ![g] = new]
    BY <1>2 DEF AddFocusGroup
  <2>2. new \in FocusGroups
    <3>1. groups[g] \in FocusGroups /\ {d} \in SUBSET Displays
      BY <1>1 DEF FocusOK
    <3>2. NewGroup({d}) \in FocusGroups
      BY <3>1, NewGroupTyped
    <3>3. [groups[g] EXCEPT !.displays = groups[g].displays \cup {d}] \in FocusGroups
      BY <3>1 DEF FocusGroups
    <3> QED
      BY <3>2, <3>3
  <2>3. groupOf' = [groupOf EXCEPT ![d] = g]
    BY <1>2 DEF AddFocusGroup
  <2> QED
    BY <1>1, <1>2, <2>1, <2>2, <2>3 DEF FocusOK, AddFocusGroup
<1>3. ASSUME NEW d \in Displays, RemoveFocusGroup(d) PROVE FocusOK'
  BY <1>1, <1>3, NewGroupTyped DEF FocusOK, RemoveFocusGroup, DeletedGroup
<1> QED
  BY <1>2, <1>3 DEF Plug

LEMMA FocusTyped ==
  ASSUME TypeOK, Next
  PROVE  FocusOK'
<1>1. FocusOK
  BY DEF TypeOK
<1>2. CASE Plug
  BY <1>1, <1>2, PlugTyped
<1>3. CASE Shifts /\ UNCHANGED groupOf
  BY <1>1, <1>3, ShiftTyped DEF FocusOK
<1>4. CASE Still /\ UNCHANGED groupOf
  BY <1>1, <1>4 DEF Still, SameGroups, FocusOK
<1> QED
  BY <1>2, <1>3, <1>4, FocusStep

\* A session's request stays typed when one is set.
LEMMA SetPostTyped ==
  ASSUME WindowsOK, NEW s, NEW p \in Posts, SetPost(s, p)
  PROVE  post' \in [Sessions -> Posts]
  BY DEF SetPost, WindowsOK

LEMMA FlushTyped ==
  ASSUME WindowsOK, NEW d \in Displays, NEW shown \in SUBSET Sessions,
         NEW order \in Orders(shown), FlushUIParams(d, shown, order)
  PROVE  WindowsOK' /\ todo' \subseteq Sessions
<1>1. \A s \in shown : order[s] \in Nat
  BY SessionsAssumption DEF Orders
<1>2. z' \in [Sessions -> Nat]
  BY <1>1 DEF FlushUIParams, WindowsOK
<1>3. \A s \in Sessions : FlushedPost(s, shown) \in Posts /\ post[s] \in Posts
  BY DEF FlushedPost, WindowsOK, Posts
<1>4. post' \in [Sessions -> Posts]
  BY <1>3 DEF FlushUIParams
<1>5. visible' \subseteq Sessions /\ todo' \subseteq Sessions
  BY DEF FlushUIParams, WindowsOK
<1> QED
  BY <1>2, <1>4, <1>5 DEF FlushUIParams, WindowsOK

LEMMA WindowsTyped ==
  ASSUME TypeOK, Next
  PROVE  WindowsOK'
<1> USE DEF TypeOK, windowVars
<1>1. CASE UNCHANGED <<windowVars, post>>
  BY <1>1 DEF WindowsOK
<1>2. ASSUME NEW s \in Sessions, UNCHANGED windowVars,
             UNCHANGED post \/ \E p \in Posts : SetPost(s, p)
      PROVE  WindowsOK'
  <2>1. post' \in [Sessions -> Posts]
    BY <1>2, SetPostTyped DEF WindowsOK
  <2> QED
    BY <1>2, <2>1 DEF WindowsOK
<1>3. ASSUME NEW s \in Sessions, Activate(s) PROVE WindowsOK'
  <2>1. post' \in [Sessions -> Posts]
    BY <1>3, SetPostTyped DEF Activate, WindowsOK, Posts
  <2> QED
    BY <1>3, <2>1 DEF Activate, WindowsOK
<1>4. ASSUME NEW s \in Sessions, Connect(s) \/ ToForeground(s) \/ ToBackground(s)
      PROVE  WindowsOK'
  BY <1>4 DEF Connect, ToForeground, ToBackground, WindowsOK, States
<1>5. ASSUME NEW st \in {"disconnect", "gone"}, Disconnect(st) PROVE WindowsOK'
  BY <1>5 DEF Disconnect, WindowsOK, States
<1>6. ASSUME NEW s \in Sessions, NEW d \in Displays, MoveToDisplay(s, d) PROVE WindowsOK'
  BY <1>6 DEF MoveToDisplay, WindowsOK
<1>7. ASSUME NEW d \in Displays, NEW shown \in SUBSET Sessions,
             NEW order \in Orders(shown), FlushUIParams(d, shown, order)
      PROVE  WindowsOK'
  BY <1>7, FlushTyped
<1>8. ASSUME NEW s \in Sessions,
             \/ MoveUpBySCB(s)
             \/ \E fg \in BOOLEAN : AskBySCB(s, fg)
             \/ PostProcessFocus(s)
      PROVE  UNCHANGED windowVars /\ (UNCHANGED post \/ \E p \in Posts : SetPost(s, p))
  <2>1. {"none", "focus", "focusBehind"} \subseteq Posts
    BY DEF Posts
  <2>2. CASE MoveUpBySCB(s)
    BY <2>1, <2>2 DEF MoveUpBySCB
  <2>3. ASSUME NEW fg \in BOOLEAN, AskBySCB(s, fg)
        PROVE  UNCHANGED windowVars /\ (UNCHANGED post \/ \E p \in Posts : SetPost(s, p))
    BY <2>1, <2>3 DEF AskBySCB
  <2>4. CASE PostProcessFocus(s)
    BY <2>1, <2>4 DEF PostProcessFocus, DelayFocusChange, PostProcessRequest, Processed
  <2> QED
    BY <1>8, <2>2, <2>3, <2>4
<1>9. CASE OnForeground
  <2>1. UNCHANGED windowVars
    BY <1>9 DEF OnForeground
  <2>2. subject \in Sessions
    BY <1>9 DEF OnForeground, TasksOK, Ids, Alive
  <2>3. UNCHANGED post \/ \E p \in Posts : SetPost(subject, p)
    BY <1>9 DEF OnForeground, ForegroundFocused, ForegroundUnfocused, Posts
  <2> QED
    BY <1>2, <2>1, <2>2, <2>3
<1>10. ASSUME \/ \E s \in Sessions :
                   \/ \E fg, click \in BOOLEAN : AskFocus(s, fg, click)
                   \/ AskUnfocus(s) \/ AskImmediatelyBySCB(s) \/ Destroy(s)
              \/ AllAppUnfocus \/ OnBackground
              \/ \E d \in Displays : AddFocusGroup(d) \/ RemoveFocusGroup(d)
       PROVE  UNCHANGED <<windowVars, post>>
  BY <1>10 DEF AskFocus, AskUnfocus, AskImmediatelyBySCB, Destroy, AllAppUnfocus,
     OnBackground, AddFocusGroup, RemoveFocusGroup
<1> QED
  BY <1>1, <1>2, <1>3, <1>4, <1>5, <1>6, <1>7, <1>8, <1>9, <1>10 DEF Next

LEMMA TasksTyped ==
  ASSUME TypeOK, Next
  PROVE  TasksOK'
<1> USE DEF TypeOK, taskVars, Tasks
<1>1. CASE UNCHANGED taskVars /\ Idle
  BY <1>1 DEF TasksOK, Idle
<1>2. ASSUME NEW s \in Sessions, NEW t \in {"foreground", "background", "disconnect"}, Proceed(t, s),
             Alive(s)'
      PROVE  TasksOK'
  BY <1>2 DEF Proceed, TasksOK, Ids, Alive
<1>3. CASE Proceed("none", NoSession)
  BY <1>3 DEF Proceed, TasksOK, Ids
<1>4. ASSUME NEW d \in Displays, NEW shown \in SUBSET Sessions,
             NEW order \in Orders(shown), FlushUIParams(d, shown, order)
      PROVE  TasksOK'
  <2>1. todo' \subseteq Sessions
    BY <1>4, FlushTyped
  <2>2. /\ task' \in {"none", "post"} /\ UNCHANGED subject
        /\ shifted' = {} /\ moved' = {}
    BY <1>4 DEF FlushUIParams
  <2> QED
    BY <2>1, <2>2 DEF TasksOK
<1>5. ASSUME NEW s \in Sessions, NEW new \in SUBSET Groups, Processed(s, new)
      PROVE  TasksOK'
  <2>1. todo' \subseteq Sessions /\ task' \in {"none", "post"} /\ UNCHANGED subject
    BY <1>5 DEF Processed, TasksOK
  <2>2. shifted' \subseteq Groups /\ moved' \subseteq Groups
    BY <1>5 DEF Processed, TasksOK
  <2> QED
    BY <2>1, <2>2 DEF TasksOK
<1>6. ASSUME NEW s \in Sessions, PostProcessFocus(s)
      PROVE  \E new \in SUBSET Groups : Processed(s, new)
  <2>1. CASE DelayFocusChange(s)
    BY <2>1 DEF DelayFocusChange, TasksOK
  <2>2. CASE PostProcessRequest(s)
    <3>1. CASE Group(s) \notin shifted /\ PostGranted(s)
      <4>1. Group(s) \in Groups
        <5>1. HasGroup(s)
          BY <3>1 DEF PostGranted, ImmediateGranted, FocusGranted, UnfocusGranted, BasicCheck
        <5> QED
          BY <5>1, HasGroupTyped
      <4> QED
        BY <2>2, <3>1, <4>1 DEF PostProcessRequest, TasksOK
    <3>2. CASE ~(Group(s) \notin shifted /\ PostGranted(s))
      BY <2>2, <3>2 DEF PostProcessRequest, TasksOK
    <3> QED
      BY <3>1, <3>2
  <2> QED
    BY <1>6, <2>1, <2>2 DEF PostProcessFocus
<1>7. ASSUME NEW s \in Sessions,
             \/ \E fg, click \in BOOLEAN : AskFocus(s, fg, click)
             \/ AskUnfocus(s) \/ AskImmediatelyBySCB(s) \/ MoveUpBySCB(s)
             \/ \E fg \in BOOLEAN : AskBySCB(s, fg)
             \/ Activate(s) \/ Connect(s)
             \/ \E d \in Displays : MoveToDisplay(s, d)
      PROVE  UNCHANGED taskVars /\ Idle
  BY <1>7 DEF AskFocus, AskUnfocus, AskImmediatelyBySCB, MoveUpBySCB, AskBySCB, Activate,
     Connect, MoveToDisplay
<1>8. ASSUME AllAppUnfocus \/ \E d \in Displays : AddFocusGroup(d) \/ RemoveFocusGroup(d)
      PROVE  UNCHANGED taskVars /\ Idle
  BY <1>8 DEF AllAppUnfocus, AddFocusGroup, RemoveFocusGroup
<1>9. ASSUME NEW s \in Sessions, ToForeground(s) \/ ToBackground(s) \/ Destroy(s)
      PROVE  Alive(s)' /\ \E t \in {"foreground", "background", "disconnect"} : Proceed(t, s)
  <2>1. s # NoSession /\ state \in [Sessions -> States]
    BY SessionsAssumption DEF WindowsOK
  <2> QED
    BY <1>9, <2>1 DEF ToForeground, ToBackground, Destroy, Alive, windowVars
<1>10. ASSUME OnForeground \/ OnBackground \/ Disconnect("disconnect") \/ Disconnect("gone")
       PROVE  Proceed("none", NoSession)
  BY <1>10 DEF OnForeground, OnBackground, Disconnect
<1> QED
  BY <1>1, <1>2, <1>3, <1>4, <1>5, <1>6, <1>7, <1>8, <1>9, <1>10 DEF Next

LEMMA InitTyped ==
  ASSUME Init
  PROVE  TypeOK
<1>1. WindowsOK
  BY DEF Init, WindowsOK, States, Posts
<1>2. FocusOK
  <2>1. DisplayGroup \in [Displays -> Groups]
    BY DisplaysAssumption DEF Groups
  <2>2. \A g \in Groups : NewGroup({d \in Displays : DisplayGroup[d] = g}) \in FocusGroups
    BY NewGroupTyped
  <2> QED
    BY <2>1, <2>2 DEF Init, FocusOK
<1>3. TasksOK
  BY DEF Init, TasksOK, Tasks, Ids
<1> QED
  BY <1>1, <1>2, <1>3 DEF TypeOK

LEMMA StepTyped ==
  ASSUME TypeOK, [Next]_vars
  PROVE  TypeOK'
<1>1. CASE Next
  BY <1>1, WindowsTyped, FocusTyped, TasksTyped DEF TypeOK
<1>2. CASE UNCHANGED vars
  BY <1>2 DEF vars, windowVars, focusVars, taskVars, TypeOK, WindowsOK, FocusOK, TasksOK, Alive
<1> QED
  BY <1>1, <1>2

\* The type invariant: sessions, groups, displays and requests stay what they
\* are, whatever is asked, flushed, erased, moved or unplugged; in particular a
\* focus is only ever passed to a session or to none.
THEOREM TypeCorrect == Spec => []TypeOK
  BY InitTyped, StepTyped, PTL DEF Spec

-----------------------------------------------------------------------------
(* The highlight.                                                          *)

\* With one group, its default display keeps it in focusGroupMap_, and the only
\* session that can say that it is focused is the focused session, which is
\* highlighted.  highlighted and highlightIds are equal with any groups.
OneGroupInv ==
  /\ groups[DefaultGroup].exists
  /\ DefaultDisplay \in groups[DefaultGroup].displays
  /\ \A s \in isFocused :
       Alive(s) => s = groups[DefaultGroup].focused /\ s \in highlighted
HighlightInv ==
  /\ highlighted = highlightIds
  /\ Groups = {DefaultGroup} => OneGroupInv

\* An erased session stays erased.
LEMMA GoneForGood ==
  ASSUME TypeOK, Next, NEW s \in Sessions, Alive(s)'
  PROVE  Alive(s)
<1> USE DEF TypeOK, WindowsOK, Alive
<1>1. CASE UNCHANGED state
  BY <1>1
<1>2. ASSUME NEW t \in Sessions, Connect(t) \/ ToForeground(t) \/ ToBackground(t)
      PROVE  Alive(s)
  BY <1>2 DEF Connect, ToForeground, ToBackground
<1>3. Next => \/ UNCHANGED state
              \/ \E t \in Sessions : Connect(t) \/ ToForeground(t) \/ ToBackground(t)
              \/ Disconnect("disconnect") \/ Disconnect("gone")
  BY DEF Next, windowVars, AskFocus, AskUnfocus, AskImmediatelyBySCB, MoveUpBySCB, AskBySCB,
     Activate, Destroy, PostProcessFocus, DelayFocusChange, PostProcessRequest, Processed,
     MoveToDisplay, AllAppUnfocus, OnForeground, OnBackground, AddFocusGroup,
     RemoveFocusGroup, FlushUIParams
<1>4. ASSUME NEW st, Disconnect(st) PROVE Alive(s)
  <2>1. Alive(subject)
    BY <1>4 DEF Disconnect, TasksOK
  <2>2. s # subject => state'[s] = state[s]
    BY <1>4 DEF Disconnect
  <2> QED
    BY <2>1, <2>2
<1> QED
  BY <1>1, <1>2, <1>3, <1>4

\* A shift of the focus: the session that loses it and is alive stops saying that
\* it is focused, and the one that gains it is highlighted.
LEMMA ShiftHighlights ==
  ASSUME TypeOK, HighlightInv, Shifts, \A s \in Sessions : Alive(s)' => Alive(s)
  PROVE  HighlightInv'
<1>1. PICK gs \in [Groups -> FocusGroups], g \in Groups, next \in Ids,
           pro \in BOOLEAN, bu \in BOOLEAN :
             SameGroups(gs) /\ ShiftFocus(gs, g, next, pro, bu)
  BY DEF Shifts
<1> DEFINE prev == gs[g].focused
<1>2. UpdateHighlightStatus(prev, next, pro, gs[g].blockFocus)
  BY <1>1 DEF ShiftFocus
<1>3. highlighted' = highlightIds'
  BY <1>2 DEF UpdateHighlightStatus, TurnedOff, HighlightInv
<1>4. next # NoSession => next \in highlighted'
  BY <1>2 DEF UpdateHighlightStatus
<1>5. ASSUME Groups = {DefaultGroup} PROVE OneGroupInv'
  <2>1. g = DefaultGroup /\ OneGroupInv
    BY <1>5 DEF HighlightInv
  <2>2. gs[g] \in FocusGroups /\ prev = groups[g].focused
    BY <1>1 DEF SameGroups
  <2>3. /\ groups'[g].focused = next
        /\ groups'[g].exists = gs[g].exists
        /\ groups'[g].displays = gs[g].displays
    BY <1>1, <2>2 DEF ShiftFocus, FocusGroups
  <2>4. groups'[g].exists /\ DefaultDisplay \in groups'[g].displays
    BY <1>1, <2>1, <2>3 DEF SameGroups, OneGroupInv
  <2>5. isFocused' = (isFocused \ LosesFocus(prev)) \cup GainsFocus(next)
    BY <1>1 DEF ShiftFocus
  <2>6. ASSUME NEW s \in isFocused', Alive(s)' PROVE s = next
    <3>1. s \in Sessions
      BY <2>6, <2>5 DEF TypeOK, FocusOK, GainsFocus, Ids
    <3>2. Alive(s)
      BY <2>6, <3>1
    <3>3. s \in isFocused => s = prev
      BY <2>1, <2>2, <3>2 DEF OneGroupInv
    <3>4. s = prev => s \in LosesFocus(prev)
      BY <3>2 DEF LosesFocus
    <3> QED
      BY <2>5, <2>6, <3>3, <3>4 DEF GainsFocus
  <2>7. ASSUME NEW s \in isFocused', Alive(s)' PROVE s # NoSession
    BY <2>7 DEF Alive
  <2> QED
    BY <1>4, <2>1, <2>3, <2>4, <2>6, <2>7 DEF OneGroupInv
<1> QED
  BY <1>3, <1>5 DEF HighlightInv

LEMMA StillHighlights ==
  ASSUME HighlightInv, Still, isFocused \subseteq Sessions,
         \A s \in Sessions : Alive(s)' => Alive(s)
  PROVE  HighlightInv'
<1>1. /\ groups'[DefaultGroup].focused = groups[DefaultGroup].focused
      /\ groups'[DefaultGroup].exists = groups[DefaultGroup].exists
      /\ groups'[DefaultGroup].displays = groups[DefaultGroup].displays
  BY GroupsTyped DEF Still, SameGroups
<1> QED
  BY <1>1 DEF Still, HighlightInv, OneGroupInv

\* The default display is never unplugged, so a group it belongs to is kept.
LEMMA PlugHighlights ==
  ASSUME TypeOK, HighlightInv, Plug
  PROVE  HighlightInv'
<1>1. UNCHANGED <<state, isFocused, highlighted, highlightIds>>
  BY DEF Plug, AddFocusGroup, RemoveFocusGroup, windowVars
<1>2. ASSUME Groups = {DefaultGroup}
      PROVE  /\ groups'[DefaultGroup].focused = groups[DefaultGroup].focused
             /\ groups'[DefaultGroup].exists
             /\ DefaultDisplay \in groups'[DefaultGroup].displays
  <2>1. PICK d \in Displays : AddFocusGroup(d) \/ RemoveFocusGroup(d)
    BY DEF Plug
  <2>2. DisplayGroup[d] = DefaultGroup
    BY <1>2 DEF Groups
  <2>3. OneGroupInv /\ groups \in [Groups -> FocusGroups]
    BY <1>2 DEF HighlightInv, TypeOK, FocusOK
  <2>4. groups[DefaultGroup] \in FocusGroups
    BY <2>3, GroupsTyped
  <2>5. CASE AddFocusGroup(d)
    <3>1. groups' = [groups EXCEPT ![DefaultGroup] =
                       [groups[DefaultGroup] EXCEPT !.displays = groups[DefaultGroup].displays \cup {d}]]
      BY <2>2, <2>3, <2>5 DEF AddFocusGroup, OneGroupInv
    <3> QED
      BY <2>3, <2>4, <3>1, GroupsTyped DEF OneGroupInv, FocusGroups
  <2>6. CASE RemoveFocusGroup(d)
    <3>1. ~(groups[DefaultGroup].displays \subseteq {d})
      BY <2>3, <2>6 DEF RemoveFocusGroup, OneGroupInv
    <3>2. groups' = groups
      BY <2>2, <2>6, <3>1 DEF RemoveFocusGroup
    <3> QED
      BY <2>3, <3>2 DEF OneGroupInv
  <2> QED
    BY <2>1, <2>5, <2>6
<1> QED
  BY <1>1, <1>2 DEF HighlightInv, OneGroupInv, Alive

\* isHighlighted_ of the sessions and highlightIds_ agree, and with one display
\* group the focused session is highlighted: for any windows, requests and order
\* of tasks.
THEOREM HighlightCorrect == Spec => []HighlightMatches
<1>1. Init => HighlightInv
  <2> SUFFICES ASSUME Init PROVE HighlightInv
    OBVIOUS
  <2>1. DefaultDisplay \in {d \in Displays : DisplayGroup[d] = DefaultGroup}
    BY DisplaysAssumption DEF DefaultGroup
  <2>2. groups[DefaultGroup] = NewGroup({d \in Displays : DisplayGroup[d] = DefaultGroup})
    <3>1. groups = [g \in Groups |-> NewGroup({d \in Displays : DisplayGroup[d] = g})]
      BY DEF Init
    <3> QED
      BY <3>1, GroupsTyped
  <2>3. groups[DefaultGroup].exists /\ DefaultDisplay \in groups[DefaultGroup].displays
    <3> DEFINE ds == {d \in Displays : DisplayGroup[d] = DefaultGroup}
    <3>1. ds # {}
      BY <2>1
    <3> HIDE DEF ds
    <3>2. NewGroup(ds).exists /\ NewGroup(ds).displays = ds
      BY <3>1 DEF NewGroup
    <3> QED
      BY <2>1, <2>2, <3>2 DEF ds
  <2> QED
    BY <2>3 DEF Init, HighlightInv, OneGroupInv
<1>2. TypeOK /\ HighlightInv /\ [Next]_vars => HighlightInv'
  <2> SUFFICES ASSUME TypeOK, HighlightInv, [Next]_vars PROVE HighlightInv'
    OBVIOUS
  <2>1. CASE Next
    <3>1. \A s \in Sessions : Alive(s)' => Alive(s)
      BY <2>1, GoneForGood
    <3> QED
      BY <2>1, <3>1, FocusStep, ShiftHighlights, StillHighlights, PlugHighlights
         DEF TypeOK, FocusOK
  <2>2. CASE UNCHANGED vars
    BY <2>2 DEF vars, windowVars, focusVars, HighlightInv, OneGroupInv, Alive
  <2> QED
    BY <2>1, <2>2
<1>3. HighlightInv => HighlightMatches
  BY DEF HighlightInv, OneGroupInv, HighlightMatches
<1> QED
  BY <1>1, <1>2, <1>3, TypeCorrect, PTL DEF Spec
=============================================================================
