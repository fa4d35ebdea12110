------------------------ MODULE WindowFocusShiftProofs ------------------------
(***************************************************************************)
(* Proofs about where the focus goes and who is told of it, for any        *)
(* sessions, kinds of windows, zOrders, displays, groups and requests.     *)
(*                                                                         *)
(* Shifted(g, next) is what ShiftFocus does to the groups and to the        *)
(* notifications, with what all its callers see to: that next is alive, on  *)
(* a display of the group and has not the focus yet.  The properties use    *)
(* Shifted and not the ways by which the callers come to it.                *)
(***************************************************************************)
EXTENDS WindowFocusProofs

(* A shift by its effect.                                                  *)

\* What the callers have done to the groups before they shift the focus of g: they
\* hold back nothing that was not held back, but for a focus of g.
Prepared(gs, g) ==
  /\ SameGroups(gs)
  /\ \A h \in Groups :
       /\ gs[h].last = groups[h].last
       /\ gs[h].lastApp \in {groups[h].lastApp, NoSession}
       /\ h # g => (gs[h].blockFocus => groups[h].blockFocus)
Lowered(gs) == \A g \in Groups : Prepared(gs, g) /\ (gs[g].blockFocus => groups[g].blockFocus)

\* The group that next, if it is a session, is alive in.
MayGet(next, g) ==
  next # NoSession => next \in Sessions /\ Alive(next) /\ Group(next) = g

\* What each group keeps or learns of its sessions.
Remembers(g) ==
  /\ groups'[g].exists = groups[g].exists
  /\ groups'[g].last \in {groups[g].last, groups[g].focused}
  /\ groups'[g].lastApp \in {groups[g].lastApp, NoSession, groups'[g].focused}

\* A group whose focus stays where it is and holds back no more than before.
Keeps(g) ==
  /\ groups'[g].focused = groups[g].focused
  /\ groups'[g].blockFocus => groups[g].blockFocus

\* What the clients are told: next of its focus unless the group holds it back,
\* the session that had the focus of its loss unless the group had held that back.
Tells(g, next) ==
  LET prev == groups[g].focused
  IN /\ told' \subseteq told \cup GainsFocus(next)
     /\ groups'[g].blockFocus => told' \subseteq told
     /\ prev \in told' => groups[g].blockFocus \/ prev \notin Reachable

Shifted(g, next) ==
  /\ MayGet(next, g)
  /\ next \in Ids \ {groups[g].focused}
  /\ groups'[g].focused = next
  /\ \A h \in Groups \ {g} : Keeps(h)
  /\ \A h \in Groups : Remembers(h)
  /\ isFocused' = (isFocused \ LosesFocus(groups[g].focused)) \cup GainsFocus(next)
  /\ Tells(g, next)

LEMMA LoweredSelf ==
  ASSUME FocusOK
  PROVE  Lowered(groups)
  BY SameGroupsSelf DEF Lowered, Prepared

LEMMA LoweredBut ==
  ASSUME FocusOK, NEW gs, Lowered(gs), NEW g \in Groups
  PROVE  /\ Lowered(Unblocked(gs, g))
         /\ Lowered([gs EXCEPT ![g].lastApp = NoSession])
         /\ \A b \in BOOLEAN : Prepared([gs EXCEPT ![g].blockFocus = b], g)
<1>1. SameGroups(gs) /\ gs \in [Groups -> FocusGroups]
  BY DEF Lowered, Prepared, SameGroups
<1>2. \A b \in BOOLEAN : SameGroups([gs EXCEPT ![g].blockFocus = b])
  BY <1>1, SameGroupsBut
<1>3. SameGroups([gs EXCEPT ![g].lastApp = NoSession])
  BY <1>1, SameGroupsBut
<1>4. ASSUME NEW b \in BOOLEAN, NEW h \in Groups, NEW k \in Groups
      PROVE  LET new == [gs EXCEPT ![g].blockFocus = b]
             IN /\ new[h].last = gs[h].last /\ new[h].lastApp = gs[h].lastApp
                /\ new[h].blockFocus = IF h = g THEN b ELSE gs[h].blockFocus
  BY <1>1 DEF FocusGroups
<1>5. ASSUME NEW h \in Groups
      PROVE  LET new == [gs EXCEPT ![g].lastApp = NoSession]
             IN /\ new[h].last = gs[h].last /\ new[h].blockFocus = gs[h].blockFocus
                /\ new[h].lastApp = IF h = g THEN NoSession ELSE gs[h].lastApp
  BY <1>1 DEF FocusGroups
<1>6. Lowered(Unblocked(gs, g))
  BY <1>2, <1>4 DEF Lowered, Prepared, Unblocked
<1>7. Lowered([gs EXCEPT ![g].lastApp = NoSession])
  BY <1>3, <1>5 DEF Lowered, Prepared
<1>8. ASSUME NEW b \in BOOLEAN
      PROVE  Prepared([gs EXCEPT ![g].blockFocus = b], g)
  BY <1>2, <1>4, <1>8 DEF Lowered, Prepared
<1> QED
  BY <1>6, <1>7, <1>8

\* ShiftFocus, called with a group that holds back the loss of the focus only if it
\* held back the news of it.
LEMMA ShiftFocusShifts ==
  ASSUME FocusOK, NEW g \in Groups, NEW gs, Prepared(gs, g),
         NEW next \in Ids, next # groups[g].focused, MayGet(next, g),
         NEW pro \in BOOLEAN, NEW bu \in BOOLEAN, bu => groups[g].blockFocus,
         ShiftFocus(gs, g, next, pro, bu)
  PROVE  Shifted(g, next)
<1> DEFINE prev == groups[g].focused
<1>1. /\ gs \in [Groups -> FocusGroups] /\ gs[g].focused = prev
      /\ \A h \in Groups : gs[h] \in FocusGroups /\ gs[h].focused = groups[h].focused
                          /\ gs[h].exists = groups[h].exists
  BY DEF Prepared, SameGroups
<1> DEFINE lastApp == IF next = NoSession THEN NoSession
                      ELSE IF next \in Apps \/ Kind[next] = "desktop" THEN next
                      ELSE gs[g].lastApp
           new == [gs[g] EXCEPT !.focused = next, !.last = IF next = prev THEN @ ELSE prev, !.lastApp = lastApp]
<1>2. groups' = [gs EXCEPT ![g] = new]
  BY <1>1 DEF ShiftFocus
<1>3. /\ new.focused = next /\ new.exists = gs[g].exists /\ new.blockFocus = gs[g].blockFocus
      /\ new.last = prev /\ new.lastApp \in {gs[g].lastApp, NoSession, next}
  BY <1>1 DEF FocusGroups
<1>4. groups'[g] = new /\ \A h \in Groups \ {g} : groups'[h] = gs[h]
  BY <1>1, <1>2
<1> HIDE DEF new, lastApp
<1>5. \A h \in Groups : Remembers(h)
  <2>1. Remembers(g)
    BY <1>1, <1>3, <1>4 DEF Remembers, Prepared
  <2>2. \A h \in Groups \ {g} : Remembers(h)
    BY <1>1, <1>4 DEF Remembers, Prepared
  <2> QED
    BY <2>1, <2>2
<1>6. \A h \in Groups \ {g} : Keeps(h)
  BY <1>1, <1>4 DEF Prepared, Keeps
<1>7. isFocused' = (isFocused \ LosesFocus(prev)) \cup GainsFocus(next)
  BY <1>1 DEF ShiftFocus
<1>8. told' = (IF bu THEN told ELSE told \ (LosesFocus(prev) \cap Reachable))
                \cup (IF gs[g].blockFocus THEN {} ELSE GainsFocus(next) \cap Reachable)
  BY <1>1 DEF ShiftFocus
<1>9. groups'[g].blockFocus = gs[g].blockFocus /\ groups'[g].focused = next
  BY <1>3, <1>4
<1>10. Tells(g, next)
  <2>1. prev \in told' => bu \/ prev \notin Reachable
    <3>1. prev \notin GainsFocus(next)
      BY DEF GainsFocus
    <3>2. prev \in Reachable => prev \in LosesFocus(prev)
      BY SessionsAssumption DEF Reachable, Apps, LosesFocus, Alive
    <3> QED
      BY <1>8, <3>1, <3>2
  <2> QED
    BY <1>8, <1>9, <2>1 DEF Tells
<1> QED
  BY <1>5, <1>6, <1>7, <1>9, <1>10 DEF Shifted

-----------------------------------------------------------------------------
(* The ways to it.                                                         *)

LEMMA FocusSessionShifted ==
  ASSUME WindowsOK, FocusOK, NEW gs, Lowered(gs), NEW s \in Ids, NEW fg, NEW click,
         FocusGranted(s, fg, click), FocusSession(gs, s)
  PROVE  Group(s) \in Groups /\ Shifted(Group(s), s)
<1> DEFINE g == Group(s)
<1>1. s \in Sessions /\ g \in Groups
  BY FocusGrantedTyped
<1>2. Alive(s) /\ s # groups[g].focused
  BY DEF FocusGranted, BasicCheck, FocusedAt
<1>3. MayGet(s, g)
  BY <1>1, <1>2 DEF MayGet
<1>4. Lowered(Unblocked(gs, g))
  BY <1>1, LoweredBut
<1>5. ShiftFocus(Unblocked(gs, g), g, s, FALSE, gs[g].blockFocus)
  BY DEF FocusSession
<1>6. /\ gs[g].blockFocus \in BOOLEAN
      /\ gs[g].blockFocus => groups[g].blockFocus
  BY <1>1 DEF Lowered, Prepared, SameGroups, FocusGroups
<1>7. Prepared(Unblocked(gs, g), g)
  BY <1>1, <1>4 DEF Lowered
<1> QED
  BY <1>1, <1>2, <1>3, <1>5, <1>6, <1>7, ShiftFocusShifts

LEMMA FocusImmediatelyShifted ==
  ASSUME WindowsOK, FocusOK, NEW s \in Sessions, ImmediateGranted(s), FocusImmediately(s)
  PROVE  Group(s) \in Groups /\ Shifted(Group(s), s)
<1> DEFINE g == Group(s)
           b == groups[g].blockFocus \/ (s \in Apps /\ ~VisibleForeground(s))
           gs == [groups EXCEPT ![g].blockFocus = b]
<1>1. g \in Groups
  BY HasGroupTyped DEF ImmediateGranted, BasicCheck
<1>2. Alive(s) /\ s # groups[g].focused /\ s \in Ids
  BY DEF ImmediateGranted, BasicCheck, FocusedAt, Ids
<1>3. groups[g].blockFocus \in BOOLEAN /\ b \in BOOLEAN
  BY <1>1 DEF FocusOK, FocusGroups
<1>4. Prepared(gs, g)
  BY <1>1, <1>3, LoweredSelf, LoweredBut
<1>5. ShiftFocus(gs, g, s, FALSE, groups[g].blockFocus)
  BY DEF FocusImmediately
<1> HIDE DEF gs, b
<1> QED
  BY <1>1, <1>2, <1>3, <1>4, <1>5, ShiftFocusShifts DEF MayGet

LEMMA TopmostIn ==
  ASSUME NEW S \in SUBSET Sessions, NEW tied, NEW next \in Topmost(S, tied)
  PROVE  next = NoSession \/ next \in S
  BY DEF Topmost

LEMMA NextFocusableMayGet ==
  ASSUME NEW s \in Sessions, NEW next \in NextFocusable(s)
  PROVE  next \in Ids /\ next # s /\ MayGet(next, Group(s))
<1> DEFINE below == {t \in SameGroup(s) \ {s} : z[t] <= z[s] /\ VisibleNotBackground(t)}
<1>1. next = NoSession \/ next \in below
  BY TopmostIn DEF NextFocusable, SameGroup
<1>2. s # NoSession
  BY SessionsAssumption
<1> QED
  BY <1>1, <1>2 DEF MayGet, SameGroup, Ids

\* An unfocus request shifts the focus of the session's own group, or passes the
\* focus to a session whose own request for it is granted.
OwnRequest(s) ==
  \E g \in Groups : Shifted(g, s) /\ g = Group(s) /\ FocusGranted(s, FALSE, FALSE)

LEMMA UnfocusToShifted ==
  ASSUME WindowsOK, FocusOK, NEW s \in Sessions, UnfocusGranted(s),
         NEW next \in NextFocusable(s), UnfocusTo(s, next)
  PROVE  \/ Shifted(Group(s), next)
         \/ LET last == groups[Group(s)].lastApp IN last \in Sessions /\ OwnRequest(last)
<1> DEFINE g == Group(s)
           last == groups[g].lastApp
           gs == Unblocked(groups, g)
           refused == IF AsksLastApp(s, next) THEN [gs EXCEPT ![g].lastApp = NoSession] ELSE gs
           b == next # NoSession /\ next \in Apps /\ ~Foreground(next)
<1>1. g \in Groups /\ s = groups[g].focused
  BY HasGroupTyped DEF UnfocusGranted, FocusedAt
<1>2. last \in Ids /\ groups[g].blockFocus \in BOOLEAN
  BY <1>1 DEF FocusOK, FocusGroups
<1>3. Lowered(gs)
  BY <1>1, LoweredSelf, LoweredBut
<1>4. Lowered(refused)
  BY <1>1, <1>3, LoweredBut
<1>5. CASE AsksLastApp(s, next) /\ FocusGranted(last, FALSE, FALSE)
  <2>1. FocusSession(gs, last)
    BY <1>5 DEF UnfocusTo
  <2>2. last \in Sessions
    BY <1>2, <1>5, FocusGrantedTyped
  <2> QED
    BY <1>2, <1>3, <1>5, <2>1, <2>2, FocusSessionShifted DEF OwnRequest
<1>6. CASE ~(AsksLastApp(s, next) /\ FocusGranted(last, FALSE, FALSE))
  <2> DEFINE blocked == [refused EXCEPT ![g].blockFocus = b]
  <2>1. Prepared(blocked, g)
    BY <1>1, <1>4, LoweredBut
  <2>2. ShiftFocus(blocked, g, next, TRUE, groups[g].blockFocus)
    BY <1>6 DEF UnfocusTo
  <2> HIDE DEF blocked
  <2> QED
    BY <1>1, <1>2, <2>1, <2>2, NextFocusableMayGet, ShiftFocusShifts
<1> QED
  BY <1>5, <1>6

LEMMA UnfocusSessionShifted ==
  ASSUME WindowsOK, FocusOK, NEW s \in Sessions, UnfocusGranted(s), UnfocusSession(s)
  PROVE  \/ \E next \in NextFocusable(s) : Shifted(Group(s), next)
         \/ \E t \in {groups[Group(s)].last, groups[Group(s)].lastApp} :
              t \in Sessions /\ OwnRequest(t)
<1>1. CASE BackToDesktop(s)
  <2> DEFINE last == groups[Group(s)].last
  <2>1. Group(s) \in Groups
    BY HasGroupTyped DEF UnfocusGranted
  <2>2. last \in Ids
    BY <2>1 DEF FocusOK, FocusGroups
  <2>3. last \in Sessions /\ FocusGranted(last, FALSE, FALSE)
    BY <1>1, <2>2, FocusGrantedTyped DEF BackToDesktop
  <2>4. FocusSession(groups, last)
    BY <1>1 DEF UnfocusSession
  <2> QED
    BY <2>2, <2>3, <2>4, LoweredSelf, FocusSessionShifted DEF OwnRequest
<1>2. CASE ~BackToDesktop(s)
  BY <1>2, UnfocusToShifted DEF UnfocusSession
<1> QED
  BY <1>1, <1>2

LEMMA AllAppUnfocusShifted ==
  ASSUME FocusOK, AllAppUnfocus
  PROVE  \E next \in Ids : Shifted(DefaultGroup, next)
<1>1. PICK next \in TopFocusableNonApp :
        ShiftFocus(Unblocked(groups, DefaultGroup), DefaultGroup, next, TRUE,
                   groups[DefaultGroup].blockFocus)
  BY DEF AllAppUnfocus
<1>2. next = NoSession \/ (next \in System /\ Alive(next) /\ Group(next) = DefaultGroup)
  <2> DEFINE inGroup == {t \in Sessions : Alive(t) /\ Group(t) = DefaultGroup}
             apps == {a \in inGroup \cap Apps : z[a] # 0}
             below == {t \in inGroup \cap System :
                        VisibleForeground(t) /\ \A a \in apps : z[t] <= z[a]}
  <2>1. next = NoSession \/ next \in below
    BY TopmostIn DEF TopFocusableNonApp
  <2> QED
    BY <2>1
<1>3. next # groups[DefaultGroup].focused
  BY <1>2, SessionsAssumption DEF AllAppUnfocus, System, Alive
<1>4. groups[DefaultGroup].blockFocus \in BOOLEAN
  BY GroupsTyped DEF FocusOK, FocusGroups
<1>5. Prepared(Unblocked(groups, DefaultGroup), DefaultGroup)
  BY GroupsTyped, LoweredSelf, LoweredBut DEF Lowered
<1>6. next \in Ids /\ MayGet(next, DefaultGroup)
  BY <1>2 DEF Ids, System, MayGet
<1> QED
  BY <1>1, <1>3, <1>4, <1>5, <1>6, GroupsTyped, ShiftFocusShifts
-----------------------------------------------------------------------------
(* Every step.                                                             *)

\* The focus of no group moves: at most a flag is taken back and the client that
\* it kept waiting is told.
Steady ==
  /\ Lowered(groups')
  /\ UNCHANGED isFocused
  /\ \A s \in told' \ told :
       HasGroup(s) /\ s = FocusedAt(s) /\ ~groups'[Group(s)].blockFocus

\* A session gets the focus of its group, having passed the check of the session
\* that has it.
Requested(s) ==
  /\ Group(s) \in Groups
  /\ Shifted(Group(s), s)
  /\ \E fg, click \in BOOLEAN : SpecificCheck(s, fg, click)

\* The focused session of a group gives the focus up.
Given(g) ==
  /\ \E next \in Ids : Shifted(g, next)
  /\ groups[g].focused \in Apps \/ KeyguardGivesUp(groups[g].focused)

Moved == (\E s \in Sessions : Requested(s)) \/ (\E g \in Groups : Given(g))

\* Only the state changes of apps leave a task behind.
BackgroundOfApp == task = "background" => subject \in Apps

LEMMA UnchangedSteady ==
  ASSUME FocusOK, UNCHANGED focusVars
  PROVE  Steady
<1>1. Lowered(groups)
  BY LoweredSelf
<1>2. groups' = groups /\ UNCHANGED isFocused /\ told' = told
  BY DEF focusVars
<1>3. Lowered(groups')
  BY <1>1, <1>2
<1> QED
  BY <1>2, <1>3 DEF Steady

LEMMA FocusSessionRequested ==
  ASSUME WindowsOK, FocusOK, NEW s \in Ids, NEW fg \in BOOLEAN, NEW click \in BOOLEAN,
         FocusGranted(s, fg, click), FocusSession(groups, s)
  PROVE  s \in Sessions /\ Requested(s)
<1>1. s \in Sessions
  BY FocusGrantedTyped
<1>2. SpecificCheck(s, fg, click)
  BY DEF FocusGranted
<1> QED
  BY <1>1, <1>2, LoweredSelf, FocusSessionShifted DEF Requested

LEMMA FocusImmediatelyRequested ==
  ASSUME WindowsOK, FocusOK, NEW s \in Sessions, ImmediateGranted(s), FocusImmediately(s)
  PROVE  Requested(s)
<1>1. SpecificCheck(s, TRUE, FALSE)
  BY DEF ImmediateGranted
<1> QED
  BY <1>1, FocusImmediatelyShifted DEF Requested

LEMMA FocusOrNotMoved ==
  ASSUME WindowsOK, FocusOK, NEW s \in Ids, NEW fg \in BOOLEAN, NEW click \in BOOLEAN,
         FocusOrNot(s, fg, click)
  PROVE  Moved \/ Steady
  BY FocusSessionRequested, UnchangedSteady DEF FocusOrNot, Moved

\* A session that gives the focus up is the focused one of its group.
LEMMA UnfocusMoved ==
  ASSUME WindowsOK, FocusOK, NEW s \in Sessions, UnfocusGranted(s), UnfocusSession(s),
         s \in Apps \/ KeyguardGivesUp(s)
  PROVE  Moved
<1>1. Group(s) \in Groups /\ s = groups[Group(s)].focused
  BY HasGroupTyped DEF UnfocusGranted, FocusedAt
<1>2. ASSUME NEW next \in NextFocusable(s), Shifted(Group(s), next) PROVE Moved
  <2>1. next \in Ids
    BY NextFocusableTyped
  <2>2. Given(Group(s))
    BY <1>1, <1>2, <2>1 DEF Given
  <2> QED
    BY <1>1, <2>2 DEF Moved
<1>3. ASSUME NEW t \in Sessions, OwnRequest(t) PROVE Moved
  <2>1. Group(t) \in Groups /\ Shifted(Group(t), t) /\ SpecificCheck(t, FALSE, FALSE)
    BY <1>3 DEF OwnRequest, FocusGranted
  <2>2. Requested(t)
    BY <2>1 DEF Requested
  <2> QED
    BY <2>2 DEF Moved
<1> QED
  BY <1>2, <1>3, UnfocusSessionShifted

LEMMA UnfocusOrNotMoved ==
  ASSUME WindowsOK, FocusOK, NEW s \in Ids, UnfocusOrNot(s),
         s \in Sessions => s \in Apps \/ KeyguardGivesUp(s)
  PROVE  Moved \/ Steady
<1>1. UnfocusGranted(s) => s \in Sessions
  BY DEF UnfocusGranted, Alive, Ids
<1> QED
  BY <1>1, UnfocusMoved, UnchangedSteady DEF UnfocusOrNot

LEMMA PostMoved ==
  ASSUME WindowsOK, FocusOK, NEW s \in Sessions, PostProcessFocus(s)
  PROVE  Moved \/ Steady
<1>1. CASE UNCHANGED focusVars
  BY <1>1, UnchangedSteady
<1>2. CASE PostGranted(s) /\ PostRequest(s)
  <2>1. CASE post[s] = "start"
    <3>1. ImmediateGranted(s) /\ FocusImmediately(s)
      BY <1>2, <2>1 DEF PostGranted, PostRequest
    <3> QED
      BY <3>1, FocusImmediatelyRequested DEF Moved
  <2>2. CASE post[s] = "unfocus"
    <3>1. UnfocusGranted(s) /\ UnfocusSession(s)
      BY <1>2, <2>2 DEF PostGranted, PostRequest
    <3>2. KeyguardGivesUp(s)
      BY <2>2 DEF KeyguardGivesUp, PostProcessFocus
    <3> QED
      BY <3>1, <3>2, UnfocusMoved
  <2>3. CASE post[s] \in {"focus", "focusBehind"}
    <3>1. \E fg \in BOOLEAN : FocusGranted(s, fg, FALSE)
      BY <1>2, <2>3 DEF PostGranted
    <3>2. FocusSession(groups, s) /\ s \in Ids
      BY <1>2, <2>3 DEF PostRequest, Ids
    <3> QED
      BY <3>1, <3>2, FocusSessionRequested DEF Moved
  <2>4. post[s] \in {"start", "unfocus", "focus", "focusBehind"}
    BY <1>2 DEF PostGranted
  <2> QED
    BY <2>1, <2>2, <2>3, <2>4
<1> QED
  BY <1>1, <1>2 DEF PostProcessFocus, DelayFocusChange, PostProcessRequest

\* A client that a group held back for is told on the way to the foreground.
LEMMA ForegroundMoved ==
  ASSUME WindowsOK, FocusOK, NEW s \in Sessions,
         ForegroundFocused(s) \/ ForegroundUnfocused(s)
  PROVE  Moved \/ Steady
<1>1. CASE ForegroundFocused(s)
  <2>1. HasGroup(s) /\ s = FocusedAt(s) /\ Group(s) \in Groups
    BY <1>1, HasGroupTyped DEF ForegroundFocused
  <2>2. Lowered(Unblocked(groups, Group(s)))
    BY <2>1, LoweredSelf, LoweredBut
  <2>3. CASE groups[Group(s)].blockFocus
    <3>1. groups' = Unblocked(groups, Group(s)) /\ told' = told \cup {s} /\ UNCHANGED isFocused
      BY <1>1, <2>3 DEF ForegroundFocused
    <3>2. ~groups'[Group(s)].blockFocus
      BY <2>1, <3>1 DEF Unblocked, FocusOK, FocusGroups
    <3>3. Lowered(groups')
      BY <2>2, <3>1
    <3> QED
      BY <2>1, <3>1, <3>2, <3>3 DEF Steady
  <2>4. CASE ~groups[Group(s)].blockFocus
    <3>1. groups' = groups /\ told' = told /\ UNCHANGED isFocused
      BY <1>1, <2>4 DEF ForegroundFocused
    <3>2. Lowered(groups')
      BY <3>1, LoweredSelf
    <3> QED
      BY <3>1, <3>2 DEF Steady
  <2> QED
    BY <2>3, <2>4
<1>2. CASE ForegroundUnfocused(s)
  <2>1. CASE FocusOrNot(s, TRUE, FALSE)
    BY <2>1, FocusOrNotMoved DEF Ids
  <2>2. CASE UNCHANGED focusVars
    BY <2>2, UnchangedSteady
  <2> QED
    BY <1>2, <2>1, <2>2 DEF ForegroundUnfocused
<1> QED
  BY <1>1, <1>2

LEMMA AllAppUnfocusMoved ==
  ASSUME FocusOK, AllAppUnfocus
  PROVE  Moved
<1>1. groups[DefaultGroup].focused \in Apps
  BY DEF AllAppUnfocus
<1> QED
  BY <1>1, AllAppUnfocusShifted, GroupsTyped DEF Moved, Given

LEMMA FlushSteady ==
  ASSUME FocusOK, NEW d \in Displays, NEW shown \in SUBSET Sessions,
         NEW order \in Orders(shown), FlushUIParams(d, shown, order)
  PROVE  Steady
<1>1. Lowered([groups EXCEPT ![DefaultGroup].lastApp = NoSession])
  BY GroupsTyped, LoweredSelf, LoweredBut
<1>2. groups' = groups \/ groups' = [groups EXCEPT ![DefaultGroup].lastApp = NoSession]
  BY DEF FlushUIParams
<1>3. Lowered(groups')
  BY <1>1, <1>2, LoweredSelf
<1> QED
  BY <1>3 DEF FlushUIParams, Steady

LEMMA MoveStep ==
  ASSUME TypeOK, BackgroundOfApp, Next
  PROVE  \/ Plug
         \/ Moved /\ UNCHANGED <<groupOf, display>>
         \/ Steady /\ UNCHANGED groupOf /\ (UNCHANGED display \/ "MOVE" \in Ops)
<1> USE DEF TypeOK, windowVars
<1>1. ASSUME NEW s \in Sessions, NEW fg \in BOOLEAN, NEW click \in BOOLEAN, AskFocus(s, fg, click)
      PROVE  Moved /\ UNCHANGED <<groupOf, display>>
  <2>1. s \in Ids
    BY DEF Ids
  <2> QED
    BY <1>1, <2>1, FocusSessionRequested DEF AskFocus, Moved
<1>2. ASSUME NEW s \in Sessions, AskUnfocus(s)
      PROVE  Moved /\ UNCHANGED <<groupOf, display>>
  <2>1. KeyguardGivesUp(s)
    BY <1>2 DEF KeyguardGivesUp
  <2> QED
    BY <1>2, <2>1, UnfocusMoved DEF AskUnfocus
<1>3. ASSUME NEW s \in Sessions, AskImmediatelyBySCB(s)
      PROVE  Moved /\ UNCHANGED <<groupOf, display>>
  BY <1>3, FocusImmediatelyRequested DEF AskImmediatelyBySCB, Moved
<1>4. ASSUME NEW s \in Sessions, NEW fg \in BOOLEAN, AskBySCB(s, fg)
      PROVE  (Moved \/ Steady) /\ UNCHANGED <<groupOf, display>>
  <2>1. s \in Ids
    BY DEF Ids
  <2> QED
    BY <1>4, <2>1, FocusOrNotMoved DEF AskBySCB
<1>5. ASSUME NEW s \in Sessions, Activate(s)
      PROVE  (Moved \/ Steady) /\ UNCHANGED <<groupOf, display>>
  BY <1>5, FocusImmediatelyRequested, UnchangedSteady DEF Activate, Moved
<1>6. ASSUME NEW s \in Sessions, Connect(s)
      PROVE  Steady /\ UNCHANGED <<groupOf, display>>
  <2>1. groups' = groups /\ UNCHANGED isFocused /\ told' = told \ {s}
    BY <1>6 DEF Connect
  <2>2. Lowered(groups')
    BY <2>1, LoweredSelf
  <2> QED
    BY <1>6, <2>1, <2>2 DEF Connect, Steady
<1>7. ASSUME NEW s \in Sessions, Destroy(s)
      PROVE  (Moved \/ Steady) /\ UNCHANGED <<groupOf, display>>
  <2>1. KeyguardGivesUp(s) /\ s \in Ids
    BY <1>7 DEF KeyguardGivesUp, Ids
  <2> QED
    BY <1>7, <2>1, UnfocusOrNotMoved DEF Destroy
<1>8. ASSUME NEW s \in Sessions, PostProcessFocus(s)
      PROVE  (Moved \/ Steady) /\ UNCHANGED <<groupOf, display>>
  BY <1>8, PostMoved DEF PostProcessFocus, DelayFocusChange, PostProcessRequest, Processed
<1>9. CASE OnForeground
  <2>1. subject \in Sessions
    BY <1>9 DEF OnForeground, TasksOK, Ids, Alive
  <2> QED
    BY <1>9, <2>1, ForegroundMoved, UnchangedSteady DEF OnForeground
<1>10. CASE OnBackground
  <2>1. subject \in Apps /\ subject \in Ids
    BY <1>10 DEF OnBackground, BackgroundOfApp, Apps, Ids
  <2> QED
    BY <1>10, <2>1, UnfocusOrNotMoved DEF OnBackground
<1>11. CASE Disconnect("disconnect") \/ Disconnect("gone")
  <2>1. /\ task = "disconnect" /\ UnfocusOrNot(subject)
        /\ UNCHANGED <<groupOf, display>>
    BY <1>11 DEF Disconnect
  <2>2. KeyguardGivesUp(subject) /\ subject \in Ids
    BY <2>1 DEF KeyguardGivesUp, TasksOK
  <2> QED
    BY <2>1, <2>2, UnfocusOrNotMoved
<1>12. CASE AllAppUnfocus
  BY <1>12, AllAppUnfocusMoved DEF AllAppUnfocus
<1>13. ASSUME NEW d \in Displays, NEW shown \in SUBSET Sessions,
              NEW order \in Orders(shown), FlushUIParams(d, shown, order)
       PROVE  Steady /\ UNCHANGED <<groupOf, display>>
  BY <1>13, FlushSteady DEF FlushUIParams
<1>14. ASSUME NEW s \in Sessions, MoveUpBySCB(s) \/ ToForeground(s) \/ ToBackground(s)
       PROVE  Steady /\ UNCHANGED <<groupOf, display>>
  <2>1. UNCHANGED <<focusVars, groupOf, display>>
    BY <1>14 DEF MoveUpBySCB, ToForeground, ToBackground
  <2> QED
    BY <2>1, UnchangedSteady
<1>15. ASSUME NEW s \in Sessions, NEW d \in Displays, MoveToDisplay(s, d)
       PROVE  Steady /\ UNCHANGED groupOf /\ "MOVE" \in Ops
  BY <1>15, UnchangedSteady DEF MoveToDisplay
<1> QED
  BY <1>1, <1>2, <1>3, <1>4, <1>5, <1>6, <1>7, <1>8, <1>9, <1>10, <1>11, <1>12, <1>13, <1>14, <1>15
     DEF Next, Plug

\* Unplugging a display and plugging it in again end the focus of its group.
LEMMA PlugEffect ==
  ASSUME FocusOK, Plug
  PROVE  /\ UNCHANGED <<state, display, isFocused, told>>
         /\ "PLUG" \in Ops
         /\ \A d \in Displays : groupOf'[d] \in {groupOf[d], DisplayGroup[d], NoGroup}
         /\ \A g \in Groups :
              \/ /\ groups'[g].focused = groups[g].focused
                 /\ groups'[g].last = groups[g].last /\ groups'[g].lastApp = groups[g].lastApp
              \/ /\ groups'[g].focused = NoSession
                 /\ groups'[g].last = NoSession /\ groups'[g].lastApp = NoSession
<1>1. PICK d \in Displays : AddFocusGroup(d) \/ RemoveFocusGroup(d)
  BY DEF Plug
<1>2. UNCHANGED <<state, display, isFocused, told>> /\ "PLUG" \in Ops
  BY <1>1 DEF AddFocusGroup, RemoveFocusGroup, windowVars
<1>3. \A e \in Displays : groupOf'[e] \in {groupOf[e], DisplayGroup[e], NoGroup}
  BY <1>1 DEF AddFocusGroup, RemoveFocusGroup, DeletedGroup, FocusOK
<1>4. \A ds : /\ NewGroup(ds).focused = NoSession
              /\ NewGroup(ds).last = NoSession /\ NewGroup(ds).lastApp = NoSession
  BY DEF NewGroup
<1>5. ASSUME NEW g \in Groups
      PROVE  LET more == [groups[g] EXCEPT !.displays = groups[g].displays \cup {d}]
             IN /\ more.focused = groups[g].focused
                /\ more.last = groups[g].last /\ more.lastApp = groups[g].lastApp
  BY DEF FocusOK, FocusGroups
<1>6. DisplayGroup[d] \in Groups
  BY DEF Groups
<1>7. ASSUME NEW g \in Groups
      PROVE  \/ groups'[g] = groups[g]
             \/ groups'[g] = [groups[g] EXCEPT !.displays = groups[g].displays \cup {d}]
             \/ \E ds : groups'[g] = NewGroup(ds)
  <2>1. CASE AddFocusGroup(d)
    BY <1>6, <2>1 DEF AddFocusGroup, FocusOK
  <2>2. CASE RemoveFocusGroup(d)
    BY <1>6, <2>2 DEF RemoveFocusGroup, FocusOK
  <2> QED
    BY <1>1, <2>1, <2>2
<1> QED
  BY <1>2, <1>3, <1>4, <1>5, <1>7
-----------------------------------------------------------------------------
(* The focus stays in its group, and the keyguard keeps it.                *)

\* The group of a display is the one of its screen session, or none.
GroupsOfDisplays == \A d \in Displays : groupOf[d] \in {DisplayGroup[d], NoGroup}
BasicInv == BackgroundOfApp /\ GroupsOfDisplays

LEMMA GroupOfSession ==
  ASSUME WindowsOK, GroupsOfDisplays, NEW s \in Sessions, Group(s) \in Groups
  PROVE  DisplayGroup[display[s]] = Group(s)
  BY DisplaysAssumption DEF WindowsOK, GroupsOfDisplays, Group

LEMMA BackgroundStep ==
  ASSUME TypeOK, BackgroundOfApp, Next
  PROVE  BackgroundOfApp'
<1>1. \/ UNCHANGED <<task, subject>>
      \/ task' # "background"
      \/ \E s \in Sessions : ToBackground(s)
  BY DEF Next, taskVars, Proceed, AskFocus, AskUnfocus, AskImmediatelyBySCB, MoveUpBySCB,
     AskBySCB, Activate, Connect, ToForeground, Destroy, PostProcessFocus, DelayFocusChange,
     PostProcessRequest, Processed, MoveToDisplay, AllAppUnfocus, OnForeground, OnBackground,
     Disconnect, AddFocusGroup, RemoveFocusGroup, FlushUIParams
<1>2. ASSUME NEW s \in Sessions, ToBackground(s) PROVE subject' \in Apps
  BY <1>2 DEF ToBackground, Proceed
<1> QED
  BY <1>1, <1>2 DEF BackgroundOfApp

LEMMA BasicStep ==
  ASSUME TypeOK, BasicInv, [Next]_vars
  PROVE  BasicInv'
<1>1. CASE Next
  <2>1. GroupsOfDisplays'
    BY <1>1, MoveStep, PlugEffect DEF BasicInv, GroupsOfDisplays, TypeOK
  <2> QED
    BY <1>1, <2>1, BackgroundStep DEF BasicInv
<1>2. CASE UNCHANGED vars
  BY <1>2 DEF vars, taskVars, BasicInv, BackgroundOfApp, GroupsOfDisplays
<1> QED
  BY <1>1, <1>2

LEMMA BasicCorrect == Spec => []BasicInv
<1>1. Init => BasicInv
  BY DEF Init, BasicInv, BackgroundOfApp, GroupsOfDisplays
<1> QED
  BY <1>1, BasicStep, TypeCorrect, PTL DEF Spec

\* The groups whose focus a step changes.
LEMMA SteadyFocus ==
  ASSUME Steady, NEW g \in Groups
  PROVE  groups'[g].focused = groups[g].focused
  BY DEF Steady, Lowered, Prepared, SameGroups

LEMMA ShiftedFocus ==
  ASSUME NEW g \in Groups, NEW next, Shifted(g, next), NEW h \in Groups,
         groups'[h].focused # groups[h].focused
  PROVE  h = g /\ groups'[h].focused = next
  BY DEF Shifted, Keeps

\* However displays come and go and sessions move between them, a group passes
\* its focus to sessions on its own connected displays only.
THEOREM GroupCorrect == Spec => FocusStaysInGroup
<1>1. TypeOK /\ BasicInv /\ [Next]_vars => [PassedInGroup]_vars
  <2> SUFFICES ASSUME TypeOK, BasicInv, Next PROVE PassedInGroup
    OBVIOUS
  <2> SUFFICES ASSUME NEW g \in Groups,
                      groups'[g].focused \notin {groups[g].focused, NoSession}
               PROVE  /\ DisplayGroup[display[groups'[g].focused]] = g
                      /\ groupOf[display[groups'[g].focused]] = g
    BY DEF PassedInGroup
  <2> DEFINE next == groups'[g].focused
  <2>1. ~Plug /\ ~Steady
    BY SteadyFocus, PlugEffect DEF TypeOK
  <2>2. Moved
    BY <2>1, MoveStep DEF BasicInv
  <2>3. PICK h \in Groups, t \in Ids : Shifted(h, t)
    BY <2>2 DEF Moved, Requested, Given, Ids
  <2>4. h = g /\ t = next
    BY <2>3, ShiftedFocus
  <2>5. next \in Sessions /\ Group(next) = g
    BY <2>3, <2>4 DEF Shifted, MayGet
  <2> QED
    BY <2>5, GroupOfSession DEF TypeOK, BasicInv, Group
<1> QED
  BY <1>1, TypeCorrect, BasicCorrect, PTL DEF Spec, FocusStaysInGroup

\* While a keyguard that blocks the focus has it, only a session that is not
\* below it takes it from it, or the keyguard gives it up itself; whatever is
\* asked, flushed, moved or unplugged.
THEOREM KeyguardCorrect == Spec => KeyguardKeepsFocus
<1>1. TypeOK /\ BasicInv /\ [Next]_vars => [KeyguardNotOvertaken]_vars
  <2> SUFFICES ASSUME TypeOK, BasicInv, Next PROVE KeyguardNotOvertaken
    OBVIOUS
  <2> SUFFICES ASSUME NEW g \in Groups,
                      Alive(groups[g].focused), Kind[groups[g].focused] = "keyguard",
                      groups[g].focused \in Blocking,
                      groups'[g].focused \notin {groups[g].focused, NoSession}
               PROVE  \/ z[groups'[g].focused] >= z[groups[g].focused]
                      \/ KeyguardGivesUp(groups[g].focused)
    BY DEF KeyguardNotOvertaken
  <2> DEFINE k == groups[g].focused
             next == groups'[g].focused
  <2>1. ~Plug /\ ~Steady
    BY SteadyFocus, PlugEffect DEF TypeOK
  <2>2. Moved
    BY <2>1, MoveStep DEF BasicInv
  <2>3. ASSUME NEW s \in Sessions, Requested(s) PROVE z[next] >= z[k]
    <3>1. Group(s) = g /\ next = s
      BY <2>3, ShiftedFocus DEF Requested
    <3>2. FocusedAt(s) = k
      BY <3>1 DEF FocusedAt
    <3>3. PICK fg \in BOOLEAN, click \in BOOLEAN : SpecificCheck(s, fg, click)
      BY <2>3 DEF Requested
    <3> QED
      BY <3>1, <3>2, <3>3 DEF SpecificCheck
  <2>4. ASSUME NEW h \in Groups, Given(h) PROVE KeyguardGivesUp(k)
    <3>1. h = g
      BY <2>4, ShiftedFocus DEF Given
    <3>2. k \notin Apps
      BY DEF Apps
    <3> QED
      BY <2>4, <3>1, <3>2 DEF Given
  <2> QED
    BY <2>2, <2>3, <2>4 DEF Moved
<1> QED
  BY <1>1, TypeCorrect, BasicCorrect, PTL DEF Spec, KeyguardKeepsFocus
-----------------------------------------------------------------------------
(* One shift for each flush.                                               *)

\* The sessions that the groups know of are on displays of the group, for as long
\* as sessions stay on their displays.
Knows(g) == {groups[g].focused, groups[g].last, groups[g].lastApp} \ {NoSession}
KnownInGroup == \A g \in Groups : \A s \in Knows(g) : s \in Sessions /\ DisplayGroup[display[s]] = g

LEMMA KnownStep ==
  ASSUME "MOVE" \notin Ops, TypeOK, BasicInv, KnownInGroup, [Next]_vars
  PROVE  KnownInGroup'
<1>1. ASSUME UNCHANGED display,
             \A g \in Groups : \A s \in Knows(g)' :
               s \in Knows(g) \/ (s \in Sessions /\ DisplayGroup[display[s]] = g)
      PROVE  KnownInGroup'
  BY <1>1 DEF KnownInGroup
<1>2. CASE Plug
  <2>1. \A g \in Groups : Knows(g)' \subseteq Knows(g)
    BY <1>2, PlugEffect DEF Knows, TypeOK
  <2> QED
    BY <1>1, <1>2, <2>1, PlugEffect DEF TypeOK
<1>3. CASE Steady /\ UNCHANGED display
  <2>1. \A g \in Groups : Knows(g)' \subseteq Knows(g)
    BY <1>3 DEF Steady, Lowered, Prepared, SameGroups, Knows
  <2> QED
    BY <1>1, <1>3, <2>1
<1>4. CASE Moved /\ UNCHANGED display
  <2>1. PICK g \in Groups, next \in Ids : Shifted(g, next)
    BY <1>4 DEF Moved, Requested, Given, Ids
  <2>2. next # NoSession => next \in Sessions /\ DisplayGroup[display[next]] = g
    BY <2>1, GroupOfSession DEF Shifted, MayGet, TypeOK, BasicInv
  <2>3. ASSUME NEW h \in Groups PROVE groups'[h].focused \in {groups[h].focused} \cup (IF h = g THEN {next} ELSE {})
    BY <2>1 DEF Shifted, Keeps
  <2>4. ASSUME NEW h \in Groups PROVE Remembers(h)
    BY <2>1 DEF Shifted
  <2>5. ASSUME NEW h \in Groups, NEW s \in Knows(h)' PROVE s \in Knows(h) \/ (h = g /\ s = next /\ s # NoSession)
    BY <2>3, <2>4 DEF Knows, Remembers
  <2> QED
    BY <1>1, <1>4, <2>2, <2>5
<1>5. CASE UNCHANGED vars
  BY <1>5 DEF vars, windowVars, focusVars, KnownInGroup, Knows
<1>6. CASE Next
  BY <1>2, <1>3, <1>4, <1>6, MoveStep DEF BasicInv
<1> QED
  BY <1>5, <1>6

\* The request of a session shifts the focus of its own group and of no other.
LEMMA PostOwnGroup ==
  ASSUME TypeOK, BasicInv, KnownInGroup, NEW s \in Sessions, PostGranted(s), PostRequest(s),
         NEW g \in Groups, groups'[g].focused # groups[g].focused
  PROVE  g = Group(s)
<1> USE DEF TypeOK
<1>1. CASE post[s] = "start"
  BY <1>1, FocusImmediatelyShifted, ShiftedFocus DEF PostGranted, PostRequest
<1>2. CASE post[s] \in {"focus", "focusBehind"}
  <2>1. \E fg \in BOOLEAN : FocusGranted(s, fg, FALSE)
    BY <1>2 DEF PostGranted
  <2>2. FocusSession(groups, s) /\ s \in Ids
    BY <1>2 DEF PostRequest, Ids
  <2>3. Group(s) \in Groups /\ Shifted(Group(s), s)
    BY <2>1, <2>2, LoweredSelf, FocusSessionShifted
  <2> QED
    BY <2>3, ShiftedFocus
<1>3. CASE post[s] = "unfocus"
  <2>1. UnfocusGranted(s) /\ UnfocusSession(s)
    BY <1>3 DEF PostGranted, PostRequest
  <2>2. Group(s) \in Groups
    BY <2>1, HasGroupTyped DEF UnfocusGranted
  <2>3. ASSUME NEW t \in {groups[Group(s)].last, groups[Group(s)].lastApp},
               t \in Sessions, OwnRequest(t)
        PROVE  g = Group(s)
    <3>1. DisplayGroup[display[t]] = Group(s)
      BY <2>2, <2>3, SessionsAssumption DEF KnownInGroup, Knows
    <3>2. Group(t) \in Groups /\ Shifted(Group(t), t)
      BY <2>3 DEF OwnRequest
    <3>3. Group(t) = Group(s)
      BY <2>3, <3>1, <3>2, GroupOfSession DEF BasicInv
    <3> QED
      BY <3>2, <3>3, ShiftedFocus
  <2> QED
    BY <2>1, <2>2, <2>3, UnfocusSessionShifted, ShiftedFocus
<1>4. post[s] \in {"start", "unfocus", "focus", "focusBehind"}
  BY DEF PostGranted
<1> QED
  BY <1>1, <1>2, <1>3, <1>4

\* PostProcessFocus has asked for every group whose focus the flush has changed.
MovedWereShifted == moved \subseteq shifted

\* A step of PostProcessFocus.
LEMMA PostFlushStep ==
  ASSUME TypeOK, BasicInv, KnownInGroup, MovedWereShifted, NEW s \in Sessions, PostProcessFocus(s)
  PROVE  MovedWereShifted' /\ NotShiftedAgain
<1> DEFINE changed == {g \in Groups : groups'[g].focused # groups[g].focused}
<1>1. CASE Group(s) \notin shifted /\ PostGranted(s) /\ PostRequest(s)
            /\ Processed(s, shifted \cup {Group(s)})
  <2>1. changed \subseteq {Group(s)}
    BY <1>1, PostOwnGroup
  <2>2. moved' \subseteq shifted'
    BY <1>1, <2>1 DEF Processed, MovedWereShifted
  <2> QED
    BY <1>1, <2>1, <2>2 DEF MovedWereShifted, NotShiftedAgain
<1>2. CASE UNCHANGED groups /\ Processed(s, shifted)
  BY <1>2 DEF Processed, MovedWereShifted, NotShiftedAgain
<1> QED
  BY <1>1, <1>2 DEF PostProcessFocus, DelayFocusChange, PostProcessRequest, focusVars

LEMMA FlushStep ==
  ASSUME TypeOK, BasicInv, KnownInGroup, MovedWereShifted, [Next]_vars
  PROVE  MovedWereShifted' /\ [NotShiftedAgain]_vars
<1>1. CASE UNCHANGED vars
  BY <1>1 DEF vars, taskVars, MovedWereShifted
<1>2. ASSUME NEW s \in Sessions, PostProcessFocus(s)
      PROVE  MovedWereShifted' /\ NotShiftedAgain
  BY <1>2, PostFlushStep
<1>3. ASSUME Next, ~\E s \in Sessions : PostProcessFocus(s)
      PROVE  /\ task # "post"
             /\ UNCHANGED <<shifted, moved>> \/ (shifted' = {} /\ moved' = {})
  BY <1>3 DEF Next, Idle, taskVars, Proceed, AskFocus, AskUnfocus, AskImmediatelyBySCB,
     MoveUpBySCB, AskBySCB, Activate, Connect, ToForeground, ToBackground, Destroy,
     MoveToDisplay, AllAppUnfocus, OnForeground, OnBackground, Disconnect, AddFocusGroup,
     RemoveFocusGroup, FlushUIParams
<1> QED
  BY <1>1, <1>2, <1>3 DEF MovedWereShifted, NotShiftedAgain

\* One flush changes the focus of a group once, however many sessions it shows,
\* hides and starts, and whatever group their requests ask for; as long as no
\* session has moved to another display, which would let a group hand its focus to
\* a session it remembers and that is in another group by now.
THEOREM OneShiftCorrect ==
  ASSUME "MOVE" \notin Ops
  PROVE  Spec => OneShiftPerFlush
<1> DEFINE Inv == KnownInGroup /\ MovedWereShifted
<1>1. Init => Inv
  BY DEF Init, Inv, KnownInGroup, Knows, NewGroup, MovedWereShifted
<1>2. TypeOK /\ BasicInv /\ Inv /\ [Next]_vars => Inv' /\ [NotShiftedAgain]_vars
  BY KnownStep, FlushStep DEF Inv
<1> HIDE DEF Inv
<1> QED
  BY <1>1, <1>2, TypeCorrect, BasicCorrect, PTL DEF Spec, OneShiftPerFlush
-----------------------------------------------------------------------------
(* The focused ids of the groups, the flags of the sessions and what clients *)
(* were told, for as long as displays and sessions stay where they are.      *)

Settled == Ops \cap {"MOVE", "PLUG"} = {}

\* Every display has its group; so every session has one.
AllGrouped == groupOf = DisplayGroup /\ \A g \in Groups : groups[g].exists

FlagInv ==
  /\ AllGrouped
  /\ KnownInGroup
  /\ FocusFlagMatches
  /\ ToldMeansFocused

LEMMA GroupedTyped ==
  ASSUME WindowsOK, AllGrouped, NEW s \in Sessions
  PROVE  /\ Group(s) \in Groups /\ Group(s) = DisplayGroup[display[s]]
         /\ HasGroup(s)
  BY DisplaysAssumption DEF WindowsOK, AllGrouped, Group, HasGroup, Groups

\* What happens to the sessions during a step that shifts the focus or leaves it.
Lives ==
  /\ UNCHANGED <<groupOf, display>>
  /\ \A s \in Sessions : Alive(s)' => Alive(s)
  /\ told' \cap Reachable' \subseteq Reachable
  /\ \A g \in Groups, s \in Sessions : groups'[g].focused = s /\ Alive(s) => Alive(s)'

LEMMA FlagsSteady ==
  ASSUME TypeOK, FlagInv, Lives, Steady
  PROVE  AllGrouped' /\ FocusFlagMatches' /\ ToldMeansFocused'
<1>1. \A g \in Groups : /\ groups'[g].focused = groups[g].focused
                        /\ groups'[g].exists = groups[g].exists
                        /\ groups'[g].blockFocus => groups[g].blockFocus
  BY DEF Steady, Lowered, Prepared, SameGroups
<1>2. AllGrouped'
  BY <1>1 DEF AllGrouped, FlagInv, Lives
<1>3. \A s \in Sessions : /\ Group(s) \in Groups /\ Group(s)' = Group(s)
                          /\ HasGroup(s) /\ HasGroup(s)'
                          /\ FocusedAt(s)' = FocusedAt(s)
  BY <1>1, GroupedTyped, DisplaysAssumption DEF TypeOK, FlagInv, Lives, Group, HasGroup, FocusedAt
<1>4. FocusFlagMatches'
  <2>1. ASSUME NEW g \in Groups, groups'[g].focused # NoSession
        PROVE  (Alive(groups[g].focused) /\ Group(groups[g].focused) = g)'
    <3>1. Alive(groups[g].focused) /\ Group(groups[g].focused) = g
      BY <1>1, <2>1 DEF FlagInv, FocusFlagMatches
    <3>2. groups[g].focused \in Sessions
      BY <1>1, <2>1 DEF TypeOK, FocusOK, FocusGroups, Ids
    <3> DEFINE s == groups[g].focused
    <3>3. Alive(s)' /\ Group(s)' = g
      BY <1>1, <1>3, <2>1, <3>1, <3>2 DEF Lives
    <3> QED
      BY <1>1, <3>3 DEF Alive, Group
  <2>2. ASSUME NEW s \in Sessions, Alive(s)'
        PROVE  s \in isFocused' <=> HasGroup(s)' /\ s = FocusedAt(s)'
    <3>1. Alive(s)
      BY <2>2 DEF Lives
    <3> QED
      BY <1>3, <3>1 DEF FlagInv, FocusFlagMatches, Steady
  <2> QED
    BY <2>1, <2>2 DEF FocusFlagMatches
<1>5. ToldMeansFocused'
  <2> SUFFICES ASSUME NEW s \in told' \cap Reachable'
               PROVE  s \in isFocused' /\ ~groups'[Group(s)'].blockFocus
    BY DEF ToldMeansFocused
  <2>1. s \in Reachable /\ s \in Sessions /\ Alive(s)
    BY SessionsAssumption DEF Lives, Reachable, Apps, Alive
  <2>2. CASE s \in told
    BY <1>1, <1>3, <2>1, <2>2 DEF FlagInv, ToldMeansFocused, Steady
  <2>3. CASE s \notin told
    <3>1. HasGroup(s) /\ s = FocusedAt(s) /\ ~groups'[Group(s)].blockFocus
      BY <2>3 DEF Steady
    <3>2. s \in isFocused
      BY <2>1, <3>1 DEF FlagInv, FocusFlagMatches
    <3> QED
      BY <1>3, <2>1, <3>1, <3>2 DEF Steady
  <2> QED
    BY <2>2, <2>3
<1> QED
  BY <1>2, <1>4, <1>5

LEMMA FlagsShifted ==
  ASSUME TypeOK, FlagInv, Lives, NEW g \in Groups, NEW next \in Ids, Shifted(g, next)
  PROVE  AllGrouped' /\ FocusFlagMatches' /\ ToldMeansFocused'
<1> DEFINE prev == groups[g].focused
<1>1. /\ groups'[g].focused = next
      /\ \A h \in Groups \ {g} : /\ groups'[h].focused = groups[h].focused
                                 /\ groups'[h].blockFocus => groups[h].blockFocus
      /\ \A h \in Groups : groups'[h].exists = groups[h].exists
  BY DEF Shifted, Keeps, Remembers
<1>2. AllGrouped'
  BY <1>1 DEF AllGrouped, FlagInv, Lives
<1>3. \A s \in Sessions : /\ Group(s) \in Groups /\ Group(s)' = Group(s)
                          /\ HasGroup(s) /\ HasGroup(s)'
                          /\ FocusedAt(s) = groups[Group(s)].focused
                          /\ FocusedAt(s)' = groups'[Group(s)].focused
  BY <1>1, GroupedTyped, DisplaysAssumption DEF TypeOK, FlagInv, Lives, Group, HasGroup, FocusedAt
<1>4. \A s \in Sessions : Alive(s) => (s \in isFocused <=> s = groups[Group(s)].focused)
  BY <1>3 DEF FlagInv, FocusFlagMatches
<1>5. \A s \in Sessions : Alive(s) => (s \in isFocused' <=> s = groups'[Group(s)].focused)
  <2> SUFFICES ASSUME NEW s \in Sessions, Alive(s)
               PROVE  s \in isFocused' <=> s = groups'[Group(s)].focused
    OBVIOUS
  <2>1. s \in isFocused' <=> (s \in isFocused /\ s # prev) \/ s = next
    BY SessionsAssumption DEF Shifted, LosesFocus, GainsFocus
  <2>2. next # NoSession => Group(next) = g
    BY DEF Shifted, MayGet
  <2>3. CASE Group(s) = g
    BY <1>1, <1>4, <2>1, <2>3
  <2>4. CASE Group(s) # g
    <3>1. s # next
      BY <2>2, <2>4, SessionsAssumption
    <3>2. s # prev
      BY <2>4, SessionsAssumption DEF FlagInv, FocusFlagMatches
    <3> QED
      BY <1>1, <1>3, <1>4, <2>1, <2>4, <3>1, <3>2
  <2> QED
    BY <2>3, <2>4
<1>6. FocusFlagMatches'
  <2>1. ASSUME NEW h \in Groups, groups'[h].focused # NoSession
        PROVE  (Alive(groups[h].focused) /\ Group(groups[h].focused) = h)'
    <3> DEFINE s == groups'[h].focused
    <3>1. s \in Sessions /\ Alive(s) /\ Group(s) = h
      <4>1. CASE h = g
        BY <1>1, <2>1, <4>1 DEF Shifted, MayGet
      <4>2. CASE h # g
        <5>1. groups[h].focused \in Ids
          BY DEF TypeOK, FocusOK, FocusGroups
        <5> QED
          BY <1>1, <2>1, <4>2, <5>1 DEF FlagInv, FocusFlagMatches, Ids
      <4> QED
        BY <4>1, <4>2
    <3>2. state'[s] # "gone" /\ groupOf'[display'[s]] = h
      BY <1>3, <2>1, <3>1 DEF Lives, Alive, Group
    <3> QED
      BY <2>1, <3>2 DEF Alive, Group
  <2>2. ASSUME NEW s \in Sessions, Alive(s)'
        PROVE  s \in isFocused' <=> HasGroup(s)' /\ s = FocusedAt(s)'
    <3>1. Alive(s)
      BY <2>2 DEF Lives
    <3> QED
      BY <1>3, <1>5, <3>1
  <2> QED
    BY <2>1, <2>2 DEF FocusFlagMatches
<1>7. ToldMeansFocused'
  <2> SUFFICES ASSUME NEW s \in told' \cap Reachable'
               PROVE  s \in isFocused' /\ ~groups'[Group(s)'].blockFocus
    BY DEF ToldMeansFocused
  <2>1. s \in Reachable /\ s \in Sessions /\ Alive(s)
    BY SessionsAssumption DEF Lives, Reachable, Apps, Alive
  <2>2. s \in told => s \in isFocused /\ ~groups[Group(s)].blockFocus /\ s = groups[Group(s)].focused
    BY <1>4, <2>1 DEF FlagInv, ToldMeansFocused
  <2>3. Tells(g, next)
    BY DEF Shifted
  <2>4. s \in told => Group(s) # g
    <3> SUFFICES ASSUME s \in told, Group(s) = g PROVE FALSE
      OBVIOUS
    <3>1. s = prev /\ ~groups[g].blockFocus
      BY <2>2
    <3> QED
      BY <2>1, <2>3, <3>1 DEF Tells
  <2>5. CASE s \in told
    <3>1. s = groups'[Group(s)].focused /\ ~groups'[Group(s)].blockFocus
      BY <1>1, <1>3, <2>1, <2>2, <2>4, <2>5
    <3> QED
      BY <1>3, <1>5, <2>1, <3>1
  <2>6. CASE s \notin told
    <3>1. s = next /\ ~groups'[g].blockFocus
      BY <2>3, <2>6 DEF Tells, GainsFocus
    <3>2. Group(s) = g
      BY <2>1, <3>1, SessionsAssumption DEF Shifted, MayGet
    <3> QED
      BY <1>1, <1>3, <1>5, <2>1, <3>1, <3>2
  <2> QED
    BY <2>5, <2>6
<1> QED
  BY <1>2, <1>6, <1>7
\* A session that is destroyed has given up every focus before it is erased.
LEMMA DestroyedUnfocused ==
  ASSUME TypeOK, BasicInv, FlagInv, NEW s \in Sessions, Alive(s), UnfocusOrNot(s), NEW g \in Groups
  PROVE  groups'[g].focused # s
<1> USE DEF TypeOK
<1>1. /\ Group(s) \in Groups /\ HasGroup(s)
      /\ \A h \in Groups : groups[h].focused = s => h = Group(s)
  BY GroupedTyped, SessionsAssumption DEF FlagInv, FocusFlagMatches
<1>2. CASE UnfocusGranted(s)
  <2>1. s = groups[Group(s)].focused /\ UnfocusSession(s)
    BY <1>2 DEF UnfocusGranted, FocusedAt, UnfocusOrNot
  <2>2. ASSUME NEW next, Shifted(Group(s), next), next # s
        PROVE  groups'[g].focused # s
    BY <1>1, <2>1, <2>2 DEF Shifted, Keeps
  <2>3. ASSUME NEW t \in {groups[Group(s)].last, groups[Group(s)].lastApp},
               t \in Sessions, OwnRequest(t)
        PROVE  groups'[g].focused # s
    <3>1. DisplayGroup[display[t]] = Group(s)
      BY <1>1, <2>3, SessionsAssumption DEF FlagInv, KnownInGroup, Knows
    <3>2. Group(t) = Group(s) /\ Shifted(Group(t), t)
      BY <2>3, <3>1, GroupedTyped DEF OwnRequest, FlagInv
    <3>3. t # s
      BY <2>1, <3>2 DEF Shifted
    <3> QED
      BY <2>2, <3>2, <3>3
  <2> QED
    BY <1>2, <2>1, <2>2, <2>3, UnfocusSessionShifted, NextFocusableMayGet
<1>3. CASE ~UnfocusGranted(s)
  <2>1. UNCHANGED groups
    BY <1>3 DEF UnfocusOrNot, focusVars
  <2>2. s # groups[Group(s)].focused
    BY <1>1, <1>3 DEF UnfocusGranted, FocusedAt
  <2> QED
    BY <1>1, <2>1, <2>2
<1> QED
  BY <1>2, <1>3

LEMMA LivesStep ==
  ASSUME TypeOK, BasicInv, FlagInv, Next, UNCHANGED <<groupOf, display>>
  PROVE  Lives
<1> USE DEF TypeOK
<1>1. \A s \in Sessions : Alive(s)' => Alive(s)
  BY GoneForGood
<1>2. CASE UNCHANGED state
  BY <1>1, <1>2 DEF Lives, Reachable, Alive
<1>3. ASSUME NEW s \in Sessions, Connect(s) PROVE Lives
  <2>1. state' = [state EXCEPT ![s] = "connect"] /\ s \notin told'
    BY <1>3 DEF Connect
  <2> QED
    BY <1>1, <2>1 DEF Lives, Reachable, Alive, WindowsOK
<1>4. ASSUME NEW s \in Sessions, ToForeground(s) \/ ToBackground(s) PROVE Lives
  <2>1. /\ state[s] \notin {"disconnect", "gone"} /\ s \in Apps
        /\ \E new \in {"foreground", "background"} : state' = [state EXCEPT ![s] = new]
    BY <1>4 DEF ToForeground, ToBackground
  <2> QED
    BY <1>1, <2>1 DEF Lives, Reachable, Alive, WindowsOK
<1>5. ASSUME NEW new \in {"disconnect", "gone"}, Disconnect(new) PROVE Lives
  <2>1. /\ subject \in Sessions /\ Alive(subject) /\ UnfocusOrNot(subject)
        /\ state' = [state EXCEPT ![subject] = new]
    BY <1>5 DEF Disconnect, TasksOK, Alive, Ids
  <2>2. \A g \in Groups : groups'[g].focused # subject
    BY <2>1, DestroyedUnfocused
  <2>3. \A s \in Sessions : s # subject /\ Alive(s) => Alive(s)'
    BY <2>1 DEF Alive, WindowsOK
  <2>4. Reachable' \subseteq Reachable
    BY <2>1 DEF Reachable, WindowsOK
  <2> QED
    BY <1>1, <2>2, <2>3, <2>4 DEF Lives
<1>6. \/ UNCHANGED state
      \/ \E s \in Sessions : Connect(s) \/ ToForeground(s) \/ ToBackground(s)
      \/ \E new \in {"disconnect", "gone"} : Disconnect(new)
  BY DEF Next, windowVars, AskFocus, AskUnfocus, AskImmediatelyBySCB, MoveUpBySCB, AskBySCB,
     Activate, Destroy, PostProcessFocus, DelayFocusChange, PostProcessRequest, Processed,
     MoveToDisplay, AllAppUnfocus, OnForeground, OnBackground, AddFocusGroup,
     RemoveFocusGroup, FlushUIParams
<1> QED
  BY <1>2, <1>3, <1>4, <1>5, <1>6

LEMMA FlagStep ==
  ASSUME Settled, TypeOK, BasicInv, FlagInv, [Next]_vars
  PROVE  FlagInv'
<1>1. KnownInGroup'
  BY KnownStep DEF Settled, FlagInv
<1>2. CASE UNCHANGED vars
  <2>1. UNCHANGED <<windowVars, groupOf, focusVars>>
    BY <1>2 DEF vars
  <2> QED
    BY <1>1, <2>1 DEF windowVars, focusVars, FlagInv, AllGrouped, FocusFlagMatches, ToldMeansFocused,
       Alive, Group, HasGroup, FocusedAt, Reachable
<1>3. CASE Next
  <2>1. (Moved \/ Steady) /\ UNCHANGED <<groupOf, display>>
    BY <1>3, MoveStep, PlugEffect DEF Settled, BasicInv, TypeOK
  <2>2. Lives
    BY <1>3, <2>1, LivesStep
  <2>3. CASE Steady
    BY <1>1, <2>2, <2>3, FlagsSteady DEF FlagInv
  <2>4. CASE Moved
    <3>1. PICK g \in Groups, next \in Ids : Shifted(g, next)
      BY <2>4 DEF Moved, Requested, Given, Ids
    <3> QED
      BY <1>1, <2>2, <3>1, FlagsShifted DEF FlagInv
  <2> QED
    BY <2>1, <2>3, <2>4
<1> QED
  BY <1>2, <1>3

LEMMA FlagCorrect ==
  ASSUME Settled
  PROVE  Spec => []FlagInv
<1>1. Init => FlagInv
  <2> SUFFICES ASSUME Init PROVE FlagInv
    OBVIOUS
  <2>1. \A g \in Groups : /\ groups[g].exists
                          /\ groups[g].focused = NoSession
                          /\ groups[g].last = NoSession /\ groups[g].lastApp = NoSession
    BY DEF Init, NewGroup, Groups
  <2>2. AllGrouped
    BY <2>1 DEF Init, AllGrouped
  <2>3. KnownInGroup
    BY <2>1 DEF KnownInGroup, Knows
  <2>4. WindowsOK
    BY InitTyped DEF TypeOK
  <2>5. \A s \in Sessions : FocusedAt(s) = NoSession
    BY <2>1, <2>2, <2>4, GroupedTyped DEF FocusedAt
  <2>6. FocusFlagMatches
    BY <2>1, <2>5, SessionsAssumption DEF Init, FocusFlagMatches
  <2>7. ToldMeansFocused
    BY DEF Init, ToldMeansFocused
  <2> QED
    BY <2>2, <2>3, <2>6, <2>7 DEF FlagInv
<1>2. TypeOK /\ BasicInv /\ FlagInv /\ [Next]_vars => FlagInv'
  BY FlagStep
<1> QED
  BY <1>1, <1>2, TypeCorrect, BasicCorrect, PTL DEF Spec

\* While displays and sessions stay where they are, isFocused_ of the sessions and
\* the focused ids of the groups agree, whatever is asked, flushed, started and
\* erased; any number of displays and groups.
THEOREM FlagsCorrect ==
  ASSUME Settled
  PROVE  Spec => []FocusFlagMatches
<1>1. FlagInv => FocusFlagMatches
  BY DEF FlagInv
<1> QED
  BY <1>1, FlagCorrect, PTL

\* Under the same condition, a client that was told that it is focused is the
\* focused one, and its group holds nothing back.
THEOREM ToldCorrect ==
  ASSUME Settled
  PROVE  Spec => []ToldMeansFocused
<1>1. FlagInv => ToldMeansFocused
  BY DEF FlagInv
<1> QED
  BY <1>1, FlagCorrect, PTL
=============================================================================
