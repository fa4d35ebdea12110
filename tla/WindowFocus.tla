---------------------------- MODULE WindowFocus ----------------------------
(***************************************************************************)
(* The focus of SceneSessionManager: which session of each display group    *)
(* has the focus, who is told of it and which sessions are highlighted.     *)
(*                                                                         *)
(* All of it runs in the tasks of one scheduler thread, one task at a time. *)
(* A task that goes on after it called into the focus code (a state change  *)
(* of a session, its destruction, the post-processing of a UI flush) leaves *)
(* the rest in task, subject and todo, and nothing else runs before that    *)
(* rest is done.                                                            *)
(*                                                                         *)
(* Modelled are a PC device with the scene board core enabled, main windows *)
(* of apps, and the scene board's own system windows, all of them focusable *)
(* and focused on show; no sub-windows, dialogs or topmost windows.  The    *)
(* default display stays connected.                                         *)
(***************************************************************************)
EXTENDS Naturals

CONSTANTS
  Sessions,       \* the sessions in sceneSessionMap_
  NoSession,      \* INVALID_SESSION_ID
  Kind,           \* the kind of window of each session
  Blocking,       \* system sessions with blockingFocus_
  Shared,         \* system sessions that are not exclusivelyHighlighted
  Displays,
  DefaultDisplay, \* DEFAULT_DISPLAY_ID
  DisplayGroup,   \* the display group of each display's screen session
  NoGroup,        \* DISPLAY_ID_INVALID as a display group
  ZOrders,        \* the zOrders the scene board may give to each session
  Ops             \* what may happen besides state changes and flushes

Kinds == {"app", "floating", "desktop", "keyguard", "panel", "popup"}
Apps == {s \in Sessions : Kind[s] \in {"app", "floating"}}
System == Sessions \ Apps
DefaultGroup == DisplayGroup[DefaultDisplay]
Groups == {DisplayGroup[d] : d \in Displays}
AllOps == {"START", "ASK", "SCB_FOREGROUND", "SCB_MOVE_UP", "SCB", "UNFOCUS",
            "ALL_APP_UNFOCUS", "DESTROY", "MOVE", "PLUG"}

ASSUME SessionsAssumption == /\ NoSession \notin Sessions
                             /\ Kind \in [Sessions -> Kinds]
                             /\ Blocking \subseteq System
                             /\ Shared \subseteq System
                             /\ ZOrders \in [Sessions -> SUBSET (Nat \ {0})]
                             /\ Ops \subseteq AllOps
ASSUME DisplaysAssumption == /\ DefaultDisplay \in Displays
                             /\ DisplayGroup \in [Displays -> Groups]
                             /\ NoGroup \notin Groups

VARIABLES
  state,        \* SessionState of each session, "gone" when it was erased
  visible,      \* sessions with isVisible_
  z,            \* zOrder_ of each session, kept when the session is hidden
  display,      \* display of each session
  starting,     \* sessions with isStarting_
  post,         \* postProcessFocusState_ of each session
  groupOf,      \* displayId2GroupIdMap_ and deletedDisplayId2GroupIdMap_
  groups,       \* focusGroupMap_
  isFocused,    \* sessions with isFocused_
  told,         \* sessions whose client was last told that it is focused
  highlighted,  \* sessions with isHighlighted_
  highlightIds, \* highlightIds_
  lit,          \* sessions whose client was last told that it is highlighted
  task,         \* what the running task still has to do
  subject,      \* the session it has to do it with
  todo,         \* processingSessions of PostProcessFocus
  shifted,      \* focusChangedSet of PostProcessFocus
  moved         \* history: groups whose focus the current flush changed

windowVars == <<state, visible, z, display, starting>>
focusVars == <<groups, isFocused, told, highlighted, highlightIds, lit>>
taskVars == <<task, subject, todo, shifted, moved>>
vars == <<windowVars, post, groupOf, focusVars, taskVars>>

States == {"disconnect", "connect", "foreground", "background", "gone"}
Posts == {"none", "start", "focus", "focusBehind", "unfocus"}
Tasks == {"none", "foreground", "background", "disconnect", "post"}

\* A FocusGroup; one that is not in focusGroupMap_ has exists = FALSE.  blockFocus
\* is needBlockNotifyFocusStatusUntilForeground_.
NewGroup(ds) ==
  [exists |-> ds # {}, displays |-> ds, focused |-> NoSession, last |-> NoSession,
   lastApp |-> NoSession, blockFocus |-> FALSE]

Init ==
  /\ state = [s \in Sessions |-> "disconnect"]
  /\ visible = {}
  /\ z = [s \in Sessions |-> 0]
  /\ display \in [Sessions -> Displays]
  /\ starting = {}
  /\ post = [s \in Sessions |-> "none"]
  /\ groupOf = DisplayGroup
  /\ groups = [g \in Groups |-> NewGroup({d \in Displays : DisplayGroup[d] = g})]
  /\ isFocused = {} /\ told = {}
  /\ highlighted = {} /\ highlightIds = {} /\ lit = {}
  /\ task = "none" /\ subject = NoSession
  /\ todo = {} /\ shifted = {} /\ moved = {}

-----------------------------------------------------------------------------
Alive(s) == s # NoSession /\ state[s] # "gone"
Foreground(s) == state[s] = "foreground"

\* An SCBSystemSession only has to be visible.
VisibleForeground(s) == Alive(s) /\ s \in visible /\ (s \in System \/ Foreground(s))
VisibleNotBackground(s) ==
  Alive(s) /\ s \in visible /\ (s \in System \/ state[s] # "background")

\* Session::NotifyFocusStatus reaches the clients of app sessions only.
Reachable == {s \in Apps : state[s] \notin {"disconnect", "gone"}}

\* GetDisplayGroupId of the session's display, and its focus group.
Group(s) == groupOf[display[s]]
HasGroup(s) == Group(s) # NoGroup /\ groups[Group(s)].exists
FocusedAt(s) == groups[Group(s)].focused
SameGroup(s) == {t \in Sessions : Alive(t) /\ Group(t) = Group(s)}

\* What a traversal of the sessions by zOrder may stop at: the topmost of S.  The
\* sessions of S that tie with the session where it starts may come on either
\* side of it.
Topmost(S, tied) ==
  {s \in S : \A t \in S \ tied : z[t] <= z[s]}
    \cup (IF S \ tied = {} THEN {NoSession} ELSE {})

\* GetNextFocusableSession.
NextFocusableOrItself(s) ==
  LET below == {t \in SameGroup(s) : z[t] <= z[s] /\ VisibleNotBackground(t)}
  IN Topmost(below, {t \in below : z[t] = z[s]})
NextFocusable(s) ==
  LET below == {t \in SameGroup(s) \ {s} : z[t] <= z[s] /\ VisibleNotBackground(t)}
  IN Topmost(below, {t \in below : z[t] = z[s]})

\* GetTopFocusableNonAppSession stops at the lowest app that has a zOrder, shown
\* or not.
TopFocusableNonApp ==
  LET inGroup == {t \in Sessions : Alive(t) /\ Group(t) = DefaultGroup}
      apps == {a \in inGroup \cap Apps : z[a] # 0}
      below == {t \in inGroup \cap System :
                  VisibleForeground(t) /\ \A a \in apps : z[t] <= z[a]}
  IN Topmost(below, {t \in below : \E a \in apps : z[t] = z[a]})

-----------------------------------------------------------------------------
(* ShiftFocus.                                                             *)

\* UpdateHighlightStatus: RemoveHighlightSessionIds, then SetHighlightSessionIds
\* or, for a system window that shares the highlight, AddHighlightSessionIds.
\* The flag that blocks the notification reaches Session::UpdateHighlightStatus
\* as the flag that asks for it.
SetsAlone(next) == next \notin Shared

\* The sessions that SetHighlightSessionIds takes the highlight from.
TurnedOffNone(next) == {}
TurnedOff(next) == IF SetsAlone(next) THEN highlightIds \ {next} ELSE {}

UpdateHighlightStatus(prev, next, proactive, blocked) ==
  LET dropped == {s \in {prev} \cap highlightIds : proactive /\ Alive(s)}
      kept == highlighted \ dropped
  IN IF next = NoSession
     THEN /\ highlighted' = kept
          /\ highlightIds' = highlightIds \ dropped
          /\ UNCHANGED lit
     ELSE /\ highlighted' = {next} \cup (kept \ TurnedOff(next))
          /\ highlightIds' = {next} \cup (IF SetsAlone(next) THEN {} ELSE highlightIds \ dropped)
          /\ lit' = lit \cup {s \in {next} \cap Reachable : blocked /\ s \notin kept}

\* UpdateFocusStatus of the focused session and of the next one: those that exist.
LosesFocus(prev) == {s \in {prev} : Alive(s)}
GainsFocusUnchecked(next) == {next}
GainsFocus(next) == {next} \ {NoSession}

\* gs are the groups with the flags as the caller set them; blockUnfocus is
\* needBlockNotifyUnfocusStatus_, which every caller sets before it is read here.
ShiftFocus(gs, g, next, proactive, blockUnfocus) ==
  LET prev == gs[g].focused
      lost == LosesFocus(prev)
      gained == GainsFocus(next)
  IN /\ groups' = [gs EXCEPT
           ![g].focused = next,
           ![g].last = IF next = prev THEN @ ELSE prev,
           ![g].lastApp = IF next = NoSession THEN NoSession
                          ELSE IF next \in Apps \/ Kind[next] = "desktop" THEN next ELSE @]
     /\ isFocused' = (isFocused \ lost) \cup gained
     /\ told' = (IF blockUnfocus THEN told ELSE told \ (lost \cap Reachable))
                  \cup (IF gs[g].blockFocus THEN {} ELSE gained \cap Reachable)
     /\ UpdateHighlightStatus(prev, next, proactive, gs[g].blockFocus)

-----------------------------------------------------------------------------
(* The checks of a focus request.                                          *)

\* CheckFocusIsDownThroughBlockingType: a blocking session lies above s and not
\* above the focused session f.
DownThroughBlocking(s, f) ==
  \E b \in SameGroup(s) :
    /\ VisibleForeground(b) /\ (b \in Blocking \/ b \in Apps)
    /\ z[s] < z[b] /\ z[b] <= z[f]

\* RequestFocusSpecificCheck.
SpecificCheckNoKeyguard(s, byForeground, click) ==
  LET f == FocusedAt(s)
  IN Alive(f) =>
       /\ byForeground => ~DownThroughBlocking(s, f)
       /\ (click /\ Kind[f] = "app") => z[s] >= z[f]
SpecificCheck(s, byForeground, click) ==
  LET f == FocusedAt(s)
  IN Alive(f) =>
       /\ byForeground => ~DownThroughBlocking(s, f)
       /\ (Kind[f] = "keyguard" /\ f \in Blocking) => z[s] >= z[f]
       /\ (click /\ Kind[f] = "app") => z[s] >= z[f]

\* RequestFocusBasicCheck.
BasicCheck(s) == Alive(s) /\ HasGroup(s) /\ s # FocusedAt(s)

FocusGranted(s, byForeground, click) ==
  BasicCheck(s) /\ VisibleForeground(s) /\ SpecificCheck(s, byForeground, click)

\* The focus that a blocked group hands over was never told, so the loss of it
\* is not told either: blockFocus becomes blockUnfocus.
StillBlocked(gs, g) == gs
Unblocked(gs, g) == [gs EXCEPT ![g].blockFocus = FALSE]

\* RequestSessionFocus when all checks pass.
FocusSession(gs, s) ==
  ShiftFocus(Unblocked(gs, Group(s)), Group(s), s, FALSE, gs[Group(s)].blockFocus)

\* RequestSessionFocusImmediately.
ImmediateGranted(s) == BasicCheck(s) /\ SpecificCheck(s, TRUE, FALSE)
FocusImmediately(s) ==
  LET g == Group(s)
      gs == [groups EXCEPT ![g].blockFocus = @ \/ (s \in Apps /\ ~VisibleForeground(s))]
  IN ShiftFocus(gs, g, s, FALSE, groups[g].blockFocus)

\* RequestSessionUnfocus: its early returns, and what it does after them.
UnfocusGranted(s) == Alive(s) /\ HasGroup(s) /\ s = FocusedAt(s)

BackToDesktop(s) ==
  LET last == groups[Group(s)].last
  IN /\ Kind[s] = "popup"
     /\ Alive(last) /\ Kind[last] = "desktop"
     /\ FocusGranted(last, FALSE, FALSE)

\* CheckLastFocusedAppSessionFocus: is the last focused app asked, and the
\* groups after it was refused.
AsksLastApp(s, next) ==
  LET last == groups[Group(s)].lastApp
  IN /\ next # NoSession /\ last \notin {NoSession, next}
     /\ Kind[s] = "panel" /\ Kind[next] = "floating"

UnfocusTo(s, next) ==
  LET g == Group(s)
      last == groups[g].lastApp
      gs == Unblocked(groups, g)
      refused == IF AsksLastApp(s, next) THEN [gs EXCEPT ![g].lastApp = NoSession] ELSE gs
  IN IF AsksLastApp(s, next) /\ FocusGranted(last, FALSE, FALSE)
     THEN FocusSession(gs, last)
     ELSE ShiftFocus([refused EXCEPT ![g].blockFocus =
                        next # NoSession /\ next \in Apps /\ ~Foreground(next)],
                     g, next, TRUE, groups[g].blockFocus)

UnfocusSession(s) ==
  IF BackToDesktop(s)
  THEN FocusSession(groups, groups[Group(s)].last)
  ELSE \E next \in NextFocusable(s) : UnfocusTo(s, next)

FocusOrNot(s, byForeground, click) ==
  IF FocusGranted(s, byForeground, click)
  THEN FocusSession(groups, s) ELSE UNCHANGED focusVars
UnfocusOrNot(s) ==
  IF UnfocusGranted(s) THEN UnfocusSession(s) ELSE UNCHANGED focusVars

-----------------------------------------------------------------------------
(* Focus requests.                                                         *)

Idle == task = "none"
SetPost(s, p) == post' = [post EXCEPT ![s] = p]

\* RequestFocusStatus, RequestFocusStatusBySA, RaiseWindowToTop and
\* ShiftAppWindowFocus.
AskFocus(s, byForeground, click) ==
  /\ Idle /\ "ASK" \in Ops
  /\ FocusGranted(s, byForeground, click)
  /\ FocusSession(groups, s)
  /\ UNCHANGED <<windowVars, post, groupOf, taskVars>>

AskUnfocus(s) ==
  /\ Idle /\ "UNFOCUS" \in Ops
  /\ UnfocusGranted(s)
  /\ UnfocusSession(s)
  /\ UNCHANGED <<windowVars, post, groupOf, taskVars>>

\* RequestFocusStatusBySCB with the reasons FOREGROUND, MOVE_UP and others; a
\* request that fails is tried again when the next flush is post-processed.
AskImmediatelyBySCB(s) ==
  /\ Idle /\ "SCB_FOREGROUND" \in Ops
  /\ ImmediateGranted(s)
  /\ FocusImmediately(s)
  /\ UNCHANGED <<windowVars, post, groupOf, taskVars>>

MoveUpBySCB(s) ==
  /\ Idle /\ "SCB_MOVE_UP" \in Ops
  /\ Alive(s) /\ s \notin isFocused
  /\ SetPost(s, "focus")
  /\ UNCHANGED <<windowVars, groupOf, focusVars, taskVars>>

AskBySCB(s, byForeground) ==
  /\ Idle /\ "SCB" \in Ops
  /\ Alive(s)
  /\ FocusOrNot(s, byForeground, FALSE)
  /\ \E p \in (IF byForeground THEN {"focus"} ELSE {"focus", "focusBehind"}) :
       IF ~FocusGranted(s, byForeground, FALSE) /\ s \notin isFocused
       THEN SetPost(s, p) ELSE UNCHANGED post
  /\ UNCHANGED <<windowVars, groupOf, taskVars>>

\* RequestAllAppSessionUnfocusInner.
AllAppUnfocus ==
  LET f == groups[DefaultGroup].focused
  IN /\ Idle /\ "ALL_APP_UNFOCUS" \in Ops
     /\ Alive(f) /\ f \in Apps
     /\ \E next \in TopFocusableNonApp :
          ShiftFocus(Unblocked(groups, DefaultGroup), DefaultGroup, next, TRUE,
                     groups[DefaultGroup].blockFocus)
     /\ UNCHANGED <<windowVars, post, groupOf, taskVars>>

-----------------------------------------------------------------------------
(* Starting an app, and the state changes of its session.                  *)

Proceed(next, s) == task' = next /\ subject' = s /\ UNCHANGED <<todo, shifted, moved>>

\* RequestSceneSessionActivationInner.
Activate(s) ==
  /\ Idle /\ "START" \in Ops
  /\ s \in Apps /\ Alive(s)
  /\ starting' = starting \cup {s}
  /\ IF ~VisibleForeground(s)
     THEN SetPost(s, "start") /\ UNCHANGED focusVars
     ELSE /\ IF ImmediateGranted(s) THEN FocusImmediately(s) ELSE UNCHANGED focusVars
          /\ UNCHANGED post
  /\ UNCHANGED <<state, visible, z, display, groupOf, taskVars>>

\* Session::ConnectInner: a new client, which was told nothing.
Connect(s) ==
  /\ Idle /\ s \in Apps /\ state[s] = "disconnect"
  /\ state' = [state EXCEPT ![s] = "connect"]
  /\ told' = told \ {s} /\ lit' = lit \ {s}
  /\ UNCHANGED <<visible, z, display, starting, post, groupOf, groups, isFocused,
                 highlighted, highlightIds, taskVars>>

\* Session::Foreground and Session::Background.
ToForeground(s) ==
  /\ Idle /\ s \in Apps /\ state[s] \in {"connect", "background"}
  /\ state' = [state EXCEPT ![s] = "foreground"]
  /\ starting' = starting \ {s}
  /\ Proceed("foreground", s)
  /\ UNCHANGED <<visible, z, display, post, groupOf, focusVars>>

ToBackground(s) ==
  /\ Idle /\ s \in Apps /\ state[s] = "foreground"
  /\ state' = [state EXCEPT ![s] = "background"]
  /\ starting' = starting \ {s}
  /\ Proceed("background", s)
  /\ UNCHANGED <<visible, z, display, post, groupOf, focusVars>>

\* ProcessFocusWhenForeground.  A session that got the focus before it came to
\* the foreground is told now.
ForegroundFocused(s) ==
  /\ HasGroup(s) /\ s = FocusedAt(s)
  /\ IF groups[Group(s)].blockFocus
     THEN /\ groups' = Unblocked(groups, Group(s))
          /\ told' = told \cup {s}
          /\ lit' = lit \cup {s}
     ELSE UNCHANGED <<groups, told, lit>>
  /\ UNCHANGED <<isFocused, highlighted, highlightIds, post>>

ForegroundUnfocused(s) ==
  /\ HasGroup(s) /\ s # FocusedAt(s)
  /\ IF VisibleForeground(s)
     THEN FocusOrNot(s, TRUE, FALSE) /\ UNCHANGED post
     ELSE SetPost(s, "focus") /\ UNCHANGED focusVars

OnForeground ==
  /\ task = "foreground"
  /\ IF HasGroup(subject)
     THEN ForegroundFocused(subject) \/ ForegroundUnfocused(subject)
     ELSE UNCHANGED <<focusVars, post>>
  /\ Proceed("none", NoSession)
  /\ UNCHANGED <<windowVars, groupOf>>

\* OnSessionStateChange to STATE_BACKGROUND.
OnBackground ==
  /\ task = "background"
  /\ UnfocusOrNot(subject)
  /\ Proceed("none", NoSession)
  /\ UNCHANGED <<windowVars, post, groupOf>>

\* RequestSceneSessionDestruction: unfocus, then Session::Disconnect, which passes
\* through STATE_BACKGROUND, and the session is kept or erased.
Destroy(s) ==
  /\ Idle /\ "DESTROY" \in Ops /\ Alive(s)
  /\ UnfocusOrNot(s)
  /\ Proceed("disconnect", s)
  /\ UNCHANGED <<windowVars, post, groupOf>>

Disconnect(newState) ==
  /\ task = "disconnect"
  /\ UnfocusOrNot(subject)
  /\ state' = [state EXCEPT ![subject] = newState]
  /\ starting' = starting \ {subject}
  /\ Proceed("none", NoSession)
  /\ UNCHANGED <<visible, z, display, post, groupOf>>

-----------------------------------------------------------------------------
(* FlushUIParams and PostProcessFocus.                                     *)

\* UpdateUIParam with and without parameters for the session.
FlushedPost(s, shown) ==
  CASE s \in shown \ (visible \cup isFocused) /\ post[s] = "none" ->
         IF s \in starting THEN "start" ELSE "focus"
    [] s \in (visible \cap isFocused) \ shown -> "unfocus"
    [] OTHER -> post[s]

\* ProcessUpdateLastFocusedAppId: an app of the flush came to lie above the last
\* focused app.
AppRaised(shown, newZ) ==
  LET last == groups[DefaultGroup].lastApp
      below(a) == z[a] < newZ[last] \/ (a \notin visible /\ newZ[last] > 0)
  IN Alive(last) /\ \E a \in shown \cap Apps : below(a) /\ newZ[a] > newZ[last]

\* order[s] is the zOrder of the sessions shown on display d.
FlushUIParams(d, shown, order) ==
  LET here == {s \in Sessions : Alive(s) /\ display[s] = d}
      newZ == [s \in Sessions |-> IF s \in shown THEN order[s] ELSE z[s]]
      newVisible == (visible \ here) \cup shown
      newPost == [s \in Sessions |-> IF s \in here THEN FlushedPost(s, shown) ELSE post[s]]
      toProcess == {s \in newVisible : /\ Alive(s) /\ newPost[s] # "none"
                                       /\ s \in System \/ Foreground(s)}
  IN /\ Idle /\ shown \subseteq here
     /\ visible' = newVisible
     /\ z' = newZ
     /\ post' = newPost
     /\ groups' = IF AppRaised(shown, newZ)
                  THEN [groups EXCEPT ![DefaultGroup].lastApp = NoSession]
                  ELSE groups
     /\ todo' = toProcess
     /\ task' = IF toProcess = {} THEN "none" ELSE "post"
     /\ shifted' = {} /\ moved' = {}
     /\ UNCHANGED <<state, display, starting, groupOf, isFocused, told, highlighted,
                    highlightIds, lit, subject>>

\* The comparison of PostProcessFocus.  It may hold both ways between a focus
\* request and an unfocus request above it, and std::sort is undefined then: a
\* session may come before another when a chain of comparisons says so.
Before(s, t) == z[s] > z[t] \/ (post[s] # "unfocus" /\ post[t] = "unfocus")
MayPrecede(s, t) ==
  \/ Before(s, t)
  \/ ~Before(t, s)
  \/ \E u \in todo : Before(s, u) /\ Before(u, t)
Foremost(s) == s \in todo /\ \A t \in todo \ {s} : MayPrecede(s, t)

PostGranted(s) ==
  CASE post[s] = "start" -> ImmediateGranted(s)
    [] post[s] = "focus" -> FocusGranted(s, TRUE, FALSE)
    [] post[s] = "focusBehind" -> FocusGranted(s, FALSE, FALSE)
    [] post[s] = "unfocus" -> UnfocusGranted(s)
    [] OTHER -> FALSE
PostRequest(s) ==
  CASE post[s] = "start" -> FocusImmediately(s)
    [] post[s] = "unfocus" -> UnfocusSession(s)
    [] OTHER -> FocusSession(groups, s)

\* todo, shifted and moved after s was processed.
Processed(s, newShifted) ==
  /\ todo' = todo \ {s}
  /\ IF todo' = {}
     THEN task' = "none" /\ shifted' = {} /\ moved' = {}
     ELSE /\ task' = "post"
          /\ shifted' = newShifted
          /\ moved' = moved \cup {g \in Groups : groups'[g].focused # groups[g].focused}
  /\ UNCHANGED <<windowVars, groupOf, subject>>

\* An app that starts waits until its starting window is hidden, and stays in line.
DelayFocusChange(s) ==
  /\ Group(s) \notin shifted
  /\ post[s] = "start"
  /\ UNCHANGED <<focusVars, post>>
  /\ Processed(s, shifted)

\* Only change focus one time.
PostRequestAlways(s) ==
  /\ SetPost(s, "none")
  /\ IF PostGranted(s)
     THEN PostRequest(s) /\ Processed(s, shifted)
     ELSE UNCHANGED focusVars /\ Processed(s, shifted)
PostProcessRequest(s) ==
  /\ SetPost(s, "none")
  /\ IF Group(s) \notin shifted /\ PostGranted(s)
     THEN PostRequest(s) /\ Processed(s, shifted \cup {Group(s)})
     ELSE UNCHANGED focusVars /\ Processed(s, shifted)

PostProcessFocus(s) ==
  /\ task = "post"
  /\ Foremost(s)
  /\ DelayFocusChange(s) \/ PostProcessRequest(s)

-----------------------------------------------------------------------------
(* Displays.                                                               *)

\* UpdateSessionDisplayId.
MoveToDisplay(s, d) ==
  /\ Idle /\ "MOVE" \in Ops
  /\ Alive(s)
  /\ display' = [display EXCEPT ![s] = d]
  /\ UNCHANGED <<state, visible, z, starting, post, groupOf, focusVars, taskVars>>

\* AddFocusGroup on OnScreenConnected.
AddFocusGroup(d) ==
  /\ Idle /\ "PLUG" \in Ops
  /\ groupOf[d] = NoGroup
  /\ LET g == DisplayGroup[d]
     IN /\ groupOf' = [groupOf EXCEPT ![d] = g]
        /\ groups' = [groups EXCEPT ![g] =
             IF groups[g].exists
             THEN [groups[g] EXCEPT !.displays = groups[g].displays \cup {d}]
             ELSE NewGroup({d})]
  /\ UNCHANGED <<windowVars, post, isFocused, told, highlighted, highlightIds, lit, taskVars>>

\* GetDisplayGroupId of a display in deletedDisplayId2GroupIdMap_.
DeletedToDefault == DefaultGroup
DeletedGroup == NoGroup

\* RemoveFocusGroup on OnScreenDisconnected.  It takes the display from a copy of
\* the group's set of displays.
RemoveFocusGroup(d) ==
  /\ Idle /\ "PLUG" \in Ops
  /\ d # DefaultDisplay /\ groupOf[d] # NoGroup
  /\ LET g == DisplayGroup[d]
     IN /\ groupOf' = [groupOf EXCEPT ![d] = DeletedGroup]
        /\ groups' = IF groups[g].displays \subseteq {d}
                     THEN [groups EXCEPT ![g] = NewGroup({})] ELSE groups
  /\ UNCHANGED <<windowVars, post, isFocused, told, highlighted, highlightIds, lit, taskVars>>

-----------------------------------------------------------------------------
\* The zOrders of the sessions of one flush are all different.
Orders(shown) ==
  {o \in [shown -> UNION {ZOrders[s] : s \in shown}] :
     \A s, t \in shown : o[s] \in ZOrders[s] /\ (o[s] = o[t] => s = t)}

Next ==
  \/ \E s \in Sessions :
       \/ \E fg, click \in BOOLEAN : AskFocus(s, fg, click)
       \/ AskUnfocus(s)
       \/ AskImmediatelyBySCB(s)
       \/ MoveUpBySCB(s)
       \/ \E fg \in BOOLEAN : AskBySCB(s, fg)
       \/ Activate(s) \/ Connect(s) \/ ToForeground(s) \/ ToBackground(s)
       \/ Destroy(s)
       \/ PostProcessFocus(s)
       \/ \E d \in Displays : MoveToDisplay(s, d)
  \/ AllAppUnfocus
  \/ OnForeground
  \/ OnBackground
  \/ Disconnect("disconnect")
  \/ Disconnect("gone")
  \/ \E d \in Displays :
       \/ AddFocusGroup(d)
       \/ RemoveFocusGroup(d)
       \/ \E shown \in SUBSET Sessions :
            \E order \in Orders(shown) : FlushUIParams(d, shown, order)

Spec == Init /\ [][Next]_vars

-----------------------------------------------------------------------------
(* Properties.                                                             *)

Ids == Sessions \cup {NoSession}
FocusGroups == [exists : BOOLEAN, displays : SUBSET Displays, focused : Ids,
                last : Ids, lastApp : Ids, blockFocus : BOOLEAN]

WindowsOK ==
  /\ state \in [Sessions -> States]
  /\ visible \subseteq Sessions /\ starting \subseteq Sessions
  /\ z \in [Sessions -> Nat]
  /\ display \in [Sessions -> Displays]
  /\ post \in [Sessions -> Posts]

FocusOK ==
  /\ groupOf \in [Displays -> Groups \cup {NoGroup}]
  /\ groups \in [Groups -> FocusGroups]
  /\ isFocused \subseteq Sessions /\ told \subseteq Sessions /\ lit \subseteq Sessions
  /\ highlighted \subseteq Sessions /\ highlightIds \subseteq Sessions

TasksOK ==
  /\ task \in Tasks
  /\ subject \in Ids /\ (task \in {"foreground", "background", "disconnect"} => Alive(subject))
  /\ todo \subseteq Sessions
  /\ shifted \subseteq Groups /\ moved \subseteq Groups

TypeOK == WindowsOK /\ FocusOK /\ TasksOK

\* The isFocused_ of the sessions and the focused ids of the groups agree: a
\* session says that it is focused exactly when it is the focused session of the
\* group its display belongs to, and a focused id is never that of an erased
\* session.
FocusFlagMatches ==
  /\ \A g \in Groups :
       groups[g].focused # NoSession =>
         /\ Alive(groups[g].focused)
         /\ Group(groups[g].focused) = g
  /\ \A s \in Sessions :
       Alive(s) => (s \in isFocused <=> HasGroup(s) /\ s = FocusedAt(s))

\* A client that was told that its window is focused is told when it loses the
\* focus, although UpdateFocusStatus holds back notifications of both kinds; and
\* while a group holds back the news of a focus, its focused client has not
\* been told.
ToldMeansFocused ==
  \A s \in told \cap Reachable : s \in isFocused /\ ~groups[Group(s)].blockFocus

\* The isHighlighted_ of the sessions and the set highlightIds_ agree on what is
\* highlighted, although they are updated by different calls; and when there is
\* one group only, its focused session is highlighted.
HighlightMatches ==
  \A s \in Sessions :
    Alive(s) => /\ s \in highlighted <=> s \in highlightIds
                /\ Groups = {DefaultGroup} /\ s \in isFocused => s \in highlighted

\* However displays come and go and sessions move between them, the focus of a
\* group passes to sessions on the displays of that group only: a session on a
\* display that was unplugged takes nothing from the default group.
PassedInGroup ==
  \A g \in Groups :
    LET next == groups'[g].focused
    IN next \notin {groups[g].focused, NoSession} =>
         DisplayGroup[display[next]] = g /\ groupOf[display[next]] = g
FocusStaysInGroup == [][PassedInGroup]_vars

\* PostProcessFocus: "only change focus one time".  However many sessions were
\* shown, hidden and started, one flush changes the focus of a group once.
NotShiftedAgain ==
  \A g \in Groups :
    task = "post" /\ groups'[g].focused # groups[g].focused => g \notin moved
OneShiftPerFlush == [][NotShiftedAgain]_vars

\* While a keyguard has the focus, no session below it takes the focus: the
\* keyguard gives it up itself, is destroyed or hidden, or the session lies above.
KeyguardGivesUp(k) ==
  \/ AskUnfocus(k)
  \/ Destroy(k)
  \/ task = "disconnect" /\ subject = k
  \/ task = "post" /\ post[k] = "unfocus"
KeyguardNotOvertaken ==
  \A g \in Groups :
    LET k == groups[g].focused
        next == groups'[g].focused
    IN Alive(k) /\ Kind[k] = "keyguard" /\ k \in Blocking /\ next \notin {k, NoSession}
         => z[next] >= z[k] \/ KeyguardGivesUp(k)
KeyguardKeepsFocus == [][KeyguardNotOvertaken]_vars

\* window.h on IWindowLifeCycle::AfterFocused: "Notify caller that window is
\* focused."  The client of an app window that has the focus and is in the
\* foreground and visible has been told.
FocusedForegroundTold ==
  Idle => \A s \in isFocused \cap Apps : VisibleForeground(s) => s \in told

\* window.h on IWindowHighlightChangeListener: "Notify caller when highlight
\* status changes."  What the client of an app in the foreground was told last is
\* whether its window is highlighted.
HighlightTold ==
  Idle => \A s \in Apps : Foreground(s) => (s \in lit <=> s \in highlighted)
=============================================================================
