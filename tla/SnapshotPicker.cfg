\* Two clients; the picker may answer anything, die, or lose its connection.
SPECIFICATION FairSpec
CONSTANTS
  c1 = c1
  c2 = c2
  r1 = r1
  noRect = noRect
  Clients = {c1, c2}
  Screens = {0, 1}
  DefaultScreen = 0
  SelScreens = {1, 2}
  Rects = {r1}
  NoRect = noRect
  Answers = {"AREA", "PRIVACY", "UNKNOWN"}
  PickerMayDie = TRUE
  LinkMayDrop = TRUE
INVARIANTS TypeOK AnsweredIsSelected LeftWaitingOnlyIfMissed
PROPERTIES CallReturns
