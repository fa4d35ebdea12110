\* Two apps move between two displays, each with a group of its own, and the
\* second display comes and goes.
SPECIFICATION Spec
CONSTANTS
  a = a  b = b  c = c  main = main  other = other
  NoSession = NoSession  NoGroup = NoGroup
  Sessions = {a, b}
  Kind <- AppApp
  ZOrders <- FixedLayers
  Blocking = {}
  Shared = {}
  Displays = {main, other}
  DefaultDisplay = main
  DisplayGroup <- TwoGroups
  Ops = {"MOVE", "PLUG"}
INVARIANTS HighlightMatches
PROPERTIES FocusStaysInGroup
