\* Two apps that come to the foreground.
SPECIFICATION Spec
CONSTANTS
  a = a  b = b  c = c  main = main  other = other
  NoSession = NoSession  NoGroup = NoGroup
  Sessions = {a, b}
  Kind <- AppApp
  ZOrders <- AppLayers
  Blocking = {}
  Shared = {}
  Displays = {main}
  DefaultDisplay = main
  DisplayGroup <- OneDisplay
  Ops = {}
INVARIANTS HighlightTold
