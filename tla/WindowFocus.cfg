\* An app, a floating app and the dropdown panel, which blocks the focus.
SPECIFICATION Spec
CONSTANTS
  a = a  b = b  c = c  main = main  other = other
  NoSession = NoSession  NoGroup = NoGroup
  Sessions = {a, b, c}
  Kind <- AppFloatingPanel
  ZOrders <- PanelLayers
  Blocking = {c}
  Shared = {c}
  Displays = {main}
  DefaultDisplay = main
  DisplayGroup <- OneDisplay
  Ops = {"ASK", "UNFOCUS", "SCB"}
INVARIANTS ToldMeansFocused
