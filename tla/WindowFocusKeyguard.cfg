\* An app that is started, the desktop and the keyguard: the requests of the
\* scene board, and sessions erased.
SPECIFICATION Spec
CONSTANTS
  a = a  b = b  c = c  main = main  other = other
  NoSession = NoSession  NoGroup = NoGroup
  Sessions = {a, b, c}
  Kind <- AppDesktopKeyguard
  ZOrders <- KeyguardLayers
  Blocking = {c}
  Shared = {}
  Displays = {main}
  DefaultDisplay = main
  DisplayGroup <- OneDisplay
  Ops = {"SCB_FOREGROUND", "DESTROY", "START", "ALL_APP_UNFOCUS", "UNFOCUS", "SCB_MOVE_UP"}
INVARIANTS TypeOK FocusFlagMatches
PROPERTIES OneShiftPerFlush KeyguardKeepsFocus
