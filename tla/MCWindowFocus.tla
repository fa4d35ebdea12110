--------------------------- MODULE MCWindowFocus ---------------------------
(* Instances of WindowFocus for TLC: the windows and displays of the runs.  *)
EXTENDS WindowFocus, TLC

CONSTANTS a, b, c, main, other

AppFloatingPanel == (a :> "app") @@ (b :> "floating") @@ (c :> "panel")
AppDesktopKeyguard == (a :> "app") @@ (b :> "desktop") @@ (c :> "keyguard")
AppApp == (a :> "app") @@ (b :> "app")

\* The zOrders that a flush may give: apps above the desktop, system windows
\* above them; where there are two, an app overtakes another.
AppLayers == (a :> {2, 3}) @@ (b :> {2, 3})
FixedLayers == (a :> {2}) @@ (b :> {3})
PanelLayers == (a :> {2, 4}) @@ (b :> {3}) @@ (c :> {5})
KeyguardLayers == (a :> {2}) @@ (b :> {1}) @@ (c :> {5})

OneDisplay == main :> main
TwoGroups == (main :> main) @@ (other :> other)
=============================================================================
