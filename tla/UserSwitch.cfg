SPECIFICATION FairSpec
CONSTANTS
  a1 = a1
  a2 = a2
  b1 = b1
  uA = uA
  uB = uB
  Users = {uA, uB}
  Pids = {a1, a2, b1}
  UserOf <- OwnerOfPid
  NoUser = noUser
  NoPid = noPid
  RealScreens = {main, ext}
  main = main
  ext = ext
  Main = main
  Virtual = {cast}
  Boot = boot
  Budgets <- Bounds
CHECK_DEADLOCK FALSE
INVARIANTS TypeOK ProxyIsOfCurrentUser CurrentUserOnTop MainNodeIsDrawnOn DeadProxyOnlyIfMissed GoneScreenShownOnlyIfRaced ScreenMissedOnlyIfAway RenderedPidIsCurrent
PROPERTIES SetClientReturns
