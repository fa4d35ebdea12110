\* Two threads cancel, skip and answer while the screen is switched on and off.
SPECIFICATION Spec
CONSTANTS
  c1 = c1
  c2 = c2
  none = none
  Callers = {c1, c2}
  NoThread = none
  IsPcDevice = FALSE
  Reasons = {"NORMAL"}
  DisplayStates = {"ON", "OFF"}
  PowerStates = {}
  CallerOps = {"CANCEL", "SKIP", "PHY_SCREEN", "SCREEN_LOCK_OFF", "SCREEN_LOCK_SUSPEND",
               "SCREEN_LOCK_FINGERPRINT"}
  SpuriousWakeups = TRUE
  MaxCredit = 2
SYMMETRY Symmetry
INVARIANTS TypeOK RefusalsAreGranted EarlyCancelHonoured ScreensAgree NoDanglingWait
PROPERTIES ImplementsDisplay
