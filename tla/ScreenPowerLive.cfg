\* Every kind of wait of the power thread, against one thread, under fairness.
SPECIFICATION FairSpec
CONSTANTS
  c1 = c1
  none = none
  Callers = {c1}
  NoThread = none
  IsPcDevice = FALSE
  Reasons = {"COLLABORATION", "START_DREAM", "END_DREAM", "AUTH_FAIL_OFF"}
  DisplayStates = {"ON", "OFF"}
  PowerStates = {"DOZE"}
  CallerOps = {"CANCEL", "KEYGUARD_DRAWN", "KEYGUARD_RESET", "SCREEN_LOCK_START_DREAM"}
  SpuriousWakeups = FALSE
  MaxCredit = 1
PROPERTIES CallsReturn
