CONSTANTS
  c1 = c1
  none = none
  Callers = {c1}
  NoThread = none
  IsPcDevice = FALSE
  Reasons = {"NORMAL"}
  DisplayStates = {"OFF"}
  PowerStates = {}
  CallerOps = {"CANCEL"}
  SpuriousWakeups = FALSE
  MaxCredit = 1
SPECIFICATION Spec
INVARIANTS GrantedCancelStopsScreenOff
