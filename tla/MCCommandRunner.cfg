CONSTANTS
  Call = {c1, b1}
  Brokered = {b1}
SPECIFICATION Spec
CHECK_DEADLOCK FALSE
INVARIANTS NothingLeftBehind NoLateSignal
PROPERTIES CallsEnd
