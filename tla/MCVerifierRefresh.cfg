CONSTANTS
  Proc = {p1, p2}
  Build = {old, manual, n1, n2, n3}
  Installed = old
  Manual = manual
  None = None
  MaxMain = 2
  MaxCrashes = 1
SPECIFICATION Spec
CHECK_DEADLOCK FALSE
INVARIANTS InUseIsWhole LinkTrusted
