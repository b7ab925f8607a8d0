SPECIFICATION Spec
CONSTANTS
  Kid = {k1, k2}
  Admin = {a1}
  Deactivator = {}
  Main = main
  MaxFaults = 0
  None = None

INVARIANTS
  RotatedKeysStillVerify
