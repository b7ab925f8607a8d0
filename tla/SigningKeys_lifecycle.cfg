SPECIFICATION FairSpec
CONSTANTS
  Kid = {k1, k2, k3, k4}
  Admin = {a1, a2}
  Deactivator = {a1, a2}
  Main = main
  MaxFaults = 1
  None = None
INVARIANTS
  TypeOK
  NewestKeySigns
PROPERTIES
  KeysSurvive
  BootRestoresSigning
  RotationsRestoreSigning
\* The kids and the faults run out: the bounds stop the system, not the code.
CHECK_DEADLOCK FALSE
