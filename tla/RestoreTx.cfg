\* Two roots, two restores; crashes with loss of power and storage errors.
SPECIFICATION FairSpec
CONSTANTS
  NumRoots = 2
  MaxRestores = 2
  Absent = Absent
  Partial = Partial
  MaxCrashes = 2
  MaxFaults = 2
INVARIANTS
  IInv
  AlwaysRecoverable
  ServedSoundly
PROPERTIES
  ServedForward
  ServesAgain
\* With the bounds reached the instance idles.
CHECK_DEADLOCK FALSE
