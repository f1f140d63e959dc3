CONSTANTS
  MaxFrames = 4
  MaxLosses = 2
  Kinds = {"charger", "foreign", "lookalike"}
  MaxOthers = 1
  Attach <- Anywhere
SPECIFICATION Spec
CHECK_DEADLOCK FALSE
INVARIANTS
  TypeOK
  Resynchronises
  NeverTorn
