SPECIFICATION Spec
CONSTANTS
  None = None
  Lengths <- LengthsSmall
  Bodies <- BodiesTricky
  MaxStream = 6
  MaxSent = 3
INVARIANTS Transparent CleanEnd SplitsAsReference NeverHoldsAFrame ReadsBack
