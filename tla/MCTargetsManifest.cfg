SPECIFICATION Spec
CONSTANTS
  Roots = {p, q}
  MaxEvents = 5
SYMMETRY RootSymmetry
INVARIANTS
  NamesAreOfTheDisk
PROPERTIES
  UnsavedSourceHasNoNames
  AttemptIsUnderWay
CHECK_DEADLOCK FALSE
