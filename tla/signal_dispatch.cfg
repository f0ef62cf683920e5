SPECIFICATION FairSpec
CONSTANT
  Sigs = {8, 9, 10, 19, 20}
INVARIANTS
  PassIsClosedForm
PROPERTIES
  PassEnds
CHECK_DEADLOCK FALSE
