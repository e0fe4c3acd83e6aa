SPECIFICATION FairSpec
CONSTANT Symbols = {a, b, c}
INVARIANTS
  TypeOK
  RangesExact
PROPERTY
  CommonsAreChanged
CHECK_DEADLOCK FALSE
