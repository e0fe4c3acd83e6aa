SPECIFICATION WrapSpec
CONSTANTS
  bar = bar
  wrap_bar = wrap_bar
  o1 = o1
  o2 = o2
  d1 = d1
  d2 = d2
  Names = {bar, wrap_bar}
  Objects = {o1, o2}
  DynObjs = {d1, d2}
  Sizes = {0, 1}
  Values = {0, 1}
  Visibilities = {0, 2, 3}
  NoExport = {o2}
  RenameMap <- WrapBar
  UndefSyms = {bar}
CHECK_DEADLOCK FALSE
INVARIANTS
  TypeOK
  StrongestWins
  InputsSettled
PROPERTY
  VisibilityNeverRelaxed
