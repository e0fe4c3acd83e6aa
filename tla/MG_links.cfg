SPECIFICATION Spec
CONSTANTS
  GpDisp = GpDisp
  section = section
  other = other
  static = static
  own = own
  hidden = hidden
  called = called
  variable = variable
  alias = alias
  thread = thread
  missing = missing
  Symbols = {GpDisp, section, other, static, own, hidden, called, variable, alias, thread, missing}
  MaxEntries = 6
  Page = 16
  Base = 4096
  GotAddress = 1000
  PltAddress = 2000
  TextAddress = 5000
  Links <- PassLinks
CHECK_DEADLOCK FALSE
INVARIANTS
  TypeOK
  NothingRunsOut
  PlacesRelocated
