SPECIFICATION Spec
CONSTANTS
  foo = foo
  bar = bar
  Symbols = {foo, bar}
  Links <- PassLinks
CHECK_DEADLOCK FALSE
INVARIANTS
  ChangedPlacesRelocated
