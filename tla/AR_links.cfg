SPECIFICATION Spec
CONSTANTS
  foo = foo
  Symbols = {foo}
  Links <- PassLinks
CHECK_DEADLOCK FALSE
INVARIANTS
  TypeOK
  RuntimeAddresses
  BranchesArrive
