SPECIFICATION Spec
CONSTANTS
  a = a
  b = b
  c = c
  text = text
  stub = stub
  j1 = j1
  InputNames = {a, b, c}
  Inputs <- AllInputs
  Files = {}
  Droppable = {c}
  Configs <- Links
  SectionSyms = {text}
  StubOf <- OneBranch
CHECK_DEADLOCK FALSE
INVARIANTS
  TypeOK
  OutputTablesRight
PROPERTY
  ImplementsSymbolCategory
