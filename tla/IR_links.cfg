SPECIFICATION Spec
CONSTANTS
  o = o
  d = d
  a1 = a1
  a2 = a2
  a3 = a3
  m1 = m1
  m2 = m2
  m3 = m3
  p = p
  q = q
  r = r
  Names <- NamesDef
  Kind <- KindDef
  Members <- MembersDef
  Links <- PassLinks
CHECK_DEADLOCK FALSE
INVARIANTS
  TypeOK
  MembersReadOnce
PROPERTIES
  ImplementsArchiveLinking
  AllInputsRead
