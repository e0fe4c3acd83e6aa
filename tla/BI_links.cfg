CONSTANTS
    ArmFwd = 64
    ArmBwd = 64
    ThmFwd = 48
    ThmBwd = 48
    StubGroupSize = 16
    StubAlign = 4
    ShortStub = 4
    LongStub = 8
    TextBase = 100
    PLT = 80
    Programs <- Usual
SPECIFICATION Spec
INVARIANTS TypeOK BranchesArrive FragmentsChained SectionBranchesReach
PROPERTY RelaxationEnds
