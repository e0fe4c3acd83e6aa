CONSTANTS
    Word = 32768
    PageSize = 16
    CommonPageSize = 8
    EhdrSize = 4
    PhdrSize = 2
    TextStart = 64
    Growth = 6
    MaxGrowth = 12
    Links <- AllLinks
SPECIFICATION Spec
INVARIANTS TypeOK SegmentsFit NothingOverlaps AddressesSettled InputsAsAsked
