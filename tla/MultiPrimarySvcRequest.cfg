SPECIFICATION FairSpec
CONSTANTS
    NumEps = 3
    PrimariesCnt = 2
    AppCodes = {"APP"}
    Tolerated = {}
CHECK_DEADLOCK FALSE
INVARIANTS
    TypeOK PrimariesDecide AllResponded
PROPERTIES
    HonoursContract
