CONSTANTS
    p1 = p1
    p2 = p2
    h1 = h1
    c1 = c1
    c2 = c2
    src = src
    cl = cl
    lun = lun
    n1 = n1
    c = c
    a = a
    b = b
    s = s
    NilCtx = NilCtx
    NoVol = 0
    NoId = NoId
    NoProc = NoProc
    NoShare = NoShare
    NoSnap = 0
    NoOrigin = NoOrigin
    MaskAll = MaskAll
    OtherHost = OtherHost
    EmptyList = EmptyList
    Proc <- MCProc
    Second <- MCSecond
    Ctx <- MCCtx
    CtxOf <- MCCtxOf
    VolumeId <- MCId
    Name <- MCName
    NameOf <- MCNameOf
    Vol <- MCVol
    Snap = {1}
    SName <- MCSnapName
    SnapName <- MCSnapName
    BlockId = {}
    Node = {}
    Ranges <- MCRange
    Capacity = {2}
    DefaultSize = 2
    InitialShare <- MCShare
    AdminGroup = {}
    Op = {"createsnap", "deletesnap", "clone", "delete", "create", "listallsnaps", "getsnap", "listsnaps"}
    Faults = {"lost", "noanswer", "unauth"}
    SourceOf <- MCSourceOf
    Modes = {"lossy", "unauth"}
    OpIn <- MCOpIn
    MaxCalls <- MCCalls
SPECIFICATION MCHistorySpec
ACTION_CONSTRAINT FirstUnused
INVARIANTS
    SIInv
    OriginUnlessUnauth
    DeletedUnlessUnauth
    QuietSnaps
PROPERTIES
    KeptUnlessUnauth
