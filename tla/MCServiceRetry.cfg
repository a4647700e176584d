CONSTANTS
    p1 = p1
    p2 = p2
    v1 = v1
    v2 = v2
    v3 = v3
    c1 = c1
    c2 = c2
    fs = fs
    lun = lun
    a = a
    b = b
    n1 = n1
    n2 = n2
    NilCtx = NilCtx
    NoVol = NoVol
    NoId = NoId
    NoProc = NoProc
    NoShare = NoShare
    SnapName = {}
    NoOrigin = NoOrigin
    MaskAll = MaskAll
    OtherHost = OtherHost
    EmptyList = EmptyList
    Proc <- MCProc
    Ctx <- MCCtx
    CtxOf <- MCCtxOf
    Node <- MCNode
    VolumeId <- MCId
    BlockId <- MCLun
    Name <- MCName
    NameOf <- MCNameOf
    DefaultSize = 2
    InitialShare <- MCShare
    Op <- MCOp
    OpFs = {"create"}
    OpLun = {}
    Vol <- MCVol3
    Capacity <- MCCapacity
    Ranges <- MCRange
    Faults = {"noanswer"}
    AdminGroup = {}
    MaxCalls = 2
SPECIFICATION MCSpec
INVARIANT RefusedIsIncompatible
