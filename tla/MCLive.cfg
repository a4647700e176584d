CONSTANTS
    p1 = p1
    p2 = p2
    h1 = h1
    c1 = c1
    c2 = c2
    src = src
    cl = cl
    lun = lun
    n1 = n1
    c = c
    a = a
    b = b
    s = s
    NilCtx = NilCtx
    NoVol = 0
    NoId = NoId
    NoProc = NoProc
    NoShare = NoShare
    NoSnap = 0
    NoOrigin = NoOrigin
    MaskAll = MaskAll
    OtherHost = OtherHost
    EmptyList = EmptyList
    Proc <- MCProc
    Second <- MCSecond
    Ctx <- MCCtx
    CtxOf <- MCCtxOf
    VolumeId <- MCId3
    Name <- MCName3
    NameOf <- MCNameOf3
    Vol <- MCVol
    Snap = {1}
    SName <- MCSnapName
    SnapName <- MCSnapName
    BlockId <- MCLun
    Node <- MCNode
    Ranges <- MCRange
    Capacity = {2}
    DefaultSize = 2
    InitialShare <- MCShare
    AdminGroup = {OtherHost, EmptyList}
    Op = {"createsnap", "deletesnap", "clone", "delete", "create", "listallsnaps", "expand", "get", "list", "publish", "unpublish"}
    Faults = {"lost", "noanswer", "unauth"}
    Modes = {"fs", "lun", "snap"}
    OpIn <- MCOpIn
    MaxCalls <- MCCalls
SPECIFICATION MCFairSpec
ACTION_CONSTRAINT FirstUnused
PROPERTIES
    ImplementsCaches
    EveryRequestEnds
