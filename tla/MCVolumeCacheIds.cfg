CONSTANTS
    p1 = p1
    p2 = p2
    p3 = p3
    v1 = v1
    v2 = v2
    v3 = v3
    c1 = c1
    c2 = c2
    c3 = c3
    fsA = fsA
    fsB = fsB
    lunA = lunA
    a = a
    b = b
    NilCtx = NilCtx
    NoVol = NoVol
    NoId = NoId
    NoProc = NoProc
    MaxCalls = 1
    Proc <- MCProc2
    Vol <- MCVol3
    VolumeId <- MCId
    Name <- MCName
    NameOf <- MCNameOf
    Ctx <- MCCtx
    CtxOf <- MCCtxApart
    Asked <- MCAskedIds
SPECIFICATION MCSpec
INVARIANT LookupMatchesId
