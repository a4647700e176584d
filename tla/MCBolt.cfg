CONSTANTS
    g1 = g1
    g2 = g2
    g3 = g3
    g4 = g4
    c1 = c1
    c2 = c2
    c3 = c3
    NilCtx = NilCtx
    Proc <- MCProc
    Ctx <- MCCtx
    CtxOf <- MCCtxOf
SPECIFICATION FairSpec
INVARIANTS
    NoLostWakeup
PROPERTIES
    ImplementsLock
    WantedIsTaken
