SPECIFICATION FairSpec
CONSTANTS
    Proc = {p1, p2}
    Token = {t1, t2}
    Session = {s1, s2, s3}
    NoToken = NoToken
    NoSession = NoSession
    Faults = {"expire", "net", "cert"}
ACTION_CONSTRAINT Bounds
INVARIANTS IInv OneAtATime RetryIsFresh NoLostWaiter
PROPERTIES LiveSessionKept WaitEnds EveryCallEnds
