SPECIFICATION FairSpec
CONSTANTS
    Proc = {p1, p2}
    Target = {fs, lun}
    BlockTarget = {lun}
    NoProc = NoProc
    NoTarget = NoTarget
    Overlap = FALSE
    Faults = {"call", "unauth", "exec", "timeout", "restart"}
    MaxFaults = 3
INVARIANTS NodeIInv PublishedIsMounted MountedOnce AbsentIsClean
PROPERTIES UnpublishEnds PublishEnds
