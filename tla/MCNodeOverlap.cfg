SPECIFICATION Spec
CONSTANTS
    Proc = {p1, p2}
    Target = {fs}
    BlockTarget = {}
    NoProc = NoProc
    NoTarget = NoTarget
    Overlap = TRUE
    Faults = {"timeout"}
    MaxFaults = 3
SYMMETRY Symmetry
INVARIANTS NeverPanics
