--------------------------- MODULE MCVolumeService ---------------------------
(***************************************************************************)
(* Instances of VolumeHistory: a filesystem and a LUN of different names,  *)
(* two goroutines, two nodes.  A behaviour is about one of the volumes, as *)
(* requests for different names only meet in vMutex.  MaxCalls bounds the  *)
(* requests a goroutine handles.                                           *)
(***************************************************************************)
EXTENDS VolumeHistory, TLC

CONSTANTS p1, p2, v1, v2, v3, c1, c2, fs, lun, a, b, n1, n2,
          OpFs, OpLun,   \* the requests for the filesystem, for the LUN
          MaxCalls

MCProc   == {p1, p2}
MCVol3   == {v1, v2, v3}
MCCtx    == {c1, c2}
MCCtxOf  == [p \in MCProc |-> IF p = p1 THEN c1 ELSE c2]
MCNode   == {n1, n2}
MCId     == {fs, lun}
MCLun    == {lun}
MCName   == {a, b}
MCNameOf == [i \in MCId |-> IF i = fs THEN a ELSE b]

MCCapacity == 1..3
MCCapacityTwo == {2, 3}
\* No range at all, an exact size, a minimum and a maximum.
MCRange == {[required |-> 0, limit |-> 0], [required |-> 1, limit |-> 1],
            [required |-> 3, limit |-> 0], [required |-> 0, limit |-> 1]}
\* A minimum that excludes capacity 2, a maximum that excludes capacity 3.
MCRangeTwo == {[required |-> 3, limit |-> 0], [required |-> 0, limit |-> 2]}

MCShare ==
    {NoShare} \cup [cap : {2}, group : {MaskAll, OtherHost, n1},
                     snaps : {{}}, origin : {NoOrigin}]

MCOp == OpFs \cup OpLun
OpFor(i) == IF i \in BlockId THEN OpLun ELSE OpFs

MCSymmetry == Permutations(MCVol3)

VARIABLES calls, about
mcVars == <<historyVars, calls, about>>

MCInit ==
    /\ HistoryInit
    /\ calls = [p \in Proc |-> 0]
    /\ about \in {i \in VolumeId : OpFor(i) # {}}
    /\ \A i \in VolumeId \ {about} : share[i] = NoShare

\* The requests of this behaviour.
Expected(r) ==
    /\ r.op \in OpFor(about)
    /\ IF r.op = "list" THEN r.block <=> about \in BlockId ELSE r.id = about

MCNext ==
    \/ \E p \in Proc :
         \/ /\ calls[p] < MaxCalls
            /\ Arrives(p) /\ Expected(req'[p])
            /\ calls' = [calls EXCEPT ![p] = @ + 1]
            /\ UNCHANGED about
         \/ Works(p) /\ UNCHANGED <<calls, about>>
    \/ /\ crashed \/ \A p \in Proc : Free(p) /\ calls[p] = MaxCalls
       /\ UNCHANGED mcVars

MCSpec == MCInit /\ [][MCNext]_mcVars
=============================================================================
