-------------------------- MODULE MCSnapshotHistory --------------------------
(***************************************************************************)
(* The instances of MCSnapshotService with the history of REST calls, for  *)
(* the modes "lossy" and "unauth".                                         *)
(***************************************************************************)
EXTENDS MCSnapshotService, SnapshotHistory

MCSourceOf == [n \in MCSnapName |-> src]

mcHistoryVars == <<snapHistoryVars, calls, mode>>

MCHistoryInit == MCInit /\ SnapHistoryInit

MCHistoryNext ==
    \/ \E p \in Handlers : Arrives(p) /\ Admits(p)
    \/ \E p \in Proc :
         /\ Works(p) \/ \E o \in Outcome : Happens(o) /\ Hears(p, o)
         /\ UNCHANGED <<calls, mode>>
    \/ Ended /\ UNCHANGED mcHistoryVars

MCHistorySpec == MCHistoryInit /\ [][MCHistoryNext]_mcHistoryVars
=============================================================================
