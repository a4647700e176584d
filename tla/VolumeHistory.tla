---------------------------- MODULE VolumeHistory ----------------------------
(***************************************************************************)
(* VolumeService with a history variable.  What the cache knows, and what  *)
(* is decided by it, is right as long as the driver has seen everything    *)
(* the appliance did: no answer was lost after the call was carried out,   *)
(* or was empty, no listing has entered shares it read some time ago, and  *)
(* nobody else has changed the appliance.  quiet says that this is so of   *)
(* the behaviour until now; a call that was not carried out is harmless.   *)
(***************************************************************************)
EXTENDS VolumeService

VARIABLE quiet

historyVars == <<allVars, quiet>>

HistoryInit == ServiceInit /\ quiet = TRUE

Arrives(p) ==
    \E r \in Requests :
        \/ Arrive(p, r) /\ UNCHANGED quiet
        \/ ArriveList(p, r) /\ quiet' = FALSE

Works(p) ==
    \/ Obtain(p) /\ UNCHANGED quiet
    \/ \E o \in Outcome :
         RestCall(p, o) /\ quiet' = (quiet /\ o \in {"answered", "lost"})
    \/ (Get(p) \/ ListNext(p) \/ ListStore(p)) /\ UNCHANGED quiet
    \/ (Return(p) \/ GiveBack(p)) /\ UNCHANGED quiet

HistoryNext ==
    \/ \E p \in Proc : Arrives(p) \/ Works(p)
    \/ Environment /\ quiet' = FALSE

HistorySpec == HistoryInit /\ [][HistoryNext]_historyVars
-----------------------------------------------------------------------------
\* The cache tells the truth about volumes nobody works on: they are on the
\* appliance with the cached capacity, which requests are answered from.
QuietTruthful == quiet => CacheIsTruthful

\* ControllerExpandVolume replies OK only for a filesystem that has the size,
\* although it compares the request with the cache (controller_fs.go:227).
QuietExpanded == quiet => ExpandedIsLarge

\* No request makes a share smaller.
QuietNeverShrinks == [][quiet => NoShrink]_historyVars
=============================================================================
