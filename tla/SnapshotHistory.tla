--------------------------- MODULE SnapshotHistory ---------------------------
(***************************************************************************)
(* SnapshotService with two history variables.  What the snapshot methods  *)
(* promise depends on what has happened to REST calls until now:           *)
(*   refused  one was refused twice with status 401, and its empty answer  *)
(*            taken for success, or for "no snapshots" and "no clones";    *)
(*   quiet    the driver has seen everything the appliance did: each call  *)
(*            that was carried out was answered, none was refused, no      *)
(*            listing ran, no creation of a volume was lost (on any error, *)
(*            it records the volume as deleted); and a snapshot name was   *)
(*            used for one volume only.                                    *)
(***************************************************************************)
EXTENDS SnapshotService

CONSTANT SourceOf   \* SourceOf[n]: the volume whose snapshots are called n

VARIABLES refused, quiet

snapHistoryVars == <<everything, refused, quiet>>

SnapHistoryInit ==
    /\ SnapServiceInit
    /\ refused = FALSE
    /\ quiet = \A i \in VolumeId, n \in SnapName :
                 share[i] # NoShare /\ n \in share[i].snaps => i = SourceOf[n]

\* Request r has nothing to do with listings, nor with a snapshot that has
\* the name of one of another volume.
Unambiguous(r) ==
    /\ r.op \notin {"list", "listallsnaps"}
    /\ r.op \in {"createsnap", "deletesnap", "getsnap"} => r.id = SourceOf[r.snap]
    /\ r.op = "clone" => r.source = SourceOf[r.snap]

Arrives(p) ==
    /\ ArriveAt(p)
    /\ quiet' = (quiet /\ Unambiguous(req'[p]))
    /\ UNCHANGED refused

Works(p) ==
    /\ ObtainVolume(p) \/ ObtainSnap(p) \/ WithoutCall(p) \/ GiveAnyBack(p)
    /\ UNCHANGED <<refused, quiet>>

Hears(p, o) ==
    /\ VolumeCalls(p, o) \/ SnapRestCall(p, o)
    /\ refused' = (refused \/ o = "unauth")
    /\ quiet' = (quiet /\ (o = "answered" \/ (o = "lost" /\ at[p] # "post")))

SnapHistoryNext ==
    \/ \E p \in Handlers : Arrives(p)
    \/ \E p \in Proc : Works(p) \/ \E o \in Outcome : Hears(p, o)
    \/ Running /\ Environment /\ UNCHANGED <<sVars, refused, quiet>>

SnapHistorySpec == SnapHistoryInit /\ [][SnapHistoryNext]_snapHistoryVars
-----------------------------------------------------------------------------
\* Without status 401, no snapshot vanishes unasked, no clone loses its
\* origin, and a deleted snapshot is gone.
KeptUnlessUnauth == [][~refused => SnapshotsKept]_snapHistoryVars
OriginUnlessUnauth == ~refused => OriginKept
DeletedUnlessUnauth == ~refused => DeletedSnapIsGone

\* In a quiet behaviour the cache of snapshots tells the truth, its pointers
\* to volumes are fresh, and no look-up or release panics.
QuietSnaps == quiet => SnapsTruthful /\ PointersFresh /\ SAlive
=============================================================================
