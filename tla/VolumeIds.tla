------------------------------ MODULE VolumeIds ------------------------------
(***************************************************************************)
(* IDs of volumes and snapshots: what src/pkg/utils/volume_id.go reads from*)
(* a string, and what it writes.  A string is the sequence of its          *)
(* components after a split at "/", the first of which is empty; a part of *)
(* the appliance's address of a resource (its href) is one as well.  The   *)
(* components are counted from 1 here.                                     *)
(*                                                                         *)
(* NoVolumeId and NoSnapshotId stand for an error; the callers make the    *)
(* same of every one.                                                      *)
(***************************************************************************)
EXTENDS Naturals, Sequences

CONSTANTS Appliance,      \* the name of the appliance
          ValidName,      \* the names IsResourceNameValid accepts
          NoVolumeId, NoSnapshotId

(* ^[a-zA-Z0-9_\-\.\:]+$ admits neither the empty name nor a "/".          *)
ASSUME EmptyNameInvalid == "" \notin ValidName

BlockVolume == "lun"
MountVolume == "mnt"

VolumeId(type, zfssa, pool, project, name) ==
    [Type |-> type, Zfssa |-> zfssa, Pool |-> pool, Project |-> project, Name |-> name]

SnapshotId(vid, name) == [VolumeId |-> vid, Name |-> name]

\* The components that name pool, project and share: in a handle, which
\* begins with the protocol, and in an ID.
VolumeIdFromString(s) ==
    LET handle  == Len(s) >= 2 /\ s[2] \in {"nfs", "iscsi"}
        enough  == Len(s) >= IF handle THEN 8 ELSE 6
        pool    == IF handle THEN s[5] ELSE s[4]
        project == IF handle THEN s[7] ELSE s[5]
        share   == IF handle THEN s[8] ELSE s[6]
    IN  IF enough /\ {pool, project, share} \subseteq ValidName
        THEN VolumeId(s[2], s[3], pool, project, share)
        ELSE NoVolumeId

VolumeIdString(vid) == <<"", vid.Type, vid.Zfssa, vid.Pool, vid.Project, vid.Name>>

IsBlock(vid) == vid.Type = BlockVolume

\* Mutant of SnapshotIdFromString: pool and project are mixed up.
SnapshotIdSwapped(s) ==
    IF Len(s) >= 7
    THEN SnapshotId(VolumeId(s[2], s[3], s[5], s[4], s[6]), s[7])
    ELSE NoSnapshotId

\* The names are not validated here.
SnapshotIdFromString(s) ==
    IF Len(s) >= 7
    THEN SnapshotId(VolumeId(s[2], s[3], s[4], s[5], s[6]), s[7])
    ELSE NoSnapshotId

SnapshotIdString(sid) ==
    LET vid == sid.VolumeId
    IN  <<"", vid.Type, vid.Zfssa, vid.Pool, vid.Project, vid.Name, sid.Name>>

-----------------------------------------------------------------------------
(* /api/storage/v2/pools/P/projects/J/filesystems/N, or luns/N, and below  *)
(* it snapshots/S.                                                         *)

VolumeHref(vid) ==
    <<"", "api", "storage", "v2", "pools", vid.Pool, "projects", vid.Project,
      IF IsBlock(vid) THEN "luns" ELSE "filesystems", vid.Name>>

SnapshotHref(sid) == VolumeHref(sid.VolumeId) \o <<"snapshots", sid.Name>>

HrefType(h) == IF h[9] = "luns" THEN BlockVolume ELSE MountVolume

IsVolumeHref(h) == Len(h) >= 10 /\ h[9] \in {"filesystems", "luns"}

IsSnapshotHref(h) == Len(h) >= 12 /\ h[11] = "snapshots" /\ IsVolumeHref(h)

\* The volume of an href, also of a snapshot's; the empty sequence stands for
\* an error.
VolumeIdStringFromHref(h) ==
    IF IsVolumeHref(h) THEN <<"", HrefType(h), Appliance, h[6], h[8], h[10]>> ELSE <<>>

SnapshotIdFromHref(h) ==
    IF IsSnapshotHref(h)
    THEN SnapshotId(VolumeId(HrefType(h), Appliance, h[6], h[8], h[10]), h[12])
    ELSE NoSnapshotId

SnapshotIdStringFromHref(h) ==
    IF IsSnapshotHref(h)
    THEN <<"", HrefType(h), Appliance, h[6], h[8], h[10], h[12]>>
    ELSE <<>>

\* A handle of the examples, with protocol nfs or iscsi.
Handle(protocol, vid) ==
    <<"", protocol, vid.Zfssa, vid.Name, vid.Pool, "local", vid.Project, vid.Name>>
=============================================================================
