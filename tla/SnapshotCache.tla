---------------------------- MODULE SnapshotCache ----------------------------
(***************************************************************************)
(* The cache of snapshots of the controller (volumes.go, snapshots.go):    *)
(* newSnapshot, lookupSnapshot and releaseSnapshot, on top of the cache of *)
(* volumes.                                                                *)
(*                                                                         *)
(* The cache maps a bare snapshot name to a structure, which has a         *)
(* reference count, a bolt and a state as a volume structure has, and a    *)
(* pointer to the structure of its source volume.  Who wants a snapshot    *)
(* gets its source volume first, and keeps it until the snapshot is        *)
(* released.  Nothing brings the pointer up to date when the structure of  *)
(* the source volume is dropped and made anew.                             *)
(*                                                                         *)
(* Atomicity is that of VolumeCache.tla.  sMutex has no readers to keep    *)
(* track of: what releaseSnapshot and the look-ups do between RLock and    *)
(* RUnlock never blocks and is one action.                                 *)
(***************************************************************************)
EXTENDS VolumeCache

CONSTANTS Snap,     \* snapshot structures (zSnapshot) in memory
          SName,    \* snapshot names, the keys of the cache
          NoSnap

ASSUME SnapAssumption == NoSnap \notin Snap /\ NoId \notin VolumeId \X SName

VARIABLES
    sHash,      \* sHash[n]: the structure cached under name n, or NoSnap
    sWriter,    \* the goroutine that holds sMutex for writing, or NoProc
    sId,        \* sId[z]: the ID of snapshot z: source volume and name
    sZvol,      \* sZvol[z]: the volume structure z points to
    sState,     \* volumeState of z
    sRefcount,  \* reference count of z
    sContext,   \* the context of the owner of z's bolt, or NilCtx
    spc,        \* spc[p]: where p is with its snapshot, "none" without one
    sname,      \* sname[p]: the snapshot name p was called with
    snap        \* snap[p]: the structure p refers to, or NoSnap

snapVars  == <<sHash, sWriter, sId, sZvol, sState, sRefcount, sContext>>
sprocVars == <<spc, sname, snap>>
sVars     == <<snapVars, sprocVars>>
cVars     == <<vars, sVars>>

(* "lookup", "new": in lookupSnapshot, newSnapshot, getting the volume.    *)
(* "again": lookupSnapshot found nothing and releases the volume; "renew": *)
(* its newSnapshot gets the volume again.  "lock": waits for the bolt of a *)
(* snapshot that was cached; "lockNew", "lockFill": of one it added, which *)
(* lookupSnapshot has still to fill ("details").  The rest is as in        *)
(* VolumeCache.                                                            *)
Getting    == {"lookup", "new", "again", "renew"}
SLocking   == {"lock", "lockNew", "lockFill"}
SOwning    == {"details", "own", "release", "relFast", "relLock"}
SCounted   == SLocking \cup {"details", "own", "release"}
SReferring == SLocking \cup SOwning \cup {"relCheck"}
SPCs       == {"none", "panic"} \cup Getting \cup SReferring

STypeOK ==
    /\ sHash \in [SName -> Snap \cup {NoSnap}]
    /\ sWriter \in Proc \cup {NoProc}
    /\ sId \in [Snap -> (VolumeId \X SName) \cup {NoId}]
    /\ sZvol \in [Snap -> Vol \cup {NoVol}]
    /\ sState \in [Snap -> States]
    /\ sRefcount \in [Snap -> Int]
    /\ sContext \in [Snap -> Ctx \cup {NilCtx}]
    /\ spc \in [Proc -> SPCs]
    /\ sname \in [Proc -> SName \cup {NoId}]
    /\ snap \in [Proc -> Snap \cup {NoSnap}]

SnapInit ==
    /\ sHash = [n \in SName |-> NoSnap]
    /\ sWriter = NoProc
    /\ sId = [z \in Snap |-> NoId]
    /\ sZvol = [z \in Snap |-> NoVol]
    /\ sState = [z \in Snap |-> "creating"]
    /\ sRefcount = [z \in Snap |-> 0]
    /\ sContext = [z \in Snap |-> NilCtx]
    /\ spc = [p \in Proc |-> "none"]
    /\ sname = [p \in Proc |-> NoId]
    /\ snap = [p \in Proc |-> NoSnap]

\* A panic, of Bolt.Unlock or of lookupSnapshot, ends the driver.
SAlive == Alive /\ \A p \in Proc : spc[p] # "panic"

SGoto(p, where) == spc' = [spc EXCEPT ![p] = where]

\* Structures something points to; the collector reuses the others only.
InUse(z) == (\E n \in SName : sHash[n] = z) \/ (\E p \in Proc : snap[p] = z)

-----------------------------------------------------------------------------
(* The volume.                                                             *)

\* A request for a volume, as before; or for a snapshot of volume i.
VolumeCall(p, method, i) ==
    /\ spc[p] = "none"
    /\ SAlive
    /\ Call(p, method, i)
    /\ UNCHANGED sVars

SnapCall(p, method, i, n) ==
    /\ spc[p] = "none"
    /\ SAlive
    /\ Call(p, "lookup", i)
    /\ SGoto(p, method)
    /\ sname' = [sname EXCEPT ![p] = n]
    /\ UNCHANGED <<snapVars, snap>>

\* lookupVolume or newVolume.  The structure a snapshot points to is not
\* reused for another volume.
GetVolume(p) ==
    /\ Acquire(p) \/ Details(p)
    /\ SAlive
    /\ vHash' # vHash => \A z \in Snap : InUse(z) => sZvol[z] # zvol'[p]
    /\ UNCHANGED sVars

\* What a request does with a volume it owns without a snapshot.
UseVolume(p) ==
    /\ spc[p] = "none"
    /\ SAlive
    /\ (\E s \in States : SetState(p, s)) \/ Finish(p)
    /\ UNCHANGED sVars

\* releaseVolume: also when lookupVolume has failed, which is the end of the
\* request for the snapshot, or when lookupSnapshot has to start anew.
ReleaseVolume(p) ==
    /\ Release(p)
    /\ SAlive
    /\ IF pc'[p] = "idle" /\ spc[p] # "again" THEN SGoto(p, "none") ELSE UNCHANGED spc
    /\ UNCHANGED <<snapVars, sname, snap>>

-----------------------------------------------------------------------------
(* lookupSnapshot and newSnapshot, with the source volume in hand.         *)

HasVolume(p, where) == pc[p] = "own" /\ spc[p] = where /\ SAlive

HoldSnap(p) ==
    /\ snap' = [snap EXCEPT ![p] = sHash[sname[p]]]
    /\ sRefcount' = [sRefcount EXCEPT ![sHash[sname[p]]] = @ + 1]
    /\ SGoto(p, "lock")
    /\ UNCHANGED <<vars, sHash, sWriter, sId, sZvol, sState, sContext, sname>>

\* lookupSnapshot finds the name: if the snapshot points to another volume
\* structure than the one just looked up, it panics.
LookupSnapHit(p) ==
    /\ HasVolume(p, "lookup")
    /\ sWriter = NoProc
    /\ sHash[sname[p]] # NoSnap
    /\ IF sZvol[sHash[sname[p]]] = zvol[p] THEN HoldSnap(p)
       ELSE SGoto(p, "panic") /\ UNCHANGED <<vars, snapVars, sname, snap>>

\* It does not: the volume is released, and newSnapshot called.
LookupSnapMiss(p) ==
    /\ HasVolume(p, "lookup")
    /\ sWriter = NoProc
    /\ sHash[sname[p]] = NoSnap
    /\ Finish(p)
    /\ SGoto(p, "again")
    /\ UNCHANGED <<snapVars, sname, snap>>

Again(p) ==
    /\ spc[p] = "again"
    /\ SAlive
    /\ Call(p, "lookup", id[p])
    /\ SGoto(p, "renew")
    /\ UNCHANGED <<snapVars, sname, snap>>

CanAdd(p) == (HasVolume(p, "new") \/ HasVolume(p, "renew")) /\ sWriter = NoProc

\* newSnapshot adds a place holder.
AddSnap(p) ==
    /\ CanAdd(p)
    /\ sHash[sname[p]] = NoSnap
    /\ \E z \in Snap :
         /\ ~InUse(z)
         /\ sHash' = [sHash EXCEPT ![sname[p]] = z]
         /\ sId' = [sId EXCEPT ![z] = <<volId[zvol[p]], sname[p]>>]
         /\ sZvol' = [sZvol EXCEPT ![z] = zvol[p]]
         /\ sState' = [sState EXCEPT ![z] = "creating"]
         /\ sRefcount' = [sRefcount EXCEPT ![z] = 1]
         /\ sContext' = [sContext EXCEPT ![z] = NilCtx]
         /\ snap' = [snap EXCEPT ![p] = z]
    /\ SGoto(p, IF spc[p] = "new" THEN "lockNew" ELSE "lockFill")
    /\ UNCHANGED <<vars, sWriter, sname>>

\* The cached snapshot is one of the volume asked for.
SameSource(p) == sId[sHash[sname[p]]][1] = id[p]

\* It is of another volume: AlreadyExists.
OtherSource(p) ==
    /\ CanAdd(p)
    /\ sHash[sname[p]] # NoSnap
    /\ ~SameSource(p)
    /\ Finish(p)
    /\ SGoto(p, "none")
    /\ UNCHANGED <<snapVars, sname, snap>>

NewSnapHit(p) ==
    /\ CanAdd(p)
    /\ sHash[sname[p]] # NoSnap
    /\ SameSource(p)
    /\ HoldSnap(p)

\* zsnap.lock(ctx) returns: a new place holder is handed out or filled; a
\* cached snapshot is handed out if it is created, or is busy.
LockSnap(p) ==
    /\ spc[p] \in SLocking
    /\ SAlive
    /\ sContext[snap[p]] = NilCtx
    /\ sContext' = [sContext EXCEPT ![snap[p]] = CtxOf[p]]
    /\ SGoto(p, CASE spc[p] = "lockNew"  -> "own"
                  [] spc[p] = "lockFill" -> "details"
                  [] spc[p] = "lock"     ->
                       IF sState[snap[p]] = "created" THEN "own" ELSE "release")
    /\ UNCHANGED <<vars, sHash, sWriter, sId, sZvol, sState, sRefcount, sname, snap>>

\* getDetails of lookupSnapshot.
SnapDetails(p) ==
    /\ spc[p] = "details"
    /\ SAlive
    /\ \/ sState' = [sState EXCEPT ![snap[p]] = "created"] /\ SGoto(p, "own")
       \/ UNCHANGED sState /\ SGoto(p, "release")
    /\ UNCHANGED <<vars, sHash, sWriter, sId, sZvol, sRefcount, sContext, sname, snap>>

\* The request works on the snapshot, and is done with it.
SetSnapState(p, s) ==
    /\ HasVolume(p, "own")
    /\ s \in {"created", "deleted"}
    /\ sState' = [sState EXCEPT ![snap[p]] = s]
    /\ UNCHANGED <<vars, sHash, sWriter, sId, sZvol, sRefcount, sContext, sprocVars>>

FinishSnap(p) ==
    /\ HasVolume(p, "own")
    /\ SGoto(p, "release")
    /\ UNCHANGED <<vars, snapVars, sname, snap>>

-----------------------------------------------------------------------------
(* releaseSnapshot.                                                        *)

\* RLock, zsnap.release(ctx), RUnlock: the last user of a snapshot that is
\* not created goes for the write lock.
ReleaseSnapRef(p) ==
    /\ HasVolume(p, "release")
    /\ sWriter = NoProc
    /\ sRefcount' = [sRefcount EXCEPT ![snap[p]] = @ - 1]
    /\ SGoto(p, IF sRefcount[snap[p]] = 1 /\ sState[snap[p]] # "created"
                THEN "relLock" ELSE "relFast")
    /\ UNCHANGED <<vars, sHash, sWriter, sId, sZvol, sState, sContext, sname, snap>>

\* releaseVolume of the volume the snapshot points to: if that is not the
\* one p has locked, Bolt.Unlock panics.
ReleaseSource(p) ==
    IF sZvol[snap[p]] = zvol[p]
    THEN /\ Finish(p)
         /\ SGoto(p, "none")
         /\ snap' = [snap EXCEPT ![p] = NoSnap]
    ELSE SGoto(p, "panic") /\ UNCHANGED <<vars, snap>>

\* zsnap.unlock(ctx); Bolt.Unlock panics if p is not the owner.
UnlockSnap(p) ==
    /\ sContext[snap[p]] = CtxOf[p]
    /\ sContext' = [sContext EXCEPT ![snap[p]] = NilCtx]

UnlockSnapPanic(p) ==
    /\ sContext[snap[p]] # CtxOf[p]
    /\ SGoto(p, "panic")
    /\ UNCHANGED <<vars, snapVars, sname, snap>>

ReleaseSnapFast(p) ==
    /\ HasVolume(p, "relFast")
    /\ \/ /\ UnlockSnap(p)
          /\ ReleaseSource(p)
          /\ UNCHANGED <<sHash, sWriter, sId, sZvol, sState, sRefcount, sname>>
       \/ UnlockSnapPanic(p)

ReleaseSnapSlow(p) ==
    /\ HasVolume(p, "relLock")
    /\ sWriter = NoProc
    /\ \/ /\ UnlockSnap(p)
          /\ sWriter' = p
          /\ SGoto(p, "relCheck")
          /\ UNCHANGED <<vars, sHash, sId, sZvol, sState, sRefcount, sname, snap>>
       \/ UnlockSnapPanic(p)

\* Mutant of DropSnap: the entry stays.
DropNothing(p) == sHash' = sHash

\* The entry is deleted if nobody wants it and it is not created.
DropSnap(p) ==
    sHash' = IF sRefcount[snap[p]] = 0 /\ sState[snap[p]] # "created"
             THEN [sHash EXCEPT ![sId[snap[p]][2]] = NoSnap]
             ELSE sHash

ReleaseSnapCheck(p) ==
    /\ HasVolume(p, "relCheck")
    /\ DropSnap(p)
    /\ sWriter' = NoProc
    /\ ReleaseSource(p)
    /\ UNCHANGED <<sId, sZvol, sState, sRefcount, sContext, sname>>

-----------------------------------------------------------------------------
AcquireSnap(p) ==
    \/ LookupSnapHit(p) \/ LookupSnapMiss(p) \/ Again(p)
    \/ AddSnap(p) \/ OtherSource(p) \/ NewSnapHit(p) \/ LockSnap(p)
UseSnap(p) == SnapDetails(p) \/ (\E s \in States : SetSnapState(p, s)) \/ FinishSnap(p)
ReleaseSnap(p) ==
    \/ ReleaseSnapRef(p) \/ ReleaseSnapFast(p) \/ ReleaseSnapSlow(p) \/ ReleaseSnapCheck(p)

StartAny(p) ==
    \E i \in VolumeId :
        \/ \E method \in {"lookup", "new"} : VolumeCall(p, method, i)
        \/ \E method \in {"lookup", "new"}, n \in SName : SnapCall(p, method, i, n)

SnapNext == \E p \in Proc :
    \/ StartAny(p) \/ GetVolume(p) \/ UseVolume(p) \/ ReleaseVolume(p)
    \/ AcquireSnap(p) \/ UseSnap(p) \/ ReleaseSnap(p)

SnapSpec == Init /\ SnapInit /\ [][SnapNext]_cVars
-----------------------------------------------------------------------------
\* "The caller gets exclusive access to the returned snapshot and its volume
\* source" (lookupSnapshot, volumes.go:288): who refers to a snapshot is alone
\* with it ...
SnapExclusive ==
    \A p, q \in Proc :
        spc[p] \in SReferring /\ spc[q] \in SReferring /\ snap[q] = snap[p] => p = q

\* ... and owns, all the while, a volume of the name of its source.
SourceHeld ==
    \A p \in Proc : spc[p] \in SReferring =>
        pc[p] = "own" /\ NameOf[sId[snap[p]][1]] = NameFor(p)

\* The wait for a snapshot was the wait for its volume: its bolt is free, and
\* what was cached is created, so that no snapshot is ever "busy".
NeverBusy ==
    \A p \in Proc :
        /\ spc[p] \in SLocking => sContext[snap[p]] = NilCtx
        /\ spc[p] = "lock" => sState[snap[p]] = "created"

\* A place holder, or a snapshot that was deleted, stays in the cache only
\* while a goroutine is there that will take it out.
NoStaleSnap ==
    \A n \in SName :
        sHash[n] # NoSnap /\ sState[sHash[n]] # "created" =>
            \E p \in Proc : spc[p] \in SReferring /\ snap[p] = sHash[n]

\* A goroutine works on the snapshot that is cached under the name.
SnapIsCached ==
    \A p \in Proc : spc[p] \in SReferring => sHash[sname[p]] = snap[p]

\* No snapshot points to a volume structure that is not the cached one of
\* its source: lookupSnapshot and releaseVolume would panic.
PointersFresh ==
    \A n \in SName : sHash[n] # NoSnap => vHash[NameOf[sId[sHash[n]][1]]] = sZvol[sHash[n]]
-----------------------------------------------------------------------------
(* The strengthening.                                                      *)

SnapLocals ==
    \A p \in Proc :
        /\ spc[p] \in Getting \cup SReferring => sname[p] \in SName
        /\ IF spc[p] \in SReferring THEN snap[p] \in Snap ELSE spc[p] = "panic" \/ snap[p] = NoSnap
        /\ spc[p] \in Getting /\ pc[p] = "idle" => spc[p] = "again"
        /\ spc[p] = "again" =>
             /\ id[p] \in VolumeId
             /\ pc[p] \in {"idle", "release", "relFast", "relLock", "relCheck", "panic"}

\* A snapshot is cached under the name in its ID, and keeps the structure
\* its source volume had, which has the ID of the source.
SnapUnderName ==
    \A n \in SName : sHash[n] # NoSnap =>
        /\ sId[sHash[n]] \in VolumeId \X SName
        /\ sId[sHash[n]][2] = n
        /\ sZvol[sHash[n]] \in Vol /\ volId[sZvol[sHash[n]]] = sId[sHash[n]][1]

\* Counts, owners and the writer are exact.
SnapCounts ==
    /\ \A p \in Proc : spc[p] \in SCounted => sRefcount[snap[p]] = 1
    /\ \A z \in Snap :
         (\A p \in Proc : spc[p] \in SCounted => snap[p] # z) => sRefcount[z] = 0
    /\ \A p \in Proc : sWriter = p <=> spc[p] = "relCheck"

SnapOwners ==
    /\ \A p \in Proc : spc[p] \in SOwning => sContext[snap[p]] = CtxOf[p]
    /\ \A z \in Snap :
         (\A p \in Proc : spc[p] \in SOwning => snap[p] # z) => sContext[z] = NilCtx

\* The path of releaseSnapshot fits the state of the snapshot.
ReleasePath ==
    \A p \in Proc :
        /\ spc[p] = "relFast" => sState[snap[p]] = "created"
        /\ spc[p] \in {"relLock", "relCheck"} => sState[snap[p]] # "created"

SIInv ==
    /\ IInv
    /\ STypeOK /\ SnapLocals /\ SnapUnderName /\ SnapCounts /\ SnapOwners /\ ReleasePath
    /\ SnapExclusive /\ SourceHeld /\ NeverBusy /\ NoStaleSnap /\ SnapIsCached
=============================================================================
