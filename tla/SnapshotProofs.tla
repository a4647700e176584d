--------------------------- MODULE SnapshotProofs ---------------------------
(***************************************************************************)
(* The snapshot cache and the snapshot methods, for any number of          *)
(* goroutines, volumes and snapshots, as long as no goroutine works with   *)
(* the nil context.                                                        *)
(*                                                                         *)
(* The caches.  To the volume cache, every step is one of its own or none, *)
(* so that IInv holds (VolumeCacheProofs).  SIInv adds to it what makes the*)
(* snapshots' part inductive.  Its core is SourceHeld: who refers to a     *)
(* snapshot owns a volume of the name of its source.  As the owner of a    *)
(* name is alone, who finds a cached snapshot of the volume it owns is     *)
(* alone with it too.                                                      *)
(*                                                                         *)
(* The service.  SnapServiceIInv says where each handler is with its       *)
(* volume, its snapshot and its request before each of its calls; with it, *)
(* every step is one of SnapshotCache.                                     *)
(*                                                                         *)
(* What becomes of shares.  What a handler has found out about its volume  *)
(* before a DELETE is still true when the DELETE is sent (Safe), since only*)
(* the owner of a volume makes snapshots and clones of it.                 *)
(*                                                                         *)
(* Quiet behaviours.  A cached snapshot refers to the structure under which*)
(* its volume is cached (SnapFresh), so that no look-up panics, and is on  *)
(* the appliance once it is in state created (SnapTrue).                   *)
(***************************************************************************)
EXTENDS SnapshotHistory, VolumeServiceProofs

\* What the proofs below use of the volume cache: types, and where the
\* structure of a goroutine and its ID belong.
LEMMA VolumeFacts ==
    ASSUME IInv
    PROVE  /\ pc \in [Proc -> PCs] /\ id \in [Proc -> VolumeId \cup {NoId}]
           /\ zvol \in [Proc -> Vol \cup {NoVol}] /\ volId \in [Vol -> VolumeId \cup {NoId}]
           /\ \A p \in Proc : pc[p] \in Referring =>
                /\ zvol[p] \in Vol
                /\ vHash[NameFor(p)] = zvol[p]
                /\ volId[zvol[p]] \in VolumeId
                /\ NameOf[volId[zvol[p]]] = NameFor(p)
           /\ \A p, q \in Proc :
                pc[p] = "own" /\ pc[q] = "own" /\ NameFor(p) = NameFor(q) => p = q
<1>1. \A p \in Proc : pc[p] \in Referring =>
        NameFor(p) \in Name /\ zvol[p] \in Vol /\ vHash[NameFor(p)] = zvol[p]
  BY CacheAssumption DEF IInv, LocalsSet, HeldIsCached, NameFor, Referring, Counted
<1>2. \A p \in Proc : pc[p] \in Referring =>
        volId[zvol[p]] \in VolumeId /\ NameOf[volId[zvol[p]]] = NameFor(p)
  BY <1>1, CacheAssumption DEF IInv, CachedUnderName
<1>3. \A p, q \in Proc :
        pc[p] = "own" /\ pc[q] = "own" /\ NameFor(p) = NameFor(q) => p = q
  BY IInvExcludes DEF ExclusiveAccess, Owning
<1> QED
  BY <1>1, <1>2, <1>3 DEF IInv, TypeOK

\* The owner of a volume is the only one to refer to a snapshot of it.
LEMMA Alone ==
    ASSUME SIInv, NEW p \in Proc, NEW q \in Proc, pc[p] = "own",
           spc[q] \in SReferring, NameOf[sId[snap[q]][1]] = NameFor(p)
    PROVE  q = p
  BY VolumeFacts DEF SIInv, SourceHeld

-----------------------------------------------------------------------------
(* Steps of a goroutine that refers to no snapshot, before or after.       *)

\* Such a step keeps SIInv if it gives an ID at most to a structure that no
\* snapshot points to, and leaves p at a place lookupSnapshot can be at.
LEMMA BesideKeeps ==
    ASSUME SIInv, IInv', UNCHANGED <<snapVars, snap>>, NEW p \in Proc,
           spc[p] \notin SReferring, spc'[p] \notin SReferring,
           spc[p] # "panic" \/ spc'[p] = "panic",
           spc' \in [Proc -> SPCs], sname' \in [Proc -> SName \cup {NoId}],
           \A q \in Proc \ {p} :
               pc'[q] = pc[q] /\ id'[q] = id[q] /\ spc'[q] = spc[q] /\ sname'[q] = sname[q],
           \A z \in Snap : InUse(z) /\ sZvol[z] \in Vol => volId'[sZvol[z]] = volId[sZvol[z]],
           spc'[p] \in Getting => sname'[p] \in SName /\ (pc'[p] = "idle" => spc'[p] = "again"),
           spc'[p] = "again" =>
               /\ id'[p] \in VolumeId
               /\ pc'[p] \in {"idle", "release", "relFast", "relLock", "relCheck", "panic"}
    PROVE  SIInv'
<1> USE DEF SIInv, snapVars
<1>1. \A q \in Proc : spc[q] \in SReferring \/ spc'[q] \in SReferring =>
        q # p /\ pc'[q] = pc[q] /\ id'[q] = id[q] /\ spc'[q] = spc[q] /\ sname'[q] = sname[q]
  OBVIOUS
<1>2. SnapLocals'
  BY <1>1 DEF SnapLocals, Getting
<1>3. SnapUnderName'
  BY DEF SnapUnderName, STypeOK, InUse
<1>4. SourceHeld'
  BY <1>1 DEF SourceHeld, NameFor
<1>5. STypeOK'
  BY DEF STypeOK
<1>6. (SnapCounts /\ SnapOwners /\ ReleasePath)'
  BY <1>1 DEF SnapCounts, SnapOwners, ReleasePath, SReferring, SOwning, SCounted
<1>7. (SnapExclusive /\ NoStaleSnap /\ SnapIsCached)'
  BY <1>1 DEF SnapExclusive, NoStaleSnap, SnapIsCached
<1>8. NeverBusy'
  BY <1>1 DEF NeverBusy, SReferring, SLocking
<1> QED
  BY <1>2, <1>3, <1>4, <1>5, <1>6, <1>7, <1>8

\* A request turns to a volume, or lookupSnapshot starts anew.
LEMMA StartAnyKeeps ==
    ASSUME NoNilCtx, SIInv, NEW p \in Proc, StartAny(p) \/ Again(p)
    PROVE  SIInv'
<1> USE DEF SIInv
<1>1. /\ \E method \in {"lookup", "new"}, i \in VolumeId : Call(p, method, i)
      /\ UNCHANGED <<snapVars, snap>>
  BY DEF StartAny, VolumeCall, SnapCall, Again, SnapLocals, sVars, sprocVars
<1>2. IInv'
  BY <1>1, StepIInv DEF Next, Start
<1>3. /\ pc'[p] \in {"lookup", "new"} /\ volId' = volId
      /\ \A q \in Proc \ {p} : pc'[q] = pc[q] /\ id'[q] = id[q]
  BY <1>1, VolumeFacts DEF Call, Goto, cacheVars
<1>4. /\ spc[p] \in {"none", "again"} /\ spc'[p] \in {"none", "lookup", "new", "renew"}
      /\ spc'[p] # "none" => sname'[p] \in SName
      /\ spc' \in [Proc -> SPCs] /\ sname' \in [Proc -> SName \cup {NoId}]
      /\ \A q \in Proc \ {p} : spc'[q] = spc[q] /\ sname'[q] = sname[q]
  BY DEF StartAny, VolumeCall, SnapCall, Again, SGoto, STypeOK, SnapLocals, Getting, SPCs,
     sVars, sprocVars
<1>5. {"none", "again", "lookup", "new", "renew"} \cap SReferring = {} /\ "none" \notin Getting
  BY DEF SReferring, SLocking, SOwning, Getting
<1>6. spc[p] \notin SReferring /\ spc'[p] \notin SReferring
  BY <1>4, <1>5
<1> QED
  BY <1>1, <1>2, <1>3, <1>4, <1>5, <1>6, BesideKeeps

\* The structure that newVolume adds is new to all snapshots.
LEMMA GetVolumeKeeps ==
    ASSUME NoNilCtx, SIInv, NEW p \in Proc, GetVolume(p)
    PROVE  SIInv'
<1>1. IInv'
  BY StepIInv DEF GetVolume, Next, Use, SIInv
<1>2. /\ pc[p] \in {"lookup", "new", "lock", "details"} /\ pc'[p] # "idle"
      /\ \A q \in Proc \ {p} : pc'[q] = pc[q] /\ id'[q] = id[q]
  BY VolumeFacts DEF GetVolume, Acquire, LookupHit, LookupMiss, NewHit, NewMiss, HoldCached,
     LockVolume, Details, Goto, SIInv
<1>3. spc[p] \notin SReferring /\ spc[p] # "again"
  BY <1>2 DEF SIInv, SourceHeld, SnapLocals
<1>4. \A z \in Snap : InUse(z) /\ sZvol[z] \in Vol => volId'[sZvol[z]] = volId[sZvol[z]]
  <2>1. CASE ~NewMiss(p)
    BY <2>1 DEF GetVolume, Acquire, LookupHit, LookupMiss, NewHit, HoldCached, LockVolume,
       Details, cacheVars
  <2>2. CASE NewMiss(p)
    <3>1. PICK v \in Vol : /\ vHash' = [vHash EXCEPT ![NameFor(p)] = v]
                           /\ volId' = [volId EXCEPT ![v] = id[p]]
                           /\ zvol' = [zvol EXCEPT ![p] = v]
      BY <2>2 DEF NewMiss
    <3>2. vHash[NameFor(p)] = NoVol /\ NameFor(p) \in Name
      BY <2>2, CacheAssumption DEF NewMiss, NameFor, SIInv, IInv, LocalsSet
    <3>3. vHash' # vHash /\ zvol'[p] = v
      BY <3>1, <3>2, VolumeFacts, CacheAssumption DEF SIInv, IInv, TypeOK
    <3> QED
      BY <3>1, <3>3, VolumeFacts DEF GetVolume, SIInv
  <2> QED
    BY <2>1, <2>2
<1> QED
  BY <1>1, <1>2, <1>3, <1>4, BesideKeeps DEF GetVolume, SIInv, STypeOK, SnapLocals, sVars,
     snapVars, sprocVars

LEMMA UseVolumeKeeps ==
    ASSUME NoNilCtx, SIInv, NEW p \in Proc, UseVolume(p)
    PROVE  SIInv'
<1>1. IInv'
  BY StepIInv DEF UseVolume, Next, Use, SIInv
<1>2. \A q \in Proc \ {p} : pc'[q] = pc[q] /\ id'[q] = id[q]
  BY VolumeFacts DEF UseVolume, SetState, Finish, Goto, procVars, SIInv
<1>3. volId' = volId /\ spc[p] = "none" /\ UNCHANGED <<spc, sname, snapVars, snap>>
  BY DEF UseVolume, SetState, Finish, cacheVars, sVars, sprocVars
<1> QED
  BY <1>1, <1>2, <1>3, BesideKeeps DEF SIInv, STypeOK, SReferring, SLocking, SOwning, Getting

\* In releaseVolume a goroutine does not own the volume any more.
LEMMA ReleaseVolumeKeeps ==
    ASSUME NoNilCtx, SIInv, NEW p \in Proc, ReleaseVolume(p)
    PROVE  SIInv'
<1> USE DEF SIInv, SGoto
<1>1. IInv'
  BY StepIInv DEF ReleaseVolume, Next
<1>2. /\ pc[p] \in {"release", "relFast", "relLock", "relCheck"}
      /\ pc'[p] \in {"idle", "relFast", "relLock", "relCheck", "panic"}
      /\ volId' = volId /\ id' = id
      /\ \A q \in Proc \ {p} : pc'[q] = pc[q]
  BY VolumeFacts DEF ReleaseVolume, Release, ReleaseRef, ReleaseFast, ReleaseSlow, ReleaseCheck,
     UnlockPanic, Goto, cacheVars
<1>3. spc[p] \notin SReferring /\ spc[p] # "panic"
  BY <1>2 DEF SourceHeld, ReleaseVolume, SAlive
<1>4. /\ spc'[p] = spc[p] \/ spc'[p] = "none"
      /\ pc'[p] = "idle" /\ spc[p] # "again" => spc'[p] = "none"
      /\ \A q \in Proc \ {p} : spc'[q] = spc[q]
      /\ spc' \in [Proc -> SPCs] /\ UNCHANGED <<snapVars, sname, snap>>
  BY DEF ReleaseVolume, STypeOK, SPCs
<1>5. "none" \notin SReferring \cup Getting
  BY DEF SReferring, SLocking, SOwning, Getting
<1> QED
  BY <1>1, <1>2, <1>3, <1>4, <1>5, BesideKeeps DEF STypeOK, SnapLocals

\* lookupSnapshot finds nothing, newSnapshot a snapshot of another volume.
LEMMA TurnedAwayKeeps ==
    ASSUME NoNilCtx, SIInv, NEW p \in Proc, LookupSnapMiss(p) \/ OtherSource(p)
    PROVE  SIInv'
<1> USE DEF SIInv, SGoto, LookupSnapMiss, OtherSource, CanAdd, HasVolume
<1>1. IInv'
  BY StepIInv DEF Next, Use
<1>2. /\ pc'[p] = "release" /\ volId' = volId /\ id' = id
      /\ \A q \in Proc \ {p} : pc'[q] = pc[q]
  BY VolumeFacts DEF Finish, Goto, cacheVars
<1>3. /\ spc[p] \in {"lookup", "new", "renew"} /\ spc'[p] \in {"none", "again"}
      /\ \A q \in Proc \ {p} : spc'[q] = spc[q]
      /\ spc' \in [Proc -> SPCs] /\ UNCHANGED <<snapVars, sname, snap>>
  BY DEF STypeOK, SPCs, Getting
<1>4. id[p] \in VolumeId /\ sname[p] \in SName
  BY <1>3 DEF SnapLocals, Getting, IInv, LocalsSet
<1> QED
  BY <1>1, <1>2, <1>3, <1>4, BesideKeeps DEF STypeOK, SReferring, SLocking, SOwning

-----------------------------------------------------------------------------
(* Steps that leave the volume alone.                                      *)

\* A cached snapshot of the volume p owns: p is alone with it, its bolt is
\* free, and it is created.
LEMMA HoldSnapKeeps ==
    ASSUME NoNilCtx, SIInv, NEW p \in Proc, HoldSnap(p), pc[p] = "own", spc[p] \in Getting,
           sHash[sname[p]] # NoSnap, NameOf[sId[sHash[sname[p]]][1]] = NameFor(p)
    PROVE  SIInv'
<1> USE SnapAssumption DEF SIInv, HoldSnap, SGoto, vars, cacheVars, procVars
<1>1. IInv'
  BY StepIInv
<1> DEFINE z == sHash[sname[p]]
<1>2. z \in Snap /\ sname[p] \in SName /\ spc[p] \notin SReferring
  BY DEF STypeOK, SnapLocals, Getting, SReferring, SLocking, SOwning
<1>3. \A q \in Proc : spc[q] \in SReferring => snap[q] # z
  BY <1>2, Alone
<1>4. sState[z] = "created" /\ sContext[z] = NilCtx /\ sRefcount[z] = 0
  BY <1>2, <1>3 DEF NoStaleSnap, SnapOwners, SnapCounts, SReferring, SCounted, SOwning
<1>5. /\ snap' = [snap EXCEPT ![p] = z] /\ spc' = [spc EXCEPT ![p] = "lock"]
      /\ sRefcount' = [sRefcount EXCEPT ![z] = 1]
  BY <1>4
<1> HIDE DEF z
<1>6. (STypeOK /\ SnapLocals /\ SnapUnderName)'
  BY <1>2, <1>5 DEF STypeOK, SnapLocals, SnapUnderName, SPCs, Getting, SReferring, SLocking, SOwning
<1>7. (SnapCounts /\ SnapOwners /\ ReleasePath)'
  BY <1>2, <1>3, <1>5 DEF SnapCounts, SnapOwners, ReleasePath, STypeOK, SReferring, SCounted,
     SLocking, SOwning
<1>8. (SnapExclusive /\ SourceHeld /\ SnapIsCached)'
  BY <1>2, <1>3, <1>5 DEF SnapExclusive, SourceHeld, SnapIsCached, STypeOK, NameFor, z
<1>9. (NeverBusy /\ NoStaleSnap)'
  BY <1>2, <1>3, <1>4, <1>5 DEF NeverBusy, NoStaleSnap, STypeOK, SReferring, SLocking, SOwning
<1> QED
  BY <1>1, <1>6, <1>7, <1>8, <1>9

LEMMA SnapHitsKeep ==
    ASSUME NoNilCtx, SIInv, NEW p \in Proc, LookupSnapHit(p) \/ NewSnapHit(p)
    PROVE  SIInv'
<1> USE DEF SIInv, HasVolume
<1>1. CASE NewSnapHit(p)
  BY <1>1, HoldSnapKeeps DEF NewSnapHit, CanAdd, SameSource, NameFor, Getting
<1>2. CASE LookupSnapHit(p) /\ sZvol[sHash[sname[p]]] = zvol[p]
  <2>1. sname[p] \in SName
    BY <1>2 DEF LookupSnapHit, SnapLocals, Getting
  <2>2. NameOf[sId[sHash[sname[p]]][1]] = NameFor(p)
    BY <1>2, <2>1, VolumeFacts DEF LookupSnapHit, SnapUnderName, Referring, Counted
  <2> QED
    BY <1>2, <2>2, HoldSnapKeeps DEF LookupSnapHit, Getting
<1>3. CASE LookupSnapHit(p) /\ sZvol[sHash[sname[p]]] # zvol[p]
  <2>1. /\ UNCHANGED <<vars, snapVars, sname, snap>> /\ spc' = [spc EXCEPT ![p] = "panic"]
        /\ spc[p] = "lookup"
    BY <1>3 DEF LookupSnapHit, SGoto
  <2>2. IInv'
    BY <2>1, StepIInv
  <2> QED
    BY <2>1, <2>2, BesideKeeps DEF STypeOK, SPCs, SReferring, SLocking, SOwning, Getting, vars, procVars, cacheVars
<1> QED
  BY <1>1, <1>2, <1>3

\* A new place holder is in nobody else's hands.
LEMMA AddSnapKeeps ==
    ASSUME NoNilCtx, SIInv, NEW p \in Proc, AddSnap(p)
    PROVE  SIInv'
<1> USE SnapAssumption DEF SIInv, AddSnap, SGoto, CanAdd, HasVolume, vars, cacheVars, procVars
<1>1. IInv'
  BY StepIInv
<1>2. PICK z \in Snap :
         /\ ~InUse(z)
         /\ sHash' = [sHash EXCEPT ![sname[p]] = z]
         /\ sId' = [sId EXCEPT ![z] = <<volId[zvol[p]], sname[p]>>]
         /\ sZvol' = [sZvol EXCEPT ![z] = zvol[p]]
         /\ sState' = [sState EXCEPT ![z] = "creating"]
         /\ sRefcount' = [sRefcount EXCEPT ![z] = 1]
         /\ sContext' = [sContext EXCEPT ![z] = NilCtx]
         /\ snap' = [snap EXCEPT ![p] = z]
  BY Zenon
<1>3. /\ sname[p] \in SName /\ spc[p] \notin SReferring /\ pc[p] = "own"
      /\ zvol[p] \in Vol /\ volId[zvol[p]] \in VolumeId /\ NameOf[volId[zvol[p]]] = NameFor(p)
      /\ sHash[sname[p]] = NoSnap
  BY VolumeFacts DEF SnapLocals, Getting, SReferring, SLocking, SOwning, Referring, Counted
<1>4. PICK where \in {"lockNew", "lockFill"} : spc' = [spc EXCEPT ![p] = where]
  OBVIOUS
<1>5. /\ \A n \in SName : sHash[n] # z
      /\ \A q \in Proc : snap[q] # z
      /\ \A q \in Proc : spc[q] \in SReferring => sname[q] # sname[p] /\ snap[q] \in Snap
  BY <1>2, <1>3 DEF InUse, SnapIsCached, SnapLocals
<1>6. UNCHANGED <<vars, sWriter, sname>>
  OBVIOUS
<1> USE <1>2, <1>3, <1>4, <1>5, <1>6
<1>7. (STypeOK /\ SnapLocals /\ SnapUnderName)'
  BY DEF STypeOK, SnapLocals, SnapUnderName, SPCs, States, Getting, SReferring, SLocking, SOwning
<1>8. (SnapCounts /\ SnapOwners /\ ReleasePath)'
  BY DEF SnapCounts, SnapOwners, ReleasePath, STypeOK, SReferring, SCounted, SLocking, SOwning
<1>9. (SnapExclusive /\ SourceHeld /\ SnapIsCached)'
  BY DEF SnapExclusive, SourceHeld, SnapIsCached, STypeOK, NameFor, SReferring, SLocking
<1>10. (NeverBusy /\ NoStaleSnap)'
  BY DEF NeverBusy, NoStaleSnap, STypeOK, SReferring, SLocking, SOwning
<1> QED
  BY <1>1, <1>7, <1>8, <1>9, <1>10

\* The bolt was free; a snapshot that was cached is created.
LEMMA LockSnapKeeps ==
    ASSUME NoNilCtx, SIInv, NEW p \in Proc, LockSnap(p)
    PROVE  SIInv'
<1> USE DEF SIInv, LockSnap, SGoto, vars, cacheVars, procVars
<1>1. IInv'
  BY StepIInv
<1>2. snap[p] \in Snap /\ spc[p] \in SReferring
  BY DEF SnapLocals, SReferring
<1>3. PICK where \in {"own", "details"} :
        /\ spc' = [spc EXCEPT ![p] = where]
        /\ spc[p] = "lock" => sState[snap[p]] = "created"
  BY DEF SLocking, NeverBusy
<1>4. \A q \in Proc : spc[q] \in SReferring /\ snap[q] = snap[p] => q = p
  BY <1>2 DEF SnapExclusive
<1>5. CtxOf[p] \in Ctx /\ UNCHANGED <<vars, sHash, sWriter, sId, sZvol, sState, sRefcount, sname, snap>>
  BY CacheAssumption DEF NoNilCtx
<1>6. (STypeOK /\ SnapLocals /\ SnapUnderName)'
  BY <1>2, <1>3, <1>5 DEF STypeOK, SnapLocals, SnapUnderName, SPCs, Getting, SReferring, SLocking, SOwning
<1>7. (SnapCounts /\ SnapOwners /\ ReleasePath)'
  BY <1>2, <1>3, <1>4, <1>5 DEF SnapCounts, SnapOwners, ReleasePath, STypeOK, SReferring, SCounted,
     SLocking, SOwning
<1>8. (SnapExclusive /\ SourceHeld /\ SnapIsCached)'
  BY <1>2, <1>3, <1>4, <1>5 DEF SnapExclusive, SourceHeld, SnapIsCached, STypeOK, NameFor
<1>9. (NeverBusy /\ NoStaleSnap)'
  BY <1>2, <1>3, <1>4, <1>5 DEF NeverBusy, NoStaleSnap, STypeOK, SReferring, SLocking, SOwning
<1> QED
  BY <1>1, <1>6, <1>7, <1>8, <1>9

\* The owner changes the state, or is done.
LEMMA UseSnapKeeps ==
    ASSUME NoNilCtx, SIInv, NEW p \in Proc, UseSnap(p)
    PROVE  SIInv'
<1> USE DEF SIInv, SGoto, vars, cacheVars, procVars
<1>1. /\ UNCHANGED <<vars, sHash, sWriter, sId, sZvol, sRefcount, sContext, sname, snap>>
      /\ spc[p] \in {"details", "own"}
  BY DEF UseSnap, SnapDetails, SetSnapState, FinishSnap, HasVolume, snapVars, sprocVars
<1>2. IInv'
  BY <1>1, StepIInv
<1>3. snap[p] \in Snap
  BY <1>1 DEF SnapLocals, SReferring, SOwning
<1>4. PICK where \in {"own", "release"} : spc' = [spc EXCEPT ![p] = where]
  <2>1. spc[p] = "own" => spc = [spc EXCEPT ![p] = "own"]
    BY DEF STypeOK
  <2> QED
    BY <2>1 DEF UseSnap, SnapDetails, SetSnapState, FinishSnap, HasVolume, sprocVars
<1>5. \E t \in States : sState' = [sState EXCEPT ![snap[p]] = t]
  BY <1>1, <1>3 DEF UseSnap, SnapDetails, SetSnapState, FinishSnap, snapVars, STypeOK, States
<1>6. \A q \in Proc : spc[q] \in SReferring /\ snap[q] = snap[p] => q = p
  BY <1>1 DEF SnapExclusive, SReferring, SOwning
<1>7. (STypeOK /\ SnapLocals /\ SnapUnderName)'
  BY <1>1, <1>3, <1>4, <1>5 DEF STypeOK, SnapLocals, SnapUnderName, SPCs, Getting, SReferring, SLocking, SOwning
<1>8. (SnapCounts /\ SnapOwners /\ ReleasePath)'
  BY <1>1, <1>3, <1>4, <1>5, <1>6 DEF SnapCounts, SnapOwners, ReleasePath, STypeOK, SReferring, SCounted,
     SLocking, SOwning
<1>9. (SnapExclusive /\ SourceHeld /\ SnapIsCached)'
  BY <1>1, <1>4 DEF SnapExclusive, SourceHeld, SnapIsCached, STypeOK, NameFor, SReferring, SOwning
<1>10. (NeverBusy /\ NoStaleSnap)'
  BY <1>1, <1>3, <1>4, <1>5, <1>6 DEF NeverBusy, NoStaleSnap, STypeOK, SReferring, SLocking, SOwning
<1> QED
  BY <1>2, <1>7, <1>8, <1>9, <1>10

-----------------------------------------------------------------------------
(* Steps of releaseSnapshot.                                               *)

\* The count was one: the path depends on the state only.
LEMMA ReleaseSnapRefKeeps ==
    ASSUME NoNilCtx, SIInv, NEW p \in Proc, ReleaseSnapRef(p)
    PROVE  SIInv'
<1> USE DEF SIInv, ReleaseSnapRef, HasVolume, SGoto, vars, cacheVars, procVars
<1>1. IInv'
  BY StepIInv
<1>2. snap[p] \in Snap /\ sRefcount[snap[p]] = 1
  BY DEF SnapLocals, SnapCounts, SReferring, SOwning, SCounted
<1>3. PICK where \in {"relLock", "relFast"} :
        /\ spc' = [spc EXCEPT ![p] = where]
        /\ where = "relLock" <=> sState[snap[p]] # "created"
  BY <1>2
<1>4. /\ sRefcount' = [sRefcount EXCEPT ![snap[p]] = 0]
      /\ UNCHANGED <<vars, sHash, sWriter, sId, sZvol, sState, sContext, sname, snap>>
  BY <1>2
<1>5. \A q \in Proc : spc[q] \in SReferring /\ snap[q] = snap[p] => q = p
  BY DEF SnapExclusive, SReferring, SOwning
<1>6. (STypeOK /\ SnapLocals /\ SnapUnderName)'
  BY <1>2, <1>3, <1>4 DEF STypeOK, SnapLocals, SnapUnderName, SPCs, Getting, SReferring, SLocking, SOwning
<1>7. (SnapCounts /\ SnapOwners /\ ReleasePath)'
  BY <1>2, <1>3, <1>4, <1>5 DEF SnapCounts, SnapOwners, ReleasePath, STypeOK, SReferring, SCounted,
     SLocking, SOwning
<1>8. (SnapExclusive /\ SourceHeld /\ SnapIsCached)'
  BY <1>3, <1>4 DEF SnapExclusive, SourceHeld, SnapIsCached, STypeOK, NameFor, SReferring, SOwning
<1>9. (NeverBusy /\ NoStaleSnap)'
  BY <1>2, <1>3, <1>4 DEF NeverBusy, NoStaleSnap, STypeOK, SReferring, SLocking, SOwning
<1> QED
  BY <1>1, <1>6, <1>7, <1>8, <1>9

\* Under the write lock, the bolt is given up.
LEMMA ReleaseSnapSlowKeeps ==
    ASSUME NoNilCtx, SIInv, NEW p \in Proc, ReleaseSnapSlow(p)
    PROVE  SIInv'
<1> USE DEF SIInv, SGoto, vars, cacheVars, procVars
<1>1. /\ pc[p] = "own" /\ spc[p] = "relLock" /\ sWriter = NoProc
      /\ snap[p] \in Snap /\ sContext[snap[p]] = CtxOf[p]
  BY DEF ReleaseSnapSlow, HasVolume, SnapLocals, SnapOwners, SReferring, SOwning
<1>2. /\ spc' = [spc EXCEPT ![p] = "relCheck"] /\ sWriter' = p
      /\ sContext' = [sContext EXCEPT ![snap[p]] = NilCtx]
      /\ UNCHANGED <<vars, sHash, sId, sZvol, sState, sRefcount, sname, snap>>
  BY <1>1 DEF ReleaseSnapSlow, UnlockSnap, UnlockSnapPanic
<1>3. IInv'
  BY <1>2, StepIInv
<1>4. \A q \in Proc : spc[q] \in SReferring /\ snap[q] = snap[p] => q = p
  BY <1>1 DEF SnapExclusive, SReferring, SOwning
<1>5. \A q \in Proc : spc[q] # "relCheck"
  BY <1>1, CacheAssumption DEF SnapCounts
<1>6. (STypeOK /\ SnapLocals /\ SnapUnderName)'
  BY <1>1, <1>2 DEF STypeOK, SnapLocals, SnapUnderName, SPCs, Getting, SReferring, SLocking, SOwning
<1>7. (SnapCounts /\ SnapOwners /\ ReleasePath)'
  BY <1>1, <1>2, <1>4, <1>5 DEF SnapCounts, SnapOwners, ReleasePath, STypeOK, SReferring, SCounted,
     SLocking, SOwning
<1>8. (SnapExclusive /\ SourceHeld /\ SnapIsCached)'
  BY <1>1, <1>2 DEF SnapExclusive, SourceHeld, SnapIsCached, STypeOK, NameFor, SReferring, SOwning
<1>9. (NeverBusy /\ NoStaleSnap)'
  BY <1>1, <1>2 DEF NeverBusy, NoStaleSnap, STypeOK, SReferring, SLocking, SOwning
<1> QED
  BY <1>3, <1>6, <1>7, <1>8, <1>9

\* The volume the snapshot points to is given up with it; if it is not p's,
\* p panics.  Either way p refers to the snapshot no more.
LEMMA ReleaseSourceLeaves ==
    ASSUME NoNilCtx, SIInv, NEW p \in Proc, pc[p] = "own", ReleaseSource(p)
    PROVE  /\ IInv' /\ volId' = volId /\ id' = id
           /\ \A q \in Proc \ {p} : pc'[q] = pc[q] /\ spc'[q] = spc[q] /\ snap'[q] = snap[q]
           /\ spc'[p] = "panic" \/ (spc'[p] = "none" /\ snap'[p] = NoSnap)
           /\ spc' \in [Proc -> SPCs] /\ snap' \in [Proc -> Snap \cup {NoSnap}]
<1> USE DEF SIInv, SGoto, STypeOK, SPCs
<1>1. CASE Finish(p) /\ SGoto(p, "none") /\ snap' = [snap EXCEPT ![p] = NoSnap]
  <2>1. IInv'
    BY <1>1, StepIInv DEF Next, Use
  <2> QED
    BY <1>1, <2>1, VolumeFacts DEF Finish, Goto, cacheVars
<1>2. CASE SGoto(p, "panic") /\ UNCHANGED <<vars, snap>>
  <2>1. IInv'
    BY <1>2, StepIInv
  <2> QED
    BY <1>2, <2>1 DEF vars, procVars, cacheVars
<1> QED
  BY <1>1, <1>2 DEF ReleaseSource

\* releaseSnapshot is over for p, which was alone with the snapshot: it keeps
\* SIInv if the snapshot is unlocked and, unless it is created, dropped.
LEMMA LeaveKeeps ==
    ASSUME NoNilCtx, SIInv, NEW p \in Proc, pc[p] = "own", spc[p] \in {"relFast", "relCheck"},
           ReleaseSource(p),
           UNCHANGED <<sId, sZvol, sState, sRefcount, sname>>,
           sContext' = [sContext EXCEPT ![snap[p]] = NilCtx],
           sWriter' = IF spc[p] = "relCheck" THEN NoProc ELSE sWriter,
           sHash' = IF spc[p] = "relCheck" THEN [sHash EXCEPT ![sname[p]] = NoSnap] ELSE sHash
    PROVE  SIInv'
<1>1. /\ IInv' /\ volId' = volId /\ id' = id
      /\ \A q \in Proc \ {p} : pc'[q] = pc[q] /\ spc'[q] = spc[q] /\ snap'[q] = snap[q]
      /\ spc'[p] = "panic" \/ (spc'[p] = "none" /\ snap'[p] = NoSnap)
      /\ spc' \in [Proc -> SPCs] /\ snap' \in [Proc -> Snap \cup {NoSnap}]
  BY ReleaseSourceLeaves
<1> USE SnapAssumption DEF SIInv
<1>2. /\ snap[p] \in Snap /\ sname[p] \in SName /\ sHash[sname[p]] = snap[p]
      /\ \A q \in Proc : spc[q] \in SReferring /\ snap[q] = snap[p] => q = p
      /\ \A q \in Proc \ {p} : spc[q] \in SReferring => sname[q] # sname[p]
  BY DEF SnapLocals, SnapIsCached, SnapExclusive, SReferring, SOwning
<1>3. /\ spc'[p] \notin SReferring \cup Getting
      /\ \A q \in Proc : spc'[q] \in SReferring => q # p
  BY <1>1 DEF SReferring, SLocking, SOwning, Getting
<1>4. /\ sHash' \in [SName -> Snap \cup {NoSnap}]
      /\ \A n \in SName : sHash'[n] # NoSnap =>
           sHash'[n] = sHash[n] /\ (spc[p] = "relCheck" => n # sname[p])
      /\ \A n \in SName : n # sname[p] => sHash'[n] = sHash[n]
  BY <1>2 DEF STypeOK
<1>5. (STypeOK /\ SnapUnderName)'
  BY <1>1, <1>2, <1>4, CacheAssumption DEF STypeOK, SnapUnderName
<1>6. SnapLocals'
  BY <1>1, <1>2, <1>3 DEF SnapLocals, STypeOK, Getting
<1>7. SnapCounts'
  BY <1>1, <1>2, <1>3, CacheAssumption DEF SnapCounts, STypeOK, SReferring, SCounted, SLocking, SOwning
<1>8. (SnapOwners /\ ReleasePath)'
  BY <1>1, <1>2, <1>3 DEF SnapOwners, ReleasePath, STypeOK, SReferring, SLocking, SOwning
<1>9. (SnapExclusive /\ SourceHeld /\ SnapIsCached)'
  BY <1>1, <1>2, <1>3, <1>4 DEF SnapExclusive, SourceHeld, SnapIsCached, NameFor, SnapLocals
<1>10. NeverBusy'
  BY <1>1, <1>2, <1>3 DEF NeverBusy, STypeOK, SReferring, SLocking
<1>11. NoStaleSnap'
  <2> SUFFICES ASSUME NEW n \in SName, sHash'[n] # NoSnap, sState[sHash'[n]] # "created"
               PROVE  \E q \in Proc : spc'[q] \in SReferring /\ snap'[q] = sHash'[n]
    BY DEF NoStaleSnap
  <2>1. PICK q \in Proc : spc[q] \in SReferring /\ snap[q] = sHash[n]
    BY <1>4 DEF NoStaleSnap
  <2>2. q # p
    BY <1>2, <1>4, <2>1 DEF ReleasePath, SnapUnderName
  <2> QED
    BY <1>1, <1>4, <2>1, <2>2
<1> QED
  BY <1>1, <1>5, <1>6, <1>7, <1>8, <1>9, <1>10, <1>11

LEMMA ReleaseSnapFastKeeps ==
    ASSUME NoNilCtx, SIInv, NEW p \in Proc, ReleaseSnapFast(p)
    PROVE  SIInv'
<1>1. spc[p] = "relFast" /\ pc[p] = "own" /\ sContext[snap[p]] = CtxOf[p]
  BY DEF ReleaseSnapFast, HasVolume, SIInv, SnapOwners, SOwning
<1>2. /\ sContext' = [sContext EXCEPT ![snap[p]] = NilCtx] /\ ReleaseSource(p)
      /\ UNCHANGED <<sHash, sWriter, sId, sZvol, sState, sRefcount, sname>>
  BY <1>1 DEF ReleaseSnapFast, UnlockSnap, UnlockSnapPanic
<1> QED
  BY <1>1, <1>2, LeaveKeeps

LEMMA ReleaseSnapCheckKeeps ==
    ASSUME NoNilCtx, SIInv, NEW p \in Proc, ReleaseSnapCheck(p)
    PROVE  SIInv'
<1> USE SnapAssumption DEF SIInv
<1>1. /\ spc[p] = "relCheck" /\ pc[p] = "own" /\ snap[p] \in Snap
      /\ sState[snap[p]] # "created" /\ sHash[sname[p]] = snap[p] /\ sname[p] \in SName
      /\ \A q \in Proc : spc[q] \in SReferring /\ snap[q] = snap[p] => q = p
  BY DEF ReleaseSnapCheck, HasVolume, SnapLocals, ReleasePath, SnapIsCached, SnapExclusive,
     SReferring
<1>2. sRefcount[snap[p]] = 0 /\ sContext[snap[p]] = NilCtx /\ sId[snap[p]][2] = sname[p]
  BY <1>1 DEF SnapCounts, SnapOwners, SnapUnderName, SReferring, SCounted, SLocking, SOwning
<1>3. sContext' = [sContext EXCEPT ![snap[p]] = NilCtx]
  BY <1>1, <1>2 DEF ReleaseSnapCheck, STypeOK
<1> HIDE DEF SIInv
<1> QED
  BY <1>1, <1>2, <1>3, LeaveKeeps DEF ReleaseSnapCheck, DropSnap

-----------------------------------------------------------------------------
LEMMA InitSIInv == Init /\ SnapInit => SIInv
<1> SUFFICES ASSUME Init, SnapInit PROVE SIInv
  OBVIOUS
<1> USE SnapAssumption, CacheAssumption
        DEF SnapInit, SReferring, SLocking, SOwning, SCounted, Getting
<1>1. IInv
  BY InitIInv
<1>2. STypeOK /\ SnapLocals /\ SnapUnderName
  BY DEF STypeOK, SnapLocals, SnapUnderName, SPCs, States
<1>3. SnapCounts /\ SnapOwners /\ ReleasePath /\ NeverBusy
  BY DEF SnapCounts, SnapOwners, ReleasePath, NeverBusy
<1>4. SnapExclusive /\ SourceHeld /\ NoStaleSnap /\ SnapIsCached
  BY DEF SnapExclusive, SourceHeld, NoStaleSnap, SnapIsCached
<1> QED
  BY <1>1, <1>2, <1>3, <1>4 DEF SIInv

\* Every step keeps the inductive invariant.
LEMMA StepSIInv == ASSUME NoNilCtx, SIInv, [SnapNext]_cVars PROVE SIInv'
<1>1. CASE UNCHANGED cVars
  <2>1. IInv'
    BY <1>1, StepIInv DEF cVars, SIInv
  <2> QED
    BY <1>1, <2>1 DEF cVars, vars, procVars, cacheVars, sVars, snapVars, sprocVars, SIInv, STypeOK,
       SnapLocals, SnapUnderName, SnapCounts, SnapOwners, ReleasePath, SnapExclusive,
       SourceHeld, NeverBusy, NoStaleSnap, SnapIsCached, NameFor
<1>2. ASSUME NEW p \in Proc, StartAny(p) \/ GetVolume(p) \/ UseVolume(p) \/ ReleaseVolume(p)
      PROVE  SIInv'
  BY <1>2, StartAnyKeeps, GetVolumeKeeps, UseVolumeKeeps, ReleaseVolumeKeeps
<1>3. ASSUME NEW p \in Proc, AcquireSnap(p) PROVE SIInv'
  BY <1>3, SnapHitsKeep, TurnedAwayKeeps, StartAnyKeeps, AddSnapKeeps, LockSnapKeeps
     DEF AcquireSnap
<1>4. ASSUME NEW p \in Proc, UseSnap(p) PROVE SIInv'
  BY <1>4, UseSnapKeeps
<1>5. ASSUME NEW p \in Proc, ReleaseSnap(p) PROVE SIInv'
  BY <1>5, ReleaseSnapRefKeeps, ReleaseSnapFastKeeps, ReleaseSnapSlowKeeps, ReleaseSnapCheckKeeps
     DEF ReleaseSnap
<1> QED
  BY <1>1, <1>2, <1>3, <1>4, <1>5 DEF SnapNext

\* The inductive invariant holds: who has a snapshot is alone with it, owns a
\* volume of the name of its source, and never finds it busy; counts are exact,
\* and no place holder is left behind.
THEOREM SnapInvariant == NoNilCtx => (SnapSpec => []SIInv)
<1> SUFFICES ASSUME NoNilCtx PROVE SnapSpec => []SIInv
  OBVIOUS
<1>1. SIInv /\ [SnapNext]_cVars => SIInv'
  BY StepSIInv
<1> QED
  BY InitSIInv, <1>1, PTL DEF SnapSpec

\* "The caller gets exclusive access to the returned snapshot and its volume
\* source", while its goroutine refers to the snapshot.
THEOREM SnapshotsExclusive == NoNilCtx => (SnapSpec => [](SnapExclusive /\ SourceHeld))
<1> SUFFICES ASSUME NoNilCtx PROVE SnapSpec => [](SnapExclusive /\ SourceHeld)
  OBVIOUS
<1>1. SIInv /\ [SnapNext]_cVars => SIInv'
  BY StepSIInv
<1>2. SIInv => SnapExclusive /\ SourceHeld
  BY DEF SIInv
<1> QED
  BY InitSIInv, <1>1, <1>2, PTL DEF SnapSpec

-----------------------------------------------------------------------------
(* The service.  Its handlers, at each of their calls, are where they have *)
(* what they need, with the request the call belongs to.                   *)

VolumeCalling == Calling \cup {"clonelookup", "waiting", "listsnaps"}
SnapCalling ==
    {"snappost", "snapcheck", "snaprefresh", "snapdelete", "snapget", "snapstore", "clone"}
AtCalls == VolumeCalling \cup SnapCalling \cup {"list", "listallsnaps", "done"}
GivingBack == {"release", "relFast", "relLock", "relCheck", "panic"}

\* Where p is with its volume and its snapshot fits its next call; a snapshot
\* comes with a volume that was looked up, and found.
PlaceFits(p) ==
    /\ at[p] \in VolumeCalling => spc[p] = "none" /\ pc[p] \notin {"idle"} \cup GivingBack
    /\ at[p] \in SnapCalling =>
         /\ spc[p] \in Getting \cup SLocking \cup {"details", "own", "panic"}
         /\ pc[p] \notin {"idle"} \cup GivingBack \/ spc[p] = "again"
    /\ at[p] \in {"list", "listallsnaps"} => pc[p] = "idle" /\ spc[p] = "none"
    /\ at[p] = "done" =>
         \/ spc[p] \in {"none", "own", "release", "relFast", "relLock", "relCheck", "panic"}
         \/ spc[p] \in {"lookup", "new", "renew"} /\ pc[p] \in GivingBack
    /\ at[p] \in {"refresh", "snaps2", "delete", "setgroup", "waiting"} => pc[p] = "own"
    /\ at[p] = "setgroup" => IsBlock(p)
    /\ at[p] \in {"snapcheck", "snapdelete"} => spc[p] = "own"
    /\ spc[p] # "none" => call[p] = "lookup" /\ sname[p] \in SnapName
    /\ spc[p] # "none" /\ pc[p] = "own" => state[zvol[p]] = "created"

\* The call belongs to the request of p; who has replied calls nothing more.
RequestFits(p) ==
    /\ at[p] \in {"post", "refresh"} => req[p].op = "create" /\ req[p].range \in Ranges
    /\ at[p] = "modify" => req[p].op = "expand" /\ req[p].size \in Capacity
    /\ at[p] \in {"getgroup", "setgroup"} => req[p].op = "publish" /\ req[p].node \in Node
    /\ at[p] \in {"clonelookup", "waiting"} =>
         p \in DOMAIN Second /\ req[p] \in CloneRequests /\ id[p] = req[p].id
    /\ at[p] \in {"snappost", "snapcheck"} => req[p].op = "createsnap"
    /\ at[p] \in {"snaprefresh", "snapdelete"} => req[p].op = "deletesnap"
    /\ at[p] = "snapget" => req[p].op = "getsnap"
    /\ at[p] = "snapstore" => req[p].op = "listallsnaps"
    /\ at[p] = "clone" => req[p].op = "lookupsnap"
    /\ at[p] = "list" => req[p].op = "list"
    /\ at[p] = "listallsnaps" => req[p].op = "listallsnaps"
    /\ req[p].op = "list" => \A item \in todo[p] : item.id \in VolumeId
    /\ req[p].op = "listallsnaps" => todo[p] \subseteq VolumeId \X SnapName
    /\ reply[p] # "none" => at[p] = "done" /\ pc[p] \in {"own"} \cup GivingBack

\* What looks up the source of a clone looks up what p has asked for.
SecondFits(p) ==
    p \in DOMAIN Second =>
        /\ req[Second[p]] \in {Idle, Lookup}
        /\ at[p] = "waiting" /\ req[Second[p]] = Lookup =>
             id[Second[p]] = req[p].source /\ sname[Second[p]] = req[p].snap

\* A filesystem has no initiator groups, and a LUN has a size: what the
\* appliance tells of a share is never taken for an empty answer.
SharesFit ==
    /\ share \in [VolumeId -> Shares \cup {NoShare}]
    /\ \A i \in VolumeId \ BlockId : share[i] # NoShare => share[i].group = MaskAll
    /\ \A i \in BlockId : share[i] # NoShare => share[i].cap > 0

InfoFits == DOMAIN info = Vol /\ \A v \in Vol : DOMAIN info[v] = DOMAIN UnknownInfo

\* The handlers, for every fault of REST calls.
HandlersFit ==
    /\ at \in [Proc -> AtCalls]
    /\ DOMAIN req = Proc /\ DOMAIN reply = Proc /\ DOMAIN todo = Proc
    /\ \A p \in Proc : PlaceFits(p) /\ RequestFits(p) /\ SecondFits(p)

SnapServiceIInv ==
    /\ SIInv
    /\ HandlersFit
    /\ SharesFit
    /\ InfoFits

-----------------------------------------------------------------------------
(* Refinement: what a step of the service does to the two caches.          *)

\* The requests of the methods on snapshots.
LEMMA OtherIds ==
    ASSUME NEW r \in OtherRequests
    PROVE  /\ r.op \in {"createsnap", "deletesnap", "getsnap"} =>
                r \in [op : {"createsnap", "deletesnap", "getsnap"}, id : VolumeId, snap : SnapName]
           /\ r.op = "listsnaps" => r \in [op : {"listsnaps"}, id : VolumeId]
           /\ r.op = "clone" => r \in CloneRequests
<1>1. CASE r \in [op : {"createsnap", "deletesnap", "getsnap"}, id : VolumeId, snap : SnapName]
  BY ONLY <1>1
<1>2. CASE r \in [op : {"listsnaps"}, id : VolumeId]
  BY ONLY <1>2
<1>3. CASE r \in [op : {"listallsnaps"}]
  BY ONLY <1>3
<1>4. CASE r \in CloneRequests
  <2>1. r \in [op : {"clone"}, id : VolumeId, range : Ranges, source : VolumeId, snap : SnapName]
    BY ONLY <1>4 DEF CloneRequests
  <2>2. r.op = "clone"
    BY ONLY <2>1
  <2> QED
    BY <1>4, <2>2
<1> QED
  BY <1>1, <1>2, <1>3, <1>4 DEF OtherRequests, SnapRequests

\* The arrival of a request is a call for a volume, or for a snapshot.
LEMMA ArrivalStarts ==
    ASSUME NEW p \in Proc, ArriveAt(p)
    PROVE  StartAny(p) \/ UNCHANGED cVars
<1>1. ASSUME NEW r \in Requests, ArriveVolume(p, r) PROVE StartAny(p) \/ UNCHANGED cVars
  <2>1. CASE ArriveList(p, r)
    BY <1>1, <2>1 DEF ArriveVolume, ArriveList, cVars
  <2>2. CASE Arrive(p, r)
    <3>1. r.id \in VolumeId
      BY <2>2 DEF Arrive, Requests
    <3> QED
      BY <1>1, <2>2, <3>1 DEF ArriveVolume, Arrive, StartAny, VolumeCall
  <2> QED
    BY <1>1, <2>1, <2>2 DEF ArriveVolume
<1>2. ASSUME NEW r \in OtherRequests, ArriveSnap(p, r) PROVE StartAny(p)
  <2>1. r.op \in {"createsnap", "deletesnap", "getsnap"}
    BY <1>2 DEF ArriveSnap
  <2>2. r.id \in VolumeId /\ r.snap \in SName
    BY <2>1, OtherIds, SnapNamesAssumption
  <2> QED
    BY <1>2, <2>2 DEF ArriveSnap, StartAny
<1>3. ASSUME NEW r \in OtherRequests, ArriveOther(p, r) PROVE StartAny(p)
  <2>1. r.op \in {"clone", "listsnaps"}
    BY <1>3 DEF ArriveOther
  <2>2. r.id \in VolumeId
    BY <2>1, OtherIds DEF CloneRequests
  <2> QED
    BY <1>3, <2>2 DEF ArriveOther, StartAny
<1>4. ASSUME NEW r \in OtherRequests, ArriveListAll(p, r) PROVE UNCHANGED cVars
  BY <1>4 DEF ArriveListAll, cVars
<1> QED
  BY <1>1, <1>2, <1>3, <1>4 DEF ArriveAt

\* A volume method uses its volume, or leaves the caches alone.
LEMMA VolumeCallUses ==
    ASSUME NEW p \in Proc, NEW o \in Outcome, VolumeCalls(p, o)
    PROVE  GetVolume(p) \/ UseVolume(p) \/ UNCHANGED cVars
<1>1. CASE pc[p] = "details"
  BY <1>1 DEF VolumeCalls
<1>2. CASE pc[p] # "details"
  <2>1. spc[p] = "none" /\ SAlive /\ UNCHANGED sVars /\ RestCall(p, o)
    BY <1>2 DEF VolumeCalls, VolumeStep
  <2>2. (\E s \in States : SetState(p, s)) \/ UNCHANGED vars
    <3>1. ~GetDetails(p, o)
      BY <1>2 DEF GetDetails
    <3>2. CreatePost(p, o) => (\E s \in States : SetState(p, s)) \/ UNCHANGED vars
      BY DEF CreatePost, Store, States, Stay, Panic
    <3>3. CreateRefresh(p, o) \/ DeleteShare(p, o)
            => (\E s \in States : SetState(p, s)) \/ UNCHANGED vars
      BY DEF CreateRefresh, DeleteShare, Store, States, Stay
    <3>4. ListSnapshots(p, o) \/ PublishGet(p, o) \/ PublishSet(p, o) \/ Unpublish(p, o)
            \/ Expand(p, o) \/ ListShares(p, o) => UNCHANGED vars
      BY DEF ListSnapshots, PublishGet, PublishSet, Unpublish, SetGroup, Expand, ListShares,
             Stay, Panic
    <3> QED
      BY <2>1, <3>1, <3>2, <3>3, <3>4 DEF RestCall
  <2> QED
    BY <2>1, <2>2 DEF UseVolume, cVars
<1> QED
  BY <1>1, <1>2

\* So does CreateVolume from a snapshot, and a snapshot method its snapshot.
LEMMA SnapCallUses ==
    ASSUME SnapServiceIInv, NEW p \in Proc, NEW o \in Outcome, SnapRestCall(p, o)
    PROVE  UseVolume(p) \/ UseSnap(p) \/ UNCHANGED cVars
<1>1. GetSnapDetails(p, o) => UseSnap(p) \/ UNCHANGED cVars
  BY DEF GetSnapDetails, UseSnap, Panic, cVars
<1>2. CreateSnap(p, o) => UseSnap(p) \/ UNCHANGED cVars
  BY DEF CreateSnap, SnapDone, SnapReply, Stay, Panic, UseSnap, States, SetSnapState, cVars
<1>3. CheckSnap(p, o) \/ SnapsOf(p, o) \/ AllSnaps(p, o) => UNCHANGED cVars
  BY DEF CheckSnap, SnapsOf, AllSnaps, SnapReply, Stay, Panic, cVars
<1>4. RefreshSnap(p, o) \/ DeleteSnap(p, o) => UseSnap(p) \/ UNCHANGED cVars
  BY DEF RefreshSnap, DeleteSnap, SnapDone, SnapReply, Stay, UseSnap, States, SetSnapState, cVars
<1>5. Clone(p, o) => UseVolume(p) \/ UNCHANGED cVars
  <2> SUFFICES ASSUME Clone(p, o) PROVE UseVolume(p) \/ UNCHANGED cVars
    OBVIOUS
  <2>1. spc[p] = "none" /\ SAlive /\ UNCHANGED sVars
    BY DEF Clone, Running, SnapServiceIInv, HandlersFit, PlaceFits, VolumeCalling
  <2>2. (\E s \in States : SetState(p, s)) \/ UNCHANGED vars
    BY DEF Clone, Store, Stay, States
  <2> QED
    BY <2>1, <2>2 DEF UseVolume, cVars
<1> QED
  BY <1>1, <1>2, <1>3, <1>4, <1>5 DEF SnapRestCall

\* Between two calls a handler turns to a volume or a snapshot, or is done
\* with it, or stores what a list said of it.
LEMMA WithoutCallUses ==
    ASSUME SnapServiceIInv, NEW p \in Proc, WithoutCall(p)
    PROVE  [SnapNext]_cVars
<1> USE DEF SnapServiceIInv, HandlersFit
<1>1. ASSUME VolumeStep(p, Get(p) \/ ListStore(p)) PROVE UseVolume(p) \/ UNCHANGED cVars
  BY <1>1 DEF VolumeStep, Get, ListStore, Store, Stay, UseVolume, States, cVars
<1>2. ASSUME req[p].op = "list", VolumeStep(p, ListNext(p)) PROVE StartAny(p)
  <2>1. PICK item \in todo[p] : Call(p, "new", item.id)
    BY <1>2 DEF VolumeStep, ListNext
  <2>2. item.id \in VolumeId
    BY <1>2, <2>1 DEF RequestFits
  <2> QED
    BY <1>2, <2>1, <2>2 DEF VolumeStep, StartAny, VolumeCall
<1>3. ASSUME VolumeStep(p, Return(p)) PROVE UseVolume(p)
  BY <1>3 DEF VolumeStep, Return, UseVolume
<1>4. ASSUME CloneLookup(p) PROVE Second[p] \in Proc /\ StartAny(Second[p])
  <2>1. p \in DOMAIN Second /\ req[p] \in CloneRequests
    BY <1>4 DEF CloneLookup, Calls, RequestFits
  <2>2. Second[p] \in Proc /\ req[p].source \in VolumeId /\ req[p].snap \in SName
    BY <2>1, SecondAssumption, SnapNamesAssumption DEF CloneRequests
  <2> QED
    BY <1>4, <2>2 DEF CloneLookup, StartAny
<1>5. CloneFailed(p) \/ GetSnap(p) => UNCHANGED cVars
  BY DEF CloneFailed, GetSnap, SnapReply, Stay, cVars
<1>6. ASSUME NextSnap(p) PROVE StartAny(p)
  <2>1. PICK item \in todo[p] : SnapCall(p, "new", item[1], item[2])
    BY <1>6 DEF NextSnap
  <2>2. item \in VolumeId \X SnapName
    BY <1>6, <2>1 DEF NextSnap, RequestFits
  <2> QED
    BY <2>1, <2>2, SnapNamesAssumption DEF StartAny
<1>7. StoreSnap(p) \/ ReturnSnap(p) => UseSnap(p)
  BY DEF StoreSnap, ReturnSnap, UseSnap, States
<1> QED
  BY <1>1, <1>2, <1>3, <1>4, <1>5, <1>6, <1>7 DEF WithoutCall, SnapNext

\* Every step of the service is a step of the two caches, or leaves them alone.
LEMMA SnapStepIsCacheStep ==
    ASSUME SnapServiceIInv, [SnapServiceNext]_everything
    PROVE  [SnapNext]_cVars
<1>1. ASSUME NEW p \in Handlers, ArriveAt(p) PROVE [SnapNext]_cVars
  <2>1. p \in Proc
    BY DEF Handlers
  <2> QED
    BY <1>1, <2>1, ArrivalStarts DEF SnapNext
<1>2. ASSUME NEW p \in Proc, ObtainVolume(p) \/ ObtainSnap(p) PROVE [SnapNext]_cVars
  BY <1>2 DEF ObtainVolume, ObtainSnap, SnapNext
<1>3. ASSUME NEW p \in Proc, NEW o \in Outcome, VolumeCalls(p, o) PROVE [SnapNext]_cVars
  BY <1>3, VolumeCallUses DEF SnapNext
<1>4. ASSUME NEW p \in Proc, NEW o \in Outcome, SnapRestCall(p, o) PROVE [SnapNext]_cVars
  BY <1>4, SnapCallUses DEF SnapNext
<1>5. ASSUME NEW p \in Proc, WithoutCall(p) PROVE [SnapNext]_cVars
  BY <1>5, WithoutCallUses
<1>6. ASSUME NEW p \in Proc, GiveAnyBack(p) PROVE [SnapNext]_cVars
  BY <1>6 DEF GiveAnyBack, GiveSnapBack, GiveVolumeBack, SnapNext
<1>7. CASE Environment /\ UNCHANGED sVars
  BY <1>7 DEF Environment, Administer, cVars
<1>8. CASE UNCHANGED everything
  BY <1>8 DEF everything, allVars, cVars
<1> QED
  BY <1>1, <1>2, <1>3, <1>4, <1>5, <1>6, <1>7, <1>8 DEF SnapServiceNext, HandleAny

-----------------------------------------------------------------------------
(* What a step of one goroutine leaves alone.                              *)

\* In the caches, a goroutine moves only itself, and does not touch the
\* structure of a volume somebody else owns.
LEMMA CachesMoveOne ==
    ASSUME SIInv, NEW p \in Proc,
           \/ StartAny(p) \/ GetVolume(p) \/ UseVolume(p) \/ ReleaseVolume(p)
           \/ AcquireSnap(p) \/ UseSnap(p) \/ ReleaseSnap(p) \/ UNCHANGED cVars
    PROVE  \A q \in Proc \ {p} :
             /\ pc'[q] = pc[q] /\ call'[q] = call[q] /\ id'[q] = id[q] /\ zvol'[q] = zvol[q]
             /\ spc'[q] = spc[q] /\ sname'[q] = sname[q] /\ snap'[q] = snap[q]
             /\ pc[q] = "own" => state'[zvol[q]] = state[zvol[q]]
<1> USE DEF SIInv
<1>1. /\ spc \in [Proc -> SPCs] /\ sname \in [Proc -> SName \cup {NoId}]
      /\ snap \in [Proc -> Snap \cup {NoSnap}] /\ TypeOK
  BY DEF STypeOK, IInv
<1>2. Start(p) \/ Acquire(p) \/ Use(p) \/ Release(p) \/ UNCHANGED vars
  <2>1. StartAny(p) => Start(p)
    BY DEF StartAny, VolumeCall, SnapCall, Start
  <2>2. GetVolume(p) \/ UseVolume(p) \/ ReleaseVolume(p) => Acquire(p) \/ Use(p) \/ Release(p)
    BY DEF GetVolume, UseVolume, ReleaseVolume, Use
  <2>3. AcquireSnap(p) => Start(p) \/ Use(p) \/ UNCHANGED vars
    <3>1. Again(p) => Start(p)
      BY DEF Again, Start, SnapLocals
    <3> QED
      BY <3>1 DEF AcquireSnap, LookupSnapHit, LookupSnapMiss, AddSnap, OtherSource, NewSnapHit,
         LockSnap, HoldSnap, Use
  <2>4. UseSnap(p) => UNCHANGED vars
    BY DEF UseSnap, SnapDetails, SetSnapState, FinishSnap
  <2>5. ReleaseSnap(p) => Use(p) \/ UNCHANGED vars
    BY DEF ReleaseSnap, ReleaseSnapRef, ReleaseSnapFast, ReleaseSnapSlow, ReleaseSnapCheck,
       ReleaseSource, UnlockSnapPanic, Use
  <2> QED
    BY <2>1, <2>2, <2>3, <2>4, <2>5 DEF cVars
<1>3. \A q \in Proc \ {p} :
        pc'[q] = pc[q] /\ call'[q] = call[q] /\ id'[q] = id[q] /\ zvol'[q] = zvol[q]
  BY <1>1, <1>2, CacheMovesOne
<1>4. \A q \in Proc \ {p} : spc'[q] = spc[q] /\ sname'[q] = sname[q] /\ snap'[q] = snap[q]
  <2> USE <1>1 DEF SGoto
  <2>1. StartAny(p) \/ GetVolume(p) \/ UseVolume(p) \/ ReleaseVolume(p) \/ UNCHANGED cVars
          => \A q \in Proc \ {p} : spc'[q] = spc[q] /\ sname'[q] = sname[q] /\ snap'[q] = snap[q]
    BY DEF StartAny, VolumeCall, SnapCall, GetVolume, UseVolume, ReleaseVolume, cVars, sVars, sprocVars
  <2>2. AcquireSnap(p)
          => \A q \in Proc \ {p} : spc'[q] = spc[q] /\ sname'[q] = sname[q] /\ snap'[q] = snap[q]
    BY DEF AcquireSnap, LookupSnapHit, LookupSnapMiss, Again, AddSnap, OtherSource, NewSnapHit,
       LockSnap, HoldSnap
  <2>3. UseSnap(p)
          => \A q \in Proc \ {p} : spc'[q] = spc[q] /\ sname'[q] = sname[q] /\ snap'[q] = snap[q]
    BY DEF UseSnap, SnapDetails, SetSnapState, FinishSnap, sprocVars
  <2>4. ReleaseSnap(p)
          => \A q \in Proc \ {p} : spc'[q] = spc[q] /\ sname'[q] = sname[q] /\ snap'[q] = snap[q]
    BY DEF ReleaseSnap, ReleaseSnapRef, ReleaseSnapFast, ReleaseSnapSlow, ReleaseSnapCheck,
       ReleaseSource, UnlockSnapPanic
  <2> QED
    BY <2>1, <2>2, <2>3, <2>4
<1>5. ASSUME NEW q \in Proc \ {p}, pc[q] = "own" PROVE state'[zvol[q]] = state[zvol[q]]
  <2>1. zvol[q] \in Vol /\ ~Unused(zvol[q])
    BY <1>5, VolumeFacts DEF Referring, Counted, Unused
  <2>2. pc[p] \in {"own", "details"} => zvol[p] # zvol[q]
    BY <1>5 DEF IInv, OneOwner, Owning
  <2>3. CASE Start(p) \/ Release(p) \/ UNCHANGED vars
    BY <2>3 DEF Start, Call, Release, ReleaseRef, ReleaseFast, ReleaseSlow, ReleaseCheck, UnlockPanic,
       vars, cacheVars
  <2>4. CASE Acquire(p)
    BY <2>1, <2>4, <1>1 DEF Acquire, LookupHit, LookupMiss, NewHit, NewMiss, HoldCached, LockVolume,
       cacheVars, TypeOK
  <2>5. CASE Use(p)
    BY <2>1, <2>2, <2>5, <1>1 DEF Use, Details, SetState, Finish, cacheVars, TypeOK
  <2> QED
    BY <1>2, <2>3, <2>4, <2>5
<1> QED
  BY <1>3, <1>4, <1>5

\* What a step of p must be for HandlersFit to stay: it moves itself only, is
\* where it fits, and goes on looking for what it was sent for.
OthersRest(p) ==
    \A q \in Proc \ {p} :
        /\ pc'[q] = pc[q] /\ call'[q] = call[q] /\ id'[q] = id[q] /\ zvol'[q] = zvol[q]
        /\ spc'[q] = spc[q] /\ sname'[q] = sname[q] /\ snap'[q] = snap[q]
        /\ pc[q] = "own" => state'[zvol[q]] = state[zvol[q]]

HandlersStay(p) ==
    /\ at' \in [Proc -> AtCalls]
    /\ DOMAIN req' = Proc /\ DOMAIN reply' = Proc /\ DOMAIN todo' = Proc
    /\ \A q \in Proc \ {p} :
         req'[q] = req[q] /\ at'[q] = at[q] /\ reply'[q] = reply[q] /\ todo'[q] = todo[q]

Moves(p) ==
    /\ OthersRest(p) /\ HandlersStay(p)
    /\ PlaceFits(p)' /\ RequestFits(p)'
    /\ at'[p] = "waiting" => at[p] = "waiting" /\ req'[p] = req[p]
    /\ p \notin Handlers => req'[p] \in {req[p], Idle}
    /\ req'[p] = Lookup => req[p] = Lookup /\ id'[p] = id[p] /\ sname'[p] = sname[p]

LEMMA OthersFit ==
    ASSUME HandlersFit, NEW p \in Proc, OthersRest(p), HandlersStay(p), NEW q \in Proc \ {p}
    PROVE  PlaceFits(q)' /\ RequestFits(q)'
<1>1. /\ pc'[q] = pc[q] /\ call'[q] = call[q] /\ zvol'[q] = zvol[q] /\ spc'[q] = spc[q]
      /\ id'[q] = id[q] /\ sname'[q] = sname[q]
      /\ pc[q] = "own" => state'[zvol[q]] = state[zvol[q]]
      /\ req'[q] = req[q] /\ at'[q] = at[q] /\ reply'[q] = reply[q] /\ todo'[q] = todo[q]
  BY DEF OthersRest, HandlersStay
<1>2. PlaceFits(q)'
  BY <1>1 DEF HandlersFit, PlaceFits, IsBlock
<1>3. RequestFits(q)'
  BY <1>1 DEF HandlersFit, RequestFits
<1> QED
  BY <1>2, <1>3

LEMMA MovesFit ==
    ASSUME HandlersFit, NEW p \in Proc, Moves(p)
    PROVE  HandlersFit'
<1>1. ASSUME NEW q \in Proc PROVE PlaceFits(q)' /\ RequestFits(q)'
  BY OthersFit DEF Moves
<1>2. ASSUME NEW q \in Proc, q \in DOMAIN Second
      PROVE  /\ req'[Second[q]] \in {Idle, Lookup}
             /\ at'[q] = "waiting" /\ req'[Second[q]] = Lookup =>
                  id'[Second[q]] = req'[q].source /\ sname'[Second[q]] = req'[q].snap
  <2>1. Second[q] \in Proc /\ Second[q] \notin Handlers /\ SecondFits(q)
    BY <1>2, SecondAssumption DEF Handlers, HandlersFit
  <2>2. req'[Second[q]] \in {req[Second[q]], Idle}
    BY <2>1 DEF Moves, HandlersStay
  <2>3. at'[q] = "waiting" => at[q] = "waiting" /\ req'[q] = req[q]
    BY DEF Moves, HandlersStay
  <2>4. req'[Second[q]] = Lookup =>
          /\ req[Second[q]] = Lookup
          /\ id'[Second[q]] = id[Second[q]] /\ sname'[Second[q]] = sname[Second[q]]
    BY <2>1 DEF Moves, HandlersStay, OthersRest
  <2> QED
    BY <1>2, <2>1, <2>2, <2>3, <2>4 DEF SecondFits
<1> QED
  BY <1>1, <1>2 DEF HandlersFit, SecondFits, Moves, HandlersStay

\* The facts about one goroutine that every step below uses.
LEMMA Places ==
    ASSUME SIInv, HandlersFit, NEW p \in Proc
    PROVE  /\ TypeOK /\ STypeOK
           /\ at \in [Proc -> AtCalls] /\ DOMAIN req = Proc /\ DOMAIN reply = Proc
           /\ DOMAIN todo = Proc
           /\ PlaceFits(p) /\ RequestFits(p) /\ SecondFits(p)
           /\ spc[p] \in SReferring => pc[p] = "own"
           /\ spc[p] = "again" => pc[p] \in {"idle"} \cup GivingBack
           /\ spc[p] \in Getting /\ pc[p] = "idle" => spc[p] = "again"
  BY DEF SIInv, IInv, HandlersFit, SourceHeld, SnapLocals, GivingBack

\* A handler that owns its volume goes on to call c, with the same request.
Follows(c, d) ==
    \/ d = "done"
    \/ <<c, d>> \in {<<"post", "refresh">>, <<"snaps", "snaps2">>, <<"snaps", "delete">>,
                     <<"snaps2", "delete">>, <<"getgroup", "setgroup">>,
                     <<"snappost", "snapcheck">>, <<"snaprefresh", "snapdelete">>}

LEMMA WorkMoves ==
    ASSUME SIInv, HandlersFit, NEW p \in Proc, NEW c, NEW r,
           pc[p] = "own", at[p] \in VolumeCalling \/ spc[p] = "own",
           at[p] # "done", Follows(at[p], c), c = "setgroup" => IsBlock(p),
           UseVolume(p) \/ UseSnap(p) \/ UNCHANGED cVars, UNCHANGED <<pc, call, id, zvol, sprocVars>>,
           UNCHANGED <<req, todo>>, at' = [at EXCEPT ![p] = c],
           reply' = reply \/ (c = "done" /\ reply' = [reply EXCEPT ![p] = r])
    PROVE  Moves(p)
<1>1. OthersRest(p)
  BY CachesMoveOne DEF OthersRest
<1>2. HandlersStay(p)
  BY Places DEF HandlersStay, Follows, AtCalls, VolumeCalling, SnapCalling, Calling
<1>3. PlaceFits(p)'
  <2>1. /\ at'[p] = c /\ pc'[p] = "own" /\ spc'[p] = spc[p] /\ call'[p] = call[p]
        /\ zvol'[p] = zvol[p] /\ id'[p] = id[p] /\ sname'[p] = sname[p]
    BY Places DEF sprocVars
  <2>2. spc[p] # "none" => state' = state
    BY DEF UseVolume, UseSnap, SnapDetails, SetSnapState, FinishSnap, cVars, vars, cacheVars
  <2>3. at[p] \in VolumeCalling => spc[p] = "none"
    BY Places DEF PlaceFits, IsBlock
  <2>4. PlaceFits(p)
    BY Places
  <2> QED
    BY <2>1, <2>2, <2>3, <2>4 DEF PlaceFits, IsBlock, Follows, VolumeCalling, SnapCalling, Calling, GivingBack
<1>4. RequestFits(p)'
  <2>1. at'[p] = c /\ pc'[p] = "own" /\ id'[p] = id[p] /\ (c # "done" => reply' = reply)
    BY Places
  <2>2. RequestFits(p)
    BY Places
  <2> QED
    BY <2>1, <2>2 DEF RequestFits, Follows
<1>5. at'[p] # "waiting"
  BY Places DEF Follows
<1>6. id'[p] = id[p] /\ sname'[p] = sname[p]
  BY DEF sprocVars
<1> QED
  BY <1>1, <1>2, <1>3, <1>4, <1>5, <1>6 DEF Moves

\* The handler is not changed, or has just replied.
MayReply(p) ==
    \/ UNCHANGED <<req, at, todo, reply>>
    \/ UNCHANGED <<req, todo>> /\ at' = [at EXCEPT ![p] = "done"]
         /\ \E r \in Replies : reply' = [reply EXCEPT ![p] = r]

LEMMA MayReplyStays ==
    ASSUME HandlersFit, NEW p \in Proc, MayReply(p)
    PROVE  /\ HandlersStay(p)
           /\ req'[p] = req[p] /\ todo'[p] = todo[p]
           /\ UNCHANGED <<at, reply>> \/ at'[p] = "done"
  BY DEF HandlersFit, HandlersStay, MayReply, AtCalls

LEMMA ObtainVolumeMoves ==
    ASSUME SIInv, HandlersFit, NEW p \in Proc, ObtainVolume(p)
    PROVE  Moves(p)
<1> USE Places DEF TypeOK, Goto
<1>1. /\ pc[p] \in {"lookup", "new", "lock"} /\ pc'[p] \in {"new", "lock", "details", "own", "release"}
      /\ call' = call /\ id' = id /\ UNCHANGED sVars
      /\ pc'[p] = "own" => call[p] # "lookup" \/ state'[zvol'[p]] = "created"
      /\ pc'[p] = "details" => pc[p] = "new"
  <2>1. UNCHANGED sVars /\ (LookupHit(p) \/ LookupMiss(p) \/ NewHit(p) \/ NewMiss(p) \/ LockVolume(p))
    BY DEF ObtainVolume, GetVolume, Obtain
  <2>2. CASE LookupHit(p) \/ LookupMiss(p) \/ NewHit(p)
    BY <2>1, <2>2 DEF LookupHit, LookupMiss, NewHit, HoldCached
  <2>3. CASE NewMiss(p)
    BY <2>1, <2>3 DEF NewMiss
  <2>4. CASE LockVolume(p)
    BY <2>1, <2>4 DEF LockVolume
  <2> QED
    BY <2>1, <2>2, <2>3, <2>4
<1>2. /\ MayReply(p) /\ (pc'[p] = "release" => at'[p] = "done")
      /\ UNCHANGED <<at, reply>> \/ pc'[p] = "release"
  <2>1. CASE LookupHit(p) \/ LookupMiss(p) \/ NewHit(p) \/ NewMiss(p)
    <3>1. UNCHANGED <<req, at, todo, reply>>
      BY <2>1 DEF ObtainVolume, Obtain, LookupHit, LookupMiss, NewHit, NewMiss, LockVolume
    <3>2. pc'[p] # "release"
      BY <2>1 DEF LookupHit, LookupMiss, NewHit, NewMiss, HoldCached
    <3> QED
      BY <3>1, <3>2 DEF MayReply
  <2>2. CASE LockVolume(p)
    <3>1. IF pc'[p] = "release" THEN Reply(p, LookupReply(p, "busy"))
          ELSE UNCHANGED <<req, at, todo, reply>>
      BY <2>2 DEF ObtainVolume, Obtain, LookupHit, LookupMiss, NewHit, NewMiss, LockVolume
    <3>2. LookupReply(p, "busy") \in Replies
      BY DEF LookupReply, Replies
    <3> QED
      BY <3>1, <3>2 DEF MayReply, Reply
  <2> QED
    BY <2>1, <2>2 DEF ObtainVolume, Obtain
<1>3. HandlersStay(p) /\ req'[p] = req[p] /\ todo'[p] = todo[p]
      /\ (UNCHANGED <<at, reply>> \/ at'[p] = "done")
  BY <1>2, MayReplyStays
<1>4. OthersRest(p)
  BY CachesMoveOne DEF OthersRest, ObtainVolume
<1>5. spc'[p] = spc[p] /\ sname'[p] = sname[p] /\ call'[p] = call[p] /\ id'[p] = id[p]
  BY <1>1 DEF sVars, sprocVars
<1>6. spc[p] \in {"none", "lookup", "new", "renew"}
  BY <1>1 DEF ObtainVolume, GetVolume, SAlive, STypeOK, SPCs, SReferring, Getting, GivingBack
<1>7. PlaceFits(p)'
  BY <1>1, <1>2, <1>3, <1>5, <1>6 DEF PlaceFits, IsBlock, VolumeCalling, SnapCalling, Calling, Getting, GivingBack
<1>8. RequestFits(p)'
  BY <1>1, <1>2, <1>3 DEF RequestFits, GivingBack
<1>9. at'[p] # "waiting"
  BY <1>1, <1>3 DEF PlaceFits, IsBlock
<1> QED
  BY <1>3, <1>4, <1>5, <1>7, <1>8, <1>9 DEF Moves

\* getDetails of a volume.
LEMMA GetDetailsMoves ==
    ASSUME SIInv, HandlersFit, NEW p \in Proc, NEW o, GetVolume(p), GetDetails(p, o)
    PROVE  Moves(p)
<1> USE Places DEF TypeOK, Goto
<1>1. /\ pc[p] = "details" /\ pc'[p] \in {"own", "release"}
      /\ call' = call /\ id' = id /\ zvol' = zvol /\ UNCHANGED sVars
      /\ pc'[p] = "own" /\ spc[p] # "none" => state'[zvol'[p]] = "created"
  <2>1. Details(p) /\ UNCHANGED sVars /\ pc[p] = "details"
    BY DEF GetVolume, GetDetails
  <2>2. zvol[p] \in Vol
    BY <2>1, VolumeFacts DEF SIInv, Referring, Counted
  <2> QED
    BY <2>1, <2>2 DEF Details
<1>2. /\ MayReply(p) /\ (pc'[p] = "release" => at'[p] = "done")
      /\ UNCHANGED <<at, reply>> \/ pc'[p] = "release"
  <2>1. LookupReply(p, "notfound") \in Replies /\ LookupReply(p, "error") \in Replies
    BY DEF LookupReply, Replies
  <2> QED
    BY <2>1 DEF GetDetails, MayReply, Reply
<1>3. HandlersStay(p) /\ req'[p] = req[p] /\ todo'[p] = todo[p]
      /\ (UNCHANGED <<at, reply>> \/ at'[p] = "done")
  BY <1>2, MayReplyStays
<1>4. OthersRest(p)
  BY CachesMoveOne DEF OthersRest
<1>5. spc'[p] = spc[p] /\ sname'[p] = sname[p] /\ call'[p] = call[p] /\ id'[p] = id[p]
  BY <1>1 DEF sVars, sprocVars
<1>6. spc[p] \in {"none", "lookup", "new", "renew"}
  BY <1>1 DEF GetVolume, SAlive, STypeOK, SPCs, SReferring, Getting, GivingBack
<1>7. PlaceFits(p)'
  BY <1>1, <1>2, <1>3, <1>5, <1>6 DEF PlaceFits, IsBlock, VolumeCalling, SnapCalling, Calling, Getting, GivingBack
<1>8. RequestFits(p)'
  BY <1>1, <1>2, <1>3 DEF RequestFits, GivingBack
<1>9. at'[p] # "waiting"
  BY <1>1, <1>3 DEF PlaceFits, IsBlock
<1> QED
  BY <1>3, <1>4, <1>5, <1>7, <1>8, <1>9 DEF Moves

\* A step of the appliance, or one that only panics.
LEMMA NothingMoves ==
    ASSUME SIInv, HandlersFit, NEW p \in Proc, UNCHANGED cVars,
           UNCHANGED <<req, at, todo, reply>>
    PROVE  Moves(p)
<1>1. HandlersStay(p) /\ req'[p] = req[p] /\ todo'[p] = todo[p]
  BY MayReplyStays DEF MayReply
<1>2. OthersRest(p)
  BY CachesMoveOne DEF OthersRest
<1>3. /\ pc' = pc /\ call' = call /\ id' = id /\ zvol' = zvol /\ state' = state
      /\ spc' = spc /\ sname' = sname /\ snap' = snap
  BY DEF cVars, vars, procVars, cacheVars, sVars, sprocVars
<1>4. PlaceFits(p)' /\ RequestFits(p)'
  BY <1>3, Places DEF PlaceFits, IsBlock, RequestFits
<1> QED
  BY <1>1, <1>2, <1>3, <1>4 DEF Moves

\* newSnapshot and lookupSnapshot, with the volume in hand.
LEMMA ObtainSnapMoves ==
    ASSUME SIInv, HandlersFit, NEW p \in Proc, ObtainSnap(p)
    PROVE  Moves(p)
<1> USE Places DEF TypeOK, STypeOK, Goto, SGoto
<1> AcquireSnap(p)
  BY DEF ObtainSnap
<1>1. /\ id'[p] = id[p] /\ sname' = sname /\ call'[p] \in {call[p], "lookup"}
      /\ zvol' = zvol /\ state' = state
      /\ \/ pc[p] = "own" /\ pc'[p] = "own" /\ spc[p] \in Getting \cup SLocking
           /\ spc'[p] \in SLocking \cup {"details", "own", "release", "panic"}
         \/ pc[p] = "own" /\ pc'[p] = "release" /\ spc[p] \in Getting /\ spc'[p] \in {"again", "none"}
         \/ pc[p] = "idle" /\ pc'[p] = "lookup" /\ spc[p] = "again" /\ spc'[p] = "renew"
  <2>1. CASE LookupSnapHit(p) \/ AddSnap(p) \/ NewSnapHit(p)
    BY <2>1 DEF LookupSnapHit, AddSnap, NewSnapHit, CanAdd, HasVolume, HoldSnap, vars, procVars,
       cacheVars, Getting, SLocking
  <2>2. CASE LookupSnapMiss(p) \/ OtherSource(p)
    BY <2>2 DEF LookupSnapMiss, OtherSource, CanAdd, HasVolume, Finish, cacheVars, Getting
  <2>3. CASE Again(p)
    BY <2>3 DEF Again, Call, cacheVars
  <2>4. CASE LockSnap(p)
    BY <2>4 DEF LockSnap, vars, procVars, cacheVars, Getting, SLocking, SReferring
  <2> QED
    BY <2>1, <2>2, <2>3, <2>4 DEF AcquireSnap
<1>2. at[p] \in SnapCalling
  BY <1>1 DEF PlaceFits, IsBlock, AtCalls, Getting, SLocking, GivingBack
<1>3. /\ MayReply(p)
      /\ (pc'[p] = "release" /\ spc'[p] = "none") \/ spc'[p] = "release" => at'[p] = "done"
      /\ UNCHANGED <<at, reply>>
           \/ (pc'[p] = "release" /\ spc'[p] = "none") \/ (pc'[p] = "own" /\ spc'[p] = "release")
  <2>1. LookupReply(p, "exists") \in Replies /\ LookupReply(p, "busy") \in Replies
    BY DEF LookupReply, Replies
  <2>2. CASE pc'[p] = "release" /\ spc'[p] = "none"
    <3>1. Reply(p, LookupReply(p, "exists"))
      BY <2>2 DEF ObtainSnap
    <3> QED
      BY <2>1, <2>2, <3>1 DEF MayReply, Reply
  <2>3. CASE spc'[p] = "release"
    <3>1. Reply(p, LookupReply(p, "busy"))
      BY <2>3 DEF ObtainSnap
    <3>2. pc'[p] = "own"
      BY <1>1, <2>3 DEF SLocking
    <3> QED
      BY <2>1, <2>3, <3>1, <3>2 DEF MayReply, Reply
  <2>4. CASE ~(pc'[p] = "release" /\ spc'[p] = "none") /\ spc'[p] # "release"
    BY <2>4 DEF ObtainSnap, MayReply
  <2> QED
    BY <2>2, <2>3, <2>4
<1>4. /\ HandlersStay(p) /\ req'[p] = req[p] /\ todo'[p] = todo[p]
      /\ UNCHANGED <<at, reply>> \/ at'[p] = "done"
  BY <1>3, MayReplyStays
<1>5. OthersRest(p)
  BY CachesMoveOne DEF OthersRest
<1>6. PlaceFits(p)'
  BY <1>1, <1>2, <1>3, <1>4 DEF PlaceFits, IsBlock, VolumeCalling, SnapCalling, Calling, Getting, SLocking,
     GivingBack
<1>7. RequestFits(p)'
  BY <1>1, <1>2, <1>3, <1>4 DEF RequestFits, SnapCalling, GivingBack
<1>8. at'[p] # "waiting"
  BY <1>2, <1>4 DEF SnapCalling
<1> QED
  BY <1>1, <1>4, <1>5, <1>6, <1>7, <1>8 DEF Moves

LEMMA GetSnapDetailsMoves ==
    ASSUME SIInv, HandlersFit, NEW p \in Proc, NEW o, GetSnapDetails(p, o)
    PROVE  Moves(p)
<1> USE Places DEF TypeOK, STypeOK, SGoto
<1>1. CASE SnapDetails(p)
  <2>1. UNCHANGED vars /\ sname' = sname /\ pc[p] = "own"
        /\ spc[p] = "details" /\ spc'[p] \in {"own", "release"}
    BY <1>1 DEF SnapDetails, SReferring, SOwning
  <2>2. at[p] \in SnapCalling
    BY <2>1 DEF PlaceFits, IsBlock, AtCalls
  <2>3. /\ MayReply(p) /\ (spc'[p] = "release" => at'[p] = "done")
        /\ UNCHANGED <<at, reply>> \/ spc'[p] = "release"
    <3>1. LookupReply(p, "notfound") \in Replies /\ LookupReply(p, "error") \in Replies
      BY DEF LookupReply, Replies
    <3> QED
      BY <2>1, <3>1 DEF GetSnapDetails, MayReply, Reply, Panic, handlerVars, sVars, sprocVars
  <2>4. /\ HandlersStay(p) /\ req'[p] = req[p] /\ todo'[p] = todo[p]
        /\ UNCHANGED <<at, reply>> \/ at'[p] = "done"
    BY <2>3, MayReplyStays
  <2>5. OthersRest(p)
    BY <1>1, CachesMoveOne DEF OthersRest, UseSnap
  <2>6. PlaceFits(p)'
    BY <2>1, <2>2, <2>3, <2>4 DEF PlaceFits, IsBlock, SnapCalling, VolumeCalling, Calling, GivingBack, vars,
       procVars, cacheVars
  <2>7. RequestFits(p)'
    BY <2>1, <2>2, <2>3, <2>4 DEF RequestFits, SnapCalling, GivingBack, vars, procVars
  <2>8. at'[p] # "waiting"
    BY <2>2, <2>4 DEF SnapCalling
  <2> QED
    BY <2>1, <2>4, <2>5, <2>6, <2>7, <2>8 DEF Moves, vars, procVars
<1>2. CASE Panic /\ UNCHANGED sVars
  BY <1>2, NothingMoves DEF Panic, cVars, handlerVars
<1> QED
  BY <1>1, <1>2 DEF GetSnapDetails

-----------------------------------------------------------------------------
(* Arrivals, and the steps of listings.                                    *)

\* c is the first call of request r.
Begins(p, c, r) ==
    /\ c \in AtCalls \ {"done", "snapcheck", "snapdelete", "clone"}
    /\ c = "post" => r.op = "create" /\ r.range \in Ranges
    /\ c = "modify" => r.op = "expand" /\ r.size \in Capacity
    /\ c = "getgroup" => r.op = "publish" /\ r.node \in Node
    /\ c = "clonelookup" => p \in DOMAIN Second /\ r \in CloneRequests
    /\ c = "snappost" => r.op = "createsnap"
    /\ c = "snaprefresh" => r.op = "deletesnap"
    /\ c = "snapget" => r.op = "getsnap"
    /\ c = "list" => r.op = "list"
    /\ c \in {"listallsnaps", "snapstore"} => r.op = "listallsnaps"
    /\ r.op # "lookupsnap"

\* A goroutine starts to work on a request, or on one item of a list.
LEMMA BeginMoves ==
    ASSUME SIInv, HandlersFit, NEW p \in Proc, NEW c, NEW r,
           pc[p] = "idle", spc[p] = "none", at[p] = "done",
           \/ StartAny(p) /\ pc'[p] \in {"new", "lookup"}
              /\ IF c \in SnapCalling THEN call'[p] = "lookup" /\ spc'[p] \in {"lookup", "new"} /\ sname'[p] \in SnapName
                 ELSE spc'[p] = "none" /\ c \in {"post", "snaps", "getgroup", "mask", "modify",
                                                 "get", "store", "clonelookup", "listsnaps"}
           \/ UNCHANGED cVars /\ c \in {"list", "listallsnaps"},
           req' = [req EXCEPT ![p] = r] \/ (req' = req /\ r = req[p]),
           at' = [at EXCEPT ![p] = c],
           c = "clonelookup" => id'[p] = r.id,
           UNCHANGED reply, DOMAIN todo' = Proc, \A q \in Proc \ {p} : todo'[q] = todo[q],
           Begins(p, c, r), p \notin Handlers => r = req[p],
           r.op = "list" => \A item \in todo'[p] : item.id \in VolumeId,
           r.op = "listallsnaps" => todo'[p] \subseteq VolumeId \X SnapName
    PROVE  Moves(p)
<1> USE Places DEF TypeOK, STypeOK, Begins
<1>0. r # Lookup
  BY DEF Lookup
<1>1. HandlersStay(p) /\ req'[p] = r /\ at'[p] = c
  BY DEF HandlersStay
<1>2. OthersRest(p)
  BY CachesMoveOne DEF OthersRest
<1>3. reply'[p] = "none"
  BY DEF RequestFits, GivingBack
<1>4. PlaceFits(p)'
  <2>1. CASE UNCHANGED cVars /\ c \in {"list", "listallsnaps"}
    BY <1>1, <2>1 DEF PlaceFits, IsBlock, VolumeCalling, SnapCalling, Calling, cVars, vars, procVars, cacheVars,
       sVars, sprocVars
  <2>2. CASE StartAny(p) /\ pc'[p] \in {"new", "lookup"} /\ c \in SnapCalling
             /\ call'[p] = "lookup" /\ spc'[p] \in {"lookup", "new"}
             /\ sname'[p] \in SnapName
    BY <1>1, <2>2 DEF PlaceFits, IsBlock, VolumeCalling, SnapCalling, Calling, GivingBack, Getting
  <2>3. CASE StartAny(p) /\ pc'[p] \in {"new", "lookup"} /\ c \notin SnapCalling /\ spc'[p] = "none"
             /\ c \in {"post", "snaps", "getgroup", "mask", "modify", "get", "store", "clonelookup",
                      "listsnaps"}
    BY <1>1, <2>3 DEF PlaceFits, IsBlock, VolumeCalling, SnapCalling, Calling, GivingBack
  <2> QED
    BY <2>1, <2>2, <2>3
<1>5. RequestFits(p)'
  BY <1>1, <1>3, <1>4 DEF RequestFits, PlaceFits
<1>6. c # "waiting"
  BY DEF SnapCalling
<1> QED
  BY <1>0, <1>1, <1>2, <1>4, <1>5, <1>6 DEF Moves

LEMMA ArrivalMoves ==
    ASSUME SIInv, HandlersFit, NEW p \in Handlers, ArriveAt(p)
    PROVE  Moves(p)
<1>1. p \in Proc
  BY DEF Handlers
<1> USE <1>1, Places DEF TypeOK, STypeOK
<1>2. ASSUME NEW method \in {"lookup", "new"}, NEW i \in VolumeId, VolumeCall(p, method, i)
      PROVE  StartAny(p) /\ pc'[p] \in {"new", "lookup"} /\ spc'[p] = "none"
  BY <1>2 DEF StartAny, VolumeCall, Call, Goto, sVars, sprocVars
<1>3. ASSUME NEW method \in {"lookup", "new"}, NEW i \in VolumeId, NEW n \in SnapName,
             SnapCall(p, method, i, n)
      PROVE  StartAny(p) /\ pc'[p] \in {"new", "lookup"} /\ call'[p] = "lookup"
             /\ spc'[p] \in {"lookup", "new"} /\ sname'[p] \in SnapName
  BY <1>3, SnapNamesAssumption DEF StartAny, SnapCall, Call, Goto, SGoto
<1>4. ASSUME NEW r \in Requests, ArriveVolume(p, r), Arrive(p, r) PROVE Moves(p)
  <2> DEFINE c == FirstCall(r.op)
  <2>1. r.op \in {"create", "expand", "publish", "unpublish", "delete", "get"} /\ r.id \in VolumeId
    BY <1>4, RequestFacts DEF Arrive
  <2>2. c \in {"post", "snaps", "getgroup", "mask", "modify", "get"} /\ Begins(p, c, r)
    BY <2>1, RequestFacts DEF FirstCall, Begins, AtCalls, VolumeCalling, SnapCalling, Calling
  <2>3. VolumeCall(p, IF r.op = "create" THEN "new" ELSE "lookup", r.id)
    BY <1>4 DEF ArriveVolume, Arrive, VolumeCall
  <2>4. StartAny(p) /\ pc'[p] \in {"new", "lookup"} /\ spc'[p] = "none" /\ c \notin SnapCalling
    BY <1>2, <2>1, <2>2, <2>3 DEF SnapCalling
  <2>5. /\ pc[p] = "idle" /\ spc[p] = "none" /\ at[p] = "done"
        /\ req' = [req EXCEPT ![p] = r] /\ at' = [at EXCEPT ![p] = c]
        /\ UNCHANGED <<reply, todo>>
    BY <1>4 DEF ArriveVolume, Arrive, Free
  <2> HIDE DEF c
  <2> QED
    BY <2>1, <2>2, <2>4, <2>5, BeginMoves
<1>5. ASSUME NEW r \in Requests, ArriveVolume(p, r), ArriveList(p, r) PROVE Moves(p)
  <2>1. /\ pc[p] = "idle" /\ spc[p] = "none" /\ at[p] = "done" /\ todo[p] = {}
        /\ req' = [req EXCEPT ![p] = r] /\ at' = [at EXCEPT ![p] = "list"]
        /\ UNCHANGED <<reply, todo>> /\ r.op = "list" /\ UNCHANGED cVars
    BY <1>5 DEF ArriveVolume, ArriveList, Free, cVars
  <2>2. Begins(p, "list", r)
    BY <2>1 DEF Begins, AtCalls
  <2> QED
    BY <2>1, <2>2, BeginMoves
<1>6. ASSUME NEW r \in OtherRequests, ArriveSnap(p, r) PROVE Moves(p)
  <2> DEFINE c == FirstSnapCall(r.op)
  <2>1. r.op \in {"createsnap", "deletesnap", "getsnap"} /\ r.id \in VolumeId /\ r.snap \in SnapName
    BY <1>6, OtherIds DEF ArriveSnap
  <2>2. c \in {"snappost", "snaprefresh", "snapget"} /\ Begins(p, c, r)
    BY <2>1 DEF FirstSnapCall, Begins, AtCalls, SnapCalling
  <2>3. SnapCall(p, IF r.op = "createsnap" THEN "new" ELSE "lookup", r.id, r.snap)
    BY <1>6 DEF ArriveSnap
  <2>4. StartAny(p) /\ pc'[p] \in {"new", "lookup"} /\ call'[p] = "lookup"
        /\ spc'[p] \in {"lookup", "new"} /\ sname'[p] \in SnapName /\ c \in SnapCalling
    BY <1>3, <2>1, <2>2, <2>3 DEF SnapCalling
  <2>5. /\ pc[p] = "idle" /\ spc[p] = "none" /\ at[p] = "done"
        /\ req' = [req EXCEPT ![p] = r] /\ at' = [at EXCEPT ![p] = c]
        /\ UNCHANGED <<reply, todo>>
    BY <1>6 DEF ArriveSnap, Free, SnapCall
  <2> HIDE DEF c
  <2> QED
    BY <2>1, <2>2, <2>4, <2>5, BeginMoves
<1>7. ASSUME NEW r \in OtherRequests, r.op = "clone" => p \in DOMAIN Second, ArriveOther(p, r)
      PROVE  Moves(p)
  <2> DEFINE c == IF r.op = "clone" THEN "clonelookup" ELSE r.op
  <2>1. r.op \in {"clone", "listsnaps"} /\ r.id \in VolumeId /\ (r.op = "clone" => r \in CloneRequests)
    BY <1>7, OtherIds DEF ArriveOther, CloneRequests
  <2>2. c \in {"clonelookup", "listsnaps"} /\ Begins(p, c, r)
    BY <1>7, <2>1 DEF Begins, AtCalls, VolumeCalling, SnapCalling
  <2>3. VolumeCall(p, IF r.op = "clone" THEN "new" ELSE "lookup", r.id)
    BY <1>7 DEF ArriveOther
  <2>4. StartAny(p) /\ pc'[p] \in {"new", "lookup"} /\ spc'[p] = "none" /\ c \notin SnapCalling
    BY <1>2, <2>1, <2>2, <2>3 DEF SnapCalling
  <2>5. /\ pc[p] = "idle" /\ spc[p] = "none" /\ at[p] = "done" /\ id'[p] = r.id
        /\ req' = [req EXCEPT ![p] = r] /\ at' = [at EXCEPT ![p] = c]
        /\ UNCHANGED <<reply, todo>>
    BY <1>7 DEF ArriveOther, Free, VolumeCall, Call
  <2> HIDE DEF c
  <2> QED
    BY <2>1, <2>2, <2>4, <2>5, BeginMoves
<1>8. ASSUME NEW r \in OtherRequests, ArriveListAll(p, r) PROVE Moves(p)
  <2>1. /\ pc[p] = "idle" /\ at[p] = "done" /\ todo[p] = {}
        /\ req' = [req EXCEPT ![p] = r] /\ at' = [at EXCEPT ![p] = "listallsnaps"]
        /\ UNCHANGED <<reply, todo>> /\ r.op = "listallsnaps" /\ UNCHANGED cVars
    BY <1>8 DEF ArriveListAll, Free, cVars
  <2>2. Begins(p, "listallsnaps", r)
    BY <2>1 DEF Begins, AtCalls
  <2>3. spc[p] = "none"
    BY <1>8, <2>1 DEF ArriveListAll, SAlive, PlaceFits, SPCs, SReferring, SOwning, SLocking, SCounted, Getting, GivingBack
  <2> QED
    BY <2>1, <2>2, <2>3, BeginMoves
<1> QED
  BY <1>4, <1>5, <1>6, <1>7, <1>8 DEF ArriveAt, ArriveVolume

\* A listing has read its list ...
LEMMA ReadListMoves ==
    ASSUME SIInv, HandlersFit, NEW p \in Proc, pc[p] = "idle", at[p] \in {"list", "listallsnaps"},
           UNCHANGED cVars, at' = [at EXCEPT ![p] = "done"], UNCHANGED reply,
           NEW items, todo' = [todo EXCEPT ![p] = items],
           at[p] = "list" => \A item \in items : item.id \in VolumeId,
           at[p] = "listallsnaps" => items \subseteq VolumeId \X SnapName,
           req' = IF todo'[p] = {} THEN [req EXCEPT ![p] = Idle] ELSE req
    PROVE  Moves(p)
<1> USE Places
<1>1. HandlersStay(p) /\ at'[p] = "done" /\ req'[p] \in {req[p], Idle} /\ todo'[p] = items
  BY DEF HandlersStay, AtCalls
<1>2. OthersRest(p)
  BY CachesMoveOne DEF OthersRest
<1>3. /\ pc' = pc /\ call' = call /\ id' = id /\ zvol' = zvol /\ state' = state
      /\ spc' = spc /\ sname' = sname
  BY DEF cVars, vars, procVars, cacheVars, sVars, sprocVars
<1>4. PlaceFits(p)'
  BY <1>1, <1>3 DEF PlaceFits, IsBlock, VolumeCalling, SnapCalling, Calling
<1>5. RequestFits(p)'
  BY <1>1, <1>3 DEF RequestFits, Idle
<1> QED
  BY <1>1, <1>2, <1>3, <1>4, <1>5 DEF Moves, Idle, Lookup

\* ... and takes an item from it.
LEMMA NextItemMoves ==
    ASSUME SIInv, HandlersFit, NEW p \in Proc,
           \/ req[p].op = "list" /\ VolumeStep(p, ListNext(p))
           \/ NextSnap(p)
    PROVE  Moves(p)
<1> USE Places DEF TypeOK, STypeOK
<1>1. CASE req[p].op = "list" /\ VolumeStep(p, ListNext(p))
  <2>1. PICK item \in todo[p] : /\ Call(p, "new", item.id)
                                /\ todo' = [todo EXCEPT ![p] = @ \ {item}]
    BY <1>1 DEF VolumeStep, ListNext
  <2>2. item.id \in VolumeId
    BY <1>1, <2>1 DEF RequestFits
  <2>3. VolumeCall(p, "new", item.id)
    BY <1>1, <2>1 DEF VolumeStep, VolumeCall
  <2>4. StartAny(p) /\ pc'[p] = "new" /\ spc'[p] = "none"
    BY <2>2, <2>3 DEF StartAny, VolumeCall, Call, Goto, sVars, sprocVars
  <2>5. /\ pc[p] = "idle" /\ spc[p] = "none" /\ at[p] = "done" /\ UNCHANGED reply
        /\ req' = req /\ at' = [at EXCEPT ![p] = "store"]
    BY <1>1 DEF VolumeStep, ListNext
  <2>6. \A one \in todo'[p] : one.id \in VolumeId
    BY <1>1, <2>1 DEF RequestFits
  <2>7. Begins(p, "store", req[p])
    BY <1>1 DEF Begins, AtCalls, VolumeCalling, Calling
  <2>8. "store" \notin SnapCalling
    BY DEF SnapCalling
  <2> QED
    BY <1>1, <2>1, <2>4, <2>5, <2>6, <2>7, <2>8, BeginMoves
<1>2. CASE NextSnap(p)
  <2>1. PICK item \in todo[p] : /\ SnapCall(p, "new", item[1], item[2])
                                /\ todo' = [todo EXCEPT ![p] = @ \ {item}]
    BY <1>2 DEF NextSnap
  <2>2. item[1] \in VolumeId /\ item[2] \in SnapName
    BY <1>2, <2>1 DEF NextSnap, RequestFits
  <2>3. StartAny(p) /\ pc'[p] = "lookup" /\ call'[p] = "lookup" /\ spc'[p] = "new"
        /\ sname'[p] \in SnapName
    BY <2>1, <2>2, SnapNamesAssumption DEF StartAny, SnapCall, Call, Goto, SGoto
  <2>4. /\ pc[p] = "idle" /\ spc[p] = "none" /\ at[p] = "done" /\ UNCHANGED reply
        /\ req' = req /\ at' = [at EXCEPT ![p] = "snapstore"]
        /\ req[p].op = "listallsnaps"
    BY <1>2 DEF NextSnap
  <2>5. todo'[p] \subseteq VolumeId \X SnapName
    BY <2>1, <2>4 DEF RequestFits
  <2>6. Begins(p, "snapstore", req[p]) /\ "snapstore" \in SnapCalling
    BY <2>4 DEF Begins, AtCalls, SnapCalling
  <2> QED
    BY <2>1, <2>3, <2>4, <2>5, <2>6, BeginMoves
<1> QED
  BY <1>1, <1>2

-----------------------------------------------------------------------------
(* The end of a request.                                                   *)

\* The handler returns, or releases its snapshot, and then its volume.
LEMMA ReturnMoves ==
    ASSUME SIInv, HandlersFit, NEW p \in Proc,
           VolumeStep(p, Return(p)) \/ ReturnSnap(p) \/ GiveSnapBack(p)
    PROVE  Moves(p)
<1> USE Places DEF TypeOK, STypeOK, Goto, SGoto
<1>1. UNCHANGED <<req, at, todo, reply>> /\ (UseVolume(p) \/ UseSnap(p) \/ ReleaseSnap(p))
  BY DEF VolumeStep, Return, ReturnSnap, GiveSnapBack, UseVolume, UseSnap, serviceVars, handlerVars
<1>2. HandlersStay(p) /\ req'[p] = req[p] /\ todo'[p] = todo[p]
  BY <1>1, MayReplyStays DEF MayReply
<1>3. OthersRest(p)
  BY <1>1, CachesMoveOne DEF OthersRest
<1>4. /\ call' = call /\ id' = id /\ sname' = sname /\ state' = state /\ zvol' = zvol
      /\ pc[p] = "own" /\ pc'[p] \in {"own", "release"}
      /\ \/ spc[p] = "none" /\ spc'[p] = "none" /\ at[p] = "done"
         \/ spc[p] = "own" /\ spc'[p] = "release" /\ at[p] = "done"
         \/ /\ spc[p] \in {"release", "relFast", "relLock", "relCheck"}
            /\ spc'[p] \in {"none", "relFast", "relLock", "relCheck", "panic"}
  <2>1. CASE VolumeStep(p, Return(p))
    BY <2>1 DEF VolumeStep, Return, Finish, cacheVars, sVars, sprocVars
  <2>2. CASE ReturnSnap(p)
    BY <2>2 DEF ReturnSnap, FinishSnap, HasVolume, vars, cacheVars, procVars
  <2>3. CASE GiveSnapBack(p)
    BY <2>3 DEF GiveSnapBack, ReleaseSnap, ReleaseSnapRef, ReleaseSnapFast, ReleaseSnapSlow,
       ReleaseSnapCheck, ReleaseSource, UnlockSnapPanic, HasVolume, Finish, vars, cacheVars, procVars
  <2> QED
    BY <2>1, <2>2, <2>3
<1>5. at[p] = "done"
  BY <1>4 DEF PlaceFits, IsBlock, AtCalls, Getting, SLocking
<1>6. PlaceFits(p)'
  BY <1>1, <1>4, <1>5 DEF PlaceFits, IsBlock, VolumeCalling, SnapCalling, Calling
<1>7. RequestFits(p)'
  BY <1>1, <1>4, <1>5 DEF RequestFits, GivingBack
<1> QED
  BY <1>1, <1>2, <1>3, <1>4, <1>5, <1>6, <1>7 DEF Moves

LEMMA GiveVolumeBackMoves ==
    ASSUME SIInv, HandlersFit, NEW p \in Proc, GiveVolumeBack(p)
    PROVE  Moves(p)
<1> USE Places DEF TypeOK, STypeOK, Goto, SGoto
<1>1. ReleaseVolume(p)
  BY DEF GiveVolumeBack
<1>2. OthersRest(p)
  BY <1>1, CachesMoveOne DEF OthersRest
<1>3. /\ call' = call /\ id' = id /\ sname' = sname /\ state' = state
      /\ pc[p] \in GivingBack /\ pc'[p] \in {"idle"} \cup (GivingBack \ {"release"})
      /\ spc[p] # "panic"
      /\ spc'[p] = IF pc'[p] = "idle" /\ spc[p] # "again" THEN "none" ELSE spc[p]
  BY <1>1 DEF ReleaseVolume, Release, ReleaseRef, ReleaseFast, ReleaseSlow, ReleaseCheck, UnlockPanic,
     GivingBack, cacheVars, SAlive
<1>4. CASE spc[p] = "again"
  <2>1. UNCHANGED <<req, at, todo, reply>>
    BY <1>4 DEF GiveVolumeBack, serviceVars, handlerVars
  <2>2. HandlersStay(p) /\ req'[p] = req[p] /\ todo'[p] = todo[p] /\ at[p] \in SnapCalling
    BY <1>4, <2>1, MayReplyStays DEF MayReply, PlaceFits, AtCalls
  <2>3. PlaceFits(p)'
    BY <1>3, <1>4, <2>1, <2>2 DEF PlaceFits, IsBlock, VolumeCalling, SnapCalling, Calling, GivingBack
  <2>4. RequestFits(p)'
    BY <1>3, <1>4, <2>1, <2>2 DEF RequestFits, SnapCalling
  <2> QED
    BY <1>2, <1>3, <2>1, <2>2, <2>3, <2>4 DEF Moves
<1>5. CASE spc[p] # "again"
  <2>1. /\ at' = at /\ todo' = todo
        /\ IF pc'[p] = "idle"
           THEN /\ reply' = [reply EXCEPT ![p] = "none"]
                /\ req' = IF todo[p] = {} THEN [req EXCEPT ![p] = Idle] ELSE req
           ELSE UNCHANGED <<reply, req>>
    BY <1>5 DEF GiveVolumeBack, GiveBack
  <2>2. at[p] = "done"
    BY <1>3, <1>5 DEF PlaceFits, IsBlock, AtCalls, GivingBack
  <2>3. HandlersStay(p) /\ req'[p] \in {req[p], Idle} /\ (pc'[p] = "idle" => reply'[p] = "none")
        /\ (pc'[p] # "idle" => reply'[p] = reply[p])
    BY <2>1 DEF HandlersStay
  <2>4. PlaceFits(p)'
    BY <1>3, <1>5, <2>1, <2>2 DEF PlaceFits, IsBlock, VolumeCalling, SnapCalling, Calling, GivingBack
  <2>5. RequestFits(p)'
    BY <1>3, <1>5, <2>1, <2>2, <2>3 DEF RequestFits, GivingBack, Idle
  <2> QED
    BY <1>2, <1>3, <2>1, <2>2, <2>3, <2>4, <2>5 DEF Moves, Idle, Lookup
<1> QED
  BY <1>4, <1>5

-----------------------------------------------------------------------------
(* The work of a handler.                                                  *)

Continues(p) ==
    /\ pc[p] = "own"
    /\ UNCHANGED <<pc, call, id, zvol, sprocVars, req, todo>>
    /\ \E c \in AtCalls :
         /\ Follows(at[p], c) /\ (c = "setgroup" => IsBlock(p))
         /\ at' = [at EXCEPT ![p] = c]
         /\ reply' = reply \/ (c = "done" /\ \E r \in Replies : reply' = [reply EXCEPT ![p] = r])

LEMMA ReplyContinues ==
    ASSUME NEW p \in Proc, pc[p] = "own", NEW r \in Replies, Reply(p, r),
           UNCHANGED <<pc, call, id, zvol, sprocVars>>
    PROVE  Continues(p)
  BY DEF Continues, Reply, Follows, AtCalls

LEMMA ThenContinues ==
    ASSUME NEW p \in Proc, pc[p] = "own", NEW c \in AtCalls, Follows(at[p], c), Then(p, c),
           c = "setgroup" => IsBlock(p),
           UNCHANGED <<pc, call, id, zvol, sprocVars>>
    PROVE  Continues(p)
  BY DEF Continues, Then

LEMMA ContinuesMoves ==
    ASSUME SIInv, HandlersFit, NEW p \in Proc, Continues(p),
           at[p] \in VolumeCalling \/ spc[p] = "own", at[p] # "done",
           UseVolume(p) \/ UseSnap(p) \/ UNCHANGED cVars
    PROVE  Moves(p)
<1>1. PICK c \in AtCalls :
        /\ Follows(at[p], c) /\ at' = [at EXCEPT ![p] = c] /\ (c = "setgroup" => IsBlock(p))
        /\ reply' = reply \/ (c = "done" /\ \E r \in Replies : reply' = [reply EXCEPT ![p] = r])
  BY DEF Continues
<1>2. /\ pc[p] = "own" /\ UNCHANGED <<pc, call, id, zvol, sprocVars>> /\ UNCHANGED <<req, todo>>
  BY DEF Continues
<1>3. PICK r : reply' = reply \/ (c = "done" /\ reply' = [reply EXCEPT ![p] = r])
  BY <1>1
<1> QED
  BY <1>1, <1>2, <1>3, WorkMoves

\* The methods on volumes.
LEMMA CreateContinues ==
    ASSUME NEW p \in Proc, NEW o, CreatePost(p, o) \/ CreateRefresh(p, o), UNCHANGED sVars
    PROVE  Continues(p) \/ UNCHANGED <<vars, handlerVars>>
<1> USE DEF sVars
<1>1. pc[p] = "own" /\ at[p] \in {"post", "refresh"}
  BY DEF CreatePost, CreateRefresh, Calls
<1>2. UNCHANGED <<pc, call, id, zvol>>
  BY DEF CreatePost, CreateRefresh, Store, SetState, Stay, Panic, vars, procVars
<1>3. \/ at[p] = "post" /\ Then(p, "refresh") 
      \/ \E r \in Replies : Reply(p, r)
      \/ UNCHANGED <<vars, handlerVars>>
  <2>1. CASE CreatePost(p, o)
    BY <2>1 DEF CreatePost, Calls, Panic, Replies
  <2>2. CASE CreateRefresh(p, o)
    BY <2>2 DEF CreateRefresh, Replies
  <2> QED
    BY <2>1, <2>2
<1> QED
  BY <1>1, <1>2, <1>3, ReplyContinues, ThenContinues DEF Follows, AtCalls, VolumeCalling, Calling

LEMMA VolumeWorkContinues ==
    ASSUME NEW p \in Proc, NEW o, UNCHANGED sVars,
           \/ ListSnapshots(p, o) \/ DeleteShare(p, o) \/ PublishGet(p, o) \/ PublishSet(p, o)
           \/ Unpublish(p, o) \/ Expand(p, o) \/ Get(p)
    PROVE  Continues(p) \/ UNCHANGED <<vars, handlerVars>>
<1> USE DEF sVars
<1>1. pc[p] = "own"
  BY DEF ListSnapshots, DeleteShare, PublishGet, PublishSet, Unpublish, Expand, Get, Calls
<1>2. UNCHANGED <<pc, call, id, zvol>>
  BY DEF ListSnapshots, DeleteShare, PublishGet, PublishSet, Unpublish, SetGroup, Expand, Get,
     SetState, Stay, Panic, vars, procVars
<1>3. \/ \E c \in AtCalls : Follows(at[p], c) /\ Then(p, c) /\ (c = "setgroup" => IsBlock(p))
      \/ \E r \in Replies : Reply(p, r)
      \/ UNCHANGED <<vars, handlerVars>>
  <2> USE DEF Replies, Calls
  <2>1. CASE ListSnapshots(p, o)
    BY <2>1 DEF ListSnapshots, Follows, AtCalls, VolumeCalling, Calling
  <2>2. CASE DeleteShare(p, o) \/ Get(p) \/ Expand(p, o)
    BY <2>2 DEF DeleteShare, Get, Expand
  <2>3. CASE PublishGet(p, o)
    BY <2>3 DEF PublishGet, Panic, Follows, AtCalls, VolumeCalling, Calling
  <2>4. CASE PublishSet(p, o) \/ Unpublish(p, o)
    BY <2>4 DEF PublishSet, Unpublish, SetGroup
  <2> QED
    BY <2>1, <2>2, <2>3, <2>4
<1> QED
  BY <1>1, <1>2, <1>3, ReplyContinues, ThenContinues

\* The methods on snapshots.
LEMMA SnapWorkContinues ==
    ASSUME NEW p \in Proc, NEW o,
           \/ CreateSnap(p, o) \/ CheckSnap(p, o) \/ RefreshSnap(p, o) \/ DeleteSnap(p, o)
           \/ SnapsOf(p, o) \/ GetSnap(p) \/ StoreSnap(p) \/ CloneFailed(p)
           \/ VolumeStep(p, ListStore(p))
    PROVE  Continues(p) \/ UNCHANGED <<cVars, handlerVars>>
<1>1. pc[p] = "own"
  BY DEF CreateSnap, CheckSnap, RefreshSnap, DeleteSnap, SnapsOf, GetSnap, StoreSnap, CloneFailed,
     VolumeStep, ListStore, SnapCalls, HasVolume, Calls
<1>2. UNCHANGED <<pc, call, id, zvol, sprocVars>>
  <2> USE DEF SnapDone, SnapReply, SetSnapState, Stay, Panic, vars, procVars, sVars
  <2>1. CASE CreateSnap(p, o) \/ CheckSnap(p, o)
    BY <2>1 DEF CreateSnap, CheckSnap
  <2>2. CASE RefreshSnap(p, o) \/ DeleteSnap(p, o)
    BY <2>2 DEF RefreshSnap, DeleteSnap
  <2>3. CASE SnapsOf(p, o) \/ GetSnap(p) \/ StoreSnap(p) \/ CloneFailed(p)
    BY <2>3 DEF SnapsOf, GetSnap, StoreSnap, CloneFailed
  <2>4. CASE VolumeStep(p, ListStore(p))
    BY <2>4 DEF VolumeStep, ListStore, Store, SetState
  <2> QED
    BY <2>1, <2>2, <2>3, <2>4
<1>3. \/ \E c \in AtCalls : Follows(at[p], c) /\ Then(p, c) /\ (c = "setgroup" => IsBlock(p))
      \/ \E r \in Replies : Reply(p, r)
      \/ at' = [at EXCEPT ![p] = "done"] /\ UNCHANGED <<req, todo, reply>>
      \/ UNCHANGED <<cVars, handlerVars>>
  <2> USE DEF Replies, SnapCalls, SnapDone, SnapReply
  <2>1. CASE CreateSnap(p, o)
    BY <2>1 DEF CreateSnap, Panic, Follows, AtCalls, SnapCalling, cVars
  <2>2. CASE CheckSnap(p, o)
    BY <2>2 DEF CheckSnap, Panic, cVars
  <2>3. CASE RefreshSnap(p, o)
    BY <2>3 DEF RefreshSnap, Follows, AtCalls, SnapCalling
  <2>4. CASE DeleteSnap(p, o) \/ SnapsOf(p, o) \/ GetSnap(p) \/ StoreSnap(p) \/ CloneFailed(p)
    BY <2>4 DEF DeleteSnap, SnapsOf, GetSnap, StoreSnap, CloneFailed
  <2>5. CASE VolumeStep(p, ListStore(p))
    BY <2>5 DEF VolumeStep, ListStore
  <2> QED
    BY <2>1, <2>2, <2>3, <2>4, <2>5
<1>4. ASSUME at' = [at EXCEPT ![p] = "done"], UNCHANGED <<req, todo, reply>> PROVE Continues(p)
  BY <1>1, <1>2, <1>4 DEF Continues, Follows, AtCalls
<1> QED
  BY <1>1, <1>2, <1>3, <1>4, ReplyContinues, ThenContinues

LEMMA VolumeCallsMove ==
    ASSUME SIInv, HandlersFit, NEW p \in Proc, NEW o \in Outcome, VolumeCalls(p, o)
    PROVE  Moves(p)
<1>1. CASE pc[p] = "details"
  BY <1>1, GetDetailsMoves DEF VolumeCalls
<1>2. CASE pc[p] # "details"
  <2>1. spc[p] = "none" /\ SAlive /\ UNCHANGED sVars /\ RestCall(p, o) /\ ~GetDetails(p, o)
    BY <1>2 DEF VolumeCalls, VolumeStep, GetDetails
  <2>2. CASE ListShares(p, o)
    <3>1. /\ pc[p] = "idle" /\ at[p] = "list" /\ UNCHANGED cVars /\ UNCHANGED reply
          /\ todo' = [todo EXCEPT ![p] = IF o = "answered" THEN Listed(p) ELSE {}]
          /\ at' = [at EXCEPT ![p] = "done"]
          /\ req' = IF todo'[p] = {} THEN [req EXCEPT ![p] = Idle] ELSE req
      BY <2>1, <2>2 DEF ListShares, cVars
    <3>2. \A item \in (IF o = "answered" THEN Listed(p) ELSE {}) : item.id \in VolumeId
      BY DEF Listed
    <3> QED
      BY <3>1, <3>2, ReadListMoves
  <2>3. CASE ~ListShares(p, o)
    <3>1. Continues(p) \/ UNCHANGED <<vars, handlerVars>>
      BY <2>1, <2>3, CreateContinues, VolumeWorkContinues DEF RestCall
    <3>2. UseVolume(p) \/ UseSnap(p) \/ UNCHANGED cVars
      BY <2>1, <3>1, VolumeCallUses DEF GetVolume, Acquire, LookupHit, LookupMiss, NewHit, NewMiss, LockVolume,
         Details, Continues, cVars
    <3>3. at[p] \in VolumeCalling /\ at[p] # "done"
      BY <2>1, <2>3 DEF RestCall, CreatePost, CreateRefresh, ListSnapshots, DeleteShare, PublishGet,
         PublishSet, Unpublish, Expand, Calls, VolumeCalling, Calling
    <3> QED
      BY <2>1, <3>1, <3>2, <3>3, ContinuesMoves, NothingMoves DEF cVars, handlerVars
  <2> QED
    BY <2>2, <2>3
<1> QED
  BY <1>1, <1>2

LEMMA SnapCallsMove ==
    ASSUME SnapServiceIInv, NEW p \in Proc, NEW o \in Outcome, SnapRestCall(p, o), ~Clone(p, o)
    PROVE  Moves(p)
<1> SIInv /\ HandlersFit
  BY DEF SnapServiceIInv
<1>1. CASE GetSnapDetails(p, o)
  BY <1>1, GetSnapDetailsMoves
<1>2. CASE AllSnaps(p, o)
  <2> DEFINE items == IF o = "answered"
                      THEN {item \in VolumeId \X SnapName :
                              share[item[1]] # NoShare /\ item[2] \in share[item[1]].snaps}
                      ELSE {}
  <2>1. /\ pc[p] = "idle" /\ at[p] = "listallsnaps" /\ UNCHANGED cVars /\ UNCHANGED reply
        /\ todo' = [todo EXCEPT ![p] = items]
        /\ at' = [at EXCEPT ![p] = "done"]
        /\ req' = IF todo'[p] = {} THEN [req EXCEPT ![p] = Idle] ELSE req
    BY <1>2 DEF AllSnaps, cVars
  <2>2. items \subseteq VolumeId \X SnapName
    OBVIOUS
  <2> HIDE DEF items
  <2> QED
    BY <2>1, <2>2, ReadListMoves
<1>3. CASE \/ CreateSnap(p, o) \/ CheckSnap(p, o) \/ RefreshSnap(p, o) \/ DeleteSnap(p, o)
           \/ SnapsOf(p, o)
  <2>1. Continues(p) \/ UNCHANGED <<cVars, handlerVars>>
    BY <1>3, SnapWorkContinues
  <2>2. UseVolume(p) \/ UseSnap(p) \/ UNCHANGED cVars
    BY SnapCallUses
  <2>3. (at[p] \in VolumeCalling \/ spc[p] = "own") /\ at[p] # "done"
    BY <1>3 DEF CreateSnap, CheckSnap, RefreshSnap, DeleteSnap, SnapsOf, SnapCalls, HasVolume, Calls,
       VolumeCalling
  <2> QED
    BY <2>1, <2>2, <2>3, ContinuesMoves, NothingMoves DEF handlerVars
<1> QED
  BY <1>1, <1>2, <1>3 DEF SnapRestCall

LEMMA WithoutCallMoves ==
    ASSUME SnapServiceIInv, NEW p \in Proc, WithoutCall(p), ~CloneLookup(p)
    PROVE  Moves(p)
<1> SIInv /\ HandlersFit
  BY DEF SnapServiceIInv
<1>1. CASE \/ VolumeStep(p, Get(p)) \/ VolumeStep(p, ListStore(p)) \/ CloneFailed(p) \/ GetSnap(p)
           \/ StoreSnap(p)
  <2>1. Continues(p) \/ UNCHANGED <<cVars, handlerVars>>
    <3>1. CASE VolumeStep(p, Get(p))
      BY <3>1, VolumeWorkContinues DEF VolumeStep, cVars
    <3> QED
      BY <1>1, <3>1, SnapWorkContinues
  <2>2. UseVolume(p) \/ UseSnap(p) \/ UNCHANGED cVars
    BY <1>1 DEF VolumeStep, Get, ListStore, Store, CloneFailed, GetSnap, SnapReply, StoreSnap, Stay,
       UseVolume, UseSnap, States, cVars
  <2>3. (at[p] \in VolumeCalling \/ spc[p] = "own") /\ at[p] # "done"
    BY <1>1 DEF VolumeStep, Get, ListStore, CloneFailed, GetSnap, StoreSnap, SnapCalls, HasVolume,
       Calls, VolumeCalling, Calling
  <2> QED
    BY <2>1, <2>2, <2>3, ContinuesMoves, NothingMoves DEF handlerVars
<1>2. CASE (req[p].op = "list" /\ VolumeStep(p, ListNext(p))) \/ NextSnap(p)
  BY <1>2, NextItemMoves
<1>3. CASE VolumeStep(p, Return(p)) \/ ReturnSnap(p)
  BY <1>3, ReturnMoves
<1>4. VolumeStep(p, Get(p) \/ ListStore(p)) => VolumeStep(p, Get(p)) \/ VolumeStep(p, ListStore(p))
  BY DEF VolumeStep
<1> QED
  BY <1>1, <1>2, <1>3, <1>4 DEF WithoutCall

-----------------------------------------------------------------------------
(* The two steps that move a handler and the look-up it waits for.         *)

LEMMA CloneLookupFits ==
    ASSUME SnapServiceIInv, NEW p \in Proc, CloneLookup(p)
    PROVE  HandlersFit'
<1> SIInv /\ HandlersFit
  BY DEF SnapServiceIInv
<1> DEFINE q == Second[p]
<1> USE Places DEF TypeOK, STypeOK
<1>1. /\ pc[p] = "own" /\ at[p] = "clonelookup" /\ p \in DOMAIN Second /\ req[p] \in CloneRequests
      /\ spc[p] = "none" /\ reply[p] = "none"
  BY DEF CloneLookup, Calls, RequestFits, PlaceFits, VolumeCalling
<1>2. q \in Proc \ {p} /\ q \notin DOMAIN Second /\ (\A r \in DOMAIN Second : Second[r] = q => r = p)
      /\ \A r \in DOMAIN Second : r \in Proc
  BY <1>1, SecondAssumption
<1>3. /\ SnapCall(q, "lookup", req[p].source, req[p].snap)
      /\ req' = [req EXCEPT ![q] = Lookup]
      /\ at' = [at EXCEPT ![p] = "waiting", ![q] = "clone"]
      /\ UNCHANGED <<todo, reply>>
  BY DEF CloneLookup
<1>4. req[p].source \in VolumeId /\ req[p].snap \in SnapName \cap SName
  BY <1>1, SnapNamesAssumption DEF CloneRequests
<1> HIDE DEF q
<1>5. StartAny(q)
  BY <1>3, <1>4 DEF StartAny
<1>6. OthersRest(q)
  BY <1>2, <1>5, CachesMoveOne DEF OthersRest
<1>7. /\ pc[q] = "idle" /\ pc'[q] = "lookup" /\ call'[q] = "lookup" /\ id'[q] = req[p].source
      /\ spc[q] = "none" /\ spc'[q] = "lookup" /\ sname'[q] = req[p].snap
  BY <1>2, <1>3 DEF SnapCall, Call, Goto, SGoto
<1>8. /\ at' \in [Proc -> AtCalls] /\ at'[p] = "waiting" /\ at'[q] = "clone" /\ req'[q] = Lookup
      /\ req'[p] = req[p]
      /\ \A r \in Proc \ {p, q} : at'[r] = at[r] /\ req'[r] = req[r]
  BY <1>2, <1>3 DEF AtCalls, VolumeCalling, SnapCalling
<1>9. ASSUME NEW r \in Proc \ {p, q} PROVE PlaceFits(r)' /\ RequestFits(r)'
  <2>1. /\ pc'[r] = pc[r] /\ call'[r] = call[r] /\ id'[r] = id[r] /\ zvol'[r] = zvol[r]
        /\ spc'[r] = spc[r] /\ sname'[r] = sname[r]
        /\ pc[r] = "own" => state'[zvol[r]] = state[zvol[r]]
        /\ req'[r] = req[r] /\ at'[r] = at[r] /\ reply'[r] = reply[r] /\ todo'[r] = todo[r]
    BY <1>3, <1>6, <1>8 DEF OthersRest
  <2> QED
    BY <2>1 DEF PlaceFits, IsBlock, RequestFits
<1>10. PlaceFits(p)' /\ RequestFits(p)'
  <2>1. pc'[p] = "own" /\ spc'[p] = "none" /\ id'[p] = id[p]
    BY <1>1, <1>2, <1>6 DEF OthersRest
  <2>2. PlaceFits(p)'
    BY <1>8, <2>1 DEF PlaceFits, IsBlock, VolumeCalling, SnapCalling, Calling, GivingBack
  <2>3. RequestFits(p)'
    BY <1>1, <1>3, <1>8, <2>1 DEF RequestFits, CloneRequests
  <2> QED
    BY <2>2, <2>3
<1>11. PlaceFits(q)' /\ RequestFits(q)'
  <2>1. reply[q] = "none"
    BY <1>2, <1>7 DEF RequestFits, GivingBack
  <2>2. PlaceFits(q)'
    BY <1>4, <1>7, <1>8 DEF PlaceFits, IsBlock, VolumeCalling, SnapCalling, Calling, GivingBack, Getting
  <2>3. RequestFits(q)'
    BY <1>3, <1>8, <2>1 DEF RequestFits, Lookup
  <2> QED
    BY <2>2, <2>3
<1>12. ASSUME NEW r \in Proc PROVE SecondFits(r)'
  <2>1. CASE r = p
    BY <1>2, <1>7, <1>8, <2>1 DEF SecondFits, q
  <2>2. CASE r # p /\ r \in DOMAIN Second
    <3>1. Second[r] \in Proc \ {p, q} /\ r # q
      BY <1>1, <1>2, <2>2, SecondAssumption
    <3>2. SecondFits(r)
      OBVIOUS
    <3>3. /\ at'[r] = at[r] /\ req'[r] = req[r] /\ req'[Second[r]] = req[Second[r]]
          /\ id'[Second[r]] = id[Second[r]] /\ sname'[Second[r]] = sname[Second[r]]
      BY <1>6, <1>8, <2>2, <3>1 DEF OthersRest
    <3> QED
      BY <3>2, <3>3 DEF SecondFits
  <2> QED
    BY <2>1, <2>2 DEF SecondFits
<1>13. DOMAIN req' = Proc /\ DOMAIN reply' = Proc /\ DOMAIN todo' = Proc
  BY <1>3
<1> QED
  BY <1>8, <1>9, <1>10, <1>11, <1>12, <1>13 DEF HandlersFit

LEMMA CloneFits ==
    ASSUME SnapServiceIInv, NEW p \in Proc, NEW o \in Outcome, Clone(p, o)
    PROVE  HandlersFit'
<1> SIInv /\ HandlersFit
  BY DEF SnapServiceIInv
<1> DEFINE q == Second[p]
<1> USE Places DEF TypeOK, STypeOK
<1>1. /\ p \in DOMAIN Second /\ at[p] = "waiting" /\ pc[p] = "own" /\ spc[p] = "none"
      /\ req[p].op = "clone"
  BY DEF Clone, PlaceFits, RequestFits, VolumeCalling, CloneRequests
<1>2. q \in Proc \ {p} /\ \A r \in DOMAIN Second : r \in Proc
  BY <1>1, SecondAssumption
<1>3. at[q] = "clone" /\ pc[q] = "own" /\ spc[q] = "own"
  BY DEF Clone, SnapCalls, HasVolume
<1>4. /\ at' = [at EXCEPT ![p] = "done", ![q] = "done"] /\ UNCHANGED <<req, todo>>
      /\ \E r \in Replies : reply' = [reply EXCEPT ![p] = r]
      /\ UNCHANGED <<pc, call, id, zvol, sVars>>
      /\ \A v \in Vol : v # zvol[p] => state'[v] = state[v]
  BY DEF Clone, Store, SetState, Stay, Replies, vars, procVars, cacheVars
<1>5. zvol[p] # zvol[q]
  BY <1>1, <1>2, <1>3 DEF SIInv, IInv, OneOwner, Owning
<1>6. zvol[q] \in Vol /\ \A r \in Proc \ {p} : pc[r] = "own" => zvol[r] \in Vol /\ zvol[r] # zvol[p]
  BY <1>1, <1>2, <1>3, VolumeFacts DEF SIInv, IInv, OneOwner, Owning, Referring, Counted
<1> HIDE DEF q
<1>7. ASSUME NEW r \in Proc \ {p, q} PROVE PlaceFits(r)' /\ RequestFits(r)'
  <2>1. /\ pc'[r] = pc[r] /\ call'[r] = call[r] /\ id'[r] = id[r] /\ zvol'[r] = zvol[r]
        /\ spc'[r] = spc[r] /\ sname'[r] = sname[r]
        /\ pc[r] = "own" => state'[zvol[r]] = state[zvol[r]]
        /\ req'[r] = req[r] /\ at'[r] = at[r] /\ reply'[r] = reply[r] /\ todo'[r] = todo[r]
    BY <1>4, <1>6 DEF sVars, sprocVars
  <2> QED
    BY <2>1 DEF PlaceFits, IsBlock, RequestFits
<1>8. /\ at' \in [Proc -> AtCalls] /\ at'[p] = "done" /\ at'[q] = "done" /\ reply'[q] = reply[q]
      /\ pc' = pc /\ call' = call /\ zvol' = zvol /\ spc' = spc /\ sname' = sname /\ id' = id
  BY <1>2, <1>4 DEF AtCalls, sVars, sprocVars
<1>9. PlaceFits(p)' /\ RequestFits(p)'
  BY <1>1, <1>4, <1>8 DEF PlaceFits, IsBlock, RequestFits, VolumeCalling, SnapCalling, Calling
<1>10. PlaceFits(q)' /\ RequestFits(q)'
  <2>1. state'[zvol[q]] = state[zvol[q]]
    BY <1>4, <1>5, <1>6
  <2>2. PlaceFits(q)'
    BY <1>2, <1>3, <1>8, <2>1 DEF PlaceFits, IsBlock, VolumeCalling, SnapCalling, Calling
  <2>3. RequestFits(q)'
    BY <1>2, <1>3, <1>4, <1>8 DEF RequestFits
  <2> QED
    BY <2>2, <2>3
<1>11. ASSUME NEW r \in Proc PROVE SecondFits(r)'
  <2>1. SecondFits(r) /\ req' = req /\ (at'[r] = "waiting" => at[r] = "waiting")
    BY <1>2, <1>4
  <2> QED
    BY <1>8, <2>1 DEF SecondFits
<1>12. DOMAIN req' = Proc /\ DOMAIN reply' = Proc /\ DOMAIN todo' = Proc
  BY <1>4
<1> QED
  BY <1>7, <1>8, <1>9, <1>10, <1>11, <1>12 DEF HandlersFit

LEMMA StepHandlersFit ==
    ASSUME SnapServiceIInv, [SnapServiceNext]_everything
    PROVE  HandlersFit'
<1> SIInv /\ HandlersFit
  BY DEF SnapServiceIInv
<1>1. ASSUME NEW p \in Handlers, ArriveAt(p) PROVE HandlersFit'
  BY <1>1, ArrivalMoves, MovesFit DEF Handlers
<1>2. ASSUME NEW p \in Proc, ObtainVolume(p) \/ ObtainSnap(p) \/ GiveAnyBack(p) PROVE HandlersFit'
  BY <1>2, ObtainVolumeMoves, ObtainSnapMoves, ReturnMoves, GiveVolumeBackMoves, MovesFit
     DEF GiveAnyBack
<1>3. ASSUME NEW p \in Proc, NEW o \in Outcome, VolumeCalls(p, o) \/ SnapRestCall(p, o)
      PROVE  HandlersFit'
  BY <1>3, VolumeCallsMove, SnapCallsMove, CloneFits, MovesFit
<1>4. ASSUME NEW p \in Proc, WithoutCall(p) PROVE HandlersFit'
  BY <1>4, WithoutCallMoves, CloneLookupFits, MovesFit
<1>5. CASE (Environment /\ UNCHANGED sVars) \/ UNCHANGED everything
  <2>1. UNCHANGED <<vars, handlerVars, sVars>>
    BY <1>5 DEF Environment, Administer, everything, allVars, serviceVars
  <2> QED
    BY <2>1 DEF HandlersFit, PlaceFits, IsBlock, RequestFits, SecondFits, vars, procVars, cacheVars, sVars,
       sprocVars, handlerVars
<1> QED
  BY <1>1, <1>2, <1>3, <1>4, <1>5 DEF SnapServiceNext, HandleAny

-----------------------------------------------------------------------------
(* The shares, and what the structures know of them.                       *)

ShareFits(i, s) ==
    \/ s = NoShare
    \/ /\ s \in Shares
       /\ IF i \in BlockId THEN s.cap > 0 ELSE s.group = MaskAll

LEMMA OneShareFits ==
    ASSUME SharesFit, NEW i, NEW s, i \in VolumeId => ShareFits(i, s),
           share' = [share EXCEPT ![i] = s]
    PROVE  SharesFit'
<1>1. CASE i \notin VolumeId
  <2>1. share' = share
    BY <1>1 DEF SharesFit
  <2> QED
    BY <2>1 DEF SharesFit
<1>2. CASE i \in VolumeId
  <2>1. share \in [VolumeId -> Shares \cup {NoShare}]
        /\ (\A j \in VolumeId : share[j] # NoShare => ShareFits(j, share[j]))
    BY DEF SharesFit, ShareFits
  <2>2. s \in Shares \cup {NoShare} /\ ShareFits(i, s)
    BY <1>2 DEF ShareFits
  <2>3. share' \in [VolumeId -> Shares \cup {NoShare}]
    BY <2>1, <2>2
  <2>4. \A j \in VolumeId : share'[j] # NoShare => ShareFits(j, share'[j])
    BY <2>1, <2>2
  <2> QED
    BY <2>3, <2>4, ServiceAssumption DEF SharesFit, ShareFits
<1> QED
  BY <1>1, <1>2

\* A share with its snapshots, initiator group or size changed is one.
LEMMA ChangedShareFits ==
    ASSUME SharesFit, NEW i \in VolumeId, share[i] # NoShare
    PROVE  /\ share[i] \in Shares
           /\ \A n \in SUBSET SnapName : ShareFits(i, [share[i] EXCEPT !.snaps = n])
           /\ \A g \in Group : i \in BlockId => ShareFits(i, [share[i] EXCEPT !.group = g])
           /\ \A c \in Nat \ {0} : ShareFits(i, [share[i] EXCEPT !.cap = c])
  BY DEF SharesFit, ShareFits, Shares, Group

LEMMA MadeFits ==
    ASSUME NEW p \in Proc, req[p].range \in Ranges
    PROVE  VolumeSize(req[p].range) \in Nat \ {0} /\ Made(p) \in Shares /\ ShareFits(id[p], Made(p))
<1>1. VolumeSize(req[p].range) \in Nat \ {0}
  BY ServiceAssumption DEF VolumeSize
<1> QED
  BY <1>1 DEF Made, Shares, Group, ShareFits

\* The look-up has found the source that CreateVolume has asked for.
LEMMA CloneFinds ==
    ASSUME SIInv, HandlersFit, NEW p \in Proc, NEW o, Clone(p, o)
    PROVE  /\ Second[p] \in Proc /\ pc[Second[p]] = "own" /\ spc[Second[p]] = "own"
           /\ pc[p] = "own" /\ req[p] \in CloneRequests
           /\ id[Second[p]] = req[p].source /\ sname[Second[p]] = req[p].snap
<1>1. p \in DOMAIN Second /\ at[p] = "waiting" /\ SnapCalls(Second[p], "clone", o)
  BY DEF Clone
<1>2. Second[p] \in Proc
  BY <1>1, SecondAssumption
<1>3. req[Second[p]] = Lookup
  BY <1>1, <1>2, Places DEF SnapCalls, RequestFits, SecondFits, Idle
<1> QED
  BY <1>1, <1>2, <1>3, Places DEF SnapCalls, HasVolume, SecondFits, PlaceFits, RequestFits

LEMMA ClonedFits ==
    ASSUME SIInv, HandlersFit, SharesFit, NEW p \in Proc, NEW o, Clone(p, o),
           HasSnap(Second[p]), id[p] \in VolumeId
    PROVE  ShareFits(id[p], Cloned(p))
<1>1. /\ req[p].source \in VolumeId /\ req[p].snap \in SnapName
      /\ share[req[p].source] # NoShare
  BY CloneFinds DEF CloneRequests, HasSnap
<1>2. share[req[p].source] \in Shares
  BY <1>1, ChangedShareFits
<1>3. Cloned(p) \in Shares
  BY <1>1, <1>2 DEF Cloned, Shares, Group
<1>4. id[p] \in BlockId => share[req[p].source].cap > 0
  BY <1>1, Places DEF Clone, RequestFits, CloneRequests, SharesFit
<1> QED
  BY <1>3, <1>4 DEF ShareFits, Cloned

LEMMA OthersLeaveShares ==
    ASSUME NEW p \in Proc,
           ObtainVolume(p) \/ ObtainSnap(p) \/ WithoutCall(p) \/ GiveAnyBack(p) \/ ArriveAt(p)
    PROVE  share' = share
<1>1. ObtainVolume(p) \/ ObtainSnap(p) \/ GiveAnyBack(p) => share' = share
  BY DEF ObtainVolume, Obtain, ObtainSnap, GiveAnyBack, GiveSnapBack, GiveVolumeBack, GiveBack,
     serviceVars
<1>2. WithoutCall(p) => share' = share
  BY DEF WithoutCall, VolumeStep, Get, ListStore, ListNext, Return, CloneLookup, CloneFailed, GetSnap,
     NextSnap, StoreSnap, ReturnSnap, serviceVars
<1>3. ArriveAt(p) => share' = share
  BY DEF ArriveAt, ArriveVolume, Arrive, ArriveList, ArriveSnap, ArriveOther, ArriveListAll
<1> QED
  BY <1>1, <1>2, <1>3

LEMMA StepSharesFit ==
    ASSUME SnapServiceIInv, [SnapServiceNext]_everything
    PROVE  SharesFit'
<1> SIInv /\ HandlersFit /\ SharesFit
  BY DEF SnapServiceIInv
<1> USE Places DEF TypeOK
<1>1. share' = share => SharesFit'
  BY DEF SharesFit
<1>2. ASSUME NEW p \in Proc, NEW o \in Outcome, VolumeCalls(p, o) PROVE SharesFit'
  <2>1. CASE CreatePost(p, o)
    <3>1. req[p].range \in Ranges
      BY <2>1 DEF CreatePost, Calls, RequestFits
    <3> QED
      BY <1>1, <2>1, <3>1, MadeFits, OneShareFits DEF CreatePost
  <2>2. CASE DeleteShare(p, o)
    BY <1>1, <2>2, OneShareFits DEF DeleteShare, Removed, ShareFits
  <2>3. CASE PublishSet(p, o) \/ Unpublish(p, o)
    <3>1. share' = share \/ \E g \in Group :
            IsBlock(p) /\ share[id[p]] # NoShare /\ share' = [share EXCEPT ![id[p]].group = g]
      <4>1. MaskAll \in Group
        BY DEF Group
      <4>2. PublishSet(p, o) => IsBlock(p) /\ req[p].node \in Group
        BY DEF PublishSet, Calls, PlaceFits, RequestFits, Group
      <4> QED
        BY <2>3, <4>1, <4>2 DEF PublishSet, Unpublish, SetGroup
    <3>2. IsBlock(p) => id[p] \in VolumeId
      BY ServiceAssumption DEF IsBlock
    <3> QED
      BY <1>1, <3>1, <3>2, ChangedShareFits, OneShareFits DEF IsBlock
  <2>4. CASE Expand(p, o)
    <3>1. req[p].size \in Nat \ {0}
      BY <2>4, ServiceAssumption DEF Expand, Calls, RequestFits
    <3>2. share' = share \/ (share[id[p]] # NoShare /\ share' = [share EXCEPT ![id[p]].cap = req[p].size])
      BY <2>4 DEF Expand, Resized
    <3> QED
      BY <1>1, <3>1, <3>2, ChangedShareFits, OneShareFits
  <2>5. CASE \/ GetDetails(p, o) \/ CreateRefresh(p, o) \/ ListSnapshots(p, o) \/ PublishGet(p, o)
             \/ ListShares(p, o)
    BY <1>1, <2>5 DEF GetDetails, CreateRefresh, ListSnapshots, PublishGet, ListShares
  <2> QED
    BY <1>2, <2>1, <2>2, <2>3, <2>4, <2>5 DEF VolumeCalls, VolumeStep, RestCall
<1>3. ASSUME NEW p \in Proc, NEW o \in Outcome, SnapRestCall(p, o) PROVE SharesFit'
  <2>1. CASE CreateSnap(p, o)
    <3>1. sname[p] \in SnapName
      BY <2>1 DEF CreateSnap, SnapCalls, HasVolume, PlaceFits
    <3>2. share' = share \/ (share[id[p]] # NoShare /\ share' = WithSnap(p))
      BY <2>1 DEF CreateSnap, Reaches
    <3>3. ASSUME id[p] \in VolumeId, share[id[p]] # NoShare, share' = WithSnap(p) PROVE SharesFit'
      <4>1. share[id[p]].snaps \cup {sname[p]} \in SUBSET SnapName
        BY <3>1, <3>3, ChangedShareFits DEF Shares
      <4> QED
        BY <3>3, <4>1, ChangedShareFits, OneShareFits DEF WithSnap
    <3>4. id[p] \notin VolumeId /\ share' = WithSnap(p) => share' = share
      BY DEF WithSnap, SharesFit
    <3> QED
      BY <1>1, <3>2, <3>3, <3>4
  <2>2. CASE DeleteSnap(p, o)
    <3>1. share' = share \/ (share[id[p]] # NoShare /\ share' = [share EXCEPT ![id[p]].snaps = @ \ {sname[p]}])
      BY <2>2 DEF DeleteSnap, WithoutSnap, HasSnap
    <3>2. ASSUME id[p] \in VolumeId, share[id[p]] # NoShare,
                 share' = [share EXCEPT ![id[p]].snaps = @ \ {sname[p]}]
          PROVE  SharesFit'
      <4>1. share[id[p]].snaps \ {sname[p]} \in SUBSET SnapName
        BY <3>2, ChangedShareFits DEF Shares
      <4> QED
        BY <3>2, <4>1, ChangedShareFits, OneShareFits
    <3>3. id[p] \notin VolumeId /\ share' = [share EXCEPT ![id[p]].snaps = @ \ {sname[p]}]
            => share' = share
      BY DEF SharesFit
    <3> QED
      BY <1>1, <3>1, <3>2, <3>3
  <2>3. CASE Clone(p, o)
    <3>1. share' = share \/ (HasSnap(Second[p]) /\ share' = [share EXCEPT ![id[p]] = Cloned(p)])
      BY <2>3 DEF Clone
    <3>2. share' # share /\ id[p] \in VolumeId => ShareFits(id[p], Cloned(p))
      BY <2>3, ClonedFits DEF Clone
    <3> QED
      BY <1>1, <3>1, <3>2, OneShareFits
  <2>4. CASE \/ GetSnapDetails(p, o) \/ CheckSnap(p, o) \/ RefreshSnap(p, o) \/ SnapsOf(p, o)
             \/ AllSnaps(p, o)
    BY <1>1, <2>4 DEF GetSnapDetails, CheckSnap, RefreshSnap, SnapsOf, AllSnaps
  <2> QED
    BY <1>3, <2>1, <2>2, <2>3, <2>4 DEF SnapRestCall
<1>4. ASSUME NEW p \in Proc,
             ObtainVolume(p) \/ ObtainSnap(p) \/ WithoutCall(p) \/ GiveAnyBack(p) \/ ArriveAt(p)
      PROVE  share' = share
  BY <1>4, OthersLeaveShares
<1>6. ASSUME NEW i \in BlockId, NEW g \in AdminGroup, Administer(i, g) PROVE SharesFit'
  <2>1. i \in VolumeId /\ g \in Group
    BY ServiceAssumption DEF Group
  <2> QED
    BY <1>6, <2>1, ChangedShareFits, OneShareFits DEF Administer
<1>7. CASE UNCHANGED everything
  BY <1>1, <1>7 DEF everything, allVars, serviceVars
<1> QED
  BY <1>1, <1>2, <1>3, <1>4, <1>6, <1>7 DEF SnapServiceNext, HandleAny, Handlers, Environment

\* A structure gets its record anew, or a new capacity.
LEMMA InfoStaysFit ==
    ASSUME InfoFits, NEW v,
           \/ info' = info
           \/ \E c, m, h : info' = [info EXCEPT ![v] = [cap |-> c, modes |-> m, href |-> h]]
           \/ \E c : info' = [info EXCEPT ![v].cap = c]
    PROVE  InfoFits'
<1>1. CASE info' = info
  BY <1>1 DEF InfoFits
<1>2. ASSUME NEW c, NEW m, NEW h, info' = [info EXCEPT ![v] = [cap |-> c, modes |-> m, href |-> h]]
      PROVE  InfoFits'
  BY <1>2 DEF InfoFits, UnknownInfo
<1>3. ASSUME NEW c, info' = [info EXCEPT ![v].cap = c] PROVE InfoFits'
  BY <1>3 DEF InfoFits
<1> QED
  BY <1>1, <1>2, <1>3

LEMMA SetInfoFits ==
    ASSUME InfoFits, NEW p, NEW s, SetInfo(p, s)
    PROVE  InfoFits'
<1>1. \E c, m, h : info' = [info EXCEPT ![zvol[p]] = [cap |-> c, modes |-> m, href |-> h]]
  BY DEF SetInfo
<1> QED
  BY <1>1, InfoStaysFit

LEMMA StepInfoFits ==
    ASSUME InfoFits, [SnapServiceNext]_everything
    PROVE  InfoFits'
<1>1. info' = info => InfoFits'
  BY DEF InfoFits
<1>2. ASSUME NEW p \in Proc, NEW o \in Outcome, VolumeCalls(p, o) PROVE InfoFits'
  <2>1. CASE GetDetails(p, o)
    BY <1>1, <2>1, SetInfoFits DEF GetDetails
  <2>2. CASE CreatePost(p, o)
    BY <1>1, <2>2, SetInfoFits DEF CreatePost, Store, Stay, Panic
  <2>3. CASE CreateRefresh(p, o)
    BY <1>1, <2>3, SetInfoFits DEF CreateRefresh, Store, Stay
  <2>4. CASE Expand(p, o)
    BY <1>1, <2>4, InfoStaysFit DEF Expand, KnowCapacity, Stay
  <2>5. CASE \/ DeleteShare(p, o) \/ ListSnapshots(p, o) \/ PublishGet(p, o) \/ PublishSet(p, o)
             \/ Unpublish(p, o) \/ ListShares(p, o)
    BY <1>1, <2>5 DEF DeleteShare, ListSnapshots, PublishGet, PublishSet, Unpublish, SetGroup,
       ListShares, Stay, Panic
  <2> QED
    BY <1>2, <2>1, <2>2, <2>3, <2>4, <2>5 DEF VolumeCalls, VolumeStep, RestCall
<1>3. ASSUME NEW p \in Proc, NEW o \in Outcome, SnapRestCall(p, o) PROVE InfoFits'
  <2>1. CASE Clone(p, o)
    BY <1>1, <2>1, SetInfoFits DEF Clone, Store, Stay
  <2>2. CASE ~Clone(p, o)
    BY <1>1, <1>3, <2>2 DEF SnapRestCall, GetSnapDetails, CreateSnap, CheckSnap, RefreshSnap, DeleteSnap,
       SnapsOf, AllSnaps, SnapDone, SnapReply, Stay, Panic
  <2> QED
    BY <2>1, <2>2
<1>4. ASSUME NEW p \in Proc, ObtainVolume(p) PROVE InfoFits'
  <2>1. info' = info \/ info' = [info EXCEPT ![zvol'[p]] = UnknownInfo]
    BY <1>4 DEF ObtainVolume, Obtain
  <2> QED
    BY <1>1, <2>1, InfoStaysFit DEF UnknownInfo
<1>5. ASSUME NEW p \in Proc, ObtainSnap(p) \/ GiveAnyBack(p) PROVE info' = info
  BY <1>5 DEF ObtainSnap, GiveAnyBack, GiveSnapBack, GiveVolumeBack, GiveBack, serviceVars
<1>6. ASSUME NEW p \in Proc, WithoutCall(p) PROVE InfoFits'
  <2>1. CASE VolumeStep(p, ListStore(p))
    BY <2>1, SetInfoFits DEF VolumeStep, ListStore, Store
  <2>2. CASE ~VolumeStep(p, ListStore(p))
    BY <1>1, <1>6, <2>2 DEF WithoutCall, VolumeStep, Get, ListNext, Return, CloneLookup, CloneFailed,
       GetSnap, SnapReply, NextSnap, StoreSnap, ReturnSnap, Stay, serviceVars
  <2> QED
    BY <2>1, <2>2
<1>7. ASSUME NEW p \in Proc, ArriveAt(p) PROVE info' = info
  BY <1>7 DEF ArriveAt, ArriveVolume, Arrive, ArriveList, ArriveSnap, ArriveOther, ArriveListAll
<1>8. CASE Environment \/ UNCHANGED everything
  BY <1>1, <1>8 DEF Environment, Administer, everything, allVars, serviceVars
<1> QED
  BY <1>1, <1>2, <1>3, <1>4, <1>5, <1>6, <1>7, <1>8 DEF SnapServiceNext, HandleAny, Handlers

-----------------------------------------------------------------------------
LEMMA InitSnapServiceIInv == SnapServiceInit => SnapServiceIInv
<1> SUFFICES ASSUME SnapServiceInit PROVE SnapServiceIInv
  OBVIOUS
<1>1. SIInv
  BY InitSIInv DEF SnapServiceInit, ServiceInit
<1>2. HandlersFit
  <2>1. /\ at = [p \in Proc |-> "done"] /\ req = [p \in Proc |-> Idle]
        /\ reply = [p \in Proc |-> "none"] /\ todo = [p \in Proc |-> {}]
        /\ pc = [p \in Proc |-> "idle"] /\ spc = [p \in Proc |-> "none"]
    BY DEF SnapServiceInit, ServiceInit, Init, SnapInit
  <2>2. \A p \in DOMAIN Second : Second[p] \in Proc
    BY SecondAssumption
  <2> QED
    BY <2>1, <2>2 DEF HandlersFit, AtCalls, VolumeCalling, SnapCalling, Calling, PlaceFits, RequestFits,
       SecondFits, Idle
<1>3. SharesFit
  <2>1. InitialShare \subseteq Shares \cup {NoShare}
    BY ServiceAssumption DEF Shares, Group
  <2> QED
    BY <2>1 DEF SnapServiceInit, ServiceInit, SharesFit
<1>4. InfoFits
  BY DEF SnapServiceInit, ServiceInit, InfoFits
<1> QED
  BY <1>1, <1>2, <1>3, <1>4 DEF SnapServiceIInv

LEMMA StepSnapServiceIInv ==
    ASSUME NoNilCtx, SnapServiceIInv, [SnapServiceNext]_everything
    PROVE  SnapServiceIInv'
<1>1. SIInv'
  BY SnapStepIsCacheStep, StepSIInv DEF SnapServiceIInv
<1> QED
  BY <1>1, StepHandlersFit, StepSharesFit, StepInfoFits DEF SnapServiceIInv

\* The handlers keep to the protocol of the two caches, whatever REST calls
\* do: each step they make is one that SnapshotCache allows, so that all it
\* guarantees holds for the service (lookupVolume, newVolume, releaseVolume
\* and their like for snapshots, volumes.go:59-396).
THEOREM SnapServiceRefinesCaches == NoNilCtx => (SnapServiceSpec => ImplementsCaches)
<1> SUFFICES ASSUME NoNilCtx PROVE SnapServiceSpec => ImplementsCaches
  OBVIOUS
<1>1. SnapServiceInit => Init /\ SnapInit
  BY DEF SnapServiceInit, ServiceInit
<1>2. SnapServiceIInv /\ [SnapServiceNext]_everything => SnapServiceIInv' /\ [SnapNext]_cVars
  BY StepSnapServiceIInv, SnapStepIsCacheStep
<1> QED
  BY InitSnapServiceIInv, <1>1, <1>2, PTL DEF SnapServiceSpec, ImplementsCaches, SnapSpec

\* Every handler is where its request and its next REST call want it, with
\* the volume and the snapshot it works on to itself.
THEOREM SnapServiceInvariant == NoNilCtx => (SnapServiceSpec => []SnapServiceIInv)
<1> SUFFICES ASSUME NoNilCtx PROVE SnapServiceSpec => []SnapServiceIInv
  OBVIOUS
<1>1. SnapServiceIInv /\ [SnapServiceNext]_everything => SnapServiceIInv'
  BY StepSnapServiceIInv
<1> QED
  BY InitSnapServiceIInv, <1>1, PTL DEF SnapServiceSpec

-----------------------------------------------------------------------------
(* What becomes of shares.  From here on, no REST call has been refused    *)
(* with status 401: HistoryIInv.                                           *)

\* Who is about to delete something has seen that nothing depends on it, and
\* nobody can have changed that: it takes the volume, or the snapshot, that
\* the one who is about to delete owns.
Safe(p) ==
    /\ pc[p] = "own" /\ at[p] = "delete" => share[id[p]] = NoShare \/ share[id[p]].snaps = {}
    /\ spc[p] = "own" /\ at[p] = "snapdelete" => Clones(p) = {}

\* A volume that is created has an href: its calls reach the share.
HrefKnown == \A v \in Vol : state[v] = "created" => info[v].href

HistoryIInv ==
    ~refused => /\ HrefKnown
                /\ OriginKept
                /\ DeletedSnapIsGone
                /\ \A p \in Proc : Safe(p)

SameDependents(i) ==
    /\ share[i] # NoShare => /\ share'[i] # NoShare
                             /\ share'[i].snaps = share[i].snaps
                             /\ share'[i].origin = share[i].origin
    /\ share[i] = NoShare => share'[i] = NoShare

\* What p does to the share of its volume.
ShareStep(p) ==
    /\ pc[p] = "own" /\ id[p] \in VolumeId
    /\ \A i \in VolumeId \ {id[p]} : share'[i] = share[i]
    /\ \/ at[p] = "delete" /\ share'[id[p]] = NoShare
       \/ /\ at[p] = "post" /\ share[id[p]] = NoShare /\ share'[id[p]] # NoShare
          /\ share'[id[p]].snaps = {} /\ share'[id[p]].origin = NoOrigin
       \/ /\ at[p] = "snappost" /\ spc[p] = "own" /\ HasHref(p)
          /\ share[id[p]] # NoShare /\ share'[id[p]] # NoShare
          /\ share'[id[p]].snaps = share[id[p]].snaps \cup {sname[p]}
          /\ share'[id[p]].origin = share[id[p]].origin
       \/ /\ at[p] = "snapdelete" /\ spc[p] = "own"
          /\ share[id[p]] # NoShare /\ share'[id[p]] # NoShare
          /\ share'[id[p]].snaps = share[id[p]].snaps \ {sname[p]}
          /\ share'[id[p]].origin = share[id[p]].origin
       \/ /\ at[p] = "waiting" /\ share[id[p]] = NoShare /\ share'[id[p]] = Cloned(p)
          /\ LET q == Second[p]
             IN  /\ q \in Proc /\ pc[q] = "own" /\ at[q] = "clone" /\ HasSnap(q)
                 /\ id[q] = req[p].source /\ sname[q] = req[p].snap

LEMMA OwnerHasId ==
    ASSUME SIInv, NEW p \in Proc, pc[p] = "own"
    PROVE  /\ id[p] \in VolumeId /\ zvol[p] \in Vol
           /\ \A q \in Proc : pc[q] = "own" /\ id[q] = id[p] => q = p
  BY VolumeFacts DEF SIInv, IInv, LocalsSet, NameFor, Referring, Counted

\* One field of a share is changed.
LEMMA SnapsChange ==
    ASSUME SharesFit, NEW i \in VolumeId, share[i] # NoShare,
           NEW n \in SUBSET SnapName, share' = [share EXCEPT ![i].snaps = n]
    PROVE  /\ share'[i] # NoShare /\ share'[i].snaps = n /\ share'[i].origin = share[i].origin
           /\ \A j \in VolumeId \ {i} : share'[j] = share[j]
<1>1. share[i] \in Shares /\ share' = [share EXCEPT ![i] = [share[i] EXCEPT !.snaps = n]]
  BY DEF SharesFit
<1>2. NoShare \notin Shares
  BY ServiceAssumption DEF Shares, Group
<1>3. [share[i] EXCEPT !.snaps = n] \in Shares
  BY <1>1 DEF Shares
<1>4. share'[i] = [share[i] EXCEPT !.snaps = n] /\ \A j \in VolumeId \ {i} : share'[j] = share[j]
  BY <1>1 DEF SharesFit
<1> QED
  BY <1>1, <1>2, <1>3, <1>4 DEF Shares

LEMMA OthersChange ==
    ASSUME SharesFit, NEW i \in VolumeId, share[i] # NoShare,
           \/ \E g \in Group : share' = [share EXCEPT ![i].group = g]
           \/ \E c \in Nat : share' = [share EXCEPT ![i].cap = c]
    PROVE  \A j \in VolumeId : SameDependents(j)
<1>1. PICK s : /\ share' = [share EXCEPT ![i] = s]
               /\ \/ \E g \in Group : s = [share[i] EXCEPT !.group = g]
                  \/ \E c \in Nat : s = [share[i] EXCEPT !.cap = c]
  BY DEF SharesFit
<1>2. share[i] \in Shares
  BY DEF SharesFit
<1>3. s \in Shares /\ s.snaps = share[i].snaps /\ s.origin = share[i].origin
  BY <1>1, <1>2 DEF Shares
<1>4. NoShare \notin Shares
  BY ServiceAssumption DEF Shares, Group
<1> QED
  BY <1>1, <1>3, <1>4 DEF SharesFit, SameDependents

LEMMA VolumeShareSteps ==
    ASSUME SIInv, HandlersFit, SharesFit, NEW p \in Proc, NEW o \in Outcome, VolumeCalls(p, o)
    PROVE  ShareStep(p) \/ \A i \in VolumeId : SameDependents(i)
<1>1. share' = share => \A i \in VolumeId : SameDependents(i)
  BY DEF SameDependents
<1>2. share \in [VolumeId -> Shares \cup {NoShare}] /\ NoShare \notin Shares
  BY ServiceAssumption DEF SharesFit, Shares, Group
<1>3. CASE CreatePost(p, o)
  <2>1. pc[p] = "own" /\ at[p] = "post"
    BY <1>3 DEF CreatePost, Calls
  <2>2. req[p].range \in Ranges /\ id[p] \in VolumeId
    BY <2>1, Places, OwnerHasId DEF RequestFits
  <2>3. Made(p) # NoShare /\ Made(p).snaps = {} /\ Made(p).origin = NoOrigin
    BY <1>2, <2>2, MadeFits DEF Made
  <2>4. share' = share \/ (share[id[p]] = NoShare /\ share' = [share EXCEPT ![id[p]] = Made(p)])
    BY <1>3 DEF CreatePost
  <2> QED
    BY <1>1, <1>2, <2>1, <2>2, <2>3, <2>4 DEF ShareStep
<1>4. CASE DeleteShare(p, o)
  <2>1. pc[p] = "own" /\ at[p] = "delete" /\ (share' = share \/ share' = Removed(p))
    BY <1>4 DEF DeleteShare, Calls
  <2> QED
    BY <1>1, <1>2, <2>1, OwnerHasId DEF ShareStep, Removed
<1>5. CASE PublishSet(p, o) \/ Unpublish(p, o)
  <2>1. pc[p] = "own" /\ id[p] \in VolumeId
    BY <1>5, OwnerHasId DEF PublishSet, Unpublish, Calls
  <2>2. PublishSet(p, o) => req[p].node \in Group
    BY Places DEF PublishSet, Calls, RequestFits, Group
  <2>3. \/ share' = share
        \/ \E g \in Group : share[id[p]] # NoShare /\ share' = [share EXCEPT ![id[p]].group = g]
    BY <1>5, <2>2 DEF PublishSet, Unpublish, SetGroup, Group
  <2> QED
    BY <1>1, <2>1, <2>3, OthersChange
<1>6. CASE Expand(p, o)
  <2>1. pc[p] = "own" /\ id[p] \in VolumeId
    BY <1>6, OwnerHasId DEF Expand, Calls
  <2>2. req[p].size \in Nat
    BY <1>6, Places, ServiceAssumption DEF Expand, Calls, RequestFits
  <2>3. \/ share' = share
        \/ share[id[p]] # NoShare /\ share' = [share EXCEPT ![id[p]].cap = req[p].size]
    BY <1>6 DEF Expand, Resized
  <2> QED
    BY <1>1, <2>1, <2>2, <2>3, OthersChange
<1>7. CASE \/ GetDetails(p, o) \/ CreateRefresh(p, o) \/ ListSnapshots(p, o) \/ PublishGet(p, o)
           \/ ListShares(p, o)
  BY <1>1, <1>7 DEF GetDetails, CreateRefresh, ListSnapshots, PublishGet, ListShares
<1> QED
  BY <1>3, <1>4, <1>5, <1>6, <1>7 DEF VolumeCalls, VolumeStep, RestCall

LEMMA SnapShareSteps ==
    ASSUME SIInv, HandlersFit, SharesFit, NEW p \in Proc, NEW o \in Outcome, SnapRestCall(p, o)
    PROVE  ShareStep(p) \/ \A i \in VolumeId : SameDependents(i)
<1>1. share' = share => \A i \in VolumeId : SameDependents(i)
  BY DEF SameDependents
<1>2. share \in [VolumeId -> Shares \cup {NoShare}] /\ NoShare \notin Shares
  BY ServiceAssumption DEF SharesFit, Shares, Group
<1>3. CASE CreateSnap(p, o)
  <2>1. pc[p] = "own" /\ spc[p] = "own" /\ at[p] = "snappost" /\ id[p] \in VolumeId
        /\ sname[p] \in SnapName
    BY <1>3, OwnerHasId, Places DEF CreateSnap, SnapCalls, HasVolume, PlaceFits
  <2>2. \/ share' = share
        \/ /\ HasHref(p) /\ share[id[p]] # NoShare
           /\ share' = [share EXCEPT ![id[p]].snaps = @ \cup {sname[p]}]
    BY <1>3 DEF CreateSnap, Reaches, WithSnap
  <2>3. share[id[p]] # NoShare => share[id[p]].snaps \cup {sname[p]} \in SUBSET SnapName
    BY <1>2, <2>1 DEF Shares
  <2>4. CASE /\ HasHref(p) /\ share[id[p]] # NoShare
             /\ share' = [share EXCEPT ![id[p]].snaps = @ \cup {sname[p]}]
    <3>1. /\ share'[id[p]] # NoShare /\ share'[id[p]].snaps = share[id[p]].snaps \cup {sname[p]}
          /\ share'[id[p]].origin = share[id[p]].origin
          /\ \A j \in VolumeId \ {id[p]} : share'[j] = share[j]
      BY <2>1, <2>3, <2>4, SnapsChange
    <3> QED
      BY <2>1, <2>4, <3>1 DEF ShareStep
  <2> QED
    BY <1>1, <2>2, <2>4
<1>4. CASE DeleteSnap(p, o)
  <2>1. pc[p] = "own" /\ spc[p] = "own" /\ at[p] = "snapdelete" /\ id[p] \in VolumeId
    BY <1>4, OwnerHasId DEF DeleteSnap, SnapCalls, HasVolume
  <2>2. \/ share' = share
        \/ share[id[p]] # NoShare /\ share' = [share EXCEPT ![id[p]].snaps = @ \ {sname[p]}]
    BY <1>4 DEF DeleteSnap, WithoutSnap, HasSnap
  <2>3. share[id[p]] # NoShare => share[id[p]].snaps \ {sname[p]} \in SUBSET SnapName
    BY <1>2, <2>1 DEF Shares
  <2> QED
    BY <1>1, <2>1, <2>2, <2>3, SnapsChange DEF ShareStep
<1>5. CASE Clone(p, o)
  <2>1. /\ at[p] = "waiting" /\ pc[p] = "own" /\ id[p] \in VolumeId /\ at[Second[p]] = "clone"
    BY <1>5, CloneFinds, OwnerHasId DEF Clone, SnapCalls
  <2>2. \/ share' = share
        \/ /\ share[id[p]] = NoShare /\ HasSnap(Second[p])
           /\ share' = [share EXCEPT ![id[p]] = Cloned(p)]
    BY <1>5 DEF Clone
  <2> QED
    BY <1>1, <1>2, <1>5, <2>1, <2>2, CloneFinds DEF ShareStep
<1>6. CASE \/ GetSnapDetails(p, o) \/ CheckSnap(p, o) \/ RefreshSnap(p, o) \/ SnapsOf(p, o)
           \/ AllSnaps(p, o)
  BY <1>1, <1>6 DEF GetSnapDetails, CheckSnap, RefreshSnap, SnapsOf, AllSnaps
<1> QED
  BY <1>3, <1>4, <1>5, <1>6 DEF SnapRestCall

LEMMA EveryShareStep ==
    ASSUME SnapServiceIInv, [SnapServiceNext]_everything
    PROVE  (\E p \in Proc : ShareStep(p)) \/ \A i \in VolumeId : SameDependents(i)
<1>1. share' = share => \A i \in VolumeId : SameDependents(i)
  BY DEF SameDependents
<1>2. ASSUME NEW p \in Proc, NEW o \in Outcome, VolumeCalls(p, o) \/ SnapRestCall(p, o)
      PROVE  ShareStep(p) \/ \A i \in VolumeId : SameDependents(i)
  BY <1>2, VolumeShareSteps, SnapShareSteps DEF SnapServiceIInv
<1>3. ASSUME NEW p \in Proc,
             ObtainVolume(p) \/ ObtainSnap(p) \/ WithoutCall(p) \/ GiveAnyBack(p) \/ ArriveAt(p)
      PROVE  share' = share
  BY <1>3, OthersLeaveShares
<1>4. ASSUME NEW i \in BlockId, NEW g \in AdminGroup, Administer(i, g)
      PROVE  \A j \in VolumeId : SameDependents(j)
  <2>1. i \in VolumeId /\ g \in Group
    BY ServiceAssumption DEF Group
  <2> QED
    BY <1>4, <2>1, OthersChange DEF Administer, SnapServiceIInv
<1>5. CASE UNCHANGED everything
  BY <1>1, <1>5 DEF everything, allVars, serviceVars
<1> QED
  BY <1>1, <1>2, <1>3, <1>4, <1>5 DEF SnapServiceNext, HandleAny, Handlers, Environment

LEMMA SnapshotsStay ==
    ASSUME SnapServiceIInv, [SnapServiceNext]_everything, \A p \in Proc : Safe(p)
    PROVE  SnapshotsKept
<1>1. CASE \A i \in VolumeId : SameDependents(i)
  BY <1>1 DEF SnapshotsKept, SameDependents
<1>2. ASSUME NEW p \in Proc, ShareStep(p) PROVE SnapshotsKept
  <2>1. Safe(p)
    OBVIOUS
  <2> QED
    BY <1>2, <2>1 DEF ShareStep, SnapshotsKept, Safe, Cloned
<1> QED
  BY <1>1, <1>2, EveryShareStep

\* A clone is made with an origin, and nobody deletes what is an origin.
LEMMA OriginsStay ==
    ASSUME SnapServiceIInv, [SnapServiceNext]_everything, \A p \in Proc : Safe(p), OriginKept
    PROVE  OriginKept'
<1>0. \A i \in VolumeId : share[i] # NoShare /\ share[i].origin # NoOrigin =>
        share[i].origin = <<share[i].origin[1], share[i].origin[2]>>
        /\ share[i].origin[1] \in VolumeId
  BY DEF SnapServiceIInv, SharesFit, Shares
<1>1. CASE \A i \in VolumeId : SameDependents(i)
  BY <1>0, <1>1 DEF OriginKept, SameDependents
<1>2. ASSUME NEW p \in Proc, ShareStep(p), NEW i \in VolumeId,
             share'[i] # NoShare, share'[i].origin # NoOrigin
      PROVE  LET source == share'[i].origin[1]
             IN  share'[source] # NoShare /\ share'[i].origin[2] \in share'[source].snaps
  <2>1. Safe(p) /\ id[p] \in VolumeId /\ \A j \in VolumeId \ {id[p]} : share'[j] = share[j]
    BY <1>2 DEF ShareStep
  <2>2. CASE at[p] = "waiting"
    <3>1. /\ share[id[p]] = NoShare /\ share'[id[p]] = Cloned(p)
          /\ HasSnap(Second[p]) /\ Second[p] \in Proc /\ pc[Second[p]] = "own"
          /\ id[Second[p]] = req[p].source /\ sname[Second[p]] = req[p].snap
      BY <1>2, <2>2 DEF ShareStep
    <3>2. req[p].source \in VolumeId /\ req[p].source # id[p] /\ share[req[p].source] # NoShare
          /\ req[p].snap \in share[req[p].source].snaps
      BY <3>1, OwnerHasId DEF HasSnap, SnapServiceIInv
    <3>3. CASE i = id[p]
      BY <2>1, <3>1, <3>2, <3>3 DEF Cloned
    <3>4. CASE i # id[p]
      <4>1. share'[i] = share[i] /\ share[share[i].origin[1]] # NoShare
            /\ share[i].origin[2] \in share[share[i].origin[1]].snaps
        BY <1>2, <2>1, <3>4 DEF OriginKept
      <4>2. share[i].origin[1] \in VolumeId \ {id[p]}
        BY <1>0, <1>2, <3>1, <4>1
      <4> QED
        BY <2>1, <4>1, <4>2
    <3> QED
      BY <3>3, <3>4
  <2>3. CASE at[p] # "waiting"
    <3>1. share[i] # NoShare /\ share'[i].origin = share[i].origin
      BY <1>2, <2>1, <2>3 DEF ShareStep
    <3> DEFINE source == share[i].origin[1]
    <3>2. source \in VolumeId /\ share[source] # NoShare /\ share[i].origin[2] \in share[source].snaps
      BY <1>0, <1>2, <3>1 DEF OriginKept
    <3>3. share[i].origin = <<source, share[i].origin[2]>>
      BY <1>0, <1>2, <3>1
    <3> HIDE DEF source
    <3>4. share'[source] # NoShare /\ share[i].origin[2] \in share'[source].snaps
      <4>1. CASE source # id[p]
        BY <2>1, <3>2, <4>1
      <4>2. CASE source = id[p] /\ at[p] = "snapdelete"
        <5>1. i \notin Clones(p)
          BY <1>2, <2>1, <4>2 DEF ShareStep, Safe
        <5>2. share[i].origin # <<id[p], sname[p]>>
          BY <3>1, <5>1 DEF Clones
        <5> QED
          BY <1>2, <3>2, <3>3, <4>2, <5>2 DEF ShareStep
      <4>3. CASE source = id[p] /\ at[p] # "snapdelete"
        BY <1>2, <2>1, <2>3, <3>2, <4>3 DEF ShareStep, Safe
      <4> QED
        BY <4>1, <4>2, <4>3
    <3> QED
      BY <3>1, <3>4 DEF source
  <2> QED
    BY <2>2, <2>3
<1> QED
  BY <1>1, <1>2, EveryShareStep DEF OriginKept

-----------------------------------------------------------------------------
(* What a step leaves alone that a handler has found out.                  *)

Remains(q) ==
    /\ at'[q] = "delete" => at[q] = "delete" /\ pc[q] = "own" /\ id'[q] = id[q]
    /\ at'[q] = "snapdelete" =>
         /\ at[q] = "snapdelete" /\ spc[q] = "own" /\ pc[q] = "own"
         /\ id'[q] = id[q] /\ sname'[q] = sname[q]
    /\ spc'[q] = "own" /\ req'[q].op = "deletesnap" /\ reply'[q] = "ok" =>
         /\ spc[q] = "own" /\ pc[q] = "own" /\ req[q].op = "deletesnap" /\ reply[q] = "ok"
         /\ at[q] = "done" /\ id'[q] = id[q] /\ sname'[q] = sname[q]

LEMMA UntouchedRemains ==
    ASSUME SIInv, HandlersFit, NEW q \in Proc,
           pc'[q] = pc[q], id'[q] = id[q], spc'[q] = spc[q], sname'[q] = sname[q],
           req'[q] = req[q], at'[q] = at[q], reply'[q] = reply[q]
    PROVE  Remains(q)
<1>1. at[q] = "delete" => pc[q] = "own"
  BY Places DEF PlaceFits
<1>2. at[q] = "snapdelete" => spc[q] = "own" /\ pc[q] = "own"
  BY Places DEF PlaceFits, SReferring, SOwning
<1>3. spc[q] = "own" /\ reply[q] = "ok" => at[q] = "done" /\ pc[q] = "own"
  BY Places DEF RequestFits, SReferring, SOwning
<1> QED
  BY <1>1, <1>2, <1>3 DEF Remains

LEMMA OthersRemain ==
    ASSUME SIInv, HandlersFit, NEW p \in Proc, OthersRest(p), HandlersStay(p)
    PROVE  \A q \in Proc \ {p} : Remains(q)
  BY UntouchedRemains DEF OthersRest, HandlersStay

\* A goroutine whose request is as before, and who is not about to delete
\* anything, nor has just replied "ok" with a snapshot it keeps.
LEMMA UnhurriedRemains ==
    ASSUME NEW p, at'[p] \notin {"delete", "snapdelete"},
           spc'[p] # "own" \/ req'[p].op # "deletesnap" \/ reply'[p] # "ok"
    PROVE  Remains(p)
  BY DEF Remains

LEMMA ObtainingRemains ==
    ASSUME SIInv, HandlersFit, NEW p \in Proc, ObtainVolume(p) \/ ObtainSnap(p)
    PROVE  Remains(p)
<1> USE Places DEF TypeOK, STypeOK
<1>1. Moves(p)
  BY ObtainVolumeMoves, ObtainSnapMoves
<1>2. CASE ObtainVolume(p)
  <2>1. pc[p] \in {"lookup", "new", "lock"} /\ spc'[p] = spc[p]
    BY <1>2 DEF ObtainVolume, Obtain, GetVolume, LookupHit, LookupMiss, NewHit, NewMiss, LockVolume,
       sVars, sprocVars
  <2>2. spc'[p] # "own"
    BY <2>1 DEF SReferring, SOwning
  <2>3. at'[p] \in {at[p], "done"}
    BY <1>2 DEF ObtainVolume, Obtain, Reply
  <2>4. at[p] # "delete" /\ at[p] # "snapdelete"
    BY <2>1, <2>2 DEF PlaceFits, SReferring, SOwning
  <2> QED
    BY <2>2, <2>3, <2>4, UnhurriedRemains
<1>3. CASE ObtainSnap(p)
  <2>1. spc[p] \in Getting \cup SLocking
    BY <1>3 DEF ObtainSnap, AcquireSnap, LookupSnapHit, LookupSnapMiss, Again, AddSnap, OtherSource,
       NewSnapHit, LockSnap, CanAdd, HasVolume, Getting, SLocking
  <2>2. at'[p] \in {at[p], "done"}
    BY <1>3 DEF ObtainSnap, Reply
  <2>3. at[p] # "delete" /\ at[p] # "snapdelete"
    BY <2>1 DEF PlaceFits, VolumeCalling, Calling, Getting, SLocking
  <2>4. CASE spc'[p] = "own"
    <3>1. reply' = reply
      BY <1>3, <2>4 DEF ObtainSnap
    <3>2. reply[p] = "none"
      <4>1. at[p] # "done" \/ pc[p] \in GivingBack
        BY <2>1 DEF PlaceFits, Getting, SLocking
      <4>2. pc[p] \notin GivingBack
        BY <1>3 DEF ObtainSnap, AcquireSnap, LookupSnapHit, LookupSnapMiss, Again, AddSnap, OtherSource,
           NewSnapHit, LockSnap, CanAdd, HasVolume, Call, GivingBack, SLocking, SReferring
      <4> QED
        BY <4>1, <4>2 DEF RequestFits
    <3> QED
      BY <2>2, <2>3, <3>1, <3>2, UnhurriedRemains
  <2> QED
    BY <2>2, <2>3, <2>4, UnhurriedRemains
<1> QED
  BY <1>2, <1>3

LEMMA GivingBackRemains ==
    ASSUME SIInv, HandlersFit, NEW p \in Proc, GiveAnyBack(p)
    PROVE  Remains(p)
<1> USE Places DEF TypeOK, STypeOK
<1>1. at'[p] = at[p]
  BY DEF GiveAnyBack, GiveSnapBack, GiveVolumeBack, GiveBack, serviceVars, handlerVars
<1>2. CASE GiveSnapBack(p)
  <2>1. /\ spc[p] \in {"release", "relFast", "relLock", "relCheck"}
        /\ spc'[p] \in {"none", "relFast", "relLock", "relCheck", "panic"}
    BY <1>2 DEF GiveSnapBack, ReleaseSnap, ReleaseSnapRef, ReleaseSnapFast, ReleaseSnapSlow,
       ReleaseSnapCheck, ReleaseSource, UnlockSnapPanic, HasVolume, SGoto
  <2>2. at[p] # "delete" /\ at[p] # "snapdelete"
    BY <2>1 DEF PlaceFits, VolumeCalling, Calling
  <2> QED
    BY <1>1, <2>1, <2>2, UnhurriedRemains
<1>3. CASE GiveVolumeBack(p)
  <2>1. pc[p] \in GivingBack /\ spc'[p] \in {spc[p], "none"}
    BY <1>3 DEF GiveVolumeBack, ReleaseVolume, Release, ReleaseRef, ReleaseFast, ReleaseSlow,
       ReleaseCheck, GivingBack, SGoto
  <2>2. spc[p] # "own" /\ at[p] # "delete" /\ at[p] # "snapdelete"
    BY <2>1 DEF PlaceFits, GivingBack, SReferring, SOwning
  <2> QED
    BY <1>1, <2>1, <2>2, UnhurriedRemains
<1> QED
  BY <1>2, <1>3 DEF GiveAnyBack

LEMMA ArrivingRemains ==
    ASSUME SIInv, HandlersFit, NEW p \in Proc, ArriveAt(p)
    PROVE  Remains(p)
<1> USE Places DEF TypeOK, STypeOK
<1>1. at'[p] \notin {"delete", "snapdelete"}
  <2>1. ASSUME NEW r \in Requests, ArriveVolume(p, r) PROVE at'[p] \notin {"delete", "snapdelete"}
    BY <2>1, RequestFacts DEF ArriveVolume, Arrive, ArriveList, FirstCall
  <2>2. ASSUME NEW r \in OtherRequests, ArriveSnap(p, r) \/ ArriveOther(p, r) \/ ArriveListAll(p, r)
        PROVE  at'[p] \notin {"delete", "snapdelete"}
    BY <2>2 DEF ArriveSnap, ArriveOther, ArriveListAll, FirstSnapCall
  <2> QED
    BY <2>1, <2>2 DEF ArriveAt
<1>2. reply' = reply /\ pc[p] = "idle"
  BY DEF ArriveAt, ArriveVolume, Arrive, ArriveList, ArriveSnap, ArriveOther, ArriveListAll, Free
<1>3. reply[p] = "none"
  BY <1>2 DEF RequestFits, GivingBack
<1> QED
  BY <1>1, <1>2, <1>3, UnhurriedRemains

\* Volume methods, but for the test of DeleteVolume.
LEMMA VolumeCallsRemain ==
    ASSUME SIInv, HandlersFit, NEW p \in Proc, NEW o \in Outcome, VolumeCalls(p, o)
    PROVE  Remains(p) \/ ListSnapshots(p, o)
<1> USE Places DEF TypeOK, STypeOK
<1>1. CASE pc[p] = "details"
  <2>1. spc'[p] = spc[p] /\ spc[p] # "own" /\ at'[p] \in {at[p], "done"}
    BY <1>1 DEF VolumeCalls, GetVolume, GetDetails, Reply, sVars, sprocVars, SReferring, SOwning
  <2>2. at[p] # "delete" /\ at[p] # "snapdelete"
    BY <1>1, <2>1 DEF PlaceFits
  <2> QED
    BY <2>1, <2>2, UnhurriedRemains
<1>2. CASE pc[p] # "details" /\ ~ListSnapshots(p, o)
  <2>1. spc'[p] = "none" /\ RestCall(p, o)
    BY <1>2 DEF VolumeCalls, VolumeStep, sVars, sprocVars
  <2>2. CASE UNCHANGED <<vars, handlerVars, sVars>>
    <3>1. at[p] = "snapdelete" => spc[p] = "own"
      BY DEF PlaceFits
    <3>2. at[p] = "delete" => pc[p] = "own"
      BY DEF PlaceFits
    <3> QED
      BY <2>1, <2>2, <3>1, <3>2 DEF Remains, vars, procVars, handlerVars, sVars, sprocVars
  <2>3. CASE ~UNCHANGED <<vars, handlerVars, sVars>>
    <3>0. UNCHANGED sVars
      BY <1>2 DEF VolumeCalls, VolumeStep
    <3>1. at'[p] \in {"done", "refresh", "setgroup"}
      BY <1>2, <2>1, <2>3, <3>0 DEF RestCall, GetDetails, CreatePost, CreateRefresh, DeleteShare, PublishGet,
         PublishSet, Unpublish, SetGroup, Expand, ListShares, Reply, Then, Panic
    <3> QED
      BY <2>1, <3>1, UnhurriedRemains
  <2> QED
    BY <2>2, <2>3
<1> QED
  BY <1>1, <1>2

\* Snapshot methods, but for the test and the call of DeleteSnapshot.
LEMMA SnapCallsRemain ==
    ASSUME SIInv, HandlersFit, NEW p \in Proc, NEW o \in Outcome, SnapRestCall(p, o)
    PROVE  \/ RefreshSnap(p, o) \/ DeleteSnap(p, o)
           \/ Remains(p)
<1> USE Places DEF TypeOK, STypeOK
<1>1. CASE UNCHANGED <<cVars, handlerVars>>
  <2>1. /\ at' = at /\ pc' = pc /\ spc' = spc /\ id' = id /\ sname' = sname /\ req' = req /\ reply' = reply
    BY <1>1 DEF cVars, vars, procVars, handlerVars, sVars, sprocVars
  <2>2. at[p] = "delete" => pc[p] = "own"
    BY DEF PlaceFits
  <2>3. at[p] = "snapdelete" => spc[p] = "own" /\ pc[p] = "own"
    BY DEF PlaceFits, SReferring, SOwning
  <2>4. spc[p] = "own" /\ reply[p] = "ok" => at[p] = "done" /\ pc[p] = "own"
    BY DEF RequestFits, SReferring, SOwning
  <2> QED
    BY <2>1, <2>2, <2>3, <2>4 DEF Remains
<1>2. CASE CreateSnap(p, o) \/ CheckSnap(p, o)
  <2>1. at[p] \in {"snappost", "snapcheck"} /\ req[p].op = "createsnap"
    BY <1>2 DEF CreateSnap, CheckSnap, SnapCalls, RequestFits
  <2>2. (at'[p] \in {"done", "snapcheck"} /\ req' = req) \/ UNCHANGED <<cVars, handlerVars>>
    BY <1>2 DEF CreateSnap, CheckSnap, SnapDone, SnapReply, Reply, Then, Panic, cVars
  <2> QED
    BY <1>1, <2>1, <2>2, UnhurriedRemains
<1>3. CASE GetSnapDetails(p, o)
  <2>1. CASE SnapDetails(p)
    <3>1. spc[p] = "details" /\ at[p] \in SnapCalling
      BY <2>1 DEF SnapDetails, PlaceFits, AtCalls
    <3>2. at'[p] \in {at[p], "done"} /\ (spc'[p] = "own" => reply' = reply)
      BY <1>3, <2>1, <3>1 DEF GetSnapDetails, Reply, Panic, handlerVars, SnapDetails, SGoto, sVars, sprocVars
    <3>3. reply[p] = "none" /\ at[p] # "delete" /\ at[p] # "snapdelete"
      BY <3>1 DEF RequestFits, PlaceFits, SnapCalling
    <3> QED
      BY <3>2, <3>3, UnhurriedRemains
  <2>2. CASE ~SnapDetails(p)
    BY <1>1, <1>3, <2>2 DEF GetSnapDetails, Panic, cVars
  <2> QED
    BY <2>1, <2>2
<1>4. CASE SnapsOf(p, o) \/ AllSnaps(p, o)
  <2>1. at'[p] = "done" /\ spc'[p] = spc[p] /\ spc[p] # "own"
    BY <1>4 DEF SnapsOf, AllSnaps, SnapReply, Reply, sVars, sprocVars, PlaceFits
  <2> QED
    BY <2>1, UnhurriedRemains
<1>5. CASE Clone(p, o)
  <2>1. at'[p] = "done" /\ spc'[p] = "none"
    <3>1. at[p] = "waiting" /\ spc' = spc
      BY <1>5 DEF Clone, sVars, sprocVars
    <3>2. spc[p] = "none"
      BY <3>1 DEF PlaceFits, VolumeCalling
    <3>3. at'[p] = "done"
      BY <1>5 DEF Clone
    <3> QED
      BY <3>1, <3>2, <3>3
  <2> QED
    BY <2>1, UnhurriedRemains
<1> QED
  BY <1>2, <1>3, <1>4, <1>5 DEF SnapRestCall

LEMMA WithoutCallRemains ==
    ASSUME SIInv, HandlersFit, NEW p \in Proc, WithoutCall(p)
    PROVE  Remains(p)
<1> USE Places DEF TypeOK, STypeOK
<1>1. CASE \/ VolumeStep(p, Get(p) \/ ListStore(p)) \/ CloneFailed(p)
           \/ (req[p].op = "list" /\ VolumeStep(p, ListNext(p)))
  <2>1. at'[p] \in {"done", "store"} /\ spc'[p] = spc[p]
    BY <1>1 DEF VolumeStep, Get, ListStore, ListNext, CloneFailed, Reply, sVars, sprocVars
  <2>2. spc[p] = "none"
    BY <1>1 DEF VolumeStep, CloneFailed, Calls, PlaceFits, VolumeCalling
  <2> QED
    BY <2>1, <2>2, UnhurriedRemains
<1>2. CASE VolumeStep(p, Return(p)) \/ ReturnSnap(p)
  <2>1. at'[p] = "done" /\ spc'[p] # "own"
    BY <1>2 DEF VolumeStep, Return, ReturnSnap, FinishSnap, HasVolume, SGoto, serviceVars, handlerVars,
       sVars, sprocVars
  <2> QED
    BY <2>1, UnhurriedRemains
<1>3. CASE GetSnap(p) \/ StoreSnap(p)
  <2>1. at'[p] = "done" /\ req' = req /\ req[p].op # "deletesnap"
    BY <1>3 DEF GetSnap, StoreSnap, SnapCalls, SnapReply, Reply, RequestFits
  <2> QED
    BY <2>1, UnhurriedRemains
<1>4. CASE NextSnap(p)
  <2>1. at'[p] = "snapstore" /\ spc'[p] \in {"new", "lookup"}
    BY <1>4 DEF NextSnap, SnapCall, SGoto
  <2> QED
    BY <2>1, UnhurriedRemains
<1>5. CASE CloneLookup(p)
  <2>1. at[p] = "clonelookup" /\ p \in DOMAIN Second
    BY <1>5 DEF CloneLookup, Calls, RequestFits
  <2>2. Second[p] # p
    BY <2>1, SecondAssumption
  <2>3. at'[p] = "waiting" /\ spc'[p] = spc[p] /\ spc[p] = "none"
    BY <1>5, <2>1, <2>2 DEF CloneLookup, SnapCall, SGoto, PlaceFits, VolumeCalling
  <2> QED
    BY <2>3, UnhurriedRemains
<1> QED
  BY <1>1, <1>2, <1>3, <1>4, <1>5 DEF WithoutCall

\* The two steps that move a handler and the look-up it waits for.
LEMMA CloneLookupLeaves ==
    ASSUME SIInv, HandlersFit, NEW p \in Proc, CloneLookup(p)
    PROVE  \A q \in Proc \ {p} : Remains(q)
<1> USE Places DEF TypeOK, STypeOK
<1>1. at[p] = "clonelookup" /\ p \in DOMAIN Second /\ req[p] \in CloneRequests
  BY DEF CloneLookup, Calls, RequestFits
<1>2. /\ SnapCall(Second[p], "lookup", req[p].source, req[p].snap)
      /\ req' = [req EXCEPT ![Second[p]] = Lookup]
      /\ at' = [at EXCEPT ![p] = "waiting", ![Second[p]] = "clone"]
      /\ reply' = reply
  BY DEF CloneLookup
<1>3. Second[p] \in Proc \ {p}
  BY <1>1, SecondAssumption
<1>4. Remains(Second[p])
  <2>1. at'[Second[p]] = "clone" /\ spc'[Second[p]] = "lookup"
    BY <1>2, <1>3 DEF SnapCall, SGoto
  <2> QED
    BY <2>1, UnhurriedRemains
<1>5. ASSUME NEW q \in Proc \ {p, Second[p]} PROVE Remains(q)
  <2>1. pc'[q] = pc[q] /\ id'[q] = id[q] /\ spc'[q] = spc[q] /\ sname'[q] = sname[q]
    BY <1>2, <1>3 DEF SnapCall, Call, Goto, SGoto
  <2>2. req'[q] = req[q] /\ at'[q] = at[q] /\ reply'[q] = reply[q]
    BY <1>2, <1>3
  <2> QED
    BY <2>1, <2>2, UntouchedRemains
<1> QED
  BY <1>4, <1>5

LEMMA CloneLeaves ==
    ASSUME SIInv, HandlersFit, NEW p \in Proc, NEW o \in Outcome, Clone(p, o)
    PROVE  \A q \in Proc \ {p} : Remains(q)
<1> USE Places DEF TypeOK, STypeOK
<1>1. Second[p] \in Proc /\ at[Second[p]] = "clone" /\ req[Second[p]].op = "lookupsnap"
  <2>1. Second[p] \in Proc
    BY CloneFinds
  <2>2. at[Second[p]] = "clone"
    BY DEF Clone, SnapCalls
  <2> QED
    BY <2>1, <2>2 DEF RequestFits
<1>2. req' = req /\ at' = [at EXCEPT ![p] = "done", ![Second[p]] = "done"]
  BY DEF Clone
<1>3. /\ pc' = pc /\ id' = id /\ spc' = spc /\ sname' = sname
      /\ \A q \in Proc \ {p} : reply'[q] = reply[q]
  BY DEF Clone, Store, SetState, Stay, vars, procVars, sVars, sprocVars
<1>4. Remains(Second[p])
  <2>1. at'[Second[p]] = "done" /\ req'[Second[p]].op = "lookupsnap"
    BY <1>1, <1>2
  <2> QED
    BY <2>1, UnhurriedRemains
<1>5. ASSUME NEW q \in Proc \ {p, Second[p]} PROVE Remains(q)
  BY <1>2, <1>3, UntouchedRemains
<1> QED
  BY <1>4, <1>5

\* The handlers that find something out, or delete something.
Decides(p, o) ==
    \/ ListSnapshots(p, o) /\ spc[p] = "none" /\ UNCHANGED sVars
    \/ RefreshSnap(p, o)
    \/ DeleteSnap(p, o)

LEMMA CallRemains ==
    ASSUME SnapServiceIInv, NEW p \in Proc, NEW o \in Outcome,
           VolumeCalls(p, o) \/ SnapRestCall(p, o)
    PROVE  /\ \A q \in Proc \ {p} : Remains(q)
           /\ Remains(p) \/ Decides(p, o)
<1> SIInv /\ HandlersFit
  BY DEF SnapServiceIInv
<1>1. \A q \in Proc \ {p} : Remains(q)
  BY VolumeCallsMove, SnapCallsMove, CloneLeaves, OthersRemain DEF Moves
<1>2. VolumeCalls(p, o) => Remains(p) \/ Decides(p, o)
  <2>1. VolumeCalls(p, o) /\ ListSnapshots(p, o) => spc[p] = "none" /\ UNCHANGED sVars
    BY DEF ListSnapshots, Calls, VolumeCalls, VolumeStep
  <2> QED
    BY <2>1, VolumeCallsRemain DEF Decides
<1>3. SnapRestCall(p, o) => Remains(p) \/ Decides(p, o)
  BY SnapCallsRemain DEF Decides
<1> QED
  BY <1>1, <1>2, <1>3

LEMMA QuietlyRemains ==
    ASSUME SnapServiceIInv, NEW p \in Proc,
           ObtainVolume(p) \/ ObtainSnap(p) \/ WithoutCall(p) \/ GiveAnyBack(p)
             \/ (p \in Handlers /\ ArriveAt(p))
    PROVE  \A q \in Proc : Remains(q)
<1> SIInv /\ HandlersFit
  BY DEF SnapServiceIInv
<1>1. Remains(p)
  BY ObtainingRemains, WithoutCallRemains, GivingBackRemains, ArrivingRemains
<1>2. \A q \in Proc \ {p} : Remains(q)
  <2>1. ObtainVolume(p) \/ ObtainSnap(p) => Moves(p)
    BY ObtainVolumeMoves, ObtainSnapMoves
  <2>2. GiveAnyBack(p) => Moves(p)
    BY ReturnMoves, GiveVolumeBackMoves DEF GiveAnyBack
  <2>3. WithoutCall(p) /\ ~CloneLookup(p) => Moves(p)
    BY WithoutCallMoves
  <2>4. p \in Handlers /\ ArriveAt(p) => Moves(p)
    BY ArrivalMoves
  <2> QED
    BY <2>1, <2>2, <2>3, <2>4, CloneLookupLeaves, OthersRemain DEF Moves
<1> QED
  BY <1>1, <1>2

\* When p's own reply says that its snapshot is gone, it is.
Gone(p) == spc[p] = "own" /\ req[p].op = "deletesnap" /\ reply[p] = "ok" => ~HasSnap(p)

\* What a handler has found out about its volume stays true: only the owner
\* of a volume changes what depends on it.
LEMMA KnowledgeStays ==
    ASSUME SnapServiceIInv, [SnapServiceNext]_everything, NEW q \in Proc,
           Remains(q), Safe(q), Gone(q)
    PROVE  Safe(q)' /\ Gone(q)'
<1> SIInv /\ HandlersFit
  BY DEF SnapServiceIInv
<1>1. pc[q] = "own" => id[q] \in VolumeId /\ \A p \in Proc : pc[p] = "own" /\ id[p] = id[q] => p = q
  BY OwnerHasId
<1>2. spc[q] = "own" => sname[q] \in SnapName
  BY Places DEF PlaceFits
<1>3. CASE \A i \in VolumeId : SameDependents(i)
  <2>1. Safe(q)'
    BY <1>1, <1>3 DEF Remains, Safe, Clones, SameDependents
  <2>2. Gone(q)'
    BY <1>1, <1>3 DEF Remains, Gone, HasSnap, SameDependents
  <2> QED
    BY <2>1, <2>2
<1>4. ASSUME NEW p \in Proc, ShareStep(p) PROVE Safe(q)' /\ Gone(q)'
  <2>1. /\ pc[p] = "own" /\ id[p] \in VolumeId
        /\ \A i \in VolumeId \ {id[p]} : share'[i] = share[i]
    BY <1>4 DEF ShareStep
  <2>2. pc'[q] = "own" /\ at'[q] = "delete" => share'[id'[q]] = NoShare \/ share'[id'[q]].snaps = {}
    <3>1. SUFFICES ASSUME at'[q] = "delete"
                   PROVE  share'[id[q]] = NoShare \/ share'[id[q]].snaps = {}
      BY DEF Remains
    <3>2. /\ at[q] = "delete" /\ pc[q] = "own"
          /\ share[id[q]] = NoShare \/ share[id[q]].snaps = {}
      BY <3>1 DEF Remains, Safe
    <3>3. CASE p = q
      BY <1>4, <3>2, <3>3 DEF ShareStep
    <3>4. CASE p # q
      BY <1>1, <2>1, <3>2, <3>4
    <3> QED
      BY <3>3, <3>4
  <2>3. spc'[q] = "own" /\ at'[q] = "snapdelete" => Clones(q)' = {}
    <3>1. SUFFICES ASSUME at'[q] = "snapdelete", NEW i \in VolumeId, share'[i] # NoShare,
                          share'[i].origin = <<id[q], sname[q]>>
                   PROVE  FALSE
      BY DEF Remains, Clones
    <3>2. at[q] = "snapdelete" /\ spc[q] = "own" /\ pc[q] = "own" /\ Clones(q) = {}
      BY <3>1 DEF Remains, Safe
    <3>3. share[i] = NoShare \/ share[i].origin # <<id[q], sname[q]>>
      BY <3>2 DEF Clones
    <3>4. i = id[p]
      BY <2>1, <3>1, <3>3
    <3>5. <<id[q], sname[q]>> \in VolumeId \X SnapName
      BY <1>1, <1>2, <3>2
    <3>6. CASE at[p] = "waiting"
      <4>1. Cloned(p).origin = <<id[Second[p]], sname[Second[p]]>> /\ share'[i] = Cloned(p)
            /\ Second[p] \in Proc /\ pc[Second[p]] = "own" /\ at[Second[p]] = "clone"
        BY <1>4, <3>4, <3>6 DEF ShareStep, Cloned
      <4>2. id[Second[p]] = id[q]
        BY <3>1, <4>1
      <4> QED
        BY <1>1, <3>2, <4>1, <4>2
    <3>7. CASE at[p] # "waiting"
      BY <1>4, <3>1, <3>3, <3>4, <3>5, <3>7, ServiceAssumption DEF ShareStep
    <3> QED
      BY <3>6, <3>7
  <2>4. Gone(q)'
    <3>1. SUFFICES ASSUME spc'[q] = "own", req'[q].op = "deletesnap", reply'[q] = "ok"
                   PROVE  ~HasSnap(q)'
      BY DEF Gone
    <3>2. /\ at[q] = "done" /\ pc[q] = "own" /\ id'[q] = id[q] /\ sname'[q] = sname[q]
          /\ ~HasSnap(q)
      BY <3>1 DEF Remains, Gone
    <3>3. p # q
      BY <1>4, <3>2 DEF ShareStep
    <3>4. share'[id[q]] = share[id[q]]
      BY <1>1, <2>1, <3>2, <3>3
    <3> QED
      BY <3>2, <3>4 DEF HasSnap
  <2> QED
    BY <2>2, <2>3, <2>4 DEF Safe
<1> QED
  BY <1>3, <1>4, EveryShareStep

\* A true answer tells a handler what it is to find out: without snapshots,
\* or without clones, it goes on to the DELETE, which takes the snapshot away.
LEMMA DecisionsAreRight ==
    ASSUME SnapServiceIInv, NEW p \in Proc, NEW o \in Outcome \ {"unauth"}, Decides(p, o),
           HrefKnown, Gone(p)
    PROVE  Safe(p)' /\ Gone(p)'
<1> SIInv /\ HandlersFit /\ SharesFit
  BY DEF SnapServiceIInv
<1> USE Places DEF TypeOK, STypeOK
<1>1. CASE ListSnapshots(p, o) /\ spc[p] = "none" /\ UNCHANGED sVars
  <2>1. /\ pc[p] = "own" /\ spc'[p] = "none" /\ pc' = pc /\ id' = id /\ share' = share
        /\ id[p] \in VolumeId
    BY <1>1, OwnerHasId DEF ListSnapshots, Calls, Stay, vars, procVars, sVars, sprocVars
  <2>2. at'[p] = "delete" => share[id[p]] = NoShare \/ share[id[p]].snaps = {}
    BY <1>1, <2>1 DEF ListSnapshots, Reply, HasSnapshots
  <2> QED
    BY <2>1, <2>2 DEF Safe, Gone
<1>2. CASE RefreshSnap(p, o)
  <2>1. /\ pc[p] = "own" /\ spc[p] = "own" /\ at[p] = "snaprefresh" /\ reply[p] = "none"
    BY <1>2 DEF RefreshSnap, SnapCalls, HasVolume, RequestFits
  <2>2. /\ id' = id /\ sname' = sname /\ share' = share
    BY <1>2 DEF RefreshSnap, SnapDone, SnapReply, SetSnapState, Stay, vars, procVars, sVars, sprocVars
  <2>3. HasHref(p)
    BY <2>1, OwnerHasId DEF PlaceFits, HrefKnown, HasHref
  <2>4. at'[p] # "delete"
    BY <1>2 DEF RefreshSnap, SnapDone, SnapReply, Reply, Then
  <2>5. at'[p] = "snapdelete" => Clones(p) = {}
    BY <1>2 DEF RefreshSnap, SnapDone, SnapReply, Reply, HasClones
  <2>6. reply'[p] = "ok" => ~HasSnap(p)
    <3>1. CASE o = "answered" /\ Reaches(p) /\ HasSnap(p)
      BY <1>2, <2>1, <3>1 DEF RefreshSnap, SnapReply, Reply, Then, Failed
    <3>2. CASE o # "answered"
      BY <1>2, <2>1, <3>2 DEF RefreshSnap, SnapReply, Reply
    <3>3. CASE ~(Reaches(p) /\ HasSnap(p))
      BY <2>3, <3>3 DEF Reaches, HasSnap
    <3> QED
      BY <3>1, <3>2, <3>3
  <2> QED
    BY <2>2, <2>4, <2>5, <2>6 DEF Safe, Gone, Clones, HasSnap
<1>3. CASE DeleteSnap(p, o)
  <2>1. pc[p] = "own" /\ spc[p] = "own" /\ id[p] \in VolumeId
    BY <1>3, OwnerHasId DEF DeleteSnap, SnapCalls, HasVolume
  <2>2. id' = id /\ sname' = sname /\ at'[p] = "done"
    BY <1>3 DEF DeleteSnap, SnapDone, SnapReply, SetSnapState, Reply, Stay, vars, procVars, sVars, sprocVars
  <2>3. reply'[p] = "ok" => share' = WithoutSnap(p)
    <3>1. CASE Failed(o)
      <4>1. reply' = [reply EXCEPT ![p] = "error"]
        BY <1>3, <3>1 DEF DeleteSnap, SnapReply, Reply
      <4> QED
        BY <4>1
    <3>2. CASE ~Failed(o)
      <4>1. Performed(o)
        BY <3>2, ServiceAssumption DEF Failed, Performed, Outcome
      <4> QED
        BY <1>3, <4>1 DEF DeleteSnap
    <3> QED
      BY <3>1, <3>2
  <2>4. share' = WithoutSnap(p) => ~(share'[id[p]] # NoShare /\ sname[p] \in share'[id[p]].snaps)
    <3>1. CASE ~HasSnap(p)
      BY <3>1 DEF WithoutSnap, HasSnap
    <3>2. CASE HasSnap(p)
      <4>1. share[id[p]] # NoShare /\ share[id[p]].snaps \ {sname[p]} \in SUBSET SnapName
        <5>1. share[id[p]] # NoShare
          BY <3>2 DEF HasSnap
        <5>2. share[id[p]].snaps \in SUBSET SnapName
          BY <2>1, <5>1 DEF SharesFit, Shares
        <5> QED
          BY <5>1, <5>2
      <4>2. share' = WithoutSnap(p) => share'[id[p]].snaps = share[id[p]].snaps \ {sname[p]}
        <5> SUFFICES ASSUME share' = WithoutSnap(p)
                     PROVE  share'[id[p]].snaps = share[id[p]].snaps \ {sname[p]}
          OBVIOUS
        <5> DEFINE others == share[id[p]].snaps \ {sname[p]}
        <5>1. share' = [share EXCEPT ![id[p]].snaps = others]
          BY <3>2 DEF WithoutSnap
        <5>2. id[p] \in VolumeId /\ share[id[p]] # NoShare /\ others \in SUBSET SnapName
          BY <2>1, <4>1
        <5> HIDE DEF others
        <5>3. share'[id[p]].snaps = others
          BY <5>1, <5>2, SnapsChange
        <5> QED
          BY <5>3 DEF others
      <4> QED
        BY <4>2
    <3> QED
      BY <3>1, <3>2
  <2> QED
    BY <2>2, <2>3, <2>4 DEF Safe, Gone, HasSnap
<1> QED
  BY <1>1, <1>2, <1>3 DEF Decides

-----------------------------------------------------------------------------
(* A structure in state "created" has its href.                            *)

LEMMA HrefStays ==
    ASSUME HrefKnown, InfoFits, NEW v, \A w \in Vol \ {v} : state'[w] = state[w],
           \/ state'[v] = state[v] /\ info' = info
           \/ state'[v] = state[v] /\ \E c : info' = [info EXCEPT ![v].cap = c]
           \/ /\ \A w \in Vol \ {v} : info'[w] = info[w]
              /\ v \in Vol /\ state'[v] = "created" => info'[v].href
    PROVE  HrefKnown'
<1>1. ASSUME NEW c, info' = [info EXCEPT ![v].cap = c], NEW w \in Vol PROVE info'[w].href = info[w].href
  BY <1>1 DEF InfoFits, UnknownInfo
<1> QED
  BY <1>1 DEF HrefKnown

\* setInfo with what the appliance told of a share.
LEMMA SetInfoKnows ==
    ASSUME HrefKnown, InfoFits, NEW p, NEW s, s # Nothing, SetInfo(p, s),
           \A w \in Vol \ {zvol[p]} : state'[w] = state[w]
    PROVE  HrefKnown'
<1>1. zvol[p] \in Vol => info'[zvol[p]].href
  BY DEF SetInfo, InfoFits
<1>2. \A w \in Vol \ {zvol[p]} : info'[w] = info[w]
  BY DEF SetInfo, InfoFits
<1> QED
  BY <1>1, <1>2, HrefStays

\* What the appliance tells of a share is no empty answer.
LEMMA SharesAreSomething ==
    ASSUME SharesFit, NEW i \in VolumeId
    PROVE  /\ share[i] # NoShare => share[i] # Nothing
           /\ \A s : ShareFits(i, s) /\ s # NoShare => s # Nothing
<1>1. \A s : ShareFits(i, s) /\ s # NoShare => s # Nothing
  BY ServiceAssumption DEF ShareFits, Nothing
<1> QED
  BY <1>1 DEF SharesFit, ShareFits

LEMMA VolumeCallsKnow ==
    ASSUME SnapServiceIInv, HrefKnown, NEW p \in Proc, NEW o \in Outcome \ {"unauth"},
           VolumeCalls(p, o)
    PROVE  HrefKnown'
<1> SIInv /\ HandlersFit /\ SharesFit /\ InfoFits
  BY DEF SnapServiceIInv
<1> USE Places DEF TypeOK
<1>0. pc[p] \in {"own", "details"} => zvol[p] \in Vol /\ id[p] \in VolumeId
  BY OwnerHasId, VolumeFacts DEF SIInv, IInv, LocalsSet, Referring, Counted
<1>1. UNCHANGED <<vars, info>> => HrefKnown'
  BY DEF HrefKnown, vars, cacheVars
<1>2. CASE GetDetails(p, o)
  <2>1. \A w \in Vol \ {zvol[p]} : state'[w] = state[w]
    BY <1>2 DEF GetDetails, Details
  <2>2. CASE pc'[p] = "own"
    <3>1. share[id[p]] # NoShare /\ SetInfo(p, share[id[p]]) /\ id[p] \in VolumeId
      BY <1>0, <1>2, <2>2 DEF GetDetails
    <3> QED
      BY <2>1, <3>1, SharesAreSomething, SetInfoKnows
  <2>3. CASE pc'[p] # "own"
    <3>1. info' = info /\ state' = state
      BY <1>2, <2>3 DEF GetDetails, Details, Goto
    <3> QED
      BY <3>1 DEF HrefKnown
  <2> QED
    BY <2>2, <2>3
<1>3. ASSUME NEW s, s # Nothing, Store(p, s) PROVE HrefKnown'
  <2>1. \A w \in Vol \ {zvol[p]} : state'[w] = state[w]
    BY <1>3 DEF Store, SetState
  <2> QED
    BY <1>3, <2>1, SetInfoKnows DEF Store
<1>4. ASSUME SetState(p, "deleted"), info' = info PROVE HrefKnown'
  BY <1>0, <1>4 DEF SetState, HrefKnown
<1>5. CASE CreatePost(p, o)
  <2>1. req[p].range \in Ranges /\ id[p] \in VolumeId
    BY <1>5, OwnerHasId DEF CreatePost, Calls, RequestFits
  <2>2. Made(p) # Nothing
    <3>1. Made(p) \in Shares /\ ShareFits(id[p], Made(p))
      BY <2>1, MadeFits
    <3>2. NoShare \notin Shares
      BY ServiceAssumption DEF Shares, Group
    <3> QED
      BY <2>1, <3>1, <3>2, SharesAreSomething
  <2>3. Store(p, Made(p)) \/ Stay \/ (SetState(p, "deleted") /\ info' = info)
    BY <1>5 DEF CreatePost
  <2> QED
    BY <1>1, <1>3, <1>4, <2>2, <2>3 DEF Stay
<1>6. CASE CreateRefresh(p, o)
  <2>1. id[p] \in VolumeId /\ (Stay \/ (share[id[p]] # NoShare /\ Store(p, share[id[p]])))
    BY <1>6, OwnerHasId DEF CreateRefresh, Calls
  <2> QED
    BY <1>1, <1>3, <2>1, SharesAreSomething DEF Stay
<1>7. CASE DeleteShare(p, o)
  BY <1>1, <1>4, <1>7 DEF DeleteShare, Stay
<1>8. CASE Expand(p, o)
  <2>1. Stay \/ (\E c : KnowCapacity(p, c) /\ UNCHANGED vars)
    BY <1>8 DEF Expand
  <2>2. ASSUME NEW c, KnowCapacity(p, c), UNCHANGED vars PROVE HrefKnown'
    BY <2>2, HrefStays DEF KnowCapacity, vars, cacheVars
  <2> QED
    BY <1>1, <2>1, <2>2 DEF Stay
<1>9. CASE \/ ListSnapshots(p, o) \/ PublishGet(p, o) \/ PublishSet(p, o) \/ Unpublish(p, o)
           \/ ListShares(p, o)
  BY <1>1, <1>9 DEF ListSnapshots, PublishGet, PublishSet, Unpublish, SetGroup, ListShares, Stay, Panic
<1> QED
  BY <1>2, <1>5, <1>6, <1>7, <1>8, <1>9 DEF VolumeCalls, VolumeStep, RestCall

LEMMA SnapCallsKnow ==
    ASSUME SnapServiceIInv, HrefKnown, NEW p \in Proc, NEW o \in Outcome \ {"unauth"},
           SnapRestCall(p, o)
    PROVE  HrefKnown'
<1> SIInv /\ HandlersFit /\ SharesFit /\ InfoFits
  BY DEF SnapServiceIInv
<1>1. UNCHANGED <<state, info>> => HrefKnown'
  BY DEF HrefKnown
<1>2. CASE Clone(p, o)
  <2>1. id[p] \in VolumeId
    BY <1>2, CloneFinds, OwnerHasId
  <2>2. Stay \/ (HasSnap(Second[p]) /\ Store(p, Cloned(p)))
    <3>1. \/ o = "answered" /\ HasSnap(Second[p]) /\ Store(p, Cloned(p))
          \/ o = "unauth"
          \/ Stay
      BY <1>2, Zenon DEF Clone
    <3> QED
      BY <3>1
  <2>3. ASSUME HasSnap(Second[p]) PROVE Cloned(p) # Nothing
    BY ServiceAssumption DEF Cloned, Nothing
  <2>4. Store(p, Cloned(p)) => \A w \in Vol \ {zvol[p]} : state'[w] = state[w]
    BY DEF Store, SetState
  <2> QED
    BY <1>1, <2>2, <2>3, <2>4, SetInfoKnows DEF Stay, Store, vars, cacheVars
<1>3. CASE ~Clone(p, o)
  <2>1. UNCHANGED <<state, info>>
    BY <1>3 DEF SnapRestCall, GetSnapDetails, SnapDetails, CreateSnap, CheckSnap, RefreshSnap, DeleteSnap,
       SnapsOf, AllSnaps, SnapDone, SetSnapState, SnapReply, Stay, Panic, vars, cacheVars
  <2> QED
    BY <1>1, <2>1
<1> QED
  BY <1>2, <1>3

LEMMA OthersKnow ==
    ASSUME SnapServiceIInv, HrefKnown, NEW p \in Proc,
           ObtainVolume(p) \/ ObtainSnap(p) \/ WithoutCall(p) \/ GiveAnyBack(p) \/ ArriveAt(p)
    PROVE  HrefKnown'
<1> SIInv /\ InfoFits
  BY DEF SnapServiceIInv
<1>1. UNCHANGED <<state, info>> => HrefKnown'
  BY DEF HrefKnown
<1>2. CASE ObtainVolume(p)
  <2>1. CASE NewMiss(p) /\ info' = [info EXCEPT ![zvol'[p]] = UnknownInfo]
    <3>1. PICK v \in Vol : state' = [state EXCEPT ![v] = "creating"] /\ zvol' = [zvol EXCEPT ![p] = v]
      BY <2>1 DEF NewMiss
    <3>2. zvol'[p] = v /\ state'[v] = "creating" /\ \A w \in Vol \ {v} : state'[w] = state[w]
      BY <3>1 DEF SIInv, IInv, TypeOK
    <3>3. \A w \in Vol \ {v} : info'[w] = info[w]
      BY <2>1, <3>2 DEF InfoFits
    <3> QED
      BY <3>2, <3>3 DEF HrefKnown
  <2>2. CASE ~NewMiss(p)
    <3>1. UNCHANGED <<state, info>>
      BY <1>2, <2>2 DEF ObtainVolume, Obtain, LookupHit, LookupMiss, NewHit, HoldCached, LockVolume, cacheVars
    <3> QED
      BY <1>1, <3>1
  <2>3. NewMiss(p) => info' = [info EXCEPT ![zvol'[p]] = UnknownInfo]
    BY <1>2 DEF ObtainVolume, Obtain, LookupHit, LookupMiss, NewHit, NewMiss, LockVolume, HoldCached, Goto
  <2> QED
    BY <2>1, <2>2, <2>3
<1>3. CASE ObtainSnap(p) \/ GiveAnyBack(p) \/ ArriveAt(p)
  <2>1. ObtainSnap(p) => UNCHANGED <<state, info>>
    BY DEF ObtainSnap, AcquireSnap, LookupSnapHit, HoldSnap, LookupSnapMiss, Again, Call, Finish, AddSnap,
       OtherSource, NewSnapHit, LockSnap, vars, cacheVars
  <2>2. GiveSnapBack(p) => UNCHANGED <<state, info>>
    BY DEF GiveSnapBack, ReleaseSnap, ReleaseSnapRef, ReleaseSnapFast, ReleaseSnapSlow, ReleaseSnapCheck,
       ReleaseSource, UnlockSnapPanic, Finish, serviceVars, vars, cacheVars
  <2>3. GiveVolumeBack(p) => UNCHANGED <<state, info>>
    BY DEF GiveVolumeBack, GiveBack, ReleaseVolume, Release, ReleaseRef, ReleaseFast, ReleaseSlow,
       ReleaseCheck, UnlockPanic, serviceVars, cacheVars
  <2>4. ArriveAt(p) => UNCHANGED <<state, info>>
    BY DEF ArriveAt, ArriveVolume, Arrive, ArriveList, ArriveSnap, ArriveOther, ArriveListAll, SnapCall,
       VolumeCall, Call, vars, cacheVars
  <2> QED
    BY <1>1, <1>3, <2>1, <2>2, <2>3, <2>4 DEF GiveAnyBack
<1>4. CASE WithoutCall(p)
  <2>1. CASE VolumeStep(p, ListStore(p))
    <3>1. PICK s : s # Nothing /\ Store(p, s)
      <4>1. [Nothing EXCEPT !.cap = heard[p].cap, !.group = MaskAll] # Nothing
        BY ServiceAssumption DEF Nothing
      <4> QED
        BY <2>1, <4>1 DEF VolumeStep, ListStore
    <3>2. \A w \in Vol \ {zvol[p]} : state'[w] = state[w]
      BY <3>1 DEF Store, SetState
    <3> QED
      BY <3>1, <3>2, SetInfoKnows DEF Store
  <2>2. CASE ~VolumeStep(p, ListStore(p))
    <3>1. UNCHANGED <<state, info>>
      BY <1>4, <2>2 DEF WithoutCall, VolumeStep, Get, ListNext, Return, Finish, CloneLookup, CloneFailed,
         GetSnap, SnapReply, NextSnap, StoreSnap, ReturnSnap, FinishSnap, SetSnapState, SnapCall, Call, Stay,
         serviceVars, vars, cacheVars
    <3> QED
      BY <1>1, <3>1
  <2> QED
    BY <2>1, <2>2
<1> QED
  BY <1>2, <1>3, <1>4

-----------------------------------------------------------------------------
(* The steps of SnapshotHistory.                                           *)

LEMMA HistoryIsService ==
    ASSUME [SnapHistoryNext]_snapHistoryVars
    PROVE  [SnapServiceNext]_everything
<1>1. ASSUME NEW p \in Handlers, Arrives(p) PROVE SnapServiceNext
  BY <1>1 DEF Arrives, SnapServiceNext
<1>2. ASSUME NEW p \in Proc, Works(p) PROVE SnapServiceNext
  BY <1>2 DEF Works, HandleAny, SnapServiceNext
<1>3. ASSUME NEW p \in Proc, NEW o \in Outcome, Hears(p, o) PROVE SnapServiceNext
  BY <1>3 DEF Hears, HandleAny, SnapServiceNext
<1>4. CASE Running /\ Environment /\ UNCHANGED <<sVars, refused, quiet>>
  BY <1>4 DEF SnapServiceNext
<1>5. CASE UNCHANGED snapHistoryVars
  BY <1>5 DEF snapHistoryVars
<1> QED
  BY <1>1, <1>2, <1>3, <1>4, <1>5 DEF SnapHistoryNext

LEMMA InitHistory == SnapHistoryInit => SnapServiceIInv /\ HistoryIInv
<1> SUFFICES ASSUME SnapHistoryInit PROVE SnapServiceIInv /\ HistoryIInv
  OBVIOUS
<1>1. SnapServiceIInv /\ OriginKept
  BY InitSnapServiceIInv DEF SnapHistoryInit, SnapServiceInit
<1>2. /\ state = [v \in Vol |-> "creating"] /\ pc = [p \in Proc |-> "idle"]
      /\ spc = [p \in Proc |-> "none"]
  BY DEF SnapHistoryInit, SnapServiceInit, ServiceInit, Init, SnapInit
<1> QED
  BY <1>1, <1>2 DEF HistoryIInv, HrefKnown, DeletedSnapIsGone, Safe

LEMMA StepHistoryIInv ==
    ASSUME SnapServiceIInv, HistoryIInv, [SnapHistoryNext]_snapHistoryVars
    PROVE  HistoryIInv'
<1>1. [SnapServiceNext]_everything
  BY HistoryIsService
<1>2. refused => refused'
  BY DEF SnapHistoryNext, Arrives, Works, Hears, snapHistoryVars
<1> SUFFICES ASSUME ~refused, ~refused'
             PROVE  HrefKnown' /\ OriginKept' /\ DeletedSnapIsGone' /\ \A q \in Proc : Safe(q)'
  BY <1>2 DEF HistoryIInv
<1>3. HrefKnown /\ OriginKept /\ \A q \in Proc : Safe(q) /\ Gone(q)
  BY DEF HistoryIInv, DeletedSnapIsGone, Gone
<1>4. OriginKept'
  BY <1>1, <1>3, OriginsStay
<1>5. ASSUME \A q \in Proc : Remains(q)
      PROVE  \A q \in Proc : Safe(q)' /\ Gone(q)'
  BY <1>1, <1>3, <1>5, KnowledgeStays
<1>6. HrefKnown' /\ \A q \in Proc : Safe(q)' /\ Gone(q)'
  <2>1. ASSUME NEW p \in Handlers, Arrives(p)
        PROVE  HrefKnown' /\ \A q \in Proc : Safe(q)' /\ Gone(q)'
    <3>1. p \in Proc /\ ArriveAt(p)
      BY <2>1 DEF Arrives, Handlers
    <3> QED
      BY <1>3, <1>5, <2>1, <3>1, QuietlyRemains, OthersKnow
  <2>2. ASSUME NEW p \in Proc, Works(p)
        PROVE  HrefKnown' /\ \A q \in Proc : Safe(q)' /\ Gone(q)'
    <3>1. ObtainVolume(p) \/ ObtainSnap(p) \/ WithoutCall(p) \/ GiveAnyBack(p)
      BY <2>2 DEF Works
    <3> QED
      BY <1>3, <1>5, <3>1, QuietlyRemains, OthersKnow
  <2>3. ASSUME NEW p \in Proc, NEW o \in Outcome, Hears(p, o)
        PROVE  HrefKnown' /\ \A q \in Proc : Safe(q)' /\ Gone(q)'
    <3>1. o \in Outcome \ {"unauth"} /\ (VolumeCalls(p, o) \/ SnapRestCall(p, o))
      BY <2>3 DEF Hears
    <3>2. HrefKnown'
      BY <1>3, <3>1, VolumeCallsKnow, SnapCallsKnow
    <3>3. \A q \in Proc \ {p} : Safe(q)' /\ Gone(q)'
      BY <1>1, <1>3, <3>1, CallRemains, KnowledgeStays
    <3>4. Safe(p)' /\ Gone(p)'
      <4>1. CASE Remains(p)
        BY <1>1, <1>3, <4>1, KnowledgeStays
      <4>2. CASE Decides(p, o)
        BY <1>3, <3>1, <4>2, DecisionsAreRight
      <4> QED
        BY <3>1, <4>1, <4>2, CallRemains
    <3> QED
      BY <3>2, <3>3, <3>4
  <2>4. CASE (Environment /\ UNCHANGED sVars) \/ UNCHANGED snapHistoryVars
    <3>1. UNCHANGED <<vars, info, handlerVars, sVars>>
      BY <2>4 DEF Environment, Administer, snapHistoryVars, everything, allVars, serviceVars
    <3>2. HrefKnown'
      BY <1>3, <3>1 DEF HrefKnown, vars, cacheVars
    <3>3. \A q \in Proc : Remains(q)
      <4>1. /\ pc' = pc /\ id' = id /\ spc' = spc /\ sname' = sname /\ req' = req /\ at' = at
            /\ reply' = reply
        BY <3>1 DEF vars, procVars, sVars, sprocVars, handlerVars
      <4> QED
        BY <4>1, UntouchedRemains DEF SnapServiceIInv
    <3> QED
      BY <1>5, <3>2, <3>3
  <2> QED
    BY <2>1, <2>2, <2>3, <2>4 DEF SnapHistoryNext
<1> QED
  BY <1>4, <1>6 DEF DeletedSnapIsGone, Gone

LEMMA HistoryInvariant ==
    NoNilCtx => (SnapHistorySpec => [](SnapServiceIInv /\ HistoryIInv))
<1> SUFFICES ASSUME NoNilCtx PROVE SnapHistorySpec => [](SnapServiceIInv /\ HistoryIInv)
  OBVIOUS
<1>1. SnapServiceIInv /\ HistoryIInv /\ [SnapHistoryNext]_snapHistoryVars
        => SnapServiceIInv' /\ HistoryIInv'
  BY HistoryIsService, StepSnapServiceIInv, StepHistoryIInv
<1> QED
  BY InitHistory, <1>1, PTL DEF SnapHistorySpec

\* As long as no REST call is refused, DeleteVolume never takes a snapshot
\* along (the tests of controller.go:220 and controller_fs.go:161): what it
\* found out about its volume stays true up to its DELETE.
THEOREM SnapshotsAreKept == NoNilCtx => (SnapHistorySpec => KeptUnlessUnauth)
<1> SUFFICES ASSUME NoNilCtx PROVE SnapHistorySpec => KeptUnlessUnauth
  OBVIOUS
<1>1. SnapServiceIInv /\ HistoryIInv /\ [SnapHistoryNext]_snapHistoryVars
        => [~refused => SnapshotsKept]_snapHistoryVars
  BY HistoryIsService, SnapshotsStay DEF HistoryIInv
<1> QED
  BY HistoryInvariant, <1>1, PTL DEF SnapHistorySpec, KeptUnlessUnauth

\* As long as no REST call is refused, no clone loses the snapshot it was
\* made from, and a snapshot is gone when DeleteSnapshot says so
\* (getNumClones and the DELETE of snapshots.go).
THEOREM OriginsAreKept == NoNilCtx => (SnapHistorySpec => []OriginUnlessUnauth)
<1>1. HistoryIInv => OriginUnlessUnauth
  BY DEF HistoryIInv, OriginUnlessUnauth
<1> QED
  BY HistoryInvariant, <1>1, PTL

THEOREM DeletedSnapsAreGone == NoNilCtx => (SnapHistorySpec => []DeletedUnlessUnauth)
<1>1. HistoryIInv => DeletedUnlessUnauth
  BY DEF HistoryIInv, DeletedUnlessUnauth
<1> QED
  BY HistoryInvariant, <1>1, PTL

-----------------------------------------------------------------------------
(* Quiet behaviours: the cached snapshots.                                 *)

\* A cached snapshot is one of the volume its name belongs to, and points to
\* the structure of that volume, which is created.
SnapFresh(n) ==
    sHash[n] # NoSnap =>
        /\ sId[sHash[n]][1] = SourceOf[n]
        /\ vHash[NameOf[SourceOf[n]]] = sZvol[sHash[n]]
        /\ state[sZvol[sHash[n]]] = "created"

\* What is cached as created is on the appliance.
SnapTrue(n) ==
    sHash[n] # NoSnap /\ sState[sHash[n]] = "created" =>
        share[SourceOf[n]] # NoShare /\ n \in share[SourceOf[n]].snaps

\* Who works on a snapshot has the volume its name belongs to.
AtSource(p) == spc[p] # "none" => id[p] = SourceOf[sname[p]]

\* No listing runs, and a clone is asked for by the right source.
Undisturbed(p) ==
    /\ at[p] \notin {"list", "store", "listallsnaps", "snapstore"}
    /\ todo[p] = {}
    /\ AtSource(p)
    /\ req[p].op = "clone" => req[p].source = SourceOf[req[p].snap]

QuietIInv ==
    quiet => /\ ~refused
             /\ \A n \in SName : SnapFresh(n) /\ SnapTrue(n)
             /\ \A p \in Proc : spc[p] # "panic" /\ Undisturbed(p)

\* The caches' part of a step.
CacheMove(p) ==
    \/ GetVolume(p) \/ ReleaseVolume(p)
    \/ AcquireSnap(p) \/ UseSnap(p) \/ ReleaseSnap(p)
    \/ /\ UseVolume(p)
       /\ \A n \in SName : sHash[n] # NoSnap => state'[sZvol[sHash[n]]] = "created"
    \/ UNCHANGED cVars

CacheStep(p) == StartAny(p) \/ CacheMove(p)

\* The structure of a volume is the one of the name it is looked up by.
LEMMA SourceOfMine ==
    ASSUME SIInv, NEW p \in Proc, pc[p] = "own"
    PROVE  /\ id[p] \in VolumeId /\ NameFor(p) \in Name /\ zvol[p] \in Vol
           /\ volId[zvol[p]] = id[p] /\ vHash[NameOf[id[p]]] = zvol[p]
<1>1. /\ id[p] \in VolumeId /\ zvol[p] \in Vol /\ vHash[NameFor(p)] = zvol[p]
      /\ volId[zvol[p]] \in VolumeId /\ NameOf[volId[zvol[p]]] = NameFor(p)
  BY VolumeFacts, OwnerHasId DEF SIInv, Referring, Counted
<1> QED
  BY <1>1, NamesAssumption, CacheAssumption DEF NameFor

LEMMA SnapsStayFresh ==
    ASSUME SIInv, HandlersFit, \A n \in SName : SnapFresh(n), NEW p \in Proc, AtSource(p), CacheStep(p)
    PROVE  \A n \in SName : SnapFresh(n)'
<1> USE DEF SIInv, IInv, TypeOK, STypeOK
<1>1. ASSUME NEW n \in SName, sHash[n] # NoSnap
      PROVE  /\ sHash[n] \in Snap /\ sZvol[sHash[n]] \in Vol /\ SourceOf[n] \in VolumeId
             /\ NameOf[SourceOf[n]] \in Name /\ vHash[NameOf[SourceOf[n]]] = sZvol[sHash[n]]
             /\ state[sZvol[sHash[n]]] = "created"
  <2>1. sHash[n] \in Snap /\ sZvol[sHash[n]] \in Vol /\ sId[sHash[n]] \in VolumeId \X SName
    BY <1>1 DEF SnapUnderName
  <2>2. SnapFresh(n)
    OBVIOUS
  <2>3. SourceOf[n] \in VolumeId
    BY <1>1, <2>1, <2>2 DEF SnapFresh
  <2> QED
    BY <1>1, <2>1, <2>2, <2>3, CacheAssumption DEF SnapFresh
\* Snapshots as they were, and their volumes.
<1>2. ASSUME UNCHANGED <<sId, sZvol>>, \A n \in SName : sHash'[n] \in {sHash[n], NoSnap},
             \A n \in SName : sHash[n] # NoSnap =>
                 /\ vHash'[NameOf[SourceOf[n]]] = vHash[NameOf[SourceOf[n]]]
                 /\ state'[sZvol[sHash[n]]] = "created"
      PROVE  \A n \in SName : SnapFresh(n)'
  BY <1>2 DEF SnapFresh
<1>3. ASSUME UNCHANGED <<sId, sZvol, vHash, state>>, \A n \in SName : sHash'[n] \in {sHash[n], NoSnap}
      PROVE  \A n \in SName : SnapFresh(n)'
  BY <1>1, <1>2, <1>3
<1>4. CASE StartAny(p)
  BY <1>3, <1>4 DEF StartAny, VolumeCall, SnapCall, Call, cacheVars, sVars, snapVars
<1>5. CASE GetVolume(p)
  <2>1. UNCHANGED <<sHash, sId, sZvol>>
    BY <1>5 DEF GetVolume, sVars, snapVars
  <2>2. CASE NewMiss(p)
    <3>1. PICK v \in Vol : /\ Unused(v) /\ vHash' = [vHash EXCEPT ![NameFor(p)] = v]
                           /\ state' = [state EXCEPT ![v] = "creating"]
      BY <2>2 DEF NewMiss
    <3>2. vHash[NameFor(p)] = NoVol
      BY <2>2 DEF NewMiss
    <3>3. ASSUME NEW n \in SName, sHash[n] # NoSnap
          PROVE  /\ vHash'[NameOf[SourceOf[n]]] = vHash[NameOf[SourceOf[n]]]
                 /\ state'[sZvol[sHash[n]]] = "created"
      <4>1. sZvol[sHash[n]] # v
        BY <1>1, <3>1, <3>3 DEF Unused
      <4>2. NameOf[SourceOf[n]] # NameFor(p)
        BY <1>1, <3>2, <3>3, CacheAssumption
      <4> QED
        BY <1>1, <3>1, <3>3, <4>1, <4>2
    <3> QED
      BY <1>2, <2>1, <3>3
  <2>3. CASE Details(p)
    <3>1. vHash' = vHash /\ (state' = state \/ state' = [state EXCEPT ![zvol[p]] = "created"])
      BY <2>3 DEF Details
    <3> QED
      BY <1>1, <1>2, <2>1, <3>1
  <2>4. CASE LookupHit(p) \/ LookupMiss(p) \/ NewHit(p) \/ LockVolume(p)
    BY <1>3, <2>1, <2>4 DEF LookupHit, LookupMiss, NewHit, LockVolume, HoldCached, cacheVars
  <2> QED
    BY <1>5, <2>2, <2>3, <2>4 DEF GetVolume, Acquire
<1>6. CASE ReleaseVolume(p)
  <2>1. UNCHANGED <<sHash, sId, sZvol, state>>
    BY <1>6 DEF ReleaseVolume, Release, ReleaseRef, ReleaseFast, ReleaseSlow, ReleaseCheck, UnlockPanic,
       cacheVars, snapVars
  <2>2. CASE ReleaseCheck(p)
    <3>1. zvol[p] \in Vol /\ vHash[NameFor(p)] = zvol[p] /\ NameOf[volId[zvol[p]]] = NameFor(p)
      BY <2>2, VolumeFacts DEF ReleaseCheck, Referring, Counted
    <3>2. ASSUME NEW n \in SName, sHash[n] # NoSnap
          PROVE  vHash'[NameOf[SourceOf[n]]] = vHash[NameOf[SourceOf[n]]]
      <4>1. CASE NameOf[SourceOf[n]] = NameFor(p)
        BY <1>1, <2>2, <3>1, <3>2, <4>1 DEF ReleaseCheck
      <4>2. CASE NameOf[SourceOf[n]] # NameFor(p)
        BY <1>1, <2>2, <3>1, <3>2, <4>2 DEF ReleaseCheck
      <4> QED
        BY <4>1, <4>2
    <3> QED
      BY <1>1, <1>2, <2>1, <3>2
  <2>3. CASE ReleaseRef(p) \/ ReleaseFast(p) \/ ReleaseSlow(p)
    BY <1>3, <2>1, <2>3 DEF ReleaseRef, ReleaseFast, ReleaseSlow, UnlockPanic, cacheVars
  <2> QED
    BY <1>6, <2>2, <2>3 DEF ReleaseVolume, Release
<1>7. CASE AcquireSnap(p)
  <2>1. CASE AddSnap(p)
    <3>1. /\ pc[p] = "own" /\ spc[p] \in {"new", "renew"} /\ UNCHANGED <<vHash, state, sname>>
          /\ sname[p] \in SName
      BY <2>1 DEF AddSnap, CanAdd, HasVolume, vars, cacheVars, SnapLocals, Getting
    <3>2. PICK z \in Snap : /\ ~InUse(z)
                            /\ sHash' = [sHash EXCEPT ![sname[p]] = z]
                            /\ sId' = [sId EXCEPT ![z] = <<volId[zvol[p]], sname[p]>>]
                            /\ sZvol' = [sZvol EXCEPT ![z] = zvol[p]]
      BY <2>1 DEF AddSnap
    <3>3. ASSUME NEW n \in SName, n = sname[p] PROVE SnapFresh(n)'
      <4>1. state[zvol[p]] = "created"
        BY <3>1, Places DEF PlaceFits
      <4>2. volId[zvol[p]] = SourceOf[sname[p]] /\ vHash[NameOf[SourceOf[sname[p]]]] = zvol[p]
        BY <3>1, SourceOfMine DEF AtSource
      <4>3. sHash'[sname[p]] = z /\ sId'[z][1] = volId[zvol[p]] /\ sZvol'[z] = zvol[p]
        BY <3>1, <3>2
      <4> QED
        BY <3>1, <3>3, <4>1, <4>2, <4>3 DEF SnapFresh
    <3>4. ASSUME NEW n \in SName, n # sname[p] PROVE SnapFresh(n)'
      <4>1. sHash'[n] = sHash[n] /\ sHash[n] # z
        BY <3>1, <3>2, <3>4 DEF InUse
      <4>2. sHash[n] # NoSnap => sId'[sHash[n]] = sId[sHash[n]] /\ sZvol'[sHash[n]] = sZvol[sHash[n]]
        BY <1>1, <3>2, <4>1
      <4>3. SnapFresh(n)
        OBVIOUS
      <4> QED
        BY <3>1, <4>1, <4>2, <4>3 DEF SnapFresh
    <3> QED
      BY <3>3, <3>4
  <2>2. CASE ~AddSnap(p)
    <3>1. UNCHANGED <<sHash, sId, sZvol, vHash, state>>
      BY <1>7, <2>2 DEF AcquireSnap, LookupSnapHit, HoldSnap, LookupSnapMiss, Again, Call, Finish,
         OtherSource, NewSnapHit, LockSnap, vars, cacheVars, snapVars
    <3> QED
      BY <1>3, <3>1
  <2> QED
    BY <2>1, <2>2
<1>8. CASE UseSnap(p)
  BY <1>3, <1>8 DEF UseSnap, SnapDetails, SetSnapState, FinishSnap, vars, cacheVars, snapVars
<1>9. CASE ReleaseSnap(p)
  <2>1. UNCHANGED <<sId, sZvol, vHash, state>>
    BY <1>9 DEF ReleaseSnap, ReleaseSnapRef, ReleaseSnapFast, ReleaseSnapSlow, ReleaseSnapCheck,
       ReleaseSource, UnlockSnapPanic, Finish, vars, cacheVars, snapVars
  <2>2. \A n \in SName : sHash'[n] \in {sHash[n], NoSnap}
    BY <1>9 DEF ReleaseSnap, ReleaseSnapRef, ReleaseSnapFast, ReleaseSnapSlow, ReleaseSnapCheck, DropSnap,
       UnlockSnapPanic, snapVars
  <2> QED
    BY <1>3, <2>1, <2>2
<1>10. CASE /\ UseVolume(p)
            /\ \A n \in SName : sHash[n] # NoSnap => state'[sZvol[sHash[n]]] = "created"
  BY <1>2, <1>10 DEF UseVolume, SetState, Finish, cacheVars, sVars, snapVars
<1>11. CASE UNCHANGED cVars
  BY <1>3, <1>11 DEF cVars, vars, cacheVars, sVars, snapVars
<1> QED
  BY <1>4, <1>5, <1>6, <1>7, <1>8, <1>9, <1>10, <1>11 DEF CacheStep, CacheMove

\* The volume of a cached snapshot is the one who asks for the snapshot has.
LEMMA SourceIsMine ==
    ASSUME SIInv, HandlersFit, NEW p \in Proc, AtSource(p), pc[p] = "own", spc[p] # "none",
           SnapFresh(sname[p]), sHash[sname[p]] # NoSnap
    PROVE  sname[p] \in SName /\ sZvol[sHash[sname[p]]] = zvol[p]
<1>1. vHash[NameOf[SourceOf[sname[p]]]] = zvol[p]
  BY SourceOfMine DEF AtSource
<1>2. sname[p] \in SName
  BY Places, SnapNamesAssumption DEF PlaceFits
<1> QED
  BY <1>1, <1>2 DEF SnapFresh

\* With fresh pointers, and its own bolt, no goroutine panics.
LEMMA NoSnapPanics ==
    ASSUME SIInv, HandlersFit, \A n \in SName : SnapFresh(n), NEW p \in Proc, AtSource(p), CacheStep(p),
           \A q \in Proc : spc[q] # "panic"
    PROVE  \A q \in Proc : spc'[q] # "panic"
<1>1. \A q \in Proc \ {p} : spc'[q] # "panic"
  BY CachesMoveOne DEF CacheStep, CacheMove
<1>2. spc \in [Proc -> SPCs]
  BY DEF SIInv, STypeOK
<1>3. spc[p] \in {"lookup"} \cup SReferring => sname[p] \in SName
  BY DEF SIInv, SnapLocals, Getting
<1>4. CASE LookupSnapHit(p)
  <2>1. pc[p] = "own" /\ spc[p] = "lookup" /\ sHash[sname[p]] # NoSnap
    BY <1>4 DEF LookupSnapHit, HasVolume
  <2>2. HoldSnap(p)
    BY <1>3, <1>4, <2>1, SourceIsMine DEF LookupSnapHit
  <2> QED
    BY <1>1, <1>2, <2>2 DEF HoldSnap, SGoto
<1>5. CASE ReleaseSnapFast(p) \/ ReleaseSnapSlow(p) \/ ReleaseSnapCheck(p)
  <2>1. pc[p] = "own" /\ spc[p] \in {"relFast", "relLock", "relCheck"}
    BY <1>5 DEF ReleaseSnapFast, ReleaseSnapSlow, ReleaseSnapCheck, HasVolume
  <2>2. snap[p] \in Snap /\ sHash[sname[p]] = snap[p] /\ sHash[sname[p]] # NoSnap
    BY <2>1, SnapAssumption DEF SIInv, SnapLocals, SnapIsCached, SReferring, SOwning
  <2>3. sZvol[snap[p]] = zvol[p]
    BY <1>3, <2>1, <2>2, SourceIsMine DEF SReferring, SOwning
  <2>4. spc[p] # "relCheck" => sContext[snap[p]] = CtxOf[p]
    BY <2>1 DEF SIInv, SnapOwners, SOwning
  <2> QED
    BY <1>1, <1>2, <1>5, <2>1, <2>3, <2>4 DEF ReleaseSnapFast, ReleaseSnapSlow, ReleaseSnapCheck,
       ReleaseSource, UnlockSnapPanic, HasVolume, SGoto
<1>6. CASE AcquireSnap(p) /\ ~LookupSnapHit(p)
  <2>1. \E w \in {"again", "renew", "lockNew", "lockFill", "none", "lock", "own", "details", "release"} :
          spc' = [spc EXCEPT ![p] = w]
    <3>1. LookupSnapMiss(p) => spc' = [spc EXCEPT ![p] = "again"]
      BY DEF LookupSnapMiss, SGoto
    <3>2. Again(p) => spc' = [spc EXCEPT ![p] = "renew"]
      BY DEF Again, SGoto
    <3>3. AddSnap(p) => spc' = [spc EXCEPT ![p] = IF spc[p] = "new" THEN "lockNew" ELSE "lockFill"]
      BY DEF AddSnap, SGoto
    <3>4. OtherSource(p) => spc' = [spc EXCEPT ![p] = "none"]
      BY DEF OtherSource, SGoto
    <3>5. NewSnapHit(p) => spc' = [spc EXCEPT ![p] = "lock"]
      BY DEF NewSnapHit, HoldSnap, SGoto
    <3>6. LockSnap(p) => \E w \in {"own", "details", "release"} : spc' = [spc EXCEPT ![p] = w]
      BY DEF LockSnap, SGoto, SLocking
    <3> QED
      BY <1>6, <3>1, <3>2, <3>3, <3>4, <3>5, <3>6 DEF AcquireSnap
  <2> QED
    BY <1>1, <1>2, <2>1
<1>7. CASE UseSnap(p) \/ ReleaseSnapRef(p)
  BY <1>1, <1>2, <1>7 DEF UseSnap, SnapDetails, SetSnapState, FinishSnap, ReleaseSnapRef, SGoto, sprocVars
<1>8. CASE StartAny(p)
  BY <1>1, <1>2, <1>8 DEF StartAny, VolumeCall, SnapCall, SGoto, sVars, sprocVars
<1>9. CASE GetVolume(p) \/ UseVolume(p) \/ ReleaseVolume(p) \/ UNCHANGED cVars
  BY <1>1, <1>2, <1>9 DEF GetVolume, UseVolume, ReleaseVolume, SGoto, cVars, sVars, sprocVars
<1> QED
  BY <1>4, <1>5, <1>6, <1>7, <1>8, <1>9 DEF CacheStep, CacheMove, ReleaseSnap

\* Only who begins to work on a snapshot changes what it works on.
LEMMA SourcesStay ==
    ASSUME SIInv, NEW p \in Proc, \A q \in Proc : AtSource(q),
           CacheMove(p) \/ (StartAny(p) /\ AtSource(p)')
    PROVE  \A q \in Proc : AtSource(q)'
<1> USE DEF SIInv, IInv, TypeOK, STypeOK
<1>1. \A q \in Proc \ {p} : AtSource(q)'
  BY CachesMoveOne DEF CacheStep, CacheMove, AtSource
<1>2. CASE CacheMove(p)
  <2>1. AcquireSnap(p) => id' = id /\ sname' = sname /\ spc[p] # "none"
    BY DEF AcquireSnap, LookupSnapHit, LookupSnapMiss, Again, AddSnap, CanAdd, HasVolume, OtherSource,
       NewSnapHit, HoldSnap, LockSnap, SLocking, Finish, Call, vars, procVars
  <2>2. UseSnap(p) \/ ReleaseSnap(p) => id' = id /\ sname' = sname /\ spc[p] # "none"
    BY DEF UseSnap, SnapDetails, SetSnapState, FinishSnap, HasVolume, ReleaseSnap, ReleaseSnapRef,
       ReleaseSnapFast, ReleaseSnapSlow, ReleaseSnapCheck, ReleaseSource, UnlockSnapPanic, Finish,
       vars, procVars, sprocVars
  <2>3. GetVolume(p) \/ UseVolume(p) => id' = id /\ UNCHANGED sVars
    BY DEF GetVolume, Acquire, LookupHit, LookupMiss, NewHit, NewMiss, HoldCached, LockVolume, Details,
       UseVolume, SetState, Finish, procVars
  <2>4. ReleaseVolume(p) => id' = id /\ sname' = sname /\ spc'[p] \in {"none", spc[p]}
    BY DEF ReleaseVolume, Release, ReleaseRef, ReleaseFast, ReleaseSlow, ReleaseCheck, UnlockPanic, SGoto
  <2>5. AtSource(p)'
    BY <1>2, <2>1, <2>2, <2>3, <2>4 DEF CacheMove, AtSource, cVars, vars, procVars, sVars, sprocVars
  <2> QED
    BY <1>1, <2>5
<1> QED
  BY <1>1, <1>2

\* Without listings, the handlers go on to calls for one volume or snapshot.
Listings == {"list", "store", "listallsnaps", "snapstore"}

Calm ==
    /\ todo' = todo
    /\ \A q \in Proc : /\ at'[q] = at[q] \/ at'[q] \notin Listings
                       /\ req'[q] = req[q] \/ req'[q] \in {Idle, Lookup}

LEMMA AnswersAreCalm ==
    ASSUME HandlersFit, NEW p \in Proc,
           \/ \E r : Reply(p, r)
           \/ \E c : c \notin Listings /\ Then(p, c)
           \/ UNCHANGED <<req, at, todo>>
    PROVE  Calm
<1>1. ASSUME NEW c, c \notin Listings, at' = [at EXCEPT ![p] = c], UNCHANGED <<req, todo>> PROVE Calm
  BY <1>1 DEF Calm, HandlersFit
<1>2. "done" \notin Listings
  BY DEF Listings
<1>3. UNCHANGED <<req, at, todo>> => Calm
  BY DEF Calm
<1> QED
  BY <1>1, <1>2, <1>3 DEF Reply, Then

LEMMA VolumeCallsAreCalm ==
    ASSUME HandlersFit, NEW p \in Proc, NEW o \in Outcome, at[p] \notin Listings, VolumeCalls(p, o)
    PROVE  Calm
<1> DEFINE Answers == \/ \E r : Reply(p, r)
                      \/ \E c : c \notin Listings /\ Then(p, c)
                      \/ UNCHANGED <<req, at, todo>>
<1>0. Answers => Calm
  BY AnswersAreCalm
<1> HIDE DEF Answers
<1>1. ASSUME NEW c \in {"refresh", "snaps2", "delete", "setgroup"}, Then(p, c) PROVE Answers
  BY <1>1 DEF Listings, Answers
<1>2. ASSUME NEW r, Reply(p, r) PROVE Answers
  BY <1>2 DEF Answers
<1>3. UNCHANGED handlerVars \/ UNCHANGED <<req, at, todo, reply>> => Answers
  BY DEF Answers, handlerVars
<1>4. GetDetails(p, o) => Answers
  BY <1>2, <1>3 DEF GetDetails
<1>5. CreatePost(p, o) => Answers
  <2>1. CreatePost(p, o) => (\E r : Reply(p, r)) \/ Then(p, "refresh") \/ UNCHANGED handlerVars
    BY DEF CreatePost, Panic
  <2> QED
    BY <1>1, <1>2, <1>3, <2>1
<1>6. CreateRefresh(p, o) => Answers
  BY <1>2 DEF CreateRefresh
<1>7. ListSnapshots(p, o) => Answers
  <2>1. ListSnapshots(p, o) => (\E r : Reply(p, r)) \/ Then(p, "snaps2") \/ Then(p, "delete")
    BY DEF ListSnapshots
  <2> QED
    BY <1>1, <1>2, <2>1
<1>8. DeleteShare(p, o) => Answers
  BY <1>2 DEF DeleteShare
<1>9. PublishGet(p, o) => Answers
  <2>1. PublishGet(p, o) => (\E r : Reply(p, r)) \/ Then(p, "setgroup") \/ UNCHANGED handlerVars
    BY DEF PublishGet, Panic
  <2> QED
    BY <1>1, <1>2, <1>3, <2>1
<1>10. PublishSet(p, o) \/ Unpublish(p, o) => Answers
  BY <1>2 DEF PublishSet, Unpublish, SetGroup
<1>11. Expand(p, o) => Answers
  BY <1>2 DEF Expand
<1>12. ~ListShares(p, o)
  BY DEF ListShares, Listings
<1> QED
  BY <1>0, <1>4, <1>5, <1>6, <1>7, <1>8, <1>9, <1>10, <1>11, <1>12 DEF VolumeCalls, VolumeStep, RestCall

LEMMA SnapCallsAreCalm ==
    ASSUME HandlersFit, NEW p \in Proc, NEW o \in Outcome, at[p] \notin Listings, SnapRestCall(p, o)
    PROVE  Calm
<1> DEFINE Answers == \/ \E r : Reply(p, r)
                      \/ \E c : c \notin Listings /\ Then(p, c)
                      \/ UNCHANGED <<req, at, todo>>
<1>0. Answers => Calm
  BY AnswersAreCalm
<1> HIDE DEF Answers
<1>1. ASSUME NEW c \in {"snapcheck", "snapdelete"}, Then(p, c) PROVE Answers
  BY <1>1 DEF Listings, Answers
<1>2. ASSUME NEW r, Reply(p, r) PROVE Answers
  BY <1>2 DEF Answers
<1>3. UNCHANGED handlerVars \/ UNCHANGED <<req, at, todo, reply>> => Answers
  BY DEF Answers, handlerVars
<1>4. GetSnapDetails(p, o) => Answers
  BY <1>2, <1>3 DEF GetSnapDetails, Panic
<1>5. CreateSnap(p, o) => Answers
  <2>1. CreateSnap(p, o) => (\E r : Reply(p, r)) \/ Then(p, "snapcheck") \/ UNCHANGED handlerVars
    BY DEF CreateSnap, SnapDone, SnapReply, Panic
  <2> QED
    BY <1>1, <1>2, <1>3, <2>1
<1>6. CheckSnap(p, o) => Answers
  BY <1>2, <1>3 DEF CheckSnap, SnapReply, Panic
<1>7. RefreshSnap(p, o) => Answers
  <2>1. RefreshSnap(p, o) => (\E r : Reply(p, r)) \/ Then(p, "snapdelete")
    BY DEF RefreshSnap, SnapDone, SnapReply
  <2> QED
    BY <1>1, <1>2, <2>1
<1>8. DeleteSnap(p, o) \/ SnapsOf(p, o) => Answers
  BY <1>2 DEF DeleteSnap, SnapDone, SnapReply, SnapsOf
<1>9. Clone(p, o) => Calm
  <2>1. Clone(p, o) => /\ at' = [at EXCEPT ![p] = "done", ![Second[p]] = "done"]
                       /\ UNCHANGED <<req, todo>>
    BY DEF Clone
  <2> QED
    BY <2>1 DEF Calm, HandlersFit, Listings
<1>10. ~AllSnaps(p, o)
  BY DEF AllSnaps, Listings
<1> QED
  BY <1>0, <1>4, <1>5, <1>6, <1>7, <1>8, <1>9, <1>10 DEF SnapRestCall

LEMMA OthersAreCalm ==
    ASSUME HandlersFit, NEW p \in Proc, at[p] \notin Listings, todo[p] = {},
           ObtainVolume(p) \/ ObtainSnap(p) \/ WithoutCall(p) \/ GiveAnyBack(p)
    PROVE  Calm
<1>1. ObtainVolume(p) => Calm
  BY AnswersAreCalm DEF ObtainVolume, Obtain
<1>2. ObtainSnap(p) => Calm
  <2>1. ObtainSnap(p) => (\E r : Reply(p, r)) \/ UNCHANGED <<req, at, todo>>
    BY DEF ObtainSnap
  <2> QED
    BY <2>1, AnswersAreCalm
<1>3. UNCHANGED serviceVars => Calm
  BY DEF serviceVars, handlerVars, Calm
<1>4. GiveAnyBack(p) => Calm
  <2>1. GiveBack(p) => Calm
    BY DEF GiveBack, Calm, HandlersFit
  <2> QED
    BY <1>3, <2>1 DEF GiveAnyBack, GiveSnapBack, GiveVolumeBack
<1>5. WithoutCall(p) => Calm
  <2>1. Get(p) \/ CloneFailed(p) \/ GetSnap(p) => Calm
    BY AnswersAreCalm DEF Get, CloneFailed, GetSnap, SnapReply
  <2>2. ~ListStore(p) /\ ~ListNext(p) /\ ~StoreSnap(p) /\ ~NextSnap(p)
    BY DEF ListStore, ListNext, StoreSnap, NextSnap, Calls, SnapCalls, Listings
  <2>3. Return(p) \/ ReturnSnap(p) => Calm
    BY <1>3 DEF Return, ReturnSnap
  <2>4. CloneLookup(p) => Calm
    <3>1. CloneLookup(p) => /\ at' = [at EXCEPT ![p] = "waiting", ![Second[p]] = "clone"]
                            /\ req' = [req EXCEPT ![Second[p]] = Lookup]
                            /\ todo' = todo
      BY DEF CloneLookup
    <3> QED
      BY <3>1 DEF Calm, HandlersFit, Listings
  <2> QED
    BY <2>1, <2>2, <2>3, <2>4 DEF WithoutCall, VolumeStep
<1> QED
  BY <1>1, <1>2, <1>4, <1>5

\* The volumes of cached snapshots.
StillCreated == \A n \in SName : sHash[n] # NoSnap => state'[sZvol[sHash[n]]] = "created"

\* What the driver sees of a REST call in a quiet behaviour.
Seen(p, o) == o \in {"answered", "lost"} /\ (o = "lost" => at[p] # "post")

LEMMA CreatedStays ==
    ASSUME SIInv, \A n \in SName : SnapFresh(n),
           state' = state \/ \E v : state' = [state EXCEPT ![v] = "created"]
    PROVE  StillCreated
<1>1. ASSUME NEW n \in SName, sHash[n] # NoSnap
      PROVE  sZvol[sHash[n]] \in Vol /\ state[sZvol[sHash[n]]] = "created"
  BY <1>1 DEF SIInv, SnapUnderName, SnapFresh
<1>2. state \in [Vol -> States]
  BY DEF SIInv, IInv, TypeOK
<1> QED
  BY <1>1, <1>2 DEF StillCreated

\* A volume that is about to be deleted has no cached snapshots.
LEMMA DeletedHasNoSnaps ==
    ASSUME SIInv, HandlersFit, NEW p \in Proc, pc[p] = "own", at[p] = "delete", Safe(p),
           NEW n \in SName, SnapFresh(n), SnapTrue(n), sHash[n] # NoSnap
    PROVE  sZvol[sHash[n]] # zvol[p]
<1> SUFFICES ASSUME sZvol[sHash[n]] = zvol[p] PROVE FALSE
  OBVIOUS
<1>1. /\ volId[zvol[p]] = id[p] /\ sId[sHash[n]][1] = id[p] /\ SourceOf[n] = id[p]
      /\ sHash[n] \in Snap
  BY SourceOfMine DEF SIInv, STypeOK, SnapUnderName, SnapFresh
<1>2. spc[p] = "none"
  BY Places DEF PlaceFits, VolumeCalling, Calling
<1>3. CASE sState[sHash[n]] = "created"
  BY <1>1, <1>3 DEF SnapTrue, Safe
<1>4. CASE sState[sHash[n]] # "created"
  <2>1. PICK q \in Proc : spc[q] \in SReferring /\ snap[q] = sHash[n]
    BY <1>4 DEF SIInv, NoStaleSnap
  <2>2. NameOf[sId[snap[q]][1]] = NameFor(p)
    BY <1>1, <2>1 DEF NameFor
  <2>3. q = p
    BY <2>1, <2>2, Alone
  <2> QED
    BY <1>2, <2>1, <2>3 DEF SReferring, SLocking, SOwning
<1> QED
  BY <1>3, <1>4

LEMMA VolumeCallsKeepCreated ==
    ASSUME SnapServiceIInv, NEW p \in Proc, NEW o \in Outcome, VolumeCalls(p, o), Seen(p, o),
           at[p] \notin Listings, Safe(p), \A n \in SName : SnapFresh(n) /\ SnapTrue(n)
    PROVE  CacheMove(p)
<1> SIInv /\ HandlersFit
  BY DEF SnapServiceIInv
<1>1. GetVolume(p) \/ UseVolume(p) \/ UNCHANGED cVars
  BY VolumeCallUses
<1>2. UseVolume(p) => StillCreated
  <2> SUFFICES ASSUME UseVolume(p) PROVE StillCreated
    OBVIOUS
  <2>1. pc[p] = "own"
    BY DEF UseVolume, SetState, Finish
  <2>2. RestCall(p, o)
    BY <2>1 DEF VolumeCalls, VolumeStep
  <2>3. CASE DeleteShare(p, o)
    <3>1. at[p] = "delete" /\ (state' = state \/ state' = [state EXCEPT ![zvol[p]] = "deleted"])
      BY <2>3 DEF DeleteShare, Calls, Stay, SetState, vars, cacheVars
    <3>2. \A n \in SName : sHash[n] # NoSnap => sZvol[sHash[n]] # zvol[p]
      BY <2>1, <3>1, DeletedHasNoSnaps
    <3>3. \A n \in SName : sHash[n] # NoSnap =>
            sZvol[sHash[n]] \in Vol /\ state[sZvol[sHash[n]]] = "created"
      BY DEF SIInv, SnapUnderName, SnapFresh
    <3>4. state \in [Vol -> States]
      BY DEF SIInv, IInv, TypeOK
    <3> QED
      BY <3>1, <3>2, <3>3, <3>4 DEF StillCreated
  <2>4. CASE ~DeleteShare(p, o)
    <3>1. CreatePost(p, o) => state' = state \/ state' = [state EXCEPT ![zvol[p]] = "created"]
      <4>1. CreatePost(p, o) => o = "answered"
        BY DEF CreatePost, Calls, Seen
      <4> QED
        BY <4>1 DEF CreatePost, Store, SetState, Stay, Failed, vars, cacheVars
    <3>2. CreateRefresh(p, o) => state' = state \/ state' = [state EXCEPT ![zvol[p]] = "created"]
      BY DEF CreateRefresh, Store, SetState, Stay, vars, cacheVars
    <3>3. (\/ ListSnapshots(p, o) \/ PublishGet(p, o) \/ PublishSet(p, o) \/ Unpublish(p, o)
           \/ Expand(p, o))
            => state' = state
      BY DEF ListSnapshots, PublishGet, PublishSet, Unpublish, SetGroup, Expand, Stay, Panic, vars, cacheVars
    <3>4. ~GetDetails(p, o) /\ ~ListShares(p, o)
      BY <2>1 DEF GetDetails, ListShares, Listings
    <3>5. state' = state \/ state' = [state EXCEPT ![zvol[p]] = "created"]
      BY <2>2, <2>4, <3>1, <3>2, <3>3, <3>4 DEF RestCall
    <3> QED
      BY <3>5, CreatedStays
  <2> QED
    BY <2>3, <2>4
<1> QED
  BY <1>1, <1>2 DEF CacheMove, StillCreated

LEMMA SnapCallsKeepCreated ==
    ASSUME SnapServiceIInv, NEW p \in Proc, NEW o \in Outcome, SnapRestCall(p, o),
           \A n \in SName : SnapFresh(n)
    PROVE  CacheMove(p)
<1> SIInv /\ HandlersFit
  BY DEF SnapServiceIInv
<1>1. UseVolume(p) \/ UseSnap(p) \/ UNCHANGED cVars
  BY SnapCallUses
<1>2. state' = state \/ state' = [state EXCEPT ![zvol[p]] = "created"]
  <2>1. Clone(p, o) => state' = state \/ state' = [state EXCEPT ![zvol[p]] = "created"]
    <3>1. Clone(p, o) => Stay \/ \E s : Store(p, s)
      BY DEF Clone
    <3> QED
      BY <3>1 DEF Stay, Store, SetState, vars, cacheVars
  <2>2. ~Clone(p, o) => state' = state
    BY DEF SnapRestCall, GetSnapDetails, SnapDetails, CreateSnap, CheckSnap, RefreshSnap, DeleteSnap,
       SnapsOf, AllSnaps, SnapDone, SetSnapState, SnapReply, Stay, Panic, vars, cacheVars
  <2> QED
    BY <2>1, <2>2
<1> QED
  BY <1>1, <1>2, CreatedStays DEF CacheMove, StillCreated

LEMMA OthersKeepCreated ==
    ASSUME SnapServiceIInv, NEW p \in Proc, at[p] \notin Listings, todo[p] = {},
           ObtainVolume(p) \/ ObtainSnap(p) \/ WithoutCall(p) \/ GiveAnyBack(p), ~CloneLookup(p),
           \A n \in SName : SnapFresh(n)
    PROVE  CacheMove(p)
<1> SIInv /\ HandlersFit
  BY DEF SnapServiceIInv
<1>1. ObtainVolume(p) \/ ObtainSnap(p) \/ GiveAnyBack(p) => CacheMove(p)
  BY DEF ObtainVolume, ObtainSnap, GiveAnyBack, GiveSnapBack, GiveVolumeBack, CacheMove
<1>2. ASSUME WithoutCall(p) PROVE CacheMove(p)
  <2>1. ~ListStore(p) /\ ~ListNext(p) /\ ~StoreSnap(p) /\ ~NextSnap(p)
    BY DEF ListStore, ListNext, StoreSnap, NextSnap, Calls, SnapCalls, Listings
  <2>2. VolumeStep(p, Get(p)) \/ CloneFailed(p) \/ GetSnap(p) => UNCHANGED cVars
    BY DEF VolumeStep, Get, CloneFailed, GetSnap, SnapReply, Stay, cVars
  <2>3. VolumeStep(p, Return(p)) => UseVolume(p) /\ state' = state
    BY DEF VolumeStep, Return, UseVolume, Finish, cacheVars
  <2>4. ReturnSnap(p) => UseSnap(p)
    BY DEF ReturnSnap, UseSnap
  <2> QED
    BY <1>2, <2>1, <2>2, <2>3, <2>4, CreatedStays DEF WithoutCall, VolumeStep, CacheMove, StillCreated
<1> QED
  BY <1>1, <1>2

\* A snapshot on the appliance stays, unless it is the one that p deletes.
LEMMA OthersStayThere ==
    ASSUME SharesFit, NEW p \in Proc, Safe(p), ShareStep(p) \/ \A i \in VolumeId : SameDependents(i),
           NEW i \in VolumeId, NEW n, share[i] # NoShare, n \in share[i].snaps,
           at[p] = "snapdelete" => id[p] # i \/ sname[p] # n
    PROVE  share'[i] # NoShare /\ n \in share'[i].snaps
<1>1. CASE \A j \in VolumeId : SameDependents(j)
  BY <1>1 DEF SameDependents
<1>2. CASE ShareStep(p) /\ i # id[p]
  BY <1>2 DEF ShareStep
<1>3. CASE ShareStep(p) /\ i = id[p]
  BY <1>3 DEF ShareStep, Safe
<1> QED
  BY <1>1, <1>2, <1>3

\* A structure is cached under one name.
LEMMA NameOfMine ==
    ASSUME SIInv, NEW p \in Proc, spc[p] \in SReferring, NEW n \in SName, sHash[n] = snap[p]
    PROVE  n = sname[p] /\ snap[p] \in Snap
<1>1. sname[p] \in SName /\ snap[p] \in Snap /\ sHash[sname[p]] = snap[p]
  BY DEF SIInv, SnapLocals, SnapIsCached
<1>2. snap[p] # NoSnap
  BY <1>1, SnapAssumption
<1> QED
  BY <1>1, <1>2 DEF SIInv, SnapUnderName

\* A call of p enters as created in the cache what is on the appliance, and
\* takes away only what it enters as deleted.
Entered(p) ==
    /\ sHash' = sHash
    /\ \/ sState' = sState /\ (at[p] = "snapdelete" => share' = share)
       \/ /\ spc[p] \in {"details", "own"}
          /\ \/ sState' = [sState EXCEPT ![snap[p]] = "deleted"]
             \/ /\ sState' = [sState EXCEPT ![snap[p]] = "created"]
                /\ at[p] # "snapdelete"
                /\ share'[id[p]] # NoShare /\ sname[p] \in share'[id[p]].snaps

LEMMA VolumeCallsEnter ==
    ASSUME SIInv, HandlersFit, NEW p \in Proc, NEW o \in Outcome, VolumeCalls(p, o)
    PROVE  Entered(p)
<1>1. sHash' = sHash /\ sState' = sState
  BY DEF VolumeCalls, VolumeStep, GetVolume, sVars, snapVars
<1>2. at[p] # "snapdelete"
  <2>1. at[p] = "snapdelete" => spc[p] = "own" /\ pc[p] = "own"
    BY Places DEF PlaceFits, SReferring, SOwning
  <2> QED
    BY <2>1 DEF VolumeCalls, VolumeStep
<1> QED
  BY <1>1, <1>2 DEF Entered

LEMMA SnapCallsEnter ==
    ASSUME SIInv, HandlersFit, SharesFit, NEW p \in Proc, NEW o \in Outcome, SnapRestCall(p, o), Seen(p, o),
           at[p] \notin Listings
    PROVE  Entered(p)
<1> USE DEF Seen
<1>1. UNCHANGED sVars /\ at[p] # "snapdelete" => Entered(p)
  BY DEF Entered, sVars, snapVars
<1>2. CASE GetSnapDetails(p, o)
  <2>1. /\ spc[p] = "details" /\ SnapDetails(p) /\ share' = share /\ sHash' = sHash
    BY <1>2 DEF GetSnapDetails, SnapDetails
  <2>2. at[p] # "snapdelete"
    BY <2>1, Places DEF PlaceFits
  <2>3. CASE sState' = sState
    BY <2>1, <2>3 DEF Entered
  <2>4. CASE sState' # sState
    <3>1. sState' = [sState EXCEPT ![snap[p]] = "created"] /\ spc'[p] = "own"
      <4>1. sState' = [sState EXCEPT ![snap[p]] = "created"] /\ spc' = [spc EXCEPT ![p] = "own"]
        BY <2>1, <2>4 DEF SnapDetails, SGoto
      <4> QED
        BY <4>1 DEF SIInv, STypeOK
    <3>2. HasSnap(p)
      BY <1>2, <3>1 DEF GetSnapDetails
    <3> QED
      BY <2>1, <2>2, <3>1, <3>2 DEF Entered, HasSnap
  <2> QED
    BY <2>3, <2>4
<1>3. CASE CreateSnap(p, o)
  <2>1. pc[p] = "own" /\ spc[p] = "own" /\ at[p] = "snappost" /\ id[p] \in VolumeId
        /\ sname[p] \in SnapName
    BY <1>3, OwnerHasId, Places DEF CreateSnap, SnapCalls, HasVolume, PlaceFits
  <2>2. CASE o = "answered" /\ Reaches(p) /\ ~HasSnap(p)
    <3>1. share' = WithSnap(p) /\ SetSnapState(p, "created")
      BY <1>3, <2>2 DEF CreateSnap, Performed, Failed, SnapDone
    <3> DEFINE more == share[id[p]].snaps \cup {sname[p]}
    <3>2. share[id[p]] # NoShare /\ share' = [share EXCEPT ![id[p]].snaps = more]
      BY <2>2, <3>1 DEF WithSnap, Reaches
    <3>3. more \in SUBSET SnapName /\ sname[p] \in more
      BY <2>1, <3>2 DEF SharesFit, Shares
    <3> HIDE DEF more
    <3>4. share'[id[p]] # NoShare /\ share'[id[p]].snaps = more
      BY <2>1, <3>2, <3>3, SnapsChange
    <3> QED
      BY <2>1, <3>1, <3>3, <3>4 DEF Entered, SetSnapState
  <2>3. CASE ~(o = "answered" /\ Reaches(p) /\ ~HasSnap(p))
    <3>1. UNCHANGED sVars \/ SetSnapState(p, "deleted")
      BY <1>3, <2>3 DEF CreateSnap, SnapDone, SnapReply
    <3> QED
      BY <1>1, <2>1, <3>1 DEF Entered, SetSnapState
  <2> QED
    BY <2>2, <2>3
<1>4. CASE CheckSnap(p, o)
  BY <1>1, <1>4 DEF CheckSnap, SnapCalls, SnapReply
<1>5. CASE RefreshSnap(p, o)
  <2>1. spc[p] = "own" /\ at[p] = "snaprefresh" /\ (UNCHANGED sVars \/ SetSnapState(p, "deleted"))
    BY <1>5 DEF RefreshSnap, SnapCalls, HasVolume, SnapDone, SnapReply
  <2> QED
    BY <1>1, <2>1 DEF Entered, SetSnapState
<1>6. CASE DeleteSnap(p, o)
  <2>1. spc[p] = "own" /\ at[p] = "snapdelete"
    BY <1>6 DEF DeleteSnap, SnapCalls, HasVolume
  <2>2. CASE o = "answered"
    BY <1>6, <2>1, <2>2 DEF DeleteSnap, SnapDone, Failed, Entered, SetSnapState
  <2>3. CASE o = "lost"
    BY <1>6, <2>1, <2>3 DEF DeleteSnap, SnapReply, Failed, Performed, Entered, sVars, snapVars
  <2> QED
    BY <2>2, <2>3
<1>7. CASE Clone(p, o)
  BY <1>1, <1>7 DEF Clone
<1>8. CASE SnapsOf(p, o)
  BY <1>1, <1>8 DEF SnapsOf, SnapReply, Calls
<1>9. ~AllSnaps(p, o)
  BY DEF AllSnaps, Listings
<1> QED
  BY <1>2, <1>3, <1>4, <1>5, <1>6, <1>7, <1>8, <1>9 DEF SnapRestCall

LEMMA CallsKeepSnapsTrue ==
    ASSUME SnapServiceIInv, NEW p \in Proc, Entered(p), Safe(p), AtSource(p),
           ShareStep(p) \/ \A i \in VolumeId : SameDependents(i),
           at[p] = "snapdelete" => spc[p] = "own",
           NEW n \in SName, SnapFresh(n), SnapTrue(n)
    PROVE  SnapTrue(n)'
<1> SIInv /\ SharesFit
  BY DEF SnapServiceIInv
<1> SUFFICES ASSUME sHash[n] # NoSnap, sState'[sHash[n]] = "created"
             PROVE  share'[SourceOf[n]] # NoShare /\ n \in share'[SourceOf[n]].snaps
  BY DEF SnapTrue, Entered
<1>1. sHash[n] \in Snap /\ SourceOf[n] \in VolumeId /\ sState \in [Snap -> States]
  <2>1. sHash[n] \in Snap /\ sId[sHash[n]] \in VolumeId \X SName /\ sState \in [Snap -> States]
    BY DEF SIInv, STypeOK, SnapUnderName
  <2> QED
    BY <2>1 DEF SnapFresh
<1>2. CASE spc[p] \in {"details", "own"} /\ sHash[n] = snap[p] /\ sState' # sState
  <2>1. n = sname[p]
    BY <1>2, NameOfMine DEF SReferring, SOwning
  <2>2. SourceOf[n] = id[p]
    BY <1>2, <2>1 DEF AtSource
  <2> QED
    BY <1>1, <1>2, <2>1, <2>2 DEF Entered
<1>3. CASE ~(spc[p] \in {"details", "own"} /\ sHash[n] = snap[p] /\ sState' # sState)
  <2>1. sState'[sHash[n]] = sState[sHash[n]]
    BY <1>1, <1>3 DEF Entered
  <2>2. share[SourceOf[n]] # NoShare /\ n \in share[SourceOf[n]].snaps
    BY <2>1 DEF SnapTrue
  <2>3. CASE share' = share
    BY <2>2, <2>3
  <2>4. CASE share' # share
    <3>1. at[p] = "snapdelete" => sname[p] # n
      <4> SUFFICES ASSUME at[p] = "snapdelete", sname[p] = n PROVE FALSE
        OBVIOUS
      <4>1. sHash[n] = snap[p] /\ spc[p] = "own"
        BY DEF SIInv, SnapIsCached, SReferring, SOwning
      <4>2. sState' = [sState EXCEPT ![snap[p]] = "deleted"]
        BY <2>4 DEF Entered
      <4> QED
        BY <1>1, <4>1, <4>2
    <3> QED
      BY <1>1, <2>2, <3>1, OthersStayThere
  <2> QED
    BY <2>3, <2>4
<1> QED
  BY <1>2, <1>3

\* Without a call, snapshots are dropped from the cache, or added unknown.
LEMMA OthersKeepSnapsTrue ==
    ASSUME SIInv, NEW p \in Proc, at[p] \notin Listings,
           ObtainVolume(p) \/ ObtainSnap(p) \/ WithoutCall(p) \/ GiveAnyBack(p) \/ ArriveAt(p),
           share' = share,
           \A n \in SName : SnapTrue(n)
    PROVE  \A n \in SName : SnapTrue(n)'
<1>1. ASSUME sState' = sState, \A n \in SName : sHash'[n] \in {sHash[n], NoSnap}
      PROVE  \A n \in SName : SnapTrue(n)'
  BY <1>1 DEF SnapTrue
<1>2. CASE ObtainSnap(p) /\ AddSnap(p)
  <2>1. PICK z \in Snap : /\ ~InUse(z)
                          /\ sHash' = [sHash EXCEPT ![sname[p]] = z]
                          /\ sState' = [sState EXCEPT ![z] = "creating"]
    BY <1>2 DEF AddSnap
  <2>2. sHash \in [SName -> Snap \cup {NoSnap}] /\ sState \in [Snap -> States]
    BY DEF SIInv, STypeOK
  <2>3. ASSUME NEW n \in SName PROVE SnapTrue(n)'
    <3>1. CASE sHash'[n] = z
      BY <2>1, <2>2, <3>1 DEF SnapTrue
    <3>2. CASE sHash'[n] # z
      <4>1. sHash'[n] = sHash[n] /\ (sHash[n] # NoSnap => sState'[sHash[n]] = sState[sHash[n]])
        BY <2>1, <2>2, <3>2
      <4> QED
        BY <4>1 DEF SnapTrue
    <3> QED
      BY <3>1, <3>2
  <2> QED
    BY <2>3
<1>3. CASE ObtainSnap(p) /\ ~AddSnap(p)
  <2>1. UNCHANGED <<sHash, sState>>
    BY <1>3 DEF ObtainSnap, AcquireSnap, LookupSnapHit, HoldSnap, LookupSnapMiss, Again,
       OtherSource, NewSnapHit, LockSnap, snapVars
  <2> QED
    BY <1>1, <2>1
<1>4. CASE GiveAnyBack(p)
  <2>1. GiveVolumeBack(p) => UNCHANGED <<sHash, sState>>
    BY DEF GiveVolumeBack, ReleaseVolume, snapVars
  <2>2. GiveSnapBack(p) => sState' = sState /\ \A n \in SName : sHash'[n] \in {sHash[n], NoSnap}
    BY DEF GiveSnapBack, ReleaseSnap, ReleaseSnapRef, ReleaseSnapFast, ReleaseSnapSlow, ReleaseSnapCheck,
       DropSnap, UnlockSnapPanic, snapVars, SIInv, STypeOK
  <2> QED
    BY <1>1, <1>4, <2>1, <2>2 DEF GiveAnyBack
<1>5. CASE ObtainVolume(p) \/ ArriveAt(p)
  <2>1. UNCHANGED <<sHash, sState>>
    BY <1>5 DEF ObtainVolume, GetVolume, ArriveAt, ArriveVolume, ArriveSnap, ArriveOther, ArriveListAll,
       SnapCall, VolumeCall, sVars, snapVars
  <2> QED
    BY <1>1, <2>1
<1>6. CASE WithoutCall(p)
  <2>1. ~StoreSnap(p)
    BY DEF StoreSnap, SnapCalls, Listings
  <2>2. UNCHANGED <<sHash, sState>>
    BY <1>6, <2>1 DEF WithoutCall, VolumeStep, CloneLookup, CloneFailed, GetSnap, SnapReply, NextSnap,
       ReturnSnap, FinishSnap, SnapCall, sVars, snapVars
  <2> QED
    BY <1>1, <2>2
<1> QED
  BY <1>2, <1>3, <1>4, <1>5, <1>6

\* Who is undisturbed stays so.
LEMMA CalmStays ==
    ASSUME Calm, NEW q \in Proc, Undisturbed(q), AtSource(q)'
    PROVE  Undisturbed(q)'
<1>1. req'[q].op = "clone" => req'[q] = req[q]
  BY DEF Calm, Idle, Lookup
<1> QED
  BY <1>1 DEF Calm, Undisturbed, Listings

\* A step of the caches, with what becomes of the rest.
LEMMA QuietStays ==
    ASSUME SnapServiceIInv, NEW p \in Proc, \A n \in SName : SnapFresh(n),
           \A q \in Proc : spc[q] # "panic" /\ Undisturbed(q), Calm,
           CacheMove(p) \/ (StartAny(p) /\ AtSource(p)')
    PROVE  /\ \A n \in SName : SnapFresh(n)'
           /\ \A q \in Proc : spc'[q] # "panic" /\ Undisturbed(q)'
<1> SIInv /\ HandlersFit /\ CacheStep(p)
  BY DEF SnapServiceIInv, CacheStep
<1>1. \A q \in Proc : AtSource(q)
  BY DEF Undisturbed
<1>2. \A q \in Proc : AtSource(q)'
  BY <1>1, SourcesStay
<1>3. \A n \in SName : SnapFresh(n)'
  BY <1>1, SnapsStayFresh
<1>4. \A q \in Proc : spc'[q] # "panic"
  BY <1>1, NoSnapPanics
<1> QED
  BY <1>2, <1>3, <1>4, CalmStays

\* An unambiguous request is for a volume only, or for a snapshot of the
\* volume its name belongs to.
LEMMA ArrivalIsAtSource ==
    ASSUME SnapServiceIInv, NEW p \in Handlers, ArriveAt(p), Unambiguous(req'[p]), AtSource(p)
    PROVE  /\ AtSource(p)' /\ todo' = todo
           /\ \A q \in Proc : q # p => at'[q] = at[q] /\ req'[q] = req[q]
           /\ at'[p] \notin Listings
           /\ req'[p].op = "clone" => req'[p].source = SourceOf[req'[p].snap]
<1> p \in Proc /\ SIInv /\ HandlersFit
  BY DEF Handlers, SnapServiceIInv
<1> USE DEF SIInv, IInv, TypeOK, STypeOK, HandlersFit
<1>1. req'[p].op \notin {"list", "listallsnaps"}
  BY DEF Unambiguous
<1>2. PICK r : /\ req' = [req EXCEPT ![p] = r] /\ todo' = todo
               /\ \/ r \in Requests /\ ArriveVolume(p, r)
                  \/ r \in OtherRequests /\ (ArriveSnap(p, r) \/ ArriveOther(p, r) \/ ArriveListAll(p, r))
  BY DEF ArriveAt, ArriveVolume, Arrive, ArriveList, ArriveSnap, ArriveOther, ArriveListAll
<1>3. req'[p] = r /\ r.op \notin {"list", "listallsnaps"}
  BY <1>1, <1>2
<1>4. \E c : at' = [at EXCEPT ![p] = c] /\ c \notin Listings
  <2>1. CASE r \in Requests /\ ArriveVolume(p, r)
    <3>1. r.op \in {"create", "expand", "publish", "unpublish", "delete", "get", "list"}
      BY <2>1 DEF Requests
    <3>2. at' = [at EXCEPT ![p] = FirstCall(r.op)]
      BY <1>3, <2>1 DEF ArriveVolume, Arrive, ArriveList
    <3>3. FirstCall(r.op) \notin Listings
      BY <1>3, <3>1 DEF FirstCall, Listings
    <3> QED
      BY <3>2, <3>3
  <2>2. CASE ArriveSnap(p, r)
    <3>1. FirstSnapCall(r.op) \notin Listings
      BY <2>2 DEF ArriveSnap, FirstSnapCall, Listings
    <3> QED
      BY <2>2, <3>1 DEF ArriveSnap
  <2>3. CASE ArriveOther(p, r)
    <3>1. (IF r.op = "clone" THEN "clonelookup" ELSE r.op) \notin Listings
      BY <2>3 DEF ArriveOther, Listings
    <3> QED
      BY <2>3, <3>1 DEF ArriveOther
  <2>4. ~ArriveListAll(p, r)
    BY <1>3 DEF ArriveListAll
  <2> QED
    BY <1>2, <2>1, <2>2, <2>3, <2>4
<1>5. AtSource(p)'
  <2>1. CASE ArriveSnap(p, r)
    <3>1. id'[p] = r.id /\ sname'[p] = r.snap /\ r.op \in {"createsnap", "deletesnap", "getsnap"}
      BY <2>1 DEF ArriveSnap, SnapCall, Call
    <3> QED
      BY <1>3, <3>1 DEF Unambiguous, AtSource
  <2>2. CASE ArriveOther(p, r) \/ ArriveVolume(p, r)
    <3>1. spc[p] = "none" /\ spc' = spc
      BY <2>2 DEF ArriveOther, VolumeCall, ArriveVolume, sVars, sprocVars
    <3> QED
      BY <3>1 DEF AtSource
  <2>3. ~ArriveListAll(p, r)
    BY <1>3 DEF ArriveListAll
  <2> QED
    BY <1>2, <2>1, <2>2, <2>3
<1>6. r.op = "clone" => r.source = SourceOf[r.snap]
  BY <1>3 DEF Unambiguous
<1> QED
  BY <1>2, <1>3, <1>4, <1>5, <1>6

LEMMA InitQuiet == SnapHistoryInit => QuietIInv
<1> SUFFICES ASSUME SnapHistoryInit PROVE QuietIInv
  OBVIOUS
<1>1. /\ ~refused /\ sHash = [n \in SName |-> NoSnap] /\ spc = [p \in Proc |-> "none"]
      /\ at = [p \in Proc |-> "done"] /\ todo = [p \in Proc |-> {}] /\ req = [p \in Proc |-> Idle]
  BY DEF SnapHistoryInit, SnapServiceInit, ServiceInit, SnapInit
<1> QED
  BY <1>1 DEF QuietIInv, SnapFresh, SnapTrue, Undisturbed, AtSource, Idle

LEMMA StepQuiet ==
    ASSUME SnapServiceIInv, HistoryIInv, QuietIInv, [SnapHistoryNext]_snapHistoryVars
    PROVE  QuietIInv'
<1> SUFFICES ASSUME quiet'
             PROVE  /\ ~refused'
                    /\ \A n \in SName : SnapFresh(n)' /\ SnapTrue(n)'
                    /\ \A q \in Proc : spc'[q] # "panic" /\ Undisturbed(q)'
  BY DEF QuietIInv
<1>1. quiet
  BY DEF SnapHistoryNext, Arrives, Works, Hears, snapHistoryVars
<1>2. /\ ~refused /\ \A n \in SName : SnapFresh(n) /\ SnapTrue(n)
      /\ \A q \in Proc : spc[q] # "panic" /\ Undisturbed(q)
  BY <1>1 DEF QuietIInv
<1>3. \A q \in Proc : /\ at[q] \notin Listings /\ todo[q] = {} /\ AtSource(q)
                      /\ req[q].op = "clone" => req[q].source = SourceOf[req[q].snap]
                      /\ Safe(q)
  BY <1>2 DEF Undisturbed, Listings, HistoryIInv
<1> SIInv /\ HandlersFit /\ SharesFit
  BY DEF SnapServiceIInv
<1>4. ASSUME NEW p \in Handlers, Arrives(p)
      PROVE  /\ ~refused'
             /\ \A n \in SName : SnapFresh(n)' /\ SnapTrue(n)'
             /\ \A q \in Proc : spc'[q] # "panic" /\ Undisturbed(q)'
  <2>1. p \in Proc /\ ArriveAt(p) /\ Unambiguous(req'[p]) /\ refused' = refused
    BY <1>4 DEF Arrives, Handlers
  <2>2. /\ AtSource(p)' /\ todo' = todo
        /\ \A q \in Proc : q # p => at'[q] = at[q] /\ req'[q] = req[q]
        /\ at'[p] \notin Listings
        /\ req'[p].op = "clone" => req'[p].source = SourceOf[req'[p].snap]
    BY <1>3, <2>1, ArrivalIsAtSource
  <2>3. CacheStep(p) /\ (CacheMove(p) \/ (StartAny(p) /\ AtSource(p)'))
    BY <2>1, <2>2, ArrivalStarts DEF CacheStep, CacheMove
  <2>4. \A q \in Proc : AtSource(q)'
    BY <1>3, <2>1, <2>3, SourcesStay
  <2>5. \A n \in SName : SnapFresh(n)'
    BY <1>2, <1>3, <2>1, <2>3, SnapsStayFresh
  <2>6. \A q \in Proc : spc'[q] # "panic"
    BY <1>2, <1>3, <2>1, <2>3, NoSnapPanics
  <2>7. \A q \in Proc : Undisturbed(q)'
    BY <1>2, <1>3, <2>2, <2>4 DEF Undisturbed, Listings
  <2>8. \A n \in SName : SnapTrue(n)'
    <3>1. share' = share
      BY <2>1, OthersLeaveShares
    <3> QED
      BY <1>2, <1>3, <2>1, <3>1, OthersKeepSnapsTrue
  <2> QED
    BY <1>2, <2>1, <2>5, <2>6, <2>7, <2>8
<1>5. ASSUME NEW p \in Proc, Works(p)
      PROVE  /\ ~refused'
             /\ \A n \in SName : SnapFresh(n)' /\ SnapTrue(n)'
             /\ \A q \in Proc : spc'[q] # "panic" /\ Undisturbed(q)'
  <2>1. /\ ObtainVolume(p) \/ ObtainSnap(p) \/ WithoutCall(p) \/ GiveAnyBack(p)
        /\ refused' = refused
    BY <1>5 DEF Works
  <2>2. Calm
    BY <1>3, <2>1, OthersAreCalm
  <2>3. \A n \in SName : SnapTrue(n)'
    <3>1. share' = share
      BY <2>1, OthersLeaveShares
    <3> QED
      BY <1>2, <1>3, <2>1, <3>1, OthersKeepSnapsTrue
  <2>4. CASE CloneLookup(p)
    <3> DEFINE q == Second[p]
    <3>1. /\ p \in DOMAIN Second /\ req[p] \in CloneRequests
      BY <2>4, Places DEF CloneLookup, Calls, RequestFits
    <3>2. q \in Proc
      BY <3>1, SecondAssumption
    <3>3. /\ req[p].op = "clone" /\ req[p].source \in VolumeId /\ req[p].snap \in SName
      BY <3>1, SnapNamesAssumption DEF CloneRequests
    <3>4. SnapCall(q, "lookup", req[p].source, req[p].snap)
      BY <2>4 DEF CloneLookup
    <3> HIDE DEF q
    <3>5. StartAny(q)
      BY <3>3, <3>4 DEF StartAny
    <3>6. AtSource(q)'
      <4>1. id'[q] = req[p].source /\ sname'[q] = req[p].snap
        BY <3>2, <3>4 DEF SnapCall, Call, SIInv, IInv, TypeOK, STypeOK
      <4> QED
        BY <1>3, <3>3, <4>1 DEF AtSource
    <3> QED
      BY <1>2, <2>1, <2>2, <2>3, <3>2, <3>5, <3>6, QuietStays
  <2>5. CASE ~CloneLookup(p)
    <3>1. CacheMove(p)
      BY <1>2, <1>3, <2>1, <2>5, OthersKeepCreated
    <3> QED
      BY <1>2, <2>1, <2>2, <2>3, <3>1, QuietStays
  <2> QED
    BY <2>4, <2>5
<1>6. ASSUME NEW p \in Proc, NEW o \in Outcome, Hears(p, o)
      PROVE  /\ ~refused'
             /\ \A n \in SName : SnapFresh(n)' /\ SnapTrue(n)'
             /\ \A q \in Proc : spc'[q] # "panic" /\ Undisturbed(q)'
  <2>1. Seen(p, o) /\ ~refused' /\ (VolumeCalls(p, o) \/ SnapRestCall(p, o))
    BY <1>2, <1>6 DEF Hears, Seen
  <2>2. Calm
    BY <1>3, <2>1, VolumeCallsAreCalm, SnapCallsAreCalm
  <2>3. CacheMove(p)
    BY <1>2, <1>3, <2>1, VolumeCallsKeepCreated, SnapCallsKeepCreated
  <2>4. \A n \in SName : SnapTrue(n)'
    <3>1. Entered(p)
      BY <1>3, <2>1, VolumeCallsEnter, SnapCallsEnter
    <3>2. ShareStep(p) \/ \A i \in VolumeId : SameDependents(i)
      BY <2>1, VolumeShareSteps, SnapShareSteps
    <3>3. at[p] = "snapdelete" => spc[p] = "own"
      BY Places DEF PlaceFits
    <3> QED
      BY <1>2, <1>3, <3>1, <3>2, <3>3, CallsKeepSnapsTrue
  <2> QED
    BY <1>2, <2>1, <2>2, <2>3, <2>4, QuietStays
<1>7. ASSUME (Environment /\ UNCHANGED <<sVars, refused, quiet>>) \/ UNCHANGED snapHistoryVars
      PROVE  /\ ~refused'
             /\ \A n \in SName : SnapFresh(n)' /\ SnapTrue(n)'
             /\ \A q \in Proc : spc'[q] # "panic" /\ Undisturbed(q)'
  <2>1. UNCHANGED <<vars, handlerVars, sVars, refused>>
    BY <1>7 DEF Environment, Administer, snapHistoryVars, everything, allVars, serviceVars
  <2>2. /\ UNCHANGED <<vHash, state, sHash, sId, sZvol, sState>>
        /\ UNCHANGED <<spc, sname, id, at, todo, req>>
    BY <2>1 DEF vars, cacheVars, procVars, sVars, snapVars, sprocVars, handlerVars
  <2>3. \A i \in VolumeId : SameDependents(i)
    <3>1. ASSUME NEW i \in BlockId, NEW g \in AdminGroup, Administer(i, g)
          PROVE  \A j \in VolumeId : SameDependents(j)
      <4>1. i \in VolumeId /\ g \in Group
        BY ServiceAssumption DEF Group
      <4> QED
        BY <3>1, <4>1, OthersChange DEF Administer
    <3>2. share' = share => \A i \in VolumeId : SameDependents(i)
      BY DEF SameDependents
    <3> QED
      BY <1>7, <3>1, <3>2 DEF Environment, snapHistoryVars, everything, allVars, serviceVars
  <2>4. ASSUME NEW n \in SName PROVE SnapFresh(n)' /\ SnapTrue(n)'
    <3>1. SnapFresh(n)'
      BY <1>2, <2>2 DEF SnapFresh
    <3>2. sHash[n] # NoSnap => SourceOf[n] \in VolumeId
      <4>1. sHash[n] # NoSnap => sId[sHash[n]] \in VolumeId \X SName
        BY DEF SIInv, SnapUnderName
      <4> QED
        BY <1>2, <4>1 DEF SnapFresh
    <3> QED
      BY <1>2, <2>2, <2>3, <3>1, <3>2 DEF SnapTrue, SameDependents
  <2>5. \A q \in Proc : spc'[q] # "panic" /\ Undisturbed(q)'
    BY <1>2, <2>2 DEF Undisturbed, AtSource
  <2> QED
    BY <1>2, <2>1, <2>4, <2>5
<1> QED
  BY <1>4, <1>5, <1>6, <1>7 DEF SnapHistoryNext

\* In a quiet behaviour, what is cached as created is on the appliance, the
\* pointers to volumes are fresh (lookupSnapshot and releaseSnapshot of
\* volumes.go compare and follow them), and no goroutine panics.
THEOREM QuietSnapsTellTheTruth == NoNilCtx => (SnapHistorySpec => []QuietSnaps)
<1> SUFFICES ASSUME NoNilCtx PROVE SnapHistorySpec => []QuietSnaps
  OBVIOUS
<1>1. QuietIInv /\ (SnapServiceIInv /\ HistoryIInv) /\ [SnapHistoryNext]_snapHistoryVars => QuietIInv'
  BY StepQuiet
<1>2. SnapServiceIInv /\ QuietIInv => QuietSnaps
  <2> SUFFICES ASSUME SIInv, quiet, \A n \in SName : SnapFresh(n) /\ SnapTrue(n),
                      \A p \in Proc : spc[p] # "panic"
               PROVE  SnapsTruthful /\ PointersFresh /\ SAlive
    BY DEF SnapServiceIInv, QuietIInv, QuietSnaps
  <2>1. SAlive
    BY DEF SAlive, SIInv, IInv, OwnerRecorded
  <2> QED
    BY <2>1 DEF SnapsTruthful, PointersFresh, SnapFresh, SnapTrue
<1> QED
  BY InitQuiet, HistoryInvariant, <1>1, <1>2, PTL DEF SnapHistorySpec
=============================================================================
