-------------------------- MODULE VolumeCacheProofs --------------------------
(***************************************************************************)
(* What the volume cache guarantees for any number of goroutines, names,   *)
(* volume IDs and structures, as long as no goroutine works with the nil   *)
(* context.                                                                *)
(*                                                                         *)
(* IInv (VolumeCache.tla) is inductive.  Its core is HeldIsCached: a       *)
(* goroutine past the cache look-up always refers to the structure that is *)
(* cached under its name, so that exclusion per structure (OneOwner) is    *)
(* exclusion per name.  The one step that could break it is the deletion   *)
(* in releaseVolume; there, the exact reference count says that no         *)
(* goroutine uses the structure or waits for it, the read-write lock that  *)
(* none is on the fast path, and OneDecides that none waits for the lock.  *)
(***************************************************************************)
EXTENDS VolumeCache, FiniteSetTheorems, TLAPS

\* The cache starts empty and nobody uses it.
LEMMA InitIInv == Init => IInv
<1> SUFFICES ASSUME Init PROVE IInv
  OBVIOUS
<1> USE CacheAssumption DEF Init, Referring, Counted, Owning
<1>1. RefcountExact
  <2>1. \A v \in Vol : Users(v) = {}
    BY DEF Users
  <2> QED
    BY <2>1, FS_EmptySet DEF RefcountExact
<1>2. TypeOK
  BY DEF TypeOK, PCs, States
<1> QED
  BY <1>1, <1>2 DEF IInv, LocalsSet, CachedUnderName, MutexExact, OwnerRecorded,
     Alive, OneOwner, OneDecides, LeftToWaiter, HeldIsCached, NoStalePlaceholder

\* Only finitely many goroutines use a volume, so counting them makes sense.
LEMMA UsersFinite == ASSUME NEW v PROVE IsFiniteSet(Users(v))
  BY CacheAssumption, FS_Subset DEF Users

\* A count of zero means nobody, a count of one nobody else.
LEMMA CountMeans ==
    ASSUME RefcountExact, NEW v \in Vol
    PROVE  /\ refcount[v] = 0 => Users(v) = {}
           /\ \A p \in Users(v) : refcount[v] # 1 => \E q \in Users(v) : q # p
           /\ refcount[v] \in Nat
           /\ Users(v) # {} => refcount[v] # 0
<1>1. refcount[v] = Cardinality(Users(v))
  BY DEF RefcountExact
<1>2. IsFiniteSet(Users(v))
  BY UsersFinite
<1>3. \A p \in Users(v) : refcount[v] # 1 => \E q \in Users(v) : q # p
  <2> SUFFICES ASSUME NEW p \in Users(v), \A q \in Users(v) : q = p
               PROVE  refcount[v] = 1
    OBVIOUS
  <2>1. Users(v) = {p}
    OBVIOUS
  <2> QED
    BY <1>1, <2>1, FS_Singleton
<1> QED
  BY <1>1, <1>2, <1>3, FS_EmptySet, FS_CardinalityType

\* hold and release change the number of users as they change the count.
LEMMA AddUser ==
    ASSUME NEW v, NEW p, Users(v)' = Users(v) \cup {p}, p \notin Users(v)
    PROVE  Cardinality(Users(v)') = Cardinality(Users(v)) + 1
  BY UsersFinite, FS_AddElement

LEMMA RemoveUser ==
    ASSUME NEW v, NEW p \in Users(v), Users(v)' = Users(v) \ {p}
    PROVE  Cardinality(Users(v)') = Cardinality(Users(v)) - 1
  BY UsersFinite, FS_RemoveElement

-----------------------------------------------------------------------------
(* One lemma per action: it keeps the inductive invariant.                 *)

\* A call only notes its ID.
LEMMA CallKeeps ==
    ASSUME NoNilCtx, IInv, NEW p \in Proc, NEW method \in {"lookup", "new"}, NEW i \in VolumeId,
           Call(p, method, i)
    PROVE  IInv'
<1> USE CacheAssumption DEF IInv, TypeOK, PCs, States, Referring, Counted, Owning, Alive, Goto, NameFor,
       cacheVars, procVars, Call
<1>1. (TypeOK /\ LocalsSet /\ CachedUnderName /\ MutexExact)'
  BY DEF LocalsSet, CachedUnderName, MutexExact, OwnerRecorded, HeldIsCached
<1>2. (OwnerRecorded /\ OneOwner /\ OneDecides)'
  BY DEF LocalsSet, CachedUnderName, MutexExact, OwnerRecorded,
     OneOwner, OneDecides, HeldIsCached, NoNilCtx
<1>3. LeftToWaiter'
  BY DEF LocalsSet, OwnerRecorded, OneOwner, LeftToWaiter, HeldIsCached,
     NoNilCtx
<1>4. HeldIsCached'
  BY DEF LocalsSet, CachedUnderName, HeldIsCached
<1>5. RefcountExact'
  <2>1. \A v \in Vol : Users(v)' = Users(v)
    BY DEF Users, LocalsSet, MutexExact
  <2> QED
    BY <2>1 DEF RefcountExact, LocalsSet
<1>6. NoStalePlaceholder'
  BY DEF LocalsSet, CachedUnderName, MutexExact, OwnerRecorded, LeftToWaiter,
     HeldIsCached, NoStalePlaceholder
<1> QED
  BY <1>1, <1>2, <1>3, <1>4, <1>5, <1>6

\* A look-up that finds the volume becomes one more user of it.
LEMMA LookupHitKeeps ==
    ASSUME NoNilCtx, IInv, NEW p \in Proc, LookupHit(p)
    PROVE  IInv'
<1> USE CacheAssumption DEF IInv, TypeOK, PCs, States, Referring, Counted, Owning, Alive, Goto, NameFor,
       cacheVars, procVars, LookupHit, HoldCached
<1>0. PICK w \in Vol : w = vHash[NameFor(p)]
  BY DEF LocalsSet
<1>1. (TypeOK /\ LocalsSet /\ CachedUnderName /\ MutexExact)'
  BY DEF LocalsSet, CachedUnderName, MutexExact, OwnerRecorded, HeldIsCached
<1>2. (OwnerRecorded /\ OneOwner /\ OneDecides)'
  BY DEF LocalsSet, CachedUnderName, MutexExact, OwnerRecorded,
     OneOwner, OneDecides, HeldIsCached, NoNilCtx
<1>3. LeftToWaiter'
  BY DEF LocalsSet, OwnerRecorded, OneOwner, LeftToWaiter, HeldIsCached,
     NoNilCtx
<1>4. HeldIsCached'
  BY DEF LocalsSet, CachedUnderName, HeldIsCached
<1>5. RefcountExact'
  <2>1. /\ p \notin Users(w) /\ Users(w)' = Users(w) \cup {p}
        /\ \A v \in Vol \ {w} : Users(v)' = Users(v)
    BY <1>0 DEF Users, LocalsSet
  <2>2. Cardinality(Users(w)') = Cardinality(Users(w)) + 1
    BY ONLY <2>1, AddUser
  <2> QED
    BY <1>0, <2>1, <2>2 DEF RefcountExact
<1>6. NoStalePlaceholder'
  BY DEF LocalsSet, CachedUnderName, MutexExact, OwnerRecorded, LeftToWaiter,
     HeldIsCached, NoStalePlaceholder
<1> QED
  BY <1>1, <1>2, <1>3, <1>4, <1>5, <1>6

\* A look-up that finds nothing changes nothing.
LEMMA LookupMissKeeps ==
    ASSUME NoNilCtx, IInv, NEW p \in Proc, LookupMiss(p)
    PROVE  IInv'
<1> USE CacheAssumption DEF IInv, TypeOK, PCs, States, Referring, Counted, Owning, Alive, Goto, NameFor,
       cacheVars, procVars, LookupMiss
<1>1. (TypeOK /\ LocalsSet /\ CachedUnderName /\ MutexExact)'
  BY DEF LocalsSet, CachedUnderName, MutexExact, OwnerRecorded, HeldIsCached
<1>2. (OwnerRecorded /\ OneOwner /\ OneDecides)'
  BY DEF LocalsSet, CachedUnderName, MutexExact, OwnerRecorded,
     OneOwner, OneDecides, HeldIsCached, NoNilCtx
<1>3. LeftToWaiter'
  BY DEF LocalsSet, OwnerRecorded, OneOwner, LeftToWaiter, HeldIsCached,
     NoNilCtx
<1>4. HeldIsCached'
  BY DEF LocalsSet, CachedUnderName, HeldIsCached
<1>5. RefcountExact'
  <2>1. \A v \in Vol : Users(v)' = Users(v)
    BY DEF Users, LocalsSet, MutexExact
  <2> QED
    BY <2>1 DEF RefcountExact, LocalsSet
<1>6. NoStalePlaceholder'
  BY DEF LocalsSet, CachedUnderName, MutexExact, OwnerRecorded, LeftToWaiter,
     HeldIsCached, NoStalePlaceholder
<1> QED
  BY <1>1, <1>2, <1>3, <1>4, <1>5, <1>6

\* newVolume that finds the volume becomes one more user of it.
LEMMA NewHitKeeps ==
    ASSUME NoNilCtx, IInv, NEW p \in Proc, NewHit(p)
    PROVE  IInv'
<1> USE CacheAssumption DEF IInv, TypeOK, PCs, States, Referring, Counted, Owning, Alive, Goto, NameFor,
       cacheVars, procVars, NewHit, HoldCached, CanWrite
<1>0. PICK w \in Vol : w = vHash[NameFor(p)]
  BY DEF LocalsSet
<1>1. (TypeOK /\ LocalsSet /\ CachedUnderName /\ MutexExact)'
  BY DEF LocalsSet, CachedUnderName, MutexExact, OwnerRecorded, HeldIsCached
<1>2. (OwnerRecorded /\ OneOwner /\ OneDecides)'
  BY DEF LocalsSet, CachedUnderName, MutexExact, OwnerRecorded,
     OneOwner, OneDecides, HeldIsCached, NoNilCtx
<1>3. LeftToWaiter'
  BY DEF LocalsSet, OwnerRecorded, OneOwner, LeftToWaiter, HeldIsCached,
     NoNilCtx
<1>4. HeldIsCached'
  BY DEF LocalsSet, CachedUnderName, HeldIsCached
<1>5. RefcountExact'
  <2>1. /\ p \notin Users(w) /\ Users(w)' = Users(w) \cup {p}
        /\ \A v \in Vol \ {w} : Users(v)' = Users(v)
    BY <1>0 DEF Users, LocalsSet
  <2>2. Cardinality(Users(w)') = Cardinality(Users(w)) + 1
    BY ONLY <2>1, AddUser
  <2> QED
    BY <1>0, <2>1, <2>2 DEF RefcountExact
<1>6. NoStalePlaceholder'
  BY DEF LocalsSet, CachedUnderName, MutexExact, OwnerRecorded, LeftToWaiter,
     HeldIsCached, NoStalePlaceholder
<1> QED
  BY <1>1, <1>2, <1>3, <1>4, <1>5, <1>6

\* A place holder is a structure nobody else knows.
LEMMA NewMissKeeps ==
    ASSUME NoNilCtx, IInv, NEW p \in Proc, NewMiss(p)
    PROVE  IInv'
<1> USE CacheAssumption DEF IInv, TypeOK, PCs, States, Referring, Counted, Owning, Alive, Goto, NameFor,
       cacheVars, procVars, NewMiss, CanWrite, Unused
<1>0. PICK v \in Vol :
        /\ Unused(v)
        /\ vHash' = [vHash EXCEPT ![NameFor(p)] = v]
        /\ volId' = [volId EXCEPT ![v] = id[p]]
        /\ state' = [state EXCEPT ![v] = "creating"]
        /\ refcount' = [refcount EXCEPT ![v] = 1]
        /\ context' = [context EXCEPT ![v] = CtxOf[p]]
        /\ zvol' = [zvol EXCEPT ![p] = v]
  OBVIOUS
<1>n. NameFor(p) \in Name /\ vHash[NameFor(p)] = NoVol /\ pc[p] = "new"
  BY DEF LocalsSet
<1>1. (TypeOK /\ LocalsSet /\ CachedUnderName /\ MutexExact)'
  <2>1. TypeOK'
    <3>1. pc' \in [Proc -> PCs] /\ context' \in [Vol -> Ctx \cup {NilCtx}]
      BY <1>0
    <3>2. volId' \in [Vol -> VolumeId \cup {NoId}] /\ zvol' \in [Proc -> Vol \cup {NoVol}]
      BY <1>0
    <3>3. refcount' \in [Vol -> Int]
      BY <1>0
    <3>5. vHash' \in [Name -> Vol \cup {NoVol}]
      BY ONLY <1>0, TypeOK DEF TypeOK
    <3>4. state' \in [Vol -> States]
      BY <1>0
    <3> QED
      BY <3>1, <3>2, <3>3, <3>4, <3>5
  <2>2. LocalsSet'
    BY <1>0, <1>n DEF LocalsSet, CachedUnderName, MutexExact, OwnerRecorded
  <2>3. CachedUnderName'
    BY <1>0, <1>n DEF LocalsSet, CachedUnderName, MutexExact, OwnerRecorded
  <2>4. MutexExact'
    BY <1>0, <1>n DEF LocalsSet, CachedUnderName, MutexExact, OwnerRecorded
  <2> QED
    BY <2>1, <2>2, <2>3, <2>4
<1>2. (OwnerRecorded /\ OneOwner /\ OneDecides)'
  BY <1>0, <1>n DEF LocalsSet, MutexExact, OwnerRecorded, OneOwner, OneDecides, HeldIsCached
<1>3. LeftToWaiter'
  BY <1>0, <1>n DEF LocalsSet, LeftToWaiter, OwnerRecorded
<1>4. HeldIsCached'
  BY <1>0, <1>n DEF LocalsSet, HeldIsCached
<1>5. RefcountExact'
  <2>1. Users(v)' = {p} /\ \A u \in Vol \ {v} : Users(u)' = Users(u)
    BY <1>0, <1>n DEF Users, LocalsSet
  <2>2. Cardinality({p}) = 1
    BY FS_Singleton
  <2>3. refcount'[v] = 1 /\ \A u \in Vol \ {v} : refcount'[u] = refcount[u]
    BY <1>0
  <2> QED
    BY ONLY <2>1, <2>2, <2>3, IInv DEF IInv, RefcountExact
<1>6. NoStalePlaceholder'
  BY <1>0, <1>n DEF LocalsSet, NoStalePlaceholder
<1> QED
  BY <1>1, <1>2, <1>3, <1>4, <1>5, <1>6

\* The bolt is free, so nobody owns the volume that p now gets.
LEMMA LockVolumeKeeps ==
    ASSUME NoNilCtx, IInv, NEW p \in Proc, LockVolume(p)
    PROVE  IInv'
<1> USE CacheAssumption DEF IInv, TypeOK, PCs, States, Referring, Counted, Owning, Alive, Goto, NameFor,
       cacheVars, procVars, LockVolume
<1>1. (TypeOK /\ LocalsSet /\ CachedUnderName /\ MutexExact)'
  <2>1. TypeOK'
    BY DEF LocalsSet, CachedUnderName, MutexExact, OwnerRecorded, HeldIsCached
  <2>2. LocalsSet'
    BY DEF LocalsSet, CachedUnderName, MutexExact, OwnerRecorded, HeldIsCached
  <2>3. CachedUnderName'
    BY DEF LocalsSet, CachedUnderName, MutexExact, OwnerRecorded, HeldIsCached
  <2>4. MutexExact'
    BY DEF LocalsSet, CachedUnderName, MutexExact, OwnerRecorded, HeldIsCached
  <2> QED
    BY <2>1, <2>2, <2>3, <2>4
<1>2. (OwnerRecorded /\ OneOwner /\ OneDecides)'
  BY DEF LocalsSet, CachedUnderName, MutexExact, OwnerRecorded,
     OneOwner, OneDecides, HeldIsCached, NoNilCtx
<1>3. LeftToWaiter'
  <2>1. \A q \in Proc : pc[q] \in Owning => zvol[q] # zvol[p]
    BY DEF OwnerRecorded, NoNilCtx
  <2> QED
    BY <2>1 DEF LeftToWaiter, LocalsSet
<1>4. HeldIsCached'
  BY DEF LocalsSet, CachedUnderName, HeldIsCached
<1>5. RefcountExact'
  <2>1. \A v \in Vol : Users(v)' = Users(v)
    BY DEF Users, LocalsSet, MutexExact
  <2> QED
    BY <2>1 DEF RefcountExact, LocalsSet
<1>6. NoStalePlaceholder'
  BY DEF LocalsSet, CachedUnderName, MutexExact, OwnerRecorded, LeftToWaiter,
     HeldIsCached, NoStalePlaceholder
<1> QED
  BY <1>1, <1>2, <1>3, <1>4, <1>5, <1>6

\* The appliance's answer changes at most the state of the owned volume.
LEMMA DetailsKeeps ==
    ASSUME NoNilCtx, IInv, NEW p \in Proc, Details(p)
    PROVE  IInv'
<1> USE CacheAssumption DEF IInv, TypeOK, PCs, States, Referring, Counted, Owning, Alive, Goto, NameFor,
       cacheVars, procVars, Details
<1>1. (TypeOK /\ LocalsSet /\ CachedUnderName /\ MutexExact)'
  BY DEF LocalsSet, CachedUnderName, MutexExact, OwnerRecorded, HeldIsCached
<1>2. (OwnerRecorded /\ OneOwner /\ OneDecides)'
  BY DEF LocalsSet, CachedUnderName, MutexExact, OwnerRecorded,
     OneOwner, OneDecides, HeldIsCached, NoNilCtx
<1>3. LeftToWaiter'
  BY DEF LocalsSet, OwnerRecorded, OneOwner, LeftToWaiter, HeldIsCached,
     NoNilCtx
<1>4. HeldIsCached'
  BY DEF LocalsSet, CachedUnderName, HeldIsCached
<1>5. RefcountExact'
  <2>1. \A v \in Vol : Users(v)' = Users(v)
    BY DEF Users, LocalsSet, MutexExact
  <2> QED
    BY <2>1 DEF RefcountExact, LocalsSet
<1>6. NoStalePlaceholder'
  BY DEF LocalsSet, CachedUnderName, MutexExact, OwnerRecorded, LeftToWaiter,
     HeldIsCached, NoStalePlaceholder
<1> QED
  BY <1>1, <1>2, <1>3, <1>4, <1>5, <1>6

\* So does the request.
LEMMA SetStateKeeps ==
    ASSUME NoNilCtx, IInv, NEW p \in Proc, NEW s \in States, SetState(p, s)
    PROVE  IInv'
<1> USE CacheAssumption DEF IInv, TypeOK, PCs, States, Referring, Counted, Owning, Alive, Goto, NameFor,
       cacheVars, procVars, SetState
<1>1. (TypeOK /\ LocalsSet /\ CachedUnderName /\ MutexExact)'
  BY DEF LocalsSet, CachedUnderName, MutexExact, OwnerRecorded, HeldIsCached
<1>2. (OwnerRecorded /\ OneOwner /\ OneDecides)'
  BY DEF LocalsSet, CachedUnderName, MutexExact, OwnerRecorded,
     OneOwner, OneDecides, HeldIsCached, NoNilCtx
<1>3. LeftToWaiter'
  BY DEF LocalsSet, OwnerRecorded, OneOwner, LeftToWaiter, HeldIsCached,
     NoNilCtx
<1>4. HeldIsCached'
  BY DEF LocalsSet, CachedUnderName, HeldIsCached
<1>5. RefcountExact'
  <2>1. \A v \in Vol : Users(v)' = Users(v)
    BY DEF Users, LocalsSet, MutexExact
  <2> QED
    BY <2>1 DEF RefcountExact, LocalsSet
<1>6. NoStalePlaceholder'
  BY DEF LocalsSet, CachedUnderName, MutexExact, OwnerRecorded, LeftToWaiter,
     HeldIsCached, NoStalePlaceholder
<1> QED
  BY <1>1, <1>2, <1>3, <1>4, <1>5, <1>6

\* The request goes on to release its volume.
LEMMA FinishKeeps ==
    ASSUME NoNilCtx, IInv, NEW p \in Proc, Finish(p)
    PROVE  IInv'
<1> USE CacheAssumption DEF IInv, TypeOK, PCs, States, Referring, Counted, Owning, Alive, Goto, NameFor,
       cacheVars, procVars, Finish
<1>1. (TypeOK /\ LocalsSet /\ CachedUnderName /\ MutexExact)'
  BY DEF LocalsSet, CachedUnderName, MutexExact, OwnerRecorded, HeldIsCached
<1>2. (OwnerRecorded /\ OneOwner /\ OneDecides)'
  BY DEF LocalsSet, CachedUnderName, MutexExact, OwnerRecorded,
     OneOwner, OneDecides, HeldIsCached, NoNilCtx
<1>3. LeftToWaiter'
  BY DEF LocalsSet, OwnerRecorded, OneOwner, LeftToWaiter, HeldIsCached,
     NoNilCtx
<1>4. HeldIsCached'
  BY DEF LocalsSet, CachedUnderName, HeldIsCached
<1>5. RefcountExact'
  <2>1. \A v \in Vol : Users(v)' = Users(v)
    BY DEF Users, LocalsSet, MutexExact
  <2> QED
    BY <2>1 DEF RefcountExact, LocalsSet
<1>6. NoStalePlaceholder'
  BY DEF LocalsSet, CachedUnderName, MutexExact, OwnerRecorded, LeftToWaiter,
     HeldIsCached, NoStalePlaceholder
<1> QED
  BY <1>1, <1>2, <1>3, <1>4, <1>5, <1>6

\* Other users of the volume wait for its bolt, which p still owns.
LEMMA ReleaseRefKeeps ==
    ASSUME NoNilCtx, IInv, NEW p \in Proc, ReleaseRef(p)
    PROVE  IInv'
<1> USE CacheAssumption DEF IInv, TypeOK, PCs, States, Referring, Counted, Owning, Alive, Goto, NameFor,
       cacheVars, procVars, ReleaseRef
<1>0. PICK w \in Vol : w = zvol[p]
  BY DEF LocalsSet
<1>1. (TypeOK /\ LocalsSet /\ CachedUnderName /\ MutexExact)'
  BY DEF LocalsSet, CachedUnderName, MutexExact, OwnerRecorded, HeldIsCached
<1>2. (OwnerRecorded /\ OneOwner /\ OneDecides)'
  BY DEF LocalsSet, CachedUnderName, MutexExact, OwnerRecorded,
     OneOwner, OneDecides, HeldIsCached, NoNilCtx
<1>3. LeftToWaiter'
  <2>1. p \in Users(w)
    BY <1>0 DEF Users
  <2>2. refcount[w] # 1 => \E q \in Users(w) : q # p
    BY ONLY <2>1, CountMeans, RefcountExact
  <2>3. \A q \in Users(w) : q # p => pc[q] = "lock" /\ zvol[q] = w
    BY <1>0 DEF OneOwner, Users
  <2> QED
    BY <1>0, <2>2, <2>3 DEF LocalsSet, LeftToWaiter, OneOwner, Users
<1>4. HeldIsCached'
  BY DEF LocalsSet, CachedUnderName, HeldIsCached
<1>5. RefcountExact'
  <2>1. /\ p \in Users(w) /\ Users(w)' = Users(w) \ {p}
        /\ \A v \in Vol \ {w} : Users(v)' = Users(v)
    BY <1>0 DEF Users, LocalsSet
  <2>2. Cardinality(Users(w)') = Cardinality(Users(w)) - 1
    BY ONLY <2>1, RemoveUser
  <2>3. /\ refcount[w] = Cardinality(Users(w)) /\ refcount'[w] = refcount[w] - 1
        /\ \A v \in Vol \ {w} : refcount'[v] = refcount[v]
    BY <1>0 DEF RefcountExact
  <2>4. \A v \in Vol \ {w} : refcount'[v] = Cardinality(Users(v)')
    BY <2>1, <2>3 DEF RefcountExact
  <2> QED
    BY ONLY <2>2, <2>3, <2>4 DEF RefcountExact
<1>6. NoStalePlaceholder'
  BY DEF LocalsSet, CachedUnderName, MutexExact, OwnerRecorded, LeftToWaiter,
     HeldIsCached, NoStalePlaceholder
<1> QED
  BY <1>1, <1>2, <1>3, <1>4, <1>5, <1>6

\* The fast path gives up the bolt: a waiter is left if the volume is not created.
LEMMA ReleaseFastKeeps ==
    ASSUME NoNilCtx, IInv, NEW p \in Proc, ReleaseFast(p)
    PROVE  IInv'
<1> USE CacheAssumption DEF IInv, TypeOK, PCs, States, Referring, Counted, Owning, Alive, Goto, NameFor,
       cacheVars, procVars, ReleaseFast, UnlockPanic
<1>1. (TypeOK /\ LocalsSet /\ CachedUnderName /\ MutexExact)'
  BY DEF LocalsSet, CachedUnderName, MutexExact, OwnerRecorded, HeldIsCached
<1>2. (OwnerRecorded /\ OneOwner /\ OneDecides)'
  BY DEF LocalsSet, CachedUnderName, MutexExact, OwnerRecorded,
     OneOwner, OneDecides, HeldIsCached, NoNilCtx
<1>3. LeftToWaiter'
  BY DEF LocalsSet, OwnerRecorded, OneOwner, LeftToWaiter, HeldIsCached,
     NoNilCtx
<1>4. HeldIsCached'
  BY DEF LocalsSet, CachedUnderName, HeldIsCached
<1>5. RefcountExact'
  <2>1. \A v \in Vol : Users(v)' = Users(v)
    BY DEF Users, LocalsSet, MutexExact
  <2> QED
    BY <2>1 DEF RefcountExact, LocalsSet
<1>6. NoStalePlaceholder'
  <2> SUFFICES ASSUME NEW n \in Name, vHash[n] # NoVol, state[vHash[n]] # "created"
               PROVE  \E q \in Proc : pc'[q] \in Referring /\ zvol'[q] = vHash[n]
    BY DEF NoStalePlaceholder, OwnerRecorded
  <2>1. PICK q \in Proc : pc[q] \in Referring /\ zvol[q] = vHash[n]
    BY DEF NoStalePlaceholder
  <2>2. CASE q # p
    BY <2>1, <2>2 DEF OwnerRecorded
  <2>3. CASE q = p
    BY <2>1, <2>3 DEF LeftToWaiter, OwnerRecorded, LocalsSet
  <2> QED
    BY <2>2, <2>3
<1> QED
  BY <1>1, <1>2, <1>3, <1>4, <1>5, <1>6

\* The only goroutine that can be about to decide on the volume is its owner.
LEMMA ReleaseSlowKeeps ==
    ASSUME NoNilCtx, IInv, NEW p \in Proc, ReleaseSlow(p)
    PROVE  IInv'
<1> USE CacheAssumption DEF IInv, TypeOK, PCs, States, Referring, Counted, Owning, Alive, Goto, NameFor,
       cacheVars, procVars, ReleaseSlow, UnlockPanic, CanWrite
<1>1. (TypeOK /\ LocalsSet /\ CachedUnderName /\ MutexExact)'
  BY DEF LocalsSet, CachedUnderName, MutexExact, OwnerRecorded, HeldIsCached
<1>2. (OwnerRecorded /\ OneOwner /\ OneDecides)'
  BY DEF LocalsSet, CachedUnderName, MutexExact, OwnerRecorded,
     OneOwner, OneDecides, HeldIsCached, NoNilCtx
<1>3. LeftToWaiter'
  BY DEF LocalsSet, OwnerRecorded, OneOwner, LeftToWaiter, HeldIsCached,
     NoNilCtx
<1>4. HeldIsCached'
  BY DEF LocalsSet, CachedUnderName, HeldIsCached
<1>5. RefcountExact'
  <2>1. \A v \in Vol : Users(v)' = Users(v)
    BY DEF Users, LocalsSet, MutexExact
  <2> QED
    BY <2>1 DEF RefcountExact, LocalsSet
<1>6. NoStalePlaceholder'
  BY DEF LocalsSet, CachedUnderName, MutexExact, OwnerRecorded, LeftToWaiter,
     HeldIsCached, NoStalePlaceholder
<1> QED
  BY <1>1, <1>2, <1>3, <1>4, <1>5, <1>6

\* A volume leaves the cache only when nobody refers to it.
LEMMA ReleaseCheckKeeps ==
    ASSUME NoNilCtx, IInv, NEW p \in Proc, ReleaseCheck(p)
    PROVE  IInv'
<1> USE CacheAssumption DEF IInv, TypeOK, PCs, States, Referring, Counted, Owning, Alive, Goto, NameFor,
       cacheVars, procVars, ReleaseCheck
<1> DEFINE w == zvol[p]
<1>0. /\ w \in Vol /\ vHash[NameFor(p)] = w
      /\ NameFor(p) \in Name /\ NameOf[volId[w]] = NameFor(p)
  BY DEF LocalsSet, HeldIsCached, CachedUnderName
<1>1. (TypeOK /\ LocalsSet /\ CachedUnderName /\ MutexExact)'
  BY DEF LocalsSet, CachedUnderName, MutexExact, OwnerRecorded, HeldIsCached
<1>2. (OwnerRecorded /\ OneOwner /\ OneDecides)'
  BY DEF LocalsSet, CachedUnderName, MutexExact, OwnerRecorded,
     OneOwner, OneDecides, HeldIsCached, NoNilCtx
<1>3. LeftToWaiter'
  BY DEF LocalsSet, OwnerRecorded, OneOwner, LeftToWaiter, HeldIsCached,
     NoNilCtx
<1>4. HeldIsCached'
  <2> SUFFICES ASSUME NEW q \in Proc, pc'[q] \in Referring
               PROVE  vHash'[NameFor(q)] = zvol[q]
    BY DEF HeldIsCached, LocalsSet
  <2>1. q # p /\ pc[q] \in Referring /\ vHash[NameFor(q)] = zvol[q]
    BY DEF HeldIsCached
  <2>2. CASE refcount[w] = 0 /\ state[w] # "created"
    <3>1. zvol[q] # w
      <4>1. pc[q] \notin Counted \/ zvol[q] # w
        BY <1>0, <2>2, CountMeans DEF Users
      <4>2. pc[q] # "relFast" /\ pc[q] # "relCheck"
        BY <2>1 DEF MutexExact
      <4>3. pc[q] = "relLock" => zvol[q] # w
        BY DEF OneDecides
      <4> QED
        BY <2>1, <4>1, <4>2, <4>3
    <3>2. NameOf[volId[w]] # NameFor(q)
      BY <1>0, <2>1, <3>1
    <3> QED
      BY <2>1, <2>2, <3>2 DEF LocalsSet
  <2>3. CASE ~(refcount[w] = 0 /\ state[w] # "created")
    BY <2>1, <2>3
  <2> QED
    BY <2>2, <2>3
<1>5. RefcountExact'
  <2>1. \A v \in Vol : Users(v)' = Users(v)
    BY DEF Users, LocalsSet, MutexExact
  <2> QED
    BY <2>1 DEF RefcountExact, LocalsSet
<1>6. NoStalePlaceholder'
  <2> SUFFICES ASSUME NEW n \in Name, vHash'[n] # NoVol, state[vHash'[n]] # "created"
               PROVE  \E q \in Proc : pc'[q] \in Referring /\ zvol'[q] = vHash'[n]
    BY DEF NoStalePlaceholder
  <2>1. vHash'[n] = vHash[n]
    BY <1>0
  <2>2. PICK q \in Proc : pc[q] \in Referring /\ zvol[q] = vHash[n]
    BY <2>1 DEF NoStalePlaceholder
  <2>3. CASE q # p
    BY <2>1, <2>2, <2>3
  <2>4. CASE q = p
    <3>1. refcount[w] # 0
      BY <1>0, <2>1, <2>2, <2>4 DEF CachedUnderName
    <3>2. PICK r \in Proc : pc[r] \in Counted /\ zvol[r] = w
      <4>1. Users(w) # {}
        BY <1>0, <3>1, FS_EmptySet DEF RefcountExact
      <4> QED
        BY <4>1 DEF Users
    <3>3. r # p
      BY <3>2
    <3> QED
      BY <2>1, <2>2, <2>4, <3>2, <3>3
  <2> QED
    BY <2>3, <2>4
<1> QED
  BY <1>1, <1>2, <1>3, <1>4, <1>5, <1>6

\* Every step keeps the inductive invariant.
LEMMA StepIInv == ASSUME NoNilCtx, IInv, [Next]_vars PROVE IInv'
<1>1. CASE UNCHANGED vars
  <2>1. \A v \in Vol : Users(v)' = Users(v)
    BY <1>1 DEF vars, cacheVars, procVars, Users
  <2>2. (TypeOK /\ LocalsSet /\ CachedUnderName /\ MutexExact)'
    BY <1>1 DEF vars, cacheVars, procVars, IInv, TypeOK, LocalsSet, CachedUnderName,
       MutexExact
  <2>3. (OwnerRecorded /\ OneOwner /\ OneDecides /\ LeftToWaiter)'
    BY <1>1 DEF vars, cacheVars, procVars, IInv, OwnerRecorded, Alive, OneOwner,
       OneDecides, LeftToWaiter
  <2>4. (HeldIsCached /\ NoStalePlaceholder)'
    BY <1>1 DEF vars, cacheVars, procVars, IInv, HeldIsCached, NameFor,
       NoStalePlaceholder
  <2>5. RefcountExact'
    BY <1>1, <2>1 DEF vars, cacheVars, IInv, RefcountExact
  <2> QED
    BY <2>2, <2>3, <2>4, <2>5 DEF IInv
<1>2. ASSUME NEW p \in Proc, Start(p) PROVE IInv'
  BY <1>2, CallKeeps DEF Start
<1>3. ASSUME NEW p \in Proc, Acquire(p) PROVE IInv'
  BY <1>3, LookupHitKeeps, LookupMissKeeps, NewHitKeeps, NewMissKeeps, LockVolumeKeeps
     DEF Acquire
<1>4. ASSUME NEW p \in Proc, Use(p) PROVE IInv'
  BY <1>4, DetailsKeeps, SetStateKeeps, FinishKeeps DEF Use
<1>5. ASSUME NEW p \in Proc, Release(p) PROVE IInv'
  BY <1>5, ReleaseRefKeeps, ReleaseFastKeeps, ReleaseSlowKeeps, ReleaseCheckKeeps
     DEF Release
<1> QED
  BY <1>1, <1>2, <1>3, <1>4, <1>5 DEF Next

\* Exclusion per structure is exclusion per name.
LEMMA IInvExcludes == IInv => ExclusiveAccess
  BY DEF IInv, OneOwner, HeldIsCached, ExclusiveAccess, Owning, Referring, Counted

-----------------------------------------------------------------------------
\* The inductive invariant holds: reference counts are exact, what a
\* goroutine holds is what the cache holds, no place holder is left behind
\* and "wrong owner" is never raised.
THEOREM CacheInvariant == NoNilCtx => (Spec => []IInv)
<1> SUFFICES ASSUME NoNilCtx PROVE Spec => []IInv
  OBVIOUS
<1>1. IInv /\ [Next]_vars => IInv'
  BY StepIInv
<1> QED
  BY InitIInv, <1>1, PTL DEF Spec

\* A structure that is in the cache but not created has a goroutine that works
\* on it, so that no name answers "busy" for ever (the second look of
\* releaseVolume, volumes.go:222).
THEOREM CacheKeepsNoPlaceholder == NoNilCtx => (Spec => []NoStalePlaceholder)
<1>1. IInv => NoStalePlaceholder
  BY DEF IInv
<1> QED
  BY CacheInvariant, <1>1, PTL

\* Only one request or goroutine has access to a volume name at any time.
THEOREM CacheExclusive == NoNilCtx => (Spec => []ExclusiveAccess)
<1> SUFFICES ASSUME NoNilCtx PROVE Spec => []ExclusiveAccess
  OBVIOUS
<1>1. IInv /\ [Next]_vars => IInv'
  BY StepIInv
<1> QED
  BY InitIInv, IInvExcludes, <1>1, PTL DEF Spec
-----------------------------------------------------------------------------
(* Refinement: per name, the cache is an exclusive lock.                   *)

\* A goroutine whose step moves it, for name n, from waiting to owning takes
\* the lock of n if nobody owns it, one that goes from owning to idle gives
\* it up, and so on; the others do not move.
LEMMA LockStep ==
    ASSUME NEW n, NEW p \in Proc,
           \A q \in Proc \ {p} : Abs(n, q)' = Abs(n, q),
           \/ Abs(n, p)' = Abs(n, p)
           \/ Abs(n, p) = "idle" /\ Abs(n, p)' = "waiting"
           \/ /\ Abs(n, p) = "waiting" /\ Abs(n, p)' = "owning"
              /\ \A q \in Proc : Abs(n, q) # "owning"
           \/ Abs(n, p) = "owning" /\ Abs(n, p)' = "idle"
    PROVE  NameLock(n)!Next \/ UNCHANGED [q \in Proc |-> Abs(n, q)]
  BY DEF NameLock!Next, NameLock!Ask, NameLock!Acquire, NameLock!Release

\* Only p moves.
LEMMA OthersStay ==
    ASSUME NEW n, NEW p \in Proc,
           \A q \in Proc \ {p} : pc'[q] = pc[q] /\ id'[q] = id[q]
    PROVE  \A q \in Proc \ {p} : Abs(n, q)' = Abs(n, q)
  BY DEF Abs, NameFor

\* Every step of the cache is, for every name, a step of its lock or none.
LEMMA StepRefines ==
    ASSUME NoNilCtx, IInv, [Next]_vars, NEW n \in Name
    PROVE  NameLock(n)!Next \/ UNCHANGED [q \in Proc |-> Abs(n, q)]
<1> USE DEF IInv, TypeOK, PCs, Referring, Counted, Owning, Goto, cacheVars, procVars
<1>1. CASE UNCHANGED vars
  BY <1>1 DEF vars, Abs, NameFor
<1>2. ASSUME NEW p \in Proc, Start(p)
      PROVE  NameLock(n)!Next \/ UNCHANGED [q \in Proc |-> Abs(n, q)]
  <2>1. /\ pc[p] = "idle" /\ pc'[p] \in {"lookup", "new"}
        /\ \A q \in Proc \ {p} : pc'[q] = pc[q] /\ id'[q] = id[q]
    BY <1>2 DEF Start, Call
  <2>2. Abs(n, p) = "idle" /\ Abs(n, p)' \in {"idle", "waiting"}
    BY <2>1 DEF Abs
  <2> QED
    BY ONLY <2>1, <2>2, LockStep, OthersStay
<1>3. ASSUME NEW p \in Proc, LookupHit(p) \/ LookupMiss(p) \/ NewHit(p) \/ Use(p)
                              \/ ReleaseRef(p) \/ ReleaseCheck(p)
      PROVE  NameLock(n)!Next \/ UNCHANGED [q \in Proc |-> Abs(n, q)]
  <2>1. /\ id' = id
        /\ \A q \in Proc \ {p} : pc'[q] = pc[q]
        /\ \/ pc'[p] = pc[p]
           \/ {pc[p], pc'[p]} \subseteq {"lookup", "new", "lock"}
           \/ {pc[p], pc'[p]} \subseteq Owning
           \/ {pc[p], pc'[p]} \subseteq {"relCheck", "idle"}
    BY <1>3 DEF LookupHit, LookupMiss, NewHit, HoldCached, Use, Details, SetState, Finish,
                ReleaseRef, ReleaseCheck
  <2>2. Abs(n, p)' = Abs(n, p)
    BY <2>1 DEF Abs, NameFor
  <2> QED
    BY ONLY <2>1, <2>2, LockStep, OthersStay
<1>4. ASSUME NEW p \in Proc, NewMiss(p) \/ LockVolume(p)
      PROVE  NameLock(n)!Next \/ UNCHANGED [q \in Proc |-> Abs(n, q)]
  <2>1. /\ id' = id
        /\ \A q \in Proc \ {p} : pc'[q] = pc[q]
        /\ pc[p] \in {"new", "lock"} /\ pc'[p] \in Owning
    BY <1>4 DEF NewMiss, LockVolume
  <2>2. \A q \in Proc : pc[q] \in Owning => NameFor(q) # NameFor(p)
    <3>1. CASE NewMiss(p)
      BY <3>1, CacheAssumption DEF NewMiss, HeldIsCached, LocalsSet
    <3>2. CASE LockVolume(p)
      BY <3>2 DEF LockVolume, HeldIsCached, OwnerRecorded, NoNilCtx
    <3> QED
      BY <1>4, <3>1, <3>2
  <2>3. CASE NameFor(p) = n
    <3>1. Abs(n, p) = "waiting" /\ Abs(n, p)' = "owning"
      BY <2>1, <2>3 DEF Abs, NameFor
    <3>2. \A q \in Proc : Abs(n, q) # "owning"
      BY <2>2, <2>3 DEF Abs
    <3> QED
      BY ONLY <2>1, <3>1, <3>2, LockStep, OthersStay
  <2>4. CASE NameFor(p) # n
    <3>1. Abs(n, p)' = Abs(n, p)
      BY <2>1, <2>4 DEF Abs, NameFor
    <3> QED
      BY ONLY <2>1, <3>1, LockStep, OthersStay
  <2> QED
    BY <2>3, <2>4
<1>5. ASSUME NEW p \in Proc, ReleaseFast(p) \/ ReleaseSlow(p)
      PROVE  NameLock(n)!Next \/ UNCHANGED [q \in Proc |-> Abs(n, q)]
  <2>1. /\ id' = id
        /\ \A q \in Proc \ {p} : pc'[q] = pc[q]
        /\ pc[p] \in Owning /\ pc'[p] \in {"idle", "relCheck", "panic"}
    BY <1>5 DEF ReleaseFast, ReleaseSlow, UnlockPanic
  <2>2. \/ Abs(n, p) = "owning" /\ Abs(n, p)' = "idle"
        \/ Abs(n, p)' = Abs(n, p)
    BY <2>1 DEF Abs, NameFor
  <2> QED
    BY ONLY <2>1, <2>2, LockStep, OthersStay
<1> QED
  BY <1>1, <1>2, <1>3, <1>4, <1>5 DEF Next, Acquire, Release

\* For every volume name, the cache implements the exclusive lock.
THEOREM CacheImplementsLocks == NoNilCtx => (Spec => ImplementsLocks)
<1> SUFFICES ASSUME NoNilCtx PROVE Spec => ImplementsLocks
  OBVIOUS
<1> DEFINE Sees == \A n \in Name :
             NameLock(n)!Next \/ UNCHANGED [p \in Proc |-> Abs(n, p)]
<1>1. Init => \A n \in Name : NameLock(n)!Init
  BY DEF Init, NameLock!Init, Abs, Owning
<1>2. IInv /\ [Next]_vars => Sees
  BY StepRefines
<1>3. IInv /\ [Next]_vars => IInv'
  BY StepIInv
<1> QED
  BY InitIInv, <1>1, <1>2, <1>3, PTL DEF Spec, ImplementsLocks
=============================================================================
