----------------------------- MODULE VolumeCache -----------------------------
(***************************************************************************)
(* The cache of volumes of the controller (src/pkg/service/volumes.go):    *)
(* newVolume, lookupVolume and releaseVolume, executed concurrently by the *)
(* goroutines of the gRPC requests and of the listings.                    *)
(*                                                                         *)
(* The cache maps a bare volume name to a structure.  A structure carries  *)
(* the volume ID it was created with, a reference count of the goroutines  *)
(* that use it or wait for it, a bolt (Bolt.tla, used here as the lock it  *)
(* implements) that admits one of them at a time, and a state.  A goroutine*)
(* that finds no structure for its name adds one in state "creating" as a  *)
(* place holder.                                                           *)
(*                                                                         *)
(* Atomicity: what a goroutine does under vMutex without blocking is one   *)
(* action, because everything it touches there is either protected by      *)
(* vMutex or, being atomic or protected by the bolt, observed one          *)
(* operation at a time; releaseVolume, where steps of others do fit in     *)
(* between, is cut at each of its lock operations.  What the request does  *)
(* with the volume it owns is reduced here to its effect on the state; the *)
(* handlers are in VolumeService.tla.                                      *)
(***************************************************************************)
EXTENDS Integers, FiniteSets

CONSTANTS Proc,      \* goroutines that handle a request or run a listing
          Vol,       \* volume structures (zFilesystem, zLUN) in memory
          VolumeId,  \* volume IDs: type, appliance, pool, project and name
          Name,      \* volume names, the keys of the cache
          NameOf,    \* the name in a volume ID
          Ctx,       \* contexts
          CtxOf,     \* the context a goroutine works with
          NilCtx,    \* the nil context
          NoVol, NoId, NoProc

ASSUME CacheAssumption ==
    /\ IsFiniteSet(Proc)
    /\ NoVol \notin Vol
    /\ NoId \notin VolumeId
    /\ NoProc \notin Proc
    /\ NilCtx \notin Ctx
    /\ NameOf \in [VolumeId -> Name]
    /\ CtxOf \in [Proc -> Ctx \cup {NilCtx}]

VARIABLES
    vHash,      \* vHash[n]: the structure cached under name n, or NoVol
    writer,     \* the goroutine that holds vMutex for writing, or NoProc
    readers,    \* the goroutines that hold vMutex for reading
    volId,      \* volId[v]: the ID structure v was created with
    state,      \* volumeState of v
    refcount,   \* reference count of v
    context,    \* the context of the owner of v's bolt, or NilCtx
    pc,         \* pc[p]: where p is
    call,       \* call[p]: the method p was called for
    id,         \* id[p]: the volume ID p was called with
    zvol        \* zvol[p]: the structure p refers to, or NoVol

cacheVars == <<vHash, writer, readers, volId, state, refcount, context>>
procVars  == <<pc, call, id, zvol>>
vars      == <<cacheVars, procVars>>

States == {"creating", "created", "deleted"}

(* "lookup", "new": about to run lookupVolume, newVolume.  "lock": waits   *)
(* for the bolt.  "details": owns a place holder lookupVolume must fill.   *)
(* "own": the request works on the volume.  "release": enters              *)
(* releaseVolume.  "relFast": past the reference count, under RLock.       *)
(* "relLock": no RLock any more, wants the write lock.  "relCheck": has    *)
(* given up the bolt, under the write lock.                                *)
Owning     == {"details", "own", "release", "relFast", "relLock"}
Counted    == {"lock", "details", "own", "release"}
Referring  == Counted \cup {"relFast", "relLock", "relCheck"}
PCs        == {"idle", "lookup", "new", "panic"} \cup Referring

TypeOK ==
    /\ vHash \in [Name -> Vol \cup {NoVol}]
    /\ writer \in Proc \cup {NoProc}
    /\ readers \in SUBSET Proc
    /\ volId \in [Vol -> VolumeId \cup {NoId}]
    /\ state \in [Vol -> States]
    /\ refcount \in [Vol -> Int]
    /\ context \in [Vol -> Ctx \cup {NilCtx}]
    /\ pc \in [Proc -> PCs]
    /\ call \in [Proc -> {"lookup", "new"}]
    /\ id \in [Proc -> VolumeId \cup {NoId}]
    /\ zvol \in [Proc -> Vol \cup {NoVol}]

Init ==
    /\ vHash = [n \in Name |-> NoVol]
    /\ writer = NoProc
    /\ readers = {}
    /\ volId = [v \in Vol |-> NoId]
    /\ state = [v \in Vol |-> "creating"]
    /\ refcount = [v \in Vol |-> 0]
    /\ context = [v \in Vol |-> NilCtx]
    /\ pc = [p \in Proc |-> "idle"]
    /\ call = [p \in Proc |-> "lookup"]
    /\ id = [p \in Proc |-> NoId]
    /\ zvol = [p \in Proc |-> NoVol]

\* The panic of Bolt.Unlock is not recovered: it ends the driver.
Alive == \A p \in Proc : pc[p] # "panic"

Goto(p, where) == pc' = [pc EXCEPT ![p] = where]

NameFor(p) == NameOf[id[p]]

\* Structures the garbage collector may reuse: nothing points to them.
Unused(v) ==
    /\ \A n \in Name : vHash[n] # v
    /\ \A p \in Proc : zvol[p] # v

-----------------------------------------------------------------------------
(* A request or a listing turns to a volume.                               *)
Call(p, method, i) ==
    /\ pc[p] = "idle"
    /\ Alive
    /\ call' = [call EXCEPT ![p] = method]
    /\ id' = [id EXCEPT ![p] = i]
    /\ Goto(p, method)
    /\ UNCHANGED <<cacheVars, zvol>>

\* zvol.hold(ctx) of a structure found in the cache.
HoldCached(p) ==
    /\ zvol' = [zvol EXCEPT ![p] = vHash[NameFor(p)]]
    /\ refcount' = [refcount EXCEPT ![vHash[NameFor(p)]] = @ + 1]
    /\ Goto(p, "lock")
    /\ UNCHANGED <<vHash, writer, readers, volId, state, context, call, id>>

\* lookupVolume, between RLock and RUnlock: the cache has an entry.
LookupHit(p) ==
    /\ pc[p] = "lookup"
    /\ Alive
    /\ writer = NoProc
    /\ vHash[NameFor(p)] # NoVol
    /\ HoldCached(p)

\* lookupVolume: no entry, it goes on with newVolume without the lock.
LookupMiss(p) ==
    /\ pc[p] = "lookup"
    /\ Alive
    /\ writer = NoProc
    /\ vHash[NameFor(p)] = NoVol
    /\ Goto(p, "new")
    /\ UNCHANGED <<cacheVars, call, id, zvol>>

CanWrite == writer = NoProc /\ readers = {}

\* newVolume, under Lock: the volume is already known.
NewHit(p) ==
    /\ pc[p] = "new"
    /\ Alive
    /\ CanWrite
    /\ vHash[NameFor(p)] # NoVol
    /\ HoldCached(p)

\* newVolume, under Lock: a place holder is added, held and locked.
NewMiss(p) ==
    /\ pc[p] = "new"
    /\ Alive
    /\ CanWrite
    /\ vHash[NameFor(p)] = NoVol
    /\ \E v \in Vol :
         /\ Unused(v)
         /\ vHash' = [vHash EXCEPT ![NameFor(p)] = v]
         /\ volId' = [volId EXCEPT ![v] = id[p]]
         /\ state' = [state EXCEPT ![v] = "creating"]
         /\ refcount' = [refcount EXCEPT ![v] = 1]
         /\ context' = [context EXCEPT ![v] = CtxOf[p]]
         /\ zvol' = [zvol EXCEPT ![p] = v]
    /\ Goto(p, IF call[p] = "lookup" THEN "details" ELSE "own")
    /\ UNCHANGED <<writer, readers, call, id>>

\* zvol.lock(ctx) returns: created, the caller gets the volume; otherwise
\* "volume busy", and the volume is released.
LockVolume(p) ==
    /\ pc[p] = "lock"
    /\ Alive
    /\ context[zvol[p]] = NilCtx
    /\ context' = [context EXCEPT ![zvol[p]] = CtxOf[p]]
    /\ Goto(p, IF state[zvol[p]] = "created" THEN "own" ELSE "release")
    /\ UNCHANGED <<vHash, writer, readers, volId, state, refcount, call, id, zvol>>

\* lookupVolume asks the appliance: setInfo when it knows the volume, an
\* error (not found or any other) releases the place holder as it is.
Details(p) ==
    /\ pc[p] = "details"
    /\ Alive
    /\ \/ /\ state' = [state EXCEPT ![zvol[p]] = "created"]
          /\ Goto(p, "own")
       \/ /\ Goto(p, "release")
          /\ UNCHANGED state
    /\ UNCHANGED <<vHash, writer, readers, volId, refcount, context, call, id, zvol>>

\* The request works on its volume: it stores what the appliance reports
\* (setInfo), or records that the volume is gone.
SetState(p, s) ==
    /\ pc[p] = "own"
    /\ Alive
    /\ s \in {"created", "deleted"}
    /\ state' = [state EXCEPT ![zvol[p]] = s]
    /\ UNCHANGED <<vHash, writer, readers, volId, refcount, context, procVars>>

\* The request is done and calls releaseVolume (mostly with defer).
Finish(p) ==
    /\ pc[p] = "own"
    /\ Alive
    /\ Goto(p, "release")
    /\ UNCHANGED <<cacheVars, call, id, zvol>>

-----------------------------------------------------------------------------
(* releaseVolume.                                                          *)

\* Mutant of ReleaseRef: always the fast path, nobody drops the entry.
ReleaseRefFast(p) ==
    /\ pc[p] = "release"
    /\ Alive
    /\ writer = NoProc
    /\ refcount' = [refcount EXCEPT ![zvol[p]] = @ - 1]
    /\ Goto(p, "relFast") /\ readers' = readers \cup {p}
    /\ UNCHANGED <<vHash, writer, volId, state, context, call, id, zvol>>

\* RLock, zvol.release(ctx), and the choice of the path: only the last user
\* of a volume that is not created goes for the write lock.
ReleaseRef(p) ==
    /\ pc[p] = "release"
    /\ Alive
    /\ writer = NoProc
    /\ refcount' = [refcount EXCEPT ![zvol[p]] = @ - 1]
    /\ IF refcount[zvol[p]] = 1 /\ state[zvol[p]] # "created"
       THEN Goto(p, "relLock") /\ UNCHANGED readers
       ELSE Goto(p, "relFast") /\ readers' = readers \cup {p}
    /\ UNCHANGED <<vHash, writer, volId, state, context, call, id, zvol>>

\* Bolt.Unlock by a goroutine that does not own the bolt.
UnlockPanic(p) ==
    /\ Goto(p, "panic")
    /\ UNCHANGED <<cacheVars, call, id, zvol>>

\* Mutant of ReleaseFast: RUnlock is missing.
ReleaseFastNoRUnlock(p) ==
    /\ pc[p] = "relFast"
    /\ Alive
    /\ context' = [context EXCEPT ![zvol[p]] = NilCtx]
    /\ zvol' = [zvol EXCEPT ![p] = NoVol]
    /\ Goto(p, "idle")
    /\ UNCHANGED <<vHash, writer, readers, volId, state, refcount, call, id>>

\* zvol.unlock(ctx) and RUnlock; the method returns.
ReleaseFast(p) ==
    /\ pc[p] = "relFast"
    /\ Alive
    /\ IF context[zvol[p]] # CtxOf[p] THEN UnlockPanic(p)
       ELSE /\ context' = [context EXCEPT ![zvol[p]] = NilCtx]
            /\ readers' = readers \ {p}
            /\ zvol' = [zvol EXCEPT ![p] = NoVol]
            /\ Goto(p, "idle")
            /\ UNCHANGED <<vHash, writer, volId, state, refcount, call, id>>

\* Lock, zvol.unlock(ctx): from here on someone else may own the volume.
ReleaseSlow(p) ==
    /\ pc[p] = "relLock"
    /\ Alive
    /\ CanWrite
    /\ IF context[zvol[p]] # CtxOf[p] THEN UnlockPanic(p)
       ELSE /\ writer' = p
            /\ context' = [context EXCEPT ![zvol[p]] = NilCtx]
            /\ Goto(p, "relCheck")
            /\ UNCHANGED <<vHash, readers, volId, state, refcount, call, id, zvol>>

\* Mutant of ReleaseCheck: the reference count is not looked at again.
ReleaseUnchecked(p) ==
    /\ pc[p] = "relCheck"
    /\ Alive
    /\ vHash' = IF state[zvol[p]] # "created"
                THEN [vHash EXCEPT ![NameOf[volId[zvol[p]]]] = NoVol]
                ELSE vHash
    /\ writer' = NoProc
    /\ zvol' = [zvol EXCEPT ![p] = NoVol]
    /\ Goto(p, "idle")
    /\ UNCHANGED <<readers, volId, state, refcount, context, call, id>>

\* The entry is deleted if still nobody wants it, then Unlock.
ReleaseCheck(p) ==
    /\ pc[p] = "relCheck"
    /\ Alive
    /\ vHash' = IF refcount[zvol[p]] = 0 /\ state[zvol[p]] # "created"
                THEN [vHash EXCEPT ![NameOf[volId[zvol[p]]]] = NoVol]
                ELSE vHash
    /\ writer' = NoProc
    /\ zvol' = [zvol EXCEPT ![p] = NoVol]
    /\ Goto(p, "idle")
    /\ UNCHANGED <<readers, volId, state, refcount, context, call, id>>

-----------------------------------------------------------------------------
Acquire(p) == LookupHit(p) \/ LookupMiss(p) \/ NewHit(p) \/ NewMiss(p) \/ LockVolume(p)
Use(p)     == Details(p) \/ (\E s \in States : SetState(p, s)) \/ Finish(p)
Release(p) == ReleaseRef(p) \/ ReleaseFast(p) \/ ReleaseSlow(p) \/ ReleaseCheck(p)
Start(p)   == \E method \in {"lookup", "new"}, i \in VolumeId : Call(p, method, i)

Next == \E p \in Proc : Start(p) \/ Acquire(p) \/ Use(p) \/ Release(p)

(* Goroutines are scheduled, and every handler ends: it works on its       *)
(* volume only so long.                                                    *)
Fairness == \A p \in Proc :
    WF_vars(Acquire(p)) /\ WF_vars(Details(p) \/ Finish(p)) /\ WF_vars(Release(p))

Spec == Init /\ [][Next]_vars

-----------------------------------------------------------------------------
NoNilCtx == \A p \in Proc : CtxOf[p] # NilCtx

\* "Only one request (or Go routine) has access to a volume at any time"
\* (volumes.go:34): two goroutines between lock and unlock are on volumes of
\* different names, even if a place holder was dropped and added again.
ExclusiveAccess ==
    \A p, q \in Proc :
        pc[p] \in Owning /\ pc[q] \in Owning /\ NameFor(p) = NameFor(q) => p = q

\* Unlock never panics with "wrong owner": the goroutine that works on a
\* volume, or is giving it up, is the one recorded in its bolt.
OwnerRecorded ==
    /\ Alive
    /\ \A p \in Proc : pc[p] \in Owning => context[zvol[p]] = CtxOf[p]

\* The goroutines that hold a reference on v: they will call release(ctx).
Users(v) == {p \in Proc : pc[p] \in Counted /\ zvol[p] = v}

\* refcount counts the goroutines that hold a reference, no more, no less:
\* what releaseVolume decides on cannot be off by a forgotten release.
RefcountExact == \A v \in Vol : refcount[v] = Cardinality(Users(v))

\* A goroutine never works on, or waits for, a structure that releaseVolume
\* of another has dropped from the cache: there, a second goroutine would
\* get a second structure and both would talk to the appliance at once.
HeldIsCached ==
    \A p \in Proc : pc[p] \in Referring => vHash[NameFor(p)] = zvol[p]

\* A place holder, or a volume that was deleted, stays in the cache only
\* while a goroutine is there that will take it out: if it stayed, every
\* later request for the name would end with "volume busy".
NoStalePlaceholder ==
    \A n \in Name :
        (vHash[n] # NoVol /\ state[vHash[n]] # "created")
            => \E p \in Proc : pc[p] \in Referring /\ zvol[p] = vHash[n]

\* The volume a request gets from lookupVolume is the one with the ID of the
\* request ("If no volume with a matching ID is found, the appliance is
\* queried", volumes.go:158).
LookupMatchesId ==
    \A p \in Proc : pc[p] = "own" /\ call[p] = "lookup" => volId[zvol[p]] = id[p]

-----------------------------------------------------------------------------
(* The strengthening that makes the invariants above inductive.            *)

\* A goroutine in a method has an ID, and a structure where it needs one.
LocalsSet ==
    \A p \in Proc :
        /\ pc[p] # "idle" => id[p] \in VolumeId
        /\ IF pc[p] \in Referring THEN zvol[p] \in Vol ELSE zvol[p] = NoVol

\* A structure is cached under the name in its ID, so under one name only.
CachedUnderName ==
    \A n \in Name : vHash[n] # NoVol =>
        volId[vHash[n]] \in VolumeId /\ NameOf[volId[vHash[n]]] = n

\* vMutex excludes as a read-write lock does.
MutexExact ==
    /\ readers = {p \in Proc : pc[p] = "relFast"}
    /\ \A p \in Proc : writer = p <=> pc[p] = "relCheck"
    /\ writer # NoProc => readers = {}

OneOwner ==
    \A p, q \in Proc :
        pc[p] \in Owning /\ pc[q] \in Owning /\ zvol[p] = zvol[q] => p = q

\* While a goroutine decides on a structure under the write lock, no other
\* has already decided to.
OneDecides ==
    \A p, q \in Proc : pc[p] = "relLock" /\ pc[q] = "relCheck" => zvol[p] # zvol[q]

\* The fast path leaves a volume that is not created only to a goroutine
\* that waits for it.
LeftToWaiter ==
    \A p \in Proc : pc[p] = "relFast" /\ state[zvol[p]] # "created" =>
        \E q \in Proc : pc[q] = "lock" /\ zvol[q] = zvol[p]

IInv ==
    /\ TypeOK /\ LocalsSet /\ CachedUnderName /\ MutexExact
    /\ OwnerRecorded /\ OneOwner /\ OneDecides /\ LeftToWaiter
    /\ HeldIsCached /\ RefcountExact /\ NoStalePlaceholder

-----------------------------------------------------------------------------
(* One volume name, as the requests see it. *)
Abs(n, p) ==
    CASE pc[p] \in Owning /\ NameFor(p) = n -> "owning"
      [] pc[p] \in {"lookup", "new", "lock"} /\ NameFor(p) = n -> "waiting"
      [] OTHER -> "idle"

NameLock(n) == INSTANCE ExclusiveLock WITH st <- [p \in Proc |-> Abs(n, p)]

\* For each name, asking for a volume, getting it and releasing it is an
\* exclusive lock: every step is one of NameLock(n)!Spec, or changes nothing
\* that it sees.
ImplementsLocks ==
    /\ \A n \in Name : NameLock(n)!Init
    /\ [][\A n \in Name :
            NameLock(n)!Next \/ UNCHANGED [p \in Proc |-> Abs(n, p)]]_vars
=============================================================================
