------------------------- MODULE VolumeServiceProofs -------------------------
(***************************************************************************)
(* The handlers use the volume cache as VolumeCache.tla describes, so they *)
(* inherit what is proved of it in VolumeCacheProofs.tla.  With exclusion  *)
(* per volume, publishing never takes a LUN away from a node, whatever is  *)
(* lost between the driver and the appliance, as long as nobody else       *)
(* changes initiator groups.                                               *)
(***************************************************************************)
EXTENDS VolumeService, VolumeCacheProofs

NoAdmin == AdminGroup = {}

\* The handlers start with an empty cache and nothing to do.
LEMMA ServiceInitInv == ServiceInit => ServiceIInv
<1> SUFFICES ASSUME ServiceInit PROVE ServiceIInv
  OBVIOUS
<1>1. IInv
  BY InitIInv DEF ServiceInit
<1>2. share \in [VolumeId -> Shares \cup {NoShare}]
  BY ServiceAssumption DEF ServiceInit, Shares, Group
<1> QED
  BY <1>1, <1>2 DEF ServiceInit, Init, ServiceIInv, HandlerMatches, StillMasked, Calling, Idle

\* The requests of VolumeService.
LEMMA RequestFacts ==
    ASSUME NEW r \in Requests
    PROVE  /\ r.op \in {"create", "expand", "publish", "unpublish", "delete", "get", "list"}
           /\ r.op # "list" => r.id \in VolumeId
           /\ r.op = "create" => r.range \in Ranges
           /\ r.op = "expand" => r.size \in Capacity
           /\ r.op \in {"publish", "unpublish"} => r.node \in Node
<1>1. CASE r \in [op : {"create"}, id : VolumeId, range : Ranges]
  BY ONLY <1>1
<1>2. CASE r \in [op : {"expand"}, id : VolumeId, size : Capacity]
  BY ONLY <1>2
<1>3. CASE r \in [op : {"publish", "unpublish"}, id : VolumeId, node : Node]
  BY ONLY <1>3
<1>4. CASE r \in [op : {"delete", "get"}, id : VolumeId]
  BY ONLY <1>4
<1>5. CASE r \in [op : {"list"}, block : BOOLEAN]
  BY ONLY <1>5
<1> QED
  BY <1>1, <1>2, <1>3, <1>4, <1>5 DEF Requests

\* In the cache, a goroutine moves only itself.
LEMMA CacheMovesOne ==
    ASSUME TypeOK, NEW p \in Proc,
           Start(p) \/ Acquire(p) \/ Use(p) \/ Release(p) \/ UNCHANGED vars
    PROVE  \A q \in Proc \ {p} :
             pc'[q] = pc[q] /\ call'[q] = call[q] /\ id'[q] = id[q] /\ zvol'[q] = zvol[q]
<1> USE DEF TypeOK, Goto
<1>1. CASE Start(p)
  BY <1>1 DEF Start, Call, cacheVars
<1>2. CASE Acquire(p)
  BY <1>2 DEF Acquire, LookupHit, LookupMiss, NewHit, NewMiss, LockVolume, HoldCached, cacheVars
<1>3. CASE Use(p)
  BY <1>3 DEF Use, Details, SetState, Finish, cacheVars, procVars
<1>4. CASE Release(p)
  BY <1>4 DEF Release, ReleaseRef, ReleaseFast, ReleaseSlow, ReleaseCheck, UnlockPanic, cacheVars
<1>5. CASE UNCHANGED vars
  BY <1>5 DEF vars, procVars
<1> QED
  BY <1>1, <1>2, <1>3, <1>4, <1>5

-----------------------------------------------------------------------------
(* Refinement: what a step of the service does to the cache.               *)

\* The arrival of a request is a call.
LEMMA ArriveCalls ==
    ASSUME NEW p \in Proc, ArriveAny(p)
    PROVE  Start(p) \/ UNCHANGED vars
<1>1. PICK r \in Requests : Arrive(p, r) \/ ArriveList(p, r)
  BY DEF ArriveAny
<1>2. CASE ArriveList(p, r)
  BY <1>2 DEF ArriveList
<1>3. CASE Arrive(p, r)
  <2>1. r.id \in VolumeId
    BY <1>3 DEF Arrive, Requests
  <2> QED
    BY <1>3, <2>1 DEF Arrive, Start
<1> QED
  BY <1>1, <1>2, <1>3

\* A handler uses its volume, or leaves the cache alone.
LEMMA HandleUses ==
    ASSUME NEW p \in Proc, \A item \in todo[p] : item.id \in VolumeId, Handle(p)
    PROVE  Use(p) \/ Start(p) \/ UNCHANGED vars
<1>1. ASSUME NEW o \in Outcome, GetDetails(p, o) PROVE Use(p)
  BY <1>1 DEF GetDetails, Use
<1>2. ASSUME NEW o \in Outcome, CreatePost(p, o) PROVE Use(p) \/ UNCHANGED vars
  BY <1>2 DEF CreatePost, Store, Use, States, Stay, Panic
<1>3. ASSUME NEW o \in Outcome, CreateRefresh(p, o) PROVE Use(p) \/ UNCHANGED vars
  BY <1>3 DEF CreateRefresh, Store, Use, States, Stay
<1>4. ASSUME NEW o \in Outcome, DeleteShare(p, o) PROVE Use(p) \/ UNCHANGED vars
  BY <1>4 DEF DeleteShare, Use, States, Stay
<1>5. ASSUME NEW o \in Outcome,
             ListSnapshots(p, o) \/ PublishGet(p, o) \/ PublishSet(p, o)
               \/ Unpublish(p, o) \/ Expand(p, o) \/ ListShares(p, o)
      PROVE  UNCHANGED vars
  BY <1>5 DEF ListSnapshots, PublishGet, PublishSet, Unpublish, SetGroup, Expand, ListShares,
              Stay, Panic
<1>6. Get(p) => UNCHANGED vars
  BY DEF Get, Stay
<1>7. ListNext(p) => Start(p)
  BY DEF ListNext, Start
<1>8. ListStore(p) => Use(p)
  BY DEF ListStore, Store, Use, States
<1>9. Return(p) => Use(p)
  BY DEF Return, Use
<1> QED
  BY <1>1, <1>2, <1>3, <1>4, <1>5, <1>6, <1>7, <1>8, <1>9 DEF Handle, RestCall

\* What a listing has still to enter has a volume ID.
TodoIds == DOMAIN todo = Proc /\ \A p \in Proc : \A item \in todo[p] : item.id \in VolumeId

\* Only a listing changes what it has still to enter.
LEMMA TodoKeeps ==
    ASSUME TodoIds, [ServiceNext]_allVars
    PROVE  TodoIds'
<1>1. ASSUME NEW p \in Proc, NEW o \in Outcome, ListShares(p, o) PROVE TodoIds'
  <2>1. DOMAIN todo' = Proc /\ \A q \in Proc \ {p} : todo'[q] = todo[q]
    BY <1>1 DEF ListShares, Listed, TodoIds
  <2>2. \A item \in todo'[p] : item.id \in VolumeId
    BY <1>1 DEF ListShares, Listed, TodoIds
  <2> QED
    BY <2>1, <2>2 DEF TodoIds
<1>2. ASSUME NEW p \in Proc, ListNext(p) PROVE TodoIds'
  BY <1>2 DEF ListNext, TodoIds
<1>3. ASSUME NEW p \in Proc, NEW o \in Outcome,
             GetDetails(p, o) \/ CreatePost(p, o) \/ CreateRefresh(p, o)
               \/ ListSnapshots(p, o) \/ DeleteShare(p, o)
      PROVE  todo' = todo
  BY <1>3 DEF GetDetails, CreatePost, CreateRefresh, ListSnapshots, DeleteShare, Reply, Then,
              Panic, handlerVars
<1>4. ASSUME NEW p \in Proc, NEW o \in Outcome,
             PublishGet(p, o) \/ PublishSet(p, o) \/ Unpublish(p, o) \/ Expand(p, o)
      PROVE  todo' = todo
  BY <1>4 DEF PublishGet, PublishSet, Unpublish, SetGroup, Expand, Reply, Then,
              Panic, handlerVars
<1>5. ASSUME NEW p \in Proc, Get(p) \/ ListStore(p) \/ Return(p) PROVE todo' = todo
  BY <1>5 DEF Get, ListStore, Return, Reply, serviceVars, handlerVars
<1>6. ASSUME NEW p \in Proc, ArriveAny(p) \/ Obtain(p) \/ GiveBack(p) PROVE todo' = todo
  BY <1>6 DEF ArriveAny, Arrive, ArriveList, Obtain, Reply, GiveBack
<1>7. Environment \/ UNCHANGED allVars => todo' = todo
  BY DEF Environment, Administer, allVars, serviceVars, handlerVars
<1>8. todo' = todo => TodoIds'
  BY DEF TodoIds
<1> QED
  BY <1>1, <1>2, <1>3, <1>4, <1>5, <1>6, <1>7, <1>8 DEF ServiceNext, Handle, RestCall

\* Every step of the service is a step of the cache, or leaves it alone.
LEMMA ServiceStepIsCacheStep ==
    ASSUME TodoIds, [ServiceNext]_allVars
    PROVE  [Next]_vars
<1>1. ASSUME NEW p \in Proc, ArriveAny(p) PROVE [Next]_vars
  BY <1>1, ArriveCalls DEF Next
<1>2. ASSUME NEW p \in Proc, Obtain(p) PROVE [Next]_vars
  BY <1>2 DEF Obtain, Next, Acquire
<1>3. ASSUME NEW p \in Proc, Handle(p) PROVE [Next]_vars
  BY <1>3, HandleUses DEF Next, TodoIds
<1>4. ASSUME NEW p \in Proc, GiveBack(p) PROVE [Next]_vars
  BY <1>4 DEF GiveBack, Next
<1>5. Environment => [Next]_vars
  BY DEF Environment, Administer
<1>6. UNCHANGED allVars => [Next]_vars
  BY DEF allVars
<1> QED
  BY <1>1, <1>2, <1>3, <1>4, <1>5, <1>6 DEF ServiceNext

-----------------------------------------------------------------------------
(* The invariant of the handlers, one lemma per kind of step.              *)

\* ServiceIInv without the part of the cache.
HandlerInv ==
    /\ share \in [VolumeId -> Shares \cup {NoShare}]
    /\ req \in [Proc -> Requests \cup {Idle}]
    /\ at \in [Proc -> Calling \cup {"list", "done"}]
    /\ DOMAIN todo = Proc /\ \A p \in Proc : \A item \in todo[p] : item.id \in VolumeId
    /\ HandlerMatches
    /\ StillMasked

\* Two handlers at work have different volumes.
LEMMA OwnersDiffer ==
    ASSUME IInv, NEW p \in Proc, NEW q \in Proc, pc[p] = "own", pc[q] = "own", p # q
    PROVE  id[p] # id[q]
  BY DEF IInv, OneOwner, HeldIsCached, NameFor, Owning, Referring, Counted

\* A handler may change the share of its own volume, and must say where it is
\* next; what the others know stays true.
LEMMA OwnShareOnly ==
    ASSUME ServiceIInv, NEW p \in Proc, pc[p] = "own",
           id' = id, pc' = pc,
           \A q \in Proc \ {p} : at'[q] = at[q],
           \A i \in VolumeId \ {id[p]} : share'[i] = share[i],
           at'[p] # "setgroup"
    PROVE  StillMasked'
<1> SUFFICES ASSUME NEW q \in Proc, pc'[q] = "own", at'[q] = "setgroup"
             PROVE  share'[id[q]] = NoShare \/ share'[id[q]].group = MaskAll
  BY DEF StillMasked
<1>1. q # p /\ pc[q] = "own" /\ at[q] = "setgroup"
  OBVIOUS
<1>2. id[q] # id[p]
  BY <1>1, OwnersDiffer DEF ServiceIInv
<1>3. id[q] \in VolumeId
  BY <1>1 DEF ServiceIInv, IInv, LocalsSet
<1> QED
  BY <1>1, <1>2, <1>3 DEF ServiceIInv, StillMasked

\* Arrivals come from idle.
LEMMA ArriveKeeps ==
    ASSUME ServiceIInv, NEW p \in Proc, ArriveAny(p)
    PROVE  HandlerInv'
<1> USE DEF ServiceIInv, HandlerInv
<1>1. PICK r \in Requests : Arrive(p, r) \/ ArriveList(p, r)
  BY DEF ArriveAny
<1>2. CASE ArriveList(p, r)
  <2> USE <1>2 DEF ArriveList, Free, vars, procVars
  <2>1. HandlerMatches' /\ StillMasked'
    BY DEF HandlerMatches, StillMasked
  <2> QED
    BY <2>1
<1>3. CASE Arrive(p, r)
  <2> USE <1>3 DEF Arrive, Free, Call, Goto, cacheVars
  <2>0. \/ r.op = "create" /\ r.range \in Ranges
        \/ r.op = "expand" /\ r.size \in Capacity
        \/ r.op \in {"publish", "unpublish"} /\ r.node \in Node
        \/ r.op \in {"delete", "get"}
    BY RequestFacts
  <2>1. /\ FirstCall(r.op) \in {"post", "snaps", "getgroup", "mask", "modify", "get"}
        /\ FirstCall(r.op) = "post" => r.range \in Ranges
        /\ FirstCall(r.op) = "modify" => r.size \in Capacity
        /\ FirstCall(r.op) = "getgroup" => r.node \in Node
    BY ONLY <2>0 DEF FirstCall
  <2>2. pc'[p] \in {"new", "lookup"} /\ \A q \in Proc \ {p} : pc'[q] = pc[q] /\ id'[q] = id[q]
    BY DEF IInv, TypeOK
  <2>5. /\ req'[p] = r /\ at'[p] = FirstCall(r.op)
        /\ \A q \in Proc \ {p} : req'[q] = req[q] /\ at'[q] = at[q]
    OBVIOUS
  <2>3. HandlerMatches'
    <3>1. ASSUME NEW q \in Proc, q # p
          PROVE  pc'[q] = pc[q] /\ req'[q] = req[q] /\ at'[q] = at[q]
      BY <2>2, <2>5, <3>1
    <3>2. HandlerMatches
      OBVIOUS
    <3>3. /\ at'[p] \notin {"refresh", "list", "done", "snaps2", "delete", "setgroup"}
          /\ at'[p] = "post" => req'[p].range \in Ranges
          /\ at'[p] = "modify" => req'[p].size \in Capacity
          /\ at'[p] = "getgroup" => req'[p].node \in Node
          /\ pc'[p] \in {"new", "lookup"}
      BY <2>1, <2>2, <2>5
    <3>4. ASSUME NEW q \in Proc
          PROVE  /\ at'[q] \in {"post", "refresh"} => req'[q].range \in Ranges
                 /\ at'[q] = "modify" => req'[q].size \in Capacity
                 /\ at'[q] \in {"getgroup", "setgroup"} => req'[q].node \in Node
                 /\ pc'[q] \in {"idle", "release", "relFast", "relLock", "relCheck", "panic"}
                      => at'[q] \in {"list", "done"}
                 /\ at'[q] = "list" => pc'[q] = "idle"
                 /\ at'[q] \in {"refresh", "snaps2", "delete", "setgroup"} => pc'[q] = "own"
      <4>0. q \in Proc
        OBVIOUS
      <4>1. CASE q = p
        BY ONLY <3>3, <4>1
      <4>2. CASE q # p
        <5>1. pc'[q] = pc[q] /\ req'[q] = req[q] /\ at'[q] = at[q]
          BY <3>1, <4>2
        <5> QED
          BY ONLY <5>1, <3>2, <4>0 DEF HandlerMatches
      <4> QED
        BY <4>1, <4>2
    <3> QED
      BY ONLY <3>4 DEF HandlerMatches
  <2>4. StillMasked'
    BY <2>1, <2>2, <2>5 DEF StillMasked
  <2> QED
    BY <2>1, <2>3, <2>4 DEF Calling
<1> QED
  BY <1>1, <1>2, <1>3

\* Getting the volume leaves the next call as it was, or ends with "busy".
LEMMA ObtainKeeps ==
    ASSUME ServiceIInv, NEW p \in Proc, Obtain(p)
    PROVE  HandlerInv'
<1> USE DEF ServiceIInv, HandlerInv
<1>1. /\ id' = id /\ share' = share /\ req' = req /\ todo' = todo
      /\ \A q \in Proc \ {p} : pc'[q] = pc[q] /\ at'[q] = at[q]
      /\ at' \in [Proc -> Calling \cup {"list", "done"}]
      /\ pc[p] \in {"lookup", "new", "lock"}
      /\ \/ pc'[p] \in {"lock", "new", "details", "own"} /\ at'[p] = at[p]
         \/ pc'[p] = "release" /\ at'[p] = "done"
  BY DEF Obtain, LookupHit, LookupMiss, NewHit, HoldCached, NewMiss, LockVolume, Goto, Reply,
         IInv, TypeOK, cacheVars
<1>2. HandlerMatches' /\ StillMasked'
  BY <1>1 DEF HandlerMatches, StillMasked
<1> QED
  BY <1>1, <1>2

\* So does the answer to getDetails.
LEMMA DetailsAnswerKeeps ==
    ASSUME ServiceIInv, NEW p \in Proc, NEW o \in Outcome, GetDetails(p, o)
    PROVE  HandlerInv'
<1> USE DEF ServiceIInv, HandlerInv
<1>1. /\ id' = id /\ share' = share /\ req' = req /\ todo' = todo
      /\ \A q \in Proc \ {p} : pc'[q] = pc[q] /\ at'[q] = at[q]
      /\ at' \in [Proc -> Calling \cup {"list", "done"}]
      /\ pc[p] = "details"
      /\ \/ pc'[p] = "own" /\ at'[p] = at[p]
         \/ pc'[p] = "release" /\ at'[p] = "done"
  BY DEF GetDetails, Details, Goto, Reply, IInv, TypeOK
<1>2. HandlerMatches' /\ StillMasked'
  BY <1>1 DEF HandlerMatches, StillMasked
<1> QED
  BY <1>1, <1>2

\* The end of a request.
LEMMA ReturnKeeps ==
    ASSUME ServiceIInv, NEW p \in Proc, Return(p) \/ GiveBack(p)
    PROVE  HandlerInv'
<1> USE DEF ServiceIInv, HandlerInv
<1>1. /\ id' = id /\ share' = share /\ at' = at /\ todo' = todo
      /\ req' \in [Proc -> Requests \cup {Idle}]
      /\ \A q \in Proc \ {p} : pc'[q] = pc[q] /\ req'[q] = req[q]
      /\ at[p] \in {"list", "done"} /\ pc[p] # "idle"
      /\ pc'[p] \in {"idle", "release", "relFast", "relLock", "relCheck", "panic"}
  BY DEF Return, Finish, GiveBack, Release, ReleaseRef, ReleaseFast, ReleaseSlow, ReleaseCheck,
         UnlockPanic, Goto, IInv, TypeOK, HandlerMatches, serviceVars, handlerVars, cacheVars
<1>2. HandlerMatches' /\ StillMasked'
  BY <1>1 DEF HandlerMatches, StillMasked
<1> QED
  BY <1>1, <1>2
\* Nothing a handler is known by changes.
LEMMA NothingKeeps ==
    ASSUME ServiceIInv, UNCHANGED <<id, pc, req, at, todo, share>>
    PROVE  HandlerInv'
  BY DEF ServiceIInv, HandlerInv, HandlerMatches, StillMasked

\* A handler at work makes a REST call and goes on to c.
LEMMA WorkKeeps ==
    ASSUME ServiceIInv, NEW p \in Proc, pc[p] = "own",
           NEW c \in {"done", "refresh", "snaps2", "delete", "setgroup"},
           UNCHANGED <<id, pc, req, todo>>, at' = [at EXCEPT ![p] = c],
           share' \in [VolumeId -> Shares \cup {NoShare}],
           \A i \in VolumeId \ {id[p]} : share'[i] = share[i],
           c = "refresh" => at[p] = "post",
           c = "setgroup" => at[p] = "getgroup" /\ share' = share /\ share[id[p]].group = MaskAll
    PROVE  HandlerInv'
<1> USE DEF ServiceIInv, HandlerInv
<1>1. at'[p] = c /\ \A q \in Proc \ {p} : at'[q] = at[q]
  OBVIOUS
<1>2. HandlerMatches'
  BY <1>1 DEF HandlerMatches
<1>3. StillMasked'
  <2>1. CASE c # "setgroup"
    BY <1>1, <2>1, OwnShareOnly
  <2>2. CASE c = "setgroup"
    BY <1>1, <2>2 DEF StillMasked
  <2> QED
    BY <2>1, <2>2
<1> QED
  BY <1>2, <1>3 DEF Calling

\* The size of a new share is a number.
LEMMA SizeIsNat ==
    ASSUME NEW range \in Ranges
    PROVE  VolumeSize(range) \in Nat
<1>1. range.required \in Nat /\ range.limit \in Nat /\ DefaultSize \in Nat
  BY ServiceAssumption
<1> QED
  BY <1>1 DEF VolumeSize

\* CreateVolume.
LEMMA CreateKeeps ==
    ASSUME ServiceIInv, NEW p \in Proc, NEW o \in Outcome, CreatePost(p, o) \/ CreateRefresh(p, o)
    PROVE  HandlerInv'
<1>1. pc[p] = "own" /\ at[p] \in {"post", "refresh"}
  BY DEF CreatePost, CreateRefresh, Calls
<1>2. id[p] \in VolumeId /\ req[p].range \in Ranges
  BY <1>1 DEF ServiceIInv, IInv, LocalsSet, HandlerMatches
<1>3. Made(p) \in Shares
  BY <1>2, SizeIsNat DEF Made, Shares, Group
<1>4. /\ share' \in [VolumeId -> Shares \cup {NoShare}]
      /\ \A i \in VolumeId \ {id[p]} : share'[i] = share[i]
  BY <1>2, <1>3 DEF CreatePost, CreateRefresh, ServiceIInv
<1>5. \/ UNCHANGED <<id, pc, req, at, todo, share>>
      \/ /\ UNCHANGED <<id, pc, req, todo>>
         /\ \/ at' = [at EXCEPT ![p] = "done"]
            \/ at[p] = "post" /\ at' = [at EXCEPT ![p] = "refresh"]
  <2>1. CASE CreateRefresh(p, o)
    BY <2>1 DEF CreateRefresh, Store, SetState, Stay, Reply, vars, procVars
  <2>2. CASE CreatePost(p, o)
    <3>1. CASE o = "unauth" /\ IsBlock(p) /\ Panic
      BY <2>2, <3>1 DEF CreatePost, Panic, Performed, vars, procVars, handlerVars
    <3>2. CASE Stay /\ Then(p, "refresh")
      BY <2>2, <3>2 DEF CreatePost, Calls, Stay, Then, vars, procVars
    <3>3. CASE (Stay \/ SetState(p, "deleted") \/ SetState(p, "created"))
                 /\ at' = [at EXCEPT ![p] = "done"] /\ UNCHANGED <<req, todo>>
      BY <3>3 DEF Stay, SetState, vars, procVars
    <3> QED
      BY <2>2, <3>1, <3>2, <3>3 DEF CreatePost, Store, Reply
  <2> QED
    BY <2>1, <2>2
<1> QED
  BY <1>1, <1>4, <1>5, NothingKeeps, WorkKeeps

\* DeleteVolume.
LEMMA DeleteKeeps ==
    ASSUME ServiceIInv, NEW p \in Proc, NEW o \in Outcome, ListSnapshots(p, o) \/ DeleteShare(p, o)
    PROVE  HandlerInv'
<1>1. pc[p] = "own"
  BY DEF ListSnapshots, DeleteShare, Calls
<1>2. id[p] \in VolumeId
  BY <1>1 DEF ServiceIInv, IInv, LocalsSet
<1>3. /\ share' \in [VolumeId -> Shares \cup {NoShare}]
      /\ \A i \in VolumeId \ {id[p]} : share'[i] = share[i]
  BY <1>2 DEF ListSnapshots, DeleteShare, Removed, ServiceIInv
<1>4. /\ UNCHANGED <<id, pc, req, todo>>
      /\ \E c \in {"done", "snaps2", "delete"} : at' = [at EXCEPT ![p] = c]
  BY DEF ListSnapshots, DeleteShare, SetState, Stay, Then, Reply, vars, procVars
<1> QED
  BY <1>1, <1>3, <1>4, WorkKeeps

\* ControllerPublishVolume and ControllerUnpublishVolume.
LEMMA PublishKeeps ==
    ASSUME ServiceIInv, NEW p \in Proc, NEW o \in Outcome,
           PublishGet(p, o) \/ PublishSet(p, o) \/ Unpublish(p, o)
    PROVE  HandlerInv'
<1>1. pc[p] = "own"
  BY DEF PublishGet, PublishSet, Unpublish, Calls
<1>2. id[p] \in VolumeId
  BY <1>1 DEF ServiceIInv, IInv, LocalsSet
<1>3. CASE PublishGet(p, o)
  <2>1. \/ UNCHANGED <<id, pc, req, at, todo, share>>
        \/ /\ UNCHANGED <<id, pc, req, todo, share>>
           /\ at' = [at EXCEPT ![p] = "done"]
        \/ /\ UNCHANGED <<id, pc, req, todo, share>>
           /\ at' = [at EXCEPT ![p] = "setgroup"]
           /\ at[p] = "getgroup" /\ share[id[p]].group = MaskAll
    BY <1>3 DEF PublishGet, GroupOf, Calls, Panic, Stay, Then, Reply, vars, procVars, handlerVars
  <2>2. share' = share => share' \in [VolumeId -> Shares \cup {NoShare}]
    BY DEF ServiceIInv
  <2> QED
    BY <1>1, <2>1, <2>2, NothingKeeps, WorkKeeps
<1>4. ASSUME NEW group \in Group, NEW gone, SetGroup(p, o, group, gone) PROVE HandlerInv'
  <2>1. share[id[p]] # NoShare => share[id[p]] \in Shares
    BY <1>2 DEF ServiceIInv
  <2>2. share[id[p]] # NoShare => [share[id[p]] EXCEPT !.group = group] \in Shares
    BY <2>1, <1>4 DEF Shares
  <2>3. /\ share' \in [VolumeId -> Shares \cup {NoShare}]
        /\ \A i \in VolumeId \ {id[p]} : share'[i] = share[i]
    BY <1>2, <1>4, <2>2 DEF SetGroup, ServiceIInv
  <2>4. UNCHANGED <<id, pc, req, todo>> /\ at' = [at EXCEPT ![p] = "done"]
    BY <1>4 DEF SetGroup, Stay, Reply, vars, procVars
  <2> QED
    BY <1>1, <2>3, <2>4, WorkKeeps
<1>5. CASE PublishSet(p, o)
  <2>1. req[p].node \in Group
    BY <1>5 DEF PublishSet, Calls, ServiceIInv, HandlerMatches, Group
  <2> QED
    BY <1>4, <1>5, <2>1 DEF PublishSet
<1>6. CASE Unpublish(p, o)
  <2>1. CASE IsBlock(p)
    BY <1>4, <1>6, <2>1 DEF Unpublish, Group
  <2>2. CASE ~IsBlock(p)
    <3>1. UNCHANGED <<id, pc, req, todo, share>> /\ at' = [at EXCEPT ![p] = "done"]
      BY <1>6, <2>2 DEF Unpublish, Stay, Reply, vars, procVars
    <3>2. share' \in [VolumeId -> Shares \cup {NoShare}]
      BY <3>1 DEF ServiceIInv
    <3> QED
      BY <1>1, <3>1, <3>2, WorkKeeps
  <2> QED
    BY <2>1, <2>2
<1> QED
  BY <1>3, <1>5, <1>6

\* ControllerExpandVolume, the other look-ups, and the end of a listing's
\* visit to a volume.
LEMMA ExpandKeeps ==
    ASSUME ServiceIInv, NEW p \in Proc, NEW o \in Outcome,
           Expand(p, o) \/ Get(p) \/ ListStore(p)
    PROVE  HandlerInv'
<1>1. pc[p] = "own"
  BY DEF Expand, Get, ListStore, Calls
<1>2. id[p] \in VolumeId
  BY <1>1 DEF ServiceIInv, IInv, LocalsSet
<1>3. UNCHANGED <<id, pc, req, todo>> /\ at' = [at EXCEPT ![p] = "done"]
  BY DEF Expand, Get, ListStore, Store, SetState, Stay, Reply, vars, procVars
<1>4. /\ share' \in [VolumeId -> Shares \cup {NoShare}]
      /\ \A i \in VolumeId \ {id[p]} : share'[i] = share[i]
  <2>1. CASE Expand(p, o)
    <3>1. req[p].size \in Nat
      BY <2>1, ServiceAssumption DEF Expand, Calls, ServiceIInv, HandlerMatches
    <3>2. share[id[p]] # NoShare => [share[id[p]] EXCEPT !.cap = req[p].size] \in Shares
      BY <1>2, <3>1 DEF ServiceIInv, Shares
    <3> QED
      BY <1>2, <2>1, <3>2 DEF Expand, Resized, ServiceIInv
  <2>2. CASE Get(p) \/ ListStore(p)
    BY <2>2 DEF Get, ListStore, ServiceIInv
  <2> QED
    BY <2>1, <2>2
<1> QED
  BY <1>1, <1>3, <1>4, WorkKeeps

\* Listings.
LEMMA ListKeeps ==
    ASSUME ServiceIInv, NEW p \in Proc, NEW o \in Outcome, ListShares(p, o) \/ ListNext(p)
    PROVE  HandlerInv'
<1> USE DEF ServiceIInv, HandlerInv
<1>1. CASE ListShares(p, o)
  <2>1. /\ UNCHANGED <<share, id, pc>> /\ pc[p] = "idle"
        /\ at' = [at EXCEPT ![p] = "done"]
        /\ req' = req \/ req' = [req EXCEPT ![p] = Idle]
    BY <1>1 DEF ListShares, vars, procVars
  <2>2. DOMAIN todo' = Proc /\ \A q \in Proc : \A item \in todo'[q] : item.id \in VolumeId
    <3>1. DOMAIN todo' = Proc /\ \A q \in Proc \ {p} : todo'[q] = todo[q]
      BY <1>1 DEF ListShares, Listed
    <3>2. \A item \in todo'[p] : item.id \in VolumeId
      BY <1>1 DEF ListShares, Listed
    <3> QED
      BY <3>1, <3>2
  <2>3. HandlerMatches' /\ StillMasked'
    BY <2>1 DEF HandlerMatches, StillMasked
  <2> QED
    BY <2>1, <2>2, <2>3
<1>2. CASE ListNext(p)
  <2>1. PICK item \in todo[p] :
          /\ Call(p, "new", item.id)
          /\ todo' = [todo EXCEPT ![p] = @ \ {item}]
    BY <1>2 DEF ListNext
  <2>2. /\ UNCHANGED <<share, req>>
        /\ at'[p] = "store" /\ pc'[p] = "new"
        /\ \A q \in Proc \ {p} : at'[q] = at[q] /\ pc'[q] = pc[q] /\ id'[q] = id[q]
        /\ at' \in [Proc -> Calling \cup {"list", "done"}]
    BY <1>2, <2>1 DEF ListNext, Call, Goto, Calling, IInv, TypeOK
  <2>3. DOMAIN todo' = Proc /\ \A q \in Proc : \A i \in todo'[q] : i.id \in VolumeId
    BY <2>1
  <2>4. HandlerMatches' /\ StillMasked'
    BY <2>2 DEF HandlerMatches, StillMasked
  <2> QED
    BY <2>2, <2>3, <2>4
<1> QED
  BY <1>1, <1>2

\* Every step of a goroutine keeps the invariant: the cache's part by the
\* refinement.
LEMMA GoroutineKeeps ==
    ASSUME NoNilCtx, ServiceIInv, NEW p \in Proc,
           ArriveAny(p) \/ Obtain(p) \/ GiveBack(p) \/ Handle(p)
    PROVE  ServiceIInv'
<1>1. IInv'
  BY StepIInv, ServiceStepIsCacheStep DEF ServiceIInv, TodoIds, ServiceNext
<1>2. HandlerInv'
  <2>1. "answered" \in Outcome
    BY DEF Outcome
  <2>2. CASE \E o \in Outcome : GetDetails(p, o)
    BY <2>2, DetailsAnswerKeeps
  <2>3. CASE \E o \in Outcome : CreatePost(p, o) \/ CreateRefresh(p, o)
    BY <2>3, CreateKeeps
  <2>4. CASE \E o \in Outcome : ListSnapshots(p, o) \/ DeleteShare(p, o)
    BY <2>4, DeleteKeeps
  <2>5. CASE \E o \in Outcome : PublishGet(p, o) \/ PublishSet(p, o) \/ Unpublish(p, o)
    BY <2>5, PublishKeeps
  <2>6. CASE \E o \in Outcome : Expand(p, o) \/ Get(p) \/ ListStore(p)
    BY <2>6, ExpandKeeps
  <2>7. CASE \E o \in Outcome : ListShares(p, o) \/ ListNext(p)
    BY <2>7, ListKeeps
  <2> QED
    BY <2>1, <2>2, <2>3, <2>4, <2>5, <2>6, <2>7, ArriveKeeps, ObtainKeeps, ReturnKeeps
       DEF Handle, RestCall
<1> QED
  BY <1>1, <1>2 DEF ServiceIInv, HandlerInv

\* So does a step in which nothing happens.
LEMMA StutterKeeps ==
    ASSUME NoNilCtx, ServiceIInv, UNCHANGED allVars
    PROVE  ServiceIInv'
<1>1. IInv'
  BY StepIInv DEF ServiceIInv, allVars
<1>2. HandlerInv'
  BY NothingKeeps DEF allVars, vars, procVars, serviceVars, handlerVars
<1> QED
  BY <1>1, <1>2 DEF ServiceIInv, HandlerInv

\* Every step keeps it, as long as nobody else changes initiator groups.
LEMMA StepServiceIInv ==
    ASSUME NoNilCtx, NoAdmin, ServiceIInv, [ServiceNext]_allVars
    PROVE  ServiceIInv'
<1>1. ~Environment
  BY DEF Environment, NoAdmin
<1> QED
  BY <1>1, GoroutineKeeps, StutterKeeps DEF ServiceNext

-----------------------------------------------------------------------------
\* A step that gives a LUN to a node finds it masked, or with that node.
LEMMA StepStealsNothing ==
    ASSUME NoAdmin, ServiceIInv, [ServiceNext]_allVars, NEW i \in BlockId,
           share[i] # NoShare, share'[i] # NoShare, share'[i].group \in Node
    PROVE  share[i].group \in {MaskAll, share'[i].group}
<1>1. i \in VolumeId /\ share[i] \in Shares /\ MaskAll \notin Node
  BY ServiceAssumption DEF ServiceIInv
<1>2. share'[i].group = share[i].group \/ share[i].group = MaskAll
  <2>1. ASSUME NEW p \in Proc, NEW o \in Outcome, CreatePost(p, o) PROVE share'[i] = share[i]
    BY <1>1, <2>1 DEF CreatePost, ServiceIInv
  <2>2. ASSUME NEW p \in Proc, NEW o \in Outcome, DeleteShare(p, o) PROVE share'[i] = share[i]
    BY <1>1, <2>2 DEF DeleteShare, Removed, ServiceIInv
  <2>3. ASSUME NEW p \in Proc, NEW o \in Outcome, PublishSet(p, o)
        PROVE  share'[i] = share[i] \/ share[i].group = MaskAll
    <3>1. pc[p] = "own" /\ at[p] = "setgroup"
      BY <2>3 DEF PublishSet, Calls
    <3>2. share[id[p]] = NoShare \/ share[id[p]].group = MaskAll
      BY <3>1 DEF ServiceIInv, StillMasked
    <3>3. i # id[p] => share'[i] = share[i]
      BY <1>1, <2>3 DEF PublishSet, SetGroup, ServiceIInv
    <3> QED
      BY <3>2, <3>3
  <2>4. ASSUME NEW p \in Proc, NEW o \in Outcome, Unpublish(p, o) PROVE share'[i] = share[i]
    BY <1>1, <2>4 DEF Unpublish, SetGroup, ServiceIInv, Shares
  <2>5. ASSUME NEW p \in Proc, NEW o \in Outcome, Expand(p, o)
        PROVE  share'[i].group = share[i].group
    <3>1. \/ share' = share
          \/ share' = [share EXCEPT ![id[p]].cap = req[p].size]
      BY <2>5 DEF Expand, Resized
    <3> QED
      BY <1>1, <3>1 DEF ServiceIInv, Shares
  <2>6. ASSUME NEW p \in Proc, NEW o \in Outcome,
               GetDetails(p, o) \/ CreateRefresh(p, o) \/ ListSnapshots(p, o)
                 \/ PublishGet(p, o) \/ ListShares(p, o)
        PROVE  share' = share
    BY <2>6 DEF GetDetails, CreateRefresh, ListSnapshots, PublishGet, ListShares
  <2>7. ASSUME NEW p \in Proc, Get(p) \/ ListNext(p) \/ ListStore(p) \/ Return(p)
        PROVE  share' = share
    BY <2>7 DEF Get, ListNext, ListStore, Return, serviceVars
  <2>8. ASSUME NEW p \in Proc, ArriveAny(p) \/ Obtain(p) \/ GiveBack(p) PROVE share' = share
    BY <2>8 DEF ArriveAny, Arrive, ArriveList, Obtain, GiveBack
  <2>9. ~Environment
    BY DEF Environment, NoAdmin
  <2>10. UNCHANGED allVars => share' = share
    BY DEF allVars, serviceVars
  <2> QED
    BY <2>1, <2>2, <2>3, <2>4, <2>5, <2>6, <2>7, <2>8, <2>9, <2>10 DEF ServiceNext, Handle, RestCall
<1> QED
  BY <1>2

-----------------------------------------------------------------------------
\* ServiceIInv holds in every state: in particular, the test of publish still
\* holds when it sets the initiator group.
THEOREM ServiceInvariant == NoNilCtx /\ NoAdmin => (ServiceSpec => []ServiceIInv)
<1> SUFFICES ASSUME NoNilCtx, NoAdmin
             PROVE  ServiceSpec => []ServiceIInv
  OBVIOUS
<1>1. ServiceIInv /\ [ServiceNext]_allVars => ServiceIInv'
  BY StepServiceIInv
<1> QED
  BY ServiceInitInv, <1>1, PTL DEF ServiceSpec

\* No request, whatever runs at the same time and whatever is lost between
\* the driver and the appliance, takes a LUN away from a node
\* (controllerPublishVolume, controller_block.go:181).
THEOREM ServiceNeverSteals == NoNilCtx /\ NoAdmin => (ServiceSpec => NeverStolen)
<1> SUFFICES ASSUME NoNilCtx, NoAdmin
             PROVE  ServiceSpec => NeverStolen
  OBVIOUS
<1> DEFINE Kept == \A i \in BlockId :
                     (share[i] # NoShare /\ share'[i] # NoShare /\ share'[i].group \in Node)
                       => share[i].group \in {MaskAll, share'[i].group}
<1>1. ServiceIInv /\ [ServiceNext]_allVars => ServiceIInv'
  BY StepServiceIInv
<1>2. ServiceIInv /\ [ServiceNext]_allVars => Kept
  BY StepStealsNothing
<1> QED
  BY ServiceInitInv, <1>1, <1>2, PTL DEF ServiceSpec, NeverStolen

\* The handlers use the cache as VolumeCache.tla says, whatever happens on
\* the appliance.
THEOREM ServiceImplementsCache == ServiceSpec => ImplementsCache
<1>1. ServiceInit => Init /\ TodoIds
  BY DEF ServiceInit, TodoIds
<1>2. TodoIds /\ [ServiceNext]_allVars => TodoIds' /\ [Next]_vars
  BY TodoKeeps, ServiceStepIsCacheStep
<1> QED
  BY <1>1, <1>2, PTL DEF ServiceSpec, ImplementsCache, Spec

\* So two requests never work on volumes of one name at the same time.
THEOREM ServiceExclusive == NoNilCtx => (ServiceSpec => []ExclusiveAccess)
  BY ServiceImplementsCache, CacheExclusive, PTL DEF ImplementsCache
=============================================================================
