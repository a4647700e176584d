------------------------- MODULE VolumeAnswersProofs -------------------------
(***************************************************************************)
(* What the volume methods answer is true: a volume that is published is   *)
(* granted to its node, one that is unpublished is masked, and one that is *)
(* deleted is gone when the reply leaves, whatever other requests do and   *)
(* whatever was lost before.  It holds as long as nobody else changes      *)
(* initiator groups, and no call is refused twice with status 401.         *)
(***************************************************************************)
EXTENDS VolumeServiceProofs, VolumeHistory

NoUnauth == "unauth" \notin Faults

\* No request has a minimum above its maximum.
RangesConsistent ==
    \A r \in Ranges : r.required = 0 \/ r.limit = 0 \/ r.required <= r.limit

Asking == {"snaps", "snaps2", "delete"}

\* Who has replied is about to release its volume, or just has.
RepliedAt(p) ==
    reply[p] # "none" =>
        /\ at[p] = "done"
        /\ pc[p] \in {"own", "release", "relFast", "relLock", "relCheck", "panic"}

\* DeleteVolume and ControllerExpandVolume work on a volume that is known.
AsksOfCreated(p) ==
    at[p] \in Asking \cup {"modify"} => call[p] = "lookup" /\ (pc[p] = "own" => state[zvol[p]] = "created")

\* What CreateVolume compares with an existing share it did not know is not
\* enough to accept it.
PostOfUnknown(p) ==
    at[p] = "post" /\ pc[p] = "own" /\ state[zvol[p]] # "created" => ~info[zvol[p]].modes

\* The next call of a handler belongs to its request.
OpMatches(p) ==
    /\ at[p] \in {"post", "refresh"} => req[p].op = "create"
    /\ at[p] \in Asking => req[p].op = "delete"
    /\ at[p] \in {"getgroup", "setgroup"} => req[p].op = "publish"
    /\ at[p] = "setgroup" => IsBlock(p)
    /\ at[p] = "mask" => req[p].op = "unpublish"
    /\ at[p] = "modify" => req[p].op = "expand"
    /\ at[p] = "get" => req[p].op = "get"
    /\ at[p] \in {"list", "store"} \/ todo[p] # {} => req[p].op = "list"

\* The answers of p are true.
AnswersTrue(p) ==
    /\ AboutTo(p, "publish", "ok") /\ IsBlock(p) =>
         share[id[p]] # NoShare /\ share[id[p]].group = req[p].node
    /\ AboutTo(p, "unpublish", "ok") /\ IsBlock(p) =>
         share[id[p]] = NoShare \/ share[id[p]].group = MaskAll
    /\ AboutTo(p, "delete", "ok") => share[id[p]] = NoShare
    /\ RangesConsistent /\ AboutTo(p, "create", "ok") =>
         /\ share[id[p]] # NoShare
         /\ Fits(req[p].range, share[id[p]].cap)
         /\ info[zvol[p]].cap = share[id[p]].cap

HandlerAnswers(p) ==
    RepliedAt(p) /\ AsksOfCreated(p) /\ PostOfUnknown(p) /\ OpMatches(p) /\ AnswersTrue(p)

\* A filesystem has no initiator group, so what the appliance tells of it is
\* never taken for nothing.
FilesystemsMasked ==
    \A i \in VolumeId \ BlockId : share[i] # NoShare => share[i].group = MaskAll

\* A filesystem that is known is known with its href.
HrefKnown ==
    \A v \in Vol : state[v] = "created" /\ volId[v] \notin BlockId => info[v].href

InfoInv ==
    /\ DOMAIN info = Vol
    /\ \A v \in Vol : "href" \in DOMAIN info[v]
    /\ HrefKnown

AnswerIInv ==
    /\ ServiceIInv
    /\ DOMAIN reply = Proc
    /\ \A p \in Proc : HandlerAnswers(p)
    /\ FilesystemsMasked
    /\ InfoInv

-----------------------------------------------------------------------------
(* What a step of one handler leaves alone.                                *)

\* What the handler of p may do to the rest of the service.
MovesOne(p) ==
    /\ DOMAIN reply' = Proc
    /\ \A q \in Proc \ {p} :
         /\ pc'[q] = pc[q] /\ call'[q] = call[q] /\ id'[q] = id[q] /\ zvol'[q] = zvol[q]
         /\ req'[q] = req[q] /\ at'[q] = at[q] /\ reply'[q] = reply[q] /\ todo'[q] = todo[q]

\* It changes its own structure, or takes an unused one.
StructMoves(p) ==
    \/ UNCHANGED <<state, info>>
    \/ pc[p] \in {"own", "details"}
         /\ \A v \in Vol \ {zvol[p]} : state'[v] = state[v] /\ info'[v] = info[v]
    \/ \A v \in Vol : ~Unused(v) => state'[v] = state[v] /\ info'[v] = info[v]

\* The structures of the others are theirs.
LEMMA OtherStructStays ==
    ASSUME ServiceIInv, NEW p \in Proc, NEW q \in Proc, q # p, StructMoves(p), pc[q] \in Owning
    PROVE  state'[zvol[q]] = state[zvol[q]] /\ info'[zvol[q]] = info[zvol[q]]
<1>1. zvol[q] \in Vol
  BY DEF ServiceIInv, IInv, LocalsSet, Referring, Counted, Owning
<1>2. pc[p] \in {"own", "details"} => zvol[p] # zvol[q]
  BY DEF ServiceIInv, IInv, OneOwner, Owning
<1>3. ~Unused(zvol[q])
  BY DEF Unused
<1> QED
  BY <1>1, <1>2, <1>3 DEF StructMoves

\* The shares of the others are theirs.
LEMMA OtherShareStays ==
    ASSUME ServiceIInv, NEW p \in Proc, NEW q \in Proc, q # p, pc[q] \in Owning,
           \/ share' = share
           \/ pc[p] = "own" /\ \A i \in VolumeId \ {id[p]} : share'[i] = share[i]
    PROVE  share'[id[q]] = share[id[q]]
<1> SUFFICES ASSUME pc[p] = "own", \A i \in VolumeId \ {id[p]} : share'[i] = share[i]
             PROVE  share'[id[q]] = share[id[q]]
  OBVIOUS
<1>1. id[q] \in VolumeId
  BY DEF ServiceIInv, IInv, LocalsSet, Owning
<1>2. id[q] # id[p]
  BY DEF ServiceIInv, IInv, OneOwner, HeldIsCached, NameFor, Owning, Referring, Counted
<1> QED
  BY <1>1, <1>2

\* The answers of the others stay true: they have other volumes.
LEMMA OthersStayTrue ==
    ASSUME ServiceIInv, NEW p \in Proc, NEW q \in Proc, q # p, MovesOne(p), AnswersTrue(q),
           StructMoves(p),
           \/ share' = share
           \/ pc[p] = "own" /\ \A i \in VolumeId \ {id[p]} : share'[i] = share[i]
    PROVE  AnswersTrue(q)'
<1>1. /\ pc'[q] = pc[q] /\ id'[q] = id[q] /\ req'[q] = req[q] /\ reply'[q] = reply[q]
      /\ zvol'[q] = zvol[q]
  BY DEF MovesOne
<1>2. pc[q] \in Owning => share'[id[q]] = share[id[q]]
  BY OtherShareStays
<1>3. pc[q] \in Owning => info'[zvol[q]] = info[zvol[q]]
  BY OtherStructStays
<1> QED
  BY <1>1, <1>2, <1>3 DEF AnswersTrue, AboutTo, IsBlock

\* So do their other parts, if only the structure of p changes its state.
LEMMA OtherHandlersStay ==
    ASSUME ServiceIInv, NEW p \in Proc, NEW q \in Proc, q # p, MovesOne(p), HandlerAnswers(q),
           \/ share' = share
           \/ pc[p] = "own" /\ \A i \in VolumeId \ {id[p]} : share'[i] = share[i],
           StructMoves(p)
    PROVE  HandlerAnswers(q)'
<1>1. AnswersTrue(q)'
  BY OthersStayTrue DEF HandlerAnswers
<1>2. /\ pc'[q] = pc[q] /\ call'[q] = call[q] /\ at'[q] = at[q]
      /\ reply'[q] = reply[q] /\ zvol'[q] = zvol[q]
      /\ req'[q] = req[q] /\ todo'[q] = todo[q] /\ id'[q] = id[q]
  BY DEF MovesOne
<1>3. RepliedAt(q)'
  BY <1>2 DEF HandlerAnswers, RepliedAt
<1>4. pc[q] = "own" =>
        state'[zvol[q]] = state[zvol[q]] /\ info'[zvol[q]] = info[zvol[q]]
  BY OtherStructStays DEF Owning
<1>5. AsksOfCreated(q)'
  BY <1>2, <1>4 DEF HandlerAnswers, AsksOfCreated
<1>6. OpMatches(q)'
  BY <1>2 DEF HandlerAnswers, OpMatches, IsBlock
<1>7. PostOfUnknown(q)'
  BY <1>2, <1>4 DEF HandlerAnswers, PostOfUnknown
<1> QED
  BY <1>1, <1>3, <1>5, <1>6, <1>7 DEF HandlerAnswers

\* What the step of p must keep for the whole invariant to stay.
Keeps(p) ==
    /\ MovesOne(p)
    /\ HandlerAnswers(p)'
    /\ FilesystemsMasked'
    /\ InfoInv'
    /\ \/ share' = share
       \/ pc[p] = "own" /\ \A i \in VolumeId \ {id[p]} : share'[i] = share[i]
    /\ StructMoves(p)

LEMMA KeepsAll ==
    ASSUME AnswerIInv, ServiceIInv', NEW p \in Proc, Keeps(p)
    PROVE  AnswerIInv'
<1>1. ASSUME NEW q \in Proc PROVE HandlerAnswers(q)'
  <2>1. CASE q = p
    BY <2>1 DEF Keeps
  <2>2. CASE q # p
    BY <2>2, OtherHandlersStay DEF Keeps, AnswerIInv
  <2> QED
    BY <2>1, <2>2
<1> QED
  BY <1>1 DEF Keeps, MovesOne, AnswerIInv

\* The structure of a volume was made for its ID.
LEMMA MadeForIt ==
    ASSUME IInv, NEW p \in Proc, pc[p] \in Referring
    PROVE  zvol[p] \in Vol /\ id[p] \in VolumeId /\ volId[zvol[p]] = id[p]
<1>1. zvol[p] \in Vol /\ id[p] \in VolumeId
  BY DEF IInv, LocalsSet, Referring, Counted
<1>2. vHash[NameOf[id[p]]] = zvol[p] /\ NameOf[id[p]] \in Name
  BY <1>1, CacheAssumption DEF IInv, HeldIsCached, NameFor
<1>3. volId[zvol[p]] \in VolumeId /\ NameOf[volId[zvol[p]]] = NameOf[id[p]]
  BY <1>1, <1>2, CacheAssumption DEF IInv, CachedUnderName
<1> QED
  BY <1>1, <1>3, NamesAssumption

\* Of what is known of structures, nothing changes.
LEMMA InfoStays ==
    ASSUME InfoInv, UNCHANGED <<info, state, volId>>
    PROVE  InfoInv'
  BY DEF InfoInv, HrefKnown

\* A handler stores what it learned of its volume.
LEMMA InfoOfMine ==
    ASSUME AnswerIInv, NEW p \in Proc, pc[p] \in {"own", "details"},
           volId' = volId,
           \A v \in Vol \ {zvol[p]} : state'[v] = state[v],
           NEW x, info' = [info EXCEPT ![zvol[p]] = x], "href" \in DOMAIN x,
           ~IsBlock(p) /\ state'[zvol[p]] = "created" => x.href
    PROVE  InfoInv'
<1>1. zvol[p] \in Vol /\ volId[zvol[p]] = id[p]
  BY MadeForIt DEF AnswerIInv, ServiceIInv, Referring, Counted
<1> QED
  BY <1>1 DEF AnswerIInv, InfoInv, HrefKnown, IsBlock

\* setInfo with what the appliance says of the volume.
LEMMA StoreKeepsInfo ==
    ASSUME AnswerIInv, NEW p \in Proc, NEW share1, Store(p, share1),
           ~IsBlock(p) => share1 # Nothing
    PROVE  InfoInv'
<1> DEFINE x == [cap |-> share1.cap,
                 modes |-> IF IsBlock(p) THEN info[zvol[p]].modes ELSE TRUE,
                 href |-> share1 # Nothing]
<1>1. info' = [info EXCEPT ![zvol[p]] = x]
  BY DEF Store, SetInfo
<1>2. "href" \in DOMAIN x /\ (~IsBlock(p) => x.href)
  OBVIOUS
<1>3. /\ volId' = volId /\ pc[p] = "own"
      /\ \A v \in Vol \ {zvol[p]} : state'[v] = state[v]
  BY DEF Store, SetState, AnswerIInv, ServiceIInv, IInv, TypeOK
<1> HIDE DEF x
<1> QED
  BY <1>1, <1>2, <1>3, InfoOfMine

\* A volume that is dropped is not known any more.
LEMMA DropKeepsInfo ==
    ASSUME AnswerIInv, NEW p \in Proc, SetState(p, "deleted"), info' = info
    PROVE  InfoInv'
  BY DEF SetState, AnswerIInv, ServiceIInv, IInv, TypeOK, InfoInv, HrefKnown

\* A handler at work changes the state of its own structure only.
LEMMA StateOfMine ==
    ASSUME AnswerIInv, NEW p \in Proc, NEW st, SetState(p, st)
    PROVE  /\ UNCHANGED procVars
           /\ \A v \in Vol \ {zvol[p]} : state'[v] = state[v]
  BY DEF SetState, AnswerIInv, ServiceIInv, IInv, TypeOK

\* setInfo changes that structure only, which has the capacity of the share.
LEMMA StoreMoves ==
    ASSUME AnswerIInv, NEW p \in Proc, NEW share1, Store(p, share1)
    PROVE  StructMoves(p) /\ info'[zvol[p]].cap = share1.cap /\ UNCHANGED procVars
<1> DEFINE x == [cap |-> share1.cap,
                 modes |-> IF IsBlock(p) THEN info[zvol[p]].modes ELSE TRUE,
                 href |-> share1 # Nothing]
<1>1. pc[p] = "own" /\ info' = [info EXCEPT ![zvol[p]] = x] /\ x.cap = share1.cap
  BY DEF Store, SetInfo, SetState
<1>2. zvol[p] \in Vol /\ DOMAIN info = Vol
  BY <1>1, MadeForIt DEF AnswerIInv, ServiceIInv, InfoInv, Referring, Counted
<1>3. UNCHANGED procVars /\ \A v \in Vol \ {zvol[p]} : state'[v] = state[v]
  BY StateOfMine DEF Store
<1> HIDE DEF x
<1> QED
  BY <1>1, <1>2, <1>3 DEF StructMoves

\* A new share has a size in the range of the request.
LEMMA MadeFits ==
    ASSUME RangesConsistent, NEW p \in Proc, req[p].range \in Ranges
    PROVE  Made(p) # NoShare /\ Fits(req[p].range, Made(p).cap)
<1> DEFINE r == req[p].range
<1>1. r.required \in Nat /\ r.limit \in Nat /\ DefaultSize \in Nat
  BY ServiceAssumption
<1>2. r.required = 0 \/ r.limit = 0 \/ r.required <= r.limit
  BY DEF RangesConsistent
<1>3. VolumeSize(r) \in Nat /\ Fits(r, VolumeSize(r))
  BY <1>1, <1>2 DEF VolumeSize, Fits
<1>4. Made(p) \in Shares
  BY <1>3 DEF Made, Shares, Group
<1>5. Made(p) # NoShare
  BY <1>4, ServiceAssumption DEF Shares, Group
<1> QED
  BY <1>3, <1>5 DEF Made

\* A handler at work goes on to its next call, without a reply.
LEMMA GoOn ==
    ASSUME AnswerIInv, NEW p \in Proc, pc[p] = "own", at[p] # "done",
           procVars' = procVars, req' = req, todo' = todo, reply' = reply,
           NEW c \in Calling \cup {"done"}, at' = [at EXCEPT ![p] = c],
           \/ c = "done"
           \/ at[p] \in Asking /\ c \in Asking /\ state' = state
           \/ at[p] = "post" /\ c = "refresh"
           \/ at[p] = "getgroup" /\ c = "setgroup" /\ IsBlock(p)
    PROVE  MovesOne(p) /\ HandlerAnswers(p)'
<1>1. at'[p] = c /\ \A q \in Proc \ {p} : at'[q] = at[q]
  BY DEF AnswerIInv, ServiceIInv
<1>2. reply'[p] = "none"
  BY DEF AnswerIInv, HandlerAnswers, RepliedAt
<1>3. MovesOne(p)
  BY <1>1 DEF MovesOne, procVars, AnswerIInv
<1>4. RepliedAt(p)' /\ AnswersTrue(p)'
  BY <1>2 DEF RepliedAt, AnswersTrue, AboutTo
<1>5. AsksOfCreated(p)'
  BY <1>1 DEF AsksOfCreated, Asking, AnswerIInv, HandlerAnswers, procVars
<1>6. OpMatches(p)'
  BY <1>1 DEF OpMatches, Asking, AnswerIInv, HandlerAnswers, IsBlock, procVars
<1>7. PostOfUnknown(p)'
  BY <1>1 DEF PostOfUnknown, Asking
<1> QED
  BY <1>3, <1>4, <1>5, <1>6, <1>7 DEF HandlerAnswers

\* A handler at work replies.
LEMMA ReplyKeeps ==
    ASSUME AnswerIInv, NEW p \in Proc, pc[p] = "own",
           UNCHANGED procVars, NEW r, Reply(p, r),
           r = "ok" /\ req[p].op \in {"create", "publish", "unpublish", "delete"} => AnswersTrue(p)'
    PROVE  MovesOne(p) /\ HandlerAnswers(p)'
<1>1. /\ at'[p] = "done" /\ reply'[p] = r /\ DOMAIN reply' = Proc /\ UNCHANGED <<req, todo>>
      /\ \A q \in Proc \ {p} : at'[q] = at[q] /\ reply'[q] = reply[q]
  BY DEF Reply, AnswerIInv, ServiceIInv
<1>2. MovesOne(p)
  BY <1>1 DEF MovesOne, procVars
<1>3. RepliedAt(p)' /\ AsksOfCreated(p)' /\ PostOfUnknown(p)'
  BY <1>1 DEF RepliedAt, AsksOfCreated, PostOfUnknown, Asking, procVars
<1>4. OpMatches(p)'
  BY <1>1 DEF OpMatches, Asking, AnswerIInv, HandlerAnswers
<1>5. AnswersTrue(p)'
  BY <1>1 DEF AnswersTrue, AboutTo
<1> QED
  BY <1>2, <1>3, <1>4, <1>5 DEF HandlerAnswers

-----------------------------------------------------------------------------
(* One lemma per kind of step.                                             *)

\* Requests arrive without a reply.
LEMMA ArrivalAnswers ==
    ASSUME AnswerIInv, NEW p \in Proc, ArriveAny(p)
    PROVE  Keeps(p)
<1>1. PICK r \in Requests : Arrive(p, r) \/ ArriveList(p, r)
  BY DEF ArriveAny
<1>2. /\ Free(p) /\ UNCHANGED <<cacheVars, zvol, share, info, todo, reply>>
      /\ req' = [req EXCEPT ![p] = r]
      /\ at' = [at EXCEPT ![p] = FirstCall(r.op)]
  BY <1>1 DEF Arrive, ArriveList, Call, vars, procVars, FirstCall
<1>3. MovesOne(p)
  <2>1. TypeOK
    BY DEF AnswerIInv, ServiceIInv, IInv
  <2>2. \A q \in Proc \ {p} :
          pc'[q] = pc[q] /\ call'[q] = call[q] /\ id'[q] = id[q] /\ zvol'[q] = zvol[q]
    BY <2>1, CacheMovesOne, ArriveCalls
  <2> QED
    BY <1>2, <2>2 DEF MovesOne, AnswerIInv, ServiceIInv
<1>4. reply'[p] = "none" /\ todo'[p] = {}
  BY <1>2 DEF Free, AnswerIInv, HandlerAnswers, RepliedAt
<1>5. RepliedAt(p)' /\ AnswersTrue(p)'
  BY <1>4 DEF RepliedAt, AnswersTrue, AboutTo
<1>6. at'[p] = FirstCall(r.op) /\ req'[p] = r
  BY <1>2 DEF AnswerIInv, ServiceIInv
<1>7. r.op \in {"create", "expand", "publish", "unpublish", "delete", "get", "list"}
  BY RequestFacts
<1>8. OpMatches(p)'
  BY <1>4, <1>6, <1>7 DEF OpMatches, Asking, FirstCall
<1>9. AsksOfCreated(p)'
  <2>1. CASE r.op \in {"delete", "expand"}
    <3>1. Call(p, "lookup", r.id)
      BY <1>1, <2>1 DEF Arrive, ArriveList
    <3>2. call'[p] = "lookup" /\ pc'[p] = "lookup"
      BY <3>1 DEF Call, Goto, AnswerIInv, ServiceIInv, IInv, TypeOK
    <3> QED
      BY <3>2 DEF AsksOfCreated
  <2>2. CASE r.op \notin {"delete", "expand"}
    BY <1>6, <1>7, <2>2 DEF AsksOfCreated, Asking, FirstCall
  <2> QED
    BY <2>1, <2>2
<1>10. PostOfUnknown(p)'
  <2>1. pc'[p] # "own"
    BY <1>1 DEF Arrive, ArriveList, Call, Goto, Free, vars, procVars,
                AnswerIInv, ServiceIInv, IInv, TypeOK
  <2> QED
    BY <2>1 DEF PostOfUnknown
<1>11. FilesystemsMasked' /\ InfoInv'
  BY <1>2, InfoStays DEF AnswerIInv, FilesystemsMasked, cacheVars
<1> QED
  BY <1>2, <1>3, <1>5, <1>8, <1>9, <1>10, <1>11 DEF Keeps, StructMoves, HandlerAnswers, cacheVars

\* The volume is looked up: it is known, or new, or the reply is "busy".
LEMMA ObtainAnswers ==
    ASSUME AnswerIInv, NEW p \in Proc, Obtain(p)
    PROVE  Keeps(p)
<1>0. TypeOK /\ DOMAIN at = Proc /\ DOMAIN reply = Proc /\ HandlerAnswers(p)
  BY DEF AnswerIInv, ServiceIInv, IInv
<1>1. MovesOne(p)
  <2>1. \A q \in Proc \ {p} :
          pc'[q] = pc[q] /\ call'[q] = call[q] /\ id'[q] = id[q] /\ zvol'[q] = zvol[q]
    BY <1>0, CacheMovesOne DEF Obtain, Acquire
  <2>2. DOMAIN reply' = Proc
        /\ \A q \in Proc \ {p} : req'[q] = req[q] /\ at'[q] = at[q] /\ reply'[q] = reply[q]
                                   /\ todo'[q] = todo[q]
    BY <1>0 DEF Obtain, Reply
  <2> QED
    BY <2>1, <2>2 DEF MovesOne
<1>2. pc[p] \in {"lookup", "new", "lock"} /\ reply[p] = "none"
  BY <1>0 DEF Obtain, LookupHit, LookupMiss, NewHit, NewMiss, LockVolume, HandlerAnswers, RepliedAt
<1>3. ASSUME LockVolume(p), pc'[p] = "release" PROVE HandlerAnswers(p)'
  <2>1. reply'[p] # "ok" \/ req[p].op \notin {"create", "publish", "unpublish", "delete"}
    BY <1>0, <1>2, <1>3 DEF Obtain, LookupReply, Reply, LookupHit, LookupMiss, NewHit, NewMiss, LockVolume
  <2>2. at'[p] = "done" /\ req' = req /\ todo' = todo
    BY <1>0, <1>2, <1>3 DEF Obtain, Reply, LookupHit, LookupMiss, NewHit, NewMiss, LockVolume
  <2>3. RepliedAt(p)' /\ AsksOfCreated(p)' /\ PostOfUnknown(p)'
    BY <1>3, <2>2 DEF RepliedAt, AsksOfCreated, PostOfUnknown, Asking
  <2>4. AnswersTrue(p)'
    BY <2>1, <2>2 DEF AnswersTrue, AboutTo
  <2>5. OpMatches(p)'
    BY <1>0, <2>2 DEF OpMatches, Asking, HandlerAnswers
  <2> QED
    BY <2>3, <2>4, <2>5 DEF HandlerAnswers
<1>4. ASSUME ~(LockVolume(p) /\ pc'[p] = "release") PROVE HandlerAnswers(p)'
  <2>1. UNCHANGED <<req, at, todo, reply, call, id>>
    BY <1>4 DEF Obtain, LookupHit, LookupMiss, NewHit, NewMiss, LockVolume, HoldCached, cacheVars
  <2>2. RepliedAt(p)' /\ AnswersTrue(p)'
    BY <1>2, <2>1 DEF RepliedAt, AnswersTrue, AboutTo
  <2>3. OpMatches(p)'
    BY <1>0, <2>1 DEF OpMatches, HandlerAnswers, IsBlock
  <2>4. call[p] = "lookup" /\ pc'[p] = "own" => state'[zvol'[p]] = "created"
    BY <1>0 DEF Obtain, LookupHit, LookupMiss, NewHit, NewMiss, LockVolume, HoldCached, Goto, TypeOK
  <2>5. AsksOfCreated(p)'
    BY <1>0, <2>1, <2>4 DEF AsksOfCreated, HandlerAnswers
  <2>6. PostOfUnknown(p)'
    <3>1. pc'[p] = "own" => state'[zvol'[p]] = "created" \/ info'[zvol'[p]] = UnknownInfo
      <4>1. CASE NewMiss(p)
        <5>1. zvol'[p] \in Vol /\ info' = [info EXCEPT ![zvol'[p]] = UnknownInfo]
          BY <1>0, <4>1 DEF Obtain, NewMiss, LookupHit, LookupMiss, NewHit, LockVolume, TypeOK
        <5> QED
          BY <5>1 DEF AnswerIInv, InfoInv
      <4>2. CASE ~NewMiss(p)
        BY <1>0, <4>2 DEF Obtain, LookupHit, LookupMiss, NewHit, LockVolume, HoldCached, Goto, TypeOK
      <4> QED
        BY <4>1, <4>2
    <3> QED
      BY <3>1 DEF PostOfUnknown, UnknownInfo
  <2> QED
    BY <2>2, <2>3, <2>5, <2>6 DEF HandlerAnswers
<1>5. InfoInv' /\ StructMoves(p)
  <2>1. CASE NewMiss(p)
    <3>1. PICK v \in Vol : /\ Unused(v)
                           /\ volId' = [volId EXCEPT ![v] = id[p]]
                           /\ state' = [state EXCEPT ![v] = "creating"]
                           /\ zvol' = [zvol EXCEPT ![p] = v]
      BY <2>1 DEF NewMiss
    <3>2. zvol'[p] = v
      BY <1>0, <3>1 DEF TypeOK
    <3>3. info' = [info EXCEPT ![v] = UnknownInfo]
      BY <2>1, <3>2 DEF Obtain, NewMiss, LookupHit, LookupMiss, NewHit, LockVolume
    <3> QED
      BY <1>0, <3>1, <3>3 DEF InfoInv, HrefKnown, UnknownInfo, StructMoves, AnswerIInv, TypeOK
  <2>2. CASE ~NewMiss(p)
    <3>1. UNCHANGED <<info, state, volId>>
      BY <2>2 DEF Obtain, LookupHit, LookupMiss, NewHit, LockVolume, HoldCached, cacheVars
    <3> QED
      BY <3>1, InfoStays DEF AnswerIInv, StructMoves
  <2> QED
    BY <2>1, <2>2
<1>6. share' = share /\ FilesystemsMasked'
  BY DEF Obtain, FilesystemsMasked, AnswerIInv
<1> QED
  BY <1>1, <1>3, <1>4, <1>5, <1>6 DEF Keeps, StructMoves

\* getDetails: a volume that is not found is gone, which is success for
\* DeleteVolume and ControllerUnpublishVolume.
LEMMA DetailsAnswers ==
    ASSUME AnswerIInv, NEW p \in Proc, NEW o \in Outcome, o # "unauth", GetDetails(p, o)
    PROVE  Keeps(p)
<1>0. /\ TypeOK /\ DOMAIN at = Proc /\ DOMAIN reply = Proc /\ HandlerAnswers(p)
      /\ pc[p] = "details" /\ reply[p] = "none" /\ o # "unauth"
      /\ UNCHANGED <<call, id, zvol, volId, req, todo, share>>
  BY DEF AnswerIInv, ServiceIInv, IInv, GetDetails, Details, Reply, HandlerAnswers, RepliedAt,
         Outcome
<1>1. MovesOne(p)
  BY <1>0, CacheMovesOne DEF GetDetails, Use, Reply, MovesOne
<1>2. id[p] \in VolumeId /\ zvol[p] \in Vol
  BY <1>0, MadeForIt DEF AnswerIInv, ServiceIInv, Referring, Counted
<1>3. CASE pc'[p] = "own"
  <2>1. /\ UNCHANGED <<at, reply>> /\ share[id[p]] # NoShare /\ SetInfo(p, share[id[p]])
        /\ state' = [state EXCEPT ![zvol[p]] = "created"]
    BY <1>0, <1>3 DEF GetDetails, Details, Goto, TypeOK
  <2>2. HandlerAnswers(p)'
    BY <1>0, <1>2, <2>1 DEF HandlerAnswers, RepliedAt, AnswersTrue, AboutTo, OpMatches,
                            AsksOfCreated, PostOfUnknown, IsBlock, TypeOK
  <2>3. ~IsBlock(p) => share[id[p]] # Nothing
    BY <1>2, <2>1, ServiceAssumption DEF IsBlock, AnswerIInv, FilesystemsMasked, Nothing
  <2>4. InfoInv'
    <3> DEFINE x == [cap |-> share[id[p]].cap,
                     modes |-> IF IsBlock(p) THEN info[zvol[p]].modes ELSE TRUE,
                     href |-> share[id[p]] # Nothing]
    <3>1. info' = [info EXCEPT ![zvol[p]] = x]
      BY <2>1 DEF SetInfo
    <3>2. "href" \in DOMAIN x /\ (~IsBlock(p) => x.href)
      BY <2>3
    <3>3. volId' = volId /\ \A v \in Vol \ {zvol[p]} : state'[v] = state[v]
      BY <1>0, <2>1 DEF TypeOK
    <3>4. pc[p] \in {"own", "details"}
      BY <1>0
    <3> HIDE DEF x
    <3> QED
      BY <3>1, <3>2, <3>3, <3>4, InfoOfMine
  <2> QED
    BY <1>0, <1>1, <2>1, <2>2, <2>4 DEF Keeps, StructMoves, SetInfo, InfoInv, AnswerIInv, FilesystemsMasked, TypeOK
<1>4. CASE pc'[p] # "own"
  <2>1. /\ UNCHANGED <<info, state>> /\ pc'[p] = "release"
        /\ \E r \in {"notfound", "error"} :
             Reply(p, LookupReply(p, r)) /\ (r = "notfound" => share[id[p]] = NoShare)
    BY <1>0, <1>4 DEF GetDetails, Details, Goto, TypeOK
  <2>2. PICK r \in {"notfound", "error"} :
          Reply(p, LookupReply(p, r)) /\ (r = "notfound" => share[id[p]] = NoShare)
    BY <2>1
  <2>3. at'[p] = "done" /\ reply'[p] = LookupReply(p, r)
    BY <1>0, <2>2 DEF Reply
  <2>4. RepliedAt(p)' /\ AsksOfCreated(p)' /\ PostOfUnknown(p)'
    BY <2>1, <2>3 DEF RepliedAt, AsksOfCreated, PostOfUnknown, Asking
  <2>5. OpMatches(p)'
    BY <1>0, <2>3 DEF OpMatches, Asking, HandlerAnswers
  <2>6. AnswersTrue(p)'
    BY <1>0, <2>2, <2>3 DEF AnswersTrue, AboutTo, LookupReply
  <2> QED
    BY <1>0, <1>1, <2>1, <2>4, <2>5, <2>6, InfoStays
       DEF Keeps, StructMoves, HandlerAnswers, AnswerIInv, FilesystemsMasked
<1> QED
  BY <1>3, <1>4

\* The reply leaves while the volume is still owned.
LEMMA ReturnAnswers ==
    ASSUME AnswerIInv, NEW p \in Proc, Return(p) \/ GiveBack(p)
    PROVE  Keeps(p)
<1>0. /\ TypeOK /\ DOMAIN req = Proc /\ DOMAIN reply = Proc /\ HandlerAnswers(p) /\ HandlerMatches
      /\ UNCHANGED <<id, volId, state, info, at, todo, share>>
  BY DEF AnswerIInv, ServiceIInv, IInv, Return, Finish, GiveBack, Release, ReleaseRef, ReleaseFast,
         ReleaseSlow, ReleaseCheck, UnlockPanic, serviceVars, handlerVars, cacheVars
<1>1. MovesOne(p)
  <2>1. \A q \in Proc \ {p} :
          pc'[q] = pc[q] /\ call'[q] = call[q] /\ id'[q] = id[q] /\ zvol'[q] = zvol[q]
    BY <1>0, CacheMovesOne DEF Return, GiveBack, Use
  <2>2. DOMAIN reply' = Proc /\ \A q \in Proc \ {p} : req'[q] = req[q] /\ reply'[q] = reply[q]
    BY <1>0 DEF Return, GiveBack, serviceVars, handlerVars
  <2> QED
    BY <1>0, <2>1, <2>2 DEF MovesOne
<1>2. /\ pc[p] \in {"own", "release", "relFast", "relLock", "relCheck"}
      /\ pc'[p] \in {"idle", "release", "relFast", "relLock", "relCheck", "panic"}
      /\ at[p] \in {"list", "done"}
      /\ at[p] = "list" => pc[p] = "idle"
  BY <1>0 DEF Return, Finish, GiveBack, Release, ReleaseRef, ReleaseFast, ReleaseSlow, ReleaseCheck,
         UnlockPanic, Goto, TypeOK, HandlerMatches
<1>3. at'[p] = "done"
  BY <1>0, <1>2
<1>4. CASE pc'[p] = "idle"
  <2>1. reply'[p] = "none" /\ (todo[p] # {} => req'[p] = req[p])
    BY <1>0, <1>2, <1>4 DEF Return, Finish, GiveBack, Goto, TypeOK
  <2> QED
    BY <1>0, <1>1, <1>3, <2>1, InfoStays DEF Keeps, StructMoves, HandlerAnswers, RepliedAt, AsksOfCreated,
       PostOfUnknown, AnswersTrue, AboutTo, OpMatches, Asking, AnswerIInv, FilesystemsMasked
<1>5. CASE pc'[p] # "idle"
  <2>1. UNCHANGED <<req, reply>>
    BY <1>5 DEF Return, GiveBack, serviceVars, handlerVars
  <2>2. RepliedAt(p)' /\ AsksOfCreated(p)' /\ PostOfUnknown(p)' /\ OpMatches(p)'
    BY <1>0, <1>2, <1>3, <1>5, <2>1 DEF RepliedAt, AsksOfCreated, PostOfUnknown, OpMatches, Asking, HandlerAnswers
  <2>3. AnswersTrue(p)'
    <3>1. pc'[p] \in Owning => pc[p] \in Owning
      BY <1>0, <1>2 DEF Return, Finish, GiveBack, Release, ReleaseRef, ReleaseFast, ReleaseSlow,
         ReleaseCheck, UnlockPanic, Goto, Owning, TypeOK
    <3>2. pc'[p] \in Owning => zvol'[p] = zvol[p]
      BY <1>0, <1>2 DEF Return, Finish, GiveBack, Release, ReleaseRef, ReleaseFast, ReleaseSlow,
         ReleaseCheck, UnlockPanic, Goto, Owning, TypeOK
    <3> QED
      BY <1>0, <2>1, <3>1, <3>2 DEF AnswersTrue, AboutTo, IsBlock, HandlerAnswers
  <2> QED
    BY <1>0, <1>1, <2>2, <2>3, InfoStays
       DEF Keeps, StructMoves, HandlerAnswers, AnswerIInv, FilesystemsMasked
<1> QED
  BY <1>4, <1>5

\* CreateVolume: the share is the one it made, or one it has read and compared
\* with the request.
LEMMA CreateAnswers ==
    ASSUME AnswerIInv, NEW p \in Proc, NEW o \in Outcome, o # "unauth",
           CreatePost(p, o) \/ CreateRefresh(p, o)
    PROVE  Keeps(p)
<1>0. /\ pc[p] = "own" /\ at[p] \in {"post", "refresh"} /\ o # "unauth"
      /\ at[p] = "post" \/ UNCHANGED share
      /\ req[p].op = "create" /\ req[p].range \in Ranges /\ id[p] \in VolumeId
      /\ share \in [VolumeId -> Shares \cup {NoShare}]
      /\ at[p] = "post" /\ state[zvol[p]] # "created" => ~info[zvol[p]].modes
  BY DEF CreatePost, CreateRefresh, Calls, Outcome, AnswerIInv, HandlerAnswers,
         PostOfUnknown, OpMatches, ServiceIInv, HandlerMatches, IInv, LocalsSet
<1>1. /\ \A i \in VolumeId \ {id[p]} : share'[i] = share[i]
      /\ share'[id[p]] \in {share[id[p]], Made(p)}
      /\ DOMAIN share' = VolumeId
  BY <1>0 DEF CreatePost, CreateRefresh
<1>2. FilesystemsMasked'
  BY <1>1 DEF FilesystemsMasked, AnswerIInv, Made
<1>3. Made(p) # Nothing
  BY ServiceAssumption DEF Made, Nothing
<1>4. CASE CreatePost(p, o)
  <2>1. \/ Store(p, Made(p)) /\ Reply(p, "ok") /\ share'[id[p]] = Made(p)
        \/ Stay /\ Then(p, "refresh")
        \/ Stay /\ Reply(p, "exists")
        \/ SetState(p, "deleted") /\ info' = info /\ Reply(p, "error")
    BY <1>0, <1>4 DEF CreatePost, Performed, Compatible, Calls
  <2>2. CASE Store(p, Made(p)) /\ Reply(p, "ok") /\ share'[id[p]] = Made(p)
    <3>1. StructMoves(p) /\ info'[zvol[p]].cap = Made(p).cap /\ UNCHANGED procVars
      BY <2>2, StoreMoves
    <3>2. AnswersTrue(p)'
      BY <1>0, <2>2, <3>1, MadeFits DEF AnswersTrue, AboutTo, Reply, procVars
    <3>3. MovesOne(p) /\ HandlerAnswers(p)'
      BY <1>0, <2>2, <3>1, <3>2, ReplyKeeps
    <3>4. InfoInv'
      BY <1>3, <2>2, StoreKeepsInfo
    <3> QED
      BY <1>0, <1>1, <1>2, <3>1, <3>3, <3>4 DEF Keeps
  <2>3. CASE Stay /\ Then(p, "refresh")
    <3>1. /\ procVars' = procVars /\ req' = req /\ todo' = todo /\ reply' = reply
          /\ at' = [at EXCEPT ![p] = "refresh"]
      BY <1>4, <2>3 DEF Stay, Then, vars
    <3>2. at[p] = "post" /\ UNCHANGED <<info, state, volId>>
      BY <1>4, <2>3 DEF CreatePost, Calls, Stay, vars, cacheVars
    <3>3. MovesOne(p) /\ HandlerAnswers(p)'
      <4>1. "refresh" \in Calling \cup {"done"} /\ at[p] # "done"
        BY <3>2 DEF Calling
      <4> QED
        BY <1>0, <3>1, <3>2, <4>1, GoOn
    <3> QED
      BY <1>0, <1>1, <1>2, <3>2, <3>3, InfoStays DEF Keeps, StructMoves, AnswerIInv
  <2>4. CASE Stay /\ Reply(p, "exists")
    BY <1>0, <1>1, <1>2, <2>4, ReplyKeeps, InfoStays DEF Keeps, StructMoves, Stay, vars, cacheVars, AnswerIInv
  <2>5. CASE SetState(p, "deleted") /\ info' = info /\ Reply(p, "error")
    BY <1>0, <1>1, <1>2, <2>5, ReplyKeeps, DropKeepsInfo, StateOfMine DEF Keeps, StructMoves
  <2> QED
    BY <2>1, <2>2, <2>3, <2>4, <2>5
<1>5. CASE CreateRefresh(p, o)
  <2> DEFINE fits == Compatible(p, info'[zvol[p]])
  <2>1. \/ /\ share[id[p]] # NoShare /\ Store(p, share[id[p]])
           /\ Reply(p, IF fits THEN "ok" ELSE "exists")
        \/ Stay /\ \E r \in {"notfound", "error"} : Reply(p, r)
    BY <1>0, <1>5 DEF CreateRefresh
  <2>2. CASE /\ share[id[p]] # NoShare /\ Store(p, share[id[p]])
             /\ Reply(p, IF fits THEN "ok" ELSE "exists")
    <3>1. ~IsBlock(p) => share[id[p]] # Nothing
      BY <1>0, <2>2, ServiceAssumption DEF IsBlock, AnswerIInv, FilesystemsMasked, Nothing
    <3>2. InfoInv'
      BY <2>2, <3>1, StoreKeepsInfo
    <3>3. StructMoves(p) /\ info'[zvol[p]].cap = share[id[p]].cap /\ UNCHANGED procVars
      BY <2>2, StoreMoves
    <3>4. share' = share
      BY <1>5 DEF CreateRefresh
    <3>5. fits => AnswersTrue(p)'
      BY <1>0, <2>2, <3>3, <3>4 DEF AnswersTrue, AboutTo, Compatible, Reply, procVars
    <3>6. MovesOne(p) /\ HandlerAnswers(p)'
      BY <1>0, <2>2, <3>3, <3>5, ReplyKeeps
    <3> QED
      BY <1>0, <1>2, <3>2, <3>3, <3>4, <3>6 DEF Keeps
  <2>3. ASSUME Stay, NEW r \in {"notfound", "error"}, Reply(p, r) PROVE Keeps(p)
    BY <1>0, <1>1, <1>2, <2>3, ReplyKeeps, InfoStays DEF Keeps, StructMoves, Stay, vars, cacheVars, AnswerIInv
  <2> QED
    BY <2>1, <2>2, <2>3
<1> QED
  BY <1>4, <1>5

\* DeleteVolume: with the href it has, the call takes the share away.
LEMMA DeleteAnswers ==
    ASSUME AnswerIInv, NEW p \in Proc, NEW o \in Outcome, o # "unauth",
           ListSnapshots(p, o) \/ DeleteShare(p, o)
    PROVE  Keeps(p)
<1>0. /\ pc[p] = "own" /\ at[p] \in Asking /\ o # "unauth" /\ state[zvol[p]] = "created"
      /\ req[p].op = "delete" /\ share \in [VolumeId -> Shares \cup {NoShare}]
  BY DEF ListSnapshots, DeleteShare, Calls, Outcome, Asking, AnswerIInv, HandlerAnswers,
         OpMatches, AsksOfCreated, ServiceIInv
<1>1. zvol[p] \in Vol /\ id[p] \in VolumeId /\ volId[zvol[p]] = id[p]
  BY <1>0, MadeForIt DEF AnswerIInv, ServiceIInv, Referring, Counted
<1>2. IsBlock(p) \/ HasHref(p)
  BY <1>0, <1>1 DEF IsBlock, HasHref, AnswerIInv, InfoInv, HrefKnown
<1>3. CASE ListSnapshots(p, o)
  <2>1. /\ UNCHANGED <<procVars, share, info, state, volId>>
        /\ \/ \E c \in {"snaps2", "delete"} : Then(p, c)
           \/ \E r \in {"precondition", "notfound", "error"} : Reply(p, r)
    BY <1>0, <1>3 DEF ListSnapshots, Stay, vars, cacheVars
  <2>2. FilesystemsMasked' /\ InfoInv'
    BY <2>1, InfoStays DEF AnswerIInv, FilesystemsMasked
  <2>3. ASSUME NEW c \in {"snaps2", "delete"}, Then(p, c) PROVE MovesOne(p) /\ HandlerAnswers(p)'
    <3>1. /\ procVars' = procVars /\ req' = req /\ todo' = todo /\ reply' = reply
          /\ at' = [at EXCEPT ![p] = c]
          /\ state' = state /\ c \in Asking /\ c \in Calling \cup {"done"} /\ at[p] # "done"
      BY <1>0, <2>1, <2>3 DEF Then, Asking, Calling
    <3>2. at[p] \in Asking /\ c \in Asking /\ state' = state
      BY <1>0, <3>1
    <3> QED
      BY <1>0, <3>1, <3>2, GoOn
  <2>4. ASSUME NEW r \in {"precondition", "notfound", "error"}, Reply(p, r)
        PROVE  MovesOne(p) /\ HandlerAnswers(p)'
    BY <1>0, <2>1, <2>4, ReplyKeeps
  <2> QED
    BY <2>1, <2>2, <2>3, <2>4 DEF Keeps, StructMoves
<1>4. CASE DeleteShare(p, o)
  <2>1. /\ \A i \in VolumeId \ {id[p]} : share'[i] = share[i]
        /\ share'[id[p]] \in {share[id[p]], NoShare}
        /\ \/ SetState(p, "deleted") /\ info' = info /\ Reply(p, "ok") /\ share'[id[p]] = NoShare
           \/ Stay /\ Reply(p, "error")
    <3>1. /\ share' \in {share, Removed(p)}
          /\ \/ SetState(p, "deleted") /\ info' = info /\ Reply(p, "ok") /\ ~Failed(o)
             \/ Stay /\ Reply(p, "error")
      BY <1>4 DEF DeleteShare
    <3>2. ~Failed(o) => share' = Removed(p)
      BY <1>0, <1>2, <1>4, ServiceAssumption DEF DeleteShare, Performed, Failed, Outcome
    <3> QED
      BY <1>0, <1>1, <3>1, <3>2 DEF Removed
  <2>2. FilesystemsMasked'
    BY <2>1 DEF FilesystemsMasked, AnswerIInv
  <2>3. CASE SetState(p, "deleted") /\ info' = info /\ Reply(p, "ok") /\ share'[id[p]] = NoShare
    <3>1. AnswersTrue(p)'
      BY <1>0, <2>1, <2>3, StateOfMine DEF AnswersTrue, AboutTo, Reply, procVars
    <3> QED
      BY <1>0, <2>1, <2>2, <2>3, <3>1, ReplyKeeps, DropKeepsInfo, StateOfMine DEF Keeps, StructMoves
  <2>4. CASE Stay /\ Reply(p, "error")
    BY <1>0, <2>1, <2>2, <2>4, ReplyKeeps, InfoStays DEF Keeps, StructMoves, Stay, vars, cacheVars, AnswerIInv
  <2> QED
    BY <2>1, <2>3, <2>4
<1> QED
  BY <1>3, <1>4

\* ControllerPublishVolume and ControllerUnpublishVolume: the call that is
\* answered has set the initiator group.
LEMMA PublishAnswers ==
    ASSUME AnswerIInv, NEW p \in Proc, NEW o \in Outcome, o # "unauth",
           PublishGet(p, o) \/ PublishSet(p, o) \/ Unpublish(p, o)
    PROVE  Keeps(p)
<1>0. /\ pc[p] = "own" /\ at[p] \in {"getgroup", "setgroup", "mask"} /\ o # "unauth"
      /\ at[p] \in {"getgroup", "setgroup"} => req[p].op = "publish"
      /\ at[p] = "mask" => req[p].op = "unpublish"
      /\ share \in [VolumeId -> Shares \cup {NoShare}] /\ id[p] \in VolumeId
      /\ HandlerAnswers(p)
  BY DEF PublishGet, PublishSet, Unpublish, Calls, Outcome, AnswerIInv, HandlerAnswers,
         OpMatches, ServiceIInv, IInv, LocalsSet
<1>1. CASE PublishGet(p, o) /\ ~Panic
  <2>1. /\ UNCHANGED share /\ Stay /\ at[p] = "getgroup"
        /\ \/ Then(p, "setgroup") /\ IsBlock(p)
           \/ \E r \in {"precondition", "notfound", "error"} : Reply(p, r)
           \/ ~IsBlock(p) /\ Reply(p, "ok")
    BY <1>0, <1>1 DEF PublishGet, Calls
  <2>2. procVars' = procVars /\ UNCHANGED <<info, state, volId>>
    BY <2>1 DEF Stay, vars, cacheVars
  <2>3. FilesystemsMasked' /\ InfoInv'
    BY <2>1, <2>2, InfoStays DEF AnswerIInv, FilesystemsMasked
  <2>4. CASE Then(p, "setgroup") /\ IsBlock(p)
    <3>1. /\ req' = req /\ todo' = todo /\ reply' = reply /\ at' = [at EXCEPT ![p] = "setgroup"]
          /\ "setgroup" \in Calling \cup {"done"} /\ at[p] # "done"
      BY <2>1, <2>4 DEF Then, Calling
    <3>2. MovesOne(p) /\ HandlerAnswers(p)'
      BY <1>0, <2>1, <2>2, <2>4, <3>1, GoOn
    <3> QED
      BY <2>1, <2>2, <2>3, <3>2 DEF Keeps, StructMoves
  <2>5. ASSUME NEW r \in {"precondition", "notfound", "error"}, Reply(p, r) PROVE Keeps(p)
    BY <1>0, <2>1, <2>2, <2>3, <2>5, ReplyKeeps DEF Keeps, StructMoves
  <2>6. CASE ~IsBlock(p) /\ Reply(p, "ok")
    <3>1. AnswersTrue(p)'
      BY <1>0, <2>1, <2>2, <2>6 DEF AnswersTrue, AboutTo, Reply, IsBlock, procVars
    <3> QED
      BY <1>0, <2>1, <2>2, <2>3, <2>6, <3>1, ReplyKeeps DEF Keeps, StructMoves
  <2> QED
    BY <2>1, <2>4, <2>5, <2>6
<1>2. CASE PublishGet(p, o) /\ Panic
  <2>1. /\ UNCHANGED share /\ Panic
    BY <1>2 DEF PublishGet
  <2>2. UNCHANGED <<pc, call, id, zvol, volId, state, info, req, at, reply, todo>>
    BY <2>1 DEF Panic, vars, cacheVars, procVars, handlerVars
  <2>3. MovesOne(p) /\ HandlerAnswers(p)'
    BY <1>0, <2>1, <2>2 DEF MovesOne, HandlerAnswers, RepliedAt, AsksOfCreated, OpMatches,
                            PostOfUnknown, AnswersTrue, AboutTo, IsBlock, AnswerIInv
  <2> QED
    BY <2>1, <2>2, <2>3, InfoStays DEF Keeps, StructMoves, AnswerIInv, FilesystemsMasked
<1>3. ASSUME NEW group, NEW gone, SetGroup(p, o, group, gone),
             gone = "notfound" \/ (gone = "ok" /\ group = MaskAll), IsBlock(p) \/ group = MaskAll,
             at[p] = "setgroup" => group = req[p].node /\ gone = "notfound",
             at[p] = "mask" => group = MaskAll,
             at[p] # "getgroup"
      PROVE  Keeps(p)
  <2>1. /\ Stay /\ \A i \in VolumeId \ {id[p]} : share'[i] = share[i]
        /\ share[id[p]] = NoShare => share'[id[p]] = NoShare
        /\ share[id[p]] # NoShare =>
             share'[id[p]] \in {share[id[p]], [share[id[p]] EXCEPT !.group = group]}
    BY <1>0, <1>3 DEF SetGroup
  <2>2. procVars' = procVars /\ UNCHANGED <<info, state, volId>>
    BY <2>1 DEF Stay, vars, cacheVars
  <2>3. share[id[p]] # NoShare =>
          [share[id[p]] EXCEPT !.group = group].group = group
            /\ [share[id[p]] EXCEPT !.group = group] # NoShare
    <3>1. ASSUME share[id[p]] # NoShare, [share[id[p]] EXCEPT !.group = group] = NoShare
          PROVE  FALSE
      <4>1. share[id[p]] \in Shares
        BY <1>0, <3>1
      <4>2. group \in Group
        BY <1>0, <1>3 DEF AnswerIInv, ServiceIInv, HandlerMatches, Group
      <4>3. NoShare \in Shares
        BY <3>1, <4>1, <4>2 DEF Shares
      <4> QED
        BY <4>3, ServiceAssumption DEF Shares, Group
    <3>2. share[id[p]] # NoShare => share[id[p]] \in Shares
      BY <1>0
    <3> QED
      BY <3>1, <3>2 DEF Shares
  <2>4. FilesystemsMasked' /\ InfoInv'
    <3>1. FilesystemsMasked'
      BY <1>0, <1>3, <2>1, <2>3 DEF AnswerIInv, FilesystemsMasked, IsBlock
    <3> QED
      BY <2>2, <3>1, InfoStays DEF AnswerIInv
  <2>5. PICK r : Reply(p, r) /\ (r = "ok" => o = "answered" /\ (share[id[p]] = NoShare => gone = "ok"))
    BY <1>0, <1>3 DEF SetGroup
  <2>6. r = "ok" => AnswersTrue(p)'
    <3> SUFFICES ASSUME r = "ok" PROVE AnswersTrue(p)'
      OBVIOUS
    <3>1. share[id[p]] # NoShare => share'[id[p]] # NoShare /\ share'[id[p]].group = group
      BY <1>0, <1>3, <2>3, <2>5 DEF SetGroup, Performed
    <3>2. share[id[p]] = NoShare => group = MaskAll /\ at[p] = "mask"
      BY <1>0, <1>3, <2>5
    <3> QED
      BY <1>0, <1>3, <2>1, <2>2, <2>5, <3>1, <3>2 DEF AnswersTrue, AboutTo, Reply, procVars
  <2>7. MovesOne(p) /\ HandlerAnswers(p)'
    BY <1>0, <2>2, <2>5, <2>6, ReplyKeeps
  <2> QED
    BY <1>0, <2>1, <2>2, <2>4, <2>7 DEF Keeps, StructMoves
<1>4. CASE PublishSet(p, o)
  <2>1. at[p] = "setgroup" /\ SetGroup(p, o, req[p].node, "notfound")
    BY <1>4 DEF PublishSet, Calls
  <2>2. IsBlock(p)
    BY <1>0, <2>1 DEF HandlerAnswers, OpMatches
  <2> QED
    BY <1>3, <2>1, <2>2
<1>5. CASE Unpublish(p, o)
  <2>1. at[p] = "mask"
    BY <1>5 DEF Unpublish, Calls
  <2>2. CASE IsBlock(p)
    BY <1>3, <1>5, <2>1, <2>2 DEF Unpublish
  <2>3. CASE ~IsBlock(p)
    <3>1. Reply(p, "ok") /\ share' = share /\ procVars' = procVars /\ UNCHANGED <<info, state, volId>>
      BY <1>5, <2>3 DEF Unpublish, Stay, vars, cacheVars
    <3>2. AnswersTrue(p)'
      BY <1>0, <2>1, <2>3, <3>1 DEF AnswersTrue, AboutTo, Reply, IsBlock, procVars
    <3> QED
      BY <1>0, <3>1, <3>2, ReplyKeeps, InfoStays DEF Keeps, StructMoves, AnswerIInv, FilesystemsMasked
  <2> QED
    BY <2>2, <2>3
<1> QED
  BY <1>1, <1>2, <1>4, <1>5

\* ControllerExpandVolume, the other look-ups, and what a listing stores.
LEMMA ExpandAnswers ==
    ASSUME AnswerIInv, NEW p \in Proc, NEW o \in Outcome, o # "unauth",
           Expand(p, o) \/ Get(p) \/ ListStore(p)
    PROVE  Keeps(p)
<1>0. /\ pc[p] = "own" /\ at[p] \in {"modify", "get", "store"} /\ o # "unauth"
      /\ req[p].op \in {"expand", "get", "list"}
      /\ share \in [VolumeId -> Shares \cup {NoShare}] /\ id[p] \in VolumeId
      /\ zvol[p] \in Vol
  BY MadeForIt DEF Expand, Get, ListStore, Calls, Outcome, AnswerIInv, HandlerAnswers,
         OpMatches, ServiceIInv, Referring, Counted
<1>1. CASE Expand(p, o)
  <2>1. /\ share' = share \/ (~IsBlock(p) /\ share' = Resized(p))
        /\ UNCHANGED vars
        /\ info' = info \/ KnowCapacity(p, req[p].size)
        /\ \E r : Reply(p, r)
    BY <1>0, <1>1 DEF Expand, Stay
  <2>2. FilesystemsMasked'
    BY <1>0, <2>1 DEF Resized, FilesystemsMasked, AnswerIInv, Shares
  <2>3. InfoInv'
    BY <1>0, <2>1 DEF KnowCapacity, AnswerIInv, InfoInv, HrefKnown, vars, cacheVars
  <2>4. \A i \in VolumeId \ {id[p]} : share'[i] = share[i]
    BY <2>1 DEF Resized, AnswerIInv, ServiceIInv
  <2>5. StructMoves(p)
    <3>1. \A v \in Vol \ {zvol[p]} : info'[v] = info[v]
      BY <2>1 DEF KnowCapacity, AnswerIInv, InfoInv
    <3> QED
      BY <1>0, <2>1, <3>1 DEF StructMoves, vars, cacheVars
  <2> QED
    BY <1>0, <2>1, <2>2, <2>3, <2>4, <2>5, ReplyKeeps DEF Keeps, vars, cacheVars
<1>2. CASE Get(p)
  BY <1>0, <1>2, ReplyKeeps, InfoStays
     DEF Get, Stay, Keeps, StructMoves, vars, cacheVars, AnswerIInv, FilesystemsMasked
<1>3. CASE ListStore(p)
  <2> DEFINE item == [Nothing EXCEPT !.cap = heard[p].cap, !.group = MaskAll]
  <2>1. Store(p, item)
    BY <1>3 DEF ListStore
  <2>2. item # Nothing
    BY ServiceAssumption DEF Nothing
  <2>3. InfoInv'
    BY <2>1, <2>2, StoreKeepsInfo
  <2>4. procVars' = procVars /\ StructMoves(p)
    BY <2>1, StoreMoves
  <2>5. req' = req /\ todo' = todo /\ reply' = reply /\ at' = [at EXCEPT ![p] = "done"]
        /\ share' = share
    BY <1>3 DEF ListStore
  <2>6. at[p] # "done" /\ "done" \in Calling \cup {"done"}
    BY <1>0
  <2>7. MovesOne(p) /\ HandlerAnswers(p)'
    BY <1>0, <2>4, <2>5, <2>6, GoOn
  <2>8. FilesystemsMasked'
    BY <2>5 DEF FilesystemsMasked, AnswerIInv
  <2> QED
    BY <1>0, <2>3, <2>4, <2>5, <2>7, <2>8 DEF Keeps
<1> QED
  BY <1>1, <1>2, <1>3

\* Listings say nothing until they end.
LEMMA ListAnswers ==
    ASSUME AnswerIInv, NEW p \in Proc, NEW o \in Outcome, ListShares(p, o) \/ ListNext(p)
    PROVE  Keeps(p)
<1>0. /\ TypeOK /\ DOMAIN at = Proc /\ DOMAIN todo = Proc /\ DOMAIN req = Proc
      /\ DOMAIN reply = Proc /\ HandlerAnswers(p) /\ pc[p] = "idle" /\ reply[p] = "none"
      /\ UNCHANGED <<share, info, reply, cacheVars, zvol>>
  BY DEF AnswerIInv, ServiceIInv, IInv, ListShares, ListNext, Call, vars, procVars,
         HandlerAnswers, RepliedAt
<1>1. /\ \A q \in Proc \ {p} : req'[q] = req[q] /\ at'[q] = at[q] /\ todo'[q] = todo[q]
      /\ at'[p] \in {"done", "store"}
      /\ at'[p] = "store" \/ todo'[p] # {} => req'[p].op = "list"
  BY <1>0 DEF ListShares, ListNext, HandlerAnswers, OpMatches
<1>2. Start(p) \/ UNCHANGED vars
  BY HandleUses DEF ListShares, ListNext, Start, AnswerIInv, ServiceIInv
<1>3. MovesOne(p)
  BY <1>0, <1>1, <1>2, CacheMovesOne DEF MovesOne
<1>4. HandlerAnswers(p)'
  BY <1>0, <1>1 DEF HandlerAnswers, RepliedAt, AnswersTrue, AboutTo, AsksOfCreated, OpMatches, Asking,
     PostOfUnknown
<1> QED
  BY <1>0, <1>3, <1>4, InfoStays DEF Keeps, StructMoves, AnswerIInv, FilesystemsMasked, cacheVars

-----------------------------------------------------------------------------
\* In the beginning nobody has replied, and nothing is known.
LEMMA InitAnswers == ServiceInit => AnswerIInv
<1> SUFFICES ASSUME ServiceInit PROVE AnswerIInv
  OBVIOUS
<1>1. FilesystemsMasked /\ InfoInv
  BY ServiceAssumption DEF ServiceInit, Init, FilesystemsMasked, InfoInv, HrefKnown, UnknownInfo
<1>2. \A p \in Proc : HandlerAnswers(p)
  BY DEF ServiceInit, Init, HandlerAnswers, RepliedAt, AnswersTrue, AboutTo, AsksOfCreated,
         PostOfUnknown, OpMatches, Asking
<1> QED
  BY <1>1, <1>2, ServiceInitInv DEF AnswerIInv, ServiceInit

\* The steps of p, except calls refused twice.
Unrefused(p) ==
    \/ ArriveAny(p) \/ Obtain(p)
    \/ \E o \in Outcome : o # "unauth" /\ RestCall(p, o)
    \/ Get(p) \/ ListNext(p) \/ ListStore(p) \/ Return(p) \/ GiveBack(p)

LEMMA UnrefusedKeeps ==
    ASSUME AnswerIInv, NEW p \in Proc, Unrefused(p)
    PROVE  Keeps(p)
<1>1. "answered" \in Outcome
  BY DEF Outcome
<1>2. ASSUME NEW o \in Outcome, o # "unauth", RestCall(p, o) PROVE Keeps(p)
  BY <1>2, DetailsAnswers, CreateAnswers, DeleteAnswers, PublishAnswers, ExpandAnswers,
     ListAnswers DEF RestCall
<1>3. CASE Get(p) \/ ListNext(p) \/ ListStore(p)
  BY <1>1, <1>3, ExpandAnswers, ListAnswers
<1> QED
  BY <1>2, <1>3, ArrivalAnswers, ObtainAnswers, ReturnAnswers DEF Unrefused

LEMMA UnrefusedAnswers ==
    ASSUME NoNilCtx, AnswerIInv, NEW p \in Proc, Unrefused(p)
    PROVE  AnswerIInv'
<1>1. ServiceIInv'
  BY GoroutineKeeps DEF AnswerIInv, Unrefused, Handle
<1> QED
  BY <1>1, UnrefusedKeeps, KeepsAll

LEMMA StutterAnswers ==
    ASSUME NoNilCtx, AnswerIInv, UNCHANGED allVars
    PROVE  AnswerIInv'
<1>1. ServiceIInv'
  BY StutterKeeps DEF AnswerIInv
<1> QED
  BY <1>1 DEF allVars, vars, cacheVars, procVars, serviceVars, handlerVars, AnswerIInv,
     HandlerAnswers, RepliedAt, AsksOfCreated, PostOfUnknown, OpMatches, AnswersTrue, AboutTo, IsBlock,
     FilesystemsMasked, InfoInv, HrefKnown

LEMMA StepAnswers ==
    ASSUME NoNilCtx, NoAdmin, NoUnauth, AnswerIInv, [ServiceNext]_allVars
    PROVE  AnswerIInv'
<1>1. ~Environment
  BY DEF Environment, NoAdmin
<1>2. \A o \in Outcome : o # "unauth"
  BY DEF Outcome, NoUnauth
<1> QED
  BY <1>1, <1>2, UnrefusedAnswers, StutterAnswers DEF ServiceNext, Handle, Unrefused

\* The inductive invariant of the answers.
LEMMA AnswerInvariant ==
    NoNilCtx /\ NoAdmin /\ NoUnauth => (ServiceSpec => []AnswerIInv)
<1> SUFFICES ASSUME NoNilCtx, NoAdmin, NoUnauth
             PROVE  ServiceSpec => []AnswerIInv
  OBVIOUS
<1>1. AnswerIInv /\ [ServiceNext]_allVars => AnswerIInv'
  BY StepAnswers
<1> QED
  BY InitAnswers, <1>1, PTL DEF ServiceSpec

\* ControllerPublishVolume replies OK only when the LUN is granted to the
\* node of the request (controller_block.go:200).
THEOREM PublishAnswersTruly ==
    NoNilCtx /\ NoAdmin /\ NoUnauth => (ServiceSpec => []PublishedIsGranted)
<1>1. AnswerIInv => PublishedIsGranted
  BY DEF AnswerIInv, HandlerAnswers, AnswersTrue, PublishedIsGranted
<1> QED
  BY <1>1, AnswerInvariant, PTL

\* ControllerUnpublishVolume replies OK only when the LUN is masked or gone
\* (controller_block.go:218).
THEOREM UnpublishAnswersTruly ==
    NoNilCtx /\ NoAdmin /\ NoUnauth => (ServiceSpec => []UnpublishedIsMasked)
<1>1. AnswerIInv => UnpublishedIsMasked
  BY DEF AnswerIInv, HandlerAnswers, AnswersTrue, UnpublishedIsMasked
<1> QED
  BY <1>1, AnswerInvariant, PTL

\* DeleteVolume replies OK only when the share is gone, whatever was lost
\* before: the volume had its href, or was not found (controller.go:223).
THEOREM DeleteAnswersTruly ==
    NoNilCtx /\ NoAdmin /\ NoUnauth => (ServiceSpec => []DeletedIsGone)
<1>1. AnswerIInv => DeletedIsGone
  BY DEF AnswerIInv, HandlerAnswers, AnswersTrue, DeletedIsGone
<1> QED
  BY <1>1, AnswerInvariant, PTL

\* CreateVolume replies OK only when the share is there, with a size in the
\* range of the request, and the reply has this size (controller_fs.go:76).
THEOREM CreateAnswersTruly ==
    NoNilCtx /\ NoAdmin /\ NoUnauth /\ RangesConsistent => (ServiceSpec => []CreatedIsThere)
<1> SUFFICES ASSUME NoNilCtx, NoAdmin, NoUnauth, RangesConsistent
             PROVE  ServiceSpec => []CreatedIsThere
  OBVIOUS
<1>1. AnswerIInv => CreatedIsThere
  BY DEF AnswerIInv, HandlerAnswers, AnswersTrue, CreatedIsThere
<1> QED
  BY <1>1, AnswerInvariant, PTL
-----------------------------------------------------------------------------
(* The cache tells the truth, as long as the behaviour is quiet.           *)

\* What is cached as created is so on the appliance, even while a handler
\* works on it.
KnownIsTrue ==
    \A n \in Name :
        LET v == vHash[n]
        IN  v # NoVol /\ state[v] = "created"
              => share[volId[v]] # NoShare /\ share[volId[v]].cap = info[v].cap

\* No listing runs, and an OK to ControllerExpandVolume is true.
NoListing(p) == at[p] \notin {"list", "store"} /\ todo[p] = {}

ExpandTrue(p) ==
    AboutTo(p, "expand", "ok") => share[id[p]] # NoShare /\ share[id[p]].cap >= req[p].size

InfoTyped == info \in [Vol -> [cap : Nat, modes : BOOLEAN, href : BOOLEAN]]

TruthIInv ==
    InfoTyped /\ KnownIsTrue /\ \A p \in Proc : NoListing(p) /\ ExpandTrue(p)

\* The steps of p in a quiet behaviour.
QuietStep(p) ==
    \/ \E r \in Requests : Arrive(p, r)
    \/ Obtain(p)
    \/ \E o \in {"answered", "lost"} : RestCall(p, o)
    \/ Get(p) \/ ListNext(p) \/ ListStore(p) \/ Return(p) \/ GiveBack(p)

KeepsTruth(p) ==
    /\ InfoTyped' /\ KnownIsTrue' /\ NoListing(p)' /\ ExpandTrue(p)'

LEMMA TruthKept ==
    ASSUME AnswerIInv, TruthIInv, NEW p \in Proc, Keeps(p), KeepsTruth(p)
    PROVE  TruthIInv'
<1>1. ASSUME NEW q \in Proc, q # p PROVE NoListing(q)' /\ ExpandTrue(q)'
  <2>1. /\ pc'[q] = pc[q] /\ id'[q] = id[q] /\ req'[q] = req[q] /\ reply'[q] = reply[q]
        /\ at'[q] = at[q] /\ todo'[q] = todo[q]
    BY <1>1 DEF Keeps, MovesOne
  <2>2. pc[q] \in Owning => share'[id[q]] = share[id[q]]
    BY <1>1, OtherShareStays DEF AnswerIInv, Keeps
  <2> QED
    BY <2>1, <2>2 DEF TruthIInv, NoListing, ExpandTrue, AboutTo
<1> QED
  BY <1>1 DEF TruthIInv, KeepsTruth

\* A handler changes what is known of its own volume only.
LEMMA OwnTruth ==
    ASSUME AnswerIInv, TruthIInv, NEW p \in Proc, pc[p] \in {"own", "details"},
           UNCHANGED <<vHash, volId>>,
           \A v \in Vol \ {zvol[p]} : state'[v] = state[v] /\ info'[v] = info[v],
           \A i \in VolumeId \ {id[p]} : share'[i] = share[i],
           state'[zvol[p]] = "created" =>
             share'[id[p]] # NoShare /\ share'[id[p]].cap = info'[zvol[p]].cap
    PROVE  KnownIsTrue'
<1> SUFFICES ASSUME NEW n \in Name, vHash[n] # NoVol, state'[vHash[n]] = "created"
             PROVE  share'[volId[vHash[n]]] # NoShare
                      /\ share'[volId[vHash[n]]].cap = info'[vHash[n]].cap
  BY DEF KnownIsTrue
<1>1. zvol[p] \in Vol /\ id[p] \in VolumeId /\ volId[zvol[p]] = id[p]
      /\ vHash[NameOf[id[p]]] = zvol[p]
  BY MadeForIt DEF AnswerIInv, ServiceIInv, IInv, HeldIsCached, NameFor, Referring, Counted
<1>2. vHash[n] \in Vol /\ volId[vHash[n]] \in VolumeId /\ NameOf[volId[vHash[n]]] = n
  BY DEF AnswerIInv, ServiceIInv, IInv, TypeOK, CachedUnderName
<1>3. CASE vHash[n] = zvol[p]
  BY <1>1, <1>3
<1>4. CASE vHash[n] # zvol[p]
  BY <1>1, <1>2, <1>4 DEF TruthIInv, KnownIsTrue
<1> QED
  BY <1>3, <1>4

\* It replies, but not OK to ControllerExpandVolume.
LEMMA ReplyTruth ==
    ASSUME AnswerIInv, TruthIInv, NEW p \in Proc, NEW r, Reply(p, r),
           r = "ok" => req[p].op # "expand"
    PROVE  NoListing(p)' /\ ExpandTrue(p)'
  BY DEF Reply, NoListing, ExpandTrue, AboutTo, TruthIInv, AnswerIInv, ServiceIInv

\* Or has nothing to say.
LEMMA SilentTruth ==
    ASSUME TruthIInv, NEW p \in Proc, reply'[p] = "none", todo'[p] = {}, at'[p] \notin {"list", "store"}
    PROVE  NoListing(p)' /\ ExpandTrue(p)'
  BY DEF NoListing, ExpandTrue, AboutTo

\* What is known does not change.
LEMMA SameTruth ==
    ASSUME AnswerIInv, TruthIInv, UNCHANGED <<volId, state, info, share>>,
           \A n \in Name : vHash'[n] \in {vHash[n], NoVol}
    PROVE  InfoTyped' /\ KnownIsTrue'
  BY DEF TruthIInv, InfoTyped, KnownIsTrue

LEMMA ArriveTruth ==
    ASSUME AnswerIInv, TruthIInv, NEW p \in Proc, NEW r \in Requests, Arrive(p, r)
    PROVE  KeepsTruth(p)
<1>1. /\ UNCHANGED <<cacheVars, share, info, todo, reply>> /\ Free(p) /\ r.op # "list"
      /\ at'[p] = FirstCall(r.op)
  BY DEF Arrive, Call, AnswerIInv, ServiceIInv
<1>2. reply'[p] = "none" /\ todo'[p] = {}
  BY <1>1 DEF Free, AnswerIInv, HandlerAnswers, RepliedAt
<1>3. r.op \in {"create", "expand", "publish", "unpublish", "delete", "get", "list"}
  BY RequestFacts
<1>4. at'[p] \notin {"list", "store"}
  BY <1>1, <1>3 DEF FirstCall
<1> QED
  BY <1>1, <1>2, <1>4, SilentTruth, SameTruth DEF KeepsTruth, cacheVars

LEMMA ObtainTruth ==
    ASSUME AnswerIInv, TruthIInv, NEW p \in Proc, Obtain(p)
    PROVE  KeepsTruth(p)
<1>0. TypeOK /\ reply[p] = "none" /\ share' = share /\ pc[p] \in {"lookup", "new", "lock"}
      /\ NoListing(p)
  BY DEF AnswerIInv, ServiceIInv, IInv, TruthIInv, Obtain, HandlerAnswers, RepliedAt,
         LookupHit, LookupMiss, NewHit, NewMiss, LockVolume
<1>1. NoListing(p)' /\ ExpandTrue(p)'
  <2>1. CASE UNCHANGED <<req, at, todo, reply>>
    BY <1>0, <2>1, SilentTruth DEF NoListing
  <2>2. CASE Reply(p, LookupReply(p, "busy"))
    BY <2>2, ReplyTruth DEF LookupReply
  <2> QED
    BY <2>1, <2>2 DEF Obtain
<1>2. CASE NewMiss(p)
  <2>1. PICK v \in Vol : /\ Unused(v)
                         /\ vHash' = [vHash EXCEPT ![NameFor(p)] = v]
                         /\ volId' = [volId EXCEPT ![v] = id[p]]
                         /\ state' = [state EXCEPT ![v] = "creating"]
                         /\ zvol' = [zvol EXCEPT ![p] = v]
    BY <1>2 DEF NewMiss
  <2>2. info' = [info EXCEPT ![v] = UnknownInfo]
    BY <1>0, <1>2, <2>1 DEF Obtain, NewMiss, LookupHit, LookupMiss, NewHit, LockVolume, TypeOK
  <2>3. InfoTyped'
    BY <2>2 DEF TruthIInv, InfoTyped, UnknownInfo
  <2>4. KnownIsTrue'
    <3> SUFFICES ASSUME NEW n \in Name, vHash'[n] # NoVol, state'[vHash'[n]] = "created"
                 PROVE  share[volId'[vHash'[n]]] # NoShare
                          /\ share[volId'[vHash'[n]]].cap = info'[vHash'[n]].cap
      BY <1>0 DEF KnownIsTrue
    <3>1. vHash'[n] # v
      BY <1>0, <2>1 DEF TypeOK
    <3>2. vHash'[n] = vHash[n] /\ vHash[n] \in Vol
      BY <1>0, <2>1, <3>1 DEF TypeOK
    <3>3. volId'[vHash[n]] = volId[vHash[n]] /\ state'[vHash[n]] = state[vHash[n]]
          /\ info'[vHash[n]] = info[vHash[n]]
      BY <1>0, <2>1, <2>2, <3>1, <3>2 DEF TypeOK, AnswerIInv, InfoInv
    <3> QED
      BY <3>2, <3>3 DEF TruthIInv, KnownIsTrue
  <2> QED
    BY <1>1, <2>3, <2>4 DEF KeepsTruth
<1>3. CASE ~NewMiss(p)
  <2>1. UNCHANGED <<vHash, info, state, volId>>
    BY <1>3 DEF Obtain, LookupHit, LookupMiss, NewHit, LockVolume, HoldCached, cacheVars
  <2> QED
    BY <1>0, <1>1, <2>1, SameTruth DEF KeepsTruth
<1> QED
  BY <1>2, <1>3

LEMMA DetailsTruth ==
    ASSUME AnswerIInv, TruthIInv, NEW p \in Proc, NEW o \in {"answered", "lost"}, GetDetails(p, o)
    PROVE  KeepsTruth(p)
<1>0. /\ TypeOK /\ pc[p] = "details" /\ reply[p] = "none" /\ NoListing(p)
      /\ UNCHANGED <<vHash, volId, todo, share>>
      /\ share \in [VolumeId -> Shares \cup {NoShare}]
      /\ id[p] \in VolumeId /\ zvol[p] \in Vol
  BY MadeForIt DEF AnswerIInv, ServiceIInv, IInv, GetDetails, Details, Reply, HandlerAnswers,
     RepliedAt, TruthIInv, Referring, Counted
<1>1. CASE pc'[p] = "own"
  <2>1. /\ UNCHANGED <<at, reply>> /\ share[id[p]] # NoShare /\ SetInfo(p, share[id[p]])
        /\ state' = [state EXCEPT ![zvol[p]] = "created"]
    BY <1>0, <1>1 DEF GetDetails, Details, Goto, TypeOK
  <2>2. /\ InfoTyped' /\ info'[zvol[p]].cap = share[id[p]].cap
        /\ \A v \in Vol \ {zvol[p]} : state'[v] = state[v] /\ info'[v] = info[v]
    BY <1>0, <2>1 DEF SetInfo, InfoTyped, TruthIInv, Shares, TypeOK
  <2>3. KnownIsTrue'
    BY <1>0, <2>1, <2>2, OwnTruth
  <2> QED
    BY <1>0, <2>1, <2>2, <2>3, SilentTruth DEF KeepsTruth, NoListing
<1>2. CASE pc'[p] # "own"
  <2>1. /\ UNCHANGED <<info, state>>
        /\ \E r \in {"notfound", "error"} : Reply(p, LookupReply(p, r))
    BY <1>0, <1>2 DEF GetDetails, Details, Goto, TypeOK
  <2>2. NoListing(p)' /\ ExpandTrue(p)'
    BY <2>1, ReplyTruth DEF LookupReply
  <2> QED
    BY <1>0, <2>1, <2>2, SameTruth DEF KeepsTruth
<1> QED
  BY <1>1, <1>2

\* setInfo with the share as it is.
LEMMA StoreTruth ==
    ASSUME AnswerIInv, TruthIInv, NEW p \in Proc, NEW share1, Store(p, share1), share1.cap \in Nat,
           \A i \in VolumeId \ {id[p]} : share'[i] = share[i],
           share'[id[p]] # NoShare, share'[id[p]].cap = share1.cap
    PROVE  InfoTyped' /\ KnownIsTrue'
<1> DEFINE x == [cap |-> share1.cap,
                 modes |-> IF IsBlock(p) THEN info[zvol[p]].modes ELSE TRUE,
                 href |-> share1 # Nothing]
<1>1. pc[p] = "own" /\ info' = [info EXCEPT ![zvol[p]] = x] /\ UNCHANGED <<vHash, volId>>
  BY DEF Store, SetInfo, SetState
<1>2. zvol[p] \in Vol /\ info \in [Vol -> [cap : Nat, modes : BOOLEAN, href : BOOLEAN]]
  BY <1>1, MadeForIt DEF AnswerIInv, ServiceIInv, TruthIInv, InfoTyped, Referring, Counted
<1>3. x \in [cap : Nat, modes : BOOLEAN, href : BOOLEAN] /\ x.cap = share1.cap
  BY <1>2
<1> HIDE DEF x
<1>4. InfoTyped'
  BY <1>1, <1>2, <1>3 DEF InfoTyped
<1>5. \A v \in Vol \ {zvol[p]} : state'[v] = state[v] /\ info'[v] = info[v]
  BY <1>1, <1>2, StateOfMine DEF Store
<1>6. info'[zvol[p]].cap = share1.cap
  BY <1>1, <1>2, <1>3
<1>7. KnownIsTrue'
  BY <1>1, <1>5, <1>6, OwnTruth
<1> QED
  BY <1>4, <1>7

\* A volume that is dropped: whatever became of its share.
LEMMA DropTruth ==
    ASSUME AnswerIInv, TruthIInv, NEW p \in Proc, SetState(p, "deleted"), info' = info,
           \A i \in VolumeId \ {id[p]} : share'[i] = share[i]
    PROVE  InfoTyped' /\ KnownIsTrue'
<1>1. /\ UNCHANGED <<vHash, volId>> /\ state'[zvol[p]] = "deleted" /\ pc[p] = "own"
      /\ \A v \in Vol \ {zvol[p]} : state'[v] = state[v] /\ info'[v] = info[v]
  BY StateOfMine, MadeForIt DEF SetState, AnswerIInv, ServiceIInv, IInv, TypeOK, Referring, Counted
<1>2. KnownIsTrue'
  BY <1>1, OwnTruth
<1> QED
  BY <1>2 DEF TruthIInv, InfoTyped

LEMMA CreateTruth ==
    ASSUME AnswerIInv, TruthIInv, NEW p \in Proc, NEW o \in {"answered", "lost"},
           CreatePost(p, o) \/ CreateRefresh(p, o)
    PROVE  KeepsTruth(p)
<1>0. /\ pc[p] = "own" /\ req[p].op = "create" /\ req[p].range \in Ranges /\ id[p] \in VolumeId
      /\ share \in [VolumeId -> Shares \cup {NoShare}] /\ NoListing(p) /\ reply[p] = "none"
      /\ DOMAIN at = Proc
  BY DEF CreatePost, CreateRefresh, Calls, AnswerIInv, HandlerAnswers, OpMatches, RepliedAt,
         ServiceIInv, HandlerMatches, IInv, LocalsSet, TruthIInv
<1>1. CASE CreatePost(p, o)
  <2>1. \/ /\ Store(p, Made(p)) /\ Reply(p, "ok")
           /\ share' = [share EXCEPT ![id[p]] = Made(p)]
        \/ Stay /\ Then(p, "refresh") /\ share' = share
        \/ Stay /\ (\E r \in {"ok", "exists"} : Reply(p, r)) /\ share' = share
        \/ SetState(p, "deleted") /\ info' = info /\ Reply(p, "error") /\ share' = share
    BY <1>1 DEF CreatePost, Performed, Failed, Calls
  <2>2. CASE /\ Store(p, Made(p)) /\ Reply(p, "ok")
             /\ share' = [share EXCEPT ![id[p]] = Made(p)]
    <3>1. Made(p).cap \in Nat /\ Made(p) # NoShare
      <4>1. Made(p) \in Shares
        BY <1>0, SizeIsNat DEF Made, Shares, Group
      <4> QED
        BY <4>1, ServiceAssumption DEF Shares, Group
    <3>2. /\ share'[id[p]] = Made(p)
          /\ \A i \in VolumeId \ {id[p]} : share'[i] = share[i]
      BY <1>0, <2>2
    <3>3. InfoTyped' /\ KnownIsTrue'
      BY <2>2, <3>1, <3>2, StoreTruth
    <3> QED
      BY <1>0, <2>2, <3>3, ReplyTruth DEF KeepsTruth
  <2>3. CASE Stay /\ Then(p, "refresh") /\ share' = share
    <3>1. reply'[p] = "none" /\ todo'[p] = {} /\ at'[p] \notin {"list", "store"}
      BY <1>0, <2>3 DEF Then, NoListing
    <3> QED
      BY <2>3, <3>1, SilentTruth, SameTruth DEF KeepsTruth, Stay, vars, cacheVars
  <2>4. ASSUME Stay, NEW r \in {"ok", "exists"}, Reply(p, r), share' = share PROVE KeepsTruth(p)
    BY <1>0, <2>4, ReplyTruth, SameTruth DEF KeepsTruth, Stay, vars, cacheVars
  <2>5. CASE SetState(p, "deleted") /\ info' = info /\ Reply(p, "error") /\ share' = share
    BY <1>0, <2>5, ReplyTruth, DropTruth DEF KeepsTruth
  <2> QED
    BY <2>1, <2>2, <2>3, <2>4, <2>5
<1>2. CASE CreateRefresh(p, o)
  <2>1. share' = share /\ \E r : Reply(p, r)
    BY <1>2 DEF CreateRefresh
  <2>2. NoListing(p)' /\ ExpandTrue(p)'
    BY <1>0, <2>1, ReplyTruth
  <2>3. CASE Stay
    BY <2>1, <2>2, <2>3, SameTruth DEF KeepsTruth, Stay, vars, cacheVars
  <2>4. CASE ~Stay
    <3>1. share[id[p]] # NoShare /\ Store(p, share[id[p]])
      BY <1>2, <2>4 DEF CreateRefresh
    <3>2. share[id[p]].cap \in Nat
      BY <1>0, <3>1 DEF Shares
    <3> QED
      BY <2>1, <2>2, <3>1, <3>2, StoreTruth DEF KeepsTruth
  <2> QED
    BY <2>3, <2>4
<1> QED
  BY <1>1, <1>2

LEMMA DeleteTruth ==
    ASSUME AnswerIInv, TruthIInv, NEW p \in Proc, NEW o \in {"answered", "lost"},
           ListSnapshots(p, o) \/ DeleteShare(p, o)
    PROVE  KeepsTruth(p)
<1>0. /\ req[p].op = "delete" /\ NoListing(p) /\ reply[p] = "none" /\ DOMAIN at = Proc
      /\ DOMAIN share = VolumeId
  BY DEF ListSnapshots, DeleteShare, Calls, AnswerIInv, HandlerAnswers, OpMatches, RepliedAt, Asking,
         ServiceIInv, TruthIInv
<1>1. CASE ListSnapshots(p, o)
  <2>1. UNCHANGED <<vHash, share, info, state, volId>>
    BY <1>1 DEF ListSnapshots, Stay, vars, cacheVars
  <2>2. NoListing(p)' /\ ExpandTrue(p)'
    <3>1. CASE \E c \in {"snaps2", "delete"} : Then(p, c)
      BY <1>0, <3>1, SilentTruth DEF Then, NoListing
    <3>2. CASE \E r : Reply(p, r)
      BY <1>0, <3>2, ReplyTruth
    <3> QED
      BY <1>1, <3>1, <3>2 DEF ListSnapshots
  <2> QED
    BY <2>1, <2>2, SameTruth DEF KeepsTruth
<1>2. CASE DeleteShare(p, o)
  <2>1. \E r : Reply(p, r)
    BY <1>2 DEF DeleteShare
  <2>2. NoListing(p)' /\ ExpandTrue(p)'
    BY <1>0, <2>1, ReplyTruth
  <2>3. \A i \in VolumeId \ {id[p]} : share'[i] = share[i]
    BY <1>0, <1>2 DEF DeleteShare, Removed
  <2>4. CASE SetState(p, "deleted") /\ info' = info
    BY <2>2, <2>3, <2>4, DropTruth DEF KeepsTruth
  <2>5. CASE ~(SetState(p, "deleted") /\ info' = info)
    <3>1. Stay /\ share' = share
      BY <1>2, <2>5 DEF DeleteShare, Performed, Failed
    <3> QED
      BY <2>2, <3>1, SameTruth DEF KeepsTruth, Stay, vars, cacheVars
  <2> QED
    BY <2>4, <2>5
<1> QED
  BY <1>1, <1>2

\* A share with another initiator group is a share, of the same size.
LEMMA GroupKeepsShare ==
    ASSUME NEW sh \in Shares, NEW group \in Group
    PROVE  [sh EXCEPT !.group = group] # NoShare /\ [sh EXCEPT !.group = group].cap = sh.cap
<1>1. [sh EXCEPT !.group = group] \in Shares
  BY DEF Shares
<1> QED
  BY <1>1, ServiceAssumption DEF Shares, Group

LEMMA PublishTruth ==
    ASSUME AnswerIInv, TruthIInv, NEW p \in Proc, NEW o \in {"answered", "lost"},
           PublishGet(p, o) \/ PublishSet(p, o) \/ Unpublish(p, o)
    PROVE  KeepsTruth(p)
<1>0. /\ req[p].op \in {"publish", "unpublish"} /\ NoListing(p) /\ reply[p] = "none"
      /\ DOMAIN at = Proc /\ pc[p] = "own" /\ id[p] \in VolumeId
      /\ share \in [VolumeId -> Shares \cup {NoShare}]
      /\ at[p] = "setgroup" => req[p].node \in Node
  BY DEF PublishGet, PublishSet, Unpublish, Calls, AnswerIInv, HandlerAnswers, OpMatches, RepliedAt,
         ServiceIInv, IInv, LocalsSet, TruthIInv, HandlerMatches
<1>1. CASE PublishGet(p, o)
  <2>1. UNCHANGED <<vHash, share, info, state, volId>>
    BY <1>1 DEF PublishGet, Panic, Stay, vars, cacheVars
  <2>2. NoListing(p)' /\ ExpandTrue(p)'
    <3>1. CASE Then(p, "setgroup") \/ Panic
      BY <1>0, <3>1, SilentTruth DEF Then, Panic, handlerVars, NoListing
    <3>2. CASE \E r : Reply(p, r)
      BY <1>0, <3>2, ReplyTruth
    <3> QED
      BY <1>1, <3>1, <3>2 DEF PublishGet
  <2> QED
    BY <2>1, <2>2, SameTruth DEF KeepsTruth
<1>2. ASSUME NEW group \in Node \cup {MaskAll}, NEW gone, SetGroup(p, o, group, gone)
      PROVE  KeepsTruth(p)
  <2>1. Stay /\ \E r : Reply(p, r)
    BY <1>2 DEF SetGroup
  <2>2. NoListing(p)' /\ ExpandTrue(p)'
    BY <1>0, <2>1, ReplyTruth
  <2>3. \A i \in VolumeId : share[i] # NoShare =>
          share'[i] # NoShare /\ share'[i].cap = share[i].cap
    <3>1. group \in Group
      BY DEF Group
    <3>2. share' \in {share, [share EXCEPT ![id[p]].group = group]}
            /\ (share[id[p]] = NoShare => share' = share)
      BY <1>2 DEF SetGroup
    <3>3. share[id[p]] # NoShare =>
            LET changed == [share[id[p]] EXCEPT !.group = group]
            IN  changed # NoShare /\ changed.cap = share[id[p]].cap
      BY <1>0, <3>1, GroupKeepsShare
    <3> QED
      BY <1>0, <3>2, <3>3
  <2>4. InfoTyped' /\ KnownIsTrue'
    BY <2>1, <2>3 DEF TruthIInv, InfoTyped, KnownIsTrue, Stay, vars, cacheVars, AnswerIInv,
       ServiceIInv, IInv, CachedUnderName
  <2> QED
    BY <2>2, <2>4 DEF KeepsTruth
<1>3. CASE PublishSet(p, o)
  BY <1>0, <1>2, <1>3 DEF PublishSet, Calls
<1>4. CASE Unpublish(p, o)
  <2>1. CASE IsBlock(p)
    BY <1>2, <1>4, <2>1 DEF Unpublish
  <2>2. CASE ~IsBlock(p)
    BY <1>0, <1>4, <2>2, ReplyTruth, SameTruth DEF Unpublish, KeepsTruth, Stay, vars, cacheVars
  <2> QED
    BY <2>1, <2>2
<1> QED
  BY <1>1, <1>3, <1>4

\* A share with another size is a share.
LEMMA SizeKeepsShare ==
    ASSUME NEW sh \in Shares, NEW size \in Nat
    PROVE  [sh EXCEPT !.cap = size] # NoShare /\ [sh EXCEPT !.cap = size].cap = size
<1>1. [sh EXCEPT !.cap = size] \in Shares
  BY DEF Shares
<1> QED
  BY <1>1, ServiceAssumption DEF Shares, Group

\* ControllerExpandVolume finds in the cache what the share is.
LEMMA ExpandKnows ==
    ASSUME AnswerIInv, TruthIInv, NEW p \in Proc, NEW o \in Outcome, Expand(p, o)
    PROVE  /\ pc[p] = "own" /\ id[p] \in VolumeId /\ zvol[p] \in Vol
           /\ req[p].size \in Nat /\ info[zvol[p]].cap \in Nat
           /\ share[id[p]] # NoShare /\ share[id[p]].cap = info[zvol[p]].cap
<1>1. /\ pc[p] = "own" /\ id[p] \in VolumeId /\ state[zvol[p]] = "created"
      /\ req[p].size \in Nat
      /\ zvol[p] \in Vol /\ volId[zvol[p]] = id[p] /\ vHash[NameOf[id[p]]] = zvol[p]
  BY MadeForIt, ServiceAssumption DEF Expand, Calls, AnswerIInv, HandlerAnswers, AsksOfCreated,
     ServiceIInv, IInv, LocalsSet, TruthIInv, HandlerMatches, HeldIsCached, NameFor, Referring, Counted
<1>2. NameOf[id[p]] \in Name /\ zvol[p] # NoVol /\ info[zvol[p]].cap \in Nat
  BY <1>1, CacheAssumption DEF TruthIInv, InfoTyped
<1> QED
  BY <1>1, <1>2 DEF TruthIInv, KnownIsTrue

\* It confirms a size that is there.
LEMMA ExpandTruth ==
    ASSUME AnswerIInv, TruthIInv, NEW p \in Proc, NEW o \in {"answered", "lost"}, Expand(p, o)
    PROVE  KeepsTruth(p)
<1>0. /\ pc[p] = "own" /\ id[p] \in VolumeId
      /\ share \in [VolumeId -> Shares \cup {NoShare}] /\ req[p].size \in Nat
      /\ NoListing(p) /\ DOMAIN at = Proc /\ DOMAIN reply = Proc /\ zvol[p] \in Vol
      /\ InfoTyped /\ UNCHANGED req
  BY ExpandKnows DEF Expand, Calls, AnswerIInv, ServiceIInv, TruthIInv, Reply
<1>1. share[id[p]] # NoShare /\ share[id[p]].cap = info[zvol[p]].cap
  BY ExpandKnows DEF Expand, Calls
<1>2. UNCHANGED vars /\ pc'[p] = "own" /\ id'[p] = id[p]
  BY <1>0 DEF Expand, Stay, vars, procVars
<1>3. CASE share' = share /\ info' = info
  <2>1. PICK r : Reply(p, r) /\ (r = "ok" => info[zvol[p]].cap >= req[p].size)
    <3>1. ~Enough(p) => ~\E r : r = "ok" /\ Reply(p, r)
      <4> SUFFICES ASSUME ~Enough(p), Reply(p, "ok") PROVE FALSE
        OBVIOUS
      <4>1. KnowCapacity(p, req[p].size) /\ ~IsBlock(p)
        BY <1>0 DEF Expand, Reply, Failed
      <4>2. info'[zvol[p]].cap = req[p].size
        BY <1>0, <4>1 DEF KnowCapacity, InfoTyped
      <4> QED
        BY <1>0, <1>3, <4>2 DEF Enough
    <3> QED
      BY <3>1 DEF Expand, Enough
  <2>2. NoListing(p)'
    BY <1>0, <2>1 DEF Reply, NoListing
  <2>3. ExpandTrue(p)'
    BY <1>0, <1>1, <1>2, <1>3, <2>1 DEF ExpandTrue, AboutTo, Reply
  <2>4. InfoTyped' /\ KnownIsTrue'
    BY <1>2, <1>3, SameTruth DEF vars, cacheVars
  <2> QED
    BY <2>2, <2>3, <2>4 DEF KeepsTruth
<1>4. CASE ~(share' = share /\ info' = info)
  <2>1. /\ ~Enough(p) /\ share' = Resized(p) /\ KnowCapacity(p, req[p].size) /\ Reply(p, "ok")
    BY <1>0, <1>1, <1>4 DEF Expand, Stay, Performed, Failed
  <2>2. /\ share'[id[p]] # NoShare /\ share'[id[p]].cap = req[p].size
        /\ \A i \in VolumeId \ {id[p]} : share'[i] = share[i]
    <3>1. share' = [share EXCEPT ![id[p]].cap = req[p].size]
      BY <1>1, <2>1 DEF Resized
    <3>2. [share[id[p]] EXCEPT !.cap = req[p].size] # NoShare
            /\ [share[id[p]] EXCEPT !.cap = req[p].size].cap = req[p].size
      BY <1>0, <1>1, SizeKeepsShare
    <3> QED
      BY <1>0, <3>1, <3>2
  <2>3. /\ InfoTyped' /\ info'[zvol[p]].cap = req[p].size
        /\ \A v \in Vol \ {zvol[p]} : state'[v] = state[v] /\ info'[v] = info[v]
    BY <1>0, <1>2, <2>1 DEF KnowCapacity, InfoTyped, vars, cacheVars
  <2>4. KnownIsTrue'
    BY <1>0, <1>2, <2>2, <2>3, OwnTruth DEF vars, cacheVars
  <2>5. NoListing(p)' /\ ExpandTrue(p)'
    BY <1>0, <1>2, <2>1, <2>2 DEF Reply, NoListing, ExpandTrue, AboutTo
  <2> QED
    BY <2>3, <2>4, <2>5 DEF KeepsTruth
<1> QED
  BY <1>3, <1>4

\* The other requests that only look, and the way back.
LEMMA ReturnTruth ==
    ASSUME AnswerIInv, TruthIInv, NEW p \in Proc, Get(p) \/ Return(p) \/ GiveBack(p)
    PROVE  KeepsTruth(p)
<1>0. /\ TypeOK /\ DOMAIN req = Proc /\ DOMAIN reply = Proc /\ DOMAIN at = Proc
      /\ NoListing(p) /\ ExpandTrue(p) /\ HandlerMatches
      /\ UNCHANGED <<id, volId, state, info, todo, share>>
  BY DEF AnswerIInv, ServiceIInv, IInv, TruthIInv, Get, Stay, Reply, vars, Return, Finish, GiveBack,
         Release, ReleaseRef, ReleaseFast, ReleaseSlow, ReleaseCheck, UnlockPanic, serviceVars,
         handlerVars, cacheVars, procVars
<1>1. CASE Get(p)
  <2>1. req[p].op = "get"
    BY <1>1 DEF Get, Calls, AnswerIInv, HandlerAnswers, OpMatches
  <2> QED
    BY <1>0, <1>1, <2>1, ReplyTruth, SameTruth DEF Get, KeepsTruth, Stay, vars, cacheVars
<1>2. CASE Return(p) \/ GiveBack(p)
  <2>1. \A n \in Name : vHash'[n] \in {vHash[n], NoVol}
    BY <1>0, <1>2 DEF Return, Finish, GiveBack, Release, ReleaseRef, ReleaseFast, ReleaseSlow,
       ReleaseCheck, UnlockPanic, cacheVars, TypeOK
  <2>2. /\ UNCHANGED at
        /\ reply'[p] = "none" \/ (UNCHANGED <<req, reply>> /\ (pc'[p] \in Owning => pc[p] \in Owning))
    BY <1>0, <1>2 DEF Return, Finish, GiveBack, Release, ReleaseRef, ReleaseFast, ReleaseSlow,
       ReleaseCheck, UnlockPanic, Goto, Owning, TypeOK, serviceVars, handlerVars
  <2>3. NoListing(p)' /\ ExpandTrue(p)'
    BY <1>0, <2>2 DEF NoListing, ExpandTrue, AboutTo
  <2> QED
    BY <1>0, <2>1, <2>3, SameTruth DEF KeepsTruth
<1> QED
  BY <1>1, <1>2

\* A quiet step keeps the truth.
LEMMA QuietStepTruth ==
    ASSUME AnswerIInv, TruthIInv, NEW p \in Proc, QuietStep(p)
    PROVE  KeepsTruth(p)
<1>1. ~ListNext(p) /\ ~ListStore(p)
  BY DEF ListNext, ListStore, Calls, TruthIInv, NoListing
<1>2. ASSUME NEW o \in {"answered", "lost"}, RestCall(p, o) PROVE KeepsTruth(p)
  <2>1. ~ListShares(p, o)
    BY DEF ListShares, TruthIInv, NoListing
  <2> QED
    BY <1>2, <2>1, DetailsTruth, CreateTruth, DeleteTruth, PublishTruth, ExpandTruth DEF RestCall
<1> QED
  BY <1>1, <1>2, ArriveTruth, ObtainTruth, ReturnTruth DEF QuietStep

\* It changes the size only upwards, also if the answer is lost.
LEMMA ExpandGrows ==
    ASSUME AnswerIInv, TruthIInv, NEW p \in Proc, NEW o \in Outcome, Expand(p, o)
    PROVE  NoShrink
<1>0. share \in [VolumeId -> Shares \cup {NoShare}] /\ \A sh \in Shares : sh.cap \in Nat
  BY DEF AnswerIInv, ServiceIInv, Shares
<1>1. CASE share' = share
  BY <1>0, <1>1 DEF NoShrink
<1>2. CASE share' # share
  <2>1. ~Enough(p) /\ share' = [share EXCEPT ![id[p]].cap = req[p].size]
    BY <1>2 DEF Expand, Resized
  <2>2. ~(share[id[p]].cap >= req[p].size) /\ share[id[p]].cap \in Nat /\ req[p].size \in Nat
    BY <2>1, ExpandKnows DEF Enough
  <2>3. share[id[p]] \in Shares /\ id[p] \in VolumeId
    BY <1>0, ExpandKnows
  <2>4. [share[id[p]] EXCEPT !.cap = req[p].size].cap = req[p].size
    BY <2>2, <2>3, SizeKeepsShare
  <2>5. /\ share'[id[p]].cap = req[p].size
        /\ \A i \in VolumeId \ {id[p]} : share'[i] = share[i]
    BY <1>0, <2>1, <2>3, <2>4
  <2> QED
    BY <1>0, <2>2, <2>5 DEF NoShrink
<1> QED
  BY <1>1, <1>2

\* No other step makes a share smaller.
LEMMA StepGrows ==
    ASSUME AnswerIInv, TruthIInv, [ServiceNext]_allVars
    PROVE  NoShrink
<1>0. share \in [VolumeId -> Shares \cup {NoShare}] /\ \A sh \in Shares : sh.cap \in Nat
  BY DEF AnswerIInv, ServiceIInv, Shares
<1>1. share' = share => NoShrink
  BY <1>0 DEF NoShrink
<1>2. ASSUME NEW p \in Proc, NEW o \in Outcome, CreatePost(p, o) PROVE NoShrink
  BY <1>0, <1>2 DEF CreatePost, NoShrink
<1>3. ASSUME NEW p \in Proc, NEW o \in Outcome, DeleteShare(p, o) PROVE NoShrink
  BY <1>0, <1>3 DEF DeleteShare, Removed, NoShrink
<1>4. ASSUME NEW p \in Proc, NEW o \in Outcome, PublishSet(p, o) \/ Unpublish(p, o) PROVE NoShrink
  BY <1>0, <1>4 DEF PublishSet, Unpublish, SetGroup, NoShrink, Shares
<1>5. ASSUME NEW p \in Proc, NEW o \in Outcome,
             GetDetails(p, o) \/ CreateRefresh(p, o) \/ ListSnapshots(p, o) \/ PublishGet(p, o)
               \/ ListShares(p, o)
      PROVE  share' = share
  BY <1>5 DEF GetDetails, CreateRefresh, ListSnapshots, PublishGet, ListShares
<1>6. ASSUME NEW p \in Proc,
             ArriveAny(p) \/ Obtain(p) \/ Get(p) \/ ListNext(p) \/ ListStore(p)
               \/ Return(p) \/ GiveBack(p)
      PROVE  share' = share
  BY <1>6 DEF ArriveAny, Arrive, ArriveList, Obtain, Get, ListNext, ListStore, Return, GiveBack,
     serviceVars
<1>7. CASE Environment
  BY <1>0, <1>7 DEF Environment, Administer, NoShrink, Shares
<1>8. UNCHANGED allVars => share' = share
  BY DEF allVars, serviceVars
<1> QED
  BY <1>1, <1>2, <1>3, <1>4, <1>5, <1>6, <1>7, <1>8, ExpandGrows DEF ServiceNext, Handle, RestCall

\* The inductive invariant of quiet behaviours.
HistoryIInv == quiet \in BOOLEAN /\ (quiet => AnswerIInv /\ TruthIInv)

LEMMA InitHistory == HistoryInit => HistoryIInv
<1> SUFFICES ASSUME HistoryInit PROVE HistoryIInv
  OBVIOUS
<1>1. TruthIInv
  BY CacheAssumption DEF HistoryInit, ServiceInit, Init, TruthIInv, InfoTyped, KnownIsTrue, NoListing,
     ExpandTrue, AboutTo, UnknownInfo
<1> QED
  BY <1>1, InitAnswers DEF HistoryInit, HistoryIInv

\* A step that leaves a behaviour quiet is a quiet step of somebody.
LEMMA QuietSteps ==
    ASSUME quiet \in BOOLEAN, [HistoryNext]_historyVars
    PROVE  /\ quiet' \in BOOLEAN /\ [ServiceNext]_allVars
           /\ quiet' => (quiet /\ ((\E p \in Proc : QuietStep(p)) \/ UNCHANGED allVars))
<1>1. ASSUME NEW p \in Proc, Arrives(p)
      PROVE  quiet' \in BOOLEAN /\ ArriveAny(p) /\ (quiet' => (quiet /\ QuietStep(p)))
  <2>1. PICK r \in Requests :
              (Arrive(p, r) /\ UNCHANGED quiet) \/ (ArriveList(p, r) /\ quiet' = FALSE)
    BY <1>1 DEF Arrives
  <2>2. CASE Arrive(p, r) /\ quiet' = quiet
    BY <2>2, Zenon DEF ArriveAny, QuietStep
  <2>3. CASE ArriveList(p, r) /\ quiet' = FALSE
    BY <2>3, Zenon DEF ArriveAny
  <2> QED
    BY <2>1, <2>2, <2>3
<1>2. ASSUME NEW p \in Proc, NEW o \in Outcome,
             RestCall(p, o), quiet' = (quiet /\ o \in {"answered", "lost"})
      PROVE  quiet' \in BOOLEAN /\ Handle(p) /\ (quiet' => (quiet /\ QuietStep(p)))
  BY <1>2 DEF Handle, QuietStep
<1>3. ASSUME NEW p \in Proc, UNCHANGED quiet,
             Obtain(p) \/ Get(p) \/ ListNext(p) \/ ListStore(p) \/ Return(p) \/ GiveBack(p)
      PROVE  /\ quiet' \in BOOLEAN /\ (Obtain(p) \/ Handle(p) \/ GiveBack(p))
             /\ quiet' => (quiet /\ QuietStep(p))
  BY <1>3 DEF Handle, QuietStep
<1>4. CASE \E p \in Proc : Arrives(p) \/ Works(p)
  BY <1>1, <1>2, <1>3, <1>4 DEF Works, ServiceNext
<1>5. CASE Environment /\ quiet' = FALSE
  BY <1>5 DEF ServiceNext
<1>6. CASE UNCHANGED historyVars
  BY <1>6 DEF historyVars
<1> QED
  BY <1>4, <1>5, <1>6 DEF HistoryNext

LEMMA StepHistory ==
    ASSUME NoNilCtx, HistoryIInv, [HistoryNext]_historyVars
    PROVE  HistoryIInv' /\ (quiet => NoShrink)
<1>1. quiet' \in BOOLEAN /\ [ServiceNext]_allVars
  BY QuietSteps DEF HistoryIInv
<1>2. quiet => NoShrink
  BY <1>1, StepGrows DEF HistoryIInv
<1> SUFFICES ASSUME quiet' PROVE AnswerIInv' /\ TruthIInv'
  BY <1>1, <1>2 DEF HistoryIInv
<1>3. AnswerIInv /\ TruthIInv
  BY QuietSteps DEF HistoryIInv
<1>4. ASSUME NEW p \in Proc, QuietStep(p) PROVE AnswerIInv' /\ TruthIInv'
  <2>1. Unrefused(p)
    <3>1. \A o \in {"answered", "lost"} : RestCall(p, o) => o \in Outcome
      BY DEF RestCall, GetDetails, CreatePost, CreateRefresh, ListSnapshots, DeleteShare, PublishGet,
         PublishSet, Unpublish, Expand, ListShares, Calls
    <3> QED
      BY <1>4, <3>1 DEF QuietStep, Unrefused, ArriveAny
  <2>2. AnswerIInv' /\ Keeps(p)
    BY <1>3, <2>1, UnrefusedAnswers, UnrefusedKeeps
  <2> QED
    BY <1>3, <1>4, <2>2, QuietStepTruth, TruthKept
<1>5. CASE UNCHANGED allVars
  <2>1. AnswerIInv'
    BY <1>3, <1>5, StutterAnswers
  <2>2. TruthIInv'
    BY <1>3, <1>5 DEF allVars, vars, cacheVars, procVars, serviceVars, handlerVars, TruthIInv,
       InfoTyped, KnownIsTrue, NoListing, ExpandTrue, AboutTo
  <2> QED
    BY <2>1, <2>2
<1> QED
  BY <1>4, <1>5, QuietSteps DEF HistoryIInv

\* As long as every call that was carried out was answered, no listing ran and
\* nobody else changed the appliance, what the cache says of a volume nobody
\* works on is so (setInfo and the states in controller_fs.go).
THEOREM QuietCacheIsTruthful == NoNilCtx => (HistorySpec => []QuietTruthful)
<1> SUFFICES ASSUME NoNilCtx PROVE HistorySpec => []QuietTruthful
  OBVIOUS
<1>1. HistoryIInv /\ [HistoryNext]_historyVars => HistoryIInv'
  BY StepHistory
<1>2. HistoryIInv => QuietTruthful
  BY DEF HistoryIInv, TruthIInv, KnownIsTrue, QuietTruthful, CacheIsTruthful
<1> QED
  BY InitHistory, <1>1, <1>2, PTL DEF HistorySpec

\* And an OK to ControllerExpandVolume is true, though the size is compared
\* with the cached one (controller_fs.go:227).
THEOREM QuietExpandAnswersTruly == NoNilCtx => (HistorySpec => []QuietExpanded)
<1> SUFFICES ASSUME NoNilCtx PROVE HistorySpec => []QuietExpanded
  OBVIOUS
<1>1. HistoryIInv /\ [HistoryNext]_historyVars => HistoryIInv'
  BY StepHistory
<1>2. HistoryIInv => QuietExpanded
  BY DEF HistoryIInv, TruthIInv, ExpandTrue, QuietExpanded, ExpandedIsLarge
<1> QED
  BY InitHistory, <1>1, <1>2, PTL DEF HistorySpec

\* And no share becomes smaller, though the quota that is set was compared
\* with the cached size only (controller_fs.go:227).
THEOREM QuietExpandNeverShrinks == NoNilCtx => (HistorySpec => QuietNeverShrinks)
<1> SUFFICES ASSUME NoNilCtx PROVE HistorySpec => QuietNeverShrinks
  OBVIOUS
<1>1. HistoryIInv /\ [HistoryNext]_historyVars => HistoryIInv'
  BY StepHistory
<1>2. HistoryIInv /\ [HistoryNext]_historyVars => (quiet => NoShrink)
  BY StepHistory
<1> QED
  BY InitHistory, <1>1, <1>2, PTL DEF HistorySpec, QuietNeverShrinks
=============================================================================
