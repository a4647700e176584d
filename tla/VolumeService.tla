---------------------------- MODULE VolumeService ----------------------------
(***************************************************************************)
(* The volume methods of the controller service (controller.go,            *)
(* controller_fs.go, controller_block.go) on top of the volume cache, in   *)
(* front of a ZFS storage appliance that is asked over REST.               *)
(*                                                                         *)
(* A request looks its volume up (VolumeCache), works on it one REST call  *)
(* at a time, replies and releases it.  A REST call is one action: what    *)
(* the appliance does and what the driver does with the answer; between    *)
(* two calls of one request anything else may happen.  A call may be       *)
(*   "answered"  carried out (or refused) and answered,                    *)
(*   "lost"      not carried out, the driver sees an error,                *)
(*   "noanswer"  carried out, but the driver sees an error,                *)
(*   "unauth"    refused twice with status 401, which MakeRequest returns  *)
(*               without an error: the driver goes on with an empty answer.*)
(*                                                                         *)
(* A restart of the driver is a new behaviour: Init has an empty cache and *)
(* an appliance with whatever shares earlier runs or other users left.     *)
(* A share carries its snapshots and, if it is a clone, the snapshot it was*)
(* made from; the methods that make and delete these are in                *)
(* SnapshotService.tla.  Read-only shares are not modelled.                *)
(*                                                                         *)
(* Names are used once (NamesAssumption): the CO makes the names it asks   *)
(* for unique.  What equal names do to the cache is in VolumeCache.tla.    *)
(***************************************************************************)
EXTENDS VolumeCache

CONSTANTS BlockId,      \* the volume IDs of LUNs; the others are filesystems
          Node,         \* node names, which are also initiator groups
          MaskAll,      \* the initiator group that admits nobody
          OtherHost,    \* an initiator group the driver did not set
          EmptyList,    \* a LUN without initiator groups
          NoShare,
          SnapName,     \* names of snapshots on the appliance
          NoOrigin,     \* the origin of a share that is not a clone
          Capacity,     \* sizes of shares
          Ranges,        \* capacity ranges of requests: [required, limit]
          DefaultSize,  \* DefaultVolumeSizeBytes
          Op,           \* the requests that arrive
          Faults,       \* the faults of REST calls that happen
          AdminGroup,   \* the initiator groups an administrator sets
          InitialShare  \* shares that may be there when the driver starts

ASSUME ServiceAssumption ==
    /\ BlockId \subseteq VolumeId
    /\ {MaskAll, OtherHost, EmptyList} \cap Node = {}
    /\ MaskAll # EmptyList
    /\ Capacity \subseteq Nat \ {0} /\ DefaultSize \in Capacity
    /\ Ranges \subseteq [required : Nat, limit : Nat]
    /\ NoOrigin \notin VolumeId \X SnapName
    /\ LET Any == [cap : Nat, group : Node \cup {MaskAll, OtherHost, EmptyList},
                   snaps : SUBSET SnapName,
                   origin : (VolumeId \X SnapName) \cup {NoOrigin}]
       IN  NoShare \notin Any /\ InitialShare \subseteq Any \cup {NoShare}
    /\ Faults \subseteq {"lost", "noanswer", "unauth"}
    /\ AdminGroup \subseteq {OtherHost, EmptyList}

ASSUME NamesAssumption ==
    \A i, j \in VolumeId : NameOf[i] = NameOf[j] => i = j

VARIABLES
    share,     \* share[i]: the share with ID i on the appliance
    info,      \* info[v]: what structure v knows: capacity, access modes,
               \* and whether it has the href of the share
    req,       \* req[p]: the request p handles
    at,        \* at[p]: the next REST call of p, "done" when it has replied
    heard,     \* heard[p]: what p read from the appliance and is to use:
               \* an initiator group, or a share of a listing
    todo,      \* todo[p]: shares a listing has still to enter in the cache
    reply,     \* reply[p]: the reply of p to its request
    crashed    \* a handler panicked: the driver is gone

handlerVars == <<req, at, heard, todo, reply>>
serviceVars == <<share, info, handlerVars, crashed>>
allVars     == <<vars, serviceVars>>

Group  == Node \cup {MaskAll, OtherHost, EmptyList}
Shares == [cap : Nat, group : Group, snaps : SUBSET SnapName,
           origin : (VolumeId \X SnapName) \cup {NoOrigin}]
Item   == [id : VolumeId, cap : Nat]

NoRange == [required |-> 0, limit |-> 0]

Requests ==
    [op : {"create"}, id : VolumeId, range : Ranges]
      \cup [op : {"expand"}, id : VolumeId, size : Capacity]
      \cup [op : {"publish", "unpublish"}, id : VolumeId, node : Node]
      \cup [op : {"delete", "get"}, id : VolumeId]
      \cup [op : {"list"}, block : BOOLEAN]

Idle == [op |-> "none"]

Replies == {"none", "ok", "exists", "notfound", "busy", "precondition",
            "outofrange", "error"}

\* Where a handler that works on a volume can be: before its next REST call
\* (or before it replies without one), or before it stores a listed share.
Calling == {"post", "refresh", "snaps", "snaps2", "delete", "getgroup", "setgroup",
            "mask", "modify", "get", "store"}

ServiceTypeOK ==
    /\ TypeOK
    /\ share \in [VolumeId -> Shares \cup {NoShare}]
    /\ info \in [Vol -> [cap : Nat, modes : BOOLEAN, href : BOOLEAN]]
    /\ req \in [Proc -> Requests \cup {Idle}]
    /\ at \in [Proc -> Calling \cup {"list", "done"}]
    /\ heard \in [Proc -> Group \cup Item]
    /\ todo \in [Proc -> SUBSET Item]
    /\ reply \in [Proc -> Replies]
    /\ crashed \in BOOLEAN

UnknownInfo == [cap |-> 0, modes |-> FALSE, href |-> FALSE]

ServiceInit ==
    /\ Init
    /\ share \in [VolumeId -> InitialShare]
    /\ \A i \in VolumeId \ BlockId : share[i] # NoShare => share[i].group = MaskAll
    /\ \A i \in BlockId : share[i] # NoShare => share[i].cap > 0
    /\ info = [v \in Vol |-> UnknownInfo]
    /\ req = [p \in Proc |-> Idle]
    /\ at = [p \in Proc |-> "done"]
    /\ heard = [p \in Proc |-> MaskAll]
    /\ todo = [p \in Proc |-> {}]
    /\ reply = [p \in Proc |-> "none"]
    /\ crashed = FALSE

-----------------------------------------------------------------------------
(* Capacities.                                                             *)

\* getVolumeSize
VolumeSize(range) ==
    IF range.required > 0 THEN range.required
    ELSE IF range.limit > 0 /\ range.limit < DefaultSize THEN range.limit
    ELSE DefaultSize

\* compareCapacityRange
Fits(range, cap) ==
    /\ range.limit # 0 => cap <= range.limit
    /\ range.required # 0 => cap >= range.required

-----------------------------------------------------------------------------
(* REST calls.                                                             *)

Outcome == {"answered"} \cup Faults

Performed(o) == o \in {"answered", "noanswer"}
Failed(o)    == o \in {"lost", "noanswer"}

IsBlock(p) == id[p] \in BlockId

\* What the driver decodes from an empty answer: no size and no href.
Nothing == [cap |-> 0, group |-> EmptyList, snaps |-> {}, origin |-> NoOrigin]

\* The handler of p owns its volume and its next call is c.
Calls(p, c, o) ==
    /\ ~crashed
    /\ pc[p] = "own"
    /\ Alive
    /\ at[p] = c
    /\ o \in Outcome

\* zvol.setInfo: capacity, href and state; only a filesystem learns access
\* modes.
SetInfo(p, s) ==
    info' = [info EXCEPT ![zvol[p]] =
                [cap |-> s.cap, modes |-> IF IsBlock(p) THEN @.modes ELSE TRUE,
                 href |-> s # Nothing]]

\* Calls for a filesystem, and the list of snapshots, go to the href the
\* structure has; without one they go to the appliance as a whole.
HasHref(p) == info[zvol[p]].href

Store(p, s) == SetInfo(p, s) /\ SetState(p, "created")

\* The share that CreateFilesystem or CreateLUN makes.
Made(p) == [cap |-> VolumeSize(req[p].range), group |-> MaskAll,
            snaps |-> {}, origin |-> NoOrigin]

\* What is left after DeleteFilesystem or DeleteLun: snapshots of the share
\* are gone with it.
Removed(p) == [share EXCEPT ![id[p]] = NoShare]

\* ModifyFilesystem sets the quota; a share that is gone is not found.
Resized(p) ==
    IF share[id[p]] = NoShare THEN share ELSE [share EXCEPT ![id[p]].cap = req[p].size]

\* What GetFilesystems or GetLuns reports.
Listed(p) ==
    {[id |-> i, cap |-> share[i].cap] :
        i \in {j \in VolumeId : share[j] # NoShare /\ (j \in BlockId <=> req[p].block)}}

\* GetInitiatorGroupList of a LUN that is there.
GroupOf(p) == share[id[p]].group

Then(p, c) ==
    /\ at' = [at EXCEPT ![p] = c]
    /\ UNCHANGED <<req, todo, reply>>

Reply(p, r) ==
    /\ reply' = [reply EXCEPT ![p] = r]
    /\ at' = [at EXCEPT ![p] = "done"]
    /\ UNCHANGED <<req, todo>>

\* The cache and what it knows are left alone.
Stay == UNCHANGED <<vars, info>>

Panic == crashed' = TRUE /\ UNCHANGED <<vars, info, handlerVars>>

-----------------------------------------------------------------------------
(* Arrival of requests, and the cache's part of their life.                *)

FirstCall(op) ==
    CASE op = "create" -> "post"
      [] op = "delete" -> "snaps"
      [] op = "publish" -> "getgroup"
      [] op = "unpublish" -> "mask"
      [] op = "expand" -> "modify"
      [] op = "get" -> "get"
      [] op = "list" -> "list"

\* What the handlers make of an error of lookupVolume or lookupSnapshot:
\* DeleteVolume and ControllerUnpublishVolume take "not found" for success,
\* DeleteSnapshot any error; ListSnapshots replies with an empty list.
LookupReply(p, r) ==
    IF \/ req[p].op \in {"deletesnap", "getsnap", "listsnaps"}
       \/ r = "notfound" /\ req[p].op \in {"delete", "unpublish"}
    THEN "ok" ELSE r

Free(p) == pc[p] = "idle" /\ at[p] = "done" /\ todo[p] = {} /\ ~crashed /\ Alive

\* A request with a volume: CreateVolume calls newVolume, the others
\* lookupVolume.
Arrive(p, r) ==
    /\ Free(p)
    /\ r.op \in Op \ {"list"}
    /\ Call(p, IF r.op = "create" THEN "new" ELSE "lookup", r.id)
    /\ req' = [req EXCEPT ![p] = r]
    /\ at' = [at EXCEPT ![p] = FirstCall(r.op)]
    /\ UNCHANGED <<share, info, heard, todo, reply, crashed>>

\* A listing: updateFilesystemList or updateLunList.
ArriveList(p, r) ==
    /\ Free(p)
    /\ r.op \in Op \cap {"list"}
    /\ req' = [req EXCEPT ![p] = r]
    /\ at' = [at EXCEPT ![p] = "list"]
    /\ UNCHANGED <<vars, share, info, heard, todo, reply, crashed>>

\* The look-up and the wait for the bolt; a volume that is not created is
\* "busy" and is released.  A new structure knows nothing.
Obtain(p) ==
    /\ ~crashed
    /\ \/ /\ LookupHit(p) \/ LookupMiss(p) \/ NewHit(p)
          /\ UNCHANGED <<info, req, at, todo, reply>>
       \/ /\ NewMiss(p)
          /\ info' = [info EXCEPT ![zvol'[p]] = UnknownInfo]
          /\ UNCHANGED <<req, at, todo, reply>>
       \/ /\ LockVolume(p)
          /\ IF pc'[p] = "release" THEN Reply(p, LookupReply(p, "busy"))
             ELSE UNCHANGED <<req, at, todo, reply>>
          /\ UNCHANGED info
    /\ UNCHANGED <<share, heard, crashed>>

\* getDetails of lookupVolume: GetFilesystem or GetLun.
GetDetails(p, o) ==
    /\ ~crashed
    /\ o \in Outcome
    /\ pc[p] = "details"
    /\ Details(p)
    /\ \/ /\ pc'[p] = "own"
          /\ \/ o = "answered" /\ share[id[p]] # NoShare /\ SetInfo(p, share[id[p]])
             \/ o = "unauth" /\ SetInfo(p, Nothing)
          /\ UNCHANGED <<req, at, todo, reply>>
       \/ /\ pc'[p] = "release"
          /\ \/ /\ o = "answered" /\ share[id[p]] = NoShare
                /\ Reply(p, LookupReply(p, "notfound"))
             \/ Failed(o) /\ Reply(p, LookupReply(p, "error"))
          /\ UNCHANGED info
    /\ UNCHANGED <<share, heard, crashed>>

\* Mutant of Return: releaseVolume is forgotten.
ReturnUnreleased(p) ==
    /\ ~crashed
    /\ at[p] = "done"
    /\ pc[p] = "own"
    /\ Goto(p, "idle")
    /\ UNCHANGED <<cacheVars, call, id, zvol, serviceVars>>

\* The handler returns: the deferred releaseVolume runs.
Return(p) ==
    /\ ~crashed
    /\ at[p] = "done"
    /\ Finish(p)
    /\ UNCHANGED serviceVars

\* releaseVolume; with its end the reply is sent and the request forgotten.
GiveBack(p) ==
    /\ ~crashed
    /\ Release(p)
    /\ IF pc'[p] = "idle"
       THEN /\ reply' = [reply EXCEPT ![p] = "none"]
            /\ req' = IF todo[p] = {} THEN [req EXCEPT ![p] = Idle] ELSE req
            /\ heard' = [heard EXCEPT ![p] = MaskAll]
       ELSE UNCHANGED <<reply, req, heard>>
    /\ UNCHANGED <<share, info, at, todo, crashed>>

-----------------------------------------------------------------------------
(* CreateVolume: create of zFilesystem and zLUN.                           *)

\* Mutant of Compatible: an existing share is always good enough.
AlwaysCompatible(p, i) == TRUE

\* The capacity and the access modes of a volume that exists are compared
\* with the request; a LUN structure never learns its access modes.
Compatible(p, i) == Fits(req[p].range, i.cap) /\ i.modes

CreatePost(p, o) ==
    /\ Calls(p, "post", o)
    /\ LET i     == id[p]
           fresh == share[i] = NoShare
       IN /\ share' = IF fresh /\ Performed(o) THEN [share EXCEPT ![i] = Made(p)] ELSE share
          /\ \/ /\ o = "answered" /\ fresh                            \* 201
                /\ Store(p, Made(p)) /\ Reply(p, "ok") /\ UNCHANGED crashed
             \/ /\ o = "answered" /\ ~fresh                           \* 409
                /\ state[zvol[p]] = "created"
                /\ Stay /\ Then(p, "refresh") /\ UNCHANGED crashed
             \/ /\ o = "answered" /\ ~fresh
                /\ state[zvol[p]] # "created"
                /\ Stay /\ UNCHANGED crashed
                /\ Reply(p, IF Compatible(p, info[zvol[p]]) THEN "ok" ELSE "exists")
             \/ /\ Failed(o)
                /\ SetState(p, "deleted") /\ UNCHANGED <<info, crashed>>
                /\ Reply(p, "error")
             \/ /\ o = "unauth" /\ ~IsBlock(p)
                /\ Store(p, Nothing) /\ Reply(p, "ok") /\ UNCHANGED crashed
             \/ o = "unauth" /\ IsBlock(p) /\ Panic     \* AssignedNumber[0]
    /\ UNCHANGED heard

\* The share exists and was known: GetFilesystem or GetLun, then compared.
CreateRefresh(p, o) ==
    /\ Calls(p, "refresh", o)
    /\ LET answer == IF o = "answered" THEN share[id[p]] ELSE Nothing
       IN \/ /\ o = "unauth" \/ (o = "answered" /\ share[id[p]] # NoShare)
             /\ Store(p, answer)
             /\ Reply(p, IF Compatible(p, info'[zvol[p]]) THEN "ok" ELSE "exists")
          \/ o = "answered" /\ share[id[p]] = NoShare /\ Stay /\ Reply(p, "notfound")
          \/ Failed(o) /\ Stay /\ Reply(p, "error")
    /\ UNCHANGED <<share, heard, crashed>>

-----------------------------------------------------------------------------
(* DeleteVolume.                                                           *)

\* Mutant of HasSnapshots: the list is not looked at.
NoSnapshots(p) == FALSE

\* What GetSnapshots tells: of the share, or of all shares without its href.
HasSnapshots(p) ==
    IF HasHref(p) THEN share[id[p]].snaps # {}
    ELSE \E i \in VolumeId : share[i] # NoShare /\ share[i].snaps # {}

\* The list of snapshots of the share, asked for by DeleteVolume and again
\* by delete of zFilesystem; a share that is gone is an error this time.
ListSnapshots(p, o) ==
    /\ \/ Calls(p, "snaps", o)
       \/ Calls(p, "snaps2", o)
    /\ LET gone == HasHref(p) /\ share[id[p]] = NoShare
       IN \/ /\ o = "unauth" \/ (o = "answered" /\ ~gone /\ ~HasSnapshots(p))
             /\ Then(p, IF at[p] = "snaps" /\ ~IsBlock(p) THEN "snaps2" ELSE "delete")
          \/ o = "answered" /\ ~gone /\ HasSnapshots(p) /\ Reply(p, "precondition")
          \/ o = "answered" /\ gone /\ Reply(p, "notfound")
          \/ Failed(o) /\ Reply(p, "error")
    /\ Stay
    /\ UNCHANGED <<share, heard, crashed>>

\* Mutant of DeleteShare: the error is ignored.
DeleteUnchecked(p, o) ==
    /\ Calls(p, "delete", o)
    /\ share' = IF Performed(o) THEN Removed(p) ELSE share
    /\ SetState(p, "deleted") /\ UNCHANGED info /\ Reply(p, "ok")
    /\ UNCHANGED <<heard, crashed>>

\* DeleteFilesystem or DeleteLun; status 404 counts as success.  A DELETE
\* without an href does nothing, and the appliance refuses it, perhaps so.
DeleteShare(p, o) ==
    /\ Calls(p, "delete", o)
    /\ LET reaches == IsBlock(p) \/ HasHref(p)
       IN /\ share' = IF reaches /\ Performed(o) THEN Removed(p) ELSE share
          /\ \/ ~Failed(o) /\ SetState(p, "deleted") /\ UNCHANGED info /\ Reply(p, "ok")
             \/ /\ Failed(o) \/ (~reaches /\ o = "answered")
                /\ Stay /\ Reply(p, "error")
    /\ UNCHANGED <<heard, crashed>>

-----------------------------------------------------------------------------
(* ControllerPublishVolume and ControllerUnpublishVolume.                  *)

\* Mutant of PublishGet: the initiator group is not tested.
PublishUntested(p, o) ==
    /\ Calls(p, "getgroup", o)
    /\ IF IsBlock(p) /\ o = "answered" /\ share[id[p]] # NoShare THEN Then(p, "setgroup")
       ELSE Reply(p, IF IsBlock(p) THEN "error" ELSE "ok")
    /\ Stay
    /\ UNCHANGED <<share, heard, crashed>>

\* GetInitiatorGroupList, and the test that the LUN is masked.  The code
\* formats list[0] before it looks at the length of the list.
PublishGet(p, o) ==
    /\ Calls(p, "getgroup", o)
    /\ \/ /\ ~IsBlock(p) /\ o = "answered"
          /\ Reply(p, "ok") /\ Stay /\ UNCHANGED <<heard, crashed>>
       \/ /\ IsBlock(p) /\ o = "answered" /\ share[id[p]] # NoShare
          /\ LET group == GroupOf(p)
             IN \/ group = EmptyList /\ Panic /\ UNCHANGED heard
                \/ /\ group = MaskAll
                   /\ heard' = [heard EXCEPT ![p] = group]
                   /\ Then(p, "setgroup") /\ Stay /\ UNCHANGED crashed
                \/ /\ group \notin {EmptyList, MaskAll}
                   /\ heard' = [heard EXCEPT ![p] = group]
                   /\ Reply(p, "precondition") /\ Stay /\ UNCHANGED crashed
       \/ /\ IsBlock(p) /\ o = "answered" /\ share[id[p]] = NoShare
          /\ Reply(p, "notfound") /\ Stay /\ UNCHANGED <<heard, crashed>>
       \/ /\ IsBlock(p) /\ Failed(o)
          /\ Reply(p, "error") /\ Stay /\ UNCHANGED <<heard, crashed>>
       \/ IsBlock(p) /\ o = "unauth" /\ Panic
    /\ UNCHANGED share

\* Mutant of SetGroup: the error is ignored.
SetGroupUnchecked(p, o, group, ifGone) ==
    /\ share' = IF Performed(o) /\ share[id[p]] # NoShare
                THEN [share EXCEPT ![id[p]].group = group] ELSE share
    /\ Reply(p, "ok")
    /\ Stay
    /\ UNCHANGED <<heard, crashed>>

\* SetInitiatorGroupList by publish (to the node) and unpublish (to MaskAll).
SetGroup(p, o, group, ifGone) ==
    /\ share' = IF Performed(o) /\ share[id[p]] # NoShare
                THEN [share EXCEPT ![id[p]].group = group] ELSE share
    /\ \/ o = "answered" /\ share[id[p]] # NoShare /\ Reply(p, "ok")
       \/ o = "answered" /\ share[id[p]] = NoShare /\ Reply(p, ifGone)
       \/ o = "unauth" /\ Reply(p, "ok")
       \/ Failed(o) /\ Reply(p, "error")
    /\ Stay
    /\ UNCHANGED <<heard, crashed>>

PublishSet(p, o) ==
    /\ Calls(p, "setgroup", o)
    /\ SetGroup(p, o, req[p].node, "notfound")

Unpublish(p, o) ==
    /\ Calls(p, "mask", o)
    /\ IF IsBlock(p) THEN SetGroup(p, o, MaskAll, "ok")
       ELSE o = "answered" /\ Reply(p, "ok") /\ Stay /\ UNCHANGED <<share, heard, crashed>>

-----------------------------------------------------------------------------
(* ControllerExpandVolume, and the requests that only look the volume up   *)
(* (ControllerGetVolume, ValidateVolumeCapabilities).                      *)

\* Mutant of KnowCapacity: nothing is stored.
KnowNothing(p, c) == info' = info

KnowCapacity(p, c) == info' = [info EXCEPT ![zvol[p]].cap = c]

\* Mutants of Enough: off by one; never enough.
EnoughButOne(p) == info[zvol[p]].cap + 1 >= req[p].size
NeverEnough(p)  == FALSE

Enough(p) == info[zvol[p]].cap >= req[p].size

Expand(p, o) ==
    /\ Calls(p, "modify", o)
    /\ LET size == req[p].size
       IN \/ IsBlock(p) /\ o = "answered" /\ Reply(p, "outofrange") /\ Stay /\ UNCHANGED share
          \/ /\ ~IsBlock(p) /\ Enough(p) /\ o = "answered"
             /\ Reply(p, "ok") /\ Stay /\ UNCHANGED share
          \/ /\ ~IsBlock(p) /\ ~Enough(p)
             /\ share' = IF HasHref(p) /\ Performed(o) THEN Resized(p) ELSE share
             /\ \/ /\ o = "answered" /\ HasHref(p) /\ share[id[p]] # NoShare
                   /\ KnowCapacity(p, size) /\ UNCHANGED vars /\ Reply(p, "ok")
                \/ /\ o = "answered" /\ ~(HasHref(p) /\ share[id[p]] # NoShare)
                   /\ Stay /\ Reply(p, "notfound")
                \/ o = "unauth" /\ KnowCapacity(p, 0) /\ UNCHANGED vars /\ Reply(p, "ok")
                \/ Failed(o) /\ Stay /\ Reply(p, "error")
    /\ UNCHANGED <<heard, crashed>>

Get(p) ==
    /\ Calls(p, "get", "answered")
    /\ Reply(p, "ok") /\ Stay
    /\ UNCHANGED <<share, heard, crashed>>

-----------------------------------------------------------------------------
(* Listings: the shares are read once, then entered one by one.            *)

ListShares(p, o) ==
    /\ ~crashed
    /\ o \in Outcome
    /\ pc[p] = "idle" /\ at[p] = "list"
    /\ todo' = [todo EXCEPT ![p] = IF o = "answered" THEN Listed(p) ELSE {}]
    /\ at' = [at EXCEPT ![p] = "done"]
    /\ req' = IF todo'[p] = {} THEN [req EXCEPT ![p] = Idle] ELSE req
    /\ UNCHANGED <<vars, share, info, heard, reply, crashed>>

\* newVolume for one share of the list; if it fails, Obtain has replied
\* "busy" and the listing goes on with the next share ...
ListNext(p) ==
    /\ ~crashed
    /\ pc[p] = "idle" /\ at[p] = "done"
    /\ \E item \in todo[p] :
         /\ Call(p, "new", item.id)
         /\ heard' = [heard EXCEPT ![p] = item]
         /\ todo' = [todo EXCEPT ![p] = @ \ {item}]
    /\ at' = [at EXCEPT ![p] = "store"]
    /\ UNCHANGED <<share, info, req, reply, crashed>>

\* ... otherwise setInfo with what the list said of it.
ListStore(p) ==
    /\ Calls(p, "store", "answered")
    /\ Store(p, [Nothing EXCEPT !.cap = heard[p].cap, !.group = MaskAll])
    /\ at' = [at EXCEPT ![p] = "done"]
    /\ UNCHANGED <<share, req, heard, todo, reply, crashed>>

-----------------------------------------------------------------------------
\* Somebody else changes the initiator groups of a LUN on the appliance.
Administer(i, g) ==
    /\ share[i] # NoShare
    /\ share[i].group # g
    /\ share' = [share EXCEPT ![i].group = g]
    /\ UNCHANGED <<vars, info, handlerVars, crashed>>

RestCall(p, o) ==
    \/ GetDetails(p, o) \/ CreatePost(p, o) \/ CreateRefresh(p, o)
    \/ ListSnapshots(p, o) \/ DeleteShare(p, o)
    \/ PublishGet(p, o) \/ PublishSet(p, o) \/ Unpublish(p, o)
    \/ Expand(p, o) \/ ListShares(p, o)

Handle(p) ==
    \/ \E o \in Outcome : RestCall(p, o)
    \/ Get(p) \/ ListNext(p) \/ ListStore(p) \/ Return(p)

ArriveAny(p) == \E r \in Requests : Arrive(p, r) \/ ArriveList(p, r)

Environment == \E i \in BlockId, g \in AdminGroup : Administer(i, g)

ServiceNext ==
    \/ \E p \in Proc : ArriveAny(p) \/ Obtain(p) \/ Handle(p) \/ GiveBack(p)
    \/ Environment

ServiceSpec == ServiceInit /\ [][ServiceNext]_allVars
-----------------------------------------------------------------------------
\* p is about to send reply r to a request op, and still owns the volume.
AboutTo(p, op, r) == pc[p] \in Owning /\ req[p].op = op /\ reply[p] = r

\* What requests do to the cache is what VolumeCache allows.
ImplementsCache == Spec

\* No request takes a LUN away from a node: the initiator group of a LUN
\* goes from one node, or from another host, to a node only through MaskAll
\* (controller_block.go:181, "to avoid mistakenly publishing a Lun that may
\* be in use by other entity").
NeverStolen ==
    [][\A i \in BlockId :
          (share[i] # NoShare /\ share'[i] # NoShare /\ share'[i].group \in Node)
             => share[i].group \in {MaskAll, share'[i].group}]_allVars

\* When ControllerPublishVolume replies OK for a LUN, its node has access.
PublishedIsGranted ==
    \A p \in Proc : AboutTo(p, "publish", "ok") /\ IsBlock(p) =>
        share[id[p]] # NoShare /\ share[id[p]].group = req[p].node

\* When ControllerUnpublishVolume replies OK for a LUN, no node has access.
UnpublishedIsMasked ==
    \A p \in Proc : AboutTo(p, "unpublish", "ok") /\ IsBlock(p) =>
        share[id[p]] = NoShare \/ share[id[p]].group = MaskAll

\* When DeleteVolume replies OK, the share is gone, whatever was lost before.
DeletedIsGone ==
    \A p \in Proc : AboutTo(p, "delete", "ok") => share[id[p]] = NoShare

\* When CreateVolume replies OK, the share is there, has a size in the
\* range of the request, and this is the size in the reply.
CreatedIsThere ==
    \A p \in Proc : AboutTo(p, "create", "ok") =>
        /\ share[id[p]] # NoShare
        /\ Fits(req[p].range, share[id[p]].cap)
        /\ info[zvol[p]].cap = share[id[p]].cap

\* When ControllerExpandVolume replies OK, the filesystem has the size.
ExpandedIsLarge ==
    \A p \in Proc : AboutTo(p, "expand", "ok") =>
        share[id[p]] # NoShare /\ share[id[p]].cap >= req[p].size

\* A volume that is cached as created and that nobody owns is on the
\* appliance, with the capacity the cache reports for it.
CacheIsTruthful ==
    \A n \in Name :
        LET v == vHash[n]
        IN  (v # NoVol /\ state[v] = "created"
               /\ \A p \in Proc : ~(pc[p] \in Owning /\ zvol[p] = v))
            => share[volId[v]] # NoShare /\ share[volId[v]].cap = info[v].cap

\* Expanding a volume never makes its share smaller.
NoShrink ==
    \A i \in VolumeId :
        share[i] # NoShare /\ share'[i] # NoShare => share'[i].cap >= share[i].cap

NeverShrinks == [][NoShrink]_allVars

\* CreateVolume refuses a share that is already there only if its capacity
\* does not fit ("We get the information from the appliance, update the file
\* system context and check its compatibility with the request",
\* controller_fs.go:81).
RefusedIsIncompatible ==
    \A p \in Proc : AboutTo(p, "create", "exists") /\ ~IsBlock(p) =>
        ~Fits(req[p].range, share[id[p]].cap)
-----------------------------------------------------------------------------
(* The inductive invariant behind NeverStolen.                             *)

\* A handler has the request its next call belongs to, and has replied
\* before its volume is released.
HandlerMatches ==
    \A p \in Proc :
        /\ at[p] \in {"post", "refresh"} => req[p].range \in Ranges
        /\ at[p] = "modify" => req[p].size \in Capacity
        /\ at[p] \in {"getgroup", "setgroup"} => req[p].node \in Node
        /\ pc[p] \in {"idle", "release", "relFast", "relLock", "relCheck", "panic"}
             => at[p] \in {"list", "done"}
        /\ at[p] = "list" => pc[p] = "idle"
        /\ at[p] \in {"refresh", "snaps2", "delete", "setgroup"} => pc[p] = "own"

\* The test of publish still holds when it sets the initiator group: the LUN
\* has not been given to anybody since its list was read.
StillMasked ==
    \A p \in Proc : pc[p] = "own" /\ at[p] = "setgroup" =>
        share[id[p]] = NoShare \/ share[id[p]].group = MaskAll

ServiceIInv ==
    /\ IInv
    /\ share \in [VolumeId -> Shares \cup {NoShare}]
    /\ req \in [Proc -> Requests \cup {Idle}]
    /\ at \in [Proc -> Calling \cup {"list", "done"}]
    /\ DOMAIN todo = Proc /\ \A p \in Proc : \A item \in todo[p] : item.id \in VolumeId
    /\ HandlerMatches
    /\ StillMasked
=============================================================================
