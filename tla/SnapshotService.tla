--------------------------- MODULE SnapshotService ---------------------------
(***************************************************************************)
(* The snapshot methods of the controller service (CreateSnapshot,         *)
(* DeleteSnapshot, ListSnapshots) and CreateVolume from a snapshot, beside *)
(* the volume methods: all of them share the two caches and the appliance. *)
(*                                                                         *)
(* A request for a snapshot gets its source volume and the snapshot        *)
(* (SnapshotCache), works on it one REST call at a time, replies, and      *)
(* releases both.  REST calls are as in VolumeService.                     *)
(*                                                                         *)
(* CreateVolume from a snapshot holds two volumes: the one it makes and    *)
(* the source of the snapshot.  The look-up of the snapshot, which the     *)
(* request waits for, is done by a Proc of its own, Second[p], that works  *)
(* with the context of p and takes no requests.                            *)
(*                                                                         *)
(* What a structure knows of its snapshot (size, creation time, href) is   *)
(* set whenever its state becomes "created" and is not modelled; the number*)
(* of clones is used only right after it was read.                         *)
(***************************************************************************)
EXTENDS VolumeService, SnapshotCache

CONSTANT Second    \* Second[p]: what looks snapshots up for CreateVolume of p

ASSUME SecondAssumption ==
    /\ DOMAIN Second \subseteq Proc
    /\ \A p \in DOMAIN Second :
         /\ Second[p] \in Proc \ DOMAIN Second
         /\ CtxOf[Second[p]] = CtxOf[p]
         /\ \A q \in DOMAIN Second : Second[q] = Second[p] => q = p

ASSUME SnapNamesAssumption == SnapName \subseteq SName

everything == <<allVars, sVars>>

Handlers == Proc \ {Second[p] : p \in DOMAIN Second}

SnapRequests ==
    [op : {"createsnap", "deletesnap", "getsnap"}, id : VolumeId, snap : SnapName]
      \cup [op : {"listsnaps"}, id : VolumeId]
      \cup [op : {"listallsnaps"}]

\* A volume is cloned from a snapshot of another volume of its type.
CloneRequests ==
    {r \in [op : {"clone"}, id : VolumeId, range : Ranges, source : VolumeId, snap : SnapName] :
        r.id # r.source /\ (r.id \in BlockId <=> r.source \in BlockId)}

OtherRequests == SnapRequests \cup CloneRequests

Lookup == [op |-> "lookupsnap"]

\* No clone loses the snapshot it was made from: neither between the test of
\* DeleteSnapshot and its DELETE, nor by the end of the source volume.
OriginKept ==
    \A i \in VolumeId : share[i] # NoShare /\ share[i].origin # NoOrigin =>
        LET source == share[i].origin[1]
        IN  share[source] # NoShare /\ share[i].origin[2] \in share[source].snaps

\* At the start, the origins of clones are there.
SnapServiceInit == ServiceInit /\ SnapInit /\ OriginKept

\* Nothing panicked.
Running == ~crashed /\ SAlive

-----------------------------------------------------------------------------
(* The appliance.                                                          *)

\* A path below the href of the source leads to the share.
Reaches(p) == HasHref(p) /\ share[id[p]] # NoShare

\* The snapshot is there.
HasSnap(p) == share[id[p]] # NoShare /\ sname[p] \in share[id[p]].snaps

WithSnap(p) == [share EXCEPT ![id[p]].snaps = @ \cup {sname[p]}]

WithoutSnap(p) == IF HasSnap(p) THEN [share EXCEPT ![id[p]].snaps = @ \ {sname[p]}] ELSE share

\* The shares that were cloned from the snapshot.
Clones(p) == {i \in VolumeId : share[i] # NoShare /\ share[i].origin = <<id[p], sname[p]>>}

\* What CloneFileSystemSnapshot or CloneLunSnapshot makes.
Cloned(p) == [cap |-> share[req[p].source].cap, group |-> MaskAll, snaps |-> {},
              origin |-> <<req[p].source, req[p].snap>>]

-----------------------------------------------------------------------------
(* Arrival.                                                                *)

FirstSnapCall(op) ==
    CASE op = "createsnap" -> "snappost"
      [] op = "deletesnap" -> "snaprefresh"
      [] op = "getsnap" -> "snapget"

\* CreateSnapshot calls newSnapshot; DeleteSnapshot, and ListSnapshots with
\* a snapshot ID, lookupSnapshot.
ArriveSnap(p, r) ==
    /\ Free(p)
    /\ r.op \in Op \cap {"createsnap", "deletesnap", "getsnap"}
    /\ SnapCall(p, IF r.op = "createsnap" THEN "new" ELSE "lookup", r.id, r.snap)
    /\ req' = [req EXCEPT ![p] = r]
    /\ at' = [at EXCEPT ![p] = FirstSnapCall(r.op)]
    /\ UNCHANGED <<share, info, heard, todo, reply, crashed>>

\* CreateVolume from a snapshot calls newVolume, ListSnapshots of a volume
\* lookupVolume.
ArriveOther(p, r) ==
    /\ Free(p)
    /\ r.op \in Op \cap {"clone", "listsnaps"}
    /\ VolumeCall(p, IF r.op = "clone" THEN "new" ELSE "lookup", r.id)
    /\ req' = [req EXCEPT ![p] = r]
    /\ at' = [at EXCEPT ![p] = IF r.op = "clone" THEN "clonelookup" ELSE r.op]
    /\ UNCHANGED <<share, info, heard, todo, reply, crashed>>

\* ListSnapshots of all volumes: updateSnapshotList.
ArriveListAll(p, r) ==
    /\ Free(p)
    /\ SAlive
    /\ r.op \in Op \cap {"listallsnaps"}
    /\ req' = [req EXCEPT ![p] = r]
    /\ at' = [at EXCEPT ![p] = "listallsnaps"]
    /\ UNCHANGED <<vars, sVars, share, info, heard, todo, reply, crashed>>

ArriveVolume(p, r) ==
    /\ SAlive
    /\ spc[p] = "none"
    /\ Arrive(p, r) \/ ArriveList(p, r)
    /\ UNCHANGED sVars

-----------------------------------------------------------------------------
(* The caches' part of a request.                                          *)

ObtainVolume(p) == GetVolume(p) /\ Obtain(p)

\* newSnapshot or lookupSnapshot goes on, with the volume; a snapshot of
\* another volume, or one that is busy, is a reply.
ObtainSnap(p) ==
    /\ ~crashed
    /\ AcquireSnap(p)
    /\ CASE pc'[p] = "release" /\ spc'[p] = "none" -> Reply(p, LookupReply(p, "exists"))
         [] spc'[p] = "release"                    -> Reply(p, LookupReply(p, "busy"))
         [] OTHER                                  -> UNCHANGED <<req, at, todo, reply>>
    /\ UNCHANGED <<share, info, heard, crashed>>

\* getDetails of lookupSnapshot: GetSnapshot.  An empty answer has no
\* creation date, and DateToUnix panics.
GetSnapDetails(p, o) ==
    /\ ~crashed
    /\ o \in Outcome
    /\ \/ /\ SnapDetails(p)
          /\ \/ /\ spc'[p] = "own" /\ o = "answered" /\ Reaches(p) /\ HasSnap(p)
                /\ UNCHANGED <<req, at, todo, reply>>
             \/ /\ spc'[p] = "release" /\ o = "answered" /\ ~(Reaches(p) /\ HasSnap(p))
                /\ Reply(p, LookupReply(p, "notfound"))
             \/ spc'[p] = "release" /\ Failed(o) /\ Reply(p, LookupReply(p, "error"))
          /\ UNCHANGED <<info, heard, crashed>>
       \/ SAlive /\ spc[p] = "details" /\ o = "unauth" /\ Panic /\ UNCHANGED sVars
    /\ UNCHANGED share

\* The handler has replied: the deferred releaseSnapshot.
ReturnSnap(p) ==
    /\ ~crashed
    /\ at[p] = "done"
    /\ FinishSnap(p)
    /\ UNCHANGED serviceVars

GiveSnapBack(p) == ~crashed /\ ReleaseSnap(p) /\ UNCHANGED serviceVars

\* releaseVolume; unless lookupSnapshot starts anew, the request is over,
\* or the listing goes on.
GiveVolumeBack(p) ==
    /\ ReleaseVolume(p)
    /\ IF spc[p] = "again" THEN ~crashed /\ UNCHANGED serviceVars ELSE GiveBack(p)

-----------------------------------------------------------------------------
(* CreateSnapshot and DeleteSnapshot.                                      *)

SnapCalls(p, c, o) == at[p] = c /\ HasVolume(p, "own") /\ ~crashed /\ o \in Outcome

\* Mutant of SnapDone: what failed is recorded as created.
SnapDoneCreated(p, s, r) == SetSnapState(p, "created") /\ UNCHANGED info /\ Reply(p, r)

\* p replies r, and its snapshot is in state s.
SnapDone(p, s, r) == SetSnapState(p, s) /\ UNCHANGED info /\ Reply(p, r)

SnapReply(p, r) == Reply(p, r) /\ Stay /\ UNCHANGED sVars

\* create of zSnapshot.  A snapshot that is there already (status 409) is
\* success; if the driver knew it, its details are read again.
CreateSnap(p, o) ==
    /\ SnapCalls(p, "snappost", o)
    /\ LET fresh == Reaches(p) /\ ~HasSnap(p)
       IN /\ share' = IF fresh /\ Performed(o) THEN WithSnap(p) ELSE share
          /\ \/ o = "answered" /\ fresh /\ SnapDone(p, "created", "ok") /\ UNCHANGED crashed
             \/ /\ o = "answered" /\ Reaches(p) /\ HasSnap(p) /\ UNCHANGED crashed
                /\ IF sState[snap[p]] = "created"
                   THEN Then(p, "snapcheck") /\ Stay /\ UNCHANGED sVars
                   ELSE SnapReply(p, "ok")
             \/ /\ Failed(o) \/ (o = "answered" /\ ~Reaches(p))
                /\ SnapDone(p, "deleted", "error") /\ UNCHANGED crashed
             \/ o = "unauth" /\ Panic /\ UNCHANGED sVars
    /\ UNCHANGED heard

CheckSnap(p, o) ==
    /\ SnapCalls(p, "snapcheck", o)
    /\ \/ o = "answered" /\ SnapReply(p, IF HasSnap(p) THEN "ok" ELSE "notfound") /\ UNCHANGED crashed
       \/ Failed(o) /\ SnapReply(p, "error") /\ UNCHANGED crashed
       \/ o = "unauth" /\ Panic /\ UNCHANGED sVars
    /\ UNCHANGED <<share, heard>>

\* Mutant of HasClones: the number of clones is not looked at.
NoClones(p) == FALSE

\* getNumClones, from the answer of refreshDetails.
HasClones(p) == Clones(p) # {}

\* delete of zSnapshot: refreshDetails, and the test for clones.  An empty
\* answer tells of none.
RefreshSnap(p, o) ==
    /\ SnapCalls(p, "snaprefresh", o)
    /\ LET there == Reaches(p) /\ HasSnap(p)
       IN \/ /\ o = "unauth" \/ (o = "answered" /\ there /\ ~HasClones(p))
             /\ Then(p, "snapdelete") /\ Stay /\ UNCHANGED sVars
          \/ o = "answered" /\ there /\ HasClones(p) /\ SnapReply(p, "precondition")
          \/ o = "answered" /\ ~there /\ SnapDone(p, "deleted", "ok")
          \/ Failed(o) /\ SnapReply(p, "error")
    /\ UNCHANGED <<share, heard, crashed>>

\* Mutant of DeleteSnap: the error is ignored.
DeleteSnapUnchecked(p, o) ==
    /\ SnapCalls(p, "snapdelete", o)
    /\ share' = IF Performed(o) THEN WithoutSnap(p) ELSE share
    /\ SnapDone(p, "deleted", "ok")
    /\ UNCHANGED <<heard, crashed>>

\* The DELETE.  The appliance does what it is asked to: it is for the driver
\* to see that the snapshot has no clones.
DeleteSnap(p, o) ==
    /\ SnapCalls(p, "snapdelete", o)
    /\ share' = IF Performed(o) THEN WithoutSnap(p) ELSE share
    /\ \/ ~Failed(o) /\ SnapDone(p, "deleted", "ok")
       \/ Failed(o) /\ SnapReply(p, "error")
    /\ UNCHANGED <<heard, crashed>>

-----------------------------------------------------------------------------
(* CreateVolume from a snapshot.                                           *)

\* lookupSnapshot, while p owns the volume it is to make.
CloneLookup(p) ==
    /\ Calls(p, "clonelookup", "answered")
    /\ LET q == Second[p]
       IN /\ SnapCall(q, "lookup", req[p].source, req[p].snap)
          /\ req' = [req EXCEPT ![q] = Lookup]
          /\ at' = [at EXCEPT ![p] = "waiting", ![q] = "clone"]
    /\ UNCHANGED <<share, info, heard, todo, reply, crashed>>

\* It failed.
CloneFailed(p) ==
    /\ Calls(p, "waiting", "answered")
    /\ SAlive
    /\ req[Second[p]] = Idle
    /\ Reply(p, "error") /\ Stay
    /\ UNCHANGED <<share, heard, crashed, sVars>>

\* cloneSnapshot of zFilesystem and zLUN.  A share that is there already is
\* an error as any other, and the state of the structure stays.
Clone(p, o) ==
    /\ p \in DOMAIN Second /\ at[p] = "waiting"
    /\ Running
    /\ LET q     == Second[p]
           fresh == share[id[p]] = NoShare /\ HasSnap(q)
       IN /\ SnapCalls(q, "clone", o)
          /\ share' = IF fresh /\ Performed(o) THEN [share EXCEPT ![id[p]] = Cloned(p)] ELSE share
          /\ \/ /\ o = "answered" /\ fresh
                /\ Store(p, Cloned(p)) /\ reply' = [reply EXCEPT ![p] = "ok"]
             \/ /\ o = "unauth"
                /\ Store(p, Nothing) /\ reply' = [reply EXCEPT ![p] = "ok"]
             \/ /\ Failed(o) \/ (o = "answered" /\ ~fresh)
                /\ Stay /\ reply' = [reply EXCEPT ![p] = "error"]
          /\ at' = [at EXCEPT ![p] = "done", ![q] = "done"]
    /\ UNCHANGED <<req, heard, todo, crashed, sVars>>

-----------------------------------------------------------------------------
(* ListSnapshots.                                                          *)

\* Of one snapshot: the structure has all there is to say.
GetSnap(p) ==
    /\ SnapCalls(p, "snapget", "answered")
    /\ SnapReply(p, "ok")
    /\ UNCHANGED <<share, heard, crashed>>

\* Of one volume: GetSnapshots; an error gives an empty list.
SnapsOf(p, o) ==
    /\ spc[p] = "none"
    /\ SAlive
    /\ Calls(p, "listsnaps", o)
    /\ SnapReply(p, "ok")
    /\ UNCHANGED <<share, heard, crashed>>

\* Of all volumes: the snapshots are read once, then entered one by one.
AllSnaps(p, o) ==
    /\ pc[p] = "idle" /\ at[p] = "listallsnaps"
    /\ Running
    /\ o \in Outcome
    /\ todo' = [todo EXCEPT ![p] =
                  IF o = "answered"
                  THEN {item \in VolumeId \X SnapName :
                          share[item[1]] # NoShare /\ item[2] \in share[item[1]].snaps}
                  ELSE {}]
    /\ at' = [at EXCEPT ![p] = "done"]
    /\ req' = IF todo'[p] = {} THEN [req EXCEPT ![p] = Idle] ELSE req
    /\ UNCHANGED <<vars, sVars, share, info, heard, reply, crashed>>

\* newSnapshot for one snapshot of the list; if it fails the listing goes on
\* with the next one ...
NextSnap(p) ==
    /\ pc[p] = "idle" /\ spc[p] = "none" /\ at[p] = "done"
    /\ Running
    /\ req[p].op = "listallsnaps"
    /\ \E item \in todo[p] :
         /\ SnapCall(p, "new", item[1], item[2])
         /\ todo' = [todo EXCEPT ![p] = @ \ {item}]
    /\ at' = [at EXCEPT ![p] = "snapstore"]
    /\ UNCHANGED <<share, info, req, heard, reply, crashed>>

\* ... otherwise setInfo with what the list said of it.
StoreSnap(p) ==
    /\ SnapCalls(p, "snapstore", "answered")
    /\ SetSnapState(p, "created")
    /\ at' = [at EXCEPT ![p] = "done"]
    /\ UNCHANGED <<share, info, req, heard, todo, reply, crashed>>

-----------------------------------------------------------------------------
ArriveAt(p) ==
    \/ \E r \in Requests : ArriveVolume(p, r)
    \/ \E r \in OtherRequests :
         /\ r.op = "clone" => p \in DOMAIN Second
         /\ ArriveSnap(p, r) \/ ArriveOther(p, r) \/ ArriveListAll(p, r)

\* What a volume method does; CreateVolume from a snapshot returns when the
\* snapshot is released.
VolumeStep(p, Step) ==
    /\ spc[p] = "none"
    /\ SAlive
    /\ Step
    /\ UNCHANGED sVars

VolumeCalls(p, o) ==
    IF pc[p] = "details" THEN GetVolume(p) /\ GetDetails(p, o)
    ELSE VolumeStep(p, RestCall(p, o))

SnapRestCall(p, o) ==
    \/ GetSnapDetails(p, o) \/ CreateSnap(p, o) \/ CheckSnap(p, o)
    \/ RefreshSnap(p, o) \/ DeleteSnap(p, o) \/ Clone(p, o)
    \/ SnapsOf(p, o) \/ AllSnaps(p, o)

WithoutCall(p) ==
    \/ VolumeStep(p, Get(p) \/ ListStore(p))
    \/ req[p].op = "list" /\ VolumeStep(p, ListNext(p))
    \/ (req[p].op = "clone" => req[Second[p]] = Idle) /\ VolumeStep(p, Return(p))
    \/ CloneLookup(p) \/ CloneFailed(p)
    \/ GetSnap(p) \/ NextSnap(p) \/ StoreSnap(p) \/ ReturnSnap(p)

GiveAnyBack(p) == GiveSnapBack(p) \/ GiveVolumeBack(p)

HandleAny(p) ==
    \/ ObtainVolume(p) \/ ObtainSnap(p)
    \/ \E o \in Outcome : VolumeCalls(p, o) \/ SnapRestCall(p, o)
    \/ WithoutCall(p) \/ GiveAnyBack(p)

SnapServiceNext ==
    \/ \E p \in Handlers : ArriveAt(p)
    \/ \E p \in Proc : HandleAny(p)
    \/ Running /\ Environment /\ UNCHANGED sVars

(* Goroutines are scheduled and every REST call ends, with an answer or an *)
(* error.                                                                  *)
SnapServiceFairness == \A p \in Proc : WF_everything(HandleAny(p))

SnapServiceSpec == SnapServiceInit /\ [][SnapServiceNext]_everything
-----------------------------------------------------------------------------
\* What requests do to the two caches is what SnapshotCache allows.
ImplementsCaches == SnapSpec

\* A snapshot vanishes from the appliance only by the DELETE of
\* DeleteSnapshot for it: DeleteVolume, which tests for snapshots first, never
\* takes one along, whatever else is going on (controller.go:221, "Volume has
\* snapshots").
SnapshotsKept ==
    \A i \in VolumeId : \A n \in SnapName :
        share[i] # NoShare /\ n \in share[i].snaps =>
            \/ share'[i] # NoShare /\ n \in share'[i].snaps
            \/ \E p \in Proc : /\ at[p] = "snapdelete" /\ spc[p] = "own"
                               /\ id[p] = i /\ sname[p] = n

\* A snapshot that is cached as created and that nobody owns is on the
\* appliance.
SnapsTruthful ==
    \A n \in SName :
        LET z == sHash[n]
        IN  (z # NoSnap /\ sState[z] = "created"
               /\ \A p \in Proc : ~(spc[p] \in SReferring /\ snap[p] = z))
            => share[sId[z][1]] # NoShare /\ n \in share[sId[z][1]].snaps

\* When DeleteSnapshot replies OK for a snapshot it has found, the snapshot
\* is gone, whatever was lost before.  (It replies OK as well if the look-up
\* fails, for whatever reason.)
DeletedSnapIsGone ==
    \A p \in Proc :
        spc[p] = "own" /\ req[p].op = "deletesnap" /\ reply[p] = "ok" => ~HasSnap(p)
=============================================================================
