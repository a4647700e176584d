------------------------- MODULE MCSnapshotService -------------------------
(***************************************************************************)
(* Instances of SnapshotService: two filesystems, src and its clone cl, a  *)
(* LUN, a snapshot name, and two handlers, of which the first also clones. *)
(*                                                                         *)
(* The mode of a behaviour says which requests arrive, how many, and what  *)
(* may happen to a call: "lossy", anything but status 401; "unauth", status*)
(* 401 may repeat; the modes of the liveness run, anything.  A lossy       *)
(* behaviour that begins with a snapshot has one request less.             *)
(***************************************************************************)
EXTENDS SnapshotService, TLC

CONSTANTS p1, p2, h1, c1, c2, src, cl, lun, a, b, c, s, n1,
          OpIn,       \* OpIn[m]: the requests of a behaviour in mode m
          Modes,      \* the modes of the behaviours
          MaxCalls    \* MaxCalls[m]: how many requests arrive in mode m

MCProc   == {p1, p2, h1}
MCVol    == 1..3
MCCtx    == {c1, c2}
MCCtxOf  == [p \in MCProc |-> IF p = p2 THEN c2 ELSE c1]
MCSecond == [p \in {p1} |-> h1]
MCId     == {src, cl}
MCName   == {a, b}
MCNameOf == [i \in MCId |-> IF i = src THEN a ELSE b]
MCId3     == MCId \cup {lun}
MCName3   == MCName \cup {c}
MCNameOf3 == [i \in MCId3 |-> IF i = lun THEN c ELSE MCNameOf[i]]
MCLun     == {lun}
MCNode    == {n1}
MCSnapName == {s}
MCRange  == {[required |-> 0, limit |-> 0]}

Plain(snaps)  == [cap |-> 2, group |-> MaskAll, snaps |-> snaps, origin |-> NoOrigin]
CloneOfSrc    == [Plain({}) EXCEPT !.origin = <<src, s>>]
MCShare == {NoShare, Plain({}), Plain({s}), CloneOfSrc}

VolumeOps == {"create", "delete", "expand", "get", "list", "publish", "unpublish"}
SnapOps   == {"createsnap", "deletesnap", "clone", "delete", "listallsnaps"}

MCOpIn == [lossy  |-> SnapOps,
           unauth |-> SnapOps \cup {"create", "getsnap", "listsnaps"},
           fs     |-> VolumeOps,
           lun    |-> VolumeOps \ {"get", "list"},
           snap   |-> SnapOps]
MCCalls == [lossy |-> 3, unauth |-> 2, fs |-> 2, lun |-> 2, snap |-> 2]

VARIABLES calls, mode
mcVars == <<everything, calls, mode>>

MCInit ==
    /\ SnapServiceInit
    /\ mode \in Modes
    /\ IF mode \in {"fs", "lun"}
       THEN \A i \in VolumeId : i # (IF mode = "lun" THEN lun ELSE src) => share[i] = NoShare
       ELSE /\ share[src] = Plain({s}) \/ (share[src] = Plain({}) /\ mode # "unauth")
            /\ \/ share[cl] = NoShare
               \/ share[cl] = Plain({s}) /\ mode = "unauth"
               \/ share[cl] = CloneOfSrc /\ share[src] = Plain({s})
            /\ \A i \in BlockId : share[i] = NoShare
    /\ calls = IF mode = "lossy" /\ share[src] = Plain({s}) THEN 1 ELSE 0

Happens(o) ==
    CASE mode = "lossy"  -> o # "unauth"
      [] mode = "unauth" -> o \in {"answered", "unauth"}
      [] OTHER           -> TRUE

Expected(r) ==
    /\ r.op \in OpIn[mode]
    /\ CASE r.op = "list"                       -> ~r.block
         [] r.op = "listallsnaps"               -> TRUE
         [] r.op = "clone"                      -> r.id = cl
         [] r.op = "delete" /\ mode \notin {"fs", "lun"} -> r.id \in {src, cl}
         [] r.op = "createsnap" /\ mode = "unauth" -> r.id \in {src, cl}
         [] mode = "lun"                        -> r.id = lun
         [] OTHER                               -> r.id = src

\* p handles a request more.
Admits(p) ==
    /\ calls < MaxCalls[mode]
    /\ Expected(req'[p])
    /\ calls' = calls + 1
    /\ UNCHANGED mode

Ended == ~Running \/ \A p \in Handlers : Free(p) /\ calls = MaxCalls[mode]

MCNext ==
    \/ \E p \in Handlers : ArriveAt(p) /\ Admits(p)
    \/ \E p \in Proc : HandleAny(p) /\ UNCHANGED <<calls, mode>>
    \/ Running /\ Environment /\ UNCHANGED <<sVars, calls, mode>>
    \/ Ended /\ UNCHANGED mcVars

MCSpec == MCInit /\ [][MCNext]_mcVars
MCFairSpec == MCSpec /\ SnapServiceFairness

\* Which unused structure is taken does not matter: it is the first.
FirstUnused ==
    vHash' # vHash => \A n \in Name : \A v \in Vol :
        vHash[n] = NoVol /\ vHash'[n] # NoVol /\ v < vHash'[n] =>
            ~Unused(v) \/ \E z \in Snap : InUse(z) /\ sZvol[z] = v

-----------------------------------------------------------------------------
\* Requests, listings and look-ups come to their end, unless a panic ends the
\* driver: as the requests are finitely many, it has nothing to do again and
\* again only if each of them ends.
EveryRequestEnds == []<>(~Running \/ \A p \in Proc : Free(p))
=============================================================================
