---------------------------- MODULE MCVolumeCache ----------------------------
(***************************************************************************)
(* Instances of VolumeCache.  MaxCalls bounds the requests each goroutine  *)
(* handles: the calls that arrive are finitely many, so that a goroutine   *)
(* waiting for a bolt is overtaken only finitely often.                    *)
(***************************************************************************)
EXTENDS VolumeCache, TLC

CONSTANTS p1, p2, p3, v1, v2, v3, c1, c2, c3,
          fsA, fsB, lunA,   \* volume IDs; fsA and lunA have the same name
          a, b,             \* names
          MaxCalls,
          Asked             \* Asked[p]: the methods and IDs p calls with

ASSUME AskedAssumption == Asked \in [Proc -> SUBSET ({"lookup", "new"} \X VolumeId)]

MCProc3 == {p1, p2, p3}
MCProc2 == {p1, p2}
MCVol2  == {v1, v2}
MCVol3  == {v1, v2, v3}
MCCtx   == {c1, c2, c3}

MCId    == {fsA, fsB, lunA}
MCName  == {a, b}
MCNameOf == [i \in MCId |-> IF i = fsB THEN b ELSE a]
MCIdTwo == {fsA, fsB}
MCNameOfTwo == [i \in MCIdTwo |-> IF i = fsB THEN b ELSE a]

\* Anybody asks for anything.  Which of two names p1 asks for makes no
\* difference: it is the first.
MCAskedAny ==
    [p \in MCProc3 |-> {"lookup", "new"} \X IF p = p1 THEN {fsA} ELSE MCIdTwo]

\* The two goroutines of updateVolumeList call newVolume, p1 for the
\* filesystems and p2 for the LUNs.
MCAskedStartup == [p \in MCProc2 |-> {<<"new", IF p = p1 THEN fsA ELSE lunA>>}]

\* p1 enters a filesystem, p2 looks a LUN of its name up.
MCAskedIds == [p \in MCProc2 |-> {IF p = p1 THEN <<"new", fsA>> ELSE <<"lookup", lunA>>}]

\* p1 and p2 are the two goroutines of one listing, p3 is a request.
MCCtxShared == [p \in Proc |-> IF p = p3 THEN c2 ELSE c1]
MCCtxApart == [p \in MCProc2 |-> IF p = p1 THEN c1 ELSE c2]
\* At startup Run lists the volumes with a nil context.
MCCtxStartup == [p \in MCProc2 |-> NilCtx]

VARIABLE calls
mcVars == <<vars, calls>>

MCInit == Init /\ calls = [p \in Proc |-> 0]

MCNext ==
    \/ \E p \in Proc :
         \/ /\ calls[p] < MaxCalls
            /\ \E ask \in Asked[p] : Call(p, ask[1], ask[2])
            /\ calls' = [calls EXCEPT ![p] = @ + 1]
         \/ (Acquire(p) \/ Use(p) \/ Release(p)) /\ UNCHANGED calls
    \/ /\ \A p \in Proc : pc[p] = "idle" /\ calls[p] = MaxCalls
       /\ UNCHANGED mcVars

MCSpec == MCInit /\ [][MCNext]_mcVars

MCFairSpec == MCSpec /\ Fairness

-----------------------------------------------------------------------------
\* Every request comes back: nobody waits forever for a volume, for vMutex
\* or for a wake-up, whatever others do with the volume.
EveryCallReturns == \A p \in Proc : pc[p] # "idle" ~> pc[p] = "idle"
=============================================================================
