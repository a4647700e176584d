---------------------------- MODULE ExclusiveLock ----------------------------
(***************************************************************************)
(* What the driver promises wherever it hands a resource to one goroutine  *)
(* at a time ("guarantee that only one request (or Go routine) has access  *)
(* to a volume at any time", src/pkg/service/volumes.go:34).  A process    *)
(* asks, is admitted when nobody owns the resource, and lets go.           *)
(*                                                                         *)
(* utils.Bolt (Bolt.tla) and the volume cache (VolumeCache.tla) are shown  *)
(* to implement this specification.                                        *)
(***************************************************************************)
CONSTANT Proc

VARIABLE st        \* st[p]: what p does with the resource

TypeOK == st \in [Proc -> {"idle", "waiting", "owning"}]

Init == st = [p \in Proc |-> "idle"]

Ask(p) ==
    /\ st[p] = "idle"
    /\ st' = [st EXCEPT ![p] = "waiting"]

Acquire(p) ==
    /\ st[p] = "waiting"
    /\ \A q \in Proc : st[q] # "owning"
    /\ st' = [st EXCEPT ![p] = "owning"]

Release(p) ==
    /\ st[p] = "owning"
    /\ st' = [st EXCEPT ![p] = "idle"]

Next == \E p \in Proc : Ask(p) \/ Acquire(p) \/ Release(p)

Spec == Init /\ [][Next]_st

\* At most one process owns the resource.
Exclusive == \A p, q \in Proc : st[p] = "owning" /\ st[q] = "owning" => p = q
=============================================================================
