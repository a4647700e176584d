-------------------------------- MODULE Bolt --------------------------------
(***************************************************************************)
(* utils.Bolt (src/pkg/utils/sync.go): the lock that gives one request     *)
(* exclusive access to a volume or a snapshot.  It is a mutex, a condition *)
(* variable and the context of the owner; a nil context means "free".      *)
(*                                                                         *)
(* Everything Lock and Unlock do happens under l.mutex, which cv.Wait      *)
(* gives up only while it sleeps, so one action stands for one critical    *)
(* section: the attempt on entry or after a wake-up, and the unlock.  The  *)
(* sleepers are the processes with pc = "asleep"; Signal wakes one of them *)
(* (sync.Cond promises no order), and it must then get the mutex again,    *)
(* competing with newcomers.                                               *)
(***************************************************************************)
CONSTANTS Proc,      \* goroutines
          Ctx,       \* contexts, one per gRPC request
          NilCtx,    \* the nil context.Context
          CtxOf      \* the context a goroutine passes to Lock and Unlock

ASSUME CtxAssumption ==
    /\ NilCtx \notin Ctx
    /\ CtxOf \in [Proc -> Ctx \cup {NilCtx}]

VARIABLES context,   \* l.context, the owner's context or NilCtx
          pc         \* pc[p]: where p is

vars == <<context, pc>>

Outside == {"idle"}
Trying  == {"lock", "asleep", "woken"}
PCs     == Outside \cup Trying \cup {"held", "panic"}

TypeOK ==
    /\ context \in Ctx \cup {NilCtx}
    /\ pc \in [Proc -> PCs]

\* NewBolt
Init ==
    /\ context = NilCtx
    /\ pc = [p \in Proc |-> "idle"]

\* The panic of Unlock is not recovered: it ends the whole driver.
Alive == \A p \in Proc : pc[p] # "panic"

CallLock(p) ==
    /\ Alive
    /\ pc[p] = "idle"
    /\ pc' = [pc EXCEPT ![p] = "lock"]
    /\ UNCHANGED context

\* Mutant of Take: the bolt is taken without a look at its owner.
TakeUnchecked(p) ==
    /\ Alive
    /\ pc[p] \in {"lock", "woken"}
    /\ context' = CtxOf[p]
    /\ pc' = [pc EXCEPT ![p] = "held"]

\* The loop of Lock finds the bolt free and takes it.
Take(p) ==
    /\ Alive
    /\ pc[p] \in {"lock", "woken"}
    /\ context = NilCtx
    /\ context' = CtxOf[p]
    /\ pc' = [pc EXCEPT ![p] = "held"]

\* The loop of Lock finds an owner and sleeps in cv.Wait.
Wait(p) ==
    /\ Alive
    /\ pc[p] \in {"lock", "woken"}
    /\ context # NilCtx
    /\ pc' = [pc EXCEPT ![p] = "asleep"]
    /\ UNCHANGED context

\* Mutant of Signal: nobody is woken.
SignalNobody(f) == pc' = f

\* cv.Signal: one sleeper, whichever, is made runnable; a no-op without one.
Signal(f) ==
    LET sleepers == {q \in Proc : f[q] = "asleep"}
    IN  \/ sleepers = {} /\ pc' = f
        \/ \E q \in sleepers : pc' = [f EXCEPT ![q] = "woken"]

\* The owner frees the bolt; a context that is not the owner's is a panic.
Unlock(p) ==
    /\ Alive
    /\ pc[p] = "held"
    /\ IF context = CtxOf[p]
       THEN context' = NilCtx /\ Signal([pc EXCEPT ![p] = "idle"])
       ELSE pc' = [pc EXCEPT ![p] = "panic"] /\ UNCHANGED context

Step(p) == Take(p) \/ Wait(p) \/ Unlock(p)

Next == \E p \in Proc : CallLock(p) \/ Step(p)

(* A goroutine inside Lock that is not asleep is scheduled, and the owner  *)
(* unlocks: every user of a bolt releases it with defer or on every path.  *)
Fairness == \A p \in Proc : WF_vars(Step(p))

Spec == Init /\ [][Next]_vars

FairSpec == Spec /\ Fairness

-----------------------------------------------------------------------------
NoNilCtx == \A p \in Proc : CtxOf[p] # NilCtx

\* One goroutine at a time is between Lock and Unlock, although the bolt
\* records only a context and goroutines of one request share it
\* (updateVolumeList starts two with the same ctx).
Exclusive == \A p, q \in Proc : pc[p] = "held" /\ pc[q] = "held" => p = q

\* The recorded context is the one of the goroutine that holds the bolt, so
\* Unlock never panics with "wrong owner".
OwnerRecorded ==
    /\ Alive
    /\ \A p \in Proc : pc[p] = "held" => context = CtxOf[p]

\* No lost wake-up: while someone sleeps in cv.Wait, either the bolt has an
\* owner, who will signal, or a goroutine that will look again is on its way.
NoLostWakeup ==
    (\E p \in Proc : pc[p] = "asleep") /\ context = NilCtx
        => \E q \in Proc : pc[q] = "woken"

\* A free bolt that goroutines want is eventually taken: Lock and Unlock
\* never leave all of them asleep.
WantedIsTaken ==
    (context = NilCtx /\ \E p \in Proc : pc[p] \in Trying)
        ~> (\E p \in Proc : pc[p] = "held")

-----------------------------------------------------------------------------
(* A bolt as its clients see it. *)
Abs(p) == CASE pc[p] \in Trying -> "waiting"
            [] pc[p] \in {"held", "panic"} -> "owning"
            [] OTHER -> "idle"

ExLock == INSTANCE ExclusiveLock WITH st <- [p \in Proc |-> Abs(p)]

\* Lock and Unlock behave like an exclusive lock.
ImplementsLock == ExLock!Spec
=============================================================================
