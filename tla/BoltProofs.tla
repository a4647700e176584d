----------------------------- MODULE BoltProofs -----------------------------
(***************************************************************************)
(* What utils.Bolt guarantees for any number of goroutines and any         *)
(* contexts, as long as nobody passes the nil context to Lock.             *)
(***************************************************************************)
EXTENDS Bolt, TLAPS

\* The inductive invariant: exclusion holds because the context of the
\* holder is recorded and is never nil, which is what "free" looks like.
Inv ==
    /\ TypeOK
    /\ OwnerRecorded
    /\ Exclusive
    /\ NoLostWakeup

\* NewBolt returns a free bolt nobody waits for.
LEMMA InitInv == Init => Inv
  BY CtxAssumption DEF Init, Inv, TypeOK, OwnerRecorded, Alive, Exclusive,
     NoLostWakeup, PCs, Outside, Trying

\* cv.Signal moves at most one sleeper, to the awake, and moves one if any
\* sleeps; nobody else moves.
LEMMA SignalEffect ==
    ASSUME NEW f \in [Proc -> PCs], Signal(f)
    PROVE  /\ pc' \in [Proc -> PCs]
           /\ \A q \in Proc : pc'[q] = f[q] \/ (f[q] = "asleep" /\ pc'[q] = "woken")
           /\ (\E q \in Proc : f[q] = "asleep") => \E q \in Proc : pc'[q] = "woken"
  BY DEF Signal, PCs, Trying, Outside

\* Every step of Lock and Unlock keeps the invariant.
LEMMA StepInv ==
    ASSUME NoNilCtx, Inv, [Next]_vars
    PROVE  Inv'
<1> USE CtxAssumption DEF Inv, TypeOK, PCs, Trying, Outside
<1>1. ASSUME NEW p \in Proc, CallLock(p) PROVE Inv'
  BY <1>1 DEF CallLock, OwnerRecorded, Alive, Exclusive, NoLostWakeup
<1>2. ASSUME NEW p \in Proc, Take(p) PROVE Inv'
  <2>1. \A q \in Proc : pc[q] # "held"
    BY <1>2 DEF Take, OwnerRecorded, NoNilCtx
  <2>2. context' # NilCtx
    BY <1>2 DEF Take, NoNilCtx
  <2> QED
    BY <1>2, <2>1, <2>2 DEF Take, OwnerRecorded, Alive, Exclusive, NoLostWakeup
<1>3. ASSUME NEW p \in Proc, Wait(p) PROVE Inv'
  BY <1>3 DEF Wait, OwnerRecorded, Alive, Exclusive, NoLostWakeup
<1>4. ASSUME NEW p \in Proc, Unlock(p) PROVE Inv'
  <2> DEFINE f == [pc EXCEPT ![p] = "idle"]
  <2>1. f \in [Proc -> PCs] /\ Signal(f) /\ context' = NilCtx
    BY <1>4 DEF Unlock, OwnerRecorded
  <2>2. /\ pc' \in [Proc -> PCs]
        /\ \A q \in Proc : pc'[q] = f[q] \/ (f[q] = "asleep" /\ pc'[q] = "woken")
        /\ (\E q \in Proc : f[q] = "asleep") => \E q \in Proc : pc'[q] = "woken"
    <3> HIDE DEF f
    <3> QED BY ONLY <2>1, SignalEffect
  <2>3. \A q \in Proc : pc'[q] # "held" /\ pc'[q] # "panic"
    BY <1>4, <2>2 DEF Unlock, Exclusive, OwnerRecorded, Alive
  <2>4. NoLostWakeup'
    BY <1>4, <2>1, <2>2 DEF NoLostWakeup, Unlock
  <2>5. TypeOK'
    BY <1>4, <2>1, <2>2 DEF Unlock
  <2> QED
    BY <2>3, <2>4, <2>5 DEF OwnerRecorded, Alive, Exclusive
<1>5. CASE UNCHANGED vars
  BY <1>5 DEF vars, OwnerRecorded, Alive, Exclusive, NoLostWakeup
<1> QED
  BY <1>1, <1>2, <1>3, <1>4, <1>5 DEF Next, Step

-----------------------------------------------------------------------------
\* For any goroutines and contexts, none of them nil: one goroutine at a
\* time is inside a bolt, Unlock does not panic and no wake-up is lost.
THEOREM BoltSafe == NoNilCtx => (Spec => [](Exclusive /\ OwnerRecorded /\ NoLostWakeup))
<1> SUFFICES ASSUME NoNilCtx
             PROVE  Spec => [](Exclusive /\ OwnerRecorded /\ NoLostWakeup)
  OBVIOUS
<1>1. Inv /\ [Next]_vars => Inv'
  BY StepInv
<1>2. Inv => Exclusive /\ OwnerRecorded /\ NoLostWakeup
  BY DEF Inv
<1> QED
  BY InitInv, <1>1, <1>2, PTL DEF Spec

\* Under the same condition a bolt implements the exclusive lock.
THEOREM BoltImplementsLock == NoNilCtx => (Spec => ImplementsLock)
<1> SUFFICES ASSUME NoNilCtx PROVE Spec => ExLock!Spec
  BY DEF ImplementsLock
<1> DEFINE st == [p \in Proc |-> Abs(p)]
<1>1. Init => ExLock!Init
  BY DEF Init, ExLock!Init, Abs, Trying
<1>2. Inv /\ [Next]_vars => [ExLock!Next]_st
  <2> SUFFICES ASSUME Inv, [Next]_vars PROVE [ExLock!Next]_st
    OBVIOUS
  <2> USE DEF Inv, TypeOK, PCs, Trying, Outside
  <2>1. ASSUME NEW p \in Proc, CallLock(p) PROVE ExLock!Ask(p)
    BY <2>1 DEF CallLock, ExLock!Ask, Abs
  <2>2. ASSUME NEW p \in Proc, Take(p) PROVE ExLock!Acquire(p)
    <3>1. \A q \in Proc : pc[q] # "held" /\ pc[q] # "panic"
      BY <2>2 DEF Take, OwnerRecorded, Alive, NoNilCtx
    <3>2. \A q \in Proc : Abs(q) # "owning"
      BY <3>1 DEF Abs
    <3>3. Abs(p) = "waiting"
      BY <2>2 DEF Take, Abs
    <3>4. \A q \in Proc : Abs(q)' = IF q = p THEN "owning" ELSE Abs(q)
      BY <2>2 DEF Take, Abs
    <3> QED
      BY <3>2, <3>3, <3>4 DEF ExLock!Acquire
  <2>3. ASSUME NEW p \in Proc, Wait(p) PROVE UNCHANGED st
    BY <2>3 DEF Wait, Abs
  <2>4. ASSUME NEW p \in Proc, Unlock(p) PROVE ExLock!Release(p)
    <3> DEFINE f == [pc EXCEPT ![p] = "idle"]
    <3>1. f \in [Proc -> PCs] /\ Signal(f)
      BY <2>4 DEF Unlock, OwnerRecorded
    <3>2. \A q \in Proc : pc'[q] = f[q] \/ (f[q] = "asleep" /\ pc'[q] = "woken")
      <4> HIDE DEF f
      <4> QED BY ONLY <3>1, SignalEffect
    <3>3. Abs(p) = "owning"
      BY <2>4 DEF Unlock, Abs
    <3>4. \A q \in Proc : Abs(q)' = IF q = p THEN "idle" ELSE Abs(q)
      BY <2>4, <3>2 DEF Unlock, Abs
    <3> QED
      BY <3>3, <3>4 DEF ExLock!Release
  <2>5. CASE UNCHANGED vars
    BY <2>5 DEF vars, Abs
  <2> QED
    BY <2>1, <2>2, <2>3, <2>4, <2>5 DEF Next, Step, ExLock!Next
<1>3. Inv /\ [Next]_vars => Inv'
  BY StepInv
<1> QED
  BY InitInv, <1>1, <1>2, <1>3, PTL DEF Spec, ExLock!Spec
=============================================================================
