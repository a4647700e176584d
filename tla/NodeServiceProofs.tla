-------------------------- MODULE NodeServiceProofs --------------------------
(***************************************************************************)
(* What the node service answers is so, for any number of handlers, target *)
(* paths and faults, as long as the kubelet has one call at a time per     *)
(* path (~Overlap).  NodeIInv (NodeService.tla) is inductive: its core is  *)
(* OneHandler, which lets a handler rely on what it saw (SeenHolds).       *)
(***************************************************************************)
EXTENDS NodeService, TLAPS

LEMMA InitIInv == Init => NodeIInv
<1> SUFFICES ASSUME Init PROVE NodeIInv
  OBVIOUS
<1> USE NodeAssumption DEF Init
<1>1. TypeOK
  <2>1. path \in [Target -> BOOLEAN] /\ mounts \in [Target -> Nat]
    OBVIOUS
  <2>2. kubelet \in [Target -> Wishes] /\ waitsFor \in [Target -> Proc \cup {NoProc}]
    BY DEF Wishes
  <2>3. pc \in [Proc -> Calls \cup {"idle"}] /\ target \in [Proc -> Target \cup {NoTarget}]
    BY SMT
  <2>4. faults \in 0..MaxFaults
    BY SMT
  <2>5. panicked \in BOOLEAN
    OBVIOUS
  <2> QED
    BY <2>1, <2>2, <2>3, <2>4, <2>5 DEF TypeOK
<1>2. OneHandler
  BY DEF OneHandler
<1>3. CalledForWish /\ SeenHolds
  BY DEF CalledForWish, SeenHolds
<1>4. MountHasPath /\ PublishedIsMounted /\ MountedOnce /\ AbsentIsClean
  BY DEF MountHasPath, PublishedIsMounted, MountedOnce, AbsentIsClean, Mounted
<1> QED
  BY <1>1, <1>2, <1>3, <1>4 DEF NodeIInv

-----------------------------------------------------------------------------
(* The kubelet's steps, and the end of the driver.                         *)

LEMMA WantIInv ==
    ASSUME NodeIInv, NEW t \in Target, Want(t)
    PROVE  NodeIInv'
<1> USE NodeAssumption DEF NodeIInv, TypeOK, Wishes, Calls, ToPublish, ToUnpublish, nodeVars
<1>1. OneHandler' /\ CalledForWish'
  BY DEF Want, OneHandler, CalledForWish
<1>2. SeenHolds' /\ MountHasPath'
  BY DEF Want, SeenHolds, MountHasPath, Mounted
<1>3. PublishedIsMounted' /\ MountedOnce' /\ AbsentIsClean'
  BY DEF Want, PublishedIsMounted, MountedOnce, AbsentIsClean, Mounted
<1>4. TypeOK'
  BY DEF Want
<1> QED
  BY <1>1, <1>2, <1>3, <1>4

\* No handler of the path runs when a new one starts.
LEMMA IssueIInv ==
    ASSUME NodeIInv, ~Overlap, NEW p \in Proc, NEW t \in Target, Issue(p, t)
    PROVE  NodeIInv'
<1> USE NodeAssumption DEF NodeIInv, TypeOK, Wishes, Calls, ToPublish, ToUnpublish, nodeVars
<1>1. FirstCall(t, kubelet[t]) \in {"check", "attach", "stat", "umount"}
  BY DEF Issue, FirstCall
<1>2. /\ kubelet[t] = "unpublishing" => FirstCall(t, kubelet[t]) \in {"stat", "umount"}
      /\ kubelet[t] = "publishing" => FirstCall(t, kubelet[t]) \in {"check", "attach"}
      /\ FirstCall(t, kubelet[t]) \in {"check", "stat"} => t \notin BlockTarget
      /\ FirstCall(t, kubelet[t]) \in {"attach", "umount"} => t \in BlockTarget
  BY DEF Issue, FirstCall
<1>3. OneHandler'
  BY <1>1 DEF Issue, OneHandler, Running
<1>4. CalledForWish'
  BY <1>1, <1>2 DEF Issue, CalledForWish, OneHandler, Running
<1>5. SeenHolds' /\ MountHasPath'
  BY <1>1, <1>2 DEF Issue, SeenHolds, MountHasPath, Mounted
<1>6. PublishedIsMounted' /\ MountedOnce' /\ AbsentIsClean'
  BY DEF Issue, PublishedIsMounted, MountedOnce, AbsentIsClean, Mounted
<1>7. TypeOK'
  BY <1>1 DEF Issue
<1> QED
  BY <1>3, <1>4, <1>5, <1>6, <1>7

LEMMA TimeoutIInv ==
    ASSUME NodeIInv, NEW t \in Target, Timeout(t)
    PROVE  NodeIInv'
<1> USE NodeAssumption DEF NodeIInv, TypeOK, Wishes, Calls, ToPublish, ToUnpublish, nodeVars
<1>1. OneHandler' /\ CalledForWish'
  BY DEF Timeout, Fault, OneHandler, CalledForWish
<1>2. SeenHolds' /\ MountHasPath'
  BY DEF Timeout, Fault, SeenHolds, MountHasPath, Mounted
<1>3. PublishedIsMounted' /\ MountedOnce' /\ AbsentIsClean'
  BY DEF Timeout, Fault, PublishedIsMounted, MountedOnce, AbsentIsClean, Mounted
<1>4. TypeOK'
  BY DEF Timeout, Fault
<1> QED
  BY <1>1, <1>2, <1>3, <1>4

\* A restart or a panic: handlers are gone, paths and mounts stay.
LEMMA GoneIInv ==
    ASSUME NodeIInv, Gone, UNCHANGED nodeVars, faults' \in 0..MaxFaults, panicked' \in BOOLEAN
    PROVE  NodeIInv'
<1> USE NodeAssumption DEF NodeIInv, TypeOK, Wishes, Calls, ToPublish, ToUnpublish, nodeVars
<1>1. OneHandler' /\ CalledForWish' /\ SeenHolds'
  BY DEF Gone, OneHandler, CalledForWish, SeenHolds
<1>2. MountHasPath' /\ PublishedIsMounted' /\ MountedOnce' /\ AbsentIsClean'
  BY DEF Gone, MountHasPath, PublishedIsMounted, MountedOnce, AbsentIsClean, Mounted
<1>3. TypeOK'
  BY DEF Gone
<1> QED
  BY <1>1, <1>2, <1>3

-----------------------------------------------------------------------------
(* What the steps of a handler have in common: they touch their own path   *)
(* only, and end with a reply or go on to another call.                    *)

\* A handler replies, having changed at most its own path: what it says must
\* be so there.
LEMMA ReplyIInv ==
    ASSUME NodeIInv, NEW p \in Proc, pc[p] # "idle", NEW ok \in BOOLEAN, Reply(p, ok),
           path' \in [Target -> BOOLEAN], mounts' \in [Target -> Nat], faults' \in 0..MaxFaults,
           \A t \in Target \ {target[p]} : path'[t] = path[t] /\ mounts'[t] = mounts[t],
           mounts'[target[p]] > 0 => path'[target[p]],
           target[p] \notin BlockTarget => mounts'[target[p]] <= 1,
           ok /\ pc[p] \in ToPublish => path'[target[p]] /\ mounts'[target[p]] > 0,
           ok /\ pc[p] \in ToUnpublish /\ target[p] \notin BlockTarget =>
               ~path'[target[p]] /\ ~(mounts'[target[p]] > 0)
    PROVE  NodeIInv'
<1> DEFINE t0 == target[p]
<1> USE NodeAssumption DEF NodeIInv, TypeOK, Wishes, Calls
<1>1. t0 \in Target /\ kubelet[t0] \in {"publishing", "unpublishing"} /\ pc[p] \in ToPublish \cup ToUnpublish
  BY DEF OneHandler, CalledForWish
<1>2. kubelet' \in [Target -> Wishes] /\ waitsFor' \in [Target -> Proc \cup {NoProc}]
  BY <1>1 DEF Reply
<1>3. TypeOK'
  BY <1>2 DEF Reply
<1>4. OneHandler'
  BY <1>1 DEF Reply, OneHandler
<1>5. \A q \in Proc : target'[q] = IF q = p THEN NoTarget ELSE target[q]
  BY DEF Reply
<1>6. \A q \in Proc : \A t \in Target : target'[q] = t => q # p /\ t # t0 /\ pc'[q] = pc[q] /\ target[q] = t
  BY <1>1, <1>5 DEF Reply, OneHandler
<1>7. \A t \in Target : t # t0 => kubelet'[t] = kubelet[t] /\ waitsFor'[t] = waitsFor[t]
  BY <1>1 DEF Reply
<1>8. CalledForWish' /\ SeenHolds'
  <2>1. CalledForWish'
    BY <1>6, <1>7 DEF CalledForWish
  <2>2. SeenHolds'
    BY <1>6 DEF SeenHolds, Mounted
  <2> QED
    BY <2>1, <2>2
<1>9. MountHasPath' /\ MountedOnce'
  BY <1>1 DEF MountHasPath, MountedOnce, Mounted
<1>10. /\ kubelet'[t0] = "published" => ok /\ pc[p] \in ToPublish
       /\ kubelet'[t0] = "absent" => ok /\ pc[p] \in ToUnpublish
  BY <1>1 DEF Reply, CalledForWish, ToPublish, ToUnpublish
<1>11. PublishedIsMounted' /\ AbsentIsClean'
  BY <1>1, <1>7, <1>10 DEF PublishedIsMounted, AbsentIsClean, Mounted
<1> QED
  BY <1>3, <1>4, <1>8, <1>9, <1>11

\* A handler goes on to another call of the same operation, having changed at
\* most its own path: what it has seen must hold there.
LEMMA ThenIInv ==
    ASSUME NodeIInv, NEW p \in Proc, pc[p] # "idle", NEW c \in Calls, Then(p, c),
           path' \in [Target -> BOOLEAN], mounts' \in [Target -> Nat], faults' \in 0..MaxFaults,
           \A t \in Target \ {target[p]} : path'[t] = path[t] /\ mounts'[t] = mounts[t],
           mounts'[target[p]] > 0 => path'[target[p]],
           target[p] \notin BlockTarget => mounts'[target[p]] <= 1,
           c \in ToPublish <=> pc[p] \in ToPublish,
           c = "mkdir" => ~path'[target[p]],
           c \in {"mount", "reverify", "remove"} => path'[target[p]] /\ ~(mounts'[target[p]] > 0),
           c \in {"check", "mkdir", "mount", "stat", "reverify"} => target[p] \notin BlockTarget,
           c \in {"attach", "connect", "makefile", "bind"} => target[p] \in BlockTarget,
           target[p] \notin BlockTarget /\ c \in {"umount", "verify"} => path'[target[p]],
           target[p] \notin BlockTarget /\ c = "verify" => ~(mounts'[target[p]] > 0)
    PROVE  NodeIInv'
<1> DEFINE t0 == target[p]
<1> USE NodeAssumption DEF NodeIInv, TypeOK
<1>1. t0 \in Target /\ kubelet[t0] \in {"publishing", "unpublishing"}
  BY DEF OneHandler, CalledForWish
<1>2. TypeOK'
  BY DEF Then
<1>3. pc[p] \in ToPublish \cup ToUnpublish /\ c # "idle" /\ ToPublish \cap ToUnpublish = {}
  BY DEF Calls, ToPublish, ToUnpublish
<1>4. OneHandler'
  BY <1>1, <1>3 DEF Then, OneHandler
<1>5. \A q \in Proc \ {p} : \A t \in Target : target[q] = t => t # t0 /\ pc'[q] = pc[q]
  BY <1>1 DEF Then, OneHandler
<1>6. pc'[p] = c /\ target' = target /\ kubelet' = kubelet /\ waitsFor' = waitsFor
  BY DEF Then
<1>7. CalledForWish'
  <2>1. c \in ToUnpublish <=> pc[p] \in ToUnpublish
    BY <1>3 DEF Calls
  <2> QED
    BY <2>1, <1>5, <1>6 DEF CalledForWish
<1>8. SeenHolds'
  <2> SUFFICES ASSUME NEW q \in Proc, NEW t \in Target, target[q] = t
               PROVE  SeenHolds!(q)!(t)'
    BY <1>6 DEF SeenHolds
  <2>1. CASE q = p
    BY <2>1, <1>6 DEF Mounted
  <2>2. CASE q # p
    BY <2>2, <1>5, <1>6 DEF SeenHolds, Mounted
  <2> QED
    BY <2>1, <2>2
<1>9. MountHasPath' /\ MountedOnce'
  BY <1>1 DEF MountHasPath, MountedOnce, Mounted
<1>10. PublishedIsMounted' /\ AbsentIsClean'
  BY <1>1, <1>6 DEF PublishedIsMounted, AbsentIsClean, Mounted
<1> QED
  BY <1>2, <1>4, <1>7, <1>8, <1>9, <1>10

-----------------------------------------------------------------------------
(* The calls of a handler.                                                 *)

\* What a handler about to make a call knows of its path.
LEMMA OwnPath ==
    ASSUME NodeIInv, NEW p \in Proc, pc[p] # "idle"
    PROVE  /\ target[p] \in Target /\ pc[p] \in ToPublish \cup ToUnpublish
           /\ path \in [Target -> BOOLEAN] /\ mounts \in [Target -> Nat]
           /\ Mounted(target[p]) => path[target[p]]
           /\ target[p] \notin BlockTarget => mounts[target[p]] <= 1
BY NodeAssumption DEF NodeIInv, TypeOK, Calls, OneHandler, MountHasPath, MountedOnce, Mounted

\* A step that ends in an error, and changes no path.
LEMMA FailsIInv ==
    ASSUME NodeIInv, NEW p \in Proc, pc[p] # "idle", Reply(p, FALSE), UNCHANGED nodeVars,
           faults' \in 0..MaxFaults
    PROVE  NodeIInv'
BY ReplyIInv, OwnPath DEF nodeVars, Mounted

LEMMA MountsOnTop ==
    ASSUME NodeIInv, NEW p \in Proc, pc[p] # "idle", OnTop(target[p])
    PROVE  /\ mounts' \in [Target -> Nat] /\ mounts'[target[p]] > 0
           /\ mounts'[target[p]] = mounts[target[p]] + 1
           /\ \A t \in Target \ {target[p]} : mounts'[t] = mounts[t]
BY OwnPath DEF OnTop

LEMMA FaultBound ==
    ASSUME NodeIInv
    PROVE  /\ \A kind : Fault(kind) => faults' \in 0..MaxFaults
           /\ NoFault => faults' \in 0..MaxFaults
BY NodeAssumption DEF NodeIInv, TypeOK, Fault, NoFault

LEMMA PublishFilesystemIInv ==
    ASSUME NodeIInv, NEW p \in Proc, PublishCheck(p) \/ PublishMkdir(p) \/ PublishMount(p)
    PROVE  NodeIInv'
<1>0. pc[p] # "idle"
  BY DEF PublishCheck, PublishMkdir, PublishMount, At
<1>1. Fails(p) => NodeIInv'
  BY <1>0, FailsIInv, FaultBound DEF Fails
<1>2. pc[p] \in {"check", "mkdir", "mount"} => target[p] \notin BlockTarget
  BY <1>0, OwnPath DEF NodeIInv, SeenHolds
<1> USE OwnPath, FaultBound DEF nodeVars, Mounted, Calls, ToPublish, ToUnpublish, At
<1>3. CASE PublishCheck(p)
  <2>1. CASE NoFault /\ UNCHANGED nodeVars /\ ~path[target[p]] /\ Then(p, "mkdir")
    BY <1>0, <1>2, <1>3, <2>1, ThenIInv DEF PublishCheck
  <2>2. CASE NoFault /\ UNCHANGED nodeVars /\ path[target[p]] /\ Mounted(target[p]) /\ Reply(p, TRUE)
    BY <1>0, <1>3, <2>2, ReplyIInv DEF PublishCheck
  <2>3. CASE NoFault /\ UNCHANGED nodeVars /\ path[target[p]] /\ ~Mounted(target[p]) /\ Then(p, "mount")
    BY <1>0, <1>2, <1>3, <2>3, ThenIInv DEF PublishCheck
  <2> QED
    BY <1>1, <1>3, <2>1, <2>2, <2>3 DEF PublishCheck
<1>4. CASE PublishMkdir(p)
  <2>1. ~path[target[p]] /\ ~Mounted(target[p])
    BY <1>0, <1>4 DEF PublishMkdir, NodeIInv, SeenHolds
  <2>2. CASE NoFault /\ Create(target[p]) /\ Then(p, "mount") /\ UNCHANGED mounts
    BY <1>0, <1>2, <1>4, <2>1, <2>2, ThenIInv DEF PublishMkdir, Create
  <2> QED
    BY <1>1, <1>4, <2>2 DEF PublishMkdir
<1>5. CASE PublishMount(p)
  <2>1. path[target[p]] /\ mounts[target[p]] = 0
    BY <1>0, <1>5 DEF PublishMount, NodeIInv, SeenHolds
  <2>2. CASE NoFault /\ OnTop(target[p]) /\ Reply(p, TRUE) /\ UNCHANGED path
    <3>1. mounts'[target[p]] = 1 /\ path'[target[p]]
      BY <1>0, <2>1, <2>2, MountsOnTop
    <3>2. pc[p] = "mount"
      BY <1>5 DEF PublishMount
    <3> QED
      <4>1. /\ mounts' \in [Target -> Nat] /\ path' \in [Target -> BOOLEAN] /\ faults' \in 0..MaxFaults
            /\ \A t \in Target \ {target[p]} : path'[t] = path[t] /\ mounts'[t] = mounts[t]
        BY <1>0, <2>2, MountsOnTop
      <4>2. pc[p] \notin ToUnpublish
        BY <3>2
      <4>3. mounts'[target[p]] > 0 /\ mounts'[target[p]] <= 1
        BY <3>1
      <4> QED
        BY ONLY NodeIInv, p \in Proc, <1>0, <2>2, <3>1, <4>1, <4>2, <4>3, ReplyIInv, TRUE \in BOOLEAN, ZenonT(60)
  <2> QED
    BY <1>1, <1>5, <2>1, <2>2 DEF PublishMount
<1> QED
  BY <1>3, <1>4, <1>5

LEMMA PublishBlockIInv ==
    ASSUME NodeIInv, NEW p \in Proc,
           PublishAttach(p) \/ PublishConnect(p) \/ PublishMakeFile(p) \/ PublishBind(p)
    PROVE  NodeIInv'
<1>0. pc[p] # "idle" /\ pc[p] \in {"attach", "connect", "makefile", "bind"}
  BY DEF PublishAttach, PublishConnect, PublishMakeFile, PublishBind, At
<1>1. Fails(p) => NodeIInv'
  BY <1>0, FailsIInv, FaultBound DEF Fails
<1>2. target[p] \in BlockTarget
  BY <1>0, OwnPath DEF NodeIInv, SeenHolds
<1>3. ASSUME NEW kind, Fault(kind), Panics, UNCHANGED nodeVars
      PROVE  NodeIInv'
  BY <1>3, GoneIInv, FaultBound DEF Panics
<1> USE OwnPath, FaultBound DEF nodeVars, Mounted, Calls, ToPublish, ToUnpublish, At
<1>4. CASE PublishAttach(p)
  <2>1. CASE NoFault /\ Then(p, "connect") /\ UNCHANGED nodeVars
    BY <1>0, <1>2, <1>4, <2>1, ThenIInv DEF PublishAttach
  <2> QED
    BY <1>1, <1>3, <1>4, <2>1 DEF PublishAttach
<1>5. CASE PublishConnect(p)
  <2>1. CASE NoFault /\ Then(p, "makefile") /\ UNCHANGED nodeVars
    BY <1>0, <1>2, <1>5, <2>1, ThenIInv DEF PublishConnect
  <2> QED
    BY <1>1, <1>3, <1>5, <2>1 DEF PublishConnect
<1>6. CASE PublishMakeFile(p)
  <2>1. CASE NoFault /\ Create(target[p]) /\ Then(p, "bind") /\ UNCHANGED mounts
    BY <1>0, <1>2, <1>6, <2>1, ThenIInv DEF PublishMakeFile, Create
  <2>2. CASE /\ Fault("call") /\ Reply(p, FALSE) /\ UNCHANGED mounts
             /\ IF Mounted(target[p]) THEN UNCHANGED path ELSE Remove(target[p])
    BY <1>0, <1>2, <1>6, <2>2, ReplyIInv DEF PublishMakeFile, Remove
  <2> QED
    BY <1>6, <2>1, <2>2 DEF PublishMakeFile
<1>7. CASE PublishBind(p)
  <2>1. CASE NoFault /\ path[target[p]] /\ OnTop(target[p]) /\ Reply(p, TRUE) /\ UNCHANGED path
    BY <1>0, <1>2, <1>7, <2>1, MountsOnTop, ReplyIInv DEF PublishBind
  <2>2. CASE NoFault /\ ~path[target[p]] /\ Reply(p, FALSE) /\ UNCHANGED nodeVars
    BY <1>0, <2>2, FailsIInv
  <2>3. CASE /\ Fault("call") /\ Reply(p, FALSE) /\ UNCHANGED mounts
             /\ IF Mounted(target[p]) THEN UNCHANGED path ELSE Remove(target[p])
    BY <1>0, <1>2, <1>7, <2>3, ReplyIInv DEF PublishBind, Remove
  <2> QED
    BY <1>7, <2>1, <2>2, <2>3 DEF PublishBind
<1> QED
  BY <1>4, <1>5, <1>6, <1>7

LEMMA UnpublishIInv ==
    ASSUME NodeIInv, NEW p \in Proc, UnpublishStat(p) \/ UnpublishUnmount(p) \/ UnpublishRemove(p)
    PROVE  NodeIInv'
<1>0. pc[p] # "idle"
  BY DEF UnpublishStat, UnpublishUnmount, UnpublishRemove, At
<1>1. Fails(p) => NodeIInv'
  BY <1>0, FailsIInv, FaultBound DEF Fails
<1>2. Reply(p, FALSE) /\ NoFault /\ UNCHANGED nodeVars => NodeIInv'
  BY <1>0, FailsIInv, FaultBound
<1> USE OwnPath, FaultBound DEF nodeVars, Mounted, Calls, ToPublish, ToUnpublish, At
<1>3. CASE UnpublishStat(p)
  <2>1. target[p] \notin BlockTarget
    BY <1>0, <1>3 DEF UnpublishStat, NodeIInv, SeenHolds
  <2>2. CASE NoFault /\ UNCHANGED nodeVars /\ path[target[p]] /\ Then(p, "umount")
    BY <1>0, <1>3, <2>1, <2>2, ThenIInv DEF UnpublishStat
  <2>3. CASE NoFault /\ UNCHANGED nodeVars /\ ~path[target[p]] /\ Reply(p, TRUE)
    BY <1>0, <1>3, <2>1, <2>3, ReplyIInv DEF UnpublishStat
  <2> QED
    BY <1>1, <1>3, <2>2, <2>3 DEF UnpublishStat
<1>4. CASE UnpublishUnmount(p)
  <2>1. CASE NoFault /\ Mounted(target[p]) /\ Unmounted(target[p]) /\ Then(p, "verify") /\ UNCHANGED path
    <3>1. /\ mounts'[target[p]] = mounts[target[p]] - 1
          /\ mounts' \in [Target -> Nat]
          /\ \A t \in Target \ {target[p]} : mounts'[t] = mounts[t]
      BY <1>0, <2>1 DEF Unmounted
    <3> QED
      BY <1>0, <1>4, <2>1, <3>1, ThenIInv DEF UnpublishUnmount
  <2>2. CASE /\ NoFault /\ ~Mounted(target[p]) /\ UNCHANGED nodeVars
             /\ path[target[p]] /\ target[p] \notin BlockTarget /\ Then(p, "reverify")
    BY <1>0, <1>4, <2>2, ThenIInv DEF UnpublishUnmount
  <2> QED
    BY <1>1, <1>2, <1>4, <2>1, <2>2 DEF UnpublishUnmount
<1>5. CASE UnpublishRemove(p)
  <2>1. CASE /\ NoFault /\ path[target[p]] /\ ~Mounted(target[p])
             /\ Remove(target[p]) /\ Reply(p, TRUE) /\ UNCHANGED mounts
    BY <1>0, <1>5, <2>1, ReplyIInv DEF UnpublishRemove, Remove
  <2> QED
    BY <1>1, <1>2, <1>5, <2>1 DEF UnpublishRemove
<1> QED
  BY <1>3, <1>4, <1>5

LEMMA VerifyIInv ==
    ASSUME NodeIInv, NEW p \in Proc, UnpublishVerify(p)
    PROVE  NodeIInv'
<1>0. pc[p] # "idle" /\ pc[p] \in {"verify", "reverify"}
  BY DEF UnpublishVerify
<1> USE OwnPath, FaultBound DEF nodeVars, Mounted, Calls, ToPublish, ToUnpublish, At
<1>1. target[p] \notin BlockTarget => ~Mounted(target[p])
  BY <1>0 DEF NodeIInv, SeenHolds
<1>2. CASE NoFault /\ path[target[p]] /\ UNCHANGED nodeVars /\ Mounted(target[p]) /\ Reply(p, TRUE)
  BY <1>0, <1>1, <1>2, ReplyIInv
<1>3. CASE NoFault /\ path[target[p]] /\ UNCHANGED nodeVars /\ ~Mounted(target[p]) /\ Then(p, "remove")
  BY <1>0, <1>3, ThenIInv
<1>4. CASE /\ (NoFault /\ ~path[target[p]]) \/ Fault("call")
           /\ UNCHANGED nodeVars /\ Panics
  BY <1>4, GoneIInv DEF Panics
<1>5. CASE /\ (NoFault /\ ~path[target[p]]) \/ Fault("call")
           /\ UNCHANGED nodeVars /\ Reply(p, FALSE)
  BY <1>0, <1>5, FailsIInv
<1> QED
  BY <1>2, <1>3, <1>4, <1>5 DEF UnpublishVerify

-----------------------------------------------------------------------------
(* NodeIInv holds in every state: with one call at a time per path,        *)
(* whatever fails, times out or is restarted.                              *)
THEOREM NodeInvariant == ~Overlap => (Spec => []NodeIInv)
<1> SUFFICES ASSUME ~Overlap PROVE Spec => []NodeIInv
  OBVIOUS
<1>1. NodeIInv /\ [Next]_vars => NodeIInv'
  <2> SUFFICES ASSUME NodeIInv, [Next]_vars PROVE NodeIInv'
    OBVIOUS
  <2>1. ASSUME NEW p \in Proc, Step(p) PROVE NodeIInv'
    BY <2>1, PublishFilesystemIInv, PublishBlockIInv, UnpublishIInv, VerifyIInv DEF Step
  <2>2. ASSUME NEW p \in Proc, NEW t \in Target, Issue(p, t) PROVE NodeIInv'
    BY <2>2, IssueIInv
  <2>3. ASSUME NEW t \in Target, Want(t) \/ Timeout(t) PROVE NodeIInv'
    BY <2>3, WantIInv, TimeoutIInv
  <2>4. CASE Restart
    BY <2>4, GoneIInv, FaultBound DEF Restart, NodeIInv, TypeOK
  <2>5. CASE UNCHANGED vars
    BY <2>5 DEF vars, nodeVars, NodeIInv, TypeOK, OneHandler, CalledForWish, SeenHolds,
       MountHasPath, PublishedIsMounted, MountedOnce, AbsentIsClean, Mounted
  <2> QED
    BY <2>1, <2>2, <2>3, <2>4, <2>5 DEF Next
<1> QED
  BY InitIInv, <1>1, PTL DEF Spec

(* A pod whose volume the kubelet was told to be published has it mounted. *)
THEOREM PublishedStaysMounted == ~Overlap => (Spec => []PublishedIsMounted)
<1>1. NodeIInv => PublishedIsMounted
  BY DEF NodeIInv
<1> QED
  BY NodeInvariant, <1>1, PTL

(* However often the kubelet repeats a publish, a filesystem is mounted at  *)
(* most once on a target (the test of node_fs.go:26).                      *)
THEOREM FilesystemMountedOnce == ~Overlap => (Spec => []MountedOnce)
<1>1. NodeIInv => MountedOnce
  BY DEF NodeIInv
<1> QED
  BY NodeInvariant, <1>1, PTL

(* Nothing is left of a filesystem where the kubelet was told that it is   *)
(* unpublished (node_fs.go:83).                                            *)
THEOREM UnpublishedLeavesNothing == ~Overlap => (Spec => []AbsentIsClean)
<1>1. NodeIInv => AbsentIsClean
  BY DEF NodeIInv
<1> QED
  BY NodeInvariant, <1>1, PTL
=============================================================================
