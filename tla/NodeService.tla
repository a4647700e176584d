----------------------------- MODULE NodeService -----------------------------
(***************************************************************************)
(* The node service (node.go, node_fs.go, node_block.go): NodePublish and  *)
(* NodeUnpublish of volumes at target paths of one node, called by the     *)
(* kubelet.  NodeStageVolume does nothing.                                 *)
(*                                                                         *)
(* The handlers keep no state and take no lock: all they know is what the  *)
(* mount table and the file system tell them, one system call at a time.   *)
(* Every system call is one action.  The kubelet (external) calls again    *)
(* after an error, or when no answer came in time; the handler does not    *)
(* look at its context, so the first call may still run then (Overlap).    *)
(* The driver may be restarted at any time; mounts stay.                   *)
(***************************************************************************)
EXTENDS Naturals

CONSTANTS Proc,         \* handlers
          Target,       \* target paths, each for one volume
          BlockTarget,  \* those for LUNs; the others are for filesystems
          NoProc, NoTarget,
          Overlap,      \* a call may start while an earlier one still runs
          Faults,       \* what can happen: "call" (a system call or a REST
                        \* call fails), "unauth" (a REST call is refused with
                        \* 401 twice), "exec" (iscsiadm cannot be started),
                        \* "timeout" (the kubelet gives a call up), "restart"
                        \* (of the driver)
          MaxFaults     \* bound: how often it happens

ASSUME NodeAssumption ==
    /\ BlockTarget \subseteq Target
    /\ NoProc \notin Proc
    /\ NoTarget \notin Target
    /\ Overlap \in BOOLEAN
    /\ Faults \subseteq {"call", "unauth", "exec", "timeout", "restart"}
    /\ MaxFaults \in Nat

VARIABLES
    path,      \* path[t]: there is a directory or file t
    mounts,    \* mounts[t]: how many mounts are stacked on t
    kubelet,   \* kubelet[t]: what the kubelet knows and wants of t
    waitsFor,  \* waitsFor[t]: the handler whose reply the kubelet waits for
    pc,        \* pc[p]: the next system call of p
    target,    \* target[p]: the path p was called for
    faults,    \* faults so far
    panicked   \* a handler panicked

nodeVars == <<path, mounts>>
vars     == <<nodeVars, kubelet, waitsFor, pc, target, faults, panicked>>

Wishes == {"absent", "publishing", "published", "unpublishing"}

\* The next system call in nodePublishVolume and in nodeUnpublishVolume.
ToPublish   == {"check", "mkdir", "mount", "attach", "connect", "makefile", "bind"}
ToUnpublish == {"stat", "umount", "verify", "reverify", "remove"}
Calls       == ToPublish \cup ToUnpublish

TypeOK ==
    /\ path \in [Target -> BOOLEAN]
    /\ mounts \in [Target -> Nat]
    /\ kubelet \in [Target -> Wishes]
    /\ waitsFor \in [Target -> Proc \cup {NoProc}]
    /\ pc \in [Proc -> Calls \cup {"idle"}]
    /\ target \in [Proc -> Target \cup {NoTarget}]
    /\ faults \in 0..MaxFaults
    /\ panicked \in BOOLEAN

Init ==
    /\ path = [t \in Target |-> FALSE]
    /\ mounts = [t \in Target |-> 0]
    /\ kubelet = [t \in Target |-> "absent"]
    /\ waitsFor = [t \in Target |-> NoProc]
    /\ pc = [p \in Proc |-> "idle"]
    /\ target = [p \in Proc |-> NoTarget]
    /\ faults = 0
    /\ panicked = FALSE

-----------------------------------------------------------------------------
(* The kubelet.                                                            *)

\* A pod wants the volume, or goes away.
Want(t) ==
    /\ waitsFor[t] = NoProc
    /\ \/ kubelet[t] = "absent" /\ kubelet' = [kubelet EXCEPT ![t] = "publishing"]
       \/ /\ kubelet[t] \in {"publishing", "published"}
          /\ kubelet' = [kubelet EXCEPT ![t] = "unpublishing"]
    /\ UNCHANGED <<nodeVars, waitsFor, pc, target, faults, panicked>>

Running(t) == \E p \in Proc : target[p] = t

\* The handler: publish takes it from the request's capability (node.go:175),
\* unpublish from the type in the ID (node.go:221).  A target here is of a
\* volume for which the two agree.
FirstCall(t, wish) ==
    CASE wish = "publishing" /\ t \notin BlockTarget -> "check"
      [] wish = "publishing" /\ t \in BlockTarget -> "attach"
      [] wish = "unpublishing" /\ t \notin BlockTarget -> "stat"
      [] wish = "unpublishing" /\ t \in BlockTarget -> "umount"

\* NodePublishVolume or NodeUnpublishVolume is called.
Issue(p, t) ==
    /\ pc[p] = "idle"
    /\ waitsFor[t] = NoProc
    /\ kubelet[t] \in {"publishing", "unpublishing"}
    /\ Overlap \/ ~Running(t)
    /\ waitsFor' = [waitsFor EXCEPT ![t] = p]
    /\ target' = [target EXCEPT ![p] = t]
    /\ pc' = [pc EXCEPT ![p] = FirstCall(t, kubelet[t])]
    /\ UNCHANGED <<nodeVars, kubelet, faults, panicked>>

Fault(kind) ==
    /\ kind \in Faults
    /\ faults < MaxFaults
    /\ faults' = faults + 1

\* The kubelet stops waiting for a reply.
Timeout(t) ==
    /\ waitsFor[t] # NoProc
    /\ Fault("timeout")
    /\ waitsFor' = [waitsFor EXCEPT ![t] = NoProc]
    /\ UNCHANGED <<nodeVars, kubelet, pc, target, panicked>>

\* The driver ends, and is started again by the kubelet.
Gone ==
    /\ pc' = [p \in Proc |-> "idle"]
    /\ target' = [p \in Proc |-> NoTarget]
    /\ waitsFor' = [t \in Target |-> NoProc]
    /\ UNCHANGED kubelet

Restart == Fault("restart") /\ Gone /\ UNCHANGED <<nodeVars, panicked>>

Panics == panicked' = TRUE /\ Gone

-----------------------------------------------------------------------------
At(p, c) == pc[p] = c

Then(p, c) ==
    /\ pc' = [pc EXCEPT ![p] = c]
    /\ UNCHANGED <<kubelet, waitsFor, target, panicked>>

\* The handler replies; the kubelet notices if it still waits.
Reply(p, ok) ==
    LET t     == target[p]
        heard == waitsFor[t] = p
    IN /\ pc' = [pc EXCEPT ![p] = "idle"]
       /\ target' = [target EXCEPT ![p] = NoTarget]
       /\ waitsFor' = IF heard THEN [waitsFor EXCEPT ![t] = NoProc] ELSE waitsFor
       /\ kubelet' = IF heard /\ ok
                     THEN [kubelet EXCEPT ![t] = IF @ = "publishing" THEN "published" ELSE "absent"]
                     ELSE kubelet
       /\ UNCHANGED panicked

NoFault == UNCHANGED faults

\* A system call or a REST call fails: the handler replies with the error.
Fails(p) == Fault("call") /\ Reply(p, FALSE) /\ UNCHANGED nodeVars

Mounted(t)  == mounts[t] > 0
OnTop(t)    == mounts' = [mounts EXCEPT ![t] = @ + 1]
Unmounted(t) == mounts' = [mounts EXCEPT ![t] = @ - 1]
Create(t)   == path' = [path EXCEPT ![t] = TRUE]
Remove(t)   == path' = [path EXCEPT ![t] = FALSE]

-----------------------------------------------------------------------------
(* nodePublishFileSystem.                                                  *)

\* Mutants of PublishCheck: a path that is there counts as a mount; a mount
\* that is there is not noticed; a path that is there is an error.
CheckPathOnly(p) ==
    /\ At(p, "check") /\ NoFault /\ UNCHANGED nodeVars
    /\ IF path[target[p]] THEN Reply(p, TRUE) ELSE Then(p, "mkdir")

CheckNothing(p) ==
    /\ At(p, "check") /\ NoFault /\ UNCHANGED nodeVars
    /\ Then(p, IF path[target[p]] THEN "mount" ELSE "mkdir")

CheckStrictly(p) ==
    /\ At(p, "check") /\ NoFault /\ UNCHANGED nodeVars
    /\ IF path[target[p]] THEN Reply(p, Mounted(target[p])) ELSE Then(p, "mkdir")

\* IsLikelyNotMountPoint: no path, a mount, or neither.
PublishCheck(p) ==
    /\ At(p, "check")
    /\ \/ /\ NoFault /\ UNCHANGED nodeVars
          /\ \/ ~path[target[p]] /\ Then(p, "mkdir")
             \/ path[target[p]] /\ Mounted(target[p]) /\ Reply(p, TRUE)
             \/ path[target[p]] /\ ~Mounted(target[p]) /\ Then(p, "mount")
       \/ Fails(p)

\* MkdirAll does not mind a path that is already there.
PublishMkdir(p) ==
    /\ At(p, "mkdir")
    /\ \/ NoFault /\ Create(target[p]) /\ Then(p, "mount") /\ UNCHANGED mounts
       \/ Fails(p)

PublishMount(p) ==
    /\ At(p, "mount")
    /\ \/ NoFault /\ path[target[p]] /\ OnTop(target[p]) /\ Reply(p, TRUE) /\ UNCHANGED path
       \/ NoFault /\ ~path[target[p]] /\ Reply(p, FALSE) /\ UNCHANGED nodeVars
       \/ Fails(p)

-----------------------------------------------------------------------------
(* nodePublishBlockVolume.                                                 *)

\* attachBlockVolume: GetLun, GetTargetGroup, GetISCSIInfo.  Refused twice, a
\* REST call leaves an empty answer without an error, and the first of no
\* targets or of no assigned numbers is taken: the driver panics.
PublishAttach(p) ==
    /\ At(p, "attach")
    /\ \/ NoFault /\ Then(p, "connect") /\ UNCHANGED nodeVars
       \/ Fails(p)
       \/ Fault("unauth") /\ Panics /\ UNCHANGED nodeVars

\* ConnectDisk: Rescan (no session is no error; an iscsiadm that cannot be
\* started has no exit code to ask for), Connect, then the test for the device
\* and the directory of the target.  Nothing ever disconnects.
PublishConnect(p) ==
    /\ At(p, "connect")
    /\ \/ NoFault /\ Then(p, "makefile") /\ UNCHANGED nodeVars
       \/ Fails(p)
       \/ Fault("exec") /\ Panics /\ UNCHANGED nodeVars

\* MakeFile does not mind a file that is already there; if it cannot open
\* the file, the handler removes what is there.
PublishMakeFile(p) ==
    /\ At(p, "makefile")
    /\ \/ NoFault /\ Create(target[p]) /\ Then(p, "bind") /\ UNCHANGED mounts
       \/ /\ Fault("call") /\ Reply(p, FALSE) /\ UNCHANGED mounts
          /\ IF Mounted(target[p]) THEN UNCHANGED path ELSE Remove(target[p])

\* The bind mount goes on top of whatever is mounted there already.  If it
\* fails the file is removed, unless it is a mount point.
PublishBind(p) ==
    /\ At(p, "bind")
    /\ \/ NoFault /\ path[target[p]] /\ OnTop(target[p]) /\ Reply(p, TRUE) /\ UNCHANGED path
       \/ NoFault /\ ~path[target[p]] /\ Reply(p, FALSE) /\ UNCHANGED nodeVars
       \/ /\ Fault("call") /\ Reply(p, FALSE) /\ UNCHANGED mounts
          /\ IF Mounted(target[p]) THEN UNCHANGED path ELSE Remove(target[p])

-----------------------------------------------------------------------------
(* nodeUnpublishFilesystemVolume and nodeUnpublishBlockVolume.             *)

\* Only for filesystems: no path, nothing to do.  Before it, the handler
\* reads the credentials, which may fail.
UnpublishStat(p) ==
    /\ At(p, "stat")
    /\ \/ /\ NoFault /\ UNCHANGED nodeVars
          /\ IF path[target[p]] THEN Then(p, "umount") ELSE Reply(p, TRUE)
       \/ Fails(p)

\* Mutant of UnpublishUnmount: "not mounted" is not forgiven.
UnmountStrictly(p) ==
    /\ At(p, "umount")
    /\ \/ /\ NoFault /\ Mounted(target[p])
          /\ Unmounted(target[p]) /\ Then(p, "verify") /\ UNCHANGED path
       \/ NoFault /\ ~Mounted(target[p]) /\ Reply(p, FALSE) /\ UNCHANGED nodeVars
       \/ Fails(p)

\* Unmount takes the topmost mount away.  "Not mounted" is an error that
\* only the filesystem handler forgives; a path that is gone says "no mount
\* point specified", which neither does.
UnpublishUnmount(p) ==
    /\ At(p, "umount")
    /\ \/ /\ NoFault /\ Mounted(target[p])
          /\ Unmounted(target[p]) /\ Then(p, "verify") /\ UNCHANGED path
       \/ /\ NoFault /\ ~Mounted(target[p]) /\ UNCHANGED nodeVars
          /\ IF path[target[p]] /\ target[p] \notin BlockTarget
             THEN Then(p, "reverify") ELSE Reply(p, FALSE)
       \/ Fails(p)

\* Mutant of UnpublishVerify: the path is left there.
VerifyOnly(p) ==
    /\ pc[p] \in {"verify", "reverify"} /\ NoFault
    /\ Reply(p, TRUE) /\ UNCHANGED nodeVars

\* IsLikelyNotMountPoint.  If it fails, because the path is gone or for
\* another reason, the handler formats the error of Unmount: nil, unless it
\* was the forgiven "not mounted".
UnpublishVerify(p) ==
    /\ pc[p] \in {"verify", "reverify"}
    /\ \/ /\ NoFault /\ path[target[p]] /\ UNCHANGED nodeVars
          /\ IF Mounted(target[p]) THEN Reply(p, TRUE) ELSE Then(p, "remove")
       \/ /\ (NoFault /\ ~path[target[p]]) \/ Fault("call")
          /\ UNCHANGED nodeVars
          /\ IF At(p, "verify") THEN Panics ELSE Reply(p, FALSE)

\* os.Remove fails on a mount point and on a path that is gone.
UnpublishRemove(p) ==
    /\ At(p, "remove")
    /\ \/ /\ NoFault /\ path[target[p]] /\ ~Mounted(target[p])
          /\ Remove(target[p]) /\ Reply(p, TRUE) /\ UNCHANGED mounts
       \/ /\ NoFault /\ (~path[target[p]] \/ Mounted(target[p]))
          /\ Reply(p, FALSE) /\ UNCHANGED nodeVars
       \/ Fails(p)

-----------------------------------------------------------------------------
Step(p) ==
    \/ PublishCheck(p) \/ PublishMkdir(p) \/ PublishMount(p)
    \/ PublishAttach(p) \/ PublishConnect(p) \/ PublishMakeFile(p) \/ PublishBind(p)
    \/ UnpublishStat(p) \/ UnpublishUnmount(p) \/ UnpublishVerify(p) \/ UnpublishRemove(p)

Next ==
    \/ \E p \in Proc : Step(p) \/ \E t \in Target : Issue(p, t)
    \/ \E t \in Target : Want(t) \/ Timeout(t)
    \/ Restart

(* Handlers are scheduled and system calls end; the kubelet calls again    *)
(* until it has its way.                                                   *)
Fairness ==
    /\ \A p \in Proc : WF_vars(Step(p))
    /\ \A t \in Target : WF_vars(\E p \in Proc : Issue(p, t))

Spec     == Init /\ [][Next]_vars
FairSpec == Spec /\ Fairness
-----------------------------------------------------------------------------
\* A pod whose volume was published has it: whatever failed, timed out or was
\* restarted before, OK means mounted, and nothing takes the mount away.
PublishedIsMounted ==
    \A t \in Target : kubelet[t] = "published" => path[t] /\ Mounted(t)

\* A filesystem is never mounted twice on a target: one NodeUnpublishVolume
\* must be enough to take it away (the test of nodePublishFileSystem).
MountedOnce == \A t \in Target \ BlockTarget : mounts[t] <= 1

\* When the kubelet has been told that a filesystem is unpublished, nothing
\* is left: neither the mount nor the directory.
AbsentIsClean ==
    \A t \in Target \ BlockTarget : kubelet[t] = "absent" => ~path[t] /\ ~Mounted(t)

-----------------------------------------------------------------------------
(* The inductive invariant, for handlers that do not overlap.              *)

\* A path has one handler, and the kubelet waits for the handler of the path
\* or for none.
OneHandler ==
    /\ \A p \in Proc : pc[p] = "idle" <=> target[p] = NoTarget
    /\ \A p, q \in Proc : target[p] = target[q] /\ target[p] # NoTarget => p = q
    /\ \A t \in Target : waitsFor[t] # NoProc => target[waitsFor[t]] = t

\* What was called is what the kubelet wants; a publish it gave up may still
\* run when it wants the volume unpublished, and nothing runs when it wants
\* nothing.
CalledForWish ==
    \A p \in Proc : \A t \in Target : target[p] = t =>
        /\ kubelet[t] \in {"publishing", "unpublishing"}
        /\ pc[p] \in ToUnpublish => kubelet[t] = "unpublishing"
        /\ waitsFor[t] = p /\ kubelet[t] = "unpublishing" => pc[p] \in ToUnpublish

\* What a handler has seen of its path still holds: nobody else changes it.
\* Handlers of filesystems and of LUNs make different calls.
SeenHolds ==
    \A p \in Proc : \A t \in Target : target[p] = t =>
        /\ pc[p] = "mkdir" => ~path[t]
        /\ pc[p] \in {"mount", "reverify", "remove"} => path[t] /\ ~Mounted(t)
        /\ pc[p] \in {"check", "mkdir", "mount", "stat", "reverify"} => t \notin BlockTarget
        /\ pc[p] \in {"attach", "connect", "makefile", "bind"} => t \in BlockTarget
        /\ t \notin BlockTarget /\ pc[p] \in {"umount", "verify"} => path[t]
        /\ t \notin BlockTarget /\ pc[p] = "verify" => ~Mounted(t)

MountHasPath == \A t \in Target : Mounted(t) => path[t]

\* All that the node service's answers rest on: without a lock, a handler may
\* rely on what it saw because the kubelet calls one at a time per path, and
\* a call that was cut leaves a state the next one copes with.
NodeIInv ==
    /\ TypeOK /\ OneHandler /\ CalledForWish /\ SeenHolds /\ MountHasPath
    /\ PublishedIsMounted /\ MountedOnce /\ AbsentIsClean

-----------------------------------------------------------------------------
\* No handler panics: an error of a system call is a reply ("Cannot determine
\* target path", node_fs.go:94).
NeverPanics == ~panicked

\* A filesystem that is to be unpublished will be, once nothing fails any
\* more: no failure leaves a state every later call refuses.
UnpublishEnds ==
    \A t \in Target \ BlockTarget : kubelet[t] = "unpublishing" ~> kubelet[t] = "absent"

\* A pod gets its volume, or goes away.
PublishEnds ==
    \A t \in Target : kubelet[t] = "publishing" ~> kubelet[t] # "publishing"
=============================================================================
