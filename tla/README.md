# Specifications of the Oracle ZFSSA CSI driver

TLA+ modules that model the concurrent and fault-prone core of the driver, TLC
configurations that check them on small instances, and TLAPS proofs of the
properties that matter most for instances of any size. `PROJECT.json` maps each
definition to the lines it models, and lists runs, mutants, findings, hazards
and theorems. Paths below are relative to `src/`.

To repeat a check: `tlc -config MCBolt.cfg MCBolt`, `tlapm BoltProofs.tla`.

## 1. The system

The driver is a gRPC server that Kubernetes talks to, in two roles. The
*controller* (one replica) creates, deletes, publishes and expands shares on a
ZFS storage appliance over REST; the *node plugin* (one per node) mounts them.
Nothing is persisted by the driver: what it knows it asks of the appliance or
of the node's mount table.

| Component | State | Operations | Interacts with |
|---|---|---|---|
| Bolt, `pkg/utils/sync.go` | mutex, condition variable, context of the owner | `Lock`, `Unlock` (panics for a wrong owner) | every volume and snapshot structure has one |
| Volume cache, `pkg/service/volumes.go` | `vHash` under the read-write lock `vMutex`; per structure ID, state, reference count, bolt | `newVolume`, `lookupVolume`, `releaseVolume`, `updateVolumeList` | called by each controller method and listing; asks the appliance in a look-up |
| Controller volume methods, `controller.go`, `controller_fs.go`, `controller_block.go` | capacity, access modes and state cached in the structure | create, delete, publish, unpublish, expand, get, validate, list | cache, REST |
| REST client, `pkg/zfssarest/zfssa_rest.go` | list of tokens; per token a state, a session, a mutex and a condition variable | `LookUpToken`, `getToken`, `createZfssaSession`, `MakeRequest`, `resetHttpTlsClient` | shared by all requests of a user |
| Node service, `node.go`, `node_fs.go`, `node_block.go`, `mount.go` | none; mount table and file system of the node | `NodePublishVolume`, `NodeUnpublishVolume`, `NodeUnstageVolume` | kubelet, mount(8), iSCSI |
| Snapshot cache, `volumes.go`, `snapshots.go` | `sHash` under `sMutex`; snapshot structures that point to volume structures | `newSnapshot`, `lookupSnapshot`, `releaseSnapshot`, `updateSnapshotList` | volume cache, which it locks first |
| Snapshot methods and clones, `snapshots.go`, `controller_fs.go`, `controller_block.go`, `zfssa_snapshots.go` | creation time, sizes, number of clones | create, delete, list, CreateVolume from a snapshot | both caches, REST |
| Listings, `controller.go`, `volumes.go` | a token at the client | `ListVolumes`, `ListSnapshots`, paging | both caches, REST |
| IDs, `volume_id.go` | none | parsing and writing of IDs, handles and hrefs | everything that looks something up |
| iSCSI, `iscsi.go` | sessions of the node | rescan, connect | node service |
| `GetCapacity`; Kubernetes API, `cluster.go`; identity; start-up, `service.go`; logging and YAML helpers | none, or configuration | | |

What is hard here:

* **Concurrency.** gRPC runs a goroutine per request, a listing starts two. The
  cache is a nest of an RW lock, atomic reference counts and bolts, and drops
  its locks on the way; sessions are created outside the token's mutex; the
  node handlers take no lock at all.
* **Faults.** Any REST call may be lost before or after the appliance has
  carried it out, or be refused twice with 401; sessions expire; certificates
  change; system calls fail; the kubelet gives calls up and repeats them; the
  driver is restarted between two steps.
* **Staleness.** The caches remember what the appliance said; other clients of
  the appliance do not tell. A snapshot structure points to a volume structure
  that may be dropped and made anew. Tokens and IDs outlive what they name.

What makes each part correct: one goroutine per volume, exact reference counts
and no structure left behind (caches); the answer to a request is true of the
appliance, no LUN is taken from a node, no snapshot or origin of a clone is lost
(controller); pages tile the list, and what was listed is found (listings); one
creator of a session, nobody waits for ever, a live session is kept (REST
client); the kubelet's knowledge is true of the node, and retries end well
(node).

## 2. The modules

```
ExclusiveLock  <--implements--  Bolt
      ^                           .  (its lock is what the caches use)
      '------implements------  VolumeCache  <--EXTENDS, implements--  VolumeService
                                    ^                                      ^
                                 EXTENDS                                EXTENDS
                                    |                                      |
                               SnapshotCache <--EXTENDS, implements-- SnapshotService

VolumeIds  <--EXTENDS--  Listing          RestToken          NodeService
```

### ExclusiveLock
What the driver promises wherever it hands something to one goroutine at a
time: ask, be admitted when nobody owns it, let go.

### Bolt (`pkg/utils/sync.go`)
Everything `Lock` and `Unlock` do happens under the mutex, so a critical
section is one action: `Take` and `Wait` are the two outcomes of a turn of
`Lock`'s loop, `Unlock` frees the bolt and wakes any one sleeper, or panics.
Sleepers that were woken compete with newcomers (`Trying`). `CtxOf` says which
context a goroutine passes; two may share one, and one may be nil.

### VolumeCache (`pkg/service/volumes.go`)
`vHash`, `writer` and `readers` (vMutex), and per structure `volId`, `state`,
`refcount`, `context` (the bolt). `LookupHit`/`LookupMiss` are `lookupVolume`'s
critical section under RLock, `NewHit`/`NewMiss` that of `newVolume`;
`LockVolume` is the wait for the bolt with its result "busy"; `Details` the
question to the appliance for a placeholder; `SetState` and `Finish` what the
request does. `releaseVolume` is cut at every lock operation: `ReleaseRef`
(RLock, decrement, choice of the path), then `ReleaseFast` (unlock, RUnlock), or
`ReleaseSlow` (Lock, unlock of the bolt) and `ReleaseCheck` (second look,
delete, Unlock).

Why the other sections may be one action: what they touch is protected by
vMutex, or is one atomic operation, or belongs to the owner of the bolt. In
`ReleaseRef` the state is read after the atomic decrement without a lock, but
the goroutine still owns the bolt, so nobody changes the state in between.
The bolt is used as the atomic lock that `Bolt` is shown to implement. A
structure nothing points to may be used again (`Unused`), as memory is.

### VolumeService (`controller.go`, `controller_fs.go`, `controller_block.go`, `zfssa_fs.go`, `zfssa_lun.go`)
Extends VolumeCache by the appliance (`share`: size, initiator group, snapshots,
origin) and the handlers. A REST call with the handling of its answer is one action; its
outcome is *answered*, *lost*, *noanswer* (carried out, answer lost) or
*unauth* (401 twice: `MakeRequest` returns no error and an empty answer,
`zfssa_rest.go:281`). Between two calls anything may happen. `at[p]` names the
next call of a handler:

| method | calls |
|---|---|
| CreateVolume | `post`, then `refresh` if the share exists and the structure is in state created |
| DeleteVolume | `snaps`, for filesystems `snaps2`, then `delete` |
| ControllerPublishVolume (LUN) | `getgroup`, `setgroup` |
| ControllerUnpublishVolume (LUN) | `mask` |
| ControllerExpandVolume | `modify`, unless the cached capacity is large enough |
| ControllerGetVolume, ValidateVolumeCapabilities | none |
| updateFilesystemList, updateLunList | `list`, then `newVolume`, setInfo and release per share |

A panic of a handler ends the driver (`crashed`). A restart is a new
behaviour: `ServiceInit` has an empty cache and any shares on the appliance.
`Administer` is another client of the appliance that sets initiator groups.
What the cache knows of a share is `info`: capacity, access modes, and whether
it has the href, without which the paths of snapshots lead nowhere (`HasHref`).

`VolumeHistory` is VolumeService with the history variable `quiet`: whether the
driver has seen everything the appliance did until now.

### SnapshotCache (`pkg/service/volumes.go`, `snapshots.go`)
Extends VolumeCache by `sHash`, `sWriter` (sMutex) and per snapshot structure
`sId`, `sZvol` (the pointer to its volume's structure), `sState`, `sRefcount`,
`sContext`. `spc[p]` says where `p` is with its snapshot, `pc[p]` with the
volume, which it has first: `GetVolume` is any step of `lookupVolume`,
`ReleaseVolume` any of `releaseVolume`. `LookupSnapHit` panics if the pointer of
what it finds is another structure than the volume just locked;
`LookupSnapMiss` gives the volume back, and `Again` gets it anew for
`newSnapshot` (`AddSnap`, `NewSnapHit`, `OtherSource`). `releaseSnapshot` is
`ReleaseSnapRef`, then `ReleaseSnapFast`, or `ReleaseSnapSlow` and
`ReleaseSnapCheck`; both end with `releaseVolume` of the pointer
(`ReleaseSource`), where a stale one makes the bolt panic.

### SnapshotService (`controller.go`, `snapshots.go`, `controller_fs.go`, `controller_block.go`)
Joins VolumeService and SnapshotCache: all requests of the controller, on both
caches and one appliance.

| method | calls |
|---|---|
| CreateSnapshot | `snappost`, then `snapcheck` if it exists and the structure is in state created |
| DeleteSnapshot | `snaprefresh` (clones?), `snapdelete` |
| ListSnapshots of one / of a volume / of all | `snapget` / `listsnaps` / `listallsnaps`, then `newSnapshot`, setInfo and release per snapshot |
| CreateVolume from a snapshot | `clonelookup`, `waiting` for the look-up, `clone` |

CreateVolume from a snapshot owns its new volume while it looks up the source:
two entries of the volume cache. The look-up is done by a process of its own,
`Second[p]`, with the context of `p`, while `p` waits: the code is sequential,
so the two never run at the same time. The appliance's clone has the
type of its origin; requests for a clone of another type are not modelled.

`SnapshotHistory` is SnapshotService with two history variables: `refused`
(a call was refused twice with 401, and its empty answer used) and `quiet` (the
driver has seen everything the appliance did until now, and a snapshot name was
used for one volume only, `SourceOf`). `MCSnapshotService` and
`MCSnapshotHistory` are the instances of the two for TLC.

### VolumeIds (`pkg/utils/volume_id.go`)
A string is the sequence of its components after a split at "/". The parsers
are operators; an error is `NoVolumeId`, `NoSnapshotId` or the empty sequence.
A handle (`/nfs/...`, `/iscsi/...`, as in `examples/`) parses to an ID whose type
is the protocol; the appliance's hrefs are external and read by their
components.

### Listing (`controller.go`, `volumes.go`, `snapshots.go`)
`ListVolumes` and `ListSnapshots` with what they enter into the caches, their
entries, pages and tokens, and the requests that use what was listed. `vHash` and
`sHash` are the caches, `snaps[x]` the snapshots of a share in their order,
`client` who follows the tokens (`same`: its pages were cut from one list), `work`
the listing under way.

A listing goes in steps: the request, `ReadVolumes` for each of the two types
(`updateFilesystemList`, `updateLunList`), `EnterVolume` for each share that was
read (or `SkipBusy`), and the reply `VolumesListed`; `ListSnapshots`, which
reads, `EnterSnapshot`, and `SnapshotsListed`. In between come, in one step
each, requests of the driver (whose DELETE and POST may be carried out without an
answer), shares and snapshots that other clients make and delete (`Appear`,
`VanishShare`, `VanishSnapshot`), and restarts (`Restart` empties the caches and
leaves tokens and IDs valid). So a listing enters what was deleted after it was
read, and the caches keep what is gone: in the code an entry leaves a cache only
when a DELETE is answered or finds nothing.

A list is cut from a Go map, so its order is any (`SetToSeqs`), and it has what
other requests look up or create at the moment (`Placeholders`); `ListVolumes`
puts one nil entry per entry of the cache of *snapshots* in front, as the code
does. `orphans` are cached snapshots whose volume's structure was dropped under
them: looking one up panics, and `alive` becomes false until `Restart`.

Two parts are history, for the properties: `lost` (what left the appliance and
is still in a cache or about to be entered) and `work.owed` (what the listing has
read and the reply must name: a name that was busy, or that has gone since, is
taken out). One listing runs at a time; the locks, and the steps of the requests
in between, are those of VolumeService and SnapshotService.

### RestToken (`pkg/zfssarest/zfssa_rest.go`)
The requests of one user. `list` is `tokens.list[user]`; a token has `state`,
`xAuthSession` and its waiters. A critical section of `token.mtx` is an action
(`GetValid`, `GetInvalid`, `GetCreating`, `Created`, `NotCreated`); storing and
reading back the session of a creation, which the code does without the mutex,
are actions of their own (`CreateSession`, `ReadBack`), as is the certificate
failure that writes the state without the mutex and drops the list
(`BadCertificate`, `CreateFails`). `live` are the sessions the appliance
accepts; `Expire` ends one.

### NodeService (`node.go`, `node_fs.go`, `node_block.go`, `mount.go`)
`path` and `mounts` (how many are stacked on a target); one action per system
call. The kubelet is external: it wants a target published or unpublished,
calls, gives up (`Timeout`), calls again. With `Overlap` it calls while an
earlier call still runs, which the handlers do not notice as they ignore their
context. `Restart` ends all handlers; mounts stay. Publishing a LUN attaches it
first: `PublishAttach` are the two REST calls of `attachBlockVolume`, whose
empty answers (401 twice) it indexes, and `PublishConnect` is `ConnectDisk`,
whose rescan asserts the type of an error that is another one if iscsiadm
cannot be started. Either panic ends the driver and all its handlers (`Panics`).

`FirstCall` takes the handler by `BlockTarget`, for both methods. The code takes
publish by the capability in the request (`node.go:175-186`) and unpublish by
the type in the ID (`node.go:221`). The two agree for volumes the driver made;
a handle of type `iscsi`, or a LUN with mount access, would be published by one
handler and unpublished by the other. Such volumes are outside the module.

## 3. What is checked

Each run ends within three minutes with two workers. Each property of a passing
run has a mutant in `PROJECT.json`: a plausible bug in one definition under
which TLC finds that property violated in that run.

| run | instance | shows |
|---|---|---|
| `bolt` | 4 goroutines, two with one context | exclusive lock (refinement), no lost wake-up, wanted is taken |
| `cache` | 3 goroutines with one call each, 2 names, 2 structures | exclusive access, no stale placeholder, the inductive invariant (reference counts, owners, no work on a dropped structure), refinement of a lock per name, every call returns |
| `cache_startup` | the 2 goroutines of the start-up listing with their nil context, a filesystem and a LUN of one name; both call `newVolume` | **violated:** exclusive access |
| `cache_ids` | one goroutine enters a filesystem, one looks a LUN of its name up | **violated:** a look-up returns the volume of its ID |
| `service` | 2 goroutines with two requests each, 2 nodes, lost calls and answers | answers of create, delete, publish, unpublish are true; no LUN is taken from a node; the inductive invariant; in quiet behaviours the cache is truthful, expand answers truthfully and never shrinks |
| `service_retry` | CreateVolume with lost answers | **violated:** a share is refused only if its capacity does not fit |
| `live` | every method and fault, two requests: for a filesystem, for a LUN, or for snapshots and a clone; an administrator | every request ends; both caches are used as SnapshotCache says |
| `snapshots` | 2 filesystems, one the other's origin; three requests with lost calls and answers, or two with repeated 401 | the inductive invariant of both caches; no snapshot vanishes unasked, no clone loses its origin, a snapshot that was found is gone when DeleteSnapshot says OK; in quiet behaviours the snapshot cache is truthful and nothing panics |
| `listing` | a filesystem with a snapshot, a LUN, 2 snapshot names, IDs and handles, pages of one or all; deletions with and without answer, other clients, restarts between the steps of a listing | pages tile the list, what was listed is found, a list omits nothing it read and names nothing but what is there, was taken away unseen, or is being looked up |
| `token` | 2 goroutines, 2 tokens, 3 sessions, expiry, network and certificate failures | one creator, retry with another session, live session kept, no lost waiter, waits and calls end |
| `node` | 2 handlers, a filesystem and a LUN, 3 faults | published is mounted, filesystems mounted once and unpublished cleanly, retries end, the inductive invariant |
| `node_overlap` | 2 handlers at one target, overlapping calls | **violated:** no handler panics |

### Bounds
* *Goroutines.* Two meet in every race of `releaseVolume` (one decides, one
  holds); the third of `cache` makes a chain: one drops the entry, one waits
  for it, one adds it again. Requests for different names meet only in vMutex;
  `cache` has two names for that, and `service` takes one volume per
  behaviour (`about`). `live` and `snapshots` have two handlers and the second
  process of one: a clone meets one other request.
* *Structures.* As many as names are enough: a structure somebody refers to is
  cached under a name (`HeldIsCached`), and one is added only for a name that
  has none. `service`, `snapshots` and the violation runs have a spare one. The
  action constraint `FirstUnused` picks the first unused structure: which one
  does not matter to any property.
* *`MaxCalls`.* Requests per goroutine, or per behaviour in `live` and
  `snapshots`. One suffices in `cache`, where three goroutines stand for three
  requests in any order; the service runs need two, as a lost answer matters to
  the next request, and snapshots three (create, clone, delete; one less if the snapshot is there
  at the beginning). It also keeps
  arrivals finite: Go gives no fairness among the waiters of a condition
  variable, so liveness with endless newcomers would not hold.
* *Modes* of MCSnapshotService say which requests and outcomes a behaviour has:
  all of them together would be too many, and the properties need them apart.
* *Snapshots.* One name and one structure in `snapshots`: requests for two names
  have separate structures and meet in sMutex only. Two names in `listing`.
* *Sizes.* Three sizes and ranges below, at and above them are what the
  comparisons can tell apart.
* *Sessions and tokens.* A session or token nothing refers to may be given out
  anew. Three sessions: the one in use, one refused, and a fresh one. Two tokens:
  the list is dropped once, so a goroutine with the old one meets one with the
  new. The constraint `Bounds` takes the first unused ones.
* *Listings.* `MaxRequests` of `MCListing` is 5: a request for a page counts two,
  a step from outside one, wherever it comes. This gives two pages with a step
  before, between or inside, or one list amid three steps (as: delete without
  an answer, delete another while it is read, restart). Both shares and one
  snapshot are there at the beginning. `MaxPlaceholders` is 1: one other
  request looks something up while a list is cut. Pages of one entry have a full
  page, a next and a last one. The theorems have no such bounds: they are
  about `Spec` of Listing, not `MCSpec`.
* *`MaxFaults`.* Faults the node meets in a behaviour; three give a failure while
  recovering from a failure that cut a recovery.

### Fairness
Weak fairness of each goroutine's steps: Go schedules runnable goroutines and
sync.Mutex does not starve them. It covers the end of REST calls (with an answer
or an error) and of system calls. The HTTP client has **no time-out**
(`zfssa_rest.go:93`), so that a call ends is an assumption about the
appliance's TCP connection; it is listed as a hazard. The environment
(arrivals, expiry, faults, the administrator) has no fairness, except that the
kubelet calls again until it has its way (`NodeService`), which is its
documented behaviour. `EveryCallEnds` of RestToken assumes that from some time on
no session expires and no creation fails (`Calm`).

### Properties that need a quiet environment
`NeverStolen`, `PublishedIsGranted` and `UnpublishedIsMasked` are about the
driver alone: with an administrator between the two calls of publish they fail
(`AdminGroup = {}` in run `service`). The properties of the answers exclude
`unauth`, because a second 401 is taken for success; so do `KeptUnlessUnauth`,
`OriginUnlessUnauth` and `DeletedUnlessUnauth` (until one has happened:
`~refused`), as an empty answer tells of no
snapshots and no clones. `QuietTruthful`, `QuietExpanded`, `QuietNeverShrinks` and
`QuietSnaps` are about behaviours in which each call that is carried out is
answered and no listing runs (`quiet`): lost answers and listings make the
caches stale by design, and a stale pointer of a snapshot panics;
`CreatedIsThere` holds all the same. `QuietSnaps` excludes also a lost creation
of a volume (the driver records the volume as deleted on any error, though
snapshots of it may be cached) and snapshots of two volumes with one name. In NodeService, `MountedOnce`,
`AbsentIsClean` and `UnpublishEnds` are stated for filesystems: LUN targets
violate them, for the reasons in the hazard at `node_block.go:193`.
`ListedIsFound` needs, for snapshots, names that are unique on the appliance
(`Distinct`), the cache being keyed by them, and that no snapshot of the name
was taken away unseen. `DeletedUnlessUnauth` is about snapshots that
DeleteSnapshot has found: it replies OK for *any* error of the look-up
(`controller.go:532-534`), so an OK to another one promises nothing.

`ListsAreExact` has two bounds. From below: what was read, was not busy and is
still there is named (for a snapshot: it, or one of another share cached under its name). From above: what is
named is on the appliance, was taken away unseen since the driver started
(`lost`), or is a name others look up or create. The upper bound is not
"what is on the appliance": nothing removes stale entries (`volumes.go:399-406`,
`433-483`, `516-556`), and each later list names them again. Only the list of the
snapshots of one volume, which does not come from a cache, is exactly the
appliance's.

## 4. What is proved

Modules `*Proofs` extend the component's module. Every proof is a chain of
`Init => Inv`, `Inv /\ [Next]_vars => Inv'` (a lemma or a case per action) and
`Inv => property`.

| theorem | statement | assumes |
|---|---|---|
| `BoltSafe` | mutual exclusion, the owner recorded, no lost wake-up | `NoNilCtx` |
| `BoltImplementsLock` | Bolt implements ExclusiveLock | `NoNilCtx` |
| `CacheInvariant`, `CacheExclusive`, `CacheKeepsNoPlaceholder` | the inductive invariant; one goroutine per volume name; what is not created is being worked on | `NoNilCtx` |
| `CacheImplementsLocks` | for each name, the cache implements ExclusiveLock | `NoNilCtx` |
| `ServiceImplementsCache` | VolumeService implements VolumeCache | |
| `ServiceExclusive` | one goroutine per volume name in VolumeService, from the two above | `NoNilCtx` |
| `ServiceInvariant`, `ServiceNeverSteals` | the invariant behind publish; no LUN is taken from a node, under every fault of REST calls | `NoNilCtx`, `NoAdmin` |
| `PublishAnswersTruly`, `UnpublishAnswersTruly`, `DeleteAnswersTruly` | an OK to publish, unpublish and delete is true when it leaves | `NoNilCtx`, `NoAdmin`, `NoUnauth` |
| `CreateAnswersTruly` | an OK to create is true when it leaves, with the size it reports | the same, `RangesConsistent` |
| `QuietCacheIsTruthful`, `QuietExpandAnswersTruly`, `QuietExpandNeverShrinks` | while quiet, the cache tells the truth of volumes nobody works on, an OK to expand is true, and no share shrinks | `NoNilCtx` |
| `SnapInvariant`, `SnapshotsExclusive` | the inductive invariant of both caches; who has a snapshot is alone with it and owns its volume | `NoNilCtx` |
| `SnapServiceRefinesCaches`, `SnapServiceInvariant` | SnapshotService implements SnapshotCache (so the line above holds for it); the inductive invariant of all requests, under every fault of REST calls | `NoNilCtx` |
| `SnapshotsAreKept`, `OriginsAreKept`, `DeletedSnapsAreGone` | until a call is refused twice: snapshots vanish by their own DELETE only, no clone loses its origin, a snapshot DeleteSnapshot has found is gone when it says OK | `NoNilCtx` |
| `QuietSnapsTellTheTruth` | while quiet, cached snapshots are on the appliance, their pointers are fresh, and no look-up or release panics | `NoNilCtx` |
| `ListingsAgree` | an href leads to one ID on every path, and parsing the ID leads back | |
| `PagesAlwaysTile`, `ListedAlwaysFound`, `ListsAreAlwaysExact` | pages of one list tile it; listed IDs are found; a list without a limit names what it read and is still there, each once, and besides only what was taken away unseen or is being looked up | |
| `TokenInvariant`, `WaitersAreHeeded`, `OneCreatesAtATime`, `RetryHasAnother`, `TokenKeepsLiveSession` | the inductive invariant; no lost waiter; while the certificate is accepted, one creator, a fresh retry, and a live session is kept | |
| `NodeInvariant`, `PublishedStaysMounted`, `FilesystemMountedOnce`, `UnpublishedLeavesNothing` | the inductive invariant of the node service, and its three answers | `~Overlap` |

`NoNilCtx`: no goroutine works with a nil context; run `cache_startup` shows
what happens otherwise, and gRPC never passes nil. `NoAdmin`: nobody else sets
initiator groups. `NoUnauth`: no call is refused twice with 401, which the driver
takes for success. `RangesConsistent`: no request has a minimum above its
maximum, which the driver does not test. `~Overlap`: the kubelet has one call per target under way.
Besides these only the named ASSUMEs of the modules (types of the constants)
are used; the set of goroutines is finite but of any size.

*Cache.* Exclusive access is about names, but locks are per structure. The link
is `HeldIsCached`: who refers to a structure finds it under its name. Its
preservation by `ReleaseCheck` needs `RefcountExact` (zero means that nobody
refers to it), `OneDecides` (no second goroutine is past its own decision), and
`MutexExact` (nobody is inside the fast path). `LeftToWaiter` says why the fast
path may leave a volume that is not created: somebody waits for it. The proof
counts goroutines with the theorems on finite sets.

*Service.* `StillMasked`: between the two calls of publish the LUN stays masked,
because every action that changes it belongs to an owner of the same volume
name. This is where exclusive access is used, and why the cache's invariant is
a conjunct. It rests on IDs being used by one owner of the name; it does not
need names to be unique, as the owner of the name excludes all of its IDs.

*Answers.* `AnswerIInv` follows a handler from its last call to its release:
`RepliedAt` (who has replied calls nothing any more), `OpMatches` (a call belongs
to the request it answers) and `AnswersTrue`, which the others cannot disturb:
they own other names, so other shares (`MadeForIt`, here names are used once) and
other structures (`StructMoves`). Delete needs `HrefKnown`: a known filesystem has
its href, so its DELETE reaches the share; this fails after an empty answer,
hence `NoUnauth`. Create needs `PostOfUnknown`: a share that the driver met by
status 409 only, without reading it, is never good enough, so an OK is given
either for the share just made or for one just read.

*Quiet behaviours.* `VolumeHistory` adds the history variable `quiet`: no answer
was lost after its call was carried out, none was a second 401, no listing ran, and
nobody else changed a group. `TruthIInv` has
`KnownIsTrue` (a structure without an owner tells the truth), and `ExpandTrue`,
what a handler may rely on before each of its calls, as it owns the volume. The
preservation lemmas of the answers carry over step by step (a quiet step is one
that is not refused), which is why they are stated for a step and not for a
specification.

*Snapshots.* `SIInv` has `IInv` as a conjunct. That a snapshot has one user at a
time is not due to its bolt but to the volume's: `SourceHeld` (who refers to a
snapshot owns the name of its source) and `CacheExclusive` give `SnapExclusive`,
hence counts of at most one and `NeverBusy`: the waits for a snapshot's bolt
never wait, and the reply "snapshot is busy" is never given. Nothing is said of
pointers: `SIInv` holds also where `lookupSnapshot` panics; that it does not
while quiet is proved last.

*Snapshot methods.* `SnapServiceIInv` adds to `SIInv` what the handlers need of
each other under any fault: `PlaceFits` (where a handler is with its volume and
its snapshot at each call; a snapshot comes with a volume that was looked up and
found, so one in state created), `RequestFits` (the call belongs to the request,
who has replied calls nothing), `SecondFits` (the look-up a clone waits for is of
the snapshot it asked for) and `SharesFit`. All steps but two move one goroutine
(`Moves`) and leave the volumes the others own alone (`OthersRest`); `CloneLookup`
and `Clone` move a handler and its look-up, and are treated apart. Each step is
then a step of SnapshotCache, which is the refinement. On this rest the
promises about shares. `Safe`: whoever is about to send DELETE for a volume has
seen it without snapshots, and for a snapshot without clones, **and that is still
so**, though the test and the DELETE are calls of their own. Only the owner of
a volume makes or deletes a snapshot of it (`ShareStep`), and a clone is made by
one who owns, by its look-up, the origin as well: this is why CreateVolume
has to lock two volumes. `HrefKnown`: a volume in state created has its href,
so that an empty list of snapshots is about its own share and "not found" is
true; an answer of a share is never taken for an empty one (`SharesFit`: a LUN has a
size, a filesystem no initiator groups).

*Quiet snapshots.* `QuietIInv`: every cached snapshot points to the structure
that is cached for its source, and that is in state created (`SnapFresh`); one in
state created is on the appliance (`SnapTrue`); no listing is under way and a
clone names the right source (`Undisturbed`). `SnapFresh` says that the pointers
`lookupSnapshot` and `releaseSnapshot` compare are equal (`SourceIsMine`), hence
no panic. It would be lost if the structure of a volume were dropped or left
state created under a cached snapshot. `ReleaseCheck` drops only what is not
created. DeleteVolume changes the state, and `DeletedHasNoSnaps` is why it may:
the volume was seen without snapshots (`Safe`), so by `SnapTrue` none of its
snapshots is cached in state created; by `NoStaleSnap` one in another state is
being worked on, by somebody who would own the same volume (`SourceHeld`).

*Listings.* `ListIInv` has five parts. `CachesOK`: under each name a cache has one
of that name. `KnownOK`: what the driver holds, in a cache or about to be
entered, is on the appliance or in `lost`; what is owed is on the appliance, and
is cached or still to be entered. The second is what makes a list complete, and
needs that every step that takes something from a cache, or from the appliance,
takes it from `owed` as well. `OrphansOK`: an orphan is `lost`. `WorkOK`: a
listing deals with one kind of IDs, and with the client's token. `ClientOK`: a
token lies within the list it was given for, and `PagesTile`. The pages tile by
the lemmas on `SubSeq`. `ListedIsFound` rests on the round trips of
`ListingsAgree` and on IDs being rebuilt from their components when a handle
fills the cache (`Structure`), so that the type of a handle does not stay there.
`ListsAreExact` needs `ExactIInv` besides: a share's snapshots have different
names (`SnapsDiffer`), and there is no token without a limit
(`NoTokenUnlimited`), so that the first page is the list. `OrderListed` says that
any order of the entries, behind any number of nil ones, names each once.

*Token.* `Always` holds whatever happens: a token in state creating has a
creator, who will wake the waiters. While the certificate is accepted
(`~unverified`): `OneToken` (the token list is never dropped, so all requests
share one token), `RefusedIsDead` (a refused session is not live), `NotAgain`
(once replaced, the refused session is not in the token) give `LiveSessionKept`
and `RetryIsFresh`.

*Node.* `SeenHolds`: what a handler has seen of its path still holds, since it is
the only handler of the path (`OneHandler`); `CalledForWish`: what runs is what
the kubelet wants, or a publish it gave up, which no unpublish overlaps.

*Model-checked only.* All liveness (fairness and ENABLED are out of the prover's
reach); `LookupMatchesId`, `RefusedIsIncompatible` and `NeverPanics`, which are violated.
Every other property of a run is stated by a theorem.

## 5. Findings

1. `service.go:293` — the two goroutines of the listing of volumes that `Run`
   starts use a nil context, which a bolt takes for "free": of a filesystem and
   a LUN with the same name they own one structure at once, against
   `volumes.go:34`. (`cache_startup`)
2. `volumes.go:175` — the cache is searched by the bare name, not by the ID as
   the comment at line 158 says: the look-up for a LUN returns the filesystem of
   that name. (`cache_ids`)
3. `controller_fs.go:84` — a share that exists but is not cached as created is
   compared by values never read, so the retry of a CreateVolume whose answer
   was lost gets AlreadyExists, against lines 81-83. (`service_retry`)
4. `node_fs.go:95` — the error path formats the nil `err` instead of `mntErr`;
   overlapping unpublish calls get there. (`node_overlap`)

## 6. Not modelled

* Read-only shares, adoption of existing shares by uuid properties, and checks of
  parameters before a volume is locked: they change no shared state.
* CreateVolume from a volume (`cloneVolume`): the code refuses it.
* `GetCapacity`: reads a pool and a project and takes a minimum.
* Two clones crosswise, or a clone under the name of its source: they wait for
  each other (hazard at `controller.go:72`); an orchestrator's new names exclude it.
* The channels of `updateVolumeList`, and two listings at the same time with their
  pages (two listings with their locks are in SnapshotService); setInfo for a LUN in a filesystem of the
  same name; a creation time that is no date (`DateToUnix`).
* Data races at memory level (Go maps in `resetHttpTlsClient`, plain reads of the
  token's state): interleavings of whole reads and writes only.
* `NodeStageVolume` does nothing; `NodeUnstageVolume` therefore finds no mount;
  `NodeExpandVolume` and other static answers. `AttachDisk`, `DetachDisk` and
  `GetNodeISCSIInfo` of `iscsi.go` have no caller.
* Kubernetes API, identity service, start, stop and configuration of the process,
  logging, YAML: no state that others observe, or pure I/O.

## 7. Plan

Done: the cores of sections 2 to 4. What could follow:

1. *Start and stop*: signals, `serve` and `Stop` (`service.go:332`).
2. Volume types in the cache, for the panic of setInfo (`controller_fs.go:314`),
   and the channels of the listings (`volumes.go:438`).
3. Abstract answers of the node service (a mount is there or not) that
   NodeService implements.
