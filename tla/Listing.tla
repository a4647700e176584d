------------------------------- MODULE Listing -------------------------------
(***************************************************************************)
(* ListVolumes and ListSnapshots of the controller service: what they      *)
(* enter into the two caches, the entries they give, the pages these are   *)
(* cut into, and the requests that use the IDs that were listed.           *)
(*                                                                         *)
(* A listing has a step for each list it reads from the appliance, one for *)
(* each volume or snapshot it enters into a cache, and one for its reply.  *)
(* Between these other requests come, each in one step: SnapshotService has*)
(* their steps and locks.  Their REST calls may fail, and the answers of   *)
(* those that change something may be lost.  Volumes and snapshots have the*)
(* IDs and the hrefs of VolumeIds, and requests come with any ID the       *)
(* program documents or has given out.                                     *)
(*                                                                         *)
(* The cache of volumes is a function from share names, that of snapshots  *)
(* from snapshot names: both know a resource by its last name.  A listing  *)
(* goes through a cache in the order of a Go map, which is any order.      *)
(***************************************************************************)
EXTENDS VolumeIds, FiniteSetsExt, SequencesExt

CONSTANTS
    Share,         \* what can be on the appliance: the IDs of filesystems and LUNs
    SnapName,      \* names of snapshots
    OtherHref,     \* hrefs of snapshots of whole projects
    MaxEntries,    \* the values of max_entries; 0 stands for no limit
    MaxPlaceholders \* how many others are looking something up at a time

ASSUME SharesAssumption ==
    /\ \A x \in Share :
         /\ x = VolumeId(x.Type, Appliance, x.Pool, x.Project, x.Name)
         /\ x.Type \in {BlockVolume, MountVolume}
         /\ {x.Pool, x.Project, x.Name} \subseteq ValidName
    /\ \A x, y \in Share : x.Name = y.Name => x = y

ASSUME NoneAssumption ==
    /\ NoVolumeId \notin Share
    /\ \A x \in Share, n \in SnapName : SnapshotId(x, n) # NoSnapshotId

ASSUME OtherHrefAssumption == \A h \in OtherHref : ~IsSnapshotHref(h)

ASSUME FiniteAssumption == IsFiniteSet(Share) /\ IsFiniteSet(SnapName)

ASSUME MaxAssumption == MaxEntries \subseteq Nat /\ MaxPlaceholders \in Nat

VARIABLES
    shares,     \* the shares on the appliance
    snaps,      \* snaps[x]: the snapshots of a share, in the order of their creation
    vHash,      \* the volume cached under a name, or NoVolumeId
    sHash,      \* the snapshot cached under a name, or NoSnapshotId
    orphans,    \* cached snapshots whose volume's structure was dropped
    alive,      \* no panic, and no volume locked for ever
    client,     \* who lists: see Idle
    work,       \* the listing under way: see NoWork
    lost        \* history: what was taken away unseen, see Unseen

vars == <<shares, snaps, vHash, sHash, orphans, alive, client, work, lost>>

ShareName == {x.Name : x \in Share}

\* kind: what is listed, of: of which volume; max: max_entries; next: the token, as a number;
\* list: what the first page was cut from; got: the entries so far; same: the
\* other pages were cut from that list, too.
Idle == [kind |-> "none", of |-> <<>>, max |-> 0, next |-> 0, list |-> <<>>, got |-> <<>>, same |-> TRUE]

\* kind and max: as the client asked; unread: the types of volumes to be read
\* yet; todo: what was read and is to be entered yet; failed: a list could not
\* be read.  owed is history: what was read, and the reply must name.
NoWork == [kind |-> "none", max |-> 0, unread |-> {}, todo |-> {}, failed |-> FALSE, owed |-> {}]

NoVolumes == [n \in ShareName |-> NoVolumeId]
NoSnapshots == [n \in SnapName |-> NoSnapshotId]

Init ==
    /\ shares \in SUBSET Share
    /\ snaps \in [Share -> {<<>>} \cup {<<n>> : n \in SnapName}]
    /\ \A x \in Share \ shares : snaps[x] = <<>>
    /\ vHash = NoVolumes
    /\ sHash = NoSnapshots
    /\ orphans = {}
    /\ alive = TRUE
    /\ client = Idle
    /\ work = NoWork
    /\ lost = {}

-----------------------------------------------------------------------------
(* Volumes and snapshots are looked up by their IDs.                       *)

\* newVolume: the ID of the structure made for vid.
Structure(vid) ==
    VolumeId(IF IsBlock(vid) THEN BlockVolume ELSE MountVolume,
             Appliance, vid.Pool, vid.Project, vid.Name)

\* GetFilesystem or GetLun.
OnAppliance(vid) == \E x \in shares : VolumeHref(x) = VolumeHref(vid)

\* lookupVolume: the cache, then the appliance.
LookupVolume(s) ==
    LET vid == VolumeIdFromString(s)
    IN  CASE vid = NoVolumeId \/ vid.Name \notin ShareName -> NoVolumeId
          [] OTHER ->
             IF vHash[vid.Name] # NoVolumeId THEN vHash[vid.Name]
             ELSE IF OnAppliance(vid) THEN Structure(vid) ELSE NoVolumeId

\* Mutant of Dropped: what was deleted stays in the cache.
StillThere(cache, n, none) == cache

Dropped(cache, n, none) == [cache EXCEPT ![n] = none]

Entered(cache, x, none) == [cache EXCEPT ![x.Name] = IF @ = none THEN x ELSE @]

\* A cached snapshot of another volume, or with a structure of its volume
\* that is not the one in the cache, makes lookupSnapshot panic.
Inconsistent(sid, x) ==
    /\ sHash[sid.Name] # NoSnapshotId
    /\ sHash[sid.Name].VolumeId # x \/ sid.Name \in orphans

HasSnap(x, n) == x \in shares /\ n \in Range(snaps[x])

\* lookupSnapshot, if it does not panic.
LookupSnapshot(s) ==
    LET sid == SnapshotIdFromString(s)
    IN  IF sid = NoSnapshotId \/ sid.Name \notin SnapName THEN NoSnapshotId
        ELSE LET x == LookupVolume(VolumeIdString(sid.VolumeId))
             IN  IF x # NoVolumeId /\ ~Inconsistent(sid, x)
                    /\ (sHash[sid.Name] # NoSnapshotId \/ HasSnap(x, sid.Name))
                 THEN SnapshotId(x, sid.Name)
                 ELSE NoSnapshotId

-----------------------------------------------------------------------------
(* What the driver does not see.                                           *)

Cached(cache, none) == Range(cache) \ {none}

\* Of ids, which are no longer on the appliance, a cache or a listing still
\* has these.
Unseen(ids) ==
    ids \cap (Cached(vHash, NoVolumeId) \cup Cached(sHash, NoSnapshotId) \cup work.todo)

\* The listing under way need not name these.
NotOwed(ids) == work' = [work EXCEPT !.owed = @ \ ids]

\* Of several snapshots of one name the cache, and a list, has one.
Named(n) == {SnapshotId(x, n) : x \in Share}
AllSnapshotIds == {SnapshotId(x, n) : x \in Share, n \in SnapName}

SnapshotsOf(x) == {SnapshotId(x, n) : n \in Range(snaps[x])}

Without(seq, n) == RemoveAt(seq, CHOOSE i \in DOMAIN seq : seq[i] = n)

\* Somebody else deletes a share with its snapshots, or a snapshot, or makes
\* a share.
VanishShare(x) ==
    /\ alive
    /\ x \in shares
    /\ shares' = shares \ {x}
    /\ snaps' = [snaps EXCEPT ![x] = <<>>]
    /\ lost' = lost \cup Unseen({x} \cup SnapshotsOf(x))
    /\ NotOwed({x} \cup SnapshotsOf(x))
    /\ UNCHANGED <<vHash, sHash, orphans, alive, client>>

VanishSnapshot(x, n) ==
    /\ alive
    /\ HasSnap(x, n)
    /\ snaps' = [snaps EXCEPT ![x] = Without(@, n)]
    /\ lost' = lost \cup Unseen({SnapshotId(x, n)})
    /\ NotOwed({SnapshotId(x, n)})
    /\ UNCHANGED <<shares, vHash, sHash, orphans, alive, client>>

Appear(x) ==
    /\ alive
    /\ x \notin shares
    /\ shares' = shares \cup {x}
    /\ UNCHANGED <<snaps, vHash, sHash, orphans, alive, client, work, lost>>

\* The driver is started anew, after a panic or at any time: its caches are
\* empty and the listing is gone.  Tokens and IDs are still with the client.
Restart ==
    /\ vHash' = NoVolumes
    /\ sHash' = NoSnapshots
    /\ orphans' = {}
    /\ alive' = TRUE
    /\ work' = NoWork
    /\ lost' = {}
    /\ UNCHANGED <<shares, snaps, client>>

-----------------------------------------------------------------------------
(* The other requests.                                                     *)

\* IDs of a share that a request may come with: that of the driver, and the
\* handle an administrator writes.
IdsOf(x) == {VolumeIdString(x), Handle(IF IsBlock(x) THEN "iscsi" ELSE "nfs", x)}

\* A request that leaves the volume as it is: ControllerGetVolume, say, or
\* DeleteVolume of a volume that has snapshots or is gone.
UseVolume(s) ==
    /\ alive
    /\ LET x == LookupVolume(s)
       IN x # NoVolumeId /\ vHash' = Entered(vHash, x, NoVolumeId)
    /\ UNCHANGED <<shares, snaps, sHash, orphans, alive, client, work, lost>>

\* The volume has no snapshots.  Without the answer to its DELETE it stays
\* cached.  A listing that has read it will enter it again.
DeleteVolume(s, answered) ==
    /\ alive
    /\ LET x == LookupVolume(s)
       IN /\ x \in shares /\ snaps[x] = <<>>
          /\ shares' = shares \ {x}
          /\ IF answered
             THEN /\ vHash' = Dropped(vHash, x.Name, NoVolumeId)
                  /\ orphans' = orphans \cup
                       {n \in SnapName : sHash[n] # NoSnapshotId /\ sHash[n].VolumeId = x}
                  /\ lost' = (lost \ {x}) \cup (work.todo \cap {x})
             ELSE /\ vHash' = Entered(vHash, x, NoVolumeId)
                  /\ lost' = lost \cup {x}
                  /\ UNCHANGED orphans
          /\ NotOwed({x})
    /\ UNCHANGED <<snaps, sHash, alive, client>>

\* newSnapshot compares the string of the request with the ID of the cached
\* snapshot's volume.  The appliance refuses a snapshot it has; the structure
\* then stays as it is, and is dropped if it is new.  It is dropped, too, if
\* the POST fails or its answer is lost.  An orphan's old volume is released
\* instead of the one that was looked up.
CreateSnapshot(s, n, answered) ==
    /\ alive
    /\ LET x == LookupVolume(s)
       IN /\ x # NoVolumeId
          /\ vHash' = Entered(vHash, x, NoVolumeId)
          /\ sHash[n] # NoSnapshotId => VolumeIdString(sHash[n].VolumeId) = s
          /\ alive' = (n \notin orphans)
          /\ IF answered
             THEN /\ x \in shares
                  /\ IF HasSnap(x, n)
                     THEN UNCHANGED <<snaps, sHash>>
                     ELSE /\ snaps' = [snaps EXCEPT ![x] = Append(@, n)]
                          /\ sHash' = Entered(sHash, SnapshotId(x, n), NoSnapshotId)
                  /\ UNCHANGED work
             ELSE /\ \/ UNCHANGED snaps
                     \/ /\ x \in shares /\ ~HasSnap(x, n)
                        /\ snaps' = [snaps EXCEPT ![x] = Append(@, n)]
                  /\ sHash' = Dropped(sHash, n, NoSnapshotId)
                  /\ NotOwed(Named(n))
    /\ UNCHANGED <<shares, orphans, client, lost>>

\* A snapshot that is cached and gone is dropped.  Without the answer to its
\* DELETE a snapshot stays cached.
DeleteSnapshot(s, answered) ==
    /\ alive
    /\ LET sid == SnapshotIdFromString(s)
           x   == LookupVolume(VolumeIdString(sid.VolumeId))
           z   == LookupSnapshot(s)
       IN /\ x # NoVolumeId
          /\ vHash' = Entered(vHash, x, NoVolumeId)
          /\ alive' = ~Inconsistent(sid, x)
          /\ IF z = NoSnapshotId
             THEN UNCHANGED <<snaps, sHash, work, lost>>
             ELSE /\ snaps' = IF HasSnap(x, z.Name)
                              THEN [snaps EXCEPT ![x] = Without(@, z.Name)] ELSE snaps
                  /\ IF answered \/ ~HasSnap(x, z.Name)
                     THEN /\ sHash' = Dropped(sHash, z.Name, NoSnapshotId)
                          /\ lost' = (lost \ {z}) \cup (work.todo \cap {z})
                     ELSE /\ sHash' = Entered(sHash, z, NoSnapshotId)
                          /\ lost' = lost \cup {z}
                  /\ NotOwed(Named(z.Name))
    /\ UNCHANGED <<shares, orphans, client>>

-----------------------------------------------------------------------------
(* Pages.                                                                  *)

\* Mutant of NextToken: one too far.
NextTokenPast(list, start, max) ==
    IF max = 0 \/ start + max >= Len(list) THEN 0 ELSE start + max + 1

\* Token "0" says that nothing is left.
NextToken(list, start, max) ==
    IF max = 0 \/ start + max >= Len(list) THEN 0 ELSE start + max

Page(list, start, max) ==
    SubSeq(list, start + 1, IF max = 0 \/ start + max >= Len(list) THEN Len(list) ELSE start + max)

\* The client asks for the first page of a list, or with the token it got.
Asks(kind, of, max) ==
    /\ alive
    /\ client.next > 0 => kind = client.kind /\ of = client.of /\ max = client.max

\* It gets the next page of this list.
Gets(kind, of, max, list) ==
    LET start == client.next
    IN  client' = [kind |-> kind, of |-> of, max |-> max,
                   next |-> NextToken(list, start, max),
                   list |-> IF start = 0 THEN list ELSE client.list,
                   got  |-> (IF start = 0 THEN <<>> ELSE client.got) \o Page(list, start, max),
                   same |-> start = 0 \/ (client.same /\ list = client.list)]

-----------------------------------------------------------------------------
(* Lists.                                                                  *)

VolumeEntry(x) == [id |-> VolumeIdString(x), source |-> <<>>]
SnapEntry(z) == [id |-> SnapshotIdString(z), source |-> VolumeIdString(z.VolumeId)]

\* An entry that is nil: ListVolumes has one for every entry of the cache of
\* snapshots.
NilEntry == [id |-> <<>>, source |-> <<>>]
Nils(k) == [i \in 1..k |-> NilEntry]

\* A map is gone through in any order.
InAnyOrder(entries) == SetToSeqs(entries)

\* Structures that other requests have in a cache at this moment for names
\* they look up or create: lists name these, too.
Placeholders(cache, none, all) ==
    {P \in SUBSET {x \in all : cache[x.Name] = none} :
        Cardinality(P) <= MaxPlaceholders /\ \A x, y \in P : x.Name = y.Name => x = y}

\* The request arrives.
ListVolumes(max) ==
    /\ Asks("volumes", <<>>, max)
    /\ work = NoWork
    /\ work' = [NoWork EXCEPT !.kind = "volumes", !.max = max, !.unread = {BlockVolume, MountVolume}]
    /\ UNCHANGED <<shares, snaps, vHash, sHash, orphans, alive, client, lost>>

\* updateFilesystemList and updateLunList run side by side: either reads its
\* list.  If one fails the other one updates the cache all the same.
ReadVolumes(type, ok) ==
    /\ alive
    /\ type \in work.unread
    /\ LET listed == IF ok THEN {x \in shares : x.Type = type} ELSE {}
       IN work' = [work EXCEPT !.unread = @ \ {type}, !.todo = @ \cup listed,
                               !.owed = @ \cup listed, !.failed = @ \/ ~ok]
    /\ UNCHANGED <<shares, snaps, vHash, sHash, orphans, alive, client, lost>>

\* newVolume: what is cached under the name stays.
EnterVolume(x) ==
    /\ alive
    /\ work.kind = "volumes" /\ x \in work.todo
    /\ vHash' = Entered(vHash, x, NoVolumeId)
    /\ work' = [work EXCEPT !.todo = @ \ {x}]
    /\ UNCHANGED <<shares, snaps, sHash, orphans, alive, client, lost>>

\* newVolume or newSnapshot says busy: another request was creating or
\* deleting this, or a look-up before it failed.
SkipBusy(x) ==
    /\ alive
    /\ x \in work.todo
    /\ work' = [work EXCEPT !.todo = @ \ {x}, !.owed = @ \ {x}]
    /\ UNCHANGED <<shares, snaps, vHash, sHash, orphans, alive, client, lost>>

\* getVolumesList replies, with an error if a list could not be read.
VolumesListed ==
    /\ alive
    /\ work.kind = "volumes" /\ work.unread = {} /\ work.todo = {}
    /\ work' = NoWork
    /\ IF work.failed
       THEN UNCHANGED client
       ELSE \E P \in Placeholders(vHash, NoVolumeId, Share),
               k \in 0..MaxPlaceholders :
              \E order \in InAnyOrder({VolumeEntry(x) : x \in Cached(vHash, NoVolumeId) \cup P}) :
                  Gets("volumes", <<>>, work.max,
                       Nils(Cardinality(Cached(sHash, NoSnapshotId)) + k) \o order)
    /\ UNCHANGED <<shares, snaps, vHash, sHash, orphans, alive, lost>>

\* The hrefs of the snapshots of a share, and of all there are.
HrefsOf(x) == [i \in DOMAIN snaps[x] |-> SnapshotHref(SnapshotId(x, snaps[x][i]))]
AllHrefs == OtherHref \cup (UNION {Range(HrefsOf(x)) : x \in shares})

\* The request arrives and updateSnapshotList reads its list.  An error gives
\* an empty one.
ListSnapshots(max, ok) ==
    /\ Asks("snapshots", <<>>, max)
    /\ work = NoWork
    /\ LET listed == {SnapshotIdFromHref(h) : h \in AllHrefs} \ {NoSnapshotId}
       IN IF ok
          THEN /\ work' = [NoWork EXCEPT !.kind = "snapshots", !.max = max,
                                         !.todo = listed, !.owed = listed]
               /\ UNCHANGED client
          ELSE Gets("snapshots", <<>>, max, <<>>) /\ UNCHANGED work
    /\ UNCHANGED <<shares, snaps, vHash, sHash, orphans, alive, lost>>

\* newSnapshot looks the volume up first.  A snapshot of another volume that
\* is cached under the name stays.
EnterSnapshot(z) ==
    /\ alive
    /\ work.kind = "snapshots" /\ z \in work.todo
    /\ LET x == LookupVolume(VolumeIdString(z.VolumeId))
       IN IF x = NoVolumeId
          THEN UNCHANGED <<vHash, sHash, alive>>
          ELSE /\ vHash' = Entered(vHash, x, NoVolumeId)
               /\ sHash' = Entered(sHash, SnapshotId(x, z.Name), NoSnapshotId)
               /\ alive' = ~(sHash[z.Name] = z /\ z.Name \in orphans)
    /\ work' = [work EXCEPT !.todo = @ \ {z}]
    /\ UNCHANGED <<shares, snaps, orphans, client, lost>>

\* getSnapshotList replies.
SnapshotsListed ==
    /\ alive
    /\ work.kind = "snapshots" /\ work.todo = {}
    /\ work' = NoWork
    /\ \E P \in Placeholders(sHash, NoSnapshotId, AllSnapshotIds) :
          \E order \in InAnyOrder({SnapEntry(z) : z \in Cached(sHash, NoSnapshotId) \cup P}) :
              Gets("snapshots", <<>>, work.max, order)
    /\ UNCHANGED <<shares, snaps, vHash, sHash, orphans, alive, lost>>

\* With a source: zfssaSnapshotList2csiSnapshotList of the snapshots below its
\* href.  A share that is gone has none: the call fails.
ListSnapshotsOf(s, max, ok) ==
    /\ Asks("source", s, max)
    /\ work = NoWork
    /\ LET x == LookupVolume(s)
           Entry(h) == [id |-> SnapshotIdStringFromHref(h), source |-> VolumeIdStringFromHref(h)]
       IN IF x = NoVolumeId
          THEN Gets("source", s, max, <<>>) /\ UNCHANGED vHash
          ELSE /\ vHash' = Entered(vHash, x, NoVolumeId)
               /\ Gets("source", s, max,
                       IF ok THEN [i \in DOMAIN HrefsOf(x) |-> Entry(HrefsOf(x)[i])] ELSE <<>>)
    /\ UNCHANGED <<shares, snaps, sHash, orphans, alive, work, lost>>

\* With a snapshot ID: lookupSnapshot.
ListSnapshot(s) ==
    /\ Asks("id", s, 0)
    /\ work = NoWork
    /\ LET sid == SnapshotIdFromString(s)
           x   == LookupVolume(VolumeIdString(sid.VolumeId))
           z   == LookupSnapshot(s)
       IN /\ x # NoVolumeId
          /\ vHash' = Entered(vHash, x, NoVolumeId)
          /\ alive' = ~Inconsistent(sid, x)
          /\ IF z = NoSnapshotId
             THEN UNCHANGED sHash /\ (IF alive' THEN Gets("id", s, 0, <<>>) ELSE UNCHANGED client)
             ELSE sHash' = Entered(sHash, z, NoSnapshotId) /\ Gets("id", s, 0, <<SnapEntry(z)>>)
    /\ UNCHANGED <<shares, snaps, orphans, work, lost>>

-----------------------------------------------------------------------------
Elsewhere ==
    \/ \E x \in Share : Appear(x) \/ VanishShare(x)
    \/ \E x \in Share, n \in SnapName : VanishSnapshot(x, n)

Changes ==
    \/ \E x \in Share : \E s \in IdsOf(x) :
         UseVolume(s) \/ \E answered \in BOOLEAN : DeleteVolume(s, answered)
    \/ \E x \in Share, n \in SnapName, answered \in BOOLEAN :
         \/ \E s \in IdsOf(x) : CreateSnapshot(s, n, answered)
         \/ DeleteSnapshot(SnapshotIdString(SnapshotId(x, n)), answered)

Lists ==
    \/ \E max \in MaxEntries :
         \/ ListVolumes(max)
         \/ \E ok \in BOOLEAN : ListSnapshots(max, ok)
         \/ \E x \in Share, ok \in BOOLEAN : \E s \in IdsOf(x) : ListSnapshotsOf(s, max, ok)
    \/ \E type \in {BlockVolume, MountVolume}, ok \in BOOLEAN : ReadVolumes(type, ok)
    \/ \E x \in work.todo : EnterVolume(x) \/ EnterSnapshot(x) \/ SkipBusy(x)
    \/ VolumesListed \/ SnapshotsListed
    \/ \E x \in Share, n \in SnapName : ListSnapshot(SnapshotIdString(SnapshotId(x, n)))

Next == Elsewhere \/ Changes \/ Lists \/ Restart

Spec == Init /\ [][Next]_vars
-----------------------------------------------------------------------------
(* Properties.                                                             *)

\* Every share's snapshots have names of their own.
Distinct == \A x, y \in shares : \A n \in SnapName : HasSnap(x, n) /\ HasSnap(y, n) => x = y

\* A client that follows the tokens gets the list, each entry once and in
\* order, provided that its pages were cut from the same list: a cache is
\* gone through in the same order each time, and nothing was added or
\* deleted (controller.go:377, "The starting index and the maxIndex have to
\* be adjusted based on the results of the query").
PagesTile ==
    client.same =>
        client.got = SubSeq(client.list, 1,
                            IF client.next = 0 THEN Len(client.list) ELSE client.next)

\* An ID that was listed belongs to a share or snapshot the driver may have
\* seen, and as long as that is on the appliance the ID leads to it, whatever
\* IDs and handles it was used with before, and also for a driver that was
\* started anew.  For a snapshot this is so unless one of its name, of this
\* or another share, was taken away unseen: the cache then still has that one.
ListedIsFound ==
    \A e \in Range(client.got) \ {NilEntry} :
        \/ \E x \in Share :
             /\ e.id = VolumeIdStringFromHref(VolumeHref(x))
             /\ x \in shares => LookupVolume(e.id) = x
        \/ \E x \in Share, n \in SnapName :
             /\ e.id = SnapshotIdStringFromHref(SnapshotHref(SnapshotId(x, n)))
             /\ e.source = VolumeIdStringFromHref(VolumeHref(x))
             /\ Distinct /\ HasSnap(x, n) /\ (\A y \in Share : SnapshotId(y, n) \notin lost) =>
                  /\ LookupVolume(e.source) = x
                  /\ LookupSnapshot(e.id) = SnapshotId(x, n)

\* The entries of a list that are not nil.
Listed(got) == {i \in DOMAIN got : got[i] # NilEntry}
NamesOnce(got) == \A i, j \in Listed(got) : got[i].id = got[j].id => i = j
IdsListed(got) == {got[i].id : i \in Listed(got)}

\* IDs as VolumeIdStringFromHref and SnapshotIdStringFromHref make them of
\* what the appliance says.
VolumeIdsOf(xs) == {VolumeIdStringFromHref(VolumeHref(x)) : x \in xs}
SnapshotIdsOf(zs) == {SnapshotIdStringFromHref(SnapshotHref(z)) : z \in zs}

OnlyUncached(cache, none, all) == {x \in all : cache[x.Name] = none}

\* ListVolumes without a limit names every volume it has read that has stayed
\* on the appliance and was not busy, each once; it names nothing but what is
\* on the appliance, what was taken away unseen since the driver was started
\* (nothing ever removes such an entry, volumes.go:399-406), and what another
\* request is just looking up or creating.  The nil entries of line 398 come
\* first, at least one for each cached snapshot.
VolumesExact ==
    VolumesListed /\ ~work.failed /\ work.max = 0 =>
        LET got == client'.got
        IN  /\ NamesOnce(got)
            /\ VolumeIdsOf(work.owed) \subseteq IdsListed(got)
            /\ IdsListed(got) \subseteq
                 VolumeIdsOf(shares \cup (lost \cap Share) \cup OnlyUncached(vHash, NoVolumeId, Share))
            /\ \E k \in DOMAIN got \cup {0} :
                 /\ Cardinality(Cached(sHash, NoSnapshotId)) <= k
                 /\ DOMAIN got \ Listed(got) = 1..k

\* The same of ListSnapshots.  A snapshot that was read is named unless one
\* of another share is, which was cached under its name before.
SnapshotsExact ==
    SnapshotsListed /\ work.max = 0 =>
        LET got == client'.got
        IN  /\ Listed(got) = DOMAIN got
            /\ NamesOnce(got)
            /\ \A z \in work.owed : SnapshotIdsOf(Named(z.Name)) \cap IdsListed(got) # {}
            /\ IdsListed(got) \subseteq
                 SnapshotIdsOf((UNION {SnapshotsOf(x) : x \in shares}) \cup (lost \cap AllSnapshotIds)
                               \cup OnlyUncached(sHash, NoSnapshotId, AllSnapshotIds))

\* The snapshots of one volume come from the appliance alone: all, or none
\* after an error.
SourceExact ==
    \A x \in Share, ok \in BOOLEAN : \A s \in IdsOf(x) :
        ListSnapshotsOf(s, 0, ok) =>
            LET got == client'.got
            IN  /\ Listed(got) = DOMAIN got
                /\ NamesOnce(got)
                /\ IdsListed(got) \in {{}, SnapshotIdsOf(SnapshotsOf(x))}

ListsAreExact == [][VolumesExact /\ SnapshotsExact /\ SourceExact]_vars
=============================================================================
