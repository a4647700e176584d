---------------------------- MODULE ListingProofs ----------------------------
(***************************************************************************)
(* Proofs about IDs (VolumeIds) and listings (Listing).                    *)
(*                                                                         *)
(* ListIInv: what the caches and a listing hold is on the appliance or was *)
(* taken away unseen; what a listing owes is there, and is cached once it  *)
(* was entered; a token lies within the list it was given for.  ExactIInv  *)
(* adds what exact lists need: the names of a share's snapshots differ, and*)
(* without a limit there is no token.                                      *)
(***************************************************************************)
EXTENDS Listing, FiniteSetTheorems, SequenceTheorems, TLAPS

\* What is listed from the cache and what is listed from an href agree: ID and
\* source of a snapshot are the same strings (snapshots.go:199-206 and
\* volumes.go:500-503).
THEOREM ListingsAgree ==
    ASSUME NEW x \in Share, NEW n
    PROVE  LET h == SnapshotHref(SnapshotId(x, n))
           IN  /\ SnapshotIdFromHref(h) = SnapshotId(x, n)
               /\ SnapshotIdStringFromHref(h) = SnapshotIdString(SnapshotId(x, n))
               /\ VolumeIdStringFromHref(h) = VolumeIdString(x)
               /\ VolumeIdStringFromHref(VolumeHref(x)) = VolumeIdString(x)
<1> DEFINE h == SnapshotHref(SnapshotId(x, n))
           v == VolumeHref(x)
<1>1. /\ x = VolumeId(x.Type, Appliance, x.Pool, x.Project, x.Name)
      /\ x.Type \in {"lun", "mnt"}
  BY SharesAssumption DEF BlockVolume, MountVolume
<1>2. /\ Len(v) = 10 /\ v[6] = x.Pool /\ v[8] = x.Project /\ v[10] = x.Name
      /\ v[9] = IF IsBlock(x) THEN "luns" ELSE "filesystems"
  BY DEF VolumeHref
<1>3. /\ Len(h) = 12 /\ h[11] = "snapshots" /\ h[12] = n
      /\ h[6] = x.Pool /\ h[8] = x.Project /\ h[9] = v[9] /\ h[10] = x.Name
  BY DEF VolumeHref, SnapshotHref, SnapshotId
<1>4. HrefType(v) = x.Type /\ HrefType(h) = x.Type
  BY <1>1, <1>2, <1>3 DEF HrefType, IsBlock, BlockVolume, MountVolume
<1>5. IsVolumeHref(v) /\ IsSnapshotHref(h)
  BY <1>2, <1>3 DEF IsVolumeHref, IsSnapshotHref
<1>6. x.Zfssa = Appliance
  BY <1>1 DEF VolumeId
<1>7. SnapshotIdFromHref(h) = SnapshotId(x, n)
  BY <1>1, <1>3, <1>4, <1>5 DEF SnapshotIdFromHref
<1>8. VolumeIdStringFromHref(h) = VolumeIdString(x) /\ VolumeIdStringFromHref(v) = VolumeIdString(x)
  BY <1>2, <1>3, <1>4, <1>5, <1>6 DEF VolumeIdStringFromHref, VolumeIdString, IsSnapshotHref
<1>9. SnapshotIdStringFromHref(h) = SnapshotIdString(SnapshotId(x, n))
  BY <1>2, <1>3, <1>4, <1>5, <1>6 DEF SnapshotIdStringFromHref, SnapshotIdString, SnapshotId
<1>10. QED BY <1>7, <1>8, <1>9

\* An ID the driver gives out is read back as what it was written from, for a
\* volume and for a snapshot.
LEMMA RoundTrip ==
    ASSUME NEW x \in Share, NEW n
    PROVE  /\ VolumeIdFromString(VolumeIdString(x)) = x
           /\ SnapshotIdFromString(SnapshotIdString(SnapshotId(x, n))) = SnapshotId(x, n)
<1>1. /\ x = VolumeId(x.Type, Appliance, x.Pool, x.Project, x.Name)
      /\ x.Type \in {"lun", "mnt"}
      /\ {x.Pool, x.Project, x.Name} \subseteq ValidName
  BY SharesAssumption DEF BlockVolume, MountVolume
<1>2. x.Zfssa = Appliance
  BY <1>1 DEF VolumeId
<1> DEFINE s == VolumeIdString(x)
           t == SnapshotIdString(SnapshotId(x, n))
<1>3. /\ Len(s) = 6 /\ s[2] = x.Type /\ s[3] = Appliance
      /\ s[4] = x.Pool /\ s[5] = x.Project /\ s[6] = x.Name
  BY <1>2 DEF VolumeIdString
<1>4. /\ Len(t) = 7 /\ t[2] = x.Type /\ t[3] = Appliance
      /\ t[4] = x.Pool /\ t[5] = x.Project /\ t[6] = x.Name /\ t[7] = n
  BY <1>2 DEF VolumeIdString, SnapshotIdString, SnapshotId
<1>5. VolumeIdFromString(s) = x
  BY <1>1, <1>3 DEF VolumeIdFromString
<1>6. SnapshotIdFromString(t) = SnapshotId(x, n)
  BY <1>1, <1>4 DEF SnapshotIdFromString
<1>7. QED BY <1>5, <1>6
-----------------------------------------------------------------------------
(* The inductive invariant.                                                *)

\* The entries a client can get.
Entries ==
    {NilEntry} \cup {VolumeEntry(x) : x \in Share}
      \cup {SnapEntry(SnapshotId(x, n)) : x \in Share, n \in SnapName}

\* A cache has what is one of all under its name.
Filed(cache, names, all, none) ==
    /\ DOMAIN cache = names
    /\ \A k \in names : cache[k] # none => cache[k] \in all /\ cache[k].Name = k

CachesOK ==
    /\ shares \subseteq Share
    /\ snaps \in [Share -> Seq(SnapName)]
    /\ Filed(vHash, ShareName, Share, NoVolumeId)
    /\ Filed(sHash, SnapName, AllSnapshotIds, NoSnapshotId)

\* What is on the appliance, and what the driver holds.
ThereSnapshots == {z \in AllSnapshotIds : HasSnap(z.VolumeId, z.Name)}
There == shares \cup ThereSnapshots
Held == Cached(vHash, NoVolumeId) \cup Cached(sHash, NoSnapshotId) \cup work.todo

\* What a listing has entered is cached.
Done(z) ==
    /\ work.kind = "volumes" => vHash[z.Name] # NoVolumeId
    /\ work.kind = "snapshots" => sHash[z.Name] # NoSnapshotId

KnownOK ==
    /\ Held \subseteq There \cup lost
    /\ work.owed \subseteq There
    /\ \A z \in work.owed \ work.todo : Done(z)

\* An orphan is a snapshot that was taken away unseen.
OrphansOK ==
    \A n \in orphans : n \in SnapName
                      /\ IF sHash[n] = NoSnapshotId THEN ~alive ELSE sHash[n] \in lost

Works ==
    [kind : {"none", "volumes", "snapshots"}, max : Nat, unread : SUBSET {BlockVolume, MountVolume},
     todo : SUBSET (Share \cup AllSnapshotIds), failed : BOOLEAN,
     owed : SUBSET (Share \cup AllSnapshotIds)]

\* A listing deals with one kind of IDs, and is that of the client.
WorkOK ==
    /\ work \in Works
    /\ work.kind = "none" => work = NoWork
    /\ work.kind = "volumes" => work.todo \cup work.owed \subseteq Share
    /\ work.kind = "snapshots" => work.todo \cup work.owed \subseteq AllSnapshotIds /\ work.unread = {}
    /\ work.kind # "none" /\ client.next > 0 =>
          client.kind = work.kind /\ client.of = <<>> /\ client.max = work.max

\* The token is within the list it was given for.
ClientOK ==
    /\ client.next \in Nat /\ client.max \in Nat /\ client.same \in BOOLEAN
    /\ client.list \in Seq(Entries) /\ client.got \in Seq(Entries)
    /\ client.same /\ client.next > 0 => client.next < Len(client.list)
    /\ PagesTile

ListIInv == CachesOK /\ KnownOK /\ OrphansOK /\ WorkOK /\ ClientOK

-----------------------------------------------------------------------------
(* Pages.                                                                  *)

LEMMA PageIsSeq ==
    ASSUME NEW S, NEW list \in Seq(S), NEW start \in Nat, NEW max \in Nat
    PROVE  Page(list, start, max) \in Seq(S)
<1>1. Len(list) \in Nat
  BY LenProperties
<1> DEFINE e == IF max = 0 \/ start + max >= Len(list) THEN Len(list) ELSE start + max
<1>2. e \in Nat /\ e <= Len(list)
  BY <1>1
<1>3. \A i \in (start + 1)..e : list[i] \in S
  BY <1>1, <1>2, ElementOfSeq
<1>4. SubSeq(list, start + 1, e) \in Seq(S)
  <2> HIDE DEF e
  <2>1. start + 1 \in Int /\ e \in Int
    BY <1>2
  <2> QED BY <1>3, <2>1, SubSeqProperties
<1>5. QED BY <1>4 DEF Page

\* A page continues what was got before.
LEMMA GetsKeeps ==
    ASSUME ClientOK, NEW kind, NEW of, NEW max \in Nat, NEW list \in Seq(Entries),
           Asks(kind, of, max), Gets(kind, of, max, list)
    PROVE  ClientOK'
<1> DEFINE start == client.next
<1>1. start \in Nat /\ Len(list) \in Nat
  BY LenProperties DEF ClientOK
<1>2. Page(list, start, max) \in Seq(Entries)
  BY <1>1, PageIsSeq
<1>3. /\ client'.next = NextToken(list, start, max) /\ client'.max = max
      /\ client'.list = IF start = 0 THEN list ELSE client.list
      /\ client'.got = (IF start = 0 THEN <<>> ELSE client.got) \o Page(list, start, max)
      /\ client'.same = (start = 0 \/ (client.same /\ list = client.list))
  BY DEF Gets
<1>4. /\ client'.next \in Nat
      /\ client'.next > 0 => client'.next < Len(list)
  BY <1>1, <1>3 DEF NextToken
<1>5. client'.list \in Seq(Entries)
  BY <1>3 DEF ClientOK
<1>6. client'.got \in Seq(Entries)
  BY <1>2, <1>3, ConcatProperties, EmptySeq DEF ClientOK
<1>7. client'.same => client'.list = list
  BY <1>3
<1> DEFINE e == IF max = 0 \/ start + max >= Len(list) THEN Len(list) ELSE start + max
<1>8. /\ Page(list, start, max) = SubSeq(list, start + 1, e)
      /\ e = IF client'.next = 0 THEN Len(list) ELSE client'.next
  BY <1>1, <1>3 DEF Page, NextToken
<1>9. client'.same => client'.got = SubSeq(list, 1, e)
  <2> SUFFICES ASSUME client'.same PROVE client'.got = SubSeq(list, 1, e)
    OBVIOUS
  <2>1. CASE start = 0
    <3>1. client'.got = <<>> \o Page(list, 0, max)
      BY <1>3, <2>1
    <3>2. client'.got = Page(list, 0, max)
      BY <3>1, <2>1, <1>2, ConcatEmptySeq
    <3>3. QED BY <3>2, <2>1, <1>8
  <2>2. CASE start > 0
    <3>1. client.same /\ list = client.list
      <4>1. start # 0
        BY <2>2
      <4>2. start = 0 \/ (client.same /\ list = client.list)
        BY <1>3, Zenon
      <4>3. QED BY <4>1, <4>2
    <3>2. start < Len(list) /\ client.got = SubSeq(list, 1, start)
      BY <3>1, <2>2 DEF ClientOK, PagesTile
    <3>3. client'.got = SubSeq(list, 1, start) \o SubSeq(list, start + 1, e)
      <4>1. start # 0
        BY <2>2
      <4>2. QED BY <1>3, <1>8, <3>2, <4>1
    <3>4. start \in (1 - 1)..Len(list) /\ e \in start..Len(list) /\ 1 \in 1..(Len(list) + 1)
      BY <1>1, <3>2, <2>2
    <3>5. SubSeq(list, 1, start) \o SubSeq(list, start + 1, e) = SubSeq(list, 1, e)
      <4> HIDE DEF e, start
      <4> QED BY <3>4, ConcatAdjacentSubSeq
    <3>6. QED BY <3>3, <3>5
  <2>3. QED BY <1>1, <2>1, <2>2
<1>10. PagesTile'
  BY <1>7, <1>8, <1>9 DEF PagesTile
<1>11. QED BY <1>3, <1>4, <1>5, <1>6, <1>7, <1>10 DEF ClientOK

LEMMA ClientStays ==
    ASSUME ClientOK, UNCHANGED client
    PROVE  ClientOK'
BY DEF ClientOK, PagesTile

-----------------------------------------------------------------------------
(* Sequences and finite sets.                                              *)

LEMMA NewSeqKeeps ==
    ASSUME CachesOK, NEW x \in shares, NEW n \in SnapName,
           snaps' = [snaps EXCEPT ![x] = Append(@, n)]
    PROVE  /\ snaps' \in [Share -> Seq(SnapName)]
           /\ n \in Range(snaps'[x])
           /\ \A y \in Share : Range(snaps[y]) \subseteq Range(snaps'[y])
<1>1. snaps \in [Share -> Seq(SnapName)] /\ x \in Share
  BY DEF CachesOK
<1> DEFINE old == snaps[x]
           new == Append(old, n)
<1>2. old \in Seq(SnapName) /\ snaps' = [snaps EXCEPT ![x] = new] /\ snaps'[x] = new
  BY <1>1
<1>3. /\ new \in Seq(SnapName) /\ Len(new) = Len(old) + 1 /\ Len(old) \in Nat
      /\ \A i \in 1..Len(old) : new[i] = old[i]
      /\ new[Len(old) + 1] = n
  BY <1>2, AppendProperties, LenProperties
<1>4. DOMAIN new = 1..(Len(old) + 1) /\ DOMAIN old = 1..Len(old)
  BY <1>2, <1>3, LenProperties
<1> HIDE DEF new, old
<1>5. n \in Range(new)
  BY <1>3, <1>4 DEF Range
<1>6. Range(old) \subseteq Range(new)
  BY <1>3, <1>4 DEF Range
<1>7. \A y \in Share : Range(snaps[y]) \subseteq Range(snaps'[y])
  BY <1>1, <1>2, <1>6 DEF old
<1>8. QED BY <1>1, <1>2, <1>3, <1>5, <1>7

LEMMA LessSeqKeeps ==
    ASSUME CachesOK, NEW x \in shares, NEW n, n \in Range(snaps[x]),
           snaps' = [snaps EXCEPT ![x] = Without(@, n)]
    PROVE  /\ snaps' \in [Share -> Seq(SnapName)]
           /\ \A y \in Share : \A m \in Range(snaps[y]) : m # n => m \in Range(snaps'[y])
           /\ \A y \in Share : snaps[y] = <<>> => snaps'[y] = <<>>
           /\ \A y \in Share : IsInjective(snaps[y]) => IsInjective(snaps'[y])
<1>1. snaps \in [Share -> Seq(SnapName)] /\ x \in Share
  BY DEF CachesOK
<1> DEFINE old == snaps[x]
           k   == CHOOSE i \in DOMAIN old : old[i] = n
           lo  == SubSeq(old, 1, k - 1)
           hi  == SubSeq(old, k + 1, Len(old))
           new == lo \o hi
<1>2. old \in Seq(SnapName) /\ Len(old) \in Nat /\ DOMAIN old = 1..Len(old)
  BY <1>1, LenProperties
<1>3. k \in 1..Len(old) /\ old[k] = n
  BY <1>2 DEF Range
<1>4. snaps' = [snaps EXCEPT ![x] = new] /\ snaps'[x] = new
  <2>1. snaps' = [snaps EXCEPT ![x] = Without(old, n)]
    BY <1>1
  <2>2. Without(old, n) = new
    BY DEF Without, RemoveAt
  <2>3. QED BY <1>1, <2>1, <2>2
<1> HIDE DEF k
<1>5. /\ lo \in Seq(SnapName) /\ Len(lo) = k - 1
      /\ \A i \in 1..(k - 1) : lo[i] = old[i]
  <2>1. \A i \in 1..(k - 1) : old[i] \in SnapName
    BY <1>2, <1>3, ElementOfSeq
  <2>2. 1 \in Int /\ k - 1 \in Int /\ k - 1 >= 0
    BY <1>3
  <2> HIDE DEF old
  <2>3. /\ lo \in Seq(SnapName) /\ Len(lo) = IF 1 <= k - 1 THEN (k - 1) - 1 + 1 ELSE 0
        /\ \A i \in 1..((k - 1) - 1 + 1) : lo[i] = old[1 + i - 1]
    BY <2>1, <2>2, SubSeqProperties
  <2>4. QED BY <2>2, <2>3, <1>3
<1>6. /\ hi \in Seq(SnapName) /\ Len(hi) = Len(old) - k
      /\ \A i \in 1..(Len(old) - k) : hi[i] = old[k + i]
  <2>1. \A i \in (k + 1)..Len(old) : old[i] \in SnapName
    BY <1>2, <1>3, ElementOfSeq
  <2>2. k + 1 \in Int /\ Len(old) \in Int /\ k <= Len(old)
    BY <1>2, <1>3
  <2> HIDE DEF old
  <2>3. /\ hi \in Seq(SnapName)
        /\ Len(hi) = IF k + 1 <= Len(old) THEN Len(old) - (k + 1) + 1 ELSE 0
        /\ \A i \in 1..(Len(old) - (k + 1) + 1) : hi[i] = old[(k + 1) + i - 1]
    BY <2>1, <2>2, SubSeqProperties
  <2>4. QED BY <2>2, <2>3, <1>3
<1> HIDE DEF lo, hi
<1>7. /\ new \in Seq(SnapName) /\ Len(new) = (k - 1) + (Len(old) - k)
      /\ \A i \in 1..(k - 1) : new[i] = old[i]
      /\ \A i \in 1..(Len(old) - k) : new[(k - 1) + i] = old[k + i]
  <2>1. /\ new \in Seq(SnapName) /\ Len(new) = Len(lo) + Len(hi)
        /\ \A i \in 1..(Len(lo) + Len(hi)) : new[i] = IF i <= Len(lo) THEN lo[i] ELSE hi[i - Len(lo)]
    BY <1>5, <1>6, ConcatProperties
  <2> HIDE DEF old, new
  <2>2. ASSUME NEW i \in 1..(k - 1) PROVE new[i] = old[i]
    <3>1. i \in 1..(Len(lo) + Len(hi)) /\ i <= Len(lo)
      BY <1>2, <1>3, <1>5, <1>6
    <3>2. new[i] = lo[i]
      BY <2>1, <3>1
    <3>3. QED BY <1>5, <3>2
  <2>3. ASSUME NEW i \in 1..(Len(old) - k) PROVE new[(k - 1) + i] = old[k + i]
    <3>1. (k - 1) + i \in 1..(Len(lo) + Len(hi)) /\ ~((k - 1) + i <= Len(lo))
      BY <1>2, <1>3, <1>5, <1>6
    <3>2. ((k - 1) + i) - Len(lo) = i
      BY <1>2, <1>3, <1>5
    <3>3. new[(k - 1) + i] = hi[i]
      <4> DEFINE j == (k - 1) + i
      <4>1. j \in 1..(Len(lo) + Len(hi)) /\ ~(j <= Len(lo)) /\ j - Len(lo) = i
        BY <3>1, <3>2
      <4> HIDE DEF j
      <4>2. new[j] = hi[i]
        BY <2>1, <4>1
      <4>3. QED BY <4>2 DEF j
    <3>4. QED BY <1>6, <3>3
  <2>4. new \in Seq(SnapName) /\ Len(new) = (k - 1) + (Len(old) - k)
    BY <1>5, <1>6, <2>1
  <2>5. QED BY <2>2, <2>3, <2>4
<1>8. DOMAIN new = 1..((k - 1) + (Len(old) - k))
  BY <1>7, LenProperties
<1> HIDE DEF new
<1>9. \A m \in Range(old) : m # n => m \in Range(new)
  <2> SUFFICES ASSUME NEW i \in 1..Len(old), old[i] # n PROVE old[i] \in Range(new)
    BY <1>2 DEF Range
  <2>1. CASE i < k
    <3>1. i \in 1..(k - 1) /\ i \in DOMAIN new
      BY <1>2, <1>3, <1>8, <2>1
    <3>2. QED BY <1>7, <3>1 DEF Range
  <2>2. CASE i > k
    <3>1. i - k \in 1..(Len(old) - k) /\ (k - 1) + (i - k) \in DOMAIN new /\ k + (i - k) = i
      BY <1>2, <1>3, <1>8, <2>2
    <3>2. QED BY <1>7, <3>1 DEF Range
  <2>3. i # k
    BY <1>3
  <2>4. QED BY <1>2, <1>3, <2>1, <2>2, <2>3
<1>10. old # <<>>
  <2>1. k \in DOMAIN old
    BY <1>2, <1>3
  <2>2. QED BY <2>1
<1>11. snaps' \in [Share -> Seq(SnapName)]
  BY <1>1, <1>4, <1>7
<1>12. ASSUME NEW y \in Share, y # x PROVE snaps'[y] = snaps[y]
  BY <1>1, <1>4, <1>12
<1>13. \A y \in Share : snaps[y] = <<>> => snaps'[y] = <<>>
  BY <1>10, <1>12 DEF old
<1>14. \A y \in Share : \A m \in Range(snaps[y]) : m # n => m \in Range(snaps'[y])
  BY <1>4, <1>9, <1>12 DEF old
<1>15. ASSUME IsInjective(old) PROVE IsInjective(new)
  <2> DEFINE at(i) == IF i < k THEN i ELSE i + 1
  <2>1. ASSUME NEW i \in DOMAIN new PROVE at(i) \in DOMAIN old /\ new[i] = old[at(i)]
    <3>1. i \in Int /\ 1 <= i /\ i <= Len(old) - 1
      BY <1>2, <1>3, <1>8
    <3>2. CASE i < k
      BY <1>2, <1>3, <1>7, <3>1, <3>2
    <3>3. CASE ~(i < k)
      <4>1. i - (k - 1) \in 1..(Len(old) - k) /\ (k - 1) + (i - (k - 1)) = i
            /\ k + (i - (k - 1)) = i + 1 /\ i + 1 \in 1..Len(old)
        BY <1>2, <1>3, <3>1, <3>3
      <4>2. new[(k - 1) + (i - (k - 1))] = old[k + (i - (k - 1))]
        BY <1>7, <4>1
      <4>3. new[i] = old[i + 1]
        BY <4>1, <4>2
      <4>4. QED BY <1>2, <3>3, <4>1, <4>3
    <3>4. QED BY <3>2, <3>3
  <2>2. ASSUME NEW i \in DOMAIN new, NEW j \in DOMAIN new, at(i) = at(j) PROVE i = j
    <3>1. i \in Int /\ j \in Int /\ k \in Int
      BY <1>3, <1>8
    <3>2. QED BY <2>2, <3>1
  <2> HIDE DEF at
  <2>3. QED BY <1>15, <2>1, <2>2 DEF IsInjective
<1>16. \A y \in Share : IsInjective(snaps[y]) => IsInjective(snaps'[y])
  BY <1>4, <1>12, <1>15 DEF old
<1>17. QED BY <1>11, <1>13, <1>14, <1>16

\* A cache in any order is a list of entries.
LEMMA OrderIsSeq ==
    ASSUME NEW S, IsFiniteSet(S), S \subseteq Entries, NEW order \in SetToSeqs(S)
    PROVE  order \in Seq(Entries)
<1>1. Cardinality(S) \in Nat
  BY FS_CardinalityType
<1>2. order \in [1..Cardinality(S) -> S]
  BY DEF SetToSeqs
<1>3. order \in [1..Cardinality(S) -> Entries]
  BY <1>2
<1>4. QED BY <1>1, <1>3, SeqDef


LEMMA VolumeEntriesFinite ==
    ASSUME NEW C, C \subseteq Share
    PROVE  LET S == {VolumeEntry(x) : x \in C} IN IsFiniteSet(S) /\ S \subseteq Entries
<1> DEFINE S == {VolumeEntry(x) : x \in C}
           f == [x \in C |-> VolumeEntry(x)]
<1>1. IsFiniteSet(C)
  BY FS_Subset, FiniteAssumption
<1>2. f \in Surjection(C, S)
  BY DEF Surjection
<1> HIDE DEF f
<1>3. IsFiniteSet(S)
  BY <1>1, <1>2, FS_Surjection
<1>4. QED BY <1>3 DEF Entries

LEMMA SnapshotIdsFinite == IsFiniteSet(AllSnapshotIds)
<1> DEFINE P == Share \X SnapName
           f == [q \in P |-> SnapshotId(q[1], q[2])]
<1>1. IsFiniteSet(P)
  BY FS_Product, FiniteAssumption
<1>2. f \in Surjection(P, AllSnapshotIds)
  <2>1. f \in [P -> AllSnapshotIds]
    BY DEF AllSnapshotIds
  <2>2. ASSUME NEW z \in AllSnapshotIds PROVE \E q \in P : f[q] = z
    <3>1. PICK x \in Share, n \in SnapName : z = SnapshotId(x, n)
      BY DEF AllSnapshotIds
    <3>2. <<x, n>> \in P /\ f[<<x, n>>] = z
      BY <3>1
    <3>3. QED BY <3>2
  <2>3. QED BY <2>1, <2>2 DEF Surjection
<1> HIDE DEF f, P
<1>3. QED BY <1>1, <1>2, FS_Surjection

LEMMA SnapEntriesFinite ==
    ASSUME NEW C, C \subseteq AllSnapshotIds
    PROVE  LET S == {SnapEntry(z) : z \in C} IN IsFiniteSet(S) /\ S \subseteq Entries
<1> DEFINE S == {SnapEntry(z) : z \in C}
           f == [z \in C |-> SnapEntry(z)]
<1>1. IsFiniteSet(C)
  BY FS_Subset, SnapshotIdsFinite
<1>2. f \in Surjection(C, S)
  BY DEF Surjection
<1>3. S \subseteq Entries
  BY DEF AllSnapshotIds, Entries
<1> HIDE DEF f
<1>4. IsFiniteSet(S)
  BY <1>1, <1>2, FS_Surjection
<1>5. QED BY <1>3, <1>4

-----------------------------------------------------------------------------
(* Looking up.                                                             *)

\* newVolume makes of the ID of a share of the appliance that share's.
LEMMA StructureIsShare ==
    ASSUME NEW x \in Share, NEW vid, VolumeHref(x) = VolumeHref(vid)
    PROVE  Structure(vid) = x
<1>1. /\ x = VolumeId(x.Type, Appliance, x.Pool, x.Project, x.Name)
      /\ x.Type \in {"lun", "mnt"}
  BY SharesAssumption DEF BlockVolume, MountVolume
<1> DEFINE h(v) == <<"", "api", "storage", "v2", "pools", v.Pool, "projects", v.Project,
                     IF IsBlock(v) THEN "luns" ELSE "filesystems", v.Name>>
<1>2. h(x) = h(vid)
  BY DEF VolumeHref
<1>3. x.Pool = vid.Pool /\ x.Project = vid.Project /\ x.Name = vid.Name
  <2>1. h(x)[6] = h(vid)[6] /\ h(x)[8] = h(vid)[8] /\ h(x)[10] = h(vid)[10]
    BY <1>2
  <2>2. QED BY <2>1
<1>4. IsBlock(x) <=> IsBlock(vid)
  <2>1. h(x)[9] = h(vid)[9]
    BY <1>2
  <2>2. QED BY <2>1
<1>5. x.Type = IF IsBlock(vid) THEN "lun" ELSE "mnt"
  BY <1>1, <1>4 DEF IsBlock, BlockVolume
<1>6. QED BY <1>1, <1>3, <1>5 DEF Structure, BlockVolume, MountVolume

\* IDs of volumes and of snapshots are told apart.
LEMMA Apart ==
    ASSUME NEW x \in Share
    PROVE  x \notin AllSnapshotIds /\ x # NoVolumeId /\ x.Name \in ShareName
<1>1. DOMAIN x = {"Type", "Zfssa", "Pool", "Project", "Name"}
  <2>1. x = VolumeId(x.Type, Appliance, x.Pool, x.Project, x.Name)
    BY SharesAssumption
  <2>2. \A t, a, p, j, n : DOMAIN VolumeId(t, a, p, j, n) = {"Type", "Zfssa", "Pool", "Project", "Name"}
    BY DEF VolumeId
  <2>3. QED BY <2>1, <2>2
<1>2. ASSUME NEW z \in AllSnapshotIds PROVE DOMAIN z = {"VolumeId", "Name"}
  BY DEF AllSnapshotIds, SnapshotId
<1>3. "Type" \notin {"VolumeId", "Name"}
  OBVIOUS
<1>4. x \notin AllSnapshotIds
  BY <1>1, <1>2, <1>3
<1>5. QED BY <1>4, NoneAssumption DEF ShareName

LEMMA SnapshotIdParts ==
    ASSUME NEW z \in AllSnapshotIds
    PROVE  /\ z.VolumeId \in Share /\ z.Name \in SnapName
           /\ z = SnapshotId(z.VolumeId, z.Name) /\ z # NoSnapshotId
           /\ z \in Named(z.Name)
<1>1. PICK x \in Share, n \in SnapName : z = SnapshotId(x, n)
  BY DEF AllSnapshotIds
<1>2. z.VolumeId = x /\ z.Name = n
  BY <1>1 DEF SnapshotId
<1>3. QED BY <1>1, <1>2, NoneAssumption DEF Named

\* What a cache has is under its name.
LEMMA FiledOne ==
    ASSUME NEW cache, NEW names, NEW all, NEW none, Filed(cache, names, all, none),
           NEW z \in Cached(cache, none)
    PROVE  z \in all /\ z.Name \in names /\ cache[z.Name] = z /\ z # none
BY DEF Filed, Cached, Range

LEMMA EnteredFiled ==
    ASSUME NEW cache, NEW names, NEW all, NEW none, Filed(cache, names, all, none),
           NEW z \in all, z.Name \in names, z # none,
           NEW new, new = Entered(cache, z, none)
    PROVE  /\ Filed(new, names, all, none)
           /\ Cached(new, none) \subseteq Cached(cache, none) \cup {z}
           /\ \A k \in names : cache[k] # none => new[k] # none
           /\ \A k \in names : new[k] = cache[k] \/ (cache[k] = none /\ k = z.Name /\ new[k] = z)
           /\ new[z.Name] # none
<1>1. new = [cache EXCEPT ![z.Name] = IF cache[z.Name] = none THEN z ELSE cache[z.Name]]
  BY DEF Entered, Filed
<1>2. DOMAIN cache = names /\ DOMAIN new = names
  BY <1>1 DEF Filed
<1>3. \A k \in names : new[k] = cache[k] \/ (cache[k] = none /\ k = z.Name /\ new[k] = z)
  BY <1>1, <1>2
<1>4. new[z.Name] # none
  BY <1>1, <1>2
<1>5. Filed(new, names, all, none)
  BY <1>2, <1>3 DEF Filed
<1>6. Cached(new, none) \subseteq Cached(cache, none) \cup {z}
  BY <1>2, <1>3 DEF Cached, Range
<1>7. QED BY <1>3, <1>4, <1>5, <1>6

LEMMA DroppedFiled ==
    ASSUME NEW cache, NEW names, NEW all, NEW none, Filed(cache, names, all, none),
           NEW n, NEW new, new = Dropped(cache, n, none)
    PROVE  /\ Filed(new, names, all, none)
           /\ Cached(new, none) \subseteq Cached(cache, none)
           /\ \A z \in Cached(new, none) : z.Name # n
           /\ \A k \in names : k # n => new[k] = cache[k]
           /\ n \in names => new[n] = none
<1>1. new = [cache EXCEPT ![n] = none] /\ DOMAIN cache = names /\ DOMAIN new = names
  BY DEF Dropped, Filed
<1>2. \A k \in names : new[k] = IF k = n THEN none ELSE cache[k]
  BY <1>1
<1>3. Filed(new, names, all, none)
  BY <1>1, <1>2 DEF Filed
<1>4. Cached(new, none) \subseteq Cached(cache, none)
  BY <1>1, <1>2 DEF Cached, Range
<1>5. ASSUME NEW z \in Cached(new, none) PROVE z.Name # n
  <2>1. PICK k \in names : z = new[k] /\ z # none
    BY <1>1, <1>5 DEF Cached, Range
  <2>2. k # n /\ z.Name = k
    BY <1>2, <1>3, <2>1 DEF Filed
  <2>3. QED BY <2>2
<1>6. QED BY <1>2, <1>3, <1>4, <1>5

\* A look-up finds what is on the appliance or was taken away unseen.
LEMMA LookupFinds ==
    ASSUME CachesOK, KnownOK, NEW s, LookupVolume(s) # NoVolumeId
    PROVE  LookupVolume(s) \in Share /\ LookupVolume(s) \in There \cup lost
<1> DEFINE vid == VolumeIdFromString(s)
<1>1. vid.Name \in ShareName
  BY DEF LookupVolume
<1>2. CASE vHash[vid.Name] # NoVolumeId
  <2>1. LookupVolume(s) = vHash[vid.Name]
    BY <1>1, <1>2 DEF LookupVolume
  <2>2. vHash[vid.Name] \in Share /\ vHash[vid.Name] \in Cached(vHash, NoVolumeId)
    BY <1>1, <1>2 DEF CachesOK, Filed, Cached, Range
  <2>3. QED BY <2>1, <2>2 DEF KnownOK, Held
<1>3. CASE vHash[vid.Name] = NoVolumeId
  <2>1. OnAppliance(vid) /\ LookupVolume(s) = Structure(vid)
    BY <1>1, <1>3 DEF LookupVolume
  <2>2. PICK x \in shares : VolumeHref(x) = VolumeHref(vid)
    BY <2>1 DEF OnAppliance
  <2>3. x \in Share /\ x \in There
    BY DEF CachesOK, There
  <2>4. QED BY <2>1, <2>2, <2>3, StructureIsShare
<1>4. QED BY <1>2, <1>3

\* The IDs of a share lead to no other share.
LEMMA LookupOfIds ==
    ASSUME CachesOK, KnownOK, NEW x \in Share, NEW s \in IdsOf(x), LookupVolume(s) # NoVolumeId
    PROVE  LookupVolume(s) = x
<1> DEFINE vid == VolumeIdFromString(s)
<1>1. vid # NoVolumeId => vid.Name = x.Name
  <2>1. CASE s = VolumeIdString(x)
    BY <2>1, RoundTrip
  <2>2. CASE s = Handle("nfs", x) \/ s = Handle("iscsi", x)
    <3>1. ASSUME NEW p \in {"nfs", "iscsi"}
          PROVE  Len(Handle(p, x)) = 8 /\ Handle(p, x)[2] = p /\ Handle(p, x)[8] = x.Name
      BY DEF Handle
    <3>2. Len(s) = 8 /\ s[2] \in {"nfs", "iscsi"} /\ s[8] = x.Name
      BY <2>2, <3>1
    <3>3. QED BY <3>2 DEF VolumeIdFromString, VolumeId
  <2>3. QED BY <2>1, <2>2 DEF IdsOf
<1>2. vid # NoVolumeId /\ vid.Name \in ShareName
  BY DEF LookupVolume
<1>3. LookupVolume(s) \in Share /\ LookupVolume(s).Name = x.Name
  <2>1. CASE vHash[vid.Name] # NoVolumeId
    <3>1. LookupVolume(s) = vHash[vid.Name]
      BY <1>2, <2>1 DEF LookupVolume
    <3>2. QED BY <1>1, <1>2, <2>1, <3>1 DEF CachesOK, Filed
  <2>2. CASE vHash[vid.Name] = NoVolumeId
    <3>1. LookupVolume(s) = Structure(vid)
      BY <1>2, <2>2 DEF LookupVolume
    <3>2. LookupVolume(s) \in Share
      BY LookupFinds
    <3>3. QED BY <1>1, <1>2, <3>1, <3>2 DEF Structure, VolumeId
  <2>3. QED BY <2>1, <2>2
<1>4. QED BY <1>3, SharesAssumption

\* The ID of a share leads to the share.
LEMMA LookupOwn ==
    ASSUME CachesOK, KnownOK, NEW x \in shares
    PROVE  LookupVolume(VolumeIdString(x)) = x
<1>1. x \in Share /\ x.Name \in ShareName /\ x # NoVolumeId
  BY Apart DEF CachesOK
<1>2. VolumeIdFromString(VolumeIdString(x)) = x
  BY <1>1, RoundTrip
<1>3. LookupVolume(VolumeIdString(x)) # NoVolumeId
  <2>1. CASE vHash[x.Name] # NoVolumeId
    BY <1>1, <1>2, <2>1 DEF LookupVolume
  <2>2. CASE vHash[x.Name] = NoVolumeId
    <3>1. OnAppliance(x) /\ Structure(x) = x
      BY <1>1, StructureIsShare DEF OnAppliance
    <3>2. QED BY <1>1, <1>2, <2>2, <3>1 DEF LookupVolume
  <2>3. QED BY <2>1, <2>2
<1>4. QED BY <1>1, <1>3, LookupOfIds DEF IdsOf

\* What a snapshot of the appliance is to the sets above.
LEMMA ThereIs ==
    ASSUME NEW x \in Share, NEW n \in SnapName
    PROVE  /\ SnapshotId(x, n) \in AllSnapshotIds
           /\ SnapshotId(x, n).VolumeId = x /\ SnapshotId(x, n).Name = n
           /\ SnapshotId(x, n) # NoSnapshotId
           /\ HasSnap(x, n) <=> SnapshotId(x, n) \in ThereSnapshots
BY NoneAssumption DEF AllSnapshotIds, SnapshotId, ThereSnapshots

\* The ID of a snapshot leads to the snapshot, if no other share has one of
\* its name and none of its name was taken away unseen.
LEMMA LookupOwnSnapshot ==
    ASSUME CachesOK, KnownOK, OrphansOK, NEW x \in Share, NEW n \in SnapName,
           HasSnap(x, n), Distinct, \A y \in Share : SnapshotId(y, n) \notin lost
    PROVE  LookupSnapshot(SnapshotIdString(SnapshotId(x, n))) = SnapshotId(x, n)
<1> DEFINE z == SnapshotId(x, n)
<1>1. x \in shares
  BY DEF HasSnap
<1>2. SnapshotIdFromString(SnapshotIdString(z)) = z
  BY RoundTrip
<1>3. z.VolumeId = x /\ z.Name = n /\ z # NoSnapshotId
  BY ThereIs
<1>4. LookupVolume(VolumeIdString(x)) = x /\ x # NoVolumeId
  BY <1>1, LookupOwn, Apart
<1>5. ~Inconsistent(z, x)
  <2> SUFFICES ASSUME sHash[n] # NoSnapshotId PROVE sHash[n].VolumeId = x /\ n \notin orphans
    BY <1>3 DEF Inconsistent
  <2>1. sHash[n] \in Cached(sHash, NoSnapshotId) /\ sHash[n] \in AllSnapshotIds /\ sHash[n].Name = n
    BY DEF CachesOK, Filed, Cached, Range
  <2>2. PICK y \in Share : sHash[n] = SnapshotId(y, n)
    BY <2>1, SnapshotIdParts
  <2>3. sHash[n] \notin lost /\ sHash[n] \in There \cup lost
    BY <2>1, <2>2 DEF KnownOK, Held
  <2>4. sHash[n] \notin shares
    BY <2>1, Apart DEF CachesOK
  <2>5. HasSnap(y, n)
    BY <2>2, <2>3, <2>4, ThereIs DEF There
  <2>6. y = x
    BY <1>1, <2>5 DEF Distinct, HasSnap
  <2>7. sHash[n].VolumeId = x
    BY <2>2, <2>6, ThereIs
  <2>8. n \notin orphans
    BY <2>3 DEF OrphansOK
  <2>9. QED BY <2>7, <2>8
<1>6. QED BY <1>2, <1>3, <1>4, <1>5 DEF LookupSnapshot

\* What LookupSnapshot finds is on the appliance or was taken away unseen.
LEMMA LookupSnapshotFinds ==
    ASSUME CachesOK, KnownOK, OrphansOK, alive, NEW s, LookupSnapshot(s) # NoSnapshotId
    PROVE  LET sid == SnapshotIdFromString(s)
               x   == LookupVolume(VolumeIdString(sid.VolumeId))
           IN  /\ LookupSnapshot(s) = SnapshotId(x, sid.Name)
               /\ sid.Name \in SnapName /\ sid.Name \notin orphans
               /\ x # NoVolumeId /\ x \in Share
               /\ LookupSnapshot(s) \in There \cup lost
               /\ sHash[sid.Name] # NoSnapshotId => sHash[sid.Name] = LookupSnapshot(s)
<1> DEFINE sid == SnapshotIdFromString(s)
           x == LookupVolume(VolumeIdString(sid.VolumeId))
           n == sid.Name
<1>1. /\ LookupSnapshot(s) = SnapshotId(x, n)
      /\ n \in SnapName /\ x # NoVolumeId /\ ~Inconsistent(sid, x)
      /\ sHash[n] # NoSnapshotId \/ HasSnap(x, n)
  BY DEF LookupSnapshot
<1>2. x \in Share
  BY <1>1, LookupFinds
<1>3. n \notin orphans
  BY <1>1 DEF OrphansOK, Inconsistent
<1>4. ASSUME sHash[n] # NoSnapshotId
      PROVE  sHash[n] = SnapshotId(x, n) /\ SnapshotId(x, n) \in There \cup lost
  <2>1. sHash[n].VolumeId = x
    BY <1>1, <1>4 DEF Inconsistent
  <2>2. sHash[n] \in Cached(sHash, NoSnapshotId) /\ sHash[n] \in AllSnapshotIds /\ sHash[n].Name = n
    BY <1>1, <1>4 DEF CachesOK, Filed, Cached, Range
  <2>3. QED BY <2>1, <2>2, SnapshotIdParts DEF KnownOK, Held
<1>5. ASSUME HasSnap(x, n) PROVE SnapshotId(x, n) \in There
  BY <1>1, <1>2, <1>5, ThereIs DEF There
<1>6. QED BY <1>1, <1>2, <1>3, <1>4, <1>5

-----------------------------------------------------------------------------
(* What stays and what goes.                                               *)

LEMMA ThereStays ==
    ASSUME UNCHANGED <<shares, snaps>>
    PROVE  There' = There
BY DEF There, ThereSnapshots, HasSnap

LEMMA ThereGrows ==
    ASSUME CachesOK, NEW x \in shares, NEW n \in SnapName,
           snaps' = [snaps EXCEPT ![x] = Append(@, n)], UNCHANGED shares
    PROVE  /\ snaps' \in [Share -> Seq(SnapName)]
           /\ There \subseteq There' /\ SnapshotId(x, n) \in There'
<1>1. /\ snaps' \in [Share -> Seq(SnapName)] /\ n \in Range(snaps'[x])
      /\ \A y \in Share : Range(snaps[y]) \subseteq Range(snaps'[y])
  BY NewSeqKeeps
<1>2. x \in Share /\ SnapshotId(x, n) \in AllSnapshotIds
      /\ SnapshotId(x, n).VolumeId = x /\ SnapshotId(x, n).Name = n
  BY ThereIs DEF CachesOK
<1>3. SnapshotId(x, n) \in There'
  BY <1>1, <1>2 DEF There, ThereSnapshots, HasSnap
<1>4. ThereSnapshots \subseteq ThereSnapshots'
  BY <1>1, SnapshotIdParts DEF ThereSnapshots, HasSnap
<1>5. QED BY <1>1, <1>3, <1>4 DEF There

LEMMA ThereLess ==
    ASSUME CachesOK, NEW x \in Share, NEW n \in SnapName, HasSnap(x, n),
           snaps' = [snaps EXCEPT ![x] = Without(@, n)], UNCHANGED shares
    PROVE  /\ snaps' \in [Share -> Seq(SnapName)]
           /\ There \ {SnapshotId(x, n)} \subseteq There'
<1>1. x \in shares /\ n \in Range(snaps[x])
  BY DEF HasSnap
<1>2. /\ snaps' \in [Share -> Seq(SnapName)]
      /\ \A y \in Share : \A m \in Range(snaps[y]) : m # n => m \in Range(snaps'[y])
  BY <1>1, LessSeqKeeps
<1>3. \A y \in Share : y # x => snaps'[y] = snaps[y]
  BY DEF CachesOK
<1>4. ASSUME NEW z \in ThereSnapshots, z # SnapshotId(x, n) PROVE z \in ThereSnapshots'
  <2>1. /\ z.VolumeId \in Share /\ z.Name \in SnapName
        /\ z = SnapshotId(z.VolumeId, z.Name)
        /\ z.VolumeId \in shares /\ z.Name \in Range(snaps[z.VolumeId])
    BY SnapshotIdParts DEF ThereSnapshots, HasSnap
  <2>2. z.Name \in Range(snaps'[z.VolumeId])
    <3>1. CASE z.VolumeId # x
      BY <1>3, <2>1, <3>1
    <3>2. CASE z.VolumeId = x
      <4>1. z.Name # n
        BY <1>4, <2>1, <3>2
      <4>2. QED BY <1>2, <2>1, <4>1
    <3>3. QED BY <3>1, <3>2
  <2>3. QED BY <2>1, <2>2 DEF ThereSnapshots, HasSnap
<1>5. QED BY <1>2, <1>4 DEF There

LEMMA ThereWithout ==
    ASSUME CachesOK, NEW x \in Share, shares' = shares \ {x},
           \A y \in Share : y # x => snaps'[y] = snaps[y]
    PROVE  There \ ({x} \cup SnapshotsOf(x)) \subseteq There'
<1>1. ASSUME NEW z \in ThereSnapshots, z \notin SnapshotsOf(x) PROVE z \in ThereSnapshots'
  <2>1. /\ z.VolumeId \in Share /\ z = SnapshotId(z.VolumeId, z.Name)
        /\ z.VolumeId \in shares /\ z.Name \in Range(snaps[z.VolumeId])
    BY SnapshotIdParts DEF ThereSnapshots, HasSnap
  <2>2. z.VolumeId # x
    BY <1>1, <2>1 DEF SnapshotsOf
  <2>3. QED BY <2>1, <2>2 DEF ThereSnapshots, HasSnap
<1>2. QED BY <1>1 DEF There

LEMMA LessWork ==
    ASSUME WorkOK, NEW T, T \subseteq work.todo, NEW O, O \subseteq work.owed,
           work' = [work EXCEPT !.todo = T, !.owed = O], UNCHANGED client
    PROVE  WorkOK' /\ work'.todo = T /\ work'.owed = O /\ work'.kind = work.kind
<1>1. /\ work' \in Works /\ work'.todo = T /\ work'.owed = O /\ work'.kind = work.kind
      /\ work'.max = work.max /\ work'.unread = work.unread
  BY DEF WorkOK, Works
<1>2. work'.kind = "none" => work' = NoWork
  <2>1. ASSUME work.kind = "none" PROVE work' = NoWork
    <3>1. work = NoWork
      BY <2>1 DEF WorkOK
    <3>2. T = {} /\ O = {}
      BY <3>1 DEF NoWork
    <3>3. QED BY <3>1, <3>2 DEF NoWork
  <2>2. QED BY <1>1, <2>1
<1>3. work'.todo \cup work'.owed \subseteq work.todo \cup work.owed
  BY <1>1
<1>4. /\ work'.kind = "volumes" => work'.todo \cup work'.owed \subseteq Share
      /\ work'.kind = "snapshots" => work'.todo \cup work'.owed \subseteq AllSnapshotIds /\ work'.unread = {}
  BY <1>1, <1>3 DEF WorkOK
<1>5. work'.kind # "none" /\ client'.next > 0 =>
        client'.kind = work'.kind /\ client'.of = <<>> /\ client'.max = work'.max
  BY <1>1 DEF WorkOK
<1>6. QED BY <1>1, <1>2, <1>4, <1>5 DEF WorkOK

LEMMA LessOwed ==
    ASSUME WorkOK, NEW ids, NotOwed(ids), UNCHANGED client
    PROVE  /\ WorkOK' /\ work'.todo = work.todo /\ work'.owed = work.owed \ ids
           /\ work'.kind = work.kind
<1>1. work' = [work EXCEPT !.todo = work.todo, !.owed = work.owed \ ids]
  BY DEF NotOwed, WorkOK, Works
<1>2. PICK T, O : T = work.todo /\ O = work.owed \ ids
  OBVIOUS
<1>3. work' = [work EXCEPT !.todo = T, !.owed = O] /\ T \subseteq work.todo /\ O \subseteq work.owed
  BY <1>1, <1>2
<1>4. WorkOK' /\ work'.todo = T /\ work'.owed = O /\ work'.kind = work.kind
  BY <1>3, LessWork
<1>5. QED BY <1>2, <1>4

LEMMA LessTodo ==
    ASSUME WorkOK, NEW z, work' = [work EXCEPT !.todo = @ \ {z}], UNCHANGED client
    PROVE  /\ WorkOK' /\ work'.todo = work.todo \ {z} /\ work'.owed = work.owed
           /\ work'.kind = work.kind
<1>1. work' = [work EXCEPT !.todo = work.todo \ {z}, !.owed = work.owed]
  BY DEF WorkOK, Works
<1>2. PICK T, O : T = work.todo \ {z} /\ O = work.owed
  OBVIOUS
<1>3. work' = [work EXCEPT !.todo = T, !.owed = O] /\ T \subseteq work.todo /\ O \subseteq work.owed
  BY <1>1, <1>2
<1>4. WorkOK' /\ work'.todo = T /\ work'.owed = O /\ work'.kind = work.kind
  BY <1>3, LessWork
<1>5. QED BY <1>2, <1>4

-----------------------------------------------------------------------------
(* The steps.                                                              *)

LEMMA NothingCached ==
    /\ Filed(NoVolumes, ShareName, Share, NoVolumeId) /\ Cached(NoVolumes, NoVolumeId) = {}
    /\ Filed(NoSnapshots, SnapName, AllSnapshotIds, NoSnapshotId)
    /\ Cached(NoSnapshots, NoSnapshotId) = {}
BY DEF NoVolumes, NoSnapshots, Filed, Cached, Range

LEMMA NoWorkOK ==
    /\ NoWork \in Works /\ NoWork.kind = "none" /\ NoWork.todo = {} /\ NoWork.owed = {}
    /\ NoWork.unread = {} /\ NoWork.failed = FALSE /\ NoWork.max = 0
BY DEF NoWork, Works

LEMMA InitIInv == Init => ListIInv
<1> SUFFICES ASSUME Init PROVE ListIInv
  OBVIOUS
<1>1. CachesOK
  <2>1. snaps \in [Share -> Seq(SnapName)]
    <3>1. \A n \in SnapName : <<n>> \in Seq(SnapName)
      OBVIOUS
    <3>2. snaps \in [Share -> {<<>>} \cup {<<n>> : n \in SnapName}] /\ <<>> \in Seq(SnapName)
      BY EmptySeq DEF Init
    <3>3. QED BY <3>1, <3>2
  <2>2. QED BY <2>1, NothingCached DEF Init, CachesOK
<1>2. KnownOK
  BY NothingCached, NoWorkOK DEF Init, KnownOK, Held
<1>3. OrphansOK
  BY DEF Init, OrphansOK
<1>4. WorkOK
  BY NoWorkOK DEF Init, WorkOK
<1>5. ClientOK
  <2>1. Len(<<>>) = 0 /\ SubSeq(<<>>, 1, 0) = <<>>
    BY SubSeqEmpty
  <2>2. client = Idle
    BY DEF Init
  <2>3. QED BY <2>1, <2>2, EmptySeq DEF ClientOK, PagesTile, Idle
<1>6. QED BY <1>1, <1>2, <1>3, <1>4, <1>5 DEF ListIInv

LEMMA RestartKeeps ==
    ASSUME ListIInv, Restart
    PROVE  ListIInv'
<1>1. CachesOK'
  BY NothingCached DEF ListIInv, Restart, CachesOK
<1>2. KnownOK'
  BY NothingCached, NoWorkOK DEF Restart, KnownOK, Held
<1>3. OrphansOK' /\ WorkOK'
  BY NoWorkOK DEF Restart, OrphansOK, WorkOK
<1>4. QED BY <1>1, <1>2, <1>3, ClientStays DEF ListIInv, Restart

LEMMA AppearKeeps ==
    ASSUME ListIInv, NEW x \in Share, Appear(x)
    PROVE  ListIInv'
<1>1. shares' = shares \cup {x} /\ UNCHANGED <<snaps, vHash, sHash, orphans, alive, client, work, lost>>
  BY DEF Appear
<1>2. There \subseteq There'
  BY <1>1 DEF There, ThereSnapshots, HasSnap
<1>3. Held' = Held /\ \A z : Done(z) => Done(z)'
  BY <1>1 DEF Held, Done
<1>4. KnownOK'
  BY <1>1, <1>2, <1>3 DEF KnownOK, ListIInv
<1>5. CachesOK' /\ OrphansOK' /\ WorkOK'
  BY <1>1 DEF CachesOK, OrphansOK, WorkOK, ListIInv
<1>6. QED BY <1>1, <1>4, <1>5, ClientStays DEF ListIInv

\* What is taken away elsewhere is neither held unless lost, nor owed.
LEMMA VanishKeeps ==
    ASSUME ListIInv, NEW ids, There \ ids \subseteq There',
           shares' \subseteq Share, snaps' \in [Share -> Seq(SnapName)],
           lost' = lost \cup Unseen(ids), NotOwed(ids),
           UNCHANGED <<vHash, sHash, orphans, alive, client>>
    PROVE  ListIInv'
<1>1. WorkOK' /\ work'.todo = work.todo /\ work'.owed = work.owed \ ids /\ work'.kind = work.kind
  BY LessOwed DEF ListIInv
<1>2. Held' = Held /\ Unseen(ids) = ids \cap Held /\ \A z : Done(z) => Done(z)'
  BY <1>1 DEF Held, Unseen, Done
<1>3. KnownOK'
  <2>1. Held \subseteq There \cup lost /\ work.owed \subseteq There
        /\ \A z \in work.owed \ work.todo : Done(z)
    BY DEF KnownOK, ListIInv
  <2>2. Held' \subseteq There' \cup lost'
    BY <1>2, <2>1
  <2>3. QED BY <1>1, <1>2, <2>1, <2>2 DEF KnownOK
<1>4. CachesOK' /\ OrphansOK'
  BY DEF CachesOK, OrphansOK, ListIInv
<1>5. QED BY <1>1, <1>3, <1>4, ClientStays DEF ListIInv

LEMMA VanishShareKeeps ==
    ASSUME ListIInv, NEW x \in Share, VanishShare(x)
    PROVE  ListIInv'
<1>1. /\ shares' = shares \ {x} /\ snaps' = [snaps EXCEPT ![x] = <<>>]
      /\ lost' = lost \cup Unseen({x} \cup SnapshotsOf(x)) /\ NotOwed({x} \cup SnapshotsOf(x))
      /\ UNCHANGED <<vHash, sHash, orphans, alive, client>>
  BY DEF VanishShare
<1>2. CachesOK
  BY DEF ListIInv
<1>3. snaps' \in [Share -> Seq(SnapName)] /\ \A y \in Share : y # x => snaps'[y] = snaps[y]
  BY <1>1, <1>2, EmptySeq DEF CachesOK
<1>4. There \ ({x} \cup SnapshotsOf(x)) \subseteq There'
  BY <1>1, <1>2, <1>3, ThereWithout
<1>5. PICK ids : ids = {x} \cup SnapshotsOf(x)
  OBVIOUS
<1>6. There \ ids \subseteq There' /\ lost' = lost \cup Unseen(ids) /\ NotOwed(ids)
  BY <1>1, <1>4, <1>5
<1>7. shares' \subseteq Share
  BY <1>1, <1>2 DEF CachesOK
<1>8. QED BY <1>1, <1>3, <1>6, <1>7, VanishKeeps

LEMMA VanishSnapshotKeeps ==
    ASSUME ListIInv, NEW x \in Share, NEW n \in SnapName, VanishSnapshot(x, n)
    PROVE  ListIInv'
<1>1. /\ HasSnap(x, n) /\ snaps' = [snaps EXCEPT ![x] = Without(@, n)]
      /\ lost' = lost \cup Unseen({SnapshotId(x, n)}) /\ NotOwed({SnapshotId(x, n)})
      /\ UNCHANGED <<shares, vHash, sHash, orphans, alive, client>>
  BY DEF VanishSnapshot
<1>2. snaps' \in [Share -> Seq(SnapName)] /\ There \ {SnapshotId(x, n)} \subseteq There'
  BY <1>1, ThereLess DEF ListIInv
<1>3. shares' \subseteq Share
  BY <1>1 DEF CachesOK, ListIInv
<1>4. QED BY <1>1, <1>2, <1>3, VanishKeeps

\* What a look-up found is entered.
LEMMA UseKeeps ==
    ASSUME CachesOK, KnownOK, NEW s, NEW x, x = LookupVolume(s), x # NoVolumeId,
           vHash' = Entered(vHash, x, NoVolumeId)
    PROVE  /\ x \in Share /\ x \in There \cup lost
           /\ Filed(vHash', ShareName, Share, NoVolumeId)
           /\ Cached(vHash', NoVolumeId) \subseteq Cached(vHash, NoVolumeId) \cup {x}
           /\ Cached(vHash', NoVolumeId) \subseteq There \cup lost
           /\ \A k \in ShareName : vHash[k] # NoVolumeId => vHash'[k] # NoVolumeId
<1>1. x \in Share /\ x \in There \cup lost
  BY LookupFinds
<1>2. x.Name \in ShareName
  BY <1>1, Apart
<1>3. PICK new : new = vHash'
  OBVIOUS
<1>4. new = Entered(vHash, x, NoVolumeId) /\ Filed(vHash, ShareName, Share, NoVolumeId)
  BY <1>3 DEF CachesOK
<1>5. /\ Filed(new, ShareName, Share, NoVolumeId)
      /\ Cached(new, NoVolumeId) \subseteq Cached(vHash, NoVolumeId) \cup {x}
      /\ \A k \in ShareName : vHash[k] # NoVolumeId => new[k] # NoVolumeId
  BY <1>1, <1>2, <1>4, EnteredFiled
<1>6. Cached(vHash, NoVolumeId) \subseteq There \cup lost
  BY DEF KnownOK, Held
<1>7. QED BY <1>1, <1>3, <1>5, <1>6

\* Nothing changes on the appliance, and the cache of volumes only grows.
LEMMA OnlyVolumesGrow ==
    ASSUME ListIInv, UNCHANGED <<shares, snaps, sHash, orphans, alive, work, lost>>,
           Filed(vHash', ShareName, Share, NoVolumeId),
           Cached(vHash', NoVolumeId) \subseteq There \cup lost,
           \A k \in ShareName : vHash[k] # NoVolumeId => vHash'[k] # NoVolumeId
    PROVE  CachesOK' /\ KnownOK' /\ OrphansOK'
<1>1. There' = There
  BY ThereStays
<1>2. Held' \subseteq There \cup lost
  BY DEF Held, KnownOK, ListIInv
<1>3. ASSUME NEW z \in work.owed \ work.todo PROVE Done(z)'
  <2>1. Done(z)
    BY DEF KnownOK, ListIInv
  <2>2. work.kind = "volumes" => z.Name \in ShareName
    BY Apart DEF WorkOK, ListIInv
  <2>3. QED BY <2>1, <2>2 DEF Done
<1>4. KnownOK'
  BY <1>1, <1>2, <1>3 DEF KnownOK, ListIInv
<1>5. CachesOK' /\ OrphansOK'
  BY DEF CachesOK, OrphansOK, ListIInv
<1>6. QED BY <1>4, <1>5

LEMMA UseVolumeKeeps ==
    ASSUME ListIInv, NEW s, UseVolume(s)
    PROVE  ListIInv'
<1>1. PICK x : x = LookupVolume(s) /\ x # NoVolumeId /\ vHash' = Entered(vHash, x, NoVolumeId)
  BY DEF UseVolume
<1>2. /\ Filed(vHash', ShareName, Share, NoVolumeId)
      /\ Cached(vHash', NoVolumeId) \subseteq There \cup lost
      /\ \A k \in ShareName : vHash[k] # NoVolumeId => vHash'[k] # NoVolumeId
  BY <1>1, UseKeeps DEF ListIInv
<1>3. UNCHANGED <<shares, snaps, sHash, orphans, alive, client, work, lost>>
  BY DEF UseVolume
<1>4. CachesOK' /\ KnownOK' /\ OrphansOK'
  BY <1>2, <1>3, OnlyVolumesGrow
<1>5. WorkOK'
  BY <1>3 DEF WorkOK, ListIInv
<1>6. QED BY <1>3, <1>4, <1>5, ClientStays DEF ListIInv

LEMMA DeleteVolumeKeeps ==
    ASSUME ListIInv, NEW s, NEW answered, DeleteVolume(s, answered)
    PROVE  ListIInv'
<1>1. PICK x : x = LookupVolume(s) /\ x \in shares
  BY DEF DeleteVolume
<1>2. CachesOK /\ KnownOK /\ OrphansOK /\ WorkOK /\ x \in Share
  BY <1>1 DEF ListIInv, CachesOK
<1>3. /\ snaps[x] = <<>> /\ shares' = shares \ {x} /\ NotOwed({x})
      /\ UNCHANGED <<snaps, sHash, alive, client>>
  BY <1>1 DEF DeleteVolume
<1>4. There \ {x} \subseteq There'
  <2>1. SnapshotsOf(x) = {}
    BY <1>3 DEF SnapshotsOf, Range
  <2>2. There \ ({x} \cup SnapshotsOf(x)) \subseteq There'
    BY <1>2, <1>3, ThereWithout
  <2>3. QED BY <2>1, <2>2
<1>5. WorkOK' /\ work'.todo = work.todo /\ work'.owed = work.owed \ {x} /\ work'.kind = work.kind
  BY <1>2, <1>3, LessOwed
<1>6. /\ Cached(vHash, NoVolumeId) \subseteq There \cup lost
      /\ Cached(sHash, NoSnapshotId) \subseteq There \cup lost
      /\ work.todo \subseteq There \cup lost /\ work.owed \subseteq There
      /\ \A z \in work.owed \ work.todo : Done(z)
  BY <1>2 DEF KnownOK, Held
<1>7. /\ x # NoVolumeId /\ x.Name \in ShareName /\ x \notin AllSnapshotIds
  BY <1>2, Apart
<1>8. CASE answered
  <2>1. /\ vHash' = Dropped(vHash, x.Name, NoVolumeId)
        /\ orphans' = orphans \cup {n \in SnapName : sHash[n] # NoSnapshotId /\ sHash[n].VolumeId = x}
        /\ lost' = (lost \ {x}) \cup (work.todo \cap {x})
    BY <1>1, <1>8 DEF DeleteVolume
  <2>2. PICK new : new = vHash'
    OBVIOUS
  <2>3. /\ Filed(new, ShareName, Share, NoVolumeId)
        /\ Cached(new, NoVolumeId) \subseteq Cached(vHash, NoVolumeId)
        /\ \A z \in Cached(new, NoVolumeId) : z.Name # x.Name
        /\ \A k \in ShareName : k # x.Name => new[k] = vHash[k]
    <3>1. new = Dropped(vHash, x.Name, NoVolumeId) /\ Filed(vHash, ShareName, Share, NoVolumeId)
      BY <1>2, <2>1, <2>2 DEF CachesOK
    <3>2. QED BY <3>1, DroppedFiled
  <2>4. x \notin Cached(new, NoVolumeId) /\ x \notin Cached(sHash, NoSnapshotId)
    <3>1. x \notin Cached(new, NoVolumeId)
      BY <2>3
    <3>2. Filed(sHash, SnapName, AllSnapshotIds, NoSnapshotId)
      BY <1>2 DEF CachesOK
    <3>3. x \notin Cached(sHash, NoSnapshotId)
      BY <1>7, <3>2, FiledOne
    <3>4. QED BY <3>1, <3>3
  <2>5. Held' \subseteq There' \cup lost'
    <3>1. Held' = Cached(new, NoVolumeId) \cup Cached(sHash, NoSnapshotId) \cup work.todo
      BY <1>3, <1>5, <2>2 DEF Held
    <3>2. QED BY <1>4, <1>6, <2>1, <2>3, <2>4, <3>1
  <2>6. ASSUME NEW z \in work'.owed \ work'.todo PROVE Done(z)'
    <3>1. Done(z) /\ z # x /\ z \in work.owed
      BY <1>5, <1>6
    <3>2. work.kind = "volumes" => z \in Share /\ z.Name # x.Name /\ z.Name \in ShareName
      BY <1>2, <3>1, Apart, SharesAssumption DEF WorkOK
    <3>3. QED BY <1>3, <1>5, <2>2, <2>3, <3>1, <3>2 DEF Done
  <2>7. KnownOK'
    BY <1>4, <1>5, <1>6, <2>5, <2>6 DEF KnownOK
  <2>8. CachesOK'
    BY <1>2, <1>3, <2>2, <2>3 DEF CachesOK
  <2>9. ASSUME NEW n \in orphans'
        PROVE  n \in SnapName /\ IF sHash[n] = NoSnapshotId THEN ~alive ELSE sHash[n] \in lost'
    <3>1. CASE n \in orphans
      <4>1. n \in SnapName /\ IF sHash[n] = NoSnapshotId THEN ~alive ELSE sHash[n] \in lost
        BY <1>2, <3>1 DEF OrphansOK
      <4>2. sHash[n] # NoSnapshotId => sHash[n] # x
        BY <1>2, <1>7, <4>1 DEF CachesOK, Filed
      <4>3. QED BY <2>1, <4>1, <4>2
    <3>2. CASE n \in SnapName /\ sHash[n] # NoSnapshotId /\ sHash[n].VolumeId = x
      <4>1. sHash[n] \in AllSnapshotIds /\ sHash[n] \in Cached(sHash, NoSnapshotId)
        BY <1>2, <3>2 DEF CachesOK, Filed, Cached, Range
      <4>2. sHash[n] \notin ThereSnapshots
        BY <1>3, <3>2 DEF ThereSnapshots, HasSnap, Range
      <4>3. sHash[n] \notin shares /\ sHash[n] # x
        BY <1>2, <1>7, <4>1, Apart DEF CachesOK
      <4>4. sHash[n] \in lost
        BY <1>6, <4>1, <4>2, <4>3 DEF There
      <4>5. QED BY <2>1, <3>2, <4>3, <4>4
    <3>3. QED BY <2>1, <3>1, <3>2
  <2>10. OrphansOK'
    BY <1>3, <2>9 DEF OrphansOK
  <2>11. QED BY <1>3, <1>5, <2>7, <2>8, <2>10, ClientStays DEF ListIInv
<1>9. CASE ~answered
  <2>1. /\ vHash' = Entered(vHash, x, NoVolumeId) /\ lost' = lost \cup {x} /\ orphans' = orphans
    BY <1>1, <1>9 DEF DeleteVolume
  <2>2. /\ Filed(vHash', ShareName, Share, NoVolumeId)
        /\ Cached(vHash', NoVolumeId) \subseteq There \cup lost
        /\ \A k \in ShareName : vHash[k] # NoVolumeId => vHash'[k] # NoVolumeId
    BY <1>1, <1>2, <1>7, <2>1, UseKeeps
  <2>3. Held' \subseteq There' \cup lost'
    <3>1. Held' = Cached(vHash', NoVolumeId) \cup Cached(sHash, NoSnapshotId) \cup work.todo
      BY <1>3, <1>5 DEF Held
    <3>2. QED BY <1>4, <1>6, <2>1, <2>2, <3>1
  <2>4. ASSUME NEW z \in work'.owed \ work'.todo PROVE Done(z)'
    <3>1. Done(z) /\ z \in work.owed
      BY <1>5, <1>6
    <3>2. work.kind = "volumes" => z.Name \in ShareName
      BY <1>2, <3>1, Apart DEF WorkOK
    <3>3. QED BY <1>3, <1>5, <2>2, <3>1, <3>2 DEF Done
  <2>5. KnownOK'
    BY <1>4, <1>5, <1>6, <2>3, <2>4 DEF KnownOK
  <2>6. CachesOK' /\ OrphansOK'
    BY <1>2, <1>3, <2>1, <2>2 DEF CachesOK, OrphansOK
  <2>7. QED BY <1>3, <1>5, <2>5, <2>6, ClientStays DEF ListIInv
<1>10. QED BY <1>8, <1>9

LEMMA OrphansAreLost ==
    ASSUME OrphansOK, alive, NEW n \in orphans
    PROVE  n \in SnapName /\ sHash[n] # NoSnapshotId /\ sHash[n] \in lost
BY DEF OrphansOK

\* A step of CreateSnapshot or DeleteSnapshot.
LEMMA SnapshotStep ==
    ASSUME ListIInv, UNCHANGED <<shares, orphans, client>>, snaps' \in [Share -> Seq(SnapName)],
           Filed(vHash', ShareName, Share, NoVolumeId),
           \A k \in ShareName : vHash[k] # NoVolumeId => vHash'[k] # NoVolumeId,
           Filed(sHash', SnapName, AllSnapshotIds, NoSnapshotId),
           Held' \subseteq There' \cup lost',
           WorkOK', work'.todo = work.todo, work'.owed \subseteq work.owed, work'.kind = work.kind,
           work'.owed \subseteq There',
           \A n \in orphans : IF sHash'[n] = NoSnapshotId THEN ~alive' ELSE sHash'[n] \in lost',
           work.kind = "snapshots" =>
             \A z \in work'.owed : sHash[z.Name] # NoSnapshotId => sHash'[z.Name] # NoSnapshotId
    PROVE  ListIInv'
<1>1. ASSUME NEW z \in work'.owed \ work'.todo PROVE Done(z)'
  <2>1. z \in work.owed \ work.todo /\ Done(z)
    BY DEF KnownOK, ListIInv
  <2>2. work.kind = "volumes" => z.Name \in ShareName
    BY <2>1, Apart DEF WorkOK, ListIInv
  <2>3. QED BY <2>1, <2>2 DEF Done
<1>2. KnownOK'
  BY <1>1 DEF KnownOK
<1>3. CachesOK' /\ OrphansOK'
  BY DEF CachesOK, OrphansOK, ListIInv
<1>4. QED BY <1>2, <1>3, ClientStays DEF ListIInv

LEMMA CreateSnapshotKeeps ==
    ASSUME ListIInv, NEW s, NEW n \in SnapName, NEW answered, CreateSnapshot(s, n, answered)
    PROVE  ListIInv'
<1>1. PICK x : x = LookupVolume(s) /\ x # NoVolumeId /\ vHash' = Entered(vHash, x, NoVolumeId)
  BY DEF CreateSnapshot
<1>2. CachesOK /\ KnownOK /\ OrphansOK /\ WorkOK /\ alive /\ UNCHANGED <<shares, orphans, client, lost>>
      /\ alive' = (n \notin orphans)
  BY DEF ListIInv, CreateSnapshot
<1>3. /\ x \in Share
      /\ Filed(vHash', ShareName, Share, NoVolumeId)
      /\ Cached(vHash', NoVolumeId) \subseteq There \cup lost
      /\ \A k \in ShareName : vHash[k] # NoVolumeId => vHash'[k] # NoVolumeId
  BY <1>1, <1>2, UseKeeps
<1>4. /\ Cached(sHash, NoSnapshotId) \subseteq There \cup lost
      /\ work.todo \subseteq There \cup lost /\ work.owed \subseteq There
      /\ Filed(sHash, SnapName, AllSnapshotIds, NoSnapshotId)
      /\ snaps \in [Share -> Seq(SnapName)]
  BY <1>2 DEF KnownOK, Held, CachesOK
<1>5. \A m \in orphans : m \in SnapName /\ sHash[m] # NoSnapshotId /\ sHash[m] \in lost
  BY <1>2, OrphansAreLost
<1>6. PICK z : z = SnapshotId(x, n)
  OBVIOUS
<1>7. z \in AllSnapshotIds /\ z.Name = n /\ z # NoSnapshotId
  BY <1>3, <1>6, ThereIs
<1>8. ASSUME x \in shares, snaps' = [snaps EXCEPT ![x] = Append(@, n)]
      PROVE  snaps' \in [Share -> Seq(SnapName)] /\ There \subseteq There' /\ z \in There'
  BY <1>2, <1>6, <1>8, ThereGrows
<1>9. ASSUME UNCHANGED snaps PROVE snaps' \in [Share -> Seq(SnapName)] /\ There \subseteq There'
  BY <1>2, <1>4, <1>9, ThereStays
<1>10. CASE answered /\ UNCHANGED <<snaps, sHash, work>>
  <2>1. Held' \subseteq There' \cup lost'
    BY <1>2, <1>3, <1>4, <1>9, <1>10 DEF Held
  <2>2. WorkOK'
    BY <1>2, <1>10 DEF WorkOK
  <2>3. \A m \in orphans : sHash'[m] # NoSnapshotId /\ sHash'[m] \in lost'
    BY <1>2, <1>5, <1>10
  <2>4. QED BY <1>2, <1>3, <1>4, <1>9, <1>10, <2>1, <2>2, <2>3, SnapshotStep
<1>11. CASE /\ answered /\ x \in shares /\ UNCHANGED work
            /\ snaps' = [snaps EXCEPT ![x] = Append(@, n)]
            /\ sHash' = Entered(sHash, z, NoSnapshotId)
  <2>1. PICK new : new = sHash'
    OBVIOUS
  <2>2. /\ Filed(new, SnapName, AllSnapshotIds, NoSnapshotId)
        /\ Cached(new, NoSnapshotId) \subseteq Cached(sHash, NoSnapshotId) \cup {z}
        /\ \A k \in SnapName : sHash[k] # NoSnapshotId => new[k] # NoSnapshotId
        /\ \A k \in SnapName : new[k] = sHash[k] \/ (sHash[k] = NoSnapshotId /\ k = z.Name /\ new[k] = z)
    BY <1>4, <1>7, <1>11, <2>1, EnteredFiled
  <2>3. Held' \subseteq There' \cup lost'
    BY <1>2, <1>3, <1>4, <1>8, <1>11, <2>1, <2>2 DEF Held
  <2>4. WorkOK'
    BY <1>2, <1>11 DEF WorkOK
  <2>5. \A m \in orphans : sHash'[m] # NoSnapshotId /\ sHash'[m] \in lost'
    BY <1>2, <1>5, <2>1, <2>2
  <2>6. work.kind = "snapshots" => \A y \in work.owed : y.Name \in SnapName
    BY <1>2, SnapshotIdParts DEF WorkOK
  <2>7. QED BY <1>2, <1>3, <1>4, <1>8, <1>11, <2>1, <2>2, <2>3, <2>4, <2>5, <2>6, SnapshotStep
<1>12. CASE /\ ~answered /\ sHash' = Dropped(sHash, n, NoSnapshotId) /\ NotOwed(Named(n))
            /\ \/ UNCHANGED snaps
               \/ x \in shares /\ snaps' = [snaps EXCEPT ![x] = Append(@, n)]
  <2>1. PICK new : new = sHash'
    OBVIOUS
  <2>2. /\ Filed(new, SnapName, AllSnapshotIds, NoSnapshotId)
        /\ Cached(new, NoSnapshotId) \subseteq Cached(sHash, NoSnapshotId)
        /\ \A k \in SnapName : k # n => new[k] = sHash[k]
        /\ n \in SnapName => new[n] = NoSnapshotId
    BY <1>4, <1>12, <2>1, DroppedFiled
  <2>3. WorkOK' /\ work'.todo = work.todo /\ work'.owed = work.owed \ Named(n) /\ work'.kind = work.kind
    BY <1>2, <1>12, LessOwed
  <2>4. snaps' \in [Share -> Seq(SnapName)] /\ There \subseteq There'
    BY <1>8, <1>9, <1>12
  <2>5. Held' \subseteq There' \cup lost'
    BY <1>2, <1>3, <1>4, <2>1, <2>2, <2>3, <2>4 DEF Held
  <2>6. ASSUME NEW m \in orphans
        PROVE  IF sHash'[m] = NoSnapshotId THEN ~alive' ELSE sHash'[m] \in lost'
    <3>1. CASE m = n
      BY <1>2, <2>1, <2>2, <3>1
    <3>2. CASE m # n
      BY <1>2, <1>5, <2>1, <2>2, <3>2
    <3>3. QED BY <3>1, <3>2
  <2>7. ASSUME work.kind = "snapshots", NEW y \in work'.owed, sHash[y.Name] # NoSnapshotId
        PROVE  sHash'[y.Name] # NoSnapshotId
    <3>1. y \in AllSnapshotIds /\ y \notin Named(n)
      BY <1>2, <2>3, <2>7 DEF WorkOK
    <3>2. y.Name \in SnapName /\ y.Name # n
      BY <3>1, SnapshotIdParts
    <3>3. QED BY <2>1, <2>2, <2>7, <3>2
  <2>8. work'.owed \subseteq work.owed /\ work'.owed \subseteq There'
    BY <1>4, <2>3, <2>4
  <2>9. QED BY <1>2, <1>3, <2>1, <2>2, <2>3, <2>4, <2>5, <2>6, <2>7, <2>8, SnapshotStep
<1>13. QED BY <1>1, <1>6, <1>10, <1>11, <1>12 DEF CreateSnapshot

LEMMA DeleteSnapshotKeeps ==
    ASSUME ListIInv, NEW s, NEW answered, DeleteSnapshot(s, answered)
    PROVE  ListIInv'
<1> DEFINE sid == SnapshotIdFromString(s)
<1>1. PICK x : /\ x = LookupVolume(VolumeIdString(sid.VolumeId)) /\ x # NoVolumeId
               /\ vHash' = Entered(vHash, x, NoVolumeId)
  BY DEF DeleteSnapshot
<1>2. CachesOK /\ KnownOK /\ OrphansOK /\ WorkOK /\ alive /\ UNCHANGED <<shares, orphans, client>>
  BY DEF ListIInv, DeleteSnapshot
<1>3. /\ x \in Share
      /\ Filed(vHash', ShareName, Share, NoVolumeId)
      /\ Cached(vHash', NoVolumeId) \subseteq There \cup lost
      /\ \A k \in ShareName : vHash[k] # NoVolumeId => vHash'[k] # NoVolumeId
  <2>1. PICK t : t = VolumeIdString(sid.VolumeId)
    OBVIOUS
  <2>2. x = LookupVolume(t)
    BY <1>1, <2>1
  <2>3. QED BY <1>1, <1>2, <2>2, UseKeeps
<1>4. /\ Cached(sHash, NoSnapshotId) \subseteq There \cup lost
      /\ work.todo \subseteq There \cup lost /\ work.owed \subseteq There
      /\ Filed(sHash, SnapName, AllSnapshotIds, NoSnapshotId)
      /\ snaps \in [Share -> Seq(SnapName)]
  BY <1>2 DEF KnownOK, Held, CachesOK
<1>5. \A m \in orphans : m \in SnapName /\ sHash[m] # NoSnapshotId /\ sHash[m] \in lost
  BY <1>2, OrphansAreLost
<1>6. CASE LookupSnapshot(s) = NoSnapshotId
  <2>1. UNCHANGED <<snaps, sHash, work, lost>>
    BY <1>6 DEF DeleteSnapshot
  <2>2. Held' \subseteq There' \cup lost'
    BY <1>2, <1>3, <1>4, <2>1, ThereStays DEF Held
  <2>3. WorkOK'
    BY <1>2, <2>1 DEF WorkOK
  <2>4. \A m \in orphans : sHash'[m] # NoSnapshotId /\ sHash'[m] \in lost'
    BY <1>5, <2>1
  <2>5. work'.owed \subseteq There' /\ snaps' \in [Share -> Seq(SnapName)]
    BY <1>2, <1>4, <2>1, ThereStays
  <2>6. QED BY <1>2, <1>3, <1>4, <2>1, <2>2, <2>3, <2>4, <2>5, SnapshotStep
<1>7. CASE LookupSnapshot(s) # NoSnapshotId
  <2>1. PICK z, n : z = LookupSnapshot(s) /\ n = sid.Name
    OBVIOUS
  <2>2. /\ z = SnapshotId(x, n) /\ n \in SnapName /\ n \notin orphans /\ z \in There \cup lost
        /\ sHash[n] # NoSnapshotId => sHash[n] = z
    BY <1>1, <1>2, <1>7, <2>1, LookupSnapshotFinds
  <2>3. z \in AllSnapshotIds /\ z.Name = n /\ z # NoSnapshotId /\ z \in Named(n)
    BY <1>3, <2>2, ThereIs DEF Named
  <2>4. /\ snaps' = IF HasSnap(x, n) THEN [snaps EXCEPT ![x] = Without(@, n)] ELSE snaps
        /\ IF answered \/ ~HasSnap(x, n)
           THEN sHash' = Dropped(sHash, n, NoSnapshotId) /\ lost' = (lost \ {z}) \cup (work.todo \cap {z})
           ELSE sHash' = Entered(sHash, z, NoSnapshotId) /\ lost' = lost \cup {z}
        /\ NotOwed(Named(n))
    BY <1>1, <1>7, <2>1, <2>3 DEF DeleteSnapshot
  <2>5. snaps' \in [Share -> Seq(SnapName)] /\ There \ {z} \subseteq There'
    <3>1. CASE HasSnap(x, n)
      BY <1>2, <1>3, <2>2, <2>4, <3>1, ThereLess
    <3>2. CASE ~HasSnap(x, n)
      BY <1>2, <1>4, <2>4, <3>2, ThereStays
    <3>3. QED BY <3>1, <3>2
  <2>6. WorkOK' /\ work'.todo = work.todo /\ work'.owed = work.owed \ Named(n) /\ work'.kind = work.kind
    BY <1>2, <2>4, LessOwed
  <2>7. work'.owed \subseteq work.owed /\ work'.owed \subseteq There'
    BY <1>4, <2>3, <2>5, <2>6
  <2>8. PICK new : new = sHash'
    OBVIOUS
  <2>9. z \notin Cached(vHash', NoVolumeId)
    <3>1. ASSUME z \in Cached(vHash', NoVolumeId) PROVE FALSE
      <4>1. PICK v : v = vHash'
        OBVIOUS
      <4>2. Filed(v, ShareName, Share, NoVolumeId) /\ z \in Cached(v, NoVolumeId)
        BY <1>3, <3>1, <4>1
      <4>3. z \in Share
        BY <4>2, FiledOne
      <4>4. QED BY <2>3, <4>3, Apart
    <3>2. QED BY <3>1
  <2>10. CASE answered \/ ~HasSnap(x, n)
    <3>1. /\ Filed(new, SnapName, AllSnapshotIds, NoSnapshotId)
          /\ Cached(new, NoSnapshotId) \subseteq Cached(sHash, NoSnapshotId)
          /\ \A y \in Cached(new, NoSnapshotId) : y.Name # n
          /\ \A k \in SnapName : k # n => new[k] = sHash[k]
      BY <1>4, <2>4, <2>8, <2>10, DroppedFiled
    <3>2. lost' = (lost \ {z}) \cup (work.todo \cap {z})
      BY <2>4, <2>10
    <3>3. Held' \subseteq There' \cup lost'
      <4>1. z \notin Cached(new, NoSnapshotId)
        BY <2>3, <3>1
      <4>2. Held' = Cached(vHash', NoVolumeId) \cup Cached(new, NoSnapshotId) \cup work.todo
        BY <2>6, <2>8 DEF Held
      <4>3. QED BY <1>3, <1>4, <2>5, <2>9, <3>1, <3>2, <4>1, <4>2
    <3>4. ASSUME NEW m \in orphans PROVE sHash'[m] # NoSnapshotId /\ sHash'[m] \in lost'
      <4>1. m # n /\ m \in SnapName /\ sHash[m] # NoSnapshotId /\ sHash[m] \in lost
        BY <1>5, <2>2
      <4>2. sHash[m].Name = m
        BY <1>4, <4>1 DEF Filed
      <4>3. QED BY <2>3, <2>8, <3>1, <3>2, <4>1, <4>2
    <3>5. ASSUME work.kind = "snapshots", NEW y \in work'.owed, sHash[y.Name] # NoSnapshotId
          PROVE  sHash'[y.Name] # NoSnapshotId
      <4>1. y \in AllSnapshotIds /\ y \notin Named(n)
        BY <1>2, <2>6, <3>5 DEF WorkOK
      <4>2. y.Name \in SnapName /\ y.Name # n
        BY <4>1, SnapshotIdParts
      <4>3. QED BY <2>8, <3>1, <3>5, <4>2
    <3>6. QED BY <1>2, <1>3, <2>5, <2>6, <2>7, <2>8, <3>1, <3>3, <3>4, <3>5, SnapshotStep
  <2>11. CASE ~(answered \/ ~HasSnap(x, n))
    <3>1. /\ Filed(new, SnapName, AllSnapshotIds, NoSnapshotId)
          /\ Cached(new, NoSnapshotId) \subseteq Cached(sHash, NoSnapshotId) \cup {z}
          /\ \A k \in SnapName : sHash[k] # NoSnapshotId => new[k] # NoSnapshotId
          /\ \A k \in SnapName : new[k] = sHash[k] \/ (sHash[k] = NoSnapshotId /\ k = z.Name /\ new[k] = z)
      BY <1>4, <2>2, <2>3, <2>4, <2>8, <2>11, EnteredFiled
    <3>2. lost' = lost \cup {z}
      BY <2>4, <2>11
    <3>3. Held' \subseteq There' \cup lost'
      <4>1. Held' = Cached(vHash', NoVolumeId) \cup Cached(new, NoSnapshotId) \cup work.todo
        BY <2>6, <2>8 DEF Held
      <4>2. QED BY <1>3, <1>4, <2>5, <3>1, <3>2, <4>1
    <3>4. ASSUME NEW m \in orphans PROVE sHash'[m] # NoSnapshotId /\ sHash'[m] \in lost'
      BY <1>5, <2>8, <3>1, <3>2
    <3>5. ASSUME work.kind = "snapshots", NEW y \in work'.owed, sHash[y.Name] # NoSnapshotId
          PROVE  sHash'[y.Name] # NoSnapshotId
      <4>1. y.Name \in SnapName
        BY <1>2, <2>7, <3>5, SnapshotIdParts DEF WorkOK
      <4>2. QED BY <2>8, <3>1, <3>5, <4>1
    <3>6. QED BY <1>2, <1>3, <2>5, <2>6, <2>7, <2>8, <3>1, <3>3, <3>4, <3>5, SnapshotStep
  <2>12. QED BY <2>10, <2>11
<1>8. QED BY <1>6, <1>7

-----------------------------------------------------------------------------
(* The steps of listings.                                                  *)

\* Only the listing changes.
LEMMA WorkStep ==
    ASSUME ListIInv, UNCHANGED <<shares, snaps, vHash, sHash, orphans, alive, lost>>,
           work'.todo \subseteq There \cup lost, work'.owed \subseteq There,
           \A z \in work'.owed \ work'.todo : Done(z)',
           WorkOK', ClientOK'
    PROVE  ListIInv'
<1>1. There' = There
  BY ThereStays
<1>2. Held' \subseteq There' \cup lost'
  BY <1>1 DEF Held, KnownOK, ListIInv
<1>3. KnownOK'
  BY <1>1, <1>2 DEF KnownOK
<1>4. CachesOK' /\ OrphansOK'
  BY DEF CachesOK, OrphansOK, ListIInv
<1>5. QED BY <1>3, <1>4 DEF ListIInv

LEMMA ListVolumesKeeps ==
    ASSUME ListIInv, NEW max \in MaxEntries, ListVolumes(max)
    PROVE  ListIInv'
<1>1. max \in Nat
  BY MaxAssumption
<1>2. /\ work'.kind = "volumes" /\ work'.max = max /\ work'.unread = {BlockVolume, MountVolume}
      /\ work'.todo = {} /\ work'.owed = {} /\ work' \in Works
  <2>1. work' = [NoWork EXCEPT !.kind = "volumes", !.max = max, !.unread = {BlockVolume, MountVolume}]
    BY DEF ListVolumes
  <2>2. QED BY <1>1, <2>1 DEF NoWork, Works
<1>3. UNCHANGED <<shares, snaps, vHash, sHash, orphans, alive, client, lost>>
  BY DEF ListVolumes
<1>4. client.next > 0 => client.kind = "volumes" /\ client.of = <<>> /\ client.max = max
  BY DEF ListVolumes, Asks
<1>5. WorkOK'
  BY <1>2, <1>3, <1>4 DEF WorkOK
<1>6. ClientOK'
  BY <1>3, ClientStays DEF ListIInv
<1>7. QED BY <1>2, <1>3, <1>5, <1>6, WorkStep

LEMMA ReadVolumesKeeps ==
    ASSUME ListIInv, NEW type, NEW ok \in BOOLEAN, ReadVolumes(type, ok)
    PROVE  ListIInv'
<1>1. CachesOK /\ KnownOK /\ WorkOK /\ type \in work.unread
  BY DEF ListIInv, ReadVolumes
<1>2. PICK listed : listed = IF ok THEN {x \in shares : x.Type = type} ELSE {}
  OBVIOUS
<1>3. listed \subseteq shares /\ listed \subseteq Share /\ listed \subseteq There
  BY <1>1, <1>2 DEF CachesOK, There
<1>4. work.kind = "volumes"
  BY <1>1, NoWorkOK DEF WorkOK, Works
<1>5. /\ work' = [work EXCEPT !.unread = @ \ {type}, !.todo = @ \cup listed,
                              !.owed = @ \cup listed, !.failed = @ \/ ~ok]
      /\ UNCHANGED <<shares, snaps, vHash, sHash, orphans, alive, client, lost>>
  BY <1>2 DEF ReadVolumes
<1>6. /\ work'.kind = "volumes" /\ work'.max = work.max /\ work'.unread = work.unread \ {type}
      /\ work'.todo = work.todo \cup listed /\ work'.owed = work.owed \cup listed
      /\ work' \in Works
  <2>1. (work.failed \/ ~ok) \in BOOLEAN
    OBVIOUS
  <2>2. PICK u, t, o, f : /\ u = work.unread \ {type} /\ t = work.todo \cup listed
                          /\ o = work.owed \cup listed /\ f = (work.failed \/ ~ok)
    OBVIOUS
  <2>3. work' = [work EXCEPT !.unread = u, !.todo = t, !.owed = o, !.failed = f]
    BY <1>1, <1>5, <2>2 DEF WorkOK, Works
  <2>4. /\ u \in SUBSET {BlockVolume, MountVolume} /\ t \in SUBSET (Share \cup AllSnapshotIds)
        /\ o \in SUBSET (Share \cup AllSnapshotIds) /\ f \in BOOLEAN
    BY <1>1, <1>3, <2>1, <2>2 DEF WorkOK, Works
  <2>5. work \in Works
    BY <1>1 DEF WorkOK
  <2>6. /\ work'.kind = work.kind /\ work'.max = work.max /\ work'.unread = u
        /\ work'.todo = t /\ work'.owed = o /\ work'.failed = f
    BY <2>3, <2>5 DEF Works
  <2>7. work' \in Works
    BY <2>3, <2>4, <2>5 DEF Works
  <2>8. QED BY <1>4, <2>2, <2>6, <2>7
<1>7. WorkOK'
  BY <1>1, <1>3, <1>4, <1>5, <1>6 DEF WorkOK
<1>8. ASSUME NEW z \in work'.owed \ work'.todo PROVE Done(z)'
  <2>1. z \in work.owed \ work.todo
    BY <1>6, <1>8
  <2>2. Done(z)
    BY <1>1, <2>1 DEF KnownOK
  <2>3. QED BY <1>4, <1>5, <1>6, <2>2 DEF Done
<1>9. work'.todo \subseteq There \cup lost /\ work'.owed \subseteq There
  BY <1>1, <1>3, <1>6 DEF KnownOK, Held
<1>10. ClientOK'
  BY <1>5, ClientStays DEF ListIInv
<1>11. QED BY <1>5, <1>7, <1>8, <1>9, <1>10, WorkStep

LEMMA EnterVolumeKeeps ==
    ASSUME ListIInv, NEW x, EnterVolume(x)
    PROVE  ListIInv'
<1>1. /\ CachesOK /\ KnownOK /\ OrphansOK /\ WorkOK
      /\ work.kind = "volumes" /\ x \in work.todo
      /\ vHash' = Entered(vHash, x, NoVolumeId) /\ work' = [work EXCEPT !.todo = @ \ {x}]
      /\ UNCHANGED <<shares, snaps, sHash, orphans, alive, client, lost>>
  BY DEF ListIInv, EnterVolume
<1>2. x \in Share /\ x.Name \in ShareName /\ x # NoVolumeId
  BY <1>1, Apart DEF WorkOK
<1>3. WorkOK' /\ work'.todo = work.todo \ {x} /\ work'.owed = work.owed /\ work'.kind = "volumes"
  BY <1>1, LessTodo
<1>4. PICK new : new = vHash'
  OBVIOUS
<1>5. /\ Filed(new, ShareName, Share, NoVolumeId)
      /\ Cached(new, NoVolumeId) \subseteq Cached(vHash, NoVolumeId) \cup {x}
      /\ \A k \in ShareName : vHash[k] # NoVolumeId => new[k] # NoVolumeId
      /\ new[x.Name] # NoVolumeId
  <2>1. new = Entered(vHash, x, NoVolumeId) /\ Filed(vHash, ShareName, Share, NoVolumeId)
    BY <1>1, <1>4 DEF CachesOK
  <2>2. QED BY <1>2, <2>1, EnteredFiled
<1>6. Held' \subseteq There' \cup lost'
  <2>1. Held \subseteq There \cup lost /\ There' = There
    BY <1>1, ThereStays DEF KnownOK
  <2>2. Held' \subseteq Held
    BY <1>1, <1>3, <1>4, <1>5 DEF Held
  <2>3. QED BY <1>1, <2>1, <2>2
<1>7. ASSUME NEW z \in work'.owed \ work'.todo PROVE Done(z)'
  <2>1. z \in Share /\ z.Name \in ShareName
    BY <1>1, <1>3, Apart DEF WorkOK
  <2>2. CASE z = x
    BY <1>3, <1>4, <1>5, <2>2 DEF Done
  <2>3. CASE z # x
    <3>1. Done(z)
      BY <1>1, <1>3, <2>3 DEF KnownOK
    <3>2. QED BY <1>1, <1>3, <1>4, <1>5, <2>1, <3>1 DEF Done
  <2>4. QED BY <2>2, <2>3
<1>8. KnownOK'
  BY <1>1, <1>3, <1>6, <1>7, ThereStays DEF KnownOK
<1>9. CachesOK' /\ OrphansOK'
  BY <1>1, <1>4, <1>5 DEF CachesOK, OrphansOK
<1>10. QED BY <1>1, <1>3, <1>8, <1>9, ClientStays DEF ListIInv

LEMMA SkipBusyKeeps ==
    ASSUME ListIInv, NEW x, SkipBusy(x)
    PROVE  ListIInv'
<1>1. /\ work' = [work EXCEPT !.todo = @ \ {x}, !.owed = @ \ {x}] /\ WorkOK /\ KnownOK
      /\ UNCHANGED <<shares, snaps, vHash, sHash, orphans, alive, client, lost>>
  BY DEF ListIInv, SkipBusy
<1>2. PICK T, O : T = work.todo \ {x} /\ O = work.owed \ {x}
  OBVIOUS
<1>3. work' = [work EXCEPT !.todo = T, !.owed = O] /\ T \subseteq work.todo /\ O \subseteq work.owed
  BY <1>1, <1>2 DEF WorkOK, Works
<1>4. WorkOK' /\ work'.todo = T /\ work'.owed = O /\ work'.kind = work.kind
  BY <1>1, <1>3, LessWork
<1>5. T \subseteq There \cup lost /\ O \subseteq There
  BY <1>1, <1>2 DEF KnownOK, Held
<1>6. ASSUME NEW z \in work'.owed \ work'.todo PROVE Done(z)'
  <2>1. Done(z)
    BY <1>1, <1>2, <1>4 DEF KnownOK
  <2>2. QED BY <1>1, <1>4, <2>1 DEF Done
<1>7. QED BY <1>1, <1>4, <1>5, <1>6, WorkStep, ClientStays DEF ListIInv

LEMMA WorkAsks ==
    ASSUME WorkOK, alive, work.kind # "none"
    PROVE  Asks(work.kind, <<>>, work.max) /\ work.max \in Nat
BY DEF WorkOK, Works, Asks

\* The end of a listing.
LEMMA ReplyKeeps ==
    ASSUME ListIInv, UNCHANGED <<shares, snaps, vHash, sHash, orphans, alive, lost>>,
           work' = NoWork, ClientOK'
    PROVE  ListIInv'
<1>1. WorkOK'
  BY NoWorkOK DEF WorkOK
<1>2. work'.todo = {} /\ work'.owed = {}
  BY NoWorkOK
<1>3. QED BY <1>1, <1>2, WorkStep

LEMMA CachedIs ==
    ASSUME CachesOK
    PROVE  /\ Cached(vHash, NoVolumeId) \subseteq Share
           /\ Cached(sHash, NoSnapshotId) \subseteq AllSnapshotIds
           /\ Cardinality(Cached(sHash, NoSnapshotId)) \in Nat
<1>1. /\ Filed(vHash, ShareName, Share, NoVolumeId)
      /\ Filed(sHash, SnapName, AllSnapshotIds, NoSnapshotId)
  BY DEF CachesOK
<1>2. Cached(vHash, NoVolumeId) \subseteq Share /\ Cached(sHash, NoSnapshotId) \subseteq AllSnapshotIds
  BY <1>1, FiledOne
<1>3. IsFiniteSet(Cached(sHash, NoSnapshotId))
  BY <1>2, SnapshotIdsFinite, FS_Subset
<1>4. QED BY <1>2, <1>3, FS_CardinalityType

LEMMA NilsAre ==
    ASSUME NEW k \in Nat
    PROVE  Nils(k) \in Seq(Entries) /\ Len(Nils(k)) = k /\ \A i \in 1..k : Nils(k)[i] = NilEntry
<1>1. Nils(k) \in [1..k -> Entries] /\ \A i \in 1..k : Nils(k)[i] = NilEntry
  BY DEF Nils, Entries
<1>2. Nils(k) \in Seq(Entries)
  BY <1>1, SeqDef
<1>3. DOMAIN Nils(k) = 1..k /\ DOMAIN Nils(k) = 1..Len(Nils(k)) /\ Len(Nils(k)) \in Nat
  BY <1>1, <1>2, LenProperties
<1>4. QED BY <1>1, <1>2, <1>3

\* What ListVolumes replies.
LEMMA VolumesReply ==
    ASSUME CachesOK, VolumesListed, ~work.failed
    PROVE  \E P \in SUBSET OnlyUncached(vHash, NoVolumeId, Share), nils \in Seq(Entries) :
             /\ Cardinality(Cached(sHash, NoSnapshotId)) <= Len(nils)
             /\ \A i \in 1..Len(nils) : nils[i] = NilEntry
             /\ \E order \in SetToSeqs({VolumeEntry(x) : x \in Cached(vHash, NoVolumeId) \cup P}) :
                  /\ order \in Seq(Entries)
                  /\ Gets("volumes", <<>>, work.max, nils \o order)
<1>1. PICK P \in Placeholders(vHash, NoVolumeId, Share), k \in 0..MaxPlaceholders :
        \E order \in InAnyOrder({VolumeEntry(x) : x \in Cached(vHash, NoVolumeId) \cup P}) :
          Gets("volumes", <<>>, work.max, Nils(Cardinality(Cached(sHash, NoSnapshotId)) + k) \o order)
  BY DEF VolumesListed
<1>2. P \in SUBSET OnlyUncached(vHash, NoVolumeId, Share)
  BY DEF Placeholders, OnlyUncached
<1>3. PICK m \in Nat : m = Cardinality(Cached(sHash, NoSnapshotId))
  BY CachedIs
<1>4. k \in Nat /\ m + k \in Nat /\ m <= m + k
  BY MaxAssumption
<1>5. PICK nils : nils = Nils(m + k)
  OBVIOUS
<1>6. /\ nils \in Seq(Entries) /\ Len(nils) = m + k /\ \A i \in 1..Len(nils) : nils[i] = NilEntry
  BY <1>4, <1>5, NilsAre
<1>7. PICK order \in SetToSeqs({VolumeEntry(x) : x \in Cached(vHash, NoVolumeId) \cup P}) :
        Gets("volumes", <<>>, work.max, nils \o order)
  BY <1>1, <1>3, <1>5 DEF InAnyOrder
<1>8. order \in Seq(Entries)
  <2>1. PICK C : C = Cached(vHash, NoVolumeId) \cup P
    OBVIOUS
  <2>2. C \subseteq Share /\ order \in SetToSeqs({VolumeEntry(x) : x \in C})
    BY <1>2, <1>7, <2>1, CachedIs DEF OnlyUncached
  <2>3. QED BY <2>2, VolumeEntriesFinite, OrderIsSeq
<1>9. QED BY <1>2, <1>3, <1>4, <1>6, <1>7, <1>8

\* What ListSnapshots replies.
LEMMA SnapshotsReply ==
    ASSUME CachesOK, SnapshotsListed
    PROVE  \E P \in SUBSET OnlyUncached(sHash, NoSnapshotId, AllSnapshotIds) :
             \E order \in SetToSeqs({SnapEntry(z) : z \in Cached(sHash, NoSnapshotId) \cup P}) :
               order \in Seq(Entries) /\ Gets("snapshots", <<>>, work.max, order)
<1>1. PICK P \in Placeholders(sHash, NoSnapshotId, AllSnapshotIds) :
        \E order \in InAnyOrder({SnapEntry(z) : z \in Cached(sHash, NoSnapshotId) \cup P}) :
          Gets("snapshots", <<>>, work.max, order)
  BY DEF SnapshotsListed
<1>2. P \in SUBSET OnlyUncached(sHash, NoSnapshotId, AllSnapshotIds)
  BY DEF Placeholders, OnlyUncached
<1>3. PICK order \in SetToSeqs({SnapEntry(z) : z \in Cached(sHash, NoSnapshotId) \cup P}) :
        Gets("snapshots", <<>>, work.max, order)
  BY <1>1 DEF InAnyOrder
<1>4. order \in Seq(Entries)
  <2>1. PICK C : C = Cached(sHash, NoSnapshotId) \cup P
    OBVIOUS
  <2>2. C \subseteq AllSnapshotIds /\ order \in SetToSeqs({SnapEntry(z) : z \in C})
    BY <1>2, <1>3, <2>1, CachedIs DEF OnlyUncached
  <2>3. QED BY <2>2, SnapEntriesFinite, OrderIsSeq
<1>5. QED BY <1>2, <1>3, <1>4

LEMMA VolumesListedKeeps ==
    ASSUME ListIInv, VolumesListed
    PROVE  ListIInv'
<1>1. /\ CachesOK /\ WorkOK /\ ClientOK /\ alive /\ work.kind = "volumes" /\ work' = NoWork
      /\ UNCHANGED <<shares, snaps, vHash, sHash, orphans, alive, lost>>
  BY DEF ListIInv, VolumesListed
<1>2. CASE work.failed
  BY <1>1, <1>2, ReplyKeeps, ClientStays DEF VolumesListed
<1>3. CASE ~work.failed
  <2>1. PICK P, nils \in Seq(Entries) : \E order \in Seq(Entries) :
          Gets("volumes", <<>>, work.max, nils \o order)
    BY <1>1, <1>3, VolumesReply
  <2>2. PICK order \in Seq(Entries) : Gets("volumes", <<>>, work.max, nils \o order)
    BY <2>1
  <2>3. PICK list, max : list = nils \o order /\ max = work.max
    OBVIOUS
  <2>4. /\ list \in Seq(Entries) /\ max \in Nat
        /\ Asks("volumes", <<>>, max) /\ Gets("volumes", <<>>, max, list)
    BY <1>1, <2>2, <2>3, ConcatProperties, WorkAsks
  <2>5. ClientOK'
    BY <1>1, <2>4, GetsKeeps
  <2>6. QED BY <1>1, <2>5, ReplyKeeps
<1>4. QED BY <1>2, <1>3

LEMMA SnapshotsListedKeeps ==
    ASSUME ListIInv, SnapshotsListed
    PROVE  ListIInv'
<1>1. /\ CachesOK /\ WorkOK /\ ClientOK /\ alive /\ work.kind = "snapshots" /\ work' = NoWork
      /\ UNCHANGED <<shares, snaps, vHash, sHash, orphans, alive, lost>>
  BY DEF ListIInv, SnapshotsListed
<1>2. PICK list \in Seq(Entries) : Gets("snapshots", <<>>, work.max, list)
  BY <1>1, SnapshotsReply
<1>3. PICK max : max = work.max
  OBVIOUS
<1>4. max \in Nat /\ Asks("snapshots", <<>>, max) /\ Gets("snapshots", <<>>, max, list)
  BY <1>1, <1>2, <1>3, WorkAsks
<1>5. ClientOK'
  BY <1>1, <1>4, GetsKeeps
<1>6. QED BY <1>1, <1>5, ReplyKeeps

\* The hrefs of the list of all snapshots are read as those.
LEMMA ListedSnapshots ==
    ASSUME CachesOK
    PROVE  {SnapshotIdFromHref(h) : h \in AllHrefs} \ {NoSnapshotId} = ThereSnapshots
<1> DEFINE listed == {SnapshotIdFromHref(h) : h \in AllHrefs} \ {NoSnapshotId}
<1>1. ASSUME NEW z \in listed PROVE z \in ThereSnapshots
  <2>1. PICK h \in AllHrefs : z = SnapshotIdFromHref(h) /\ z # NoSnapshotId
    OBVIOUS
  <2>2. h \notin OtherHref
    BY <2>1, OtherHrefAssumption DEF SnapshotIdFromHref
  <2>3. PICK x \in shares : h \in Range(HrefsOf(x))
    <3>1. h \in UNION {Range(HrefsOf(x)) : x \in shares}
      BY <2>1, <2>2 DEF AllHrefs
    <3>2. PICK S \in {Range(HrefsOf(x)) : x \in shares} : h \in S
      BY <3>1
    <3>3. QED BY <3>2
  <2>4. PICK i \in DOMAIN snaps[x] : h = SnapshotHref(SnapshotId(x, snaps[x][i]))
    BY <2>3 DEF HrefsOf, Range
  <2>5. x \in Share /\ snaps[x] \in Seq(SnapName) /\ snaps[x][i] \in SnapName
    BY <2>4, LenProperties, ElementOfSeq DEF CachesOK
  <2>6. z = SnapshotId(x, snaps[x][i])
    BY <2>1, <2>4, <2>5, ListingsAgree
  <2>7. HasSnap(x, snaps[x][i])
    BY <2>4 DEF HasSnap, Range
  <2>8. QED BY <2>5, <2>6, <2>7, ThereIs
<1>2. ASSUME NEW z \in ThereSnapshots PROVE z \in listed
  <2>1. PICK x \in Share, n \in SnapName : z = SnapshotId(x, n)
    BY DEF ThereSnapshots, AllSnapshotIds
  <2>2. x \in shares /\ n \in Range(snaps[x])
    BY <2>1 DEF ThereSnapshots, HasSnap, SnapshotId
  <2>3. PICK i \in DOMAIN snaps[x] : snaps[x][i] = n
    BY <2>2 DEF Range
  <2> DEFINE h == SnapshotHref(SnapshotId(x, n))
  <2>4. h \in Range(HrefsOf(x))
    BY <2>3 DEF HrefsOf, Range
  <2>5. h \in AllHrefs
    BY <2>2, <2>4 DEF AllHrefs
  <2>6. SnapshotIdFromHref(h) = z /\ z # NoSnapshotId
    BY <2>1, ListingsAgree, NoneAssumption
  <2> HIDE DEF h
  <2>7. QED BY <2>5, <2>6
<1>3. QED BY <1>1, <1>2

LEMMA ListSnapshotsKeeps ==
    ASSUME ListIInv, NEW max \in MaxEntries, NEW ok \in BOOLEAN, ListSnapshots(max, ok)
    PROVE  ListIInv'
<1>1. /\ CachesOK /\ ClientOK /\ max \in Nat /\ Asks("snapshots", <<>>, max) /\ work = NoWork
      /\ UNCHANGED <<shares, snaps, vHash, sHash, orphans, alive, lost>>
  BY MaxAssumption DEF ListIInv, ListSnapshots
<1>2. CASE ~ok
  <2>1. Gets("snapshots", <<>>, max, <<>>) /\ work' = NoWork /\ <<>> \in Seq(Entries)
    BY <1>1, <1>2, EmptySeq DEF ListSnapshots
  <2>2. ClientOK'
    BY <1>1, <2>1, GetsKeeps
  <2>3. QED BY <1>1, <2>1, <2>2, ReplyKeeps
<1>3. CASE ok
  <2>1. PICK listed : listed = {SnapshotIdFromHref(h) : h \in AllHrefs} \ {NoSnapshotId}
    OBVIOUS
  <2>2. listed = ThereSnapshots
    BY <1>1, <2>1, ListedSnapshots
  <2>3. /\ work' = [NoWork EXCEPT !.kind = "snapshots", !.max = max, !.todo = listed, !.owed = listed]
        /\ UNCHANGED client
    BY <1>3, <2>1 DEF ListSnapshots
  <2>4. listed \subseteq AllSnapshotIds /\ listed \subseteq There
    BY <2>2 DEF ThereSnapshots, There
  <2>5. /\ work'.kind = "snapshots" /\ work'.max = max /\ work'.unread = {}
        /\ work'.todo = listed /\ work'.owed = listed /\ work' \in Works
    BY <1>1, <2>3, <2>4 DEF NoWork, Works
  <2>6. client.next > 0 => client.kind = "snapshots" /\ client.of = <<>> /\ client.max = max
    BY <1>1 DEF Asks
  <2>7. WorkOK'
    BY <2>3, <2>4, <2>5, <2>6 DEF WorkOK
  <2>8. ClientOK'
    BY <1>1, <2>3, ClientStays
  <2>9. QED BY <1>1, <2>4, <2>5, <2>7, <2>8, WorkStep
<1>4. QED BY <1>2, <1>3

LEMMA EnterSnapshotKeeps ==
    ASSUME ListIInv, NEW z, EnterSnapshot(z)
    PROVE  ListIInv'
<1> DEFINE s == VolumeIdString(z.VolumeId)
<1>1. /\ CachesOK /\ KnownOK /\ OrphansOK /\ WorkOK /\ alive
      /\ work.kind = "snapshots" /\ z \in work.todo /\ work' = [work EXCEPT !.todo = @ \ {z}]
      /\ UNCHANGED <<shares, snaps, orphans, client, lost>>
  BY DEF ListIInv, EnterSnapshot
<1>2. /\ z \in AllSnapshotIds /\ z.VolumeId \in Share /\ z.Name \in SnapName /\ z # NoSnapshotId
      /\ z = SnapshotId(z.VolumeId, z.Name)
  BY <1>1, SnapshotIdParts DEF WorkOK
<1>3. WorkOK' /\ work'.todo = work.todo \ {z} /\ work'.owed = work.owed /\ work'.kind = "snapshots"
  BY <1>1, LessTodo
<1>4. \A m \in orphans : m \in SnapName /\ sHash[m] # NoSnapshotId /\ sHash[m] \in lost
  BY <1>1, OrphansAreLost
<1>5. CASE LookupVolume(s) = NoVolumeId
  <2>1. UNCHANGED <<vHash, sHash, alive>>
    BY <1>5 DEF EnterSnapshot
  <2>2. z \notin work.owed
    <3>1. ASSUME z \in work.owed PROVE FALSE
      <4>1. z \notin shares
        BY <1>1, <1>2, Apart DEF CachesOK
      <4>2. z.VolumeId \in shares
        BY <1>1, <3>1, <4>1 DEF KnownOK, There, ThereSnapshots, HasSnap
      <4>3. LookupVolume(s) = z.VolumeId
        BY <1>1, <4>2, LookupOwn
      <4>4. QED BY <1>2, <1>5, <4>3, Apart
    <3>2. QED BY <3>1
  <2>3. work'.todo \subseteq There \cup lost /\ work'.owed \subseteq There
    BY <1>1, <1>3 DEF KnownOK, Held
  <2>4. ASSUME NEW y \in work'.owed \ work'.todo PROVE Done(y)'
    <3>1. Done(y)
      BY <1>1, <1>3, <2>2 DEF KnownOK
    <3>2. QED BY <1>1, <1>3, <2>1, <3>1 DEF Done
  <2>5. QED BY <1>1, <1>3, <2>1, <2>3, <2>4, WorkStep, ClientStays DEF ListIInv
<1>6. CASE LookupVolume(s) # NoVolumeId
  <2>1. PICK x : x = LookupVolume(s)
    OBVIOUS
  <2>2. x = z.VolumeId
    BY <1>1, <1>2, <1>6, <2>1, LookupOfIds DEF IdsOf
  <2>3. vHash' = Entered(vHash, x, NoVolumeId) /\ sHash' = Entered(sHash, z, NoSnapshotId)
    BY <1>2, <1>6, <2>1, <2>2 DEF EnterSnapshot
  <2>4. PICK t : t = s
    OBVIOUS
  <2>5. /\ Filed(vHash', ShareName, Share, NoVolumeId)
        /\ Cached(vHash', NoVolumeId) \subseteq There \cup lost
    BY <1>1, <1>6, <2>1, <2>3, <2>4, UseKeeps
  <2>6. PICK new : new = sHash'
    OBVIOUS
  <2>7. /\ Filed(new, SnapName, AllSnapshotIds, NoSnapshotId)
        /\ Cached(new, NoSnapshotId) \subseteq Cached(sHash, NoSnapshotId) \cup {z}
        /\ \A k \in SnapName : sHash[k] # NoSnapshotId => new[k] # NoSnapshotId
        /\ \A k \in SnapName : new[k] = sHash[k] \/ (sHash[k] = NoSnapshotId /\ k = z.Name /\ new[k] = z)
        /\ new[z.Name] # NoSnapshotId
    <3>1. new = Entered(sHash, z, NoSnapshotId) /\ Filed(sHash, SnapName, AllSnapshotIds, NoSnapshotId)
      BY <1>1, <2>3, <2>6 DEF CachesOK
    <3>2. QED BY <1>2, <3>1, EnteredFiled
  <2>8. Held' \subseteq There' \cup lost'
    <3>1. Held \subseteq There \cup lost /\ There' = There
      BY <1>1, ThereStays DEF KnownOK
    <3>2. Held' \subseteq Cached(vHash', NoVolumeId) \cup Held
      BY <1>1, <1>3, <2>6, <2>7 DEF Held
    <3>3. QED BY <1>1, <2>5, <3>1, <3>2
  <2>9. ASSUME NEW y \in work'.owed \ work'.todo PROVE Done(y)'
    <3>1. y \in AllSnapshotIds /\ y.Name \in SnapName
      BY <1>1, <1>3, SnapshotIdParts DEF WorkOK
    <3>2. CASE y = z
      BY <1>3, <2>6, <2>7, <3>2 DEF Done
    <3>3. CASE y # z
      <4>1. Done(y)
        BY <1>1, <1>3, <3>3 DEF KnownOK
      <4>2. QED BY <1>1, <1>3, <2>6, <2>7, <3>1, <4>1 DEF Done
    <3>4. QED BY <3>2, <3>3
  <2>10. KnownOK'
    BY <1>1, <1>3, <2>8, <2>9, ThereStays DEF KnownOK
  <2>11. CachesOK'
    BY <1>1, <2>5, <2>6, <2>7 DEF CachesOK
  <2>12. OrphansOK'
    BY <1>1, <1>4, <2>6, <2>7 DEF OrphansOK
  <2>13. QED BY <1>1, <1>3, <2>10, <2>11, <2>12, ClientStays DEF ListIInv
<1>7. QED BY <1>5, <1>6

\* What ListSnapshots of a volume replies.
SourceList(x) ==
    [i \in DOMAIN HrefsOf(x) |->
       [id |-> SnapshotIdStringFromHref(HrefsOf(x)[i]), source |-> VolumeIdStringFromHref(HrefsOf(x)[i])]]

LEMMA SourceListIs ==
    ASSUME CachesOK, NEW x \in Share
    PROVE  /\ SourceList(x) \in Seq(Entries)
           /\ DOMAIN SourceList(x) = DOMAIN snaps[x]
           /\ \A i \in DOMAIN snaps[x] :
                snaps[x][i] \in SnapName /\ SourceList(x)[i] = SnapEntry(SnapshotId(x, snaps[x][i]))
<1> DEFINE all == SourceList(x)
<1>1. snaps[x] \in Seq(SnapName) /\ Len(snaps[x]) \in Nat /\ DOMAIN snaps[x] = 1..Len(snaps[x])
  BY LenProperties DEF CachesOK
<1>2. DOMAIN all = 1..Len(snaps[x])
  BY <1>1 DEF HrefsOf, SourceList
<1>3. ASSUME NEW i \in 1..Len(snaps[x])
      PROVE  snaps[x][i] \in SnapName /\ all[i] = SnapEntry(SnapshotId(x, snaps[x][i]))
  <2>1. PICK n \in SnapName : n = snaps[x][i]
    BY <1>1, ElementOfSeq
  <2>2. i \in DOMAIN HrefsOf(x) /\ HrefsOf(x)[i] = SnapshotHref(SnapshotId(x, n))
    BY <1>1, <2>1 DEF HrefsOf
  <2>3. all[i] = [id |-> SnapshotIdString(SnapshotId(x, n)), source |-> VolumeIdString(x)]
    BY <2>2, ListingsAgree DEF SourceList
  <2>4. QED BY <2>1, <2>3 DEF SnapEntry, SnapshotId
<1>4. all = [i \in 1..Len(snaps[x]) |-> all[i]]
  <2>1. all = [i \in DOMAIN all |-> all[i]]
    BY DEF SourceList
  <2> HIDE DEF all
  <2>2. QED BY <1>2, <2>1
<1> HIDE DEF all
<1>5. \A i \in 1..Len(snaps[x]) : all[i] \in Entries
  BY <1>3 DEF Entries
<1>6. all \in [1..Len(snaps[x]) -> Entries]
  BY <1>4, <1>5
<1>7. all \in Seq(Entries)
  BY <1>1, <1>6, SeqDef
<1>8. QED BY <1>1, <1>2, <1>3, <1>7 DEF all

LEMMA ListSnapshotsOfKeeps ==
    ASSUME ListIInv, NEW s, NEW max \in MaxEntries, NEW ok \in BOOLEAN, ListSnapshotsOf(s, max, ok)
    PROVE  ListIInv'
<1>1. /\ CachesOK /\ KnownOK /\ ClientOK /\ max \in Nat /\ <<>> \in Seq(Entries)
      /\ Asks("source", s, max) /\ work = NoWork
      /\ UNCHANGED <<shares, snaps, sHash, orphans, alive, work, lost>>
  BY MaxAssumption, EmptySeq DEF ListIInv, ListSnapshotsOf
<1>2. CASE LookupVolume(s) = NoVolumeId
  <2>1. Gets("source", s, max, <<>>) /\ UNCHANGED vHash
    BY <1>2 DEF ListSnapshotsOf
  <2>2. ClientOK'
    BY <1>1, <2>1, GetsKeeps
  <2>3. QED BY <1>1, <2>1, <2>2, ReplyKeeps
<1>3. CASE LookupVolume(s) # NoVolumeId
  <2>1. PICK x : x = LookupVolume(s)
    OBVIOUS
  <2>2. vHash' = Entered(vHash, x, NoVolumeId) /\ Gets("source", s, max, IF ok THEN SourceList(x) ELSE <<>>)
    BY <1>3, <2>1 DEF ListSnapshotsOf, SourceList
  <2>3. /\ x \in Share
        /\ Filed(vHash', ShareName, Share, NoVolumeId)
        /\ Cached(vHash', NoVolumeId) \subseteq There \cup lost
        /\ \A k \in ShareName : vHash[k] # NoVolumeId => vHash'[k] # NoVolumeId
    BY <1>1, <1>3, <2>1, <2>2, UseKeeps
  <2>4. PICK list : list = IF ok THEN SourceList(x) ELSE <<>>
    OBVIOUS
  <2>5. list \in Seq(Entries) /\ Gets("source", s, max, list)
    BY <1>1, <2>2, <2>3, <2>4, SourceListIs
  <2>6. ClientOK'
    BY <1>1, <2>5, GetsKeeps
  <2>7. CachesOK' /\ KnownOK' /\ OrphansOK'
    BY <1>1, <2>3, OnlyVolumesGrow
  <2>8. WorkOK'
    BY <1>1, NoWorkOK DEF WorkOK
  <2>9. QED BY <2>6, <2>7, <2>8 DEF ListIInv
<1>4. QED BY <1>2, <1>3

LEMMA ListSnapshotKeeps ==
    ASSUME ListIInv, NEW s, ListSnapshot(s)
    PROVE  ListIInv'
<1> DEFINE sid == SnapshotIdFromString(s)
<1>1. /\ CachesOK /\ KnownOK /\ OrphansOK /\ ClientOK /\ alive /\ 0 \in Nat /\ <<>> \in Seq(Entries)
      /\ Asks("id", s, 0) /\ work = NoWork
      /\ UNCHANGED <<shares, snaps, orphans, work, lost>>
  BY EmptySeq DEF ListIInv, ListSnapshot, Asks
<1>2. PICK x : /\ x = LookupVolume(VolumeIdString(sid.VolumeId)) /\ x # NoVolumeId
               /\ vHash' = Entered(vHash, x, NoVolumeId)
  BY DEF ListSnapshot
<1>3. /\ x \in Share
      /\ Filed(vHash', ShareName, Share, NoVolumeId)
      /\ Cached(vHash', NoVolumeId) \subseteq There \cup lost
      /\ \A k \in ShareName : vHash[k] # NoVolumeId => vHash'[k] # NoVolumeId
  <2>1. PICK t : t = VolumeIdString(sid.VolumeId)
    OBVIOUS
  <2>2. x = LookupVolume(t)
    BY <1>2, <2>1
  <2>3. QED BY <1>1, <1>2, <2>2, UseKeeps
<1>4. WorkOK'
  BY <1>1, NoWorkOK DEF WorkOK
<1>5. /\ Cached(sHash, NoSnapshotId) \subseteq There \cup lost /\ There' = There
      /\ Filed(sHash, SnapName, AllSnapshotIds, NoSnapshotId)
  BY <1>1, ThereStays DEF KnownOK, Held, CachesOK
<1>6. \A m \in orphans : m \in SnapName /\ sHash[m] # NoSnapshotId /\ sHash[m] \in lost
  BY <1>1, OrphansAreLost
<1>7. work'.todo = {} /\ work'.owed = {}
  BY <1>1, NoWorkOK
<1>8. ASSUME ClientOK', Filed(sHash', SnapName, AllSnapshotIds, NoSnapshotId),
             Cached(sHash', NoSnapshotId) \subseteq There \cup lost,
             \A m \in orphans : sHash'[m] = sHash[m]
      PROVE  ListIInv'
  <2>1. Held' \subseteq There' \cup lost'
    BY <1>1, <1>3, <1>5, <1>7, <1>8 DEF Held
  <2>2. KnownOK'
    BY <1>7, <2>1 DEF KnownOK
  <2>3. CachesOK' /\ OrphansOK'
    BY <1>1, <1>3, <1>6, <1>8 DEF CachesOK, OrphansOK
  <2>4. QED BY <1>4, <1>8, <2>2, <2>3 DEF ListIInv
<1>9. CASE LookupSnapshot(s) = NoSnapshotId
  <2>1. UNCHANGED sHash /\ (Gets("id", s, 0, <<>>) \/ UNCHANGED client)
    BY <1>9 DEF ListSnapshot
  <2>2. ClientOK'
    BY <1>1, <2>1, GetsKeeps, ClientStays
  <2>3. QED BY <1>5, <1>8, <2>1, <2>2
<1>10. CASE LookupSnapshot(s) # NoSnapshotId
  <2>1. PICK z, n : z = LookupSnapshot(s) /\ n = sid.Name
    OBVIOUS
  <2>2. z = SnapshotId(x, n) /\ n \in SnapName /\ n \notin orphans /\ z \in There \cup lost
    BY <1>1, <1>2, <1>10, <2>1, LookupSnapshotFinds
  <2>3. z \in AllSnapshotIds /\ z.Name = n /\ z # NoSnapshotId
    BY <1>3, <2>2, ThereIs
  <2>4. sHash' = Entered(sHash, z, NoSnapshotId) /\ Gets("id", s, 0, <<SnapEntry(z)>>)
    BY <1>10, <2>1 DEF ListSnapshot
  <2>5. <<SnapEntry(z)>> \in Seq(Entries)
    <3>1. SnapEntry(z) \in Entries
      BY <1>3, <2>2 DEF Entries
    <3>2. QED BY <3>1
  <2>6. ClientOK'
    BY <1>1, <2>4, <2>5, GetsKeeps
  <2>7. PICK new : new = sHash'
    OBVIOUS
  <2>8. /\ Filed(new, SnapName, AllSnapshotIds, NoSnapshotId)
        /\ Cached(new, NoSnapshotId) \subseteq Cached(sHash, NoSnapshotId) \cup {z}
        /\ \A k \in SnapName : new[k] = sHash[k] \/ (sHash[k] = NoSnapshotId /\ k = z.Name /\ new[k] = z)
    BY <1>5, <2>2, <2>3, <2>4, <2>7, EnteredFiled
  <2>9. QED BY <1>5, <1>6, <1>8, <2>2, <2>6, <2>7, <2>8
<1>11. QED BY <1>9, <1>10

-----------------------------------------------------------------------------
LEMMA StepIInv == ListIInv /\ [Next]_vars => ListIInv'
<1> SUFFICES ASSUME ListIInv, [Next]_vars PROVE ListIInv'
  OBVIOUS
<1>1. ASSUME Elsewhere PROVE ListIInv'
  BY <1>1, AppearKeeps, VanishShareKeeps, VanishSnapshotKeeps DEF Elsewhere
<1>2. ASSUME Changes PROVE ListIInv'
  BY <1>2, UseVolumeKeeps, DeleteVolumeKeeps, CreateSnapshotKeeps, DeleteSnapshotKeeps DEF Changes
<1>3. ASSUME Lists PROVE ListIInv'
  <2>1. ASSUME NEW x, EnterVolume(x) \/ EnterSnapshot(x) \/ SkipBusy(x) PROVE ListIInv'
    BY <2>1, EnterVolumeKeeps, EnterSnapshotKeeps, SkipBusyKeeps
  <2>2. ASSUME NEW s, ListSnapshot(s) PROVE ListIInv'
    BY <2>2, ListSnapshotKeeps
  <2>3. ASSUME NEW type, NEW ok \in BOOLEAN, ReadVolumes(type, ok) PROVE ListIInv'
    BY <2>3, ReadVolumesKeeps
  <2>4. QED BY <1>3, <2>1, <2>2, <2>3, ListVolumesKeeps, ListSnapshotsKeeps, ListSnapshotsOfKeeps,
               VolumesListedKeeps, SnapshotsListedKeeps DEF Lists
<1>4. ASSUME Restart PROVE ListIInv'
  BY <1>4, RestartKeeps
<1>5. CASE UNCHANGED vars
  <2>1. There' = There /\ Held' = Held /\ \A z : Done(z) => Done(z)'
    BY <1>5, ThereStays DEF vars, Held, Done
  <2>2. KnownOK'
    BY <1>5, <2>1 DEF ListIInv, KnownOK, vars
  <2>3. CachesOK' /\ OrphansOK' /\ WorkOK' /\ ClientOK'
    BY <1>5, ClientStays DEF ListIInv, CachesOK, OrphansOK, WorkOK, vars
  <2>4. QED BY <2>2, <2>3 DEF ListIInv
<1>6. QED BY <1>1, <1>2, <1>3, <1>4, <1>5 DEF Next

\* Whatever is entered, deleted or lost between two pages, and in whatever
\* order, a client whose pages were cut from one list has the beginning of
\* that list, and when it is done the list (controller.go:374-388, 622-636).
THEOREM PagesAlwaysTile == Spec => []PagesTile
<1>1. ListIInv => PagesTile
  BY DEF ListIInv, ClientOK
<1>2. QED BY InitIInv, StepIInv, <1>1, PTL DEF Spec

\* Every ID that was listed leads, for as long as the share or the snapshot
\* is there, to what it was listed for, also after removals the driver did
\* not see, except for the names of snapshots that were removed so
\* (volumes.go:163-212, 299-362).
THEOREM ListedAlwaysFound == Spec => []ListedIsFound
<1>1. ASSUME ListIInv PROVE ListedIsFound
  <2> SUFFICES ASSUME NEW e \in Range(client.got), e # NilEntry
               PROVE  \/ \E x \in Share :
                           /\ e.id = VolumeIdStringFromHref(VolumeHref(x))
                           /\ x \in shares => LookupVolume(e.id) = x
                      \/ \E x \in Share, n \in SnapName :
                           /\ e.id = SnapshotIdStringFromHref(SnapshotHref(SnapshotId(x, n)))
                           /\ e.source = VolumeIdStringFromHref(VolumeHref(x))
                           /\ Distinct /\ HasSnap(x, n) /\ (\A y \in Share : SnapshotId(y, n) \notin lost) =>
                                /\ LookupVolume(e.source) = x
                                /\ LookupSnapshot(e.id) = SnapshotId(x, n)
    BY DEF ListedIsFound
  <2>1. CachesOK /\ KnownOK /\ OrphansOK /\ e \in Entries
    <3>1. client.got \in Seq(Entries)
      BY <1>1 DEF ListIInv, ClientOK
    <3>2. PICK i \in 1..Len(client.got) : e = client.got[i]
      BY <3>1, LenProperties DEF Range
    <3>3. e \in Entries
      BY <3>1, <3>2, ElementOfSeq
    <3>4. QED BY <1>1, <3>3 DEF ListIInv
  <2>2. CASE \E x \in Share : e = VolumeEntry(x)
    <3>1. PICK x \in Share : e = VolumeEntry(x)
      BY <2>2
    <3>2. e.id = VolumeIdString(x)
      BY <3>1 DEF VolumeEntry
    <3>3. e.id = VolumeIdStringFromHref(VolumeHref(x))
      BY <3>2, ListingsAgree
    <3>4. QED BY <2>1, <3>2, <3>3, LookupOwn
  <2>3. CASE \E x \in Share, n \in SnapName : e = SnapEntry(SnapshotId(x, n))
    <3>1. PICK x \in Share, n \in SnapName : e = SnapEntry(SnapshotId(x, n))
      BY <2>3
    <3>2. e.id = SnapshotIdString(SnapshotId(x, n)) /\ e.source = VolumeIdString(x)
      BY <3>1 DEF SnapEntry, SnapshotId
    <3>3. /\ e.id = SnapshotIdStringFromHref(SnapshotHref(SnapshotId(x, n)))
          /\ e.source = VolumeIdStringFromHref(VolumeHref(x))
      BY <3>2, ListingsAgree
    <3>4. ASSUME Distinct, HasSnap(x, n), \A y \in Share : SnapshotId(y, n) \notin lost
          PROVE  LookupVolume(e.source) = x /\ LookupSnapshot(e.id) = SnapshotId(x, n)
      BY <2>1, <3>2, <3>4, LookupOwn, LookupOwnSnapshot DEF HasSnap
    <3>5. QED BY <3>3, <3>4
  <2>4. QED BY <2>1, <2>2, <2>3 DEF Entries
<1>2. QED BY InitIInv, StepIInv, <1>1, PTL DEF Spec

-----------------------------------------------------------------------------
(* Lists asked for without a limit.                                        *)

\* What exact lists need besides: no share has two snapshots of a name, and
\* without a limit there is no token.
SnapsDiffer == \A x \in Share : IsInjective(snaps[x])
NoTokenUnlimited == client.max = 0 => client.next = 0

ExactIInv == ListIInv /\ SnapsDiffer /\ NoTokenUnlimited

\* A snapshot is made under a name the share has no snapshot of.
LEMMA AppendDiffers ==
    ASSUME CachesOK, SnapsDiffer, NEW x \in shares, NEW n, ~HasSnap(x, n), n \in SnapName,
           snaps' = [snaps EXCEPT ![x] = Append(@, n)]
    PROVE  SnapsDiffer'
<1> DEFINE old == snaps[x]
           new == Append(old, n)
<1>1. x \in Share /\ snaps \in [Share -> Seq(SnapName)] /\ old \in Seq(SnapName)
  BY DEF CachesOK
<1>2. snaps' = [snaps EXCEPT ![x] = new]
  BY <1>1
<1>3. /\ Len(new) = Len(old) + 1 /\ Len(old) \in Nat /\ new \in Seq(SnapName)
      /\ \A i \in 1..Len(old) : new[i] = old[i]
      /\ new[Len(old) + 1] = n
  BY <1>1, AppendProperties, LenProperties
<1>4. DOMAIN new = 1..(Len(old) + 1) /\ DOMAIN old = 1..Len(old)
  BY <1>1, <1>3, LenProperties
<1>5. \A i \in 1..Len(old) : old[i] # n
  BY <1>4 DEF HasSnap, Range
<1>6. \A i, j \in DOMAIN old : old[i] = old[j] => i = j
  BY <1>1 DEF SnapsDiffer, IsInjective
<1> HIDE DEF old, new
<1>7. \A i, j \in DOMAIN new : new[i] = new[j] => i = j
  BY <1>3, <1>4, <1>5, <1>6
<1>8. \A y \in Share : snaps'[y] = IF y = x THEN new ELSE snaps[y]
  BY <1>1, <1>2
<1>9. IsInjective(new)
  BY <1>7 DEF IsInjective
<1>10. ASSUME NEW y \in Share PROVE IsInjective(snaps'[y])
  BY <1>8, <1>9 DEF SnapsDiffer
<1>11. QED BY <1>10 DEF SnapsDiffer

LEMMA WithoutDiffers ==
    ASSUME CachesOK, SnapsDiffer, NEW x \in Share, NEW n, HasSnap(x, n),
           snaps' = [snaps EXCEPT ![x] = Without(@, n)]
    PROVE  SnapsDiffer'
BY LessSeqKeeps DEF SnapsDiffer, HasSnap

LEMMA StepDiffers ==
    ASSUME ListIInv, SnapsDiffer, Next
    PROVE  SnapsDiffer'
<1>1. CachesOK /\ KnownOK
  BY DEF ListIInv
<1>2. ASSUME UNCHANGED snaps PROVE SnapsDiffer'
  BY <1>2 DEF SnapsDiffer
<1>3. ASSUME NEW x \in Share, VanishShare(x) PROVE SnapsDiffer'
  <2>1. snaps' = [snaps EXCEPT ![x] = <<>>] /\ IsInjective(<<>>)
    BY <1>3 DEF VanishShare, IsInjective
  <2>2. \A y \in Share : snaps'[y] = IF y = x THEN <<>> ELSE snaps[y]
    BY <1>1, <2>1 DEF CachesOK
  <2>3. QED BY <2>1, <2>2 DEF SnapsDiffer
<1>4. ASSUME NEW x \in Share, NEW n \in SnapName, VanishSnapshot(x, n) PROVE SnapsDiffer'
  BY <1>1, <1>4, WithoutDiffers DEF VanishSnapshot
<1>5. ASSUME NEW s, NEW n \in SnapName, NEW answered \in BOOLEAN, CreateSnapshot(s, n, answered)
      PROVE  SnapsDiffer'
  <2>1. PICK x : x = LookupVolume(s)
    OBVIOUS
  <2>2. \/ UNCHANGED snaps
        \/ x \in shares /\ ~HasSnap(x, n) /\ snaps' = [snaps EXCEPT ![x] = Append(@, n)]
    BY <1>5, <2>1 DEF CreateSnapshot
  <2>3. QED BY <1>1, <1>2, <2>2, AppendDiffers
<1>6. ASSUME NEW s, NEW answered \in BOOLEAN, DeleteSnapshot(s, answered) PROVE SnapsDiffer'
  <2>1. PICK x, z : /\ x = LookupVolume(VolumeIdString(SnapshotIdFromString(s).VolumeId))
                    /\ z = LookupSnapshot(s)
    OBVIOUS
  <2>2. x # NoVolumeId
    BY <1>6, <2>1 DEF DeleteSnapshot
  <2>3. PICK t : t = VolumeIdString(SnapshotIdFromString(s).VolumeId)
    OBVIOUS
  <2>4. x \in Share
    BY <1>1, <2>1, <2>2, <2>3, LookupFinds
  <2>5. PICK n : n = z.Name
    OBVIOUS
  <2>6. \/ UNCHANGED snaps
        \/ HasSnap(x, n) /\ snaps' = [snaps EXCEPT ![x] = Without(@, n)]
    BY <1>6, <2>1, <2>5 DEF DeleteSnapshot
  <2>7. QED BY <1>1, <1>2, <2>4, <2>6, WithoutDiffers
<1>7. ASSUME Changes PROVE SnapsDiffer'
  <2>1. ASSUME NEW s, NEW answered, UseVolume(s) \/ DeleteVolume(s, answered) PROVE SnapsDiffer'
    BY <1>2, <2>1 DEF UseVolume, DeleteVolume
  <2>2. QED BY <1>5, <1>6, <1>7, <2>1 DEF Changes
<1>8. ASSUME Elsewhere PROVE SnapsDiffer'
  <2>1. ASSUME NEW x, Appear(x) PROVE SnapsDiffer'
    BY <1>2, <2>1 DEF Appear
  <2>2. QED BY <1>3, <1>4, <1>8, <2>1 DEF Elsewhere
<1>9. ASSUME Lists PROVE UNCHANGED snaps
  BY <1>9 DEF Lists, ListVolumes, ListSnapshots, ListSnapshotsOf, ReadVolumes, EnterVolume,
              EnterSnapshot, SkipBusy, VolumesListed, SnapshotsListed, ListSnapshot
<1>10. ASSUME Restart PROVE UNCHANGED snaps
  BY <1>10 DEF Restart
<1>11. QED BY <1>2, <1>7, <1>8, <1>9, <1>10 DEF Next

\* A reply to a request without a limit comes without a token.
LEMMA NoTokenStays ==
    ASSUME NoTokenUnlimited, Next
    PROVE  NoTokenUnlimited'
<1>1. ASSUME NEW kind, NEW of, NEW max, NEW list, Gets(kind, of, max, list)
      PROVE  NoTokenUnlimited'
  BY <1>1 DEF Gets, NoTokenUnlimited, NextToken
<1>2. ASSUME UNCHANGED client PROVE NoTokenUnlimited'
  BY <1>2 DEF NoTokenUnlimited
<1>3. ASSUME Elsewhere \/ Changes \/ Restart PROVE UNCHANGED client
  <2>1. Elsewhere => UNCHANGED client
    BY DEF Elsewhere, Appear, VanishShare, VanishSnapshot
  <2>2. ASSUME NEW s, NEW n, NEW answered,
               \/ UseVolume(s) \/ DeleteVolume(s, answered)
               \/ CreateSnapshot(s, n, answered) \/ DeleteSnapshot(s, answered)
        PROVE  UNCHANGED client
    BY <2>2 DEF UseVolume, DeleteVolume, CreateSnapshot, DeleteSnapshot
  <2>3. Changes => UNCHANGED client
    BY <2>2 DEF Changes
  <2>4. QED BY <1>3, <2>1, <2>3 DEF Restart
<1>4. ASSUME Lists PROVE NoTokenUnlimited'
  <2>1. ASSUME NEW max, NEW ok, NEW s,
               \/ ListVolumes(max) \/ ListSnapshots(max, ok) \/ ListSnapshotsOf(s, max, ok)
               \/ ListSnapshot(s)
        PROVE  NoTokenUnlimited'
    <3>1. ListVolumes(max) => NoTokenUnlimited'
      BY <1>2 DEF ListVolumes
    <3>2. ListSnapshots(max, ok) => NoTokenUnlimited'
      BY <1>1, <1>2 DEF ListSnapshots
    <3>3. ListSnapshotsOf(s, max, ok) => NoTokenUnlimited'
      BY <1>1 DEF ListSnapshotsOf
    <3>4. ListSnapshot(s) => NoTokenUnlimited'
      BY <1>1, <1>2 DEF ListSnapshot
    <3>5. QED BY <2>1, <3>1, <3>2, <3>3, <3>4
  <2>2. ASSUME NEW x, NEW ok, EnterVolume(x) \/ EnterSnapshot(x) \/ SkipBusy(x) \/ ReadVolumes(x, ok)
        PROVE  NoTokenUnlimited'
    BY <1>2, <2>2 DEF EnterVolume, EnterSnapshot, SkipBusy, ReadVolumes
  <2>3. VolumesListed => NoTokenUnlimited'
    BY <1>1, <1>2 DEF VolumesListed
  <2>4. SnapshotsListed => NoTokenUnlimited'
    BY <1>1 DEF SnapshotsListed
  <2>5. QED BY <1>4, <2>1, <2>2, <2>3, <2>4 DEF Lists
<1>5. QED BY <1>2, <1>3, <1>4 DEF Next

\* A cache in any order has each of its entries at one place.
LEMMA OrderIsExact ==
    ASSUME NEW S, IsFiniteSet(S), NEW order \in SetToSeqs(S)
    PROVE  /\ Cardinality(S) \in Nat /\ DOMAIN order = 1..Cardinality(S)
           /\ Len(order) = Cardinality(S)
           /\ \A i \in 1..Cardinality(S) : order[i] \in S
           /\ \A i, j \in 1..Cardinality(S) : order[i] = order[j] => i = j
           /\ \A e \in S : \E i \in 1..Cardinality(S) : order[i] = e
<1> DEFINE n == Cardinality(S)
<1>1. n \in Nat
  BY FS_CardinalityType
<1>2. order \in [1..n -> S] /\ \A i, j \in 1..n : i # j => order[i] # order[j]
  BY DEF SetToSeqs
<1> HIDE DEF n
<1>3. order \in Injection(1..n, S)
  BY <1>2 DEF Injection, IsInjective
<1>4. IsFiniteSet(1..n) /\ Cardinality(1..n) = n
  <2>1. 1 \in Int /\ n \in Int
    BY <1>1
  <2>2. Cardinality(1..n) = IF 1 > n THEN 0 ELSE n - 1 + 1
    BY <2>1, FS_Interval
  <2>3. QED BY <1>1, <2>1, <2>2, FS_Interval
<1>5. order \in Surjection(1..n, S)
  BY <1>3, <1>4, FS_Injection DEF n
<1>6. order \in Seq(S) /\ Len(order) = n
  BY <1>1, <1>2, SeqDef, LenProperties
<1>7. QED BY <1>1, <1>2, <1>5, <1>6 DEF Surjection, n

\* Without a limit, the first page is the list.
LEMMA WholeList ==
    ASSUME ClientOK, NoTokenUnlimited, NEW kind, NEW of, NEW list \in Seq(Entries),
           Asks(kind, of, 0), Gets(kind, of, 0, list)
    PROVE  client'.kind = kind /\ client'.of = of /\ client'.got = list
<1>1. client.next = 0
  <2>1. client.next \in Nat /\ (client.next > 0 => client.max = 0)
    BY DEF ClientOK, Asks
  <2>2. QED BY <2>1 DEF NoTokenUnlimited
<1>2. Page(list, 0, 0) = SubSeq(list, 1, Len(list))
  <2>1. 0 + 1 = 1
    OBVIOUS
  <2>2. QED BY <2>1 DEF Page
<1>3. client'.got = <<>> \o Page(list, 0, 0)
  BY <1>1 DEF Gets
<1>4. SubSeq(list, 1, Len(list)) = list
  BY SubSeqFull
<1>5. <<>> \o list = list
  BY ConcatEmptySeq
<1>6. QED BY <1>2, <1>3, <1>4, <1>5 DEF Gets

\* The entries of a cache, in any order, after entries that are nil.
LEMMA OrderListed ==
    ASSUME NEW S, IsFiniteSet(S), S \subseteq Entries, NilEntry \notin S,
           \A e, f \in S : e.id = f.id => e = f,
           NEW order \in SetToSeqs(S),
           NEW nils \in Seq(Entries), \A i \in 1..Len(nils) : nils[i] = NilEntry,
           NEW got, got = nils \o order
    PROVE  /\ NamesOnce(got) /\ IdsListed(got) = {e.id : e \in S}
           /\ DOMAIN got \ Listed(got) = 1..Len(nils) /\ Len(nils) \in DOMAIN got \cup {0}
<1> DEFINE k == Len(nils)
           n == Cardinality(S)
<1>1. /\ n \in Nat /\ Len(order) = n
      /\ \A i \in 1..n : order[i] \in S
      /\ \A i, j \in 1..n : order[i] = order[j] => i = j
      /\ \A e \in S : \E i \in 1..n : order[i] = e
  BY OrderIsExact
<1>2. order \in Seq(Entries) /\ k \in Nat
  <2>1. order \in Seq(Entries)
    BY OrderIsSeq
  <2>2. QED BY <2>1, LenProperties
<1>3. /\ got \in Seq(Entries) /\ Len(got) = k + n
      /\ \A i \in 1..(k + n) : got[i] = IF i <= k THEN nils[i] ELSE order[i - k]
  <2>1. /\ got \in Seq(Entries) /\ Len(got) = Len(nils) + Len(order)
        /\ \A i \in 1..(Len(nils) + Len(order)) :
             got[i] = IF i <= Len(nils) THEN nils[i] ELSE order[i - Len(nils)]
    BY <1>2, ConcatProperties
  <2> HIDE DEF n
  <2>2. QED BY <1>1, <2>1
<1>4. \A i \in 1..k : nils[i] = NilEntry
  OBVIOUS
<1> HIDE DEF n, k
<1>5. DOMAIN got = 1..(k + n)
  BY <1>3, LenProperties
<1>6. ASSUME NEW i \in 1..(k + n), i <= k PROVE got[i] = NilEntry
  <2>1. i \in 1..k
    BY <1>2, <1>6
  <2>2. QED BY <1>3, <1>4, <1>6, <2>1
<1>7. ASSUME NEW i \in 1..(k + n), ~(i <= k)
      PROVE  i - k \in 1..n /\ got[i] = order[i - k] /\ got[i] \in S
  <2>1. i - k \in 1..n /\ got[i] = order[i - k]
    BY <1>1, <1>2, <1>3, <1>7
  <2>2. QED BY <1>1, <2>1
<1>8. \A i \in 1..(k + n) : i \in Listed(got) <=> ~(i <= k)
  BY <1>5, <1>6, <1>7 DEF Listed
<1>9. ASSUME NEW i \in Listed(got), NEW j \in Listed(got), got[i].id = got[j].id PROVE i = j
  <2>1. i \in 1..(k + n) /\ j \in 1..(k + n) /\ ~(i <= k) /\ ~(j <= k)
    BY <1>5, <1>8 DEF Listed
  <2>2. /\ i - k \in 1..n /\ got[i] = order[i - k] /\ got[i] \in S
        /\ j - k \in 1..n /\ got[j] = order[j - k] /\ got[j] \in S
    BY <1>7, <2>1
  <2>3. got[i] = got[j]
    BY <1>9, <2>2
  <2>4. i - k = j - k
    BY <1>1, <2>2, <2>3
  <2>5. QED BY <1>2, <2>1, <2>4
<1>10. ASSUME NEW e \in S PROVE \E i \in Listed(got) : got[i] = e
  <2>1. PICK j \in 1..n : order[j] = e
    BY <1>1
  <2>2. j + k \in 1..(k + n) /\ ~(j + k <= k) /\ (j + k) - k = j
    BY <1>1, <1>2
  <2>3. got[j + k] = e
    BY <1>3, <2>1, <2>2
  <2>4. QED BY <1>8, <2>2, <2>3
<1>11. \A i \in Listed(got) : got[i] \in S
  BY <1>5, <1>7, <1>8 DEF Listed
<1>12. IdsListed(got) = {e.id : e \in S}
  <2>1. IdsListed(got) \subseteq {e.id : e \in S}
    BY <1>11 DEF IdsListed
  <2>2. ASSUME NEW e \in S PROVE e.id \in IdsListed(got)
    <3>1. PICK i \in Listed(got) : got[i] = e
      BY <1>10
    <3>2. QED BY <3>1 DEF IdsListed
  <2>3. QED BY <2>1, <2>2
<1>13. DOMAIN got \ Listed(got) = 1..k
  <2>1. \A i : i \in 1..k <=> i \in 1..(k + n) /\ i <= k
    BY <1>1, <1>2
  <2>2. QED BY <1>5, <1>8, <2>1
<1>14. k \in DOMAIN got \cup {0}
  <2>1. k = 0 \/ k \in 1..(k + n)
    BY <1>1, <1>2
  <2>2. QED BY <1>5, <2>1
<1>15. QED BY <1>9, <1>12, <1>13, <1>14 DEF NamesOnce, k

\* IDs of volumes, and of snapshots, are different strings, none is empty, and
\* the appliance's hrefs give the same.
LEMMA VolumeEntriesApart ==
    ASSUME NEW C, C \subseteq Share
    PROVE  LET S == {VolumeEntry(x) : x \in C}
           IN  /\ NilEntry \notin S
               /\ \A e, f \in S : e.id = f.id => e = f
               /\ {e.id : e \in S} = VolumeIdsOf(C)
<1> DEFINE S == {VolumeEntry(x) : x \in C}
<1>1. NilEntry \notin S
  <2> SUFFICES ASSUME NEW x \in C, VolumeEntry(x) = NilEntry PROVE FALSE
    OBVIOUS
  <2>1. Len(VolumeIdString(x)) = 6
    BY DEF VolumeIdString
  <2>2. VolumeIdString(x) = <<>>
    BY DEF VolumeEntry, NilEntry
  <2>3. QED BY <2>1, <2>2
<1>2. ASSUME NEW e \in S, NEW f \in S, e.id = f.id PROVE e = f
  <2>1. PICK x \in C, y \in C : e = VolumeEntry(x) /\ f = VolumeEntry(y)
    OBVIOUS
  <2>2. VolumeIdString(x) = VolumeIdString(y)
    BY <1>2, <2>1 DEF VolumeEntry
  <2>3. x = y
    BY <2>2, RoundTrip
  <2>4. QED BY <2>1, <2>3
<1>3. {e.id : e \in S} = VolumeIdsOf(C)
  <2>1. \A x \in C : VolumeEntry(x).id = VolumeIdStringFromHref(VolumeHref(x))
    BY ListingsAgree DEF VolumeEntry
  <2>2. QED BY <2>1 DEF VolumeIdsOf
<1>4. QED BY <1>1, <1>2, <1>3

LEMMA SnapEntriesApart ==
    ASSUME NEW C, C \subseteq AllSnapshotIds
    PROVE  LET S == {SnapEntry(z) : z \in C}
           IN  /\ NilEntry \notin S
               /\ \A e, f \in S : e.id = f.id => e = f
               /\ {e.id : e \in S} = SnapshotIdsOf(C)
<1> DEFINE S == {SnapEntry(z) : z \in C}
<1>1. NilEntry \notin S
  <2> SUFFICES ASSUME NEW z \in C, SnapEntry(z) = NilEntry PROVE FALSE
    OBVIOUS
  <2>1. Len(SnapshotIdString(z)) = 7
    BY DEF SnapshotIdString
  <2>2. SnapshotIdString(z) = <<>>
    BY DEF SnapEntry, NilEntry
  <2>3. QED BY <2>1, <2>2
<1>2. ASSUME NEW e \in S, NEW f \in S, e.id = f.id PROVE e = f
  <2>1. PICK y \in C, z \in C : e = SnapEntry(y) /\ f = SnapEntry(z)
    OBVIOUS
  <2>2. SnapshotIdString(y) = SnapshotIdString(z)
    BY <1>2, <2>1 DEF SnapEntry
  <2>3. y = z
    BY <2>2, RoundTrip DEF AllSnapshotIds
  <2>4. QED BY <2>1, <2>3
<1>3. {e.id : e \in S} = SnapshotIdsOf(C)
  <2>1. ASSUME NEW z \in C PROVE SnapEntry(z).id = SnapshotIdStringFromHref(SnapshotHref(z))
    <3>1. PICK x \in Share, n \in SnapName : z = SnapshotId(x, n)
      BY SnapshotIdParts
    <3>2. SnapshotIdStringFromHref(SnapshotHref(z)) = SnapshotIdString(z)
      BY <3>1, ListingsAgree
    <3>3. QED BY <3>2 DEF SnapEntry
  <2>2. QED BY <2>1 DEF SnapshotIdsOf
<1>4. QED BY <1>1, <1>2, <1>3

LEMMA VolumesAreExact ==
    ASSUME ListIInv, NoTokenUnlimited
    PROVE  VolumesExact
<1> SUFFICES ASSUME VolumesListed, ~work.failed, work.max = 0,
                    NEW got, got = client'.got
             PROVE  /\ NamesOnce(got)
                    /\ VolumeIdsOf(work.owed) \subseteq IdsListed(got)
                    /\ IdsListed(got) \subseteq
                         VolumeIdsOf(shares \cup (lost \cap Share) \cup OnlyUncached(vHash, NoVolumeId, Share))
                    /\ \E k \in DOMAIN got \cup {0} :
                         /\ Cardinality(Cached(sHash, NoSnapshotId)) <= k
                         /\ DOMAIN got \ Listed(got) = 1..k
  BY DEF VolumesExact
<1>1. /\ CachesOK /\ KnownOK /\ WorkOK /\ ClientOK /\ alive
      /\ work.kind = "volumes" /\ work.todo = {}
  BY DEF ListIInv, VolumesListed
<1>2. PICK P \in SUBSET OnlyUncached(vHash, NoVolumeId, Share), nils \in Seq(Entries) :
        /\ Cardinality(Cached(sHash, NoSnapshotId)) <= Len(nils)
        /\ \A i \in 1..Len(nils) : nils[i] = NilEntry
        /\ \E order \in SetToSeqs({VolumeEntry(x) : x \in Cached(vHash, NoVolumeId) \cup P}) :
             order \in Seq(Entries) /\ Gets("volumes", <<>>, work.max, nils \o order)
  BY <1>1, VolumesReply
<1>3. PICK C : C = Cached(vHash, NoVolumeId) \cup P
  OBVIOUS
<1>4. C \subseteq Share
  BY <1>1, <1>2, <1>3, CachedIs DEF OnlyUncached
<1> DEFINE S == {VolumeEntry(x) : x \in C}
<1>5. PICK order \in SetToSeqs(S) :
        order \in Seq(Entries) /\ Gets("volumes", <<>>, work.max, nils \o order)
  BY <1>2, <1>3
<1>6. PICK list \in Seq(Entries) : list = nils \o order
  BY <1>5, ConcatProperties
<1>7. Asks("volumes", <<>>, 0) /\ Gets("volumes", <<>>, 0, list)
  BY <1>1, <1>5, <1>6, WorkAsks
<1>8. got = nils \o order
  BY <1>1, <1>6, <1>7, WholeList
<1>9. /\ IsFiniteSet(S) /\ S \subseteq Entries /\ NilEntry \notin S
      /\ \A e, f \in S : e.id = f.id => e = f
      /\ {e.id : e \in S} = VolumeIdsOf(C)
  BY <1>4, VolumeEntriesFinite, VolumeEntriesApart
<1> HIDE DEF S
<1>10. /\ NamesOnce(got) /\ IdsListed(got) = VolumeIdsOf(C)
       /\ DOMAIN got \ Listed(got) = 1..Len(nils) /\ Len(nils) \in DOMAIN got \cup {0}
  <2>1. \A i \in 1..Len(nils) : nils[i] = NilEntry
    BY <1>2
  <2>2. nils \in Seq(Entries) /\ order \in SetToSeqs(S)
    BY <1>2, <1>5
  <2>3. /\ NamesOnce(got) /\ IdsListed(got) = {e.id : e \in S}
        /\ DOMAIN got \ Listed(got) = 1..Len(nils) /\ Len(nils) \in DOMAIN got \cup {0}
    BY ONLY <1>8, <1>9, <2>1, <2>2, OrderListed
  <2>4. QED BY <1>9, <2>3
<1>11. work.owed \subseteq C
  <2>1. ASSUME NEW x \in work.owed PROVE x \in C
    <3>1. x \in Share /\ x.Name \in ShareName
      BY <1>1, Apart DEF WorkOK
    <3>2. vHash[x.Name] # NoVolumeId
      BY <1>1 DEF KnownOK, Done
    <3>3. vHash[x.Name] \in Share /\ vHash[x.Name].Name = x.Name
      BY <1>1, <3>1, <3>2 DEF CachesOK, Filed
    <3>4. vHash[x.Name] = x
      BY <3>1, <3>3, SharesAssumption
    <3>5. x \in Cached(vHash, NoVolumeId)
      BY <1>1, <3>1, <3>2, <3>4 DEF CachesOK, Filed, Cached, Range
    <3>6. QED BY <1>3, <3>5
  <2>2. QED BY <2>1
<1>12. C \subseteq shares \cup (lost \cap Share) \cup OnlyUncached(vHash, NoVolumeId, Share)
  <2>1. Cached(vHash, NoVolumeId) \subseteq There \cup lost
    BY <1>1 DEF KnownOK, Held
  <2>2. \A x \in C : x \notin ThereSnapshots
    BY <1>4, Apart DEF ThereSnapshots
  <2>3. QED BY <1>2, <1>3, <1>4, <2>1, <2>2 DEF There
<1>13. \A X, Y : X \subseteq Y => VolumeIdsOf(X) \subseteq VolumeIdsOf(Y)
  BY DEF VolumeIdsOf
<1>14. QED BY <1>2, <1>10, <1>11, <1>12, <1>13

LEMMA SnapshotsAreExact ==
    ASSUME ListIInv, NoTokenUnlimited
    PROVE  SnapshotsExact
<1> SUFFICES ASSUME SnapshotsListed, work.max = 0, NEW got, got = client'.got
             PROVE  /\ Listed(got) = DOMAIN got
                    /\ NamesOnce(got)
                    /\ \A z \in work.owed : SnapshotIdsOf(Named(z.Name)) \cap IdsListed(got) # {}
                    /\ IdsListed(got) \subseteq
                         SnapshotIdsOf((UNION {SnapshotsOf(x) : x \in shares}) \cup (lost \cap AllSnapshotIds)
                                       \cup OnlyUncached(sHash, NoSnapshotId, AllSnapshotIds))
  BY DEF SnapshotsExact
<1>1. /\ CachesOK /\ KnownOK /\ WorkOK /\ ClientOK /\ alive
      /\ work.kind = "snapshots" /\ work.todo = {}
  BY DEF ListIInv, SnapshotsListed
<1>2. PICK P \in SUBSET OnlyUncached(sHash, NoSnapshotId, AllSnapshotIds) :
        \E order \in SetToSeqs({SnapEntry(z) : z \in Cached(sHash, NoSnapshotId) \cup P}) :
          order \in Seq(Entries) /\ Gets("snapshots", <<>>, work.max, order)
  BY <1>1, SnapshotsReply
<1>3. PICK C : C = Cached(sHash, NoSnapshotId) \cup P
  OBVIOUS
<1>4. C \subseteq AllSnapshotIds
  BY <1>1, <1>2, <1>3, CachedIs DEF OnlyUncached
<1> DEFINE S == {SnapEntry(z) : z \in C}
<1>5. PICK order \in SetToSeqs(S) :
        order \in Seq(Entries) /\ Gets("snapshots", <<>>, work.max, order)
  BY <1>2, <1>3
<1>6. PICK list \in Seq(Entries) : list = order
  BY <1>5
<1>7. Asks("snapshots", <<>>, 0) /\ Gets("snapshots", <<>>, 0, list)
  BY <1>1, <1>5, <1>6, WorkAsks
<1>8. got = list
  BY <1>1, <1>7, WholeList
<1>9. /\ IsFiniteSet(S) /\ S \subseteq Entries /\ NilEntry \notin S
      /\ \A e, f \in S : e.id = f.id => e = f
      /\ {e.id : e \in S} = SnapshotIdsOf(C)
  BY <1>4, SnapEntriesFinite, SnapEntriesApart
<1> HIDE DEF S
<1>10. NamesOnce(got) /\ IdsListed(got) = SnapshotIdsOf(C) /\ Listed(got) = DOMAIN got
  <2>1. PICK nils \in Seq(Entries) : nils = <<>> /\ Len(nils) = 0
    BY EmptySeq
  <2>2. got = nils \o order
    BY <1>5, <1>6, <1>8, <2>1, ConcatEmptySeq
  <2>3. \A i \in 1..Len(nils) : nils[i] = NilEntry
    BY <2>1
  <2>4. /\ NamesOnce(got) /\ IdsListed(got) = {e.id : e \in S}
        /\ DOMAIN got \ Listed(got) = 1..Len(nils)
    <3>1. nils \in Seq(Entries) /\ order \in SetToSeqs(S)
      BY <1>5, <2>1
    <3>2. QED BY ONLY <1>9, <2>2, <2>3, <3>1, OrderListed
  <2>5. DOMAIN got \ Listed(got) = {}
    BY <2>1, <2>4
  <2>6. Listed(got) \subseteq DOMAIN got
    BY DEF Listed
  <2>7. QED BY <1>9, <2>4, <2>5, <2>6
<1>11. ASSUME NEW z \in work.owed PROVE SnapshotIdsOf(Named(z.Name)) \cap IdsListed(got) # {}
  <2>1. z.Name \in SnapName
    BY <1>1, SnapshotIdParts DEF WorkOK
  <2>2. sHash[z.Name] # NoSnapshotId
    BY <1>1 DEF KnownOK, Done
  <2>3. PICK y : y = sHash[z.Name]
    OBVIOUS
  <2>4. y \in AllSnapshotIds /\ y.Name = z.Name /\ y \in Cached(sHash, NoSnapshotId)
    BY <1>1, <2>1, <2>2, <2>3 DEF CachesOK, Filed, Cached, Range
  <2>5. y \in Named(z.Name) /\ y \in C
    BY <1>3, <2>4, SnapshotIdParts
  <2>6. SnapshotIdStringFromHref(SnapshotHref(y)) \in SnapshotIdsOf(Named(z.Name)) \cap IdsListed(got)
    BY <1>10, <2>5 DEF SnapshotIdsOf
  <2>7. QED BY <2>6
<1>12. C \subseteq (UNION {SnapshotsOf(x) : x \in shares}) \cup (lost \cap AllSnapshotIds)
                     \cup OnlyUncached(sHash, NoSnapshotId, AllSnapshotIds)
  <2>1. Cached(sHash, NoSnapshotId) \subseteq There \cup lost
    BY <1>1 DEF KnownOK, Held
  <2>2. \A z \in C : z \notin shares
    BY <1>1, <1>4, Apart DEF CachesOK
  <2>3. ThereSnapshots \subseteq UNION {SnapshotsOf(x) : x \in shares}
    <3>1. ASSUME NEW z \in ThereSnapshots PROVE \E x \in shares : z \in SnapshotsOf(x)
      <4>1. /\ z = SnapshotId(z.VolumeId, z.Name)
            /\ z.VolumeId \in shares /\ z.Name \in Range(snaps[z.VolumeId])
        BY SnapshotIdParts DEF ThereSnapshots, HasSnap
      <4>2. QED BY <4>1 DEF SnapshotsOf
    <3>2. QED BY <3>1
  <2>4. C \subseteq There \cup lost \cup OnlyUncached(sHash, NoSnapshotId, AllSnapshotIds)
    BY <1>2, <1>3, <2>1
  <2>5. There = shares \cup ThereSnapshots
    BY DEF There
  <2>6. ASSUME NEW z \in C
        PROVE  \/ z \in UNION {SnapshotsOf(x) : x \in shares} \/ z \in lost \cap AllSnapshotIds
               \/ z \in OnlyUncached(sHash, NoSnapshotId, AllSnapshotIds)
    <3>1. z \in AllSnapshotIds /\ z \notin shares
      BY <1>4, <2>2
    <3>2. z \in ThereSnapshots \/ z \in lost \/ z \in OnlyUncached(sHash, NoSnapshotId, AllSnapshotIds)
      BY <2>4, <2>5, <3>1
    <3>3. QED BY <2>3, <3>1, <3>2
  <2>7. QED BY ONLY <2>6
<1>13. \A X, Y : X \subseteq Y => SnapshotIdsOf(X) \subseteq SnapshotIdsOf(Y)
  BY DEF SnapshotIdsOf
<1>14. QED BY <1>10, <1>11, <1>12, <1>13

LEMMA SourceIsExact ==
    ASSUME ListIInv, SnapsDiffer, NoTokenUnlimited
    PROVE  SourceExact
<1> SUFFICES ASSUME NEW x \in Share, NEW ok \in BOOLEAN, NEW s \in IdsOf(x), ListSnapshotsOf(s, 0, ok),
                    NEW got, got = client'.got
             PROVE  /\ Listed(got) = DOMAIN got
                    /\ NamesOnce(got)
                    /\ IdsListed(got) \in {{}, SnapshotIdsOf(SnapshotsOf(x))}
  BY DEF SourceExact
<1>1. /\ CachesOK /\ KnownOK /\ ClientOK /\ Asks("source", s, 0)
  BY DEF ListIInv, ListSnapshotsOf
<1>2. CASE LookupVolume(s) # NoVolumeId /\ ok
  <2>1. PICK all \in Seq(Entries) :
          /\ all = SourceList(x) /\ DOMAIN all = DOMAIN snaps[x]
          /\ \A i \in DOMAIN snaps[x] :
               snaps[x][i] \in SnapName /\ all[i] = SnapEntry(SnapshotId(x, snaps[x][i]))
    BY <1>1, SourceListIs
  <2>2. LookupVolume(s) = x
    BY <1>1, <1>2, LookupOfIds
  <2>3. Gets("source", s, 0, all)
    BY <1>2, <2>1, <2>2 DEF ListSnapshotsOf, SourceList
  <2>4. got = all
    BY <1>1, <2>3, WholeList
  <2>5. PICK C : C = SnapshotsOf(x)
    OBVIOUS
  <2>6. C \subseteq AllSnapshotIds
    BY <2>1, <2>5 DEF SnapshotsOf, Range, AllSnapshotIds
  <2> DEFINE S == {SnapEntry(z) : z \in C}
  <2>7. /\ NilEntry \notin S
        /\ \A e, f \in S : e.id = f.id => e = f
        /\ {e.id : e \in S} = SnapshotIdsOf(C)
    BY <2>6, SnapEntriesApart
  <2>8. \A i \in DOMAIN got : got[i] \in S
    BY <2>1, <2>4, <2>5 DEF SnapshotsOf, Range
  <2>9. ASSUME NEW e \in S PROVE \E i \in DOMAIN got : got[i] = e
    BY <2>1, <2>4, <2>5 DEF SnapshotsOf, Range
  <2>10. ASSUME NEW i \in DOMAIN got, NEW j \in DOMAIN got, got[i] = got[j] PROVE i = j
    <3>1. SnapEntry(SnapshotId(x, snaps[x][i])) = SnapEntry(SnapshotId(x, snaps[x][j]))
      BY <2>1, <2>4, <2>10
    <3>2. SnapshotIdString(SnapshotId(x, snaps[x][i])) = SnapshotIdString(SnapshotId(x, snaps[x][j]))
      BY <3>1 DEF SnapEntry
    <3>3. SnapshotId(x, snaps[x][i]) = SnapshotId(x, snaps[x][j])
      BY <3>2, RoundTrip
    <3>4. snaps[x][i] = snaps[x][j]
      BY <3>3 DEF SnapshotId
    <3>5. QED BY <2>1, <2>4, <3>4 DEF SnapsDiffer, IsInjective
  <2> HIDE DEF S
  <2>11. Listed(got) = DOMAIN got
    BY <2>7, <2>8 DEF Listed
  <2>12. NamesOnce(got)
    BY <2>7, <2>8, <2>10, <2>11 DEF NamesOnce
  <2>13. IdsListed(got) = {e.id : e \in S}
    <3>1. IdsListed(got) \subseteq {e.id : e \in S}
      BY <2>8, <2>11 DEF IdsListed
    <3>2. ASSUME NEW e \in S PROVE e.id \in IdsListed(got)
      <4>1. PICK i \in Listed(got) : got[i] = e
        BY <2>9, <2>11
      <4>2. QED BY <4>1 DEF IdsListed
    <3>3. QED BY <3>1, <3>2
  <2>14. QED BY <2>5, <2>7, <2>11, <2>12, <2>13
<1>3. CASE ~(LookupVolume(s) # NoVolumeId /\ ok)
  <2>1. Gets("source", s, 0, <<>>) /\ <<>> \in Seq(Entries)
    BY <1>3, EmptySeq DEF ListSnapshotsOf
  <2>2. got = <<>>
    BY <1>1, <2>1, WholeList
  <2>3. DOMAIN got = {}
    BY <2>2
  <2>4. QED BY <2>3 DEF Listed, NamesOnce, IdsListed
<1>4. QED BY <1>2, <1>3

\* A list without a limit names all that was read and is still there, each
\* once.  What it names besides was taken away unseen, by a lost answer, by
\* somebody else or in the middle of the listing, and is never removed from
\* the cache (volumes.go:399-406, 433-483, 486-556), or is being looked up.  The
\* snapshots of one volume are exactly the appliance's (snapshots.go:191-212).
THEOREM ListsAreAlwaysExact == Spec => ListsAreExact
<1>1. Init => ExactIInv
  <2>1. ASSUME Init PROVE SnapsDiffer
    <3>1. \A n \in SnapName : IsInjective(<<n>>)
      BY DEF IsInjective
    <3>2. IsInjective(<<>>)
      BY DEF IsInjective
    <3>3. QED BY <2>1, <3>1, <3>2 DEF Init, SnapsDiffer
  <2>2. ASSUME Init PROVE NoTokenUnlimited
    BY <2>2 DEF Init, NoTokenUnlimited, Idle
  <2>3. QED BY <2>1, <2>2, InitIInv DEF ExactIInv
<1>2. ExactIInv /\ [Next]_vars =>
        ExactIInv' /\ [VolumesExact /\ SnapshotsExact /\ SourceExact]_vars
  <2> SUFFICES ASSUME ExactIInv, [Next]_vars
               PROVE  ExactIInv' /\ VolumesExact /\ SnapshotsExact /\ SourceExact
    OBVIOUS
  <2>1. ListIInv /\ SnapsDiffer /\ NoTokenUnlimited /\ ListIInv'
    BY StepIInv DEF ExactIInv
  <2>2. VolumesExact /\ SnapshotsExact /\ SourceExact
    BY <2>1, VolumesAreExact, SnapshotsAreExact, SourceIsExact
  <2>3. CASE Next
    BY <2>1, <2>2, <2>3, StepDiffers, NoTokenStays DEF ExactIInv
  <2>4. CASE UNCHANGED vars
    BY <2>1, <2>2, <2>4 DEF ExactIInv, SnapsDiffer, NoTokenUnlimited, vars
  <2>5. QED BY <2>3, <2>4
<1>3. QED BY <1>1, <1>2, PTL DEF Spec, ListsAreExact
=============================================================================
