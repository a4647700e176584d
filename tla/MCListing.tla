------------------------------ MODULE MCListing ------------------------------
(***************************************************************************)
(* A filesystem and a LUN, two names of snapshots, and a snapshot of the   *)
(* project.  The names are strings, as the components of IDs and hrefs     *)
(* are.  MaxRequests bounds the steps from outside, before, between and    *)
(* during listings; a request for a page of a list counts two of them.     *)
(***************************************************************************)
EXTENDS Listing, TLC

CONSTANT MaxRequests

MCShare == {VolumeId("mnt", "zfssa", "pool", "proj", "fs"),
            VolumeId("lun", "zfssa", "pool2", "proj2", "lun1")}
MCName  == {"pool", "pool2", "proj", "proj2", "fs", "lun1"}
MCOtherHref == {<<"", "api", "storage", "v2", "pools", "pool", "projects", "proj", "snapshots", "s">>}

VARIABLE requests
mcVars == <<vars, requests>>

\* The filesystem has a snapshot, the LUN none.
MCInit ==
    /\ Init
    /\ shares = Share
    /\ \A x \in Share : snaps[x] = IF IsBlock(x) THEN <<>> ELSE <<"s">>
    /\ requests = 0

MCNext ==
    \/ /\ requests < MaxRequests
       /\ Elsewhere \/ Changes \/ Restart
       /\ vars' # vars
       /\ requests' = requests + 1
    \/ /\ work # NoWork \/ requests + 2 <= MaxRequests
       /\ Lists
       /\ requests' = IF work = NoWork THEN requests + 2 ELSE requests
    \/ /\ requests >= MaxRequests - 1
       /\ ~alive \/ work = NoWork
       /\ UNCHANGED mcVars

MCSpec == MCInit /\ [][MCNext]_mcVars
=============================================================================
