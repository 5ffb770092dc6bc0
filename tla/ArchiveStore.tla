---------------------------- MODULE ArchiveStore ----------------------------
(***************************************************************************)
(* The mounted archives and the one index of what they pack:               *)
(* archive_store.cpp.  Archives are mounted at start-up, one after the     *)
(* other; a file packed by several comes from the last that lists it.      *)
(*                                                                         *)
(* The index is keyed by a hash of the path and chains what collides.      *)
(* A path is a spelling of it, up to case, as an archive lists it.  Only a *)
(* lookup evens out the separators, of what it is asked for: what is listed*)
(* under a spelling that is not even has an entry of its own, which nobody *)
(* asks for.  An archive is its number and the order in which it lists     *)
(* paths; it packs them one behind the other, all of the same size, behind *)
(* a header.                                                               *)
(***************************************************************************)
EXTENDS Integers, Sequences, SequencesExt

CONSTANTS
  Paths,      \* paths that archives list
  Normalized, \* those that a lookup may ask for
  Colliding,  \* those of them with the same hash
  MaxMounts,  \* bound: archives mounted
  MaxListed   \* bound: paths an archive lists

ASSUME ArchiveAssumption ==
  /\ Normalized \subseteq Paths
  /\ Colliding \subseteq Paths
  /\ MaxMounts \in Nat
  /\ MaxListed \in Nat

VARIABLES
  archives,   \* how many are mounted
  entries,    \* the index: bucket -> chain of entries
  latest      \* history: the entry every path was last listed with

archive_vars == <<archives, entries, latest>>

\* Where the first file begins, and the size of every file.
Header == 1
Size == 2

Listings == BoundedSeq(Paths, MaxListed)
Entry == [path: Paths, archive: 1..MaxMounts, offset: {Header + Size * i : i \in 0..(MaxListed - 1)}]

\* path_hash
Bucket(p) == IF p \in Colliding THEN Colliding ELSE {p}
Buckets == {Bucket(p) : p \in Paths}

ArchiveInit ==
  /\ archives = 0
  /\ entries = [b \in Buckets |-> <<>>]
  /\ latest = [p \in Paths |-> <<>>]
-----------------------------------------------------------------------------
\* Defect: a path listed again is chained behind itself.
Insert_Appends(chains, e) ==
  [chains EXCEPT ![Bucket(e.path)] = Append(@, e)]

(* insert: a path that is in its chain gets the new place, another one is
   chained last. *)
Insert(chains, e) ==
  LET chain == chains[Bucket(e.path)]
      at == {i \in 1..Len(chain) : chain[i].path = e.path}
  IN [chains EXCEPT ![Bucket(e.path)] =
        IF at = {} THEN Append(@, e) ELSE [i \in 1..Len(@) |-> IF i \in at THEN e ELSE @[i]]]

\* Defect: the entry names the archive mounted before.
ListedAt_Before(listing, i) ==
  [path |-> listing[i], archive |-> archives, offset |-> Header + Size * (i - 1)]

\* The entry an archive lists at i.
ListedAt(listing, i) ==
  [path |-> listing[i], archive |-> archives + 1, offset |-> Header + Size * (i - 1)]

(* The index and its history behind the first n entries that an archive lists,
   which it inserts one after the other. *)
IndexRead(listing, n) ==
  LET after[i \in 0..n] ==
        IF i = 0 THEN [entries |-> entries, latest |-> latest]
        ELSE LET e == ListedAt(listing, i)
             IN [entries |-> Insert(after[i - 1].entries, e),
                 latest |-> [after[i - 1].latest EXCEPT ![e.path] = <<e>>]]
  IN after[n]

(* kinoko_archive_mount of a file that opens.  It is an archive before anything
   of it is read, and what could be read of its index before the first bad
   entry stays: n of the paths it lists, none if the header is bad. *)
Mount(listing, n) ==
  /\ archives < MaxMounts
  /\ n <= Len(listing)
  /\ archives' = archives + 1
  /\ entries' = IndexRead(listing, n).entries
  /\ latest' = IndexRead(listing, n).latest

\* A file that does not open is not mounted, and nothing of it is listed.
Mounts == \E listing \in Listings : \E n \in 0..Len(listing) : Mount(listing, n)

(* The search of kinoko_archive_open_entry, as a sequence of at most one entry.
   The only entry of a chain is taken whatever its path, of others the first
   with the path.  That the entry's archive then no longer opens is OpenReader's. *)
Lookup(p) ==
  LET chain == entries[Bucket(p)]
      at == {i \in 1..Len(chain) : chain[i].path = p}
  IN IF Len(chain) = 1 THEN chain
     ELSE IF at = {} THEN <<>>
     ELSE <<chain[CHOOSE i \in at : \A j \in at : i <= j]>>

ArchiveSpec == ArchiveInit /\ [][Mounts]_archive_vars
-----------------------------------------------------------------------------
\* The variables of the archives have their types.
ArchivesTypeOK ==
  /\ archives \in 0..MaxMounts
  /\ entries \in [Buckets -> Seq(Entry)]
  /\ latest \in [Paths -> Seq(Entry)]

(* What is opened for a path is what the last archive that listed it packs
   there, and that archive is mounted, whichever archives before it list it and
   wherever the index of one broke off; for a path that no archive lists it is
   nothing, or the one file with the same hash. *)
OpensLatest ==
  \A p \in Normalized :
    /\ latest[p] # <<>> => Lookup(p) = latest[p] /\ latest[p][1].archive <= archives
    /\ latest[p] = <<>> => Lookup(p) = <<>> \/ Lookup(p) = entries[Bucket(p)]
=============================================================================
