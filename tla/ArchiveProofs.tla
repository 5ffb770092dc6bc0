---------------------------- MODULE ArchiveProofs ----------------------------
(***************************************************************************)
(* For any paths, hashes, listings and width of the file offsets: a path   *)
(* opens the entry it was last listed with, and what a reader of it        *)
(* delivers is what the entry packs.                                       *)
(*                                                                         *)
(* The index: each chain holds the entries of its hash, no path twice, and *)
(* the entry of a path is the last one listed (Indexed).  Inserting keeps  *)
(* that, hence so does an archive's index however far it can be read:      *)
(* IndexRead is a recursive function, and the numbers of entries up to which  *)
(* it keeps the index are all of them (Reaches).                           *)
(*                                                                         *)
(* The reader: until a Seek was used, its position is that of the archive's *)
(* handle relative to the entry and within its size (Placed), so that the  *)
(* unsigned arithmetic of a Read never wraps (AsksForWhatIsLeft).          *)
(***************************************************************************)
EXTENDS PackageReader, SequenceTheorems, WellFoundedInduction, TLAPS

\* A set of numbers that is not empty has a least one.
LEMMA LeastOf ==
  ASSUME NEW T \in SUBSET Nat, T # {}
  PROVE  \E m \in T : \A k \in T : m <= k
<1> DEFINE R == OpToRel(<, Nat)
<1>1. IsWellFoundedOn(R, Nat)
  BY NatLessThanWellFounded
<1>2. \A k, m \in Nat : k < m => <<k, m>> \in R
  BY DEF OpToRel
<1> HIDE DEF R
<1>3. PICK m \in T : \A k \in T : ~(<<k, m>> \in R)
  BY <1>1, WFMin
<1>4. ASSUME NEW k \in T PROVE m <= k
  <2>1. k \in Nat /\ m \in Nat
    OBVIOUS
  <2>2. ~(k < m)
    BY <1>2, <1>3, <2>1
  <2> QED BY <2>1, <2>2
<1> QED BY <1>4

\* Induction, for a set of numbers.
LEMMA Reaches ==
  ASSUME NEW T \in SUBSET Nat, 0 \in T, \A n \in T : n + 1 \in T
  PROVE  T = Nat
<1> SUFFICES ASSUME Nat \ T # {} PROVE FALSE
  OBVIOUS
<1>1. PICK m \in Nat \ T : \A k \in Nat \ T : m <= k
  BY LeastOf
<1>2. m # 0 /\ m - 1 \in Nat /\ m - 1 \in T
  BY <1>1
<1> QED BY <1>1, <1>2

-----------------------------------------------------------------------------
(* The index. *)

\* Every entry is in the chain of its hash, no path twice in it.
Chained(chains) ==
  /\ chains \in [Buckets -> Seq(Entry)]
  /\ \A b \in Buckets : \A i, j \in 1..Len(chains[b]) :
       /\ Bucket(chains[b][i].path) = b
       /\ chains[b][i].path = chains[b][j].path => i = j

\* The entry of a path is the one it was last listed with.
Recorded(chains, history) ==
  /\ history \in [Paths -> Seq(Entry)]
  /\ \A p \in Paths :
       /\ history[p] = <<>> => \A i \in 1..Len(chains[Bucket(p)]) : chains[Bucket(p)][i].path # p
       /\ history[p] # <<>> => \E i \in 1..Len(chains[Bucket(p)]) :
            history[p] = <<chains[Bucket(p)][i]>> /\ chains[Bucket(p)][i].path = p

\* Entries name archives that are mounted.
Published(chains, mounted) ==
  \A b \in Buckets : \A i \in 1..Len(chains[b]) : chains[b][i].archive <= mounted

Indexed(chains, history, mounted) ==
  Chained(chains) /\ Recorded(chains, history) /\ Published(chains, mounted)

ArchiveInv == archives \in 0..MaxMounts /\ Indexed(entries, latest, archives)

\* What insert leaves of a chain.
LEMMA InsertChain ==
  ASSUME NEW chains, Chained(chains), NEW e \in Entry,
         NEW b, b = Bucket(e.path),
         NEW old, old = chains[b],
         NEW new, new = Insert(chains, e)[b]
  PROVE  /\ b \in Buckets /\ old \in Seq(Entry) /\ new \in Seq(Entry)
         /\ \A c \in Buckets : c # b => Insert(chains, e)[c] = chains[c]
         /\ Insert(chains, e) \in [Buckets -> Seq(Entry)]
         /\ Len(old) <= Len(new)
         /\ \A i \in 1..Len(new) :
              new[i] = e \/ (i \in 1..Len(old) /\ new[i] = old[i] /\ old[i].path # e.path)
         /\ \A i \in 1..Len(old) : old[i].path # e.path => new[i] = old[i]
         /\ \E i \in 1..Len(new) : new[i] = e
         /\ \A i, j \in 1..Len(new) : new[i] = e /\ new[j] = e => i = j
<1> DEFINE at == {i \in 1..Len(old) : old[i].path = e.path}
           put == [i \in 1..Len(old) |-> IF i \in at THEN e ELSE old[i]]
<1>1. e.path \in Paths /\ b \in Buckets
  BY DEF Entry, Buckets
<1>2. old \in Seq(Entry) /\ Len(old) \in Nat
  BY <1>1 DEF Chained
<1>3. /\ chains \in [Buckets -> Seq(Entry)] /\ new = IF at = {} THEN Append(old, e) ELSE put
      /\ Insert(chains, e) = [chains EXCEPT ![b] = new]
  <2>1. Insert(chains, e) = [chains EXCEPT ![b] = IF at = {} THEN Append(old, e) ELSE put]
    BY DEF Insert
  <2> QED BY <1>1, <2>1 DEF Chained
<1>4. \A i, j \in 1..Len(old) : old[i].path = old[j].path => i = j
  BY <1>1 DEF Chained
<1>5. CASE at = {}
  <2>1. new = Append(old, e)
    BY <1>3, <1>5
  <2>2. \A i \in 1..Len(old) : old[i].path # e.path
    BY <1>5
  <2> HIDE DEF at, put
  <2>3. /\ new \in Seq(Entry) /\ Len(new) = Len(old) + 1 /\ new[Len(old) + 1] = e
        /\ \A i \in 1..Len(old) : new[i] = old[i]
    BY <1>2, <2>1, AppendProperties
  <2>4. \A i \in 1..Len(new) : i = Len(old) + 1 \/ i \in 1..Len(old)
    BY <1>2, <2>3
  <2>5. \A i \in 1..Len(old) : new[i] # e
    BY <2>2, <2>3
  <2>6. Len(old) + 1 \in 1..Len(new)
    BY <1>2, <2>3
  <2>7. Insert(chains, e)[b] = new /\ Insert(chains, e) \in [Buckets -> Seq(Entry)]
        /\ \A c \in Buckets : c # b => Insert(chains, e)[c] = chains[c]
    BY <1>1, <1>3, <2>3
  <2> QED BY <1>1, <1>2, <2>2, <2>3, <2>4, <2>5, <2>6, <2>7
<1>6. CASE at # {}
  <2>1. new = put
    BY <1>3, <1>6
  <2>2. PICK k \in 1..Len(old) : old[k].path = e.path
    BY <1>6
  <2>3. \A i \in 1..Len(old) : put[i] = IF old[i].path = e.path THEN e ELSE old[i]
    OBVIOUS
  <2>4. put \in [1..Len(old) -> Entry]
    BY <1>2
  <2> HIDE DEF at, put
  <2>5. new \in Seq(Entry) /\ Len(new) = Len(old)
    <3>1. put \in Seq(Entry)
      BY <1>2, <2>4, SeqDef
    <3>2. DOMAIN put = 1..Len(old) /\ DOMAIN put = 1..Len(put) /\ Len(put) \in Nat
      BY <2>4, <3>1
    <3>3. Len(put) = Len(old)
      BY <1>2, <3>2
    <3> QED BY <2>1, <3>1, <3>3
  <2>6. \A i \in 1..Len(old) : new[i] = IF old[i].path = e.path THEN e ELSE old[i]
    BY <2>1, <2>3
  <2>7. \A i \in 1..Len(old) : new[i] = e => old[i].path = e.path
    BY <2>6
  <2>8. \A i, j \in 1..Len(new) : new[i] = e /\ new[j] = e => i = j
    BY <1>4, <2>5, <2>7
  <2>9. Insert(chains, e)[b] = new /\ Insert(chains, e) \in [Buckets -> Seq(Entry)]
        /\ \A c \in Buckets : c # b => Insert(chains, e)[c] = chains[c]
    BY <1>1, <1>3, <2>5
  <2>10. new[k] = e
    BY <2>2, <2>6
  <2> QED BY <1>1, <1>2, <2>2, <2>5, <2>6, <2>8, <2>9, <2>10
<1> QED BY <1>5, <1>6

\* insert keeps the index, and its history is the entry inserted.
LEMMA InsertIndexed ==
  ASSUME NEW chains, NEW history, NEW mounted \in Nat, Indexed(chains, history, mounted),
         NEW e \in Entry, e.archive <= mounted
  PROVE  Indexed(Insert(chains, e), [history EXCEPT ![e.path] = <<e>>], mounted)
<1> DEFINE b == Bucket(e.path)
           old == chains[b]
           after == Insert(chains, e)
           new == after[b]
           recorded == [history EXCEPT ![e.path] = <<e>>]
<1>1. Chained(chains) /\ Recorded(chains, history) /\ Published(chains, mounted)
  BY DEF Indexed
<1>0. b = Bucket(e.path) /\ old = chains[b] /\ new = Insert(chains, e)[b] /\ after = Insert(chains, e)
  OBVIOUS
<1> HIDE DEF b, old, after, new
<1>2. /\ b \in Buckets /\ old \in Seq(Entry) /\ new \in Seq(Entry)
      /\ \A c \in Buckets : c # b => after[c] = chains[c]
      /\ after \in [Buckets -> Seq(Entry)]
  BY <1>0, <1>1, InsertChain
<1>3. /\ \A i \in 1..Len(new) :
           new[i] = e \/ (i \in 1..Len(old) /\ new[i] = old[i] /\ old[i].path # e.path)
      /\ \E i \in 1..Len(new) : new[i] = e
      /\ \A i, j \in 1..Len(new) : new[i] = e /\ new[j] = e => i = j
  BY <1>0, <1>1, InsertChain
<1>4. \A i \in 1..Len(old) : old[i].path # e.path => new[i] = old[i]
  BY <1>0, <1>1, InsertChain
<1>5. Len(old) <= Len(new) /\ Len(old) \in Nat /\ Len(new) \in Nat
  <2>1. Len(old) <= Len(new)
    BY <1>0, <1>1, InsertChain
  <2> QED BY <1>2, <2>1
<1>6. e.path \in Paths /\ \A p \in Paths : Bucket(p) \in Buckets
  BY DEF Entry, Buckets
<1>7. /\ \A i, j \in 1..Len(old) : old[i].path = old[j].path => i = j
      /\ \A i \in 1..Len(old) : Bucket(old[i].path) = b
  BY <1>0, <1>1, <1>2 DEF Chained
<1>8. recorded \in [Paths -> Seq(Entry)] /\ recorded[e.path] = <<e>>
      /\ \A p \in Paths : p # e.path => recorded[p] = history[p]
  <2>1. history \in [Paths -> Seq(Entry)] /\ <<e>> \in Seq(Entry)
    BY <1>1 DEF Recorded
  <2> QED BY <1>6, <2>1
<1> HIDE DEF recorded
<1>9. Chained(after)
  <2>1. ASSUME NEW c \in Buckets, NEW i \in 1..Len(after[c]), NEW j \in 1..Len(after[c])
        PROVE  /\ Bucket(after[c][i].path) = c
               /\ after[c][i].path = after[c][j].path => i = j
    <3>1. CASE c # b
      BY <1>1, <1>2, <2>1, <3>1 DEF Chained
    <3>2. CASE c = b
      <4>1. i \in 1..Len(new) /\ j \in 1..Len(new) /\ after[c] = new
        BY <3>2 DEF new
      <4>2. Bucket(new[i].path) = b
        BY <1>0, <1>3, <1>7, <4>1
      <4>3. new[i].path = new[j].path => i = j
        BY <1>3, <1>7, <4>1
      <4> QED BY <3>2, <4>1, <4>2, <4>3
    <3> QED BY <3>1, <3>2
  <2> QED BY <1>2, <2>1 DEF Chained
<1>10. Recorded(after, recorded)
  <2>1. ASSUME NEW p \in Paths
        PROVE  /\ recorded[p] = <<>> =>
                    \A i \in 1..Len(after[Bucket(p)]) : after[Bucket(p)][i].path # p
               /\ recorded[p] # <<>> => \E i \in 1..Len(after[Bucket(p)]) :
                    recorded[p] = <<after[Bucket(p)][i]>> /\ after[Bucket(p)][i].path = p
    <3>1. CASE p = e.path
      <4>1. PICK i \in 1..Len(new) : new[i] = e
        BY <1>3
      <4>2. recorded[p] = <<new[i]>> /\ new[i].path = p /\ <<e>> # <<>>
        BY <1>8, <3>1, <4>1
      <4>3. after[Bucket(p)] = new
        BY <1>0, <3>1 DEF new
      <4>4. recorded[p] # <<>>
        BY <1>8, <3>1, <4>2
      <4> QED BY <4>1, <4>2, <4>3, <4>4
    <3>2. CASE p # e.path /\ Bucket(p) # b
      <4>1. after[Bucket(p)] = chains[Bucket(p)] /\ recorded[p] = history[p]
        BY <1>2, <1>6, <1>8, <3>2
      <4> QED BY <1>1, <4>1 DEF Recorded
    <3>3. CASE p # e.path /\ Bucket(p) = b
      <4>1. recorded[p] = history[p] /\ after[Bucket(p)] = new /\ chains[Bucket(p)] = old
        BY <1>8, <3>3 DEF new, old
      <4>2. CASE history[p] = <<>>
        <5>1. \A i \in 1..Len(old) : old[i].path # p
          BY <1>1, <4>1, <4>2 DEF Recorded
        <5>2. \A i \in 1..Len(new) : new[i].path # p
          BY <1>3, <3>3, <5>1
        <5> QED BY <4>1, <4>2, <5>2
      <4>3. CASE history[p] # <<>>
        <5>1. PICK i \in 1..Len(old) : history[p] = <<old[i]>> /\ old[i].path = p
          BY <1>1, <4>1, <4>3 DEF Recorded
        <5>2. new[i] = old[i]
          BY <1>4, <3>3, <5>1
        <5>3. i \in 1..Len(new)
          BY <1>5
        <5>4. recorded[p] = <<new[i]>> /\ new[i].path = p
          BY <4>1, <5>1, <5>2
        <5> QED BY <4>1, <4>3, <5>3, <5>4
      <4> QED BY <4>2, <4>3
    <3> QED BY <3>1, <3>2, <3>3
  <2> QED BY <1>8, <2>1 DEF Recorded
<1>11. Published(after, mounted)
  <2>1. ASSUME NEW c \in Buckets, NEW i \in 1..Len(after[c])
        PROVE  after[c][i].archive <= mounted
    <3>1. CASE c # b
      BY <1>1, <1>2, <2>1, <3>1 DEF Published
    <3>2. CASE c = b
      <4>1. i \in 1..Len(new) /\ after[c] = new
        BY <3>2 DEF new
      <4>2. \A k \in 1..Len(old) : old[k].archive <= mounted
        BY <1>1, <1>2 DEF Published, old
      <4> QED BY <1>3, <4>1, <4>2
    <3> QED BY <3>1, <3>2
  <2> QED BY <2>1 DEF Published
<1> QED BY <1>0, <1>9, <1>10, <1>11 DEF Indexed, recorded

-----------------------------------------------------------------------------
(* The loop of a mount. *)

\* The state of the loop behind so many entries.
Loop(listing, e, i) ==
  LET at == ListedAt(listing, i)
  IN [entries |-> Insert(e.entries, at), latest |-> [e.latest EXCEPT ![at.path] = <<at>>]]

Start == [entries |-> entries, latest |-> latest]

Follows(f, listing, n) ==
  f = [i \in 0..n |-> IF i = 0 THEN Start ELSE Loop(listing, f[i - 1], i)]

\* There is such a function, so that IndexRead is its value.
LEMMA LoopRuns ==
  ASSUME NEW listing, NEW n \in Nat
  PROVE  \E f : Follows(f, listing, n) /\ IndexRead(listing, n) = f[n]
<1> DEFINE T == {m \in Nat : \E f : Follows(f, listing, m)}
<1>1. 0 \in T
  <2>1. Follows([i \in 0..0 |-> Start], listing, 0)
    BY DEF Follows
  <2> QED BY <2>1
<1>2. ASSUME NEW m \in T PROVE m + 1 \in T
  <2>1. PICK f : Follows(f, listing, m)
    OBVIOUS
  <2> DEFINE g == [i \in 0..(m + 1) |-> IF i <= m THEN f[i] ELSE Loop(listing, f[m], i)]
  <2>2. ASSUME NEW i \in 0..(m + 1)
        PROVE  g[i] = IF i = 0 THEN Start ELSE Loop(listing, g[i - 1], i)
    <3>1. CASE i <= m
      <4>1. g[i] = f[i] /\ i \in 0..m
        BY <3>1
      <4>2. i # 0 => g[i - 1] = f[i - 1]
        BY <3>1
      <4>3. f[i] = IF i = 0 THEN Start ELSE Loop(listing, f[i - 1], i)
        BY <2>1, <4>1 DEF Follows
      <4> QED BY <4>1, <4>2, <4>3
    <3>2. CASE ~(i <= m)
      <4>1. i = m + 1 /\ i # 0 /\ i - 1 = m /\ m \in 0..(m + 1)
        BY <3>2
      <4>2. g[i] = Loop(listing, f[m], i) /\ g[m] = f[m]
        BY <4>1
      <4> QED BY <4>1, <4>2
    <3> QED BY <3>1, <3>2
  <2>3. Follows(g, listing, m + 1)
    <3>1. [i \in 0..(m + 1) |-> IF i = 0 THEN Start ELSE Loop(listing, g[i - 1], i)] = g
      BY <2>2
    <3> QED BY <3>1 DEF Follows
  <2>4. m + 1 \in Nat
    OBVIOUS
  <2> HIDE DEF g
  <2> QED BY <2>3, <2>4
<1>3. T = Nat
  <2>1. T \in SUBSET Nat
    OBVIOUS
  <2> HIDE DEF T
  <2> QED BY <1>1, <1>2, <2>1, Reaches
<1>4. \E f : Follows(f, listing, n)
  BY <1>3
<1> DEFINE after == CHOOSE f : Follows(f, listing, n)
<1>5. Follows(after, listing, n)
  BY <1>4
<1>6. IndexRead(listing, n) = after[n]
  BY DEF IndexRead, Follows, Loop, Start
<1> QED BY <1>5, <1>6

\* What an archive lists are entries of the archive to be mounted.
LEMMA EntryListed ==
  ASSUME archives \in 0..MaxMounts, archives < MaxMounts, NEW listing \in Listings,
         NEW i \in 1..Len(listing)
  PROVE  ListedAt(listing, i) \in Entry /\ ListedAt(listing, i).archive = archives + 1
<1>1. listing \in Seq(Paths) /\ Len(listing) <= MaxListed
  BY ArchiveAssumption DEF Listings, BoundedSeq, SeqOf
<1>2. listing[i] \in Paths /\ i - 1 \in 0..(MaxListed - 1) /\ archives + 1 \in 1..MaxMounts
  BY <1>1, ArchiveAssumption
<1> QED BY <1>2 DEF ListedAt, Entry

\* However far the index of an archive can be read, it is kept.
LEMMA ListedIndexed ==
  ASSUME ArchiveInv, archives < MaxMounts, NEW listing \in Listings, NEW n \in 0..Len(listing)
  PROVE  Indexed(IndexRead(listing, n).entries, IndexRead(listing, n).latest, archives + 1)
<1>1. /\ archives \in Nat /\ archives + 1 \in Nat /\ archives \in 0..MaxMounts
      /\ Indexed(entries, latest, archives)
  BY DEF ArchiveInv
<1>2. listing \in Seq(Paths) /\ Len(listing) \in Nat /\ n \in Nat /\ n <= Len(listing)
  BY ArchiveAssumption DEF Listings, BoundedSeq, SeqOf
<1>3. PICK f : Follows(f, listing, n) /\ IndexRead(listing, n) = f[n]
  BY <1>2, LoopRuns
<1> DEFINE T == {i \in Nat : i <= n => Indexed(f[i].entries, f[i].latest, archives + 1)}
<1>4. 0 \in T
  <2>1. f[0] = Start
    BY <1>2, <1>3 DEF Follows
  <2>2. Indexed(entries, latest, archives + 1)
    <3>1. ASSUME NEW b \in Buckets, NEW i \in 1..Len(entries[b])
          PROVE  entries[b][i].archive <= archives + 1
      <4>1. entries[b] \in Seq(Entry)
        BY <1>1 DEF Indexed, Chained
      <4>2. entries[b][i] \in Entry
        BY <4>1, ElementOfSeq
      <4>3. entries[b][i].archive \in Int
        BY <4>2 DEF Entry
      <4>4. entries[b][i].archive <= archives
        BY <1>1 DEF Indexed, Published
      <4> QED BY <1>1, <4>3, <4>4
    <3> QED BY <1>1, <3>1 DEF Indexed, Published
  <2> QED BY <2>1, <2>2 DEF Start
<1>5. ASSUME NEW i \in T PROVE i + 1 \in T
  <2> SUFFICES ASSUME i + 1 <= n
               PROVE  Indexed(f[i + 1].entries, f[i + 1].latest, archives + 1)
    OBVIOUS
  <2> DEFINE e == ListedAt(listing, i + 1)
  <2>1. i + 1 \in 0..n /\ i + 1 # 0 /\ (i + 1) - 1 = i /\ i <= n /\ i + 1 \in 1..Len(listing)
    BY <1>2
  <2>2. Indexed(f[i].entries, f[i].latest, archives + 1)
    BY <2>1
  <2>3. f[i + 1] = Loop(listing, f[i], i + 1)
    BY <1>3, <2>1 DEF Follows
  <2>4. /\ f[i + 1].entries = Insert(f[i].entries, e)
        /\ f[i + 1].latest = [f[i].latest EXCEPT ![e.path] = <<e>>]
    BY <2>3 DEF Loop
  <2>5. e \in Entry /\ e.archive = archives + 1
    BY <1>1, <2>1, EntryListed
  <2>6. e.archive <= archives + 1
    BY <1>1, <2>5
  <2> HIDE DEF e
  <2> QED BY <1>1, <2>2, <2>4, <2>5, <2>6, InsertIndexed
<1>6. n \in T
  <2>1. T \in SUBSET Nat
    OBVIOUS
  <2> HIDE DEF T
  <2> QED BY <1>2, <1>4, <1>5, <2>1, Reaches
<1> QED BY <1>2, <1>3, <1>6

-----------------------------------------------------------------------------
(* Opening and reading. *)

\* A lookup finds the entry a path was last listed with, or what shares its hash.
LEMMA LooksUp ==
  ASSUME ArchiveInv, NEW p \in Paths
  PROVE  /\ Lookup(p) \in Seq(Entry)
         /\ latest[p] # <<>> => Lookup(p) = latest[p] /\ latest[p][1].archive <= archives
         /\ latest[p] = <<>> => Lookup(p) = <<>> \/ Lookup(p) = entries[Bucket(p)]
<1> DEFINE chain == entries[Bucket(p)]
           at == {i \in 1..Len(chain) : chain[i].path = p}
           first == CHOOSE i \in at : \A j \in at : i <= j
<1>1. Bucket(p) \in Buckets /\ Indexed(entries, latest, archives)
  BY DEF Buckets, ArchiveInv
<1>2. chain \in Seq(Entry) /\ Len(chain) \in Nat
  BY <1>1 DEF Indexed, Chained
<1>3. Lookup(p) = IF Len(chain) = 1 THEN chain ELSE IF at = {} THEN <<>> ELSE <<chain[first]>>
  BY DEF Lookup
<1>4. at # {} => first \in at
  <2>1. at \in SUBSET Nat
    BY <1>2
  <2>2. at # {} => \E i \in at : \A j \in at : i <= j
    <3> HIDE DEF at
    <3> QED BY <2>1, LeastOf
  <2> QED BY <2>2
<1> HIDE DEF first
<1>5. \A i, j \in 1..Len(chain) : chain[i].path = chain[j].path => i = j
  BY <1>1 DEF Indexed, Chained
<1>6. Lookup(p) \in Seq(Entry)
  <2>1. at # {} => chain[first] \in Entry
    BY <1>2, <1>4, ElementOfSeq
  <2> HIDE DEF chain, at
  <2> QED BY <1>2, <1>3, <2>1
<1>7. ASSUME latest[p] # <<>>
      PROVE  Lookup(p) = latest[p] /\ latest[p][1].archive <= archives
  <2>1. PICK i \in 1..Len(chain) : latest[p] = <<chain[i]>> /\ chain[i].path = p
    BY <1>1, <1>7 DEF Indexed, Recorded
  <2>2. chain[i].archive <= archives
    BY <1>1 DEF Indexed, Published
  <2>3. CASE Len(chain) = 1
    <3>1. i = 1
      BY <2>1, <2>3
    <3>2. chain = <<chain[1]>>
      <4> HIDE DEF chain
      <4> QED BY <1>2, <2>3
    <3> QED BY <1>3, <2>1, <2>2, <2>3, <3>1, <3>2
  <2>4. CASE Len(chain) # 1
    <3>1. i \in at
      BY <2>1
    <3>2. first \in 1..Len(chain) /\ chain[first].path = p
      BY <1>4, <3>1
    <3>3. first = i
      BY <1>5, <2>1, <3>2
    <3>4. Lookup(p) = <<chain[i]>>
      BY <1>3, <2>4, <3>1, <3>3
    <3> QED BY <2>1, <2>2, <3>4
  <2> QED BY <2>3, <2>4
<1>8. ASSUME latest[p] = <<>>
      PROVE  Lookup(p) = <<>> \/ Lookup(p) = entries[Bucket(p)]
  <2>1. at = {}
    BY <1>1, <1>8 DEF Indexed, Recorded
  <2> QED BY <1>3, <2>1
<1> QED BY <1>6, <1>7, <1>8

\* Mounting an archive keeps the index, also when its index breaks off.
LEMMA MountsKeep ==
  ASSUME ArchiveInv, Mounts
  PROVE  ArchiveInv'
<1>1. PICK listing \in Listings : \E n \in 0..Len(listing) : Mount(listing, n)
  BY DEF Mounts
<1>2. PICK n \in 0..Len(listing) : Mount(listing, n)
  BY <1>1
<1>3. /\ archives < MaxMounts /\ archives' = archives + 1
      /\ entries' = IndexRead(listing, n).entries /\ latest' = IndexRead(listing, n).latest
  BY <1>2 DEF Mount
<1>4. Indexed(entries', latest', archives')
  BY <1>3, ListedIndexed
<1>5. archives' \in 0..MaxMounts
  BY <1>3, ArchiveAssumption DEF ArchiveInv
<1> QED BY <1>4, <1>5 DEF ArchiveInv, Indexed, Chained, Recorded, Published

\* Nothing is indexed before the first archive is mounted.
LEMMA ArchivesStart == ArchiveInit => ArchiveInv
<1> SUFFICES ASSUME ArchiveInit PROVE ArchiveInv
  OBVIOUS
<1>1. archives = 0 /\ entries = [b \in Buckets |-> <<>>] /\ latest = [p \in Paths |-> <<>>]
  BY DEF ArchiveInit
<1>2. \A b \in Buckets : entries[b] = <<>> /\ 1..Len(entries[b]) = {}
  BY <1>1
<1>3. \A p \in Paths : Bucket(p) \in Buckets /\ latest[p] = <<>>
  BY <1>1 DEF Buckets
<1>4. Chained(entries) /\ Published(entries, archives)
  BY <1>1, <1>2 DEF Chained, Published
<1>5. Recorded(entries, latest)
  BY <1>1, <1>2, <1>3 DEF Recorded
<1> QED BY <1>1, <1>4, <1>5, ArchiveAssumption DEF ArchiveInv, Indexed

\* Before a virtual Seek the position is where reading has come, and the handle
\* is there too unless an exact read has failed.
Placed ==
  /\ reader.open => reader.offset + Size <= ArchiveEnd
  /\ reader.open /\ ~lost.sought => reader.position = reader.offset + cursor /\ cursor <= Size
  /\ reader.open /\ ~lost.sought /\ ~lost.failed => reader.fp = reader.position
  /\ ~reader.open => got.n = 0

DeliveredRight ==
  ~lost.sought /\ ~lost.failed /\ got.n > 0 => got.at = got.expected /\ got.at + got.n <= End

PackageInv == ArchiveInv /\ ReaderTypeOK /\ Placed /\ DeliveredRight

Readers == [open: BOOLEAN, offset: Spaces, position: Spaces, fp: Nat]
Deliveries == [n: Spaces, at: Nat, expected: Nat]
Losses == [sought: BOOLEAN, failed: BOOLEAN]

\* A DWORD holds every place of an archive and what is asked for behind it.
LEMMA Widths ==
  /\ Word \in Nat /\ Word > 0 /\ MaxRead \in Nat /\ MaxListed \in Nat
  /\ ArchiveEnd \in Nat /\ ArchiveEnd + MaxRead < Word /\ Size = 2 /\ Spaces \subseteq Nat
BY ReaderAssumption, ArchiveAssumption DEF ArchiveEnd, Header, Size, Spaces

\* Nothing below the width of a DWORD wraps, and whatever wraps is below it.
LEMMA NoWrap ==
  ASSUME NEW w \in Nat, NEW x \in 0..(w - 1)
  PROVE  x % w = x
OBVIOUS

LEMMA Wraps ==
  ASSUME NEW w \in Nat \ {0}, NEW x \in Int
  PROVE  x % w \in 0..(w - 1)
OBVIOUS

\* What ReadFile transfers fits in the archive and is no more than was asked for.
LEMMA TransfersFit ==
  ASSUME NEW at \in Nat, NEW n \in Nat, NEW k \in Transfers(at, n)
  PROVE  k \in Nat /\ k <= n /\ k \in Spaces /\ (k > 0 => at + k <= ArchiveEnd)
<1>1. ArchiveEnd \in Nat /\ ArchiveEnd < Word /\ Word \in Nat
  BY Widths
<1>2. CASE at >= ArchiveEnd
  BY <1>1, <1>2 DEF Transfers, Spaces
<1>3. CASE ~(at >= ArchiveEnd)
  BY <1>1, <1>3 DEF Transfers, Spaces, Least
<1> QED BY <1>2, <1>3

\* The fields of a reader that moves.
LEMMA ReaderMoves ==
  ASSUME ReaderTypeOK, NEW x \in Spaces, NEW y \in Nat,
         reader' = [reader EXCEPT !.position = x, !.fp = y]
  PROVE  /\ reader' \in Readers
         /\ reader'.open = reader.open /\ reader'.offset = reader.offset
         /\ reader'.position = x /\ reader'.fp = y
<1>1. reader \in Readers
  BY DEF ReaderTypeOK, Readers
<1>2. reader' = [open |-> reader.open, offset |-> reader.offset, position |-> x, fp |-> y]
  BY <1>1 DEF Readers
<1> QED BY <1>1, <1>2 DEF Readers

\* The fields of a reader whose handle alone moves.
LEMMA HandleMoves ==
  ASSUME ReaderTypeOK, NEW y \in Nat, reader' = [reader EXCEPT !.fp = y]
  PROVE  /\ reader' \in Readers
         /\ reader'.open = reader.open /\ reader'.offset = reader.offset
         /\ reader'.position = reader.position /\ reader'.fp = y
<1>1. reader \in Readers
  BY DEF ReaderTypeOK, Readers
<1>2. reader' = [open |-> reader.open, offset |-> reader.offset, position |-> reader.position,
                 fp |-> y]
  BY <1>1 DEF Readers
<1> QED BY <1>1, <1>2 DEF Readers

\* The types of the parts of a reader.
LEMMA ReaderParts ==
  ASSUME ReaderTypeOK
  PROVE  /\ reader.open \in BOOLEAN /\ reader.offset \in Nat /\ reader.position \in Spaces
         /\ reader.position \in Nat /\ reader.fp \in Nat /\ cursor \in Nat
         /\ lost.sought \in BOOLEAN /\ lost.failed \in BOOLEAN
BY Widths DEF ReaderTypeOK

\* A Seek that was used, or an exact read that failed, is remembered.
LEMMA LossKept ==
  ASSUME ReaderTypeOK, NEW b \in BOOLEAN
  PROVE  /\ [lost EXCEPT !.failed = b] \in Losses
         /\ [lost EXCEPT !.failed = b].sought = lost.sought
         /\ [lost EXCEPT !.failed = b].failed = b
         /\ [lost EXCEPT !.sought = b] \in Losses
         /\ [lost EXCEPT !.sought = b].sought = b
BY DEF ReaderTypeOK, Losses

\* An opened entry is a place within its archive, or nothing is open.
LEMMA OpenKeeps ==
  ASSUME PackageInv, UNCHANGED archive_vars, NEW p \in Paths, NEW opens, OpenReader(p, opens)
  PROVE  PackageInv'
<1> DEFINE e == Lookup(p)[1]
<1>1. Lookup(p) \in Seq(Entry)
  BY LooksUp DEF PackageInv
<1>2. got' = Undelivered /\ cursor' = 0 /\ lost' = Lost
  BY DEF OpenReader
<1>3. got' \in Deliveries /\ got'.n = 0 /\ lost' \in Losses
  BY <1>2, Widths DEF Undelivered, Deliveries, Spaces, Lost, Losses
<1>4. ArchiveInv'
  BY DEF PackageInv, ArchiveInv, archive_vars
<1>5. CASE Lookup(p) = <<>> \/ ~opens
  <2>1. reader' = Closed
    BY <1>5 DEF OpenReader
  <2>2. reader' \in Readers /\ ~reader'.open
    BY <2>1, Widths DEF Closed, Readers, Spaces
  <2> QED BY <1>2, <1>3, <1>4, <2>2
          DEF PackageInv, ReaderTypeOK, Placed, DeliveredRight, Readers, Deliveries, Losses
<1>6. CASE Lookup(p) # <<>> /\ opens
  <2>1. e \in Entry
    <3>1. Len(Lookup(p)) \in Nat \ {0}
      BY <1>1, <1>6, EmptySeq
    <3>2. 1 \in 1..Len(Lookup(p))
      BY <3>1
    <3> QED BY <1>1, <3>2, ElementOfSeq
  <2>2. e.offset \in Nat /\ e.offset + Size <= ArchiveEnd /\ e.offset \in Spaces
    BY <2>1, Widths DEF Entry, ArchiveEnd, Header, Size, Spaces
  <2>3. reader' = [open |-> TRUE, offset |-> e.offset, position |-> e.offset, fp |-> e.offset]
    BY <1>6 DEF OpenReader
  <2> HIDE DEF e
  <2>4. reader' \in Readers /\ reader'.offset + Size <= ArchiveEnd
        /\ reader'.position = reader'.offset + 0 /\ reader'.fp = reader'.position
    BY <2>2, <2>3 DEF Readers
  <2>5. Placed'
    BY <1>2, <1>3, <2>3, <2>4, Widths DEF Placed, ArchiveEnd
  <2> QED BY <1>2, <1>3, <1>4, <2>4, <2>5
          DEF PackageInv, ReaderTypeOK, DeliveredRight, Readers, Deliveries, Losses
<1> QED BY <1>5, <1>6

\* skip moves the handle and the position together.
LEMMA SkipKeeps ==
  ASSUME PackageInv, UNCHANGED archive_vars, NEW distance \in 0..MaxRead, SeekRelative(distance)
  PROVE  PackageInv'
<1> DEFINE to == reader.position + distance
<1>1. ReaderTypeOK /\ Placed /\ distance \in Nat
  BY Widths DEF PackageInv
<1>2. /\ reader.open /\ reader.offset <= reader.position /\ reader.position <= End
      /\ distance <= End - reader.position
      /\ reader' = [reader EXCEPT !.position = to, !.fp = to]
      /\ cursor' = cursor + distance /\ lost' = [lost EXCEPT !.failed = FALSE]
      /\ got' = Undelivered
  BY DEF SeekRelative, Within
<1>3. to \in Spaces /\ to \in Nat /\ to <= End
  BY <1>1, <1>2, ReaderParts, Widths DEF Placed, End, Spaces
<1>4. /\ reader' \in Readers /\ reader'.open = reader.open /\ reader'.offset = reader.offset
      /\ reader'.position = to /\ reader'.fp = to
  BY <1>1, <1>2, <1>3, ReaderMoves
<1>5. got' \in Deliveries /\ got'.n = 0
  BY <1>2, Widths DEF Undelivered, Deliveries, Spaces
<1>6. lost' \in Losses /\ lost'.sought = lost.sought /\ lost'.failed = FALSE
  BY <1>1, <1>2, LossKept
<1>7. ArchiveInv'
  BY DEF PackageInv, ArchiveInv, archive_vars
<1>8. Placed'
  <2>1. ~lost.sought => to = reader.offset + cursor' /\ cursor' <= Size
    BY <1>1, <1>2, <1>3, ReaderParts, Widths DEF Placed, End
  <2>2. reader.offset + Size <= ArchiveEnd
    BY <1>1, <1>2 DEF Placed
  <2> QED BY <1>2, <1>4, <1>5, <1>6, <2>1, <2>2 DEF Placed, ArchiveEnd
<1>9. ReaderTypeOK'
  BY <1>1, <1>2, <1>4, <1>5, <1>6, ReaderParts
     DEF ReaderTypeOK, Readers, Deliveries, Losses
<1> QED BY <1>5, <1>7, <1>8, <1>9 DEF PackageInv, DeliveredRight

\* A Seek is remembered as a loss: nothing is promised behind it.
LEMMA SeekKeeps ==
  ASSUME PackageInv, UNCHANGED archive_vars, NEW distance \in -1..MaxRead,
         NEW origin \in {"begin", "current", "end"}, SeekPackage(distance, origin)
  PROVE  PackageInv'
<1> DEFINE to == CASE origin = "begin" -> reader.offset + distance
                   [] origin = "current" -> reader.fp + distance
                   [] origin = "end" -> End - distance
           fp == IF to < 0 THEN reader.fp ELSE to
           new == ((IF to < 0 THEN Word - 1 ELSE to) - reader.offset) % Word
<1>1. ReaderTypeOK /\ Placed /\ reader.open
  BY DEF PackageInv, SeekPackage
<1>2. to \in Int
  <2>1. distance \in Int /\ reader.offset \in Int /\ reader.fp \in Int /\ End \in Int
    BY <1>1, ReaderParts, Widths DEF End
  <2>2. CASE origin = "begin"
    BY <2>1, <2>2
  <2>3. CASE origin = "current"
    BY <2>1, <2>3
  <2>4. CASE origin = "end"
    BY <2>1, <2>4
  <2> QED BY <2>2, <2>3, <2>4
<1>3. /\ reader' = [reader EXCEPT !.fp = fp, !.position = new]
      /\ lost' = [lost EXCEPT !.sought = TRUE] /\ UNCHANGED <<got, cursor>>
  BY DEF SeekPackage, SetFilePointer
<1> HIDE DEF to
<1>4. fp \in Nat
  BY <1>1, <1>2, ReaderParts
<1>5. new \in Spaces
  <2> DEFINE place == (IF to < 0 THEN Word - 1 ELSE to) - reader.offset
  <2>1. place \in Int /\ Word \in Nat \ {0}
    BY <1>1, <1>2, ReaderParts, Widths
  <2>2. new = place % Word
    OBVIOUS
  <2> HIDE DEF place, new
  <2>3. place % Word \in 0..(Word - 1)
    BY <2>1, Wraps
  <2> QED BY <2>2, <2>3 DEF Spaces
<1> HIDE DEF fp, new
<1>6. reader' \in Readers /\ reader'.open = reader.open /\ reader'.offset = reader.offset
  <2>1. reader' = [open |-> reader.open, offset |-> reader.offset, position |-> new, fp |-> fp]
    BY <1>1, <1>3 DEF ReaderTypeOK
  <2> QED BY <1>1, <1>4, <1>5, <2>1 DEF Readers, ReaderTypeOK
<1>7. lost' \in Losses /\ lost'.sought = TRUE
  BY <1>1, <1>3, LossKept
<1>8. ArchiveInv'
  BY DEF PackageInv, ArchiveInv, archive_vars
<1>9. Placed' /\ DeliveredRight'
  BY <1>1, <1>6, <1>7 DEF Placed, DeliveredRight, ArchiveEnd
<1>10. ReaderTypeOK'
  BY <1>1, <1>3, <1>6, <1>7 DEF ReaderTypeOK, Readers, Losses
<1> QED BY <1>8, <1>9, <1>10 DEF PackageInv

\* read_exact delivers all that it was asked for, or remembers that it failed.
LEMMA ExactKeeps ==
  ASSUME PackageInv, UNCHANGED archive_vars, NEW n \in 0..MaxRead, NEW k \in 0..MaxRead,
         ReadExact(n, k)
  PROVE  PackageInv'
<1>1. ReaderTypeOK /\ Placed /\ n \in Nat
  BY Widths DEF PackageInv
<1>2. /\ n > 0 /\ reader.open /\ reader.offset <= reader.position /\ reader.position <= End
      /\ n <= End - reader.position /\ k \in Transfers(reader.position, n)
  BY DEF ReadExact, Within
<1>3. ArchiveInv'
  BY DEF PackageInv, ArchiveInv, archive_vars
<1>4. reader.offset + Size <= ArchiveEnd
  BY <1>1, <1>2 DEF Placed
<1>5. CASE k = n
  <2> DEFINE to == reader.position + n
  <2>1. /\ reader' = [reader EXCEPT !.position = to, !.fp = to]
        /\ cursor' = cursor + n /\ lost' = [lost EXCEPT !.failed = FALSE]
        /\ got' = [n |-> n, at |-> reader.position, expected |-> reader.offset + cursor]
    BY <1>2, <1>5 DEF ReadExact, Delivered
  <2>2. to \in Spaces /\ to \in Nat /\ to <= End
    BY <1>1, <1>2, <1>4, ReaderParts, Widths DEF End, Spaces
  <2>3. /\ reader' \in Readers /\ reader'.open = reader.open /\ reader'.offset = reader.offset
        /\ reader'.position = to /\ reader'.fp = to
    BY <1>1, <2>1, <2>2, ReaderMoves
  <2>4. lost' \in Losses /\ lost'.sought = lost.sought /\ lost'.failed = FALSE
    BY <1>1, <2>1, LossKept
  <2>5. /\ got' \in Deliveries /\ got'.n = n /\ got'.at = reader.position
        /\ got'.expected = reader.offset + cursor
    <3>1. n \in Spaces
      BY <1>1, Widths DEF Spaces
    <3>2. reader.position \in Nat /\ reader.offset + cursor \in Nat
      BY <1>1, ReaderParts
    <3> QED BY <2>1, <3>1, <3>2 DEF Deliveries
  <2>6. ~lost.sought => /\ to = reader.offset + cursor' /\ cursor' <= Size
                        /\ got'.at = got'.expected
    BY <1>1, <1>2, <2>1, <2>2, <2>5, ReaderParts, Widths DEF Placed, End
  <2>7. got'.at + got'.n <= End
    BY <1>1, <2>2, <2>5
  <2>8. Placed'
    BY <1>2, <1>4, <2>3, <2>4, <2>6 DEF Placed, ArchiveEnd
  <2>9. DeliveredRight'
    BY <2>3, <2>4, <2>6, <2>7 DEF DeliveredRight, End
  <2>10. ReaderTypeOK'
    BY <1>1, <2>1, <2>3, <2>4, <2>5, ReaderParts
       DEF ReaderTypeOK, Readers, Deliveries, Losses
  <2> QED BY <1>3, <2>8, <2>9, <2>10 DEF PackageInv
<1>6. CASE k # n
  <2> DEFINE fp == reader.position + k
  <2>1. /\ reader' = [reader EXCEPT !.fp = fp] /\ cursor' = cursor
        /\ lost' = [lost EXCEPT !.failed = TRUE] /\ got' = Undelivered
    BY <1>6 DEF ReadExact
  <2>2. fp \in Nat
    BY <1>1, ReaderParts, Widths
  <2> HIDE DEF fp
  <2>3. /\ reader' \in Readers /\ reader'.open = reader.open /\ reader'.offset = reader.offset
        /\ reader'.position = reader.position
    BY <1>1, <2>1, <2>2, HandleMoves
  <2>4. lost' \in Losses /\ lost'.sought = lost.sought /\ lost'.failed = TRUE
    BY <1>1, <2>1, LossKept
  <2>5. got' \in Deliveries /\ got'.n = 0
    BY <2>1, Widths DEF Undelivered, Deliveries, Spaces
  <2>6. Placed' /\ DeliveredRight'
    BY <1>1, <1>2, <2>1, <2>3, <2>4, <2>5 DEF Placed, DeliveredRight, ArchiveEnd
  <2>7. ReaderTypeOK'
    BY <1>1, <2>1, <2>3, <2>4, <2>5, ReaderParts
       DEF ReaderTypeOK, Readers, Deliveries, Losses
  <2> QED BY <1>3, <2>6, <2>7 DEF PackageInv
<1> QED BY <1>5, <1>6

\* Before a Seek nothing of a Read's arithmetic wraps: it asks for no more than is left.
LEMMA AsksForWhatIsLeft ==
  ASSUME ReaderTypeOK, Placed, reader.open, ~lost.sought, NEW n \in 0..MaxRead
  PROVE  LET past == (n + reader.position) % Word
             wanted == IF End < past THEN (End - reader.position) % Word ELSE n
         IN wanted \in Nat /\ wanted <= End - reader.position
<1> DEFINE left == End - reader.position
           sum == n + reader.position
<1>1. /\ reader.position = reader.offset + cursor /\ cursor <= Size
      /\ reader.offset + Size <= ArchiveEnd
  BY DEF Placed
<1>2. left \in 0..(Word - 1) /\ sum \in 0..(Word - 1) /\ Word \in Nat /\ n \in Nat
  BY <1>1, ReaderParts, Widths DEF End
<1>3. End < sum \/ n <= left
  BY <1>2, ReaderParts, Widths DEF End
<1> HIDE DEF left, sum
<1>4. left % Word = left /\ sum % Word = sum
  BY <1>2, NoWrap
<1>5. (IF End < sum % Word THEN left % Word ELSE n) \in Nat
      /\ (IF End < sum % Word THEN left % Word ELSE n) <= left
  BY <1>2, <1>3, <1>4
<1> QED BY <1>5 DEF left, sum

\* Read delivers no more than the entry has left and advances by it.
LEMMA ReadKeeps ==
  ASSUME PackageInv, UNCHANGED archive_vars, NEW n \in 0..MaxRead, NEW k \in 0..MaxRead,
         ReadPackage(n, k)
  PROVE  PackageInv'
<1> DEFINE past == (n + reader.position) % Word
           wanted == IF End < past THEN (End - reader.position) % Word ELSE n
           to == (reader.position + k) % Word
           fp == reader.fp + k
<1>1. ReaderTypeOK /\ Placed /\ DeliveredRight
  BY DEF PackageInv
<1>2. /\ reader.open /\ k \in Transfers(reader.fp, wanted)
      /\ reader' = [reader EXCEPT !.position = to, !.fp = fp]
      /\ cursor' = cursor + k /\ Delivered(k, reader.fp) /\ lost' = lost
  BY DEF ReadPackage
<1>3. ArchiveInv'
  BY DEF PackageInv, ArchiveInv, archive_vars
<1>4. wanted \in Nat
  <2> DEFINE left == End - reader.position
  <2>1. left \in Int /\ Word \in Nat \ {0} /\ n \in Nat
    BY <1>1, ReaderParts, Widths DEF End
  <2> HIDE DEF left, past
  <2>2. left % Word \in 0..(Word - 1)
    BY <2>1, Wraps
  <2>3. left % Word \in Nat
    BY <2>1, <2>2
  <2>4. wanted = IF End < past THEN left % Word ELSE n
    BY DEF left
  <2> QED BY <2>1, <2>3, <2>4
<1>5. ~lost.sought => wanted <= End - reader.position
  BY <1>1, <1>2, AsksForWhatIsLeft
<1> HIDE DEF wanted, past
<1>6. k \in Nat /\ k <= wanted /\ k \in Spaces
  BY <1>1, <1>2, <1>4, ReaderParts, TransfersFit
<1>7. to \in Spaces
  <2> DEFINE sum == reader.position + k
  <2>1. sum \in Int /\ Word \in Nat \ {0}
    BY <1>1, <1>6, ReaderParts, Widths
  <2>2. to = sum % Word
    OBVIOUS
  <2> HIDE DEF sum, to
  <2>3. sum % Word \in 0..(Word - 1)
    BY <2>1, Wraps
  <2> QED BY <2>2, <2>3 DEF Spaces
<1>8. ~lost.sought => /\ to = reader.position + k /\ to <= End
                      /\ to = reader.offset + cursor' /\ cursor' <= Size
  <2> SUFFICES ASSUME ~lost.sought
               PROVE  /\ to = reader.position + k /\ to <= End
                      /\ to = reader.offset + cursor' /\ cursor' <= Size
    OBVIOUS
  <2> DEFINE sum == reader.position + k
  <2>1. /\ reader.position = reader.offset + cursor /\ cursor <= Size
        /\ reader.offset + Size <= ArchiveEnd
    BY <1>1, <1>2 DEF Placed
  <2>2. k <= End - reader.position
    BY <1>1, <1>4, <1>5, <1>6, ReaderParts, Widths DEF End
  <2>3. sum \in 0..(Word - 1) /\ sum <= End /\ Word \in Nat
    BY <1>1, <1>6, <2>1, <2>2, ReaderParts, Widths DEF End
  <2>4. to = sum
    <3>1. to = sum % Word
      OBVIOUS
    <3> HIDE DEF sum, to
    <3> QED BY <2>3, <3>1, NoWrap
  <2>5. sum = reader.offset + cursor' /\ cursor' <= Size
    BY <1>1, <1>2, <1>6, <2>1, <2>2, ReaderParts, Widths DEF End
  <2> QED BY <2>3, <2>4, <2>5
<1> HIDE DEF to
<1>9. fp \in Nat
  BY <1>1, <1>6, ReaderParts
<1>10. /\ reader' \in Readers /\ reader'.open = reader.open /\ reader'.offset = reader.offset
       /\ reader'.position = to /\ reader'.fp = fp
  BY <1>1, <1>2, <1>7, <1>9, ReaderMoves
<1>11. Placed'
  <2>1. ~lost.sought /\ ~lost.failed => fp = to
    BY <1>1, <1>2, <1>6, <1>8 DEF Placed
  <2>2. reader.offset + Size <= ArchiveEnd
    BY <1>1, <1>2 DEF Placed
  <2> QED BY <1>2, <1>8, <1>10, <2>1, <2>2 DEF Placed, ArchiveEnd
<1>12. got' \in Deliveries
  <2>1. got' = IF k = 0 THEN Undelivered
               ELSE [n |-> k, at |-> reader.fp, expected |-> reader.offset + cursor]
    BY <1>2 DEF Delivered
  <2>2. Undelivered \in Deliveries
    BY Widths DEF Undelivered, Deliveries, Spaces
  <2>3. reader.fp \in Nat /\ reader.offset + cursor \in Nat
    BY <1>1, ReaderParts
  <2> QED BY <1>6, <2>1, <2>2, <2>3 DEF Deliveries
<1>13. DeliveredRight'
  <2> SUFFICES ASSUME ~lost.sought, ~lost.failed, got'.n > 0
               PROVE  got'.at = got'.expected /\ got'.at + got'.n <= End'
    BY <1>2 DEF DeliveredRight
  <2>1. k # 0
    BY <1>2 DEF Delivered, Undelivered
  <2>2. got' = [n |-> k, at |-> reader.fp, expected |-> reader.offset + cursor]
    BY <1>2, <2>1 DEF Delivered
  <2>3. reader.fp = reader.position /\ reader.position = reader.offset + cursor
    BY <1>1, <1>2 DEF Placed
  <2>4. End' = End
    BY <1>10 DEF End
  <2> QED BY <1>8, <2>2, <2>3, <2>4
<1>14. ReaderTypeOK'
  BY <1>1, <1>2, <1>6, <1>10, <1>12, ReaderParts DEF ReaderTypeOK, Readers, Deliveries
<1> QED BY <1>3, <1>11, <1>13, <1>14 DEF PackageInv

\* The inductive invariant of archives and the readers of their entries.
LEMMA PackageInvInit == ArchiveInit /\ ReaderInit => PackageInv
<1> SUFFICES ASSUME ArchiveInit, ReaderInit PROVE PackageInv
  OBVIOUS
<1>1. ArchiveInv
  BY ArchivesStart
<1>2. ReaderTypeOK
  BY Widths DEF ReaderInit, ReaderTypeOK, Closed, Undelivered, Lost, Spaces
<1>3. Placed /\ DeliveredRight
  BY DEF ReaderInit, Placed, DeliveredRight, Closed, Undelivered, Lost
<1> QED BY <1>1, <1>2, <1>3 DEF PackageInv

\* Every step keeps the invariant.
LEMMA PackageInvNext ==
  PackageInv /\ [ReaderNext]_<<archive_vars, reader_vars>> => PackageInv'
<1> SUFFICES ASSUME PackageInv, [ReaderNext]_<<archive_vars, reader_vars>> PROVE PackageInv'
  OBVIOUS
<1>1. CASE Mounts /\ UNCHANGED reader_vars
  <2>1. ArchiveInv'
    BY <1>1, MountsKeep DEF PackageInv
  <2> QED BY <1>1, <2>1
          DEF PackageInv, ReaderTypeOK, Placed, DeliveredRight, reader_vars, End, ArchiveEnd
<1>2. ASSUME UNCHANGED archive_vars, NEW p \in Normalized, NEW opens \in BOOLEAN,
             OpenReader(p, opens)
      PROVE  PackageInv'
  BY <1>2, OpenKeeps, ArchiveAssumption
<1>3. ASSUME UNCHANGED archive_vars, NEW n \in 0..MaxRead, NEW k \in 0..MaxRead,
             ReadPackage(n, k)
      PROVE  PackageInv'
  BY <1>3, ReadKeeps
<1>4. ASSUME UNCHANGED archive_vars, NEW n \in 0..MaxRead, NEW k \in 0..MaxRead,
             ReadExact(n, k)
      PROVE  PackageInv'
  BY <1>4, ExactKeeps
<1>5. ASSUME UNCHANGED archive_vars, NEW distance \in 0..MaxRead, SeekRelative(distance)
      PROVE  PackageInv'
  BY <1>5, SkipKeeps
<1>6. ASSUME UNCHANGED archive_vars, NEW distance \in -1..MaxRead,
             NEW origin \in {"begin", "current", "end"}, SeekPackage(distance, origin)
      PROVE  PackageInv'
  BY <1>6, SeekKeeps
<1>7. CASE UNCHANGED <<archive_vars, reader_vars>>
  <2>1. ArchiveInv'
    BY <1>7 DEF PackageInv, ArchiveInv, archive_vars
  <2> QED BY <1>7, <2>1
          DEF PackageInv, ReaderTypeOK, Placed, DeliveredRight, reader_vars, End, ArchiveEnd
<1> QED BY <1>1, <1>2, <1>3, <1>4, <1>5, <1>6, <1>7 DEF ReaderNext

\* It has the types in it.
LEMMA PackageInvTyped == PackageInv => ArchivesTypeOK /\ ReaderTypeOK
BY DEF PackageInv, ArchiveInv, Indexed, Chained, Recorded, ArchivesTypeOK

\* The invariant holds throughout.
THEOREM PackageInvariant == ReaderSpec => []PackageInv
BY PackageInvInit, PackageInvNext, PTL DEF ReaderSpec

\* The variables of archives and readers have their types, for any paths,
\* listings and widths.
THEOREM PackageTypesHold == ReaderSpec => [](ArchivesTypeOK /\ ReaderTypeOK)
BY PackageInvTyped, PackageInvariant, PTL

\* kinoko_archive_open_entry opens what the last archive that listed the path
\* packs there, whatever collides and wherever the indexes broke off.
THEOREM PackageOpensLatest == ReaderSpec => []OpensLatest
<1>1. PackageInv => OpensLatest
  BY LooksUp, ArchiveAssumption DEF PackageInv, OpensLatest
<1> QED BY <1>1, PackageInvariant, PTL

\* Until the virtual Seek is used, reads, exact reads and skips of a packed file
\* in any mix deliver what lies behind what was read before, within the file.
THEOREM PackageReadsItsEntry == ReaderSpec => []ReadsItsEntry
<1>1. PackageInv => ReadsItsEntry
  BY DEF PackageInv, ReadsItsEntry, Placed, DeliveredRight
<1> QED BY <1>1, PackageInvariant, PTL
=============================================================================
