------------------------- MODULE ActorManagerProofs -------------------------
(***************************************************************************)
(* For any set of slots, any priorities and any depth of script calls: the *)
(* index stays exact, the loops reach no actor that is gone, and drawing   *)
(* and motion see the right actors.                                        *)
(*                                                                         *)
(* The heart of it is the walk of a refresh, which erases from the index   *)
(* it walks.  WalkInv says what holds behind each round of it; the rest is *)
(* ManagerInv, in which the stack of script calls tells which actors are   *)
(* alive and not yet indexed, and the cleanup flag whether the buffer is   *)
(* still current.  All but type correctness needs an Init that leaves the  *)
(* index alone: with another, the finding of actor_init_indexes applies.   *)
(***************************************************************************)
EXTENDS ActorManager, FiniteSetTheorems, SequenceTheorems, WellFoundedInduction, TLAPS

-----------------------------------------------------------------------------
(* Counting. *)

\* A set of numbers that is not empty has a least one.
LEMMA LeastOf ==
  ASSUME NEW T \in SUBSET Nat, T # {}
  PROVE  \E m \in T : \A k \in T : m <= k
<1> DEFINE R == OpToRel(<, Nat)
<1>1. IsWellFoundedOn(R, Nat)
  BY NatLessThanWellFounded
<1>2. \A k, m \in Nat : k < m => <<k, m>> \in R
  BY DEF OpToRel
<1> HIDE DEF R
<1>3. PICK m \in T : \A k \in T : ~(<<k, m>> \in R)
  BY <1>1, WFMin
<1>4. ASSUME NEW k \in T PROVE m <= k
  <2>1. k \in Nat /\ m \in Nat
    OBVIOUS
  <2>2. ~(k < m)
    BY <1>2, <1>3, <2>1
  <2> QED BY <2>1, <2>2
<1> QED BY <1>4

\* Induction, for a set of numbers.
LEMMA Reaches ==
  ASSUME NEW T \in SUBSET Nat, 0 \in T, \A n \in T : n + 1 \in T
  PROVE  T = Nat
<1> SUFFICES ASSUME Nat \ T # {} PROVE FALSE
  OBVIOUS
<1>1. PICK m \in Nat \ T : \A k \in Nat \ T : m <= k
  BY LeastOf
<1>2. m # 0 /\ m - 1 \in Nat /\ m - 1 \in T
  BY <1>1
<1> QED BY <1>1, <1>2

\* Places closed downwards are the first so many.
LEMMA Prefix ==
  ASSUME NEW N \in Nat, NEW T \in SUBSET (1..N),
         \A i \in T, j \in 1..N : j < i => j \in T
  PROVE  /\ Cardinality(T) \in 0..N
         /\ T = 1..Cardinality(T)
<1> DEFINE C == {k \in Nat : k + 1 \notin T}
<1>1. N \in C
  OBVIOUS
<1>2. PICK m \in C : \A k \in C : m <= k
  BY <1>1, LeastOf
<1>3. m \in 0..N
  BY <1>1, <1>2
<1>4. T = 1..m
  <2>1. ASSUME NEW i \in T PROVE i \in 1..m
    <3>1. CASE i > m
      <4>1. m + 1 \in 1..N /\ (m + 1 = i \/ m + 1 < i)
        BY <1>3, <3>1
      <4>2. m + 1 \in T
        BY <4>1
      <4> QED BY <4>2, <1>2
    <3> QED BY <3>1, <1>3
  <2>2. ASSUME NEW i \in 1..m PROVE i \in T
    <3>1. i - 1 \in Nat /\ ~(m <= i - 1) /\ (i - 1) + 1 = i
      BY <1>3
    <3>2. i - 1 \notin C
      BY <3>1, <1>2
    <3> QED BY <3>1, <3>2
  <2> QED BY <2>1, <2>2
<1>5. Cardinality(1..m) = m
  BY <1>3, FS_Interval
<1> QED BY <1>3, <1>4, <1>5

-----------------------------------------------------------------------------
(* Sequences. *)

\* Removal closes the gap.
LEMMA Removed ==
  ASSUME NEW S, NEW s \in Seq(S), NEW k \in 1..Len(s)
  PROVE  /\ RemoveAt(s, k) \in Seq(S)
         /\ Len(RemoveAt(s, k)) = Len(s) - 1
         /\ \A i \in 1..(Len(s) - 1) :
              RemoveAt(s, k)[i] = s[IF i < k THEN i ELSE i + 1]
<1> DEFINE f == SubSeq(s, 1, k - 1)
           g == SubSeq(s, k + 1, Len(s))
<1>1. f \in Seq(S) /\ Len(f) = k - 1 /\ \A i \in 1..(k - 1) : f[i] = s[i]
  BY SubSeqProperties
<1>2. /\ g \in Seq(S) /\ Len(g) = Len(s) - k
      /\ \A i \in 1..(Len(s) - k) : g[i] = s[k + i]
  BY SubSeqProperties
<1> HIDE DEF f, g
<1>3. /\ f \o g \in Seq(S)
      /\ Len(f \o g) = Len(f) + Len(g)
      /\ \A i \in 1..(Len(f) + Len(g)) :
           (f \o g)[i] = IF i <= Len(f) THEN f[i] ELSE g[i - Len(f)]
  BY <1>1, <1>2, ConcatProperties
<1>4. RemoveAt(s, k) = f \o g
  BY DEF RemoveAt, f, g
<1>5. ASSUME NEW i \in 1..(Len(s) - 1)
      PROVE  (f \o g)[i] = s[IF i < k THEN i ELSE i + 1]
  <2>1. CASE i < k
    BY <2>1, <1>1, <1>2, <1>3
  <2>2. CASE ~(i < k)
    <3>1. i - (k - 1) \in 1..(Len(s) - k) /\ k + (i - (k - 1)) = i + 1
      BY <2>2
    <3>2. (f \o g)[i] = g[i - (k - 1)]
      BY <2>2, <1>1, <1>2, <1>3
    <3>3. g[i - (k - 1)] = s[i + 1]
      BY <3>1, <1>2
    <3> QED BY <3>2, <3>3, <2>2
  <2> QED BY <2>1, <2>2
<1>6. Len(f \o g) = Len(s) - 1
  BY <1>1, <1>2, <1>3
<1> HIDE DEF RemoveAt
<1> QED BY <1>3, <1>4, <1>5, <1>6

\* Insertion moves what is behind by one.
LEMMA Inserted ==
  ASSUME NEW S, NEW s \in Seq(S), NEW k \in 1..(Len(s) + 1), NEW e \in S
  PROVE  /\ InsertAt(s, k, e) \in Seq(S)
         /\ Len(InsertAt(s, k, e)) = Len(s) + 1
         /\ \A i \in 1..(Len(s) + 1) :
              InsertAt(s, k, e)[i] = IF i < k THEN s[i] ELSE IF i = k THEN e ELSE s[i - 1]
<1> DEFINE f == SubSeq(s, 1, k - 1)
           g == SubSeq(s, k, Len(s))
           h == f \o <<e>>
<1>1. f \in Seq(S) /\ Len(f) = k - 1 /\ \A i \in 1..(k - 1) : f[i] = s[i]
  BY SubSeqProperties
<1>2. /\ g \in Seq(S) /\ Len(g) = Len(s) - k + 1
      /\ \A i \in 1..(Len(s) - k + 1) : g[i] = s[k + i - 1]
  BY SubSeqProperties
<1>3. <<e>> \in Seq(S) /\ Len(<<e>>) = 1 /\ <<e>>[1] = e
  OBVIOUS
<1> HIDE DEF f, g
<1>4. /\ h \in Seq(S) /\ Len(h) = k
      /\ \A i \in 1..k : h[i] = IF i < k THEN s[i] ELSE e
  <2>1. /\ h \in Seq(S) /\ Len(h) = Len(f) + Len(<<e>>)
        /\ \A i \in 1..(Len(f) + Len(<<e>>)) :
             h[i] = IF i <= Len(f) THEN f[i] ELSE <<e>>[i - Len(f)]
    BY <1>1, <1>3, ConcatProperties
  <2> HIDE DEF h
  <2> QED BY <2>1, <1>1, <1>3
<1> HIDE DEF h
<1>5. /\ h \o g \in Seq(S) /\ Len(h \o g) = Len(h) + Len(g)
      /\ \A i \in 1..(Len(h) + Len(g)) :
           (h \o g)[i] = IF i <= Len(h) THEN h[i] ELSE g[i - Len(h)]
  BY <1>2, <1>4, ConcatProperties
<1>6. InsertAt(s, k, e) = h \o g
  BY DEF InsertAt, f, g, h
<1>7. ASSUME NEW i \in 1..(Len(s) + 1)
      PROVE  (h \o g)[i] = IF i < k THEN s[i] ELSE IF i = k THEN e ELSE s[i - 1]
  <2>1. CASE i <= k
    BY <2>1, <1>2, <1>4, <1>5
  <2>2. CASE ~(i <= k)
    <3>1. i - k \in 1..(Len(s) - k + 1) /\ k + (i - k) - 1 = i - 1
      BY <2>2
    <3> QED BY <3>1, <2>2, <1>2, <1>4, <1>5
  <2> QED BY <2>1, <2>2
<1> QED BY <1>2, <1>4, <1>5, <1>6, <1>7

\* All but the last.
LEMMA Fronted ==
  ASSUME NEW S, NEW s \in Seq(S), s # <<>>
  PROVE  /\ Len(s) \in Nat \ {0}
         /\ Front(s) \in Seq(S)
         /\ Len(Front(s)) = Len(s) - 1
         /\ \A i \in 1..(Len(s) - 1) : Front(s)[i] = s[i]
<1>1. Len(s) \in Nat \ {0}
  BY EmptySeq
<1>2. \A i \in 1..(Len(s) - 1) : s[i] \in S
  BY <1>1, ElementOfSeq
<1>3. /\ Front(s) \in Seq(S)
      /\ Len(Front(s)) = IF 1 <= Len(s) - 1 THEN (Len(s) - 1) - 1 + 1 ELSE 0
      /\ \A i \in 1..((Len(s) - 1) - 1 + 1) : Front(s)[i] = s[1 + i - 1]
  BY <1>1, <1>2, SubSeqProperties DEF Front
<1>4. Len(Front(s)) = Len(s) - 1
  <2> DEFINE n == Len(s)
  <2>1. n \in Nat \ {0} /\ Len(Front(s)) = IF 1 <= n - 1 THEN (n - 1) - 1 + 1 ELSE 0
    BY <1>1, <1>3
  <2> HIDE DEF n
  <2>2. (IF 1 <= n - 1 THEN (n - 1) - 1 + 1 ELSE 0) = n - 1
    BY <2>1
  <2> QED BY <2>1, <2>2 DEF n
<1>5. ASSUME NEW i \in 1..(Len(s) - 1) PROVE Front(s)[i] = s[i]
  <2>1. i \in 1..((Len(s) - 1) - 1 + 1) /\ 1 + i - 1 = i
    BY <1>1
  <2> QED BY <2>1, <1>3
<1> QED BY <1>1, <1>3, <1>4, <1>5

-----------------------------------------------------------------------------
(* The index and its entries. *)

ActorsIn(entries) == {entries[i].actor : i \in 1..Len(entries)}

\* One entry for each actor, which it points to, in key order.
Exact(entries) ==
  /\ entries \in Seq(Entry)
  /\ \A i \in 1..Len(entries) : entries[i].named
  /\ \A i, j \in 1..Len(entries) :
       i < j => entries[i].actor # entries[j].actor /\ entries[i].key <= entries[j].key

\* The fields of an entry have their types.
LEMMA EntryFields ==
  ASSUME NEW entries \in Seq(Entry), NEW i \in 1..Len(entries)
  PROVE  /\ entries[i] \in Entry
         /\ entries[i].actor \in Actors
         /\ entries[i].key \in Priorities
         /\ entries[i].key \in Int
         /\ entries[i].named \in BOOLEAN
         /\ Len(entries) \in Nat
<1>1. entries[i] \in Entry /\ Len(entries) \in Nat
  BY ElementOfSeq
<1> QED BY <1>1, ManagerAssumption DEF Entry

\* The least of some places is one of them.
LEMMA MinOf ==
  ASSUME NEW T \in SUBSET Nat, T # {}
  PROVE  Min(T) \in T /\ \A k \in T : Min(T) <= k
<1>1. \E m \in T : \A k \in T : m <= k
  BY LeastOf
<1> QED BY <1>1 DEF Min

\* The named entry is looked for in the index.
LEMMA NamedPlace ==
  ASSUME NEW a, NEW entries \in Seq(Entry)
  PROVE  NamedAt(a, entries) \in 0..Len(entries)
<1> DEFINE I == {i \in 1..Len(entries) : entries[i].actor = a /\ entries[i].named}
<1>1. NamedAt(a, entries) = IF I # {} THEN Min(I) ELSE 0
  BY DEF NamedAt, SelectInSeq
<1>2. I \in SUBSET Nat /\ I \subseteq 1..Len(entries)
  OBVIOUS
<1> HIDE DEF I
<1>3. I # {} => Min(I) \in I
  BY <1>2, MinOf
<1>4. Len(entries) \in Nat
  OBVIOUS
<1>5. CASE I = {}
  BY <1>1, <1>4, <1>5
<1>6. CASE I # {}
  <2>1. NamedAt(a, entries) \in 1..Len(entries)
    BY <1>1, <1>2, <1>3, <1>6
  <2> QED BY <2>1, <1>4
<1> QED BY <1>5, <1>6

\* In an exact index an actor's named entry is its only one.
LEMMA NamedIsThere ==
  ASSUME NEW entries, Exact(entries), NEW k \in 1..Len(entries)
  PROVE  NamedAt(entries[k].actor, entries) = k
<1> DEFINE I == {i \in 1..Len(entries) : entries[i].actor = entries[k].actor /\ entries[i].named}
<1>1. NamedAt(entries[k].actor, entries) = IF I # {} THEN Min(I) ELSE 0
  BY DEF NamedAt, SelectInSeq
<1>2. I = {k}
  <2>1. k \in I
    BY DEF Exact
  <2>2. ASSUME NEW i \in I PROVE i = k
    <3>1. Len(entries) \in Nat /\ i \in Nat /\ k \in Nat
      BY DEF Exact
    <3> QED BY <3>1 DEF Exact
  <2> QED BY <2>1, <2>2
<1>3. Min({k}) = k
  BY DEF Min
<1> QED BY <1>1, <1>2, <1>3

-----------------------------------------------------------------------------
(* The walk of a refresh. *)

WalkStart == [at |-> 1, entries |-> index, kept |-> <<>>, gone |-> {}, left |-> Len(index)]

\* The walk is defined round by round.
LEMMA WalkRounds ==
  ASSUME index \in Seq(Entry)
  PROVE  /\ Walked[0] = WalkStart
         /\ \A r \in 1..Len(index) : Walked[r] = Visit(Walked[r - 1])
<1> DEFINE n == Len(index)
           Rounds(f, m) == f = [r \in 0..m |-> IF r = 0 THEN WalkStart ELSE Visit(f[r - 1])]
           T == {m \in Nat : \E f : Rounds(f, m)}
<1>0. n \in Nat
  OBVIOUS
<1>1. 0 \in T
  <2>1. Rounds([r \in 0..0 |-> WalkStart], 0)
    OBVIOUS
  <2> QED BY <2>1
<1>2. ASSUME NEW m \in T PROVE m + 1 \in T
  <2>1. PICK f : Rounds(f, m)
    OBVIOUS
  <2> DEFINE g == [r \in 0..(m + 1) |-> IF r <= m THEN f[r] ELSE Visit(f[m])]
  <2>2. ASSUME NEW r \in 0..(m + 1)
        PROVE  g[r] = IF r = 0 THEN WalkStart ELSE Visit(g[r - 1])
    <3>1. CASE r <= m
      <4>1. g[r] = f[r] /\ r \in 0..m
        BY <3>1
      <4>2. r # 0 => g[r - 1] = f[r - 1]
        BY <3>1
      <4>3. f[r] = IF r = 0 THEN WalkStart ELSE Visit(f[r - 1])
        BY <2>1, <4>1
      <4> QED BY <4>1, <4>2, <4>3
    <3>2. CASE ~(r <= m)
      <4>1. r = m + 1 /\ r # 0 /\ r - 1 = m /\ m \in 0..(m + 1)
        BY <3>2
      <4>2. g[r] = Visit(f[m]) /\ g[m] = f[m]
        BY <4>1
      <4> QED BY <4>1, <4>2
    <3> QED BY <3>1, <3>2
  <2>3. Rounds(g, m + 1)
    <3>1. [r \in 0..(m + 1) |-> IF r = 0 THEN WalkStart ELSE Visit(g[r - 1])] = g
      BY <2>2
    <3> QED BY <3>1
  <2>4. m + 1 \in Nat
    OBVIOUS
  <2> HIDE DEF Rounds, g
  <2> QED BY <2>3, <2>4
<1>3. T = Nat
  <2>1. T \in SUBSET Nat
    OBVIOUS
  <2> HIDE DEF T
  <2> QED BY <1>1, <1>2, <2>1, Reaches
<1>4. PICK f : Rounds(f, n)
  <2>1. n \in T
    BY <1>0, <1>3
  <2> QED BY <2>1
<1>5. Rounds(Walked, n)
  BY <1>4 DEF Walked, WalkStart
<1> QED BY <1>0, <1>5

WalkState == [at: Nat \ {0}, entries: Seq(Entry), kept: Seq(Actors), gone: SUBSET Actors,
              left: Int]

\* A round keeps the walk's types, and the count loses at most one.
LEMMA VisitTyped ==
  ASSUME actor \in [Actors -> ActorRecord], NEW w \in WalkState
  PROVE  Visit(w) \in WalkState /\ Visit(w).left >= w.left - 1
<1>0. /\ w.at \in Nat \ {0} /\ w.entries \in Seq(Entry) /\ w.kept \in Seq(Actors)
      /\ w.gone \in SUBSET Actors /\ w.left \in Int
      /\ w = [at |-> w.at, entries |-> w.entries, kept |-> w.kept, gone |-> w.gone,
              left |-> w.left]
  BY DEF WalkState
<1>1. CASE w.at > Len(w.entries)
  BY <1>0, <1>1 DEF Visit
<1>2. CASE ~(w.at > Len(w.entries))
  <2> DEFINE a == w.entries[w.at].actor
             named == NamedAt(a, w.entries)
  <2>1. w.at \in 1..Len(w.entries)
    BY <1>0, <1>2
  <2>2. a \in Actors
    BY <1>0, <2>1, EntryFields
  <2>3. named \in 0..Len(w.entries) /\ Len(w.entries) \in Nat
    BY <1>0, NamedPlace
  <2>4. named # 0 => RemoveAt(w.entries, named) \in Seq(Entry)
    BY <1>0, <2>3, Removed
  <2>5. Append(w.kept, a) \in Seq(Actors)
    BY <1>0, <2>2
  <2>6. Visit(w) = IF ~ actor[a].release_pending
           THEN [w EXCEPT !.at = @ + 1, !.kept = Append(@, a)]
           ELSE [w EXCEPT !.at = IF named = 0 THEN @ + 1 ELSE named,
                          !.entries = IF named = 0 THEN @ ELSE RemoveAt(@, named),
                          !.gone = @ \cup {a},
                          !.left = @ - 1]
    BY <1>2 DEF Visit
  <2> HIDE DEF a, named
  <2>7. CASE ~ actor[a].release_pending
    <3>1. Visit(w) = [at |-> w.at + 1, entries |-> w.entries, kept |-> Append(w.kept, a),
                      gone |-> w.gone, left |-> w.left]
      BY <1>0, <2>6, <2>7
    <3>2. w.at + 1 \in Nat \ {0} /\ w.left >= w.left - 1
      BY <1>0
    <3> QED BY <1>0, <2>5, <3>1, <3>2 DEF WalkState
  <2>8. CASE actor[a].release_pending
    <3>1. Visit(w) = [at |-> IF named = 0 THEN w.at + 1 ELSE named,
                      entries |-> IF named = 0 THEN w.entries ELSE RemoveAt(w.entries, named),
                      kept |-> w.kept, gone |-> w.gone \cup {a}, left |-> w.left - 1]
      BY <1>0, <2>6, <2>8
    <3>2. /\ (IF named = 0 THEN w.at + 1 ELSE named) \in Nat \ {0}
          /\ w.left - 1 \in Int /\ w.left - 1 >= w.left - 1
          /\ w.gone \cup {a} \in SUBSET Actors
      BY <1>0, <2>2, <2>3
    <3>3. (IF named = 0 THEN w.entries ELSE RemoveAt(w.entries, named)) \in Seq(Entry)
      BY <1>0, <2>4
    <3> QED BY <1>0, <3>1, <3>2, <3>3 DEF WalkState
  <2> QED BY <2>7, <2>8
<1> QED BY <1>1, <1>2

\* The walk has its types behind every round, and the count stays a count.
LEMMA WalkTyped ==
  ASSUME index \in Seq(Entry), actor \in [Actors -> ActorRecord]
  PROVE  Walk \in WalkState /\ Walk.left \in Nat
<1> DEFINE n == Len(index)
           T == {r \in Nat : r <= n => Walked[r] \in WalkState /\ Walked[r].left >= n - r}
<1>0. n \in Nat
  OBVIOUS
<1>1. 0 \in T
  <2>1. WalkStart \in WalkState /\ WalkStart.left = n
    BY <1>0 DEF WalkStart, WalkState
  <2> QED BY <1>0, <2>1, WalkRounds
<1>2. ASSUME NEW r \in T PROVE r + 1 \in T
  <2> SUFFICES ASSUME r + 1 <= n
               PROVE  Walked[r + 1] \in WalkState /\ Walked[r + 1].left >= n - (r + 1)
    OBVIOUS
  <2>1. r + 1 \in 1..n /\ (r + 1) - 1 = r /\ r <= n
    BY <1>0
  <2>2. Walked[r] \in WalkState /\ Walked[r].left >= n - r
    BY <2>1
  <2>3. Walked[r + 1] = Visit(Walked[r])
    BY <2>1, WalkRounds
  <2>4. Walked[r + 1] \in WalkState /\ Walked[r + 1].left >= Walked[r].left - 1
    BY <2>2, <2>3, VisitTyped
  <2>5. Walked[r].left \in Int /\ Walked[r + 1].left \in Int
    BY <2>2, <2>4 DEF WalkState
  <2> QED BY <1>0, <2>2, <2>4, <2>5
<1>3. n \in T
  <2>1. T \in SUBSET Nat
    OBVIOUS
  <2> HIDE DEF T
  <2> QED BY <1>0, <1>1, <1>2, <2>1, Reaches
<1>4. Walk \in WalkState /\ Walk.left >= 0
  BY <1>0, <1>3 DEF Walk
<1> QED BY <1>4 DEF WalkState

-----------------------------------------------------------------------------
(* Type correctness, whatever Init does. *)

\* The render ranges are counted.
LEMMA CountsAreNat ==
  ASSUME NEW kept \in Seq(Actors)
  PROVE  /\ \A limit \in Int : Below(limit, kept) \in Nat
         /\ Cardinality({i \in 1..Len(kept) : actor[kept[i]].priority = -1}) \in Nat
<1>1. IsFiniteSet(1..Len(kept))
  <2>1. Len(kept) \in Nat
    OBVIOUS
  <2> QED BY <2>1, FS_Interval
<1>2. ASSUME NEW limit \in Int PROVE Below(limit, kept) \in Nat
  <2>1. IsFiniteSet({i \in 1..Len(kept) : actor[kept[i]].priority < limit})
    BY <1>1, FS_Subset
  <2> QED BY <2>1, FS_CardinalityType DEF Below
<1>3. IsFiniteSet({i \in 1..Len(kept) : actor[kept[i]].priority = -1})
  BY <1>1, FS_Subset
<1> QED BY <1>2, <1>3, FS_CardinalityType

\* The ends of the ranges have their type.
LEMMA EndsTyped ==
  ASSUME NEW kept \in Seq(Actors), NEW count \in Nat
  PROVE  LayerEnds(kept, count) \in Seq(Nat) /\ Len(LayerEnds(kept, count)) = 4
<1>1. /\ Below(65535, kept) \in Nat /\ Below(65536, kept) \in Nat
      /\ Cardinality({i \in 1..Len(kept) : actor[kept[i]].priority = -1}) \in Nat
  BY CountsAreNat
<1> QED BY <1>1 DEF LayerEnds

\* A refresh keeps the types of what it writes.
LEMMA RefreshTyped ==
  ASSUME TypeOK, Refresh
  PROVE  /\ live' \subseteq Actors
         /\ index' \in Seq(Entry)
         /\ iteration' \in Seq(Actors)
         /\ iteration_count' \in Nat
         /\ layers' \in Seq(Nat) /\ Len(layers') = 4
         /\ cleanup_pending' \in BOOLEAN
         /\ newborn' \subseteq Actors
<1>1. CASE cleanup_pending /\ index # <<>>
  <2>1. Walk \in WalkState /\ Walk.left \in Nat
    BY WalkTyped DEF TypeOK
  <2>2. Walk.entries \in Seq(Entry) /\ Walk.kept \in Seq(Actors)
    BY <2>1 DEF WalkState
  <2>3. LayerEnds(Walk.kept, Walk.left) \in Seq(Nat) /\ Len(LayerEnds(Walk.kept, Walk.left)) = 4
    BY <2>1, <2>2, EndsTyped
  <2> QED BY <1>1, <2>1, <2>2, <2>3 DEF TypeOK, Refresh
<1>2. CASE ~(cleanup_pending /\ index # <<>>)
  BY <1>2 DEF TypeOK, Refresh
<1> QED BY <1>1, <1>2

Masked(e, a) == [actor |-> e.actor, key |-> e.key, named |-> e.named /\ e.actor # a]
Under(p, entries) == Cardinality({i \in 1..Len(entries) : entries[i].key <= p})

\* An insertion masks the actor's other entries and puts the new one behind those
\* of no greater key.
LEMMA InsertShape ==
  ASSUME NEW a \in Actors, NEW p \in Priorities, NEW entries \in Seq(Entry)
  PROVE  /\ Under(p, entries) \in 0..Len(entries)
         /\ InsertEntry(a, p, entries) \in Seq(Entry)
         /\ Len(InsertEntry(a, p, entries)) = Len(entries) + 1
         /\ \A i \in 1..(Len(entries) + 1) :
              InsertEntry(a, p, entries)[i] =
                IF i < Under(p, entries) + 1 THEN Masked(entries[i], a)
                ELSE IF i = Under(p, entries) + 1 THEN [actor |-> a, key |-> p, named |-> TRUE]
                ELSE Masked(entries[i - 1], a)
<1> DEFINE n == Len(entries)
           others == [i \in 1..n |-> [entries[i] EXCEPT !.named = @ /\ entries[i].actor # a]]
           masked == [i \in 1..n |-> Masked(entries[i], a)]
           new == [actor |-> a, key |-> p, named |-> TRUE]
           b == Under(p, entries)
<1>1. n \in Nat
  OBVIOUS
<1>2. \A i \in 1..n : entries[i] \in Entry
  BY EntryFields
<1>3. \A i \in 1..n : Masked(entries[i], a) \in Entry
  BY <1>2 DEF Masked, Entry
<1>4. \A i \in 1..n :
        [entries[i] EXCEPT !.named = @ /\ entries[i].actor # a] = Masked(entries[i], a)
  BY <1>2 DEF Masked, Entry
<1>5. others = masked
  BY <1>4
<1>6. /\ masked \in Seq(Entry) /\ Len(masked) = n
      /\ \A i \in 1..n : masked[i] = Masked(entries[i], a)
  BY <1>1, <1>3
<1>7. b \in 0..n
  <2>1. IsFiniteSet(1..n) /\ Cardinality(1..n) = n
    BY <1>1, FS_Interval
  <2>2. {i \in 1..n : entries[i].key <= p} \subseteq 1..n
    OBVIOUS
  <2>3. /\ IsFiniteSet({i \in 1..n : entries[i].key <= p})
        /\ Cardinality({i \in 1..n : entries[i].key <= p}) <= Cardinality(1..n)
    BY <2>1, <2>2, FS_Subset
  <2>4. Cardinality({i \in 1..n : entries[i].key <= p}) \in Nat
    BY <2>3, FS_CardinalityType
  <2> QED BY <1>1, <2>1, <2>3, <2>4 DEF Under
<1>8. InsertEntry(a, p, entries) = InsertAt(masked, b + 1, new)
  BY <1>5 DEF InsertEntry, Under
<1>9. new \in Entry
  BY DEF Entry
<1> HIDE DEF masked, others, b, new
<1>10. b + 1 \in 1..(Len(masked) + 1)
  BY <1>1, <1>6, <1>7
<1>11. /\ InsertAt(masked, b + 1, new) \in Seq(Entry)
       /\ Len(InsertAt(masked, b + 1, new)) = n + 1
       /\ \A i \in 1..(n + 1) :
            InsertAt(masked, b + 1, new)[i] =
              IF i < b + 1 THEN masked[i] ELSE IF i = b + 1 THEN new ELSE masked[i - 1]
  <2>1. /\ InsertAt(masked, b + 1, new) \in Seq(Entry)
        /\ Len(InsertAt(masked, b + 1, new)) = Len(masked) + 1
        /\ \A i \in 1..(Len(masked) + 1) :
             InsertAt(masked, b + 1, new)[i] =
               IF i < b + 1 THEN masked[i] ELSE IF i = b + 1 THEN new ELSE masked[i - 1]
    <3> DEFINE k == b + 1
    <3>1. k \in 1..(Len(masked) + 1) /\ masked \in Seq(Entry) /\ new \in Entry
      BY <1>6, <1>9, <1>10
    <3> HIDE DEF k
    <3>2. /\ InsertAt(masked, k, new) \in Seq(Entry)
          /\ Len(InsertAt(masked, k, new)) = Len(masked) + 1
          /\ \A i \in 1..(Len(masked) + 1) :
               InsertAt(masked, k, new)[i] =
                 IF i < k THEN masked[i] ELSE IF i = k THEN new ELSE masked[i - 1]
      BY <3>1, Inserted
    <3> QED BY <3>2 DEF k
  <2>2. Len(masked) = n
    BY <1>6
  <2> HIDE DEF n
  <2> QED BY <2>1, <2>2
<1>12. ASSUME NEW i \in 1..(n + 1)
       PROVE  InsertAt(masked, b + 1, new)[i] =
                IF i < b + 1 THEN Masked(entries[i], a)
                ELSE IF i = b + 1 THEN new
                ELSE Masked(entries[i - 1], a)
  <2>1. CASE i < b + 1
    BY <1>1, <1>6, <1>7, <1>11, <2>1
  <2>2. CASE i = b + 1
    BY <1>1, <1>7, <1>11, <2>2
  <2>3. CASE i > b + 1
    <3>1. i - 1 \in 1..n
      BY <1>1, <1>7, <2>3
    <3> QED BY <1>1, <1>6, <1>7, <1>11, <2>3, <3>1
  <2> QED BY <1>1, <1>7, <2>1, <2>2, <2>3
<1> QED BY <1>7, <1>8, <1>11, <1>12 DEF b, new

\* Indexing again keeps the type of the index.
LEMMA ReindexTyped ==
  ASSUME NEW a \in Actors, NEW p \in Priorities, index \in Seq(Entry)
  PROVE  Reindexed(a, p) \in Seq(Entry)
<1> DEFINE at == NamedAt(a, index)
           entries == IF actor[a].held /\ at # 0 THEN RemoveAt(index, at) ELSE index
<1>1. at \in 0..Len(index) /\ Len(index) \in Nat
  BY NamedPlace
<1>2. at # 0 => RemoveAt(index, at) \in Seq(Entry)
  BY <1>1, Removed
<1>3. entries \in Seq(Entry)
  BY <1>2
<1>4. Reindexed(a, p) = InsertEntry(a, p, entries)
  BY DEF Reindexed
<1> HIDE DEF entries
<1> QED BY <1>3, <1>4, InsertShape

\* Every step keeps the types.
LEMMA TypesKept == ASSUME TypeOK, [Next]_vars PROVE TypeOK'
<1> USE DEF TypeOK
<1>1. CASE UNCHANGED vars
  BY <1>1 DEF vars
<1>2. ASSUME NEW a \in Actors, Create(a) PROVE TypeOK'
  <2>1. [kind |-> "create", actor |-> a] \in Frame
    BY DEF Frame
  <2>2. actor' \in [Actors -> ActorRecord]
    BY <1>2, ManagerAssumption DEF Create, NewActor, ActorRecord
  <2>3. calls' \in Seq(Frame) /\ Len(calls') <= MaxCalls
    BY <1>2, <2>1, ManagerAssumption DEF Create, Call
  <2> QED BY <1>2, <2>2, <2>3 DEF Create
<1>3. ASSUME NEW a \in Actors, Release(a) PROVE TypeOK'
  <2>1. actor' \in [Actors -> ActorRecord]
    BY <1>3 DEF Release, ActorRecord
  <2> QED BY <1>3, <2>1 DEF Release
<1>4. ASSUME NEW a \in Actors, Reset(a) PROVE TypeOK'
  <2>1. [kind |-> "reset", actor |-> a] \in Frame
    BY DEF Frame
  <2>2. actor' \in [Actors -> ActorRecord]
    BY <1>4, ManagerAssumption DEF Reset, ActorRecord
  <2>3. calls' \in Seq(Frame) /\ Len(calls') <= MaxCalls
    BY <1>4, <2>1, ManagerAssumption DEF Reset, Call
  <2> QED BY <1>4, <2>2, <2>3 DEF Reset
<1>5. ASSUME NEW a \in Actors, NEW p \in Priorities, ResetPriority(a, p) PROVE TypeOK'
  <2>1. actor' \in [Actors -> ActorRecord]
    BY <1>5 DEF ResetPriority, ActorRecord
  <2>2. index' \in Seq(Entry)
    BY <1>5, ReindexTyped DEF ResetPriority
  <2> QED BY <1>5, <2>1, <2>2 DEF ResetPriority
<1>6. CASE ClearActor
  <2>1. index' \in Seq(Entry)
    BY <1>6 DEF ClearActor
  <2> QED BY <1>6, <2>1 DEF ClearActor
<1>7. calls # <<>> => Front(calls) \in Seq(Frame) /\ Len(Front(calls)) <= MaxCalls
  BY Fronted, ManagerAssumption
<1>8. ASSUME NEW a \in Actors, NEW p \in Priorities, CreateReturns(a, p) PROVE TypeOK'
  <2>1. actor' \in [Actors -> ActorRecord]
    BY <1>8 DEF CreateReturns, ActorRecord
  <2>2. index' \in Seq(Entry)
    BY <1>8, InsertShape DEF CreateReturns
  <2> QED BY <1>7, <1>8, <2>1, <2>2 DEF CreateReturns, Running, Return
<1>9. ASSUME NEW a \in Actors, NEW p \in Priorities, ResetReturns(a, p) PROVE TypeOK'
  <2>1. actor' \in [Actors -> ActorRecord]
    BY <1>9 DEF ResetReturns, ActorRecord
  <2>2. index' \in Seq(Entry)
    BY <1>9, ReindexTyped DEF ResetReturns
  <2> QED BY <1>7, <1>9, <2>1, <2>2 DEF ResetReturns, Running, Return
<1>10. ASSUME NEW a \in Actors, calls = <<>>, MaxCalls > 0, Call("callback", a)
       PROVE  calls' \in Seq(Frame) /\ Len(calls') <= MaxCalls
  <2>1. [kind |-> "callback", actor |-> a] \in Frame
    BY DEF Frame
  <2> QED BY <1>10, <2>1, ManagerAssumption DEF Call
<1>11. CASE Collides
  BY <1>10, <1>11 DEF Collides
<1>12. CASE CallbackReturns
  BY <1>7, <1>12 DEF CallbackReturns, Return
<1>13. CASE UpdateBegins
  BY <1>13, RefreshTyped DEF UpdateBegins
<1>14. CASE DispatchEnds
  BY <1>14, RefreshTyped DEF DispatchEnds
<1>15. CASE TickSkips
  BY <1>15 DEF TickSkips
<1>16. CASE TickCalls
  BY <1>10, <1>16 DEF TickCalls
<1>17. CASE TicksEnd
  BY <1>17, RefreshTyped DEF TicksEnd
<1>18. CASE UpdateEnds
  BY <1>18 DEF UpdateEnds
<1>19. CASE Shutdown
  <2>1. index' \in Seq(Entry) /\ iteration' \in Seq(Actors)
    BY <1>19 DEF Shutdown
  <2> QED BY <1>19, <2>1 DEF Shutdown
<1> HIDE DEF TypeOK
<1> QED BY <1>1, <1>2, <1>3, <1>4, <1>5, <1>6, <1>8, <1>9, <1>11, <1>12, <1>13, <1>14, <1>15,
           <1>16, <1>17, <1>18, <1>19 DEF Next, Script, InitReturns, Update

\* Every variable has its type, whatever the scripts' Init does.
THEOREM ManagerTypeCorrect == Spec => []TypeOK
<1>1. Init => TypeOK
  <2> SUFFICES ASSUME Init PROVE TypeOK
    OBVIOUS
  <2>1. NewActor \in ActorRecord
    BY ManagerAssumption DEF NewActor, ActorRecord
  <2>2. /\ index \in Seq(Entry) /\ iteration \in Seq(Actors)
        /\ calls \in Seq(Frame) /\ Len(calls) <= MaxCalls
    BY ManagerAssumption DEF Init
  <2>3. layers \in Seq(Nat) /\ Len(layers) = 4
    BY DEF Init
  <2>4. actor \in [Actors -> ActorRecord]
    BY <2>1 DEF Init
  <2> QED BY <2>2, <2>3, <2>4 DEF Init, TypeOK
<1> QED BY <1>1, TypesKept, PTL DEF Spec

-----------------------------------------------------------------------------
(* What insertion, removal and the walk do to an exact index. *)

\* Order and uniqueness, for two places of an exact index.
LEMMA ExactOrder ==
  ASSUME NEW entries, Exact(entries),
         NEW i \in 1..Len(entries), NEW j \in 1..Len(entries)
  PROVE  /\ i <= j => entries[i].key <= entries[j].key
         /\ entries[i].actor = entries[j].actor => i = j
<1>1. Len(entries) \in Nat /\ i \in Nat /\ j \in Nat
  BY DEF Exact
<1>2. entries[i].key \in Int /\ entries[j].key \in Int
  BY EntryFields DEF Exact
<1> QED BY <1>1, <1>2 DEF Exact

\* Without one entry an exact index is exact, for the other actors.
LEMMA RemoveExact ==
  ASSUME NEW entries, Exact(entries), NEW k \in 1..Len(entries)
  PROVE  /\ Exact(RemoveAt(entries, k))
         /\ ActorsIn(RemoveAt(entries, k)) = ActorsIn(entries) \ {entries[k].actor}
         /\ \A i \in 1..(Len(entries) - 1) :
              \E j \in 1..Len(entries) : j # k /\ RemoveAt(entries, k)[i] = entries[j]
<1> DEFINE r == RemoveAt(entries, k)
           n == Len(entries)
           old(i) == IF i < k THEN i ELSE i + 1
<1>1. entries \in Seq(Entry) /\ n \in Nat /\ k \in 1..n
  BY DEF Exact
<1>2. r \in Seq(Entry) /\ Len(r) = n - 1 /\ \A i \in 1..(n - 1) : r[i] = entries[old(i)]
  BY <1>1, Removed
<1>3. /\ \A i \in 1..(n - 1) : old(i) \in 1..n /\ old(i) # k
      /\ \A i, j \in 1..(n - 1) : i < j => old(i) < old(j)
      /\ \A j \in 1..n : j # k => \E i \in 1..(n - 1) : old(i) = j
  <2>1. ASSUME NEW j \in 1..n, j # k PROVE \E i \in 1..(n - 1) : old(i) = j
    <3>1. CASE j < k
      <4>1. j \in 1..(n - 1) /\ old(j) = j
        BY <1>1, <3>1
      <4> QED BY <4>1
    <3>2. CASE j > k
      <4>1. j - 1 \in 1..(n - 1) /\ old(j - 1) = j
        BY <1>1, <3>2
      <4> QED BY <4>1
    <3> QED BY <1>1, <2>1, <3>1, <3>2
  <2> QED BY <1>1, <2>1
<1> HIDE DEF r, old, n
<1>4. Exact(r)
  <2>1. \A i \in 1..Len(r) : r[i].named
    BY <1>2, <1>3 DEF Exact, n
  <2>2. ASSUME NEW i \in 1..Len(r), NEW j \in 1..Len(r), i < j
        PROVE  r[i].actor # r[j].actor /\ r[i].key <= r[j].key
    <3>1. r[i] = entries[old(i)] /\ r[j] = entries[old(j)]
      BY <1>2
    <3>2. old(i) \in 1..n /\ old(j) \in 1..n /\ old(i) < old(j)
      BY <1>2, <1>3, <2>2
    <3> QED BY <3>1, <3>2 DEF Exact, n
  <2> QED BY <1>2, <2>1, <2>2 DEF Exact
<1>5. ActorsIn(r) = ActorsIn(entries) \ {entries[k].actor}
  <2>1. ASSUME NEW i \in 1..Len(r)
        PROVE  r[i].actor \in ActorsIn(entries) \ {entries[k].actor}
    <3>1. r[i] = entries[old(i)] /\ old(i) \in 1..n /\ old(i) # k
      BY <1>2, <1>3
    <3>2. entries[old(i)].actor # entries[k].actor
      BY <1>1, <3>1, ExactOrder DEF n
    <3> QED BY <3>1, <3>2 DEF ActorsIn, n
  <2>2. ASSUME NEW j \in 1..n, entries[j].actor # entries[k].actor
        PROVE  entries[j].actor \in ActorsIn(r)
    <3>1. PICK i \in 1..(n - 1) : old(i) = j
      BY <1>3, <2>2
    <3> QED BY <1>2, <3>1 DEF ActorsIn
  <2> QED BY <2>1, <2>2 DEF ActorsIn, n
<1>6. \A i \in 1..(n - 1) : \E j \in 1..n : j # k /\ r[i] = entries[j]
  BY <1>2, <1>3
<1> QED BY <1>4, <1>5, <1>6 DEF r, n

\* With an entry for a new actor an exact index is exact.
LEMMA InsertExact ==
  ASSUME NEW entries, Exact(entries), NEW a \in Actors, NEW p \in Priorities,
         a \notin ActorsIn(entries)
  PROVE  /\ Exact(InsertEntry(a, p, entries))
         /\ ActorsIn(InsertEntry(a, p, entries)) = ActorsIn(entries) \cup {a}
         /\ \A i \in 1..Len(InsertEntry(a, p, entries)) :
              \/ InsertEntry(a, p, entries)[i] = [actor |-> a, key |-> p, named |-> TRUE]
              \/ \E j \in 1..Len(entries) : InsertEntry(a, p, entries)[i] = entries[j]
<1> DEFINE e == InsertEntry(a, p, entries)
           n == Len(entries)
           b == Under(p, entries)
           new == [actor |-> a, key |-> p, named |-> TRUE]
<1>1. entries \in Seq(Entry) /\ n \in Nat
  BY DEF Exact
<1>2. ASSUME NEW i \in 1..n PROVE Masked(entries[i], a) = entries[i]
  <2>1. entries[i].actor # a /\ entries[i].named /\ entries[i] \in Entry
    BY <1>1, EntryFields DEF Exact, ActorsIn
  <2> QED BY <2>1 DEF Masked, Entry
<1>3. /\ b \in 0..n /\ e \in Seq(Entry) /\ Len(e) = n + 1
      /\ \A i \in 1..(n + 1) :
           e[i] = IF i < b + 1 THEN Masked(entries[i], a)
                  ELSE IF i = b + 1 THEN new ELSE Masked(entries[i - 1], a)
  BY <1>1, InsertShape
<1>4. \A i \in 1..n : entries[i].key <= p <=> i <= b
  <2> DEFINE T == {i \in 1..n : entries[i].key <= p}
  <2>1. \A i \in T, j \in 1..n : j < i => j \in T
    <3> SUFFICES ASSUME NEW i \in T, NEW j \in 1..n, j < i PROVE entries[j].key <= p
      OBVIOUS
    <3>1. entries[j].key \in Int /\ entries[i].key \in Int /\ p \in Int
      BY <1>1, EntryFields, ManagerAssumption
    <3>2. entries[j].key <= entries[i].key
      BY ExactOrder
    <3> QED BY <3>1, <3>2
  <2>2. T = 1..Cardinality(T)
    <3>1. T \in SUBSET (1..n)
      OBVIOUS
    <3> HIDE DEF T, n
    <3> QED BY <1>1, <2>1, <3>1, Prefix
  <2>3. Cardinality(T) = b
    BY DEF Under
  <2> QED BY <1>3, <2>2, <2>3
<1> HIDE DEF e, n, b, new
<1>5. \A i \in 1..(n + 1) :
        /\ i <= b => i \in 1..n /\ e[i] = entries[i]
        /\ i = b + 1 => e[i] = new
        /\ i > b + 1 => i - 1 \in 1..n /\ e[i] = entries[i - 1]
  BY <1>1, <1>2, <1>3
<1>6. new.actor = a /\ new.key = p /\ new.named
  BY DEF new
<1>7. \A i \in 1..n : entries[i].key \in Int /\ entries[i].actor # a
  BY <1>1, EntryFields DEF ActorsIn, n
<1>8. p \in Int
  BY ManagerAssumption
<1>9. Exact(e)
  <2>1. ASSUME NEW i \in 1..(n + 1) PROVE e[i].named
    <3>1. CASE i <= b
      BY <1>5, <3>1 DEF Exact, n
    <3>2. CASE i = b + 1
      BY <1>5, <1>6, <3>2
    <3>3. CASE i > b + 1
      BY <1>5, <3>3 DEF Exact, n
    <3> QED BY <1>1, <1>3, <3>1, <3>2, <3>3
  <2>2. ASSUME NEW i \in 1..(n + 1), NEW j \in 1..(n + 1), i < j
        PROVE  e[i].actor # e[j].actor /\ e[i].key <= e[j].key
    <3>0. b \in Nat /\ i \in Nat /\ j \in Nat
      BY <1>1, <1>3
    <3>1. CASE j <= b
      <4>1. i <= b
        BY <3>0, <3>1, <2>2
      <4> QED BY <1>5, <2>2, <3>1, <4>1 DEF Exact, n
    <3>2. CASE j = b + 1
      <4>1. i <= b
        BY <3>0, <3>2, <2>2
      <4> QED BY <1>4, <1>5, <1>6, <1>7, <3>2, <4>1
    <3>3. CASE j > b + 1 /\ i <= b
      <4>1. i < j - 1
        BY <3>0, <3>3
      <4> QED BY <1>5, <3>3, <4>1 DEF Exact, n
    <3>4. CASE j > b + 1 /\ i = b + 1
      <4>1. j - 1 \in 1..n /\ e[j] = entries[j - 1] /\ ~(j - 1 <= b)
        BY <3>0, <1>5, <3>4
      <4>2. ~(entries[j - 1].key <= p) /\ entries[j - 1].actor # a /\ entries[j - 1].key \in Int
        BY <1>4, <1>7, <4>1
      <4> QED BY <1>5, <1>6, <1>8, <3>4, <4>1, <4>2
    <3>5. CASE j > b + 1 /\ i > b + 1
      <4>1. i - 1 < j - 1
        BY <3>0, <2>2
      <4> QED BY <1>5, <3>5, <4>1 DEF Exact, n
    <3> QED BY <3>0, <3>1, <3>2, <3>3, <3>4, <3>5
  <2> QED BY <1>3, <2>1, <2>2 DEF Exact
<1>10. ActorsIn(e) = ActorsIn(entries) \cup {a}
  <2>1. ASSUME NEW i \in 1..(n + 1) PROVE e[i].actor \in ActorsIn(entries) \cup {a}
    BY <1>1, <1>3, <1>5, <1>6 DEF ActorsIn, n
  <2>2. ASSUME NEW j \in 1..n PROVE entries[j].actor \in ActorsIn(e)
    <3>1. CASE j <= b
      <4>1. j \in 1..(n + 1)
        BY <1>1
      <4> QED BY <1>3, <1>5, <3>1, <4>1 DEF ActorsIn
    <3>2. CASE j > b
      <4>1. j + 1 \in 1..(n + 1) /\ j + 1 > b + 1 /\ (j + 1) - 1 = j
        BY <1>1, <1>3, <3>2
      <4>2. e[j + 1] = entries[j]
        BY <1>5, <4>1
      <4> QED BY <1>3, <4>1, <4>2 DEF ActorsIn
    <3> QED BY <1>1, <1>3, <3>1, <3>2
  <2>3. a \in ActorsIn(e)
    <3>1. b + 1 \in 1..(n + 1)
      BY <1>1, <1>3
    <3> QED BY <1>3, <1>5, <1>6, <3>1 DEF ActorsIn
  <2> QED BY <1>3, <2>1, <2>2, <2>3 DEF ActorsIn, n
<1>11. ASSUME NEW i \in 1..Len(e)
       PROVE  e[i] = new \/ \E j \in 1..n : e[i] = entries[j]
  <2>1. i \in 1..(n + 1) /\ b \in Nat
    BY <1>1, <1>3
  <2>2. CASE i <= b
    BY <1>5, <2>1, <2>2
  <2>3. CASE i = b + 1
    BY <1>5, <2>1, <2>3
  <2>4. CASE i > b + 1
    BY <1>5, <2>1, <2>4
  <2> QED BY <1>1, <2>1, <2>2, <2>3, <2>4
<1> QED BY <1>9, <1>10, <1>11 DEF e, n, new

\* Indexing an actor again moves its entry and no other.
LEMMA ReindexExact ==
  ASSUME Exact(index), NEW a \in Actors, NEW p \in Priorities,
         a \in ActorsIn(index), actor[a].held
  PROVE  /\ Exact(Reindexed(a, p))
         /\ ActorsIn(Reindexed(a, p)) = ActorsIn(index)
         /\ \A i \in 1..Len(Reindexed(a, p)) :
              \/ Reindexed(a, p)[i] = [actor |-> a, key |-> p, named |-> TRUE]
              \/ \E j \in 1..Len(index) : index[j].actor # a /\ Reindexed(a, p)[i] = index[j]
<1>1. PICK k \in 1..Len(index) : index[k].actor = a
  BY DEF ActorsIn
<1>2. NamedAt(a, index) = k
  BY <1>1, NamedIsThere
<1>3. k # 0
  OBVIOUS
<1> DEFINE r == RemoveAt(index, k)
<1>4. Reindexed(a, p) = InsertEntry(a, p, r)
  BY <1>2, <1>3 DEF Reindexed
<1>5. /\ Exact(r) /\ ActorsIn(r) = ActorsIn(index) \ {a}
      /\ \A i \in 1..(Len(index) - 1) : \E j \in 1..Len(index) : j # k /\ r[i] = index[j]
  <2>1. ActorsIn(r) = ActorsIn(index) \ {index[k].actor}
    BY RemoveExact
  <2>2. Exact(r)
    BY RemoveExact
  <2>3. \A i \in 1..(Len(index) - 1) : \E j \in 1..Len(index) : j # k /\ r[i] = index[j]
    BY RemoveExact
  <2> QED BY <1>1, <2>1, <2>2, <2>3
<1>6. Len(r) = Len(index) - 1
  BY Removed DEF Exact
<1> HIDE DEF r
<1>7. /\ Exact(InsertEntry(a, p, r))
      /\ ActorsIn(InsertEntry(a, p, r)) = ActorsIn(r) \cup {a}
      /\ \A i \in 1..Len(InsertEntry(a, p, r)) :
           \/ InsertEntry(a, p, r)[i] = [actor |-> a, key |-> p, named |-> TRUE]
           \/ \E j \in 1..Len(r) : InsertEntry(a, p, r)[i] = r[j]
  BY <1>5, InsertExact
<1>8. ASSUME NEW j \in 1..Len(r)
      PROVE  \E l \in 1..Len(index) : index[l].actor # a /\ r[j] = index[l]
  <2>1. PICK l \in 1..Len(index) : l # k /\ r[j] = index[l]
    BY <1>5, <1>6
  <2>2. index[l].actor # a
    BY <1>1, <2>1, ExactOrder
  <2> QED BY <2>1, <2>2
<1> QED BY <1>4, <1>5, <1>7, <1>8

(* The walk of an exact index after r rounds: what it has kept are the first
   entries that are left, and nothing but released actors has gone. *)
WalkInv(w, r) ==
  /\ w \in WalkState
  /\ Exact(w.entries)
  /\ w.at = Len(w.kept) + 1
  /\ Len(w.entries) - Len(w.kept) = Len(index) - r
  /\ w.left = Len(w.entries)
  /\ \A i \in 1..Len(w.kept) :
       w.kept[i] = w.entries[i].actor /\ ~actor[w.kept[i]].release_pending
  /\ ActorsIn(w.entries) = ActorsIn(index) \ w.gone
  /\ w.gone \subseteq ActorsIn(index)
  /\ \A a \in w.gone : actor[a].release_pending
  /\ \A i \in 1..Len(w.entries) : \E j \in 1..Len(index) : w.entries[i] = index[j]

\* A round keeps what the walk promises.
LEMMA VisitExact ==
  ASSUME TypeOK, NEW r \in Nat, r + 1 <= Len(index), NEW w, WalkInv(w, r)
  PROVE  WalkInv(Visit(w), r + 1)
<1> DEFINE n == Len(index)
           m == Len(w.entries)
           k == Len(w.kept)
           a == w.entries[w.at].actor
<1>1. /\ w.at \in Nat \ {0} /\ w.entries \in Seq(Entry) /\ w.kept \in Seq(Actors)
      /\ w.gone \in SUBSET Actors /\ w.left \in Int
      /\ w = [at |-> w.at, entries |-> w.entries, kept |-> w.kept, gone |-> w.gone,
              left |-> w.left]
  BY DEF WalkInv, WalkState
<1>2. n \in Nat /\ m \in Nat /\ k \in Nat
  BY <1>1 DEF TypeOK
<1>3. w.at = k + 1 /\ w.at \in 1..m /\ ~(w.at > m) /\ m - k = n - r
  BY <1>2 DEF WalkInv
<1>4. NamedAt(a, w.entries) = w.at /\ w.at # 0
  BY <1>3, NamedIsThere DEF WalkInv
<1>5. a \in Actors /\ a \in ActorsIn(w.entries)
  BY <1>1, <1>3, EntryFields DEF ActorsIn
<1>6. Visit(w) \in WalkState
  BY VisitTyped DEF WalkInv, TypeOK
<1>7. Visit(w) = IF ~ actor[a].release_pending
         THEN [w EXCEPT !.at = @ + 1, !.kept = Append(@, a)]
         ELSE [w EXCEPT !.at = w.at, !.entries = RemoveAt(@, w.at),
                        !.gone = @ \cup {a}, !.left = @ - 1]
  BY <1>3, <1>4 DEF Visit
<1>8. CASE ~ actor[a].release_pending
  <2> DEFINE v == Visit(w)
  <2>1. v = [at |-> w.at + 1, entries |-> w.entries, kept |-> Append(w.kept, a),
             gone |-> w.gone, left |-> w.left]
    BY <1>1, <1>7, <1>8
  <2>2. v.at = w.at + 1 /\ v.entries = w.entries /\ v.gone = w.gone /\ v.left = w.left
    BY <2>1
  <2>3. /\ Len(v.kept) = k + 1 /\ v.kept[k + 1] = a
        /\ \A i \in 1..k : v.kept[i] = w.kept[i]
    <3>1. v.kept = Append(w.kept, a)
      BY <2>1
    <3> QED BY <3>1, <1>1, <1>5
  <2>a. v.kept[k + 1] = v.entries[k + 1].actor /\ Len(v.entries) = m
    BY <1>3, <2>2, <2>3
  <2> HIDE DEF v, n, m, k, a
  <2>4. v.at = Len(v.kept) + 1 /\ Len(v.entries) - Len(v.kept) = n - (r + 1)
    BY <1>2, <1>3, <2>2, <2>3, <2>a
  <2>5. ASSUME NEW i \in 1..Len(v.kept)
        PROVE  v.kept[i] = v.entries[i].actor /\ ~actor[v.kept[i]].release_pending
    <3>1. CASE i <= k
      <4>1. i \in 1..k
        BY <1>2, <2>3, <3>1
      <4> QED BY <2>2, <2>3, <4>1 DEF WalkInv, k
    <3>2. CASE i = k + 1
      BY <1>8, <2>3, <2>a, <3>2
    <3> QED BY <1>2, <2>3, <3>1, <3>2
  <2>6. v \in WalkState
    BY <1>6 DEF v
  <2>7. WalkInv(v, r + 1)
    BY <2>2, <2>4, <2>5, <2>6 DEF WalkInv, n
  <2> QED BY <2>7 DEF v
<1>9. CASE actor[a].release_pending
  <2> DEFINE v == Visit(w)
             e == RemoveAt(w.entries, w.at)
  <2>1. v = [at |-> w.at, entries |-> e, kept |-> w.kept,
             gone |-> w.gone \cup {a}, left |-> w.left - 1]
    BY <1>1, <1>7, <1>9
  <2>2. v.at = w.at /\ v.entries = e /\ v.kept = w.kept /\ v.gone = w.gone \cup {a}
        /\ v.left = w.left - 1
    BY <2>1
  <2>3. /\ e \in Seq(Entry) /\ Len(e) = m - 1
        /\ \A i \in 1..(m - 1) : e[i] = w.entries[IF i < w.at THEN i ELSE i + 1]
    BY <1>1, <1>3, Removed
  <2>4. /\ Exact(e) /\ ActorsIn(e) = ActorsIn(w.entries) \ {a}
        /\ \A i \in 1..(m - 1) : \E j \in 1..m : j # w.at /\ e[i] = w.entries[j]
    <3>1. Exact(w.entries) /\ w.at \in 1..Len(w.entries)
      BY <1>3 DEF WalkInv
    <3>2. Exact(e)
      BY <3>1, RemoveExact
    <3>3. ActorsIn(e) = ActorsIn(w.entries) \ {a}
      BY <3>1, RemoveExact
    <3>4. \A i \in 1..(m - 1) : \E j \in 1..m : j # w.at /\ e[i] = w.entries[j]
      <4> DEFINE es == w.entries
                 at == w.at
      <4>1. Exact(es) /\ at \in 1..Len(es)
        BY <3>1
      <4> HIDE DEF es, at
      <4>2. \A i \in 1..(Len(es) - 1) : \E j \in 1..Len(es) : j # at /\ RemoveAt(es, at)[i] = es[j]
        BY <4>1, RemoveExact
      <4> QED BY <4>2 DEF es, at
    <3> QED BY <3>2, <3>3, <3>4
  <2> HIDE DEF v, e, a, n, m, k
  <2>5. v.at = Len(v.kept) + 1 /\ Len(v.entries) - Len(v.kept) = n - (r + 1)
        /\ v.left = Len(v.entries)
    <3>1. w.left = m /\ Len(v.entries) = m - 1 /\ Len(v.kept) = k
      BY <2>2, <2>3 DEF WalkInv, m, k
    <3> QED BY <1>1, <1>2, <1>3, <2>2, <3>1
  <2>6. ASSUME NEW i \in 1..Len(v.kept)
        PROVE  v.kept[i] = v.entries[i].actor /\ ~actor[v.kept[i]].release_pending
    <3>1. i \in 1..k /\ i \in 1..(m - 1) /\ i < w.at
      BY <1>2, <1>3, <2>2 DEF k
    <3>2. v.entries[i] = w.entries[i] /\ v.kept[i] = w.kept[i]
      BY <2>2, <2>3, <3>1
    <3> QED BY <3>1, <3>2 DEF WalkInv, k
  <2>7. ActorsIn(v.entries) = ActorsIn(index) \ v.gone
    BY <2>2, <2>4 DEF WalkInv
  <2>8. v.gone \subseteq ActorsIn(index) /\ \A b \in v.gone : actor[b].release_pending
    BY <1>5, <1>9, <2>2 DEF WalkInv
  <2>9. ASSUME NEW i \in 1..Len(v.entries)
        PROVE  \E j \in 1..Len(index) : v.entries[i] = index[j]
    <3>1. PICK l \in 1..m : e[i] = w.entries[l]
      BY <2>2, <2>3, <2>4
    <3> QED BY <2>2, <3>1 DEF WalkInv, m
  <2>10. WalkInv(v, r + 1)
    BY <1>6, <2>2, <2>4, <2>5, <2>6, <2>7, <2>8, <2>9 DEF WalkInv, n, v
  <2> QED BY <2>10 DEF v
<1> QED BY <1>8, <1>9

\* The walk of an exact index, as a refresh uses it.
LEMMA WalkExact ==
  ASSUME TypeOK, Exact(index)
  PROVE  WalkInv(Walk, Len(index))
<1> DEFINE n == Len(index)
           T == {r \in Nat : r <= n => WalkInv(Walked[r], r)}
<1>0. n \in Nat /\ index \in Seq(Entry)
  BY DEF TypeOK
<1>1. 0 \in T
  <2>1. WalkInv(WalkStart, 0)
    <3>1. WalkStart \in WalkState
      BY <1>0 DEF WalkStart, WalkState
    <3>2. /\ WalkStart.at = 1 /\ WalkStart.entries = index /\ WalkStart.kept = <<>>
          /\ WalkStart.gone = {} /\ WalkStart.left = n /\ Len(<<>>) = 0
      BY DEF WalkStart
    <3>3. WalkStart.at = Len(WalkStart.kept) + 1
          /\ Len(WalkStart.entries) - Len(WalkStart.kept) = Len(index) - 0
      BY <1>0, <3>2
    <3>4. \A i \in 1..Len(WalkStart.kept) : FALSE
      BY <3>2
    <3> QED BY <3>1, <3>2, <3>3, <3>4 DEF WalkInv
  <2> QED BY <1>0, <2>1, WalkRounds
<1>2. ASSUME NEW r \in T PROVE r + 1 \in T
  <2> SUFFICES ASSUME r + 1 <= n PROVE WalkInv(Walked[r + 1], r + 1)
    OBVIOUS
  <2>1. r + 1 \in 1..n /\ (r + 1) - 1 = r /\ r <= n
    BY <1>0
  <2>2. Walked[r + 1] = Visit(Walked[r])
    BY <1>0, <2>1, WalkRounds
  <2> QED BY <2>1, <2>2, VisitExact
<1>3. n \in T
  <2>1. T \in SUBSET Nat
    OBVIOUS
  <2> HIDE DEF T
  <2> QED BY <1>0, <1>1, <1>2, <2>1, Reaches
<1> QED BY <1>0, <1>3 DEF Walk

-----------------------------------------------------------------------------
(* The render ranges of a sorted buffer. *)

\* No priority lies below the rearmost layer's: the first range is counted as
\* the actors of priority -1, and begins at the front of the buffer.
Layered == \A p \in Priorities : -1 <= p

SortedBuffer(kept) ==
  \A i, j \in 1..Len(kept) : i < j => actor[kept[i]].priority <= actor[kept[j]].priority

RangesMeet(ends, kept) ==
  /\ ends[1] \in Nat /\ ends[2] \in Nat /\ ends[3] \in Nat /\ ends[4] = Len(kept)
  /\ ends[1] <= ends[2] /\ ends[2] <= ends[3] /\ ends[3] <= ends[4]
  /\ \A i \in 1..Len(kept) :
       /\ i <= ends[1] <=> actor[kept[i]].priority = -1
       /\ i <= ends[2] <=> actor[kept[i]].priority < 65535
       /\ i <= ends[3] <=> actor[kept[i]].priority < 65536

\* The counts of a sorted buffer are the ends of its ranges.
LEMMA LayersOf ==
  ASSUME TypeOK, NEW kept \in Seq(Actors), Layered, SortedBuffer(kept)
  PROVE  RangesMeet(LayerEnds(kept, Len(kept)), kept)
<1> USE DEF Layered, SortedBuffer
<1> DEFINE ends == LayerEnds(kept, Len(kept))
<1> DEFINE n == Len(kept)
           back == {i \in 1..n : actor[kept[i]].priority = -1}
           under(limit) == {i \in 1..n : actor[kept[i]].priority < limit}
<1>1. n \in Nat
  OBVIOUS
<1>2. ASSUME NEW i \in 1..n
      PROVE  actor[kept[i]].priority \in Int /\ -1 <= actor[kept[i]].priority
  <2>1. kept[i] \in Actors
    BY ElementOfSeq
  <2>2. actor[kept[i]].priority \in Priorities
    BY <2>1 DEF TypeOK, ActorRecord
  <2> QED BY <2>2, ManagerAssumption
<1>3. Cardinality(back) \in 0..n /\ back = 1..Cardinality(back)
  <2>1. \A i \in back, j \in 1..n : j < i => j \in back
    <3> SUFFICES ASSUME NEW i \in back, NEW j \in 1..n, j < i PROVE j \in back
      OBVIOUS
    <3>1. actor[kept[j]].priority <= actor[kept[i]].priority
      OBVIOUS
    <3> QED BY <3>1, <1>2
  <2>2. back \in SUBSET (1..n)
    OBVIOUS
  <2> HIDE DEF back, n
  <2> QED BY <1>1, <2>1, <2>2, Prefix
<1>4. ASSUME NEW limit \in Int
      PROVE  Cardinality(under(limit)) \in 0..n /\ under(limit) = 1..Cardinality(under(limit))
  <2> DEFINE T == under(limit)
  <2>1. \A i \in T, j \in 1..n : j < i => j \in T
    <3> SUFFICES ASSUME NEW i \in T, NEW j \in 1..n, j < i PROVE j \in T
      OBVIOUS
    <3>1. actor[kept[j]].priority <= actor[kept[i]].priority
      OBVIOUS
    <3> QED BY <3>1, <1>2
  <2>2. T \in SUBSET (1..n)
    OBVIOUS
  <2>3. Cardinality(T) \in 0..n /\ T = 1..Cardinality(T)
    <3> HIDE DEF T, n
    <3> QED BY <1>1, <2>1, <2>2, Prefix
  <2> QED BY <2>3
<1> DEFINE c1 == Cardinality(back)
           c2 == Cardinality(under(65535))
           c3 == Cardinality(under(65536))
<1>5. /\ ends[1] = c1 /\ ends[2] = c2 /\ ends[3] = c3 /\ ends[4] = n
  BY DEF LayerEnds, Below
<1> HIDE DEF ends
<1>6. /\ c2 \in 0..n /\ under(65535) = 1..c2
      /\ c3 \in 0..n /\ under(65536) = 1..c3
  BY <1>4
<1>7. /\ c1 \in 0..n /\ back = 1..c1
  BY <1>3
<1>8. back \subseteq under(65535) /\ under(65535) \subseteq under(65536)
  BY <1>2
<1>9. /\ \A i \in 1..n : i \in back <=> actor[kept[i]].priority = -1
      /\ \A i \in 1..n : i \in under(65535) <=> actor[kept[i]].priority < 65535
      /\ \A i \in 1..n : i \in under(65536) <=> actor[kept[i]].priority < 65536
  OBVIOUS
<1> HIDE DEF n, back, under, c1, c2, c3
<1>10. c1 <= c2
  <2>1. CASE c1 = 0
    BY <2>1, <1>1, <1>6
  <2>2. CASE c1 # 0
    <3>1. c1 \in 1..c1
      BY <1>1, <1>7, <2>2
    <3>2. c1 \in 1..c2
      BY <3>1, <1>6, <1>7, <1>8
    <3> QED BY <3>2, <1>1, <1>6
  <2> QED BY <2>1, <2>2
<1>11. c2 <= c3
  <2>1. CASE c2 = 0
    BY <2>1, <1>1, <1>6
  <2>2. CASE c2 # 0
    <3>1. c2 \in 1..c2
      BY <1>1, <1>6, <2>2
    <3>2. c2 \in 1..c3
      <4>1. c2 \in under(65535)
        BY <3>1, <1>6
      <4>2. c2 \in under(65536)
        BY <4>1, <1>8
      <4> QED BY <4>2, <1>6
    <3> QED BY <3>2, <1>1, <1>6
  <2> QED BY <2>1, <2>2
<1>12. ASSUME NEW i \in 1..n
       PROVE  /\ i <= c1 <=> actor[kept[i]].priority = -1
              /\ i <= c2 <=> actor[kept[i]].priority < 65535
              /\ i <= c3 <=> actor[kept[i]].priority < 65536
  <2>1. /\ i <= c1 <=> i \in 1..c1
        /\ i <= c2 <=> i \in 1..c2
        /\ i <= c3 <=> i \in 1..c3
    BY <1>1, <1>6, <1>7
  <2>2. i \in 1..c1 <=> actor[kept[i]].priority = -1
    BY <1>7, <1>9
  <2>3. i \in 1..c2 <=> actor[kept[i]].priority < 65535
    BY <1>6, <1>9
  <2>4. i \in 1..c3 <=> actor[kept[i]].priority < 65536
    BY <1>6, <1>9
  <2> QED BY <2>1, <2>2, <2>3, <2>4
<1>13. RangesMeet(ends, kept)
  BY <1>1, <1>5, <1>6, <1>7, <1>10, <1>11, <1>12 DEF n, RangesMeet
<1> QED BY <1>13 DEF ends

-----------------------------------------------------------------------------
(* The stack of script calls. *)

FramesIn(s, kind) == {a \in Actors : \E i \in 1..Len(s) : s[i] = [kind |-> kind, actor |-> a]}

\* A call adds its frame.
LEMMA FramesPushed ==
  ASSUME NEW s \in Seq(Frame), NEW a \in Actors, NEW kind
  PROVE  /\ FramesIn(Append(s, [kind |-> kind, actor |-> a]), kind) = FramesIn(s, kind) \cup {a}
         /\ \A other : other # kind =>
              FramesIn(Append(s, [kind |-> kind, actor |-> a]), other) = FramesIn(s, other)
<1> DEFINE f == [kind |-> kind, actor |-> a]
           t == Append(s, f)
           n == Len(s)
<1>1. n \in Nat /\ Len(t) = n + 1 /\ t[n + 1] = f /\ \A i \in 1..n : t[i] = s[i]
  OBVIOUS
<1>2. \A other, b : f = [kind |-> other, actor |-> b] <=> kind = other /\ b = a
  <2>1. f.kind = kind /\ f.actor = a
    OBVIOUS
  <2>2. ASSUME NEW other, NEW b, f = [kind |-> other, actor |-> b] PROVE kind = other /\ b = a
    <3>1. f.kind = other /\ f.actor = b
      BY <2>2
    <3> QED BY <2>1, <3>1
  <2> QED BY <2>2
<1> HIDE DEF t, f, n
<1>3. ASSUME NEW other PROVE \A b \in Actors :
        (\E i \in 1..(n + 1) : t[i] = [kind |-> other, actor |-> b])
          <=> (\E i \in 1..n : s[i] = [kind |-> other, actor |-> b]) \/ (kind = other /\ b = a)
  <2> TAKE b \in Actors
  <2>1. ASSUME NEW i \in 1..(n + 1), t[i] = [kind |-> other, actor |-> b]
        PROVE  (\E l \in 1..n : s[l] = [kind |-> other, actor |-> b]) \/ (kind = other /\ b = a)
    <3>1. CASE i = n + 1
      BY <1>1, <1>2, <2>1, <3>1
    <3>2. CASE i # n + 1
      <4>1. i \in 1..n
        BY <1>1, <3>2
      <4> QED BY <1>1, <2>1, <4>1
    <3> QED BY <3>1, <3>2
  <2>2. ASSUME NEW i \in 1..n, s[i] = [kind |-> other, actor |-> b]
        PROVE  \E l \in 1..(n + 1) : t[l] = [kind |-> other, actor |-> b]
    <3>1. i \in 1..(n + 1) /\ t[i] = s[i]
      BY <1>1
    <3> QED BY <2>2, <3>1
  <2>3. ASSUME kind = other, b = a
        PROVE  \E l \in 1..(n + 1) : t[l] = [kind |-> other, actor |-> b]
    <3>1. n + 1 \in 1..(n + 1)
      BY <1>1
    <3> QED BY <1>1, <1>2, <2>3, <3>1
  <2> QED BY <2>1, <2>2, <2>3
<1>4. ASSUME NEW other
      PROVE  FramesIn(t, other) = IF kind = other THEN FramesIn(s, other) \cup {a}
                                  ELSE FramesIn(s, other)
  BY <1>1, <1>3 DEF FramesIn, n
<1>5. FramesIn(t, kind) = FramesIn(s, kind) \cup {a}
  BY <1>4
<1>6. ASSUME NEW other, other # kind PROVE FramesIn(t, other) = FramesIn(s, other)
  BY <1>4, <1>6
<1> QED BY <1>5, <1>6 DEF t, f

\* A return removes the last frame.
LEMMA FramesPopped ==
  ASSUME NEW s \in Seq(Frame), s # <<>>, NEW kind
  PROVE  /\ Last(s).actor \in Actors
         /\ FramesIn(s, kind) = IF Last(s).kind = kind
                                THEN FramesIn(Front(s), kind) \cup {Last(s).actor}
                                ELSE FramesIn(Front(s), kind)
<1> DEFINE n == Len(s)
           t == Front(s)
           f == Last(s)
<1>1. n \in Nat \ {0} /\ Len(t) = n - 1 /\ \A i \in 1..(n - 1) : t[i] = s[i]
  BY Fronted
<1>2. f = s[n]
  BY DEF Last
<1>3. f \in Frame
  BY <1>1, <1>2, ElementOfSeq
<1>4. \A b \in Actors : f = [kind |-> kind, actor |-> b] <=> f.kind = kind /\ b = f.actor
  BY <1>3 DEF Frame
<1> HIDE DEF n, t, f
<1>5. \A b \in Actors :
        (\E i \in 1..n : s[i] = [kind |-> kind, actor |-> b])
          <=> (\E i \in 1..(n - 1) : t[i] = [kind |-> kind, actor |-> b])
              \/ (f.kind = kind /\ b = f.actor)
  <2> TAKE b \in Actors
  <2>1. ASSUME NEW i \in 1..n, s[i] = [kind |-> kind, actor |-> b]
        PROVE  (\E l \in 1..(n - 1) : t[l] = [kind |-> kind, actor |-> b])
               \/ (f.kind = kind /\ b = f.actor)
    <3>1. CASE i = n
      BY <1>2, <1>4, <2>1, <3>1
    <3>2. CASE i # n
      <4>1. i \in 1..(n - 1)
        BY <1>1, <3>2
      <4> QED BY <1>1, <2>1, <4>1
    <3> QED BY <3>1, <3>2
  <2>2. ASSUME NEW i \in 1..(n - 1), t[i] = [kind |-> kind, actor |-> b]
        PROVE  \E l \in 1..n : s[l] = [kind |-> kind, actor |-> b]
    <3>1. i \in 1..n /\ t[i] = s[i]
      BY <1>1
    <3> QED BY <2>2, <3>1
  <2>3. ASSUME f.kind = kind, b = f.actor
        PROVE  \E l \in 1..n : s[l] = [kind |-> kind, actor |-> b]
    <3>1. n \in 1..n
      BY <1>1
    <3> QED BY <1>2, <1>4, <2>3, <3>1
  <2> QED BY <2>1, <2>2, <2>3
<1>6. f.actor \in Actors
  BY <1>3 DEF Frame
<1> QED BY <1>1, <1>5, <1>6 DEF FramesIn, t, f, n

-----------------------------------------------------------------------------
(* The inductive invariant. *)

LayersInv == Layered => DrawnInItsLayer

IndexInv ==
  /\ Exact(index)
  /\ ActorsIn(index) = live \ FramesIn(calls, "create")
  /\ \A i \in 1..Len(index) :
       /\ actor[index[i].actor].held
       /\ index[i].actor \notin FramesIn(calls, "reset")
            => index[i].key = actor[index[i].actor].priority

\* An actor whose Init runs is alive, one call creates it, and none resets it.
FramesInv ==
  /\ FramesIn(calls, "create") \subseteq live
  /\ FramesIn(calls, "reset") \subseteq live \ FramesIn(calls, "create")
  /\ \A i, j \in 1..Len(calls) :
       i < j /\ calls[i].kind = "create" /\ calls[j].kind = "create"
         => calls[i].actor # calls[j].actor

PhasesInv == phase \in {"motion", "closed"} => calls = <<>>

\* Without a cleanup to do, the buffer holds every actor there is.
KeptInv ==
  ~cleanup_pending =>
    /\ {iteration[i] : i \in 1..iteration_count} = live \ FramesIn(calls, "create")
    /\ \A a \in live : ~actor[a].release_pending

ManagerInv ==
  /\ TypeOK
  /\ IndexInv
  /\ IteratedLive
  /\ LayersInv
  /\ MovedAreCurrent
  /\ NothingLeft
  /\ FramesInv
  /\ PhasesInv
  /\ KeptInv

\* The frames of the stack, as the specification reads them.
LEMMA FramesAre == \A kind : InFrames(kind) = FramesIn(calls, kind)
BY DEF InFrames, FramesIn

\* The same, after a step.
LEMMA FramesArePrimed == \A kind : InFrames(kind)' = FramesIn(calls', kind)
BY DEF InFrames, FramesIn

\* An empty stack has no frames.
LEMMA NoFrames ==
  ASSUME NEW s, s = <<>>
  PROVE  \A kind : FramesIn(s, kind) = {}
<1>1. 1..Len(s) = {}
  OBVIOUS
<1> QED BY <1>1 DEF FramesIn

\* What a push and a pop do to the frames, when the invariant holds.
LEMMA FramesKeptByPush ==
  ASSUME TypeOK, FramesInv, NEW a \in Actors, NEW kind \in {"callback", "create", "reset"},
         Call(kind, a), kind = "create" => a \notin live
  PROVE  \A i, j \in 1..Len(calls') :
           i < j /\ calls'[i].kind = "create" /\ calls'[j].kind = "create"
             => calls'[i].actor # calls'[j].actor
<1> DEFINE f == [kind |-> kind, actor |-> a]
           n == Len(calls)
<1>1. /\ n \in Nat /\ Len(calls') = n + 1 /\ calls'[n + 1] = f
      /\ \A i \in 1..n : calls'[i] = calls[i] /\ calls[i] \in Frame
  BY DEF TypeOK, Call
<1>2. f.kind = kind /\ f.actor = a
  OBVIOUS
<1> HIDE DEF f
<1> SUFFICES ASSUME NEW i \in 1..(n + 1), NEW j \in 1..(n + 1), i < j,
                    calls'[i].kind = "create", calls'[j].kind = "create"
             PROVE  calls'[i].actor # calls'[j].actor
  BY <1>1
<1>3. i \in 1..n /\ calls'[i] = calls[i]
  BY <1>1
<1>4. CASE j = n + 1
  <2>1. kind = "create" /\ a \notin live
    BY <1>1, <1>2, <1>4
  <2>2. calls[i] = [kind |-> "create", actor |-> calls[i].actor] /\ calls[i].actor \in Actors
    BY <1>1, <1>3 DEF Frame
  <2>3. calls[i].actor \in FramesIn(calls, "create")
    BY <1>3, <2>2 DEF FramesIn
  <2> QED BY <1>1, <1>2, <1>3, <1>4, <2>1, <2>3 DEF FramesInv
<1>5. CASE j # n + 1
  <2>1. j \in 1..n
    BY <1>1, <1>5
  <2> QED BY <1>1, <1>3, <2>1 DEF FramesInv
<1> QED BY <1>4, <1>5

\* What a return leaves.
LEMMA FramesKeptByPop ==
  ASSUME TypeOK, FramesInv, calls # <<>>, Return
  PROVE  /\ FramesIn(calls', "create") = IF Last(calls).kind = "create"
                                         THEN FramesIn(calls, "create") \ {Last(calls).actor}
                                         ELSE FramesIn(calls, "create")
         /\ FramesIn(calls', "reset") \subseteq FramesIn(calls, "reset")
         /\ FramesIn(calls, "reset") \subseteq FramesIn(calls', "reset") \cup {Last(calls).actor}
         /\ Last(calls).kind # "reset" => FramesIn(calls', "reset") = FramesIn(calls, "reset")
         /\ Last(calls).kind # "callback"
              => Last(calls).actor \in FramesIn(calls, Last(calls).kind)
         /\ \A i, j \in 1..Len(calls') :
              i < j /\ calls'[i].kind = "create" /\ calls'[j].kind = "create"
                => calls'[i].actor # calls'[j].actor
<1> DEFINE n == Len(calls)
           f == Last(calls)
<1>1. calls \in Seq(Frame) /\ calls' = Front(calls)
  BY DEF TypeOK, Return
<1>2. /\ n \in Nat \ {0} /\ Len(calls') = n - 1
      /\ \A i \in 1..(n - 1) : calls'[i] = calls[i]
  BY <1>1, Fronted
<1>3. \A kind : /\ f.actor \in Actors
                /\ FramesIn(calls, kind) = IF f.kind = kind
                                           THEN FramesIn(calls', kind) \cup {f.actor}
                                           ELSE FramesIn(calls', kind)
  BY <1>1, FramesPopped
<1>4. f = calls[n] /\ n \in 1..n
  BY <1>2 DEF Last
<1> HIDE DEF f
<1>5. f.kind = "create" => f.actor \notin FramesIn(calls', "create")
  <2> SUFFICES ASSUME f.kind = "create", f.actor \in FramesIn(calls', "create") PROVE FALSE
    OBVIOUS
  <2>1. PICK i \in 1..(n - 1) : calls'[i] = [kind |-> "create", actor |-> f.actor]
    BY <1>2 DEF FramesIn
  <2>2. i \in 1..n /\ i < n /\ calls[i].kind = "create" /\ calls[i].actor = f.actor
    BY <1>2, <2>1
  <2> QED BY <1>4, <2>2 DEF FramesInv
<1>6. \A i, j \in 1..(n - 1) :
        i < j /\ calls'[i].kind = "create" /\ calls'[j].kind = "create"
          => calls'[i].actor # calls'[j].actor
  BY <1>2 DEF FramesInv
<1>7. f.kind = "create" => FramesIn(calls', "create") = FramesIn(calls, "create") \ {f.actor}
  BY <1>3, <1>5
<1>8. f.kind # "create" => FramesIn(calls', "create") = FramesIn(calls, "create")
  BY <1>3
<1>9. /\ FramesIn(calls', "reset") \subseteq FramesIn(calls, "reset")
      /\ FramesIn(calls, "reset") \subseteq FramesIn(calls', "reset") \cup {f.actor}
      /\ f.kind # "reset" => FramesIn(calls', "reset") = FramesIn(calls, "reset")
  BY <1>3
<1>10. f.kind # "callback" => f.actor \in FramesIn(calls, f.kind)
  BY <1>3
<1> QED BY <1>2, <1>6, <1>7, <1>8, <1>9, <1>10 DEF f

\* What is drawn is alive, so a step that leaves the fields of living actors
\* alone leaves it in its layer.
LEMMA DrawnKept ==
  ASSUME ManagerInv,
         UNCHANGED <<iteration, iteration_count, layers>>,
         ~cleanup_pending' => ~cleanup_pending,
         FramesIn(calls, "reset") # {} => cleanup_pending' \/ FramesIn(calls', "reset") # {},
         cleanup_pending' \/ FramesIn(calls', "reset") # {}
           \/ \A a \in live : actor'[a].priority = actor[a].priority
  PROVE  LayersInv'
<1> SUFFICES ASSUME Layered, DrawnInItsLayer PROVE DrawnInItsLayer'
  BY DEF LayersInv, ManagerInv
<1>1. \A k \in 1..4 : LayerRange(k)' = LayerRange(k)
  BY DEF LayerRange
<1>2. ASSUME iteration_count # 0 PROVE \A k \in 1..4 : LayerRange(k) \subseteq 1..iteration_count
  <2>1. /\ layers[4] = iteration_count /\ \A k \in 1..3 : layers[k] <= layers[k + 1]
        /\ layers \in Seq(Nat) /\ Len(layers) = 4
    BY <1>2 DEF ManagerInv, DrawnInItsLayer, TypeOK
  <2>2. layers[1] \in Nat /\ layers[2] \in Nat /\ layers[3] \in Nat /\ layers[4] \in Nat
    <3>1. 1 \in 1..Len(layers) /\ 2 \in 1..Len(layers) /\ 3 \in 1..Len(layers) /\ 4 \in 1..Len(layers)
      BY <2>1
    <3> QED BY <2>1, <3>1, ElementOfSeq
  <2>3. layers[1] <= layers[2] /\ layers[2] <= layers[3] /\ layers[3] <= layers[4]
    BY <2>1
  <2>4. LayerRange(1) \subseteq 1..iteration_count
    BY <2>1, <2>2, <2>3 DEF LayerRange
  <2>5. LayerRange(2) \subseteq 1..iteration_count
    BY <2>1, <2>2, <2>3 DEF LayerRange
  <2>6. LayerRange(3) \subseteq 1..iteration_count
    BY <2>1, <2>2, <2>3 DEF LayerRange
  <2>7. LayerRange(4) \subseteq 1..iteration_count
    BY <2>1, <2>2, <2>3 DEF LayerRange
  <2> QED BY <2>4, <2>5, <2>6, <2>7
<1>3. \A i \in 1..iteration_count : iteration[i] \in live
  BY DEF ManagerInv, IteratedLive
<1>4. ASSUME iteration_count # 0, ~cleanup_pending', InFrames("reset")' = {},
             NEW k \in 1..4, NEW i \in LayerRange(k)
      PROVE  Layer(actor'[iteration[i]].priority) = k
  <2>1. ~cleanup_pending /\ InFrames("reset") = {}
    BY <1>4, FramesAre, FramesArePrimed
  <2>2. Layer(actor[iteration[i]].priority) = k
    BY <1>4, <2>1 DEF DrawnInItsLayer
  <2>3. iteration[i] \in live
    BY <1>2, <1>3, <1>4
  <2>4. FramesIn(calls', "reset") = {}
    BY <1>4, FramesArePrimed
  <2>5. actor'[iteration[i]].priority = actor[iteration[i]].priority
    BY <1>4, <2>3, <2>4
  <2> QED BY <2>2, <2>5
<1> QED BY <1>1, <1>4 DEF DrawnInItsLayer

-----------------------------------------------------------------------------
(* A refresh, while no script runs. *)

\* A refresh makes the buffer current.
LEMMA RefreshKeeps ==
  ASSUME InitMay = {}, ManagerInv, Refresh, calls = <<>>, calls' = calls, actor' = actor
  PROVE  /\ IndexInv'
         /\ IteratedLive'
         /\ LayersInv'
         /\ KeptInv'
         /\ iteration_count' <= Len(iteration')
         /\ {iteration'[i] : i \in 1..iteration_count'} = live'
         /\ \A a \in live' : ~actor'[a].release_pending
<1> USE DEF ManagerInv
<1>0. \A kind : /\ FramesIn(calls, kind) = {} /\ FramesIn(calls', kind) = {}
                /\ InFrames(kind) = {} /\ InFrames(kind)' = {}
  BY NoFrames, FramesAre, FramesArePrimed
<1>1. CASE cleanup_pending /\ index # <<>>
  <2> DEFINE w == Walk
             n == Len(index)
             m == Len(w.entries)
  <2>1. WalkInv(w, n)
    BY WalkExact DEF IndexInv
  <2>2. /\ index' = w.entries /\ live' = live \ w.gone /\ iteration' = w.kept
        /\ iteration_count' = w.left /\ layers' = LayerEnds(w.kept, w.left)
        /\ newborn' = {}
    BY <1>1 DEF Refresh
  <2> HIDE DEF w
  <2>3. w.entries \in Seq(Entry) /\ w.kept \in Seq(Actors) /\ Exact(w.entries)
    BY <2>1 DEF WalkInv, WalkState
  <2>4. m \in Nat /\ n \in Nat /\ Len(w.kept) = m /\ w.left = m
    <3>1. m \in Nat /\ n \in Nat /\ Len(w.kept) \in Nat
      BY <2>3 DEF TypeOK
    <3>2. m - Len(w.kept) = n - n /\ w.left = m
      BY <2>1 DEF WalkInv
    <3> QED BY <3>1, <3>2
  <2>5. \A i \in 1..m :
          w.kept[i] = w.entries[i].actor /\ ~actor[w.kept[i]].release_pending
    BY <2>1, <2>4 DEF WalkInv
  <2>6. ActorsIn(w.entries) = live'
    BY <2>1, <2>2, <1>0 DEF WalkInv, IndexInv
  <2>7. \A i \in 1..m : /\ w.entries[i].key = actor[w.entries[i].actor].priority
                        /\ actor[w.entries[i].actor].held
    BY <2>1, <1>0 DEF WalkInv, IndexInv
  <2>8. IndexInv'
    BY <1>0, <2>2, <2>3, <2>6, <2>7 DEF IndexInv
  <2>9. \A i \in 1..m : w.kept[i] \in live'
    BY <2>5, <2>6 DEF ActorsIn
  <2>10. {iteration'[i] : i \in 1..iteration_count'} = live'
    BY <2>2, <2>4, <2>5, <2>6 DEF ActorsIn
  <2>11. IteratedLive'
    <3>1. \A i, j \in 1..m : i # j => w.kept[i] # w.kept[j]
      BY <2>3, <2>5, ExactOrder
    <3>2. iteration_count' <= Len(iteration')
      BY <2>2, <2>4
    <3> QED BY <2>2, <2>4, <2>9, <3>1, <3>2 DEF IteratedLive
  <2>12. \A a \in live' : ~actor'[a].release_pending
    BY <2>2, <2>4, <2>5, <2>10
  <2>13. KeptInv'
    BY <1>0, <2>10, <2>12 DEF KeptInv
  <2>14. LayersInv'
    <3> SUFFICES ASSUME Layered PROVE DrawnInItsLayer'
      BY DEF LayersInv
    <3>1. \A i, j \in 1..Len(w.kept) : i < j =>
             actor[w.kept[i]].priority <= actor[w.kept[j]].priority
      <4> SUFFICES ASSUME NEW i \in 1..m, NEW j \in 1..m, i < j
                   PROVE  actor[w.kept[i]].priority <= actor[w.kept[j]].priority
        BY <2>4
      <4>1. w.entries[i].key <= w.entries[j].key
        BY <2>3 DEF Exact
      <4> QED BY <4>1, <2>5, <2>7
    <3> DEFINE ends == LayerEnds(w.kept, Len(w.kept))
    <3>2. layers' = ends
      BY <2>2, <2>4
    <3>4. /\ ends[1] \in Nat /\ ends[2] \in Nat /\ ends[3] \in Nat /\ ends[4] = m
          /\ ends[1] <= ends[2] /\ ends[2] <= ends[3] /\ ends[3] <= ends[4]
          /\ \A i \in 1..m :
               /\ i <= ends[1] <=> actor[w.kept[i]].priority = -1
               /\ i <= ends[2] <=> actor[w.kept[i]].priority < 65535
               /\ i <= ends[3] <=> actor[w.kept[i]].priority < 65536
      <4>1. SortedBuffer(w.kept)
        BY <3>1 DEF SortedBuffer
      <4>2. RangesMeet(ends, w.kept)
        BY <2>3, <4>1, LayersOf
      <4> HIDE DEF ends, m
      <4> QED BY <2>4, <4>2 DEF RangesMeet
    <3> HIDE DEF ends, m, n
    <3>5. \A k \in 1..3 : ends[k] <= ends[k + 1]
      BY <3>4
    <3>6. ASSUME NEW k \in 1..4, NEW i \in ((IF k = 1 THEN 0 ELSE ends[k - 1]) + 1)..ends[k]
          PROVE  Layer(actor[w.kept[i]].priority) = k
      <4>1. i \in 1..m
        BY <2>4, <3>4, <3>6
      <4>2. actor[w.kept[i]].priority \in Int
        <5>1. w.kept[i] \in Actors
          BY <2>3, <2>4, <4>1, ElementOfSeq
        <5> QED BY <5>1, ManagerAssumption DEF TypeOK, ActorRecord
      <4>3. CASE k = 1
        BY <3>4, <4>1, <4>2, <4>3 DEF Layer
      <4>4. CASE k = 2
        BY <3>4, <4>1, <4>2, <4>4 DEF Layer
      <4>5. CASE k = 3
        BY <3>4, <4>1, <4>2, <4>5 DEF Layer
      <4>6. CASE k = 4
        BY <3>4, <4>1, <4>2, <4>6 DEF Layer
      <4> QED BY <4>3, <4>4, <4>5, <4>6
    <3>7. \A k \in 1..4 : LayerRange(k)' = ((IF k = 1 THEN 0 ELSE ends[k - 1]) + 1)..ends[k]
      BY <3>2 DEF LayerRange
    <3>8. ASSUME NEW k \in 1..4, NEW i \in LayerRange(k)'
          PROVE  Layer(actor'[iteration'[i]].priority) = k
      <4>1. i \in ((IF k = 1 THEN 0 ELSE ends[k - 1]) + 1)..ends[k]
        BY <3>7, <3>8
      <4>2. Layer(actor[w.kept[i]].priority) = k
        BY <3>6, <4>1
      <4> QED BY <2>2, <4>2
    <3>9. layers'[4] = iteration_count' /\ \A k \in 1..3 : layers'[k] <= layers'[k + 1]
      BY <2>2, <2>4, <3>2, <3>4, <3>5
    <3> QED BY <3>8, <3>9 DEF DrawnInItsLayer
  <2> QED BY <2>8, <2>10, <2>11, <2>12, <2>13, <2>14 DEF IteratedLive
<1>2. CASE ~(cleanup_pending /\ index # <<>>)
  <2>1. /\ UNCHANGED <<index, live, iteration, layers, cleanup_pending>>
        /\ newborn' = {}
        /\ iteration_count' = IF cleanup_pending THEN 0 ELSE iteration_count
    BY <1>2 DEF Refresh
  <2>2. IndexInv'
    BY <2>1 DEF IndexInv
  <2>3. CASE cleanup_pending
    <3>1. index = <<>> /\ 1..Len(index) = {}
      BY <1>2, <2>3
    <3>2. live' = {}
      BY <1>0, <2>1, <3>1 DEF IndexInv, ActorsIn
    <3>3. iteration_count' = 0 /\ 1..iteration_count' = {} /\ Len(iteration') \in Nat
      BY <2>1, <2>3 DEF TypeOK
    <3> QED BY <2>1, <2>2, <2>3, <3>2, <3>3 DEF IteratedLive, DrawnInItsLayer, LayersInv, KeptInv
  <2>4. CASE ~cleanup_pending
    <3>1. iteration_count' = iteration_count
      BY <2>1, <2>4
    <3>2. IteratedLive'
      BY <2>1, <3>1 DEF IteratedLive
    <3>3. LayersInv'
      <4>1. UNCHANGED <<iteration, iteration_count, layers>> /\ ~cleanup_pending
        BY <2>1, <2>4, <3>1
      <4>2. \A a \in live : actor'[a].priority = actor[a].priority
        OBVIOUS
      <4>3. FramesIn(calls, "reset") = {}
        BY <1>0
      <4> HIDE DEF ManagerInv
      <4> QED BY <4>1, <4>2, <4>3, DrawnKept
    <3>4. {iteration'[i] : i \in 1..iteration_count'} = live' /\ \A a \in live' : ~actor'[a].release_pending
      BY <1>0, <2>1, <2>4, <3>1 DEF KeptInv
    <3>5. KeptInv'
      BY <1>0, <3>4 DEF KeptInv
    <3> QED BY <2>2, <3>2, <3>3, <3>4, <3>5 DEF IteratedLive
  <2> QED BY <2>3, <2>4
<1> QED BY <1>1, <1>2

-----------------------------------------------------------------------------
(* Scripts. *)

\* A new actor is neither indexed nor in the buffer.
LEMMA CreateKeeps ==
  ASSUME ManagerInv, NEW a \in Actors, Create(a)
  PROVE  ManagerInv'
<1> USE DEF ManagerInv
<1>1. TypeOK'
  BY TypesKept DEF Next, Script
<1>2. /\ ScriptRuns /\ a \notin live /\ live' = live \cup {a}
      /\ actor' = [actor EXCEPT ![a] = NewActor] /\ newborn' = newborn \cup {a}
      /\ Call("create", a)
      /\ UNCHANGED <<index, iteration, iteration_count, layers, cleanup_pending, phase, cursor>>
  BY DEF Create
<1>3. /\ FramesIn(calls', "create") = FramesIn(calls, "create") \cup {a}
      /\ FramesIn(calls', "reset") = FramesIn(calls, "reset")
  <2>1. calls' = Append(calls, [kind |-> "create", actor |-> a]) /\ calls \in Seq(Frame)
    BY <1>2 DEF Call, TypeOK
  <2>2. FramesIn(calls', "create") = FramesIn(calls, "create") \cup {a}
    BY <2>1, FramesPushed
  <2>3. FramesIn(calls', "reset") = FramesIn(calls, "reset")
    BY <2>1, FramesPushed
  <2> QED BY <2>2, <2>3
<1>4. \A b \in live : b # a /\ actor'[b] = actor[b]
  BY <1>2 DEF TypeOK
<1>5. actor'[a].release_pending = FALSE
  BY <1>2 DEF TypeOK, NewActor
<1>6. IndexInv'
  <2>1. ActorsIn(index) = live' \ FramesIn(calls', "create")
    BY <1>2, <1>3 DEF IndexInv, FramesInv
  <2>2. \A i \in 1..Len(index) : index[i].actor \in live
    BY DEF IndexInv, ActorsIn
  <2> QED BY <1>2, <1>3, <1>4, <2>1, <2>2 DEF IndexInv
<1>7. IteratedLive'
  BY <1>2, <1>4 DEF IteratedLive
<1>8. LayersInv'
  BY <1>2, <1>3, <1>4, DrawnKept
<1>9. phase # "motion" /\ phase # "closed"
  BY <1>2 DEF ScriptRuns, PhasesInv
<1>10. MovedAreCurrent' /\ NothingLeft' /\ PhasesInv'
  BY <1>2, <1>9 DEF MovedAreCurrent, NothingLeft, PhasesInv
<1>11. FramesInv'
  <2>1. \A i, j \in 1..Len(calls') :
           i < j /\ calls'[i].kind = "create" /\ calls'[j].kind = "create"
             => calls'[i].actor # calls'[j].actor
    BY <1>2, FramesKeptByPush
  <2> QED BY <1>2, <1>3, <2>1 DEF FramesInv
<1>12. KeptInv'
  BY <1>2, <1>3, <1>4, <1>5 DEF KeptInv, FramesInv
<1> QED BY <1>1, <1>6, <1>7, <1>8, <1>10, <1>11, <1>12

\* A release changes nothing but the actor's flag, and asks for a cleanup.
LEMMA ReleaseKeeps ==
  ASSUME ManagerInv, NEW a \in Actors, Release(a)
  PROVE  ManagerInv'
<1> USE DEF ManagerInv
<1>1. TypeOK'
  BY TypesKept DEF Next, Script
<1>2. /\ ScriptRuns /\ a \in live /\ cleanup_pending'
      /\ actor' = [actor EXCEPT ![a].release_pending = TRUE]
      /\ UNCHANGED <<live, index, iteration, iteration_count, layers, phase, cursor, calls,
                     newborn>>
  BY DEF Release
<1>3. \A b \in Actors : actor'[b].held = actor[b].held /\ actor'[b].priority = actor[b].priority
  BY <1>2 DEF TypeOK, ActorRecord
<1>4. IndexInv'
  <2>1. \A i \in 1..Len(index) : index[i].actor \in Actors
    BY EntryFields DEF TypeOK
  <2> QED BY <1>2, <1>3, <2>1 DEF IndexInv
<1>5. IteratedLive'
  BY <1>2 DEF IteratedLive
<1>6. LayersInv'
  BY <1>2, DrawnKept
<1>7. phase # "motion" /\ phase # "closed"
  BY <1>2 DEF ScriptRuns, PhasesInv
<1>8. MovedAreCurrent' /\ NothingLeft' /\ PhasesInv' /\ KeptInv' /\ FramesInv'
  BY <1>2, <1>7 DEF MovedAreCurrent, NothingLeft, PhasesInv, KeptInv, FramesInv
<1> QED BY <1>1, <1>4, <1>5, <1>6, <1>8

\* Indexing an actor again keeps the index.
LEMMA ReindexKeepsIndex ==
  ASSUME TypeOK, IndexInv, NEW a \in Actors, NEW p \in Priorities,
         a \in ActorsIn(index),
         actor' = [actor EXCEPT ![a].priority = p, ![a].held = TRUE],
         index' = Reindexed(a, p),
         live' = live,
         FramesIn(calls', "create") = FramesIn(calls, "create"),
         FramesIn(calls, "reset") \subseteq FramesIn(calls', "reset") \cup {a}
  PROVE  IndexInv'
<1>1. actor[a].held
  BY DEF IndexInv, ActorsIn
<1>2. actor'[a].held /\ actor'[a].priority = p
      /\ \A b \in Actors : b # a => actor'[b] = actor[b]
  BY DEF TypeOK, ActorRecord
<1>3. /\ Exact(index') /\ ActorsIn(index') = ActorsIn(index)
      /\ \A i \in 1..Len(index') :
           \/ index'[i] = [actor |-> a, key |-> p, named |-> TRUE]
           \/ \E j \in 1..Len(index) : index[j].actor # a /\ index'[i] = index[j]
  BY <1>1, ReindexExact DEF IndexInv
<1>4. ASSUME NEW i \in 1..Len(index')
      PROVE  /\ actor'[index'[i].actor].held
             /\ index'[i].actor \notin FramesIn(calls', "reset")
                  => index'[i].key = actor'[index'[i].actor].priority
  <2>1. CASE index'[i] = [actor |-> a, key |-> p, named |-> TRUE]
    BY <1>2, <2>1
  <2>2. ASSUME NEW j \in 1..Len(index), index[j].actor # a, index'[i] = index[j]
        PROVE  /\ actor'[index'[i].actor].held
               /\ index'[i].actor \notin FramesIn(calls', "reset")
                    => index'[i].key = actor'[index'[i].actor].priority
    <3>1. index[j].actor \in Actors
      BY EntryFields DEF TypeOK
    <3> QED BY <1>2, <2>2, <3>1 DEF IndexInv
  <2> QED BY <1>3, <2>1, <2>2
<1> QED BY <1>3, <1>4 DEF IndexInv

\* ResetPriority moves the actor's entry under its new key.
LEMMA ResetPriorityKeeps ==
  ASSUME InitMay = {}, ManagerInv, NEW a \in Actors, NEW p \in Priorities, ResetPriority(a, p)
  PROVE  ManagerInv'
<1> USE DEF ManagerInv
<1>1. TypeOK'
  BY TypesKept DEF Next, Script
<1>2. /\ ScriptRuns /\ a \in live /\ cleanup_pending' /\ Indexable(a)
      /\ actor' = [actor EXCEPT ![a].priority = p, ![a].held = TRUE]
      /\ index' = Reindexed(a, p)
      /\ UNCHANGED <<live, iteration, iteration_count, layers, phase, cursor, calls, newborn>>
  BY DEF ResetPriority
<1>3. a \in ActorsIn(index)
  BY <1>2, FramesAre DEF Indexable, IndexInv
<1>4. IndexInv'
  BY <1>2, <1>3, ReindexKeepsIndex
<1>5. IteratedLive'
  BY <1>2 DEF IteratedLive
<1>6. LayersInv'
  BY <1>2, DrawnKept
<1>7. phase # "motion" /\ phase # "closed"
  BY <1>2 DEF ScriptRuns, PhasesInv
<1>8. MovedAreCurrent' /\ NothingLeft' /\ PhasesInv' /\ KeptInv' /\ FramesInv'
  BY <1>2, <1>7 DEF MovedAreCurrent, NothingLeft, PhasesInv, KeptInv, FramesInv
<1> QED BY <1>1, <1>4, <1>5, <1>6, <1>8

\* A Reset leaves the entry under its old key until it returns.
LEMMA ResetKeeps ==
  ASSUME InitMay = {}, ManagerInv, NEW a \in Actors, Reset(a)
  PROVE  ManagerInv'
<1> USE DEF ManagerInv
<1>1. TypeOK'
  BY TypesKept DEF Next, Script
<1>2. /\ ScriptRuns /\ a \in live /\ Indexable(a)
      /\ actor' = [actor EXCEPT ![a].priority = 0]
      /\ Call("reset", a)
      /\ UNCHANGED <<live, index, iteration, iteration_count, layers, cleanup_pending, phase,
                     cursor, newborn>>
  BY DEF Reset
<1>3. a \notin FramesIn(calls, "create")
  BY <1>2, FramesAre DEF Indexable
<1>4. calls' = Append(calls, [kind |-> "reset", actor |-> a]) /\ calls \in Seq(Frame)
  BY <1>2 DEF Call, TypeOK
<1>5. FramesIn(calls', "reset") = FramesIn(calls, "reset") \cup {a}
  BY <1>4, FramesPushed
<1>6. FramesIn(calls', "create") = FramesIn(calls, "create")
  BY <1>4, FramesPushed
<1>7. \A b \in Actors : /\ actor'[b].held = actor[b].held
                        /\ actor'[b].release_pending = actor[b].release_pending
                        /\ b # a => actor'[b].priority = actor[b].priority
  BY <1>2 DEF TypeOK, ActorRecord
<1>8. IndexInv'
  <2>1. \A i \in 1..Len(index) : index[i].actor \in Actors
    BY EntryFields DEF TypeOK
  <2> QED BY <1>2, <1>5, <1>6, <1>7, <2>1 DEF IndexInv
<1>9. IteratedLive'
  BY <1>2 DEF IteratedLive
<1>10. LayersInv'
  BY <1>2, <1>5, DrawnKept
<1>11. phase # "motion" /\ phase # "closed"
  BY <1>2 DEF ScriptRuns, PhasesInv
<1>12. MovedAreCurrent' /\ NothingLeft' /\ PhasesInv'
  BY <1>2, <1>11 DEF MovedAreCurrent, NothingLeft, PhasesInv
<1>13. FramesInv'
  <2>1. \A i, j \in 1..Len(calls') :
           i < j /\ calls'[i].kind = "create" /\ calls'[j].kind = "create"
             => calls'[i].actor # calls'[j].actor
    BY <1>2, FramesKeptByPush
  <2> QED BY <1>2, <1>3, <1>5, <1>6, <2>1 DEF FramesInv
<1>14. KeptInv'
  BY <1>2, <1>6, <1>7 DEF KeptInv, TypeOK
<1> QED BY <1>1, <1>8, <1>9, <1>10, <1>12, <1>13, <1>14

\* Clearing leaves only actors whose Init runs.
LEMMA ClearKeeps ==
  ASSUME InitMay = {}, ManagerInv, ClearActor
  PROVE  ManagerInv'
<1> USE DEF ManagerInv
<1>1. TypeOK'
  BY TypesKept DEF Next, Script
<1>2. /\ ScriptRuns /\ FramesIn(calls, "reset") = {}
      /\ live' = live \ ActorsIn(index)
      /\ index' = <<>> /\ iteration_count' = 0 /\ cleanup_pending'
      /\ UNCHANGED <<actor, iteration, layers, phase, cursor, calls, newborn>>
  BY FramesAre DEF ClearActor, ActorsIn
<1>3. live' = FramesIn(calls, "create")
  BY <1>2 DEF IndexInv, FramesInv
<1>4. IndexInv'
  <2>1. 1..Len(index') = {} /\ index' \in Seq(Entry)
    BY <1>2
  <2>2. ActorsIn(index') = {}
    BY <2>1 DEF ActorsIn
  <2> QED BY <1>2, <1>3, <2>1, <2>2 DEF IndexInv, Exact
<1>5. IteratedLive' /\ LayersInv' /\ KeptInv'
  <2>1. 1..iteration_count' = {} /\ Len(iteration) \in Nat
    BY <1>2 DEF TypeOK
  <2> QED BY <1>2, <2>1 DEF IteratedLive, DrawnInItsLayer, LayersInv, KeptInv
<1>6. phase # "motion" /\ phase # "closed"
  BY <1>2 DEF ScriptRuns, PhasesInv
<1>7. MovedAreCurrent' /\ NothingLeft' /\ PhasesInv'
  BY <1>2, <1>6 DEF MovedAreCurrent, NothingLeft, PhasesInv
<1>8. FramesInv'
  BY <1>2, <1>3 DEF FramesInv
<1> QED BY <1>1, <1>4, <1>5, <1>7, <1>8

-----------------------------------------------------------------------------
(* The returns of what scripts call. *)

\* The end of a creation indexes the new actor.
LEMMA CreateReturnsKeeps ==
  ASSUME ManagerInv, NEW a \in Actors, NEW p \in Priorities, CreateReturns(a, p)
  PROVE  ManagerInv'
<1> USE DEF ManagerInv
<1>1. TypeOK'
  BY TypesKept DEF Next, InitReturns
<1>2. /\ calls # <<>> /\ Last(calls) = [kind |-> "create", actor |-> a]
      /\ actor' = [actor EXCEPT ![a].priority = p, ![a].held = TRUE]
      /\ index' = InsertEntry(a, p, index)
      /\ cleanup_pending'
      /\ Return
      /\ UNCHANGED <<live, iteration, iteration_count, layers, phase, cursor, newborn>>
  BY DEF CreateReturns, Running
<1>3. Last(calls).kind = "create" /\ Last(calls).actor = a
  BY <1>2
<1>4. /\ FramesIn(calls', "create") = FramesIn(calls, "create") \ {a}
      /\ FramesIn(calls', "reset") = FramesIn(calls, "reset")
      /\ a \in FramesIn(calls, "create")
      /\ \A i, j \in 1..Len(calls') :
           i < j /\ calls'[i].kind = "create" /\ calls'[j].kind = "create"
             => calls'[i].actor # calls'[j].actor
  BY <1>2, <1>3, FramesKeptByPop
<1>5. a \in live /\ a \notin ActorsIn(index)
  BY <1>4 DEF FramesInv, IndexInv
<1>6. actor'[a].held /\ actor'[a].priority = p
      /\ \A b \in Actors : b # a => actor'[b] = actor[b]
  BY <1>2 DEF TypeOK, ActorRecord
<1>7. IndexInv'
  <2>1. /\ Exact(index') /\ ActorsIn(index') = ActorsIn(index) \cup {a}
        /\ \A i \in 1..Len(index') :
             \/ index'[i] = [actor |-> a, key |-> p, named |-> TRUE]
             \/ \E j \in 1..Len(index) : index'[i] = index[j]
    BY <1>2, <1>5, InsertExact DEF IndexInv
  <2>2. ASSUME NEW i \in 1..Len(index')
        PROVE  /\ actor'[index'[i].actor].held
               /\ index'[i].actor \notin FramesIn(calls', "reset")
                    => index'[i].key = actor'[index'[i].actor].priority
    <3>1. CASE index'[i] = [actor |-> a, key |-> p, named |-> TRUE]
      BY <1>6, <3>1
    <3>2. ASSUME NEW j \in 1..Len(index), index'[i] = index[j]
          PROVE  /\ actor'[index'[i].actor].held
                 /\ index'[i].actor \notin FramesIn(calls', "reset")
                      => index'[i].key = actor'[index'[i].actor].priority
      <4>1. index[j].actor \in Actors /\ index[j].actor # a
        BY <1>5, EntryFields DEF TypeOK, ActorsIn
      <4> QED BY <1>4, <1>6, <3>2, <4>1 DEF IndexInv
    <3> QED BY <2>1, <3>1, <3>2
  <2>3. ActorsIn(index') = live' \ FramesIn(calls', "create")
    BY <1>2, <1>4, <1>5, <2>1 DEF IndexInv
  <2> QED BY <2>1, <2>2, <2>3 DEF IndexInv
<1>8. IteratedLive'
  BY <1>2 DEF IteratedLive
<1>9. LayersInv'
  BY <1>2, DrawnKept
<1>10. phase # "motion" /\ phase # "closed"
  BY <1>2 DEF PhasesInv
<1>11. MovedAreCurrent' /\ NothingLeft' /\ PhasesInv' /\ KeptInv'
  BY <1>2, <1>10 DEF MovedAreCurrent, NothingLeft, PhasesInv, KeptInv
<1>12. FramesInv'
  BY <1>2, <1>4 DEF FramesInv
<1> QED BY <1>1, <1>7, <1>8, <1>9, <1>11, <1>12

\* The end of a Reset indexes the actor again.
LEMMA ResetReturnsKeeps ==
  ASSUME ManagerInv, NEW a \in Actors, NEW p \in Priorities, ResetReturns(a, p)
  PROVE  ManagerInv'
<1> USE DEF ManagerInv
<1>1. TypeOK'
  BY TypesKept DEF Next, InitReturns
<1>2. /\ calls # <<>> /\ Last(calls) = [kind |-> "reset", actor |-> a]
      /\ actor' = [actor EXCEPT ![a].priority = p, ![a].held = TRUE]
      /\ index' = Reindexed(a, p)
      /\ cleanup_pending'
      /\ Return
      /\ UNCHANGED <<live, iteration, iteration_count, layers, phase, cursor, newborn>>
  BY DEF ResetReturns, Running
<1>3. Last(calls).kind = "reset" /\ Last(calls).actor = a
  BY <1>2
<1>4. /\ FramesIn(calls', "create") = FramesIn(calls, "create")
      /\ FramesIn(calls', "reset") \subseteq FramesIn(calls, "reset")
      /\ FramesIn(calls, "reset") \subseteq FramesIn(calls', "reset") \cup {a}
      /\ a \in FramesIn(calls, "reset")
      /\ \A i, j \in 1..Len(calls') :
           i < j /\ calls'[i].kind = "create" /\ calls'[j].kind = "create"
             => calls'[i].actor # calls'[j].actor
  BY <1>2, <1>3, FramesKeptByPop
<1>5. a \in ActorsIn(index)
  BY <1>4 DEF FramesInv, IndexInv
<1>6. IndexInv'
  BY <1>2, <1>4, <1>5, ReindexKeepsIndex
<1>7. IteratedLive'
  BY <1>2 DEF IteratedLive
<1>8. LayersInv'
  BY <1>2, DrawnKept
<1>9. phase # "motion" /\ phase # "closed"
  BY <1>2 DEF PhasesInv
<1>10. MovedAreCurrent' /\ NothingLeft' /\ PhasesInv' /\ KeptInv'
  BY <1>2, <1>9 DEF MovedAreCurrent, NothingLeft, PhasesInv, KeptInv
<1>11. FramesInv'
  BY <1>2, <1>4 DEF FramesInv
<1> QED BY <1>1, <1>6, <1>7, <1>8, <1>10, <1>11

-----------------------------------------------------------------------------
(* An update, with the callbacks it makes. *)

\* A callback creates and resets nothing.
LEMMA CallbackFrames ==
  ASSUME TypeOK, NEW a \in Actors, Call("callback", a)
  PROVE  /\ FramesIn(calls', "create") = FramesIn(calls, "create")
         /\ FramesIn(calls', "reset") = FramesIn(calls, "reset")
<1>1. calls' = Append(calls, [kind |-> "callback", actor |-> a]) /\ calls \in Seq(Frame)
  BY DEF Call, TypeOK
<1>2. FramesIn(calls', "create") = FramesIn(calls, "create")
  BY <1>1, FramesPushed
<1>3. FramesIn(calls', "reset") = FramesIn(calls, "reset")
  BY <1>1, FramesPushed
<1> QED BY <1>2, <1>3

\* Calling back changes only the stack.
LEMMA CallbackKeeps ==
  ASSUME ManagerInv, TypeOK', NEW a \in Actors, calls = <<>>, Call("callback", a),
         phase # "motion", phase # "closed",
         UNCHANGED <<live, actor, index, iteration, iteration_count, layers,
                     cleanup_pending, phase, newborn>>
  PROVE  ManagerInv'
<1> USE DEF ManagerInv
<1>1. /\ FramesIn(calls', "create") = FramesIn(calls, "create")
      /\ FramesIn(calls', "reset") = FramesIn(calls, "reset")
  BY CallbackFrames
<1>2. IndexInv' /\ IteratedLive' /\ KeptInv'
  BY <1>1 DEF IndexInv, IteratedLive, KeptInv
<1>3. LayersInv'
  BY <1>1, DrawnKept
<1>4. MovedAreCurrent' /\ NothingLeft' /\ PhasesInv'
  BY DEF MovedAreCurrent, NothingLeft, PhasesInv
<1>5. FramesInv'
  <2>1. \A i, j \in 1..Len(calls') :
           i < j /\ calls'[i].kind = "create" /\ calls'[j].kind = "create"
             => calls'[i].actor # calls'[j].actor
    BY FramesKeptByPush
  <2> QED BY <1>1, <2>1 DEF FramesInv
<1> QED BY <1>2, <1>3, <1>4, <1>5

\* So does the return of a callback.
LEMMA CallbackReturnsKeeps ==
  ASSUME ManagerInv, CallbackReturns
  PROVE  ManagerInv'
<1> USE DEF ManagerInv
<1>1. TypeOK'
  BY TypesKept DEF Next
<1>2. /\ calls # <<>> /\ Last(calls).kind = "callback" /\ Return
      /\ UNCHANGED <<live, actor, index, iteration, iteration_count, layers,
                     cleanup_pending, phase, cursor, newborn>>
  BY DEF CallbackReturns
<1>3. /\ FramesIn(calls', "create") = FramesIn(calls, "create")
      /\ FramesIn(calls', "reset") = FramesIn(calls, "reset")
      /\ \A i, j \in 1..Len(calls') :
           i < j /\ calls'[i].kind = "create" /\ calls'[j].kind = "create"
             => calls'[i].actor # calls'[j].actor
  BY <1>2, FramesKeptByPop
<1>4. IndexInv' /\ IteratedLive' /\ KeptInv' /\ FramesInv'
  BY <1>2, <1>3 DEF IndexInv, IteratedLive, KeptInv, FramesInv
<1>5. LayersInv'
  BY <1>2, <1>3, DrawnKept
<1>6. phase # "motion" /\ phase # "closed"
  BY <1>2 DEF PhasesInv
<1>7. MovedAreCurrent' /\ NothingLeft' /\ PhasesInv'
  BY <1>2, <1>6 DEF MovedAreCurrent, NothingLeft, PhasesInv
<1> QED BY <1>1, <1>4, <1>5, <1>7

\* The steps of an update that refresh; only the last leads to the motion.
LEMMA RefreshStepKeeps ==
  ASSUME InitMay = {}, ManagerInv, TypeOK', Refresh, calls = <<>>, UNCHANGED <<actor, calls>>,
         phase' \in {"dispatch", "tick", "motion"}
  PROVE  ManagerInv'
<1>1. /\ IndexInv' /\ IteratedLive' /\ LayersInv' /\ KeptInv'
      /\ iteration_count' <= Len(iteration')
      /\ {iteration'[i] : i \in 1..iteration_count'} = live'
      /\ \A a \in live' : ~actor'[a].release_pending
  BY RefreshKeeps
<1>2. MovedAreCurrent' /\ NothingLeft' /\ PhasesInv'
  BY <1>1 DEF MovedAreCurrent, NothingLeft, PhasesInv
<1>3. FramesInv'
  BY NoFrames DEF FramesInv
<1> QED BY <1>1, <1>2, <1>3 DEF ManagerInv

\* Every step of an update.
LEMMA UpdateKeeps ==
  ASSUME InitMay = {}, ManagerInv, Update \/ Collides
  PROVE  ManagerInv'
<1>1. TypeOK'
  BY TypesKept DEF Next, ManagerInv
<1>2. CASE UpdateBegins
  BY <1>1, <1>2, RefreshStepKeeps DEF UpdateBegins
<1>3. CASE Collides
  <2>1. PICK a \in live : Call("callback", a)
    BY <1>3 DEF Collides
  <2>2. a \in Actors
    BY DEF ManagerInv, TypeOK
  <2> QED BY <1>1, <1>3, <2>1, <2>2, CallbackKeeps DEF Collides
<1>4. CASE DispatchEnds
  BY <1>1, <1>4, RefreshStepKeeps DEF DispatchEnds
<1>5. CASE TickSkips
  <2>1. UNCHANGED <<live, actor, index, iteration, iteration_count, layers,
                    cleanup_pending, phase, calls, newborn>>
    BY <1>5 DEF TickSkips
  <2>2. LayersInv'
    BY <2>1, DrawnKept
  <2> QED BY <1>1, <2>1, <2>2 DEF ManagerInv, IndexInv, IteratedLive, MovedAreCurrent,
                                   NothingLeft, FramesInv, PhasesInv, KeptInv
<1>6. CASE TickCalls
  <2>1. PICK a \in Actors : Call("callback", a)
    BY <1>6 DEF TickCalls
  <2> QED BY <1>1, <1>6, <2>1, CallbackKeeps DEF TickCalls
<1>7. CASE TicksEnd
  BY <1>1, <1>7, RefreshStepKeeps DEF TicksEnd
<1>8. CASE UpdateEnds
  <2>1. /\ phase' = "idle"
        /\ UNCHANGED <<live, actor, index, iteration, iteration_count, layers,
                       cleanup_pending, cursor, calls, newborn>>
    BY <1>8 DEF UpdateEnds
  <2>2. LayersInv'
    BY <2>1, DrawnKept
  <2> QED BY <1>1, <2>1, <2>2 DEF ManagerInv, IndexInv, IteratedLive, MovedAreCurrent,
                                   NothingLeft, FramesInv, PhasesInv, KeptInv
<1> QED BY <1>2, <1>3, <1>4, <1>5, <1>6, <1>7, <1>8 DEF Update

\* Shutdown retires every actor: none is being created then.
LEMMA ShutdownKeeps ==
  ASSUME ManagerInv, Shutdown
  PROVE  ManagerInv'
<1> USE DEF ManagerInv
<1>1. TypeOK'
  BY TypesKept DEF Next
<1>2. /\ calls = <<>> /\ calls' = calls
      /\ live' = live \ ActorsIn(index)
      /\ index' = <<>> /\ iteration' = <<>> /\ iteration_count' = 0
      /\ phase' = "closed"
  BY DEF Shutdown, ActorsIn
<1>3. \A kind : FramesIn(calls, kind) = {} /\ FramesIn(calls', kind) = {}
  BY <1>2, NoFrames
<1>4. live' = {}
  BY <1>2, <1>3 DEF IndexInv
<1>5. IndexInv'
  <2>1. 1..Len(index') = {} /\ index' \in Seq(Entry)
    BY <1>2
  <2>2. ActorsIn(index') = {}
    BY <2>1 DEF ActorsIn
  <2> QED BY <1>3, <1>4, <2>1, <2>2 DEF IndexInv, Exact
<1>6. IteratedLive' /\ LayersInv' /\ KeptInv' /\ MovedAreCurrent'
  <2>1. 1..iteration_count' = {} /\ Len(iteration') = 0
    BY <1>2
  <2> QED BY <1>2, <1>3, <1>4, <2>1 DEF IteratedLive, DrawnInItsLayer, LayersInv, KeptInv, MovedAreCurrent
<1>7. NothingLeft' /\ PhasesInv'
  BY <1>2, <1>4 DEF NothingLeft, PhasesInv
<1>8. FramesInv'
  BY <1>2, <1>3 DEF FramesInv
<1> QED BY <1>1, <1>5, <1>6, <1>7, <1>8

-----------------------------------------------------------------------------
(* The invariant holds, and with it what the run checks. *)

\* The inductive invariant: an exact index, and a buffer that is current unless
\* a cleanup is due.
THEOREM ManagerInvariant == ASSUME InitMay = {} PROVE Spec => []ManagerInv
<1>1. ASSUME Init PROVE ManagerInv
  <2>1. TypeOK
    <3>1. NewActor \in ActorRecord
      BY ManagerAssumption DEF NewActor, ActorRecord
    <3>2. /\ index \in Seq(Entry) /\ iteration \in Seq(Actors)
          /\ calls \in Seq(Frame) /\ Len(calls) <= MaxCalls
      BY <1>1, ManagerAssumption DEF Init
    <3>3. layers \in Seq(Nat) /\ Len(layers) = 4
      BY <1>1 DEF Init
    <3>4. actor \in [Actors -> ActorRecord]
      BY <1>1, <3>1 DEF Init
    <3> QED BY <1>1, <3>2, <3>3, <3>4 DEF Init, TypeOK
  <2>2. \A kind : FramesIn(calls, kind) = {}
    BY <1>1, NoFrames DEF Init
  <2>3. /\ index = <<>> /\ index \in Seq(Entry) /\ Len(index) = 0 /\ 1..Len(index) = {}
        /\ live = {} /\ calls = <<>> /\ Len(calls) = 0 /\ 1..Len(calls) = {} /\ Len(iteration) = 0
        /\ iteration_count = 0 /\ 1..iteration_count = {} /\ phase = "idle"
    BY <1>1 DEF Init
  <2>4. IndexInv
    BY <2>2, <2>3 DEF IndexInv, Exact, ActorsIn
  <2>5. IteratedLive /\ LayersInv /\ MovedAreCurrent /\ NothingLeft
    BY <2>3 DEF IteratedLive, DrawnInItsLayer, LayersInv, MovedAreCurrent, NothingLeft
  <2>6. FramesInv /\ PhasesInv /\ KeptInv
    BY <2>2, <2>3 DEF FramesInv, PhasesInv, KeptInv
  <2> QED BY <2>1, <2>4, <2>5, <2>6 DEF ManagerInv
<1>2. ASSUME ManagerInv, [Next]_vars PROVE ManagerInv'
  <2>1. CASE UNCHANGED vars
    <3>1. UNCHANGED vars
      BY <2>1
    <3>2. LayersInv'
      BY <1>2, <3>1, DrawnKept DEF vars
    <3>3. TypeOK'
      BY <1>2, TypesKept DEF ManagerInv
    <3> QED BY <1>2, <3>1, <3>2, <3>3 DEF vars, ManagerInv, IndexInv, IteratedLive,
               MovedAreCurrent, NothingLeft, FramesInv, PhasesInv, KeptInv
  <2>2. CASE Script
    BY <1>2, <2>2, CreateKeeps, ReleaseKeeps, ResetKeeps, ResetPriorityKeeps, ClearKeeps
       DEF Script
  <2>3. CASE InitReturns
    BY <1>2, <2>3, CreateReturnsKeeps, ResetReturnsKeeps DEF InitReturns
  <2>4. CASE Update \/ Collides
    BY <1>2, <2>4, UpdateKeeps
  <2>5. CASE CallbackReturns
    BY <1>2, <2>5, CallbackReturnsKeeps
  <2>6. CASE Shutdown
    BY <1>2, <2>6, ShutdownKeeps
  <2> QED BY <1>2, <2>1, <2>2, <2>3, <2>4, <2>5, <2>6 DEF Next
<1> QED BY <1>1, <1>2, PTL DEF Spec

\* The conjuncts of IndexInv are those of IndexedOnce.
LEMMA IndexInvIs == IndexInv => IndexedOnce
<1> SUFFICES ASSUME IndexInv PROVE IndexedOnce
  OBVIOUS
<1>1. InFrames("create") = FramesIn(calls, "create") /\ InFrames("reset") = FramesIn(calls, "reset")
  BY FramesAre
<1> QED BY <1>1 DEF IndexInv, IndexedOnce, Exact, ActorsIn

\* Every live actor has one entry, in key order, and no entry outlives its actor.
THEOREM ManagerIndexedOnce == ASSUME InitMay = {} PROVE Spec => []IndexedOnce
<1>1. ManagerInv => IndexedOnce
  BY IndexInvIs DEF ManagerInv
<1> QED BY <1>1, ManagerInvariant, PTL

\* The loops reach no retired actor and no successor in a slot.
THEOREM ManagerIteratedLive == ASSUME InitMay = {} PROVE Spec => []IteratedLive
<1>1. ManagerInv => IteratedLive
  BY DEF ManagerInv
<1> QED BY <1>1, ManagerInvariant, PTL

\* The render ranges cover the buffer, each actor in its priority's layer.
THEOREM ManagerDrawnInItsLayer ==
  ASSUME InitMay = {}, Layered PROVE Spec => []DrawnInItsLayer
<1>1. ManagerInv => DrawnInItsLayer
  BY DEF ManagerInv, LayersInv
<1> QED BY <1>1, ManagerInvariant, PTL

\* Motion sees exactly the actors there are, none of them released.
THEOREM ManagerMovedAreCurrent == ASSUME InitMay = {} PROVE Spec => []MovedAreCurrent
<1>1. ManagerInv => MovedAreCurrent
  BY DEF ManagerInv
<1> QED BY <1>1, ManagerInvariant, PTL

\* Shutdown retires every actor.
THEOREM ManagerNothingLeft == ASSUME InitMay = {} PROVE Spec => []NothingLeft
<1>1. ManagerInv => NothingLeft
  BY DEF ManagerInv
<1> QED BY <1>1, ManagerInvariant, PTL
=============================================================================
