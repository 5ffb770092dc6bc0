--------------------------- MODULE CallbackProofs ---------------------------
(***************************************************************************)
(* Proofs about the two parts of MCCallbacks, each for every value of its  *)
(* constants, and about both together.                                     *)
(*                                                                         *)
(* The actor pool: SlotsAccounted is inductive with the types;             *)
(* StaleNeverResolves needs the distance from a handle's generation to the *)
(* counter.                                                                *)
(*                                                                         *)
(* An ACT runtime: what a stage borrows belongs to its clone, its layers   *)
(* have run Init before they are updated, and every reference to the       *)
(* texture is one that a document holds.  The store's part is local: each  *)
(* operator changes what one document holds and the count by the           *)
(* difference (StoreChanges).  The stage's part is that only the innermost *)
(* loop can have layers left to initialise, because whatever replaces the  *)
(* clone runs its own loop to the end first.                               *)
(***************************************************************************)
EXTENDS MCCallbacks, FiniteSetTheorems, SequenceTheorems, TLAPS

-----------------------------------------------------------------------------
(* Lists without repetition. *)

LEMMA InAppended ==
  ASSUME NEW q \in Seq(Slots), NEW s \in Slots, NEW x \in Slots
  PROVE  In(x, Append(q, s)) <=> In(x, q) \/ x = s
<1>1. Len(Append(q, s)) = Len(q) + 1 /\ Append(q, s)[Len(q) + 1] = s
  OBVIOUS
<1>2. \A i \in 1..Len(q) : Append(q, s)[i] = q[i]
  OBVIOUS
<1>3. Len(q) \in Nat
  OBVIOUS
<1>4. In(x, q) \/ x = s => In(x, Append(q, s))
  BY <1>1, <1>2, <1>3 DEF In
<1>5. ASSUME In(x, Append(q, s)), x # s
      PROVE  In(x, q)
  <2>1. PICK i \in 1..Len(q) + 1 : Append(q, s)[i] = x
    BY <1>1, <1>5 DEF In
  <2>2. i \in 1..Len(q)
    BY <1>1, <1>3, <1>5, <2>1
  <2> QED
    BY <1>2, <2>1, <2>2 DEF In
<1> QED
  BY <1>4, <1>5

LEMMA DistinctAppended ==
  ASSUME NEW q \in Seq(Slots), NEW s \in Slots, Distinct(q), ~In(s, q)
  PROVE  Distinct(Append(q, s))
<1>1. Len(Append(q, s)) = Len(q) + 1 /\ Append(q, s)[Len(q) + 1] = s
  OBVIOUS
<1>2. \A i \in 1..Len(q) : Append(q, s)[i] = q[i] /\ q[i] # s
  BY DEF In
<1>3. Len(q) \in Nat
  OBVIOUS
<1>4. \A i \in 1..Len(q) + 1 : i \in 1..Len(q) \/ i = Len(q) + 1
  BY <1>3
<1> QED
  BY <1>1, <1>2, <1>4 DEF Distinct

LEMMA LastRemoved ==
  ASSUME NEW q \in Seq(Slots), q # <<>>, Distinct(q)
  PROVE  /\ q[Len(q)] \in Slots
         /\ In(q[Len(q)], q)
         /\ SubSeq(q, 1, Len(q) - 1) \in Seq(Slots)
         /\ Distinct(SubSeq(q, 1, Len(q) - 1))
         /\ \A x \in Slots : In(x, SubSeq(q, 1, Len(q) - 1)) <=> In(x, q) /\ x # q[Len(q)]
<1> DEFINE r == SubSeq(q, 1, Len(q) - 1)
<1>1. Len(q) \in Nat \ {0} /\ Len(q) \in 1..Len(q)
  OBVIOUS
<1>2. q[Len(q)] \in Slots /\ In(q[Len(q)], q)
  BY <1>1 DEF In
<1>3. r \in Seq(Slots) /\ Len(r) = Len(q) - 1
  <2>1. 1 \in Int /\ Len(q) - 1 \in Int
    BY <1>1
  <2>2. \A i \in 1..Len(q) - 1 : q[i] \in Slots
    BY <1>1
  <2>3. Len(r) = IF 1 <= Len(q) - 1 THEN Len(q) - 1 - 1 + 1 ELSE 0
    BY <2>1, <2>2, SubSeqProperties DEF r
  <2>4. r \in Seq(Slots)
    BY <2>1, <2>2, SubSeqProperties DEF r
  <2> HIDE DEF r
  <2> QED
    BY <1>1, <2>3, <2>4
<1>4. \A i \in 1..Len(q) - 1 : r[i] = q[i]
  BY <1>1
<1> HIDE DEF r
<1>5. Distinct(r)
  BY <1>1, <1>3, <1>4 DEF Distinct
<1>6. ASSUME NEW x \in Slots PROVE In(x, r) <=> In(x, q) /\ x # q[Len(q)]
  <2>1. ASSUME In(x, r) PROVE In(x, q) /\ x # q[Len(q)]
    <3>1. PICK i \in 1..Len(q) - 1 : r[i] = x
      BY <1>3, <2>1 DEF In
    <3>2. i \in 1..Len(q) /\ i # Len(q) /\ q[i] = x
      BY <1>1, <1>4, <3>1
    <3> QED
      BY <1>1, <3>2 DEF In, Distinct
  <2>2. ASSUME In(x, q), x # q[Len(q)] PROVE In(x, r)
    <3>1. PICK i \in 1..Len(q) : q[i] = x
      BY <2>2 DEF In
    <3>2. i \in 1..Len(q) - 1
      BY <1>1, <2>2, <3>1
    <3> QED
      BY <1>3, <1>4, <3>1, <3>2 DEF In
  <2> QED
    BY <2>1, <2>2
<1> QED
  BY <1>2, <1>3, <1>5, <1>6 DEF r
-----------------------------------------------------------------------------
(* The generation counter. *)

\* Acquisitions since g was given, while they are fewer than MaxGeneration.
Ahead(g, counter) == IF counter >= g THEN counter - g ELSE counter - g + MaxGeneration

LEMMA NextGenerationTyped == TypeOK => NextGeneration \in Generations
  BY PoolAssumption DEF TypeOK, NextGeneration, Generations

LEMMA OneFurther ==
  ASSUME TypeOK, NEW g \in Generations, NEW age \in 0..MaxGeneration,
         age < MaxGeneration => Ahead(g, generation) = age
  PROVE  /\ Older(age) < MaxGeneration => Ahead(g, NextGeneration) = Older(age)
         /\ NextGeneration = g => Older(age) = MaxGeneration
  BY PoolAssumption DEF TypeOK, Generations, Ahead, NextGeneration, Older

LEMMA OlderTyped == \A age \in 0..MaxGeneration : Older(age) \in 0..MaxGeneration
  BY PoolAssumption DEF Older
-----------------------------------------------------------------------------
(* The inductive invariant. *)

\* A handle of a live actor is behind the counter by the acquisitions since.
LiveAges ==
  \A s \in Slots :
    generations[s] # 0 /\ since[s] < MaxGeneration => Ahead(generations[s], generation) = since[s]

\* So is the retired handle.
StaleAge ==
  stale.slot # 0 =>
    /\ stale.generation \in Generations
    /\ stale.age < MaxGeneration => Ahead(stale.generation, generation) = stale.age

IInv == TypeOK /\ SlotsAccounted /\ LiveAges /\ StaleAge /\ StaleNeverResolves

Handles == [slot : 0..MaxSlots, generation : 0..MaxGeneration, age : 0..MaxGeneration]

LEMMA Aged ==
  ASSUME NEW h \in Handles, NEW a \in 0..MaxGeneration
  PROVE  /\ [h EXCEPT !.age = a] \in Handles
         /\ [h EXCEPT !.age = a].slot = h.slot
         /\ [h EXCEPT !.age = a].generation = h.generation
         /\ [h EXCEPT !.age = a].age = a
  BY DEF Handles

LEMMA Started == Init => IInv
<1> SUFFICES ASSUME Init PROVE IInv
  OBVIOUS
<1>1. TypeOK
  BY PoolAssumption DEF Init, TypeOK, Slots, NoHandle
<1>2. Len(free_slots) = 0 /\ Len(destroying) = 0
  BY DEF Init
<1>3. SlotsAccounted
  <2>1. \A s \in Slots : ~ s <= slots
    BY PoolAssumption DEF Init, Slots
  <2> QED
    BY <1>2, <2>1 DEF SlotsAccounted, Distinct, In
<1>4. LiveAges /\ StaleAge /\ StaleNeverResolves
  BY DEF Init, LiveAges, StaleAge, StaleNeverResolves, NoHandle, Resolves
<1> QED
  BY <1>1, <1>3, <1>4 DEF IInv

\* What every acquisition does to types and ages.
LEMMA Occupied ==
  ASSUME IInv, NEW s \in Slots, Occupy(s), slots' \in 0..MaxSlots, slots <= slots',
         ~ (s <= slots /\ generations[s] # 0),
         \A t \in 1..slots' : t = s \/ t <= slots,
         free_slots' \in Seq(Slots)
  PROVE  TypeOK' /\ LiveAges' /\ StaleAge' /\ StaleNeverResolves'
<1> DEFINE g == NextGeneration
           a == Older(stale.age)
<1>1. g \in Generations /\ g # 0 /\ g \in 0..MaxGeneration
  BY NextGenerationTyped, PoolAssumption DEF IInv, Generations
<1>2. stale \in Handles /\ stale.age \in 0..MaxGeneration /\ stale.slot \in 0..MaxSlots
  BY DEF IInv, TypeOK, Handles
<1>3. a \in 0..MaxGeneration
  BY <1>2, OlderTyped
<1>4. stale' = [stale EXCEPT !.age = a]
  BY DEF Occupy
<1>5. generation' = g /\ generations' = [generations EXCEPT ![s] = g]
  BY DEF Occupy
<1>6. generations \in [Slots -> 0..MaxGeneration] /\ since \in [Slots -> 0..MaxGeneration]
  BY DEF IInv, TypeOK
<1>7. since' = [t \in Slots |-> IF t = s THEN 0 ELSE Older(since[t])]
  BY DEF Occupy
<1>8. since' \in [Slots -> 0..MaxGeneration]
  BY <1>6, <1>7, OlderTyped, PoolAssumption
<1>9. \A h \in Generations, age \in 0..MaxGeneration :
        (age < MaxGeneration => Ahead(h, generation) = age) =>
          /\ Older(age) < MaxGeneration => Ahead(h, g) = Older(age)
          /\ g = h => Older(age) = MaxGeneration
  BY OneFurther DEF IInv
<1>10. Older(MaxGeneration) = MaxGeneration
  BY PoolAssumption DEF Older
<1>11. Ahead(g, g) = 0
  BY <1>1 DEF Ahead, Generations
<1> HIDE DEF g, a
<1>12. /\ stale' \in Handles
       /\ stale'.slot = stale.slot /\ stale'.generation = stale.generation /\ stale'.age = a
  BY <1>2, <1>3, <1>4, Aged
<1>13. TypeOK'
  <2>1. generation' \in 0..MaxGeneration /\ generations' \in [Slots -> 0..MaxGeneration]
    BY <1>1, <1>5, <1>6
  <2>2. destroying' \in Seq(Slots)
    BY DEF Occupy, IInv, TypeOK
  <2> QED
    BY <1>8, <1>12, <2>1, <2>2 DEF TypeOK, Handles
<1>14. LiveAges'
  <2> SUFFICES ASSUME NEW t \in Slots, generations'[t] # 0, since'[t] < MaxGeneration
               PROVE  Ahead(generations'[t], g) = since'[t]
    BY <1>5 DEF LiveAges
  <2>1. CASE t = s
    BY <1>5, <1>6, <1>7, <1>11, <2>1
  <2>2. CASE t # s
    <3>1. generations'[t] = generations[t] /\ since'[t] = Older(since[t])
      BY <1>5, <1>6, <1>7, <2>2
    <3>2. generations[t] \in Generations /\ since[t] \in 0..MaxGeneration
      BY <1>6, <3>1, PoolAssumption DEF Generations
    <3>3. since[t] < MaxGeneration => Ahead(generations[t], generation) = since[t]
      BY <3>1 DEF IInv, LiveAges
    <3> QED
      BY <1>9, <3>1, <3>2, <3>3
  <2> QED
    BY <2>1, <2>2
<1>15. StaleAge'
  <2> SUFFICES ASSUME stale.slot # 0
               PROVE  /\ stale.generation \in Generations
                      /\ a < MaxGeneration => Ahead(stale.generation, g) = a
    BY <1>5, <1>12 DEF StaleAge
  <2>1. /\ stale.generation \in Generations
        /\ stale.age < MaxGeneration => Ahead(stale.generation, generation) = stale.age
    BY DEF IInv, StaleAge
  <2> QED
    BY <1>2, <1>9, <2>1 DEF a
<1>16. StaleNeverResolves'
  <2> SUFFICES ASSUME stale.slot \in 1..slots', generations'[stale.slot] = stale.generation
               PROVE  a = MaxGeneration
    BY <1>12 DEF StaleNeverResolves, Resolves
  <2>1. /\ stale.slot # 0 /\ stale.slot \in Slots
    BY <1>2 DEF Slots
  <2>2. CASE stale.slot = s
    <3>1. stale.generation = g
      BY <1>5, <1>6, <2>2
    <3>2. /\ stale.generation \in Generations
          /\ stale.age < MaxGeneration => Ahead(stale.generation, generation) = stale.age
      BY <2>1 DEF IInv, StaleAge
    <3> QED
      BY <1>2, <1>9, <3>1, <3>2 DEF a
  <2>3. CASE stale.slot # s
    <3>1. generations[stale.slot] = stale.generation /\ stale.slot \in 1..slots
      BY <1>5, <1>6, <2>1, <2>3 DEF Slots
    <3>2. stale.age = MaxGeneration
      BY <3>1 DEF IInv, StaleNeverResolves, Resolves
    <3> QED
      BY <1>10, <3>2 DEF a
  <2> QED
    BY <2>2, <2>3
<1> QED
  BY <1>13, <1>14, <1>15, <1>16

\* Retiring touches ages only by remembering a handle.
LEMMA Retired ==
  ASSUME IInv, NEW s \in Slots, Retire(s)
  PROVE  TypeOK' /\ LiveAges' /\ StaleAge' /\ StaleNeverResolves'
<1> DEFINE h == [slot |-> s, generation |-> generations[s], age |-> since[s]]
<1>1. /\ generations \in [Slots -> 0..MaxGeneration] /\ since \in [Slots -> 0..MaxGeneration]
      /\ stale \in Handles /\ destroying \in Seq(Slots) /\ generations[s] # 0
  BY DEF IInv, TypeOK, Handles, Retire, Live
<1>2. /\ generations' = [generations EXCEPT ![s] = 0] /\ stale' \in {stale, h}
      /\ generation' = generation /\ slots' = slots /\ since' = since
  BY DEF Retire
<1>3. /\ h \in Handles /\ h.slot = s /\ h.generation = generations[s] /\ h.age = since[s]
      /\ generations[s] \in Generations
  BY <1>1, PoolAssumption DEF Handles, Slots, Generations
<1>4. 0 \in 0..MaxGeneration
  BY PoolAssumption
<1> HIDE DEF h
<1>5. TypeOK'
  <2>1. generations' \in [Slots -> 0..MaxGeneration] /\ stale' \in Handles
    BY <1>1, <1>2, <1>3, <1>4
  <2>2. destroying' \in Seq(Slots)
    BY <1>1 DEF Retire
  <2> QED
    BY <2>1, <2>2 DEF TypeOK, IInv, Retire, Handles
<1>6. LiveAges'
  BY <1>1, <1>2 DEF LiveAges, IInv
<1>7. StaleAge'
  <2>1. CASE stale' = stale
    BY <1>2, <2>1 DEF StaleAge, IInv
  <2>2. CASE stale' = h
    <3>1. since[s] < MaxGeneration => Ahead(generations[s], generation) = since[s]
      BY <1>1 DEF IInv, LiveAges
    <3> QED
      BY <1>2, <1>3, <2>2, <3>1 DEF StaleAge
  <2> QED
    BY <1>2, <2>1, <2>2
<1>8. StaleNeverResolves'
  <2>1. \A t \in Slots : generations'[t] # 0 => t # s /\ generations'[t] = generations[t]
    BY <1>1, <1>2
  <2>2. 1..slots \subseteq Slots
    BY PoolAssumption DEF IInv, TypeOK, Slots
  <2>3. CASE stale' = stale
    <3> SUFFICES ASSUME stale.slot \in 1..slots, generations'[stale.slot] = stale.generation
                 PROVE  stale.age = MaxGeneration
      BY <1>2, <2>3 DEF StaleNeverResolves, Resolves
    <3>1. stale.slot \in Slots /\ stale.slot # 0
      BY <2>2 DEF Slots
    <3>2. stale.generation # 0
      BY <3>1, PoolAssumption DEF IInv, StaleAge, Generations
    <3> QED
      BY <2>1, <3>1, <3>2 DEF IInv, StaleNeverResolves, Resolves
  <2>4. CASE stale' = h
    BY <1>1, <1>2, <1>3, <2>1, <2>4 DEF StaleNeverResolves, Resolves
  <2> QED
    BY <1>2, <2>3, <2>4
<1> QED
  BY <1>5, <1>6, <1>7, <1>8
-----------------------------------------------------------------------------
(* One lemma per operation. *)

LEMMA FreshAcquired == IInv /\ AcquireFresh => IInv'
<1> SUFFICES ASSUME IInv, AcquireFresh PROVE IInv'
  OBVIOUS
<1> DEFINE s == slots + 1
<1>1. /\ s \in Slots /\ s # 0 /\ slots' = s /\ slots' \in 0..MaxSlots /\ slots <= slots' /\ ~ s <= slots
      /\ \A t \in Slots : t <= slots' <=> t = s \/ t <= slots
      /\ \A t \in 1..slots' : t = s \/ t <= slots
  BY PoolAssumption DEF IInv, TypeOK, AcquireFresh, Slots
<1>2. Occupy(s)
  BY DEF AcquireFresh
<1>3. free_slots' = free_slots /\ destroying' = destroying
  BY DEF AcquireFresh, Occupy
<1>4. free_slots' \in Seq(Slots)
  BY <1>3 DEF IInv, TypeOK
<1> HIDE DEF s
<1>5. TypeOK' /\ LiveAges' /\ StaleAge' /\ StaleNeverResolves'
  BY <1>1, <1>2, <1>4, Occupied
<1>6. SlotsAccounted'
  <2>1. generations \in [Slots -> 0..MaxGeneration] /\ NextGeneration # 0
    BY NextGenerationTyped DEF IInv, TypeOK, Generations
  <2>2. generations' = [generations EXCEPT ![s] = NextGeneration]
    BY <1>2 DEF Occupy
  <2>3. \A t \in Slots : generations'[t] = IF t = s THEN NextGeneration ELSE generations[t]
    BY <2>1, <2>2
  <2>4. \A t \in Slots : /\ In(t, free_slots') <=> In(t, free_slots)
                         /\ In(t, destroying') <=> In(t, destroying)
    BY <1>3
  <2>5. Distinct(free_slots') /\ Distinct(destroying')
    BY <1>3 DEF IInv, SlotsAccounted
  <2>6. ~ In(s, free_slots) /\ ~ In(s, destroying)
    BY <1>1 DEF IInv, SlotsAccounted
  <2> QED
    BY <1>1, <2>1, <2>3, <2>4, <2>5, <2>6 DEF IInv, SlotsAccounted
<1> QED
  BY <1>5, <1>6 DEF IInv

LEMMA RecycledAcquired == IInv /\ AcquireRecycled => IInv'
<1> SUFFICES ASSUME IInv, AcquireRecycled PROVE IInv'
  OBVIOUS
<1> DEFINE s == free_slots[Len(free_slots)]
           rest == SubSeq(free_slots, 1, Len(free_slots) - 1)
<1>1. /\ s \in Slots /\ In(s, free_slots) /\ rest \in Seq(Slots) /\ Distinct(rest)
      /\ \A x \in Slots : In(x, rest) <=> In(x, free_slots) /\ x # s
  BY LastRemoved DEF IInv, TypeOK, SlotsAccounted, AcquireRecycled
<1>2. Occupy(s) /\ slots' = slots /\ free_slots' = rest /\ destroying' = destroying
  BY DEF AcquireRecycled, Occupy
<1> HIDE DEF s, rest
<1>3. s <= slots /\ generations[s] = 0 /\ ~ In(s, destroying)
  <2>1. s <= slots /\ generations[s] = 0
    BY <1>1 DEF IInv, SlotsAccounted
  <2>2. ~ In(s, destroying)
    BY <1>1 DEF IInv, SlotsAccounted
  <2> QED
    BY <2>1, <2>2
<1>4. slots' \in 0..MaxSlots /\ slots <= slots' /\ \A t \in 1..slots' : t = s \/ t <= slots
  BY <1>2 DEF IInv, TypeOK
<1>5. TypeOK' /\ LiveAges' /\ StaleAge' /\ StaleNeverResolves'
  BY <1>1, <1>2, <1>3, <1>4, Occupied
<1>6. SlotsAccounted'
  <2>1. generations \in [Slots -> 0..MaxGeneration] /\ NextGeneration # 0
    BY NextGenerationTyped DEF IInv, TypeOK, Generations
  <2>2. \A t \in Slots : generations'[t] = IF t = s THEN NextGeneration ELSE generations[t]
    BY <1>2, <2>1 DEF Occupy
  <2>3. Distinct(free_slots') /\ Distinct(destroying')
    BY <1>1, <1>2 DEF IInv, SlotsAccounted
  <2>4. \A t \in Slots : /\ In(t, free_slots') <=> In(t, free_slots) /\ t # s
                         /\ In(t, destroying') <=> In(t, destroying)
    BY <1>1, <1>2
  <2> HIDE DEF In
  <2> QED
    BY <1>2, <1>3, <2>1, <2>2, <2>3, <2>4 DEF IInv, SlotsAccounted
<1> QED
  BY <1>5, <1>6 DEF IInv

LEMMA RetireKeeps == ASSUME IInv, NEW s \in Slots, Retire(s) PROVE IInv'
<1>1. TypeOK' /\ LiveAges' /\ StaleAge' /\ StaleNeverResolves'
  BY Retired
<1>2. /\ destroying \in Seq(Slots) /\ free_slots' = free_slots /\ slots' = slots
      /\ destroying' = Append(destroying, s) /\ s <= slots /\ generations[s] # 0
  BY DEF IInv, TypeOK, Retire, Live
<1>3. ~ In(s, destroying) /\ ~ In(s, free_slots) /\ Distinct(destroying)
  BY <1>2 DEF IInv, SlotsAccounted
<1>4. \A x \in Slots : In(x, destroying') <=> In(x, destroying) \/ x = s
  BY <1>2, InAppended
<1>5. Distinct(destroying')
  BY <1>2, <1>3, DistinctAppended
<1>6. \A t \in Slots : generations'[t] = IF t = s THEN 0 ELSE generations[t]
  BY DEF Retire, IInv, TypeOK
<1>7. \A t \in Slots : In(t, free_slots') <=> In(t, free_slots)
  BY <1>2
<1>8. Distinct(free_slots')
  BY <1>2 DEF IInv, SlotsAccounted
<1>9. SlotsAccounted'
  BY <1>2, <1>3, <1>4, <1>5, <1>6, <1>7, <1>8 DEF IInv, SlotsAccounted
<1> QED
  BY <1>1, <1>9 DEF IInv

LEMMA DestroyedKeeps == IInv /\ Destroyed => IInv'
<1> SUFFICES ASSUME IInv, Destroyed PROVE IInv'
  OBVIOUS
<1> DEFINE s == destroying[Len(destroying)]
           rest == SubSeq(destroying, 1, Len(destroying) - 1)
<1>1. /\ s \in Slots /\ In(s, destroying) /\ rest \in Seq(Slots) /\ Distinct(rest)
      /\ \A x \in Slots : In(x, rest) <=> In(x, destroying) /\ x # s
  BY LastRemoved DEF IInv, TypeOK, SlotsAccounted, Destroyed
<1>2. /\ free_slots' = Append(free_slots, s) /\ destroying' = rest /\ slots' = slots
      /\ generations' = generations /\ generation' = generation /\ since' = since /\ stale' = stale
  BY DEF Destroyed
<1> HIDE DEF s, rest
<1>3. free_slots \in Seq(Slots) /\ ~ In(s, free_slots) /\ Distinct(free_slots)
  BY <1>1 DEF IInv, TypeOK, SlotsAccounted
<1>4. \A x \in Slots : In(x, free_slots') <=> In(x, free_slots) \/ x = s
  BY <1>1, <1>2, <1>3, InAppended
<1>5. Distinct(free_slots') /\ free_slots' \in Seq(Slots)
  BY <1>1, <1>2, <1>3, DistinctAppended
<1>6. \A x \in Slots : In(x, destroying') <=> In(x, destroying) /\ x # s
  BY <1>1, <1>2
<1>7. Distinct(destroying')
  BY <1>1, <1>2
<1>8. SlotsAccounted'
  BY <1>1, <1>2, <1>4, <1>5, <1>6, <1>7 DEF IInv, SlotsAccounted
<1>9. TypeOK'
  BY <1>1, <1>2, <1>5 DEF IInv, TypeOK
<1>10. LiveAges' /\ StaleAge' /\ StaleNeverResolves'
  BY <1>2 DEF IInv, LiveAges, StaleAge, StaleNeverResolves, Resolves
<1> QED
  BY <1>8, <1>9, <1>10 DEF IInv
-----------------------------------------------------------------------------
(* A step of the pool, of any kind, keeps its inductive invariant. *)
LEMMA PoolSteps == IInv /\ [Next]_vars => IInv'
<1> SUFFICES ASSUME IInv, [Next]_vars PROVE IInv'
  OBVIOUS
<1>1. CASE AcquireFresh
  BY <1>1, FreshAcquired
<1>2. CASE AcquireRecycled
  BY <1>2, RecycledAcquired
<1>3. ASSUME NEW s \in Slots, Retire(s) PROVE IInv'
  BY <1>3, RetireKeeps
<1>4. CASE Destroyed
  BY <1>4, DestroyedKeeps
<1>5. CASE UNCHANGED vars
  BY <1>5 DEF IInv, vars, TypeOK, SlotsAccounted, LiveAges, StaleAge, StaleNeverResolves, Resolves
<1> QED
  BY <1>1, <1>2, <1>3, <1>4, <1>5 DEF Next

(* The inductive invariant: slots in one place each, and handles as far
   behind the counter as actors were acquired since. *)
THEOREM PoolInvariant == Spec => []IInv
  BY Started, PoolSteps, PTL DEF Spec

(* The variables keep their types: the counter stays within a handle. *)
THEOREM PoolTypeCorrect == Spec => []TypeOK
  BY PoolInvariant, PTL DEF IInv

(* Every slot is in use, in its destructor or once in the free list, for any
   number of slots and however destructors nest. *)
THEOREM PoolAccounted == Spec => []SlotsAccounted
  BY PoolInvariant, PTL DEF IInv

(* A stale handle resolves only after every generation has been given. *)
THEOREM PoolHandlesEnd == Spec => []StaleNeverResolves
  BY PoolInvariant, PTL DEF IInv
-----------------------------------------------------------------------------
HoldersOf(s) == {o \in Owners : s.of[o].handle}

\* A handle goes with a reference that its document will give up.
Sound(h) == (h.counted => h.handle) /\ (h.handle => h.counted \/ ~h.borrowed)

\* A document has its texture unless it is suspended or its load has failed.
Whole(h) == h.handle <=> ~h.suspended /\ ~h.missing

StoreOK(s) ==
  /\ s \in [references : Int, of : [Owners -> Holding]]
  /\ \A o \in Owners : Sound(s.of[o])
  /\ s.references = Cardinality(HoldersOf(s))

\* Deleted clones hold nothing; the others are whole, and hidden if suspended.
Documented ==
  /\ \A d \in Documents : d # active => store.of[d] = Empty
  /\ Whole(store.of[Source])
  /\ active # NoDocument => Whole(store.of[active])
  /\ active # NoDocument /\ store.of[active].suspended => hidden

\* A stage that has ended lends nothing: the next clone may fail half-way.
Borrows ==
  /\ {held, aliases} \subseteq {active, NoDocument}
  /\ staged => active # NoDocument /\ held = active
  /\ ~staged => aliases = NoDocument

\* The layers of a stage have run Init, or the innermost loop is at it.
Prepared ==
  staged =>
    \/ 1..SourceLayers \subseteq initialised
    \/ /\ Running("init")
       /\ SourceLayers <= Len(layers)
       /\ \A i \in 1..SourceLayers : layers[i] = i /\ (i <= At => i \in initialised)

ActInv == ActTypeOK /\ StoreOK(store) /\ Documented /\ Borrows /\ Prepared
-----------------------------------------------------------------------------
LEMMA OwnersFinite == IsFiniteSet(Owners) /\ Source \in Owners /\ Documents \subseteq Owners
  BY ActAssumption, FS_AddElement DEF Owners

\* Replacing what one document holds keeps the store right, if the count
\* changes by the difference.
LEMMA PutKeeps ==
  ASSUME NEW s, StoreOK(s), NEW o \in Owners, NEW h \in Holding, Sound(h), NEW n \in Int,
         n = (IF h.handle THEN 1 ELSE 0) - (IF s.of[o].handle THEN 1 ELSE 0)
  PROVE  /\ StoreOK(Put(s, o, h, n))
         /\ Put(s, o, h, n).of[o] = h
         /\ \A p \in Owners \ {o} : Put(s, o, h, n).of[p] = s.of[p]
  <1> DEFINE t == Put(s, o, h, n)
  <1>1. s.of \in [Owners -> Holding] /\ s.references \in Int
    BY DEF StoreOK
  <1>2. t \in [references : Int, of : [Owners -> Holding]]
    BY <1>1 DEF Put
  <1>3. /\ t.references = s.references + n
        /\ t.of[o] = h
        /\ \A p \in Owners \ {o} : t.of[p] = s.of[p]
    BY <1>1 DEF Put
  <1>4. \A p \in Owners : Sound(t.of[p])
    BY <1>3 DEF StoreOK
  <1>5. IsFiniteSet(HoldersOf(s)) /\ s.references = Cardinality(HoldersOf(s))
    BY OwnersFinite, FS_Subset DEF HoldersOf, StoreOK
  <1>6. o \in HoldersOf(s) <=> s.of[o].handle
    BY DEF HoldersOf
  <1>7. CASE h.handle
    <2>1. HoldersOf(t) = HoldersOf(s) \cup {o}
      BY <1>3, <1>7 DEF HoldersOf
    <2>2. Cardinality(HoldersOf(t)) =
            IF o \in HoldersOf(s) THEN Cardinality(HoldersOf(s)) ELSE Cardinality(HoldersOf(s)) + 1
      BY <1>5, <2>1, FS_AddElement
    <2>3. t.references = Cardinality(HoldersOf(t))
      BY <1>1, <1>3, <1>5, <1>6, <1>7, <2>2
    <2> QED
      BY <1>2, <1>3, <1>4, <2>3 DEF StoreOK
  <1>8. CASE ~h.handle
    <2>1. HoldersOf(t) = HoldersOf(s) \ {o}
      BY <1>3, <1>8 DEF HoldersOf
    <2>2. Cardinality(HoldersOf(t)) =
            IF o \in HoldersOf(s) THEN Cardinality(HoldersOf(s)) - 1 ELSE Cardinality(HoldersOf(s))
      BY <1>5, <2>1, FS_RemoveElement
    <2>3. t.references = Cardinality(HoldersOf(t))
      BY <1>1, <1>3, <1>5, <1>6, <1>8, <2>2
    <2> QED
      BY <1>2, <1>3, <1>4, <2>3 DEF StoreOK
  <1> QED
    BY <1>7, <1>8

\* A document gives up a reference just when it holds the texture.
LEMMA ReturnedIsHeld ==
  ASSUME NEW s, StoreOK(s), NEW o \in Owners
  PROVE  /\ s.of[o] \in Holding
         /\ Returned(s, o) = (IF s.of[o].handle THEN -1 ELSE 0)
  BY DEF StoreOK, Sound, Returned

LEMMA UnloadFacts ==
  ASSUME NEW s, StoreOK(s), NEW o \in Owners
  PROVE  /\ StoreOK(Unload(s, o))
         /\ \A p \in Owners \ {o} : Unload(s, o).of[p] = s.of[p]
         /\ Unload(s, o).of[o] = [s.of[o] EXCEPT !.handle = FALSE, !.counted = FALSE]
  <1> DEFINE h == [s.of[o] EXCEPT !.handle = FALSE, !.counted = FALSE]
  <1>1. s.of[o] \in Holding
    BY ReturnedIsHeld
  <1>2. h \in Holding /\ ~h.handle /\ ~h.counted
    BY <1>1 DEF Holding
  <1>3. Sound(h)
    BY <1>2 DEF Sound
  <1>4. Returned(s, o) \in Int
        /\ Returned(s, o) = (IF h.handle THEN 1 ELSE 0) - (IF s.of[o].handle THEN 1 ELSE 0)
    BY <1>2, ReturnedIsHeld
  <1> HIDE DEF h
  <1>5. /\ StoreOK(Put(s, o, h, Returned(s, o)))
        /\ Put(s, o, h, Returned(s, o)).of[o] = h
        /\ \A p \in Owners \ {o} : Put(s, o, h, Returned(s, o)).of[p] = s.of[p]
    BY <1>2, <1>3, <1>4, PutKeeps
  <1>6. Unload(s, o) = Put(s, o, h, Returned(s, o))
    BY DEF Unload, h
  <1> QED
    BY <1>5, <1>6 DEF h

\* The store after a load, whichever way it went.
Loaded(s, o, t) ==
  /\ StoreOK(t)
  /\ \A p \in Owners \ {o} : t.of[p] = s.of[p]
  /\ t.of[o].handle <=> ~t.of[o].missing
  /\ t.of[o].suspended = s.of[o].suspended

LEMMA LoadFacts ==
  ASSUME NEW s, StoreOK(s), NEW o \in Owners, NEW t \in LoadTexture(s, o)
  PROVE  Loaded(s, o, t)
  <1> DEFINE u == Unload(s, o)
             own == [u.of[o] EXCEPT !.borrowed = FALSE]
             h == [own EXCEPT !.handle = TRUE, !.missing = FALSE]
             g == [own EXCEPT !.missing = TRUE]
             k == [s.of[o] EXCEPT !.missing = ~s.of[o].handle]
  <1>1. /\ StoreOK(u)
        /\ \A p \in Owners \ {o} : u.of[p] = s.of[p]
        /\ u.of[o] = [s.of[o] EXCEPT !.handle = FALSE, !.counted = FALSE]
        /\ s.of[o] \in Holding /\ Sound(s.of[o])
    BY UnloadFacts, ReturnedIsHeld DEF StoreOK
  <1>2. /\ u.of[o] \in Holding /\ ~u.of[o].handle /\ ~u.of[o].counted
        /\ u.of[o].suspended = s.of[o].suspended
    BY <1>1 DEF Holding
  <1>3. /\ own \in Holding /\ ~own.handle /\ ~own.counted /\ ~own.borrowed
        /\ own.suspended = s.of[o].suspended
    BY <1>2 DEF Holding
  <1> HIDE DEF own
  <1>4. /\ h \in Holding /\ h.handle /\ ~h.borrowed /\ ~h.missing
        /\ h.suspended = s.of[o].suspended
    BY <1>3 DEF Holding
  <1>5. /\ g \in Holding /\ ~g.handle /\ ~g.counted /\ g.missing
        /\ g.suspended = s.of[o].suspended
    BY <1>3 DEF Holding
  <1>6. /\ k \in Holding /\ k.handle = s.of[o].handle /\ k.borrowed = s.of[o].borrowed
        /\ k.counted = s.of[o].counted /\ (k.handle <=> ~k.missing)
        /\ k.suspended = s.of[o].suspended
    BY <1>1 DEF Holding
  <1>7. Sound(h) /\ Sound(g) /\ Sound(k)
    BY <1>1, <1>4, <1>5, <1>6 DEF Sound
  <1>8. t = Put(u, o, h, 1) \/ t = Put(u, o, g, 0) \/ t = Put(s, o, k, 0)
    BY DEF LoadTexture, own
  <1> HIDE DEF u, h, g, k
  <1>9. CASE t = Put(u, o, h, 1)
    <2> DEFINE n == 1
    <2>1. n \in Int /\ n = (IF h.handle THEN 1 ELSE 0) - (IF u.of[o].handle THEN 1 ELSE 0)
      BY <1>2, <1>4
    <2>2. t = Put(u, o, h, n)
      BY <1>9
    <2> HIDE DEF n
    <2>3. StoreOK(u) /\ h \in Holding /\ Sound(h)
      BY <1>1, <1>4, <1>7
    <2>4. /\ StoreOK(Put(u, o, h, n))
          /\ Put(u, o, h, n).of[o] = h
          /\ \A p \in Owners \ {o} : Put(u, o, h, n).of[p] = u.of[p]
      BY <2>1, <2>3, PutKeeps
    <2>5. StoreOK(t) /\ t.of[o] = h /\ \A p \in Owners \ {o} : t.of[p] = u.of[p]
      BY <2>2, <2>4
    <2> QED
      BY <1>1, <1>4, <2>5 DEF Loaded
  <1>10. CASE t = Put(u, o, g, 0)
    <2> DEFINE n == 0
    <2>1. n \in Int /\ n = (IF g.handle THEN 1 ELSE 0) - (IF u.of[o].handle THEN 1 ELSE 0)
      BY <1>2, <1>5
    <2>2. t = Put(u, o, g, n)
      BY <1>10
    <2> HIDE DEF n
    <2>3. StoreOK(u) /\ g \in Holding /\ Sound(g)
      BY <1>1, <1>5, <1>7
    <2>4. /\ StoreOK(Put(u, o, g, n))
          /\ Put(u, o, g, n).of[o] = g
          /\ \A p \in Owners \ {o} : Put(u, o, g, n).of[p] = u.of[p]
      BY <2>1, <2>3, PutKeeps
    <2>5. StoreOK(t) /\ t.of[o] = g /\ \A p \in Owners \ {o} : t.of[p] = u.of[p]
      BY <2>2, <2>4
    <2> QED
      BY <1>1, <1>5, <2>5 DEF Loaded
  <1>11. CASE t = Put(s, o, k, 0)
    <2> DEFINE n == 0
    <2>1. n \in Int /\ n = (IF k.handle THEN 1 ELSE 0) - (IF s.of[o].handle THEN 1 ELSE 0)
      BY <1>6
    <2>2. t = Put(s, o, k, n)
      BY <1>11
    <2> HIDE DEF n
    <2>3. StoreOK(t) /\ t.of[o] = k /\ \A p \in Owners \ {o} : t.of[p] = s.of[p]
      BY <1>6, <1>7, <2>1, <2>2, PutKeeps
    <2> QED
      BY <1>6, <2>3 DEF Loaded
  <1> QED
    BY <1>8, <1>9, <1>10, <1>11

\* Changing only the flag keeps all else.
LEMMA FlagFacts ==
  ASSUME NEW s, StoreOK(s), NEW o \in Owners, NEW flag \in BOOLEAN
  PROVE  LET t == Put(s, o, [s.of[o] EXCEPT !.suspended = flag], 0)
         IN  /\ StoreOK(t)
             /\ \A p \in Owners \ {o} : t.of[p] = s.of[p]
             /\ t.of[o].handle = s.of[o].handle
             /\ t.of[o].missing = s.of[o].missing
             /\ t.of[o].suspended = flag
  <1> DEFINE h == [s.of[o] EXCEPT !.suspended = flag]
  <1>1. s.of[o] \in Holding /\ Sound(s.of[o])
    BY DEF StoreOK
  <1>2. /\ h \in Holding
        /\ h.handle = s.of[o].handle /\ h.counted = s.of[o].counted
        /\ h.borrowed = s.of[o].borrowed /\ h.suspended = flag
        /\ h.missing = s.of[o].missing
    BY <1>1 DEF Holding
  <1>3. Sound(h)
    BY <1>1, <1>2 DEF Sound
  <1> HIDE DEF h
  <1>4. 0 \in Int /\ 0 = (IF h.handle THEN 1 ELSE 0) - (IF s.of[o].handle THEN 1 ELSE 0)
    BY <1>2
  <1>5. /\ StoreOK(Put(s, o, h, 0))
        /\ Put(s, o, h, 0).of[o] = h
        /\ \A p \in Owners \ {o} : Put(s, o, h, 0).of[p] = s.of[p]
    BY <1>2, <1>3, <1>4, PutKeeps
  <1> QED
    BY <1>2, <1>5 DEF h

LEMMA SuspendFacts ==
  ASSUME NEW s, StoreOK(s), NEW o \in Owners, Whole(s.of[o])
  PROVE  LET t == SuspendResources(s, o)
         IN  /\ StoreOK(t)
             /\ \A p \in Owners \ {o} : t.of[p] = s.of[p]
             /\ t.of[o].suspended /\ Whole(t.of[o])
  <1>1. CASE s.of[o].suspended
    BY <1>1 DEF SuspendResources
  <1>2. CASE ~s.of[o].suspended
    <2> DEFINE u == Unload(s, o)
               t == Put(u, o, [u.of[o] EXCEPT !.suspended = TRUE], 0)
    <2>1. /\ StoreOK(u)
          /\ \A p \in Owners \ {o} : u.of[p] = s.of[p]
          /\ u.of[o] = [s.of[o] EXCEPT !.handle = FALSE, !.counted = FALSE]
          /\ s.of[o] \in Holding
      BY UnloadFacts, ReturnedIsHeld
    <2>2. ~u.of[o].handle
      BY <2>1 DEF Holding
    <2>3. SuspendResources(s, o) = t
      BY <1>2 DEF SuspendResources
    <2> HIDE DEF u
    <2>4. /\ StoreOK(t)
          /\ \A p \in Owners \ {o} : t.of[p] = u.of[p]
          /\ t.of[o].handle = u.of[o].handle
          /\ t.of[o].suspended = TRUE
      BY <2>1, FlagFacts
    <2> HIDE DEF t
    <2> QED
      BY <2>1, <2>2, <2>3, <2>4 DEF Whole
  <1> QED
    BY <1>1, <1>2

LEMMA ResumeFacts ==
  ASSUME NEW s, StoreOK(s), NEW o \in Owners, Whole(s.of[o]),
         NEW t \in ResumeResources(s, o)
  PROVE  /\ StoreOK(t)
         /\ \A p \in Owners \ {o} : t.of[p] = s.of[p]
         /\ ~t.of[o].suspended /\ Whole(t.of[o])
  <1>1. CASE ~s.of[o].suspended
    BY <1>1 DEF ResumeResources
  <1>2. CASE s.of[o].suspended
    <2>1. PICK u \in LoadTexture(s, o) : t = Put(u, o, [u.of[o] EXCEPT !.suspended = FALSE], 0)
      BY <1>2 DEF ResumeResources
    <2>2. /\ StoreOK(u)
          /\ \A p \in Owners \ {o} : u.of[p] = s.of[p]
          /\ u.of[o].handle <=> ~u.of[o].missing
      BY LoadFacts DEF Loaded
    <2> DEFINE v == Put(u, o, [u.of[o] EXCEPT !.suspended = FALSE], 0)
    <2>3. /\ StoreOK(v)
          /\ \A p \in Owners \ {o} : v.of[p] = u.of[p]
          /\ v.of[o].handle = u.of[o].handle
          /\ v.of[o].missing = u.of[o].missing
          /\ v.of[o].suspended = FALSE
      BY <2>2, FlagFacts
    <2> HIDE DEF v
    <2>4. t = v
      BY <2>1 DEF v
    <2> QED
      BY <2>2, <2>3, <2>4 DEF Whole
  <1> QED
    BY <1>1, <1>2

LEMMA CloneFacts ==
  ASSUME NEW s, StoreOK(s), NEW d \in Documents, ~s.of[d].handle
  PROVE  LET t == CloneResource(s, d)
         IN  /\ StoreOK(t)
             /\ \A p \in Owners \ {d} : t.of[p] = s.of[p]
             /\ t.of[d].handle = s.of[Source].handle
             /\ ~t.of[d].suspended
             /\ t.of[d].missing = ~t.of[d].handle
  <1> DEFINE shared == s.of[Source].handle
             h == [handle |-> shared, borrowed |-> TRUE, counted |-> shared, suspended |-> FALSE,
                   missing |-> ~shared]
             n == IF shared THEN 1 ELSE 0
  <1>1. d \in Owners /\ Source \in Owners
    BY OwnersFinite
  <1>2. s.of[Source] \in Holding
    BY <1>1, ReturnedIsHeld
  <1>3. shared \in BOOLEAN
    BY <1>2 DEF Holding
  <1> HIDE DEF shared
  <1>4. /\ h \in Holding
        /\ h.handle = shared /\ h.counted = shared /\ ~h.suspended
        /\ h.missing = ~h.handle
    BY <1>3 DEF Holding
  <1>5. Sound(h)
    BY <1>4 DEF Sound
  <1> HIDE DEF h
  <1>6. n \in Int /\ n = (IF h.handle THEN 1 ELSE 0) - (IF s.of[d].handle THEN 1 ELSE 0)
    BY <1>4
  <1>7. CloneResource(s, d) = Put(s, d, h, n)
    BY DEF CloneResource, h, shared
  <1> HIDE DEF n
  <1>8. /\ StoreOK(Put(s, d, h, n))
        /\ Put(s, d, h, n).of[d] = h
        /\ \A p \in Owners \ {d} : Put(s, d, h, n).of[p] = s.of[p]
    BY <1>1, <1>4, <1>5, <1>6, PutKeeps
  <1> QED
    BY <1>4, <1>7, <1>8 DEF shared

LEMMA EmptyHolding == Empty \in Holding /\ Sound(Empty) /\ ~Empty.handle /\ ~Empty.suspended
  BY DEF Empty, Holding, Sound

LEMMA DeleteFacts ==
  ASSUME NEW s, StoreOK(s), NEW o \in Owners
  PROVE  LET t == Delete(s, o)
         IN  /\ StoreOK(t)
             /\ \A p \in Owners \ {o} : t.of[p] = s.of[p]
             /\ t.of[o] = Empty
  <1> DEFINE n == Returned(s, o)
  <1>1. n \in Int /\ n = (IF Empty.handle THEN 1 ELSE 0) - (IF s.of[o].handle THEN 1 ELSE 0)
    BY ReturnedIsHeld, EmptyHolding
  <1>2. Delete(s, o) = Put(s, o, Empty, n)
    BY DEF Delete
  <1> HIDE DEF n
  <1>3. /\ StoreOK(Put(s, o, Empty, n))
        /\ Put(s, o, Empty, n).of[o] = Empty
        /\ \A p \in Owners \ {o} : Put(s, o, Empty, n).of[p] = s.of[p]
    BY <1>1, EmptyHolding, PutKeeps
  <1> QED
    BY <1>2, <1>3

LEMMA NothingDeleted ==
  ASSUME NEW s
  PROVE  Delete(s, NoDocument) = s
  BY ActAssumption DEF Delete, Owners
-----------------------------------------------------------------------------
\* What the innermost loop does to the stack of loops.
LEMMA CallsFacts ==
  ASSUME calls \in Seq(Loop), calls # <<>>
  PROVE  /\ Len(calls) \in Nat \ {0}
         /\ calls[Len(calls)] \in Loop
         /\ Return => calls' \in Seq(Loop)
         /\ \A i \in Nat : Proceed(i) =>
              /\ calls' \in Seq(Loop) /\ calls' # <<>> /\ Len(calls') = Len(calls)
              /\ calls'[Len(calls')] = [name |-> calls[Len(calls)].name, at |-> i]
  <1>1. Len(calls) \in Nat \ {0} /\ calls[Len(calls)] \in Loop
    OBVIOUS
  <1>2. Return => calls' \in Seq(Loop)
    BY <1>1 DEF Return
  <1>3. ASSUME NEW i \in Nat, Proceed(i)
        PROVE  /\ calls' \in Seq(Loop) /\ calls' # <<>> /\ Len(calls') = Len(calls)
               /\ calls'[Len(calls')] = [name |-> calls[Len(calls)].name, at |-> i]
    <2> DEFINE n == Len(calls)
               f == [calls[n] EXCEPT !.at = i]
    <2>1. f = [name |-> calls[n].name, at |-> i] /\ f \in Loop
      BY <1>1 DEF Loop
    <2>2. calls' = [calls EXCEPT ![n] = f]
      BY <1>3 DEF Proceed
    <2> HIDE DEF f
    <2>3. calls' \in Seq(Loop) /\ Len(calls') = n /\ calls'[n] = f
      BY <1>1, <2>1, <2>2
    <2> QED
      BY <1>1, <2>1, <2>3
  <1> QED
    BY <1>1, <1>2, <1>3

LEMMA UnusedOK == StoreOK(Unused) /\ \A o \in Owners : Unused.of[o] = Empty
  <1>1. /\ Unused.references = 0
        /\ \A o \in Owners : Unused.of[o] = Empty
        /\ Unused \in [references : Int, of : [Owners -> Holding]]
    BY EmptyHolding DEF Unused
  <1>2. HoldersOf(Unused) = {}
    BY <1>1, EmptyHolding DEF HoldersOf
  <1>3. Cardinality(HoldersOf(Unused)) = 0
    BY <1>2, FS_EmptySet
  <1> QED
    BY <1>1, <1>3, EmptyHolding DEF StoreOK

\* The store once the source has been read, whether or not its texture was found.
LEMMA SourceRead ==
  ASSUME NEW t \in LoadTexture(Unused, Source)
  PROVE  StoreOK(t) /\ Whole(t.of[Source]) /\ \A d \in Documents : t.of[d] = Empty
  <1>1. Source \in Owners /\ Documents \subseteq Owners /\ Source \notin Documents
    BY OwnersFinite, ActAssumption
  <1>2. Loaded(Unused, Source, t)
    BY <1>1, UnusedOK, LoadFacts
  <1>3. ~t.of[Source].suspended
    BY <1>1, <1>2, UnusedOK, EmptyHolding DEF Loaded
  <1> QED
    BY <1>1, <1>2, <1>3, UnusedOK DEF Loaded, Whole

LEMMA ActInitial == ActInit => ActInv
  <1> SUFFICES ASSUME ActInit PROVE ActInv
    OBVIOUS
  <1>1. <<>> \in Seq(Nat) /\ <<>> \in Seq(Loop)
    OBVIOUS
  <1>2. /\ StoreOK(store) /\ Whole(store.of[Source])
        /\ \A d \in Documents : store.of[d] = Empty
    BY SourceRead DEF ActInit
  <1>3. store \in [references : Int, of : [Owners -> Holding]]
    BY <1>2 DEF StoreOK
  <1>4. ActTypeOK
    BY <1>1, <1>3 DEF ActInit, ActTypeOK
  <1>5. Documented
    BY <1>2 DEF ActInit, Documented
  <1>6. Borrows /\ Prepared
    BY DEF ActInit, Borrows, Prepared
  <1> QED
    BY <1>2, <1>4, <1>5, <1>6 DEF ActInv
-----------------------------------------------------------------------------
\* The parts of the invariant that depend on the store alone.
LEMMA StoreTyped ==
  ASSUME StoreOK(store)'
  PROVE  (store \in [references : Int, of : [Owners -> Holding]])'
  BY DEF StoreOK

\* What a new clone makes of the store, whether or not it gets its holder.
LEMMA ClonedStore ==
  ASSUME ActInv, NEW d \in Documents, StageCloned(d)
  PROVE  StoreOK(store)' /\ Documented'
  <1>0. PICK r \in ResumeResources(store, Source) :
          store' = Delete(CloneResource(r, d), active)
    BY DEF StageCloned
  <1> DEFINE c == CloneResource(r, d)
  <1>1. /\ StoreOK(store) /\ Documented
        /\ d # active /\ active' = d /\ store' = Delete(c, active)
        /\ active \in Documents \cup {NoDocument}
    BY <1>0 DEF ActInv, StageCloned, ActTypeOK
  <1>2. /\ Source \in Owners /\ Documents \subseteq Owners /\ Source \notin Documents
        /\ NoDocument \notin Documents
    BY OwnersFinite, ActAssumption
  <1>3. Whole(store.of[Source])
    BY <1>1 DEF Documented
  <1>4. /\ StoreOK(r)
        /\ \A p \in Owners \ {Source} : r.of[p] = store.of[p]
        /\ ~r.of[Source].suspended /\ Whole(r.of[Source])
    BY <1>1, <1>2, <1>3, ResumeFacts
  <1>5. r.of[d] = Empty
    BY <1>1, <1>2, <1>4 DEF Documented
  <1>6. ~r.of[d].handle
    BY <1>5, EmptyHolding
  <1>7. /\ StoreOK(c)
        /\ \A p \in Owners \ {d} : c.of[p] = r.of[p]
        /\ c.of[d].handle = r.of[Source].handle
        /\ ~c.of[d].suspended
        /\ c.of[d].missing = ~c.of[d].handle
    BY <1>4, <1>6, CloneFacts
  <1> HIDE DEF c
  <1>8. Whole(c.of[d]) /\ Whole(c.of[Source])
    BY <1>2, <1>4, <1>7 DEF Whole
  <1>9. CASE active = NoDocument
    <2>1. store' = c
      BY <1>1, <1>9, NothingDeleted
    <2>2. \A p \in Documents : p # d => c.of[p] = Empty
      BY <1>1, <1>2, <1>4, <1>7, <1>9 DEF Documented
    <2> QED
      BY <1>1, <1>2, <1>7, <1>8, <2>1, <2>2 DEF Documented, StoreOK, HoldersOf
  <1>10. CASE active # NoDocument
    <2>1. active \in Owners
      BY <1>1, <1>2, <1>10
    <2>2. /\ StoreOK(store')
          /\ \A p \in Owners \ {active} : store'.of[p] = c.of[p]
          /\ store'.of[active] = Empty
      BY <1>1, <1>7, <2>1, DeleteFacts
    <2>3. \A p \in Documents : p # d => store'.of[p] = Empty
      BY <1>1, <1>2, <1>4, <1>7, <2>2 DEF Documented
    <2>4. store'.of[d] = c.of[d] /\ store'.of[Source] = c.of[Source]
      BY <1>1, <1>2, <1>10, <2>1, <2>2
    <2>5. StoreOK(store)'
      BY <2>2 DEF StoreOK, HoldersOf
    <2> QED
      BY <1>1, <1>2, <1>7, <1>8, <2>3, <2>4, <2>5 DEF Documented
  <1> QED
    BY <1>9, <1>10

LEMMA ClonedTypes ==
  ASSUME ActInv, NEW d \in Documents, StageCloned(d)
  PROVE  /\ (store \in [references : Int, of : [Owners -> Holding]])'
         /\ active' = d /\ d # NoDocument
         /\ layers' \in Seq(Nat) /\ initialised' = {}
         /\ Len(layers') = SourceLayers /\ \A i \in 1..SourceLayers : layers'[i] = i
         /\ hidden' \in BOOLEAN /\ waiting' \in BOOLEAN
  <1>1. SourceLayers \in Nat /\ NoDocument \notin Documents
    BY ActAssumption
  <1>2. layers' = [i \in 1..SourceLayers |-> i]
    BY DEF StageCloned
  <1>3. layers' \in Seq(Nat) /\ Len(layers') = SourceLayers /\ \A i \in 1..SourceLayers : layers'[i] = i
    BY <1>1, <1>2
  <1>4. hidden' \in BOOLEAN /\ waiting' \in BOOLEAN
    BY DEF StageCloned, ActInv, ActTypeOK
  <1> QED
    BY <1>1, <1>3, <1>4, ClonedStore, StoreTyped DEF StageCloned

LEMMA HolderFailsKeeps ==
  ASSUME ActInv, NEW d \in Documents, StageHolderFails(d)
  PROVE  ActInv'
  <1>1. StageCloned(d)
    BY DEF StageHolderFails
  <1>2. /\ ~staged' /\ staged' \in BOOLEAN /\ held' = NoDocument /\ aliases' = aliases
        /\ calls' \in Seq(Loop)
    BY DEF StageHolderFails, StageCloned, ActInv, ActTypeOK
  <1>3. ActTypeOK'
    BY <1>1, <1>2, ClonedTypes DEF ActTypeOK, ActInv
  <1>4. Borrows'
    BY <1>1, <1>2 DEF ActInv, Borrows, StageCloned
  <1>5. Prepared'
    BY <1>2 DEF Prepared
  <1> QED
    BY <1>1, <1>3, <1>4, <1>5, ClonedStore DEF ActInv

LEMMA BeginsKeeps ==
  ASSUME ActInv, NEW d \in Documents, StageBegins(d)
  PROVE  ActInv'
  <1> DEFINE f == [name |-> "init", at |-> 0]
  <1>1. StageCloned(d)
    BY DEF StageBegins
  <1>2. staged' = TRUE /\ held' = d /\ aliases' = d /\ calls' = Append(calls, f)
    BY DEF StageBegins
  <1>3. f \in Loop /\ f.name = "init" /\ f.at = 0
    BY DEF Loop
  <1> HIDE DEF f
  <1>4. calls \in Seq(Loop)
    BY DEF ActInv, ActTypeOK
  <1>5. calls' \in Seq(Loop) /\ calls' # <<>> /\ calls'[Len(calls')] = f
    BY <1>2, <1>3, <1>4
  <1>6. staged' \in BOOLEAN
    BY <1>2, Zenon
  <1>7. ActTypeOK'
    BY <1>1, <1>2, <1>5, <1>6, ClonedTypes DEF ActTypeOK
  <1>8. Borrows'
    BY <1>1, <1>2, ClonedTypes DEF Borrows
  <1>9. Running("init")' /\ At' = 0
    BY <1>3, <1>5 DEF Running, At
  <1>10. Prepared'
    BY <1>1, <1>9, ClonedTypes, ActAssumption DEF Prepared
  <1> QED
    BY <1>1, <1>7, <1>8, <1>10, ClonedStore DEF ActInv

\* The other commands leave the store alone, but for three.
LEMMA StoreKept ==
  ASSUME ActInv, NEW o \in Owners, store' \in ResumeResources(store, o), active' = active,
         o = Source \/ o = active, hidden' = hidden \/ o = active
  PROVE  StoreOK(store)' /\ Documented'
  <1>1. /\ StoreOK(store) /\ Documented /\ active \in Documents \cup {NoDocument}
        /\ Source \in Owners /\ Documents \subseteq Owners /\ Source \notin Documents
        /\ NoDocument \notin Documents
    BY OwnersFinite, ActAssumption DEF ActInv, ActTypeOK
  <1>2. Whole(store.of[o])
    BY <1>1, ActAssumption DEF Documented, Owners
  <1>3. /\ StoreOK(store')
        /\ \A p \in Owners \ {o} : store'.of[p] = store.of[p]
        /\ ~store'.of[o].suspended /\ Whole(store'.of[o])
    BY <1>1, <1>2, ResumeFacts
  <1>4. \A d \in Documents : d # active => store'.of[d] = Empty
    BY <1>1, <1>3 DEF Documented
  <1>5. Whole(store'.of[Source]) /\ (active # NoDocument => Whole(store'.of[active]))
    BY <1>1, <1>3 DEF Documented
  <1>6. active # NoDocument /\ store'.of[active].suspended => hidden'
    BY <1>1, <1>3 DEF Documented
  <1> QED
    BY <1>3, <1>4, <1>5, <1>6 DEF Documented, StoreOK, HoldersOf

LEMMA RefusedKeeps ==
  ASSUME ActInv, StageRefused
  PROVE  ActInv'
  <1>1. StoreOK(store)' /\ Documented'
    BY StoreKept, OwnersFinite DEF StageRefused
  <1>2. ActTypeOK'
    BY <1>1, StoreTyped DEF ActInv, ActTypeOK, StageRefused
  <1>3. Borrows' /\ Prepared'
    BY DEF ActInv, Borrows, Prepared, StageRefused, Running, At
  <1> QED
    BY <1>1, <1>2, <1>3 DEF ActInv

LEMMA ResumeKeeps ==
  ASSUME ActInv, Resume
  PROVE  ActInv'
  <1>1. CASE active = NoDocument
    <2>1. store' = store /\ active' = active
      BY <1>1 DEF Resume
    <2> QED
      BY <1>1, <2>1 DEF ActInv, ActTypeOK, Resume, Documented, StoreOK, HoldersOf, Borrows,
         Prepared, Running, At
  <1>2. CASE active # NoDocument
    <2>1. active \in Owners /\ store' \in ResumeResources(store, active) /\ active' = active
      BY <1>2, OwnersFinite DEF ActInv, ActTypeOK, Resume
    <2>2. StoreOK(store)' /\ Documented'
      BY <2>1, StoreKept
    <2>3. hidden' \in BOOLEAN /\ waiting' \in BOOLEAN
      BY Zenon DEF Resume
    <2>4. ActTypeOK'
      BY <2>2, <2>3, StoreTyped DEF ActInv, ActTypeOK, Resume
    <2>5. Borrows' /\ Prepared'
      BY DEF ActInv, Borrows, Prepared, Resume, Running, At
    <2> QED
      BY <2>2, <2>4, <2>5 DEF ActInv
  <1> QED
    BY <1>1, <1>2

LEMMA SuspendKeeps ==
  ASSUME ActInv, Suspend
  PROVE  ActInv'
  <1> DEFINE c == IF active = NoDocument THEN store ELSE SuspendResources(store, active)
  <1>1. /\ StoreOK(store) /\ Documented /\ active \in Documents \cup {NoDocument}
        /\ Source \in Owners /\ Documents \subseteq Owners /\ Source \notin Documents
        /\ NoDocument \notin Documents
    BY OwnersFinite, ActAssumption DEF ActInv, ActTypeOK
  <1>2. store' = SuspendResources(c, Source) /\ active' = active /\ hidden' = TRUE
    BY DEF Suspend
  <1>3. /\ StoreOK(c)
        /\ \A p \in Owners : p # active => c.of[p] = store.of[p]
        /\ active # NoDocument => Whole(c.of[active])
    <2>1. CASE active = NoDocument
      BY <1>1, <2>1
    <2>2. CASE active # NoDocument
      <3>1. active \in Owners /\ Whole(store.of[active])
        BY <1>1, <2>2 DEF Documented
      <3> QED
        BY <1>1, <2>2, <3>1, SuspendFacts
    <2> QED
      BY <2>1, <2>2
  <1> HIDE DEF c
  <1>4. Whole(c.of[Source])
    BY <1>1, <1>3, ActAssumption DEF Documented
  <1>5. /\ StoreOK(store')
        /\ \A p \in Owners \ {Source} : store'.of[p] = c.of[p]
        /\ Whole(store'.of[Source])
    BY <1>1, <1>2, <1>3, <1>4, SuspendFacts
  <1>6. \A d \in Documents : d # active => store'.of[d] = Empty
    BY <1>1, <1>3, <1>5 DEF Documented
  <1>7. active # NoDocument => Whole(store'.of[active])
    BY <1>1, <1>3, <1>5
  <1>8. StoreOK(store)' /\ Documented'
    BY <1>2, <1>5, <1>6, <1>7 DEF Documented, StoreOK, HoldersOf
  <1>9. hidden' \in BOOLEAN
    BY <1>2, Zenon
  <1>10. ActTypeOK'
    BY <1>8, <1>9, StoreTyped DEF ActInv, ActTypeOK, Suspend
  <1>11. Borrows' /\ Prepared'
    BY DEF ActInv, Borrows, Prepared, Suspend, Running, At
  <1> QED
    BY <1>8, <1>10, <1>11 DEF ActInv

LEMMA DisposeKeeps ==
  ASSUME ActInv, Dispose
  PROVE  ActInv'
  <1> DEFINE c == Delete(store, active)
             e == Delete(c, Source)
  <1>1. /\ StoreOK(store) /\ Documented /\ active \in Documents \cup {NoDocument}
        /\ Source \in Owners /\ Documents \subseteq Owners /\ Source \notin Documents
        /\ NoDocument \notin Documents /\ Owners = Documents \cup {Source}
    BY OwnersFinite, ActAssumption DEF ActInv, ActTypeOK, Owners
  <1>2. StoreOK(c) /\ \A d \in Documents : c.of[d] = Empty
    <2>1. CASE active = NoDocument
      BY <1>1, <2>1, NothingDeleted DEF Documented
    <2>2. CASE active # NoDocument
      BY <1>1, <2>2, DeleteFacts DEF Documented
    <2> QED
      BY <2>1, <2>2
  <1> HIDE DEF c
  <1>3. StoreOK(e) /\ \A o \in Owners : e.of[o] = Empty
    <2>1. /\ StoreOK(e)
          /\ \A p \in Owners \ {Source} : e.of[p] = c.of[p]
          /\ e.of[Source] = Empty
      BY <1>1, <1>2, DeleteFacts
    <2> HIDE DEF e
    <2> QED
      BY <1>1, <1>2, <2>1
  <1> HIDE DEF e
  <1>4. HoldersOf(e) = {}
    BY <1>3, EmptyHolding DEF HoldersOf
  <1>5. e.references = 0
    BY <1>3, <1>4, FS_EmptySet DEF StoreOK
  <1>6. store' \in LoadTexture(e, Source)
    BY DEF Dispose, e, c
  <1>7. e = [references |-> 0, of |-> [o \in Owners |-> Empty]]
    BY <1>3, <1>5 DEF StoreOK
  <1>8. store' \in LoadTexture(Unused, Source)
    BY <1>6, <1>7 DEF Unused
  <1>9. ActInit'
    BY <1>8 DEF Dispose, ActInit
  <1> QED
    BY <1>9, ActInitial, PTL

\* What leaves the store and the clone alone keeps their part.
LEMMA Untouched ==
  ASSUME ActInv, UNCHANGED <<store, active, hidden>>
  PROVE  StoreOK(store)' /\ Documented'
  BY DEF ActInv, StoreOK, HoldersOf, Documented

LEMMA EndKeeps ==
  ASSUME ActInv, EndStage
  PROVE  ActInv'
  <1>1. staged' \in BOOLEAN /\ ~staged'
    BY Zenon DEF EndStage
  <1>2. ActTypeOK'
    BY <1>1 DEF ActInv, ActTypeOK, EndStage
  <1>3. Borrows' /\ Prepared'
    BY <1>1 DEF ActInv, Borrows, Prepared, EndStage
  <1> QED
    BY <1>2, <1>3, Untouched DEF ActInv, EndStage

LEMMA CreateKeeps ==
  ASSUME ActInv, CreateLayer
  PROVE  ActInv'
  <1>1. layers \in Seq(Nat) /\ layers' = Append(layers, Len(layers) + 1)
    BY DEF ActInv, ActTypeOK, CreateLayer
  <1>2. /\ layers' \in Seq(Nat) /\ Len(layers') = Len(layers) + 1
        /\ \A i \in 1..Len(layers) : layers'[i] = layers[i]
    BY <1>1
  <1>3. ActTypeOK'
    BY <1>2 DEF ActInv, ActTypeOK, CreateLayer
  <1>4. Borrows'
    BY DEF ActInv, Borrows, CreateLayer
  <1>5. Prepared'
    BY <1>1, <1>2, ActAssumption DEF ActInv, Prepared, CreateLayer, Running, At
  <1> QED
    BY <1>3, <1>4, <1>5, Untouched DEF ActInv, CreateLayer

LEMMA SwapKeeps ==
  ASSUME ActInv, NEW first \in 1..Len(layers), NEW second \in 1..Len(layers),
         SwapLayers(first, second)
  PROVE  ActInv'
  <1>1. layers \in Seq(Nat) /\ calls \in Seq(Loop)
    BY DEF ActInv, ActTypeOK
  <1>2. layers' = [layers EXCEPT ![first] = layers[second], ![second] = layers[first]]
    BY DEF SwapLayers
  <1>3. layers' \in Seq(Nat)
    BY <1>1, <1>2
  <1>4. ActTypeOK'
    BY <1>3 DEF ActInv, ActTypeOK, SwapLayers
  <1>5. Borrows'
    BY DEF ActInv, Borrows, SwapLayers
  <1>6. ~Running("init")
    BY <1>1 DEF SwapLayers, Running
  <1>7. Prepared'
    BY <1>6 DEF ActInv, Prepared, SwapLayers
  <1> QED
    BY <1>4, <1>5, <1>7, Untouched DEF ActInv, SwapLayers

LEMMA WaitingKeeps ==
  ASSUME ActInv, (\E waits \in BOOLEAN : SleepTo(waits)) \/ TimePasses
  PROVE  ActInv'
  <1>1. /\ UNCHANGED <<staged, active, held, aliases, hidden, layers, initialised, store, calls>>
        /\ waiting' \in BOOLEAN
    BY Zenon DEF SleepTo, TimePasses
  <1>2. ActTypeOK'
    BY <1>1 DEF ActInv, ActTypeOK
  <1>3. Borrows' /\ Prepared'
    BY <1>1 DEF ActInv, Borrows, Prepared, Running, At
  <1> QED
    BY <1>1, <1>2, <1>3, Untouched DEF ActInv
-----------------------------------------------------------------------------
LEMMA InitKeeps ==
  ASSUME ActInv, InitGoesOn
  PROVE  ActInv'
  <1>1. /\ calls \in Seq(Loop) /\ calls # <<>> /\ calls[Len(calls)].name = "init"
        /\ layers \in Seq(Nat) /\ initialised \subseteq Nat
        /\ UNCHANGED <<staged, active, held, aliases, hidden, waiting, layers, store>>
    BY DEF ActInv, ActTypeOK, InitGoesOn, Running
  <1>2. At \in Nat /\ Len(layers) \in Nat
    BY <1>1, CallsFacts DEF At, Loop
  <1>3. CASE At < Len(layers)
    <2>1. Proceed(At + 1) /\ initialised' = initialised \cup {layers[At + 1]}
      BY <1>3 DEF InitGoesOn
    <2>2. At + 1 \in 1..Len(layers) /\ At + 1 \in Nat
      BY <1>2, <1>3
    <2>3. layers[At + 1] \in Nat
      BY <1>1, <2>2
    <2>4. /\ calls' \in Seq(Loop) /\ calls' # <<>>
          /\ calls'[Len(calls')] = [name |-> "init", at |-> At + 1]
      BY <1>1, <2>1, <2>2, CallsFacts
    <2>5. ActTypeOK'
      BY <1>1, <2>1, <2>3, <2>4 DEF ActInv, ActTypeOK
    <2>6. Borrows'
      BY <1>1 DEF ActInv, Borrows
    <2>7. Running("init")' /\ At' = At + 1
      BY <2>4 DEF Running, At
    <2>8. Prepared'
      BY <1>1, <1>2, <2>1, <2>7, ActAssumption DEF ActInv, Prepared
    <2> QED
      BY <1>1, <2>5, <2>6, <2>8, Untouched DEF ActInv
  <1>4. CASE ~(At < Len(layers))
    <2>1. Return /\ initialised' = initialised
      BY <1>4 DEF InitGoesOn
    <2>2. calls' \in Seq(Loop)
      BY <1>1, <2>1, CallsFacts
    <2>3. ActTypeOK'
      BY <1>1, <2>1, <2>2 DEF ActInv, ActTypeOK
    <2>4. Borrows'
      BY <1>1 DEF ActInv, Borrows
    <2>5. staged => 1..SourceLayers \subseteq initialised
      BY <1>2, <1>4, ActAssumption DEF ActInv, Prepared
    <2>6. Prepared'
      BY <1>1, <2>1, <2>5 DEF Prepared
    <2> QED
      BY <1>1, <2>3, <2>4, <2>6, Untouched DEF ActInv
  <1> QED
    BY <1>3, <1>4

LEMMA UpdateKeeps ==
  ASSUME ActInv, UpdateBegins \/ UpdateGoesOn \/ UpdateEnds
  PROVE  ActInv'
  <1>1. /\ UNCHANGED <<staged, active, held, aliases, hidden, waiting, layers, initialised, store>>
        /\ calls \in Seq(Loop)
    BY DEF ActInv, ActTypeOK, UpdateBegins, UpdateGoesOn, UpdateEnds
  <1>2. ~Running("init")
    BY DEF UpdateBegins, UpdateGoesOn, UpdateEnds, Running
  <1>3. calls' \in Seq(Loop)
    <2>1. CASE UpdateBegins
      <3> DEFINE f == [name |-> "update", at |-> 0]
      <3>1. f \in Loop /\ calls' = <<f>>
        BY <2>1 DEF Loop, UpdateBegins
      <3> HIDE DEF f
      <3> QED
        BY <3>1
    <2>2. CASE UpdateGoesOn
      <3>1. calls # <<>> /\ Proceed(At + 1)
        BY <2>2 DEF UpdateGoesOn, Running
      <3>2. At + 1 \in Nat
        BY <1>1, <3>1, CallsFacts DEF At, Loop
      <3> QED
        BY <1>1, <3>1, <3>2, CallsFacts
    <2>3. CASE UpdateEnds
      BY <1>1, <2>3, CallsFacts DEF UpdateEnds, Running
    <2> QED
      BY <2>1, <2>2, <2>3
  <1>4. ActTypeOK'
    BY <1>1, <1>3 DEF ActInv, ActTypeOK
  <1>5. Borrows'
    BY <1>1 DEF ActInv, Borrows
  <1>6. Prepared'
    BY <1>1, <1>2 DEF ActInv, Prepared
  <1> QED
    BY <1>1, <1>4, <1>5, <1>6, Untouched DEF ActInv
-----------------------------------------------------------------------------
(* A step of an ACT runtime, of any kind, keeps its inductive invariant. *)
LEMMA ActSteps == ActInv /\ [ActNext]_act_vars => ActInv'
  <1> SUFFICES ASSUME ActInv, [ActNext]_act_vars
               PROVE  ActInv'
    OBVIOUS
  <1>1. CASE Commands
    <2>1. CASE StageRefused
      BY <2>1, RefusedKeeps
    <2>2. ASSUME NEW d \in Documents, StageHolderFails(d)
          PROVE  ActInv'
      BY <2>2, HolderFailsKeeps
    <2>3. ASSUME NEW d \in Documents, StageBegins(d)
          PROVE  ActInv'
      BY <2>3, BeginsKeeps
    <2>4. CASE EndStage
      BY <2>4, EndKeeps
    <2>5. CASE CreateLayer
      BY <2>5, CreateKeeps
    <2>6. ASSUME NEW first \in 1..Len(layers), NEW second \in 1..Len(layers),
                 SwapLayers(first, second)
          PROVE  ActInv'
      BY <2>6, SwapKeeps
    <2>7. CASE Suspend
      BY <2>7, SuspendKeeps
    <2>8. CASE Resume
      BY <2>8, ResumeKeeps
    <2>9. CASE \E waits \in BOOLEAN : SleepTo(waits)
      BY <2>9, WaitingKeeps
    <2> QED
      BY <1>1, <2>1, <2>2, <2>3, <2>4, <2>5, <2>6, <2>7, <2>8, <2>9 DEF Commands
  <1>2. CASE InitGoesOn
    BY <1>2, InitKeeps
  <1>3. CASE UpdateBegins \/ UpdateGoesOn \/ UpdateEnds
    BY <1>3, UpdateKeeps
  <1>4. CASE TimePasses
    BY <1>4, WaitingKeeps
  <1>5. CASE Dispose
    BY <1>5, DisposeKeeps
  <1>6. CASE UNCHANGED act_vars
    BY <1>6 DEF act_vars, ActInv, ActTypeOK, StoreOK, HoldersOf, Documented, Borrows,
       Prepared, Running, At
  <1> QED
    BY <1>1, <1>2, <1>3, <1>4, <1>5, <1>6 DEF ActNext

LEMMA InvBalances == ActInv => TexturesBalanced
  <1> SUFFICES ASSUME ActInv PROVE TexturesBalanced
    OBVIOUS
  <1>1. StoreOK(store) /\ Documented /\ Borrows /\ active \in Documents \cup {NoDocument}
    BY DEF ActInv, ActTypeOK
  <1>2. store.references = Cardinality({o \in Owners : store.of[o].handle})
    BY <1>1 DEF StoreOK, HoldersOf
  <1>3. ASSUME NEW o \in Owners, store.of[o].suspended
        PROVE  ~store.of[o].handle
    <2>1. o = Source \/ o = active \/ store.of[o] = Empty
      BY <1>1 DEF Owners, Documented
    <2>2. o = active => active # NoDocument
      BY ActAssumption DEF Owners
    <2> QED
      BY <1>1, <1>3, <2>1, <2>2, EmptyHolding DEF Documented, Whole
  <1>4. ASSUME staged, ~hidden
        PROVE  /\ ~store.of[active].suspended
               /\ store.of[active].handle \/ store.of[active].missing
    <2>1. active # NoDocument
      BY <1>1, <1>4 DEF Borrows
    <2>2. ~store.of[active].suspended /\ Whole(store.of[active])
      BY <1>1, <1>4, <2>1 DEF Documented
    <2>3. store.of[active] \in Holding
      BY <1>1, <2>1, OwnersFinite DEF StoreOK
    <2> QED
      BY <2>2, <2>3 DEF Whole, Holding
  <1> QED
    BY <1>2, <1>3, <1>4 DEF TexturesBalanced

(* The inductive invariant of the runtime of an ACT. *)
THEOREM ActInvariant == ActSpec => []ActInv
  BY ActInitial, ActSteps, PTL DEF ActSpec

(* The variables have their types, for any number of documents, layers and
   nested loops. *)
THEOREM ActTypesHold == ActSpec => []ActTypeOK
  <1>1. ActInv => ActTypeOK
    BY DEF ActInv
  <1> QED
    BY <1>1, ActInvariant, PTL

(* What a stage borrows is its clone's, and no update reaches a layer whose
   Init has not run, however callbacks end and begin stages. *)
THEOREM StagesAreWhole == ActSpec => []StageIsWhole
  <1>1. ActInv => StageIsWhole
    BY DEF ActInv, Borrows, Prepared, StageIsWhole
  <1> QED
    BY <1>1, ActInvariant, PTL

(* Each reference of the store's is one a document holds, and what is shown has
   its texture or could not load it, through any clones, suspensions, failures to
   load and disposals. *)
THEOREM TexturesStayBalanced == ActSpec => []TexturesBalanced
  <1>1. ActInv => TexturesBalanced
    BY InvBalances
  <1> QED
    BY <1>1, ActInvariant, PTL
-----------------------------------------------------------------------------
(* Neither part disturbs the other: both keep their invariants in a behaviour
   of the two, which is what the run explores. *)
THEOREM CallbacksInvariant == CallbacksSpec => [](IInv /\ ActInv)
<1>1. CallbacksInit => IInv /\ ActInv
  BY Started, ActInitial DEF CallbacksInit
<1>2. IInv /\ UNCHANGED vars => IInv'
  BY PoolSteps
<1>3. ActInv /\ UNCHANGED act_vars => ActInv'
  BY ActSteps
<1>4. IInv /\ ActInv /\ [PoolStep \/ ActStep]_callback_vars => (IInv /\ ActInv)'
  <2> SUFFICES ASSUME IInv, ActInv, [PoolStep \/ ActStep]_callback_vars
               PROVE  IInv' /\ ActInv'
    OBVIOUS
  <2>1. CASE PoolStep
    BY <2>1, <1>3, PoolSteps DEF PoolStep
  <2>2. CASE ActStep
    BY <2>2, <1>2, ActSteps DEF ActStep
  <2>3. CASE UNCHANGED callback_vars
    BY <2>3, <1>2, <1>3 DEF callback_vars
  <2> QED
    BY <2>1, <2>2, <2>3
<1> QED
  BY <1>1, <1>4, PTL DEF CallbacksSpec

(* What the pool and the ACT runtimes promise holds in a behaviour of the two:
   slots are accounted for, handles end, stages are whole and textures counted. *)
THEOREM CallbacksHold ==
  CallbacksSpec =>
    [](SlotsAccounted /\ StaleNeverResolves /\ StageIsWhole /\ TexturesBalanced)
<1>1. IInv => SlotsAccounted /\ StaleNeverResolves
  BY DEF IInv
<1>2. ActInv => StageIsWhole
  BY DEF ActInv, Borrows, Prepared, StageIsWhole
<1>3. ActInv => TexturesBalanced
  BY InvBalances
<1> QED
  BY <1>1, <1>2, <1>3, CallbacksInvariant, PTL

(* Every variable of both parts keeps its type, whichever part runs. *)
THEOREM CallbacksTypeCorrect == CallbacksSpec => []CallbacksTypeOK
<1>1. IInv /\ ActInv => CallbacksTypeOK
  BY DEF IInv, ActInv, CallbacksTypeOK
<1> QED
  BY <1>1, CallbacksInvariant, PTL
=============================================================================
