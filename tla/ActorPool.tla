------------------------------ MODULE ActorPool ------------------------------
(***************************************************************************)
(* The pool actors live in (actor_pool.cpp): slots that are recycled last  *)
(* in, first out, and handles that pair a slot with the generation it was  *)
(* acquired in.  Retiring an actor destroys it, which runs release hooks   *)
(* of scripts, and these may acquire and retire actors themselves while    *)
(* the first one is still being destroyed.                                 *)
(*                                                                         *)
(* The actors are left out.  Slots stay below the 2^16 that a handle can   *)
(* name, and allocations succeed.                                          *)
(***************************************************************************)
EXTENDS Integers, Sequences, FiniteSets

CONSTANTS
  MaxSlots,       \* bound: slots the pool grows to
  MaxGeneration   \* generations before the counter starts again (0xffff)

ASSUME PoolAssumption ==
  /\ MaxSlots \in Nat \ {0}
  /\ MaxGeneration \in Nat \ {0}

VARIABLES
  slots,        \* actors.size()
  generations,  \* slot -> generation of its handle, 0 when retired
  generation,   \* the last generation given
  free_slots,   \* list, the next to reuse last
  destroying,   \* slots whose destructor runs, innermost last
  since,        \* history: slot -> acquisitions since its own, up to MaxGeneration
  stale         \* history: a retired handle and its age

vars == <<slots, generations, generation, free_slots, destroying, since, stale>>

Slots == 1..MaxSlots
Generations == 1..MaxGeneration
NoHandle == [slot |-> 0, generation |-> 0, age |-> 0]

Live(s) == s \in 1..slots /\ generations[s] # 0
Older(age) == IF age < MaxGeneration THEN age + 1 ELSE age

\* Defect: the counter passes its last value before it starts again.
NextGeneration_Late == IF generation > MaxGeneration THEN 1 ELSE generation + 1

NextGeneration == IF generation + 1 > MaxGeneration THEN 1 ELSE generation + 1

\* All that acquisition of slot s changes, but for the slots there are.
Occupy(s) ==
  /\ generation' = NextGeneration
  /\ generations' = [generations EXCEPT ![s] = NextGeneration]
  /\ since' = [t \in Slots |-> IF t = s THEN 0 ELSE Older(since[t])]
  /\ stale' = [stale EXCEPT !.age = Older(@)]
  /\ UNCHANGED destroying

\* kinoko_actor_pool_acquire, with no free slot ...
AcquireFresh ==
  /\ free_slots = <<>>
  /\ slots < MaxSlots
  /\ slots' = slots + 1
  /\ Occupy(slots + 1)
  /\ UNCHANGED free_slots

\* Defect: the recycled slot stays in the list until it is retired again.
AcquireRecycled_KeepsFree ==
  /\ free_slots # <<>>
  /\ Occupy(free_slots[Len(free_slots)])
  /\ UNCHANGED <<slots, free_slots>>

\* ... and with some: the last one retired.
AcquireRecycled ==
  /\ free_slots # <<>>
  /\ Occupy(free_slots[Len(free_slots)])
  /\ free_slots' = SubSeq(free_slots, 1, Len(free_slots) - 1)
  /\ UNCHANGED slots

\* Defect: the handle stays valid until the actor is destroyed.
Retire_StaysValid(s) ==
  /\ Live(s)
  /\ destroying' = Append(destroying, s)
  /\ stale' \in {stale, [slot |-> s, generation |-> generations[s], age |-> since[s]]}
  /\ UNCHANGED <<slots, generations, generation, free_slots, since>>

(* kinoko_actor_pool_retire with the handle of a live actor: the handle ends,
   the destructor starts.  With any other handle nothing happens. *)
Retire(s) ==
  /\ Live(s)
  /\ generations' = [generations EXCEPT ![s] = 0]
  /\ destroying' = Append(destroying, s)
  /\ stale' \in {stale, [slot |-> s, generation |-> generations[s], age |-> since[s]]}
  /\ UNCHANGED <<slots, generation, free_slots, since>>

\* The destructor returns; only now the slot can be reused.
Destroyed ==
  /\ destroying # <<>>
  /\ free_slots' = Append(free_slots, destroying[Len(destroying)])
  /\ destroying' = SubSeq(destroying, 1, Len(destroying) - 1)
  /\ UNCHANGED <<slots, generations, generation, since, stale>>

Init ==
  /\ slots = 0
  /\ generations = [s \in Slots |-> 0]
  /\ generation = 0
  /\ free_slots = <<>>
  /\ destroying = <<>>
  /\ since = [s \in Slots |-> 0]
  /\ stale = NoHandle

Next ==
  \/ AcquireFresh
  \/ AcquireRecycled
  \/ \E s \in Slots : Retire(s)
  \/ Destroyed

Spec == Init /\ [][Next]_vars

\* kinoko_method_lookup_actor
Resolves(s, g) == s \in 1..slots /\ generations[s] = g
-----------------------------------------------------------------------------
(* Every variable has its type. *)
TypeOK ==
  /\ slots \in 0..MaxSlots
  /\ generations \in [Slots -> 0..MaxGeneration]
  /\ generation \in 0..MaxGeneration
  /\ free_slots \in Seq(Slots)
  /\ destroying \in Seq(Slots)
  /\ since \in [Slots -> 0..MaxGeneration]
  /\ stale \in [slot : 0..MaxSlots, generation : 0..MaxGeneration, age : 0..MaxGeneration]

Distinct(seq) == \A i, j \in 1..Len(seq) : i # j => seq[i] # seq[j]
In(s, seq) == \E i \in 1..Len(seq) : seq[i] = s

(* Whatever release hooks do, each slot is at every moment in one place only:
   in use, in its destructor, or once in the free list; so no slot is given
   to a new actor before its old one is destroyed, and none is lost. *)
SlotsAccounted ==
  /\ Distinct(free_slots) /\ Distinct(destroying)
  /\ \A s \in Slots :
       /\ ~(In(s, free_slots) /\ In(s, destroying))
       /\ (In(s, free_slots) \/ In(s, destroying)) <=> (s <= slots /\ generations[s] = 0)

(* The handle of a retired actor finds its slot's successor only when all the
   generations have been used since it was issued. *)
StaleNeverResolves ==
  Resolves(stale.slot, stale.generation) => stale.age = MaxGeneration
=============================================================================
