-------------------------- MODULE CollisionManager --------------------------
(***************************************************************************)
(* The collision manager of collision_manager.cpp: the layouts registered  *)
(* with their proxies and the hits of a move per layer.                    *)
(*                                                                         *)
(* A proxy is known by the control block of its actor, which is not reused *)
(* while a reference to it is left; a weak reference has expired when its  *)
(* control is no longer among the live actors.  The narrow phase, which is *)
(* floating point, is any choice of a supporting hit.  The candidates that *)
(* a refresh collects are left out: their hits come behind the layers'.    *)
(***************************************************************************)
EXTENDS MapManager

CONSTANTS
  Proxies,   \* control blocks of the layers' proxies
  MaxHits    \* bound: chips one move finds

ASSUME CollisionAssumption ==
  /\ None \notin Proxies
  /\ MaxHits \in Nat

VARIABLES
  layouts,     \* state.layouts
  parents,     \* state.map_parents, weak references
  hit_ends     \* state.layer_hit_ends, as far as its end

collision_vars == <<layouts, parents, hit_ends>>

Registered == 1..Len(layouts)
VisibleLayers == {i \in Registered : Visible(layouts[i])}

CollisionInit ==
  /\ layouts = <<>>
  /\ parents = <<>>
  /\ hit_ends = <<>>

\* Defect: the weak parents are forgotten.
CollisionReset_KeepsParents ==
  /\ layouts' = <<>>
  /\ UNCHANGED <<parents, hit_ends>>

(* kinoko_collision_reset: every weak parent is released; the ends of the
   layers' hits stay. *)
CollisionReset ==
  /\ layouts' = <<>>
  /\ parents' = <<>>
  /\ UNCHANGED hit_ends

(* kinoko_collision_register_map once the proxy is there: layout and parent
   go to the front, the end of its hits behind the others. *)
RegisterMap(layout, proxy) ==
  /\ layouts' = <<layout>> \o layouts
  /\ parents' = <<proxy>> \o parents
  /\ hit_ends' = Append(SubSeq(hit_ends, 1, Len(layouts)), 0)

\* What kinoko_collision_refresh reads: the layout of each parent it can lock.
RefreshReads(live) == {layouts[i] : i \in {j \in Registered : parents[j] \in live}}

-----------------------------------------------------------------------------
(* kinoko_collision_move_actor for a mover whose mask takes in map chips. *)

\* The counts of hits after each visible layer; the others are not written.
Cumulative(ends, seen, total) ==
  /\ \A i, j \in seen : i <= j => ends[i] <= ends[j]
  /\ \A i \in seen : ends[i] <= total

\* Defect: each end is a layer's own count.
EndsAfter_NotCumulative(ends, seen) ==
  [i \in Registered |->
     IF i \in seen
     THEN ends[i] - (IF \E j \in seen : j < i
                     THEN ends[CHOOSE j \in seen : j < i /\ \A k \in seen : k < i => k <= j]
                     ELSE 0)
     ELSE hit_ends[i]]

EndsAfter(ends, seen) == [i \in Registered |-> IF i \in seen THEN ends[i] ELSE hit_ends[i]]

Least(S) == CHOOSE i \in S : \A j \in S : i <= j

\* The layer whose chip the hit is.
LayerOfHit(support, ends, seen) ==
  LET above == {i \in seen : support < ends[i]}
  IN  IF support >= 0 /\ above # {} THEN Least(above) ELSE 0

(* The mover lets go of the proxies of the layers it queried, and takes the
   first one alive whose end is above the supporting hit. *)
StepAfter(step, support, ends, seen, live) ==
  LET above == {i \in Registered : support < ends[i] /\ parents[i] \in live}
      kept  == IF \E i \in seen : parents[i] = step THEN None ELSE step
  IN  IF support >= 0 /\ above # {} THEN parents[Least(above)] ELSE kept

CollisionTypeOK ==
  /\ layouts \in Seq(Layout)
  /\ parents \in Seq(Proxies)
  /\ hit_ends \in Seq(0..MaxHits)
=============================================================================
