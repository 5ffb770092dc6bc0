--------------------------- MODULE MCActorManager ---------------------------
(* A small instance of ActorManager: one priority of each render layer, at the
   limits of its range, and slots that are interchangeable. *)
EXTENDS ActorManager, TLC

EachLayer == {-1, 0, 65535, 65536}
AnySlot == Permutations(Actors)

(* Scripts that release their actors one by one: what then survives an actor is
   no work of ClearActor. *)
UnclearedSpec == Init /\ [][Next /\ ~ClearActor]_vars
=============================================================================
