---------------------------- MODULE ActorManager ----------------------------
(***************************************************************************)
(* The actor manager of actor_manager.cpp: which actors are alive, their   *)
(* priority index, the iteration buffer an update walks, and the script    *)
(* commands that change all of this while the update is running.           *)
(*                                                                         *)
(* Everything runs in one thread; the interleaving is that of callbacks.   *)
(* Collision and step callbacks run script, CreateActor and Reset run the  *)
(* script's Init in the middle of their own work, and each of these may    *)
(* call the manager again.  calls is the stack of what is running.         *)
(*                                                                         *)
(* An actor stands for the pool slot it lives in, so a new actor may be    *)
(* the successor of a retired one; which free slot is taken is the pool's  *)
(* business (ActorPool).  Positions, animations and collision shapes are   *)
(* left out; whether an actor is skipped by activity or mask is open.      *)
(* Scripts use actors that are alive.                                      *)
(*                                                                         *)
(* Retirement is atomic, with the release hooks of the actor's script      *)
(* objects inside it.  Those src/ installs delete a native object each,    *)
(* and Squirrel 2.2.2 has no finalisers, so none calls the manager back;   *)
(* what a hook would do that creates actors while refresh, ClearActor or   *)
(* shutdown walks the index is not modelled.  Nor is the branch of         *)
(* kinoko_actor_manager_clear_actors for an actor with several owners: the *)
(* code gives every live actor exactly one (owner_references).             *)
(***************************************************************************)
EXTENDS Integers, Sequences, FiniteSets, SequencesExt

CONSTANTS
  Actors,      \* pool slots
  Priorities,  \* priorities scripts give
  MaxCalls,    \* bound: script calls in progress at once
  InitMay      \* what Init does besides: "index" its own actor, "clear" in a Reset

ASSUME ManagerAssumption ==
  /\ IsFiniteSet(Actors)
  /\ Priorities \subseteq Int
  /\ 0 \in Priorities
  /\ MaxCalls \in Nat
  /\ InitMay \subseteq {"index", "clear"}

VARIABLES
  live,             \* slots acquired and not retired
  actor,            \* slot -> the fields of its ActorRecord
  index,            \* manager.actors, the multimap in key order
  iteration,        \* what the last refresh kept in the iteration buffer
  iteration_count,
  layers,           \* the four render ranges, begin exclusive
  cleanup_pending,
  phase,            \* where kinoko_actor_manager_update is
  cursor,           \* the loop variable of the step loop
  calls,            \* script calls in progress, innermost last
  newborn           \* history: created since the last refresh

vars == <<live, actor, index, iteration, iteration_count, layers,
          cleanup_pending, phase, cursor, calls, newborn>>

(* held: priority_entry is set.  An index entry is named when it is the one
   priority_entry points to; a held actor without a named entry dangles. *)
ActorRecord == [held: BOOLEAN, release_pending: BOOLEAN, priority: Priorities]
Entry == [actor: Actors, key: Priorities, named: BOOLEAN]
Frame == [kind: {"callback", "create", "reset"}, actor: Actors]

\* kinoko_actor_construct, then the fields kinoko_actor_initialize resets.
NewActor == [held |-> FALSE, release_pending |-> FALSE, priority |-> 0]

-----------------------------------------------------------------------------
(* The priority index. *)

NamedAt(a, entries) == SelectInSeq(entries, LAMBDA e : e.actor = a /\ e.named)

\* kinoko_actor_priority_insert: upper_bound keeps equal keys in order.
InsertEntry(a, p, entries) ==
  LET others == [i \in 1..Len(entries) |->
                   [entries[i] EXCEPT !.named = @ /\ entries[i].actor # a]]
      below  == Cardinality({i \in 1..Len(entries) : entries[i].key <= p})
  IN  InsertAt(others, below + 1, [actor |-> a, key |-> p, named |-> TRUE])

\* Defect: the old entry stays.
Reindexed_Twice(a, p) == InsertEntry(a, p, index)

(* kinoko_actor_manager_reindex: erase the entry the actor points to, if any,
   and insert a new one.  A dangling pointer erases nothing here. *)
Reindexed(a, p) ==
  LET at == NamedAt(a, index)
  IN  InsertEntry(a, p, IF actor[a].held /\ at # 0 THEN RemoveAt(index, at) ELSE index)

-----------------------------------------------------------------------------
(* Refresh. *)

\* One round of the walk: keep the entry's actor, or retire it, erase the entry
\* it points to and go on behind that one.
Visit(w) ==
  IF w.at > Len(w.entries) THEN w
  ELSE LET a     == w.entries[w.at].actor
           named == NamedAt(a, w.entries)
       IN  IF ~ actor[a].release_pending
           THEN [w EXCEPT !.at = @ + 1, !.kept = Append(@, a)]
           ELSE [w EXCEPT !.at = IF named = 0 THEN @ + 1 ELSE named,
                          !.entries = IF named = 0 THEN @ ELSE RemoveAt(@, named),
                          !.gone = @ \cup {a},
                          !.left = @ - 1]

\* The walk after so many rounds; there is one for each entry.
Walked[round \in 0..Len(index)] ==
  IF round = 0
  THEN [at |-> 1, entries |-> index, kept |-> <<>>, gone |-> {}, left |-> Len(index)]
  ELSE Visit(Walked[round - 1])

Walk == Walked[Len(index)]

Below(limit, kept) == Cardinality({i \in 1..Len(kept) : actor[kept[i]].priority < limit})

\* The ends of the render ranges; each begins where the one before ends.
LayerEnds(kept, count) ==
  <<Cardinality({i \in 1..Len(kept) : actor[kept[i]].priority = -1}),
    Below(65535, kept), Below(65536, kept), count>>

\* Defect: a retired actor still counts.
Refresh_MissesCount ==
  LET w == Walk
  IN  IF cleanup_pending /\ index # <<>>
      THEN /\ index' = w.entries
           /\ live' = live \ w.gone
           /\ iteration' = w.kept
           /\ iteration_count' = Len(index)
           /\ layers' = LayerEnds(w.kept, Len(w.kept))
           /\ cleanup_pending' = FALSE
           /\ newborn' = {}
      ELSE /\ iteration_count' = IF cleanup_pending THEN 0 ELSE iteration_count
           /\ newborn' = {}
           /\ UNCHANGED <<index, live, iteration, layers, cleanup_pending>>

\* Defect: the count, taken behind the walk, still loses the retired actors.
Refresh_CountsTwice ==
  LET w == Walk
  IN  IF cleanup_pending /\ index # <<>>
      THEN /\ index' = w.entries
           /\ live' = live \ w.gone
           /\ iteration' = w.kept
           /\ iteration_count' = Len(w.kept) - Cardinality(w.gone)
           /\ layers' = LayerEnds(w.kept, Len(w.kept))
           /\ cleanup_pending' = FALSE
           /\ newborn' = {}
      ELSE /\ iteration_count' = IF cleanup_pending THEN 0 ELSE iteration_count
           /\ newborn' = {}
           /\ UNCHANGED <<index, live, iteration, layers, cleanup_pending>>

(* kinoko_actor_manager_refresh: nothing unless cleanup is pending; an empty
   index publishes the count and leaves the flag and the ranges alone. *)
Refresh ==
  LET w == Walk
  IN  IF cleanup_pending /\ index # <<>>
      THEN /\ index' = w.entries
           /\ live' = live \ w.gone
           /\ iteration' = w.kept
           /\ iteration_count' = w.left
           /\ layers' = LayerEnds(w.kept, w.left)
           /\ cleanup_pending' = FALSE
           /\ newborn' = {}
      ELSE /\ iteration_count' = IF cleanup_pending THEN 0 ELSE iteration_count
           /\ newborn' = {}
           /\ UNCHANGED <<index, live, iteration, layers, cleanup_pending>>

-----------------------------------------------------------------------------
(* Script commands: from stage and game scripts between updates, and from any
   callback. *)

ScriptRuns == phase = "idle" \/ calls # <<>>
InFrames(kind) == {a \in Actors : \E i \in 1..Len(calls) :
                      calls[i] = [kind |-> kind, actor |-> a]}
Call(kind, a) == calls' = Append(calls, [kind |-> kind, actor |-> a])
Return == calls' = Front(calls)
Running(kind, a) == calls # <<>> /\ Last(calls) = [kind |-> kind, actor |-> a]

(* An actor that Init may not index: its insertion is still to come. *)
Indexable(a) == "index" \in InitMay \/ a \notin InFrames("create")

\* kinoko_actor_manager_create up to the Init callback.
Create(a) ==
  /\ ScriptRuns
  /\ Len(calls) < MaxCalls
  /\ a \notin live
  /\ live' = live \cup {a}
  /\ actor' = [actor EXCEPT ![a] = NewActor]
  /\ newborn' = newborn \cup {a}
  /\ Call("create", a)
  /\ UNCHANGED <<index, iteration, iteration_count, layers, cleanup_pending, phase, cursor>>

\* ... and from its return: insert_actor, whatever Init has done meanwhile.
CreateReturns(a, p) ==
  /\ Running("create", a)
  /\ actor' = [actor EXCEPT ![a].priority = p, ![a].held = TRUE]
  /\ index' = InsertEntry(a, p, index)
  /\ cleanup_pending' = TRUE
  /\ Return
  /\ UNCHANGED <<live, iteration, iteration_count, layers, phase, cursor, newborn>>

\* Defect: Release does not ask for a cleanup.
Release_Quiet(a) ==
  /\ ScriptRuns
  /\ a \in live
  /\ actor' = [actor EXCEPT ![a].release_pending = TRUE]
  /\ UNCHANGED <<live, index, iteration, iteration_count, layers, cleanup_pending, phase,
                 cursor, calls, newborn>>

\* Actor.Release
Release(a) ==
  /\ ScriptRuns
  /\ a \in live
  /\ actor' = [actor EXCEPT ![a].release_pending = TRUE]
  /\ cleanup_pending' = TRUE
  /\ UNCHANGED <<live, index, iteration, iteration_count, layers, phase, cursor, calls,
                 newborn>>

\* Actor.ResetPriority
ResetPriority(a, p) ==
  /\ ScriptRuns
  /\ a \in live
  /\ Indexable(a)
  /\ actor' = [actor EXCEPT ![a].priority = p, ![a].held = TRUE]
  /\ index' = Reindexed(a, p)
  /\ cleanup_pending' = TRUE
  /\ UNCHANGED <<live, iteration, iteration_count, layers, phase, cursor, calls, newborn>>

\* Actor.Reset: initialize again, with the Init callback ...
Reset(a) ==
  /\ ScriptRuns
  /\ Len(calls) < MaxCalls
  /\ a \in live
  /\ Indexable(a)
  /\ actor' = [actor EXCEPT ![a].priority = 0]
  /\ Call("reset", a)
  /\ UNCHANGED <<live, index, iteration, iteration_count, layers, cleanup_pending, phase,
                 cursor, newborn>>

\* ... and then ResetPriority with the priority Init left, dead or alive.
ResetReturns(a, p) ==
  /\ Running("reset", a)
  /\ actor' = [actor EXCEPT ![a].priority = p, ![a].held = TRUE]
  /\ index' = Reindexed(a, p)
  /\ cleanup_pending' = TRUE
  /\ Return
  /\ UNCHANGED <<live, iteration, iteration_count, layers, phase, cursor, newborn>>

\* Defect: the running loops are not stopped.
ClearActor_KeepsCount ==
  /\ ScriptRuns
  /\ "clear" \in InitMay \/ InFrames("reset") = {}
  /\ live' = live \ {index[i].actor : i \in 1..Len(index)}
  /\ index' = <<>>
  /\ cleanup_pending' = TRUE
  /\ UNCHANGED <<actor, iteration, iteration_count, layers, phase, cursor, calls, newborn>>

(* ClearActor, which is kinoko_actor_manager_reset: retire every indexed actor
   and stop the running loop.  priority_entry is left as it is. *)
ClearActor ==
  /\ ScriptRuns
  /\ "clear" \in InitMay \/ InFrames("reset") = {}
  /\ live' = live \ {index[i].actor : i \in 1..Len(index)}
  /\ index' = <<>>
  /\ iteration_count' = 0
  /\ cleanup_pending' = TRUE
  /\ UNCHANGED <<actor, iteration, layers, phase, cursor, calls, newborn>>

Script ==
  \/ \E a \in Actors :
       \/ Create(a)
       \/ Release(a)
       \/ Reset(a)
       \/ \E p \in Priorities : ResetPriority(a, p)
  \/ ClearActor

InitReturns ==
  \E a \in Actors, p \in Priorities : CreateReturns(a, p) \/ ResetReturns(a, p)

-----------------------------------------------------------------------------
(* kinoko_actor_manager_update. *)

UpdateBegins ==
  /\ phase = "idle"
  /\ calls = <<>>
  /\ phase' = "dispatch"
  /\ Refresh
  /\ UNCHANGED <<actor, cursor, calls>>

\* A collision callback; a retired actor has none.
Collides ==
  /\ phase = "dispatch"
  /\ calls = <<>>
  /\ MaxCalls > 0
  /\ \E a \in live : Call("callback", a)
  /\ UNCHANGED <<live, actor, index, iteration, iteration_count, layers,
                 cleanup_pending, phase, cursor, newborn>>

DispatchEnds ==
  /\ phase = "dispatch"
  /\ calls = <<>>
  /\ phase' = "tick"
  /\ cursor' = 1
  /\ Refresh
  /\ UNCHANGED <<actor, calls>>

\* The loop reads the count again before each actor.
TickSkips ==
  /\ phase = "tick"
  /\ calls = <<>>
  /\ cursor <= iteration_count
  /\ cursor' = cursor + 1
  /\ UNCHANGED <<live, actor, index, iteration, iteration_count, layers,
                 cleanup_pending, phase, calls, newborn>>

\* Behind what the last refresh kept the buffer holds anything.
TickCalls ==
  /\ phase = "tick"
  /\ calls = <<>>
  /\ MaxCalls > 0
  /\ cursor <= iteration_count
  /\ cursor' = cursor + 1
  /\ \E a \in Actors :
       /\ cursor <= Len(iteration) => a = iteration[cursor]
       /\ Call("callback", a)
  /\ UNCHANGED <<live, actor, index, iteration, iteration_count, layers,
                 cleanup_pending, phase, newborn>>

CallbackReturns ==
  /\ calls # <<>>
  /\ Last(calls).kind = "callback"
  /\ Return
  /\ UNCHANGED <<live, actor, index, iteration, iteration_count, layers,
                 cleanup_pending, phase, cursor, newborn>>

\* Defect: motion walks what the step loop walked.
TicksEnd_NoRefresh ==
  /\ phase = "tick"
  /\ calls = <<>>
  /\ cursor > iteration_count
  /\ phase' = "motion"
  /\ cursor' = 0
  /\ UNCHANGED <<live, actor, index, iteration, iteration_count, layers,
                 cleanup_pending, calls, newborn>>

TicksEnd ==
  /\ phase = "tick"
  /\ calls = <<>>
  /\ cursor > iteration_count
  /\ phase' = "motion"
  /\ cursor' = 0
  /\ Refresh
  /\ UNCHANGED <<actor, calls>>

\* Motion runs no script.
UpdateEnds ==
  /\ phase = "motion"
  /\ phase' = "idle"
  /\ UNCHANGED <<live, actor, index, iteration, iteration_count, layers,
                 cleanup_pending, cursor, calls, newborn>>

Update ==
  \/ UpdateBegins
  \/ DispatchEnds
  \/ TickSkips
  \/ TickCalls
  \/ TicksEnd
  \/ UpdateEnds

\* Defect: the index is emptied before the actors it leads to are retired.
Shutdown_IndexFirst ==
  /\ phase = "idle"
  /\ calls = <<>>
  /\ phase' = "closed"
  /\ index' = <<>>
  /\ iteration' = <<>>
  /\ iteration_count' = 0
  /\ cleanup_pending' = FALSE
  /\ UNCHANGED <<live, actor, layers, cursor, calls, newborn>>

\* kinoko_game_shutdown, by kinoko_actor_manager_clear_resources.
Shutdown ==
  /\ phase = "idle"
  /\ calls = <<>>
  /\ phase' = "closed"
  /\ live' = live \ {index[i].actor : i \in 1..Len(index)}
  /\ index' = <<>>
  /\ iteration' = <<>>
  /\ iteration_count' = 0
  /\ cleanup_pending' = FALSE
  /\ UNCHANGED <<actor, layers, cursor, calls, newborn>>

Init ==
  /\ live = {}
  /\ actor = [a \in Actors |-> NewActor]
  /\ index = <<>>
  /\ iteration = <<>>
  /\ iteration_count = 0
  /\ layers = <<0, 0, 0, 0>>
  /\ cleanup_pending = FALSE
  /\ phase = "idle"
  /\ cursor = 0
  /\ calls = <<>>
  /\ newborn = {}

Next ==
  \/ Script
  \/ InitReturns
  \/ Collides
  \/ CallbackReturns
  \/ Update
  \/ Shutdown

Spec == Init /\ [][Next]_vars

(* Every script call returns, whatever it calls meanwhile, and the game goes
   on updating, whatever else its scripts do between two updates. *)
Fairness ==
  /\ \A depth \in 1..MaxCalls :
       SF_vars(Len(calls) = depth /\ (InitReturns \/ CallbackReturns))
  /\ SF_vars(Update)

FairSpec == Spec /\ Fairness
-----------------------------------------------------------------------------
(* Every variable has its type. *)
TypeOK ==
  /\ live \subseteq Actors
  /\ actor \in [Actors -> ActorRecord]
  /\ index \in Seq(Entry)
  /\ iteration \in Seq(Actors)
  /\ iteration_count \in Nat
  /\ layers \in Seq(Nat) /\ Len(layers) = 4
  /\ cleanup_pending \in BOOLEAN
  /\ phase \in {"idle", "dispatch", "tick", "motion", "closed"}
  /\ cursor \in Nat
  /\ calls \in Seq(Frame) /\ Len(calls) <= MaxCalls
  /\ newborn \subseteq Actors

(* Every live actor, except one whose Init is running, has exactly one entry,
   the one it points to, under its priority and in key order, and no entry
   outlives its actor. *)
IndexedOnce ==
  /\ \A i \in 1..Len(index) : index[i].named /\ actor[index[i].actor].held
  /\ \A i, j \in 1..Len(index) :
       i < j => index[i].actor # index[j].actor /\ index[i].key <= index[j].key
  /\ {index[i].actor : i \in 1..Len(index)} = live \ InFrames("create")
  /\ \A i \in 1..Len(index) : index[i].actor \notin InFrames("reset")
       => index[i].key = actor[index[i].actor].priority

(* Whatever scripts do, the entries the loops may still reach are those of
   actors that were alive at the last refresh and have been since: never one
   that is retired, and never the successor in its slot. *)
IteratedLive ==
  /\ iteration_count <= Len(iteration)
  /\ \A i \in 1..iteration_count : iteration[i] \in live \ newborn
  /\ \A i, j \in 1..iteration_count : i # j => iteration[i] # iteration[j]

Layer(p) == IF p = -1 THEN 1 ELSE IF p < 65535 THEN 2 ELSE IF p < 65536 THEN 3 ELSE 4
LayerRange(k) == ((IF k = 1 THEN 0 ELSE layers[k - 1]) + 1)..layers[k]

(* While anything is drawn, the four render ranges cover each entry of the
   buffer once; an actor not touched since the refresh is drawn in the layer
   of its priority. *)
DrawnInItsLayer ==
  iteration_count # 0 =>
    /\ layers[4] = iteration_count
    /\ \A k \in 1..3 : layers[k] <= layers[k + 1]
    /\ ~cleanup_pending /\ InFrames("reset") = {} =>
         \A k \in 1..4 : \A i \in LayerRange(k) : Layer(actor[iteration[i]].priority) = k

(* Motion sees exactly the actors there are: those created during the update
   with the others, and none that is released. *)
MovedAreCurrent ==
  phase = "motion" =>
    /\ iteration_count <= Len(iteration)
    /\ {iteration[i] : i \in 1..iteration_count} = live
    /\ \A a \in live : ~actor[a].release_pending

(* Shutdown leaves no actor behind. *)
NothingLeft == phase = "closed" => live = {}

-----------------------------------------------------------------------------
(* A released actor is retired. *)
ReleasedIsRetired ==
  \A a \in Actors : a \in live /\ actor[a].release_pending
                      ~> a \notin live \/ ~actor[a].release_pending
=============================================================================
