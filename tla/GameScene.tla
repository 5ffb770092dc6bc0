----------------------------- MODULE GameScene ------------------------------
(***************************************************************************)
(* A frame of game_runtime.cpp over the map manager, the collision         *)
(* manager, the actors and the render queue (render_queue.cpp), and the    *)
(* order in which the game's scripts change scenes.                        *)
(*                                                                         *)
(* The four lend each other addresses and none tells the others when they  *)
(* die: the queue borrows nodes of the map's list, collision borrows       *)
(* layouts of the map's runtime and weakly refers to actors.  What keeps   *)
(* them apart is the order of the script commands, taken here from the     *)
(* bytecode that docs/object-scene-chain-20260926 records: LoadStage loads *)
(* the map when its name changes and then clears actors, render layers and *)
(* collision; the world map clears render layers and actors, releases the  *)
(* map and does not clear collision.                                       *)
(*                                                                         *)
(* LoadStage runs in the global update callback, before the frame's        *)
(* updates, the world map in the Update callback of its ACT, behind them;  *)
(* scripts do not fail in the middle of either.  Actors are known by their *)
(* control blocks; how the manager indexes and retires them is             *)
(* ActorManager's.                                                         *)
(***************************************************************************)
EXTENDS CollisionManager

CONSTANTS
  Movers,      \* control blocks of the other actors
  WorldMovers  \* whether actors of the world map collide with map chips: an
               \* actor does if its script sets a bit of collisionMask, and
               \* nothing recorded of the world map's scripts does

ASSUME SceneAssumption ==
  /\ WorldMovers \in BOOLEAN
  /\ None \notin Movers
  /\ Movers \cap Proxies = {}

Controls == Proxies \cup Movers

VARIABLES
  live,     \* actors alive, among them the proxies
  step,     \* mover -> actor.step, a weak reference
  queue,    \* the render queue: borrowed nodes
  mode,     \* the scene scripts believe they are in
  todo,     \* the commands left of the scene change in progress
  phase,    \* where kinoko_game_update and kinoko_game_draw are
  landed    \* history: the proxy under the last move, if it was sure to be found

scene_vars == <<live, step, queue, mode, todo, phase, landed>>
vars == <<map_vars, collision_vars, scene_vars>>

\* Addresses something still refers to.
NodesInUse == RenderNodes \cup {queue[i] : i \in 1..Len(queue)}
RuntimesInUse ==
  {player} \cup {layouts[i].runtime : i \in Registered}
           \cup {render[i].layout.runtime : i \in 1..Len(render)}
ControlsInUse ==
  live \cup {parents[i] : i \in Registered} \cup {step[a] : a \in Movers}

Scripts == phase \in {"script", "stages"}
Command(name) == Scripts /\ todo # <<>> /\ Head(todo) = name
Done == todo' = Tail(todo)

Init ==
  /\ MapInit
  /\ CollisionInit
  /\ live = {}
  /\ step = [a \in Movers |-> None]
  /\ queue = <<>>
  /\ mode = "title"
  /\ todo = <<>>
  /\ phase = "script"
  /\ landed = None
-----------------------------------------------------------------------------
(* Scene changes. *)

\* Defect: the world map's order, which does not clear collision.
StageCommands_KeepCollision(load) ==
  (IF load THEN <<"load_map">> ELSE <<>>) \o <<"clear_actors", "clear_queue", "build">>

\* stage.nut::LoadStage
StageCommands(load) ==
  (IF load THEN <<"load_map">> ELSE <<>>)
    \o <<"clear_actors", "clear_queue", "clear_collision", "build">>

\* Defect: the borrowed nodes stay queued.
WorldCommands_KeepQueue == <<"clear_actors", "release_map", "build">>

\* The first frame of WorldMap::Update.
WorldCommands == <<"clear_queue", "clear_actors", "release_map", "build">>

(* InitStage forgets the stage's name, so the map is loaded; UpdateStageChange
   loads it when the next stage has another map. *)
EnterStage(load) ==
  /\ phase = "script"
  /\ todo = <<>>
  /\ mode # "stage" => load
  /\ mode' = "stage"
  /\ todo' = StageCommands(load)
  /\ UNCHANGED <<map_vars, collision_vars, live, step, queue, phase, landed>>

EnterWorld ==
  /\ phase = "stages"
  /\ todo = <<>>
  /\ mode # "world"
  /\ mode' = "world"
  /\ todo' = WorldCommands
  /\ UNCHANGED <<map_vars, collision_vars, live, step, queue, phase, landed>>

\* LoadMap
LoadMap ==
  /\ Command("load_map")
  /\ MapLoadFails \/ \E r \in Runtimes \ RuntimesInUse : MapLoads(r)
  /\ Done
  /\ UNCHANGED <<collision_vars, live, step, queue, mode, phase, landed>>

\* ReleaseMap
ReleaseMap ==
  /\ Command("release_map")
  /\ MapClear
  /\ Done
  /\ UNCHANGED <<collision_vars, live, step, queue, mode, phase, landed>>

\* ClearActor retires proxies and movers alike, and with them their references.
ClearActor ==
  /\ Command("clear_actors")
  /\ live' = {}
  /\ step' = [a \in Movers |-> None]
  /\ landed' = None
  /\ Done
  /\ UNCHANGED <<map_vars, collision_vars, queue, mode, phase>>

\* ClearRenderLayer
ClearRenderLayer ==
  /\ Command("clear_queue")
  /\ queue' = <<>>
  /\ Done
  /\ UNCHANGED <<map_vars, collision_vars, live, step, mode, phase, landed>>

\* ClearCollision
ClearCollision ==
  /\ Command("clear_collision")
  /\ CollisionReset
  /\ Done
  /\ UNCHANGED <<map_vars, live, step, queue, mode, phase, landed>>

Building == Command("build")

\* CreateRenderLayer of a map layer: the node it makes is queued.
CreateRenderLayer(layer, node) ==
  /\ Building
  /\ node \notin NodesInUse
  /\ MakeRenderLayer(layer, node)
  /\ queue' = Append(queue, node)
  /\ UNCHANGED <<collision_vars, live, step, mode, todo, phase, landed>>

\* CreateCollision, with the proxy made by the actor manager.
CreateCollision(layer, proxy) ==
  /\ Building
  /\ Found(layer)
  /\ proxy \notin ControlsInUse
  /\ RegisterMap(LayoutOf(layer), proxy)
  /\ live' = live \cup {proxy}
  /\ UNCHANGED <<map_vars, step, queue, mode, todo, phase, landed>>

\* CreateActor and CreateActorFromMap
CreateActor(mover) ==
  /\ Building
  /\ mover \notin ControlsInUse
  /\ live' = live \cup {mover}
  /\ step' = [step EXCEPT ![mover] = None]
  /\ UNCHANGED <<map_vars, collision_vars, queue, mode, todo, phase, landed>>

SceneBuilt ==
  /\ Building
  /\ Done
  /\ UNCHANGED <<map_vars, collision_vars, live, step, queue, mode, phase, landed>>
-----------------------------------------------------------------------------
(* The rest of the frame. *)

\* The update mask, read after the callback, may leave the actors out.
CallbackReturns(updates_actors) ==
  /\ phase = "script"
  /\ todo = <<>>
  /\ phase' = IF updates_actors THEN "tick" ELSE "map"
  /\ UNCHANGED <<map_vars, collision_vars, live, step, queue, mode, todo, landed>>

\* A refresh of the actor manager retires what scripts have released.
ActorsRetired ==
  /\ phase = "tick"
  /\ \E a \in live : live' = live \ {a}
  /\ UNCHANGED <<map_vars, collision_vars, step, queue, mode, todo, phase, landed>>

\* The refresh of collision between ticks and motion.
RefreshCollision ==
  /\ phase = "tick"
  /\ phase' = "motion"
  /\ UNCHANGED <<map_vars, collision_vars, live, step, queue, mode, todo, landed>>

\* Actors whose mask takes in map chips move in stages.
Moves(mover) ==
  /\ phase \in {"tick", "motion"}
  /\ mode = "stage" \/ WorldMovers
  /\ mover \in live

(* kinoko_collision_move_actor, from Actor.Move in a tick and from motion: the
   hits of each visible layer, those of candidates behind them, one support. *)
Move(mover, ends, support) ==
  LET seen  == VisibleLayers
      after == EndsAfter(ends, seen)
      layer == LayerOfHit(support, ends, seen)
  IN  /\ Moves(mover)
      /\ Cumulative(ends, seen, MaxHits)
      /\ hit_ends' = after
      /\ step' = [step EXCEPT ![mover] = StepAfter(@, support, after, seen, live)]
      /\ landed' = IF layer # 0 /\ seen = Registered /\ parents[layer] \in live
                   THEN <<mover, parents[layer]>> ELSE None
      /\ UNCHANGED <<map_vars, layouts, parents, live, queue, mode, todo, phase>>

\* The query of a visible layer fails: the actor stays where it is, the layers
\* before have been counted and their proxy let go.
MoveFails(mover, ends, failing) ==
  LET seen == {i \in VisibleLayers : i < failing}
  IN  /\ Moves(mover)
      /\ failing \in VisibleLayers
      /\ Cumulative(ends, seen, MaxHits)
      /\ hit_ends' = EndsAfter(ends, seen)
      /\ step' = [step EXCEPT ![mover] = StepAfter(@, -1, ends, seen, live)]
      /\ landed' = None
      /\ UNCHANGED <<map_vars, layouts, parents, live, queue, mode, todo, phase>>

\* A script or the end of a motion that no longer touches sets the step itself.
SetStep(mover, parent) ==
  /\ phase \in {"tick", "motion"}
  /\ mover \in live
  /\ parent = None \/ (phase = "tick" /\ parent \in live)
  /\ step[mover] # parent
  /\ step' = [step EXCEPT ![mover] = parent]
  /\ landed' = None
  /\ UNCHANGED <<map_vars, collision_vars, live, queue, mode, todo, phase>>

MotionEnds ==
  /\ phase = "motion"
  /\ phase' = "map"
  /\ UNCHANGED <<map_vars, collision_vars, live, step, queue, mode, todo, landed>>

\* The update mask may leave out the map, and the stages.
UpdateMap ==
  /\ phase = "map"
  /\ \/ MapUpdate
     \/ UNCHANGED map_vars
  /\ phase' = "stages"
  /\ UNCHANGED <<collision_vars, live, step, queue, mode, todo, landed>>

\* The callbacks of the stages have returned.
StagesUpdated ==
  /\ phase = "stages"
  /\ todo = <<>>
  /\ phase' = "draw"
  /\ UNCHANGED <<map_vars, collision_vars, live, step, queue, mode, todo, landed>>

\* Drawing reads the queue.
Draw ==
  /\ phase = "draw"
  /\ phase' = "script"
  /\ UNCHANGED <<map_vars, collision_vars, live, step, queue, mode, todo, landed>>

SceneChange ==
  \/ \E load \in BOOLEAN : EnterStage(load)
  \/ EnterWorld
  \/ LoadMap
  \/ ReleaseMap
  \/ ClearActor
  \/ ClearRenderLayer
  \/ ClearCollision
  \/ \E layer \in Layers :
       \/ \E node \in Nodes : CreateRenderLayer(layer, node)
       \/ \E proxy \in Proxies : CreateCollision(layer, proxy)
  \/ \E mover \in Movers : CreateActor(mover)
  \/ SceneBuilt

Ends == [Registered -> 0..MaxHits]

Frame ==
  \/ \E updates_actors \in BOOLEAN : CallbackReturns(updates_actors)
  \/ ActorsRetired
  \/ RefreshCollision
  \/ \E mover \in Movers, ends \in Ends :
       \/ \E support \in -1..MaxHits : Move(mover, ends, support)
       \/ \E failing \in Registered : MoveFails(mover, ends, failing)
  \/ \E mover \in Movers, parent \in Controls \cup {None} : SetStep(mover, parent)
  \/ MotionEnds
  \/ UpdateMap
  \/ StagesUpdated
  \/ Draw

Next == SceneChange \/ Frame

Spec == Init /\ [][Next]_vars
-----------------------------------------------------------------------------
(* Every variable has its type. *)
TypeOK ==
  /\ MapTypeOK
  /\ CollisionTypeOK
  /\ Len(parents) = Len(layouts)
  /\ live \subseteq Controls
  /\ step \in [Movers -> Controls \cup {None}]
  /\ queue \in Seq(Nodes)
  /\ mode \in {"title", "stage", "world"}
  /\ phase \in {"script", "tick", "motion", "map", "stages", "draw"}
  /\ landed \in (Movers \X Proxies) \cup {None}

(* Drawing reaches only nodes the map still has, over layouts whose runtime is
   still there, although the queue owns nothing of what it draws. *)
DrawnAreAlive ==
  phase = "draw" =>
    \A i \in 1..Len(queue) :
      \E j \in 1..Len(render) : render[j].node = queue[i] /\ Living(render[j].layout)

(* Collision reads no layout of a map that is gone.  The refresh skips those
   whose parent has expired, as all have on the world map; a move reads every
   registered layout, expired parent or not, so in each frame that moves an
   actor they are layouts of the current map. *)
CollisionReadsLiving ==
  /\ ~Scripts => \A l \in RefreshReads(live) : Living(l)
  /\ \A mover \in Movers : Moves(mover) => \A i \in Registered : Living(layouts[i])

(* After a move over layers that are all visible, the mover stands on the proxy
   of the layer its support belongs to, and on none of another layer. *)
StandsOnItsLayer ==
  landed # None => step[landed[1]] = landed[2]
=============================================================================
