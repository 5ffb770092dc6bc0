----------------------------- MODULE SceneQueue -----------------------------
(***************************************************************************)
(* Scenes and the four threads that pass them on: application_runtime.cpp  *)
(* and scene_queue.cpp.  The game thread asks for another scene, a loader  *)
(* creates it, the game thread exchanges it for the current one and lists  *)
(* the old one, an idle-priority worker destroys what is listed, and the   *)
(* main thread joins them all and destroys the rest.  With separate_draw,  *)
(* the display thread draws the current scene under scene_lock.            *)
(*                                                                         *)
(* A scene is the one object its creation returned; Scenes bounds how many *)
(* are created.  Of the scene numbers only that the current one is not the *)
(* requested one matters (changing).  Graphics and presentation are        *)
(* FramePipeline's; FramePipeline's game has a single scene.               *)
(***************************************************************************)
EXTENDS Integers, Sequences

CONSTANTS
  Scenes,    \* scene objects
  NoScene    \* the null pointer

ASSUME SceneQueueAssumption == NoScene \notin Scenes

VARIABLES
  running,    \* state.running
  changing,   \* state.current_scene # state.requested_scene
  scene,      \* state.scene
  pending,    \* state.pending_scene
  previous,   \* activate_pending_scene's previous
  created,    \* load_scene_worker's next
  retired,    \* retired_scenes
  signalled,  \* retire_event, auto-reset
  drawn,      \* the scene the display thread draws, with scene_lock held
  game_pc,
  load_pc,
  retire_pc,
  main_pc,
  born,       \* history: scenes ever created
  destroyed   \* history: scenes destroyed

scene_queue_vars == <<running, changing, scene, pending, previous, created, retired, signalled,
                      drawn, game_pc, load_pc, retire_pc, main_pc, born, destroyed>>

threads == <<game_pc, load_pc, retire_pc, main_pc>>
holders == <<scene, pending, previous, created, retired>>
history == <<born, destroyed>>

\* scene_lock: everybody else holds it within a step.
Unlocked == drawn = NoScene

ScenesInit ==
  /\ running = TRUE
  /\ changing = TRUE
  /\ scene = NoScene
  /\ pending = NoScene
  /\ previous = NoScene
  /\ created = NoScene
  /\ retired = <<>>
  /\ signalled = FALSE
  /\ drawn = NoScene
  /\ game_pc = "off"
  /\ load_pc = "off"
  /\ retire_pc = "off"
  /\ main_pc = "start"
  /\ born = {}
  /\ destroyed = {}

\* create_scene may return nothing.
Creation == (Scenes \ born) \cup {NoScene}
Born(s) == born' = born \cup ({s} \ {NoScene})

(* initialize: the first scene is created on the main thread.  When a thread
   cannot be created, initialisation has failed and the application shuts down;
   a worker whose COM initialisation fails ends at once. *)
StartScenes(s, game, retire) ==
  /\ main_pc = "start"
  /\ pending' = s
  /\ Born(s)
  /\ game_pc' = game
  /\ retire_pc' = retire
  /\ main_pc' \in IF "off" \in {game, retire} THEN {"stop"} ELSE {"run"}
  /\ UNCHANGED <<running, changing, scene, previous, created, retired, signalled, drawn,
                 load_pc, destroyed>>
-----------------------------------------------------------------------------
(* The game thread: update_frame and activate_pending_scene. *)

\* The scene asks for another one: the loader before is joined and a new one
\* started, unless the thread cannot be created.
RequestScene ==
  /\ game_pc = "update" /\ running
  /\ ~changing
  /\ scene # NoScene
  /\ load_pc \in {"off", "done"}
  /\ changing' = TRUE
  /\ load_pc' \in {"create", "off"}
  /\ UNCHANGED <<running, holders, signalled, drawn, game_pc, retire_pc, main_pc, history>>

\* The scene returns -1.
QuitGame ==
  /\ game_pc = "update" /\ running
  /\ ~changing
  /\ scene # NoScene
  /\ running' = FALSE
  /\ changing' = TRUE
  /\ UNCHANGED <<holders, signalled, drawn, threads, history>>

\* Defect: the new scene stays pending.
Exchange_KeepsPending ==
  /\ game_pc = "update" /\ running
  /\ changing
  /\ Unlocked
  /\ pending # NoScene
  /\ previous' = scene
  /\ scene' = pending
  /\ game_pc' = IF scene = NoScene THEN "enter" ELSE "leave"
  /\ UNCHANGED <<running, changing, pending, created, retired, signalled, drawn,
                 load_pc, retire_pc, main_pc, history>>

\* The exchange, under scene_lock, once a transition is ready.
Exchange ==
  /\ game_pc = "update" /\ running
  /\ changing
  /\ Unlocked
  /\ pending # NoScene
  /\ previous' = scene
  /\ scene' = pending
  /\ pending' = NoScene
  /\ game_pc' = IF scene = NoScene THEN "enter" ELSE "leave"
  /\ UNCHANGED <<running, changing, created, retired, signalled, drawn,
                 load_pc, retire_pc, main_pc, history>>

\* leave, then the list, under the lock again.
ListPrevious ==
  /\ game_pc = "leave"
  /\ Unlocked
  /\ retired' = Append(retired, previous)
  /\ previous' = NoScene
  /\ game_pc' = "signal"
  /\ UNCHANGED <<running, changing, scene, pending, created, signalled, drawn,
                 load_pc, retire_pc, main_pc, history>>

SignalRetired ==
  /\ game_pc = "signal"
  /\ signalled' = TRUE
  /\ game_pc' = "enter"
  /\ UNCHANGED <<running, changing, holders, drawn, load_pc, retire_pc, main_pc, history>>

EnterScene ==
  /\ game_pc = "enter"
  /\ changing' = FALSE
  /\ game_pc' = "update"
  /\ UNCHANGED <<running, holders, signalled, drawn, load_pc, retire_pc, main_pc, history>>

GameEnds ==
  /\ game_pc = "update"
  /\ ~running
  /\ game_pc' = "done"
  /\ UNCHANGED <<running, changing, holders, signalled, drawn, load_pc, retire_pc, main_pc, history>>
-----------------------------------------------------------------------------
(* load_scene_worker *)

CreateScene(s) ==
  /\ load_pc = "create"
  /\ s \in Creation
  /\ created' = s
  /\ Born(s)
  /\ load_pc' = "publish"
  /\ UNCHANGED <<running, changing, scene, pending, previous, retired, signalled, drawn,
                 game_pc, retire_pc, main_pc, destroyed>>

PublishScene ==
  /\ load_pc = "publish"
  /\ Unlocked
  /\ pending' = created
  /\ created' = NoScene
  /\ load_pc' = "done"
  /\ UNCHANGED <<running, changing, scene, previous, retired, signalled, drawn,
                 game_pc, retire_pc, main_pc, history>>

\* Its COM initialisation failed.
LoadFails ==
  /\ load_pc = "create"
  /\ load_pc' = "done"
  /\ UNCHANGED <<running, changing, holders, signalled, drawn, game_pc, retire_pc, main_pc, history>>
-----------------------------------------------------------------------------
(* retire_worker with kinoko_destroy_retired_scenes, and the same loop on the
   main thread once the worker is joined. *)

RetireLoops ==
  /\ retire_pc = "top"
  /\ retire_pc' = IF running THEN "wait" ELSE "done"
  /\ UNCHANGED <<running, changing, holders, signalled, drawn, game_pc, load_pc, main_pc, history>>

RetireWakes ==
  /\ retire_pc = "wait"
  /\ signalled
  /\ signalled' = FALSE
  /\ retire_pc' = "drain"
  /\ UNCHANGED <<running, changing, holders, drawn, game_pc, load_pc, main_pc, history>>

\* The destructor runs without the lock, before the node goes.
DestroyFront ==
  /\ retired # <<>>
  /\ Unlocked
  /\ destroyed' = destroyed \cup {Head(retired)}
  /\ UNCHANGED <<running, changing, holders, signalled, drawn, game_pc, load_pc, born>>

RetireDestroys ==
  /\ retire_pc = "drain"
  /\ DestroyFront
  /\ retire_pc' = "pop"
  /\ UNCHANGED main_pc

\* Defect: the newest node goes.
PopFront_Back ==
  /\ Unlocked
  /\ retired' = SubSeq(retired, 1, Len(retired) - 1)
  /\ UNCHANGED <<running, changing, scene, pending, previous, created, signalled, drawn,
                 game_pc, load_pc, history>>

PopFront ==
  /\ Unlocked
  /\ retired' = Tail(retired)
  /\ UNCHANGED <<running, changing, scene, pending, previous, created, signalled, drawn,
                 game_pc, load_pc, history>>

RetirePops ==
  /\ retire_pc = "pop"
  /\ PopFront
  /\ retire_pc' = "drain"
  /\ UNCHANGED main_pc

RetireIsEmpty ==
  /\ retire_pc = "drain"
  /\ retired = <<>>
  /\ Unlocked
  /\ retire_pc' = "top"
  /\ UNCHANGED <<running, changing, holders, signalled, drawn, game_pc, load_pc, main_pc, history>>
-----------------------------------------------------------------------------
(* display_worker with separate_draw; it has read running
   before it takes the lock, so only its join stops it for sure. *)

DrawScene ==
  /\ Unlocked
  /\ main_pc \in {"run", "stop", "join_game", "join_load", "join_retire"}
  /\ drawn' = scene
  /\ UNCHANGED <<running, changing, holders, signalled, threads, history>>

SceneDrawn ==
  /\ drawn # NoScene
  /\ drawn' = NoScene
  /\ UNCHANGED <<running, changing, holders, signalled, threads, history>>
-----------------------------------------------------------------------------
(* The main thread. *)

\* The message loop ends by itself or because the game has quit.
LoopEnds ==
  /\ main_pc = "run"
  /\ main_pc' = "stop"
  /\ UNCHANGED <<running, changing, holders, signalled, drawn, game_pc, load_pc, retire_pc, history>>

StopScenes ==
  /\ main_pc = "stop"
  /\ running' = FALSE
  /\ main_pc' = "join_game"
  /\ UNCHANGED <<changing, holders, signalled, drawn, game_pc, load_pc, retire_pc, history>>

JoinGame ==
  /\ main_pc = "join_game"
  /\ game_pc \in {"off", "done"}
  /\ main_pc' = "join_load"
  /\ UNCHANGED <<running, changing, holders, signalled, drawn, game_pc, load_pc, retire_pc, history>>

\* Defect: the retire worker is joined without a signal.
JoinLoad_NoSignal ==
  /\ main_pc = "join_load"
  /\ load_pc \in {"off", "done"}
  /\ main_pc' = "join_retire"
  /\ UNCHANGED <<running, changing, holders, signalled, drawn, game_pc, load_pc, retire_pc, history>>

\* The loader is joined and the retire worker woken ...
JoinLoad ==
  /\ main_pc = "join_load"
  /\ load_pc \in {"off", "done"}
  /\ signalled' = TRUE
  /\ main_pc' = "join_retire"
  /\ UNCHANGED <<running, changing, holders, drawn, game_pc, load_pc, retire_pc, history>>

\* ... and joined, and the display thread behind it.
JoinRetire ==
  /\ main_pc = "join_retire"
  /\ retire_pc \in {"off", "done"}
  /\ Unlocked
  /\ main_pc' = "drain"
  /\ UNCHANGED <<running, changing, holders, signalled, drawn, game_pc, load_pc, retire_pc, history>>

MainDestroys ==
  /\ main_pc = "drain"
  /\ DestroyFront
  /\ main_pc' = "pop"
  /\ UNCHANGED retire_pc

MainPops ==
  /\ main_pc = "pop"
  /\ PopFront
  /\ main_pc' = "drain"
  /\ UNCHANGED retire_pc

MainIsEmpty ==
  /\ main_pc = "drain"
  /\ retired = <<>>
  /\ main_pc' = "scene"
  /\ UNCHANGED <<running, changing, holders, signalled, drawn, game_pc, load_pc, retire_pc, history>>

DestroyCurrent ==
  /\ main_pc = "scene"
  /\ scene' = NoScene
  /\ destroyed' = destroyed \cup ({scene} \ {NoScene})
  /\ main_pc' = "pending"
  /\ UNCHANGED <<running, changing, pending, previous, created, retired, signalled, drawn,
                 game_pc, load_pc, retire_pc, born>>

DestroyPending ==
  /\ main_pc = "pending"
  /\ pending' = NoScene
  /\ destroyed' = destroyed \cup ({pending} \ {NoScene})
  /\ main_pc' = "down"
  /\ UNCHANGED <<running, changing, scene, previous, created, retired, signalled, drawn,
                 game_pc, load_pc, retire_pc, born>>
-----------------------------------------------------------------------------
GameSteps == RequestScene \/ QuitGame \/ Exchange \/ ListPrevious \/ SignalRetired \/ EnterScene \/ GameEnds
LoadSteps == PublishScene \/ LoadFails \/ \E s \in Scenes \cup {NoScene} : CreateScene(s)
RetireSteps == RetireLoops \/ RetireWakes \/ RetireDestroys \/ RetirePops \/ RetireIsEmpty
MainSteps ==
  \/ StopScenes \/ JoinGame \/ JoinLoad \/ JoinRetire
  \/ MainDestroys \/ MainPops \/ MainIsEmpty \/ DestroyCurrent \/ DestroyPending

ScenesNext ==
  \/ \E s \in Creation, game \in {"update", "done", "off"}, retire \in {"top", "done", "off"} :
       StartScenes(s, game, retire)
  \/ GameSteps
  \/ LoadSteps
  \/ RetireSteps
  \/ DrawScene
  \/ SceneDrawn
  \/ LoopEnds
  \/ MainSteps

ScenesSpec == ScenesInit /\ [][ScenesNext]_scene_queue_vars
-----------------------------------------------------------------------------
Listed == {retired[i] : i \in 1..Len(retired)}

\* The front of the list is destroyed and not yet taken off.
Popping == retire_pc = "pop" \/ main_pc = "pop"

\* The variables of the scene queue have their types.
ScenesTypeOK ==
  /\ running \in BOOLEAN
  /\ changing \in BOOLEAN
  /\ signalled \in BOOLEAN
  /\ scene \in Scenes \cup {NoScene}
  /\ pending \in Scenes \cup {NoScene}
  /\ previous \in Scenes \cup {NoScene}
  /\ created \in Scenes \cup {NoScene}
  /\ drawn \in Scenes \cup {NoScene}
  /\ retired \in Seq(Scenes)
  /\ game_pc \in {"off", "update", "leave", "signal", "enter", "done"}
  /\ load_pc \in {"off", "create", "publish", "done"}
  /\ retire_pc \in {"off", "top", "wait", "drain", "pop", "done"}
  /\ main_pc \in {"start", "run", "stop", "join_game", "join_load", "join_retire", "drain", "pop",
                  "scene", "pending", "down"}
  /\ born \subseteq Scenes
  /\ destroyed \subseteq Scenes

\* Where scenes that are not destroyed are, each place with its own.
Held == {scene, pending, previous, created} \ {NoScene}

(* Every scene created is in one place or destroyed, never both except in the
   step between its destructor and its list node; nothing is leaked or destroyed
   twice whichever threads were started and wherever the shutdown found them;
   what the display draws is the current scene. *)
ScenesAccounted ==
  /\ Held \cap Listed = {}
  /\ \A i, j \in 1..Len(retired) : retired[i] = retired[j] => i = j
  /\ scene # NoScene => scene \notin {pending, previous, created}
  /\ pending # NoScene => pending \notin {previous, created}
  /\ previous # NoScene => previous # created
  /\ born = Held \cup Listed \cup destroyed
  /\ (Held \cup Listed) \cap destroyed = IF Popping THEN {Head(retired)} ELSE {}
  /\ drawn \in {scene, NoScene}
  /\ main_pc = "down" => born = destroyed

\* Every scene as SceneLife sees it.
LifeOf(s) ==
  IF s \in destroyed THEN "destroyed"
  ELSE IF s \in Listed THEN "retired"
  ELSE IF s = previous THEN "leaving"
  ELSE IF s = scene THEN "current"
  ELSE IF s \in {pending, created} THEN "pending"
  ELSE "unborn"

Life == [s \in Scenes |-> LifeOf(s)]

SceneLives == INSTANCE SceneLife WITH life <- Life

(* The threads together keep what SceneLife promises of each scene. *)
ImplementsSceneLife == SceneLives!LifeSpec

(* A listed scene is destroyed while the worker lives, and once the game has
   been told to end, every scene that was or is still created: the joins end. *)
ScenesAreDestroyed ==
  \A s \in Scenes :
    ((s \in Listed /\ retire_pc \notin {"off", "done"}) \/ (s \in born /\ ~running)) ~> s \in destroyed
=============================================================================
