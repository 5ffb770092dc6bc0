---------------------------- MODULE FramePipeline ----------------------------
(***************************************************************************)
(* How a frame gets to the screen: the game thread draws it and signals    *)
(* the display thread, which presents it; the main thread polls the        *)
(* Direct3D device, resets it when it was lost, switches between window    *)
(* and full screen, and at last shuts everything down.  The graphics lock, *)
(* the pending flag of the renderer and an auto-reset event lie between    *)
(* them (application_runtime.cpp, device_runtime.cpp, render_target.cpp).  *)
(*                                                                         *)
(* The configuration is the game's: graphics on, no separate_draw, one     *)
(* scene that never asks for another.  What is drawn, the window placement *)
(* and the frame timer, which always lets the game thread go on, are left  *)
(* out.                                                                    *)
(***************************************************************************)
EXTENDS Naturals

CONSTANT MaxAttempts   \* attempts to present one frame

ASSUME PipelineAssumption == MaxAttempts \in Nat \ {0}

VARIABLES
  running,    \* state.running
  game,       \* the game thread, by what it does next
  display,    \* the display thread
  main,       \* the main thread
  lock,       \* who holds the graphics lock
  pending,    \* present_pending
  event,      \* display_event, auto-reset
  attempts,   \* the display thread's loop variable
  device,     \* the state the Direct3D device is in
  status,     \* cooperative_status, what the last poll saw
  chain,      \* swap_chain is not null
  surfaces,   \* the references the renderer acquires to its two surfaces
  frame       \* the back buffer, for the properties

vars == <<running, game, display, main, lock, pending, event, attempts, device,
          status, chain, surfaces, frame>>

GameVars == <<running, main, display, event, attempts, device, status, chain, surfaces>>

-----------------------------------------------------------------------------
(* The game thread: game_loop and draw_frame. *)

\* update_frame; the scene is updated, which asks for no other.
UpdateFrame ==
  /\ game = "update"
  /\ game' = IF running THEN "withdraw" ELSE "done"
  /\ UNCHANGED <<GameVars, lock, pending, frame>>

WithdrawFrame ==
  /\ game = "withdraw"
  /\ lock = "free"
  /\ pending' = FALSE
  /\ game' = "begin"
  /\ UNCHANGED <<GameVars, lock, frame>>

\* kinoko_graphics_begin_scene: the lock is kept on success.
BeginScene ==
  /\ game = "begin"
  /\ lock = "free"
  /\ lock' = "game"
  /\ game' = "draw"
  /\ frame' = "drawing"
  /\ UNCHANGED <<GameVars, pending>>

BeginSceneFails ==
  /\ game = "begin"
  /\ lock = "free"
  /\ game' = "wait"
  /\ UNCHANGED <<GameVars, lock, pending, frame>>

\* The scene is drawn; kinoko_graphics_end_scene.
EndScene ==
  /\ game = "draw"
  /\ lock' = "free"
  /\ game' = "publish"
  /\ frame' = "complete"
  /\ UNCHANGED <<GameVars, pending>>

PublishFrame ==
  /\ game = "publish"
  /\ lock = "free"
  /\ pending' = TRUE
  /\ game' = "signal"
  /\ UNCHANGED <<GameVars, lock, frame>>

SignalDisplay ==
  /\ game = "signal"
  /\ event' = TRUE
  /\ game' = "wait"
  /\ UNCHANGED <<running, main, display, attempts, device, status, chain, surfaces,
                 lock, pending, frame>>

\* kinoko_frame_timer_wait
FrameWait ==
  /\ game = "wait"
  /\ game' = "update"
  /\ UNCHANGED <<GameVars, lock, pending, frame>>

Game ==
  \/ UpdateFrame
  \/ WithdrawFrame
  \/ BeginScene
  \/ BeginSceneFails
  \/ EndScene
  \/ PublishFrame
  \/ SignalDisplay
  \/ FrameWait

-----------------------------------------------------------------------------
(* The display thread: display_worker and kinoko_graphics_present. *)

DisplayVars == <<running, main, game, device, status, chain, surfaces>>

\* Defect: the event is reset before the wait.
DisplayHead_Resets ==
  /\ display = "head"
  /\ display' = IF running THEN "wait" ELSE "done"
  /\ event' = FALSE
  /\ UNCHANGED <<DisplayVars, lock, pending, attempts, frame>>

DisplayHead ==
  /\ display = "head"
  /\ display' = IF running THEN "wait" ELSE "done"
  /\ UNCHANGED <<DisplayVars, lock, pending, event, attempts, frame>>

DisplayWakes ==
  /\ display = "wait"
  /\ event
  /\ event' = FALSE
  /\ attempts' = 0
  /\ display' = IF running THEN "attempt" ELSE "done"
  /\ UNCHANGED <<DisplayVars, lock, pending, frame>>

\* The flag is read outside the lock.
DisplaySeesFrame ==
  /\ display = "attempt"
  /\ attempts < MaxAttempts /\ running
  /\ pending
  /\ display' = "enter"
  /\ UNCHANGED <<DisplayVars, lock, pending, event, attempts, frame>>

\* Defect: one attempt too many.
DisplaySeesNone_Again ==
  /\ display = "attempt"
  /\ attempts <= MaxAttempts /\ running
  /\ ~pending
  /\ attempts' = attempts + 1
  /\ UNCHANGED <<DisplayVars, display, lock, pending, event, frame>>

DisplaySeesNone ==
  /\ display = "attempt"
  /\ attempts < MaxAttempts /\ running
  /\ ~pending
  /\ attempts' = attempts + 1
  /\ UNCHANGED <<DisplayVars, display, lock, pending, event, frame>>

DisplayGivesUp ==
  /\ display = "attempt"
  /\ attempts = MaxAttempts \/ ~running
  /\ display' = "head"
  /\ UNCHANGED <<DisplayVars, lock, pending, event, attempts, frame>>

\* Defect: Enter, and go on, whoever has the lock.
TryEnter_Barges ==
  /\ display = "enter"
  /\ lock' = "display"
  /\ display' = "present"
  /\ UNCHANGED <<DisplayVars, pending, event, attempts, frame>>

TryEnter ==
  /\ display = "enter"
  /\ lock = "free"
  /\ lock' = "display"
  /\ display' = "present"
  /\ UNCHANGED <<DisplayVars, pending, event, attempts, frame>>

TryEnterFails ==
  /\ display = "enter"
  /\ lock # "free"
  /\ attempts' = attempts + 1
  /\ display' = "attempt"
  /\ UNCHANGED <<DisplayVars, lock, pending, event, frame>>

\* Without a swap chain the frame counts as presented.
PresentSucceeds ==
  /\ display = "present"
  /\ chain => device = "ok"
  /\ pending' = FALSE
  /\ frame' = IF chain THEN "discarded" ELSE frame
  /\ lock' = "free"
  /\ display' = "head"
  /\ UNCHANGED <<DisplayVars, event, attempts>>

\* The device is still drawing, or lost.
PresentFails ==
  /\ display = "present"
  /\ chain
  /\ attempts' = attempts + 1
  /\ lock' = "free"
  /\ display' = "attempt"
  /\ UNCHANGED <<DisplayVars, pending, event, frame>>

Display ==
  \/ DisplayHead
  \/ DisplayWakes
  \/ DisplaySeesFrame
  \/ DisplaySeesNone
  \/ DisplayGivesUp
  \/ TryEnter
  \/ TryEnterFails
  \/ PresentSucceeds
  \/ PresentFails

-----------------------------------------------------------------------------
(* The main thread: message_loop and kinoko_application_shutdown. *)

\* Defect: Reset is called only when the poll sees a change.
Poll_OnChange ==
  /\ main = "loop"
  /\ status' = device
  /\ main' = IF device = "notreset" /\ status # "notreset" THEN "reset" ELSE "loop"
  /\ UNCHANGED <<running, game, display, lock, pending, event, attempts, device, chain,
                 surfaces, frame>>

\* kinoko_graphics_poll, between messages.
Poll ==
  /\ main = "loop"
  /\ status' = device
  /\ main' = IF device = "notreset" THEN "reset" ELSE "loop"
  /\ UNCHANGED <<running, game, display, lock, pending, event, attempts, device, chain,
                 surfaces, frame>>

\* Alt+Enter: kinoko_graphics_toggle_window, unless the poll saw the device lost.
ToggleWindow ==
  /\ main = "loop"
  /\ status # "lost"
  /\ main' = "reset"
  /\ UNCHANGED <<running, game, display, lock, pending, event, attempts, device, status,
                 chain, surfaces, frame>>

(* kinoko_graphics_reset under the graphics lock.  The renderer releases its
   surfaces and keeps the pointers; after a Reset that succeeds it acquires
   them again.  A reference released twice is never made good. *)
Released == IF surfaces = "held" THEN "released" ELSE "overreleased"

ResetSucceeds ==
  /\ main = "reset"
  /\ lock = "free"
  /\ device \in {"ok", "notreset"}
  /\ device' = "ok"
  /\ chain' = TRUE
  /\ surfaces' = IF Released = "released" THEN "held" ELSE Released
  /\ pending' = FALSE
  /\ frame' = "discarded"
  /\ main' = "loop"
  /\ UNCHANGED <<running, game, display, lock, event, attempts, status>>

ResetFails ==
  /\ main = "reset"
  /\ lock = "free"
  /\ chain' = FALSE
  /\ surfaces' = Released
  /\ frame' = "discarded"
  /\ device' = IF device = "ok" THEN "notreset" ELSE device
  /\ main' = "loop"
  /\ UNCHANGED <<running, game, display, lock, pending, event, attempts, status>>

\* WM_QUIT, or a start that failed; the shutdown begins.
Quit ==
  /\ main = "loop"
  /\ running' = FALSE
  /\ main' = "join_game"
  /\ UNCHANGED <<game, display, lock, pending, event, attempts, device, status, chain,
                 surfaces, frame>>

\* Defect: nobody wakes the display thread.
JoinGame_NoSignal ==
  /\ main = "join_game"
  /\ game = "done"
  /\ main' = "join_display"
  /\ UNCHANGED <<running, game, display, lock, pending, event, attempts, device, status,
                 chain, surfaces, frame>>

\* The scene loader and the retirement worker are joined here as well.
JoinGame ==
  /\ main = "join_game"
  /\ game = "done"
  /\ event' = TRUE
  /\ main' = "join_display"
  /\ UNCHANGED <<running, game, display, lock, pending, attempts, device, status, chain,
                 surfaces, frame>>

\* Defect: the display thread is not waited for.
JoinDisplay_NoWait ==
  /\ main = "join_display"
  /\ main' = "release"
  /\ UNCHANGED <<running, game, display, lock, pending, event, attempts, device, status,
                 chain, surfaces, frame>>

JoinDisplay ==
  /\ main = "join_display"
  /\ display = "done"
  /\ main' = "release"
  /\ UNCHANGED <<running, game, display, lock, pending, event, attempts, device, status,
                 chain, surfaces, frame>>

\* kinoko_renderer_before_reset, then kinoko_graphics_release.
ReleaseGraphics ==
  /\ main = "release"
  /\ surfaces' = Released
  /\ chain' = FALSE
  /\ device' = "gone"
  /\ main' = "gone"
  /\ UNCHANGED <<running, game, display, lock, pending, event, attempts, status, frame>>

Main ==
  \/ Poll
  \/ ToggleWindow
  \/ ResetSucceeds
  \/ ResetFails
  \/ Quit
  \/ JoinGame
  \/ JoinDisplay
  \/ ReleaseGraphics

\* Direct3D: the device is lost, and may be reset later.
DeviceChanges ==
  /\ \/ device \in {"ok", "notreset"} /\ device' = "lost"
     \/ device = "lost" /\ device' = "notreset"
  /\ UNCHANGED <<running, game, display, main, lock, pending, event, attempts, status,
                 chain, surfaces, frame>>

\* kinoko_graphics_create and kinoko_renderer_initialize are done, and each
\* thread runs, or has not started or gone at once.
Init ==
  /\ running = TRUE
  /\ game \in {"update", "done"}
  /\ display \in {"head", "done"}
  /\ main = "loop"
  /\ lock = "free"
  /\ pending = FALSE
  /\ event = FALSE
  /\ attempts = 0
  /\ device = "ok"
  /\ status = "ok"
  /\ chain = TRUE
  /\ surfaces = "held"
  /\ frame = "discarded"

Next ==
  \/ Game
  \/ Display
  \/ Main
  \/ DeviceChanges

Spec == Init /\ [][Next]_vars

(* The threads run.  The game thread waits for its timer in every round, so it
   leaves the graphics lock to a reset that waits for it; Reset succeeds in the
   end if it is tried for ever, and joins are fair. *)
Fairness ==
  /\ WF_vars(Game)
  /\ WF_vars(Display)
  /\ WF_vars(Poll)
  /\ SF_vars(ResetSucceeds)
  /\ WF_vars(JoinGame)
  /\ WF_vars(JoinDisplay)
  /\ WF_vars(ReleaseGraphics)

FairSpec == Spec /\ Fairness
-----------------------------------------------------------------------------
(* Every variable has its type. *)
TypeOK ==
  /\ running \in BOOLEAN
  /\ game \in {"update", "withdraw", "begin", "draw", "publish", "signal", "wait", "done"}
  /\ display \in {"head", "wait", "attempt", "enter", "present", "done"}
  /\ main \in {"loop", "reset", "join_game", "join_display", "release", "gone"}
  /\ lock \in {"free", "game", "display"}
  /\ pending \in BOOLEAN
  /\ event \in BOOLEAN
  /\ attempts \in 0..MaxAttempts
  /\ device \in {"ok", "lost", "notreset", "gone"}
  /\ status \in {"ok", "lost", "notreset"}
  /\ chain \in BOOLEAN
  /\ surfaces \in {"held", "released", "overreleased"}
  /\ frame \in {"discarded", "drawing", "complete"}

(* No frame is presented, and no device reset, while it is being drawn. *)
NeverTorn == [][frame = "drawing" => frame' # "discarded"]_vars

(* The display thread sleeps with a frame waiting only after it has used up its
   attempts: its auto-reset event loses no frame, though it may be signalled
   while the thread is awake, or for a frame already presented. *)
NoFrameForgotten ==
  display = "wait" /\ pending /\ ~event /\ game # "signal" => attempts = MaxAttempts

(* The device is released when no thread can use it any more. *)
ReleasedLast ==
  device = "gone" => game = "done" /\ display = "done" /\ lock = "free"

(* The renderer's pending flag "uses its graphics lock": a frame is presented
   only while it is pending, so that a frame drawn since it was seen is shown
   once and by its own signal. *)
PresentsPending ==
  [][display = "present" /\ display' = "head" => pending]_vars

(* renderer.h says the references to the surfaces are "released before
   Reset/shutdown": each is released once. *)
SurfacesBalanced == surfaces # "overreleased"

-----------------------------------------------------------------------------
(* A shutdown that has begun ends. *)
ShutdownEnds == main = "join_game" ~> main = "gone"

(* While the message loop runs, a device that can be reset is reset, also when
   a Reset fails at first. *)
DeviceRecovers ==
  device = "notreset" /\ main \in {"loop", "reset"}
    ~> device # "notreset" \/ main \notin {"loop", "reset"}
=============================================================================
