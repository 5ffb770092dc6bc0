------------------------- MODULE FramePipelineProofs -------------------------
(***************************************************************************)
(* Proofs about FramePipeline for any number of attempts.  The invariant   *)
(* says who holds the graphics lock, when the back buffer is being drawn,  *)
(* why the display thread sleeps and what each phase of the shutdown has   *)
(* already joined.                                                         *)
(***************************************************************************)
EXTENDS FramePipeline, TLAPS

\* The lock is held by the thread that is between enter and leave.
LockHeld ==
  /\ lock = "game" <=> game = "draw"
  /\ lock = "display" <=> display = "present"

DrawnUnderLock == frame = "drawing" => game = "draw"

AttemptsLeft == display \in {"enter", "present"} => attempts < MaxAttempts

\* NoFrameForgotten, from the last check of running on.
SleepsOnlyWhenDone ==
  display = "wait" \/ (display = "head" /\ running) =>
    (pending /\ ~event /\ game # "signal" => attempts = MaxAttempts)

JoinsInOrder ==
  /\ main \in {"join_display", "release", "gone"} => game = "done"
  /\ main \in {"release", "gone"} => display = "done"
  /\ device = "gone" => main = "gone"

PInv ==
  /\ TypeOK
  /\ LockHeld
  /\ DrawnUnderLock
  /\ AttemptsLeft
  /\ SleepsOnlyWhenDone
  /\ JoinsInOrder

LEMMA InitiallyPInv == Init => PInv
<1> SUFFICES ASSUME Init PROVE PInv
  OBVIOUS
<1>1. TypeOK
  BY PipelineAssumption, 0 \in 0..MaxAttempts, Zenon DEF Init, TypeOK
<1>2. LockHeld /\ DrawnUnderLock /\ AttemptsLeft /\ JoinsInOrder
  BY DEF Init, LockHeld, DrawnUnderLock, AttemptsLeft, JoinsInOrder
<1>3. SleepsOnlyWhenDone
  BY DEF Init, SleepsOnlyWhenDone
<1> QED
  BY <1>1, <1>2, <1>3 DEF PInv

(* Each thread's steps keep the invariant. *)

LEMMA GameKeepsPInv == PInv /\ Game => PInv'
<1> SUFFICES ASSUME PInv, Game PROVE PInv'
  OBVIOUS
<1>0. TypeOK
  BY DEF PInv
<1>t2. WithdrawFrame => TypeOK'
  BY <1>0, Zenon DEF WithdrawFrame, GameVars, TypeOK
<1> USE PipelineAssumption
    DEF PInv, TypeOK, LockHeld, DrawnUnderLock, AttemptsLeft, SleepsOnlyWhenDone,
        JoinsInOrder
<1>1. CASE UpdateFrame
  BY <1>1 DEF UpdateFrame, GameVars
<1>2. CASE WithdrawFrame
  <2>1. TypeOK'
    BY <1>2, <1>t2, Zenon
  <2>2. LockHeld'
    BY <1>2 DEF WithdrawFrame, GameVars
  <2>3. DrawnUnderLock'
    BY <1>2 DEF WithdrawFrame, GameVars
  <2>4. AttemptsLeft'
    BY <1>2 DEF WithdrawFrame, GameVars
  <2>5. SleepsOnlyWhenDone'
    BY <1>2 DEF WithdrawFrame, GameVars
  <2>6. JoinsInOrder'
    BY <1>2 DEF WithdrawFrame, GameVars
  <2> QED
    BY <2>1, <2>2, <2>3, <2>4, <2>5, <2>6
<1>3. CASE BeginScene
  BY <1>3 DEF BeginScene, GameVars
<1>4. CASE BeginSceneFails
  BY <1>4 DEF BeginSceneFails, GameVars
<1>5. CASE EndScene
  BY <1>5 DEF EndScene, GameVars
<1>6. CASE PublishFrame
  BY <1>6 DEF PublishFrame, GameVars
<1>7. CASE SignalDisplay
  BY <1>7 DEF SignalDisplay
<1>8. CASE FrameWait
  BY <1>8 DEF FrameWait, GameVars
<1> QED
  BY <1>1, <1>2, <1>3, <1>4, <1>5, <1>6, <1>7, <1>8 DEF Game

LEMMA DisplayKeepsPInv == PInv /\ Display => PInv'
<1> SUFFICES ASSUME PInv, Display PROVE PInv'
  OBVIOUS
<1>0. TypeOK
  BY DEF PInv
<1>z. 0 \in 0..MaxAttempts
  BY PipelineAssumption
<1>t2. DisplayWakes => TypeOK'
  BY <1>0, <1>z, Zenon DEF DisplayWakes, DisplayVars, TypeOK
<1>t8. PresentSucceeds => TypeOK'
  BY <1>0, Zenon DEF PresentSucceeds, DisplayVars, TypeOK
<1> USE PipelineAssumption
    DEF PInv, TypeOK, LockHeld, DrawnUnderLock, AttemptsLeft, SleepsOnlyWhenDone,
        JoinsInOrder
<1>1. CASE DisplayHead
  BY <1>1 DEF DisplayHead, DisplayVars
<1>2. CASE DisplayWakes
  <2>1. TypeOK'
    BY <1>2, <1>t2, Zenon
  <2>2. LockHeld'
    BY <1>2 DEF DisplayWakes, DisplayVars
  <2>3. DrawnUnderLock'
    BY <1>2 DEF DisplayWakes, DisplayVars
  <2>4. AttemptsLeft'
    BY <1>2 DEF DisplayWakes, DisplayVars
  <2>5. SleepsOnlyWhenDone'
    BY <1>2 DEF DisplayWakes, DisplayVars
  <2>6. JoinsInOrder'
    BY <1>2 DEF DisplayWakes, DisplayVars
  <2> QED
    BY <2>1, <2>2, <2>3, <2>4, <2>5, <2>6
<1>3. CASE DisplaySeesFrame
  BY <1>3 DEF DisplaySeesFrame, DisplayVars
<1>4. CASE DisplaySeesNone
  BY <1>4 DEF DisplaySeesNone, DisplayVars
<1>5. CASE DisplayGivesUp
  BY <1>5 DEF DisplayGivesUp, DisplayVars
<1>6. CASE TryEnter
  BY <1>6 DEF TryEnter, DisplayVars
<1>7. CASE TryEnterFails
  BY <1>7 DEF TryEnterFails, DisplayVars
<1>8. CASE PresentSucceeds
  <2>1. TypeOK'
    BY <1>8, <1>t8, Zenon
  <2>2. LockHeld'
    BY <1>8 DEF PresentSucceeds, DisplayVars
  <2>3. DrawnUnderLock'
    BY <1>8 DEF PresentSucceeds, DisplayVars
  <2>4. AttemptsLeft'
    BY <1>8 DEF PresentSucceeds, DisplayVars
  <2>5. SleepsOnlyWhenDone'
    BY <1>8 DEF PresentSucceeds, DisplayVars
  <2>6. JoinsInOrder'
    BY <1>8 DEF PresentSucceeds, DisplayVars
  <2> QED
    BY <2>1, <2>2, <2>3, <2>4, <2>5, <2>6
<1>9. CASE PresentFails
  BY <1>9 DEF PresentFails, DisplayVars
<1> QED
  BY <1>1, <1>2, <1>3, <1>4, <1>5, <1>6, <1>7, <1>8, <1>9 DEF Display

LEMMA MainKeepsPInv == PInv /\ Main => PInv'
<1> SUFFICES ASSUME PInv, Main PROVE PInv'
  OBVIOUS
<1>0. TypeOK
  BY DEF PInv
<1>t4. ResetFails => TypeOK'
  BY <1>0, Zenon DEF ResetFails, Released, TypeOK
<1>t5. Quit => TypeOK'
  BY <1>0, Zenon DEF Quit, TypeOK
<1> USE PipelineAssumption
    DEF PInv, TypeOK, LockHeld, DrawnUnderLock, AttemptsLeft, SleepsOnlyWhenDone,
        JoinsInOrder
<1>1. CASE Poll
  BY <1>1 DEF Poll
<1>2. CASE ToggleWindow
  BY <1>2 DEF ToggleWindow
<1>3. CASE ResetSucceeds
  <2>1. TypeOK'
    BY <1>3 DEF ResetSucceeds, Released
  <2>2. LockHeld'
    BY <1>3 DEF ResetSucceeds, Released
  <2>3. DrawnUnderLock'
    BY <1>3 DEF ResetSucceeds, Released
  <2>4. AttemptsLeft'
    BY <1>3 DEF ResetSucceeds, Released
  <2>5. SleepsOnlyWhenDone'
    BY <1>3 DEF ResetSucceeds, Released
  <2>6. JoinsInOrder'
    BY <1>3 DEF ResetSucceeds, Released
  <2> QED
    BY <2>1, <2>2, <2>3, <2>4, <2>5, <2>6
<1>4. CASE ResetFails
  <2>1. TypeOK'
    BY <1>4, <1>t4, Zenon
  <2>2. LockHeld'
    BY <1>4 DEF ResetFails, Released
  <2>3. DrawnUnderLock'
    BY <1>4 DEF ResetFails, Released
  <2>4. AttemptsLeft'
    BY <1>4 DEF ResetFails, Released
  <2>5. SleepsOnlyWhenDone'
    BY <1>4 DEF ResetFails, Released
  <2>6. JoinsInOrder'
    BY <1>4 DEF ResetFails, Released
  <2> QED
    BY <2>1, <2>2, <2>3, <2>4, <2>5, <2>6
<1>5. CASE Quit
  <2>1. TypeOK'
    BY <1>5, <1>t5, Zenon
  <2>2. LockHeld'
    BY <1>5 DEF Quit
  <2>3. DrawnUnderLock'
    BY <1>5 DEF Quit
  <2>4. AttemptsLeft'
    BY <1>5 DEF Quit
  <2>5. SleepsOnlyWhenDone'
    BY <1>5 DEF Quit
  <2>6. JoinsInOrder'
    BY <1>5 DEF Quit
  <2> QED
    BY <2>1, <2>2, <2>3, <2>4, <2>5, <2>6
<1>6. CASE JoinGame
  BY <1>6 DEF JoinGame
<1>7. CASE JoinDisplay
  BY <1>7 DEF JoinDisplay
<1>8. CASE ReleaseGraphics
  BY <1>8 DEF ReleaseGraphics, Released
<1> QED
  BY <1>1, <1>2, <1>3, <1>4, <1>5, <1>6, <1>7, <1>8 DEF Main

LEMMA DeviceKeepsPInv == PInv /\ DeviceChanges => PInv'
  BY DEF DeviceChanges, PInv, TypeOK, LockHeld, DrawnUnderLock, AttemptsLeft, SleepsOnlyWhenDone,
         JoinsInOrder

LEMMA StutterKeepsPInv == PInv /\ UNCHANGED vars => PInv'
  BY DEF vars, PInv, TypeOK, LockHeld, DrawnUnderLock, AttemptsLeft, SleepsOnlyWhenDone,
         JoinsInOrder

THEOREM PipelineInvariant == Spec => []PInv
<1>1. PInv /\ [Next]_vars => PInv'
  BY GameKeepsPInv, DisplayKeepsPInv, MainKeepsPInv, DeviceKeepsPInv, StutterKeepsPInv
     DEF Next
<1> QED
  BY InitiallyPInv, <1>1, PTL DEF Spec

(* Every variable keeps its type; a frame is tried at most MaxAttempts times. *)
THEOREM PipelineTypeCorrect == Spec => []TypeOK
<1>1. PInv => TypeOK
  BY DEF PInv
<1> QED
  BY PipelineInvariant, <1>1, PTL

(* The auto-reset event forgets no frame: the display thread sleeps over a
   pending frame only after its last attempt. *)
THEOREM NothingForgotten == Spec => []NoFrameForgotten
<1>1. PInv => NoFrameForgotten
  BY DEF PInv, SleepsOnlyWhenDone, NoFrameForgotten
<1> QED
  BY PipelineInvariant, <1>1, PTL

(* The device is released behind both joins, with the graphics lock free. *)
THEOREM DeviceReleasedLast == Spec => []ReleasedLast
<1>1. PInv => ReleasedLast
  BY DEF PInv, TypeOK, LockHeld, JoinsInOrder, ReleasedLast
<1> QED
  BY PipelineInvariant, <1>1, PTL

(* The graphics lock keeps Present and Reset out of a frame being drawn. *)
THEOREM FramesAreWhole == Spec => NeverTorn
<1>1. PInv /\ [Next]_vars => [frame = "drawing" => frame' # "discarded"]_vars
  <2> SUFFICES ASSUME PInv, Next, frame = "drawing"
               PROVE  frame' # "discarded"
    OBVIOUS
  <2>1. lock = "game" /\ game = "draw" /\ display # "present"
    BY DEF PInv, TypeOK, LockHeld, DrawnUnderLock
  <2>2. CASE Game
    BY <2>1, <2>2 DEF Game, GameVars, UpdateFrame, WithdrawFrame, BeginScene, BeginSceneFails,
                      EndScene, PublishFrame, SignalDisplay, FrameWait
  <2>3. CASE Display
    BY <2>1, <2>3 DEF Display, DisplayHead, DisplayWakes, DisplaySeesFrame, DisplaySeesNone,
                      DisplayGivesUp, TryEnter, TryEnterFails, PresentSucceeds, PresentFails
  <2>4. CASE Main
    BY <2>1, <2>4 DEF Main, Poll, ToggleWindow, ResetSucceeds, ResetFails, Quit, JoinGame,
                      JoinDisplay, ReleaseGraphics
  <2>5. CASE DeviceChanges
    BY <2>5 DEF DeviceChanges
  <2> QED
    BY <2>2, <2>3, <2>4, <2>5 DEF Next
<1> QED
  BY PipelineInvariant, <1>1, PTL DEF Spec, NeverTorn
=============================================================================
