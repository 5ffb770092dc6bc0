------------------------------ MODULE SceneLife ------------------------------
(***************************************************************************)
(* What the scene queue promises of each scene, whichever thread it is     *)
(* with: it is created once, becomes the current scene or never does, is   *)
(* left before it is retired, and is destroyed once, after which nobody    *)
(* has it.  One scene at a time is current and one at a time is left.      *)
(***************************************************************************)
CONSTANT Scenes

VARIABLE life

Stages == {"unborn", "pending", "current", "leaving", "retired", "destroyed"}

At(stage) == {s \in Scenes : life[s] = stage}

LifeInit == life = [s \in Scenes |-> "unborn"]

Create(s) ==
  /\ life[s] = "unborn"
  /\ At("pending") = {}
  /\ life' = [life EXCEPT ![s] = "pending"]

\* The pending scene takes the place of the current one, if there is one.
Activate(s) ==
  /\ life[s] = "pending"
  /\ At("leaving") = {}
  /\ life' = [t \in Scenes |-> IF t = s THEN "current"
                               ELSE IF life[t] = "current" THEN "leaving" ELSE life[t]]

Retire(s) ==
  /\ life[s] = "leaving"
  /\ life' = [life EXCEPT ![s] = "retired"]

\* A scene in use is destroyed only when nothing else is left.
Destroy(s) ==
  /\ \/ life[s] = "retired"
     \/ life[s] \in {"current", "pending"} /\ At("retired") \cup At("leaving") = {}
  /\ life' = [life EXCEPT ![s] = "destroyed"]

LifeNext == \E s \in Scenes : Create(s) \/ Activate(s) \/ Retire(s) \/ Destroy(s)

LifeSpec == LifeInit /\ [][LifeNext]_life
=============================================================================
