--------------------------- MODULE GameSceneProofs ---------------------------
(***************************************************************************)
(* For any addresses, layers and actors: what is drawn is alive, collision *)
(* reads no layout of a map that is gone, and a mover stands on the proxy  *)
(* of its layer.                                                           *)
(*                                                                         *)
(* Nothing in the four managers keeps their borrowed addresses apart; the  *)
(* order of the scripts' commands does.  The argument therefore follows a  *)
(* scene change command by command: Ordered says which commands are left,  *)
(* and Ready what those that have run guarantee.                           *)
(***************************************************************************)
EXTENDS GameScene, SequenceTheorems, WellFoundedInduction, TLAPS

-----------------------------------------------------------------------------
(* Sequences. *)

\* Put before a sequence, an element moves the others one place.
LEMMA Before ==
  ASSUME NEW S, NEW x \in S, NEW s \in Seq(S)
  PROVE  /\ <<x>> \o s \in Seq(S) /\ Len(<<x>> \o s) = Len(s) + 1 /\ (<<x>> \o s)[1] = x
         /\ \A i \in 2..Len(s) + 1 : (<<x>> \o s)[i] = s[i - 1]
<1> DEFINE one == <<x>>
           n == Len(s)
<1>1. one \in Seq(S) /\ Len(one) = 1 /\ one[1] = x /\ n \in Nat
  OBVIOUS
<1> HIDE DEF one
<1>2. /\ one \o s \in Seq(S) /\ Len(one \o s) = Len(one) + Len(s)
      /\ \A i \in 1..Len(one) + Len(s) :
           (one \o s)[i] = IF i <= Len(one) THEN one[i] ELSE s[i - Len(one)]
  BY <1>1, ConcatProperties
<1>3. /\ Len(one \o s) = 1 + n
      /\ \A i \in 1..1 + n : (one \o s)[i] = IF i <= 1 THEN one[i] ELSE s[i - 1]
  BY <1>1, <1>2
<1> HIDE DEF n
<1>4. Len(one \o s) = n + 1 /\ (one \o s)[1] = x
  BY <1>1, <1>3
<1>5. \A i \in 2..n + 1 : (one \o s)[i] = s[i - 1]
  BY <1>1, <1>3
<1> QED BY <1>2, <1>4, <1>5 DEF one, n

\* The first elements of a sequence that is long enough.
LEMMA Shortened ==
  ASSUME NEW S, NEW s \in Seq(S), NEW n \in Nat, n <= Len(s)
  PROVE  SubSeq(s, 1, n) \in Seq(S) /\ Len(SubSeq(s, 1, n)) = n
<1>1. Len(s) \in Nat /\ \A i \in 1..n : s[i] \in S
  OBVIOUS
<1>2. SubSeq(s, 1, n) \in Seq(S) /\ Len(SubSeq(s, 1, n)) = IF 1 <= n THEN n - 1 + 1 ELSE 0
  BY <1>1, SubSeqProperties
<1>3. (IF 1 <= n THEN n - 1 + 1 ELSE 0) = n
  OBVIOUS
<1> QED BY <1>2, <1>3

-----------------------------------------------------------------------------
(* How far a scene change has come. *)

Commands == {"load_map", "release_map", "clear_actors", "clear_queue", "clear_collision",
             "build"}

\* The commands of a scene change, from the last one back.
Plan(m) ==
  IF m = "stage"
  THEN <<"build", "clear_collision", "clear_queue", "clear_actors", "load_map">>
  ELSE <<"build", "release_map", "clear_actors", "clear_queue">>

Ordered ==
  /\ todo \in Seq(Commands)
  /\ mode = "title" => todo = <<>>
  /\ Len(todo) <= IF mode = "stage" THEN 5 ELSE 4
  /\ \A i \in 1..Len(todo) : todo[i] = Plan(mode)[Len(todo) - i + 1]
  /\ ~Scripts => todo = <<>>

\* What is left behind each command of a stage ...
StageReady ==
  /\ Len(todo) \in 1..3 => landed = None
  /\ Len(todo) < 3 =>
       \A i \in 1..Len(queue) : \E j \in 1..Len(render) :
         render[j].node = queue[i] /\ Living(render[j].layout)
  /\ Len(todo) < 2 => \A i \in Registered : Living(layouts[i])

\* ... and of the world map, which keeps the layouts and loses their parents.
WorldReady ==
  /\ Len(todo) < 4 => queue = <<>>
  /\ Len(todo) \in 1..2 => landed = None
  /\ Len(todo) < 3 => \A i \in Registered : parents[i] \notin live
  /\ Len(todo) < 2 => ~source

Ready ==
  /\ mode = "title" => layouts = <<>> /\ queue = <<>>
  /\ mode = "stage" => StageReady
  /\ mode = "world" => WorldReady

\* The ends of the hits reach as far as the layouts, and layers belong to a map.
Bounded ==
  /\ Len(layouts) <= Len(hit_ends)
  /\ player = None => layers = {}

SceneInv == TypeOK /\ Ordered /\ Ready /\ Bounded /\ StandsOnItsLayer

\* The command a script has come to tells how many are left.
LEMMA CommandAt ==
  ASSUME Ordered, TypeOK, NEW name, Command(name)
  PROVE  /\ Scripts
         /\ mode \in {"stage", "world"}
         /\ Len(todo) \in 1..5
         /\ mode = "stage" /\ name = "load_map" => Len(todo) = 5
         /\ mode = "stage" /\ name = "clear_actors" => Len(todo) = 4
         /\ mode = "stage" /\ name = "clear_queue" => Len(todo) = 3
         /\ mode = "stage" /\ name = "clear_collision" => Len(todo) = 2
         /\ mode = "world" /\ name = "clear_queue" => Len(todo) = 4
         /\ mode = "world" /\ name = "clear_actors" => Len(todo) = 3
         /\ mode = "world" /\ name = "release_map" => Len(todo) = 2
         /\ name = "build" => Len(todo) = 1
         /\ name \in {"load_map", "clear_collision"} => mode = "stage"
         /\ name = "release_map" => mode = "world"
<1> DEFINE n == Len(todo)
<1>1. /\ n \in Nat \ {0} /\ todo # <<>> /\ Scripts
      /\ Head(todo) = name /\ Head(todo) = todo[1]
  BY EmptySeq DEF Command, Ordered
<1>2. todo[1] = Plan(mode)[n]
  <2>1. 1 \in 1..n /\ n - 1 + 1 = n
    BY <1>1
  <2> QED BY <2>1 DEF Ordered
<1>3. mode \in {"stage", "world"} /\ n <= IF mode = "stage" THEN 5 ELSE 4
  BY <1>1 DEF Ordered, TypeOK
<1> HIDE DEF n
<1>4. CASE mode = "stage"
  <2>1. n = 1 \/ n = 2 \/ n = 3 \/ n = 4 \/ n = 5
    BY <1>1, <1>3, <1>4
  <2>2. /\ n = 1 => name = "build"
        /\ n = 2 => name = "clear_collision"
        /\ n = 3 => name = "clear_queue"
        /\ n = 4 => name = "clear_actors"
        /\ n = 5 => name = "load_map"
    BY <1>1, <1>2, <1>4 DEF Plan
  <2> QED BY <1>1, <1>4, <2>1, <2>2 DEF n
<1>5. CASE mode = "world"
  <2>1. n = 1 \/ n = 2 \/ n = 3 \/ n = 4
    BY <1>1, <1>3, <1>5
  <2>2. /\ n = 1 => name = "build"
        /\ n = 2 => name = "release_map"
        /\ n = 3 => name = "clear_actors"
        /\ n = 4 => name = "clear_queue"
    BY <1>1, <1>2, <1>5 DEF Plan
  <2> QED BY <1>1, <1>5, <2>1, <2>2 DEF n
<1> QED BY <1>3, <1>4, <1>5

\* Behind a command the change is one command further.
LEMMA CommandDone ==
  ASSUME Ordered, todo # <<>>, Done, UNCHANGED <<mode, phase>>
  PROVE  Ordered' /\ Len(todo') = Len(todo) - 1 /\ Len(todo) \in Nat
<1> DEFINE n == Len(todo)
<1>1. n \in Nat \ {0} /\ todo' = Tail(todo)
  BY EmptySeq DEF Ordered, Done
<1>2. /\ todo' \in Seq(Commands) /\ Len(todo') = n - 1
      /\ \A i \in 1..Len(Tail(todo)) : todo'[i] = todo[i + 1]
  BY <1>1, HeadTailProperties DEF Ordered
<1>3. ASSUME NEW i \in 1..Len(todo')
      PROVE  todo'[i] = Plan(mode)[Len(todo') - i + 1]
  <2>1. i + 1 \in 1..n /\ n - (i + 1) + 1 = Len(todo') - i + 1
    BY <1>1, <1>2
  <2>2. todo[i + 1] = Plan(mode)[n - (i + 1) + 1]
    BY <2>1 DEF Ordered
  <2> QED BY <1>1, <1>2, <2>1, <2>2
<1>4. Scripts /\ Scripts' /\ mode # "title"
  BY DEF Ordered, Scripts
<1> QED BY <1>1, <1>2, <1>3, <1>4 DEF Ordered

LEMMA StageOrdered ==
  ASSUME NEW load \in BOOLEAN, todo' = StageCommands(load), mode' = "stage", Scripts'
  PROVE  Ordered' /\ (Len(todo') = 4 \/ Len(todo') = 5)
<1> DEFINE four == <<"clear_actors", "clear_queue", "clear_collision", "build">>
           five == <<"load_map", "clear_actors", "clear_queue", "clear_collision", "build">>
<1>1. todo' = IF load THEN five ELSE four
  <2>1. <<"load_map">> \o four = five
    <3> DEFINE one == <<"load_map">>
    <3>1. /\ one \in Seq(Commands) /\ four \in Seq(Commands) /\ five \in Seq(Commands)
          /\ Len(one) = 1 /\ Len(four) = 4 /\ Len(five) = 5
      BY DEF Commands
    <3>3. /\ one \o four \in Seq(Commands) /\ Len(one \o four) = 5
          /\ (one \o four)[1] = one[1]
          /\ \A i \in 2..5 : (one \o four)[i] = four[i - 1]
      <4> HIDE DEF one, four
      <4>1. /\ one \o four \in Seq(Commands) /\ Len(one \o four) = Len(one) + Len(four)
            /\ \A i \in 1..Len(one) + Len(four) :
                 (one \o four)[i] = IF i <= Len(one) THEN one[i] ELSE four[i - Len(one)]
        BY <3>1, ConcatProperties
      <4>2. /\ one \o four \in Seq(Commands) /\ Len(one \o four) = 5
            /\ \A i \in 1..5 : (one \o four)[i] = IF i <= 1 THEN one[i] ELSE four[i - 1]
        BY <3>1, <4>1
      <4> QED BY <4>2
    <3>4. ASSUME NEW i \in 1..5
          PROVE  (one \o four)[i] = five[i]
      <4>1. i = 1 \/ i = 2 \/ i = 3 \/ i = 4 \/ i = 5
        OBVIOUS
      <4> QED BY <3>3, <4>1
    <3> HIDE DEF one, four, five
    <3> QED BY <3>1, <3>3, <3>4, SeqEqual DEF one
  <2>2. <<>> \o four = four
    OBVIOUS
  <2> QED BY <2>1, <2>2 DEF StageCommands
<1>2. CASE load
  BY <1>1, <1>2 DEF Ordered, Commands, Plan
<1>3. CASE ~load
  BY <1>1, <1>3 DEF Ordered, Commands, Plan
<1> QED BY <1>2, <1>3

LEMMA WorldOrdered ==
  ASSUME todo' = WorldCommands, mode' = "world", Scripts'
  PROVE  Ordered' /\ Len(todo') = 4
BY DEF WorldCommands, Ordered, Commands, Plan
-----------------------------------------------------------------------------
(* The commands. *)

LEMMA EnterStageInv ==
  ASSUME SceneInv, NEW load \in BOOLEAN, EnterStage(load)
  PROVE  SceneInv'
<1>1. Ordered' /\ (Len(todo') = 4 \/ Len(todo') = 5)
  BY StageOrdered DEF EnterStage, Scripts
<1>2. TypeOK'
  BY DEF SceneInv, TypeOK, MapTypeOK, CollisionTypeOK, EnterStage, map_vars, collision_vars
<1>3. Ready'
  <2> DEFINE n == Len(todo')
  <2>1. (n \notin 1..3) /\ ~(n < 3) /\ ~(n < 2)
    <3>1. n = 4 \/ n = 5
      BY <1>1
    <3> HIDE DEF n
    <3> QED BY <3>1
  <2>2. StageReady'
    BY <2>1 DEF StageReady
  <2> QED BY <2>2 DEF Ready, EnterStage
<1>4. Bounded' /\ StandsOnItsLayer'
  BY DEF SceneInv, Bounded, StandsOnItsLayer, EnterStage, map_vars, collision_vars
<1> QED BY <1>1, <1>2, <1>3, <1>4 DEF SceneInv

LEMMA EnterWorldInv ==
  ASSUME SceneInv, EnterWorld
  PROVE  SceneInv'
<1>1. Ordered' /\ Len(todo') = 4
  BY WorldOrdered DEF EnterWorld, Scripts
<1>2. TypeOK'
  BY DEF SceneInv, TypeOK, MapTypeOK, CollisionTypeOK, EnterWorld, map_vars, collision_vars
<1>3. Ready'
  <2>1. WorldReady'
    BY <1>1 DEF WorldReady
  <2> QED BY <2>1 DEF Ready, EnterWorld
<1>4. Bounded' /\ StandsOnItsLayer'
  BY DEF SceneInv, Bounded, StandsOnItsLayer, EnterWorld, map_vars, collision_vars
<1> QED BY <1>1, <1>2, <1>3, <1>4 DEF SceneInv

LEMMA LoadMapInv ==
  ASSUME SceneInv, LoadMap
  PROVE  SceneInv'
<1>1. mode = "stage" /\ Len(todo) = 5 /\ todo # <<>>
  <2>1. Command("load_map")
    BY DEF LoadMap
  <2>2. mode \in {"stage", "world"} /\ mode = "stage" /\ Len(todo) = 5
    BY <2>1, CommandAt DEF SceneInv
  <2> QED BY <2>1, <2>2 DEF Command
<1>2. Ordered' /\ Len(todo') = 4
  BY <1>1, CommandDone DEF SceneInv, LoadMap
<1>3. /\ source' \in BOOLEAN /\ holder' \in BOOLEAN /\ render' = <<>>
      /\ player' \in Runtimes \cup {None} /\ layers' \in SUBSET Layers
      /\ visible' = layers'
      /\ player' \in Runtimes \/ layers' = {}
  BY DEF LoadMap, MapLoadFails, MapLoads, MapClear, ContainersClear
<1>4. TypeOK'
  <2>1. MapTypeOK'
    BY <1>3 DEF MapTypeOK
  <2> QED BY <2>1, <1>1 DEF SceneInv, TypeOK, CollisionTypeOK, LoadMap, collision_vars
<1>5. Ready'
  BY <1>1, <1>2 DEF Ready, StageReady, LoadMap
<1>6. Bounded' /\ StandsOnItsLayer'
  BY <1>3, MapAssumption DEF SceneInv, Bounded, StandsOnItsLayer, LoadMap, collision_vars
<1> QED BY <1>2, <1>4, <1>5, <1>6 DEF SceneInv

LEMMA ReleaseMapInv ==
  ASSUME SceneInv, ReleaseMap
  PROVE  SceneInv'
<1>1. mode = "world" /\ Len(todo) = 2 /\ todo # <<>>
  <2>1. Command("release_map")
    BY DEF ReleaseMap
  <2>2. mode \in {"stage", "world"} /\ mode = "world" /\ Len(todo) = 2
    BY <2>1, CommandAt DEF SceneInv
  <2> QED BY <2>1, <2>2 DEF Command
<1>2. Ordered' /\ Len(todo') = 1
  BY <1>1, CommandDone DEF SceneInv, ReleaseMap
<1>3. source' = FALSE /\ holder' = FALSE /\ render' = <<>> /\ player' = None /\ layers' = {}
      /\ visible' = {}
  BY DEF ReleaseMap, MapClear, ContainersClear
<1>4. TypeOK'
  <2>1. render' \in Seq(Node)
    BY <1>3
  <2>2. MapTypeOK'
    BY <1>3, <2>1 DEF MapTypeOK
  <2> QED BY <2>2, <1>1 DEF SceneInv, TypeOK, CollisionTypeOK, ReleaseMap, collision_vars
<1>5. Ready'
  <2>1. WorldReady
    BY <1>1 DEF SceneInv, Ready
  <2>2. WorldReady'
    <3>1. queue' = <<>> /\ landed' = None
      BY <1>1, <2>1 DEF WorldReady, ReleaseMap
    <3>2. \A i \in Registered' : parents'[i] \notin live'
      BY <1>1, <2>1 DEF WorldReady, ReleaseMap, collision_vars, Registered
    <3>3. ~source'
      BY <1>3
    <3> QED BY <3>1, <3>2, <3>3 DEF WorldReady
  <2> QED BY <1>1, <2>2 DEF Ready, ReleaseMap
<1>6. Bounded' /\ StandsOnItsLayer'
  BY <1>3 DEF SceneInv, Bounded, StandsOnItsLayer, ReleaseMap, collision_vars
<1> QED BY <1>2, <1>4, <1>5, <1>6 DEF SceneInv

LEMMA ClearActorInv ==
  ASSUME SceneInv, ClearActor
  PROVE  SceneInv'
<1>1. /\ mode \in {"stage", "world"} /\ todo # <<>>
      /\ mode = "stage" => Len(todo) = 4
      /\ mode = "world" => Len(todo) = 3
  <2>1. Command("clear_actors")
    BY DEF ClearActor
  <2>2. /\ mode \in {"stage", "world"}
        /\ mode = "stage" => Len(todo) = 4
        /\ mode = "world" => Len(todo) = 3
    BY <2>1, CommandAt DEF SceneInv
  <2> QED BY <2>1, <2>2 DEF Command
<1>2. Ordered' /\ Len(todo') = Len(todo) - 1
  BY <1>1, CommandDone DEF SceneInv, ClearActor
<1>3. TypeOK'
  BY DEF SceneInv, TypeOK, MapTypeOK, CollisionTypeOK, ClearActor, map_vars, collision_vars
<1>4. Ready'
  <2>1. CASE mode = "stage"
    <3>1. StageReady /\ Len(todo') = 3
      BY <1>1, <1>2, <2>1 DEF SceneInv, Ready
    <3>2. StageReady'
      BY <1>1, <2>1, <3>1 DEF StageReady, ClearActor
    <3> QED BY <2>1, <3>2 DEF Ready, ClearActor
  <2>2. CASE mode = "world"
    <3>1. WorldReady /\ Len(todo') = 2
      BY <1>1, <1>2, <2>2 DEF SceneInv, Ready
    <3>2. WorldReady'
      <4>1. queue' = queue /\ landed' = None /\ live' = {}
        BY DEF ClearActor
      <4>2. Len(todo) = 3
        BY <1>1, <2>2
      <4>3. queue = <<>>
        BY <3>1, <4>2 DEF WorldReady
      <4> QED BY <3>1, <4>1, <4>3 DEF WorldReady
    <3> QED BY <2>2, <3>2 DEF Ready, ClearActor
  <2> QED BY <1>1, <2>1, <2>2
<1>5. Bounded' /\ StandsOnItsLayer'
  BY DEF SceneInv, Bounded, StandsOnItsLayer, ClearActor, map_vars, collision_vars
<1> QED BY <1>2, <1>3, <1>4, <1>5 DEF SceneInv

LEMMA ClearRenderLayerInv ==
  ASSUME SceneInv, ClearRenderLayer
  PROVE  SceneInv'
<1>1. /\ mode \in {"stage", "world"} /\ todo # <<>>
      /\ mode = "stage" => Len(todo) = 3
      /\ mode = "world" => Len(todo) = 4
  <2>1. Command("clear_queue")
    BY DEF ClearRenderLayer
  <2>2. /\ mode \in {"stage", "world"}
        /\ mode = "stage" => Len(todo) = 3
        /\ mode = "world" => Len(todo) = 4
    BY <2>1, CommandAt DEF SceneInv
  <2> QED BY <2>1, <2>2 DEF Command
<1>2. Ordered' /\ Len(todo') = Len(todo) - 1
  BY <1>1, CommandDone DEF SceneInv, ClearRenderLayer
<1>3. TypeOK'
  BY DEF SceneInv, TypeOK, MapTypeOK, CollisionTypeOK, ClearRenderLayer, map_vars, collision_vars
<1>4. Ready'
  <2>1. CASE mode = "stage"
    <3>1. StageReady /\ Len(todo') = 2
      BY <1>1, <1>2, <2>1 DEF SceneInv, Ready
    <3>2. StageReady'
      BY <1>1, <2>1, <3>1 DEF StageReady, ClearRenderLayer
    <3> QED BY <2>1, <3>2 DEF Ready, ClearRenderLayer
  <2>2. CASE mode = "world"
    <3>1. WorldReady /\ Len(todo') = 3
      BY <1>1, <1>2, <2>2 DEF SceneInv, Ready
    <3>2. WorldReady'
      BY <1>1, <2>2, <3>1 DEF WorldReady, ClearRenderLayer, map_vars, collision_vars, Registered
    <3> QED BY <2>2, <3>2 DEF Ready, ClearRenderLayer
  <2> QED BY <1>1, <2>1, <2>2
<1>5. Bounded' /\ StandsOnItsLayer'
  BY DEF SceneInv, Bounded, StandsOnItsLayer, ClearRenderLayer, map_vars, collision_vars
<1> QED BY <1>2, <1>3, <1>4, <1>5 DEF SceneInv

LEMMA ClearCollisionInv ==
  ASSUME SceneInv, ClearCollision
  PROVE  SceneInv'
<1>1. mode = "stage" /\ todo # <<>> /\ Len(todo) = 2
  <2>1. Command("clear_collision")
    BY DEF ClearCollision
  <2>2. mode = "stage" /\ Len(todo) = 2
    BY <2>1, CommandAt DEF SceneInv
  <2> QED BY <2>1, <2>2 DEF Command
<1>2. Ordered' /\ Len(todo') = 1
  BY <1>1, CommandDone DEF SceneInv, ClearCollision
<1>3. layouts' = <<>> /\ parents' = <<>> /\ hit_ends' = hit_ends
  BY DEF ClearCollision, CollisionReset
<1>4. TypeOK'
  BY <1>3 DEF SceneInv, TypeOK, MapTypeOK, CollisionTypeOK, ClearCollision, map_vars
<1>5. Ready'
  <2>1. \A i \in Registered' : FALSE
    BY <1>3 DEF Registered
  <2>2. StageReady
    BY <1>1 DEF SceneInv, Ready
  <2>3. StageReady'
    BY <1>1, <1>2, <2>1, <2>2 DEF StageReady, ClearCollision, map_vars, Living
  <2> QED BY <1>1, <2>3 DEF Ready, ClearCollision
<1>6. Bounded' /\ StandsOnItsLayer'
  BY <1>3 DEF SceneInv, Bounded, StandsOnItsLayer, ClearCollision, map_vars, TypeOK, CollisionTypeOK
<1> QED BY <1>2, <1>4, <1>5, <1>6 DEF SceneInv

\* A stage is built over nothing of the map before, the world map over no map.
LEMMA BuildingIn ==
  ASSUME SceneInv, Building
  PROVE  /\ Scripts /\ mode \in {"stage", "world"} /\ Len(todo) = 1
         /\ mode = "stage" =>
              /\ landed = None
              /\ \A i \in 1..Len(queue) : \E j \in 1..Len(render) :
                   render[j].node = queue[i] /\ Living(render[j].layout)
              /\ \A i \in Registered : Living(layouts[i])
         /\ mode = "world" =>
              /\ queue = <<>> /\ landed = None /\ ~source
              /\ \A i \in Registered : parents[i] \notin live
<1>1. Scripts /\ mode \in {"stage", "world"} /\ Len(todo) = 1
  BY CommandAt DEF SceneInv, Building
<1>2. CASE mode = "stage"
  <2>1. StageReady
    BY <1>2 DEF SceneInv, Ready
  <2> QED BY <1>1, <1>2, <2>1 DEF StageReady
<1>3. CASE mode = "world"
  <2>1. WorldReady
    BY <1>3 DEF SceneInv, Ready
  <2> QED BY <1>1, <1>3, <2>1 DEF WorldReady
<1> QED BY <1>1, <1>2, <1>3

LEMMA CreateRenderLayerInv ==
  ASSUME SceneInv, NEW layer \in Layers, NEW node \in Nodes, CreateRenderLayer(layer, node)
  PROVE  SceneInv'
<1> DEFINE made == [node |-> node, layout |-> LayoutOf(layer)]
<1>1. /\ Building /\ Found(layer) /\ render' = Append(render, made) /\ queue' = Append(queue, node)
      /\ UNCHANGED <<source, holder, player, layers, visible, collision_vars>>
      /\ UNCHANGED <<live, step, mode, todo, phase, landed>>
  BY DEF CreateRenderLayer, MakeRenderLayer
<1>2. mode = "stage" /\ Scripts /\ Len(todo) = 1
  <2>1. source
    BY <1>1 DEF Found
  <2> QED BY <1>1, <2>1, BuildingIn
<1>3. /\ landed = None
      /\ \A i \in 1..Len(queue) : \E j \in 1..Len(render) :
           render[j].node = queue[i] /\ Living(render[j].layout)
      /\ \A i \in Registered : Living(layouts[i])
  BY <1>1, <1>2, BuildingIn
<1>4. made \in Node /\ Living(made.layout) /\ made.node = node
  <2>1. layer \in layers /\ player \in Runtimes
    BY <1>1 DEF Found, SceneInv, Bounded, TypeOK, MapTypeOK
  <2> QED BY <2>1 DEF LayoutOf, Layout, Node, Living
<1>5. TypeOK /\ queue \in Seq(Nodes) /\ render \in Seq(Node)
  BY DEF SceneInv, TypeOK, MapTypeOK
<1> HIDE DEF made
<1>6. /\ render' \in Seq(Node) /\ Len(render') = Len(render) + 1 /\ render'[Len(render) + 1] = made
      /\ \A j \in 1..Len(render) : render'[j] = render[j]
  BY <1>1, <1>4, <1>5, AppendProperties
<1>7. /\ queue' \in Seq(Nodes) /\ Len(queue') = Len(queue) + 1 /\ queue'[Len(queue) + 1] = node
      /\ \A i \in 1..Len(queue) : queue'[i] = queue[i]
  BY <1>1, <1>5, AppendProperties
<1>8. TypeOK'
  BY <1>1, <1>5, <1>6, <1>7 DEF TypeOK, MapTypeOK, CollisionTypeOK, collision_vars
<1>9. Ordered'
  BY <1>1 DEF SceneInv, Ordered, Scripts
<1>10. ASSUME NEW i \in 1..Len(queue')
       PROVE  \E j \in 1..Len(render') :
                (render[j].node = queue[i] /\ Living(render[j].layout))'
  <2>2. Len(queue) \in Nat /\ Len(render) \in Nat
    BY <1>5
  <2>3. CASE i \in 1..Len(queue)
    <3>1. PICK j \in 1..Len(render) : render[j].node = queue[i] /\ Living(render[j].layout)
      BY <1>3, <2>3
    <3>2. j \in 1..Len(render') /\ render'[j] = render[j] /\ queue'[i] = queue[i]
      BY <1>6, <1>7, <2>2, <2>3
    <3>3. Living(render[j].layout)'
      BY <3>1, <3>2, <1>1 DEF Living
    <3> QED BY <3>1, <3>2, <3>3
  <2>4. CASE i = Len(queue) + 1
    <3>1. Len(render) + 1 \in 1..Len(render')
      BY <1>6, <2>2
    <3>2. PICK j \in 1..Len(render') : j = Len(render) + 1
      BY <3>1
    <3>3. render'[j] = made /\ queue'[i] = node
      BY <1>6, <1>7, <2>4, <3>2
    <3>4. Living(render[j].layout)'
      BY <1>1, <1>4, <3>3 DEF Living
    <3> QED BY <1>4, <3>3, <3>4
  <2> QED BY <1>7, <2>2, <2>3, <2>4
<1>11. Ready'
  <2>1. \A i \in Registered' : Living(layouts[i])'
    BY <1>1, <1>3 DEF Registered, Living, collision_vars
  <2>2. StageReady'
    BY <1>1, <1>3, <1>10, <2>1 DEF StageReady
  <2> QED BY <1>1, <1>2, <2>2 DEF Ready
<1>12. Bounded' /\ StandsOnItsLayer'
  BY <1>1 DEF SceneInv, Bounded, StandsOnItsLayer, collision_vars
<1> QED BY <1>8, <1>9, <1>11, <1>12 DEF SceneInv

\* A layout registered goes before the others, and so does its parent.
LEMMA Registers ==
  ASSUME SceneInv, NEW layout \in Layout, NEW proxy \in Proxies, RegisterMap(layout, proxy)
  PROVE  /\ CollisionTypeOK' /\ Len(parents') = Len(layouts')
         /\ Len(layouts') = Len(layouts) + 1 /\ Len(hit_ends') = Len(layouts) + 1
         /\ layouts'[1] = layout
         /\ \A i \in 2..Len(layouts) + 1 : layouts'[i] = layouts[i - 1]
<1> DEFINE n == Len(layouts)
           ends == SubSeq(hit_ends, 1, n)
<1>1. /\ layouts \in Seq(Layout) /\ parents \in Seq(Proxies) /\ hit_ends \in Seq(0..MaxHits)
      /\ Len(parents) = n /\ n <= Len(hit_ends) /\ n \in Nat /\ 0 \in 0..MaxHits
  BY CollisionAssumption DEF SceneInv, TypeOK, CollisionTypeOK, Bounded
<1>2. /\ layouts' = <<layout>> \o layouts /\ parents' = <<proxy>> \o parents
      /\ hit_ends' = Append(ends, 0)
  BY DEF RegisterMap
<1>3. /\ layouts' \in Seq(Layout) /\ Len(layouts') = n + 1 /\ layouts'[1] = layout
      /\ \A i \in 2..n + 1 : layouts'[i] = layouts[i - 1]
  BY <1>1, <1>2, Before
<1>4. parents' \in Seq(Proxies) /\ Len(parents') = n + 1
  BY <1>1, <1>2, Before
<1>5. ends \in Seq(0..MaxHits) /\ Len(ends) = n
  <2> HIDE DEF n
  <2> QED BY <1>1, Shortened
<1> HIDE DEF ends
<1>6. hit_ends' \in Seq(0..MaxHits) /\ Len(hit_ends') = n + 1
  BY <1>1, <1>2, <1>5, AppendProperties
<1> QED BY <1>3, <1>4, <1>6 DEF CollisionTypeOK

LEMMA CreateCollisionInv ==
  ASSUME SceneInv, NEW layer \in Layers, NEW proxy \in Proxies, CreateCollision(layer, proxy)
  PROVE  SceneInv'
<1>1. /\ Building /\ Found(layer) /\ RegisterMap(LayoutOf(layer), proxy)
      /\ live' = live \cup {proxy}
      /\ UNCHANGED <<map_vars, step, queue, mode, todo, phase, landed>>
  BY DEF CreateCollision
<1>2. mode = "stage" /\ Scripts /\ Len(todo) = 1
  <2>1. source
    BY <1>1 DEF Found
  <2> QED BY <1>1, <2>1, BuildingIn
<1>3. /\ landed = None
      /\ \A i \in 1..Len(queue) : \E j \in 1..Len(render) :
           render[j].node = queue[i] /\ Living(render[j].layout)
      /\ \A i \in Registered : Living(layouts[i])
  BY <1>1, <1>2, BuildingIn
<1>4. LayoutOf(layer) \in Layout /\ Living(LayoutOf(layer))
  <2>1. layer \in layers /\ player \in Runtimes
    BY <1>1 DEF Found, SceneInv, Bounded, TypeOK, MapTypeOK
  <2> QED BY <2>1 DEF LayoutOf, Layout, Living
<1>5. /\ CollisionTypeOK' /\ Len(parents') = Len(layouts')
      /\ Len(layouts') = Len(layouts) + 1 /\ Len(hit_ends') = Len(layouts) + 1
      /\ layouts'[1] = LayoutOf(layer)
      /\ \A i \in 2..Len(layouts) + 1 : layouts'[i] = layouts[i - 1]
  BY <1>1, <1>4, Registers
<1>6. TypeOK'
  BY <1>1, <1>5 DEF SceneInv, TypeOK, MapTypeOK, map_vars, Controls
<1>7. Ordered'
  BY <1>1 DEF SceneInv, Ordered, Scripts
<1>8. ASSUME NEW i \in Registered'
      PROVE  Living(layouts[i])'
  <2>1. Len(layouts) \in Nat
    BY DEF SceneInv, TypeOK, CollisionTypeOK
  <2>2. CASE i = 1
    BY <1>1, <1>4, <1>5, <2>2 DEF Living, map_vars
  <2>3. CASE i # 1
    <3>1. i \in 2..Len(layouts) + 1 /\ i - 1 \in Registered
      BY <1>5, <2>1, <2>3 DEF Registered
    <3>2. layouts'[i] = layouts[i - 1] /\ Living(layouts[i - 1])
      BY <1>3, <1>5, <3>1
    <3> QED BY <1>1, <3>2 DEF Living, map_vars
  <2> QED BY <2>2, <2>3
<1>9. Ready'
  <2>1. \A i \in 1..Len(queue') : \E j \in 1..Len(render') :
          (render[j].node = queue[i] /\ Living(render[j].layout))'
    BY <1>1, <1>3 DEF Living, map_vars
  <2>2. StageReady'
    BY <1>1, <1>3, <1>8, <2>1 DEF StageReady
  <2> QED BY <1>1, <1>2, <2>2 DEF Ready
<1>10. Bounded' /\ StandsOnItsLayer'
  <2>1. Len(layouts) \in Nat
    BY DEF SceneInv, TypeOK, CollisionTypeOK
  <2> QED BY <1>1, <1>5, <2>1 DEF SceneInv, Bounded, StandsOnItsLayer, map_vars
<1> QED BY <1>6, <1>7, <1>9, <1>10 DEF SceneInv

LEMMA CreateActorInv ==
  ASSUME SceneInv, NEW mover \in Movers, CreateActor(mover)
  PROVE  SceneInv'
<1>1. /\ Building /\ live' = live \cup {mover} /\ step' = [step EXCEPT ![mover] = None]
      /\ UNCHANGED <<map_vars, collision_vars, queue, mode, todo, phase, landed>>
  BY DEF CreateActor
<1>2. mode \in {"stage", "world"} /\ Len(todo) = 1 /\ landed = None
  BY <1>1, BuildingIn
<1>3. TypeOK'
  BY <1>1 DEF SceneInv, TypeOK, MapTypeOK, CollisionTypeOK, map_vars, collision_vars, Controls
<1>4. Ordered'
  BY <1>1 DEF SceneInv, Ordered, Scripts
<1>5. Ready'
  <2>1. CASE mode = "stage"
    <3>1. StageReady
      BY <2>1 DEF SceneInv, Ready
    <3>2. StageReady'
      BY <1>1, <3>1 DEF StageReady, Registered, Living, map_vars, collision_vars
    <3> QED BY <1>1, <2>1, <3>2 DEF Ready
  <2>2. CASE mode = "world"
    <3>1. queue = <<>> /\ ~source /\ \A i \in Registered : parents[i] \notin live
      BY <1>1, <2>2, BuildingIn
    <3>2. \A i \in Registered' : parents'[i] \notin live'
      <4>1. \A i \in Registered : parents[i] \in Proxies /\ parents[i] # mover
        BY SceneAssumption DEF SceneInv, TypeOK, CollisionTypeOK, Registered
      <4> QED BY <1>1, <3>1, <4>1 DEF Registered, collision_vars
    <3>3. queue' = <<>> /\ ~source' /\ landed' = None
      BY <1>1, <1>2, <3>1 DEF map_vars
    <3>4. WorldReady'
      BY <3>2, <3>3 DEF WorldReady
    <3> QED BY <1>1, <2>2, <3>4 DEF Ready
  <2> QED BY <1>2, <2>1, <2>2
<1>6. Bounded' /\ StandsOnItsLayer'
  BY <1>1, <1>2 DEF SceneInv, Bounded, StandsOnItsLayer, map_vars, collision_vars
<1> QED BY <1>3, <1>4, <1>5, <1>6 DEF SceneInv

LEMMA SceneBuiltInv ==
  ASSUME SceneInv, SceneBuilt
  PROVE  SceneInv'
<1>1. /\ Building /\ Done
      /\ UNCHANGED <<map_vars, collision_vars, live, step, queue, mode, phase, landed>>
  BY DEF SceneBuilt
<1>2. mode \in {"stage", "world"} /\ Len(todo) = 1 /\ todo # <<>>
  BY <1>1, BuildingIn DEF Building, Command
<1>3. Ordered' /\ Len(todo') = 0
  BY <1>1, <1>2, CommandDone DEF SceneInv
<1>4. TypeOK'
  <2>1. mode' = mode /\ phase' = phase
    BY <1>1
  <2> QED BY <1>1 DEF SceneInv, TypeOK, MapTypeOK, CollisionTypeOK, map_vars, collision_vars
<1>5. Ready'
  <2>1. CASE mode = "stage"
    <3>1. StageReady
      BY <2>1 DEF SceneInv, Ready
    <3>2. StageReady'
      BY <1>1, <1>2, <1>3, <3>1 DEF StageReady, Registered, Living, map_vars, collision_vars
    <3> QED BY <1>1, <2>1, <3>2 DEF Ready
  <2>2. CASE mode = "world"
    <3>1. WorldReady
      BY <2>2 DEF SceneInv, Ready
    <3>2. WorldReady'
      BY <1>1, <1>2, <1>3, <3>1 DEF WorldReady, Registered, map_vars, collision_vars
    <3> QED BY <1>1, <2>2, <3>2 DEF Ready
  <2> QED BY <1>2, <2>1, <2>2
<1>6. Bounded' /\ StandsOnItsLayer'
  BY <1>1 DEF SceneInv, Bounded, StandsOnItsLayer, map_vars, collision_vars
<1> QED BY <1>3, <1>4, <1>5, <1>6 DEF SceneInv

-----------------------------------------------------------------------------
(* The rest of the frame. *)

\* What a step leaves that changes no address stays as ready as it was.
LEMMA ReadyStays ==
  ASSUME Ready, \/ ~Scripts /\ todo = <<>>
                \/ landed' = landed \/ landed' = None,
         live' \subseteq live,
         UNCHANGED <<source, player, layers, render, layouts, parents, queue, mode, todo>>
  PROVE  Ready'
<1>1. landed' = landed \/ landed' = None \/ Len(todo) = 0
  OBVIOUS
<1>2. CASE mode = "stage"
  <2>1. StageReady
    BY <1>2 DEF Ready
  <2>2. StageReady'
    <3>1. Len(todo') \in 1..3 => landed' = None
      <4>1. Len(todo) \in 1..3 => landed = None
        BY <2>1 DEF StageReady
      <4>2. Len(todo) = 0 => ~(Len(todo) \in 1..3)
        OBVIOUS
      <4> QED BY <1>1, <4>1, <4>2
    <3>2. Len(todo') < 3 =>
            \A i \in 1..Len(queue') : \E j \in 1..Len(render') :
              (render[j].node = queue[i] /\ Living(render[j].layout))'
      BY <2>1 DEF StageReady, Living
    <3>3. Len(todo') < 2 => \A i \in Registered' : Living(layouts[i])'
      BY <2>1 DEF StageReady, Registered, Living
    <3> QED BY <3>1, <3>2, <3>3 DEF StageReady
  <2> QED BY <1>2, <2>2 DEF Ready
<1>3. CASE mode = "world"
  <2>1. WorldReady
    BY <1>3 DEF Ready
  <2>2. WorldReady'
    BY <1>1, <2>1 DEF WorldReady, Registered
  <2> QED BY <1>3, <2>2 DEF Ready
<1>4. CASE mode \notin {"stage", "world"}
  BY <1>4 DEF Ready
<1> QED BY <1>2, <1>3, <1>4

\* A part of the frame that leaves the four managers alone.
LEMMA PhaseInv ==
  ASSUME SceneInv, UNCHANGED <<source, holder, player, layers, render>>,
         UNCHANGED <<collision_vars, step, queue, mode, todo, landed>>,
         live' \subseteq live, visible' \subseteq layers,
         phase' \in {"script", "tick", "motion", "map", "stages", "draw"}, todo = <<>>
  PROVE  SceneInv'
<1>1. TypeOK'
  BY DEF SceneInv, TypeOK, MapTypeOK, CollisionTypeOK, collision_vars
<1>2. Ordered'
  BY DEF SceneInv, Ordered
<1>3. Ready'
  BY ReadyStays DEF SceneInv, collision_vars
<1>4. Bounded' /\ StandsOnItsLayer'
  BY DEF SceneInv, Bounded, StandsOnItsLayer, collision_vars
<1> QED BY <1>1, <1>2, <1>3, <1>4 DEF SceneInv

\* A set of numbers that is not empty has a least one.
LEMMA LeastOf ==
  ASSUME NEW S \in SUBSET Nat, S # {}
  PROVE  Least(S) \in S /\ \A i \in S : Least(S) <= i
<1> DEFINE R == OpToRel(<, Nat)
<1>1. IsWellFoundedOn(R, Nat)
  BY NatLessThanWellFounded
<1>2. \A k, m \in Nat : k < m => <<k, m>> \in R
  BY DEF OpToRel
<1> HIDE DEF R
<1>3. PICK m \in S : \A k \in S : ~(<<k, m>> \in R)
  BY <1>1, WFMin
<1>4. \A k \in S : m <= k
  <2>1. TAKE k \in S
  <2>2. k \in Nat /\ m \in Nat /\ ~(k < m)
    BY <1>2, <1>3
  <2> QED BY <2>2
<1> QED BY <1>4 DEF Least

\* The first of a set that lies within another and holds its first is the same.
LEMMA LeastWithin ==
  ASSUME NEW S \in SUBSET Nat, NEW T \in SUBSET S, S # {}, Least(S) \in T
  PROVE  Least(T) = Least(S)
<1>1. Least(S) \in S /\ \A i \in S : Least(S) <= i
  BY LeastOf
<1>2. Least(T) \in T /\ \A i \in T : Least(T) <= i
  <2>1. T \in SUBSET Nat /\ T # {}
    OBVIOUS
  <2> QED BY <2>1, LeastOf
<1>3. Least(T) <= Least(S) /\ Least(S) <= Least(T) /\ Least(T) \in Nat /\ Least(S) \in Nat
  BY <1>1, <1>2
<1> HIDE DEF Least
<1> QED BY <1>3

\* The ends after a move belong to the layouts.
LEMMA EndsKept ==
  ASSUME SceneInv, NEW ends \in Ends, NEW seen \in SUBSET Registered
  PROVE  /\ EndsAfter(ends, seen) \in Seq(0..MaxHits)
         /\ Len(EndsAfter(ends, seen)) = Len(layouts)
         /\ \A i \in Registered :
              EndsAfter(ends, seen)[i] = IF i \in seen THEN ends[i] ELSE hit_ends[i]
<1> DEFINE after == EndsAfter(ends, seen)
           n == Len(layouts)
<1>1. n \in Nat /\ n <= Len(hit_ends) /\ hit_ends \in Seq(0..MaxHits) /\ Registered = 1..n
  BY DEF SceneInv, Bounded, TypeOK, CollisionTypeOK, Registered
<1>2. \A i \in Registered : after[i] = IF i \in seen THEN ends[i] ELSE hit_ends[i]
  BY DEF EndsAfter
<1>3. \A i \in Registered : after[i] \in 0..MaxHits
  <2>1. TAKE i \in Registered
  <2>2. ends[i] \in 0..MaxHits
    BY DEF Ends
  <2>3. i \in 1..Len(hit_ends)
    <3> HIDE DEF n
    <3> QED BY <1>1
  <2>4. hit_ends[i] \in 0..MaxHits
    BY <1>1, <2>3, ElementOfSeq
  <2> QED BY <1>2, <2>2, <2>4
<1>4. after \in [1..n -> 0..MaxHits]
  BY <1>1, <1>3 DEF EndsAfter
<1> HIDE DEF after, n
<1>5. after \in Seq(0..MaxHits) /\ Len(after) = n
  <2>1. after \in UNION {[1..k -> 0..MaxHits] : k \in Nat}
    BY <1>1, <1>4
  <2>2. after \in Seq(0..MaxHits)
    BY <1>4, <1>1, SeqDef
  <2>3. DOMAIN after = 1..n /\ DOMAIN after = 1..Len(after) /\ Len(after) \in Nat
    BY <1>4, <2>2
  <2> QED BY <1>1, <2>2, <2>3
<1> QED BY <1>2, <1>5 DEF after, n

\* A mover's step is a proxy, its own or none.
LEMMA StepKept ==
  ASSUME SceneInv, NEW ends, NEW seen \in SUBSET Registered, NEW mover \in Movers, NEW support
  PROVE  StepAfter(step[mover], support, ends, seen, live) \in Controls \cup {None}
<1> DEFINE above == {i \in Registered : support < ends[i] /\ parents[i] \in live}
<1>1. step[mover] \in Controls \cup {None}
  BY DEF SceneInv, TypeOK
<1>2. \A i \in Registered : parents[i] \in Controls
  BY DEF SceneInv, TypeOK, CollisionTypeOK, Registered, Controls
<1>3. above # {} => Least(above) \in Registered
  <2>1. above \in SUBSET Nat
    BY DEF SceneInv, TypeOK, CollisionTypeOK, Registered
  <2>2. above # {} => Least(above) \in above
    <3> HIDE DEF above
    <3> QED BY <2>1, LeastOf
  <2> QED BY <2>2
<1> HIDE DEF above
<1>4. above # {} => parents[Least(above)] \in Controls
  BY <1>2, <1>3
<1>5. StepAfter(step[mover], support, ends, seen, live) =
        IF support >= 0 /\ above # {} THEN parents[Least(above)]
        ELSE IF \E i \in seen : parents[i] = step[mover] THEN None ELSE step[mover]
  BY DEF StepAfter, above
<1> QED BY <1>1, <1>4, <1>5

\* A mover that finds the proxy of its layer alive takes that one.
LEMMA TakesItsLayer ==
  ASSUME SceneInv, NEW ends \in Ends, NEW support \in -1..MaxHits, NEW old,
         LayerOfHit(support, ends, Registered) # 0,
         parents[LayerOfHit(support, ends, Registered)] \in live
  PROVE  StepAfter(old, support, EndsAfter(ends, Registered), Registered, live)
           = parents[LayerOfHit(support, ends, Registered)]
<1> DEFINE hit == {i \in Registered : support < ends[i]}
           after == EndsAfter(ends, Registered)
           above == {i \in Registered : support < after[i] /\ parents[i] \in live}
<1>1. support >= 0 /\ hit # {} /\ LayerOfHit(support, ends, Registered) = Least(hit)
  BY DEF LayerOfHit
<1>2. hit \in SUBSET Nat
  BY DEF SceneInv, TypeOK, CollisionTypeOK, Registered
<1>3. \A i \in Registered : after[i] = ends[i]
  BY DEF EndsAfter
<1>4. above = {i \in hit : parents[i] \in live}
  BY <1>3
<1>5. Least(hit) \in hit
  <2> HIDE DEF hit
  <2> QED BY <1>1, <1>2, LeastOf
<1>6. Least(hit) \in above /\ above \in SUBSET hit
  BY <1>1, <1>4, <1>5
<1>7. Least(above) = Least(hit)
  <2> HIDE DEF hit, above
  <2> QED BY <1>1, <1>2, <1>6, LeastWithin
<1>8. StepAfter(old, support, after, Registered, live) = parents[Least(above)]
  <2>1. above # {}
    BY <1>6
  <2> QED BY <1>1, <2>1 DEF StepAfter
<1> QED BY <1>1, <1>7, <1>8

\* A move changes a step, the ends of the hits and what is remembered of them.
LEMMA MovedInv ==
  ASSUME SceneInv, ~Scripts, NEW mover \in Movers, NEW to \in Controls \cup {None},
         step' = [step EXCEPT ![mover] = to],
         hit_ends' \in Seq(0..MaxHits), Len(layouts) <= Len(hit_ends'),
         \/ landed' = None
         \/ \E proxy \in Proxies : landed' = <<mover, proxy>> /\ to = proxy,
         UNCHANGED <<map_vars, layouts, parents, live, queue, mode, todo, phase>>
  PROVE  SceneInv'
<1>1. step \in [Movers -> Controls \cup {None}] /\ todo = <<>>
  BY DEF SceneInv, TypeOK, Ordered
<1>2. step' \in [Movers -> Controls \cup {None}] /\ step'[mover] = to
  BY <1>1
<1>3. landed' \in (Movers \X Proxies) \cup {None}
  OBVIOUS
<1>4. TypeOK'
  <2>1. MapTypeOK' /\ CollisionTypeOK'
    BY DEF SceneInv, TypeOK, MapTypeOK, CollisionTypeOK, map_vars
  <2>2. Len(parents') = Len(layouts') /\ live' \subseteq Controls /\ queue' \in Seq(Nodes)
    BY DEF SceneInv, TypeOK
  <2>3. /\ mode' \in {"title", "stage", "world"}
        /\ phase' \in {"script", "tick", "motion", "map", "stages", "draw"}
    BY DEF SceneInv, TypeOK
  <2> QED BY <1>2, <1>3, <2>1, <2>2, <2>3 DEF TypeOK
<1>5. Ordered'
  BY DEF SceneInv, Ordered
<1>6. Ready'
  BY <1>1, ReadyStays DEF SceneInv, map_vars
<1>7. Bounded'
  BY DEF SceneInv, Bounded, map_vars
<1>8. StandsOnItsLayer'
  BY <1>2, MapAssumption DEF StandsOnItsLayer
<1> QED BY <1>4, <1>5, <1>6, <1>7, <1>8 DEF SceneInv

LEMMA MoveInv ==
  ASSUME SceneInv, NEW mover \in Movers, NEW ends \in Ends, NEW support \in -1..MaxHits,
         Move(mover, ends, support)
  PROVE  SceneInv'
<1> DEFINE seen == VisibleLayers
           after == EndsAfter(ends, seen)
           layer == LayerOfHit(support, ends, seen)
           to == StepAfter(step[mover], support, after, seen, live)
<1>1. seen \in SUBSET Registered /\ ~Scripts
  BY DEF VisibleLayers, Move, Moves, Scripts
<1>2. /\ hit_ends' = after /\ step' = [step EXCEPT ![mover] = to]
      /\ landed' = IF layer # 0 /\ seen = Registered /\ parents[layer] \in live
                   THEN <<mover, parents[layer]>> ELSE None
      /\ UNCHANGED <<map_vars, layouts, parents, live, queue, mode, todo, phase>>
  BY DEF Move
<1>3. after \in Seq(0..MaxHits) /\ Len(after) = Len(layouts) /\ Len(layouts) \in Nat
  BY <1>1, EndsKept DEF SceneInv, TypeOK, CollisionTypeOK
<1>4. to \in Controls \cup {None}
  BY <1>1, StepKept
<1>5. layer # 0 /\ seen = Registered /\ parents[layer] \in live =>
        to = parents[layer] /\ parents[layer] \in Proxies
  <2> SUFFICES ASSUME layer # 0, seen = Registered, parents[layer] \in live
               PROVE  to = parents[layer] /\ parents[layer] \in Proxies
    OBVIOUS
  <2>1. to = parents[layer]
    BY TakesItsLayer
  <2>2. layer \in Registered
    <3> DEFINE hit == {i \in Registered : support < ends[i]}
    <3>1. hit # {} /\ layer = Least(hit) /\ hit \in SUBSET Nat
      BY DEF LayerOfHit, SceneInv, TypeOK, CollisionTypeOK, Registered
    <3>2. Least(hit) \in hit
      <4> HIDE DEF hit
      <4> QED BY <3>1, LeastOf
    <3> QED BY <3>1, <3>2
  <2>3. \A i \in Registered : parents[i] \in Proxies
    BY DEF SceneInv, TypeOK, CollisionTypeOK, Registered
  <2> QED BY <2>1, <2>2, <2>3
<1> HIDE DEF seen, after, layer, to
<1>6. \/ landed' = None
      \/ \E proxy \in Proxies : landed' = <<mover, proxy>> /\ to = proxy
  BY <1>2, <1>5
<1>7. hit_ends' \in Seq(0..MaxHits) /\ Len(layouts) <= Len(hit_ends')
  BY <1>2, <1>3
<1> QED BY <1>1, <1>2, <1>4, <1>6, <1>7, MovedInv

LEMMA MoveFailsInv ==
  ASSUME SceneInv, NEW mover \in Movers, NEW ends \in Ends, NEW failing \in Registered,
         MoveFails(mover, ends, failing)
  PROVE  SceneInv'
<1> DEFINE seen == {i \in VisibleLayers : i < failing}
           to == StepAfter(step[mover], -1, ends, seen, live)
<1>1. seen \in SUBSET Registered /\ ~Scripts
  BY DEF VisibleLayers, MoveFails, Moves, Scripts
<1>2. /\ hit_ends' = EndsAfter(ends, seen) /\ step' = [step EXCEPT ![mover] = to] /\ landed' = None
      /\ UNCHANGED <<map_vars, layouts, parents, live, queue, mode, todo, phase>>
  BY DEF MoveFails
<1>3. /\ EndsAfter(ends, seen) \in Seq(0..MaxHits) /\ Len(EndsAfter(ends, seen)) = Len(layouts)
      /\ Len(layouts) \in Nat
  BY <1>1, EndsKept DEF SceneInv, TypeOK, CollisionTypeOK
<1>4. to \in Controls \cup {None}
  BY <1>1, StepKept
<1> HIDE DEF seen, to
<1>5. hit_ends' \in Seq(0..MaxHits) /\ Len(layouts) <= Len(hit_ends')
  BY <1>2, <1>3
<1> QED BY <1>1, <1>2, <1>4, <1>5, MovedInv

LEMMA SetStepInv ==
  ASSUME SceneInv, NEW mover \in Movers, NEW parent \in Controls \cup {None},
         SetStep(mover, parent)
  PROVE  SceneInv'
<1>1. ~Scripts /\ step' = [step EXCEPT ![mover] = parent] /\ landed' = None
  BY DEF SetStep, Scripts
<1>2. UNCHANGED <<map_vars, layouts, parents, hit_ends, live, queue, mode, todo, phase>>
  BY DEF SetStep, collision_vars
<1>3. hit_ends' \in Seq(0..MaxHits) /\ Len(layouts) <= Len(hit_ends')
  BY <1>2 DEF SceneInv, Bounded, TypeOK, CollisionTypeOK
<1> QED BY <1>1, <1>2, <1>3, MovedInv

-----------------------------------------------------------------------------
(* The theorems. *)

LEMMA SceneInvHolds == Spec => []SceneInv
<1>1. Init => SceneInv
  <2> SUFFICES ASSUME Init PROVE SceneInv
    OBVIOUS
  <2>1. TypeOK
    <3>1. MapTypeOK
      <4>1. source = FALSE /\ holder = FALSE /\ player = None /\ layers = {} /\ visible = {}
        BY DEF Init, MapInit
      <4>2. render \in Seq(Node)
        BY DEF Init, MapInit
      <4> QED BY <4>1, <4>2 DEF MapTypeOK
    <3>2. CollisionTypeOK /\ Len(parents) = Len(layouts)
      BY DEF Init, CollisionInit, CollisionTypeOK
    <3>3. step \in [Movers -> Controls \cup {None}] /\ queue \in Seq(Nodes)
      BY DEF Init
    <3> QED BY <3>1, <3>2, <3>3 DEF Init, TypeOK
  <2>2. Ordered
    BY DEF Init, Ordered
  <2>3. Ready
    BY DEF Init, CollisionInit, Ready
  <2>4. Bounded /\ StandsOnItsLayer
    BY DEF Init, MapInit, CollisionInit, Bounded, StandsOnItsLayer
  <2> QED BY <2>1, <2>2, <2>3, <2>4 DEF SceneInv
<1>2. SceneInv /\ [Next]_vars => SceneInv'
  <2> SUFFICES ASSUME SceneInv, [Next]_vars PROVE SceneInv'
    OBVIOUS
  <2>1. CASE SceneChange
    <3>1. ASSUME NEW load \in BOOLEAN, EnterStage(load) PROVE SceneInv'
      BY <3>1, EnterStageInv
    <3>2. CASE EnterWorld
      BY <3>2, EnterWorldInv
    <3>3. CASE LoadMap
      BY <3>3, LoadMapInv
    <3>4. CASE ReleaseMap
      BY <3>4, ReleaseMapInv
    <3>5. CASE ClearActor
      BY <3>5, ClearActorInv
    <3>6. CASE ClearRenderLayer
      BY <3>6, ClearRenderLayerInv
    <3>7. CASE ClearCollision
      BY <3>7, ClearCollisionInv
    <3>8. ASSUME NEW layer \in Layers, NEW node \in Nodes, CreateRenderLayer(layer, node)
          PROVE  SceneInv'
      BY <3>8, CreateRenderLayerInv
    <3>9. ASSUME NEW layer \in Layers, NEW proxy \in Proxies, CreateCollision(layer, proxy)
          PROVE  SceneInv'
      BY <3>9, CreateCollisionInv
    <3>10. ASSUME NEW mover \in Movers, CreateActor(mover) PROVE SceneInv'
      BY <3>10, CreateActorInv
    <3>11. CASE SceneBuilt
      BY <3>11, SceneBuiltInv
    <3> QED BY <2>1, <3>1, <3>2, <3>3, <3>4, <3>5, <3>6, <3>7, <3>8, <3>9, <3>10, <3>11
            DEF SceneChange
  <2>2. CASE Frame
    <3>1. ASSUME NEW updates_actors \in BOOLEAN, CallbackReturns(updates_actors) PROVE SceneInv'
      <4>1. visible \subseteq layers /\ todo = <<>>
        BY <3>1 DEF SceneInv, TypeOK, MapTypeOK, CallbackReturns
      <4> QED BY <3>1, <4>1, PhaseInv DEF CallbackReturns, map_vars
    <3>2. CASE ActorsRetired
      <4>1. visible \subseteq layers /\ todo = <<>>
        BY <3>2 DEF SceneInv, TypeOK, MapTypeOK, Ordered, Scripts, ActorsRetired
      <4> QED BY <3>2, <4>1, PhaseInv DEF ActorsRetired, map_vars
    <3>3. CASE RefreshCollision
      <4>1. visible \subseteq layers /\ todo = <<>>
        BY <3>3 DEF SceneInv, TypeOK, MapTypeOK, Ordered, Scripts, RefreshCollision
      <4> QED BY <3>3, <4>1, PhaseInv DEF RefreshCollision, map_vars
    <3>4. ASSUME NEW mover \in Movers, NEW ends \in Ends, NEW support \in -1..MaxHits,
                 Move(mover, ends, support)
          PROVE  SceneInv'
      BY <3>4, MoveInv
    <3>5. ASSUME NEW mover \in Movers, NEW ends \in Ends, NEW failing \in Registered,
                 MoveFails(mover, ends, failing)
          PROVE  SceneInv'
      BY <3>5, MoveFailsInv
    <3>6. ASSUME NEW mover \in Movers, NEW parent \in Controls \cup {None}, SetStep(mover, parent)
          PROVE  SceneInv'
      BY <3>6, SetStepInv
    <3>7. CASE MotionEnds
      <4>1. visible \subseteq layers /\ todo = <<>>
        BY <3>7 DEF SceneInv, TypeOK, MapTypeOK, Ordered, Scripts, MotionEnds
      <4> QED BY <3>7, <4>1, PhaseInv DEF MotionEnds, map_vars
    <3>8. CASE UpdateMap
      <4>1. visible \subseteq layers /\ todo = <<>>
        BY <3>8 DEF SceneInv, TypeOK, MapTypeOK, Ordered, Scripts, UpdateMap
      <4>2. visible' \subseteq layers
        BY <3>8, <4>1 DEF UpdateMap, MapUpdate, map_vars
      <4>3. UNCHANGED <<source, holder, player, layers, render>>
        BY <3>8 DEF UpdateMap, MapUpdate, map_vars
      <4> QED BY <3>8, <4>1, <4>2, <4>3, PhaseInv DEF UpdateMap
    <3>9. CASE StagesUpdated
      <4>1. visible \subseteq layers /\ todo = <<>>
        BY <3>9 DEF SceneInv, TypeOK, MapTypeOK, StagesUpdated
      <4> QED BY <3>9, <4>1, PhaseInv DEF StagesUpdated, map_vars
    <3>10. CASE Draw
      <4>1. visible \subseteq layers /\ todo = <<>>
        BY <3>10 DEF SceneInv, TypeOK, MapTypeOK, Ordered, Scripts, Draw
      <4> QED BY <3>10, <4>1, PhaseInv DEF Draw, map_vars
    <3> QED BY <2>2, <3>1, <3>2, <3>3, <3>4, <3>5, <3>6, <3>7, <3>8, <3>9, <3>10 DEF Frame
  <2>3. CASE UNCHANGED vars
    <3>1. UNCHANGED <<source, holder, player, layers, visible, render>>
      BY <2>3 DEF vars, map_vars
    <3>2. UNCHANGED <<layouts, parents, hit_ends>>
      BY <2>3 DEF vars, collision_vars
    <3>3. UNCHANGED <<live, step, queue, mode, todo, phase, landed>>
      BY <2>3 DEF vars, scene_vars
    <3>4. TypeOK'
      BY <3>1, <3>2, <3>3 DEF SceneInv, TypeOK, MapTypeOK, CollisionTypeOK
    <3>5. Ordered'
      BY <3>3 DEF SceneInv, Ordered, Scripts
    <3>6. Ready'
      BY <3>1, <3>2, <3>3, ReadyStays DEF SceneInv
    <3>7. Bounded' /\ StandsOnItsLayer'
      BY <3>1, <3>2, <3>3 DEF SceneInv, Bounded, StandsOnItsLayer
    <3> QED BY <3>4, <3>5, <3>6, <3>7 DEF SceneInv
  <2> QED BY <2>1, <2>2, <2>3 DEF Next
<1> QED BY <1>1, <1>2, PTL DEF Spec

\* Every variable has its type, whatever the addresses, layers and actors.
THEOREM SceneTypeCorrect == Spec => []TypeOK
<1>1. SceneInv => TypeOK
  BY DEF SceneInv
<1> QED BY <1>1, SceneInvHolds, PTL

\* Drawing in kinoko_game_draw reaches only nodes the map still has, over
\* layouts whose runtime is still there, whatever scenes came before.
THEOREM SceneDrawnAreAlive == Spec => []DrawnAreAlive
<1>1. SceneInv => DrawnAreAlive
  <2> SUFFICES ASSUME SceneInv, phase = "draw"
               PROVE  \A i \in 1..Len(queue) : \E j \in 1..Len(render) :
                        render[j].node = queue[i] /\ Living(render[j].layout)
    BY DEF DrawnAreAlive
  <2>1. todo = <<>> /\ mode \in {"title", "stage", "world"}
    BY DEF SceneInv, Ordered, TypeOK, Scripts
  <2>2. CASE mode = "stage"
    <3>1. StageReady
      BY <2>2 DEF SceneInv, Ready
    <3> QED BY <2>1, <3>1 DEF StageReady
  <2>3. CASE mode = "title" \/ mode = "world"
    <3>1. queue = <<>>
      BY <2>1, <2>3 DEF SceneInv, Ready, WorldReady
    <3> QED BY <3>1
  <2> QED BY <2>1, <2>2, <2>3
<1> QED BY <1>1, SceneInvHolds, PTL

\* When no actor of the world map moves over map chips, neither the refresh of
\* collision nor a move reads a layout of a map that is gone.
THEOREM SceneCollisionReadsLiving ==
  ASSUME WorldMovers = FALSE
  PROVE  Spec => []CollisionReadsLiving
<1>1. SceneInv => CollisionReadsLiving
  <2> SUFFICES ASSUME SceneInv, ~Scripts
               PROVE  /\ \A l \in RefreshReads(live) : Living(l)
                      /\ \A mover \in Movers : Moves(mover) =>
                           \A i \in Registered : Living(layouts[i])
    BY DEF CollisionReadsLiving, Moves, Scripts
  <2>1. todo = <<>> /\ mode \in {"title", "stage", "world"}
    BY DEF SceneInv, Ordered, TypeOK, Scripts
  <2>2. mode = "stage" => \A i \in Registered : Living(layouts[i])
    <3> SUFFICES ASSUME mode = "stage" PROVE \A i \in Registered : Living(layouts[i])
      OBVIOUS
    <3>1. StageReady
      BY DEF SceneInv, Ready
    <3> QED BY <2>1, <3>1 DEF StageReady
  <2>3. mode = "world" => \A i \in Registered : parents[i] \notin live
    <3> SUFFICES ASSUME mode = "world" PROVE \A i \in Registered : parents[i] \notin live
      OBVIOUS
    <3>1. WorldReady
      BY DEF SceneInv, Ready
    <3> QED BY <2>1, <3>1 DEF WorldReady
  <2>4. mode = "title" => Registered = {}
    BY DEF SceneInv, Ready, Registered
  <2>5. \A l \in RefreshReads(live) : Living(l)
    BY <2>1, <2>2, <2>3, <2>4 DEF RefreshReads
  <2>6. \A mover \in Movers : Moves(mover) => mode = "stage"
    BY DEF Moves
  <2> QED BY <2>2, <2>5, <2>6
<1> QED BY <1>1, SceneInvHolds, PTL

\* After kinoko_collision_move_actor over layers that are all visible, the
\* mover stands on the proxy of the layer its support belongs to.
THEOREM SceneStandsOnItsLayer == Spec => []StandsOnItsLayer
<1>1. SceneInv => StandsOnItsLayer
  BY DEF SceneInv
<1> QED BY <1>1, SceneInvHolds, PTL
=============================================================================
