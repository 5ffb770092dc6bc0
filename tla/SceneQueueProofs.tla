-------------------------- MODULE SceneQueueProofs --------------------------
(***************************************************************************)
(* For any set of scenes, whichever threads start: no scene is lost or     *)
(* destroyed twice, and the threads together implement SceneLife.          *)
(*                                                                         *)
(* That a place is free when a scene comes to it is decided elsewhere: the *)
(* pending slot by the game thread, which asks for no scene while it       *)
(* changes scenes, and the current slot at the end by the joins of the     *)
(* main thread.  Control holds what each thread may count on; with it,     *)
(* ScenesAccounted is inductive.                                           *)
(***************************************************************************)
EXTENDS SceneQueue, SequenceTheorems, TLAPS

\* Before initialize.
Fresh ==
  /\ changing
  /\ game_pc = "off" /\ load_pc = "off" /\ retire_pc = "off"
  /\ scene = NoScene /\ pending = NoScene /\ previous = NoScene /\ created = NoScene
  /\ retired = <<>> /\ drawn = NoScene
  /\ born = {} /\ destroyed = {}

\* Behind the joins of the main thread.
Joined == {"drain", "pop", "scene", "pending", "down"}

Control ==
  /\ main_pc = "start" => Fresh
  /\ previous # NoScene <=> game_pc = "leave"
  /\ created # NoScene => load_pc = "publish"
  /\ load_pc \in {"create", "publish"} => pending = NoScene /\ changing /\ game_pc \in {"update", "done"}
  /\ ~changing => pending = NoScene
  /\ game_pc \in {"leave", "signal", "enter"} => changing /\ pending = NoScene
  /\ main_pc \in {"join_load", "join_retire"} \cup Joined => game_pc \in {"off", "done"}
  /\ main_pc \in {"join_retire"} \cup Joined => load_pc \in {"off", "done"}
  /\ main_pc \in Joined => retire_pc \in {"off", "done"} /\ drawn = NoScene
  /\ main_pc \in {"scene", "pending", "down"} => retired = <<>>
  /\ main_pc \in {"pending", "down"} => scene = NoScene
  /\ main_pc = "down" => pending = NoScene
  /\ Popping => retired # <<>>

ScenesInv == ScenesTypeOK /\ Control /\ ScenesAccounted

\* The steps that move no scene.
Aside ==
  \/ RequestScene \/ QuitGame \/ SignalRetired \/ EnterScene \/ GameEnds
  \/ LoadFails
  \/ RetireLoops \/ RetireWakes \/ RetireIsEmpty
  \/ LoopEnds \/ StopScenes \/ JoinGame \/ JoinLoad \/ JoinRetire \/ MainIsEmpty
-----------------------------------------------------------------------------
(* The retired list, as a sequence without repetitions. *)

Elems(r) == {r[i] : i \in 1..Len(r)}
Distinct(r) == \A i, j \in 1..Len(r) : r[i] = r[j] => i = j

\* Appending what is not listed.
LEMMA AppendListed ==
  ASSUME NEW S, NEW r \in Seq(S), NEW x \in S, Distinct(r), x \notin Elems(r)
  PROVE  /\ Append(r, x) \in Seq(S)
         /\ Elems(Append(r, x)) = Elems(r) \cup {x}
         /\ Distinct(Append(r, x))
         /\ r # <<>> => Head(Append(r, x)) = Head(r)
  <1>1. /\ Append(r, x) \in Seq(S)
        /\ Len(Append(r, x)) = Len(r) + 1
        /\ \A i \in 1..Len(r) : Append(r, x)[i] = r[i]
        /\ Append(r, x)[Len(r) + 1] = x
        /\ Len(r) \in Nat
    BY AppendProperties
  <1>2. Elems(Append(r, x)) = Elems(r) \cup {x}
    BY <1>1 DEF Elems
  <1>3. Distinct(Append(r, x))
    <2> SUFFICES ASSUME NEW i \in 1..(Len(r) + 1), NEW j \in 1..(Len(r) + 1),
                        Append(r, x)[i] = Append(r, x)[j]
                 PROVE  i = j
      BY <1>1 DEF Distinct
    <2>1. CASE i \in 1..Len(r) /\ j \in 1..Len(r)
      BY <1>1, <2>1 DEF Distinct
    <2>2. CASE i \in 1..Len(r) /\ j = Len(r) + 1
      BY <1>1, <2>2 DEF Elems
    <2>3. CASE i = Len(r) + 1 /\ j \in 1..Len(r)
      BY <1>1, <2>3 DEF Elems
    <2>4. CASE i = Len(r) + 1 /\ j = Len(r) + 1
      BY <2>4
    <2> QED BY <1>1, <2>1, <2>2, <2>3, <2>4
  <1>4. ASSUME r # <<>> PROVE Head(Append(r, x)) = Head(r)
    <2>1. 1 \in 1..Len(r)
      BY <1>1, <1>4, EmptySeq
    <2> QED BY <1>1, <2>1
  <1> QED BY <1>1, <1>2, <1>3, <1>4

\* Taking off the front.
LEMMA TailListed ==
  ASSUME NEW S, NEW r \in Seq(S), r # <<>>, Distinct(r)
  PROVE  /\ Tail(r) \in Seq(S)
         /\ Elems(Tail(r)) = Elems(r) \ {Head(r)}
         /\ Distinct(Tail(r))
         /\ Head(r) \in Elems(r)
         /\ Head(r) \in S
  <1>1. /\ Tail(r) \in Seq(S)
        /\ Len(Tail(r)) = Len(r) - 1
        /\ \A i \in 1..Len(Tail(r)) : Tail(r)[i] = r[i + 1]
        /\ Len(r) \in Nat /\ Len(r) > 0
        /\ Head(r) = r[1]
        /\ Head(r) \in S
    BY HeadTailProperties, EmptySeq
  <1>2. Elems(Tail(r)) \subseteq Elems(r) \ {Head(r)}
    BY <1>1 DEF Elems, Distinct
  <1>3. Elems(r) \ {Head(r)} \subseteq Elems(Tail(r))
    <2> SUFFICES ASSUME NEW i \in 1..Len(r), r[i] # Head(r)
                 PROVE  r[i] \in Elems(Tail(r))
      BY DEF Elems
    <2>1. i - 1 \in 1..Len(Tail(r))
      BY <1>1
    <2>2. Tail(r)[i - 1] = r[i]
      BY <1>1, <2>1
    <2> QED BY <2>1, <2>2 DEF Elems
  <1>4. Distinct(Tail(r))
    BY <1>1 DEF Distinct
  <1>5. Head(r) \in Elems(r)
    BY <1>1 DEF Elems
  <1> QED BY <1>1, <1>2, <1>3, <1>4, <1>5
-----------------------------------------------------------------------------
(* The invariant, action by action. *)

\* The invariant holds at first.
LEMMA ScenesInvInit == ScenesInit => ScenesInv
  <1> SUFFICES ASSUME ScenesInit PROVE ScenesInv
    OBVIOUS
  <1> USE SceneQueueAssumption DEF ScenesInit
  <1>1. ScenesTypeOK
    BY EmptySeq DEF ScenesTypeOK
  <1>2. Control
    BY DEF Control, Fresh, Joined, Popping
  <1>3. Held = {} /\ Listed = {}
    BY DEF Held, Listed
  <1>4. ScenesAccounted
    BY <1>3 DEF ScenesAccounted, Popping
  <1> QED BY <1>1, <1>2, <1>4 DEF ScenesInv

\* A step that moves no scene leaves every account as it is.
LEMMA UnmovedAccounted ==
  ASSUME ScenesAccounted, UNCHANGED holders, UNCHANGED history, drawn' \in {drawn, scene, NoScene},
         Popping' <=> Popping, main_pc' # "down"
  PROVE  ScenesAccounted'
  BY DEF ScenesAccounted, holders, history, Held, Listed

\* RequestScene keeps the invariant.
LEMMA RequestSceneKeeps == ScenesInv /\ RequestScene => ScenesInv'
  <1> SUFFICES ASSUME ScenesInv, RequestScene PROVE ScenesInv'
    OBVIOUS
  <1>1. ScenesTypeOK'
    BY DEF ScenesInv, ScenesTypeOK, RequestScene, holders, history, threads
  <1>2. Control'
    BY DEF ScenesInv, ScenesTypeOK, Control, Fresh, Joined, Popping, Unlocked, RequestScene, holders, history, threads
  <1>3. ScenesAccounted'
    BY UnmovedAccounted DEF ScenesInv, Control, Joined, Popping, RequestScene, holders, history, threads
  <1> QED BY <1>1, <1>2, <1>3 DEF ScenesInv

\* QuitGame keeps the invariant.
LEMMA QuitGameKeeps == ScenesInv /\ QuitGame => ScenesInv'
  <1> SUFFICES ASSUME ScenesInv, QuitGame PROVE ScenesInv'
    OBVIOUS
  <1>1. ScenesTypeOK'
    <2>1. running' \in BOOLEAN /\ changing' \in BOOLEAN
      BY Zenon DEF QuitGame
    <2>2. UNCHANGED <<holders, signalled, drawn, threads, history>>
      BY DEF QuitGame
    <2> QED BY <2>1, <2>2 DEF ScenesInv, ScenesTypeOK, holders, history, threads
  <1>2. Control'
    BY DEF ScenesInv, ScenesTypeOK, Control, Fresh, Joined, Popping, Unlocked, QuitGame, holders, history, threads
  <1>3. ScenesAccounted'
    BY UnmovedAccounted DEF ScenesInv, Control, Joined, Popping, QuitGame, holders, history, threads
  <1> QED BY <1>1, <1>2, <1>3 DEF ScenesInv

\* SignalRetired keeps the invariant.
LEMMA SignalRetiredKeeps == ScenesInv /\ SignalRetired => ScenesInv'
  <1> SUFFICES ASSUME ScenesInv, SignalRetired PROVE ScenesInv'
    OBVIOUS
  <1>1. ScenesTypeOK'
    BY DEF ScenesInv, ScenesTypeOK, SignalRetired, holders, history, threads
  <1>2. Control'
    BY DEF ScenesInv, ScenesTypeOK, Control, Fresh, Joined, Popping, Unlocked, SignalRetired, holders, history, threads
  <1>3. ScenesAccounted'
    BY UnmovedAccounted DEF ScenesInv, Control, Joined, Popping, SignalRetired, holders, history, threads
  <1> QED BY <1>1, <1>2, <1>3 DEF ScenesInv

\* EnterScene keeps the invariant.
LEMMA EnterSceneKeeps == ScenesInv /\ EnterScene => ScenesInv'
  <1> SUFFICES ASSUME ScenesInv, EnterScene PROVE ScenesInv'
    OBVIOUS
  <1>1. ScenesTypeOK'
    <2>1. changing' \in BOOLEAN
      BY Zenon DEF EnterScene
    <2>2. UNCHANGED <<running, holders, signalled, drawn, load_pc, retire_pc, main_pc, history>> /\ game_pc' = "update"
      BY DEF EnterScene, threads
    <2> QED BY <2>1, <2>2 DEF ScenesInv, ScenesTypeOK, holders, history, threads
  <1>2. Control'
    BY DEF ScenesInv, ScenesTypeOK, Control, Fresh, Joined, Popping, Unlocked, EnterScene, holders, history, threads
  <1>3. ScenesAccounted'
    BY UnmovedAccounted DEF ScenesInv, Control, Joined, Popping, EnterScene, holders, history, threads
  <1> QED BY <1>1, <1>2, <1>3 DEF ScenesInv

\* GameEnds keeps the invariant.
LEMMA GameEndsKeeps == ScenesInv /\ GameEnds => ScenesInv'
  <1> SUFFICES ASSUME ScenesInv, GameEnds PROVE ScenesInv'
    OBVIOUS
  <1>1. ScenesTypeOK'
    BY DEF ScenesInv, ScenesTypeOK, GameEnds, holders, history, threads
  <1>2. Control'
    BY DEF ScenesInv, ScenesTypeOK, Control, Fresh, Joined, Popping, Unlocked, GameEnds, holders, history, threads
  <1>3. ScenesAccounted'
    BY UnmovedAccounted DEF ScenesInv, Control, Joined, Popping, GameEnds, holders, history, threads
  <1> QED BY <1>1, <1>2, <1>3 DEF ScenesInv

\* LoadFails keeps the invariant.
LEMMA LoadFailsKeeps == ScenesInv /\ LoadFails => ScenesInv'
  <1> SUFFICES ASSUME ScenesInv, LoadFails PROVE ScenesInv'
    OBVIOUS
  <1>1. ScenesTypeOK'
    BY DEF ScenesInv, ScenesTypeOK, LoadFails, holders, history, threads
  <1>2. Control'
    BY DEF ScenesInv, ScenesTypeOK, Control, Fresh, Joined, Popping, Unlocked, LoadFails, holders, history, threads
  <1>3. ScenesAccounted'
    BY UnmovedAccounted DEF ScenesInv, Control, Joined, Popping, LoadFails, holders, history, threads
  <1> QED BY <1>1, <1>2, <1>3 DEF ScenesInv

\* RetireLoops keeps the invariant.
LEMMA RetireLoopsKeeps == ScenesInv /\ RetireLoops => ScenesInv'
  <1> SUFFICES ASSUME ScenesInv, RetireLoops PROVE ScenesInv'
    OBVIOUS
  <1>1. ScenesTypeOK'
    BY DEF ScenesInv, ScenesTypeOK, RetireLoops, holders, history, threads
  <1>2. Control'
    BY DEF ScenesInv, ScenesTypeOK, Control, Fresh, Joined, Popping, Unlocked, RetireLoops, holders, history, threads
  <1>3. ScenesAccounted'
    BY UnmovedAccounted DEF ScenesInv, Control, Joined, Popping, RetireLoops, holders, history, threads
  <1> QED BY <1>1, <1>2, <1>3 DEF ScenesInv

\* RetireWakes keeps the invariant.
LEMMA RetireWakesKeeps == ScenesInv /\ RetireWakes => ScenesInv'
  <1> SUFFICES ASSUME ScenesInv, RetireWakes PROVE ScenesInv'
    OBVIOUS
  <1>1. ScenesTypeOK'
    <2>1. signalled' \in BOOLEAN
      BY Zenon DEF RetireWakes
    <2>2. UNCHANGED <<running, changing, holders, drawn, game_pc, load_pc, main_pc, history>> /\ retire_pc' = "drain"
      BY DEF RetireWakes, threads
    <2> QED BY <2>1, <2>2 DEF ScenesInv, ScenesTypeOK, holders, history, threads
  <1>2. Control'
    BY DEF ScenesInv, ScenesTypeOK, Control, Fresh, Joined, Popping, Unlocked, RetireWakes, holders, history, threads
  <1>3. ScenesAccounted'
    BY UnmovedAccounted DEF ScenesInv, Control, Joined, Popping, RetireWakes, holders, history, threads
  <1> QED BY <1>1, <1>2, <1>3 DEF ScenesInv

\* RetireIsEmpty keeps the invariant.
LEMMA RetireIsEmptyKeeps == ScenesInv /\ RetireIsEmpty => ScenesInv'
  <1> SUFFICES ASSUME ScenesInv, RetireIsEmpty PROVE ScenesInv'
    OBVIOUS
  <1>1. ScenesTypeOK'
    BY DEF ScenesInv, ScenesTypeOK, RetireIsEmpty, holders, history, threads
  <1>2. Control'
    BY DEF ScenesInv, ScenesTypeOK, Control, Fresh, Joined, Popping, Unlocked, RetireIsEmpty, holders, history, threads
  <1>3. ScenesAccounted'
    BY UnmovedAccounted DEF ScenesInv, Control, Joined, Popping, RetireIsEmpty, holders, history, threads
  <1> QED BY <1>1, <1>2, <1>3 DEF ScenesInv

\* LoopEnds keeps the invariant.
LEMMA LoopEndsKeeps == ScenesInv /\ LoopEnds => ScenesInv'
  <1> SUFFICES ASSUME ScenesInv, LoopEnds PROVE ScenesInv'
    OBVIOUS
  <1>1. ScenesTypeOK'
    BY DEF ScenesInv, ScenesTypeOK, LoopEnds, holders, history, threads
  <1>2. Control'
    BY DEF ScenesInv, ScenesTypeOK, Control, Fresh, Joined, Popping, Unlocked, LoopEnds, holders, history, threads
  <1>3. ScenesAccounted'
    BY UnmovedAccounted DEF ScenesInv, Control, Joined, Popping, LoopEnds, holders, history, threads
  <1> QED BY <1>1, <1>2, <1>3 DEF ScenesInv

\* StopScenes keeps the invariant.
LEMMA StopScenesKeeps == ScenesInv /\ StopScenes => ScenesInv'
  <1> SUFFICES ASSUME ScenesInv, StopScenes PROVE ScenesInv'
    OBVIOUS
  <1>1. ScenesTypeOK'
    <2>1. running' \in BOOLEAN
      BY Zenon DEF StopScenes
    <2>2. UNCHANGED <<changing, holders, signalled, drawn, game_pc, load_pc, retire_pc, history>> /\ main_pc' = "join_game"
      BY DEF StopScenes, threads
    <2> QED BY <2>1, <2>2 DEF ScenesInv, ScenesTypeOK, holders, history, threads
  <1>2. Control'
    BY DEF ScenesInv, ScenesTypeOK, Control, Fresh, Joined, Popping, Unlocked, StopScenes, holders, history, threads
  <1>3. ScenesAccounted'
    BY UnmovedAccounted DEF ScenesInv, Control, Joined, Popping, StopScenes, holders, history, threads
  <1> QED BY <1>1, <1>2, <1>3 DEF ScenesInv

\* JoinGame keeps the invariant.
LEMMA JoinGameKeeps == ScenesInv /\ JoinGame => ScenesInv'
  <1> SUFFICES ASSUME ScenesInv, JoinGame PROVE ScenesInv'
    OBVIOUS
  <1>1. ScenesTypeOK'
    BY DEF ScenesInv, ScenesTypeOK, JoinGame, holders, history, threads
  <1>2. Control'
    BY DEF ScenesInv, ScenesTypeOK, Control, Fresh, Joined, Popping, Unlocked, JoinGame, holders, history, threads
  <1>3. ScenesAccounted'
    BY UnmovedAccounted DEF ScenesInv, Control, Joined, Popping, JoinGame, holders, history, threads
  <1> QED BY <1>1, <1>2, <1>3 DEF ScenesInv

\* JoinLoad keeps the invariant.
LEMMA JoinLoadKeeps == ScenesInv /\ JoinLoad => ScenesInv'
  <1> SUFFICES ASSUME ScenesInv, JoinLoad PROVE ScenesInv'
    OBVIOUS
  <1>1. ScenesTypeOK'
    BY DEF ScenesInv, ScenesTypeOK, JoinLoad, holders, history, threads
  <1>2. Control'
    BY DEF ScenesInv, ScenesTypeOK, Control, Fresh, Joined, Popping, Unlocked, JoinLoad, holders, history, threads
  <1>3. ScenesAccounted'
    BY UnmovedAccounted DEF ScenesInv, Control, Joined, Popping, JoinLoad, holders, history, threads
  <1> QED BY <1>1, <1>2, <1>3 DEF ScenesInv

\* JoinRetire keeps the invariant.
LEMMA JoinRetireKeeps == ScenesInv /\ JoinRetire => ScenesInv'
  <1> SUFFICES ASSUME ScenesInv, JoinRetire PROVE ScenesInv'
    OBVIOUS
  <1>1. ScenesTypeOK'
    BY DEF ScenesInv, ScenesTypeOK, JoinRetire, holders, history, threads
  <1>2. Control'
    BY DEF ScenesInv, ScenesTypeOK, Control, Fresh, Joined, Popping, Unlocked, JoinRetire, holders, history, threads
  <1>3. ScenesAccounted'
    BY UnmovedAccounted DEF ScenesInv, Control, Joined, Popping, JoinRetire, holders, history, threads
  <1> QED BY <1>1, <1>2, <1>3 DEF ScenesInv

\* MainIsEmpty keeps the invariant.
LEMMA MainIsEmptyKeeps == ScenesInv /\ MainIsEmpty => ScenesInv'
  <1> SUFFICES ASSUME ScenesInv, MainIsEmpty PROVE ScenesInv'
    OBVIOUS
  <1>1. ScenesTypeOK'
    BY DEF ScenesInv, ScenesTypeOK, MainIsEmpty, holders, history, threads
  <1>2. Control'
    BY DEF ScenesInv, ScenesTypeOK, Control, Fresh, Joined, Popping, Unlocked, MainIsEmpty, holders, history, threads
  <1>3. ScenesAccounted'
    BY UnmovedAccounted DEF ScenesInv, Control, Joined, Popping, MainIsEmpty, holders, history, threads
  <1> QED BY <1>1, <1>2, <1>3 DEF ScenesInv

\* What the invariant says of the places.
LEMMA PlacesFacts ==
  ASSUME ScenesInv
  PROVE  /\ Listed = Elems(retired) /\ Distinct(retired) /\ retired \in Seq(Scenes)
         /\ Held \subseteq Scenes /\ Listed \subseteq Scenes
         /\ Held \cap destroyed = {}
         /\ retired # <<>> => Head(retired) \in Listed /\ Head(retired) \in Scenes
  <1>1. Listed = Elems(retired) /\ Distinct(retired) /\ retired \in Seq(Scenes)
    BY DEF ScenesInv, ScenesTypeOK, ScenesAccounted, Listed, Elems, Distinct
  <1>2. Held \subseteq Scenes
    BY DEF ScenesInv, ScenesTypeOK, Held
  <1>3. Listed \subseteq Scenes
    BY <1>1, ElementOfSeq DEF Elems
  <1>4. retired # <<>> => Head(retired) \in Listed /\ Head(retired) \in Scenes
    BY <1>1, TailListed
  <1>5. Popping => retired # <<>>
    BY DEF ScenesInv, Control
  <1>6. Held \cap destroyed = {}
    BY <1>4, <1>5 DEF ScenesInv, ScenesAccounted
  <1> QED BY <1>1, <1>2, <1>3, <1>4, <1>6

\* StartScenes keeps the invariant.
LEMMA StartScenesKeeps ==
  ASSUME ScenesInv, NEW s \in Creation, NEW game \in {"update", "done", "off"},
         NEW retire \in {"top", "done", "off"}, StartScenes(s, game, retire)
  PROVE  ScenesInv'
  <1>0. Fresh /\ s \in Scenes \cup {NoScene}
    BY DEF ScenesInv, Control, StartScenes, Creation
  <1>1. ScenesTypeOK'
    BY <1>0 DEF ScenesInv, ScenesTypeOK, StartScenes, Fresh, Born
  <1>2. Control'
    BY <1>0 DEF ScenesInv, Control, StartScenes, Fresh, Joined, Popping
  <1>3. Held' = {s} \ {NoScene} /\ Listed' = {} /\ born' = {s} \ {NoScene} /\ destroyed' = {}
    BY <1>0 DEF Held, Listed, StartScenes, Fresh, Born
  <1>4. ~Popping' /\ main_pc' # "down" /\ drawn' = NoScene
    BY <1>0 DEF Popping, StartScenes, Fresh
  <1>5. retired' = <<>> /\ scene' = NoScene /\ previous' = NoScene /\ created' = NoScene
    BY <1>0 DEF StartScenes, Fresh
  <1>6. ScenesAccounted'
    BY <1>3, <1>4, <1>5 DEF ScenesAccounted
  <1> QED BY <1>1, <1>2, <1>6 DEF ScenesInv

\* Exchange keeps the invariant.
LEMMA ExchangeKeeps == ScenesInv /\ Exchange => ScenesInv'
  <1> SUFFICES ASSUME ScenesInv, Exchange PROVE ScenesInv'
    OBVIOUS
  <1> USE SceneQueueAssumption
  <1>0. previous = NoScene /\ pending # NoScene /\ drawn = NoScene
    BY DEF ScenesInv, Control, Exchange, Unlocked
  <1>1. ScenesTypeOK'
    BY DEF ScenesInv, ScenesTypeOK, Exchange, history
  <1>2. Control'
    BY <1>0 DEF ScenesInv, Control, Exchange, Fresh, Joined, Popping
  <1>3. Held' = Held /\ Listed' = Listed
    BY <1>0 DEF Held, Listed, Exchange
  <1>4. (Popping' <=> Popping) /\ main_pc' # "down" /\ drawn' = NoScene
    BY <1>0 DEF ScenesInv, Control, Joined, Popping, Exchange
  <1>5. retired' = retired /\ born' = born /\ destroyed' = destroyed
    BY DEF Exchange, history
  <1>6. ScenesAccounted'
    BY <1>0, <1>3, <1>4, <1>5 DEF ScenesInv, ScenesAccounted, Exchange
  <1> QED BY <1>1, <1>2, <1>6 DEF ScenesInv

\* ListPrevious keeps the invariant.
LEMMA ListPreviousKeeps == ScenesInv /\ ListPrevious => ScenesInv'
  <1> SUFFICES ASSUME ScenesInv, ListPrevious PROVE ScenesInv'
    OBVIOUS
  <1> USE SceneQueueAssumption, PlacesFacts
  <1>0. previous # NoScene /\ previous \in Scenes /\ previous \in Held /\ previous \notin Listed
    BY DEF ScenesInv, ScenesTypeOK, Control, ScenesAccounted, ListPrevious, Held
  <1>a. /\ retired' = Append(retired, previous)
        /\ retired' \in Seq(Scenes)
        /\ Elems(retired') = Listed \cup {previous}
        /\ Distinct(retired')
        /\ retired # <<>> => Head(retired') = Head(retired)
    BY <1>0, AppendListed DEF ListPrevious
  <1>b. retired' # <<>>
    BY <1>a DEF Elems
  <1>1. ScenesTypeOK'
    BY <1>a DEF ScenesInv, ScenesTypeOK, ListPrevious, history
  <1>2. Control'
    BY <1>a, <1>b DEF ScenesInv, Control, ListPrevious, Fresh, Joined, Popping
  <1>3. Held' = Held \ {previous}
    BY <1>0 DEF ScenesInv, ScenesAccounted, Held, ListPrevious
  <1>4. Listed' = Listed \cup {previous}
    BY <1>a DEF Listed, Elems
  <1>5. (Popping' <=> Popping) /\ main_pc' # "down" /\ (Popping => retired # <<>>)
    BY DEF ScenesInv, Control, Joined, Popping, ListPrevious
  <1>6. UNCHANGED <<scene, pending, created, drawn, born, destroyed>> /\ previous' = NoScene
    BY DEF ListPrevious, history
  <1>7. \A i, j \in 1..Len(retired') : retired'[i] = retired'[j] => i = j
    BY <1>a DEF Distinct
  <1>8. ScenesAccounted'
    BY <1>0, <1>3, <1>4, <1>5, <1>6, <1>7, <1>a DEF ScenesInv, ScenesAccounted
  <1> QED BY <1>1, <1>2, <1>8 DEF ScenesInv

\* CreateScene keeps the invariant.
LEMMA CreateSceneKeeps ==
  ASSUME ScenesInv, NEW s, CreateScene(s)
  PROVE  ScenesInv'
  <1> USE SceneQueueAssumption, PlacesFacts
  <1>0. created = NoScene /\ s \in Scenes \cup {NoScene} /\ s \notin born \ {NoScene} /\ NoScene \notin born
    BY DEF ScenesInv, ScenesTypeOK, Control, CreateScene, Creation
  <1>1. ScenesTypeOK'
    BY <1>0 DEF ScenesInv, ScenesTypeOK, CreateScene, Born
  <1>2. Control'
    BY DEF ScenesInv, Control, CreateScene, Fresh, Joined, Popping
  <1>3. Held' = Held \cup ({s} \ {NoScene}) /\ Listed' = Listed
    BY <1>0 DEF Held, Listed, CreateScene
  <1>4. (Popping' <=> Popping) /\ main_pc' # "down"
    BY DEF ScenesInv, Control, Joined, Popping, CreateScene
  <1>5. UNCHANGED <<scene, pending, previous, retired, drawn, destroyed>> /\ created' = s
    BY DEF CreateScene
  <1>6. born' = born \cup ({s} \ {NoScene})
    BY DEF CreateScene, Born
  <1>7. s # NoScene => s \notin Held /\ s \notin Listed /\ s \notin destroyed
    BY <1>0 DEF ScenesInv, ScenesAccounted
  <1>8. scene # s \/ s = NoScene
    BY <1>7 DEF Held
  <1>9. pending # s \/ s = NoScene
    BY <1>7 DEF Held
  <1>10. previous # s \/ s = NoScene
    BY <1>7 DEF Held
  <1>11. ScenesAccounted'
    BY <1>3, <1>4, <1>5, <1>6, <1>7, <1>8, <1>9, <1>10 DEF ScenesInv, ScenesAccounted
  <1> QED BY <1>1, <1>2, <1>11 DEF ScenesInv

\* PublishScene keeps the invariant.
LEMMA PublishSceneKeeps == ScenesInv /\ PublishScene => ScenesInv'
  <1> SUFFICES ASSUME ScenesInv, PublishScene PROVE ScenesInv'
    OBVIOUS
  <1> USE SceneQueueAssumption
  <1>0. pending = NoScene
    BY DEF ScenesInv, Control, PublishScene
  <1>1. ScenesTypeOK'
    BY DEF ScenesInv, ScenesTypeOK, PublishScene, history
  <1>2. Control'
    BY <1>0 DEF ScenesInv, Control, PublishScene, Fresh, Joined, Popping
  <1>3. Held' = Held /\ Listed' = Listed
    BY <1>0 DEF Held, Listed, PublishScene
  <1>4. (Popping' <=> Popping) /\ main_pc' # "down"
    BY DEF ScenesInv, Control, Joined, Popping, PublishScene
  <1>5. UNCHANGED <<scene, previous, retired, drawn, born, destroyed>> /\ pending' = created /\ created' = NoScene
    BY DEF PublishScene, history
  <1>6. ScenesAccounted'
    BY <1>0, <1>3, <1>4, <1>5 DEF ScenesInv, ScenesAccounted
  <1> QED BY <1>1, <1>2, <1>6 DEF ScenesInv

\* The display thread keeps the invariant.
LEMMA DisplayKeeps == ScenesInv /\ (DrawScene \/ SceneDrawn) => ScenesInv'
  <1> SUFFICES ASSUME ScenesInv, DrawScene \/ SceneDrawn PROVE ScenesInv'
    OBVIOUS
  <1>1. ScenesTypeOK'
    BY DEF ScenesInv, ScenesTypeOK, DrawScene, SceneDrawn, holders, history, threads
  <1>2. Control'
    BY DEF ScenesInv, Control, DrawScene, SceneDrawn, Fresh, Joined, Popping, holders, history, threads
  <1>3. UNCHANGED holders /\ UNCHANGED history /\ drawn' \in {drawn, scene, NoScene} /\ (Popping' <=> Popping)
    BY DEF DrawScene, SceneDrawn, Popping, threads
  <1>4. main_pc' # "down"
    BY DEF ScenesInv, Control, Joined, DrawScene, SceneDrawn, threads
  <1>5. ScenesAccounted'
    BY <1>3, <1>4, UnmovedAccounted DEF ScenesInv
  <1> QED BY <1>1, <1>2, <1>5 DEF ScenesInv

\* The destruction of the front keeps the invariant, on either thread.
LEMMA DestroysKeeps == ScenesInv /\ (RetireDestroys \/ MainDestroys) => ScenesInv'
  <1> SUFFICES ASSUME ScenesInv, RetireDestroys \/ MainDestroys PROVE ScenesInv'
    OBVIOUS
  <1> USE PlacesFacts
  <1>0. DestroyFront /\ retired # <<>> /\ ~Popping /\ Popping' /\ main_pc' # "down"
    BY DEF ScenesInv, Control, Joined, RetireDestroys, MainDestroys, DestroyFront, Popping
  <1>1. ScenesTypeOK'
    BY <1>0 DEF ScenesInv, ScenesTypeOK, RetireDestroys, MainDestroys, DestroyFront, holders
  <1>2. Control'
    BY <1>0 DEF ScenesInv, Control, RetireDestroys, MainDestroys, DestroyFront, Fresh, Joined, Popping, holders
  <1>3. Held' = Held /\ Listed' = Listed /\ UNCHANGED <<scene, pending, previous, created, retired, drawn, born>>
    BY <1>0 DEF DestroyFront, Held, Listed, holders
  <1>4. destroyed' = destroyed \cup {Head(retired)} /\ Head(retired)' = Head(retired)
    BY <1>0, <1>3 DEF DestroyFront
  <1>5. ScenesAccounted'
    BY <1>0, <1>3, <1>4 DEF ScenesInv, ScenesAccounted
  <1> QED BY <1>1, <1>2, <1>5 DEF ScenesInv

\* Taking the front off keeps the invariant, on either thread.
LEMMA PopsKeeps == ScenesInv /\ (RetirePops \/ MainPops) => ScenesInv'
  <1> SUFFICES ASSUME ScenesInv, RetirePops \/ MainPops PROVE ScenesInv'
    OBVIOUS
  <1> USE PlacesFacts
  <1>0. PopFront /\ retired # <<>> /\ Popping /\ ~Popping' /\ main_pc' # "down"
    BY DEF ScenesInv, Control, Joined, RetirePops, MainPops, PopFront, Popping
  <1>a. /\ retired' = Tail(retired)
        /\ retired' \in Seq(Scenes)
        /\ Elems(retired') = Listed \ {Head(retired)}
        /\ Distinct(retired')
    BY <1>0, TailListed DEF PopFront
  <1>1. ScenesTypeOK'
    BY <1>0, <1>a DEF ScenesInv, ScenesTypeOK, RetirePops, MainPops, PopFront, history
  <1>2. Control'
    BY <1>0, <1>a DEF ScenesInv, Control, RetirePops, MainPops, PopFront, Fresh, Joined, Popping
  <1>3. Held' = Held /\ UNCHANGED <<scene, pending, previous, created, drawn, born, destroyed>>
    BY <1>0 DEF PopFront, Held, history
  <1>4. Listed' = Listed \ {Head(retired)}
    BY <1>a DEF Listed, Elems
  <1>5. \A i, j \in 1..Len(retired') : retired'[i] = retired'[j] => i = j
    BY <1>a DEF Distinct
  <1>6. ScenesAccounted'
    BY <1>0, <1>3, <1>4, <1>5 DEF ScenesInv, ScenesAccounted
  <1> QED BY <1>1, <1>2, <1>6 DEF ScenesInv

\* The end of the current scene keeps the invariant.
LEMMA DestroyCurrentKeeps == ScenesInv /\ DestroyCurrent => ScenesInv'
  <1> SUFFICES ASSUME ScenesInv, DestroyCurrent PROVE ScenesInv'
    OBVIOUS
  <1> USE SceneQueueAssumption
  <1>0. retired = <<>> /\ drawn = NoScene /\ ~Popping /\ ~Popping' /\ main_pc' # "down"
    BY DEF ScenesInv, Control, Joined, DestroyCurrent, Popping
  <1>1. ScenesTypeOK'
    BY DEF ScenesInv, ScenesTypeOK, DestroyCurrent
  <1>2. Control'
    BY <1>0 DEF ScenesInv, Control, DestroyCurrent, Fresh, Joined, Popping
  <1>3. Held' = Held \ {scene} /\ Listed' = Listed
    BY DEF ScenesInv, ScenesAccounted, Held, Listed, DestroyCurrent
  <1>4. UNCHANGED <<pending, previous, created, retired, drawn, born>> /\ scene' = NoScene
    BY DEF DestroyCurrent
  <1>5. destroyed' = destroyed \cup ({scene} \ {NoScene}) /\ (scene # NoScene => scene \in Held)
    BY DEF DestroyCurrent, Held
  <1>a. Listed = {} /\ NoScene \notin Held
    BY <1>0 DEF Listed, Held
  <1>b. /\ born = Held \cup destroyed
        /\ Held \cap destroyed = {}
    BY <1>0, <1>a DEF ScenesInv, ScenesAccounted
  <1>c. born' = Held' \cup destroyed' /\ Held' \cap destroyed' = {}
    BY <1>3, <1>4, <1>5, <1>a, <1>b
  <1>6. ScenesAccounted'
    BY <1>0, <1>3, <1>4, <1>a, <1>c DEF ScenesInv, ScenesAccounted
  <1> QED BY <1>1, <1>2, <1>6 DEF ScenesInv

\* The end of the pending scene keeps the invariant, and nothing is left.
LEMMA DestroyPendingKeeps == ScenesInv /\ DestroyPending => ScenesInv'
  <1> SUFFICES ASSUME ScenesInv, DestroyPending PROVE ScenesInv'
    OBVIOUS
  <1> USE SceneQueueAssumption
  <1>0. /\ retired = <<>> /\ drawn = NoScene /\ ~Popping /\ ~Popping'
        /\ scene = NoScene /\ previous = NoScene /\ created = NoScene
    BY DEF ScenesInv, Control, Joined, DestroyPending, Popping
  <1>1. ScenesTypeOK'
    BY DEF ScenesInv, ScenesTypeOK, DestroyPending
  <1>2. Control'
    BY <1>0 DEF ScenesInv, Control, DestroyPending, Fresh, Joined, Popping
  <1>3. UNCHANGED <<scene, previous, created, retired, drawn, born>> /\ pending' = NoScene
    BY DEF DestroyPending
  <1>4. Held = {pending} \ {NoScene} /\ Held' = {} /\ Listed = {} /\ Listed' = {}
    BY <1>0, <1>3 DEF Held, Listed
  <1>5. destroyed' = destroyed \cup ({pending} \ {NoScene})
    BY DEF DestroyPending
  <1>6. ScenesAccounted'
    BY <1>0, <1>3, <1>4, <1>5 DEF ScenesInv, ScenesAccounted
  <1> QED BY <1>1, <1>2, <1>6 DEF ScenesInv

\* A step of no thread keeps the invariant.
LEMMA StutterKeeps == ScenesInv /\ UNCHANGED scene_queue_vars => ScenesInv'
  <1> SUFFICES ASSUME ScenesInv, UNCHANGED scene_queue_vars PROVE ScenesInv'
    OBVIOUS
  <1>1. ScenesTypeOK'
    BY DEF ScenesInv, ScenesTypeOK, scene_queue_vars
  <1>2. Control'
    BY DEF ScenesInv, Control, scene_queue_vars, Fresh, Joined, Popping
  <1>3. ScenesAccounted'
    BY DEF ScenesInv, ScenesAccounted, scene_queue_vars, Held, Listed, Popping
  <1> QED BY <1>1, <1>2, <1>3 DEF ScenesInv

\* What a step may be: it starts the threads, moves a scene, or neither.
LEMMA StepKinds ==
  ASSUME ScenesNext
  PROVE  \/ \E s \in Creation, game \in {"update", "done", "off"}, retire \in {"top", "done", "off"} :
              StartScenes(s, game, retire)
         \/ Exchange \/ ListPrevious
         \/ \E s \in Scenes \cup {NoScene} : CreateScene(s)
         \/ PublishScene
         \/ RetireDestroys \/ MainDestroys \/ RetirePops \/ MainPops
         \/ DrawScene \/ SceneDrawn
         \/ DestroyCurrent \/ DestroyPending
         \/ Aside
  BY DEF ScenesNext, GameSteps, LoadSteps, RetireSteps, MainSteps, Aside

\* Every step keeps the invariant.
LEMMA ScenesInvNext == ScenesInv /\ [ScenesNext]_scene_queue_vars => ScenesInv'
  <1> SUFFICES ASSUME ScenesInv, [ScenesNext]_scene_queue_vars PROVE ScenesInv'
    OBVIOUS
  <1>1. CASE Aside
    BY <1>1, RequestSceneKeeps, QuitGameKeeps, SignalRetiredKeeps, EnterSceneKeeps, GameEndsKeeps, LoadFailsKeeps, RetireLoopsKeeps, RetireWakesKeeps, RetireIsEmptyKeeps, LoopEndsKeeps, StopScenesKeeps, JoinGameKeeps, JoinLoadKeeps, JoinRetireKeeps, MainIsEmptyKeeps DEF Aside
  <1>2. CASE UNCHANGED scene_queue_vars
    BY <1>2, StutterKeeps
  <1>3. CASE \E s \in Creation, game \in {"update", "done", "off"}, retire \in {"top", "done", "off"} :
               StartScenes(s, game, retire)
    BY <1>3, StartScenesKeeps
  <1>4. CASE \E s \in Scenes \cup {NoScene} : CreateScene(s)
    BY <1>4, CreateSceneKeeps
  <1>5. CASE Exchange \/ ListPrevious \/ PublishScene
    BY <1>5, ExchangeKeeps, ListPreviousKeeps, PublishSceneKeeps
  <1>6. CASE RetireDestroys \/ MainDestroys \/ RetirePops \/ MainPops
    BY <1>6, DestroysKeeps, PopsKeeps
  <1>7. CASE DrawScene \/ SceneDrawn \/ DestroyCurrent \/ DestroyPending
    BY <1>7, DisplayKeeps, DestroyCurrentKeeps, DestroyPendingKeeps
  <1> QED BY <1>1, <1>2, <1>3, <1>4, <1>5, <1>6, <1>7, StepKinds

\* The invariant holds throughout.
THEOREM ScenesInvariant == ScenesSpec => []ScenesInv
  BY ScenesInvInit, ScenesInvNext, PTL DEF ScenesSpec

\* The variables of the scene queue have their types.
THEOREM ScenesTypesHold == ScenesSpec => []ScenesTypeOK
  <1>1. ScenesInv => ScenesTypeOK
    BY DEF ScenesInv
  <1> QED BY <1>1, ScenesInvariant, PTL

\* No scene is leaked, in two places, or destroyed twice, and the display draws
\* only the current one.
THEOREM NoSceneLost == ScenesSpec => []ScenesAccounted
  <1>1. ScenesInv => ScenesAccounted
    BY DEF ScenesInv
  <1> QED BY <1>1, ScenesInvariant, PTL
-----------------------------------------------------------------------------
(* The implementation of SceneLife. *)

\* One scene goes to another stage of its life.
LEMMA OneMoves ==
  ASSUME NEW s \in Scenes, NEW stage,
         \A t \in Scenes : LifeOf(t)' = IF t = s THEN stage ELSE LifeOf(t)
  PROVE  Life' = [Life EXCEPT ![s] = stage] /\ Life[s] = LifeOf(s)
  BY DEF Life

\* A scene is created.
LEMMA CreationMaps ==
  ASSUME NEW s \in Scenes, LifeOf(s) = "unborn", \A t \in Scenes : LifeOf(t) # "pending",
         \A t \in Scenes : LifeOf(t)' = IF t = s THEN "pending" ELSE LifeOf(t)
  PROVE  SceneLives!LifeNext
  <1>1. Life' = [Life EXCEPT ![s] = "pending"] /\ Life[s] = "unborn"
    BY OneMoves
  <1>2. SceneLives!At("pending") = {}
    BY DEF SceneLives!At, Life
  <1> QED BY <1>1, <1>2 DEF SceneLives!LifeNext, SceneLives!Create

\* A scene is destroyed.
LEMMA DestructionMaps ==
  ASSUME NEW s \in Scenes,
         \/ LifeOf(s) = "retired"
         \/ LifeOf(s) \in {"current", "pending"} /\ \A t \in Scenes : LifeOf(t) \notin {"retired", "leaving"},
         \A t \in Scenes : LifeOf(t)' = IF t = s THEN "destroyed" ELSE LifeOf(t)
  PROVE  SceneLives!LifeNext
  <1>1. Life' = [Life EXCEPT ![s] = "destroyed"] /\ Life[s] = LifeOf(s)
    BY OneMoves
  <1>2. CASE LifeOf(s) = "retired"
    BY <1>1, <1>2 DEF SceneLives!LifeNext, SceneLives!Destroy
  <1>3. CASE LifeOf(s) \in {"current", "pending"} /\ \A t \in Scenes : LifeOf(t) \notin {"retired", "leaving"}
    <2>1. SceneLives!At("retired") \cup SceneLives!At("leaving") = {}
      BY <1>3 DEF SceneLives!At, Life
    <2> QED BY <1>1, <1>3, <2>1 DEF SceneLives!LifeNext, SceneLives!Destroy
  <1> QED BY <1>2, <1>3

\* Nothing moves.
LEMMA NothingMoves ==
  ASSUME \A t \in Scenes : LifeOf(t)' = LifeOf(t)
  PROVE  UNCHANGED Life
  BY DEF Life

\* Starting the threads creates the first scene, or none.
LEMMA StartScenesMaps ==
  ASSUME ScenesInv, NEW s \in Creation, NEW game, NEW retire, StartScenes(s, game, retire)
  PROVE  SceneLives!LifeNext \/ UNCHANGED Life
  <1>0. Fresh /\ s \in Scenes \cup {NoScene}
    BY DEF ScenesInv, Control, StartScenes, Creation
  <1>1. \A t \in Scenes : LifeOf(t) = "unborn"
    BY <1>0, SceneQueueAssumption DEF Fresh, LifeOf, Listed
  <1>2. \A t \in Scenes : LifeOf(t)' = IF t = s THEN "pending" ELSE LifeOf(t)
    BY <1>0, <1>1, SceneQueueAssumption DEF Fresh, LifeOf, Listed, StartScenes
  <1>3. CASE s \in Scenes
    BY <1>1, <1>2, <1>3, CreationMaps
  <1>4. CASE s = NoScene
    BY <1>2, <1>4, SceneQueueAssumption, NothingMoves
  <1> QED BY <1>0, <1>3, <1>4

\* The exchange activates the pending scene.
LEMMA ExchangeMaps ==
  ASSUME ScenesInv, Exchange
  PROVE  SceneLives!LifeNext
  <1> USE SceneQueueAssumption, PlacesFacts
  <1>0. previous = NoScene /\ pending # NoScene /\ pending \in Scenes
    BY DEF ScenesInv, ScenesTypeOK, Control, Exchange
  <1>1. \A t \in {scene, pending, created} : t # NoScene => t \notin Listed /\ t \notin destroyed
    BY DEF ScenesInv, ScenesAccounted, Held
  <1>2. pending # scene /\ pending # created /\ (scene # NoScene => scene # created)
    BY <1>0 DEF ScenesInv, ScenesAccounted
  <1>3. /\ Listed' = Listed /\ destroyed' = destroyed /\ created' = created
        /\ previous' = scene /\ scene' = pending /\ pending' = NoScene
    BY DEF Exchange, Listed, history
  <1>4. LifeOf(pending) = "pending"
    BY <1>0, <1>1, <1>2 DEF LifeOf
  <1>5. \A t \in Scenes : LifeOf(t) # "leaving"
    BY <1>0 DEF LifeOf
  <1>6. \A t \in Scenes : LifeOf(t)' = IF t = pending THEN "current"
                                        ELSE IF LifeOf(t) = "current" THEN "leaving" ELSE LifeOf(t)
    BY <1>0, <1>1, <1>2, <1>3 DEF LifeOf
  <1>7. Life' = [t \in Scenes |-> IF t = pending THEN "current"
                                  ELSE IF Life[t] = "current" THEN "leaving" ELSE Life[t]]
    BY <1>6 DEF Life
  <1>8. SceneLives!At("leaving") = {} /\ Life[pending] = "pending"
    BY <1>0, <1>4, <1>5 DEF SceneLives!At, Life
  <1> QED BY <1>0, <1>7, <1>8 DEF SceneLives!LifeNext, SceneLives!Activate

\* Listing retires the scene that was left.
LEMMA ListPreviousMaps ==
  ASSUME ScenesInv, ListPrevious
  PROVE  SceneLives!LifeNext
  <1> USE SceneQueueAssumption, PlacesFacts
  <1>0. previous # NoScene /\ previous \in Scenes /\ previous \in Held /\ previous \notin Listed
    BY DEF ScenesInv, ScenesTypeOK, Control, ScenesAccounted, ListPrevious, Held
  <1>1. previous \notin destroyed
    BY <1>0
  <1>2. Elems(retired') = Listed \cup {previous}
    BY <1>0, AppendListed DEF ListPrevious
  <1>3. Listed' = Listed \cup {previous}
    BY <1>2 DEF Listed, Elems
  <1>4. destroyed' = destroyed /\ scene' = scene /\ pending' = pending /\ created' = created /\ previous' = NoScene
    BY DEF ListPrevious, history
  <1>5. LifeOf(previous) = "leaving"
    BY <1>0, <1>1 DEF LifeOf
  <1>6. \A t \in Scenes : LifeOf(t)' = IF t = previous THEN "retired" ELSE LifeOf(t)
    BY <1>0, <1>1, <1>3, <1>4 DEF LifeOf
  <1>7. Life' = [Life EXCEPT ![previous] = "retired"] /\ Life[previous] = "leaving"
    BY <1>0, <1>5, <1>6, OneMoves
  <1> QED BY <1>0, <1>7 DEF SceneLives!LifeNext, SceneLives!Retire

\* The loader creates a scene, or none.
LEMMA CreateSceneMaps ==
  ASSUME ScenesInv, NEW s, CreateScene(s)
  PROVE  SceneLives!LifeNext \/ UNCHANGED Life
  <1> USE SceneQueueAssumption, PlacesFacts
  <1>0. created = NoScene /\ pending = NoScene /\ s \in Scenes \cup {NoScene} /\ s \notin born \ {NoScene}
    BY DEF ScenesInv, Control, CreateScene, Creation
  <1>1. s # NoScene => s \notin Held /\ s \notin Listed /\ s \notin destroyed
    BY <1>0 DEF ScenesInv, ScenesAccounted
  <1>2. s # NoScene => s # scene /\ s # previous
    BY <1>1 DEF Held
  <1>3. UNCHANGED <<scene, pending, previous, destroyed>> /\ Listed' = Listed /\ created' = s
    BY DEF CreateScene, Listed
  <1>4. \A t \in Scenes : LifeOf(t) # "pending"
    BY <1>0 DEF LifeOf
  <1>5. \A t \in Scenes : LifeOf(t)' = IF t = s THEN "pending" ELSE LifeOf(t)
    BY <1>0, <1>1, <1>2, <1>3 DEF LifeOf
  <1>6. CASE s \in Scenes
    <2>1. LifeOf(s) = "unborn"
      BY <1>0, <1>1, <1>2, <1>6 DEF LifeOf
    <2> QED BY <1>4, <1>5, <1>6, <2>1, CreationMaps
  <1>7. CASE s = NoScene
    BY <1>5, <1>7, NothingMoves
  <1> QED BY <1>0, <1>6, <1>7

\* The destructor of the front destroys a retired scene.
LEMMA DestroysMaps ==
  ASSUME ScenesInv, RetireDestroys \/ MainDestroys
  PROVE  SceneLives!LifeNext
  <1> USE PlacesFacts
  <1>0. DestroyFront /\ retired # <<>> /\ ~Popping
    BY DEF ScenesInv, Control, Joined, RetireDestroys, MainDestroys, DestroyFront, Popping
  <1>1. Head(retired) \in Listed /\ Head(retired) \in Scenes /\ Head(retired) \notin destroyed
    BY <1>0 DEF ScenesInv, ScenesAccounted
  <1>2. /\ UNCHANGED <<scene, pending, previous, created>> /\ Listed' = Listed
        /\ destroyed' = destroyed \cup {Head(retired)}
    BY <1>0 DEF DestroyFront, Listed, holders
  <1>3. LifeOf(Head(retired)) = "retired"
    BY <1>1 DEF LifeOf
  <1>4. \A t \in Scenes : LifeOf(t)' = IF t = Head(retired) THEN "destroyed" ELSE LifeOf(t)
    BY <1>2 DEF LifeOf
  <1> QED BY <1>1, <1>3, <1>4, DestructionMaps

\* Taking its node off is no step of its life.
LEMMA PopsMaps ==
  ASSUME ScenesInv, RetirePops \/ MainPops
  PROVE  UNCHANGED Life
  <1> USE PlacesFacts
  <1>0. PopFront /\ retired # <<>> /\ Popping
    BY DEF ScenesInv, Control, RetirePops, MainPops, PopFront, Popping
  <1>1. Head(retired) \in destroyed
    BY <1>0 DEF ScenesInv, ScenesAccounted
  <1>2. Elems(retired') = Listed \ {Head(retired)}
    BY <1>0, TailListed DEF PopFront
  <1>3. Listed' = Listed \ {Head(retired)}
    BY <1>2 DEF Listed, Elems
  <1>4. UNCHANGED <<scene, pending, previous, created, destroyed>>
    BY <1>0 DEF PopFront, history
  <1>5. \A t \in Scenes : LifeOf(t)' = LifeOf(t)
    BY <1>1, <1>3, <1>4 DEF LifeOf
  <1> QED BY <1>5, NothingMoves

\* The main thread destroys the current and the pending scene when nothing else
\* is left.
LEMMA LastDestroysMap ==
  ASSUME ScenesInv, DestroyCurrent \/ DestroyPending
  PROVE  SceneLives!LifeNext \/ UNCHANGED Life
  <1> USE SceneQueueAssumption, PlacesFacts
  <1>0. Listed = {} /\ previous = NoScene
    BY DEF ScenesInv, Control, Joined, DestroyCurrent, DestroyPending, Listed
  <1>1. \A t \in Scenes : LifeOf(t) \notin {"retired", "leaving"}
    BY <1>0 DEF LifeOf
  <1>2. CASE DestroyCurrent
    <2>1. /\ UNCHANGED <<pending, previous, created>> /\ Listed' = Listed /\ scene' = NoScene
          /\ destroyed' = destroyed \cup ({scene} \ {NoScene})
      BY <1>2 DEF DestroyCurrent, Listed
    <2>2. scene \in Scenes \cup {NoScene} /\ (scene # NoScene => scene \notin destroyed)
      BY DEF ScenesInv, ScenesTypeOK, Held
    <2>3. \A t \in Scenes : LifeOf(t)' = IF t = scene THEN "destroyed" ELSE LifeOf(t)
      BY <1>0, <2>1 DEF LifeOf
    <2>4. CASE scene \in Scenes
      <3>1. LifeOf(scene) = "current"
        BY <1>0, <2>2, <2>4 DEF LifeOf
      <3> QED BY <1>1, <2>3, <2>4, <3>1, DestructionMaps
    <2>5. CASE scene = NoScene
      BY <2>3, <2>5, NothingMoves
    <2> QED BY <2>2, <2>4, <2>5
  <1>3. CASE DestroyPending
    <2>0. scene = NoScene /\ created = NoScene
      BY <1>3 DEF ScenesInv, Control, Joined, DestroyPending
    <2>1. /\ UNCHANGED <<scene, previous, created>> /\ Listed' = Listed /\ pending' = NoScene
          /\ destroyed' = destroyed \cup ({pending} \ {NoScene})
      BY <1>3 DEF DestroyPending, Listed
    <2>2. pending \in Scenes \cup {NoScene} /\ (pending # NoScene => pending \notin destroyed)
      BY DEF ScenesInv, ScenesTypeOK, Held
    <2>3. \A t \in Scenes : LifeOf(t)' = IF t = pending THEN "destroyed" ELSE LifeOf(t)
      BY <1>0, <2>0, <2>1 DEF LifeOf
    <2>4. CASE pending \in Scenes
      <3>1. LifeOf(pending) = "pending"
        BY <1>0, <2>0, <2>2, <2>4 DEF LifeOf
      <3> QED BY <1>1, <2>3, <2>4, <3>1, DestructionMaps
    <2>5. CASE pending = NoScene
      BY <2>3, <2>5, NothingMoves
    <2> QED BY <2>2, <2>4, <2>5
  <1> QED BY <1>2, <1>3

\* All other steps leave every life as it is.
LEMMA OthersMap ==
  ASSUME ScenesInv, Aside \/ DrawScene \/ SceneDrawn \/ PublishScene \/ UNCHANGED scene_queue_vars
  PROVE  UNCHANGED Life
  <1>1. CASE PublishScene
    <2>0. pending = NoScene
      BY <1>1 DEF ScenesInv, Control, PublishScene
    <2>1. UNCHANGED <<scene, previous, destroyed>> /\ Listed' = Listed /\ pending' = created /\ created' = NoScene
      BY <1>1 DEF PublishScene, Listed, history
    <2>2. \A t \in Scenes : LifeOf(t)' = LifeOf(t)
      BY <2>0, <2>1, SceneQueueAssumption DEF LifeOf
    <2> QED BY <2>2, NothingMoves
  <1>2. CASE Aside \/ DrawScene \/ SceneDrawn \/ UNCHANGED scene_queue_vars
    <2>1. UNCHANGED <<scene, pending, previous, created, retired, destroyed>>
      BY <1>2 DEF Aside, RequestScene, QuitGame, SignalRetired, EnterScene, GameEnds, LoadFails, RetireLoops,
         RetireWakes, RetireIsEmpty, LoopEnds, StopScenes, JoinGame, JoinLoad, JoinRetire, MainIsEmpty,
         DrawScene, SceneDrawn, scene_queue_vars, holders, history
    <2> QED BY <2>1 DEF Life, LifeOf, Listed
  <1> QED BY <1>1, <1>2

\* Every step is one of SceneLife, or none.
LEMMA StepMaps == ScenesInv /\ [ScenesNext]_scene_queue_vars => [SceneLives!LifeNext]_Life
  <1> SUFFICES ASSUME ScenesInv, [ScenesNext]_scene_queue_vars
               PROVE  SceneLives!LifeNext \/ UNCHANGED Life
    OBVIOUS
  <1>1. CASE Aside \/ DrawScene \/ SceneDrawn \/ PublishScene \/ UNCHANGED scene_queue_vars
    BY <1>1, OthersMap
  <1>2. CASE \E s \in Creation, game \in {"update", "done", "off"}, retire \in {"top", "done", "off"} :
               StartScenes(s, game, retire)
    BY <1>2, StartScenesMaps
  <1>3. CASE \E s \in Scenes \cup {NoScene} : CreateScene(s)
    BY <1>3, CreateSceneMaps
  <1>4. CASE Exchange \/ ListPrevious
    BY <1>4, ExchangeMaps, ListPreviousMaps
  <1>5. CASE RetireDestroys \/ MainDestroys \/ RetirePops \/ MainPops
    BY <1>5, DestroysMaps, PopsMaps
  <1>6. CASE DestroyCurrent \/ DestroyPending
    BY <1>6, LastDestroysMap
  <1> QED BY <1>1, <1>2, <1>3, <1>4, <1>5, <1>6, StepKinds

\* The threads together keep what SceneLife promises of each scene.
THEOREM ScenesImplement == ScenesSpec => ImplementsSceneLife
  <1>1. ScenesInit => SceneLives!LifeInit
    BY SceneQueueAssumption DEF ScenesInit, SceneLives!LifeInit, Life, LifeOf, Listed
  <1> QED BY <1>1, StepMaps, ScenesInvariant, PTL
    DEF ScenesSpec, ImplementsSceneLife, SceneLives!LifeSpec
=============================================================================
