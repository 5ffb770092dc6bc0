----------------------------- MODULE ActRuntime -----------------------------
(***************************************************************************)
(* One ACT runtime (act_binding.cpp, act_resource.cpp, act_frame_update.cpp*)
(* and act_runtime_lifecycle.cpp): a source document, and the clone of it  *)
(* that is staged, updated, suspended and replaced.                        *)
(*                                                                         *)
(* Scripts run between the frames and inside the Init and Update callbacks,*)
(* and every command of a runtime is theirs at any of these points, so a   *)
(* stage can be ended, or replaced with all its layers, in the middle of   *)
(* the loop that runs them.  `calls` is the stack of those loops.          *)
(*                                                                         *)
(* A document stands for its address and has one texture, whose references *)
(* the store counts.  A load may fail, the first one as any later one, and *)
(* nobody heeds it: the document goes on without its texture.  Its layers  *)
(* are roots, numbered as the source has them and then as they are created.*)
(* Two things scripts could do are left out:                               *)
(* swapping layers while an Init loop runs, after which the loop misses    *)
(* one, and a BeginStage from the code that runs while a clone is          *)
(* published, under which publish_stage_objects would keep a dead clone.   *)
(***************************************************************************)
EXTENDS Integers, FiniteSets, Sequences

CONSTANTS
  Documents,    \* addresses of clones
  Source,       \* the source document
  NoDocument,
  SourceLayers, \* how many layers the source has
  MaxLayers,    \* bound: layers of a clone
  MaxCalls      \* bound: loops in progress

ASSUME ActAssumption ==
  /\ IsFiniteSet(Documents)
  /\ Source \notin Documents
  /\ NoDocument \notin Documents \cup {Source}
  /\ SourceLayers \in Nat \ {0}
  /\ MaxLayers \in Nat
  /\ MaxCalls \in Nat \ {0}

VARIABLES
  staged,      \* stage_active
  active,      \* active_document, owned by the runtime
  held,        \* the document active_holder leads to
  aliases,     \* the document stage_properties points into
  hidden,
  waiting,     \* wake_time is not yet over
  layers,      \* the layers of the active document, by their numbers
  initialised, \* history: those whose Init has been run
  store,       \* references to the texture, and what each document holds
  calls        \* loops over layers in progress, the last one running a callback

act_vars == <<staged, active, held, aliases, hidden, waiting, layers, initialised,
              store, calls>>

Owners == Documents \cup {Source}

(* What a document holds: the handle, the borrowed bit of the original, its
   entry in cloned_texture_owners, and resources_suspended.  As history: its
   texture is missing since a load failed, its own or one of the source. *)
Holding == [handle : BOOLEAN, borrowed : BOOLEAN, counted : BOOLEAN, suspended : BOOLEAN,
            missing : BOOLEAN]
Empty == [handle |-> FALSE, borrowed |-> FALSE, counted |-> FALSE, suspended |-> FALSE,
          missing |-> FALSE]

Loop == [name : {"init", "update"}, at : Nat]
Running(name) == calls # <<>> /\ calls[Len(calls)].name = name
At == calls[Len(calls)].at
Return == calls' = SubSeq(calls, 1, Len(calls) - 1)
Proceed(index) == calls' = [calls EXCEPT ![Len(calls)].at = index]

-----------------------------------------------------------------------------
(* Textures.  Each operator gives the store after a call of the code, or the
   stores there may be after a call that loads. *)

\* Document o holds h now, and the store counts by n more references.
Put(s, o, h, n) ==
  [references |-> s.references + n, of |-> [s.of EXCEPT ![o] = h]]

\* The reference of the store's that goes when document o gives its texture up.
Returned(s, o) ==
  IF s.of[o].counted \/ (~s.of[o].borrowed /\ s.of[o].handle) THEN -1 ELSE 0

\* kinoko_method_unload_resource_texture
Unload(s, o) ==
  Put(s, o, [s.of[o] EXCEPT !.handle = FALSE, !.counted = FALSE], Returned(s, o))

(* kinoko_method_load_resource_texture.  The old texture goes first.  Then no
   file may be found under any suffix, or none may fit into the store; and without
   memory for the path nothing is given up at all. *)
LoadTexture(s, o) ==
  LET unloaded == Unload(s, o)
      own == [unloaded.of[o] EXCEPT !.borrowed = FALSE]
  IN  {Put(unloaded, o, [own EXCEPT !.handle = TRUE, !.missing = FALSE], 1),
       Put(unloaded, o, [own EXCEPT !.missing = TRUE], 0),
       Put(s, o, [s.of[o] EXCEPT !.missing = ~s.of[o].handle], 0)}

\* Both do nothing in the state they would lead to.
SuspendResources(s, o) ==
  LET unloaded == Unload(s, o)
  IN  IF s.of[o].suspended THEN s
      ELSE Put(unloaded, o, [unloaded.of[o] EXCEPT !.suspended = TRUE], 0)

\* The document is resumed before its texture is loaded, and stays so without it.
ResumeResources(s, o) ==
  IF ~s.of[o].suspended THEN {s}
  ELSE {Put(t, o, [t.of[o] EXCEPT !.suspended = FALSE], 0) : t \in LoadTexture(s, o)}

\* Defect: the clone has the borrowed bit of the original and no more.
CloneResource_NotOwner(s, d) ==
  LET shared == s.of[Source].handle
  IN  Put(s, d, [handle |-> shared, borrowed |-> TRUE, counted |-> FALSE, suspended |-> FALSE,
                 missing |-> ~shared],
          IF shared THEN 1 ELSE 0)

\* clone_resource marks the texture borrowed and retains it all the same.
CloneResource(s, d) ==
  LET shared == s.of[Source].handle
  IN  Put(s, d, [handle |-> shared, borrowed |-> TRUE, counted |-> shared, suspended |-> FALSE,
                 missing |-> ~shared],
          IF shared THEN 1 ELSE 0)

\* delete_document
Delete(s, o) ==
  IF o \notin Owners THEN s ELSE Put(s, o, Empty, Returned(s, o))

\* The store before any document holds a texture.
Unused == [references |-> 0, of |-> [o \in Owners |-> Empty]]

\* A source has been read and its texture asked for.
ActInit ==
  /\ staged = FALSE
  /\ active = NoDocument
  /\ held = NoDocument
  /\ aliases = NoDocument
  /\ hidden = FALSE
  /\ waiting = FALSE
  /\ layers = <<>>
  /\ initialised = {}
  /\ store \in LoadTexture(Unused, Source)
  /\ calls = <<>>
-----------------------------------------------------------------------------
(* Commands of scripts. *)

(* BeginStage of a stage that is active, or without its tables, or when nothing
   can be cloned: the source has been resumed by then. *)
StageRefused ==
  /\ store' \in ResumeResources(store, Source)
  /\ UNCHANGED <<staged, active, held, aliases, hidden, waiting, layers, initialised, calls>>

\* The clone d takes the place of the active document, which is deleted.
StageCloned(d) ==
  /\ ~staged
  /\ d # active
  /\ \E resumed \in ResumeResources(store, Source) :
       store' = Delete(CloneResource(resumed, d), active)
  /\ active' = d
  /\ layers' = [i \in 1..SourceLayers |-> i]
  /\ initialised' = {}
  /\ UNCHANGED <<hidden, waiting>>

\* Without memory for the holder the clone stays, and nothing is staged.
StageHolderFails(d) ==
  /\ StageCloned(d)
  /\ held' = NoDocument
  /\ UNCHANGED <<staged, aliases, calls>>

\* The Init callback of the source comes first, then those of the layers.
StageBegins(d) ==
  /\ Len(calls) < MaxCalls
  /\ StageCloned(d)
  /\ held' = d
  /\ aliases' = d
  /\ staged' = TRUE
  /\ calls' = Append(calls, [name |-> "init", at |-> 0])

EndStage ==
  /\ staged
  /\ staged' = FALSE
  /\ aliases' = NoDocument
  /\ UNCHANGED <<active, held, hidden, waiting, layers, initialised, store, calls>>

\* CreateLayer2D and CreateLayerString
CreateLayer ==
  /\ staged /\ held # NoDocument
  /\ Len(layers) < MaxLayers
  /\ layers' = Append(layers, Len(layers) + 1)
  /\ UNCHANGED <<staged, active, held, aliases, hidden, waiting, initialised, store, calls>>

SwapLayers(first, second) ==
  /\ staged /\ held # NoDocument
  /\ \A i \in 1..Len(calls) : calls[i].name # "init"
  /\ first # second
  /\ layers' = [layers EXCEPT ![first] = layers[second], ![second] = layers[first]]
  /\ UNCHANGED <<staged, active, held, aliases, hidden, waiting, initialised, store, calls>>

\* Suspend visits the clone and then the source; Resume only the clone.
Suspend ==
  /\ hidden' = TRUE
  /\ store' = SuspendResources(IF active = NoDocument THEN store
                               ELSE SuspendResources(store, active), Source)
  /\ UNCHANGED <<staged, active, held, aliases, waiting, layers, initialised, calls>>

Resume ==
  /\ hidden' = FALSE
  /\ waiting' = FALSE
  /\ store' \in IF active = NoDocument THEN {store} ELSE ResumeResources(store, active)
  /\ UNCHANGED <<staged, active, held, aliases, layers, initialised, calls>>

\* SleepTo with a negative time does not wait.
SleepTo(waits) ==
  /\ waiting' = waits
  /\ UNCHANGED <<staged, active, held, aliases, hidden, layers, initialised, store, calls>>
-----------------------------------------------------------------------------
(* The loops.  A callback has returned, or failed, which neither loop minds. *)

\* Defect: a callback that fails ends the loop.
InitGoesOn_StopsAtFailure ==
  /\ Running("init")
  /\ IF At < Len(layers)
     THEN \/ Proceed(At + 1) /\ initialised' = initialised \cup {layers[At + 1]}
          \/ Return /\ UNCHANGED initialised
     ELSE Return /\ UNCHANGED initialised
  /\ UNCHANGED <<staged, active, held, aliases, hidden, waiting, layers, store>>

\* The loop of BeginStage reads the active document anew for each layer.
InitGoesOn ==
  /\ Running("init")
  /\ IF At < Len(layers)
     THEN Proceed(At + 1) /\ initialised' = initialised \cup {layers[At + 1]}
     ELSE Return /\ UNCHANGED initialised
  /\ UNCHANGED <<staged, active, held, aliases, hidden, waiting, layers, store>>

\* A frame begins with the source's Update callback.
UpdateBegins ==
  /\ calls = <<>>
  /\ ~hidden /\ staged /\ held # NoDocument /\ ~waiting
  /\ calls' = <<[name |-> "update", at |-> 0]>>
  /\ UNCHANGED <<staged, active, held, aliases, hidden, waiting, layers, initialised, store>>

\* As many layers as the source has, of the document that is held by then.
UpdateGoesOn ==
  /\ Running("update")
  /\ staged /\ held # NoDocument
  /\ At < SourceLayers /\ At < Len(layers)
  /\ Proceed(At + 1)
  /\ UNCHANGED <<staged, active, held, aliases, hidden, waiting, layers, initialised, store>>

\* All layers are done, the stage has ended, or a layer's update gave an error.
UpdateEnds ==
  /\ Running("update")
  /\ At > 0 \/ ~staged \/ held = NoDocument
  /\ Return
  /\ UNCHANGED <<staged, active, held, aliases, hidden, waiting, layers, initialised, store>>

TimePasses ==
  /\ waiting
  /\ waiting' = FALSE
  /\ UNCHANGED <<staged, active, held, aliases, hidden, layers, initialised, store, calls>>

(* The runtime and its source are disposed of by a stage list or a map that is
   cleared, and others are loaded. *)
Dispose ==
  /\ calls = <<>>
  /\ staged' = FALSE
  /\ active' = NoDocument
  /\ held' = NoDocument
  /\ aliases' = NoDocument
  /\ hidden' = FALSE
  /\ waiting' = FALSE
  /\ layers' = <<>>
  /\ initialised' = {}
  /\ store' \in LoadTexture(Delete(Delete(store, active), Source), Source)
  /\ UNCHANGED calls

Commands ==
  \/ StageRefused
  \/ \E d \in Documents : StageHolderFails(d) \/ StageBegins(d)
  \/ EndStage
  \/ CreateLayer
  \/ \E first, second \in 1..Len(layers) : SwapLayers(first, second)
  \/ Suspend
  \/ Resume
  \/ \E waits \in BOOLEAN : SleepTo(waits)

ActNext ==
  \/ Commands
  \/ InitGoesOn
  \/ UpdateBegins
  \/ UpdateGoesOn
  \/ UpdateEnds
  \/ TimePasses
  \/ Dispose

ActSpec == ActInit /\ [][ActNext]_act_vars
-----------------------------------------------------------------------------
(* Every variable has its type. *)
ActTypeOK ==
  /\ staged \in BOOLEAN
  /\ active \in Documents \cup {NoDocument}
  /\ held \in Documents \cup {NoDocument}
  /\ aliases \in Documents \cup {NoDocument}
  /\ hidden \in BOOLEAN
  /\ waiting \in BOOLEAN
  /\ layers \in Seq(Nat)
  /\ initialised \subseteq Nat
  /\ store \in [references : Int, of : [Owners -> Holding]]
  /\ calls \in Seq(Loop)

(* The holder and the properties that scripts set refer to the active clone or
   to nothing, whenever a callback ends or replaces the stage it runs in; and an
   update starts, or goes on, only with a clone all whose layers have run Init,
   whatever became of the loops below. *)
StageIsWhole ==
  /\ {held, aliases} \subseteq {active, NoDocument}
  /\ staged /\ ~Running("init") =>
       /\ held = active
       /\ 1..SourceLayers \subseteq initialised

(* The store counts one reference for each document that holds the texture:
   none is lost, and none given up twice, although a clone that was suspended
   and resumed no longer borrows what it was cloned with, and loads fail between.
   Nothing suspended keeps its texture, and what is staged and not hidden is not
   suspended and has its texture, unless a load since has failed. *)
TexturesBalanced ==
  /\ store.references = Cardinality({o \in Owners : store.of[o].handle})
  /\ \A o \in Owners : store.of[o].suspended => ~store.of[o].handle
  /\ staged /\ ~hidden =>
       ~store.of[active].suspended /\ (store.of[active].handle \/ store.of[active].missing)
=============================================================================
