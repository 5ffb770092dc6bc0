----------------------------- MODULE MapManager -----------------------------
(***************************************************************************)
(* The map manager of map_manager.cpp and map_loading.cpp with its         *)
(* containers (map_containers.cpp): the document of the current map, its   *)
(* source holder, the runtime that owns the layouts, and the nodes handed  *)
(* out as render layers.                                                   *)
(*                                                                         *)
(* A layout belongs to the runtime whose clone made it and dies with it.   *)
(* A runtime and a node are addresses: a new one is none that anything     *)
(* still refers to, so that a reference that outlived its target shows.    *)
(* Left out: dimensions, placements, names, what scripts see of them, and  *)
(* the layouts kept for events, which are cleared with the nodes and lent  *)
(* to nobody.  The callbacks of a map's own document load no map.          *)
(***************************************************************************)
EXTENDS Integers, Sequences, FiniteSets, SequencesExt

CONSTANTS
  Runtimes,  \* addresses of ACT runtimes
  Layers,    \* map layers a document may have
  Nodes,     \* addresses of list nodes
  None       \* the null pointer

ASSUME MapAssumption == None \notin Runtimes \cup Nodes

VARIABLES
  source,   \* manager.source_act: a document is held
  holder,   \* manager.source_holder is held
  player,   \* manager.player
  layers,   \* the map layers of the player's document
  visible,  \* those of them that are visible
  render    \* containers.layers

map_vars == <<source, holder, player, layers, visible, render>>

Layout == [runtime: Runtimes, layer: Layers]
Node == [node: Nodes, layout: Layout]
LayoutOf(layer) == [runtime |-> player, layer |-> layer]

\* The storage of a layout is still there.
Living(layout) == layout.runtime = player /\ layout.layer \in layers
Visible(layout) == layout.layer \in visible

RenderNodes == {render[i].node : i \in 1..Len(render)}

\* kinoko_map_lookup_layout: through the player, when there is a document.
Found(layer) == source /\ layer \in layers
-----------------------------------------------------------------------------
MapInit ==
  /\ source = FALSE
  /\ holder = FALSE
  /\ player = None
  /\ layers = {}
  /\ visible = {}
  /\ render = <<>>

\* kinoko_map_containers_clear
ContainersClear == render' = <<>>

\* kinoko_map_manager_clear
MapClear ==
  /\ ContainersClear
  /\ player' = None
  /\ layers' = {}
  /\ visible' = {}
  /\ holder' = FALSE
  /\ source' = FALSE

(* kinoko_map_manager_load.  Whatever fails, from the document to the holder
   and the runtime, nothing is left of either map ... *)
MapLoadFails == MapClear

\* ... and when it succeeds, begin_stage may have cloned nothing, its result
\* being ignored.
MapLoads(runtime) ==
  /\ ContainersClear
  /\ source' = TRUE
  /\ holder' = TRUE
  /\ player' = runtime
  /\ layers' \in {{}, Layers}
  /\ visible' = layers'

\* kinoko_map_make_render_layer of a layer that is found: push_back.
MakeRenderLayer(layer, node) ==
  /\ Found(layer)
  /\ node \notin RenderNodes
  /\ render' = Append(render, [node |-> node, layout |-> LayoutOf(layer)])
  /\ UNCHANGED <<source, holder, player, layers, visible>>

\* A callback of the document, in kinoko_map_manager_update, shows or hides a layer.
MapUpdate ==
  /\ source
  /\ player # None
  /\ visible' \in SUBSET layers
  /\ UNCHANGED <<source, holder, player, layers, render>>

MapTypeOK ==
  /\ source \in BOOLEAN
  /\ holder \in BOOLEAN
  /\ player \in Runtimes \cup {None}
  /\ layers \subseteq Layers
  /\ visible \subseteq layers
  /\ render \in Seq(Node)
=============================================================================
