----------------------------- MODULE TableFormat -----------------------------
(***************************************************************************)
(* What saved games look like inside: write_table and read_table of        *)
(* table_serialization.cpp.                                                *)
(*                                                                         *)
(* Script tables and arrays are a graph; what is written is a tree.  A     *)
(* slot holds a scalar, a container, or something the format has no form   *)
(* for (null, a function, an instance); a table may have a key of a kind   *)
(* that stops the whole write.  A token stands for the bytes of one slot   *)
(* or of one end.  Strings and keys are identities; that write_string cuts *)
(* them at a NUL within is left out.  Loading fills a table while it reads,*)
(* and stops at the first thing that is wrong, at the end of the bytes at  *)
(* the latest.                                                             *)
(***************************************************************************)
EXTENDS Integers, Sequences, SequencesExt

CONSTANTS
  Containers,  \* tables and arrays of the script
  Root,        \* the table that is saved
  MaxSlots,    \* bound: slots of a container
  Room,        \* bound: slots of each of them
  MaxNesting,  \* kMaximumNesting
  Capacity,    \* kFileBufferSize, in tokens
  MaxArray     \* the longest array a load accepts

ASSUME TableAssumption == /\ Root \in Containers
                          /\ Containers \cap {"scalar", "formless", "badkey"} = {}
                          /\ MaxSlots \in Nat /\ Room \in [Containers -> 0..MaxSlots]
                          /\ MaxNesting \in Nat /\ Capacity \in Nat /\ MaxArray \in Nat

VARIABLES
  heap,     \* the containers as they were when they were last written
  stream,   \* what the last write left, <<>> if it failed
  read      \* what the last load made of a part of it

table_vars == <<heap, stream, read>>

Values == Containers \cup {"scalar", "formless", "badkey"}
Heaps ==
  {h \in [Containers -> [kind: {"table", "array"}, slots: BoundedSeq(Values, MaxSlots)]] :
     /\ h[Root].kind = "table"
     /\ \A c \in Containers :
          /\ Len(h[c].slots) <= Room[c]
          /\ h[c].kind = "array" => "badkey" \notin ToSet(h[c].slots)}

Unread == [whole |-> FALSE, n |-> 0, ok |-> FALSE, items |-> {}]

NoHeap == [c \in Containers |-> [kind |-> "table", slots |-> <<>>]]

TablesInit ==
  /\ heap = NoHeap
  /\ stream = <<>>
  /\ read = Unread
-----------------------------------------------------------------------------
(* write_table *)

Token(tag, key, count) == <<[tag |-> tag, key |-> key, count |-> count]>>
Failure == Token("failure", 0, 0)

\* Defect: an array's slots are counted only if they can be saved.
WrittenSlot_CountsSaved(h, below, path, i) ==
  LET value == h[Last(path)].slots[i]
  IN CASE value = "scalar" -> Token("scalar", i, 0)
       [] value = "formless" -> <<>>
       [] value = "badkey" -> Failure
       [] OTHER -> Token(h[value].kind, i, Len(SelectSeq(h[value].slots, LAMBDA v : v # "formless")))
                     \o below[Append(path, value)]

\* One slot of the container the path ends in, below which everything has been
\* written.  An array's slots are counted, whatever they hold.
WrittenSlot(h, below, path, i) ==
  LET value == h[Last(path)].slots[i]
  IN CASE value = "scalar" -> Token("scalar", i, 0)
       [] value = "formless" -> <<>>
       [] value = "badkey" -> Failure
       [] OTHER -> Token(h[value].kind, i, Len(h[value].slots)) \o below[Append(path, value)]

\* A container, behind its ancestors on the path; to be one of them stops the write.
WrittenContainer(h, below, path) ==
  IF Last(path) \in ToSet(Front(path))
  THEN Failure
  ELSE FlattenSeq([i \in 1..Len(h[Last(path)].slots) |-> WrittenSlot(h, below, path, i)])
         \o Token("end", 0, 0)

\* The table that is saved, nested as deep as may be.
Written(h) ==
  LET left[n \in 0..MaxNesting] ==
        [path \in Seq(Containers) \ {<<>>} |->
           IF n = 0 THEN Failure ELSE WrittenContainer(h, left[n - 1], path)]
  IN left[MaxNesting][<<Root>>]

\* The save of a table: the write has failed also when the buffer is full.
SaveTable(h) ==
  /\ heap' = h
  /\ LET tokens == Written(h)
         ok == Failure[1] \notin ToSet(tokens) /\ Len(tokens) <= Capacity
     IN stream' = IF ok THEN tokens ELSE <<>>
  /\ read' = Unread
-----------------------------------------------------------------------------
(* read_table: the containers being filled are a path of keys, and an item is
   something at the end of such a path. *)

Item(path, token) ==
  [path |-> Append(path, token.key), tag |-> token.tag,
   count |-> IF token.tag = "array" THEN token.count ELSE 0]

Reading == [path |-> <<>>, items |-> {}, status |-> "more"]

\* A nested container is attached before it is read, and before its nesting is
\* looked at.
ReadNested(r, token) ==
  IF token.tag = "array" /\ token.count > MaxArray
  THEN [r EXCEPT !.status = "failed"]
  ELSE [path |-> Append(r.path, token.key), items |-> r.items \cup {Item(r.path, token)},
        status |-> IF Len(r.path) + 2 > MaxNesting THEN "failed" ELSE "more"]

ReadEnd(r) ==
  IF r.path = <<>> THEN [r EXCEPT !.status = "done"] ELSE [r EXCEPT !.path = Front(@)]

ReadToken(r, token) ==
  IF r.status # "more" THEN r
  ELSE CASE token.tag = "scalar" -> [r EXCEPT !.items = @ \cup {Item(r.path, token)}]
         [] token.tag = "end" -> ReadEnd(r)
         [] OTHER -> ReadNested(r, token)

\* The reader behind the first n tokens.
Behind(n) ==
  LET behind[i \in 0..n] ==
        IF i = 0 THEN Reading ELSE ReadToken(behind[i - 1], stream[i])
  IN behind[n]

\* A load of the first n tokens: all of them, or what a broken file still had.
LoadTable(n) ==
  /\ stream # <<>>
  /\ n <= Len(stream)
  /\ read' = [whole |-> n = Len(stream), n |-> n,
              ok |-> Behind(n).status = "done", items |-> Behind(n).items]
  /\ UNCHANGED <<heap, stream>>

\* Bounds: one table is saved, and loaded once.
TablesNext ==
  \/ heap = NoHeap /\ \E h \in Heaps : SaveTable(h)
  \/ read = Unread /\ \E n \in 0..Capacity : LoadTable(n)

TablesSpec == TablesInit /\ [][TablesNext]_table_vars
-----------------------------------------------------------------------------
\* The variables of the format have their types.
TablesTypeOK ==
  /\ heap \in [Containers -> [kind: {"table", "array"}, slots: Seq(Values)]]
  /\ \A i \in 1..Len(stream) :
       stream[i] \in [tag: {"scalar", "table", "array", "end"}, key: Nat, count: Nat]
  /\ read.whole \in BOOLEAN /\ read.ok \in BOOLEAN /\ read.n \in 0..Capacity

\* What is under a key of a value: "formless" is nothing.
Under(value, key) ==
  IF value \in Containers /\ key \in 1..Len(heap[value].slots)
  THEN heap[value].slots[key] ELSE "formless"

\* Where a path of keys leads.
Target(path) ==
  LET along[i \in 0..Len(path)] ==
        IF i = 0 THEN Root ELSE Under(along[i - 1], path[i])
  IN along[Len(path)]

\* The item at the end of a path.
ItemAt(path) ==
  LET value == Target(path)
  IN [path |-> path,
      tag |-> IF value \in Containers THEN heap[value].kind ELSE value,
      count |-> IF value \in Containers /\ heap[value].kind = "array"
                THEN Len(heap[value].slots) ELSE 0]

(* What a script's table holds that can be saved: every path of keys to
   something that has a form. *)
Holdings ==
  {ItemAt(path) : path \in {p \in BoundedSeq(1..MaxSlots, MaxNesting) :
                             p # <<>> /\ Target(p) # "formless"}}

(* A table that was written is read back with all that can be saved of it,
   shared containers once per place, unless it holds an array longer than loads
   accept; of a file that is cut short the load fails, having filled in nothing
   that was not in the table. *)
ReadsBack ==
  read # Unread =>
    /\ read.items \subseteq Holdings
    /\ read.ok <=> read.whole /\ \A item \in Holdings : item.count <= MaxArray
    /\ read.ok => read.items = Holdings
=============================================================================
