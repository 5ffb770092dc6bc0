------------------------------ MODULE SaveData ------------------------------
(***************************************************************************)
(* Saved games: save_file and load_file of table_serialization.cpp, and    *)
(* what a crash of the process between two of their steps leaves on disk.  *)
(*                                                                         *)
(* A save serialises and compresses first, replaces the file by an empty   *)
(* one, then writes the size of the data and the data, in two calls; each  *)
(* write may stop short.  A load accepts a file that holds all the bytes   *)
(* its size promises.  A script's table is what it holds as a whole, and   *)
(* the compressed form of one is a sequence of blocks of that table, as    *)
(* many as its size; TableFormat looks inside.  The path is always the     *)
(* same.  Files outlive the process, not a loss of power.                  *)
(***************************************************************************)
EXTENDS Integers, Sequences

CONSTANTS
  Tables,   \* what a script may hold in a table
  Blocks    \* bound: blocks of a compressed table

ASSUME SaveAssumption == Blocks \in Nat \ {0}

VARIABLES
  file,     \* the blocks on disk, with the size in front, or NoFile
  save_pc,  \* where save_file is
  saving,   \* the table being saved and its number of blocks
  loaded,   \* what the last load gave, or what it left unread
  kept      \* history: the table the last complete save left on disk

save_vars == <<file, save_pc, saving, loaded, kept>>

\* A table in its compressed form, of any number of blocks that fits the buffer.
Encoded == [table: Tables, size: 1..Blocks]
Block == [table: Tables, of: 1..Blocks, at: 1..Blocks]
Data(e) == [i \in 1..e.size |-> [table |-> e.table, of |-> e.size, at |-> i]]

NoFile == [exists |-> FALSE, size |-> 0, data |-> <<>>]
EmptyFile == [exists |-> TRUE, size |-> 0, data |-> <<>>]
Nothing == [ok |-> FALSE, data |-> <<>>]

SaveInit ==
  /\ file = NoFile
  /\ save_pc = "idle"
  /\ saving \in Encoded
  /\ loaded = Nothing
  /\ kept = <<>>
-----------------------------------------------------------------------------
(* save_file. *)

\* Defect: the file is replaced before there is anything to put in it.
SaveCalled_OpensFirst(e) ==
  /\ save_pc = "idle"
  /\ save_pc' = "convert"
  /\ saving' = e
  /\ file' = EmptyFile
  /\ UNCHANGED <<loaded, kept>>

SaveCalled(e) ==
  /\ save_pc = "idle"
  /\ save_pc' = "convert"
  /\ saving' = e
  /\ UNCHANGED <<file, loaded, kept>>

\* write_table and the compression ...
Convert ==
  /\ save_pc = "convert"
  /\ save_pc' = "open"
  /\ UNCHANGED <<file, saving, loaded, kept>>

\* ... or a key or a nesting that cannot be written, a full buffer, a failed deflate.
ConversionFails ==
  /\ save_pc = "convert"
  /\ save_pc' = "idle"
  /\ UNCHANGED <<file, saving, loaded, kept>>

\* Defect: what is there is overwritten in place.
CreateAlways_KeepsOld ==
  /\ save_pc = "open"
  /\ save_pc' = "size"
  /\ file' = [file EXCEPT !.exists = TRUE]
  /\ kept' = <<>>
  /\ UNCHANGED <<saving, loaded>>

\* CREATE_ALWAYS: whatever was saved before is gone.
CreateAlways ==
  /\ save_pc = "open"
  /\ save_pc' = "size"
  /\ file' = EmptyFile
  /\ kept' = <<>>
  /\ UNCHANGED <<saving, loaded>>

\* The file cannot be opened.
CreateFails ==
  /\ save_pc = "open"
  /\ save_pc' = "idle"
  /\ UNCHANGED <<file, saving, loaded, kept>>

\* The size; a short write of it ends the save.
WriteSize ==
  /\ save_pc = "size"
  /\ \/ /\ file' = [file EXCEPT !.size = saving.size]
        /\ save_pc' = "data"
     \/ /\ save_pc' = "idle"
        /\ UNCHANGED file
  /\ UNCHANGED <<saving, loaded, kept>>

\* n blocks over what lies there: all of it in an empty file.
Overwrite(old, e, n) ==
  [i \in 1..(IF Len(old) > n THEN Len(old) ELSE n) |-> IF i <= n THEN Data(e)[i] ELSE old[i]]

\* The data, as many blocks as the disk takes; complete only with all of them.
WriteData(n) ==
  /\ save_pc = "data"
  /\ n <= saving.size
  /\ file' = [file EXCEPT !.data = Overwrite(file.data, saving, n)]
  /\ kept' = IF n = saving.size THEN <<saving.table>> ELSE <<>>
  /\ save_pc' = "idle"
  /\ UNCHANGED <<saving, loaded>>
-----------------------------------------------------------------------------
\* The file holds a size and all the bytes it promises.
Readable == file.exists /\ file.size > 0 /\ file.size <= Len(file.data)

(* load_file: one call of the same thread.  A size without bytes decompresses
   to nothing and fails. *)
Load ==
  /\ save_pc = "idle"
  /\ loaded' = IF Readable THEN [ok |-> TRUE, data |-> SubSeq(file.data, 1, file.size)]
                           ELSE Nothing
  /\ UNCHANGED <<file, save_pc, saving, kept>>

\* The process ends between two steps and is started again: what it had in
\* memory is gone.
Crash ==
  /\ save_pc' = "idle"
  /\ loaded' = Nothing
  /\ UNCHANGED <<file, saving, kept>>

SaveNext ==
  \/ \E e \in Encoded : SaveCalled(e)
  \/ Convert
  \/ ConversionFails
  \/ CreateAlways
  \/ CreateFails
  \/ WriteSize
  \/ \E n \in 0..Blocks : WriteData(n)
  \/ Load
  \/ Crash

SaveSpec == SaveInit /\ [][SaveNext]_save_vars
-----------------------------------------------------------------------------
\* The variables of saved games have their types.
SaveTypeOK ==
  /\ file \in [exists: BOOLEAN, size: 0..Blocks, data: Seq(Block)]
  /\ save_pc \in {"idle", "convert", "open", "size", "data"}
  /\ saving \in Encoded
  /\ loaded \in [ok: BOOLEAN, data: Seq(Block)]
  /\ kept \in Seq(Tables)

(* A load gives the whole of one table that was saved, never a part of one or
   parts of two, wherever the save before it stopped. *)
LoadIsWhole == loaded.ok => \E e \in Encoded : loaded.data = Data(e)

(* What a save reported as written can be read back until a later save has come
   as far as replacing the file: no failed conversion, failed opening or crash
   loses it. *)
SavedReadable ==
  kept # <<>> => \E e \in Encoded :
                   /\ e.table = kept[1]
                   /\ file = [exists |-> TRUE, size |-> e.size, data |-> Data(e)]
=============================================================================
