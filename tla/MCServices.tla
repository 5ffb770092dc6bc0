----------------------------- MODULE MCServices -----------------------------
(***************************************************************************)
(* Four parts that share no state, each checked by itself in one run:      *)
(* saved games on disk, packed files, the format of saved tables, and the  *)
(* queue of scenes.  Only the scenes' threads are assumed to be scheduled: *)
(* each goes on as long as it can, again and again after it had to wait    *)
(* for the lock, and the message loop ends once the game has quit.         *)
(***************************************************************************)
EXTENDS SaveData, PackageReader, TableFormat, SceneQueue

CONSTANTS c1, c2, c3

Rooms == (c1 :> 2) @@ (c2 :> 2) @@ (c3 :> 1)

VARIABLE subject   \* the part this behaviour is of

vars == <<save_vars, archive_vars, reader_vars, table_vars, scene_queue_vars, subject>>

Init ==
  /\ subject \in {"saves", "files", "tables", "scenes"}
  /\ SaveInit
  /\ subject # "saves" => saving = CHOOSE e \in Encoded : TRUE
  /\ ArchiveInit
  /\ ReaderInit
  /\ TablesInit
  /\ ScenesInit

SaveStep ==
  /\ subject = "saves"
  /\ SaveNext
  /\ UNCHANGED <<archive_vars, reader_vars, table_vars, scene_queue_vars, subject>>

FileStep ==
  /\ subject = "files"
  /\ ReaderNext
  /\ UNCHANGED <<save_vars, table_vars, scene_queue_vars, subject>>

TableStep ==
  /\ subject = "tables"
  /\ TablesNext
  /\ UNCHANGED <<save_vars, archive_vars, reader_vars, scene_queue_vars, subject>>

ScenesOnly(A) ==
  /\ subject = "scenes"
  /\ A
  /\ UNCHANGED <<save_vars, archive_vars, reader_vars, table_vars, subject>>

Next == SaveStep \/ FileStep \/ TableStep \/ ScenesOnly(ScenesNext)

Spec ==
  /\ Init /\ [][Next]_vars
  /\ SF_vars(ScenesOnly(GameSteps))
  /\ SF_vars(ScenesOnly(LoadSteps))
  /\ SF_vars(ScenesOnly(RetireSteps))
  /\ SF_vars(ScenesOnly(MainSteps))
  /\ WF_vars(ScenesOnly(SceneDrawn))
  /\ WF_vars(ScenesOnly(~running /\ LoopEnds))

\* The variables of every part have their types.
ServicesTypeOK ==
  /\ SaveTypeOK
  /\ ArchivesTypeOK
  /\ ReaderTypeOK
  /\ TablesTypeOK
  /\ ScenesTypeOK
=============================================================================
