---------------------------- MODULE PackageReader ----------------------------
(***************************************************************************)
(* A reader of a packed file: file_io.cpp.                                 *)
(*                                                                         *)
(* The reader keeps a position of its own, and the handle of the archive   *)
(* another.  Exact reads and skips check the first and put the second      *)
(* where the first is; the virtual Read clamps with the first, in          *)
(* arithmetic of one DWORD, and reads at the second; the virtual Seek, as  *)
(* in the original program, stores in the first a position relative to the *)
(* packed file.  What the bytes are, and their decoding, is left out.  A   *)
(* read may stop short: the disk fails.                                    *)
(***************************************************************************)
EXTENDS ArchiveStore

CONSTANTS
  MaxRead,   \* bound: bytes asked for, and distances
  Word       \* the values of a DWORD, fewer here

ASSUME ReaderAssumption == /\ MaxRead \in Nat
                           /\ Word \in Nat
                           /\ Header + Size * MaxListed + MaxRead < Word

VARIABLES
  reader,    \* the open reader, or Closed
  got,       \* what the last read delivered, or Undelivered
  cursor,    \* history: where in its file the operations have left the reader
  lost       \* history: a Seek, or a failed exact read that moved the handle

reader_vars == <<reader, got, cursor, lost>>

Closed == [open |-> FALSE, offset |-> 0, position |-> 0, fp |-> 0]
Undelivered == [n |-> 0, at |-> 0, expected |-> 0]
Lost == [sought |-> FALSE, failed |-> FALSE]

Spaces == 0..(Word - 1)
End == reader.offset + Size
ArchiveEnd == Header + Size * MaxListed

ReaderInit ==
  /\ reader = Closed
  /\ got = Undelivered
  /\ cursor = 0
  /\ lost = Lost

Least(a, b) == IF a < b THEN a ELSE b

\* What ReadFile can transfer of n bytes at the place at: all there is, or less.
Transfers(at, n) ==
  IF at >= ArchiveEnd THEN {0} ELSE 0..Least(n, ArchiveEnd - at)

\* Bytes that a read delivered to its caller, from the place at.
Delivered(n, at) ==
  got' = IF n = 0 THEN Undelivered ELSE [n |-> n, at |-> at, expected |-> reader.offset + cursor]
-----------------------------------------------------------------------------
(* kinoko_reader_open with archives mounted; the reader before is closed.  An
   archive may hold more than it lists.  One that could be mounted may not open
   any more, and the reader needs memory. *)
OpenReader(p, opens) ==
  /\ archives > 0
  /\ reader' = IF Lookup(p) = <<>> \/ ~opens THEN Closed
               ELSE LET offset == Lookup(p)[1].offset
                    IN [open |-> TRUE, offset |-> offset, position |-> offset, fp |-> offset]
  /\ got' = Undelivered
  /\ cursor' = 0
  /\ lost' = Lost

\* read_package of n bytes; t of them come.
ReadPackage(n, t) ==
  LET past == (n + reader.position) % Word
      wanted == IF End < past THEN (End - reader.position) % Word ELSE n
  IN /\ reader.open
     /\ t \in Transfers(reader.fp, wanted)
     /\ reader' = [reader EXCEPT !.position = (@ + t) % Word, !.fp = @ + t]
     /\ cursor' = cursor + t
     /\ Delivered(t, reader.fp)
     /\ UNCHANGED lost

\* What exact reads and skips check before they touch the file.
Within(n) ==
  /\ reader.open
  /\ reader.offset <= reader.position
  /\ reader.position <= End
  /\ n <= End - reader.position

\* Defect: the reader's own position stays.
ReadExact_NotAdvanced(n, t) ==
  /\ n > 0
  /\ Within(n)
  /\ t \in Transfers(reader.position, n)
  /\ IF t = n
     THEN /\ reader' = [reader EXCEPT !.fp = reader.position + n]
          /\ cursor' = cursor + n
          /\ lost' = [lost EXCEPT !.failed = FALSE]
          /\ Delivered(n, reader.position)
     ELSE /\ reader' = [reader EXCEPT !.fp = reader.position + t]
          /\ lost' = [lost EXCEPT !.failed = TRUE]
          /\ got' = Undelivered
          /\ UNCHANGED cursor

(* kinoko_reader_read_exact of n bytes; t of them come.  Unless all do, it has
   failed: the handle has moved and the reader has not. *)
ReadExact(n, t) ==
  /\ n > 0
  /\ Within(n)
  /\ t \in Transfers(reader.position, n)
  /\ IF t = n
     THEN /\ reader' = [reader EXCEPT !.position = @ + n, !.fp = reader.position + n]
          /\ cursor' = cursor + n
          /\ lost' = [lost EXCEPT !.failed = FALSE]
          /\ Delivered(n, reader.position)
     ELSE /\ reader' = [reader EXCEPT !.fp = reader.position + t]
          /\ lost' = [lost EXCEPT !.failed = TRUE]
          /\ got' = Undelivered
          /\ UNCHANGED cursor

\* kinoko_reader_seek_relative
SeekRelative(distance) ==
  /\ Within(distance)
  /\ reader' = [reader EXCEPT !.position = @ + distance, !.fp = reader.position + distance]
  /\ cursor' = cursor + distance
  /\ lost' = [lost EXCEPT !.failed = FALSE]
  /\ got' = Undelivered

\* SetFilePointer gives the new place, or all ones and leaves the old.
SetFilePointer(to) ==
  reader' = [reader EXCEPT !.fp = IF to < 0 THEN @ ELSE to,
                           !.position = ((IF to < 0 THEN Word - 1 ELSE to) - reader.offset) % Word]

\* seek_package; from the end, the distance counts backwards.
SeekPackage(distance, origin) ==
  /\ reader.open
  /\ SetFilePointer(CASE origin = "begin" -> reader.offset + distance
                      [] origin = "current" -> reader.fp + distance
                      [] origin = "end" -> End - distance)
  /\ lost' = [lost EXCEPT !.sought = TRUE]
  /\ UNCHANGED <<got, cursor>>

\* Bound: one Seek.
ReaderNext ==
  \/ Mounts /\ UNCHANGED reader_vars
  \/ /\ UNCHANGED archive_vars
     /\ \/ \E p \in Normalized, opens \in BOOLEAN : OpenReader(p, opens)
        \/ \E n, t \in 0..MaxRead : ReadPackage(n, t) \/ ReadExact(n, t)
        \/ \E distance \in 0..MaxRead : SeekRelative(distance)
        \/ \E distance \in -1..MaxRead, origin \in {"begin", "current", "end"} :
             ~lost.sought /\ SeekPackage(distance, origin)

ReaderSpec == ArchiveInit /\ ReaderInit /\ [][ReaderNext]_<<archive_vars, reader_vars>>
-----------------------------------------------------------------------------
\* The variables of readers have their types.
ReaderTypeOK ==
  /\ reader \in [open: BOOLEAN, offset: Spaces, position: Spaces, fp: Nat]
  /\ got \in [n: Spaces, at: Nat, expected: Nat]
  /\ cursor \in Nat
  /\ lost \in [sought: BOOLEAN, failed: BOOLEAN]

(* As long as nobody used the virtual Seek, reads, exact reads and skips in any
   mix are of the file that was opened: what a read delivers begins where the
   ones before it ended and ends within the file, whatever was asked, unless a
   Read follows an exact read that failed. *)
ReadsItsEntry ==
  (~lost.sought /\ ~lost.failed) =>
    /\ got.n > 0 => /\ got.at = got.expected
                    /\ got.at + got.n <= End
    /\ reader.open => reader.position = reader.offset + cursor /\ cursor <= Size
=============================================================================
