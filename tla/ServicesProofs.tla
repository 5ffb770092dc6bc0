--------------------------- MODULE ServicesProofs ---------------------------
(***************************************************************************)
(* Saved games, for any tables, limits, failures and crashes, and the      *)
(* types of all four parts of MCServices together.                         *)
(*                                                                         *)
(* The file (SaveInv): it is empty of data while save_file is between its  *)
(* writes, and else holds a beginning of one encoded table, with the size  *)
(* of all of it in front.                                                  *)
(*                                                                         *)
(* Its contents (TablesInv): what write_table leaves of a container is     *)
(* what it leaves of the slots, one after the other, and an end.  Where    *)
(* these tokens lie in a stream, a reader that goes on at a path adds just *)
(* what is held beneath that path (Adds), by induction over the slots      *)
(* (SlotsAdd) and over the levels that are left (AllReadBack).  The model  *)
(* writes and reads with recursive functions over numbers; Recursion and   *)
(* RecursionUnique say of these that they exist and what they are.         *)
(***************************************************************************)
EXTENDS MCServices, ArchiveProofs, SceneQueueProofs

-----------------------------------------------------------------------------
(* Saved games on disk. *)

\* The first n blocks of an encoded table.
Prefix(e, n) == [i \in 1..n |-> Data(e)[i]]

\* The file holds data only behind the size of the whole.
OneTable ==
  file.data # <<>> =>
    \E e \in Encoded : \E n \in 1..e.size : file.size = e.size /\ file.data = Prefix(e, n)

\* What save_file has done to the file by the time of each of its steps.
Replaced ==
  /\ save_pc = "size" => file = EmptyFile
  /\ save_pc = "data" => file = [exists |-> TRUE, size |-> saving.size, data |-> <<>>]
  /\ kept # <<>> => save_pc \in {"idle", "convert", "open"}

SaveInv == SaveTypeOK /\ OneTable /\ Replaced /\ LoadIsWhole /\ SavedReadable

\* A beginning of a table is a sequence of blocks, and all of it is the table.
LEMMA PrefixIsData ==
  ASSUME NEW e \in Encoded, NEW n \in 0..e.size
  PROVE  /\ Prefix(e, n) \in Seq(Block)
         /\ Len(Prefix(e, n)) = n
         /\ Prefix(e, e.size) = Data(e)
         /\ n > 0 => Prefix(e, n) # <<>>
  <1>1. e.table \in Tables /\ e.size \in 1..Blocks /\ Blocks \in Nat
    BY SaveAssumption DEF Encoded
  <1>2. n \in Nat /\ n <= e.size
    BY <1>1
  <1>3. \A i \in 1..e.size : Data(e)[i] \in Block
    BY <1>1 DEF Data, Block
  <1>4. Prefix(e, n) \in [1..n -> Block]
    BY <1>1, <1>2, <1>3 DEF Prefix
  <1>5. Prefix(e, n) \in Seq(Block) /\ Len(Prefix(e, n)) = n
    BY <1>2, <1>4
  <1>6. Prefix(e, e.size) = Data(e)
    BY <1>1 DEF Prefix, Data
  <1> QED
    BY <1>2, <1>5, <1>6

\* Nothing that is not written over is left of an empty file.
LEMMA OverwriteEmpty ==
  ASSUME NEW e \in Encoded, NEW n \in 0..e.size
  PROVE  Overwrite(<<>>, e, n) = Prefix(e, n)
  <1>1. e.size \in 1..Blocks /\ Blocks \in Nat
    BY SaveAssumption DEF Encoded
  <1>2. n \in Nat
    BY <1>1
  <1>3. (IF Len(<<>>) > n THEN Len(<<>>) ELSE n) = n
    BY <1>2
  <1> QED
    BY <1>2, <1>3 DEF Overwrite, Prefix

\* A readable file holds one table.
LEMMA ReadableIsWhole ==
  ASSUME SaveTypeOK, OneTable, Readable
  PROVE  \E e \in Encoded : SubSeq(file.data, 1, file.size) = Data(e)
  <1>1. file.data # <<>> /\ file.data \in Seq(Block) /\ file.size \in Nat /\ file.size > 0
    BY SaveAssumption DEF SaveTypeOK, Readable
  <1>2. PICK e \in Encoded : \E n \in 1..e.size : file.size = e.size /\ file.data = Prefix(e, n)
    BY <1>1 DEF OneTable
  <1>3. PICK n \in 1..e.size : file.size = e.size /\ file.data = Prefix(e, n)
    BY <1>2
  <1>4. e.size \in Nat
    BY SaveAssumption DEF Encoded
  <1>5. Len(file.data) = n
    BY <1>3, <1>4, PrefixIsData
  <1>6. n = e.size
    BY <1>3, <1>4, <1>5 DEF Readable
  <1>7. file.data = Data(e) /\ file.size = Len(file.data)
    BY <1>3, <1>4, <1>5, <1>6, PrefixIsData
  <1>8. SubSeq(file.data, 1, Len(file.data)) = file.data
    BY <1>1
  <1> QED
    BY <1>7, <1>8

\* The invariant holds at first.
LEMMA SaveInvInit == SaveInit => SaveInv
  <1> SUFFICES ASSUME SaveInit PROVE SaveInv
    OBVIOUS
  <1> USE SaveAssumption DEF SaveInit, NoFile, Nothing
  <1>1. SaveTypeOK
    BY DEF SaveTypeOK
  <1> QED
    BY <1>1 DEF SaveInv, OneTable, Replaced, LoadIsWhole, SavedReadable

\* Every step keeps the invariant.
LEMMA SaveInvNext == SaveInv /\ [SaveNext]_save_vars => SaveInv'
  <1> SUFFICES ASSUME SaveInv, [SaveNext]_save_vars PROVE SaveInv'
    OBVIOUS
  <1> USE SaveAssumption
  <1>t. SaveTypeOK /\ OneTable /\ Replaced /\ LoadIsWhole /\ SavedReadable
    BY DEF SaveInv
  <1>1. ASSUME NEW e \in Encoded, SaveCalled(e) PROVE SaveInv'
    <2>1. SaveTypeOK'
      BY <1>t, <1>1 DEF SaveTypeOK, SaveCalled
    <2>2. (OneTable /\ Replaced /\ LoadIsWhole /\ SavedReadable)'
      BY <1>t, <1>1 DEF OneTable, Replaced, LoadIsWhole, SavedReadable, SaveCalled, Prefix
    <2> QED BY <2>1, <2>2 DEF SaveInv
  <1>2. CASE Convert \/ ConversionFails \/ CreateFails
    <2>1. SaveTypeOK'
      BY <1>t, <1>2 DEF SaveTypeOK, Convert, ConversionFails, CreateFails
    <2>2. (OneTable /\ Replaced /\ LoadIsWhole /\ SavedReadable)'
      BY <1>t, <1>2 DEF OneTable, Replaced, LoadIsWhole, SavedReadable, Convert, ConversionFails, CreateFails, Prefix
    <2> QED BY <2>1, <2>2 DEF SaveInv
  <1>3. CASE CreateAlways
    <2>1. SaveTypeOK'
      BY <1>t, <1>3 DEF SaveTypeOK, CreateAlways, EmptyFile
    <2>2. (OneTable /\ Replaced /\ SavedReadable)'
      BY <1>t, <1>3 DEF OneTable, Replaced, SavedReadable, CreateAlways, EmptyFile
    <2>3. LoadIsWhole'
      BY <1>t, <1>3 DEF LoadIsWhole, CreateAlways
    <2> QED BY <2>1, <2>2, <2>3 DEF SaveInv
  <1>4. CASE WriteSize
    <2>0. file = EmptyFile /\ saving.size \in 1..Blocks /\ kept = <<>>
      BY <1>t, <1>4 DEF WriteSize, Replaced, SaveTypeOK, Encoded
    <2>a. \/ file' = [exists |-> TRUE, size |-> saving.size, data |-> <<>>] /\ save_pc' = "data"
          \/ file' = EmptyFile /\ save_pc' = "idle"
      BY <1>4, <2>0 DEF WriteSize, EmptyFile
    <2>b. saving' = saving /\ loaded' = loaded /\ kept' = kept
      BY <1>4 DEF WriteSize
    <2>c. file' \in [exists: BOOLEAN, size: 0..Blocks, data: Seq(Block)]
      <3>1. <<>> \in Seq(Block)
        OBVIOUS
      <3>2. 0 \in 0..Blocks /\ saving.size \in 0..Blocks
        BY <2>0
      <3>3. CASE file' = [exists |-> TRUE, size |-> saving.size, data |-> <<>>]
        BY <3>1, <3>2, <3>3
      <3>4. CASE file' = EmptyFile
        BY <3>1, <3>2, <3>4 DEF EmptyFile
      <3> QED BY <2>a, <3>3, <3>4
    <2>1. SaveTypeOK'
      BY <1>t, <2>a, <2>b, <2>c DEF SaveTypeOK
    <2>2. (OneTable /\ Replaced /\ SavedReadable)'
      BY <1>t, <1>4, <2>0 DEF OneTable, Replaced, SavedReadable, WriteSize, EmptyFile
    <2>3. LoadIsWhole'
      BY <1>t, <1>4 DEF LoadIsWhole, WriteSize
    <2> QED BY <2>1, <2>2, <2>3 DEF SaveInv
  <1>5. ASSUME NEW n \in 0..Blocks, WriteData(n) PROVE SaveInv'
    <2>0. /\ file = [exists |-> TRUE, size |-> saving.size, data |-> <<>>]
          /\ saving \in Encoded
          /\ saving.size \in 1..Blocks
          /\ saving.table \in Tables
          /\ n \in 0..saving.size
      BY <1>t, <1>5 DEF WriteData, Replaced, SaveTypeOK, Encoded
    <2>1. file' = [exists |-> TRUE, size |-> saving.size, data |-> Prefix(saving, n)]
      BY <1>5, <2>0, OverwriteEmpty DEF WriteData
    <2>2. /\ Prefix(saving, n) \in Seq(Block)
          /\ Len(Prefix(saving, n)) = n
          /\ Prefix(saving, saving.size) = Data(saving)
      BY <2>0, PrefixIsData
    <2>3. kept' = IF n = saving.size THEN <<saving.table>> ELSE <<>>
      BY <1>5 DEF WriteData
    <2>4. save_pc' = "idle" /\ saving' = saving /\ loaded' = loaded
      BY <1>5 DEF WriteData
    <2>5. SaveTypeOK'
      BY <1>t, <2>0, <2>1, <2>2, <2>3, <2>4 DEF SaveTypeOK
    <2>6. OneTable'
      <3>1. CASE n = 0
        BY <2>1, <2>2, <3>1 DEF OneTable
      <3>2. CASE n # 0
        <4>1. n \in 1..saving.size
          BY <2>0, <3>2
        <4>2. file'.size = saving.size /\ file'.data = Prefix(saving, n)
          BY <2>1
        <4> QED
          BY <2>0, <4>1, <4>2 DEF OneTable, Prefix, Data
      <3> QED BY <3>1, <3>2
    <2>7. Replaced'
      BY <2>4 DEF Replaced
    <2>8. SavedReadable'
      <3> SUFFICES ASSUME kept' # <<>>
                   PROVE  \E e \in Encoded : /\ e.table = kept'[1]
                                             /\ file' = [exists |-> TRUE, size |-> e.size, data |-> Data(e)]
        BY DEF SavedReadable, Data
      <3>1. n = saving.size /\ kept'[1] = saving.table
        BY <2>3
      <3>2. file' = [exists |-> TRUE, size |-> saving.size, data |-> Data(saving)]
        BY <2>1, <2>2, <3>1
      <3> QED BY <2>0, <3>1, <3>2
    <2>9. LoadIsWhole'
      BY <1>t, <2>4 DEF LoadIsWhole
    <2> QED BY <2>5, <2>6, <2>7, <2>8, <2>9 DEF SaveInv
  <1>6. CASE Load
    <2>0. UNCHANGED <<file, save_pc, saving, kept>>
      BY <1>6 DEF Load
    <2>1. loaded' \in [ok: BOOLEAN, data: Seq(Block)] /\ LoadIsWhole'
      <3>1. CASE Readable
        <4>1. loaded' = [ok |-> TRUE, data |-> SubSeq(file.data, 1, file.size)]
          BY <1>6, <3>1 DEF Load
        <4>2. PICK e \in Encoded : SubSeq(file.data, 1, file.size) = Data(e)
          BY <1>t, <3>1, ReadableIsWhole
        <4>3. e.size \in Nat
          BY DEF Encoded
        <4>4. Data(e) \in Seq(Block)
          BY <4>3, PrefixIsData
        <4> QED BY <4>1, <4>2, <4>4 DEF LoadIsWhole, Data
      <3>2. CASE ~Readable
        <4>1. loaded' = Nothing
          BY <1>6, <3>2 DEF Load
        <4> QED BY <4>1 DEF Nothing, LoadIsWhole
      <3> QED BY <3>1, <3>2
    <2>2. SaveTypeOK'
      BY <1>t, <2>0, <2>1 DEF SaveTypeOK
    <2>3. (OneTable /\ Replaced /\ SavedReadable)'
      BY <1>t, <2>0 DEF OneTable, Replaced, SavedReadable, Prefix
    <2> QED BY <2>1, <2>2, <2>3 DEF SaveInv
  <1>7. CASE Crash
    <2>1. SaveTypeOK'
      BY <1>t, <1>7 DEF SaveTypeOK, Crash, Nothing
    <2>2. (OneTable /\ Replaced /\ LoadIsWhole /\ SavedReadable)'
      BY <1>t, <1>7 DEF OneTable, Replaced, LoadIsWhole, SavedReadable, Crash, Nothing, Prefix
    <2> QED BY <2>1, <2>2 DEF SaveInv
  <1>8. CASE UNCHANGED save_vars
    <2>1. SaveTypeOK'
      BY <1>t, <1>8 DEF SaveTypeOK, save_vars
    <2>2. (OneTable /\ Replaced /\ LoadIsWhole /\ SavedReadable)'
      BY <1>t, <1>8 DEF OneTable, Replaced, LoadIsWhole, SavedReadable, save_vars, Prefix
    <2> QED BY <2>1, <2>2 DEF SaveInv
  <1> QED
    BY <1>1, <1>2, <1>3, <1>4, <1>5, <1>6, <1>7, <1>8 DEF SaveNext

\* The invariant holds throughout.
THEOREM SaveInvariant == SaveSpec => []SaveInv
  BY SaveInvInit, SaveInvNext, PTL DEF SaveSpec

\* The variables of saved games have their types.
THEOREM SaveTypesHold == SaveSpec => []SaveTypeOK
  <1>1. SaveInv => SaveTypeOK
    BY DEF SaveInv
  <1> QED BY <1>1, SaveInvariant, PTL

\* A load gives the whole of one table that was saved, wherever saves before it
\* stopped.
THEOREM LoadsAreWhole == SaveSpec => []LoadIsWhole
  <1>1. SaveInv => LoadIsWhole
    BY DEF SaveInv
  <1> QED BY <1>1, SaveInvariant, PTL

\* A complete save stays readable until a later one replaces the file.
THEOREM SavesStayReadable == SaveSpec => []SavedReadable
  <1>1. SaveInv => SavedReadable
    BY DEF SaveInv
  <1> QED BY <1>1, SaveInvariant, PTL
-----------------------------------------------------------------------------
(* Recursion *)

\* What leads from each number's value to the next one's.
Steps(S) == [Nat -> [S -> S]]

\* The values from a on, up to that of n.
Runs(S, a, next, n) ==
  {f \in [0..n -> S] : f[0] = a /\ \A i \in 1..n : f[i] = next[i][f[i - 1]]}

\* What takes the same steps as long as its values are such.
Obeys(g, S, a, next, m) ==
  g[0] = a /\ \A i \in 1..m : g[i - 1] \in S => g[i] = next[i][g[i - 1]]

\* A function that a step defines from each number to the next exists.
LEMMA Recursion ==
  ASSUME NEW S, NEW a \in S, NEW next \in Steps(S), NEW n \in Nat
  PROVE  \E f : f \in Runs(S, a, next, n)
<1> DEFINE Is(f, m) == f[0] = a /\ \A i \in 1..m : f[i] = next[i][f[i - 1]]
           T == {m \in Nat : \E f \in [0..m -> S] : Is(f, m)}
<1> USE DEF Steps
<1>1. 0 \in T
  <2> DEFINE g == [i \in 0..0 |-> a]
  <2>1. g \in [0..0 -> S] /\ Is(g, 0)
    OBVIOUS
  <2> QED BY <2>1
<1>2. ASSUME NEW m \in T PROVE m + 1 \in T
  <2>1. PICK f \in [0..m -> S] : Is(f, m)
    OBVIOUS
  <2>2. m \in Nat /\ f[m] \in S /\ next[m + 1][f[m]] \in S
    OBVIOUS
  <2> DEFINE g == [i \in 0..(m + 1) |-> IF i <= m THEN f[i] ELSE next[m + 1][f[m]]]
  <2>3. g \in [0..(m + 1) -> S]
    BY <2>2
  <2>4. g[0] = a
    BY <2>1, <2>2
  <2>5. ASSUME NEW i \in 1..(m + 1) PROVE g[i] = next[i][g[i - 1]]
    <3>1. CASE i <= m
      <4>1. g[i] = f[i] /\ g[i - 1] = f[i - 1] /\ i \in 1..m
        BY <2>2, <3>1
      <4> QED BY <2>1, <4>1
    <3>2. CASE i = m + 1
      <4>1. g[i] = next[m + 1][f[m]] /\ g[i - 1] = f[m]
        BY <2>2, <3>2
      <4> QED BY <3>2, <4>1
    <3> QED BY <2>2, <3>1, <3>2
  <2> HIDE DEF g
  <2>6. Is(g, m + 1)
    BY <2>4, <2>5
  <2>7. m + 1 \in Nat
    BY <2>2
  <2> HIDE DEF Is
  <2> QED BY <2>3, <2>6, <2>7
<1>3. T = Nat
  <2>1. T \in SUBSET Nat
    OBVIOUS
  <2> HIDE DEF T
  <2> QED BY <1>1, <1>2, <2>1, Reaches
<1> QED BY <1>3 DEF Runs

\* There is one only: any function with the same beginning and steps agrees.
LEMMA RecursionUnique ==
  ASSUME NEW S, NEW a \in S, NEW next \in Steps(S), NEW n \in Nat,
         NEW f \in Runs(S, a, next, n),
         NEW m \in 0..n, NEW g, Obeys(g, S, a, next, m)
  PROVE  \A i \in 0..m : g[i] = f[i]
<1> DEFINE T == {i \in Nat : i <= m => g[i] = f[i]}
<1> USE DEF Steps, Runs, Obeys
<1>1. 0 \in T
  OBVIOUS
<1>2. ASSUME NEW i \in T PROVE i + 1 \in T
  <2> SUFFICES ASSUME i + 1 <= m PROVE g[i + 1] = f[i + 1]
    OBVIOUS
  <2>1. i + 1 \in 1..m /\ i + 1 \in 1..n /\ (i + 1) - 1 = i /\ i \in 0..n /\ g[i] = f[i]
    OBVIOUS
  <2>2. g[i] \in S
    BY <2>1
  <2> QED BY <2>1, <2>2
<1>3. T = Nat
  <2>1. T \in SUBSET Nat
    OBVIOUS
  <2> HIDE DEF T
  <2> QED BY <1>1, <1>2, <2>1, Reaches
<1> QED
  <2> SUFFICES ASSUME NEW i \in 0..m PROVE g[i] = f[i]
    OBVIOUS
  <2>1. i \in Nat /\ i <= m
    OBVIOUS
  <2>2. i \in T
    BY <1>3, <2>1
  <2> QED BY <2>1, <2>2
-----------------------------------------------------------------------------
\* What is joined up to each of some sequences.
Concatenated(S, seqs, k) ==
  {g \in [0..k -> Seq(S)] : g[0] = <<>> /\ \A i \in 1..k : g[i] = g[i - 1] \o seqs[i]}

\* FlattenSeq is the last of the sequences that adding one after the other gives.
LEMMA Flattens ==
  ASSUME NEW S, NEW seqs \in Seq(Seq(S)), NEW k \in Nat, k = Len(seqs)
  PROVE  \E g : g \in Concatenated(S, seqs, k) /\ FlattenSeq(seqs) = g[k]
<1> DEFINE A == Seq(S)
           next == [i \in Nat |-> [s \in Seq(S) |-> IF i \in 1..k THEN s \o seqs[i] ELSE s]]
<1>1. k \in Nat /\ \A i \in 1..k : seqs[i] \in Seq(S)
  OBVIOUS
<1>2. \A i \in Nat, s \in Seq(S) : (IF i \in 1..k THEN s \o seqs[i] ELSE s) \in Seq(S)
  BY <1>1
<1>b. next \in Steps(A)
  BY <1>2 DEF Steps
<1>3. <<>> \in A
  OBVIOUS
<1>4. \A i \in 1..k : \A s \in A : next[i][s] = s \o seqs[i]
  <2> TAKE i \in 1..k
  <2>1. i \in Nat /\ next[i] = [s \in Seq(S) |-> s \o seqs[i]]
    OBVIOUS
  <2> QED BY <2>1
<1>a. A = Seq(S)
  OBVIOUS
<1> HIDE DEF A
<1> HIDE DEF next
<1>c. PICK g : g \in Runs(A, <<>>, next, k)
  BY <1>b, <1>3, Recursion
<1>5. g \in [0..k -> A] /\ g[0] = <<>> /\ \A i \in 1..k : g[i] = next[i][g[i - 1]]
  BY <1>c DEF Runs
<1>6. \A i \in 1..k : g[i - 1] \in A /\ g[i] = g[i - 1] \o seqs[i]
  <2> TAKE i \in 1..k
  <2>1. i - 1 \in 0..k
    OBVIOUS
  <2> QED BY <1>4, <1>5, <2>1
<1>7. CASE k = 0
  <2>1. seqs = <<>>
    BY <1>7, EmptySeq
  <2> QED BY <1>a, <1>5, <1>6, <1>7, <2>1 DEF FlattenSeq, Concatenated
<1>8. CASE k > 0
  <2> DEFINE Is(f) == f = [i \in 1..k |-> IF i = 1 THEN seqs[i] ELSE f[i - 1] \o seqs[i]]
             e == [i \in 1..k |-> g[i]]
             flatten == CHOOSE f : Is(f)
             padded == [i \in 0..k |-> IF i = 0 THEN <<>> ELSE flatten[i]]
  <2>1. g[1] = seqs[1]
    <3>1. 1 \in 1..k /\ 1 - 1 = 0
      BY <1>8
    <3>2. g[1] = <<>> \o seqs[1]
      BY <1>5, <1>6, <3>1
    <3> QED BY <1>1, <3>1, <3>2
  <2>2. \A i \in 1..k : e[i] = IF i = 1 THEN seqs[i] ELSE e[i - 1] \o seqs[i]
    <3> TAKE i \in 1..k
    <3>1. i # 1 => i - 1 \in 1..k
      OBVIOUS
    <3>2. e[i] = g[i] /\ (i # 1 => e[i - 1] = g[i - 1])
      BY <3>1
    <3> HIDE DEF e
    <3> QED BY <1>6, <2>1, <3>2
  <2>3. Is(e)
    BY <2>2
  <2>4. Is(flatten)
    BY <2>3
  <2>5. FlattenSeq(seqs) = flatten[k]
    BY <1>8 DEF FlattenSeq
  <2> HIDE DEF flatten
  <2>6. \A i \in 1..k : flatten[i] = IF i = 1 THEN seqs[i] ELSE flatten[i - 1] \o seqs[i]
    BY <2>4
  <2> HIDE DEF Is
  <2>7. \A i \in 1..k : padded[i - 1] \in A => padded[i] = next[i][padded[i - 1]]
    <3> SUFFICES ASSUME NEW i \in 1..k, padded[i - 1] \in A
                 PROVE  padded[i] = padded[i - 1] \o seqs[i]
      BY <1>4
    <3>1. CASE i = 1
      <4>1. padded[i] = seqs[i] /\ padded[i - 1] = <<>>
        BY <2>6, <3>1
      <4> HIDE DEF padded
      <4>2. seqs[i] \in Seq(S)
        BY <1>1
      <4>3. <<>> \o seqs[i] = seqs[i]
        BY <4>2, ConcatEmptySeq
      <4> QED BY <4>1, <4>3
    <3>2. CASE i # 1
      <4>1. padded[i] = flatten[i] /\ padded[i - 1] = flatten[i - 1]
        BY <3>2
      <4> HIDE DEF padded
      <4> QED BY <2>6, <3>2, <4>1
    <3> HIDE DEF padded
    <3> QED BY <3>1, <3>2
  <2>8. padded[0] = <<>> /\ padded[k] = flatten[k] /\ k \in 0..k
    BY <1>1, <1>8
  <2> HIDE DEF padded
  <2>a. Obeys(padded, A, <<>>, next, k)
    BY <2>7, <2>8 DEF Obeys
  <2>9. \A i \in 0..k : padded[i] = g[i]
    BY <2>a,  <1>b, <1>c, <1>3, <2>7, <2>8, RecursionUnique
  <2>10. FlattenSeq(seqs) = g[k]
    BY <2>5, <2>8, <2>9
  <2>11. g \in [0..k -> Seq(S)]
    BY <1>a, <1>5
  <2>12. g \in Concatenated(S, seqs, k)
    BY <1>5, <1>6, <2>11 DEF Concatenated
  <2> QED BY <2>10, <2>12
<1>9. k = 0 \/ k > 0
  OBVIOUS
<1> QED BY <1>7, <1>8, <1>9
-----------------------------------------------------------------------------
(* Paths. *)

\* A container has slots of values, no more than there may be.
LEMMA HeapTyped ==
  ASSUME NEW h \in Heaps, NEW c \in Containers
  PROVE  /\ h[c].kind \in {"table", "array"}
         /\ h[c].slots \in Seq(Values)
         /\ Len(h[c].slots) \in 0..MaxSlots
<1>1. /\ h \in [Containers -> [kind: {"table", "array"}, slots: BoundedSeq(Values, MaxSlots)]]
      /\ MaxSlots \in Nat
  BY TableAssumption DEF Heaps
<1>2. h[c] \in [kind: {"table", "array"}, slots: BoundedSeq(Values, MaxSlots)]
  BY <1>1
<1>3. h[c].kind \in {"table", "array"} /\ h[c].slots \in BoundedSeq(Values, MaxSlots)
  BY <1>2
<1>4. PICK m \in 0..MaxSlots : h[c].slots \in [1..m -> Values]
  BY <1>3 DEF BoundedSeq, SeqOf
<1>5. h[c].slots \in Seq(Values) /\ Len(h[c].slots) = m
  BY <1>1, <1>4
<1> QED BY <1>3, <1>4, <1>5

\* Under a key there is a value.
LEMMA UnderTyped ==
  ASSUME heap \in Heaps, NEW v, NEW key
  PROVE  Under(v, key) \in Values
<1>1. CASE v \in Containers /\ key \in 1..Len(heap[v].slots)
  <2>1. heap[v].slots \in Seq(Values)
    BY <1>1, HeapTyped
  <2> QED BY <1>1, <2>1, ElementOfSeq DEF Under
<1>2. CASE ~(v \in Containers /\ key \in 1..Len(heap[v].slots))
  <2>1. Under(v, key) = "formless"
    BY <1>2 DEF Under
  <2> QED BY <2>1 DEF Values
<1> QED BY <1>1, <1>2

\* What a path passes.
Passes(g, p) ==
  /\ g \in [0..Len(p) -> Values]
  /\ g[0] = Root
  /\ \A i \in 1..Len(p) : g[i] = Under(g[i - 1], p[i])

\* A path begins with another one.
Begins(p, k) == Len(k) <= Len(p) /\ \A i \in 1..Len(k) : p[i] = k[i]

\* A path passes the targets of all that it begins with.
LEMMA PathPasses ==
  ASSUME heap \in Heaps, NEW p \in Seq(Nat)
  PROVE  \E g : Passes(g, p) /\ \A k \in Seq(Nat) : Begins(p, k) => Target(k) = g[Len(k)]
<1> DEFINE next == [i \in Nat |-> [v \in Values |-> Under(v, p[i])]]
<1>1. Root \in Values /\ Len(p) \in Nat
  BY TableAssumption DEF Values
<1>2. next \in Steps(Values)
  BY UnderTyped DEF Steps
<1>3. \A i \in Nat : \A v \in Values : next[i][v] = Under(v, p[i])
  OBVIOUS
<1> HIDE DEF next
<1>4. PICK g : g \in Runs(Values, Root, next, Len(p))
  BY <1>1, <1>2, Recursion
<1>5. /\ g \in [0..Len(p) -> Values] /\ g[0] = Root
      /\ \A i \in 1..Len(p) : g[i] = next[i][g[i - 1]]
  BY <1>4 DEF Runs
<1>6. \A i \in 1..Len(p) : g[i] = Under(g[i - 1], p[i])
  <2> TAKE i \in 1..Len(p)
  <2>1. i \in Nat /\ g[i - 1] \in Values
    BY <1>1, <1>5
  <2> QED BY <1>3, <1>5, <2>1
<1>7. ASSUME NEW k \in Seq(Nat), Begins(p, k) PROVE Target(k) = g[Len(k)]
  <2> DEFINE n == Len(k)
             Is(f) == f = [i \in 0..n |-> IF i = 0 THEN Root ELSE Under(f[i - 1], k[i])]
             e == [i \in 0..n |-> g[i]]
             along == CHOOSE f : Is(f)
  <2>1. n \in Nat /\ n \in 0..Len(p) /\ \A i \in 1..n : p[i] = k[i] /\ i \in 1..Len(p)
    BY <1>1, <1>7 DEF Begins
  <2>2. \A i \in 0..n : e[i] = IF i = 0 THEN Root ELSE Under(e[i - 1], k[i])
    <3> TAKE i \in 0..n
    <3>1. CASE i = 0
      BY <1>5, <3>1
    <3>2. CASE i # 0
      <4>1. i \in 1..n /\ i - 1 \in 0..n
        BY <2>1, <3>2
      <4>2. e[i] = g[i] /\ e[i - 1] = g[i - 1]
        BY <4>1
      <4> HIDE DEF e
      <4> QED BY <1>6, <2>1, <3>2, <4>1, <4>2
    <3> QED BY <3>1, <3>2
  <2>3. Is(e)
    BY <2>2
  <2>4. Is(along)
    BY <2>3
  <2>5. Target(k) = along[n]
    BY DEF Target
  <2> HIDE DEF along
  <2>6. /\ along[0] = Root
        /\ \A i \in 1..n : along[i] = Under(along[i - 1], k[i])
    <3>1. \A i \in 0..n : along[i] = IF i = 0 THEN Root ELSE Under(along[i - 1], k[i])
      BY <2>4
    <3> HIDE DEF Is, n, e
    <3>2. 0 \in 0..n /\ \A i \in 1..n : i \in 0..n /\ i # 0
      BY <2>1
    <3> QED BY <3>1, <3>2
  <2>7. Obeys(along, Values, Root, next, n)
    <3> SUFFICES ASSUME NEW i \in 1..n, along[i - 1] \in Values
                 PROVE  along[i] = next[i][along[i - 1]]
      BY <2>6 DEF Obeys
    <3>1. i \in Nat
      BY <2>1
    <3> QED BY <1>3, <2>1, <2>6, <3>1
  <2>8. \A i \in 0..n : along[i] = g[i]
    BY <1>1, <1>2, <1>4, <2>1, <2>7, RecursionUnique
  <2> QED BY <2>1, <2>5, <2>8
<1> QED BY <1>5, <1>6, <1>7 DEF Passes

\* One key further.
LEMMA TargetAppended ==
  ASSUME heap \in Heaps, NEW k \in Seq(Nat), NEW i \in Nat
  PROVE  Target(Append(k, i)) = Under(Target(k), i)
<1> DEFINE p == Append(k, i)
<1>1. p \in Seq(Nat) /\ Len(p) = Len(k) + 1 /\ Len(k) \in Nat /\ p[Len(k) + 1] = i
  OBVIOUS
<1>2. \A j \in 1..Len(k) : p[j] = k[j]
  OBVIOUS
<1> HIDE DEF p
<1>3. Begins(p, k) /\ Begins(p, p)
  BY <1>1, <1>2 DEF Begins
<1>4. PICK g : Passes(g, p) /\ \A q \in Seq(Nat) : Begins(p, q) => Target(q) = g[Len(q)]
  BY <1>1, PathPasses
<1>5. Target(p) = g[Len(k) + 1] /\ Target(k) = g[Len(k)]
  BY <1>1, <1>3, <1>4
<1>6. g[Len(k) + 1] = Under(g[Len(k)], i)
  <2>1. Len(k) + 1 \in 1..Len(p) /\ (Len(k) + 1) - 1 = Len(k)
    BY <1>1
  <2> QED BY <1>1, <1>4, <2>1 DEF Passes
<1> QED BY <1>5, <1>6 DEF p

\* No key leads to the table that is saved.
LEMMA TargetOfNothing ==
  ASSUME heap \in Heaps
  PROVE  Target(<<>>) = Root
<1>1. <<>> \in Seq(Nat) /\ Len(<<>>) = 0
  OBVIOUS
<1>2. Begins(<<>>, <<>>)
  BY <1>1 DEF Begins
<1>3. PICK g : Passes(g, <<>>) /\ \A q \in Seq(Nat) : Begins(<<>>, q) => Target(q) = g[Len(q)]
  BY <1>1, PathPasses
<1> QED BY <1>1, <1>2, <1>3 DEF Passes

\* Beyond what is no container there is nothing.
LEMMA DeadEnd ==
  ASSUME heap \in Heaps, NEW p \in Seq(Nat), NEW k \in Seq(Nat),
         Begins(p, k), Len(k) < Len(p), Target(k) \notin Containers
  PROVE  Target(p) = "formless"
<1>1. PICK g : Passes(g, p) /\ \A q \in Seq(Nat) : Begins(p, q) => Target(q) = g[Len(q)]
  BY PathPasses
<1>2. Len(p) \in Nat /\ Len(k) \in Nat /\ Len(k) < Len(p)
  OBVIOUS
<1>3. Begins(p, p)
  BY <1>2 DEF Begins
<1>4. g[Len(k)] \notin Containers /\ Target(p) = g[Len(p)]
  BY <1>1, <1>3
<1>5. \A i \in 1..Len(p) : g[i - 1] \notin Containers => g[i] = "formless"
  BY <1>1 DEF Passes, Under
<1>6. "formless" \notin Containers
  BY TableAssumption
<1> DEFINE T == {d \in Nat : Len(k) + 1 + d <= Len(p) => g[Len(k) + 1 + d] = "formless"}
<1>7. 0 \in T
  <2>1. Len(k) + 1 \in 1..Len(p) /\ (Len(k) + 1) - 1 = Len(k) /\ Len(k) + 1 + 0 = Len(k) + 1
    BY <1>2
  <2> QED BY <1>4, <1>5, <2>1
<1>8. ASSUME NEW d \in T PROVE d + 1 \in T
  <2> SUFFICES ASSUME Len(k) + 1 + (d + 1) <= Len(p)
               PROVE  g[Len(k) + 1 + (d + 1)] = "formless"
    OBVIOUS
  <2>1. /\ Len(k) + 1 + (d + 1) \in 1..Len(p) /\ Len(k) + 1 + d <= Len(p)
        /\ (Len(k) + 1 + (d + 1)) - 1 = Len(k) + 1 + d
    BY <1>2
  <2>2. g[Len(k) + 1 + d] = "formless"
    BY <2>1
  <2> QED BY <1>5, <1>6, <2>1, <2>2
<1>9. T = Nat
  <2>1. T \in SUBSET Nat
    OBVIOUS
  <2> HIDE DEF T
  <2> QED BY <1>7, <1>8, <2>1, Reaches
<1>10. Len(p) - Len(k) - 1 \in T
  <2> HIDE DEF T
  <2>1. Len(p) - Len(k) - 1 \in Nat
    BY <1>2
  <2> QED BY <1>9, <2>1
<1> QED BY <1>2, <1>4, <1>10
-----------------------------------------------------------------------------
(* What is held. *)

\* The keys a slot may have.
Keys == 1..MaxSlots

\* What is held beyond a path, and under its first keys or one key.
Beneath(k) == {u \in Holdings : Begins(u.path, k) /\ Len(k) < Len(u.path)}
UpTo(k, i) == {u \in Beneath(k) : u.path[Len(k) + 1] <= i}
UnderKey(k, i) == {u \in Beneath(k) : u.path[Len(k) + 1] = i}

\* A path of keys is one of numbers.
LEMMA KeysAreNumbers ==
  ASSUME NEW k \in Seq(Keys)
  PROVE  k \in Seq(Nat) /\ Len(k) \in Nat
<1>1. Keys \subseteq Nat
  BY TableAssumption DEF Keys
<1>2. Len(k) \in Nat /\ \A i \in 1..Len(k) : k[i] \in Keys
  BY ElementOfSeq
<1>3. k \in [1..Len(k) -> Nat]
  <2>1. k = [i \in 1..Len(k) |-> k[i]]
    OBVIOUS
  <2> QED BY <1>1, <1>2, <2>1
<1> QED BY <1>2, <1>3

\* What is held lies at the end of a path of some keys that leads somewhere.
LEMMA HoldingFacts ==
  ASSUME NEW u \in Holdings
  PROVE  /\ u.path \in Seq(Keys) /\ u.path \in Seq(Nat) /\ u.path # <<>>
         /\ Len(u.path) \in 1..MaxNesting /\ Target(u.path) # "formless" /\ u = ItemAt(u.path)
<1>1. PICK p \in BoundedSeq(1..MaxSlots, MaxNesting) :
             p # <<>> /\ Target(p) # "formless" /\ u = ItemAt(p)
  BY DEF Holdings
<1>2. u.path = p
  BY <1>1 DEF ItemAt
<1>3. PICK m \in 0..MaxNesting : p \in [1..m -> Keys]
  BY DEF BoundedSeq, SeqOf, Keys
<1>4. m \in Nat /\ Keys \subseteq Nat
  BY <1>3, TableAssumption DEF Keys
<1>5. p \in Seq(Keys) /\ p \in Seq(Nat) /\ Len(p) = m
  <2>1. p \in Seq(Keys) /\ Len(p) = m
    BY <1>3, <1>4
  <2> QED BY <2>1, KeysAreNumbers
<1>6. m # 0
  BY <1>1, <1>5, EmptySeq
<1> QED BY <1>1, <1>2, <1>3, <1>5, <1>6

\* What a path leads to is held, if it is not nested deeper than may be.
LEMMA IsHeld ==
  ASSUME NEW p \in Seq(Keys), p # <<>>, Len(p) <= MaxNesting, Target(p) # "formless"
  PROVE  ItemAt(p) \in Holdings /\ ItemAt(p).path = p
<1>1. Len(p) \in 0..MaxNesting /\ p \in [1..Len(p) -> Keys]
  BY TableAssumption
<1>2. p \in BoundedSeq(1..MaxSlots, MaxNesting)
  BY <1>1 DEF BoundedSeq, SeqOf, Keys
<1> QED BY <1>2 DEF Holdings, ItemAt

\* A longer path goes on with some key.
LEMMA GoesOn ==
  ASSUME NEW p \in Seq(Nat), NEW k \in Seq(Nat), Begins(p, k), Len(k) < Len(p)
  PROVE  /\ p[Len(k) + 1] \in Nat
         /\ Begins(p, Append(k, p[Len(k) + 1]))
         /\ Len(p) = Len(k) + 1 => p = Append(k, p[Len(k) + 1])
<1>1. Len(p) \in Nat /\ Len(k) \in Nat /\ Len(k) + 1 \in 1..Len(p)
  OBVIOUS
<1>2. p[Len(k) + 1] \in Nat
  BY <1>1
<1> DEFINE q == Append(k, p[Len(k) + 1])
<1>3. /\ q \in Seq(Nat) /\ Len(q) = Len(k) + 1 /\ q[Len(k) + 1] = p[Len(k) + 1]
      /\ \A j \in 1..Len(k) : q[j] = k[j]
  BY <1>1, <1>2
<1> HIDE DEF q
<1>4. \A j \in 1..Len(q) : p[j] = q[j]
  <2> TAKE j \in 1..Len(q)
  <2>1. j \in 1..Len(k) \/ j = Len(k) + 1
    BY <1>1, <1>3
  <2> QED BY <1>3, <2>1 DEF Begins
<1>5. Begins(p, q)
  BY <1>1, <1>3, <1>4 DEF Begins
<1>6. Len(p) = Len(k) + 1 => p = q
  BY <1>3, <1>4, SeqEqual
<1> QED BY <1>2, <1>5, <1>6 DEF q

\* Nothing is held beyond what is no container.
LEMMA NothingBeneath ==
  ASSUME heap \in Heaps, NEW k \in Seq(Keys), Target(k) \notin Containers
  PROVE  Beneath(k) = {}
<1> SUFFICES ASSUME NEW u \in Beneath(k) PROVE FALSE
  OBVIOUS
<1>1. /\ u.path \in Seq(Nat) /\ k \in Seq(Nat) /\ Target(u.path) # "formless"
      /\ Begins(u.path, k) /\ Len(k) < Len(u.path)
  BY HoldingFacts, KeysAreNumbers DEF Beneath
<1> QED BY <1>1, DeadEnd

\* Under a key are what it leads to, if that has a form, and what is beneath.
LEMMA UnderOneKey ==
  ASSUME heap \in Heaps, NEW k \in Seq(Keys), NEW i \in Keys, Len(k) < MaxNesting,
         NEW q, q = Append(k, i)
  PROVE  /\ q \in Seq(Keys) /\ Len(q) = Len(k) + 1
         /\ UnderKey(k, i) = (IF Target(q) = "formless" THEN {} ELSE {ItemAt(q)}) \cup Beneath(q)
<1>1. k \in Seq(Nat) /\ Len(k) \in Nat /\ i \in Nat /\ MaxNesting \in Nat
  BY KeysAreNumbers, TableAssumption DEF Keys
<1>2. q \in Seq(Keys) /\ Len(q) = Len(k) + 1 /\ q[Len(k) + 1] = i /\ q # <<>>
  OBVIOUS
<1>3. \A j \in 1..Len(k) : q[j] = k[j]
  BY <1>1
<1>4. Begins(q, k)
  BY <1>1, <1>2, <1>3 DEF Begins
<1>5. ASSUME NEW u \in UnderKey(k, i)
      PROVE  u \in (IF Target(q) = "formless" THEN {} ELSE {ItemAt(q)}) \cup Beneath(q)
  <2>1. /\ u \in Holdings /\ u.path \in Seq(Nat) /\ Target(u.path) # "formless"
        /\ u = ItemAt(u.path) /\ Begins(u.path, k) /\ Len(k) < Len(u.path)
        /\ u.path[Len(k) + 1] = i /\ Len(u.path) \in Nat
    BY HoldingFacts DEF UnderKey, Beneath
  <2>2. Begins(u.path, q) /\ (Len(u.path) = Len(k) + 1 => u.path = q)
    BY <1>1, <2>1, GoesOn
  <2>3. CASE Len(u.path) = Len(k) + 1
    BY <2>1, <2>2, <2>3
  <2>4. CASE Len(u.path) # Len(k) + 1
    BY <1>1, <1>2, <2>1, <2>2, <2>4 DEF Beneath
  <2> QED BY <2>3, <2>4
<1>6. ASSUME Target(q) # "formless" PROVE ItemAt(q) \in UnderKey(k, i)
  <2>1. Len(q) <= MaxNesting
    BY <1>1, <1>2
  <2>2. ItemAt(q) \in Holdings /\ ItemAt(q).path = q
    BY <1>2, <1>6, <2>1, IsHeld
  <2> DEFINE u == ItemAt(q)
  <2> HIDE DEF u
  <2>3. u \in Holdings /\ u.path = q
    BY <2>2 DEF u
  <2>4. Begins(u.path, k) /\ Len(k) < Len(u.path) /\ u.path[Len(k) + 1] = i
    BY <1>1, <1>2, <1>4, <2>3
  <2>5. u \in UnderKey(k, i)
    BY <2>3, <2>4 DEF UnderKey, Beneath
  <2> QED BY <2>5 DEF u
<1>7. ASSUME NEW u \in Beneath(q) PROVE u \in UnderKey(k, i)
  <2>1. u \in Holdings /\ Begins(u.path, q) /\ Len(q) < Len(u.path) /\ Len(u.path) \in Nat
    BY HoldingFacts DEF Beneath
  <2>2. /\ u.path[Len(k) + 1] = i /\ Len(k) < Len(u.path)
        /\ \A j \in 1..Len(k) : u.path[j] = k[j]
    <3>1. \A j \in 1..(Len(k) + 1) : u.path[j] = q[j]
      BY <1>2, <2>1 DEF Begins
    <3>2. Len(k) + 1 \in 1..(Len(k) + 1) /\ \A j \in 1..Len(k) : j \in 1..(Len(k) + 1)
      BY <1>1
    <3> QED BY <1>1, <1>2, <1>3, <2>1, <3>1, <3>2
  <2>3. Begins(u.path, k)
    BY <1>1, <2>1, <2>2 DEF Begins
  <2> QED BY <2>1, <2>2, <2>3 DEF UnderKey, Beneath
<1> QED BY <1>2, <1>5, <1>6, <1>7

\* All that is beneath a container is under its keys, one after the other.
LEMMA UnderAllKeys ==
  ASSUME heap \in Heaps, NEW k \in Seq(Keys), Target(k) \in Containers
  PROVE  /\ UpTo(k, 0) = {}
         /\ \A i \in Nat : UpTo(k, i + 1) = UpTo(k, i) \cup UnderKey(k, i + 1)
         /\ Beneath(k) = UpTo(k, Len(heap[Target(k)].slots))
<1>1. k \in Seq(Nat) /\ Len(k) \in Nat
  BY KeysAreNumbers
<1>2. ASSUME NEW u \in Beneath(k)
      PROVE  u.path[Len(k) + 1] \in 1..Len(heap[Target(k)].slots) /\ u.path[Len(k) + 1] \in Keys
  <2> DEFINE i == u.path[Len(k) + 1]
             q == Append(k, i)
  <2>1. /\ u.path \in Seq(Keys) /\ u.path \in Seq(Nat) /\ Target(u.path) # "formless"
        /\ Begins(u.path, k) /\ Len(k) < Len(u.path) /\ Len(u.path) \in Nat
    BY HoldingFacts DEF Beneath
  <2>2. i \in Keys
    <3>1. Len(k) + 1 \in 1..Len(u.path)
      BY <1>1, <2>1
    <3> QED BY <2>1, <3>1, ElementOfSeq
  <2>3. i \in Nat /\ Begins(u.path, q) /\ (Len(u.path) = Len(k) + 1 => u.path = q)
    BY <1>1, <2>1, GoesOn
  <2> HIDE DEF i
  <2>4. q \in Seq(Nat) /\ Len(q) = Len(k) + 1
    BY <1>1, <2>3
  <2>5. Target(q) = Under(Target(k), i)
    BY <1>1, <2>3, TargetAppended
  <2> HIDE DEF q
  <2>6. ASSUME i \notin 1..Len(heap[Target(k)].slots) PROVE FALSE
    <3>1. Target(q) = "formless"
      BY <2>5, <2>6 DEF Under
    <3>2. "formless" \notin Containers
      BY TableAssumption
    <3>3. CASE Len(u.path) = Len(k) + 1
      BY <2>1, <2>3, <3>1, <3>3
    <3>4. CASE Len(u.path) # Len(k) + 1
      <4>1. Len(q) < Len(u.path)
        BY <1>1, <2>1, <2>4, <3>4
      <4> QED BY <2>1, <2>3, <2>4, <3>1, <3>2, <4>1, DeadEnd
    <3> QED BY <3>3, <3>4
  <2> QED BY <2>2, <2>6 DEF i
<1>3. UpTo(k, 0) = {}
  <2>1. \A u \in Beneath(k) : ~(u.path[Len(k) + 1] <= 0)
    <3> TAKE u \in Beneath(k)
    <3>1. u.path[Len(k) + 1] \in Keys
      BY <1>2
    <3> QED BY <3>1, TableAssumption DEF Keys
  <2> QED BY <2>1 DEF UpTo
<1>4. ASSUME NEW i \in Nat PROVE UpTo(k, i + 1) = UpTo(k, i) \cup UnderKey(k, i + 1)
  <2>1. \A u \in Beneath(k) :
          u.path[Len(k) + 1] <= i + 1 <=> u.path[Len(k) + 1] <= i \/ u.path[Len(k) + 1] = i + 1
    <3> TAKE u \in Beneath(k)
    <3>1. u.path[Len(k) + 1] \in Int
      BY <1>2, TableAssumption DEF Keys
    <3> QED BY <3>1
  <2> QED BY <2>1 DEF UpTo, UnderKey
<1>5. Beneath(k) = UpTo(k, Len(heap[Target(k)].slots))
  <2>1. \A u \in Beneath(k) : u.path[Len(k) + 1] <= Len(heap[Target(k)].slots)
    <3> TAKE u \in Beneath(k)
    <3>1. u.path[Len(k) + 1] \in 1..Len(heap[Target(k)].slots)
      BY <1>2
    <3> QED BY <3>1
  <2> QED BY <2>1 DEF UpTo
<1> QED BY <1>3, <1>4, <1>5
-----------------------------------------------------------------------------
(* What is written. *)

\* A token, what is read of one, and the containers that lead to one.
Forms == [tag: {"scalar", "table", "array", "end"}, key: Nat, count: Nat]
Tokens == Forms \cup {Failure[1]}
Trails == Seq(Containers) \ {<<>>}

\* A token is a sequence of one.
LEMMA TokenTyped ==
  ASSUME NEW tag \in {"scalar", "table", "array", "end"},
         NEW key \in Nat, NEW count \in Nat
  PROVE  /\ Token(tag, key, count) \in Seq(Tokens) /\ Len(Token(tag, key, count)) = 1
         /\ Token(tag, key, count)[1] = [tag |-> tag, key |-> key, count |-> count]
<1>1. [tag |-> tag, key |-> key, count |-> count] \in Tokens
  BY DEF Tokens, Forms
<1> QED BY <1>1 DEF Token

\* The mark of a failed write is a sequence of one token, too.
LEMMA FailureTyped == Failure \in Seq(Tokens) /\ Len(Failure) = 1 /\ Failure[1].tag = "failure"
BY DEF Failure, Token, Tokens

\* A trail ends in a container, and any container may come next.
LEMMA TrailEnds ==
  ASSUME NEW path \in Trails
  PROVE  Last(path) \in Containers /\ \A c \in Containers : Append(path, c) \in Trails
<1>1. path \in Seq(Containers) /\ Len(path) \in Nat \ {0}
  BY EmptySeq DEF Trails
<1>2. Len(path) \in 1..Len(path)
  BY <1>1
<1>3. \A c \in Containers : Append(path, c) \in Seq(Containers) /\ Append(path, c) # <<>>
  BY <1>1
<1> QED BY <1>1, <1>2, <1>3, ElementOfSeq DEF Trails, Last

\* What w is, written of a slot that holds a value.
OfSlot(h, below, path, i, value, w) ==
  /\ value \in Values /\ i \in Keys /\ w \in Seq(Tokens)
  /\ value = "scalar" => w = Token("scalar", i, 0)
  /\ value = "formless" => w = <<>>
  /\ value = "badkey" => w = Failure
  /\ value \in Containers =>
       w = Token(h[value].kind, i, Len(h[value].slots)) \o below[Append(path, value)]

\* That is so of each slot.
LEMMA SlotWritten ==
  ASSUME NEW h \in Heaps, NEW below \in [Trails -> Seq(Tokens)], NEW path \in Trails,
         NEW i \in 1..Len(h[Last(path)].slots),
         NEW value, value = h[Last(path)].slots[i],
         NEW w, w = WrittenSlot(h, below, path, i)
  PROVE  OfSlot(h, below, path, i, value, w)
<1>1. Last(path) \in Containers
  BY TrailEnds
<1>2. h[Last(path)].slots \in Seq(Values) /\ Len(h[Last(path)].slots) \in 0..MaxSlots
  BY <1>1, HeapTyped
<1>3. value \in Values
  BY <1>2, ElementOfSeq
<1>4. i \in Keys /\ i \in Nat
  BY <1>2, TableAssumption DEF Keys
<1>5. value = "scalar" => w = Token("scalar", i, 0)
  BY DEF WrittenSlot
<1>6. value = "formless" => w = <<>>
  BY DEF WrittenSlot
<1>7. value = "badkey" => w = Failure
  BY DEF WrittenSlot
<1>8. ASSUME value \in Containers
      PROVE  w = Token(h[value].kind, i, Len(h[value].slots)) \o below[Append(path, value)]
  <2>1. value # "scalar" /\ value # "formless" /\ value # "badkey"
    BY <1>8, TableAssumption
  <2> QED BY <2>1 DEF WrittenSlot
<1>9. w \in Seq(Tokens)
  <2>1. CASE value \in Containers
    <3>1. Append(path, value) \in Trails
      BY <2>1, TrailEnds
    <3>2. /\ h[value].kind \in {"scalar", "table", "array", "end"}
          /\ Len(h[value].slots) \in Nat
      BY <2>1, HeapTyped, TableAssumption
    <3>3. Token(h[value].kind, i, Len(h[value].slots)) \in Seq(Tokens)
      BY <1>4, <3>2, TokenTyped
    <3>4. below[Append(path, value)] \in Seq(Tokens)
      BY <3>1
    <3>5. Token(h[value].kind, i, Len(h[value].slots)) \o below[Append(path, value)] \in Seq(Tokens)
      BY <3>3, <3>4, ConcatProperties
    <3> QED BY <1>8, <2>1, <3>5
  <2>2. CASE value = "scalar"
    <3>1. Token("scalar", i, 0) \in Seq(Tokens)
      BY <1>4, TokenTyped
    <3> QED BY <1>5, <2>2, <3>1
  <2>3. CASE value = "formless"
    BY <1>6, <2>3, EmptySeq
  <2>4. CASE value = "badkey"
    BY <1>7, <2>4, FailureTyped
  <2> QED BY <1>3, <2>1, <2>2, <2>3, <2>4 DEF Values
<1> QED BY <1>3, <1>4, <1>5, <1>6, <1>7, <1>8, <1>9 DEF OfSlot

\* What is written of the slots, up to each of them.
SlotsWritten(g, h, below, path, n) ==
  /\ g \in [0..n -> Seq(Tokens)]
  /\ g[0] = <<>>
  /\ \A i \in 1..n : g[i] = g[i - 1] \o WrittenSlot(h, below, path, i)

\* What is written of a container that has n slots.
OfContainer(h, below, path, n, w) ==
  /\ w \in Seq(Tokens)
  /\ \/ w = Failure
     \/ \E g : SlotsWritten(g, h, below, path, n) /\ w = g[n] \o Token("end", 0, 0)

\* That is so of each container.
LEMMA ContainerWritten ==
  ASSUME NEW h \in Heaps, NEW below \in [Trails -> Seq(Tokens)], NEW path \in Trails,
         NEW n, n = Len(h[Last(path)].slots),
         NEW w, w = WrittenContainer(h, below, path)
  PROVE  OfContainer(h, below, path, n, w)
<1> DEFINE seqs == [i \in 1..n |-> WrittenSlot(h, below, path, i)]
<1>1. n \in Nat
  <2>1. Last(path) \in Containers
    BY TrailEnds
  <2>2. n \in 0..MaxSlots
    BY <2>1, HeapTyped
  <2> QED BY <2>2
<1>2. \A i \in 1..n : WrittenSlot(h, below, path, i) \in Seq(Tokens)
  BY SlotWritten DEF OfSlot
<1>3. seqs \in Seq(Seq(Tokens)) /\ Len(seqs) = n /\ \A i \in 1..n : seqs[i] = WrittenSlot(h, below, path, i)
  BY <1>1, <1>2
<1>4. w = Failure \/ w = FlattenSeq(seqs) \o Token("end", 0, 0)
  BY DEF WrittenContainer
<1> HIDE DEF seqs
<1>5. PICK g : g \in Concatenated(Tokens, seqs, n) /\ FlattenSeq(seqs) = g[n]
  BY <1>1, <1>3, Flattens
<1>6. SlotsWritten(g, h, below, path, n)
  BY <1>3, <1>5 DEF SlotsWritten, Concatenated
<1>7. g[n] \in Seq(Tokens) /\ Token("end", 0, 0) \in Seq(Tokens)
  <2>1. n \in 0..n
    BY <1>1
  <2>2. g[n] \in Seq(Tokens)
    BY <1>6, <2>1 DEF SlotsWritten
  <2> QED BY <2>2 DEF Token, Tokens, Forms
<1>8. g[n] \o Token("end", 0, 0) \in Seq(Tokens)
  BY <1>7, ConcatProperties
<1> QED BY <1>4, <1>5, <1>6, <1>8, FailureTyped DEF OfContainer

\* What is written of the containers at the end of trails, with so many levels left.
Writes(W, h) ==
  /\ \A n \in 0..MaxNesting : W[n] \in [Trails -> Seq(Tokens)]
  /\ \A p \in Trails : W[0][p] = Failure
  /\ \A n \in 1..MaxNesting : \A p \in Trails : W[n][p] = WrittenContainer(h, W[n - 1], p)

\* The write is the last of its levels.
LEMMA WritingRuns ==
  ASSUME NEW h \in Heaps
  PROVE  \E W : Writes(W, h) /\ Written(h) = W[MaxNesting][<<Root>>]
<1> DEFINE A == [Trails -> Seq(Tokens)]
           a == [p \in Trails |-> Failure]
           Step(w) == [p \in Trails |-> WrittenContainer(h, w, p)]
           next == [n \in Nat |-> [w \in A |-> Step(w)]]
           Is(f) == f = [n \in 0..MaxNesting |->
                           [p \in Trails |-> IF n = 0 THEN Failure
                                             ELSE WrittenContainer(h, f[n - 1], p)]]
           left == CHOOSE f : Is(f)
<1>1. MaxNesting \in Nat /\ <<Root>> \in Trails
  BY TableAssumption DEF Trails
<1>2. a \in A
  BY FailureTyped
<1>3. \A w \in A : Step(w) \in A
  <2> TAKE w \in A
  <2>1. \A p \in Trails : WrittenContainer(h, w, p) \in Seq(Tokens)
    BY ContainerWritten DEF OfContainer
  <2> QED BY <2>1
<1>4. Written(h) = left[MaxNesting][<<Root>>]
  BY DEF Written, Trails
<1>5. \A w : \A p \in Trails : Step(w)[p] = WrittenContainer(h, w, p)
  OBVIOUS
<1>6. \A f : Is(f) <=> f = [n \in 0..MaxNesting |-> IF n = 0 THEN a ELSE Step(f[n - 1])]
  <2> TAKE f
  <2>1. \A n \in 0..MaxNesting :
          [p \in Trails |-> IF n = 0 THEN Failure ELSE WrittenContainer(h, f[n - 1], p)]
            = IF n = 0 THEN a ELSE Step(f[n - 1])
    OBVIOUS
  <2> HIDE DEF a, Step
  <2> QED BY <2>1
<1>7. \A p \in Trails : a[p] = Failure
  OBVIOUS
<1>8. A = [Trails -> Seq(Tokens)]
  OBVIOUS
<1> HIDE DEF A, a, Step
<1>9. next \in Steps(A)
  BY <1>3 DEF Steps
<1>10. \A n \in Nat : \A w \in A : next[n][w] = Step(w)
  OBVIOUS
<1> HIDE DEF next
<1>11. PICK g : g \in Runs(A, a, next, MaxNesting)
  BY <1>1, <1>2, <1>9, Recursion
<1>12. /\ g \in [0..MaxNesting -> A] /\ g[0] = a
       /\ \A n \in 1..MaxNesting : g[n] = Step(g[n - 1])
  <2>1. /\ g \in [0..MaxNesting -> A] /\ g[0] = a
        /\ \A n \in 1..MaxNesting : g[n] = next[n][g[n - 1]]
    BY <1>11 DEF Runs
  <2>2. \A n \in 1..MaxNesting : n \in Nat /\ n - 1 \in 0..MaxNesting
    BY <1>1
  <2> QED BY <1>10, <2>1, <2>2
<1>13. Is(g)
  <2>1. g = [n \in 0..MaxNesting |-> g[n]]
    BY <1>12
  <2>2. \A n \in 0..MaxNesting : g[n] = IF n = 0 THEN a ELSE Step(g[n - 1])
    <3>1. \A n \in 0..MaxNesting : n # 0 => n \in 1..MaxNesting
      BY <1>1
    <3> QED BY <1>12, <3>1
  <2>3. g = [n \in 0..MaxNesting |-> IF n = 0 THEN a ELSE Step(g[n - 1])]
    BY <2>1, <2>2
  <2> HIDE DEF Is
  <2> QED BY <1>6, <2>3
<1> HIDE DEF Is
<1>14. Is(left)
  BY <1>13
<1> HIDE DEF left
<1>15. left = [n \in 0..MaxNesting |-> IF n = 0 THEN a ELSE Step(left[n - 1])]
  BY <1>6, <1>14
<1>16. left[0] = a /\ \A n \in 1..MaxNesting : left[n] = Step(left[n - 1])
  <2>1. \A n \in 0..MaxNesting : left[n] = IF n = 0 THEN a ELSE Step(left[n - 1])
    BY <1>15
  <2>2. 0 \in 0..MaxNesting /\ \A n \in 1..MaxNesting : n \in 0..MaxNesting /\ n # 0
    BY <1>1
  <2> QED BY <2>1, <2>2
<1>17. Obeys(left, A, a, next, MaxNesting)
  <2>1. \A n \in 1..MaxNesting : n \in Nat
    BY <1>1
  <2> QED BY <1>10, <1>16, <2>1 DEF Obeys
<1>18. \A n \in 0..MaxNesting : left[n] = g[n]
  <2>1. MaxNesting \in 0..MaxNesting
    BY <1>1
  <2> QED BY <1>1, <1>2, <1>9, <1>11, <1>17, <2>1, RecursionUnique
<1>19. \A n \in 0..MaxNesting : left[n] \in [Trails -> Seq(Tokens)]
  BY <1>8, <1>12, <1>18
<1>20. Writes(left, h)
  BY <1>5, <1>7, <1>16, <1>19 DEF Writes
<1> QED BY <1>4, <1>20
-----------------------------------------------------------------------------
(* The reader. *)

\* What the reader can find, and the states it can be in.
Items == [path: Seq(Nat), tag: {"scalar", "table", "array", "end", "failure"}, count: Nat]
ReaderStates == [path: Seq(Nat), items: SUBSET Items, status: {"more", "done", "failed"}]

\* A token leads from a state of the reader to one.
LEMMA ReadTyped ==
  ASSUME NEW r \in ReaderStates, NEW t \in Tokens
  PROVE  ReadToken(r, t) \in ReaderStates
<1>1. /\ r.path \in Seq(Nat) /\ r.items \in SUBSET Items
      /\ r.status \in {"more", "done", "failed"}
      /\ r = [path |-> r.path, items |-> r.items, status |-> r.status]
  BY DEF ReaderStates
<1>2. /\ t.key \in Nat /\ t.count \in Nat
      /\ t.tag \in {"scalar", "table", "array", "end", "failure"}
  BY DEF Tokens, Forms, Failure, Token
<1>3. Append(r.path, t.key) \in Seq(Nat)
  BY <1>1, <1>2
<1>4. Item(r.path, t) \in Items
  BY <1>2, <1>3 DEF Item, Items
<1>5. ASSUME r.path # <<>> PROVE Front(r.path) \in Seq(Nat)
  <2>1. Len(r.path) \in Nat \ {0}
    BY <1>1, <1>5, EmptySeq
  <2>2. \A i \in 1..(Len(r.path) - 1) : r.path[i] \in Nat
    BY <1>1, <2>1
  <2> QED BY <1>1, <2>1, <2>2 DEF Front
<1>6. ASSUME NEW p \in Seq(Nat), NEW m \in SUBSET Items, NEW s \in {"more", "done", "failed"}
      PROVE  [path |-> p, items |-> m, status |-> s] \in ReaderStates
  BY DEF ReaderStates
<1>7. ReadEnd(r) \in ReaderStates
  <2>1. CASE r.path = <<>>
    <3>1. ReadEnd(r) = [path |-> r.path, items |-> r.items, status |-> "done"]
      BY <1>1, <2>1 DEF ReadEnd
    <3> QED BY <1>1, <1>6, <3>1
  <2>2. CASE r.path # <<>>
    <3>1. ReadEnd(r) = [path |-> Front(r.path), items |-> r.items, status |-> r.status]
      BY <1>1, <2>2 DEF ReadEnd
    <3> QED BY <1>1, <1>5, <1>6, <2>2, <3>1
  <2> QED BY <2>1, <2>2
<1>8. ReadNested(r, t) \in ReaderStates
  <2>1. CASE t.tag = "array" /\ t.count > MaxArray
    <3>1. ReadNested(r, t) = [path |-> r.path, items |-> r.items, status |-> "failed"]
      BY <1>1, <2>1 DEF ReadNested
    <3> QED BY <1>1, <1>6, <3>1
  <2>2. CASE ~(t.tag = "array" /\ t.count > MaxArray)
    <3>1. PICK s \in {"more", "failed"} :
             ReadNested(r, t) = [path |-> Append(r.path, t.key),
                                 items |-> r.items \cup {Item(r.path, t)}, status |-> s]
      BY <2>2 DEF ReadNested
    <3>2. r.items \cup {Item(r.path, t)} \in SUBSET Items
      BY <1>1, <1>4
    <3> QED BY <1>3, <1>6, <3>1, <3>2
  <2> QED BY <2>1, <2>2
<1>9. ASSUME t.tag = "scalar"
      PROVE  [r EXCEPT !.items = @ \cup {Item(r.path, t)}] \in ReaderStates
  <2> DEFINE m == r.items \cup {Item(r.path, t)}
  <2>0. [r EXCEPT !.items = @ \cup {Item(r.path, t)}] = [r EXCEPT !.items = m]
    OBVIOUS
  <2> HIDE DEF m
  <2>1. [r EXCEPT !.items = m] = [path |-> r.path, items |-> m, status |-> r.status]
    BY <1>1
  <2>2. m \in SUBSET Items
    BY <1>1, <1>4 DEF m
  <2>3. [path |-> r.path, items |-> m, status |-> r.status] \in ReaderStates
    BY <1>1, <1>6, <2>2
  <2> QED BY <2>0, <2>1, <2>3
<1>10. \/ ReadToken(r, t) = r
       \/ ReadToken(r, t) = ReadEnd(r)
       \/ ReadToken(r, t) = ReadNested(r, t)
       \/ t.tag = "scalar" /\ ReadToken(r, t) = [r EXCEPT !.items = @ \cup {Item(r.path, t)}]
  BY DEF ReadToken
<1> QED BY <1>7, <1>8, <1>9, <1>10

\* The reader behind each of the tokens.
Reads(f) ==
  /\ \A i \in 0..Len(stream) : f[i] \in ReaderStates
  /\ f[0] = Reading
  /\ \A i \in 1..Len(stream) : f[i] = ReadToken(f[i - 1], stream[i])

\* There is one way to read a stream, and a shorter load reads the beginning of it.
LEMMA ReadingRuns ==
  ASSUME stream \in Seq(Tokens)
  PROVE  \E f : Reads(f) /\ \A n \in 0..Len(stream) : Behind(n) = f[n]
<1> DEFINE k == Len(stream)
           next == [i \in Nat |-> [r \in ReaderStates |->
                      IF i \in 1..k THEN ReadToken(r, stream[i]) ELSE r]]
<1>1. k \in Nat /\ \A i \in 1..k : stream[i] \in Tokens
  BY ElementOfSeq
<1> HIDE DEF k
<1>2. Reading \in ReaderStates
  BY DEF Reading, ReaderStates
<1>3. next \in Steps(ReaderStates)
  <2>1. \A i \in Nat : \A r \in ReaderStates :
          (IF i \in 1..k THEN ReadToken(r, stream[i]) ELSE r) \in ReaderStates
    BY <1>1, ReadTyped
  <2> QED BY <2>1 DEF Steps
<1>4. \A i \in 1..k : \A r \in ReaderStates : next[i][r] = ReadToken(r, stream[i])
  <2> TAKE i \in 1..k
  <2>1. next[i] = [r \in ReaderStates |-> ReadToken(r, stream[i])]
    BY <1>1
  <2> QED BY <2>1
<1> HIDE DEF next
<1>5. PICK f : f \in Runs(ReaderStates, Reading, next, k)
  BY <1>1, <1>2, <1>3, Recursion
<1>6. /\ f \in [0..k -> ReaderStates] /\ f[0] = Reading
      /\ \A i \in 1..k : f[i] = next[i][f[i - 1]]
  BY <1>5 DEF Runs
<1>7. \A i \in 1..k : f[i] = ReadToken(f[i - 1], stream[i])
  <2> TAKE i \in 1..k
  <2>1. f[i - 1] \in ReaderStates
    BY <1>1, <1>6
  <2> QED BY <1>4, <1>6, <2>1
<1>8. ASSUME NEW n \in 0..k PROVE Behind(n) = f[n]
  <2> DEFINE Is(e) == e = [i \in 0..n |-> IF i = 0 THEN Reading
                                            ELSE ReadToken(e[i - 1], stream[i])]
             here == [i \in 0..n |-> f[i]]
             behind == CHOOSE e : Is(e)
  <2>1. n \in Nat /\ n <= k /\ n \in 0..n /\ \A i \in 1..n : i \in 1..k
    BY <1>1
  <2>2. \A i \in 0..n : here[i] = IF i = 0 THEN Reading ELSE ReadToken(here[i - 1], stream[i])
    <3> TAKE i \in 0..n
    <3>1. CASE i = 0
      BY <1>6, <3>1
    <3>2. CASE i # 0
      <4>1. i \in 1..n /\ i - 1 \in 0..n
        BY <2>1, <3>2
      <4>2. here[i] = f[i] /\ here[i - 1] = f[i - 1]
        BY <4>1
      <4> HIDE DEF here
      <4> QED BY <1>7, <2>1, <3>2, <4>1, <4>2
    <3> QED BY <3>1, <3>2
  <2>3. Is(here)
    BY <2>2
  <2>4. Is(behind)
    BY <2>3
  <2>5. Behind(n) = behind[n]
    BY DEF Behind
  <2> HIDE DEF behind
  <2>6. \A i \in 0..n : behind[i] = IF i = 0 THEN Reading ELSE ReadToken(behind[i - 1], stream[i])
    BY <2>4
  <2> HIDE DEF Is, here
  <2>7. Obeys(behind, ReaderStates, Reading, next, n)
    <3>1. behind[0] = Reading
      BY <2>1, <2>6
    <3>2. ASSUME NEW i \in 1..n, behind[i - 1] \in ReaderStates
          PROVE  behind[i] = next[i][behind[i - 1]]
      <4>1. i \in 0..n /\ i # 0
        BY <2>1
      <4> QED BY <1>4, <2>1, <2>6, <3>2, <4>1
    <3> QED BY <3>1, <3>2 DEF Obeys
  <2>8. \A i \in 0..n : behind[i] = f[i]
    <3>1. k \in Nat /\ n \in 0..k
      BY <1>1
    <3> HIDE DEF Is, here
    <3> QED BY <1>2, <1>3, <1>5, <2>7, <3>1, RecursionUnique
  <2> QED BY <2>1, <2>5, <2>8
<1>9. Reads(f)
  BY <1>6, <1>7 DEF Reads, k
<1> QED BY <1>8, <1>9 DEF k
-----------------------------------------------------------------------------
(* What reading some tokens adds. *)

\* None of what is held is an array that is too long.
Fits(H) == \A u \in H : u.count <= MaxArray

\* Behind l tokens from o on the reader is at path and has H besides, or it has
\* failed over an array of H that is too long; on the way it has only what is of H.
Adds(f, o, l, path, H) ==
  /\ \A j \in 0..l : f[o + j].items \subseteq f[o].items \cup H /\ f[o + j].status # "done"
  /\ Fits(H) => f[o + l] = [path |-> path, items |-> f[o].items \cup H, status |-> "more"]
  /\ ~Fits(H) => f[o + l].status = "failed"

\* A reader that has ended stays as it is.
LEMMA Ended ==
  ASSUME NEW f, Reads(f), stream \in Seq(Tokens), NEW o \in Nat, NEW l \in Nat,
         o + l <= Len(stream), f[o].status # "more"
  PROVE  f[o + l] = f[o]
<1>1. Len(stream) \in Nat
  OBVIOUS
<1> DEFINE T == {d \in Nat : d <= l => f[o + d] = f[o]}
<1>2. 0 \in T
  OBVIOUS
<1>3. ASSUME NEW d \in T PROVE d + 1 \in T
  <2> SUFFICES ASSUME d + 1 <= l PROVE f[o + (d + 1)] = f[o]
    OBVIOUS
  <2>1. /\ o + (d + 1) \in 1..Len(stream) /\ (o + (d + 1)) - 1 = o + d
        /\ f[o + d] = f[o]
    BY <1>1
  <2>2. f[o + (d + 1)] = ReadToken(f[o + d], stream[o + (d + 1)])
    BY <2>1 DEF Reads
  <2> QED BY <2>1, <2>2 DEF ReadToken
<1>4. T = Nat
  <2>1. T \in SUBSET Nat
    OBVIOUS
  <2> HIDE DEF T
  <2> QED BY <1>2, <1>3, <2>1, Reaches
<1>5. l \in T
  BY <1>4
<1> QED BY <1>5

\* What two runs of tokens add; a reader that failed over the first adds nothing more.
LEMMA AddsBoth ==
  ASSUME NEW f, Reads(f), stream \in Seq(Tokens), NEW o \in Nat, NEW l \in Nat, NEW m \in Nat,
         o + l + m <= Len(stream), NEW p, NEW q, NEW H, NEW G,
         Adds(f, o, l, p, H),
         f[o + l].status = "more" => Adds(f, o + l, m, q, G)
  PROVE  Adds(f, o, l + m, q, H \cup G)
<1>1. Len(stream) \in Nat
  OBVIOUS
<1>2. \A j \in 0..(l + m) : j \in 0..l \/ \E d \in 0..m : j = l + d
  <2> TAKE j \in 0..(l + m)
  <2>1. j \notin 0..l => j - l \in 0..m /\ j = l + (j - l)
    OBVIOUS
  <2> QED BY <2>1
<1>3. \A j \in 0..l : f[o + j].items \subseteq f[o].items \cup H /\ f[o + j].status # "done"
  BY DEF Adds
<1>4. Fits(H \cup G) <=> Fits(H) /\ Fits(G)
  BY DEF Fits
<1>5. \A d \in 0..m : o + (l + d) = (o + l) + d
  OBVIOUS
<1>6. CASE Fits(H)
  <2>1. f[o + l] = [path |-> p, items |-> f[o].items \cup H, status |-> "more"]
    BY <1>6 DEF Adds
  <2>2. f[o + l].items = f[o].items \cup H /\ f[o + l].status = "more"
    BY <2>1
  <2>3. Adds(f, o + l, m, q, G)
    BY <2>2
  <2>4. \A d \in 0..m : /\ f[o + (l + d)].items \subseteq f[o].items \cup (H \cup G)
                         /\ f[o + (l + d)].status # "done"
    <3> TAKE d \in 0..m
    <3>1. /\ f[(o + l) + d].items \subseteq f[o + l].items \cup G
          /\ f[(o + l) + d].status # "done"
      BY <2>3 DEF Adds
    <3> QED BY <1>5, <2>2, <3>1
  <2>5. \A j \in 0..(l + m) : /\ f[o + j].items \subseteq f[o].items \cup (H \cup G)
                              /\ f[o + j].status # "done"
    <3> TAKE j \in 0..(l + m)
    <3>1. CASE j \in 0..l
      <4>1. f[o + j].items \subseteq f[o].items \cup H /\ f[o + j].status # "done"
        BY <1>3, <3>1
      <4> QED BY <4>1
    <3>2. CASE \E d \in 0..m : j = l + d
      BY <2>4, <3>2
    <3> QED BY <1>2, <3>1, <3>2
  <2>6. f[o + (l + m)] = f[(o + l) + m]
    BY <1>5
  <2>7. ASSUME Fits(G)
        PROVE  f[o + (l + m)] = [path |-> q, items |-> f[o].items \cup (H \cup G), status |-> "more"]
    <3>1. f[(o + l) + m] = [path |-> q, items |-> f[o + l].items \cup G, status |-> "more"]
      BY <2>3, <2>7 DEF Adds
    <3>2. f[o + l].items \cup G = f[o].items \cup (H \cup G)
      BY <2>2
    <3> QED BY <2>6, <3>1, <3>2
  <2>8. ~Fits(G) => f[o + (l + m)].status = "failed"
    BY <2>3, <2>6 DEF Adds
  <2> QED BY <1>4, <1>6, <2>5, <2>7, <2>8 DEF Adds
<1>7. CASE ~Fits(H)
  <2>1. f[o + l].status = "failed"
    BY <1>7 DEF Adds
  <2>2. \A d \in 0..m : f[o + (l + d)] = f[o + l]
    <3> TAKE d \in 0..m
    <3>1. o + l \in Nat /\ d \in Nat /\ (o + l) + d <= Len(stream) /\ f[o + l].status # "more"
      BY <1>1, <2>1
    <3>2. f[(o + l) + d] = f[o + l]
      BY <3>1, Ended
    <3> QED BY <1>5, <3>2
  <2>3. f[o + l].items \subseteq f[o].items \cup H
    <3>1. l \in 0..l
      OBVIOUS
    <3> QED BY <1>3, <3>1
  <2>4. \A j \in 0..(l + m) : /\ f[o + j].items \subseteq f[o].items \cup (H \cup G)
                              /\ f[o + j].status # "done"
    <3> TAKE j \in 0..(l + m)
    <3>1. CASE j \in 0..l
      <4>1. f[o + j].items \subseteq f[o].items \cup H /\ f[o + j].status # "done"
        BY <1>3, <3>1
      <4> QED BY <4>1
    <3>2. CASE \E d \in 0..m : j = l + d
      BY <2>1, <2>2, <2>3, <3>2
    <3> QED BY <1>2, <3>1, <3>2
  <2>5. f[o + (l + m)].status = "failed"
    BY <2>1, <2>2
  <2> QED BY <1>4, <1>7, <2>4, <2>5 DEF Adds
<1> QED BY <1>6, <1>7

\* Tokens lie in the stream.
Lies(o, w) == o + Len(w) <= Len(stream) /\ \A j \in 1..Len(w) : stream[o + j] = w[j]

\* Where a sequence lies, its parts lie one behind the other.
LEMMA PartsLie ==
  ASSUME stream \in Seq(Tokens), NEW o \in Nat, NEW u \in Seq(Tokens), NEW v \in Seq(Tokens),
         NEW w, w = u \o v, Lies(o, w)
  PROVE  /\ Lies(o, u) /\ Lies(o + Len(u), v)
         /\ w \in Seq(Tokens) /\ Len(w) = Len(u) + Len(v)
<1>1. Len(u) \in Nat /\ Len(v) \in Nat /\ Len(stream) \in Nat
  OBVIOUS
<1>2. /\ w \in Seq(Tokens) /\ Len(w) = Len(u) + Len(v)
      /\ \A i \in 1..(Len(u) + Len(v)) : w[i] = IF i <= Len(u) THEN u[i] ELSE v[i - Len(u)]
  BY ConcatProperties
<1>3. \A j \in 1..Len(u) : stream[o + j] = u[j]
  <2> TAKE j \in 1..Len(u)
  <2>1. j \in 1..(Len(u) + Len(v)) /\ j <= Len(u)
    BY <1>1
  <2> QED BY <1>2, <2>1 DEF Lies
<1>4. \A j \in 1..Len(v) : stream[(o + Len(u)) + j] = v[j]
  <2> TAKE j \in 1..Len(v)
  <2>1. /\ Len(u) + j \in 1..(Len(u) + Len(v)) /\ ~(Len(u) + j <= Len(u))
        /\ (Len(u) + j) - Len(u) = j /\ (o + Len(u)) + j = o + (Len(u) + j)
    BY <1>1
  <2> QED BY <1>2, <2>1 DEF Lies
<1> QED BY <1>1, <1>2, <1>3, <1>4 DEF Lies
\* A stream that was left holds no failure.
LEMMA FailureLiesNowhere ==
  ASSUME \A i \in 1..Len(stream) : stream[i] # Failure[1], NEW o \in Nat, stream \in Seq(Tokens),
         Lies(o, Failure)
  PROVE  FALSE
<1>1. Len(Failure) = 1 /\ Len(stream) \in Nat
  BY FailureTyped
<1>2. o + 1 \in 1..Len(stream) /\ stream[o + 1] = Failure[1]
  BY <1>1 DEF Lies
<1> QED BY <1>2

\* The reader is open to what comes, at a path.
Ready(f, o, k) == o \in Nat /\ f[o].status = "more" /\ f[o].path = k

\* What one token does.
LEMMA OneToken ==
  ASSUME NEW f, Reads(f), stream \in Seq(Tokens), NEW o \in Nat, NEW t \in Tokens,
         NEW w, w = <<t>>, Lies(o, w), NEW k, Ready(f, o, k)
  PROVE  /\ f[o + 1] = ReadToken(f[o], t) /\ f[o] \in ReaderStates
         /\ f[o] = [path |-> k, items |-> f[o].items, status |-> "more"]
<1>1. Len(w) = 1 /\ w[1] = t /\ Len(stream) \in Nat
  OBVIOUS
<1>2. o + 1 \in 1..Len(stream) /\ (o + 1) - 1 = o /\ stream[o + 1] = t /\ o \in 0..Len(stream)
  BY <1>1 DEF Lies
<1>3. f[o] \in ReaderStates
  BY <1>2 DEF Reads
<1>4. f[o + 1] = ReadToken(f[o], t)
  BY <1>2 DEF Reads
<1>5. f[o] = [path |-> f[o].path, items |-> f[o].items, status |-> f[o].status]
  BY <1>3 DEF ReaderStates
<1> QED BY <1>3, <1>4, <1>5 DEF Ready

\* One step that goes on, with one item more.
LEMMA AddsOne ==
  ASSUME NEW f, NEW o \in Nat, NEW k, NEW u, u.count <= MaxArray,
         f[o].status = "more",
         f[o + 1] = [path |-> k, items |-> f[o].items \cup {u}, status |-> "more"]
  PROVE  Adds(f, o, 1, k, {u})
<1>1. Fits({u})
  BY DEF Fits
<1>2. f[o + 1].items = f[o].items \cup {u} /\ f[o + 1].status = "more" /\ o + 0 = o
  OBVIOUS
<1>3. \A j \in 0..1 : j = 0 \/ j = 1
  OBVIOUS
<1>4. \A j \in 0..1 : f[o + j].items \subseteq f[o].items \cup {u} /\ f[o + j].status # "done"
  BY <1>2, <1>3
<1> QED BY <1>1, <1>4 DEF Adds

\* A scalar adds one item.
LEMMA ScalarAdds ==
  ASSUME NEW f, Reads(f), stream \in Seq(Tokens), NEW o \in Nat, NEW k \in Seq(Keys), Ready(f, o, k),
         NEW i \in Keys, Lies(o, Token("scalar", i, 0)),
         NEW q, q = Append(k, i), Target(q) = "scalar"
  PROVE  Adds(f, o, 1, k, {ItemAt(q)})
<1> DEFINE t == [tag |-> "scalar", key |-> i, count |-> 0]
<1>1. t \in Tokens /\ Token("scalar", i, 0) = <<t>>
  BY TableAssumption DEF Tokens, Forms, Token, Keys
<1>2. ItemAt(q) = [path |-> q, tag |-> "scalar", count |-> 0]
  BY TableAssumption DEF ItemAt
<1>3. Item(k, t) = ItemAt(q)
  BY <1>2 DEF Item
<1>4. t.tag = "scalar"
  OBVIOUS
<1> HIDE DEF t
<1>5. /\ f[o + 1] = ReadToken(f[o], t)
      /\ f[o] = [path |-> k, items |-> f[o].items, status |-> "more"]
  BY <1>1, OneToken
<1>6. f[o].path = k /\ f[o].status = "more"
  BY DEF Ready
<1>7. ReadToken(f[o], t) = [f[o] EXCEPT !.items = @ \cup {ItemAt(q)}]
  BY <1>3, <1>4, <1>6 DEF ReadToken
<1>8. [f[o] EXCEPT !.items = @ \cup {ItemAt(q)}]
        = [path |-> k, items |-> f[o].items \cup {ItemAt(q)}, status |-> "more"]
  <2> DEFINE m == f[o].items \cup {ItemAt(q)}
  <2>1. [f[o] EXCEPT !.items = @ \cup {ItemAt(q)}] = [f[o] EXCEPT !.items = m]
    OBVIOUS
  <2> HIDE DEF m
  <2>2. [f[o] EXCEPT !.items = m] = [path |-> k, items |-> m, status |-> "more"]
    BY <1>5
  <2> QED BY <2>1, <2>2 DEF m
<1>9. ItemAt(q).count <= MaxArray
  BY <1>2, TableAssumption
<1> QED BY <1>5, <1>6, <1>7, <1>8, <1>9, AddsOne

\* The token of a container adds the container, unless it is an array that is too
\* long, and the reader goes on inside.
LEMMA NestedAdds ==
  ASSUME NEW f, Reads(f), stream \in Seq(Tokens), heap \in Heaps,
         NEW o \in Nat, NEW k \in Seq(Keys), Ready(f, o, k), Len(k) + 2 <= MaxNesting,
         NEW i \in Keys, NEW q, q = Append(k, i), NEW c \in Containers, Target(q) = c,
         Lies(o, Token(heap[c].kind, i, Len(heap[c].slots)))
  PROVE  Adds(f, o, 1, q, {ItemAt(q)})
<1> DEFINE t == [tag |-> heap[c].kind, key |-> i, count |-> Len(heap[c].slots)]
<1>1. heap[c].kind \in {"table", "array"} /\ Len(heap[c].slots) \in Nat
  BY HeapTyped, TableAssumption
<1>2. t \in Tokens /\ Token(heap[c].kind, i, Len(heap[c].slots)) = <<t>>
  BY <1>1, TableAssumption DEF Tokens, Forms, Token, Keys
<1>3. ItemAt(q) = [path |-> q, tag |-> heap[c].kind,
                   count |-> IF heap[c].kind = "array" THEN Len(heap[c].slots) ELSE 0]
  BY DEF ItemAt
<1>4. Item(k, t) = ItemAt(q)
  BY <1>3 DEF Item
<1>5. t.tag = heap[c].kind /\ t.count = Len(heap[c].slots) /\ t.key = i
  OBVIOUS
<1> HIDE DEF t
<1>6. /\ f[o + 1] = ReadToken(f[o], t)
      /\ f[o] = [path |-> k, items |-> f[o].items, status |-> "more"]
  BY <1>2, OneToken
<1>7. f[o].path = k /\ f[o].status = "more"
  BY DEF Ready
<1>8. ReadToken(f[o], t) = ReadNested(f[o], t)
  BY <1>1, <1>5, <1>7 DEF ReadToken
<1>9. CASE heap[c].kind = "array" /\ Len(heap[c].slots) > MaxArray
  <2>1. f[o + 1] = [f[o] EXCEPT !.status = "failed"]
    BY <1>5, <1>6, <1>8, <1>9 DEF ReadNested
  <2>2. [f[o] EXCEPT !.status = "failed"] = [path |-> k, items |-> f[o].items, status |-> "failed"]
    <3> DEFINE r == f[o]
               m == f[o].items
    <3>1. r = [path |-> k, items |-> m, status |-> "more"]
      BY <1>6
    <3> HIDE DEF r, m
    <3>2. [r EXCEPT !.status = "failed"] = [path |-> k, items |-> m, status |-> "failed"]
      BY <3>1
    <3> QED BY <3>2 DEF r, m
  <2>3. f[o + 1].items = f[o].items /\ f[o + 1].status = "failed" /\ o + 0 = o
    BY <2>1, <2>2
  <2>4. ~Fits({ItemAt(q)})
    <3>1. ItemAt(q).count = Len(heap[c].slots)
      BY <1>3, <1>9
    <3> QED BY <1>1, <1>9, <3>1, TableAssumption DEF Fits
  <2>5. \A j \in 0..1 : j = 0 \/ j = 1
    OBVIOUS
  <2>6. \A j \in 0..1 : /\ f[o + j].items \subseteq f[o].items \cup {ItemAt(q)}
                       /\ f[o + j].status # "done"
    BY <1>7, <2>3, <2>5
  <2> QED BY <2>3, <2>4, <2>6 DEF Adds
<1>10. CASE ~(heap[c].kind = "array" /\ Len(heap[c].slots) > MaxArray)
  <2>1. ~(Len(f[o].path) + 2 > MaxNesting)
    BY <1>7, KeysAreNumbers, TableAssumption
  <2>2. f[o + 1] = [path |-> q, items |-> f[o].items \cup {ItemAt(q)}, status |-> "more"]
    BY <1>4, <1>5, <1>6, <1>7, <1>8, <1>10, <2>1 DEF ReadNested
  <2>3. ItemAt(q).count <= MaxArray
    BY <1>1, <1>3, <1>10, TableAssumption
  <2> QED BY <1>7, <2>2, <2>3, AddsOne
<1> QED BY <1>9, <1>10

\* Leaving a container leads back to the path before it.
LEMMA FrontOfAppended ==
  ASSUME NEW k \in Seq(Keys), NEW i \in Keys
  PROVE  Append(k, i) # <<>> /\ Front(Append(k, i)) = k
<1> DEFINE q == Append(k, i)
<1>1. /\ q \in Seq(Keys) /\ Len(q) = Len(k) + 1 /\ Len(k) \in Nat
      /\ \A j \in 1..Len(k) : q[j] = k[j]
  BY KeysAreNumbers
<1> HIDE DEF q
<1>2. Len(q) - 1 = Len(k) /\ q # <<>>
  BY <1>1
<1>3. Front(q) = [j \in 1..Len(k) |-> q[j]]
  <2>1. Front(q) = SubSeq(q, 1, Len(k))
    BY <1>2 DEF Front
  <2> QED BY <1>1, <2>1
<1>4. k = [j \in 1..Len(k) |-> k[j]]
  OBVIOUS
<1>5. Front(q) = k
  BY <1>1, <1>3, <1>4
<1> QED BY <1>2, <1>5 DEF q

\* The end of a container adds nothing and leads out of it.
LEMMA EndAdds ==
  ASSUME NEW f, Reads(f), stream \in Seq(Tokens), NEW o \in Nat,
         NEW k \in Seq(Keys), NEW i \in Keys, Ready(f, o, Append(k, i)),
         Lies(o, Token("end", 0, 0))
  PROVE  Adds(f, o, 1, k, {})
<1> DEFINE t == [tag |-> "end", key |-> 0, count |-> 0]
           q == Append(k, i)
<1>1. t \in Tokens /\ Token("end", 0, 0) = <<t>> /\ t.tag = "end"
  BY DEF Tokens, Forms, Token
<1>2. q # <<>> /\ Front(q) = k
  BY FrontOfAppended
<1> HIDE DEF t, q
<1>3. Ready(f, o, q)
  BY DEF q
<1>4. /\ f[o + 1] = ReadToken(f[o], t)
      /\ f[o] = [path |-> q, items |-> f[o].items, status |-> "more"]
  BY <1>1, <1>3, OneToken
<1>5. f[o].path = q /\ f[o].status = "more"
  BY <1>3 DEF Ready
<1>6. ReadToken(f[o], t) = [f[o] EXCEPT !.path = k]
  BY <1>1, <1>2, <1>5 DEF ReadToken, ReadEnd
<1>7. f[o + 1] = [path |-> k, items |-> f[o].items, status |-> "more"]
  <2>1. [f[o] EXCEPT !.path = k] = [path |-> k, items |-> f[o].items, status |-> "more"]
    BY <1>4
  <2> QED BY <1>4, <1>6, <2>1
<1>8. Fits({})
  BY DEF Fits
<1>9. \A j \in 0..1 : j = 0 \/ j = 1
  OBVIOUS
<1>10. f[o + 1].items = f[o].items /\ f[o + 1].status = "more" /\ o + 0 = o
  BY <1>7
<1>11. \A j \in 0..1 : f[o + j].items \subseteq f[o].items \cup {} /\ f[o + j].status # "done"
  BY <1>5, <1>9, <1>10
<1>12. f[o].items \cup {} = f[o].items
  OBVIOUS
<1> QED BY <1>7, <1>8, <1>11, <1>12 DEF Adds
-----------------------------------------------------------------------------
(* Reading back what was written. *)

\* No tokens add nothing.
LEMMA AddsNothing ==
  ASSUME NEW f, Reads(f), stream \in Seq(Tokens), NEW o \in Nat, o <= Len(stream),
         NEW k, Ready(f, o, k)
  PROVE  Adds(f, o, 0, k, {})
<1>1. o \in 0..Len(stream) /\ o + 0 = o
  OBVIOUS
<1>2. f[o] \in ReaderStates
  BY <1>1 DEF Reads
<1>3. f[o] = [path |-> k, items |-> f[o].items, status |-> "more"] /\ f[o].status # "done"
  BY <1>2 DEF ReaderStates, Ready
<1>4. Fits({}) /\ f[o].items \cup {} = f[o].items
  BY DEF Fits
<1>5. \A j \in 0..0 : f[o + j].items \subseteq f[o].items \cup {} /\ f[o + j].status # "done"
  BY <1>1, <1>3, <1>4
<1> QED BY <1>1, <1>3, <1>4, <1>5 DEF Adds

\* A reader that goes on stands where it should, having met no array that is too long.
LEMMA ReadyBehind ==
  ASSUME NEW f, NEW o \in Nat, NEW l \in Nat, NEW p, NEW H,
         Adds(f, o, l, p, H), f[o + l].status = "more"
  PROVE  Ready(f, o + l, p) /\ Fits(H)
<1>1. Fits(H)
  BY DEF Adds
<1>2. f[o + l] = [path |-> p, items |-> f[o].items \cup H, status |-> "more"]
  BY <1>1 DEF Adds
<1>3. f[o + l].path = p
  BY <1>2
<1> QED BY <1>1, <1>3 DEF Ready

\* A container's tokens are those of what is in it, and its end.
Body(f, w, o, k) ==
  \E l \in Nat : Len(w) = l + 1 /\ Lies(o + l, Token("end", 0, 0)) /\ Adds(f, o, l, k, Beneath(k))

\* So it is with so many levels left.
ReadBack(f, W, n) ==
  \A path \in Trails, k \in Seq(Keys), o \in Nat :
    n + Len(k) = MaxNesting /\ Target(k) = Last(path) /\ Ready(f, o, k) /\ Lies(o, W[n][path])
      => Body(f, W[n][path], o, k)

\* The tokens of a nested container add all that is beneath it.
LEMMA ContainerAdds ==
  ASSUME NEW f, Reads(f), stream \in Seq(Tokens), heap \in Heaps, NEW o \in Nat,
         NEW k \in Seq(Keys), NEW i \in Keys, NEW q, q = Append(k, i), q \in Seq(Keys),
         NEW b \in Seq(Tokens), Body(f, b, o, q)
  PROVE  Adds(f, o, Len(b), k, Beneath(q))
<1>1. PICK l \in Nat :
         Len(b) = l + 1 /\ Lies(o + l, Token("end", 0, 0)) /\ Adds(f, o, l, q, Beneath(q))
  BY DEF Body
<1>2. Len(Token("end", 0, 0)) = 1
  BY DEF Token
<1>3. o + l \in Nat /\ o + l + 1 <= Len(stream) /\ Len(stream) \in Nat
  <2>1. Len(stream) \in Nat /\ o + l \in Nat
    OBVIOUS
  <2>2. (o + l) + Len(Token("end", 0, 0)) <= Len(stream)
    BY <1>1 DEF Lies
  <2> QED BY <1>2, <2>1, <2>2
<1>4. ASSUME f[o + l].status = "more" PROVE Adds(f, o + l, 1, k, {})
  <2>1. Ready(f, o + l, Append(k, i))
    BY <1>1, <1>4, ReadyBehind
  <2> QED BY <1>1, <1>3, <2>1, EndAdds
<1>5. Adds(f, o, l + 1, k, Beneath(q) \cup {})
  BY <1>1, <1>3, <1>4, AddsBoth
<1>6. Beneath(q) \cup {} = Beneath(q)
  OBVIOUS
<1> QED BY <1>1, <1>5, <1>6

\* One level further down one less is left.
LEMMA OneLess ==
  ASSUME NEW a \in Nat, NEW b \in Nat, NEW c \in Nat, a + b = c
  PROVE  (a - 1) + (b + 1) = c
OBVIOUS

\* The tokens of one slot add what is under its key.
LEMMA SlotAdds ==
  ASSUME NEW f, Reads(f), stream \in Seq(Tokens), heap \in Heaps,
         \A i \in 1..Len(stream) : stream[i] # Failure[1],
         NEW W, Writes(W, heap), NEW n \in 1..MaxNesting, ReadBack(f, W, n - 1),
         NEW path \in Trails, NEW k \in Seq(Keys), n + Len(k) = MaxNesting,
         Target(k) = Last(path), NEW i \in 1..Len(heap[Last(path)].slots),
         NEW w, w = WrittenSlot(heap, W[n - 1], path, i),
         NEW o \in Nat, Ready(f, o, k), Lies(o, w)
  PROVE  Adds(f, o, Len(w), k, UnderKey(k, i))
<1> DEFINE value == heap[Last(path)].slots[i]
           q == Append(k, i)
           below == W[n - 1]
<1>1. /\ MaxNesting \in Nat /\ n \in Nat /\ n - 1 \in 0..MaxNesting
      /\ Len(stream) \in Nat /\ k \in Seq(Nat) /\ Len(k) \in Nat
  BY KeysAreNumbers, TableAssumption
<1>2. below \in [Trails -> Seq(Tokens)]
  BY <1>1 DEF Writes
<1>3. Last(path) \in Containers
  BY TrailEnds
<1>4. w = WrittenSlot(heap, below, path, i)
  OBVIOUS
<1>a. value = heap[Last(path)].slots[i]
  OBVIOUS
<1> HIDE DEF below, value
<1>5. /\ value \in Values /\ i \in Keys /\ w \in Seq(Tokens)
      /\ value = "scalar" => w = Token("scalar", i, 0)
      /\ value = "formless" => w = <<>>
      /\ value = "badkey" => w = Failure
      /\ value \in Containers =>
           w = Token(heap[value].kind, i, Len(heap[value].slots)) \o below[Append(path, value)]
  <2>1. heap \in Heaps /\ path \in Trails /\ i \in 1..Len(heap[Last(path)].slots)
    OBVIOUS
  <2>2. OfSlot(heap, below, path, i, value, w)
    BY <1>2, <1>4, <1>a, <2>1, SlotWritten
  <2> QED BY <2>2 DEF OfSlot
<1>6. Target(q) = value
  <2>1. i \in Nat
    BY <1>5, TableAssumption DEF Keys
  <2>2. Target(q) = Under(Target(k), i)
    BY <1>1, <2>1, TargetAppended
  <2> QED BY <1>3, <1>a, <2>2 DEF Under
<1>7. Len(k) < MaxNesting
  BY <1>1
<1>8. /\ q \in Seq(Keys) /\ Len(q) = Len(k) + 1
      /\ UnderKey(k, i) = (IF Target(q) = "formless" THEN {} ELSE {ItemAt(q)}) \cup Beneath(q)
  BY <1>5, <1>7, UnderOneKey
<1>9. q = Append(k, i)
  OBVIOUS
<1> HIDE DEF q
<1>10. CASE value = "scalar"
  <2>1. w = Token("scalar", i, 0) /\ Len(w) = 1
    BY <1>5, <1>10 DEF Token
  <2>2. Adds(f, o, 1, k, {ItemAt(q)})
    BY <1>5, <1>6, <1>9, <1>10, <2>1, ScalarAdds
  <2>3. Beneath(q) = {}
    BY <1>6, <1>8, <1>10, NothingBeneath, TableAssumption
  <2>4. UnderKey(k, i) = {ItemAt(q)}
    BY <1>6, <1>8, <1>10, <2>3
  <2> QED BY <2>1, <2>2, <2>4
<1>11. CASE value = "formless"
  <2>1. w = <<>> /\ Len(w) = 0
    BY <1>5, <1>11
  <2>2. o <= Len(stream)
    BY <1>1, <2>1 DEF Lies
  <2>3. Adds(f, o, 0, k, {})
    BY <2>2, AddsNothing
  <2>4. Beneath(q) = {}
    BY <1>6, <1>8, <1>11, NothingBeneath, TableAssumption
  <2>5. UnderKey(k, i) = {}
    BY <1>6, <1>8, <1>11, <2>4
  <2> QED BY <2>1, <2>3, <2>5
<1>12. CASE value = "badkey"
  <2>1. Lies(o, Failure)
    BY <1>5, <1>12
  <2> QED BY <2>1, FailureLiesNowhere
<1>13. CASE value \in Containers
  <2> DEFINE u == Token(heap[value].kind, i, Len(heap[value].slots))
             b == below[Append(path, value)]
  <2>1. Append(path, value) \in Trails /\ Last(Append(path, value)) = value
    <3>1. Append(path, value) \in Trails
      BY <1>13, TrailEnds
    <3>2. path \in Seq(Containers)
      BY DEF Trails
    <3> QED BY <1>13, <3>1, <3>2 DEF Last
  <2>2. b \in Seq(Tokens)
    BY <1>2, <2>1
  <2>3. u \in Seq(Tokens) /\ Len(u) = 1
    <3>1. /\ heap[value].kind \in {"scalar", "table", "array", "end"}
          /\ Len(heap[value].slots) \in Nat /\ i \in Nat
      BY <1>5, <1>13, HeapTyped, TableAssumption DEF Keys
    <3> DEFINE kind == heap[value].kind
               count == Len(heap[value].slots)
    <3>2. u = Token(kind, i, count)
      OBVIOUS
    <3>3. /\ kind \in {"scalar", "table", "array", "end"}
          /\ count \in Nat /\ i \in Nat
      BY <3>1
    <3> HIDE DEF kind, count, u
    <3> QED BY <3>2, <3>3, TokenTyped
  <2>4. w = u \o b
    BY <1>5, <1>13
  <2> HIDE DEF u, b
  <2>5. Lies(o, u) /\ Lies(o + 1, b) /\ Len(w) = 1 + Len(b) /\ Len(b) \in Nat
    <3>1. Lies(o, u) /\ Lies(o + Len(u), b) /\ Len(w) = Len(u) + Len(b)
      BY <2>2, <2>3, <2>4, PartsLie
    <3>2. Len(b) \in Nat
      BY <2>2
    <3> QED BY <2>3, <3>1, <3>2
  <2>6. Len(k) + 2 <= MaxNesting
    <3>1. ASSUME n = 1 PROVE FALSE
      <4>1. b = Failure
        BY <2>1, <3>1 DEF b, below, Writes
      <4>2. o + 1 \in Nat
        OBVIOUS
      <4> QED BY <2>5, <4>1, <4>2, FailureLiesNowhere
    <3> QED BY <1>1, <3>1
  <2>7. Adds(f, o, 1, q, {ItemAt(q)})
    <3>1. Lies(o, Token(heap[value].kind, i, Len(heap[value].slots)))
      BY <2>5 DEF u
    <3> QED BY <1>5, <1>6, <1>9, <1>13, <2>6, <3>1, NestedAdds
  <2>8. ASSUME f[o + 1].status = "more" PROVE Adds(f, o + 1, Len(b), k, Beneath(q))
    <3>1. Ready(f, o + 1, q)
      BY <2>7, <2>8, ReadyBehind
    <3>2. (n - 1) + Len(q) = MaxNesting /\ o + 1 \in Nat
      <4>1. Len(q) = Len(k) + 1
        BY <1>8
      <4>2. n \in Nat /\ Len(k) \in Nat /\ n + Len(k) = MaxNesting /\ MaxNesting \in Nat
        BY <1>1
      <4>3. (n - 1) + (Len(k) + 1) = MaxNesting
        BY <4>2, OneLess
      <4>4. o + 1 \in Nat
        OBVIOUS
      <4> QED BY <4>1, <4>3, <4>4
    <3>3. Target(q) = Last(Append(path, value)) /\ Lies(o + 1, W[n - 1][Append(path, value)])
      BY <1>6, <2>1, <2>5 DEF b, below
    <3>4. Body(f, b, o + 1, q)
      BY <1>8, <2>1, <3>1, <3>2, <3>3 DEF ReadBack, b, below
    <3> QED BY <1>5, <1>8, <1>9, <2>2, <3>2, <3>4, ContainerAdds
  <2>9. o + 1 + Len(b) <= Len(stream)
    BY <1>1, <2>5 DEF Lies
  <2>10. Adds(f, o, 1 + Len(b), k, {ItemAt(q)} \cup Beneath(q))
    BY <2>5, <2>7, <2>8, <2>9, AddsBoth
  <2>11. UnderKey(k, i) = {ItemAt(q)} \cup Beneath(q)
    BY <1>6, <1>8, <1>13, TableAssumption
  <2> QED BY <2>5, <2>10, <2>11
<1> QED BY <1>5, <1>10, <1>11, <1>12, <1>13 DEF Values

\* A container at the end of a trail and of a path of keys, with so many levels left.
AtLevel(f, W, n, path, k) ==
  /\ Reads(f) /\ stream \in Seq(Tokens) /\ heap \in Heaps
  /\ \A i \in 1..Len(stream) : stream[i] # Failure[1]
  /\ Writes(W, heap) /\ n \in 1..MaxNesting /\ ReadBack(f, W, n - 1)
  /\ path \in Trails /\ k \in Seq(Keys) /\ n + Len(k) = MaxNesting
  /\ Target(k) = Last(path)

\* Its slots add what is under its keys, one after the other.
LEMMA SlotsAdd ==
  ASSUME NEW f, NEW W, NEW n, NEW path, NEW k, AtLevel(f, W, n, path, k),
         NEW K, K = Len(heap[Last(path)].slots),
         NEW g, SlotsWritten(g, heap, W[n - 1], path, K),
         NEW o \in Nat, Ready(f, o, k), Lies(o, g[K])
  PROVE  Adds(f, o, Len(g[K]), k, Beneath(k))
<1>1. /\ Reads(f) /\ stream \in Seq(Tokens) /\ heap \in Heaps
      /\ \A i \in 1..Len(stream) : stream[i] # Failure[1]
      /\ Writes(W, heap) /\ n \in 1..MaxNesting /\ ReadBack(f, W, n - 1)
      /\ path \in Trails /\ k \in Seq(Keys) /\ n + Len(k) = MaxNesting
      /\ Target(k) = Last(path)
  BY DEF AtLevel
<1>2. Last(path) \in Containers
  BY <1>1, TrailEnds
<1>3. K \in Nat /\ Len(stream) \in Nat
  <2>1. K \in 0..MaxSlots
    BY <1>1, <1>2, HeapTyped
  <2> QED BY <1>1, <2>1
<1> DEFINE w(i) == WrittenSlot(heap, W[n - 1], path, i)
<1>4. /\ g \in [0..K -> Seq(Tokens)] /\ g[0] = <<>>
      /\ \A i \in 1..K : g[i] = g[i - 1] \o w(i)
  BY DEF SlotsWritten
<1>5. \A i \in 1..K : w(i) \in Seq(Tokens)
  <2> TAKE i \in 1..K
  <2> DEFINE below == W[n - 1]
  <2>1. below \in [Trails -> Seq(Tokens)]
    <3>1. n - 1 \in 0..MaxNesting
      BY <1>1, TableAssumption
    <3> QED BY <1>1, <3>1 DEF Writes
  <2>2. w(i) = WrittenSlot(heap, below, path, i)
    OBVIOUS
  <2> HIDE DEF below
  <2>3. OfSlot(heap, below, path, i, heap[Last(path)].slots[i], WrittenSlot(heap, below, path, i))
    BY <1>1, <2>1, SlotWritten
  <2> QED BY <2>2, <2>3 DEF OfSlot
<1> HIDE DEF w
<1>6. \A i \in 0..K : Lies(o, g[i])
  <2> DEFINE T == {d \in Nat : d <= K => Lies(o, g[K - d])}
  <2>1. 0 \in T
    <3>1. K - 0 = K
      BY <1>3
    <3> QED BY <3>1
  <2>2. ASSUME NEW d \in T PROVE d + 1 \in T
    <3> SUFFICES ASSUME d + 1 <= K PROVE Lies(o, g[K - (d + 1)])
      OBVIOUS
    <3>1. /\ K - d \in 1..K /\ (K - d) - 1 = K - (d + 1) /\ K - (d + 1) \in 0..K
          /\ Lies(o, g[K - d])
      BY <1>3
    <3>2. g[K - d] = g[K - (d + 1)] \o w(K - d)
      BY <1>4, <3>1
    <3>3. g[K - (d + 1)] \in Seq(Tokens) /\ w(K - d) \in Seq(Tokens)
      BY <1>4, <1>5, <3>1
    <3> QED BY <1>1, <3>1, <3>2, <3>3, PartsLie
  <2>3. T = Nat
    <3>1. T \in SUBSET Nat
      OBVIOUS
    <3> HIDE DEF T
    <3> QED BY <2>1, <2>2, <3>1, Reaches
  <2>4. ASSUME NEW i \in 0..K PROVE Lies(o, g[i])
    <3>1. K - i \in Nat /\ K - i <= K /\ K - (K - i) = i
      BY <1>3
    <3>2. K - i \in T
      BY <2>3, <3>1
    <3> QED BY <3>1, <3>2
  <2> QED BY <2>4
<1>7. /\ UpTo(k, 0) = {}
      /\ \A i \in Nat : UpTo(k, i + 1) = UpTo(k, i) \cup UnderKey(k, i + 1)
      /\ Beneath(k) = UpTo(k, K)
  <2>1. Target(k) \in Containers /\ K = Len(heap[Target(k)].slots)
    BY <1>1, <1>2
  <2> QED BY <1>1, <2>1, UnderAllKeys
<1> DEFINE T == {i \in Nat : i <= K => Adds(f, o, Len(g[i]), k, UpTo(k, i))}
<1>8. 0 \in T
  <2>1. 0 \in 0..K /\ Len(g[0]) = 0
    BY <1>3, <1>4
  <2>2. o <= Len(stream)
    <3>1. Lies(o, g[0])
      BY <1>6, <2>1
    <3>2. o + Len(g[0]) <= Len(stream)
      BY <3>1 DEF Lies
    <3> QED BY <2>1, <3>2
  <2>3. Adds(f, o, 0, k, {})
    BY <1>1, <2>2, AddsNothing
  <2> QED BY <1>7, <2>1, <2>3
<1>9. ASSUME NEW i \in T PROVE i + 1 \in T
  <2> SUFFICES ASSUME i + 1 <= K PROVE Adds(f, o, Len(g[i + 1]), k, UpTo(k, i + 1))
    OBVIOUS
  <2>1. i + 1 \in 1..K /\ i \in 0..K /\ i + 1 \in 0..K /\ (i + 1) - 1 = i /\ i \in Nat
    BY <1>3
  <2>2. Adds(f, o, Len(g[i]), k, UpTo(k, i))
    BY <2>1
  <2>3. g[i + 1] = g[i] \o w(i + 1) /\ g[i] \in Seq(Tokens) /\ w(i + 1) \in Seq(Tokens)
    BY <1>4, <1>5, <2>1
  <2>4. Lies(o, g[i + 1])
    BY <1>6, <2>1
  <2>5. Lies(o + Len(g[i]), w(i + 1)) /\ Len(g[i + 1]) = Len(g[i]) + Len(w(i + 1))
    <3> DEFINE u == g[i]
               v == w(i + 1)
               uv == g[i + 1]
    <3>1. uv = u \o v /\ u \in Seq(Tokens) /\ v \in Seq(Tokens) /\ Lies(o, uv)
      BY <2>3, <2>4
    <3> HIDE DEF u, v, uv
    <3>2. Lies(o + Len(u), v) /\ Len(uv) = Len(u) + Len(v)
      BY <1>1, <3>1, PartsLie
    <3> QED BY <3>2 DEF u, v, uv
  <2>6. Len(g[i]) \in Nat /\ Len(w(i + 1)) \in Nat /\ o + Len(g[i]) \in Nat
    BY <2>3
  <2>7. o + Len(g[i]) + Len(w(i + 1)) <= Len(stream)
    <3>1. o + Len(g[i + 1]) <= Len(stream)
      BY <2>4 DEF Lies
    <3>2. o + (Len(g[i]) + Len(w(i + 1))) <= Len(stream)
      BY <2>5, <3>1
    <3> DEFINE l == Len(g[i])
               m == Len(w(i + 1))
               s == Len(stream)
    <3>3. l \in Nat /\ m \in Nat /\ s \in Nat /\ o + (l + m) <= s
      BY <1>3, <2>6, <3>2
    <3> HIDE DEF l, m, s, T
    <3>4. o + l + m <= s
      BY <3>3
    <3> QED BY <3>4 DEF l, m, s
  <2>8. ASSUME f[o + Len(g[i])].status = "more"
        PROVE  Adds(f, o + Len(g[i]), Len(w(i + 1)), k, UnderKey(k, i + 1))
    <3>1. Ready(f, o + Len(g[i]), k)
      BY <2>2, <2>6, <2>8, ReadyBehind
    <3>2. i + 1 \in 1..Len(heap[Last(path)].slots)
      BY <2>1
    <3>3. w(i + 1) = WrittenSlot(heap, W[n - 1], path, i + 1)
      BY DEF w
    <3> QED BY <1>1, <2>5, <2>6, <3>1, <3>2, <3>3, SlotAdds
  <2>9. Adds(f, o, Len(g[i]) + Len(w(i + 1)), k, UpTo(k, i) \cup UnderKey(k, i + 1))
    BY <1>1, <2>2, <2>6, <2>7, <2>8, AddsBoth
  <2> QED BY <1>7, <2>1, <2>5, <2>9
<1>10. T = Nat
  <2>1. T \in SUBSET Nat
    OBVIOUS
  <2> HIDE DEF T
  <2> QED BY <1>8, <1>9, <2>1, Reaches
<1>11. K \in T
  BY <1>3, <1>10
<1> QED BY <1>3, <1>7, <1>11

\* One level more.
LEMMA LevelReadBack ==
  ASSUME NEW f, Reads(f), stream \in Seq(Tokens), heap \in Heaps,
         \A i \in 1..Len(stream) : stream[i] # Failure[1],
         NEW W, Writes(W, heap), NEW n \in 1..MaxNesting, ReadBack(f, W, n - 1)
  PROVE  ReadBack(f, W, n)
<1> SUFFICES ASSUME NEW path \in Trails, NEW k \in Seq(Keys), NEW o \in Nat,
                    n + Len(k) = MaxNesting, Target(k) = Last(path),
                    Ready(f, o, k), Lies(o, W[n][path])
             PROVE  Body(f, W[n][path], o, k)
  BY DEF ReadBack
<1> DEFINE below == W[n - 1]
           K == Len(heap[Last(path)].slots)
           w == W[n][path]
<1>1. AtLevel(f, W, n, path, k)
  BY DEF AtLevel
<1>2. below \in [Trails -> Seq(Tokens)] /\ w = WrittenContainer(heap, below, path)
  <2>1. n - 1 \in 0..MaxNesting
    BY TableAssumption
  <2> QED BY <2>1 DEF Writes
<1>3. K = Len(heap[Last(path)].slots) /\ below = W[n - 1] /\ Lies(o, w)
  OBVIOUS
<1>a. w = W[n][path]
  OBVIOUS
<1> HIDE DEF below, K, w
<1>4. w # Failure
  BY <1>3, FailureLiesNowhere
<1>5. PICK g : SlotsWritten(g, heap, below, path, K) /\ w = g[K] \o Token("end", 0, 0)
  <2>1. heap \in Heaps /\ path \in Trails
    OBVIOUS
  <2>2. OfContainer(heap, below, path, K, w)
    BY <1>2, <1>3, <2>1, ContainerWritten
  <2> QED BY <1>4, <2>2 DEF OfContainer
<1>6. Last(path) \in Containers
  BY TrailEnds
<1>7. K \in Nat
  <2>1. K \in 0..MaxSlots
    BY <1>3, <1>6, HeapTyped
  <2> QED BY <2>1
<1>8. g[K] \in Seq(Tokens)
  <2>1. K \in 0..K
    BY <1>7
  <2> QED BY <1>5, <2>1 DEF SlotsWritten
<1>9. Token("end", 0, 0) \in Seq(Tokens) /\ Len(Token("end", 0, 0)) = 1
  BY DEF Token, Tokens, Forms
<1>10. Lies(o, g[K]) /\ Lies(o + Len(g[K]), Token("end", 0, 0)) /\ Len(w) = Len(g[K]) + 1
  <2> DEFINE u == g[K]
             v == Token("end", 0, 0)
  <2>1. w = u \o v /\ u \in Seq(Tokens) /\ v \in Seq(Tokens) /\ Len(v) = 1
    BY <1>5, <1>8, <1>9
  <2> HIDE DEF u, v
  <2>2. Lies(o, u) /\ Lies(o + Len(u), v) /\ Len(w) = Len(u) + Len(v)
    BY <1>3, <2>1, PartsLie
  <2>3. Len(w) = Len(u) + 1
    BY <2>1, <2>2
  <2> QED BY <2>2, <2>3 DEF u, v
<1>11. Adds(f, o, Len(g[K]), k, Beneath(k))
  BY <1>1, <1>3, <1>5, <1>10, SlotsAdd
<1>12. Len(g[K]) \in Nat
  BY <1>8
<1>13. Body(f, w, o, k)
  BY <1>10, <1>11, <1>12 DEF Body
<1> QED BY <1>a, <1>13

\* Any level, hence the outermost.
LEMMA AllReadBack ==
  ASSUME NEW f, Reads(f), stream \in Seq(Tokens), heap \in Heaps,
         \A i \in 1..Len(stream) : stream[i] # Failure[1],
         NEW W, Writes(W, heap)
  PROVE  ReadBack(f, W, MaxNesting)
<1> DEFINE T == {n \in Nat : n <= MaxNesting => ReadBack(f, W, n)}
<1>1. MaxNesting \in Nat
  BY TableAssumption
<1>2. 0 \in T
  <2> SUFFICES ASSUME NEW path \in Trails, NEW k \in Seq(Keys), NEW o \in Nat,
                      Lies(o, W[0][path])
               PROVE  FALSE
    BY DEF ReadBack
  <2>1. W[0][path] = Failure
    BY DEF Writes
  <2>2. Lies(o, Failure)
    BY <2>1
  <2> QED BY <2>2, FailureLiesNowhere
<1>3. ASSUME NEW n \in T PROVE n + 1 \in T
  <2> SUFFICES ASSUME n + 1 <= MaxNesting PROVE ReadBack(f, W, n + 1)
    OBVIOUS
  <2>1. n + 1 \in 1..MaxNesting /\ (n + 1) - 1 = n /\ ReadBack(f, W, n)
    BY <1>1
  <2> QED BY <2>1, LevelReadBack
<1>4. T = Nat
  <2>1. T \in SUBSET Nat
    OBVIOUS
  <2> HIDE DEF T
  <2> QED BY <1>2, <1>3, <2>1, Reaches
<1>5. MaxNesting \in T
  BY <1>1, <1>4
<1> QED BY <1>1, <1>5

\* All that is held is beneath the table that is saved.
LEMMA AllHeld ==
  ASSUME heap \in Heaps
  PROVE  Beneath(<<>>) = Holdings
<1> SUFFICES ASSUME NEW u \in Holdings PROVE Begins(u.path, <<>>) /\ Len(<<>>) < Len(u.path)
  BY DEF Beneath
<1>1. Len(u.path) \in 1..MaxNesting /\ MaxNesting \in Nat
  BY HoldingFacts, TableAssumption
<1>2. Len(<<>>) = 0
  OBVIOUS
<1> QED BY <1>1, <1>2 DEF Begins

\* The table that was written is read back, by whoever reads all of it.
LEMMA RootReads ==
  ASSUME heap \in Heaps, stream \in Seq(Tokens), stream = Written(heap),
         \A i \in 1..Len(stream) : stream[i] # Failure[1],
         NEW n \in 0..Len(stream)
  PROVE  /\ Behind(n).items \subseteq Holdings
         /\ Behind(n).status = "done" <=> n = Len(stream) /\ Fits(Holdings)
         /\ Behind(n).status = "done" => Behind(n).items = Holdings
<1>1. PICK f : Reads(f) /\ \A j \in 0..Len(stream) : Behind(j) = f[j]
  BY ReadingRuns
<1>2. PICK W : Writes(W, heap) /\ Written(heap) = W[MaxNesting][<<Root>>]
  BY WritingRuns
<1>3. Behind(n) = f[n]
  BY <1>1
<1>4. ReadBack(f, W, MaxNesting)
  BY <1>1, <1>2, AllReadBack
<1>5. MaxNesting \in Nat /\ Len(stream) \in Nat /\ Root \in Containers
  BY TableAssumption
<1>6. <<Root>> \in Trails /\ Last(<<Root>>) = Root
  BY <1>5 DEF Trails, Last
<1>7. <<>> \in Seq(Keys) /\ MaxNesting + Len(<<>>) = MaxNesting
  BY <1>5
<1>8. Target(<<>>) = Last(<<Root>>)
  BY <1>6, TargetOfNothing
<1>9. f[0] = [path |-> <<>>, items |-> {}, status |-> "more"]
  BY <1>1 DEF Reads, Reading
<1>10. Ready(f, 0, <<>>)
  BY <1>9 DEF Ready
<1>11. Lies(0, stream)
  BY <1>5 DEF Lies
<1>12. Body(f, stream, 0, <<>>)
  <2>1. Lies(0, W[MaxNesting][<<Root>>])
    BY <1>2, <1>11
  <2>2. Body(f, W[MaxNesting][<<Root>>], 0, <<>>)
    BY <1>4, <1>6, <1>7, <1>8, <1>10, <2>1 DEF ReadBack
  <2> QED BY <1>2, <2>2
<1>13. PICK l \in Nat : /\ Len(stream) = l + 1 /\ Lies(0 + l, Token("end", 0, 0))
                        /\ Adds(f, 0, l, <<>>, Beneath(<<>>))
  BY <1>12 DEF Body
<1>14. Adds(f, 0, l, <<>>, Holdings)
  BY <1>13, AllHeld
<1>15. \A j \in 0..l : f[j].items \subseteq Holdings /\ f[j].status # "done"
  <2> TAKE j \in 0..l
  <2>1. f[0 + j].items \subseteq f[0].items \cup Holdings /\ f[0 + j].status # "done"
    BY <1>14 DEF Adds
  <2>2. 0 + j = j
    OBVIOUS
  <2> QED BY <1>9, <2>1, <2>2
<1>16. CASE n \in 0..l
  <2>1. n # Len(stream)
    BY <1>13, <1>16
  <2> QED BY <1>3, <1>15, <1>16, <2>1
<1>17. CASE n = l + 1
  <2>1. /\ l + 1 \in 1..Len(stream) /\ (l + 1) - 1 = l /\ 0 + l = l
    BY <1>13
  <2>2. stream[l + 1] = [tag |-> "end", key |-> 0, count |-> 0]
    <3>1. Len(Token("end", 0, 0)) = 1 /\ Token("end", 0, 0)[1] = [tag |-> "end", key |-> 0, count |-> 0]
      BY DEF Token
    <3>2. Lies(l, Token("end", 0, 0))
      BY <1>13, <2>1
    <3> QED BY <3>1, <3>2 DEF Lies
  <2>3. f[n] = ReadToken(f[l], stream[l + 1])
    BY <1>1, <1>17, <2>1 DEF Reads
  <2>4. CASE Fits(Holdings)
    <3>1. f[l] = [path |-> <<>>, items |-> Holdings, status |-> "more"]
      <4>1. f[0 + l] = [path |-> <<>>, items |-> f[0].items \cup Holdings, status |-> "more"]
        BY <1>14, <2>4 DEF Adds
      <4>2. f[0].items \cup Holdings = Holdings
        BY <1>9
      <4> QED BY <2>1, <4>1, <4>2
    <3> DEFINE r == f[l]
               H == Holdings
    <3>2. r = [path |-> <<>>, items |-> H, status |-> "more"]
      BY <3>1
    <3> HIDE DEF r, H
    <3>3. ReadEnd(r) = [path |-> <<>>, items |-> H, status |-> "done"]
      BY <3>2 DEF ReadEnd
    <3>4. ReadToken(r, stream[l + 1]) = ReadEnd(r)
      BY <2>2, <3>2 DEF ReadToken
    <3>5. f[n] = [path |-> <<>>, items |-> Holdings, status |-> "done"]
      BY <2>3, <3>3, <3>4 DEF r, H
    <3> QED BY <1>3, <1>13, <1>17, <2>4, <3>5
  <2>5. CASE ~Fits(Holdings)
    <3>1. f[0 + l].status = "failed"
      BY <1>14, <2>5 DEF Adds
    <3>2. f[n] = f[l] /\ f[l].status = "failed"
      BY <2>1, <2>3, <3>1 DEF ReadToken
    <3>3. f[l].items \subseteq Holdings
      <4>1. l \in 0..l
        OBVIOUS
      <4> QED BY <1>15, <4>1
    <3> QED BY <1>3, <2>5, <3>2, <3>3
  <2> QED BY <2>4, <2>5
<1>18. n \in 0..l \/ n = l + 1
  BY <1>13
<1> QED BY <1>16, <1>17, <1>18
-----------------------------------------------------------------------------
(* What is so at any time. *)

\* What was written is of the table as it was, complete, and fits.
StreamHolds ==
  stream # <<>> =>
    /\ stream = Written(heap)
    /\ stream \in Seq(Tokens)
    /\ Len(stream) <= Capacity
    /\ \A i \in 1..Len(stream) : stream[i] # Failure[1]

\* The types of what a load returns.
ReadTypeOK == read.whole \in BOOLEAN /\ read.ok \in BOOLEAN /\ read.n \in 0..Capacity

\* The invariant: what a load makes of the stream follows from what a save left.
TablesInv == heap \in Heaps /\ StreamHolds /\ ReadTypeOK /\ ReadsBack

\* At first no table was saved.
LEMMA TablesInvInit == TablesInit => TablesInv
<1> SUFFICES ASSUME TablesInit PROVE TablesInv
  OBVIOUS
<1> USE DEF TablesInit
<1>1. heap \in Heaps
  <2> DEFINE empty == [kind |-> "table", slots |-> <<>>]
             B == BoundedSeq(Values, MaxSlots)
  <2>1. <<>> \in B
    <3>1. 0 \in 0..MaxSlots
      BY TableAssumption
    <3>2. <<>> \in [1..0 -> Values]
      OBVIOUS
    <3> QED BY <3>1, <3>2 DEF BoundedSeq, SeqOf
  <2> HIDE DEF B
  <2>2. empty \in [kind: {"table", "array"}, slots: B]
    BY <2>1
  <2>3. empty.kind = "table" /\ empty.slots = <<>>
    OBVIOUS
  <2>4. heap = [c \in Containers |-> empty]
    BY DEF NoHeap
  <2> HIDE DEF empty
  <2>5. heap \in [Containers -> [kind: {"table", "array"}, slots: B]]
    BY <2>2, <2>4
  <2>6. \A c \in Containers : heap[c].kind = "table" /\ heap[c].slots = <<>>
    BY <2>3, <2>4
  <2>7. \A c \in Containers : Len(heap[c].slots) <= Room[c]
    <3>1. \A c \in Containers : Room[c] \in Nat
      BY TableAssumption
    <3>2. Len(<<>>) = 0
      OBVIOUS
    <3> QED BY <2>6, <3>1, <3>2
  <2>8. heap[Root].kind = "table" /\ \A c \in Containers : heap[c].kind # "array"
    BY <2>6, TableAssumption
  <2> QED BY <2>5, <2>7, <2>8 DEF Heaps, B
<1>2. StreamHolds
  BY DEF StreamHolds
<1>3. ReadTypeOK
  BY TableAssumption DEF ReadTypeOK, Unread
<1>4. ReadsBack
  BY DEF ReadsBack
<1> QED BY <1>1, <1>2, <1>3, <1>4 DEF TablesInv

\* A save leaves the tokens of the whole table or nothing.
LEMMA SaveKeepsInv ==
  ASSUME NEW h \in Heaps, SaveTable(h)
  PROVE  TablesInv'
<1>1. heap' = h /\ heap' \in Heaps /\ read' = Unread
  BY DEF SaveTable
<1> DEFINE tokens == Written(h)
<1>2. tokens \in Seq(Tokens)
  <2>1. PICK W : Writes(W, h) /\ Written(h) = W[MaxNesting][<<Root>>]
    BY WritingRuns
  <2>2. MaxNesting \in 0..MaxNesting /\ <<Root>> \in Trails
    BY TableAssumption DEF Trails
  <2> QED BY <2>1, <2>2 DEF Writes
<1>3. /\ stream' = IF Failure[1] \notin ToSet(tokens) /\ Len(tokens) <= Capacity THEN tokens ELSE <<>>
  BY DEF SaveTable
<1>4. tokens = Written(heap')
  BY <1>1
<1> HIDE DEF tokens
<1>5. ASSUME stream' # <<>>
      PROVE  /\ stream' = tokens /\ Len(tokens) <= Capacity
             /\ \A i \in 1..Len(tokens) : tokens[i] # Failure[1]
  <2>1. stream' = tokens /\ Failure[1] \notin ToSet(tokens) /\ Len(tokens) <= Capacity
    BY <1>3, <1>5
  <2> QED BY <2>1 DEF ToSet
<1>6. Written(heap') = Written(heap)'
  BY DEF Written
<1>7. StreamHolds'
  BY <1>2, <1>4, <1>5, <1>6 DEF StreamHolds
<1>8. ReadTypeOK'
  BY <1>1, TableAssumption DEF ReadTypeOK, Unread
<1>9. ReadsBack'
  BY <1>1 DEF ReadsBack
<1> QED BY <1>1, <1>7, <1>8, <1>9 DEF TablesInv

\* What is held depends on the containers only.
LEMMA SameHoldings ==
  ASSUME heap' = heap
  PROVE  Holdings' = Holdings
<1>1. \A v, key : Under(v, key)' = Under(v, key)
  BY DEF Under
<1>2. \A p : Target(p)' = Target(p)
  BY <1>1 DEF Target
<1>3. \A p : ItemAt(p)' = ItemAt(p)
  BY <1>2 DEF ItemAt
<1> QED BY <1>2, <1>3 DEF Holdings

\* A load reads them back.
LEMMA LoadKeepsInv ==
  ASSUME TablesInv, NEW n \in 0..Capacity, LoadTable(n)
  PROVE  TablesInv'
<1>1. /\ heap' = heap /\ stream' = stream /\ stream # <<>> /\ n <= Len(stream)
      /\ read' = [whole |-> n = Len(stream), n |-> n,
                  ok |-> Behind(n).status = "done", items |-> Behind(n).items]
  BY DEF LoadTable
<1>2. /\ heap \in Heaps /\ stream = Written(heap) /\ stream \in Seq(Tokens)
      /\ \A i \in 1..Len(stream) : stream[i] # Failure[1]
  BY <1>1 DEF TablesInv, StreamHolds
<1>3. n \in 0..Len(stream)
  BY <1>1, <1>2
<1> DEFINE items == Behind(n).items
           done == Behind(n).status = "done"
<1>4. /\ items \subseteq Holdings
      /\ done <=> n = Len(stream) /\ Fits(Holdings)
      /\ done => items = Holdings
  BY <1>2, <1>3, RootReads
<1>5. /\ read'.whole = (n = Len(stream)) /\ read'.n = n /\ read'.ok = done
      /\ read'.items = items /\ done \in BOOLEAN
  BY <1>1
<1> HIDE DEF items, done
<1>6. ReadsBack'
  <2>1. Holdings' = Holdings
    BY <1>1, SameHoldings
  <2>2. /\ read'.items \subseteq Holdings'
        /\ read'.ok <=> read'.whole /\ \A item \in Holdings' : item.count <= MaxArray
        /\ read'.ok => read'.items = Holdings'
    BY <1>4, <1>5, <2>1 DEF Fits
  <2> QED BY <2>2 DEF ReadsBack
<1>7. ReadTypeOK'
  BY <1>5 DEF ReadTypeOK
<1>8. heap' \in Heaps /\ StreamHolds'
  <2>1. Written(heap)' = Written(heap)
    BY <1>1 DEF Written
  <2> QED BY <1>1, <2>1 DEF TablesInv, StreamHolds
<1> QED BY <1>6, <1>7, <1>8 DEF TablesInv

\* Every step keeps the invariant.
LEMMA TablesInvKept == TablesInv /\ [TablesNext]_table_vars => TablesInv'
<1> SUFFICES ASSUME TablesInv, [TablesNext]_table_vars PROVE TablesInv'
  OBVIOUS
<1>1. ASSUME NEW h \in Heaps, SaveTable(h) PROVE TablesInv'
  BY <1>1, SaveKeepsInv
<1>2. ASSUME NEW n \in 0..Capacity, LoadTable(n) PROVE TablesInv'
  BY <1>2, LoadKeepsInv
<1>3. CASE UNCHANGED table_vars
  <2>1. heap' = heap /\ stream' = stream /\ read' = read
    BY <1>3 DEF table_vars
  <2>2. Holdings' = Holdings
    BY <2>1, SameHoldings
  <2>3. Written(heap)' = Written(heap)
    BY <2>1 DEF Written
  <2> QED BY <2>1, <2>2, <2>3 DEF TablesInv, StreamHolds, ReadTypeOK, ReadsBack
<1> QED BY <1>1, <1>2, <1>3 DEF TablesNext

\* It has the types in it.
LEMMA TablesInvTyped == TablesInv => TablesTypeOK
<1> SUFFICES ASSUME TablesInv PROVE TablesTypeOK
  OBVIOUS
<1>1. heap \in [Containers -> [kind: {"table", "array"}, slots: Seq(Values)]]
  <2>1. heap \in Heaps
    BY DEF TablesInv
  <2>2. heap \in [Containers -> [kind: {"table", "array"}, slots: BoundedSeq(Values, MaxSlots)]]
    BY <2>1 DEF Heaps
  <2>3. \A c \in Containers : heap[c] \in [kind: {"table", "array"}, slots: Seq(Values)]
    <3> TAKE c \in Containers
    <3>1. heap[c] \in [kind: {"table", "array"}, slots: BoundedSeq(Values, MaxSlots)]
      BY <2>2
    <3>2. heap[c] = [kind |-> heap[c].kind, slots |-> heap[c].slots]
      BY <3>1
    <3>3. heap[c].kind \in {"table", "array"} /\ heap[c].slots \in Seq(Values)
      BY <2>1, HeapTyped
    <3> QED BY <3>2, <3>3
  <2> QED BY <2>2, <2>3
<1>2. ASSUME NEW i \in 1..Len(stream)
      PROVE  stream[i] \in [tag: {"scalar", "table", "array", "end"}, key: Nat, count: Nat]
  <2>1. stream # <<>>
    OBVIOUS
  <2>2. stream[i] \in Tokens /\ stream[i] # Failure[1]
    BY <2>1, ElementOfSeq DEF TablesInv, StreamHolds
  <2> QED BY <2>2 DEF Tokens, Forms
<1> QED BY <1>1, <1>2 DEF TablesTypeOK, TablesInv, ReadTypeOK

\* The variables of the format have their types, for any containers, slots and
\* limits.
THEOREM TablesTypesHold == TablesSpec => []TablesTypeOK
BY TablesInvInit, TablesInvKept, TablesInvTyped, PTL DEF TablesSpec

\* read_table gives back what write_table was given, for any tables, shared,
\* nested or cyclic, and any limits; cut short it fails, and fills in nothing else.
THEOREM TablesReadBack == TablesSpec => []ReadsBack
<1>1. TablesInv => ReadsBack
  BY DEF TablesInv
<1> QED BY <1>1, TablesInvInit, TablesInvKept, PTL DEF TablesSpec
-----------------------------------------------------------------------------
(* The four parts together. *)

ServicesInv == SaveInv /\ PackageInv /\ TablesInv /\ ScenesInv

\* A step is one of a part, and leaves the others alone.
LEMMA PartsSteps ==
  [Next]_vars => /\ [SaveNext]_save_vars
                 /\ [ReaderNext]_<<archive_vars, reader_vars>>
                 /\ [TablesNext]_table_vars
                 /\ [ScenesNext]_scene_queue_vars
<1>1. CASE SaveStep
  BY <1>1 DEF SaveStep
<1>2. CASE FileStep
  BY <1>2 DEF FileStep
<1>3. CASE TableStep
  BY <1>3 DEF TableStep
<1>4. CASE ScenesOnly(ScenesNext)
  BY <1>4 DEF ScenesOnly
<1>5. CASE UNCHANGED vars
  BY <1>5 DEF vars
<1> QED BY <1>1, <1>2, <1>3, <1>4, <1>5 DEF Next

\* No part disturbs another: each keeps its invariant in a behaviour of any of
\* them, which is what the run explores.
THEOREM ServicesInvariant == Spec => []ServicesInv
<1>1. Init => ServicesInv
  BY SaveInvInit, PackageInvInit, TablesInvInit, ScenesInvInit DEF Init, ServicesInv
<1>2. ServicesInv /\ [Next]_vars => ServicesInv'
  BY PartsSteps, SaveInvNext, PackageInvNext, TablesInvKept, ScenesInvNext DEF ServicesInv
<1> QED BY <1>1, <1>2, PTL DEF Spec

\* The promises of the parts hold in a behaviour of any of them: of save_file and
\* load_file, the archives and their readers, read_table and the scene queue.
THEOREM ServicesHold ==
  Spec => [](/\ LoadIsWhole /\ SavedReadable
             /\ OpensLatest /\ ReadsItsEntry
             /\ ReadsBack
             /\ ScenesAccounted)
<1>1. ServicesInv => LoadIsWhole /\ SavedReadable /\ ReadsBack /\ ScenesAccounted
  BY DEF ServicesInv, SaveInv, TablesInv, ScenesInv
<1>2. ServicesInv => OpensLatest
  BY LooksUp, ArchiveAssumption DEF ServicesInv, PackageInv, OpensLatest
<1>3. ServicesInv => ReadsItsEntry
  BY DEF ServicesInv, PackageInv, ReadsItsEntry, Placed, DeliveredRight
<1> QED BY <1>1, <1>2, <1>3, ServicesInvariant, PTL

\* The scenes' threads implement SceneLife there, scheduled fairly as they are.
THEOREM ServicesImplement == Spec => ImplementsSceneLife
<1>1. Init => SceneLives!LifeInit
  <2>1. ScenesInit => SceneLives!LifeInit
    BY SceneQueueAssumption DEF ScenesInit, SceneLives!LifeInit, Life, LifeOf, Listed
  <2> QED BY <2>1 DEF Init
<1>2. ServicesInv /\ [Next]_vars => [SceneLives!LifeNext]_Life
  BY PartsSteps, StepMaps DEF ServicesInv
<1> QED BY <1>1, <1>2, ServicesInvariant, PTL
    DEF Spec, ImplementsSceneLife, SceneLives!LifeSpec

\* The variables of every part have their types, whichever part runs.
THEOREM ServicesTypeCorrect == Spec => []ServicesTypeOK
<1>1. ServicesInv => SaveTypeOK /\ ScenesTypeOK /\ TablesTypeOK
  BY TablesInvTyped DEF ServicesInv, SaveInv, ScenesInv
<1>2. ServicesInv => ArchivesTypeOK /\ ReaderTypeOK
  BY PackageInvTyped DEF ServicesInv
<1>3. ServicesInv => ServicesTypeOK
  BY <1>1, <1>2 DEF ServicesTypeOK
<1> QED BY <1>3, ServicesInvariant, PTL
=============================================================================
