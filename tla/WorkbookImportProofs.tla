------------------------ MODULE WorkbookImportProofs ------------------------
(***************************************************************************)
(* Proofs about WorkbookImport: an upload and the import of a message in   *)
(* any order of their steps, for any sheets, messages and calendars, with  *)
(* failing writes and with the process dying at any point.                 *)
(*                                                                         *)
(* The upload and the import overwrite each other's copies of the meta     *)
(* record, so that Copies of EnergyImportProofs does not hold here.  What  *)
(* remains is a claim: a meter that had a column at some point has it in   *)
(* the record, or will have it as soon as the upload has written its own   *)
(* record, or is lost (Claims), and no step takes a claim away             *)
(* (ClaimsStay).  Every value, in the database and in the copies that are  *)
(* written back, is in a column that its meter claims (OwnedLines), and    *)
(* whoever is about to write values has a claim to the column he writes    *)
(* them to (PartsClaim).  Since a record never has two meters in a column, *)
(* a value in the column of a meter is its own or that of a lost meter.    *)
(***************************************************************************)
EXTENDS WorkbookImport, EnergyImportProofs

-----------------------------------------------------------------------------
(* The invariant.                                                          *)

(* Lines of values of messages and of sheets.                              *)
AnyLine == [Columns -> SUBSET (SheetValues \cup (Nat \X Intervals))]
AreAnyLines(ls) == DOMAIN ls \subseteq Rows /\ ls \in [DOMAIN ls -> AnyLine]

ImportTypes ==
  /\ IsRecord(meta) /\ AreAnyLines(lines)
  /\ batch \in Batches /\ number \in 0 .. Len(batch)
  /\ number = 0 => DOMAIN pc = {}
  /\ number > 0 => DOMAIN pc \subseteq Split(msg)
  /\ pc \in [DOMAIN pc -> Labels] /\ cp \in [DOMAIN pc -> Entries]
  /\ DOMAIN view = DOMAIN pc /\ view = [p \in DOMAIN pc |-> view[p]]
  /\ DOMAIN fetched = DOMAIN pc /\ fetched = [p \in DOMAIN pc |-> fetched[p]]
  /\ \A p \in DOMAIN pc : IsRecord(view[p]) /\ AreAnyLines(fetched[p])
  /\ failed \subseteq DOMAIN pc

(* The rows of the first data rows of a sheet.                             *)
RowsOfFirst(f, n) == {RowOf(f.rows[k]) : k \in 1 .. n}

SheetTypes ==
  /\ spc \in SheetLabels
  /\ IF spc = "idle" THEN file = NoFile ELSE file \in Files
  /\ spc \in {"idle", "meta"} => sread = NoMeta /\ scopies = NoLines /\ srow = 0
  /\ spc = "meta" => file.rows # <<>>
  /\ spc = "rows" => srow < Len(file.rows) /\ DOMAIN scopies = RowsOfFirst(file, srow)
  /\ spc = "write" => DOMAIN scopies = RowsOfFirst(file, Len(file.rows))
  /\ swritten # {} => spc \in {"write", "save"} /\ file.rows # <<>>
  /\ swritten \subseteq Rows
  /\ IsRecord(sread) /\ AreAnyLines(scopies) /\ srow \in Nat
  /\ uploads \in 0 .. MaxUploads /\ crashes \in 0 .. MaxCrashes
  /\ lost \subseteq Meters

(* The column of a meter is in the record, or in that of the upload, or it *)
(* was taken from the meter.                                               *)
Claims(m, i) ==
  \/ m \in lost
  \/ m \in DOMAIN meta /\ meta[m].idx = i
  \/ swritten # {} /\ m \in DOMAIN SheetRecord /\ SheetRecord[m].idx = i

Owned(v, c) == c[1] = Dir[OwnerOf(v)] /\ Claims(OwnerOf(v), c[2])
OwnedLines(ls) ==
  \A r \in DOMAIN ls : \A c \in Columns : \A v \in ls[r][c] : Owned(v, c)

PartClaims(p) ==
  /\ pc[p] \in {"meta", "create"} => p \notin failed
  /\ pc[p] = "create" =>
       msg.meter \in DOMAIN view[p] /\ view[p][msg.meter].idx = cp[p].idx
  /\ pc[p] \in {"fetch", "write"} => Claims(msg.meter, cp[p].idx)
  /\ OwnedLines(fetched[p])
PartsClaim == \A p \in DOMAIN pc : PartClaims(p)

WTypes == ImportTypes /\ SheetTypes
Claimed == OwnedLines(lines) /\ OwnedLines(scopies) /\ PartsClaim

-----------------------------------------------------------------------------
(* The sheet.                                                              *)

(* The header and the data rows of a sheet.                                *)
LEMMA FileType ==
  ASSUME NEW f \in Files
  PROVE  /\ f.first \in Rows /\ f.last \in Rows
         /\ Len(f.rows) \in Nat /\ DOMAIN f.rows = 1 .. Len(f.rows)
         /\ f.rows = <<>> <=> Len(f.rows) = 0
         /\ \A k \in 1 .. Len(f.rows) : RowOf(f.rows[k]) \in Rows
         /\ DOMAIN f.columns \in SUBSET Nat
         /\ \A i \in DOMAIN f.columns : i >= 1 /\ 1 .. i \subseteq DOMAIN f.columns
<1> DEFINE column == [meter : Meters, code : {"Total", "TotalTF"}]
<1>1. f \in [columns : Seq(column), dated : BOOLEAN, first : Rows, last : Rows,
             rows : Seq(Intervals)]
  BY WorkbookAssumption
<1>2. /\ f.first \in Rows /\ f.last \in Rows /\ f.rows \in Seq(Intervals)
      /\ f.columns \in Seq(column)
  BY <1>1
<1>3. /\ Len(f.rows) \in Nat /\ DOMAIN f.rows = 1 .. Len(f.rows)
      /\ f.rows = <<>> <=> Len(f.rows) = 0
      /\ \A k \in 1 .. Len(f.rows) : f.rows[k] \in Intervals
  BY <1>2
<1>4. Len(f.columns) \in Nat /\ DOMAIN f.columns = 1 .. Len(f.columns)
  BY <1>2
<1>5. \A k \in 1 .. Len(f.rows) : RowOf(f.rows[k]) \in Rows
  BY <1>3, RowOfType
<1> QED
  BY <1>2, <1>3, <1>4, <1>5

(* The order of the imported meters (buildMatrixMetaStruct: sort.Slice).   *)
LEMMA EarlierOrder ==
  ASSUME NEW f \in Files
  PROVE  /\ \A n : ~ Earlier(f, n, n)
         /\ \A x, n, m : Earlier(f, x, n) /\ Earlier(f, n, m) => Earlier(f, x, m)
         /\ \A n, m \in MetersOf(f) : n # m => Earlier(f, n, m) \/ Earlier(f, m, n)
<1> DEFINE D == DOMAIN f.columns
           At(n, i) == f.columns[i] = [meter |-> n, code |-> "Total"]
<1>1. D \in SUBSET Nat /\ \A i \in D : i >= 1 /\ 1 .. i \subseteq D
  BY FileType
<1>2. \A n, m : Earlier(f, n, m) <=> \E i \in D : At(n, i) /\ \A j \in 1 .. i : ~ At(m, j)
  BY DEF Earlier
<1>3. \A n, m : n # m => \A i \in D : ~ (At(n, i) /\ At(m, i))
  <2> SUFFICES ASSUME NEW n, NEW m, NEW i \in D, At(n, i), At(m, i) PROVE n = m
    OBVIOUS
  <2>1. [meter |-> n, code |-> "Total"].meter = [meter |-> m, code |-> "Total"].meter
    BY Zenon
  <2> QED
    BY <2>1
<1>4. \A n \in MetersOf(f) : \E i \in D : At(n, i)
  BY DEF MetersOf, HasColumn
<1> HIDE DEF At, D
<1>5. ASSUME NEW n PROVE ~ Earlier(f, n, n)
  <2>1. \A i \in D : i \in 1 .. i
    BY <1>1
  <2> QED
    BY <1>2, <2>1, Zenon
<1>6. ASSUME NEW x, NEW n, NEW m, Earlier(f, x, n), Earlier(f, n, m) PROVE Earlier(f, x, m)
  <2>1. PICK i \in D : At(x, i) /\ \A j \in 1 .. i : ~ At(n, j)
    BY <1>2, <1>6, Zenon
  <2>2. PICK k \in D : At(n, k) /\ \A j \in 1 .. k : ~ At(m, j)
    BY <1>2, <1>6, Zenon
  <2>3. k \notin 1 .. i
    BY <2>1, <2>2, Zenon
  <2>4. \A j \in 1 .. i : j \in 1 .. k
    BY <1>1, <2>3
  <2> QED
    BY <1>2, <2>1, <2>2, <2>4, Zenon
<1>7. ASSUME NEW n \in MetersOf(f), NEW m \in MetersOf(f), n # m
      PROVE  Earlier(f, n, m) \/ Earlier(f, m, n)
  <2> DEFINE N == {i \in D : At(n, i)}
             M == {i \in D : At(m, i)}
  <2>1. N \in SUBSET Nat /\ N # {} /\ M \in SUBSET Nat /\ M # {}
    BY <1>1, <1>4
  <2> HIDE DEF N, M
  <2>2. PICK a \in N : \A y \in N : a =< y
    BY <2>1, Smallest
  <2>3. PICK b \in M : \A y \in M : b =< y
    BY <2>1, Smallest
  <2>4. a \in D /\ b \in D /\ At(n, a) /\ At(m, b)
    BY <2>2, <2>3 DEF N, M
  <2>5. a # b
    BY <1>3, <1>7, <2>4
  <2>6. a \in Nat /\ b \in Nat
    BY <2>1
  <2>7. CASE a < b
    <3>1. \A j \in 1 .. a : j \in D /\ j \notin M
      BY <1>1, <2>1, <2>3, <2>4, <2>6, <2>7
    <3> QED
      BY <1>2, <2>4, <3>1 DEF M
  <2>8. CASE b < a
    <3>1. \A j \in 1 .. b : j \in D /\ j \notin N
      BY <1>1, <2>1, <2>2, <2>4, <2>6, <2>8
    <3> QED
      BY <1>2, <2>4, <3>1 DEF N
  <2> QED
    BY <2>5, <2>6, <2>7, <2>8
<1> QED
  BY <1>5, <1>6, <1>7

(* The new meters of a direction get the indices that follow, in the order *)
(* of their columns (buildMatrixMetaStruct).                               *)
Before(mt, f, m) ==
  {n \in MetersOf(f) \ DOMAIN mt : Dir[n] = Dir[m] /\ Earlier(f, n, m)}

LEMMA SheetIdxType ==
  ASSUME NEW mt, IsRecord(mt), NEW f \in Files, NEW m \in MetersOf(f) \ DOMAIN mt
  PROVE  /\ SheetIdx(mt, f, m) \in Nat
         /\ \A n \in DOMAIN mt : Dir[n] = Dir[m] => mt[n].idx < SheetIdx(mt, f, m)
         /\ \A n \in Before(mt, f, m) : SheetIdx(mt, f, n) < SheetIdx(mt, f, m)
         /\ \A S \in SUBSET Meters :
              SameDir(mt, m) \cup Before(mt, f, m) \cup {m} \subseteq S =>
                SheetIdx(mt, f, m) < Cardinality(S)
<1> DEFINE K(n) == Cardinality(Before(mt, f, n))
<1>1. DOMAIN mt \subseteq Meters /\ mt \in [DOMAIN mt -> Entries] /\ m \in Meters
  BY DEF IsRecord, MetersOf
<1>2. /\ NewIdx(mt, m) \in Nat /\ NewIdx(mt, m) =< Cardinality(SameDir(mt, m))
      /\ \A n \in SameDir(mt, m) : mt[n].idx < NewIdx(mt, m)
  BY <1>1, NewIdxType
<1>3. ASSUME NEW n PROVE IsFiniteSet(Before(mt, f, n)) /\ K(n) \in Nat
  <2>1. Before(mt, f, n) \in SUBSET Meters
    BY DEF Before, MetersOf
  <2> QED
    BY <2>1, ImportAssumption, FS_Subset, FS_CardinalityType
<1>4. \A n : SheetIdx(mt, f, n) = NewIdx(mt, n) + K(n)
  BY DEF SheetIdx, Before
<1>5. SheetIdx(mt, f, m) \in Nat /\ SheetIdx(mt, f, m) = NewIdx(mt, m) + K(m) /\ K(m) \in Nat
  BY <1>2, <1>3, <1>4
<1>6. ASSUME NEW n \in DOMAIN mt, Dir[n] = Dir[m] PROVE mt[n].idx < SheetIdx(mt, f, m)
  <2>1. n \in SameDir(mt, m) /\ mt[n] \in Entries /\ Cardinality(Meters) \in Nat
    BY <1>1, <1>6, ImportAssumption, FS_CardinalityType DEF SameDir
  <2>2. mt[n].idx \in Nat /\ mt[n].idx < NewIdx(mt, m)
    BY <1>2, <2>1 DEF Entries
  <2> QED
    BY <1>2, <1>5, <2>2
<1>7. ASSUME NEW n \in Before(mt, f, m) PROVE SheetIdx(mt, f, n) < SheetIdx(mt, f, m)
  <2>1. n \in MetersOf(f) /\ Dir[n] = Dir[m] /\ Earlier(f, n, m)
    BY DEF Before
  <2>2. NewIdx(mt, n) = NewIdx(mt, m)
    BY <2>1 DEF NewIdx
  <2>3. Before(mt, f, n) \cup {n} \in SUBSET Before(mt, f, m)
    <3>1. \A x \in Before(mt, f, n) : Earlier(f, x, m) /\ Dir[x] = Dir[m]
      BY <2>1, EarlierOrder DEF Before
    <3> QED
      BY <3>1 DEF Before
  <2>4. n \notin Before(mt, f, n)
    BY EarlierOrder DEF Before
  <2>5. /\ Cardinality(Before(mt, f, n) \cup {n}) = K(n) + 1
        /\ Cardinality(Before(mt, f, n) \cup {n}) =< K(m)
    BY <1>3, <2>3, <2>4, FS_AddElement, FS_Subset
  <2>6. K(n) < K(m) /\ K(n) \in Nat /\ K(m) \in Nat
    BY <1>3, <2>5
  <2> QED
    BY <1>2, <1>4, <2>2, <2>6
<1>8. ASSUME NEW S \in SUBSET Meters, SameDir(mt, m) \cup Before(mt, f, m) \cup {m} \subseteq S
      PROVE  SheetIdx(mt, f, m) < Cardinality(S)
  <2> DEFINE A == SameDir(mt, m)
             B == Before(mt, f, m)
  <2>1. IsFiniteSet(A) /\ Cardinality(A) \in Nat /\ IsFiniteSet(B)
    BY <1>1, <1>3, SameDirType
  <2>2. A \cap B = {} /\ m \notin A \cup B
    <3>1. m \notin B
      BY EarlierOrder DEF Before
    <3> QED
      BY <3>1 DEF SameDir, Before
  <2> HIDE DEF A, B
  <2>3. IsFiniteSet(A \cup B) /\ Cardinality(A \cup B) = Cardinality(A) + Cardinality(B) - 0
    BY <2>1, <2>2, FS_Union, FS_EmptySet
  <2>4. /\ Cardinality((A \cup B) \cup {m}) = Cardinality(A \cup B) + 1
        /\ (A \cup B) \cup {m} \in SUBSET S
    BY <1>8, <2>2, <2>3, FS_AddElement DEF A, B
  <2>5. IsFiniteSet(S) /\ Cardinality(S) \in Nat
    BY ImportAssumption, FS_Subset, FS_CardinalityType
  <2>6. Cardinality((A \cup B) \cup {m}) =< Cardinality(S)
    BY <2>4, <2>5, FS_Subset
  <2>7. Cardinality(B) = K(m)
    BY DEF B
  <2> QED
    BY <1>2, <1>5, <2>1, <2>3, <2>4, <2>5, <2>6, <2>7 DEF A
<1> QED
  BY <1>5, <1>6, <1>7, <1>8

(* The period of an entry is extended, not its index.                      *)
LEMMA ExtendType ==
  ASSUME NEW f \in Files, NEW i \in 0 .. Cardinality(Meters) - 1,
         NEW a \in Rows \cup {Never}, NEW b \in Rows \cup {Never}
  PROVE  LET entry == [idx |-> i, first |-> a, last |-> b]
         IN  Extend(entry, f) \in Entries /\ Extend(entry, f).idx = i
<1>1. f.first \in Rows /\ f.last \in Rows
  BY FileType
<1> QED
  BY <1>1 DEF Extend, Entries

(* buildMatrixMetaStruct makes a meta record of a meta record: it keeps    *)
(* the columns of the meters and gives new meters columns of their own.    *)
LEMMA SheetMetaType ==
  ASSUME NEW mt, IsRecord(mt), NEW f \in Files
  PROVE  /\ IsRecord(SheetMeta(mt, f))
         /\ DOMAIN SheetMeta(mt, f) = DOMAIN mt \cup MetersOf(f)
         /\ \A n \in DOMAIN mt : SheetMeta(mt, f)[n].idx = mt[n].idx
<1> DEFINE new == SheetMeta(mt, f)
           old == DOMAIN mt
           added == MetersOf(f) \ DOMAIN mt
<1>1. /\ old \subseteq Meters /\ mt \in [old -> Entries] /\ Indexed(mt)
      /\ MetersOf(f) \subseteq Meters
  BY DEF IsRecord, MetersOf
<1>2. DOMAIN new = old \cup added /\ DOMAIN new = old \cup MetersOf(f)
  BY DEF SheetMeta
<1>3. new = [n \in DOMAIN new |-> new[n]]
  BY DEF SheetMeta
<1>4. Never \in Rows \cup {Never} /\ Cardinality(Meters) \in Nat
  BY ImportAssumption, FS_CardinalityType
<1>5. ASSUME NEW n \in old PROVE new[n] \in Entries /\ new[n].idx = mt[n].idx
  <2>1. PICK i \in 0 .. Cardinality(Meters) - 1, x \in Rows \cup {Never}, y \in Rows \cup {Never} :
          mt[n] = [idx |-> i, first |-> x, last |-> y]
    BY <1>1 DEF Entries
  <2>2. Extend(mt[n], f) \in Entries /\ Extend(mt[n], f).idx = i
    BY <2>1, ExtendType
  <2>3. new[n] = IF n \in MetersOf(f) THEN Extend(mt[n], f) ELSE mt[n]
    BY DEF SheetMeta, SheetEntry
  <2> QED
    BY <1>1, <2>1, <2>2, <2>3
<1>6. ASSUME NEW n \in added
      PROVE  /\ SheetIdx(mt, f, n) < Cardinality(SameDir(new, n))
             /\ SheetIdx(mt, f, n) \in 0 .. Cardinality(Meters) - 1
             /\ new[n] \in Entries /\ new[n].idx = SheetIdx(mt, f, n)
  <2>1. SameDir(new, n) \in SUBSET Meters
    BY <1>1, <1>2 DEF SameDir
  <2>2. SameDir(mt, n) \cup Before(mt, f, n) \cup {n} \subseteq SameDir(new, n)
    BY <1>2 DEF SameDir, Before
  <2>3. SheetIdx(mt, f, n) \in Nat /\ SheetIdx(mt, f, n) < Cardinality(SameDir(new, n))
    BY <2>1, <2>2, SheetIdxType
  <2>4. Cardinality(SameDir(new, n)) =< Cardinality(Meters) /\ Cardinality(SameDir(new, n)) \in Nat
    BY <1>1, <1>2, SameDirType
  <2>5. SheetIdx(mt, f, n) \in 0 .. Cardinality(Meters) - 1
    BY <1>4, <2>3, <2>4
  <2>6. new[n] = Extend([idx |-> SheetIdx(mt, f, n), first |-> Never, last |-> Never], f)
    BY DEF SheetMeta, SheetEntry
  <2> QED
    BY <1>4, <2>3, <2>5, <2>6, ExtendType
<1>7. new \in [DOMAIN new -> Entries]
  <2> HIDE DEF new
  <2> QED
    BY <1>2, <1>3, <1>5, <1>6
<1>8. \A n \in DOMAIN new : new[n].idx < Cardinality(SameDir(new, n))
  <2> SUFFICES ASSUME NEW n \in old PROVE new[n].idx < Cardinality(SameDir(new, n))
    BY <1>2, <1>6
  <2>1. SameDir(mt, n) \in SUBSET SameDir(new, n)
    BY <1>2 DEF SameDir
  <2>2. /\ Cardinality(SameDir(mt, n)) =< Cardinality(SameDir(new, n))
        /\ Cardinality(SameDir(mt, n)) \in Nat /\ Cardinality(SameDir(new, n)) \in Nat
    <3>1. DOMAIN new \subseteq Meters
      BY <1>1, <1>2
    <3> QED
      BY <1>1, <2>1, <3>1, SameDirType, FS_Subset
  <2>3. mt[n].idx < Cardinality(SameDir(mt, n)) /\ new[n].idx = mt[n].idx /\ mt[n].idx \in Nat
    BY <1>1, <1>4, <1>5 DEF Indexed, Entries
  <2> QED
    BY <2>2, <2>3
<1>9. ASSUME NEW n \in DOMAIN new, NEW x \in DOMAIN new, n # x, Dir[n] = Dir[x]
      PROVE  new[n].idx # new[x].idx
  <2>1. \A y \in DOMAIN new : new[y].idx \in Nat
    BY <1>4, <1>7 DEF Entries
  <2>2. \A y \in added : \A z \in old : Dir[z] = Dir[y] => new[z].idx < new[y].idx
    BY <1>5, <1>6, SheetIdxType
  <2>3. \A y, z \in added : Dir[z] = Dir[y] /\ Earlier(f, z, y) => new[z].idx < new[y].idx
    BY <1>6, SheetIdxType DEF Before
  <2>4. CASE n \in old /\ x \in old
    BY <1>1, <1>5, <1>9, <2>4 DEF Indexed, Column
  <2> HIDE DEF new, old, added
  <2>5. CASE n \in old /\ x \in added
    BY <1>2, <1>9, <2>1, <2>2, <2>5
  <2>6. CASE n \in added /\ x \in old
    BY <1>2, <1>9, <2>1, <2>2, <2>6
  <2>7. CASE n \in added /\ x \in added
    <3>1. Earlier(f, n, x) \/ Earlier(f, x, n)
      BY <1>9, <2>7, EarlierOrder DEF added
    <3> QED
      BY <1>9, <2>1, <2>3, <2>7, <3>1
  <2> QED
    BY <1>2, <2>4, <2>5, <2>6, <2>7
<1>10. Indexed(new)
  <2>1. \A n, x \in DOMAIN new : n # x => Column(n, new[n].idx) # Column(x, new[x].idx)
    BY <1>9 DEF Column
  <2> QED
    BY <1>8, <2>1 DEF Indexed
<1> HIDE DEF new
<1>11. IsRecord(new)
  <2>1. DOMAIN new \subseteq Meters
    BY <1>1, <1>2
  <2> QED
    BY <1>7, <1>10, <2>1 DEF IsRecord
<1> QED
  BY <1>2, <1>5, <1>11 DEF new

(* What the sheet puts into a cell of a meter are values of that meter.    *)
LEMMA SheetCellType ==
  ASSUME NEW f \in Files, NEW m \in Meters, NEW r \in RowsOfFirst(f, Len(f.rows))
  PROVE  /\ Occurrences(f, r) \in SUBSET (1 .. Len(f.rows)) /\ Occurrences(f, r) # {}
         /\ Occurrences(f, r) \in SUBSET Nat /\ Min(Occurrences(f, r)) \in Occurrences(f, r)
         /\ \A v \in SheetCell(f, m, r) :
              \E k \in Occurrences(f, r), c \in {"Total", "TotalTF"} : v = <<m, k, c>>
<1> DEFINE O == Occurrences(f, r)
<1>1. Len(f.rows) \in Nat /\ DOMAIN f.rows = 1 .. Len(f.rows)
  BY FileType
<1>2. O = {k \in 1 .. Len(f.rows) : RowOf(f.rows[k]) = r}
  BY <1>1 DEF Occurrences
<1>3. O \in SUBSET (1 .. Len(f.rows)) /\ O \in SUBSET Nat /\ O # {}
  BY <1>1, <1>2 DEF RowsOfFirst
<1> HIDE DEF O
<1>4. Min(O) \in O
  BY <1>3, Smallest
<1>5. ASSUME NEW v \in SheetCell(f, m, r)
      PROVE  \E k \in O, c \in {"Total", "TotalTF"} : v = <<m, k, c>>
  <2>1. v \in SetBy(f, m, Min(O)) \/ \E k \in O : v \in AddedBy(f, m, k)
    BY DEF SheetCell, O
  <2>2. \A k : \A x \in SetBy(f, m, k) : \E c \in {"Total", "TotalTF"} : x = <<m, k, c>>
    BY DEF SetBy
  <2>3. \A k : \A x \in AddedBy(f, m, k) : \E c \in {"Total", "TotalTF"} : x = <<m, k, c>>
    BY DEF AddedBy
  <2> QED
    BY <1>4, <2>1, <2>2, <2>3
<1> QED
  BY <1>3, <1>4, <1>5 DEF O

(* The column of an imported meter in the lines of the upload, and whose   *)
(* values are in a column.                                                 *)
LEMMA SheetLinesType ==
  ASSUME NEW mt, IsRecord(mt), NEW f \in Files, NEW copies, AreAnyLines(copies),
         DOMAIN copies = RowsOfFirst(f, Len(f.rows))
  PROVE  /\ AreAnyLines(SheetLines(f, mt, copies))
         /\ DOMAIN SheetLines(f, mt, copies) = DOMAIN copies
         /\ \A r \in DOMAIN copies : \A c \in Columns :
              /\ c \notin SheetColumns(mt, f) => SheetLines(f, mt, copies)[r][c] = copies[r][c]
              /\ c \in SheetColumns(mt, f) =>
                   \E m \in MetersOf(f) : /\ c = Column(m, SheetMeta(mt, f)[m].idx)
                                          /\ SheetLines(f, mt, copies)[r][c] = SheetCell(f, m, r)
         /\ \A m \in MetersOf(f) :
              /\ Column(m, SheetMeta(mt, f)[m].idx) \in Columns
              /\ \A r \in DOMAIN copies :
                   SheetLines(f, mt, copies)[r][Column(m, SheetMeta(mt, f)[m].idx)]
                     = SheetCell(f, m, r)
<1> DEFINE new == SheetMeta(mt, f)
           made == SheetLines(f, mt, copies)
           Own(c) == {m \in MetersOf(f) : Column(m, new[m].idx) = c}
<1>1. /\ IsRecord(new) /\ MetersOf(f) \subseteq DOMAIN new /\ MetersOf(f) \subseteq Meters
  BY SheetMetaType DEF MetersOf
<1>2. \A m \in MetersOf(f) : Column(m, new[m].idx) \in Columns
  <2>1. \A m \in DOMAIN new : new[m].idx \in 0 .. Cardinality(Meters) - 1
    BY <1>1 DEF IsRecord, Entries
  <2> HIDE DEF new
  <2> QED
    BY <1>1, <2>1 DEF Columns
<1>3. /\ DOMAIN made = DOMAIN copies
      /\ \A r \in DOMAIN copies : made[r] =
           [c \in Columns |-> IF c \notin SheetColumns(mt, f) THEN copies[r][c]
                              ELSE UNION {SheetCell(f, m, r) : m \in Own(c)}]
      /\ made = [r \in DOMAIN copies |-> made[r]]
  <2>1. DOMAIN f.rows = 1 .. Len(f.rows)
    BY FileType
  <2>2. DOMAIN copies = SheetRows(f)
    BY <2>1 DEF RowsOfFirst, SheetRows
  <2> QED
    BY <2>2 DEF SheetLines
<1>4. ASSUME NEW m \in MetersOf(f), NEW r
      PROVE  UNION {SheetCell(f, x, r) : x \in Own(Column(m, new[m].idx))} = SheetCell(f, m, r)
  <2>1. Own(Column(m, new[m].idx)) = {m}
    <3>1. \A x \in MetersOf(f) : Column(x, new[x].idx) = Column(m, new[m].idx) => x = m
      BY <1>1 DEF IsRecord, Indexed
    <3> HIDE DEF new
    <3> QED
      BY <3>1
  <2> HIDE DEF Own
  <2> QED
    BY <2>1
<1>5. \A c \in SheetColumns(mt, f) : \E m \in MetersOf(f) : c = Column(m, new[m].idx)
  BY DEF SheetColumns
<1>6. \A m \in MetersOf(f) : Column(m, new[m].idx) \in SheetColumns(mt, f)
  BY DEF SheetColumns
<1> HIDE DEF new, Own, made
<1>7. ASSUME NEW r \in DOMAIN copies, NEW c \in Columns
      PROVE  /\ c \notin SheetColumns(mt, f) => made[r][c] = copies[r][c]
             /\ c \in SheetColumns(mt, f) =>
                  \E m \in MetersOf(f) : c = Column(m, new[m].idx) /\ made[r][c] = SheetCell(f, m, r)
  <2>1. made[r][c] = IF c \notin SheetColumns(mt, f) THEN copies[r][c]
                     ELSE UNION {SheetCell(f, m, r) : m \in Own(c)}
    BY <1>3
  <2>2. CASE c \notin SheetColumns(mt, f)
    BY <2>1, <2>2
  <2>3. CASE c \in SheetColumns(mt, f)
    <3>1. PICK m \in MetersOf(f) : c = Column(m, new[m].idx)
      BY <1>5, <2>3
    <3>2. made[r][c] = SheetCell(f, m, r)
      BY <1>4, <2>1, <2>3, <3>1, Zenon
    <3> QED
      BY <2>3, <3>1, <3>2
  <2> QED
    BY <2>2, <2>3
<1>8. ASSUME NEW m \in MetersOf(f), NEW r \in DOMAIN copies
      PROVE  made[r][Column(m, new[m].idx)] = SheetCell(f, m, r)
  <2>1. made[r][Column(m, new[m].idx)]
          = UNION {SheetCell(f, x, r) : x \in Own(Column(m, new[m].idx))}
    BY <1>2, <1>3, <1>6
  <2> QED
    BY <1>4, <2>1, Zenon
<1>9. ASSUME NEW r \in DOMAIN copies PROVE made[r] \in AnyLine
  <2>1. \A c \in Columns : made[r][c] \in SUBSET (SheetValues \cup (Nat \X Intervals))
    <3> TAKE c \in Columns
    <3>1. CASE c \notin SheetColumns(mt, f)
      <4>1. copies[r] \in AnyLine
        BY DEF AreAnyLines
      <4> QED
        BY <1>7, <3>1, <4>1 DEF AnyLine
    <3>2. CASE c \in SheetColumns(mt, f)
      <4>1. PICK m \in MetersOf(f) : made[r][c] = SheetCell(f, m, r)
        BY <1>7, <3>2
      <4>2. /\ m \in Meters /\ Occurrences(f, r) \in SUBSET Nat
            /\ \A v \in SheetCell(f, m, r) :
                 \E k \in Occurrences(f, r), x \in {"Total", "TotalTF"} : v = <<m, k, x>>
        BY <1>1, SheetCellType
      <4>3. \A v \in SheetCell(f, m, r) : v \in SheetValues
        BY <4>2 DEF SheetValues
      <4> QED
        BY <4>1, <4>3
    <3> QED
      BY <3>1, <3>2
  <2>2. made[r] = [c \in Columns |-> made[r][c]]
    BY <1>3
  <2> QED
    BY <2>1, <2>2 DEF AnyLine
<1>10. AreAnyLines(made)
  <2>1. DOMAIN made \subseteq Rows
    BY <1>3 DEF AreAnyLines
  <2> QED
    BY <1>3, <1>9, <2>1 DEF AreAnyLines
<1> QED
  BY <1>2, <1>3, <1>7, <1>8, <1>10 DEF new, made

-----------------------------------------------------------------------------
(* The types.                                                              *)

(* The message whose parts are imported.                                   *)
LEMMA PartOfMessage ==
  ASSUME ImportTypes, NEW p \in DOMAIN pc
  PROVE  /\ number \in Nat /\ number \in 1 .. Len(batch)
         /\ msg \in Message /\ msg.meter \in Meters /\ p \in Split(msg)
<1>1. number # 0 /\ number \in 0 .. Len(batch) /\ batch \in Batches
  BY DEF ImportTypes
<1>2. Len(batch) \in Nat
  BY <1>1, ImportAssumption
<1>3. number > 0 /\ number \in 1 .. Len(batch) /\ number \in Nat
  BY <1>1, <1>2
<1>4. p \in Split(msg)
  BY <1>3 DEF ImportTypes
<1>5. msg \in Message
  BY <1>1, <1>3, BatchType DEF msg
<1> QED
  BY <1>3, <1>4, <1>5 DEF Message

(* The steps of a part leave the others where they are.                    *)
LEMMA PartAlone ==
  ASSUME ImportTypes, NEW p \in DOMAIN pc, StorePart(p)
  PROVE  /\ msg' = msg /\ number' = number /\ batch' = batch
         /\ DOMAIN pc' = DOMAIN pc /\ pc' \in [DOMAIN pc -> Labels]
         /\ \A q \in DOMAIN pc \ {p} : /\ pc'[q] = pc[q] /\ cp'[q] = cp[q]
                                       /\ view'[q] = view[q] /\ fetched'[q] = fetched[q]
                                       /\ q \in failed' <=> q \in failed
<1>1. number' = number /\ batch' = batch
  BY DEF StorePart, MetaFails, ReadMeta, CreateMeta, CreateFails, FetchLines, WriteLines, WriteFails,
         RereadMeta, SaveMeta, input
<1>2. msg' = msg
  BY <1>1 DEF msg
<1>3. \E to \in Labels : pc' = [pc EXCEPT ![p] = to]
  BY DEF StorePart, MetaFails, ReadMeta, CreateMeta, CreateFails, FetchLines, WriteLines, WriteFails,
         RereadMeta, SaveMeta, Goto, Labels
<1>4. /\ DOMAIN pc' = DOMAIN pc /\ pc' \in [DOMAIN pc -> Labels]
      /\ \A q \in DOMAIN pc \ {p} : pc'[q] = pc[q]
  BY <1>3 DEF ImportTypes
<1>5. \A q \in DOMAIN pc \ {p} :
        cp'[q] = cp[q] /\ view'[q] = view[q] /\ fetched'[q] = fetched[q]
  BY DEF StorePart, MetaFails, ReadMeta, CreateMeta, CreateFails, FetchLines, WriteLines, WriteFails,
         RereadMeta, SaveMeta, locals, ImportTypes
<1>6. \A q \in DOMAIN pc \ {p} : q \in failed' <=> q \in failed
  BY DEF StorePart, MetaFails, ReadMeta, CreateMeta, CreateFails, FetchLines, WriteLines, WriteFails,
         RereadMeta, SaveMeta
<1> QED
  BY <1>1, <1>2, <1>4, <1>5, <1>6

(* What a part writes as the meta record is a meta record: the one it has  *)
(* read, with another period for its meter (SaveMeta).                     *)
LEMMA RecordStep ==
  ASSUME ImportTypes, NEW p \in DOMAIN pc, StorePart(p)
  PROVE  /\ IsRecord(meta')
         /\ meta' # meta =>
              /\ pc[p] \in {"create", "save"} /\ DOMAIN meta' = DOMAIN view[p]
              /\ \A n \in DOMAIN view[p] : meta'[n].idx = view[p][n].idx
<1>1. IsRecord(meta) /\ IsRecord(view[p]) /\ cp[p] \in Entries
  BY DEF ImportTypes
<1>2. CASE CreateMeta(p)
  BY <1>1, <1>2 DEF CreateMeta, Goto
<1>3. CASE SaveMeta(p)
  <2> DEFINE m == msg.meter
             saved == [view[p] EXCEPT ![m].first = cp[p].first, ![m].last = cp[p].last]
  <2>1. pc[p] = "save" /\ meta' = IF m \in DOMAIN view[p] THEN saved ELSE meta
    BY <1>3 DEF SaveMeta, Goto
  <2>2. CASE m \notin DOMAIN view[p]
    BY <1>1, <2>1, <2>2
  <2>3. CASE m \in DOMAIN view[p]
    <3>1. view[p] \in [DOMAIN view[p] -> Entries]
      BY <1>1 DEF IsRecord
    <3>2. cp[p].first \in Rows \cup {Never} /\ cp[p].last \in Rows \cup {Never}
      BY <1>1 DEF Entries
    <3>3. /\ saved \in [DOMAIN view[p] -> Entries] /\ DOMAIN saved = DOMAIN view[p]
          /\ \A n \in DOMAIN view[p] : saved[n].idx = view[p][n].idx
      <4> HIDE DEF m
      <4> QED
        BY <2>3, <3>1, <3>2 DEF Entries
    <3> HIDE DEF saved
    <3>4. IsRecord(saved)
      BY <1>1, <3>3, SameColumnsType
    <3> QED
      BY <2>1, <2>3, <3>3, <3>4
  <2> QED
    BY <2>2, <2>3
<1>4. CASE ~ CreateMeta(p) /\ ~ SaveMeta(p)
  <2>1. meta' = meta
    BY <1>4 DEF StorePart, MetaFails, ReadMeta, CreateFails, FetchLines, WriteLines, WriteFails, RereadMeta
  <2> QED
    BY <1>1, <2>1
<1> QED
  BY <1>2, <1>3, <1>4

(* importEnergyValuesV2 sets cells of one column, in lines of any values.  *)
WellImported(made, old, new, col) ==
  /\ AreAnyLines(made) /\ DOMAIN made = DOMAIN old \cup DOMAIN new
  /\ \A r \in DOMAIN made : \A c \in Columns :
       made[r][c] = IF r \in DOMAIN new /\ c = col THEN new[r]
                    ELSE IF r \in DOMAIN old THEN old[r][c] ELSE {}

(* The lines that are made of old ones.                                    *)
LEMMA AnyImportedType ==
  ASSUME NEW old, AreAnyLines(old), NEW m \in Message, NEW p \in Split(m),
         NEW col \in Columns, number \in Nat
  PROVE  WellImported(Imported(old, p, col), old, ValueOf(number, p), col)
<1> DEFINE new == ValueOf(number, p)
           line(r) == IF r \in DOMAIN old THEN old[r] ELSE EmptyLine
           made == Imported(old, p, col)
           Any == SheetValues \cup (Nat \X Intervals)
<1>1. DOMAIN new \subseteq Rows /\ \A r \in DOMAIN new : new[r] \in SUBSET Any
  <2>1. DOMAIN new \subseteq Rows /\ new \in [DOMAIN new -> SUBSET (Nat \X Intervals)]
    BY ValueType
  <2> HIDE DEF new
  <2> QED
    BY <2>1
<1> HIDE DEF new
<1>2. EmptyLine \in AnyLine /\ \A c \in Columns : EmptyLine[c] = {}
  BY DEF EmptyLine, AnyLine
<1>3. \A r \in DOMAIN old : old[r] \in AnyLine
  BY DEF AreAnyLines
<1>4. \A r : line(r) \in AnyLine
  BY <1>2, <1>3
<1>5. made = [r \in DOMAIN old \cup DOMAIN new |->
                IF r \in DOMAIN new THEN [line(r) EXCEPT ![col] = new[r]] ELSE line(r)]
  BY Zenon DEF Imported, new
<1> HIDE DEF made
<1>6. /\ DOMAIN made = DOMAIN old \cup DOMAIN new /\ made = [r \in DOMAIN made |-> made[r]]
      /\ \A r \in DOMAIN new : made[r] = [line(r) EXCEPT ![col] = new[r]]
      /\ \A r \in DOMAIN old \ DOMAIN new : made[r] = line(r)
  BY <1>5
<1>7. ASSUME NEW r \in DOMAIN made
      PROVE  /\ made[r] \in AnyLine
             /\ \A c \in Columns : made[r][c] = IF r \in DOMAIN new /\ c = col THEN new[r]
                                                ELSE line(r)[c]
  <2>1. PICK x \in AnyLine : x = line(r)
    BY <1>4
  <2>2. CASE r \in DOMAIN new
    <3>1. made[r] = [x EXCEPT ![col] = new[r]] /\ new[r] \in SUBSET Any
      BY <1>1, <1>6, <2>1, <2>2, Zenon
    <3>2. x \in [Columns -> SUBSET Any]
      BY DEF AnyLine
    <3> HIDE DEF Any, line
    <3>3. /\ [x EXCEPT ![col] = new[r]] \in [Columns -> SUBSET Any]
          /\ \A c \in Columns : [x EXCEPT ![col] = new[r]][c] = IF c = col THEN new[r] ELSE x[c]
      BY <3>1, <3>2
    <3> QED
      BY <2>1, <2>2, <3>1, <3>3, Zenon DEF AnyLine, Any
  <2>3. CASE r \notin DOMAIN new
    <3>1. made[r] = x
      BY <1>6, <2>1, <2>3
    <3> QED
      BY <2>1, <2>3, <3>1, Zenon
  <2> QED
    BY <2>2, <2>3
<1>8. AreAnyLines(made)
  <2>1. DOMAIN made \subseteq Rows
    BY <1>1, <1>6 DEF AreAnyLines
  <2> QED
    BY <1>6, <1>7, <2>1 DEF AreAnyLines
<1>9. \A r : \A c \in Columns : line(r)[c] = IF r \in DOMAIN old THEN old[r][c] ELSE {}
  BY <1>2
<1> HIDE DEF line
<1> QED
  BY <1>6, <1>7, <1>8, <1>9, Zenon DEF made, new, WellImported

(* The lines after a part has written some of its rows (SetLines).         *)
WellPut(p, rows, value, col) ==
  /\ col \in Columns /\ AreAnyLines(lines')
  /\ rows \subseteq DOMAIN fetched[p] \cup DOMAIN value
  /\ DOMAIN lines' = DOMAIN lines \cup rows
  /\ \A r \in DOMAIN lines' : \A c \in Columns :
       lines'[r][c] = IF r \notin rows THEN lines[r][c]
                      ELSE IF r \in DOMAIN value /\ c = col THEN value[r]
                      ELSE IF r \in DOMAIN fetched[p] THEN fetched[p][r][c] ELSE {}

LEMMA LinesPut ==
  ASSUME ImportTypes, NEW p \in DOMAIN pc, NEW rows \in SUBSET DOMAIN UpdatedLines(p),
         Put(UpdatedLines(p), rows)
  PROVE  WellPut(p, rows, ValueOf(number, p), Column(msg.meter, cp[p].idx))
<1> DEFINE value == ValueOf(number, p)
           col == Column(msg.meter, cp[p].idx)
           written == Imported(fetched[p], p, col)
<1>1. number \in Nat /\ msg \in Message /\ msg.meter \in Meters /\ p \in Split(msg)
  BY PartOfMessage
<1>2. col \in Columns
  <2>1. cp[p].idx \in 0 .. Cardinality(Meters) - 1
    BY DEF ImportTypes, Entries
  <2> QED
    BY <1>1, <2>1 DEF Columns
<1>3. AreAnyLines(fetched[p]) /\ AreAnyLines(lines)
  BY DEF ImportTypes
<1>4. /\ lines' = [r \in DOMAIN lines \cup rows |-> IF r \in rows THEN written[r] ELSE lines[r]]
      /\ rows \subseteq DOMAIN written
  BY DEF Put, UpdatedLines
<1> HIDE DEF col
<1>5. /\ AreAnyLines(written) /\ DOMAIN written = DOMAIN fetched[p] \cup DOMAIN value
      /\ \A r \in DOMAIN written : \A c \in Columns :
           written[r][c] = IF r \in DOMAIN value /\ c = col THEN value[r]
                           ELSE IF r \in DOMAIN fetched[p] THEN fetched[p][r][c] ELSE {}
  <2>0. PICK c \in Columns, m \in Message : c = col /\ m = msg
    BY <1>1, <1>2
  <2>1. PICK old : c = col /\ m = msg /\ old = fetched[p]
    BY <2>0
  <2>2. AreAnyLines(old) /\ p \in Split(m)
    BY <1>1, <1>3, <2>1
  <2>3. WellImported(Imported(old, p, c), old, ValueOf(number, p), c)
    BY <1>1, <2>2, AnyImportedType, Zenon
  <2>4. WellImported(written, fetched[p], value, col)
    BY <2>1, <2>3, Zenon
  <2> HIDE DEF written, value
  <2> QED
    BY <2>4, Zenon DEF WellImported
<1> HIDE DEF written, value
<1>6. AreAnyLines(lines')
  BY <1>3, <1>4, <1>5 DEF AreAnyLines
<1>7. DOMAIN lines' = DOMAIN lines \cup rows
  BY <1>4
<1>8. rows \subseteq DOMAIN fetched[p] \cup DOMAIN value
  BY <1>4, <1>5
<1>9. ASSUME NEW r \in DOMAIN lines', NEW c \in Columns
      PROVE  lines'[r][c] = IF r \notin rows THEN lines[r][c]
                            ELSE IF r \in DOMAIN value /\ c = col THEN value[r]
                            ELSE IF r \in DOMAIN fetched[p] THEN fetched[p][r][c] ELSE {}
  <2>1. CASE r \in rows
    <3>1. lines'[r] = written[r] /\ r \in DOMAIN written
      BY <1>4, <2>1
    <3> QED
      BY <1>5, <2>1, <3>1
  <2>2. CASE r \notin rows
    BY <1>4, <1>7, <2>2
  <2> QED
    BY <2>1, <2>2
<1> QED
  BY <1>2, <1>6, <1>7, <1>8, <1>9, Zenon DEF WellPut, value, col

(* WriteLines stores all of them, WriteFails the first batches.            *)
PutBack(p) == \E rows \in SUBSET DOMAIN UpdatedLines(p) : Put(UpdatedLines(p), rows)

LEMMA WritersPutBack ==
  ASSUME NEW p, WriteLines(p) \/ WriteFails(p)
  PROVE  PutBack(p)
<1> DEFINE all == DOMAIN UpdatedLines(p)
<1>1. ASSUME NEW rows \in FirstBatches(all) PROVE rows \in SUBSET all
  BY DEF FirstBatches
<1>2. CASE WriteLines(p)
  <2>1. Put(UpdatedLines(p), all)
    BY <1>2 DEF WriteLines
  <2> HIDE DEF all
  <2> QED
    BY <2>1 DEF PutBack, all
<1>3. CASE WriteFails(p)
  <2>1. PICK rows \in FirstBatches(all) : Put(UpdatedLines(p), rows)
    BY <1>3 DEF WriteFails
  <2> QED
    BY <1>1, <2>1 DEF PutBack
<1> QED
  BY <1>2, <1>3

(* Records, lines and copies stay well formed: a step of StoreEnergyV2,    *)
LEMMA PartTypes ==
  ASSUME ImportTypes, NEW p \in DOMAIN pc, StorePart(p)
  PROVE  ImportTypes'
<1>1. /\ msg' = msg /\ number' = number /\ batch' = batch
      /\ DOMAIN pc' = DOMAIN pc /\ pc' \in [DOMAIN pc' -> Labels]
  BY PartAlone
<1>2. msg \in Message /\ msg.meter \in Meters /\ p \in Split(msg)
  BY PartOfMessage
<1>3. IsRecord(meta')
  BY RecordStep
<1>4. WithMeter(meta, msg.meter)[msg.meter] \in Entries /\ IsRecord(WithMeter(meta, msg.meter))
  BY <1>2, WithMeterType DEF ImportTypes
<1>5. cp' \in [DOMAIN pc -> Entries]
  <2>1. CASE ReadMeta(p)
    BY <1>4, <2>1 DEF ReadMeta, ImportTypes
  <2>2. CASE WriteLines(p)
    <3>1. Extended(cp[p], p) \in Entries
      BY <1>2, ExtendedType DEF ImportTypes
    <3> QED
      BY <2>2, <3>1 DEF WriteLines, ImportTypes
  <2>3. CASE ~ ReadMeta(p) /\ ~ WriteLines(p)
    BY <2>3 DEF StorePart, MetaFails, CreateMeta, CreateFails, FetchLines, WriteFails, RereadMeta, SaveMeta,
                locals, ImportTypes
  <2> QED
    BY <2>1, <2>2, <2>3
<1>6. /\ DOMAIN view' = DOMAIN pc /\ view' = [q \in DOMAIN pc |-> view'[q]]
      /\ \A q \in DOMAIN pc : IsRecord(view'[q])
  <2>1. CASE ReadMeta(p)
    BY <1>4, <2>1 DEF ReadMeta, ImportTypes
  <2>2. CASE RereadMeta(p)
    BY <2>2 DEF RereadMeta, ImportTypes
  <2>3. CASE ~ ReadMeta(p) /\ ~ RereadMeta(p)
    BY <2>3 DEF StorePart, MetaFails, CreateMeta, CreateFails, FetchLines, WriteLines, WriteFails, SaveMeta,
                locals, ImportTypes
  <2> QED
    BY <2>1, <2>2, <2>3
<1>7. /\ DOMAIN fetched' = DOMAIN pc /\ fetched' = [q \in DOMAIN pc |-> fetched'[q]]
      /\ \A q \in DOMAIN pc : AreAnyLines(fetched'[q])
  <2>1. CASE FetchLines(p)
    <3> DEFINE read == [r \in {x \in DOMAIN lines : x \div DayLen \in FetchedDays(p)} |-> lines[r]]
    <3>1. AreAnyLines(read)
      BY DEF AreAnyLines, ImportTypes
    <3>2. fetched' = [fetched EXCEPT ![p] = read]
      BY <2>1 DEF FetchLines
    <3> HIDE DEF read
    <3> QED
      BY <3>1, <3>2 DEF ImportTypes
  <2>2. CASE ~ FetchLines(p)
    BY <2>2 DEF StorePart, MetaFails, ReadMeta, CreateMeta, CreateFails, WriteLines, WriteFails, RereadMeta,
                SaveMeta, locals, ImportTypes
  <2> QED
    BY <2>1, <2>2
<1>8. AreAnyLines(lines')
  <2>1. CASE WriteLines(p) \/ WriteFails(p)
    <3>1. PICK rows \in SUBSET DOMAIN UpdatedLines(p) : Put(UpdatedLines(p), rows)
      BY <2>1, WritersPutBack DEF PutBack
    <3> QED
      BY <3>1, LinesPut DEF WellPut
  <2>2. CASE ~ WriteLines(p) /\ ~ WriteFails(p)
    BY <2>2 DEF StorePart, MetaFails, ReadMeta, CreateMeta, CreateFails, FetchLines, RereadMeta,
                SaveMeta, ImportTypes
  <2> QED
    BY <2>1, <2>2
<1>9. failed' \subseteq DOMAIN pc
  BY DEF StorePart, MetaFails, ReadMeta, CreateMeta, CreateFails, FetchLines, WriteLines, WriteFails,
         RereadMeta, SaveMeta, ImportTypes
<1>10. /\ batch' \in Batches /\ number' \in 0 .. Len(batch')
       /\ number' = 0 => DOMAIN pc' = {}
       /\ number' > 0 => DOMAIN pc' \subseteq Split(msg')
  BY <1>1 DEF ImportTypes
<1> QED
  BY <1>1, <1>3, <1>5, <1>6, <1>7, <1>8, <1>9, <1>10 DEF ImportTypes

(* ... the next message,                                                   *)
LEMMA NextMessageTypes ==
  ASSUME ImportTypes, NextMessage
  PROVE  ImportTypes' /\ \A p \in DOMAIN pc' : pc'[p] = "meta" /\ DOMAIN fetched'[p] = {}
<1> DEFINE parts == Split(batch[number + 1])
<1>1. /\ number < Len(batch) /\ number' = number + 1 /\ batch' = batch
      /\ pc' = [p \in parts |-> "meta"] /\ cp' = [p \in parts |-> NoEntry]
      /\ view' = [p \in parts |-> NoMeta] /\ fetched' = [p \in parts |-> NoLines]
      /\ failed' = {} /\ meta' = meta /\ lines' = lines
  BY DEF NextMessage
<1>2. batch \in Batches /\ number \in Nat /\ Len(batch) \in Nat
  BY ImportAssumption DEF ImportTypes
<1>3. number' \in 1 .. Len(batch) /\ number' > 0
  BY <1>1, <1>2
<1>4. NoEntry \in Entries /\ IsRecord(NoMeta) /\ AreAnyLines(NoLines) /\ DOMAIN NoLines = {}
  <2>1. batch[number'] \in Message
    BY <1>2, <1>3, BatchType
  <2>2. DOMAIN NoLines = {} /\ NoLines \in [{} -> AnyLine]
    BY DEF NoLines
  <2> QED
    BY <2>1, <2>2, EmptyTypes DEF Message, AreAnyLines
<1>5. msg' = batch[number + 1]
  BY <1>1 DEF msg
<1> HIDE DEF parts
<1>6. /\ DOMAIN pc' = parts /\ pc' \in [parts -> Labels] /\ cp' \in [parts -> Entries]
      /\ DOMAIN view' = parts /\ view' = [p \in parts |-> view'[p]]
      /\ DOMAIN fetched' = parts /\ fetched' = [p \in parts |-> fetched'[p]]
      /\ \A p \in parts : view'[p] = NoMeta /\ fetched'[p] = NoLines /\ pc'[p] = "meta"
  BY <1>1, <1>4 DEF Labels
<1>7. IsRecord(meta') /\ AreAnyLines(lines')
  BY <1>1 DEF ImportTypes
<1>8. \A p \in DOMAIN pc' : IsRecord(view'[p]) /\ AreAnyLines(fetched'[p])
  BY <1>4, <1>6
<1>9. batch' \in Batches /\ number' \in 0 .. Len(batch') /\ number' # 0
  BY <1>1, <1>2, <1>3
<1>10. DOMAIN pc' = Split(msg')
  BY <1>5, <1>6 DEF parts
<1>11. failed' \subseteq DOMAIN pc'
  BY <1>1
<1>12. ImportTypes'
  BY <1>6, <1>7, <1>8, <1>9, <1>10, <1>11 DEF ImportTypes
<1> QED
  BY <1>4, <1>6, <1>12

(* ... and the death of the process.                                       *)
LEMMA CrashTypes ==
  ASSUME ImportTypes, Crash
  PROVE  ImportTypes' /\ DOMAIN pc' = {}
<1>1. /\ pc' = [p \in {} |-> "meta"] /\ cp' = [p \in {} |-> NoEntry]
      /\ view' = [p \in {} |-> NoMeta] /\ fetched' = [p \in {} |-> NoLines] /\ failed' = {}
      /\ meta' = meta /\ lines' = lines /\ batch' = batch /\ number' = number
  BY DEF Crash, input
<1>2. /\ DOMAIN pc' = {} /\ pc' \in [{} -> Labels] /\ cp' \in [{} -> Entries]
      /\ DOMAIN view' = {} /\ view' = [p \in {} |-> view'[p]]
      /\ DOMAIN fetched' = {} /\ fetched' = [p \in {} |-> fetched'[p]]
  BY <1>1
<1>3. /\ IsRecord(meta') /\ AreAnyLines(lines') /\ batch' \in Batches /\ number' \in 0 .. Len(batch')
      /\ failed' \subseteq DOMAIN pc'
  BY <1>1 DEF ImportTypes
<1>4. ImportTypes'
  BY <1>2, <1>3 DEF ImportTypes
<1> QED
  BY <1>2, <1>4

(* The record of an upload is a meta record.                               *)
LEMMA SheetRecordType ==
  ASSUME SheetTypes, spc \in {"write", "save"}
  PROVE  /\ file \in Files /\ IsRecord(SheetRecord)
         /\ file.rows # <<>> => SheetRecord = SheetMeta(sread, file)
<1>1. file \in Files /\ IsRecord(sread)
  BY DEF SheetTypes
<1>2. IsRecord(NoMeta)
  BY EmptyTypes
<1> QED
  BY <1>1, <1>2, SheetMetaType DEF SheetRecord

(* The meters that a record lacks are meters.                              *)
LEMMA DisplacedType ==
  ASSUME NEW mt, IsRecord(mt), NEW other
  PROVE  Displaced(mt, other) \subseteq Meters
BY DEF Displaced, IsRecord

(* The import leaves the upload where it is, and loses meters only.        *)
LEMMA ImportStepTypes ==
  ASSUME WTypes, ImportStep
  PROVE  WTypes'
<1>1. /\ spc' = spc /\ file' = file /\ sread' = sread /\ scopies' = scopies /\ srow' = srow
      /\ swritten' = swritten /\ uploads' = uploads /\ crashes' = crashes
      /\ lost' = lost \cup Displaced(meta, meta')
                      \cup {msg.meter : p \in {q \in failed' \ failed : pc[q] = "create"}}
  BY DEF ImportStep, sheetVars, bounds
<1>2. ImportTypes /\ SheetTypes /\ Next
  BY DEF WTypes, ImportStep
<1>3. ImportTypes'
  BY <1>2, PartTypes, NextMessageTypes, Zenon DEF Next
<1>4. \A q \in failed' \ failed : msg.meter \in Meters
  <2>1. CASE NextMessage
    BY <2>1 DEF NextMessage
  <2>2. ASSUME NEW p \in DOMAIN pc, StorePart(p) PROVE msg.meter \in Meters
    BY <1>2, PartOfMessage
  <2> QED
    BY <1>2, <2>1, <2>2, Zenon DEF Next
<1>5. Displaced(meta, meta') \subseteq Meters
  BY <1>2, DisplacedType DEF ImportTypes
<1>6. lost' \subseteq Meters
  <2>1. lost \subseteq Meters
    BY <1>2 DEF SheetTypes
  <2> QED
    BY <1>1, <1>4, <1>5, <2>1
<1>7. SheetTypes'
  BY <1>1, <1>2, <1>6 DEF SheetTypes
<1> QED
  BY <1>3, <1>7 DEF WTypes

(* A row more.                                                             *)
LEMMA RowsGrow ==
  ASSUME NEW f, NEW n \in Nat
  PROVE  /\ RowsOfFirst(f, 0) = {}
         /\ RowsOfFirst(f, n + 1) = RowsOfFirst(f, n) \cup {RowOf(f.rows[n + 1])}
<1>1. 1 .. 0 = {} /\ 1 .. n + 1 = (1 .. n) \cup {n + 1}
  OBVIOUS
<1> QED
  BY <1>1 DEF RowsOfFirst

(* A sheet without data rows has no rows.                                  *)
LEMMA NoRows ==
  ASSUME NEW f \in Files, f.rows = <<>>
  PROVE  RowsOfFirst(f, Len(f.rows)) = {}
<1>1. Len(f.rows) = 0
  BY FileType
<1> QED
  BY <1>1, RowsGrow

(* The meters that a failed upload loses are meters.                       *)
LEMMA UnsavedType ==
  ASSUME SheetTypes
  PROVE  Unsaved \subseteq Meters
<1>1. CASE swritten = {}
  BY <1>1 DEF Unsaved
<1>2. CASE swritten # {}
  <2>1. spc \in {"write", "save"}
    BY <1>2 DEF SheetTypes
  <2>2. IsRecord(SheetRecord)
    BY <2>1, SheetRecordType
  <2> QED
    BY <1>2, <2>2, DisplacedType DEF Unsaved
<1> QED
  BY <1>1, <1>2

(* At the end of an upload its goroutine is gone.                          *)
LEMMA SheetDoneTypes ==
  ASSUME SheetTypes, SheetDone, lost' \subseteq Meters,
         uploads' \in 0 .. MaxUploads, crashes' \in 0 .. MaxCrashes
  PROVE  SheetTypes' /\ DOMAIN scopies' = {}
<1>1. /\ spc' = "idle" /\ file' = NoFile /\ sread' = NoMeta /\ scopies' = NoLines /\ srow' = 0
      /\ swritten' = {}
  BY DEF SheetDone
<1>2. IsRecord(NoMeta) /\ AreAnyLines(NoLines) /\ DOMAIN NoLines = {}
  <2>1. DOMAIN NoLines = {} /\ NoLines \in [{} -> AnyLine]
    BY DEF NoLines
  <2> QED
    BY <2>1, EmptyTypes DEF AreAnyLines
<1>3. SheetTypes'
  BY <1>1, <1>2 DEF SheetTypes, SheetLabels
<1> QED
  BY <1>1, <1>2, <1>3

(* The lines of the upload and of the database after a row (ReadRow).      *)
LEMMA ReadRowTypes ==
  ASSUME WTypes, ReadRow
  PROVE  /\ SheetTypes'
         /\ \A r \in DOMAIN scopies' :
              \/ r \in DOMAIN scopies /\ scopies'[r] = scopies[r]
              \/ r \in DOMAIN lines /\ scopies'[r] = lines[r]
              \/ scopies'[r] = EmptyLine
<1> DEFINE x == RowOf(file.rows[srow + 1])
<1>1. /\ spc = "rows" /\ file \in Files /\ srow \in Nat /\ srow < Len(file.rows)
      /\ DOMAIN scopies = RowsOfFirst(file, srow)
      /\ AreAnyLines(scopies) /\ AreAnyLines(lines)
  BY DEF ReadRow, WTypes, SheetTypes, ImportTypes
<1>2. /\ srow' = srow + 1 /\ file' = file /\ sread' = sread /\ swritten' = swritten
      /\ uploads' = uploads /\ crashes' = crashes /\ lost' = lost
      /\ spc' = IF srow' = Len(file.rows) THEN "write" ELSE "rows"
      /\ scopies' = [r \in DOMAIN scopies \cup {x} |->
                       CASE r \in DOMAIN scopies -> scopies[r]
                         [] r \in DOMAIN lines \ DOMAIN scopies -> lines[r]
                         [] OTHER -> EmptyLine]
  BY DEF ReadRow, bounds
<1>3. srow + 1 \in 1 .. Len(file.rows) /\ Len(file.rows) \in Nat /\ x \in Rows
  <2>1. Len(file.rows) \in Nat
    BY <1>1, FileType
  <2>2. srow + 1 \in 1 .. Len(file.rows)
    BY <1>1, <2>1
  <2> QED
    BY <1>1, <2>1, <2>2, FileType
<1> HIDE DEF x
<1>4. ASSUME NEW r \in DOMAIN scopies'
      PROVE  \/ r \in DOMAIN scopies /\ scopies'[r] = scopies[r]
             \/ r \in DOMAIN lines /\ scopies'[r] = lines[r]
             \/ scopies'[r] = EmptyLine
  <2>1. CASE r \in DOMAIN scopies
    BY <1>2, <2>1
  <2>2. CASE r \in DOMAIN lines \ DOMAIN scopies
    BY <1>2, <2>2
  <2>3. CASE r \notin DOMAIN lines /\ r \notin DOMAIN scopies
    BY <1>2, <2>3
  <2> QED
    BY <2>1, <2>2, <2>3
<1>5. DOMAIN scopies' = DOMAIN scopies \cup {x} /\ scopies' = [r \in DOMAIN scopies' |-> scopies'[r]]
  BY <1>2
<1>6. AreAnyLines(scopies')
  <2>1. EmptyLine \in AnyLine
    BY DEF EmptyLine, AnyLine
  <2>2. \A r \in DOMAIN scopies' : scopies'[r] \in AnyLine
    BY <1>1, <1>4, <2>1 DEF AreAnyLines
  <2>3. DOMAIN scopies' \subseteq Rows
    BY <1>1, <1>3, <1>5 DEF AreAnyLines
  <2> QED
    BY <1>5, <2>2, <2>3 DEF AreAnyLines
<1>7. DOMAIN scopies' = RowsOfFirst(file', srow') /\ srow' \in Nat
  BY <1>1, <1>2, <1>5, RowsGrow DEF x
<1>8. spc' = "rows" => srow' < Len(file'.rows)
  BY <1>2, <1>3
<1>9. spc' = "write" => DOMAIN scopies' = RowsOfFirst(file', Len(file'.rows))
  BY <1>2, <1>7
<1>10. /\ spc' \in {"rows", "write"} /\ file' \in Files /\ IsRecord(sread')
       /\ uploads' \in 0 .. MaxUploads /\ crashes' \in 0 .. MaxCrashes /\ lost' \subseteq Meters
  BY <1>1, <1>2 DEF WTypes, SheetTypes
<1>11. swritten' = {}
  BY <1>1, <1>2 DEF WTypes, SheetTypes
<1>12. SheetTypes'
  BY <1>6, <1>7, <1>8, <1>9, <1>10, <1>11 DEF SheetTypes, SheetLabels
<1> QED
  BY <1>4, <1>12

(* The lines after the upload has written a batch of its own (WriteSheet). *)
LEMMA SheetWritten ==
  ASSUME WTypes, WriteSheet
  PROVE  /\ AreAnyLines(lines') /\ swritten \subseteq swritten'
         /\ swritten' \subseteq swritten \cup DOMAIN scopies
         /\ DOMAIN lines' = DOMAIN lines \cup (swritten' \ swritten)
         /\ \A r \in DOMAIN lines \ (swritten' \ swritten) : lines'[r] = lines[r]
         /\ \A r \in swritten' \ swritten : \A c \in Columns :
              /\ c \notin SheetColumns(sread, file) => lines'[r][c] = scopies[r][c]
              /\ c \in SheetColumns(sread, file) =>
                   \E m \in MetersOf(file) :
                     /\ c = Column(m, SheetMeta(sread, file)[m].idx)
                     /\ lines'[r][c] = SheetCell(file, m, r)
<1> DEFINE written == SheetLines(file, sread, scopies)
<1>1. /\ file \in Files /\ IsRecord(sread) /\ AreAnyLines(scopies) /\ AreAnyLines(lines)
      /\ DOMAIN scopies = RowsOfFirst(file, Len(file.rows))
  BY DEF WriteSheet, WTypes, SheetTypes, ImportTypes
<1>2. PICK rows : /\ rows \subseteq SheetRows(file) \ swritten
                  /\ Put(SheetLines(file, sread, scopies), rows)
                  /\ swritten' = swritten \cup rows
  BY DEF WriteSheet
<1>3. /\ AreAnyLines(written) /\ DOMAIN written = DOMAIN scopies
      /\ \A r \in DOMAIN scopies : \A c \in Columns :
           /\ c \notin SheetColumns(sread, file) => written[r][c] = scopies[r][c]
           /\ c \in SheetColumns(sread, file) =>
                \E m \in MetersOf(file) :
                  /\ c = Column(m, SheetMeta(sread, file)[m].idx)
                  /\ written[r][c] = SheetCell(file, m, r)
  <2>0. PICK f \in Files : f = file
    BY <1>1
  <2>1. PICK mt, copies : mt = sread /\ f = file /\ copies = scopies
    BY <2>0
  <2>2. IsRecord(mt) /\ AreAnyLines(copies) /\ DOMAIN copies = RowsOfFirst(f, Len(f.rows))
    BY <1>1, <2>1
  <2>3. /\ AreAnyLines(SheetLines(f, mt, copies)) /\ DOMAIN SheetLines(f, mt, copies) = DOMAIN copies
        /\ \A r \in DOMAIN copies : \A c \in Columns :
             /\ c \notin SheetColumns(mt, f) => SheetLines(f, mt, copies)[r][c] = copies[r][c]
             /\ c \in SheetColumns(mt, f) =>
                  \E m \in MetersOf(f) :
                    /\ c = Column(m, SheetMeta(mt, f)[m].idx)
                    /\ SheetLines(f, mt, copies)[r][c] = SheetCell(f, m, r)
    BY <2>2, SheetLinesType
  <2> QED
    BY <2>1, <2>3, Zenon
<1>4. rows = swritten' \ swritten /\ rows \subseteq DOMAIN scopies
  <2>1. DOMAIN scopies = SheetRows(file)
    <3>1. DOMAIN file.rows = 1 .. Len(file.rows)
      BY <1>1, FileType
    <3> QED
      BY <1>1, <3>1 DEF SheetRows, RowsOfFirst
  <2> QED
    BY <1>2, <2>1
<1>5. lines' = [r \in DOMAIN lines \cup rows |-> IF r \in rows THEN written[r] ELSE lines[r]]
  BY <1>2 DEF Put
<1> HIDE DEF written
<1>6. /\ DOMAIN lines' = DOMAIN lines \cup rows
      /\ lines' = [r \in DOMAIN lines' |-> lines'[r]]
      /\ \A r \in DOMAIN lines \ rows : lines'[r] = lines[r]
      /\ \A r \in rows : lines'[r] = written[r]
  BY <1>5
<1>7. AreAnyLines(lines')
  BY <1>1, <1>3, <1>6, <1>4 DEF AreAnyLines
<1>8. ASSUME NEW r \in rows, NEW c \in Columns
      PROVE  /\ c \notin SheetColumns(sread, file) => lines'[r][c] = scopies[r][c]
             /\ c \in SheetColumns(sread, file) =>
                  \E m \in MetersOf(file) :
                    /\ c = Column(m, SheetMeta(sread, file)[m].idx)
                    /\ lines'[r][c] = SheetCell(file, m, r)
  <2>1. lines'[r] = written[r]
    BY <1>6, Zenon
  <2>2. r \in DOMAIN scopies
    BY <1>4
  <2> QED
    BY <1>3, <2>1, <2>2, Zenon
<1>9. swritten \subseteq swritten' /\ swritten' \subseteq swritten \cup DOMAIN scopies
  BY <1>2, <1>4
<1> QED
  BY <1>6, <1>7, <1>8, <1>4, <1>9, Zenon

(* Each step of an upload, and the death of the process, leave everything  *)
(* well formed.                                                            *)
LEMMA UploadTypes ==
  ASSUME WTypes, UploadStep
  PROVE  WTypes'
<1>1. ImportTypes /\ SheetTypes /\ MaxUploads \in Nat /\ MaxCrashes \in Nat
  BY WorkbookAssumption DEF WTypes
<1>2. CASE Upload
  <2>1. /\ spc = "idle" /\ uploads < MaxUploads /\ uploads' = uploads + 1 /\ file' \in Files
        /\ spc' = IF file'.rows = <<>> THEN "write" ELSE "meta"
        /\ sread' = sread /\ scopies' = scopies /\ srow' = srow /\ swritten' = swritten
        /\ crashes' = crashes /\ lost' = lost
    BY <1>2 DEF Upload
  <2>2. sread = NoMeta /\ scopies = NoLines /\ srow = 0 /\ DOMAIN NoLines = {}
    BY <1>1, <2>1 DEF SheetTypes, NoLines
  <2>3. uploads' \in 0 .. MaxUploads
    BY <1>1, <2>1 DEF SheetTypes
  <2>4. file'.rows = <<>> => RowsOfFirst(file', Len(file'.rows)) = {}
    <3>1. PICK f \in Files : f = file'
      BY <2>1
    <3> QED
      BY <3>1, NoRows, Zenon
  <2>5. SheetTypes'
    BY <1>1, <2>1, <2>2, <2>3, <2>4 DEF SheetTypes, SheetLabels
  <2>6. ImportTypes'
    BY <1>1, <1>2 DEF Upload, ImportTypes, vars, input, locals, msg
  <2> QED
    BY <2>5, <2>6 DEF WTypes
<1>3. CASE ReadSheetMeta
  <2>1. /\ spc = "meta" /\ spc' = "rows" /\ sread' = meta /\ file' = file /\ scopies' = scopies
        /\ srow' = srow /\ swritten' = swritten
        /\ uploads' = uploads /\ crashes' = crashes /\ lost' = lost
    BY <1>3 DEF ReadSheetMeta, bounds
  <2>2. /\ scopies = NoLines /\ srow = 0 /\ DOMAIN NoLines = {} /\ file \in Files
        /\ file.rows # <<>> /\ IsRecord(meta)
    BY <1>1, <2>1 DEF SheetTypes, ImportTypes, NoLines
  <2>3. srow < Len(file.rows) /\ RowsOfFirst(file, 0) = {}
    <3>1. Len(file.rows) \in Nat /\ Len(file.rows) # 0
      BY <2>2, FileType
    <3>2. RowsOfFirst(file, 0) = {}
      BY RowsGrow
    <3> QED
      BY <2>2, <3>1, <3>2
  <2>4. /\ swritten' = {} /\ srow' = 0 /\ scopies' = NoLines /\ IsRecord(sread')
        /\ AreAnyLines(scopies') /\ file' \in Files /\ lost' \subseteq Meters
        /\ uploads' \in 0 .. MaxUploads /\ crashes' \in 0 .. MaxCrashes
    BY <1>1, <2>1, <2>2 DEF SheetTypes
  <2>5. SheetTypes'
    BY <2>1, <2>2, <2>3, <2>4 DEF SheetTypes, SheetLabels
  <2>6. ImportTypes'
    BY <1>1, <1>3 DEF ReadSheetMeta, ImportTypes, vars, input, locals, msg
  <2> QED
    BY <2>5, <2>6 DEF WTypes
<1>4. CASE RefuseSheet \/ WriteSheetFails \/ SaveSheetFails
  <2>1. /\ SheetDone /\ uploads' = uploads /\ crashes' = crashes
        /\ lost' = lost \/ lost' = lost \cup Unsaved
    BY <1>4 DEF RefuseSheet, WriteSheetFails, SaveSheetFails, bounds
  <2>2. lost' \subseteq Meters
    BY <1>1, <2>1, UnsavedType DEF SheetTypes
  <2>3. SheetTypes'
    BY <1>1, <2>1, <2>2, SheetDoneTypes DEF SheetTypes
  <2>4. ImportTypes'
    BY <1>1, <1>4 DEF RefuseSheet, WriteSheetFails, SaveSheetFails, ImportTypes, vars, input,
                      locals, msg
  <2> QED
    BY <2>3, <2>4 DEF WTypes
<1>5. CASE ReadRow
  <2>1. SheetTypes'
    BY <1>5, ReadRowTypes
  <2>2. ImportTypes'
    BY <1>1, <1>5 DEF ReadRow, ImportTypes, vars, input, locals, msg
  <2> QED
    BY <2>1, <2>2 DEF WTypes
<1>6. CASE WriteSheet
  <2>1. AreAnyLines(lines') /\ swritten' \subseteq swritten \cup DOMAIN scopies
    BY <1>6, SheetWritten
  <2>2. ImportTypes'
    BY <1>1, <1>6, <2>1 DEF WriteSheet, ImportTypes, input, locals, msg
  <2>3. /\ spc = "write" /\ spc' \in {"write", "save"} /\ sread' = sread /\ file' = file
        /\ scopies' = scopies
        /\ srow' = srow /\ uploads' = uploads /\ crashes' = crashes /\ lost' = lost
    BY <1>6 DEF WriteSheet, bounds
  <2>4. /\ swritten' \subseteq Rows
        /\ file \in Files /\ DOMAIN scopies = RowsOfFirst(file, Len(file.rows))
    BY <1>1, <2>1, <2>3 DEF SheetTypes, AreAnyLines
  <2>5. swritten' # {} => file.rows # <<>>
    <3>1. file.rows = <<>> => RowsOfFirst(file, Len(file.rows)) = {}
      BY <2>4, NoRows
    <3> QED
      BY <1>1, <2>1, <2>4, <3>1 DEF SheetTypes
  <2>6. SheetTypes'
    BY <1>1, <2>3, <2>4, <2>5 DEF SheetTypes, SheetLabels
  <2> QED
    BY <2>2, <2>6 DEF WTypes
<1>7. CASE SaveSheetMeta
  <2>1. /\ spc = "save" /\ meta' = SheetRecord /\ lost' = lost \cup Displaced(meta, meta')
        /\ SheetDone /\ uploads' = uploads /\ crashes' = crashes
    BY <1>7 DEF SaveSheetMeta, bounds
  <2>2. IsRecord(meta')
    BY <1>1, <2>1, SheetRecordType
  <2>3. ImportTypes'
    BY <1>1, <1>7, <2>2 DEF SaveSheetMeta, ImportTypes, input, locals, msg
  <2>4. Displaced(meta, meta') \subseteq Meters
    BY <1>1, DisplacedType DEF ImportTypes
  <2>5. SheetTypes'
    BY <1>1, <2>1, <2>4, SheetDoneTypes DEF SheetTypes
  <2> QED
    BY <2>3, <2>5 DEF WTypes
<1> QED
  BY <1>2, <1>3, <1>4, <1>5, <1>6, <1>7 DEF UploadStep

LEMMA CrashStepTypes ==
  ASSUME WTypes, Crash
  PROVE  WTypes'
<1>1. ImportTypes /\ SheetTypes /\ MaxCrashes \in Nat
  BY WorkbookAssumption DEF WTypes
<1>2. /\ SheetDone /\ uploads' = uploads /\ crashes < MaxCrashes /\ crashes' = crashes + 1
      /\ lost' = lost \cup Unsaved
  BY DEF Crash
<1>3. lost' \subseteq Meters
  BY <1>1, <1>2, UnsavedType DEF SheetTypes
<1>4. crashes' \in 0 .. MaxCrashes
  BY <1>1, <1>2 DEF SheetTypes
<1>5. SheetTypes'
  BY <1>1, <1>2, <1>3, <1>4, SheetDoneTypes DEF SheetTypes
<1> QED
  BY <1>1, <1>5, CrashTypes DEF WTypes

-----------------------------------------------------------------------------
(* The claims.                                                             *)

(* Values of messages and of sheets.                                       *)
LEMMA OwnerType ==
  /\ \A i, t : OwnerOf(<<i, t>>) = batch[i].meter
  /\ \A m, k, c : OwnerOf(<<m, k, c>>) = m
BY DEF OwnerOf

(* A write of the record keeps a meter or loses it.                        *)
LEMMA DisplacedOrKept ==
  ASSUME NEW mt, NEW other, NEW m, m \in DOMAIN mt
  PROVE  m \in Displaced(mt, other) \/ (m \in DOMAIN other /\ other[m].idx = mt[m].idx)
BY DEF Displaced

(* No step takes a claim away: whatever is overwritten is lost.            *)
LEMMA ClaimsStay ==
  ASSUME WTypes, WorkbookNext, NEW m, NEW i, Claims(m, i)
  PROVE  Claims(m, i)'
<1> DEFINE InSheet == swritten # {} /\ m \in DOMAIN SheetRecord /\ SheetRecord[m].idx = i
<1>1. CASE ImportStep
  <2>1. /\ lost \cup Displaced(meta, meta') \subseteq lost'
        /\ swritten' = swritten /\ file' = file /\ sread' = sread
    BY <1>1 DEF ImportStep, sheetVars
  <2>2. SheetRecord' = SheetRecord
    BY <2>1 DEF SheetRecord
  <2>3. CASE m \in lost
    BY <2>1, <2>3 DEF Claims
  <2>4. CASE m \in DOMAIN meta /\ meta[m].idx = i
    <3>1. m \in Displaced(meta, meta') \/ (m \in DOMAIN meta' /\ meta'[m].idx = i)
      BY <2>4, DisplacedOrKept
    <3> QED
      BY <2>1, <3>1 DEF Claims
  <2>5. CASE InSheet
    BY <2>1, <2>2, <2>5, Zenon DEF Claims
  <2> QED
    BY <2>3, <2>4, <2>5 DEF Claims
<1>2. CASE SaveSheetMeta
  <2>1. meta' = SheetRecord /\ lost' = lost \cup Displaced(meta, meta')
    BY <1>2 DEF SaveSheetMeta
  <2>2. CASE m \in lost
    BY <2>1, <2>2 DEF Claims
  <2>3. CASE m \in DOMAIN meta /\ meta[m].idx = i
    <3>1. m \in Displaced(meta, meta') \/ (m \in DOMAIN meta' /\ meta'[m].idx = i)
      BY <2>3, DisplacedOrKept
    <3> QED
      BY <2>1, <3>1 DEF Claims
  <2>4. CASE InSheet
    BY <2>1, <2>4 DEF Claims
  <2> QED
    BY <2>2, <2>3, <2>4 DEF Claims
(* Where an upload ends without its record, its meters are lost.           *)
<1>3. CASE WriteSheetFails \/ SaveSheetFails \/ Crash
  <2>1. lost' = lost \cup Unsaved /\ meta' = meta
    BY <1>3 DEF WriteSheetFails, SaveSheetFails, Crash, vars
  <2>2. CASE InSheet
    <3>1. m \in Displaced(SheetRecord, meta) \/ (m \in DOMAIN meta /\ meta[m].idx = i)
      BY <2>2, DisplacedOrKept
    <3> QED
      BY <2>1, <2>2, <3>1 DEF Claims, Unsaved
  <2>3. CASE m \in lost \/ (m \in DOMAIN meta /\ meta[m].idx = i)
    BY <2>1, <2>3 DEF Claims
  <2> QED
    BY <2>2, <2>3 DEF Claims
<1>4. CASE WriteSheet
  <2>1. /\ lost' = lost /\ meta' = meta /\ sread' = sread /\ file' = file
        /\ swritten \subseteq swritten'
    BY <1>4, SheetWritten DEF WriteSheet
  <2>2. SheetRecord' = SheetRecord
    BY <2>1 DEF SheetRecord
  <2>3. swritten # {} => swritten' # {}
    BY <2>1
  <2> QED
    BY <2>1, <2>2, <2>3, Zenon DEF Claims
<1>5. CASE Upload \/ ReadSheetMeta \/ RefuseSheet \/ ReadRow
  <2>1. lost' = lost /\ meta' = meta /\ spc \notin {"write", "save"}
    BY <1>5 DEF Upload, ReadSheetMeta, RefuseSheet, ReadRow, vars
  <2>2. swritten = {}
    BY <2>1 DEF WTypes, SheetTypes
  <2> QED
    BY <2>1, <2>2 DEF Claims
<1> QED
  BY <1>1, <1>2, <1>3, <1>4, <1>5 DEF WorkbookNext, UploadStep

(* So a value stays in a column that its meter claims.                     *)
LEMMA OwnedStays ==
  ASSUME WTypes, WorkbookNext, NEW v, NEW c, Owned(v, c)
  PROVE  Owned(v, c)'
<1>1. batch' = batch
  <2>1. CASE ImportStep
    <3>1. \A p : StorePart(p) => batch' = batch
      BY DEF StorePart, MetaFails, ReadMeta, CreateMeta, CreateFails, FetchLines, WriteLines, WriteFails,
             RereadMeta, SaveMeta, input
    <3>2. NextMessage => batch' = batch
      BY DEF NextMessage
    <3> QED
      BY <2>1, <3>1, <3>2 DEF ImportStep, Next
  <2>2. CASE UploadStep
    BY <2>2 DEF UploadStep, Upload, ReadSheetMeta, RefuseSheet, ReadRow, WriteSheet,
                WriteSheetFails, SaveSheetFails, SaveSheetMeta, vars, input
  <2>3. CASE Crash
    BY <2>3 DEF Crash, input
  <2> QED
    BY <2>1, <2>2, <2>3 DEF WorkbookNext
<1>2. PICK o : o = OwnerOf(v) /\ o = OwnerOf(v)'
  <2>1. OwnerOf(v)' = OwnerOf(v)
    BY <1>1 DEF OwnerOf
  <2> QED
    BY <2>1
<1>3. PICK i : i = c[2]
  OBVIOUS
<1>4. c[1] = Dir[o] /\ Claims(o, i)
  BY <1>2, <1>3, Zenon DEF Owned
<1>5. Claims(o, i)'
  BY <1>4, ClaimsStay
<1>6. Owned(v, c)' <=> c[1] = Dir[o] /\ Claims(o, i)'
  BY <1>2, <1>3, Zenon DEF Owned, Claims
<1> QED
  BY <1>4, <1>5, <1>6

(* And lines that are not changed stay owned.                              *)
LEMMA OwnedLinesStay ==
  ASSUME WTypes, WorkbookNext
  PROVE  /\ OwnedLines(lines) /\ lines' = lines => OwnedLines(lines)'
         /\ OwnedLines(scopies) /\ scopies' = scopies => OwnedLines(scopies)'
         /\ \A p : OwnedLines(fetched[p]) /\ fetched'[p] = fetched[p] => OwnedLines(fetched[p])'
<1>1. \A v, c : Owned(v, c) => Owned(v, c)'
  BY OwnedStays
<1> QED
  BY <1>1, Zenon DEF OwnedLines

(* The values that a part writes are of the meter of the message.          *)
LEMMA PartValueType ==
  ASSUME ImportTypes, NEW p \in DOMAIN pc, NEW r \in DOMAIN ValueOf(number, p),
         NEW v \in ValueOf(number, p)[r]
  PROVE  OwnerOf(v) = msg.meter
<1>1. ValueOf(number, p)[r] = {<<number, t>> : t \in {u \in PartIntervals(p) : RowOf(u) = r}}
  BY DEF ValueOf
<1>2. PICK t : v = <<number, t>>
  BY <1>1
<1> QED
  BY <1>2, OwnerType DEF msg

(* A part writes values to the column of its meter, and back what it has   *)
(* read (WriteLines, WriteFails).                                          *)
LEMMA LinesOwnedByPart ==
  ASSUME WTypes, Claimed, WorkbookNext, NEW p \in DOMAIN pc,
         WriteLines(p) \/ WriteFails(p)
  PROVE  OwnedLines(lines)'
<1> DEFINE value == ValueOf(number, p)
           col   == Column(msg.meter, cp[p].idx)
<1>1. ImportTypes /\ OwnedLines(lines) /\ OwnedLines(fetched[p]) /\ PartClaims(p)
  BY DEF WTypes, Claimed, PartsClaim, PartClaims
<1>2. Claims(msg.meter, cp[p].idx)
  BY <1>1 DEF PartClaims, WriteLines, WriteFails, Goto
<1>3. \A r \in DOMAIN value : \A v \in value[r] : Owned(v, col)
  <2> SUFFICES ASSUME NEW r \in DOMAIN value, NEW v \in value[r] PROVE Owned(v, col)
    OBVIOUS
  <2>1. OwnerOf(v) = msg.meter
    BY <1>1, PartValueType
  <2>2. col[1] = Dir[msg.meter] /\ col[2] = cp[p].idx
    BY DEF Column
  <2> HIDE DEF col
  <2> QED
    BY <1>2, <2>1, <2>2, Zenon DEF Owned
<1>4. PICK rows : /\ rows \subseteq DOMAIN fetched[p] \cup DOMAIN value
                  /\ DOMAIN lines' = DOMAIN lines \cup rows
                  /\ \A r \in DOMAIN lines' : \A c \in Columns :
                       lines'[r][c] = IF r \notin rows THEN lines[r][c]
                                      ELSE IF r \in DOMAIN value /\ c = col THEN value[r]
                                      ELSE IF r \in DOMAIN fetched[p] THEN fetched[p][r][c]
                                      ELSE {}
  <2>1. PICK rows \in SUBSET DOMAIN UpdatedLines(p) : Put(UpdatedLines(p), rows)
    BY WritersPutBack DEF PutBack
  <2>2. WellPut(p, rows, value, col)
    BY <1>1, <2>1, LinesPut
  <2> HIDE DEF value, col
  <2> QED
    BY <2>2 DEF WellPut
<1> HIDE DEF value, col
<1>5. ASSUME NEW r \in DOMAIN lines', NEW c \in Columns, NEW v \in lines'[r][c]
      PROVE  Owned(v, c)'
  <2>1. CASE r \in rows /\ r \in DOMAIN value /\ c = col
    BY <1>3, <1>4, <1>5, <2>1, OwnedStays
  <2>2. CASE r \in rows /\ r \in DOMAIN fetched[p] /\ ~ (r \in DOMAIN value /\ c = col)
    <3>1. lines'[r][c] = fetched[p][r][c]
      BY <1>4, <2>2
    <3>2. Owned(v, c)
      BY <1>1, <1>5, <2>2, <3>1 DEF OwnedLines
    <3> QED
      BY <3>2, OwnedStays
  <2>3. CASE r \in rows /\ r \notin DOMAIN fetched[p] /\ ~ (r \in DOMAIN value /\ c = col)
    BY <1>4, <1>5, <2>3
  <2>4. CASE r \notin rows
    <3>1. lines'[r][c] = lines[r][c] /\ r \in DOMAIN lines
      BY <1>4, <2>4
    <3>2. Owned(v, c)
      BY <1>1, <1>5, <3>1 DEF OwnedLines
    <3> QED
      BY <3>2, OwnedStays
  <2> QED
    BY <2>1, <2>2, <2>3, <2>4
<1> QED
  BY <1>5, Zenon DEF OwnedLines

(* A part writes to a column only if its meter has a claim to it: it found *)
(* it in the record, put it there, or failed to do so.                     *)
LEMMA PartStepClaims ==
  ASSUME WTypes, Claimed, ImportStep, NEW p \in DOMAIN pc, StorePart(p)
  PROVE  PartClaims(p)'
<1>1. /\ ImportTypes /\ PartClaims(p) /\ OwnedLines(lines) /\ WorkbookNext
      /\ cp \in [DOMAIN pc -> Entries] /\ DOMAIN view = DOMAIN pc /\ DOMAIN fetched = DOMAIN pc
      /\ msg.meter \in Meters
  BY PartOfMessage DEF WTypes, Claimed, PartsClaim, WorkbookNext, ImportTypes
<1>2. PICK m \in Meters : m = msg.meter /\ m = msg.meter'
  <2>1. msg' = msg
    BY <1>1, PartAlone
  <2> QED
    BY <1>1, <2>1
<1>3. \A i : Claims(m, i) => Claims(m, i)'
  BY <1>1, ClaimsStay
<1>4. fetched'[p] = fetched[p] => OwnedLines(fetched[p])'
  BY <1>1, OwnedLinesStay DEF PartClaims
<1>5. PICK i : i = cp'[p].idx
  OBVIOUS
<1>6. PartClaims(p)' <=>
        /\ pc'[p] \in {"meta", "create"} => p \notin failed'
        /\ pc'[p] = "create" => m \in DOMAIN view'[p] /\ view'[p][m].idx = i
        /\ pc'[p] \in {"fetch", "write"} => Claims(m, i)'
        /\ OwnedLines(fetched[p])'
  BY <1>2, <1>5, Zenon DEF PartClaims, Claims
<1>7. CASE ReadMeta(p)
  <2> DEFINE new == WithMeter(meta, msg.meter)
  <2>1. /\ pc[p] = "meta" /\ pc'[p] = IF m \in DOMAIN meta THEN "fetch" ELSE "create"
        /\ view'[p] = new /\ cp'[p] = new[m] /\ fetched' = fetched /\ failed' = failed
        /\ meta' = meta
    BY <1>1, <1>2, <1>7 DEF ReadMeta, Goto
  <2>2. m \in DOMAIN new /\ (m \in DOMAIN meta => new[m] = meta[m])
    BY <1>2 DEF WithMeter
  <2> HIDE DEF new
  <2>3. m \in DOMAIN meta => Claims(m, i)
    BY <1>5, <2>1, <2>2 DEF Claims
  <2>4. p \notin failed
    BY <1>1, <2>1 DEF PartClaims
  <2> QED
    BY <1>3, <1>4, <1>5, <1>6, <2>1, <2>2, <2>3, <2>4
<1>8. CASE CreateMeta(p)
  <2>1. /\ pc[p] = "create" /\ pc'[p] = "fetch" /\ meta' = view[p] /\ cp' = cp
        /\ fetched' = fetched
    BY <1>1, <1>8 DEF CreateMeta, Goto, locals
  <2>2. m \in DOMAIN meta' /\ meta'[m].idx = i
    BY <1>1, <1>2, <1>5, <2>1 DEF PartClaims
  <2>3. Claims(m, i)'
    BY <2>2 DEF Claims
  <2> QED
    BY <1>4, <1>6, <2>1, <2>3
<1>9. CASE CreateFails(p)
  <2>1. /\ pc[p] = "create" /\ pc'[p] = "fetch" /\ failed' = failed \cup {p}
        /\ fetched' = fetched
    BY <1>1, <1>9 DEF CreateFails, Goto, locals
  <2>2. p \in {q \in failed' \ failed : pc[q] = "create"}
    BY <1>1, <2>1 DEF PartClaims
  <2>3. m \in lost'
    BY <1>2, <2>2 DEF ImportStep
  <2>4. Claims(m, i)'
    BY <2>3 DEF Claims
  <2> QED
    BY <1>4, <1>6, <2>1, <2>4
<1>10. CASE FetchLines(p)
  <2>1. /\ pc[p] = "fetch" /\ pc'[p] = "write" /\ cp' = cp
        /\ fetched'[p] = [r \in {x \in DOMAIN lines : x \div DayLen \in FetchedDays(p)} |-> lines[r]]
    BY <1>1, <1>10 DEF FetchLines, Goto
  <2>2. Claims(m, i)
    BY <1>1, <1>2, <1>5, <2>1 DEF PartClaims
  <2>3. \A r \in DOMAIN fetched'[p] : r \in DOMAIN lines /\ fetched'[p][r] = lines[r]
    BY <2>1
  <2>4. \A r \in DOMAIN fetched'[p] : \A c \in Columns : \A v \in fetched'[p][r][c] : Owned(v, c)
    BY <1>1, <2>3 DEF OwnedLines
  <2>5. OwnedLines(fetched[p])'
    <3>1. \A v, c : Owned(v, c) => Owned(v, c)'
      BY <1>1, OwnedStays
    <3> QED
      BY <2>4, <3>1, Zenon DEF OwnedLines
  <2> QED
    BY <1>3, <1>6, <2>1, <2>2, <2>5
<1>11. CASE WriteLines(p) \/ WriteFails(p) \/ RereadMeta(p) \/ SaveMeta(p) \/ MetaFails(p)
  <2>1. pc'[p] \in {"reread", "save", "done"} /\ fetched' = fetched
    BY <1>1, <1>11 DEF WriteLines, WriteFails, RereadMeta, SaveMeta, MetaFails, Goto, locals
  <2> QED
    BY <1>4, <1>6, <2>1
<1> QED
  BY <1>7, <1>8, <1>9, <1>10, <1>11 DEF StorePart

(* ... and the other parts keep their claims.                              *)
LEMMA OtherPartsClaim ==
  ASSUME WTypes, Claimed, WorkbookNext, NEW p \in DOMAIN pc, msg' = msg, pc'[p] = pc[p],
         cp'[p] = cp[p], view'[p] = view[p], fetched'[p] = fetched[p],
         p \in failed' <=> p \in failed
  PROVE  PartClaims(p)'
<1>1. PartClaims(p)
  BY DEF Claimed, PartsClaim
<1>2. PICK m, i : m = msg.meter /\ i = cp[p].idx
  OBVIOUS
<1>3. Claims(m, i) => Claims(m, i)'
  BY ClaimsStay
<1>4. OwnedLines(fetched[p])'
  BY <1>1, OwnedLinesStay DEF PartClaims
<1>5. /\ pc[p] \in {"meta", "create"} => p \notin failed
      /\ pc[p] = "create" => m \in DOMAIN view[p] /\ view[p][m].idx = i
      /\ pc[p] \in {"fetch", "write"} => Claims(m, i)
  BY <1>1, <1>2, Zenon DEF PartClaims
<1>6. PartClaims(p)' <=>
        /\ pc'[p] \in {"meta", "create"} => p \notin failed'
        /\ pc'[p] = "create" => m \in DOMAIN view'[p] /\ view'[p][m].idx = i
        /\ pc'[p] \in {"fetch", "write"} => Claims(m, i)'
        /\ OwnedLines(fetched[p])'
  <2>1. m = msg'.meter /\ i = cp'[p].idx
    BY <1>2
  <2> QED
    BY <2>1, Zenon DEF PartClaims, Claims
<1> QED
  BY <1>3, <1>4, <1>5, <1>6

(* No step writes a value to a column that its meter does not claim.       *)
LEMMA ClaimedStep ==
  ASSUME WTypes, Claimed, WorkbookNext
  PROVE  Claimed'
<1>1. /\ OwnedLines(lines) /\ OwnedLines(scopies) /\ PartsClaim
      /\ \A v, c : Owned(v, c) => Owned(v, c)'
  BY OwnedStays DEF Claimed
<1>2. CASE ImportStep /\ NextMessage
  <2>1. /\ ImportTypes /\ lines' = lines /\ scopies' = scopies /\ failed' = {}
    BY <1>2 DEF ImportStep, NextMessage, sheetVars, WTypes
  <2>2. \A p \in DOMAIN pc' : pc'[p] = "meta" /\ DOMAIN fetched'[p] = {}
    BY <1>2, <2>1, NextMessageTypes
  <2>3. PartsClaim'
    BY <2>1, <2>2 DEF PartsClaim, PartClaims, OwnedLines
  <2> QED
    BY <1>1, <2>1, <2>3, OwnedLinesStay DEF Claimed
<1>3. ASSUME ImportStep, NEW p \in DOMAIN pc, StorePart(p) PROVE Claimed'
  <2>1. ImportTypes /\ scopies' = scopies
    BY <1>3 DEF ImportStep, sheetVars, WTypes
  <2>2. OwnedLines(lines)'
    <3>1. CASE WriteLines(p) \/ WriteFails(p)
      BY <3>1, LinesOwnedByPart
    <3>2. CASE ~ WriteLines(p) /\ ~ WriteFails(p)
      <4>1. lines' = lines
        BY <1>3, <3>2 DEF StorePart, MetaFails, ReadMeta, CreateMeta, CreateFails, FetchLines,
                          RereadMeta, SaveMeta
      <4> QED
        BY <1>1, <4>1, OwnedLinesStay
    <3> QED
      BY <3>1, <3>2
  <2>3. PartClaims(p)'
    BY <1>3, PartStepClaims
  <2>4. /\ msg' = msg /\ DOMAIN pc' = DOMAIN pc
        /\ \A q \in DOMAIN pc \ {p} : /\ pc'[q] = pc[q] /\ cp'[q] = cp[q]
                                      /\ view'[q] = view[q] /\ fetched'[q] = fetched[q]
                                      /\ q \in failed' <=> q \in failed
    BY <1>3, <2>1, PartAlone
  <2>5. \A q \in DOMAIN pc \ {p} : PartClaims(q)'
    BY <2>4, OtherPartsClaim
  <2>6. PartsClaim'
    BY <2>3, <2>4, <2>5, Zenon DEF PartsClaim
  <2> QED
    BY <1>1, <2>1, <2>2, <2>6, OwnedLinesStay DEF Claimed
<1>4. CASE UploadStep
  <2>1. /\ pc' = pc /\ msg' = msg /\ cp' = cp /\ view' = view /\ fetched' = fetched
        /\ failed' = failed
    BY <1>4 DEF UploadStep, Upload, ReadSheetMeta, RefuseSheet, ReadRow, WriteSheet,
                WriteSheetFails, SaveSheetFails, SaveSheetMeta, vars, input, locals, msg
  <2>2. PartsClaim'
    <3>1. \A p \in DOMAIN pc : PartClaims(p)'
      BY <2>1, OtherPartsClaim
    <3> QED
      BY <2>1, <3>1, Zenon DEF PartsClaim
  <2>3. CASE ReadRow
    <3>1. \A r \in DOMAIN scopies' :
            \/ r \in DOMAIN scopies /\ scopies'[r] = scopies[r]
            \/ r \in DOMAIN lines /\ scopies'[r] = lines[r]
            \/ scopies'[r] = EmptyLine
      BY <2>3, ReadRowTypes
    <3>2. \A c \in Columns : EmptyLine[c] = {}
      BY DEF EmptyLine
    <3>3. \A r \in DOMAIN scopies' : \A c \in Columns : \A v \in scopies'[r][c] : Owned(v, c)
      BY <1>1, <3>1, <3>2 DEF OwnedLines
    <3>4. OwnedLines(scopies)'
      BY <1>1, <3>3, Zenon DEF OwnedLines
    <3>5. lines' = lines
      BY <2>3 DEF ReadRow, vars
    <3> QED
      BY <1>1, <2>2, <3>4, <3>5, OwnedLinesStay DEF Claimed
  <2>4. CASE WriteSheet
    <3>1. /\ file \in Files /\ IsRecord(sread) /\ scopies' = scopies
          /\ file' = file /\ sread' = sread /\ spc = "write"
          /\ DOMAIN scopies = RowsOfFirst(file, Len(file.rows))
      BY <2>4 DEF WriteSheet, WTypes, SheetTypes
    <3>2. PICK rows : /\ rows = swritten' \ swritten /\ rows \subseteq DOMAIN scopies
                      /\ DOMAIN lines' = DOMAIN lines \cup rows
                      /\ \A r \in DOMAIN lines \ rows : lines'[r] = lines[r]
                      /\ \A r \in rows : \A c \in Columns :
                           /\ c \notin SheetColumns(sread, file) => lines'[r][c] = scopies[r][c]
                           /\ c \in SheetColumns(sread, file) =>
                                \E m \in MetersOf(file) :
                                  /\ c = Column(m, SheetMeta(sread, file)[m].idx)
                                  /\ lines'[r][c] = SheetCell(file, m, r)
      <4>1. swritten' \ swritten \subseteq DOMAIN scopies
        BY <2>4, SheetWritten
      <4> QED
        BY <2>4, <4>1, SheetWritten, Zenon
    <3>3. ASSUME NEW r \in DOMAIN lines', NEW c \in Columns, NEW v \in lines'[r][c]
          PROVE  Owned(v, c)'
      <4>1. CASE r \notin rows \/ c \notin SheetColumns(sread, file)
        <5>1. Owned(v, c)
          BY <1>1, <3>2, <3>3, <4>1 DEF OwnedLines
        <5> QED
          BY <1>1, <5>1
      <4>2. CASE r \in rows /\ c \in SheetColumns(sread, file)
        <5>1. PICK m \in MetersOf(file) :
                c = Column(m, SheetMeta(sread, file)[m].idx) /\ lines'[r][c] = SheetCell(file, m, r)
          BY <3>2, <4>2
        <5>2. OwnerOf(v)' = m
          <6>1. PICK f \in Files : f = file
            BY <3>1
          <6>2. m \in Meters /\ r \in RowsOfFirst(f, Len(f.rows)) /\ v \in SheetCell(f, m, r)
            BY <3>1, <3>2, <3>3, <4>2, <5>1, <6>1 DEF MetersOf
          <6>3. \E k, x : v = <<m, k, x>>
            BY <6>2, SheetCellType
          <6> QED
            BY <6>3 DEF OwnerOf
        <5>3. PICK i : i = SheetMeta(sread, file)[m].idx
          OBVIOUS
        <5>4. c[1] = Dir[m] /\ c[2] = i
          BY <5>1, <5>3 DEF Column
        <5>5. file.rows # <<>> /\ swritten' # {}
          BY <3>1, <3>2, <4>2, NoRows
        <5>6. m \in DOMAIN SheetMeta(sread, file)
          BY DEF SheetMeta
        <5>7. SheetRecord' = SheetMeta(sread, file)
          BY <3>1, <5>5 DEF SheetRecord
        <5>8. Claims(m, i)'
          BY <5>3, <5>5, <5>6, <5>7, Zenon DEF Claims
        <5> QED
          BY <5>2, <5>4, <5>8, Zenon DEF Owned, Claims
      <4> QED
        BY <4>1, <4>2
    <3>4. OwnedLines(lines)'
      BY <3>3, Zenon DEF OwnedLines
    <3> QED
      BY <1>1, <2>2, <3>1, <3>4, OwnedLinesStay DEF Claimed
  <2>5. CASE ~ ReadRow /\ ~ WriteSheet
    <3>1. lines' = lines /\ (scopies' = scopies \/ scopies' = NoLines)
      BY <1>4, <2>5 DEF UploadStep, Upload, ReadSheetMeta, RefuseSheet, WriteSheetFails,
                        SaveSheetFails, SaveSheetMeta, SheetDone, vars
    <3>2. DOMAIN NoLines = {}
      BY DEF NoLines
    <3>3. OwnedLines(scopies)'
      BY <1>1, <3>1, <3>2, OwnedLinesStay DEF OwnedLines
    <3> QED
      BY <1>1, <2>2, <3>1, <3>3, OwnedLinesStay DEF Claimed
  <2> QED
    BY <2>3, <2>4, <2>5
<1>5. CASE Crash
  <2>1. DOMAIN pc' = {} /\ lines' = lines /\ scopies' = NoLines
    BY <1>5, CrashTypes DEF Crash, SheetDone, WTypes
  <2>2. DOMAIN NoLines = {}
    BY DEF NoLines
  <2>3. OwnedLines(scopies)' /\ PartsClaim'
    BY <2>1, <2>2 DEF OwnedLines, PartsClaim
  <2> QED
    BY <1>1, <2>1, <2>3, OwnedLinesStay DEF Claimed
<1> QED
  BY <1>2, <1>3, <1>4, <1>5 DEF WorkbookNext, ImportStep, Next

(* The invariant holds.                                                    *)
WorkbookInv == WTypes /\ Claimed

LEMMA WorkbookInitInv ==
  ASSUME WorkbookInit
  PROVE  WorkbookInv
<1>1. /\ DOMAIN meta = {} /\ DOMAIN lines = {} /\ DOMAIN pc = {} /\ number = 0 /\ batch \in Batches
      /\ failed = {} /\ IsRecord(meta)
      /\ cp = [p \in {} |-> NoEntry] /\ view = [p \in {} |-> NoMeta]
      /\ fetched = [p \in {} |-> NoLines] /\ pc = [p \in {} |-> "meta"]
      /\ lines = [r \in {} |-> EmptyLine]
  BY EmptyTypes DEF WorkbookInit, Init, NoMeta, NoLines
<1>2. number \in 0 .. Len(batch)
  <2>1. Len(batch) \in Nat
    BY <1>1, ImportAssumption
  <2> QED
    BY <1>1, <2>1
<1>3. /\ AreAnyLines(lines) /\ pc \in [DOMAIN pc -> Labels] /\ cp \in [DOMAIN pc -> Entries]
      /\ DOMAIN view = DOMAIN pc /\ view = [p \in DOMAIN pc |-> view[p]]
      /\ DOMAIN fetched = DOMAIN pc /\ fetched = [p \in DOMAIN pc |-> fetched[p]]
  BY <1>1 DEF AreAnyLines
<1>4. ImportTypes
  BY <1>1, <1>2, <1>3 DEF ImportTypes
<1>5. /\ spc = "idle" /\ file = NoFile /\ sread = NoMeta /\ scopies = NoLines /\ srow = 0
      /\ swritten = {} /\ uploads = 0 /\ crashes = 0 /\ lost = {}
  BY DEF WorkbookInit
<1>6. /\ IsRecord(NoMeta) /\ DOMAIN NoLines = {} /\ AreAnyLines(NoLines)
      /\ 0 \in 0 .. MaxUploads /\ 0 \in 0 .. MaxCrashes
  <2>1. DOMAIN NoLines = {} /\ NoLines \in [{} -> AnyLine]
    BY DEF NoLines
  <2> QED
    BY <2>1, EmptyTypes, WorkbookAssumption DEF AreAnyLines
<1>7. SheetTypes
  BY <1>5, <1>6 DEF SheetTypes, SheetLabels
<1>8. Claimed
  BY <1>1, <1>5, <1>6 DEF Claimed, OwnedLines, PartsClaim
<1> QED
  BY <1>4, <1>7, <1>8 DEF WorkbookInv, WTypes

(* The inductive invariant: everything is well formed, and every value is  *)
(* in a column that its meter claims.                                      *)
THEOREM WorkbookInductive ==
  /\ WorkbookInit => WorkbookInv
  /\ WorkbookInv /\ [WorkbookNext]_allVars => WorkbookInv'
<1>1. ASSUME WorkbookInv, WorkbookNext PROVE WorkbookInv'
  BY <1>1, ClaimedStep, ImportStepTypes, UploadTypes, CrashStepTypes DEF WorkbookInv, WorkbookNext
<1>2. ASSUME WorkbookInv, UNCHANGED allVars PROVE WorkbookInv'
  <2>1. /\ meta' = meta /\ lines' = lines /\ batch' = batch /\ number' = number /\ pc' = pc
        /\ cp' = cp /\ view' = view /\ fetched' = fetched /\ failed' = failed
        /\ spc' = spc /\ file' = file /\ sread' = sread /\ scopies' = scopies /\ srow' = srow
        /\ swritten' = swritten /\ uploads' = uploads /\ crashes' = crashes /\ lost' = lost
    BY <1>2 DEF allVars, vars, input, locals, sheetVars, bounds
  <2>2. WTypes'
    <3>1. ImportTypes' <=> ImportTypes
      BY <2>1, Zenon DEF ImportTypes, msg
    <3>2. SheetTypes' <=> SheetTypes
      BY <2>1, Zenon DEF SheetTypes
    <3> QED
      BY <1>2, <3>1, <3>2 DEF WTypes, WorkbookInv
  <2>3. \A m, i : Claims(m, i)' <=> Claims(m, i)
    BY <2>1, Zenon DEF Claims, SheetRecord
  <2>4. \A v, c : Owned(v, c)' <=> Owned(v, c)
    BY <2>1, ZenonT(40) DEF Owned, OwnerOf, Claims, SheetRecord
  <2>5. OwnedLines(lines)' /\ OwnedLines(scopies)'
    BY <1>2, <2>1, <2>4, Zenon DEF WorkbookInv, Claimed, OwnedLines
  <2>6. PartsClaim'
    <3>1. \A p : OwnedLines(fetched[p])' <=> OwnedLines(fetched[p])
      BY <2>1, <2>4, Zenon DEF OwnedLines
    <3>2. msg' = msg
      BY <2>1 DEF msg
    <3>3. \A p : Claims(msg.meter, cp[p].idx)' <=> Claims(msg.meter, cp[p].idx)
      BY <2>1, <3>2, Zenon DEF Claims, SheetRecord
    <3>4. \A p : PartClaims(p)' <=> PartClaims(p)
      BY <2>1, <3>1, <3>2, <3>3, Zenon DEF PartClaims
    <3> QED
      BY <1>2, <2>1, <3>4, Zenon DEF WorkbookInv, Claimed, PartsClaim
  <2> QED
    BY <2>2, <2>5, <2>6 DEF WorkbookInv, Claimed
<1> QED
  BY <1>1, <1>2, WorkbookInitInv

(* What the invariant says of the types.                                   *)
LEMMA WorkbookTyped == WorkbookInv => WorkbookTypeOK
<1> SUFFICES ASSUME WorkbookInv PROVE WorkbookTypeOK
  OBVIOUS
<1>1. ImportTypes /\ SheetTypes
  BY DEF WorkbookInv, WTypes
<1>2. \A mt : IsRecord(mt) => IsMeta(mt)
  BY DEF IsRecord, IsMeta
<1>3. ASSUME NEW ls, AreAnyLines(ls) PROVE HoldsValues(ls)
  <2>1. \A r \in DOMAIN ls : ls[r] \in [Columns -> SUBSET (SheetValues \cup (Nat \X Intervals))]
    BY <1>3 DEF AreAnyLines, AnyLine
  <2>2. DOMAIN ls \subseteq Rows
    BY <1>3 DEF AreAnyLines
  <2> QED
    BY <2>1, <2>2 DEF HoldsValues
<1>4. IsMeta(meta) /\ IsMeta(sread) /\ HoldsValues(lines) /\ HoldsValues(scopies)
  BY <1>1, <1>2, <1>3 DEF ImportTypes, SheetTypes
<1>5. \A p \in DOMAIN pc : IsMeta(view[p]) /\ HoldsValues(fetched[p])
  BY <1>1, <1>2, <1>3 DEF ImportTypes
<1>6. /\ spc \in SheetLabels /\ file \in Files \cup {NoFile} /\ srow \in Nat
      /\ swritten \subseteq Rows
      /\ uploads \in 0 .. MaxUploads /\ crashes \in 0 .. MaxCrashes /\ lost \subseteq Meters
  BY <1>1 DEF SheetTypes
<1> QED
  BY <1>4, <1>5, <1>6 DEF WorkbookTypeOK

(* Whatever the order of the steps of an upload and an import, records and *)
(* lines stay well formed (StoreEnergyV2, ImportExcelEnergyFileNew).       *)
THEOREM WorkbookTypeCorrect == WorkbookSpec => []WorkbookTypeOK
<1>1. WorkbookSpec => []WorkbookInv
  BY WorkbookInductive, PTL DEF WorkbookSpec
<1> QED
  BY <1>1, WorkbookTyped, PTL

-----------------------------------------------------------------------------
(* Columns, entries and values.                                            *)

LEMMA ColumnsOwnedHolds == WorkbookInv => ColumnsOwned
<1> SUFFICES ASSUME WorkbookInv, ~ Unexplained, NEW m \in DOMAIN meta, NEW r \in DOMAIN lines,
                    NEW v \in lines[r][Column(m, meta[m].idx)]
             PROVE  OwnerOf(v) \in {m} \cup lost
  BY Zenon DEF ColumnsOwned
<1>1. IsRecord(meta) /\ SheetTypes /\ OwnedLines(lines)
  BY DEF WorkbookInv, WTypes, Claimed, ImportTypes
<1>2. PICK i : i = meta[m].idx
  OBVIOUS
<1>3. Column(m, i) \in Columns
  <2>1. meta[m] \in Entries /\ m \in Meters
    BY <1>1 DEF IsRecord
  <2>2. i \in 0 .. Cardinality(Meters) - 1
    BY <1>2, <2>1 DEF Entries
  <2> QED
    BY <2>1, <2>2 DEF Columns
<1>4. PICK o : o = OwnerOf(v)
  OBVIOUS
<1>5. Dir[o] = Dir[m] /\ Claims(o, i)
  <2>1. Owned(v, Column(m, i))
    BY <1>1, <1>2, <1>3, Zenon DEF OwnedLines
  <2>2. Column(m, i)[1] = Dir[m] /\ Column(m, i)[2] = i
    BY DEF Column
  <2> QED
    BY <1>4, <2>1, <2>2, Zenon DEF Owned
<1>6. CASE o \in DOMAIN meta /\ meta[o].idx = i
  <2>1. Column(o, meta[o].idx) = Column(m, meta[m].idx)
    BY <1>2, <1>5, <1>6 DEF Column
  <2> QED
    BY <1>1, <1>4, <1>6, <2>1 DEF IsRecord, Indexed
<1>7. CASE swritten # {} /\ o \in DOMAIN SheetRecord /\ SheetRecord[o].idx = i
  <2>1. IsRecord(SheetRecord)
    <3>1. spc \in {"write", "save"}
      BY <1>1, <1>7 DEF SheetTypes
    <3> QED
      BY <1>1, <3>1, SheetRecordType
  <2>2. m \in DOMAIN SheetRecord /\ SheetRecord[m].idx = i
    BY <1>2, <1>7 DEF Unexplained, Displaced
  <2>3. Column(o, SheetRecord[o].idx) = Column(m, SheetRecord[m].idx)
    BY <1>5, <1>7, <2>2 DEF Column
  <2> QED
    BY <1>4, <1>7, <2>1, <2>2, <2>3 DEF IsRecord, Indexed
<1> QED
  BY <1>4, <1>5, <1>6, <1>7 DEF Claims

(* Uploads and imports in any order never give one column to two meters    *)
(* that both keep their entry (ExcelSourceNew.go 180, rawDataHelper.go     *)
(* 112).                                                                   *)
THEOREM ColumnsAreOwned == WorkbookSpec => []ColumnsOwned
<1>1. WorkbookSpec => []WorkbookInv
  BY WorkbookInductive, PTL DEF WorkbookSpec
<1> QED
  BY <1>1, ColumnsOwnedHolds, PTL

LEMMA EntriesStep ==
  ASSUME WorkbookInv, [WorkbookNext]_allVars
  PROVE  \/ Displaced(meta, meta') = {}
         \/ StaleRecord
         \/ spc = "save" /\ file.rows = <<>>
<1>1. ImportTypes /\ SheetTypes
  BY DEF WorkbookInv, WTypes
<1>2. meta' = meta => Displaced(meta, meta') = {}
  BY DEF Displaced
<1>3. ASSUME NEW p \in DOMAIN pc, StorePart(p), meta' # meta, ~ StaleRecord
      PROVE  Displaced(meta, meta') = {}
  <2>1. /\ pc[p] \in {"create", "save"} /\ DOMAIN meta' = DOMAIN view[p]
        /\ \A n \in DOMAIN view[p] : meta'[n].idx = view[p][n].idx
    BY <1>1, <1>3, RecordStep
  <2>2. Displaced(meta, view[p]) = {}
    BY <1>3, <2>1 DEF StaleRecord
  <2> QED
    BY <2>1, <2>2 DEF Displaced
<1>4. ASSUME SaveSheetMeta, ~ StaleRecord, file.rows # <<>>
      PROVE  Displaced(meta, meta') = {}
  <2>1. spc = "save" /\ meta' = SheetRecord
    BY <1>4 DEF SaveSheetMeta
  <2>2. SheetRecord = SheetMeta(sread, file) /\ file \in Files /\ IsRecord(sread)
    BY <1>1, <1>4, <2>1, SheetRecordType DEF SheetTypes
  <2>3. /\ DOMAIN sread \subseteq DOMAIN meta'
        /\ \A n \in DOMAIN sread : meta'[n].idx = sread[n].idx
    <3>1. PICK f \in Files : f = file
      BY <2>2
    <3>2. /\ DOMAIN SheetMeta(sread, f) = DOMAIN sread \cup MetersOf(f)
          /\ \A n \in DOMAIN sread : SheetMeta(sread, f)[n].idx = sread[n].idx
      BY <2>2, SheetMetaType
    <3> QED
      BY <2>1, <2>2, <3>1, <3>2
  <2>4. Displaced(meta, sread) = {}
    BY <1>4, <2>1 DEF StaleRecord
  <2> QED
    BY <2>3, <2>4 DEF Displaced
<1>5. CASE ImportStep
  <2>1. NextMessage => meta' = meta
    BY DEF NextMessage
  <2> QED
    BY <1>2, <1>3, <1>5, <2>1, Zenon DEF ImportStep, Next
<1>6. CASE UploadStep
  <2>1. CASE SaveSheetMeta
    <3>1. spc = "save"
      BY <2>1 DEF SaveSheetMeta
    <3> QED
      BY <1>4, <2>1, <3>1, Zenon
  <2>2. CASE ~ SaveSheetMeta
    <3>1. meta' = meta
      BY <1>6, <2>2 DEF UploadStep, Upload, ReadSheetMeta, RefuseSheet, ReadRow, WriteSheet,
                        WriteSheetFails, SaveSheetFails, vars
    <3> QED
      BY <1>2, <3>1
  <2> QED
    BY <2>1, <2>2
<1>7. CASE Crash \/ UNCHANGED allVars
  <2>1. meta' = meta
    BY <1>7 DEF Crash, allVars, vars
  <2> QED
    BY <1>2, <2>1
<1> QED
  BY <1>5, <1>6, <1>7 DEF WorkbookNext

LEMMA ValuesStep ==
  ASSUME WorkbookInv, [WorkbookNext]_allVars
  PROVE  \A r \in DOMAIN lines, c \in Columns :
           \/ r \in DOMAIN lines' /\ lines[r][c] \subseteq lines'[r][c]
           \/ Overwrites(r, c)
<1> TAKE r \in DOMAIN lines, c \in Columns
<1>1. ImportTypes /\ WTypes
  BY DEF WorkbookInv, WTypes
<1>2. CASE lines' = lines
  BY <1>2
<1>3. ASSUME NEW p \in DOMAIN pc, WriteLines(p) \/ WriteFails(p), ~ Overwrites(r, c)
      PROVE  r \in DOMAIN lines' /\ lines[r][c] \subseteq lines'[r][c]
  <2> DEFINE value == ValueOf(number, p)
             col   == Column(msg.meter, cp[p].idx)
  <2>1. pc[p] = "write" /\ pc'[p] # "write"
    BY <1>1, <1>3 DEF WriteLines, WriteFails, Goto, ImportTypes
  <2>2. c # col /\ r \in DOMAIN fetched[p] /\ fetched[p][r] = lines[r]
    BY <1>3, <2>1 DEF Overwrites, UpToDate
  <2>3. PICK rows :
          /\ DOMAIN lines' = DOMAIN lines \cup rows
          /\ \A x \in DOMAIN lines' : \A y \in Columns :
               lines'[x][y] = IF x \notin rows THEN lines[x][y]
                              ELSE IF x \in DOMAIN value /\ y = col THEN value[x]
                              ELSE IF x \in DOMAIN fetched[p] THEN fetched[p][x][y] ELSE {}
    <3>1. PICK rows \in SUBSET DOMAIN UpdatedLines(p) : Put(UpdatedLines(p), rows)
      BY <1>3, WritersPutBack DEF PutBack
    <3>2. WellPut(p, rows, value, col)
      BY <1>1, <3>1, LinesPut
    <3> HIDE DEF value, col
    <3> QED
      BY <3>2 DEF WellPut
  <2> HIDE DEF value, col
  <2>4. r \in DOMAIN lines' /\ lines'[r][c] = lines[r][c]
    BY <2>2, <2>3
  <2> QED
    BY <2>4
<1>4. ASSUME WriteSheet, ~ Overwrites(r, c)
      PROVE  r \in DOMAIN lines' /\ lines[r][c] \subseteq lines'[r][c]
  <2>1. CASE r \notin swritten' \ swritten
    <3>1. r \in DOMAIN lines' /\ lines'[r] = lines[r]
      BY <1>1, <1>4, <2>1, SheetWritten
    <3> QED
      BY <3>1
  <2>2. CASE r \in swritten' \ swritten
    <3>1. c \notin SheetColumns(sread, file) /\ r \in DOMAIN scopies /\ scopies[r] = lines[r]
      BY <1>4, <2>2 DEF Overwrites, UpToDate
    <3>2. r \in DOMAIN lines' /\ lines'[r][c] = scopies[r][c]
      BY <1>1, <1>4, <2>2, <3>1, SheetWritten
    <3> QED
      BY <3>1, <3>2
  <2> QED
    BY <2>1, <2>2
<1>5. CASE lines' # lines
  <2>1. ~ Crash /\ ~ UNCHANGED allVars /\ ~ NextMessage
    BY <1>5 DEF Crash, allVars, vars, NextMessage
  <2>2. UploadStep => WriteSheet
    BY <1>5 DEF UploadStep, Upload, ReadSheetMeta, RefuseSheet, ReadRow, WriteSheetFails,
                SaveSheetFails, SaveSheetMeta, vars
  <2>3. \A p \in DOMAIN pc : StorePart(p) => WriteLines(p) \/ WriteFails(p)
    BY <1>5 DEF StorePart, MetaFails, ReadMeta, CreateMeta, CreateFails, FetchLines, RereadMeta,
                SaveMeta
  <2>4. WriteSheet \/ \E p \in DOMAIN pc : WriteLines(p) \/ WriteFails(p)
    BY <2>1, <2>2, <2>3, Zenon DEF WorkbookNext, ImportStep, Next
  <2> QED
    BY <1>3, <1>4, <2>4, Zenon
<1> QED
  BY <1>2, <1>5

(* Only a stale copy of the record, and an upload without data rows, takes *)
(* the column of a meter away (ExcelSourceNew.go 180); only an import of   *)
(* the same meter, or a line written from a copy that is out of date,      *)
(* takes values out of a cell (importFunctions.go 75, ExcelSourceNew.go    *)
(* 104 and 176).                                                           *)
THEOREM NothingTaken == WorkbookSpec => MetersKeepTheirs
<1>1. WorkbookSpec => []WorkbookInv
  BY WorkbookInductive, PTL DEF WorkbookSpec
<1>2. WorkbookInv /\ [WorkbookNext]_allVars => EntriesStay /\ ValuesStay
  BY EntriesStep, ValuesStep DEF EntriesStay, ValuesStay
<1> QED
  BY <1>1, <1>2, PTL DEF WorkbookSpec, MetersKeepTheirs

-----------------------------------------------------------------------------
(* The readings of the sheet.                                              *)

(* A data row per reading: the cell of a meter without factor has all of   *)
(* them, and that of a meter with factor the only one.                     *)
LEMMA CellCounts ==
  ASSUME NEW f \in Files, NEW m \in Meters, NEW r \in RowsOfFirst(f, Len(f.rows)),
         ~ (HasFactor(f, m) /\ Cardinality(Occurrences(f, r)) > 1)
  PROVE  /\ {<<v[1], v[2]>> : v \in SheetCell(f, m, r)} = {m} \X Occurrences(f, r)
         /\ Cardinality(SheetCell(f, m, r)) = Cardinality(Occurrences(f, r))
<1> DEFINE O == Occurrences(f, r)
           first == Min(O)
<1>1. O \in SUBSET (1 .. Len(f.rows)) /\ first \in O
  BY SheetCellType
<1>2. IsFiniteSet(O) /\ Cardinality(O) \in Nat
  <2>1. Len(f.rows) \in Nat
    BY FileType
  <2>2. IsFiniteSet(1 .. Len(f.rows))
    BY <2>1, FS_Interval
  <2> HIDE DEF O
  <2> QED
    BY <1>1, <2>2, FS_Subset, FS_CardinalityType
<1>3. SheetCell(f, m, r) = SetBy(f, m, first) \cup UNION {AddedBy(f, m, k) : k \in O \ {first}}
  BY DEF SheetCell
<1> HIDE DEF O, first
<1>4. PICK code : SheetCell(f, m, r) = {<<m, k, code>> : k \in O}
  <2>1. CASE HasFactor(f, m)
    <3>1. O = {first}
      <4>1. Cardinality(O) =< 1
        BY <1>2, <2>1 DEF O
      <4>2. IsFiniteSet({first}) /\ Cardinality({first}) = 1 /\ {first} \in SUBSET O
        BY <1>1, FS_Singleton
      <4>3. Cardinality({first}) =< Cardinality(O)
        BY <1>2, <4>2, FS_Subset
      <4>4. Cardinality(O) = Cardinality({first})
        BY <1>2, <4>1, <4>2, <4>3
      <4> QED
        BY <1>2, <4>2, <4>4, FS_Subset
    <3>2. SetBy(f, m, first) = {<<m, first, "TotalTF">>}
      BY <2>1 DEF SetBy
    <3>3. UNION {AddedBy(f, m, k) : k \in O \ {first}} = {}
      BY <3>1
    <3>4. SheetCell(f, m, r) = {<<m, k, "TotalTF">> : k \in O}
      BY <1>3, <3>1, <3>2, <3>3
    <3> QED
      BY <3>4
  <2>2. CASE ~ HasFactor(f, m)
    <3>1. SetBy(f, m, first) = {<<m, first, "Total">>}
      BY <2>2 DEF SetBy
    <3>2. \A k : AddedBy(f, m, k) = {<<m, k, "Total">>}
      BY <2>2 DEF AddedBy
    <3>3. SheetCell(f, m, r) = {<<m, k, "Total">> : k \in O}
      BY <1>1, <1>3, <3>1, <3>2
    <3> QED
      BY <3>3
  <2> QED
    BY <2>1, <2>2
<1>5. {<<v[1], v[2]>> : v \in SheetCell(f, m, r)} = {m} \X O
  <2> DEFINE C == SheetCell(f, m, r)
  <2>1. \A v \in C : \E k \in O : <<v[1], v[2]>> = <<m, k>>
    BY <1>4
  <2>2. \A k \in O : \E v \in C : <<v[1], v[2]>> = <<m, k>>
    <3> TAKE k \in O
    <3>1. <<m, k, code>> \in C
      BY <1>4
    <3>2. <<m, k, code>>[1] = m /\ <<m, k, code>>[2] = k
      OBVIOUS
    <3> HIDE DEF C
    <3> QED
      BY <3>1, <3>2
  <2> HIDE DEF C
  <2>3. {<<v[1], v[2]>> : v \in C} = {<<m, k>> : k \in O}
    BY <2>1, <2>2
  <2>4. {<<m, k>> : k \in O} = {m} \X O
    OBVIOUS
  <2> QED
    BY <2>3, <2>4, Zenon DEF C
<1>6. Cardinality(SheetCell(f, m, r)) = Cardinality(O)
  <2> DEFINE g == [k \in O |-> <<m, k, code>>]
             C == SheetCell(f, m, r)
  <2>1. g \in [O -> C] /\ (\A v \in C : \E k \in O : g[k] = v)
    BY <1>4
  <2>2. \A j, k \in O : g[j] = g[k] => j = k
    OBVIOUS
  <2>5. DOMAIN g = O
    OBVIOUS
  <2> HIDE DEF g, C
  <2>3. g \in Bijection(O, C)
    BY <2>1, <2>2, <2>5 DEF Bijection, Injection, Surjection, IsInjective
  <2>4. ExistsBijection(O, C)
    BY <2>3 DEF ExistsBijection
  <2> QED
    BY <1>2, <2>4, FS_Bijection DEF C
<1> QED
  BY <1>5, <1>6 DEF O

LEMMA ReadingsHold == WorkbookInv => SheetReadings
<1> SUFFICES ASSUME WorkbookInv, spc = "write", file.rows # <<>>, NEW m \in MetersOf(file),
                    NEW r \in SheetRows(file),
                    ~ CountedTwice(m, r)
             PROVE  LET cell == SheetLines(file, sread, scopies)[r]
                                  [Column(m, SheetMeta(sread, file)[m].idx)]
                    IN  /\ {<<v[1], v[2]>> : v \in cell} = {m} \X Occurrences(file, r)
                        /\ Cardinality(cell) = Cardinality(Occurrences(file, r))
  BY Zenon DEF SheetReadings
<1>1. /\ file \in Files /\ IsRecord(sread) /\ AreAnyLines(scopies)
      /\ DOMAIN scopies = RowsOfFirst(file, Len(file.rows))
  BY DEF WorkbookInv, WTypes, SheetTypes
<1>2. PICK f \in Files : f = file
  BY <1>1
<1>3. PICK mt, copies : mt = sread /\ copies = scopies
  OBVIOUS
<1>4. r \in RowsOfFirst(f, Len(f.rows)) /\ m \in MetersOf(f) /\ m \in Meters
  BY <1>2, FileType DEF SheetRows, RowsOfFirst, MetersOf
<1>5. IsRecord(mt) /\ AreAnyLines(copies) /\ DOMAIN copies = RowsOfFirst(f, Len(f.rows))
  BY <1>1, <1>2, <1>3
<1>6. SheetLines(f, mt, copies)[r][Column(m, SheetMeta(mt, f)[m].idx)] = SheetCell(f, m, r)
  BY <1>4, <1>5, SheetLinesType
<1>7. ~ (HasFactor(f, m) /\ Cardinality(Occurrences(f, r)) > 1)
  BY <1>2 DEF CountedTwice
<1>8. /\ {<<v[1], v[2]>> : v \in SheetCell(f, m, r)} = {m} \X Occurrences(f, r)
      /\ Cardinality(SheetCell(f, m, r)) = Cardinality(Occurrences(f, r))
  BY <1>4, <1>7, CellCounts
<1> QED
  BY <1>2, <1>3, <1>6, <1>8, Zenon

(* What the upload writes into the cell of a meter is each of its readings *)
(* of that row once, unless the meter has totals with and without factor   *)
(* and the row occurs again (ExcelSourceNew.go 116-131).                   *)
THEOREM ReadingsAreCounted == WorkbookSpec => []SheetReadings
<1>1. WorkbookSpec => []WorkbookInv
  BY WorkbookInductive, PTL DEF WorkbookSpec
<1> QED
  BY <1>1, ReadingsHold, PTL

=============================================================================
