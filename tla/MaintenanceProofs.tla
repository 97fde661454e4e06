------------------------- MODULE MaintenanceProofs -------------------------
(***************************************************************************)
(* Proofs about Maintenance, for any meters, rows, times and sequences of  *)
(* commands, deaths of commands and imports between them.                  *)
(*                                                                         *)
(* That two meters never share a column (ColumnsApart) is not inductive: a *)
(* move reads the meta record, writes lines, and writes the record at the  *)
(* end.  MInv adds that the record and the lines are well formed           *)
(* (Records), that a command in progress works on what the record says     *)
(* (Prepared), and that the index it moves to is still free (TargetFree).  *)
(* The steps rest on lemmas about the helpers: slices that are cut, copied *)
(* and filled remain slices (LineMatrix), the next index of CalcMetaInfo   *)
(* is not used, and reorganizeMeta gives each entry an index of its own.   *)
(*                                                                         *)
(* That the values follow their meters (ReadingsFollow) needs RInv on top: *)
(* what each line holds, column by column, and that nothing is behind the  *)
(* last column (Stored), of the record, or of the record to come for the   *)
(* lines that a move has written or need not write; that the columns have  *)
(* no gaps (Contiguous), so that the record is renumbered as the lines are *)
(* cut; and that what a command has prepared is what it would prepare now. *)
(* The lemmas before it say what is where in a slice after each helper,    *)
(* and that each way to write a line keeps what it stores.                 *)
(***************************************************************************)
EXTENDS Maintenance, FiniteSetTheorems, SequenceTheorems, TLAPS

(* A finite set of numbers has a largest and a smallest one, which is what *)
(* the loops over the meta entries look for (CalcMetaInfo, reorganizeMeta).*)
LEMMA Largest ==
  ASSUME NEW S \in SUBSET Nat, IsFiniteSet(S), S # {}
  PROVE  Max(S) \in S /\ \A y \in S : Max(S) >= y
<1> DEFINE Above(x) == {y \in S : y >= x}
           F == {Above(x) : x \in S}
<1>1. F \subseteq FiniteSubsetsOf(S) /\ F # {}
  <2>1. FiniteSubsetsOf(S) = SUBSET S
    BY FS_FiniteSubsetsOfFinite
  <2>2. \A x \in S : Above(x) \in SUBSET S /\ Above(x) \in F
    OBVIOUS
  <2>3. PICK x \in S : TRUE
    OBVIOUS
  <2>4. \A U \in F : U \in SUBSET S
    BY <2>2, Zenon
  <2> HIDE DEF F
  <2> QED
    BY <2>1, <2>2, <2>3, <2>4
<1>2. PICK U \in F : \A V \in F : ~ (<<V, U>> \in StrictSubsetOrdering(S))
  <2>1. IsWellFoundedOn(StrictSubsetOrdering(S), FiniteSubsetsOf(S))
    BY FS_StrictSubsetOrderingWellFounded
  <2> HIDE DEF F
  <2> QED
    BY <1>1, <2>1, WFMin
<1>3. PICK x \in S : U = Above(x)
  OBVIOUS
<1>4. ASSUME NEW y \in S, ~ (x >= y) PROVE FALSE
  <2>0. x \in Nat /\ y \in Nat /\ \A z \in S : z \in Nat
    OBVIOUS
  <2>3. \A z \in S : z >= y => z >= x
    BY <1>4, <2>0
  <2>4. ~ (x >= y) /\ x >= x
    BY <1>4, <2>0
  <2>1. Above(y) \subseteq Above(x) /\ x \notin Above(y) /\ x \in Above(x)
    BY <2>3, <2>4, Zenon
  <2>2. <<Above(y), Above(x)>> \in StrictSubsetOrdering(S)
    BY <2>1 DEF StrictSubsetOrdering
  <2> QED
    BY <2>2, <1>2, <1>3
<1> QED
  BY <1>4 DEF Max

(* FinishMove begins at the smallest of the codes.                         *)
LEMMA Smallest ==
  ASSUME NEW S \in SUBSET Nat, S # {}
  PROVE  Min(S) \in S /\ \A y \in S : Min(S) =< y
<1> DEFINE Below(x) == {y \in S : y =< x}
           F == {Below(x) : x \in S}
<1>1. \A x \in S : Below(x) \in FiniteSubsetsOf(Nat) /\ Below(x) \in F
  <2> SUFFICES ASSUME NEW x \in S PROVE IsFiniteSet(Below(x))
    BY DEF FiniteSubsetsOf
  <2>1. Below(x) \in SUBSET (0 .. x)
    <3>1. x \in Nat /\ \A y \in S : y \in Nat
      OBVIOUS
    <3>2. \A y \in Below(x) : y \in 0 .. x
      BY <3>1
    <3> QED
      BY <3>2, Zenon
  <2>2. IsFiniteSet(0 .. x)
    <3>1. 0 \in Int /\ x \in Int
      OBVIOUS
    <3> QED
      BY <3>1, FS_Interval
  <2> QED
    BY <2>1, <2>2, FS_Subset
<1>2. PICK U \in F : \A V \in F : ~ (<<V, U>> \in StrictSubsetOrdering(Nat))
  <2>1. IsWellFoundedOn(StrictSubsetOrdering(Nat), FiniteSubsetsOf(Nat))
    BY FS_StrictSubsetOrderingWellFounded
  <2>2. F \subseteq FiniteSubsetsOf(Nat)
    BY <1>1, Zenon
  <2>3. F # {}
    BY <1>1
  <2> HIDE DEF F
  <2> QED
    BY <2>1, <2>2, <2>3, WFMin
<1>3. PICK x \in S : U = Below(x)
  OBVIOUS
<1>4. ASSUME NEW y \in S, ~ (x =< y) PROVE FALSE
  <2>0. x \in Nat /\ y \in Nat /\ \A z \in S : z \in Nat
    OBVIOUS
  <2>3. \A z \in S : z =< y => z =< x
    BY <1>4, <2>0
  <2>4. ~ (x =< y) /\ x =< x
    BY <1>4, <2>0
  <2>1. Below(y) \subseteq Below(x) /\ x \notin Below(y) /\ x \in Below(x)
    BY <2>3, <2>4, Zenon
  <2>2. <<Below(y), Below(x)>> \in StrictSubsetOrdering(Nat)
    BY <2>1, <1>1 DEF StrictSubsetOrdering, FiniteSubsetsOf
  <2> QED
    BY <2>2, <1>2, <1>3
<1> QED
  BY <1>4 DEF Min

-----------------------------------------------------------------------------
(* Slices of numbers stay slices of numbers (utils/counterpoint.go).       *)

(* A slot beyond the end of a slice counts as 0.                           *)
LEMMA ValueAtType ==
  ASSUME NEW s \in Seq(Nat), NEW i \in Nat
  PROVE  ValueAt(s, i) \in Nat
BY DEF ValueAt

(* A slice of a given length, filled with zeros (utils/counterpoint.go).   *)
LEMMA FittedType ==
  ASSUME NEW s \in Seq(Nat), NEW n \in Nat
  PROVE  Fitted(s, n) \in Seq(Nat) /\ Len(Fitted(s, n)) = n
<1>1. \A i \in 1 .. n : ValueAt(s, i - 1) \in Nat
  BY ValueAtType
<1> QED
  BY <1>1 DEF Fitted

(* Values that are inserted lengthen a slice as far as they reach.         *)
LEMMA InsertType ==
  ASSUME NEW s \in Seq(Nat), NEW i \in Nat, NEW values \in Seq(Nat)
  PROVE  /\ Insert(s, i, values) \in Seq(Nat)
         /\ Len(Insert(s, i, values)) =
              IF i + Len(values) > Len(s) THEN i + Len(values) ELSE Len(s)
<1> DEFINE n == IF i + Len(values) > Len(s) THEN i + Len(values) ELSE Len(s)
<1>1. Len(s) \in Nat /\ Len(values) \in Nat /\ n \in Nat
  OBVIOUS
<1>2. DOMAIN Grown(s, i + Len(values)) = 1 .. n
  <2>1. CASE i + Len(values) > Len(s)
    BY <2>1, <1>1, FittedType DEF Grown, Fitted
  <2>2. CASE ~ (i + Len(values) > Len(s))
    BY <2>2, <1>1 DEF Grown
  <2> QED
    BY <2>1, <2>2
<1>3. \A j \in 1 .. n : ValueAt(s, j - 1) \in Nat
  <2>1. \A k \in Nat : ValueAt(s, k) \in Nat
    BY ValueAtType
  <2>2. \A j \in 1 .. n : j - 1 \in Nat
    BY <1>1
  <2> HIDE DEF n
  <2> QED
    BY <2>1, <2>2, Zenon
<1>4. \A j \in i + 1 .. i + Len(values) : values[j - i] \in Nat
  <2>1. \A k \in 1 .. Len(values) : values[k] \in Nat
    OBVIOUS
  <2>2. \A j \in i + 1 .. i + Len(values) : j - i \in 1 .. Len(values)
    BY <1>1
  <2> HIDE DEF n
  <2> QED
    BY <2>1, <2>2, Zenon
<1>5. Insert(s, i, values) =
        [j \in 1 .. n |-> IF j \in i + 1 .. i + Len(values) THEN values[j - i]
                          ELSE ValueAt(s, j - 1)]
  BY <1>2 DEF Insert
<1> HIDE DEF n
<1> QED
  <2>1. Insert(s, i, values) \in [1 .. n -> Nat]
    BY <1>3, <1>4, <1>5
  <2>2. Insert(s, i, values) \in Seq(Nat) /\ Len(Insert(s, i, values)) = n
    BY <2>1, <1>1
  <2> QED
    BY <2>2 DEF n

(* What is cut out of a slice is what it gets shorter by.                  *)
LEMMA CutType ==
  ASSUME NEW s \in Seq(Nat), NEW i \in Nat, NEW j \in Nat, i =< j, j =< Len(s)
  PROVE  Cut(s, i, j) \in Seq(Nat) /\ Len(Cut(s, i, j)) = Len(s) - (j - i)
<1>1. \A k \in 1 .. Len(s) : s[k] \in Nat
  OBVIOUS
<1>2. SubSeq(s, 1, i) \in Seq(Nat) /\ Len(SubSeq(s, 1, i)) = i
  <2>1. \A k \in 1 .. i : s[k] \in Nat
    BY <1>1
  <2> QED
    BY <2>1, SubSeqProperties
<1>3. SubSeq(s, j + 1, Len(s)) \in Seq(Nat) /\ Len(SubSeq(s, j + 1, Len(s))) = Len(s) - j
  <2>1. \A k \in j + 1 .. Len(s) : s[k] \in Nat
    BY <1>1
  <2> QED
    BY <2>1, SubSeqProperties
<1>4. /\ Cut(s, i, j) \in Seq(Nat)
      /\ Len(Cut(s, i, j)) = Len(SubSeq(s, 1, i)) + Len(SubSeq(s, j + 1, Len(s)))
  BY <1>2, <1>3, ConcatProperties, Zenon DEF Cut
<1>5. i + (Len(s) - j) = Len(s) - (j - i)
  <2>1. Len(s) \in Nat
    OBVIOUS
  <2> QED
    BY <2>1
<1> QED
  BY <1>2, <1>3, <1>4, <1>5, Zenon

-----------------------------------------------------------------------------
(* The records.  A line that the writes keep has a quality per value of the*)
(* consumers at least.                                                     *)
Slices == [Directions -> Seq(Nat)]
Line ==
  {l \in [values : Slices, grades : Slices] :
     Len(l.grades[Consumer]) >= Len(l.values[Consumer])}
Entry == [dir : Directions, idx : Nat, from : Rows, until : Rows]
Command ==
  [command : {"move", "reset", "initQoV"}, meter : Meters \cup {Idle},
   target : Entry \cup {Idle}, todo : UNION {[S -> Line] : S \in SUBSET Rows}]

(* MakeRawSourceLine *)
LEMMA NewLineIsLine ==
  ASSUME NEW consumers \in Nat, NEW producers \in Nat
  PROVE  NewLine(consumers, producers) \in Line
<1>1. \A n \in Nat : Zeros(n) \in Seq(Nat) /\ Len(Zeros(n)) = n
  BY DEF Zeros
<1>2. NewLine(consumers, producers) \in [values : Slices, grades : Slices]
  BY <1>1 DEF NewLine, Slices
<1>3. NewLine(consumers, producers).grades[Consumer] = Zeros(consumers)
  BY DEF NewLine, Directions
<1>4. NewLine(consumers, producers).values[Consumer] = Zeros(consumers)
  BY DEF NewLine, Directions
<1> QED
  BY <1>1, <1>2, <1>3, <1>4 DEF Line

(* Copy *)
LEMMA CopiedIsLine ==
  ASSUME NEW line \in Line
  PROVE  /\ Copied(line) \in Line
         /\ Copied(line).values = line.values
         /\ \A d \in Directions : Len(Copied(line).grades[d]) = Len(line.values[d])
<1>1. line \in [values : Slices, grades : Slices]
  BY DEF Line
<1>2. \A d \in Directions : Len(line.values[d]) \in Nat /\ line.grades[d] \in Seq(Nat)
  BY <1>1 DEF Slices
<1>3. \A d \in Directions :
        /\ Fitted(line.grades[d], Len(line.values[d])) \in Seq(Nat)
        /\ Len(Fitted(line.grades[d], Len(line.values[d]))) = Len(line.values[d])
  BY <1>2, FittedType
<1>4. Copied(line) = [line EXCEPT !.grades =
                        [d \in Directions |-> Fitted(line.grades[d], Len(line.values[d]))]]
  BY <1>1 DEF Copied
<1>5. /\ Copied(line) \in [values : Slices, grades : Slices]
      /\ Copied(line).values = line.values
      /\ \A d \in Directions :
           Copied(line).grades[d] = Fitted(line.grades[d], Len(line.values[d]))
  BY <1>1, <1>3, <1>4 DEF Slices
<1>6. Consumer \in Directions
  BY DEF Directions
<1> QED
  BY <1>2, <1>3, <1>5, <1>6 DEF Line

(* addEnergyValueToResource: values and qualities grow alike.              *)
LEMMA WithValuesIsLine ==
  ASSUME NEW line \in Line, NEW entry \in Entry, NEW values \in Seq(Nat)
  PROVE  WithValues(line, entry, values) \in Line
<1> DEFINE i == entry.idx * Codes(entry.dir)
           d == entry.dir
<1>1. /\ line \in [values : Slices, grades : Slices]
      /\ Len(line.grades[Consumer]) >= Len(line.values[Consumer])
  BY DEF Line
<1>2. i \in Nat /\ d \in Directions /\ Consumer \in Directions
  BY DEF Entry, Codes, Directions
<1> HIDE DEF i, d
<1>3. line.values[d] \in Seq(Nat) /\ line.grades[d] \in Seq(Nat)
  BY <1>1, <1>2 DEF Slices
<1>4. /\ Insert(line.values[d], i, values) \in Seq(Nat)
      /\ Len(Insert(line.values[d], i, values)) =
           IF i + Len(values) > Len(line.values[d]) THEN i + Len(values)
           ELSE Len(line.values[d])
  BY <1>2, <1>3, InsertType
<1>5. /\ Insert(line.grades[d], i, values) \in Seq(Nat)
      /\ Len(Insert(line.grades[d], i, values)) =
           IF i + Len(values) > Len(line.grades[d]) THEN i + Len(values)
           ELSE Len(line.grades[d])
  BY <1>2, <1>3, InsertType
<1>6. WithValues(line, entry, values) =
        [line EXCEPT !.values[d] = Insert(line.values[d], i, values),
                     !.grades[d] = Insert(line.grades[d], i, values)]
  BY <1>1 DEF WithValues, i, d
<1>7. /\ WithValues(line, entry, values) \in [values : Slices, grades : Slices]
      /\ WithValues(line, entry, values).values =
           [line.values EXCEPT ![d] = Insert(line.values[d], i, values)]
      /\ WithValues(line, entry, values).grades =
           [line.grades EXCEPT ![d] = Insert(line.grades[d], i, values)]
  <2>1. /\ WithValues(line, entry, values).values =
             [line.values EXCEPT ![d] = Insert(line.values[d], i, values)]
        /\ WithValues(line, entry, values).grades =
             [line.grades EXCEPT ![d] = Insert(line.grades[d], i, values)]
    BY <1>1, <1>6
  <2>2. /\ [line.values EXCEPT ![d] = Insert(line.values[d], i, values)] \in Slices
        /\ [line.grades EXCEPT ![d] = Insert(line.grades[d], i, values)] \in Slices
    BY <1>1, <1>2, <1>4, <1>5 DEF Slices
  <2>3. WithValues(line, entry, values) =
          [values |-> [line.values EXCEPT ![d] = Insert(line.values[d], i, values)],
           grades |-> [line.grades EXCEPT ![d] = Insert(line.grades[d], i, values)]]
    BY <1>1, <1>6
  <2> QED
    BY <2>1, <2>2, <2>3
<1>8. /\ Len(values) \in Nat /\ Len(line.values[d]) \in Nat /\ Len(line.grades[d]) \in Nat
  BY <1>3
<1>9. CASE d = Consumer
  <2>1. /\ WithValues(line, entry, values).values[Consumer] = Insert(line.values[d], i, values)
        /\ WithValues(line, entry, values).grades[Consumer] = Insert(line.grades[d], i, values)
    BY <1>1, <1>2, <1>7, <1>9 DEF Slices
  <2>2. Len(line.grades[d]) >= Len(line.values[d])
    BY <1>1, <1>9
  <2>3. Len(Insert(line.grades[d], i, values)) >= Len(Insert(line.values[d], i, values))
    BY <1>2, <1>4, <1>5, <1>8, <2>2, SMTT(30)
  <2> QED
    BY <1>7, <2>1, <2>3 DEF Line
<1>10. CASE d # Consumer
  <2>1. /\ WithValues(line, entry, values).values[Consumer] = line.values[Consumer]
        /\ WithValues(line, entry, values).grades[Consumer] = line.grades[Consumer]
    BY <1>1, <1>2, <1>7, <1>10 DEF Slices
  <2> QED
    BY <1>1, <1>7, <2>1 DEF Line
<1> QED
  BY <1>9, <1>10

(* The smaller of two codes, as FinishMove compares them.                  *)
LEMMA MinOfTwo ==
  ASSUME NEW i \in Nat, NEW j \in Nat
  PROVE  Min({i, j}) \in {i, j} /\ Min({i, j}) =< i /\ Min({i, j}) =< j
<1>1. {i, j} \in SUBSET Nat /\ {i, j} # {}
  OBVIOUS
<1> QED
  BY <1>1, Smallest

(* moveToProducer: of the qualities no more are cut out than of the values.*)
LEMMA MovedIsLine ==
  ASSUME NEW line \in Line, NEW idx \in Nat, NEW to \in Nat, Movable(line, idx)
  PROVE  Moved(line, idx, to) \in Line
<1> DEFINE copy    == Copied(line)
           old     == line.values[Consumer]
           pair(s) == <<s[idx * 3 + 1], s[idx * 3 + 2]>>
           cutV    == Min({idx * 3 + 3, Len(old)})
           values  == Cut(copy.values[Consumer], idx * 3, cutV)
           cutG    == Min({idx * 3 + 3, Len(values)})
           grades  == Cut(copy.grades[Consumer], idx * 3, cutG)
           toV     == Insert(copy.values[Producer], to * 2, pair(old))
           toG     == Insert(copy.grades[Producer], to * 2, pair(line.grades[Consumer]))
<1>1. /\ line \in [values : Slices, grades : Slices]
      /\ Consumer \in Directions /\ Producer \in Directions /\ Consumer # Producer
  BY DEF Line, Directions, Consumer, Producer
<1>2. /\ copy \in [values : Slices, grades : Slices]
      /\ copy.values = line.values
      /\ Len(copy.grades[Consumer]) = Len(old)
  BY <1>1, CopiedIsLine DEF Line
<1>3. /\ old \in Seq(Nat) /\ line.grades[Consumer] \in Seq(Nat)
      /\ copy.grades[Consumer] \in Seq(Nat) /\ copy.values[Consumer] = old
      /\ copy.values[Producer] \in Seq(Nat) /\ copy.grades[Producer] \in Seq(Nat)
  BY <1>1, <1>2 DEF Slices
<1>4. /\ pair(old) \in Seq(Nat) /\ pair(line.grades[Consumer]) \in Seq(Nat)
  <2>1. /\ idx * 3 + 1 \in 1 .. Len(old) /\ idx * 3 + 2 \in 1 .. Len(old)
        /\ idx * 3 + 1 \in 1 .. Len(line.grades[Consumer])
        /\ idx * 3 + 2 \in 1 .. Len(line.grades[Consumer])
    BY <1>3, SMTT(30) DEF Movable
  <2>2. /\ old[idx * 3 + 1] \in Nat /\ old[idx * 3 + 2] \in Nat
        /\ line.grades[Consumer][idx * 3 + 1] \in Nat
        /\ line.grades[Consumer][idx * 3 + 2] \in Nat
    <3>1. \A s \in Seq(Nat) : \A k \in 1 .. Len(s) : s[k] \in Nat
      OBVIOUS
    <3> HIDE DEF old
    <3> QED
      BY <1>3, <2>1, <3>1, Zenon
  <2> QED
    BY <2>2
<1>5. toV \in Seq(Nat) /\ toG \in Seq(Nat)
  <2>1. to * 2 \in Nat
    OBVIOUS
  <2> HIDE DEF copy, old, pair
  <2> QED
    BY <1>3, <1>4, <2>1, InsertType
<1>6. /\ Len(old) \in Nat /\ idx * 3 \in Nat /\ idx * 3 + 3 \in Nat
      /\ idx * 3 + 2 =< Len(old)
  BY <1>3 DEF Movable
<1>7. cutV \in Nat /\ cutV =< Len(old) /\ cutV =< idx * 3 + 3 /\ idx * 3 =< cutV
  <2> HIDE DEF old
  <2>1. cutV \in {idx * 3 + 3, Len(old)} /\ cutV =< Len(old) /\ cutV =< idx * 3 + 3
    BY <1>6, MinOfTwo
  <2> HIDE DEF cutV
  <2> QED
    BY <1>6, <2>1
<1>8. values \in Seq(Nat) /\ Len(values) = Len(old) - (cutV - idx * 3)
  <2> HIDE DEF old, cutV, copy
  <2>0. old \in Seq(Nat)
    BY <1>3
  <2>1. /\ Cut(old, idx * 3, cutV) \in Seq(Nat)
        /\ Len(Cut(old, idx * 3, cutV)) = Len(old) - (cutV - idx * 3)
    BY <1>6, <1>7, <2>0, CutType
  <2> QED
    BY <1>3, <2>1
<1>9. /\ Len(values) \in Nat /\ Len(values) =< Len(old) /\ idx * 3 =< Len(values)
  <2> HIDE DEF old, cutV, values
  <2> QED
    BY <1>6, <1>7, <1>8
<1>10. cutG \in Nat /\ cutG =< Len(values) /\ cutG =< cutV /\ idx * 3 =< cutG
  <2>0. cutV \in {idx * 3 + 3, Len(old)}
    <3> HIDE DEF old
    <3> QED
      BY <1>6, MinOfTwo
  <2> HIDE DEF old, cutV, values
  <2>1. cutG \in {idx * 3 + 3, Len(values)} /\ cutG =< Len(values) /\ cutG =< idx * 3 + 3
    BY <1>6, <1>9, MinOfTwo
  <2> HIDE DEF cutG
  <2> QED
    BY <1>6, <1>7, <1>9, <2>0, <2>1
<1>11. grades \in Seq(Nat) /\ Len(grades) = Len(old) - (cutG - idx * 3)
  <2>1. cutG =< Len(copy.grades[Consumer])
    <3> HIDE DEF old, cutG, copy, values
    <3> QED
      BY <1>2, <1>6, <1>9, <1>10
  <2> HIDE DEF old, cutG, copy, values
  <2> QED
    <3> DEFINE all == copy.grades[Consumer]
    <3>1. all \in Seq(Nat) /\ Len(all) = Len(old) /\ cutG =< Len(all)
      BY <1>2, <1>3, <2>1
    <3> HIDE DEF all
    <3>2. /\ Cut(all, idx * 3, cutG) \in Seq(Nat)
          /\ Len(Cut(all, idx * 3, cutG)) = Len(all) - (cutG - idx * 3)
      BY <1>6, <1>10, <3>1, CutType
    <3> QED
      BY <3>1, <3>2 DEF all
<1>12. Len(grades) >= Len(values)
  <2> HIDE DEF old, cutV, cutG, values, grades
  <2> QED
    BY <1>6, <1>7, <1>8, <1>10, <1>11
<1>13. Moved(line, idx, to) =
         [values |-> [copy.values EXCEPT ![Consumer] = values, ![Producer] = toV],
          grades |-> [copy.grades EXCEPT ![Consumer] = grades, ![Producer] = toG]]
  BY <1>1, <1>2 DEF Moved, Slices
<1> HIDE DEF values, grades, toV, toG, copy
<1>14. /\ [copy.values EXCEPT ![Consumer] = values, ![Producer] = toV] \in Slices
       /\ [copy.grades EXCEPT ![Consumer] = grades, ![Producer] = toG] \in Slices
       /\ [copy.values EXCEPT ![Consumer] = values, ![Producer] = toV][Consumer] = values
       /\ [copy.grades EXCEPT ![Consumer] = grades, ![Producer] = toG][Consumer] = grades
  BY <1>1, <1>2, <1>5, <1>8, <1>11 DEF Slices
<1>15. /\ Moved(line, idx, to) \in [values : Slices, grades : Slices]
       /\ Moved(line, idx, to).values[Consumer] = values
       /\ Moved(line, idx, to).grades[Consumer] = grades
  BY <1>13, <1>14
<1> QED
  BY <1>12, <1>15 DEF Line

(* ConvertLineToMatrix does not extend values that fill the rows.          *)
LEMMA WholeIsNotExtended ==
  ASSUME NEW line, NEW d \in Directions, line.values[d] \in Seq(Nat),
         Whole(line, d), Codes(d) =< Len(line.values[d])
  PROVE  \E rows \in Nat :
           /\ ToMatrix(line, d) =
                [rows |-> rows, cols |-> Codes(d), elements |-> line.values[d]]
           /\ rows * Codes(d) = Len(line.values[d])
<1> DEFINE length == Len(line.values[d])
           cols   == Codes(d)
           rows   == MatrixRows(length, cols)
<1>1. cols \in {2, 3}
  BY DEF Codes
<1>2. length \in Nat /\ length % cols = 0 /\ cols =< length
  BY DEF Whole
<1>3. rows \in Nat /\ rows * cols = length
  <2>1. CASE cols = 2
    <3> HIDE DEF length, cols
    <3>1. rows = (IF length > 2 THEN length - 1 ELSE 1) \div 2 + 1
      BY <1>2, <2>1 DEF MatrixRows
    <3> QED
      BY <1>2, <2>1, <3>1, SMTT(30)
  <2>2. CASE cols = 3
    <3> HIDE DEF length, cols
    <3>1. rows = (length - 1) \div 3 + 1
      BY <1>2, <2>2 DEF MatrixRows
    <3> QED
      BY <1>2, <2>2, <3>1, SMTT(30)
  <2> QED
    BY <1>1, <2>1, <2>2
<1>4. ToMatrix(line, d) =
        EnsureSize([rows |-> rows, cols |-> cols, elements |-> line.values[d]],
                   rows * cols - 1)
  BY DEF ToMatrix, MakeMatrix
<1>5. rows * cols - 1 < Len(line.values[d])
  <2> HIDE DEF rows, cols
  <2> QED
    BY <1>2, <1>3
<1> HIDE DEF rows, cols, length
<1>6. ToMatrix(line, d) = [rows |-> rows, cols |-> cols, elements |-> line.values[d]]
  BY <1>4, <1>5 DEF EnsureSize
<1> QED
  BY <1>3, <1>6 DEF cols, length

CodeCounts == {2, 3}
MatrixOf(rows, cols, s) == [rows |-> rows, cols |-> cols, elements |-> s]

(* SetRow with no values *)
LEMMA ClearedRow ==
  ASSUME NEW rows \in Nat, NEW cols \in CodeCounts, NEW s \in Seq(Nat), NEW row \in Nat
  PROVE  /\ SetRow(MatrixOf(rows, cols, s), row, <<>>).elements \in Seq(Nat)
         /\ Len(SetRow(MatrixOf(rows, cols, s), row, <<>>).elements) = Len(s)
<1> DEFINE A == MatrixOf(rows, cols, s)
           t == [i \in DOMAIN s |-> IF (i - 1) \div cols = row
                                    THEN ValueAt(<<>>, (i - 1) % cols) ELSE s[i]]
<1>1. DOMAIN s = 1 .. Len(s) /\ Len(s) \in Nat /\ \A i \in 1 .. Len(s) : s[i] \in Nat
  OBVIOUS
<1>2. \A i \in 1 .. Len(s) : ValueAt(<<>>, (i - 1) % cols) \in Nat
  <2>1. <<>> \in Seq(Nat) /\ \A i \in 1 .. Len(s) : (i - 1) % cols \in Nat
    BY DEF CodeCounts
  <2>2. \A k \in Nat : ValueAt(<<>>, k) \in Nat
    BY <2>1, ValueAtType
  <2> QED
    BY <2>1, <2>2, Zenon
<1>3. t \in [1 .. Len(s) -> Nat]
  BY <1>1, <1>2
<1>4. t \in Seq(Nat) /\ Len(t) = Len(s)
  <2> HIDE DEF t
  <2> QED
    BY <1>1, <1>3, SMTT(30)
<1>5. SetRow(A, row, <<>>).elements = IF row \in 0 .. rows - 1 THEN t ELSE s
  BY DEF SetRow, MatrixOf
<1> HIDE DEF t, A
<1> QED
  BY <1>4, <1>5, Zenon DEF A

(* What a slice is, position by position.                                  *)
LEMMA SliceIs ==
  ASSUME NEW s \in Seq(Nat)
  PROVE  /\ DOMAIN s = 1 .. Len(s) /\ Len(s) \in Nat
         /\ \A i \in 1 .. Len(s) : s[i] \in Nat
  OBVIOUS

(* Reset *)
LEMMA ClearedIsLine ==
  ASSUME NEW line \in Line, NEW entry \in Entry, Clearable(line, entry)
  PROVE  Cleared(line, entry) \in Line
<1> DEFINE d       == entry.dir
           copy    == Copied(line)
           made    == SetRow(ToMatrix(copy, d), entry.idx, <<>>).elements
           quality == [i \in DOMAIN copy.grades[d] |->
                         IF (i - 1) \div Codes(d) = entry.idx THEN 0 ELSE copy.grades[d][i]]
           values  == IF Whole(line, d) THEN made ELSE copy.values[d]
<1>1. /\ copy \in [values : Slices, grades : Slices] /\ copy.values = line.values
      /\ Len(copy.grades[Consumer]) >= Len(copy.values[Consumer])
      /\ \A x \in Directions : Len(copy.grades[x]) = Len(line.values[x])
  BY CopiedIsLine DEF Line
<1>2. d \in Directions /\ Consumer \in Directions /\ entry.idx \in Nat /\ Codes(d) \in {2, 3}
  BY DEF Entry, Directions, Codes
<1>3. /\ copy.values[d] \in Seq(Nat) /\ copy.grades[d] \in Seq(Nat)
      /\ Len(copy.grades[d]) = Len(copy.values[d])
  BY <1>1, <1>2 DEF Slices
<1>4. values \in Seq(Nat) /\ Len(values) = Len(copy.values[d])
  <2>1. CASE Whole(line, d)
    <3>1. Whole(copy, d)
      BY <1>1, <2>1 DEF Whole
    <3>2. Codes(d) =< Len(copy.values[d])
      <4>1. (entry.idx + 1) * Codes(d) =< Len(copy.values[d])
        BY <1>1 DEF Clearable
      <4>2. Len(copy.values[d]) \in Nat
        BY <1>3
      <4> HIDE DEF copy, d
      <4> QED
        BY <1>2, <4>1, <4>2
    <3> HIDE DEF copy, d
    <3>3. PICK rows \in Nat :
            ToMatrix(copy, d) =
              [rows |-> rows, cols |-> Codes(d), elements |-> copy.values[d]]
      BY <1>2, <1>3, <3>1, <3>2, WholeIsNotExtended
    <3> HIDE DEF copy, d
    <3>4. made \in Seq(Nat) /\ Len(made) = Len(copy.values[d])
      <4> DEFINE matrix == MatrixOf(rows, Codes(d), copy.values[d])
      <4>1. Codes(d) \in CodeCounts /\ entry.idx \in Nat /\ copy.values[d] \in Seq(Nat)
        BY <1>2, <1>3 DEF CodeCounts
      <4>2. /\ SetRow(matrix, entry.idx, <<>>).elements \in Seq(Nat)
            /\ Len(SetRow(matrix, entry.idx, <<>>).elements) = Len(copy.values[d])
        BY <4>1, ClearedRow, ZenonT(40)
      <4>3. matrix = ToMatrix(copy, d)
        BY <3>3 DEF MatrixOf
      <4> HIDE DEF matrix
      <4> QED
        BY <4>2, <4>3, Zenon
    <3> QED
      BY <2>1, <3>4
  <2>2. CASE ~ Whole(line, d)
    BY <2>2, <1>3
  <2> QED
    BY <2>1, <2>2
<1>5. quality \in Seq(Nat) /\ Len(quality) = Len(copy.grades[d])
  <2> HIDE DEF copy, d
  <2>1. /\ DOMAIN copy.grades[d] = 1 .. Len(copy.grades[d]) /\ Len(copy.grades[d]) \in Nat
        /\ \A i \in 1 .. Len(copy.grades[d]) : copy.grades[d][i] \in Nat
    BY <1>3, SliceIs, Zenon
  <2>2. quality \in [1 .. Len(copy.grades[d]) -> Nat]
    BY <2>1
  <2> HIDE DEF quality
  <2> QED
    BY <2>1, <2>2
<1>6. Cleared(line, entry) =
        [values |-> [copy.values EXCEPT ![d] = values],
         grades |-> [copy.grades EXCEPT ![d] = quality]]
  <2>1. Cleared(line, entry) = [copy EXCEPT !.values[d] = IF Whole(line, d) THEN made ELSE @,
                                            !.grades[d] = quality]
    BY Zenon DEF Cleared
  <2> HIDE DEF copy, d, made, quality
  <2> QED
    BY <1>1, <2>1
<1> HIDE DEF copy, d, values, quality
<1>7. /\ [copy.values EXCEPT ![d] = values] \in Slices
      /\ [copy.grades EXCEPT ![d] = quality] \in Slices
      /\ [copy.values EXCEPT ![d] = values][Consumer] =
           IF d = Consumer THEN values ELSE copy.values[Consumer]
      /\ [copy.grades EXCEPT ![d] = quality][Consumer] =
           IF d = Consumer THEN quality ELSE copy.grades[Consumer]
  BY <1>1, <1>2, <1>4, <1>5 DEF Slices
<1>8. /\ Cleared(line, entry) \in [values : Slices, grades : Slices]
      /\ Cleared(line, entry).values[Consumer] =
           IF d = Consumer THEN values ELSE copy.values[Consumer]
      /\ Cleared(line, entry).grades[Consumer] =
           IF d = Consumer THEN quality ELSE copy.grades[Consumer]
  BY <1>6, <1>7
<1>9. Len(values) \in Nat
  BY <1>4
<1>10. Len(Cleared(line, entry).grades[Consumer]) >= Len(Cleared(line, entry).values[Consumer])
  <2>1. CASE d = Consumer
    BY <1>3, <1>4, <1>5, <1>8, <1>9, <2>1
  <2>2. CASE d # Consumer
    BY <1>1, <1>8, <2>2
  <2> QED
    BY <2>1, <2>2
<1> QED
  BY <1>8, <1>10 DEF Line

(* initQoV.go writes a quality per value.                                  *)
LEMMA GradedIsLine ==
  ASSUME NEW line \in Line
  PROVE  [line EXCEPT !.grades = [d \in Directions |->
                                    [i \in DOMAIN line.values[d] |-> 1]]] \in Line
<1> DEFINE graded == [d \in Directions |-> [i \in DOMAIN line.values[d] |-> 1]]
<1>1. line \in [values : Slices, grades : Slices] /\ Consumer \in Directions
  BY DEF Line, Directions
<1>2. \A d \in Directions : /\ [i \in DOMAIN line.values[d] |-> 1] \in Seq(Nat)
                            /\ Len([i \in DOMAIN line.values[d] |-> 1]) = Len(line.values[d])
                            /\ Len(line.values[d]) \in Nat
  <2> TAKE d \in Directions
  <2>1. line.values[d] \in Seq(Nat)
    BY <1>1 DEF Slices
  <2>2. DOMAIN line.values[d] = 1 .. Len(line.values[d]) /\ Len(line.values[d]) \in Nat
    BY <2>1
  <2> QED
    BY <2>2
<1>3. graded \in Slices /\ Len(graded[Consumer]) = Len(line.values[Consumer])
  BY <1>1, <1>2 DEF Slices
<1> HIDE DEF graded
<1>4. /\ [line EXCEPT !.grades = graded] \in [values : Slices, grades : Slices]
      /\ [line EXCEPT !.grades = graded].values = line.values
      /\ [line EXCEPT !.grades = graded].grades = graded
  BY <1>1, <1>3
<1> QED
  BY <1>1, <1>2, <1>3, <1>4, SMTT(30) DEF Line, graded

-----------------------------------------------------------------------------
(* The columns of the meta record.                                         *)

(* The image of a finite set is finite.                                    *)
LEMMA FiniteImage ==
  ASSUME NEW T, IsFiniteSet(T), NEW f
  PROVE  IsFiniteSet({f[x] : x \in T})
<1> DEFINE S == {f[x] : x \in T}
           g == [x \in T |-> f[x]]
<1>1. g \in Surjection(T, S)
  BY DEF Surjection
<1> HIDE DEF S, g
<1> QED
  BY <1>1, FS_Surjection DEF S

IndicesOf(mt, dir) == {mt[m].idx : m \in {x \in DOMAIN mt : mt[x].dir = dir}}
Apart(mt) ==
  \A m, n \in DOMAIN mt : m # n /\ mt[m].dir = mt[n].dir => mt[m].idx # mt[n].idx

(* The indices of a direction are finitely many (CalcMetaInfo).            *)
LEMMA IndicesFinite ==
  ASSUME NEW S \in SUBSET Meters, NEW mt \in [S -> Entry], NEW dir
  PROVE  IndicesOf(mt, dir) \in SUBSET Nat /\ IsFiniteSet(IndicesOf(mt, dir))
<1> DEFINE T == {x \in S : mt[x].dir = dir}
           f == [x \in S |-> mt[x].idx]
<1>1. IsFiniteSet(S)
  BY FS_Subset, MaintenanceAssumption
<1>2. IsFiniteSet(T)
  BY <1>1, FS_Subset
<1>3. IndicesOf(mt, dir) = {f[x] : x \in T}
  BY DEF IndicesOf
<1>4. IsFiniteSet({f[x] : x \in T})
  <2> HIDE DEF f, T
  <2> QED
    BY <1>2, FiniteImage
<1>5. \A x \in S : mt[x].idx \in Nat
  BY DEF Entry
<1> QED
  BY <1>3, <1>4, <1>5

(* CalcMetaInfo: the next index of a direction follows the largest one.    *)
LEMMA NextIdxIsNext ==
  ASSUME NEW S \in SUBSET Meters, DOMAIN meta = S, meta \in [S -> Entry], NEW dir
  PROVE  /\ NextIdx(dir) \in Nat
         /\ \A n \in S : meta[n].dir = dir => meta[n].idx < NextIdx(dir)
         /\ NextIdx(dir) > 0 =>
              \E n \in S : meta[n].dir = dir /\ meta[n].idx = NextIdx(dir) - 1
<1> DEFINE I == IndicesOf(meta, dir)
<1>1. I \in SUBSET Nat /\ IsFiniteSet(I)
  BY IndicesFinite
<1>2. I = {meta[m].idx : m \in Of(dir)}
  BY DEF IndicesOf, Of
<1>3. CASE Of(dir) = {}
  BY <1>3 DEF NextIdx, Of
<1>4. CASE Of(dir) # {}
  <2>1. I # {}
    BY <1>2, <1>4
  <2>2. NextIdx(dir) = Max(I) + 1
    <3>1. NextIdx(dir) = Max({meta[m].idx : m \in Of(dir)}) + 1
      BY <1>4 DEF NextIdx
    <3>2. Max(I) = Max({meta[m].idx : m \in Of(dir)})
      BY <1>2, Zenon
    <3> QED
      BY <3>1, <3>2, Zenon
  <2>3. /\ \A n \in S : meta[n].dir = dir => meta[n].idx \in I
        /\ \A i \in I : \E n \in S : meta[n].dir = dir /\ meta[n].idx = i
    BY DEF IndicesOf
  <2> HIDE DEF I
  <2>4. Max(I) \in I /\ \A y \in I : Max(I) >= y
    BY <1>1, <2>1, Largest
  <2>5. PICK x \in Nat : x = Max(I)
    BY <1>1, <2>4
  <2>6. NextIdx(dir) = x + 1 /\ x \in I /\ \A y \in I : y \in Nat /\ y < x + 1
    BY <1>1, <2>2, <2>4, <2>5
  <2>7. NextIdx(dir) \in Nat /\ NextIdx(dir) - 1 = x
    BY <2>6
  <2> QED
    BY <2>3, <2>6, <2>7
<1> QED
  BY <1>3, <1>4

(* The next index of a direction is larger than all that are used in it.   *)
LEMMA NextIdxIsFree ==
  ASSUME NEW S \in SUBSET Meters, DOMAIN meta = S, meta \in [S -> Entry], NEW dir
  PROVE  /\ NextIdx(dir) \in Nat
         /\ \A n \in S : meta[n].dir = dir => meta[n].idx # NextIdx(dir)
<1>1. /\ NextIdx(dir) \in Nat
      /\ \A n \in S : meta[n].dir = dir => meta[n].idx < NextIdx(dir)
  BY NextIdxIsNext
<1>2. \A n \in S : meta[n].idx \in Nat
  BY DEF Entry
<1> QED
  BY <1>1, <1>2

(* reorganizeMeta: of two entries of a direction one has more of them      *)
(* before it.                                                              *)
LEMMA ReorganizedApart ==
  ASSUME NEW S \in SUBSET Meters, NEW mt \in [S -> Entry], Apart(mt)
  PROVE  /\ Reorganized(mt) \in [S -> Entry]
         /\ Apart(Reorganized(mt))
<1> DEFINE I(m)      == IndicesOf(mt, mt[m].dir)
           before(m) == {i \in I(m) : i < mt[m].idx}
           number(m) == Min(I(m)) + Cardinality(before(m))
<1>1. ASSUME NEW m \in S
      PROVE  /\ I(m) \in SUBSET Nat /\ mt[m].idx \in I(m) /\ mt[m].idx \in Nat
             /\ IsFiniteSet(before(m)) /\ Cardinality(before(m)) \in Nat
             /\ Min(I(m)) \in Nat
  <2>1. I(m) \in SUBSET Nat /\ IsFiniteSet(I(m))
    BY IndicesFinite
  <2>2. mt[m].idx \in I(m)
    BY DEF IndicesOf
  <2>3. before(m) \in SUBSET I(m)
    OBVIOUS
  <2>4. IsFiniteSet(before(m))
    <3> HIDE DEF before, I
    <3> QED
      BY <2>1, <2>3, FS_Subset
  <2>5. Cardinality(before(m)) \in Nat
    <3> HIDE DEF before
    <3> QED
      BY <2>4, FS_CardinalityType
  <2>6. Min(I(m)) \in Nat
    <3> HIDE DEF before, I
    <3> QED
      BY <2>1, <2>2, Smallest
  <2> QED
    BY <2>1, <2>2, <2>4, <2>5, <2>6
<1>2. Reorganized(mt) = [m \in S |-> [mt[m] EXCEPT !.idx = number(m)]]
  BY DEF Reorganized, IndicesOf
<1>3. \A m \in S : number(m) \in Nat
  <2> HIDE DEF before, I
  <2> QED
    BY <1>1
<1> HIDE DEF number
<1>4. \A m \in S : /\ Reorganized(mt)[m] \in Entry
                   /\ Reorganized(mt)[m].dir = mt[m].dir
                   /\ Reorganized(mt)[m].idx = number(m)
  BY <1>2, <1>3 DEF Entry
<1>5. Reorganized(mt) \in [S -> Entry]
  BY <1>2, <1>4
<1>6. ASSUME NEW m \in S, NEW n \in S, mt[m].dir = mt[n].dir, mt[m].idx < mt[n].idx
      PROVE  number(m) # number(n)
  <2>1. I(m) = I(n)
    BY <1>6
  <2>2. /\ mt[m].idx \in Nat /\ mt[n].idx \in Nat /\ I(n) \in SUBSET Nat
        /\ mt[m].idx \in I(n)
    BY <1>1, <2>1
  <2> HIDE DEF I
  <2>3. \A i \in Nat : i < mt[m].idx => i < mt[n].idx
    BY <2>2, <1>6
  <2>4. before(m) \in SUBSET before(n)
    BY <2>1, <2>2, <2>3
  <2>5. mt[m].idx \in before(n) /\ mt[m].idx \notin before(m)
    BY <2>2, <1>6
  <2>6. IsFiniteSet(before(n)) /\ Cardinality(before(n)) \in Nat
        /\ Cardinality(before(m)) \in Nat /\ Min(I(m)) \in Nat
    BY <1>1
  <2> HIDE DEF before
  <2>7. Cardinality(before(m)) # Cardinality(before(n))
    <3>1. before(m) # before(n)
      BY <2>5
    <3> QED
      BY <2>4, <2>6, <3>1, FS_Subset
  <2> QED
    BY <2>1, <2>6, <2>7 DEF number
<1>7. ASSUME NEW m \in S, NEW n \in S, m # n, mt[m].dir = mt[n].dir
      PROVE  number(m) # number(n)
  <2>1. mt[m].idx # mt[n].idx /\ mt[m].idx \in Nat /\ mt[n].idx \in Nat
    BY <1>1, <1>7 DEF Apart
  <2>2. mt[m].idx < mt[n].idx \/ mt[n].idx < mt[m].idx
    BY <2>1
  <2> QED
    BY <1>6, <1>7, <2>2
<1> QED
  BY <1>4, <1>5, <1>7 DEF Apart

-----------------------------------------------------------------------------
(* The invariant.                                                          *)

Records ==
  /\ DOMAIN lines \subseteq Rows /\ lines \in [DOMAIN lines -> Line]
  /\ DOMAIN meta \subseteq Meters /\ meta \in [DOMAIN meta -> Entry]
  /\ commands \in 0 .. MaxCommands
  /\ held \in [Meters -> [Rows -> [codes : 0 .. 3, graded : BOOLEAN]]]
  /\ regular \in BOOLEAN

(* What a command has read is what is still there when it writes: no other *)
(* process has the database open.                                          *)
Prepared ==
  running # Idle =>
    /\ running \in Command
    /\ running.command # "initQoV" => running.meter \in DOMAIN meta
    /\ DOMAIN running.todo \subseteq DOMAIN lines
    /\ running.todo \in [DOMAIN running.todo -> Line]

(* The column a move goes to is nobody's until the meta record is written. *)
TargetFree ==
  running # Idle /\ running.command = "move" =>
    /\ running.target \in Entry
    /\ \A n \in DOMAIN meta :
         meta[n].dir = running.target.dir => meta[n].idx # running.target.idx

MInv == Records /\ Prepared /\ ColumnsApart /\ TargetFree

(* Before the first command.                                               *)
LEMMA InitMInv == Init => MInv
<1> SUFFICES ASSUME Init PROVE MInv
  OBVIOUS
<1>1. DOMAIN lines = {} /\ DOMAIN meta = {} /\ lines = [x \in {} |-> 0] /\ meta = [x \in {} |-> 0]
  BY DEF Init, Nothing
<1>2. Records
  <2>1. lines \in [DOMAIN lines -> Line] /\ meta \in [DOMAIN meta -> Entry]
    BY <1>1
  <2> QED
    BY <1>1, <2>1, MaintenanceAssumption DEF Init, Records
<1>3. Prepared /\ TargetFree
  BY DEF Init, Prepared, TargetFree
<1>4. ColumnsApart
  BY <1>1 DEF ColumnsApart
<1> QED
  BY <1>2, <1>3, <1>4 DEF MInv

(* The larger of two periods' ends (updateMetaCP).                         *)
LEMMA MaxOfTwo ==
  ASSUME NEW i \in Nat, NEW j \in Nat
  PROVE  Max({i, j}) \in {i, j}
<1>1. {i, j} \in SUBSET Nat /\ {i, j} # {} /\ IsFiniteSet({i, j})
  <2>1. IsFiniteSet({i}) /\ {i, j} = {i} \cup {j}
    BY FS_Singleton
  <2> QED
    BY <2>1, FS_AddElement
<1> QED
  BY <1>1, Largest

(* What an import does: the line is copied or made, and the entry is the   *)
(* one of the meter or a new one.                                          *)
Imported(m, r, before, e, v) ==
  /\ running = Idle /\ running' = Idle /\ commands' = commands
  /\ regular' \in BOOLEAN
  /\ regular' => regular /\ Len(v) <= Codes(e.dir)
  /\ r \in DOMAIN lines => before = Copied(lines[r])
  /\ r \notin DOMAIN lines => \E i, j \in Nat : before = NewLine(i, j)
  /\ lines' = [x \in DOMAIN lines \cup {r} |->
                 IF x = r THEN WithValues(before, e, v) ELSE lines[x]]
  /\ m \in DOMAIN meta => e.dir = meta[m].dir /\ e.idx = meta[m].idx
  /\ m \notin DOMAIN meta => e.idx = NextIdx(e.dir)
  /\ meta' = [x \in DOMAIN meta \cup {m} |-> IF x = m THEN e ELSE meta[x]]
  /\ Len(v) \in 1 .. 3
  /\ \A k \in 1 .. Len(v) : v[k] = Reading[m][r][k]
  /\ held[m][r].codes = 0
  /\ held' = [held EXCEPT ![m][r] = [codes |-> Len(v), graded |-> TRUE]]

(* Import, with the entry and the line that it makes.                      *)
LEMMA ImportWrites ==
  ASSUME MInv, NEW m \in Meters, NEW r \in Rows, NEW n \in 1 .. 3, Import(m, r, n)
  PROVE  \E before \in Line, e \in Entry, v \in Seq(Nat) : Imported(m, r, before, e, v)
<1> DEFINE dir    == Entered(m)
           known  == IF m \in DOMAIN meta THEN meta[m]
                     ELSE [dir |-> dir, idx |-> NextIdx(dir), from |-> r, until |-> r]
           entry  == [known EXCEPT !.from = Min({@, r}), !.until = Max({@, r})]
           count(d) == Cardinality(Of(d) \cup (IF d = dir THEN {m} ELSE {}))
           before == IF r \in DOMAIN lines THEN Copied(lines[r])
                     ELSE NewLine(count(Consumer), count(Producer))
           values == SubSeq(Reading[m][r], 1, n)
           S == DOMAIN meta
<1>1. /\ running = Idle /\ running' = Idle
      /\ lines' = [x \in DOMAIN lines \cup {r} |->
                     IF x = r THEN WithValues(before, entry, values) ELSE lines[x]]
      /\ meta' = [x \in S \cup {m} |-> IF x = m THEN entry ELSE meta[x]]
      /\ held' = [held EXCEPT ![m][r] = [codes |-> n, graded |-> TRUE]]
      /\ commands' = commands /\ held[m][r].codes = 0
      /\ regular' = (regular /\ n <= Codes(dir))
  BY DEF Import
<1>2. /\ DOMAIN lines \subseteq Rows /\ lines \in [DOMAIN lines -> Line]
      /\ S \in SUBSET Meters /\ meta \in [S -> Entry]
  BY DEF MInv, Records
<1>3. dir \in Directions
  BY <1>2, MaintenanceAssumption DEF Entered, Entry
<1>4. /\ known \in Entry /\ known.dir = dir
      /\ m \in S => known = meta[m]
      /\ m \notin S => known.idx = NextIdx(dir)
  <2>1. NextIdx(dir) \in Nat
    <3> HIDE DEF dir
    <3> QED
      BY <1>2, NextIdxIsFree
  <2>2. m \in S => meta[m].dir = dir
    BY DEF Entered
  <2> HIDE DEF dir
  <2> QED
    BY <1>2, <1>3, <2>1, <2>2 DEF Entry
<1>5. entry \in Entry /\ entry.dir = known.dir /\ entry.idx = known.idx
  <2>1. known.from \in Rows /\ known.until \in Rows
    <3> HIDE DEF known
    <3> QED
      BY <1>4 DEF Entry
  <2>2. known.from \in Nat /\ known.until \in Nat /\ r \in Nat
    <3> HIDE DEF known
    <3> QED
      BY <2>1, MaintenanceAssumption
  <2> HIDE DEF known
  <2>3. Min({known.from, r}) \in Rows /\ Max({known.until, r}) \in Rows
    <3>1. Min({known.from, r}) \in {known.from, r}
      BY <2>2, MinOfTwo
    <3>2. Max({known.until, r}) \in {known.until, r}
      BY <2>2, MaxOfTwo
    <3> QED
      BY <2>1, <3>1, <3>2
  <2> QED
    BY <1>4, <2>3 DEF Entry
<1>6. /\ before \in Line
      /\ r \notin DOMAIN lines => \E i, j \in Nat : before = NewLine(i, j)
  <2>1. \A d : count(d) \in Nat
    <3> TAKE d
    <3>1. Of(d) \cup (IF d = dir THEN {m} ELSE {}) \in SUBSET Meters
      BY <1>2 DEF Of
    <3> QED
      BY <3>1, FS_Subset, FS_CardinalityType, MaintenanceAssumption
  <2>2. r \in DOMAIN lines => Copied(lines[r]) \in Line
    BY <1>2, CopiedIsLine
  <2> HIDE DEF count
  <2>3. PICK i \in Nat, j \in Nat : i = count(Consumer) /\ j = count(Producer)
    BY <2>1
  <2>4. NewLine(i, j) \in Line
    BY NewLineIsLine
  <2> QED
    BY <2>2, <2>3, <2>4
<1>7. regular' \in BOOLEAN /\ (regular' => regular /\ n <= Codes(dir))
  BY <1>1
<1>8. /\ values \in Seq(Nat) /\ Len(values) = n
      /\ \A k \in 1 .. n : values[k] = Reading[m][r][k]
  <2>1. Reading[m][r] \in [1 .. 3 -> Nat \ {0}]
    BY MaintenanceAssumption
  <2>2. \A i \in 1 .. n : Reading[m][r][i] \in Nat
    BY <2>1
  <2>3. 1 \in Int /\ n \in Int
    OBVIOUS
  <2> QED
    BY <2>2, <2>3, SubSeqProperties
<1>9. r \in DOMAIN lines => before = Copied(lines[r])
  OBVIOUS
<1> HIDE DEF dir, known, entry, before, values
<1>10. Imported(m, r, before, entry, values)
  BY <1>1, <1>4, <1>5, <1>6, <1>7, <1>8, <1>9 DEF Imported
<1> QED
  BY <1>5, <1>6, <1>8, <1>10

(* An import keeps the record and the lines well formed.                   *)
LEMMA ImportStep ==
  ASSUME MInv, NEW m \in Meters, NEW r \in Rows, NEW n \in 1 .. 3, Import(m, r, n)
  PROVE  MInv'
<1>1. PICK before, e, v : /\ before \in Line /\ e \in Entry /\ v \in Seq(Nat)
                          /\ Imported(m, r, before, e, v)
  BY ImportWrites
<1>2. /\ DOMAIN lines \subseteq Rows /\ lines \in [DOMAIN lines -> Line]
      /\ DOMAIN meta \subseteq Meters /\ meta \in [DOMAIN meta -> Entry] /\ Apart(meta)
      /\ commands \in 0 .. MaxCommands /\ regular \in BOOLEAN
      /\ held \in [Meters -> [Rows -> [codes : 0 .. 3, graded : BOOLEAN]]]
  BY DEF MInv, Records, ColumnsApart, Apart
<1>3. DOMAIN lines' \subseteq Rows /\ lines' \in [DOMAIN lines' -> Line]
  <2>1. PICK line : line = WithValues(before, e, v)
    OBVIOUS
  <2>2. line \in Line
    BY <1>1, <2>1, WithValuesIsLine
  <2>3. lines' = [x \in DOMAIN lines \cup {r} |-> IF x = r THEN line ELSE lines[x]]
    BY <1>1, <2>1 DEF Imported
  <2> QED
    BY <1>2, <2>2, <2>3
<1>4. meta' = [x \in DOMAIN meta \cup {m} |-> IF x = m THEN e ELSE meta[x]] /\ e \in Entry
  BY <1>1 DEF Imported
<1>5. DOMAIN meta' \subseteq Meters /\ meta' \in [DOMAIN meta' -> Entry]
  BY <1>2, <1>4
<1>6. held' \in [Meters -> [Rows -> [codes : 0 .. 3, graded : BOOLEAN]]]
  <2>1. PICK new : new = [codes |-> Len(v), graded |-> TRUE]
    OBVIOUS
  <2>2. held' = [held EXCEPT ![m][r] = new] /\ Len(v) \in 1 .. 3
    BY <1>1, <2>1 DEF Imported
  <2>3. new \in [codes : 0 .. 3, graded : BOOLEAN]
    BY <2>1, <2>2
  <2> QED
    BY <1>2, <2>2, <2>3
<1>7. /\ commands' = commands /\ regular' \in BOOLEAN /\ running' = Idle
  BY <1>1 DEF Imported
<1>8. Records'
  BY <1>2, <1>3, <1>5, <1>6, <1>7 DEF Records
<1>9. \A y \in DOMAIN meta : y # m /\ meta[y].dir = e.dir => meta[y].idx # e.idx
  <2>1. CASE m \in DOMAIN meta
    <3>1. e.dir = meta[m].dir /\ e.idx = meta[m].idx
      BY <1>1, <2>1 DEF Imported
    <3> QED
      BY <1>2, <2>1, <3>1 DEF Apart
  <2>2. CASE m \notin DOMAIN meta
    <3>1. PICK S, d : S = DOMAIN meta /\ d = e.dir
      OBVIOUS
    <3>2. \A y \in S : meta[y].dir = d => meta[y].idx # NextIdx(d)
      BY <1>2, <3>1, NextIdxIsFree
    <3>3. e.idx = NextIdx(e.dir)
      BY <1>1, <2>2 DEF Imported
    <3> QED
      BY <3>1, <3>2, <3>3
  <2> QED
    BY <2>1, <2>2
<1>10. ColumnsApart'
  <2>1. DOMAIN meta' = DOMAIN meta \cup {m} /\ meta'[m] = e
        /\ \A y \in DOMAIN meta : y # m => meta'[y] = meta[y]
    BY <1>4
  <2> QED
    BY <1>2, <1>9, <2>1, ZenonT(40) DEF ColumnsApart, Apart
<1>11. Prepared' /\ TargetFree'
  BY <1>7 DEF Prepared, TargetFree
<1> QED
  BY <1>8, <1>10, <1>11 DEF MInv

(* The lines that a command is to write.                                   *)
LEMMA TodoType ==
  ASSUME NEW S \in SUBSET Rows, NEW f \in [S -> Line]
  PROVE  f \in UNION {[T -> Line] : T \in SUBSET Rows}
OBVIOUS

(* handleMove: the index it gets from getTargetMeta is free.               *)
LEMMA MoveStep ==
  ASSUME MInv, NEW m \in Meters, Move(m)
  PROVE  MInv'
<1> DEFINE source == meta[m]
           read   == Within(source.from, source.until)
           target == Target(m)
           todo   == IF source.dir = Consumer
                     THEN [r \in read |-> Moved(lines[r], source.idx, target.idx)]
                     ELSE Nothing
           S == DOMAIN meta
<1>1. /\ m \in S /\ commands < MaxCommands
      /\ source.dir = Consumer => \A r \in read : Movable(lines[r], source.idx)
      /\ running' = [command |-> "move", meter |-> m, target |-> target, todo |-> todo]
      /\ commands' = commands + 1 /\ regular' = (regular /\ Followed(m))
      /\ lines' = lines /\ meta' = meta /\ held' = held
  BY DEF Move
<1>2. /\ DOMAIN lines \subseteq Rows /\ lines \in [DOMAIN lines -> Line]
      /\ S \in SUBSET Meters /\ meta \in [S -> Entry]
      /\ commands \in 0 .. MaxCommands /\ MaxCommands \in Nat
  BY MaintenanceAssumption DEF MInv, Records
<1>3. source \in Entry
  BY <1>1, <1>2
<1>4. /\ target \in Entry
      /\ \A n \in S : meta[n].dir = target.dir => meta[n].idx # target.idx
  <2> DEFINE dir == IF source.dir = Producer THEN Consumer ELSE Producer
  <2>1. /\ NextIdx(dir) \in Nat
        /\ \A n \in S : meta[n].dir = dir => meta[n].idx # NextIdx(dir)
    <3> HIDE DEF dir
    <3> QED
      BY <1>2, NextIdxIsFree
  <2>2. dir \in Directions
    BY DEF Directions
  <2>3. target = [source EXCEPT !.dir = dir, !.idx = NextIdx(dir)]
    BY DEF Target
  <2> HIDE DEF dir, source, target
  <2>4. target \in Entry /\ target.dir = dir /\ target.idx = NextIdx(dir)
    BY <1>3, <2>1, <2>2, <2>3 DEF Entry
  <2> QED
    BY <2>1, <2>4
<1>5. todo \in [DOMAIN todo -> Line] /\ DOMAIN todo \subseteq DOMAIN lines
  <2>1. CASE source.dir = Consumer
    <3>1. read \subseteq DOMAIN lines
      BY DEF Within
    <3>2. source.idx \in Nat /\ target.idx \in Nat
      <4> HIDE DEF source, target
      <4> QED
        BY <1>3, <1>4 DEF Entry
    <3> HIDE DEF source, read, target
    <3>3. \A r \in read : Moved(lines[r], source.idx, target.idx) \in Line
      BY <1>1, <1>2, <2>1, <3>1, <3>2, MovedIsLine
    <3> QED
      BY <2>1, <3>1, <3>3
  <2>2. CASE source.dir # Consumer
    <3> HIDE DEF source, read, target
    <3>1. todo = Nothing
      BY <2>2
    <3>2. DOMAIN todo = {} /\ todo = [x \in {} |-> 0]
      BY <3>1 DEF Nothing
    <3> HIDE DEF todo
    <3> QED
      BY <3>2
  <2> QED
    BY <2>1, <2>2
<1> HIDE DEF todo, target, read
<1>6. running' \in Command
  <2>1. todo \in UNION {[T -> Line] : T \in SUBSET Rows}
    BY <1>2, <1>5, TodoType
  <2> QED
    BY <1>1, <1>4, <2>1 DEF Command
<1>7. Prepared'
  BY <1>1, <1>5, <1>6 DEF Prepared
<1>8. TargetFree'
  BY <1>1, <1>4 DEF TargetFree
<1>9. Records'
  <2>1. regular' \in BOOLEAN /\ commands' \in 0 .. MaxCommands
    BY <1>1, <1>2
  <2> QED
    BY <1>1, <2>1 DEF MInv, Records
<1>10. ColumnsApart'
  BY <1>1 DEF MInv, ColumnsApart
<1> QED
  BY <1>7, <1>8, <1>9, <1>10 DEF MInv

(* Reset prepares lines only.                                              *)
LEMMA ResetStep ==
  ASSUME MInv, NEW m \in Meters, NEW from \in Rows, NEW until \in Rows, Reset(m, from, until)
  PROVE  MInv'
<1> DEFINE entry == meta[m]
           found == {r \in Within(from, until) : Affected(lines[r], entry)}
           todo  == [r \in found |-> Cleared(lines[r], entry)]
<1>1. /\ m \in DOMAIN meta /\ commands < MaxCommands
      /\ \A r \in found : Clearable(lines[r], entry)
      /\ running' = [command |-> "reset", meter |-> m, target |-> entry, todo |-> todo]
      /\ commands' = commands + 1 /\ regular' = regular
      /\ lines' = lines /\ meta' = meta /\ held' = held
  BY DEF Reset
<1>2. /\ DOMAIN lines \subseteq Rows /\ lines \in [DOMAIN lines -> Line]
      /\ entry \in Entry
      /\ commands \in 0 .. MaxCommands /\ MaxCommands \in Nat
  BY <1>1, MaintenanceAssumption DEF MInv, Records
<1>3. found \subseteq DOMAIN lines
  BY DEF Within
<1>4. todo \in [found -> Line] /\ DOMAIN todo = found
  <2> HIDE DEF found, entry
  <2>1. \A r \in found : Cleared(lines[r], entry) \in Line
    BY <1>1, <1>2, <1>3, ClearedIsLine
  <2> QED
    BY <2>1
<1> HIDE DEF todo, found, entry
<1>5. running' \in Command
  <2>1. todo \in UNION {[T -> Line] : T \in SUBSET Rows}
    BY <1>2, <1>3, <1>4, TodoType
  <2> QED
    BY <1>1, <1>2, <2>1 DEF Command
<1>6. Prepared' /\ TargetFree'
  BY <1>1, <1>3, <1>4, <1>5 DEF Prepared, TargetFree
<1>7. Records'
  <2>1. commands' \in 0 .. MaxCommands
    BY <1>1, <1>2
  <2> QED
    BY <1>1, <2>1 DEF MInv, Records
<1>8. ColumnsApart'
  BY <1>1 DEF MInv, ColumnsApart
<1> QED
  BY <1>6, <1>7, <1>8 DEF MInv

(* initQoV prepares lines only.                                            *)
LEMMA InitQoVStep ==
  ASSUME MInv, NEW from \in Rows, NEW until \in Rows, InitQoV(from, until)
  PROVE  MInv'
<1> DEFINE graded(line) == [d \in Directions |-> [i \in DOMAIN line.values[d] |-> 1]]
           found == Within(from, until)
           todo  == [r \in found |-> [lines[r] EXCEPT !.grades = graded(lines[r])]]
<1>1. /\ commands < MaxCommands
      /\ running' = [command |-> "initQoV", meter |-> Idle, target |-> Idle, todo |-> todo]
      /\ commands' = commands + 1 /\ regular' = regular
      /\ lines' = lines /\ meta' = meta /\ held' = held
  BY DEF InitQoV
<1>2. /\ DOMAIN lines \subseteq Rows /\ lines \in [DOMAIN lines -> Line]
      /\ commands \in 0 .. MaxCommands /\ MaxCommands \in Nat
  BY MaintenanceAssumption DEF MInv, Records
<1>3. found \subseteq DOMAIN lines
  BY DEF Within
<1>4. todo \in [found -> Line] /\ DOMAIN todo = found
  <2>1. \A line \in Line : [line EXCEPT !.grades = graded(line)] \in Line
    BY GradedIsLine
  <2> HIDE DEF found, graded
  <2> QED
    BY <1>2, <1>3, <2>1
<1> HIDE DEF todo, found
<1>5. running' \in Command
  <2>1. todo \in UNION {[T -> Line] : T \in SUBSET Rows}
    BY <1>2, <1>3, <1>4, TodoType
  <2> QED
    BY <1>1, <2>1 DEF Command
<1>6. Prepared' /\ TargetFree'
  BY <1>1, <1>3, <1>4, <1>5 DEF Prepared, TargetFree
<1>7. Records'
  <2>1. commands' \in 0 .. MaxCommands
    BY <1>1, <1>2
  <2> QED
    BY <1>1, <2>1 DEF MInv, Records
<1>8. ColumnsApart'
  BY <1>1 DEF MInv, ColumnsApart
<1> QED
  BY <1>6, <1>7, <1>8 DEF MInv

(* A line that is written was prepared from one that was read.             *)
LEMMA WriteLineStep == MInv /\ WriteLine => MInv'
<1> SUFFICES ASSUME MInv, WriteLine PROVE MInv'
  OBVIOUS
<1> DEFINE T    == DOMAIN running.todo
           r    == Min(T)
           rest == [x \in T \ {r} |-> running.todo[x]]
<1>1. /\ running # Idle /\ T # {}
      /\ lines' = [lines EXCEPT ![r] = running.todo[r]]
      /\ running' = [running EXCEPT !.todo = rest]
      /\ held' = HeldAfter(r)
      /\ meta' = meta /\ commands' = commands /\ regular' = regular
  BY DEF WriteLine
<1>2. /\ DOMAIN lines \subseteq Rows /\ lines \in [DOMAIN lines -> Line]
      /\ held \in [Meters -> [Rows -> [codes : 0 .. 3, graded : BOOLEAN]]]
      /\ DOMAIN meta \subseteq Meters
  BY DEF MInv, Records
<1>3. /\ running \in Command
      /\ running.command # "initQoV" => running.meter \in DOMAIN meta
      /\ T \subseteq DOMAIN lines /\ running.todo \in [T -> Line]
  BY <1>1 DEF MInv, Prepared
<1>4. r \in T
  <2>1. T \in SUBSET Nat
    BY <1>2, <1>3, MaintenanceAssumption
  <2> HIDE DEF T
  <2> QED
    BY <1>1, <2>1, Smallest
<1> HIDE DEF r
<1>5. /\ running' \in Command /\ running'.command = running.command
      /\ running'.meter = running.meter /\ running'.target = running.target
      /\ running'.todo = rest
  <2>1. rest \in UNION {[S -> Line] : S \in SUBSET Rows}
    <3>1. rest \in [T \ {r} -> Line] /\ T \ {r} \in SUBSET Rows
      BY <1>2, <1>3
    <3> HIDE DEF rest
    <3> QED
      BY <3>1, TodoType
  <2> HIDE DEF rest
  <2> QED
    BY <1>1, <1>3, <2>1 DEF Command
<1>6. Prepared'
  <2>1. DOMAIN rest = T \ {r} /\ rest \in [T \ {r} -> Line]
    BY <1>3
  <2>2. DOMAIN lines' = DOMAIN lines
    BY <1>1
  <2> HIDE DEF rest
  <2> QED
    BY <1>1, <1>3, <1>5, <2>1, <2>2 DEF Prepared
<1>7. TargetFree'
  <2>1. running.command = "move" =>
          /\ running.target \in Entry
          /\ \A n \in DOMAIN meta :
               meta[n].dir = running.target.dir => meta[n].idx # running.target.idx
    BY <1>1 DEF MInv, TargetFree
  <2> HIDE DEF rest
  <2> QED
    BY <1>1, <1>5, <2>1 DEF TargetFree
<1>8. ColumnsApart'
  BY <1>1 DEF MInv, ColumnsApart
<1>9. held' \in [Meters -> [Rows -> [codes : 0 .. 3, graded : BOOLEAN]]]
  <2>1. r \in Rows
    BY <1>2, <1>3, <1>4
  <2>2. Ungraded(r) \in [Meters -> [Rows -> [codes : 0 .. 3, graded : BOOLEAN]]]
    <3>1. \A h \in [Rows -> [codes : 0 .. 3, graded : BOOLEAN]] :
            [h EXCEPT ![r].graded = FALSE] \in [Rows -> [codes : 0 .. 3, graded : BOOLEAN]]
      BY <2>1
    <3> QED
      BY <1>2, <3>1 DEF Ungraded
  <2>3. running.command \in {"move", "reset", "initQoV"}
    BY <1>3 DEF Command
  <2>4. CASE running.command = "move"
    BY <1>1, <1>2, <2>2, <2>4 DEF HeldAfter
  <2>5. CASE running.command = "reset"
    <3> DEFINE m == running.meter
    <3>1. m \in Meters
      BY <1>2, <1>3, <2>5
    <3>2. held' = IF Whole(lines[r], meta[m].dir) THEN [held EXCEPT ![m][r].codes = 0]
                  ELSE [held EXCEPT ![m][r].graded = FALSE]
      BY <1>1, <2>5 DEF HeldAfter
    <3> HIDE DEF m
    <3>3. held[m] \in [Rows -> [codes : 0 .. 3, graded : BOOLEAN]]
      BY <1>2, <3>1
    <3>4. \A h \in [Rows -> [codes : 0 .. 3, graded : BOOLEAN]] :
            /\ [h EXCEPT ![r].codes = 0] \in [Rows -> [codes : 0 .. 3, graded : BOOLEAN]]
            /\ [h EXCEPT ![r].graded = FALSE] \in [Rows -> [codes : 0 .. 3, graded : BOOLEAN]]
      <4>1. \A x \in [codes : 0 .. 3, graded : BOOLEAN] :
              [x EXCEPT !.codes = 0] \in [codes : 0 .. 3, graded : BOOLEAN]
        OBVIOUS
      <4>2. \A h \in [Rows -> [codes : 0 .. 3, graded : BOOLEAN]] :
              [h EXCEPT ![r].codes = 0] \in [Rows -> [codes : 0 .. 3, graded : BOOLEAN]]
        BY <2>1, <4>1
      <4>3. \A h \in [Rows -> [codes : 0 .. 3, graded : BOOLEAN]] :
              [h EXCEPT ![r].graded = FALSE] \in [Rows -> [codes : 0 .. 3, graded : BOOLEAN]]
        BY <2>1
      <4> QED
        BY <4>2, <4>3, Zenon
    <3>5. /\ [held EXCEPT ![m][r].codes = 0] = [held EXCEPT ![m] = [held[m] EXCEPT ![r].codes = 0]]
          /\ [held EXCEPT ![m][r].graded = FALSE]
               = [held EXCEPT ![m] = [held[m] EXCEPT ![r].graded = FALSE]]
      BY <1>2, <3>1
    <3> QED
      BY <1>2, <3>1, <3>2, <3>3, <3>4, <3>5
  <2>6. CASE running.command = "initQoV"
    BY <1>1, <2>2, <2>6 DEF HeldAfter
  <2> QED
    BY <2>3, <2>4, <2>5, <2>6
<1>10. Records'
  <2>1. /\ DOMAIN lines' = DOMAIN lines /\ lines' \in [DOMAIN lines -> Line]
    BY <1>1, <1>2, <1>3, <1>4
  <2> QED
    BY <1>1, <1>2, <1>9, <2>1 DEF MInv, Records
<1> QED
  BY <1>6, <1>7, <1>8, <1>10 DEF MInv

(* The entry that was prepared takes its free column, and renumbering keeps*)
(* the columns apart.                                                      *)
LEMMA FinishMoveStep == MInv /\ FinishMove => MInv'
<1> SUFFICES ASSUME MInv, FinishMove PROVE MInv'
  OBVIOUS
<1> DEFINE S  == DOMAIN meta
           m  == running.meter
           mt == [meta EXCEPT ![m] = running.target]
           codes(r) == Min({held[m][r].codes, Codes(running.target.dir)})
<1>1. /\ running # Idle /\ running.command = "move"
      /\ meta' = Reorganized(mt)
      /\ held' = [held EXCEPT ![m] =
                    [r \in Rows |-> [held[m][r] EXCEPT !.codes = codes(r)]]]
      /\ running' = Idle
      /\ lines' = lines /\ commands' = commands /\ regular' = regular
  BY DEF FinishMove
<1>2. /\ S \in SUBSET Meters /\ meta \in [S -> Entry]
      /\ held \in [Meters -> [Rows -> [codes : 0 .. 3, graded : BOOLEAN]]]
  BY DEF MInv, Records
<1>3. m \in S
  BY <1>1 DEF MInv, Prepared
<1>4. /\ running.target \in Entry
      /\ \A n \in S : meta[n].dir = running.target.dir => meta[n].idx # running.target.idx
  BY <1>1 DEF MInv, TargetFree
<1>5. mt \in [S -> Entry] /\ Apart(mt)
  <2>1. mt \in [S -> Entry] /\ DOMAIN mt = S /\ mt[m] = running.target
        /\ \A n \in S : n # m => mt[n] = meta[n]
    BY <1>2, <1>3, <1>4
  <2>2. \A x, y \in S : x # y /\ meta[x].dir = meta[y].dir => meta[x].idx # meta[y].idx
    BY DEF MInv, ColumnsApart
  <2> HIDE DEF mt
  <2> QED
    BY <1>4, <2>1, <2>2 DEF Apart
<1>6. meta' \in [S -> Entry] /\ DOMAIN meta' = S /\ Apart(meta')
  <2>1. Reorganized(mt) \in [S -> Entry] /\ Apart(Reorganized(mt))
    <3> HIDE DEF mt
    <3> QED
      BY <1>2, <1>5, ReorganizedApart
  <2> QED
    BY <1>1, <2>1
<1>7. held' \in [Meters -> [Rows -> [codes : 0 .. 3, graded : BOOLEAN]]]
  <2>1. Codes(running.target.dir) \in Nat /\ Codes(running.target.dir) =< 3
    BY DEF Codes
  <2>2. ASSUME NEW k \in 0 .. 3
        PROVE  Min({k, Codes(running.target.dir)}) \in 0 .. 3
    <3>1. k \in Nat
      OBVIOUS
    <3>2. Min({k, Codes(running.target.dir)}) \in {k, Codes(running.target.dir)}
      BY <2>1, <3>1, MinOfTwo
    <3> QED
      BY <2>1, <3>2
  <2>3. m \in Meters
    BY <1>2, <1>3
  <2>4. \A r \in Rows : held[m][r] \in [codes : 0 .. 3, graded : BOOLEAN]
    BY <1>2, <2>3
  <2>5. \A r \in Rows : [held[m][r] EXCEPT !.codes = codes(r)]
                          \in [codes : 0 .. 3, graded : BOOLEAN]
    BY <2>2, <2>4
  <2> QED
    BY <1>1, <1>2, <2>3, <2>5
<1>8. Records'
  <2>1. DOMAIN meta' \subseteq Meters /\ meta' \in [DOMAIN meta' -> Entry]
    BY <1>2, <1>6
  <2> QED
    BY <1>1, <1>7, <2>1 DEF MInv, Records
<1>9. ColumnsApart'
  BY <1>6 DEF ColumnsApart, Apart
<1>10. Prepared' /\ TargetFree'
  BY <1>1 DEF Prepared, TargetFree
<1> QED
  BY <1>8, <1>9, <1>10 DEF MInv

(* The command meta changes the period of an entry only.                   *)
LEMMA SetMetaStep ==
  ASSUME MInv, NEW m \in Meters, NEW r \in Rows, SetMeta(m, r)
  PROVE  MInv'
<1>1. /\ running = Idle /\ running' = Idle /\ m \in DOMAIN meta /\ commands < MaxCommands
      /\ commands' = commands + 1 /\ lines' = lines /\ held' = held /\ regular' = regular
      /\ \/ meta' = [meta EXCEPT ![m].from = r]
         \/ meta' = [meta EXCEPT ![m].until = r]
  BY DEF SetMeta
<1>2. /\ DOMAIN meta \subseteq Meters /\ meta \in [DOMAIN meta -> Entry]
      /\ commands \in 0 .. MaxCommands /\ MaxCommands \in Nat
  BY MaintenanceAssumption DEF MInv, Records
<1>3. /\ DOMAIN meta' = DOMAIN meta /\ meta' \in [DOMAIN meta -> Entry]
      /\ \A x \in DOMAIN meta : meta'[x].dir = meta[x].dir /\ meta'[x].idx = meta[x].idx
  BY <1>1, <1>2 DEF Entry
<1>4. Records'
  <2>1. commands' \in 0 .. MaxCommands
    BY <1>1, <1>2
  <2> QED
    BY <1>1, <1>2, <1>3, <2>1 DEF MInv, Records
<1>5. ColumnsApart'
  BY <1>3 DEF MInv, ColumnsApart
<1>6. Prepared' /\ TargetFree'
  BY <1>1 DEF Prepared, TargetFree
<1> QED
  BY <1>4, <1>5, <1>6 DEF MInv

(* The end of a command, or its death, leaves record and lines as they     *)
(* are.                                                                    *)
LEMMA EndStep == MInv /\ (FinishLines \/ Crash) => MInv'
<1> SUFFICES ASSUME MInv, FinishLines \/ Crash PROVE MInv'
  OBVIOUS
<1>1. /\ running' = Idle /\ lines' = lines /\ meta' = meta
      /\ commands' = commands /\ held' = held /\ regular' \in BOOLEAN
  BY DEF FinishLines, Crash, MInv, Records
<1>2. Records'
  BY <1>1 DEF MInv, Records
<1>3. ColumnsApart'
  BY <1>1 DEF MInv, ColumnsApart
<1>4. Prepared' /\ TargetFree'
  BY <1>1 DEF Prepared, TargetFree
<1> QED
  BY <1>2, <1>3, <1>4 DEF MInv

(* The invariant of the commands, wherever they die: what a command has    *)
(* read is still there when it writes, and the column a move goes to is    *)
(* free until the meta record is written.                                  *)
THEOREM MaintenanceInductive == Spec => []MInv
<1>1. MInv /\ [Next]_vars => MInv'
  <2> SUFFICES ASSUME MInv, [Next]_vars PROVE MInv'
    OBVIOUS
  <2>1. CASE \E msg \in Messages : Import(msg[1], msg[2], msg[3])
    <3>1. PICK msg \in Messages : Import(msg[1], msg[2], msg[3])
      BY <2>1
    <3>2. msg[1] \in Meters /\ msg[2] \in Rows /\ msg[3] \in 1 .. 3
      BY MaintenanceAssumption
    <3> QED
      BY <3>1, <3>2, ImportStep
  <2>2. CASE \E m \in Meters : Move(m)
    BY <2>2, MoveStep
  <2>3. CASE \E m \in Meters, from, until \in Rows : Reset(m, from, until)
    BY <2>3, ResetStep
  <2>4. CASE \E from, until \in Rows : InitQoV(from, until)
    BY <2>4, InitQoVStep
  <2>5. CASE \E m \in Meters, r \in Rows : SetMeta(m, r)
    BY <2>5, SetMetaStep
  <2>6. CASE UNCHANGED vars
    BY <2>6 DEF vars, MInv, Records, Prepared, ColumnsApart, TargetFree
  <2> QED
    BY <2>1, <2>2, <2>3, <2>4, <2>5, <2>6, WriteLineStep, FinishMoveStep, EndStep DEF Next
<1> QED
  BY <1>1, InitMInv, PTL DEF Spec

(* Two meters never share a column, whatever commands were run and wherever*)
(* they died (getTargetMeta, move.go 119-160; reorganizeMeta,              *)
(* functions.go 8-45).                                                     *)
THEOREM ColumnsStayApart == Spec => []ColumnsApart
<1>1. MInv => ColumnsApart
  BY DEF MInv
<1> QED
  BY <1>1, MaintenanceInductive, PTL

(* What was reset are rows of a meter.                                     *)
ClearedRows == cleared \in SUBSET (Meters \X Rows)

(* A reset writes lines of the meter that it was called for (reset.go).    *)
LEMMA ClearedStep == MInv /\ ClearedRows /\ [Next]_vars => ClearedRows'
<1> SUFFICES ASSUME MInv, ClearedRows, [Next]_vars PROVE ClearedRows'
  OBVIOUS
<1>1. CASE WriteLine
  <2>1. PICK r : /\ r = Min(DOMAIN running.todo)
                 /\ cleared' = IF running.command = "reset"
                              THEN cleared \cup {<<running.meter, r>>} ELSE cleared
    BY <1>1 DEF WriteLine
  <2>2. running # Idle /\ DOMAIN running.todo # {}
    BY <1>1 DEF WriteLine
  <2>3. DOMAIN running.todo \subseteq Rows
    BY <2>2 DEF MInv, Records, Prepared
  <2>4. r \in Rows
    <3>1. PICK T : T = DOMAIN running.todo
      OBVIOUS
    <3>2. T \in SUBSET Nat /\ T # {} /\ T \subseteq Rows
      BY <2>2, <2>3, <3>1, MaintenanceAssumption
    <3>3. Min(T) \in T
      BY <3>2, Smallest
    <3> QED
      BY <2>1, <3>1, <3>2, <3>3
  <2>5. running.command = "reset" => running.meter \in Meters
    BY <2>2 DEF MInv, Records, Prepared
  <2> QED
    BY <2>1, <2>4, <2>5 DEF ClearedRows
<1>2. CASE \E msg \in Messages : Import(msg[1], msg[2], msg[3])
  BY <1>2 DEF Import, ClearedRows
<1>3. CASE \/ \E m \in Meters : Move(m)
           \/ \E m \in Meters, from, until \in Rows : Reset(m, from, until)
           \/ \E from, until \in Rows : InitQoV(from, until)
           \/ \E m \in Meters, r \in Rows : SetMeta(m, r)
  BY <1>3 DEF Move, Reset, InitQoV, SetMeta, ClearedRows
<1>4. CASE FinishMove \/ FinishLines \/ Crash \/ UNCHANGED vars
  BY <1>4 DEF FinishMove, FinishLines, Crash, vars, ClearedRows
<1> QED
  BY <1>1, <1>2, <1>3, <1>4 DEF Next

(* Lines stay slices of numbers with a quality per value of the consumers, *)
(* and the indices of the meta record natural numbers (Insert,             *)
(* counterpoint.go 49-69; moveToProducer, move.go 79-103; Reset, reset.go).*)
THEOREM MaintenanceTypeCorrect == Spec => []MaintenanceTypeOK
<1>1. MInv /\ ClearedRows => MaintenanceTypeOK
  <2> SUFFICES ASSUME MInv, ClearedRows PROVE MaintenanceTypeOK
    OBVIOUS
  <2>1. ASSUME NEW r \in DOMAIN lines, NEW d \in Directions
        PROVE  /\ lines[r].values[d] \in Seq(Nat) /\ lines[r].grades[d] \in Seq(Nat)
               /\ d = Consumer => Len(lines[r].grades[d]) >= Len(lines[r].values[d])
    <3>1. lines[r] \in Line
      BY DEF MInv, Records
    <3> QED
      BY <3>1 DEF Line, Slices
  <2>2. ASSUME NEW m \in DOMAIN meta
        PROVE  /\ meta[m].dir \in Directions /\ meta[m].idx \in Nat
               /\ meta[m].from \in Rows /\ meta[m].until \in Rows
    <3>1. meta[m] \in Entry
      BY DEF MInv, Records
    <3> QED
      BY <3>1 DEF Entry
  <2>3. running # Idle =>
          /\ running.command \in {"move", "reset", "initQoV"}
          /\ running.command # "initQoV" => running.meter \in DOMAIN meta
          /\ DOMAIN running.todo \subseteq DOMAIN lines
    BY DEF MInv, Prepared, Command
  <2> QED
    BY <2>1, <2>2, <2>3 DEF MInv, Records, ClearedRows, MaintenanceTypeOK
<1>2. Init => ClearedRows
  BY DEF Init, ClearedRows
<1> QED
  BY <1>1, <1>2, ClearedStep, MaintenanceInductive, PTL DEF Spec

-----------------------------------------------------------------------------
(* What is at the positions of slices that are filled, copied, cut and     *)
(* written to (utils/counterpoint.go).                                     *)

(* What is at a position of a slice that was made longer or shorter: the   *)
(* value that was there, or zero.                                          *)
LEMMA FittedAt ==
  ASSUME NEW s \in Seq(Nat), NEW n \in Nat, NEW i \in Nat
  PROVE  ValueAt(Fitted(s, n), i) = IF i < n THEN ValueAt(s, i) ELSE 0
<1>1. Len(Fitted(s, n)) = n /\ Fitted(s, n) = [j \in 1 .. n |-> ValueAt(s, j - 1)]
  BY FittedType DEF Fitted
<1>2. i < n => i + 1 \in 1 .. n /\ (i + 1) - 1 = i
  OBVIOUS
<1>3. i < n => Fitted(s, n)[i + 1] = ValueAt(s, i)
  BY <1>1, <1>2
<1> QED
  BY <1>1, <1>3 DEF ValueAt

(* A slice grows to the length that is needed, and never shrinks.          *)
LEMMA GrownAt ==
  ASSUME NEW s \in Seq(Nat), NEW n \in Nat
  PROVE  DOMAIN Grown(s, n) = 1 .. (IF n > Len(s) THEN n ELSE Len(s))
<1>1. CASE n > Len(s)
  BY <1>1 DEF Grown, Fitted
<1>2. CASE ~ (n > Len(s))
  BY <1>2 DEF Grown
<1> QED
  BY <1>1, <1>2

(* Insert leaves what is not overwritten where it is.                      *)
LEMMA InsertedAt ==
  ASSUME NEW s \in Seq(Nat), NEW i \in Nat, NEW values \in Seq(Nat), NEW j \in Nat
  PROVE  ValueAt(Insert(s, i, values), j) =
           IF i <= j /\ j < i + Len(values) THEN values[j - i + 1] ELSE ValueAt(s, j)
<1> DEFINE n == IF i + Len(values) > Len(s) THEN i + Len(values) ELSE Len(s)
           t == Insert(s, i, values)
<1>1. Len(s) \in Nat /\ Len(values) \in Nat /\ n \in Nat /\ i + Len(values) <= n /\ Len(s) <= n
  OBVIOUS
<1>2. Len(t) = n
  BY InsertType
<1>3. t = [k \in 1 .. n |-> IF k \in i + 1 .. i + Len(values) THEN values[k - i]
                            ELSE ValueAt(s, k - 1)]
  <2>1. DOMAIN Grown(s, i + Len(values)) = 1 .. n
    BY <1>1, GrownAt
  <2> HIDE DEF n
  <2> QED
    BY <2>1 DEF Insert
<1> HIDE DEF n, t
<1>4. CASE j < n
  <2>1. j + 1 \in 1 .. n /\ (j + 1) - 1 = j /\ (j + 1) - i = j - i + 1
    BY <1>1, <1>4
  <2>2. j + 1 \in i + 1 .. i + Len(values) <=> i <= j /\ j < i + Len(values)
    BY <1>1
  <2>3. t[j + 1] = IF i <= j /\ j < i + Len(values) THEN values[j - i + 1] ELSE ValueAt(s, j)
    BY <1>3, <2>1, <2>2
  <2> QED
    BY <1>2, <1>4, <2>3 DEF ValueAt, t
<1>5. CASE ~ (j < n)
  <2>1. ~ (j < i + Len(values)) /\ ~ (j < Len(s))
    BY <1>1, <1>5
  <2> QED
    BY <1>2, <1>5, <2>1 DEF ValueAt, t
<1> QED
  BY <1>4, <1>5

(* What is behind a cut moves up.                                          *)
LEMMA CutAt ==
  ASSUME NEW s \in Seq(Nat), NEW a \in Nat, NEW b \in Nat, a <= b, b <= Len(s), NEW j \in Nat
  PROVE  ValueAt(Cut(s, a, b), j) = IF j < a THEN ValueAt(s, j) ELSE ValueAt(s, j + (b - a))
<1>1. Len(s) \in Nat /\ \A k \in 1 .. Len(s) : s[k] \in Nat
  OBVIOUS
<1>2. PICK u : u = SubSeq(s, 1, a)
  OBVIOUS
<1>3. PICK v : v = SubSeq(s, b + 1, Len(s))
  OBVIOUS
<1>4. u \in Seq(Nat) /\ Len(u) = a /\ \A k \in 1 .. a : u[k] = s[k]
  <2>1. \A k \in 1 .. a : s[k] \in Nat
    BY <1>1
  <2> QED
    BY <1>1, <1>2, <2>1, SubSeqProperties
<1>5. v \in Seq(Nat) /\ Len(v) = Len(s) - b /\ \A k \in 1 .. Len(s) - b : v[k] = s[b + k]
  <2>1. \A k \in b + 1 .. Len(s) : s[k] \in Nat
    BY <1>1
  <2> QED
    BY <1>1, <1>3, <2>1, SubSeqProperties, SMTT(30)
<1>6. PICK w : w = u \o v
  OBVIOUS
<1>7. Cut(s, a, b) = w
  BY <1>2, <1>3, <1>6 DEF Cut
<1>8. /\ Len(w) = a + (Len(s) - b)
      /\ \A k \in 1 .. Len(w) : w[k] = IF k <= a THEN u[k] ELSE v[k - a]
  BY <1>4, <1>5, <1>6, ConcatProperties
<1>9. CASE j < a
  <2>1. j + 1 \in 1 .. a /\ j + 1 \in 1 .. Len(w) /\ j < Len(w) /\ j < Len(s)
    BY <1>1, <1>8, <1>9, SMTT(30)
  <2>2. w[j + 1] = s[j + 1]
    BY <1>4, <1>8, <2>1, SMTT(30)
  <2> QED
    BY <1>7, <1>9, <2>1, <2>2 DEF ValueAt
<1>10. CASE a <= j /\ j < Len(w)
  <2>1. /\ j + 1 \in 1 .. Len(w) /\ ~(j + 1 <= a) /\ (j + 1) - a \in 1 .. Len(s) - b
        /\ b + ((j + 1) - a) = (j + (b - a)) + 1 /\ j + (b - a) < Len(s) /\ ~(j < a)
    BY <1>1, <1>8, <1>10
  <2>3. w[j + 1] = v[(j + 1) - a]
    BY <1>8, <2>1
  <2>4. v[(j + 1) - a] = s[b + ((j + 1) - a)]
    BY <1>5, <2>1
  <2>2. w[j + 1] = s[(j + (b - a)) + 1]
    BY <2>1, <2>3, <2>4
  <2> QED
    BY <1>7, <1>10, <2>1, <2>2 DEF ValueAt
<1>11. CASE ~(j < Len(w))
  <2>1. ~(j + (b - a) < Len(s)) /\ ~(j < a)
    BY <1>1, <1>8, <1>11
  <2> QED
    BY <1>7, <1>11, <2>1 DEF ValueAt
<1>12. Len(w) \in Nat
  BY <1>1, <1>8
<1> QED
  BY <1>9, <1>10, <1>11, <1>12

(* A copy has the qualities of as many values as there are.                *)
LEMMA CopiedAt ==
  ASSUME NEW line \in Line, NEW d \in Directions, NEW i \in Nat
  PROVE  ValueAt(Copied(line).grades[d], i) =
           IF i < Len(line.values[d]) THEN ValueAt(line.grades[d], i) ELSE 0
<1>1. line.grades[d] \in Seq(Nat) /\ Len(line.values[d]) \in Nat
  BY DEF Line, Slices
<1>2. Copied(line).grades[d] = Fitted(line.grades[d], Len(line.values[d]))
  BY DEF Copied, Line
<1> QED
  BY <1>1, <1>2, FittedAt

(* What is not zero is within the slice.                                   *)
LEMMA NothingBeyond ==
  ASSUME NEW s, NEW i, ValueAt(s, i) # 0
  PROVE  i < Len(s)
BY DEF ValueAt

-----------------------------------------------------------------------------
(* What a line holds of the meters of a record.  The values of a meter are *)
(* in its column, with their qualities if these are held, and the columns  *)
(* behind those of all meters are empty.                                   *)

Position(e, k) == e.idx * Codes(e.dir) + (k - 1)

InColumn(line, e, h, values) ==
  /\ h.codes <= Codes(e.dir)
  /\ \A k \in 1 .. Codes(e.dir) :
       /\ ValueAt(line.values[e.dir], Position(e, k)) = IF k <= h.codes THEN values[k] ELSE 0
       /\ h.graded /\ k <= h.codes => ValueAt(line.grades[e.dir], Position(e, k)) = values[k]

Behind(mt, d, i) == \A n \in DOMAIN mt : mt[n].dir = d => (mt[n].idx + 1) * Codes(d) <= i

NobodysEmpty(line, mt) ==
  \A d \in Directions, i \in Nat : Behind(mt, d, i) => ValueAt(line.values[d], i) = 0

Stored(line, mt, h, R) ==
  (\A n \in DOMAIN mt : InColumn(line, mt[n], h[n], R[n])) /\ NobodysEmpty(line, mt)

Holding == [codes : 0 .. 3, graded : BOOLEAN]
Received == [1 .. 3 -> Nat \ {0}]

(* The positions of a column are its own, and no others are.               *)
LEMMA Positions ==
  ASSUME NEW e \in Entry, NEW k \in 1 .. Codes(e.dir)
  PROVE  /\ Position(e, k) \in Nat /\ Codes(e.dir) \in {2, 3} /\ k \in 1 .. 3
         /\ e.idx * Codes(e.dir) <= Position(e, k)
         /\ Position(e, k) < (e.idx + 1) * Codes(e.dir)
         /\ Position(e, k) \div Codes(e.dir) = e.idx
<1>1. PICK i \in Nat, c \in {2, 3} : i = e.idx /\ c = Codes(e.dir)
  BY DEF Entry, Codes
<1>2. PICK p : p = i * c + (k - 1)
  OBVIOUS
<1>3. CASE c = 2
  <2>1. k \in {1, 2} /\ p = i * 2 + (k - 1)
    BY <1>1, <1>2, <1>3
  <2>2. p \in Nat /\ i * 2 <= p /\ p < (i + 1) * 2 /\ p \div 2 = i
    BY <2>1
  <2> QED
    BY <1>1, <1>2, <1>3, <2>1, <2>2 DEF Position
<1>4. CASE c = 3
  <2>1. k \in {1, 2, 3} /\ p = i * 3 + (k - 1)
    BY <1>1, <1>2, <1>4
  <2>2. p \in Nat /\ i * 3 <= p /\ p < (i + 1) * 3 /\ p \div 3 = i
    BY <2>1
  <2> QED
    BY <1>1, <1>2, <1>4, <2>1, <2>2 DEF Position
<1> QED
  BY <1>1, <1>3, <1>4

(* Columns do not overlap, and are in the order of their indices.          *)
LEMMA ColumnsDisjoint ==
  ASSUME NEW a \in Nat, NEW b \in Nat, NEW d
  PROVE  /\ a < b => (a + 1) * Codes(d) <= b * Codes(d)
         /\ a * Codes(d) \in Nat /\ (a + 1) * Codes(d) \in Nat
         /\ (a + 1) * Codes(d) = a * Codes(d) + Codes(d)
<1>1. CASE Codes(d) = 2
  BY <1>1
<1>2. CASE Codes(d) = 3
  BY <1>2
<1>3. Codes(d) \in {2, 3}
  BY DEF Codes
<1> QED
  BY <1>1, <1>2, <1>3

(* What was received is not zero, so that it is where the slice is.        *)
LEMMA SameColumn ==
  ASSUME NEW line, NEW e, NEW h, NEW R, InColumn(line, e, h, R), R \in Received,
         e \in Entry,
         NEW line2, NEW e2, NEW h2, e2.dir = e.dir,
         h2.codes = h.codes, h2.graded \in BOOLEAN, h2.graded => h.graded,
         \A k \in 1 .. Codes(e.dir) :
           LET was  == ValueAt(line.values[e.dir], Position(e, k))
               will == ValueAt(line2.values[e.dir], Position(e2, k))
           IN  /\ will = was
               /\ h2.graded /\ was # 0 =>
                    ValueAt(line2.grades[e.dir], Position(e2, k)) =
                      ValueAt(line.grades[e.dir], Position(e, k))
  PROVE  InColumn(line2, e2, h2, R)
<1> SUFFICES ASSUME NEW k \in 1 .. Codes(e.dir)
             PROVE  /\ ValueAt(line2.values[e.dir], Position(e2, k)) =
                         IF k <= h.codes THEN R[k] ELSE 0
                    /\ h2.graded /\ k <= h.codes =>
                         ValueAt(line2.grades[e.dir], Position(e2, k)) = R[k]
  BY DEF InColumn
<1>1. k \in 1 .. 3
  BY Positions
<1>2. R[k] # 0
  BY <1>1 DEF Received
<1> QED
  BY <1>2 DEF InColumn

(* Copy                                                                    *)
LEMMA CopyStores ==
  ASSUME NEW line \in Line, NEW mt, NEW h, NEW R, Stored(line, mt, h, R),
         mt \in [DOMAIN mt -> Entry],
         \A n \in DOMAIN mt : R[n] \in Received /\ h[n] \in Holding
  PROVE  Stored(Copied(line), mt, h, R)
<1>1. Copied(line).values = line.values
  BY CopiedIsLine
<1>2. ASSUME NEW n \in DOMAIN mt PROVE InColumn(Copied(line), mt[n], h[n], R[n])
  <2>1. /\ mt[n] \in Entry /\ InColumn(line, mt[n], h[n], R[n]) /\ R[n] \in Received
        /\ h[n].graded \in BOOLEAN /\ mt[n].dir \in Directions
    BY DEF Stored, Holding, Entry
  <2>2. PICK e, g, v : e = mt[n] /\ g = h[n] /\ v = R[n]
    OBVIOUS
  <2>3. ASSUME NEW k \in 1 .. Codes(e.dir), ValueAt(line.values[e.dir], Position(e, k)) # 0
        PROVE  ValueAt(Copied(line).grades[e.dir], Position(e, k)) =
                 ValueAt(line.grades[e.dir], Position(e, k))
    <3>1. Position(e, k) \in Nat
      BY <2>1, <2>2, Positions
    <3>2. Position(e, k) < Len(line.values[e.dir])
      BY <2>3, NothingBeyond
    <3> QED
      BY <2>1, <2>2, <3>1, <3>2, CopiedAt
  <2> QED
    BY <1>1, <2>1, <2>2, <2>3, SameColumn
<1> QED
  BY <1>1, <1>2 DEF Stored, NobodysEmpty

(* addEnergyValueToResource writes values and qualities at one place.      *)
LEMMA WithValuesAt ==
  ASSUME NEW line \in Line, NEW e \in Entry, NEW v \in Seq(Nat),
         NEW d \in Directions, NEW i \in Nat
  PROVE  LET p   == e.idx * Codes(e.dir)
             out == WithValues(line, e, v)
             at(s) == IF d = e.dir /\ p <= i /\ i < p + Len(v) THEN v[i - p + 1] ELSE ValueAt(s, i)
         IN  /\ ValueAt(out.values[d], i) = at(line.values[d])
             /\ ValueAt(out.grades[d], i) = at(line.grades[d])
<1> DEFINE p == e.idx * Codes(e.dir)
<1>1. p \in Nat /\ e.dir \in Directions
  BY DEF Entry, Codes
<1>2. line.values \in Slices /\ line.grades \in Slices /\ line \in [values : Slices, grades : Slices]
  BY DEF Line
<1>3. line.values[d] \in Seq(Nat) /\ line.grades[d] \in Seq(Nat)
  BY <1>2 DEF Slices
<1>4. /\ WithValues(line, e, v).values[d] =
           IF d = e.dir THEN Insert(line.values[d], p, v) ELSE line.values[d]
      /\ WithValues(line, e, v).grades[d] =
           IF d = e.dir THEN Insert(line.grades[d], p, v) ELSE line.grades[d]
  BY <1>1, <1>2 DEF WithValues, Slices
<1> HIDE DEF p
<1>5. /\ ValueAt(Insert(line.values[d], p, v), i) =
           IF p <= i /\ i < p + Len(v) THEN v[i - p + 1] ELSE ValueAt(line.values[d], i)
      /\ ValueAt(Insert(line.grades[d], p, v), i) =
           IF p <= i /\ i < p + Len(v) THEN v[i - p + 1] ELSE ValueAt(line.grades[d], i)
  BY <1>1, <1>3, InsertedAt, ZenonT(40)
<1> QED
  BY <1>4, <1>5 DEF p

(* An entry that the record has, with another period maybe, or may get;    *)
(* the record with it; and what is held, which stays for the other meters. *)
InRecord(mt, m, e) ==
  /\ m \in DOMAIN mt => mt[m].dir = e.dir /\ mt[m].idx = e.idx
  /\ m \notin DOMAIN mt => \A n \in DOMAIN mt : mt[n].dir = e.dir => mt[n].idx < e.idx
  /\ \A n \in DOMAIN mt : n # m /\ mt[n].dir = e.dir => mt[n].idx # e.idx
WithEntry(mt, m, e, mt2) ==
  /\ DOMAIN mt2 = DOMAIN mt \cup {m} /\ mt2[m] = e
  /\ \A n \in DOMAIN mt : n # m => mt2[n] = mt[n]
OthersHeld(mt, m, h, h2) == \A n \in DOMAIN mt : n # m => h2[n] = h[n]
Sent(v, e, values) == Len(v) <= Codes(e.dir) /\ \A k \in 1 .. Len(v) : v[k] = values[k]

(* An import leaves the values of the other meters where they are.         *)
LEMMA ImportStores ==
  ASSUME NEW line \in Line, NEW mt, mt \in [DOMAIN mt -> Entry], NEW h, NEW R,
         Stored(line, mt, h, R),
         \A n \in DOMAIN mt : R[n] \in Received /\ h[n] \in Holding,
         NEW m, NEW e \in Entry, NEW v \in Seq(Nat),
         Sent(v, e, R[m]), InRecord(mt, m, e), m \in DOMAIN mt => h[m].codes = 0,
         NEW mt2, WithEntry(mt, m, e, mt2),
         NEW h2, OthersHeld(mt, m, h, h2), h2[m].codes = Len(v)
  PROVE  Stored(WithValues(line, e, v), mt2, h2, R)
<1> USE DEF Sent, InRecord, WithEntry, OthersHeld
<1> DEFINE C   == Codes(e.dir)
           p   == e.idx * C
           out == WithValues(line, e, v)
           inside(d, i) == d = e.dir /\ p <= i /\ i < p + Len(v)
<1>1. /\ e.idx \in Nat /\ e.dir \in Directions /\ Len(v) \in Nat
      /\ p \in Nat /\ (e.idx + 1) * C = p + C
  BY ColumnsDisjoint DEF Entry
<1>2. ASSUME NEW d \in Directions, NEW i \in Nat
      PROVE  /\ inside(d, i) => /\ ValueAt(out.values[d], i) = v[i - p + 1]
                                /\ ValueAt(out.grades[d], i) = v[i - p + 1]
             /\ ~inside(d, i) => /\ ValueAt(out.values[d], i) = ValueAt(line.values[d], i)
                                 /\ ValueAt(out.grades[d], i) = ValueAt(line.grades[d], i)
  BY WithValuesAt
<1> HIDE DEF out
<1>3. ASSUME NEW n \in DOMAIN mt, n # m PROVE InColumn(out, mt[n], h[n], R[n])
  <2>1. PICK f : f = mt[n]
    OBVIOUS
  <2>2. /\ f \in Entry /\ f.idx \in Nat /\ f.dir \in Directions
        /\ InColumn(line, f, h[n], R[n]) /\ R[n] \in Received /\ h[n].graded \in BOOLEAN
    BY <2>1 DEF Stored, Holding, Entry
  <2>3. ASSUME NEW k \in 1 .. Codes(f.dir)
        PROVE  /\ ValueAt(out.values[f.dir], Position(f, k)) = ValueAt(line.values[f.dir], Position(f, k))
               /\ ValueAt(out.grades[f.dir], Position(f, k)) = ValueAt(line.grades[f.dir], Position(f, k))
    <3>1. PICK q \in Nat : q = Position(f, k)
      BY <2>2, Positions
    <3>2. f.idx * Codes(f.dir) <= q /\ q < (f.idx + 1) * Codes(f.dir)
      BY <2>2, <3>1, Positions
    <3>3. ~inside(f.dir, q)
      <4> SUFFICES ASSUME f.dir = e.dir PROVE ~(p <= q /\ q < p + Len(v))
        OBVIOUS
      <4>1. f.idx < e.idx \/ e.idx < f.idx
        BY <1>1, <1>3, <2>1, <2>2
      <4>2. CASE f.idx < e.idx
        <5>1. (f.idx + 1) * C <= p /\ (f.idx + 1) * C \in Nat
          BY <1>1, <2>2, <4>2, ColumnsDisjoint
        <5> HIDE DEF p
        <5> QED
          BY <1>1, <3>2, <5>1
      <4>3. CASE e.idx < f.idx
        <5>1. (e.idx + 1) * C <= f.idx * C /\ f.idx * C \in Nat
          BY <1>1, <2>2, <4>3, ColumnsDisjoint
        <5>2. Len(v) <= C /\ C \in Nat
          BY DEF Codes
        <5> HIDE DEF p, C
        <5>3. p + Len(v) <= f.idx * C
          BY <1>1, <5>1, <5>2
        <5>4. f.idx * C <= q
          BY <3>2 DEF C
        <5> QED
          BY <1>1, <5>1, <5>3, <5>4
      <4> QED
        BY <4>1, <4>2, <4>3
    <3> HIDE DEF inside
    <3> QED
      BY <1>2, <2>2, <3>1, <3>3
  <2> QED
    BY <2>1, <2>2, <2>3, SameColumn
<1>4. InColumn(out, e, h2[m], R[m])
  <2> SUFFICES ASSUME NEW k \in 1 .. C
               PROVE  /\ ValueAt(out.values[e.dir], Position(e, k)) =
                           IF k <= Len(v) THEN R[m][k] ELSE 0
                      /\ k <= Len(v) => ValueAt(out.grades[e.dir], Position(e, k)) = R[m][k]
    BY DEF InColumn
  <2>1. PICK q \in Nat : q = Position(e, k)
    BY Positions
  <2>2. q = p + (k - 1) /\ k \in Nat /\ k >= 1 /\ k <= C /\ C \in Nat
    BY <2>1 DEF Position, Codes
  <2>3. CASE k <= Len(v)
    <3>1. inside(e.dir, q) /\ q - p + 1 = k /\ k \in 1 .. Len(v)
      <4> HIDE DEF p, C
      <4> QED
        BY <1>1, <2>2, <2>3, SMTT(30)
    <3> HIDE DEF inside
    <3> QED
      BY <1>1, <1>2, <2>1, <2>3, <3>1, SMTT(30)
  <2>4. CASE ~(k <= Len(v))
    <3>1. ~inside(e.dir, q)
      <4> HIDE DEF p, C
      <4> QED
        BY <1>1, <2>2, <2>4
    <3>2. ValueAt(line.values[e.dir], q) = 0
      <4>1. CASE m \in DOMAIN mt
        <5>1. /\ InColumn(line, mt[m], h[m], R[m]) /\ h[m].codes = 0
              /\ mt[m].dir = e.dir /\ mt[m].idx = e.idx
          BY <4>1 DEF Stored
        <5>2. Position(mt[m], k) = q /\ ~(k <= 0)
          BY <2>1, <2>2, <5>1 DEF Position
        <5> QED
          BY <5>1, <5>2 DEF InColumn
      <4>2. CASE m \notin DOMAIN mt
        <5>1. ASSUME NEW n \in DOMAIN mt, mt[n].dir = e.dir
              PROVE  (mt[n].idx + 1) * C <= q
          <6>1. mt[n].idx < e.idx /\ mt[n].idx \in Nat
            BY <4>2, <5>1 DEF Entry
          <6>2. (mt[n].idx + 1) * C <= p /\ (mt[n].idx + 1) * C \in Nat
            BY <1>1, <6>1, ColumnsDisjoint
          <6> HIDE DEF p, C
          <6> QED
            BY <1>1, <2>2, <6>2
        <5>2. Behind(mt, e.dir, q)
          BY <5>1 DEF Behind
        <5> QED
          BY <1>1, <5>2 DEF Stored, NobodysEmpty
      <4> QED
        BY <4>1, <4>2
    <3> HIDE DEF inside
    <3> QED
      BY <1>1, <1>2, <2>1, <2>4, <3>1, <3>2
  <2> QED
    BY <2>3, <2>4
<1>5. NobodysEmpty(out, mt2)
  <2> SUFFICES ASSUME NEW d \in Directions, NEW i \in Nat, Behind(mt2, d, i)
               PROVE  ValueAt(out.values[d], i) = 0
    BY DEF NobodysEmpty
  <2>1. Behind(mt, d, i)
    <3> SUFFICES ASSUME NEW n \in DOMAIN mt, mt[n].dir = d
                 PROVE  (mt[n].idx + 1) * Codes(d) <= i
      BY DEF Behind
    <3>1. CASE n # m
      BY <3>1 DEF Behind
    <3>2. CASE n = m
      BY <3>2 DEF Behind
    <3> QED
      BY <3>1, <3>2
  <2>2. ~inside(d, i)
    <3> SUFFICES ASSUME d = e.dir PROVE ~(i < p + Len(v))
      OBVIOUS
    <3>1. p + C <= i
      BY <1>1 DEF Behind
    <3>2. Len(v) <= C /\ C \in Nat
      BY DEF Codes
    <3> HIDE DEF p, C
    <3> QED
      BY <1>1, <3>1, <3>2
  <2> HIDE DEF inside
  <2> QED
    BY <1>2, <2>1, <2>2 DEF Stored, NobodysEmpty
<1>6. \A n \in DOMAIN mt2 : InColumn(out, mt2[n], h2[n], R[n])
  BY <1>3, <1>4
<1> QED
  BY <1>5, <1>6 DEF Stored, out

(* MakeRawSourceLine makes an empty line.                                  *)
LEMMA NewLineStores ==
  ASSUME NEW consumers \in Nat, NEW producers \in Nat, NEW mt, mt \in [DOMAIN mt -> Entry],
         NEW h, \A n \in DOMAIN mt : h[n].codes = 0, NEW R
  PROVE  Stored(NewLine(consumers, producers), mt, h, R)
<1> DEFINE line == NewLine(consumers, producers)
<1>1. \A c, i \in Nat : ValueAt(Zeros(c), i) = 0
  <2> SUFFICES ASSUME NEW c \in Nat, NEW i \in Nat PROVE ValueAt(Zeros(c), i) = 0
    OBVIOUS
  <2>1. Len(Zeros(c)) = c
    BY DEF Zeros
  <2>2. i < c => i + 1 \in 1 .. c
    OBVIOUS
  <2>3. i < c => Zeros(c)[i + 1] = 0
    BY <2>2 DEF Zeros
  <2> QED
    BY <2>1, <2>3 DEF ValueAt
<1>2. \A d \in Directions : line.values[d] = Zeros(consumers) \/ line.values[d] = Zeros(producers)
  BY DEF NewLine
<1>3. \A d \in Directions, i \in Nat : ValueAt(line.values[d], i) = 0
  <2> HIDE DEF line
  <2> QED
    BY <1>1, <1>2
<1> HIDE DEF line
<1>4. ASSUME NEW n \in DOMAIN mt PROVE InColumn(line, mt[n], h[n], R[n])
  <2>1. PICK e : e = mt[n]
    OBVIOUS
  <2>2. e \in Entry /\ e.dir \in Directions /\ Codes(e.dir) \in Nat
    BY <2>1 DEF Entry, Codes
  <2>3. \A k \in 1 .. Codes(e.dir) : Position(e, k) \in Nat /\ ~(k <= 0)
    BY <2>2, Positions
  <2> QED
    BY <1>3, <2>1, <2>2, <2>3 DEF InColumn
<1> QED
  BY <1>3, <1>4 DEF Stored, NobodysEmpty, line

(* Reset clears the column of a meter where the line is whole, and its     *)
(* qualities.                                                              *)
LEMMA ClearedAt ==
  ASSUME NEW line \in Line, NEW e \in Entry, Clearable(line, e),
         NEW d \in Directions, NEW i \in Nat
  PROVE  /\ ValueAt(Cleared(line, e).values[d], i) =
              IF d = e.dir /\ Whole(line, d) /\ i \div Codes(d) = e.idx THEN 0
              ELSE ValueAt(line.values[d], i)
         /\ ~(d = e.dir /\ i \div Codes(d) = e.idx) =>
              ValueAt(Cleared(line, e).grades[d], i) = ValueAt(Copied(line).grades[d], i)
<1> DEFINE D       == e.dir
           copy    == Copied(line)
           made    == SetRow(ToMatrix(copy, D), e.idx, <<>>).elements
           quality == [k \in DOMAIN copy.grades[D] |->
                         IF (k - 1) \div Codes(D) = e.idx THEN 0 ELSE copy.grades[D][k]]
           values  == IF Whole(line, D) THEN made ELSE copy.values[D]
           s       == line.values[D]
<1>1. /\ copy \in Line /\ copy.values = line.values /\ Len(copy.grades[D]) = Len(line.values[D])
      /\ D \in Directions /\ e.idx \in Nat
  BY CopiedIsLine DEF Entry
<1>2. /\ copy \in [values : Slices, grades : Slices]
      /\ s \in Seq(Nat) /\ copy.grades[D] \in Seq(Nat)
  BY <1>1 DEF Line, Slices
<1>3. /\ Cleared(line, e).values = [copy.values EXCEPT ![D] = values]
      /\ Cleared(line, e).grades = [copy.grades EXCEPT ![D] = quality]
  BY <1>2 DEF Cleared
<1>4. /\ Cleared(line, e).values[d] = IF d = D THEN values ELSE line.values[d]
      /\ Cleared(line, e).grades[d] = IF d = D THEN quality ELSE copy.grades[d]
  <2> HIDE DEF D, values, quality, copy
  <2> QED
    BY <1>1, <1>2, <1>3 DEF Slices
<1>5. ~(i \div Codes(D) = e.idx) => ValueAt(quality, i) = ValueAt(copy.grades[D], i)
  <2>1. PICK g \in Seq(Nat) : g = copy.grades[D]
    BY <1>2
  <2>2. DOMAIN g = 1 .. Len(g) /\ Len(g) \in Nat
    OBVIOUS
  <2>3. quality = [k \in 1 .. Len(g) |-> IF (k - 1) \div Codes(D) = e.idx THEN 0 ELSE g[k]]
    BY <2>1, <2>2
  <2>4. Len(quality) = Len(g)
    BY <2>2, <2>3
  <2>5. i < Len(g) => i + 1 \in 1 .. Len(g) /\ (i + 1) - 1 = i
    BY <2>2
  <2> HIDE DEF D, copy, quality
  <2>6. i < Len(g) /\ ~(i \div Codes(D) = e.idx) => quality[i + 1] = g[i + 1]
    BY <2>3, <2>5
  <2> QED
    BY <2>1, <2>4, <2>6 DEF ValueAt
<1>6. Whole(line, D) =>
        ValueAt(made, i) = IF i \div Codes(D) = e.idx THEN 0 ELSE ValueAt(s, i)
  <2> SUFFICES ASSUME Whole(line, D)
               PROVE  ValueAt(made, i) = IF i \div Codes(D) = e.idx THEN 0 ELSE ValueAt(s, i)
    OBVIOUS
  <2>1. PICK c \in {2, 3} : c = Codes(D)
    BY DEF Codes
  <2>2. (e.idx + 1) * c <= Len(s) /\ Len(s) \in Nat /\ Len(s) % c = 0 /\ c <= Len(s)
    <3>1. (e.idx + 1) * c <= Len(s) /\ Len(s) \in Nat /\ Len(s) % c = 0
      BY <1>2, <2>1 DEF Clearable, Whole
    <3>2. PICK x \in Nat : x = e.idx
      BY <1>1
    <3>3. c <= (x + 1) * c /\ (x + 1) * c \in Nat
      <4>1. CASE c = 2
        BY <4>1
      <4>2. CASE c = 3
        BY <4>2
      <4> QED
        BY <4>1, <4>2
    <3> HIDE DEF s
    <3> QED
      BY <3>1, <3>2, <3>3
  <2>3. PICK rows \in Nat :
          /\ ToMatrix(copy, D) = [rows |-> rows, cols |-> c, elements |-> s]
          /\ rows * c = Len(s)
    <3>1. copy.values[D] = s /\ Whole(copy, D) /\ copy.values[D] \in Seq(Nat)
      BY <1>1, <1>2 DEF Whole
    <3> HIDE DEF s, copy, D
    <3> QED
      BY <1>1, <2>1, <2>2, <3>1, WholeIsNotExtended
  <2>4. PICK x \in Nat : x = e.idx
    BY <1>1
  <2>5. x \in 0 .. rows - 1
    <3>1. PICK n \in Nat : n = Len(s)
      BY <2>2
    <3>2. CASE c = 2
      BY <2>2, <2>3, <2>4, <3>1, <3>2
    <3>3. CASE c = 3
      BY <2>2, <2>3, <2>4, <3>1, <3>3
    <3> QED
      BY <3>2, <3>3
  <2> HIDE DEF D, copy, s
  <2>6. made = [k \in DOMAIN s |-> IF (k - 1) \div c = x THEN ValueAt(<<>>, (k - 1) % c) ELSE s[k]]
    BY <2>3, <2>4, <2>5 DEF SetRow
  <2>7. s \in Seq(Nat) /\ DOMAIN s = 1 .. Len(s)
    BY <1>2
  <2>8. Len(made) = Len(s)
    BY <2>6, <2>7
  <2> HIDE DEF made
  <2>9. CASE i < Len(s)
    <3>1. i + 1 \in 1 .. Len(s) /\ (i + 1) - 1 = i /\ i % c \in Nat
      BY <2>2, <2>9
    <3>2. ValueAt(<<>>, i % c) = 0
      BY <3>1 DEF ValueAt
    <3>3. made[i + 1] = IF i \div c = x THEN 0 ELSE s[i + 1]
      BY <2>6, <2>7, <3>1, <3>2
    <3> QED
      BY <2>1, <2>4, <2>8, <2>9, <3>3 DEF ValueAt
  <2>10. CASE ~(i < Len(s))
    BY <2>8, <2>10 DEF ValueAt
  <2> QED
    BY <2>9, <2>10
<1> HIDE DEF D, copy, made, quality, values, s
<1>7. ValueAt(values, i) =
        IF Whole(line, D) /\ i \div Codes(D) = e.idx THEN 0 ELSE ValueAt(s, i)
  BY <1>1, <1>6 DEF values, s
<1>8. CASE d = D
  BY <1>4, <1>5, <1>7, <1>8 DEF s, copy, D
<1>9. CASE d # D
  BY <1>4, <1>9 DEF copy, D
<1> QED
  BY <1>8, <1>9

(* A reset clears the column of its meter and no other; a line that ends   *)
(* within a column keeps its values and loses qualities.                   *)
LEMMA ClearedStores ==
  ASSUME NEW line \in Line, NEW mt, mt \in [DOMAIN mt -> Entry], Apart(mt), NEW h, NEW R,
         Stored(line, mt, h, R),
         \A n \in DOMAIN mt : R[n] \in Received /\ h[n] \in Holding,
         NEW m \in DOMAIN mt, Clearable(line, mt[m]),
         NEW h2, \A n \in DOMAIN mt : n # m => h2[n] = h[n],
         IF Whole(line, mt[m].dir) THEN h2[m].codes = 0
         ELSE h2[m].codes = h[m].codes /\ h2[m].graded = FALSE
  PROVE  Stored(Cleared(line, mt[m]), mt, h2, R)
<1>1. PICK e : e = mt[m]
  OBVIOUS
<1>2. PICK out : out = Cleared(line, e)
  OBVIOUS
<1>3. PICK copy : copy = Copied(line)
  OBVIOUS
<1>4. e \in Entry /\ e.dir \in Directions /\ Clearable(line, e)
  BY <1>1 DEF Entry
<1>5. copy.values = line.values /\ Stored(copy, mt, h, R)
  BY <1>3, CopiedIsLine, CopyStores
<1>6. ASSUME NEW d \in Directions, NEW i \in Nat
      PROVE  /\ ValueAt(out.values[d], i) =
                  IF d = e.dir /\ Whole(line, d) /\ i \div Codes(d) = e.idx THEN 0
                  ELSE ValueAt(copy.values[d], i)
             /\ ~(d = e.dir /\ i \div Codes(d) = e.idx) =>
                  ValueAt(out.grades[d], i) = ValueAt(copy.grades[d], i)
  BY <1>2, <1>3, <1>4, <1>5, ClearedAt
<1>7. ASSUME NEW n \in DOMAIN mt, n # m PROVE InColumn(out, mt[n], h2[n], R[n])
  <2>1. PICK f : f = mt[n]
    OBVIOUS
  <2>2. /\ f \in Entry /\ f.dir \in Directions /\ InColumn(copy, f, h[n], R[n])
        /\ R[n] \in Received /\ h[n].graded \in BOOLEAN /\ h2[n] = h[n]
    BY <1>5, <1>7, <2>1 DEF Stored, Holding, Entry
  <2>3. f.dir = e.dir => f.idx # e.idx
    BY <1>1, <1>7, <2>1 DEF Apart
  <2>4. ASSUME NEW k \in 1 .. Codes(f.dir)
        PROVE  /\ ValueAt(out.values[f.dir], Position(f, k)) = ValueAt(copy.values[f.dir], Position(f, k))
               /\ ValueAt(out.grades[f.dir], Position(f, k)) = ValueAt(copy.grades[f.dir], Position(f, k))
    <3>1. Position(f, k) \in Nat /\ Position(f, k) \div Codes(f.dir) = f.idx
      BY <2>2, Positions
    <3> QED
      BY <1>6, <2>2, <2>3, <3>1
  <2> QED
    BY <2>1, <2>2, <2>4, SameColumn
<1>8. InColumn(out, e, h2[m], R[m])
  <2>1. InColumn(copy, e, h[m], R[m]) /\ Codes(e.dir) \in Nat
    BY <1>1, <1>5 DEF Stored, Codes
  <2>2. \A k \in 1 .. Codes(e.dir) :
          Position(e, k) \in Nat /\ Position(e, k) \div Codes(e.dir) = e.idx /\ ~(k <= 0)
    BY <1>4, <2>1, Positions
  <2>3. CASE Whole(line, e.dir)
    <3>1. h2[m].codes = 0
      BY <1>1, <2>3
    <3>2. \A k \in 1 .. Codes(e.dir) : ValueAt(out.values[e.dir], Position(e, k)) = 0
      BY <1>4, <1>6, <2>2, <2>3
    <3> QED
      BY <2>1, <2>2, <3>1, <3>2 DEF InColumn
  <2>4. CASE ~Whole(line, e.dir)
    <3>1. h2[m].codes = h[m].codes /\ h2[m].graded = FALSE
      BY <1>1, <2>4
    <3>2. \A k \in 1 .. Codes(e.dir) :
            ValueAt(out.values[e.dir], Position(e, k)) = ValueAt(copy.values[e.dir], Position(e, k))
      BY <1>4, <1>6, <2>2, <2>4
    <3> QED
      BY <2>1, <3>1, <3>2 DEF InColumn
  <2> QED
    BY <2>3, <2>4
<1>9. NobodysEmpty(out, mt)
  BY <1>5, <1>6 DEF Stored, NobodysEmpty
<1> QED
  BY <1>1, <1>2, <1>7, <1>8, <1>9 DEF Stored

(* initQoV leaves the values.                                              *)
LEMMA GradedStores ==
  ASSUME NEW line, NEW mt, NEW h, NEW R, Stored(line, mt, h, R),
         NEW out, out.values = line.values,
         NEW h2, \A n \in DOMAIN mt : h2[n].codes = h[n].codes /\ h2[n].graded = FALSE
  PROVE  Stored(out, mt, h2, R)
BY DEF Stored, NobodysEmpty, InColumn

(* A pair of values that is written elsewhere.                             *)
LEMMA PairInserted ==
  ASSUME NEW s \in Seq(Nat), NEW x \in Nat, x + 2 <= Len(s), NEW v \in Seq(Nat), NEW t \in Nat,
         NEW i \in Nat
  PROVE  ValueAt(Insert(v, t, <<s[x + 1], s[x + 2]>>), i) =
           IF t <= i /\ i < t + 2 THEN ValueAt(s, x + (i - t)) ELSE ValueAt(v, i)
<1>1. x + 1 \in 1 .. Len(s) /\ x + 2 \in 1 .. Len(s)
  OBVIOUS
<1>2. s[x + 1] \in Nat /\ s[x + 2] \in Nat
  BY <1>1, SliceIs
<1>3. PICK p : p = <<s[x + 1], s[x + 2]>>
  OBVIOUS
<1>4. p \in Seq(Nat) /\ Len(p) = 2 /\ p[1] = s[x + 1] /\ p[2] = s[x + 2]
  BY <1>2, <1>3
<1>5. ValueAt(s, x) = s[x + 1] /\ ValueAt(s, x + 1) = s[x + 2]
  BY <1>1 DEF ValueAt
<1>6. ValueAt(Insert(v, t, p), i) =
        IF t <= i /\ i < t + Len(p) THEN p[i - t + 1] ELSE ValueAt(v, i)
  <2>1. p \in Seq(Nat)
    BY <1>4
  <2> QED
    BY <2>1, InsertedAt, ZenonT(40)
<1>7. t <= i /\ i < t + 2 => (i = t \/ i = t + 1)
  OBVIOUS
<1>8. CASE i = t
  <2>1. i - t + 1 = 1 /\ x + (i - t) = x /\ t <= i /\ i < t + 2
    BY <1>8
  <2> QED
    BY <1>3, <1>4, <1>5, <1>6, <2>1
<1>9. CASE i = t + 1
  <2>1. i - t + 1 = 2 /\ x + (i - t) = x + 1 /\ t <= i /\ i < t + 2
    BY <1>9
  <2> QED
    BY <1>3, <1>4, <1>5, <1>6, <2>1
<1>10. CASE ~(t <= i /\ i < t + 2)
  BY <1>3, <1>4, <1>6, <1>10
<1> QED
  BY <1>7, <1>8, <1>9, <1>10

(* What is left of values after three were cut out, or the last two.       *)
LEMMA CutOutValues ==
  ASSUME NEW s \in Seq(Nat), NEW x \in Nat, x + 2 <= Len(s)
  PROVE  \E w \in {2, 3} :
           /\ w = 2 => Len(s) = x + 2
           /\ Len(Cut(s, x, Min({x + 3, Len(s)}))) = Len(s) - w
           /\ \A i \in Nat : ValueAt(Cut(s, x, Min({x + 3, Len(s)})), i) =
                               ValueAt(s, IF i < x THEN i ELSE i + w)
<1>1. PICK cut : cut = Min({x + 3, Len(s)})
  OBVIOUS
<1>2. Len(s) \in Nat /\ x + 3 \in Nat
  OBVIOUS
<1>3. cut \in {x + 3, Len(s)} /\ cut =< x + 3 /\ cut =< Len(s)
  BY <1>1, <1>2, MinOfTwo
<1>4. cut \in Nat /\ x <= cut /\ cut <= Len(s) /\ cut - x \in {2, 3}
      /\ (cut - x = 2 => Len(s) = x + 2)
  BY <1>2, <1>3
<1>5. Len(Cut(s, x, cut)) = Len(s) - (cut - x)
  BY <1>4, CutType
<1>6. ASSUME NEW i \in Nat
      PROVE  ValueAt(Cut(s, x, cut), i) = ValueAt(s, IF i < x THEN i ELSE i + (cut - x))
  <2>1. ValueAt(Cut(s, x, cut), i) =
          IF i < x THEN ValueAt(s, i) ELSE ValueAt(s, i + (cut - x))
    BY <1>4, CutAt
  <2> QED
    BY <2>1
<1>7. PICK w : w = cut - x
  OBVIOUS
<1> QED
  BY <1>1, <1>4, <1>5, <1>6, <1>7

(* Their qualities are cut only before the end of the values that are left.*)
LEMMA CutOutGrades ==
  ASSUME NEW s \in Seq(Nat), NEW x \in Nat, NEW m \in Nat,
         Len(s) = m + 3, x = m \/ x + 3 <= m
  PROVE  \E w \in {0, 3} :
           /\ w = 0 => m = x
           /\ \A i \in Nat : ValueAt(Cut(s, x, Min({x + 3, m})), i) =
                               ValueAt(s, IF i < x THEN i ELSE i + w)
<1>1. PICK cut : cut = Min({x + 3, m})
  OBVIOUS
<1>2. x + 3 \in Nat
  OBVIOUS
<1>3. cut \in {x + 3, m} /\ cut =< x + 3 /\ cut =< m
  BY <1>1, <1>2, MinOfTwo
<1>4. cut \in Nat /\ x <= cut /\ cut <= Len(s) /\ cut - x \in {0, 3} /\ (cut - x = 0 => m = x)
  BY <1>2, <1>3
<1>6. ASSUME NEW i \in Nat
      PROVE  ValueAt(Cut(s, x, cut), i) = ValueAt(s, IF i < x THEN i ELSE i + (cut - x))
  <2>1. ValueAt(Cut(s, x, cut), i) =
          IF i < x THEN ValueAt(s, i) ELSE ValueAt(s, i + (cut - x))
    BY <1>4, CutAt
  <2> QED
    BY <2>1
<1>7. PICK w : w = cut - x
  OBVIOUS
<1> QED
  BY <1>1, <1>4, <1>6, <1>7

(* moveToProducer, position by position.                                   *)
LEMMA MovedAt ==
  ASSUME NEW line \in Line, NEW idx \in Nat, NEW to \in Nat, Movable(line, idx)
  PROVE  LET out  == Moved(line, idx, to)
             copy == Copied(line)
             n    == Len(line.values[Consumer])
             into(i) == to * 2 <= i /\ i < to * 2 + 2
         IN  /\ \E w \in {2, 3} :
                  /\ w = 2 => n = idx * 3 + 2
                  /\ \A i \in Nat : ValueAt(out.values[Consumer], i) =
                       ValueAt(line.values[Consumer], IF i < idx * 3 THEN i ELSE i + w)
             /\ Whole(line, Consumer) => \E w \in {0, 3} :
                  /\ w = 0 => n = idx * 3 + 3
                  /\ \A i \in Nat : ValueAt(out.grades[Consumer], i) =
                       ValueAt(copy.grades[Consumer], IF i < idx * 3 THEN i ELSE i + w)
             /\ \A i \in Nat :
                  /\ ValueAt(out.values[Producer], i) =
                       IF into(i) THEN ValueAt(line.values[Consumer], idx * 3 + (i - to * 2))
                       ELSE ValueAt(line.values[Producer], i)
                  /\ ValueAt(out.grades[Producer], i) =
                       IF into(i) THEN ValueAt(line.grades[Consumer], idx * 3 + (i - to * 2))
                       ELSE ValueAt(copy.grades[Producer], i)
<1>1. PICK x, t : x = idx * 3 /\ t = to * 2
  OBVIOUS
<1>2. PICK copy : copy = Copied(line)
  OBVIOUS
<1>3. /\ line.values \in Slices /\ line.grades \in Slices /\ copy \in [values : Slices, grades : Slices]
      /\ copy.values = line.values
      /\ \A d \in Directions : Len(copy.grades[d]) = Len(line.values[d])
  BY <1>2, CopiedIsLine DEF Line
<1>4. Consumer \in Directions /\ Producer \in Directions /\ Consumer # Producer
  BY DEF Directions, Consumer, Producer
<1>5. PICK old, was, cv, cg, qv :
        /\ old = line.values[Consumer] /\ was = line.grades[Consumer]
        /\ cg = copy.grades[Consumer]
        /\ cv = line.values[Producer] /\ qv = copy.grades[Producer]
  OBVIOUS
<1>6. /\ old \in Seq(Nat) /\ was \in Seq(Nat) /\ cg \in Seq(Nat)
      /\ cv \in Seq(Nat) /\ qv \in Seq(Nat)
  BY <1>3, <1>4, <1>5 DEF Slices
<1>7. x \in Nat /\ t \in Nat /\ x + 2 <= Len(old) /\ x + 2 <= Len(was)
  BY <1>1, <1>5 DEF Movable
<1>8. PICK values : values = Cut(old, x, Min({x + 3, Len(old)}))
  OBVIOUS
<1>9. PICK grades : grades = Cut(cg, x, Min({x + 3, Len(values)}))
  OBVIOUS
<1>10. PICK toV, toG : toV = Insert(cv, t, <<old[x + 1], old[x + 2]>>)
                    /\ toG = Insert(qv, t, <<was[x + 1], was[x + 2]>>)
  OBVIOUS
<1>11. /\ Moved(line, idx, to).values = [line.values EXCEPT ![Consumer] = values, ![Producer] = toV]
       /\ Moved(line, idx, to).grades = [copy.grades EXCEPT ![Consumer] = grades, ![Producer] = toG]
  <2>1. /\ Cut(copy.values[Consumer], idx * 3, Min({idx * 3 + 3, Len(copy.values[Consumer])})) = values
        /\ copy.values[Consumer] = old
    BY <1>1, <1>3, <1>5, <1>8
  <2>2. Cut(copy.grades[Consumer], idx * 3, Min({idx * 3 + 3, Len(values)})) = grades
    BY <1>1, <1>5, <1>9
  <2>3. /\ Insert(line.values[Producer], to * 2,
                  <<line.values[Consumer][idx * 3 + 1], line.values[Consumer][idx * 3 + 2]>>) = toV
        /\ Insert(copy.grades[Producer], to * 2,
                  <<line.grades[Consumer][idx * 3 + 1], line.grades[Consumer][idx * 3 + 2]>>) = toG
    BY <1>1, <1>5, <1>10
  <2> QED
    BY <1>2, <1>3, <1>4, <2>1, <2>2, <2>3 DEF Moved, Slices
<1>12. PICK out : out = Moved(line, idx, to)
  OBVIOUS
<1>13. /\ out.values[Consumer] = values /\ out.grades[Consumer] = grades
       /\ out.values[Producer] = toV /\ out.grades[Producer] = toG
  BY <1>3, <1>4, <1>11, <1>12 DEF Slices
<1>14. PICK w \in {2, 3} :
         /\ w = 2 => Len(old) = x + 2
         /\ Len(values) = Len(old) - w
         /\ \A i \in Nat : ValueAt(values, i) = ValueAt(old, IF i < x THEN i ELSE i + w)
  <2>1. old \in Seq(Nat) /\ x \in Nat /\ x + 2 <= Len(old)
    BY <1>6, <1>7
  <2> QED
    BY <1>8, <2>1, CutOutValues, ZenonT(40)
<1>15. Whole(line, Consumer) => \E u \in {0, 3} :
         /\ u = 0 => Len(old) = x + 3
         /\ \A i \in Nat : ValueAt(grades, i) = ValueAt(cg, IF i < x THEN i ELSE i + u)
  <2> SUFFICES ASSUME Whole(line, Consumer)
               PROVE  \E u \in {0, 3} :
                        /\ u = 0 => Len(old) = x + 3
                        /\ \A i \in Nat : ValueAt(grades, i) = ValueAt(cg, IF i < x THEN i ELSE i + u)
    OBVIOUS
  <2>1. PICK n : n \in Nat /\ n = Len(old) /\ n = Len(cg)
    <3>1. Len(old) \in Nat
      BY <1>6
    <3> QED
      BY <1>3, <1>4, <1>5, <3>1
  <2>2. n % 3 = 0 /\ x + 2 <= n
    BY <1>5, <1>7, <2>1 DEF Whole, Codes
  <2>3. x + 3 <= n /\ (n # x + 3 => x + 6 <= n)
    <3>1. x = idx * 3
      BY <1>1
    <3> QED
      BY <2>1, <2>2, <3>1
  <2>4. Len(values) = n - 3
    <3>1. w = 2 => n = x + 2
      BY <1>14, <2>1
    <3>2. x \in Nat
      BY <1>7
    <3>3. w = 3
      BY <2>1, <2>3, <3>1, <3>2
    <3> QED
      BY <1>14, <2>1, <3>3
  <2>5. PICK m : m = Len(values)
    OBVIOUS
  <2>6. m \in Nat /\ Len(cg) = m + 3 /\ (x = m \/ x + 3 <= m) /\ x \in Nat
    BY <1>7, <2>1, <2>3, <2>4, <2>5
  <2>7. cg \in Seq(Nat)
    BY <1>6
  <2>8. PICK u \in {0, 3} :
          /\ u = 0 => m = x
          /\ \A i \in Nat : ValueAt(Cut(cg, x, Min({x + 3, m})), i) =
                              ValueAt(cg, IF i < x THEN i ELSE i + u)
    BY <2>6, <2>7, CutOutGrades, ZenonT(40)
  <2>9. u = 0 => Len(old) = x + 3
    BY <2>1, <2>4, <2>5, <2>6, <2>8
  <2> QED
    BY <1>9, <2>5, <2>8, <2>9
<1>16. ASSUME NEW i \in Nat
       PROVE  /\ ValueAt(toV, i) = IF t <= i /\ i < t + 2 THEN ValueAt(old, x + (i - t))
                                   ELSE ValueAt(cv, i)
              /\ ValueAt(toG, i) = IF t <= i /\ i < t + 2 THEN ValueAt(was, x + (i - t))
                                   ELSE ValueAt(qv, i)
  <2>1. old \in Seq(Nat) /\ cv \in Seq(Nat) /\ x \in Nat /\ t \in Nat /\ x + 2 <= Len(old)
    BY <1>6, <1>7
  <2>2. ValueAt(Insert(cv, t, <<old[x + 1], old[x + 2]>>), i) =
          IF t <= i /\ i < t + 2 THEN ValueAt(old, x + (i - t)) ELSE ValueAt(cv, i)
    BY <2>1, PairInserted, SMTT(30)
  <2>3. was \in Seq(Nat) /\ qv \in Seq(Nat) /\ x \in Nat /\ t \in Nat /\ x + 2 <= Len(was)
    BY <1>6, <1>7
  <2>4. ValueAt(Insert(qv, t, <<was[x + 1], was[x + 2]>>), i) =
          IF t <= i /\ i < t + 2 THEN ValueAt(was, x + (i - t)) ELSE ValueAt(qv, i)
    BY <2>3, PairInserted, SMTT(30)
  <2> QED
    BY <1>10, <2>2, <2>4
<1>17. \E u \in {2, 3} :
         /\ u = 2 => Len(old) = x + 2
         /\ \A i \in Nat : ValueAt(values, i) = ValueAt(old, IF i < x THEN i ELSE i + u)
  BY <1>14
<1> QED
  BY <1>1, <1>2, <1>5, <1>12, <1>13, <1>15, <1>16, <1>17, ZenonT(40)

(* The record after a move: the meter has the next column of producers, and*)
(* the consumers behind it move up.                                        *)
Renumbered(mt, m, to, mt2) ==
  /\ DOMAIN mt2 = DOMAIN mt
  /\ mt2[m].dir = Producer /\ mt2[m].idx = to
  /\ \A n \in DOMAIN mt : n # m =>
       /\ mt2[n].dir = mt[n].dir
       /\ mt2[n].idx = IF mt[n].dir = Consumer /\ mt[m].idx < mt[n].idx
                       THEN mt[n].idx - 1 ELSE mt[n].idx
  /\ mt[m].idx > 0 =>
       \E n \in DOMAIN mt : mt[n].dir = Consumer /\ mt[n].idx = mt[m].idx - 1

(* A line that moveToProducer has changed holds what the record will say:  *)
(* the first two values are in the new column and what was behind moves    *)
(* up.                                                                     *)
LEMMA MovedStores ==
  ASSUME NEW line \in Line, NEW mt, mt \in [DOMAIN mt -> Entry], Apart(mt), NEW h, NEW R,
         Stored(line, mt, h, R),
         \A n \in DOMAIN mt : R[n] \in Received /\ h[n] \in Holding,
         NEW m \in DOMAIN mt, mt[m].dir = Consumer, Movable(line, mt[m].idx),
         NEW to \in Nat, \A n \in DOMAIN mt : mt[n].dir = Producer => mt[n].idx < to,
         NEW mt2, Renumbered(mt, m, to, mt2),
         NEW h2,
         \A n \in DOMAIN mt :
           /\ h2[n].codes = IF n = m /\ h[n].codes > 2 THEN 2 ELSE h[n].codes
           /\ h2[n].graded \in BOOLEAN
           /\ h2[n].graded => h[n].graded /\ Whole(line, Consumer)
  PROVE  Stored(Moved(line, mt[m].idx, to), mt2, h2, R)
<1>1. PICK x : x = mt[m].idx
  OBVIOUS
<1>2. x \in Nat
  BY <1>1 DEF Entry
<1>3. PICK out : out = Moved(line, x, to)
  OBVIOUS
<1>4. PICK copy : copy = Copied(line)
  OBVIOUS
<1>5. copy.values = line.values /\ Stored(copy, mt, h, R)
  BY <1>4, CopiedIsLine, CopyStores
<1>6. Consumer \in Directions /\ Producer \in Directions /\ Consumer # Producer
      /\ Codes(Consumer) = 3 /\ Codes(Producer) = 2 /\ Directions = {Consumer, Producer}
  BY DEF Directions, Consumer, Producer, Codes
<1>7. PICK V : V = line.values[Consumer]
  OBVIOUS
<1>8. Len(V) \in Nat
  BY <1>6, <1>7 DEF Line, Slices
<1>9. Movable(line, x)
  BY <1>1
<1>10. PICK w \in {2, 3} :
         /\ w = 2 => Len(V) = x * 3 + 2
         /\ \A i \in Nat : ValueAt(out.values[Consumer], i) =
                             ValueAt(V, IF i < x * 3 THEN i ELSE i + w)
  BY <1>2, <1>3, <1>7, <1>9, MovedAt
<1>11. Whole(line, Consumer) => \E u \in {0, 3} :
         /\ u = 0 => Len(V) = x * 3 + 3
         /\ \A i \in Nat : ValueAt(out.grades[Consumer], i) =
                             ValueAt(copy.grades[Consumer], IF i < x * 3 THEN i ELSE i + u)
  BY <1>2, <1>3, <1>4, <1>7, <1>9, MovedAt
<1>12. ASSUME NEW i \in Nat
       PROVE  /\ ValueAt(out.values[Producer], i) =
                   IF to * 2 <= i /\ i < to * 2 + 2 THEN ValueAt(V, x * 3 + (i - to * 2))
                   ELSE ValueAt(line.values[Producer], i)
              /\ ValueAt(out.grades[Producer], i) =
                   IF to * 2 <= i /\ i < to * 2 + 2
                   THEN ValueAt(line.grades[Consumer], x * 3 + (i - to * 2))
                   ELSE ValueAt(copy.grades[Producer], i)
  BY <1>2, <1>3, <1>4, <1>7, <1>9, MovedAt
<1>13. \A i \in Nat : ValueAt(V, i) # 0 => i < Len(V)
  BY NothingBeyond
<1>14. ASSUME NEW n \in DOMAIN mt, n # m, mt[n].dir = Consumer
       PROVE  InColumn(out, mt2[n], h2[n], R[n])
  <2>1. PICK e, f : e = mt[n] /\ f = mt2[n]
    OBVIOUS
  <2>2. /\ e \in Entry /\ e.dir = Consumer /\ f.dir = e.dir
        /\ InColumn(copy, e, h[n], R[n]) /\ R[n] \in Received
        /\ h2[n].codes = h[n].codes /\ h2[n].graded \in BOOLEAN
        /\ h2[n].graded => h[n].graded
    BY <1>5, <1>14, <2>1 DEF Stored, Renumbered
  <2>3. PICK y : y = e.idx
    OBVIOUS
  <2>4. y \in Nat /\ y # x /\ f.idx = IF x < y THEN y - 1 ELSE y
    BY <1>1, <1>14, <2>1, <2>2, <2>3 DEF Entry, Apart, Renumbered
  <2>5. ASSUME NEW k \in 1 .. Codes(e.dir)
        PROVE  LET was  == ValueAt(copy.values[e.dir], Position(e, k))
                   will == ValueAt(out.values[e.dir], Position(f, k))
               IN  /\ will = was
                   /\ h2[n].graded /\ was # 0 =>
                        ValueAt(out.grades[e.dir], Position(f, k)) =
                          ValueAt(copy.grades[e.dir], Position(e, k))
    <3>1. k \in 1 .. 3 /\ Position(e, k) = y * 3 + (k - 1) /\ Position(f, k) = f.idx * 3 + (k - 1)
      BY <1>6, <2>2, <2>3 DEF Position
    <3>2. PICK p, q : p = Position(e, k) /\ q = Position(f, k)
      OBVIOUS
    <3>3. CASE y < x
      <4>1. p = q /\ q \in Nat /\ q < x * 3
        BY <1>2, <2>4, <3>1, <3>2, <3>3
      <4>2. ValueAt(out.values[Consumer], q) = ValueAt(V, q)
        BY <1>10, <4>1
      <4>3. Whole(line, Consumer) =>
              ValueAt(out.grades[Consumer], q) = ValueAt(copy.grades[Consumer], q)
        BY <1>11, <4>1
      <4>4. h2[n].graded => Whole(line, Consumer)
        OBVIOUS
      <4> QED
        BY <1>5, <1>7, <2>2, <3>2, <4>1, <4>2, <4>3, <4>4
    <3>4. CASE x < y
      <4>1. /\ p = q + 3 /\ q \in Nat /\ p \in Nat /\ ~(q < x * 3) /\ x * 3 <= q
            /\ q + 2 \in Nat
        BY <1>2, <2>4, <3>1, <3>2, <3>4
      <4>2. ValueAt(out.values[Consumer], q) = ValueAt(V, p)
        <5>1. CASE w = 3
          BY <1>10, <4>1, <5>1
        <5>2. CASE w = 2
          <6>1. ValueAt(out.values[Consumer], q) = ValueAt(V, q + 2)
            BY <1>10, <4>1, <5>2
          <6>2. ~(q + 2 < Len(V)) /\ ~(p < Len(V))
            BY <1>2, <1>8, <1>10, <4>1, <5>2, SMTT(30)
          <6> QED
            BY <1>13, <4>1, <6>1, <6>2
        <5> QED
          BY <1>10, <5>1, <5>2
      <4>3. Whole(line, Consumer) /\ ValueAt(V, p) # 0 =>
              ValueAt(out.grades[Consumer], q) = ValueAt(copy.grades[Consumer], p)
        <5> SUFFICES ASSUME Whole(line, Consumer), ValueAt(V, p) # 0
                     PROVE  ValueAt(out.grades[Consumer], q) = ValueAt(copy.grades[Consumer], p)
          OBVIOUS
        <5>1. PICK u \in {0, 3} :
                /\ u = 0 => Len(V) = x * 3 + 3
                /\ \A i \in Nat : ValueAt(out.grades[Consumer], i) =
                     ValueAt(copy.grades[Consumer], IF i < x * 3 THEN i ELSE i + u)
          BY <1>11
        <5>2. p < Len(V)
          BY <1>13, <4>1
        <5>3. u = 3
          BY <1>2, <1>8, <4>1, <5>1, <5>2
        <5> QED
          BY <4>1, <5>1, <5>3
      <4>4. h2[n].graded => Whole(line, Consumer)
        OBVIOUS
      <4> QED
        BY <1>5, <1>7, <2>2, <3>2, <4>2, <4>3, <4>4
    <3> QED
      BY <1>2, <2>4, <3>3, <3>4
  <2> QED
    BY <2>1, <2>2, <2>5, SameColumn
<1>15. ASSUME NEW n \in DOMAIN mt, n # m, mt[n].dir = Producer
       PROVE  InColumn(out, mt2[n], h2[n], R[n])
  <2>1. PICK e, f : e = mt[n] /\ f = mt2[n]
    OBVIOUS
  <2>2. /\ e \in Entry /\ e.dir = Producer /\ f.dir = e.dir /\ f.idx = e.idx
        /\ InColumn(copy, e, h[n], R[n]) /\ R[n] \in Received
        /\ h2[n].codes = h[n].codes /\ h2[n].graded \in BOOLEAN
        /\ h2[n].graded => h[n].graded
    BY <1>5, <1>6, <1>15, <2>1 DEF Stored, Renumbered
  <2>3. PICK y : y = e.idx
    OBVIOUS
  <2>4. y \in Nat /\ y < to
    BY <1>15, <2>1, <2>2, <2>3 DEF Entry
  <2>5. ASSUME NEW k \in 1 .. Codes(e.dir)
        PROVE  /\ ValueAt(out.values[e.dir], Position(f, k)) = ValueAt(copy.values[e.dir], Position(e, k))
               /\ ValueAt(out.grades[e.dir], Position(f, k)) = ValueAt(copy.grades[e.dir], Position(e, k))
    <3>1. k \in 1 .. 2 /\ Position(e, k) = y * 2 + (k - 1) /\ Position(f, k) = Position(e, k)
      BY <1>6, <2>2, <2>3 DEF Position
    <3>2. PICK p : p = Position(e, k)
      OBVIOUS
    <3>3. p \in Nat /\ ~(to * 2 <= p /\ p < to * 2 + 2)
      BY <2>4, <3>1, <3>2
    <3> QED
      BY <1>5, <1>12, <2>2, <3>1, <3>2, <3>3
  <2> QED
    BY <2>1, <2>2, <2>5, SameColumn
<1>16. InColumn(out, mt2[m], h2[m], R[m])
  <2>1. PICK e, f : e = mt[m] /\ f = mt2[m]
    OBVIOUS
  <2>2. /\ f.dir = Producer /\ f.idx = to /\ e.dir = Consumer /\ e.idx = x
        /\ InColumn(line, e, h[m], R[m])
        /\ h2[m].codes = (IF h[m].codes > 2 THEN 2 ELSE h[m].codes) /\ h[m].codes \in 0 .. 3
        /\ h2[m].graded => h[m].graded
    BY <1>1, <2>1 DEF Stored, Renumbered, Holding
  <2>3. ASSUME NEW k \in 1 .. 2
        PROVE  /\ ValueAt(out.values[Producer], Position(f, k)) = ValueAt(V, Position(e, k))
               /\ ValueAt(out.grades[Producer], Position(f, k)) = ValueAt(line.grades[Consumer], Position(e, k))
    <3>1. Position(e, k) = x * 3 + (k - 1) /\ Position(f, k) = to * 2 + (k - 1)
      BY <1>6, <2>2 DEF Position
    <3>2. PICK q : q = to * 2 + (k - 1)
      OBVIOUS
    <3>3. q \in Nat /\ to * 2 <= q /\ q < to * 2 + 2 /\ q - to * 2 = k - 1
      BY <3>2
    <3> QED
      BY <1>12, <3>1, <3>2, <3>3
  <2>4. ASSUME NEW k \in 1 .. 2
        PROVE  /\ ValueAt(out.values[Producer], Position(f, k)) = IF k <= h2[m].codes THEN R[m][k] ELSE 0
               /\ h2[m].graded /\ k <= h2[m].codes =>
                    ValueAt(out.grades[Producer], Position(f, k)) = R[m][k]
    <3>1. k \in 1 .. Codes(e.dir) /\ (k <= h2[m].codes <=> k <= h[m].codes)
      BY <1>6, <2>2
    <3>2. /\ ValueAt(V, Position(e, k)) = IF k <= h[m].codes THEN R[m][k] ELSE 0
          /\ h[m].graded /\ k <= h[m].codes =>
               ValueAt(line.grades[Consumer], Position(e, k)) = R[m][k]
      BY <1>7, <2>2, <3>1 DEF InColumn
    <3> QED
      BY <2>2, <2>3, <3>1, <3>2
  <2>5. h2[m].codes <= 2
    BY <2>2
  <2> QED
    BY <1>6, <2>1, <2>2, <2>4, <2>5 DEF InColumn
<1>17. NobodysEmpty(out, mt2)
  <2>1. ASSUME NEW i \in Nat, Behind(mt2, Consumer, i) PROVE ValueAt(out.values[Consumer], i) = 0
    <3>1. ~(i < x * 3)
      <4> SUFFICES ASSUME x > 0 PROVE x * 3 <= i
        BY <1>2
      <4>1. PICK n \in DOMAIN mt : mt[n].dir = Consumer /\ mt[n].idx = x - 1
        BY <1>1 DEF Renumbered
      <4>2. mt2[n].dir = Consumer /\ mt2[n].idx = x - 1 /\ n \in DOMAIN mt2
        BY <1>1, <1>2, <4>1 DEF Renumbered
      <4>3. ((x - 1) + 1) * 3 <= i
        BY <1>6, <2>1, <4>2 DEF Behind
      <4> QED
        BY <1>2, <4>3
    <3>2. ValueAt(out.values[Consumer], i) = ValueAt(V, i + w)
      BY <1>10, <3>1
    <3>3. CASE w = 2
      <4>1. ~(i + w < Len(V)) /\ i + w \in Nat
        BY <1>2, <1>8, <1>10, <3>1, <3>3
      <4> QED
        BY <1>13, <3>2, <4>1
    <3>4. CASE w = 3
      <4>1. ASSUME NEW n \in DOMAIN mt, mt[n].dir = Consumer
            PROVE  (mt[n].idx + 1) * 3 <= i + 3
        <5>1. PICK y : y = mt[n].idx
          OBVIOUS
        <5>2. y \in Nat
          BY <5>1 DEF Entry
        <5>3. CASE y <= x
          BY <1>2, <3>1, <5>1, <5>2, <5>3
        <5>4. CASE x < y
          <6>1. n \in DOMAIN mt2 /\ mt2[n].dir = Consumer /\ mt2[n].idx = y - 1
            BY <1>1, <1>2, <4>1, <5>1, <5>2, <5>4 DEF Renumbered
          <6>2. ((y - 1) + 1) * 3 <= i
            BY <1>6, <2>1, <6>1 DEF Behind
          <6> QED
            BY <5>1, <5>2, <6>2
        <5> QED
          BY <1>2, <5>2, <5>3, <5>4
      <4>2. Behind(mt, Consumer, i + 3)
        BY <1>6, <4>1 DEF Behind
      <4>3. ValueAt(line.values[Consumer], i + 3) = 0
        <5>1. i + 3 \in Nat
          OBVIOUS
        <5> QED
          BY <1>6, <4>2, <5>1 DEF Stored, NobodysEmpty
      <4> QED
        BY <1>7, <3>2, <3>4, <4>3
    <3> QED
      BY <3>3, <3>4
  <2>2. ASSUME NEW i \in Nat, Behind(mt2, Producer, i) PROVE ValueAt(out.values[Producer], i) = 0
    <3>1. (to + 1) * 2 <= i
      <4>1. m \in DOMAIN mt2 /\ mt2[m].dir = Producer /\ mt2[m].idx = to
        BY DEF Renumbered
      <4> QED
        BY <1>6, <2>2, <4>1 DEF Behind
    <3>2. Behind(mt, Producer, i)
      <4> SUFFICES ASSUME NEW n \in DOMAIN mt, mt[n].dir = Producer
                   PROVE  (mt[n].idx + 1) * 2 <= i
        BY <1>6 DEF Behind
      <4>1. n # m
        BY <1>6
      <4>2. n \in DOMAIN mt2 /\ mt2[n].dir = Producer /\ mt2[n].idx = mt[n].idx
        BY <1>6, <4>1 DEF Renumbered
      <4> QED
        BY <1>6, <2>2, <4>2 DEF Behind
    <3>3. ValueAt(line.values[Producer], i) = 0
      BY <1>6, <3>2 DEF Stored, NobodysEmpty
    <3>4. ~(i < to * 2 + 2)
      BY <3>1
    <3> QED
      BY <1>12, <3>3, <3>4
  <2> QED
    BY <1>6, <2>1, <2>2 DEF NobodysEmpty
<1>18. ASSUME NEW n \in DOMAIN mt2 PROVE InColumn(out, mt2[n], h2[n], R[n])
  <2>1. n \in DOMAIN mt /\ (mt[n].dir = Consumer \/ mt[n].dir = Producer)
    BY <1>6 DEF Renumbered, Entry
  <2> QED
    BY <1>14, <1>15, <1>16, <2>1
<1> QED
  BY <1>1, <1>3, <1>17, <1>18 DEF Stored

(* A line outside of the period of the meter ends before its column, so    *)
(* that nothing of it need be moved.                                       *)
LEMMA KeptStores ==
  ASSUME NEW line \in Line, NEW mt, mt \in [DOMAIN mt -> Entry], Apart(mt), NEW h, NEW R,
         Stored(line, mt, h, R),
         \A n \in DOMAIN mt : R[n] \in Received /\ h[n] \in Holding,
         NEW m \in DOMAIN mt, mt[m].dir = Consumer,
         Len(line.values[Consumer]) <= 3 * mt[m].idx,
         NEW to \in Nat, \A n \in DOMAIN mt : mt[n].dir = Producer => mt[n].idx < to,
         NEW mt2, Renumbered(mt, m, to, mt2),
         NEW h2,
         \A n \in DOMAIN mt :
           /\ h2[n].codes = IF n = m /\ h[n].codes > 2 THEN 2 ELSE h[n].codes
           /\ h2[n].graded \in BOOLEAN
           /\ h2[n].graded => h[n].graded
  PROVE  Stored(line, mt2, h2, R)
<1>1. PICK x : x = mt[m].idx
  OBVIOUS
<1>2. x \in Nat
  BY <1>1 DEF Entry
<1>6. Consumer \in Directions /\ Producer \in Directions /\ Consumer # Producer
      /\ Codes(Consumer) = 3 /\ Codes(Producer) = 2 /\ Directions = {Consumer, Producer}
  BY DEF Directions, Consumer, Producer, Codes
<1>7. PICK V : V = line.values[Consumer]
  OBVIOUS
<1>8. Len(V) \in Nat /\ Len(V) <= x * 3
  <2>1. Len(V) \in Nat
    BY <1>6, <1>7 DEF Line, Slices
  <2> QED
    BY <1>1, <1>2, <1>7, <2>1
<1>9. \A i \in Nat : x * 3 <= i => ValueAt(V, i) = 0
  BY <1>2, <1>8, NothingBeyond
<1>10. ASSUME NEW n \in DOMAIN mt, n # m PROVE InColumn(line, mt2[n], h2[n], R[n])
  <2>1. PICK e, f : e = mt[n] /\ f = mt2[n]
    OBVIOUS
  <2>2. /\ e \in Entry /\ f.dir = e.dir
        /\ InColumn(line, e, h[n], R[n]) /\ R[n] \in Received
        /\ h2[n].codes = h[n].codes /\ h2[n].graded \in BOOLEAN
        /\ h2[n].graded => h[n].graded
    BY <1>10, <2>1 DEF Stored, Renumbered
  <2>3. PICK y : y = e.idx
    OBVIOUS
  <2>4. /\ y \in Nat /\ (e.dir = Consumer => y # x)
        /\ f.idx = IF e.dir = Consumer /\ x < y THEN y - 1 ELSE y
    BY <1>1, <1>10, <2>1, <2>2, <2>3 DEF Entry, Apart, Renumbered
  <2>5. ASSUME NEW k \in 1 .. Codes(e.dir)
        PROVE  LET was  == ValueAt(line.values[e.dir], Position(e, k))
                   will == ValueAt(line.values[e.dir], Position(f, k))
               IN  /\ will = was
                   /\ h2[n].graded /\ was # 0 =>
                        ValueAt(line.grades[e.dir], Position(f, k)) =
                          ValueAt(line.grades[e.dir], Position(e, k))
    <3>1. CASE e.dir = Consumer /\ x < y
      <4>1. k \in 1 .. 3 /\ Position(e, k) = y * 3 + (k - 1) /\ Position(f, k) = (y - 1) * 3 + (k - 1)
        BY <1>6, <2>2, <2>3, <2>4, <3>1 DEF Position
      <4>2. PICK p, q : p = Position(e, k) /\ q = Position(f, k)
        OBVIOUS
      <4>3. p \in Nat /\ q \in Nat /\ x * 3 <= p /\ x * 3 <= q
        BY <1>2, <2>4, <3>1, <4>1, <4>2
      <4> QED
        BY <1>7, <1>9, <3>1, <4>2, <4>3
    <3>2. CASE ~(e.dir = Consumer /\ x < y)
      <4>1. Position(e, k) = Position(f, k)
        BY <2>2, <2>3, <2>4, <3>2 DEF Position
      <4> QED
        BY <4>1
    <3> QED
      BY <3>1, <3>2
  <2> QED
    BY <2>1, <2>2, <2>5, SameColumn
<1>11. h[m].codes = 0 /\ h[m].codes \in Nat
  <2>1. PICK e : e = mt[m]
    OBVIOUS
  <2>2. /\ e.dir = Consumer /\ e.idx = x /\ InColumn(line, e, h[m], R[m])
        /\ R[m] \in Received /\ h[m].codes \in 0 .. 3
    BY <1>1, <2>1 DEF Stored, Holding
  <2>3. Position(e, 1) = x * 3 /\ 1 \in 1 .. Codes(e.dir)
    BY <1>2, <1>6, <2>2 DEF Position
  <2>4. ValueAt(V, x * 3) = 0
    BY <1>2, <1>9
  <2>5. ValueAt(V, x * 3) = IF 1 <= h[m].codes THEN R[m][1] ELSE 0
    BY <1>7, <2>2, <2>3 DEF InColumn
  <2>6. R[m][1] # 0
    BY <2>2 DEF Received
  <2> QED
    BY <2>2, <2>4, <2>5, <2>6
<1>12. InColumn(line, mt2[m], h2[m], R[m])
  <2>1. PICK f : f = mt2[m]
    OBVIOUS
  <2>2. f.dir = Producer /\ f.idx = to /\ h2[m].codes = 0
    BY <1>11, <2>1 DEF Renumbered
  <2>3. Behind(mt, Producer, to * 2)
    <3> SUFFICES ASSUME NEW n \in DOMAIN mt, mt[n].dir = Producer
                 PROVE  (mt[n].idx + 1) * 2 <= to * 2
      BY <1>6 DEF Behind
    <3>1. mt[n].idx \in Nat /\ mt[n].idx < to
      BY DEF Entry
    <3> QED
      BY <3>1
  <2>4. ASSUME NEW k \in 1 .. 2 PROVE ValueAt(line.values[Producer], Position(f, k)) = 0
    <3>1. PICK p : p = Position(f, k)
      OBVIOUS
    <3>2. p = to * 2 + (k - 1)
      BY <1>6, <2>2, <3>1 DEF Position
    <3>3. p \in Nat /\ to * 2 <= p
      BY <3>2
    <3>4. Behind(mt, Producer, p)
      <4> SUFFICES ASSUME NEW n \in DOMAIN mt, mt[n].dir = Producer
                   PROVE  (mt[n].idx + 1) * 2 <= p
        BY <1>6 DEF Behind
      <4>1. (mt[n].idx + 1) * 2 <= to * 2 /\ mt[n].idx \in Nat
        BY <1>6, <2>3 DEF Behind, Entry
      <4> QED
        BY <3>3, <4>1
    <3> QED
      BY <1>6, <3>1, <3>3, <3>4 DEF Stored, NobodysEmpty
  <2>5. \A k \in 1 .. 2 : ~(k <= 0)
    OBVIOUS
  <2> QED
    BY <1>6, <2>1, <2>2, <2>4, <2>5 DEF InColumn
<1>13. NobodysEmpty(line, mt2)
  <2>1. ASSUME NEW i \in Nat, Behind(mt2, Consumer, i) PROVE ValueAt(V, i) = 0
    <3>1. ~(i < x * 3)
      <4> SUFFICES ASSUME x > 0 PROVE x * 3 <= i
        BY <1>2
      <4>1. PICK n \in DOMAIN mt : mt[n].dir = Consumer /\ mt[n].idx = x - 1
        BY <1>1 DEF Renumbered
      <4>2. mt2[n].dir = Consumer /\ mt2[n].idx = x - 1 /\ n \in DOMAIN mt2
        BY <1>1, <1>2, <4>1 DEF Renumbered
      <4>3. ((x - 1) + 1) * 3 <= i
        BY <1>6, <2>1, <4>2 DEF Behind
      <4> QED
        BY <1>2, <4>3
    <3> QED
      BY <1>2, <1>9, <3>1
  <2>2. ASSUME NEW i \in Nat, Behind(mt2, Producer, i) PROVE ValueAt(line.values[Producer], i) = 0
    <3>1. Behind(mt, Producer, i)
      <4> SUFFICES ASSUME NEW n \in DOMAIN mt, mt[n].dir = Producer
                   PROVE  (mt[n].idx + 1) * 2 <= i
        BY <1>6 DEF Behind
      <4>1. n # m
        BY <1>6
      <4>2. n \in DOMAIN mt2 /\ mt2[n].dir = Producer /\ mt2[n].idx = mt[n].idx
        BY <1>6, <4>1 DEF Renumbered
      <4> QED
        BY <1>6, <2>2, <4>2 DEF Behind
    <3> QED
      BY <1>6, <3>1 DEF Stored, NobodysEmpty
  <2> QED
    BY <1>6, <1>7, <2>1, <2>2 DEF NobodysEmpty
<1>14. DOMAIN mt2 = DOMAIN mt
  BY DEF Renumbered
<1> QED
  BY <1>10, <1>12, <1>13, <1>14 DEF Stored

(* How many of the first numbers are before one when one of them is left   *)
(* out.                                                                    *)
LEMMA Rank ==
  ASSUME NEW S \in SUBSET Nat, NEW x \in Nat, NEW y \in Nat, 0 \in S, x \notin S,
         \A i \in 0 .. y - 1 : i \in S \/ i = x
  PROVE  Min(S) + Cardinality({i \in S : i < y}) = IF x < y THEN y - 1 ELSE y
<1>1. Min(S) = 0
  <2>0. S # {}
    OBVIOUS
  <2>1. Min(S) \in S /\ \A z \in S : Min(S) =< z
    BY <2>0, Smallest, Zenon
  <2>2. Min(S) \in Nat /\ Min(S) =< 0
    BY <2>1
  <2> QED
    BY <2>2
<1>2. PICK T : T = {i \in S : i < y}
  OBVIOUS
<1>3. IsFiniteSet(0 .. y - 1) /\ Cardinality(0 .. y - 1) = y
  <2>1. 0 \in Int /\ y - 1 \in Int
    OBVIOUS
  <2>2. /\ IsFiniteSet(0 .. y - 1)
        /\ Cardinality(0 .. y - 1) = IF 0 > y - 1 THEN 0 ELSE (y - 1) - 0 + 1
    BY <2>1, FS_Interval
  <2> QED
    BY <2>2
<1>4. CASE x < y
  <2>0. x \in 0 .. y - 1 /\ \A i \in S : i \in Nat /\ i # x
    BY <1>4
  <2>3. \A i : i \in T <=> i \in 0 .. y - 1 /\ i # x
    <3>1. \A i \in T : i \in 0 .. y - 1 /\ i # x
      BY <1>2, <2>0
    <3>2. \A i \in 0 .. y - 1 : i < y
      OBVIOUS
    <3>3. \A i \in 0 .. y - 1 : i # x => i \in T
      BY <1>2, <3>2
    <3> QED
      BY <3>1, <3>3
  <2>1. T = (0 .. y - 1) \ {x} /\ x \in 0 .. y - 1
    BY <2>0, <2>3, Zenon
  <2>2. Cardinality(T) = y - 1
    <3>1. PICK U : U = 0 .. y - 1
      OBVIOUS
    <3>2. IsFiniteSet(U) /\ Cardinality(U) = y /\ T = U \ {x} /\ x \in U
      BY <1>3, <2>1, <3>1
    <3>3. Cardinality(U \ {x}) = Cardinality(U) - 1
      BY <3>2, FS_RemoveElement
    <3> QED
      BY <3>2, <3>3
  <2> QED
    BY <1>1, <1>2, <1>4, <2>2
<1>5. CASE ~(x < y)
  <2>3. \A i : i \in T <=> i \in 0 .. y - 1
    <3>1. \A i \in T : i \in 0 .. y - 1
      <4>1. \A i \in T : i \in Nat /\ i < y
        BY <1>2
      <4> QED
        BY <4>1
    <3>2. \A i \in 0 .. y - 1 : i < y /\ i # x
      BY <1>5
    <3>3. \A i \in 0 .. y - 1 : i \in T
      BY <1>2, <3>2
    <3> QED
      BY <3>1, <3>3
  <2>1. T = 0 .. y - 1
    BY <2>3, Zenon
  <2>2. Cardinality(T) = y
    BY <1>3, <2>1
  <2> QED
    BY <1>1, <1>2, <1>5, <2>2
<1> QED
  BY <1>4, <1>5

(* The columns of a direction are numbered from the first one on.          *)
Contiguous(mt) ==
  \A n \in DOMAIN mt, i \in Nat : i < mt[n].idx =>
    \E z \in DOMAIN mt : mt[z].dir = mt[n].dir /\ mt[z].idx = i

(* updateMeta closes the gap that a move leaves.                           *)
LEMMA AfterMove ==
  ASSUME NEW S \in SUBSET Meters, DOMAIN meta = S, meta \in [S -> Entry],
         Apart(meta), Contiguous(meta),
         NEW m \in S, meta[m].dir = Consumer,
         meta[m].idx = 0 => \A n \in S : meta[n].dir = Consumer => n = m,
         NEW to, to = NextIdx(Producer),
         NEW after, after = Reorganized([meta EXCEPT ![m] = Target(m)])
  PROVE  Renumbered(meta, m, to, after) /\ Contiguous(after)
<1>1. Consumer \in Directions /\ Producer \in Directions /\ Consumer # Producer
  BY DEF Directions, Consumer, Producer
<1>2. PICK x : x = meta[m].idx
  OBVIOUS
<1>3. x \in Nat /\ \A n \in S : meta[n].idx \in Nat /\ meta[n].dir \in Directions
  BY <1>2 DEF Entry
<1>4. /\ to \in Nat
      /\ \A n \in S : meta[n].dir = Producer => meta[n].idx < to
      /\ to > 0 => \E n \in S : meta[n].dir = Producer /\ meta[n].idx = to - 1
  BY NextIdxIsNext
<1>5. PICK mt : mt = [meta EXCEPT ![m] = Target(m)]
  OBVIOUS
<1>6. /\ DOMAIN mt = S /\ mt[m].dir = Producer /\ mt[m].idx = to
      /\ \A n \in S : n # m => mt[n] = meta[n]
  <2>1. Target(m).dir = Producer /\ Target(m).idx = to
    <3>1. meta[m] \in Entry /\ Target(m) = [meta[m] EXCEPT !.dir = Producer, !.idx = to]
      BY <1>1 DEF Target
    <3> QED
      BY <3>1 DEF Entry
  <2> QED
    BY <1>5, <2>1
<1>7. mt \in [S -> Entry]
  <2>1. meta[m] \in Entry /\ Target(m) = [meta[m] EXCEPT !.dir = Producer, !.idx = to]
    BY <1>1 DEF Target
  <2>2. Target(m) \in Entry
    BY <1>1, <1>4, <2>1 DEF Entry
  <2> QED
    BY <1>5, <2>2
<1>8. \A n \in S :
        /\ after[n].dir = mt[n].dir
        /\ after[n].idx = Min(IndicesOf(mt, mt[n].dir)) +
                            Cardinality({i \in IndicesOf(mt, mt[n].dir) : i < mt[n].idx})
  <2> DEFINE number(n) == Min(IndicesOf(mt, mt[n].dir)) +
                            Cardinality({i \in IndicesOf(mt, mt[n].dir) : i < mt[n].idx})
  <2>1. after = [n \in S |-> [mt[n] EXCEPT !.idx = number(n)]]
    BY <1>5, <1>6 DEF Reorganized, IndicesOf
  <2> HIDE DEF number
  <2>2. ASSUME NEW n \in S
        PROVE  after[n].dir = mt[n].dir /\ after[n].idx = number(n)
    <3>1. mt[n] \in Entry /\ after[n] = [mt[n] EXCEPT !.idx = number(n)]
      BY <1>7, <2>1
    <3>2. PICK e, i : e = mt[n] /\ i = number(n)
      OBVIOUS
    <3>3. e \in Entry /\ after[n] = [e EXCEPT !.idx = i]
      BY <3>1, <3>2
    <3>4. after[n].dir = e.dir /\ after[n].idx = i
      BY <3>3 DEF Entry
    <3> QED
      BY <3>2, <3>4
  <2> QED
    BY <2>2 DEF number
<1>9. DOMAIN after = S
  BY <1>5, <1>6 DEF Reorganized
<1>10. ASSUME NEW n \in S, mt[n].dir = Producer
       PROVE  after[n].idx = mt[n].idx
  <2>1. PICK T, y : T = IndicesOf(mt, Producer) /\ y = mt[n].idx
    OBVIOUS
  <2>2. T \in SUBSET Nat /\ y \in T /\ y \in Nat
    <3>1. T \in SUBSET Nat
      BY <1>7, <2>1, IndicesFinite
    <3>2. y \in T
      BY <1>6, <1>10, <2>1 DEF IndicesOf
    <3> QED
      BY <3>1, <3>2
  <2>3. \A i \in T : i <= to
    <3> SUFFICES ASSUME NEW z \in S, mt[z].dir = Producer PROVE mt[z].idx <= to
      BY <1>6, <2>1 DEF IndicesOf
    <3>1. CASE z = m
      BY <1>4, <1>6, <3>1
    <3>2. CASE z # m
      <4>1. mt[z] = meta[z]
        BY <1>6, <3>2
      <4> QED
        BY <1>3, <1>4, <4>1
    <3> QED
      BY <3>1, <3>2
  <2>4. ASSUME NEW i \in Nat, i < to PROVE i \in T
    <3>1. PICK z \in S : meta[z].dir = Producer /\ meta[z].idx = to - 1
      BY <1>4, <2>4
    <3>2. i < meta[z].idx \/ i = meta[z].idx
      BY <1>4, <2>4, <3>1
    <3>3. PICK v \in S : meta[v].dir = Producer /\ meta[v].idx = i
      BY <3>1, <3>2 DEF Contiguous
    <3>4. v # m
      BY <1>1, <3>3
    <3> QED
      BY <1>6, <2>1, <3>3, <3>4 DEF IndicesOf
  <2>5. to \in T
    BY <1>6, <2>1 DEF IndicesOf
  <2>6. y <= to
    BY <2>2, <2>3
  <2>7. 0 \in T
    BY <1>4, <2>4, <2>5
  <2>8. to + 1 \in Nat /\ to + 1 \notin T /\ ~(to + 1 < y)
    BY <1>4, <2>2, <2>3, <2>6
  <2>9. \A i \in 0 .. y - 1 : i \in T \/ i = to + 1
    BY <1>4, <2>2, <2>4, <2>6
  <2>10. Min(T) + Cardinality({i \in T : i < y}) = y
    <3>1. PICK u : u = to + 1
      OBVIOUS
    <3>2. u \in Nat /\ u \notin T /\ ~(u < y) /\ \A i \in 0 .. y - 1 : i \in T \/ i = u
      BY <2>8, <2>9, <3>1
    <3>3. Min(T) + Cardinality({i \in T : i < y}) = IF u < y THEN y - 1 ELSE y
      BY <2>2, <2>7, <3>2, Rank
    <3> QED
      BY <3>2, <3>3
  <2> QED
    BY <1>8, <1>10, <2>1, <2>10
<1>11. ASSUME NEW n \in S, n # m, meta[n].dir = Consumer
       PROVE  /\ x > 0 /\ meta[n].idx # x
              /\ after[n].idx = IF x < meta[n].idx THEN meta[n].idx - 1 ELSE meta[n].idx
  <2>1. PICK T, y : T = IndicesOf(mt, Consumer) /\ y = meta[n].idx
    OBVIOUS
  <2>2. mt[n] = meta[n] /\ y \in Nat
    BY <1>3, <1>6, <1>11, <2>1
  <2>3. T \in SUBSET Nat
    BY <1>7, <2>1, IndicesFinite
  <2>4. x > 0 /\ y # x
    BY <1>2, <1>3, <1>11, <2>1 DEF Apart
  <2>5. x \notin T
    <3> SUFFICES ASSUME NEW z \in S, mt[z].dir = Consumer, mt[z].idx = x PROVE FALSE
      BY <1>6, <2>1 DEF IndicesOf
    <3>1. z # m
      BY <1>1, <1>6
    <3>2. meta[z].dir = Consumer /\ meta[z].idx = x
      BY <1>6, <3>1
    <3> QED
      BY <1>2, <3>1, <3>2 DEF Apart
  <2>6. ASSUME NEW i \in Nat, i < y \/ i < x, i # x PROVE i \in T
    <3>1. PICK z \in S : meta[z].dir = Consumer /\ meta[z].idx = i
      BY <1>2, <1>11, <2>1, <2>6 DEF Contiguous
    <3>2. z # m
      BY <1>2, <2>6, <3>1
    <3> QED
      BY <1>6, <2>1, <3>1, <3>2 DEF IndicesOf
  <2>7. 0 \in T
    BY <1>3, <2>4, <2>6
  <2>8. \A i \in 0 .. y - 1 : i \in T \/ i = x
    BY <2>2, <2>6
  <2>9. Min(T) + Cardinality({i \in T : i < y}) = IF x < y THEN y - 1 ELSE y
    BY <1>3, <2>2, <2>3, <2>5, <2>7, <2>8, Rank
  <2>10. after[n].idx = Min(T) + Cardinality({i \in T : i < y})
    BY <1>8, <1>11, <2>1, <2>2
  <2> QED
    BY <2>1, <2>4, <2>9, <2>10
<1>12. \A n \in S : meta[n].dir = Consumer \/ meta[n].dir = Producer
  BY <1>3 DEF Directions
<1>13. Renumbered(meta, m, to, after)
  <2>1. after[m].dir = Producer /\ after[m].idx = to
    BY <1>6, <1>8, <1>10
  <2>2. ASSUME NEW n \in S, n # m
        PROVE  /\ after[n].dir = meta[n].dir
               /\ after[n].idx = IF meta[n].dir = Consumer /\ meta[m].idx < meta[n].idx
                                 THEN meta[n].idx - 1 ELSE meta[n].idx
    <3>1. mt[n] = meta[n] /\ after[n].dir = mt[n].dir
      BY <1>6, <1>8, <2>2
    <3>2. CASE meta[n].dir = Consumer
      BY <1>2, <1>11, <2>2, <3>1, <3>2
    <3>3. CASE meta[n].dir = Producer
      BY <1>1, <1>10, <3>1, <3>3
    <3> QED
      BY <1>12, <3>2, <3>3
  <2>3. meta[m].idx > 0 => \E n \in S : meta[n].dir = Consumer /\ meta[n].idx = meta[m].idx - 1
    <3>1. x > 0 => x - 1 \in Nat /\ x - 1 < x
      BY <1>3
    <3> QED
      BY <1>2, <3>1 DEF Contiguous
  <2> QED
    BY <1>9, <2>1, <2>2, <2>3 DEF Renumbered
<1>14. ASSUME NEW n \in S, NEW i \in Nat, i < after[n].idx
       PROVE  \E z \in S : after[z].dir = after[n].dir /\ after[z].idx = i
  <2>1. CASE n # m /\ meta[n].dir = Consumer
    <3>1. PICK y : y = meta[n].idx
      OBVIOUS
    <3>2. y \in Nat /\ after[n].idx = (IF x < y THEN y - 1 ELSE y) /\ after[n].dir = Consumer
      BY <1>3, <1>6, <1>8, <1>11, <2>1, <3>1
    <3>3. PICK j : j = IF x <= i THEN i + 1 ELSE i
      OBVIOUS
    <3>4. j \in Nat /\ j < y /\ j # x /\ (IF x < j THEN j - 1 ELSE j) = i
      BY <1>14, <1>3, <3>2, <3>3
    <3>5. PICK z \in S : meta[z].dir = Consumer /\ meta[z].idx = j
      BY <2>1, <3>1, <3>4 DEF Contiguous
    <3>6. z # m
      BY <1>2, <3>4, <3>5
    <3>7. after[z].idx = i /\ after[z].dir = Consumer
      BY <1>6, <1>8, <1>11, <3>4, <3>5, <3>6
    <3> QED
      BY <3>2, <3>7
  <2>2. CASE mt[n].dir = Producer
    <3>1. mt[n].idx <= to /\ mt[n].idx \in Nat
      <4>1. CASE n = m
        BY <1>4, <1>6, <4>1
      <4>2. CASE n # m
        <5>1. mt[n] = meta[n]
          BY <1>6, <4>2
        <5> QED
          BY <1>3, <1>4, <2>2, <5>1
      <4> QED
        BY <4>1, <4>2
    <3>2. i < to
      <4>1. after[n].idx = mt[n].idx
        BY <1>10, <2>2
      <4> QED
        BY <1>14, <1>4, <3>1, <4>1
    <3>3. PICK z \in S : meta[z].dir = Producer /\ meta[z].idx = to - 1
      BY <1>4, <3>2
    <3>4. i < meta[z].idx \/ i = meta[z].idx
      BY <1>4, <3>2, <3>3
    <3>5. PICK v \in S : meta[v].dir = Producer /\ meta[v].idx = i
      BY <3>3, <3>4 DEF Contiguous
    <3>6. v # m
      BY <1>1, <3>5
    <3>7. mt[v] = meta[v] /\ mt[v].dir = Producer
      BY <1>6, <3>5, <3>6
    <3>8. after[v].idx = i /\ after[v].dir = Producer /\ after[n].dir = Producer
      BY <1>8, <1>10, <2>2, <3>5, <3>7
    <3> QED
      BY <3>8
  <2>3. n = m \/ mt[n] = meta[n]
    BY <1>6
  <2> QED
    BY <1>6, <1>12, <2>1, <2>2, <2>3
<1>15. Contiguous(after)
  <2> SUFFICES ASSUME NEW n \in DOMAIN after, NEW i \in Nat, i < after[n].idx
               PROVE  \E z \in DOMAIN after : after[z].dir = after[n].dir /\ after[z].idx = i
    BY Zenon DEF Contiguous
  <2>1. n \in S
    BY <1>9
  <2>2. PICK z \in S : after[z].dir = after[n].dir /\ after[z].idx = i
    BY <1>14, <2>1, ZenonT(40)
  <2> QED
    BY <1>9, <2>2
<1> QED
  BY <1>13, <1>15

(* A meter that is new in the record, or has another period there.         *)
LEMMA ExtendedStores ==
  ASSUME NEW line, NEW mt, mt \in [DOMAIN mt -> Entry], NEW h, NEW R, Stored(line, mt, h, R),
         NEW m, NEW e \in Entry, InRecord(mt, m, e), m \notin DOMAIN mt => h[m].codes = 0,
         NEW mt2, WithEntry(mt, m, e, mt2)
  PROVE  Stored(line, mt2, h, R)
<1> USE DEF InRecord, WithEntry
<1>1. ASSUME NEW n \in DOMAIN mt, n # m PROVE InColumn(line, mt2[n], h[n], R[n])
  <2>1. mt2[n] = mt[n] /\ InColumn(line, mt[n], h[n], R[n])
    BY <1>1 DEF Stored
  <2> QED
    BY <2>1
<1>2. InColumn(line, e, h[m], R[m])
  <2>1. CASE m \in DOMAIN mt
    <3>1. PICK f : f = mt[m]
      OBVIOUS
    <3>2. f.dir = e.dir /\ f.idx = e.idx /\ InColumn(line, f, h[m], R[m])
      BY <2>1, <3>1 DEF Stored
    <3> QED
      BY <3>2 DEF InColumn, Position
  <2>2. CASE m \notin DOMAIN mt
    <3>1. PICK d, x : d = e.dir /\ x = e.idx
      OBVIOUS
    <3>2. x \in Nat /\ d \in Directions /\ x * Codes(d) \in Nat
      BY <3>1, ColumnsDisjoint DEF Entry
    <3>3. ASSUME NEW i \in Nat, x * Codes(d) <= i PROVE ValueAt(line.values[d], i) = 0
      <4>1. ASSUME NEW n \in DOMAIN mt, mt[n].dir = d PROVE (mt[n].idx + 1) * Codes(d) <= i
        <5>1. mt[n].idx \in Nat /\ mt[n].idx < x
          BY <2>2, <3>1, <4>1 DEF Entry
        <5>2. (mt[n].idx + 1) * Codes(d) <= x * Codes(d) /\ (mt[n].idx + 1) * Codes(d) \in Nat
          BY <3>2, <5>1, ColumnsDisjoint
        <5>3. PICK a, b : a = (mt[n].idx + 1) * Codes(d) /\ b = x * Codes(d)
          OBVIOUS
        <5>4. a \in Nat /\ b \in Nat /\ a <= b /\ b <= i
          BY <3>2, <3>3, <5>2, <5>3
        <5> QED
          BY <5>3, <5>4
      <4>2. Behind(mt, d, i)
        BY <4>1 DEF Behind
      <4> QED
        BY <3>2, <4>2 DEF Stored, NobodysEmpty
    <3>4. ASSUME NEW k \in 1 .. Codes(d) PROVE ValueAt(line.values[d], Position(e, k)) = 0 /\ ~(k <= 0)
      <4>1. k \in 1 .. Codes(e.dir)
        BY <3>1
      <4>2. Position(e, k) \in Nat /\ k \in 1 .. 3 /\ x * Codes(d) <= Position(e, k)
        BY <3>1, <4>1, Positions
      <4>3. PICK p : p = Position(e, k)
        OBVIOUS
      <4> QED
        BY <3>3, <4>2, <4>3
    <3>5. Codes(d) \in {2, 3} /\ h[m].codes = 0
      BY <2>2 DEF Codes
    <3> QED
      BY <3>1, <3>4, <3>5 DEF InColumn
  <2> QED
    BY <2>1, <2>2
<1>3. \A n \in DOMAIN mt2 : InColumn(line, mt2[n], h[n], R[n])
  BY <1>1, <1>2
<1>4. NobodysEmpty(line, mt2)
  <2> SUFFICES ASSUME NEW d \in Directions, NEW i \in Nat, Behind(mt2, d, i)
               PROVE  ValueAt(line.values[d], i) = 0
    BY DEF NobodysEmpty
  <2>1. Behind(mt, d, i)
    <3> SUFFICES ASSUME NEW n \in DOMAIN mt, mt[n].dir = d
                 PROVE  (mt[n].idx + 1) * Codes(d) <= i
      BY DEF Behind
    <3>1. mt2[n].dir = d /\ mt2[n].idx = mt[n].idx /\ n \in DOMAIN mt2
      OBVIOUS
    <3>2. (mt2[n].idx + 1) * Codes(d) <= i
      BY <3>1 DEF Behind
    <3> QED
      BY <3>1, <3>2
  <2> QED
    BY <2>1 DEF Stored, NobodysEmpty
<1> QED
  BY <1>3, <1>4 DEF Stored

-----------------------------------------------------------------------------
(* What the lines hold while commands run.  Until the record is written,   *)
(* the lines that a move has written, and those it need not write, hold    *)
(* what the record will say.                                               *)

Moving == running # Idle /\ running.command = "move"
Written(r) == Moving /\ r \notin DOMAIN running.todo
Afterwards == Reorganized([meta EXCEPT ![running.meter] = running.target])

HeldAt(r) == [n \in Meters |-> held[n][r]]
ReadAt(r) == [n \in Meters |-> Reading[n][r]]
MovedHeld(r) ==
  [n \in Meters |-> [held[n][r] EXCEPT !.codes =
     IF n = running.meter THEN Min({@, Codes(running.target.dir)}) ELSE @]]

HeldOfKnown ==
  \A m \in Meters, r \in Rows :
    held[m][r].codes > 0 => m \in DOMAIN meta /\ r \in DOMAIN lines

LinesStored ==
  \A r \in DOMAIN lines :
    /\ Written(r) => Stored(lines[r], Afterwards, MovedHeld(r), ReadAt(r))
    /\ ~Written(r) => Stored(lines[r], meta, HeldAt(r), ReadAt(r))

MoveFollows ==
  Moving =>
    LET source == meta[running.meter]
    IN  /\ source.dir = Consumer /\ running.target = Target(running.meter)
        /\ source.idx = 0 =>
             \A n \in DOMAIN meta : meta[n].dir = Consumer => n = running.meter
        /\ \A r \in DOMAIN running.todo :
             /\ Movable(lines[r], source.idx)
             /\ running.todo[r] = Moved(lines[r], source.idx, running.target.idx)

ResetFollows ==
  running # Idle /\ running.command = "reset" =>
    \A r \in DOMAIN running.todo :
      /\ Clearable(lines[r], meta[running.meter])
      /\ running.todo[r] = Cleared(lines[r], meta[running.meter])

GradingFollows ==
  running # Idle /\ running.command = "initQoV" =>
    \A r \in DOMAIN running.todo : running.todo[r].values = lines[r].values

RInv ==
  regular => /\ HeldOfKnown /\ Contiguous(meta) /\ LinesStored
             /\ MoveFollows /\ ResetFollows /\ GradingFollows

(* What is held and received of a meter at a row.                          *)
LEMMA HeldTypes ==
  ASSUME MInv, NEW r \in Rows, NEW n \in Meters
  PROVE  /\ held[n][r] \in Holding /\ HeldAt(r)[n] = held[n][r]
         /\ Reading[n][r] \in Received /\ ReadAt(r)[n] = Reading[n][r]
<1>1. held \in [Meters -> [Rows -> Holding]]
  BY DEF MInv, Records, Holding
<1>2. Reading \in [Meters -> [Rows -> Received]]
  BY MaintenanceAssumption DEF Received
<1> QED
  BY <1>1, <1>2 DEF HeldAt, ReadAt

(* Before the first import.                                                *)
LEMMA InitReads == Init => RInv
BY DEF Init, Nothing, RInv, HeldOfKnown, Contiguous, LinesStored, Written, Moving, MoveFollows,
       ResetFollows, GradingFollows

(* Lines, record and what is held stay, and nothing is being moved.        *)
LEMMA NothingWritten ==
  ASSUME RInv, regular, ~Moving, ~Moving', lines' = lines, meta' = meta, held' = held
  PROVE  HeldOfKnown' /\ Contiguous(meta') /\ LinesStored'
<1>1. HeldOfKnown /\ Contiguous(meta) /\ LinesStored
  BY DEF RInv
<1>2. HeldOfKnown' /\ Contiguous(meta')
  BY <1>1 DEF HeldOfKnown
<1>3. \A r \in DOMAIN lines : Stored(lines[r], meta, HeldAt(r), ReadAt(r))
  BY <1>1 DEF LinesStored, Written
<1>4. \A r : HeldAt(r)' = HeldAt(r) /\ ReadAt(r)' = ReadAt(r) /\ ~Written(r)'
  BY DEF HeldAt, ReadAt, Written
<1> QED
  BY <1>2, <1>3, <1>4 DEF LinesStored

(* The end of a command, or its death, which may not be that of a move.    *)
LEMMA EndReads == MInv /\ RInv /\ (FinishLines \/ Crash) => RInv'
<1> SUFFICES ASSUME MInv, RInv, FinishLines \/ Crash, regular' PROVE RInv'
  BY DEF RInv
<1>1. /\ running' = Idle /\ lines' = lines /\ meta' = meta /\ held' = held
      /\ regular /\ ~Moving
  BY DEF FinishLines, Crash, Moving, MInv, Records
<1>2. ~Moving'
  BY <1>1 DEF Moving
<1>3. HeldOfKnown' /\ Contiguous(meta') /\ LinesStored'
  BY <1>1, <1>2, NothingWritten
<1>4. MoveFollows' /\ ResetFollows' /\ GradingFollows'
  BY <1>1 DEF MoveFollows, ResetFollows, GradingFollows, Moving
<1> QED
  BY <1>3, <1>4 DEF RInv

(* A reset that has read the database.                                     *)
LEMMA ResetReads ==
  ASSUME MInv, RInv, NEW m \in Meters, NEW from \in Rows, NEW until \in Rows, Reset(m, from, until)
  PROVE  RInv'
<1> SUFFICES ASSUME regular' PROVE RInv'
  BY DEF RInv
<1>1. /\ lines' = lines /\ meta' = meta /\ held' = held /\ regular
      /\ running = Idle /\ running'.command = "reset" /\ running'.meter = m
  BY DEF Reset
<1>2. \A r \in DOMAIN running'.todo : /\ Clearable(lines[r], meta[m])
                                      /\ running'.todo[r] = Cleared(lines[r], meta[m])
  <2> DEFINE found == {r \in Within(from, until) : Affected(lines[r], meta[m])}
  <2>1. /\ \A r \in found : Clearable(lines[r], meta[m])
        /\ running'.todo = [r \in found |-> Cleared(lines[r], meta[m])]
    BY DEF Reset
  <2> HIDE DEF found
  <2> QED
    BY <2>1
<1>3. ~Moving /\ ~Moving'
  BY <1>1 DEF Moving
<1>4. HeldOfKnown' /\ Contiguous(meta') /\ LinesStored'
  BY <1>1, <1>3, NothingWritten
<1>5. MoveFollows' /\ ResetFollows' /\ GradingFollows'
  BY <1>1, <1>2 DEF MoveFollows, ResetFollows, GradingFollows, Moving
<1> QED
  BY <1>4, <1>5 DEF RInv

(* initQoV that has read the database.                                     *)
LEMMA InitQoVReads ==
  ASSUME MInv, RInv, NEW from \in Rows, NEW until \in Rows, InitQoV(from, until)
  PROVE  RInv'
<1> SUFFICES ASSUME regular' PROVE RInv'
  BY DEF RInv
<1>1. /\ lines' = lines /\ meta' = meta /\ held' = held /\ regular
      /\ running = Idle /\ running'.command = "initQoV"
  BY DEF InitQoV
<1>2. \A r \in DOMAIN running'.todo : running'.todo[r].values = lines[r].values
  <2> DEFINE graded(line) == [d \in Directions |-> [i \in DOMAIN line.values[d] |-> 1]]
             found == Within(from, until)
  <2>1. running'.todo = [r \in found |-> [lines[r] EXCEPT !.grades = graded(lines[r])]]
    BY DEF InitQoV
  <2>2. \A r \in found : lines[r] \in [values : Slices, grades : Slices]
    BY DEF MInv, Records, Line, Within
  <2> HIDE DEF found, graded
  <2> QED
    BY <2>1, <2>2
<1>3. ~Moving /\ ~Moving'
  BY <1>1 DEF Moving
<1>4. HeldOfKnown' /\ Contiguous(meta') /\ LinesStored'
  BY <1>1, <1>3, NothingWritten
<1>5. MoveFollows' /\ ResetFollows' /\ GradingFollows'
  BY <1>1, <1>2 DEF MoveFollows, ResetFollows, GradingFollows, Moving
<1> QED
  BY <1>4, <1>5 DEF RInv

(* Another period does not move a column.                                  *)
LEMMA SetMetaReads ==
  ASSUME MInv, RInv, NEW m \in Meters, NEW r \in Rows, SetMeta(m, r)
  PROVE  RInv'
<1> SUFFICES ASSUME regular' PROVE RInv'
  BY DEF RInv
<1>1. /\ lines' = lines /\ held' = held /\ regular /\ running = Idle /\ running' = Idle
      /\ m \in DOMAIN meta
      /\ \/ meta' = [meta EXCEPT ![m].from = r]
         \/ meta' = [meta EXCEPT ![m].until = r]
  BY DEF SetMeta
<1>2. meta \in [DOMAIN meta -> Entry] /\ DOMAIN meta \subseteq Meters
  BY DEF MInv, Records
<1>3. /\ DOMAIN meta' = DOMAIN meta /\ \A n \in DOMAIN meta : n # m => meta'[n] = meta[n]
      /\ meta'[m] \in Entry /\ meta'[m].dir = meta[m].dir /\ meta'[m].idx = meta[m].idx
  BY <1>1, <1>2 DEF Entry
<1>4. HeldOfKnown /\ Contiguous(meta) /\ LinesStored
  BY <1>1 DEF RInv
<1>5. HeldOfKnown'
  BY <1>1, <1>3, <1>4 DEF HeldOfKnown
<1>6. Contiguous(meta')
  <2>1. \A n \in DOMAIN meta : meta'[n].dir = meta[n].dir /\ meta'[n].idx = meta[n].idx
    BY <1>3
  <2> QED
    BY <1>3, <1>4, <2>1 DEF Contiguous
<1>7. LinesStored'
  <2> SUFFICES ASSUME NEW x \in DOMAIN lines
               PROVE  Stored(lines[x], meta', HeldAt(x), ReadAt(x))
    <3>1. \A x : HeldAt(x)' = HeldAt(x) /\ ReadAt(x)' = ReadAt(x) /\ ~Written(x)'
      BY <1>1 DEF HeldAt, ReadAt, Written, Moving
    <3> QED
      BY <1>1, <3>1 DEF LinesStored
  <2>1. Stored(lines[x], meta, HeldAt(x), ReadAt(x))
    BY <1>1, <1>4 DEF LinesStored, Written, Moving
  <2>2. PICK line, mt, mt2, h, R : /\ line = lines[x] /\ mt = meta /\ mt2 = meta'
                                   /\ h = HeldAt(x) /\ R = ReadAt(x)
    OBVIOUS
  <2>3. /\ mt \in [DOMAIN mt -> Entry] /\ Stored(line, mt, h, R) /\ m \in DOMAIN mt
        /\ mt2[m] \in Entry /\ WithEntry(mt, m, mt2[m], mt2)
    BY <1>1, <1>2, <1>3, <2>1, <2>2 DEF WithEntry
  <2>4. InRecord(mt, m, mt2[m])
    BY <1>1, <1>2, <1>3, <2>2 DEF InRecord, MInv, ColumnsApart
  <2>5. Stored(line, mt2, h, R)
    BY <2>3, <2>4, ExtendedStores
  <2> QED
    BY <2>2, <2>5
<1>8. MoveFollows' /\ ResetFollows' /\ GradingFollows'
  BY <1>1 DEF MoveFollows, ResetFollows, GradingFollows, Moving
<1> QED
  BY <1>5, <1>6, <1>7, <1>8 DEF RInv

(* When the record is written all lines hold already what it says.         *)
LEMMA FinishMoveReads == MInv /\ RInv /\ FinishMove => RInv'
<1> SUFFICES ASSUME MInv, RInv, FinishMove, regular' PROVE RInv'
  BY DEF RInv
<1> DEFINE m == running.meter
<1>1. /\ Moving /\ DOMAIN running.todo = {} /\ regular /\ lines' = lines /\ running' = Idle
      /\ meta' = Afterwards
      /\ held' = [held EXCEPT ![m] = [r \in Rows |-> [held[m][r] EXCEPT !.codes =
                    Min({held[m][r].codes, Codes(running.target.dir)})]]]
  BY DEF FinishMove, Moving, Afterwards
<1>2. /\ meta \in [DOMAIN meta -> Entry] /\ DOMAIN meta \subseteq Meters /\ Apart(meta)
      /\ held \in [Meters -> [Rows -> Holding]] /\ DOMAIN lines \subseteq Rows
  BY DEF MInv, Records, ColumnsApart, Apart, Holding
<1>3. m \in DOMAIN meta
  BY <1>1 DEF MInv, Prepared, Moving
<1>4. HeldOfKnown /\ Contiguous(meta) /\ LinesStored /\ MoveFollows
  BY <1>1 DEF RInv
<1>5. Renumbered(meta, m, NextIdx(Producer), meta') /\ Contiguous(meta')
  <2>1. /\ meta[m].dir = Consumer /\ running.target = Target(m)
        /\ meta[m].idx = 0 => \A n \in DOMAIN meta : meta[n].dir = Consumer => n = m
    BY <1>1, <1>4 DEF MoveFollows
  <2>2. PICK S, to, after : S = DOMAIN meta /\ to = NextIdx(Producer) /\ after = Afterwards
    OBVIOUS
  <2>3. after = Reorganized([meta EXCEPT ![m] = Target(m)])
    BY <2>1, <2>2 DEF Afterwards
  <2> HIDE DEF m
  <2>4. Renumbered(meta, m, to, after) /\ Contiguous(after)
    BY <1>2, <1>3, <1>4, <2>1, <2>2, <2>3, AfterMove
  <2> QED
    BY <1>1, <2>2, <2>4
<1>6. DOMAIN meta' = DOMAIN meta
  BY <1>5 DEF Renumbered
<1>7. \A r \in Rows, n \in Meters : held'[n][r] = MovedHeld(r)[n]
  <2> SUFFICES ASSUME NEW r \in Rows, NEW n \in Meters PROVE held'[n][r] = MovedHeld(r)[n]
    OBVIOUS
  <2>1. PICK g : g = held[n][r]
    OBVIOUS
  <2>2. g \in [codes : 0 .. 3, graded : BOOLEAN]
    BY <1>2, <2>1 DEF Holding
  <2>3. MovedHeld(r)[n] = [g EXCEPT !.codes =
          IF n = m THEN Min({g.codes, Codes(running.target.dir)}) ELSE g.codes]
    BY <2>1 DEF MovedHeld
  <2>4. CASE n = m
    <3>1. held'[m] = [x \in Rows |-> [held[m][x] EXCEPT !.codes =
                        Min({held[m][x].codes, Codes(running.target.dir)})]]
      BY <1>1, <1>2, <1>3
    <3> HIDE DEF m
    <3> QED
      BY <2>1, <2>3, <2>4, <3>1
  <2>5. CASE n # m
    <3>1. held'[n][r] = g
      BY <1>1, <1>2, <2>1, <2>5
    <3>2. [g EXCEPT !.codes = g.codes] = g
      BY <2>2
    <3> QED
      BY <2>3, <2>5, <3>1, <3>2
  <2> QED
    BY <2>4, <2>5
<1>8. HeldOfKnown'
  <2> SUFFICES ASSUME NEW n \in Meters, NEW r \in Rows, held'[n][r].codes > 0
               PROVE  held[n][r].codes > 0
    BY <1>1, <1>4, <1>6 DEF HeldOfKnown
  <2>1. held'[n][r] = [held[n][r] EXCEPT !.codes =
          IF n = m THEN Min({held[n][r].codes, Codes(running.target.dir)}) ELSE held[n][r].codes]
    BY <1>2, <1>7 DEF MovedHeld
  <2>2. held[n][r] \in Holding /\ held[n][r].codes \in 0 .. 3
    BY <1>2 DEF Holding
  <2>3. PICK c \in {2, 3}, k \in Nat : c = Codes(running.target.dir) /\ k = held[n][r].codes
    BY <2>2 DEF Codes
  <2>4. held'[n][r].codes = IF n = m THEN Min({k, c}) ELSE k
    BY <2>1, <2>2, <2>3 DEF Holding
  <2>5. Min({k, c}) =< k /\ Min({k, c}) \in Nat
    BY <2>3, MinOfTwo
  <2> QED
    BY <2>3, <2>4, <2>5
<1>9. LinesStored'
  <2> SUFFICES ASSUME NEW r \in DOMAIN lines
               PROVE  Stored(lines[r], meta', HeldAt(r)', ReadAt(r))
    <3>1. \A r : ReadAt(r)' = ReadAt(r) /\ ~Written(r)'
      BY <1>1 DEF ReadAt, Written, Moving
    <3> QED
      BY <1>1, <3>1 DEF LinesStored
  <2>1. Stored(lines[r], Afterwards, MovedHeld(r), ReadAt(r))
    BY <1>1, <1>4 DEF LinesStored, Written
  <2>2. HeldAt(r)' = MovedHeld(r)
    <3>1. r \in Rows
      BY <1>2
    <3> QED
      BY <1>7, <3>1 DEF HeldAt, MovedHeld
  <2> QED
    BY <1>1, <2>1, <2>2
<1>10. MoveFollows' /\ ResetFollows' /\ GradingFollows'
  BY <1>1 DEF MoveFollows, ResetFollows, GradingFollows, Moving
<1> QED
  BY <1>5, <1>8, <1>9, <1>10 DEF RInv

(* Of three values a producer has two.                                     *)
LEMMA TwoCodes ==
  ASSUME NEW g \in Holding, NEW is \in BOOLEAN
  PROVE  LET h == [g EXCEPT !.codes = IF is THEN Min({@, 2}) ELSE @]
         IN  /\ h.codes = IF is /\ g.codes > 2 THEN 2 ELSE g.codes
             /\ h.graded = g.graded /\ h.graded \in BOOLEAN
<1>1. PICK k \in 0 .. 3 : k = g.codes
  BY DEF Holding
<1>2. Min({k, 2}) \in {k, 2} /\ Min({k, 2}) =< k /\ Min({k, 2}) =< 2
  <2>1. k \in Nat
    OBVIOUS
  <2> QED
    BY <2>1, MinOfTwo
<1>3. Min({k, 2}) = IF k > 2 THEN 2 ELSE k
  BY <1>2
<1>4. PICK c : c = IF is THEN Min({g.codes, 2}) ELSE g.codes
  OBVIOUS
<1>5. [g EXCEPT !.codes = c].codes = c /\ [g EXCEPT !.codes = c].graded = g.graded
      /\ g.graded \in BOOLEAN
  BY DEF Holding
<1>6. c = IF is /\ g.codes > 2 THEN 2 ELSE g.codes
  BY <1>1, <1>3, <1>4
<1> QED
  BY <1>4, <1>5, <1>6

(* A move that has read the database: the lines it does not write end      *)
(* before the column, so they hold what the record will say.               *)
LEMMA MoveReads ==
  ASSUME MInv, RInv, NEW m \in Meters, Move(m)
  PROVE  RInv'
<1> SUFFICES ASSUME regular' PROVE RInv'
  BY DEF RInv
<1> DEFINE to == NextIdx(Producer)
           read == Within(meta[m].from, meta[m].until)
<1>1. /\ lines' = lines /\ meta' = meta /\ held' = held /\ regular /\ Followed(m)
      /\ running = Idle /\ m \in DOMAIN meta
  BY DEF Move, MInv, Records
<1>2. meta[m].dir = Consumer /\ Consumer # Producer
  BY <1>1 DEF Followed, Consumer, Producer
<1>3. /\ meta \in [DOMAIN meta -> Entry] /\ DOMAIN meta \subseteq Meters /\ Apart(meta)
      /\ held \in [Meters -> [Rows -> Holding]] /\ DOMAIN lines \subseteq Rows
      /\ lines \in [DOMAIN lines -> Line]
  BY DEF MInv, Records, ColumnsApart, Apart, Holding
<1>4. Target(m).dir = Producer /\ Target(m).idx = to
  <2>1. meta[m] \in Entry /\ Target(m) = [meta[m] EXCEPT !.dir = Producer, !.idx = to]
    BY <1>1, <1>2, <1>3 DEF Target
  <2> HIDE DEF to
  <2> QED
    BY <2>1 DEF Entry
<1>5. running' = [command |-> "move", meter |-> m, target |-> Target(m),
                  todo |-> [r \in read |-> Moved(lines[r], meta[m].idx, to)]]
  BY <1>2, <1>4 DEF Move
<1>6. \A r \in read : Movable(lines[r], meta[m].idx)
  BY <1>2 DEF Move
<1>7. meta[m].idx = 0 => \A n \in DOMAIN meta : meta[n].dir = Consumer => n = m
  <2> SUFFICES ASSUME meta[m].idx = 0, NEW n \in DOMAIN meta, meta[n].dir = Consumer
               PROVE  n = m
    OBVIOUS
  <2>1. meta[n].idx = 0
    BY <1>1 DEF Followed, Of
  <2> QED
    BY <1>1, <1>2, <1>3, <2>1 DEF Apart
<1>8. HeldOfKnown /\ Contiguous(meta) /\ LinesStored
  BY <1>1 DEF RInv
<1> HIDE DEF to, read
<1>9. /\ running'.command = "move" /\ running'.meter = m /\ running'.target = Target(m)
      /\ running'.todo = [r \in read |-> Moved(lines[r], meta[m].idx, to)]
      /\ DOMAIN running'.todo = read
  BY <1>5
<1>10. running' # Idle => Moving'
  BY <1>9 DEF Moving
<1>11. HeldOfKnown' /\ Contiguous(meta')
  BY <1>1, <1>8 DEF HeldOfKnown
<1>12. ASSUME NEW r \in DOMAIN lines, r \notin read
       PROVE  Stored(lines[r], Afterwards', MovedHeld(r)', ReadAt(r))
  <2>1. Stored(lines[r], meta, HeldAt(r), ReadAt(r)) /\ r \in Rows
    BY <1>1, <1>3, <1>8 DEF LinesStored, Written, Moving
  <2>2. Len(lines[r].values[Consumer]) <= 3 * meta[m].idx
    BY <1>1, <1>12 DEF Followed, read
  <2>3. PICK line, mt, mt2, h, h2, R, t :
          /\ line = lines[r] /\ mt = meta /\ mt2 = Afterwards' /\ h = HeldAt(r)
          /\ h2 = MovedHeld(r)' /\ R = ReadAt(r) /\ t = to
    OBVIOUS
  <2>4. /\ line \in Line /\ mt \in [DOMAIN mt -> Entry] /\ Apart(mt) /\ Stored(line, mt, h, R)
        /\ m \in DOMAIN mt /\ mt[m].dir = Consumer
        /\ Len(line.values[Consumer]) <= 3 * mt[m].idx
    BY <1>1, <1>2, <1>3, <2>1, <2>2, <2>3
  <2>5. \A n \in DOMAIN mt : R[n] \in Received /\ h[n] \in Holding
    BY <1>3, <2>1, <2>3, HeldTypes
  <2>6. t \in Nat /\ \A n \in DOMAIN mt : mt[n].dir = Producer => mt[n].idx < t
    BY <1>3, <2>3, NextIdxIsNext DEF to
  <2>7. Renumbered(mt, m, t, mt2)
    <3>1. mt2 = Reorganized([meta EXCEPT ![m] = Target(m)])
      BY <1>1, <1>9, <2>3 DEF Afterwards, Reorganized
    <3>2. PICK S : S = DOMAIN meta /\ S \in SUBSET Meters
      BY <1>3
    <3>3. Renumbered(meta, m, t, mt2)
      BY <1>1, <1>2, <1>3, <1>7, <1>8, <2>3, <3>1, <3>2, AfterMove DEF to
    <3> QED
      BY <2>3, <3>3
  <2>8. ASSUME NEW n \in DOMAIN mt
        PROVE  /\ h2[n].codes = IF n = m /\ h[n].codes > 2 THEN 2 ELSE h[n].codes
               /\ h2[n].graded \in BOOLEAN
               /\ h2[n].graded => h[n].graded
    <3>1. n \in Meters /\ h[n] = held[n][r] /\ held[n][r] \in Holding
      BY <1>3, <2>1, <2>3, HeldTypes
    <3>2. h2[n] = [held[n][r] EXCEPT !.codes = IF n = m THEN Min({held[n][r].codes, 2})
                                                ELSE held[n][r].codes]
      BY <1>1, <1>4, <1>9, <2>3, <3>1 DEF MovedHeld, Codes, Consumer, Producer
    <3>3. PICK g, is : g = held[n][r] /\ is = (n = m)
      OBVIOUS
    <3>4. g \in Holding /\ is \in BOOLEAN
          /\ h2[n] = [g EXCEPT !.codes = IF is THEN Min({g.codes, 2}) ELSE g.codes]
      BY <3>1, <3>2, <3>3
    <3>5. /\ h2[n].codes = IF is /\ g.codes > 2 THEN 2 ELSE g.codes
          /\ h2[n].graded = g.graded /\ h2[n].graded \in BOOLEAN
      BY <3>4, TwoCodes
    <3> QED
      BY <3>1, <3>3, <3>5
  <2>9. Stored(line, mt2, h2, R)
    BY <2>4, <2>5, <2>6, <2>7, <2>8, KeptStores
  <2> QED
    BY <2>3, <2>9
<1>13. LinesStored'
  <2>1. \A r : ReadAt(r)' = ReadAt(r) /\ HeldAt(r)' = HeldAt(r)
    BY <1>1 DEF ReadAt, HeldAt
  <2>2. \A r \in DOMAIN lines : Stored(lines[r], meta, HeldAt(r), ReadAt(r))
    BY <1>1, <1>8 DEF LinesStored, Written, Moving
  <2>3. \A r : Written(r)' => r \notin read
    BY <1>9 DEF Written
  <2> QED
    BY <1>1, <1>12, <2>1, <2>2, <2>3 DEF LinesStored
<1>14. MoveFollows'
  <2>1. Target(m)' = Target(m)
    BY <1>1 DEF Target, NextIdx, Of
  <2>2. running'.target = Target(m)'
    BY <1>9, <2>1
  <2>3. \A r \in read : /\ Movable(lines[r], meta[m].idx)
                        /\ running'.todo[r] = Moved(lines[r], meta[m].idx, running'.target.idx)
    BY <1>4, <1>6, <1>9
  <2> QED
    BY <1>1, <1>2, <1>7, <1>9, <2>2, <2>3 DEF MoveFollows
<1>15. ResetFollows' /\ GradingFollows'
  BY <1>9 DEF ResetFollows, GradingFollows
<1> QED
  BY <1>11, <1>13, <1>14, <1>15 DEF RInv

(* A command that runs is not taken for none.                              *)
LEMMA CommandIsNotIdle == ASSUME NEW c \in Command PROVE c # Idle
<1>1. \A S \in SUBSET Rows : \A f \in [S -> Line] :
        f \in [S -> [values : [Directions -> Seq(Nat)], grades : [Directions -> Seq(Nat)]]]
  BY DEF Line, Slices
<1>2. c.todo \in UNION {[S -> Line] : S \in SUBSET Rows}
  BY DEF Command
<1>3. c.todo \in UNION {[S -> [values : [Directions -> Seq(Nat)],
                               grades : [Directions -> Seq(Nat)]]] : S \in SUBSET Rows}
  <2>1. PICK L : L = [values : [Directions -> Seq(Nat)], grades : [Directions -> Seq(Nat)]]
    OBVIOUS
  <2>2. PICK S \in SUBSET Rows : c.todo \in [S -> Line]
    BY <1>2
  <2>3. c.todo \in [S -> L]
    BY <1>1, <2>1, <2>2
  <2>4. c.todo \in UNION {[T -> L] : T \in SUBSET Rows}
    BY <2>3
  <2> QED
    BY <2>1, <2>4
<1>4. c = [command |-> c.command, meter |-> c.meter, target |-> c.target, todo |-> c.todo]
      /\ c.command \in {"move", "reset", "initQoV"} /\ c.meter \in Meters \cup {Idle}
      /\ c.target \in Entry \cup {Idle}
  BY DEF Command
<1> QED
  BY <1>3, <1>4, IdleIsNoCommand DEF Entry

(* WriteLine: one line is written, and the others stay to be written.      *)
WritesOne(r) ==
  /\ running # Idle /\ r \in DOMAIN running.todo /\ r \in DOMAIN lines
  /\ DOMAIN lines' = DOMAIN lines /\ lines'[r] = running.todo[r]
  /\ \A x \in DOMAIN lines : x # r => lines'[x] = lines[x]
  /\ running' # Idle /\ running'.command = running.command
  /\ running'.meter = running.meter /\ running'.target = running.target
  /\ DOMAIN running'.todo = DOMAIN running.todo \ {r}
  /\ \A x \in DOMAIN running.todo : x # r => running'.todo[x] = running.todo[x]
  /\ held' = HeldAfter(r) /\ meta' = meta /\ regular' = regular

(* WriteLine, with the line that it writes.                                *)
LEMMA WriteLineWrites ==
  ASSUME MInv, WriteLine
  PROVE  \E r \in Rows : WritesOne(r)
<1> DEFINE T    == DOMAIN running.todo
           rest == [x \in T \ {Min(T)} |-> running.todo[x]]
<1>1. PICK r : r = Min(T)
  OBVIOUS
<1>2. /\ running # Idle /\ T # {}
      /\ lines' = [lines EXCEPT ![r] = running.todo[r]]
      /\ running' = [running EXCEPT !.todo = rest]
      /\ held' = HeldAfter(r) /\ meta' = meta /\ regular' = regular
  BY <1>1 DEF WriteLine
<1>3. DOMAIN lines \subseteq Rows /\ lines \in [DOMAIN lines -> Line]
  BY DEF MInv, Records
<1>4. running \in Command /\ T \subseteq DOMAIN lines /\ running.todo \in [T -> Line]
  BY <1>2 DEF MInv, Prepared
<1>5. r \in T
  <2>1. T \in SUBSET Nat
    BY <1>3, <1>4, MaintenanceAssumption
  <2> HIDE DEF T
  <2> QED
    BY <1>1, <1>2, <2>1, Smallest
<1>6. DOMAIN rest = T \ {r} /\ \A x \in T : x # r => rest[x] = running.todo[x]
  BY <1>1
<1>7. rest \in UNION {[S -> Line] : S \in SUBSET Rows}
  <2>1. rest \in [T \ {r} -> Line] /\ T \ {r} \in SUBSET Rows
    BY <1>1, <1>3, <1>4
  <2> HIDE DEF rest
  <2> QED
    BY <2>1, TodoType
<1> HIDE DEF rest
<1>8. /\ running' \in Command /\ running'.command = running.command
      /\ running'.meter = running.meter /\ running'.target = running.target
      /\ running'.todo = rest
  BY <1>2, <1>4, <1>7 DEF Command
<1>9. running' # Idle
  BY <1>8, CommandIsNotIdle
<1>10. DOMAIN lines' = DOMAIN lines /\ lines'[r] = running.todo[r]
       /\ \A x \in DOMAIN lines : x # r => lines'[x] = lines[x]
  BY <1>2, <1>3, <1>4, <1>5
<1>11. WritesOne(r)
  BY <1>2, <1>4, <1>5, <1>6, <1>8, <1>9, <1>10 DEF WritesOne
<1> QED
  BY <1>3, <1>4, <1>5, <1>11

(* What is held after a line is written (HeldAfter) of the line and of the *)
(* others.                                                                 *)
HeldElsewhere(r) ==
  /\ \A n \in Meters : held'[n][r] \in Holding
  /\ \A n \in Meters, x \in Rows : x # r => held'[n][x] = held[n][x]
HeldInMove(r) ==
  \A n \in Meters : /\ held'[n][r].codes = held[n][r].codes
                    /\ held'[n][r].graded => held[n][r].graded /\ Whole(lines[r], Consumer)
HeldInReset(r, m) ==
  /\ \A n \in Meters : n # m => held'[n][r] = held[n][r]
  /\ IF Whole(lines[r], meta[m].dir) THEN held'[m][r].codes = 0
     ELSE held'[m][r].codes = held[m][r].codes /\ held'[m][r].graded = FALSE
HeldInGrading(r) ==
  \A n \in Meters : held'[n][r].codes = held[n][r].codes /\ held'[n][r].graded = FALSE

(* Only what is held of the line that is written changes.                  *)
LEMMA HeldWritten ==
  ASSUME MInv, NEW r \in Rows, WritesOne(r)
  PROVE  /\ HeldElsewhere(r)
         /\ running.command = "move" => HeldInMove(r)
         /\ running.command = "reset" => HeldInReset(r, running.meter)
         /\ running.command = "initQoV" => HeldInGrading(r)
<1>1. held \in [Meters -> [Rows -> Holding]]
  BY DEF MInv, Records, Holding
<1>2. /\ held' = HeldAfter(r) /\ running.command \in {"move", "reset", "initQoV"}
      /\ running.command = "reset" => running.meter \in Meters
  BY DEF WritesOne, MInv, Prepared, Records, Command
<1>3. ASSUME NEW n \in Meters
      PROVE  /\ Ungraded(r)[n][r] \in Holding
             /\ \A x \in Rows : x # r => Ungraded(r)[n][x] = held[n][x]
             /\ Ungraded(r)[n][r].codes = held[n][r].codes
             /\ Ungraded(r)[n][r].graded = FALSE
  <2>1. PICK f : f = held[n]
    OBVIOUS
  <2>2. f \in [Rows -> Holding] /\ Ungraded(r)[n] = [f EXCEPT ![r].graded = FALSE]
    BY <1>1, <2>1 DEF Ungraded
  <2>3. PICK g : g = [f[r] EXCEPT !.graded = FALSE]
    OBVIOUS
  <2>4. g \in Holding /\ g.codes = f[r].codes /\ g.graded = FALSE
    BY <2>2, <2>3 DEF Holding
  <2>5. Ungraded(r)[n][r] = g /\ \A x \in Rows : x # r => Ungraded(r)[n][x] = f[x]
    BY <2>2, <2>3
  <2> QED
    BY <2>1, <2>4, <2>5
<1>4. CASE running.command = "move"
  <2>1. held' = IF Whole(lines[r], Consumer) THEN held ELSE Ungraded(r)
    BY <1>2, <1>4 DEF HeldAfter
  <2>2. CASE Whole(lines[r], Consumer)
    BY <1>1, <1>4, <2>1, <2>2 DEF HeldElsewhere, HeldInMove
  <2>3. CASE ~Whole(lines[r], Consumer)
    BY <1>3, <1>4, <2>1, <2>3 DEF HeldElsewhere, HeldInMove
  <2> QED
    BY <2>2, <2>3
<1>5. CASE running.command = "reset"
  <2>1. PICK m : m = running.meter
    OBVIOUS
  <2>2. held' = IF Whole(lines[r], meta[m].dir) THEN [held EXCEPT ![m][r].codes = 0]
                ELSE [held EXCEPT ![m][r].graded = FALSE]
    BY <1>2, <1>5, <2>1 DEF HeldAfter
  <2>3. m \in Meters
    BY <1>2, <1>5, <2>1
  <2>4. held[m] \in [Rows -> Holding] /\ held[m][r] \in Holding
    BY <1>1, <2>3
  <2>5. \A n \in Meters : n # m => held'[n] = held[n]
    BY <1>1, <2>2
  <2>6. \A x \in Rows : x # r => held'[m][x] = held[m][x]
    <3>1. CASE Whole(lines[r], meta[m].dir)
      BY <1>1, <2>2, <2>3, <2>4, <3>1
    <3>2. CASE ~Whole(lines[r], meta[m].dir)
      BY <1>1, <2>2, <2>3, <2>4, <3>2
    <3> QED
      BY <3>1, <3>2
  <2>7. CASE Whole(lines[r], meta[m].dir)
    <3>1. held'[m][r] = [held[m][r] EXCEPT !.codes = 0]
      BY <1>1, <2>2, <2>3, <2>4, <2>7
    <3>2. held'[m][r].codes = 0 /\ held'[m][r] \in Holding
      BY <2>4, <3>1 DEF Holding
    <3> QED
      BY <1>1, <1>5, <2>1, <2>5, <2>6, <2>7, <3>2 DEF HeldElsewhere, HeldInReset
  <2>8. CASE ~Whole(lines[r], meta[m].dir)
    <3>1. held'[m][r] = [held[m][r] EXCEPT !.graded = FALSE]
      BY <1>1, <2>2, <2>3, <2>4, <2>8
    <3>2. held'[m][r].codes = held[m][r].codes /\ held'[m][r].graded = FALSE
          /\ held'[m][r] \in Holding
      BY <2>4, <3>1 DEF Holding
    <3> QED
      BY <1>1, <1>5, <2>1, <2>5, <2>6, <2>8, <3>2 DEF HeldElsewhere, HeldInReset
  <2> QED
    BY <2>7, <2>8
<1>6. CASE running.command = "initQoV"
  <2>1. held' = Ungraded(r)
    BY <1>2, <1>6 DEF HeldAfter
  <2> QED
    BY <1>3, <1>6, <2>1 DEF HeldElsewhere, HeldInGrading
<1> QED
  BY <1>2, <1>4, <1>5, <1>6

(* The other lines hold what they held.                                    *)
LEMMA OthersStored ==
  ASSUME MInv, LinesStored, NEW r \in Rows, WritesOne(r), NEW x \in DOMAIN lines, x # r
  PROVE  /\ Written(x)' => Stored(lines'[x], Afterwards', MovedHeld(x)', ReadAt(x)')
         /\ ~Written(x)' => Stored(lines'[x], meta', HeldAt(x)', ReadAt(x)')
<1>1. x \in Rows
  BY DEF MInv, Records
<1>2. \A n \in Meters : held'[n][x] = held[n][x]
  BY <1>1, HeldWritten DEF HeldElsewhere
<1>3. HeldAt(x)' = HeldAt(x)
  BY <1>2 DEF HeldAt
<1>4. ReadAt(x)' = ReadAt(x) /\ Written(x)' = Written(x) /\ lines'[x] = lines[x] /\ meta' = meta
  BY DEF ReadAt, Written, Moving, WritesOne
<1>5. MovedHeld(x)' = MovedHeld(x)
  BY <1>2 DEF MovedHeld, WritesOne
<1>6. Afterwards' = Afterwards
  BY DEF Afterwards, Reorganized, WritesOne
<1> QED
  BY <1>3, <1>4, <1>5, <1>6 DEF LinesStored

(* What a command has still to write is what it had to write before.       *)
LEMMA RestFollows ==
  ASSUME MInv, RInv, regular, NEW r \in Rows, WritesOne(r)
  PROVE  HeldOfKnown' /\ Contiguous(meta') /\ MoveFollows' /\ ResetFollows' /\ GradingFollows'
<1>1. HeldOfKnown /\ Contiguous(meta) /\ MoveFollows /\ ResetFollows /\ GradingFollows
  BY DEF RInv
<1>2. /\ meta' = meta /\ running # Idle /\ running'.command = running.command
      /\ running'.meter = running.meter /\ running'.target = running.target
      /\ DOMAIN lines' = DOMAIN lines
  BY DEF WritesOne
<1>3. \A x \in DOMAIN running'.todo :
        /\ x \in DOMAIN running.todo /\ running'.todo[x] = running.todo[x] /\ lines'[x] = lines[x]
  BY DEF WritesOne, MInv, Prepared
<1>4. HeldOfKnown'
  <2> SUFFICES ASSUME NEW m \in Meters, NEW x \in Rows, held'[m][x].codes > 0
               PROVE  held[m][x].codes > 0
    BY <1>1, <1>2 DEF HeldOfKnown
  <2>1. running.command \in {"move", "reset", "initQoV"}
    BY <1>2 DEF MInv, Prepared, Command
  <2>2. x # r => held'[m][x] = held[m][x]
    BY HeldWritten DEF HeldElsewhere
  <2>3. running.command = "reset" => running.meter \in Meters
    BY <1>2 DEF MInv, Prepared, Records
  <2>4. held'[m][r].codes = held[m][r].codes \/ held'[m][r].codes = 0
    <3>1. CASE running.command = "move"
      BY <3>1, HeldWritten DEF HeldInMove
    <3>2. CASE running.command = "reset"
      <4>1. HeldInReset(r, running.meter) /\ running.meter \in Meters
        BY <2>3, <3>2, HeldWritten
      <4> QED
        BY <4>1 DEF HeldInReset
    <3>3. CASE running.command = "initQoV"
      BY <3>3, HeldWritten DEF HeldInGrading
    <3> QED
      BY <2>1, <3>1, <3>2, <3>3
  <2> QED
    BY <2>2, <2>4
<1>5. Target(running.meter)' = Target(running.meter)
  BY <1>2 DEF Target, NextIdx, Of
<1>6. MoveFollows'
  BY <1>1, <1>2, <1>3, <1>5 DEF MoveFollows, Moving
<1>7. ResetFollows'
  BY <1>1, <1>2, <1>3 DEF ResetFollows
<1>8. GradingFollows'
  BY <1>1, <1>2, <1>3 DEF GradingFollows
<1> QED
  BY <1>1, <1>2, <1>4, <1>6, <1>7, <1>8

(* A line that is written by a move.                                       *)
LEMMA MovedLineReads ==
  ASSUME MInv, RInv, regular, NEW r \in Rows, WritesOne(r), running.command = "move"
  PROVE  Stored(lines'[r], Afterwards, MovedHeld(r)', ReadAt(r))
<1> DEFINE m == running.meter
<1>1. /\ meta \in [DOMAIN meta -> Entry] /\ DOMAIN meta \subseteq Meters /\ Apart(meta)
      /\ held \in [Meters -> [Rows -> Holding]] /\ lines \in [DOMAIN lines -> Line]
  BY DEF MInv, Records, ColumnsApart, Apart, Holding
<1>2. /\ running # Idle /\ Moving /\ r \in DOMAIN running.todo /\ r \in DOMAIN lines
      /\ lines'[r] = running.todo[r] /\ running'.meter = m /\ running'.target = running.target
  BY DEF WritesOne, Moving
<1>3. HeldOfKnown /\ Contiguous(meta) /\ LinesStored /\ MoveFollows
  BY DEF RInv
<1>4. m \in DOMAIN meta
  BY <1>2 DEF MInv, Prepared
<1>5. /\ meta[m].dir = Consumer /\ running.target = Target(m) /\ Movable(lines[r], meta[m].idx)
      /\ lines'[r] = Moved(lines[r], meta[m].idx, running.target.idx)
      /\ meta[m].idx = 0 => \A n \in DOMAIN meta : meta[n].dir = Consumer => n = m
  BY <1>2, <1>3 DEF MoveFollows
<1>6. Target(m).dir = Producer /\ Target(m).idx = NextIdx(Producer)
  <2>1. PICK e, to : e = meta[m] /\ to = NextIdx(Producer)
    OBVIOUS
  <2>2. e \in Entry /\ e.dir = Consumer /\ Consumer # Producer
    BY <1>1, <1>4, <1>5, <2>1 DEF Consumer, Producer
  <2>3. Target(m) = [e EXCEPT !.dir = Producer, !.idx = to]
    BY <2>1, <2>2 DEF Target
  <2> QED
    BY <2>1, <2>2, <2>3 DEF Entry
<1>7. Stored(lines[r], meta, HeldAt(r), ReadAt(r))
  BY <1>2, <1>3 DEF LinesStored, Written
<1>8. PICK x, line, mt, mt2, h, h2, R, t :
        /\ x = m /\ line = lines[r] /\ mt = meta /\ mt2 = Afterwards /\ h = HeldAt(r)
        /\ h2 = MovedHeld(r)' /\ R = ReadAt(r) /\ t = NextIdx(Producer)
  OBVIOUS
<1>9. /\ line \in Line /\ mt \in [DOMAIN mt -> Entry] /\ Apart(mt) /\ Stored(line, mt, h, R)
      /\ x \in DOMAIN mt /\ mt[x].dir = Consumer /\ Movable(line, mt[x].idx)
  BY <1>1, <1>2, <1>4, <1>5, <1>7, <1>8
<1>10. \A n \in DOMAIN mt : R[n] \in Received /\ h[n] \in Holding
  BY <1>1, <1>8, HeldTypes
<1>11. t \in Nat /\ \A n \in DOMAIN mt : mt[n].dir = Producer => mt[n].idx < t
  BY <1>1, <1>8, NextIdxIsNext
<1>12. Renumbered(mt, x, t, mt2)
  <2>1. PICK S : S = DOMAIN meta /\ S \in SUBSET Meters
    BY <1>1
  <2>2. /\ mt2 = Reorganized([meta EXCEPT ![x] = Target(x)]) /\ x \in S
        /\ meta[x].dir = Consumer
        /\ meta[x].idx = 0 => \A n \in S : meta[n].dir = Consumer => n = x
    BY <1>4, <1>5, <1>8, <2>1 DEF Afterwards
  <2>3. Renumbered(meta, x, t, mt2)
    BY <1>1, <1>3, <1>8, <2>1, <2>2, AfterMove
  <2> QED
    BY <1>8, <2>3
<1>13. ASSUME NEW n \in DOMAIN mt
       PROVE  /\ h2[n].codes = IF n = x /\ h[n].codes > 2 THEN 2 ELSE h[n].codes
              /\ h2[n].graded \in BOOLEAN
              /\ h2[n].graded => h[n].graded /\ Whole(line, Consumer)
  <2>1. n \in Meters /\ h[n] = held[n][r] /\ held[n][r] \in Holding
    BY <1>1, <1>8, HeldTypes
  <2>2. held'[n][r].codes = held[n][r].codes
        /\ (held'[n][r].graded => held[n][r].graded /\ Whole(lines[r], Consumer))
    BY <2>1, HeldWritten DEF HeldInMove
  <2>3. held'[n][r] \in Holding
    BY <2>1, HeldWritten DEF HeldElsewhere
  <2>4. h2[n] = [held'[n][r] EXCEPT !.codes = IF n = x THEN Min({held'[n][r].codes, 2})
                                              ELSE held'[n][r].codes]
    BY <1>2, <1>5, <1>6, <1>8, <2>1 DEF MovedHeld, Codes, Consumer, Producer
  <2>5. PICK g, is : g = held'[n][r] /\ is = (n = x)
    OBVIOUS
  <2>6. g \in Holding /\ is \in BOOLEAN
        /\ h2[n] = [g EXCEPT !.codes = IF is THEN Min({g.codes, 2}) ELSE g.codes]
    BY <2>3, <2>4, <2>5
  <2>7. /\ h2[n].codes = IF is /\ g.codes > 2 THEN 2 ELSE g.codes
        /\ h2[n].graded = g.graded /\ h2[n].graded \in BOOLEAN
    BY <2>6, TwoCodes
  <2> QED
    BY <1>8, <2>1, <2>2, <2>5, <2>7
<1>14. Stored(Moved(line, mt[x].idx, t), mt2, h2, R)
  BY <1>9, <1>10, <1>11, <1>12, <1>13, MovedStores
<1> QED
  BY <1>5, <1>6, <1>8, <1>14

(* A line that is written by another command.                              *)
LEMMA ChangedLineReads ==
  ASSUME MInv, RInv, regular, NEW r \in Rows, WritesOne(r), running.command # "move"
  PROVE  Stored(lines'[r], meta, HeldAt(r)', ReadAt(r))
<1>1. /\ meta \in [DOMAIN meta -> Entry] /\ DOMAIN meta \subseteq Meters /\ Apart(meta)
      /\ lines \in [DOMAIN lines -> Line]
  BY DEF MInv, Records, ColumnsApart, Apart
<1>2. /\ running # Idle /\ r \in DOMAIN running.todo /\ r \in DOMAIN lines
      /\ lines'[r] = running.todo[r] /\ running.command \in {"reset", "initQoV"}
      /\ running.command # "initQoV" => running.meter \in DOMAIN meta
  BY DEF WritesOne, MInv, Prepared, Command
<1>3. LinesStored /\ ResetFollows /\ GradingFollows
  BY DEF RInv
<1>4. Stored(lines[r], meta, HeldAt(r), ReadAt(r))
  BY <1>2, <1>3 DEF LinesStored, Written, Moving
<1>5. PICK x, line, out, mt, h, h2, R :
        /\ x = running.meter /\ line = lines[r] /\ out = lines'[r] /\ mt = meta /\ h = HeldAt(r)
        /\ h2 = HeldAt(r)' /\ R = ReadAt(r)
  OBVIOUS
<1>6. /\ line \in Line /\ mt \in [DOMAIN mt -> Entry] /\ Apart(mt) /\ Stored(line, mt, h, R)
  BY <1>1, <1>2, <1>4, <1>5
<1>7. \A n \in DOMAIN mt : R[n] \in Received /\ h[n] \in Holding
  BY <1>1, <1>5, HeldTypes
<1>8. \A n \in DOMAIN mt : n \in Meters /\ h[n] = held[n][r] /\ h2[n] = held'[n][r]
  BY <1>1, <1>5 DEF HeldAt
<1>9. CASE running.command = "reset"
  <2>1. x \in DOMAIN mt /\ x \in Meters /\ Clearable(line, mt[x]) /\ out = Cleared(line, mt[x])
    BY <1>1, <1>2, <1>3, <1>5, <1>9 DEF ResetFollows
  <2>2. /\ \A n \in Meters : n # x => held'[n][r] = held[n][r]
        /\ IF Whole(line, mt[x].dir) THEN held'[x][r].codes = 0
           ELSE held'[x][r].codes = held[x][r].codes /\ held'[x][r].graded = FALSE
    BY <1>5, <1>9, HeldWritten DEF HeldInReset
  <2>3. /\ \A n \in DOMAIN mt : n # x => h2[n] = h[n]
        /\ IF Whole(line, mt[x].dir) THEN h2[x].codes = 0
           ELSE h2[x].codes = h[x].codes /\ h2[x].graded = FALSE
    BY <1>8, <2>1, <2>2
  <2>4. Stored(Cleared(line, mt[x]), mt, h2, R)
    BY <1>6, <1>7, <2>1, <2>3, ClearedStores
  <2> QED
    BY <1>5, <2>1, <2>4
<1>10. CASE running.command = "initQoV"
  <2>1. out.values = line.values
    BY <1>2, <1>3, <1>5, <1>10 DEF GradingFollows
  <2>2. \A n \in DOMAIN mt : h2[n].codes = h[n].codes /\ h2[n].graded = FALSE
    BY <1>8, <1>10, HeldWritten, ZenonT(40) DEF HeldInGrading
  <2>3. Stored(out, mt, h2, R)
    BY <1>6, <2>1, <2>2, GradedStores
  <2> QED
    BY <1>5, <2>3
<1> QED
  BY <1>2, <1>9, <1>10

(* SetLines: one line is written and the others stay.                      *)
LEMMA WriteLineReads == MInv /\ RInv /\ WriteLine => RInv'
<1> SUFFICES ASSUME MInv, RInv, WriteLine, regular' PROVE RInv'
  BY DEF RInv
<1>1. PICK r \in Rows : WritesOne(r)
  BY WriteLineWrites
<1>2. regular
  BY <1>1 DEF WritesOne
<1>3. LinesStored
  BY <1>2 DEF RInv
<1>4. HeldOfKnown' /\ Contiguous(meta') /\ MoveFollows' /\ ResetFollows' /\ GradingFollows'
  BY <1>1, <1>2, RestFollows
<1>5. /\ Written(r)' => Stored(lines'[r], Afterwards', MovedHeld(r)', ReadAt(r)')
      /\ ~Written(r)' => Stored(lines'[r], meta', HeldAt(r)', ReadAt(r)')
  <2>1. /\ meta' = meta /\ ReadAt(r)' = ReadAt(r) /\ Written(r)' = (running.command = "move")
    BY <1>1 DEF WritesOne, ReadAt, Written, Moving
  <2>2. Afterwards' = Afterwards
    BY <1>1 DEF Afterwards, Reorganized, WritesOne
  <2>3. running.command = "move" => Stored(lines'[r], Afterwards, MovedHeld(r)', ReadAt(r))
    BY <1>1, <1>2, MovedLineReads
  <2>4. running.command # "move" => Stored(lines'[r], meta, HeldAt(r)', ReadAt(r))
    BY <1>1, <1>2, ChangedLineReads
  <2> QED
    BY <2>1, <2>2, <2>3, <2>4
<1>6. LinesStored'
  <2>1. DOMAIN lines' = DOMAIN lines
    BY <1>1 DEF WritesOne
  <2>2. \A x \in DOMAIN lines : x # r =>
          /\ Written(x)' => Stored(lines'[x], Afterwards', MovedHeld(x)', ReadAt(x)')
          /\ ~Written(x)' => Stored(lines'[x], meta', HeldAt(x)', ReadAt(x)')
    BY <1>1, <1>3, OthersStored
  <2> QED
    BY <1>5, <2>1, <2>2 DEF LinesStored
<1> QED
  BY <1>2, <1>4, <1>6 DEF RInv

(* A new entry is the next one of its direction.                           *)
LEMMA GrownContiguous ==
  ASSUME NEW mt, mt \in [DOMAIN mt -> Entry], Contiguous(mt), NEW m, NEW e \in Entry,
         InRecord(mt, m, e),
         m \notin DOMAIN mt => (e.idx > 0 => \E y \in DOMAIN mt :
                                 mt[y].dir = e.dir /\ mt[y].idx = e.idx - 1),
         NEW mt2, WithEntry(mt, m, e, mt2)
  PROVE  Contiguous(mt2)
<1> USE DEF InRecord, WithEntry
<1> SUFFICES ASSUME NEW n \in DOMAIN mt2, NEW i \in Nat, i < mt2[n].idx
             PROVE  \E z \in DOMAIN mt2 : mt2[z].dir = mt2[n].dir /\ mt2[z].idx = i
  BY DEF Contiguous
<1>1. \A y \in DOMAIN mt : mt2[y].dir = mt[y].dir /\ mt2[y].idx = mt[y].idx
  OBVIOUS
<1>2. ASSUME NEW y \in DOMAIN mt, mt[y].dir = mt2[n].dir, i <= mt[y].idx
      PROVE  \E z \in DOMAIN mt2 : mt2[z].dir = mt2[n].dir /\ mt2[z].idx = i
  <2>1. CASE i = mt[y].idx
    BY <1>1, <1>2, <2>1
  <2>2. CASE i # mt[y].idx
    <3>1. i < mt[y].idx
      BY <1>2, <2>2 DEF Entry
    <3>2. PICK z \in DOMAIN mt : mt[z].dir = mt[y].dir /\ mt[z].idx = i
      BY <3>1 DEF Contiguous
    <3> QED
      BY <1>1, <1>2, <3>2
  <2> QED
    BY <2>1, <2>2
<1>3. CASE n \in DOMAIN mt
  <2>1. mt[n].dir = mt2[n].dir /\ i <= mt[n].idx
    BY <1>1, <1>3 DEF Entry
  <2> QED
    BY <1>2, <1>3, <2>1
<1>4. CASE n \notin DOMAIN mt
  <2>1. n = m /\ e.idx \in Nat /\ i < e.idx
    BY <1>4 DEF Entry
  <2>2. PICK y \in DOMAIN mt : mt[y].dir = e.dir /\ mt[y].idx = e.idx - 1
    BY <1>4, <2>1
  <2>3. i <= mt[y].idx /\ mt[y].dir = mt2[n].dir
    BY <2>1, <2>2
  <2> QED
    BY <1>2, <2>3
<1> QED
  BY <1>3, <1>4

(* An import puts the values into the column of its entry, which is behind *)
(* all others when the meter is new.                                       *)
LEMMA ImportReads ==
  ASSUME MInv, RInv, NEW m \in Meters, NEW r \in Rows, NEW n \in 1 .. 3, Import(m, r, n)
  PROVE  RInv'
<1> SUFFICES ASSUME regular' PROVE RInv'
  BY DEF RInv
<1>1. PICK before, e, v : /\ before \in Line /\ e \in Entry /\ v \in Seq(Nat)
                          /\ Imported(m, r, before, e, v)
  BY ImportWrites
<1>2. running = Idle /\ running' = Idle /\ regular /\ held[m][r].codes = 0
  BY <1>1 DEF Imported
<1>3. /\ DOMAIN lines' = DOMAIN lines \cup {r} /\ lines'[r] = WithValues(before, e, v)
      /\ \A x \in DOMAIN lines : x # r => lines'[x] = lines[x]
  BY <1>1 DEF Imported
<1>4. /\ m \in DOMAIN meta => meta[m].dir = e.dir /\ meta[m].idx = e.idx
      /\ m \notin DOMAIN meta => e.idx = NextIdx(e.dir)
      /\ DOMAIN meta' = DOMAIN meta \cup {m} /\ meta'[m] = e
      /\ \A x \in DOMAIN meta : x # m => meta'[x] = meta[x]
  BY <1>1 DEF Imported
<1>5. /\ Len(v) <= Codes(e.dir) /\ \A k \in 1 .. Len(v) : v[k] = Reading[m][r][k]
      /\ held' = [held EXCEPT ![m][r] = [codes |-> Len(v), graded |-> TRUE]]
  BY <1>1 DEF Imported
<1>6. /\ DOMAIN lines \subseteq Rows /\ lines \in [DOMAIN lines -> Line]
      /\ DOMAIN meta \subseteq Meters /\ meta \in [DOMAIN meta -> Entry] /\ Apart(meta)
      /\ held \in [Meters -> [Rows -> Holding]]
  BY DEF MInv, Records, ColumnsApart, Apart, Holding
<1>7. HeldOfKnown /\ Contiguous(meta)
      /\ \A x \in DOMAIN lines : Stored(lines[x], meta, HeldAt(x), ReadAt(x))
  BY <1>2 DEF RInv, LinesStored, Written, Moving
<1>8. /\ held'[m][r].codes = Len(v)
      /\ \A x \in Rows : x # r => held'[m][x] = held[m][x]
      /\ \A y \in Meters : y # m => held'[y] = held[y]
  <2>1. PICK new : new = [codes |-> Len(v), graded |-> TRUE]
    OBVIOUS
  <2>2. held' = [held EXCEPT ![m][r] = new] /\ new.codes = Len(v)
    BY <1>5, <2>1
  <2> QED
    BY <1>6, <2>2
<1>9. /\ InRecord(meta, m, e) /\ WithEntry(meta, m, e, meta')
      /\ m \notin DOMAIN meta => (e.idx > 0 => \E y \in DOMAIN meta :
                                    meta[y].dir = e.dir /\ meta[y].idx = e.idx - 1)
  <2>1. WithEntry(meta, m, e, meta')
    BY <1>4 DEF WithEntry
  <2>2. CASE m \in DOMAIN meta
    BY <1>4, <1>6, <2>1, <2>2 DEF Apart, InRecord
  <2>3. CASE m \notin DOMAIN meta
    <3>1. PICK S, d, i : S = DOMAIN meta /\ d = e.dir /\ i = NextIdx(d)
      OBVIOUS
    <3>2. /\ i \in Nat /\ \A y \in S : meta[y].dir = d => meta[y].idx < i
          /\ i > 0 => \E y \in S : meta[y].dir = d /\ meta[y].idx = i - 1
      BY <1>6, <3>1, NextIdxIsNext
    <3>3. \A y \in S : meta[y].idx \in Nat
      BY <1>6, <3>1 DEF Entry
    <3>4. e.idx = i /\ \A y \in S : meta[y].dir = d => meta[y].idx # i
      BY <1>4, <2>3, <3>1, <3>2, <3>3
    <3> QED
      BY <2>1, <2>3, <3>1, <3>2, <3>4 DEF InRecord
  <2> QED
    BY <2>2, <2>3
<1>10. HeldOfKnown'
  <2> SUFFICES ASSUME NEW y \in Meters, NEW x \in Rows, held'[y][x].codes > 0
               PROVE  y \in DOMAIN meta' /\ x \in DOMAIN lines'
    BY DEF HeldOfKnown
  <2>1. CASE y = m /\ x = r
    BY <1>3, <1>4, <2>1
  <2>2. CASE ~(y = m /\ x = r)
    <3>1. held'[y][x] = held[y][x]
      BY <1>8, <2>2
    <3> QED
      BY <1>3, <1>4, <1>7, <3>1 DEF HeldOfKnown
  <2> QED
    BY <2>1, <2>2
<1>11. Contiguous(meta')
  <2>1. PICK mt, mt2 : mt = meta /\ mt2 = meta'
    OBVIOUS
  <2>2. /\ mt \in [DOMAIN mt -> Entry] /\ Contiguous(mt) /\ e \in Entry
        /\ InRecord(mt, m, e) /\ WithEntry(mt, m, e, mt2)
    BY <1>1, <1>6, <1>7, <1>9, <2>1
  <2>3. m \notin DOMAIN mt => (e.idx > 0 => \E y \in DOMAIN mt :
                                 mt[y].dir = e.dir /\ mt[y].idx = e.idx - 1)
    BY <1>9, <2>1
  <2>4. Contiguous(mt2)
    BY <2>2, <2>3, GrownContiguous
  <2> QED
    BY <2>1, <2>4
<1>12. ASSUME NEW x \in DOMAIN lines, x # r
       PROVE  Stored(lines'[x], meta', HeldAt(x)', ReadAt(x)')
  <2>1. HeldAt(x)' = HeldAt(x) /\ ReadAt(x)' = ReadAt(x) /\ lines'[x] = lines[x] /\ x \in Rows
    BY <1>3, <1>6, <1>8, <1>12 DEF HeldAt, ReadAt
  <2>2. PICK line, mt, mt2, h, R : /\ line = lines[x] /\ mt = meta /\ mt2 = meta'
                                   /\ h = HeldAt(x) /\ R = ReadAt(x)
    OBVIOUS
  <2>3. m \notin DOMAIN mt => h[m].codes = 0
    <3>1. h[m] = held[m][x] /\ held[m][x] \in Holding
      BY <2>1, <2>2, HeldTypes
    <3>2. held[m][x].codes \in 0 .. 3
      BY <3>1 DEF Holding
    <3> QED
      BY <1>7, <2>1, <2>2, <3>1, <3>2 DEF HeldOfKnown
  <2>4. mt \in [DOMAIN mt -> Entry] /\ Stored(line, mt, h, R) /\ e \in Entry
    BY <1>1, <1>6, <1>7, <1>12, <2>2
  <2>5. InRecord(mt, m, e) /\ WithEntry(mt, m, e, mt2)
    BY <1>9, <2>2
  <2>6. Stored(line, mt2, h, R)
    BY <2>3, <2>4, <2>5, ExtendedStores
  <2> QED
    BY <2>1, <2>2, <2>6
<1>13. Stored(before, meta, HeldAt(r), ReadAt(r))
  <2>1. PICK mt, h, R : mt = meta /\ h = HeldAt(r) /\ R = ReadAt(r)
    OBVIOUS
  <2>2. mt \in [DOMAIN mt -> Entry] /\ DOMAIN mt \subseteq Meters
    BY <1>6, <2>1
  <2>3. CASE r \in DOMAIN lines
    <3>1. PICK line : line = lines[r]
      OBVIOUS
    <3>2. line \in Line /\ before = Copied(line) /\ Stored(line, mt, h, R)
      BY <1>1, <1>6, <1>7, <2>1, <2>3, <3>1 DEF Imported
    <3>3. \A y \in DOMAIN mt : R[y] \in Received /\ h[y] \in Holding
      BY <1>6, <2>1, HeldTypes
    <3>4. Stored(Copied(line), mt, h, R)
      BY <2>2, <3>2, <3>3, CopyStores
    <3> QED
      BY <2>1, <3>2, <3>4
  <2>4. CASE r \notin DOMAIN lines
    <3>1. PICK i \in Nat, j \in Nat : before = NewLine(i, j)
      BY <1>1, <2>4 DEF Imported
    <3>2. \A y \in DOMAIN mt : h[y].codes = 0
      <4> SUFFICES ASSUME NEW y \in Meters PROVE HeldAt(r)[y].codes = 0
        BY <2>1, <2>2
      <4>1. HeldAt(r)[y] = held[y][r] /\ held[y][r].codes \in Nat
        BY <1>6 DEF HeldAt, Holding
      <4> QED
        BY <1>7, <2>4, <4>1 DEF HeldOfKnown
    <3>3. Stored(NewLine(i, j), mt, h, R)
      BY <2>2, <3>2, NewLineStores
    <3> QED
      BY <2>1, <3>1, <3>3
  <2> QED
    BY <2>3, <2>4
<1>14. Stored(lines'[r], meta', HeldAt(r)', ReadAt(r)')
  <2>1. PICK mt, mt2, h, h2, R : /\ mt = meta /\ mt2 = meta' /\ h = HeldAt(r)
                                 /\ h2 = HeldAt(r)' /\ R = ReadAt(r)
    OBVIOUS
  <2>2. mt \in [DOMAIN mt -> Entry] /\ Stored(before, mt, h, R)
    BY <1>6, <1>13, <2>1
  <2>3. \A y \in DOMAIN mt : R[y] \in Received /\ h[y] \in Holding
    BY <1>6, <2>1, HeldTypes
  <2>4. Sent(v, e, R[m])
    BY <1>5, <2>1 DEF ReadAt, Sent
  <2>5. OthersHeld(mt, m, h, h2) /\ h2[m].codes = Len(v)
    BY <1>6, <1>8, <2>1 DEF HeldAt, OthersHeld
  <2>6. InRecord(mt, m, e) /\ WithEntry(mt, m, e, mt2) /\ h[m].codes = 0
    BY <1>2, <1>9, <2>1 DEF HeldAt
  <2>7. Stored(WithValues(before, e, v), mt2, h2, R)
    BY <1>1, <2>2, <2>3, <2>4, <2>5, <2>6, ImportStores
  <2>8. ReadAt(r)' = ReadAt(r)
    BY DEF ReadAt
  <2> QED
    BY <1>3, <2>1, <2>7, <2>8
<1>15. LinesStored'
  BY <1>2, <1>3, <1>12, <1>14 DEF LinesStored, Written, Moving
<1>16. MoveFollows' /\ ResetFollows' /\ GradingFollows'
  BY <1>2 DEF MoveFollows, ResetFollows, GradingFollows, Moving
<1> QED
  BY <1>10, <1>11, <1>15, <1>16 DEF RInv

(* The rows of a matrix are enough for all values, and one at least        *)
(* (ConvertLineToMatrix).                                                  *)
LEMMA RowsSuffice ==
  ASSUME NEW length \in Nat, NEW cols \in CodeCounts
  PROVE  /\ MatrixRows(length, cols) \in Nat \ {0}
         /\ MatrixRows(length, cols) * cols \in Nat \ {0}
         /\ length <= MatrixRows(length, cols) * cols
         /\ (MatrixRows(length, cols) * cols - 1) % cols = cols - 1
         /\ (MatrixRows(length, cols) * cols) \div cols = MatrixRows(length, cols)
<1>1. PICK rows : rows = MatrixRows(length, cols)
  OBVIOUS
<1>2. PICK last \in Nat : last = IF length > 2 THEN length - 1 ELSE 1
  OBVIOUS
<1>3. length <= last + 1
  BY <1>2
<1>4. rows = (last + cols - (last % cols)) \div cols
  BY <1>1, <1>2 DEF MatrixRows
<1>5. CASE cols = 2
  <2>1. PICK q \in Nat, t \in 0 .. 1 : last = 2 * q + t
    <3>1. last = 2 * (last \div 2) + (last % 2)
      OBVIOUS
    <3>2. last \div 2 \in Nat /\ last % 2 \in 0 .. 1
      OBVIOUS
    <3> QED
      BY <3>1, <3>2
  <2>2. rows = q + 1
    BY <1>4, <1>5, <2>1
  <2>3. /\ rows \in Nat \ {0} /\ rows * 2 \in Nat \ {0} /\ length <= rows * 2
        /\ (rows * 2 - 1) % 2 = 1 /\ (rows * 2) \div 2 = rows
    BY <1>3, <2>1, <2>2
  <2> QED
    BY <1>1, <1>5, <2>3
<1>6. CASE cols = 3
  <2>1. PICK q \in Nat, t \in 0 .. 2 : last = 3 * q + t
    <3>1. last = 3 * (last \div 3) + (last % 3)
      OBVIOUS
    <3>2. last \div 3 \in Nat /\ last % 3 \in 0 .. 2
      OBVIOUS
    <3> QED
      BY <3>1, <3>2
  <2>2. rows = q + 1
    BY <1>4, <1>6, <2>1
  <2>3. /\ rows \in Nat \ {0} /\ rows * 3 \in Nat \ {0} /\ length <= rows * 3
        /\ (rows * 3 - 1) % 3 = 2 /\ (rows * 3) \div 3 = rows
    BY <1>3, <2>1, <2>2
  <2> QED
    BY <1>1, <1>6, <2>3
<1> QED
  BY <1>5, <1>6 DEF CodeCounts

(* A matrix shows the values of its line, and zeros behind them.           *)
LEMMA MatrixShows ==
  ASSUME NEW line \in Line, NEW d \in Directions
  PROVE  \E rows \in Nat, s \in Seq(Nat) :
           /\ ToMatrix(line, d) = MatrixOf(rows, Codes(d), s)
           /\ Len(line.values[d]) <= rows * Codes(d)
           /\ \A i \in Nat : ValueAt(s, i) = ValueAt(line.values[d], i)
<1>1. PICK v, cols, rows : /\ v = line.values[d] /\ cols = Codes(d)
                           /\ rows = MatrixRows(Len(v), cols)
  OBVIOUS
<1>2. v \in Seq(Nat) /\ cols \in CodeCounts /\ cols \in Nat \ {0}
  BY <1>1 DEF Line, Slices, Codes, CodeCounts
<1>3. Len(v) \in Nat
  BY <1>2
<1>4. /\ rows \in Nat /\ rows * cols \in Nat \ {0} /\ Len(v) <= rows * cols
      /\ (rows * cols - 1) % cols = cols - 1 /\ (rows * cols) \div cols = rows
  BY <1>1, <1>2, <1>3, RowsSuffice
<1>5. PICK n : n = rows * cols
  OBVIOUS
<1>6. ToMatrix(line, d) = EnsureSize(MatrixOf(rows, cols, v), n - 1)
  BY <1>1, <1>5 DEF ToMatrix, MakeMatrix, MatrixOf
<1>7. CASE n - 1 < Len(v)
  <2>1. EnsureSize(MatrixOf(rows, cols, v), n - 1) = MatrixOf(rows, cols, v)
    BY <1>7 DEF EnsureSize, MatrixOf
  <2> QED
    BY <1>1, <1>2, <1>4, <1>6, <2>1
<1>8. CASE ~(n - 1 < Len(v))
  <2>1. PICK A : A = MatrixOf(rows, cols, v)
    OBVIOUS
  <2>2. A.elements = v /\ A.cols = cols /\ A.rows = rows
    BY <2>1 DEF MatrixOf
  <2>3. (n - 1) - ((n - 1) % A.cols) + A.cols = n
    BY <1>2, <1>4, <1>5, <2>2
  <2>4. EnsureSize(A, n - 1) = [A EXCEPT !.elements = Fitted(@, n), !.rows = n \div A.cols]
    BY <1>8, <2>2, <2>3 DEF EnsureSize
  <2>5. EnsureSize(A, n - 1) = MatrixOf(rows, cols, Fitted(v, n))
    BY <1>4, <1>5, <2>1, <2>2, <2>4 DEF MatrixOf
  <2>6. Fitted(v, n) \in Seq(Nat)
    BY <1>2, <1>4, <1>5, FittedType
  <2>7. ASSUME NEW i \in Nat PROVE ValueAt(Fitted(v, n), i) = ValueAt(v, i)
    <3>1. ValueAt(Fitted(v, n), i) = IF i < n THEN ValueAt(v, i) ELSE 0
      BY <1>2, <1>4, <1>5, FittedAt
    <3>2. ~(i < n) => ValueAt(v, i) = 0
      BY <1>3, <1>4, <1>5 DEF ValueAt
    <3> QED
      BY <3>1, <3>2
  <2> QED
    BY <1>1, <1>4, <1>6, <2>1, <2>5, <2>6, <2>7
<1> QED
  BY <1>7, <1>8

(* What data prints of a meter, where the line holds what it should.       *)
Printed(m, r) ==
  LET entry  == meta[m]
      codes  == Codes(entry.dir)
      grades == lines[r].grades[entry.dir]
  IN  [meter |-> m,
       values |-> [k \in 1 .. codes |->
                     GetElm(ToMatrix(lines[r], entry.dir), entry.idx, k - 1)],
       grades |-> [k \in 1 .. codes |->
                     IF entry.idx * codes + k > Len(grades) THEN -1
                     ELSE grades[entry.idx * codes + k]]]

(* Where a line holds what it should, data prints the values that were     *)
(* received, with their qualities.                                         *)
LEMMA PrintedIsHeld ==
  ASSUME NEW m, NEW r, lines[r] \in Line, meta[m] \in Entry, NEW h \in Holding,
         NEW R \in Received, InColumn(lines[r], meta[m], h, R)
  PROVE  /\ h.codes > 0 => meta[m].idx < ToMatrix(lines[r], meta[m].dir).rows
         /\ \A k \in 1 .. Codes(meta[m].dir) :
              /\ Printed(m, r).values[k] = IF k <= h.codes THEN R[k] ELSE 0
              /\ k <= h.codes /\ h.graded => Printed(m, r).grades[k] = R[k]
<1>1. PICK e, line, d, x, c : /\ e = meta[m] /\ line = lines[r] /\ d = e.dir /\ x = e.idx
                              /\ c = Codes(d)
  OBVIOUS
<1>2. /\ e \in Entry /\ line \in Line /\ d \in Directions /\ x \in Nat /\ c \in {2, 3}
      /\ InColumn(line, e, h, R)
  BY <1>1 DEF Entry, Codes
<1>3. PICK rows, s : /\ rows \in Nat /\ s \in Seq(Nat)
                     /\ ToMatrix(line, d) = MatrixOf(rows, c, s)
                     /\ Len(line.values[d]) <= rows * c
                     /\ \A i \in Nat : ValueAt(s, i) = ValueAt(line.values[d], i)
  BY <1>1, <1>2, MatrixShows, SMTT(30)
<1>4. ASSUME NEW k \in 1 .. c
      PROVE  /\ Position(e, k) \in Nat /\ Position(e, k) = x * c + (k - 1)
             /\ x * c \in Nat /\ k \in 1 .. 3
             /\ ValueAt(line.values[d], Position(e, k)) = IF k <= h.codes THEN R[k] ELSE 0
             /\ h.graded /\ k <= h.codes => ValueAt(line.grades[d], Position(e, k)) = R[k]
             /\ R[k] \in Nat \ {0}
  <2>1. k \in 1 .. Codes(e.dir)
    BY <1>1
  <2>2. Position(e, k) \in Nat /\ k \in 1 .. 3
    BY <1>2, <2>1, Positions
  <2>3. x * c \in Nat
    BY <1>1, <1>2, ColumnsDisjoint
  <2>4. Position(e, k) = x * c + (k - 1)
    BY <1>1 DEF Position
  <2>5. R[k] \in Nat \ {0}
    BY <2>2 DEF Received
  <2> QED
    BY <1>1, <1>2, <2>1, <2>2, <2>3, <2>4, <2>5 DEF InColumn
<1>5. ASSUME h.codes > 0 PROVE x < rows
  <2>1. 1 \in 1 .. c /\ 1 <= h.codes
    BY <1>2, <1>5 DEF Holding
  <2>2. ValueAt(line.values[d], x * c + (1 - 1)) # 0 /\ x * c \in Nat
    BY <1>4, <2>1
  <2>3. PICK a, b, v : a = x * c /\ b = rows * c /\ v = line.values[d]
    OBVIOUS
  <2>4. ValueAt(v, a) # 0 /\ a \in Nat /\ a + (1 - 1) = a
    BY <2>2, <2>3
  <2>5. a < Len(v)
    BY <2>4, NothingBeyond
  <2>6. v \in Seq(Nat)
    BY <1>2, <2>3 DEF Line, Slices
  <2>7. Len(v) \in Nat
    BY <2>6
  <2>8. b \in Nat /\ a < b
    <3>1. b \in Nat
      BY <1>2, <1>3, <2>3
    <3> QED
      BY <1>3, <2>3, <2>4, <2>5, <2>7, <3>1
  <2> QED
    BY <1>2, <1>3, <2>3, <2>8
<1>6. ASSUME NEW k \in 1 .. c
      PROVE  Printed(m, r).values[k] = IF k <= h.codes THEN R[k] ELSE 0
  <2>1. Printed(m, r).values[k] = GetElm(ToMatrix(line, d), x, k - 1)
    BY <1>1, <1>6 DEF Printed
  <2>2. GetElm(ToMatrix(line, d), x, k - 1) = ValueAt(s, x * c + (k - 1))
    BY <1>3 DEF GetElm, MatrixOf
  <2> QED
    BY <1>3, <1>4, <1>6, <2>1, <2>2
<1>7. ASSUME NEW k \in 1 .. c, k <= h.codes, h.graded
      PROVE  Printed(m, r).grades[k] = R[k]
  <2>1. PICK g, p : g = line.grades[d] /\ p = x * c + k
    OBVIOUS
  <2>2. Printed(m, r).grades[k] = IF p > Len(g) THEN -1 ELSE g[p]
    BY <1>1, <1>7, <2>1 DEF Printed
  <2>3. p \in Nat /\ p - 1 \in Nat /\ Position(e, k) = p - 1 /\ (p - 1) + 1 = p
    BY <1>4, <1>7, <2>1
  <2>4. ValueAt(g, p - 1) = R[k] /\ R[k] # 0
    BY <1>4, <1>7, <2>1, <2>3
  <2>5. p - 1 < Len(g)
    BY <2>4, NothingBeyond
  <2>6. g \in Seq(Nat)
    BY <1>2, <2>1 DEF Line, Slices
  <2>7. Len(g) \in Nat
    BY <2>6
  <2>8. ~(p > Len(g)) /\ ValueAt(g, p - 1) = g[p]
    BY <2>3, <2>5, <2>7 DEF ValueAt
  <2> QED
    BY <2>2, <2>4, <2>8
<1>8. ToMatrix(line, d).rows = rows
  BY <1>3 DEF MatrixOf
<1> QED
  BY <1>1, <1>5, <1>6, <1>7, <1>8

(* While the entries can follow the lines, each line holds what was        *)
(* received for the meters of the record, or of the record that a move is  *)
(* about to write (RInv).                                                  *)
THEOREM ReadingsInductive == Spec => []RInv
<1>1. MInv /\ RInv /\ [Next]_vars => RInv'
  <2> SUFFICES ASSUME MInv, RInv, [Next]_vars PROVE RInv'
    OBVIOUS
  <2>1. CASE \E msg \in Messages : Import(msg[1], msg[2], msg[3])
    <3>1. PICK msg \in Messages : Import(msg[1], msg[2], msg[3])
      BY <2>1
    <3>2. msg[1] \in Meters /\ msg[2] \in Rows /\ msg[3] \in 1 .. 3
      BY MaintenanceAssumption
    <3> QED
      BY <3>1, <3>2, ImportReads
  <2>2. CASE \E m \in Meters : Move(m)
    BY <2>2, MoveReads
  <2>3. CASE \E m \in Meters, from, until \in Rows : Reset(m, from, until)
    BY <2>3, ResetReads
  <2>4. CASE \E from, until \in Rows : InitQoV(from, until)
    BY <2>4, InitQoVReads
  <2>5. CASE \E m \in Meters, r \in Rows : SetMeta(m, r)
    BY <2>5, SetMetaReads
  <2>6. CASE UNCHANGED vars
    <3>1. /\ lines' = lines /\ meta' = meta /\ running' = running /\ held' = held
          /\ regular' = regular
      BY <2>6 DEF vars
    <3>2. HeldOfKnown' = HeldOfKnown /\ Contiguous(meta') = Contiguous(meta)
      BY <3>1 DEF HeldOfKnown
    <3>3. LinesStored' = LinesStored
      BY <3>1 DEF LinesStored, Written, Moving, Afterwards, Reorganized, MovedHeld, HeldAt, ReadAt
    <3>4. MoveFollows' = MoveFollows
      BY <3>1 DEF MoveFollows, Moving, Target, NextIdx, Of
    <3>5. ResetFollows' = ResetFollows /\ GradingFollows' = GradingFollows
      BY <3>1 DEF ResetFollows, GradingFollows
    <3> QED
      BY <3>1, <3>2, <3>3, <3>4, <3>5 DEF RInv
  <2> QED
    BY <2>1, <2>2, <2>3, <2>4, <2>5, <2>6, WriteLineReads, FinishMoveReads, EndReads DEF Next
<1> QED
  BY <1>1, InitReads, MaintenanceInductive, PTL DEF Spec

(* While the entries can follow the lines, a meter keeps the values that   *)
(* were received for it, with their qualities, through all moves and resets*)
(* of other meters, and has none where it was reset, unless the reset left *)
(* them: read as data prints them (move.go 79-103, reset.go 25-46, data.go       *)
(* 72-101).                                                                *)
THEOREM ReadingsAreKept == Spec => []ReadingsFollow
<1>1. MInv /\ RInv => ReadingsFollow
  <2> SUFFICES ASSUME MInv, RInv, running = Idle, regular, NEW m \in DOMAIN meta,
                      NEW r \in DOMAIN lines
               PROVE  LET codes == held[m][r].codes
                          shown == {s \in Shown(r) : s.meter = m}
                      IN  /\ codes > 0 => shown # {}
                          /\ \A s \in shown, k \in 1 .. Codes(meta[m].dir) :
                               /\ s.values[k] = IF k <= codes THEN Reading[m][r][k] ELSE 0
                               /\ k <= codes /\ held[m][r].graded => s.grades[k] = s.values[k]
    BY DEF ReadingsFollow
  <2>1. lines[r] \in Line /\ meta[m] \in Entry /\ m \in Meters /\ r \in Rows
    BY DEF MInv, Records
  <2>2. Stored(lines[r], meta, HeldAt(r), ReadAt(r))
    BY DEF RInv, LinesStored, Written, Moving
  <2>3. PICK h, R : h = held[m][r] /\ R = Reading[m][r]
    OBVIOUS
  <2>4. h \in Holding /\ R \in Received /\ InColumn(lines[r], meta[m], h, R)
    <3>1. InColumn(lines[r], meta[m], HeldAt(r)[m], ReadAt(r)[m])
      BY <2>2 DEF Stored
    <3> QED
      BY <2>1, <2>3, <3>1, HeldTypes
  <2>5. /\ h.codes > 0 => meta[m].idx < ToMatrix(lines[r], meta[m].dir).rows
        /\ \A k \in 1 .. Codes(meta[m].dir) :
             /\ Printed(m, r).values[k] = IF k <= h.codes THEN R[k] ELSE 0
             /\ k <= h.codes /\ h.graded => Printed(m, r).grades[k] = R[k]
    BY <2>1, <2>4, PrintedIsHeld
  <2>6. Shown(r) = {Printed(x, r) :
                    x \in {y \in DOMAIN meta : meta[y].idx < ToMatrix(lines[r], meta[y].dir).rows}}
    BY DEF Shown, Printed
  <2>7. \A x : Printed(x, r).meter = x
    BY DEF Printed
  <2>8. {s \in Shown(r) : s.meter = m} =
          IF meta[m].idx < ToMatrix(lines[r], meta[m].dir).rows THEN {Printed(m, r)} ELSE {}
    <3> DEFINE Some == {y \in DOMAIN meta : meta[y].idx < ToMatrix(lines[r], meta[y].dir).rows}
    <3>1. m \in Some <=> meta[m].idx < ToMatrix(lines[r], meta[m].dir).rows
      OBVIOUS
    <3> HIDE DEF Some
    <3>2. Shown(r) = {Printed(x, r) : x \in Some}
      BY <2>6 DEF Some
    <3> QED
      BY <2>7, <3>1, <3>2
  <2> QED
    BY <2>3, <2>5, <2>8
<1> QED
  BY <1>1, MaintenanceInductive, ReadingsInductive, PTL

=============================================================================
