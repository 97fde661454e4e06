----------------------------- MODULE LineMatrix -----------------------------
(***************************************************************************)
(* The values of a source line (model.RawSourceLine), the matrices made of *)
(* them (model.Matrix of model/QuotaMatrix.go, utils/counterpoint.go) and  *)
(* the sums of a report (calculation/EEGCalculationV2.go).  A line has for *)
(* each direction a slice of values, three for each consumer and two for   *)
(* each producer, and a slice of their qualities.  Slices grow as values   *)
(* are inserted, so that lines differ in width and may end in the middle   *)
(* of a meter's values.  Values are natural numbers.                       *)
(***************************************************************************)
EXTENDS Integers, Sequences, SequencesExt

Consumer == "CONSUMPTION"
Producer == "GENERATION"
Directions == {Consumer, Producer}
Codes(dir) == IF dir = Consumer THEN 3 ELSE 2

-----------------------------------------------------------------------------
(* Slices.                                                                 *)

Zeros(n) == [i \in 1 .. n |-> 0]
ValueAt(s, i) == IF i < Len(s) THEN s[i + 1] ELSE 0
Fitted(s, n) == [i \in 1 .. n |-> ValueAt(s, i - 1)]
Grown(s, n) == IF n > Len(s) THEN Fitted(s, n) ELSE s

(* Insert and InsertInt replace the value at an index; here they do it for *)
(* values one after the other.                                             *)
Insert(s, i, values) ==
  [j \in DOMAIN Grown(s, i + Len(values)) |->
     IF j \in i + 1 .. i + Len(values) THEN values[j - i] ELSE ValueAt(s, j - 1)]

(* append(s[:i], s[j:]...)                                                 *)
Cut(s, i, j) == SubSeq(s, 1, i) \o SubSeq(s, j + 1, Len(s))

(* Mutation of NewLine: the qualities are as long as the values of         *)
(* producers.                                                              *)
NewLine_Producers(consumers, producers) ==
  [values |-> [d \in Directions |-> Zeros(IF d = Consumer THEN consumers ELSE producers)],
   grades |-> [d \in Directions |-> Zeros(producers)]]

(* MakeRawSourceLine makes the qualities of producers as long as the       *)
(* values of consumers.                                                    *)
NewLine(consumers, producers) ==
  [values |-> [d \in Directions |-> Zeros(IF d = Consumer THEN consumers ELSE producers)],
   grades |-> [d \in Directions |-> Zeros(consumers)]]

(* Copy: as many qualities as values.                                      *)
Copied(line) ==
  [line EXCEPT !.grades = [d \in Directions |-> Fitted(@[d], Len(line.values[d]))]]

-----------------------------------------------------------------------------
(* Matrices.                                                               *)

EnsureSize(A, index) ==
  IF index < Len(A.elements) THEN A
  ELSE LET size == index - (index % A.cols) + A.cols
       IN  [A EXCEPT !.elements = Fitted(@, size), !.rows = size \div A.cols]

MakeMatrix(elements, rows, cols) ==
  EnsureSize([rows |-> rows, cols |-> cols, elements |-> elements], rows * cols - 1)

NewMatrix(rows, cols) == MakeMatrix(Zeros(rows * cols), rows, cols)

GetElm(A, row, col) == ValueAt(A.elements, row * A.cols + col)

SetElm(A, row, col, v) ==
  LET index == row * A.cols + col
  IN  [EnsureSize(A, index) EXCEPT !.elements[index + 1] = v]

SetRow(A, row, values) ==
  IF row \notin 0 .. A.rows - 1 THEN A
  ELSE [A EXCEPT !.elements =
         [i \in DOMAIN @ |-> IF (i - 1) \div A.cols = row
                             THEN ValueAt(values, (i - 1) % A.cols) ELSE @[i]]]

(* Mutation of Add: matrices of different sizes are not added. *)
Add_Equal(A, B) ==
  IF A.cols # B.cols \/ A.rows # B.rows THEN A
  ELSE [A EXCEPT !.elements = [i \in DOMAIN @ |-> @[i] + ValueAt(B.elements, i - 1)]]

(* Add: the smaller matrix is extended by zeros; with other columns        *)
(* nothing is added.                                                       *)
Add(A, B) ==
  IF A.cols # B.cols THEN A
  ELSE LET rows == IF A.rows > B.rows THEN A.rows ELSE B.rows
       IN  [A EXCEPT !.rows = rows,
                     !.elements = [i \in 1 .. rows * A.cols |->
                        ValueAt(A.elements, i - 1) + ValueAt(B.elements, i - 1)]]

Multiply(A, B) ==
  MakeMatrix([i \in 1 .. A.rows * B.cols |->
                LET row == (i - 1) \div B.cols
                    col == (i - 1) % B.cols
                IN  FoldLeft(+, 0, [k \in 1 .. A.cols |->
                      GetElm(A, row, k - 1) * GetElm(B, k - 1, col)])],
             A.rows, B.cols)

(* The unit matrix that selects a column of a matrix with n columns.       *)
Selecting(col, n) == SetElm(MakeMatrix(Zeros(n), n, 1), col, 0, 1)

(* ConvertLineToMatrix: a row that has begun counts, and there is one at   *)
(* least.                                                                  *)
MatrixRows(length, cols) ==
  LET last == IF length > 2 THEN length - 1 ELSE 1
  IN  (last + cols - (last % cols)) \div cols

ToMatrix(line, dir) ==
  MakeMatrix(line.values[dir], MatrixRows(Len(line.values[dir]), Codes(dir)), Codes(dir))

-----------------------------------------------------------------------------
(* The sums of a report.                                                   *)

NewResults(consumers, producers) ==
  [cons |-> NewMatrix(consumers, 1), shar |-> NewMatrix(consumers, 1),
   alloc |-> NewMatrix(consumers, 1),
   prod |-> NewMatrix(producers, 1), dist |-> NewMatrix(producers, 1)]

(* AllocDynamicV2: what a line allocates, shares and distributes are       *)
(* values that were received, and no longer calculated.                    *)
AllocDynamic(consumers, producers) ==
  [alloc |-> Multiply(consumers, Selecting(2, 3)),
   shar  |-> Multiply(consumers, Selecting(1, 3)),
   dist  |-> Multiply(producers, Selecting(1, 2))]

(* appendResults *)
AppendResults(results, line) ==
  LET consumers == ToMatrix(line, Consumer)
      producers == ToMatrix(line, Producer)
      allocated == AllocDynamic(consumers, producers)
  IN  [cons  |-> Add(results.cons, Multiply(consumers, Selecting(0, 3))),
       shar  |-> Add(results.shar, allocated.shar),
       alloc |-> Add(results.alloc, allocated.alloc),
       prod  |-> Add(results.prod, Multiply(producers, Selecting(0, 2))),
       dist  |-> Add(results.dist, allocated.dist)]

(* appendEnergyToParticipantMeter: what a meter is reported with.          *)
Reported(results, entry) ==
  LET of(A) == GetElm(A, entry.idx, 0)
  IN  IF entry.dir = Consumer
      THEN <<of(results.cons), of(results.shar), of(results.alloc)>>
      ELSE <<of(results.prod), of(results.dist)>>

=============================================================================
