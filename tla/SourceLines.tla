----------------------------- MODULE SourceLines -----------------------------
(***************************************************************************)
(* The source lines of a community over a period, as its reports read      *)
(* them: quarter hours counted from the first midnight of the period, on   *)
(* days without a change of the clock.  A line has the columns of the      *)
(* meters known when it was written; one quality stands for all of them.   *)
(* Reports add lines up, so that a sum is the lines it is made of.         *)
(***************************************************************************)
EXTENDS Integers, Sequences, FiniteSets

CONSTANTS
  Days,       \* bound: the days of the period are 0 .. Days - 1
  DayLen,     \* quarter hours of a day
  Columns,    \* the meta record: the index of each meter, from 0
  Strangers,  \* meters of participants for which no values were received
  Quality     \* the quality of each line, 0 .. 3

Rows == 0 .. Days * DayLen - 1

ASSUME LinesAssumption ==
  /\ Days \in Nat \ {0} /\ DayLen \in Nat \ {0}
  /\ Columns \in [DOMAIN Columns -> Nat] /\ IsFiniteSet(DOMAIN Columns)
  /\ Strangers \cap DOMAIN Columns = {}
  /\ Quality \in [Rows -> 0 .. 3]

VARIABLES
  lines,   \* the rows in the database
  joined   \* the row from which on all meters have columns

DayOf(t) == t \div DayLen
Midnight(d) == d * DayLen

(* Until then a line has the column of the first meter only.               *)
Width(t) == IF t < joined THEN 1 ELSE Cardinality(DOMAIN Columns)

(* What a participant asks for: a meter, and the times since when and      *)
(* until when it is his, in the period or not.  They are counted in half   *)
(* quarter hours, because they need not be those of rows: an odd one is in *)
(* a quarter hour, after its first minute.                                 *)
Meters == DOMAIN Columns \cup Strangers
Requests == [meter : Meters, from : Int, until : Int]

DayAt(time) == DayOf(time \div 2)
FirstRow(time) == (time + 1) \div 2  \* the first that is not before the time

(* A set of times in order: the n-th has n - 1 before it. *)
Sorted(S) ==
  [n \in 1 .. Cardinality(S) |-> CHOOSE t \in S : Cardinality({x \in S : x < t}) = n - 1]

(* The elements of a sequence at some of its places, in their order. *)
PickedAt(s, places) ==
  LET at == Sorted(places)
  IN  [n \in DOMAIN at |-> s[at[n]]]

(* The rows with values of a meter among those of a sequence: beyond the   *)
(* end of a line GetElm answers 0.                                         *)
ValuesIn(rows, meter) == PickedAt(rows, {n \in DOMAIN rows : Columns[meter] < Width(rows[n])})

=============================================================================
