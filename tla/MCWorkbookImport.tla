-------------------------- MODULE MCWorkbookImport --------------------------
(* A small instance of WorkbookImport.                                     *)
EXTENDS WorkbookImport, TLC

CONSTANTS a, b, g   \* two consumers and a generator

MCDir == [m \in Meters |-> IF m = g THEN "GENERATION" ELSE "CONSUMPTION"]

Message(m, from, until) == [meter |-> m, from |-> from, until |-> until]
Total(m) == [meter |-> m, code |-> "Total"]
TotalTF(m) == [meter |-> m, code |-> "TotalTF"]

(* Two messages of one day, or one of two days.                            *)
MCBatches ==
  {<<Message(m, 0, 3), Message(n, 0, 2)>> : m \in {a, g}, n \in {a, b}}
    \cup {<<Message(a, 0, 6)>>}

Sheet(columns, rows) ==
  [columns |-> columns, dated |-> TRUE, first |-> 0, last |-> 2, rows |-> rows]

(* One meter or two, one of them not imported; a row that repeats an id;   *)
(* a sheet no row of which is recognised as data, and one that is refused. *)
MCFiles ==
  {Sheet(<<Total(b)>>, <<0, 1>>),
   Sheet(<<TotalTF(a), Total(b), Total(a)>>, <<1, 2>>),
   Sheet(<<Total(g), TotalTF(a)>>, <<1, 1>>),
   Sheet(<<Total(a), TotalTF(a)>>, <<2, 2>>),
   Sheet(<<Total(b)>>, <<>>),
   [Sheet(<<Total(b)>>, <<0>>) EXCEPT !.dated = FALSE]}

=============================================================================
