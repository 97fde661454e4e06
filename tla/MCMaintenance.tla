--------------------------- MODULE MCMaintenance ---------------------------
(* A small instance of Maintenance: values are powers of two, so that each *)
(* sum shows its terms.                                                    *)
EXTENDS Maintenance, TLC

CONSTANTS a, b, c, g   \* three consumers and a producer

MCDir == [m \in Meters |-> IF m = g THEN Producer ELSE Consumer]

MCReading ==
  LET number(m) == CASE m = a -> 0 [] m = b -> 1 [] m = c -> 2 [] OTHER -> 3
  IN  [m \in Meters |-> [r \in Rows |-> [k \in 1 .. 3 |->
         2 ^ (12 * (r - 1) + 3 * number(m) + k - 1)]]]

(* The values of a row come in any order; some messages have one code only.*)
MCMessages ==
  {<<a, 1, 3>>, <<b, 1, 1>>, <<b, 1, 3>>, <<c, 1, 3>>, <<g, 1, 2>>,
   <<c, 2, 3>>}

=============================================================================
