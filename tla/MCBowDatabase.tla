--------------------------- MODULE MCBowDatabase ---------------------------
(* Small instances of BowDatabase: the two buckets of the service, a line  *)
(* of each of two days and a meta record.                                  *)
EXTENDS BowDatabase, TLC

CONSTANTS Rawdata, Metadata, c1, c2

Day(d, i) == <<d, i>>
Meta == <<0>>
MCKeys == {Day(1, 1), Day(2, 1), Meta}
MCValues == {1, 2}

Entry(k, v) == [key |-> k, value |-> v]
Batch(b, records) == [bucket |-> b, records |-> records]
MCBatches ==
  {Batch(Rawdata, <<>>),  \* a query
   Batch(Rawdata, <<Entry(Day(1, 1), 2), Entry(Day(1, 1), 1), Entry(Day(2, 1), 1)>>),
   Batch(Metadata, <<Entry(Meta, 1)>>)}

(* Clients do the same things.                                             *)
Symmetry == Permutations(Clients)

=============================================================================
