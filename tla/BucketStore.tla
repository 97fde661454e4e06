----------------------------- MODULE BucketStore -----------------------------
(* What the database layer (store/ebow) promises: named buckets of records *)
(* from which nothing disappears, also over a crash, but for buckets whose *)
(* creation was reported to have failed.                                   *)
CONSTANTS Names, Keys, Values, None

VARIABLES
  contents,  \* per bucket and key a value, or None
  unsettled  \* the buckets whose creation has not succeeded (yet)

storeVars == <<contents, unsettled>>

Records == [Keys -> Values \cup {None}]
Empty == [k \in Keys |-> None]

Init == contents = [n \in Names |-> Empty] /\ unsettled = {}

(* Some records of one bucket get new values at once; none is deleted.     *)
Write(n) ==
  \E new \in Records :
    /\ \A k \in Keys : new[k] = None => contents[n][k] = None
    /\ contents' = [contents EXCEPT ![n] = new]
    /\ UNCHANGED unsettled

(* The creation of an empty bucket begins.                                 *)
Create(n) ==
  /\ contents[n] = Empty
  /\ unsettled' = unsettled \cup {n}
  /\ UNCHANGED contents

(* The buckets are saved, all of them.                                     *)
Settle == unsettled' = {} /\ UNCHANGED contents

(* The database is closed, or the process ends.                            *)
Restart ==
  /\ contents' = [n \in Names |-> IF n \in unsettled THEN Empty ELSE contents[n]]
  /\ unsettled' = {}

Next == (\E n \in Names : Write(n) \/ Create(n)) \/ Settle \/ Restart

Spec == Init /\ [][Next]_storeVars

=============================================================================
