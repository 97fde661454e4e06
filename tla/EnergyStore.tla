---------------------------- MODULE EnergyStore ----------------------------
(***************************************************************************)
(* What an import promises, without columns, meta records and goroutines:  *)
(* the energy of a meter at a time of day is the one imported last, and an *)
(* import of one part of a message changes that part of that meter only.   *)
(***************************************************************************)
CONSTANTS
  Meters,
  Rows,       \* the times of day a value can be stored at
  Parts       \* what one import stores: [meter, value], value a partial
              \* function from Rows

VARIABLE energy   \* per meter and row, what is stored there

EmptyCell == {}

EnergyInit == energy = [m \in Meters |-> [r \in Rows |-> EmptyCell]]

StorePart(p) ==
  energy' = [energy EXCEPT ![p.meter] =
               [r \in Rows |-> IF r \in DOMAIN p.value THEN p.value[r] ELSE @[r]]]

EnergyNext == \E p \in Parts : StorePart(p)

EnergySpec == EnergyInit /\ [][EnergyNext]_energy

=============================================================================
