---------------------------- MODULE MeterPeriods ----------------------------
(***************************************************************************)
(* The period that the meta record keeps of each meter (updateMetaCP and   *)
(* updateMeta of store/importFunctions.go), beside the lines that          *)
(* EnergyImport stores.                                                    *)
(***************************************************************************)
EXTENDS EnergyImport

VARIABLE behind   \* history: the meters whose period was set back by a copy
                  \* of the record, or not written after their lines were

periodVars == <<vars, behind>>

-----------------------------------------------------------------------------
InPeriod(r, entry) ==
  /\ entry.first # Never /\ entry.first <= r
  /\ entry.last # Never  /\ r <= entry.last

(* A period that is not set is part of every other one.                    *)
Within(old, new) ==
  /\ old.first = Never \/ (new.first # Never /\ new.first <= old.first)
  /\ old.last = Never \/ (new.last # Never /\ old.last <= new.last)

(* The meters that a write of the record takes part of their period from,  *)
(* when another part may have written it after this one has read it.       *)
SetBack(p) ==
  {m \in DOMAIN meta :
     /\ \E q \in DOMAIN pc \ {p} : pc[q] \notin {"meta", "create"}
     /\ m \notin DOMAIN meta' \/ ~Within(meta[m], meta'[m])}

(* The part is over and its values are stored, some of them at least, and  *)
(* not its period.                                                         *)
NotSaved(p) ==
  /\ pc'[p] = "done"
  /\ \/ pc[p] \in {"reread", "save"} /\ meta' = meta /\ ~Within(cp[p], meta[msg.meter])
     \/ pc[p] = "write" /\ p \in failed' /\ lines' # lines

PeriodInit == Init /\ behind = {}

PeriodStep(p) ==
  /\ StorePart(p)
  /\ behind' = behind \cup SetBack(p) \cup {msg.meter : q \in {x \in {p} : NotSaved(x)}}

PeriodNext ==
  \/ NextMessage /\ UNCHANGED behind
  \/ \E p \in DOMAIN pc : PeriodStep(p)

PeriodSpec == PeriodInit /\ [][PeriodNext]_periodVars

-----------------------------------------------------------------------------
(* The hour of the change comes twice.  A part that begins in its first    *)
(* pass, or ends in its second one, does not begin with its smallest row,  *)
(* or end with its largest.                                                *)
Since(t) == t - DayStart(t)
BeginsInside(t) ==
  ChangeAt < Since(t) /\ Since(t) + DayLen < ChangeAt + LengthOf(DayOf(t))
EndsInside(t) ==
  /\ ChangeAt + LengthOf(DayOf(t)) <= Since(t) + DayLen
  /\ Since(t) + 2 * DayLen + 1 < ChangeAt + 2 * LengthOf(DayOf(t))

CutsChange(p) == BeginsInside(p.lo) \/ EndsInside(p.hi - 1)

(* Between two messages the period in the meta record covers all values of *)
(* the meter, in however many parts they came, unless a part has set it    *)
(* back or could not write it: the first and last line of the meter are    *)
(* found by it (updateMetaCP, updateMeta).                                 *)
PeriodCovers ==
  Waiting /\ (\A i \in 1 .. number : \A p \in Split(batch[i]) : ~CutsChange(p)) =>
    \A m \in DOMAIN meta \ behind : \A r \in DOMAIN lines :
      Cell(m, r) # {} => InPeriod(r, meta[m])

=============================================================================
