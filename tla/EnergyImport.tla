---------------------------- MODULE EnergyImport ----------------------------
(***************************************************************************)
(* The import of energy messages into the database of one community:       *)
(* TenantEnergyImporter.Import and SplitEnergyByDay of                     *)
(* mqttclient/energyExecutor.go, StoreEnergyV2 of store/importFunctions.go *)
(* and PrepareMetaInfoMap of store/rawDataHelper.go.                       *)
(*                                                                         *)
(* A worker imports its messages one after the other.  It splits a message *)
(* into parts of 24 hours and stores all parts at the same time, each in a *)
(* goroutine of its own that reads and writes the database as follows:     *)
(* read the meta record, add the meter to it if it is new and write it;    *)
(* read the source lines of the days of the part; put the values into the  *)
(* meter's column and write all these lines back; extend the meter's       *)
(* period, re-read the meta record and write it.                           *)
(*                                                                         *)
(* Time is counted in the intervals of a message (15 minutes).  A source   *)
(* line is keyed by the local wall clock, so at the end of summer time two *)
(* intervals share a line.  The columns of a meter (its meter codes) are   *)
(* one column here, and a cell holds the intervals added up in it: each    *)
(* interval of each message is a value of its own.                         *)
(***************************************************************************)
EXTENDS Naturals, Sequences, FiniteSets, FiniteSetsExt

CONSTANTS
  Meters,
  Dir,        \* direction of a meter: consumers and producers have columns
              \* of their own
  DayLen,     \* intervals of a day of 24 hours
  ChangeAt,   \* intervals before the hour at which the clock is changed
  FlushSize,  \* lines that PutBatch writes at once
  Midnights,  \* the local midnights, 0 among them
  Horizon,    \* bound: the intervals are 0 .. Horizon - 1
  Batches,    \* the sequences of messages [meter, from, until] considered
  Faults,     \* what may fail: writing the source "lines", the "meta" record
              \* with a new meter, or reading it and writing the "period"
  Never       \* the empty string of a period that is not set

ASSUME ImportAssumption ==
  /\ IsFiniteSet(Meters)
  /\ DayLen \in Nat \ {0} /\ ChangeAt \in Nat /\ FlushSize \in Nat \ {0}
  /\ Horizon \in Nat
  /\ 0 \in Midnights /\ Midnights \subseteq Nat /\ IsFiniteSet(Midnights)
  /\ Batches \subseteq Seq([meter : Meters, from : Nat, until : 1 .. Horizon])
  /\ \A b \in Batches : \A i \in DOMAIN b : b[i].from < b[i].until
  /\ Faults \subseteq {"lines", "meta", "period"}
  /\ Never \notin Nat

VARIABLES
  meta,    \* the meta record: per known meter its column and period
  lines,   \* the source lines: per existing row its columns
  batch,   \* the messages of the worker, one after the other
  number,  \* the number of the message it imports, 0 before the first
  pc,      \* per part of the message, where its goroutine is
  cp,      \* per part, the goroutine's copy of the meter's meta entry
  view,    \* per part, its copy of the meta record
  fetched, \* per part, its copies of the source lines
  failed   \* parts whose lines or meter were not, or not all, written

input  == <<batch, number>>
locals == <<cp, view, fetched>>
vars == <<meta, lines, input, pc, locals, failed>>

-----------------------------------------------------------------------------
(* The calendar.                                                           *)

Intervals == 0 .. Horizon - 1

MaxOf(a, b) == IF a > b THEN a ELSE b
MinOf(a, b) == IF a < b THEN a ELSE b

(* dayStart *)
DayStart(t) == Max({d \in Midnights : d <= t})
DayOf(t) == Cardinality({d \in Midnights : d <= t}) - 1
LengthOf(day) ==
  LET start == CHOOSE d \in Midnights : DayOf(d) = day
      later == {d \in Midnights : d > start}
  IN  IF later = {} THEN DayLen ELSE Min(later) - start

(* The wall clock of an interval, as the row id shows it.  On a longer day *)
(* the hour from ChangeAt on comes twice, on a shorter one it is left out. *)
Clock(t) ==
  LET since == t - DayStart(t)
      length == LengthOf(DayOf(t))
  IN  IF since + DayLen < ChangeAt + MaxOf(length, DayLen)
      THEN since ELSE since + DayLen - length

(* A day of the wall clock has 24 hours, however long it lasts.            *)
ASSUME ClockAssumption == \A t \in Intervals : Clock(t) \in 0 .. DayLen - 1

(* ConvertUnixTimeToRowId: the ids sort like these numbers.                *)
RowOf(t) == DayOf(t) * DayLen + Clock(t)
Rows == 0 .. (Cardinality(Midnights) * DayLen - 1)

(* SplitEnergyByDay: steps of 24 hours from the first midnight; a part is  *)
(* the intervals from lo to hi - 1, and its End the interval hi - 1.       *)
(* Mutation of Steps: the last day is left out. *)
Steps_Short(m) ==
  {k \in 0 .. Horizon : DayStart(m.from) + k * DayLen < DayStart(m.until)}

Steps(m) ==
  {k \in 0 .. Horizon : DayStart(m.from) + k * DayLen <= DayStart(m.until)}

Part(m, k) ==
  LET day == DayStart(m.from) + k * DayLen
  IN  [lo |-> MaxOf(day, m.from), hi |-> MinOf(day + DayLen, m.until)]

Split(m) == {p \in {Part(m, k) : k \in Steps(m)} : p.lo < p.hi}

PartIntervals(p) == p.lo .. p.hi - 1

-----------------------------------------------------------------------------
(* The meta record.                                                        *)

Column(m, idx) == <<Dir[m], idx>>
Columns == {Column(m, i) : m \in Meters, i \in 0 .. Cardinality(Meters) - 1}

(* Mutation of NewIdx: the number of meters instead of the largest index. *)
NewIdx_Count(mt, m) == Cardinality(DOMAIN mt) + 1

(* CalcMetaInfo: one more than the largest index of the direction.         *)
NewIdx(mt, m) ==
  LET used == {mt[n].idx : n \in {x \in DOMAIN mt : Dir[x] = Dir[m]}}
  IN  IF used = {} THEN 0 ELSE Max(used) + 1

(* PrepareMetaInfoMap: the record as read, with the meter in it.           *)
WithMeter(mt, m) ==
  [n \in DOMAIN mt \cup {m} |->
     IF n \in DOMAIN mt THEN mt[n]
     ELSE [idx |-> NewIdx(mt, m), first |-> Never, last |-> Never]]

(* updateMetaCP: an unset start counts as now, an unset end as 1970.       *)
StartsBefore(p, entry) == entry.first = Never \/ RowOf(p.lo) < entry.first
EndsAfter(p, entry) == entry.last = Never \/ RowOf(p.hi - 1) > entry.last

(* Mutation of Extended: the end is always set. *)
Extended_End(entry, p) ==
  [entry EXCEPT !.first = IF StartsBefore(p, entry) THEN RowOf(p.lo) ELSE @,
                !.last = RowOf(p.hi - 1)]

Extended(entry, p) ==
  [entry EXCEPT !.first = IF StartsBefore(p, entry) THEN RowOf(p.lo) ELSE @,
                !.last = IF EndsAfter(p, entry) THEN RowOf(p.hi - 1) ELSE @]

-----------------------------------------------------------------------------
(* The source lines.                                                       *)

msg == batch[number]

EmptyLine == [c \in Columns |-> {}]

(* importEnergyValuesV2: the first interval of a row sets the cell, a      *)
(* second one is added to it.                                              *)
ValueOf(i, p) ==
  [r \in {RowOf(t) : t \in PartIntervals(p)} |->
     {<<i, t>> : t \in {u \in PartIntervals(p) : RowOf(u) = r}}]

Imported(old, p, col) ==
  LET new == ValueOf(number, p)
  IN  [r \in DOMAIN old \cup DOMAIN new |->
         LET line == IF r \in DOMAIN old THEN old[r] ELSE EmptyLine
         IN  IF r \in DOMAIN new THEN [line EXCEPT ![col] = new[r]] ELSE line]

(* What the part writes, from the lines it has read.                       *)
UpdatedLines(p) == Imported(fetched[p], p, Column(msg.meter, cp[p].idx))

(* SetLines: these rows of what is written are stored.                     *)
Put(written, rows) ==
  lines' = [r \in DOMAIN lines \cup rows |->
              IF r \in rows THEN written[r] ELSE lines[r]]

(* PutBatch: the lines go to the database in batches, and those of the     *)
(* first batches stay when a later one fails.  The lines of a part are in  *)
(* the order of their rows.                                                *)
FirstBatches(rows) ==
  {s \in {{r \in rows : r < b} : b \in rows \cup {Cardinality(Midnights) * DayLen}} :
     Cardinality(s) % FlushSize = 0}

(* Mutation of FetchedDays: the last day is not read. *)
FetchedDays_Until(p) == {d \in DayOf(p.lo) .. DayOf(p.hi - 1) : d < DayOf(p.hi - 1)}

(* fetchSourceRange: all lines of the days of the part.                    *)
FetchedDays(p) == DayOf(p.lo) .. DayOf(p.hi - 1)

-----------------------------------------------------------------------------
None == [lo |-> 0, hi |-> 0]
NoMeta == [m \in {} |-> 0]
NoLines == [r \in {} |-> EmptyLine]
NoEntry == [idx |-> 0, first |-> Never, last |-> Never]

Init ==
  /\ meta = NoMeta
  /\ lines = NoLines
  /\ batch \in Batches
  /\ number = 0
  /\ pc = [p \in {} |-> "meta"]
  /\ cp = [p \in {} |-> NoEntry]
  /\ view = [p \in {} |-> NoMeta]
  /\ fetched = [p \in {} |-> NoLines]
  /\ failed = {}

Waiting == \A p \in DOMAIN pc : pc[p] = "done"

(* Import: the next message, once the goroutines of the last are done.     *)
NextMessage ==
  /\ number < Len(batch)
  /\ Waiting
  /\ number' = number + 1
  /\ LET parts == Split(batch[number + 1]) IN
       /\ pc' = [p \in parts |-> "meta"]
       /\ cp' = [p \in parts |-> NoEntry]
       /\ view' = [p \in parts |-> NoMeta]
       /\ fetched' = [p \in parts |-> NoLines]
  /\ failed' = {}
  /\ UNCHANGED <<meta, lines, batch>>

Goto(p, from, to) == pc[p] = from /\ pc' = [pc EXCEPT ![p] = to]

(* PrepareMetaInfoMap reads the record and adds the meter if it is new ... *)
ReadMeta(p) ==
  /\ Goto(p, "meta", IF msg.meter \in DOMAIN meta THEN "fetch" ELSE "create")
  /\ view' = [view EXCEPT ![p] = WithMeter(meta, msg.meter)]
  /\ cp' = [cp EXCEPT ![p] = WithMeter(meta, msg.meter)[msg.meter]]
  /\ UNCHANGED <<meta, lines, input, fetched, failed>>

(* ... and then writes the record it read.                                 *)
CreateMeta(p) ==
  /\ Goto(p, "create", "fetch")
  /\ meta' = view[p]
  /\ UNCHANGED <<lines, input, locals, failed>>

(* A failure to write it is ignored.                                       *)
CreateFails(p) ==
  /\ "meta" \in Faults
  /\ Goto(p, "create", "fetch")
  /\ failed' = failed \cup {p}
  /\ UNCHANGED <<meta, lines, input, locals>>

FetchLines(p) ==
  /\ Goto(p, "fetch", "write")
  /\ fetched' = [fetched EXCEPT ![p] =
       [r \in {x \in DOMAIN lines : x \div DayLen \in FetchedDays(p)} |-> lines[r]]]
  /\ UNCHANGED <<meta, lines, input, cp, view, failed>>

(* All lines read are written back, the new and the old.                   *)
WriteLines(p) ==
  /\ Put(UpdatedLines(p), DOMAIN UpdatedLines(p))
  /\ Goto(p, "write",
          IF StartsBefore(p, cp[p]) \/ EndsAfter(p, cp[p]) THEN "reread" ELSE "done")
  /\ cp' = [cp EXCEPT ![p] = Extended(@, p)]
  /\ UNCHANGED <<meta, input, view, fetched, failed>>

(* The part is over when its lines cannot be written, or not all of them.  *)
WriteFails(p) ==
  /\ "lines" \in Faults
  /\ \E rows \in FirstBatches(DOMAIN UpdatedLines(p)) : Put(UpdatedLines(p), rows)
  /\ Goto(p, "write", "done")
  /\ failed' = failed \cup {p}
  /\ UNCHANGED <<meta, input, locals>>

(* updateMeta reads the record again ...                                   *)
RereadMeta(p) ==
  /\ Goto(p, "reread", "save")
  /\ view' = [view EXCEPT ![p] = meta]
  /\ UNCHANGED <<meta, lines, input, cp, fetched, failed>>

(* ... and writes it with the period of the copy taken at the beginning.   *)
SaveMeta(p) ==
  /\ Goto(p, "save", "done")
  /\ meta' = IF msg.meter \in DOMAIN view[p]
             THEN [view[p] EXCEPT ![msg.meter].first = cp[p].first,
                                  ![msg.meter].last = cp[p].last]
             ELSE meta
  /\ UNCHANGED <<lines, input, locals, failed>>

(* It is also over when the record cannot be read, or the period not be    *)
(* written: the lines it has written by then stay.                         *)
MetaFails(p) ==
  /\ "period" \in Faults
  /\ pc[p] \in {"meta", "reread", "save"}
  /\ pc' = [pc EXCEPT ![p] = "done"]
  /\ failed' = failed \cup {q \in {p} : pc[q] = "meta"}
  /\ UNCHANGED <<meta, lines, input, locals>>

StorePart(p) ==
  \/ ReadMeta(p) \/ CreateMeta(p) \/ CreateFails(p) \/ FetchLines(p)
  \/ WriteLines(p) \/ WriteFails(p) \/ RereadMeta(p) \/ SaveMeta(p)
  \/ MetaFails(p)

Next == NextMessage \/ \E p \in DOMAIN pc : StorePart(p)

Spec == Init /\ [][Next]_vars

-----------------------------------------------------------------------------
Labels == {"meta", "create", "fetch", "write", "reread", "save", "done"}
Entries == [idx : 0 .. Cardinality(Meters) - 1,
            first : Rows \cup {Never}, last : Rows \cup {Never}]
IsMeta(mt) == DOMAIN mt \subseteq Meters /\ \A m \in DOMAIN mt : mt[m] \in Entries
IsLines(ls) ==
  /\ DOMAIN ls \subseteq Rows
  /\ \A r \in DOMAIN ls : \A c \in Columns : ls[r][c] \subseteq Nat \X Intervals

TypeOK ==
  /\ IsMeta(meta) /\ IsLines(lines)
  /\ number \in Nat
  /\ \A p \in DOMAIN pc : p.lo \in Intervals /\ p.hi \in Nat
  /\ pc \in [DOMAIN pc -> Labels]
  /\ cp \in [DOMAIN pc -> Entries]
  /\ \A p \in DOMAIN pc : IsMeta(view[p]) /\ IsLines(fetched[p])
  /\ failed \subseteq DOMAIN pc

(* What the reports see of a meter: its column, found through the meta.    *)
Cell(m, r) ==
  IF m \in DOMAIN meta /\ r \in DOMAIN lines
  THEN lines[r][Column(m, meta[m].idx)] ELSE {}

(* SplitEnergyByDay loses no interval of a message and imports none twice. *)
SplitIsPartition ==
  number > 0 =>
    /\ UNION {PartIntervals(p) : p \in DOMAIN pc} = msg.from .. msg.until - 1
    /\ \A p, q \in DOMAIN pc :
         p # q => PartIntervals(p) \cap PartIntervals(q) = {}

(* When the goroutines of a message are done, every value of it is in the  *)
(* database, except those of parts that could not be written.              *)
ValuesStored ==
  number > 0 /\ Waiting =>
    \A p \in DOMAIN pc \ failed : \A r \in DOMAIN ValueOf(number, p) :
      Cell(msg.meter, r) = ValueOf(number, p)[r]

(* The message is split without a loss, and what its parts hold is stored  *)
(* (SplitEnergyByDay, StoreEnergyV2).                                      *)
MessageStored == SplitIsPartition /\ ValuesStored

(* The import implements EnergyStore: seen through the meta record, the    *)
(* write of a part changes that part of that meter and nothing else, or,   *)
(* when it fails, the first rows of it, and no write of the meta record    *)
(* changes any energy.                                                     *)
Energy == [m \in Meters |-> [r \in Rows |-> Cell(m, r)]]

FirstRows(f, before) == [r \in {x \in DOMAIN f : x < before} |-> f[r]]

Parts ==
  UNION {UNION {{[meter |-> b[i].meter, value |-> FirstRows(ValueOf(i, p), n)]
                 : p \in Split(b[i]), n \in 0 .. Cardinality(Midnights) * DayLen}
                : i \in DOMAIN b} : b \in Batches}

Store == INSTANCE EnergyStore WITH energy <- Energy

ImplementsEnergyStore == Store!EnergySpec

=============================================================================
