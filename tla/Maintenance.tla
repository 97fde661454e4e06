---------------------------- MODULE Maintenance ----------------------------
(***************************************************************************)
(* The commands that change the database of a community while the service  *)
(* is stopped: move (cmd/move.go, cmd/functions.go) makes a consumer a     *)
(* producer or back, reset (cmd/reset.go, store/function/reset.go) clears  *)
(* the values of a meter, meta (cmd/meta.go) sets the period of a meter,   *)
(* and the program initQoV.go sets qualities.                              *)
(* A command reads the meta record and the lines, writes lines, and then   *)
(* may write the meta record; it may die in between, and no other process  *)
(* can have the database open meanwhile.  Between commands the service     *)
(* imports energy (EnergyImport).                                          *)
(*                                                                         *)
(* Each row is a quarter hour of a day of its own.  Commands for a meter   *)
(* that is not known end with an error or a panic before they write.       *)
(***************************************************************************)
EXTENDS LineMatrix, FiniteSets, FiniteSetsExt

CONSTANTS
  Meters,
  Dir,         \* the direction in which a meter is first imported
  Rows,        \* the rows a line may have, in the order of time
  Reading,     \* per meter and row, the values that are received
  Messages,    \* the messages: a meter, a row, and how many codes are in it,
               \* at most as many as the direction has it is first imported in
  MaxCommands, \* bound: the commands run
  Idle

ASSUME MaintenanceAssumption ==
  /\ IsFiniteSet(Meters)
  /\ Dir \in [Meters -> Directions]
  /\ Rows \subseteq Nat
  /\ Reading \in [Meters -> [Rows -> [1 .. 3 -> Nat \ {0}]]]
  /\ Messages \subseteq {msg \in Meters \X Rows \X (1 .. 3) : msg[3] <= Codes(Dir[msg[1]])}
  /\ MaxCommands \in Nat

(* A command that runs is not taken for none.                              *)
ASSUME IdleIsNoCommand ==
  LET line  == [values : [Directions -> Seq(Nat)], grades : [Directions -> Seq(Nat)]]
      entry == [dir : Directions, idx : Nat, from : Rows, until : Rows]
  IN  Idle \notin [command : {"move", "reset", "initQoV"}, meter : Meters \cup {Idle},
                   target : entry \cup {Idle},
                   todo : UNION {[S -> line] : S \in SUBSET Rows}]

VARIABLES
  lines,     \* the source lines: per existing row its values and qualities
  meta,      \* the meta record: per known meter its column and period
  running,   \* the command that has read the database, with the lines it has
             \* still to write
  commands,  \* how many commands were started
  held,      \* per meter and row, for the properties: how many codes the
             \* database has, and whether with their qualities
  cleared,   \* the meters and rows that were reset and not imported since
  regular    \* whether all commands so far could be followed by the meta
             \* record, and all imports were of codes that have a column

vars == <<lines, meta, running, commands, held, cleared, regular>>

Nothing == <<>>
Of(dir) == {m \in DOMAIN meta : meta[m].dir = dir}

(* Mutation of NextIdx: the number of meters. *)
NextIdx_Count(dir) == Cardinality(Of(dir))

(* CalcMetaInfo: one more than the largest index of a direction.           *)
NextIdx(dir) ==
  IF Of(dir) = {} THEN 0 ELSE Max({meta[m].idx : m \in Of(dir)}) + 1

Init ==
  /\ lines = Nothing /\ meta = Nothing
  /\ running = Idle /\ commands = 0
  /\ held = [m \in Meters |-> [r \in Rows |-> [codes |-> 0, graded |-> FALSE]]]
  /\ cleared = {} /\ regular = TRUE

-----------------------------------------------------------------------------
(* The service: the first n values of a meter for a row, in the direction  *)
(* of its entry.                                                           *)

Entered(m) == IF m \in DOMAIN meta THEN meta[m].dir ELSE Dir[m]

(* Mutation of WithValues: producers have three values, like consumers.    *)
WithValues_Three(line, entry, values) ==
  LET into(slice) == Insert(slice, entry.idx * 3, values)
  IN  [line EXCEPT !.values[entry.dir] = into(@), !.grades[entry.dir] = into(@)]

(* addEnergyValueToResource, for each code                                 *)
WithValues(line, entry, values) ==
  LET into(slice) == Insert(slice, entry.idx * Codes(entry.dir), values)
  IN  [line EXCEPT !.values[entry.dir] = into(@), !.grades[entry.dir] = into(@)]

(* A quality is shown by the value it belongs to.  A consumer that became  *)
(* a producer goes on sending three codes: the third is written where the  *)
(* next producer has his first.                                            *)
Import(m, r, n) ==
  LET dir    == Entered(m)
      known  == IF m \in DOMAIN meta THEN meta[m]
                ELSE [dir |-> dir, idx |-> NextIdx(dir), from |-> r, until |-> r]
      entry  == [known EXCEPT !.from = Min({@, r}), !.until = Max({@, r})]
      count(d) == Cardinality(Of(d) \cup (IF d = dir THEN {m} ELSE {}))
      before == IF r \in DOMAIN lines THEN Copied(lines[r])
                ELSE NewLine(count(Consumer), count(Producer))
  IN  /\ running = Idle
      /\ held[m][r].codes = 0
      /\ lines' = [x \in DOMAIN lines \cup {r} |->
                     IF x = r THEN WithValues(before, entry, SubSeq(Reading[m][r], 1, n))
                     ELSE lines[x]]
      /\ meta' = [x \in DOMAIN meta \cup {m} |-> IF x = m THEN entry ELSE meta[x]]
      /\ held' = [held EXCEPT ![m][r] = [codes |-> n, graded |-> TRUE]]
      /\ cleared' = cleared \ {<<m, r>>}
      /\ regular' = (regular /\ n <= Codes(dir))
      /\ UNCHANGED <<running, commands>>

-----------------------------------------------------------------------------
(* What a command reads.                                                   *)

(* GetLineRange *)
Within(from, until) == {r \in DOMAIN lines : from <= r /\ r <= until}

(* moveToProducer reads the first two values and their qualities.          *)
Movable(line, idx) ==
  /\ idx * 3 + 2 <= Len(line.values[Consumer])
  /\ idx * 3 + 2 <= Len(line.grades[Consumer])

(* moveToProducer: the meters behind it move up, in the qualities only if  *)
(* there are values behind the meter.                                      *)
Moved(line, idx, to) ==
  LET copy    == Copied(line)
      pair(s) == <<s[idx * 3 + 1], s[idx * 3 + 2]>>
      cutAt(s) == Min({idx * 3 + 3, Len(s)})
      values  == Cut(copy.values[Consumer], idx * 3, cutAt(copy.values[Consumer]))
  IN  [values |-> [copy.values EXCEPT
         ![Consumer] = values,
         ![Producer] = Insert(@, to * 2, pair(line.values[Consumer]))],
       grades |-> [copy.grades EXCEPT
         ![Consumer] = Cut(@, idx * 3, cutAt(values)),
         ![Producer] = Insert(@, to * 2, pair(line.grades[Consumer]))]]

(* getTargetMeta: the entry of the other direction.                        *)
Target(m) ==
  LET dir == IF meta[m].dir = Producer THEN Consumer ELSE Producer
  IN  [meta[m] EXCEPT !.dir = dir, !.idx = NextIdx(dir)]

(* Whether the entries can follow the lines: they are numbered from the    *)
(* first one on, which stays where it is, and all lines with the column    *)
(* must be in the period of the meter.  The lines of a producer do not     *)
(* move.                                                                   *)
Followed(m) ==
  /\ meta[m].dir = Consumer
  /\ meta[m].idx = 0 => \A n \in Of(Consumer) : meta[n].idx = 0
  /\ \A r \in DOMAIN lines \ Within(meta[m].from, meta[m].until) :
       Len(lines[r].values[Consumer]) <= 3 * meta[m].idx

(* handleMove up to the first write; it panics when a line is too short.   *)
Move(m) ==
  LET source == meta[m]
      read   == Within(source.from, source.until)
      target == Target(m)
  IN  /\ running = Idle /\ commands < MaxCommands
      /\ m \in DOMAIN meta
      /\ source.dir = Consumer => \A r \in read : Movable(lines[r], source.idx)
      /\ running' = [command |-> "move", meter |-> m, target |-> target,
                     todo |-> IF source.dir = Consumer
                              THEN [r \in read |-> Moved(lines[r], source.idx, target.idx)]
                              ELSE Nothing]
      /\ commands' = commands + 1
      /\ regular' = (regular /\ Followed(m))
      /\ UNCHANGED <<lines, meta, held, cleared>>

(* Reset: lines with too few rows are skipped, and those that end with the *)
(* column, or in the middle of it, are a panic.                            *)
Affected(line, entry) == entry.idx <= ToMatrix(line, entry.dir).rows
Whole(line, dir) == Len(line.values[dir]) % Codes(dir) = 0
Clearable(line, entry) ==
  (entry.idx + 1) * Codes(entry.dir) <= Len(line.values[entry.dir])

(* The matrix shares the values of the line only if it need not extend     *)
(* them: then they are cleared with it.  The qualities always are.         *)
Cleared(line, entry) ==
  LET dir  == entry.dir
      copy == Copied(line)
      made == SetRow(ToMatrix(copy, dir), entry.idx, <<>>).elements
      quality == [i \in DOMAIN copy.grades[dir] |->
                    IF (i - 1) \div Codes(dir) = entry.idx THEN 0 ELSE copy.grades[dir][i]]
  IN  [copy EXCEPT !.values[dir] = IF Whole(line, dir) THEN made ELSE @,
                   !.grades[dir] = quality]

Reset(m, from, until) ==
  LET entry == meta[m]
      found == {r \in Within(from, until) : Affected(lines[r], entry)}
  IN  /\ running = Idle /\ commands < MaxCommands
      /\ m \in DOMAIN meta
      /\ \A r \in found : Clearable(lines[r], entry)
      /\ running' = [command |-> "reset", meter |-> m, target |-> entry,
                     todo |-> [r \in found |-> Cleared(lines[r], entry)]]
      /\ commands' = commands + 1
      /\ UNCHANGED <<lines, meta, held, cleared, regular>>

(* initQoV.go: all qualities of the lines get one value.                   *)
InitQoV(from, until) ==
  LET graded(line) == [d \in Directions |-> [i \in DOMAIN line.values[d] |-> 1]]
  IN  /\ running = Idle /\ commands < MaxCommands
      /\ running' = [command |-> "initQoV", meter |-> Idle, target |-> Idle,
                     todo |-> [r \in Within(from, until) |->
                                 [lines[r] EXCEPT !.grades = graded(lines[r])]]]
      /\ commands' = commands + 1
      /\ UNCHANGED <<lines, meta, held, cleared, regular>>

-----------------------------------------------------------------------------
(* What a command writes.                                                  *)

(* What is held after a line is written: a line that ends within the       *)
(* values of a meter loses its qualities in a move, as fewer of them are   *)
(* cut out than values, and keeps its values in a reset.                   *)
Ungraded(r) == [m \in Meters |-> [held[m] EXCEPT ![r].graded = FALSE]]
HeldAfter(r) ==
  LET m == running.meter
  IN  CASE running.command = "move" ->
             IF Whole(lines[r], Consumer) THEN held ELSE Ungraded(r)
        [] running.command = "reset" ->
             IF Whole(lines[r], meta[m].dir) THEN [held EXCEPT ![m][r].codes = 0]
             ELSE [held EXCEPT ![m][r].graded = FALSE]
        [] running.command = "initQoV" -> Ungraded(r)

(* SetLines writes one line after the other.                               *)
WriteLine ==
  /\ running # Idle /\ DOMAIN running.todo # {}
  /\ LET r == Min(DOMAIN running.todo)
     IN  /\ lines' = [lines EXCEPT ![r] = running.todo[r]]
         /\ running' = [running EXCEPT !.todo = [x \in DOMAIN @ \ {r} |-> @[x]]]
         /\ held' = HeldAfter(r)
         /\ cleared' = IF running.command = "reset" THEN cleared \cup {<<running.meter, r>>}
                       ELSE cleared
  /\ UNCHANGED <<meta, commands, regular>>

(* Mutation of Reorganized: the gap of the moved entry stays. *)
Reorganized_Not(mt) == mt

(* reorganizeMeta: the entries of a direction are numbered on from the     *)
(* smallest index.                                                         *)
Reorganized(mt) ==
  [m \in DOMAIN mt |->
     LET same   == {mt[n].idx : n \in {x \in DOMAIN mt : mt[x].dir = mt[m].dir}}
         before == {i \in same : i < mt[m].idx}
     IN  [mt[m] EXCEPT !.idx = Min(same) + Cardinality(before)]]

(* updateMeta: the meter has the entry that was prepared.  Of three values *)
(* a producer has two.                                                     *)
FinishMove ==
  /\ running # Idle /\ running.command = "move" /\ DOMAIN running.todo = {}
  /\ meta' = Reorganized([meta EXCEPT ![running.meter] = running.target])
  /\ LET codes(r) == Min({held[running.meter][r].codes, Codes(running.target.dir)})
     IN  held' = [held EXCEPT ![running.meter] =
                    [r \in Rows |-> [held[running.meter][r] EXCEPT !.codes = codes(r)]]]
  /\ running' = Idle
  /\ UNCHANGED <<lines, commands, cleared, regular>>

FinishLines ==
  /\ running # Idle /\ running.command # "move" /\ DOMAIN running.todo = {}
  /\ running' = Idle
  /\ UNCHANGED <<lines, meta, commands, held, cleared, regular>>

(* The command dies before it has written everything.                      *)
Crash ==
  /\ running # Idle
  /\ regular' = (regular /\ running.command # "move")
  /\ running' = Idle
  /\ UNCHANGED <<lines, meta, commands, held, cleared>>

(* setMeta: the begin or the end of a meter's period.                      *)
SetMeta(m, r) ==
  /\ running = Idle /\ commands < MaxCommands
  /\ m \in DOMAIN meta
  /\ \/ meta' = [meta EXCEPT ![m].from = r]
     \/ meta' = [meta EXCEPT ![m].until = r]
  /\ commands' = commands + 1
  /\ UNCHANGED <<lines, running, held, cleared, regular>>

Next ==
  \/ \E msg \in Messages : Import(msg[1], msg[2], msg[3])
  \/ \E m \in Meters : Move(m)
  \/ \E m \in Meters, from, until \in Rows : Reset(m, from, until)
  \/ \E from, until \in Rows : InitQoV(from, until)
  \/ WriteLine \/ FinishMove \/ FinishLines \/ Crash
  \/ \E m \in Meters, r \in Rows : SetMeta(m, r)

Spec == Init /\ [][Next]_vars

-----------------------------------------------------------------------------
(* What data prints of a line (handleData): per meter with a row its       *)
(* values and qualities, where -1 stands for one that is missing.          *)
Shown(r) ==
  {LET entry  == meta[m]
       codes  == Codes(entry.dir)
       grades == lines[r].grades[entry.dir]
   IN  [meter |-> m,
        values |-> [k \in 1 .. codes |->
                      GetElm(ToMatrix(lines[r], entry.dir), entry.idx, k - 1)],
        grades |-> [k \in 1 .. codes |->
                      IF entry.idx * codes + k > Len(grades) THEN -1
                      ELSE grades[entry.idx * codes + k]]] :
     m \in {x \in DOMAIN meta : meta[x].idx < ToMatrix(lines[r], meta[x].dir).rows}}

(* The report of a period with all lines.                                  *)
Results ==
  FoldLeft(LAMBDA results, r : AppendResults(results, lines[r]),
           NewResults(Cardinality(Of(Consumer)), Cardinality(Of(Producer))),
           SetToSortSeq(DOMAIN lines, <))

-----------------------------------------------------------------------------
(* Lines are slices of values with their qualities, of which there may be  *)
(* more than values (MakeRawSourceLine, moveToProducer), and the indices   *)
(* count the meters.                                                       *)
MaintenanceTypeOK ==
  /\ DOMAIN lines \subseteq Rows
  /\ \A r \in DOMAIN lines, d \in Directions :
       /\ lines[r].values[d] \in Seq(Nat) /\ lines[r].grades[d] \in Seq(Nat)
       /\ d = Consumer => Len(lines[r].grades[d]) >= Len(lines[r].values[d])
  /\ DOMAIN meta \subseteq Meters
  /\ \A m \in DOMAIN meta :
       /\ meta[m].dir \in Directions /\ meta[m].idx \in Nat
       /\ meta[m].from \in Rows /\ meta[m].until \in Rows
  /\ commands \in 0 .. MaxCommands
  /\ running # Idle => /\ running.command \in {"move", "reset", "initQoV"}
                       /\ running.command # "initQoV" => running.meter \in DOMAIN meta
                       /\ DOMAIN running.todo \subseteq DOMAIN lines
  /\ held \in [Meters -> [Rows -> [codes : 0 .. 3, graded : BOOLEAN]]]
  /\ cleared \in SUBSET (Meters \X Rows) /\ regular \in BOOLEAN

(* Two meters never share a column, whatever commands were run and wherever*)
(* they died (getTargetMeta, move.go 119-160; reorganizeMeta,              *)
(* functions.go 8-45).                                                     *)
ColumnsApart ==
  \A m, n \in DOMAIN meta :
    m # n /\ meta[m].dir = meta[n].dir => meta[m].idx # meta[n].idx

(* What a reset has left of the values it is to set to 0: it leaves those  *)
(* of lines that end within the values of another meter.                   *)
Uncleared == {mr \in cleared : held[mr[1]][mr[2]].codes > 0}

(* While the entries can follow the lines, a meter keeps the values that   *)
(* were received for it, with their qualities, through all moves and resets*)
(* of other meters, and has none where it was reset, unless the reset left *)
(* them: read as data prints them (move.go 79-103, reset.go 25-46, data.go *)
(* 72-101).                                                                *)
ReadingsFollow ==
  running = Idle /\ regular =>
    \A m \in DOMAIN meta, r \in DOMAIN lines :
      LET codes == held[m][r].codes
          shown == {s \in Shown(r) : s.meter = m}
      IN  <<m, r>> \notin Uncleared =>
          /\ codes > 0 => shown # {}
          /\ \A s \in shown, k \in 1 .. Codes(meta[m].dir) :
               /\ s.values[k] = IF k <= codes THEN Reading[m][r][k] ELSE 0
               /\ k <= codes /\ held[m][r].graded => s.grades[k] = s.values[k]

(* A report counts each value of a meter once, and none where it was       *)
(* reset, although the lines are of different widths, end within the values*)
(* of a meter, and change (ConvertLineToMatrix, counterpoint.go 143-155;   *)
(* appendResults, EEGCalculationV2.go 41-90; Add, QuotaMatrix.go 169-206). *)
ReportIsSum ==
  running = Idle /\ regular =>
    LET results == Results
    IN  \A m \in {n \in DOMAIN meta : \A r \in Rows : <<n, r>> \notin Uncleared} :
          Reported(results, meta[m]) =
            [k \in 1 .. Codes(meta[m].dir) |->
               FoldFunctionOnSet(+, 0, [r \in Rows |-> Reading[m][r][k]],
                                 {r \in Rows : k <= held[m][r].codes})]

(* The k-th value of a meter for a row.                                    *)
Value(m, r, k) ==
  IF r \in DOMAIN lines THEN GetElm(ToMatrix(lines[r], meta[m].dir), meta[m].idx, k - 1) ELSE 0

(* An import changes no value of another meter, whatever commands were run *)
(* and wherever they died, but for the first one of the producer behind a  *)
(* meter with three codes (addEnergyValueToResource, importFunctions.go    *)
(* 182-207).                                                               *)
ImportsStayApart ==
  [][\A msg \in Messages :
       Import(msg[1], msg[2], msg[3]) =>
         \A n \in DOMAIN meta \ {msg[1]}, r \in Rows : \A k \in 1 .. Codes(meta[n].dir) :
           \/ Value(n, r, k)' = Value(n, r, k)
           \/ /\ r = msg[2] /\ k = 1 /\ msg[3] = 3
              /\ meta'[msg[1]].dir = Producer /\ meta[n].dir = Producer
              /\ meta[n].idx = meta'[msg[1]].idx + 1]_vars

=============================================================================
