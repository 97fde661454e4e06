--------------------------- MODULE WorkbookImport ---------------------------
(***************************************************************************)
(* The import of an Excel workbook (ImportFile of excel/import.go,         *)
(* ImportExcelEnergyFileNew of excel/ExcelSourceNew.go and                 *)
(* buildMatrixMetaStruct of excel/ExcelSource.go) into a database that     *)
(* MQTT messages are imported into at the same time (EnergyImport), and    *)
(* the death of the process between two of their writes.                   *)
(*                                                                         *)
(* The upload runs in the goroutine of its request.  It reads the meta     *)
(* record once, at the first data row of the sheet, and the source line of *)
(* each row when it comes to it; at the end of the sheet it writes all its *)
(* lines, in batches, and then its copy of the meta record.                *)
(*                                                                         *)
(* A value of the sheet is <<meter, data row, meter code>>, a value of a   *)
(* message <<message, interval>>.  Of the codes of a meter the model has   *)
(* the total and the total by participation factor (TotalTF), which go to  *)
(* the same cell.                                                          *)
(***************************************************************************)
EXTENDS EnergyImport

CONSTANTS
  Files,       \* the sheets considered: [columns, dated, first, last, rows]
               \*   columns  the header, a sequence of [meter, code]
               \*   dated    whether the header has a valid period,
               \*   first, last  and what it is
               \*   rows     the data rows: a sequence of intervals
  MaxUploads,  \* bound: how many sheets are uploaded
  MaxCrashes,  \* bound: how often the process dies
  NoFile

ASSUME WorkbookAssumption ==
  /\ MaxUploads \in Nat /\ MaxCrashes \in Nat
  /\ Files \subseteq [columns : Seq([meter : Meters, code : {"Total", "TotalTF"}]),
                       dated : BOOLEAN, first : Rows, last : Rows, rows : Seq(Intervals)]
  /\ NoFile \notin Files

VARIABLES
  spc,      \* where the upload is
  file,     \* its sheet
  sread,    \* the meta record as it was read at the first data row
  scopies,  \* the source lines as they were read, per row id
  srow,     \* the number of data rows read
  swritten, \* the rows whose lines it has written
  uploads, crashes,
  lost      \* history: meters whose entry was dropped or moved to another
            \* column, or never written, when they may have had values

sheetVars == <<spc, file, sread, scopies, srow, swritten>>
bounds == <<uploads, crashes>>
allVars == <<vars, sheetVars, bounds, lost>>

-----------------------------------------------------------------------------
(* The sheet.                                                              *)

HasColumn(f, m, code) ==
  \E i \in DOMAIN f.columns : f.columns[i] = [meter |-> m, code |-> code]

(* A meter is imported if it has a column of total values; the columns of  *)
(* the others are ignored.                                                 *)
MetersOf(f) == {m \in Meters : HasColumn(f, m, "Total")}

(* The imported meters are in the order of their first column of totals.   *)
Earlier(f, n, m) ==
  \E i \in DOMAIN f.columns :
    /\ f.columns[i] = [meter |-> n, code |-> "Total"]
    /\ \A j \in 1 .. i : f.columns[j] # [meter |-> m, code |-> "Total"]

HasFactor(f, m) == HasColumn(f, m, "TotalTF")

Occurrences(f, r) == {k \in DOMAIN f.rows : RowOf(f.rows[k]) = r}

(* A value by participation factor takes the place of the total ...        *)
SetBy(f, m, k) == {<<m, k, IF HasFactor(f, m) THEN "TotalTF" ELSE "Total">>}

(* ... but where a row id occurs again, the values are added to the cell,  *)
(* both of them.                                                           *)
AddedBy(f, m, k) ==
  {<<m, k, c>> : c \in IF HasFactor(f, m) THEN {"Total", "TotalTF"} ELSE {"Total"}}

(* Mutation of SheetCell: a repeated row id replaces the values before. *)
SheetCell_Last(f, m, r) == SetBy(f, m, Max(Occurrences(f, r)))

SheetCell(f, m, r) ==
  LET first == Min(Occurrences(f, r))
  IN  SetBy(f, m, first)
        \cup UNION {AddedBy(f, m, k) : k \in Occurrences(f, r) \ {first}}

Extend(entry, f) ==
  [entry EXCEPT !.first = IF @ = Never \/ f.first < @ THEN f.first ELSE @,
                !.last = IF @ = Never \/ f.last > @ THEN f.last ELSE @]

(* New meters count the largest index of their direction up, in turn.      *)
SheetIdx(mt, f, m) ==
  NewIdx(mt, m)
    + Cardinality({n \in MetersOf(f) \ DOMAIN mt : Dir[n] = Dir[m] /\ Earlier(f, n, m)})

SheetEntry(mt, f, m) ==
  Extend(IF m \in DOMAIN mt THEN mt[m]
         ELSE [idx |-> SheetIdx(mt, f, m), first |-> Never, last |-> Never], f)

(* Mutation of SheetMeta: the meters of the sheet only. *)
SheetMeta_Own(mt, f) == [m \in MetersOf(f) |-> SheetEntry(mt, f, m)]

(* Mutation of SheetMeta: the largest index is not counted up. *)
SheetMeta_SameIdx(mt, f) ==
  [m \in DOMAIN mt \cup MetersOf(f) |->
     IF m \in MetersOf(f) THEN Extend(WithMeter(mt, m)[m], f) ELSE mt[m]]

(* buildMatrixMetaStruct: new meters get the next columns of their         *)
(* direction, and the period of each meter is extended to the sheet's.     *)
SheetMeta(mt, f) ==
  [m \in DOMAIN mt \cup MetersOf(f) |->
     IF m \in MetersOf(f) THEN SheetEntry(mt, f, m) ELSE mt[m]]

SheetColumns(mt, f) ==
  {Column(m, SheetMeta(mt, f)[m].idx) : m \in MetersOf(f)}

(* Mutation of SheetLines: the lines are not read first. *)
SheetLines_Blank(f, mt, copies) ==
  [r \in {RowOf(f.rows[k]) : k \in DOMAIN f.rows} |->
     [c \in Columns |->
        UNION {SheetCell(f, m, r) : m \in {x \in MetersOf(f) :
                                      Column(x, SheetMeta(mt, f)[x].idx) = c}}]]

SheetRows(f) == {RowOf(f.rows[k]) : k \in DOMAIN f.rows}

(* The lines the upload writes: the lines as read, with the values of the  *)
(* sheet in the columns of its meters.                                     *)
SheetLines(f, mt, copies) ==
  [r \in SheetRows(f) |->
     [c \in Columns |->
        IF c \notin SheetColumns(mt, f) THEN copies[r][c]
        ELSE UNION {SheetCell(f, m, r) : m \in {x \in MetersOf(f) :
                                           Column(x, SheetMeta(mt, f)[x].idx) = c}}]]

(* The meters of one record that another lacks or has in another column.   *)
Displaced(mt, other) ==
  {m \in DOMAIN mt : m \notin DOMAIN other \/ mt[m].idx # other[m].idx}

-----------------------------------------------------------------------------
WorkbookInit ==
  /\ Init
  /\ spc = "idle" /\ file = NoFile /\ sread = NoMeta /\ scopies = NoLines
  /\ srow = 0 /\ swritten = {}
  /\ uploads = 0 /\ crashes = 0
  /\ lost = {}

(* The upload is over: its goroutine and all it knows are gone.            *)
SheetDone ==
  /\ spc' = "idle" /\ file' = NoFile /\ sread' = NoMeta /\ scopies' = NoLines
  /\ srow' = 0 /\ swritten' = {}

(* ImportFile, ImportEEG: the header rows of the sheet.                    *)
Upload ==
  /\ spc = "idle" /\ uploads < MaxUploads
  /\ uploads' = uploads + 1
  /\ file' \in Files
  /\ spc' = IF file'.rows = <<>> THEN "write" ELSE "meta"
  /\ UNCHANGED <<vars, sread, scopies, srow, swritten, crashes, lost>>

(* The first data row: the meta record is read, or the import is refused   *)
(* for a header without period.                                            *)
ReadSheetMeta ==
  /\ spc = "meta" /\ file.dated
  /\ sread' = meta
  /\ spc' = "rows"
  /\ UNCHANGED <<vars, file, scopies, srow, swritten, bounds, lost>>

RefuseSheet ==
  /\ spc = "meta" /\ ~file.dated
  /\ SheetDone
  /\ UNCHANGED <<vars, bounds, lost>>

(* A data row: its line is read unless an earlier row had the same id.     *)
ReadRow ==
  /\ spc = "rows"
  /\ srow' = srow + 1
  /\ LET r == RowOf(file.rows[srow + 1]) IN
       scopies' = [x \in DOMAIN scopies \cup {r} |->
                     CASE x \in DOMAIN scopies -> scopies[x]
                       [] x \in DOMAIN lines \ DOMAIN scopies -> lines[x]
                       [] OTHER -> EmptyLine]
  /\ spc' = IF srow' = Len(file.rows) THEN "write" ELSE "rows"
  /\ UNCHANGED <<vars, file, sread, swritten, bounds, lost>>

(* What the upload writes as the meta record: nothing was read for a sheet *)
(* without data rows.                                                      *)
SheetRecord == IF file.rows = <<>> THEN NoMeta ELSE SheetMeta(sread, file)

(* The meters that the upload has written values of, some at least, and    *)
(* that the database has no entry for, or another one.                     *)
Unsaved == IF swritten = {} THEN {} ELSE Displaced(SheetRecord, meta)

(* SetLines: a batch of the lines is written.  They come out of a map, in  *)
(* any order.                                                              *)
WriteSheet ==
  /\ spc = "write"
  /\ LET rest == SheetRows(file) \ swritten IN
       \E rows \in SUBSET rest :
         /\ Cardinality(rows) = MinOf(FlushSize, Cardinality(rest))
         /\ Put(SheetLines(file, sread, scopies), rows)
         /\ swritten' = swritten \cup rows
         /\ spc' = IF rows = rest THEN "save" ELSE "write"
  /\ UNCHANGED <<meta, input, pc, locals, failed, file, sread, scopies, srow,
                 bounds, lost>>

(* The upload ends where a batch cannot be written; those before it stay.  *)
WriteSheetFails ==
  /\ spc = "write" /\ "lines" \in Faults
  /\ lost' = lost \cup Unsaved
  /\ SheetDone
  /\ UNCHANGED <<vars, bounds>>

SaveSheetMeta ==
  /\ spc = "save"
  /\ meta' = SheetRecord
  /\ lost' = lost \cup Displaced(meta, meta')
  /\ SheetDone
  /\ UNCHANGED <<lines, input, pc, locals, failed, bounds>>

SaveSheetFails ==
  /\ spc = "save" /\ "meta" \in Faults
  /\ lost' = lost \cup Unsaved
  /\ SheetDone
  /\ UNCHANGED <<vars, bounds>>

-----------------------------------------------------------------------------
(* The steps of EnergyImport; a record written without a meter it had, or  *)
(* not written at all, loses that meter.                                   *)
ImportStep ==
  /\ Next
  /\ lost' = lost \cup Displaced(meta, meta')
                  \cup {msg.meter : p \in {q \in failed' \ failed : pc[q] = "create"}}
  /\ UNCHANGED <<sheetVars, bounds>>

(* The process dies and starts again: what is in the database remains, and *)
(* the message it was importing is not delivered again.                    *)
Crash ==
  /\ crashes < MaxCrashes
  /\ crashes' = crashes + 1
  /\ lost' = lost \cup Unsaved
  /\ pc' = [p \in {} |-> "meta"]
  /\ cp' = [p \in {} |-> NoEntry]
  /\ view' = [p \in {} |-> NoMeta]
  /\ fetched' = [p \in {} |-> NoLines]
  /\ failed' = {}
  /\ SheetDone
  /\ UNCHANGED <<meta, lines, input, uploads>>

UploadStep ==
  \/ Upload \/ ReadSheetMeta \/ RefuseSheet \/ ReadRow
  \/ WriteSheet \/ WriteSheetFails \/ SaveSheetMeta \/ SaveSheetFails

WorkbookNext == ImportStep \/ UploadStep \/ Crash

WorkbookSpec == WorkbookInit /\ [][WorkbookNext]_allVars

-----------------------------------------------------------------------------
SheetLabels == {"idle", "meta", "rows", "write", "save"}
SheetValues == Meters \X Nat \X {"Total", "TotalTF"}
HoldsValues(ls) ==
  /\ DOMAIN ls \subseteq Rows
  /\ \A r \in DOMAIN ls : \A c \in Columns : \A v \in ls[r][c] :
       v \in SheetValues \/ v \in Nat \X Intervals

WorkbookTypeOK ==
  /\ IsMeta(meta) /\ IsMeta(sread)
  /\ HoldsValues(lines) /\ HoldsValues(scopies)
  /\ \A p \in DOMAIN pc : IsMeta(view[p]) /\ HoldsValues(fetched[p])
  /\ spc \in SheetLabels
  /\ file \in Files \cup {NoFile}
  /\ srow \in Nat /\ swritten \subseteq Rows
  /\ uploads \in 0 .. MaxUploads /\ crashes \in 0 .. MaxCrashes
  /\ lost \subseteq Meters

OwnerOf(v) == IF Len(v) = 2 THEN batch[v[1]].meter ELSE v[1]

(* An upload has written lines and not yet the record that explains them.  *)
Unexplained == swritten # {} /\ Displaced(meta, SheetRecord) # {}

(* The column of a meter holds its own values, and at most values of a     *)
(* meter whose entry got lost with its values still there                  *)
(* (ExcelSourceNew.go 180, rawDataHelper.go 112): two writers never give   *)
(* one column to two meters that both keep their entry.                    *)
ColumnsOwned ==
  ~Unexplained =>
    \A m \in DOMAIN meta, r \in DOMAIN lines :
      \A v \in lines[r][Column(m, meta[m].idx)] : OwnerOf(v) \in {m} \cup lost

(* A write of a copy of the meta record that others have changed since.    *)
StaleRecord ==
  \/ spc = "save" /\ (Displaced(meta, sread) # {} \/ Displaced(sread, meta) # {})
  \/ \E p \in DOMAIN pc : pc[p] \in {"create", "save"} /\ Displaced(meta, view[p]) # {}

(* No import drops the entry of a meter or gives it another column, except *)
(* one that writes an outdated copy of the record, and an upload without a *)
(* single data row: it empties the record (ExcelSourceNew.go 180).         *)
EntriesStay ==
  \/ Displaced(meta, meta') = {}
  \/ StaleRecord
  \/ spc = "save" /\ file.rows = <<>>

(* A value disappears from a cell only when a later import of that meter   *)
(* overwrites it, or a line is written from a copy that is out of date     *)
(* (importFunctions.go 75, ExcelSourceNew.go 104 and 176).                 *)
UpToDate(copies, r) == r \in DOMAIN copies /\ r \in DOMAIN lines /\ copies[r] = lines[r]

Overwrites(r, c) ==
  \/ \E p \in DOMAIN pc :
       /\ pc[p] = "write" /\ pc'[p] # "write"
       /\ c = Column(msg.meter, cp[p].idx) \/ ~UpToDate(fetched[p], r)
  \/ /\ r \in swritten' \ swritten
     /\ c \in SheetColumns(sread, file) \/ ~UpToDate(scopies, r)

ValuesStay ==
  \A r \in DOMAIN lines, c \in Columns :
    \/ r \in DOMAIN lines' /\ lines[r][c] \subseteq lines'[r][c]
    \/ Overwrites(r, c)

(* A meter keeps its column and its values through the uploads and the     *)
(* messages of all meters, wherever one of them fails or dies, but for the *)
(* copies that are out of date when they are written (ExcelSourceNew.go    *)
(* 176 and 180, importFunctions.go 75 and 248).                            *)
MetersKeepTheirs == [][EntriesStay /\ ValuesStay]_allVars

(* Each reading of the sheet is counted once in the cell of its meter, and *)
(* nothing else is: a row id that occurs twice, as at the end of summer    *)
(* time, adds up.  A meter that has totals both with and without factor is *)
(* excepted: its repeated rows count twice (ExcelSourceNew.go 116-120).    *)
CountedTwice(m, r) == HasFactor(file, m) /\ Cardinality(Occurrences(file, r)) > 1

SheetReadings ==
  spc = "write" /\ file.rows # <<>> =>
    \A m \in MetersOf(file), r \in SheetRows(file) :
      LET cell == SheetLines(file, sread, scopies)[r][Column(m, SheetMeta(sread, file)[m].idx)]
      IN  CountedTwice(m, r) \/
            /\ {<<v[1], v[2]>> : v \in cell} = {m} \X Occurrences(file, r)
            /\ Cardinality(cell) = Cardinality(Occurrences(file, r))

=============================================================================
