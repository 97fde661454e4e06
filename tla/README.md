# A verification development for energycash/estore

The service stores the quarter-hourly energy values of energy communities and
reports on them.  It receives the values as MQTT messages, keeps them in one
badger database per community, and answers HTTP and GraphQL queries; workbooks are
uploaded to it, and commands change a database while it is stopped.  The TLA+
modules in this directory model the parts of it in which goroutines, failures
and shared records meet, and the passes over stored lines that make reports of
them; TLC checks the models on small instances, and TLAPS proves, for every
size, the safety of the connection pool and of the requests on it, of the
dispatcher, of the database layer, of the imports of messages and of workbooks
and of the query engine, and that no command puts two meters into one column.

`PROJECT.json` lists the components, the runs, the mutations of the models that
break each property, the source lines of every definition, the hazards and the
theorems.

## 1. Inventory

| Component | Source | State it keeps | Operations | Modelled in |
|---|---|---|---|---|
| Connection pool | `store/ebow/pool.go`, `rowdata.go` | per community a channel of 20 objects, the database handle, `dpo.mu`; the map of the pool, `mutex`, `mutexPut` | `OpenStorage`, `Get`, `Put`, `Close`, `ClosePool` | `ConnectionPool`, `StorageLease` |
| MQTT dispatcher | `mqttclient/dispatcher.go`, `mqttClient.go` | map of workers, a job channel and an idle timer per tenant, a `WaitGroup`; the streamer with its connection and mutex | `SetupMqttDispatcher`, handler, `Submit`, `process`, `getWorker`, `Run`, `SendMessage`, `Close` | `TopicDispatcher` |
| Tenant importer | `mqttclient/energyExecutor.go` | the open storages of a tenant | `Execute`, `ensureDb`, `Import`, `SplitEnergyByDay`, `Close` | `TopicDispatcher`, `EnergyImport` |
| Energy import | `store/importFunctions.go`, `rawDataHelper.go` | source lines and the meta record, in the database | `StoreEnergyV2`, `PrepareMetaInfoMap`, `updateMeta` | `EnergyImport`, `MeterPeriods`, `EnergyStore` |
| Process | `server.go` | a context, the HTTP server | start, `Shutdown`, cancel, `dispatcher.Close`, `ClosePool` | `Requests`; its halves in `TopicDispatcher` and `ConnectionPool` |
| Database layer | `store/ebow/db.go`, `bucket.go`, `iter.go`, `range.go` | buckets, their meta records, sequence numbers | `Open`, `Bucket`, `Put`, `PutBatch`, `Range`, `Prefix`, `Close` | `BowDatabase`, `BucketStore` |
| Query engine | `store/engine.go`, `*_function.go`, `query_engine.go` | the running bucket of one pass | `Query`, `Cache`, the functions' `HandleInit/Start/Line/End/Finish` | `QueryEngine` |
| Model, calculation | `model`, `calculation`, `utils` | the sums of the running day, a report per participant | `EnergyReportV2` | `ParticipantReport`, `PeriodReports` |
| Excel export | `excel/EnergyExport.go`, `*Sheet.go` | sums and quality per participant, the rows of the sheets | `run` with `initSheet/handleLine/closeSheet` | `EnergyExport`, `PeriodReports` |
| Excel import | `excel/ExcelSourceNew.go`, `import.go` | the lines of a workbook, a copy of the meta record | `ImportExcelEnergyFileNew` | `WorkbookImport` |
| Command line | `cmd`, `store/function`, `initQoV.go` | none but the database | move, reset, meta, `initQoV` | `Maintenance`, `LineMatrix` |
| REST, services, GraphQL | `rest`, `services`, `graph` | none but a request's storage | guard, parameters, open, query, close, answer | `Requests` |
| Middleware | `middleware` | none | the guards of the routes | `Requests` (their decision) |
| Configuration, codecs | `config`, `protoc`, `store/ebow/codec` | none that others read | | no |

How they meet: the MQTT library calls a handler per message; the handler gives
it to `process` over a channel, `process` to the worker of the tenant over
another.  The worker takes storages from the pool, stores the parts of a
message in a goroutine each, and gives the storages back when its timer fires.
All workers answer through one streamer.  HTTP requests, an upload among them,
take storages from the same pool.  Importers, uploads and queries share nothing
but the database.  `main` waits for the requests, ends the workers and then the
pool.  The commands open a database directly, which its lock on the directory
allows only while the service is stopped.

What makes each part correct, and what is hard about it:

* **Pool.** A pool object has one holder; the database of a community is open
  exactly when the pool holds its handle; the last to return an object closes
  it; nobody waits for ever.  Hard: three kinds of lock and a channel that is
  received from and sent to with locks held, a test for "full" that is
  separated from the close it decides on, opens and closes that fail, and a
  shutdown that ignores the lock of a community.
* **Requests.** A request that is over has returned its storage, and has one
  answer that says whether its query succeeded; every request ends; the pool is
  closed when nobody uses it.  Hard: queries that panic, waiting for an object
  of the pool while others wait for oneself, a shutdown at any moment.
* **Dispatcher.** Each accepted message is executed once, in order, by one
  worker; storages are let go when idle and before the pool is closed; a
  shutdown ends.  Hard: a full job channel stops everyone, the map of storages
  of a worker is replaced by nil when an open fails, `wg.Add` runs too late, a
  worker keeps the streamer while the broker is away, and the broker delivers
  again what was not acknowledged.
* **Import.** Each value of a message ends up in its meter's column and no
  other value changes; the meter's period covers its values.  Hard: parts of
  one message read, modify and write shared lines and one shared meta record at
  the same time; days of 23 and 25 hours; writes that fail, those of lines
  after any of their batches.
* **Database layer.** A bucket has one id for ever, and nobody else has it; what
  was written stays; a range returns the keys of its bucket between its ends.
  Hard: two goroutines that create a bucket at once, an id that is in memory and
  not on disk when a write fails or the process ends, a sequence that leases its
  numbers, keys of all buckets in one order.
* **Query engine.** The reports equal their definition over the lines of the
  period, gaps included.  Hard: entry boundaries, the last line, lines that
  come out of order, an import that adds meters while a query runs.
* **Participants' report and export.** Both report the same energy, each value
  once; the sums, cells, log and completeness of a workbook agree.  Hard: sums
  that are handed on by the first line of the next day, participants that share
  a meter or have none, weeks over the end of a year, lines that are missing or
  shorter than the others.
* **Excel import.**  A column holds the values of its meter; no meter loses its
  entry; each reading of the sheet is counted once.  Hard: an upload reads the
  meta record at its first row and writes the whole record at its end, over what
  messages have added; lines are written before the record that explains them.
* **Command line.**  A meter keeps its values through everything that is done to
  others.  Hard: columns are cut out of lines of different widths and only then
  are the entries renumbered, for the lines of one period only; a command may
  die at any write.

## 2. Modules

| Module | What it is |
|---|---|
| `ConnectionPool` | the pool, one action per step another goroutine can observe |
| `StorageLease` | what the pool promises: leases, and a database opened for lease holders |
| `MCConnectionPool` | small instances |
| `BowDatabase`, `MCBowDatabase` | the buckets of a community on top of badger, with failures and crashes |
| `BucketStore` | what the database layer promises: named buckets that keep their records |
| `BowDatabaseProofs` | theorems and proofs |
| `TopicDispatcher`, `MCTopicDispatcher` | handlers, process goroutine, workers, shutdown |
| `TopicDispatcherProofs` | theorems and proofs |
| `EnergyImport` | the parts of a worker's messages on one database |
| `MeterPeriods`, `MCEnergyImport` | the period that the record keeps of each meter, and small instances of both |
| `EnergyStore` | what an import promises: one part of one meter at a time |
| `EnergyImportProofs` | theorems and proofs |
| `QueryEngine`, `MCQueryEngine` | one query with any of its reports, while an import runs |
| `QueryEngineProofs` | theorems and proofs |
| `Requests`, `MCRequests` | handlers, their guards and queries, and `main`, on `ConnectionPool` |
| `RequestsProofs` | theorems and proofs, of `ConnectionPool` and of `Requests` |
| `WorkbookImport`, `MCWorkbookImport` | the upload of a workbook, on `EnergyImport` |
| `WorkbookImportProofs` | theorems and proofs, with lemmas of `EnergyImportProofs` |
| `LineMatrix` | a line's slices, the matrices made of them, and their sums |
| `Maintenance`, `MCMaintenance` | the commands, with imports between them |
| `MaintenanceProofs` | theorems and proofs |
| `SourceLines` | the lines of a period as the two reports on it read them |
| `ParticipantReport` | the report on participants, by days |
| `EnergyExport` | the workbook, line by line |
| `PeriodReports`, `MCPeriodReports` | both reports on the same lines, and what relates them |
| `PeriodReportsProofs` | theorems and proofs |

`TopicDispatcher` sees the pool through its leases (an open takes an object, a
close returns it, a failed open loses it), which is what `ConnectionPool` is
shown to implement.  It sees an import as one step, which `EnergyImport`
describes in full.  `Requests` extends `ConnectionPool`, and `WorkbookImport`
extends `EnergyImport`: each adds its actions to those of the module below.

### ConnectionPool

`pc[c]` is where goroutine `c` is in `Pool.Get`/`Pool.Put`; `pool[e]` the
objects in the channel `dpo.pool` of community `e`, `db[e]` its `dpo.db`,
`known` the keys of the map, `mu`, `mutex` and `mutexPut` the owners of the
three locks.  `live[e]` is badger's own state: the handles of `e` that are
open.  `Get` is `CallGet`, `LockMutexPut`, `FindOrCreate`, `GetLockMu`, the
receive (`Receive`, or `Park` until a sender hands an object over), `CheckDb`,
`OpenOk`/`OpenFail`, `Assign`.  `Put` is `CallPut`, `LockMutex`,
`FindAndClear`, the send (`HandOver` to a parked receiver, else `Store`), the
test for a full channel (`PutReturns`, `PutSeesFull`), `PutLockMu`,
`PutCloses`.  `ClosePool` visits the communities one after the other, without
`dpo.mu`.  A goroutine that creates an entry of the Go map while another reads
it (the two are under different locks) stops the process: `MapRace`.

Abstractions.  An object is an identity, since it carries nothing but the
handle of its holder; the order of objects in the channel is left out, and so
which one a receiver gets.  A goroutine has one storage at a time (in the
dispatcher a worker may hold storages of several communities; that is covered
there).  The tenant's name check in `OpenStorage` comes before any of this and
is in `TopicDispatcher` (`Refused`).

### BowDatabase

`saved`, `granted` and `stored` are on disk: the buckets of the meta record, the
number up to which badger's sequence is leased, the records under each id.
`up` and, while it is "open", `buckets`, `nextId`, `leased` and `metaMu` are the
`DB` in memory.  A goroutine that has a storage of the pool begins an operation
with `Call`; `FindBucket` is `DB.bucket` under the read lock, and `createBucket`
is `BucketExists` or `TakeId` (with `SequenceFails` and `NoMoreIds`) and then,
still under the write lock, `SaveBuckets` or `SaveFails` (`writeMeta`).
`WriteChunk` and `WriteFails` are the flushes of `PutBatch`, one every `Chunk`
records, and the transaction of `Put`.  `Open` and `Crash` begin and end a
process's use of the directory; a badger that `OpenFails` has left open without
an owner is "leaked" until the process ends.  The pool may close a database while
goroutines use it (`HolderHasDatabase` in section 4): `Release` gives back the
numbers of the sequence, and who creates a bucket between it and `Close` leases
some again; at `Close` whoever is in an operation is "cut", and has no further
effect (`CutOff`).  When the sequence cannot be released badger stays open
("kept", `CloseFails`) with those who use it.  A range
and an iterator (`LineRange`, `LinePrefix`) read one snapshot, so that they are
functions of the state.

A bucket whose creation failed answers reads with its error (`ErrorReturned`).
The comment of `Bucket` says so of any operation, but `Put` and `PutBatch` look
at the bucket's database before its error, and it has none: `Panics`.

Abstractions.  Badger is external: a transaction or a flush is atomic and, once
committed, on disk; a sequence leases numbers and gives the rest back when it is
released; after it is closed nothing of it reaches the disk.  That an operation on
a closed badger may block is left out.  Ids begin at 0 and not at 8 * 256.  The
end of the service is a crash of the process and not of the machine.  Codecs,
databases opened for reading only and records without a key are left out.

### TopicDispatcher

`Setup` is `SetupMqttDispatcher`: the connection, the process goroutine, the
subscription.  `unsent` are the messages the broker has to deliver, `online` and
`losses` the connection.  `ConnectionLost` makes the messages whose handler has
not returned, and which were not acknowledged for that reason, due again (those of
`Again`); `Reconnect` is the library's `SetAutoReconnect`.  `pending` are messages
whose handler waits in `Submit`; `process` and `inHand` are the process goroutine;
`worker`, `queue`, `job`, `armed`, `db` and `dbNil` a tenant's worker, its
`JobChannel`, its current message, its timer and the map of storages with the case
that the map is nil; `gone[e]` the objects of the pool that failed opens have
cost.  `sender` is the worker that has the mutex of the streamer: it takes it in
`SendMessage` and keeps it until the broker has acknowledged the answer
(`Answered`).  `accepted` and `executed` are history variables.  A failed open
loses the object and makes the map nil, so that the other storages of the tenant
are not returned: they are `leaked`, open and in no map.  The next message then
assigns into a nil map, which is `Panic`, unless the timer fires first.  A message
of `Garbled` may also be one that cannot be decoded.

### EnergyImport

Time is counted in quarter hours.  `Midnights` gives the local days, `Clock`
and `RowOf` the wall clock of an interval and with it the key of its source
line: at the end of summer time two intervals have one key.  `Split` is
`SplitEnergyByDay`, which steps by 24 hours from the first midnight.  Each part
is a goroutine: `ReadMeta` and `CreateMeta` (`PrepareMetaInfoMap`),
`FetchLines`, `WriteLines` or `WriteFails`, `RereadMeta` and `SaveMeta`
(`updateMeta`), with the copies that it works on in `cp`, `view` and `fetched`.
`SetLines` writes in batches (`FlushSize`), of which the first ones stay when a
later one fails (`FirstBatches`).  `MetaFails` is a record that cannot be read at
the beginning, or be read or written at the end, when the lines are stored.
A cell of a source line holds the set of values added up in it, so that a value
that is lost, duplicated or in another meter's column shows.  The meter codes
of a meter, which are adjacent columns written together, are one column.
`CreateFails` is a meta record that could not be written for a new meter: the
error is ignored, and the values are stored in a column nobody owns.

`MeterPeriods` adds the history variable `behind`: the meters whose period a
write of the record has set back after another part may have written it,
or whose values were stored and their period was not.  `CutsChange` is a part that
begins or ends inside the hour that comes twice at the end of summer time
(`ChangeAt`), so that its first or last interval does not have its smallest or
largest row id.

### QueryEngine

`rows` are the rows of the period when the range is opened, `pt` the last row
read, `todo` the lines of the loop that the consumer has still to be given: those
of zeros for a gap and the row after it (`NextRow`).  A consumer is a `report`:
its kind, the length of its entries, and whether they begin with the week, as its
constructor says (`Aggregate`, `LoadCurve`, `IntraDay`, `Summary`, `RawData`).
`EngineContext` and `InitCache` are what it makes of the period before the first
row, `HandleStartFails` the period it refuses.  `cacheTime`, `cache`, `qov` and
`named` are the fields of `Cache`: `CacheLine` adds a line to the running entry,
`FlushCache` closes the entry and begins the next, `HandleEnd` closes the last.
Consumers without a cache have an entry per line (`AddLine`) or one entry
(`AddToSum`).  `AddMeter` and `StoreLine` are the writes of an import, in its
order: the meta entry first. `given` is how many columns imports have given out,
`meters` how many of them have an entry in the record: `AddMeterFails` is the
write of an entry whose error is dropped, and `LoseMeters` an upload that writes
the record without entries that messages had added.  A line wider than the record
makes the cache panic (`Panics`).  `HourOf` is the label under which `intraday`
adds up an entry, and `IntraDayRows` what it adds up there.

A line is the wall clock time its id says.  A row is read as if its id were
UTC, the id of a line of zeros is written in local time and read back as local
time, so that it comes `shift` quarter hours late.

Abstractions.  Energy is not a number: an entry of the result holds the lines
added up in it.  One column is followed for quality.  A month and half a year,
whose length depends on the calendar, are constants; the names of entries are left out,
and so are
the choice of meters, and days of 23 or 25 hours.  A combined report hands each
line to consumers that share nothing, so each is looked at alone.

### PeriodReports

`ParticipantReport` has the sums of the running day in `daySum`, the time that
stands for this day in `day`, and per participant the `summary` and the entries
(`slots`) of his report.  `AddLineToDay`, `NextDay` and `EndReport` are
`calcDailyScope`; the latter two call `DayAdded`, which is
`appendEnergyToParticipantMeter`.  `Slot` is `switchIntermediate` of the four
kinds of period, over a `calendar` that gives each day its ISO week and month.
`EnergyExport` has one action per iteration of `EnergyRunner.run`: `FillGap`
and `HandleRow` give a line to both sheets (`HandleLine`): `total` and
`complete` and `marks` (`QoVSum`) are the participant's fields of the summary,
`sheet` the rows of the sheet of energy, `log` `qovLogArray`, `logSheet` the
labels of the sheet made of it.  `InitSheetsPanics` is the header of a
participant whose meter has no values yet.  `PeriodReports` lets them run one
after the other on the same lines and the same participants.  A participant's
`from` and `until` are any times, counted in halves of quarter hours, which tells
a time at a line from one between two lines.  The participants' report truncates
them to days (`DayAt`, `TruncateToDay`); the workbook compares each line with the
times as they are (`FirstRow`, `Active`, `IsLineDateOutOfRange`).

Abstractions.  A sum is the sequence of lines added up; rounding is left out.
A meter is one column, consumers and generators being handled alike in columns
of their own, and one quality stands for the columns of a line.  Lines before
`joined` have the first meter's column only, as those imported before the
second meter was known.

### Requests

`req[c]` is the handler of the request that goroutine `c` serves, a record of
where its parameters come from, whether it asks the master-data service for
meters, how its query may end and what it answers when that fails; `Routes` are
those of the two routers and the resolvers.  `phase[c]` is how far it is:
`Refuse` (the guard), `ReadParams` or `RejectParams`, `MasterAnswers` or
`MasterFails`, `OpenStorage`, `StorageMissing`, `Query` with the deferred
`Close`, then `Respond`, or `Abort` after a panic.  Between `OpenStorage` and
`Respond` the steps are those of `ConnectionPool`.  A goroutine may be a worker
of the dispatcher instead (`WorkerOpens`, `WorkerCloses`), seen only by its
storage.  It is "starting" until it has reached its `wg.Add` (`WorkerAdds`), which
is in its own goroutine; when `Wait` has returned by then it is "late", and goes
on beside `main`.  Even with its context done it may take a message and open
another storage, since a select chooses at random.  `server` is `main`:
`Interrupt`, `Drained` (`server.Shutdown` without deadline), `WaitReturns` (the
dispatcher's `Close`, for the workers that are counted) and `Stop`, which begins
`ClosePool`.

Abstractions.  What a query reads is in `QueryEngine` and `PeriodReports`; here
it ends in one of four ways.  The bodies of answers, tokens and the identity
provider are left out.  The master-data service is external; the client has a
timeout of five seconds.

### WorkbookImport

`spc` is where the upload is, `file` its sheet, `sread` its copy of the meta
record, `scopies` the lines as it read them, `srow` the data rows read.
`ReadSheetMeta` or `RefuseSheet` is its first data row, `ReadRow` each row,
`WriteSheet` a batch of the lines at the end of the sheet, in any order since they
come out of a map, or `WriteSheetFails`, which leaves the batches before it
(`swritten`), and `SaveSheetMeta` the record, or `SaveSheetFails`.  `SheetCell` is
what the values of a meter's columns add up to: a value by participation factor
takes the place of the total at the first row with an id and is added to it at the
next.  `ImportStep` is any step of `EnergyImport`.  `Crash` ends every goroutine
and leaves the database. `lost` is a history variable: the meters whose entry got
lost, moved or was never written although their values may be there, those of a
sheet that was not written to its end among them (`Unsaved`).

Abstractions.  Columns are recognised by texts of the header; here a sheet has
the columns it has.  Of the codes of a meter there are the total and the total
by participation factor.  The importer before this one has no caller.

### LineMatrix and Maintenance

Here values are numbers, lines are slices that differ in width and may end in
the middle of a meter's values, and there are three codes for a consumer and two
for a producer.  `Move` is `handleMove` up to its first write, `Reset` and
`InitQoV` likewise; `WriteLine` is each line written, `FinishMove` the meta
record, `SetMeta` the command meta, `Crash` the end of a command between any two
writes.  `Import` is a message between commands.  `Moved` is `moveToProducer`,
with the slices that `append` makes; `Reorganized` renumbers the entries of a
direction.  `Shown` is what data prints, `Results` the sums of a report over all
lines.  `held` says what the database was given and should have of a meter and
row, `cleared` what was reset, `regular` whether all moves so far could be
followed by the meta record (`Followed`), and all messages had the codes of their
meter's direction: a consumer that was moved goes on sending three codes, of which
the third is written into the column of the next producer.

Abstractions.  A row is a quarter hour of a day of its own, so that one line
each is enough for a period's end.  Commands for a meter that is not known end
before they write.

## 3. Runs

| Run | Instance | Shows |
|---|---|---|
| `pool_safety` | 3 goroutines, 2 communities of 2 objects, 4 handles; opens and closes may fail; shutdown | `TypeOK`, `PoolConsistent`, `CleanExit`, `ImplementsLease` |
| `pool_holder` | 2 goroutines | `HolderHasDatabase` fails |
| `pool_deadlock` | 4 goroutines, 2 objects, fairness | `GetReturns` fails |
| `requests` | 2 goroutines, each a request of 4 handlers or a worker, which may be counted too late, 1 community of 1 object, fairness; a signal at any time | `RequestsTypeOK`, `OneTrueAnswer`, `OrderlyShutdown`, `NothingStuck`, `ShutdownCompletes` |
| `dispatcher` | 2 tenants, 3 messages (two of one tenant for two communities, one of which may be garbled), job channels of 1, 2 objects, 1 failed open, 1 loss of the connection, 1 message that is delivered again, fairness | `TypeOK`, `AcceptedInOrder`, `ClosedBeforePool`, `EveryMessageExecuted`, `StoragesReleased`, `ShutdownEnds` |
| `import` | 2 consumers and a generator, all pairs of messages of 4 spans over two days of 3 intervals, three messages in a row, and all pairs of 6 spans about a day of 5 intervals, of which an hour of two comes twice; writes of lines, in batches of 2, and of periods may fail | `TypeOK`, `MessageStored`, `PeriodCovers`, `ImplementsEnergyStore` |
| `import_switch` | two messages over the end of summer time | `ValuesStored` fails |
| `workbook` | an upload of any of 6 sheets beside two messages of a day or one of two days; lines are written one by one, any write may fail, the process may die once | `WorkbookTypeOK`, `ColumnsOwned`, `SheetReadings`, `MetersKeepTheirs` |
| `query` | every set of lines of a day and a half of 4 quarter hours, 8 reports, all periods, local time UTC or 2 quarter hours east; an import adds a meter, whose entry may get lost, and lines | `TypeOK`, `ColumnsFit`, `EntriesOfRows`, `HoursOfDays` |
| `reports` | every set of lines of three days of 2 quarter hours, 6 sets of participants with times at midnights, noons and ends of days, inside the period and outside it, 6 places of a period in the calendar | `TypeOK`, `ReportCountsOnce`, `WorkbookAgrees`, `ReportsAgree` |
| `database` | 2 goroutines, the buckets "rawdata" and "metadata", ids 0 to 2, leases of 2 numbers, flushes of 2 records, batches of 0, 1 and 3; every write may fail, the pool may close the database and the process end anywhere | `TypeOK`, `OneIdPerBucket`, `RangesAreExact`, `ImplementsStore` |
| `maintenance` | 3 consumers and a producer, values of one code, two or three in two rows, any two commands, which may die at any write | `MaintenanceTypeOK`, `ColumnsApart`, `ReadingsFollow`, `ReportIsSum`, `ImportsStayApart` |

**Why these bounds are enough.**  In the pool, what goroutines do to each other
goes through one channel and four locks: three goroutines and two objects give an
empty channel, a waiting receiver with a hand-over, a channel that fills, and a
competitor for every lock at the same time; a second community gives the coupling
by `mutex` and `mutexPut`.  The handles suffice for a fresh open while two
goroutines still refer to old ones.  Goroutines and objects are symmetric in the
safety run; the liveness runs have no symmetry.  The theorems of section 5 remove
the bounds for safety.  In `requests` one object for two goroutines makes one wait
for the other at every step, and it is the largest number of goroutines for which
nothing is stuck (`pool_deadlock`); the handlers are one of each kind: one that
asks for meters, one with parameters in its URL, the one that answers twice, and a
resolver.  In the database, two goroutines meet at every lock; three ids are one
more than the buckets, so that a number that was lost to a crash or a failure
leaves the last one to them and the next loss none; the sequence leases again when
the third number is taken.  A batch of three is two flushes, and its first two
records have the same key.  Two days and a shorter key put keys of every relation
to the ends of a range into both buckets.  The lease ends the growth of a run: a
database is not opened again above `MaxLeased`.  In the dispatcher a channel of
one is full after one message, and two messages of a tenant, of which one comes
twice, put one in execution, one in the channel and one in the hands of `process`,
while the worker of the other tenant waits for the streamer.  In the import, days
of three intervals have a first, an inner and a last one, and two parts are all
that can share a day; an hour of two intervals, as one of four, has a part that
begins or ends at its first, or behind it.  Beside an upload, two messages are
enough for one to add a meter after the record was read and one to use it; the
sheets have a meter or two, totals with and without factor, rows that repeat an
id, no row, and no period.  In a query, entries of 2, 4 and 8 quarter hours begin
and end inside the six of the horizon, and every set of lines puts gaps before,
over and after each boundary; a meter more is enough for a line that is too wide.
Two commands and two rows make a meter move away and another one after it, in
lines of which one is outside the period of the first, and a message of three
codes come for the meter that was moved, before a producer; values are powers of
two, so that each sum shows its terms.  In the reports, three days give a first,
an inner and a last day of a participant, each with and without its midnight line,
and times before, at and after their midnights; the calendars place a year's end
between any two of them.

**Fairness.**  The pool and the requests: one strong fairness condition per
goroutine.  Go's scheduler runs what can run, and a `sync.Mutex` in starvation
mode goes to the waiter that has waited longest, so a lock released again and
again is got.  A query ends, as its period has finitely many lines; the call to
the master-data service ends by the client's timeout; all callers of
`OpenStorage` defer the `Close`, or close when idle (the worker, whose timer
fires when there is no message for a minute: `WorkerCloses` is fair, and so a
community whose messages never pause that long is not covered).  A worker whose
context is done returns in the end, as its select chooses at random
(`WorkerReturns` has a strong fairness of its own); one that came late may be cut
off by the exit of the process instead.  `main` has weak
fairness once a signal has come.  No request has to come.
The dispatcher: one weak fairness condition per goroutine (`process`, each
worker, the shutdown once it has begun), and the broker, which is external,
comes back after a loss and acknowledges what is sent to it.  A worker's select
is never without something to do: its timer is armed whenever it holds a
storage.  Nothing says that the process is ever interrupted, and no message has
to be delivered.  The other runs need no fairness; their properties are about
what is in the database or has been produced.

`CHECK_DEADLOCK FALSE` is in the cfgs of systems that stop: the process exits,
a worker runs out of messages, a query ends, all commands were run.
`pool_holder` and `database` do check it.

## 4. What the runs found

Each run with the expectation "violation" shows one disagreement between the
code and what the repository says of it (`findings` in `PROJECT.json`).

1. `pool_holder`.  `Put` tests that the channel is full, then waits for
   `dpo.mu`.  A `Get` in between copies the handle that `Put` goes on to close:
   its caller has a storage that answers `IsOpen` and whose database is closed.
2. `pool_deadlock`.  With two goroutines more than objects, `Put` can wait for
   `dpo.mu` with `mutex`, a `Get` for an object with `dpo.mu`, and the holders
   of the objects for `mutex`.  With one goroutine more (`requests`) this
   cannot happen.
3. `import_switch`.  At the end of summer time two parts of a message share a
   day, and one writes lines back as they were before the other changed them.

The models contain what the code does in the following cases too.  They have no
run of their own; where a property has to make an exception for one, it names it.
Of some the repository says otherwise: its words are quoted.

* *Pool.*  A creation of an entry of the Go map beside a read stops the process
  (`MapRace`; pool.go 166).  Entries are found by the community only, whatever
  the tenant (165).  An open that fails costs an object of the pool for ever
  (66; `lost` of `StorageLease`), and a community whose `Close` failed cannot be
  opened again before the process ends (`stuck`).
* *Requests.*  `lastRecordDate` answers an error and goes on (restServer.go
  132-134), and a start in the URL that cannot be parsed is taken for 0 next to
  a good end (281-292, 354-365): exceptions of `OneTrueAnswer`.
  `exportMeteringData` always panics, for it passes no participants to an export
  that dereferences them.
* *Dispatcher.*  After a failed open the map of storages is nil (energyExecutor.go
  59-62), and the next message within a minute, before the timer makes a new one,
  ends the process (149-151).  The storages that were in the map stay open for
  ever, where the log says of the timer "No message received for 1 minute. Close
  DB" and "DB closed after 1 minute" (dispatcher.go 205-207): `StoragesReleased`
  says that no storage is left open in another way.  A worker that reaches
  `wg.Add` after `Wait` has returned opens storages while the pool is closed
  (dispatcher.go 193; `uncounted` here, "late" in `Requests`): `ClosedBeforePool`
  and `OrderlyShutdown` say that nobody else does.  A message that was delivered
  again after a loss is executed twice.  Messages left in a job channel at
  shutdown were acknowledged and are dropped.
* *Import.*  The parts of a message of several days put the meter's period back
  to what their own copy of the entry says, so that it does not cover the values
  stored, and the date of the last energy that the service answers from it
  (`lastEnergyDate` of the schema) can be a day early with nothing failing.  A write
  of the period may also fail when the lines are stored, and those of lines after
  their first batches.  `PeriodCovers` says that the period of every other meter
  covers its values, however many parts the messages have.  A part that begins or
  ends inside the hour that comes twice takes the row id of its first or last
  interval for its smallest or largest.  A part that fails is logged, and its
  message answered as imported.
* *Workbook.*  The record is written whole over what messages have added, and
  emptied by a sheet without data rows (ExcelSourceNew.go 180): exceptions of
  `ColumnsOwned` and `MetersKeepTheirs`.  An upload that fails or dies after some
  batches of its lines, or before its record, leaves values of new meters that no
  entry explains, and the next new meter gets their column: such meters are in
  `lost`.  Rows with the same id count twice for a
  meter with totals of both kinds (116-120): exception of `SheetReadings`.
* *Database.*  A write to a bucket that could not be created panics, where the
  comment of `DB.Bucket` promises an error (`Panics`; db.go 237, bucket.go 18).
* *Query.*  A line that is wider than the record panics in `addToCache`
  (engine.go 226-231): one of a meter whose entry could not be written
  (rawDataHelper.go 112 drops the error) or was lost to an upload.  `ColumnsFit`
  says that an import beside the query, whose entries are written, is no such case.
  The lines of zeros for a gap carry the id of a time one or two hours
  late (engine.go 301).  Before midnight they close the entry of the day early,
  and energy of the day is added to the next one.  `intraday` labels the energy of
  an hour with the hour before it, and that of the first hour of a day with the
  last one (intraday_function.go 49), which nothing in the repository explains;
  `HoursOfDays` says that the rows under a label are those of one hour, of all
  days, where no entry is shifted as said below.  `QueryRawData` makes a slice
  with as many targets as asked for and then appends them behind the empty ones
  (energy.go 64-67).  In the summary two labels of quality are off by one
  (summary_function.go 45).
* *Export.*  The header of the sheet of energy dereferences the meta entry of a
  participant who has none (`InitSheetsPanics`; EnergyExport.go 386).
* *Commands.*  To move the first column away while others exist leaves the
  entries of those one behind their values; so do lines outside the period of
  the meter, which are not shifted, and a death of the command between the lines
  and the record.  "This command switch the energy direction of persisted meter"
  (move.go 25) is true of the record only for a producer: his lines are not
  collected (68), and his values stay where they were.  A consumer that was moved
  goes on sending three codes, of which the third is written over the first value
  of the next producer, or makes the line a column longer (importFunctions.go
  200-202): `ImportsStayApart` says that this is all an import changes of others.  A
  line that ends within the values of a meter loses qualities in a move (move.go
  98), and keeps its values in a reset, which clears a copy (reset.go 25-46),
  although "This command set data to 0 for the appropriate period" (cmd/reset.go 26);
  a line that ends at the column is a panic in a reset (`<=` in 30 and 37).
  `regular`, `held` and `Uncleared` follow these cases, so that `ReadingsFollow` and
  `ReportIsSum` say what remains true in each.

In the run `database`, what `ImplementsStore` allows is worth a look: records
that were written under an id whose save failed (`unsettled`) are gone after a
restart, although their writes reported success, unless another bucket is
created, and all buckets saved, in between.  An id is never given out twice, so
they do not turn up in another bucket either.

`MessageStored` in the run `import` states what does hold of the values: all are
stored as long as the parts of a message have days of their own, as they do
while days have 24 hours.

`RowsInReach`, a part of `EntriesOfRows`, states how far a row can be from its own
hour, day or week.  Behind a missing row it may be counted up to `shift` too early
(`Advance`).  When the first row comes after the first entry, the rows lag
(`Lags`): a line moves the entries on by one step at most, however late it is, and
the nth row is in the nth entry after the first.

The properties of `reports` name the conditions under which they hold, each
found by a counterexample without it.  `ReportCountsOnce` is `SummaryIsOwned`
and `EntriesMakeSummary`; `WorkbookAgrees` is `SheetHasEveryQuarter`,
`SumOfCells`, `CompleteIsUnlogged` and `MarksAreLogged`.

* `SummaryIsOwned` and `ReportsAgree`: the time of the first line stands for the
  day and is compared with the midnights of the participant's first and last day
  (EEGCalculationV2.go 413-416).  Where the line of midnight is missing, his report
  lacks the last day, and the workbook has it.  The workbook compares each line with
  the times as they are, and takes a day less a minute after the latter
  (timeUtils.go 149-152): for an until at the end of a day, as in
  EnergyExport_test.go 111, it has a day more, and for a from within a day it lacks
  what the report has of that day.  Both properties state these differences
  exactly, and that there is no other.
* `CompleteIsUnlogged`: all lines, those of zeros included, have the
  participant's column.  A line of zeros is as wide as there are participants
  in the export (EnergyExport.go 269-270), so that one with a later column is
  "vollständig" although lines are missing.
* `SumOfCells`: values of quality 0 are in the sum and their cells are blank
  (EnergyExport.go 334-337).
* `EntriesMakeSummary` says of weeks only that they are in order: a period has
  its first two weeks in one entry (`math.Max(..., 1)`, EEGCalculationV2.go 286,
  313), and what entry a week ought to have is written down nowhere.

## 5. Proofs

All theorems are about the specifications the runs check, for any values of the
constants that satisfy the `ASSUME` of the module.  These give the constants their
types, say that the values for "nobody" are not among the others and that sets of
tenants, meters and midnights are finite; three state what the code gives:
`ClockAssumption`, `QueryAssumption` that reports aligned to the week have entries
of a week, and `CalendarAssumption`.  What a theorem needs beyond them is a
hypothesis in its statement.  None of the invariants is inductive by itself: what
each needs besides is said below.

**`RequestsProofs`** proves of `ConnectionPool`

* `TypeCorrect`, `DatabaseOwned` (`PoolOwnsDatabase`), `PutNeverNeedless`
  (`NeverNeedless`), `IdleDatabaseClosed` (`FullIsClosed`), the three of them
  together in `Consistent` (`PoolConsistent`), `UniqueObjects` (`ObjectsUnique`)
  and `ExclusivePerCommunity` (`MuExclusion`);
* `ExitIsClean` (`CleanExit`): whatever failed and whoever was in `Get` or
  `Put`, `ClosePool` leaves no database open that is not in use;
* `NoneLost`: where no call into badger fails (`Faults = {}`), every object is in
  its channel or with a goroutine;
* `Refinement`: `Spec => ImplementsLease`.

`PoolOwnsDatabase` needs that the goroutine about to open or close a database
owns `dpo.mu`, and that it saw `db[e] = Nil` while it did; `NeverNeedless` needs
that objects are unique.  The inductive invariant `IInv` is the conjunction of

| Conjunct | What it says |
|---|---|
| `TypeOK` | types |
| `Possession` | in which places a goroutine has a community, an object and a handle |
| `LockOwners` | the owner of a lock is exactly who is between its acquisition and its release |
| `ObjectsUnique` | an object is in the channel or with one goroutine |
| `Handover` | a goroutine is parked only while the channel is empty |
| `PoolOwnsDatabase` | badger and `dpo.db` agree |
| `FullIsAttended` | a full channel with an open database has a `Put` that will look at it |

`Inductive` proves `Spec => []IInv`: the initial state satisfies it, and one
lemma per conjunct shows that every action preserves it, with one step per
action.  `Refinement` adds that a step of the pool changes the leases, the lost
leases and the open databases as one action of `StorageLease` does, or not at
all.

Its second half begins with `RequestsUsePool`: every step of the service is a
step of `ConnectionPool` or leaves the pool alone, so that the theorems of the
pool hold of it.  Then

* `RequestsTypeCorrect`, and `TrueAnswers` (`OneTrueAnswer`): a request that is
  over has returned its storage and has one answer, "OK" exactly if its query
  succeeded, with the two exceptions of section 4, for all handlers of the
  routers;
* `PoolLeftToMain`: for any failures, when `main` closes the pool nobody is in it
  but workers that were counted too late, and a database that is still open is
  theirs or has lost an object to a failed open;
* `ShutdownIsOrderly` (`OrderlyShutdown`), where no call into badger fails: then
  `main` finds every database closed that no late worker has.  The run has no such
  failures either: with one, an object is lost, its channel never fills, and the
  database is left to `ClosePool`.  `EndsClean` says that `ClosePool` closes it: at
  the exit only late workers have a database open.

The invariant says how far a request is by what happened to it and what was
answered (`Progress`), that a goroutine is in the pool in certain phases only
(`OutsideIdle`), and whom `main` has waited for (`Stopping`), from which lemma
`OnlyLate` has that nobody but late workers is left.

**`TopicDispatcherProofs`** proves, for any tenants, messages, capacities of the
job channels, losses and failing opens,

* `TypeCorrect`, and `Order` (`AcceptedInOrder`): what `Submit` accepted of a
  tenant is what was executed, followed by the message in execution, the
  channel, and the message in the hands of `process`;
* `CloseWaits` (`ClosedBeforePool`): when the pool is closed, no worker that
  `wg.Wait` knew of has an open storage; `uncounted` are those whose `wg.Add` was
  too late;
* `Overdraw`: storages open in workers and objects lost to failed opens are
  together never more than the objects of a community.

`AcceptedInOrder` needs that a message is in hand or in execution exactly while
`process` and a worker are at certain places (`Hand`, `Jobs`), and the laws of
concatenation for each way a message moves on; `ClosedBeforePool` needs that
an idle worker has no storage and who is in the `WaitGroup` (`IdleHasNone`,
`Counted`).

**`EnergyImportProofs`** proves, for any meters, messages, calendars and schedules
of the goroutines of a message,

* `ImportInductive`, `ImportTypeCorrect` (`TypeOK`), whatever fails: the parts of
  a message change the meta record in one way only, by adding the meter of the
  message in a column that all of them computed (`Copies`);
* `ValuesAreStored`, if `DaysApart`: no two parts of a message touch the same
  local day.  Then the lines a part has read are those of the database until it
  writes them (`Fresh`), and what it has written stays (`Written`).  Without the
  hypothesis the property is false: it is finding 3;
* `MessagesAreStored` (`MessageStored`), if `RegularDays`: midnights are `DayLen`
  apart.  This implies `DaysApart`, and that the parts partition the message;
* `ImportIsStore` (`ImplementsEnergyStore`), if `DaysApart` and the record can be
  written with a new meter (`"meta" \notin Faults`).  If it cannot, the code goes
  on and stores the values in a column that belongs to nobody in the record; the
  next new meter gets it, with these values in it.  A write of lines that fails
  changes the first rows of the part, up to a batch.  The proof needs that a column
  that no meter has is empty (`NobodysEmpty`);
* `PeriodsCover` (`PeriodCovers`), of `MeterPeriods`, if the record can be written
  with a new meter, and with no hypothesis on days, parts or lines: a value that is
  in the database or in a copy of a line that a part will write back is in the
  period of its meter, or a part has still to save one that has it (`Covered`).
  What a part has read of the record differs from it in the entry of its own meter
  only (`EntriesCopied`), which a write sets back only if another part has got as
  far as a write (`Sole`, `EntriesGrow`).  `PartInOrder` is where the hour that
  comes twice matters: a part that `CutsChange` does not name begins with its
  smallest row and ends with its largest, days being of any length.

`ClockAssumption`, which this module's `ASSUME` states beside the types, is that
the wall clock of a day has `DayLen` ticks however long the day lasts.

**`BowDatabaseProofs`** proves, for any goroutines, buckets, keys, values, batches
and leases, `TypeCorrect`, `IdsUnique` (`OneIdPerBucket`), `Refinement`
(`Spec => ImplementsStore`) and `RangesExact` (`RangesAreExact`).
`OneIdPerBucket` does not follow from itself: that a new id is new depends on the
sequence.  Its inductive invariant adds that

* ids in memory are below the next number, saved ids below the end of the lease
  on disk, and memory and disk agree on this end (`IdsAreTaken`);
* there are no records under an id that can still be given out (`Fresh`);
* saved ids differ, ids in memory differ, and memory extends what is saved
  (`SavedApart`, `MemoryExtends`);
* a goroutine in an operation that is not cut off has a database in memory, be it
  open, half closed or kept (`InMemory`), a bucket to create has its id, and one
  that writes has the id its bucket has (`AtWork`).

`Refinement` has one lemma per action that is not a stutter: a new id is
`Create`, a saved meta record `Settle`, a flush `Write`, and the end of the
database in any way `Restart`.  `RangesExact` rests on lemmas about the order of
keys: keys with their bucket's id in front are ordered by bucket first
(`RecordBefore`), and a key past the end of a range, or without the prefix of an
iterator, is behind all keys that are not (`CutBefore`, `PastPrefix`), so that
the first such key ends nothing too early.

**`MaintenanceProofs`** proves `ColumnsStayApart` (`ColumnsApart`),
`MaintenanceTypeCorrect`, and `ReadingsAreKept` (`ReadingsFollow`), for any
sequence of commands, deaths and imports.  `ColumnsApart` is not inductive, since a
move reads the record, writes lines, and writes the record at its end: the
invariant `MInv` adds that a command in progress works on what the record says
(`Prepared`) and that the index it moves to is still free (`TargetFree`).  The
lemmas say that slices that are cut, copied and filled remain slices, that the
next index of `CalcMetaInfo` is not used, and that `reorganizeMeta` gives each
entry an index of its own.

`ReadingsFollow` speaks of a database at rest.  Its invariant `RInv` says what the
lines hold while a move is under way: each stores the values of the meters of the
record, or, once the move has written it or if it need not be written, of the
record to come (`LinesStored`, with `Afterwards`).  `Stored` says it column by
column, and that nothing is behind the last column, which a new meter needs.
`Contiguous`, that the columns of a direction have no gap, is why the renumbering
of `reorganizeMeta` is that of the lines: the columns behind the moved one come
forward by one (`AfterMove`).  `MoveFollows`, `ResetFollows` and `GradingFollows`
keep what a command has prepared equal to what it would prepare from the database
as it is.  Below are lemmas on what is at each position of a slice after `Insert`,
`Cut`, `Copied` and `Fitted` (`InsertedAt`, `CutAt`, ...), and one for each way to
change a line (`ImportStores`, `MovedStores`, `KeptStores`, `ClearedStores`,
`GradedStores`); a line that ends within the columns of a meter, in which
`moveToProducer` cuts fewer qualities than values and `Reset` clears no values
(`Uncleared`), is a case of each.  `IdleIsNoCommand` says that `Idle` is not a
command.

**`QueryEngineProofs`** proves, for any rows and qualities of the values, any number
of meters, all reports and time zones, and an import at any time,

* `NoLineTooWide` (`ColumnsFit`).  That the lines of the range fit the cache
  depends on the order in which an import writes and a query reads: the widest
  line has no more columns than the meta record has meters, and this still holds
  of the lines of the open range when the record is read (`Widths`).  The property
  is about records in which no meter that was given a column lacks its entry
  (`meters = given`);
* `QueryTypeCorrect` (`TypeOK`);
* `EntriesHaveTheirRows` (`EntriesOfRows`): every row of the period once and in
  order, with the worst of its qualities, in its own hour, day or week but for
  what section 4 says, and without entries one for every quarter hour.

The last says something of the result when the query has ended.  The
invariant `IInv` of `QueryInductive` says of a query in progress that

* the lines it will be given are those of zeros up to the next row, and this row
  (`Ahead`);
* each row handed on is in the result or in the cache (`Covered`), and the lines
  of both, one after the other, ascend (`InOrder`);
* the quality of an entry is the neutral one or that of one of its lines, and
  none is worse (`Worst`);
* the running entry is ahead of the next row by no more than the zeros of a
  missing one are late, and behind it only as the first row was (`Reach`), and
  without entries each quarter hour that was passed has one (`EveryTime`).

`Reach` is where a report on weeks depends on its constructor, which makes entries
that are aligned to the week a week long.  The least row of a set, and the
quotient of a time by the length of an entry, come with lemmas of their own.

**`WorkbookImportProofs`** proves, for any sheets, messages and calendars, for any
order of the steps of an upload and of the parts of messages, with failing
writes and crashes,

* `WorkbookTypeCorrect` (`WorkbookTypeOK`);
* `ColumnsAreOwned` (`ColumnsOwned`), and `NothingTaken` (`MetersKeepTheirs`), which
  says what a step may take away;
* `ReadingsAreCounted` (`SheetReadings`).

What `EnergyImportProofs` rests on, that copies of the record differ from the
record by one meter at most, is false beside an upload: it writes back a record
that may lack what messages have added, and a part of a message may do so to the
upload.  The invariant of `WorkbookInductive` has claims instead.  A meter
claims a column if it has it in the record, if it will have it once the upload
has saved its own record, or if the meter is in `lost`.  No step takes a claim
away (`ClaimsStay`): a record that is written over another puts those it
displaces into `lost`, and so does an upload that ends after some of its batches
with the meters of its sheet.  Every value, in the database and in all copies of lines
that may be written back, is in a column which its meter claims (`OwnedLines`),
and a part of a message that is about to write has a claim to the column it
writes to (`PartsClaim`).  `ColumnsOwned` follows, since no record gives a column
to two meters.  For the record of the upload this is `SheetMetaType`: the new
meters of a sheet are in the order of their first columns, and get the numbers
after the largest one in turn.  `CellCounts` counts what is added up in a cell.

**`PeriodReportsProofs`** proves, for a period of any length, any lines in it, any
meters and participants and any calendar,

* `SheetsAgree` (`WorkbookAgrees`): the sheet of energy has every quarter hour,
  the sums of the summary are those of its cells, and completeness and marks are
  what the log says;
* `EachValueOnce` (`ReportCountsOnce`): each value of a participant's meter is in
  his summary once, from his first day to his last, this one if it has its line of
  midnight (`SummaryIsAllOwned`), and the entries one after the other are the summary,
  those of a month with the values of one day each;
* `TheReportsAgree` (`ReportsAgree`), and `ReportsTypeCorrect` (`TypeOK`).

All that a report holds is a set of times in order, and a step of the code
appends to it, takes its head, or joins two of them.  The lemmas on `Sorted` turn
these into the union, the least element and the difference of sets: a sequence
that runs through a set in order is the only one that does (`OrderIsUnique`), and
has as many elements before a place as the set has below it (`Places`).
`ExportInv` then says that the sheets are those of the times handled, from the
first line to the one before, each either a line or a line of zeros; `ReportInv`
that the lines read come before the others, that those of the running day wait
in `daySum`, and that those of the days before are in the summaries.
`ReportsAgree` is where both meet: the midnights of a request enclose the time
that stands for a day exactly if the day is his and his last one has its midnight
(`OwnedIs`), `IsLineDateOutOfRange` compares a line with the times (`ActiveIs`), and
the day of a time is the one of the lines around it (`DayAtIs`).

For the entries, `EntriesInv` says of the lines in a report that they are of the
days that are over, and each in the entry of its day (`Placed`).  That these
entries ascend with the days is `SlotsAscend`, for which `CalendarAssumption`
says what the calendar of Go gives: the ISO weeks of a quarter or half, and the
months of a year, ascend but for one turn of the year, and do not come round
again.  `FlattenSorted` then finds what the recursive function in `FlattenSeq`
computes: at the least place where another solution of its equation differs,
the equation says that it does not.

`Sorted` is defined by the number of elements below one, and `PickedAt` chooses
the places of a sequence, because the prover has no definition of `SortSeq` and
`SelectSeq`.  `LinesAssumption` says that the meta record is finite.

**Only model-checked.**

* Liveness (`NothingStuck`, `ShutdownCompletes`, `EveryMessageExecuted`,
  `StoragesReleased`, `ShutdownEnds`): out of the prover's reach.
* What a fold over lines computes, which needs an induction over data:
  `ReportIsSum`.
* `ImportsStayApart` and `HoursOfDays`.  That every entry of `intraday`
  begins with an hour follows from the one before, along the result.
* Energy imports with parts that share a day, beyond `ImportInductive` and
  `PeriodsCover`, and those whose record cannot be written, beyond
  `ImportInductive`.

## 6. Not modelled

What the components' notes in `PROJECT.json` say.  Decoding of messages is
whether it succeeds; the MQTT library, badger and `net/http` are modelled from
how the code uses them: a handler per message in no order, a session that
delivers again what was not acknowledged, a lock on the directory of a database,
transactions that are atomic, a goroutine per request.  Two processes on one
directory, tokens and the identity provider, generated code, the layout of
workbooks, rounding, and what is printed are left out.  Code without a caller is
not modelled: the `Dispatcher` before `TopicDispatcher`, the importer before
`ImportExcelEnergyFileNew`, and the sources that are commented out.  A crash
between two writes is in `BowDatabase`, `WorkbookImport` and `Maintenance`; in
`ConnectionPool`, `Requests` and `TopicDispatcher` the process only ends.

## 7. Plan

Left is the rest of the engine: entries of calendar months, and the choice of meters.
