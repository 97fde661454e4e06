----------------------------- MODULE BowDatabase -----------------------------
(***************************************************************************)
(* The database of a community (store/ebow/db.go, bucket.go, range.go,     *)
(* iter.go): buckets on top of badger.  A record of a bucket has the id of *)
(* the bucket before its key; the ids are in a meta record, are taken from *)
(* a sequence of badger, and are cached in memory.  The goroutines that    *)
(* have a storage (ConnectionPool) read and write at the same time, the    *)
(* process may stop between any two writes, and writes may fail.           *)
(*                                                                         *)
(* Badger is external: transactions and flushes are atomic, and a sequence *)
(* leases numbers, of which it gives back the rest when it is released.    *)
(***************************************************************************)
EXTENDS Integers, Sequences, FiniteSets, SequencesExt

CONSTANTS
  Clients,    \* goroutines
  Names,      \* the names of buckets
  Keys,       \* keys: sequences of numbers, for their order and prefixes
  Values,
  Batches,    \* what clients write: a bucket and a sequence of records
  Chunk,      \* the records that are flushed at once
  Lease,      \* the numbers that a sequence leases
  MaxId,      \* MaxBuckets
  MaxLeased,  \* bound: the lease up to which the database is opened again
  None

Ids == 0 .. MaxId
Buckets == [Names -> Ids \cup {None}]
Records == [Keys -> Values \cup {None}]
Entries == [key : Keys, value : Values]
NoBuckets == [n \in Names |-> None]
NoRecords == [k \in Keys |-> None]

ASSUME DatabaseAssumption ==
  /\ Keys \subseteq Seq(Nat)
  /\ Chunk \in Nat \ {0} /\ Lease \in Nat \ {0}
  /\ MaxId \in Nat /\ MaxLeased \in Nat
  /\ Batches \subseteq [bucket : Names, records : Seq(Entries)]
  /\ None \notin Nat /\ None \notin Values /\ None \notin Clients

VARIABLES
  saved,    \* on disk: the buckets of the meta record,
  granted,  \* the number up to which the sequence is leased,
  stored,   \* and the records under each id
  up,       \* "closed", "open", "closing": the sequence is released, "kept":
            \* that failed, or "leaked": badger is open and nobody has it
  buckets,  \* in memory: db.meta.Buckets,
  nextId,   \* the next number of the sequence
  leased,   \* and the end of the lease
  metaMu,   \* who writes with the lock of the buckets
  pc,       \* where a client is
  name,     \* the bucket it writes to
  bucket,   \* the id that it has of the bucket
  rest      \* the records it has still to write

disk == <<saved, granted, stored>>
memory == <<up, buckets, nextId, leased, metaMu>>
clients == <<pc, name, bucket, rest>>
vars == <<disk, memory, clients>>

-----------------------------------------------------------------------------
(* Reading.  Keys are ordered as bytes are.                                *)
Before(a, b) ==
  \/ \E i \in DOMAIN a \cap DOMAIN b : a[i] < b[i] /\ \A j \in 1 .. i - 1 : a[j] = b[j]
  \/ Len(a) < Len(b) /\ IsPrefix(a, b)

InternalKey(id, key) == <<id>> \o key

InternalKeys ==
  {InternalKey(p[1], p[2]) : p \in {q \in Ids \X Keys : stored[q[1]][q[2]] # None}}

(* What an iterator returns from seek on, until a key that ends it.        *)
From(seek, Ends(_)) ==
  LET found == {ik \in InternalKeys : ~Before(ik, seek)}
  IN  {Tail(ik) : ik \in {i \in found : \A e \in found : Ends(e) => Before(i, e)}}

Cut(key, length) == SubSeq(key, 1, length)

(* Mutation of LineRange: the whole key is compared with the end.              *)
LineRange_Whole(id, from, to) ==
  LET until == InternalKey(id, to)
  IN  From(InternalKey(id, from), LAMBDA ik : Len(ik) < Len(until) \/ Before(until, ik))

(* newRange and its Next.                                                  *)
LineRange(id, from, to) ==
  LET until == InternalKey(id, to)
  IN  From(InternalKey(id, from),
           LAMBDA ik : Len(ik) < Len(until) \/ Before(until, Cut(ik, Len(until))))

(* newIter and its Next.                                                   *)
LinePrefix(id, prefix) ==
  From(InternalKey(id, prefix), LAMBDA ik : ~IsPrefix(InternalKey(id, prefix), ik))

-----------------------------------------------------------------------------
Init ==
  /\ saved = NoBuckets /\ granted = 0
  /\ stored = [i \in Ids |-> NoRecords]
  /\ up = "closed"
  /\ buckets = NoBuckets /\ nextId = 0 /\ leased = 0 /\ metaMu = None
  /\ pc = [c \in Clients |-> "idle"]
  /\ name = [c \in Clients |-> None]
  /\ bucket = [c \in Clients |-> None]
  /\ rest = [c \in Clients |-> <<>>]

(* Mutation of Open: the lease is not written.                             *)
Open_Unleased ==
  /\ up = "closed" /\ granted <= MaxLeased
  /\ buckets' = saved
  /\ nextId' = granted /\ leased' = granted + Lease
  /\ granted' = granted
  /\ up' = "open"
  /\ UNCHANGED <<saved, stored, metaMu, clients>>

(* Open: the meta record is read, or that of a new database written, and   *)
(* the sequence leases its first numbers.                                  *)
Open ==
  /\ up = "closed" /\ granted <= MaxLeased
  /\ buckets' = saved
  /\ nextId' = granted /\ leased' = granted + Lease
  /\ granted' = granted + Lease
  /\ up' = "open"
  /\ UNCHANGED <<saved, stored, metaMu, clients>>

(* Open returns an error after it has opened badger.                       *)
OpenFails ==
  /\ up = "closed"
  /\ up' = "leaked"
  /\ UNCHANGED <<disk, buckets, nextId, leased, metaMu, clients>>

(* The operation returns.                                                  *)
Done(c) ==
  /\ pc' = [pc EXCEPT ![c] = "idle"]
  /\ bucket' = [bucket EXCEPT ![c] = None]
  /\ name' = [name EXCEPT ![c] = None]
  /\ rest' = [rest EXCEPT ![c] = <<>>]

(* There is a database in memory for those who have it.                    *)
InMemory == up \in {"open", "closing", "kept"}

ProcessEnds ==
  /\ up' = "closed"
  /\ buckets' = NoBuckets /\ nextId' = 0 /\ leased' = 0 /\ metaMu' = None
  /\ pc' = [c \in Clients |-> "idle"]
  /\ bucket' = [c \in Clients |-> None]
  /\ name' = [c \in Clients |-> None]
  /\ rest' = [c \in Clients |-> <<>>]

(* Each operation of a storage begins with db.Bucket(name).  One that only *)
(* reads has no records to write.  While the pool closes a database, and   *)
(* when it could not, those who have it go on with it.                     *)
Call(c, b) ==
  /\ InMemory /\ pc[c] = "idle"
  /\ name' = [name EXCEPT ![c] = b.bucket]
  /\ rest' = [rest EXCEPT ![c] = b.records]
  /\ pc' = [pc EXCEPT ![c] = "bucket"]
  /\ UNCHANGED <<disk, memory, bucket>>

FindBucket(c) ==
  /\ pc[c] = "bucket" /\ metaMu = None
  /\ bucket' = [bucket EXCEPT ![c] = buckets[name[c]]]
  /\ pc' = [pc EXCEPT ![c] = IF buckets[name[c]] = None THEN "create" ELSE "write"]
  /\ UNCHANGED <<disk, memory, name, rest>>

(* createBucket, with the lock: another client may have created it.        *)
BucketExists(c) ==
  /\ pc[c] = "create" /\ metaMu = None /\ buckets[name[c]] # None
  /\ bucket' = [bucket EXCEPT ![c] = buckets[name[c]]]
  /\ pc' = [pc EXCEPT ![c] = "write"]
  /\ UNCHANGED <<disk, memory, name, rest>>

(* Next of the sequence.                                                   *)
NextNumber ==
  /\ nextId' = nextId + 1
  /\ IF nextId = leased
     THEN granted' = leased + Lease /\ leased' = leased + Lease
     ELSE UNCHANGED <<granted, leased>>

(* Mutation of TakeId: one id too many.                                    *)
TakeId_Unlimited(c) ==
  /\ pc[c] = "create" /\ metaMu = None /\ buckets[name[c]] = None
  /\ nextId <= MaxId + 1
  /\ NextNumber
  /\ buckets' = [buckets EXCEPT ![name[c]] = nextId]
  /\ metaMu' = c
  /\ pc' = [pc EXCEPT ![c] = "save"]
  /\ UNCHANGED <<saved, stored, up, name, bucket, rest>>

(* Mutation of TakeId: without the second look.                            *)
TakeId_Unchecked(c) ==
  /\ pc[c] = "create" /\ metaMu = None
  /\ nextId <= MaxId
  /\ NextNumber
  /\ buckets' = [buckets EXCEPT ![name[c]] = nextId]
  /\ metaMu' = c
  /\ pc' = [pc EXCEPT ![c] = "save"]
  /\ UNCHANGED <<saved, stored, up, name, bucket, rest>>

(* The next number is the id of the bucket, in memory, before it is saved. *)
TakeId(c) ==
  /\ pc[c] = "create" /\ metaMu = None /\ buckets[name[c]] = None
  /\ nextId <= MaxId
  /\ NextNumber
  /\ buckets' = [buckets EXCEPT ![name[c]] = nextId]
  /\ metaMu' = c
  /\ pc' = [pc EXCEPT ![c] = "save"]
  /\ UNCHANGED <<saved, stored, up, name, bucket, rest>>

(* The sequence cannot lease numbers.                                      *)
SequenceFails(c) ==
  /\ pc[c] = "create" /\ metaMu = None /\ buckets[name[c]] = None
  /\ nextId = leased
  /\ pc' = [pc EXCEPT ![c] = "failed"]
  /\ UNCHANGED <<disk, memory, name, bucket, rest>>

(* There are MaxBuckets: the number is lost.                               *)
NoMoreIds(c) ==
  /\ pc[c] = "create" /\ metaMu = None /\ buckets[name[c]] = None
  /\ nextId > MaxId /\ nextId <= MaxLeased
  /\ NextNumber
  /\ pc' = [pc EXCEPT ![c] = "failed"]
  /\ UNCHANGED <<saved, stored, up, buckets, metaMu, name, bucket, rest>>

(* writeMeta: the buckets in memory, all of them.                          *)
SaveBuckets(c) ==
  /\ pc[c] = "save"
  /\ saved' = buckets
  /\ metaMu' = None
  /\ bucket' = [bucket EXCEPT ![c] = buckets[name[c]]]
  /\ pc' = [pc EXCEPT ![c] = "write"]
  /\ UNCHANGED <<granted, stored, up, buckets, nextId, leased, name, rest>>

(* The transaction fails, and the bucket stays in memory.                  *)
SaveFails(c) ==
  /\ pc[c] = "save"
  /\ metaMu' = None
  /\ pc' = [pc EXCEPT ![c] = "failed"]
  /\ UNCHANGED <<disk, up, buckets, nextId, leased, name, bucket, rest>>

(* The bucket that could not be created has its error and no database.  To *)
(* read from it returns the error.                                         *)
ErrorReturned(c) ==
  /\ pc[c] = "failed" /\ rest[c] = <<>>
  /\ Done(c)
  /\ UNCHANGED <<disk, memory>>

(* To write looks at its database first, and panics: the process ends, but *)
(* for a panic in a request, which is recovered.                           *)
Panics(c) ==
  /\ pc[c] = "failed" /\ rest[c] # <<>>
  /\ \/ ProcessEnds
     \/ Done(c) /\ UNCHANGED memory
  /\ UNCHANGED disk

(* PutBatch flushes every Chunk records and the rest, Put its one record.  *)
(* Of two records with one key the later counts.                           *)
LastWith(k, chunk) ==
  {i \in DOMAIN chunk : chunk[i].key = k /\ \A j \in DOMAIN chunk : j > i => chunk[j].key # k}

Updated(old, chunk) ==
  [k \in Keys |-> IF LastWith(k, chunk) = {} THEN old[k]
                  ELSE chunk[CHOOSE i \in LastWith(k, chunk) : TRUE].value]

Flushed(records) == IF Len(records) < Chunk THEN Len(records) ELSE Chunk

(* Mutation of WriteChunk: a flush replaces what there was.                *)
WriteChunk_Replaces(c) ==
  /\ pc[c] = "write" /\ rest[c] # <<>>
  /\ stored' = [stored EXCEPT ![bucket[c]] = Updated(NoRecords, SubSeq(rest[c], 1, Flushed(rest[c])))]
  /\ rest' = [rest EXCEPT ![c] = SubSeq(@, Flushed(@) + 1, Len(@))]
  /\ UNCHANGED <<saved, granted, memory, pc, name, bucket>>

WriteChunk(c) ==
  /\ pc[c] = "write" /\ rest[c] # <<>>
  /\ stored' = [stored EXCEPT ![bucket[c]] = Updated(@, SubSeq(rest[c], 1, Flushed(rest[c])))]
  /\ rest' = [rest EXCEPT ![c] = SubSeq(@, Flushed(@) + 1, Len(@))]
  /\ UNCHANGED <<saved, granted, memory, pc, name, bucket>>

WriteFails(c) ==
  /\ pc[c] = "write" /\ rest[c] # <<>>
  /\ Done(c)
  /\ UNCHANGED <<disk, memory>>

Return(c) ==
  /\ pc[c] = "write" /\ rest[c] = <<>>
  /\ Done(c)
  /\ UNCHANGED <<disk, memory>>

(* The pool closes a database, also while clients are using it (see        *)
(* HolderHasDatabase in ConnectionPool).  First the sequence is released:  *)
(* who creates a bucket now leases numbers again.                          *)
Release ==
  /\ up = "open"
  /\ granted' = nextId /\ leased' = nextId
  /\ up' = "closing"
  /\ UNCHANGED <<saved, stored, buckets, nextId, metaMu, clients>>

(* The sequence cannot be released: badger stays open.                     *)
CloseFails ==
  /\ up = "open"
  /\ up' = "kept"
  /\ UNCHANGED <<disk, buckets, nextId, leased, metaMu, clients>>

(* Then badger is closed, and who is in an operation has an object that is *)
(* closed, while others may get a new one.                                 *)
Close ==
  /\ up = "closing"
  /\ up' = "closed"
  /\ pc' = [c \in Clients |-> IF pc[c] = "idle" THEN "idle" ELSE "cut"]
  /\ bucket' = [c \in Clients |-> None]
  /\ name' = [c \in Clients |-> None]
  /\ rest' = [c \in Clients |-> <<>>]
  /\ buckets' = NoBuckets /\ nextId' = 0 /\ leased' = 0 /\ metaMu' = None
  /\ UNCHANGED disk

(* Badger does nothing any more for an object that is closed: what is left *)
(* of the operation returns an error, or panics (see Panics).              *)
CutOff(c) ==
  /\ pc[c] = "cut"
  /\ \/ ProcessEnds
     \/ Done(c) /\ UNCHANGED memory
  /\ UNCHANGED disk

(* The process ends, wherever it is.                                       *)
Crash == up # "closed" /\ ProcessEnds /\ UNCHANGED disk

ClientNext(c) ==
  \/ \E b \in Batches : Call(c, b)
  \/ FindBucket(c) \/ BucketExists(c) \/ TakeId(c) \/ SequenceFails(c) \/ NoMoreIds(c)
  \/ SaveBuckets(c) \/ SaveFails(c) \/ ErrorReturned(c) \/ Panics(c)
  \/ WriteChunk(c) \/ WriteFails(c) \/ Return(c) \/ CutOff(c)

Next ==
  \/ Open \/ OpenFails \/ Release \/ CloseFails \/ Close \/ Crash
  \/ \E c \in Clients : ClientNext(c)

Spec == Init /\ [][Next]_vars

-----------------------------------------------------------------------------
TypeOK ==
  /\ saved \in Buckets /\ granted \in Nat /\ stored \in [Ids -> Records]
  /\ up \in {"closed", "open", "closing", "kept", "leaked"}
  /\ buckets \in Buckets /\ nextId \in Nat /\ leased \in Nat
  /\ metaMu \in Clients \cup {None}
  /\ pc \in [Clients -> {"idle", "bucket", "create", "save", "failed", "write", "cut"}]
  /\ name \in [Clients -> Names \cup {None}]
  /\ bucket \in [Clients -> Ids \cup {None}]
  /\ rest \in [Clients -> Seq(Entries)]

(* The id of a bucket, as a client or the next process would find it.      *)
IdOf(n) == IF InMemory THEN buckets[n] ELSE saved[n]

(* Two buckets never have the same id, whether it is saved or not, a saved *)
(* id is the one in use, and a client writes under the id that its bucket  *)
(* has now, although it found it, or created it, without holding the lock  *)
(* from then on (Bucket, bucket and createBucket, db.go 239-331).          *)
OneIdPerBucket ==
  /\ \A m \in Names, n \in Names : m # n /\ IdOf(m) # None => IdOf(m) \notin {IdOf(n), saved[n]}
  /\ \A n \in Names : saved[n] # None => IdOf(n) = saved[n]
  /\ \A c \in Clients : pc[c] = "write" => bucket[c] = IdOf(name[c]) /\ bucket[c] # None

Contents == [n \in Names |-> IF IdOf(n) = None THEN NoRecords ELSE stored[IdOf(n)]]
Unsettled == {n \in Names : IdOf(n) # saved[n]}

Store == INSTANCE BucketStore WITH contents <- Contents, unsettled <- Unsettled

(* The database is a BucketStore: what was written stays in its bucket,    *)
(* and a new bucket is empty, whatever was created, written or lost before *)
(* (Open, createBucket, PutBatch, Close: db.go 176-331, bucket.go 16-50).  *)
ImplementsStore == Store!Spec

(* A range returns the records of its bucket from its first key to those   *)
(* that begin with its last, and none of another bucket, given that no key *)
(* of the bucket is shorter than the last (newRange and Next, range.go     *)
(* 27-96); an iterator those with its prefix (iter.go 20-78).              *)
Within(n, Test(_)) == {k \in Keys : Contents[n][k] # None /\ Test(k)}

Bounds == UNION {{Cut(k, i) : i \in 0 .. Len(k)} : k \in Keys}

RangesAreExact ==
  \A n \in {m \in Names : IdOf(m) # None}, to \in Bounds :
    /\ LinePrefix(IdOf(n), to) = Within(n, LAMBDA k : IsPrefix(to, k))
    /\ (\A k \in Keys : Contents[n][k] # None => Len(k) >= Len(to)) =>
         \A from \in Bounds :
           LineRange(IdOf(n), from, to)
             = Within(n, LAMBDA k : ~Before(k, from) /\ ~Before(to, Cut(k, Len(to))))

=============================================================================
