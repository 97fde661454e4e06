------------------------- MODULE BowDatabaseProofs -------------------------
(***************************************************************************)
(* A bucket has one id for ever and no other bucket has it, for any        *)
(* goroutines, buckets, records and leases, over failures and crashes; and *)
(* ranges and iterators return what they should of one bucket.             *)
(***************************************************************************)
EXTENDS BowDatabase, FiniteSetTheorems, SequenceTheorems, WellFoundedInduction,
        TLAPS

(* Ids are numbers that the sequence has given out, and on disk it has     *)
(* given out all numbers of its lease.                                     *)
IdsAreTaken ==
  /\ \A n \in Names : saved[n] # None => saved[n] < granted
  /\ InMemory =>
       /\ nextId <= leased /\ leased = granted
       /\ \A n \in Names : buckets[n] # None => buckets[n] < nextId

(* There are no records under an id that can still be given out.           *)
Fresh ==
  \A i \in Ids : i >= (IF InMemory THEN nextId ELSE granted) => stored[i] = NoRecords

SavedApart == \A m \in Names, n \in Names : m # n /\ saved[m] # None => saved[m] # saved[n]

(* What is in memory extends what is saved.                                *)
MemoryExtends ==
  InMemory =>
    /\ \A m \in Names, n \in Names : m # n /\ buckets[m] # None => buckets[m] # buckets[n]
    /\ \A n \in Names : saved[n] # None => buckets[n] = saved[n]

(* Who is in an operation has a bucket to work on, and an open database.   *)
AtWork ==
  \A c \in Clients : pc[c] \notin {"idle", "cut"} =>
    /\ InMemory /\ name[c] \in Names
    /\ pc[c] = "save" => buckets[name[c]] # None
    /\ pc[c] = "write" => bucket[c] = buckets[name[c]] /\ bucket[c] # None

IInv == TypeOK /\ IdsAreTaken /\ Fresh /\ SavedApart /\ MemoryExtends /\ AtWork

(* A new database is closed and has no buckets.                            *)
LEMMA InitIInv == Init => IInv
BY DatabaseAssumption
   DEF Init, IInv, TypeOK, IdsAreTaken, Fresh, SavedApart, MemoryExtends, AtWork, Buckets,
      NoBuckets, NoRecords, Records, Ids, InMemory

(* The inductive invariant implies that a bucket has one id.               *)
LEMMA IInvImplies == IInv => OneIdPerBucket
<1> SUFFICES ASSUME IInv PROVE OneIdPerBucket
  OBVIOUS
<1>1. CASE InMemory
  BY <1>1 DEF IInv, IdsAreTaken, Fresh, SavedApart, MemoryExtends, AtWork, OneIdPerBucket, IdOf
<1>2. CASE ~InMemory
  BY <1>2 DEF IInv, IdsAreTaken, Fresh, SavedApart, MemoryExtends, AtWork, OneIdPerBucket, IdOf
<1> QED BY <1>1, <1>2

(* A chunk is made of records, and a flush makes records of them.          *)
LEMMA ChunkType ==
  ASSUME NEW records \in Seq(Entries), records # <<>>
  PROVE  /\ SubSeq(records, 1, Flushed(records)) \in Seq(Entries)
         /\ SubSeq(records, Flushed(records) + 1, Len(records)) \in Seq(Entries)
BY DatabaseAssumption DEF Flushed

(* A batch adds records or replaces them, and removes none.                *)
LEMMA UpdatedType ==
  ASSUME NEW old \in Records, NEW chunk \in Seq(Entries)
  PROVE  /\ Updated(old, chunk) \in Records
         /\ \A k \in Keys : Updated(old, chunk)[k] = None => old[k] = None
<1> SUFFICES ASSUME NEW k \in Keys
             PROVE  /\ Updated(old, chunk)[k] \in Values \cup {None}
                    /\ Updated(old, chunk)[k] = None => old[k] = None
  BY DEF Updated, Records
<1>1. CASE LastWith(k, chunk) = {}
  BY <1>1 DEF Updated, Records
<1>2. CASE LastWith(k, chunk) # {}
  <2>1. PICK i \in LastWith(k, chunk) : i = CHOOSE l \in LastWith(k, chunk) : TRUE
    BY <1>2
  <2>2. i \in DOMAIN chunk
    BY DEF LastWith
  <2>3. chunk[i] \in Entries
    BY <2>2
  <2>4. chunk[i].value \in Values
    BY <2>3, SMTT(30) DEF Entries
  <2> QED
    BY <1>2, <2>1, <2>4, DatabaseAssumption DEF Updated
<1> QED
  BY <1>1, <1>2

(* Who takes an id creates a bucket that is nowhere yet, with a number of  *)
(* the lease.                                                              *)
LEMMA TakenIs ==
  ASSUME IInv, NEW c \in Clients, TakeId(c)
  PROVE  /\ name[c] \in Names /\ InMemory /\ nextId \in Ids /\ nextId # None
         /\ nextId <= leased /\ buckets[name[c]] = None /\ saved[name[c]] = None
<1>1. pc[c] = "create" /\ nextId <= MaxId /\ buckets[name[c]] = None
  BY DEF TakeId
<1>2. name[c] \in Names /\ InMemory
  BY <1>1 DEF IInv, AtWork
<1>3. nextId \in Ids /\ nextId # None
  BY <1>1, DatabaseAssumption DEF IInv, TypeOK, Ids
<1>4. nextId <= leased
  BY <1>2 DEF IInv, IdsAreTaken
<1>5. saved[name[c]] = None
  BY SMTT(30), <1>1, <1>2 DEF IInv, MemoryExtends
<1> QED
  BY <1>1, <1>2, <1>3, <1>4, <1>5

(* Each action preserves the inductive invariant.                          *)
LEMMA NextIInv == IInv /\ [Next]_vars => IInv'
<1> SUFFICES ASSUME IInv, [Next]_vars PROVE IInv'
  OBVIOUS
<1> USE DatabaseAssumption
    DEF IInv, TypeOK, IdsAreTaken, Fresh, SavedApart, MemoryExtends, AtWork, disk, memory, clients,
        Buckets, NoBuckets, NoRecords, Records, Ids, InMemory
<1>1. CASE Open
  BY <1>1 DEF Open
<1>2. CASE OpenFails
  BY <1>2 DEF OpenFails
<1>3. CASE Close
  <2>1. TypeOK'
    BY <1>3 DEF Close
  <2>2. \A i \in Ids : i >= granted => i >= nextId
    BY <1>3 DEF Close
  <2>3. Fresh'
    BY <1>3, <2>2 DEF Close
  <2>4. IdsAreTaken' /\ SavedApart' /\ MemoryExtends' /\ AtWork'
    BY <1>3 DEF Close
  <2> QED
    BY <2>1, <2>3, <2>4
<1>4. CASE CloseFails
  BY <1>4 DEF CloseFails
<1>5. ASSUME ProcessEnds, UNCHANGED disk PROVE IInv'
  <2>1. TypeOK'
    BY <1>5 DEF ProcessEnds
  <2>2. ASSUME NEW i \in Ids, i >= granted PROVE stored[i] = NoRecords
    <3>1. i >= IF InMemory THEN nextId ELSE granted
      BY <2>2
    <3> QED
      BY <3>1
  <2>3. Fresh'
    BY <1>5, <2>2 DEF ProcessEnds
  <2>4. IdsAreTaken' /\ SavedApart' /\ MemoryExtends' /\ AtWork'
    BY <1>5 DEF ProcessEnds
  <2> QED
    BY <2>1, <2>3, <2>4
<1>6. ASSUME NEW c \in Clients, NEW b \in Batches, Call(c, b) PROVE IInv'
  BY <1>6 DEF Call
<1>7. ASSUME NEW c \in Clients, FindBucket(c) PROVE IInv'
  BY <1>7 DEF FindBucket
<1>8. ASSUME NEW c \in Clients, BucketExists(c) PROVE IInv'
  BY <1>8 DEF BucketExists
<1>9. ASSUME NEW c \in Clients, TakeId(c) PROVE IInv'
  <2> DEFINE n == name[c]
  <2>1. /\ n \in Names /\ InMemory /\ nextId \in Ids /\ nextId # None
        /\ nextId <= leased /\ buckets[n] = None /\ saved[n] = None
    BY <1>9, TakenIs
  <2>2. /\ nextId' = nextId + 1 /\ buckets' = [buckets EXCEPT ![n] = nextId]
        /\ nextId' <= leased' /\ leased' = granted' /\ granted <= granted'
        /\ leased' \in Nat /\ granted' \in Nat
        /\ UNCHANGED <<saved, stored, up, name, bucket, rest>>
    BY <1>9, <2>1 DEF TakeId, NextNumber
  <2>3. metaMu' = c /\ pc' = [pc EXCEPT ![c] = "save"]
    BY <1>9 DEF TakeId
  <2> HIDE DEF n
  <2>4. TypeOK'
    BY <2>1, <2>2, <2>3
  <2>5. IdsAreTaken' /\ Fresh' /\ SavedApart'
    BY <2>1, <2>2
  <2>6. MemoryExtends'
    BY <2>1, <2>2
  <2>7. AtWork'
    BY <2>1, <2>2, <2>3 DEF n
  <2> QED
    BY <2>4, <2>5, <2>6, <2>7
<1>10. ASSUME NEW c \in Clients, SequenceFails(c) PROVE IInv'
  BY <1>10 DEF SequenceFails
<1>11. ASSUME NEW c \in Clients, NoMoreIds(c) PROVE IInv'
  BY <1>11 DEF NoMoreIds, NextNumber
<1>12. ASSUME NEW c \in Clients, SaveBuckets(c) PROVE IInv'
  <2>1. /\ name[c] \in Names /\ InMemory /\ saved' = buckets
        /\ buckets[name[c]] \in Ids /\ pc' = [pc EXCEPT ![c] = "write"]
        /\ bucket' = [bucket EXCEPT ![c] = buckets[name[c]]]
        /\ metaMu' = None
        /\ UNCHANGED <<granted, stored, up, buckets, nextId, leased, name, rest>>
    BY <1>12, ZenonT(40) DEF SaveBuckets
  <2>2. TypeOK' /\ IdsAreTaken' /\ Fresh'
    BY <2>1
  <2>3. SavedApart' /\ MemoryExtends'
    BY <2>1
  <2>4. AtWork'
    BY <2>1
  <2> QED
    BY <2>2, <2>3, <2>4
<1>13. ASSUME NEW c \in Clients, SaveFails(c) PROVE IInv'
  BY <1>13 DEF SaveFails
<1>14. ASSUME NEW c \in Clients, ErrorReturned(c) PROVE IInv'
  BY <1>14 DEF ErrorReturned, Done
<1>15. ASSUME NEW c \in Clients, Panics(c) PROVE IInv'
  <2>1. CASE Done(c) /\ UNCHANGED <<disk, memory>>
    BY <1>15, <2>1 DEF Panics, Done
  <2> QED
    BY <1>5, <1>15, <2>1 DEF Panics
<1>16. ASSUME NEW c \in Clients, WriteChunk(c) PROVE IInv'
  <2> DEFINE chunk == SubSeq(rest[c], 1, Flushed(rest[c]))
             id == bucket[c]
  <2>1. /\ rest[c] \in Seq(Entries) /\ rest[c] # <<>>
        /\ id \in Ids /\ id = buckets[name[c]] /\ name[c] \in Names /\ InMemory
        /\ id # None /\ UNCHANGED <<saved, granted, memory, pc, name, bucket>>
    BY <1>16 DEF WriteChunk
  <2>2. chunk \in Seq(Entries) /\ rest' \in [Clients -> Seq(Entries)]
    BY <1>16, <2>1, ChunkType DEF WriteChunk
  <2>3. Updated(stored[id], chunk) \in Records
    BY <2>1, <2>2, UpdatedType
  <2>4. stored' = [stored EXCEPT ![id] = Updated(stored[id], chunk)]
    BY <1>16 DEF WriteChunk
  <2> HIDE DEF chunk, id
  <2>5. TypeOK'
    BY <2>1, <2>2, <2>3, <2>4
  <2>6. Fresh'
    <3>1. id < nextId
      BY <2>1
    <3> QED
      BY <2>1, <2>4, <3>1
  <2> QED
    BY <1>16, <2>5, <2>6 DEF WriteChunk
<1>17. ASSUME NEW c \in Clients, WriteFails(c) PROVE IInv'
  BY <1>17 DEF WriteFails, Done
<1>18. ASSUME NEW c \in Clients, Return(c) PROVE IInv'
  BY <1>18 DEF Return, Done
<1>19. CASE Release
  BY <1>19 DEF Release
<1>20. ASSUME NEW c \in Clients, CutOff(c) PROVE IInv'
  <2>1. CASE Done(c) /\ UNCHANGED <<disk, memory>>
    BY <1>20, <2>1 DEF CutOff, Done
  <2> QED
    BY <1>5, <1>20, <2>1 DEF CutOff
<1>21. CASE UNCHANGED vars
  BY <1>21 DEF vars
<1> QED
  BY <1>1, <1>2, <1>3, <1>4, <1>5, <1>6, <1>7, <1>8, <1>9, <1>10, <1>11, <1>12,
     <1>13, <1>14, <1>15, <1>16, <1>17, <1>18, <1>19, <1>20, <1>21
  DEF Next, ClientNext, Crash

(* All states of a behaviour satisfy the inductive invariant.              *)
LEMMA Inductive == Spec => []IInv
  BY InitIInv, NextIInv, PTL DEF Spec

(* The state of the database keeps its types (db.go, bucket.go).           *)
THEOREM TypeCorrect == Spec => []TypeOK
<1>1. IInv => TypeOK
  BY DEF IInv
<1> QED
  BY Inductive, <1>1, PTL

(* Whatever is created at the same time, fails or is lost, a bucket has    *)
(* one id, which no other bucket has or had saved (DB.createBucket,        *)
(* db.go 297-331).                                                         *)
THEOREM IdsUnique == Spec => []OneIdPerBucket
  BY Inductive, IInvImplies, PTL

-----------------------------------------------------------------------------
(* A step that changes neither the buckets nor the records is a stutter of *)
(* the store.                                                              *)
LEMMA Stutter ==
  (\A n \in Names : IdOf(n)' = IdOf(n)) /\ saved' = saved /\ stored' = stored
    => UNCHANGED Store!storeVars
BY DEF Contents, Unsettled, Store!storeVars

(* When the database is closed, or the process ends, what is saved counts. *)
LEMMA EndIsRestart ==
  ASSUME IInv, ~InMemory', UNCHANGED <<saved, stored>>
  PROVE  Store!Restart
<1> USE DEF IInv, IdOf
<1>1. \A n \in Names : IdOf(n)' = saved[n]
  OBVIOUS
<1>2. Unsettled' = {}
  BY <1>1 DEF Unsettled
<1>3. \A n \in Names : n \in Unsettled => saved[n] = None
  BY DEF Unsettled, MemoryExtends
<1>4. \A n \in Names : n \notin Unsettled => IdOf(n) = saved[n]
  BY DEF Unsettled
<1>5. Contents' = [n \in Names |-> IF saved[n] = None THEN NoRecords ELSE stored[saved[n]]]
  BY <1>1 DEF Contents
<1>6. Contents' = [n \in Names |-> IF n \in Unsettled THEN Store!Empty ELSE Contents[n]]
  BY <1>3, <1>4, <1>5 DEF Contents, Store!Empty, NoRecords
<1> QED
  BY <1>2, <1>6 DEF Store!Restart

(* A new id has no records, and its bucket had none.                       *)
LEMMA NewIdCreates ==
  ASSUME IInv, NEW c \in Clients, TakeId(c)
  PROVE  Store!Create(name[c]) /\ name[c] \in Names
<1> DEFINE n == name[c]
<1> USE DatabaseAssumption DEF IInv, IdOf
<1>1. /\ n \in Names /\ InMemory /\ InMemory' /\ buckets[n] = None
      /\ nextId \in Ids /\ nextId # None
      /\ buckets' = [buckets EXCEPT ![n] = nextId] /\ buckets \in Buckets
      /\ UNCHANGED <<saved, stored>>
  <2>1. n \in Names /\ InMemory /\ nextId \in Ids /\ nextId # None
    BY TakenIs
  <2>2. InMemory'
    BY <2>1 DEF TakeId, InMemory
  <2> QED
    BY <2>1, <2>2 DEF TakeId, TypeOK
<1>2. stored[nextId] = NoRecords
  BY <1>1 DEF Fresh, TypeOK
<1>3. saved[n] = None
  BY <1>1 DEF MemoryExtends
<1> HIDE DEF n
<1>4. \A m \in Names : IdOf(m)' = IF m = n THEN nextId ELSE IdOf(m)
  BY <1>1 DEF Buckets
<1>5. Contents[n] = NoRecords /\ Contents' = Contents
  BY <1>1, <1>2, <1>4 DEF Contents
<1>6. Unsettled' = Unsettled \cup {n}
  BY <1>1, <1>3, <1>4 DEF Unsettled
<1> QED
  BY <1>1, <1>5, <1>6 DEF Store!Create, Store!Empty, NoRecords, n

(* All buckets in memory are saved.                                        *)
LEMMA SaveSettles ==
  ASSUME IInv, NEW c \in Clients, SaveBuckets(c)
  PROVE  Store!Settle
<1>1. InMemory
  BY DEF IInv, AtWork, SaveBuckets
<1> QED
  BY <1>1 DEF SaveBuckets, Store!Settle, Contents, Unsettled, IdOf, InMemory

(* A flush changes the records of the bucket the client means, and of no   *)
(* other, because no other bucket has its id.                              *)
LEMMA FlushWrites ==
  ASSUME IInv, NEW c \in Clients, WriteChunk(c)
  PROVE  Store!Write(name[c]) /\ name[c] \in Names
<1> DEFINE n == name[c]
           id == bucket[c]
           new == Updated(stored[id], SubSeq(rest[c], 1, Flushed(rest[c])))
<1> USE DatabaseAssumption DEF IInv, IdOf
<1>1. /\ n \in Names /\ InMemory /\ id \in Ids /\ id = buckets[n] /\ id # None
      /\ rest[c] \in Seq(Entries) /\ rest[c] # <<>> /\ stored \in [Ids -> Records]
      /\ stored' = [stored EXCEPT ![id] = new]
      /\ UNCHANGED <<up, saved, buckets>>
  BY DEF WriteChunk, AtWork, TypeOK, memory, InMemory
<1>2. /\ new \in Records
      /\ \A k \in Keys : new[k] = None => stored[id][k] = None
  BY <1>1, ChunkType, UpdatedType
<1> HIDE DEF n, id, new
<1>3. \A m \in Names : m # n => buckets[m] # id
  BY <1>1 DEF MemoryExtends
<1>4. Contents[n] = stored[id]
  BY <1>1 DEF Contents
<1>5. Contents' = [Contents EXCEPT ![n] = new]
  <2>1. \A m \in Names : m # n /\ buckets[m] # None =>
                           buckets[m] \in Ids /\ stored'[buckets[m]] = stored[buckets[m]]
    BY <1>1, <1>3 DEF TypeOK, Buckets
  <2>2. stored'[id] = new
    BY <1>1
  <2>3. \A m \in Names : IdOf(m) = buckets[m] /\ IdOf(m)' = buckets[m]
    BY <1>1 DEF InMemory
  <2> DEFINE put == [Contents EXCEPT ![n] = new]
  <2>4. ASSUME NEW m \in Names PROVE Contents'[m] = put[m]
    <3>1. CASE m = n
      BY <1>1, <2>2, <2>3, <3>1 DEF Contents
    <3>2. CASE m # n
      BY <1>1, <2>1, <2>3, <3>2 DEF Contents
    <3> QED
      BY <3>1, <3>2
  <2> QED
    BY <2>4 DEF Contents
<1>6. Unsettled' = Unsettled
  BY <1>1 DEF Unsettled, InMemory
<1>7. Store!Write(n)
  BY <1>2, <1>4, <1>5, <1>6, ZenonT(40) DEF Store!Write, Store!Records, Records
<1> QED
  BY <1>1, <1>7 DEF n

(* Each step of the database is one of the store, or a stutter.            *)
LEMMA StoreStep == IInv /\ [Next]_vars => [Store!Next]_(Store!storeVars)
<1> SUFFICES ASSUME IInv, [Next]_vars PROVE [Store!Next]_(Store!storeVars)
  OBVIOUS
<1> USE DEF Store!Next, disk, memory
<1>1. ASSUME UNCHANGED <<up, buckets, saved, stored>> PROVE UNCHANGED Store!storeVars
  BY <1>1, Stutter DEF IdOf, InMemory
<1>2. ASSUME ~InMemory, ~InMemory', UNCHANGED <<saved, stored>>
      PROVE  UNCHANGED Store!storeVars
  BY <1>2, Stutter DEF IdOf, InMemory
<1>3. CASE Open
  BY <1>3, Stutter DEF Open, IdOf, InMemory
<1>4. CASE OpenFails
  BY <1>2, <1>4 DEF OpenFails, InMemory
<1>5. CASE Close
  BY <1>5, EndIsRestart DEF Close, InMemory
<1>6. CASE Release \/ CloseFails
  BY <1>6, Stutter DEF Release, CloseFails, IdOf, InMemory
<1>7. CASE Crash
  BY <1>7, EndIsRestart DEF Crash, ProcessEnds, InMemory
<1>8. ASSUME NEW c \in Clients, NEW b \in Batches, Call(c, b) PROVE UNCHANGED Store!storeVars
  BY <1>1, <1>8 DEF Call
<1>9. ASSUME NEW c \in Clients, FindBucket(c) \/ BucketExists(c) PROVE UNCHANGED Store!storeVars
  BY <1>1, <1>9 DEF FindBucket, BucketExists
<1>10. ASSUME NEW c \in Clients, SequenceFails(c) \/ NoMoreIds(c) PROVE UNCHANGED Store!storeVars
  BY <1>1, <1>10 DEF SequenceFails, NoMoreIds
<1>11. ASSUME NEW c \in Clients, TakeId(c) PROVE Store!Next
  BY <1>11, NewIdCreates
<1>12. ASSUME NEW c \in Clients, SaveBuckets(c) PROVE Store!Next
  BY <1>12, SaveSettles
<1>13. ASSUME NEW c \in Clients, SaveFails(c) \/ ErrorReturned(c) PROVE UNCHANGED Store!storeVars
  BY <1>1, <1>13 DEF SaveFails, ErrorReturned
<1>14. ASSUME NEW c \in Clients, Panics(c) PROVE [Store!Next]_(Store!storeVars)
  <2>1. CASE ProcessEnds
    BY <1>14, <2>1, EndIsRestart DEF Panics, ProcessEnds, InMemory
  <2>2. CASE Done(c) /\ UNCHANGED memory
    BY <1>1, <1>14, <2>2 DEF Panics
  <2> QED
    BY <1>14, <2>1, <2>2 DEF Panics
<1>15. ASSUME NEW c \in Clients, WriteChunk(c) PROVE Store!Next
  BY <1>15, FlushWrites
<1>16. ASSUME NEW c \in Clients, WriteFails(c) \/ Return(c) PROVE UNCHANGED Store!storeVars
  BY <1>1, <1>16 DEF WriteFails, Return
<1>17. ASSUME NEW c \in Clients, CutOff(c) PROVE [Store!Next]_(Store!storeVars)
  <2>1. CASE ProcessEnds
    BY <1>17, <2>1, EndIsRestart DEF CutOff, ProcessEnds, InMemory
  <2>2. CASE Done(c) /\ UNCHANGED memory
    BY <1>1, <1>17, <2>2 DEF CutOff
  <2> QED
    BY <1>17, <2>1, <2>2 DEF CutOff
<1>18. CASE UNCHANGED vars
  BY <1>1, <1>18 DEF vars
<1> QED
  BY <1>3, <1>4, <1>5, <1>6, <1>7, <1>8, <1>9, <1>10, <1>11, <1>12, <1>13, <1>14,
     <1>15, <1>16, <1>17, <1>18
  DEF Next, ClientNext

(* The database implements BucketStore: records stay in their bucket, and  *)
(* nothing is lost but buckets that could not be saved (db.go, bucket.go). *)
THEOREM Refinement == Spec => ImplementsStore
<1>1. Init => Store!Init
  BY DEF Init, Store!Init, Store!Empty, Contents, Unsettled, IdOf, NoBuckets, NoRecords
<1>2. IInv /\ [Next]_vars => [Store!Next]_(Store!storeVars)
  BY StoreStep
<1> QED
  BY Inductive, <1>1, <1>2, PTL DEF Spec, ImplementsStore, Store!Spec

-----------------------------------------------------------------------------
(* Ranges.  Nothing but the order of keys is needed, but the order of keys *)
(* of all buckets together.                                                *)

(* A set of positions has a first one.                                     *)
LEMMA FirstPosition ==
  ASSUME NEW n \in Nat, NEW S \in SUBSET (1 .. n), S # {}
  PROVE  \E x \in S : \A y \in S : x =< y
<1> DEFINE Below(x) == {y \in S : y =< x}
           F == {Below(x) : x \in S}
<1>1. IsFiniteSet(S)
  <2>1. IsFiniteSet(1 .. n)
    BY FS_Interval
  <2> QED
    BY <2>1, FS_Subset
<1>2. F \subseteq FiniteSubsetsOf(S) /\ F # {}
  <2>1. FiniteSubsetsOf(S) = SUBSET S
    BY <1>1, FS_FiniteSubsetsOfFinite
  <2>2. \A x \in S : Below(x) \in SUBSET S /\ Below(x) \in F
    OBVIOUS
  <2>3. PICK x \in S : TRUE
    OBVIOUS
  <2>4. \A U \in F : U \in SUBSET S
    BY <2>2, Zenon
  <2> HIDE DEF F
  <2> QED
    BY <2>1, <2>2, <2>3, <2>4
<1>3. PICK U \in F : \A V \in F : ~ (<<V, U>> \in StrictSubsetOrdering(S))
  <2>1. IsWellFoundedOn(StrictSubsetOrdering(S), FiniteSubsetsOf(S))
    BY <1>1, FS_StrictSubsetOrderingWellFounded
  <2> HIDE DEF F
  <2> QED
    BY <1>2, <2>1, WFMin
<1>4. PICK x \in S : U = Below(x)
  OBVIOUS
<1>5. ASSUME NEW y \in S PROVE x =< y
  <2>1. SUFFICES ASSUME y < x PROVE FALSE
    BY <2>1
  <2>0. S \subseteq Nat /\ x \in Nat /\ y \in Nat
    OBVIOUS
  <2>2. Below(y) \subseteq Below(x) /\ x \in Below(x) /\ x \notin Below(y)
    <3>1. \A z \in S : z =< y => z =< x
      BY <2>0, <2>1
    <3>2. x =< x /\ ~ (x =< y)
      BY <2>0, <2>1
    <3> QED
      BY <3>1, <3>2, Zenon
  <2>3. Below(y) \in F /\ Below(y) \in SUBSET S /\ Below(x) \in SUBSET S
    OBVIOUS
  <2>4. <<Below(y), Below(x)>> \in StrictSubsetOrdering(S)
    <3> HIDE DEF Below
    <3> QED
      BY <2>2, <2>3 DEF StrictSubsetOrdering
  <2> QED
    BY <1>3, <1>4, <2>3, <2>4, Zenon
<1> QED
  BY <1>5

(* The byte of a key at a position.                                        *)
LEMMA ByteIs ==
  ASSUME NEW a \in Seq(Nat), NEW n \in Nat, n =< Len(a), NEW i \in 1 .. n
  PROVE  i \in DOMAIN a /\ a[i] \in Nat
  OBVIOUS

(* How bytes are ordered.                                                  *)
LEMMA ByteOrder ==
  /\ \A x, y \in Nat : x # y => x < y \/ y < x
  /\ \A x, y, z \in Nat : x < y /\ y < z => x < z
  OBVIOUS

Differ(a, b, n) == \E i \in 1 .. n : a[i] # b[i]
DifferFirstAt(a, b, i) == a[i] # b[i] /\ \A j \in 1 .. i - 1 : a[j] = b[j]

(* Keys that differ have a first position in which they do.                *)
LEMMA FirstDifference ==
  ASSUME NEW a, NEW b, NEW n \in Nat, Differ(a, b, n)
  PROVE  \E i \in 1 .. n : DifferFirstAt(a, b, i)
<1> DEFINE S == {i \in 1 .. n : a[i] # b[i]}
<1>1. S \in SUBSET (1 .. n) /\ S # {}
  BY DEF Differ
<1>2. PICK i \in S : \A y \in S : i =< y
  <2> HIDE DEF S
  <2> QED
    BY <1>1, FirstPosition
<1>3. ASSUME NEW j \in 1 .. i - 1 PROVE a[j] = b[j]
  <2>1. j \in 1 .. n /\ ~ (i =< j)
    <3>1. i \in 1 .. n
      OBVIOUS
    <3> HIDE DEF S
    <3>2. i \in Nat /\ i =< n
      BY <3>1
    <3>3. j \in Nat /\ 1 =< j /\ j =< i - 1
      BY <3>2
    <3>4. ~ (i =< j)
      BY <3>2, <3>3
    <3>5. j =< n
      BY <3>2, <3>3
    <3> QED
      BY <3>3, <3>4, <3>5
  <2> QED
    BY <1>2, <2>1
<1> QED
  BY <1>2, <1>3 DEF DifferFirstAt

(* What a prefix is, position by position.                                 *)
LEMMA PrefixIs ==
  ASSUME NEW a \in Seq(Nat), NEW b \in Seq(Nat)
  PROVE  IsPrefix(a, b) <=> Len(a) =< Len(b) /\ \A i \in 1 .. Len(a) : a[i] = b[i]
<1>1. ASSUME Len(a) =< Len(b)
      PROVE  /\ SubSeq(b, 1, Len(a)) \in Seq(Nat) /\ Len(SubSeq(b, 1, Len(a))) = Len(a)
             /\ \A i \in 1 .. Len(a) : SubSeq(b, 1, Len(a))[i] = b[i]
  BY <1>1
<1>2. SubSeq(a, 1, Len(a)) = a
  BY SubSeqFull
<1>3. ASSUME IsPrefix(a, b) PROVE Len(a) =< Len(b) /\ \A i \in 1 .. Len(a) : a[i] = b[i]
  BY <1>1, <1>2, <1>3, Zenon DEF IsPrefix
<1>4. ASSUME Len(a) =< Len(b), \A i \in 1 .. Len(a) : a[i] = b[i] PROVE IsPrefix(a, b)
  <2>1. a = SubSeq(b, 1, Len(a))
    BY <1>1, <1>4, SeqEqual
  <2> QED
    BY <1>2, <1>4, <2>1 DEF IsPrefix
<1> QED
  BY <1>3, <1>4

(* The id of the bucket comes first in a record's key.                     *)
LEMMA InternalKeyIs ==
  ASSUME NEW id \in Nat, NEW key \in Seq(Nat)
  PROVE  /\ InternalKey(id, key) \in Seq(Nat)
         /\ Len(InternalKey(id, key)) = Len(key) + 1
         /\ InternalKey(id, key)[1] = id
         /\ \A i \in 1 .. Len(key) : InternalKey(id, key)[i + 1] = key[i]
         /\ Tail(InternalKey(id, key)) = key
BY DEF InternalKey

(* What the first bytes of a key are.                                      *)
LEMMA CutIs ==
  ASSUME NEW key \in Seq(Nat), NEW n \in 0 .. Len(key)
  PROVE  /\ Cut(key, n) \in Seq(Nat) /\ Len(Cut(key, n)) = n
         /\ \A i \in 1 .. n : Cut(key, n)[i] = key[i]
BY DEF Cut

(* Keys are ordered as bytes are: no key is before itself.                 *)
LEMMA NotBeforeItself ==
  ASSUME NEW a \in Seq(Nat)
  PROVE  ~Before(a, a)
<1>1. \A i \in DOMAIN a : a[i] \in Nat /\ ~ (a[i] < a[i])
  OBVIOUS
<1>2. ~ (Len(a) < Len(a))
  OBVIOUS
<1> QED
  BY <1>1, <1>2, Zenon DEF Before

(* A key is not before its prefixes, where a seek begins (iter.go).        *)
LEMMA PrefixNotAfter ==
  ASSUME NEW seek \in Seq(Nat), NEW a \in Seq(Nat), IsPrefix(seek, a)
  PROVE  ~Before(a, seek)
<1>1. Len(seek) =< Len(a) /\ \A i \in 1 .. Len(seek) : seek[i] = a[i]
  BY PrefixIs
<1>2. ~ (Len(a) < Len(seek))
  BY <1>1
<1>3. ASSUME NEW i \in DOMAIN a \cap DOMAIN seek PROVE ~ (a[i] < seek[i])
  <2>1. i \in 1 .. Len(seek) /\ seek[i] \in Nat
    OBVIOUS
  <2> QED
    BY <1>1, <2>1
<1> QED
  BY <1>2, <1>3, Zenon DEF Before

(* A key from the seek on that has not its prefix is behind all that have  *)
(* it: an iterator that ends there misses none.                            *)
LEMMA PastPrefix ==
  ASSUME NEW seek \in Seq(Nat), NEW a \in Seq(Nat), NEW e \in Seq(Nat),
         IsPrefix(seek, a), ~Before(e, seek), ~IsPrefix(seek, e)
  PROVE  Before(a, e)
<1>1. Len(seek) =< Len(a) /\ \A i \in 1 .. Len(seek) : seek[i] = a[i]
  BY PrefixIs
<1>2. ~ (Len(seek) =< Len(e)) \/ \E i \in 1 .. Len(seek) : seek[i] # e[i]
  BY PrefixIs
<1> DEFINE n == IF Len(seek) =< Len(e) THEN Len(seek) ELSE Len(e)
<1>3. n \in Nat /\ n =< Len(seek) /\ n =< Len(e) /\ n =< Len(a)
  BY <1>1
<1>4. Differ(seek, e, n)
  <2>1. CASE Len(seek) =< Len(e)
    BY <1>2, <2>1 DEF Differ
  <2>2. CASE ~ (Len(seek) =< Len(e))
    <3>1. ~IsPrefix(e, seek)
      BY <2>2 DEF Before
    <3>2. ~ (Len(e) =< Len(seek) /\ \A i \in 1 .. Len(e) : e[i] = seek[i])
      BY <3>1, PrefixIs
    <3>3. n = Len(e) /\ Len(e) =< Len(seek)
      BY <2>2
    <3> QED
      BY <3>2, <3>3 DEF Differ
  <2> QED
    BY <2>1, <2>2
<1> HIDE DEF n
<1>5. PICK i \in 1 .. n : DifferFirstAt(seek, e, i)
  BY <1>3, <1>4, FirstDifference, Zenon
<1>6. i \in DOMAIN e /\ i \in DOMAIN seek /\ i \in DOMAIN a /\ seek[i] \in Nat /\ e[i] \in Nat
  BY <1>3, ByteIs, Zenon
<1>7. seek[i] < e[i]
  <2>1. ~ (e[i] < seek[i])
    BY <1>5, <1>6, Zenon DEF Before, DifferFirstAt
  <2> QED
    BY <1>5, <1>6, <2>1 DEF DifferFirstAt
<1>8. a[i] < e[i] /\ \A j \in 1 .. i - 1 : a[j] = e[j]
  <2>1. i \in 1 .. Len(seek) /\ \A j \in 1 .. i - 1 : j \in 1 .. Len(seek)
    BY <1>3
  <2> QED
    BY <1>1, <1>5, <1>7, <2>1 DEF DifferFirstAt
<1> QED
  BY <1>6, <1>8, Zenon DEF Before

(* A key whose first bytes are past the end of a range is behind all keys  *)
(* whose first bytes are not.                                              *)
LEMMA CutBefore ==
  ASSUME NEW u \in Seq(Nat), NEW a \in Seq(Nat), NEW e \in Seq(Nat),
         Len(u) =< Len(a), Len(u) =< Len(e),
         ~Before(u, Cut(a, Len(u))), Before(u, Cut(e, Len(u)))
  PROVE  Before(a, e)
<1>1. /\ Cut(a, Len(u)) \in Seq(Nat) /\ Len(Cut(a, Len(u))) = Len(u)
      /\ \A i \in 1 .. Len(u) : Cut(a, Len(u))[i] = a[i]
  <2>1. Len(u) \in 0 .. Len(a)
    OBVIOUS
  <2> QED
    BY <2>1, CutIs
<1>2. /\ Cut(e, Len(u)) \in Seq(Nat) /\ Len(Cut(e, Len(u))) = Len(u)
      /\ \A i \in 1 .. Len(u) : Cut(e, Len(u))[i] = e[i]
  <2>1. Len(u) \in 0 .. Len(e)
    OBVIOUS
  <2> QED
    BY <2>1, CutIs
<1>3. PICK i \in 1 .. Len(u) : u[i] < e[i] /\ \A j \in 1 .. i - 1 : u[j] = e[j]
  <2> DEFINE c == Cut(e, Len(u))
  <2>1. PICK i \in DOMAIN u \cap DOMAIN c : u[i] < c[i] /\ \A j \in 1 .. i - 1 : u[j] = c[j]
    BY <1>2 DEF Before
  <2>0. Len(u) \in Nat /\ DOMAIN u = 1 .. Len(u)
    OBVIOUS
  <2>2. i \in 1 .. Len(u) /\ \A j \in 1 .. i - 1 : j \in 1 .. Len(u)
    BY <2>0
  <2> HIDE DEF c
  <2>3. u[i] < e[i] /\ \A j \in 1 .. i - 1 : u[j] = e[j]
    BY <1>2, <2>1, <2>2 DEF c
  <2> QED
    BY <2>2, <2>3
<1>a. /\ Len(u) \in Nat /\ Len(a) \in Nat /\ Len(e) \in Nat
      /\ i \in Nat /\ i =< Len(u) /\ i \in 1 .. i
  OBVIOUS
<1>0. /\ i \in Nat /\ Len(u) \in Nat /\ i \in 1 .. i
      /\ i =< Len(u) /\ i =< Len(a) /\ i =< Len(e)
  BY <1>a, SMTT(30)
<1>4. CASE \A j \in 1 .. i : a[j] = u[j]
  <2>0. i \in 1 .. i /\ \A j \in 1 .. i - 1 : j \in 1 .. i
    BY <1>0
  <2>1. a[i] < e[i] /\ \A j \in 1 .. i - 1 : a[j] = e[j]
    BY <1>3, <1>4, <2>0, Zenon
  <2>2. i \in DOMAIN a /\ i \in DOMAIN e
    BY <1>0, ByteIs, Zenon
  <2> QED
    BY <2>1, <2>2, Zenon DEF Before
<1>5. CASE \E j \in 1 .. i : a[j] # u[j]
  <2>0. PICK j \in 1 .. i : DifferFirstAt(a, u, j)
    <3>1. Differ(a, u, i)
      BY <1>5, Zenon DEF Differ
    <3> QED
      BY <1>0, <3>1, FirstDifference, Zenon
  <2>1. a[j] # u[j] /\ \A k \in 1 .. j - 1 : a[k] = u[k]
    BY <2>0, Zenon DEF DifferFirstAt
  <2>2. /\ j \in 1 .. Len(u) /\ j =< i /\ \A k \in 1 .. j - 1 : k \in 1 .. i - 1
        /\ j \in DOMAIN u /\ a[j] \in Nat /\ u[j] \in Nat /\ e[j] \in Nat
    <3>1. j \in 1 .. Len(u) /\ j =< i /\ \A k \in 1 .. j - 1 : k \in 1 .. i - 1
      BY <1>0, SMTT(30)
    <3> QED
      BY <1>0, <3>1, ByteIs, Zenon
  <2>3. a[j] < u[j]
    <3>1. ASSUME u[j] < a[j] PROVE FALSE
      <4> DEFINE c == Cut(a, Len(u))
      <4>1. j \in DOMAIN u /\ j \in DOMAIN c
        BY <1>0, <1>1, <2>2, ByteIs, Zenon
      <4>2. \A k \in 1 .. j - 1 : k \in 1 .. Len(u)
        BY <2>2
      <4> HIDE DEF c
      <4>3. u[j] < c[j] /\ \A k \in 1 .. j - 1 : u[k] = c[k]
        BY <1>1, <2>1, <2>2, <3>1, <4>2 DEF c
      <4>4. Before(u, c)
        BY <4>1, <4>3, Zenon DEF Before
      <4> QED
        BY <4>4 DEF c
    <3> QED
      BY <2>1, <2>2, <3>1, ByteOrder, Zenon
  <2>4. a[j] < e[j]
    <3>1. CASE j = i
      BY <1>3, <2>2, <2>3, <3>1, ByteOrder, Zenon
    <3>2. CASE j # i
      <4>1. j \in 1 .. i - 1
        BY <1>0, <2>2, <3>2
      <4> QED
        BY <1>3, <2>3, <4>1
    <3> QED
      BY <3>1, <3>2
  <2>5. \A k \in 1 .. j - 1 : a[k] = e[k]
    BY <1>3, <2>1, <2>2, Zenon
  <2>6. j \in DOMAIN a /\ j \in DOMAIN e
    BY <1>0, <2>2, ByteIs, Zenon
  <2> QED
    BY <2>4, <2>5, <2>6, Zenon DEF Before
<1> QED
  BY <1>4, <1>5

(* Seen with the ids of their buckets, keys have the prefixes that they    *)
(* have in the bucket, and none of another bucket ...                      *)
LEMMA PrefixOfRecord ==
  ASSUME NEW id \in Nat, NEW i \in Nat, NEW a \in Seq(Nat), NEW b \in Seq(Nat)
  PROVE  IsPrefix(InternalKey(id, a), InternalKey(i, b)) <=> id = i /\ IsPrefix(a, b)
<1> DEFINE s == InternalKey(id, a)
           t == InternalKey(i, b)
<1>1. /\ s \in Seq(Nat) /\ Len(s) = Len(a) + 1 /\ s[1] = id
      /\ \A k \in 1 .. Len(a) : s[k + 1] = a[k]
  BY InternalKeyIs
<1>2. /\ t \in Seq(Nat) /\ Len(t) = Len(b) + 1 /\ t[1] = i
      /\ \A k \in 1 .. Len(b) : t[k + 1] = b[k]
  BY InternalKeyIs
<1> HIDE DEF s, t
<1>3. IsPrefix(s, t) <=> Len(s) =< Len(t) /\ \A k \in 1 .. Len(s) : s[k] = t[k]
  BY <1>1, <1>2, PrefixIs
<1>4. IsPrefix(a, b) <=> Len(a) =< Len(b) /\ \A k \in 1 .. Len(a) : a[k] = b[k]
  BY PrefixIs
<1>5. ASSUME IsPrefix(s, t) PROVE id = i /\ IsPrefix(a, b)
  <2>1. Len(a) =< Len(b) /\ s[1] = t[1]
    BY <1>1, <1>2, <1>3, <1>5
  <2>2. ASSUME NEW k \in 1 .. Len(a) PROVE a[k] = b[k]
    <3>1. k + 1 \in 1 .. Len(s) /\ k \in 1 .. Len(b)
      BY <1>1, <2>1
    <3> QED
      BY <1>1, <1>2, <1>3, <1>5, <3>1
  <2> QED
    BY <1>1, <1>2, <1>4, <2>1, <2>2
<1>6. ASSUME id = i, IsPrefix(a, b) PROVE IsPrefix(s, t)
  <2>1. Len(s) =< Len(t)
    BY <1>1, <1>2, <1>4, <1>6
  <2>2. ASSUME NEW k \in 1 .. Len(s) PROVE s[k] = t[k]
    <3>1. CASE k = 1
      BY <1>1, <1>2, <1>6, <3>1
    <3>2. CASE k # 1
      <4>1. k - 1 \in 1 .. Len(a) /\ k - 1 \in 1 .. Len(b) /\ (k - 1) + 1 = k
        BY <1>1, <1>4, <1>6, <3>2
      <4> QED
        BY <1>1, <1>2, <1>4, <1>6, <4>1
    <3> QED
      BY <3>1, <3>2
  <2> QED
    BY <1>3, <2>1, <2>2
<1> QED
  BY <1>5, <1>6 DEF s, t

(* ... are ordered by bucket and then as in the bucket ...                 *)
LEMMA RecordBefore ==
  ASSUME NEW id \in Nat, NEW i \in Nat, NEW a \in Seq(Nat), NEW b \in Seq(Nat)
  PROVE  Before(InternalKey(id, a), InternalKey(i, b)) <=> id < i \/ (id = i /\ Before(a, b))
<1> DEFINE s == InternalKey(id, a)
           t == InternalKey(i, b)
<1>1. /\ s \in Seq(Nat) /\ Len(s) = Len(a) + 1 /\ s[1] = id
      /\ \A k \in 1 .. Len(a) : s[k + 1] = a[k]
  BY InternalKeyIs
<1>2. /\ t \in Seq(Nat) /\ Len(t) = Len(b) + 1 /\ t[1] = i
      /\ \A k \in 1 .. Len(b) : t[k + 1] = b[k]
  BY InternalKeyIs
<1>3. IsPrefix(s, t) <=> id = i /\ IsPrefix(a, b)
  BY PrefixOfRecord
<1> HIDE DEF s, t
<1>0. /\ Len(a) \in Nat /\ DOMAIN a = 1 .. Len(a) /\ Len(b) \in Nat /\ DOMAIN b = 1 .. Len(b)
      /\ DOMAIN s = 1 .. Len(a) + 1 /\ DOMAIN t = 1 .. Len(b) + 1
  BY <1>1, <1>2
<1>4. ASSUME NEW k \in DOMAIN s \cap DOMAIN t, s[k] < t[k], \A j \in 1 .. k - 1 : s[j] = t[j]
      PROVE  id < i \/ (id = i /\ Before(a, b))
  <2>0. k \in 1 .. Len(a) + 1 /\ k \in 1 .. Len(b) + 1
    BY <1>0
  <2>1. CASE k = 1
    <3>1. s[1] < t[1]
      BY <1>4, <2>1, Zenon
    <3> QED
      BY <1>1, <1>2, <3>1
  <2>2. CASE k # 1
    <3>1. /\ k - 1 \in DOMAIN a \cap DOMAIN b /\ (k - 1) + 1 = k /\ 1 \in 1 .. k - 1
          /\ k - 1 \in 1 .. Len(a) /\ k - 1 \in 1 .. Len(b)
      BY <1>0, <2>0, <2>2
    <3>2. id = i /\ a[k - 1] < b[k - 1]
      BY <1>1, <1>2, <1>4, <3>1
    <3>3. ASSUME NEW j \in 1 .. (k - 1) - 1 PROVE a[j] = b[j]
      <4>1. /\ j \in Nat /\ 1 =< j /\ j < k - 1 /\ k \in Nat
            /\ k =< Len(a) + 1 /\ k =< Len(b) + 1
        BY <1>0, <2>0, SMTT(30)
      <4>2. j + 1 \in 1 .. k - 1 /\ j \in 1 .. Len(a) /\ j \in 1 .. Len(b)
        BY <1>0, <4>1
      <4> QED
        BY <1>1, <1>2, <1>4, <4>2
    <3> QED
      BY <3>1, <3>2, <3>3 DEF Before
  <2> QED
    BY <2>1, <2>2
<1>5. ASSUME NEW k \in DOMAIN a \cap DOMAIN b, a[k] < b[k], \A j \in 1 .. k - 1 : a[j] = b[j],
             id = i
      PROVE  Before(s, t)
  <2>0. k \in 1 .. Len(a) /\ k \in 1 .. Len(b) /\ k \in Nat
    BY <1>0
  <2>1. /\ k + 1 \in DOMAIN s \cap DOMAIN t /\ k \in 1 .. Len(a) /\ k \in 1 .. Len(b)
        /\ (k + 1) - 1 = k /\ k \in Nat
    <3>1. k + 1 \in 1 .. Len(a) + 1 /\ k + 1 \in 1 .. Len(b) + 1 /\ (k + 1) - 1 = k
      BY <1>0, <2>0
    <3> QED
      BY <1>0, <2>0, <3>1, Zenon
  <2>2. s[k + 1] < t[k + 1]
    BY <1>1, <1>2, <1>5, <2>1
  <2>3. ASSUME NEW j \in 1 .. (k + 1) - 1 PROVE s[j] = t[j]
    <3>1. CASE j = 1
      BY <1>1, <1>2, <1>5, <3>1
    <3>2. CASE j # 1
      <4>1. /\ j - 1 \in 1 .. k - 1 /\ (j - 1) + 1 = j
            /\ j - 1 \in 1 .. Len(a) /\ j - 1 \in 1 .. Len(b)
        BY <2>1, <3>2
      <4> QED
        BY <1>1, <1>2, <1>5, <4>1
    <3> QED
      BY <3>1, <3>2
  <2> QED
    BY <2>1, <2>2, <2>3 DEF Before
<1>6. ASSUME id < i PROVE Before(s, t)
  <2>1. 1 \in DOMAIN s \cap DOMAIN t /\ s[1] < t[1] /\ \A j \in 1 .. 1 - 1 : s[j] = t[j]
    BY <1>1, <1>2, <1>6
  <2> QED
    BY <2>1 DEF Before
<1>7. Len(s) < Len(t) <=> Len(a) < Len(b)
  BY <1>1, <1>2
<1>8. Before(s, t) => id < i \/ (id = i /\ Before(a, b))
  BY <1>3, <1>4, <1>7 DEF Before
<1>9. id < i \/ (id = i /\ Before(a, b)) => Before(s, t)
  <2>1. ASSUME id = i, Len(a) < Len(b), IsPrefix(a, b) PROVE Before(s, t)
    BY <1>3, <1>7, <2>1 DEF Before
  <2> QED
    BY <1>5, <1>6, <2>1 DEF Before
<1> QED
  BY <1>8, <1>9 DEF s, t

(* ... and have the first bytes that they have in it.                      *)
LEMMA CutOfRecord ==
  ASSUME NEW id \in Nat, NEW key \in Seq(Nat), NEW n \in 0 .. Len(key)
  PROVE  Cut(InternalKey(id, key), n + 1) = InternalKey(id, Cut(key, n))
<1> DEFINE s == InternalKey(id, key)
           c == Cut(key, n)
           t == InternalKey(id, c)
<1>1. /\ s \in Seq(Nat) /\ Len(s) = Len(key) + 1 /\ s[1] = id
      /\ \A k \in 1 .. Len(key) : s[k + 1] = key[k]
  BY InternalKeyIs
<1>2. c \in Seq(Nat) /\ Len(c) = n /\ \A k \in 1 .. n : c[k] = key[k]
  BY CutIs
<1> HIDE DEF c
<1>3. /\ t \in Seq(Nat) /\ Len(t) = n + 1 /\ t[1] = id
      /\ \A k \in 1 .. n : t[k + 1] = c[k]
  BY <1>2, InternalKeyIs
<1> HIDE DEF s, t
<1>4. /\ Cut(s, n + 1) \in Seq(Nat) /\ Len(Cut(s, n + 1)) = n + 1
      /\ \A k \in 1 .. n + 1 : Cut(s, n + 1)[k] = s[k]
  <2>1. n + 1 \in 0 .. Len(s)
    BY <1>1
  <2> QED
    BY <1>1, <2>1, CutIs
<1>5. ASSUME NEW k \in 1 .. n + 1 PROVE s[k] = t[k]
  <2>1. CASE k = 1
    BY <1>1, <1>3, <2>1
  <2>2. CASE k # 1
    <3>1. k - 1 \in 1 .. n /\ k - 1 \in 1 .. Len(key) /\ (k - 1) + 1 = k
      BY <2>2
    <3> QED
      BY <1>1, <1>2, <1>3, <3>1, ZenonT(40)
  <2> QED
    BY <2>1, <2>2
<1>6. Cut(s, n + 1) = t
  BY <1>3, <1>4, <1>5, SeqEqual
<1> QED
  BY <1>6 DEF s, t, c

(* What is on disk is what is stored in the buckets.                       *)
LEMMA InternalKeysAre ==
  ASSUME TypeOK
  PROVE  /\ \A ik \in InternalKeys : \E i \in Ids, k \in Keys :
              ik = InternalKey(i, k) /\ stored[i][k] # None
         /\ \A i \in Ids, k \in Keys :
              stored[i][k] # None => InternalKey(i, k) \in InternalKeys
<1>1. ASSUME NEW ik \in InternalKeys
      PROVE  \E i \in Ids, k \in Keys : ik = InternalKey(i, k) /\ stored[i][k] # None
  <2>1. PICK p \in Ids \X Keys : ik = InternalKey(p[1], p[2]) /\ stored[p[1]][p[2]] # None
    BY DEF InternalKeys
  <2> QED
    BY <2>1
<1>2. ASSUME NEW i \in Ids, NEW k \in Keys, stored[i][k] # None
      PROVE  InternalKey(i, k) \in InternalKeys
  <2>1. <<i, k>> \in {q \in Ids \X Keys : stored[q[1]][q[2]] # None}
    BY <1>2
  <2> QED
    BY <2>1 DEF InternalKeys
<1> QED
  BY <1>1, <1>2

(* newIter and its Next: from the prefix on, until a key without it.       *)
LEMMA PrefixExact ==
  ASSUME TypeOK, NEW id \in Ids, NEW to \in Seq(Nat)
  PROVE  LinePrefix(id, to) = {k \in Keys : stored[id][k] # None /\ IsPrefix(to, k)}
<1> DEFINE seek == InternalKey(id, to)
           found == {ik \in InternalKeys : ~Before(ik, seek)}
           result == {i \in found : \A e \in found : ~IsPrefix(seek, e) => Before(i, e)}
<1>0. Ids \subseteq Nat /\ Keys \subseteq Seq(Nat)
  BY DatabaseAssumption DEF Ids
<1>1. LinePrefix(id, to) = {Tail(ik) : ik \in result}
  BY DEF LinePrefix, From
<1>2. seek \in Seq(Nat)
  BY <1>0, InternalKeyIs
<1>3. ASSUME NEW ik \in result
      PROVE  Tail(ik) \in {k \in Keys : stored[id][k] # None /\ IsPrefix(to, k)}
  <2>1. PICK i \in Ids, k \in Keys : ik = InternalKey(i, k) /\ stored[i][k] # None
    BY <1>3, InternalKeysAre
  <2>2. ik \in Seq(Nat) /\ Tail(ik) = k
    BY <1>0, <2>1, InternalKeyIs
  <2>3. IsPrefix(seek, ik)
    BY <2>2, NotBeforeItself
  <2>4. i = id /\ IsPrefix(to, k)
    BY <1>0, <2>1, <2>3, PrefixOfRecord
  <2> QED
    BY <2>1, <2>2, <2>4
<1>4. ASSUME NEW k \in Keys, stored[id][k] # None, IsPrefix(to, k)
      PROVE  \E ik \in result : k = Tail(ik)
  <2> DEFINE ik == InternalKey(id, k)
  <2>1. ik \in InternalKeys /\ ik \in Seq(Nat) /\ Tail(ik) = k
    BY <1>0, <1>4, InternalKeysAre, InternalKeyIs
  <2>2. IsPrefix(seek, ik)
    BY <1>0, <1>4, PrefixOfRecord
  <2>3. ~Before(ik, seek)
    BY <1>2, <2>1, <2>2, PrefixNotAfter
  <2>4. ASSUME NEW e \in found, ~IsPrefix(seek, e) PROVE Before(ik, e)
    <3>1. PICK j \in Ids, l \in Keys : e = InternalKey(j, l)
      BY <2>4, InternalKeysAre
    <3>2. e \in Seq(Nat)
      BY <1>0, <3>1, InternalKeyIs
    <3> HIDE DEF ik, seek
    <3> QED
      BY <1>2, <2>1, <2>2, <2>4, <3>2, PastPrefix
  <2> HIDE DEF ik, seek
  <2> QED
    BY <2>1, <2>3, <2>4
<1> HIDE DEF result
<1> QED
  BY <1>1, <1>3, <1>4

(* newRange and its Next: until a key that is shorter than the end or has  *)
(* first bytes past it.                                                    *)
LEMMA RangeExact ==
  ASSUME TypeOK, NEW id \in Ids, NEW from \in Seq(Nat), NEW to \in Seq(Nat),
         \A k \in Keys : stored[id][k] # None => Len(k) >= Len(to)
  PROVE  LineRange(id, from, to)
           = {k \in Keys : stored[id][k] # None /\ ~Before(k, from) /\ ~Before(to, Cut(k, Len(to)))}
<1> DEFINE seek == InternalKey(id, from)
           until == InternalKey(id, to)
           Past(e) == Len(e) < Len(until) \/ Before(until, Cut(e, Len(until)))
           found == {ik \in InternalKeys : ~Before(ik, seek)}
           result == {i \in found : \A e \in found : Past(e) => Before(i, e)}
           inside == {k \in Keys : stored[id][k] # None /\ ~Before(k, from)
                                     /\ ~Before(to, Cut(k, Len(to)))}
<1>0. Ids \subseteq Nat /\ Keys \subseteq Seq(Nat) /\ id \in Nat
  BY DatabaseAssumption DEF Ids
<1>1. LineRange(id, from, to) = {Tail(ik) : ik \in result}
  BY DEF LineRange, From
<1>2. seek \in Seq(Nat) /\ until \in Seq(Nat) /\ Len(until) = Len(to) + 1 /\ until[1] = id
  BY <1>0, InternalKeyIs
<1>3. ASSUME NEW i \in Ids, NEW k \in Keys, i # id, ~Before(InternalKey(i, k), seek)
      PROVE  id < i
  BY <1>0, <1>3, RecordBefore
<1>4. ASSUME NEW k \in Keys, stored[id][k] # None
      PROVE  /\ Len(to) \in 0 .. Len(k)
             /\ Cut(InternalKey(id, k), Len(until)) = InternalKey(id, Cut(k, Len(to)))
             /\ Cut(k, Len(to)) \in Seq(Nat)
  <2>1. Len(to) \in 0 .. Len(k) /\ k \in Seq(Nat)
    BY <1>0, <1>4
  <2> QED
    BY <1>0, <1>2, <2>1, CutOfRecord, CutIs
<1>5. ASSUME NEW ik \in result
      PROVE  Tail(ik) \in inside
  <2>1. PICK i \in Ids, k \in Keys : ik = InternalKey(i, k) /\ stored[i][k] # None
    BY <1>5, InternalKeysAre
  <2>2. ik \in Seq(Nat) /\ Tail(ik) = k /\ Len(ik) = Len(k) + 1 /\ ik[1] = i
    BY <1>0, <2>1, InternalKeyIs
  <2>3. ~Past(ik) /\ ~Before(ik, seek)
    <3>1. ~Before(ik, ik)
      BY <2>2, NotBeforeItself
    <3> HIDE DEF Past
    <3> QED
      BY <3>1
  <2>4. i = id
    <3>1. SUFFICES ASSUME i # id PROVE FALSE
      OBVIOUS
    <3>2. id < i
      BY <1>3, <2>1, <2>3, <3>1
    <3>3. Len(until) \in 0 .. Len(ik)
      BY <1>2, <2>2, <2>3
    <3>4. /\ Cut(ik, Len(until)) \in Seq(Nat) /\ Len(Cut(ik, Len(until))) = Len(until)
          /\ \A j \in 1 .. Len(until) : Cut(ik, Len(until))[j] = ik[j]
      BY <2>2, <3>3, CutIs
    <3> DEFINE c == Cut(ik, Len(until))
    <3> HIDE DEF until
    <3>5. 1 \in 1 .. Len(until) /\ c[1] = i
      BY <1>2, <2>2, <3>4
    <3> HIDE DEF c
    <3>6. /\ 1 \in DOMAIN until \cap DOMAIN c /\ until[1] < c[1]
          /\ \A j \in 1 .. 1 - 1 : until[j] = c[j]
      BY <1>2, <3>2, <3>4, <3>5 DEF c
    <3>7. Before(until, c)
      BY <3>6 DEF Before
    <3> QED
      BY <2>3, <3>7 DEF c
  <2>5. ~Before(k, from)
    BY <1>0, <2>1, <2>3, <2>4, RecordBefore
  <2>6. ~Before(to, Cut(k, Len(to)))
    <3>1. ~Before(until, InternalKey(id, Cut(k, Len(to))))
      BY <1>4, <2>1, <2>3, <2>4
    <3> QED
      BY <1>0, <1>4, <2>1, <2>4, <3>1, RecordBefore
  <2> QED
    BY <2>1, <2>2, <2>4, <2>5, <2>6
<1>6. ASSUME NEW k \in inside
      PROVE  \E ik \in result : k = Tail(ik)
  <2> DEFINE ik == InternalKey(id, k)
  <2>0. k \in Keys /\ k \in Seq(Nat) /\ stored[id][k] # None
    BY <1>0
  <2>1. /\ ik \in InternalKeys /\ ik \in Seq(Nat) /\ Tail(ik) = k /\ Len(ik) = Len(k) + 1
    BY <1>0, <2>0, InternalKeysAre, InternalKeyIs
  <2>2. ~Before(ik, seek)
    BY <1>0, <1>6, <2>0, RecordBefore
  <2>3. ~Before(until, Cut(ik, Len(until))) /\ Len(until) =< Len(ik)
    <3>1. ~Before(to, Cut(k, Len(to)))
      OBVIOUS
    <3>2. ~Before(until, InternalKey(id, Cut(k, Len(to))))
      BY <1>0, <1>4, <2>0, <3>1, RecordBefore
    <3>3. Len(to) =< Len(k) /\ Len(to) \in Nat /\ Len(k) \in Nat
      BY <1>4, <2>0
    <3>4. Len(until) =< Len(ik)
      <4> HIDE DEF until, ik
      <4> QED
        BY <1>2, <2>1, <3>3
    <3> QED
      BY <1>4, <2>0, <3>2, <3>4
  <2>4. ASSUME NEW e \in found, Past(e) PROVE Before(ik, e)
    <3>1. PICK j \in Ids, l \in Keys : e = InternalKey(j, l) /\ stored[j][l] # None
      BY <2>4, InternalKeysAre
    <3>2. e \in Seq(Nat) /\ Len(e) = Len(l) + 1
      BY <1>0, <3>1, InternalKeyIs
    <3>3. CASE Len(e) < Len(until)
      <4>1. j # id
        <5>1. SUFFICES ASSUME j = id PROVE FALSE
          OBVIOUS
        <5>2. Len(to) =< Len(l) /\ Len(to) \in Nat /\ Len(l) \in Nat
          BY <1>0, <1>4, <3>1, <5>1
        <5> HIDE DEF until
        <5> QED
          BY <1>2, <3>2, <3>3, <5>2
      <4>2. id < j
        BY <1>3, <3>1, <4>1
      <4> QED
        BY <1>0, <2>0, <3>1, <4>2, RecordBefore
    <3>4. CASE ~ (Len(e) < Len(until))
      <4>1. Before(until, Cut(e, Len(until))) /\ Len(until) =< Len(e)
        BY <1>2, <2>4, <3>2, <3>4
      <4> HIDE DEF ik, until
      <4> QED
        BY <1>2, <2>1, <2>3, <3>2, <4>1, CutBefore
    <3> QED
      BY <3>3, <3>4
  <2> HIDE DEF ik, seek, Past
  <2> QED
    BY <2>1, <2>2, <2>4
<1> HIDE DEF result, inside
<1>7. {Tail(ik) : ik \in result} = inside
  <2>1. \A x \in inside : x \in {Tail(ik) : ik \in result}
    BY <1>6
  <2> QED
    BY <1>5, <2>1
<1> QED
  BY <1>1, <1>7 DEF inside

(* In every state in which the ids are ids and the records are records.    *)
LEMMA TypedRanges == TypeOK => RangesAreExact
<1> SUFFICES ASSUME TypeOK,
                    NEW n \in Names, IdOf(n) # None, NEW to \in Bounds
             PROVE  /\ LinePrefix(IdOf(n), to) = Within(n, LAMBDA k : IsPrefix(to, k))
                    /\ (\A k \in Keys : Contents[n][k] # None => Len(k) >= Len(to)) =>
                         \A from \in Bounds :
                           LineRange(IdOf(n), from, to)
                             = Within(n, LAMBDA k : ~Before(k, from)
                                                      /\ ~Before(to, Cut(k, Len(to))))
  BY DEF RangesAreExact
<1>1. PICK id \in Ids : id = IdOf(n)
  BY DEF TypeOK, IdOf, Buckets
<1>2. Contents[n] = stored[id]
  BY <1>1 DEF Contents
<1>3. Bounds \subseteq Seq(Nat)
  <2>1. ASSUME NEW k \in Keys, NEW i \in 0 .. Len(k) PROVE Cut(k, i) \in Seq(Nat)
    BY DatabaseAssumption, CutIs
  <2> QED
    BY <2>1 DEF Bounds
<1>4. LinePrefix(id, to) = {k \in Keys : stored[id][k] # None /\ IsPrefix(to, k)}
  BY <1>3, PrefixExact
<1>5. ASSUME \A k \in Keys : stored[id][k] # None => Len(k) >= Len(to), NEW from \in Bounds
      PROVE  LineRange(id, from, to)
               = {k \in Keys : stored[id][k] # None /\ (~Before(k, from)
                                     /\ ~Before(to, Cut(k, Len(to))))}
  BY <1>3, <1>5, RangeExact
<1> QED
  BY <1>1, <1>2, <1>4, <1>5 DEF Within

(* A range and an iterator return the records of their bucket between the  *)
(* ends, whatever other buckets hold (range.go 27-96, iter.go 20-78).      *)
THEOREM RangesExact == Spec => []RangesAreExact
<1>1. TypeOK => RangesAreExact
  BY TypedRanges
<1> QED
  BY <1>1, TypeCorrect, PTL

=============================================================================
