--------------------------- MODULE ConnectionPool ---------------------------
(***************************************************************************)
(* The database connection pool of store/ebow/pool.go, used through        *)
(* OpenStorage and BowStorage.Close of store/ebow/rowdata.go.              *)
(*                                                                         *)
(* For each energy community (ecId) the pool keeps one badger database     *)
(* handle, dpo.db, and a channel of pool objects.  A goroutine that opens  *)
(* a storage takes an object out of the channel, opening the database if   *)
(* it is closed, and closing the storage puts the object back; whoever     *)
(* fills the channel closes the database.  Every access that another       *)
(* goroutine can observe is a step of its own.                             *)
(*                                                                         *)
(* A pool object carries nothing but the handle its holder copied, so the  *)
(* channel is the set of objects in it.  A handle is an opened badger      *)
(* database; the identity of a handle nobody refers to is free for reuse.  *)
(***************************************************************************)
EXTENDS FiniteSets

CONSTANTS
  Clients,    \* goroutines that open and close storages (queries, workers)
  ECs,        \* energy communities, the keys of Pool.pool
  Slots,      \* the objects of one channel; the code makes 20 per ecId
  Handles,    \* identities of opened databases
  Nil,        \* Go's nil, and "nobody" for a lock
  Main,       \* the goroutine that runs main() and calls ClosePool
  Warm,       \* communities used before the initial state
  Faults,     \* which of the calls into badger may fail: "open", "close"
  Shutdown    \* whether main() gets as far as ClosePool

ASSUME PoolAssumption ==
  /\ Nil \notin Clients \cup ECs \cup Slots \cup Handles
  /\ Main \notin Clients \cup {Nil}
  /\ Slots # {}
  /\ Warm \subseteq ECs
  /\ Faults \subseteq {"open", "close"}
  /\ Shutdown \in BOOLEAN

VARIABLES
  pc,         \* where each client is
  ec,         \* the community of a client's current storage
  obj,        \* the pool object a client holds
  hdl,        \* the handle in that object, obj.Db
  known,      \* the keys of Pool.pool
  pool,       \* per community, the objects in the channel dpo.pool
  db,         \* per community, dpo.db
  live,       \* per community, the handles whose badger database is open
  stuck,      \* communities whose database an unsuccessful Close left open
  mu,         \* per community, the owner of dpo.mu
  mutex,      \* the owner of Pool.mutex
  mutexPut,   \* the owner of Pool.mutexPut
  main,       \* the process: running, closing the pool, exited or crashed
  todo,       \* the communities ClosePool has still to visit
  closing     \* the community whose dpo.close() ClosePool is executing

clientVars == <<pc, ec, obj, hdl>>
lockVars   == <<mu, mutex, mutexPut>>
dbVars     == <<db, live, stuck>>
mainVars   == <<main, todo, closing>>
vars == <<clientVars, known, pool, dbVars, lockVars, mainVars>>

PCs == {"idle",
        "getPool", "getFind", "getDpo", "recv", "parked", "check", "open",
        "assign",
        "using",
        "putPool", "putFind", "send", "putCheck", "putMu", "close"}

TypeOK ==
  /\ pc \in [Clients -> PCs]
  /\ ec \in [Clients -> ECs \cup {Nil}]
  /\ obj \in [Clients -> Slots \cup {Nil}]
  /\ hdl \in [Clients -> Handles \cup {Nil}]
  /\ known \subseteq ECs
  /\ pool \in [ECs -> SUBSET Slots]
  /\ db \in [ECs -> Handles \cup {Nil}]
  /\ live \in [ECs -> SUBSET Handles]
  /\ stuck \subseteq ECs
  /\ mu \in [ECs -> Clients \cup {Nil}]
  /\ mutex \in Clients \cup {Main, Nil}
  /\ mutexPut \in Clients \cup {Nil}
  /\ main \in {"running", "closing", "exited", "crashed"}
  /\ todo \subseteq ECs
  /\ closing \in ECs \cup {Nil}

Init ==
  /\ pc = [c \in Clients |-> "idle"]
  /\ ec = [c \in Clients |-> Nil]
  /\ obj = [c \in Clients |-> Nil]
  /\ hdl = [c \in Clients |-> Nil]
  /\ known = Warm
  /\ pool = [e \in ECs |-> Slots]
  /\ db = [e \in ECs |-> Nil]
  /\ live = [e \in ECs |-> {}]
  /\ stuck = {}
  /\ mu = [e \in ECs |-> Nil]
  /\ mutex = Nil
  /\ mutexPut = Nil
  /\ main = "running"
  /\ todo = {}
  /\ closing = Nil

(* len(dpo.pool) == cap(dpo.pool) *)
IsFull(e) == pool[e] = Slots

(* Handles that denote nothing any more: a fresh database takes one. *)
FreeHandles == Handles \ ({hdl[c] : c \in Clients} \cup {db[e] : e \in ECs}
                            \cup UNION {live[e] : e \in ECs})

Alive == main \in {"running", "closing"}

At(c, label) == Alive /\ pc[c] = label

Goto(c, from, to) == At(c, from) /\ pc' = [pc EXCEPT ![c] = to]

-----------------------------------------------------------------------------
(* Pool.Get and DbPoolObject.Get, called by OpenStorage.                   *)

(* A goroutine calls OpenStorage(tenant, e), which nothing forbids while   *)
(* main() closes the pool: a worker that wg.Wait did not know of may.      *)
CallGet(c, e) ==
  /\ Goto(c, "idle", "getPool")
  /\ ec' = [ec EXCEPT ![c] = e]
  /\ UNCHANGED <<obj, hdl, known, pool, dbVars, lockVars, mainVars>>

LockMutexPut(c) ==
  /\ Goto(c, "getPool", "getFind")
  /\ mutexPut = Nil
  /\ mutexPut' = c
  /\ UNCHANGED <<ec, obj, hdl, known, pool, dbVars, mu, mutex, mainVars>>

(* p.pool[ecId], creating the entry on first use. *)
FindOrCreate(c) ==
  /\ Goto(c, "getFind", "getDpo")
  /\ known' = known \cup {ec[c]}
  /\ UNCHANGED <<ec, obj, hdl, pool, dbVars, lockVars, mainVars>>

GetLockMu(c) ==
  /\ Goto(c, "getDpo", "recv")
  /\ mu[ec[c]] = Nil
  /\ mu' = [mu EXCEPT ![ec[c]] = c]
  /\ UNCHANGED <<ec, obj, hdl, known, pool, dbVars, mutex, mutexPut, mainVars>>

(* The receive, when the channel holds an object ... *)
Receive(c) ==
  /\ Goto(c, "recv", "check")
  /\ \E s \in pool[ec[c]] :
       /\ obj' = [obj EXCEPT ![c] = s]
       /\ pool' = [pool EXCEPT ![ec[c]] = @ \ {s}]
  /\ UNCHANGED <<ec, hdl, known, dbVars, lockVars, mainVars>>

(* ... and when it is empty: the goroutine waits, with both locks.         *)
Park(c) ==
  /\ Goto(c, "recv", "parked")
  /\ pool[ec[c]] = {}
  /\ UNCHANGED <<ec, obj, hdl, known, pool, dbVars, lockVars, mainVars>>

CheckDb(c) ==
  /\ At(c, "check")
  /\ pc' = [pc EXCEPT ![c] = IF db[ec[c]] = Nil THEN "open" ELSE "assign"]
  /\ UNCHANGED <<ec, obj, hdl, known, pool, dbVars, lockVars, mainVars>>

(* dpo.OpenStorage.  Badger takes a lock on the directory, so it opens no  *)
(* database that is open already.                                          *)
OpenOk(c) ==
  /\ Goto(c, "open", "assign")
  /\ live[ec[c]] = {} /\ ec[c] \notin stuck
  /\ \E h \in FreeHandles :
       /\ db' = [db EXCEPT ![ec[c]] = h]
       /\ live' = [live EXCEPT ![ec[c]] = {h}]
  /\ UNCHANGED <<ec, obj, hdl, known, pool, stuck, lockVars, mainVars>>

(* A failed open returns nil and drops the object it took.                 *)
OpenFail(c) ==
  /\ Goto(c, "open", "idle")
  /\ "open" \in Faults \/ live[ec[c]] # {} \/ ec[c] \in stuck
  /\ ec' = [ec EXCEPT ![c] = Nil]
  /\ obj' = [obj EXCEPT ![c] = Nil]
  /\ mu' = [mu EXCEPT ![ec[c]] = Nil]
  /\ mutexPut' = Nil
  /\ UNCHANGED <<hdl, known, pool, dbVars, mutex, mainVars>>

(* dbObject.Db = dpo.db; both locks are released on return.                *)
Assign(c) ==
  /\ Goto(c, "assign", "using")
  /\ hdl' = [hdl EXCEPT ![c] = db[ec[c]]]
  /\ mu' = [mu EXCEPT ![ec[c]] = Nil]
  /\ mutexPut' = Nil
  /\ UNCHANGED <<ec, obj, known, pool, dbVars, mutex, mainVars>>

-----------------------------------------------------------------------------
(* Pool.Put and DbPoolObject.Put, called by BowStorage.Close.              *)

CallPut(c) ==
  /\ Goto(c, "using", "putPool")
  /\ UNCHANGED <<ec, obj, hdl, known, pool, dbVars, lockVars, mainVars>>

LockMutex(c) ==
  /\ Goto(c, "putPool", "putFind")
  /\ mutex = Nil
  /\ mutex' = c
  /\ UNCHANGED <<ec, obj, hdl, known, pool, dbVars, mu, mutexPut, mainVars>>

(* p.pool[ecId], then obj.Db = nil and the test for a full channel.  The   *)
(* early return of that test is not a step here: a caller holds an object, *)
(* so its channel is never full (NeverNeedless).                           *)
FindAndClear(c) ==
  /\ Goto(c, "putFind", "send")
  /\ ec[c] \in known
  /\ hdl' = [hdl EXCEPT ![c] = Nil]
  /\ UNCHANGED <<ec, obj, known, pool, dbVars, lockVars, mainVars>>

(* Mutation of Waiters: the send never finds the waiting goroutine. *)
Waiters_None(e) == {}

(* The send hands the object to a goroutine waiting in Get, if there is    *)
(* one, and stores it in the channel otherwise.                            *)
Waiters(e) == {w \in Clients : pc[w] = "parked" /\ ec[w] = e}

(* Mutation of HandOver: the sender keeps using the object. *)
HandOver_Keeps(c) ==
  /\ At(c, "send")
  /\ \E w \in Waiters(ec[c]) :
       /\ pc' = [pc EXCEPT ![c] = "putCheck", ![w] = "check"]
       /\ obj' = [obj EXCEPT ![w] = obj[c]]
  /\ UNCHANGED <<ec, hdl, known, pool, dbVars, lockVars, mainVars>>

HandOver(c) ==
  /\ At(c, "send")
  /\ \E w \in Waiters(ec[c]) :
       /\ pc' = [pc EXCEPT ![c] = "putCheck", ![w] = "check"]
       /\ obj' = [obj EXCEPT ![c] = Nil, ![w] = obj[c]]
  /\ UNCHANGED <<ec, hdl, known, pool, dbVars, lockVars, mainVars>>

(* Mutation of Store: the object is cleared before it is sent. *)
Store_ClearsFirst(c) ==
  /\ Goto(c, "send", "putCheck")
  /\ Waiters(ec[c]) = {}
  /\ obj' = [obj EXCEPT ![c] = Nil]
  /\ pool' = [pool EXCEPT ![ec[c]] = @ \cup {obj'[c]}]
  /\ UNCHANGED <<ec, hdl, known, dbVars, lockVars, mainVars>>

Store(c) ==
  /\ Goto(c, "send", "putCheck")
  /\ Waiters(ec[c]) = {}
  /\ pool' = [pool EXCEPT ![ec[c]] = @ \cup {obj[c]}]
  /\ obj' = [obj EXCEPT ![c] = Nil]
  /\ UNCHANGED <<ec, hdl, known, dbVars, lockVars, mainVars>>

PutReturns(c) ==
  /\ Goto(c, "putCheck", "idle")
  /\ ~IsFull(ec[c])
  /\ ec' = [ec EXCEPT ![c] = Nil]
  /\ mutex' = Nil
  /\ UNCHANGED <<obj, hdl, known, pool, dbVars, mu, mutexPut, mainVars>>

PutSeesFull(c) ==
  /\ Goto(c, "putCheck", "putMu")
  /\ IsFull(ec[c])
  /\ UNCHANGED <<ec, obj, hdl, known, pool, dbVars, lockVars, mainVars>>

PutLockMu(c) ==
  /\ Goto(c, "putMu", "close")
  /\ mu[ec[c]] = Nil
  /\ mu' = [mu EXCEPT ![ec[c]] = c]
  /\ UNCHANGED <<ec, obj, hdl, known, pool, dbVars, mutex, mutexPut, mainVars>>

(* dpo.close(): db.Close() of db.go, which returns before it closes badger *)
(* when it cannot release its sequence, an error dpo.close() ignores.      *)
CloseHandle(e) ==
  /\ live' = [live EXCEPT ![e] = @ \ {db[e]}]
  /\ stuck' \in {stuck} \cup {stuck \cup {e} : f \in Faults \cap {"close"}}

(* Mutation of PutCloses: dpo.db keeps the closed handle. *)
PutCloses_KeepsHandle(c) ==
  /\ Goto(c, "close", "idle")
  /\ IF db[ec[c]] # Nil THEN CloseHandle(ec[c]) ELSE UNCHANGED <<live, stuck>>
  /\ ec' = [ec EXCEPT ![c] = Nil]
  /\ mu' = [mu EXCEPT ![ec[c]] = Nil]
  /\ mutex' = Nil
  /\ UNCHANGED <<obj, hdl, known, pool, db, mutexPut, mainVars>>

PutCloses(c) ==
  /\ Goto(c, "close", "idle")
  /\ IF db[ec[c]] # Nil THEN CloseHandle(ec[c]) ELSE UNCHANGED <<live, stuck>>
  /\ db' = [db EXCEPT ![ec[c]] = Nil]
  /\ ec' = [ec EXCEPT ![c] = Nil]
  /\ mu' = [mu EXCEPT ![ec[c]] = Nil]
  /\ mutex' = Nil
  /\ UNCHANGED <<obj, hdl, known, pool, mutexPut, mainVars>>

-----------------------------------------------------------------------------
(* Pool.Close, the last call of main().  It holds Pool.mutex but no dpo.mu.*)

ClosePool ==
  /\ Shutdown
  /\ main = "running"
  /\ mutex = Nil
  /\ mutex' = Main
  /\ main' = "closing"
  /\ todo' = known
  /\ UNCHANGED <<clientVars, known, pool, dbVars, mu, mutexPut, closing>>

(* Mutation of CloseSkips: an open database is skipped as well. *)
CloseSkips_Any(e) ==
  /\ main = "closing"
  /\ closing = Nil
  /\ e \in todo
  /\ todo' = todo \ {e}
  /\ UNCHANGED <<clientVars, known, pool, dbVars, lockVars, main, closing>>

(* poolObj.close(): nothing to do for a closed database ...                *)
CloseSkips(e) ==
  /\ main = "closing"
  /\ closing = Nil
  /\ e \in todo
  /\ db[e] = Nil
  /\ todo' = todo \ {e}
  /\ UNCHANGED <<clientVars, known, pool, dbVars, lockVars, main, closing>>

(* ... an open one is closed first, and dpo.db is cleared after that.      *)
CloseBegins(e) ==
  /\ main = "closing"
  /\ closing = Nil
  /\ e \in todo
  /\ db[e] # Nil
  /\ CloseHandle(e)
  /\ closing' = e
  /\ todo' = todo \ {e}
  /\ UNCHANGED <<clientVars, known, pool, db, lockVars, main>>

CloseEnds ==
  /\ main = "closing"
  /\ closing # Nil
  /\ db' = [db EXCEPT ![closing] = Nil]
  /\ closing' = Nil
  /\ UNCHANGED <<clientVars, known, pool, live, stuck, lockVars, main, todo>>

(* main() returns and takes every goroutine with it.                       *)
Exit ==
  /\ main = "closing"
  /\ closing = Nil
  /\ todo = {}
  /\ main' = "exited"
  /\ mutex' = Nil
  /\ UNCHANGED <<clientVars, known, pool, dbVars, mu, mutexPut, todo, closing>>

(* Pool.Get writes the map Pool.pool under mutexPut; Put and Close read it *)
(* under mutex.  The Go runtime stops a process in which the two overlap.  *)
MapRace ==
  /\ \E c \in Clients : pc[c] = "getFind" /\ ec[c] \notin known
  /\ main = "closing" \/ \E c \in Clients : pc[c] = "putFind"
  /\ main' = "crashed"
  /\ UNCHANGED <<clientVars, known, pool, dbVars, lockVars, todo, closing>>

-----------------------------------------------------------------------------
GetStep(c) ==
  \/ LockMutexPut(c) \/ FindOrCreate(c) \/ GetLockMu(c)
  \/ Receive(c) \/ Park(c) \/ CheckDb(c)
  \/ OpenOk(c) \/ OpenFail(c) \/ Assign(c)

PutStep(c) ==
  \/ LockMutex(c) \/ FindAndClear(c)
  \/ HandOver(c) \/ Store(c)
  \/ PutReturns(c) \/ PutSeesFull(c) \/ PutLockMu(c) \/ PutCloses(c)

ClosePoolStep ==
  \/ ClosePool \/ CloseEnds \/ Exit
  \/ \E e \in ECs : CloseSkips(e) \/ CloseBegins(e)

Next ==
  \/ \E c \in Clients :
       (\E e \in ECs : CallGet(c, e)) \/ GetStep(c) \/ CallPut(c) \/ PutStep(c)
  \/ ClosePoolStep
  \/ MapRace

Spec == Init /\ [][Next]_vars

(* What Go's scheduler and the callers guarantee.  A runnable goroutine    *)
(* runs; a sync.Mutex in starvation mode goes to its oldest waiter, so a   *)
(* lock that is released again and again is got in the end; every caller   *)
(* of OpenStorage defers the Close, or closes when it is idle (worker).    *)
(* A goroutine waits at one place at a time: one strong fairness each.     *)
Fairness ==
  \A c \in Clients : SF_vars(GetStep(c) \/ CallPut(c) \/ PutStep(c))

FairSpec == Spec /\ Fairness

-----------------------------------------------------------------------------
(* Each object of a channel is in one place: in the channel, with one      *)
(* goroutine, or lost to a failed open.  Two goroutines never share an     *)
(* object, or the Put of one would clear the handle of the other (78).     *)
ObjectsUnique ==
  \A c \in Clients : obj[c] # Nil =>
    /\ ec[c] # Nil
    /\ obj[c] \notin pool[ec[c]]
    /\ \A d \in Clients \ {c} : ec[d] = ec[c] => obj[d] # obj[c]

(* The early return of DbPoolObject.Put (79-82), which would lose the      *)
(* object and skip the close, is out of reach: the caller's object is      *)
(* missing from the channel.                                               *)
NeverNeedless == \A c \in Clients : pc[c] = "send" => pool[ec[c]] # Slots

(* dpo.db and badger agree: a database is open exactly when the pool has   *)
(* its handle, so no directory is opened twice, no open database is out of *)
(* reach unless its Close failed, and no Get returns a closed one.  While ClosePool is between  *)
(* close and clear (102-103) the handle is already dead.                   *)
PoolOwnsDatabase ==
  \A e \in ECs : live[e] = IF db[e] = Nil \/ closing = e THEN {} ELSE {db[e]}

(* A goroutine in OpenStorage's critical section owns what it writes: one  *)
(* goroutine per community is between the lock of dpo.mu and its release.  *)
InGet(c) == pc[c] \in {"recv", "parked", "check", "open", "assign"}
MuExclusion ==
  \A e \in ECs : \A c, d \in Clients :
    /\ ec[c] = e /\ (InGet(c) \/ pc[c] = "close")
    /\ ec[d] = e /\ (InGet(d) \/ pc[d] = "close")
    => c = d

(* When nobody uses a community and no failed open has lost an object, its *)
(* database is closed: whoever is last sees the channel full and closes.   *)
FullIsClosed ==
  \A e \in ECs :
    pool[e] = Slots /\ (\A c \in Clients : ec[c] # e) => db[e] = Nil

(* The pool never loses track of a database: it has the handle of each     *)
(* open one, an object that is returned is taken back, and the last one    *)
(* that comes back closes the database (DbPoolObject.Get, Put and close).  *)
PoolConsistent == PoolOwnsDatabase /\ NeverNeedless /\ FullIsClosed

(* A storage in use has an open database: pool.go closes it when the       *)
(* objects are all back ("Object Pool max", 91).                           *)
HolderHasDatabase ==
  \A c \in Clients : pc[c] = "using" => hdl[c] \in live[ec[c]]

(* Every OpenStorage returns, with a storage or with an error: a Get that  *)
(* waits for an object is served once an object is released, as            *)
(* TestOpenMaxObject expects (pool_test.go 83-84).                         *)
GetReturns ==
  \A c \in Clients : (pc[c] = "getPool") ~> (pc[c] \in {"using", "idle"})

(* When main() has returned, a badger database is left open only to a      *)
(* goroutine that is still inside the pool, not even one that a lost       *)
(* object keeps from closing on idle; except where closing it was tried    *)
(* and failed.                                                             *)
CleanExit ==
  main = "exited" =>
    \A e \in ECs : live[e] # {} => \E c \in Clients : ec[c] = e

(* The pool implements the leases: an object held is a lease, an object    *)
(* neither held nor in its channel is a lost one.                          *)
HeldLeases == {l \in ECs \X Slots \X Clients : ec[l[3]] = l[1] /\ obj[l[3]] = l[2]}

Lost == {x \in ECs \X Slots :
           x[2] \notin pool[x[1]] /\ \A c \in Clients : <<x[1], x[2], c>> \notin HeldLeases}

OpenECs == {e \in ECs : live[e] # {}}

Lease == INSTANCE StorageLease WITH
  leases <- HeldLeases, lost <- Lost, open <- OpenECs

ImplementsLease == Lease!LeaseSpec

=============================================================================
