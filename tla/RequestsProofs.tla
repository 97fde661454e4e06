--------------------------- MODULE RequestsProofs ---------------------------
(***************************************************************************)
(* Proofs about ConnectionPool and about Requests, for any number of       *)
(* goroutines, communities, objects and handles, any set of the handlers   *)
(* in the router, and any of the failures.                                 *)
(*                                                                         *)
(* The first half is about the pool alone.  Its inductive invariant IInv   *)
(* ties the program counter of a goroutine to what it owns: its object     *)
(* (Possession), and the three kinds of lock (LockOwners).  From these the *)
(* objects stay unique and the database matches the pool's handle.         *)
(*                                                                         *)
(* In the second half a request is in the pool between OpenStorage and the *)
(* deferred Close only (OutsideIdle); what has happened to it and what has *)
(* been answered is told by how far it has come (Progress); main() goes on *)
(* when nobody is left that it knows of (Stopping).  Every step is one of the   *)
(* pool or leaves the pool alone, so what is proved of the pool holds here *)
(* too.                                                                    *)
(***************************************************************************)
EXTENDS Requests, SequenceTheorems, TLAPS

HoldsObject == {"check", "open", "assign", "using", "putPool", "putFind", "send"}
HoldsMu     == {"recv", "parked", "check", "open", "assign", "close"}
HoldsPut    == {"getFind", "getDpo", "recv", "parked", "check", "open", "assign"}
HoldsMutex  == {"putFind", "send", "putCheck", "putMu", "close"}

(* A goroutine has a community while it is inside the pool, and an object  *)
(* between the receive and the send.                                       *)
Possession ==
  \A c \in Clients :
    /\ ec[c] = Nil <=> pc[c] = "idle"
    /\ obj[c] # Nil <=> pc[c] \in HoldsObject

(* Who owns a lock is told by the program counters.                        *)
LockOwners ==
  /\ \A c \in Clients :
       /\ \A e \in ECs : mu[e] = c <=> ec[c] = e /\ pc[c] \in HoldsMu
       /\ mutexPut = c <=> pc[c] \in HoldsPut
       /\ mutex = c <=> pc[c] \in HoldsMutex
  /\ main = "closing" => mutex = Main

(* ClosePool is between close and clear of an open database only, and a    *)
(* goroutine that is about to open one has seen dpo.db nil.                *)
Handover ==
  /\ closing # Nil => main \in {"closing", "crashed"} /\ db[closing] # Nil
  /\ \A c \in Clients : pc[c] = "open" => db[ec[c]] = Nil

(* A full channel with an open database is being attended to by the Put    *)
(* that filled it.                                                         *)
FullIsAttended ==
  \A e \in ECs : pool[e] = Slots /\ db[e] # Nil =>
    \E c \in Clients : ec[c] = e /\ pc[c] \in {"putCheck", "putMu", "close"}

IInv ==
  /\ TypeOK
  /\ Possession
  /\ LockOwners
  /\ ObjectsUnique
  /\ Handover
  /\ PoolOwnsDatabase
  /\ FullIsAttended

-----------------------------------------------------------------------------
(* Before the first call.                                                  *)
LEMMA InitIInv == Init => IInv
<1> SUFFICES ASSUME Init PROVE IInv
  OBVIOUS
<1> USE PoolAssumption DEF Init
<1>1. TypeOK
  BY DEF TypeOK, PCs
<1>2. Possession
  BY DEF Possession, HoldsObject
<1>3. LockOwners
  BY DEF LockOwners, HoldsMu, HoldsPut, HoldsMutex
<1>4. ObjectsUnique
  BY DEF ObjectsUnique
<1>5. Handover /\ PoolOwnsDatabase /\ FullIsAttended
  BY DEF Handover, PoolOwnsDatabase, FullIsAttended
<1> QED
  BY <1>1, <1>2, <1>3, <1>4, <1>5 DEF IInv

(* Inside the pool a goroutine has a community. *)
LEMMA Inside ==
  ASSUME IInv, NEW c \in Clients, pc[c] # "idle"
  PROVE  ec[c] \in ECs
BY DEF IInv, TypeOK, Possession

(* The steps keep the types.                                               *)
LEMMA TypeStep == IInv /\ [Next]_vars => TypeOK'
<1> SUFFICES ASSUME IInv, [Next]_vars PROVE TypeOK'
  OBVIOUS
<1> USE PoolAssumption DEF IInv, TypeOK, PCs, clientVars, lockVars, dbVars, mainVars, At,
   Goto, Alive
<1>1. ASSUME NEW c \in Clients, NEW e \in ECs, CallGet(c, e) PROVE TypeOK'
  BY <1>1 DEF CallGet
<1>2. ASSUME NEW c \in Clients, LockMutexPut(c) PROVE TypeOK'
  BY <1>2 DEF LockMutexPut
<1>3. ASSUME NEW c \in Clients, FindOrCreate(c) PROVE TypeOK'
  <2>1. ec[c] \in ECs
    BY <1>3, Inside DEF FindOrCreate
  <2> QED
    BY <1>3, <2>1 DEF FindOrCreate
<1>4. ASSUME NEW c \in Clients, GetLockMu(c) PROVE TypeOK'
  BY <1>4 DEF GetLockMu
<1>5. ASSUME NEW c \in Clients, Receive(c) PROVE TypeOK'
  <2>1. ec[c] \in ECs
    BY <1>5, Inside DEF Receive
  <2>2. PICK s \in pool[ec[c]] : /\ obj' = [obj EXCEPT ![c] = s]
                                /\ pool' = [pool EXCEPT ![ec[c]] = @ \ {s}]
    BY <1>5 DEF Receive
  <2>3. pool' \in [ECs -> SUBSET Slots]
    BY <2>1, <2>2
  <2>4. s \in Slots /\ obj' \in [Clients -> Slots \cup {Nil}]
    BY <2>1, <2>2
  <2> QED
    BY <1>5, <2>3, <2>4 DEF Receive
<1>6. ASSUME NEW c \in Clients, Park(c) PROVE TypeOK'
  BY <1>6 DEF Park
<1>7. ASSUME NEW c \in Clients, CheckDb(c) PROVE TypeOK'
  BY <1>7 DEF CheckDb
<1>8. ASSUME NEW c \in Clients, OpenOk(c) PROVE TypeOK'
  <2>1. ec[c] \in ECs
    BY <1>8, Inside DEF OpenOk
  <2>2. PICK h \in Handles : /\ db' = [db EXCEPT ![ec[c]] = h]
                             /\ live' = [live EXCEPT ![ec[c]] = {h}]
    BY <1>8 DEF OpenOk, FreeHandles
  <2>3. live' \in [ECs -> SUBSET Handles]
    BY <2>1, <2>2
  <2> QED
    BY <1>8, <2>1, <2>2, <2>3 DEF OpenOk
<1>9. ASSUME NEW c \in Clients, OpenFail(c) PROVE TypeOK'
  BY <1>9 DEF OpenFail
<1>10. ASSUME NEW c \in Clients, Assign(c) PROVE TypeOK'
  <2>1. ec[c] \in ECs
    BY <1>10, Inside DEF Assign
  <2> QED
    BY <1>10, <2>1 DEF Assign
<1>11. ASSUME NEW c \in Clients, CallPut(c) PROVE TypeOK'
  BY <1>11 DEF CallPut
<1>12. ASSUME NEW c \in Clients, LockMutex(c) PROVE TypeOK'
  BY <1>12 DEF LockMutex
<1>13. ASSUME NEW c \in Clients, FindAndClear(c) PROVE TypeOK'
  BY <1>13 DEF FindAndClear
<1>14. ASSUME NEW c \in Clients, HandOver(c) PROVE TypeOK'
  BY <1>14 DEF HandOver, Waiters
<1>15. ASSUME NEW c \in Clients, Store(c) PROVE TypeOK'
  <2>1. ec[c] \in ECs /\ obj[c] \in Slots
    BY <1>15, Inside DEF Store, Possession, HoldsObject
  <2>2. pool' \in [ECs -> SUBSET Slots]
    BY <1>15, <2>1 DEF Store
  <2> QED
    BY <1>15, <2>1, <2>2 DEF Store
<1>16. ASSUME NEW c \in Clients, PutReturns(c) PROVE TypeOK'
  BY <1>16 DEF PutReturns, IsFull
<1>17. ASSUME NEW c \in Clients, PutSeesFull(c) PROVE TypeOK'
  BY <1>17 DEF PutSeesFull, IsFull
<1>18. ASSUME NEW c \in Clients, PutLockMu(c) PROVE TypeOK'
  BY <1>18 DEF PutLockMu
<1>19. ASSUME NEW c \in Clients, PutCloses(c) PROVE TypeOK'
  <2>1. ec[c] \in ECs
    BY <1>19, Inside DEF PutCloses
  <2>2. live' \in [ECs -> SUBSET Handles] /\ stuck' \subseteq ECs
    BY <1>19, <2>1 DEF PutCloses, CloseHandle
  <2> QED
    BY <1>19, <2>1, <2>2 DEF PutCloses
<1>20. ASSUME NEW e \in ECs, CloseSkips(e) PROVE TypeOK'
  BY <1>20 DEF CloseSkips
<1>21. ASSUME NEW e \in ECs, CloseBegins(e) PROVE TypeOK'
  BY <1>21 DEF CloseBegins, CloseHandle
<1>22. CASE ClosePool
  BY <1>22 DEF ClosePool
<1>23. CASE CloseEnds
  BY <1>23 DEF CloseEnds
<1>24. CASE Exit
  BY <1>24 DEF Exit
<1>25. CASE MapRace
  BY <1>25 DEF MapRace
<1>26. CASE UNCHANGED vars
  BY <1>26 DEF vars
<1> QED
  BY <1>1, <1>2, <1>3, <1>4, <1>5, <1>6, <1>7, <1>8, <1>9, <1>10, <1>11, <1>12, <1>13, <1>14,
     <1>15, <1>16, <1>17, <1>18, <1>19, <1>20, <1>21, <1>22, <1>23, <1>24, <1>25, <1>26
     DEF Next, GetStep, PutStep, ClosePoolStep

(* The steps of Get and Put give and take objects and handles in order.    *)
LEMMA PossessionStep == IInv /\ [Next]_vars => Possession'
<1> SUFFICES ASSUME IInv, [Next]_vars PROVE Possession'
  OBVIOUS
<1> USE PoolAssumption DEF IInv, TypeOK, Possession, HoldsObject, clientVars, lockVars,
   dbVars, mainVars, At, Goto, Alive
<1>1. ASSUME NEW c \in Clients, NEW e \in ECs, CallGet(c, e) PROVE Possession'
  BY <1>1 DEF CallGet
<1>2. ASSUME NEW c \in Clients, LockMutexPut(c) PROVE Possession'
  BY <1>2 DEF LockMutexPut
<1>3. ASSUME NEW c \in Clients, FindOrCreate(c) PROVE Possession'
  BY <1>3 DEF FindOrCreate
<1>4. ASSUME NEW c \in Clients, GetLockMu(c) PROVE Possession'
  BY <1>4 DEF GetLockMu
<1>5. ASSUME NEW c \in Clients, Receive(c) PROVE Possession'
  BY <1>5 DEF Receive
<1>6. ASSUME NEW c \in Clients, Park(c) PROVE Possession'
  BY <1>6 DEF Park
<1>7. ASSUME NEW c \in Clients, CheckDb(c) PROVE Possession'
  BY <1>7 DEF CheckDb
<1>8. ASSUME NEW c \in Clients, OpenOk(c) PROVE Possession'
  BY <1>8 DEF OpenOk, FreeHandles
<1>9. ASSUME NEW c \in Clients, OpenFail(c) PROVE Possession'
  BY <1>9 DEF OpenFail
<1>10. ASSUME NEW c \in Clients, Assign(c) PROVE Possession'
  BY <1>10 DEF Assign
<1>11. ASSUME NEW c \in Clients, CallPut(c) PROVE Possession'
  BY <1>11 DEF CallPut
<1>12. ASSUME NEW c \in Clients, LockMutex(c) PROVE Possession'
  BY <1>12 DEF LockMutex
<1>13. ASSUME NEW c \in Clients, FindAndClear(c) PROVE Possession'
  BY <1>13 DEF FindAndClear
<1>14. ASSUME NEW c \in Clients, HandOver(c) PROVE Possession'
  BY <1>14 DEF HandOver, Waiters
<1>15. ASSUME NEW c \in Clients, Store(c) PROVE Possession'
  BY <1>15 DEF Store, Waiters
<1>16. ASSUME NEW c \in Clients, PutReturns(c) PROVE Possession'
  BY <1>16 DEF PutReturns, IsFull
<1>17. ASSUME NEW c \in Clients, PutSeesFull(c) PROVE Possession'
  BY <1>17 DEF PutSeesFull, IsFull
<1>18. ASSUME NEW c \in Clients, PutLockMu(c) PROVE Possession'
  BY <1>18 DEF PutLockMu
<1>19. ASSUME NEW c \in Clients, PutCloses(c) PROVE Possession'
  BY <1>19 DEF PutCloses, CloseHandle
<1>20. ASSUME NEW e \in ECs, CloseSkips(e) PROVE Possession'
  BY <1>20 DEF CloseSkips
<1>21. ASSUME NEW e \in ECs, CloseBegins(e) PROVE Possession'
  BY <1>21 DEF CloseBegins, CloseHandle
<1>22. CASE ClosePool
  BY <1>22 DEF ClosePool
<1>23. CASE CloseEnds
  BY <1>23 DEF CloseEnds
<1>24. CASE Exit
  BY <1>24 DEF Exit
<1>25. CASE MapRace
  BY <1>25 DEF MapRace
<1>26. CASE UNCHANGED vars
  BY <1>26 DEF vars
<1> QED
  BY <1>1, <1>2, <1>3, <1>4, <1>5, <1>6, <1>7, <1>8, <1>9, <1>10, <1>11, <1>12, <1>13, <1>14,
     <1>15, <1>16, <1>17, <1>18, <1>19, <1>20, <1>21, <1>22, <1>23, <1>24, <1>25, <1>26
     DEF Next, GetStep, PutStep, ClosePoolStep

(* A lock is released by who has acquired it.                              *)
LEMMA LockStep == IInv /\ [Next]_vars => LockOwners'
<1> SUFFICES ASSUME IInv, [Next]_vars PROVE LockOwners'
  OBVIOUS
<1> USE PoolAssumption DEF IInv, TypeOK, Possession, LockOwners, HoldsMu, HoldsPut,
   HoldsMutex, clientVars, lockVars, dbVars, mainVars, At, Goto, Alive
<1>1. ASSUME NEW c \in Clients, NEW e \in ECs, CallGet(c, e) PROVE LockOwners'
  BY <1>1 DEF CallGet
<1>2. ASSUME NEW c \in Clients, LockMutexPut(c) PROVE LockOwners'
  BY <1>2 DEF LockMutexPut
<1>3. ASSUME NEW c \in Clients, FindOrCreate(c) PROVE LockOwners'
  BY <1>3 DEF FindOrCreate
<1>4. ASSUME NEW c \in Clients, GetLockMu(c) PROVE LockOwners'
  BY <1>4 DEF GetLockMu
<1>5. ASSUME NEW c \in Clients, Receive(c) PROVE LockOwners'
  BY <1>5 DEF Receive
<1>6. ASSUME NEW c \in Clients, Park(c) PROVE LockOwners'
  BY <1>6 DEF Park
<1>7. ASSUME NEW c \in Clients, CheckDb(c) PROVE LockOwners'
  BY <1>7 DEF CheckDb
<1>8. ASSUME NEW c \in Clients, OpenOk(c) PROVE LockOwners'
  BY <1>8 DEF OpenOk, FreeHandles
<1>9. ASSUME NEW c \in Clients, OpenFail(c) PROVE LockOwners'
  BY <1>9 DEF OpenFail
<1>10. ASSUME NEW c \in Clients, Assign(c) PROVE LockOwners'
  BY <1>10 DEF Assign
<1>11. ASSUME NEW c \in Clients, CallPut(c) PROVE LockOwners'
  BY <1>11 DEF CallPut
<1>12. ASSUME NEW c \in Clients, LockMutex(c) PROVE LockOwners'
  BY <1>12 DEF LockMutex
<1>13. ASSUME NEW c \in Clients, FindAndClear(c) PROVE LockOwners'
  BY <1>13 DEF FindAndClear
<1>14. ASSUME NEW c \in Clients, HandOver(c) PROVE LockOwners'
  BY <1>14 DEF HandOver, Waiters
<1>15. ASSUME NEW c \in Clients, Store(c) PROVE LockOwners'
  BY <1>15 DEF Store, Waiters
<1>16. ASSUME NEW c \in Clients, PutReturns(c) PROVE LockOwners'
  BY <1>16 DEF PutReturns, IsFull
<1>17. ASSUME NEW c \in Clients, PutSeesFull(c) PROVE LockOwners'
  BY <1>17 DEF PutSeesFull, IsFull
<1>18. ASSUME NEW c \in Clients, PutLockMu(c) PROVE LockOwners'
  BY <1>18 DEF PutLockMu
<1>19. ASSUME NEW c \in Clients, PutCloses(c) PROVE LockOwners'
  BY <1>19 DEF PutCloses, CloseHandle
<1>20. ASSUME NEW e \in ECs, CloseSkips(e) PROVE LockOwners'
  BY <1>20 DEF CloseSkips
<1>21. ASSUME NEW e \in ECs, CloseBegins(e) PROVE LockOwners'
  BY <1>21 DEF CloseBegins, CloseHandle
<1>22. CASE ClosePool
  BY <1>22 DEF ClosePool
<1>23. CASE CloseEnds
  BY <1>23 DEF CloseEnds
<1>24. CASE Exit
  BY <1>24 DEF Exit
<1>25. CASE MapRace
  BY <1>25 DEF MapRace
<1>26. CASE UNCHANGED vars
  BY <1>26 DEF vars
<1> QED
  BY <1>1, <1>2, <1>3, <1>4, <1>5, <1>6, <1>7, <1>8, <1>9, <1>10, <1>11, <1>12, <1>13, <1>14,
     <1>15, <1>16, <1>17, <1>18, <1>19, <1>20, <1>21, <1>22, <1>23, <1>24, <1>25, <1>26
     DEF Next, GetStep, PutStep, ClosePoolStep

(* No step puts an object in two places.                                   *)
LEMMA UniqueStep == IInv /\ [Next]_vars => ObjectsUnique'
<1> SUFFICES ASSUME IInv, [Next]_vars PROVE ObjectsUnique'
  OBVIOUS
<1> USE PoolAssumption DEF IInv, TypeOK, Possession, HoldsObject, ObjectsUnique, clientVars,
   lockVars, dbVars, mainVars, At, Goto, Alive
<1>1. ASSUME NEW c \in Clients, NEW e \in ECs, CallGet(c, e) PROVE ObjectsUnique'
  BY <1>1 DEF CallGet
<1>2. ASSUME NEW c \in Clients, LockMutexPut(c) PROVE ObjectsUnique'
  BY <1>2 DEF LockMutexPut
<1>3. ASSUME NEW c \in Clients, FindOrCreate(c) PROVE ObjectsUnique'
  BY <1>3 DEF FindOrCreate
<1>4. ASSUME NEW c \in Clients, GetLockMu(c) PROVE ObjectsUnique'
  BY <1>4 DEF GetLockMu
<1>5. ASSUME NEW c \in Clients, Receive(c) PROVE ObjectsUnique'
  BY <1>5 DEF Receive
<1>6. ASSUME NEW c \in Clients, Park(c) PROVE ObjectsUnique'
  BY <1>6 DEF Park
<1>7. ASSUME NEW c \in Clients, CheckDb(c) PROVE ObjectsUnique'
  BY <1>7 DEF CheckDb
<1>8. ASSUME NEW c \in Clients, OpenOk(c) PROVE ObjectsUnique'
  BY <1>8 DEF OpenOk, FreeHandles
<1>9. ASSUME NEW c \in Clients, OpenFail(c) PROVE ObjectsUnique'
  BY <1>9 DEF OpenFail
<1>10. ASSUME NEW c \in Clients, Assign(c) PROVE ObjectsUnique'
  BY <1>10 DEF Assign
<1>11. ASSUME NEW c \in Clients, CallPut(c) PROVE ObjectsUnique'
  BY <1>11 DEF CallPut
<1>12. ASSUME NEW c \in Clients, LockMutex(c) PROVE ObjectsUnique'
  BY <1>12 DEF LockMutex
<1>13. ASSUME NEW c \in Clients, FindAndClear(c) PROVE ObjectsUnique'
  BY <1>13 DEF FindAndClear
<1>14. ASSUME NEW c \in Clients, HandOver(c) PROVE ObjectsUnique'
  BY <1>14 DEF HandOver, Waiters
<1>15. ASSUME NEW c \in Clients, Store(c) PROVE ObjectsUnique'
  BY <1>15 DEF Store, Waiters
<1>16. ASSUME NEW c \in Clients, PutReturns(c) PROVE ObjectsUnique'
  BY <1>16 DEF PutReturns, IsFull
<1>17. ASSUME NEW c \in Clients, PutSeesFull(c) PROVE ObjectsUnique'
  BY <1>17 DEF PutSeesFull, IsFull
<1>18. ASSUME NEW c \in Clients, PutLockMu(c) PROVE ObjectsUnique'
  BY <1>18 DEF PutLockMu
<1>19. ASSUME NEW c \in Clients, PutCloses(c) PROVE ObjectsUnique'
  BY <1>19 DEF PutCloses, CloseHandle
<1>20. ASSUME NEW e \in ECs, CloseSkips(e) PROVE ObjectsUnique'
  BY <1>20 DEF CloseSkips
<1>21. ASSUME NEW e \in ECs, CloseBegins(e) PROVE ObjectsUnique'
  BY <1>21 DEF CloseBegins, CloseHandle
<1>22. CASE ClosePool
  BY <1>22 DEF ClosePool
<1>23. CASE CloseEnds
  BY <1>23 DEF CloseEnds
<1>24. CASE Exit
  BY <1>24 DEF Exit
<1>25. CASE MapRace
  BY <1>25 DEF MapRace
<1>26. CASE UNCHANGED vars
  BY <1>26 DEF vars
<1> QED
  BY <1>1, <1>2, <1>3, <1>4, <1>5, <1>6, <1>7, <1>8, <1>9, <1>10, <1>11, <1>12, <1>13, <1>14,
     <1>15, <1>16, <1>17, <1>18, <1>19, <1>20, <1>21, <1>22, <1>23, <1>24, <1>25, <1>26
     DEF Next, GetStep, PutStep, ClosePoolStep

(* A goroutine parks at an empty channel only.                             *)
LEMMA HandoverStep == IInv /\ [Next]_vars => Handover'
<1> SUFFICES ASSUME IInv, [Next]_vars PROVE Handover'
  OBVIOUS
<1> USE PoolAssumption DEF IInv, TypeOK, Possession, HoldsObject, LockOwners, HoldsMu,
   HoldsMutex, Handover, PoolOwnsDatabase, clientVars, lockVars, dbVars, mainVars, At, Goto,
   Alive
<1>1. ASSUME NEW c \in Clients, NEW e \in ECs, CallGet(c, e) PROVE Handover'
  BY <1>1 DEF CallGet
<1>2. ASSUME NEW c \in Clients, LockMutexPut(c) PROVE Handover'
  BY <1>2 DEF LockMutexPut
<1>3. ASSUME NEW c \in Clients, FindOrCreate(c) PROVE Handover'
  BY <1>3 DEF FindOrCreate
<1>4. ASSUME NEW c \in Clients, GetLockMu(c) PROVE Handover'
  BY <1>4 DEF GetLockMu
<1>5. ASSUME NEW c \in Clients, Receive(c) PROVE Handover'
  BY <1>5 DEF Receive
<1>6. ASSUME NEW c \in Clients, Park(c) PROVE Handover'
  BY <1>6 DEF Park
<1>7. ASSUME NEW c \in Clients, CheckDb(c) PROVE Handover'
  BY <1>7 DEF CheckDb
<1>8. ASSUME NEW c \in Clients, OpenOk(c) PROVE Handover'
  BY <1>8 DEF OpenOk, FreeHandles
<1>9. ASSUME NEW c \in Clients, OpenFail(c) PROVE Handover'
  BY <1>9 DEF OpenFail
<1>10. ASSUME NEW c \in Clients, Assign(c) PROVE Handover'
  BY <1>10 DEF Assign
<1>11. ASSUME NEW c \in Clients, CallPut(c) PROVE Handover'
  BY <1>11 DEF CallPut
<1>12. ASSUME NEW c \in Clients, LockMutex(c) PROVE Handover'
  BY <1>12 DEF LockMutex
<1>13. ASSUME NEW c \in Clients, FindAndClear(c) PROVE Handover'
  BY <1>13 DEF FindAndClear
<1>14. ASSUME NEW c \in Clients, HandOver(c) PROVE Handover'
  BY <1>14 DEF HandOver, Waiters
<1>15. ASSUME NEW c \in Clients, Store(c) PROVE Handover'
  BY <1>15 DEF Store, Waiters
<1>16. ASSUME NEW c \in Clients, PutReturns(c) PROVE Handover'
  BY <1>16 DEF PutReturns, IsFull
<1>17. ASSUME NEW c \in Clients, PutSeesFull(c) PROVE Handover'
  BY <1>17 DEF PutSeesFull, IsFull
<1>18. ASSUME NEW c \in Clients, PutLockMu(c) PROVE Handover'
  BY <1>18 DEF PutLockMu
<1>19. ASSUME NEW c \in Clients, PutCloses(c) PROVE Handover'
  BY <1>19 DEF PutCloses, CloseHandle
<1>20. ASSUME NEW e \in ECs, CloseSkips(e) PROVE Handover'
  BY <1>20 DEF CloseSkips
<1>21. ASSUME NEW e \in ECs, CloseBegins(e) PROVE Handover'
  BY <1>21 DEF CloseBegins, CloseHandle
<1>22. CASE ClosePool
  BY <1>22 DEF ClosePool
<1>23. CASE CloseEnds
  BY <1>23 DEF CloseEnds
<1>24. CASE Exit
  BY <1>24 DEF Exit
<1>25. CASE MapRace
  BY <1>25 DEF MapRace
<1>26. CASE UNCHANGED vars
  BY <1>26 DEF vars
<1> QED
  BY <1>1, <1>2, <1>3, <1>4, <1>5, <1>6, <1>7, <1>8, <1>9, <1>10, <1>11, <1>12, <1>13, <1>14,
     <1>15, <1>16, <1>17, <1>18, <1>19, <1>20, <1>21, <1>22, <1>23, <1>24, <1>25, <1>26
     DEF Next, GetStep, PutStep, ClosePoolStep

(* Who opens or closes a database changes the entry with it.               *)
LEMMA DatabaseStep == IInv /\ [Next]_vars => PoolOwnsDatabase'
<1> SUFFICES ASSUME IInv, [Next]_vars PROVE PoolOwnsDatabase'
  OBVIOUS
<1> USE PoolAssumption DEF IInv, TypeOK, Possession, HoldsObject, LockOwners, HoldsMu,
   HoldsMutex, Handover, PoolOwnsDatabase, clientVars, lockVars, dbVars, mainVars, At, Goto,
   Alive
<1>1. ASSUME NEW c \in Clients, NEW e \in ECs, CallGet(c, e) PROVE PoolOwnsDatabase'
  BY <1>1 DEF CallGet
<1>2. ASSUME NEW c \in Clients, LockMutexPut(c) PROVE PoolOwnsDatabase'
  BY <1>2 DEF LockMutexPut
<1>3. ASSUME NEW c \in Clients, FindOrCreate(c) PROVE PoolOwnsDatabase'
  BY <1>3 DEF FindOrCreate
<1>4. ASSUME NEW c \in Clients, GetLockMu(c) PROVE PoolOwnsDatabase'
  BY <1>4 DEF GetLockMu
<1>5. ASSUME NEW c \in Clients, Receive(c) PROVE PoolOwnsDatabase'
  BY <1>5 DEF Receive
<1>6. ASSUME NEW c \in Clients, Park(c) PROVE PoolOwnsDatabase'
  BY <1>6 DEF Park
<1>7. ASSUME NEW c \in Clients, CheckDb(c) PROVE PoolOwnsDatabase'
  BY <1>7 DEF CheckDb
<1>8. ASSUME NEW c \in Clients, OpenOk(c) PROVE PoolOwnsDatabase'
  <2>1. ec[c] \in ECs /\ db[ec[c]] = Nil /\ closing # ec[c]
    BY <1>8, Inside DEF OpenOk
  <2>2. PICK h \in Handles : /\ db' = [db EXCEPT ![ec[c]] = h]
                             /\ live' = [live EXCEPT ![ec[c]] = {h}]
    BY <1>8 DEF OpenOk, FreeHandles
  <2>3. live'[ec[c]] = {db'[ec[c]]} /\ db'[ec[c]] # Nil
    BY <2>1, <2>2
  <2>4. ASSUME NEW x \in ECs \ {ec[c]}
        PROVE  live'[x] = live[x] /\ db'[x] = db[x]
    BY <2>1, <2>2, <2>4
  <2>5. closing' = closing
    BY <1>8 DEF OpenOk
  <2>6. ASSUME NEW x \in ECs
        PROVE  live'[x] = IF db'[x] = Nil \/ closing' = x THEN {} ELSE {db'[x]}
    <3>1. CASE x = ec[c]
      BY <2>1, <2>3, <2>5, <3>1
    <3>2. CASE x # ec[c]
      <4>1. live[x] = IF db[x] = Nil \/ closing = x THEN {} ELSE {db[x]}
        OBVIOUS
      <4>2. live'[x] = live[x] /\ db'[x] = db[x]
        BY <2>4, <3>2
      <4> QED
        BY <2>5, <4>1, <4>2
    <3> QED
      BY <3>1, <3>2
  <2> QED
    BY <2>6
<1>9. ASSUME NEW c \in Clients, OpenFail(c) PROVE PoolOwnsDatabase'
  BY <1>9 DEF OpenFail
<1>10. ASSUME NEW c \in Clients, Assign(c) PROVE PoolOwnsDatabase'
  BY <1>10 DEF Assign
<1>11. ASSUME NEW c \in Clients, CallPut(c) PROVE PoolOwnsDatabase'
  BY <1>11 DEF CallPut
<1>12. ASSUME NEW c \in Clients, LockMutex(c) PROVE PoolOwnsDatabase'
  BY <1>12 DEF LockMutex
<1>13. ASSUME NEW c \in Clients, FindAndClear(c) PROVE PoolOwnsDatabase'
  BY <1>13 DEF FindAndClear
<1>14. ASSUME NEW c \in Clients, HandOver(c) PROVE PoolOwnsDatabase'
  BY <1>14 DEF HandOver, Waiters
<1>15. ASSUME NEW c \in Clients, Store(c) PROVE PoolOwnsDatabase'
  BY <1>15 DEF Store, Waiters
<1>16. ASSUME NEW c \in Clients, PutReturns(c) PROVE PoolOwnsDatabase'
  BY <1>16 DEF PutReturns, IsFull
<1>17. ASSUME NEW c \in Clients, PutSeesFull(c) PROVE PoolOwnsDatabase'
  BY <1>17 DEF PutSeesFull, IsFull
<1>18. ASSUME NEW c \in Clients, PutLockMu(c) PROVE PoolOwnsDatabase'
  BY <1>18 DEF PutLockMu
<1>19. ASSUME NEW c \in Clients, PutCloses(c) PROVE PoolOwnsDatabase'
  <2>1. ec[c] \in ECs /\ closing = Nil /\ closing' = Nil
    BY <1>19, Inside DEF PutCloses
  <2>2. live'[ec[c]] = {} /\ db'[ec[c]] = Nil
    BY <1>19, <2>1 DEF PutCloses, CloseHandle
  <2>3. ASSUME NEW x \in ECs \ {ec[c]}
        PROVE  live'[x] = live[x] /\ db'[x] = db[x]
    BY <1>19, <2>1, <2>3 DEF PutCloses, CloseHandle
  <2>4. ASSUME NEW x \in ECs
        PROVE  live'[x] = IF db'[x] = Nil \/ closing' = x THEN {} ELSE {db'[x]}
    <3>1. CASE x = ec[c]
      BY <2>1, <2>2, <3>1
    <3>2. CASE x # ec[c]
      <4>1. live[x] = IF db[x] = Nil \/ closing = x THEN {} ELSE {db[x]}
        OBVIOUS
      <4>2. live'[x] = live[x] /\ db'[x] = db[x]
        BY <2>3, <3>2
      <4> QED
        BY <2>1, <4>1, <4>2
    <3> QED
      BY <3>1, <3>2
  <2> QED
    BY <2>4
<1>20. ASSUME NEW e \in ECs, CloseSkips(e) PROVE PoolOwnsDatabase'
  BY <1>20 DEF CloseSkips
<1>21. ASSUME NEW e \in ECs, CloseBegins(e) PROVE PoolOwnsDatabase'
  <2>1. live[e] = {db[e]} /\ closing' = e /\ db' = db
    BY <1>21 DEF CloseBegins
  <2>2. live' = [live EXCEPT ![e] = @ \ {db[e]}]
    BY <1>21 DEF CloseBegins, CloseHandle
  <2>3. live'[e] = {} /\ \A x \in ECs \ {e} : live'[x] = live[x]
    BY <2>1, <2>2
  <2>4. ASSUME NEW x \in ECs
        PROVE  live'[x] = IF db'[x] = Nil \/ closing' = x THEN {} ELSE {db'[x]}
    <3>1. CASE x = e
      BY <2>1, <2>3, <3>1
    <3>2. CASE x # e
      <4>1. live[x] = IF db[x] = Nil \/ closing = x THEN {} ELSE {db[x]}
        OBVIOUS
      <4>2. closing # x /\ closing' # x
        BY <1>21, <2>1, <3>2 DEF CloseBegins
      <4> QED
        BY <2>1, <2>3, <3>2, <4>1, <4>2
    <3> QED
      BY <3>1, <3>2
  <2> QED
    BY <2>4
<1>22. CASE ClosePool
  BY <1>22 DEF ClosePool
<1>23. CASE CloseEnds
  BY <1>23 DEF CloseEnds
<1>24. CASE Exit
  BY <1>24 DEF Exit
<1>25. CASE MapRace
  BY <1>25 DEF MapRace
<1>26. CASE UNCHANGED vars
  BY <1>26 DEF vars
<1> QED
  BY <1>1, <1>2, <1>3, <1>4, <1>5, <1>6, <1>7, <1>8, <1>9, <1>10, <1>11, <1>12, <1>13, <1>14,
     <1>15, <1>16, <1>17, <1>18, <1>19, <1>20, <1>21, <1>22, <1>23, <1>24, <1>25, <1>26
     DEF Next, GetStep, PutStep, ClosePoolStep

(* A Put that fills the channel will look at it.                           *)
LEMMA AttendedStep == IInv /\ [Next]_vars => FullIsAttended'
<1> SUFFICES ASSUME IInv, [Next]_vars PROVE FullIsAttended'
  OBVIOUS
<1> USE PoolAssumption DEF IInv, TypeOK, Possession, HoldsObject, ObjectsUnique,
   FullIsAttended, clientVars, lockVars, dbVars, mainVars, At, Goto, Alive
<1>1. ASSUME NEW c \in Clients, NEW e \in ECs, CallGet(c, e) PROVE FullIsAttended'
  BY <1>1 DEF CallGet
<1>2. ASSUME NEW c \in Clients, LockMutexPut(c) PROVE FullIsAttended'
  BY <1>2 DEF LockMutexPut
<1>3. ASSUME NEW c \in Clients, FindOrCreate(c) PROVE FullIsAttended'
  BY <1>3 DEF FindOrCreate
<1>4. ASSUME NEW c \in Clients, GetLockMu(c) PROVE FullIsAttended'
  BY <1>4 DEF GetLockMu
<1>5. ASSUME NEW c \in Clients, Receive(c) PROVE FullIsAttended'
  BY <1>5 DEF Receive
<1>6. ASSUME NEW c \in Clients, Park(c) PROVE FullIsAttended'
  BY <1>6 DEF Park
<1>7. ASSUME NEW c \in Clients, CheckDb(c) PROVE FullIsAttended'
  BY <1>7 DEF CheckDb
<1>8. ASSUME NEW c \in Clients, OpenOk(c) PROVE FullIsAttended'
  BY <1>8 DEF OpenOk, FreeHandles
<1>9. ASSUME NEW c \in Clients, OpenFail(c) PROVE FullIsAttended'
  BY <1>9 DEF OpenFail
<1>10. ASSUME NEW c \in Clients, Assign(c) PROVE FullIsAttended'
  BY <1>10 DEF Assign
<1>11. ASSUME NEW c \in Clients, CallPut(c) PROVE FullIsAttended'
  BY <1>11 DEF CallPut
<1>12. ASSUME NEW c \in Clients, LockMutex(c) PROVE FullIsAttended'
  BY <1>12 DEF LockMutex
<1>13. ASSUME NEW c \in Clients, FindAndClear(c) PROVE FullIsAttended'
  BY <1>13 DEF FindAndClear
<1>14. ASSUME NEW c \in Clients, HandOver(c) PROVE FullIsAttended'
  BY <1>14 DEF HandOver, Waiters
<1>15. ASSUME NEW c \in Clients, Store(c) PROVE FullIsAttended'
  BY <1>15 DEF Store, Waiters
<1>16. ASSUME NEW c \in Clients, PutReturns(c) PROVE FullIsAttended'
  BY <1>16 DEF PutReturns, IsFull
<1>17. ASSUME NEW c \in Clients, PutSeesFull(c) PROVE FullIsAttended'
  BY <1>17 DEF PutSeesFull, IsFull
<1>18. ASSUME NEW c \in Clients, PutLockMu(c) PROVE FullIsAttended'
  BY <1>18 DEF PutLockMu
<1>19. ASSUME NEW c \in Clients, PutCloses(c) PROVE FullIsAttended'
  BY <1>19 DEF PutCloses, CloseHandle
<1>20. ASSUME NEW e \in ECs, CloseSkips(e) PROVE FullIsAttended'
  BY <1>20 DEF CloseSkips
<1>21. ASSUME NEW e \in ECs, CloseBegins(e) PROVE FullIsAttended'
  BY <1>21 DEF CloseBegins, CloseHandle
<1>22. CASE ClosePool
  BY <1>22 DEF ClosePool
<1>23. CASE CloseEnds
  BY <1>23 DEF CloseEnds
<1>24. CASE Exit
  BY <1>24 DEF Exit
<1>25. CASE MapRace
  BY <1>25 DEF MapRace
<1>26. CASE UNCHANGED vars
  BY <1>26 DEF vars
<1> QED
  BY <1>1, <1>2, <1>3, <1>4, <1>5, <1>6, <1>7, <1>8, <1>9, <1>10, <1>11, <1>12, <1>13, <1>14,
     <1>15, <1>16, <1>17, <1>18, <1>19, <1>20, <1>21, <1>22, <1>23, <1>24, <1>25, <1>26
     DEF Next, GetStep, PutStep, ClosePoolStep

(* Every step keeps the invariant.                                         *)
LEMMA StepIInv == IInv /\ [Next]_vars => IInv'
BY TypeStep, PossessionStep, LockStep, UniqueStep, HandoverStep, DatabaseStep,
   AttendedStep DEF IInv

(* IInv holds in every reachable state. *)
THEOREM Inductive == Spec => []IInv
<1>1. IInv /\ [Next]_vars => IInv'
  BY StepIInv
<1> QED
  BY InitIInv, <1>1, PTL DEF Spec

-----------------------------------------------------------------------------
(* Every variable of the pool keeps its type (pool.go, all of it). *)
THEOREM TypeCorrect == Spec => []TypeOK
<1>1. IInv => TypeOK
  BY DEF IInv
<1> QED
  BY Inductive, <1>1, PTL

(* Two goroutines never hold the same pool object, and an object in a      *)
(* goroutine's hands is not in its channel (DbPoolObject.Get and Put).     *)
THEOREM UniqueObjects == Spec => []ObjectsUnique
<1>1. IInv => ObjectsUnique
  BY DEF IInv
<1> QED
  BY Inductive, <1>1, PTL

(* However Get, Put and ClosePool interleave, and whichever of the calls   *)
(* into badger fail, a database is open exactly when dpo.db is its handle. *)
THEOREM DatabaseOwned == Spec => []PoolOwnsDatabase
<1>1. IInv => PoolOwnsDatabase
  BY DEF IInv
<1> QED
  BY Inductive, <1>1, PTL

(* DbPoolObject.Put never takes its early return (79-82). *)
THEOREM PutNeverNeedless == Spec => []NeverNeedless
<1>1. IInv => NeverNeedless
  BY DEF IInv, TypeOK, Possession, HoldsObject, ObjectsUnique, NeverNeedless
<1> QED
  BY Inductive, <1>1, PTL

(* A community whose objects are all back, with nobody inside the pool,    *)
(* has its database closed: closing on idle is never forgotten.            *)
THEOREM IdleDatabaseClosed == Spec => []FullIsClosed
<1>1. IInv => FullIsClosed
  BY DEF IInv, FullIsAttended, FullIsClosed
<1> QED
  BY Inductive, <1>1, PTL

(* The pool never loses track of a database, whatever interleaves and      *)
(* whichever calls into badger fail (DbPoolObject.Get, Put and close).     *)
THEOREM Consistent == Spec => []PoolConsistent
  BY DatabaseOwned, PutNeverNeedless, IdleDatabaseClosed, PTL DEF PoolConsistent

(* OpenStorage's critical section and the closing of a database exclude    *)
(* each other per community: dpo.mu guards dpo.db.                         *)
THEOREM ExclusivePerCommunity == Spec => []MuExclusion
<1>1. IInv => MuExclusion
  BY DEF IInv, TypeOK, LockOwners, HoldsMu, MuExclusion, InGet
<1> QED
  BY Inductive, <1>1, PTL

-----------------------------------------------------------------------------
(* The end of the process.  ClosePool visits the communities in the map at *)
(* the time it begins; a database it will not visit any more, or opened    *)
(* behind its back, belongs to a goroutine that is still inside the pool:  *)
(* it cannot leave, as main() has Pool.mutex.                              *)

HasEntry == {"getDpo", "recv", "parked", "check", "open"}

Visited ==
  /\ \A e \in ECs : db[e] # Nil => e \in known
  /\ \A c \in Clients : pc[c] \in HasEntry => ec[c] \in known
  /\ main \in {"closing", "exited"} =>
       \A e \in ECs : db[e] # Nil =>
         e \in todo \/ closing = e \/ \E c \in Clients : ec[c] = e
  /\ main = "exited" => todo = {} /\ closing = Nil

(* ClosePool visits all communities and misses none.                       *)
LEMMA VisitedStep == IInv /\ Visited /\ [Next]_vars => Visited'
<1> SUFFICES ASSUME IInv /\ Visited, [Next]_vars PROVE Visited'
  OBVIOUS
<1> USE PoolAssumption DEF IInv, TypeOK, Possession, HoldsObject, LockOwners, HoldsMutex,
   Handover, Visited, HasEntry, clientVars, lockVars, dbVars, mainVars, At, Goto, Alive
<1>1. ASSUME NEW c \in Clients, NEW e \in ECs, CallGet(c, e) PROVE Visited'
  BY <1>1 DEF CallGet
<1>2. ASSUME NEW c \in Clients, LockMutexPut(c) PROVE Visited'
  BY <1>2 DEF LockMutexPut
<1>3. ASSUME NEW c \in Clients, FindOrCreate(c) PROVE Visited'
  BY <1>3 DEF FindOrCreate
<1>4. ASSUME NEW c \in Clients, GetLockMu(c) PROVE Visited'
  BY <1>4 DEF GetLockMu
<1>5. ASSUME NEW c \in Clients, Receive(c) PROVE Visited'
  BY <1>5 DEF Receive
<1>6. ASSUME NEW c \in Clients, Park(c) PROVE Visited'
  BY <1>6 DEF Park
<1>7. ASSUME NEW c \in Clients, CheckDb(c) PROVE Visited'
  BY <1>7 DEF CheckDb
<1>8. ASSUME NEW c \in Clients, OpenOk(c) PROVE Visited'
  BY <1>8 DEF OpenOk, FreeHandles
<1>9. ASSUME NEW c \in Clients, OpenFail(c) PROVE Visited'
  BY <1>9 DEF OpenFail
<1>10. ASSUME NEW c \in Clients, Assign(c) PROVE Visited'
  BY <1>10 DEF Assign
<1>11. ASSUME NEW c \in Clients, CallPut(c) PROVE Visited'
  BY <1>11 DEF CallPut
<1>12. ASSUME NEW c \in Clients, LockMutex(c) PROVE Visited'
  BY <1>12 DEF LockMutex
<1>13. ASSUME NEW c \in Clients, FindAndClear(c) PROVE Visited'
  BY <1>13 DEF FindAndClear
<1>14. ASSUME NEW c \in Clients, HandOver(c) PROVE Visited'
  BY <1>14 DEF HandOver, Waiters
<1>15. ASSUME NEW c \in Clients, Store(c) PROVE Visited'
  BY <1>15 DEF Store, Waiters
<1>16. ASSUME NEW c \in Clients, PutReturns(c) PROVE Visited'
  BY <1>16 DEF PutReturns, IsFull
<1>17. ASSUME NEW c \in Clients, PutSeesFull(c) PROVE Visited'
  BY <1>17 DEF PutSeesFull, IsFull
<1>18. ASSUME NEW c \in Clients, PutLockMu(c) PROVE Visited'
  BY <1>18 DEF PutLockMu
<1>19. ASSUME NEW c \in Clients, PutCloses(c) PROVE Visited'
  BY <1>19 DEF PutCloses, CloseHandle
<1>20. ASSUME NEW e \in ECs, CloseSkips(e) PROVE Visited'
  BY <1>20 DEF CloseSkips
<1>21. ASSUME NEW e \in ECs, CloseBegins(e) PROVE Visited'
  BY <1>21 DEF CloseBegins, CloseHandle
<1>22. CASE ClosePool
  BY <1>22 DEF ClosePool
<1>23. CASE CloseEnds
  BY <1>23 DEF CloseEnds
<1>24. CASE Exit
  BY <1>24 DEF Exit
<1>25. CASE MapRace
  BY <1>25 DEF MapRace
<1>26. CASE UNCHANGED vars
  BY <1>26 DEF vars
<1> QED
  BY <1>1, <1>2, <1>3, <1>4, <1>5, <1>6, <1>7, <1>8, <1>9, <1>10, <1>11, <1>12, <1>13,
     <1>14, <1>15, <1>16, <1>17, <1>18, <1>19, <1>20, <1>21, <1>22, <1>23, <1>24, <1>25, <1>26
     DEF Next, GetStep, PutStep, ClosePoolStep

(* A database that is open when the process ends belongs to a goroutine    *)
(* inside the pool: neither ClosePool nor a lost object has left one open, *)
(* whatever the goroutines did meanwhile (Pool.Close, server.go 120).      *)
THEOREM ExitIsClean == Spec => []CleanExit
<1>1. Init => Visited
  BY DEF Init, Visited, HasEntry
<1>2. IInv /\ Visited /\ [Next]_vars => Visited'
  BY VisitedStep
<1>3. IInv /\ Visited => CleanExit
  BY DEF IInv, TypeOK, Possession, PoolOwnsDatabase, Visited, CleanExit
<1> QED
  BY Inductive, <1>1, <1>2, <1>3, PTL DEF Spec

-----------------------------------------------------------------------------
(* Without failures no object is ever lost.                                *)
Unharmed ==
  /\ stuck = {}
  /\ \A e \in ECs : \A s \in Slots :
       s \in pool[e] \/ \E c \in Clients : ec[c] = e /\ obj[c] = s

(* Where no open fails, no step loses an object.                           *)
LEMMA UnharmedStep == Faults = {} /\ IInv /\ Unharmed /\ [Next]_vars => Unharmed'
<1> SUFFICES ASSUME Faults = {} /\ IInv /\ Unharmed, [Next]_vars PROVE Unharmed'
  OBVIOUS
<1> USE PoolAssumption DEF IInv, TypeOK, Possession, HoldsObject, Unharmed, clientVars,
   lockVars, dbVars, mainVars, At, Goto, Alive
<1>1. ASSUME NEW c \in Clients, NEW e \in ECs, CallGet(c, e) PROVE Unharmed'
  BY <1>1 DEF CallGet
<1>2. ASSUME NEW c \in Clients, LockMutexPut(c) PROVE Unharmed'
  BY <1>2 DEF LockMutexPut
<1>3. ASSUME NEW c \in Clients, FindOrCreate(c) PROVE Unharmed'
  BY <1>3 DEF FindOrCreate
<1>4. ASSUME NEW c \in Clients, GetLockMu(c) PROVE Unharmed'
  BY <1>4 DEF GetLockMu
<1>5. ASSUME NEW c \in Clients, Receive(c) PROVE Unharmed'
  BY <1>5 DEF Receive
<1>6. ASSUME NEW c \in Clients, Park(c) PROVE Unharmed'
  BY <1>6 DEF Park
<1>7. ASSUME NEW c \in Clients, CheckDb(c) PROVE Unharmed'
  BY <1>7 DEF CheckDb
<1>8. ASSUME NEW c \in Clients, OpenOk(c) PROVE Unharmed'
  BY <1>8 DEF OpenOk, FreeHandles
<1>9. ASSUME NEW c \in Clients, OpenFail(c) PROVE Unharmed'
  <2>1. ec[c] \in ECs /\ pc[c] = "open"
    BY <1>9, Inside DEF OpenFail
  <2>2. live[ec[c]] = {} /\ ec[c] \notin stuck
    BY <2>1 DEF Handover, PoolOwnsDatabase
  <2> QED
    BY <1>9, <2>2 DEF OpenFail
<1>10. ASSUME NEW c \in Clients, Assign(c) PROVE Unharmed'
  BY <1>10 DEF Assign
<1>11. ASSUME NEW c \in Clients, CallPut(c) PROVE Unharmed'
  BY <1>11 DEF CallPut
<1>12. ASSUME NEW c \in Clients, LockMutex(c) PROVE Unharmed'
  BY <1>12 DEF LockMutex
<1>13. ASSUME NEW c \in Clients, FindAndClear(c) PROVE Unharmed'
  BY <1>13 DEF FindAndClear
<1>14. ASSUME NEW c \in Clients, HandOver(c) PROVE Unharmed'
  BY <1>14 DEF HandOver, Waiters
<1>15. ASSUME NEW c \in Clients, Store(c) PROVE Unharmed'
  BY <1>15 DEF Store, Waiters
<1>16. ASSUME NEW c \in Clients, PutReturns(c) PROVE Unharmed'
  BY <1>16 DEF PutReturns, IsFull
<1>17. ASSUME NEW c \in Clients, PutSeesFull(c) PROVE Unharmed'
  BY <1>17 DEF PutSeesFull, IsFull
<1>18. ASSUME NEW c \in Clients, PutLockMu(c) PROVE Unharmed'
  BY <1>18 DEF PutLockMu
<1>19. ASSUME NEW c \in Clients, PutCloses(c) PROVE Unharmed'
  BY <1>19 DEF PutCloses, CloseHandle
<1>20. ASSUME NEW e \in ECs, CloseSkips(e) PROVE Unharmed'
  BY <1>20 DEF CloseSkips
<1>21. ASSUME NEW e \in ECs, CloseBegins(e) PROVE Unharmed'
  BY <1>21 DEF CloseBegins, CloseHandle
<1>22. CASE ClosePool
  BY <1>22 DEF ClosePool
<1>23. CASE CloseEnds
  BY <1>23 DEF CloseEnds
<1>24. CASE Exit
  BY <1>24 DEF Exit
<1>25. CASE MapRace
  BY <1>25 DEF MapRace
<1>26. CASE UNCHANGED vars
  BY <1>26 DEF vars
<1> QED
  BY <1>1, <1>2, <1>3, <1>4, <1>5, <1>6, <1>7, <1>8, <1>9, <1>10, <1>11, <1>12, <1>13,
     <1>14, <1>15, <1>16, <1>17, <1>18, <1>19, <1>20, <1>21, <1>22, <1>23, <1>24, <1>25, <1>26
     DEF Next, GetStep, PutStep, ClosePoolStep

(* If no call into badger fails, every object is in its channel or with a  *)
(* goroutine: Get and Put lose none (DbPoolObject.Get and Put).            *)
THEOREM NoneLost ==
  ASSUME Faults = {}
  PROVE  Spec => [](Lost = {})
<1>1. Init => Unharmed
  BY DEF Init, Unharmed
<1>2. IInv /\ Unharmed /\ [Next]_vars => Unharmed'
  BY UnharmedStep
<1>3. Unharmed => Lost = {}
  <2> SUFFICES ASSUME Unharmed, NEW e \in ECs, NEW s \in Slots, s \notin pool[e]
               PROVE  \E c \in Clients : <<e, s, c>> \in HeldLeases
    BY DEF Lost
  <2>1. PICK c \in Clients : ec[c] = e /\ obj[c] = s
    BY DEF Unharmed
  <2> QED
    BY <2>1 DEF HeldLeases
<1> QED
  BY Inductive, <1>1, <1>2, <1>3, PTL DEF Spec

-----------------------------------------------------------------------------
(* The refinement of StorageLease.                                         *)

(* A lease is an object in the hands of a goroutine.                       *)
LEMMA HeldMembership ==
  ASSUME NEW e \in ECs, NEW s \in Slots, NEW c \in Clients
  PROVE  <<e, s, c>> \in HeldLeases <=> ec[c] = e /\ obj[c] = s
BY DEF HeldLeases

(* A step that moves no object and opens or closes no database.            *)
LEMMA NothingLeased ==
  ASSUME pool' = pool, live' = live,
         \A c \in Clients : \/ obj[c] = Nil /\ obj'[c] = Nil
                            \/ obj'[c] = obj[c] /\ ec'[c] = ec[c]
  PROVE  UNCHANGED <<HeldLeases, Lost, OpenECs>>
<1>1. HeldLeases' = HeldLeases
  BY PoolAssumption DEF HeldLeases
<1>2. Lost' = Lost
  BY <1>1 DEF Lost
<1> QED
  BY <1>1, <1>2 DEF OpenECs

(* Every step of the pool is a step of StorageLease or a stutter.          *)
LEMMA LeaseStep ==
  IInv /\ IInv' /\ [Next]_vars => [Lease!LeaseNext]_(Lease!leaseVars)
<1> SUFFICES ASSUME IInv, IInv', [Next]_vars
             PROVE  [Lease!LeaseNext]_(Lease!leaseVars)
  OBVIOUS
<1> DEFINE Stutter == UNCHANGED <<HeldLeases, Lost, OpenECs>>
<1>a. ASSUME Stutter PROVE [Lease!LeaseNext]_(Lease!leaseVars)
  BY <1>a DEF Lease!leaseVars
<1> USE PoolAssumption DEF clientVars, lockVars, dbVars, mainVars, At, Goto, Alive
<1> HIDE DEF Stutter
<1>1. ASSUME NEW c \in Clients, NEW e \in ECs, CallGet(c, e)
      PROVE  [Lease!LeaseNext]_(Lease!leaseVars)
  <2>1. Stutter
    BY <1>1, NothingLeased DEF CallGet, IInv, TypeOK, Possession, HoldsObject, Stutter
  <2> QED
    BY <2>1, <1>a
<1>2. ASSUME NEW c \in Clients, LockMutexPut(c) PROVE [Lease!LeaseNext]_(Lease!leaseVars)
  <2>1. Stutter
    BY <1>2, NothingLeased DEF LockMutexPut, IInv, TypeOK, Possession, HoldsObject, Stutter
  <2> QED
    BY <2>1, <1>a
<1>3. ASSUME NEW c \in Clients, FindOrCreate(c) PROVE [Lease!LeaseNext]_(Lease!leaseVars)
  <2>1. Stutter
    BY <1>3, NothingLeased DEF FindOrCreate, IInv, TypeOK, Possession, HoldsObject, Stutter
  <2> QED
    BY <2>1, <1>a
<1>4. ASSUME NEW c \in Clients, GetLockMu(c) PROVE [Lease!LeaseNext]_(Lease!leaseVars)
  <2>1. Stutter
    BY <1>4, NothingLeased DEF GetLockMu, IInv, TypeOK, Possession, HoldsObject, Stutter
  <2> QED
    BY <2>1, <1>a
<1>5. ASSUME NEW c \in Clients, Park(c) PROVE [Lease!LeaseNext]_(Lease!leaseVars)
  <2>1. Stutter
    BY <1>5, NothingLeased DEF Park, IInv, TypeOK, Possession, HoldsObject, Stutter
  <2> QED
    BY <2>1, <1>a
<1>6. ASSUME NEW c \in Clients, CheckDb(c) PROVE [Lease!LeaseNext]_(Lease!leaseVars)
  <2>1. Stutter
    BY <1>6, NothingLeased DEF CheckDb, IInv, TypeOK, Possession, HoldsObject, Stutter
  <2> QED
    BY <2>1, <1>a
<1>7. ASSUME NEW c \in Clients, Assign(c) PROVE [Lease!LeaseNext]_(Lease!leaseVars)
  <2>1. Stutter
    BY <1>7, NothingLeased DEF Assign, IInv, TypeOK, Possession, HoldsObject, Stutter
  <2> QED
    BY <2>1, <1>a
<1>8. ASSUME NEW c \in Clients, CallPut(c) PROVE [Lease!LeaseNext]_(Lease!leaseVars)
  <2>1. Stutter
    BY <1>8, NothingLeased DEF CallPut, IInv, TypeOK, Possession, HoldsObject, Stutter
  <2> QED
    BY <2>1, <1>a
<1>9. ASSUME NEW c \in Clients, LockMutex(c) PROVE [Lease!LeaseNext]_(Lease!leaseVars)
  <2>1. Stutter
    BY <1>9, NothingLeased DEF LockMutex, IInv, TypeOK, Possession, HoldsObject, Stutter
  <2> QED
    BY <2>1, <1>a
<1>10. ASSUME NEW c \in Clients, FindAndClear(c) PROVE [Lease!LeaseNext]_(Lease!leaseVars)
  <2>1. Stutter
    BY <1>10, NothingLeased DEF FindAndClear, IInv, TypeOK, Possession, HoldsObject, Stutter
  <2> QED
    BY <2>1, <1>a
<1>11. ASSUME NEW c \in Clients, PutReturns(c) PROVE [Lease!LeaseNext]_(Lease!leaseVars)
  <2>1. Stutter
    BY <1>11, NothingLeased DEF PutReturns, IInv, TypeOK, Possession, HoldsObject, Stutter
  <2> QED
    BY <2>1, <1>a
<1>12. ASSUME NEW c \in Clients, PutSeesFull(c) PROVE [Lease!LeaseNext]_(Lease!leaseVars)
  <2>1. Stutter
    BY <1>12, NothingLeased DEF PutSeesFull, IInv, TypeOK, Possession, HoldsObject, Stutter
  <2> QED
    BY <2>1, <1>a
<1>13. ASSUME NEW c \in Clients, PutLockMu(c) PROVE [Lease!LeaseNext]_(Lease!leaseVars)
  <2>1. Stutter
    BY <1>13, NothingLeased DEF PutLockMu, IInv, TypeOK, Possession, HoldsObject, Stutter
  <2> QED
    BY <2>1, <1>a
<1>14. ASSUME NEW c \in Clients, Receive(c) PROVE [Lease!LeaseNext]_(Lease!leaseVars)
  <2>1. ec[c] \in ECs /\ obj[c] = Nil
    BY <1>14, Inside DEF Receive, IInv, Possession, HoldsObject
  <2>2. PICK s \in pool[ec[c]] : /\ obj' = [obj EXCEPT ![c] = s]
                                /\ pool' = [pool EXCEPT ![ec[c]] = @ \ {s}]
    BY <1>14 DEF Receive
  <2>3. s \in Slots /\ s # Nil
    BY <2>1, <2>2 DEF IInv, TypeOK
  <2>4. ~Lease!Leased(ec[c], s)
    <3> SUFFICES ASSUME NEW d \in Clients, <<ec[c], s, d>> \in HeldLeases
                 PROVE  FALSE
      BY DEF Lease!Leased
    <3>1. ec[d] = ec[c] /\ obj[d] = s
      BY <2>1, <2>3, HeldMembership
    <3> QED
      BY <2>2, <2>3, <3>1 DEF IInv, ObjectsUnique
  <2>5. <<ec[c], s>> \notin Lost
    BY <2>2 DEF Lost
  <2>6. ~Lease!Holds(c)
    BY <2>1, HeldMembership, ZenonT(40) DEF Lease!Holds
  <2>7. HeldLeases' = HeldLeases \cup {<<ec[c], s, c>>}
    BY <1>14, <2>1, <2>2, <2>3 DEF Receive, HeldLeases, IInv, TypeOK
  <2>8. Lost' = Lost
    <3> SUFFICES ASSUME NEW f \in ECs, NEW t \in Slots
                 PROVE  <<f, t>> \in Lost' <=> <<f, t>> \in Lost
      BY DEF Lost
    <3>1. CASE f = ec[c] /\ t = s
      BY <2>2, <2>7, <3>1 DEF Lost
    <3>2. CASE ~(f = ec[c] /\ t = s)
      <4>1. t \in pool'[f] <=> t \in pool[f]
        BY <2>1, <2>2, <3>2 DEF IInv, TypeOK
      <4>2. \A d \in Clients : <<f, t, d>> \in HeldLeases' <=> <<f, t, d>> \in HeldLeases
        BY <2>7, <3>2
      <4> QED
        BY <4>1, <4>2 DEF Lost
    <3> QED
      BY <3>1, <3>2
  <2>9. OpenECs' = OpenECs
    BY <1>14 DEF Receive, OpenECs
  <2>10. Lease!Take(ec[c], s, c)
    BY <2>4, <2>5, <2>6, <2>7, <2>8, <2>9 DEF Lease!Take
  <2> QED
    BY <2>1, <2>3, <2>10 DEF Lease!LeaseNext
<1>15. ASSUME NEW c \in Clients, OpenOk(c) PROVE [Lease!LeaseNext]_(Lease!leaseVars)
  <2>1. ec[c] \in ECs /\ obj[c] \in Slots
    BY <1>15, Inside DEF OpenOk, IInv, TypeOK, Possession, HoldsObject
  <2>2. ec[c] \notin OpenECs
    BY <1>15 DEF OpenOk, OpenECs
  <2>3. \E s \in Slots : Lease!Leased(ec[c], s)
    BY <2>1, HeldMembership DEF Lease!Leased
  <2>4. OpenECs' = OpenECs \cup {ec[c]}
    BY <1>15, <2>1, SMTT(30) DEF OpenOk, OpenECs, IInv, TypeOK
  <2>5. UNCHANGED <<HeldLeases, Lost>>
    BY <1>15 DEF OpenOk, HeldLeases, Lost
  <2>6. Lease!Open(ec[c])
    BY <2>2, <2>3, <2>4, <2>5 DEF Lease!Open
  <2> QED
    BY <2>1, <2>6 DEF Lease!LeaseNext
<1>16. ASSUME NEW c \in Clients, OpenFail(c) PROVE [Lease!LeaseNext]_(Lease!leaseVars)
  <2>1. ec[c] \in ECs /\ obj[c] \in Slots
    BY <1>16, Inside DEF OpenFail, IInv, TypeOK, Possession, HoldsObject
  <2>2. <<ec[c], obj[c], c>> \in HeldLeases
    BY <2>1, HeldMembership
  <2>3. ec[c] \notin OpenECs
    BY <1>16, <2>1 DEF OpenFail, OpenECs, IInv, Handover, PoolOwnsDatabase
  <2>4. HeldLeases' = HeldLeases \ {<<ec[c], obj[c], c>>}
    BY <1>16, <2>1 DEF OpenFail, HeldLeases, IInv, TypeOK
  <2>5. Lost' = Lost \cup {<<ec[c], obj[c]>>}
    <3>1. pool' = pool /\ obj[c] \notin pool[ec[c]]
      BY <1>16, <2>1 DEF OpenFail, IInv, ObjectsUnique
    <3>2. \A d \in Clients \ {c} : <<ec[c], obj[c], d>> \notin HeldLeases
      BY <2>1, HeldMembership DEF IInv, ObjectsUnique
    <3> QED
      BY <2>1, <2>4, <3>1, <3>2 DEF Lost
  <2>6. OpenECs' = OpenECs
    BY <1>16 DEF OpenFail, OpenECs
  <2>7. Lease!Lose(ec[c], obj[c], c)
    BY <2>2, <2>3, <2>4, <2>5, <2>6 DEF Lease!Lose
  <2> QED
    BY <2>1, <2>7 DEF Lease!LeaseNext
<1>17. ASSUME NEW c \in Clients, HandOver(c) PROVE [Lease!LeaseNext]_(Lease!leaseVars)
  <2>1. ec[c] \in ECs /\ obj[c] \in Slots
    BY <1>17, Inside DEF HandOver, IInv, TypeOK, Possession, HoldsObject
  <2>2. PICK w \in Clients :
          /\ pc[w] = "parked" /\ ec[w] = ec[c]
          /\ obj' = [obj EXCEPT ![c] = Nil, ![w] = obj[c]]
    BY <1>17 DEF HandOver, Waiters
  <2>3. w # c /\ obj[w] = Nil
    BY <1>17, <2>2 DEF HandOver, IInv, Possession, HoldsObject
  <2>4. <<ec[c], obj[c], c>> \in HeldLeases
    BY <2>1, HeldMembership
  <2>5. ~Lease!Holds(w)
    <3>1. \A s \in Slots : obj[w] # s
      BY <2>3, PoolAssumption
    <3>2. \A e \in ECs, s \in Slots : <<e, s, w>> \notin HeldLeases
      BY <3>1, HeldMembership
    <3> QED
      BY <3>2 DEF Lease!Holds
  <2>6. HeldLeases' = (HeldLeases \ {<<ec[c], obj[c], c>>})
                        \cup {<<ec[c], obj[c], w>>}
    BY <1>17, <2>1, <2>2, <2>3 DEF HandOver, HeldLeases, IInv, TypeOK
  <2>7. Lost' = Lost
    BY <1>17, <2>1, <2>4, <2>6 DEF HandOver, Lost
  <2>8. OpenECs' = OpenECs
    BY <1>17 DEF HandOver, OpenECs
  <2>9. Lease!PassOn(ec[c], obj[c], c, w)
    BY <2>4, <2>5, <2>6, <2>7, <2>8 DEF Lease!PassOn
  <2> QED
    BY <2>1, <2>9 DEF Lease!LeaseNext
<1>18. ASSUME NEW c \in Clients, Store(c) PROVE [Lease!LeaseNext]_(Lease!leaseVars)
  <2>1. ec[c] \in ECs /\ obj[c] \in Slots
    BY <1>18, Inside DEF Store, IInv, TypeOK, Possession, HoldsObject
  <2>2. <<ec[c], obj[c], c>> \in HeldLeases
    BY <2>1, HeldMembership
  <2>3. HeldLeases' = HeldLeases \ {<<ec[c], obj[c], c>>}
    BY <1>18, <2>1 DEF Store, HeldLeases, IInv, TypeOK
  <2>4. pool' = [pool EXCEPT ![ec[c]] = @ \cup {obj[c]}]
    BY <1>18 DEF Store
  <2>5. Lost' = Lost
    BY <2>1, <2>2, <2>3, <2>4 DEF Lost, IInv, TypeOK
  <2>6. OpenECs' = OpenECs
    BY <1>18 DEF Store, OpenECs
  <2>7. Lease!Return(ec[c], obj[c], c)
    BY <2>2, <2>3, <2>5, <2>6 DEF Lease!Return
  <2> QED
    BY <2>1, <2>7 DEF Lease!LeaseNext
<1>19. ASSUME NEW c \in Clients, PutCloses(c) PROVE [Lease!LeaseNext]_(Lease!leaseVars)
  <2>1. ec[c] \in ECs /\ closing = Nil /\ obj[c] = Nil
    BY <1>19, Inside DEF PutCloses, IInv, Possession, HoldsObject, LockOwners,
                     HoldsMutex, Handover
  <2>2. CASE db[ec[c]] = Nil
    <3>1. live' = live
      BY <1>19, <2>2 DEF PutCloses
    <3>2. Stutter
      BY <1>19, <2>1, <3>1, NothingLeased DEF PutCloses, IInv, TypeOK, Stutter
    <3> QED
      BY <3>2, <1>a
  <2>3. CASE db[ec[c]] # Nil
    <3>1. ec[c] \in OpenECs
      BY <2>1, <2>3, ZenonT(40) DEF OpenECs, IInv, PoolOwnsDatabase
    <3>2. UNCHANGED <<HeldLeases, Lost>>
      <4>1. HeldLeases' = HeldLeases
        BY <1>19, <2>1 DEF PutCloses, HeldLeases, IInv, TypeOK
      <4> QED
        BY <1>19, <4>1 DEF PutCloses, Lost
    <3>3. live' = [live EXCEPT ![ec[c]] = @ \ {db[ec[c]]}]
      BY <1>19, <2>3 DEF PutCloses, CloseHandle
    <3>4. live'[ec[c]] = {}
      BY <2>1, <2>3, <3>3 DEF IInv, TypeOK, PoolOwnsDatabase
    <3>5. OpenECs' = OpenECs \ {ec[c]}
      BY <2>1, <3>3, <3>4 DEF OpenECs, IInv, TypeOK
    <3>6. Lease!Close(ec[c])
      BY <3>1, <3>2, <3>5 DEF Lease!Close
    <3> QED
      BY <2>1, <3>6 DEF Lease!LeaseNext
  <2> QED
    BY <2>2, <2>3
<1>20. ASSUME NEW e \in ECs, CloseBegins(e) PROVE [Lease!LeaseNext]_(Lease!leaseVars)
  <2>1. live[e] = {db[e]} /\ e \in OpenECs
    BY <1>20 DEF CloseBegins, OpenECs, IInv, PoolOwnsDatabase
  <2>2. UNCHANGED <<HeldLeases, Lost>>
    BY <1>20 DEF CloseBegins, HeldLeases, Lost
  <2>3. live' = [live EXCEPT ![e] = @ \ {db[e]}]
    BY <1>20 DEF CloseBegins, CloseHandle
  <2>4. OpenECs' = OpenECs \ {e}
    BY <2>1, <2>3 DEF OpenECs, IInv, TypeOK
  <2>5. Lease!Close(e)
    BY <2>1, <2>2, <2>4 DEF Lease!Close
  <2> QED
    BY <2>5 DEF Lease!LeaseNext
<1>21. ASSUME NEW e \in ECs, CloseSkips(e) PROVE [Lease!LeaseNext]_(Lease!leaseVars)
  <2>1. Stutter
    BY <1>21, NothingLeased DEF CloseSkips, Stutter
  <2> QED
    BY <2>1, <1>a
<1>22. ASSUME ClosePool PROVE [Lease!LeaseNext]_(Lease!leaseVars)
  <2>1. Stutter
    BY <1>22, NothingLeased DEF ClosePool, Stutter
  <2> QED
    BY <2>1, <1>a
<1>23. ASSUME CloseEnds PROVE [Lease!LeaseNext]_(Lease!leaseVars)
  <2>1. Stutter
    BY <1>23, NothingLeased DEF CloseEnds, Stutter
  <2> QED
    BY <2>1, <1>a
<1>24. ASSUME Exit PROVE [Lease!LeaseNext]_(Lease!leaseVars)
  <2>1. Stutter
    BY <1>24, NothingLeased DEF Exit, Stutter
  <2> QED
    BY <2>1, <1>a
<1>25. ASSUME MapRace PROVE [Lease!LeaseNext]_(Lease!leaseVars)
  <2>1. Stutter
    BY <1>25, NothingLeased DEF MapRace, Stutter
  <2> QED
    BY <2>1, <1>a
<1>26. ASSUME UNCHANGED vars PROVE [Lease!LeaseNext]_(Lease!leaseVars)
  <2>1. Stutter
    BY <1>26, NothingLeased DEF vars, Stutter
  <2> QED
    BY <2>1, <1>a
<1> QED
  BY <1>1, <1>2, <1>3, <1>4, <1>5, <1>6, <1>7, <1>8, <1>9, <1>10, <1>11, <1>12, <1>13, <1>14,
     <1>15, <1>16, <1>17, <1>18, <1>19, <1>20, <1>21, <1>22, <1>23, <1>24, <1>25, <1>26
     DEF Next, GetStep, PutStep, ClosePoolStep

(* The pool hands out leases: at most one holder per object and at most    *)
(* one object per goroutine, objects are lost to failed opens only, and a  *)
(* database is opened only for a holder and never twice (pool.go).         *)
THEOREM Refinement == Spec => ImplementsLease
<1>1. Init => Lease!LeaseInit
  <2> SUFFICES ASSUME Init PROVE Lease!LeaseInit
    OBVIOUS
  <2>1. HeldLeases = {}
    BY PoolAssumption DEF Init, HeldLeases
  <2> QED
    BY <2>1 DEF Init, Lost, OpenECs, Lease!LeaseInit
<1>2. IInv /\ IInv' /\ [Next]_vars => [Lease!LeaseNext]_(Lease!leaseVars)
  BY LeaseStep
<1> QED
  BY Inductive, <1>1, <1>2, PTL DEF Spec, ImplementsLease, Lease!LeaseSpec

-----------------------------------------------------------------------------
(* Requests. *)

Statuses ==
  {"OK", "BadRequest", "Unauthorized", "Forbidden", "NotFound", "InternalServerError", "errors"}

Events == {"refused", "overlooked", "failed", "read", "panic"}

Outside == {"free", "received", "master", "store", "answered", "starting", "returned"}

(* A goroutine has no call into the pool outside of these phases. *)
OutsideIdle == \A c \in Clients : phase[c] \in Outside => pc[c] = "idle"

(* What has happened to a request on its way to the storage, ... *)
Begun(c) ==
  /\ req[c] \in Handlers
  /\ answers[c] = <<>>
  /\ did[c] \subseteq {"overlooked"}
  /\ "overlooked" \in did[c] => req[c].params = "url"

(* ... after its query, or the failure to get a storage, ... *)
Queried(c) ==
  /\ req[c] \in Handlers
  /\ answers[c] = <<>>
  /\ \E end \in {"read", "failed", "panic"} : did[c] \in {{end}, {"overlooked", end}}
  /\ "overlooked" \in did[c] => req[c].params = "url"

(* ... and when it has been answered or aborted. *)
Over(c) ==
  /\ req[c] \in Handlers
  /\ did[c] \subseteq Events
  /\ (answers[c] = <<"OK">>) = ("read" \in did[c])
  /\ Len(answers[c]) =
       CASE "panic" \in did[c] -> 0
         [] req[c] = lastRecordDate /\ "failed" \in did[c] -> 2
         [] OTHER -> 1
  /\ "overlooked" \in did[c] => req[c].params = "url"

ProgressOf(c) ==
  /\ phase[c] \in NoRequest => did[c] = {} /\ answers[c] = <<>>
  /\ phase[c] \in {"received", "master", "store", "query"} => Begun(c)
  /\ phase[c] = "received" => did[c] = {}
  /\ phase[c] = "master" => req[c].master
  /\ phase[c] = "closed" => Queried(c)
  /\ phase[c] = "answered" => Over(c)

Progress == \A c \in Clients : ProgressOf(c)

Stopping ==
  /\ server \in {"waiting", "waited"} => \A c \in Clients : phase[c] \in NoRequest
  /\ server = "waited" => \A c \in Clients : phase[c] # "worker"
  /\ main # "running" => server = "waited"

RequestTypes ==
  /\ req \in [Clients -> Handlers \cup {Nil}]
  /\ phase \in [Clients -> Phases]
  /\ did \in [Clients -> SUBSET Events]
  /\ answers \in [Clients -> Seq(Statuses)]
  /\ server \in {"serving", "draining", "waiting", "waited"}

RInv ==
  /\ RequestTypes
  /\ OutsideIdle
  /\ Progress
  /\ Stopping

-----------------------------------------------------------------------------
(* What the router's entries have in common.                               *)

SingleAnswer(h) ==
  /\ h.guard \subseteq {"Forbidden", "Unauthorized", "BadRequest"}
  /\ h.ends \subseteq {"read", "failed", "panic"}
  /\ \E s \in Statuses \ {"OK"} : h.onError = <<s>>

(* However a query ends, the handler comes to its deferred Close.          *)
LEMMA EmptyIsEnds ==
  /\ EmptyIs("read") \subseteq {"read", "failed", "panic"}
  /\ EmptyIs("failed") \subseteq {"read", "failed", "panic"}
BY DEF EmptyIs, EngineQuery

(* The queries of the handlers are read, fail or panic.                    *)
LEMMA QueriesEnd ==
  \A ends \in {EnergyReportV2, EnergySummary, QueryRawData, QueryIntraDayReport,
               QueryLoadCurveReport, QueryCombinedReports, QueryMetaData, GetLastEnergyEntry,
               ExportEnergyToExcel, ExportEnergyDataToMail, EmptyIs("read") \ {"panic"},
               GetLastEnergyEntry \ {"panic"}} :
    ends \subseteq {"read", "failed", "panic"}
BY EmptyIsEnds DEF EnergyReportV2, EnergySummary, QueryRawData, QueryIntraDayReport,
   QueryLoadCurveReport, QueryCombinedReports, QueryMetaData, GetLastEnergyEntry,
   ExportEnergyToExcel, ExportEnergyDataToMail

(* A handler that answers once and returns after an error.                 *)
LEMMA HandlerSingle ==
  ASSUME NEW guard \in {ProtectApp, ProtectApi, GQLProtect}, NEW params, NEW query,
         query \subseteq {"read", "failed", "panic"},
         NEW s \in {"BadRequest", "InternalServerError", "errors"}
  PROVE  SingleAnswer(Handler(guard, params, query, <<s>>))
<1> DEFINE h == Handler(guard, params, query, <<s>>)
<1>1. h.guard = guard /\ h.ends = query /\ h.onError = <<s>>
  BY DEF Handler
<1>2. h.guard \subseteq {"Forbidden", "Unauthorized", "BadRequest"}
  BY <1>1 DEF ProtectApp, ProtectApi, GQLProtect
<1>3. s \in Statuses \ {"OK"}
  BY DEF Statuses
<1> HIDE DEF h
<1>4. SingleAnswer(h)
  BY <1>1, <1>2, <1>3 DEF SingleAnswer
<1> QED
  BY <1>4 DEF h

(* Every handler but one answers a failure with one status that is not OK. *)
LEMMA RouterFacts == \A h \in Routes \ {lastRecordDate} : SingleAnswer(h)
<1>1. SingleAnswer(fetchEnergyReportV2)
  BY QueriesEnd, HandlerSingle DEF fetchEnergyReportV2
<1>2. SingleAnswer(queryMetaData)
  BY QueriesEnd, HandlerSingle DEF queryMetaData
<1>3. SingleAnswer(exportReport)
  BY QueriesEnd, HandlerSingle DEF exportReport
<1>4. SingleAnswer(getLoadCurveReportV2)
  BY QueriesEnd, HandlerSingle DEF getLoadCurveReportV2
<1>5. SingleAnswer(getCombinedReportV2)
  BY QueriesEnd, HandlerSingle DEF getCombinedReportV2
<1>6. SingleAnswer(fetchRawEnergyV2)
  BY QueriesEnd, HandlerSingle DEF fetchRawEnergyV2, JsonReport
<1>7. SingleAnswer(fetchIntraDayReportV2)
  BY QueriesEnd, HandlerSingle DEF fetchIntraDayReportV2, JsonReport
<1>8. SingleAnswer(fetchLoadCurveReportV2)
  BY QueriesEnd, HandlerSingle DEF fetchLoadCurveReportV2, JsonReport
<1>9. SingleAnswer(fetchCombinedReportV2)
  BY QueriesEnd, HandlerSingle DEF fetchCombinedReportV2, JsonReport
<1>10. SingleAnswer(fetchSummaryReportV2)
  BY QueriesEnd, HandlerSingle DEF fetchSummaryReportV2, JsonReport
<1>11. SingleAnswer(exportMeteringData)
  BY QueriesEnd, HandlerSingle DEF exportMeteringData, JsonReport
<1>12. SingleAnswer(SingleUpload)
  BY QueriesEnd, HandlerSingle DEF SingleUpload
<1>13. SingleAnswer(LastEnergyDate)
  BY QueriesEnd, HandlerSingle DEF LastEnergyDate
<1>14. SingleAnswer(queryRawData)
  <2>1. SingleAnswer(Handler(ProtectApi, "checked", QueryRawData, <<"BadRequest">>))
    BY QueriesEnd, HandlerSingle
  <2> QED
    BY <2>1 DEF SingleAnswer, queryRawData, Handler
<1>15. SingleAnswer([queryMetaData EXCEPT !.guard = ProtectApi])
  BY <1>2 DEF SingleAnswer, queryMetaData, Handler, ProtectApi
<1> QED
  BY <1>1, <1>2, <1>3, <1>4, <1>5, <1>6, <1>7, <1>8, <1>9, <1>10, <1>11, <1>12, <1>13,
     <1>14, <1>15 DEF Routes, NewRestServer, InitQueryApiRouter, Resolvers

(* The handler that answers an error and goes on (restServer.go 132-134).  *)
LEMMA LastRecordDateFacts ==
  /\ lastRecordDate.guard \subseteq {"Forbidden", "Unauthorized", "BadRequest"}
  /\ lastRecordDate.ends \subseteq {"read", "failed", "panic"}
  /\ lastRecordDate.onError = <<"NotFound", "OK">>
  /\ lastRecordDate.params = "none"
  /\ lastRecordDate.master = FALSE
BY QueriesEnd DEF lastRecordDate, Handler, ProtectApp

(* What the phases ask of a handler. *)
LEMMA HandlerFacts ==
  ASSUME NEW h \in Handlers
  PROVE  /\ h.guard \subseteq {"Forbidden", "Unauthorized", "BadRequest"}
         /\ h.ends \subseteq {"read", "failed", "panic"}
         /\ h.onError \in Seq(Statuses) /\ h.onError # <<"OK">>
         /\ Len(h.onError) = IF h = lastRecordDate THEN 2 ELSE 1
         /\ h = lastRecordDate => h.params = "none" /\ ~h.master
<1>1. CASE h = lastRecordDate
  <2>1. <<"NotFound", "OK">> \in Seq(Statuses) /\ Len(<<"NotFound", "OK">>) = 2
        /\ Len(<<"OK">>) = 1
    BY DEF Statuses
  <2>2. <<"NotFound", "OK">> # <<"OK">>
    BY <2>1
  <2> QED
    BY <1>1, <2>1, <2>2, LastRecordDateFacts
<1>2. CASE h # lastRecordDate
  <2>1. SingleAnswer(h)
    BY <1>2, RouterFacts, RequestsAssumption
  <2>2. PICK s \in Statuses \ {"OK"} : h.onError = <<s>>
    BY <2>1 DEF SingleAnswer
  <2>3. <<s>> \in Seq(Statuses) /\ Len(<<s>>) = 1
    OBVIOUS
  <2>4. <<s>> # <<"OK">>
    <3>1. <<s>>[1] = s /\ <<"OK">>[1] = "OK"
      OBVIOUS
    <3> QED
      BY <3>1
  <2> QED
    BY <1>2, <2>1, <2>2, <2>3, <2>4 DEF SingleAnswer
<1> QED
  BY <1>1, <1>2

-----------------------------------------------------------------------------
(* Requests and the pool.                                                  *)

(* Every step of the service is one of the pool, or leaves it alone.       *)
LEMMA PoolNext == [RequestsNext]_allVars => [Next]_vars
BY DEF RequestsNext, allVars, requestVars, PoolStep, Accept, RequestStep, WorkerStep, MainStep,
   Refuse,
   ReadParams, RejectParams, MasterAnswers, MasterFails, OpenStorage, StorageMissing, Query,
   Respond, Abort, Finish, WorkerStarts, WorkerAdds, WorkerOpens, WorkerCloses, WorkerReturns,
   Interrupt, Drained, WaitReturns, Stop,
   Next

(* The requests and the workers use the pool as ConnectionPool allows      *)
(* (OpenStorage and the deferred Close of the handlers): whatever is       *)
(* proved of the pool holds of the service.                                *)
THEOREM RequestsUsePool == RequestsSpec => Spec
<1>1. RequestsInit => Init
  BY DEF RequestsInit
<1> QED
  BY <1>1, PoolNext, PTL DEF RequestsSpec, Spec

(* Nobody is taken into the pool by a step of another. *)
LEMMA StaysIdle ==
  ASSUME IInv, NEW c \in Clients, GetStep(c) \/ PutStep(c),
         NEW d \in Clients, pc[d] = "idle"
  PROVE  pc'[d] = "idle"
BY DEF IInv, TypeOK, GetStep, PutStep, LockMutexPut, FindOrCreate, GetLockMu, Receive, Park,
   CheckDb, OpenOk, OpenFail, Assign, LockMutex, FindAndClear, HandOver, Waiters, Store,
   PutReturns, PutSeesFull, PutLockMu, PutCloses, At, Goto

(* Before the first request.                                               *)
LEMMA RequestsInitInv == RequestsInit => RInv
<1> SUFFICES ASSUME RequestsInit PROVE RInv
  OBVIOUS
<1> USE DEF RequestsInit
<1>1. RequestTypes
  <2>1. <<>> \in Seq(Statuses)
    OBVIOUS
  <2> QED
    BY <2>1 DEF RequestTypes, Phases
<1>2. OutsideIdle
  BY DEF OutsideIdle, Init
<1>3. Progress
  BY DEF Progress, ProgressOf
<1>4. Stopping
  BY DEF Stopping, Init
<1> QED
  BY <1>1, <1>2, <1>3, <1>4 DEF RInv

(* A step of the handler of goroutine c: what it leaves alone, and what it *)
(* has to show.                                                            *)
LEMMA HandlerStep ==
  ASSUME IInv, RInv, NEW c \in Clients, NEW from, NEW to \in Phases,
         InPhase(c, from, to), UNCHANGED server,
         server \in {"waiting", "waited"} => from \notin NoRequest \/ to \in NoRequest,
         server = "waited" => to # "worker",
         NEW d \in SUBSET Events,
         did' = [did EXCEPT ![c] = d],
         NEW a \in Seq(Statuses), answers' = [answers EXCEPT ![c] = a],
         NEW r \in Handlers \cup {Nil}, req' = [req EXCEPT ![c] = r],
         ProgressOf(c)',
         main' = main,
         \A x \in Clients \ {c} : pc'[x] = pc[x],
         to \in Outside => pc'[c] = "idle"
  PROVE  RInv'
<1> USE DEF RInv, RequestTypes, InPhase
<1>1. RequestTypes'
  BY DEF RequestTypes
<1>2. OutsideIdle'
  BY DEF OutsideIdle
<1>3. Progress'
  <2> SUFFICES ASSUME NEW x \in Clients, x # c PROVE ProgressOf(x)'
    BY DEF Progress
  <2>1. ProgressOf(x)
    BY DEF Progress
  <2>2. /\ req'[x] = req[x] /\ phase'[x] = phase[x] /\ did'[x] = did[x]
        /\ answers'[x] = answers[x]
    OBVIOUS
  <2> QED
    BY <2>1, <2>2 DEF ProgressOf, Begun, Queried, Over
<1>4. Stopping'
  <2>1. main' = main /\ phase[c] = from /\ phase'[c] = to
    OBVIOUS
  <2>2. \A x \in Clients \ {c} : phase'[x] = phase[x]
    OBVIOUS
  <2>3. server \in {"waiting", "waited"} => to \in NoRequest
    BY <2>1 DEF Stopping
  <2> QED
    BY <2>1, <2>2, <2>3 DEF Stopping
<1> QED
  BY <1>1, <1>2, <1>3, <1>4

(* The three answers that are given before a storage is asked for. *)
LEMMA EarlyAnswer ==
  ASSUME RInv, NEW c \in Clients, phase[c] \in {"received", "master"},
         NEW what \in {"refused", "failed"},
         NEW s \in {"BadRequest", "Forbidden", "Unauthorized"},
         req[c] # lastRecordDate \/ what # "failed",
         phase'[c] = "answered", req'[c] = req[c], did'[c] = did[c] \cup {what},
         answers'[c] = <<s>>
  PROVE  ProgressOf(c)'
<1>1. Begun(c)
  BY DEF RInv, Progress, ProgressOf
<1>2. Len(<<s>>) = 1 /\ <<s>> # <<"OK">>
  <2>1. Len(<<s>>) = 1 /\ <<s>>[1] = s /\ <<"OK">>[1] = "OK"
    OBVIOUS
  <2> QED
    BY <2>1
<1>3. "read" \notin did'[c] /\ "panic" \notin did'[c] /\ did'[c] \subseteq Events
  BY <1>1 DEF Begun, Events
<1>4. Over(c)'
  BY <1>1, <1>2, <1>3 DEF Begun, Over
<1> QED
  BY <1>4 DEF ProgressOf, NoRequest

(* Every step of a handler, a worker and main() keeps the invariant.       *)
LEMMA RInvStep == IInv /\ RInv /\ [RequestsNext]_allVars => RInv'
<1> SUFFICES ASSUME IInv, RInv, [RequestsNext]_allVars PROVE RInv'
  OBVIOUS
<1> USE DEF vars, clientVars, mainVars, NoRequest
<1>a. ASSUME NEW c \in Clients, UNCHANGED req
      PROVE  req' = [req EXCEPT ![c] = req[c]] /\ req[c] \in Handlers \cup {Nil}
  BY <1>a DEF RInv, RequestTypes
<1>b. ASSUME NEW c \in Clients, UNCHANGED did
      PROVE  did' = [did EXCEPT ![c] = did[c]] /\ did[c] \in SUBSET Events
  BY <1>b DEF RInv, RequestTypes
<1>c. ASSUME NEW c \in Clients, UNCHANGED answers
      PROVE  answers' = [answers EXCEPT ![c] = answers[c]] /\ answers[c] \in Seq(Statuses)
  BY <1>c DEF RInv, RequestTypes
<1>1. ASSUME NEW c \in Clients, NEW h \in Handlers, Accept(c, h) PROVE RInv'
  <2>1. ProgressOf(c)
    BY DEF RInv, Progress
  <2>2. /\ phase[c] = "free" /\ phase'[c] = "received" /\ req'[c] = h
        /\ did'[c] = {} /\ answers'[c] = <<>> /\ pc'[c] = "idle"
    BY <1>1, <2>1 DEF Accept, InPhase, RInv, RequestTypes, OutsideIdle, Outside, ProgressOf
  <2>3. ProgressOf(c)'
    BY <2>2 DEF ProgressOf, Begun
  <2> QED
    BY <1>1, <1>b, <1>c, <2>2, <2>3, HandlerStep DEF Accept, Phases, InPhase
<1>2. ASSUME NEW c \in Clients, Refuse(c) PROVE RInv'
  <2>1. PICK s \in req[c].guard : answers' = [answers EXCEPT ![c] = @ \o <<s>>]
    BY <1>2 DEF Refuse, Reply
  <2>2. phase[c] = "received" /\ phase'[c] = "answered" /\ pc'[c] = "idle" /\ Begun(c)
    BY <1>2 DEF Refuse, InPhase, RInv, RequestTypes, OutsideIdle, Outside, Progress, ProgressOf
  <2>3. s \in {"Forbidden", "Unauthorized", "BadRequest"}
    BY <2>1, <2>2, HandlerFacts DEF Begun
  <2>4. answers' = [answers EXCEPT ![c] = <<s>>] /\ <<s>> \in Seq(Statuses)
    <3>1. <<>> \o <<s>> = <<s>> /\ <<s>> \in Seq(Statuses)
      BY <2>3 DEF Statuses
    <3> QED
      BY <2>1, <2>2, <3>1 DEF Begun
  <2>5. did' = [did EXCEPT ![c] = did[c] \cup {"refused"}]
    BY <1>2 DEF Refuse, Happens
  <2>6. did[c] \cup {"refused"} \in SUBSET Events
    BY <2>2 DEF Begun, Events
  <2>7. UNCHANGED req
    BY <1>2 DEF Refuse
  <2>8. ProgressOf(c)'
    BY <2>2, <2>3, <2>4, <2>5, <2>7, EarlyAnswer DEF RInv, RequestTypes
  <2> QED
    BY <1>2, <1>a, <2>2, <2>4, <2>5, <2>6, <2>7, <2>8, HandlerStep DEF Refuse, Phases, InPhase
<1>3. ASSUME NEW c \in Clients, ReadParams(c) PROVE RInv'
  <2>1. PICK g \in Given(req[c].params) :
          /\ ~Malformed(req[c].params, g)
          /\ IF "bad" \in {g[1], g[2]} THEN Happens(c, "overlooked") ELSE UNCHANGED did
    BY <1>3 DEF ReadParams
  <2>2. /\ phase[c] = "received" /\ phase' = [phase EXCEPT ![c] = phase'[c]]
        /\ phase'[c] = (IF req[c].master THEN "master" ELSE "store")
        /\ pc'[c] = "idle" /\ Begun(c) /\ did[c] = {}
    BY <1>3 DEF ReadParams, InPhase, RInv, RequestTypes, OutsideIdle, Outside, Progress, ProgressOf
  <2>3. UNCHANGED <<req, answers>>
    BY <1>3 DEF ReadParams
  <2>4. "bad" \in {g[1], g[2]} => req[c].params = "url"
    BY <2>1 DEF Malformed
  <2>5. PICK d \in SUBSET {"overlooked"} :
          /\ did' = [did EXCEPT ![c] = d]
          /\ "overlooked" \in d => req[c].params = "url"
    <3>1. CASE "bad" \in {g[1], g[2]}
      <4>1. did' = [did EXCEPT ![c] = {"overlooked"}]
        BY <2>1, <2>2, <3>1 DEF Happens
      <4> QED
        BY <2>4, <3>1, <4>1
    <3>2. CASE "bad" \notin {g[1], g[2]}
      <4>1. did' = [did EXCEPT ![c] = did[c]]
        BY <1>b, <2>1, <3>2
      <4> QED
        BY <2>2, <4>1
    <3> QED
      BY <3>1, <3>2
  <2>6. did'[c] = d
    BY <2>5 DEF RInv, RequestTypes
  <2>7. ProgressOf(c)'
    BY <2>2, <2>3, <2>5, <2>6 DEF ProgressOf, Begun
  <2>8. InPhase(c, "received", phase'[c]) /\ phase'[c] \in {"master", "store"}
    BY <1>3, <2>2 DEF ReadParams, InPhase
  <2> QED
    BY <1>3, <1>a, <1>c, <2>2, <2>3, <2>5, <2>7, <2>8, HandlerStep
       DEF ReadParams, Phases, Events
<1>4. ASSUME NEW c \in Clients, RejectParams(c) PROVE RInv'
  <2>1. phase[c] = "received" /\ phase'[c] = "answered" /\ pc'[c] = "idle" /\ Begun(c)
    BY <1>4 DEF RejectParams, InPhase, RInv, RequestTypes, OutsideIdle, Outside, Progress,
       ProgressOf
  <2>2. req[c] # lastRecordDate
    <3>1. PICK g \in Given(req[c].params) : Malformed(req[c].params, g)
      BY <1>4 DEF RejectParams
    <3>2. req[c].params # "none"
      BY <3>1 DEF Given, Malformed
    <3> QED
      BY <2>1, <3>2, HandlerFacts DEF Begun
  <2>3. answers' = [answers EXCEPT ![c] = <<"BadRequest">>] /\ <<"BadRequest">> \in Seq(Statuses)
    <3>1. <<>> \o <<"BadRequest">> = <<"BadRequest">> /\ <<"BadRequest">> \in Seq(Statuses)
      BY DEF Statuses
    <3> QED
      BY <1>4, <2>1, <3>1 DEF RejectParams, Reply, Begun
  <2>4. did' = [did EXCEPT ![c] = did[c] \cup {"failed"}]
    BY <1>4 DEF RejectParams, Happens
  <2>5. did[c] \cup {"failed"} \in SUBSET Events
    BY <2>1 DEF Begun, Events
  <2>6. UNCHANGED req
    BY <1>4 DEF RejectParams
  <2>7. ProgressOf(c)'
    BY <2>1, <2>2, <2>3, <2>4, <2>6, EarlyAnswer DEF RInv, RequestTypes
  <2> QED
    BY <1>4, <1>a, <2>1, <2>3, <2>4, <2>5, <2>6, <2>7, HandlerStep
       DEF RejectParams, Phases, InPhase
<1>5. ASSUME NEW c \in Clients, MasterAnswers(c) PROVE RInv'
  <2>1. /\ phase[c] = "master" /\ phase'[c] = "store" /\ pc'[c] = "idle" /\ Begun(c)
        /\ UNCHANGED <<req, did, answers>>
    BY <1>5 DEF MasterAnswers, InPhase, RInv, RequestTypes, OutsideIdle, Outside, Progress,
       ProgressOf
  <2>2. ProgressOf(c)'
    BY <2>1 DEF ProgressOf, Begun
  <2> QED
    BY <1>5, <1>a, <1>b, <1>c, <2>1, <2>2, HandlerStep DEF MasterAnswers, Phases, InPhase
<1>6. ASSUME NEW c \in Clients, MasterFails(c) PROVE RInv'
  <2>1. /\ phase[c] = "master" /\ phase'[c] = "answered" /\ pc'[c] = "idle" /\ Begun(c)
        /\ req[c].master
    BY <1>6 DEF MasterFails, InPhase, RInv, RequestTypes, OutsideIdle, Outside, Progress,
       ProgressOf
  <2>2. req[c] # lastRecordDate
    BY <2>1, HandlerFacts DEF Begun
  <2>3. answers' = [answers EXCEPT ![c] = <<"BadRequest">>] /\ <<"BadRequest">> \in Seq(Statuses)
    <3>1. <<>> \o <<"BadRequest">> = <<"BadRequest">> /\ <<"BadRequest">> \in Seq(Statuses)
      BY DEF Statuses
    <3> QED
      BY <1>6, <2>1, <3>1 DEF MasterFails, Reply, Begun
  <2>4. did' = [did EXCEPT ![c] = did[c] \cup {"failed"}]
    BY <1>6 DEF MasterFails, Happens
  <2>5. did[c] \cup {"failed"} \in SUBSET Events
    BY <2>1 DEF Begun, Events
  <2>6. UNCHANGED req
    BY <1>6 DEF MasterFails
  <2>7. ProgressOf(c)'
    BY <2>1, <2>2, <2>3, <2>4, <2>6, EarlyAnswer DEF RInv, RequestTypes
  <2> QED
    BY <1>6, <1>a, <2>1, <2>3, <2>4, <2>5, <2>6, <2>7, HandlerStep
       DEF MasterFails, Phases, InPhase
<1>7. ASSUME NEW c \in Clients, NEW e \in ECs, OpenStorage(c, e) PROVE RInv'
  <2>1. /\ phase[c] = "store" /\ phase'[c] = "query" /\ Begun(c)
        /\ UNCHANGED <<req, did, answers>>
    BY <1>7 DEF OpenStorage, InPhase, RInv, RequestTypes, Progress, ProgressOf
  <2>2. main' = main /\ \A x \in Clients \ {c} : pc'[x] = pc[x]
    BY <1>7 DEF OpenStorage, CallGet, Goto, IInv, TypeOK
  <2>3. ProgressOf(c)'
    BY <2>1 DEF ProgressOf, Begun
  <2> QED
    BY <1>7, <1>a, <1>b, <1>c, <2>1, <2>2, <2>3, HandlerStep
       DEF OpenStorage, Phases, InPhase, Outside
<1>8. ASSUME NEW c \in Clients, StorageMissing(c) PROVE RInv'
  <2>1. PICK from \in {"store", "query"} : InPhase(c, from, "closed")
    BY <1>8 DEF StorageMissing
  <2>2. /\ phase[c] = from /\ phase'[c] = "closed" /\ Begun(c)
        /\ UNCHANGED <<req, answers>>
    BY <1>8, <2>1 DEF StorageMissing, InPhase, RInv, RequestTypes, Progress, ProgressOf
  <2>3. /\ did' = [did EXCEPT ![c] = did[c] \cup {"failed"}]
        /\ did[c] \cup {"failed"} \in SUBSET Events
    BY <1>8, <2>2 DEF StorageMissing, Happens, Begun, Events
  <2>4. did'[c] = did[c] \cup {"failed"}
    BY <2>3 DEF RInv, RequestTypes
  <2>5. ProgressOf(c)'
    BY <2>2, <2>4 DEF ProgressOf, Begun, Queried
  <2> QED
    BY <1>8, <1>a, <1>c, <2>1, <2>2, <2>3, <2>5, HandlerStep
       DEF StorageMissing, Phases, InPhase, Outside
<1>9. ASSUME NEW c \in Clients, Query(c) PROVE RInv'
  <2>1. PICK end \in req[c].ends : Happens(c, end)
    BY <1>9 DEF Query
  <2>2. /\ phase[c] = "query" /\ phase'[c] = "closed" /\ Begun(c)
        /\ UNCHANGED <<req, answers>>
    BY <1>9 DEF Query, InPhase, RInv, RequestTypes, Progress, ProgressOf
  <2>3. end \in {"read", "failed", "panic"}
    BY <2>1, <2>2, HandlerFacts DEF Begun
  <2>4. did' = [did EXCEPT ![c] = did[c] \cup {end}] /\ did[c] \cup {end} \in SUBSET Events
    BY <2>1, <2>2, <2>3 DEF Happens, Begun, Events
  <2>5. did'[c] = did[c] \cup {end}
    BY <2>4 DEF RInv, RequestTypes
  <2>6. ProgressOf(c)'
    BY <2>2, <2>3, <2>5 DEF ProgressOf, Begun, Queried
  <2>7. main' = main /\ \A x \in Clients \ {c} : pc'[x] = pc[x]
    BY <1>9 DEF Query, CallPut, Goto, IInv, TypeOK
  <2> QED
    BY <1>9, <1>a, <1>c, <2>2, <2>4, <2>6, <2>7, HandlerStep
       DEF Query, Phases, InPhase, Outside
<1>10. ASSUME NEW c \in Clients, Respond(c) PROVE RInv'
  <2> DEFINE s == IF "failed" \in did[c] THEN req[c].onError ELSE <<"OK">>
  <2>1. /\ phase[c] = "closed" /\ phase'[c] = "answered" /\ Queried(c)
        /\ UNCHANGED <<req, did>> /\ "panic" \notin did[c]
    BY <1>10 DEF Respond, InPhase, RInv, RequestTypes, Progress, ProgressOf
  <2>2. s \in Seq(Statuses)
    <3>1. <<"OK">> \in Seq(Statuses)
      BY DEF Statuses
    <3> QED
      BY <2>1, <3>1, HandlerFacts DEF Queried
  <2>3. answers' = [answers EXCEPT ![c] = s]
    <3>1. <<>> \o s = s
      BY <2>2, ConcatEmptySeq
    <3>2. answers' = [answers EXCEPT ![c] = answers[c] \o s]
      BY <1>10 DEF Respond, Reply
    <3> QED
      BY <2>1, <3>1, <3>2 DEF Queried
  <2>4. answers'[c] = s
    BY <2>3 DEF RInv, RequestTypes
  <2>5. Over(c)'
    <3>1. CASE "failed" \in did[c]
      <4>1. s = req[c].onError /\ "read" \notin did[c] /\ did[c] \subseteq Events
        BY <2>1, <3>1 DEF Queried, Events
      <4>2. s # <<"OK">> /\ Len(s) = IF req[c] = lastRecordDate THEN 2 ELSE 1
        BY <2>1, <4>1, HandlerFacts DEF Queried
      <4> HIDE DEF s
      <4> QED
        BY <2>1, <2>4, <3>1, <4>1, <4>2 DEF Queried, Over
    <3>2. CASE "failed" \notin did[c]
      <4>1. s = <<"OK">> /\ "read" \in did[c] /\ did[c] \subseteq Events
        BY <2>1, <3>2 DEF Queried, Events
      <4>2. Len(s) = 1
        BY <4>1
      <4> HIDE DEF s
      <4>3. /\ req'[c] \in Handlers /\ did'[c] \subseteq Events
            /\ "overlooked" \in did'[c] => req'[c].params = "url"
        BY <2>1, <4>1 DEF Queried
      <4>4. answers'[c] = <<"OK">> /\ "read" \in did'[c] /\ Len(answers'[c]) = 1
        BY <2>1, <2>4, <4>1, <4>2
      <4>5. "panic" \notin did'[c] /\ "failed" \notin did'[c]
        BY <2>1, <3>2
      <4> QED
        BY <4>3, <4>4, <4>5, Zenon DEF Over
    <3> QED
      BY <3>1, <3>2
  <2>6. ProgressOf(c)'
    BY <2>1, <2>5 DEF ProgressOf
  <2> HIDE DEF s
  <2> QED
    BY <1>10, <1>a, <1>b, <2>1, <2>2, <2>3, <2>6, HandlerStep
       DEF Respond, Phases, InPhase, Outside
<1>11. ASSUME NEW c \in Clients, Abort(c) PROVE RInv'
  <2>1. /\ phase[c] = "closed" /\ phase'[c] = "answered" /\ Queried(c)
        /\ UNCHANGED <<req, did, answers>> /\ "panic" \in did[c]
    BY <1>11 DEF Abort, InPhase, RInv, RequestTypes, Progress, ProgressOf
  <2>2. Over(c)'
    <3>1. answers[c] = <<>> /\ Len(<<>>) = 0 /\ <<>> # <<"OK">>
      BY <2>1, EmptySeq DEF Queried
    <3>2. "read" \notin did[c] /\ did[c] \subseteq Events
      BY <2>1 DEF Queried, Events
    <3>3. /\ req'[c] \in Handlers /\ did'[c] = did[c]
          /\ "overlooked" \in did'[c] => req'[c].params = "url"
      BY <2>1 DEF Queried
    <3>0. answers'[c] = answers[c]
      BY <2>1
    <3>4. answers'[c] # <<"OK">> /\ Len(answers'[c]) = 0
      BY <3>0, <3>1, Zenon
    <3>5. /\ "panic" \in did'[c] /\ "read" \notin did'[c] /\ "failed" \notin did'[c]
          /\ did'[c] \subseteq Events
      BY <2>1, <3>2, <3>3 DEF Queried
    <3>6. (answers'[c] = <<"OK">>) = ("read" \in did'[c])
      BY <3>4, <3>5
    <3>7. Len(answers'[c]) = CASE "panic" \in did'[c] -> 0
                               [] req'[c] = lastRecordDate /\ "failed" \in did'[c] -> 2
                               [] OTHER -> 1
      BY <3>4, <3>5
    <3> QED
      BY <3>3, <3>5, <3>6, <3>7, Zenon DEF Over
  <2>3. ProgressOf(c)'
    BY <2>1, <2>2 DEF ProgressOf
  <2> QED
    BY <1>11, <1>a, <1>b, <1>c, <2>1, <2>3, HandlerStep DEF Abort, Phases, InPhase, Outside
<1>12. ASSUME NEW c \in Clients, Finish(c) PROVE RInv'
  <2>1. /\ phase[c] = "answered" /\ phase'[c] = "free" /\ pc[c] = "idle"
        /\ req' = [req EXCEPT ![c] = Nil] /\ did' = [did EXCEPT ![c] = {}]
        /\ answers' = [answers EXCEPT ![c] = <<>>]
        /\ did'[c] = {} /\ answers'[c] = <<>>
    BY <1>12 DEF Finish, InPhase, RInv, RequestTypes, OutsideIdle, Outside
  <2>2. ProgressOf(c)'
    BY <2>1 DEF ProgressOf
  <2>3. <<>> \in Seq(Statuses) /\ {} \in SUBSET Events
    OBVIOUS
  <2> QED
    BY <1>12, <2>1, <2>2, <2>3, HandlerStep DEF Finish, Phases, InPhase, Outside
<1>15. ASSUME UNCHANGED requestVars
       PROVE  RequestTypes' <=> server' \in {"serving", "draining", "waiting", "waited"}
  BY <1>15 DEF RInv, RequestTypes, requestVars
<1>16. ASSUME UNCHANGED requestVars PROVE Progress'
  BY <1>16 DEF RInv, Progress, ProgressOf, Begun, Queried, Over, requestVars
<1>13. ASSUME NEW c \in Clients, NEW e \in ECs, WorkerOpens(c, e) PROVE RInv'
  <2>1. UNCHANGED <<requestVars, server>> /\ phase[c] \notin Outside
    BY <1>13 DEF WorkerOpens, IsWorker, Outside
  <2>2. main' = main /\ \A x \in Clients \ {c} : pc'[x] = pc[x]
    BY <1>13 DEF WorkerOpens, CallGet, Goto, IInv, TypeOK
  <2>3. OutsideIdle'
    BY <2>1, <2>2 DEF RInv, OutsideIdle, requestVars
  <2>4. Stopping'
    BY <2>1, <2>2 DEF RInv, Stopping, requestVars
  <2>5. RequestTypes'
    BY <1>15, <2>1 DEF RInv, RequestTypes
  <2> QED
    BY <1>16, <2>1, <2>3, <2>4, <2>5 DEF RInv
<1>14. ASSUME NEW c \in Clients, WorkerReturns(c) PROVE RInv'
  <2>1. /\ phase[c] \in {"worker", "late"} /\ phase'[c] = "returned" /\ ProgressOf(c)
        /\ UNCHANGED <<req, did, answers>> /\ pc[c] = "idle"
    BY <1>14 DEF WorkerReturns, InPhase, RInv, RequestTypes, Progress, OutsideIdle, Outside
  <2>2. ProgressOf(c)'
    BY <2>1 DEF ProgressOf
  <2> QED
    BY <1>14, <1>a, <1>b, <1>c, <2>1, <2>2, HandlerStep
       DEF WorkerReturns, Phases, InPhase, Outside
<1>22. ASSUME NEW c \in Clients, WorkerStarts(c) PROVE RInv'
  <2>1. /\ phase[c] = "free" /\ phase'[c] = "starting" /\ ProgressOf(c)
        /\ UNCHANGED <<req, did, answers>> /\ pc[c] = "idle"
    BY <1>22 DEF WorkerStarts, InPhase, RInv, RequestTypes, Progress, OutsideIdle, Outside
  <2>2. ProgressOf(c)'
    BY <2>1 DEF ProgressOf
  <2> QED
    BY <1>22, <1>a, <1>b, <1>c, <2>1, <2>2, HandlerStep
       DEF WorkerStarts, Phases, InPhase, Outside
<1>23. ASSUME NEW c \in Clients, WorkerAdds(c) PROVE RInv'
  <2>1. /\ phase[c] = "starting" /\ phase'[c] \in {"worker", "late"} /\ ProgressOf(c)
        /\ UNCHANGED <<req, did, answers>> /\ pc[c] = "idle"
    BY <1>23 DEF WorkerAdds, InPhase, RInv, RequestTypes, Progress, OutsideIdle, Outside
  <2>2. ProgressOf(c)'
    BY <2>1 DEF ProgressOf
  <2> QED
    BY <1>23, <1>a, <1>b, <1>c, <2>1, <2>2, HandlerStep
       DEF WorkerAdds, Phases, InPhase, Outside
<1>17. ASSUME NEW c \in Clients, PoolStep(c) \/ WorkerCloses(c) PROVE RInv'
  <2>1. UNCHANGED <<requestVars, server>>
    BY <1>17 DEF PoolStep, WorkerCloses
  <2>2. main' = main
    BY <1>17 DEF PoolStep, WorkerCloses, CallPut, GetStep, PutStep, LockMutexPut, FindOrCreate,
       GetLockMu, Receive, Park, CheckDb, OpenOk, OpenFail, Assign, LockMutex, FindAndClear,
       HandOver, Store, PutReturns, PutSeesFull, PutLockMu, PutCloses
  <2>3. ASSUME NEW d \in Clients, pc[d] = "idle" PROVE pc'[d] = "idle"
    BY <1>17, <2>3, StaysIdle DEF PoolStep, WorkerCloses, CallPut, Goto, At, IInv, TypeOK
  <2>4. OutsideIdle'
    BY <2>1, <2>3 DEF RInv, OutsideIdle, requestVars
  <2>5. Stopping'
    BY <2>1, <2>2 DEF RInv, Stopping, requestVars
  <2>6. RequestTypes'
    BY <1>15, <2>1 DEF RInv, RequestTypes
  <2> QED
    BY <1>16, <2>1, <2>4, <2>5, <2>6 DEF RInv
<1>18. CASE Interrupt
  <2>1. UNCHANGED <<requestVars, pc, main>>
    BY <1>18 DEF Interrupt
  <2>2. server = "serving" /\ server' = "draining"
    BY <1>18 DEF Interrupt
  <2>3. Stopping'
    BY <2>1, <2>2 DEF RInv, Stopping, requestVars
  <2>4. OutsideIdle'
    BY <2>1 DEF RInv, OutsideIdle, requestVars
  <2>5. RequestTypes'
    BY <1>15, <2>1, <2>2
  <2> QED
    BY <1>16, <2>1, <2>3, <2>4, <2>5 DEF RInv
<1>19. CASE Drained
  <2>1. UNCHANGED <<requestVars, pc, main>>
    BY <1>19 DEF Drained
  <2>2. /\ server = "draining" /\ server' = "waiting"
        /\ \A c \in Clients : phase[c] \in NoRequest
    BY <1>19 DEF Drained
  <2>3. Stopping'
    BY <2>1, <2>2 DEF RInv, Stopping, requestVars
  <2>4. OutsideIdle'
    BY <2>1 DEF RInv, OutsideIdle, requestVars
  <2>5. RequestTypes'
    BY <1>15, <2>1, <2>2
  <2> QED
    BY <1>16, <2>1, <2>3, <2>4, <2>5 DEF RInv
<1>20. CASE Stop
  <2>1. UNCHANGED <<requestVars, server>> /\ server = "waited" /\ pc' = pc
    BY <1>20 DEF Stop, ClosePoolStep, ClosePool, CloseEnds, CloseSkips, CloseBegins, Exit
  <2>3. Stopping'
    BY <2>1 DEF RInv, Stopping, requestVars
  <2>4. OutsideIdle'
    BY <2>1 DEF RInv, OutsideIdle, requestVars
  <2>5. RequestTypes'
    BY <1>15, <2>1 DEF RInv, RequestTypes
  <2> QED
    BY <1>16, <2>1, <2>3, <2>4, <2>5 DEF RInv
<1>21. CASE UNCHANGED allVars
  <2>1. UNCHANGED <<requestVars, server, pc, main>>
    BY <1>21 DEF allVars
  <2>2. OutsideIdle' /\ Stopping'
    BY <2>1 DEF RInv, OutsideIdle, Stopping, requestVars
  <2>3. RequestTypes'
    BY <1>15, <2>1 DEF RInv, RequestTypes
  <2> QED
    BY <1>16, <2>1, <2>2, <2>3 DEF RInv
<1>24. CASE WaitReturns
  <2>1. UNCHANGED <<requestVars, pc, main>>
    BY <1>24 DEF WaitReturns
  <2>2. /\ server = "waiting" /\ server' = "waited"
        /\ \A c \in Clients : phase[c] # "worker"
    BY <1>24 DEF WaitReturns
  <2>3. Stopping'
    BY <2>1, <2>2 DEF RInv, Stopping, requestVars
  <2>4. OutsideIdle'
    BY <2>1 DEF RInv, OutsideIdle, requestVars
  <2>5. RequestTypes'
    BY <1>15, <2>1, <2>2
  <2> QED
    BY <1>16, <2>1, <2>3, <2>4, <2>5 DEF RInv
<1> QED
  BY <1>1, <1>2, <1>3, <1>4, <1>5, <1>6, <1>7, <1>8, <1>9, <1>10, <1>11, <1>12, <1>13,
     <1>14, <1>17, <1>18, <1>19, <1>20, <1>21, <1>22, <1>23, <1>24 DEF RequestsNext, RequestStep, WorkerStep, MainStep

-----------------------------------------------------------------------------
(* The invariants of the pool and of the requests hold together, whatever  *)
(* the handlers, the workers and main() do.                                *)
THEOREM RequestsInductive == RequestsSpec => [](IInv /\ RInv)
<1>1. RequestsInit => IInv /\ RInv
  BY InitIInv, RequestsInitInv DEF RequestsInit
<1>2. IInv /\ RInv /\ [RequestsNext]_allVars => IInv' /\ RInv'
  BY PoolNext, StepIInv, RInvStep
<1> QED
  BY <1>1, <1>2, PTL DEF RequestsSpec

(* The invariant implies the types.                                        *)
LEMMA RequestsTyped == IInv /\ RInv => RequestsTypeOK
<1> SUFFICES ASSUME IInv, RInv PROVE RequestsTypeOK
  OBVIOUS
<1>1. ASSUME NEW c \in Clients
      PROVE  /\ did[c] \subseteq {"refused", "overlooked", "failed", "read", "panic"}
             /\ Len(answers[c]) <= 2
             /\ pc[c] # "idle" => phase[c] \in {"query", "closed", "worker", "late"}
  <2>1. phase[c] \in Phases /\ did[c] \subseteq Events
    BY DEF RInv, RequestTypes
  <2>2. answers[c] = <<>> \/ Over(c)
    BY <2>1 DEF RInv, Progress, ProgressOf, Begun, Queried, Phases, NoRequest
  <2>3. Len(answers[c]) <= 2
    <3>1. Len(<<>>) = 0
      BY EmptySeq
    <3> QED
      BY <2>2, <3>1 DEF Over
  <2>4. pc[c] # "idle" => phase[c] \in {"query", "closed", "worker", "late"}
    BY <2>1 DEF RInv, OutsideIdle, Outside, Phases
  <2> QED
    BY <2>1, <2>3, <2>4 DEF Events
<1> QED
  BY <1>1 DEF IInv, RInv, RequestTypes, RequestsTypeOK

(* A request has at most two statuses written to it, and is in the pool    *)
(* only while its storage is being opened, queried or closed.              *)
THEOREM RequestsTypeCorrect == RequestsSpec => []RequestsTypeOK
  BY RequestsInductive, RequestsTyped, PTL

(* Whichever handler serves a request and however it fails, it is over     *)
(* with its storage given back, and its answer is OK exactly when its      *)
(* query was successful (the handlers of restServer.go, eegAPI.go and      *)
(* the resolvers).                                                         *)
THEOREM TrueAnswers == RequestsSpec => []OneTrueAnswer
<1>1. IInv /\ RInv => OneTrueAnswer
  <2> SUFFICES ASSUME IInv, RInv, NEW c \in Clients, phase[c] = "answered"
               PROVE  obj[c] = Nil /\ Over(c)
    BY DEF OneTrueAnswer, Over
  <2>1. pc[c] = "idle"
    BY DEF RInv, OutsideIdle, Outside
  <2>2. obj[c] = Nil
    BY <2>1 DEF IInv, Possession, HoldsObject
  <2> QED
    BY <2>2 DEF RInv, Progress, ProgressOf
<1> QED
  BY RequestsInductive, <1>1, PTL

-----------------------------------------------------------------------------
(* The end of the service.                                                 *)

(* Once main() closes the pool, who is in it is a worker whose wg.Add came *)
(* after Wait had returned (dispatcher.go 193, server.go 120).             *)
LEMMA OnlyLate ==
  ASSUME RInv, main # "running", NEW c \in Clients, pc[c] # "idle"
  PROVE  phase[c] = "late"
BY DEF RInv, RequestTypes, Phases, NoRequest, Stopping, OutsideIdle, Outside

(* Whatever fails: who is in the pool when main() closes it is a worker    *)
(* that came late; and a database that is still open then is his, or has   *)
(* lost an object to a failed open.                                        *)
LostKeepsOpen ==
  main # "running" =>
    /\ \A c \in Clients : pc[c] # "idle" => phase[c] = "late"
    /\ \A e \in ECs : live[e] # {} =>
         \/ \E c \in Clients : phase[c] = "late" /\ ec[c] = e
         \/ \E s \in Slots : <<e, s>> \in Lost

(* A database that is open then is held or has lost an object (Pool.Get).  *)
LEMMA OpenHasLost == IInv /\ RInv => LostKeepsOpen
<1> SUFFICES ASSUME IInv, RInv, main # "running", NEW e \in ECs, live[e] # {},
                    \A s \in Slots : <<e, s>> \notin Lost
             PROVE  \E c \in Clients : phase[c] = "late" /\ ec[c] = e
  BY OnlyLate DEF LostKeepsOpen
<1>1. db[e] # Nil
  BY DEF IInv, PoolOwnsDatabase
<1>2. CASE pool[e] = Slots
  <2>1. PICK c \in Clients : ec[c] = e /\ pc[c] \in {"putCheck", "putMu", "close"}
    BY <1>1, <1>2 DEF IInv, FullIsAttended
  <2> QED
    BY <2>1, OnlyLate
<1>3. CASE pool[e] # Slots
  <2>1. PICK s \in Slots : s \notin pool[e]
    BY <1>3 DEF IInv, TypeOK
  <2>2. PICK c \in Clients : <<e, s, c>> \in HeldLeases
    BY <2>1 DEF Lost
  <2>3. ec[c] = e /\ ec[c] # Nil
    BY <2>2, PoolAssumption DEF HeldLeases
  <2>4. pc[c] # "idle"
    BY <2>3 DEF IInv, Possession
  <2> QED
    BY <2>3, <2>4, OnlyLate
<1> QED
  BY <1>2, <1>3

(* main() waits for the requests and for the workers in the WaitGroup      *)
(* before it closes the pool (server.go 112-120), whichever of the calls   *)
(* into badger fail.                                                       *)
THEOREM PoolLeftToMain == RequestsSpec => []LostKeepsOpen
  BY RequestsInductive, OpenHasLost, PTL

(* Where none fails, all other databases are closed already: ClosePool     *)
(* closes one under a worker that came late, and under nobody else         *)
(* (server.go 112-120, Pool.Close).                                        *)
THEOREM ShutdownIsOrderly ==
  ASSUME Faults = {}
  PROVE  RequestsSpec => []OrderlyShutdown
<1>1. LostKeepsOpen /\ Lost = {} => OrderlyShutdown
  BY DEF LostKeepsOpen, OrderlyShutdown
<1> QED
  BY PoolLeftToMain, RequestsUsePool, NoneLost, <1>1, PTL

(* Whatever fails, the service ends with all its databases closed, except  *)
(* what a worker that came late has open, and those that badger failed to  *)
(* close (server.go 112-120, Pool.Close).                                  *)
LateLeaveOpen ==
  main = "exited" =>
    \A e \in ECs : live[e] # {} => \E c \in Clients : phase[c] = "late" /\ ec[c] = e

(* ClosePool closes what a failed open has left open (server.go 120).      *)
THEOREM EndsClean == RequestsSpec => []LateLeaveOpen
<1>1. IInv /\ CleanExit /\ RInv => LateLeaveOpen
  <2> SUFFICES ASSUME IInv, CleanExit, RInv, main = "exited", NEW e \in ECs, live[e] # {}
               PROVE  \E c \in Clients : phase[c] = "late" /\ ec[c] = e
    BY DEF LateLeaveOpen
  <2>1. PICK c \in Clients : ec[c] = e
    BY DEF CleanExit
  <2>2. pc[c] # "idle"
    BY <2>1, PoolAssumption DEF IInv, Possession
  <2> QED
    BY <2>1, <2>2, OnlyLate
<1> QED
  BY RequestsInductive, RequestsUsePool, ExitIsClean, <1>1, PTL

=============================================================================
