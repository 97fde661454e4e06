---------------------------- MODULE StorageLease ----------------------------
(***************************************************************************)
(* What store/ebow promises the goroutines that open storages, without its *)
(* locks and channels: for each community a fixed number of leases, each   *)
(* with at most one holder, at most one lease per goroutine, and one       *)
(* database that is opened only on behalf of a lease holder.               *)
(***************************************************************************)
CONSTANTS Clients, ECs, Slots

VARIABLES
  leases,   \* set of <<community, slot, holder>>
  lost,     \* set of <<community, slot>> that no one will lease again
  open      \* communities whose database is open

leaseVars == <<leases, lost, open>>

Holds(c) == \E e \in ECs, s \in Slots : <<e, s, c>> \in leases
Leased(e, s) == \E c \in Clients : <<e, s, c>> \in leases

LeaseInit == leases = {} /\ lost = {} /\ open = {}

Take(e, s, c) ==
  /\ ~Leased(e, s) /\ <<e, s>> \notin lost
  /\ ~Holds(c)
  /\ leases' = leases \cup {<<e, s, c>>}
  /\ UNCHANGED <<lost, open>>

Return(e, s, c) ==
  /\ <<e, s, c>> \in leases
  /\ leases' = leases \ {<<e, s, c>>}
  /\ UNCHANGED <<lost, open>>

(* A lease passes directly to a goroutine that is waiting for one.         *)
PassOn(e, s, c, d) ==
  /\ <<e, s, c>> \in leases
  /\ ~Holds(d)
  /\ leases' = (leases \ {<<e, s, c>>}) \cup {<<e, s, d>>}
  /\ UNCHANGED <<lost, open>>

(* A failed open costs the lease it was made for: only while it is closed. *)
Lose(e, s, c) ==
  /\ <<e, s, c>> \in leases
  /\ e \notin open
  /\ leases' = leases \ {<<e, s, c>>}
  /\ lost' = lost \cup {<<e, s>>}
  /\ UNCHANGED open

Open(e) ==
  /\ e \notin open
  /\ \E s \in Slots : Leased(e, s)
  /\ open' = open \cup {e}
  /\ UNCHANGED <<leases, lost>>

Close(e) ==
  /\ e \in open
  /\ open' = open \ {e}
  /\ UNCHANGED <<leases, lost>>

LeaseNext ==
  \E e \in ECs :
    \/ Open(e) \/ Close(e)
    \/ \E s \in Slots, c \in Clients :
         \/ Take(e, s, c) \/ Return(e, s, c) \/ Lose(e, s, c)
         \/ \E d \in Clients : PassOn(e, s, c, d)

LeaseSpec == LeaseInit /\ [][LeaseNext]_leaseVars

=============================================================================
