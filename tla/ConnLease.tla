------------------------------ MODULE ConnLease ------------------------------
(***************************************************************************)
(* What a bounded pool of database connections promises to the coroutines  *)
(* that borrow from it, whatever its queues and its waiting look like:     *)
(* there are never more slots in use than the pool may have, every         *)
(* connection the pool knows has paid for a slot, and nobody shares one.   *)
(* DataSource.tla implements it.                                           *)
(***************************************************************************)
EXTENDS Integers, FiniteSets

CONSTANTS
    Clients,    \* the coroutines that borrow
    Conns,      \* the identities a connection can have
    None,       \* no connection
    Size        \* the most slots the pool may have

ASSUME LeaseAssumption ==
    /\ IsFiniteSet(Clients) /\ IsFiniteSet(Conns)
    /\ None \notin Conns
    /\ Size \in Nat

VARIABLES
    lease,      \* the connection each client holds
    idle,       \* the connections the pool may lend
    opening,    \* the clients that are opening a connection
    slots       \* the slots in use

leaseVars == <<lease, idle, opening, slots>>

Leased == {lease[p] : p \in Clients} \ {None}

LeaseTypeOK ==
    /\ lease \in [Clients -> Conns \cup {None}]
    /\ idle \in SUBSET Conns
    /\ opening \in SUBSET Clients
    /\ slots \in Nat

LeaseInit ==
    /\ lease = [p \in Clients |-> None]
    /\ idle = {}
    /\ opening = {}
    /\ slots = 0

-----------------------------------------------------------------------------
\* Connections found dead on the way are given up; their slots are not.
StartOpen(p) ==
    /\ lease[p] = None /\ p \notin opening
    /\ slots < Size
    /\ slots' = slots + 1
    /\ opening' = opening \cup {p}
    /\ idle' \in SUBSET idle
    /\ UNCHANGED lease

Opened(p, c) ==
    /\ p \in opening
    /\ c \notin idle \cup Leased
    /\ lease' = [lease EXCEPT ![p] = c]
    /\ opening' = opening \ {p}
    /\ UNCHANGED <<idle, slots>>

OpenFailed(p) ==
    /\ p \in opening
    /\ opening' = opening \ {p}
    /\ slots' = slots - 1
    /\ UNCHANGED <<lease, idle>>

Lend(p, c) ==
    /\ lease[p] = None /\ p \notin opening
    /\ c \in idle
    /\ lease' = [lease EXCEPT ![p] = c]
    /\ idle' = idle \ {c}
    /\ UNCHANGED <<opening, slots>>

Return(p) ==
    /\ lease[p] # None
    /\ idle' = idle \cup {lease[p]}
    /\ lease' = [lease EXCEPT ![p] = None]
    /\ UNCHANGED <<opening, slots>>

Evict ==
    /\ idle' \in SUBSET idle
    /\ UNCHANGED <<lease, opening, slots>>

LeaseNext ==
    \/ \E p \in Clients :
          \/ StartOpen(p)
          \/ OpenFailed(p)
          \/ Return(p)
          \/ \E c \in Conns : Opened(p, c) \/ Lend(p, c)
    \/ Evict

LeaseSpec == LeaseInit /\ [][LeaseNext]_leaseVars

-----------------------------------------------------------------------------
\* No two clients hold the same connection, and a connection somebody holds
\* is not at the same time on offer (a borrow is exclusive).
Exclusive ==
    /\ \A p, q \in Clients : p # q /\ lease[p] # None => lease[p] # lease[q]
    /\ Leased \cap idle = {}

\* Every connection the pool lends or may lend, and every one being opened,
\* occupies a slot, and the slots never exceed the size of the pool.
SlotsCoverConns ==
    /\ Cardinality(idle) + Cardinality(Leased) + Cardinality(opening) <= slots
    /\ slots <= Size
=============================================================================
