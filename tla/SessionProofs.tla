---------------------------- MODULE SessionProofs ----------------------------
(* Proofs about the sessions, for every number of clients, users, schemas    *)
(* and connections: the registry, the backends they hold, who may query, and *)
(* the load limits. Sessions use the lease of ConnLease as it promises.      *)
EXTENDS Session, FiniteSetTheorems, TLAPS

(* The abstract lease: exclusive borrows, and slots for all connections. *)

\* A client that is opening a connection holds none yet.
OpenersHoldNone == \A p \in opening : lease[p] = None

LInv == LeaseTypeOK /\ Exclusive /\ SlotsCoverConns /\ OpenersHoldNone

-----------------------------------------------------------------------------
\* Taking a connection adds it to those leased,
LEMMA LeaseTaken ==
    ASSUME LeaseTypeOK, NEW p \in Clients, NEW c \in Conns,
           lease[p] = None, lease' = [lease EXCEPT ![p] = c]
    PROVE  Leased' = Leased \cup {c}
  BY LeaseAssumption DEF LeaseTypeOK, Leased

\* and giving it back removes it.
LEMMA LeaseReturned ==
    ASSUME LeaseTypeOK, Exclusive, NEW p \in Clients,
           lease[p] # None, lease' = [lease EXCEPT ![p] = None]
    PROVE  Leased' = Leased \ {lease[p]}
  BY DEF LeaseTypeOK, Leased, Exclusive

\* The sets the invariant counts are finite.
LEMMA Finite ==
    ASSUME LeaseTypeOK
    PROVE  /\ IsFiniteSet(idle) /\ IsFiniteSet(Leased) /\ IsFiniteSet(opening)
           /\ Cardinality(idle) \in Nat
           /\ Cardinality(Leased) \in Nat
           /\ Cardinality(opening) \in Nat
  <1>1. Leased \in SUBSET Conns
    BY DEF LeaseTypeOK, Leased
  <1>2. IsFiniteSet(idle) /\ IsFiniteSet(Leased) /\ IsFiniteSet(opening)
    BY <1>1, FS_Subset, LeaseAssumption DEF LeaseTypeOK
  <1> QED
    BY <1>2, FS_CardinalityType

-----------------------------------------------------------------------------
\* Connections that disappear from idle only make room.
LEMMA FewerIdle ==
    ASSUME LeaseTypeOK, idle' \in SUBSET idle
    PROVE  Cardinality(idle') \in Nat /\ Cardinality(idle') <= Cardinality(idle)
  BY Finite, FS_Subset, FS_CardinalityType

\* Starting an open takes a slot for the connection to come.
LEMMA StartOpenInv ==
    ASSUME LInv, NEW p \in Clients, StartOpen(p)
    PROVE  LInv'
  <1> USE DEF LInv
  <1>1. LeaseTypeOK'
    BY DEF StartOpen, LeaseTypeOK
  <1>2. Leased' = Leased
    BY DEF StartOpen, Leased
  <1>3. Cardinality(opening') = Cardinality(opening) + 1
    BY Finite, FS_AddElement DEF StartOpen
  <1>4. Cardinality(idle') \in Nat /\ Cardinality(idle') <= Cardinality(idle)
    BY FewerIdle DEF StartOpen
  <1>5. SlotsCoverConns'
    BY <1>2, <1>3, <1>4, Finite, LeaseAssumption DEF StartOpen, SlotsCoverConns, LeaseTypeOK
  <1> QED
    BY <1>1, <1>2, <1>5 DEF StartOpen, Exclusive, OpenersHoldNone

\* The opened connection takes the place of the opening.
LEMMA OpenedInv ==
    ASSUME LInv, NEW p \in Clients, NEW c \in Conns, Opened(p, c)
    PROVE  LInv'
  <1> USE DEF LInv
  <1>1. LeaseTypeOK'
    BY DEF Opened, LeaseTypeOK
  <1>2. lease[p] = None
    BY DEF Opened, OpenersHoldNone
  <1>3. Leased' = Leased \cup {c}
    BY <1>2, LeaseTaken DEF Opened
  <1>4. Cardinality(Leased') = Cardinality(Leased) + 1
    BY <1>3, Finite, FS_AddElement DEF Opened
  <1>5. Cardinality(opening') = Cardinality(opening) - 1
    BY Finite, FS_RemoveElement DEF Opened
  <1>6. SlotsCoverConns'
    BY <1>4, <1>5, Finite DEF Opened, SlotsCoverConns, LeaseTypeOK
  <1>7. Exclusive'
    BY <1>3, LeaseAssumption DEF Opened, Exclusive, LeaseTypeOK, Leased
  <1> QED
    BY <1>1, <1>6, <1>7 DEF Opened, OpenersHoldNone, LeaseTypeOK

\* A failed open gives back the slot it took.
LEMMA OpenFailedInv ==
    ASSUME LInv, NEW p \in Clients, OpenFailed(p)
    PROVE  LInv'
  <1> USE DEF LInv
  <1>1. Leased' = Leased
    BY DEF OpenFailed, Leased
  <1>2. Cardinality(opening') = Cardinality(opening) - 1 /\ Cardinality(opening') \in Nat
    BY Finite, FS_RemoveElement, FS_CardinalityType DEF OpenFailed
  <1>3. slots' \in Nat
    BY <1>2, Finite DEF OpenFailed, SlotsCoverConns, LeaseTypeOK
  <1>4. LeaseTypeOK'
    BY <1>3 DEF OpenFailed, LeaseTypeOK
  <1>5. SlotsCoverConns'
    BY <1>1, <1>2, Finite, LeaseAssumption DEF OpenFailed, SlotsCoverConns, LeaseTypeOK
  <1> QED
    BY <1>1, <1>4, <1>5 DEF OpenFailed, Exclusive, OpenersHoldNone

\* Lending moves a connection from idle to leased,
LEMMA LendInv ==
    ASSUME LInv, NEW p \in Clients, NEW c \in Conns, Lend(p, c)
    PROVE  LInv'
  <1> USE DEF LInv
  <1>1. LeaseTypeOK'
    BY DEF Lend, LeaseTypeOK
  <1>2. Leased' = Leased \cup {c}
    BY LeaseTaken DEF Lend
  <1>3. c \notin Leased
    BY DEF Lend, Exclusive
  <1>4. Cardinality(Leased') = Cardinality(Leased) + 1
    BY <1>2, <1>3, Finite, FS_AddElement
  <1>5. Cardinality(idle') = Cardinality(idle) - 1
    BY Finite, FS_RemoveElement DEF Lend
  <1>6. SlotsCoverConns'
    BY <1>4, <1>5, Finite DEF Lend, SlotsCoverConns, LeaseTypeOK
  <1>7. Exclusive'
    BY <1>2, <1>3, LeaseAssumption DEF Lend, Exclusive, LeaseTypeOK, Leased
  <1> QED
    BY <1>1, <1>6, <1>7 DEF Lend, OpenersHoldNone, LeaseTypeOK

\* returning it moves it back,
LEMMA ReturnInv ==
    ASSUME LInv, NEW p \in Clients, Return(p)
    PROVE  LInv'
  <1> USE DEF LInv
  <1>1. LeaseTypeOK'
    BY DEF Return, LeaseTypeOK
  <1>2. Leased' = Leased \ {lease[p]} /\ lease[p] \in Leased
    BY LeaseReturned DEF Return, Leased
  <1>3. lease[p] \notin idle
    BY <1>2 DEF Exclusive
  <1>4. Cardinality(Leased') = Cardinality(Leased) - 1
    BY <1>2, Finite, FS_RemoveElement
  <1>5. Cardinality(idle') = Cardinality(idle) + 1
    BY <1>3, Finite, FS_AddElement DEF Return
  <1>6. SlotsCoverConns'
    BY <1>4, <1>5, Finite DEF Return, SlotsCoverConns, LeaseTypeOK
  <1>7. Exclusive'
    BY <1>2 DEF Return, Exclusive, LeaseTypeOK
  <1> QED
    BY <1>1, <1>6, <1>7 DEF Return, OpenersHoldNone, LeaseTypeOK

\* and evicting one only makes room.
LEMMA EvictInv ==
    ASSUME LInv, Evict
    PROVE  LInv'
  <1> USE DEF LInv
  <1>1. Leased' = Leased
    BY DEF Evict, Leased
  <1>2. SlotsCoverConns'
    BY <1>1, FewerIdle, Finite, LeaseAssumption DEF Evict, SlotsCoverConns, LeaseTypeOK
  <1> QED
    BY <1>1, <1>2 DEF Evict, LeaseTypeOK, Exclusive, OpenersHoldNone

-----------------------------------------------------------------------------
\* The invariant holds of the empty pool
LEMMA LInvInit ==
    ASSUME LeaseInit
    PROVE  LInv
  <1>1. Leased = {}
    BY DEF LeaseInit, Leased
  <1>2. SlotsCoverConns
    BY <1>1, FS_EmptySet, LeaseAssumption DEF LeaseInit, SlotsCoverConns
  <1> QED
    BY <1>1, <1>2 DEF LeaseInit, LInv, LeaseTypeOK, Exclusive, OpenersHoldNone

\* and is preserved by every step.
LEMMA LInvNext ==
    ASSUME LInv, [LeaseNext]_leaseVars
    PROVE  LInv'
  <1>1. CASE UNCHANGED leaseVars
    BY <1>1 DEF leaseVars, LInv, LeaseTypeOK, Exclusive, SlotsCoverConns, OpenersHoldNone, Leased
  <1>2. CASE LeaseNext
    BY <1>2, StartOpenInv, OpenedInv, OpenFailedInv, LendInv, ReturnInv, EvictInv DEF LeaseNext
  <1> QED
    BY <1>1, <1>2

\* The state of the lease has its type in every reachable state.
THEOREM LeaseTyped == LeaseSpec => []LeaseTypeOK
  <1>1. LInv => LeaseTypeOK
    BY DEF LInv
  <1> QED
    BY <1>1, LInvInit, LInvNext, PTL DEF LeaseSpec

\* In every behaviour of the abstract lease the borrows are exclusive and the
\* connections, idle, lent or being opened, never outnumber the slots, which
\* never outnumber the size: what DataSource.getConnection and releaseConn are for.
THEOREM LeaseSafe == LeaseSpec => [](Exclusive /\ SlotsCoverConns)
  <1>1. LInv => Exclusive /\ SlotsCoverConns
    BY DEF LInv
  <1> QED
    BY <1>1, LInvInit, LInvNext, PTL DEF LeaseSpec

-----------------------------------------------------------------------------
(* The sessions. *)

\* Who has logged in is a user who may, on a connection that is there.
Identified ==
    \A s \in Clients :
        account[s] # Stranger =>
            /\ pc[s] # "off"
            /\ UserExists(account[s], Host[s])
            /\ SchemaOk(account[s], database[s])

\* Statements are those of a connection that has logged in on a schema with
\* a data node, there is one left, and only they open connections.
Statements ==
    /\ \A s \in Clients :
          pc[s] \in {"borrow", "execute", "result"} =>
              account[s] # Stranger /\ database[s] # NoDb /\ todo[s] > 0
    /\ \A s \in opening : pc[s] = "borrow"

IInv ==
    /\ LInv /\ TypeOK /\ BorrowMatchesBinding /\ RegistryExact
    /\ Identified /\ Statements

-----------------------------------------------------------------------------
\* A step of a session is one of the lease, or leaves the lease alone.
LEMMA LeaseStep ==
    ASSUME IInv, NEW s \in Clients, Server(s) \/ Client(s)
    PROVE  LeaseNext \/ UNCHANGED leaseVars
  <1>1. CASE Accept(s)
    BY <1>1 DEF Accept, LeaseNext, leaseVars, sessionVars, identity, work,
       registry
  <1>2. CASE Written(s)
    BY <1>2 DEF Written, LeaseNext, leaseVars, sessionVars, identity,
       work, registry
  <1>3. CASE WriteEnds(s)
    BY <1>3 DEF WriteEnds, End, Close, LeaseNext, leaseVars, sessionVars,
       identity, work, registry
  <1>4. CASE PeerCloses(s)
    BY <1>4 DEF PeerCloses, End, Close, LeaseNext, leaseVars, sessionVars,
       identity, work, registry
  <1>5. CASE TooLarge(s)
    BY <1>5 DEF TooLarge, LeaseNext, leaseVars, sessionVars, identity,
       work, registry
  <1>6. CASE \E u \in Users \cup {Stranger}, good \in BOOLEAN, d \in Schemas \cup {NoDb} :
                    Login(s, u, good, d)
    BY <1>6 DEF Login, Account, NextPacket, LeaseNext, leaseVars,
       sessionVars, identity, work, registry
  <1>7. CASE LoginRefused(s)
    BY <1>7 DEF LoginRefused, NextPacket, LeaseNext, leaseVars,
       sessionVars, identity, work, registry
  <1>8. CASE Quit(s)
    BY <1>8 DEF Quit, End, Close, LeaseNext, leaseVars, sessionVars,
       identity, work, registry
  <1>9. CASE \E left \in 0..(MaxBatch - 1) : Answer(s, left)
    BY <1>9 DEF Answer, Command, NextPacket, LeaseNext, leaseVars,
       sessionVars, identity, work, registry
  <1>10. CASE \E left \in 0..(MaxBatch - 1), n \in 1..MaxStmts : Query(s, left, n)
    BY <1>10 DEF Query, Command, NextPacket, LeaseNext, leaseVars,
       sessionVars, identity, work, registry
  <1>11. CASE \E c \in Conns : Borrow(s, c)
    BY <1>11 DEF Borrow, Bind, Lend, LeaseNext, leaseVars, sessionVars,
       identity, work, registry
  <1>12. CASE Open(s)
    BY <1>12 DEF Open, StartOpen, LeaseNext, leaseVars, sessionVars,
       identity, work, registry
  <1>13. CASE \E c \in Conns : Opens(s, c)
    BY <1>13 DEF Opens, Bind, Opened, LeaseNext, leaseVars, sessionVars,
       identity, work, registry
  <1>14. CASE OpenFails(s)
    BY <1>14 DEF OpenFails, OpenFailed, End, Close, LeaseNext, leaseVars,
       sessionVars, identity, work, registry
  <1>15. CASE ConnRefused(s)
    BY <1>15 DEF ConnRefused, LeaseNext, leaseVars, sessionVars, identity,
       work, registry
  <1>16. CASE Executed(s)
    BY <1>16 DEF Executed, LeaseNext, leaseVars, sessionVars, identity,
       work, registry
  <1>17. CASE Sent(s)
    BY <1>17 DEF Sent, Unbind, Return, LeaseNext, leaseVars, sessionVars,
       identity, work, registry
  <1>18. CASE StmtFails(s)
    BY <1>18 DEF StmtFails, Unbind, Return, End, Close, LeaseNext,
       leaseVars, sessionVars, identity, work, registry
  <1> QED
    BY <1>1, <1>2, <1>3, <1>4, <1>5, <1>6, <1>7, <1>8, <1>9, <1>10, <1>11, <1>12, <1>13, <1>14, <1>15, <1>16, <1>17, <1>18 DEF Server, Client

\* Whom the privileges admit is a user of the configuration.
LEMMA AdmittedIsUser ==
    ASSUME NEW u, NEW h, UserExists(u, h)
    PROVE  u \in Users /\ u # Stranger
  BY SessionAssumption DEF UserExists

\* Every step keeps the types,
LEMMA TypeStep ==
    ASSUME IInv, LInv', NEW s \in Clients, Server(s) \/ Client(s)
    PROVE  TypeOK'
  <1>1. CASE Accept(s)
    BY <1>1 DEF Accept, IInv, LInv, TypeOK, Statements, leaseVars,
       sessionVars, identity, work, registry
  <1>2. CASE Written(s)
    BY <1>2 DEF Written, IInv, LInv, TypeOK, Statements, leaseVars,
       sessionVars, identity, work, registry
  <1>3. CASE WriteEnds(s)
    BY <1>3 DEF WriteEnds, End, Close, IInv, LInv, TypeOK, Statements,
       leaseVars, sessionVars, identity, work, registry
  <1>4. CASE PeerCloses(s)
    BY <1>4 DEF PeerCloses, End, Close, IInv, LInv, TypeOK, Statements,
       leaseVars, sessionVars, identity, work, registry
  <1>5. CASE TooLarge(s)
    BY <1>5 DEF TooLarge, IInv, LInv, TypeOK, Statements, leaseVars,
       sessionVars, identity, work, registry
  <1>6. CASE \E u \in Users \cup {Stranger}, good \in BOOLEAN, d \in Schemas \cup {NoDb} :
                    Login(s, u, good, d)
    BY <1>6, SessionAssumption DEF Login, Account, NextPacket, IInv, LInv,
       TypeOK, Statements, leaseVars, sessionVars, identity, work,
       registry
  <1>7. CASE LoginRefused(s)
    BY <1>7 DEF LoginRefused, NextPacket, IInv, LInv, TypeOK, Statements,
       leaseVars, sessionVars, identity, work, registry
  <1>8. CASE Quit(s)
    BY <1>8 DEF Quit, End, Close, IInv, LInv, TypeOK, Statements,
       leaseVars, sessionVars, identity, work, registry
  <1>9. CASE \E left \in 0..(MaxBatch - 1) : Answer(s, left)
    BY <1>9 DEF Answer, Command, NextPacket, IInv, LInv, TypeOK,
       Statements, leaseVars, sessionVars, identity, work, registry
  <1>10. CASE \E left \in 0..(MaxBatch - 1), n \in 1..MaxStmts : Query(s, left, n)
    BY <1>10 DEF Query, Command, NextPacket, IInv, LInv, TypeOK,
       Statements, leaseVars, sessionVars, identity, work, registry
  <1>11. CASE \E c \in Conns : Borrow(s, c)
    BY <1>11 DEF Borrow, Bind, Lend, IInv, LInv, TypeOK, Statements,
       leaseVars, sessionVars, identity, work, registry
  <1>12. CASE Open(s)
    BY <1>12 DEF Open, StartOpen, IInv, LInv, TypeOK, Statements,
       leaseVars, sessionVars, identity, work, registry
  <1>13. CASE \E c \in Conns : Opens(s, c)
    BY <1>13 DEF Opens, Bind, Opened, IInv, LInv, TypeOK, Statements,
       leaseVars, sessionVars, identity, work, registry
  <1>14. CASE OpenFails(s)
    BY <1>14 DEF OpenFails, OpenFailed, End, Close, IInv, LInv, TypeOK,
       Statements, leaseVars, sessionVars, identity, work, registry
  <1>15. CASE ConnRefused(s)
    BY <1>15 DEF ConnRefused, IInv, LInv, TypeOK, Statements, leaseVars,
       sessionVars, identity, work, registry
  <1>16. CASE Executed(s)
    BY <1>16 DEF Executed, IInv, LInv, TypeOK, Statements, leaseVars,
       sessionVars, identity, work, registry
  <1>17. CASE Sent(s)
    BY <1>17 DEF Sent, Unbind, Return, IInv, LInv, TypeOK, Statements,
       leaseVars, sessionVars, identity, work, registry
  <1>18. CASE StmtFails(s)
    BY <1>18 DEF StmtFails, Unbind, Return, End, Close, IInv, LInv,
       TypeOK, Statements, leaseVars, sessionVars, identity, work,
       registry
  <1> QED
    BY <1>1, <1>2, <1>3, <1>4, <1>5, <1>6, <1>7, <1>8, <1>9, <1>10, <1>11, <1>12, <1>13, <1>14, <1>15, <1>16, <1>17, <1>18 DEF Server, Client

\* the bindings,
LEMMA BorrowStep ==
    ASSUME IInv, NEW s \in Clients, Server(s) \/ Client(s)
    PROVE  BorrowMatchesBinding'
  <1>1. CASE Accept(s)
    BY <1>1 DEF Accept, IInv, TypeOK, LeaseTypeOK, BorrowMatchesBinding,
       Statements, leaseVars, sessionVars, identity, work, registry
  <1>2. CASE Written(s)
    BY <1>2 DEF Written, IInv, TypeOK, LeaseTypeOK, BorrowMatchesBinding,
       Statements, leaseVars, sessionVars, identity, work, registry
  <1>3. CASE WriteEnds(s)
    BY <1>3 DEF WriteEnds, End, Close, IInv, TypeOK, LeaseTypeOK,
       BorrowMatchesBinding, Statements, leaseVars, sessionVars, identity,
       work, registry
  <1>4. CASE PeerCloses(s)
    BY <1>4 DEF PeerCloses, End, Close, IInv, TypeOK, LeaseTypeOK,
       BorrowMatchesBinding, Statements, leaseVars, sessionVars, identity,
       work, registry
  <1>5. CASE TooLarge(s)
    BY <1>5 DEF TooLarge, IInv, TypeOK, LeaseTypeOK, BorrowMatchesBinding,
       Statements, leaseVars, sessionVars, identity, work, registry
  <1>6. CASE \E u \in Users \cup {Stranger}, good \in BOOLEAN, d \in Schemas \cup {NoDb} :
                    Login(s, u, good, d)
    BY <1>6 DEF Login, Account, NextPacket, IInv, TypeOK, LeaseTypeOK,
       BorrowMatchesBinding, Statements, leaseVars, sessionVars, identity,
       work, registry
  <1>7. CASE LoginRefused(s)
    BY <1>7 DEF LoginRefused, NextPacket, IInv, TypeOK, LeaseTypeOK,
       BorrowMatchesBinding, Statements, leaseVars, sessionVars, identity,
       work, registry
  <1>8. CASE Quit(s)
    BY <1>8 DEF Quit, End, Close, IInv, TypeOK, LeaseTypeOK,
       BorrowMatchesBinding, Statements, leaseVars, sessionVars, identity,
       work, registry
  <1>9. CASE \E left \in 0..(MaxBatch - 1) : Answer(s, left)
    BY <1>9 DEF Answer, Command, NextPacket, IInv, TypeOK, LeaseTypeOK,
       BorrowMatchesBinding, Statements, leaseVars, sessionVars, identity,
       work, registry
  <1>10. CASE \E left \in 0..(MaxBatch - 1), n \in 1..MaxStmts : Query(s, left, n)
    BY <1>10 DEF Query, Command, NextPacket, IInv, TypeOK, LeaseTypeOK,
       BorrowMatchesBinding, Statements, leaseVars, sessionVars, identity,
       work, registry
  <1>11. CASE \E c \in Conns : Borrow(s, c)
    BY <1>11, LeaseAssumption DEF Borrow, Bind, Lend, IInv, TypeOK,
       LeaseTypeOK, BorrowMatchesBinding, Statements, leaseVars,
       sessionVars, identity, work, registry
  <1>12. CASE Open(s)
    BY <1>12 DEF Open, StartOpen, IInv, TypeOK, LeaseTypeOK,
       BorrowMatchesBinding, Statements, leaseVars, sessionVars, identity,
       work, registry
  <1>13. CASE \E c \in Conns : Opens(s, c)
    BY <1>13, LeaseAssumption DEF Opens, Bind, Opened, IInv, TypeOK,
       LeaseTypeOK, BorrowMatchesBinding, Statements, leaseVars,
       sessionVars, identity, work, registry
  <1>14. CASE OpenFails(s)
    BY <1>14 DEF OpenFails, OpenFailed, End, Close, IInv, TypeOK,
       LeaseTypeOK, BorrowMatchesBinding, Statements, leaseVars,
       sessionVars, identity, work, registry
  <1>15. CASE ConnRefused(s)
    BY <1>15 DEF ConnRefused, IInv, TypeOK, LeaseTypeOK,
       BorrowMatchesBinding, Statements, leaseVars, sessionVars, identity,
       work, registry
  <1>16. CASE Executed(s)
    BY <1>16 DEF Executed, IInv, TypeOK, LeaseTypeOK,
       BorrowMatchesBinding, Statements, leaseVars, sessionVars, identity,
       work, registry
  <1>17. CASE Sent(s)
    BY <1>17 DEF Sent, Unbind, Return, IInv, TypeOK, LeaseTypeOK,
       BorrowMatchesBinding, Statements, leaseVars, sessionVars, identity,
       work, registry
  <1>18. CASE StmtFails(s)
    BY <1>18 DEF StmtFails, Unbind, Return, End, Close, IInv, TypeOK,
       LeaseTypeOK, BorrowMatchesBinding, Statements, leaseVars,
       sessionVars, identity, work, registry
  <1> QED
    BY <1>1, <1>2, <1>3, <1>4, <1>5, <1>6, <1>7, <1>8, <1>9, <1>10, <1>11, <1>12, <1>13, <1>14, <1>15, <1>16, <1>17, <1>18 DEF Server, Client

\* the registry,
LEMMA RegistryStep ==
    ASSUME IInv, NEW s \in Clients, Server(s) \/ Client(s)
    PROVE  RegistryExact'
  <1>1. CASE Accept(s)
    BY <1>1 DEF Accept, IInv, TypeOK, RegistryExact, Live, leaseVars,
       sessionVars, identity, work, registry
  <1>2. CASE Written(s)
    BY <1>2 DEF Written, IInv, TypeOK, RegistryExact, Live, leaseVars,
       sessionVars, identity, work, registry
  <1>3. CASE WriteEnds(s)
    BY <1>3 DEF WriteEnds, End, Close, IInv, TypeOK, RegistryExact, Live,
       leaseVars, sessionVars, identity, work, registry
  <1>4. CASE PeerCloses(s)
    BY <1>4 DEF PeerCloses, End, Close, IInv, TypeOK, RegistryExact, Live,
       leaseVars, sessionVars, identity, work, registry
  <1>5. CASE TooLarge(s)
    BY <1>5 DEF TooLarge, IInv, TypeOK, RegistryExact, Live, leaseVars,
       sessionVars, identity, work, registry
  <1>6. CASE \E u \in Users \cup {Stranger}, good \in BOOLEAN, d \in Schemas \cup {NoDb} :
                    Login(s, u, good, d)
    BY <1>6 DEF Login, Account, NextPacket, IInv, TypeOK, RegistryExact,
       Live, leaseVars, sessionVars, identity, work, registry
  <1>7. CASE LoginRefused(s)
    BY <1>7 DEF LoginRefused, NextPacket, IInv, TypeOK, RegistryExact,
       Live, leaseVars, sessionVars, identity, work, registry
  <1>8. CASE Quit(s)
    BY <1>8 DEF Quit, End, Close, IInv, TypeOK, RegistryExact, Live,
       leaseVars, sessionVars, identity, work, registry
  <1>9. CASE \E left \in 0..(MaxBatch - 1) : Answer(s, left)
    BY <1>9 DEF Answer, Command, NextPacket, IInv, TypeOK, RegistryExact,
       Live, leaseVars, sessionVars, identity, work, registry
  <1>10. CASE \E left \in 0..(MaxBatch - 1), n \in 1..MaxStmts : Query(s, left, n)
    BY <1>10 DEF Query, Command, NextPacket, IInv, TypeOK, RegistryExact,
       Live, leaseVars, sessionVars, identity, work, registry
  <1>11. CASE \E c \in Conns : Borrow(s, c)
    BY <1>11 DEF Borrow, Bind, Lend, IInv, TypeOK, RegistryExact, Live,
       leaseVars, sessionVars, identity, work, registry
  <1>12. CASE Open(s)
    BY <1>12 DEF Open, StartOpen, IInv, TypeOK, RegistryExact, Live,
       leaseVars, sessionVars, identity, work, registry
  <1>13. CASE \E c \in Conns : Opens(s, c)
    BY <1>13 DEF Opens, Bind, Opened, IInv, TypeOK, RegistryExact, Live,
       leaseVars, sessionVars, identity, work, registry
  <1>14. CASE OpenFails(s)
    BY <1>14 DEF OpenFails, OpenFailed, End, Close, IInv, TypeOK,
       RegistryExact, Live, leaseVars, sessionVars, identity, work,
       registry
  <1>15. CASE ConnRefused(s)
    BY <1>15 DEF ConnRefused, IInv, TypeOK, RegistryExact, Live,
       leaseVars, sessionVars, identity, work, registry
  <1>16. CASE Executed(s)
    BY <1>16 DEF Executed, IInv, TypeOK, RegistryExact, Live, leaseVars,
       sessionVars, identity, work, registry
  <1>17. CASE Sent(s)
    BY <1>17 DEF Sent, Unbind, Return, IInv, TypeOK, RegistryExact, Live,
       leaseVars, sessionVars, identity, work, registry
  <1>18. CASE StmtFails(s)
    BY <1>18 DEF StmtFails, Unbind, Return, End, Close, IInv, TypeOK,
       RegistryExact, Live, leaseVars, sessionVars, identity, work,
       registry
  <1> QED
    BY <1>1, <1>2, <1>3, <1>4, <1>5, <1>6, <1>7, <1>8, <1>9, <1>10, <1>11, <1>12, <1>13, <1>14, <1>15, <1>16, <1>17, <1>18 DEF Server, Client

\* what is known of a login,
LEMMA IdentifiedStep ==
    ASSUME IInv, NEW s \in Clients, Server(s) \/ Client(s)
    PROVE  Identified'
  <1>1. CASE Accept(s)
    BY <1>1 DEF Accept, IInv, TypeOK, Identified, UserExists, SchemaOk,
       leaseVars, sessionVars, identity, work, registry
  <1>2. CASE Written(s)
    BY <1>2 DEF Written, IInv, TypeOK, Identified, UserExists, SchemaOk,
       leaseVars, sessionVars, identity, work, registry
  <1>3. CASE WriteEnds(s)
    BY <1>3 DEF WriteEnds, End, Close, IInv, TypeOK, Identified,
       UserExists, SchemaOk, leaseVars, sessionVars, identity, work,
       registry
  <1>4. CASE PeerCloses(s)
    BY <1>4 DEF PeerCloses, End, Close, IInv, TypeOK, Identified,
       UserExists, SchemaOk, leaseVars, sessionVars, identity, work,
       registry
  <1>5. CASE TooLarge(s)
    BY <1>5 DEF TooLarge, IInv, TypeOK, Identified, UserExists, SchemaOk,
       leaseVars, sessionVars, identity, work, registry
  <1>6. CASE \E u \in Users \cup {Stranger}, good \in BOOLEAN, d \in Schemas \cup {NoDb} :
                    Login(s, u, good, d)
    BY <1>6, AdmittedIsUser DEF Login, Admits, Account, NextPacket, IInv, TypeOK,
       Identified, UserExists, SchemaOk, leaseVars, sessionVars, identity,
       work, registry
  <1>7. CASE LoginRefused(s)
    BY <1>7 DEF LoginRefused, NextPacket, IInv, TypeOK, Identified,
       UserExists, SchemaOk, leaseVars, sessionVars, identity, work,
       registry
  <1>8. CASE Quit(s)
    BY <1>8 DEF Quit, End, Close, IInv, TypeOK, Identified, UserExists,
       SchemaOk, leaseVars, sessionVars, identity, work, registry
  <1>9. CASE \E left \in 0..(MaxBatch - 1) : Answer(s, left)
    BY <1>9 DEF Answer, Command, NextPacket, IInv, TypeOK, Identified,
       UserExists, SchemaOk, leaseVars, sessionVars, identity, work,
       registry
  <1>10. CASE \E left \in 0..(MaxBatch - 1), n \in 1..MaxStmts : Query(s, left, n)
    BY <1>10 DEF Query, Command, NextPacket, IInv, TypeOK, Identified,
       UserExists, SchemaOk, leaseVars, sessionVars, identity, work,
       registry
  <1>11. CASE \E c \in Conns : Borrow(s, c)
    BY <1>11 DEF Borrow, Bind, Lend, IInv, TypeOK, Identified, UserExists,
       SchemaOk, leaseVars, sessionVars, identity, work, registry
  <1>12. CASE Open(s)
    BY <1>12 DEF Open, StartOpen, IInv, TypeOK, Identified, UserExists,
       SchemaOk, leaseVars, sessionVars, identity, work, registry
  <1>13. CASE \E c \in Conns : Opens(s, c)
    BY <1>13 DEF Opens, Bind, Opened, IInv, TypeOK, Identified,
       UserExists, SchemaOk, leaseVars, sessionVars, identity, work,
       registry
  <1>14. CASE OpenFails(s)
    BY <1>14 DEF OpenFails, OpenFailed, End, Close, IInv, TypeOK,
       Identified, UserExists, SchemaOk, leaseVars, sessionVars, identity,
       work, registry
  <1>15. CASE ConnRefused(s)
    BY <1>15 DEF ConnRefused, IInv, TypeOK, Identified, UserExists,
       SchemaOk, leaseVars, sessionVars, identity, work, registry
  <1>16. CASE Executed(s)
    BY <1>16 DEF Executed, IInv, TypeOK, Identified, UserExists, SchemaOk,
       leaseVars, sessionVars, identity, work, registry
  <1>17. CASE Sent(s)
    BY <1>17 DEF Sent, Unbind, Return, IInv, TypeOK, Identified,
       UserExists, SchemaOk, leaseVars, sessionVars, identity, work,
       registry
  <1>18. CASE StmtFails(s)
    BY <1>18 DEF StmtFails, Unbind, Return, End, Close, IInv, TypeOK,
       Identified, UserExists, SchemaOk, leaseVars, sessionVars, identity,
       work, registry
  <1> QED
    BY <1>1, <1>2, <1>3, <1>4, <1>5, <1>6, <1>7, <1>8, <1>9, <1>10, <1>11, <1>12, <1>13, <1>14, <1>15, <1>16, <1>17, <1>18 DEF Server, Client

\* and of a statement.
LEMMA StatementsStep ==
    ASSUME IInv, NEW s \in Clients, Server(s) \/ Client(s)
    PROVE  Statements'
  <1>1. CASE Accept(s)
    BY <1>1 DEF Accept, IInv, TypeOK, LeaseTypeOK, Statements, leaseVars,
       sessionVars, identity, work, registry
  <1>2. CASE Written(s)
    BY <1>2 DEF Written, IInv, TypeOK, LeaseTypeOK, Statements, leaseVars,
       sessionVars, identity, work, registry
  <1>3. CASE WriteEnds(s)
    BY <1>3 DEF WriteEnds, End, Close, IInv, TypeOK, LeaseTypeOK,
       Statements, leaseVars, sessionVars, identity, work, registry
  <1>4. CASE PeerCloses(s)
    BY <1>4 DEF PeerCloses, End, Close, IInv, TypeOK, LeaseTypeOK,
       Statements, leaseVars, sessionVars, identity, work, registry
  <1>5. CASE TooLarge(s)
    BY <1>5 DEF TooLarge, IInv, TypeOK, LeaseTypeOK, Statements,
       leaseVars, sessionVars, identity, work, registry
  <1>6. CASE \E u \in Users \cup {Stranger}, good \in BOOLEAN, d \in Schemas \cup {NoDb} :
                    Login(s, u, good, d)
    BY <1>6, AdmittedIsUser DEF Login, Account, NextPacket, IInv, TypeOK,
       LeaseTypeOK, Statements, leaseVars, sessionVars, identity, work,
       registry
  <1>7. CASE LoginRefused(s)
    BY <1>7 DEF LoginRefused, NextPacket, IInv, TypeOK, LeaseTypeOK,
       Statements, leaseVars, sessionVars, identity, work, registry
  <1>8. CASE Quit(s)
    BY <1>8 DEF Quit, End, Close, IInv, TypeOK, LeaseTypeOK, Statements,
       leaseVars, sessionVars, identity, work, registry
  <1>9. CASE \E left \in 0..(MaxBatch - 1) : Answer(s, left)
    BY <1>9 DEF Answer, Command, NextPacket, IInv, TypeOK, LeaseTypeOK,
       Statements, leaseVars, sessionVars, identity, work, registry
  <1>10. CASE \E left \in 0..(MaxBatch - 1), n \in 1..MaxStmts : Query(s, left, n)
    BY <1>10 DEF Query, Command, NextPacket, IInv, TypeOK, LeaseTypeOK,
       Statements, leaseVars, sessionVars, identity, work, registry
  <1>11. CASE \E c \in Conns : Borrow(s, c)
    BY <1>11 DEF Borrow, Bind, Lend, IInv, TypeOK, LeaseTypeOK,
       Statements, leaseVars, sessionVars, identity, work, registry
  <1>12. CASE Open(s)
    BY <1>12 DEF Open, StartOpen, IInv, TypeOK, LeaseTypeOK, Statements,
       leaseVars, sessionVars, identity, work, registry
  <1>13. CASE \E c \in Conns : Opens(s, c)
    BY <1>13 DEF Opens, Bind, Opened, IInv, TypeOK, LeaseTypeOK,
       Statements, leaseVars, sessionVars, identity, work, registry
  <1>14. CASE OpenFails(s)
    BY <1>14 DEF OpenFails, OpenFailed, End, Close, IInv, TypeOK,
       LeaseTypeOK, Statements, leaseVars, sessionVars, identity, work,
       registry
  <1>15. CASE ConnRefused(s)
    BY <1>15 DEF ConnRefused, IInv, TypeOK, LeaseTypeOK, Statements,
       leaseVars, sessionVars, identity, work, registry
  <1>16. CASE Executed(s)
    BY <1>16 DEF Executed, IInv, TypeOK, LeaseTypeOK, Statements,
       leaseVars, sessionVars, identity, work, registry
  <1>17. CASE Sent(s)
    BY <1>17 DEF Sent, Unbind, Return, IInv, TypeOK, LeaseTypeOK,
       Statements, leaseVars, sessionVars, identity, work, registry
  <1>18. CASE StmtFails(s)
    BY <1>18 DEF StmtFails, Unbind, Return, End, Close, IInv, TypeOK,
       LeaseTypeOK, Statements, leaseVars, sessionVars, identity, work,
       registry
  <1> QED
    BY <1>1, <1>2, <1>3, <1>4, <1>5, <1>6, <1>7, <1>8, <1>9, <1>10, <1>11, <1>12, <1>13, <1>14, <1>15, <1>16, <1>17, <1>18 DEF Server, Client


-----------------------------------------------------------------------------
\* The invariant holds in the beginning,
LEMMA IInvInit ==
    ASSUME Init
    PROVE  IInv
  <1>1. LInv
    BY LInvInit DEF Init
  <1>2. TypeOK
    BY <1>1 DEF LInv, Init, TypeOK
  <1> QED
    BY <1>1, <1>2, LeaseAssumption, SessionAssumption
    DEF Init, LeaseInit, IInv, BorrowMatchesBinding, RegistryExact, Live,
        Identified, Statements

\* and every step keeps it.
LEMMA IInvNext ==
    ASSUME IInv, [Next]_vars
    PROVE  IInv' /\ [LeaseNext]_leaseVars
  <1>1. CASE UNCHANGED vars
    BY <1>1 DEF IInv, LInv, TypeOK, LeaseTypeOK, Exclusive, SlotsCoverConns,
       OpenersHoldNone, Leased, BorrowMatchesBinding, RegistryExact, Live,
       Identified, Statements, vars, leaseVars, sessionVars, identity, work, registry
  <1>2. CASE EvictIdle
    <2>1. LInv' /\ LeaseNext
      BY <1>2, EvictInv DEF EvictIdle, IInv, LeaseNext
    <2> QED
      BY <1>2, <2>1 DEF EvictIdle, Evict, IInv, LInv, TypeOK, LeaseTypeOK,
         BorrowMatchesBinding, RegistryExact, Live, Identified, Statements, vars, leaseVars, sessionVars, identity, work, registry
  <1>3. ASSUME NEW s \in Clients, Server(s) \/ Client(s)
        PROVE  IInv' /\ [LeaseNext]_leaseVars
    <2>1. [LeaseNext]_leaseVars
      BY <1>3, LeaseStep
    <2>2. LInv'
      BY <2>1, LInvNext DEF IInv
    <2> QED
      BY <1>3, <2>1, <2>2, TypeStep, BorrowStep, RegistryStep, IdentifiedStep,
         StatementsStep DEF IInv
  <1> QED
    BY <1>1, <1>2, <1>3 DEF Next

LEMMA IInvAlways == Spec => []IInv
  BY IInvInit, IInvNext, PTL DEF Spec

-----------------------------------------------------------------------------
\* The state of the sessions has its type in every reachable state.
THEOREM SessionsTyped == Spec => []TypeOK
  <1>1. IInv => TypeOK
    BY DEF IInv
  <1> QED
    BY <1>1, IInvAlways, PTL

\* Every backend a session holds is the one of its statement under way, and
\* it is given back exactly once: SingleNodeHandler.invoke and its finally block.
THEOREM BackendsComeBack == Spec => []BorrowMatchesBinding
  <1>1. IInv => BorrowMatchesBinding
    BY DEF IInv
  <1> QED
    BY <1>1, IInvAlways, PTL

\* Connections are registered and have a buffer while they live: make, close.
THEOREM RegistryIsExact == Spec => []RegistryExact
  <1>1. IInv => RegistryExact
    BY DEF IInv
  <1> QED
    BY <1>1, IInvAlways, PTL

\* Only statements that the privileges admit reach the backends: the order of
\* the authentication, command and query handlers.
THEOREM QueriesAreAdmitted == Spec => []OnlyAdmittedQueries
  <1>1. IInv => OnlyAdmittedQueries
    BY AdmittedIsUser, SessionAssumption DEF IInv, Identified, Statements,
       OnlyAdmittedQueries, SchemaOk
  <1> QED
    BY <1>1, IInvAlways, PTL

\* Sessions use the lease as ConnLease allows, so that what it promises holds
\* for them: the composition of the two.
THEOREM SessionsUseTheLease == Spec => LeaseSpec
  <1>1. Init => LeaseInit
    BY DEF Init
  <1> QED
    BY <1>1, IInvAlways, IInvNext, PTL DEF Spec, LeaseSpec

\* Whatever sessions do, no two of them share a backend connection, and the
\* connections never outnumber the slots of the pool.
THEOREM SessionsShareNothing == Spec => [](Exclusive /\ SlotsCoverConns)
  BY SessionsUseTheLease, LeaseSafe, PTL

-----------------------------------------------------------------------------
\* The connections of a user.
Of(u) == {s \in Clients : account[s] = u}

\* They are registered, so that the count a login looks at includes them.
LEMMA OfRegistered ==
    ASSUME IInv, NEW u \in Users
    PROVE  /\ Of(u) \subseteq frontends
           /\ IsFiniteSet(frontends) /\ IsFiniteSet(Of(u))
           /\ Cardinality(Of(u)) \in Nat /\ Cardinality(frontends) \in Nat
           /\ Cardinality(Of(u)) <= Cardinality(frontends)
  <1>1. Of(u) \subseteq frontends /\ frontends \subseteq Clients
    BY SessionAssumption DEF IInv, Identified, RegistryExact, Live, Of
  <1>2. IsFiniteSet(frontends) /\ IsFiniteSet(Of(u))
    BY <1>1, FS_Subset, LeaseAssumption
  <1> QED
    BY <1>1, <1>2, FS_Subset, FS_CardinalityType

\* A step that is not a login of the user adds no connection to hers.
LEMMA OnlyLoginsAdd ==
    ASSUME IInv, NEW u \in Users, [Next]_vars,
           ~\E s \in Clients, v \in Users \cup {Stranger}, good \in BOOLEAN,
              d \in Schemas \cup {NoDb} : Login(s, v, good, d)
    PROVE  Of(u)' \subseteq Of(u)
  <1>1. CASE UNCHANGED account
    BY <1>1 DEF Of
  <1>2. ASSUME NEW s \in Clients, End(s)
        PROVE  Of(u)' \subseteq Of(u)
    BY <1>2, SessionAssumption DEF IInv, TypeOK, End, Of
  <1>3. UNCHANGED account \/ \E s \in Clients : End(s)
    BY DEF vars, leaseVars, sessionVars, identity, work, registry, Next, Server, Client, EvictIdle, Accept, Written, WriteEnds, PeerCloses, TooLarge,
       LoginRefused, Quit, Answer, Query, Borrow, Bind, Open,
       Opens, OpenFails, ConnRefused, Executed, Sent, StmtFails
  <1> QED
    BY <1>1, <1>2, <1>3

\* However logins race with other accepts and closes, a user's connections
\* stay within the load limit (connsLimited in FrontAuthHandler).
THEOREM LimitsAreKept == Spec => []BenchmarkKept
  <1>1. Init => BenchmarkKept
    <2> SUFFICES ASSUME Init, NEW u \in Users
                 PROVE  Cardinality({s \in Clients : account[s] = u}) = 0
      BY SessionAssumption DEF BenchmarkKept
    <2>1. {s \in Clients : account[s] = u} = {}
      BY SessionAssumption DEF Init
    <2> QED
      BY <2>1, FS_EmptySet
  <1>2. IInv /\ IInv' /\ BenchmarkKept /\ [Next]_vars => BenchmarkKept'
    <2> SUFFICES ASSUME IInv, IInv', BenchmarkKept, [Next]_vars,
                        NEW u \in Users, Benchmark[u] > 0
                 PROVE  Cardinality(Of(u)') <= Benchmark[u]
      BY DEF BenchmarkKept, Of
    <2>0. Cardinality(Of(u)) <= Benchmark[u]
      BY DEF BenchmarkKept, Of
    <2>1. CASE \E s \in Clients, v \in Users \cup {Stranger}, good \in BOOLEAN,
                 d \in Schemas \cup {NoDb} : Login(s, v, good, d)
      <3> PICK s \in Clients, v \in Users \cup {Stranger}, good \in BOOLEAN,
               d \in Schemas \cup {NoDb} : Login(s, v, good, d)
        BY <2>1
      <3>1. CASE Account(v) = u
        <4>1. Of(u)' \subseteq frontends'
          BY SessionAssumption DEF IInv, Identified, RegistryExact, Live, Of
        <4>2. frontends' = frontends /\ Cardinality(frontends) < Benchmark[u]
          BY <3>1, OfRegistered, SessionAssumption DEF Login, Admits, ConnsLimited, registry
        <4>3. Cardinality(Of(u)') <= Cardinality(frontends)
          BY <4>1, <4>2, OfRegistered, FS_Subset
        <4>4. Cardinality(Of(u)') \in Nat
          BY <4>1, <4>2, OfRegistered, FS_Subset, FS_CardinalityType
        <4> QED
          BY <4>2, <4>3, <4>4, OfRegistered, SessionAssumption
      <3>2. CASE Account(v) # u
        <4>1. Of(u)' \subseteq Of(u)
          BY <3>2 DEF Login, Of, IInv, TypeOK
        <4> QED
          BY <4>1, <2>0, OfRegistered, FS_Subset, FS_CardinalityType, SessionAssumption
      <3> QED
        BY <3>1, <3>2
    <2>2. CASE ~\E s \in Clients, v \in Users \cup {Stranger}, good \in BOOLEAN,
                 d \in Schemas \cup {NoDb} : Login(s, v, good, d)
      <3>1. Of(u)' \subseteq Of(u)
        BY <2>2, OnlyLoginsAdd
      <3> QED
        BY <3>1, <2>0, OfRegistered, FS_Subset, FS_CardinalityType, SessionAssumption
    <2> QED
      BY <2>1, <2>2
  <1> QED
    BY <1>1, <1>2, IInvAlways, PTL DEF Spec
=============================================================================
