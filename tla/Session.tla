------------------------------- MODULE Session -------------------------------
(***************************************************************************)
(* The client side of the proxy: NetServer accepts a socket and runs one   *)
(* coroutine for it, which makes a FrontConnection, greets the client and  *)
(* then takes its packets through the authentication, command and query    *)
(* handlers. A statement borrows a backend connection, which is the lease  *)
(* of ConnLease, and gives it back. An action is the code between two      *)
(* calls that block: socket reads and writes, getConnection, execute. The  *)
(* top of the read loop is a point of its own.                             *)
(***************************************************************************)
EXTENDS ConnLease

CONSTANTS
    Users,          \* the users of the configuration
    Stranger,       \* a user that is not in it
    Schemas,        \* the schemas of the configuration
    NoDb,           \* no schema: the client named none
    Grants,         \* the schemas of each user
    Benchmark,      \* the load limit of each user, 0 for none
    Host,           \* the host each client comes from
    White,          \* the users that may come from each listed host
    DefaultAccount, \* the user of logins that need no password, or Stranger
    Buffers,        \* the write buffers the buffer pool has room for
    MaxStmts,       \* bound: statements of a query
    MaxBatch        \* bound: packets of one compressed read

ASSUME SessionAssumption ==
    /\ Stranger \notin Users /\ NoDb \notin Schemas
    /\ Grants \in [Users -> SUBSET Schemas]
    /\ Benchmark \in [Users -> Nat]
    /\ \A h \in DOMAIN White : White[h] \subseteq Users
    /\ DefaultAccount \in Users \cup {Stranger}
    /\ Buffers \in Nat /\ MaxStmts \in Nat \ {0} /\ MaxBatch \in Nat \ {0}

VARIABLES
    pc,         \* where the coroutine of each client is blocked
    account,    \* the user of each authenticated connection
    database,   \* and its schema
    batch,      \* the packets each has read and not handled
    todo,       \* the statements left of its query
    bound,      \* the backend its route node is bound to
    frontends,  \* the registry of ConnManager
    buffered,   \* the connections that have a write buffer
    loose       \* whether nonePasswordLogin is set

identity == <<account, database>>
work == <<batch, todo>>
registry == <<frontends, buffered>>
sessionVars == <<pc, identity, work, bound, registry, loose>>
vars == <<leaseVars, sessionVars>>

Live == {s \in Clients : pc[s] # "off"}

TypeOK ==
    /\ LeaseTypeOK
    /\ pc \in [Clients -> {"off", "greet", "read", "refuse", "reply",
                           "borrow", "execute", "result"}]
    /\ account \in [Clients -> Users \cup {Stranger}]
    /\ database \in [Clients -> Schemas \cup {NoDb}]
    /\ batch \in [Clients -> Nat]
    /\ todo \in [Clients -> Nat]
    /\ bound \in [Clients -> Conns \cup {None}]
    /\ frontends \in SUBSET Clients
    /\ buffered \in SUBSET Clients
    /\ loose \in BOOLEAN

Init ==
    /\ LeaseInit
    /\ pc = [s \in Clients |-> "off"]
    /\ account = [s \in Clients |-> Stranger]
    /\ database = [s \in Clients |-> NoDb]
    /\ batch = [s \in Clients |-> 0]
    /\ todo = [s \in Clients |-> 0]
    /\ bound = [s \in Clients |-> None]
    /\ frontends = {}
    /\ buffered = {}
    /\ loose \in BOOLEAN

-----------------------------------------------------------------------------
\* The connection and its end.

\* Mutant: a connection that ends stays in the registry.
CloseKeeping(s) == buffered' = buffered \ {s} /\ UNCHANGED frontends

\* Connection.close: the buffer goes back and the registry forgets the id.
Close(s) == buffered' = buffered \ {s} /\ frontends' = frontends \ {s}

\* The coroutine ends, by an error that handle() catches or because the read
\* loop sees a closed connection. The next one starts with a new object.
End(s) ==
    /\ Close(s)
    /\ pc' = [pc EXCEPT ![s] = "off"]
    /\ account' = [account EXCEPT ![s] = Stranger]
    /\ database' = [database EXCEPT ![s] = NoDb]
    /\ batch' = [batch EXCEPT ![s] = 0]
    /\ todo' = [todo EXCEPT ![s] = 0]

\* A socket is accepted. Without room for a write buffer the connection is
\* closed before it is registered, which changes nothing here.
Accept(s) ==
    /\ pc[s] = "off"
    /\ Cardinality(buffered) < Buffers
    /\ buffered' = buffered \cup {s}
    /\ frontends' = frontends \cup {s}
    /\ pc' = [pc EXCEPT ![s] = "greet"]
    /\ UNCHANGED <<leaseVars, identity, work, bound, loose>>

\* A write of a packet that leaves the session going returns,
Written(s) ==
    /\ pc[s] \in {"greet", "reply"}
    /\ pc' = [pc EXCEPT ![s] = "read"]
    /\ UNCHANGED <<leaseVars, identity, work, bound, registry, loose>>

\* or it fails, or it was the error packet of a login or a packet size that
\* is refused, after which the connection is closed.
WriteEnds(s) ==
    /\ pc[s] \in {"greet", "reply", "refuse"}
    /\ End(s)
    /\ UNCHANGED <<leaseVars, bound, loose>>

-----------------------------------------------------------------------------
\* Reading and authentication.

\* The peer closes, the read fails or times out.
PeerCloses(s) ==
    /\ pc[s] = "read" /\ batch[s] = 0
    /\ End(s)
    /\ UNCHANGED <<leaseVars, bound, loose>>

\* A packet larger than maxAllowedPacket gets an error packet.
TooLarge(s) ==
    /\ pc[s] = "read" /\ batch[s] = 0
    /\ pc' = [pc EXCEPT ![s] = "refuse"]
    /\ UNCHANGED <<leaseVars, identity, work, bound, registry, loose>>

\* The next packet: the rest of what was read, or a fresh read, which yields
\* several packets at once if the login agreed on compression. left remain.
NextPacket(s, left) ==
    /\ pc[s] = "read"
    /\ IF batch[s] > 0 THEN left = batch[s] - 1
       ELSE left = 0 \/ (account[s] # Stranger /\ left < MaxBatch)

UserExists(u, h) ==
    IF DOMAIN White = {} THEN u \in Users
    ELSE h \in DOMAIN White /\ u \in White[h]

\* Mutant: a Map has a size and no length; undefined is never enough.
LengthLimited(u) == FALSE

\* The connection that logs in is itself among the frontends it counts.
ConnsLimited(u) == Benchmark[u] > 0 /\ Cardinality(frontends) >= Benchmark[u]

SchemaOk(u, d) == d = NoDb \/ d \in Grants[u]

\* Mutant: the schema is not checked against the user's.
AdmitsAnySchema(s, u, good, d) ==
    /\ UserExists(u, Host[s])
    /\ loose \/ good
    /\ ~ConnsLimited(u)

Admits(s, u, good, d) ==
    /\ UserExists(u, Host[s])
    /\ loose \/ good
    /\ ~ConnsLimited(u)
    /\ SchemaOk(u, d)

\* Without passwords every login is the default account's, if there is one.
Account(u) == IF loose /\ DefaultAccount # Stranger THEN DefaultAccount ELSE u

\* A login packet that passes every check.
Login(s, u, good, d) ==
    /\ account[s] = Stranger
    /\ NextPacket(s, 0)
    /\ Admits(s, Account(u), good, d)
    /\ account' = [account EXCEPT ![s] = Account(u)]
    /\ database' = [database EXCEPT ![s] = d]
    /\ pc' = [pc EXCEPT ![s] = "reply"]
    /\ UNCHANGED <<leaseVars, work, bound, registry, loose>>

\* A login is answered with an error packet before the connection closes: one
\* that fails a check, and any that names a charset the proxy cannot decode.
LoginRefused(s) ==
    /\ account[s] = Stranger
    /\ NextPacket(s, 0)
    /\ pc' = [pc EXCEPT ![s] = "refuse"]
    /\ UNCHANGED <<leaseVars, identity, work, bound, registry, loose>>

\* COM_QUIT, whatever was read behind it; and a login that throws: the
\* authentication switch packet cannot be constructed, and the charset index
\* of the packet may be unknown to the setter that success() calls.
Quit(s) ==
    /\ pc[s] = "read"
    /\ End(s)
    /\ UNCHANGED <<leaseVars, bound, loose>>

-----------------------------------------------------------------------------
\* Commands and queries of an authenticated connection.

\* FrontAuthHandler passes the packet on.
Command(s, left) ==
    /\ account[s] # Stranger
    /\ NextPacket(s, left)
    /\ batch' = [batch EXCEPT ![s] = left]

\* An unknown command, an empty query, one that does not parse, has no
\* statement, or comes without a schema gets one packet in reply.
Answer(s, left) ==
    /\ Command(s, left)
    /\ pc' = [pc EXCEPT ![s] = "reply"]
    /\ UNCHANGED <<leaseVars, identity, todo, bound, registry, loose>>

\* A query of n statements; each is routed to the data node of the schema,
\* which every schema has (see Config), and the first one asks for a backend.
Query(s, left, n) ==
    /\ Command(s, left)
    /\ database[s] # NoDb
    /\ todo' = [todo EXCEPT ![s] = n]
    /\ pc' = [pc EXCEPT ![s] = "borrow"]
    /\ UNCHANGED <<leaseVars, identity, bound, registry, loose>>

-----------------------------------------------------------------------------
\* One statement on one node.

Bind(s, c) ==
    /\ bound' = [bound EXCEPT ![s] = c]
    /\ pc' = [pc EXCEPT ![s] = "execute"]
    /\ UNCHANGED <<identity, work, registry, loose>>

\* getConnection lends an idle connection,
Borrow(s, c) == pc[s] = "borrow" /\ Lend(s, c) /\ Bind(s, c)

\* or opens one;
Open(s) == pc[s] = "borrow" /\ StartOpen(s) /\ UNCHANGED sessionVars

Opens(s, c) == pc[s] = "borrow" /\ Opened(s, c) /\ Bind(s, c)

\* an open that fails throws the driver's error, which ends the session.
OpenFails(s) ==
    /\ pc[s] = "borrow"
    /\ OpenFailed(s)
    /\ End(s)
    /\ UNCHANGED <<bound, loose>>

\* Waiting in vain, and a pool that is not initialised, throw a ConnError: an
\* error packet ends the query, whatever statements are left.
ConnRefused(s) ==
    /\ pc[s] = "borrow" /\ s \notin opening
    /\ pc' = [pc EXCEPT ![s] = "reply"]
    /\ todo' = [todo EXCEPT ![s] = 0]
    /\ UNCHANGED <<leaseVars, identity, batch, bound, registry, loose>>

\* The statement returns rows, which are gathered in the write buffer and
\* written at once.
Executed(s) ==
    /\ pc[s] = "execute"
    /\ pc' = [pc EXCEPT ![s] = "result"]
    /\ UNCHANGED <<leaseVars, identity, work, bound, registry, loose>>

\* unbindBackend: the connection is released to its data source.
Unbind(s) ==
    /\ Return(s)
    /\ bound' = [bound EXCEPT ![s] = None]

\* Mutant: the walk over the statements does not advance.
SentAgain(s) ==
    /\ pc[s] = "result"
    /\ Unbind(s)
    /\ pc' = [pc EXCEPT ![s] = IF todo[s] > 1 THEN "borrow" ELSE "read"]
    /\ UNCHANGED <<identity, work, registry, loose>>

\* The result set has been written; the next statement follows.
Sent(s) ==
    /\ pc[s] = "result"
    /\ Unbind(s)
    /\ todo' = [todo EXCEPT ![s] = @ - 1]
    /\ pc' = [pc EXCEPT ![s] = IF todo[s] > 1 THEN "borrow" ELSE "read"]
    /\ UNCHANGED <<identity, batch, registry, loose>>

\* Mutant: no finally block; an error leaves the connection borrowed.
StmtFailsHolding(s) ==
    /\ pc[s] \in {"execute", "result"}
    /\ End(s)
    /\ UNCHANGED <<leaseVars, bound, loose>>

\* The statement fails, returns no row, returns more than the buffer takes,
\* or its result cannot be written: none is a ConnError, so the connection is
\* closed, but not before the finally block has released the backend.
StmtFails(s) ==
    /\ pc[s] \in {"execute", "result"}
    /\ Unbind(s)
    /\ End(s)
    /\ UNCHANGED loose

\* The data source gives up idle connections that are dead.
EvictIdle == Evict /\ UNCHANGED sessionVars

-----------------------------------------------------------------------------
Server(s) ==
    \/ Written(s) \/ WriteEnds(s)
    \/ \E c \in Conns : Borrow(s, c) \/ Opens(s, c)
    \/ Open(s) \/ OpenFails(s) \/ ConnRefused(s)
    \/ Executed(s) \/ Sent(s) \/ StmtFails(s)

Client(s) ==
    \/ Accept(s) \/ PeerCloses(s) \/ TooLarge(s) \/ Quit(s) \/ LoginRefused(s)
    \/ \E u \in Users \cup {Stranger}, good \in BOOLEAN,
          d \in Schemas \cup {NoDb} : Login(s, u, good, d)
    \/ \E left \in 0..(MaxBatch - 1) :
          \/ Answer(s, left)
          \/ \E n \in 1..MaxStmts : Query(s, left, n)

Next ==
    \/ \E s \in Clients : Server(s) \/ Client(s)
    \/ EvictIdle

Spec == Init /\ [][Next]_vars

\* Sockets, the driver and the waits of a data source return or throw. No
\* client need send anything.
Fairness == \A s \in Clients : WF_vars(Server(s))

LiveSpec == Spec /\ Fairness

-----------------------------------------------------------------------------
\* A connection holds a backend exactly while one of its statements executes
\* or its result set is written, and it is the one bound to its route node:
\* however a statement, a write or a session ends, the finally block of
\* SingleNodeHandler has given the backend back, and only once.
BorrowMatchesBinding ==
    \A s \in Clients :
        /\ lease[s] = bound[s]
        /\ lease[s] # None <=> pc[s] \in {"execute", "result"}

\* Only statements of a user that may come from this host, on a schema the
\* user is granted, reach the pool of backend connections.
OnlyAdmittedQueries ==
    \A s \in Clients :
        pc[s] \in {"borrow", "execute", "result"} \/ s \in opening =>
            /\ UserExists(account[s], Host[s])
            /\ database[s] \in Grants[account[s]]

\* However logins race with accepts and closes, the connections of a user do
\* not exceed the user's load limit.
BenchmarkKept ==
    \A u \in Users :
        Benchmark[u] > 0 =>
            Cardinality({s \in Clients : account[s] = u}) <= Benchmark[u]

\* The registry and the write buffers are those of the live connections, on
\* every path that ends one.
RegistryExact == frontends = Live /\ buffered = Live

\* Every query comes to its end: its statements are answered, or an error
\* packet or the end of the connection cuts them short.
QueryEnds ==
    \A s \in Clients : pc[s] = "borrow" ~> pc[s] \in {"read", "off"}
=============================================================================
