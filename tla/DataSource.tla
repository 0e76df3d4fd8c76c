------------------------------ MODULE DataSource ------------------------------
(***************************************************************************)
(* The connection pool of one physical data source                         *)
(* (backend/data-source/physical-data-source.js, backend/back-connection.js*)
(* and the createNewConnection of backend/mysql).  A client is a coroutine *)
(* inside getConnection .. release: a front connection running a query, or *)
(* PhysicalDbPool.init warming the pool up.  Coroutines switch only inside *)
(* a blocking call, so an action is the code between two of them: the      *)
(* heartbeat statement of checkAlive, co.sleep, db.open, the execute of    *)
(* the init SQL and of the statement itself.                               *)
(***************************************************************************)
EXTENDS Integers, Sequences, FiniteSets

CONSTANTS
    Clients,      \* coroutines that borrow a connection
    Schemas,      \* database names, as toUpperCase leaves them
    NoSchema,     \* the schema '' of a connection nobody has tagged yet
    Conns,        \* identities of BackConnection objects: a bound on opens
    None,         \* no connection
    Size,         \* dbConfig.maxCon
    MaxWait,      \* #maxWait in units of the 100 ms nap
    InitSql       \* whether dhConfig.connectionInitSql is set

ASSUME ConstAssumption ==
    /\ IsFiniteSet(Clients) /\ IsFiniteSet(Conns)
    /\ None \notin Conns
    /\ NoSchema \notin Schemas
    /\ Size \in Nat /\ MaxWait \in Nat
    /\ InitSql \in BOOLEAN

VARIABLES
    checkAlive,   \* dbConfig.checkAlive: either way, and never changed
    pc,           \* where each client is blocked
    want,         \* the schema it asked for
    cand,         \* the connection it pings, initialises or uses
    at,           \* where its walk over the queues stands, 0 is its own queue
    waited,       \* how long it has napped
    queue,        \* idle connections by schema: ConnQueue.autoCommits
    order,        \* the keys of ConnPool.#pool in insertion order
    connCount,
    activeCount,
    back,         \* the BackConnection objects and their database links
    unseen        \* history, read by no step: the connections that have been
                  \* idle ever since the lookup of a client began

client == <<pc, want, cand, at, waited>>
pool   == <<queue, order, connCount, activeCount>>
vars   == <<checkAlive, client, pool, back, unseen>>

Names == Schemas \cup {NoSchema}

BackType == [link: {"none", "up", "down"}, db: Names, schema: Names,
             borrowed: BOOLEAN, pooled: BOOLEAN, closed: BOOLEAN]

Unopened == [link |-> "none", db |-> NoSchema, schema |-> NoSchema,
             borrowed |-> FALSE, pooled |-> FALSE, closed |-> FALSE]

TypeOK ==
    /\ checkAlive \in BOOLEAN
    /\ pc \in [Clients -> {"idle", "ping", "nap", "open", "initsql", "using"}]
    /\ want \in [Clients -> Names]
    /\ cand \in [Clients -> Conns \cup {None}]
    /\ at \in [Clients -> Nat]
    /\ waited \in [Clients -> 0..MaxWait]
    /\ queue \in [Names -> Seq(Conns)]
    /\ order \in Seq(Names)
    /\ connCount \in Int
    /\ activeCount \in Int
    /\ back \in [Conns -> BackType]
    /\ unseen \in [Clients -> SUBSET Conns]

Init ==
    /\ checkAlive \in BOOLEAN
    /\ pc = [p \in Clients |-> "idle"]
    /\ want = [p \in Clients |-> NoSchema]
    /\ cand = [p \in Clients |-> None]
    /\ at = [p \in Clients |-> 0]
    /\ waited = [p \in Clients |-> 0]
    /\ queue = [n \in Names |-> <<>>]
    /\ order = <<>>
    /\ connCount = 0
    /\ activeCount = 0
    /\ back = [c \in Conns |-> Unopened]
    /\ unseen = [p \in Clients |-> {}]

-----------------------------------------------------------------------------
\* The queues

\* getConnQueue: the keys of the map once the queue of s exists.
Registered(s) ==
    IF \E i \in 1..Len(order) : order[i] = s THEN order ELSE Append(order, s)

\* The walk of ConnPool.getConn: the asker's own queue, then the others.
NameAt(s, keys, i) == IF i = 0 THEN s ELSE keys[i]

\* Where the walk still finds a connection from position i on.
Hits(s, keys, i) ==
    {j \in i..Len(keys) : /\ j # 0 => keys[j] # s
                          /\ queue[NameAt(s, keys, j)] # <<>>}

\* The connections in the queues q, and that none of them is there twice.
IdleIn(q) == {c \in Conns : \E n \in Names : \E i \in 1..Len(q[n]) : q[n][i] = c}

Distinct(q) ==
    \A m, n \in Names : \A i \in 1..Len(q[m]), j \in 1..Len(q[n]) :
        q[m][i] = q[n][j] => m = n /\ i = j

Idle == IdleIn(queue)

\* BackConnection.close; closeConn gets the raw link and counts nothing down.
Closed(S) == [c \in Conns |-> IF c \in S THEN [back[c] EXCEPT !.closed = TRUE]
                                         ELSE back[c]]

-----------------------------------------------------------------------------
\* getConnection

\* The request ends: a ConnError or the error of the driver, or a release.
Leave(p) ==
    /\ pc' = [pc EXCEPT ![p] = "idle"]
    /\ want' = [want EXCEPT ![p] = NoSchema]
    /\ cand' = [cand EXCEPT ![p] = None]
    /\ waited' = [waited EXCEPT ![p] = 0]
    /\ at' = [at EXCEPT ![p] = 0]
    /\ unseen' = [unseen EXCEPT ![p] = {}]

\* Take a slot and start db.open.
Reserve(p) ==
    /\ pc' = [pc EXCEPT ![p] = "open"]
    /\ connCount' = connCount + 1
    /\ activeCount' = activeCount + 1

\* Mutant: > for >= in the test for a free slot.
CreateOneTooMany(p) ==
    /\ cand' = [cand EXCEPT ![p] = None]
    /\ at' = [at EXCEPT ![p] = 0]
    /\ \/ connCount <= Size /\ Reserve(p)
       \/ /\ connCount > Size
          /\ pc' = [pc EXCEPT ![p] = "nap"]
          /\ UNCHANGED <<connCount, activeCount>>

CreateOrWait(p) ==
    /\ cand' = [cand EXCEPT ![p] = None]
    /\ at' = [at EXCEPT ![p] = 0]
    /\ \/ /\ connCount < Size
          /\ Reserve(p)
       \/ /\ connCount >= Size
          /\ pc' = [pc EXCEPT ![p] = "nap"]
          /\ UNCHANGED <<connCount, activeCount>>

\* Mutant: the connection is pinged in the queue and not shifted.
PeekNext(p, s, keys, from) ==
    /\ \E i \in Hits(s, keys, from) :
          /\ \A j \in Hits(s, keys, from) : i <= j
          /\ cand' = [cand EXCEPT ![p] = Head(queue[NameAt(s, keys, i)])]
          /\ at' = [at EXCEPT ![p] = i]
    /\ pc' = [pc EXCEPT ![p] = "ping"]
    /\ UNCHANGED <<queue, connCount, activeCount>>

\* Shift the next queued connection and ping it.
TakeNext(p, s, keys, from) ==
    /\ \E i \in Hits(s, keys, from) :
          /\ \A j \in Hits(s, keys, from) : i <= j
          /\ cand' = [cand EXCEPT ![p] = Head(queue[NameAt(s, keys, i)])]
          /\ queue' = [queue EXCEPT ![NameAt(s, keys, i)] = Tail(@)]
          /\ at' = [at EXCEPT ![p] = i]
    /\ pc' = [pc EXCEPT ![p] = "ping"]
    /\ UNCHANGED <<connCount, activeCount>>

Miss(p, s, keys, from) ==
    /\ Hits(s, keys, from) = {}
    /\ CreateOrWait(p)
    /\ UNCHANGED queue

\* With checkAlive off checkAlive() says false without blocking, so one walk
\* shifts and closes every idle connection.
DropAll(p) ==
    /\ queue' = [n \in Names |-> <<>>]
    /\ back' = Closed(Idle)
    /\ CreateOrWait(p)

Begin(p, s) ==
    /\ pc[p] = "idle"
    /\ want' = [want EXCEPT ![p] = s]
    /\ order' = Registered(s)
    /\ IF checkAlive
       THEN /\ TakeNext(p, s, Registered(s), 0) \/ Miss(p, s, Registered(s), 0)
            /\ UNCHANGED back
       ELSE DropAll(p)
    /\ unseen' = [q \in Clients |-> IF q = p THEN Idle' ELSE unseen[q] \cap Idle']
    /\ UNCHANGED <<checkAlive, waited>>

PingOk(p) ==
    /\ pc[p] = "ping"
    /\ back[cand[p]].link = "up"
    /\ pc' = [pc EXCEPT ![p] = "using"]
    /\ at' = [at EXCEPT ![p] = 0]
    /\ back' = [back EXCEPT ![cand[p]].borrowed = TRUE,
                            ![cand[p]].schema = want[p]]
    /\ activeCount' = activeCount + 1
    /\ unseen' = [unseen EXCEPT ![p] = {}]
    /\ UNCHANGED <<checkAlive, want, cand, waited, queue, order, connCount>>

\* Mutant: the walk leaves a queue after the first dead connection.
PingOnce(p) ==
    /\ pc[p] = "ping"
    /\ back' = Closed({cand[p]})
    /\ TakeNext(p, want[p], order, at[p] + 1) \/ Miss(p, want[p], order, at[p] + 1)
    /\ unseen' = [q \in Clients |-> unseen[q] \cap Idle']
    /\ UNCHANGED <<checkAlive, want, waited, order>>

\* Mutant: a connection whose ping failed goes back to the end of its queue.
PingRequeues(p) ==
    /\ pc[p] = "ping"
    /\ LET n == NameAt(want[p], order, at[p])
           q == Append(queue[n], cand[p])
       IN  /\ queue' = [queue EXCEPT ![n] = Tail(q)]
           /\ cand' = [cand EXCEPT ![p] = Head(q)]
    /\ UNCHANGED <<checkAlive, pc, want, at, waited, order, connCount, activeCount,
                   back, unseen>>

\* The heartbeat statement throws: the link is dead, or it is alive and the
\* server refuses the statement.  The connection is closed either way.
PingFail(p) ==
    /\ pc[p] = "ping"
    /\ back' = Closed({cand[p]})
    /\ TakeNext(p, want[p], order, at[p]) \/ Miss(p, want[p], order, at[p])
    /\ unseen' = [q \in Clients |-> unseen[q] \cap Idle']
    /\ UNCHANGED <<checkAlive, want, waited, order>>

\* Mutant: the slot is not looked at again after the sleep.
NapWithoutRecheck(p) ==
    /\ pc[p] = "nap"
    /\ Reserve(p)
    /\ waited' = [waited EXCEPT ![p] = 0]
    /\ UNCHANGED <<checkAlive, want, cand, at, queue, order, back, unseen>>

\* One co.sleep(100), which may overrun: first the time limit, then the slot.
Nap(p) ==
    /\ pc[p] = "nap"
    /\ \/ /\ Leave(p)
          /\ UNCHANGED <<connCount, activeCount>>
       \/ /\ connCount >= Size
          /\ \E w \in (waited[p] + 1)..MaxWait : waited' = [waited EXCEPT ![p] = w]
          /\ UNCHANGED <<pc, want, cand, at, connCount, activeCount, unseen>>
       \/ /\ connCount < Size
          /\ waited[p] < MaxWait
          /\ Reserve(p)
          /\ waited' = [waited EXCEPT ![p] = 0]
          /\ UNCHANGED <<want, cand, at, unseen>>
    /\ UNCHANGED <<checkAlive, queue, order, back>>

OpenOk(p) ==
    /\ pc[p] = "open"
    /\ \E c \in Conns :
          /\ back[c].link = "none"
          /\ cand' = [cand EXCEPT ![p] = c]
          /\ back' = [back EXCEPT ![c] =
                [link |-> "up", db |-> want[p], schema |-> NoSchema,
                 borrowed |-> TRUE, pooled |-> TRUE, closed |-> FALSE]]
    /\ pc' = [pc EXCEPT ![p] = IF InitSql THEN "initsql" ELSE "using"]
    /\ UNCHANGED <<checkAlive, want, at, waited, pool, unseen>>

\* Mutant: the failed flag is not looked at and both counts stay.
KeepSlot(p) ==
    /\ Leave(p)
    /\ UNCHANGED <<checkAlive, pool, back>>

\* The finally block gives the slot back.
GiveUp(p) ==
    /\ Leave(p)
    /\ connCount' = connCount - 1
    /\ activeCount' = activeCount - 1
    /\ UNCHANGED <<checkAlive, queue, order, back>>

OpenFail(p) ==
    /\ pc[p] = "open"
    /\ GiveUp(p)

InitSqlOk(p) ==
    /\ pc[p] = "initsql"
    /\ back[cand[p]].link = "up"
    /\ pc' = [pc EXCEPT ![p] = "using"]
    /\ UNCHANGED <<checkAlive, want, cand, at, waited, pool, back, unseen>>

\* The new connection is dropped without being closed.
InitSqlFail(p) ==
    /\ pc[p] = "initsql"
    /\ GiveUp(p)

-----------------------------------------------------------------------------
\* Mutant: the flag that forbids execute is left set.
ReleaseStillBorrowed(p) ==
    /\ pc[p] = "using"
    /\ queue' = [queue EXCEPT ![back[cand[p]].schema] = Append(@, cand[p])]
    /\ order' = Registered(back[cand[p]].schema)
    /\ activeCount' = activeCount - 1
    /\ Leave(p)
    /\ UNCHANGED <<checkAlive, connCount, back>>

\* unbindBackend, after the statement succeeded or threw: releaseConn.
Release(p) ==
    /\ pc[p] = "using"
    /\ LET c == cand[p]
           n == back[c].schema
       IN  /\ queue' = [queue EXCEPT ![n] = Append(@, c)]
           /\ order' = Registered(n)
           /\ back' = [back EXCEPT ![c].borrowed = FALSE]
    /\ activeCount' = activeCount - 1
    /\ Leave(p)
    /\ UNCHANGED <<checkAlive, connCount>>

\* The database server or the network drops a link.
LinkDrop(c) ==
    /\ back[c].link = "up"
    /\ back' = [back EXCEPT ![c].link = "down"]
    /\ UNCHANGED <<checkAlive, client, pool, unseen>>

PingEnds(p)    == PingOk(p) \/ PingFail(p)
OpenEnds(p)    == OpenOk(p) \/ OpenFail(p)
InitSqlEnds(p) == InitSqlOk(p) \/ InitSqlFail(p)

Next ==
    \/ \E p \in Clients :
          \/ \E s \in Schemas : Begin(p, s)
          \/ PingEnds(p) \/ Nap(p) \/ OpenEnds(p) \/ InitSqlEnds(p)
          \/ Release(p)
    \/ \E c \in Conns : LinkDrop(c)

Spec == Init /\ [][Next]_vars

\* Timers fire, and the driver's blocking calls return or throw.  Nothing is
\* assumed of Begin, of Release or of the links.
Fairness ==
    \A p \in Clients :
        WF_vars(Nap(p)) /\ WF_vars(PingEnds(p))
        /\ WF_vars(OpenEnds(p)) /\ WF_vars(InitSqlEnds(p))

LiveSpec == Spec /\ Fairness

-----------------------------------------------------------------------------
Holders == {p \in Clients : pc[p] \in {"ping", "initsql", "using"}}

\* A connection is in one place only: in one position of one queue, or in the
\* hands of one coroutine that pings, initialises or uses it.  Two coroutines
\* on one link would mix their results (getConn shifts before it pings).
OneOwner ==
    /\ \A p, q \in Holders : p # q => cand[p] # cand[q]
    /\ \A p \in Holders : cand[p] \notin Idle
    /\ Distinct(queue)

\* What waits in a queue can be lent as it is: open, and marked as not
\* borrowed so that no earlier holder can still execute on it; what is in use
\* is marked borrowed, or BackConnection.execute would refuse the statement.
QueuedIsFree ==
    /\ \A c \in Idle : ~back[c].closed /\ ~back[c].borrowed /\ back[c].pooled
    /\ \A p \in Clients : pc[p] \in {"initsql", "using"} =>
          back[cand[p]].borrowed /\ ~back[cand[p]].closed

\* maxCon bounds what the source has open for its clients: the connections
\* queued, pinged or used and the opens under way each hold a unit of
\* connCount, across failed opens, failed init SQL and dead links.
WithinMaxCon ==
    /\ Cardinality(Idle) + Cardinality(Holders)
         + Cardinality({p \in Clients : pc[p] = "open"}) <= connCount
    /\ connCount <= Size

\* activeCount counts exactly the clients between a successful reservation or
\* lookup and their release, on every path out of getConnection.
ActiveMatches ==
    activeCount = Cardinality({p \in Clients : pc[p] \in {"open", "initsql", "using"}})

\* A request opens a connection or starts to wait for a slot only if no
\* connection lay idle all the while it walked over the queues, pinging and
\* blocking, as others took, returned and registered: what was idle when it
\* began it has met itself, or somebody has taken it meanwhile.
ReusesBeforeOpening ==
    \A p \in Clients : pc[p] \in {"open", "nap"} => unseen[p] = {}

\* A statement runs on the database of the data node it was routed to.
OnWantedDatabase ==
    \A p \in Clients : pc[p] = "using" => back[cand[p]].db = want[p]

\* Every request ends, with a connection or with an error: the walk over the
\* queues does not chase connections that others keep putting back, and the
\* wait for a slot is bounded.
EveryRequestEnds ==
    \A p \in Clients : pc[p] # "idle" ~> pc[p] \in {"idle", "using"}

\* The abstract state of the pool: what is lent, what could be lent or is
\* being looked at to be lent, and who is opening a connection.
LentTo   == [p \in Clients |-> IF pc[p] = "using" THEN cand[p] ELSE None]
Lendable == Idle \cup {cand[p] : p \in {q \in Clients : pc[q] = "ping"}}
Openers  == {p \in Clients : pc[p] \in {"open", "initsql"}}

Lease == INSTANCE ConnLease WITH
    lease <- LentTo, idle <- Lendable, opening <- Openers, slots <- connCount

\* The pool implements the abstract lease: what a client may use is held by
\* it alone, and every connection has paid for a slot.
ImplementsLease == Lease!LeaseSpec
=============================================================================
