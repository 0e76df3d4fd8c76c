# A TLA+ model of mycat-js

mycat-js is a MySQL proxy in JavaScript: clients log in to it as to a MySQL
server, it routes their statements to data nodes, and it keeps pools of
connections to the database servers behind those. It runs in one process, on one
thread, in *coroutines*: blocking calls (`sleep`, the database driver, waits on
events, file writes) suspend the coroutine that makes them and let another one
run. Between two blocking calls the code runs undisturbed. So the model's unit
is clear: **an action is the code from one blocking call to the next**, and the
interleavings that matter are those at the blocking calls. Most of what can go
wrong in this program is state that was read before such a call and is used
after it.

This directory holds the modules (`*.tla`), their TLC configurations (`*.cfg`),
the proofs (`*Proofs.tla`) and `PROJECT.json`, which lists the components, the
runs, the mutants, the source lines of every definition, the findings, the
hazards and the theorems.

    tlc -config ds_safety.cfg MCDataSource      # check a run
    tlapm DataSourceProofs.tla                  # check the proofs of a module

## Inventory

Paths are relative to `src/`.

| Component | State it keeps | Operations | What is hard | What makes it correct | Modelled |
|---|---|---|---|---|---|
| Physical data source, back connections (`backend/data-source/physical-data-source.js`, `backend/back-connection.js`, `backend/mysql`) | queues of idle connections by schema, `connCount`, `activeCount`; per connection its link, schema, `borrowed`, `closed` | `getConnection`, `releaseConn`, `checkAlive`, `close`, init SQL | liveness pings, opens and naps all yield; several waiters see one slot; opens and init SQL fail after counts were raised | exclusive lending; `maxCon`; exact counts; idle ones are met before a new one is opened; requests end | partly: `DataSource`, `ConnLease` |
| Buffer pool (`buffer/`) | `allocatedSize`, event `available` | `allocate`, `resize`, `release`, each with or without await | lost wake-ups; woken waiters compete; growth tested against double size | exact count; limit; nobody sleeps on what fits | `BufferPool` |
| Scheduler (`util/scheduler.js`) | named timers, running coroutines per timer, `closed` | `schedule`, `cancel`, `shutdown`, with or without await | timers fire during cancel and shutdown; first run and interval; joins while the list changes | runs of a task do not overlap; a waiting cancel waits for all; periodic tasks go on | partly: `Scheduler` |
| Db pool, db node, heartbeat (`backend/data-source/physical-db-pool.js`, `physical-db-node.js`, `backend/heartbeat`) | `initOk`, `activeIndex`, source status | `init`, `getConnection`, choice of source, heartbeats | concurrent inits of one pool | only initialised sources serve; nobody is refused without cause | partly: `DbPool` |
| Server startup, index file (`mycat-server.js`, `mycat-startup.js`, `util/properties.js`) | `dnIndexProperties`, `dnindex.properties` | `startup`, `saveDataHostIndex` | clients before initialisation; unordered and torn writes; restart | the file names sources that worked and is honoured | partly: `DbPool` |
| Network server, connection registry (`net/net-server.js`, `conn-manager.js`, `connection.js`) | frontends by id, a write buffer each | accept, make, handle, close | errors between registration and handling | registry and buffers match the live connections | partly: `Session`, `Wire` |
| Frontend connection, factories (`frontend/front-connection.js`, `frontend/factory`, `frontend/server`, `frontend/manager`) | user, schema, auth state, bound backends, closed | `bindBackend`, `unbindBackend`, `query`, `close` | close during a query; borrowed backends on error paths | every borrowed backend is given back once | partly: `Session`, `Wire`, `Sql` |
| Handler framework (`handler/`) | chains of handlers | add, remove, invoke next | removal while the chain is walked | each handler that stays is called once, in order | partly: `Session` |
| Frontend handlers (`frontend/handler`) | rest of a packet, `compRest`, auth switch | read, auth, command, query | reassembly across reads and frames; auth switch; connection limit | no command before authentication; packets in order | partly: `Session`, `Wire`, `Sql` |
| Node handlers (`backend/handler`) | the result under way | `execute` on one node | failure in the middle of a result; empty result sets | one result or one error for each query | `Session`, `Wire` |
| MySQL packets and messages (`net/mysql`) | position in a buffer, sequence id | read, write, row splitting | boundaries of buffer and of maximal packet | decode inverts encode; row packets fit | partly: `Wire` |
| Compressed protocol (`util/compress-helper.js`) | frames | deflate, inflate | packets over several frames | payload is preserved | partly: `Wire` |
| Routing (`route/`) | none | route a statement of a schema | – | statement goes to a data node of its schema | partly: `Session`, `Config` |
| SQL lexer, parser, objects (`sql/`) | position, token lookahead | next token, parse | end of input; comments, quotes, escapes | it ends; tokens cover the input | partly: `Sql` |
| Configuration model, loaders (`config/`) | users, schemas, tables, nodes, hosts, rules | load, self check | dangling references | what loads has no dangling reference | partly: `Config` |
| Privileges (`config/mycat-privileges.js`, `config/model/priv`) | none | check user, password, schema | – | only listed users and schemas pass | partly: `Session` |
| Utilities (`util/`) | none | splitter, type helper | numeric parsing, quoting | – | partly: `Config` |

How they interact: the server's `NetServer` accepts a socket and makes a
`FrontConnection` with a write buffer from the **buffer pool**; its handlers
authenticate and pass a statement to the router, and a `SingleNodeHandler` asks
the data node (**PhysicalDbNode**) for a connection. The node asks its
**PhysicalDbPool**, initialising it first if nobody has; the pool asks the
chosen **data source**, which lends a queued `BackConnection` or opens one. The
result is written to the frontend and the backend connection goes back to its
queue. **startup** initialises the pools, after the servers have begun to
accept, from the saved active indexes; pools write a changed index back through
the server. Heartbeats run in the **scheduler**.

The hazards this code has are listed in `PROJECT.json`, each at its line, with
the properties that would catch it. Those without a property say why.

## Modules

### `DataSource` – one physical data source

A client is a coroutine inside `getConnection .. release`. `pc` says where it is
blocked:

| `pc` | the coroutine is in |
|---|---|
| `ping` | the heartbeat statement of `BackConnection.checkAlive` |
| `nap` | `co.sleep(100)` of the wait for a slot |
| `open` | `db.open` in `createNewConnection` |
| `initsql` | the execution of `connectionInitSql` |
| `using` | the statement of its query |

`queue` and `order` are the map of `ConnQueue`s with its insertion order (the
walk of `getConn` depends on it: own schema first, then the keys of the live
map), `connCount` and `activeCount` the two counters, `back` the connection
objects with the database their link was opened for. `Begin` is the call up to
its first block, `PingOk`/`PingFail`, `Nap`, `OpenOk`/`OpenFail`,
`InitSqlOk`/`InitSqlFail` what follows each blocking call, `Release` the return.
A ping fails on a dead link and may fail on a live one, when the server refuses
the statement (`back-connection.js:75-83`); the connection is closed either way.
`checkAlive` is the setting of that name, chosen in the initial state; with it
off `checkAlive()` answers false without blocking, so a whole
lookup is one step (`DropAll`). `LinkDrop` is the database or the network.
`unseen` is history that no step reads: the connections that have been idle
since a lookup began and that it has not met yet.
A restart needs nothing: the pool persists nothing.

Kept as the code has it: `closeConn` receives the raw link and ignores it, so
closed connections keep their slot (`Closed` changes no count); a failed init SQL drops the new
connection without closing it but gives both counts back; a wait tests only
`connCount` and never the queues again.

Left out: `manCommits`, since nothing clears `autoCommit`; `removeConn`, which
nothing calls; SQLite, which differs in the url alone.

### `ConnLease` – what a data source promises

Four variables for the ten of the pool: who holds which connection, what is on
offer, who is opening, how many slots are in use. `DataSource!ImplementsLease` is
the refinement, with `LentTo`, `Lendable`, `Openers` and `connCount` as its
mapping: a pinged connection is still *on offer* to the outside, a connection
under init SQL is still being *opened*.

### `BufferPool`

A user is a coroutine with one buffer (as a `Connection` has one write buffer).
`Allocate`, `Grow`, `Shrink`, `Release` are the calls up to their first
`available.wait()`; `Woken` is the test that follows a wake-up. A call without
await that does not fit throws and changes nothing, so it is a stutter.

### `Scheduler`

A *job* is one call of `schedule`: first a timeout, then an interval.
`timers` is the map by name, `armed` the timers that may fire, `run` which
timer's task each coroutine runs, `fin` the flag of each interval, `call` and
`seen` the waiting `cancel`/`shutdown` calls with the name, the timer and the
coroutine they join. `concur` is a value of the initial state.

A task that awaits its own cancel joins itself, which blocks for ever by itself;
only coroutines that run no task wait here.

### `DbPool` – the data hosts, the startup, the index file

Each host has `initOk` and `active`; a coroutine is in an init (with the
requests it has left), in the write of the file, in the `getConnection` of a
source, or refused. `Request` is `PhysicalDbNode.getConnection`, `Asked` one
answer to an init's request, `InitEnds` the end of the loop with the order in
which the code sets `initOk`, `activeIndex`, the properties and the file,
`Boot`/`NextHost` the loop of `startup`, `Beat` a heartbeat, `Restart` a crash at
any moment and a new process. `minCon` is chosen for each host in the initial state;
with 0, which the setters accept, the loop of `init` asks for nothing (`NotAsked`).

The file is overwritten in place, so a write has steps: `FileOpened`
truncates it, `Saved` is the end of the write and `SaveFails` an error at its opening or
anywhere within. What lies between is in `PartWritten`: of each write some lines are
whole and one may be cut short (`Cut`), which leaves a line without `=`
(`Broken`), one without a number, or a number of fewer digits (`Begins` says
which number begins which). `load()` throws on a line without `=`; a process that finds
one does not start (`phase` is `"down"`) until the next `Restart`, and the
file stays as it is.
`inited`, `named` and `refused` record history for the properties; no guard
reads them. The connections of a source are `DataSource`'s: here a request for
one is a call that succeeds or fails.

Left out: read sources, which nothing chooses; `nextIndex`, which nothing calls;
`writeCount`, `online`/`offline`, the load balance classes, which are empty or
unread; a heartbeat's own connection; of two writes at once, that the shorter text leaves
the end of the longer one behind its own, out of line, and that one opens the file when
the other is half through, whose lines are then lost up to there.

### `Session` – the client side

`Session` EXTENDS `ConnLease`: what a session does with the pool of backends is
what the lease allows, and `DataSource` implements the lease, so that the two
modules meet in it. `pc` says where the coroutine of a connection is blocked:

| `pc` | the coroutine is in |
|---|---|
| `greet`, `reply` | a socket write after which it reads on |
| `refuse` | the write of an error packet after which it closes |
| `read` | the top of the read loop, or a socket read |
| `borrow` | `getConnection` of the data node |
| `execute` | the statement on the backend |
| `result` | the write of a result set |

`frontends` and `buffered` are the registry and the write buffers, `batch` the
packets of one compressed read, `todo` the statements left, `bound` the map of
backends in `FrontConnection` (with one route node, one backend). `Query` is a
COM_QUERY up to its first request for a backend, `Borrow`, `Open`/`Opens`,
`OpenFails`, `ConnRefused` how that request ends, `Executed`, `Sent`,
`StmtFails` how the statement does, always through the `finally` block of
`SingleNodeHandler`; `End` is the end of the coroutine with `Connection.close`,
by whichever of the three ways. Driver errors reach nobody but `handle()`, so
that they end the session without an error packet; a `ConnError`, which only a
wait in vain and a pool without initialisation throw, gets one.

### `Wire` – packets and frames

A packet is its lengths: what its header declares and what is written after it.
`Handshake`, `Ok`, `Error`, `ResultHeader`, `Field`, `Eof`, `Row` have both, one
from `calcPayloadLength`, one from `write`. `Put` lays a packet out in the write
buffer, growing it as `ensureSize` and `BufferPool.resize` do. `ReadFrame` is one turn of the loops of
`readUnCompressed` and `readCompressed`; `StartResult`, `WriteField`,
`FieldsEnd`, `WriteRow`, `RowsEnd` are `sendResultSet` packet by packet and
`ResultFails` an exception in it. Fields and the packets that end a part make the buffer grow; a
row never does (`mysql-packet.js:160`), so that a result whose fields have grown
the buffer fails at its first row, and the one growth that a result survives is
that of its last packet.

The lengths of a compressed frame have three bytes, so a frame holds at most
`0xffffff` bytes of packets (`Wrapped`). A client that sends several commands
in one frame, or one command that fits, is `ClientSendsBundle`; a command that fits in no frame
goes over several, split wherever a frame is full (`ClientStraddles`), and its frames
hold *pieces*: a header and the length it declares, with the bytes that are there. `Inner` and
`Declared` are what `splitPackets` and the loop of `readCompressed` make of pieces, which
the loop joins (`Joins`). A piece that ends with its frame counts as a whole
command unless it declares exactly `0xffffff - 4` bytes; `CommandsAsSent`
is violated by that. So `CommandsArriveWhole` speaks of commands up to the first
that cannot be told from its next (`apart`): one over several frames, one of
exactly that length, or one in a stored frame of several. In a rest that is read as
headers, any lengths may be declared (`Straddlers`); what the rest of a command holds
that makes fewer than three bytes of a header is read as a short length. Numbers are encoded to the byte (`Encode`,
`Decode`). One thing about the runtime is assumed: writing past the
end of a buffer throws, and a byte is written modulo 256. No text is longer than
the greatest `Buffer` (`Lengths`). `writeUInt16` and
`writeInt64`, which only the length encoding calls, may or may not exist
(`Wide`).

### `Sql` – texts, statements and what is sent

A text is a sequence of character classes: keywords, `w` for any other letter,
`9` for a digit, quotes, signs. `NexToken` and what it calls are the lexer, `Parse` the
parser, `ToSql` and `Escape` the rewriting; the behaviour is a client that writes a
text, a `Query` that parses it, and `Execute` for each statement. The parser asks the
lexer on demand and in two modes; here the text is lexed first (`Walk`), which
gives the same tokens since the mode follows from the at signs alone (`Lex`). A
parse step then works on places of that walk: `After(w, i)` is the place of the next token
that is neither blank nor a comment, and a step gives the place it has come to,
0 when it throws. The loops of the code are recursive functions over positions
or places (`Closings`, `MultiEnds`, `Scans`, `Walks`, `SelectLists`,
`Statements`, `Escapes`), each of which only goes onward.
Abstracted: backslash escapes in strings, line counts, the greatest length of an
identifier, `BIGINT` next to `INT`, values that are numbers or dates.

### `Config` – loading the configuration

The three loaders read one kind of element after the other, `phase`; an action
reads one element (`ReadHost`, `ReadNode`, `ReadTable`, `ReadChild` for nested
child tables, `ReadSetting`, ...), with a `...Ok` operator for what is accepted,
and `Fail` for what throws. `Build`, `Check` and `Start` are
`ConfigInitializer`, its `selfChecking` and what `startup` makes of the
settings. `Setters` has every setting with what its setter accepts; `Suits` is the check of a table's
rule against its number of nodes, for which the function of a rule has its
`partitions`, 0 when it counts none. Elements are
chosen from constants, so the theorems speak of all documents.

## Runs

| Run | Module | Shows |
|---|---|---|
| `ds_safety` | `MCDataSource` | with init SQL, and liveness checks on or off: `OneOwner`, `QueuedIsFree`, `WithinMaxCon`, `ActiveMatches`, `ReusesBeforeOpening`, and the refinement of the lease |
| `ds_live` | `MCDataSource` | `EveryRequestEnds` |
| `ds_v_database` | `MCDataSource` | finding 1 |
| `pool_safety` | `MCBufferPool` | `CountsBuffers`, `WithinLimit`, `NoSleeperFits` |
| `sched` | `MCScheduler` | `SerialRuns`, `CancelWaits`, `PeriodicGoesOn`, `WaitsReturn`, for both values of `concur` |
| `db_safety` | `MCDbPool` | `TypeOK` (no index of a source that is gone), `SentToInitialised`, `RefusedForCause`, `FileNamesWorking` |
| `db_v_index` | `MCDbPool` | finding 2 |
| `session` | `MCSession` | `BorrowMatchesBinding`, `OnlyAdmittedQueries`, `BenchmarkKept`, `RegistryExact`, `QueryEnds` |
| `config` | `MCConfig` | `UsersAreServed`, `TablesHoldTogether`, `SettingsFit` |
| `wire` | `MCWire` | `PacketsTile`, `CommandsArriveWhole`, `ResultsNumbered`, `ResultsWhole`, `LengthsReadBack` |
| `wire_v_frames` | `MCWire` | finding 3 |
| `sql` | `MCSql` | `TokensTile`, `StatementsTile`, `NodesReadBack`, `StatementsJoin`, `BackendReadsTheSame` |

The other type invariants, `Exclusive`, `SlotsCoverConns` and `ReadHostsAreOwn` are proved for every
value of the constants and have no run of their own. Those of `Wire` and `Sql` are a
part of what is proved of them (`TextOK` and `StmtsOK` for `Sql`).

Every property of a passing run has a mutant in `PROJECT.json`: a plausible bug
in one definition (stated beside it in the module, as `\* Mutant: ...`) under
which TLC finds that property violated.

### Bounds

- `ds_safety`: 3 clients, 3 connection identities, 2 slots, 2 schemas. Two
  clients race and a third waits for a slot; a slot can be paid for by a dead
  connection; `Conns` bounds the opens of a behaviour, and with 3 a slot given
  back by a failed init SQL is used again. Two schemas give an own queue and
  another one. `MaxWait` 1 and 2 are enough for a nap that ends the wait and
  one that does not. `checkAlive` takes both values. A client that wants to open when no identity is left can
  still fail to.
- `ds_live`: 2 clients, 2 slots and 2 schemas: a client that walks over both queues meets
  what the other puts back behind or before it, and can wait for a slot that
  dead connections keep; no symmetry, since it is unsound for liveness.
- `pool_safety`: 12 bytes in chunks of 3 and sizes 0, 1, 3, 4, 7, 12: the
  default, one that is rounded up, exact ones, one that leaves too little for
  the next, the whole pool. Three users: two sleepers compete for the room one
  makes. `CHECK_DEADLOCK FALSE` because every user may really end up waiting
  in `resize` for room its own buffer takes.
- `sched`: 2 names, 2 jobs (so a name is used again, or two names are walked by a
  shutdown), 3 coroutines (overlaps of more than two runs), 1 waiting caller.
  `Jobs` bounds the calls of `schedule`, `Workers` the runs at one time. About
  104 000 states.
- `db_safety`: 2 hosts, one of each write type, 2 sources each, `minCon` 2 (an
  init that fails once and then succeeds) or 0, independently for each host, a client beside the startup. The initial file may lack a host or name a source the
  configuration does not have. Number 1 begins number 2, as `1` and `10` do to the base
  of 2 (`BinaryBegins`), so that a number cut short names another source. A second client
  makes the run too long; the startup and the one there is already run the inits of a host
  against each other, and the theorems say the same of any number. About 663 000 states.
- `session`: 3 clients from 2 hosts, one of which may bring one user only; a
  load limit of 2 for one user, none for the other, so that the limit is
  reached and a login after it refused; 1 slot for 2 connection identities,
  for which all three compete; queries of up to 2 statements (`MaxStmts`), so that the
  first can fail with one left; compressed reads of up to 2 packets
  (`MaxBatch`). About 97 000 states.
- `config`: documents of up to 9 elements (`MaxElems`): a configuration that
  loads takes a host, a node, a schema and a user at the least, which leaves 5
  for tables three deep, a second host, several settings. For each kind there is
  a sound element, and one for each check that the properties rest on. The two
  constants `Upper` and `Cpus` stand for the runtime. About 1 260 000
  states. `CHECK_DEADLOCK FALSE`: a load ends, with or without an error.
- `wire`: payloads on both sides of `0xffffff` and of `maxAllowedPacket`; bundles
  stored and deflated, of one packet and two, one of them exactly
  `0xffffff - 4`; commands that straddle two frames, with a rest of one byte, of two
  pieces of which the second is cut, and one that reads as a full packet;
  results with aliases and values on both sides of each boundary of an encoded
  length, a result that fills the buffer to its last byte and grows for its last
  packet, one of 40 fields that grows it and then fails at its row, one of 40 longer
  fields whose growth the pool refuses, one with a row that does not fit, one without a row;
  `Ids` 8 in place of 256, so that sequence ids wrap within a result.
  `MaxCommands` 3. About 274 000 states. `CHECK_DEADLOCK FALSE`: connections end.
- `sql`: texts of up to six fragments (`Fragments[n]` is what the n-th may be): comments of every
  kind before, between and behind, at the end of the text too and closed by two stars and a slash, all forms of variables, a reserved word,
  limits of every form, unfinished numbers, a character that begins no token, a second
  statement. About 135 000 states, one text each or one step of a
  query. `CHECK_DEADLOCK FALSE`: a text ends.

Symmetry is used in `ds_safety` and `pool_safety`, which check
safety only, over values the code does not tell apart. The runs that show findings have the
smallest instance that shows them.

### Fairness

Timers fire and the driver's calls return or throw (`WF` of `Nap`, `PingEnds`,
`OpenEnds`, `InitSqlEnds`); timers of the scheduler fire, its tasks end and
joins return. These are the event loop and the driver, not the program. Nothing
is assumed of callers: a client need not begin or release, nobody need cancel.
`Scheduler` takes `SF` for the firing of a timer, because `Workers`
is a bound of the model only: a real timer gets a fresh coroutine and is never
starved by another. For sessions, `WF` of `Server(s)`: socket writes, statements
and requests for backends return or throw (a request does by its time limit,
which is `EveryRequestEnds`); clients need not send anything. No fairness is assumed of links (they need not fail) nor of
the next request.

## Proofs

All are over arbitrary constants, under the named assumption of each module
(`ConstAssumption`, `LeaseAssumption`, `PoolAssumption`,
`SchedulerAssumption`, `SessionAssumption`, `ConfigAssumption`, `WireAssumption`,
`SqlAssumption`):
finite sets of clients, users and connections, the reserved values distinct from the
others, numbers natural, at least one sequence id, a compressed frame of at least one
packet, a command over several frames cut into them as `Straddles` says, texts made of
the characters of `Chars`, `Begins` a transitive relation. TLC evaluates those in the runs.

- **`DataSourceProofs`** – `TypeCorrect`, `ConnsHaveOneOwner`,
  `QueuedIsAlwaysFree`, `PoolStaysWithinMaxCon`, `ActiveCountIsExact`,
  `IdleIsReusedFirst`, `PoolImplementsLease`. The invariant is
  `TypeOK /\ OneOwner /\ QueuedIsFree /\ HeldIsOpen`; the last says that who
  pings, initialises or uses a connection has one that was opened, belongs to
  the pool and is not closed. The parts need each other: a release could queue a connection twice unless owners are
  unique, and owners stay unique only because what is queued is nobody's. The
  counting invariant comes on top of it: an element moves from a queue to a
  holder, so that the *sum* of the three cardinalities never grows without
  `connCount`. Refinement then maps each action to one of the lease or to a
  stutter; the sums give the lease's guards. `IdleIsReusedFirst` needs that
  every queue that holds a connection is in the order in which a lookup walks them
  (`QueuesKnown`), and that whatever a lookup has not met yet still lies ahead of it
  (`UnseenAhead`): in the queue it is in, or in one that comes later in an order
  to which others only append. So nothing is unseen when it comes to the end.
- **`BufferPoolProofs`** – `TypeCorrect`, `LimitIsKept`, `NoWakeUpIsLost`, `CountIsExact`.
  The last is about a fold over all users; that changing one summand changes
  the sum by as much is an induction over finite sets, see below. The
  invariant adds that whoever is asleep is in a call that waits for more than
  nothing, so that a grant, which only takes room, cannot make a sleeper fit.
- **`SchedulerProofs`** – `SchedulerTyped`, `RunsNeverOverlap`, `CancelIsFinal`. `SerialRuns` is
  not inductive. `Serial` adds the life cycle of a job: an unscheduled job has
  no timer and no run; its timeout is armed, or running, or over, and only when it is over
  can the interval be armed or running; and while a run of the interval exists `fin` is
  false. `CancelIsFinal` holds for both values of `concur`: a timer is armed once in its life
  (`Begun`), so that what a waiting cancel has cleared stays cleared (`Cleared`),
  however long its join takes and whatever else is scheduled under its name.
- **`DbPoolProofs`** – `HostsTyped`, `OnlyInitialisedServe`,
  `NobodyRefusedInVain`, `FileIsTrustworthy`, `ShortNumbersStayWhole`. The invariant adds that an active
  index of an `initOk` host was initialised, that what a coroutine
  carries across a blocking call (`call[p].ok`, `text[p]`) was earned by a
  connection that opened, and that who failed, or waits for its write while
  `initOk` was cleared by another, is on a host that refused an init, or that `minCon` is 0
  (`Refuses`); the saved texts, the properties and the file name sources that
  worked, or begin such a name (`Earned`). A line that is cut again names what the first cut named, for
  `Begins` is transitive (`CutEarned`, `PartEarned`). Races of inits need no extra argument because every init writes
  only what it earned. `ShortNumbersStayWhole` is the case of fewer than ten
  sources: nothing but a number above `Count` can be cut short, and then the file names
  sources that worked and nothing else.

- **`SessionProofs`** – first the lease by itself: `LeaseTyped`, and `LeaseSafe` for
  `Exclusive` with `SlotsCoverConns`, whose invariant `LInv` adds that who opens a
  connection holds none. Then the sessions: `SessionsTyped`, `BackendsComeBack`, `QueriesAreAdmitted`,
  `RegistryIsExact`, `SessionsUseTheLease`, `SessionsShareNothing`, `LimitsAreKept`.
  The invariant is `LInv /\ TypeOK /\ BorrowMatchesBinding /\ RegistryExact /\
  Identified /\ Statements`. `LInv` is the invariant of the lease, since each step
  is one of the lease; `Identified` carries what the login checked to the
  statements that come later, through the batches of packets read before it;
  `Statements` says that a session that waits for a backend has a statement
  left and a schema, and that only such sessions are opening a connection.
  `LimitsAreKept` needs the exact registry: who is logged in is registered, so
  that the registry bounds the connections of a user from above when the login looks at it, and
  only a login adds one.
- **`ConfigProofs`** – `ConfigTyped`, `ReadHostsKept`,
  `TablesAreSound`, `LoadedServes`, `StartedFits`, under `ConfigAssumption`: names are
  not empty, lists of names are sequences, as `ensureNotBlank` and
  `StringSplitter` make them. The invariant has a part for each group of
  maps, which is why each step lemma stands alone. `HostsInv`: nodes lie on
  hosts that were read. `SchemasInv`: the enclosing tables of
  a child are in the map and on the nodes of the outermost, and each table
  has a node. `PoolsBuilt` and `Checked` carry what `Build` and `selfChecking`
  established to the end. `LoadedServes` turns on the default node: the check
  looks for it only when it is empty, so a schema that has passed either has
  one, which the loader looked up, or has no tables, and then the loader refused it.
  `StartedFits` needs `SettingsSound`: a field is only ever written by a setter of its
  kind, under either of its names.

- **`WireProofs`** – `PacketsAreWhole`, `NumbersFollow`, `NoHalfResults`,
  `LengthsSurvive`, `CommandsSurvive`, one for each property of the run. The first
  three rest on `LayoutInv`: what lies in the buffer is a prefix of one result,
  each packet numbered after the one before it, and every write holds whole packets
  (`Filled`, `Laying`, `WritesGood`). `CommandsSurvive` rests on `RequestInv`:
  the commands taken and what a loop has gathered are a prefix of those sent, and
  the frames that have not been read say how the rest goes on. For compressed frames
  that is where the commands of each one begin in `sent` (`Begins`): a frame carries the next ones
  whole, or it comes with or after a command that cannot be told from its next
  (`Carries`), and then what the loop makes of it, whole packets or pieces read as others, disturbs nothing
  that the property still speaks of (`FrameSkipped`); for plain ones, which command each frame is a piece of and how
  many of its bytes came before (`Pieces`), since a command is split across frames.

- **`SqlProofs`** – `TokensTiled`, `StatementsTiled`, `StatementsJoinedAlways`,
  `NodesReadBackAlways`, for texts of any length. The invariants over steps are small: `TextOK`, the type of a
  text, and `StmtsOK`, that what is kept is what `Parse` made of it. What is left is about
  `Walk` and `Parse` of any text in `Seq(Chars)`. The argument has five parts.
  - *The recursive functions are defined* (`Recursion`, from which `ClosingsDefined`,
    `MultiEndsDefined`, `ScansDefined`, `WalksDefined`, `SelectListsDefined` and
    `StatementsDefined` follow): each value depends on those of later places alone, so
    that a well-founded order of places gives the function its equation. From then
    on only the equations are used.
  - *A token lies where it should* (`LexLaid`): one lemma for each kind of token says
    what it leaves out at its two ends (for a comment `CommentEnds`, by `MultiEndIs` and
    `MultiEndFirst`), that it does not go backwards, and that it
    stands still only at a character that begins none. `WalkOnward` chains the
    tokens, which is `TokensTiled`.
  - *The parser goes along the walk* (`StatementsTracked`): every statement of the
    result has places in the walk at which it began and ended, the places of the next
    come later, and what is between was blank or a comment that was kept. With the
    positions of the tokens at those places this is the first half of `StatementsTiled`
    (`StatementsBetween`); the other half reads the text behind the last statement
    again, by the next part.
  - *A token depends on little* (`LexMoved`): on its own characters and on the one
    behind it, for which the end of the text counts as well (`Agree`); where two texts agree on
    those, up to a shift, so do their tokens. So
    the walk of the text behind a cut is the end of the walk, and the walk of
    the text before it is its beginning up to the end (`PrefixWalk`, `RestWalk`),
    and the parser steps through walks so aligned with the same results
    (`SelectMoved`, `StatementsMoved`). `StatementsJoined` goes down from the last
    statement of the first part to its first.
  - *A name or a number may be cut out* (`CutLex`, `CutWalk`): an identifier, an integer
    or a user variable is read as it was when a semicolon or the end of a text
    comes behind it instead of what did (`Cut`); the tokens before it are, by the part before. So
    the tokens of a variable or a LIMIT that is cut out by its range are those it was
    read from (`ExprSpans`, `CutTwins`), and the parser makes the same of them
    (`ExprTwins`, `OneExpr`, `LimitAgain`), which is `NodesReadBackAlways`. That a
    variable reads the same without what follows needs what does in its list
    (`ListListed`): a reserved word is a name in front of a point and refused elsewhere.

Sums and joins over sequences are recursive functions. The theorems of the library that
give them their values take operators as parameters, which the prover cannot
instantiate, so that they are proved here: `NatsIn` is induction on the
naturals for a *set* of them, from their well-founded order, and
`SumsDefined` and `JoinsDefined` show by it that the functions exist: one
that is right up to `k` is, unrolled once, right up to `k + 1`.

Only model-checked: everything about liveness (`EveryRequestEnds`,
`PeriodicGoesOn`, `WaitsReturn`, `QueryEnds`), which is beyond this prover, and one
invariant of `Sql`. `BackendReadsTheSame` lexes a statement with the value and the alias of
a variable in the place of its name. What is proved moves tokens of any kind when
what follows them stays (`LexMoved`), and names and numbers when a semicolon or
the end follows instead (`CutLex`); here a quote follows whatever was before
the variable, and what was behind it follows a quote, so that every kind of token would need such
a lemma, and the rewriting an induction over the fold of `ToSql` on top.

## Findings

1. **A statement can run on another database** (`ds_v_database`). A connection
   from another schema's queue gets the asker's label, not its database.
2. **The saved index is lost without any failure** (`db_v_index`). A client
   that comes before the startup has initialised its host runs `init(0)`, and
   the init that ends last wins, in memory and in the file.
3. **A command over two compressed frames falls apart** (`wire_v_frames`). Only a packet
   of exactly `0xffffff - 4` bytes is taken to go on in the next frame.

Other disagreements of the code with a comment or a test were met, and have no run of
their own:

- The doc comment of `BackConnection.checkAlive` says that it returns true for a live
  connection (`back-connection.js:62-63`), but with the check switched off it returns
  false (`:84-88`), and the pool closes what is not alive: each lookup then empties the
  queues (`DropAll`), and the slots stay taken.
- A child table is looked up by its name as it is written, while tables are kept in upper
  case, so that a duplicate is not seen (`xml-schema-loader.js:299`, against the message of `:300`).
- An error message longer than `MYSQL_ERRMSG_SIZE` is clipped where it is counted
  (`error-packet.js:50-52`) and not where it is written (`:81-82`), although line 34 says that it cannot be longer;
  `PacketsTile` names the case.
- A comment closed by `**/` goes on to the next mark or to the end of the text
  (`sql-lexer.js:303`), and the statement behind it is lost; `test/sql/dml/select-test.js:54-57`
  reads such a comment back without a second star. `BlockCommentEnds` says what the code does.

- A `shutdown` during the first run of a periodic task is undone by the `finally`
  block that arms the interval and lists the task again (`scheduler.js:112`);
  `test/util/scheduler-test.js:253-256` expects no task after a shutdown, which it
  calls at a quiet moment.

Seen while modelling, true of the code and of the model, with no promise in the
repository to hold against it:

- a wait for a slot times out while connections lie idle in the queues
  (`physical-data-source.js:119`), and dead connections keep their slots for
  good (`back-connection.js:106`), so that after `maxCon` deaths a source serves
  nobody;
- a growing `resize` counts the old length twice (`buffer-pool.js:90`); a waiting
  one may wait for its own room;
- a one-shot task that ends, or an awaiting cancel, deletes the entry of a
  newer task of the same name (`scheduler.js:114`, `:141`): it goes on
  unlisted, and its name can be scheduled twice;
- the random choice of a write source tests the wrong source
  (`physical-db-pool.js:107`): a dead one may be chosen while others live;
- `minCon` 0 makes a host unusable (`physical-db-pool.js:158`): its init asks for nothing and
  ends without success, and every request is refused (`RefusedForCause`
  names the case);
- a crash or an error in the write of the index file may leave a line without `=`, after which no process
  starts until somebody mends the file (`properties.js:48-52`), or a number cut short, which names
  another source;
- the link of a connection whose init SQL failed, and each heartbeat's, is never
  closed;
- an error of the driver ends the client's session without an error packet, and
  so does a result without rows (`single-node-handler.js:73`);
- the switch to another authentication plugin cannot be built
  (the constructor of `AuthSwitchPacket` never calls `super()`), so such a login ends the session;
- a schema is checked in upper case at login and used as written
  (`front-auth-handler.js:149`, `front-query-handler.js:35`);
- the size a row asks for is not a number, so that rows neither grow the buffer
  nor are split (`mysql-packet.js:160`); error packets count characters, not bytes (`error-packet.js:51`); a stored compressed frame of
  several commands is taken as one, and a compressed packet of `0xffffff - 4`
  bytes as unfinished (`front-read-handler.js:120`); replies to commands that came in
  several frames start at 1; `row[alias] || null` sends 0 and `''` as NULL;
- a line comment at the end of a text loses its last character (`sql-lexer.js:289`), or two
  with a carriage return, and a slash at the end of a text counts for the end of a
  block comment with a star in it (`:312`); `CommentEnds` names both; `@`, `-` and `/` at the very
  end throw; quoted reserved words are refused (`mysql-parser.js:455`); a statement after
  `LIMIT n;` is refused (`:251`, `:200`); `escape` keeps quotes that are doubled
  already (`sql-object.js:177`);
- a write host other than the first cannot have read hosts, and the first only
  one (`xml-schema-loader.js:587`), though `schema.dtd` allows several; a schema
  with tables needs a default node, since the self check adds the empty name
  when there is none (`schema-config.js:161`); neither `splitTableNames` nor
  `nameSuffix` can be used; a white host listed twice keeps the last
  users only; `strictTxIsolation` accepts nothing but `true`.

## Not modelled

- Cryptography and compression: SHA-1 and zlib are external; a password is right
  or wrong, a frame opens or ends the session.
- The management port: its factory makes connections that handle nothing yet.
- The bytes of the login packet (`auth-packet.js` reads them field by field) and
  of the constants in `error-code.js`, `fields.js`, `capabilities.js`.
- The general handler framework: handlers are added once, before a connection
  starts, and the chain has one order; the authentication handler removes itself when
  it has been left, which cannot disturb a walk.
- Parts that nothing reaches: the multi node handler, `nextIndex`, the load balance
  classes, the partition functions, privileges of tables, the join map.
- Logging, formatting, `Properties` beyond the index file, statistics.

## What is left

A composition of
`DbPool` with `DataSource`, in which an init's requests take the slots of its
source, would show how far a slow database delays the startup. Of `Sql`,
`BackendReadsTheSame` could be proved from lemmas about what a token of each kind
may be followed by.
