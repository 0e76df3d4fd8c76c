------------------------------- MODULE Config -------------------------------
(***************************************************************************)
(* How the configuration is loaded. The loaders read rule.xml, schema.xml  *)
(* and server.xml, one kind of element after the other, into maps by name; *)
(* ConfigInitializer builds the pools and nodes from the maps and checks   *)
(* the whole, and the startup makes its buffer pool and servers from the   *)
(* settings. An action reads one element. The documents are whatever the   *)
(* actions choose from the Elems constants; the first element that is not  *)
(* accepted throws, and the process ends.                                  *)
(***************************************************************************)
EXTENDS Integers, Sequences, FiniteSets

CONSTANTS
    FunctionElems, RuleElems, HostElems, NodeElems, SchemaElems, TableElems,
    ChildElems, SettingElems, UserElems, MemberElems, GroupElems, WhiteElems,
    Upper,      \* the upper case of each table name
    Cpus,       \* os.cpuNumbers()
    None,       \* no name: the empty string
    MaxElems    \* bound: the elements of the documents

\* Names are not empty; lists of names are sequences; numbers are integers.
ASSUME ConfigAssumption ==
    /\ MaxElems \in Nat /\ Cpus \in Nat
    /\ \A e \in SettingElems : e.value.num \in Int
    /\ \A e \in NodeElems :
          /\ e.names \in Seq({e.names[i] : i \in DOMAIN e.names} \ {None})
          /\ e.hosts \in Seq({e.hosts[i] : i \in DOMAIN e.hosts})
          /\ e.databases \in Seq({e.databases[i] : i \in DOMAIN e.databases})
    /\ \A e \in HostElems : \A i \in DOMAIN e.writers :
          LET r == e.writers[i].readers IN r \in Seq({r[j] : j \in DOMAIN r})

VARIABLES
    phase,      \* what is being read, or done
    count,      \* the elements read so far
    functions,  \* the partitions of each algorithm, or -1 for any number
    rules,      \* those of the algorithm of each rule
    hosts, nodes,
    open,       \* the schema whose tables are being read
    tables,     \* its tables so far
    path,       \* the table elements that enclose the next child table
    schemas,
    system,     \* the settings that were given
    users, members, groups, white,
    pools       \* the data hosts that were built, with their databases

ruleMaps == <<functions, rules>>
hostMaps == <<hosts, nodes>>
schemaMaps == <<open, tables, path, schemas>>
serverMaps == <<system, users, members, groups, white>>
vars == <<phase, count, ruleMaps, hostMaps, schemaMaps, serverMaps, pools>>

-----------------------------------------------------------------------------
\* Maps, and sequences taken as sets.

Put(map, key, value) ==
    [k \in DOMAIN map \cup {key} |-> IF k = key THEN value ELSE map[k]]

Empty == [k \in {} |-> None]

Elems(s) == {s[i] : i \in DOMAIN s}

Distinct(s) == \A i, j \in DOMAIN s : s[i] = s[j] => i = j

-----------------------------------------------------------------------------
\* The settings that server.xml can give, each with what its setter takes.

ListenSettings == {
    <<"authTimeout", "int">>, <<"charset", "charset">>,
    <<"defaultSqlParser", "parser">>, <<"bindIp", "text">>,
    <<"serverPort", "port">>, <<"managerPort", "port">>,
    <<"serverBacklog", "positive">>, <<"processors", "positive">>}

BufferSettings == {
    <<"bufferPoolChunkSize", "positive">>, <<"processorBufferChunk", "positive">>,
    <<"bufferPoolPageSize", "positive">>, <<"bufferPoolPageNumber", "positive">>,
    <<"processorBufferLocalPercent", "hundred">>,
    <<"processorExecutor", "positive">>}

SequenceSettings == {
    <<"sequenceHandlerType", "0..5">>, <<"sequnceHandlerType", "0..5">>}

SocketSettings == {
    <<"frontSocketSoRcvbuf", "positive">>, <<"frontSocketSoSndbuf", "positive">>,
    <<"frontSocketNoDelay", "0..1">>, <<"frontWriteQueueSize", "int">>,
    <<"backSocketSoRcvbuf", "positive">>, <<"backSocketSoSndbuf", "positive">>,
    <<"backSocketNoDelay", "0..1">>}

PacketSettings == {
    <<"packetHeaderSize", "4">>, <<"maxPacketSize", "packet">>,
    <<"maxAllowedPacket", "packet">>, <<"idleTimeout", "int">>,
    <<"txIsolation", "1..4">>, <<"sqlExecuteTimeout", "int">>}

PeriodSettings == {
    <<"processorCheckPeriod", "positive">>,
    <<"dataNodeIdleCheckPeriod", "positive">>,
    <<"dataNodeHeartbeatPeriod", "positive">>, <<"fakeMySQLVersion", "text">>,
    <<"useGlobalTableCheck", "0..1">>,
    <<"handleDistributedTransactions", "0..2">>}

SwitchSettings == {
    <<k, "0..1">> : k \in {"useOffHeapForMerge", "removeGraveAccent",
        "traceProtocol", "nonePasswordLogin", "ignoreUnknownCommand",
        "useHandshakeV10", "useSqlStat"}}

PatternSettings == {
    <<"sequnceHandlerPattern", "text">>, <<"sequenceHandlerPattern", "text">>,
    <<"subqueryRelationshipCheck", "flag">>, <<"sequenceHandlerClass", "text">>,
    <<"useCompression", "0..1">>, <<"processorBufferPoolType", "int">>,
    <<"maxStringLiteralLength", "positive">>}

StorageSettings == {
    <<"memoryPageSize", "text">>, <<"spillsFileBufferSize", "text">>,
    <<"useStreamOutput", "0..1">>, <<"systemReserveMemorySize", "text">>,
    <<"useZKSwitch", "flag">>, <<"XARecoveryLogBaseDir", "text">>,
    <<"XARecoveryLogBaseName", "text">>, <<"strictTxIsolation", "true">>,
    <<"parallExecute", "int">>, <<"usingAIO", "0..1">>}

Setters == UNION {
    ListenSettings, BufferSettings, SequenceSettings, SocketSettings,
    PacketSettings, PeriodSettings, SwitchSettings, PatternSettings,
    StorageSettings}

\* The text of a property: a number or a word. "blank" is the empty text.
Number(n) == [word |-> "number", num |-> n]
Word(w) == [word |-> w, num |-> 0]

\* The setter does not throw. strictTxIsolation names an undefined variable
\* unless the text is 'true'; the charset must be one of iconv and of MySQL.
Takes(kind, v) ==
    \/ kind \in {"parser", "flag"}
    \/ kind = "text" /\ v.word # "blank"
    \/ kind = "true" /\ v.word = "true"
    \/ kind = "charset" /\ v.word = "utf8"
    \/ /\ v.word = "number"
       /\ \/ kind \in {"int", "hundred"}
          \/ kind = "positive" /\ v.num > 0
          \/ kind = "port" /\ v.num \in 0..65535
          \/ kind = "packet" /\ v.num \in 1024..(2^30)
          \/ kind = "4" /\ v.num = 4
          \/ kind = "0..1" /\ v.num \in 0..1
          \/ kind = "0..2" /\ v.num \in 0..2
          \/ kind = "1..4" /\ v.num \in 1..4
          \/ kind = "0..5" /\ v.num \in 0..5

\* Mutant: the old name of the setting has a field of its own.
OwnField(key) == key

\* The field behind a setting; three are known by an older name, too.
Field(key) ==
    CASE key = "processorBufferChunk"  -> "bufferPoolChunkSize"
      [] key = "sequnceHandlerType"    -> "sequenceHandlerType"
      [] key = "sequnceHandlerPattern" -> "sequenceHandlerPattern"
      [] OTHER -> key

\* Two settings stay as they are, with a warning; a flag is true or it is not.
Assigned(map, kind, key, v) ==
    IF kind \in {"parser", "hundred"} THEN map
    ELSE Put(map, Field(key),
             IF kind = "flag" /\ v.word # "true" THEN Word("false") ELSE v)

\* The initial values of the fields that the startup reads.
Defaults == {
    <<"serverPort", 8066>>, <<"managerPort", 9066>>, <<"serverBacklog", 2048>>,
    <<"bufferPoolChunkSize", 4096>>, <<"bufferPoolPageSize", 1024 * 4096>>,
    <<"bufferPoolPageNumber", Cpus * 64>>,
    <<"dataNodeHeartbeatPeriod", 10000>>, <<"maxAllowedPacket", 2^24>>}

Setting(field) ==
    IF field \in DOMAIN system THEN system[field].num
    ELSE (CHOOSE d \in Defaults : d[1] = field)[2]

-----------------------------------------------------------------------------
\* What the loaders accept of an element.

FunctionOk(e) == e.name \notin DOMAIN functions /\ e.loadable

RuleOk(e) ==
    /\ e.name \notin DOMAIN rules
    /\ e.rules = 1 /\ e.columns = 1
    /\ e.function \in DOMAIN functions

\* The read hosts of the i-th write host as parseDbHosts gets them: its loop
\* over j takes readNodes[i].
Readers(writers, i) ==
    [j \in DOMAIN writers[i].readers |-> writers[i].readers[i]]

HostOk(e) ==
    /\ e.name \notin DOMAIN hosts
    /\ e.maxCon >= 0 /\ e.minCon >= 0
    /\ e.balance \in 0..3 /\ e.writeType \in 0..1 /\ e.switchType \in -1..3
    /\ Distinct([i \in DOMAIN e.writers |-> e.writers[i].name])
    /\ \A i \in DOMAIN e.writers :
          /\ e.type = "sqlite" \/ e.writers[i].port >= 0
          /\ e.writers[i].readers # <<>> =>
                /\ i \in DOMAIN e.writers[i].readers
                /\ Distinct(Readers(e.writers, i))

NodeOk(e) ==
    /\ Len(e.names) = Len(e.hosts) * Len(e.databases)
    /\ Distinct(e.names) /\ Elems(e.names) \cap DOMAIN nodes = {}
    /\ Elems(e.hosts) \subseteq DOMAIN hosts

\* Each host with each database.
Place(e, k) ==
    [host |-> e.hosts[((k - 1) \div Len(e.databases)) + 1],
     database |-> e.databases[((k - 1) % Len(e.databases)) + 1]]

SchemaOk(e) == e.known /\ (e.node = None \/ e.node \in DOMAIN nodes)

\* suitableFor: the algorithm has a partition for each of the parts at most.
Suits(rule, parts) == rules[rule] > 0 => parts >= rules[rule]

\* Mutant: a table may have fewer nodes than its rule has partitions.
TableOkAnyRule(e) ==
    /\ ~e.manifold
    /\ e.rule # None => e.rule \in DOMAIN rules
    /\ e.ruleRequired => e.rule # None
    /\ e.nodes # {} /\ e.nodes \subseteq DOMAIN nodes
    /\ Upper[e.name] \notin DOMAIN tables

\* Neither splitTableNames nor nameSuffix can be used: the one splits the
\* element in place of its name, the other calls what does not exist.  A rule
\* must suit the parts of its table: the data nodes that it lists or, when it
\* lists any, its sub-tables.
TableOk(e) ==
    /\ ~e.manifold
    /\ e.rule # None => e.rule \in DOMAIN rules /\ Suits(e.rule, e.parts)
    /\ e.ruleRequired => e.rule # None
    /\ e.nodes # {} /\ e.nodes \subseteq DOMAIN nodes
    /\ Upper[e.name] \notin DOMAIN tables

\* A child table is looked up by its name as it is written.
ChildOk(name) == name \notin DOMAIN tables

SchemaEndOk ==
    /\ open.name \notin DOMAIN schemas
    /\ tables = Empty => open.node # None

SettingOk(e) == \E p \in Setters : p[1] = e.key /\ Takes(p[2], e.value)

UserOk(e) == e.name \notin DOMAIN users /\ e.sound /\ e.benchmark >= 0

MemberOk(e) ==
    /\ e.name \notin DOMAIN members
    /\ e.host \notin {members[m].host : m \in DOMAIN members}
    /\ e.weight >= 1

GroupOk(e) == e.members \subseteq DOMAIN members

WhiteOk(e) == e.users \subseteq DOMAIN users

\* createDataSources knows two types of database.
BuildOk ==
    \A h \in DOMAIN hosts :
        hosts[h].type \in {"mysql", "sqlite"} \/ hosts[h].writers = <<>>

\* Mutant: the default node counts when there is one.
NamedNodes(s) ==
    (UNION {s.tables[t].nodes : t \in DOMAIN s.tables})
        \cup (IF s.node = None THEN {} ELSE {s.node})

\* buildAllDataNodes adds the default data node when it is empty.
AllNodes(s) ==
    (UNION {s.tables[t].nodes : t \in DOMAIN s.tables})
        \cup (IF s.node = None THEN {None} ELSE {})

\* selfChecking.
CheckOk ==
    /\ schemas # Empty
    /\ pools # Empty /\ nodes # Empty =>
          \A s \in DOMAIN schemas : AllNodes(schemas[s]) \subseteq DOMAIN nodes
    /\ users # Empty
    /\ \A u \in DOMAIN users :
          users[u] # {} /\ users[u] \subseteq DOMAIN schemas

\* The buffer pool must hold a chunk, and two servers cannot listen on one port.
StartOk ==
    /\ Setting("bufferPoolChunkSize")
          <= Setting("bufferPoolPageSize") * Setting("bufferPoolPageNumber")
    /\ Setting("serverPort") # Setting("managerPort") \/ Setting("serverPort") = 0

-----------------------------------------------------------------------------
Init ==
    /\ phase = "functions" /\ count = 0
    /\ functions = Empty /\ rules = Empty
    /\ hosts = Empty /\ nodes = Empty
    /\ open = None /\ tables = Empty /\ path = <<>> /\ schemas = Empty
    /\ system = Empty /\ users = Empty /\ members = Empty
    /\ groups = Empty /\ white = Empty /\ pools = Empty

\* The next element of the kind that is being read.
Reads(kind) ==
    phase = kind /\ count < MaxElems /\ count' = count + 1 /\ UNCHANGED phase

ReadFunction(e) ==
    /\ Reads("functions") /\ FunctionOk(e)
    /\ functions' = Put(functions, e.name, e.partitions)
    /\ UNCHANGED <<rules, hostMaps, schemaMaps, serverMaps, pools>>

ReadRule(e) ==
    /\ Reads("rules") /\ RuleOk(e)
    /\ rules' = Put(rules, e.name, functions[e.function])
    /\ UNCHANGED <<functions, hostMaps, schemaMaps, serverMaps, pools>>

ReadHost(e) ==
    /\ Reads("hosts") /\ HostOk(e)
    /\ hosts' = Put(hosts, e.name,
          [type |-> e.type, writers |-> e.writers, nodes |-> {},
           readers |-> [i \in DOMAIN e.writers |-> Readers(e.writers, i)]])
    /\ UNCHANGED <<ruleMaps, nodes, schemaMaps, serverMaps, pools>>

\* One element may define several nodes; each host keeps the names of its own.
ReadNode(e) ==
    /\ Reads("nodes") /\ NodeOk(e)
    /\ nodes' = [n \in DOMAIN nodes \cup Elems(e.names) |->
          IF n \in DOMAIN nodes THEN nodes[n]
          ELSE Place(e, CHOOSE k \in DOMAIN e.names : e.names[k] = n)]
    /\ hosts' = [h \in DOMAIN hosts |-> [hosts[h] EXCEPT !.nodes =
          @ \cup {n \in Elems(e.names) : nodes'[n].host = h}]]
    /\ UNCHANGED <<ruleMaps, schemaMaps, serverMaps, pools>>

OpenSchema(e) ==
    /\ Reads("schemas") /\ open = None /\ SchemaOk(e)
    /\ open' = [name |-> e.name, node |-> e.node]
    /\ tables' = Empty /\ path' = <<>>
    /\ UNCHANGED <<ruleMaps, hostMaps, schemas, serverMaps, pools>>

ReadTable(e) ==
    /\ Reads("schemas") /\ open # None /\ TableOk(e)
    /\ tables' = Put(tables, Upper[e.name],
          [nodes |-> e.nodes, parts |-> e.parts, rule |-> e.rule, parent |-> None])
    /\ path' = <<Upper[e.name]>>
    /\ UNCHANGED <<ruleMaps, hostMaps, open, schemas, serverMaps, pools>>

\* A childTable element inside the i-th of the enclosing elements. It lies on
\* the nodes of the outermost one and has no rule.
ReadChild(name, i) ==
    /\ Reads("schemas") /\ open # None /\ i \in DOMAIN path /\ ChildOk(name)
    /\ tables' = Put(tables, name,
          [nodes |-> tables[path[1]].nodes, rule |-> None, parent |-> path[i]])
    /\ path' = Append(SubSeq(path, 1, i), name)
    /\ UNCHANGED <<ruleMaps, hostMaps, open, schemas, serverMaps, pools>>

EndSchema ==
    /\ phase = "schemas" /\ open # None /\ SchemaEndOk
    /\ schemas' = Put(schemas, open.name, [node |-> open.node, tables |-> tables])
    /\ open' = None /\ tables' = Empty /\ path' = <<>>
    /\ UNCHANGED <<phase, count, ruleMaps, hostMaps, serverMaps, pools>>

ReadSetting(e) ==
    /\ Reads("system")
    /\ \E p \in Setters :
          /\ p[1] = e.key /\ Takes(p[2], e.value)
          /\ system' = Assigned(system, p[2], e.key, e.value)
    /\ UNCHANGED <<ruleMaps, hostMaps, schemaMaps, users, members, groups, white, pools>>

ReadUser(e) ==
    /\ Reads("users") /\ UserOk(e)
    /\ users' = Put(users, e.name, e.schemas)
    /\ UNCHANGED <<ruleMaps, hostMaps, schemaMaps, system, members, groups, white, pools>>

\* Every member of the cluster has the server's own port.
ReadMember(e) ==
    /\ Reads("members") /\ MemberOk(e)
    /\ members' = Put(members, e.name,
          [host |-> e.host, port |-> Setting("serverPort"), weight |-> e.weight])
    /\ UNCHANGED <<ruleMaps, hostMaps, schemaMaps, system, users, groups, white, pools>>

ReadGroup(e) ==
    /\ Reads("groups") /\ GroupOk(e)
    /\ groups' = Put(groups, e.name, e.members)
    /\ UNCHANGED <<ruleMaps, hostMaps, schemaMaps, system, users, members, white, pools>>

\* The last group of a cluster is everybody, unless it was given.
EndCluster ==
    /\ phase = "groups" /\ phase' = "firewall"
    /\ groups' = IF "default" \in DOMAIN groups THEN groups
                 ELSE Put(groups, "default", DOMAIN members)
    /\ UNCHANGED <<count, ruleMaps, hostMaps, schemaMaps, system, users, members, white, pools>>

\* A host that is listed again loses the users it had.
ReadWhite(e) ==
    /\ Reads("firewall") /\ WhiteOk(e)
    /\ white' = [h \in DOMAIN white \cup e.hosts |->
          IF h \in e.hosts THEN e.users ELSE white[h]]
    /\ UNCHANGED <<ruleMaps, hostMaps, schemaMaps, system, users, members, groups, pools>>

\* Nothing more of one kind follows.
NextKind ==
    /\ \E step \in {<<"functions", "rules">>, <<"rules", "hosts">>,
                    <<"hosts", "nodes">>, <<"nodes", "schemas">>,
                    <<"schemas", "system">>, <<"system", "users">>,
                    <<"users", "members">>, <<"members", "groups">>,
                    <<"firewall", "build">>} :
          phase = step[1] /\ phase' = step[2]
    /\ open = None
    /\ UNCHANGED <<count, ruleMaps, hostMaps, schemaMaps, serverMaps, pools>>

DatabasesOf(h) == {nodes[n].database : n \in {m \in DOMAIN nodes : nodes[m].host = h}}

\* The data hosts, their nodes, and the databases each is to connect to.
Build ==
    /\ phase = "build" /\ BuildOk
    /\ phase' = "check"
    /\ pools' = [h \in DOMAIN hosts |->
          IF DatabasesOf(h) = {} /\ hosts[h].type = "sqlite" THEN {"main", "temp"}
          ELSE DatabasesOf(h)]
    /\ UNCHANGED <<count, ruleMaps, hostMaps, schemaMaps, serverMaps>>

Check ==
    /\ phase = "check" /\ CheckOk /\ phase' = "loaded"
    /\ UNCHANGED <<count, ruleMaps, hostMaps, schemaMaps, serverMaps, pools>>

Start ==
    /\ phase = "loaded" /\ StartOk /\ phase' = "started"
    /\ UNCHANGED <<count, ruleMaps, hostMaps, schemaMaps, serverMaps, pools>>

\* An element, a check or the startup throws.
Fail ==
    /\ count < MaxElems \/ phase \in {"build", "check", "loaded"}
    /\ \/ phase = "functions" /\ \E e \in FunctionElems : ~FunctionOk(e)
       \/ phase = "rules" /\ \E e \in RuleElems : ~RuleOk(e)
       \/ phase = "hosts" /\ \E e \in HostElems : ~HostOk(e)
       \/ phase = "nodes" /\ \E e \in NodeElems : ~NodeOk(e)
       \/ phase = "schemas" /\ open = None /\ \E e \in SchemaElems : ~SchemaOk(e)
       \/ phase = "schemas" /\ open # None
             /\ \/ \E e \in TableElems : ~TableOk(e)
                \/ path # <<>> /\ \E name \in ChildElems : ~ChildOk(name)
                \/ ~SchemaEndOk
       \/ phase = "system" /\ \E e \in SettingElems : ~SettingOk(e)
       \/ phase = "users" /\ \E e \in UserElems : ~UserOk(e)
       \/ phase = "members" /\ \E e \in MemberElems : ~MemberOk(e)
       \/ phase = "groups" /\ \E e \in GroupElems : ~GroupOk(e)
       \/ phase = "firewall" /\ \E e \in WhiteElems : ~WhiteOk(e)
       \/ phase = "build" /\ ~BuildOk
       \/ phase = "check" /\ ~CheckOk
       \/ phase = "loaded" /\ ~StartOk
    /\ phase' = "failed"
    /\ UNCHANGED <<count, ruleMaps, hostMaps, schemaMaps, serverMaps, pools>>

Next ==
    \/ \E e \in FunctionElems : ReadFunction(e)
    \/ \E e \in RuleElems : ReadRule(e)
    \/ \E e \in HostElems : ReadHost(e)
    \/ \E e \in NodeElems : ReadNode(e)
    \/ \E e \in SchemaElems : OpenSchema(e)
    \/ \E e \in TableElems : ReadTable(e)
    \/ \E name \in ChildElems, i \in DOMAIN path : ReadChild(name, i)
    \/ EndSchema
    \/ \E e \in SettingElems : ReadSetting(e)
    \/ \E e \in UserElems : ReadUser(e)
    \/ \E e \in MemberElems : ReadMember(e)
    \/ \E e \in GroupElems : ReadGroup(e)
    \/ EndCluster
    \/ \E e \in WhiteElems : ReadWhite(e)
    \/ NextKind \/ Build \/ Check \/ Start \/ Fail

Spec == Init /\ [][Next]_vars

-----------------------------------------------------------------------------
Done == {"loaded", "started"}

Phases == {"functions", "rules", "hosts", "nodes", "schemas", "system", "users",
           "members", "groups", "firewall", "build", "check", "failed"} \cup Done

TypeOK ==
    /\ phase \in Phases /\ count \in 0..MaxElems
    /\ DOMAIN rules \subseteq {e.name : e \in RuleElems}
    /\ DOMAIN hosts \subseteq {e.name : e \in HostElems}
    /\ DOMAIN nodes \subseteq UNION {Elems(e.names) : e \in NodeElems}
    /\ DOMAIN schemas \subseteq {e.name : e \in SchemaElems}
    /\ \A t \in DOMAIN tables : tables[t].nodes \subseteq DOMAIN nodes
    /\ DOMAIN users \subseteq {e.name : e \in UserElems}
    /\ DOMAIN pools \subseteq DOMAIN hosts

\* Whatever a user may log in to can be queried: when the configuration has
\* loaded, each schema of a user exists, statements on it are routed to an
\* existing data node, and the pool of that node's host has its database
\* among those it connects to. RouteService looks no further than this.
UsersAreServed ==
    phase \in Done =>
        \A u \in DOMAIN users : \A s \in users[u] :
            /\ s \in DOMAIN schemas
            /\ LET n == schemas[s].node IN
                  /\ n \in DOMAIN nodes
                  /\ nodes[n].host \in DOMAIN pools
                  /\ nodes[n].database \in pools[nodes[n].host]

Together(map) ==
    \A t \in DOMAIN map :
        /\ map[t].rule # None =>
              map[t].rule \in DOMAIN rules /\ Suits(map[t].rule, map[t].parts)
        /\ map[t].nodes \subseteq DOMAIN nodes
        /\ map[t].parent # None =>
              /\ map[t].parent \in DOMAIN map
              /\ map[t].nodes = map[map[t].parent].nodes

\* No table, of the open schema or of one that was read, names a rule, a node
\* or a parent that does not exist, however deep the child tables nest; its
\* rule has no partition that the table has no part for; and a child lies
\* where its parent does.
TablesHoldTogether ==
    \A map \in {schemas[s].tables : s \in DOMAIN schemas} \cup {tables} :
        Together(map)

\* The read hosts of a write host are those of its element, although the loop
\* that reads them takes another index.
ReadHostsAreOwn ==
    \A h \in DOMAIN hosts : \A i \in DOMAIN hosts[h].writers :
        hosts[h].readers[i] = hosts[h].writers[i].readers

\* A server that has started was given settings its parts can work with: the
\* buffer pool by both names of its chunk size, the listeners, the heartbeat
\* timer and the packet reader.
SettingsFit ==
    phase = "started" =>
        /\ \A key \in {"processorBufferChunk", "sequnceHandlerType"} :
              key \notin DOMAIN system
        /\ Setting("bufferPoolChunkSize") \in
              1..(Setting("bufferPoolPageSize") * Setting("bufferPoolPageNumber"))
        /\ Setting("serverBacklog") > 0
        /\ Setting("dataNodeHeartbeatPeriod") > 0
        /\ Setting("maxAllowedPacket") >= 1024
        /\ Setting("serverPort") = Setting("managerPort") => Setting("serverPort") = 0
=============================================================================
