---------------------------- MODULE ConfigProofs ----------------------------
(* Proofs about the loading of the configuration, for all documents: what    *)
(* the maps refer to exists while they are read, and what has loaded serves. *)
EXTENDS Config, TLAPS

\* Every host is a record of its fields.
HostsWhole ==
    \A h \in DOMAIN hosts :
        hosts[h] = [type |-> hosts[h].type, writers |-> hosts[h].writers,
                    nodes |-> hosts[h].nodes, readers |-> hosts[h].readers]

\* A node has a name, and lies on a host that was read.
NodesPlaced ==
    /\ None \notin DOMAIN nodes
    /\ \A n \in DOMAIN nodes : nodes[n].host \in DOMAIN hosts

\* The enclosing table elements are tables, on the nodes of the outermost.
PathLies ==
    /\ path \in Seq(DOMAIN tables)
    /\ \A i \in DOMAIN path : tables[path[i]].nodes = tables[path[1]].nodes

\* Every table of a map lies on some node.
Placed(map) ==
    /\ map = [t \in DOMAIN map |-> map[t]]
    /\ \A t \in DOMAIN map : map[t].nodes # {} /\ map[t].nodes \subseteq DOMAIN nodes

\* A schema has a default node, or tables that lie on one.
SchemasLie ==
    /\ Placed(tables)
    /\ open # None => open.node \in DOMAIN nodes \cup {None}
    /\ \A s \in DOMAIN schemas :
          /\ Placed(schemas[s].tables)
          /\ schemas[s].node \in DOMAIN nodes \cup {None}
          /\ schemas[s].tables = Empty => schemas[s].node # None

\* Once built, each host's pool is to connect to the databases on it.
PoolsBuilt ==
    phase \in {"check", "loaded", "started"} =>
        /\ DOMAIN pools = DOMAIN hosts
        /\ \A h \in DOMAIN hosts : DatabasesOf(h) \subseteq pools[h]

\* What has loaded was checked.
Checked == phase \in Done => CheckOk

-----------------------------------------------------------------------------
\* What sequences are.
LEMMA SeqFacts ==
    ASSUME NEW S, NEW s \in Seq(S)
    PROVE  /\ Len(s) \in Nat /\ DOMAIN s = 1..Len(s)
           /\ \A i \in DOMAIN s : s[i] \in S
  OBVIOUS

\* The host of each place of a node element is one of its hosts.
LEMMA PlaceIsGiven ==
    ASSUME NEW e \in NodeElems, Len(e.names) = Len(e.hosts) * Len(e.databases),
           NEW k \in DOMAIN e.names
    PROVE  Place(e, k).host \in Elems(e.hosts)
  <1> DEFINE h == Len(e.hosts)
             d == Len(e.databases)
             q == (k - 1) \div d
  <1>1. /\ h \in Nat /\ d \in Nat
        /\ DOMAIN e.hosts = 1..h
        /\ k \in Nat /\ 1 <= k /\ k <= h * d
    <2>1. /\ e.names \in Seq({e.names[i] : i \in DOMAIN e.names} \ {None})
          /\ e.hosts \in Seq({e.hosts[i] : i \in DOMAIN e.hosts})
          /\ e.databases \in Seq({e.databases[i] : i \in DOMAIN e.databases})
      BY ConfigAssumption
    <2>2. /\ DOMAIN e.names = 1..Len(e.names)
          /\ DOMAIN e.hosts = 1..Len(e.hosts) /\ Len(e.hosts) \in Nat
          /\ Len(e.databases) \in Nat
      BY ONLY <2>1, SeqFacts, Zenon
    <2>3. k \in 1..(h * d)
      BY ONLY <2>2, k \in DOMAIN e.names,
              Len(e.names) = Len(e.hosts) * Len(e.databases), Zenon DEF h, d
    <2>4. h \in Nat /\ d \in Nat /\ DOMAIN e.hosts = 1..h
      BY ONLY <2>2, Zenon DEF h, d
    <2> HIDE DEF h, d
    <2> QED
      BY ONLY <2>3, <2>4, SMT
  <1> HIDE DEF h, d
  <1>2. d > 0
    BY <1>1, SMT
  <1>3. /\ q \in Nat /\ q * d <= k - 1
    BY <1>1, <1>2, SMT
  <1>4. q < h
    BY <1>1, <1>2, <1>3, SMT
  <1>5. q + 1 \in DOMAIN e.hosts
    BY <1>1, <1>3, <1>4, SMT
  <1>6. Place(e, k).host = e.hosts[q + 1]
    BY DEF Place, d
  <1> QED
    BY <1>5, <1>6 DEF Elems

\* What each step leaves alone: the hosts and nodes but for their elements,
\* the schemas but for theirs, and the pools once they are built.
LEMMA StepsApart ==
    ASSUME [Next]_vars
    PROVE  /\ \/ \E e \in HostElems : ReadHost(e)
              \/ \E e \in NodeElems : ReadNode(e)
              \/ UNCHANGED hostMaps
           /\ \/ \E e \in RuleElems : ReadRule(e)
              \/ \E e \in NodeElems : ReadNode(e)
              \/ \E e \in SchemaElems : OpenSchema(e)
              \/ \E e \in TableElems : ReadTable(e)
              \/ \E name \in ChildElems, i \in DOMAIN path : ReadChild(name, i)
              \/ EndSchema
              \/ UNCHANGED <<rules, nodes, schemaMaps>>
           /\ (\E e \in SettingElems : ReadSetting(e)) \/ UNCHANGED system
           /\ \/ phase' \notin {"check", "loaded", "started"}
              \/ Build \/ Check \/ Start
              \/ UNCHANGED vars
  <1>1. CASE \E e \in FunctionElems : ReadFunction(e)
    BY <1>1 DEF ReadFunction, Reads, hostMaps, ruleMaps, schemaMaps, serverMaps, vars
  <1>2. CASE \E e \in RuleElems : ReadRule(e)
    BY <1>2 DEF ReadRule, Reads, hostMaps, ruleMaps, schemaMaps, serverMaps, vars
  <1>3. CASE \E e \in HostElems : ReadHost(e)
    BY <1>3 DEF ReadHost, Reads, hostMaps, ruleMaps, schemaMaps, serverMaps, vars
  <1>4. CASE \E e \in NodeElems : ReadNode(e)
    BY <1>4 DEF ReadNode, Reads, hostMaps, ruleMaps, schemaMaps, serverMaps, vars
  <1>5. CASE \E e \in SchemaElems : OpenSchema(e)
    BY <1>5 DEF OpenSchema, Reads, hostMaps, ruleMaps, schemaMaps, serverMaps, vars
  <1>6. CASE \E e \in TableElems : ReadTable(e)
    BY <1>6 DEF ReadTable, Reads, hostMaps, ruleMaps, schemaMaps, serverMaps, vars
  <1>7. CASE \E name \in ChildElems, i \in DOMAIN path : ReadChild(name, i)
    BY <1>7 DEF ReadChild, Reads, hostMaps, ruleMaps, schemaMaps, serverMaps, vars
  <1>8. CASE EndSchema
    BY <1>8 DEF EndSchema, hostMaps, ruleMaps, schemaMaps, serverMaps, vars
  <1>9. CASE \E e \in SettingElems : ReadSetting(e)
    BY <1>9 DEF ReadSetting, Reads, hostMaps, ruleMaps, schemaMaps, serverMaps, vars
  <1>10. CASE \E e \in UserElems : ReadUser(e)
    BY <1>10 DEF ReadUser, Reads, hostMaps, ruleMaps, schemaMaps, serverMaps, vars
  <1>11. CASE \E e \in MemberElems : ReadMember(e)
    BY <1>11 DEF ReadMember, Reads, hostMaps, ruleMaps, schemaMaps, serverMaps, vars
  <1>12. CASE \E e \in GroupElems : ReadGroup(e)
    BY <1>12 DEF ReadGroup, Reads, hostMaps, ruleMaps, schemaMaps, serverMaps, vars
  <1>13. CASE EndCluster
    BY <1>13 DEF EndCluster, hostMaps, ruleMaps, schemaMaps, serverMaps, vars
  <1>14. CASE \E e \in WhiteElems : ReadWhite(e)
    BY <1>14 DEF ReadWhite, Reads, hostMaps, ruleMaps, schemaMaps, serverMaps, vars
  <1>15. CASE NextKind
    BY <1>15 DEF NextKind, hostMaps, ruleMaps, schemaMaps, serverMaps, vars
  <1>16. CASE Build
    BY <1>16 DEF Build, hostMaps, ruleMaps, schemaMaps, serverMaps, vars
  <1>17. CASE Check
    BY <1>17 DEF Check, hostMaps, ruleMaps, schemaMaps, serverMaps, vars
  <1>18. CASE Start
    BY <1>18 DEF Start, hostMaps, ruleMaps, schemaMaps, serverMaps, vars
  <1>19. CASE Fail
    BY <1>19 DEF Fail, hostMaps, ruleMaps, schemaMaps, serverMaps, vars
  <1>20. CASE UNCHANGED vars
    BY <1>20 DEF vars, hostMaps, ruleMaps, schemaMaps, serverMaps, vars
  <1> QED
    BY <1>1, <1>2, <1>3, <1>4, <1>5, <1>6, <1>7, <1>8, <1>9, <1>10, <1>11, <1>12, <1>13, <1>14, <1>15, <1>16, <1>17, <1>18, <1>19, <1>20 DEF Next

-----------------------------------------------------------------------------
\* Hosts and nodes.
HostsInv ==
    /\ HostsWhole /\ NodesPlaced /\ ReadHostsAreOwn

\* The read hosts that the loop takes are those of the element, if accepted.
LEMMA ReadersAreOwn ==
    ASSUME NEW e \in HostElems, HostOk(e), NEW i \in DOMAIN e.writers
    PROVE  Readers(e.writers, i) = e.writers[i].readers
  <1> DEFINE r == e.writers[i].readers
  <1>1. r \in Seq({r[j] : j \in DOMAIN r})
    BY ConfigAssumption
  <1>2. /\ Readers(e.writers, i) = [j \in DOMAIN r |-> r[i]]
        /\ r # <<>> => i \in DOMAIN r /\ Distinct([j \in DOMAIN r |-> r[i]])
    BY DEF HostOk, Readers
  <1>3. r = [j \in DOMAIN r |-> r[j]]
    <2>1. PICK S : r \in Seq(S)
      BY <1>1
    <2> HIDE DEF r
    <2>2. r \in [1..Len(r) -> S]
      BY <2>1
    <2> QED
      BY <2>2
  <1> HIDE DEF r
  <1>4. \A j \in DOMAIN r : r[i] = r[j]
    <2>1. CASE r = <<>>
      <3>1. DOMAIN r = {}
        BY ONLY <2>1
      <3> QED
        BY ONLY <3>1
    <2>2. CASE r # <<>>
      BY <1>2, <2>2 DEF Distinct
    <2> QED
      BY <2>1, <2>2
  <1>5. [j \in DOMAIN r |-> r[i]] = [j \in DOMAIN r |-> r[j]]
    BY ONLY <1>4
  <1>6. Readers(e.writers, i) = r
    BY ONLY <1>2, <1>3, <1>5
  <1> QED
    BY <1>6 DEF r

LEMMA HostReadKeeps ==
    ASSUME HostsInv, NEW e \in HostElems, ReadHost(e)
    PROVE  HostsInv'
  <1> DEFINE new == [type |-> e.type, writers |-> e.writers, nodes |-> {},
                     readers |-> [i \in DOMAIN e.writers |-> Readers(e.writers, i)]]
  <1>1. /\ HostOk(e) /\ e.name \notin DOMAIN hosts
        /\ hosts' = Put(hosts, e.name, new)
        /\ UNCHANGED nodes
    BY DEF ReadHost, HostOk
  <1>2. /\ DOMAIN hosts' = DOMAIN hosts \cup {e.name}
        /\ \A h \in DOMAIN hosts : hosts'[h] = hosts[h]
        /\ hosts'[e.name] = new
    BY <1>1 DEF Put
  <1>3. /\ new.type = e.type /\ new.writers = e.writers /\ new.nodes = {}
        /\ new.readers = [i \in DOMAIN e.writers |-> Readers(e.writers, i)]
    OBVIOUS
  <1>4. HostsWhole'
    BY <1>2, <1>3 DEF HostsInv, HostsWhole
  <1>5. NodesPlaced'
    BY <1>1, <1>2 DEF HostsInv, NodesPlaced
  <1>7. ReadHostsAreOwn'
    <2>1. \A i \in DOMAIN new.writers : new.readers[i] = new.writers[i].readers
      BY <1>1, <1>3, ReadersAreOwn
    <2> QED
      BY <1>2, <2>1 DEF HostsInv, ReadHostsAreOwn
  <1> QED
    BY <1>4, <1>5, <1>7 DEF HostsInv

LEMMA NodeReadKeeps ==
    ASSUME HostsInv, NEW e \in NodeElems, ReadNode(e)
    PROVE  HostsInv'
  <1>1. /\ NodeOk(e) /\ Len(e.names) = Len(e.hosts) * Len(e.databases)
        /\ Elems(e.names) \cap DOMAIN nodes = {}
        /\ Elems(e.hosts) \subseteq DOMAIN hosts
    BY DEF ReadNode, NodeOk
  <1>2. /\ DOMAIN nodes' = DOMAIN nodes \cup Elems(e.names)
        /\ \A n \in DOMAIN nodes : nodes'[n] = nodes[n]
        /\ \A n \in Elems(e.names) \ DOMAIN nodes :
              nodes'[n] = Place(e, CHOOSE k \in DOMAIN e.names : e.names[k] = n)
    BY DEF ReadNode
  <1>3. /\ DOMAIN hosts' = DOMAIN hosts
        /\ \A h \in DOMAIN hosts : hosts'[h] = [hosts[h] EXCEPT !.nodes =
              @ \cup {n \in Elems(e.names) : nodes'[n].host = h}]
    BY DEF ReadNode
  <1>4. \A h \in DOMAIN hosts :
          hosts'[h] = [type |-> hosts[h].type, writers |-> hosts[h].writers,
                       nodes |-> hosts[h].nodes
                          \cup {n \in Elems(e.names) : nodes'[n].host = h},
                       readers |-> hosts[h].readers]
    <2> TAKE h \in DOMAIN hosts
    <2> DEFINE more == {n \in Elems(e.names) : nodes'[n].host = h}
               old == hosts[h]
    <2>1. old = [type |-> old.type, writers |-> old.writers,
                 nodes |-> old.nodes, readers |-> old.readers]
      BY DEF HostsInv, HostsWhole
    <2>2. hosts'[h] = [old EXCEPT !.nodes = @ \cup more]
      BY <1>3
    <2> HIDE DEF old, more
    <2>3. hosts'[h] = [type |-> old.type, writers |-> old.writers,
                       nodes |-> old.nodes \cup more, readers |-> old.readers]
      BY <2>1, <2>2
    <2> QED
      BY <2>3 DEF old, more
  <1>5. \A n \in Elems(e.names) : nodes'[n].host \in DOMAIN hosts
    <2> TAKE n \in Elems(e.names)
    <2> DEFINE k == CHOOSE k \in DOMAIN e.names : e.names[k] = n
    <2>1. k \in DOMAIN e.names
      BY DEF Elems
    <2>2. Place(e, k).host \in Elems(e.hosts)
      BY <1>1, <2>1, PlaceIsGiven
    <2> QED
      BY <1>1, <1>2, <2>2
  <1>6. HostsWhole'
    BY <1>3, <1>4 DEF HostsWhole
  <1>7. NodesPlaced'
    <2>1. None \notin Elems(e.names)
      <3>1. e.names \in Seq({e.names[i] : i \in DOMAIN e.names} \ {None})
        BY ConfigAssumption
      <3>2. \A i \in DOMAIN e.names : e.names[i] # None
        BY <3>1, SeqFacts
      <3> QED
        BY <3>2 DEF Elems
    <2> QED
      BY <1>2, <1>3, <1>5, <2>1 DEF HostsInv, NodesPlaced
  <1>9. ReadHostsAreOwn'
    BY <1>3, <1>4 DEF HostsInv, ReadHostsAreOwn
  <1> QED
    BY <1>6, <1>7, <1>9 DEF HostsInv

LEMMA HostsStep == HostsInv /\ [Next]_vars => HostsInv'
  <1> SUFFICES ASSUME HostsInv, [Next]_vars PROVE HostsInv'
    OBVIOUS
  <1>1. CASE UNCHANGED hostMaps
    BY <1>1 DEF hostMaps, HostsInv, HostsWhole, NodesPlaced, ReadHostsAreOwn
  <1> QED
    BY <1>1, StepsApart, HostReadKeeps, NodeReadKeeps

-----------------------------------------------------------------------------
\* Tables and schemas.
SchemasInv == PathLies /\ SchemasLie /\ TablesHoldTogether

\* More rules and more nodes do no harm.
LEMMA MoreIsNoHarm ==
    ASSUME SchemasInv, DOMAIN rules \subseteq DOMAIN rules',
           \A r \in DOMAIN rules : rules'[r] = rules[r],
           DOMAIN nodes \subseteq DOMAIN nodes', UNCHANGED schemaMaps
    PROVE  SchemasInv'
  <1>1. /\ tables' = tables /\ schemas' = schemas /\ path' = path /\ open' = open
    BY DEF schemaMaps
  <1>2. PathLies'
    BY <1>1 DEF SchemasInv, PathLies
  <1>3. SchemasLie'
    BY <1>1 DEF SchemasInv, SchemasLie, Placed
  <1>4. TablesHoldTogether'
    BY <1>1 DEF SchemasInv, TablesHoldTogether, Together, Suits
  <1> QED
    BY <1>2, <1>3, <1>4 DEF SchemasInv

\* A map without elements keeps every promise.
LEMMA EmptyHolds == Placed(Empty) /\ Together(Empty) /\ DOMAIN Empty = {}
  BY DEF Placed, Together, Empty

LEMMA SchemaOpensKeeps ==
    ASSUME SchemasInv, NEW e \in SchemaElems, OpenSchema(e)
    PROVE  SchemasInv'
  <1>1. /\ open' = [name |-> e.name, node |-> e.node]
        /\ e.node \in DOMAIN nodes \cup {None}
        /\ tables' = Empty /\ path' = <<>>
        /\ nodes' = nodes /\ rules' = rules /\ schemas' = schemas
    BY DEF OpenSchema, SchemaOk, ruleMaps, hostMaps
  <1>2. PathLies'
    <2>1. path' \in Seq(DOMAIN tables') /\ DOMAIN path' = {}
      BY <1>1
    <2> QED
      BY <2>1 DEF PathLies
  <1>3. SchemasLie'
    <2>1. DOMAIN tables' = {} /\ tables' = [t \in DOMAIN tables' |-> tables'[t]]
      BY <1>1 DEF Empty
    <2>2. Placed(tables)'
      BY <2>1 DEF Placed
    <2> QED
      BY <1>1, <2>2 DEF SchemasInv, SchemasLie, Placed
  <1>4. TablesHoldTogether'
    <2>1. DOMAIN tables' = {}
      BY <1>1, EmptyHolds
    <2> QED
      BY <1>1, <2>1 DEF SchemasInv, TablesHoldTogether, Together, Suits
  <1> QED
    BY <1>2, <1>3, <1>4 DEF SchemasInv

\* One more table, of a new name, on nodes that exist, with a rule that does,
\* and where its parent lies.
LEMMA TableAddedKeeps ==
    ASSUME SchemasInv, NEW t, NEW new, t \notin DOMAIN tables,
           new.nodes # {}, new.nodes \subseteq DOMAIN nodes,
           new.rule # None => new.rule \in DOMAIN rules /\ Suits(new.rule, new.parts),
           new.parent # None =>
              new.parent \in DOMAIN tables /\ new.nodes = tables[new.parent].nodes,
           tables' = Put(tables, t, new),
           nodes' = nodes, rules' = rules, open' = open, schemas' = schemas
    PROVE  SchemasLie' /\ TablesHoldTogether'
  <1>1. /\ DOMAIN tables' = DOMAIN tables \cup {t}
        /\ \A k \in DOMAIN tables : tables'[k] = tables[k]
        /\ tables'[t] = new
        /\ tables' = [k \in DOMAIN tables' |-> tables'[k]]
    BY DEF Put
  <1>3. Placed(tables)'
    BY <1>1 DEF SchemasInv, SchemasLie, Placed
  <1>4. SchemasLie'
    BY <1>3 DEF SchemasInv, SchemasLie, Placed
  <1>5. Together(tables)'
    <2>1. ASSUME NEW k \in DOMAIN tables
          PROVE  /\ tables'[k].rule # None =>
                       /\ tables'[k].rule \in DOMAIN rules'
                       /\ Suits(tables[k].rule, tables[k].parts)'
                 /\ tables'[k].nodes \subseteq DOMAIN nodes'
                 /\ tables'[k].parent # None =>
                       /\ tables'[k].parent \in DOMAIN tables'
                       /\ tables'[k].nodes = tables'[tables'[k].parent].nodes
      BY <1>1 DEF SchemasInv, TablesHoldTogether, Together, Suits
    <2>2. /\ tables'[t].rule # None =>
                /\ tables'[t].rule \in DOMAIN rules'
                /\ Suits(tables[t].rule, tables[t].parts)'
          /\ tables'[t].nodes \subseteq DOMAIN nodes'
          /\ tables'[t].parent # None =>
                /\ tables'[t].parent \in DOMAIN tables'
                /\ tables'[t].nodes = tables'[tables'[t].parent].nodes
      BY <1>1 DEF Suits
    <2> QED
      BY <1>1, <2>1, <2>2 DEF Together
  <1>6. \A s \in DOMAIN schemas' : Together(schemas[s].tables)'
    BY DEF SchemasInv, TablesHoldTogether, Together, Suits
  <1>7. TablesHoldTogether'
    BY <1>5, <1>6 DEF TablesHoldTogether, Together
  <1> QED
    BY <1>4, <1>7

LEMMA TableReadKeeps ==
    ASSUME SchemasInv, NEW e \in TableElems, ReadTable(e)
    PROVE  SchemasInv'
  <1> DEFINE t == Upper[e.name]
             new == [nodes |-> e.nodes, parts |-> e.parts, rule |-> e.rule, parent |-> None]
  <1>1. /\ t \notin DOMAIN tables
        /\ new.nodes # {} /\ new.nodes \subseteq DOMAIN nodes
        /\ new.rule # None => new.rule \in DOMAIN rules /\ Suits(new.rule, new.parts)
        /\ new.parent = None
        /\ tables' = Put(tables, t, new)
        /\ path' = <<t>>
        /\ nodes' = nodes /\ rules' = rules /\ open' = open /\ schemas' = schemas
    BY DEF ReadTable, TableOk, ruleMaps, hostMaps
  <1> HIDE DEF t, new
  <1>2. SchemasLie' /\ TablesHoldTogether'
    BY <1>1, TableAddedKeeps
  <1>3. t \in DOMAIN tables'
    BY <1>1 DEF Put
  <1>4. path' \in Seq(DOMAIN tables') /\ DOMAIN path' = {1}
    BY <1>1, <1>3
  <1> QED
    BY <1>2, <1>4 DEF SchemasInv, PathLies

LEMMA ChildReadKeeps ==
    ASSUME SchemasInv, NEW name \in ChildElems, NEW i \in DOMAIN path, ReadChild(name, i)
    PROVE  SchemasInv'
  <1> DEFINE on == tables[path[1]].nodes
             p == path[i]
             new == [nodes |-> on, rule |-> None, parent |-> p]
  <1>1. /\ name \notin DOMAIN tables
        /\ tables' = Put(tables, name, new)
        /\ new.nodes = on /\ new.rule = None /\ new.parent = p
        /\ path' = Append(SubSeq(path, 1, i), name)
        /\ nodes' = nodes /\ rules' = rules /\ open' = open /\ schemas' = schemas
    BY DEF ReadChild, ChildOk, ruleMaps, hostMaps
  <1>2. /\ path \in Seq(DOMAIN tables)
        /\ \A k \in DOMAIN path : tables[path[k]].nodes = on
    BY DEF SchemasInv, PathLies
  <1>3. /\ Len(path) \in Nat /\ DOMAIN path = 1..Len(path) /\ i \in 1..Len(path)
        /\ \A k \in DOMAIN path : path[k] \in DOMAIN tables
    BY <1>2, SeqFacts
  <1>4. 1 \in DOMAIN path
    BY <1>3
  <1>5. on # {} /\ on \subseteq DOMAIN nodes /\ p \in DOMAIN tables
    BY <1>3, <1>4 DEF SchemasInv, SchemasLie, Placed
  <1>6. on = tables[p].nodes
    BY <1>2
  <1> HIDE DEF on, p, new
  <1>7. SchemasLie' /\ TablesHoldTogether'
    BY <1>1, <1>5, <1>6, TableAddedKeeps
  <1>8. /\ DOMAIN tables' = DOMAIN tables \cup {name}
        /\ \A k \in DOMAIN tables : tables'[k] = tables[k]
        /\ tables'[name].nodes = on
    <2>1. tables'[name] = new
      BY <1>1 DEF Put
    <2> QED
      BY <1>1, <2>1 DEF Put
  <1>9. /\ path' \in Seq(DOMAIN tables')
        /\ DOMAIN path' = 1..(i + 1)
        /\ \A k \in 1..i : path'[k] = path[k]
        /\ path'[i + 1] = name
    <2> DEFINE s == SubSeq(path, 1, i)
    <2>1. /\ s \in Seq(DOMAIN tables) /\ Len(s) = i
          /\ \A k \in 1..i : s[k] = path[k]
      BY <1>2, <1>3
    <2>2. s \in Seq(DOMAIN tables')
      BY <1>3, <1>8, <2>1
    <2> HIDE DEF s
    <2>3. path' = Append(s, name)
      BY <1>1 DEF s
    <2> QED
      BY <1>3, <1>8, <2>1, <2>2, <2>3
  <1>10. \A k \in 1..(i + 1) : tables'[path'[k]].nodes = on
    <2>1. \A k \in 1..i : tables'[path'[k]].nodes = on
      BY <1>2, <1>3, <1>8, <1>9
    <2> QED
      BY <1>3, <1>8, <1>9, <2>1
  <1>11. PathLies'
    BY <1>3, <1>9, <1>10 DEF PathLies
  <1> QED
    BY <1>7, <1>11 DEF SchemasInv

LEMMA SchemaEndsKeeps ==
    ASSUME SchemasInv, EndSchema
    PROVE  SchemasInv'
  <1> DEFINE new == [node |-> open.node, tables |-> tables]
  <1>1. /\ open # None /\ open.name \notin DOMAIN schemas
        /\ tables = Empty => open.node # None
        /\ schemas' = Put(schemas, open.name, new)
        /\ open' = None /\ tables' = Empty /\ path' = <<>>
        /\ nodes' = nodes /\ rules' = rules
    BY DEF EndSchema, SchemaEndOk, ruleMaps, hostMaps
  <1>2. /\ DOMAIN schemas' = DOMAIN schemas \cup {open.name}
        /\ \A s \in DOMAIN schemas : schemas'[s] = schemas[s]
        /\ schemas'[open.name] = new
    BY <1>1 DEF Put
  <1>3. new.node = open.node /\ new.tables = tables
    OBVIOUS
  <1>4. DOMAIN tables' = {} /\ tables' = [t \in DOMAIN tables' |-> tables'[t]]
    BY <1>1 DEF Empty
  <1> HIDE DEF new
  <1>5. PathLies'
    BY <1>1, <1>4, path' \in Seq(DOMAIN tables'), DOMAIN path' = {} DEF PathLies
  <1>6. SchemasLie'
    <2>1. Placed(tables)'
      BY <1>4 DEF Placed
    <2>2. \A s \in DOMAIN schemas :
              /\ Placed(schemas[s].tables)'
              /\ schemas'[s].node \in DOMAIN nodes' \cup {None}
              /\ schemas'[s].tables = Empty => schemas'[s].node # None
      BY <1>1, <1>2 DEF SchemasInv, SchemasLie, Placed
    <2> QED
      BY <1>1, <1>2, <1>3, <2>1, <2>2 DEF SchemasInv, SchemasLie, Placed
  <1>7. TablesHoldTogether'
    BY <1>1, <1>2, <1>3, <1>4 DEF SchemasInv, TablesHoldTogether, Together, Suits
  <1> QED
    BY <1>5, <1>6, <1>7 DEF SchemasInv

LEMMA SchemasStep == SchemasInv /\ [Next]_vars => SchemasInv'
  <1> SUFFICES ASSUME SchemasInv, [Next]_vars PROVE SchemasInv'
    OBVIOUS
  <1>1. CASE UNCHANGED <<rules, nodes, schemaMaps>>
    BY <1>1, MoreIsNoHarm
  <1>2. ASSUME NEW e \in RuleElems, ReadRule(e) PROVE SchemasInv'
    <2>1. /\ e.name \notin DOMAIN rules
          /\ rules' = Put(rules, e.name, functions[e.function])
          /\ nodes' = nodes /\ UNCHANGED schemaMaps
      BY <1>2 DEF ReadRule, RuleOk, hostMaps
    <2>2. DOMAIN rules \subseteq DOMAIN rules' /\ \A r \in DOMAIN rules : rules'[r] = rules[r]
      BY <2>1 DEF Put
    <2> QED
      BY <2>1, <2>2, MoreIsNoHarm
  <1>3. ASSUME NEW e \in NodeElems, ReadNode(e) PROVE SchemasInv'
    BY <1>3, MoreIsNoHarm DEF ReadNode, ruleMaps
  <1> QED
    BY <1>1, <1>2, <1>3, StepsApart, SchemaOpensKeeps, TableReadKeeps,
       ChildReadKeeps, SchemaEndsKeeps

-----------------------------------------------------------------------------
\* The rest of the type invariant.
Typed ==
    /\ phase \in Phases /\ count \in 0..MaxElems
    /\ DOMAIN rules \subseteq {e.name : e \in RuleElems}
    /\ DOMAIN hosts \subseteq {e.name : e \in HostElems}
    /\ DOMAIN nodes \subseteq UNION {Elems(e.names) : e \in NodeElems}
    /\ DOMAIN schemas \subseteq {e.name : e \in SchemaElems}
    /\ open # None => open.name \in {e.name : e \in SchemaElems}
    /\ DOMAIN users \subseteq {e.name : e \in UserElems}
    /\ DOMAIN pools \subseteq DOMAIN hosts

LEMMA TypedStep == Typed /\ [Next]_vars => Typed'
  <1> SUFFICES ASSUME Typed, [Next]_vars PROVE Typed'
    OBVIOUS
  <1>0. MaxElems \in Nat /\ Typed
    BY ConfigAssumption
  <1>1. CASE \E e \in FunctionElems : ReadFunction(e)
    BY <1>1, <1>0 DEF ReadFunction, Reads, Typed, Phases, Done,
       ruleMaps, hostMaps, schemaMaps, serverMaps, vars
  <1>2. CASE \E e \in RuleElems : ReadRule(e)
    BY <1>2, <1>0 DEF ReadRule, Reads, Put, Typed, Phases, Done,
       ruleMaps, hostMaps, schemaMaps, serverMaps, vars
  <1>3. CASE \E e \in HostElems : ReadHost(e)
    BY <1>3, <1>0 DEF ReadHost, Reads, Put, Typed, Phases, Done,
       ruleMaps, hostMaps, schemaMaps, serverMaps, vars
  <1>4. CASE \E e \in NodeElems : ReadNode(e)
    BY <1>4, <1>0 DEF ReadNode, Reads, Typed, Phases, Done,
       ruleMaps, hostMaps, schemaMaps, serverMaps, vars
  <1>5. CASE \E e \in SchemaElems : OpenSchema(e)
    BY <1>5, <1>0 DEF OpenSchema, Reads, Typed, Phases, Done,
       ruleMaps, hostMaps, schemaMaps, serverMaps, vars
  <1>6. CASE \E e \in TableElems : ReadTable(e)
    BY <1>6, <1>0 DEF ReadTable, Reads, Typed, Phases, Done,
       ruleMaps, hostMaps, schemaMaps, serverMaps, vars
  <1>7. CASE \E name \in ChildElems, i \in DOMAIN path : ReadChild(name, i)
    BY <1>7, <1>0 DEF ReadChild, Reads, Typed, Phases, Done,
       ruleMaps, hostMaps, schemaMaps, serverMaps, vars
  <1>8. CASE EndSchema
    BY <1>8, <1>0 DEF EndSchema, SchemaEndOk, Put, Typed, Phases, Done,
       ruleMaps, hostMaps, schemaMaps, serverMaps, vars
  <1>9. CASE \E e \in SettingElems : ReadSetting(e)
    BY <1>9, <1>0 DEF ReadSetting, Reads, Typed, Phases, Done,
       ruleMaps, hostMaps, schemaMaps, serverMaps, vars
  <1>10. CASE \E e \in UserElems : ReadUser(e)
    BY <1>10, <1>0 DEF ReadUser, Reads, Put, Typed, Phases, Done,
       ruleMaps, hostMaps, schemaMaps, serverMaps, vars
  <1>11. CASE \E e \in MemberElems : ReadMember(e)
    BY <1>11, <1>0 DEF ReadMember, Reads, Typed, Phases, Done,
       ruleMaps, hostMaps, schemaMaps, serverMaps, vars
  <1>12. CASE \E e \in GroupElems : ReadGroup(e)
    BY <1>12, <1>0 DEF ReadGroup, Reads, Typed, Phases, Done,
       ruleMaps, hostMaps, schemaMaps, serverMaps, vars
  <1>13. CASE EndCluster
    BY <1>13, <1>0 DEF EndCluster, Typed, Phases, Done,
       ruleMaps, hostMaps, schemaMaps, serverMaps, vars
  <1>14. CASE \E e \in WhiteElems : ReadWhite(e)
    BY <1>14, <1>0 DEF ReadWhite, Reads, Typed, Phases, Done,
       ruleMaps, hostMaps, schemaMaps, serverMaps, vars
  <1>15. CASE NextKind
    BY <1>15, <1>0 DEF NextKind, Typed, Phases, Done,
       ruleMaps, hostMaps, schemaMaps, serverMaps, vars
  <1>16. CASE Build
    BY <1>16, <1>0 DEF Build, Typed, Phases, Done,
       ruleMaps, hostMaps, schemaMaps, serverMaps, vars
  <1>17. CASE Check
    BY <1>17, <1>0 DEF Check, Typed, Phases, Done,
       ruleMaps, hostMaps, schemaMaps, serverMaps, vars
  <1>18. CASE Start
    BY <1>18, <1>0 DEF Start, Typed, Phases, Done,
       ruleMaps, hostMaps, schemaMaps, serverMaps, vars
  <1>19. CASE Fail
    BY <1>19, <1>0 DEF Fail, Typed, Phases, Done,
       ruleMaps, hostMaps, schemaMaps, serverMaps, vars
  <1>20. CASE UNCHANGED vars
    BY <1>20, <1>0 DEF vars, Typed, Phases, Done,
       ruleMaps, hostMaps, schemaMaps, serverMaps
  <1> QED
    BY <1>1, <1>2, <1>3, <1>4, <1>5, <1>6, <1>7, <1>8, <1>9, <1>10, <1>11, <1>12, <1>13, <1>14, <1>15, <1>16, <1>17, <1>18, <1>19, <1>20 DEF Next

-----------------------------------------------------------------------------
\* Settings.
Positive == {"bufferPoolChunkSize", "bufferPoolPageSize", "bufferPoolPageNumber",
             "serverBacklog", "dataNodeHeartbeatPeriod"}

OldNames == {"processorBufferChunk", "sequnceHandlerType"}

SettingsSound ==
    /\ \A key \in OldNames : key \notin DOMAIN system
    /\ \A f \in Positive \cap DOMAIN system :
          system[f].num \in Int /\ system[f].num > 0
    /\ "maxAllowedPacket" \in DOMAIN system =>
          system["maxAllowedPacket"].num \in Int /\ system["maxAllowedPacket"].num >= 1024

LEMMA FieldFacts ==
    ASSUME NEW key
    PROVE  /\ key = "processorBufferChunk" => Field(key) = "bufferPoolChunkSize"
           /\ key = "sequnceHandlerType" => Field(key) = "sequenceHandlerType"
           /\ key = "sequnceHandlerPattern" => Field(key) = "sequenceHandlerPattern"
           /\ key \notin {"processorBufferChunk", "sequnceHandlerType", "sequnceHandlerPattern"}
                 => Field(key) = key
  BY DEF Field

\* The setter behind each of the fields that the server's parts rely on.
LEMMA KindOfSetter ==
    ASSUME NEW p \in Setters
    PROVE  /\ Field(p[1]) \in Positive => p[2] = "positive"
           /\ Field(p[1]) = "maxAllowedPacket" => p[2] = "packet"
           /\ Field(p[1]) \notin OldNames
  <1>1. CASE p \in ListenSettings
    BY <1>1, FieldFacts DEF ListenSettings, Positive, OldNames
  <1>2. CASE p \in BufferSettings
    BY <1>2, FieldFacts DEF BufferSettings, Positive, OldNames
  <1>3. CASE p \in SequenceSettings
    BY <1>3, FieldFacts DEF SequenceSettings, Positive, OldNames
  <1>4. CASE p \in SocketSettings
    BY <1>4, FieldFacts DEF SocketSettings, Positive, OldNames
  <1>5. CASE p \in PacketSettings
    BY <1>5, FieldFacts DEF PacketSettings, Positive, OldNames
  <1>6. CASE p \in PeriodSettings
    BY <1>6, FieldFacts DEF PeriodSettings, Positive, OldNames
  <1>7. CASE p \in SwitchSettings
    BY <1>7, FieldFacts DEF SwitchSettings, Positive, OldNames
  <1>8. CASE p \in PatternSettings
    BY <1>8, FieldFacts DEF PatternSettings, Positive, OldNames
  <1>9. CASE p \in StorageSettings
    BY <1>9, FieldFacts DEF StorageSettings, Positive, OldNames
  <1> QED
    BY <1>1, <1>2, <1>3, <1>4, <1>5, <1>6, <1>7, <1>8, <1>9 DEF Setters

LEMMA SettingReadKeeps ==
    ASSUME SettingsSound, NEW e \in SettingElems, ReadSetting(e)
    PROVE  SettingsSound'
  <1>1. PICK p \in Setters :
            /\ p[1] = e.key /\ Takes(p[2], e.value)
            /\ system' = Assigned(system, p[2], e.key, e.value)
    BY DEF ReadSetting
  <1> DEFINE f == Field(e.key)
  <1>2. /\ f \in Positive => p[2] = "positive"
        /\ f = "maxAllowedPacket" => p[2] = "packet"
        /\ f \notin OldNames
    BY <1>1, KindOfSetter
  <1>3. e.value.num \in Int
    BY ConfigAssumption
  <1>4. /\ p[2] = "positive" => e.value.num > 0
        /\ p[2] = "packet" => e.value.num >= 1024
    <2> DEFINE big == 2^30
               v == e.value
    <2>1. \/ p[2] \notin {"positive", "packet"}
          \/ p[2] = "positive" /\ v.num > 0
          \/ p[2] = "packet" /\ v.num \in 1024..big
      <3>1. CASE p[2] = "positive"
        BY <1>1, <3>1 DEF Takes
      <3>2. CASE p[2] = "packet"
        BY <1>1, <3>2 DEF Takes
      <3> QED
        BY <3>1, <3>2
    <2> HIDE DEF big, v
    <2>2. v.num \in Int
      BY <1>3 DEF v
    <2> QED
      BY <2>1, <2>2 DEF v
  <1>5. CASE p[2] \in {"parser", "hundred"}
    BY <1>1, <1>5 DEF Assigned, SettingsSound
  <1>6. CASE p[2] \notin {"parser", "hundred"}
    <2>1. \E v : /\ system' = Put(system, f, v)
                 /\ p[2] # "flag" => v = e.value
      BY <1>1, <1>6 DEF Assigned
    <2>2. PICK v : /\ system' = Put(system, f, v)
                   /\ p[2] # "flag" => v = e.value
      BY <2>1
    <2> HIDE DEF f
    <2>3. /\ DOMAIN system' = DOMAIN system \cup {f}
          /\ system'[f] = v
          /\ \A k \in DOMAIN system \ {f} : system'[k] = system[k]
      BY <2>2 DEF Put
    <2>4. \A k \in OldNames : k \notin DOMAIN system'
      BY <1>2, <2>3 DEF SettingsSound
    <2>5. \A k \in Positive \cap DOMAIN system' :
              system'[k].num \in Int /\ system'[k].num > 0
      BY <1>2, <1>3, <1>4, <2>2, <2>3 DEF SettingsSound
    <2>6. "maxAllowedPacket" \in DOMAIN system' =>
              /\ system'["maxAllowedPacket"].num \in Int
              /\ system'["maxAllowedPacket"].num >= 1024
      BY <1>2, <1>3, <1>4, <2>2, <2>3 DEF SettingsSound
    <2> QED
      BY <2>4, <2>5, <2>6 DEF SettingsSound
  <1> QED
    BY <1>5, <1>6

LEMMA SettingsStep == SettingsSound /\ [Next]_vars => SettingsSound'
  <1> SUFFICES ASSUME SettingsSound, [Next]_vars PROVE SettingsSound'
    OBVIOUS
  <1>1. CASE UNCHANGED system
    BY <1>1 DEF SettingsSound
  <1> QED
    BY <1>1, StepsApart, SettingReadKeeps

\* A setting that was not given has its default.
LEMMA DefaultFacts ==
    /\ \A d \in Defaults : d[2] \in Int /\ d[2] >= 0
    /\ \A d \in Defaults : d[1] \in Positive \ {"bufferPoolPageNumber"} => d[2] > 0
    /\ \A d \in Defaults : d[1] = "maxAllowedPacket" => d[2] >= 1024
    /\ \A f \in Positive \cup {"maxAllowedPacket"} : \E d \in Defaults : d[1] = f
  <1>1. Cpus \in Nat
    BY ConfigAssumption
  <1>2. 2^24 \in Nat /\ 2^24 >= 1024
    OBVIOUS
  <1>3. Cpus * 64 \in Nat /\ 1024 * 4096 = 4194304
    BY <1>1
  <1>4. \A d \in Defaults : d[2] \in Int /\ d[2] >= 0
    BY <1>2, <1>3 DEF Defaults
  <1>5. \A d \in Defaults : d[1] \in Positive \ {"bufferPoolPageNumber"} => d[2] > 0
    BY <1>2, <1>3 DEF Defaults, Positive
  <1>6. \A d \in Defaults : d[1] = "maxAllowedPacket" => d[2] >= 1024
    BY <1>2 DEF Defaults
  <1>7. \A f \in Positive \cup {"maxAllowedPacket"} : \E d \in Defaults : d[1] = f
    BY DEF Defaults, Positive
  <1> QED
    BY <1>4, <1>5, <1>6, <1>7

LEMMA SettingFacts ==
    ASSUME SettingsSound
    PROVE  /\ \A f \in Positive : Setting(f) \in Int
           /\ \A f \in Positive \ {"bufferPoolPageNumber"} : Setting(f) > 0
           /\ Setting("maxAllowedPacket") >= 1024
  <1>1. ASSUME NEW f \in Positive \cup {"maxAllowedPacket"}, f \notin DOMAIN system
        PROVE  \E d \in Defaults : d[1] = f /\ Setting(f) = d[2]
    <2>1. \E d \in Defaults : d[1] = f
      BY DefaultFacts
    <2> QED
      BY <1>1, <2>1 DEF Setting
  <1>2. ASSUME NEW f \in Positive
        PROVE  /\ Setting(f) \in Int
               /\ f # "bufferPoolPageNumber" => Setting(f) > 0
    <2>1. CASE f \in DOMAIN system
      BY <2>1 DEF Setting, SettingsSound
    <2>2. CASE f \notin DOMAIN system
      BY <1>1, <2>2, DefaultFacts
    <2> QED
      BY <2>1, <2>2
  <1>3. Setting("maxAllowedPacket") >= 1024
    <2>1. CASE "maxAllowedPacket" \in DOMAIN system
      BY <2>1 DEF Setting, SettingsSound
    <2>2. CASE "maxAllowedPacket" \notin DOMAIN system
      BY <1>1, <2>2, DefaultFacts
    <2> QED
      BY <2>1, <2>2
  <1> QED
    BY <1>2, <1>3

\* What has started could: MycatServer.startup did not throw.
Ready == phase = "started" => StartOk

IInv == HostsInv /\ SchemasInv /\ PoolsBuilt /\ Checked /\ Typed /\ SettingsSound /\ Ready

LEMMA InitHolds == Init => IInv
  <1> SUFFICES ASSUME Init PROVE IInv
    OBVIOUS
  <1>1. /\ DOMAIN hosts = {} /\ DOMAIN nodes = {} /\ DOMAIN tables = {}
        /\ DOMAIN schemas = {} /\ DOMAIN rules = {} /\ DOMAIN users = {}
        /\ DOMAIN pools = {} /\ path = <<>> /\ open = None
        /\ phase = "functions" /\ count = 0
    BY EmptyHolds DEF Init
  <1>2. HostsInv
    BY <1>1 DEF HostsInv, HostsWhole, NodesPlaced, ReadHostsAreOwn
  <1>3. PathLies
    BY <1>1, path \in Seq(DOMAIN tables), DOMAIN path = {} DEF PathLies
  <1>4. Placed(tables)
    BY EmptyHolds DEF Init
  <1>5. SchemasInv
    BY <1>1, <1>3, <1>4 DEF SchemasInv, SchemasLie, TablesHoldTogether, Together
  <1>6. PoolsBuilt /\ Checked
    BY <1>1 DEF PoolsBuilt, Checked, Done
  <1>7. Typed
    BY <1>1, ConfigAssumption DEF Typed, Phases
  <1>8. DOMAIN system = {} /\ phase # "started"
    BY EmptyHolds, <1>1 DEF Init
  <1>9. SettingsSound /\ Ready
    BY <1>8 DEF SettingsSound, Ready
  <1> QED
    BY <1>2, <1>5, <1>6, <1>7, <1>9 DEF IInv

LEMMA NextKeeps == IInv /\ [Next]_vars => IInv'
  <1> SUFFICES ASSUME IInv, [Next]_vars PROVE IInv'
    OBVIOUS
  <1>1. HostsInv' /\ SchemasInv' /\ Typed'
    BY HostsStep, SchemasStep, TypedStep DEF IInv
  <1>2. PoolsBuilt' /\ Checked'
    <2>1. CASE phase' \notin {"check", "loaded", "started"}
      BY <2>1 DEF PoolsBuilt, Checked, Done
    <2>2. CASE Build
      <3>1. /\ phase' = "check" /\ hosts' = hosts /\ nodes' = nodes
            /\ DOMAIN pools' = DOMAIN hosts
            /\ \A h \in DOMAIN hosts : DatabasesOf(h) \subseteq pools'[h]
        BY <2>2 DEF Build, hostMaps
      <3> QED
        BY <3>1 DEF PoolsBuilt, Checked, Done, DatabasesOf
    <2>3. CASE Check \/ Start \/ UNCHANGED vars
      <3>1. /\ hosts' = hosts /\ nodes' = nodes /\ pools' = pools
            /\ schemas' = schemas /\ users' = users
        BY <2>3 DEF Check, Start, vars, hostMaps, schemaMaps, serverMaps
      <3>2. /\ phase' \in {"check", "loaded", "started"} =>
                  phase \in {"check", "loaded", "started"}
            /\ phase' \in Done => CheckOk
        BY <2>3 DEF Check, Start, vars, IInv, Checked, Done
      <3>3. PoolsBuilt'
        BY <3>1, <3>2 DEF IInv, PoolsBuilt, DatabasesOf
      <3>4. CheckOk => CheckOk'
        BY <3>1 DEF CheckOk, AllNodes
      <3> QED
        BY <3>2, <3>3, <3>4 DEF Checked
    <2> QED
      BY <2>1, <2>2, <2>3, StepsApart
  <1>3. SettingsSound'
    BY SettingsStep DEF IInv
  <1>4. Ready'
    <2>1. CASE Build
      BY <2>1 DEF Build, Ready
    <2>2. CASE Check
      BY <2>2 DEF Check, Ready
    <2>3. CASE Start
      BY <2>3 DEF Start, Ready, StartOk, Setting, serverMaps
    <2>4. CASE UNCHANGED vars
      BY <2>4 DEF vars, serverMaps, IInv, Ready, StartOk, Setting
    <2>5. CASE phase' \notin {"check", "loaded", "started"}
      BY <2>5 DEF Ready
    <2> QED
      BY <2>1, <2>2, <2>3, <2>4, <2>5, StepsApart
  <1> QED
    BY <1>1, <1>2, <1>3, <1>4 DEF IInv

LEMMA Invariant == Spec => []IInv
  BY InitHolds, NextKeeps, PTL DEF Spec

-----------------------------------------------------------------------------
\* The maps hold what the elements named, and pools are of hosts that exist
\* (the loader's maps, and ConfigInitializer's).
THEOREM ConfigTyped == Spec => []TypeOK
  <1>1. IInv => TypeOK
    BY DEF IInv, Typed, SchemasInv, SchemasLie, Placed, TypeOK
  <1> QED
    BY <1>1, Invariant, PTL

\* The read hosts accepted by parseDbHosts are those of the write host, for
\* every number of write and read hosts.
THEOREM ReadHostsKept == Spec => []ReadHostsAreOwn
  <1>1. IInv => ReadHostsAreOwn
    BY DEF IInv, HostsInv
  <1> QED
    BY <1>1, Invariant, PTL

\* Tables refer to rules, nodes and parents that exist, and children lie with
\* their parents, at every depth (doParseTables, processChildTables).
THEOREM TablesAreSound == Spec => []TablesHoldTogether
  <1>1. IInv => TablesHoldTogether
    BY DEF IInv, SchemasInv
  <1> QED
    BY <1>1, Invariant, PTL

\* What selfChecking lets through can be routed: a schema without a default
\* node has tables that lie somewhere, and the check refuses it.
THEOREM LoadedServes == Spec => []UsersAreServed
  <1>1. IInv => UsersAreServed
    <2> SUFFICES ASSUME IInv, phase \in Done,
                        NEW u \in DOMAIN users, NEW s \in users[u]
                 PROVE  /\ s \in DOMAIN schemas
                        /\ LET n == schemas[s].node IN
                              /\ n \in DOMAIN nodes
                              /\ nodes[n].host \in DOMAIN pools
                              /\ nodes[n].database \in pools[nodes[n].host]
      BY DEF UsersAreServed
    <2> DEFINE n == schemas[s].node
    <2>1. /\ CheckOk /\ phase \in {"check", "loaded", "started"}
          /\ DOMAIN pools = DOMAIN hosts
          /\ \A h \in DOMAIN hosts : DatabasesOf(h) \subseteq pools[h]
      BY DEF IInv, Checked, PoolsBuilt, Done
    <2>2. s \in DOMAIN schemas
      BY <2>1 DEF CheckOk
    <2>3. /\ \A t \in DOMAIN schemas[s].tables :
                /\ schemas[s].tables[t].nodes # {}
                /\ schemas[s].tables[t].nodes \subseteq DOMAIN nodes
          /\ schemas[s].tables = [t \in DOMAIN schemas[s].tables |-> schemas[s].tables[t]]
          /\ n \in DOMAIN nodes \cup {None}
          /\ schemas[s].tables = Empty => n # None
      BY <2>2 DEF IInv, SchemasInv, SchemasLie, Placed
    <2>4. /\ None \notin DOMAIN nodes
          /\ \A m \in DOMAIN nodes : nodes[m].host \in DOMAIN hosts
      BY DEF IInv, HostsInv, NodesPlaced
    <2>5. n # None
      <3> SUFFICES ASSUME n = None PROVE FALSE
        OBVIOUS
      <3>1. schemas[s].tables # Empty
        BY <2>3
      <3>2. DOMAIN schemas[s].tables # {}
        BY <2>3, <3>1 DEF Empty
      <3>3. PICK t \in DOMAIN schemas[s].tables : TRUE
        BY <3>2
      <3>4. PICK m \in schemas[s].tables[t].nodes : m \in DOMAIN nodes
        BY <2>3
      <3>5. nodes # Empty /\ pools # Empty
        BY <2>1, <2>4, <3>4, EmptyHolds
      <3>6. None \in DOMAIN nodes
        <4>1. AllNodes(schemas[s]) \subseteq DOMAIN nodes
          BY <2>1, <2>2, <3>5 DEF CheckOk
        <4>2. None \in AllNodes(schemas[s])
          BY DEF AllNodes
        <4> QED
          BY <4>1, <4>2
      <3> QED
        BY <2>4, <3>6
    <2>6. n \in DOMAIN nodes /\ nodes[n].host \in DOMAIN hosts
      BY <2>3, <2>4, <2>5
    <2>7. nodes[n].database \in DatabasesOf(nodes[n].host)
      BY <2>6 DEF DatabasesOf
    <2> QED
      BY <2>1, <2>2, <2>6, <2>7
  <1> QED
    BY <1>1, Invariant, PTL

\* A server that has started was given settings its parts can work with, for
\* every document and every number of processors (SystemConfig's setters).
THEOREM StartedFits == Spec => []SettingsFit
  <1>1. IInv => SettingsFit
    <2> SUFFICES ASSUME IInv, phase = "started" PROVE SettingsFit
      BY DEF SettingsFit
    <2>1. SettingsSound /\ StartOk
      BY DEF IInv, Ready
    <2> DEFINE chunk == Setting("bufferPoolChunkSize")
               room == Setting("bufferPoolPageSize") * Setting("bufferPoolPageNumber")
    <2>2. /\ Setting("bufferPoolPageSize") \in Int /\ Setting("bufferPoolPageNumber") \in Int
          /\ chunk \in Int /\ chunk > 0
          /\ Setting("serverBacklog") > 0 /\ Setting("dataNodeHeartbeatPeriod") > 0
          /\ Setting("maxAllowedPacket") >= 1024
      BY <2>1, SettingFacts DEF Positive
    <2>3. room \in Int
      BY <2>2
    <2>4. /\ chunk <= room
          /\ Setting("serverPort") = Setting("managerPort") => Setting("serverPort") = 0
      BY <2>1 DEF StartOk
    <2> HIDE DEF chunk, room
    <2>5. chunk \in 1..room
      BY <2>2, <2>3, <2>4
    <2>6. \A key \in OldNames : key \notin DOMAIN system
      BY <2>1 DEF SettingsSound
    <2> QED
      BY <2>2, <2>4, <2>5, <2>6 DEF SettingsFit, OldNames, chunk, room
  <1> QED
    BY <1>1, Invariant, PTL
=============================================================================
