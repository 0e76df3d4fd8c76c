------------------------------ MODULE MCConfig ------------------------------
\* Documents of a few elements each, sound and unsound ones.
EXTENDS Config

Writer(name, port, readers) == [name |-> name, port |-> port, readers |-> readers]

HostOf(name, type, maxCon, writers) ==
    [name |-> name, type |-> type, maxCon |-> maxCon, minCon |-> 0, balance |-> 0,
     writeType |-> 0, switchType |-> 1, writers |-> writers]

\* The algorithms of the repository take any number of partitions.
MCFunctions == {[name |-> "mod", loadable |-> TRUE, partitions |-> -1],
                [name |-> "halves", loadable |-> TRUE, partitions |-> 2],
                [name |-> "halves", loadable |-> FALSE, partitions |-> 2]}

MCRules == {[name |-> "r", rules |-> 1, columns |-> 1, function |-> "mod"],
            [name |-> "r", rules |-> 1, columns |-> 1, function |-> "halves"],
            [name |-> "r", rules |-> 1, columns |-> 2, function |-> "halves"]}

MCHosts == {
    HostOf("h1", "mysql", 10, <<Writer("w1", 3306, <<"s1">>), Writer("w2", 3306, <<>>)>>),
    HostOf("h2", "sqlite", 10, <<Writer("w1", -1, <<>>)>>),
    HostOf("h2", "oracle", 10, <<Writer("w1", 1521, <<>>)>>),
    HostOf("h1", "mysql", 10, <<Writer("w1", 3306, <<"s1">>), Writer("w2", 3306, <<"s2">>)>>),
    HostOf("h1", "mysql", 10, <<Writer("w1", 3306, <<"s1", "s2">>)>>),
    HostOf("h1", "mysql", -1, <<>>)}

MCNodes == {
    [names |-> <<"n1", "n2">>, hosts |-> <<"h1", "h2">>, databases |-> <<"d">>],
    [names |-> <<"n3">>, hosts |-> <<"h1">>, databases |-> <<"e">>],
    [names |-> <<"n3">>, hosts |-> <<"h1">>, databases |-> <<"d", "e">>]}

MCSchemas == {[name |-> "S", node |-> n, known |-> TRUE] : n \in {None, "n1", "n3"}}

TableOf(name, on, rule) ==
    [name |-> name, nodes |-> on, parts |-> Cardinality(on), rule |-> rule,
     ruleRequired |-> FALSE, manifold |-> FALSE]

MCTables == {TableOf("t", {"n1"}, None), TableOf("t", {"n1"}, "r"),
             TableOf("t", {"n1", "n3"}, "r"),
             [TableOf("t", {"n1"}, None) EXCEPT !.manifold = TRUE]}

MCUpper == [t |-> "T", T |-> "T", c |-> "C"]

MCChildren == {"t", "T", "c"}

MCSettings == {
    [key |-> "processorBufferChunk", value |-> Number(2^21)],
    [key |-> "bufferPoolPageNumber", value |-> Number(1)],
    [key |-> "bufferPoolPageSize", value |-> Number(2^20)],
    [key |-> "serverPort", value |-> Number(9066)],
    [key |-> "useZKSwitch", value |-> Word("blank")],
    [key |-> "dataNodeHeartbeatPeriod", value |-> Number(0)],
    [key |-> "strictTxIsolation", value |-> Word("false")]}

MCUsers == {
    [name |-> "u", schemas |-> {"S"}, sound |-> TRUE, benchmark |-> 0],
    [name |-> "v", schemas |-> {}, sound |-> TRUE, benchmark |-> 0],
    [name |-> "v", schemas |-> {"S"}, sound |-> TRUE, benchmark |-> -1]}

MCMembers == {[name |-> "m", host |-> "a", weight |-> 1],
              [name |-> "k", host |-> "a", weight |-> 1]}

MCGroups == {[name |-> "default", members |-> {"m"}], [name |-> "g", members |-> {"k"}]}

MCWhite == {[hosts |-> {"a"}, users |-> {"u"}], [hosts |-> {"a", "b"}, users |-> {}]}
=============================================================================
