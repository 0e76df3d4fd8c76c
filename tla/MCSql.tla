-------------------------------- MODULE MCSql --------------------------------
\* Heads, variables and tails of a query, with the marks that are easily taken
\* for something else.
EXTENDS Sql

Some(S) == S \cup {<<>>}

Heads == {<<"SELECT", "sp">>, <<"/", "*", "w", "*", "*", "/", "SELECT", "nl">>,
          <<"#", "w", "cr", "nl", "SELECT", "sp">>, <<"sp", "semi">>}

Variables == {<<"@">>, <<"@", "w", ".", "9">>, <<"@", "sq", "w", "sq", "sq", "semi", "sq">>,
              <<"@", "@", "w">>, <<"@", "@", "bq", "w", "bq">>,
              <<"@", "@", "GLOBAL", "sp", ".", "bq", "w", "bq">>,
              <<"@", "@", "SESSION", ".", "/", "*", "*", "/", "e">>, <<"@", "@", "LIMIT">>}

Others == {<<"@", "w", ".", "9">>, <<"@", "@", "w">>, <<"@", "@", "bq", "w", "bq">>, <<"9">>}

Seps == {<<"comma">>, <<"sp", "comma", "nl">>, <<"/", "*", "comma", "*", "/", "comma">>,
         <<"-", "-", "nl", "comma">>}

Ends == {<<"semi">>, <<"sp", "LIMIT", "sp", "9">>, <<"sp", "LIMIT", "sp", "9", "sp", "comma", "9">>,
         <<"sp", "LIMIT", "sp", "9", "/", "*", "*", "/", "OFFSET", "sp", "9">>,
         <<"9", "e", "+">>, <<"sp", "9", ".", "w">>, <<"sp", "other">>}

Tails == {<<"semi">>, <<"semi", "nl", "SELECT", "sp", "@", "@", "w">>, <<"sp", "semi", "#">>,
          <<"SELECT", "sp", "@", "dq", "semi", "dq">>, <<"/", "*", "*", "semi">>,
          <<"/", "*", "semi", "*", "*", "/">>, <<"semi", "/", "/", "cr", "w">>}

MCFragments == <<Heads, Variables, Some(Seps), Some(Others), Some(Ends), Some(Tails)>>

MCKnown == {<<"w">>}
MCValues == {<<"w">>, <<"sq", "bq", "w", "sq">>}
=============================================================================
