--------------------------------- MODULE Sql ---------------------------------
(***************************************************************************)
(* The texts of COM_QUERY: the lexer, the recursive descent parser of      *)
(* SELECT lists of variables, and the SQL a statement is sent as, in which *)
(* the variables the server knows are replaced. A text is a sequence of    *)
(* characters; a letter run that is a keyword is one character, "w" any    *)
(* other letter and "9" any digit. Positions count from 0, as in the code. *)
(* INT stands for INT and BIGINT; bq, sq and dq are the three quotes, and  *)
(* comma and semi are a comma and a semicolon.                             *)
(***************************************************************************)
EXTENDS Integers, Sequences, FiniteSets, SequencesExt

CONSTANTS
    Fragments,  \* bound: the n-th fragment of a text is one of Fragments[n]
    Known,      \* the system variables that are replaced, by their names
    Values      \* and what their values may be

Digits == {"9"}
Blanks == {"sp", "nl", "cr"}
Keywords == {"SELECT", "LIMIT", "OFFSET", "SESSION", "GLOBAL", "AS"}
Letters == {"w", "e"} \cup Keywords
Reserved == {"SELECT", "LIMIT", "OFFSET", "AS"}
Signs == {">", "=", "comma", "semi", "(", "[", "@"}
Quotes == {"bq", "sq", "dq"}
Chars == Digits \cup Blanks \cup Letters \cup Signs \cup Quotes
            \cup {"-", "/", "+", "*", "#", ".", "other"}

ASSUME SqlAssumption ==
    /\ Fragments \in Seq(SUBSET Seq(Chars))
    /\ Known \subseteq Seq(Chars) /\ Values \subseteq Seq(Chars)

At(t, i) == t[i + 1]
Slice(t, i, j) == SubSeq(t, i + 1, j)

\* sql.indexOf: the first of the characters S from i on, or the end of the text.
Find(t, i, S) ==
    LET hits == {j \in i..Len(t) - 1 : At(t, j) \in S}
    IN IF hits = {} THEN Len(t) ELSE CHOOSE j \in hits : \A k \in hits : j <= k

-----------------------------------------------------------------------------
\* The state of the lexer: its position and its token.
Token(type, prefix, start, end, curr) ==
    [type |-> type, prefix |-> prefix, quoted |-> FALSE,
     start |-> start, end |-> end, curr |-> curr]

Fault == Token("error", "none", 0, 0, 0)   \* a SqlError is thrown

\* The end of a text in quotes q: the first q from i on that is not doubled,
\* Len(t) when there is none.
Closings(t, q) ==
    LET closing[i \in 0..Len(t)] ==
            LET j == Find(t, i, {q})
            IN IF j + 1 < Len(t) /\ At(t, j + 1) = q THEN closing[j + 2] ELSE j
    IN closing

Closing(t, i, q) == Closings(t, q)[i]

QuotedTo(t, p, type, end) ==
    IF end = Len(t) THEN Fault
    ELSE [type |-> type, prefix |-> At(t, p), quoted |-> type # "STRING",
          start |-> p + 1, end |-> end, curr |-> end + 1]

Quoted(t, p, type) == QuotedTo(t, p, type, Closing(t, p + 1, At(t, p)))

BlankToken(t, p) ==
    LET end == Find(t, p, Chars \ Blanks)
    IN Token("BLANK", At(t, p), p, end, end)

\* Mutant: the content of a comment begins a character late.
LineCommentLate(t, i, sign) ==
    LET curr == Find(t, i, {"nl"})
    IN Token("COMMENT", sign, i + 1, curr, IF curr < Len(t) THEN curr + 1 ELSE curr)

\* Without a line feed the last character is left out of the comment.
LineComment(t, i, sign) ==
    LET nl == Find(t, i, {"nl"})
        curr == IF nl < Len(t) THEN nl + 1 ELSE nl
        cr == curr > i /\ At(t, curr - 2) = "cr"
    IN Token("COMMENT", sign, i, IF cr THEN curr - 2 ELSE curr - 1, curr)

\* The loop of multiComment from i on: where it ends, and whether it meets a star
\* that closes nothing. The character after a star is not looked at again: the
\* end of a comment that is closed by two stars is not seen.
MultiEnds(t) ==
    LET ends[i \in 0..Len(t)] ==
            IF i = Len(t) THEN [curr |-> i, closed |-> FALSE, star |-> FALSE]
            ELSE IF At(t, i) # "*" \/ i + 1 = Len(t) THEN ends[i + 1]
            ELSE IF At(t, i + 1) = "/" THEN [curr |-> i + 2, closed |-> TRUE, star |-> FALSE]
            ELSE [curr |-> ends[i + 2].curr, closed |-> ends[i + 2].closed, star |-> TRUE]
    IN ends

\* Mutant: a comment ends at its first star.
MultiEndAtOnce(t, i) ==
    LET j == Find(t, i, {"*"})
    IN [curr |-> IF j + 2 > Len(t) THEN Len(t) ELSE j + 2, closed |-> j < Len(t), star |-> FALSE]

MultiEnd(t, i) == MultiEnds(t)[i]

MultiComment(t, i) ==
    LET m == MultiEnd(t, i)
        marked == m.closed \/ (m.star /\ At(t, m.curr - 1) = "/")
    IN Token("COMMENT", "/*", i, IF marked THEN m.curr - 2 ELSE m.curr, m.curr)

\* parseUserVar: anything in quotes, or the letters, digits and points that
\* follow the at sign, which may be none.
UserVarToken(t, p) ==
    IF p < Len(t) /\ At(t, p) \in Quotes
    THEN Quoted(t, p, "USER_VAR")
    ELSE LET end == Find(t, p, Chars \ (Letters \cup Digits \cup {"."}))
         IN Token("USER_VAR", IF p < Len(t) THEN At(t, p) ELSE "none", p, end, end)

\* What the loop of parseToken, which began at p, knows before the character at
\* i: whether the token is a number, and where its point, exponent and the sign of
\* the exponent are (-1: none). ScanStep is what it makes of the character.
Stop(n, i) == [n EXCEPT !.kind = "stop", !.end = i]

ScanLetter(p, i, n, isn) ==
    IF isn \/ n.di = -1 THEN [n EXCEPT !.isn = isn, !.ei = IF isn THEN i ELSE @]
    ELSE [n EXCEPT !.kind = IF n.di = p + 1 THEN "sign" ELSE "error", !.end = i]

ScanStep(t, p, i, n) ==
    LET c == IF i < Len(t) THEN At(t, i) ELSE "end"
    IN CASE c \in Digits -> [n EXCEPT !.isn = @ \/ i = p]
         [] c = "." /\ n.di # -1 -> [n EXCEPT !.kind = "error"]
         [] c = "." /\ n.di = -1 /\ n.isn -> [n EXCEPT !.di = i]
         [] c \in Letters -> ScanLetter(p, i, n, n.isn /\ c = "e" /\ n.ei = -1)
         [] c \in {"+", "-"} /\ n.ei # -1 /\ n.ei = i - 1 -> [n EXCEPT !.si = i]
         [] OTHER -> Stop(n, i)

Scans(t, p, from, n) ==
    LET scan[i \in 0..Len(t) + 1] ==
            IF i <= from THEN n
            ELSE LET m == scan[i - 1]
                 IN IF m.kind = "go" THEN ScanStep(t, p, i - 1, m) ELSE m
    IN scan

Scan(t, p, from, n) == Scans(t, p, from, n)[Len(t) + 1]

\* What parseToken makes of a scan.
ScannedType(n) ==
    IF n.kind = "sign" THEN "SIGN"
    ELSE IF ~n.isn \/ n.ei = n.end - 1 THEN "ID"
    ELSE IF n.di # -1 \/ n.ei # -1 THEN "DOUBLE" ELSE "INT"

ScanFails(n) ==
    \/ n.kind = "error"
    \/ n.kind = "stop" /\ n.isn /\ n.ei # -1 /\ n.di > n.ei
    \/ n.kind = "stop" /\ n.isn /\ n.ei # n.end - 1 /\ n.si # -1 /\ n.si = n.end - 1

Scanned(t, p, n) ==
    IF ScanFails(n) THEN Fault ELSE Token(ScannedType(n), At(t, p), p, n.end, n.end)

\* A point, a number or an identifier. A character that begins none of them
\* gives an identifier of no length, and the lexer stays where it is.
ParseToken(t, p) ==
    LET n == [kind |-> "go", isn |-> FALSE, end |-> p, di |-> -1, ei |-> -1, si |-> -1]
    IN IF At(t, p) # "." THEN Scanned(t, p, Scan(t, p, p, n))
       ELSE IF p + 1 = Len(t) THEN Fault
       ELSE IF At(t, p + 1) \notin Digits THEN Token("SIGN", ".", p, p + 1, p + 1)
       ELSE Scanned(t, p, Scan(t, p, p + 1, [n EXCEPT !.isn = TRUE, !.di = p]))

\* The next token at p, which is not the end.
NexToken(t, p) ==
    LET c == At(t, p)
        next == IF p + 1 < Len(t) THEN At(t, p + 1) ELSE "end"
        One(type) == Token(type, c, p, p + 1, p + 1)
    IN CASE c \in {"-", "/"} /\ next = "end" -> Fault
         [] c = "-" /\ next = "-" -> LineComment(t, p + 2, "--")
         [] c = "/" /\ next = "/" -> LineComment(t, p + 2, "//")
         [] c = "/" /\ next = "*" -> MultiComment(t, p + 2)
         [] c = "-" /\ next \notin {"-", "end"} -> One("OP_ARI")
         [] c = "/" /\ next \notin {"/", "*", "end"} -> One("OP_ARI")
         [] c \in {"+", "*"} -> One("OP_ARI")
         [] c = "#" -> LineComment(t, p + 1, "#")
         [] c \in Blanks -> BlankToken(t, p)
         [] c = "bq" -> Quoted(t, p, "ID")
         [] c \in {"sq", "dq"} -> Quoted(t, p, "STRING")
         [] c \in Signs -> One("SIGN")
         [] OTHER -> ParseToken(t, p)

\* The token at p in the mode the parser asks for it: after an at sign a user
\* variable, which is one token with it here, after two a name.
Lex(t, p) ==
    IF p = Len(t) THEN Token("EOS", "none", p, p, p)
    ELSE IF At(t, p) # "@" THEN NexToken(t, p)
    ELSE IF p + 1 = Len(t) THEN Fault
    ELSE IF At(t, p + 1) = "@" THEN Token("SIGN", "@", p, p + 2, p + 2)
    ELSE UserVarToken(t, p + 1)

\* The token at p, with that place and what it says.
Placed(t, p, l) ==
    [type |-> l.type, prefix |-> l.prefix, quoted |-> l.quoted, at |-> p,
        start |-> l.start, end |-> l.end, curr |-> l.curr,
        says |-> Slice(t, l.start, l.end)]

Read(t, p) == Placed(t, p, Lex(t, p))

\* The end, a fault, or an identifier of no length.
IsFinal(l) == l.type \in {"EOS", "error"} \/ l.curr = l.at

\* All the tokens from p on.
Ahead(walk, l) == IF IsFinal(l) THEN <<l>> ELSE <<l>> \o walk[l.curr]

Walks(t) ==
    LET walk[p \in 0..Len(t)] == Ahead(walk, Read(t, p))
    IN walk

Walk(t) == Walks(t)[0]

IsSolid(l) == l.type \notin {"BLANK", "COMMENT"}

\* token() with skipBlankComment(): the place in a walk of the next token after i
\* that is neither blank nor a comment. The last one, which is the end or a
\* fault, stays.
After(w, i) ==
    LET later == {j \in i + 1..Len(w) : IsSolid(w[j])}
    IN IF later = {} THEN Len(w) ELSE CHOOSE j \in later : \A k \in later : j <= k

IsSign(l, c) == l.type = "SIGN" /\ l.prefix = c
IsWord(l, w) == l.type = "ID" /\ ~l.quoted /\ l.says = <<w>>

-----------------------------------------------------------------------------
\* A parse step gives what it has read and the place of the next token, 0 when
\* it throws a SqlError.
Refused == [next |-> 0, node |-> {}]

\* The end of parseIdentifier. Quoted reserved words are refused as well.
ReservedName(w, i) ==
    w[After(w, i)].prefix # "." /\ \E r \in Reserved : w[i].says = <<r>>

\* Where a system variable begins whose first word is l.
SysVarStart(l) == l.start - (IF l.quoted THEN 3 ELSE 2)

NameEnd(l) == IF l.quoted THEN l.end + 1 ELSE l.end

\* parseSysVarExpr, with the two at signs at i.
IsScope(l) == IsWord(l, "SESSION") \/ IsWord(l, "GLOBAL")

SysVarName(w, first) == IF IsScope(w[first]) THEN After(w, After(w, first)) ELSE first

SysVarRefused(w, i, first, name) ==
    \/ w[first].type # "ID" \/ w[first].at # w[i].curr
    \/ IsScope(w[first]) /\ ~IsSign(w[After(w, first)], ".")
    \/ w[name].type # "ID" \/ ReservedName(w, name)

SysVar(w, i) ==
    LET first == After(w, i)
        name == SysVarName(w, first)
    IN IF SysVarRefused(w, i, first, name) THEN Refused
       ELSE [next |-> After(w, name),
             node |-> [kind |-> "sys", name |-> w[name].says,
                       scope |-> IF IsWord(w[first], "GLOBAL") THEN "GLOBAL" ELSE "SESSION",
                       start |-> SysVarStart(w[first]), end |-> NameEnd(w[name])]]

\* parseUserVarExpr.
UserVar(l) ==
    [kind |-> "user", name |-> l.says, scope |-> "none",
     start |-> l.start - (IF l.quoted THEN 2 ELSE 1), end |-> l.curr]

\* parseSelectExprs: variables and commas.
SelectExpr(w, i) ==
    CASE w[i].type = "USER_VAR" -> [next |-> After(w, i), node |-> UserVar(w[i])]
      [] IsSign(w[i], "@") -> SysVar(w, i)
      [] OTHER -> Refused

\* The list that begins at i, after the expression x,
SelectList(w, x, rest) ==
    IF x.next = 0 THEN Refused
    ELSE IF IsSign(w[x.next], "comma")
    THEN IF rest.next = 0 THEN Refused
         ELSE [next |-> rest.next, node |-> <<x.node>> \o rest.node]
    ELSE IF w[x.next].type = "SIGN" /\ ~IsSign(w[x.next], "semi") THEN Refused
    ELSE [next |-> x.next, node |-> <<x.node>>]

SelectLists(w) ==
    LET list[i \in 1..Len(w)] ==
            LET x == SelectExpr(w, i)
            IN SelectList(w, x, list[After(w, x.next)])
    IN list

SelectExprs(w, i) == SelectLists(w)[i]

\* Mutant: the offset is the second number of either form.
LimitNumbersOneWay(sign, first, second) == <<first.start, second.start>>

\* The numbers of rows and of the offset.
LimitNumbers(sign, first, second) ==
    IF IsSign(sign, "comma") THEN <<second.start, first.start>> ELSE <<first.start, second.start>>

\* parseSelectLimit, with LIMIT at i. A number is told by its place, -1 for the
\* default 0. After one number the semicolon is read here, and parseSelect goes
\* on behind it.
SelectLimit(w, i) ==
    LET first == After(w, i)
        sign == After(w, first)
        second == After(w, sign)
        Clause(numbers, last) ==
            {[rows |-> numbers[1], offset |-> numbers[2], start |-> w[i].start, end |-> w[last].end]}
    IN IF w[first].type # "INT" THEN Refused
       ELSE IF w[sign].type = "EOS" \/ IsSign(w[sign], "semi")
       THEN [next |-> second, node |-> Clause(<<w[first].start, -1>>, first)]
       ELSE IF w[second].type = "INT" /\ (IsSign(w[sign], "comma") \/ IsWord(w[sign], "OFFSET"))
       THEN [next |-> After(w, second),
             node |-> Clause(LimitNumbers(w[sign], w[first], w[second]), second)]
       ELSE Refused

\* Mutant: a statement leaves its semicolon to the next.
BehindKeeping(w, i) == i

\* The token that ends a statement is reset.
Behind(w, i) == After(w, i)

\* The comments in front of the token i, which parse() keeps for its statement.
Comments(w, i) ==
    {[sign |-> w[j].prefix, start |-> w[j].start, end |-> w[j].end] :
        j \in {k \in 1..i - 1 : w[k].type = "COMMENT" /\ After(w, k) = i}}

\* parseSelect, with SELECT at i: the list, perhaps a LIMIT, and a semicolon or
\* the end.
SelectEnd(w, i, list, limit) ==
    IF limit.next = 0 \/ ~(IsSign(w[limit.next], "semi") \/ w[limit.next].type = "EOS") THEN Refused
    ELSE [next |-> Behind(w, limit.next),
          node |-> [start |-> w[i].start, end |-> w[limit.next].end,
                    exprs |-> list.node, limit |-> limit.node, comments |-> Comments(w, i)]]

SelectWith(w, i, list) ==
    IF list.next = 0 THEN Refused
    ELSE SelectEnd(w, i, list, IF IsWord(w[list.next], "LIMIT") THEN SelectLimit(w, list.next)
                               ELSE [next |-> list.next, node |-> {}])

Select(w, i) == SelectWith(w, i, SelectExprs(w, After(w, i)))

\* The loop of parse in a text of n characters. A lone semicolon at its end is
\* passed over.
AtEnd(l, n) == l.type = "EOS" \/ (l.type # "error" /\ l.curr >= n /\ l.prefix = "semi")

Refusal == [ok |-> FALSE, stmts |-> <<>>]

Statement(s, rest) ==
    IF s.next = 0 \/ ~rest.ok THEN Refusal ELSE [ok |-> TRUE, stmts |-> <<s.node>> \o rest.stmts]

Statements(w, n) ==
    LET parsed[i \in 1..Len(w)] ==
            IF AtEnd(w[i], n) THEN [ok |-> TRUE, stmts |-> <<>>]
            ELSE IF ~IsWord(w[i], "SELECT") THEN Refusal
            ELSE LET s == Select(w, i) IN Statement(s, parsed[s.next])
    IN parsed

ParseWalk(w, n) == Statements(w, n)[After(w, 0)]

Parse(t) == ParseWalk(Walk(t), Len(t))

-----------------------------------------------------------------------------
\* Mutant: quotes are left as they are.
EscapeNone(s, q) == s

\* SqlObject.escape: a quote is doubled, one that is already is kept.
Escapes(s, q) ==
    LET escaped[i \in 0..Len(s)] ==
            LET j == Find(s, i, {q})
                twice == j + 1 < Len(s) /\ At(s, j + 1) = q
            IN IF j = Len(s) THEN Slice(s, i, j)
               ELSE Slice(s, i, j) \o <<q, q>> \o escaped[IF twice THEN j + 2 ELSE j + 1]
    IN escaped

Escape(s, q) == Escapes(s, q)[0]

\* The SQL of a replaced variable: its value, and its text for its alias.
Replacement(t, x, value) ==
    <<"sq">> \o Escape(value, "sq") \o <<"sq", "sp", "AS", "sp", "bq">>
        \o Escape(Slice(t, x.start, x.end), "bq") \o <<"bq">>

\* MycatSqlContext.visitSysVar. Any scope will do.
Replaced(x) == x.kind = "sys" /\ x.name \in Known

\* SqlObject.toSql of a statement.
ToSql(t, stmt, value) ==
    LET Piece(done, x) ==
            IF ~Replaced(x) THEN done
            ELSE [sql |-> done.sql \o Slice(t, done.at, x.start) \o Replacement(t, x, value),
                  at |-> x.end]
        done == FoldLeft(Piece, [sql |-> <<>>, at |-> stmt.start], stmt.exprs)
    IN done.sql \o Slice(t, done.at, stmt.end)

-----------------------------------------------------------------------------
VARIABLES
    text,     \* the SQL of a query
    written,  \* how many fragments it consists of
    answer,   \* "none", "refused", "empty" or "parsed"
    stmts,    \* its statements
    sent,     \* the SQL that has been sent to the backend for the first of them
    value     \* what the variables that are replaced have for a value

vars == <<text, written, answer, stmts, sent, value>>

Init ==
    /\ text = <<>> /\ written = 0 /\ answer = "none"
    /\ stmts = <<>> /\ sent = <<>> /\ value = <<>>

\* The client's program puts a query together.
Write(f) ==
    /\ answer = "none" /\ written < Len(Fragments)
    /\ f \in Fragments[written + 1]
    /\ text' = text \o f /\ written' = written + 1
    /\ UNCHANGED <<answer, stmts, sent, value>>

\* FrontQueryHandler.invoke up to the loop over the statements. Variables get
\* their values while the text is parsed.
Query ==
    /\ answer = "none"
    /\ \E parsed \in {Parse(text)} :
          /\ stmts' = parsed.stmts
          /\ answer' = CASE text = <<>> \/ ~parsed.ok -> "refused"
                         [] parsed.stmts = <<>> -> "empty"
                         [] OTHER -> "parsed"
          /\ value' \in IF \E s \in Range(parsed.stmts) : \E x \in Range(s.exprs) : Replaced(x)
                        THEN Values ELSE {<<>>}
    /\ UNCHANGED <<text, written, sent>>

\* The next statement goes to its node.
Execute ==
    /\ answer = "parsed" /\ Len(sent) < Len(stmts)
    /\ sent' = Append(sent, ToSql(text, stmts[Len(sent) + 1], value))
    /\ UNCHANGED <<text, written, answer, stmts, value>>

Next == (\E f \in UNION Range(Fragments) : Write(f)) \/ Query \/ Execute

Spec == Init /\ [][Next]_vars

-----------------------------------------------------------------------------
\* The text of what a quoted token stands for: a doubled quote is one.
Unescape(s, q) ==
    LET plain[i \in 0..Len(s) + 1] ==
            LET j == Find(s, i, {q})
            IN IF j = Len(s) THEN Slice(s, i, j) ELSE Slice(s, i, j + 1) \o plain[j + 2]
    IN plain[0]

\* What the tokens of a text say, without the marks around them.
Says(t) ==
    LET walk == SelectSeq(Walk(t), LAMBDA l : l.type # "EOS")
        Plain(l) == IF l.quoted \/ l.type = "STRING" THEN Unescape(l.says, l.prefix) ELSE l.says
    IN [i \in DOMAIN walk |-> <<walk[i].type, Plain(walk[i])>>]

\* All q of s stand in pairs.
Paired(s, q) ==
    LET marks == {j \in 0..Len(s) - 1 : At(s, j) = q}
    IN \E firsts \in SUBSET marks :
          LET seconds == {j + 1 : j \in firsts}
          IN marks = firsts \cup seconds /\ firsts \cap seconds = {}

\* Where a line comment ends (sql-lexer.js:273-293): before its line end, of which
\* it is the only one; at the end of a text that has none, before the last
\* character or a carriage return before that, which are lost.
LineCommentEnds(t, l) ==
    LET after == Slice(t, l.end, l.curr)
    IN IF \E j \in l.start..Len(t) - 1 : At(t, j) = "nl"
       THEN /\ after \in {<<"nl">>, <<"cr", "nl">>}
            /\ \A j \in l.start..l.end - 1 : At(t, j) # "nl"
       ELSE /\ l.curr = Len(t)
            /\ l.end = l.curr - 1 \/ (l.end = l.curr - 2 /\ At(t, l.end) = "cr")

\* Where a block comment ends (sql-lexer.js:295-316): before its mark, or with the
\* text. What stands after a star that closes nothing is not looked at again: only
\* a mark with another star before it is passed over, and a slash that ends the
\* text reads as half a mark when there was such a star.
BlockCommentEnds(t, l) ==
    LET MarkAt(j) == At(t, j) = "*" /\ At(t, j + 1) = "/"
    IN /\ \A j \in l.start..l.curr - 2 : MarkAt(j) =>
            j = l.end \/ (l.start < j /\ At(t, j - 1) = "*")
       /\ \/ Slice(t, l.end, l.curr) = <<"*", "/">>
          \/ l.curr = Len(t) /\ l.end = l.curr
          \/ /\ l.curr = Len(t) /\ l.end = l.curr - 2 /\ At(t, l.curr - 1) = "/"
             /\ \E j \in l.start..l.curr - 2 : At(t, j) = "*"

CommentEnds(t, l) == IF l.prefix = "/*" THEN BlockCommentEnds(t, l) ELSE LineCommentEnds(t, l)

\* Nothing of a text is lost between its tokens (sql-lexer.js:97-562): each begins
\* where the one before it ended, and all it leaves out of its content are the
\* quotes or the marks around it and what the ends of comments lose; a quote in a
\* quoted text is doubled. Only a character that begins no token lets the lexer
\* stand still.
TokensTile ==
    answer = "none" => \A l \in Range(Walk(text)) :
        LET before == Slice(text, l.at, l.start)
            after == Slice(text, l.end, l.curr)
        IN CASE l.type \in {"EOS", "error"} -> TRUE
             [] l.type = "COMMENT" ->
                  /\ before \in {<<"#">>, <<"-", "-">>, <<"/", "/">>, <<"/", "*">>}
                  /\ CommentEnds(text, l)
             [] l.quoted \/ l.type = "STRING" ->
                  /\ before \in {<<l.prefix>>, <<"@", l.prefix>>} /\ after = <<l.prefix>>
                  /\ Paired(l.says, l.prefix)
             [] OTHER ->
                  /\ before = IF l.type = "USER_VAR" THEN <<"@">> ELSE <<>>
                  /\ after = <<>>
                  /\ l.curr > l.at \/ At(text, l.at) = "other"

\* The end of the statement before the k-th.
EndBefore(k) == IF k = 1 THEN 0 ELSE stmts[k - 1].end

\* Statements follow each other in the text with nothing but blanks and the
\* comments they keep between them, the marks of which are their own
\* (mysql-parser.js:99-141); what follows the last says nothing but perhaps a
\* semicolon at the very end.
StatementsTile ==
    /\ \A k \in DOMAIN stmts :
        /\ EndBefore(k) <= stmts[k].start
        /\ \A j \in EndBefore(k)..stmts[k].start - 1 :
            \/ At(text, j) \in Blanks
            \/ \E c \in stmts[k].comments :
                /\ c.start - (IF c.sign = "#" THEN 1 ELSE 2) <= j
                /\ j < c.end + (IF c.sign = "/*" THEN 2 ELSE 0)
    /\ answer = "parsed" =>
        \E rest \in {Slice(text, stmts[Len(stmts)].end, Len(text))} : \A l \in Range(Walk(rest)) :
            ~IsSolid(l) \/ l.type = "EOS" \/ (IsSign(l, "semi") /\ l.curr = Len(rest))

\* A variable cut out by its range reads as the same variable, name and scope
\* (its alias is that text, sql-expr.js:24-55), and a LIMIT by its: of two
\* numbers the offset comes before a comma and after OFFSET.
NodesReadBack ==
    \A k \in DOMAIN stmts :
        /\ \A i \in DOMAIN stmts[k].exprs :
            LET x == stmts[k].exprs[i]
            IN \E again \in {Parse(<<"SELECT", "sp">> \o Slice(text, x.start, x.end) \o <<"semi">>)} :
                /\ again.ok /\ Len(again.stmts) = 1 /\ Len(again.stmts[1].exprs) = 1
                /\ \E y \in Range(again.stmts[1].exprs) :
                    <<y.kind, y.name, y.scope>> = <<x.kind, x.name, x.scope>>
        /\ \A c \in stmts[k].limit :
            \E walk \in {Walk(Slice(text, c.start, c.end))} :
            LET Of(type) == {l \in Range(walk) : l.type = type}
                Num(l) == c.start + l.start
            IN \/ \E l \in Of("INT") : Of("INT") = {l} /\ c.rows = Num(l) /\ c.offset = -1
               \/ \E l, m \in Of("INT") :
                    /\ Of("INT") = {l, m} /\ l.start < m.start
                    /\ IF Of("SIGN") # {} THEN c.offset = Num(l) /\ c.rows = Num(m)
                       ELSE c.rows = Num(l) /\ c.offset = Num(m)

Shift(s, d) ==
    LET Move(r) == [r EXCEPT !.start = @ + d, !.end = @ + d]
    IN [start |-> s.start + d, end |-> s.end + d,
        exprs |-> [i \in DOMAIN s.exprs |-> Move(s.exprs[i])],
        comments |-> {Move(c) : c \in s.comments},
        limit |-> {[Move(c) EXCEPT !.rows = @ + d, !.offset = IF @ = -1 THEN -1 ELSE @ + d] :
                        c \in s.limit}]

\* Queries that are accepted one by one are accepted in one text, as the same
\* statements (mysql-parser.js:95-144): what a parse leaves in the lexer never
\* reaches the next statement. A LIMIT of one number is left out, its semicolon
\* is read twice (mysql-parser.js:251, 200).
StatementsJoin ==
    answer = "none" => \A cut \in {l.curr : l \in {w \in Range(Walk(text)) : IsSign(w, "semi")}} :
        \E first \in {Parse(Slice(text, 0, cut))}, rest \in {Parse(Slice(text, cut, Len(text)))} :
        LET last == first.stmts[Len(first.stmts)]
        IN first.ok /\ first.stmts # <<>> /\ rest.ok =>
            \/ last.end # cut
            \/ \E c \in last.limit : c.offset = -1
            \/ Parse(text) = [ok |-> TRUE, stmts |-> first.stmts \o
                    [i \in DOMAIN rest.stmts |-> Shift(rest.stmts[i], cut)]]

\* No two q of s stand together.
Apart(s, q) == \A j \in 0..Len(s) - 2 : At(s, j) # q \/ At(s, j + 1) # q

\* The backend reads the SQL that is sent as the statement the client wrote, but
\* for the variables that are replaced: in their place it reads one string, the
\* value, and one alias, the name under which the rows are read
\* (single-node-handler.js:68-91). Quotes that are doubled already are excepted,
\* which escape takes for one (sql-object.js:177).
BackendReadsTheSame ==
    \A k \in DOMAIN sent :
        LET s == stmts[k]
            Piece(done, x) ==
                IF ~Replaced(x) THEN done
                ELSE [says |-> done.says \o Says(Slice(text, done.at, x.start))
                        \o <<<<"STRING", value>>, <<"BLANK", <<"sp">>>>, <<"ID", <<"AS">>>>,
                             <<"BLANK", <<"sp">>>>, <<"ID", Slice(text, x.start, x.end)>>>>,
                      at |-> x.end]
            done == FoldLeft(Piece, [says |-> <<>>, at |-> s.start], s.exprs)
        IN /\ Apart(value, "sq")
           /\ \A x \in Range(s.exprs) : Replaced(x) => Apart(Slice(text, x.start, x.end), "bq")
           => Says(sent[k]) = done.says \o Says(Slice(text, done.at, s.end))
=============================================================================
