------------------------------- MODULE DbPool -------------------------------
(***************************************************************************)
(* The data hosts: the pools of write sources (physical-db-pool.js), their *)
(* initialisation by the startup of the server (mycat-server.js) and by    *)
(* the clients that come first (physical-db-node.js), the choice of a      *)
(* source, the heartbeat, and the file that keeps the active index of each *)
(* host across restarts (util/properties.js).  The connections behind a    *)
(* source are DataSource.tla; here a request for one is a blocking call    *)
(* that succeeds or fails.  Coroutines switch in these calls and in the    *)
(* write of the file.                                                      *)
(***************************************************************************)
EXTENDS Integers

CONSTANTS
    Hosts,        \* the data hosts that have a data node (the others skip init)
    RandomHosts,  \* those with write type WRITE_RANDOM_NODE
    Count,        \* the number of write sources of each host
    MinCons,      \* the minCon that data hosts may have
    Clients,      \* coroutines that run a query
    Startup,      \* the coroutine of startup()
    Absent,       \* no entry in the file, or one without a number
    Broken,       \* a line of the file that ends before its '='
    Begins        \* the pairs of numbers, the digits of one beginning the other's

ASSUME PoolAssumption ==
    /\ RandomHosts \subseteq Hosts
    /\ Count \in Nat \ {0} /\ MinCons \subseteq Nat
    /\ Startup \notin Clients
    /\ Absent \notin Nat /\ Broken \notin Nat /\ Broken # Absent
    /\ Begins \subseteq Nat \X Nat
    /\ \A b, c \in Begins : b[2] = c[1] => <<b[1], c[2]>> \in Begins

Indexes == 0..(Count - 1)
Coroutines == Clients \cup {Startup}
Sources == Hosts \X Indexes
Texts == [Hosts -> Nat \cup {Absent}]
Files == [Hosts -> Nat \cup {Absent, Broken}]

VARIABLES
    minCon,          \* dbConfig.minCon of each host, never changed
    initOk, active,  \* #initOk and #activeIndex of each host
    alive,           \* the sources, of hosts with random writes, whose last heartbeat was answered
    beating,         \* the hosts whose heartbeat is started
    props,           \* #dnIndexProperties: the index saved for each host
    file,            \* what dnindex.properties holds
    text,            \* what each coroutine is writing to it
    call,            \* what each coroutine is doing, for which host and source
    todo, phase,     \* the hosts startup has not come to, and how far it is
    inited,          \* history: the sources that an init connected to,
    named,           \*   with those named by the file, also before restarts,
    refused          \*   and the hosts that refused an init a connection

shared  == <<initOk, active, props, file, text>>
running == <<alive, beating, todo, phase>>
history == <<inited, named, refused>>
vars == <<minCon, shared, running, call, history>>

\* What a coroutine is in: for an init, the requests left and whether any
\* was answered.
Call(op, h, i, left, ok) == [op |-> op, host |-> h, src |-> i, left |-> left, ok |-> ok]

Nothing == Call("idle", Absent, 0, 0, FALSE)

TypeOK ==
    /\ minCon \in [Hosts -> MinCons]
    /\ initOk \in [Hosts -> BOOLEAN]
    /\ active \in [Hosts -> Indexes]
    /\ alive \in SUBSET Sources
    /\ beating \in SUBSET Hosts
    /\ props \in Texts /\ file \in Files
    /\ text \in [Coroutines -> Texts]
    /\ call \in [Coroutines -> [op: {"idle", "init", "save", "write", "sent", "refused"},
                                host: Hosts \cup {Absent}, src: Indexes,
                                left: Nat, ok: BOOLEAN]]
    /\ todo \in SUBSET Hosts
    /\ phase \in {"boot", "starting", "up", "stopped", "down"}
    /\ inited \in SUBSET Sources
    /\ named \in SUBSET (Hosts \X Nat)
    /\ refused \in SUBSET Hosts

\* What writeTextFile leaves when it has opened the file.
Blank == [h \in Hosts |-> Absent]

\* A process that has read the file f, which may name a source that the
\* configuration does not have.
Init ==
    \E f \in [Hosts -> (0..Count) \cup {Absent}] :
        /\ minCon \in [Hosts -> MinCons]
        /\ initOk = [h \in Hosts |-> FALSE]
        /\ active = [h \in Hosts |-> 0]
        /\ alive = {} /\ beating = {}
        /\ props = f /\ file = f
        /\ text = [p \in Coroutines |-> Blank]
        /\ call = [p \in Coroutines |-> Nothing]
        /\ todo = Hosts /\ phase = "boot"
        /\ inited = {} /\ refused = {}
        /\ named = {s \in Hosts \X (0..Count) : f[s[1]] = s[2]}

-----------------------------------------------------------------------------
Set(p, c) == call' = [call EXCEPT ![p] = c]

\* The loop of init begins, with its first request for a connection.
StartInit(h, i) == Call("init", h, i, minCon[h], FALSE)

\* get source: the active one; or a random one that is alive, and when that
\* one is not, the filter tests it again for every other, finds none, and
\* leaves the first.
Sendable(h, act) ==
    IF h \notin RandomHosts THEN {act}
    ELSE {i \in Indexes : \/ <<h, i>> \in alive
                          \/ i = 0 /\ \E j \in Indexes : <<h, j>> \notin alive}

\* The request goes to a source, whose getConnection blocks.
Send(p, h, act) ==
    \E i \in Sendable(h, act) : Set(p, Call("sent", h, i, 0, FALSE))

\* Mutant: init does not check the index.
NextHostUnchecked(rest) ==
    \/ /\ rest = {}
       /\ phase' = "up" /\ todo' = rest
       /\ Set(Startup, Nothing)
    \/ \E h \in rest :
          /\ phase' = "starting" /\ todo' = rest \ {h}
          /\ Set(Startup, StartInit(h, IF props[h] = Absent THEN 0 ELSE props[h]))

\* startup() comes to the next host, if it gets that far.
NextHost(rest) ==
    \/ /\ rest = {}
       /\ phase' = "up" /\ todo' = rest
       /\ Set(Startup, Nothing)
    \/ \E h \in rest :
          LET i == IF props[h] = Absent THEN 0 ELSE props[h] IN
          IF i \in Indexes
          THEN /\ phase' = "starting" /\ todo' = rest \ {h}
               /\ Set(Startup, StartInit(h, i))
          ELSE /\ phase' = "stopped" /\ todo' = rest
               /\ Set(Startup, Nothing)

Boot ==
    /\ phase = "boot"
    /\ NextHost(todo)
    /\ UNCHANGED <<minCon, shared, alive, beating, history>>

\* Mutant: initOk is read before init is called.
AfterInitStale(p, h, good, act) ==
    IF p = Startup
    THEN /\ beating' = beating \cup {h}
         /\ NextHost(todo)
    ELSE /\ \/ initOk[h] /\ Send(p, h, act)
            \/ ~initOk[h] /\ Set(p, Call("refused", h, 0, 0, FALSE))
         /\ UNCHANGED <<beating, todo, phase>>

\* What follows a call of init that returns, with initOk and activeIndex as
\* they are then.
AfterInit(p, h, good, act) ==
    IF p = Startup
    THEN /\ beating' = beating \cup {h}
         /\ NextHost(todo)
    ELSE /\ \/ good /\ Send(p, h, act)
            \/ ~good /\ Set(p, Call("refused", h, 0, 0, FALSE))
         /\ UNCHANGED <<beating, todo, phase>>

\* PhysicalDbNode.getConnection.  The servers accept before startup is done.
Request(p, h) ==
    /\ call[p].op \in {"idle", "refused"} /\ phase \notin {"boot", "down"}
    /\ \/ initOk[h] /\ Send(p, h, active[h])
       \/ ~initOk[h] /\ Set(p, StartInit(h, active[h]))
    /\ UNCHANGED <<minCon, shared, running, history>>

\* The connection is there, or the driver or the pool throws.
Answered(p) ==
    /\ call[p].op = "sent"
    /\ Set(p, Nothing)
    /\ UNCHANGED <<minCon, shared, running, history>>

\* Mutant: the index is saved whether or not a source answered.
InitEndsSaving(p, h, i, got) ==
    /\ initOk' = [initOk EXCEPT ![h] = got]
    /\ active' = IF got THEN [active EXCEPT ![h] = i] ELSE active
    /\ props' = [props EXCEPT ![h] = i]
    /\ text' = [text EXCEPT ![p] = props']
    /\ Set(p, Call("save", h, i, 0, got))
    /\ UNCHANGED <<file, beating, todo, phase>>

\* init asks minCon times and passes over what fails; it notes success and
\* the active index, and writes the file, only after the last time.
InitEnds(p, h, i, got) ==
    /\ initOk' = [initOk EXCEPT ![h] = got]
    /\ active' = IF got THEN [active EXCEPT ![h] = i] ELSE active
    /\ IF got /\ h \notin RandomHosts
       THEN /\ props' = [props EXCEPT ![h] = i]
            /\ text' = [text EXCEPT ![p] = props']
            /\ Set(p, Call("save", h, i, 0, TRUE))
            /\ UNCHANGED <<file, beating, todo, phase>>
       ELSE /\ AfterInit(p, h, got, i)
            /\ UNCHANGED <<props, text, file>>

\* Mutant: the last failure is not told from success.
AskedInVain(p, got) ==
    LET c == call[p] IN
    /\ c.op = "init"
    /\ \/ /\ c.left > 1
          /\ Set(p, Call("init", c.host, c.src, c.left - 1, c.ok \/ got))
          /\ UNCHANGED <<shared, beating, todo, phase>>
       \/ /\ c.left = 1
          /\ InitEnds(p, c.host, c.src, TRUE)
    /\ inited' = IF got THEN inited \cup {<<c.host, c.src>>} ELSE inited
    /\ named' = IF got THEN named \cup {<<c.host, c.src>>} ELSE named
    /\ refused' = IF got THEN refused ELSE refused \cup {c.host}
    /\ UNCHANGED <<minCon, alive>>

\* One request of init for a connection is answered or refused.
Asked(p, got) ==
    LET c == call[p] IN
    /\ c.op = "init"
    /\ \/ /\ c.left > 1
          /\ Set(p, Call("init", c.host, c.src, c.left - 1, c.ok \/ got))
          /\ UNCHANGED <<shared, beating, todo, phase>>
       \/ /\ c.left = 1
          /\ InitEnds(p, c.host, c.src, c.ok \/ got)
    /\ inited' = IF got THEN inited \cup {<<c.host, c.src>>} ELSE inited
    /\ named' = IF got THEN named \cup {<<c.host, c.src>>} ELSE named
    /\ refused' = IF got THEN refused ELSE refused \cup {c.host}
    /\ UNCHANGED <<minCon, alive>>

\* With minCon = 0 init asks for nothing and ends without success.  It does
\* not block then; that the end is a step of its own shows nowhere, since the
\* host is never ready.
NotAsked(p) ==
    LET c == call[p] IN
    /\ c.op = "init" /\ c.left = 0
    /\ InitEnds(p, c.host, c.src, FALSE)
    /\ UNCHANGED <<minCon, alive, history>>

-----------------------------------------------------------------------------
\* The file.  writeTextFile truncates it and writes the text from its
\* beginning, over what another write under way has put there; each line is
\* 'host=index'.  The writer is blocked until all is written.

\* What a line leaves that is written in part: no '=', no number after it, or
\* a number of fewer digits.
Cut(v) == {Broken, Absent} \cup {b[1] : b \in {c \in Begins : c[2] = v}}

\* What the file may say of h when the writes of ps have put there some lines
\* whole and end within line at.
Lines(h, ps, at) ==
    {file[h]} \cup UNION {{text[p][h]} \cup (IF at[p] = h THEN Cut(text[p][h]) ELSE {}) :
                         p \in {q \in ps : text[q][h] # Absent}}

\* The files that the writes of ps may leave when they get no further.
PartWritten(ps) ==
    UNION {{f \in [Hosts -> UNION {Lines(h, ps, at) : h \in Hosts}] :
               \A h \in Hosts : f[h] \in Lines(h, ps, at)} : at \in [ps -> Hosts]}

\* The coroutines that have opened the file and not written all.
Writing == {p \in Coroutines : call[p].op = "write"}

FileOpened(p) ==
    /\ call[p].op = "save"
    /\ file' = Blank
    /\ call' = [call EXCEPT ![p].op = "write"]
    /\ UNCHANGED <<minCon, initOk, active, props, text, running, history>>

\* All is written, and writeTextFile returns, and init with it.
Saved(p) ==
    /\ p \in Writing
    /\ file' = [h \in Hosts |-> IF text[p][h] # Absent THEN text[p][h] ELSE file[h]]
    /\ text' = [text EXCEPT ![p] = Blank]
    /\ AfterInit(p, call[p].host, initOk[call[p].host], active[call[p].host])
    /\ UNCHANGED <<minCon, initOk, active, props, alive, history>>

\* writeTextFile throws, out of init and of who called it: the file could not
\* be opened, or stays as far as it was written.
SaveFails(p) ==
    /\ call[p].op \in {"save", "write"}
    /\ file' \in PartWritten({p} \cap Writing)
    /\ text' = [text EXCEPT ![p] = Blank]
    /\ Set(p, Nothing)
    /\ phase' = IF p = Startup THEN "stopped" ELSE phase
    /\ UNCHANGED <<minCon, initOk, active, props, alive, beating, todo, history>>

\* The heartbeat of one source, answered or not.  Its status is looked at
\* only where sources are chosen at random.
Beat(h, i) ==
    /\ phase = "up" /\ h \in beating \cap RandomHosts
    /\ alive' \in {alive \cup {<<h, i>>}, alive \ {<<h, i>>}}
    /\ UNCHANGED <<minCon, shared, call, beating, todo, phase, history>>

\* The process dies, whatever is written of the file, and a new one reads it.
\* load() throws on a line without '=': then there is no process until the
\* file is mended by hand.
Restart ==
    /\ initOk' = [h \in Hosts |-> FALSE]
    /\ active' = [h \in Hosts |-> 0]
    /\ alive' = {} /\ beating' = {}
    /\ file' \in PartWritten(Writing)
    /\ \/ /\ \A h \in Hosts : file'[h] # Broken
          /\ props' = file' /\ phase' = "boot"
       \/ /\ \E h \in Hosts : file'[h] = Broken
          /\ props' = Blank /\ phase' = "down"
    /\ text' = [p \in Coroutines |-> Blank]
    /\ call' = [p \in Coroutines |-> Nothing]
    /\ todo' = Hosts
    /\ inited' = {} /\ refused' = {}
    /\ UNCHANGED <<minCon, named>>

Next ==
    \/ Boot
    \/ \E p \in Clients, h \in Hosts : Request(p, h)
    \/ \E p \in Clients : Answered(p)
    \/ \E p \in Coroutines :
          \/ \E got \in BOOLEAN : Asked(p, got)
          \/ NotAsked(p)
          \/ FileOpened(p) \/ Saved(p) \/ SaveFails(p)
    \/ \E h \in Hosts, i \in Indexes : Beat(h, i)
    \/ Restart

Spec == Init /\ [][Next]_vars

-----------------------------------------------------------------------------
\* A host with one write node sends requests only to a source that an init of
\* this process connected to, whichever inits raced on the active index.
SentToInitialised ==
    \A p \in Clients : call[p].op = "sent" /\ call[p].host \notin RandomHosts =>
        <<call[p].host, call[p].src>> \in inited

\* A request is refused with 'Backend db pool init failed' only when its host
\* refused some init a connection: an init under way makes nobody fail.  A host
\* with minCon = 0, which the configuration may have, is never asked for
\* anything and refuses everybody.
RefusedForCause ==
    \A p \in Clients : call[p].op = "refused" => call[p].host \in refused \/ minCon[call[p].host] = 0

\* The number is that of a source among S, or such a number cut short.
Earned(S, h, n) == \E s \in S : s[1] = h /\ (n = s[2] \/ <<n, s[2]>> \in Begins)

\* The file, in whatever order its writes end and wherever a crash or an error
\* leaves them, names only sources that some init connected to or that it named
\* at first, or such a number cut short.  A line that is cut short elsewhere is
\* one without a number, or one that load() throws on.
FileNamesWorking == \A h \in Hosts : file[h] \in Nat => Earned(named, h, file[h])

=============================================================================
