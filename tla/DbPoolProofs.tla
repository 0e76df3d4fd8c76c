---------------------------- MODULE DbPoolProofs ----------------------------
(* Proofs about the data hosts, for every number of hosts, sources, clients  *)
(* and warm-up connections.                                                  *)
EXTENDS DbPool, TLAPS

\* A source counts as ready only when an init of this process connected to it.
ActiveInited ==
    \A h \in Hosts : initOk[h] /\ h \notin RandomHosts => <<h, active[h]>> \in inited

\* The host is among those, S, that refused some init a connection, or is never
\* asked for one.
Refuses(S, h) == h \in S \/ minCon[h] = 0

\* What is known of the host of a coroutine that is in the call c.
CallOK(c) ==
    /\ c.op \in {"init", "save", "write"} => c.host \in Hosts
    /\ c.op = "init" => c.left # 0 \/ minCon[c.host] = 0
    /\ c.op = "init" /\ c.ok => <<c.host, c.src>> \in inited
    /\ c.op = "init" /\ ~c.ok /\ c.left # minCon[c.host] => c.host \in refused
    /\ c.op \in {"save", "write"} /\ ~initOk[c.host] => Refuses(refused, c.host)
    /\ c.op = "sent" /\ c.host \notin RandomHosts => <<c.host, c.src>> \in inited
    /\ c.op = "refused" => Refuses(refused, c.host)

CallsOK == \A p \in Coroutines : CallOK(call[p])

\* What is saved, in memory, in a text under way or in the file, names such
\* sources.
SavesWorking ==
    /\ inited \subseteq named
    /\ \A h \in Hosts : props[h] # Absent => Earned(named, h, props[h])
    /\ \A h \in Hosts, p \in Coroutines : text[p][h] # Absent => Earned(named, h, text[p][h])
    /\ FileNamesWorking

IInv == TypeOK /\ ActiveInited /\ CallsOK /\ SavesWorking

\* The calls a coroutine can be in.
Calls == [op: {"idle", "init", "save", "write", "sent", "refused"}, host: Hosts \cup {Absent},
          src: Indexes, left: Nat, ok: BOOLEAN]

\* A call that asks nothing yet.
Begun(c) == c.op = "init" /\ c.host \in Hosts /\ c.left = minCon[c.host] /\ c.ok = FALSE

\* The call that follows an init of h.
Follows(c, h, good, act) ==
    \/ c = Nothing
    \/ Begun(c)
    \/ c.op = "sent" /\ good /\ c.host = h /\ (h \notin RandomHosts => c.src = act)
    \/ c.op = "refused" /\ ~good /\ c.host = h

Phases == {"boot", "starting", "up", "stopped", "down"}

-----------------------------------------------------------------------------
\* There is a first index, a call that asks nothing and a file that says nothing.
LEMMA First == 0 \in Indexes /\ Nothing \in Calls /\ Blank \in Texts
  BY PoolAssumption DEF Indexes, Nothing, Call, Calls, Blank, Texts

\* An init begins with nothing asked.
LEMMA StartInitCall ==
    ASSUME TypeOK, NEW h \in Hosts, NEW i \in Indexes
    PROVE  StartInit(h, i) \in Calls /\ Begun(StartInit(h, i))
  BY PoolAssumption DEF TypeOK, StartInit, Call, Calls, Begun

\* A request goes to the active source of a host with one write node.
LEMMA SendCall ==
    ASSUME NEW p, NEW h \in Hosts, NEW act \in Indexes, Send(p, h, act)
    PROVE  \E c \in Calls :
              /\ call' = [call EXCEPT ![p] = c]
              /\ c.op = "sent" /\ c.host = h /\ (h \notin RandomHosts => c.src = act)
  <1>1. PICK i \in Sendable(h, act) : call' = [call EXCEPT ![p] = Call("sent", h, i, 0, FALSE)]
    BY DEF Send, Set
  <1>2. i \in Indexes /\ (h \notin RandomHosts => i = act)
    BY DEF Sendable
  <1>3. Call("sent", h, i, 0, FALSE) \in Calls
    BY <1>2, First DEF Call, Calls
  <1> QED
    BY <1>1, <1>2, <1>3 DEF Call

\* What the startup does next: it begins an init, or ends.
LEMMA NextHostCall ==
    ASSUME TypeOK, NEW rest \in SUBSET Hosts, NextHost(rest)
    PROVE  /\ \E c \in Calls : call' = [call EXCEPT ![Startup] = c] /\ (c = Nothing \/ Begun(c))
           /\ todo' \in SUBSET Hosts /\ phase' \in Phases
  <1>1. CASE phase' = "up" /\ todo' = rest /\ Set(Startup, Nothing)
    BY <1>1, First DEF Set, Phases
  <1>2. CASE \E h \in rest, i \in Indexes :
                phase' = "starting" /\ todo' = rest \ {h} /\ Set(Startup, StartInit(h, i))
    BY <1>2, StartInitCall DEF Set, Phases
  <1>3. CASE phase' = "stopped" /\ todo' = rest /\ Set(Startup, Nothing)
    BY <1>3, First DEF Set, Phases
  <1> QED
    BY <1>1, <1>2, <1>3 DEF NextHost

\* What anybody does after an init.
LEMMA AfterInitCall ==
    ASSUME TypeOK, NEW p \in Coroutines, NEW h \in Hosts, NEW good \in BOOLEAN,
           NEW act \in Indexes, AfterInit(p, h, good, act)
    PROVE  /\ \E c \in Calls : call' = [call EXCEPT ![p] = c] /\ Follows(c, h, good, act)
           /\ beating' \in SUBSET Hosts /\ todo' \in SUBSET Hosts /\ phase' \in Phases
  <1>0. beating \in SUBSET Hosts /\ todo \in SUBSET Hosts /\ phase \in Phases
    BY DEF TypeOK, Phases
  <1>1. CASE p = Startup
    <2>1. NextHost(todo) /\ beating' = beating \cup {h}
      BY <1>1 DEF AfterInit
    <2>2. \E c \in Calls : call' = [call EXCEPT ![Startup] = c] /\ (c = Nothing \/ Begun(c))
      BY <2>1, <1>0, NextHostCall
    <2>3. todo' \in SUBSET Hosts /\ phase' \in Phases
      BY <2>1, <1>0, NextHostCall
    <2> QED
      BY <1>0, <1>1, <2>1, <2>2, <2>3 DEF Follows
  <1>2. CASE p # Startup /\ good /\ Send(p, h, act) /\ UNCHANGED <<beating, todo, phase>>
    <2>1. PICK c \in Calls :
              /\ call' = [call EXCEPT ![p] = c]
              /\ c.op = "sent" /\ c.host = h /\ (h \notin RandomHosts => c.src = act)
      BY <1>2, SendCall
    <2>2. Follows(c, h, good, act)
      BY <1>2, <2>1 DEF Follows
    <2> QED
      BY <1>0, <1>2, <2>1, <2>2
  <1>3. CASE /\ p # Startup /\ ~good /\ UNCHANGED <<beating, todo, phase>>
             /\ Set(p, Call("refused", h, 0, 0, FALSE))
    <2>1. Call("refused", h, 0, 0, FALSE) \in Calls
      BY First DEF Call, Calls
    <2> QED
      BY <1>0, <1>3, <2>1 DEF Set, Follows, Call
  <1> QED
    BY <1>1, <1>2, <1>3 DEF AfterInit

-----------------------------------------------------------------------------
\* One coroutine passes to the call c, while sources may have answered, hosts
\* may have refused, and a host that is no longer ready has refused.
LEMMA CallStep ==
    ASSUME TypeOK, CallsOK, NEW p \in Coroutines, NEW c \in Calls,
           call' = [call EXCEPT ![p] = c], CallOK(c)',
           inited \subseteq inited', refused \subseteq refused', minCon' = minCon,
           \A h \in Hosts : initOk[h] /\ ~initOk'[h] => Refuses(refused', h)
    PROVE  CallsOK' /\ call' \in [Coroutines -> Calls]
  <1>1. call \in [Coroutines -> Calls]
    BY DEF TypeOK, Calls
  <1>2. ASSUME NEW q \in Coroutines
        PROVE  CallOK(call[q])'
    <2>1. CASE q = p
      BY <1>1, <2>1
    <2>2. CASE q # p
      <3>1. call'[q] = call[q] /\ CallOK(call[q])
        BY <1>1, <2>2 DEF CallsOK
      <3> QED
        BY <3>1 DEF CallOK, Refuses
    <2> QED
      BY <2>1, <2>2
  <1> QED
    BY <1>1, <1>2 DEF CallsOK

\* The call after an init fits what the init leaves behind.
LEMMA FollowsOK ==
    ASSUME NEW h \in Hosts, NEW good \in BOOLEAN, NEW act \in Indexes, NEW c \in Calls,
           Follows(c, h, good, act), minCon' = minCon,
           good /\ h \notin RandomHosts => <<h, act>> \in inited',
           ~good => Refuses(refused', h)
    PROVE  CallOK(c)'
  <1>1. CASE c = Nothing
    BY <1>1 DEF Nothing, Call, CallOK
  <1>2. CASE Begun(c)
    BY <1>2, PoolAssumption DEF Begun, CallOK
  <1>3. CASE c.op = "sent" /\ good /\ c.host = h /\ (h \notin RandomHosts => c.src = act)
    BY <1>3 DEF CallOK
  <1>4. CASE c.op = "refused" /\ ~good /\ c.host = h
    BY <1>4 DEF CallOK, Refuses
  <1> QED
    BY <1>1, <1>2, <1>3, <1>4 DEF Follows

\* A step that leaves all but the calls and the heartbeat to itself.
LEMMA OnlyCall ==
    ASSUME IInv, NEW p \in Coroutines, NEW c \in Calls, call' = [call EXCEPT ![p] = c],
           CallOK(c)', UNCHANGED <<shared, history>>, UNCHANGED <<minCon, alive>>,
           beating' \in SUBSET Hosts, todo' \in SUBSET Hosts, phase' \in Phases
    PROVE  IInv'
  <1>1. CallsOK' /\ call' \in [Coroutines -> Calls]
    BY CallStep DEF IInv, shared, history
  <1>2. TypeOK'
    BY <1>1 DEF IInv, TypeOK, Calls, Phases, shared, history
  <1>3. ActiveInited' /\ SavesWorking'
    BY DEF IInv, ActiveInited, SavesWorking, FileNamesWorking, Earned, shared, history
  <1> QED
    BY <1>1, <1>2, <1>3 DEF IInv

\* startup() begins.
LEMMA BootInv ==
    ASSUME IInv, Boot
    PROVE  IInv'
  <1>1. todo \in SUBSET Hosts /\ NextHost(todo) /\ Startup \in Coroutines
    BY DEF IInv, TypeOK, Boot, Coroutines
  <1>2. PICK c \in Calls : call' = [call EXCEPT ![Startup] = c] /\ (c = Nothing \/ Begun(c))
    BY <1>1, NextHostCall DEF IInv
  <1>3. todo' \in SUBSET Hosts /\ phase' \in Phases
    BY <1>1, NextHostCall DEF IInv
  <1>4. CallOK(c)'
    BY <1>2, PoolAssumption DEF Nothing, Call, Begun, CallOK, Boot
  <1> QED
    BY <1>1, <1>2, <1>3, <1>4, OnlyCall DEF Boot, IInv, TypeOK

\* A client asks its host.
LEMMA RequestInv ==
    ASSUME IInv, NEW p \in Clients, NEW h \in Hosts, Request(p, h)
    PROVE  IInv'
  <1>1. /\ p \in Coroutines /\ active[h] \in Indexes
        /\ beating' \in SUBSET Hosts /\ todo' \in SUBSET Hosts /\ phase' \in Phases
    BY DEF IInv, TypeOK, Request, running, Coroutines, Phases
  <1>2. CASE initOk[h] /\ Send(p, h, active[h])
    <2>1. PICK c \in Calls :
              /\ call' = [call EXCEPT ![p] = c]
              /\ c.op = "sent" /\ c.host = h /\ (h \notin RandomHosts => c.src = active[h])
      BY <1>1, <1>2, SendCall
    <2>2. inited' = inited
      BY DEF Request, history
    <2>3. CallOK(c)'
      BY <1>2, <2>1, <2>2 DEF CallOK, IInv, ActiveInited
    <2> QED
      BY <1>1, <2>1, <2>3, OnlyCall DEF Request, running
  <1>3. CASE ~initOk[h] /\ Set(p, StartInit(h, active[h]))
    <2>1. StartInit(h, active[h]) \in Calls /\ Begun(StartInit(h, active[h]))
      BY <1>1, StartInitCall DEF IInv
    <2>2. PICK c \in Calls : c = StartInit(h, active[h]) /\ Begun(c)
      BY <2>1
    <2>3. CallOK(c)'
      BY <2>2, PoolAssumption DEF Begun, CallOK, Request
    <2>4. /\ call' = [call EXCEPT ![p] = c] /\ UNCHANGED <<shared, history>>
          /\ UNCHANGED <<minCon, alive>>
      BY <1>3, <2>2 DEF Request, running, Set
    <2> QED
      BY <1>1, <2>3, <2>4, OnlyCall
  <1> QED
    BY <1>2, <1>3 DEF Request

\* A request ends.
LEMMA AnsweredInv ==
    ASSUME IInv, NEW p \in Clients, Answered(p)
    PROVE  IInv'
  <1>1. /\ p \in Coroutines /\ Nothing \in Calls
        /\ call' = [call EXCEPT ![p] = Nothing] /\ UNCHANGED <<shared, history>>
        /\ UNCHANGED <<minCon, alive>>
        /\ beating' \in SUBSET Hosts /\ todo' \in SUBSET Hosts /\ phase' \in Phases
    BY First DEF IInv, TypeOK, Answered, running, Set, Coroutines, Phases
  <1>2. CallOK(Nothing)'
    BY DEF Nothing, Call, CallOK
  <1> QED
    BY <1>1, <1>2, OnlyCall

\* What is earned stays so.
LEMMA EarnedStays ==
    ASSUME named \subseteq named', NEW h, NEW n, Earned(named, h, n)
    PROVE  Earned(named', h, n)
  BY DEF Earned

\* What one answer or refusal adds to the history.
LEMMA AskedHistory ==
    ASSUME IInv, NEW p \in Coroutines, NEW got \in BOOLEAN, Asked(p, got)
    PROVE  /\ call[p] \in Calls /\ call[p].op = "init" /\ call[p].host \in Hosts
           /\ inited \subseteq inited' /\ named \subseteq named' /\ refused \subseteq refused'
           /\ inited' \in SUBSET Sources /\ named' \in SUBSET (Hosts \X Nat)
           /\ refused' \in SUBSET Hosts /\ inited' \subseteq named'
           /\ call[p].ok \/ got => <<call[p].host, call[p].src>> \in inited'
           /\ call[p].left = 1 \/ call[p].left > 1
           /\ ~call[p].ok /\ ~got => call[p].host \in refused'
           /\ alive' = alive /\ minCon' = minCon
  <1>1. call[p] \in Calls /\ call[p].op = "init" /\ CallOK(call[p])
    BY DEF IInv, TypeOK, CallsOK, Asked, Calls
  <1>2. call[p].host \in Hosts /\ call[p].src \in Indexes /\ call[p].ok \in BOOLEAN
    BY <1>1 DEF CallOK, Calls
  <1>3. <<call[p].host, call[p].src>> \in Sources /\ <<call[p].host, call[p].src>> \in Hosts \X Nat
    BY <1>2, PoolAssumption DEF Sources, Indexes
  <1>4. call[p].ok => <<call[p].host, call[p].src>> \in inited
    BY <1>1 DEF CallOK
  <1>5. inited \in SUBSET Sources /\ named \in SUBSET (Hosts \X Nat) /\ refused \in SUBSET Hosts
        /\ inited \subseteq named
    BY DEF IInv, TypeOK, SavesWorking
  <1>6. CASE got
    BY <1>1, <1>2, <1>3, <1>5, <1>6 DEF Asked
  <1>7. CASE ~got
    BY <1>1, <1>2, <1>4, <1>5, <1>7 DEF Asked
  <1> QED
    BY <1>6, <1>7

\* The loop of init goes on.
LEMMA AskedAgainInv ==
    ASSUME IInv, NEW p \in Coroutines, NEW got \in BOOLEAN, Asked(p, got), call[p].left > 1
    PROVE  IInv'
  <1> DEFINE h == call[p].host
             i == call[p].src
             g == call[p].ok \/ got
  <1>1. /\ call[p] \in Calls /\ h \in Hosts /\ i \in Indexes /\ g \in BOOLEAN
        /\ call[p].left \in Nat
    BY AskedHistory DEF Calls
  <1>2. /\ call' = [call EXCEPT ![p] = Call("init", h, i, call[p].left - 1, g)]
        /\ UNCHANGED <<shared, beating, todo, phase>>
    <2>1. call[p].left # 1
      BY <1>1
    <2> QED
      BY <2>1 DEF Asked, Set
  <1>3. PICK c \in Calls : c = Call("init", h, i, call[p].left - 1, g)
    <2>1. call[p].left - 1 \in Nat
      BY <1>1, PoolAssumption
    <2> QED
      BY <1>1, <2>1 DEF Call, Calls
  <1>4. call[p].left - 1 # 0
    BY <1>1, PoolAssumption
  <1>5. CallOK(c)'
    BY <1>3, <1>4, AskedHistory DEF CallOK, Call
  <1>6. CallsOK' /\ call' \in [Coroutines -> Calls]
    BY <1>2, <1>3, <1>5, CallStep, AskedHistory DEF IInv, shared
  <1>7. TypeOK'
    <2>1. /\ alive' = alive /\ minCon' = minCon
          /\ inited' \in SUBSET Sources /\ named' \in SUBSET (Hosts \X Nat)
          /\ refused' \in SUBSET Hosts
      BY AskedHistory
    <2> QED
      BY <1>2, <1>6, <2>1 DEF IInv, TypeOK, shared, Calls
  <1>8. ActiveInited'
    BY <1>2, AskedHistory DEF IInv, ActiveInited, shared
  <1>9. SavesWorking'
    BY <1>2, AskedHistory, EarnedStays DEF IInv, SavesWorking, FileNamesWorking, shared
  <1> QED
    BY <1>6, <1>7, <1>8, <1>9 DEF IInv

\* init ends and saves its index.
LEMMA AskedSavesInv ==
    ASSUME IInv, NEW p \in Coroutines, NEW got \in BOOLEAN, Asked(p, got), call[p].left = 1,
           call[p].ok \/ got, call[p].host \notin RandomHosts
    PROVE  IInv'
  <1> DEFINE h == call[p].host
             i == call[p].src
  <1>1. h \in Hosts /\ i \in Indexes /\ i \in Nat /\ <<h, i>> \in inited' /\ <<h, i>> \in named'
    BY AskedHistory, PoolAssumption DEF Calls, Indexes
  <1>2. /\ initOk' = [initOk EXCEPT ![h] = TRUE]
        /\ active' = [active EXCEPT ![h] = i]
        /\ props' = [props EXCEPT ![h] = i]
        /\ text' = [text EXCEPT ![p] = props']
        /\ call' = [call EXCEPT ![p] = Call("save", h, i, 0, TRUE)]
        /\ UNCHANGED <<file, beating, todo, phase>>
    <2>1. ~(call[p].left > 1)
      BY PoolAssumption
    <2>2. InitEnds(p, h, i, call[p].ok \/ got)
      BY <2>1 DEF Asked
    <2>3. (call[p].ok \/ got) = TRUE
      OBVIOUS
    <2>4. InitEnds(p, h, i, TRUE)
      BY <2>2, <2>3
    <2> QED
      BY <2>4 DEF InitEnds, Set
  <1>3. PICK c \in Calls : c = Call("save", h, i, 0, TRUE)
    BY <1>1, First DEF Call, Calls
  <1>4. initOk \in [Hosts -> BOOLEAN] /\ active \in [Hosts -> Indexes] /\ props \in Texts
        /\ text \in [Coroutines -> Texts]
    BY DEF IInv, TypeOK
  <1>5. CallOK(c)'
    BY <1>1, <1>2, <1>3, <1>4 DEF CallOK, Call
  <1>6. \A k \in Hosts : initOk[k] => initOk'[k]
    BY <1>2, <1>4
  <1>7. CallsOK' /\ call' \in [Coroutines -> Calls]
    BY <1>2, <1>3, <1>5, <1>6, CallStep, AskedHistory DEF IInv
  <1>8. /\ initOk' \in [Hosts -> BOOLEAN] /\ active' \in [Hosts -> Indexes]
        /\ props' \in Texts /\ text' \in [Coroutines -> Texts]
    BY <1>1, <1>2, <1>4, First DEF Texts
  <1>9. TypeOK'
    <2>1. /\ alive' = alive /\ minCon' = minCon
          /\ inited' \in SUBSET Sources /\ named' \in SUBSET (Hosts \X Nat)
          /\ refused' \in SUBSET Hosts
      BY AskedHistory
    <2> QED
      BY <1>2, <1>7, <1>8, <2>1 DEF IInv, TypeOK, Calls
  <1>10. ActiveInited'
    BY <1>1, <1>2, <1>4, AskedHistory DEF IInv, ActiveInited
  <1>11. ASSUME NEW k \in Hosts, props'[k] # Absent
         PROVE  Earned(named', k, props'[k])
    <2>1. CASE k = h
      <3>1. props'[k] = i
        BY <1>2, <1>4, <2>1 DEF Texts
      <3>2. PICK s \in named' : s = <<h, i>>
        BY <1>1
      <3> QED
        BY <2>1, <3>1, <3>2 DEF Earned
    <2>2. CASE k # h
      <3>1. props'[k] = props[k] /\ Earned(named, k, props[k])
        BY <1>2, <1>4, <1>11, <2>2 DEF Texts, IInv, SavesWorking
      <3> QED
        BY <3>1, EarnedStays, AskedHistory
    <2> QED
      BY <2>1, <2>2
  <1>12. ASSUME NEW k \in Hosts, NEW q \in Coroutines, text'[q][k] # Absent
         PROVE  Earned(named', k, text'[q][k])
    <2>1. CASE q = p
      <3>1. text'[q] = props'
        BY <1>2, <1>4, <2>1
      <3> QED
        BY <1>11, <1>12, <3>1
    <2>2. CASE q # p
      <3>1. text'[q] = text[q] /\ Earned(named, k, text[q][k])
        BY <1>2, <1>4, <1>12, <2>2 DEF IInv, SavesWorking
      <3> QED
        BY <3>1, EarnedStays, AskedHistory
    <2> QED
      BY <2>1, <2>2
  <1>13. SavesWorking'
    <2>1. FileNamesWorking'
      BY <1>2, EarnedStays, AskedHistory DEF IInv, SavesWorking, FileNamesWorking
    <2> QED
      BY <1>11, <1>12, <2>1, AskedHistory DEF SavesWorking
  <1> QED
    BY <1>7, <1>9, <1>10, <1>13 DEF IInv

\* init ends and saves nothing: it got no connection, or the host has random
\* write nodes.
LEMMA EndsUnsavedInv ==
    ASSUME IInv, NEW p \in Coroutines, NEW h \in Hosts, NEW i \in Indexes, NEW g \in BOOLEAN,
           InitEnds(p, h, i, g), ~g \/ h \in RandomHosts,
           g => <<h, i>> \in inited', ~g => Refuses(refused', h),
           inited \subseteq inited', named \subseteq named', refused \subseteq refused',
           inited' \in SUBSET Sources, named' \in SUBSET (Hosts \X Nat),
           refused' \in SUBSET Hosts, inited' \subseteq named', alive' = alive, minCon' = minCon
    PROVE  IInv'
  <1>1. /\ initOk' = [initOk EXCEPT ![h] = g]
        /\ active' = IF g THEN [active EXCEPT ![h] = i] ELSE active
        /\ AfterInit(p, h, g, i)
        /\ UNCHANGED <<props, text, file>>
    BY DEF InitEnds
  <1>2. PICK c \in Calls : call' = [call EXCEPT ![p] = c] /\ Follows(c, h, g, i)
    BY <1>1, AfterInitCall DEF IInv
  <1>3. beating' \in SUBSET Hosts /\ todo' \in SUBSET Hosts /\ phase' \in Phases
    BY <1>1, AfterInitCall DEF IInv
  <1>4. CallOK(c)'
    BY <1>2, FollowsOK
  <1>5. initOk \in [Hosts -> BOOLEAN] /\ active \in [Hosts -> Indexes]
    BY DEF IInv, TypeOK
  <1>6. \A k \in Hosts : initOk[k] /\ ~initOk'[k] => Refuses(refused', k)
    BY <1>1, <1>5
  <1>7. CallsOK' /\ call' \in [Coroutines -> Calls]
    BY <1>2, <1>4, <1>6, CallStep DEF IInv
  <1>8. initOk' \in [Hosts -> BOOLEAN] /\ active' \in [Hosts -> Indexes]
    BY <1>1, <1>5
  <1>9. TypeOK'
    BY <1>1, <1>3, <1>7, <1>8 DEF IInv, TypeOK, Calls, Phases
  <1>10. ASSUME NEW k \in Hosts, initOk'[k], k \notin RandomHosts
         PROVE  <<k, active'[k]>> \in inited'
    <2>1. CASE k = h
      BY <1>1, <1>5, <1>10, <2>1
    <2>2. CASE k # h
      BY <1>1, <1>5, <1>10, <2>2 DEF IInv, ActiveInited
    <2> QED
      BY <2>1, <2>2
  <1>11. SavesWorking'
    BY <1>1, EarnedStays DEF IInv, SavesWorking, FileNamesWorking
  <1> QED
    BY <1>7, <1>9, <1>10, <1>11 DEF IInv, ActiveInited

\* So it does after its last request,
LEMMA AskedLastInv ==
    ASSUME IInv, NEW p \in Coroutines, NEW got \in BOOLEAN, Asked(p, got), call[p].left = 1,
           ~(call[p].ok \/ got) \/ call[p].host \in RandomHosts
    PROVE  IInv'
  <1> DEFINE h == call[p].host
             i == call[p].src
  <1>1. PICK g \in BOOLEAN : g = (call[p].ok \/ got)
    OBVIOUS
  <1>2. h \in Hosts /\ i \in Indexes /\ (g => <<h, i>> \in inited') /\ (~g => Refuses(refused', h))
    BY <1>1, AskedHistory DEF Calls, Refuses
  <1>3. InitEnds(p, h, i, g)
    <2>1. ~(call[p].left > 1)
      BY PoolAssumption
    <2> QED
      BY <1>1, <2>1 DEF Asked
  <1> HIDE DEF h, i
  <1> QED
    BY <1>1, <1>2, <1>3, AskedHistory, EndsUnsavedInv DEF h

\* and when it has nothing to ask for.
LEMMA NotAskedInv ==
    ASSUME IInv, NEW p \in Coroutines, NotAsked(p)
    PROVE  IInv'
  <1> DEFINE h == call[p].host
             i == call[p].src
  <1>1. call[p] \in Calls /\ CallOK(call[p]) /\ call[p].op = "init" /\ call[p].left = 0
    BY DEF IInv, TypeOK, Calls, CallsOK, NotAsked
  <1>2. h \in Hosts /\ i \in Indexes /\ minCon[h] = 0
    BY <1>1 DEF CallOK, Calls
  <1>3. InitEnds(p, h, i, FALSE) /\ UNCHANGED <<minCon, alive, inited, named, refused>>
    BY DEF NotAsked, history
  <1>4. Refuses(refused', h)
    BY <1>2 DEF Refuses
  <1>5. /\ inited' \in SUBSET Sources /\ named' \in SUBSET (Hosts \X Nat)
        /\ refused' \in SUBSET Hosts /\ inited' \subseteq named'
    BY <1>3 DEF IInv, TypeOK, SavesWorking
  <1> HIDE DEF h, i
  <1> QED
    BY <1>2, <1>3, <1>4, <1>5, EndsUnsavedInv

\* One request of init ends.
LEMMA AskedInv ==
    ASSUME IInv, NEW p \in Coroutines, NEW got \in BOOLEAN, Asked(p, got)
    PROVE  IInv'
  BY AskedHistory, AskedAgainInv, AskedSavesInv, AskedLastInv

\* What a write leaves of a line names what the line named, or such a number
\* cut short.
LEMMA CutEarned ==
    ASSUME NEW h \in Hosts, NEW v \in Nat, Earned(named, h, v), NEW u \in Cut(v)
    PROVE  u \in Nat \cup {Absent, Broken} /\ (u \in Nat => Earned(named, h, u))
  <1>1. CASE u \in {Absent, Broken}
    BY <1>1, PoolAssumption
  <1>2. CASE u \notin {Absent, Broken}
    <2>1. PICK b \in Begins : b[2] = v /\ u = b[1]
      BY <1>2 DEF Cut
    <2>2. b = <<u, v>> /\ u \in Nat
      BY <2>1, PoolAssumption
    <2>3. PICK s \in named : s[1] = h /\ (v = s[2] \/ <<v, s[2]>> \in Begins)
      BY DEF Earned
    <2>4. CASE v = s[2]
      BY <2>1, <2>2, <2>3, <2>4 DEF Earned
    <2>5. CASE <<v, s[2]>> \in Begins
      <3>1. <<u, s[2]>> \in Begins
        <4>1. PICK c \in Begins : c = <<v, s[2]>>
          BY <2>5
        <4>2. b[2] = c[1] /\ b[1] = u /\ c[2] = s[2]
          BY <2>1, <4>1
        <4> QED
          BY <4>2, PoolAssumption
      <3> QED
        BY <2>2, <2>3, <3>1 DEF Earned
    <2> QED
      BY <2>2, <2>3, <2>4, <2>5
  <1> QED
    BY <1>1, <1>2

\* So does what writes that get no further leave of the file.
LEMMA PartEarned ==
    ASSUME TypeOK, SavesWorking, NEW ps \in SUBSET Coroutines, NEW f \in PartWritten(ps)
    PROVE  f \in Files /\ \A h \in Hosts : f[h] \in Nat => Earned(named, h, f[h])
  <1>1. PICK at \in [ps -> Hosts] :
            /\ f \in [Hosts -> UNION {Lines(h, ps, at) : h \in Hosts}]
            /\ \A h \in Hosts : f[h] \in Lines(h, ps, at)
    BY DEF PartWritten
  <1>2. text \in [Coroutines -> Texts] /\ file \in Files
    BY DEF TypeOK
  <1>3. ASSUME NEW h \in Hosts
        PROVE  f[h] \in Nat \cup {Absent, Broken} /\ (f[h] \in Nat => Earned(named, h, f[h]))
    <2>1. f[h] \in Lines(h, ps, at)
      BY <1>1
    <2>2. CASE f[h] = file[h]
      BY <1>2, <2>2 DEF Files, SavesWorking, FileNamesWorking
    <2>3. CASE f[h] # file[h]
      <3>1. PICK p \in ps : text[p][h] # Absent /\ (f[h] = text[p][h] \/ f[h] \in Cut(text[p][h]))
        BY <2>1, <2>3 DEF Lines
      <3>2. text[p][h] \in Nat /\ Earned(named, h, text[p][h])
        BY <1>2, <3>1 DEF Texts, SavesWorking
      <3> QED
        BY <3>1, <3>2, CutEarned
    <2> QED
      BY <2>2, <2>3
  <1>4. f \in [Hosts -> Nat \cup {Absent, Broken}]
    BY <1>1, <1>3
  <1> QED
    BY <1>3, <1>4 DEF Files

\* The texts and the file after a write, whether it succeeded or not.
LEMMA WriteEnds ==
    ASSUME IInv, NEW p \in Coroutines, file' \in Files,
           \A h \in Hosts : file'[h] \in Nat => Earned(named, h, file'[h]),
           text' = [text EXCEPT ![p] = Blank], UNCHANGED <<props, inited, named>>
    PROVE  SavesWorking' /\ text' \in [Coroutines -> Texts]
  <1>1. text \in [Coroutines -> Texts]
    BY DEF IInv, TypeOK
  <1>2. text' \in [Coroutines -> Texts]
    BY <1>1, First
  <1>3. ASSUME NEW k \in Hosts, NEW q \in Coroutines, text'[q][k] # Absent
        PROVE  Earned(named, k, text'[q][k])
    <2>1. CASE q = p
      BY <1>1, <1>3, <2>1 DEF Blank
    <2>2. CASE q # p
      BY <1>1, <1>3, <2>2 DEF IInv, SavesWorking
    <2> QED
      BY <2>1, <2>2
  <1> QED
    BY <1>2, <1>3 DEF IInv, SavesWorking, FileNamesWorking, Earned

\* The file is opened, and emptied.
LEMMA FileOpenedInv ==
    ASSUME IInv, NEW p \in Coroutines, FileOpened(p)
    PROVE  IInv'
  <1>1. call \in [Coroutines -> Calls] /\ call[p].op = "save" /\ CallOK(call[p])
    BY DEF IInv, TypeOK, Calls, CallsOK, FileOpened
  <1>2. PICK c \in Calls : c = [call[p] EXCEPT !.op = "write"]
    BY <1>1 DEF Calls
  <1>3. /\ call' = [call EXCEPT ![p] = c] /\ file' = Blank
        /\ UNCHANGED <<minCon, initOk, active, props, text, alive, beating, todo, phase,
                        inited, named, refused>>
    BY <1>2 DEF FileOpened, running, history
  <1>4. CallOK(c)'
    BY <1>1, <1>2, <1>3 DEF CallOK, Refuses, Calls
  <1>5. CallsOK' /\ call' \in [Coroutines -> Calls]
    BY <1>3, <1>4, CallStep DEF IInv
  <1>6. TypeOK'
    <2>1. file' \in Files
      BY <1>3 DEF Blank, Files
    <2> QED
      BY <1>3, <1>5, <2>1 DEF IInv, TypeOK, Calls
  <1>7. ActiveInited' /\ SavesWorking'
    BY <1>3, PoolAssumption DEF IInv, ActiveInited, SavesWorking, FileNamesWorking, Earned, Blank
  <1> QED
    BY <1>5, <1>6, <1>7 DEF IInv

\* A write ends.
LEMMA SavedInv ==
    ASSUME IInv, NEW p \in Coroutines, Saved(p)
    PROVE  IInv'
  <1> DEFINE h == call[p].host
  <1>1. /\ call[p].op = "write" /\ text' = [text EXCEPT ![p] = Blank]
        /\ file' = [k \in Hosts |-> IF text[p][k] # Absent THEN text[p][k] ELSE file[k]]
        /\ AfterInit(p, h, initOk[h], active[h])
        /\ UNCHANGED <<minCon, initOk, active, props, alive, inited, named, refused>>
    BY DEF Saved, Writing, history
  <1>2. CallOK(call[p])
    BY DEF IInv, CallsOK
  <1>3. /\ h \in Hosts /\ initOk[h] \in BOOLEAN /\ active[h] \in Indexes
        /\ initOk[h] /\ h \notin RandomHosts => <<h, active[h]>> \in inited'
        /\ ~initOk[h] => Refuses(refused', h)
    BY <1>1, <1>2 DEF IInv, TypeOK, CallOK, ActiveInited, Refuses
  <1>4. PICK c \in Calls : call' = [call EXCEPT ![p] = c] /\ Follows(c, h, initOk[h], active[h])
    BY <1>1, <1>3, AfterInitCall DEF IInv
  <1>5. beating' \in SUBSET Hosts /\ todo' \in SUBSET Hosts /\ phase' \in Phases
    BY <1>1, <1>3, AfterInitCall DEF IInv
  <1>6. CallOK(c)'
    BY <1>1, <1>3, <1>4, FollowsOK
  <1>7. CallsOK' /\ call' \in [Coroutines -> Calls]
    BY <1>1, <1>4, <1>6, CallStep DEF IInv
  <1>8. file' \in Files /\ \A k \in Hosts : file'[k] \in Nat => Earned(named, k, file'[k])
    <2>1. text[p] \in Texts /\ file \in Files
      BY DEF IInv, TypeOK
    <2> QED
      BY <1>1, <2>1 DEF IInv, SavesWorking, FileNamesWorking, Texts, Files
  <1>9. SavesWorking' /\ text' \in [Coroutines -> Texts]
    BY <1>1, <1>8, WriteEnds
  <1>10. TypeOK'
    BY <1>1, <1>5, <1>7, <1>8, <1>9 DEF IInv, TypeOK, Calls, Phases
  <1>11. ActiveInited'
    BY <1>1 DEF IInv, ActiveInited
  <1> QED
    BY <1>7, <1>9, <1>10, <1>11 DEF IInv

\* A write throws.
LEMMA SaveFailsInv ==
    ASSUME IInv, NEW p \in Coroutines, SaveFails(p)
    PROVE  IInv'
  <1>1. /\ file' \in PartWritten({p} \cap Writing) /\ text' = [text EXCEPT ![p] = Blank]
        /\ call' = [call EXCEPT ![p] = Nothing]
        /\ phase' = "stopped" \/ phase' = phase
        /\ UNCHANGED <<minCon, initOk, active, props, alive, beating, todo, inited, named, refused>>
    BY DEF SaveFails, Set, history
  <1>2. CallOK(Nothing)'
    BY DEF Nothing, Call, CallOK
  <1>3. CallsOK' /\ call' \in [Coroutines -> Calls]
    BY <1>1, <1>2, First, CallStep DEF IInv
  <1>4. file' \in Files /\ \A h \in Hosts : file'[h] \in Nat => Earned(named, h, file'[h])
    BY <1>1, PartEarned DEF IInv
  <1>5. SavesWorking' /\ text' \in [Coroutines -> Texts]
    BY <1>1, <1>4, WriteEnds
  <1>6. TypeOK'
    BY <1>1, <1>3, <1>4, <1>5 DEF IInv, TypeOK, Calls
  <1>7. ActiveInited'
    BY <1>1 DEF IInv, ActiveInited
  <1> QED
    BY <1>3, <1>5, <1>6, <1>7 DEF IInv

\* A heartbeat touches nothing but the status of its source.
LEMMA BeatInv ==
    ASSUME IInv, NEW h \in Hosts, NEW i \in Indexes, Beat(h, i)
    PROVE  IInv'
  <1>1. alive' \in SUBSET Sources
    BY DEF IInv, TypeOK, Beat, Sources
  <1>2. UNCHANGED <<minCon, initOk, active, props, file, text, call, beating, todo, phase,
                    inited, named, refused>>
    BY DEF Beat, shared, history
  <1>3. TypeOK' /\ ActiveInited'
    BY <1>1, <1>2 DEF IInv, TypeOK, ActiveInited
  <1>5. SavesWorking'
    BY <1>2 DEF IInv, SavesWorking, FileNamesWorking
  <1>4. CallsOK'
    BY <1>2 DEF IInv, CallsOK, CallOK, Refuses
  <1> QED
    BY <1>3, <1>4, <1>5 DEF IInv

\* The state of a process that has read a file which names what others saved,
\* or of none when the file cannot be read.
LEMMA FreshInv ==
    ASSUME initOk' = [h \in Hosts |-> FALSE], active' = [h \in Hosts |-> 0],
           alive' = {}, beating' = {}, props' \in Texts, file' \in Files,
           text' = [p \in Coroutines |-> Blank], call' = [p \in Coroutines |-> Nothing],
           todo' = Hosts, phase' \in Phases, minCon' \in [Hosts -> MinCons], inited' = {}, refused' = {},
           named' \in SUBSET (Hosts \X Nat),
           \A h \in Hosts : props'[h] # Absent => Earned(named', h, props'[h]),
           FileNamesWorking'
    PROVE  IInv'
  <1>1. TypeOK'
    BY First DEF TypeOK, Calls, Phases
  <1>2. CallOK(Nothing)'
    BY DEF CallOK, Nothing, Call
  <1>3. CallsOK' /\ ActiveInited'
    BY <1>2 DEF CallsOK, ActiveInited
  <1>4. SavesWorking'
    BY DEF SavesWorking, Blank
  <1> QED
    BY <1>1, <1>3, <1>4 DEF IInv

\* A new process reads the file, torn or not, or throws on it.
LEMMA RestartInv ==
    ASSUME IInv, Restart
    PROVE  IInv'
  <1>1. Writing \in SUBSET Coroutines /\ file' \in PartWritten(Writing) /\ named' = named
    BY DEF Restart, Writing
  <1>2. file' \in Files /\ \A h \in Hosts : file'[h] \in Nat => Earned(named, h, file'[h])
    BY <1>1, PartEarned DEF IInv
  <1>3. \A h \in Hosts : file'[h] \in Nat => Earned(named', h, file'[h])
    BY <1>1, <1>2 DEF Earned
  <1>4. /\ props' \in Texts /\ phase' \in Phases
        /\ \A h \in Hosts : props'[h] # Absent => Earned(named', h, props'[h])
    <2>1. CASE \A h \in Hosts : file'[h] # Broken
      <3>1. props' = file' /\ phase' = "boot"
        BY <2>1 DEF Restart
      <3>2. \A h \in Hosts : file'[h] \in Nat \cup {Absent}
        BY <1>2, <2>1 DEF Files
      <3>3. file' \in Texts
        BY <1>2, <3>2 DEF Files, Texts
      <3> QED
        BY <1>3, <3>1, <3>2, <3>3 DEF Phases
    <2>2. CASE \E h \in Hosts : file'[h] = Broken
      BY <2>2, First DEF Restart, Phases, Blank
    <2> QED
      BY <2>1, <2>2
  <1>5. named' \in SUBSET (Hosts \X Nat)
    BY <1>1 DEF IInv, TypeOK
  <1>8. minCon' \in [Hosts -> MinCons]
    BY DEF IInv, TypeOK, Restart
  <1>6. FileNamesWorking'
    BY <1>3 DEF FileNamesWorking
  <1>7. /\ initOk' = [h \in Hosts |-> FALSE] /\ active' = [h \in Hosts |-> 0]
        /\ alive' = {} /\ beating' = {} /\ inited' = {} /\ refused' = {} /\ todo' = Hosts
        /\ text' = [p \in Coroutines |-> Blank] /\ call' = [p \in Coroutines |-> Nothing]
    BY DEF Restart
  <1> QED
    BY <1>2, <1>4, <1>5, <1>6, <1>7, <1>8, FreshInv

\* The first process reads the file it finds.
LEMMA InitInv == Init => IInv
  <1> SUFFICES ASSUME Init
               PROVE  IInv
    OBVIOUS
  <1>1. PICK f \in [Hosts -> (0..Count) \cup {Absent}] :
            /\ initOk = [h \in Hosts |-> FALSE] /\ active = [h \in Hosts |-> 0]
            /\ alive = {} /\ beating = {} /\ props = f /\ file = f
            /\ text = [p \in Coroutines |-> Blank] /\ call = [p \in Coroutines |-> Nothing]
            /\ minCon \in [Hosts -> MinCons] /\ todo = Hosts /\ phase = "boot" /\ inited = {} /\ refused = {}
            /\ named = {s \in Hosts \X (0..Count) : f[s[1]] = s[2]}
    BY DEF Init
  <1>2. f \in Texts /\ f \in Files
    BY PoolAssumption DEF Texts, Files
  <1>3. named \in SUBSET (Hosts \X Nat)
    BY <1>1, PoolAssumption
  <1>4. TypeOK
    BY <1>1, <1>2, <1>3, First DEF TypeOK, Calls
  <1>5. CallOK(Nothing)
    BY DEF CallOK, Nothing, Call
  <1>6. CallsOK /\ ActiveInited
    BY <1>1, <1>5 DEF CallsOK, ActiveInited
  <1>7. \A h \in Hosts : f[h] # Absent => Earned(named, h, f[h])
    <2>1. ASSUME NEW h \in Hosts, f[h] # Absent
          PROVE  Earned(named, h, f[h])
      <3>1. <<h, f[h]>> \in named
        BY <1>1, <2>1
      <3> QED
        BY <3>1 DEF Earned
    <2> QED
      BY <2>1
  <1>8. SavesWorking
    <2>1. \A h \in Hosts : file[h] \in Nat => f[h] # Absent
      BY <1>1, PoolAssumption
    <2> QED
      BY <1>1, <1>7, <2>1 DEF SavesWorking, FileNamesWorking, Blank
  <1> QED
    BY <1>4, <1>6, <1>8 DEF IInv

-----------------------------------------------------------------------------
\* Every step preserves the invariant.
LEMMA InvariantStep == IInv /\ [Next]_vars => IInv'
  <1>1. ASSUME IInv, UNCHANGED vars
        PROVE  IInv'
    <2>1. UNCHANGED <<minCon, initOk, active, props, file, text, alive, beating, todo, phase, call,
                      inited, named, refused>>
      BY <1>1 DEF vars, shared, running, history
    <2>2. TypeOK' /\ ActiveInited'
      BY <1>1, <2>1 DEF IInv, TypeOK, ActiveInited
    <2>4. SavesWorking'
      BY <1>1, <2>1 DEF IInv, SavesWorking, FileNamesWorking
    <2>3. CallsOK'
      BY <1>1, <2>1 DEF IInv, CallsOK, CallOK, Refuses
    <2> QED
      BY <2>2, <2>3, <2>4 DEF IInv
  <1>2. ASSUME IInv, Next
        PROVE  IInv'
    BY <1>2, BootInv, RequestInv, AnsweredInv, AskedInv, NotAskedInv, FileOpenedInv,
       SavedInv, SaveFailsInv, BeatInv, RestartInv DEF Next
  <1> QED
    BY <1>1, <1>2

\* The invariant holds in every reachable state.
THEOREM IInvAlways == Spec => []IInv
  BY InitInv, InvariantStep, PTL DEF Spec

\* The state of the data hosts keeps its type.
THEOREM HostsTyped == Spec => []TypeOK
  <1>1. IInv => TypeOK
    BY DEF IInv
  <1> QED
    BY IInvAlways, <1>1, PTL

\* Requests go only to sources that an init of this process connected to.
THEOREM OnlyInitialisedServe == Spec => []SentToInitialised
  <1>1. IInv => SentToInitialised
    BY DEF IInv, CallsOK, CallOK, SentToInitialised, Coroutines
  <1> QED
    BY IInvAlways, <1>1, PTL

\* Nobody is refused because of an init under way.
THEOREM NobodyRefusedInVain == Spec => []RefusedForCause
  <1>1. IInv => RefusedForCause
    BY DEF IInv, CallsOK, CallOK, Refuses, RefusedForCause, Coroutines
  <1> QED
    BY IInvAlways, <1>1, PTL

\* The file names working sources, across crashes in the middle of a line,
\* failing writes and writes out of order.
THEOREM FileIsTrustworthy == Spec => []FileNamesWorking
  <1>1. IInv => FileNamesWorking
    BY DEF IInv, SavesWorking
  <1> QED
    BY IInvAlways, <1>1, PTL

\* Where the sources of a host, and what the file named at first, have numbers
\* of one digit, nothing in the file is a number cut short: whatever it names
\* some init connected to, or it named it at first.
SourcesHaveOneDigit == \A b \in Begins : b[2] > Count

NamesWhatWorked == \A h \in Hosts : file[h] \in Nat => <<h, file[h]>> \in named

THEOREM ShortNumbersStayWhole ==
    ASSUME SourcesHaveOneDigit
    PROVE  Spec => []NamesWhatWorked
  <1> DEFINE Few == named \subseteq Hosts \X (0..Count)
             Ind == IInv /\ Few
  <1>1. Init => Ind
    BY InitInv DEF Init
  <1>2. ASSUME Ind, [Next]_vars
        PROVE  Few'
    <2>1. CASE \E p \in Coroutines, got \in BOOLEAN : Asked(p, got)
      <3>1. PICK p \in Coroutines, got \in BOOLEAN : Asked(p, got)
        BY <2>1
      <3>2. call[p].host \in Hosts /\ call[p].src \in 0..Count
        <4>1. call[p] \in Calls /\ call[p].host \in Hosts
          BY <1>2, <3>1, AskedHistory
        <4>2. call[p].src \in Indexes
          BY <4>1 DEF Calls
        <4> QED
          BY <4>1, <4>2, PoolAssumption DEF Indexes
      <3> QED
        BY <1>2, <3>1, <3>2 DEF Asked
    <2>2. CASE named' = named
      BY <1>2, <2>2
    <2> QED
      BY <1>2, <2>1, <2>2 DEF Next, vars, history, Boot, Request, Answered, NotAsked, FileOpened,
         Saved, SaveFails, Beat, Restart
  <1>3. IInv /\ [Next]_vars => IInv'
    BY InvariantStep
  <1>4. Ind /\ [Next]_vars => Ind'
    BY <1>2, <1>3
  <1>5. Ind => NamesWhatWorked
    <2> SUFFICES ASSUME Ind, NEW h \in Hosts, file[h] \in Nat
                 PROVE  <<h, file[h]>> \in named
      BY DEF NamesWhatWorked
    <2>1. PICK s \in named : s[1] = h /\ (file[h] = s[2] \/ <<file[h], s[2]>> \in Begins)
      BY DEF IInv, SavesWorking, FileNamesWorking, Earned
    <2>2. s \in Hosts \X (0..Count)
      BY <2>1
    <2>3. <<file[h], s[2]>> \notin Begins
      <3>1. ~(s[2] > Count)
        BY <2>2, PoolAssumption
      <3> QED
        BY <3>1 DEF SourcesHaveOneDigit
    <2> QED
      BY <2>1, <2>2, <2>3
  <1> QED
    BY <1>1, <1>4, <1>5, PTL DEF Spec
=============================================================================
