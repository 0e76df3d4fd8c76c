--------------------------- MODULE DataSourceProofs ---------------------------
(* Proofs about the connection pool, for every number of coroutines, schemas  *)
(* and connections, every maxCon and every limit on the wait.                 *)
EXTENDS DataSource, FiniteSetTheorems, TLAPS

-----------------------------------------------------------------------------
\* Lemmas about queues of connections: what shift and push do to the set of
\* queued connections and to their being queued once.
LEMMA ShiftHead ==
    ASSUME NEW q \in [Names -> Seq(Conns)], Distinct(q),
           NEW n \in Names, q[n] # <<>>
    PROVE  LET r == [q EXCEPT ![n] = Tail(@)]
           IN  /\ r \in [Names -> Seq(Conns)]
               /\ Distinct(r)
               /\ Head(q[n]) \in IdleIn(q)
               /\ IdleIn(r) = IdleIn(q) \ {Head(q[n])}
  <1> DEFINE r == [q EXCEPT ![n] = Tail(@)]
  <1>1. /\ Tail(q[n]) \in Seq(Conns) /\ Head(q[n]) \in Conns /\ Head(q[n]) = q[n][1]
        /\ Len(q[n]) \in Nat /\ Len(q[n]) >= 1
        /\ Len(Tail(q[n])) = Len(q[n]) - 1
        /\ \A i \in 1..Len(q[n]) - 1 : Tail(q[n])[i] = q[n][i+1]
    OBVIOUS
  <1>2. r \in [Names -> Seq(Conns)] /\ r[n] = Tail(q[n]) /\ \A m \in Names \ {n} : r[m] = q[m]
    BY <1>1
  <1>3. \A m \in Names : Len(q[m]) \in Nat
    OBVIOUS
  <1>4. Distinct(r)
    BY <1>1, <1>2, <1>3 DEF Distinct
  <1>5. Head(q[n]) \in IdleIn(q)
    BY <1>1 DEF IdleIn
  <1>6. ASSUME NEW c \in IdleIn(r)
        PROVE  c \in IdleIn(q) \ {Head(q[n])}
    <2>0. PICK m \in Names : \E i \in 1..Len(r[m]) : r[m][i] = c
      BY DEF IdleIn
    <2>1. PICK i \in 1..Len(r[m]) : r[m][i] = c
      BY <2>0
    <2>2. CASE m = n
      <3>1. i + 1 \in 1..Len(q[n]) /\ q[n][i+1] = c
        BY <2>1, <2>2, <1>1, <1>2
      <3>2. c # q[n][1]
        BY <3>1, <1>1, <2>1 DEF Distinct
      <3> QED
        BY <3>1, <3>2, <1>1 DEF IdleIn
    <2>3. CASE m # n
      <3>1. i \in 1..Len(q[m]) /\ q[m][i] = c
        BY <2>1, <2>3, <1>2
      <3>2. c # q[n][1]
        BY <3>1, <1>1, <2>3 DEF Distinct
      <3> QED
        BY <3>1, <3>2, <1>1 DEF IdleIn
    <2> QED
      BY <2>2, <2>3
  <1>7. ASSUME NEW c \in IdleIn(q), c # Head(q[n])
        PROVE  c \in IdleIn(r)
    <2>0. PICK m \in Names : \E i \in 1..Len(q[m]) : q[m][i] = c
      BY <1>7 DEF IdleIn
    <2>1. PICK i \in 1..Len(q[m]) : q[m][i] = c
      BY <2>0
    <2>2. CASE m = n
      <3>1. i - 1 \in 1..Len(r[n]) /\ r[n][i-1] = c
        BY <2>1, <2>2, <1>1, <1>2, <1>7
      <3> QED
        BY <3>1 DEF IdleIn
    <2>3. CASE m # n
      BY <2>1, <2>3, <1>2 DEF IdleIn
    <2> QED
      BY <2>2, <2>3
  <1> QED
    BY <1>2, <1>4, <1>5, <1>6, <1>7

\* Pushing a connection that is queued nowhere adds it once.
LEMMA PushLast ==
    ASSUME NEW q \in [Names -> Seq(Conns)], Distinct(q),
           NEW n \in Names, NEW c \in Conns, c \notin IdleIn(q)
    PROVE  LET r == [q EXCEPT ![n] = Append(@, c)]
           IN  /\ r \in [Names -> Seq(Conns)]
               /\ Distinct(r)
               /\ IdleIn(r) = IdleIn(q) \cup {c}
  <1> DEFINE r == [q EXCEPT ![n] = Append(@, c)]
  <1>1. /\ Append(q[n], c) \in Seq(Conns)
        /\ Len(q[n]) \in Nat
        /\ Len(Append(q[n], c)) = Len(q[n]) + 1
        /\ \A i \in 1..Len(q[n]) : Append(q[n], c)[i] = q[n][i]
        /\ Append(q[n], c)[Len(q[n]) + 1] = c
    OBVIOUS
  <1>2. r \in [Names -> Seq(Conns)] /\ r[n] = Append(q[n], c) /\ \A m \in Names \ {n} : r[m] = q[m]
    BY <1>1
  <1>3. \A m \in Names : Len(q[m]) \in Nat /\ \A i \in 1..Len(q[m]) : q[m][i] \in Conns /\ q[m][i] # c
    BY DEF IdleIn
  <1>4. \A m \in Names : \A i \in 1..Len(r[m]) :
            \/ i \in 1..Len(q[m]) /\ r[m][i] = q[m][i]
            \/ m = n /\ i = Len(q[n]) + 1 /\ r[m][i] = c
    BY <1>1, <1>2
  <1>5. Distinct(r)
    BY <1>3, <1>4 DEF Distinct
  <1>6. IdleIn(r) \subseteq IdleIn(q) \cup {c}
    BY <1>4 DEF IdleIn
  <1>7. c \in IdleIn(r)
    BY <1>1, <1>2 DEF IdleIn
  <1>8. IdleIn(q) \subseteq IdleIn(r)
    BY <1>1, <1>2 DEF IdleIn
  <1> QED
    BY <1>2, <1>5, <1>6, <1>7, <1>8

-----------------------------------------------------------------------------
\* Whoever holds a connection holds one that was opened, belongs to the pool
\* and was not closed; what is queued was opened.
HeldIsOpen ==
    /\ \A p \in Holders : /\ cand[p] \in Conns
                          /\ back[cand[p]].link # "none"
                          /\ back[cand[p]].pooled
                          /\ ~back[cand[p]].closed
    /\ \A c \in Idle : back[c].link # "none"

IInv == TypeOK /\ OneOwner /\ QueuedIsFree /\ HeldIsOpen

\* The pool starts empty.
LEMMA InitIInv ==
    ASSUME Init
    PROVE  IInv
  <1>1. Holders = {} /\ Idle = {} /\ Distinct(queue)
    BY DEF Init, Holders, Idle, IdleIn, Distinct
  <1>2. TypeOK
    BY ConstAssumption DEF Init, TypeOK, Names, BackType, Unopened
  <1> QED
    BY <1>1, <1>2 DEF IInv, OneOwner, QueuedIsFree, HeldIsOpen, Init

\* A walk over the queues that finds a connection moves it from its queue to
\* the walker and touches nothing else.
LEMMA TakeNextFacts ==
    ASSUME TypeOK, Distinct(queue), NEW p \in Clients, NEW s \in Names,
           NEW keys \in Seq(Names), NEW from \in Nat, TakeNext(p, s, keys, from)
    PROVE  /\ \E c \in Idle : /\ cand' = [cand EXCEPT ![p] = c]
                              /\ Idle' = Idle \ {c}
           /\ Distinct(queue')
           /\ queue' \in [Names -> Seq(Conns)]
           /\ at' \in [Clients -> Nat]
           /\ pc' = [pc EXCEPT ![p] = "ping"]
           /\ connCount' = connCount /\ activeCount' = activeCount
  <1>1. PICK i \in Hits(s, keys, from) :
            /\ cand' = [cand EXCEPT ![p] = Head(queue[NameAt(s, keys, i)])]
            /\ queue' = [queue EXCEPT ![NameAt(s, keys, i)] = Tail(@)]
            /\ at' = [at EXCEPT ![p] = i]
    BY DEF TakeNext
  <1> DEFINE n == NameAt(s, keys, i)
  <1>2. i \in Nat /\ i <= Len(keys) /\ queue[n] # <<>>
    BY DEF Hits
  <1>3. n \in Names
    BY <1>2 DEF NameAt
  <1>4. queue \in [Names -> Seq(Conns)]
    BY DEF TypeOK
  <1> HIDE DEF n
  <1>5. /\ queue' \in [Names -> Seq(Conns)]
        /\ Distinct(queue')
        /\ Head(queue[n]) \in Idle
        /\ Idle' = Idle \ {Head(queue[n])}
    BY <1>1, <1>2, <1>3, <1>4, ShiftHead DEF n, Idle
  <1>6. at' \in [Clients -> Nat]
    BY <1>1, <1>2 DEF TypeOK
  <1> QED
    BY <1>1, <1>5, <1>6 DEF TakeNext, n

\* A miss reserves a slot when there is one and waits when there is none.
LEMMA CreateOrWaitFacts ==
    ASSUME TypeOK, NEW p \in Clients, CreateOrWait(p)
    PROVE  /\ cand' = [cand EXCEPT ![p] = None]
           /\ at' = [at EXCEPT ![p] = 0]
           /\ \/ /\ connCount < Size
                 /\ pc' = [pc EXCEPT ![p] = "open"]
                 /\ connCount' = connCount + 1
                 /\ activeCount' = activeCount + 1
              \/ /\ pc' = [pc EXCEPT ![p] = "nap"]
                 /\ connCount' = connCount /\ activeCount' = activeCount
  BY DEF CreateOrWait, Reserve

\* Registering a queue keeps the key order a sequence of schemas.
LEMMA RegisteredType ==
    ASSUME TypeOK, NEW s \in Names
    PROVE  Registered(s) \in Seq(Names)
  BY DEF TypeOK, Registered

\* Closing connections changes nothing but their closed flag.
LEMMA ClosedFacts ==
    ASSUME TypeOK, NEW S, back' = Closed(S)
    PROVE  /\ back' \in [Conns -> BackType]
           /\ \A c \in Conns : /\ back'[c].link = back[c].link
                               /\ back'[c].pooled = back[c].pooled
                               /\ back'[c].borrowed = back[c].borrowed
                               /\ back'[c].closed <=> (back[c].closed \/ c \in S)
  <1>1. back \in [Conns -> BackType]
    BY DEF TypeOK
  <1>2. \A c \in Conns : back'[c] = IF c \in S THEN [back[c] EXCEPT !.closed = TRUE] ELSE back[c]
    BY DEF Closed
  <1>3. back' = [c \in Conns |-> back'[c]]
    BY DEF Closed
  <1>4. ASSUME NEW c \in Conns
        PROVE  /\ back'[c] \in BackType
               /\ back'[c].link = back[c].link
               /\ back'[c].pooled = back[c].pooled
               /\ back'[c].borrowed = back[c].borrowed
               /\ back'[c].closed <=> (back[c].closed \/ c \in S)
    <2>1. back[c] \in BackType
      BY <1>1
    <2>2. CASE c \in S
      BY <2>1, <2>2, <1>2 DEF BackType
    <2>3. CASE c \notin S
      BY <2>1, <2>3, <1>2
    <2> QED
      BY <2>2, <2>3
  <1> QED
    BY <1>3, <1>4

-----------------------------------------------------------------------------
\* The walk of getConn ends at a connection: S are those it closed on the way.
LEMMA WalkHit ==
    ASSUME IInv, NEW p \in Clients, pc[p] \in {"idle", "ping"},
           NEW s \in Names, NEW keys \in Seq(Names), NEW from \in Nat,
           TakeNext(p, s, keys, from),
           NEW S, back' = Closed(S), S \cap Idle = {},
           \A q \in Holders : q # p => cand[q] \notin S,
           want' \in [Clients -> Names], waited' = waited, order' \in Seq(Names),
           unseen' \in [Clients -> SUBSET Conns], checkAlive' \in BOOLEAN
    PROVE  IInv'
  <1> USE DEF IInv
  <1>1. PICK c \in Idle : /\ cand' = [cand EXCEPT ![p] = c]
                          /\ Idle' = Idle \ {c}
    BY TakeNextFacts DEF OneOwner
  <1>2. /\ Distinct(queue')
        /\ queue' \in [Names -> Seq(Conns)]
        /\ at' \in [Clients -> Nat]
        /\ pc' = [pc EXCEPT ![p] = "ping"]
        /\ connCount' = connCount /\ activeCount' = activeCount
    BY TakeNextFacts DEF OneOwner
  <1>3. /\ back' \in [Conns -> BackType]
        /\ \A d \in Conns : /\ back'[d].link = back[d].link
                            /\ back'[d].pooled = back[d].pooled
                            /\ back'[d].borrowed = back[d].borrowed
                            /\ back'[d].closed <=> (back[d].closed \/ d \in S)
    BY ClosedFacts
  <1>4. c \in Conns /\ Idle \subseteq Conns
    BY DEF Idle, IdleIn
  <1>5. Holders' = Holders \cup {p}
    BY <1>2 DEF Holders, TypeOK
  <1>6. \A q \in Holders' : q # p => q \in Holders /\ cand'[q] = cand[q] /\ pc'[q] = pc[q]
    BY <1>1, <1>2, <1>5 DEF Holders, TypeOK
  <1>7. cand'[p] = c /\ pc'[p] = "ping"
    BY <1>1, <1>2 DEF TypeOK
  <1>8. TypeOK'
    BY <1>1, <1>2, <1>3, <1>4 DEF TypeOK
  <1>9. OneOwner'
    BY <1>1, <1>2, <1>5, <1>6, <1>7 DEF OneOwner
  <1>10. QueuedIsFree'
    <2>1. \A d \in Idle' : ~back'[d].closed /\ ~back'[d].borrowed /\ back'[d].pooled
      BY <1>1, <1>3, <1>4 DEF QueuedIsFree
    <2>2. ASSUME NEW q \in Clients, pc'[q] \in {"initsql", "using"}
          PROVE  back'[cand'[q]].borrowed /\ ~back'[cand'[q]].closed
      <3>1. q # p /\ pc[q] = pc'[q]
        BY <2>2, <1>2 DEF TypeOK
      <3>2. q \in Holders /\ cand'[q] = cand[q] /\ cand[q] \in Conns /\ cand[q] \notin S
        BY <2>2, <3>1, <1>6, <1>5 DEF Holders, HeldIsOpen
      <3> QED
        BY <2>2, <3>1, <3>2, <1>3 DEF QueuedIsFree
    <2> QED
      BY <2>1, <2>2 DEF QueuedIsFree
  <1>11. HeldIsOpen'
    <2>1. \A d \in Idle' : back'[d].link # "none"
      BY <1>1, <1>3, <1>4 DEF HeldIsOpen
    <2>2. \A q \in Holders' : cand'[q] \in Conns /\ cand'[q] \notin S /\ back[cand'[q]].link # "none"
                               /\ back[cand'[q]].pooled /\ ~back[cand'[q]].closed
      BY <1>1, <1>4, <1>5, <1>6, <1>7 DEF HeldIsOpen, QueuedIsFree
    <2> QED
      BY <2>1, <2>2, <1>3 DEF HeldIsOpen
  <1> QED
    BY <1>8, <1>9, <1>10, <1>11

\* The walk finds nothing: S are the connections it closed on the way.
LEMMA WalkMiss ==
    ASSUME IInv, NEW p \in Clients, pc[p] \in {"idle", "ping"}, CreateOrWait(p),
           queue' \in [Names -> Seq(Conns)], Distinct(queue'),
           NEW S, back' = Closed(S), Idle' \subseteq Idle \ S,
           \A q \in Holders : q # p => cand[q] \notin S,
           want' \in [Clients -> Names], waited' = waited, order' \in Seq(Names),
           unseen' \in [Clients -> SUBSET Conns], checkAlive' \in BOOLEAN
    PROVE  IInv'
  <1> USE DEF IInv
  <1>1. cand' = [cand EXCEPT ![p] = None] /\ at' = [at EXCEPT ![p] = 0]
    BY CreateOrWaitFacts
  <1>2. /\ \/ pc' = [pc EXCEPT ![p] = "open"]
           \/ pc' = [pc EXCEPT ![p] = "nap"]
        /\ connCount' \in Int /\ activeCount' \in Int
    <2>1. connCount \in Int /\ activeCount \in Int
      BY DEF TypeOK
    <2> QED
      BY <2>1, CreateOrWaitFacts
  <1>3. /\ back' \in [Conns -> BackType]
        /\ \A d \in Conns : /\ back'[d].link = back[d].link
                            /\ back'[d].pooled = back[d].pooled
                            /\ back'[d].borrowed = back[d].borrowed
                            /\ back'[d].closed <=> (back[d].closed \/ d \in S)
    BY ClosedFacts
  <1>4. Idle \subseteq Conns
    BY DEF Idle, IdleIn
  <1>5. Holders' = Holders \ {p}
    BY <1>2 DEF Holders, TypeOK
  <1>6. \A q \in Clients : q # p => cand'[q] = cand[q] /\ pc'[q] = pc[q]
    BY <1>1, <1>2 DEF TypeOK
  <1>7. TypeOK'
    BY <1>1, <1>2, <1>3 DEF TypeOK
  <1>8. OneOwner'
    <2>1. \A q \in Holders' : q \in Holders /\ q \in Clients /\ q # p /\ cand'[q] = cand[q]
      BY <1>5, <1>6 DEF Holders
    <2>2. /\ \A q, r \in Holders : q # r => cand[q] # cand[r]
          /\ \A q \in Holders : cand[q] \notin Idle
          /\ Distinct(queue)
      BY DEF OneOwner
    <2> QED
      BY <2>1, <2>2 DEF OneOwner
  <1>9. QueuedIsFree'
    <2>1. \A d \in Idle' : ~back'[d].closed /\ ~back'[d].borrowed /\ back'[d].pooled
      BY <1>3, <1>4 DEF QueuedIsFree
    <2>2. ASSUME NEW q \in Clients, pc'[q] \in {"initsql", "using"}
          PROVE  back'[cand'[q]].borrowed /\ ~back'[cand'[q]].closed
      <3>1. q # p
        BY <2>2, <1>2 DEF TypeOK
      <3>2. q \in Holders /\ cand'[q] = cand[q] /\ cand[q] \in Conns /\ cand[q] \notin S
        BY <2>2, <3>1, <1>6 DEF Holders, HeldIsOpen
      <3> QED
        BY <2>2, <3>1, <3>2, <1>3, <1>6 DEF QueuedIsFree
    <2> QED
      BY <2>1, <2>2 DEF QueuedIsFree
  <1>10. HeldIsOpen'
    <2>1. ASSUME NEW d \in Idle'
          PROVE  back'[d].link # "none"
      <3>1. d \in Idle /\ d \in Conns
        BY <1>4
      <3>2. back[d].link # "none"
        BY <3>1 DEF HeldIsOpen
      <3> QED
        BY <3>1, <3>2, <1>3
    <2>2. ASSUME NEW q \in Holders'
          PROVE  /\ cand'[q] \in Conns
                 /\ back'[cand'[q]].link # "none"
                 /\ back'[cand'[q]].pooled
                 /\ ~back'[cand'[q]].closed
      <3>1. q \in Holders /\ q # p /\ cand'[q] = cand[q]
        BY <1>5, <1>6 DEF Holders
      <3>2. /\ cand[q] \in Conns /\ cand[q] \notin S
            /\ back[cand[q]].link # "none"
            /\ back[cand[q]].pooled /\ ~back[cand[q]].closed
        BY <3>1 DEF HeldIsOpen
      <3> QED
        BY <3>1, <3>2, <1>3
    <2> QED
      BY <2>1, <2>2 DEF HeldIsOpen
  <1> QED
    BY <1>7, <1>8, <1>9, <1>10

-----------------------------------------------------------------------------
\* One lemma per action: it preserves the invariant.
LEMMA BeginIInv ==
    ASSUME IInv, NEW p \in Clients, NEW s \in Schemas, Begin(p, s)
    PROVE  IInv'
  <1> USE DEF IInv
  <1>0. unseen' \in [Clients -> SUBSET Conns]
    BY DEF Begin, TypeOK, Idle, IdleIn
  <1>1. s \in Names /\ pc[p] = "idle"
    BY DEF Names, Begin
  <1>2. /\ Registered(s) \in Seq(Names)
        /\ want' \in [Clients -> Names]
        /\ waited' = waited /\ order' \in Seq(Names) /\ checkAlive' \in BOOLEAN
    BY <1>1, RegisteredType DEF Begin, TypeOK
  <1>3. CASE checkAlive
    <2>1. back' = Closed({})
      <3>1. back' = back
        BY <1>3 DEF Begin
      <3> QED
        BY <3>1 DEF Closed, TypeOK
    <2>2. CASE TakeNext(p, s, Registered(s), 0)
      BY <1>0, <1>1, <1>2, <2>1, <2>2, WalkHit
    <2>3. CASE Miss(p, s, Registered(s), 0)
      <3>1. queue' = queue /\ CreateOrWait(p)
        BY <2>3 DEF Miss
      <3>2. Idle' = Idle /\ Distinct(queue') /\ queue' \in [Names -> Seq(Conns)]
        BY <3>1 DEF Idle, OneOwner, TypeOK
      <3> DEFINE S == {}
      <3>3. /\ Idle' \subseteq Idle \ S /\ back' = Closed(S)
            /\ \A q \in Holders : q # p => cand[q] \notin S
        BY <3>2, <2>1
      <3> HIDE DEF S
      <3> QED
        BY <1>0, <1>1, <1>2, <3>1, <3>2, <3>3, WalkMiss
    <2> QED
      BY <1>3, <2>2, <2>3 DEF Begin
  <1>4. CASE ~checkAlive
    <2>1. /\ queue' = [n \in Names |-> <<>>]
          /\ back' = Closed(Idle)
          /\ CreateOrWait(p)
      BY <1>4 DEF Begin, DropAll
    <2>2. Idle' = {} /\ Distinct(queue') /\ queue' \in [Names -> Seq(Conns)]
      BY <2>1 DEF Idle, IdleIn, Distinct
    <2>3. \A q \in Holders : q # p => cand[q] \notin Idle
      BY DEF OneOwner
    <2> QED
      BY <1>0, <1>1, <1>2, <2>1, <2>2, <2>3, WalkMiss
  <1> QED
    BY <1>3, <1>4

\* A connection that fails its ping is closed and the walk goes on.
LEMMA PingFailIInv ==
    ASSUME IInv, NEW p \in Clients, PingFail(p)
    PROVE  IInv'
  <1> USE DEF IInv
  <1>0. unseen' \in [Clients -> SUBSET Conns]
    BY DEF PingFail, TypeOK
  <1>1. /\ pc[p] = "ping" /\ want[p] \in Names /\ order \in Seq(Names) /\ at[p] \in Nat
        /\ want' \in [Clients -> Names] /\ waited' = waited /\ order' \in Seq(Names)
        /\ back' = Closed({cand[p]}) /\ checkAlive' \in BOOLEAN
    BY DEF PingFail, TypeOK
  <1>2. p \in Holders
    BY <1>1 DEF Holders
  <1>3. {cand[p]} \cap Idle = {} /\ \A q \in Holders : q # p => cand[q] \notin {cand[p]}
    BY <1>2 DEF OneOwner
  <1>4. CASE TakeNext(p, want[p], order, at[p])
    BY <1>0, <1>1, <1>3, <1>4, WalkHit
  <1>5. CASE Miss(p, want[p], order, at[p])
    <2>1. queue' = queue /\ CreateOrWait(p)
      BY <1>5 DEF Miss
    <2>2. Idle' \subseteq Idle \ {cand[p]} /\ Distinct(queue') /\ queue' \in [Names -> Seq(Conns)]
      BY <2>1, <1>3 DEF Idle, OneOwner, TypeOK
    <2> QED
      BY <1>0, <1>1, <1>3, <2>1, <2>2, WalkMiss
  <1> QED
    BY <1>4, <1>5 DEF PingFail

\* Steps that leave the queues alone and give nobody a new connection.
LEMMA StillIdle ==
    ASSUME queue' = queue
    PROVE  Idle' = Idle /\ (Distinct(queue) => Distinct(queue'))
  BY DEF Idle

\* A connection that answers its ping changes from pinged to used.
LEMMA PingOkIInv ==
    ASSUME IInv, NEW p \in Clients, PingOk(p)
    PROVE  IInv'
  <1> USE DEF IInv
  <1>1. pc[p] = "ping" /\ p \in Holders
    BY DEF PingOk, Holders
  <1> DEFINE c == cand[p]
  <1>2. /\ c \in Conns /\ c \notin Idle
        /\ back[c].link # "none" /\ back[c].pooled /\ ~back[c].closed
    BY <1>1 DEF HeldIsOpen, OneOwner
  <1>3. /\ back' \in [Conns -> BackType]
        /\ back'[c].borrowed /\ back'[c].link = back[c].link
        /\ back'[c].pooled = back[c].pooled /\ back'[c].closed = back[c].closed
        /\ \A d \in Conns : d # c => back'[d] = back[d]
    <2>1. back[c] \in BackType /\ want[p] \in Names
      BY <1>2 DEF TypeOK
    <2>2. back' = [back EXCEPT ![c] = [back[c] EXCEPT !.borrowed = TRUE, !.schema = want[p]]]
      BY <1>2 DEF PingOk, TypeOK
    <2>3. [back[c] EXCEPT !.borrowed = TRUE, !.schema = want[p]] \in BackType
      BY <2>1 DEF BackType
    <2> QED
      BY <2>1, <2>2, <2>3, <1>2 DEF TypeOK, BackType
  <1>4. Idle' = Idle /\ Idle \subseteq Conns /\ Distinct(queue')
    BY StillIdle DEF PingOk, Idle, IdleIn, OneOwner
  <1>5. pc' = [pc EXCEPT ![p] = "using"] /\ cand' = cand
    BY DEF PingOk
  <1>6. Holders' = Holders
    BY <1>1, <1>5 DEF Holders, TypeOK
  <1>7. TypeOK'
    BY <1>3, <1>5 DEF TypeOK, PingOk
  <1>8. OneOwner'
    BY <1>4, <1>5, <1>6 DEF OneOwner
  <1> HIDE DEF c
  <1>9. \A d \in Idle : d \in Conns /\ back'[d] = back[d]
    BY <1>2, <1>3, <1>4
  <1>10. \A q \in Holders : q # p => cand[q] \in Conns /\ back'[cand[q]] = back[cand[q]]
    BY <1>1, <1>3 DEF OneOwner, HeldIsOpen, c
  <1>11. QueuedIsFree'
    <2>1. ASSUME NEW q \in Clients, pc'[q] \in {"initsql", "using"}
          PROVE  back'[cand[q]].borrowed /\ ~back'[cand[q]].closed
      <3>1. CASE q = p
        BY <3>1, <1>2, <1>3 DEF c
      <3>2. CASE q # p
        BY <3>2, <2>1, <1>5, <1>10 DEF QueuedIsFree, Holders, TypeOK
      <3> QED
        BY <3>1, <3>2
    <2> QED
      BY <2>1, <1>4, <1>5, <1>9 DEF QueuedIsFree
  <1>12. HeldIsOpen'
    <2>1. ASSUME NEW q \in Holders
          PROVE  /\ cand[q] \in Conns /\ back'[cand[q]].link # "none"
                 /\ back'[cand[q]].pooled /\ ~back'[cand[q]].closed
      <3>1. CASE q = p
        BY <3>1, <1>2, <1>3 DEF c
      <3>2. CASE q # p
        BY <3>2, <1>10 DEF HeldIsOpen
      <3> QED
        BY <3>1, <3>2
    <2> QED
      BY <2>1, <1>4, <1>5, <1>6, <1>9 DEF HeldIsOpen
  <1> QED
    BY <1>7, <1>8, <1>11, <1>12

\* Steps after which fewer clients hold something and nothing else moved:
\* naps, failed opens and failed init SQL.
LEMMA DropHolder ==
    ASSUME IInv, NEW p \in Clients,
           checkAlive' = checkAlive, queue' = queue, back' = back, order' = order,
           pc' \in [Clients -> {"idle", "ping", "nap", "open", "initsql", "using"}],
           want' \in [Clients -> Names], at' \in [Clients -> Nat],
           waited' \in [Clients -> 0..MaxWait],
           connCount' \in Int, activeCount' \in Int,
           cand' \in [Clients -> Conns \cup {None}],
           unseen' \in [Clients -> SUBSET Conns],
           pc'[p] \in {"idle", "nap", "open"},
           \A q \in Clients : q # p => pc'[q] = pc[q] /\ cand'[q] = cand[q]
    PROVE  IInv'
  <1> USE DEF IInv
  <1>1. Idle' = Idle /\ Distinct(queue')
    BY StillIdle DEF OneOwner
  <1>2. \A q \in Holders' : q \in Holders /\ q # p /\ cand'[q] = cand[q]
    BY DEF Holders
  <1>3. TypeOK'
    BY DEF TypeOK
  <1>4. OneOwner'
    BY <1>1, <1>2 DEF OneOwner
  <1>5. QueuedIsFree'
    BY <1>1 DEF QueuedIsFree
  <1>6. HeldIsOpen'
    BY <1>1, <1>2 DEF HeldIsOpen
  <1> QED
    BY <1>3, <1>4, <1>5, <1>6

\* A request that ends leaves every client variable in its type.
LEMMA LeaveFacts ==
    ASSUME TypeOK, NEW p \in Clients, Leave(p)
    PROVE  /\ pc' \in [Clients -> {"idle", "ping", "nap", "open", "initsql", "using"}]
           /\ want' \in [Clients -> Names] /\ at' \in [Clients -> Nat]
           /\ waited' \in [Clients -> 0..MaxWait]
           /\ cand' \in [Clients -> Conns \cup {None}]
           /\ unseen' \in [Clients -> SUBSET Conns]
           /\ pc'[p] = "idle"
           /\ \A q \in Clients : q # p => pc'[q] = pc[q] /\ cand'[q] = cand[q]
  <1>1. 0 \in 0..MaxWait /\ NoSchema \in Names
    BY ConstAssumption DEF Names
  <1> QED
    BY <1>1 DEF Leave, TypeOK

\* Waiting holds nothing, and a reservation after it neither.
LEMMA NapIInv ==
    ASSUME IInv, NEW p \in Clients, Nap(p)
    PROVE  IInv'
  <1> USE DEF IInv
  <1>1. /\ checkAlive' = checkAlive /\ pc[p] = "nap"
        /\ queue' = queue /\ back' = back /\ order' = order
    BY DEF Nap
  <1>2. CASE Leave(p) /\ UNCHANGED <<connCount, activeCount>>
    <2>1. connCount' \in Int /\ activeCount' \in Int
      BY <1>2 DEF TypeOK
    <2> QED
      BY <1>1, <1>2, <2>1, LeaveFacts, DropHolder
  <1>3. CASE /\ \E w \in (waited[p] + 1)..MaxWait : waited' = [waited EXCEPT ![p] = w]
             /\ UNCHANGED <<pc, want, cand, at, connCount, activeCount, unseen>>
    <2>1. waited[p] \in 0..MaxWait
      BY DEF TypeOK
    <2>2. PICK w \in (waited[p] + 1)..MaxWait : waited' = [waited EXCEPT ![p] = w]
      BY <1>3
    <2>3. w \in 0..MaxWait
      BY <2>1, ConstAssumption
    <2>4. waited' \in [Clients -> 0..MaxWait]
      BY <2>2, <2>3 DEF TypeOK
    <2>5. pc'[p] \in {"idle", "nap", "open"}
      BY <1>1, <1>3
    <2> QED
      BY <1>1, <1>3, <2>4, <2>5, DropHolder DEF TypeOK
  <1>4. CASE Reserve(p) /\ waited' = [waited EXCEPT ![p] = 0] /\ UNCHANGED <<want, cand, at, unseen>>
    <2>1. waited' \in [Clients -> 0..MaxWait]
      BY <1>4, ConstAssumption DEF TypeOK
    <2>2. /\ pc' \in [Clients -> {"idle", "ping", "nap", "open", "initsql", "using"}]
          /\ pc'[p] = "open" /\ \A q \in Clients : q # p => pc'[q] = pc[q]
          /\ connCount' \in Int /\ activeCount' \in Int
      BY <1>4 DEF Reserve, TypeOK
    <2> QED
      BY <1>1, <1>4, <2>1, <2>2, DropHolder DEF TypeOK
  <1> QED
    BY <1>2, <1>3, <1>4 DEF Nap

\* A request that gives its slot back holds nothing any more.
LEMMA GiveUpIInv ==
    ASSUME IInv, NEW p \in Clients, GiveUp(p)
    PROVE  IInv'
  <1>1. /\ Leave(p) /\ checkAlive' = checkAlive
        /\ queue' = queue /\ back' = back /\ order' = order
    BY DEF GiveUp
  <1>2. connCount' \in Int /\ activeCount' \in Int
    BY DEF GiveUp, IInv, TypeOK
  <1> QED
    BY <1>1, <1>2, LeaveFacts, DropHolder DEF IInv

\* An opened connection is a new one, so nobody else holds or queues it.
LEMMA OpenOkIInv ==
    ASSUME IInv, NEW p \in Clients, OpenOk(p)
    PROVE  IInv'
  <1> USE DEF IInv
  <1> DEFINE fresh == [link |-> "up", db |-> want[p], schema |-> NoSchema,
                       borrowed |-> TRUE, pooled |-> TRUE, closed |-> FALSE]
  <1>1. PICK c \in Conns : /\ back[c].link = "none"
                           /\ cand' = [cand EXCEPT ![p] = c]
                           /\ back' = [back EXCEPT ![c] = fresh]
    BY DEF OpenOk
  <1>2. /\ pc[p] = "open" /\ queue' = queue
        /\ pc' = [pc EXCEPT ![p] = IF InitSql THEN "initsql" ELSE "using"]
    BY DEF OpenOk, pool
  <1>3. fresh \in BackType /\ fresh.link = "up" /\ fresh.borrowed /\ fresh.pooled /\ ~fresh.closed
    BY DEF TypeOK, BackType, Names
  <1> HIDE DEF fresh
  <1>4. back'[c] = fresh /\ \A d \in Conns : d # c => back'[d] = back[d]
    BY <1>1 DEF TypeOK
  <1>5. Idle' = Idle /\ Distinct(queue') /\ Idle \subseteq Conns
    BY <1>2, StillIdle DEF OneOwner, Idle, IdleIn
  <1>6. c \notin Idle /\ \A q \in Holders : cand[q] # c
    BY <1>1 DEF HeldIsOpen
  <1>7. pc'[p] \in {"initsql", "using"} /\ cand'[p] = c
    BY <1>1, <1>2 DEF TypeOK
  <1>8. \A q \in Clients : q # p => pc'[q] = pc[q] /\ cand'[q] = cand[q]
    BY <1>1, <1>2 DEF TypeOK
  <1>9. Holders' = Holders \cup {p}
    BY <1>7, <1>8 DEF Holders
  <1>10. TypeOK'
    <2>1. back' \in [Conns -> BackType]
      BY <1>1, <1>3 DEF TypeOK
    <2>2. pc' \in [Clients -> {"idle", "ping", "nap", "open", "initsql", "using"}]
      BY <1>2 DEF TypeOK
    <2>3. cand' \in [Clients -> Conns \cup {None}]
      BY <1>1 DEF TypeOK
    <2>4. UNCHANGED <<checkAlive, want, at, waited, queue, order, connCount, activeCount, unseen>>
      BY DEF OpenOk, pool
    <2>5. /\ want' \in [Clients -> Names] /\ at' \in [Clients -> Nat]
          /\ waited' \in [Clients -> 0..MaxWait]
          /\ queue' \in [Names -> Seq(Conns)] /\ order' \in Seq(Names)
          /\ connCount' \in Int /\ activeCount' \in Int
          /\ unseen' \in [Clients -> SUBSET Conns] /\ checkAlive' \in BOOLEAN
      BY <2>4 DEF TypeOK
    <2> QED
      BY <2>1, <2>2, <2>3, <2>5 DEF TypeOK
  <1>11. OneOwner'
    <2>1. \A q \in Holders' : q # p => q \in Holders /\ cand'[q] = cand[q]
      BY <1>8, <1>9 DEF Holders
    <2> QED
      BY <2>1, <1>5, <1>6, <1>7 DEF OneOwner
  <1>12. QueuedIsFree'
    <2>1. \A d \in Idle : back'[d] = back[d]
      BY <1>4, <1>5, <1>6
    <2>2. ASSUME NEW q \in Clients, pc'[q] \in {"initsql", "using"}
          PROVE  back'[cand'[q]].borrowed /\ ~back'[cand'[q]].closed
      <3>1. CASE q = p
        BY <3>1, <1>3, <1>4, <1>7
      <3>2. CASE q # p
        <4>1. q \in Holders /\ pc[q] \in {"initsql", "using"} /\ cand'[q] = cand[q]
          BY <2>2, <3>2, <1>8 DEF Holders
        <4>2. cand[q] \in Conns /\ cand[q] # c
          BY <4>1, <1>6 DEF HeldIsOpen
        <4> QED
          BY <4>1, <4>2, <1>4 DEF QueuedIsFree
      <3> QED
        BY <3>1, <3>2
    <2> QED
      BY <2>1, <2>2, <1>5 DEF QueuedIsFree
  <1>13. HeldIsOpen'
    <2>1. \A d \in Idle : back'[d] = back[d]
      BY <1>4, <1>5, <1>6
    <2>2. ASSUME NEW q \in Holders'
          PROVE  /\ cand'[q] \in Conns /\ back'[cand'[q]].link # "none"
                 /\ back'[cand'[q]].pooled /\ ~back'[cand'[q]].closed
      <3>1. CASE q = p
        BY <3>1, <1>3, <1>4, <1>7
      <3>2. CASE q # p
        <4>1. q \in Holders /\ cand'[q] = cand[q]
          BY <3>2, <1>8, <1>9 DEF Holders
        <4>2. cand[q] \in Conns /\ back'[cand[q]] = back[cand[q]]
          BY <4>1, <1>4, <1>6 DEF HeldIsOpen
        <4> QED
          BY <4>1, <4>2 DEF HeldIsOpen
      <3> QED
        BY <3>1, <3>2
    <2> QED
      BY <2>1, <2>2, <1>5 DEF HeldIsOpen
  <1> QED
    BY <1>10, <1>11, <1>12, <1>13

\* The holder keeps its connection when the init SQL succeeds.
LEMMA InitSqlOkIInv ==
    ASSUME IInv, NEW p \in Clients, InitSqlOk(p)
    PROVE  IInv'
  <1> USE DEF IInv
  <1>1. /\ pc[p] = "initsql" /\ pc' = [pc EXCEPT ![p] = "using"]
        /\ UNCHANGED <<checkAlive, want, cand, at, waited, queue, order, connCount, activeCount,
                       back, unseen>>
    BY DEF InitSqlOk, pool
  <1>2. pc' \in [Clients -> {"idle", "ping", "nap", "open", "initsql", "using"}]
    BY <1>1 DEF TypeOK
  <1>3. \A q \in Clients : /\ pc'[q] \in {"initsql", "using"} => pc[q] \in {"initsql", "using"}
                           /\ pc'[q] = pc[q] \/ (q = p /\ pc'[q] = "using")
    BY <1>1 DEF TypeOK
  <1>4. Holders' = Holders
    BY <1>1, <1>3 DEF Holders
  <1>5. Idle' = Idle
    BY <1>1, StillIdle
  <1>6. TypeOK'
    BY <1>1, <1>2 DEF TypeOK
  <1>7. OneOwner'
    BY <1>1, <1>4, <1>5 DEF OneOwner
  <1>8. QueuedIsFree'
    BY <1>1, <1>3, <1>5 DEF QueuedIsFree
  <1>9. HeldIsOpen'
    BY <1>1, <1>4, <1>5 DEF HeldIsOpen
  <1> QED
    BY <1>6, <1>7, <1>8, <1>9

\* A released connection moves from its only holder to one queue.
LEMMA ReleaseIInv ==
    ASSUME IInv, NEW p \in Clients, Release(p)
    PROVE  IInv'
  <1> USE DEF IInv
  <1> DEFINE c == cand[p]
             n == back[c].schema
  <1>1. /\ pc[p] = "using" /\ Leave(p)
        /\ queue' = [queue EXCEPT ![n] = Append(@, c)]
        /\ order' = Registered(n)
        /\ back' = [back EXCEPT ![c].borrowed = FALSE]
        /\ activeCount' = activeCount - 1 /\ connCount' = connCount
    BY DEF Release
  <1>2. p \in Holders
    BY <1>1 DEF Holders
  <1>3. /\ c \in Conns /\ c \notin Idle
        /\ back[c].link # "none" /\ back[c].pooled /\ ~back[c].closed
        /\ \A q \in Holders : q # p => cand[q] # c
    BY <1>2 DEF HeldIsOpen, OneOwner
  <1>4. back[c] \in BackType
    BY <1>3 DEF TypeOK
  <1>5. n \in Names
    BY <1>4 DEF BackType
  <1> HIDE DEF n, c
  <1>6. /\ Idle' = Idle \cup {c} /\ Distinct(queue')
        /\ queue' \in [Names -> Seq(Conns)]
    BY <1>1, <1>3, <1>5, PushLast DEF Idle, OneOwner, TypeOK
  <1>7. /\ back' \in [Conns -> BackType]
        /\ ~back'[c].borrowed /\ back'[c].link = back[c].link
        /\ back'[c].pooled = back[c].pooled /\ back'[c].closed = back[c].closed
        /\ \A d \in Conns : d # c => back'[d] = back[d]
    <2>1. back' = [back EXCEPT ![c] = [back[c] EXCEPT !.borrowed = FALSE]]
      BY <1>1, <1>3 DEF TypeOK
    <2>2. [back[c] EXCEPT !.borrowed = FALSE] \in BackType
      BY <1>4 DEF BackType
    <2> QED
      BY <2>1, <2>2, <1>3, <1>4 DEF TypeOK, BackType
  <1>8. /\ pc'[p] = "idle"
        /\ \A q \in Clients : q # p => pc'[q] = pc[q] /\ cand'[q] = cand[q]
    BY <1>1, LeaveFacts
  <1>9. \A q \in Holders' : q \in Holders /\ q # p /\ cand'[q] = cand[q]
    BY <1>8 DEF Holders
  <1>10. TypeOK'
    <2>1. order' \in Seq(Names)
      BY <1>1, <1>5, RegisteredType
    <2>2. connCount' \in Int /\ activeCount' \in Int /\ checkAlive' \in BOOLEAN
      BY <1>1 DEF Release, TypeOK
    <2> QED
      BY <2>1, <2>2, <1>1, <1>6, <1>7, LeaveFacts DEF TypeOK
  <1>11. OneOwner'
    BY <1>3, <1>6, <1>9 DEF OneOwner
  <1>12. \A d \in Idle : d \in Conns /\ back'[d] = back[d]
    BY <1>3, <1>7 DEF Idle, IdleIn
  <1>13. ASSUME NEW q \in Holders, q # p
         PROVE  cand[q] \in Conns /\ back'[cand[q]] = back[cand[q]]
    BY <1>13, <1>3, <1>7 DEF HeldIsOpen
  <1>14. QueuedIsFree'
    <2>1. \A d \in Idle' : ~back'[d].closed /\ ~back'[d].borrowed /\ back'[d].pooled
      BY <1>3, <1>6, <1>7, <1>12 DEF QueuedIsFree
    <2>2. ASSUME NEW q \in Clients, pc'[q] \in {"initsql", "using"}
          PROVE  back'[cand'[q]].borrowed /\ ~back'[cand'[q]].closed
      <3>1. q # p /\ pc[q] = pc'[q] /\ cand'[q] = cand[q] /\ q \in Holders
        BY <2>2, <1>8 DEF Holders
      <3>2. back'[cand[q]] = back[cand[q]]
        BY <3>1, <1>13
      <3> QED
        BY <2>2, <3>1, <3>2 DEF QueuedIsFree
    <2> QED
      BY <2>1, <2>2 DEF QueuedIsFree
  <1>15. HeldIsOpen'
    <2>1. \A d \in Idle' : back'[d].link # "none"
      BY <1>3, <1>6, <1>7, <1>12 DEF HeldIsOpen
    <2>2. ASSUME NEW q \in Holders'
          PROVE  /\ cand'[q] \in Conns /\ back'[cand'[q]].link # "none"
                 /\ back'[cand'[q]].pooled /\ ~back'[cand'[q]].closed
      BY <1>9, <1>13 DEF HeldIsOpen
    <2> QED
      BY <2>1, <2>2 DEF HeldIsOpen
  <1> QED
    BY <1>10, <1>11, <1>14, <1>15

\* A link that drops changes nothing the invariant looks at.
LEMMA LinkDropIInv ==
    ASSUME IInv, NEW c \in Conns, LinkDrop(c)
    PROVE  IInv'
  <1> USE DEF IInv
  <1>1. /\ UNCHANGED <<checkAlive, pc, want, cand, at, waited, queue, order, connCount, activeCount, unseen>>
        /\ back' = [back EXCEPT ![c].link = "down"]
    BY DEF LinkDrop, client, pool
  <1>2. /\ back' \in [Conns -> BackType]
        /\ \A d \in Conns : /\ back'[d].borrowed = back[d].borrowed
                            /\ back'[d].pooled = back[d].pooled
                            /\ back'[d].closed = back[d].closed
                            /\ back[d].link # "none" => back'[d].link # "none"
    <2>1. back[c] \in BackType
      BY DEF TypeOK
    <2>2. back' = [back EXCEPT ![c] = [back[c] EXCEPT !.link = "down"]]
      BY <1>1 DEF TypeOK
    <2>3. [back[c] EXCEPT !.link = "down"] \in BackType
      BY <2>1 DEF BackType
    <2> QED
      BY <2>1, <2>2, <2>3 DEF TypeOK, BackType
  <1>3. Idle' = Idle /\ Holders' = Holders /\ Idle \subseteq Conns
    BY <1>1, StillIdle DEF Holders, Idle, IdleIn
  <1>4. TypeOK'
    BY <1>1, <1>2 DEF TypeOK
  <1>5. OneOwner'
    BY <1>1, <1>3 DEF OneOwner
  <1>6. QueuedIsFree'
    <2>1. \A q \in Clients : pc[q] \in {"initsql", "using"} => cand[q] \in Conns
      BY DEF HeldIsOpen, Holders
    <2> QED
      BY <1>1, <1>2, <1>3, <2>1 DEF QueuedIsFree
  <1>7. HeldIsOpen'
    BY <1>1, <1>2, <1>3 DEF HeldIsOpen
  <1> QED
    BY <1>4, <1>5, <1>6, <1>7

-----------------------------------------------------------------------------
\* Every step preserves the invariant.
LEMMA NextIInv ==
    ASSUME IInv, [Next]_vars
    PROVE  IInv'
  <1>1. CASE UNCHANGED vars
    BY <1>1 DEF vars, client, pool, IInv, TypeOK, OneOwner, QueuedIsFree, HeldIsOpen,
                Holders, Idle
  <1>2. CASE Next
    <2>1. ASSUME NEW p \in Clients, NEW s \in Schemas, Begin(p, s)
          PROVE  IInv'
      BY <2>1, BeginIInv
    <2>2. ASSUME NEW p \in Clients,
                 PingEnds(p) \/ Nap(p) \/ OpenEnds(p) \/ InitSqlEnds(p) \/ Release(p)
          PROVE  IInv'
      BY <2>2, PingOkIInv, PingFailIInv, NapIInv, OpenOkIInv, GiveUpIInv,
         InitSqlOkIInv, ReleaseIInv
         DEF PingEnds, OpenEnds, OpenFail, InitSqlEnds, InitSqlFail
    <2>3. ASSUME NEW c \in Conns, LinkDrop(c)
          PROVE  IInv'
      BY <2>3, LinkDropIInv
    <2> QED
      BY <1>2, <2>1, <2>2, <2>3 DEF Next
  <1> QED
    BY <1>1, <1>2

\* The inductive invariant holds in every reachable state.
THEOREM IInvAlways == Spec => []IInv
  BY InitIInv, NextIInv, PTL DEF Spec

\* The state of the pool has its type in every reachable state.
THEOREM TypeCorrect == Spec => []TypeOK
  <1>1. IInv => TypeOK
    BY DEF IInv
  <1> QED
    BY <1>1, IInvAlways, PTL

\* No two coroutines ever ping, initialise or use the same backend connection,
\* and none that is in somebody's hands waits in a queue: getConn shifts a
\* connection before it blocks, and releaseConn alone puts it back.
THEOREM ConnsHaveOneOwner == Spec => []OneOwner
  <1>1. IInv => OneOwner
    BY DEF IInv
  <1> QED
    BY <1>1, IInvAlways, PTL

\* Queued connections are open and not borrowed, those in use are marked
\* borrowed: BackConnection.execute refuses exactly those who gave theirs back.
THEOREM QueuedIsAlwaysFree == Spec => []QueuedIsFree
  <1>1. IInv => QueuedIsFree
    BY DEF IInv
  <1> QED
    BY <1>1, IInvAlways, PTL

-----------------------------------------------------------------------------
\* Counting: how many clients are at certain program points.
At(S) == {p \in Clients : pc[p] \in S}

Held == {"ping", "initsql", "using"}
Opening == {"open"}
Busy == {"open", "initsql", "using"}

CountInv == /\ Cardinality(Idle) + Cardinality(At(Held)) + Cardinality(At(Opening)) <= connCount
            /\ connCount <= Size
            /\ activeCount = Cardinality(At(Busy))

\* The counting invariant restates the two properties with At.
LEMMA CountInvMeaning == CountInv <=> WithinMaxCon /\ ActiveMatches
  <1>1. Holders = At(Held) /\ At(Opening) = {p \in Clients : pc[p] = "open"}
    BY DEF Holders, At, Held, Opening
  <1> QED
    BY <1>1 DEF CountInv, WithinMaxCon, ActiveMatches, At, Busy

\* There are finitely many idle connections.
LEMMA FiniteIdle ==
    /\ IsFiniteSet(Idle) /\ Cardinality(Idle) \in Nat
    /\ \A T \in SUBSET Idle : Cardinality(T) \in Nat /\ Cardinality(T) <= Cardinality(Idle)
  <1>1. Idle \in SUBSET Conns
    BY DEF Idle, IdleIn
  <1>2. IsFiniteSet(Idle)
    BY <1>1, FS_Subset, ConstAssumption
  <1> QED
    BY <1>2, FS_Subset, FS_CardinalityType

\* One client moves from one program point to another.
LEMMA AtStep ==
    ASSUME TypeOK, NEW p \in Clients, NEW x, pc' = [pc EXCEPT ![p] = x], NEW S
    PROVE  /\ Cardinality(At(S)) \in Nat
           /\ Cardinality(At(S)') = Cardinality(At(S)) + (IF x \in S THEN 1 ELSE 0)
                                                       - (IF pc[p] \in S THEN 1 ELSE 0)
  <1>1. IsFiniteSet(At(S)) /\ Cardinality(At(S)) \in Nat
    <2>1. At(S) \in SUBSET Clients
      BY DEF At
    <2> QED
      BY <2>1, FS_Subset, FS_CardinalityType, ConstAssumption
  <1>2. p \in At(S) <=> pc[p] \in S
    BY DEF At
  <1>3. CASE x \in S
    <2>1. At(S)' = At(S) \cup {p}
      BY <1>3 DEF At, TypeOK
    <2>2. Cardinality(At(S) \cup {p}) = IF p \in At(S) THEN Cardinality(At(S))
                                                     ELSE Cardinality(At(S)) + 1
      BY <1>1, FS_AddElement
    <2> QED
      BY <2>1, <2>2, <1>1, <1>2, <1>3
  <1>4. CASE x \notin S
    <2>1. At(S)' = At(S) \ {p}
      BY <1>4 DEF At, TypeOK
    <2>2. Cardinality(At(S) \ {p}) = IF p \in At(S) THEN Cardinality(At(S)) - 1
                                                   ELSE Cardinality(At(S))
      BY <1>1, FS_RemoveElement
    <2> QED
      BY <2>1, <2>2, <1>1, <1>2, <1>4
  <1> QED
    BY <1>1, <1>3, <1>4

\* What the program points a client leaves and enters mean for a count.
Gain(S, x, y) == (IF x \in S THEN 1 ELSE 0) - (IF y \in S THEN 1 ELSE 0)

\* The arithmetic of every step.
LEMMA CountStep ==
    ASSUME TypeOK, CountInv, NEW p \in Clients, NEW x, pc' = [pc EXCEPT ![p] = x],
           connCount' \in Int, connCount' <= Size,
           activeCount' = activeCount + Gain(Busy, x, pc[p]),
           Cardinality(Idle') \in Int,
           connCount + (Cardinality(Idle') - Cardinality(Idle))
             + Gain(Held, x, pc[p]) + Gain(Opening, x, pc[p]) <= connCount'
    PROVE  CountInv'
  <1> DEFINE h == Gain(Held, x, pc[p])
             o == Gain(Opening, x, pc[p])
             b == Gain(Busy, x, pc[p])
             d == Cardinality(Idle') - Cardinality(Idle)
  <1>0. h \in Int /\ o \in Int /\ b \in Int
    BY DEF Gain
  <1>1. Cardinality(At(Held)) \in Nat /\ Cardinality(At(Held)') = Cardinality(At(Held)) + h
    BY AtStep DEF Gain
  <1>2. Cardinality(At(Opening)) \in Nat /\ Cardinality(At(Opening)') = Cardinality(At(Opening)) + o
    BY AtStep DEF Gain
  <1>3. Cardinality(At(Busy)) \in Nat /\ Cardinality(At(Busy)') = Cardinality(At(Busy)) + b
    BY AtStep DEF Gain
  <1>4. connCount \in Int /\ activeCount \in Int /\ Cardinality(Idle) \in Nat
    BY FiniteIdle DEF TypeOK
  <1>5. d \in Int /\ Cardinality(Idle') = Cardinality(Idle) + d
    BY <1>4
  <1>6. connCount + d + h + o <= connCount' /\ activeCount' = activeCount + b
    OBVIOUS
  <1> HIDE DEF h, o, b, d
  <1>7. Cardinality(Idle') + Cardinality(At(Held)') + Cardinality(At(Opening)') <= connCount'
    <2>1. Cardinality(Idle) + Cardinality(At(Held)) + Cardinality(At(Opening)) <= connCount
      BY DEF CountInv
    <2>2. (Cardinality(Idle) + Cardinality(At(Held)) + Cardinality(At(Opening))) + (d + h + o)
            <= connCount + d + h + o
      BY <2>1, <1>0, <1>1, <1>2, <1>4, <1>5
    <2> QED
      BY <2>2, <1>0, <1>1, <1>2, <1>4, <1>5, <1>6
  <1>8. activeCount' = Cardinality(At(Busy))'
    BY <1>3, <1>4, <1>6 DEF CountInv
  <1> QED
    BY <1>7, <1>8 DEF CountInv

\* The gains of all the moves a client makes.
LEMMA Gains ==
    /\ \A y \in {"idle", "ping"} :
          /\ Gain(Held, "ping", y) <= 1 /\ Gain(Held, "ping", y) \in Int
          /\ Gain(Opening, "ping", y) = 0 /\ Gain(Busy, "ping", y) = 0
          /\ Gain(Held, "open", y) <= 0 /\ Gain(Held, "open", y) \in Int
          /\ Gain(Opening, "open", y) = 1 /\ Gain(Busy, "open", y) = 1
          /\ Gain(Held, "nap", y) <= 0 /\ Gain(Held, "nap", y) \in Int
          /\ Gain(Opening, "nap", y) = 0 /\ Gain(Busy, "nap", y) = 0
    /\ Gain(Held, "using", "ping") = 0 /\ Gain(Opening, "using", "ping") = 0
    /\ Gain(Busy, "using", "ping") = 1
    /\ Gain(Held, "idle", "nap") = 0 /\ Gain(Opening, "idle", "nap") = 0
    /\ Gain(Busy, "idle", "nap") = 0
    /\ Gain(Held, "open", "nap") = 0 /\ Gain(Opening, "open", "nap") = 1
    /\ Gain(Busy, "open", "nap") = 1
    /\ Gain(Held, "idle", "open") = 0 /\ Gain(Opening, "idle", "open") = -1
    /\ Gain(Busy, "idle", "open") = -1
    /\ Gain(Held, "idle", "initsql") = -1 /\ Gain(Opening, "idle", "initsql") = 0
    /\ Gain(Busy, "idle", "initsql") = -1
    /\ Gain(Held, "using", "initsql") = 0 /\ Gain(Opening, "using", "initsql") = 0
    /\ Gain(Busy, "using", "initsql") = 0
    /\ Gain(Held, "idle", "using") = -1 /\ Gain(Opening, "idle", "using") = 0
    /\ Gain(Busy, "idle", "using") = -1
    /\ \A y \in {"initsql", "using"} :
          /\ Gain(Held, y, "open") = 1 /\ Gain(Opening, y, "open") = -1
          /\ Gain(Busy, y, "open") = 0
  BY DEF Gain, Held, Opening, Busy

\* A shifted connection moves from the idle ones to the held ones.
LEMMA TakeNextCount ==
    ASSUME IInv, CountInv, NEW p \in Clients, pc[p] \in {"idle", "ping"},
           NEW s \in Names, NEW keys \in Seq(Names), NEW from \in Nat,
           TakeNext(p, s, keys, from)
    PROVE  CountInv'
  <1>1. TypeOK /\ Distinct(queue) /\ connCount \in Int /\ activeCount \in Int
    BY DEF IInv, OneOwner, TypeOK
  <1>2. PICK c \in Idle : Idle' = Idle \ {c}
    BY <1>1, TakeNextFacts
  <1>3. Cardinality(Idle') = Cardinality(Idle) - 1 /\ Cardinality(Idle) \in Nat
    BY <1>2, FiniteIdle, FS_RemoveElement
  <1>4. pc' = [pc EXCEPT ![p] = "ping"] /\ connCount' = connCount /\ activeCount' = activeCount
    BY <1>1, TakeNextFacts
  <1>5. /\ Gain(Held, "ping", pc[p]) \in Int /\ Gain(Held, "ping", pc[p]) <= 1
        /\ Gain(Opening, "ping", pc[p]) = 0 /\ Gain(Busy, "ping", pc[p]) = 0
    BY Gains
  <1>6. connCount' \in Int /\ connCount' <= Size
    BY <1>1, <1>4 DEF CountInv
  <1>7. Cardinality(Idle') \in Int /\ Cardinality(Idle') - Cardinality(Idle) = -1
    BY <1>3
  <1>8. activeCount' = activeCount + Gain(Busy, "ping", pc[p])
    BY <1>1, <1>4, <1>5
  <1>9. connCount + (Cardinality(Idle') - Cardinality(Idle))
          + Gain(Held, "ping", pc[p]) + Gain(Opening, "ping", pc[p]) <= connCount'
    BY <1>1, <1>4, <1>5, <1>7
  <1> QED
    BY <1>1, <1>4, <1>6, <1>7, <1>8, <1>9, CountStep

\* A reservation raises both counts and stays within Size.
LEMMA CreateOrWaitCount ==
    ASSUME IInv, CountInv, NEW p \in Clients, pc[p] \in {"idle", "ping"},
           CreateOrWait(p), Idle' \subseteq Idle
    PROVE  CountInv'
  <1>1. TypeOK /\ connCount \in Int /\ activeCount \in Int /\ Size \in Nat
    BY ConstAssumption DEF IInv, TypeOK
  <1>2. Cardinality(Idle') \in Int /\ Cardinality(Idle') <= Cardinality(Idle) /\ Cardinality(Idle) \in Int
    BY FiniteIdle
  <1>3. CASE /\ connCount < Size /\ pc' = [pc EXCEPT ![p] = "open"]
             /\ connCount' = connCount + 1 /\ activeCount' = activeCount + 1
    <2>1. /\ connCount' \in Int /\ connCount' <= Size
          /\ activeCount' = activeCount + Gain(Busy, "open", pc[p])
          /\ connCount + (Cardinality(Idle') - Cardinality(Idle))
               + Gain(Held, "open", pc[p]) + Gain(Opening, "open", pc[p]) <= connCount'
      BY <1>1, <1>2, <1>3, Gains
    <2> QED
      BY <1>1, <1>2, <1>3, <2>1, CountStep
  <1>4. CASE /\ pc' = [pc EXCEPT ![p] = "nap"]
             /\ connCount' = connCount /\ activeCount' = activeCount
    <2>1. /\ connCount' \in Int /\ connCount' <= Size
          /\ activeCount' = activeCount + Gain(Busy, "nap", pc[p])
          /\ connCount + (Cardinality(Idle') - Cardinality(Idle))
               + Gain(Held, "nap", pc[p]) + Gain(Opening, "nap", pc[p]) <= connCount'
      BY <1>1, <1>2, <1>4, Gains DEF CountInv
    <2> QED
      BY <1>1, <1>2, <1>4, <2>1, CountStep
  <1> QED
    BY <1>1, <1>3, <1>4, CreateOrWaitFacts

\* A walk over the queues preserves the counts, hit or miss.
LEMMA WalkCount ==
    ASSUME IInv, CountInv, NEW p \in Clients, pc[p] \in {"idle", "ping"},
           NEW s \in Names, NEW keys \in Seq(Names), NEW from \in Nat,
           TakeNext(p, s, keys, from) \/ Miss(p, s, keys, from)
    PROVE  CountInv'
  <1>1. CASE TakeNext(p, s, keys, from)
    BY <1>1, TakeNextCount
  <1>2. CASE Miss(p, s, keys, from)
    <2>1. CreateOrWait(p) /\ Idle' = Idle
      BY <1>2, StillIdle DEF Miss
    <2> QED
      BY <2>1, CreateOrWaitCount
  <1> QED
    BY <1>1, <1>2

\* A request preserves the counts.
LEMMA BeginCount ==
    ASSUME IInv, CountInv, NEW p \in Clients, NEW s \in Schemas, Begin(p, s)
    PROVE  CountInv'
  <1>1. /\ s \in Names /\ pc[p] \in {"idle", "ping"} /\ 0 \in Nat
        /\ Registered(s) \in Seq(Names)
    BY RegisteredType DEF Names, Begin, IInv
  <1>2. CASE checkAlive
    BY <1>1, <1>2, WalkCount DEF Begin
  <1>3. CASE ~checkAlive
    <2>1. CreateOrWait(p) /\ queue' = [n \in Names |-> <<>>]
      BY <1>3 DEF Begin, DropAll
    <2>2. Idle' \subseteq Idle
      BY <2>1 DEF Idle, IdleIn
    <2> QED
      BY <1>1, <2>1, <2>2, CreateOrWaitCount
  <1> QED
    BY <1>2, <1>3

\* So does a failed ping,
LEMMA PingFailCount ==
    ASSUME IInv, CountInv, NEW p \in Clients, PingFail(p)
    PROVE  CountInv'
  <1>1. /\ pc[p] \in {"idle", "ping"} /\ want[p] \in Names
        /\ order \in Seq(Names) /\ at[p] \in Nat
        /\ TakeNext(p, want[p], order, at[p]) \/ Miss(p, want[p], order, at[p])
    BY DEF PingFail, IInv, TypeOK
  <1> QED
    BY <1>1, WalkCount

\* CountStep for the steps that leave the queues alone.
LEMMA CountStepStillIdle ==
    ASSUME IInv, CountInv, NEW p \in Clients, NEW x, pc' = [pc EXCEPT ![p] = x],
           queue' = queue, connCount' \in Int, connCount' <= Size,
           Gain(Held, x, pc[p]) \in Int, Gain(Opening, x, pc[p]) \in Int,
           connCount' = connCount + (Gain(Held, x, pc[p]) + Gain(Opening, x, pc[p])),
           activeCount' = activeCount + Gain(Busy, x, pc[p])
    PROVE  CountInv'
  <1>1. TypeOK /\ connCount \in Int /\ activeCount \in Int
    BY DEF IInv, TypeOK
  <1>2. Idle' = Idle /\ Cardinality(Idle) \in Int
    BY StillIdle, FiniteIdle
  <1>3. Cardinality(Idle') \in Int /\ Cardinality(Idle') - Cardinality(Idle) = 0
    BY <1>2
  <1>4. connCount + (Cardinality(Idle') - Cardinality(Idle))
          + Gain(Held, x, pc[p]) + Gain(Opening, x, pc[p]) <= connCount'
    BY <1>1, <1>3
  <1> QED
    BY <1>1, <1>3, <1>4, CountStep

\* a ping that succeeds,
LEMMA PingOkCount ==
    ASSUME IInv, CountInv, NEW p \in Clients, PingOk(p)
    PROVE  CountInv'
  <1>1. /\ pc[p] = "ping" /\ pc' = [pc EXCEPT ![p] = "using"] /\ queue' = queue
        /\ connCount' = connCount + 0 /\ connCount' <= Size /\ activeCount' = activeCount + 1
    BY DEF PingOk, CountInv, IInv, TypeOK
  <1>2. /\ connCount' \in Int
      /\ Gain(Held, "using", pc[p]) \in Int /\ Gain(Opening, "using", pc[p]) \in Int
      /\ connCount' = connCount + (Gain(Held, "using", pc[p]) + Gain(Opening, "using", pc[p]))
      /\ activeCount' = activeCount + Gain(Busy, "using", pc[p])
    BY <1>1, Gains DEF IInv, TypeOK
  <1> QED
    BY <1>1, <1>2, CountStepStillIdle

\* a nap,
LEMMA NapCount ==
    ASSUME IInv, CountInv, NEW p \in Clients, Nap(p)
    PROVE  CountInv'
  <1>1. pc[p] = "nap" /\ queue' = queue /\ connCount \in Int /\ activeCount \in Int /\ Size \in Nat
    BY ConstAssumption DEF Nap, IInv, TypeOK
  <1>2. CASE Leave(p) /\ UNCHANGED <<connCount, activeCount>>
    <2>1. /\ pc' = [pc EXCEPT ![p] = "idle"]
          /\ connCount' = connCount + 0 /\ connCount' <= Size /\ activeCount' = activeCount + 0
      BY <1>1, <1>2 DEF Leave, CountInv
    <2>2. /\ connCount' \in Int
        /\ Gain(Held, "idle", pc[p]) \in Int /\ Gain(Opening, "idle", pc[p]) \in Int
        /\ connCount' = connCount + (Gain(Held, "idle", pc[p]) + Gain(Opening, "idle", pc[p]))
        /\ activeCount' = activeCount + Gain(Busy, "idle", pc[p])
      BY <1>1, <2>1, Gains DEF IInv, TypeOK
    <2> QED
      BY <1>1, <2>1, <2>2, CountStepStillIdle
  <1>3. CASE UNCHANGED <<pc, connCount, activeCount>>
    <2>1. Idle' = Idle
      BY <1>1, StillIdle
    <2> QED
      BY <1>3, <2>1 DEF CountInv, At
  <1>4. CASE connCount < Size /\ Reserve(p)
    <2>1. /\ pc' = [pc EXCEPT ![p] = "open"]
          /\ connCount' = connCount + 1 /\ connCount' <= Size /\ activeCount' = activeCount + 1
      BY <1>1, <1>4 DEF Reserve
    <2>2. /\ connCount' \in Int
        /\ Gain(Held, "open", pc[p]) \in Int /\ Gain(Opening, "open", pc[p]) \in Int
        /\ connCount' = connCount + (Gain(Held, "open", pc[p]) + Gain(Opening, "open", pc[p]))
        /\ activeCount' = activeCount + Gain(Busy, "open", pc[p])
      <3>1. connCount \in Int /\ activeCount \in Int
        BY DEF IInv, TypeOK
      <3> QED
        BY <1>1, <2>1, <3>1, Gains
    <2> QED
      BY <1>1, <2>1, <2>2, CountStepStillIdle
  <1> QED
    BY <1>2, <1>3, <1>4 DEF Nap

\* an open that succeeds,
LEMMA OpenOkCount ==
    ASSUME IInv, CountInv, NEW p \in Clients, OpenOk(p)
    PROVE  CountInv'
  <1>1. PICK x \in {"initsql", "using"} : pc' = [pc EXCEPT ![p] = x]
    BY DEF OpenOk
  <1>2. /\ pc[p] = "open" /\ queue' = queue
        /\ connCount' = connCount + 0 /\ connCount' <= Size /\ activeCount' = activeCount + 0
    BY DEF OpenOk, pool, CountInv, IInv, TypeOK
  <1>3. /\ connCount' \in Int
      /\ Gain(Held, x, pc[p]) \in Int /\ Gain(Opening, x, pc[p]) \in Int
      /\ connCount' = connCount + (Gain(Held, x, pc[p]) + Gain(Opening, x, pc[p]))
      /\ activeCount' = activeCount + Gain(Busy, x, pc[p])
    <2>1. connCount \in Int /\ activeCount \in Int
      BY DEF IInv, TypeOK
    <2>2. CASE x = "initsql"
      BY <1>2, <2>1, <2>2, Gains
    <2>3. CASE x = "using"
      BY <1>2, <2>1, <2>3, Gains
    <2> QED
      BY <1>1, <2>2, <2>3
  <1> QED
    BY <1>1, <1>2, <1>3, CountStepStillIdle

\* a failure that gives the slot back,
LEMMA GiveUpCount ==
    ASSUME IInv, CountInv, NEW p \in Clients, pc[p] \in {"open", "initsql"}, GiveUp(p)
    PROVE  CountInv'
  <1>1. /\ pc' = [pc EXCEPT ![p] = "idle"] /\ queue' = queue
        /\ connCount' = connCount + (-1) /\ connCount' <= Size /\ activeCount' = activeCount + (-1)
    BY ConstAssumption DEF GiveUp, Leave, CountInv, IInv, TypeOK
  <1>2. /\ connCount' \in Int
      /\ Gain(Held, "idle", pc[p]) \in Int /\ Gain(Opening, "idle", pc[p]) \in Int
      /\ connCount' = connCount + (Gain(Held, "idle", pc[p]) + Gain(Opening, "idle", pc[p]))
      /\ activeCount' = activeCount + Gain(Busy, "idle", pc[p])
    <2>1. connCount \in Int /\ activeCount \in Int
      BY DEF IInv, TypeOK
    <2> QED
      BY <1>1, <2>1, Gains
  <1> QED
    BY <1>1, <1>2, CountStepStillIdle

\* an init SQL that succeeds,
LEMMA InitSqlOkCount ==
    ASSUME IInv, CountInv, NEW p \in Clients, InitSqlOk(p)
    PROVE  CountInv'
  <1>1. /\ pc[p] = "initsql" /\ pc' = [pc EXCEPT ![p] = "using"] /\ queue' = queue
        /\ connCount' = connCount + 0 /\ connCount' <= Size /\ activeCount' = activeCount + 0
    BY DEF InitSqlOk, pool, CountInv, IInv, TypeOK
  <1>2. /\ connCount' \in Int
      /\ Gain(Held, "using", pc[p]) \in Int /\ Gain(Opening, "using", pc[p]) \in Int
      /\ connCount' = connCount + (Gain(Held, "using", pc[p]) + Gain(Opening, "using", pc[p]))
      /\ activeCount' = activeCount + Gain(Busy, "using", pc[p])
    BY <1>1, Gains DEF IInv, TypeOK
  <1> QED
    BY <1>1, <1>2, CountStepStillIdle

\* and a release, which moves one connection from held to idle.
LEMMA ReleaseCount ==
    ASSUME IInv, CountInv, NEW p \in Clients, Release(p)
    PROVE  CountInv'
  <1>1. /\ pc[p] = "using" /\ pc' = [pc EXCEPT ![p] = "idle"]
        /\ connCount' = connCount /\ activeCount' = activeCount - 1
        /\ queue' = [queue EXCEPT ![back[cand[p]].schema] = Append(@, cand[p])]
    BY DEF Release, Leave
  <1>2. TypeOK /\ connCount \in Int /\ activeCount \in Int
    BY DEF IInv, TypeOK
  <1>3. p \in Holders
    BY <1>1 DEF Holders
  <1>4. cand[p] \in Conns /\ cand[p] \notin Idle
    BY <1>3 DEF IInv, HeldIsOpen, OneOwner
  <1>5. back[cand[p]].schema \in Names
    <2>1. back[cand[p]] \in BackType
      BY <1>2, <1>4 DEF TypeOK
    <2> QED
      BY <2>1 DEF BackType
  <1>6. Idle' = Idle \cup {cand[p]}
    BY <1>1, <1>2, <1>4, <1>5, PushLast DEF Idle, TypeOK, IInv, OneOwner
  <1>7. Cardinality(Idle \cup {cand[p]}) = Cardinality(Idle) + 1 /\ Cardinality(Idle) \in Nat
    BY <1>4, FiniteIdle, FS_AddElement
  <1>8. Cardinality(Idle') \in Int /\ Cardinality(Idle') - Cardinality(Idle) = 1
    BY <1>6, <1>7
  <1>9. /\ Gain(Held, "idle", pc[p]) = -1 /\ Gain(Opening, "idle", pc[p]) = 0
        /\ Gain(Busy, "idle", pc[p]) = -1
    BY <1>1, Gains
  <1>10. connCount' \in Int /\ connCount' <= Size
    BY <1>1, <1>2 DEF CountInv
  <1>11. activeCount' = activeCount + Gain(Busy, "idle", pc[p])
    BY <1>1, <1>2, <1>9
  <1>12. connCount + (Cardinality(Idle') - Cardinality(Idle))
          + Gain(Held, "idle", pc[p]) + Gain(Opening, "idle", pc[p]) <= connCount'
    BY <1>1, <1>2, <1>8, <1>9
  <1> QED
    BY <1>1, <1>2, <1>8, <1>10, <1>11, <1>12, CountStep

\* The empty pool counts nothing.
LEMMA InitCount ==
    ASSUME Init
    PROVE  CountInv
  <1>1. Idle = {} /\ At(Held) = {} /\ At(Opening) = {} /\ At(Busy) = {}
    BY DEF Init, Idle, IdleIn, At, Held, Opening, Busy
  <1> QED
    BY <1>1, FS_EmptySet, ConstAssumption DEF Init, CountInv

\* Every step preserves the counts.
LEMMA NextCount ==
    ASSUME IInv, CountInv, [Next]_vars
    PROVE  CountInv'
  <1>1. CASE UNCHANGED <<pc, queue, connCount, activeCount>>
    BY <1>1 DEF CountInv, At, Idle
  <1>2. CASE Next
    <2>1. ASSUME NEW p \in Clients, NEW s \in Schemas, Begin(p, s)
          PROVE  CountInv'
      BY <2>1, BeginCount
    <2>2. ASSUME NEW p \in Clients,
                 PingEnds(p) \/ Nap(p) \/ OpenEnds(p) \/ InitSqlEnds(p) \/ Release(p)
          PROVE  CountInv'
      BY <2>2, PingOkCount, PingFailCount, NapCount, OpenOkCount, GiveUpCount,
         InitSqlOkCount, ReleaseCount
         DEF PingEnds, OpenEnds, OpenFail, InitSqlEnds, InitSqlFail
    <2>3. ASSUME NEW c \in Conns, LinkDrop(c)
          PROVE  CountInv'
      BY <2>3, <1>1 DEF LinkDrop, client, pool
    <2> QED
      BY <1>2, <2>1, <2>2, <2>3 DEF Next
  <1> QED
    BY <1>1, <1>2 DEF vars, client, pool

\* maxCon bounds the connections queued, pinged and used and the opens under
\* way: every path of getConnection that adds one has reserved a slot first.
THEOREM PoolStaysWithinMaxCon == Spec => []WithinMaxCon
  <1>1. IInv /\ CountInv => WithinMaxCon
    BY CountInvMeaning
  <1> QED
    BY <1>1, InitCount, NextCount, IInvAlways, PTL DEF Spec

\* activeCount is exact on every path out of getConnection and releaseConn.
THEOREM ActiveCountIsExact == Spec => []ActiveMatches
  <1>1. IInv /\ CountInv => ActiveMatches
    BY CountInvMeaning
  <1> QED
    BY <1>1, InitCount, NextCount, IInvAlways, PTL DEF Spec

-----------------------------------------------------------------------------
\* Every queue that holds a connection is a key of the map of queues, so the
\* walk over the keys meets it.
QueuesKnown ==
    \A n \in Names : queue[n] # <<>> => \E i \in 1..Len(order) : order[i] = n

\* getConnQueue keeps the keys and adds the one that was asked for.
LEMMA RegisteredKnows ==
    ASSUME TypeOK, NEW s \in Names
    PROVE  /\ \E i \in 1..Len(Registered(s)) : Registered(s)[i] = s
           /\ \A n \in Names : (\E i \in 1..Len(order) : order[i] = n) =>
                  \E i \in 1..Len(Registered(s)) : Registered(s)[i] = n
  <1>1. order \in Seq(Names) /\ Len(order) \in Nat
    BY DEF TypeOK
  <1>2. CASE \E i \in 1..Len(order) : order[i] = s
    BY <1>2 DEF Registered
  <1>3. CASE ~\E i \in 1..Len(order) : order[i] = s
    <2>1. Registered(s) = Append(order, s)
      BY <1>3 DEF Registered
    <2>2. /\ Len(Append(order, s)) = Len(order) + 1
          /\ Append(order, s)[Len(order) + 1] = s
          /\ \A i \in 1..Len(order) : Append(order, s)[i] = order[i]
      BY <1>1
    <2>3. Len(order) + 1 \in 1..Len(Append(order, s))
      BY <1>1, <2>2
    <2>4. \A i \in 1..Len(order) : i \in 1..Len(Append(order, s))
      BY <1>1, <2>2
    <2> QED
      BY <2>1, <2>2, <2>3, <2>4
  <1> QED
    BY <1>2, <1>3

\* A walk that starts at its own queue and misses has seen every queue.
LEMMA NoHitsNoIdle ==
    ASSUME TypeOK, QueuesKnown, NEW s \in Names, Hits(s, Registered(s), 0) = {}
    PROVE  Idle = {}
  <1> DEFINE keys == Registered(s)
  <1>1. keys \in Seq(Names) /\ Len(keys) \in Nat
    BY RegisteredType
  <1>2. ASSUME NEW n \in Names, queue[n] # <<>>
        PROVE  FALSE
    <2>1. CASE n = s
      BY <1>1, <1>2, <2>1 DEF Hits, NameAt
    <2>2. CASE n # s
      <3>1. PICK i \in 1..Len(keys) : keys[i] = n
        BY <1>2, RegisteredKnows DEF QueuesKnown
      <3>2. i \in 0..Len(keys) /\ i # 0
        BY <1>1, <3>1
      <3> HIDE DEF keys
      <3>3. i \in Hits(s, keys, 0)
        BY <1>2, <2>2, <3>1, <3>2 DEF Hits, NameAt
      <3> QED
        BY <3>3 DEF keys
    <2> QED
      BY <2>1, <2>2
  <1>3. \A n \in Names : 1..Len(queue[n]) = {}
    BY <1>2
  <1> QED
    BY <1>3 DEF Idle, IdleIn

\* Shifting from the queues and keeping the keys leaves every queue known.
LEMMA ShiftKeepsKnown ==
    ASSUME TypeOK, QueuesKnown, NEW p \in Clients, NEW s \in Names,
           NEW keys \in Seq(Names), NEW from \in Nat,
           TakeNext(p, s, keys, from) \/ Miss(p, s, keys, from),
           \A n \in Names : (\E i \in 1..Len(order) : order[i] = n) =>
               \E i \in 1..Len(order') : order'[i] = n
    PROVE  QueuesKnown'
  <1>1. queue \in [Names -> Seq(Conns)]
    BY DEF TypeOK
  <1>2. ASSUME NEW n \in Names, queue'[n] # <<>>
        PROVE  queue[n] # <<>>
    <2>1. CASE Miss(p, s, keys, from)
      BY <1>2, <2>1 DEF Miss
    <2>2. CASE TakeNext(p, s, keys, from)
      <3>1. PICK i \in Hits(s, keys, from) :
                queue' = [queue EXCEPT ![NameAt(s, keys, i)] = Tail(@)]
        BY <2>2 DEF TakeNext
      <3>2. queue[NameAt(s, keys, i)] # <<>>
        BY <3>1 DEF Hits
      <3> QED
        BY <1>1, <1>2, <3>1, <3>2
    <2> QED
      BY <2>1, <2>2
  <1> QED
    BY <1>2 DEF QueuesKnown

LEMMA NextKeepsKnown ==
    ASSUME IInv, QueuesKnown, [Next]_vars
    PROVE  QueuesKnown'
  <1>1. TypeOK /\ order \in Seq(Names) /\ queue \in [Names -> Seq(Conns)]
    BY DEF IInv, TypeOK
  <1>2. CASE UNCHANGED <<queue, order>>
    BY <1>2 DEF QueuesKnown
  <1>3. ASSUME NEW p \in Clients, NEW s \in Schemas, Begin(p, s)
        PROVE  QueuesKnown'
    <2>1. s \in Names /\ order' = Registered(s)
      BY <1>3 DEF Begin, Names
    <2>2. CASE checkAlive
      <3>1. Registered(s) \in Seq(Names) /\ 0 \in Nat
        BY <1>1, <2>1, RegisteredType
      <3>2. \A n \in Names : (\E i \in 1..Len(order) : order[i] = n) =>
                \E i \in 1..Len(order') : order'[i] = n
        <4>1. \A n \in Names : (\E i \in 1..Len(order) : order[i] = n) =>
                  \E i \in 1..Len(Registered(s)) : Registered(s)[i] = n
          BY <1>1, <2>1, RegisteredKnows
        <4> QED
          BY <2>1, <4>1
      <3>3. TakeNext(p, s, Registered(s), 0) \/ Miss(p, s, Registered(s), 0)
        BY <1>3, <2>2 DEF Begin
      <3> QED
        BY <1>1, <2>1, <3>1, <3>2, <3>3, ShiftKeepsKnown
    <2>3. CASE ~checkAlive
      BY <1>3, <2>3 DEF Begin, DropAll, QueuesKnown
    <2> QED
      BY <2>2, <2>3
  <1>4. ASSUME NEW p \in Clients, PingFail(p)
        PROVE  QueuesKnown'
    <2>1. want[p] \in Names /\ at[p] \in Nat /\ order' = order
      BY <1>1, <1>4 DEF TypeOK, PingFail
    <2> QED
      BY <1>1, <1>4, <2>1, ShiftKeepsKnown DEF PingFail
  <1>5. ASSUME NEW p \in Clients,
               PingOk(p) \/ Nap(p) \/ OpenEnds(p) \/ InitSqlEnds(p)
        PROVE  QueuesKnown'
    BY <1>2, <1>5 DEF PingOk, Nap, OpenEnds, OpenOk, OpenFail, InitSqlEnds, InitSqlOk,
                      InitSqlFail, GiveUp, pool
  <1>6. ASSUME NEW p \in Clients, Release(p)
        PROVE  QueuesKnown'
    <2> DEFINE n == back[cand[p]].schema
    <2>1. cand[p] \in Conns
      BY <1>6 DEF Release, Holders, IInv, HeldIsOpen
    <2>2. n \in Names
      BY <1>1, <2>1 DEF TypeOK, BackType
    <2>3. order' = Registered(n) /\ queue' = [queue EXCEPT ![n] = Append(@, cand[p])]
      BY <1>6 DEF Release
    <2> HIDE DEF n
    <2>4. \A m \in Names \ {n} : queue'[m] = queue[m]
      BY <1>1, <2>3
    <2>5. /\ \E i \in 1..Len(order') : order'[i] = n
          /\ \A m \in Names : (\E i \in 1..Len(order) : order[i] = m) =>
                 \E i \in 1..Len(order') : order'[i] = m
      <3>1. /\ \E i \in 1..Len(Registered(n)) : Registered(n)[i] = n
            /\ \A m \in Names : (\E i \in 1..Len(order) : order[i] = m) =>
                   \E i \in 1..Len(Registered(n)) : Registered(n)[i] = m
        BY <1>1, <2>2, RegisteredKnows
      <3> QED
        BY <2>3, <3>1
    <2> QED
      BY <2>4, <2>5 DEF QueuesKnown
  <1>7. ASSUME NEW c \in Conns, LinkDrop(c)
        PROVE  QueuesKnown'
    BY <1>2, <1>7 DEF LinkDrop, pool
  <1> QED
    BY <1>2, <1>3, <1>4, <1>5, <1>6, <1>7 DEF Next, PingEnds, vars, pool

\* c lies in the queue of n.
Lies(qs, c, n) == \E i \in 1..Len(qs[n]) : qs[n][i] = c

\* The walk of p has still to come by the queue in which c lies.
Ahead(p, c) ==
    \E j \in at[p]..Len(order) :
        /\ j # 0 => order[j] # want[p]
        /\ Lies(queue, c, NameAt(want[p], order, j))

UnseenAhead == \A p \in Clients : pc[p] = "ping" => \A c \in unseen[p] : Ahead(p, c)

\* getConnQueue leaves the keys where they are.
LEMMA RegisteredExtends ==
    ASSUME TypeOK, NEW s \in Names
    PROVE  /\ Len(order) \in Nat /\ Len(Registered(s)) \in Nat
           /\ Len(order) <= Len(Registered(s))
           /\ \A i \in 1..Len(order) : Registered(s)[i] = order[i]
  BY DEF TypeOK, Registered

\* The walk stops at the first queue that holds something, so what lies in a
\* queue from its place on still lies ahead.
LEMMA TakeNextAhead ==
    ASSUME TypeOK, NEW p \in Clients, NEW s \in Names, NEW keys \in Seq(Names),
           NEW from \in Nat, TakeNext(p, s, keys, from), order' = keys, want'[p] = s,
           NEW c, NEW j \in from..Len(keys), j # 0 => keys[j] # s,
           Lies(queue, c, NameAt(s, keys, j)), Lies(queue', c, NameAt(s, keys, j))
    PROVE  Ahead(p, c)'
  <1>1. j \in Hits(s, keys, from)
    BY DEF Lies, Hits
  <1>2. PICK i \in Hits(s, keys, from) : i <= j /\ at' = [at EXCEPT ![p] = i]
    BY <1>1 DEF TakeNext
  <1>3. at'[p] = i /\ i \in Nat /\ j \in i..Len(keys)
    BY <1>2 DEF Hits, TypeOK
  <1> QED
    BY <1>3 DEF Ahead, NameAt

\* A walk takes connections from queues and puts none there, and what is
\* still queued afterwards lies where it lay.
LEMMA WalkLeaves ==
    ASSUME TypeOK, Distinct(queue), NEW p \in Clients, NEW s \in Names,
           NEW keys \in Seq(Names), NEW from \in Nat, TakeNext(p, s, keys, from)
    PROVE  \A c \in Conns, n \in Names :
              /\ Lies(queue', c, n) => Lies(queue, c, n)
              /\ c \in Idle' /\ Lies(queue, c, n) => Lies(queue', c, n)
  <1>1. PICK k \in Names : queue[k] # <<>> /\ queue' = [queue EXCEPT ![k] = Tail(@)]
    <2>1. PICK i \in Hits(s, keys, from) : queue' = [queue EXCEPT ![NameAt(s, keys, i)] = Tail(@)]
      BY DEF TakeNext
    <2>2. queue[NameAt(s, keys, i)] # <<>> /\ i \in from..Len(keys)
      BY <2>1 DEF Hits
    <2>3. NameAt(s, keys, i) \in Names
      BY <2>2 DEF NameAt
    <2> QED
      BY <2>1, <2>2, <2>3
  <1>2. queue \in [Names -> Seq(Conns)]
    BY DEF TypeOK
  <1>3. ASSUME NEW c \in Conns, NEW n \in Names, Lies(queue', c, n)
        PROVE  Lies(queue, c, n)
    <2>1. CASE n # k
      BY <1>1, <1>2, <1>3, <2>1 DEF Lies
    <2>2. CASE n = k
      <3>1. queue'[n] = Tail(queue[n]) /\ queue[n] \in Seq(Conns) /\ queue[n] # <<>>
        BY <1>1, <1>2, <2>2
      <3>2. PICK i \in 1..Len(Tail(queue[n])) : Tail(queue[n])[i] = c
        BY <1>3, <3>1 DEF Lies
      <3>3. i + 1 \in 1..Len(queue[n]) /\ queue[n][i + 1] = c
        BY <3>1, <3>2
      <3> QED
        BY <3>3 DEF Lies
    <2> QED
      BY <2>1, <2>2
  <1>4. ASSUME NEW c \in Conns, NEW n \in Names, c \in Idle', Lies(queue, c, n)
        PROVE  Lies(queue', c, n)
    <2>1. PICK m \in Names : Lies(queue', c, m)
      BY <1>4 DEF Idle, IdleIn, Lies
    <2>2. Lies(queue, c, m)
      BY <1>3, <2>1
    <2>3. m = n
      BY <1>4, <2>2 DEF Lies, Distinct
    <2> QED
      BY <2>1, <2>3
  <1> QED
    BY <1>3, <1>4

\* What lies ahead of a walk stays ahead of it while others register queues,
\* push connections and shift other ones.
LEMMA AheadStays ==
    ASSUME TypeOK, NEW q \in Clients, NEW c,
           at'[q] = at[q], want'[q] = want[q], order' \in Seq(Names),
           Len(order) <= Len(order'), \A i \in 1..Len(order) : order'[i] = order[i],
           \A n \in Names : Lies(queue, c, n) => Lies(queue', c, n),
           Ahead(q, c)
    PROVE  Ahead(q, c)'
  <1>1. PICK j \in at[q]..Len(order) :
            (j # 0 => order[j] # want[q]) /\ Lies(queue, c, NameAt(want[q], order, j))
    BY DEF Ahead
  <1>2. /\ at[q] \in Nat /\ want[q] \in Names /\ order \in Seq(Names)
        /\ Len(order) \in Nat /\ Len(order') \in Nat
    BY DEF TypeOK
  <1>3. j \in at'[q]..Len(order') /\ (j # 0 => order'[j] = order[j])
    BY <1>1, <1>2
  <1>4. NameAt(want'[q], order', j) = NameAt(want[q], order, j) /\ NameAt(want[q], order, j) \in Names
    BY <1>1, <1>2, <1>3 DEF NameAt
  <1> QED
    BY <1>1, <1>3, <1>4 DEF Ahead

\* Steps in which no walk moves: they keep what lies ahead of every walk.
LEMMA NobodyWalks ==
    ASSUME TypeOK, UnseenAhead, order' \in Seq(Names), Len(order) <= Len(order'),
           \A i \in 1..Len(order) : order'[i] = order[i],
           \A c \in Conns, n \in Names : Lies(queue, c, n) => Lies(queue', c, n),
           \A q \in Clients : pc'[q] = "ping" =>
              pc[q] = "ping" /\ at'[q] = at[q] /\ want'[q] = want[q] /\ unseen'[q] = unseen[q]
    PROVE  UnseenAhead'
  <1> SUFFICES ASSUME NEW q \in Clients, pc'[q] = "ping", NEW c \in unseen'[q]
               PROVE  Ahead(q, c)'
    BY DEF UnseenAhead
  <1>1. /\ pc[q] = "ping" /\ at'[q] = at[q] /\ want'[q] = want[q]
        /\ c \in unseen[q] /\ c \in Conns
    BY DEF TypeOK
  <1>2. Ahead(q, c)
    BY <1>1 DEF UnseenAhead
  <1> QED
    BY <1>1, <1>2, AheadStays

\* A walk that moves on to a connection, its own and the others' account.
LEMMA WalkAhead ==
    ASSUME IInv, UnseenAhead, ReusesBeforeOpening, NEW p \in Clients, NEW s \in Names,
           NEW keys \in Seq(Names), NEW from \in Nat, TakeNext(p, s, keys, from),
           order' = keys, want'[p] = s, \A q \in Clients : q # p => want'[q] = want[q],
           Len(order) <= Len(keys), \A i \in 1..Len(order) : keys[i] = order[i],
           \A q \in Clients : q # p => unseen'[q] = unseen[q] \cap Idle',
           unseen'[p] \subseteq Idle',
           \A c \in unseen'[p] : \E j \in from..Len(keys) :
              (j # 0 => keys[j] # s) /\ Lies(queue, c, NameAt(s, keys, j))
    PROVE  UnseenAhead' /\ ReusesBeforeOpening'
  <1>1. TypeOK /\ Distinct(queue) /\ Idle' \subseteq Conns
    BY DEF IInv, OneOwner, Idle, IdleIn
  <1>2. /\ pc'[p] = "ping"
        /\ \A q \in Clients : q # p => pc'[q] = pc[q] /\ at'[q] = at[q]
    BY <1>1 DEF TakeNext, TypeOK
  <1>3. \A c \in Idle', n \in Names : Lies(queue, c, n) => Lies(queue', c, n)
    BY <1>1, WalkLeaves
  <1>4. ASSUME NEW c \in unseen'[p]
        PROVE  Ahead(p, c)'
    <2>1. PICK j \in from..Len(keys) :
              (j # 0 => keys[j] # s) /\ Lies(queue, c, NameAt(s, keys, j))
      BY <1>4
    <2>2. NameAt(s, keys, j) \in Names
      BY <2>1 DEF NameAt
    <2>3. Lies(queue', c, NameAt(s, keys, j))
      BY <1>3, <2>1, <2>2
    <2> QED
      BY <1>1, <2>1, <2>3, TakeNextAhead
  <1>5. ASSUME NEW q \in Clients, q # p, pc'[q] = "ping", NEW c \in unseen'[q]
        PROVE  Ahead(q, c)'
    <2>1. c \in unseen[q] /\ c \in Idle' /\ pc[q] = "ping"
      BY <1>2, <1>5
    <2>2. Ahead(q, c)
      BY <2>1 DEF UnseenAhead
    <2>3. \A n \in Names : Lies(queue, c, n) => Lies(queue', c, n)
      BY <1>3, <2>1
    <2> QED
      BY <1>1, <1>2, <1>5, <2>2, <2>3, AheadStays
  <1>6. ReusesBeforeOpening'
    BY <1>2 DEF ReusesBeforeOpening
  <1> QED
    BY <1>2, <1>4, <1>5, <1>6 DEF UnseenAhead

\* A lookup that begins starts its account with what is then idle.
LEMMA BeginAhead ==
    ASSUME IInv, QueuesKnown, UnseenAhead, ReusesBeforeOpening,
           NEW p \in Clients, NEW s \in Schemas, Begin(p, s)
    PROVE  UnseenAhead' /\ ReusesBeforeOpening'
  <1> DEFINE keys == Registered(s)
  <1>1. TypeOK /\ Distinct(queue) /\ s \in Names
    BY DEF IInv, OneOwner, Names
  <1>2. /\ order' = keys /\ keys \in Seq(Names) /\ Len(keys) \in Nat
        /\ want' = [want EXCEPT ![p] = s]
        /\ unseen' = [q \in Clients |-> IF q = p THEN Idle' ELSE unseen[q] \cap Idle']
    BY <1>1, RegisteredType DEF Begin
  <1>3. CASE Idle' = {}
    <2>1. \A q \in Clients : unseen'[q] = {}
      BY <1>2, <1>3
    <2> QED
      BY <2>1 DEF UnseenAhead, ReusesBeforeOpening
  <1>4. CASE TakeNext(p, s, keys, 0)
    <2>1. ASSUME NEW c \in unseen'[p]
          PROVE  \E j \in 0..Len(keys) :
                    (j # 0 => keys[j] # s) /\ Lies(queue, c, NameAt(s, keys, j))
      <3>1. c \in Idle' /\ c \in Conns
        BY <1>2, <2>1 DEF Idle, IdleIn
      <3>2. PICK n \in Names : Lies(queue', c, n)
        BY <3>1 DEF Idle, IdleIn, Lies
      <3>3. Lies(queue, c, n)
        BY <1>1, <1>2, <1>4, <3>1, <3>2, WalkLeaves
      <3>4. CASE n = s
        BY <1>2, <3>3, <3>4 DEF NameAt
      <3>5. CASE n # s
        <4>1. \E i \in 1..Len(order) : order[i] = n
          BY <3>3 DEF QueuesKnown, Lies
        <4>2. PICK i \in 1..Len(keys) : keys[i] = n
          BY <1>1, <4>1, RegisteredKnows
        <4>3. i \in 0..Len(keys) /\ i # 0 /\ NameAt(s, keys, i) = n
          BY <1>2, <4>2 DEF NameAt
        <4> QED
          BY <3>3, <3>5, <4>2, <4>3
      <3> QED
        BY <3>4, <3>5
    <2>2. Len(order) <= Len(keys) /\ \A i \in 1..Len(order) : keys[i] = order[i]
      BY <1>1, RegisteredExtends
    <2>3. want'[p] = s /\ \A q \in Clients : q # p => want'[q] = want[q]
      BY <1>1, <1>2 DEF TypeOK
    <2>4. unseen'[p] = Idle' /\ \A q \in Clients : q # p => unseen'[q] = unseen[q] \cap Idle'
      BY <1>2
    <2> HIDE DEF keys
    <2> QED
      BY <1>1, <1>2, <1>4, <2>1, <2>2, <2>3, <2>4, WalkAhead
  <1>5. CASE Miss(p, s, keys, 0)
    <2>1. Idle = {} /\ queue' = queue
      BY <1>1, <1>5, NoHitsNoIdle DEF Miss
    <2> QED
      BY <1>3, <2>1 DEF Idle
  <1>6. CASE ~checkAlive
    <2>1. queue' = [n \in Names |-> <<>>]
      BY <1>6 DEF Begin, DropAll
    <2> QED
      BY <1>3, <2>1 DEF Idle, IdleIn
  <1> QED
    BY <1>4, <1>5, <1>6 DEF Begin

\* After a failed ping the walk goes on where it stood.
LEMMA PingFailAhead ==
    ASSUME IInv, UnseenAhead, ReusesBeforeOpening, NEW p \in Clients, PingFail(p)
    PROVE  UnseenAhead' /\ ReusesBeforeOpening'
  <1>1. /\ TypeOK /\ want[p] \in Names /\ order \in Seq(Names) /\ at[p] \in Nat
        /\ Len(order) \in Nat
    BY DEF IInv, TypeOK
  <1>2. /\ pc[p] = "ping" /\ want' = want /\ order' = order
        /\ unseen' = [q \in Clients |-> unseen[q] \cap Idle']
    BY DEF PingFail
  <1>3. \A c \in unseen[p] : \E j \in at[p]..Len(order) :
            (j # 0 => order[j] # want[p]) /\ Lies(queue, c, NameAt(want[p], order, j))
    BY <1>2 DEF UnseenAhead, Ahead
  <1>4. \A q \in Clients : unseen'[q] = unseen[q] \cap Idle'
    BY <1>2
  <1>5. CASE TakeNext(p, want[p], order, at[p])
    BY <1>1, <1>2, <1>3, <1>4, <1>5, WalkAhead
  <1>6. CASE Miss(p, want[p], order, at[p])
    <2>1. unseen[p] = {}
      <3>1. \A j \in at[p]..Len(order) :
                (j # 0 => order[j] # want[p]) => queue[NameAt(want[p], order, j)] = <<>>
        BY <1>6 DEF Miss, Hits
      <3> QED
        BY <1>3, <3>1 DEF Lies
    <2>2. /\ queue' = queue /\ pc'[p] \in {"open", "nap"}
          /\ \A q \in Clients : q # p => pc'[q] = pc[q] /\ at'[q] = at[q]
      BY <1>1, <1>6 DEF Miss, CreateOrWait, Reserve, TypeOK
    <2>3. ASSUME NEW q \in Clients, pc'[q] = "ping", NEW c \in unseen'[q]
          PROVE  Ahead(q, c)'
      <3>1. q # p /\ pc[q] = "ping" /\ at'[q] = at[q] /\ c \in unseen[q]
        BY <1>4, <2>2, <2>3
      <3>2. Ahead(q, c)
        BY <3>1 DEF UnseenAhead
      <3> QED
        BY <1>1, <1>2, <2>2, <3>1, <3>2, AheadStays
    <2>4. ReusesBeforeOpening'
      BY <1>4, <2>1, <2>2 DEF ReusesBeforeOpening
    <2> QED
      BY <2>3, <2>4 DEF UnseenAhead
  <1> QED
    BY <1>5, <1>6 DEF PingFail

LEMMA NextAhead ==
    ASSUME IInv, QueuesKnown, UnseenAhead, ReusesBeforeOpening, [Next]_vars
    PROVE  UnseenAhead' /\ ReusesBeforeOpening'
  <1>1. TypeOK /\ order \in Seq(Names) /\ queue \in [Names -> Seq(Conns)] /\ Len(order) \in Nat
    BY DEF IInv, TypeOK
  <1>2. ASSUME UNCHANGED <<queue, order>>,
               \A q \in Clients :
                  \/ pc'[q] = pc[q] /\ at'[q] = at[q] /\ want'[q] = want[q] /\ unseen'[q] = unseen[q]
                  \/ pc'[q] # "ping" /\ unseen'[q] = {}
                  \/ pc'[q] # "ping" /\ pc'[q] \notin {"open", "nap"}
                  \/ pc'[q] # "ping" /\ pc[q] \in {"open", "nap"} /\ unseen'[q] = unseen[q]
        PROVE  UnseenAhead' /\ ReusesBeforeOpening'
    <2>1. ReusesBeforeOpening'
      BY <1>2 DEF ReusesBeforeOpening
    <2>2. UnseenAhead'
      BY <1>1, <1>2, NobodyWalks
    <2> QED
      BY <2>1, <2>2
  <1>3. CASE UNCHANGED vars
    BY <1>2, <1>3 DEF vars, client, pool
  <1>4. ASSUME NEW p \in Clients, PingOk(p)
        PROVE  UnseenAhead' /\ ReusesBeforeOpening'
    BY <1>1, <1>2, <1>4 DEF PingOk, TypeOK
  <1>5. ASSUME NEW p \in Clients, Nap(p)
        PROVE  UnseenAhead' /\ ReusesBeforeOpening'
    BY <1>1, <1>2, <1>5 DEF Nap, Leave, Reserve, TypeOK
  <1>6. ASSUME NEW p \in Clients, OpenEnds(p) \/ InitSqlEnds(p)
        PROVE  UnseenAhead' /\ ReusesBeforeOpening'
    BY <1>1, <1>2, <1>6 DEF OpenEnds, OpenOk, OpenFail, InitSqlEnds, InitSqlOk, InitSqlFail,
                           GiveUp, Leave, pool, TypeOK
  <1>7. ASSUME NEW c \in Conns, LinkDrop(c)
        PROVE  UnseenAhead' /\ ReusesBeforeOpening'
    BY <1>2, <1>7 DEF LinkDrop, client, pool
  <1>8. ASSUME NEW p \in Clients, Release(p)
        PROVE  UnseenAhead' /\ ReusesBeforeOpening'
    <2> DEFINE n == back[cand[p]].schema
    <2>1. cand[p] \in Conns
      BY <1>8 DEF Release, Holders, IInv, HeldIsOpen
    <2>2. n \in Names
      BY <1>1, <2>1 DEF TypeOK, BackType
    <2>3. /\ order' = Registered(n) /\ queue' = [queue EXCEPT ![n] = Append(@, cand[p])]
          /\ Leave(p)
      BY <1>8 DEF Release
    <2> HIDE DEF n
    <2>4. /\ \A q \in Clients : q # p =>
                pc'[q] = pc[q] /\ at'[q] = at[q] /\ want'[q] = want[q] /\ unseen'[q] = unseen[q]
          /\ pc'[p] = "idle" /\ unseen'[p] = {}
      BY <1>1, <2>3 DEF Leave, TypeOK
    <2>5. \A c \in Conns, m \in Names : Lies(queue, c, m) => Lies(queue', c, m)
      <3>1. \A m \in Names : m # n => queue'[m] = queue[m]
        BY <1>1, <2>3
      <3>2. queue'[n] = Append(queue[n], cand[p]) /\ queue[n] \in Seq(Conns)
        BY <1>1, <2>2, <2>3
      <3>3. /\ Len(queue'[n]) = Len(queue[n]) + 1 /\ Len(queue[n]) \in Nat
            /\ \A i \in 1..Len(queue[n]) : queue'[n][i] = queue[n][i]
        BY <2>1, <3>2
      <3>4. \A i \in 1..Len(queue[n]) : i \in 1..Len(queue'[n])
        BY <3>3
      <3> QED
        BY <3>1, <3>3, <3>4 DEF Lies
    <2>6. /\ order' \in Seq(Names) /\ Len(order) <= Len(order')
          /\ \A i \in 1..Len(order) : order'[i] = order[i]
      BY <1>1, <2>2, <2>3, RegisteredExtends, RegisteredType
    <2>7. UnseenAhead'
      BY <1>1, <2>4, <2>5, <2>6, NobodyWalks
    <2>8. ReusesBeforeOpening'
      BY <2>4 DEF ReusesBeforeOpening
    <2> QED
      BY <2>7, <2>8
  <1> QED
    BY <1>3, <1>4, <1>5, <1>6, <1>7, <1>8, BeginAhead, PingFailAhead DEF Next, PingEnds

\* A request that starts to open a connection or to wait for a slot has left
\* none behind that was idle all through its walk, whatever the others took,
\* returned and registered while it was blocked in its pings.  The connections
\* idle since the walk began lie in queues the walk has yet to come by.
THEOREM IdleIsReusedFirst == Spec => []ReusesBeforeOpening
  <1>1. Init => QueuesKnown /\ UnseenAhead /\ ReusesBeforeOpening
    BY DEF Init, QueuesKnown, UnseenAhead, ReusesBeforeOpening
  <1>2. IInv /\ QueuesKnown /\ UnseenAhead /\ ReusesBeforeOpening /\ [Next]_vars
            => (QueuesKnown /\ UnseenAhead /\ ReusesBeforeOpening)'
    BY NextKeepsKnown, NextAhead
  <1> QED
    BY <1>1, <1>2, IInvAlways, PTL DEF Spec

-----------------------------------------------------------------------------
\* The pool implements the abstract lease.
LEMMA LeaseInit ==
    ASSUME Init
    PROVE  Lease!LeaseInit
  BY DEF Init, Lease!LeaseInit, LentTo, Lendable, Openers, Idle, IdleIn

\* A walk lends nothing yet and can only lose lendable connections.
LEMMA WalkLease ==
    ASSUME IInv, NEW p \in Clients, pc[p] \in {"idle", "ping"},
           NEW s \in Names, NEW keys \in Seq(Names), NEW from \in Nat,
           TakeNext(p, s, keys, from)
    PROVE  /\ LentTo' = LentTo /\ Openers' = Openers /\ connCount' = connCount
           /\ Lendable' \subseteq Lendable
  <1>1. TypeOK /\ Distinct(queue)
    BY DEF IInv, OneOwner
  <1>2. PICK c \in Idle : cand' = [cand EXCEPT ![p] = c] /\ Idle' = Idle \ {c}
    BY <1>1, TakeNextFacts
  <1>3. pc' = [pc EXCEPT ![p] = "ping"] /\ connCount' = connCount
    BY <1>1, TakeNextFacts
  <1>4. /\ pc'[p] = "ping" /\ cand'[p] = c
        /\ \A q \in Clients : q # p => pc'[q] = pc[q] /\ cand'[q] = cand[q]
    BY <1>1, <1>2, <1>3 DEF TypeOK
  <1>5. LentTo' = LentTo
    BY <1>4 DEF LentTo
  <1>6. Openers' = Openers
    BY <1>4 DEF Openers
  <1>7. Lendable' \subseteq Lendable
    BY <1>2, <1>4 DEF Lendable
  <1> QED
    BY <1>3, <1>5, <1>6, <1>7

\* A walk that finds nothing starts an open of the lease, or evicts.
LEMMA MissLease ==
    ASSUME IInv, NEW p \in Clients, pc[p] \in {"idle", "ping"},
           CreateOrWait(p), Idle' \subseteq Idle
    PROVE  Lease!StartOpen(p) \/ Lease!Evict
  <1>1. TypeOK
    BY DEF IInv
  <1>2. cand' = [cand EXCEPT ![p] = None]
    BY <1>1, CreateOrWaitFacts
  <1>3. \A q \in Clients : q # p => cand'[q] = cand[q]
    BY <1>1, <1>2 DEF TypeOK
  <1>4. CASE /\ connCount < Size /\ pc' = [pc EXCEPT ![p] = "open"]
             /\ connCount' = connCount + 1
    <2>1. pc'[p] = "open" /\ \A q \in Clients : q # p => pc'[q] = pc[q]
      BY <1>1, <1>4 DEF TypeOK
    <2>2. LentTo' = LentTo /\ LentTo[p] = None
      BY <1>3, <2>1 DEF LentTo
    <2>3. Openers' = Openers \cup {p} /\ p \notin Openers
      BY <2>1 DEF Openers
    <2>4. Lendable' \subseteq Lendable
      BY <1>3, <2>1 DEF Lendable
    <2> QED
      BY <1>4, <2>2, <2>3, <2>4 DEF Lease!StartOpen
  <1>5. CASE pc' = [pc EXCEPT ![p] = "nap"] /\ connCount' = connCount
    <2>1. pc'[p] = "nap" /\ \A q \in Clients : q # p => pc'[q] = pc[q]
      BY <1>1, <1>5 DEF TypeOK
    <2>2. LentTo' = LentTo
      BY <1>3, <2>1 DEF LentTo
    <2>3. Openers' = Openers
      BY <2>1 DEF Openers
    <2>4. Lendable' \subseteq Lendable
      BY <1>3, <2>1 DEF Lendable
    <2> QED
      BY <1>5, <2>2, <2>3, <2>4 DEF Lease!Evict
  <1> QED
    BY <1>1, <1>4, <1>5, CreateOrWaitFacts

\* A walk over the queues is an eviction or the start of an open.
LEMMA SearchLease ==
    ASSUME IInv, NEW p \in Clients, pc[p] \in {"idle", "ping"},
           NEW s \in Names, NEW keys \in Seq(Names), NEW from \in Nat,
           TakeNext(p, s, keys, from) \/ Miss(p, s, keys, from)
    PROVE  Lease!StartOpen(p) \/ Lease!Evict
  <1>1. CASE TakeNext(p, s, keys, from)
    BY <1>1, WalkLease DEF Lease!Evict
  <1>2. CASE Miss(p, s, keys, from)
    <2>1. CreateOrWait(p) /\ Idle' = Idle
      BY <1>2, StillIdle DEF Miss
    <2> QED
      BY <2>1, MissLease
  <1> QED
    BY <1>1, <1>2

\* A request maps to the step its walk maps to,
LEMMA BeginLease ==
    ASSUME IInv, NEW p \in Clients, NEW s \in Schemas, Begin(p, s)
    PROVE  Lease!StartOpen(p) \/ Lease!Evict
  <1>1. /\ s \in Names /\ pc[p] \in {"idle", "ping"} /\ 0 \in Nat
        /\ Registered(s) \in Seq(Names)
    BY RegisteredType DEF Names, Begin, IInv
  <1>2. CASE checkAlive
    BY <1>1, <1>2, SearchLease DEF Begin
  <1>3. CASE ~checkAlive
    <2>1. CreateOrWait(p) /\ queue' = [n \in Names |-> <<>>]
      BY <1>3 DEF Begin, DropAll
    <2>2. Idle' \subseteq Idle
      BY <2>1 DEF Idle, IdleIn
    <2> QED
      BY <1>1, <2>1, <2>2, MissLease
  <1> QED
    BY <1>2, <1>3

\* and so does a failed ping.
LEMMA PingFailLease ==
    ASSUME IInv, NEW p \in Clients, PingFail(p)
    PROVE  Lease!StartOpen(p) \/ Lease!Evict
  <1>1. /\ pc[p] \in {"idle", "ping"} /\ want[p] \in Names
        /\ order \in Seq(Names) /\ at[p] \in Nat
        /\ TakeNext(p, want[p], order, at[p]) \/ Miss(p, want[p], order, at[p])
    BY DEF PingFail, IInv, TypeOK
  <1> QED
    BY <1>1, SearchLease

\* A ping that succeeds lends the connection.
LEMMA PingOkLease ==
    ASSUME IInv, NEW p \in Clients, PingOk(p)
    PROVE  cand[p] \in Conns /\ Lease!Lend(p, cand[p])
  <1>1. /\ pc[p] = "ping" /\ pc' = [pc EXCEPT ![p] = "using"]
        /\ cand' = cand /\ queue' = queue /\ connCount' = connCount
    BY DEF PingOk
  <1>2. pc'[p] = "using" /\ \A q \in Clients : q # p => pc'[q] = pc[q]
    BY <1>1 DEF IInv, TypeOK
  <1>3. p \in Holders /\ Idle' = Idle
    BY <1>1, StillIdle DEF Holders
  <1>4. /\ cand[p] \in Conns /\ cand[p] \notin Idle
        /\ \A q \in Clients : q # p /\ pc[q] = "ping" => cand[q] # cand[p]
    BY <1>3 DEF IInv, HeldIsOpen, OneOwner, Holders
  <1>5. LentTo[p] = None /\ p \notin Openers /\ cand[p] \in Lendable
    BY <1>1 DEF LentTo, Openers, Lendable
  <1>6. LentTo' = [LentTo EXCEPT ![p] = cand[p]]
    BY <1>1, <1>2 DEF LentTo
  <1>7. Lendable' = Lendable \ {cand[p]}
    BY <1>1, <1>2, <1>3, <1>4 DEF Lendable
  <1>8. Openers' = Openers
    BY <1>1, <1>2 DEF Openers
  <1> QED
    BY <1>1, <1>4, <1>5, <1>6, <1>7, <1>8 DEF Lease!Lend

\* A nap changes nothing, or starts an open.
LEMMA NapLease ==
    ASSUME IInv, NEW p \in Clients, Nap(p)
    PROVE  Lease!StartOpen(p) \/ Lease!Evict
  <1>1. pc[p] = "nap" /\ Idle' = Idle /\ TypeOK
    BY StillIdle DEF Nap, IInv
  <1>2. CASE Leave(p) /\ connCount' = connCount
    <2>1. pc'[p] = "idle" /\ \A q \in Clients : q # p => pc'[q] = pc[q] /\ cand'[q] = cand[q]
      BY <1>1, <1>2, LeaveFacts
    <2>2. LentTo' = LentTo
      BY <1>1, <2>1 DEF LentTo
    <2>3. Openers' = Openers
      BY <1>1, <2>1 DEF Openers
    <2>4. Lendable' = Lendable
      BY <1>1, <2>1 DEF Lendable
    <2> QED
      BY <1>2, <2>2, <2>3, <2>4 DEF Lease!Evict
  <1>3. CASE UNCHANGED <<pc, cand, connCount>>
    BY <1>1, <1>3 DEF Lease!Evict, LentTo, Openers, Lendable
  <1>4. CASE connCount < Size /\ Reserve(p) /\ cand' = cand
    <2>1. pc'[p] = "open" /\ connCount' = connCount + 1 /\ \A q \in Clients : q # p => pc'[q] = pc[q]
      BY <1>1, <1>4 DEF Reserve, TypeOK
    <2>2. LentTo' = LentTo /\ LentTo[p] = None
      BY <1>1, <1>4, <2>1 DEF LentTo
    <2>3. Openers' = Openers \cup {p} /\ p \notin Openers
      BY <1>1, <2>1 DEF Openers
    <2>4. Lendable' = Lendable
      BY <1>1, <1>4, <2>1 DEF Lendable
    <2> QED
      BY <1>4, <2>1, <2>2, <2>3, <2>4 DEF Lease!StartOpen
  <1> QED
    BY <1>2, <1>3, <1>4 DEF Nap

\* The connection of a client that opened it becomes its lease: nobody else
\* holds it and it is on offer nowhere.
LEMMA BecomesLease ==
    ASSUME IInv, NEW p \in Clients, pc[p] \in {"open", "initsql"}, NEW c \in Conns,
           pc' = [pc EXCEPT ![p] = "using"], cand' = [cand EXCEPT ![p] = c],
           queue' = queue, connCount' = connCount,
           c \notin Idle, \A q \in Holders : q # p => cand[q] # c
    PROVE  Lease!Opened(p, c)
  <1>1. /\ pc'[p] = "using" /\ cand'[p] = c
        /\ \A q \in Clients : q # p => pc'[q] = pc[q] /\ cand'[q] = cand[q]
    BY DEF IInv, TypeOK
  <1>2. Idle' = Idle
    BY StillIdle
  <1>3. LentTo' = [LentTo EXCEPT ![p] = c]
    BY <1>1 DEF LentTo
  <1>4. Openers' = Openers \ {p} /\ p \in Openers
    BY <1>1 DEF Openers
  <1>5. Lendable' = Lendable
    BY <1>1, <1>2 DEF Lendable
  <1>6. c \notin Lendable
    BY DEF Lendable, Holders
  <1>7. c \notin Lease!Leased
    <2>1. \A q \in Clients : LentTo[q] = c => q \in Holders /\ q # p /\ cand[q] = c
      BY ConstAssumption DEF LentTo, Holders
    <2> QED
      BY <2>1 DEF Lease!Leased
  <1> QED
    BY <1>3, <1>4, <1>5, <1>6, <1>7 DEF Lease!Opened

\* An open that succeeds ends the opening unless init SQL follows.
LEMMA OpenOkLease ==
    ASSUME IInv, NEW p \in Clients, OpenOk(p)
    PROVE  (\E c \in Conns : Lease!Opened(p, c)) \/ Lease!Evict
  <1>1. PICK c \in Conns : back[c].link = "none" /\ cand' = [cand EXCEPT ![p] = c]
    BY DEF OpenOk
  <1>2. /\ pc[p] = "open" /\ queue' = queue /\ connCount' = connCount
        /\ pc' = [pc EXCEPT ![p] = IF InitSql THEN "initsql" ELSE "using"]
    BY DEF OpenOk, pool
  <1>3. c \notin Idle /\ \A q \in Holders : cand[q] # c
    BY <1>1 DEF IInv, HeldIsOpen
  <1>4. CASE InitSql
    <2>1. /\ pc'[p] = "initsql"
          /\ \A q \in Clients : q # p => pc'[q] = pc[q] /\ cand'[q] = cand[q]
      BY <1>1, <1>2, <1>4 DEF IInv, TypeOK
    <2>2. LentTo' = LentTo
      BY <1>2, <2>1 DEF LentTo
    <2>3. Openers' = Openers
      BY <1>2, <2>1 DEF Openers
    <2>4. Lendable' = Lendable
      BY <1>2, <2>1, StillIdle DEF Lendable
    <2> QED
      BY <1>2, <2>2, <2>3, <2>4 DEF Lease!Evict
  <1>5. CASE ~InitSql
    BY <1>1, <1>2, <1>3, <1>5, BecomesLease
  <1> QED
    BY <1>4, <1>5

\* Init SQL that succeeds ends the opening.
LEMMA InitSqlOkLease ==
    ASSUME IInv, NEW p \in Clients, InitSqlOk(p)
    PROVE  \E c \in Conns : Lease!Opened(p, c)
  <1>1. /\ pc[p] = "initsql" /\ pc' = [pc EXCEPT ![p] = "using"]
        /\ cand' = cand /\ queue' = queue /\ connCount' = connCount
    BY DEF InitSqlOk, pool
  <1>2. p \in Holders
    BY <1>1 DEF Holders
  <1>3. /\ cand[p] \in Conns /\ cand[p] \notin Idle
        /\ \A q \in Holders : q # p => cand[q] # cand[p]
    BY <1>2 DEF IInv, HeldIsOpen, OneOwner
  <1>4. cand' = [cand EXCEPT ![p] = cand[p]]
    BY <1>1 DEF IInv, TypeOK
  <1> QED
    BY <1>1, <1>3, <1>4, BecomesLease

\* A failed open or init SQL is a failed open of the lease.
LEMMA GiveUpLease ==
    ASSUME IInv, NEW p \in Clients, pc[p] \in {"open", "initsql"}, GiveUp(p)
    PROVE  Lease!OpenFailed(p)
  <1>1. Leave(p) /\ connCount' = connCount - 1 /\ Idle' = Idle
    BY StillIdle DEF GiveUp
  <1>2. pc'[p] = "idle" /\ \A q \in Clients : q # p => pc'[q] = pc[q] /\ cand'[q] = cand[q]
    BY <1>1, LeaveFacts DEF IInv
  <1>3. LentTo' = LentTo
    BY <1>2 DEF LentTo
  <1>4. Openers' = Openers \ {p} /\ p \in Openers
    BY <1>2 DEF Openers
  <1>5. Lendable' = Lendable
    BY <1>1, <1>2 DEF Lendable
  <1> QED
    BY <1>1, <1>3, <1>4, <1>5 DEF Lease!OpenFailed

\* A release returns the connection.
LEMMA ReleaseLease ==
    ASSUME IInv, NEW p \in Clients, Release(p)
    PROVE  Lease!Return(p)
  <1>1. /\ pc[p] = "using" /\ Leave(p) /\ connCount' = connCount
        /\ queue' = [queue EXCEPT ![back[cand[p]].schema] = Append(@, cand[p])]
    BY DEF Release
  <1>2. p \in Holders /\ TypeOK
    BY <1>1 DEF Holders, IInv
  <1>3. cand[p] \in Conns /\ cand[p] \notin Idle
    BY <1>2 DEF IInv, HeldIsOpen, OneOwner
  <1>4. back[cand[p]].schema \in Names
    <2>1. back[cand[p]] \in BackType
      BY <1>2, <1>3 DEF TypeOK
    <2> QED
      BY <2>1 DEF BackType
  <1>5. Idle' = Idle \cup {cand[p]}
    BY <1>1, <1>2, <1>3, <1>4, PushLast DEF Idle, TypeOK, IInv, OneOwner
  <1>6. pc'[p] = "idle" /\ \A q \in Clients : q # p => pc'[q] = pc[q] /\ cand'[q] = cand[q]
    BY <1>1, <1>2, LeaveFacts
  <1>7. LentTo[p] = cand[p] /\ LentTo[p] # None
    BY <1>1, <1>3, ConstAssumption DEF LentTo
  <1>8. LentTo' = [LentTo EXCEPT ![p] = None]
    BY <1>6 DEF LentTo
  <1>9. Openers' = Openers
    BY <1>1, <1>6 DEF Openers
  <1>10. Lendable' = Lendable \cup {cand[p]}
    BY <1>1, <1>5, <1>6 DEF Lendable
  <1> QED
    BY <1>1, <1>7, <1>8, <1>9, <1>10 DEF Lease!Return

\* Every step of the pool is a step of the lease or leaves it unchanged.
LEMMA NextLease ==
    ASSUME IInv, [Next]_vars
    PROVE  [Lease!LeaseNext]_(Lease!leaseVars)
  <1>1. CASE UNCHANGED <<pc, cand, queue, connCount>>
    BY <1>1 DEF Lease!leaseVars, LentTo, Lendable, Openers, Idle
  <1>2. CASE Next
    <2>1. ASSUME NEW p \in Clients, NEW s \in Schemas, Begin(p, s)
          PROVE  Lease!LeaseNext
      BY <2>1, BeginLease DEF Lease!LeaseNext
    <2>2. ASSUME NEW p \in Clients, PingEnds(p) \/ Nap(p)
          PROVE  Lease!LeaseNext
      BY <2>2, PingOkLease, PingFailLease, NapLease DEF PingEnds, Lease!LeaseNext
    <2>3. ASSUME NEW p \in Clients, OpenEnds(p) \/ InitSqlEnds(p)
          PROVE  Lease!LeaseNext
      BY <2>3, OpenOkLease, InitSqlOkLease, GiveUpLease
         DEF OpenEnds, OpenFail, InitSqlEnds, InitSqlFail, Lease!LeaseNext
    <2>4. ASSUME NEW p \in Clients, Release(p)
          PROVE  Lease!LeaseNext
      BY <2>4, ReleaseLease DEF Lease!LeaseNext
    <2>5. ASSUME NEW c \in Conns, LinkDrop(c)
          PROVE  UNCHANGED <<pc, cand, queue, connCount>>
      BY <2>5 DEF LinkDrop, client, pool
    <2> QED
      BY <1>1, <1>2, <2>1, <2>2, <2>3, <2>4, <2>5 DEF Next
  <1> QED
    BY <1>1, <1>2 DEF vars, client, pool

\* getConnection and releaseConn implement the abstract lease: exclusive
\* borrows, and a slot reserved before any connection is opened.
THEOREM PoolImplementsLease == Spec => ImplementsLease
  BY LeaseInit, NextLease, IInvAlways, PTL DEF Spec, ImplementsLease, Lease!LeaseSpec
=============================================================================
