--------------------------- MODULE SchedulerProofs ---------------------------
(* Proofs about the scheduler, for every number of names, calls, coroutines  *)
(* and waiting users.                                                        *)
EXTENDS Scheduler, TLAPS

Timeout(j)  == <<j, "timeout">>
Interval(j) == <<j, "interval">>
RunsJob(w, j) == run[w] = Timeout(j) \/ run[w] = Interval(j)

\* Nothing stands for a call of schedule that has not been made.
Unscheduled ==
    \A j \in Jobs : name[j] = None =>
        /\ Timeout(j) \notin armed /\ Interval(j) \notin armed
        /\ \A w \in Workers : ~RunsJob(w, j)

\* A call passes from its timeout to its first run and to its interval, and
\* is in one of these stages only.
Stages ==
    /\ \A j \in Jobs : Timeout(j) \in armed =>
          /\ Interval(j) \notin armed
          /\ \A w \in Workers : ~RunsJob(w, j)
    /\ \A j \in Jobs, w \in Workers : run[w] = Timeout(j) => Interval(j) \notin armed

\* fin tells whether a later run is under way.
FinTells == \A j \in Jobs, w \in Workers : run[w] = Interval(j) => ~fin[j]

\* One coroutine at most runs the task of a call.
OneRun ==
    \A j \in Jobs, v, w \in Workers : RunsJob(v, j) /\ RunsJob(w, j) => v = w

Serial == Unscheduled /\ Stages /\ FinTells /\ OneRun

-----------------------------------------------------------------------------
\* A timer is neither None nor another timer.
LEMMA TimersDiffer ==
    /\ \A i, j \in Jobs : Timeout(i) # Interval(j)
    /\ \A i, j \in Jobs : Timeout(i) = Timeout(j) => i = j
    /\ \A i, j \in Jobs : Interval(i) = Interval(j) => i = j
    /\ \A j \in Jobs : Timeout(j) # None /\ Interval(j) # None
    /\ \A j \in Jobs : Timeout(j) \in Timers /\ Interval(j) \in Timers
  BY SchedulerAssumption DEF Timeout, Interval, Timers

\* The state keeps its type in every step.
LEMMA TypeStep ==
    ASSUME TypeOK, [Next]_vars
    PROVE  TypeOK'
  <1> USE DEF TypeOK
  <1>1. ASSUME NEW j \in Jobs, NEW n \in Names, NEW p \in BOOLEAN, Schedule(j, n, p)
        PROVE  TypeOK'
    BY <1>1 DEF Schedule, List, Timers
  <1>2. ASSUME NEW j \in Jobs, NEW w \in Workers, FireTimeout(w, j) \/ FireInterval(w, j)
        PROVE  TypeOK'
    <2>1. <<j, "timeout">> \in Timers /\ <<j, "interval">> \in Timers
      BY DEF Timers
    <2>2. CASE FireTimeout(w, j)
      BY <2>1, <2>2 DEF FireTimeout
    <2>3. CASE FireInterval(w, j)
      BY <2>1, <2>3 DEF FireInterval
    <2> QED
      BY <1>2, <2>2, <2>3
  <1>3. ASSUME NEW w \in Workers, Ended(w)
        PROVE  run' \in [Workers -> Timers \cup {None}] /\ call' \in [Users ->
                  [op: {"none", "cancel", "shutdown"}, name: Names \cup {None},
                   timer: Timers \cup {None}, on: Workers \cup {None}]]
    BY <1>3 DEF Ended
  <1>4. ASSUME NEW j \in Jobs, NEW w \in Workers, EndFirst(w, j) \/ EndNext(w, j)
        PROVE  TypeOK'
    <2>1. CASE EndFirst(w, j)
      <3>1. Ended(w)
        BY <2>1 DEF EndFirst
      <3>2. <<j, "interval">> \in Timers /\ run[w] # None
        BY <2>1, SchedulerAssumption DEF EndFirst, Timers
      <3>3. name[j] \in Names \cup {None}
        OBVIOUS
      <3>4. armed' \in SUBSET Timers
        BY <2>1, <3>2 DEF EndFirst
      <3>5. timers' \in [Names -> Timers \cup {None}] /\ seen' \in [Users -> SUBSET Names]
        <4>1. CASE List(name[j], <<j, "interval">>)
          <5>1. timers' \in [Names -> Timers \cup {None}]
            BY <3>2, <4>1 DEF List
          <5>2. \A u \in Users : seen[u] \in SUBSET Names
            OBVIOUS
          <5> QED
            BY <4>1, <5>1, <5>2 DEF List
        <4>2. CASE Unlist(name[j])
          BY <4>2 DEF Unlist
        <4> QED
          BY <2>1, <4>1, <4>2 DEF EndFirst
      <3> QED
        BY <1>3, <2>1, <3>1, <3>4, <3>5 DEF EndFirst
    <2>2. CASE EndNext(w, j)
      <3>1. Ended(w)
        BY <2>2 DEF EndNext
      <3> QED
        BY <1>3, <2>2, <3>1 DEF EndNext
    <2> QED
      BY <1>4, <2>1, <2>2
  <1>5. ASSUME NEW n \in Names, Cancel(n)
        PROVE  TypeOK'
    BY <1>5 DEF Cancel, Unlist
  <1>6. ASSUME NEW u \in Users, NEW n \in Names, CancelAwait(u, n)
        PROVE  TypeOK'
    BY <1>6 DEF CancelAwait, RunsOf
  <1>7. ASSUME NEW u \in Users, Cancelled(u)
        PROVE  TypeOK'
    <2>1. CASE \E w \in RunsOf(call[u].timer) : call' = [call EXCEPT ![u].on = w]
      <3>1. timers' \in [Names -> Timers \cup {None}] /\ seen' = seen
        BY <1>7 DEF Cancelled, Unlist
      <3>2. call' \in [Users -> [op: {"none", "cancel", "shutdown"}, name: Names \cup {None},
                                 timer: Timers \cup {None}, on: Workers \cup {None}]]
        <4>1. PICK w \in Workers : call' = [call EXCEPT ![u].on = w]
          BY <2>1 DEF RunsOf
        <4>2. call' = [call EXCEPT ![u] = [call[u] EXCEPT !.on = w]]
          BY <4>1
        <4>3. [call[u] EXCEPT !.on = w] \in
                  [op: {"none", "cancel", "shutdown"}, name: Names \cup {None},
                   timer: Timers \cup {None}, on: Workers \cup {None}]
          OBVIOUS
        <4> QED
          BY <4>2, <4>3
      <3> QED
        BY <1>7, <3>1, <3>2 DEF Cancelled
    <2>2. CASE Unlist(call[u].name) /\ call' = [call EXCEPT ![u] = Idle]
      <3>1. timers' \in [Names -> Timers \cup {None}] /\ seen' = seen
        BY <2>2 DEF Unlist
      <3>2. call' \in [Users -> [op: {"none", "cancel", "shutdown"}, name: Names \cup {None},
                                 timer: Timers \cup {None}, on: Workers \cup {None}]]
        BY <2>2 DEF Idle
      <3> QED
        BY <1>7, <3>1, <3>2 DEF Cancelled
    <2> QED
      BY <1>7, <2>1, <2>2 DEF Cancelled
  <1>8. ASSUME NEW u \in Users, ShutdownAwait(u)
        PROVE  TypeOK'
    BY <1>8 DEF ShutdownAwait
  <1>9. ASSUME NEW u \in Users, ShutdownNext(u)
        PROVE  TypeOK'
    <2>1. armed' \in SUBSET Timers /\ timers' \in [Names -> Timers \cup {None}]
      BY <1>9 DEF ShutdownNext
    <2>2. seen' \in [Users -> SUBSET Names]
      <3>1. Ahead(u) \subseteq Names
        BY DEF Ahead
      <3>2. \/ seen' = seen
            \/ \E S \in SUBSET Names : seen' = [seen EXCEPT ![u] = S]
        <4>1. CASE \E n \in Ahead(u), S \in SUBSET Ahead(u) :
                      seen' = [seen EXCEPT ![u] = @ \cup S \cup {n}]
          <5>1. PICK n \in Ahead(u), S \in SUBSET Ahead(u) :
                      seen' = [seen EXCEPT ![u] = seen[u] \cup S \cup {n}]
            BY <4>1
          <5>2. seen[u] \cup S \cup {n} \in SUBSET Names
            BY <3>1
          <5> QED
            BY <5>1, <5>2
        <4>2. CASE UNCHANGED seen
          BY <4>2
        <4> QED
          BY <1>9, <4>1, <4>2 DEF ShutdownNext
      <3> QED
        BY <3>2
    <2>3. \/ \E w \in Workers : call' = [call EXCEPT ![u].on = w]
          \/ \E n \in Names, w \in Workers :
                call' = [call EXCEPT ![u].timer = timers[n], ![u].on = w]
          \/ call' = [call EXCEPT ![u] = Idle]
      BY <1>9 DEF ShutdownNext, RunsOf, Ahead
    <2>4. call' \in [Users -> [op: {"none", "cancel", "shutdown"}, name: Names \cup {None},
                               timer: Timers \cup {None}, on: Workers \cup {None}]]
      <3>1. CASE \E w \in Workers : call' = [call EXCEPT ![u].on = w]
        <4>1. PICK w \in Workers : call' = [call EXCEPT ![u].on = w]
          BY <3>1
        <4>2. call' = [call EXCEPT ![u] = [call[u] EXCEPT !.on = w]]
          BY <4>1
        <4>3. [call[u] EXCEPT !.on = w] \in
                  [op: {"none", "cancel", "shutdown"}, name: Names \cup {None},
                   timer: Timers \cup {None}, on: Workers \cup {None}]
          OBVIOUS
        <4> QED
          BY <4>2, <4>3
      <3>2. CASE \E n \in Names, w \in Workers :
                    call' = [call EXCEPT ![u].timer = timers[n], ![u].on = w]
        <4>1. PICK n \in Names, w \in Workers :
                    call' = [call EXCEPT ![u].timer = timers[n], ![u].on = w]
          BY <3>2
        <4>2. timers[n] \in Timers \cup {None}
          OBVIOUS
        <4>3. call' = [call EXCEPT ![u] = [call[u] EXCEPT !.timer = timers[n], !.on = w]]
          BY <4>1
        <4>4. [call[u] EXCEPT !.timer = timers[n], !.on = w] \in
                  [op: {"none", "cancel", "shutdown"}, name: Names \cup {None},
                   timer: Timers \cup {None}, on: Workers \cup {None}]
          BY <4>2
        <4> QED
          BY <4>3, <4>4
      <3>3. CASE call' = [call EXCEPT ![u] = Idle]
        BY <3>3 DEF Idle
      <3> QED
        BY <2>3, <3>1, <3>2, <3>3
    <2> QED
      BY <1>9, <2>1, <2>2, <2>4 DEF ShutdownNext
  <1>10. CASE Shutdown
    BY <1>10 DEF Shutdown
  <1>11. CASE UNCHANGED vars
    BY <1>11 DEF vars
  <1> QED
    BY <1>1, <1>2, <1>4, <1>5, <1>6, <1>7, <1>8, <1>9, <1>10, <1>11
    DEF Next, Fire, End

-----------------------------------------------------------------------------
\* A step that arms nothing and lets all runs be keeps the runs apart.
LEMMA NothingArmed ==
    ASSUME Serial, UNCHANGED <<name, run, fin>>, armed' \subseteq armed
    PROVE  Serial'
  BY DEF Serial, Unscheduled, Stages, FinTells, OneRun, RunsJob

\* Every call that cancels, and every step of one that waits, arms nothing.
LEMMA CallsArmNothing ==
    ASSUME NEW u \in Users, NEW n \in Names,
           \/ Cancel(n) \/ CancelAwait(u, n) \/ Cancelled(u)
           \/ ShutdownAwait(u) \/ ShutdownNext(u)
    PROVE  UNCHANGED <<name, run, fin>> /\ armed' \subseteq armed
  BY DEF Cancel, CancelAwait, Cancelled, ShutdownAwait, ShutdownNext

\* schedule arms the timeout of a call that was not made before.
LEMMA ScheduleSerial ==
    ASSUME TypeOK, Serial, NEW j \in Jobs, NEW n \in Names, NEW p \in BOOLEAN,
           Schedule(j, n, p)
    PROVE  Serial'
  <1>1. /\ name[j] = None /\ n # None
        /\ name' = [name EXCEPT ![j] = n]
        /\ armed' = armed \cup {Timeout(j)}
        /\ run' = run /\ fin' = fin
    BY SchedulerAssumption DEF Schedule, Timeout
  <1>2. Timeout(j) \notin armed /\ Interval(j) \notin armed
        /\ \A w \in Workers : ~RunsJob(w, j)
    BY <1>1 DEF Serial, Unscheduled
  <1>3. \A w \in Workers, i \in Jobs : RunsJob(w, i)' <=> RunsJob(w, i)
    BY <1>1 DEF RunsJob
  <1>4. Unscheduled'
    BY <1>1, <1>3, TimersDiffer DEF Serial, Unscheduled, TypeOK
  <1>5. Stages'
    BY <1>1, <1>2, <1>3, TimersDiffer DEF Serial, Stages, RunsJob
  <1>6. FinTells' /\ OneRun'
    BY <1>1, <1>3 DEF Serial, FinTells, OneRun
  <1> QED
    BY <1>4, <1>5, <1>6 DEF Serial

\* A first run begins only where nothing else runs or may run.
LEMMA FireTimeoutSerial ==
    ASSUME TypeOK, Serial, NEW j \in Jobs, NEW w \in Workers, FireTimeout(w, j)
    PROVE  Serial'
  <1>1. /\ Timeout(j) \in armed
        /\ run' = [run EXCEPT ![w] = Timeout(j)]
        /\ armed' = armed \ {Timeout(j)}
        /\ name' = name /\ fin' = fin
    BY DEF FireTimeout, Timeout
  <1>2. /\ Interval(j) \notin armed /\ name[j] # None
        /\ \A v \in Workers : ~RunsJob(v, j)
    BY <1>1 DEF Serial, Stages, Unscheduled
  <1>3. \A v \in Workers : run'[v] = IF v = w THEN Timeout(j) ELSE run[v]
    BY <1>1 DEF TypeOK
  <1>4. Unscheduled'
    BY <1>1, <1>2, <1>3, TimersDiffer DEF Serial, Unscheduled, RunsJob
  <1>5. Stages'
    BY <1>1, <1>2, <1>3, TimersDiffer DEF Serial, Stages, RunsJob
  <1>6. FinTells'
    BY <1>1, <1>3, TimersDiffer DEF Serial, FinTells
  <1>7. OneRun'
    BY <1>2, <1>3, TimersDiffer DEF Serial, OneRun, RunsJob
  <1> QED
    BY <1>4, <1>5, <1>6, <1>7 DEF Serial

\* A later run begins only when fin says that none is under way.
LEMMA FireIntervalSerial ==
    ASSUME TypeOK, Serial, ~concur, NEW j \in Jobs, NEW w \in Workers,
           FireInterval(w, j)
    PROVE  Serial'
  <1>1. /\ Interval(j) \in armed /\ fin[j]
        /\ run' = [run EXCEPT ![w] = Interval(j)]
        /\ fin' = [fin EXCEPT ![j] = FALSE]
        /\ name' = name /\ armed' = armed
    BY DEF FireInterval, Interval
  <1>2. /\ Timeout(j) \notin armed /\ name[j] # None
        /\ \A v \in Workers : ~RunsJob(v, j)
    BY <1>1 DEF Serial, Stages, Unscheduled, FinTells, RunsJob
  <1>3. /\ \A v \in Workers : run'[v] = IF v = w THEN Interval(j) ELSE run[v]
        /\ \A i \in Jobs : fin'[i] = IF i = j THEN FALSE ELSE fin[i]
    BY <1>1 DEF TypeOK
  <1>4. Unscheduled'
    BY <1>1, <1>2, <1>3, TimersDiffer DEF Serial, Unscheduled, RunsJob
  <1>5. Stages'
    BY <1>1, <1>2, <1>3, TimersDiffer DEF Serial, Stages, RunsJob
  <1>6. FinTells'
    <2>1. ASSUME NEW i \in Jobs, NEW v \in Workers, run'[v] = Interval(i)
          PROVE  ~fin'[i]
      <3>1. CASE v = w
        <4>1. i = j
          BY <1>3, <2>1, <3>1, TimersDiffer
        <4> QED
          BY <1>1, <4>1 DEF TypeOK
      <3>2. CASE v # w
        <4>1. ~fin[i]
          BY <1>3, <2>1, <3>2 DEF Serial, FinTells
        <4> QED
          BY <1>1, <4>1 DEF TypeOK
      <3> QED
        BY <3>1, <3>2
    <2>2. \A i : Interval(i)' = Interval(i)
      BY DEF Interval
    <2> QED
      BY <2>1, <2>2 DEF FinTells
  <1>7. OneRun'
    BY <1>2, <1>3, TimersDiffer DEF Serial, OneRun, RunsJob
  <1> QED
    BY <1>4, <1>5, <1>6, <1>7 DEF Serial

\* The finally of the first run arms the interval when the run is over.
LEMMA EndFirstSerial ==
    ASSUME TypeOK, Serial, NEW j \in Jobs, NEW w \in Workers, EndFirst(w, j)
    PROVE  Serial'
  <1>1. /\ run[w] = Timeout(j)
        /\ run' = [run EXCEPT ![w] = None]
        /\ armed' \subseteq armed \cup {Interval(j)}
        /\ name' = name /\ fin' = fin
    BY DEF EndFirst, Ended, Timeout, Interval
  <1>2. /\ Timeout(j) \notin armed /\ name[j] # None
        /\ \A v \in Workers : v # w => ~RunsJob(v, j)
    BY <1>1 DEF Serial, Stages, Unscheduled, OneRun, RunsJob
  <1>3. \A v \in Workers : run'[v] = IF v = w THEN None ELSE run[v]
    BY <1>1 DEF TypeOK
  <1>4. Unscheduled'
    BY <1>1, <1>2, <1>3, TimersDiffer DEF Serial, Unscheduled, RunsJob
  <1>5. Stages'
    BY <1>1, <1>2, <1>3, TimersDiffer DEF Serial, Stages, RunsJob
  <1>6. FinTells' /\ OneRun'
    BY <1>1, <1>3, TimersDiffer DEF Serial, FinTells, OneRun, RunsJob
  <1> QED
    BY <1>4, <1>5, <1>6 DEF Serial

\* The finally of a later run sets fin when the only run is over.
LEMMA EndNextSerial ==
    ASSUME TypeOK, Serial, NEW j \in Jobs, NEW w \in Workers, EndNext(w, j)
    PROVE  Serial'
  <1>1. /\ run[w] = Interval(j)
        /\ run' = [run EXCEPT ![w] = None]
        /\ fin' = [fin EXCEPT ![j] = TRUE]
        /\ name' = name /\ armed' = armed
    BY DEF EndNext, Ended, Interval
  <1>2. \A v \in Workers : v # w => ~RunsJob(v, j)
    BY <1>1 DEF Serial, OneRun, RunsJob
  <1>3. /\ \A v \in Workers : run'[v] = IF v = w THEN None ELSE run[v]
        /\ \A i \in Jobs : fin'[i] = IF i = j THEN TRUE ELSE fin[i]
    BY <1>1 DEF TypeOK
  <1>4. Unscheduled' /\ Stages' /\ OneRun'
    BY <1>1, <1>3, TimersDiffer DEF Serial, Unscheduled, Stages, OneRun, RunsJob
  <1>5. FinTells'
    BY <1>2, <1>3, TimersDiffer DEF Serial, FinTells, RunsJob
  <1> QED
    BY <1>4, <1>5 DEF Serial

\* Every step of a scheduler that is not concurrent keeps the runs apart.
LEMMA SerialStep ==
    ASSUME TypeOK, Serial, ~concur, [Next]_vars
    PROVE  Serial'
  <1>1. ASSUME NEW j \in Jobs, NEW n \in Names, NEW p \in BOOLEAN, Schedule(j, n, p)
        PROVE  Serial'
    BY <1>1, ScheduleSerial
  <1>2. ASSUME NEW j \in Jobs, NEW w \in Workers, FireTimeout(w, j) \/ FireInterval(w, j)
        PROVE  Serial'
    BY <1>2, FireTimeoutSerial, FireIntervalSerial
  <1>3. ASSUME NEW j \in Jobs, NEW w \in Workers, EndFirst(w, j) \/ EndNext(w, j)
        PROVE  Serial'
    BY <1>3, EndFirstSerial, EndNextSerial
  <1>4. ASSUME NEW n \in Names, Cancel(n)
        PROVE  Serial'
    BY <1>4, NothingArmed DEF Cancel
  <1>5. ASSUME NEW u \in Users, NEW n \in Names, CancelAwait(u, n)
        PROVE  Serial'
    BY <1>5, CallsArmNothing, NothingArmed
  <1>6. ASSUME NEW u \in Users, Cancelled(u) \/ ShutdownAwait(u) \/ ShutdownNext(u)
        PROVE  Serial'
    BY <1>6, NothingArmed DEF Cancelled, ShutdownAwait, ShutdownNext
  <1>7. CASE Shutdown \/ UNCHANGED vars
    BY <1>7, NothingArmed DEF Shutdown, vars
  <1> QED
    BY <1>1, <1>2, <1>3, <1>4, <1>5, <1>6, <1>7 DEF Next, Fire, End

-----------------------------------------------------------------------------
\* The inductive invariant.
IInv == TypeOK /\ (~concur => Serial)

\* It holds at first.
LEMMA InitOK == Init => IInv
  <1> SUFFICES ASSUME Init
               PROVE  IInv
    OBVIOUS
  <1>1. TypeOK
    BY SchedulerAssumption DEF Init, TypeOK, Idle
  <1>2. \A j \in Jobs, w \in Workers : ~RunsJob(w, j)
    BY TimersDiffer DEF Init, RunsJob
  <1>3. Serial
    BY <1>2 DEF Init, Serial, Unscheduled, Stages, FinTells, OneRun, RunsJob
  <1> QED
    BY <1>1, <1>3 DEF IInv

\* The invariant holds in every reachable state.
LEMMA IInvAlways == Spec => []IInv
  <1>1. ASSUME [Next]_vars
        PROVE  concur' = concur
    BY <1>1 DEF Next, vars, Fire, End, Schedule, FireTimeout, FireInterval, EndFirst, EndNext,
                Cancel, CancelAwait, Cancelled, Shutdown, ShutdownAwait, ShutdownNext
  <1>2. IInv /\ [Next]_vars => IInv'
    BY <1>1, TypeStep, SerialStep DEF IInv
  <1> QED
    BY InitOK, <1>2, PTL DEF Spec

\* The state of the scheduler keeps its type.
THEOREM SchedulerTyped == Spec => []TypeOK
  <1>1. IInv => TypeOK
    BY DEF IInv
  <1> QED
    BY IInvAlways, <1>1, PTL

\* The runs of one task of a scheduler that is not concurrent never overlap.
THEOREM RunsNeverOverlap == Spec => []SerialRuns
  <1>1. ASSUME Serial, TypeOK, NEW v \in Workers, NEW w \in Workers,
               v # w, run[v] # None, run[w] # None
        PROVE  run[v][1] # run[w][1]
    <2>1. PICK i \in Jobs : RunsJob(v, i) /\ run[v][1] = i
      BY <1>1 DEF TypeOK, Timers, RunsJob, Timeout, Interval
    <2>2. PICK j \in Jobs : RunsJob(w, j) /\ run[w][1] = j
      BY <1>1 DEF TypeOK, Timers, RunsJob, Timeout, Interval
    <2> QED
      BY <1>1, <2>1, <2>2 DEF Serial, OneRun
  <1>2. IInv => SerialRuns
    BY <1>1 DEF IInv, SerialRuns
  <1> QED
    BY IInvAlways, <1>2, PTL

-----------------------------------------------------------------------------
\* A timer that some part of the scheduler still refers to.
Known(t) ==
    \/ t \in armed
    \/ \E n \in Names : timers[n] = t
    \/ \E w \in Workers : run[w] = t
    \/ \E u \in Users : call[u].timer = t

\* Whether the call of schedule has its first run still before it, or is in it.
First(j) ==
    \/ name[j] = None \/ Timeout(j) \in armed
    \/ \E w \in Workers : run[w] = Timeout(j)

\* Concurrent or not, a call has one timeout that fires once, and nothing
\* knows its interval before the first run is over.
Begun ==
    /\ \A j \in Jobs : name[j] = None => ~Known(Timeout(j))
    /\ \A j \in Jobs : First(j) => ~Known(Interval(j))
    /\ \A j \in Jobs, w \in Workers : run[w] = Timeout(j) => Timeout(j) \notin armed
    /\ \A j \in Jobs, v, w \in Workers :
          run[v] = Timeout(j) /\ run[w] = Timeout(j) => v = w

\* What a cancel waits for was cleared.
Cleared == \A u \in Users : call[u].op = "cancel" => call[u].timer \notin armed

\* A step that makes no timer known and starts and ends no run keeps Begun.
LEMMA NothingNew ==
    ASSUME Begun, name' = name, run' = run, armed' \subseteq armed,
           \A t \in Timers : Known(t)' => Known(t)
    PROVE  Begun'
  <1>1. \A j \in Jobs : (First(j)' => First(j)) /\ Timeout(j) \in Timers /\ Interval(j) \in Timers
    BY TimersDiffer DEF First
  <1> QED
    BY <1>1 DEF Begun

\* schedule makes one timeout known.
LEMMA ScheduleBegun ==
    ASSUME TypeOK, Begun, Cleared, NEW j \in Jobs, NEW n \in Names, NEW p \in BOOLEAN,
           Schedule(j, n, p)
    PROVE  Begun' /\ Cleared'
  <1>1. /\ name[j] = None /\ n # None
        /\ \A i \in Jobs : name'[i] = IF i = j THEN n ELSE name[i]
        /\ armed' = armed \cup {Timeout(j)}
        /\ \A m \in Names : timers'[m] = IF m = n THEN Timeout(j) ELSE timers[m]
        /\ run' = run /\ call' = call
    BY SchedulerAssumption DEF Schedule, List, Timeout, TypeOK
  <1>2. \A t : t # Timeout(j) => (Known(t)' => Known(t))
    BY <1>1 DEF Known
  <1>3. ~Known(Timeout(j)) /\ ~Known(Interval(j)) /\ First(j)
    BY <1>1 DEF Begun, First
  <1>4. \A i \in Jobs : First(i)' => First(i)
    BY <1>1, <1>3, TimersDiffer DEF First
  <1>5. /\ \A i \in Jobs : name'[i] = None => i # j /\ name[i] = None
        /\ \A i \in Jobs : i # j => Timeout(i) # Timeout(j)
        /\ \A i \in Jobs : Interval(i) # Timeout(j)
    BY <1>1, TimersDiffer
  <1>6. \A w \in Workers : run[w] # Timeout(j)
    BY <1>3 DEF Known
  <1>7. \A u \in Users : call[u].timer # Timeout(j)
    BY <1>3 DEF Known
  <1>8. Begun'
    BY <1>1, <1>2, <1>4, <1>5, <1>6 DEF Begun
  <1>9. Cleared'
    BY <1>1, <1>7 DEF Cleared
  <1> QED
    BY <1>8, <1>9

\* A timer that fires was known.
LEMMA FireBegun ==
    ASSUME TypeOK, Begun, Cleared, NEW j \in Jobs, NEW w \in Workers,
           FireTimeout(w, j) \/ FireInterval(w, j)
    PROVE  Begun' /\ Cleared'
  <1>1. PICK t \in {Timeout(j), Interval(j)} :
            /\ t \in armed /\ run' = [run EXCEPT ![w] = t]
            /\ t = Timeout(j) => armed' = armed \ {t}
    BY DEF FireTimeout, FireInterval, Timeout, Interval
  <1>2. /\ name' = name /\ timers' = timers /\ call' = call /\ armed' \subseteq armed
        /\ \A v \in Workers : run'[v] = IF v = w THEN t ELSE run[v]
    BY <1>1 DEF FireTimeout, FireInterval, TypeOK
  <1>3. \A s : Known(s)' => Known(s)
    BY <1>1, <1>2 DEF Known
  <1>4. \A i \in Jobs : First(i)' => First(i)
    BY <1>1, <1>2 DEF First
  <1>5. t = Timeout(j) => \A v \in Workers : run[v] # Timeout(j)
    BY <1>1 DEF Begun
  <1>6. Begun'
    BY <1>1, <1>2, <1>3, <1>4, <1>5, TimersDiffer DEF Begun
  <1>7. Cleared'
    BY <1>2 DEF Cleared
  <1> QED
    BY <1>6, <1>7

\* The end of the first run makes the interval known.
LEMMA EndFirstBegun ==
    ASSUME TypeOK, Begun, Cleared, NEW j \in Jobs, NEW w \in Workers, EndFirst(w, j)
    PROVE  Begun' /\ Cleared'
  <1>1. /\ run[w] = Timeout(j) /\ name' = name
        /\ armed' \subseteq armed \cup {Interval(j)}
        /\ \A v \in Workers : run'[v] = IF v = w THEN None ELSE run[v]
        /\ \A u \in Users : call'[u].timer = call[u].timer /\ call'[u].op = call[u].op
    BY DEF EndFirst, Ended, Timeout, Interval, TypeOK
  <1>2. \A m \in Names : timers'[m] \in {timers[m], Interval(j), None}
    BY DEF EndFirst, List, Unlist, Interval, TypeOK
  <1>3. \A t \in Timers : t # Interval(j) => (Known(t)' => Known(t))
    BY <1>1, <1>2, SchedulerAssumption DEF Known, Timers
  <1>4. Known(Timeout(j)) /\ name[j] # None /\ Timeout(j) \notin armed
    BY <1>1 DEF Known, Begun
  <1>5. First(j) /\ ~Known(Interval(j))
    BY <1>1 DEF First, Begun
  <1>6. ~First(j)'
    BY <1>1, <1>4, TimersDiffer DEF First, Begun
  <1>7. \A i \in Jobs : First(i)' => First(i)
    BY <1>1, TimersDiffer DEF First
  <1>8. \A i \in Jobs : i # j => Interval(i) # Interval(j)
    BY TimersDiffer
  <1>9. Begun'
    <2>1. \A i \in Jobs : name'[i] = None => ~Known(Timeout(i))'
      BY <1>1, <1>3, TimersDiffer DEF Begun
    <2>2. \A i \in Jobs : First(i)' => ~Known(Interval(i))'
      BY <1>3, <1>6, <1>7, <1>8, TimersDiffer DEF Begun
    <2>3. \A i \in Jobs, v \in Workers : run'[v] = Timeout(i) => Timeout(i) \notin armed'
      BY <1>1, TimersDiffer DEF Begun
    <2>4. \A i \in Jobs, v, x \in Workers :
              run'[v] = Timeout(i) /\ run'[x] = Timeout(i) => v = x
      BY <1>1, TimersDiffer DEF Begun
    <2> QED
      BY <2>1, <2>2, <2>3, <2>4 DEF Begun, Timeout, Interval
  <1>10. \A u \in Users : call[u].timer # Interval(j)
    BY <1>5 DEF Known
  <1>11. Cleared'
    BY <1>1, <1>10 DEF Cleared
  <1> QED
    BY <1>9, <1>11

\* The end of a later run makes nothing known.
LEMMA EndNextBegun ==
    ASSUME TypeOK, Begun, Cleared, NEW j \in Jobs, NEW w \in Workers, EndNext(w, j)
    PROVE  Begun' /\ Cleared'
  <1>1. /\ run[w] = Interval(j) /\ name' = name /\ armed' = armed /\ timers' = timers
        /\ \A v \in Workers : run'[v] = IF v = w THEN None ELSE run[v]
        /\ \A u \in Users : call'[u].timer = call[u].timer /\ call'[u].op = call[u].op
    BY DEF EndNext, Ended, Interval, TypeOK
  <1>2. \A t \in Timers : Known(t)' => Known(t)
    BY <1>1, SchedulerAssumption DEF Known, Timers
  <1>3. \A i \in Jobs : First(i)' => First(i)
    BY <1>1, TimersDiffer DEF First
  <1>4. \A i \in Jobs, v \in Workers : run'[v] = Timeout(i) => run[v] = Timeout(i)
    BY <1>1, TimersDiffer
  <1>5. Begun'
    BY <1>1, <1>2, <1>3, <1>4, TimersDiffer DEF Begun
  <1>6. Cleared'
    BY <1>1 DEF Cleared
  <1> QED
    BY <1>5, <1>6

\* A cancel or a shutdown forgets timers and clears them.
LEMMA CancelBegun ==
    ASSUME TypeOK, Begun, Cleared, (\E n \in Names : Cancel(n)) \/ Shutdown
    PROVE  Begun' /\ Cleared'
  <1>1. /\ name' = name /\ run' = run /\ call' = call /\ armed' \subseteq armed
        /\ \A m \in Names : timers'[m] \in {timers[m], None}
    BY DEF Cancel, Unlist, Shutdown, TypeOK
  <1>2. \A t \in Timers : Known(t)' => Known(t)
    BY <1>1, SchedulerAssumption DEF Known, Timers
  <1> QED
    BY <1>1, <1>2, NothingNew DEF Cleared

\* So do those that wait, and what they wait for was listed.
LEMMA WaitBegun ==
    ASSUME TypeOK, Begun, Cleared, NEW u \in Users,
           \/ \E n \in Names : CancelAwait(u, n)
           \/ Cancelled(u) \/ ShutdownAwait(u) \/ ShutdownNext(u)
    PROVE  Begun' /\ Cleared'
  <1>1. /\ name' = name /\ run' = run /\ armed' \subseteq armed
        /\ \A m \in Names : timers'[m] \in {timers[m], None}
    BY DEF CancelAwait, Cancelled, Unlist, ShutdownAwait, ShutdownNext, TypeOK
  <1>2. \A x \in Users : x # u => call'[x] = call[x]
    BY DEF CancelAwait, Cancelled, ShutdownAwait, ShutdownNext, TypeOK
  <1>3. /\ call'[u].timer \in {call[u].timer, None} \cup {timers[m] : m \in Names}
        /\ call'[u].op = "cancel" =>
              \/ call[u].op = "cancel" /\ call'[u].timer = call[u].timer
              \/ call'[u].timer \notin armed'
    <2>1. call \in [Users -> [op: {"none", "cancel", "shutdown"}, name: Names \cup {None},
                              timer: Timers \cup {None}, on: Workers \cup {None}]]
      BY DEF TypeOK
    <2>2. CASE \E n \in Names : CancelAwait(u, n)
      BY <2>1, <2>2 DEF CancelAwait
    <2>3. CASE Cancelled(u)
      BY <2>1, <2>3 DEF Cancelled, Idle
    <2>4. CASE ShutdownAwait(u)
      BY <2>1, <2>4 DEF ShutdownAwait
    <2>5. CASE ShutdownNext(u)
      <3>1. call[u].op = "shutdown"
        BY <2>5 DEF ShutdownNext
      <3>2. \/ \E w \in Workers : call' = [call EXCEPT ![u].on = w]
            \/ \E m \in Names, w \in Workers :
                  call' = [call EXCEPT ![u].timer = timers[m], ![u].on = w]
            \/ call' = [call EXCEPT ![u] = Idle]
        BY <2>5 DEF ShutdownNext, RunsOf, Ahead
      <3>3. CASE \E w \in Workers : call' = [call EXCEPT ![u].on = w]
        BY <2>1, <3>1, <3>3
      <3>4. CASE \E m \in Names, w \in Workers :
                    call' = [call EXCEPT ![u].timer = timers[m], ![u].on = w]
        BY <2>1, <3>1, <3>4
      <3>5. CASE call' = [call EXCEPT ![u] = Idle]
        BY <2>1, <3>5 DEF Idle
      <3> QED
        BY <3>2, <3>3, <3>4, <3>5
    <2> QED
      BY <2>2, <2>3, <2>4, <2>5
  <1>4. \A t \in Timers : Known(t)' => Known(t)
    BY <1>1, <1>2, <1>3, SchedulerAssumption DEF Known, Timers
  <1>5. Begun'
    BY <1>1, <1>4, NothingNew
  <1>6. Cleared'
    BY <1>1, <1>2, <1>3 DEF Cleared
  <1> QED
    BY <1>5, <1>6

\* Every step, whether the scheduler is concurrent or not.
LEMMA BegunStep ==
    ASSUME TypeOK, Begun, Cleared, [Next]_vars
    PROVE  Begun' /\ Cleared'
  <1>1. CASE UNCHANGED vars
    BY <1>1 DEF vars, Begun, Cleared, Known, First
  <1>2. CASE Next
    <2>1. ASSUME NEW j \in Jobs, NEW n \in Names, NEW p \in BOOLEAN, Schedule(j, n, p)
          PROVE  Begun' /\ Cleared'
      BY <2>1, ScheduleBegun
    <2>2. ASSUME NEW j \in Jobs, NEW w \in Workers, FireTimeout(w, j) \/ FireInterval(w, j)
          PROVE  Begun' /\ Cleared'
      BY <2>2, FireBegun
    <2>3. ASSUME NEW j \in Jobs, NEW w \in Workers, EndFirst(w, j) \/ EndNext(w, j)
          PROVE  Begun' /\ Cleared'
      BY <2>3, EndFirstBegun, EndNextBegun
    <2>4. CASE (\E n \in Names : Cancel(n)) \/ Shutdown
      BY <2>4, CancelBegun
    <2>5. ASSUME NEW u \in Users,
                 \/ \E n \in Names : CancelAwait(u, n)
                 \/ Cancelled(u) \/ ShutdownAwait(u) \/ ShutdownNext(u)
          PROVE  Begun' /\ Cleared'
      BY <2>5, WaitBegun
    <2> QED
      BY <1>2, <2>1, <2>2, <2>3, <2>4, <2>5 DEF Next, Fire, End
  <1> QED
    BY <1>1, <1>2

\* An awaiting cancel returns when no run of its timer is left, and none will
\* follow: the timer was cleared before the first join, and nothing arms a
\* timer again, not even the finally of a first run.
THEOREM CancelIsFinal == Spec => CancelWaits
  <1> DEFINE A == \A u \in Users : call[u].op = "cancel" /\ call'[u].op = "none" =>
                      RunsOf(call[u].timer) = {} /\ call[u].timer \notin armed'
  <1>1. Init => Begun /\ Cleared
    BY TimersDiffer DEF Init, Begun, Cleared, Known, Idle
  <1>2. ASSUME TypeOK, Cleared, [Next]_vars
        PROVE  A
    <2>1. ASSUME NEW u \in Users, call[u].op = "cancel", call'[u].op = "none"
          PROVE  RunsOf(call[u].timer) = {} /\ call[u].timer \notin armed'
      <3>1. Cancelled(u)
        <4>1. call' # call /\ call'[u].op # call[u].op
          BY <2>1
        <4>2. ASSUME NEW w \in Workers, NEW j \in Jobs, EndFirst(w, j) \/ EndNext(w, j)
              PROVE  FALSE
          <5>1. Ended(w)
            BY <4>2 DEF EndFirst, EndNext
          <5>2. call'[u].op = call[u].op
            BY <1>2, <5>1 DEF Ended, TypeOK
          <5> QED
            BY <2>1, <5>2
        <4>3. ASSUME NEW v \in Users, v # u,
                     \/ \E n \in Names : CancelAwait(v, n)
                     \/ Cancelled(v) \/ ShutdownAwait(v) \/ ShutdownNext(v)
              PROVE  FALSE
          BY <2>1, <1>2, <4>3 DEF CancelAwait, Cancelled, ShutdownAwait, ShutdownNext, TypeOK
        <4>4. ~(\E n \in Names : CancelAwait(u, n)) /\ ~ShutdownAwait(u) /\ ~ShutdownNext(u)
          BY <2>1 DEF CancelAwait, ShutdownAwait, ShutdownNext, Idle
        <4> QED
          BY <1>2, <4>1, <4>2, <4>3, <4>4 DEF Next, Fire, End, Schedule, FireTimeout,
             FireInterval, Cancel, Shutdown, vars
      <3>2. RunsOf(call[u].timer) = {} /\ armed' = armed
        BY <1>2, <2>1, <3>1 DEF Cancelled, TypeOK
      <3> QED
        BY <1>2, <2>1, <3>2 DEF Cleared
    <2> QED
      BY <2>1
  <1>3. IInv => TypeOK
    BY DEF IInv
  <1> QED
    BY <1>1, <1>2, <1>3, IInvAlways, BegunStep, PTL DEF Spec, CancelWaits
=============================================================================
