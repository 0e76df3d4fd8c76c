------------------------------ MODULE Scheduler ------------------------------
(***************************************************************************)
(* The scheduler of named tasks (util/scheduler.js).  A call of schedule   *)
(* is a job: a timeout, and after its first run, if the task is periodic,  *)
(* an interval.  Every run is a coroutine of its own; coroutines switch    *)
(* inside the tasks and in the join of an awaiting cancel or shutdown.     *)
(***************************************************************************)
EXTENDS Integers

CONSTANTS
    Names,
    Jobs,         \* the calls of schedule: a bound on their number
    Workers,      \* the coroutines that run tasks: a bound on those at once
    Users,        \* the coroutines that may wait in cancel or shutdown
    None

ASSUME SchedulerAssumption ==
    /\ None \notin Names /\ None \notin Workers
    /\ None \notin Jobs \X {"timeout", "interval"}

Timers == Jobs \X {"timeout", "interval"}

VARIABLES
    concur,       \* whether the runs of a periodic task may overlap
    name, per,    \* of each job; None before it is scheduled
    armed,        \* the timers that may still fire
    timers,       \* #timers: the timer listed under each name
    fin,          \* per job: whether its interval may start the task
    run,          \* the timer whose task each worker runs
    call,         \* what each user waits in: the timer, and the worker joined
    seen,         \* the names a shutdown has passed
    closed

vars == <<concur, name, per, armed, timers, fin, run, call, seen, closed>>

Idle == [op |-> "none", name |-> None, timer |-> None, on |-> None]

TypeOK ==
    /\ concur \in BOOLEAN
    /\ name \in [Jobs -> Names \cup {None}]
    /\ per \in [Jobs -> BOOLEAN]
    /\ armed \in SUBSET Timers
    /\ timers \in [Names -> Timers \cup {None}]
    /\ fin \in [Jobs -> BOOLEAN]
    /\ run \in [Workers -> Timers \cup {None}]
    /\ call \in [Users -> [op: {"none", "cancel", "shutdown"}, name: Names \cup {None},
                           timer: Timers \cup {None}, on: Workers \cup {None}]]
    /\ seen \in [Users -> SUBSET Names]
    /\ closed \in BOOLEAN

Init ==
    /\ concur \in BOOLEAN
    /\ name = [j \in Jobs |-> None]
    /\ per = [j \in Jobs |-> FALSE]
    /\ armed = {}
    /\ timers = [n \in Names |-> None]
    /\ fin = [j \in Jobs |-> TRUE]
    /\ run = [w \in Workers |-> None]
    /\ call = [u \in Users |-> Idle]
    /\ seen = [u \in Users |-> {}]
    /\ closed = FALSE

-----------------------------------------------------------------------------
\* tm._cos: the coroutines that run the task of timer t.
RunsOf(t) == {w \in Workers : t # None /\ run[w] = t}

\* #timers.set.  A Map that is iterated shows a key that comes back anew.
List(n, t) ==
    /\ timers' = [timers EXCEPT ![n] = t]
    /\ seen' = [u \in Users |-> IF timers[n] = None THEN seen[u] \ {n} ELSE seen[u]]

\* #timers.delete.
Unlist(n) ==
    /\ timers' = [timers EXCEPT ![n] = None]
    /\ UNCHANGED seen

Schedule(j, n, p) ==
    /\ name[j] = None
    /\ ~closed /\ timers[n] = None
    /\ name' = [name EXCEPT ![j] = n]
    /\ per' = [per EXCEPT ![j] = p]
    /\ armed' = armed \cup {<<j, "timeout">>}
    /\ List(n, <<j, "timeout">>)
    /\ UNCHANGED <<concur, fin, run, call, closed>>

\* The first run begins.
FireTimeout(w, j) ==
    /\ run[w] = None
    /\ <<j, "timeout">> \in armed
    /\ run' = [run EXCEPT ![w] = <<j, "timeout">>]
    /\ armed' = armed \ {<<j, "timeout">>}
    /\ UNCHANGED <<concur, name, per, timers, fin, call, seen, closed>>

\* Mutant: the interval does not look whether its last run is over.
FireAlways(w, j) ==
    /\ run[w] = None
    /\ <<j, "interval">> \in armed
    /\ run' = [run EXCEPT ![w] = <<j, "interval">>]
    /\ fin' = [fin EXCEPT ![j] = FALSE]
    /\ UNCHANGED <<concur, name, per, armed, timers, call, seen, closed>>

FireInterval(w, j) ==
    /\ run[w] = None
    /\ <<j, "interval">> \in armed
    /\ fin[j] \/ concur
    /\ run' = [run EXCEPT ![w] = <<j, "interval">>]
    /\ fin' = [fin EXCEPT ![j] = FALSE]
    /\ UNCHANGED <<concur, name, per, armed, timers, call, seen, closed>>

\* A coroutine ends, and whoever joined it can go on.
Ended(w) ==
    /\ run' = [run EXCEPT ![w] = None]
    /\ call' = [u \in Users |->
                   IF call[u].on = w THEN [call[u] EXCEPT !.on = None] ELSE call[u]]

\* The finally of the timeout: arm the interval, or forget the name.
EndFirst(w, j) ==
    /\ run[w] = <<j, "timeout">>
    /\ Ended(w)
    /\ \/ /\ per[j]
          /\ armed' = armed \cup {<<j, "interval">>}
          /\ List(name[j], <<j, "interval">>)
       \/ /\ ~per[j]
          /\ Unlist(name[j])
          /\ UNCHANGED armed
    /\ UNCHANGED <<concur, name, per, fin, closed>>

\* Mutant: fin is not set when the task throws.
EndUnfinished(w, j) ==
    /\ run[w] = <<j, "interval">>
    /\ Ended(w)
    /\ UNCHANGED <<concur, name, per, armed, timers, fin, seen, closed>>

\* The finally of the interval.
EndNext(w, j) ==
    /\ run[w] = <<j, "interval">>
    /\ Ended(w)
    /\ fin' = [fin EXCEPT ![j] = TRUE]
    /\ UNCHANGED <<concur, name, per, armed, timers, seen, closed>>

-----------------------------------------------------------------------------
\* cancel without await, by anybody, a running task included.
Cancel(n) ==
    /\ timers[n] # None
    /\ armed' = armed \ {timers[n]}
    /\ Unlist(n)
    /\ UNCHANGED <<concur, name, per, fin, run, call, closed>>

\* Mutant: the timer is not cleared before its runs are joined.
CancelAwaitArmed(u, n) ==
    /\ call[u] = Idle
    /\ timers[n] # None
    /\ \E w \in RunsOf(timers[n]) :
          call' = [call EXCEPT ![u] =
                      [op |-> "cancel", name |-> n, timer |-> timers[n], on |-> w]]
    /\ UNCHANGED <<concur, name, per, armed, timers, fin, run, seen, closed>>

\* cancel with await joins the runs of the timer one by one, ...
CancelAwait(u, n) ==
    /\ call[u] = Idle
    /\ timers[n] # None
    /\ armed' = armed \ {timers[n]}
    /\ \E w \in RunsOf(timers[n]) :
          call' = [call EXCEPT ![u] =
                      [op |-> "cancel", name |-> n, timer |-> timers[n], on |-> w]]
    /\ UNCHANGED <<concur, name, per, timers, fin, run, seen, closed>>

\* Mutant: only the first coroutine is joined.
CancelledOne(u) ==
    /\ call[u].op = "cancel" /\ call[u].on = None
    /\ Unlist(call[u].name)
    /\ call' = [call EXCEPT ![u] = Idle]
    /\ UNCHANGED <<concur, name, per, armed, fin, run, closed>>

\* ... and then forgets the name, whatever is listed under it by now.
Cancelled(u) ==
    /\ call[u].op = "cancel" /\ call[u].on = None
    /\ \/ /\ \E w \in RunsOf(call[u].timer) : call' = [call EXCEPT ![u].on = w]
          /\ UNCHANGED <<timers, seen>>
       \/ /\ RunsOf(call[u].timer) = {}
          /\ Unlist(call[u].name)
          /\ call' = [call EXCEPT ![u] = Idle]
    /\ UNCHANGED <<concur, name, per, armed, fin, run, closed>>

Shutdown ==
    /\ closed' = TRUE
    /\ armed' = armed \ {timers[n] : n \in Names}
    /\ timers' = [n \in Names |-> None]
    /\ UNCHANGED <<concur, name, per, fin, run, call, seen>>

ShutdownAwait(u) ==
    /\ call[u] = Idle
    /\ closed' = TRUE
    /\ call' = [call EXCEPT ![u].op = "shutdown"]
    /\ seen' = [seen EXCEPT ![u] = {}]
    /\ UNCHANGED <<concur, name, per, armed, timers, fin, run>>

\* What the walk of cancelAll has still to pass.
Ahead(u) == {n \in Names \ seen[u] : timers[n] # None}

\* The walk passes what does not run and stops at a timer that does.  It ends
\* with timers.clear().  In which order the Map shows its keys is left open.
ShutdownNext(u) ==
    /\ call[u].op = "shutdown" /\ call[u].on = None
    /\ IF RunsOf(call[u].timer) # {}
       THEN /\ \E w \in RunsOf(call[u].timer) : call' = [call EXCEPT ![u].on = w]
            /\ UNCHANGED <<armed, timers, seen>>
       ELSE \/ \E n \in Ahead(u), w \in Workers, S \in SUBSET Ahead(u) :
                  /\ w \in RunsOf(timers[n])
                  /\ \A m \in S : RunsOf(timers[m]) = {}
                  /\ armed' = armed \ {timers[m] : m \in S \cup {n}}
                  /\ seen' = [seen EXCEPT ![u] = @ \cup S \cup {n}]
                  /\ call' = [call EXCEPT ![u].timer = timers[n], ![u].on = w]
                  /\ UNCHANGED timers
            \/ /\ \A n \in Ahead(u) : RunsOf(timers[n]) = {}
               /\ armed' = armed \ {timers[n] : n \in Ahead(u)}
               /\ timers' = [n \in Names |-> None]
               /\ call' = [call EXCEPT ![u] = Idle]
               /\ UNCHANGED seen
    /\ UNCHANGED <<concur, name, per, fin, run, closed>>

Fire(j) == \E w \in Workers : FireTimeout(w, j) \/ FireInterval(w, j)
End(w)  == \E j \in Jobs : EndFirst(w, j) \/ EndNext(w, j)

Next ==
    \/ \E j \in Jobs, n \in Names, p \in BOOLEAN : Schedule(j, n, p)
    \/ \E j \in Jobs : Fire(j)
    \/ \E w \in Workers : End(w)
    \/ \E n \in Names : Cancel(n) \/ \E u \in Users : CancelAwait(u, n)
    \/ \E u \in Users : Cancelled(u) \/ ShutdownAwait(u) \/ ShutdownNext(u)
    \/ Shutdown

Spec == Init /\ [][Next]_vars

\* Timers fire, tasks end and joins return; nothing is assumed of the callers.
\* Every firing has a coroutine of its own, so the bound Workers starves none:
\* strong fairness where the timers of two tasks compete for it.
Fairness ==
    /\ \A j \in Jobs : SF_vars(Fire(j))
    /\ \A w \in Workers : WF_vars(End(w))
    /\ \A u \in Users : WF_vars(Cancelled(u) \/ ShutdownNext(u))

LiveSpec == Spec /\ Fairness

-----------------------------------------------------------------------------
\* Unless the scheduler is concurrent, the runs of one task never overlap,
\* neither its first run with a later one nor two later ones.
SerialRuns ==
    ~concur =>
        \A v, w \in Workers : v # w /\ run[v] # None /\ run[w] # None =>
            run[v][1] # run[w][1]

\* When an awaiting cancel returns, every run of the timer it cancelled is
\* over, also when several ran at once, and no run of it can begin any more
\* (the test 'cancel await').
CancelWaits ==
    [][\A u \in Users : call[u].op = "cancel" /\ call'[u].op = "none" =>
          RunsOf(call[u].timer) = {} /\ call[u].timer \notin armed']_vars

\* A periodic task goes on: while its interval is not cleared it runs again
\* and again, however its runs end.
PeriodicGoesOn ==
    \A j \in Jobs : [](<<j, "interval">> \in armed =>
        <>(<<j, "interval">> \notin armed \/ \E w \in Workers : run[w] = <<j, "interval">>))

\* A cancel or shutdown that waits returns: what it joins was cleared first
\* and does not run again.
WaitsReturn == \A u \in Users : call[u].op # "none" ~> call[u].op = "none"
=============================================================================
