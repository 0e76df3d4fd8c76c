------------------------------ MODULE BufferPool ------------------------------
(***************************************************************************)
(* The buffer pool (buffer/buffer-pool.js): it holds no memory, it counts  *)
(* the bytes of the buffers it has handed out and refuses, or lets wait,   *)
(* who would exceed the limit.  A user is a coroutine with one buffer, as  *)
(* a Connection has one write buffer.  Coroutines switch only in           *)
(* available.wait(), so a call is one action up to its first wait, and     *)
(* each wake-up with the test that follows it is another.                  *)
(***************************************************************************)
EXTENDS Integers, FiniteSets, Functions

CONSTANTS
    Users,
    ChunkSize, PageSize, PageCount,
    Sizes         \* the sizes asked for: a bound on the arguments

ASSUME PoolAssumption ==
    /\ IsFiniteSet(Users)
    /\ ChunkSize \in Nat \ {0} /\ PageSize \in Nat \ {0} /\ PageCount \in Nat \ {0}
    /\ PageSize * PageCount \in Nat /\ ChunkSize <= PageSize * PageCount
    /\ Sizes \subseteq Nat

TotalSize == PageSize * PageCount

VARIABLES
    pc,           \* "run", or the call in which the user waits
    need,         \* the size it waits for
    has, len,     \* its buffer: whether the pool counts it, and its length
    allocated,
    asleep        \* who waits for available and has not been woken

vars == <<pc, need, has, len, allocated, asleep>>

TypeOK ==
    /\ pc \in [Users -> {"run", "allocate", "resize"}]
    /\ need \in [Users -> Nat]
    /\ has \in [Users -> BOOLEAN]
    /\ len \in [Users -> Nat]
    /\ allocated \in Int
    /\ asleep \in SUBSET Users

Init ==
    /\ pc = [p \in Users |-> "run"]
    /\ need = [p \in Users |-> 0]
    /\ has = [p \in Users |-> FALSE]
    /\ len = [p \in Users |-> 0]
    /\ allocated = 0
    /\ asleep = {}

-----------------------------------------------------------------------------
\* allocate rounds up to chunks; 0, the default, is one chunk.
InChunks(size) ==
    IF size = 0 THEN ChunkSize
    ELSE IF size % ChunkSize > 0 THEN size + (ChunkSize - (size % ChunkSize))
    ELSE size

\* The test of both loops.  resize too adds the whole new size, not the growth.
Fits(size) == size + allocated <= TotalSize

\* clear() and wait(): wait() blocks until the next set().
Sleep(p, call, size) ==
    /\ pc' = [pc EXCEPT ![p] = call]
    /\ need' = [need EXCEPT ![p] = size]
    /\ asleep' = asleep \cup {p}
    /\ UNCHANGED <<has, len, allocated>>

\* set() wakes everybody who waits.
WakeAll == asleep' = {}

\* Mutant: the whole new size is added when a buffer grows.
GrantTwice(p, size) ==
    /\ has' = [has EXCEPT ![p] = TRUE]
    /\ len' = [len EXCEPT ![p] = size]
    /\ allocated' = allocated + size
    /\ pc' = [pc EXCEPT ![p] = "run"]
    /\ need' = [need EXCEPT ![p] = 0]
    /\ UNCHANGED asleep

\* The end of allocate and of a growing resize.
Grant(p, size) ==
    /\ has' = [has EXCEPT ![p] = TRUE]
    /\ len' = [len EXCEPT ![p] = size]
    /\ allocated' = allocated + (size - len[p])
    /\ pc' = [pc EXCEPT ![p] = "run"]
    /\ need' = [need EXCEPT ![p] = 0]
    /\ UNCHANGED asleep

\* Without await a call that does not fit throws and changes nothing.
Allocate(p, s) ==
    /\ pc[p] = "run" /\ ~has[p]
    /\ \/ Fits(InChunks(s)) /\ Grant(p, InChunks(s))
       \/ ~Fits(InChunks(s)) /\ Sleep(p, "allocate", InChunks(s))

Grow(p, s) ==
    /\ pc[p] = "run" /\ has[p]
    /\ s > len[p]
    /\ \/ Fits(s) /\ Grant(p, s)
       \/ ~Fits(s) /\ Sleep(p, "resize", s)

\* Mutant: the room a shrinking buffer makes is told to nobody.
ShrinkSilently(p, s) ==
    /\ pc[p] = "run" /\ has[p]
    /\ s <= len[p]
    /\ len' = [len EXCEPT ![p] = s]
    /\ allocated' = allocated - (len[p] - s)
    /\ UNCHANGED <<pc, need, has, asleep>>

Shrink(p, s) ==
    /\ pc[p] = "run" /\ has[p]
    /\ s <= len[p]
    /\ len' = [len EXCEPT ![p] = s]
    /\ allocated' = allocated - (len[p] - s)
    /\ WakeAll
    /\ UNCHANGED <<pc, need, has>>

\* A second release finds _allocated gone and changes nothing.
Release(p) ==
    /\ pc[p] = "run" /\ has[p]
    /\ has' = [has EXCEPT ![p] = FALSE]
    /\ len' = [len EXCEPT ![p] = 0]
    /\ allocated' = allocated - len[p]
    /\ WakeAll
    /\ UNCHANGED <<pc, need>>

\* Mutant: an if for the while, the woken user does not test again.
WokenTakes(p) ==
    /\ pc[p] # "run" /\ p \notin asleep
    /\ Grant(p, need[p])

Woken(p) ==
    /\ pc[p] # "run" /\ p \notin asleep
    /\ \/ Fits(need[p]) /\ Grant(p, need[p])
       \/ ~Fits(need[p]) /\ Sleep(p, pc[p], need[p])

Next ==
    \E p \in Users :
        \/ \E s \in Sizes : Allocate(p, s) \/ Grow(p, s) \/ Shrink(p, s)
        \/ Release(p)
        \/ Woken(p)

Spec == Init /\ [][Next]_vars

-----------------------------------------------------------------------------
\* The count is the sum of the lengths of the buffers handed out, through
\* growing, shrinking and waiting: a drift would shrink the pool for good.
CountsBuffers ==
    allocated = SumFunction(len)

\* The pool limits what it is there to limit, whoever was woken together.
WithinLimit == allocated <= TotalSize

\* Nobody sleeps on a request the pool would grant: whatever makes room wakes
\* the sleepers, and nothing blocks between the test of a loop and its wait().
NoSleeperFits == \A p \in asleep : ~Fits(need[p])
=============================================================================
