--------------------------- MODULE BufferPoolProofs ---------------------------
(* Proofs about the buffer pool, for every number of users, every size of the *)
(* pool and of its chunks, and every size asked for.                          *)
EXTENDS BufferPool, FiniteSetTheorems, WellFoundedInduction, TLAPS

\* What the two loops know of the user that waits in them: it waits for a
\* first buffer, or for one longer than its own.
WaitsForMore ==
    /\ \A p \in Users :
          /\ ~has[p] => len[p] = 0
          /\ pc[p] = "allocate" => ~has[p]
          /\ pc[p] = "resize" => has[p] /\ need[p] > len[p]
    /\ \A p \in asleep : pc[p] # "run"

IInv == TypeOK /\ WaitsForMore /\ WithinLimit /\ NoSleeperFits

-----------------------------------------------------------------------------
\* What the sum of the lengths is. The library's induction theorems take a
\* predicate; these take a set, and rest on the order of the naturals.

\* A set of naturals that is not empty has a least element.
LEMMA LeastOf ==
    ASSUME NEW T \in SUBSET Nat, T # {}
    PROVE  \E m \in T : \A n \in T : m <= n
  <1> DEFINE R == OpToRel(<, Nat)
  <1>1. IsWellFoundedOn(R, Nat)
    BY NatLessThanWellFounded, Zenon
  <1> HIDE DEF R
  <1>2. PICK m \in T : \A n \in T : <<n, m>> \notin R
    BY <1>1, WFMin
  <1>3. \A n \in T : ~(n < m)
    BY <1>2 DEF R, OpToRel
  <1> QED
    BY <1>3

\* Induction: what holds of 0 and of every successor holds of all.
LEMMA NatsIn ==
    ASSUME NEW S, 0 \in S, \A n \in Nat : n \in S => n + 1 \in S
    PROVE  Nat \subseteq S
  <1> SUFFICES ASSUME Nat \ S # {} PROVE FALSE
    OBVIOUS
  <1>1. PICK m \in Nat \ S : \A n \in Nat \ S : m <= n
    BY LeastOf
  <1>2. m # 0 /\ m - 1 \in Nat /\ m - 1 \in S
    BY <1>1
  <1> QED
    BY <1>1, <1>2

\* Induction on finite sets: what holds of the empty set, and of a set when it
\* holds of the set without the element picked, holds of every set of users.
Pick(T) == CHOOSE x \in T : TRUE

LEMMA SetsOfUsersIn ==
    ASSUME NEW S, {} \in S,
           \A T \in SUBSET Users : T # {} /\ T \ {Pick(T)} \in S => T \in S
    PROVE  SUBSET Users \subseteq S
  <1> DEFINE Upto == {n \in Nat : \A T \in SUBSET Users : Cardinality(T) <= n => T \in S}
  <1>1. \A T \in SUBSET Users : IsFiniteSet(T) /\ Cardinality(T) \in Nat
    BY PoolAssumption, FS_Subset, FS_CardinalityType
  <1>2. 0 \in Upto
    <2> SUFFICES ASSUME NEW T \in SUBSET Users, Cardinality(T) <= 0 PROVE T \in S
      OBVIOUS
    <2>1. IsFiniteSet(T) /\ Cardinality(T) = 0
      BY <1>1
    <2> QED
      BY <2>1, FS_EmptySet
  <1>3. ASSUME NEW n \in Nat, n \in Upto PROVE n + 1 \in Upto
    <2> SUFFICES ASSUME NEW T \in SUBSET Users, Cardinality(T) <= n + 1, T # {}
                 PROVE  T \in S
      OBVIOUS
    <2>1. Pick(T) \in T
      BY DEF Pick
    <2>2. Cardinality(T \ {Pick(T)}) = Cardinality(T) - 1
      BY <1>1, <2>1, FS_RemoveElement
    <2>3. T \ {Pick(T)} \in S
      BY <1>1, <1>3, <2>2
    <2> QED
      BY <2>3
  <1> HIDE DEF Upto
  <1>4. Nat \subseteq Upto
    BY <1>2, <1>3, NatsIn
  <1>5. ASSUME NEW T \in SUBSET Users PROVE T \in S
    BY <1>1, <1>4, <1>5 DEF Upto
  <1> QED
    BY <1>5

\* The function that SumFunction computes the sum with, one value for each
\* set of users.
Partial(f) ==
    CHOOSE g : g = [T \in SUBSET DOMAIN f |->
        IF T = {} THEN 0 ELSE f[Pick(T)] + g[T \ {Pick(T)}]]

LEMMA SumIsPartial ==
    ASSUME NEW f
    PROVE  SumFunction(f) = Partial(f)[DOMAIN f]
  BY Zenon DEF SumFunction, SumFunctionOnSet, FoldFunctionOnSet, MapThenFoldSet, Partial, Pick

\* There is such a function: a function that is right on the sets of up to n
\* users is, unrolled once, right on those of n + 1.
LEMMA PartialDefined ==
    ASSUME NEW f \in [Users -> Int]
    PROVE  \A T \in SUBSET Users :
              Partial(f)[T] = IF T = {} THEN 0 ELSE f[Pick(T)] + Partial(f)[T \ {Pick(T)}]
  <1> DEFINE Unrolled(g) == [T \in SUBSET Users |->
                 IF T = {} THEN 0 ELSE f[Pick(T)] + g[T \ {Pick(T)}]]
             Right(g, n) == \A T \in SUBSET Users :
                 Cardinality(T) <= n => g[T] = Unrolled(g)[T]
             Reached == {n \in Nat : \E g : Right(g, n)}
  <1>1. \A T \in SUBSET Users : IsFiniteSet(T) /\ Cardinality(T) \in Nat
    BY PoolAssumption, FS_Subset, FS_CardinalityType
  <1>2. 0 \in Reached
    <2> DEFINE zero == [T \in SUBSET Users |-> 0]
    <2>1. ASSUME NEW T \in SUBSET Users, Cardinality(T) <= 0
          PROVE  zero[T] = Unrolled(zero)[T]
      <3>1. IsFiniteSet(T) /\ Cardinality(T) = 0
        BY <1>1, <2>1
      <3>2. T = {}
        BY <3>1, FS_EmptySet
      <3> QED
        BY <3>2
    <2>2. Right(zero, 0)
      BY <2>1
    <2> QED
      BY <2>2
  <1>3. ASSUME NEW n \in Nat, n \in Reached PROVE n + 1 \in Reached
    <2>1. PICK g : Right(g, n)
      BY <1>3
    <2>2. ASSUME NEW T \in SUBSET Users, Cardinality(T) <= n + 1
          PROVE  Unrolled(g)[T] = Unrolled(Unrolled(g))[T]
      <3>1. CASE T = {}
        BY <3>1
      <3>2. CASE T # {}
        <4>1. Pick(T) \in T
          BY <3>2 DEF Pick
        <4>2. Cardinality(T \ {Pick(T)}) = Cardinality(T) - 1
          BY <1>1, <4>1, FS_RemoveElement
        <4>3. T \ {Pick(T)} \in SUBSET Users /\ Cardinality(T \ {Pick(T)}) <= n
          BY <1>1, <2>2, <4>2
        <4>4. g[T \ {Pick(T)}] = Unrolled(g)[T \ {Pick(T)}]
          BY <2>1, <4>3
        <4> HIDE <2>1
        <4> QED
          BY <3>2, <4>4
      <3> QED
        BY <3>1, <3>2
    <2> DEFINE u == Unrolled(g)
    <2>3. Right(u, n + 1)
      BY <2>2
    <2> HIDE DEF u, Unrolled
    <2> QED
      BY <2>3
  <1> HIDE DEF Reached
  <1>4. Cardinality(Users) \in Nat /\ Cardinality(Users) \in Reached
    BY <1>1, <1>2, <1>3, NatsIn
  <1>5. PICK g : Right(g, Cardinality(Users))
    BY <1>4 DEF Reached
  <1>6. \A T \in SUBSET Users : Cardinality(T) <= Cardinality(Users)
    BY PoolAssumption, FS_Subset
  <1>7. Unrolled(g) = Unrolled(Unrolled(g))
    <2>1. \A T \in SUBSET Users : g[T] = Unrolled(g)[T]
      BY <1>5, <1>6
    <2>2. \A T \in SUBSET Users : T # {} => T \ {Pick(T)} \in SUBSET Users
      OBVIOUS
    <2> QED
      BY <2>1, <2>2
  <1>8. Partial(f) = Unrolled(Partial(f))
    BY <1>7 DEF Partial
  <1> HIDE DEF Unrolled
  <1>9. \A T \in SUBSET Users : Partial(f)[T] = Unrolled(Partial(f))[T]
    BY <1>8
  <1> QED
    BY <1>9 DEF Unrolled

\* The sum over any users of a function of zeros is zero.
LEMMA SumOfNothing ==
    SumFunction([p \in Users |-> 0]) = 0
  <1> DEFINE none == [p \in Users |-> 0]
             Zero == {T \in SUBSET Users : Partial(none)[T] = 0}
  <1>1. none \in [Users -> Int] /\ DOMAIN none = Users
    OBVIOUS
  <1> HIDE DEF none
  <1>2. {} \in Zero
    BY <1>1, PartialDefined
  <1>3. ASSUME NEW T \in SUBSET Users, T # {}, T \ {Pick(T)} \in Zero
        PROVE  T \in Zero
    <2>1. Pick(T) \in Users
      BY <1>3 DEF Pick
    <2>2. none[Pick(T)] = 0
      BY <2>1 DEF none
    <2>3. Partial(none)[T] = none[Pick(T)] + Partial(none)[T \ {Pick(T)}]
      BY <1>1, <1>3, PartialDefined
    <2> QED
      BY <1>3, <2>2, <2>3
  <1>4. Users \in Zero
    BY <1>2, <1>3, SetsOfUsersIn
  <1>5. SumFunction(none) = 0
    BY <1>1, <1>4, SumIsPartial
  <1> QED
    BY <1>5 DEF none

\* Another length for one user changes the sum by the difference.
LEMMA SumOfUpdate ==
    ASSUME NEW f \in [Users -> Int], NEW p \in Users, NEW v \in Int
    PROVE  LET h == [f EXCEPT ![p] = v] IN
           /\ SumFunction(f) \in Int
           /\ SumFunction(h)
                = SumFunction(f) + (v - f[p])
  <1> DEFINE h == [f EXCEPT ![p] = v]
             Change(T) == IF p \in T THEN v - f[p] ELSE 0
             Good == {T \in SUBSET Users :
                 Partial(f)[T] \in Int /\ Partial(h)[T] = Partial(f)[T] + Change(T)}
  <1>1. /\ h \in [Users -> Int] /\ DOMAIN h = Users /\ DOMAIN f = Users
        /\ \A q \in Users : h[q] = IF q = p THEN v ELSE f[q]
    OBVIOUS
  <1> HIDE DEF h
  <1>2. {} \in Good
    BY <1>1, PartialDefined
  <1>3. ASSUME NEW T \in SUBSET Users, T # {}, T \ {Pick(T)} \in Good
        PROVE  T \in Good
    <2> DEFINE R == T \ {Pick(T)}
    <2>1. Pick(T) \in T /\ Pick(T) \in Users
      BY <1>3 DEF Pick
    <2>2. /\ Partial(f)[T] = f[Pick(T)] + Partial(f)[R]
          /\ Partial(h)[T] = h[Pick(T)] + Partial(h)[R]
      BY <1>1, <1>3, PartialDefined
    <2>3. Partial(f)[R] \in Int /\ Partial(h)[R] = Partial(f)[R] + Change(R)
      BY <1>3
    <2>4. f[Pick(T)] \in Int /\ f[p] \in Int
      BY <2>1
    <2>5. CASE Pick(T) = p
      BY <1>1, <2>1, <2>2, <2>3, <2>4, <2>5
    <2>6. CASE Pick(T) # p
      BY <1>1, <2>1, <2>2, <2>3, <2>4, <2>6
    <2> QED
      BY <2>5, <2>6
  <1>4. Users \in Good
    BY <1>2, <1>3, SetsOfUsersIn
  <1>5. /\ SumFunction(f) = Partial(f)[Users]
        /\ SumFunction(h) = Partial(h)[Users]
    BY <1>1, SumIsPartial
  <1> QED
    BY <1>4, <1>5 DEF h

-----------------------------------------------------------------------------
\* The limit is a natural number.
LEMMA TotalNat == TotalSize \in Nat /\ ChunkSize \in Nat
  BY PoolAssumption DEF TotalSize

\* Rounding up to chunks yields a natural number.
LEMMA InChunksNat ==
    ASSUME NEW s \in Nat
    PROVE  InChunks(s) \in Nat
  <1>1. ChunkSize \in Nat \ {0}
    BY PoolAssumption
  <1>2. s % ChunkSize \in 0..(ChunkSize - 1)
    BY <1>1
  <1> HIDE <1>1
  <1> QED
    BY <1>1, <1>2 DEF InChunks

\* Going to sleep, on a request that does not fit.
LEMMA SleepInv ==
    ASSUME IInv, NEW p \in Users, NEW call \in {"allocate", "resize"}, NEW size \in Nat,
           ~Fits(size), Sleep(p, call, size),
           call = "allocate" => ~has[p],
           call = "resize" => has[p] /\ size > len[p]
    PROVE  IInv'
  <1> USE DEF IInv
  <1>1. TypeOK'
    BY DEF TypeOK, Sleep
  <1>2. WaitsForMore'
    BY DEF TypeOK, WaitsForMore, Sleep
  <1>3. WithinLimit'
    BY DEF WithinLimit, Sleep
  <1>4. ASSUME NEW q \in asleep'
        PROVE  ~Fits(need[q])'
    <2>1. CASE q = p
      BY <2>1 DEF TypeOK, Sleep, Fits
    <2>2. CASE q # p
      BY <1>4, <2>2 DEF TypeOK, Sleep, Fits, NoSleeperFits
    <2> QED
      BY <2>1, <2>2
  <1> QED
    BY <1>1, <1>2, <1>3, <1>4 DEF NoSleeperFits

\* Taking room that is there leaves less of it, so who sleeps may go on.
LEMMA GrantInv ==
    ASSUME IInv, NEW p \in Users, NEW size \in Nat,
           Fits(size), Grant(p, size), size >= len[p], p \notin asleep
    PROVE  IInv'
  <1> USE DEF IInv
  <1>1. TypeOK'
    BY DEF TypeOK, Grant
  <1>2. WaitsForMore'
    BY DEF TypeOK, WaitsForMore, Grant
  <1>3. /\ allocated \in Int /\ allocated' \in Int
        /\ allocated <= allocated' /\ allocated' <= TotalSize
    BY TotalNat DEF TypeOK, Grant, Fits
  <1>4. ASSUME NEW q \in asleep'
        PROVE  ~Fits(need[q])'
    <2>1. q \in asleep /\ need'[q] = need[q] /\ need[q] \in Nat
      BY DEF TypeOK, Grant
    <2>2. ~Fits(need[q])
      BY <2>1 DEF NoSleeperFits
    <2> QED
      BY <1>3, <2>1, <2>2, TotalNat DEF Fits
  <1> QED
    BY <1>1, <1>2, <1>3, <1>4 DEF NoSleeperFits, WithinLimit

\* Making room wakes everybody, so no sleeper is left to be served.
LEMMA ShrinkInv ==
    ASSUME IInv, NEW p \in Users, NEW s \in Nat, Shrink(p, s)
    PROVE  IInv'
  <1> USE DEF IInv
  <1>1. /\ len[p] \in Nat /\ allocated \in Int /\ s <= len[p] /\ has[p]
        /\ len' = [len EXCEPT ![p] = s] /\ allocated' = allocated - (len[p] - s)
        /\ asleep' = {} /\ pc[p] = "run" /\ UNCHANGED <<pc, need, has>>
    BY DEF TypeOK, Shrink, WakeAll
  <1>2. TypeOK'
    BY <1>1 DEF TypeOK
  <1>3. WaitsForMore'
    BY <1>1 DEF TypeOK, WaitsForMore
  <1>4. WithinLimit'
    BY <1>1, TotalNat DEF WithinLimit
  <1> QED
    BY <1>1, <1>2, <1>3, <1>4 DEF NoSleeperFits

\* The same for a buffer given back whole.
LEMMA ReleaseInv ==
    ASSUME IInv, NEW p \in Users, Release(p)
    PROVE  IInv'
  <1> USE DEF IInv
  <1>1. /\ len[p] \in Nat /\ allocated \in Int /\ has[p]
        /\ len' = [len EXCEPT ![p] = 0] /\ allocated' = allocated - len[p]
        /\ has' = [has EXCEPT ![p] = FALSE]
        /\ asleep' = {} /\ pc[p] = "run" /\ UNCHANGED <<pc, need>>
    BY DEF TypeOK, Release, WakeAll
  <1>2. TypeOK'
    BY <1>1 DEF TypeOK
  <1>3. WaitsForMore'
    BY <1>1 DEF TypeOK, WaitsForMore
  <1>4. WithinLimit'
    BY <1>1, TotalNat DEF WithinLimit
  <1> QED
    BY <1>1, <1>2, <1>3, <1>4 DEF NoSleeperFits

\* A woken user tests again before it takes.
LEMMA WokenInv ==
    ASSUME IInv, NEW p \in Users, Woken(p)
    PROVE  IInv'
  <1>1. /\ need[p] \in Nat /\ len[p] \in Nat /\ pc[p] \in {"allocate", "resize"}
        /\ need[p] >= len[p]
        /\ pc[p] = "allocate" => ~has[p]
        /\ pc[p] = "resize" => has[p] /\ need[p] > len[p]
    BY DEF IInv, TypeOK, WaitsForMore, Woken
  <1>2. CASE Fits(need[p]) /\ Grant(p, need[p])
    BY <1>1, <1>2, GrantInv DEF Woken
  <1>3. CASE ~Fits(need[p]) /\ Sleep(p, pc[p], need[p])
    BY <1>1, <1>3, SleepInv
  <1> QED
    BY <1>2, <1>3 DEF Woken

\* A new request, of a user with no buffer or for a longer one.
LEMMA RequestInv ==
    ASSUME IInv, NEW p \in Users, NEW s \in Sizes, Allocate(p, s) \/ Grow(p, s)
    PROVE  IInv'
  <1>1. s \in Nat /\ InChunks(s) \in Nat /\ len[p] \in Nat /\ p \notin asleep
    BY PoolAssumption, InChunksNat DEF IInv, TypeOK, WaitsForMore, Allocate, Grow
  <1>2. CASE Allocate(p, s)
    <2>1. ~has[p] /\ len[p] = 0
      BY <1>2 DEF Allocate, IInv, WaitsForMore
    <2> QED
      BY <1>1, <1>2, <2>1, GrantInv, SleepInv DEF Allocate
  <1>3. CASE Grow(p, s)
    BY <1>1, <1>3, GrantInv, SleepInv DEF Grow
  <1> QED
    BY <1>2, <1>3

-----------------------------------------------------------------------------
\* The inductive invariant holds in every reachable state.
THEOREM IInvAlways == Spec => []IInv
  <1>1. Init => IInv
    BY TotalNat DEF Init, IInv, TypeOK, WaitsForMore, WithinLimit, NoSleeperFits
  <1>2. IInv /\ [Next]_vars => IInv'
    <2> SUFFICES ASSUME IInv, [Next]_vars PROVE IInv'
      OBVIOUS
    <2>1. CASE UNCHANGED vars
      BY <2>1 DEF vars, IInv, TypeOK, WaitsForMore, WithinLimit, NoSleeperFits, Fits
    <2>2. ASSUME NEW p \in Users, NEW s \in Sizes,
                 Allocate(p, s) \/ Grow(p, s) \/ Shrink(p, s)
          PROVE  IInv'
      BY <2>2, RequestInv, ShrinkInv, PoolAssumption
    <2>3. ASSUME NEW p \in Users, Release(p)
          PROVE  IInv'
      BY <2>3, ReleaseInv
    <2>4. ASSUME NEW p \in Users, Woken(p)
          PROVE  IInv'
      BY <2>4, WokenInv
    <2> QED
      BY <2>1, <2>2, <2>3, <2>4 DEF Next
  <1> QED
    BY <1>1, <1>2, PTL DEF Spec

\* The state of the pool has its type in every reachable state.
THEOREM TypeCorrect == Spec => []TypeOK
  <1>1. IInv => TypeOK
    BY DEF IInv
  <1> QED
    BY <1>1, IInvAlways, PTL

\* However many users are woken together and whatever they wait for, the
\* bytes counted never exceed pageSize * pageCount: each of them tests again.
THEOREM LimitIsKept == Spec => []WithinLimit
  <1>1. IInv => WithinLimit
    BY DEF IInv
  <1> QED
    BY <1>1, IInvAlways, PTL

\* No wake-up is lost: release and a shrinking resize call available.set(),
\* and between the test of a loop and its wait() nothing else runs.
THEOREM NoWakeUpIsLost == Spec => []NoSleeperFits
  <1>1. IInv => NoSleeperFits
    BY DEF IInv
  <1> QED
    BY <1>1, IInvAlways, PTL
\* The count never drifts: through any sequence of grants, growths, shrinkings
\* and releases, of any number of users, it is the sum of their buffers.
THEOREM CountIsExact == Spec => []CountsBuffers
  <1>1. Init => CountsBuffers
    BY SumOfNothing DEF Init, CountsBuffers
  <1>2. ASSUME TypeOK, CountsBuffers, NEW p \in Users, NEW v \in Int,
               len' = [len EXCEPT ![p] = v], allocated' = allocated + (v - len[p])
        PROVE  CountsBuffers'
    <2>1. len \in [Users -> Int]
      BY <1>2 DEF TypeOK
    <2>2. SumFunction(len') = SumFunction(len) + (v - len[p])
      BY <1>2, <2>1, SumOfUpdate
    <2> QED
      BY <1>2, <2>2 DEF CountsBuffers
  <1>3. IInv /\ CountsBuffers /\ [Next]_vars => CountsBuffers'
    <2> SUFFICES ASSUME TypeOK, CountsBuffers, [Next]_vars PROVE CountsBuffers'
      BY DEF IInv
    <2>1. CASE UNCHANGED <<len, allocated>>
      BY <2>1 DEF CountsBuffers
    <2>2. ASSUME NEW p \in Users, NEW size \in Nat, Grant(p, size)
          PROVE  CountsBuffers'
      <3>1. len' = [len EXCEPT ![p] = size] /\ allocated' = allocated + (size - len[p])
        BY <2>2 DEF Grant
      <3>2. size \in Int
        OBVIOUS
      <3> QED
        BY <1>2, <3>1, <3>2
    <2>3. ASSUME NEW p \in Users, NEW s \in Sizes, Shrink(p, s)
          PROVE  CountsBuffers'
      <3>1. s \in Int /\ len[p] \in Int /\ allocated \in Int
        BY PoolAssumption DEF TypeOK
      <3>2. allocated' = allocated + (s - len[p]) /\ len' = [len EXCEPT ![p] = s]
        BY <2>3, <3>1 DEF Shrink
      <3> QED
        BY <1>2, <3>1, <3>2
    <2>4. ASSUME NEW p \in Users, Release(p)
          PROVE  CountsBuffers'
      <3>1. len[p] \in Int /\ allocated \in Int /\ 0 \in Int
        BY DEF TypeOK
      <3>2. allocated' = allocated + (0 - len[p]) /\ len' = [len EXCEPT ![p] = 0]
        BY <2>4, <3>1 DEF Release
      <3> QED
        BY <1>2, <3>1, <3>2
    <2>5. ASSUME NEW p \in Users, NEW s \in Sizes, Allocate(p, s) \/ Grow(p, s)
          PROVE  CountsBuffers'
      <3>1. s \in Nat /\ InChunks(s) \in Nat
        BY PoolAssumption, InChunksNat
      <3> QED
        BY <2>1, <2>2, <2>5, <3>1 DEF Allocate, Grow, Sleep
    <2>6. ASSUME NEW p \in Users, Woken(p)
          PROVE  CountsBuffers'
      <3>1. need[p] \in Nat
        BY DEF TypeOK
      <3> QED
        BY <2>1, <2>2, <2>6, <3>1 DEF Woken, Sleep
    <2> QED
      BY <2>1, <2>3, <2>4, <2>5, <2>6 DEF Next, vars
  <1> QED
    BY <1>1, <1>3, IInvAlways, PTL DEF Spec
=============================================================================
