------------------------------ MODULE SqlProofs ------------------------------
(***************************************************************************)
(* Proofs about the texts of queries, for texts of any length: where the   *)
(* tokens lie, what a token depends on, and what the parser makes of them. *)
(* The recursive functions of Sql are first shown to be solved by their    *)
(* equations (Recursion), since their places only grow; all that follows   *)
(* is read from the equations.                                             *)
(***************************************************************************)
EXTENDS Sql, SequenceTheorems, WellFoundedInduction, TLAPS

\* A set of numbers that is not empty has a least one.
LEMMA Least ==
  ASSUME NEW S, S \subseteq Nat, S # {}
  PROVE  \E m \in S : \A k \in S : m <= k
<1> DEFINE R == OpToRel(<, Nat)
<1>1. IsWellFoundedOn(R, Nat)
  BY NatLessThanWellFounded, Zenon
<1> HIDE DEF R
<1>2. PICK m \in S : \A k \in S : <<k, m>> \notin R
  BY <1>1, WFMin
<1>3. \A k \in S : ~(k < m)
  BY <1>2 DEF R, OpToRel
<1>4. \A k \in S : m <= k
  BY <1>3
<1> QED BY <1>4

\* What is ranked is in S when whatever is of lower rank being in S puts it there.
LEMMA Ranked ==
  ASSUME NEW D, NEW r \in [D -> Nat], NEW S,
         \A i \in D : (\A j \in D : r[j] < r[i] => j \in S) => i \in S
  PROVE  D \subseteq S
<1> SUFFICES ASSUME NEW d \in D, d \notin S PROVE FALSE
  OBVIOUS
<1> DEFINE out == {r[i] : i \in D \ S}
<1>1. PICK m \in out : \A k \in out : m <= k
  <2>1. out \subseteq Nat /\ out # {}
    OBVIOUS
  <2> HIDE DEF out
  <2> QED BY <2>1, Least
<1>2. PICK i \in D \ S : r[i] = m
  BY <1>1
<1>3. ASSUME NEW j \in D, r[j] < r[i]
      PROVE  j \in S
  <2>1. r[j] \in Nat /\ r[i] \in Nat
    OBVIOUS
  <2>2. j \in D \ S => r[j] \in out
    OBVIOUS
  <2> HIDE DEF out
  <2> QED BY <1>1, <1>2, <1>3, <2>1, <2>2
<1> QED BY <1>2, <1>3

\* What holds of each of some numbers, bounded above, that it holds of all
\* greater ones for, holds of all of them.
LEMMA Downward ==
  ASSUME NEW n \in Int, NEW E, E \subseteq Int, \A i \in E : i <= n, NEW S,
         \A i \in E : (\A j \in E : i < j => j \in S) => i \in S
  PROVE  E \subseteq S
<1> DEFINE r == [i \in E |-> n - i]
<1>1. r \in [E -> Nat]
  OBVIOUS
<1>2. \A i \in E : (\A j \in E : r[j] < r[i] => j \in S) => i \in S
  OBVIOUS
<1> HIDE DEF r
<1> QED BY <1>1, <1>2, Ranked, ZenonT(60)

\* And upward, from a least one.
LEMMA Upward ==
  ASSUME NEW E, E \subseteq Nat, NEW S,
         \A i \in E : (\A j \in E : j < i => j \in S) => i \in S
  PROVE  E \subseteq S
<1> DEFINE r == [i \in E |-> i]
<1>1. r \in [E -> Nat]
  OBVIOUS
<1>2. \A i \in E : (\A j \in E : r[j] < r[i] => j \in S) => i \in S
  OBVIOUS
<1> HIDE DEF r
<1> QED BY <1>1, <1>2, Ranked

\* F is the body of a recursion in which each value depends on those of lower
\* rank, all of which are below n. Such a recursion has a solution.
Recursive(D, n, r, V, F) ==
    /\ n \in Nat /\ r \in [D -> 0..n] /\ V # {}
    /\ F \in [[D -> V] -> [D -> V]]
    /\ \A g, h \in [D -> V] : \A i \in D :
          (\A j \in D : r[j] < r[i] => g[j] = h[j]) => F[g][i] = F[h][i]

Solvable(D, V, F) == \E g \in [D -> V] : g = F[g]

\* A recursive function whose places only grow solves its equation.
LEMMA Recursion ==
  ASSUME NEW D, NEW n, NEW r, NEW V, NEW F, Recursive(D, n, r, V, F)
  PROVE  Solvable(D, V, F)
<1> USE DEF Recursive
<1> DEFINE
  Right(g, k) == \A i \in D : r[i] < k => g[i] = F[g][i]
  Steps == 0..n + 1
  Reached == {k \in Steps : \E g \in [D -> V] : Right(g, k)}
<1>1. ASSUME NEW k \in Steps, \A j \in Steps : j < k => j \in Reached
      PROVE  k \in Reached
  <2>1. CASE k = 0
    <3>1. PICK v : v \in V
      OBVIOUS
    <3>2. [i \in D |-> v] \in [D -> V] /\ Right([i \in D |-> v], 0)
      BY <3>1
    <3> QED BY <2>1, <3>2
  <2>2. CASE k # 0
    <3>1. PICK g \in [D -> V] : Right(g, k - 1)
      BY <1>1, <2>2
    <3>2. F[g] \in [D -> V]
      OBVIOUS
    <3>3. ASSUME NEW i \in D, r[i] < k
          PROVE  F[g][i] = F[F[g]][i]
      BY <3>2, <3>1, <3>3
    <3> QED BY <3>2, <3>3
  <2> QED BY <2>1, <2>2
<1> HIDE DEF Reached
<1>2. n + 1 \in Steps /\ Steps \subseteq Nat
  OBVIOUS
<1> HIDE DEF Steps
<1>3. \A k \in Steps : (\A j \in Steps : j < k => j \in Reached) => k \in Reached
  BY <1>1
<1>4. Steps \subseteq Reached
  BY <1>2, <1>3, Upward
<1>5. PICK g \in [D -> V] : Right(g, n + 1)
  BY <1>2, <1>4 DEF Reached
<1>6. g = F[g]
  BY <1>5
<1> QED BY <1>6 DEF Solvable

-----------------------------------------------------------------------------
(* The characters of a text. *)

\* What sql.indexOf gives,
LEMMA FindIn ==
  ASSUME NEW t, Len(t) \in Nat, NEW i \in 0..Len(t), NEW S
  PROVE  /\ Find(t, i, S) \in i..Len(t)
         /\ Find(t, i, S) < Len(t) => At(t, Find(t, i, S)) \in S
         /\ \A k \in i..Find(t, i, S) - 1 : At(t, k) \notin S
<1> DEFINE
  hits == {j \in i..Len(t) - 1 : At(t, j) \in S}
  least == CHOOSE j \in hits : \A k \in hits : j <= k
<1>1. hits # {} => least \in hits /\ \A k \in hits : least <= k
  <2>1. hits \subseteq Nat
    OBVIOUS
  <2> HIDE DEF hits
  <2> QED BY <2>1, Least
<1>2. Find(t, i, S) = IF hits = {} THEN Len(t) ELSE least
  BY DEF Find
<1> HIDE DEF least
<1> QED BY <1>1, <1>2

\* and that nothing else is that.
LEMMA FindThe ==
  ASSUME NEW t, Len(t) \in Nat, NEW i \in 0..Len(t), NEW S, NEW j \in i..Len(t),
         j < Len(t) => At(t, j) \in S, \A k \in i..j - 1 : At(t, k) \notin S
  PROVE  Find(t, i, S) = j
<1>1. PICK f \in i..Len(t) : f = Find(t, i, S)
  BY FindIn
<1>2. f < Len(t) => At(t, f) \in S
  BY <1>1, FindIn
<1>3. \A k \in i..f - 1 : At(t, k) \notin S
  BY <1>1, FindIn
<1> QED BY <1>1, <1>2, <1>3

\* The characters of a text.
LEMMA Chars1 ==
  ASSUME NEW t \in Seq(Chars), NEW i \in 0..Len(t) - 1
  PROVE  At(t, i) \in Chars
  BY DEF At

\* A part of a text,
LEMMA SliceIs ==
  ASSUME NEW S, NEW t \in Seq(S), NEW i \in 0..Len(t), NEW j \in 0..Len(t)
  PROVE  /\ Slice(t, i, j) \in Seq(S)
         /\ Len(Slice(t, i, j)) = IF i <= j THEN j - i ELSE 0
         /\ \A k \in 0..j - i - 1 : At(Slice(t, i, j), k) = At(t, i + k)
<1>1. \A k \in i + 1..j : t[k] \in S
  OBVIOUS
<1>2. /\ SubSeq(t, i + 1, j) \in Seq(S)
      /\ Len(SubSeq(t, i + 1, j)) = IF i + 1 <= j THEN j - (i + 1) + 1 ELSE 0
      /\ \A k \in 1..j - (i + 1) + 1 : SubSeq(t, i + 1, j)[k] = t[(i + 1) + k - 1]
  BY <1>1, SubSeqProperties
<1>3. ASSUME NEW k \in 0..j - i - 1
      PROVE  At(Slice(t, i, j), k) = At(t, i + k)
  BY <1>2 DEF At, Slice
<1> QED BY <1>2, <1>3 DEF Slice

\* Slices of one and of two characters.
LEMMA SliceNone ==
  ASSUME NEW t, NEW i \in Int
  PROVE  Slice(t, i, i) = <<>>
  BY SubSeqEmpty DEF Slice

\* of one character,
LEMMA SliceOne ==
  ASSUME NEW t \in Seq(Chars), NEW i \in 0..Len(t) - 1
  PROVE  Slice(t, i, i + 1) = <<At(t, i)>>
<1> DEFINE j == i + 1
<1>a. j \in 0..Len(t) /\ i \in 0..Len(t) /\ 0 \in 0..j - i - 1 /\ i + 0 = i /\ i <= j /\ j - i = 1
  OBVIOUS
<1> HIDE DEF j
<1>b. /\ Slice(t, i, j) \in Seq(Chars)
      /\ Len(Slice(t, i, j)) = IF i <= j THEN j - i ELSE 0
      /\ \A k \in 0..j - i - 1 : At(Slice(t, i, j), k) = At(t, i + k)
  BY <1>a, SliceIs
<1>1. Slice(t, i, j) \in Seq(Chars) /\ Len(Slice(t, i, j)) = 1 /\ At(Slice(t, i, j), 0) = At(t, i)
  BY <1>a, <1>b
<1>2. At(t, i) \in Chars
  BY Chars1
<1> QED BY <1>1, <1>2 DEF At, j

\* and of two.
LEMMA SliceTwo ==
  ASSUME NEW t \in Seq(Chars), NEW i \in 0..Len(t) - 2
  PROVE  Slice(t, i, i + 2) = <<At(t, i), At(t, i + 1)>>
<1> DEFINE j == i + 2
<1>a. /\ j \in 0..Len(t) /\ i \in 0..Len(t) /\ {0, 1} \subseteq 0..j - i - 1
      /\ i + 0 = i /\ i <= j /\ j - i = 2
  OBVIOUS
<1> HIDE DEF j
<1>b. /\ Slice(t, i, j) \in Seq(Chars)
      /\ Len(Slice(t, i, j)) = IF i <= j THEN j - i ELSE 0
      /\ \A k \in 0..j - i - 1 : At(Slice(t, i, j), k) = At(t, i + k)
  BY <1>a, SliceIs
<1>1. /\ Slice(t, i, j) \in Seq(Chars) /\ Len(Slice(t, i, j)) = 2
      /\ At(Slice(t, i, j), 0) = At(t, i) /\ At(Slice(t, i, j), 1) = At(t, i + 1)
  BY <1>a, <1>b
<1>2. At(t, i) \in Chars /\ At(t, i + 1) \in Chars
  BY Chars1
<1> QED BY <1>1, <1>2 DEF At, j

-----------------------------------------------------------------------------
(* The ends of quoted texts. *)

\* The end of a quoted text, by its equation.
LEMMA ClosingsDefined ==
  ASSUME NEW t, Len(t) \in Nat, NEW q
  PROVE  \A i \in 0..Len(t) :
            Closing(t, i, q) =
                LET j == Find(t, i, {q})
                IN IF j + 1 < Len(t) /\ At(t, j + 1) = q THEN Closing(t, j + 2, q) ELSE j
<1> DEFINE
  n == Len(t)
  D == 0..n
  V == Int
  Body(g, i) == LET j == Find(t, i, {q})
                IN IF j + 1 < n /\ At(t, j + 1) = q THEN g[j + 2] ELSE j
  F == [g \in [D -> V] |-> [i \in D |-> Body(g, i)]]
  r == [i \in D |-> n - i]
<1>1. ASSUME NEW i \in D
      PROVE  Find(t, i, {q}) \in i..n
  BY FindIn
<1>2. ASSUME NEW g \in [D -> V], NEW i \in D
      PROVE  Body(g, i) \in V
  <2>1. PICK j \in i..n : j = Find(t, i, {q})
    BY <1>1
  <2> QED BY <2>1
<1>3. ASSUME NEW g \in [D -> V], NEW h \in [D -> V], NEW i \in D,
             \A j \in D : r[j] < r[i] => g[j] = h[j]
      PROVE  Body(g, i) = Body(h, i)
  <2>1. PICK j \in i..n : j = Find(t, i, {q})
    BY <1>1
  <2>2. j + 1 < n => j + 2 \in D /\ r[j + 2] < r[i]
    BY <2>1
  <2> QED BY <1>3, <2>1, <2>2
<1>4. r \in [D -> 0..n] /\ n \in Nat /\ V # {}
  OBVIOUS
<1>5. Closings(t, q) = CHOOSE g : g = [i \in D |-> Body(g, i)]
  BY DEF Closings
<1> HIDE DEF Body, r, D, V, n
<1>6. F \in [[D -> V] -> [D -> V]]
  BY <1>2
<1>7. \A g, h \in [D -> V] : \A i \in D :
          (\A j \in D : r[j] < r[i] => g[j] = h[j]) => F[g][i] = F[h][i]
  BY <1>3
<1> HIDE DEF F
<1>8. Recursive(D, n, r, V, F)
  BY <1>4, <1>6, <1>7 DEF Recursive
<1>9. \E g : g = [i \in D |-> Body(g, i)]
  BY <1>8, Recursion DEF F, Solvable
<1>10. Closings(t, q) = [i \in D |-> Body(Closings(t, q), i)]
  BY <1>5, <1>9
<1>11. \A i \in D : Closings(t, q)[i] = Body(Closings(t, q), i)
  BY <1>10
<1> QED BY <1>11 DEF Body, D, n, Closing

\* The quotes q of a text from i to j stand in pairs.
PairedIn(t, i, j, q) ==
    \E firsts \in SUBSET (i..j - 1) :
        /\ \A k \in i..j - 1 : At(t, k) = q <=> k \in firsts \/ k - 1 \in firsts
        /\ \A k \in firsts : k + 1 \notin firsts /\ k + 1 < j

\* Quotes that stand in pairs in a place do so in what is cut out of it.
LEMMA PairedSlice ==
  ASSUME NEW t \in Seq(Chars), NEW i \in 0..Len(t), NEW j \in i..Len(t), NEW q,
         PairedIn(t, i, j, q)
  PROVE  Paired(Slice(t, i, j), q)
<1> DEFINE
  s == Slice(t, i, j)
  m == j - i
  marks == {k \in 0..Len(s) - 1 : At(s, k) = q}
<1>1. Len(s) = m /\ m \in Nat /\ \A k \in 0..m - 1 : At(s, k) = At(t, i + k)
  BY SliceIs
<1> HIDE DEF s
<1>2. PICK f \in SUBSET (i..j - 1) :
         /\ \A k \in i..j - 1 : At(t, k) = q <=> k \in f \/ k - 1 \in f
         /\ \A k \in f : k + 1 \notin f /\ k + 1 < j
  BY DEF PairedIn
<1> DEFINE
  firsts == {k \in 0..m - 1 : i + k \in f}
  seconds == {k + 1 : k \in firsts}
<1>3. \A k \in 0..m - 1 : i + k \in i..j - 1
  OBVIOUS
<1>4. \A k \in 0..m - 1 : At(t, i + k) = q <=> i + k \in f \/ (i + k) - 1 \in f
  BY <1>2, <1>3
<1>5. \A k \in seconds : k - 1 \in firsts /\ i + (k - 1) \in f /\ k \in 1..m
  OBVIOUS
<1>6. \A k \in seconds : i + k \notin f /\ k \in 1..m - 1 /\ i + k - 1 \in f
  <2> SUFFICES ASSUME NEW k \in seconds PROVE i + k \notin f /\ k \in 1..m - 1 /\ i + k - 1 \in f
    OBVIOUS
  <2>1. i + (k - 1) \in f /\ k \in 1..m
    BY <1>5
  <2>2. (i + (k - 1)) + 1 \notin f /\ (i + (k - 1)) + 1 < j
    BY <2>1, <1>2
  <2>3. (i + (k - 1)) + 1 = i + k /\ i + (k - 1) = i + k - 1
    BY <2>1
  <2> QED BY <2>1, <2>2, <2>3
<1>7. \A k \in 0..m - 1 : i + k - 1 \in f => k \in seconds
  <2> SUFFICES ASSUME NEW k \in 0..m - 1, i + k - 1 \in f PROVE k \in seconds
    OBVIOUS
  <2>1. i <= i + k - 1
    BY <1>2
  <2>2. k - 1 \in 0..m - 1 /\ i + (k - 1) = i + k - 1 /\ (k - 1) + 1 = k
    BY <2>1
  <2>3. k - 1 \in firsts
    BY <2>2
  <2> QED BY <2>2, <2>3
<1>8. marks = firsts \cup seconds
  <2>1. ASSUME NEW k \in 0..m - 1
        PROVE  At(s, k) = q <=> k \in firsts \/ k \in seconds
    BY <1>1, <1>4, <1>6, <1>7
  <2>2. \A k \in seconds : k \in 0..m - 1
    BY <1>6
  <2> HIDE DEF seconds
  <2> QED BY <1>1, <2>1, <2>2
<1>9. firsts \cap seconds = {}
  <2> SUFFICES ASSUME NEW k \in firsts, k \in seconds PROVE FALSE
    OBVIOUS
  <2> QED BY <1>6
<1>10. Paired(s, q) =
         \E fs \in SUBSET marks : marks = fs \cup {k + 1 : k \in fs} /\ fs \cap {k + 1 : k \in fs} = {}
  BY DEF Paired
<1> HIDE DEF marks
<1>11. firsts \in SUBSET marks
  BY <1>8
<1>12. \E fs \in SUBSET marks : marks = fs \cup {k + 1 : k \in fs} /\ fs \cap {k + 1 : k \in fs} = {}
  <2> HIDE DEF firsts
  <2> QED BY <1>8, <1>9, <1>11
<1> QED BY <1>10, <1>12 DEF s

\* A closing quote is not doubled, and the quotes before it are.
LEMMA ClosingIs ==
  ASSUME NEW t, Len(t) \in Nat, NEW q, NEW i \in 0..Len(t)
  PROVE  /\ Closing(t, i, q) \in i..Len(t)
         /\ Closing(t, i, q) < Len(t) => At(t, Closing(t, i, q)) = q
         /\ Closing(t, i, q) + 1 < Len(t) => At(t, Closing(t, i, q) + 1) # q
         /\ PairedIn(t, i, Closing(t, i, q), q)
<1> DEFINE
  n == Len(t)
  c(k) == Closing(t, k, q)
  Good(k) == /\ c(k) \in k..n
             /\ c(k) < n => At(t, c(k)) = q
             /\ c(k) + 1 < n => At(t, c(k) + 1) # q
             /\ PairedIn(t, k, c(k), q)
  D == 0..n
  S == {k \in D : Good(k)}
<1>1. ASSUME NEW k \in D, \A j \in D : k < j => j \in S
      PROVE  k \in S
  <2> DEFINE j == Find(t, k, {q})
  <2>1. /\ j \in k..n
        /\ j < n => At(t, j) \in {q}
        /\ \A l \in k..j - 1 : At(t, l) \notin {q}
    BY FindIn
  <2>2. c(k) = IF j + 1 < n /\ At(t, j + 1) = q THEN c(j + 2) ELSE j
    BY ClosingsDefined
  <2> HIDE DEF j, Good
  <2>3. CASE ~(j + 1 < n /\ At(t, j + 1) = q)
    <3>1. c(k) = j
      BY <2>2, <2>3
    <3>2. PairedIn(t, k, j, q)
      <4>1. \A l \in k..j - 1 : At(t, l) = q <=> l \in {} \/ l - 1 \in {}
        BY <2>1
      <4>2. {} \in SUBSET (k..j - 1)
        OBVIOUS
      <4> QED BY <4>1, <4>2 DEF PairedIn
    <3> QED BY <3>1, <3>2, <2>1, <2>3 DEF Good
  <2>4. CASE j + 1 < n /\ At(t, j + 1) = q
    <3>1. c(k) = c(j + 2) /\ j + 2 \in D /\ k < j + 2
      BY <2>1, <2>2, <2>4
    <3> DEFINE e == c(j + 2)
    <3>2. Good(j + 2)
      BY <3>1, <1>1
    <3>3. e \in j + 2..n
      BY <3>2 DEF Good
    <3>4. PICK f \in SUBSET (j + 2..e - 1) :
            /\ \A l \in j + 2..e - 1 : At(t, l) = q <=> l \in f \/ l - 1 \in f
            /\ \A l \in f : l + 1 \notin f /\ l + 1 < e
      BY <3>2 DEF Good, PairedIn
    <3> HIDE DEF e
    <3>5. PairedIn(t, k, e, q)
      <4>1. f \cup {j} \in SUBSET (k..e - 1)
        BY <2>1, <3>3, <3>4
      <4>2. ASSUME NEW l \in k..e - 1
            PROVE  At(t, l) = q <=> l \in f \cup {j} \/ l - 1 \in f \cup {j}
        <5>1. CASE l < j
          BY <5>1, <2>1, <3>4
        <5>2. CASE l = j
          BY <5>2, <2>1, <2>4
        <5>3. CASE l = j + 1
          BY <5>3, <2>1, <2>4
        <5>4. CASE l > j + 1
          BY <5>4, <2>1, <3>4
        <5> QED BY <2>1, <5>1, <5>2, <5>3, <5>4
      <4>3. \A l \in f \cup {j} : l + 1 \notin f \cup {j} /\ l + 1 < e
        BY <2>1, <3>3, <3>4
      <4> QED BY <4>1, <4>2, <4>3 DEF PairedIn
    <3> QED BY <3>1, <3>2, <3>3, <3>5, <2>1 DEF Good, e
  <2> QED BY <2>3, <2>4
<1>2. D \subseteq Int /\ n \in Int /\ (\A k \in D : k <= n) /\ i \in D
  OBVIOUS
<1> HIDE DEF D, S, n
<1>3. D \subseteq S
  BY <1>1, <1>2, Downward
<1> QED BY <1>2, <1>3 DEF S, n

-----------------------------------------------------------------------------
(* The ends of comments. *)

\* The end of a comment, by its equation.
LEMMA MultiEndsDefined ==
  ASSUME NEW t, Len(t) \in Nat
  PROVE  \A i \in 0..Len(t) :
            MultiEnd(t, i) =
                IF i = Len(t) THEN [curr |-> i, closed |-> FALSE, star |-> FALSE]
                ELSE IF At(t, i) # "*" \/ i + 1 = Len(t) THEN MultiEnd(t, i + 1)
                ELSE IF At(t, i + 1) = "/"
                THEN [curr |-> i + 2, closed |-> TRUE, star |-> FALSE]
                ELSE [curr |-> MultiEnd(t, i + 2).curr,
                      closed |-> MultiEnd(t, i + 2).closed, star |-> TRUE]
<1> DEFINE
  n == Len(t)
  D == 0..n
  V == [curr: Int, closed: BOOLEAN, star: BOOLEAN]
  Body(g, i) ==
       IF i = n THEN [curr |-> i, closed |-> FALSE, star |-> FALSE]
       ELSE IF At(t, i) # "*" \/ i + 1 = n THEN g[i + 1]
       ELSE IF At(t, i + 1) = "/"
       THEN [curr |-> i + 2, closed |-> TRUE, star |-> FALSE]
       ELSE [curr |-> g[i + 2].curr, closed |-> g[i + 2].closed, star |-> TRUE]
  F == [g \in [D -> V] |-> [i \in D |-> Body(g, i)]]
  r == [i \in D |-> n - i]
<1>1. ASSUME NEW g \in [D -> V], NEW i \in D
      PROVE  Body(g, i) \in V
  <2>1. i # n => i + 1 \in D
    OBVIOUS
  <2>2. i # n /\ i + 1 # n => i + 2 \in D
    OBVIOUS
  <2>3. \A j \in D : g[j] \in V
    OBVIOUS
  <2>4. i # n /\ i + 1 # n => g[i + 2].curr \in Int /\ g[i + 2].closed \in BOOLEAN
    BY <2>2, <2>3
  <2>5. \A c \in Int : \A b, s \in BOOLEAN : [curr |-> c, closed |-> b, star |-> s] \in V
    OBVIOUS
  <2>6. i \in Int /\ i + 2 \in Int
    OBVIOUS
  <2> HIDE DEF D, V
  <2> QED BY <2>1, <2>2, <2>3, <2>4, <2>5, <2>6
<1>2. ASSUME NEW g \in [D -> V], NEW h \in [D -> V], NEW i \in D,
             \A j \in D : r[j] < r[i] => g[j] = h[j]
      PROVE  Body(g, i) = Body(h, i)
  <2>1. i # n => i + 1 \in D /\ r[i + 1] < r[i]
    OBVIOUS
  <2>2. i # n /\ i + 1 # n => i + 2 \in D /\ r[i + 2] < r[i]
    OBVIOUS
  <2> HIDE DEF r, D, V
  <2> QED BY <1>2, <2>1, <2>2
<1>3. r \in [D -> 0..n] /\ n \in Nat /\ V # {}
  <2>1. [curr |-> 0, closed |-> FALSE, star |-> FALSE] \in V
    OBVIOUS
  <2>2. r \in [D -> 0..n] /\ n \in Nat
    OBVIOUS
  <2> HIDE DEF V
  <2> QED BY <2>1, <2>2
<1>4. MultiEnds(t) = CHOOSE g : g = [i \in D |-> Body(g, i)]
  BY DEF MultiEnds
<1> HIDE DEF Body, r, D, V, n
<1>5. F \in [[D -> V] -> [D -> V]]
  BY <1>1
<1>6. \A g, h \in [D -> V] : \A i \in D :
          (\A j \in D : r[j] < r[i] => g[j] = h[j]) => F[g][i] = F[h][i]
  BY <1>2
<1> HIDE DEF F
<1>7. Recursive(D, n, r, V, F)
  BY <1>3, <1>5, <1>6 DEF Recursive
<1>8. \E g : g = [i \in D |-> Body(g, i)]
  BY <1>7, Recursion DEF F, Solvable
<1>9. MultiEnds(t) = [i \in D |-> Body(MultiEnds(t), i)]
  BY <1>4, <1>8
<1>10. \A i \in D : MultiEnds(t)[i] = Body(MultiEnds(t), i)
  BY <1>9
<1> QED BY <1>10 DEF Body, D, n, MultiEnd

\* A comment ends with its mark, or the text does.
LEMMA MultiEndIs ==
  ASSUME NEW t, Len(t) \in Nat, NEW i \in 0..Len(t)
  PROVE  /\ MultiEnd(t, i) \in [curr: i..Len(t), closed: BOOLEAN, star: BOOLEAN]
         /\ MultiEnd(t, i).closed =>
              /\ i + 2 <= MultiEnd(t, i).curr
              /\ At(t, MultiEnd(t, i).curr - 2) = "*" /\ At(t, MultiEnd(t, i).curr - 1) = "/"
         /\ ~MultiEnd(t, i).closed => MultiEnd(t, i).curr = Len(t)
         /\ MultiEnd(t, i).star => i + 2 <= MultiEnd(t, i).curr
<1> DEFINE
  n == Len(t)
  D == 0..n
  Good(k, m) == /\ m \in [curr: k..n, closed: BOOLEAN, star: BOOLEAN]
                /\ m.closed => /\ k + 2 <= m.curr
                               /\ At(t, m.curr - 2) = "*" /\ At(t, m.curr - 1) = "/"
                /\ ~m.closed => m.curr = n
                /\ m.star => k + 2 <= m.curr
  S == {k \in D : Good(k, MultiEnd(t, k))}
<1>1. ASSUME NEW k \in D, \A j \in D : k < j => j \in S
      PROVE  k \in S
  <2> DEFINE
    m == MultiEnd(t, k)
    m1 == MultiEnd(t, k + 1)
    m2 == MultiEnd(t, k + 2)
  <2>1. m = IF k = n THEN [curr |-> k, closed |-> FALSE, star |-> FALSE]
            ELSE IF At(t, k) # "*" \/ k + 1 = n THEN m1
            ELSE IF At(t, k + 1) = "/" THEN [curr |-> k + 2, closed |-> TRUE, star |-> FALSE]
            ELSE [curr |-> m2.curr, closed |-> m2.closed, star |-> TRUE]
    BY MultiEndsDefined
  <2>2. k < n => Good(k + 1, m1)
    BY <1>1
  <2>3. k + 1 < n => Good(k + 2, m2)
    BY <1>1
  <2> HIDE DEF m, m1, m2
  <2>4. Good(k, m)
    <3>1. CASE k = n
      BY <2>1, <3>1
    <3>2. CASE k < n /\ (At(t, k) # "*" \/ k + 1 = n)
      BY <2>1, <2>2, <3>2
    <3>3. CASE k + 1 < n /\ At(t, k) = "*" /\ At(t, k + 1) = "/"
      BY <3>3, <2>1
    <3>4. CASE k + 1 < n /\ At(t, k) = "*" /\ At(t, k + 1) # "/"
      <4>1. m = [curr |-> m2.curr, closed |-> m2.closed, star |-> TRUE]
        BY <2>1, <3>4
      <4>2. Good(k + 2, m2)
        BY <2>3, <3>4
      <4> QED BY <4>1, <4>2
    <3> QED BY <3>1, <3>2, <3>3, <3>4
  <2> QED BY <2>4 DEF m
<1>2. D \subseteq Int /\ n \in Int /\ (\A k \in D : k <= n) /\ i \in D
  OBVIOUS
<1> HIDE DEF D, S, n
<1>3. D \subseteq S
  BY <1>1, <1>2, Downward
<1> QED BY <1>2, <1>3 DEF S, n

\* A mark that a comment passes over has another star before it.
LEMMA MultiEndFirst ==
  ASSUME NEW t, Len(t) \in Nat, NEW i \in 0..Len(t)
  PROVE  /\ \A j \in i..MultiEnd(t, i).curr - 2 :
              At(t, j) = "*" /\ At(t, j + 1) = "/" =>
                \/ MultiEnd(t, i).closed /\ j = MultiEnd(t, i).curr - 2
                \/ i < j /\ At(t, j - 1) = "*"
         /\ MultiEnd(t, i).star =>
              \E j \in i..MultiEnd(t, i).curr - 2 : At(t, j) = "*"
<1> DEFINE
  n == Len(t)
  D == 0..n
  Good(k, m) ==
      /\ \A j \in k..m.curr - 2 : At(t, j) = "*" /\ At(t, j + 1) = "/" =>
            (m.closed /\ j = m.curr - 2) \/ (k < j /\ At(t, j - 1) = "*")
      /\ m.star => \E j \in k..m.curr - 2 : At(t, j) = "*"
  S == {k \in D : Good(k, MultiEnd(t, k))}
<1>1. ASSUME NEW k \in D, \A j \in D : k < j => j \in S
      PROVE  k \in S
  <2> DEFINE
    m == MultiEnd(t, k)
    m1 == MultiEnd(t, k + 1)
    m2 == MultiEnd(t, k + 2)
  <2>1. m = IF k = n THEN [curr |-> k, closed |-> FALSE, star |-> FALSE]
            ELSE IF At(t, k) # "*" \/ k + 1 = n THEN m1
            ELSE IF At(t, k + 1) = "/" THEN [curr |-> k + 2, closed |-> TRUE, star |-> FALSE]
            ELSE [curr |-> m2.curr, closed |-> m2.closed, star |-> TRUE]
    BY MultiEndsDefined
  <2>0. ASSUME NEW j \in D, k < j
        PROVE  Good(j, MultiEnd(t, j)) /\ MultiEnd(t, j).curr \in j..n
    <3>1. j \in S
      BY <1>1, <2>0
    <3>2. MultiEnd(t, j).curr \in j..n
      BY MultiEndIs
    <3> QED BY <3>1, <3>2
  <2>k. k \in Nat /\ n \in Nat /\ (k < n => k + 1 \in D) /\ (k + 1 < n => k + 2 \in D)
    OBVIOUS
  <2> HIDE DEF D, S, Good
  <2>2. k < n => Good(k + 1, m1) /\ m1.curr \in k + 1..n
    BY <2>0, <2>k
  <2>3. k + 1 < n => Good(k + 2, m2) /\ m2.curr \in k + 2..n
    BY <2>0, <2>k
  <2> USE DEF D, S, Good
  <2> HIDE DEF m, m1, m2
  <2>4. Good(k, m)
    <3>1. CASE k = n
      BY <2>1, <3>1
    <3>2. CASE k < n /\ (At(t, k) # "*" \/ k + 1 = n)
      BY <2>1, <2>2, <3>2
    <3>3. CASE k + 1 < n /\ At(t, k) = "*" /\ At(t, k + 1) = "/"
      BY <3>3, <2>1
    <3>4. CASE k + 1 < n /\ At(t, k) = "*" /\ At(t, k + 1) # "/"
      <4>m. m = [curr |-> m2.curr, closed |-> m2.closed, star |-> TRUE]
        BY <2>1, <3>4
      <4>1. m.curr = m2.curr /\ m.closed = m2.closed
        BY <4>m
      <4>2. Good(k + 2, m2) /\ m2.curr \in k + 2..n
        BY <2>3, <3>4
      <4>3. ASSUME NEW j \in k..m.curr - 2, At(t, j) = "*", At(t, j + 1) = "/"
            PROVE  (m.closed /\ j = m.curr - 2) \/ (k < j /\ At(t, j - 1) = "*")
        <5>1. j # k
          BY <3>4, <4>3
        <5>2. CASE j = k + 1
          BY <3>4, <5>2
        <5>3. CASE j \in k + 2..m2.curr - 2
          BY <4>1, <4>2, <4>3, <5>3
        <5> QED BY <4>1, <4>2, <5>1, <5>2, <5>3
      <4>4. k \in k..m.curr - 2
        BY <4>1, <4>2
      <4> QED BY <3>4, <4>3, <4>4
    <3> QED BY <3>1, <3>2, <3>3, <3>4
  <2> QED BY <2>4 DEF m
<1>2. D \subseteq Int /\ n \in Int /\ (\A k \in D : k <= n) /\ i \in D
  OBVIOUS
<1> HIDE DEF D, S, n
<1>3. D \subseteq S
  BY <1>1, <1>2, Downward
<1> QED BY <1>2, <1>3 DEF S

-----------------------------------------------------------------------------
(* Numbers and identifiers. *)

\* What the loop of parseToken knows,
Outcomes == {"go", "stop", "sign", "error"}
Notes == [kind: Outcomes, isn: BOOLEAN, end: Int, di: Int, ei: Int, si: Int]

\* and what it has reached before the character at i when it goes on.
Going(p, i, n) ==
    /\ n \in Notes /\ n.kind = "go" /\ n.end = p
    /\ {n.di, n.ei, n.si} \subseteq {-1} \cup p..i - 1
    /\ n.isn => p < i

\* The character a step of the loop looks at.
CharAt(t, i) == IF i < Len(t) THEN At(t, i) ELSE "end"

\* The cases of a step of parseToken exclude each other.
LEMMA Kinds ==
  ASSUME NEW c
  PROVE  /\ c \in Digits => c # "." /\ c \notin Letters /\ c \notin {"+", "-"} /\ c # "end"
         /\ c = "." => c \notin Letters /\ c \notin {"+", "-"} /\ c # "end"
         /\ c \in Letters => c \notin {"+", "-"} /\ c # "end"
         /\ c \in {"+", "-"} => c # "end"
         /\ c \in {"semi", "end"} => /\ c \notin Digits /\ c # "." /\ c \notin Letters
                                  /\ c \notin {"+", "-"}
  BY DEF Digits, Letters, Keywords

\* A step of the loop, the cases of which are distinct.
LEMMA ScanStepIs ==
  ASSUME NEW t, NEW p, NEW i, NEW n, NEW c, c = CharAt(t, i)
  PROVE  ScanStep(t, p, i, n) =
            IF c \in Digits THEN [n EXCEPT !.isn = @ \/ i = p]
            ELSE IF c = "." /\ n.di # -1 THEN [n EXCEPT !.kind = "error"]
            ELSE IF c = "." /\ n.isn THEN [n EXCEPT !.di = i]
            ELSE IF c \in Letters THEN ScanLetter(p, i, n, n.isn /\ c = "e" /\ n.ei = -1)
            ELSE IF c \in {"+", "-"} /\ n.ei # -1 /\ n.ei = i - 1 THEN [n EXCEPT !.si = i]
            ELSE Stop(n, i)
  BY Kinds DEF ScanStep, CharAt

\* A step of parseToken leaves notes.
LEMMA ScanStepType ==
  ASSUME NEW t, NEW p \in Int, NEW i \in Int, NEW n \in Notes
  PROVE  ScanStep(t, p, i, n) \in Notes
<1> DEFINE
  c == CharAt(t, i)
  l == n.isn /\ c = "e" /\ n.ei = -1
<1>1. l \in BOOLEAN /\ n.isn \in BOOLEAN /\ (n.isn \/ i = p) \in BOOLEAN
  BY DEF Notes, Outcomes
<1> HIDE DEF c
<1>2. ScanLetter(p, i, n, l) \in Notes
  <2> HIDE DEF l
  <2>2. PICK k \in {"sign", "error"} : k = IF n.di = p + 1 THEN "sign" ELSE "error"
    OBVIOUS
  <2>3. ScanLetter(p, i, n, l) =
            IF l \/ n.di = -1 THEN [n EXCEPT !.isn = l, !.ei = IF l THEN i ELSE @]
            ELSE [n EXCEPT !.kind = k, !.end = i]
    BY <2>2 DEF ScanLetter
  <2>4. [n EXCEPT !.isn = l, !.ei = IF l THEN i ELSE @] \in Notes
    BY <1>1 DEF Notes, Outcomes
  <2>6. [n EXCEPT !.kind = k, !.end = i] \in Notes
    BY DEF Notes, Outcomes
  <2> QED BY <2>3, <2>4, <2>6
<1>3. [n EXCEPT !.isn = @ \/ i = p] \in Notes
  BY <1>1 DEF Notes, Outcomes
<1>4. Stop(n, i) \in Notes
  BY DEF Notes, Outcomes, Stop
<1>5. /\ [n EXCEPT !.kind = "error"] \in Notes
      /\ [n EXCEPT !.di = i] \in Notes
      /\ [n EXCEPT !.si = i] \in Notes
  BY DEF Notes, Outcomes
<1>6. ScanStep(t, p, i, n) =
            IF c \in Digits THEN [n EXCEPT !.isn = @ \/ i = p]
            ELSE IF c = "." /\ n.di # -1 THEN [n EXCEPT !.kind = "error"]
            ELSE IF c = "." /\ n.isn THEN [n EXCEPT !.di = i]
            ELSE IF c \in Letters THEN ScanLetter(p, i, n, l)
            ELSE IF c \in {"+", "-"} /\ n.ei # -1 /\ n.ei = i - 1 THEN [n EXCEPT !.si = i]
            ELSE Stop(n, i)
  BY ScanStepIs DEF c
<1> HIDE DEF l
<1> QED BY <1>2, <1>3, <1>4, <1>5, <1>6

\* The notes of a scan, by their equation.
LEMMA ScansDefined ==
  ASSUME NEW t, Len(t) \in Nat, NEW p \in Int, NEW from \in Nat, NEW n \in Notes
  PROVE  \A i \in 0..Len(t) + 1 :
            Scans(t, p, from, n)[i] =
                IF i <= from THEN n
                ELSE IF Scans(t, p, from, n)[i - 1].kind = "go"
                THEN ScanStep(t, p, i - 1, Scans(t, p, from, n)[i - 1])
                ELSE Scans(t, p, from, n)[i - 1]
<1> DEFINE
  m == Len(t) + 1
  D == 0..m
  V == Notes
  Body(g, i) ==
       IF i <= from THEN n
       ELSE IF g[i - 1].kind = "go" THEN ScanStep(t, p, i - 1, g[i - 1]) ELSE g[i - 1]
  F == [g \in [D -> V] |-> [i \in D |-> Body(g, i)]]
  r == [i \in D |-> i]
<1>1. ASSUME NEW g \in [D -> V], NEW i \in D
      PROVE  Body(g, i) \in V
  <2>1. ~(i <= from) => i - 1 \in D /\ i - 1 \in Int
    OBVIOUS
  <2>2. ~(i <= from) => g[i - 1] \in V
    BY <2>1
  <2>3. ~(i <= from) => ScanStep(t, p, i - 1, g[i - 1]) \in V
    BY <2>1, <2>2, ScanStepType
  <2> QED BY <2>2, <2>3
<1>2. ASSUME NEW g \in [D -> V], NEW h \in [D -> V], NEW i \in D,
             \A j \in D : r[j] < r[i] => g[j] = h[j]
      PROVE  Body(g, i) = Body(h, i)
  <2>1. ~(i <= from) => i - 1 \in D /\ r[i - 1] < r[i]
    OBVIOUS
  <2>2. ~(i <= from) => g[i - 1] = h[i - 1]
    BY <1>2, <2>1
  <2> QED BY <2>2
<1>3. r \in [D -> 0..m] /\ m \in Nat /\ V # {}
  OBVIOUS
<1>4. Scans(t, p, from, n) = CHOOSE g : g = [i \in D |-> Body(g, i)]
  BY DEF Scans
<1> HIDE DEF Body, r, D, V, m
<1>5. F \in [[D -> V] -> [D -> V]]
  BY <1>1
<1>6. \A g, h \in [D -> V] : \A i \in D :
          (\A j \in D : r[j] < r[i] => g[j] = h[j]) => F[g][i] = F[h][i]
  BY <1>2
<1> HIDE DEF F
<1>7. Recursive(D, m, r, V, F)
  BY <1>3, <1>5, <1>6 DEF Recursive
<1>8. \E g : g = [i \in D |-> Body(g, i)]
  BY <1>7, Recursion DEF F, Solvable
<1>9. Scans(t, p, from, n) = [i \in D |-> Body(Scans(t, p, from, n), i)]
  BY <1>4, <1>8
<1>10. \A i \in D : Scans(t, p, from, n)[i] = Body(Scans(t, p, from, n), i)
  BY <1>9
<1> QED BY <1>10 DEF Body, D, m

\* A step goes on, stops at its character, finds a sign or an error.
LEMMA ScanStepGoes ==
  ASSUME NEW t, Len(t) \in Nat, NEW p \in Nat, NEW i \in p..Len(t), NEW n, Going(p, i, n),
         NEW m, m = ScanStep(t, p, i, n)
  PROVE  /\ m \in Notes
         /\ m.kind = "go" => Going(p, i + 1, m) /\ i < Len(t)
         /\ m.kind = "stop" => m = Stop(n, i)
         /\ m.kind = "sign" => p < i /\ m.end = i
         /\ i = p /\ m.kind # "go" => CharAt(t, i) \notin Digits \cup Letters
<1> DEFINE c == CharAt(t, i)
<1>1. m = IF c \in Digits THEN [n EXCEPT !.isn = @ \/ i = p]
            ELSE IF c = "." /\ n.di # -1 THEN [n EXCEPT !.kind = "error"]
            ELSE IF c = "." /\ n.isn THEN [n EXCEPT !.di = i]
            ELSE IF c \in Letters THEN ScanLetter(p, i, n, n.isn /\ c = "e" /\ n.ei = -1)
            ELSE IF c \in {"+", "-"} /\ n.ei # -1 /\ n.ei = i - 1 THEN [n EXCEPT !.si = i]
            ELSE Stop(n, i)
  BY ScanStepIs
<1>2. c \in Digits \/ c = "." \/ c \in Letters \/ c \in {"+", "-"} => i < Len(t)
  BY Kinds DEF CharAt
<1>3. m \in Notes
  BY ScanStepType DEF Going
<1>4. /\ c \in Digits => c \notin Letters /\ c # "."
      /\ c = "." => c \notin Letters
  BY Kinds
<1> HIDE DEF c
<1> USE DEF Going, Notes, Outcomes
<1>5. CASE c \in Digits
  <2>1. m = [n EXCEPT !.isn = @ \/ i = p]
    BY <1>1, <1>5
  <2> QED BY <2>1, <1>2, <1>3, <1>5, SMTT(20) DEF c
<1>6. CASE c \notin Digits /\ c = "." /\ n.di # -1
  BY <1>3, <1>4, <1>6, <1>1 DEF c
<1>7. CASE c \notin Digits /\ c = "." /\ n.di = -1 /\ n.isn
  BY <1>2, <1>3, <1>7, <1>1
<1>8. CASE c \notin Digits /\ c # "." /\ c \in Letters
  <2>1. m = ScanLetter(p, i, n, n.isn /\ c = "e" /\ n.ei = -1)
    BY <1>1, <1>8
  <2>2. CASE (n.isn /\ c = "e" /\ n.ei = -1) \/ n.di = -1
    <3>1. m.kind = "go" /\ m.end = n.end /\ m.di = n.di /\ m.si = n.si /\ m.ei \in {n.ei, i}
      BY <2>1, <2>2 DEF ScanLetter
    <3>2. m.isn => n.isn
      BY <2>1, <2>2 DEF ScanLetter
    <3> QED BY <3>1, <3>2, <1>2, <1>3, <1>8
  <2>3. CASE ~((n.isn /\ c = "e" /\ n.ei = -1) \/ n.di = -1)
    <3>1. m = [n EXCEPT !.kind = IF n.di = p + 1 THEN "sign" ELSE "error", !.end = i]
      BY <2>1, <2>3 DEF ScanLetter
    <3>2. n.di < i /\ n.di >= p
      BY <2>3
    <3> QED BY <3>1, <3>2, <1>3
  <2> QED BY <2>2, <2>3
<1>9. CASE /\ c \notin Digits /\ ~(c = "." /\ n.di # -1) /\ ~(c = "." /\ n.isn) /\ c \notin Letters
           /\ c \in {"+", "-"} /\ n.ei # -1 /\ n.ei = i - 1
  <2>1. m = [n EXCEPT !.si = i]
    BY <1>1, <1>9
  <2> QED BY <2>1, <1>2, <1>3, <1>9, SMTT(20)
<1>10. CASE /\ c \notin Digits /\ ~(c = "." /\ n.di # -1) /\ ~(c = "." /\ n.isn) /\ c \notin Letters
            /\ ~(c \in {"+", "-"} /\ n.ei # -1 /\ n.ei = i - 1)
  BY <1>3, <1>10, <1>1 DEF Stop, c
<1> QED BY <1>4, <1>5, <1>6, <1>7, <1>8, <1>9, <1>10

\* A loop that begins at from stops at some e: it goes on up to there, and what
\* the step at e finds is what it ends with.
Stops(t, p, from, n, e) ==
    /\ e \in from..Len(t)
    /\ \A i \in from..e : Going(p, i, Scans(t, p, from, n)[i])
    /\ Scan(t, p, from, n) = ScanStep(t, p, e, Scans(t, p, from, n)[e])
    /\ Scan(t, p, from, n).kind # "go"

\* Every scan stops, at the end of the text at the latest.
LEMMA ScanStops ==
  ASSUME NEW t, Len(t) \in Nat, NEW p \in Nat, NEW from \in p..Len(t), NEW n, Going(p, from, n)
  PROVE  \E e \in from..Len(t) : Stops(t, p, from, n, e)
<1> DEFINE
  len == Len(t)
  s(i) == Scans(t, p, from, n)[i]
  D == from..len
  S == {i \in D : (\A j \in from..i : s(j).kind = "go") => Going(p, i, s(i))}
  out == {i \in D : s(i + 1).kind # "go"}
<1>1. \A i \in 0..len + 1 : s(i) = IF i <= from THEN n
                                  ELSE IF s(i - 1).kind = "go" THEN ScanStep(t, p, i - 1, s(i - 1))
                                  ELSE s(i - 1)
  BY ScansDefined DEF Going
<1> HIDE DEF s
<1>2. s(from) = n
  BY <1>1
<1>3. \A i \in D : s(i + 1) = IF s(i).kind = "go" THEN ScanStep(t, p, i, s(i)) ELSE s(i)
  BY <1>1
<1>4. ASSUME NEW i \in D, \A j \in D : j < i => j \in S
      PROVE  i \in S
  <2>1. CASE i = from
    BY <2>1, <1>2
  <2>2. CASE i > from /\ \A j \in from..i : s(j).kind = "go"
    <3>1. i - 1 \in D /\ i - 1 < i /\ (i - 1) + 1 = i
      BY <2>2
    <3>2. Going(p, i - 1, s(i - 1))
      BY <1>4, <3>1, <2>2
    <3>3. s(i) = ScanStep(t, p, i - 1, s(i - 1))
      BY <1>3, <2>2, <3>1
    <3>4. i - 1 \in p..Len(t)
      BY <3>1
    <3>5. s(i).kind = "go" => Going(p, (i - 1) + 1, s(i))
      BY <3>2, <3>3, <3>4, ScanStepGoes
    <3> QED BY <3>1, <3>5, <2>2
  <2> QED BY <2>1, <2>2
<1>5. D \subseteq S
  <2>1. D \subseteq Nat
    OBVIOUS
  <2> HIDE DEF D, S
  <2> QED BY <1>4, <2>1, Upward
<1>6. out # {}
  <2> SUFFICES ASSUME out = {} PROVE FALSE
    OBVIOUS
  <2>1. \A i \in D : s(i + 1).kind = "go"
    OBVIOUS
  <2>2. s(from).kind = "go"
    BY <1>2 DEF Going
  <2>3. \A j \in D : s(j).kind = "go"
    <3>1. \A j \in D : j = from \/ (j - 1 \in D /\ (j - 1) + 1 = j)
      OBVIOUS
    <3> QED BY <2>1, <2>2, <3>1
  <2>4. Going(p, len, s(len))
    BY <1>5, <2>3
  <2>5. s(len + 1) = ScanStep(t, p, len, s(len))
    BY <1>3, <2>3
  <2>6. len \in p..Len(t)
    OBVIOUS
  <2>7. s(len + 1).kind # "go"
    BY <2>4, <2>5, <2>6, ScanStepGoes
  <2> QED BY <2>1, <2>7
<1>7. PICK e \in out : \A k \in out : e <= k
  <2>1. out \subseteq Nat
    OBVIOUS
  <2> HIDE DEF out
  <2> QED BY <1>6, <2>1, Least
<1>8. e \in D /\ s(e + 1).kind # "go"
  BY <1>7
<1>9. \A j \in from..e : s(j).kind = "go"
  <2> SUFFICES ASSUME NEW j \in from..e, s(j).kind # "go" PROVE FALSE
    OBVIOUS
  <2>1. j # from
    BY <1>2 DEF Going
  <2>2. j - 1 \in D /\ (j - 1) + 1 = j
    BY <2>1, <1>8
  <2>3. j - 1 \in out
    BY <2>2
  <2>4. e <= j - 1
    <3> HIDE DEF out
    <3> QED BY <2>3, <1>7
  <2> QED BY <2>4, <1>8
<1>10. \A i \in from..e : Going(p, i, s(i))
  BY <1>5, <1>8, <1>9
<1>11. s(e + 1) = ScanStep(t, p, e, s(e))
  BY <1>3, <1>8, <1>9
<1>12. s(len + 1) = s(e + 1)
  <2> DEFINE
    T == {i \in e..len : s(i + 1) = s(e + 1)}
    B == e..len
  <2>1. ASSUME NEW i \in B, \A j \in B : j < i => j \in T
        PROVE  i \in T
    <3>1. CASE i = e
      BY <3>1
    <3>2. CASE i > e
      <4>1. i - 1 \in B /\ i - 1 < i /\ (i - 1) + 1 = i /\ i \in D
        BY <3>2, <1>8
      <4>2. s(i) = s(e + 1)
        <5>1. i - 1 \in T
          BY <2>1, <4>1
        <5>2. s((i - 1) + 1) = s(e + 1)
          BY <5>1
        <5> QED BY <4>1, <5>2
      <4>3. s(i + 1) = s(i)
        BY <1>3, <1>8, <4>1, <4>2
      <4> QED BY <4>2, <4>3
    <3> QED BY <3>1, <3>2
  <2>2. B \subseteq Nat /\ len \in B
    BY <1>8
  <2> HIDE DEF B, T
  <2>3. B \subseteq T
    BY <2>1, <2>2, Upward
  <2> QED BY <2>2, <2>3 DEF T
<1>13. Scan(t, p, from, n) = s(len + 1)
  BY DEF Scan, s
<1> QED BY <1>8, <1>10, <1>11, <1>12, <1>13 DEF Stops, s

-----------------------------------------------------------------------------
(* The tokens. *)

Types == {"EOS", "error", "COMMENT", "BLANK", "ID", "STRING", "SIGN", "OP_ARI",
          "USER_VAR", "INT", "DOUBLE"}

Marks == Chars \cup {"none", "--", "//", "/*"}

LexTokens == [type: Types, prefix: Marks, quoted: BOOLEAN, start: Int, end: Int, curr: Int]

\* A comment has its mark before it; its end is marked, or the text ends.
CommentAt(t, p, l) ==
    /\ l.type = "COMMENT" /\ ~l.quoted /\ CommentEnds(t, l)
    /\ \/ l.prefix = "#" /\ l.start = p + 1 /\ At(t, p) = "#"
       \/ l.prefix = "--" /\ l.start = p + 2 /\ At(t, p) = "-" /\ At(t, p + 1) = "-"
       \/ l.prefix = "//" /\ l.start = p + 2 /\ At(t, p) = "/" /\ At(t, p + 1) = "/"
       \/ l.prefix = "/*" /\ l.start = p + 2 /\ At(t, p) = "/" /\ At(t, p + 1) = "*"
    /\ l.curr \in l.start..Len(t) /\ l.end <= l.curr
    /\ \/ l.curr = Len(t)
       \/ l.end \in l.start..Len(t) /\ l.prefix # "/*"
            /\ l.curr = l.end + 1 /\ At(t, l.end) = "nl"
       \/ l.end \in l.start..Len(t) /\ l.prefix # "/*"
            /\ l.curr = l.end + 2 /\ At(t, l.end) = "cr" /\ At(t, l.end + 1) = "nl"
       \/ l.end \in l.start..Len(t) /\ l.prefix = "/*"
            /\ l.curr = l.end + 2 /\ At(t, l.end) = "*" /\ At(t, l.end + 1) = "/"

\* A quoted text stands between its quotes, those in it are doubled.
QuotedAt(t, p, l) ==
    /\ l.prefix \in Quotes
    /\ \/ l.type = "ID" /\ l.quoted /\ l.start = p + 1 /\ l.prefix = "bq"
       \/ l.type = "STRING" /\ ~l.quoted /\ l.start = p + 1
       \/ l.type = "USER_VAR" /\ l.quoted /\ l.start = p + 2 /\ At(t, p) = "@"
    /\ l.end \in l.start..Len(t) - 1 /\ l.curr = l.end + 1
    /\ At(t, l.start - 1) = l.prefix /\ At(t, l.end) = l.prefix
    /\ PairedIn(t, l.start, l.end, l.prefix)

\* All others are what they say, but for the at sign of a user variable.
PlainAt(t, p, l) ==
    /\ ~l.quoted /\ l.end = l.curr /\ l.curr \in l.start..Len(t)
    /\ \/ /\ l.type = "USER_VAR" /\ l.start = p + 1 /\ At(t, p) = "@"
          /\ l.prefix = "semi" => l.curr < Len(t)
       \/ /\ l.type \in {"SIGN", "OP_ARI"} /\ l.start = p /\ l.curr > p /\ l.prefix = At(t, p)
          /\ l.prefix \in Signs =>
                l.type = "SIGN" /\ l.curr = p + (IF l.prefix = "@" THEN 2 ELSE 1)
       \/ /\ l.type = "BLANK" /\ l.start = p /\ l.curr > p /\ l.prefix = At(t, p)
          /\ \A j \in p..l.curr - 1 : At(t, j) \in Blanks
       \/ /\ l.type \in {"ID", "INT", "DOUBLE"} /\ l.start = p /\ l.prefix = At(t, p)
          /\ l.prefix \notin Signs \cup Blanks \cup Quotes
          /\ l.curr = p => l.type = "ID" /\ At(t, p) = "other"

Laid(t, p, l) ==
    /\ l \in LexTokens
    /\ \/ l = Fault
       \/ p = Len(t) /\ l = Token("EOS", "none", p, p, p)
       \/ p < Len(t) /\ (CommentAt(t, p, l) \/ QuotedAt(t, p, l) \/ PlainAt(t, p, l))

\* What Token makes is a token.
LEMMA TokenType ==
  ASSUME NEW type \in Types, NEW prefix \in Marks, NEW i \in Int, NEW j \in Int, NEW k \in Int
  PROVE  Token(type, prefix, i, j, k) \in LexTokens
  BY DEF Token, LexTokens

\* A token that lies as one of its kinds is laid.
LEMMA CommentLaid ==
  ASSUME NEW t, Len(t) \in Nat, NEW p \in 0..Len(t) - 1, NEW l \in LexTokens,
         CommentAt(t, p, l) \/ QuotedAt(t, p, l) \/ PlainAt(t, p, l)
  PROVE  Laid(t, p, l)
  BY DEF Laid

\* The tokens of nexToken, kind by kind, lie where they were read: a fault,
LEMMA FaultLaid ==
  ASSUME NEW t, NEW p
  PROVE  Laid(t, p, Fault)
<1>1. "error" \in Types /\ "none" \in Marks
  BY DEF Types, Marks
<1>2. Fault \in LexTokens
  BY <1>1 DEF Fault, Token, LexTokens
<1> QED BY <1>2 DEF Laid

\* a comment to the end of the line,
LEMMA LineCommentLaid ==
  ASSUME NEW t \in Seq(Chars), NEW p \in 0..Len(t) - 1, NEW i \in {p + 1, p + 2},
         i <= Len(t), NEW sign,
         \/ sign = "#" /\ i = p + 1 /\ At(t, p) = "#"
         \/ sign = "--" /\ i = p + 2 /\ At(t, p) = "-" /\ At(t, p + 1) = "-"
         \/ sign = "//" /\ i = p + 2 /\ At(t, p) = "/" /\ At(t, p + 1) = "/"
  PROVE  Laid(t, p, LineComment(t, i, sign))
<1> DEFINE
  nl == Find(t, i, {"nl"})
  curr == IF nl < Len(t) THEN nl + 1 ELSE nl
  cr == curr > i /\ At(t, curr - 2) = "cr"
  end == IF cr THEN curr - 2 ELSE curr - 1
  l == LineComment(t, i, sign)
<1>1. l = Token("COMMENT", sign, i, end, curr)
  BY DEF LineComment
<1>2. nl \in i..Len(t) /\ (nl < Len(t) => At(t, nl) = "nl")
  BY FindIn
<1> HIDE DEF nl, l
<1>3. curr \in i..Len(t) /\ end \in Int /\ end <= curr
  BY <1>2
<1>4. sign \in Marks /\ "COMMENT" \in Types
  BY DEF Marks, Types, Chars
<1>5. l \in LexTokens
  BY <1>1, <1>3, <1>4, TokenType
<1>6. l.type = "COMMENT" /\ ~l.quoted /\ l.prefix = sign /\ l.start = i /\ l.end = end /\ l.curr = curr
  BY <1>1 DEF Token
<1>7. At(t, i - 1) # "cr"
  OBVIOUS
<1>n. \A j \in i..nl - 1 : At(t, j) # "nl"
  BY FindIn DEF nl
<1>s. sign # "/*"
  OBVIOUS
<1>8. CASE nl = Len(t)
  <2>1. curr = Len(t) /\ (end = curr - 1 \/ (end = curr - 2 /\ At(t, end) = "cr"))
    BY <1>8
  <2>2. CommentEnds(t, l)
    <3> HIDE DEF curr, end, cr
    <3> QED BY <1>6, <1>8, <1>n, <1>s, <2>1 DEF CommentEnds, LineCommentEnds
  <2> HIDE DEF curr, end
  <2>a. CommentAt(t, p, l)
    BY <1>3, <1>5, <1>6, <2>1, <2>2 DEF CommentAt
  <2> QED BY <2>a, <1>5, CommentLaid DEF l
<1>9. CASE nl < Len(t) /\ ~cr
  <2>1. curr = nl + 1 /\ end = nl
    BY <1>9, <1>2
  <2> HIDE DEF curr, end, cr
  <2>2. CommentEnds(t, l)
    <3>1. Slice(t, l.end, l.curr) = <<"nl">>
      BY <1>2, <1>6, <1>9, <2>1, SliceOne
    <3>2. \A j \in l.start..l.end - 1 : At(t, j) # "nl"
      BY <1>6, <1>n, <2>1
    <3>3. nl \in l.start..Len(t) - 1
      BY <1>2, <1>6, <1>9
    <3> QED BY <1>2, <1>6, <1>9, <1>s, <3>1, <3>2, <3>3 DEF CommentEnds, LineCommentEnds
  <2>a. CommentAt(t, p, l)
    BY <1>2, <1>3, <1>5, <1>6, <1>9, <2>1, <2>2 DEF CommentAt
  <2> QED BY <2>a, <1>5, CommentLaid DEF l
<1>10. CASE nl < Len(t) /\ cr
  <2>1. curr = nl + 1 /\ end = nl - 1 /\ At(t, nl - 1) = "cr" /\ (nl + 1) - 2 = nl - 1
    BY <1>10, <1>2
  <2>2. nl # i
    BY <2>1, <1>7
  <2>3. end \in i..Len(t) /\ end + 1 = nl /\ curr = end + 2 /\ At(t, end) = "cr" /\ At(t, end + 1) = "nl"
    BY <2>1, <2>2, <1>2, <1>10
  <2> HIDE DEF curr, end, cr
  <2>4. CommentEnds(t, l)
    <3>1. l.end \in 0..Len(t) - 2 /\ l.curr = l.end + 2
      BY <1>2, <1>6, <1>10, <2>3
    <3>2. Slice(t, l.end, l.curr) = <<At(t, l.end), At(t, l.end + 1)>>
      BY <3>1, SliceTwo
    <3>3. Slice(t, l.end, l.curr) = <<"cr", "nl">>
      BY <1>6, <2>3, <3>2
    <3>4. \A j \in l.start..l.end - 1 : At(t, j) # "nl"
      BY <1>2, <1>6, <1>n, <2>3
    <3>5. nl \in l.start..Len(t) - 1
      BY <1>2, <1>6, <1>10
    <3> QED BY <1>2, <1>6, <1>10, <1>s, <3>3, <3>4, <3>5 DEF CommentEnds, LineCommentEnds
  <2>a. CommentAt(t, p, l)
    BY <1>3, <1>5, <1>6, <2>3, <2>4 DEF CommentAt
  <2> QED BY <2>a, <1>5, CommentLaid DEF l
<1> QED BY <1>2, <1>8, <1>9, <1>10

\* a comment between its marks,
LEMMA MultiCommentLaid ==
  ASSUME NEW t \in Seq(Chars), NEW p \in 0..Len(t) - 2, At(t, p) = "/", At(t, p + 1) = "*"
  PROVE  Laid(t, p, MultiComment(t, p + 2))
<1> DEFINE
  i == p + 2
  m == MultiEnd(t, i)
  marked == m.closed \/ (m.star /\ At(t, m.curr - 1) = "/")
  end == IF marked THEN m.curr - 2 ELSE m.curr
  l == MultiComment(t, i)
<1>1. l = Token("COMMENT", "/*", i, end, m.curr)
  BY DEF MultiComment
<1>2. /\ m.curr \in i..Len(t)
      /\ m.closed => i + 2 <= m.curr /\ At(t, m.curr - 2) = "*" /\ At(t, m.curr - 1) = "/"
      /\ ~m.closed => m.curr = Len(t)
      /\ m.star => i + 2 <= m.curr
  <2>1. i \in 0..Len(t)
    OBVIOUS
  <2> HIDE DEF i
  <2> QED BY <2>1, MultiEndIs
<1>f. /\ \A j \in i..m.curr - 2 : At(t, j) = "*" /\ At(t, j + 1) = "/" =>
            (m.closed /\ j = m.curr - 2) \/ (i < j /\ At(t, j - 1) = "*")
      /\ m.star => \E j \in i..m.curr - 2 : At(t, j) = "*"
  <2>1. i \in 0..Len(t)
    OBVIOUS
  <2> HIDE DEF i
  <2> QED BY <2>1, MultiEndFirst
<1> HIDE DEF m, l
<1>3. end \in Int /\ end <= m.curr
  BY <1>2
<1>4. "/*" \in Marks /\ "COMMENT" \in Types
  BY DEF Marks, Types
<1>5. l \in LexTokens
  BY <1>1, <1>2, <1>3, <1>4, TokenType
<1>6. l.type = "COMMENT" /\ ~l.quoted /\ l.prefix = "/*" /\ l.start = i /\ l.end = end /\ l.curr = m.curr
  BY <1>1 DEF Token
<1>7. CASE ~m.closed
  <2>1. CommentEnds(t, l)
    <3>1. \/ end = m.curr
          \/ end = m.curr - 2 /\ m.star /\ At(t, m.curr - 1) = "/"
      BY <1>7
    <3> HIDE DEF end, i
    <3> QED BY <1>2, <1>6, <1>7, <1>f, <3>1 DEF CommentEnds, BlockCommentEnds
  <2> HIDE DEF end
  <2>a. CommentAt(t, p, l)
    BY <1>2, <1>3, <1>5, <1>6, <1>7, <2>1 DEF CommentAt
  <2> QED BY <2>a, <1>5, CommentLaid DEF l
<1>8. CASE m.closed
  <2>1. end \in i..Len(t) /\ m.curr = end + 2 /\ end = m.curr - 2 /\ end + 1 = m.curr - 1
    BY <1>2, <1>8
  <2>2. CommentEnds(t, l)
    <3>1. l.end \in 0..Len(t) - 2 /\ l.curr = l.end + 2
      BY <1>2, <1>6, <2>1
    <3>2. Slice(t, l.end, l.curr) = <<At(t, l.end), At(t, l.end + 1)>>
      BY <3>1, SliceTwo
    <3>3. Slice(t, l.end, l.curr) = <<"*", "/">>
      BY <1>2, <1>6, <1>8, <2>1, <3>2
    <3> HIDE DEF end, i
    <3> QED BY <1>6, <1>f, <2>1, <3>3 DEF CommentEnds, BlockCommentEnds
  <2> HIDE DEF end
  <2>a. CommentAt(t, p, l)
    BY <1>2, <1>3, <1>5, <1>6, <1>8, <2>1, <2>2 DEF CommentAt
  <2> QED BY <2>a, <1>5, CommentLaid DEF l
<1> QED BY <1>7, <1>8

\* a text in quotes,
LEMMA QuotedLaid ==
  ASSUME NEW t \in Seq(Chars), NEW p \in 0..Len(t) - 1, NEW b \in {p, p + 1}, b < Len(t),
         NEW type,
         \/ type = "ID" /\ b = p /\ At(t, b) = "bq"
         \/ type = "STRING" /\ b = p /\ At(t, b) \in {"sq", "dq"}
         \/ type = "USER_VAR" /\ b = p + 1 /\ At(t, p) = "@" /\ At(t, b) \in Quotes
  PROVE  Laid(t, p, Quoted(t, b, type))
<1> DEFINE
  q == At(t, b)
  i == b + 1
  end == Closing(t, i, q)
  l == Quoted(t, b, type)
<1>1. l = QuotedTo(t, b, type, end)
  BY DEF Quoted
<1>2. /\ end \in i..Len(t)
      /\ end < Len(t) => At(t, end) = q
      /\ PairedIn(t, i, end, q)
  <2>1. i \in 0..Len(t)
    OBVIOUS
  <2> HIDE DEF i, q
  <2> QED BY <2>1, ClosingIs
<1> HIDE DEF end, l
<1>3. q \in Quotes /\ q \in Marks /\ type \in Types
  BY DEF Quotes, Marks, Chars, Types
<1>4. CASE end = Len(t)
  BY <1>1, <1>4, FaultLaid DEF QuotedTo, l
<1>5. CASE end < Len(t)
  <2>1. l = [type |-> type, prefix |-> q, quoted |-> type # "STRING",
             start |-> i, end |-> end, curr |-> end + 1]
    BY <1>1, <1>5 DEF QuotedTo
  <2>2. l \in LexTokens
    BY <2>1, <1>2, <1>3 DEF LexTokens
  <2>3. /\ l.type = type /\ l.prefix = q /\ (l.quoted <=> type # "STRING")
        /\ l.start = i /\ l.end = end /\ l.curr = end + 1
    BY <2>1
  <2>4. i - 1 = b
    OBVIOUS
  <2>5. QuotedAt(t, p, l)
    <3>1. \/ l.type = "ID" /\ l.quoted /\ l.start = p + 1 /\ l.prefix = "bq"
          \/ l.type = "STRING" /\ ~l.quoted /\ l.start = p + 1
          \/ l.type = "USER_VAR" /\ l.quoted /\ l.start = p + 2 /\ At(t, p) = "@"
      BY <2>3
    <3>2. l.end \in l.start..Len(t) - 1 /\ l.curr = l.end + 1
      BY <1>2, <1>5, <2>3
    <3>3. At(t, l.start - 1) = l.prefix /\ At(t, l.end) = l.prefix
      BY <1>2, <1>5, <2>3, <2>4
    <3>4. PairedIn(t, l.start, l.end, l.prefix) /\ l.prefix \in Quotes
      BY <1>2, <1>3, <2>3
    <3> QED BY <3>1, <3>2, <3>3, <3>4 DEF QuotedAt
  <2> QED BY <2>2, <2>5, CommentLaid DEF l
<1> QED BY <1>2, <1>4, <1>5

\* a token that is all of what was read,
LEMMA PlainLaid ==
  ASSUME NEW t \in Seq(Chars), NEW p \in 0..Len(t) - 1, NEW type \in Types,
         NEW mark \in Marks, NEW start \in Nat, NEW end \in start..Len(t),
         PlainAt(t, p, Token(type, mark, start, end, end))
  PROVE  Laid(t, p, Token(type, mark, start, end, end))
  BY CommentLaid, TokenType

\* blanks,
LEMMA BlankLaid ==
  ASSUME NEW t \in Seq(Chars), NEW p \in 0..Len(t) - 1, At(t, p) \in Blanks
  PROVE  Laid(t, p, BlankToken(t, p))
<1> DEFINE end == Find(t, p, Chars \ Blanks)
<1>1. /\ end \in p..Len(t)
      /\ end < Len(t) => At(t, end) \notin Blanks
      /\ \A k \in p..end - 1 : At(t, k) \notin Chars \ Blanks
  BY FindIn
<1>2. BlankToken(t, p) = Token("BLANK", At(t, p), p, end, end)
  BY DEF BlankToken
<1> HIDE DEF end
<1>3. end > p
  BY <1>1
<1>4. \A k \in p..end - 1 : At(t, k) \in Blanks
  BY <1>1, Chars1
<1>5. At(t, p) \in Marks /\ "BLANK" \in Types
  BY Chars1 DEF Marks, Types
<1>6. PlainAt(t, p, Token("BLANK", At(t, p), p, end, end))
  BY <1>1, <1>3, <1>4 DEF PlainAt, Token
<1> QED BY <1>1, <1>2, <1>5, <1>6, PlainLaid

\* a token of one character,
LEMMA OneLaid ==
  ASSUME NEW t \in Seq(Chars), NEW p \in 0..Len(t) - 1, NEW type \in {"SIGN", "OP_ARI"},
         At(t, p) \in Signs => type = "SIGN" /\ At(t, p) # "@"
  PROVE  Laid(t, p, Token(type, At(t, p), p, p + 1, p + 1))
<1>1. At(t, p) \in Marks /\ type \in Types
  BY Chars1 DEF Marks, Types
<1> DEFINE l == Token(type, At(t, p), p, p + 1, p + 1)
<1>a. /\ l.type = type /\ l.prefix = At(t, p) /\ ~l.quoted
      /\ l.start = p /\ l.end = p + 1 /\ l.curr = p + 1
  BY DEF Token
<1>2. PlainAt(t, p, l)
  <2> HIDE DEF l
  <2>1. ~l.quoted /\ l.end = l.curr /\ l.curr \in l.start..Len(t)
    BY <1>a
  <2>2. /\ l.type \in {"SIGN", "OP_ARI"} /\ l.start = p /\ l.curr > p /\ l.prefix = At(t, p)
        /\ l.prefix \in Signs => l.type = "SIGN" /\ l.curr = p + (IF l.prefix = "@" THEN 2 ELSE 1)
    BY <1>a
  <2> QED BY <2>1, <2>2 DEF PlainAt
<1>3. p \in Nat /\ p + 1 \in p..Len(t)
  OBVIOUS
<1> QED BY <1>1, <1>2, <1>3, PlainLaid

\* a user variable,
LEMMA UserVarLaid ==
  ASSUME NEW t \in Seq(Chars), NEW p \in 0..Len(t) - 2, At(t, p) = "@", At(t, p + 1) # "@"
  PROVE  Laid(t, p, UserVarToken(t, p + 1))
<1>1. p + 1 < Len(t) /\ p + 1 \in 0..Len(t) - 1 /\ p \in 0..Len(t) - 1 /\ p + 1 \in {p, p + 1}
  OBVIOUS
<1>2. CASE At(t, p + 1) \in Quotes
  BY <1>1, <1>2, QuotedLaid DEF UserVarToken
<1>3. CASE At(t, p + 1) \notin Quotes
  <2> DEFINE
    S == Chars \ (Letters \cup Digits \cup {"."})
    b == p + 1
    end == Find(t, b, S)
  <2>1. UserVarToken(t, b) = Token("USER_VAR", At(t, b), b, end, end)
    BY <1>1, <1>3 DEF UserVarToken
  <2>2. end \in b..Len(t)
    BY <1>1, FindIn
  <2>3. At(t, b) = "semi" => end = b
    <3> SUFFICES ASSUME At(t, b) = "semi" PROVE end = b
      OBVIOUS
    <3>1. "semi" \in S
      BY DEF Chars, Letters, Keywords, Digits, Signs
    <3> HIDE DEF S
    <3>2. b \in 0..Len(t) /\ b \in b..Len(t) /\ Len(t) \in Nat
      BY <1>1
    <3>3. \A k \in b..b - 1 : At(t, k) \notin S
      OBVIOUS
    <3>4. b < Len(t) => At(t, b) \in S
      BY <3>1
    <3> HIDE DEF b
    <3> QED BY <3>2, <3>3, <3>4, FindThe
  <2>4. At(t, b) \in Marks /\ "USER_VAR" \in Types
    BY <1>1, Chars1 DEF Marks, Types
  <2> HIDE DEF end, S
  <2>5. PlainAt(t, p, Token("USER_VAR", At(t, b), b, end, end))
    BY <1>1, <2>2, <2>3 DEF PlainAt, Token
  <2>6. b \in Nat
    BY <1>1
  <2> QED BY <1>1, <2>1, <2>2, <2>4, <2>5, <2>6, PlainLaid
<1> QED BY <1>2, <1>3

\* What a scan that begins right gives.
LEMMA ScannedLaid ==
  ASSUME NEW t \in Seq(Chars), NEW p \in 0..Len(t) - 1, NEW from \in {p, p + 1},
         from <= Len(t), NEW n, Going(p, from, n),
         At(t, p) \in Digits \cup Letters \cup {".", "other"},
         At(t, p) = "." => from = p + 1
  PROVE  Laid(t, p, Scanned(t, p, Scan(t, p, from, n)))
<1> DEFINE m == Scan(t, p, from, n)
<1>1. PICK e \in from..Len(t) : Stops(t, p, from, n, e)
  BY ScanStops
<1>2. PICK g : g = Scans(t, p, from, n)[e]
  OBVIOUS
<1>3. Going(p, e, g) /\ m = ScanStep(t, p, e, g) /\ m.kind # "go"
  BY <1>1, <1>2 DEF Stops
<1>4. /\ m \in Notes
      /\ m.kind = "stop" => m = Stop(g, e)
      /\ m.kind = "sign" => p < e /\ m.end = e
      /\ e = p => CharAt(t, e) \notin Digits \cup Letters
  <2>1. e \in p..Len(t)
    BY <1>1
  <2> HIDE DEF m
  <2> QED BY <1>3, <2>1, ScanStepGoes
<1> HIDE DEF m
<1>5. CASE ScanFails(m)
  BY <1>5, FaultLaid DEF Scanned, m
<1>6. CASE ~ScanFails(m)
  <2>1. m.kind \in {"stop", "sign"}
    BY <1>3, <1>4, <1>6 DEF Notes, Outcomes, ScanFails
  <2>2. m.end = e
    BY <2>1, <1>3, <1>4 DEF Stop, Going, Notes
  <2>3. e = p => At(t, p) = "other"
    BY <1>1, <1>4 DEF CharAt
  <2>4. e = p => ~m.isn /\ m.kind = "stop"
    <3> SUFFICES ASSUME e = p PROVE ~m.isn /\ m.kind = "stop"
      OBVIOUS
    <3>1. m.kind = "stop" /\ ~g.isn
      BY <2>1, <1>3, <1>4 DEF Going
    <3>2. m = [g EXCEPT !.kind = "stop", !.end = e] /\ g \in Notes
      BY <3>1, <1>3, <1>4 DEF Stop, Going
    <3> QED BY <3>1, <3>2 DEF Notes
  <2>5. ScannedType(m) \in {"SIGN", "ID", "INT", "DOUBLE"} /\ (e = p => ScannedType(m) = "ID")
    BY <2>4 DEF ScannedType
  <2>6. PICK type \in {"SIGN", "ID", "INT", "DOUBLE"} : type = ScannedType(m)
    BY <2>5
  <2>7. Scanned(t, p, m) = Token(type, At(t, p), p, e, e)
    BY <1>6, <2>2, <2>6 DEF Scanned
  <2>8. At(t, p) \notin Signs \cup Blanks \cup Quotes
    BY DEF Digits, Letters, Keywords, Signs, Blanks, Quotes
  <2>9. At(t, p) \in Marks /\ type \in Types
    BY Chars1 DEF Marks, Types
  <2>10. p \in Nat /\ e \in p..Len(t)
    BY <1>1
  <2>11. PlainAt(t, p, Token(type, At(t, p), p, e, e))
    <3>1. CASE type = "SIGN"
      <4>1. e > p
        BY <2>5, <2>6, <2>10, <3>1
      <4> QED BY <2>8, <2>10, <3>1, <4>1 DEF PlainAt, Token
    <3>2. CASE type # "SIGN"
      BY <2>3, <2>5, <2>6, <2>8, <2>10, <3>2 DEF PlainAt, Token
    <3> QED BY <3>1, <3>2
  <2> QED BY <2>7, <2>9, <2>10, <2>11, PlainLaid DEF m
<1> QED BY <1>5, <1>6

\* and a number or an identifier.
LEMMA ParseTokenLaid ==
  ASSUME NEW t \in Seq(Chars), NEW p \in 0..Len(t) - 1,
         At(t, p) \in Digits \cup Letters \cup {".", "other"}
  PROVE  Laid(t, p, ParseToken(t, p))
<1> DEFINE
  n == [kind |-> "go", isn |-> FALSE, end |-> p, di |-> -1, ei |-> -1, si |-> -1]
  d == [n EXCEPT !.isn = TRUE, !.di = p]
<1>1. ParseToken(t, p) =
        IF At(t, p) # "." THEN Scanned(t, p, Scan(t, p, p, n))
        ELSE IF p + 1 = Len(t) THEN Fault
        ELSE IF At(t, p + 1) \notin Digits THEN Token("SIGN", ".", p, p + 1, p + 1)
        ELSE Scanned(t, p, Scan(t, p, p + 1, d))
  BY DEF ParseToken
<1>2. Going(p, p, n)
  BY DEF Going, Notes, Outcomes
<1>3. Going(p, p + 1, d)
  <2>1. n \in Notes /\ n.kind = "go" /\ n.end = p /\ n.ei = -1 /\ n.si = -1
    BY DEF Notes, Outcomes
  <2> HIDE DEF n
  <2>2. d \in Notes /\ d.kind = "go" /\ d.end = p /\ d.di = p /\ d.ei = -1 /\ d.si = -1
    BY <2>1 DEF Notes
  <2> HIDE DEF d
  <2> QED BY <2>2 DEF Going
<1> HIDE DEF n, d
<1>4. CASE At(t, p) # "."
  <2>1. p <= Len(t)
    OBVIOUS
  <2>2. Laid(t, p, Scanned(t, p, Scan(t, p, p, n)))
    BY <1>2, <1>4, <2>1, ScannedLaid
  <2> QED BY <1>1, <1>4, <2>2
<1>5. CASE At(t, p) = "." /\ p + 1 = Len(t)
  BY <1>1, <1>5, FaultLaid
<1>6. CASE At(t, p) = "." /\ p + 1 # Len(t) /\ At(t, p + 1) \notin Digits
  BY <1>1, <1>6, OneLaid DEF Signs
<1>7. CASE At(t, p) = "." /\ p + 1 # Len(t) /\ At(t, p + 1) \in Digits
  <2>1. p + 1 <= Len(t)
    OBVIOUS
  <2>2. Laid(t, p, Scanned(t, p, Scan(t, p, p + 1, d)))
    BY <1>3, <1>7, <2>1, ScannedLaid
  <2> QED BY <1>1, <1>7, <2>2
<1> QED BY <1>4, <1>5, <1>6, <1>7

\* The cases of nexToken are distinct, and together are all the characters.
LEMMA NexTokenLaid ==
  ASSUME NEW t \in Seq(Chars), NEW p \in 0..Len(t) - 1, At(t, p) # "@"
  PROVE  Laid(t, p, NexToken(t, p))
<1> DEFINE
  c == At(t, p)
  next == IF p + 1 < Len(t) THEN At(t, p + 1) ELSE "end"
  One(type) == Token(type, c, p, p + 1, p + 1)
  l == NexToken(t, p)
<1>1. l = CASE c \in {"-", "/"} /\ next = "end" -> Fault
            [] c = "-" /\ next = "-" -> LineComment(t, p + 2, "--")
            [] c = "/" /\ next = "/" -> LineComment(t, p + 2, "//")
            [] c = "/" /\ next = "*" -> MultiComment(t, p + 2)
            [] c = "-" /\ next \notin {"-", "end"} -> One("OP_ARI")
            [] c = "/" /\ next \notin {"/", "*", "end"} -> One("OP_ARI")
            [] c \in {"+", "*"} -> One("OP_ARI")
            [] c = "#" -> LineComment(t, p + 1, "#")
            [] c \in Blanks -> BlankToken(t, p)
            [] c = "bq" -> Quoted(t, p, "ID")
            [] c \in {"sq", "dq"} -> Quoted(t, p, "STRING")
            [] c \in Signs -> One("SIGN")
            [] OTHER -> ParseToken(t, p)
  BY DEF NexToken
<1>2. next # "end" => p + 1 < Len(t) /\ next = At(t, p + 1)
  OBVIOUS
<1>3. c \in Chars
  BY Chars1
<1> HIDE DEF c, next, l
<1> USE DEF Blanks, Signs
<1>4. CASE c \in {"-", "/"} /\ next = "end"
  BY FaultLaid, <1>1, <1>4 DEF l
<1>5. CASE c = "-" /\ next = "-"
  <2>1. l = LineComment(t, p + 2, "--")
    BY <1>1, <1>5
  <2>2. p + 2 <= Len(t) /\ p + 2 \in {p + 1, p + 2}
    BY <1>2, <1>5
  <2> QED BY <2>1, <2>2, <1>2, <1>5, LineCommentLaid DEF l, c
<1>6. CASE c = "/" /\ next = "/"
  <2>1. l = LineComment(t, p + 2, "//")
    BY <1>1, <1>6
  <2>2. p + 2 <= Len(t) /\ p + 2 \in {p + 1, p + 2}
    BY <1>2, <1>6
  <2> QED BY <2>1, <2>2, <1>2, <1>6, LineCommentLaid DEF l, c
<1>7. CASE c = "/" /\ next = "*"
  <2>1. l = MultiComment(t, p + 2)
    BY <1>1, <1>7
  <2>2. p \in 0..Len(t) - 2
    BY <1>2, <1>7
  <2> QED BY <2>1, <2>2, <1>2, <1>7, MultiCommentLaid DEF l, c
<1>8. CASE \/ c = "-" /\ next \notin {"-", "end"}
           \/ c = "/" /\ next \notin {"/", "*", "end"}
           \/ c \in {"+", "*"}
  BY OneLaid, <1>1, <1>8 DEF l, c
<1>9. CASE c = "#"
  <2>1. l = LineComment(t, p + 1, "#")
    BY <1>1, <1>9
  <2>2. p + 1 <= Len(t) /\ p + 1 \in {p + 1, p + 2}
    OBVIOUS
  <2> QED BY <2>1, <2>2, <1>9, LineCommentLaid DEF l, c
<1>10. CASE c \in Blanks
  BY <1>10, BlankLaid, <1>1 DEF l, c
<1>11. CASE c = "bq"
  <2>1. l = Quoted(t, p, "ID")
    BY <1>1, <1>11
  <2>2. p < Len(t) /\ p \in {p, p + 1}
    OBVIOUS
  <2> QED BY <2>1, <2>2, <1>11, QuotedLaid DEF l, c
<1>12. CASE c \in {"sq", "dq"}
  <2>1. l = Quoted(t, p, "STRING")
    BY <1>1, <1>12
  <2>2. p < Len(t) /\ p \in {p, p + 1}
    OBVIOUS
  <2> QED BY <2>1, <2>2, <1>12, QuotedLaid DEF l, c
<1>13. CASE c \in Signs
  BY OneLaid, <1>1, <1>13 DEF l, c
<1>14. CASE c \in Digits \cup Letters \cup {".", "other"}
  <2>1. l = ParseToken(t, p)
    BY <1>1, <1>14 DEF Digits, Letters, Keywords
  <2> QED BY <2>1, <1>14, ParseTokenLaid DEF l, c
<1>15. c \in {"-", "/", "+", "*", "#"} \cup Blanks \cup Quotes \cup Signs \cup (Digits \cup Letters \cup {".", "other"})
  <2> HIDE DEF Blanks, Signs
  <2> QED BY <1>3 DEF Chars
<1> HIDE DEF Blanks, Signs
<1> QED BY <1>4, <1>5, <1>6, <1>7, <1>8, <1>9, <1>10, <1>11, <1>12, <1>13, <1>14, <1>15 DEF Quotes

\* Every token lies where it was read.
LEMMA LexLaid ==
  ASSUME NEW t \in Seq(Chars), NEW p \in 0..Len(t)
  PROVE  Laid(t, p, Lex(t, p))
<1>1. CASE p = Len(t)
  <2>1. Lex(t, p) = Token("EOS", "none", p, p, p)
    BY <1>1 DEF Lex
  <2>2. "EOS" \in Types /\ "none" \in Marks /\ p \in Int
    BY DEF Types, Marks
  <2>3. Token("EOS", "none", p, p, p) \in LexTokens
    BY <2>2, TokenType
  <2> QED BY <1>1, <2>1, <2>3 DEF Laid
<1>2. CASE p < Len(t) /\ At(t, p) # "@"
  BY <1>2, NexTokenLaid DEF Lex
<1>3. CASE p < Len(t) /\ At(t, p) = "@" /\ p + 1 = Len(t)
  BY <1>3, FaultLaid DEF Lex
<1>4. CASE p < Len(t) /\ At(t, p) = "@" /\ p + 1 # Len(t) /\ At(t, p + 1) = "@"
  <2> DEFINE l == Token("SIGN", "@", p, p + 2, p + 2)
  <2>1. Lex(t, p) = l
    BY <1>4 DEF Lex
  <2>2. p \in 0..Len(t) - 1 /\ p \in Nat /\ p + 2 \in p..Len(t)
    BY <1>4
  <2>3. "SIGN" \in Types /\ "@" \in Marks
    BY DEF Types, Marks, Chars, Signs
  <2>4. /\ l.type = "SIGN" /\ l.prefix = "@" /\ ~l.quoted
        /\ l.start = p /\ l.end = p + 2 /\ l.curr = p + 2
    BY DEF Token
  <2>5. PlainAt(t, p, l)
    <3> HIDE DEF l
    <3>1. ~l.quoted /\ l.end = l.curr /\ l.curr \in l.start..Len(t)
      BY <2>2, <2>4
    <3>2. /\ l.type \in {"SIGN", "OP_ARI"} /\ l.start = p /\ l.curr > p /\ l.prefix = At(t, p)
          /\ l.prefix \in Signs => l.type = "SIGN" /\ l.curr = p + (IF l.prefix = "@" THEN 2 ELSE 1)
      BY <2>2, <2>4, <1>4
    <3> QED BY <3>1, <3>2 DEF PlainAt
  <2> QED BY <2>1, <2>2, <2>3, <2>5, PlainLaid
<1>5. CASE p < Len(t) /\ At(t, p) = "@" /\ p + 1 # Len(t) /\ At(t, p + 1) # "@"
  <2>1. p \in 0..Len(t) - 2
    BY <1>5
  <2>2. Lex(t, p) = UserVarToken(t, p + 1)
    BY <1>5 DEF Lex
  <2> QED BY <1>5, <2>1, <2>2, UserVarLaid
<1> QED BY <1>1, <1>2, <1>3, <1>4, <1>5

-----------------------------------------------------------------------------
(* The tokens of a text. *)

Reads == [type: Types, prefix: Marks, quoted: BOOLEAN, at: Int,
          start: Int, end: Int, curr: Int, says: Seq(Chars)]

\* What is read at p: a fault, the end, or a token that is laid out right.
ReadAt(t, p, r) ==
    /\ r \in Reads /\ r.at = p /\ r.says = Slice(t, r.start, r.end)
    /\ \/ r.type = "error" /\ ~r.quoted /\ r.prefix = "none" /\ r.curr = 0
       \/ r.type = "EOS" /\ p = Len(t) /\ r.prefix = "none" /\ ~r.quoted
            /\ r.start = p /\ r.end = p /\ r.curr = p
       \/ p < Len(t) /\ (CommentAt(t, p, r) \/ QuotedAt(t, p, r) \/ PlainAt(t, p, r))

\* A plain token ends behind its content.
LEMMA PlainSpan ==
  ASSUME NEW t, NEW p \in Int, NEW l, PlainAt(t, p, l)
  PROVE  l.start \in {p, p + 1} /\ l.end = l.curr /\ l.curr \in l.start..Len(t)
<1>1. l.end = l.curr /\ l.curr \in l.start..Len(t)
  BY Zenon DEF PlainAt
<1>2. l.start = p \/ l.start = p + 1
  BY Zenon DEF PlainAt
<1> QED BY <1>1, <1>2

\* So it does with its place and what it says,
LEMMA ReadIs ==
  ASSUME NEW t \in Seq(Chars), NEW p \in 0..Len(t)
  PROVE  ReadAt(t, p, Read(t, p))
<1> DEFINE
  l == Lex(t, p)
  r == Read(t, p)
<1>1. r = [type |-> l.type, prefix |-> l.prefix, quoted |-> l.quoted, at |-> p,
           start |-> l.start, end |-> l.end, curr |-> l.curr, says |-> Slice(t, l.start, l.end)]
  BY DEF Read, Placed
<1>2. Laid(t, p, l)
  BY LexLaid
<1> HIDE DEF l, r
<1>3. /\ r.type = l.type /\ r.prefix = l.prefix /\ r.quoted = l.quoted /\ r.at = p
      /\ r.start = l.start /\ r.end = l.end /\ r.curr = l.curr /\ r.says = Slice(t, l.start, l.end)
  BY <1>1
<1>4. l \in LexTokens
  BY <1>2 DEF Laid
<1>5. Slice(t, l.start, l.end) \in Seq(Chars)
  <2>1. CASE l.end > l.start
    <3>1. l.start \in 0..Len(t) /\ l.end \in 0..Len(t)
      <4>1. l # Fault
        BY <2>1 DEF Fault, Token
      <4>2. ~(l = Token("EOS", "none", p, p, p))
        BY <2>1 DEF Token
      <4>3. CommentAt(t, p, l) \/ QuotedAt(t, p, l) \/ PlainAt(t, p, l)
        BY <1>2, <4>1, <4>2 DEF Laid
      <4>4. p < Len(t)
        BY <1>2, <4>1, <4>2 DEF Laid
      <4>5. CASE CommentAt(t, p, l)
        BY <2>1, <1>4, <4>5 DEF CommentAt, LexTokens
      <4>6. CASE QuotedAt(t, p, l)
        BY <4>6 DEF QuotedAt
      <4>7. CASE PlainAt(t, p, l)
        BY <4>7, PlainSpan
      <4> QED BY <4>3, <4>5, <4>6, <4>7
    <3> QED BY <3>1, SliceIs
  <2>2. CASE ~(l.end > l.start)
    <3>1. l.start + 1 \in Int /\ l.end \in Int /\ l.end < l.start + 1
      BY <1>4, <2>2 DEF LexTokens
    <3>2. Slice(t, l.start, l.end) = <<>>
      BY <3>1, SubSeqEmpty DEF Slice
    <3> QED BY <3>2
  <2> QED BY <2>1, <2>2
<1>6. r \in Reads
  BY <1>1, <1>4, <1>5 DEF Reads, LexTokens
<1>7. CASE l = Fault
  <2>1. r.type = "error" /\ ~r.quoted /\ r.prefix = "none" /\ r.curr = 0
    BY <1>3, <1>7 DEF Fault, Token
  <2> QED BY <1>3, <1>6, <2>1 DEF ReadAt, r
<1>8. CASE p = Len(t) /\ l = Token("EOS", "none", p, p, p)
  BY <1>3, <1>6, <1>8 DEF Token, ReadAt, r
<1>9. CASE p < Len(t) /\ CommentAt(t, p, l)
  <2>1. CommentEnds(t, r)
    BY <1>3, <1>9 DEF CommentAt, CommentEnds, LineCommentEnds, BlockCommentEnds
  <2>2. CommentAt(t, p, r)
    BY <1>3, <1>9, <2>1 DEF CommentAt
  <2> QED BY <1>3, <1>6, <1>9, <2>2 DEF ReadAt, r
<1>10. CASE p < Len(t) /\ QuotedAt(t, p, l)
  BY <1>3, <1>6, <1>10 DEF QuotedAt, ReadAt, r
<1>11. CASE p < Len(t) /\ PlainAt(t, p, l)
  BY <1>3, <1>6, <1>11 DEF PlainAt, ReadAt, r
<1> QED BY <1>2, <1>7, <1>8, <1>9, <1>10, <1>11 DEF Laid

\* The lexer goes forward, but for the last token.
LEMMA ReadAhead ==
  ASSUME NEW t \in Seq(Chars), NEW p \in 0..Len(t), NEW r, ReadAt(t, p, r)
  PROVE  /\ r.type # "error" => r.curr \in p..Len(t) /\ r.start >= p
         /\ ~IsFinal(r) => r.curr \in p + 1..Len(t) /\ p < Len(t)
<1>1. CASE CommentAt(t, p, r)
  BY <1>1 DEF CommentAt
<1>2. CASE QuotedAt(t, p, r)
  BY <1>2 DEF QuotedAt
<1>3. CASE PlainAt(t, p, r)
  <2>1. r.start \in {p, p + 1} /\ r.curr \in r.start..Len(t)
    BY <1>3, PlainSpan
  <2>2. r.curr = p \/ r.curr \in p + 1..Len(t)
    BY <2>1
  <2>3. r.at = p
    BY DEF ReadAt
  <2> QED BY <2>1, <2>2, <2>3 DEF IsFinal
<1>4. CASE r.type = "error" \/ (r.type = "EOS" /\ p = Len(t) /\ r.start = p /\ r.curr = p)
  BY <1>4 DEF IsFinal
<1> QED BY <1>1, <1>2, <1>3, <1>4 DEF ReadAt

\* The tokens of a text, by their equation.
LEMMA WalksDefined ==
  ASSUME NEW t \in Seq(Chars)
  PROVE  \A p \in 0..Len(t) :
            Walks(t)[p] = IF IsFinal(Read(t, p)) THEN <<Read(t, p)>>
                          ELSE <<Read(t, p)>> \o Walks(t)[Read(t, p).curr]
<1> DEFINE
  n == Len(t)
  D == 0..n
  V == Seq(Reads)
  Body(g, p) == LET l == Read(t, p)
                IN IF IsFinal(l) THEN <<l>> ELSE <<l>> \o g[l.curr]
  F == [g \in [D -> V] |-> [p \in D |-> Body(g, p)]]
  r == [p \in D |-> n - p]
<1>1. ASSUME NEW p \in D
      PROVE  /\ Read(t, p) \in Reads
             /\ ~IsFinal(Read(t, p)) => Read(t, p).curr \in p + 1..n
  BY ReadAhead, ReadIs DEF ReadAt
<1>2. ASSUME NEW g \in [D -> V], NEW p \in D
      PROVE  Body(g, p) \in V
  <2> DEFINE l == Read(t, p)
  <2>1. l \in Reads /\ (~IsFinal(l) => l.curr \in D)
    BY <1>1
  <2> HIDE DEF l, D
  <2>2. <<l>> \in Seq(Reads)
    BY <2>1
  <2>3. ~IsFinal(l) => g[l.curr] \in Seq(Reads)
    BY <2>1
  <2>4. ~IsFinal(l) => <<l>> \o g[l.curr] \in Seq(Reads)
    BY <2>2, <2>3
  <2> QED BY <2>2, <2>4 DEF l
<1>3. ASSUME NEW g \in [D -> V], NEW h \in [D -> V], NEW p \in D,
             \A j \in D : r[j] < r[p] => g[j] = h[j]
      PROVE  Body(g, p) = Body(h, p)
  <2>1. ~IsFinal(Read(t, p)) => Read(t, p).curr \in D /\ r[Read(t, p).curr] < r[p]
    BY <1>1
  <2> HIDE DEF r, D, V
  <2> QED BY <1>3, <2>1
<1>4. r \in [D -> 0..n] /\ n \in Nat /\ V # {}
  <2>1. <<>> \in V
    OBVIOUS
  <2> HIDE DEF V
  <2> QED BY <2>1
<1>5. Walks(t) = CHOOSE g : g = [p \in D |-> Body(g, p)]
  BY DEF Walks, Ahead
<1> HIDE DEF Body, r, D, V, n
<1>6. F \in [[D -> V] -> [D -> V]]
  BY <1>2
<1>7. \A g, h \in [D -> V] : \A i \in D :
          (\A j \in D : r[j] < r[i] => g[j] = h[j]) => F[g][i] = F[h][i]
  BY <1>3
<1> HIDE DEF F
<1>8. Recursive(D, n, r, V, F)
  BY <1>4, <1>6, <1>7 DEF Recursive
<1>9. \E g : g = [p \in D |-> Body(g, p)]
  BY <1>8, Recursion DEF F, Solvable
<1>10. Walks(t) = [p \in D |-> Body(Walks(t), p)]
  BY <1>5, <1>9
<1>11. \A p \in D : Walks(t)[p] = Body(Walks(t), p)
  BY <1>10
<1> QED BY <1>11 DEF Body, D, n

\* A walk from p: each token but the last, which is final, leads to the next.
IsWalk(t, p, w) ==
    /\ w \in Seq(Reads) /\ Len(w) > 0 /\ w[1] = Read(t, p)
    /\ \A k \in 1..Len(w) - 1 : ~IsFinal(w[k]) /\ w[k + 1] = Read(t, w[k].curr)
    /\ IsFinal(w[Len(w)])

\* A token in front of a walk that begins where it ends.
LEMMA WalkOnward ==
  ASSUME NEW t \in Seq(Chars), NEW l \in Reads, NEW p, l = Read(t, p), ~IsFinal(l),
         NEW v, IsWalk(t, l.curr, v)
  PROVE  IsWalk(t, p, <<l>> \o v)
<1> DEFINE w == <<l>> \o v
<1>1. v \in Seq(Reads) /\ Len(v) \in Nat /\ Len(v) > 0
  BY DEF IsWalk
<1>2. /\ w \in Seq(Reads) /\ Len(w) = 1 + Len(v) /\ w[1] = l
      /\ \A k \in 1..Len(v) : w[k + 1] = v[k]
  BY <1>1
<1> HIDE DEF w
<1>3. ASSUME NEW k \in 1..Len(w) - 1
      PROVE  ~IsFinal(w[k]) /\ w[k + 1] = Read(t, w[k].curr)
  <2>1. CASE k = 1
    BY <2>1, <1>1, <1>2 DEF IsWalk
  <2>2. CASE k > 1
    <3>1. k - 1 \in 1..Len(v) - 1 /\ (k - 1) + 1 = k
      BY <2>2, <1>1, <1>2
    <3>2. w[k] = v[k - 1] /\ w[k + 1] = v[k]
      BY <3>1, <1>2
    <3>3. ~IsFinal(v[k - 1]) /\ v[(k - 1) + 1] = Read(t, v[k - 1].curr)
      BY <3>1 DEF IsWalk
    <3> QED BY <3>1, <3>2, <3>3
  <2> QED BY <2>1, <2>2, <1>1, <1>2
<1>4. w[Len(w)] = v[Len(v)] /\ Len(w) > 0
  BY <1>1, <1>2
<1> QED BY <1>2, <1>3, <1>4 DEF IsWalk, w

\* The tokens from a place on follow each other to a last one.
LEMMA WalksAre ==
  ASSUME NEW t \in Seq(Chars), NEW p \in 0..Len(t)
  PROVE  IsWalk(t, p, Walks(t)[p])
<1> DEFINE
  n == Len(t)
  D == 0..n
  S == {i \in D : IsWalk(t, i, Walks(t)[i])}
<1>1. ASSUME NEW i \in D, \A j \in D : i < j => j \in S
      PROVE  i \in S
  <2> DEFINE l == Read(t, i)
  <2>1. ReadAt(t, i, l)
    BY ReadIs
  <2>2. l \in Reads /\ (~IsFinal(l) => l.curr \in i + 1..n)
    BY <2>1, ReadAhead DEF ReadAt
  <2>3. Walks(t)[i] = IF IsFinal(l) THEN <<l>> ELSE <<l>> \o Walks(t)[l.curr]
    BY WalksDefined
  <2>4. CASE IsFinal(l)
    <3> HIDE DEF l
    <3>1. <<l>> \in Seq(Reads) /\ Len(<<l>>) = 1 /\ <<l>>[1] = l
      BY <2>2
    <3>2. IsWalk(t, i, <<l>>)
      BY <2>4, <3>1 DEF IsWalk, l
    <3> QED BY <2>3, <2>4, <3>2
  <2>5. CASE ~IsFinal(l)
    <3>1. IsWalk(t, l.curr, Walks(t)[l.curr])
      BY <1>1, <2>2, <2>5
    <3> HIDE DEF l
    <3>2. IsWalk(t, i, <<l>> \o Walks(t)[l.curr])
      BY <2>2, <2>5, <3>1, WalkOnward DEF l
    <3> QED BY <2>3, <2>5, <3>2
  <2> QED BY <2>4, <2>5
<1>2. D \subseteq Int /\ n \in Int /\ (\A i \in D : i <= n) /\ p \in D
  OBVIOUS
<1> HIDE DEF D, S, n
<1>3. D \subseteq S
  BY <1>1, <1>2, Downward
<1> QED BY <1>2, <1>3 DEF S

\* The tokens of a walk lie one behind the other.
LEMMA WalkPlaces ==
  ASSUME NEW t \in Seq(Chars), NEW p \in 0..Len(t), NEW w, IsWalk(t, p, w)
  PROVE  /\ Len(w) \in Nat /\ Len(w) > 0 /\ w[1].at = p
         /\ \A k \in 1..Len(w) :
              /\ w[k].at \in p..Len(t) /\ w[k] = Read(t, w[k].at)
              /\ ReadAt(t, w[k].at, w[k])
         /\ \A k \in 1..Len(w) - 1 :
              w[k + 1].at = w[k].curr /\ w[k].curr \in w[k].at + 1..Len(t) /\ ~IsFinal(w[k])
         /\ IsFinal(w[Len(w)])
<1> DEFINE
  D == 1..Len(w)
  Good(k) == /\ w[k].at \in p..Len(t) /\ w[k] = Read(t, w[k].at)
             /\ ReadAt(t, w[k].at, w[k])
  S == {k \in D : Good(k)}
<1>1. Len(w) \in Nat /\ Len(w) > 0
  BY DEF IsWalk
<1>2. ASSUME NEW i \in p..Len(t), NEW r, r = Read(t, i)
      PROVE  r.at \in p..Len(t) /\ r = Read(t, r.at) /\ ReadAt(t, r.at, r) /\ r.at = i
  <2>1. ReadAt(t, i, r)
    BY <1>2, ReadIs
  <2>2. r.at = i
    BY <2>1 DEF ReadAt
  <2> QED BY <1>2, <2>1, <2>2
<1>3. \A k \in 1..Len(w) - 1 : ~IsFinal(w[k]) /\ w[k + 1] = Read(t, w[k].curr)
  BY DEF IsWalk
<1>4. ASSUME NEW k \in D, Good(k), k < Len(w)
      PROVE  w[k].curr \in w[k].at + 1..Len(t)
  BY <1>3, <1>4, ReadAhead
<1>5. ASSUME NEW k \in D, \A j \in D : j < k => j \in S
      PROVE  k \in S
  <2>1. CASE k = 1
    BY <2>1, <1>2 DEF IsWalk
  <2>2. CASE k > 1
    <3>1. k - 1 \in D /\ k - 1 < k /\ k - 1 \in 1..Len(w) - 1 /\ (k - 1) + 1 = k /\ k - 1 < Len(w)
      BY <2>2, <1>1
    <3>2. Good(k - 1)
      BY <3>1, <1>5
    <3>3. w[k - 1].curr \in p..Len(t)
      BY <3>1, <3>2, <1>4
    <3>4. w[(k - 1) + 1] = Read(t, w[k - 1].curr)
      BY <1>3, <3>1
    <3>5. w[k] = Read(t, w[k - 1].curr)
      BY <3>1, <3>4
    <3> QED BY <3>3, <3>5, <1>2
  <2> QED BY <2>1, <2>2
<1>6. \A k \in D : Good(k)
  <2>1. D \subseteq Nat
    OBVIOUS
  <2> HIDE DEF D, S
  <2>2. D \subseteq S
    BY <1>5, <2>1, Upward
  <2> QED BY <2>2 DEF S
<1>7. ASSUME NEW k \in 1..Len(w) - 1
      PROVE  w[k + 1].at = w[k].curr /\ w[k].curr \in w[k].at + 1..Len(t) /\ ~IsFinal(w[k])
  <2>1. k \in D /\ k < Len(w) /\ Good(k)
    BY <1>1, <1>6
  <2>2. w[k].curr \in w[k].at + 1..Len(t)
    BY <2>1, <1>4
  <2>3. w[k].curr \in p..Len(t)
    BY <2>1, <2>2
  <2> QED BY <2>2, <2>3, <1>2, <1>3
<1>8. w[1].at = p
  BY <1>2 DEF IsWalk
<1> QED BY <1>1, <1>6, <1>7, <1>8 DEF IsWalk

\* The token l at p of t leaves out nothing but its quotes or marks.
Tiled(t, l) ==
        LET before == Slice(t, l.at, l.start)
            after == Slice(t, l.end, l.curr)
        IN CASE l.type \in {"EOS", "error"} -> TRUE
             [] l.type = "COMMENT" ->
                  /\ before \in {<<"#">>, <<"-", "-">>, <<"/", "/">>, <<"/", "*">>}
                  /\ CommentEnds(t, l)
             [] l.quoted \/ l.type = "STRING" ->
                  /\ before \in {<<l.prefix>>, <<"@", l.prefix>>} /\ after = <<l.prefix>>
                  /\ Paired(l.says, l.prefix)
             [] OTHER ->
                  /\ before = IF l.type = "USER_VAR" THEN <<"@">> ELSE <<>>
                  /\ after = <<>>
                  /\ l.curr > l.at \/ At(t, l.at) = "other"

\* A token that is laid leaves out what it may.
LEMMA ReadTiled ==
  ASSUME NEW t \in Seq(Chars), NEW p \in 0..Len(t), NEW l, ReadAt(t, p, l)
  PROVE  Tiled(t, l)
<1>1. l.at = p /\ l \in Reads /\ l.says = Slice(t, l.start, l.end)
  BY DEF ReadAt
<1>2. CASE l.type \in {"EOS", "error"} /\ ~l.quoted
  BY <1>2 DEF Tiled
<1>3. CASE CommentAt(t, p, l) /\ p < Len(t)
  <2> DEFINE before == Slice(t, l.at, l.start)
  <2>1. l.type = "COMMENT" /\ ~l.quoted /\ l.curr \in l.start..Len(t) /\ l.start \in {p + 1, p + 2}
    BY <1>3 DEF CommentAt
  <2>2. before \in {<<"#">>, <<"-", "-">>, <<"/", "/">>, <<"/", "*">>}
    <3>1. CASE l.start = p + 1
      <4>1. At(t, p) = "#"
        BY <1>3, <3>1 DEF CommentAt
      <4>2. before = <<At(t, p)>>
        BY <1>1, <1>3, <3>1, SliceOne
      <4> QED BY <4>1, <4>2
    <3>2. CASE l.start = p + 2
      <4>1. p \in 0..Len(t) - 2
        BY <2>1, <3>2
      <4>2. before = <<At(t, p), At(t, p + 1)>>
        BY <1>1, <3>2, <4>1, SliceTwo
      <4>3. <<At(t, p), At(t, p + 1)>> \in {<<"-", "-">>, <<"/", "/">>, <<"/", "*">>}
        BY <1>3, <3>2 DEF CommentAt
      <4> QED BY <4>2, <4>3
    <3> QED BY <2>1, <3>1, <3>2
  <2>3. CommentEnds(t, l)
    BY <1>3 DEF CommentAt
  <2> QED BY <2>1, <2>2, <2>3 DEF Tiled
<1>4. CASE QuotedAt(t, p, l) /\ p < Len(t)
  <2> DEFINE
    before == Slice(t, l.at, l.start)
    after == Slice(t, l.end, l.curr)
  <2>1. /\ l.start \in {p + 1, p + 2} /\ l.end \in l.start..Len(t) - 1 /\ l.curr = l.end + 1
        /\ At(t, l.start - 1) = l.prefix /\ At(t, l.end) = l.prefix
        /\ l.type \in {"ID", "STRING", "USER_VAR"} /\ (l.quoted \/ l.type = "STRING")
        /\ (l.start = p + 2 => At(t, p) = "@")
    BY <1>4 DEF QuotedAt
  <2>2. before \in {<<l.prefix>>, <<"@", l.prefix>>}
    <3>1. CASE l.start = p + 1
      BY <2>1, <1>1, <1>4, <3>1, SliceOne
    <3>2. CASE l.start = p + 2
      <4>1. p \in 0..Len(t) - 2 /\ l.start - 1 = p + 1
        BY <2>1, <3>2
      <4>2. before = <<At(t, p), At(t, p + 1)>>
        BY <1>1, <3>2, <4>1, SliceTwo
      <4> QED BY <2>1, <3>2, <4>1, <4>2
    <3> QED BY <2>1, <3>1, <3>2
  <2>3. after = <<l.prefix>>
    BY <2>1, SliceOne
  <2>4. Paired(l.says, l.prefix)
    <3>1. l.start \in 0..Len(t) /\ l.end \in l.start..Len(t)
      BY <2>1
    <3>2. PairedIn(t, l.start, l.end, l.prefix)
      BY <1>4 DEF QuotedAt
    <3> QED BY <1>1, <3>1, <3>2, PairedSlice
  <2> QED BY <2>1, <2>2, <2>3, <2>4 DEF Tiled
<1>5. CASE PlainAt(t, p, l) /\ p < Len(t)
  <2> DEFINE
    before == Slice(t, l.at, l.start)
    after == Slice(t, l.end, l.curr)
  <2>1. l.start \in {p, p + 1} /\ l.end = l.curr /\ l.curr \in l.start..Len(t)
    BY <1>5, PlainSpan
  <2>2. after = <<>>
    BY <1>1, <2>1, SliceNone DEF Reads
  <2>3. /\ ~l.quoted /\ l.type \notin {"EOS", "error", "COMMENT", "STRING"}
        /\ IF l.type = "USER_VAR" THEN l.start = p + 1 /\ At(t, p) = "@" ELSE l.start = p
        /\ l.curr = p => At(t, p) = "other"
    BY <1>5 DEF PlainAt
  <2>4. before = IF l.type = "USER_VAR" THEN <<"@">> ELSE <<>>
    <3>1. CASE l.type = "USER_VAR"
      BY <2>3, <3>1, <1>1, <1>5, SliceOne
    <3>2. CASE l.type # "USER_VAR"
      BY <1>1, <2>3, <3>2, SliceNone
    <3> QED BY <3>1, <3>2
  <2>5. l.curr > l.at \/ At(t, l.at) = "other"
    BY <1>1, <2>1, <2>3
  <2> HIDE DEF before, after
  <2> QED BY <2>2, <2>3, <2>4, <2>5 DEF Tiled, before, after
<1> QED BY <1>2, <1>3, <1>4, <1>5 DEF ReadAt

\* A query consists of characters.
TextOK == text \in Seq(Chars) /\ written \in Nat

\* Texts are of known characters.
LEMMA TextAlways == Spec => []TextOK
<1>1. Init => TextOK
  BY DEF Init, TextOK
<1>2. TextOK /\ [Next]_vars => TextOK'
  <2> SUFFICES ASSUME TextOK, [Next]_vars PROVE TextOK'
    OBVIOUS
  <2>1. ASSUME NEW f, Write(f)
        PROVE  TextOK'
    <3>1. Fragments[written + 1] \subseteq Seq(Chars)
      BY SqlAssumption, <2>1 DEF TextOK, Write
    <3>2. f \in Seq(Chars)
      BY <2>1, <3>1 DEF Write
    <3> QED BY <2>1, <3>2 DEF TextOK, Write
  <2>2. CASE Query \/ Execute \/ UNCHANGED vars
    BY <2>2 DEF TextOK, Query, Execute, vars
  <2> QED BY <2>1, <2>2 DEF Next
<1> QED BY <1>1, <1>2, PTL DEF Spec

\* Nothing of a text is lost between its tokens.
LEMMA WalkTiled ==
  ASSUME NEW t \in Seq(Chars), NEW l \in Range(Walk(t))
  PROVE  Tiled(t, l)
<1>1. 0 \in 0..Len(t)
  OBVIOUS
<1>2. IsWalk(t, 0, Walk(t))
  BY <1>1, WalksAre DEF Walk
<1>3. Walk(t) \in Seq(Reads)
  BY <1>2 DEF IsWalk
<1>4. PICK k \in 1..Len(Walk(t)) : l = Walk(t)[k]
  BY <1>3 DEF Range
<1>5. l.at \in 0..Len(t) /\ ReadAt(t, l.at, l)
  BY <1>1, <1>2, <1>4, WalkPlaces
<1> QED BY <1>5, ReadTiled

\* Nothing of a text is lost between its tokens (sql-lexer.js:97-562), however
\* long the text is.
THEOREM TokensTiled == Spec => []TokensTile
<1>1. TextOK => TokensTile
  BY WalkTiled DEF TextOK, TokensTile, Tiled
<1> QED BY <1>1, TextAlways, PTL

-----------------------------------------------------------------------------
(* The parser. *)

\* What is parsed: tokens of which the last stops every part of the parser.
Ended(w) ==
    /\ w \in Seq(Reads) /\ Len(w) > 0
    /\ w[Len(w)].type \in {"EOS", "error", "ID"}

\* The last token of a text is none the parser passes over.
LEMMA WalkEnded ==
  ASSUME NEW t \in Seq(Chars), NEW p \in 0..Len(t), NEW w, IsWalk(t, p, w)
  PROVE  Ended(w)
<1> DEFINE l == w[Len(w)]
<1>1. ReadAt(t, l.at, l) /\ IsFinal(l) /\ Len(w) > 0 /\ l.at \in p..Len(t)
  BY WalkPlaces
<1>2. w \in Seq(Reads)
  BY DEF IsWalk
<1> HIDE DEF l
<1>3. l.type \in {"EOS", "error", "ID"}
  <2>1. CASE l.curr = l.at
    <3>1. CASE CommentAt(t, l.at, l)
      BY <1>1, <2>1, <3>1 DEF CommentAt
    <3>2. CASE QuotedAt(t, l.at, l)
      BY <1>1, <2>1, <3>2 DEF QuotedAt
    <3>3. CASE PlainAt(t, l.at, l)
      <4>1. ~(l.curr > l.at)
        BY <1>1, <2>1
      <4>2. l.type = "USER_VAR" => l.start = l.at + 1 /\ l.curr \in l.start..Len(t)
        BY <3>3 DEF PlainAt
      <4>3. l.type # "USER_VAR"
        BY <1>1, <2>1, <4>2
      <4> QED BY <2>1, <3>3, <4>1, <4>3 DEF PlainAt
    <3> QED BY <1>1, <3>1, <3>2, <3>3 DEF ReadAt
  <2> QED BY <1>1, <2>1 DEF IsFinal
<1> QED BY <1>1, <1>2, <1>3 DEF Ended, l

\* token() goes to the next token that is neither blank nor a comment,
LEMMA AfterIs ==
  ASSUME NEW w, Ended(w), NEW i \in 0..Len(w)
  PROVE  /\ After(w, i) \in 1..Len(w) /\ i <= After(w, i)
         /\ i < Len(w) => i < After(w, i)
         /\ IsSolid(w[After(w, i)])
         /\ \A k \in i + 1..After(w, i) - 1 : ~IsSolid(w[k])
<1> DEFINE
  later == {j \in i + 1..Len(w) : IsSolid(w[j])}
  least == CHOOSE j \in later : \A k \in later : j <= k
<1>1. After(w, i) = IF later = {} THEN Len(w) ELSE least
  BY DEF After
<1>2. Len(w) \in Nat /\ Len(w) > 0 /\ IsSolid(w[Len(w)])
  BY DEF Ended, IsSolid
<1>3. later # {} => least \in later /\ \A k \in later : least <= k
  <2>1. later \subseteq Nat
    BY <1>2
  <2> HIDE DEF later
  <2> QED BY <2>1, Least
<1>4. i < Len(w) => Len(w) \in later
  BY <1>2
<1> HIDE DEF least
<1>5. CASE later = {}
  BY <1>2, <1>1, <1>4, <1>5
<1>6. CASE later # {}
  <2>1. After(w, i) = least /\ least \in i + 1..Len(w) /\ IsSolid(w[least])
    BY <1>1, <1>3, <1>6
  <2>2. ASSUME NEW k \in i + 1..least - 1, IsSolid(w[k])
        PROVE  FALSE
    <3>1. k \in later
      BY <2>1, <2>2
    <3>2. least <= k
      <4> HIDE DEF later
      <4> QED BY <3>1, <1>3, <1>6
    <3> QED BY <2>1, <2>2, <3>2
  <2> QED BY <2>1, <2>2, <1>2
<1> QED BY <1>5, <1>6

\* and there is but one.
LEMMA AfterThe ==
  ASSUME NEW w, Ended(w), NEW i \in 0..Len(w), NEW j \in i + 1..Len(w),
         IsSolid(w[j]), \A k \in i + 1..j - 1 : ~IsSolid(w[k])
  PROVE  After(w, i) = j
<1>1. PICK a \in 1..Len(w) : a = After(w, i)
  BY AfterIs
<1>2. Len(w) \in Nat
  BY DEF Ended
<1>3. i < a
  BY <1>1, <1>2, AfterIs
<1>4. IsSolid(w[a])
  BY <1>1, AfterIs
<1>5. \A k \in i + 1..a - 1 : ~IsSolid(w[k])
  BY <1>1, AfterIs
<1> QED BY <1>1, <1>2, <1>3, <1>4, <1>5

\* The variables of a list, and what the parts of the parser give.
Nodes == [kind: {"sys", "user"}, name: Seq(Chars), scope: {"none", "SESSION", "GLOBAL"},
          start: Int, end: Int]

\* What the parser reads is of its kind and leads on: a variable,
LEMMA SelectExprIs ==
  ASSUME NEW w, Ended(w), NEW i \in 1..Len(w), SelectExpr(w, i) # Refused
  PROVE  /\ SelectExpr(w, i).node \in Nodes /\ i < Len(w)
         /\ SelectExpr(w, i).next \in i + 1..Len(w)
         /\ IsSolid(w[SelectExpr(w, i).next])
<1>1. Len(w) \in Nat /\ w \in Seq(Reads) /\ \A k \in 1..Len(w) : w[k] \in Reads
  BY DEF Ended
<1>2. CASE w[i].type = "USER_VAR"
  <2>1. SelectExpr(w, i) = [next |-> After(w, i), node |-> UserVar(w[i])]
    BY <1>2 DEF SelectExpr, IsSign
  <2>2. i < Len(w)
    BY <1>1, <1>2 DEF Ended
  <2>3. UserVar(w[i]) \in Nodes
    <3>1. w[i].says \in Seq(Chars) /\ w[i].start \in Int /\ w[i].curr \in Int
      BY <1>1 DEF Reads
    <3>2. w[i].start - (IF w[i].quoted THEN 2 ELSE 1) \in Int
      BY <3>1
    <3> QED BY <3>1, <3>2 DEF UserVar, Nodes
  <2>4. After(w, i) \in i + 1..Len(w) /\ IsSolid(w[After(w, i)])
    BY <1>1, <2>2, AfterIs
  <2> QED BY <2>1, <2>2, <2>3, <2>4
<1>3. CASE w[i].type # "USER_VAR" /\ IsSign(w[i], "@")
  <2>1. SelectExpr(w, i) = SysVar(w, i)
    BY <1>3 DEF SelectExpr
  <2>2. i < Len(w)
    BY <1>1, <1>3 DEF Ended, IsSign
  <2> DEFINE
    first == After(w, i)
    name == SysVarName(w, first)
    x == [kind |-> "sys", name |-> w[name].says,
          scope |-> IF IsWord(w[first], "GLOBAL") THEN "GLOBAL" ELSE "SESSION",
          start |-> SysVarStart(w[first]), end |-> NameEnd(w[name])]
  <2>3. SysVar(w, i) = [next |-> After(w, name), node |-> x]
    BY <2>1 DEF SysVar
  <2>4. first \in i + 1..Len(w)
    BY <1>1, <2>2, AfterIs
  <2>5. name \in first..Len(w)
    <3>1. After(w, first) \in first..Len(w)
      BY <1>1, <2>4, AfterIs
    <3>2. After(w, After(w, first)) \in After(w, first)..Len(w)
      BY <1>1, <2>4, <3>1, AfterIs
    <3> QED BY <1>1, <2>4, <3>1, <3>2 DEF SysVarName
  <2>6. After(w, name) \in name..Len(w) /\ IsSolid(w[After(w, name)])
    BY <1>1, <2>4, <2>5, AfterIs, SMTT(30)
  <2>7. w[first] \in Reads /\ w[name] \in Reads
    BY <1>1, <2>4, <2>5
  <2> HIDE DEF first, name
  <2>8. x \in Nodes
    <3>1. w[name].says \in Seq(Chars) /\ w[first].start \in Int /\ w[name].end \in Int
      BY <2>7 DEF Reads
    <3>2. SysVarStart(w[first]) \in Int /\ NameEnd(w[name]) \in Int
      BY <3>1 DEF SysVarStart, NameEnd
    <3> QED BY <3>1, <3>2 DEF Nodes
  <2> QED BY <1>1, <2>1, <2>2, <2>3, <2>4, <2>5, <2>6, <2>8
<1> QED BY <1>2, <1>3 DEF SelectExpr

\* A list of variables, by its equation.
LEMMA SelectListsDefined ==
  ASSUME NEW w, Ended(w)
  PROVE  \A i \in 1..Len(w) :
            SelectExprs(w, i) =
                LET x == SelectExpr(w, i)
                IN SelectList(w, x, SelectExprs(w, After(w, x.next)))
<1> DEFINE
  n == Len(w)
  D == 1..n
  V == {Refused} \cup [next: Nat \ {0}, node: Seq(Nodes)]
  Body(g, i) == LET x == SelectExpr(w, i) IN SelectList(w, x, g[After(w, x.next)])
  F == [g \in [D -> V] |-> [i \in D |-> Body(g, i)]]
  r == [i \in D |-> n - i]
<1>1. n \in Nat /\ n > 0
  BY DEF Ended
<1>2. ASSUME NEW i \in D, NEW x, x = SelectExpr(w, i), x # Refused
      PROVE  /\ x.next \in i + 1..n /\ x.next # 0 /\ x.node \in Nodes
             /\ IsSign(w[x.next], "comma") => After(w, x.next) \in i + 1..n
  <2>1. x.node \in Nodes /\ x.next \in i + 1..n
    BY <1>2, SelectExprIs
  <2>2. IsSign(w[x.next], "comma") => x.next < n
    BY <1>1, <2>1 DEF Ended, IsSign
  <2>3. x.next < n => After(w, x.next) \in x.next + 1..n
    BY <1>1, <2>1, AfterIs
  <2> QED BY <1>1, <2>1, <2>2, <2>3
<1>3. Refused.next = 0
  BY DEF Refused
<1>4. ASSUME NEW g \in [D -> V], NEW i \in D
      PROVE  Body(g, i) \in V
  <2> DEFINE
    x == SelectExpr(w, i)
    rest == g[After(w, x.next)]
  <2>1. CASE x.next = 0
    BY <2>1 DEF SelectList
  <2>2. CASE x.next # 0
    <3>1. x # Refused
      BY <1>3, <2>2
    <3>2. /\ x.next \in i + 1..n /\ x.node \in Nodes
          /\ IsSign(w[x.next], "comma") => After(w, x.next) \in i + 1..n
      BY <1>2, <3>1
    <3>3. IsSign(w[x.next], "comma") => rest \in V
      BY <3>2
    <3> HIDE DEF x, rest
    <3>4. <<x.node>> \in Seq(Nodes) /\ x.next \in Nat \ {0}
      BY <3>2
    <3>5. IsSign(w[x.next], "comma") /\ rest.next # 0 =>
            [next |-> rest.next, node |-> <<x.node>> \o rest.node] \in V
      <4>1. rest \in V /\ rest.next # 0 => rest.next \in Nat \ {0} /\ rest.node \in Seq(Nodes)
        BY <1>3
      <4>2. rest.node \in Seq(Nodes) => <<x.node>> \o rest.node \in Seq(Nodes)
        BY <3>4
      <4> QED BY <3>3, <4>1, <4>2
    <3>6. [next |-> x.next, node |-> <<x.node>>] \in V
      BY <3>4
    <3>7. SelectList(w, x, rest) \in V
      <4> HIDE DEF V
      <4>1. Refused \in V
        BY DEF V
      <4> QED BY <2>2, <3>5, <3>6, <4>1 DEF SelectList
    <3> QED BY <3>7 DEF x, rest
  <2> QED BY <2>1, <2>2
<1>5. ASSUME NEW g \in [D -> V], NEW h \in [D -> V], NEW i \in D,
             \A j \in D : r[j] < r[i] => g[j] = h[j]
      PROVE  Body(g, i) = Body(h, i)
  <2> DEFINE x == SelectExpr(w, i)
  <2>1. CASE x.next = 0
    BY <2>1 DEF SelectList
  <2>2. CASE x.next # 0 /\ IsSign(w[x.next], "comma")
    <3>1. After(w, x.next) \in i + 1..n
      BY <1>2, <1>3, <2>2
    <3>2. After(w, x.next) \in D /\ r[After(w, x.next)] < r[i]
      BY <3>1
    <3>3. g[After(w, x.next)] = h[After(w, x.next)]
      BY <1>5, <3>2
    <3> QED BY <3>3
  <2>3. CASE x.next # 0 /\ ~IsSign(w[x.next], "comma")
    BY <2>3 DEF SelectList
  <2> QED BY <2>1, <2>2, <2>3
<1>6. r \in [D -> 0..n] /\ V # {}
  BY <1>1
<1>7. SelectLists(w) = CHOOSE g : g = [i \in D |-> Body(g, i)]
  BY DEF SelectLists
<1> HIDE DEF Body, r, D, V, n
<1>8. F \in [[D -> V] -> [D -> V]]
  BY <1>4
<1>9. \A g, h \in [D -> V] : \A i \in D :
          (\A j \in D : r[j] < r[i] => g[j] = h[j]) => F[g][i] = F[h][i]
  BY <1>5
<1> HIDE DEF F
<1>10. Recursive(D, n, r, V, F)
  BY <1>1, <1>6, <1>8, <1>9 DEF Recursive
<1>11. \E g : g = [i \in D |-> Body(g, i)]
  BY <1>10, Recursion DEF F, Solvable
<1>12. SelectLists(w) = [i \in D |-> Body(SelectLists(w), i)]
  BY <1>7, <1>11
<1>13. \A i \in D : SelectLists(w)[i] = Body(SelectLists(w), i)
  BY <1>12
<1> QED BY <1>13 DEF Body, D, n, SelectExprs

Limits == [rows: Int, offset: Int, start: Int, end: Int]
Marked == [sign: Marks, start: Int, end: Int]
Stmts == [start: Int, end: Int, exprs: Seq(Nodes), limit: SUBSET Limits,
          comments: SUBSET Marked]

\* a list of variables,
LEMMA SelectExprsIs ==
  ASSUME NEW w, Ended(w), NEW i \in 1..Len(w), SelectExprs(w, i).next # 0
  PROVE  /\ SelectExprs(w, i).node \in Seq(Nodes) /\ i < Len(w)
         /\ SelectExprs(w, i).next \in i + 1..Len(w)
         /\ IsSolid(w[SelectExprs(w, i).next])
<1> DEFINE
  n == Len(w)
  D == 1..n
  l(k) == SelectExprs(w, k)
  Good(k) == l(k).next # 0 =>
               /\ l(k).node \in Seq(Nodes) /\ k < n /\ l(k).next \in k + 1..n
               /\ IsSolid(w[l(k).next])
  S == {k \in D : Good(k)}
<1>1. n \in Nat /\ n > 0
  BY DEF Ended
<1>2. ASSUME NEW k \in D, \A j \in D : k < j => j \in S
      PROVE  k \in S
  <2> DEFINE
    x == SelectExpr(w, k)
    rest == l(After(w, x.next))
  <2>1. l(k) = SelectList(w, x, rest)
    BY SelectListsDefined
  <2> HIDE DEF l
  <2>2. Refused.next = 0
    BY DEF Refused
  <2>3. CASE x.next = 0
    BY <2>1, <2>2, <2>3 DEF SelectList
  <2>4. CASE x.next # 0
    <3>1. /\ x.node \in Nodes /\ k < n /\ x.next \in k + 1..n /\ IsSolid(w[x.next])
      BY <2>2, <2>4, SelectExprIs
    <3>2. IsSign(w[x.next], "comma") => After(w, x.next) \in D /\ k < After(w, x.next)
      <4>1. After(w, x.next) \in 1..n /\ x.next <= After(w, x.next)
        BY <1>1, <3>1, AfterIs, SMTT(20)
      <4> QED BY <1>1, <3>1, <4>1
    <3> DEFINE a == After(w, x.next)
    <3>3. IsSign(w[x.next], "comma") => Good(a)
      BY <1>2, <3>2
    <3> HIDE DEF x, a
    <3>4. <<x.node>> \in Seq(Nodes)
      BY <3>1
    <3>5. CASE IsSign(w[x.next], "comma")
      <4>1. CASE l(a).next = 0
        BY <2>1, <2>2, <2>4, <3>5, <4>1 DEF SelectList, a
      <4>2. CASE l(a).next # 0
        <5>1. l(k) = [next |-> l(a).next, node |-> <<x.node>> \o l(a).node]
          BY <2>1, <2>4, <3>5, <4>2 DEF SelectList, a
        <5>2. l(a).node \in Seq(Nodes) /\ l(a).next \in a + 1..n /\ IsSolid(w[l(a).next])
          BY <3>3, <3>5, <4>2
        <5>3. <<x.node>> \o l(a).node \in Seq(Nodes)
          BY <3>4, <5>2
        <5>4. l(a).next \in k + 1..n
          BY <1>1, <3>2, <3>5, <5>2 DEF a
        <5>5. l(k).next = l(a).next /\ l(k).node = <<x.node>> \o l(a).node
          BY <5>1
        <5>6. Good(k)
          BY <3>1, <5>2, <5>3, <5>4, <5>5
        <5> QED BY <5>6
      <4> QED BY <4>1, <4>2
    <3>6. CASE ~IsSign(w[x.next], "comma")
      <4>1. l(k) = Refused \/ l(k) = [next |-> x.next, node |-> <<x.node>>]
        BY <2>1, <2>4, <3>6 DEF SelectList
      <4>2. CASE l(k) = Refused
        BY <2>2, <4>2
      <4>3. CASE l(k) = [next |-> x.next, node |-> <<x.node>>]
        <5>1. l(k).next = x.next /\ l(k).node = <<x.node>>
          BY <4>3
        <5>2. Good(k)
          BY <3>1, <3>4, <5>1
        <5> QED BY <5>2
      <4> QED BY <4>1, <4>2, <4>3
    <3> QED BY <3>5, <3>6
  <2> QED BY <2>3, <2>4
<1>3. D \subseteq Int /\ n \in Int /\ (\A k \in D : k <= n) /\ i \in D
  BY <1>1
<1> HIDE DEF D, S, n
<1>4. D \subseteq S
  BY <1>2, <1>3, Downward
<1> QED BY <1>3, <1>4 DEF S, n

\* the clause LIMIT,
LEMMA SelectLimitIs ==
  ASSUME NEW w, Ended(w), NEW i \in 1..Len(w), SelectLimit(w, i).next # 0
  PROVE  /\ SelectLimit(w, i).next \in i + 1..Len(w) /\ i < Len(w)
         /\ SelectLimit(w, i).node \in SUBSET Limits
         /\ IsSolid(w[SelectLimit(w, i).next])
<1> DEFINE
  n == Len(w)
  first == After(w, i)
  sign == After(w, first)
  second == After(w, sign)
  next == After(w, second)
  Clause(numbers, last) ==
     {[rows |-> numbers[1], offset |-> numbers[2], start |-> w[i].start, end |-> w[last].end]}
  l == SelectLimit(w, i)
<1>1. n \in Nat /\ n > 0 /\ \A k \in 1..n : w[k] \in Reads
  BY DEF Ended
<1>2. first \in i..n /\ (i < n => first > i) /\ first \in 1..n
  BY <1>1, AfterIs
<1>3. sign \in first..n
  BY <1>1, <1>2, AfterIs
<1>4. second \in sign..n /\ IsSolid(w[second])
  BY <1>1, <1>2, <1>3, AfterIs
<1>5. next \in second..n /\ IsSolid(w[next])
  BY <1>1, <1>2, <1>3, <1>4, AfterIs
<1>6. l = IF w[first].type # "INT" THEN Refused
          ELSE IF w[sign].type = "EOS" \/ IsSign(w[sign], "semi")
          THEN [next |-> second, node |-> Clause(<<w[first].start, -1>>, first)]
          ELSE IF w[second].type = "INT" /\ (IsSign(w[sign], "comma") \/ IsWord(w[sign], "OFFSET"))
          THEN [next |-> next, node |-> Clause(LimitNumbers(w[sign], w[first], w[second]), second)]
          ELSE Refused
  BY DEF SelectLimit
<1>7. w[first] \in Reads /\ w[second] \in Reads /\ w[i] \in Reads
  BY <1>1, <1>2, <1>3, <1>4
<1> HIDE DEF first, sign, second, next, l
<1>8. w[first].type = "INT" => i < n
  BY <1>1, <1>2 DEF Ended
<1>9. ASSUME NEW a \in Int, NEW b \in Int, NEW k, w[k].end \in Int
      PROVE  Clause(<<a, b>>, k) \in SUBSET Limits
  <2>1. w[i].start \in Int
    BY <1>7 DEF Reads
  <2>2. [rows |-> a, offset |-> b, start |-> w[i].start, end |-> w[k].end] \in Limits
    BY <1>9, <2>1 DEF Limits
  <2>3. <<a, b>>[1] = a /\ <<a, b>>[2] = b
    OBVIOUS
  <2> QED BY <2>2, <2>3
<1> HIDE DEF Clause
<1>10. w[first].start \in Int /\ w[first].end \in Int /\ w[second].start \in Int /\ w[second].end \in Int
  BY <1>7 DEF Reads
<1>11. Clause(<<w[first].start, -1>>, first) \in SUBSET Limits
  BY <1>9, <1>10
<1>12. /\ Clause(LimitNumbers(w[sign], w[first], w[second]), second) \in SUBSET Limits
       /\ l.next # 0
  <2>1. LimitNumbers(w[sign], w[first], w[second]) \in
            {<<w[second].start, w[first].start>>, <<w[first].start, w[second].start>>}
    BY DEF LimitNumbers
  <2>2. /\ Clause(<<w[second].start, w[first].start>>, second) \in SUBSET Limits
        /\ Clause(<<w[first].start, w[second].start>>, second) \in SUBSET Limits
    BY <1>9, <1>10
  <2> QED BY <2>1, <2>2 DEF l
<1>13. \/ w[first].type = "INT" /\ l = [next |-> second, node |-> Clause(<<w[first].start, -1>>, first)]
       \/ w[first].type = "INT" /\ l = [next |-> next, node |-> Clause(LimitNumbers(w[sign], w[first], w[second]), second)]
  BY <1>6, <1>12 DEF Refused
<1>14. (second \in i + 1..n /\ next \in i + 1..n) \/ ~(i < n)
  BY <1>1, <1>2, <1>3, <1>4, <1>5
<1> QED BY <1>4, <1>5, <1>8, <1>11, <1>12, <1>13, <1>14 DEF l

\* What ends a statement.
IsEnd(l) == IsSign(l, "semi") \/ l.type = "EOS"

\* and a statement, which ends with a semicolon or the text.
LEMMA SelectIs ==
  ASSUME NEW w, Ended(w), NEW i \in 1..Len(w), Select(w, i).next # 0
  PROVE  /\ Select(w, i).node \in Stmts /\ i < Len(w)
         /\ Select(w, i).next \in i + 1..Len(w)
         /\ Select(w, i).node.start = w[i].start
         /\ Select(w, i).node.comments = Comments(w, i)
         /\ \E e \in i + 1..Len(w) :
              /\ IsEnd(w[e]) /\ Select(w, i).node.end = w[e].end
              /\ Select(w, i).next = After(w, e)
<1> DEFINE
  n == Len(w)
  list == SelectExprs(w, After(w, i))
  limit == IF IsWord(w[list.next], "LIMIT") THEN SelectLimit(w, list.next)
           ELSE [next |-> list.next, node |-> {}]
  s == Select(w, i)
  node == [start |-> w[i].start, end |-> w[limit.next].end,
           exprs |-> list.node, limit |-> limit.node, comments |-> Comments(w, i)]
<1>1. n \in Nat /\ n > 0 /\ w \in Seq(Reads) /\ \A k \in 1..n : w[k] \in Reads
  BY DEF Ended
<1>2. s = IF list.next = 0 THEN Refused
          ELSE IF limit.next = 0 \/ ~(IsSign(w[limit.next], "semi") \/ w[limit.next].type = "EOS")
          THEN Refused
          ELSE [next |-> After(w, limit.next), node |-> node]
  BY DEF Select, SelectWith, SelectEnd, Behind
<1>3. s.next # 0
  OBVIOUS
<1> HIDE DEF s
<1>4. list.next # 0 /\ limit.next # 0 /\ IsEnd(w[limit.next])
      /\ s = [next |-> After(w, limit.next), node |-> node]
  <2> HIDE DEF list, limit, node
  <2> QED BY <1>2, <1>3 DEF Refused, IsEnd
<1>5. After(w, i) \in 1..n /\ i <= After(w, i)
  BY <1>1, AfterIs
<1>6. list.node \in Seq(Nodes) /\ list.next \in After(w, i) + 1..n
  BY <1>4, <1>5, SelectExprsIs
<1> HIDE DEF list
<1>7. limit.next \in list.next..n /\ limit.node \in SUBSET Limits
  <2>1. CASE IsWord(w[list.next], "LIMIT")
    <3>1. limit = SelectLimit(w, list.next)
      BY <2>1
    <3>2. list.next \in 1..n /\ SelectLimit(w, list.next).next # 0
      BY <1>1, <1>4, <1>5, <1>6, <3>1
    <3>3. SelectLimit(w, list.next).next \in list.next + 1..n
          /\ SelectLimit(w, list.next).node \in SUBSET Limits
      BY <3>2, SelectLimitIs
    <3> QED BY <1>1, <3>1, <3>2, <3>3
  <2>2. CASE ~IsWord(w[list.next], "LIMIT")
    BY <1>1, <1>5, <1>6, <2>2
  <2> QED BY <2>1, <2>2
<1> HIDE DEF limit
<1>8. limit.next \in i + 1..n /\ i < n
  BY <1>1, <1>5, <1>6, <1>7
<1>9. After(w, limit.next) \in limit.next..n
  BY <1>1, <1>8, AfterIs
<1>10. node \in Stmts
  <2>1. Comments(w, i) \in SUBSET Marked
    <3>1. \A j \in 1..i - 1 : w[j] \in Reads
      BY <1>1
    <3> QED BY <3>1 DEF Comments, Marked, Reads
  <2>2. w[i].start \in Int /\ w[limit.next].end \in Int
    <3>1. w[i] \in Reads /\ w[limit.next] \in Reads
      BY <1>1, <1>8
    <3> QED BY <3>1 DEF Reads
  <2> QED BY <1>6, <1>7, <2>1, <2>2 DEF Stmts
<1>11. s.node = node /\ s.next = After(w, limit.next)
  BY <1>4
<1>12. \E e \in i + 1..n : IsEnd(w[e]) /\ s.node.end = w[e].end /\ s.next = After(w, e)
  BY <1>4, <1>8, <1>11
<1> QED BY <1>1, <1>8, <1>9, <1>10, <1>11, <1>12 DEF s

\* The loop of parse, by its equation.
LEMMA StatementsDefined ==
  ASSUME NEW w, Ended(w), NEW m
  PROVE  \A i \in 1..Len(w) :
            Statements(w, m)[i] =
                IF AtEnd(w[i], m) THEN [ok |-> TRUE, stmts |-> <<>>]
                ELSE IF ~IsWord(w[i], "SELECT") THEN Refusal
                ELSE Statement(Select(w, i), Statements(w, m)[Select(w, i).next])
<1> DEFINE
  n == Len(w)
  D == 1..n
  V == [ok: BOOLEAN, stmts: Seq(Stmts)]
  Body(g, i) == IF AtEnd(w[i], m) THEN [ok |-> TRUE, stmts |-> <<>>]
                ELSE IF ~IsWord(w[i], "SELECT") THEN Refusal
                ELSE LET s == Select(w, i) IN Statement(s, g[s.next])
  F == [g \in [D -> V] |-> [i \in D |-> Body(g, i)]]
  r == [i \in D |-> n - i]
<1>1. n \in Nat /\ n > 0
  BY DEF Ended
<1>2. ASSUME NEW i \in D, NEW s, s = Select(w, i), s.next # 0
      PROVE  s.next \in i + 1..n /\ s.node \in Stmts
  BY <1>2, SelectIs
<1>3. Refusal \in V /\ [ok |-> TRUE, stmts |-> <<>>] \in V
  BY DEF Refusal
<1>4. ASSUME NEW g \in [D -> V], NEW i \in D
      PROVE  Body(g, i) \in V
  <2> DEFINE
    s == Select(w, i)
    rest == g[s.next]
  <2>1. Statement(s, rest) \in V
    <3>1. CASE s.next = 0
      BY <1>3, <3>1 DEF Statement
    <3>2. CASE s.next # 0
      <4>1. s.next \in D /\ s.node \in Stmts
        BY <1>2, <3>2
      <4>2. rest \in V
        BY <4>1
      <4> HIDE DEF s, rest
      <4>3. <<s.node>> \o rest.stmts \in Seq(Stmts)
        BY <4>1, <4>2
      <4>4. [ok |-> TRUE, stmts |-> <<s.node>> \o rest.stmts] \in V
        BY <4>3
      <4> HIDE DEF V
      <4> QED BY <1>3, <3>2, <4>4 DEF Statement
    <3> QED BY <3>1, <3>2
  <2> HIDE DEF V
  <2> QED BY <1>3, <2>1
<1>5. ASSUME NEW g \in [D -> V], NEW h \in [D -> V], NEW i \in D,
             \A j \in D : r[j] < r[i] => g[j] = h[j]
      PROVE  Body(g, i) = Body(h, i)
  <2> DEFINE s == Select(w, i)
  <2>1. CASE s.next = 0
    BY <2>1 DEF Statement
  <2>2. CASE s.next # 0
    <3>1. s.next \in D /\ r[s.next] < r[i]
      BY <1>2, <2>2
    <3>2. g[s.next] = h[s.next]
      BY <1>5, <3>1
    <3> QED BY <3>2
  <2> QED BY <2>1, <2>2
<1>6. r \in [D -> 0..n] /\ V # {}
  BY <1>1, <1>3
<1>7. Statements(w, m) = CHOOSE g : g = [i \in D |-> Body(g, i)]
  BY DEF Statements
<1> HIDE DEF Body, r, D, V, n
<1>8. F \in [[D -> V] -> [D -> V]]
  BY <1>4
<1>9. \A g, h \in [D -> V] : \A i \in D :
          (\A j \in D : r[j] < r[i] => g[j] = h[j]) => F[g][i] = F[h][i]
  BY <1>5
<1> HIDE DEF F
<1>10. Recursive(D, n, r, V, F)
  BY <1>1, <1>6, <1>8, <1>9 DEF Recursive
<1>11. \E g : g = [i \in D |-> Body(g, i)]
  BY <1>10, Recursion DEF F, Solvable
<1>12. Statements(w, m) = [i \in D |-> Body(Statements(w, m), i)]
  BY <1>7, <1>11
<1>13. \A i \in D : Statements(w, m)[i] = Body(Statements(w, m), i)
  BY <1>12
<1> QED BY <1>13 DEF Body, D, n

\* The statements ss are read one behind the other, the k-th at f[k].
Tracks(w, m, ss, f) ==
    /\ ss \in Seq(Stmts)
    /\ f \in [1..Len(ss) + 1 -> 1..Len(w)]
    /\ \A k \in 1..Len(ss) :
          /\ ~AtEnd(w[f[k]], m) /\ IsWord(w[f[k]], "SELECT") /\ Select(w, f[k]).next # 0
          /\ ss[k] = Select(w, f[k]).node /\ f[k + 1] = Select(w, f[k]).next
    /\ AtEnd(w[f[Len(ss) + 1]], m)

\* A statement in front of those that are tracked.
LEMMA TracksFirst ==
  ASSUME NEW w, Ended(w), NEW m, NEW i \in 1..Len(w), ~AtEnd(w[i], m), IsWord(w[i], "SELECT"),
         NEW s, s = Select(w, i), s.next # 0,
         NEW ss, NEW f, Tracks(w, m, ss, f), f[1] = s.next
  PROVE  \E g : Tracks(w, m, <<s.node>> \o ss, g) /\ g[1] = i
<1> DEFINE
  n == Len(ss)
  ts == <<s.node>> \o ss
  g == [k \in 1..Len(ts) + 1 |-> IF k = 1 THEN i ELSE f[k - 1]]
<1>1. ss \in Seq(Stmts) /\ n \in Nat /\ f \in [1..n + 1 -> 1..Len(w)]
  BY DEF Tracks
<1>2. s.node \in Stmts
  BY SelectIs
<1>3. ts \in Seq(Stmts) /\ Len(ts) = n + 1 /\ ts[1] = s.node /\ \A k \in 1..n : ts[k + 1] = ss[k]
  BY <1>1, <1>2
<1> HIDE DEF ts, n
<1>4. g[1] = i /\ \A k \in 1..n + 1 : g[k + 1] = f[k]
  BY <1>1, <1>3
<1>5. g \in [1..Len(ts) + 1 -> 1..Len(w)]
  <2>1. ASSUME NEW k \in 1..Len(ts) + 1
        PROVE  (IF k = 1 THEN i ELSE f[k - 1]) \in 1..Len(w)
    BY <1>1, <1>3
  <2> QED BY <2>1
<1> HIDE DEF g
<1>6. ASSUME NEW k \in 1..Len(ts)
      PROVE  /\ ~AtEnd(w[g[k]], m) /\ IsWord(w[g[k]], "SELECT") /\ Select(w, g[k]).next # 0
             /\ ts[k] = Select(w, g[k]).node /\ g[k + 1] = Select(w, g[k]).next
  <2>1. CASE k = 1
    BY <1>3, <2>1, <1>1, <1>4
  <2>2. CASE k > 1
    <3>1. k - 1 \in 1..n /\ (k - 1) + 1 = k /\ k \in 1..n + 1
      BY <1>1, <1>3, <2>2
    <3>2. g[(k - 1) + 1] = f[k - 1] /\ g[k + 1] = f[k] /\ ts[(k - 1) + 1] = ss[k - 1]
      <4>1. k - 1 \in 1..n + 1
        BY <1>1, <3>1
      <4>2. g[(k - 1) + 1] = f[k - 1]
        BY ONLY <1>4, <4>1
      <4>3. g[k + 1] = f[k]
        BY ONLY <1>4, <3>1
      <4>4. ts[(k - 1) + 1] = ss[k - 1]
        BY ONLY <1>3, <3>1
      <4> QED BY <4>2, <4>3, <4>4
    <3>3. /\ ~AtEnd(w[f[k - 1]], m) /\ IsWord(w[f[k - 1]], "SELECT") /\ Select(w, f[k - 1]).next # 0
          /\ ss[k - 1] = Select(w, f[k - 1]).node /\ f[(k - 1) + 1] = Select(w, f[k - 1]).next
      BY <3>1 DEF Tracks, n
    <3> QED BY <3>1, <3>2, <3>3
  <2> QED BY <2>1, <2>2
<1>7. AtEnd(w[g[Len(ts) + 1]], m)
  BY <1>1, <1>3, <1>4 DEF Tracks, n
<1>8. Tracks(w, m, ts, g)
  BY <1>3, <1>5, <1>6, <1>7 DEF Tracks
<1> QED BY <1>4, <1>8 DEF ts

\* Statements that are accepted from i on are read there.
LEMMA StatementsTracked ==
  ASSUME NEW w, Ended(w), NEW m, NEW i \in 1..Len(w), Statements(w, m)[i].ok
  PROVE  \E f : Tracks(w, m, Statements(w, m)[i].stmts, f) /\ f[1] = i
<1> DEFINE
  n == Len(w)
  D == 1..n
  p(k) == Statements(w, m)[k]
  Good(k) == p(k).ok => \E f : Tracks(w, m, p(k).stmts, f) /\ f[1] = k
  S == {k \in D : Good(k)}
<1>1. n \in Nat /\ n > 0
  BY DEF Ended
<1>2. ASSUME NEW k \in D, \A j \in D : k < j => j \in S
      PROVE  k \in S
  <2> DEFINE s == Select(w, k)
  <2>1. p(k) = IF AtEnd(w[k], m) THEN [ok |-> TRUE, stmts |-> <<>>]
                ELSE IF ~IsWord(w[k], "SELECT") THEN Refusal
                ELSE Statement(s, p(s.next))
    BY StatementsDefined
  <2> HIDE DEF p
  <2>2. CASE AtEnd(w[k], m)
    <3> DEFINE f == [j \in 1..Len(<<>>) + 1 |-> k]
    <3>1. p(k).stmts = <<>>
      BY <2>1, <2>2
    <3>2. Tracks(w, m, <<>>, f)
      <4>1. Len(<<>>) = 0 /\ <<>> \in Seq(Stmts)
        OBVIOUS
      <4>2. f \in [1..Len(<<>>) + 1 -> 1..Len(w)] /\ f[Len(<<>>) + 1] = k
        BY <4>1
      <4> HIDE DEF f
      <4> QED BY <2>2, <4>1, <4>2 DEF Tracks
    <3>3. f[1] = k
      OBVIOUS
    <3> HIDE DEF f
    <3>4. Good(k)
      BY <3>1, <3>2, <3>3
    <3> QED BY <3>4
  <2>3. CASE ~AtEnd(w[k], m) /\ p(k).ok
    <3>1. IsWord(w[k], "SELECT") /\ p(k) = Statement(s, p(s.next)) /\ s.next # 0 /\ p(s.next).ok
      <4> HIDE DEF s
      <4> QED BY <2>1, <2>3 DEF Refusal, Statement
    <3>2. p(k).stmts = <<s.node>> \o p(s.next).stmts
      <4> HIDE DEF s
      <4> QED BY <3>1 DEF Statement
    <3>3. s.next \in k + 1..n
      BY <3>1, SelectIs
    <3>4. PICK f : Tracks(w, m, p(s.next).stmts, f) /\ f[1] = s.next
      BY <1>2, <3>1, <3>3
    <3>5. \E g : Tracks(w, m, <<s.node>> \o p(s.next).stmts, g) /\ g[1] = k
      BY <2>3, <3>1, <3>4, TracksFirst
    <3>6. Good(k)
      BY <3>2, <3>5
    <3> QED BY <3>6
  <2> QED BY <2>2, <2>3
<1>3. D \subseteq Int /\ n \in Int /\ (\A k \in D : k <= n) /\ i \in D
  BY <1>1
<1> HIDE DEF D, S, n
<1>4. D \subseteq S
  BY <1>2, <1>3, Downward
<1> QED BY <1>3, <1>4 DEF S

\* A statement that is refused leaves none.
LEMMA StatementsRefused ==
  ASSUME NEW w, Ended(w), NEW m, NEW i \in 1..Len(w), ~Statements(w, m)[i].ok
  PROVE  Statements(w, m)[i].stmts = <<>>
<1> DEFINE
  s == Select(w, i)
  p == Statements(w, m)[i]
  rest == Statements(w, m)[s.next]
<1>1. p = IF AtEnd(w[i], m) THEN [ok |-> TRUE, stmts |-> <<>>]
          ELSE IF ~IsWord(w[i], "SELECT") THEN Refusal
          ELSE Statement(s, rest)
  BY StatementsDefined
<1>2. ~p.ok
  OBVIOUS
<1> HIDE DEF p, s, rest
<1>3. p = Refusal
  BY <1>1, <1>2 DEF Statement
<1> QED BY <1>3 DEF Refusal, p

\* A place between the tokens lo and hi lies in one of those between them.
LEMMA Located ==
  ASSUME NEW t \in Seq(Chars), NEW p \in 0..Len(t), NEW w, IsWalk(t, p, w),
         NEW lo \in 1..Len(w), NEW hi \in lo..Len(w), NEW j \in w[lo].at..w[hi].at - 1
  PROVE  \E k \in lo..hi - 1 : j \in w[k].at..w[k].curr - 1
<1> DEFINE later == {k \in lo..hi : j < w[k].at}
<1>1. /\ Len(w) \in Nat /\ \A k \in 1..Len(w) : w[k].at \in p..Len(t)
      /\ \A k \in 1..Len(w) - 1 : w[k + 1].at = w[k].curr
  BY WalkPlaces
<1>2. hi \in later /\ later \subseteq Nat
  BY <1>1
<1> HIDE DEF later
<1>3. PICK m \in later : \A k \in later : m <= k
  BY <1>2, Least
<1> USE DEF later
<1>4. m \in lo..hi /\ j < w[m].at
  BY <1>3
<1>5. m > lo
  <2>1. w[lo].at \in p..Len(t) /\ w[hi].at \in p..Len(t)
    BY <1>1
  <2>2. ~(j < w[lo].at)
    BY <2>1
  <2>3. m # lo
    BY <1>4, <2>2
  <2> QED BY <1>4, <2>3
<1>6. m - 1 \in lo..hi - 1 /\ (m - 1) + 1 = m /\ m - 1 \in 1..Len(w) - 1 /\ m - 1 \in lo..hi
  BY <1>1, <1>4, <1>5
<1>7. m - 1 \notin later
  <2> HIDE DEF later
  <2> QED BY <1>2, <1>3, <1>4
<1>8. w[m - 1].at <= j
  <2>1. ~(j < w[m - 1].at)
    BY <1>6, <1>7
  <2>2. m - 1 \in 1..Len(w)
    BY <1>1, <1>6
  <2>3. w[m - 1].at \in Int
    BY <1>1, <2>2, SMTT(30)
  <2> QED BY <2>1, <2>3
<1>9. w[(m - 1) + 1].at = w[m - 1].curr
  BY ONLY <1>1, <1>6
<1>10. w[m].at = w[m - 1].curr /\ w[m].at \in Int
  BY <1>1, <1>4, <1>6, <1>9
<1>11. j \in w[m - 1].at..w[m - 1].curr - 1
  BY <1>4, <1>8, <1>10, <1>1, <1>6
<1> QED BY <1>6, <1>11

\* The place j of t is blank, or in one of the comments C.
Between(t, C, j) ==
    \/ At(t, j) \in Blanks
    \/ \E c \in C :
        /\ c.start - (IF c.sign = "#" THEN 1 ELSE 2) <= j
        /\ j < c.end + (IF c.sign = "/*" THEN 2 ELSE 0)

\* So it is in the tokens in front of one that are not solid.
LEMMA GapBetween ==
  ASSUME NEW t \in Seq(Chars), NEW w, IsWalk(t, 0, w), NEW f \in 1..Len(w),
         w[f].at < Len(t), NEW k \in 1..f - 1, \A i \in k..f - 1 : ~IsSolid(w[i]),
         IsSolid(w[f]), NEW j \in w[k].at..w[k].curr - 1
  PROVE  Between(t, Comments(w, f), j)
<1> DEFINE
  l == w[k]
  p == l.at
<1>0. 0 \in 0..Len(t)
  OBVIOUS
<1>1. Ended(w)
  BY <1>0, WalkEnded
<1>2. /\ Len(w) \in Nat /\ k \in 1..Len(w) - 1 /\ p \in 0..Len(t) /\ ReadAt(t, p, l) /\ ~IsFinal(l)
  BY <1>0, WalkPlaces
<1>3. l.curr \in p + 1..Len(t) /\ p < Len(t)
  BY <1>2, ReadAhead
<1>4. l.curr < Len(t)
  <2>1. \A i \in 1..Len(w) - 1 : w[i].curr = w[i + 1].at /\ w[i].curr \in w[i].at + 1..Len(t)
    <3>1. \A i \in 1..Len(w) - 1 :
              w[i + 1].at = w[i].curr /\ w[i].curr \in w[i].at + 1..Len(t) /\ ~IsFinal(w[i])
      BY <1>0, WalkPlaces
    <3> QED BY <3>1
  <2>2. \A i \in 1..Len(w) : w[i].at \in 0..Len(t)
    BY <1>0, WalkPlaces
  <2> DEFINE
    D == k..f - 1
    S == {i \in D : w[i].curr < Len(t)}
  <2>3. ASSUME NEW i \in D, \A h \in D : i < h => h \in S
        PROVE  i \in S
    <3>0. i \in 1..Len(w) - 1
      BY <1>2
    <3>1. i \in 1..Len(w) - 1 /\ w[i].curr = w[i + 1].at
      BY <2>1, <3>0
    <3>2. CASE i = f - 1
      BY <3>1, <3>2
    <3>3. CASE i < f - 1
      <4>1. i + 1 \in D /\ i < i + 1 /\ i + 1 \in 1..Len(w) - 1
        BY <3>1, <3>3
      <4>2. w[i + 1].curr < Len(t)
        BY <2>3, <4>1
      <4>3. w[i + 1].curr \in w[i + 1].at + 1..Len(t)
        BY ONLY <2>1, <4>1
      <4>4. w[i + 1].at \in 0..Len(t)
        BY <2>2, <4>1
      <4> QED BY <3>1, <4>2, <4>3, <4>4
    <3> QED BY <3>2, <3>3
  <2>4. D \subseteq Int /\ f - 1 \in Int /\ (\A i \in D : i <= f - 1) /\ k \in D
    OBVIOUS
  <2> HIDE DEF D, S
  <2>5. D \subseteq S
    BY <2>3, <2>4, Downward
  <2> QED BY <2>4, <2>5 DEF S
<1>5. l.type \in {"BLANK", "COMMENT"}
  BY <1>2 DEF IsSolid
<1>6. CASE l.type = "BLANK"
  <2>1. PlainAt(t, p, l)
    BY <1>2, <1>6 DEF ReadAt, CommentAt, QuotedAt
  <2>2. \A i \in p..l.curr - 1 : At(t, i) \in Blanks
    BY <1>6, <2>1 DEF PlainAt
  <2> QED BY <2>2 DEF Between
<1>7. CASE l.type = "COMMENT"
  <2>1. CommentAt(t, p, l)
    BY <1>2, <1>7 DEF ReadAt, PlainAt, QuotedAt
  <2> DEFINE c == [sign |-> l.prefix, start |-> l.start, end |-> l.end]
  <2>2. c \in Comments(w, f)
    <3>1. k \in 0..Len(w) /\ f \in k + 1..Len(w) /\ \A i \in k + 1..f - 1 : ~IsSolid(w[i])
      BY <1>2
    <3>2. After(w, k) = f
      BY <1>1, <3>1, AfterThe
    <3> QED BY <1>7, <3>2 DEF Comments
  <2>3. c.sign = l.prefix /\ c.start = l.start /\ c.end = l.end
    OBVIOUS
  <2> HIDE DEF c
  <2>4. l.start - (IF l.prefix = "#" THEN 1 ELSE 2) <= j
    <3>1. l.start = p + (IF l.prefix = "#" THEN 1 ELSE 2)
      BY <2>1 DEF CommentAt
    <3>2. p \in Int
      BY <1>2
    <3>3. p <= j /\ j \in Int
      BY <1>3, <3>2
    <3> QED BY <3>1, <3>2, <3>3
  <2>5. l.curr # Len(t)
    BY <1>4
  <2>6. \/ l.end \in l.start..Len(t) /\ l.prefix # "/*" /\ l.curr = l.end + 1 /\ At(t, l.end) = "nl"
        \/ l.end \in l.start..Len(t) /\ l.prefix # "/*"
             /\ l.curr = l.end + 2 /\ At(t, l.end) = "cr" /\ At(t, l.end + 1) = "nl"
        \/ l.end \in l.start..Len(t) /\ l.prefix = "/*" /\ l.curr = l.end + 2
    BY <2>1, <2>5 DEF CommentAt
  <2>7. CASE j < l.end + (IF l.prefix = "/*" THEN 2 ELSE 0)
    BY <2>2, <2>3, <2>4, <2>7 DEF Between
  <2>8. CASE ~(j < l.end + (IF l.prefix = "/*" THEN 2 ELSE 0))
    <3>1. l.prefix # "/*" /\ j \in {l.end, l.end + 1} /\ j < l.curr /\ l.end \in Int
      BY <1>3, <2>6, <2>8, SMTT(20)
    <3>2. At(t, j) \in {"nl", "cr"}
      BY <2>6, <3>1
    <3> QED BY <3>2 DEF Between, Blanks
  <2> QED BY <2>7, <2>8
<1> QED BY <1>5, <1>6, <1>7

\* Tokens do not overlap.
LEMMA WalkForward ==
  ASSUME NEW t \in Seq(Chars), NEW p \in 0..Len(t), NEW w, IsWalk(t, p, w),
         NEW lo \in 1..Len(w), NEW hi \in lo..Len(w)
  PROVE  w[lo].at <= w[hi].at /\ (lo < hi => w[lo].curr <= w[hi].at)
<1>1. Len(w) \in Nat
  BY WalkPlaces
<1>2. \A k \in 1..Len(w) : w[k].at \in p..Len(t)
  BY WalkPlaces
<1>3. \A k \in 1..Len(w) - 1 :
          w[k + 1].at = w[k].curr /\ w[k].curr \in w[k].at + 1..Len(t) /\ ~IsFinal(w[k])
  BY WalkPlaces
<1> DEFINE
  D == lo..hi
  S == {k \in D : w[k].at <= w[hi].at /\ (k < hi => w[k].curr <= w[hi].at)}
<1>4. ASSUME NEW k \in D, \A j \in D : k < j => j \in S
      PROVE  k \in S
  <2>1. k \in 1..Len(w) /\ w[k].at \in Int /\ hi \in 1..Len(w) /\ w[hi].at \in Int
    BY <1>1, <1>2
  <2>2. CASE k = hi
    BY <2>1, <2>2
  <2>3. CASE k < hi
    <3>1. k + 1 \in D /\ k < k + 1 /\ k \in 1..Len(w) - 1
      BY <1>1, <2>3
    <3>2. w[k + 1].at <= w[hi].at
      BY <1>4, <3>1
    <3>3. w[k + 1].at = w[k].curr /\ w[k].curr \in w[k].at + 1..Len(t)
      BY <1>3, <3>1
    <3> QED BY <2>1, <3>2, <3>3
  <2> QED BY <2>2, <2>3
<1>5. D \subseteq Int /\ hi \in Int /\ (\A k \in D : k <= hi) /\ lo \in D
  OBVIOUS
<1> HIDE DEF D, S
<1>6. D \subseteq S
  BY <1>4, <1>5, Downward
<1> QED BY <1>5, <1>6 DEF S

\* A keyword is read where it begins.
LEMMA WordAt ==
  ASSUME NEW t \in Seq(Chars), NEW p \in 0..Len(t), NEW l, ReadAt(t, p, l),
         NEW word, IsWord(l, word)
  PROVE  p < Len(t) /\ l.start = p /\ IsSolid(l) /\ PlainAt(t, p, l)
<1>1. l.type = "ID" /\ ~l.quoted
  BY DEF IsWord
<1>2. p < Len(t) /\ PlainAt(t, p, l)
  BY <1>1 DEF ReadAt, CommentAt, QuotedAt
<1>3. l.start = p
  BY <1>1, <1>2 DEF PlainAt
<1> QED BY <1>1, <1>2, <1>3 DEF IsSolid

\* What is between the tokens of two statements.
LEMMA GapIs ==
  ASSUME NEW t \in Seq(Chars), NEW w, IsWalk(t, 0, w), NEW f \in 1..Len(w),
         IsWord(w[f], "SELECT"), NEW lo \in 1..f, \A i \in lo..f - 1 : ~IsSolid(w[i])
  PROVE  /\ w[lo].at <= w[f].start
         /\ \A j \in w[lo].at..w[f].start - 1 : Between(t, Comments(w, f), j)
<1>0. 0 \in 0..Len(t)
  OBVIOUS
<1>1. Len(w) \in Nat /\ w[f].at \in 0..Len(t) /\ ReadAt(t, w[f].at, w[f])
  BY <1>0, WalkPlaces
<1>2. w[f].at < Len(t) /\ w[f].start = w[f].at /\ IsSolid(w[f])
  BY <1>1, WordAt
<1>3. lo \in 1..Len(w) /\ f \in lo..Len(w)
  BY <1>1
<1>4. w[lo].at <= w[f].at
  BY <1>0, <1>3, WalkForward
<1>5. ASSUME NEW j \in w[lo].at..w[f].at - 1
      PROVE  Between(t, Comments(w, f), j)
  <2>1. PICK k \in lo..f - 1 : j \in w[k].at..w[k].curr - 1
    BY <1>0, <1>3, Located
  <2>2. k \in 1..f - 1 /\ \A i \in k..f - 1 : ~IsSolid(w[i])
    BY <1>3, <2>1
  <2> QED BY <1>2, <2>1, <2>2, GapBetween
<1> QED BY <1>2, <1>4, <1>5

\* What ends a statement has nothing around it.
LEMMA EndAt ==
  ASSUME NEW t \in Seq(Chars), NEW p \in 0..Len(t), NEW l, ReadAt(t, p, l), IsEnd(l)
  PROVE  /\ l.end = l.curr /\ l.curr \in 0..Len(t)
         /\ l.type = "EOS" => l.curr = Len(t)
         /\ l.type # "EOS" => l.curr > p
<1>1. CASE l.type = "EOS"
  BY <1>1 DEF ReadAt, CommentAt, QuotedAt, PlainAt
<1>2. CASE l.type # "EOS" /\ IsSign(l, "semi")
  <2>1. PlainAt(t, p, l) /\ l.type = "SIGN" /\ p < Len(t)
    BY <1>2 DEF IsSign, ReadAt, CommentAt, QuotedAt
  <2>2. l.start \in {p, p + 1} /\ l.end = l.curr /\ l.curr \in l.start..Len(t)
    BY <2>1, PlainSpan
  <2>3. l.curr > p
    BY <2>1 DEF PlainAt
  <2> QED BY <1>2, <2>2, <2>3
<1> QED BY <1>1, <1>2 DEF IsEnd

\* Where the statement before the k-th ends.
EndOf(ss, k) == IF k = 1 THEN 0 ELSE ss[k - 1].end

\* Between statements there are only blanks and the comments of the later.
LEMMA StatementsBetween ==
  ASSUME NEW t \in Seq(Chars), NEW w, IsWalk(t, 0, w), NEW m,
         NEW ss, NEW f, Tracks(w, m, ss, f), f[1] = After(w, 0), NEW k \in 1..Len(ss)
  PROVE  /\ EndOf(ss, k) <= ss[k].start
         /\ \A j \in EndOf(ss, k)..ss[k].start - 1 : Between(t, ss[k].comments, j)
<1>0. 0 \in 0..Len(t) /\ Len(ss) \in Nat
  BY DEF Tracks
<1>1. Ended(w) /\ Len(w) \in Nat /\ Len(w) > 0
  BY <1>0, WalkEnded, WalkPlaces
<1> DEFINE g == f[k]
<1>2. /\ g \in 1..Len(w) /\ IsWord(w[g], "SELECT") /\ Select(w, g).next # 0
      /\ ss[k] = Select(w, g).node
  BY <1>0, SMTT(20) DEF Tracks
<1>3. ss[k].start = w[g].start /\ ss[k].comments = Comments(w, g)
  BY <1>1, <1>2, SelectIs
<1>4. CASE k = 1
  <2>1. 0 \in 0..Len(w)
    BY <1>1
  <2>2. \A i \in 0 + 1..g - 1 : ~IsSolid(w[i])
    BY <1>1, <1>4, <2>1, AfterIs
  <2>3. \A i \in 1..g - 1 : ~IsSolid(w[i])
    BY <2>2
  <2>4. w[1].at = 0 /\ 1 \in 1..g
    BY <1>2, <1>0, WalkPlaces
  <2>5. /\ w[1].at <= w[g].start
        /\ \A j \in w[1].at..w[g].start - 1 : Between(t, Comments(w, g), j)
    BY <1>2, <2>3, <2>4, GapIs
  <2> QED BY <1>3, <1>4, <2>4, <2>5 DEF EndOf
<1>5. CASE k > 1
  <2> DEFINE h == f[k - 1]
  <2>1. k - 1 \in 1..Len(ss) /\ (k - 1) + 1 = k /\ k - 1 \in 1..Len(ss) + 1
    BY <1>0, <1>5
  <2>2. /\ h \in 1..Len(w) /\ Select(w, h).next # 0
        /\ ss[k - 1] = Select(w, h).node /\ f[(k - 1) + 1] = Select(w, h).next
    BY <2>1 DEF Tracks
  <2>3. PICK e \in h + 1..Len(w) : IsEnd(w[e]) /\ Select(w, h).node.end = w[e].end
                                     /\ Select(w, h).next = After(w, e)
    <3> HIDE DEF h
    <3> QED BY <1>1, <2>2, SelectIs
  <2>4. g = After(w, e)
    BY <2>1, <2>2, <2>3
  <2>5. e \in 0..Len(w) /\ e \in 1..Len(w)
    BY <1>1, <2>2, <2>3
  <2>6. (e < Len(w) => e < g) /\ \A i \in e + 1..g - 1 : ~IsSolid(w[i])
    <3>1. (e < Len(w) => e < After(w, e)) /\ \A i \in e + 1..After(w, e) - 1 : ~IsSolid(w[i])
      BY <1>1, <2>5, AfterIs
    <3> HIDE DEF g
    <3> QED BY <2>4, <3>1
  <2>7. e # Len(w)
    <3> SUFFICES ASSUME e = Len(w) PROVE FALSE
      OBVIOUS
    <3>1. After(w, e) = e
      BY <1>1, <2>5, AfterIs, SMTT(30)
    <3>2. IsWord(w[e], "SELECT")
      BY <1>2, <2>4, <3>1
    <3> QED BY <2>3, <3>2 DEF IsWord, IsEnd, IsSign
  <2>8. e \in 1..Len(w) - 1 /\ e + 1 \in 1..g
    BY <1>1, <1>2, <2>5, <2>6, <2>7
  <2>9. w[e + 1].at = w[e].curr
    BY <1>0, <2>8, WalkPlaces
  <2>10. w[e].end = w[e].curr
    <3>1. w[e].at \in 0..Len(t) /\ ReadAt(t, w[e].at, w[e])
      BY <1>0, <2>5, WalkPlaces
    <3> QED BY <2>3, <3>1, EndAt
  <2>11. /\ w[e + 1].at <= w[g].start
         /\ \A j \in w[e + 1].at..w[g].start - 1 : Between(t, Comments(w, g), j)
    <3> HIDE DEF g
    <3> QED BY <1>2, <2>6, <2>8, GapIs
  <2>12. EndOf(ss, k) = w[e + 1].at
    BY <1>5, <2>2, <2>3, <2>9, <2>10 DEF EndOf
  <2> QED BY <1>3, <2>11, <2>12
<1> QED BY <1>4, <1>5

-----------------------------------------------------------------------------
(* A token depends on its own characters and the one behind it alone. *)

\* The characters a..c of u are those of t that stand d further right. The end of
\* a text counts as one.
Agree(t, u, d, a, c) ==
    /\ t \in Seq(Chars) /\ u \in Seq(Chars) /\ d \in Int /\ a \in Nat /\ a + d \in Nat
    /\ c \in a..Len(u) /\ c + d <= Len(t)
    /\ \A i \in a..c : (i < Len(u) <=> i + d < Len(t)) /\ (i < Len(u) => At(t, i + d) = At(u, i))

\* Texts that agree do so both ways,
LEMMA AgreeBack ==
  ASSUME NEW t, NEW u, NEW d, NEW a, NEW c, Agree(t, u, d, a, c)
  PROVE  Agree(u, t, -d, a + d, c + d)
<1>1. /\ t \in Seq(Chars) /\ u \in Seq(Chars) /\ d \in Int /\ a \in Nat /\ a + d \in Nat
      /\ c \in a..Len(u) /\ c + d <= Len(t) /\ Len(t) \in Nat /\ Len(u) \in Nat
  BY DEF Agree
<1>2. -d \in Int /\ (a + d) + (-d) = a /\ (c + d) + (-d) = c /\ c + d \in a + d..Len(t)
  BY <1>1
<1>3. ASSUME NEW i \in a + d..c + d
      PROVE  /\ i < Len(t) <=> i + (-d) < Len(u)
             /\ i < Len(t) => At(u, i + (-d)) = At(t, i)
  <2>1. i + (-d) \in a..c /\ (i + (-d)) + d = i
    BY <1>1
  <2>2. \A j \in a..c : (j < Len(u) <=> j + d < Len(t)) /\ (j < Len(u) => At(t, j + d) = At(u, j))
    BY DEF Agree
  <2> DEFINE j == i + (-d)
  <2>3. (j < Len(u) <=> j + d < Len(t)) /\ (j < Len(u) => At(t, j + d) = At(u, j))
    <3> HIDE DEF j
    <3> QED BY <2>1, <2>2 DEF j
  <2> QED BY <2>1, <2>3
<1> QED BY <1>1, <1>2, <1>3 DEF Agree

\* in each character,
LEMMA AgreeAt ==
  ASSUME NEW t, NEW u, NEW d, NEW a, NEW c, Agree(t, u, d, a, c), NEW i \in a..c
  PROVE  /\ i < Len(u) <=> i + d < Len(t)
         /\ i < Len(u) => At(t, i + d) = At(u, i)
         /\ i \in 0..Len(u) /\ i + d \in 0..Len(t)
         /\ i = Len(u) <=> i + d = Len(t)
<1>1. /\ d \in Int /\ a \in Nat /\ a + d \in Nat /\ Len(t) \in Nat /\ Len(u) \in Nat
      /\ c \in a..Len(u) /\ c + d <= Len(t)
  BY DEF Agree
<1>2. (i < Len(u) <=> i + d < Len(t)) /\ (i < Len(u) => At(t, i + d) = At(u, i))
  BY DEF Agree
<1> QED BY <1>1, <1>2

\* in what is found there,
LEMMA FindMoved ==
  ASSUME NEW t, NEW u, NEW d, NEW a, NEW c, Agree(t, u, d, a, c), NEW i \in a..c, NEW S,
         Find(u, i, S) <= c
  PROVE  Find(t, i + d, S) = Find(u, i, S) + d
<1>1. /\ d \in Int /\ a \in Nat /\ a + d \in Nat /\ Len(t) \in Nat /\ Len(u) \in Nat
      /\ c \in a..Len(u) /\ c + d <= Len(t)
  BY DEF Agree
<1>2. i \in 0..Len(u) /\ i + d \in 0..Len(t)
  BY AgreeAt
<1>3. PICK j \in i..Len(u) : j = Find(u, i, S)
  BY <1>1, <1>2, FindIn
<1>4. /\ j < Len(u) => At(u, j) \in S
      /\ \A k \in i..j - 1 : At(u, k) \notin S
  BY <1>1, <1>2, <1>3, FindIn
<1>5. j \in a..c
  BY <1>1, <1>3
<1> DEFINE
  n == i + d
  e == j + d
<1>6. n \in 0..Len(t) /\ e \in n..Len(t)
  BY <1>1, <1>2, <1>3, <1>5
<1>7. e < Len(t) => At(t, e) \in S
  BY <1>4, <1>5, AgreeAt
<1>8. ASSUME NEW k \in n..e - 1
      PROVE  At(t, k) \notin S
  <2> DEFINE h == k - d
  <2>1. h \in i..j - 1 /\ h \in a..c /\ h < Len(u) /\ h + d = k
    BY <1>1, <1>3, <1>5
  <2> HIDE DEF h
  <2>2. At(t, h + d) = At(u, h)
    BY <2>1, AgreeAt
  <2> QED BY <1>4, <2>1, <2>2
<1> HIDE DEF n, e
<1>9. Find(t, n, S) = e
  BY <1>1, <1>6, <1>7, <1>8, FindThe
<1> QED BY <1>3, <1>9 DEF n, e

\* in the end of a quoted text,
LEMMA ClosingMoved ==
  ASSUME NEW t, NEW u, NEW d, NEW a, NEW c, Agree(t, u, d, a, c), NEW i \in a..c, NEW q,
         Closing(u, i, q) < c
  PROVE  Closing(t, i + d, q) = Closing(u, i, q) + d
<1> DEFINE
  D == a..c
  Good(k) == Closing(u, k, q) < c => Closing(t, k + d, q) = Closing(u, k, q) + d
  S == {k \in D : Good(k)}
<1>1. /\ d \in Int /\ a \in Nat /\ a + d \in Nat /\ Len(t) \in Nat /\ Len(u) \in Nat
      /\ c \in a..Len(u) /\ c + d <= Len(t)
  BY DEF Agree
<1>2. ASSUME NEW k \in D, \A h \in D : k < h => h \in S
      PROVE  k \in S
  <2>1. k \in 0..Len(u) /\ k + d \in 0..Len(t)
    BY AgreeAt
  <2>2. PICK j \in k..Len(u) : j = Find(u, k, {q})
    BY <1>1, <2>1, FindIn
  <2>3. Closing(u, k, q) = IF j + 1 < Len(u) /\ At(u, j + 1) = q THEN Closing(u, j + 2, q) ELSE j
    BY <1>1, <2>1, <2>2, ClosingsDefined
  <2>4. ASSUME Closing(u, k, q) < c
        PROVE  Closing(t, k + d, q) = Closing(u, k, q) + d
    <3>1. j < c
      <4>1. CASE j + 1 < Len(u) /\ At(u, j + 1) = q
        <5>1. j + 2 \in 0..Len(u)
          BY <1>1, <2>1, <2>2, <4>1
        <5>2. Closing(u, j + 2, q) \in j + 2..Len(u)
          BY <1>1, <5>1, ClosingIs
        <5> QED BY <1>1, <2>2, <2>3, <2>4, <4>1, <5>2
      <4>2. CASE ~(j + 1 < Len(u) /\ At(u, j + 1) = q)
        BY <2>3, <2>4, <4>2
      <4> QED BY <4>1, <4>2
    <3>2. Find(t, k + d, {q}) = j + d
      BY <2>2, <3>1, FindMoved, <1>1
    <3> DEFINE
      n == k + d
      e == j + d
    <3>3. Closing(t, n, q) = IF e + 1 < Len(t) /\ At(t, e + 1) = q THEN Closing(t, e + 2, q) ELSE e
      <4> HIDE DEF n, e
      <4>1. n \in 0..Len(t) /\ Find(t, n, {q}) = e
        BY <2>1, <3>2 DEF n, e
      <4> QED BY <1>1, <4>1, ClosingsDefined
    <3>4. j + 1 \in a..c /\ (j + 1) + d = e + 1 /\ (j + 2) + d = e + 2
      BY <1>1, <2>2, <3>1
    <3> DEFINE x == j + 1
    <3>5. (x < Len(u) <=> x + d < Len(t)) /\ (x < Len(u) => At(t, x + d) = At(u, x))
      <4> HIDE DEF x
      <4> QED BY <3>4, AgreeAt DEF x
    <3>6. CASE j + 1 < Len(u) /\ At(u, j + 1) = q
      <4>1. Closing(u, k, q) = Closing(u, j + 2, q)
        BY <2>3, <3>6
      <4>2. Closing(t, k + d, q) = Closing(t, (j + 2) + d, q)
        BY <3>3, <3>4, <3>5, <3>6
      <4>3. j + 2 \in D /\ k < j + 2
        <5>1. j + 2 \in 0..Len(u)
          BY <1>1, <2>1, <2>2, <3>6
        <5>2. Closing(u, j + 2, q) \in j + 2..Len(u)
          BY <1>1, <5>1, ClosingIs
        <5> QED BY <1>1, <2>2, <2>4, <4>1, <5>2
      <4>4. Good(j + 2)
        BY <1>2, <4>3
      <4> QED BY <2>4, <4>1, <4>2, <4>4
    <3>7. CASE ~(j + 1 < Len(u) /\ At(u, j + 1) = q)
      <4>1. Closing(u, k, q) = j
        BY <2>3, <3>7
      <4>2. Closing(t, k + d, q) = j + d
        BY <3>3, <3>4, <3>5, <3>7
      <4> QED BY <4>1, <4>2
    <3> QED BY <3>6, <3>7
  <2> QED BY <2>4
<1>3. D \subseteq Int /\ c \in Int /\ (\A k \in D : k <= c) /\ i \in D
  BY <1>1
<1> HIDE DEF D, S
<1>4. D \subseteq S
  BY <1>2, <1>3, Downward
<1> QED BY <1>3, <1>4 DEF S

\* and in the end of a comment.
LEMMA MultiEndMoved ==
  ASSUME NEW t, NEW u, NEW d, NEW a, NEW c, Agree(t, u, d, a, c), NEW i \in a..c,
         MultiEnd(u, i).curr <= c
  PROVE  /\ MultiEnd(t, i + d).curr = MultiEnd(u, i).curr + d
         /\ MultiEnd(t, i + d).closed = MultiEnd(u, i).closed
         /\ MultiEnd(t, i + d).star = MultiEnd(u, i).star
<1> DEFINE
  D == a..c
  Alike(m, n) == m.curr = n.curr + d /\ m.closed = n.closed /\ m.star = n.star
  Good(k) == MultiEnd(u, k).curr <= c => Alike(MultiEnd(t, k + d), MultiEnd(u, k))
  S == {k \in D : Good(k)}
<1>1. /\ d \in Int /\ a \in Nat /\ a + d \in Nat /\ Len(t) \in Nat /\ Len(u) \in Nat
      /\ c \in a..Len(u) /\ c + d <= Len(t)
  BY DEF Agree
<1>2. ASSUME NEW k \in D, \A h \in D : k < h => h \in S, MultiEnd(u, k).curr <= c
      PROVE  Alike(MultiEnd(t, k + d), MultiEnd(u, k))
  <2>1. k \in 0..Len(u) /\ k + d \in 0..Len(t) /\ (k = Len(u) <=> k + d = Len(t))
        /\ (k < Len(u) => At(t, k + d) = At(u, k))
    BY AgreeAt
  <2> DEFINE
    m == MultiEnd(u, k)
    m1 == MultiEnd(u, k + 1)
    m2 == MultiEnd(u, k + 2)
    e == k + d
    f == MultiEnd(t, e)
    f1 == MultiEnd(t, e + 1)
    f2 == MultiEnd(t, e + 2)
  <2>2. m = IF k = Len(u) THEN [curr |-> k, closed |-> FALSE, star |-> FALSE]
            ELSE IF At(u, k) # "*" \/ k + 1 = Len(u) THEN m1
            ELSE IF At(u, k + 1) = "/" THEN [curr |-> k + 2, closed |-> TRUE, star |-> FALSE]
            ELSE [curr |-> m2.curr, closed |-> m2.closed, star |-> TRUE]
    BY <1>1, <2>1, MultiEndsDefined
  <2>3. f = IF e = Len(t) THEN [curr |-> e, closed |-> FALSE, star |-> FALSE]
            ELSE IF At(t, e) # "*" \/ e + 1 = Len(t) THEN f1
            ELSE IF At(t, e + 1) = "/" THEN [curr |-> e + 2, closed |-> TRUE, star |-> FALSE]
            ELSE [curr |-> f2.curr, closed |-> f2.closed, star |-> TRUE]
    <3>1. e \in 0..Len(t)
      BY <2>1
    <3> HIDE DEF e
    <3> QED BY <1>1, <3>1, MultiEndsDefined
  <2>4. k + 1 <= Len(u) => m1.curr \in k + 1..Len(u)
    <3> SUFFICES ASSUME k + 1 <= Len(u) PROVE m1.curr \in k + 1..Len(u)
      OBVIOUS
    <3>1. k + 1 \in 0..Len(u)
      BY <2>1
    <3>2. m1 \in [curr: k + 1..Len(u), closed: BOOLEAN, star: BOOLEAN]
      BY <1>1, <3>1, MultiEndIs
    <3> HIDE DEF m1
    <3> QED BY <3>2
  <2>5. k + 2 <= Len(u) => m2.curr \in k + 2..Len(u)
    <3> SUFFICES ASSUME k + 2 <= Len(u) PROVE m2.curr \in k + 2..Len(u)
      OBVIOUS
    <3>1. k + 2 \in 0..Len(u)
      BY <2>1
    <3>2. m2 \in [curr: k + 2..Len(u), closed: BOOLEAN, star: BOOLEAN]
      BY <1>1, <3>1, MultiEndIs
    <3> HIDE DEF m2
    <3> QED BY <3>2
  <2>6. k + 1 \in D /\ m1.curr <= c => Alike(f1, m1)
    <3>1. k + 1 \in D => Good(k + 1)
      BY <1>2
    <3>2. (k + 1) + d = e + 1
      BY <1>1
    <3> QED BY <3>1, <3>2
  <2>7. k + 2 \in D /\ m2.curr <= c => Alike(f2, m2)
    <3>1. k + 2 \in D => Good(k + 2)
      BY <1>2
    <3>2. (k + 2) + d = e + 2
      BY <1>1
    <3> QED BY <3>1, <3>2
  <2>8. k + 1 \in D => /\ k + 1 = Len(u) <=> e + 1 = Len(t)
                       /\ k + 1 < Len(u) => At(t, e + 1) = At(u, k + 1)
    <3> DEFINE x == k + 1
    <3>1. x + d = e + 1
      BY <1>1
    <3> HIDE DEF x
    <3>2. x \in D => /\ x = Len(u) <=> x + d = Len(t)
                     /\ x < Len(u) => At(t, x + d) = At(u, x)
      BY AgreeAt
    <3> QED BY <3>1, <3>2 DEF x
  <2>9. m.curr <= c
    BY <1>2
  <2> HIDE DEF m, m1, m2, f, f1, f2
  <2>10. CASE k = Len(u)
    <3>1. m = [curr |-> k, closed |-> FALSE, star |-> FALSE]
      BY <2>2, <2>10
    <3>2. f = [curr |-> e, closed |-> FALSE, star |-> FALSE]
      BY <2>1, <2>3, <2>10
    <3>3. Alike(f, m)
      BY <3>1, <3>2
    <3> QED BY <3>3 DEF m, f
  <2>11. CASE k < Len(u) /\ (At(u, k) # "*" \/ k + 1 = Len(u))
    <3>1. m = m1
      BY <2>2, <2>11
    <3>2. k + 1 \in D
      BY <1>1, <2>1, <2>4, <2>9, <2>11, <3>1
    <3>3. f = f1
      BY <2>1, <2>3, <2>8, <2>11, <3>2
    <3> QED BY <2>6, <2>9, <3>1, <3>2, <3>3 DEF m, f
  <2>12. CASE k + 1 < Len(u) /\ At(u, k) = "*" /\ At(u, k + 1) = "/"
    <3>1. m = [curr |-> k + 2, closed |-> TRUE, star |-> FALSE]
      BY <2>1, <2>2, <2>12
    <3>2. k + 1 \in D
      BY <1>1, <2>1, <2>9, <2>12, <3>1
    <3>3. f = [curr |-> e + 2, closed |-> TRUE, star |-> FALSE]
      BY <2>1, <2>3, <2>8, <2>12, <3>2
    <3>4. e + 2 = (k + 2) + d
      BY <1>1
    <3>5. Alike(f, m)
      BY <3>1, <3>3, <3>4
    <3> QED BY <3>5 DEF m, f
  <2>13. CASE k + 1 < Len(u) /\ At(u, k) = "*" /\ At(u, k + 1) # "/"
    <3>1. m = [curr |-> m2.curr, closed |-> m2.closed, star |-> TRUE]
      BY <2>1, <2>2, <2>13
    <3>2. k + 1 \in D /\ k + 2 \in D
      BY <1>1, <2>1, <2>5, <2>9, <2>13, <3>1
    <3>3. f = [curr |-> f2.curr, closed |-> f2.closed, star |-> TRUE]
      BY <2>1, <2>3, <2>8, <2>13, <3>2
    <3>4. Alike(f2, m2)
      BY <2>7, <2>9, <3>1, <3>2
    <3>5. Alike(f, m)
      BY <3>1, <3>3, <3>4
    <3> QED BY <3>5 DEF m, f
  <2> QED BY <2>1, <2>10, <2>11, <2>12, <2>13
<1>3. \A k \in D : (\A h \in D : k < h => h \in S) => k \in S
  BY <1>2
<1>4. D \subseteq Int /\ c \in Int /\ (\A k \in D : k <= c) /\ i \in D
  BY <1>1
<1> HIDE DEF D, S
<1>5. D \subseteq S
  BY <1>3, <1>4, Downward
<1> QED BY <1>4, <1>5 DEF S

-----------------------------------------------------------------------------
(* The same of numbers and identifiers. *)

\* A place in the notes of the loop of parseToken.
Place(x, d) == IF x = -1 THEN -1 ELSE x + d

\* The notes b of the loop are the notes a, moved.
Twin(a, b, d) ==
    /\ a \in Notes /\ b \in Notes /\ a.kind = b.kind /\ a.isn = b.isn /\ a.end = b.end + d
    /\ a.di = Place(b.di, d) /\ a.ei = Place(b.ei, d) /\ a.si = Place(b.si, d)

\* Two scans of what agrees go alike, step by step
LEMMA TwinStep ==
  ASSUME NEW t, NEW u, NEW d, NEW p, NEW c, Agree(t, u, d, p, c), NEW i \in p..c,
         NEW n, Going(p, i, n), NEW m, Twin(m, n, d)
  PROVE  LET r == ScanStep(t, p + d, i + d, m)
             s == ScanStep(u, p, i, n)
         IN /\ r.kind = s.kind
            /\ s.kind # "error" => Twin(r, s, d)
<1> DEFINE
  b == p + d
  j == i + d
  r == ScanStep(t, b, j, m)
  s == ScanStep(u, p, i, n)
  x == CharAt(u, i)
<1>1. /\ d \in Int /\ p \in Nat /\ b \in Nat /\ i \in Int /\ i >= p /\ Len(t) \in Nat /\ Len(u) \in Nat
  BY DEF Agree
<1>2. CharAt(t, j) = x
  BY AgreeAt DEF CharAt
<1>3. s = IF x \in Digits THEN [n EXCEPT !.isn = @ \/ i = p]
            ELSE IF x = "." /\ n.di # -1 THEN [n EXCEPT !.kind = "error"]
            ELSE IF x = "." /\ n.isn THEN [n EXCEPT !.di = i]
            ELSE IF x \in Letters THEN ScanLetter(p, i, n, n.isn /\ x = "e" /\ n.ei = -1)
            ELSE IF x \in {"+", "-"} /\ n.ei # -1 /\ n.ei = i - 1 THEN [n EXCEPT !.si = i]
            ELSE Stop(n, i)
  BY ScanStepIs
<1>4. r = IF x \in Digits THEN [m EXCEPT !.isn = @ \/ j = b]
            ELSE IF x = "." /\ m.di # -1 THEN [m EXCEPT !.kind = "error"]
            ELSE IF x = "." /\ m.isn THEN [m EXCEPT !.di = j]
            ELSE IF x \in Letters THEN ScanLetter(b, j, m, m.isn /\ x = "e" /\ m.ei = -1)
            ELSE IF x \in {"+", "-"} /\ m.ei # -1 /\ m.ei = j - 1 THEN [m EXCEPT !.si = j]
            ELSE Stop(m, j)
  BY <1>2, ScanStepIs
<1>5. s \in Notes /\ r \in Notes
  <2>1. n \in Notes /\ m \in Notes /\ p \in Int /\ i \in Int /\ b \in Int /\ j \in Int
    BY <1>1 DEF Going, Twin
  <2> HIDE DEF b, j
  <2> QED BY <2>1, ScanStepType
<1>6. /\ n \in Notes /\ m \in Notes
      /\ m.kind = n.kind /\ m.isn = n.isn /\ m.end = n.end + d
      /\ n.di \in Int /\ n.ei \in Int /\ n.si \in Int
      /\ m.di = Place(n.di, d) /\ m.ei = Place(n.ei, d) /\ m.si = Place(n.si, d)
      /\ (n.di = -1 \/ n.di >= p) /\ (n.ei = -1 \/ n.ei >= p) /\ (n.si = -1 \/ n.si >= p)
  BY <1>1, SMTT(30) DEF Going, Twin, Notes
<1>7. (m.di = -1 <=> n.di = -1) /\ (m.ei = -1 <=> n.ei = -1)
  BY <1>1, <1>6 DEF Place
<1>8. /\ m.di # -1 => (m.di = b + 1 <=> n.di = p + 1)
      /\ m.ei # -1 => (m.ei = j - 1 <=> n.ei = i - 1)
      /\ j = b <=> i = p
      /\ Place(i, d) = j
  <2>1. /\ n.di # -1 => m.di = n.di + d
        /\ n.ei # -1 => m.ei = n.ei + d
        /\ Place(i, d) = j
    BY <1>1, <1>6 DEF Place
  <2> QED BY <1>1, <1>6, <1>7, <2>1, SMTT(20)
<1> HIDE DEF r, s, x, b
<1>j. j = i + d /\ j \in Int
  BY <1>1
<1> HIDE DEF j
<1> USE DEF Notes
<1>9. CASE x \in Digits
  <2>1. s = [n EXCEPT !.isn = @ \/ i = p] /\ r = [m EXCEPT !.isn = @ \/ j = b]
    BY <1>3, <1>4, <1>9
  <2>2. Twin(r, s, d) /\ r.kind = s.kind
    BY <2>1, <1>5, <1>6, <1>8 DEF Twin
  <2> QED BY <2>2 DEF r, s, j, b
<1>10. CASE x \notin Digits /\ x = "." /\ n.di # -1
  <2>1. s = [n EXCEPT !.kind = "error"] /\ r = [m EXCEPT !.kind = "error"]
    BY <1>3, <1>4, <1>7, <1>10
  <2>2. s.kind = "error" /\ r.kind = "error"
    BY <2>1, <1>6
  <2> QED BY <2>2 DEF r, s, j, b
<1>11. CASE x \notin Digits /\ x = "." /\ n.di = -1 /\ n.isn
  <2>1. s = [n EXCEPT !.di = i] /\ r = [m EXCEPT !.di = j]
    BY <1>3, <1>4, <1>6, <1>7, <1>11
  <2>2. Twin(r, s, d) /\ r.kind = s.kind
    BY <2>1, <1>5, <1>6, <1>8 DEF Twin
  <2> QED BY <2>2 DEF r, s, j, b
<1>12. CASE x \notin Digits /\ ~(x = "." /\ n.di # -1) /\ ~(x = "." /\ n.isn) /\ x \in Letters
  <2> DEFINE l == n.isn /\ x = "e" /\ n.ei = -1
  <2>1. s = ScanLetter(p, i, n, l) /\ r = ScanLetter(b, j, m, l)
    <3>1. s = ScanLetter(p, i, n, n.isn /\ x = "e" /\ n.ei = -1)
      BY <1>3, <1>12
    <3>2. r = ScanLetter(b, j, m, m.isn /\ x = "e" /\ m.ei = -1)
      BY <1>4, <1>6, <1>7, <1>12
    <3>3. (m.isn /\ x = "e" /\ m.ei = -1) = l
      BY <1>6, <1>7
    <3> QED BY <3>1, <3>2, <3>3
  <2>2. CASE l \/ n.di = -1
    <3>1. s = [n EXCEPT !.isn = l, !.ei = IF l THEN i ELSE @]
          /\ r = [m EXCEPT !.isn = l, !.ei = IF l THEN j ELSE @]
      BY <1>7, <2>1, <2>2 DEF ScanLetter
    <3>2. Twin(r, s, d) /\ r.kind = s.kind
      <4> HIDE DEF l
      <4>1. s.kind = n.kind /\ s.isn = l /\ s.end = n.end /\ s.di = n.di /\ s.si = n.si
            /\ s.ei = IF l THEN i ELSE n.ei
        BY <3>1, <1>6
      <4>2. r.kind = m.kind /\ r.isn = l /\ r.end = m.end /\ r.di = m.di /\ r.si = m.si
            /\ r.ei = IF l THEN j ELSE m.ei
        BY <3>1, <1>6
      <4>3. r.ei = Place(s.ei, d)
        BY <4>1, <4>2, <1>6, <1>8
      <4> HIDE DEF Notes
      <4> QED BY <4>1, <4>2, <4>3, <1>5, <1>6 DEF Twin
    <3> QED BY <3>2 DEF r, s, j, b
  <2>3. CASE ~(l \/ n.di = -1)
    <3>1. s = [n EXCEPT !.kind = IF n.di = p + 1 THEN "sign" ELSE "error", !.end = i]
          /\ r = [m EXCEPT !.kind = IF n.di = p + 1 THEN "sign" ELSE "error", !.end = j]
      BY <1>7, <1>8, <2>1, <2>3 DEF ScanLetter
    <3>2. Twin(r, s, d) /\ r.kind = s.kind
      <4>1. s.kind = (IF n.di = p + 1 THEN "sign" ELSE "error") /\ s.isn = n.isn /\ s.end = i
            /\ s.di = n.di /\ s.si = n.si /\ s.ei = n.ei
        BY <3>1, <1>6
      <4>2. r.kind = (IF n.di = p + 1 THEN "sign" ELSE "error") /\ r.isn = m.isn /\ r.end = j
            /\ r.di = m.di /\ r.si = m.si /\ r.ei = m.ei
        BY <3>1, <1>6
      <4> HIDE DEF Notes
      <4> QED BY <4>1, <4>2, <1>5, <1>6, <1>j DEF Twin
    <3> QED BY <3>2 DEF r, s, j, b
  <2> QED BY <2>2, <2>3
<1>13. CASE /\ x \notin Digits /\ ~(x = "." /\ n.di # -1) /\ ~(x = "." /\ n.isn) /\ x \notin Letters
            /\ x \in {"+", "-"} /\ n.ei # -1 /\ n.ei = i - 1
  <2>1. s = [n EXCEPT !.si = i] /\ r = [m EXCEPT !.si = j]
    BY <1>3, <1>4, <1>6, <1>7, <1>8, <1>13
  <2>2. Twin(r, s, d) /\ r.kind = s.kind
    BY <2>1, <1>5, <1>6, <1>8 DEF Twin
  <2> QED BY <2>2 DEF r, s, j, b
<1>14. CASE /\ x \notin Digits /\ ~(x = "." /\ n.di # -1) /\ ~(x = "." /\ n.isn) /\ x \notin Letters
            /\ ~(x \in {"+", "-"} /\ n.ei # -1 /\ n.ei = i - 1)
  <2>1. s = Stop(n, i) /\ r = Stop(m, j)
    BY <1>3, <1>4, <1>6, <1>7, <1>8, <1>14
  <2>2. Twin(r, s, d) /\ r.kind = s.kind
    <3>1. s.kind = "stop" /\ s.isn = n.isn /\ s.end = i /\ s.di = n.di /\ s.si = n.si /\ s.ei = n.ei
      BY <2>1, <1>6 DEF Stop
    <3>2. r.kind = "stop" /\ r.isn = m.isn /\ r.end = j /\ r.di = m.di /\ r.si = m.si /\ r.ei = m.ei
      BY <2>1, <1>6 DEF Stop
    <3> HIDE DEF Notes
    <3> QED BY <3>1, <3>2, <1>5, <1>6, <1>j DEF Twin
  <2> QED BY <2>2 DEF r, s, j, b
<1> QED BY <1>9, <1>10, <1>11, <1>12, <1>13, <1>14

\* A loop that stops goes on up to there.
LEMMA StopsGo ==
  ASSUME NEW t, Len(t) \in Nat, NEW p \in Nat, NEW from \in p..Len(t), NEW n, Going(p, from, n),
         NEW e, Stops(t, p, from, n, e)
  PROVE  /\ Scans(t, p, from, n)[from] = n
         /\ \A i \in from..e - 1 :
              /\ Scans(t, p, from, n)[i + 1] = ScanStep(t, p, i, Scans(t, p, from, n)[i])
              /\ ScanStep(t, p, i, Scans(t, p, from, n)[i]).kind = "go"
<1> DEFINE s(i) == Scans(t, p, from, n)[i]
<1>1. \A i \in 0..Len(t) + 1 : s(i) = IF i <= from THEN n
                                     ELSE IF s(i - 1).kind = "go" THEN ScanStep(t, p, i - 1, s(i - 1))
                                     ELSE s(i - 1)
  BY ScansDefined DEF Going
<1>2. e \in from..Len(t) /\ \A i \in from..e : Going(p, i, s(i))
  BY DEF Stops
<1>3. from \in 0..Len(t) + 1
  OBVIOUS
<1> HIDE DEF s
<1>4. s(from) = n
  BY <1>1, <1>3
<1>5. ASSUME NEW i \in from..e - 1
      PROVE  s(i + 1) = ScanStep(t, p, i, s(i)) /\ ScanStep(t, p, i, s(i)).kind = "go"
  <2>1. i + 1 \in 0..Len(t) + 1 /\ ~(i + 1 <= from) /\ (i + 1) - 1 = i /\ i + 1 \in from..e /\ i \in from..e
    BY <1>2
  <2>2. Going(p, i, s(i)) /\ Going(p, i + 1, s(i + 1))
    BY <1>2, <2>1
  <2>3. s(i).kind = "go" /\ s(i + 1).kind = "go"
    BY <2>2 DEF Going
  <2>4. s(i + 1) = ScanStep(t, p, i, s(i))
    BY <1>1, <2>1, <2>3
  <2> QED BY <2>3, <2>4
<1> QED BY <1>4, <1>5 DEF s

\* and to their end.
LEMMA ScanMoved ==
  ASSUME NEW t, NEW u, NEW d, NEW p, NEW c, Agree(t, u, d, p, c), NEW from \in p..c,
         NEW n, Going(p, from, n), NEW m, Twin(m, n, d), Going(p + d, from + d, m),
         Scan(u, p, from, n).kind # "error", Scan(u, p, from, n).end <= c
  PROVE  Twin(Scan(t, p + d, from + d, m), Scan(u, p, from, n), d)
<1>1. /\ d \in Int /\ p \in Nat /\ p + d \in Nat /\ Len(t) \in Nat /\ Len(u) \in Nat
      /\ c \in p..Len(u) /\ c + d <= Len(t)
  BY DEF Agree
<1> DEFINE
  b == p + d
  g == from + d
  s(i) == Scans(u, p, from, n)[i]
  r(i) == Scans(t, b, g, m)[i]
<1>2. from \in p..Len(u) /\ g \in b..Len(t) /\ b \in Nat
  BY <1>1
<1>3. PICK e \in from..Len(u) : Stops(u, p, from, n, e)
  BY <1>1, <1>2, ScanStops
<1>4. PICK f \in g..Len(t) : Stops(t, b, g, m, f)
  <2> HIDE DEF b, g
  <2>1. Going(b, g, m)
    BY DEF b, g
  <2> QED BY <1>1, <1>2, <2>1, ScanStops
<1>5. /\ s(from) = n
      /\ \A i \in from..e - 1 : s(i + 1) = ScanStep(u, p, i, s(i)) /\ ScanStep(u, p, i, s(i)).kind = "go"
  <2>1. Stops(u, p, from, n, e) /\ p \in Nat /\ Len(u) \in Nat /\ from \in p..Len(u)
    BY <1>1, <1>2, <1>3
  <2> HIDE DEF b, g, r, s
  <2>2. /\ Scans(u, p, from, n)[from] = n
        /\ \A i \in from..e - 1 :
              /\ Scans(u, p, from, n)[i + 1] = ScanStep(u, p, i, Scans(u, p, from, n)[i])
              /\ ScanStep(u, p, i, Scans(u, p, from, n)[i]).kind = "go"
    BY <2>1, StopsGo
  <2> QED BY <2>2 DEF s
<1>6. /\ r(g) = m
      /\ \A i \in g..f - 1 : r(i + 1) = ScanStep(t, b, i, r(i)) /\ ScanStep(t, b, i, r(i)).kind = "go"
  <2> HIDE DEF b, g
  <2>1. Going(b, g, m)
    BY DEF b, g
  <2> QED BY <1>1, <1>2, <1>4, <2>1, StopsGo
<1>7. /\ \A i \in from..e : Going(p, i, s(i))
      /\ Scan(u, p, from, n) = ScanStep(u, p, e, s(e)) /\ Scan(u, p, from, n).kind # "go"
  BY <1>3 DEF Stops
<1>8. Scan(t, b, g, m) = ScanStep(t, b, f, r(f)) /\ Scan(t, b, g, m).kind # "go"
  BY <1>4 DEF Stops
<1> HIDE DEF s, r
<1>9. e <= c
  <2> DEFINE z == Scan(u, p, from, n)
  <2>1. z = ScanStep(u, p, e, s(e)) /\ Going(p, e, s(e)) /\ e \in p..Len(u)
    BY <1>1, <1>2, <1>3, <1>7
  <2> HIDE DEF z
  <2>2. z \in Notes /\ (z.kind = "stop" => z = Stop(s(e), e)) /\ (z.kind = "sign" => z.end = e)
    BY <1>1, <2>1, ScanStepGoes
  <2>3. z.kind \in {"stop", "sign"}
    BY <1>7, <2>2 DEF Notes, Outcomes, z
  <2>4. z.end = e
    BY <2>1, <2>2, <2>3 DEF Stop, Going, Notes
  <2> QED BY <2>4 DEF z
<1>10. ASSUME NEW i \in from..e, i + d <= f
       PROVE  Twin(r(i + d), s(i), d)
  <2> DEFINE
    D == from..i
    S == {k \in D : Twin(r(k + d), s(k), d)}
  <2>1. ASSUME NEW k \in D, \A h \in D : h < k => h \in S
        PROVE  k \in S
    <3>1. CASE k = from
      BY <3>1, <1>5, <1>6
    <3>2. CASE k > from
      <4>1. k - 1 \in D /\ k - 1 < k
        BY <3>2
      <4> DEFINE h == k - 1
      <4>2. Twin(r(h + d), s(h), d)
        BY <2>1, <4>1
      <4>3. h \in from..e - 1 /\ h \in p..c /\ h + d \in g..f - 1 /\ h + 1 = k /\ (h + d) + 1 = k + d
            /\ h \in from..e
        BY <1>1, <1>3, <1>4, <1>9, <1>10, <4>1
      <4> HIDE DEF h
      <4>4. Going(p, h, s(h)) /\ s(h + 1) = ScanStep(u, p, h, s(h)) /\ ScanStep(u, p, h, s(h)).kind = "go"
        BY <1>5, <1>7, <4>3
      <4>5. r((h + d) + 1) = ScanStep(t, b, h + d, r(h + d))
        BY <1>6, <4>3
      <4>6. Twin(ScanStep(t, b, h + d, r(h + d)), ScanStep(u, p, h, s(h)), d)
        BY <4>2, <4>3, <4>4, TwinStep
      <4> QED BY <4>3, <4>4, <4>5, <4>6
    <3> QED BY <3>1, <3>2
  <2>2. D \subseteq Nat /\ i \in D
    BY <1>1
  <2> HIDE DEF D, S
  <2>3. D \subseteq S
    BY <2>1, <2>2, Upward
  <2> QED BY <2>2, <2>3 DEF S
<1>11. ASSUME NEW i \in from..e, i + d <= f
       PROVE  /\ ScanStep(t, b, i + d, r(i + d)).kind = ScanStep(u, p, i, s(i)).kind
              /\ ScanStep(u, p, i, s(i)).kind # "error" =>
                    Twin(ScanStep(t, b, i + d, r(i + d)), ScanStep(u, p, i, s(i)), d)
  <2>1. Twin(r(i + d), s(i), d) /\ Going(p, i, s(i)) /\ i \in p..c
    BY <1>1, <1>7, <1>9, <1>10, <1>11
  <2> QED BY <2>1, TwinStep
<1>12. ~(f < e + d)
  <2> SUFFICES ASSUME f < e + d PROVE FALSE
    OBVIOUS
  <2> DEFINE i == f - d
  <2>1. i \in from..e - 1 /\ i \in from..e /\ i + d = f /\ i + d <= f
    BY <1>1, <1>3, <1>4
  <2> HIDE DEF i
  <2>2. ScanStep(u, p, i, s(i)).kind = "go"
    BY <1>5, <2>1
  <2>3. ScanStep(t, b, i + d, r(i + d)).kind = ScanStep(u, p, i, s(i)).kind
    BY <1>11, <2>1
  <2> QED BY <1>8, <2>1, <2>2, <2>3
<1>13. ~(e + d < f)
  <2> SUFFICES ASSUME e + d < f PROVE FALSE
    OBVIOUS
  <2>1. e \in from..e /\ e + d <= f /\ e + d \in g..f - 1
    BY <1>1, <1>3, <1>4
  <2>2. ScanStep(t, b, e + d, r(e + d)).kind = ScanStep(u, p, e, s(e)).kind
    BY <1>11, <2>1
  <2> QED BY <1>6, <1>7, <2>1, <2>2
<1>14. f = e + d /\ e \in from..e /\ e + d <= f
  BY <1>1, <1>3, <1>4, <1>12, <1>13
<1>15. Twin(ScanStep(t, b, e + d, r(e + d)), ScanStep(u, p, e, s(e)), d)
  BY <1>7, <1>11, <1>14
<1> QED BY <1>7, <1>8, <1>14, <1>15

\* The token k is the token l, moved.
Same(k, l, d) ==
    /\ k.type = l.type /\ k.prefix = l.prefix /\ k.quoted = l.quoted
    /\ k.start = l.start + d /\ k.end = l.end + d /\ k.curr = l.curr + d

\* A token, moved.
LEMMA SameToken ==
  ASSUME NEW type, NEW mark, NEW i, NEW j, NEW k, NEW d
  PROVE  Same(Token(type, mark, i + d, j + d, k + d), Token(type, mark, i, j, k), d)
  BY DEF Same, Token

\* The places in the notes s of a scan that began at p.
Bounded(p, s) ==
    /\ s.di = -1 \/ s.di >= p
    /\ s.ei = -1 \/ s.ei >= p
    /\ s.si = -1 \/ s.si >= p
    /\ s.end >= p /\ (s.isn => s.end > p)

\* What a scan that is no error ends with.
LEMMA ScanBounds ==
  ASSUME NEW u, Len(u) \in Nat, NEW p \in Nat, NEW from \in p..Len(u), NEW n, Going(p, from, n),
         NEW s, s = Scan(u, p, from, n), s.kind # "error"
  PROVE  s \in Notes /\ s.kind \in {"stop", "sign"} /\ Bounded(p, s)
<1>1. PICK e \in from..Len(u) : Stops(u, p, from, n, e)
  BY ScanStops
<1> DEFINE y == Scans(u, p, from, n)[e]
<1>2. s = ScanStep(u, p, e, y) /\ Going(p, e, y) /\ s.kind # "go"
  BY <1>1 DEF Stops
<1> HIDE DEF y
<1>3. e \in p..Len(u)
  BY <1>1
<1>4. s \in Notes /\ (s.kind = "stop" => s = Stop(y, e)) /\ (s.kind = "sign" => s.end = e)
  BY <1>2, <1>3, ScanStepGoes
<1>5. s.kind \in {"stop", "sign"}
  BY <1>2, <1>4 DEF Notes, Outcomes
<1>6. {y.di, y.ei, y.si} \subseteq {-1} \cup p..e - 1 /\ (y.isn => p < e) /\ y \in Notes
  BY <1>2 DEF Going
<1>7. s.di = y.di /\ s.ei = y.ei /\ s.si = y.si /\ s.end = e /\ s.isn = y.isn
  <2>1. CASE s.kind = "stop"
    BY <1>6, <1>4, <2>1 DEF Stop, Notes
  <2>2. CASE s.kind = "sign"
    <3> DEFINE x == CharAt(u, e)
    <3>1. s = IF x \in Digits THEN [y EXCEPT !.isn = @ \/ e = p]
            ELSE IF x = "." /\ y.di # -1 THEN [y EXCEPT !.kind = "error"]
            ELSE IF x = "." /\ y.isn THEN [y EXCEPT !.di = e]
            ELSE IF x \in Letters THEN ScanLetter(p, e, y, y.isn /\ x = "e" /\ y.ei = -1)
            ELSE IF x \in {"+", "-"} /\ y.ei # -1 /\ y.ei = e - 1 THEN [y EXCEPT !.si = e]
            ELSE Stop(y, e)
      BY <1>2, ScanStepIs
    <3> HIDE DEF x
    <3>2. y \in Notes /\ y.kind = "go"
      BY <1>2 DEF Going
    <3>3. s = ScanLetter(p, e, y, y.isn /\ x = "e" /\ y.ei = -1)
      BY <2>2, <3>1, <3>2 DEF Notes, Stop
    <3>4. s = [y EXCEPT !.kind = IF y.di = p + 1 THEN "sign" ELSE "error", !.end = e]
      BY <2>2, <3>2, <3>3 DEF ScanLetter, Notes
    <3> QED BY <3>2, <3>4 DEF Notes
  <2> QED BY <1>5, <2>1, <2>2
<1>8. Bounded(p, s)
  BY <1>3, <1>6, <1>7 DEF Bounded
<1> QED BY <1>4, <1>5, <1>8

\* What is made of the same notes elsewhere is the same token.
LEMMA ScannedAlike ==
  ASSUME NEW t, NEW u, NEW d \in Int, NEW p \in Nat, p + d \in Nat, At(t, p + d) = At(u, p),
         NEW r, NEW s, Twin(r, s, d), Bounded(p, s), ~ScanFails(s)
  PROVE  Same(Scanned(t, p + d, r), Scanned(u, p, s), d)
<1>0. p \in Nat /\ d \in Int
  OBVIOUS
<1>3. Scanned(u, p, s) = Token(ScannedType(s), At(u, p), p, s.end, s.end)
  BY DEF Scanned
<1>6. /\ r.kind = s.kind /\ r.isn = s.isn /\ r.end = s.end + d /\ s.end \in Int
      /\ s.di \in Int /\ s.ei \in Int /\ s.si \in Int
      /\ r.di = Place(s.di, d) /\ r.ei = Place(s.ei, d) /\ r.si = Place(s.si, d)
  BY DEF Twin, Notes
<1>7. /\ s.di = -1 \/ s.di >= p
      /\ s.ei = -1 \/ s.ei >= p
      /\ s.si = -1 \/ s.si >= p
      /\ s.end >= p /\ (s.isn => s.end > p)
  BY DEF Bounded
<1>a. p + d \in Nat
  OBVIOUS
<1>b. /\ s.di # -1 => r.di = s.di + d /\ r.di # -1
      /\ s.ei # -1 => r.ei = s.ei + d /\ r.ei # -1
      /\ s.si # -1 => r.si = s.si + d /\ r.si # -1
      /\ s.di = -1 => r.di = -1
      /\ s.ei = -1 => r.ei = -1
      /\ s.si = -1 => r.si = -1
  <2>1. ASSUME NEW x \in Int, x = -1 \/ x >= p
        PROVE  (x # -1 => Place(x, d) = x + d /\ Place(x, d) # -1) /\ (x = -1 => Place(x, d) = -1)
    BY <1>0, <1>a, <2>1 DEF Place
  <2> QED BY <1>6, <1>7, <2>1
<1>8. /\ r.di = -1 <=> s.di = -1
      /\ r.ei = -1 <=> s.ei = -1
      /\ r.si = -1 <=> s.si = -1
      /\ s.isn => (r.ei = r.end - 1 <=> s.ei = s.end - 1)
      /\ s.si # -1 => (r.si = r.end - 1 <=> s.si = s.end - 1)
      /\ s.ei # -1 => (r.di > r.ei <=> s.di > s.ei)
  <2>1. /\ r.di = -1 <=> s.di = -1
        /\ r.ei = -1 <=> s.ei = -1
        /\ r.si = -1 <=> s.si = -1
    BY <1>b
  <2>2. s.isn => (r.ei = r.end - 1 <=> s.ei = s.end - 1)
    <3>1. CASE s.ei = -1
      BY <1>0, <1>6, <1>7, <1>a, <1>b, <3>1, SMTT(20)
    <3>2. CASE s.ei # -1
      <4>1. r.ei = s.ei + d /\ r.end = s.end + d /\ s.ei \in Int /\ s.end \in Int /\ d \in Int
        BY <1>0, <1>6, <1>b, <3>2
      <4> QED BY ONLY <4>1
    <3> QED BY <3>1, <3>2
  <2>3. s.si # -1 => (r.si = r.end - 1 <=> s.si = s.end - 1)
    <3> SUFFICES ASSUME s.si # -1 PROVE r.si = r.end - 1 <=> s.si = s.end - 1
      OBVIOUS
    <3>1. r.si = s.si + d /\ r.end = s.end + d /\ s.si \in Int /\ s.end \in Int /\ d \in Int
      BY <1>0, <1>6, <1>b
    <3> QED BY ONLY <3>1
  <2>4. s.ei # -1 => (r.di > r.ei <=> s.di > s.ei)
    <3>1. CASE s.di = -1
      BY <1>0, <1>6, <1>7, <1>a, <1>b, <3>1
    <3>2. CASE s.di # -1
      BY <1>0, <1>6, <1>b, <3>2
    <3> QED BY <3>1, <3>2
  <2> QED BY <2>1, <2>2, <2>3, <2>4
<1>9. ScanFails(r) <=> ScanFails(s)
  BY <1>6, <1>8 DEF ScanFails
<1>10. ScannedType(r) = ScannedType(s)
  BY <1>6, <1>8 DEF ScannedType
<1>12. Scanned(t, p + d, r) = Token(ScannedType(s), At(u, p), p + d, s.end + d, s.end + d)
  BY <1>6, <1>9, <1>10 DEF Scanned
<1> QED BY <1>3, <1>12, SameToken

\* What is made of two scans is the same token.
LEMMA ScannedMoved ==
  ASSUME NEW t, NEW u, NEW d, NEW p, NEW c, Agree(t, u, d, p, c), p < Len(u), NEW from \in p..c,
         NEW n, Going(p, from, n), NEW m, Twin(m, n, d), Going(p + d, from + d, m),
         NEW l, l = Scanned(u, p, Scan(u, p, from, n)), l.type # "error", l.curr <= c
  PROVE  Same(Scanned(t, p + d, Scan(t, p + d, from + d, m)), l, d)
<1> DEFINE
  s == Scan(u, p, from, n)
  r == Scan(t, p + d, from + d, m)
<1>1. /\ p \in p..c /\ d \in Int /\ p \in Nat /\ p + d \in Nat /\ Len(u) \in Nat
      /\ from \in p..Len(u)
  BY DEF Agree
<1>2. l = IF ScanFails(s) THEN Fault ELSE Token(ScannedType(s), At(u, p), p, s.end, s.end)
  BY DEF Scanned
<1> HIDE DEF s, r
<1>3. ~ScanFails(s)
  BY <1>2 DEF Fault, Token
<1>4. s.kind # "error" /\ s.end <= c
  BY <1>2, <1>3 DEF Token, ScanFails
<1>5. Twin(r, s, d)
  BY <1>4, ScanMoved DEF r, s
<1>6. Bounded(p, s)
  BY <1>1, <1>4, ScanBounds DEF s
<1>7. At(t, p + d) = At(u, p)
  BY <1>1, AgreeAt
<1>8. Same(Scanned(t, p + d, r), Scanned(u, p, s), d)
  BY <1>1, <1>3, <1>5, <1>6, <1>7, ScannedAlike
<1> QED BY <1>8 DEF r, s

-----------------------------------------------------------------------------
(* The same of the other tokens. *)

\* The tokens of texts that agree are the same, kind by kind: a comment to the
\* end of the line,
LEMMA LineCommentMoved ==
  ASSUME NEW t, NEW u, NEW d, NEW p, NEW c, Agree(t, u, d, p, c), NEW i \in p + 1..c, NEW sign,
         LineComment(u, i, sign).curr <= c
  PROVE  Same(LineComment(t, i + d, sign), LineComment(u, i, sign), d)
<1>1. /\ d \in Int /\ p \in Nat /\ p + d \in Nat /\ Len(t) \in Nat /\ Len(u) \in Nat
      /\ c \in p..Len(u) /\ c + d <= Len(t)
  BY DEF Agree
<1> DEFINE
  n == Find(u, i, {"nl"})
  k == Find(t, i + d, {"nl"})
  curr == IF n < Len(u) THEN n + 1 ELSE n
  here == IF k < Len(t) THEN k + 1 ELSE k
  cr == curr > i /\ At(u, curr - 2) = "cr"
  then == here > i + d /\ At(t, here - 2) = "cr"
<1>2. LineComment(u, i, sign) = Token("COMMENT", sign, i, IF cr THEN curr - 2 ELSE curr - 1, curr)
  BY DEF LineComment
<1>3. LineComment(t, i + d, sign) =
          Token("COMMENT", sign, i + d, IF then THEN here - 2 ELSE here - 1, here)
  BY DEF LineComment
<1>4. n \in i..Len(u)
  BY <1>1, FindIn
<1>5. curr <= c
  <2> HIDE DEF curr, cr
  <2> QED BY <1>2 DEF Token
<1>6. n <= c /\ n \in p..c
  BY <1>1, <1>4, <1>5
<1>7. k = n + d
  BY <1>6, FindMoved, <1>1
<1>8. n < Len(u) <=> k < Len(t)
  BY <1>7, <1>6, AgreeAt
<1> HIDE DEF n, k
<1>9. here = curr + d /\ curr \in i..Len(u)
  BY <1>1, <1>4, <1>7, <1>8
<1> HIDE DEF curr, here
<1>10. cr <=> then
  <2>1. curr > i <=> here > i + d
    BY <1>1, <1>9
  <2>2. ASSUME curr > i
        PROVE  At(u, curr - 2) = At(t, here - 2)
    <3> DEFINE x == curr - 2
    <3>1. x \in p..c /\ x < Len(u) /\ x + d = here - 2
      BY <1>1, <1>5, <1>9, <2>2
    <3> HIDE DEF x
    <3>2. At(t, x + d) = At(u, x)
      BY <3>1, AgreeAt
    <3> QED BY <3>1, <3>2 DEF x
  <2> QED BY <2>1, <2>2
<1> DEFINE end == IF cr THEN curr - 2 ELSE curr - 1
<1>11. (IF then THEN here - 2 ELSE here - 1) = end + d
  <2> HIDE DEF cr, then
  <2> QED BY <1>1, <1>9, <1>10
<1> HIDE DEF cr, then, end
<1>12. LineComment(t, i + d, sign) = Token("COMMENT", sign, i + d, end + d, curr + d)
  BY <1>3, <1>9, <1>11
<1>13. LineComment(u, i, sign) = Token("COMMENT", sign, i, end, curr)
  BY <1>2 DEF end
<1> QED BY <1>12, <1>13, SameToken

\* a comment between its marks,
LEMMA MultiCommentMoved ==
  ASSUME NEW t, NEW u, NEW d, NEW p, NEW c, Agree(t, u, d, p, c), NEW i \in p..c,
         MultiComment(u, i).curr <= c
  PROVE  Same(MultiComment(t, i + d), MultiComment(u, i), d)
<1>1. /\ d \in Int /\ p \in Nat /\ p + d \in Nat /\ Len(t) \in Nat /\ Len(u) \in Nat
      /\ c \in p..Len(u) /\ c + d <= Len(t)
  BY DEF Agree
<1> DEFINE
  m == MultiEnd(u, i)
  n == MultiEnd(t, i + d)
  cr == m.closed \/ (m.star /\ At(u, m.curr - 1) = "/")
  then == n.closed \/ (n.star /\ At(t, n.curr - 1) = "/")
<1>2. MultiComment(u, i) = Token("COMMENT", "/*", i, IF cr THEN m.curr - 2 ELSE m.curr, m.curr)
  BY DEF MultiComment
<1>3. MultiComment(t, i + d) =
          Token("COMMENT", "/*", i + d, IF then THEN n.curr - 2 ELSE n.curr, n.curr)
  BY DEF MultiComment
<1>4. m.curr \in i..Len(u) /\ (m.star => i + 2 <= m.curr)
  <2>1. i \in 0..Len(u)
    BY <1>1
  <2>2. m \in [curr: i..Len(u), closed: BOOLEAN, star: BOOLEAN] /\ (m.star => i + 2 <= m.curr)
    BY <1>1, <2>1, MultiEndIs
  <2> HIDE DEF m
  <2> QED BY <2>2
<1>5. m.curr <= c
  <2> HIDE DEF m, cr
  <2> QED BY <1>2 DEF Token
<1>6. n.curr = m.curr + d /\ n.closed = m.closed /\ n.star = m.star
  BY <1>5, MultiEndMoved
<1> HIDE DEF m, n
<1>7. cr <=> then
  <2>1. ASSUME m.star
        PROVE  At(u, m.curr - 1) = At(t, n.curr - 1)
    <3> DEFINE x == m.curr - 1
    <3>1. x \in p..c /\ x < Len(u) /\ x + d = n.curr - 1
      BY <1>1, <1>4, <1>5, <1>6, <2>1
    <3> HIDE DEF x
    <3>2. At(t, x + d) = At(u, x)
      BY <3>1, AgreeAt
    <3> QED BY <3>1, <3>2 DEF x
  <2> QED BY <1>6, <2>1
<1> DEFINE end == IF cr THEN m.curr - 2 ELSE m.curr
<1>8. (IF then THEN n.curr - 2 ELSE n.curr) = end + d
  <2> HIDE DEF cr, then
  <2> QED BY <1>1, <1>4, <1>6, <1>7
<1> HIDE DEF cr, then, end
<1>9. MultiComment(t, i + d) = Token("COMMENT", "/*", i + d, end + d, m.curr + d)
  BY <1>3, <1>6, <1>8
<1>10. MultiComment(u, i) = Token("COMMENT", "/*", i, end, m.curr)
  BY <1>2 DEF end
<1> QED BY <1>9, <1>10, SameToken

\* a text in quotes,
LEMMA QuotedMoved ==
  ASSUME NEW t, NEW u, NEW d, NEW p, NEW c, Agree(t, u, d, p, c), NEW b \in p..c, b < Len(u),
         NEW type, type # "error", Quoted(u, b, type).type # "error", Quoted(u, b, type).curr <= c
  PROVE  Same(Quoted(t, b + d, type), Quoted(u, b, type), d)
<1>1. /\ d \in Int /\ p \in Nat /\ p + d \in Nat /\ Len(t) \in Nat /\ Len(u) \in Nat
      /\ c \in p..Len(u) /\ c + d <= Len(t)
  BY DEF Agree
<1> DEFINE
  q == At(u, b)
  e == Closing(u, b + 1, q)
  l == Quoted(u, b, type)
<1>2. At(t, b + d) = q
  BY AgreeAt
<1> HIDE DEF q
<1>3. e \in b + 1..Len(u)
  <2>1. b + 1 \in 0..Len(u)
    BY <1>1
  <2> DEFINE h == b + 1
  <2> HIDE DEF h
  <2>2. Closing(u, h, q) \in h..Len(u)
    BY <1>1, <2>1, ClosingIs DEF h
  <2> QED BY <2>2 DEF h
<1>4. l = IF e = Len(u) THEN Fault
          ELSE [type |-> type, prefix |-> q, quoted |-> type # "STRING",
                start |-> b + 1, end |-> e, curr |-> e + 1]
  BY DEF Quoted, QuotedTo, q
<1>5. l.type # "error" /\ l.curr <= c
  OBVIOUS
<1> HIDE DEF l, e
<1>6. e # Len(u)
  BY <1>4, <1>5 DEF Fault, Token
<1>7. l = [type |-> type, prefix |-> q, quoted |-> type # "STRING",
           start |-> b + 1, end |-> e, curr |-> e + 1]
  BY <1>4, <1>6
<1>8. e < c
  BY <1>1, <1>3, <1>5, <1>7
<1>9. Closing(t, (b + 1) + d, q) = e + d
  BY <1>8, ClosingMoved, <1>1, <1>3 DEF e
<1>10. e + d # Len(t)
  BY <1>1, <1>3, <1>8
<1>11. (b + d) + 1 = (b + 1) + d
  BY <1>1
<1>12. Quoted(t, b + d, type) =
           [type |-> type, prefix |-> q, quoted |-> type # "STRING",
            start |-> (b + 1) + d, end |-> e + d, curr |-> (e + d) + 1]
  <2>1. Quoted(t, b + d, type) = QuotedTo(t, b + d, type, Closing(t, (b + d) + 1, At(t, b + d)))
    BY DEF Quoted
  <2>2. Quoted(t, b + d, type) = QuotedTo(t, b + d, type, e + d)
    BY <1>2, <1>9, <1>11, <2>1
  <2> QED BY <1>2, <1>10, <1>11, <2>2 DEF QuotedTo
<1>13. (e + d) + 1 = (e + 1) + d
  BY <1>1, <1>3
<1>14. Same(Quoted(t, b + d, type), l, d)
  BY <1>7, <1>12, <1>13 DEF Same
<1> QED BY <1>14 DEF l

\* blanks,
LEMMA BlankMoved ==
  ASSUME NEW t, NEW u, NEW d, NEW p, NEW c, Agree(t, u, d, p, c), p < Len(u),
         BlankToken(u, p).curr <= c
  PROVE  Same(BlankToken(t, p + d), BlankToken(u, p), d)
<1> DEFINE
  S == Chars \ Blanks
  e == Find(u, p, S)
<1>1. p \in p..c
  BY DEF Agree
<1>2. BlankToken(u, p) = Token("BLANK", At(u, p), p, e, e)
  BY DEF BlankToken
<1> HIDE DEF S
<1>3. e <= c
  <2> HIDE DEF e
  <2> QED BY <1>2 DEF Token
<1>4. Find(t, p + d, S) = e + d
  BY <1>1, <1>3, FindMoved
<1>5. At(t, p + d) = At(u, p)
  BY <1>1, AgreeAt
<1> HIDE DEF e
<1>6. BlankToken(t, p + d) = Token("BLANK", At(u, p), p + d, e + d, e + d)
  BY <1>4, <1>5 DEF BlankToken, S
<1> QED BY <1>2, <1>6, SameToken

\* a user variable,
LEMMA UserVarMoved ==
  ASSUME NEW t, NEW u, NEW d, NEW p, NEW c, Agree(t, u, d, p, c), NEW b \in p..c,
         UserVarToken(u, b).type # "error", UserVarToken(u, b).curr <= c
  PROVE  Same(UserVarToken(t, b + d), UserVarToken(u, b), d)
<1> DEFINE
  S == Chars \ (Letters \cup Digits \cup {"."})
  e == Find(u, b, S)
  mark == IF b < Len(u) THEN At(u, b) ELSE "none"
<1>1. (b < Len(u) <=> b + d < Len(t)) /\ (b < Len(u) => At(t, b + d) = At(u, b))
  BY AgreeAt
<1>2. CASE b < Len(u) /\ At(u, b) \in Quotes
  <2>1. UserVarToken(u, b) = Quoted(u, b, "USER_VAR")
    BY <1>2 DEF UserVarToken
  <2>2. UserVarToken(t, b + d) = Quoted(t, b + d, "USER_VAR")
    BY <1>1, <1>2 DEF UserVarToken
  <2> QED BY <1>2, <2>1, <2>2, QuotedMoved
<1>3. CASE ~(b < Len(u) /\ At(u, b) \in Quotes)
  <2>1. UserVarToken(u, b) = Token("USER_VAR", mark, b, e, e)
    BY <1>3 DEF UserVarToken
  <2> HIDE DEF S
  <2>2. e <= c
    <3> HIDE DEF e
    <3> QED BY <2>1 DEF Token
  <2>3. Find(t, b + d, S) = e + d
    BY <2>2, FindMoved
  <2>4. UserVarToken(t, b + d) = Token("USER_VAR", IF b + d < Len(t) THEN At(t, b + d) ELSE "none", b + d,
                                       Find(t, b + d, S), Find(t, b + d, S))
    BY <1>1, <1>3 DEF UserVarToken, S
  <2>5. (IF b + d < Len(t) THEN At(t, b + d) ELSE "none") = mark
    BY <1>1
  <2> HIDE DEF e, mark
  <2>6. UserVarToken(t, b + d) = Token("USER_VAR", mark, b + d, e + d, e + d)
    BY <2>3, <2>4, <2>5
  <2> QED BY <2>1, <2>6, SameToken
<1> QED BY <1>2, <1>3

\* a number or an identifier,
LEMMA ParseTokenMoved ==
  ASSUME NEW t, NEW u, NEW d, NEW p, NEW c, Agree(t, u, d, p, c), p < Len(u),
         ParseToken(u, p).type # "error", ParseToken(u, p).curr <= c,
         At(u, p) = "." => p + 1 <= c
  PROVE  Same(ParseToken(t, p + d), ParseToken(u, p), d)
<1>1. /\ d \in Int /\ p \in Nat /\ p + d \in Nat /\ Len(t) \in Nat /\ Len(u) \in Nat
      /\ c \in p..Len(u) /\ c + d <= Len(t) /\ p \in p..c
  BY DEF Agree
<1> DEFINE
  b == p + d
  n == [kind |-> "go", isn |-> FALSE, end |-> p, di |-> -1, ei |-> -1, si |-> -1]
  m == [n EXCEPT !.isn = TRUE, !.di = p]
  g == [kind |-> "go", isn |-> FALSE, end |-> b, di |-> -1, ei |-> -1, si |-> -1]
  h == [g EXCEPT !.isn = TRUE, !.di = b]
  l == ParseToken(u, p)
<1>2. l = IF At(u, p) # "." THEN Scanned(u, p, Scan(u, p, p, n))
          ELSE IF p + 1 = Len(u) THEN Fault
          ELSE IF At(u, p + 1) \notin Digits THEN Token("SIGN", ".", p, p + 1, p + 1)
          ELSE Scanned(u, p, Scan(u, p, p + 1, m))
  BY DEF ParseToken
<1>3. ParseToken(t, b) =
          IF At(t, b) # "." THEN Scanned(t, b, Scan(t, b, b, g))
          ELSE IF b + 1 = Len(t) THEN Fault
          ELSE IF At(t, b + 1) \notin Digits THEN Token("SIGN", ".", b, b + 1, b + 1)
          ELSE Scanned(t, b, Scan(t, b, b + 1, h))
  BY DEF ParseToken
<1>4. At(t, b) = At(u, p)
  BY <1>1, AgreeAt
<1>5. l.type # "error" /\ l.curr <= c
  OBVIOUS
<1> HIDE DEF b, l
<1>b. b = p + d /\ b \in Nat /\ b + 1 = (p + 1) + d
  BY <1>1 DEF b
<1>6. /\ n \in Notes /\ n.kind = "go" /\ ~n.isn /\ n.end = p /\ n.di = -1 /\ n.ei = -1 /\ n.si = -1
      /\ g \in Notes /\ g.kind = "go" /\ ~g.isn /\ g.end = b /\ g.di = -1 /\ g.ei = -1 /\ g.si = -1
      /\ n.isn = g.isn
  BY <1>1, <1>b DEF Notes, Outcomes
<1> HIDE DEF n, g
<1>7. /\ m \in Notes /\ m.kind = "go" /\ m.isn = TRUE /\ m.end = p /\ m.di = p /\ m.ei = -1 /\ m.si = -1
      /\ h \in Notes /\ h.kind = "go" /\ h.isn = TRUE /\ h.end = b /\ h.di = b /\ h.ei = -1 /\ h.si = -1
  BY <1>1, <1>6, <1>b DEF Notes
<1> HIDE DEF m, h
<1>8. Going(p, p, n) /\ Going(b, b, g)
  BY <1>1, <1>6, <1>b DEF Going
<1>9. Going(p, p + 1, m) /\ Going(b, b + 1, h)
  BY <1>1, <1>7, <1>b DEF Going
<1>10. Twin(g, n, d)
  BY <1>6, <1>b DEF Twin, Place
<1>11. Twin(h, m, d)
  <2>1. h.di = Place(m.di, d) /\ h.ei = Place(m.ei, d) /\ h.si = Place(m.si, d)
    BY <1>7, <1>b, <1>1 DEF Place
  <2> QED BY <1>7, <1>b, <2>1 DEF Twin
<1>12. CASE At(u, p) # "."
  <2>1. l = Scanned(u, p, Scan(u, p, p, n)) /\ ParseToken(t, b) = Scanned(t, b, Scan(t, b, b, g))
    BY <1>2, <1>3, <1>4, <1>12
  <2> QED BY <2>1, <1>1, <1>5, <1>8, <1>10, ScannedMoved DEF l, b
<1>13. CASE At(u, p) = "."
  <2>1. p + 1 # Len(u)
    BY <1>2, <1>5, <1>13 DEF Fault, Token
  <2>2. p + 1 \in p..c /\ p + 1 < Len(u)
    BY <1>1, <1>13, <2>1
  <2>3. b + 1 < Len(t) /\ At(t, b + 1) = At(u, p + 1)
    <3> DEFINE x == p + 1
    <3> HIDE DEF x
    <3>1. x + d < Len(t) /\ At(t, x + d) = At(u, x)
      BY <2>2, AgreeAt DEF x
    <3> QED BY <1>b, <3>1 DEF x
  <2>4. CASE At(u, p + 1) \notin Digits
    <3>1. l = Token("SIGN", ".", p, p + 1, p + 1)
      BY <1>2, <1>13, <2>1, <2>4
    <3>2. ParseToken(t, b) = Token("SIGN", ".", p + d, (p + 1) + d, (p + 1) + d)
      BY <1>3, <1>4, <1>13, <1>b, <2>3, <2>4
    <3> QED BY <3>1, <3>2, SameToken DEF l, b
  <2>5. CASE At(u, p + 1) \in Digits
    <3>1. l = Scanned(u, p, Scan(u, p, p + 1, m))
      BY <1>2, <1>13, <2>1, <2>5
    <3>2. ParseToken(t, b) = Scanned(t, b, Scan(t, b, b + 1, h))
      BY <1>3, <1>4, <1>13, <2>3, <2>5
    <3> DEFINE x == p + 1
    <3>3. x \in p..c /\ Going(p, x, m) /\ Going(p + d, x + d, h) /\ l = Scanned(u, p, Scan(u, p, x, m))
      BY <1>9, <1>b, <2>2, <3>1
    <3>4. ParseToken(t, b) = Scanned(t, p + d, Scan(t, p + d, x + d, h))
      BY <1>b, <3>2
    <3> HIDE DEF x
    <3>5. Same(Scanned(t, p + d, Scan(t, p + d, x + d, h)), l, d)
      BY <1>5, <1>11, <3>3, ScannedMoved
    <3> QED BY <3>4, <3>5 DEF l, b
  <2> QED BY <2>4, <2>5
<1> QED BY <1>12, <1>13

\* and all that nexToken reads.
LEMMA NexTokenMoved ==
  ASSUME NEW t, NEW u, NEW d, NEW p, NEW c, Agree(t, u, d, p, c), p < Len(u), At(u, p) # "@",
         NexToken(u, p).type # "error", NexToken(u, p).curr <= c
  PROVE  Same(NexToken(t, p + d), NexToken(u, p), d)
<1> DEFINE
  b == p + d
  x == At(u, p)
  next == IF p + 1 < Len(u) THEN At(u, p + 1) ELSE "end"
  then == IF b + 1 < Len(t) THEN At(t, b + 1) ELSE "end"
  l == NexToken(u, p)
  k == NexToken(t, b)
  Here(type) == Token(type, x, p, p + 1, p + 1)
  There(type) == Token(type, x, b, b + 1, b + 1)
<1>1. /\ d \in Int /\ p \in Nat /\ b \in Nat /\ Len(t) \in Nat /\ Len(u) \in Nat
      /\ c \in p..Len(u) /\ c + d <= Len(t) /\ p \in p..c
      /\ t \in Seq(Chars) /\ u \in Seq(Chars)
  BY DEF Agree
<1>2. At(t, b) = x
  BY <1>1, AgreeAt
<1>3. l = CASE x \in {"-", "/"} /\ next = "end" -> Fault
            [] x = "-" /\ next = "-" -> LineComment(u, p + 2, "--")
            [] x = "/" /\ next = "/" -> LineComment(u, p + 2, "//")
            [] x = "/" /\ next = "*" -> MultiComment(u, p + 2)
            [] x = "-" /\ next \notin {"-", "end"} -> Here("OP_ARI")
            [] x = "/" /\ next \notin {"/", "*", "end"} -> Here("OP_ARI")
            [] x \in {"+", "*"} -> Here("OP_ARI")
            [] x = "#" -> LineComment(u, p + 1, "#")
            [] x \in Blanks -> BlankToken(u, p)
            [] x = "bq" -> Quoted(u, p, "ID")
            [] x \in {"sq", "dq"} -> Quoted(u, p, "STRING")
            [] x \in Signs -> Here("SIGN")
            [] OTHER -> ParseToken(u, p)
  BY DEF NexToken
<1>4. k = CASE x \in {"-", "/"} /\ then = "end" -> Fault
            [] x = "-" /\ then = "-" -> LineComment(t, b + 2, "--")
            [] x = "/" /\ then = "/" -> LineComment(t, b + 2, "//")
            [] x = "/" /\ then = "*" -> MultiComment(t, b + 2)
            [] x = "-" /\ then \notin {"-", "end"} -> There("OP_ARI")
            [] x = "/" /\ then \notin {"/", "*", "end"} -> There("OP_ARI")
            [] x \in {"+", "*"} -> There("OP_ARI")
            [] x = "#" -> LineComment(t, b + 1, "#")
            [] x \in Blanks -> BlankToken(t, b)
            [] x = "bq" -> Quoted(t, b, "ID")
            [] x \in {"sq", "dq"} -> Quoted(t, b, "STRING")
            [] x \in Signs -> There("SIGN")
            [] OTHER -> ParseToken(t, b)
  BY <1>2 DEF NexToken
<1>5. l.type # "error" /\ l.curr <= c
  OBVIOUS
<1>6. /\ l.curr \in p..Len(u) /\ (x # "other" => l.curr > p)
      /\ x \in {"-", "/"} /\ next \in {"-", "/", "*"} /\ l.type = "COMMENT" => l.curr >= p + 2
  <2>1. p \in 0..Len(u) - 1
    BY <1>1
  <2>2. Laid(u, p, l)
    BY <1>1, <2>1, NexTokenLaid
  <2> HIDE DEF l
  <2>3. l # Fault /\ p # Len(u)
    BY <1>5, <2>1 DEF Fault, Token
  <2>4. CASE CommentAt(u, p, l)
    <3>1. l.start \in {p + 1, p + 2} /\ l.curr \in l.start..Len(u)
      BY <2>4 DEF CommentAt
    <3>2. x \in {"-", "/"} => l.start = p + 2
      BY <2>4 DEF CommentAt
    <3> QED BY <1>1, <3>1, <3>2
  <2>5. CASE QuotedAt(u, p, l)
    <3>1. l.start \in {p + 1, p + 2} /\ l.end \in l.start..Len(u) - 1 /\ l.curr = l.end + 1
          /\ l.type # "COMMENT"
      BY <2>5 DEF QuotedAt
    <3> QED BY <1>1, <3>1, SMTT(20)
  <2>6. CASE PlainAt(u, p, l)
    <3>1. l.start \in {p, p + 1} /\ l.curr \in l.start..Len(u)
      BY <1>1, <2>6, PlainSpan
    <3>2. (l.type = "USER_VAR" => l.start = p + 1) /\ (l.curr = p => l.type = "USER_VAR" \/ x = "other")
          /\ l.type # "COMMENT"
      BY <1>1, <2>6 DEF PlainAt
    <3> QED BY <1>1, <3>1, <3>2
  <2> QED BY <2>2, <2>3, <2>4, <2>5, <2>6 DEF Laid
<1>7. x # "other" => next = then
  <2> SUFFICES ASSUME x # "other" PROVE next = then
    OBVIOUS
  <2> DEFINE y == p + 1
  <2>1. y \in p..c /\ y + d = b + 1
    BY <1>1, <1>5, <1>6
  <2> HIDE DEF y
  <2>2. (y < Len(u) <=> y + d < Len(t)) /\ (y < Len(u) => At(t, y + d) = At(u, y))
    BY <2>1, AgreeAt
  <2> QED BY <2>1, <2>2 DEF y
<1>8. x \in Chars
  BY <1>1, Chars1
<1>9. b + 1 = (p + 1) + d /\ b + 2 = (p + 2) + d /\ p + 1 \in Int /\ p + 2 \in Int
  BY <1>1
<1>10. \A type : Same(There(type), Here(type), d)
  BY <1>9, SameToken
<1> HIDE DEF next, then, l, k, Here, There, x
<1> USE DEF Blanks, Signs
<1>11. CASE x \in {"-", "/"} /\ next = "end"
  BY <1>5, <1>3, <1>11 DEF Fault, Token
<1>12. CASE x = "-" /\ next = "-"
  <2>1. l = LineComment(u, p + 2, "--") /\ k = LineComment(t, b + 2, "--")
    BY <1>3, <1>4, <1>7, <1>12
  <2>2. l.type = "COMMENT"
    BY <2>1 DEF LineComment, Token
  <2> DEFINE i == p + 2
  <2>3. i \in p + 1..c /\ b + 2 = i + d
    BY <1>1, <1>5, <1>6, <1>9, <1>12, <2>2
  <2> HIDE DEF i
  <2>4. Same(LineComment(t, i + d, "--"), LineComment(u, i, "--"), d)
    BY <1>5, <2>1, <2>3, LineCommentMoved DEF i
  <2> QED BY <2>1, <2>3, <2>4 DEF k, l, i, b
<1>13. CASE x = "/" /\ next = "/"
  <2>1. l = LineComment(u, p + 2, "//") /\ k = LineComment(t, b + 2, "//")
    BY <1>3, <1>4, <1>7, <1>13
  <2>2. l.type = "COMMENT"
    BY <2>1 DEF LineComment, Token
  <2> DEFINE i == p + 2
  <2>3. i \in p + 1..c /\ b + 2 = i + d
    BY <1>1, <1>5, <1>6, <1>9, <1>13, <2>2
  <2> HIDE DEF i
  <2>4. Same(LineComment(t, i + d, "//"), LineComment(u, i, "//"), d)
    BY <1>5, <2>1, <2>3, LineCommentMoved DEF i
  <2> QED BY <2>1, <2>3, <2>4 DEF k, l, i, b
<1>14. CASE x = "/" /\ next = "*"
  <2>1. l = MultiComment(u, p + 2) /\ k = MultiComment(t, b + 2)
    BY <1>3, <1>4, <1>7, <1>14
  <2>2. l.type = "COMMENT"
    BY <2>1 DEF MultiComment, Token
  <2> DEFINE i == p + 2
  <2>3. i \in p..c /\ b + 2 = i + d
    BY <1>1, <1>5, <1>6, <1>9, <1>14, <2>2
  <2> HIDE DEF i
  <2>4. Same(MultiComment(t, i + d), MultiComment(u, i), d)
    BY <1>5, <2>1, <2>3, MultiCommentMoved DEF i
  <2> QED BY <2>1, <2>3, <2>4 DEF k, l, i, b
<1>15. CASE \/ x = "-" /\ next \notin {"-", "end"}
            \/ x = "/" /\ next \notin {"/", "*", "end"}
            \/ x \in {"+", "*"}
  <2>1. l = Here("OP_ARI") /\ k = There("OP_ARI")
    BY <1>3, <1>4, <1>7, <1>15
  <2> QED BY <2>1, <1>10 DEF k, l, b
<1>16. CASE x = "#"
  <2>1. l = LineComment(u, p + 1, "#") /\ k = LineComment(t, b + 1, "#")
    BY <1>3, <1>4, <1>16
  <2> DEFINE i == p + 1
  <2>3. i \in p + 1..c /\ b + 1 = i + d
    BY <1>1, <1>5, <1>6, <1>9, <1>16
  <2> HIDE DEF i
  <2>4. Same(LineComment(t, i + d, "#"), LineComment(u, i, "#"), d)
    BY <1>5, <2>1, <2>3, LineCommentMoved DEF i
  <2> QED BY <2>1, <2>3, <2>4 DEF k, l, i, b
<1>17. CASE x \in Blanks
  <2>1. l = BlankToken(u, p) /\ k = BlankToken(t, b)
    BY <1>3, <1>4, <1>17
  <2> HIDE DEF b
  <2> QED BY <2>1, <1>5, BlankMoved DEF k, l, b
<1>18. CASE x \in {"bq", "sq", "dq"}
  <2> DEFINE type == IF x = "bq" THEN "ID" ELSE "STRING"
  <2>1. l = Quoted(u, p, type) /\ k = Quoted(t, b, type) /\ type # "error"
    BY <1>3, <1>4, <1>18
  <2> HIDE DEF type, b
  <2>2. Same(Quoted(t, p + d, type), Quoted(u, p, type), d)
    BY <2>1, <1>1, <1>5, QuotedMoved
  <2> QED BY <2>1, <2>2 DEF k, l, b
<1>19. CASE x \in Signs
  <2>1. l = Here("SIGN") /\ k = There("SIGN")
    BY <1>3, <1>4, <1>19
  <2> QED BY <2>1, <1>10 DEF k, l, b
<1>20. CASE x \in Digits \cup Letters \cup {".", "other"}
  <2>1. l = ParseToken(u, p) /\ k = ParseToken(t, b)
    BY <1>3, <1>4, <1>20 DEF Digits, Letters, Keywords
  <2>2. x = "." => p + 1 <= c
    BY <1>1, <1>5, <1>6
  <2> HIDE DEF b
  <2> QED BY <2>1, <2>2, <1>5, ParseTokenMoved DEF k, l, b, x
<1>21. x \in {"-", "/", "+", "*", "#"} \cup Blanks \cup Quotes \cup Signs
              \cup (Digits \cup Letters \cup {".", "other"})
  <2> HIDE DEF Blanks, Signs
  <2> QED BY <1>8 DEF Chars
<1> HIDE DEF Blanks, Signs
<1> QED BY <1>11, <1>12, <1>13, <1>14, <1>15, <1>16, <1>17, <1>18, <1>19, <1>20, <1>21 DEF Quotes

\* A token is the same in another text that has its characters and the next.
LEMMA LexMoved ==
  ASSUME NEW t, NEW u, NEW d, NEW p, NEW c, Agree(t, u, d, p, c),
         Lex(u, p).type # "error", Lex(u, p).curr <= c
  PROVE  Same(Lex(t, p + d), Lex(u, p), d)
<1>1. /\ d \in Int /\ p \in Nat /\ p + d \in Nat /\ Len(t) \in Nat /\ Len(u) \in Nat
      /\ c \in p..Len(u) /\ c + d <= Len(t) /\ p \in p..c
      /\ t \in Seq(Chars) /\ u \in Seq(Chars)
  BY DEF Agree
<1>2. (p = Len(u) <=> p + d = Len(t)) /\ (p < Len(u) => At(t, p + d) = At(u, p))
  BY <1>1, AgreeAt
<1>3. CASE p = Len(u)
  BY SameToken, <1>2, <1>3 DEF Lex
<1>4. CASE p < Len(u) /\ At(u, p) # "@"
  BY <1>4, NexTokenMoved, <1>2 DEF Lex
<1>5. CASE p < Len(u) /\ At(u, p) = "@"
  <2> DEFINE
    l == Lex(u, p)
    x == p + 1
  <2>1. l = IF x = Len(u) THEN Fault
            ELSE IF At(u, x) = "@" THEN Token("SIGN", "@", p, p + 2, p + 2)
            ELSE UserVarToken(u, x)
    BY <1>5 DEF Lex
  <2>2. l.type # "error" /\ l.curr <= c
    OBVIOUS
  <2>3. l.curr >= p + 1
    <3>1. p \in 0..Len(u)
      BY <1>1
    <3>2. Laid(u, p, l)
      BY <1>1, <3>1, LexLaid
    <3> HIDE DEF l
    <3>3. l # Fault /\ p # Len(u)
      BY <1>5, <2>2 DEF Fault, Token
    <3>4. CASE CommentAt(u, p, l)
      BY <1>1, <3>4 DEF CommentAt
    <3>5. CASE QuotedAt(u, p, l)
      BY <1>1, <3>5 DEF QuotedAt
    <3>6. CASE PlainAt(u, p, l)
      <4>1. l.start \in {p, p + 1} /\ l.curr \in l.start..Len(u)
        BY <1>1, <3>6, PlainSpan
      <4>2. (l.type = "USER_VAR" => l.start = p + 1)
            /\ (l.curr = p => l.type = "USER_VAR" \/ At(u, p) = "other")
        BY <1>1, <3>6 DEF PlainAt
      <4> QED BY <1>1, <1>5, <4>1, <4>2
    <3> QED BY <3>2, <3>3, <3>4, <3>5, <3>6 DEF Laid
  <2>4. x \in p..c /\ x # Len(u) /\ x + d = (p + d) + 1 /\ x < Len(u)
    <3> HIDE DEF l
    <3>1. x # Len(u)
      BY <2>1, <2>2 DEF Fault, Token
    <3>2. l.curr \in Int
      <4>1. p \in 0..Len(u)
        BY <1>1
      <4>2. Laid(u, p, l)
        BY <1>1, <4>1, LexLaid DEF l
      <4> QED BY <4>2 DEF Laid, LexTokens
    <3> QED BY <1>1, <2>2, <2>3, <3>1, <3>2
  <2> HIDE DEF x
  <2>5. x + d < Len(t) /\ At(t, x + d) = At(u, x)
    BY <2>4, AgreeAt
  <2>6. Lex(t, p + d) = IF At(u, x) = "@" THEN Token("SIGN", "@", p + d, (p + 2) + d, (p + 2) + d)
                        ELSE UserVarToken(t, x + d)
    <3>1. (p + d) + 2 = (p + 2) + d /\ p + d # Len(t) /\ x + d # Len(t)
      BY <1>1, <1>2, <1>5, <2>5
    <3>2. At(t, p + d) = "@"
      BY <1>2, <1>5
    <3> QED BY <2>4, <2>5, <3>1, <3>2 DEF Lex
  <2>7. CASE At(u, x) = "@"
    <3>1. l = Token("SIGN", "@", p, p + 2, p + 2)
      BY <2>1, <2>4, <2>7
    <3>2. Lex(t, p + d) = Token("SIGN", "@", p + d, (p + 2) + d, (p + 2) + d)
      BY <2>6, <2>7
    <3> QED BY <3>1, <3>2, SameToken
  <2>8. CASE At(u, x) # "@"
    <3>1. l = UserVarToken(u, x) /\ Lex(t, p + d) = UserVarToken(t, x + d)
      BY <2>1, <2>4, <2>6, <2>8
    <3> HIDE DEF l
    <3>2. Same(UserVarToken(t, x + d), UserVarToken(u, x), d)
      BY <2>2, <2>4, <3>1, UserVarMoved
    <3> QED BY <3>1, <3>2 DEF l
  <2> QED BY <2>7, <2>8
<1> QED BY <1>1, <1>3, <1>4, <1>5

-----------------------------------------------------------------------------
(* The tokens of a part of a text. *)

\* What is cut out of texts that agree is the same.
LEMMA SliceMoved ==
  ASSUME NEW t, NEW u, NEW d, NEW a, NEW c, Agree(t, u, d, a, c), NEW i \in a..c,
         NEW j \in Int, j <= c
  PROVE  Slice(t, i + d, j + d) = Slice(u, i, j)
<1>1. /\ d \in Int /\ a \in Nat /\ a + d \in Nat /\ Len(t) \in Nat /\ Len(u) \in Nat
      /\ c \in a..Len(u) /\ c + d <= Len(t) /\ t \in Seq(Chars) /\ u \in Seq(Chars)
  BY DEF Agree
<1> DEFINE
  g == i + d
  h == j + d
<1>2. CASE j <= i
  <2>1. i + 1 \in Int /\ j \in Int /\ j < i + 1 /\ g + 1 \in Int /\ h \in Int /\ h < g + 1
    BY <1>1, <1>2
  <2> HIDE DEF g, h
  <2>2. SubSeq(u, i + 1, j) = <<>> /\ SubSeq(t, g + 1, h) = <<>>
    BY <2>1, SubSeqEmpty
  <2> QED BY <2>2 DEF Slice, g, h
<1>3. CASE i < j
  <2> DEFINE
    x == Slice(u, i, j)
    y == Slice(t, g, h)
  <2>1. /\ i \in 0..Len(u) /\ j \in 0..Len(u) /\ g \in 0..Len(t) /\ h \in 0..Len(t)
        /\ g <= h /\ h - g = j - i /\ i <= j
    BY <1>1, <1>3
  <2>2. /\ x \in Seq(Chars) /\ Len(x) = IF i <= j THEN j - i ELSE 0
        /\ \A k \in 0..j - i - 1 : At(x, k) = At(u, i + k)
    BY <1>1, <2>1, SliceIs
  <2>3. /\ y \in Seq(Chars) /\ Len(y) = IF g <= h THEN h - g ELSE 0
        /\ \A k \in 0..h - g - 1 : At(y, k) = At(t, g + k)
    <3> HIDE DEF g, h
    <3> QED BY <1>1, <2>1, SliceIs
  <2> HIDE DEF x, y
  <2>4. Len(x) = j - i /\ Len(y) = j - i
    BY <2>1, <2>2, <2>3
  <2>5. ASSUME NEW k \in 1..Len(x)
        PROVE  x[k] = y[k]
    <3> DEFINE
      l == k - 1
      m == i + l
    <3>1. l \in 0..j - i - 1 /\ l \in 0..h - g - 1 /\ m \in a..c /\ m < Len(u) /\ m + d = g + l
          /\ l + 1 = k
      BY <1>1, <2>1, <2>4
    <3>2. At(x, l) = At(u, m)
      BY <2>2, <3>1
    <3>3. At(y, l) = At(t, g + l)
      BY <2>3, <3>1
    <3> HIDE DEF l, m
    <3>4. At(t, m + d) = At(u, m)
      BY <3>1, AgreeAt
    <3> QED BY <3>1, <3>2, <3>3, <3>4 DEF At
  <2>6. x = y
    BY <2>2, <2>3, <2>4, <2>5, SeqEqual
  <2> QED BY <2>6 DEF x, y
<1> QED BY <1>1, <1>2, <1>3

\* The token k is the token l, moved with what it says.
Moved(k, l, d) ==
    /\ k.type = l.type /\ k.prefix = l.prefix /\ k.quoted = l.quoted /\ k.says = l.says
    /\ k.at = l.at + d
    /\ l.type # "error" => k.start = l.start + d /\ k.end = l.end + d /\ k.curr = l.curr + d

\* The fields of a token with its place.
LEMMA ReadFields ==
  ASSUME NEW t, NEW p
  PROVE  /\ Read(t, p).type = Lex(t, p).type /\ Read(t, p).prefix = Lex(t, p).prefix
         /\ Read(t, p).quoted = Lex(t, p).quoted /\ Read(t, p).at = p
         /\ Read(t, p).start = Lex(t, p).start /\ Read(t, p).end = Lex(t, p).end
         /\ Read(t, p).curr = Lex(t, p).curr
         /\ Read(t, p).says = Slice(t, Lex(t, p).start, Lex(t, p).end)
<1> DEFINE l == Lex(t, p)
<1>1. Read(t, p) = [type |-> l.type, prefix |-> l.prefix, quoted |-> l.quoted, at |-> p,
                    start |-> l.start, end |-> l.end, curr |-> l.curr, says |-> Slice(t, l.start, l.end)]
  BY DEF Read, Placed
<1> HIDE DEF l
<1>2. /\ Read(t, p).type = l.type /\ Read(t, p).prefix = l.prefix
      /\ Read(t, p).quoted = l.quoted /\ Read(t, p).at = p
      /\ Read(t, p).start = l.start /\ Read(t, p).end = l.end
      /\ Read(t, p).curr = l.curr /\ Read(t, p).says = Slice(t, l.start, l.end)
  BY <1>1
<1> QED BY <1>2 DEF l

\* A token that is no fault depends on nothing before it, and on nothing but
\* one character behind it.
LEMMA ReadMoved ==
  ASSUME NEW t, NEW u, NEW d, NEW p, NEW c, Agree(t, u, d, p, c),
         Read(u, p).type # "error", Read(u, p).curr <= c
  PROVE  Moved(Read(t, p + d), Read(u, p), d)
<1>1. /\ d \in Int /\ p \in Nat /\ p + d \in Nat /\ Len(t) \in Nat /\ Len(u) \in Nat
      /\ c \in p..Len(u) /\ c + d <= Len(t) /\ t \in Seq(Chars) /\ u \in Seq(Chars)
  BY DEF Agree
<1> DEFINE
  l == Lex(u, p)
  k == Lex(t, p + d)
  r == Read(u, p)
  s == Read(t, p + d)
<1>2. /\ r.type = l.type /\ r.prefix = l.prefix /\ r.quoted = l.quoted /\ r.at = p
      /\ r.start = l.start /\ r.end = l.end /\ r.curr = l.curr /\ r.says = Slice(u, l.start, l.end)
  BY ReadFields
<1>3. /\ s.type = k.type /\ s.prefix = k.prefix /\ s.quoted = k.quoted /\ s.at = p + d
      /\ s.start = k.start /\ s.end = k.end /\ s.curr = k.curr /\ s.says = Slice(t, k.start, k.end)
  BY ReadFields
<1>4. Same(k, l, d)
  BY <1>2, LexMoved
<1>5. ReadAt(u, p, r)
  BY <1>1, ReadIs
<1>6. r.type # "error" /\ r.curr <= c
  OBVIOUS
<1> HIDE DEF l, k, r, s
<1>7. r.start >= p /\ r.end <= r.curr /\ r.start <= r.curr /\ r.start \in Int /\ r.end \in Int
      /\ r.curr \in Int
  <2>0. r.start \in Int /\ r.end \in Int /\ r.curr \in Int
    BY <1>5 DEF ReadAt, Reads
  <2>1. CASE CommentAt(u, p, r)
    BY <1>1, <2>0, <2>1, SMTT(30) DEF CommentAt
  <2>2. CASE QuotedAt(u, p, r)
    <3>1. r.start \in {p + 1, p + 2} /\ r.end \in r.start..Len(u) - 1 /\ r.curr = r.end + 1
      BY <2>2 DEF QuotedAt
    <3> QED BY <1>1, <2>0, <3>1, SMTT(20)
  <2>3. CASE PlainAt(u, p, r)
    BY <1>1, <2>0, <2>3, PlainSpan
  <2>4. CASE r.start = p /\ r.end = p /\ r.curr = p
    BY <1>1, <2>0, <2>4
  <2> QED BY <1>5, <1>6, <2>1, <2>2, <2>3, <2>4 DEF ReadAt
<1>8. Slice(t, r.start + d, r.end + d) = Slice(u, r.start, r.end)
  <2>1. r.start \in p..c /\ r.end <= c
    BY <1>1, <1>6, <1>7
  <2> QED BY <1>7, <2>1, SliceMoved
<1>9. Moved(s, r, d)
  BY <1>2, <1>3, <1>4, <1>8 DEF Moved, Same
<1> QED BY <1>9 DEF s, r

\* A text and what follows its first d characters.
LEMMA RestAgrees ==
  ASSUME NEW t \in Seq(Chars), NEW d \in 0..Len(t), NEW u, u = Slice(t, d, Len(t))
  PROVE  /\ u \in Seq(Chars) /\ Len(u) = Len(t) - d
         /\ \A p \in 0..Len(u) : Agree(t, u, d, p, Len(u))
<1> DEFINE n == Len(t)
<1>1. n \in Nat /\ d \in 0..n /\ n \in 0..n /\ d <= n
  OBVIOUS
<1>2. /\ u \in Seq(Chars) /\ Len(u) = IF d <= n THEN n - d ELSE 0
      /\ \A k \in 0..n - d - 1 : At(u, k) = At(t, d + k)
  <2> HIDE DEF n
  <2>1. /\ Slice(t, d, n) \in Seq(Chars) /\ Len(Slice(t, d, n)) = IF d <= n THEN n - d ELSE 0
        /\ \A k \in 0..n - d - 1 : At(Slice(t, d, n), k) = At(t, d + k)
    BY <1>1, SliceIs DEF n
  <2> QED BY <2>1 DEF n
<1> HIDE DEF n
<1>3. Len(u) = n - d
  BY <1>1, <1>2
<1>4. ASSUME NEW p \in 0..Len(u)
      PROVE  Agree(t, u, d, p, Len(u))
  <2>1. ASSUME NEW i \in p..Len(u)
        PROVE  (i < Len(u) <=> i + d < Len(t)) /\ (i < Len(u) => At(t, i + d) = At(u, i))
    <3>1. i < Len(u) <=> i + d < Len(t)
      BY <1>1, <1>3 DEF n
    <3>2. i < Len(u) => i \in 0..n - d - 1 /\ d + i = i + d
      BY <1>1, <1>3
    <3> QED BY <1>2, <3>1, <3>2
  <2>2. Len(u) \in p..Len(u) /\ d \in Int /\ p \in Nat /\ p + d \in Nat /\ Len(u) + d <= Len(t)
    BY <1>1, <1>3 DEF n
  <2> QED BY <1>2, <2>1, <2>2 DEF Agree
<1> QED BY <1>2, <1>3, <1>4 DEF n

\* The rest of a text is read as it is in it.
LEMMA RestRead ==
  ASSUME NEW t \in Seq(Chars), NEW d \in 0..Len(t), NEW u, u = Slice(t, d, Len(t)),
         NEW p \in 0..Len(u)
  PROVE  Moved(Read(t, p + d), Read(u, p), d)
<1>1. u \in Seq(Chars) /\ Len(u) = Len(t) - d /\ Agree(t, u, d, p, Len(u))
  BY RestAgrees
<1> DEFINE
  l == Read(u, p)
  b == p + d
  k == Read(t, b)
<1>2. b \in 0..Len(t) /\ Len(t) \in Nat /\ Len(u) \in Nat
  BY <1>1
<1>3. ReadAt(u, p, l) /\ ReadAt(t, b, k)
  <2> HIDE DEF b
  <2> QED BY <1>1, <1>2, ReadIs
<1>4. CASE l.type # "error"
  <2>1. l.curr \in p..Len(u)
    <3> HIDE DEF l
    <3> QED BY <1>1, <1>3, <1>4, ReadAhead
  <2>2. l.curr <= Len(u)
    BY <1>2, <2>1
  <2> QED BY <1>1, <1>4, <2>2, ReadMoved
<1>5. CASE l.type = "error"
  <2>1. k.type = "error"
    <3> SUFFICES ASSUME k.type # "error" PROVE FALSE
      OBVIOUS
    <3>1. k.curr \in b..Len(t)
      <4> HIDE DEF k, b
      <4> QED BY <1>2, <1>3, ReadAhead
    <3>2. Agree(u, t, -d, b, Len(u) + d)
      BY <1>1, AgreeBack
    <3> DEFINE
      e == -d
      c == Len(u) + d
    <3>3. k.curr <= c
      BY <1>1, <1>2, <3>1
    <3>4. b + e = p
      BY <1>1, <1>2
    <3> HIDE DEF b, e, c
    <3>5. Moved(Read(u, b + e), Read(t, b), e)
      BY <3>2, <3>3, ReadMoved DEF c, e
    <3> QED BY <1>5, <3>4, <3>5 DEF Moved
  <2> HIDE DEF l, k
  <2>2. /\ l.prefix = "none" /\ k.prefix = "none" /\ ~l.quoted /\ ~k.quoted /\ l.at = p /\ k.at = b
    BY <1>3, <1>5, <2>1 DEF ReadAt, CommentAt, QuotedAt, PlainAt
  <2>3. l.quoted = k.quoted
    BY <2>2, <1>3 DEF ReadAt, Reads
  <2>4. l.says = <<>> /\ k.says = <<>>
    <3>1. Lex(u, p) = Fault /\ Lex(t, b) = Fault
      <4>1. Laid(u, p, Lex(u, p)) /\ Laid(t, b, Lex(t, b))
        <5> HIDE DEF b
        <5> QED BY <1>1, <1>2, LexLaid
      <4>2. Lex(u, p).type = "error" /\ Lex(t, b).type = "error"
        BY <1>5, <2>1, ReadFields DEF l, k
      <4> QED BY <4>1, <4>2 DEF Laid, CommentAt, QuotedAt, PlainAt, Token
    <3>2. Fault.start = 0 /\ Fault.end = 0
      BY DEF Fault, Token
    <3>3. l.says = Slice(u, 0, 0) /\ k.says = Slice(t, 0, 0)
      BY <3>1, <3>2, ReadFields DEF l, k
    <3> QED BY <3>3, SliceNone
  <2>5. Moved(k, l, d)
    BY <1>5, <2>1, <2>2, <2>3, <2>4 DEF Moved
  <2> QED BY <2>5 DEF k, l
<1> QED BY <1>4, <1>5

\* Moved, the last token is the last.
LEMMA MovedFinal ==
  ASSUME NEW k, NEW l, NEW d \in Int, Moved(k, l, d), l.at \in Int, l.curr \in Int
  PROVE  IsFinal(k) <=> IsFinal(l)
<1>1. CASE l.type = "error"
  BY <1>1 DEF Moved, IsFinal
<1>2. CASE l.type # "error"
  <2>1. k.type = l.type /\ k.at = l.at + d /\ k.curr = l.curr + d
    BY <1>2 DEF Moved
  <2>2. k.curr = k.at <=> l.curr = l.at
    <3>1. l.at \in Int /\ l.curr \in Int /\ d \in Int /\ k.at = l.at + d /\ k.curr = l.curr + d
      BY <2>1
    <3> QED BY ONLY <3>1
  <2> QED BY <2>1, <2>2 DEF IsFinal
<1> QED BY <1>1, <1>2

\* The end of a text is read as that.
LEMMA ReadEnd ==
  ASSUME NEW t, NEW p, p = Len(t)
  PROVE  Read(t, p).type = "EOS"
<1>1. Lex(t, p) = Token("EOS", "none", p, p, p)
  BY DEF Lex
<1>2. Lex(t, p).type = "EOS"
  BY <1>1 DEF Token
<1> QED BY <1>2, ReadFields

\* The tokens of the rest of a text that begins at a token are those that are left.
LEMMA RestWalk ==
  ASSUME NEW t \in Seq(Chars), NEW w, IsWalk(t, 0, w), NEW h \in 0..Len(w) - 1,
         NEW d, d = w[h + 1].at, NEW u, u = Slice(t, d, Len(t)), NEW v, IsWalk(u, 0, v)
  PROVE  /\ Len(w) = h + Len(v)
         /\ \A k \in 1..Len(v) : Moved(w[h + k], v[k], d)
<1>0. 0 \in 0..Len(t)
  OBVIOUS
<1>1. /\ Len(w) \in Nat /\ \A k \in 1..Len(w) : w[k].at \in 0..Len(t) /\ w[k] = Read(t, w[k].at)
                                                   /\ ReadAt(t, w[k].at, w[k])
  BY <1>0, WalkPlaces
<1>2. \A k \in 1..Len(w) - 1 : w[k + 1].at = w[k].curr /\ ~IsFinal(w[k])
  <2>1. \A k \in 1..Len(w) - 1 :
          w[k + 1].at = w[k].curr /\ w[k].curr \in w[k].at + 1..Len(t) /\ ~IsFinal(w[k])
    BY <1>0, WalkPlaces
  <2> QED BY <2>1
<1>3. d \in 0..Len(t) /\ h + 1 \in 1..Len(w)
  BY <1>1
<1>4. u \in Seq(Chars) /\ Len(u) = Len(t) - d /\ 0 \in 0..Len(u)
  BY <1>3, RestAgrees
<1>5. /\ Len(v) \in Nat /\ Len(v) > 0 /\ v[1].at = 0
      /\ \A k \in 1..Len(v) : v[k].at \in 0..Len(u) /\ v[k] = Read(u, v[k].at) /\ ReadAt(u, v[k].at, v[k])
      /\ IsFinal(v[Len(v)])
  BY <1>4, WalkPlaces
<1>6. \A k \in 1..Len(v) - 1 : /\ v[k + 1].at = v[k].curr /\ ~IsFinal(v[k])
                               /\ v[k].curr \in 0..Len(u)
  <2>1. \A k \in 1..Len(v) - 1 :
          v[k + 1].at = v[k].curr /\ v[k].curr \in v[k].at + 1..Len(u) /\ ~IsFinal(v[k])
    BY <1>4, WalkPlaces
  <2>2. ASSUME NEW k \in 1..Len(v) - 1
        PROVE  v[k].curr \in 0..Len(u)
    <3>1. v[k].at \in 0..Len(u)
      BY <1>5
    <3>2. v[k].curr \in v[k].at + 1..Len(u)
      BY <2>1
    <3> QED BY <3>1, <3>2
  <2> QED BY <2>1, <2>2
<1>7. ASSUME NEW k \in 1..Len(v), h + k \in 1..Len(w), Moved(w[h + k], v[k], d)
      PROVE  IsFinal(w[h + k]) <=> IsFinal(v[k])
  <2>1. ReadAt(u, v[k].at, v[k]) /\ d \in Int
    BY <1>3, <1>5
  <2>2. v[k] \in Reads
    BY <2>1 DEF ReadAt
  <2>3. v[k].at \in Int /\ v[k].curr \in Int
    BY <2>2 DEF Reads
  <2> QED BY <1>7, <2>1, <2>3, MovedFinal, SMTT(20)
<1> DEFINE
  D == 1..Len(v)
  S == {k \in D : h + k \in 1..Len(w) /\ Moved(w[h + k], v[k], d)}
<1>8. ASSUME NEW k \in D, \A j \in D : j < k => j \in S
      PROVE  k \in S
  <2>1. CASE k = 1
    <3>1. v[1] = Read(u, 0) /\ w[h + 1] = Read(t, 0 + d)
      <4>1. v[1] = Read(u, v[1].at)
        BY <1>5
      <4>2. w[h + 1] = Read(t, d) /\ 0 + d = d
        BY <1>1, <1>3
      <4> QED BY <1>5, <4>1, <4>2
    <3>2. Moved(w[h + 1], v[1], d)
      BY <1>3, <1>4, <3>1, RestRead
    <3> QED BY <1>3, <2>1, <3>2
  <2>2. CASE k > 1
    <3> DEFINE
      j == k - 1
      x == h + j
    <3>1. j \in D /\ j < k /\ j \in 1..Len(v) - 1 /\ j + 1 = k /\ x + 1 = h + k
      BY <2>2, <1>5
    <3>2. x \in 1..Len(w) /\ Moved(w[x], v[j], d)
      BY <1>8, <3>1
    <3> HIDE DEF j, x
    <3>3. v[k].at = v[j].curr /\ ~IsFinal(v[j]) /\ v[j].curr \in 0..Len(u)
      BY <1>6, <3>1
    <3>4. ~IsFinal(w[x])
      BY <1>7, <3>1, <3>2, <3>3 DEF x
    <3>5. x # Len(w)
      BY <3>4, <1>0, WalkPlaces
    <3>6. x \in 1..Len(w) - 1 /\ x + 1 \in 1..Len(w)
      BY <1>1, <3>2, <3>5
    <3>7. w[x + 1].at = w[x].curr /\ w[x + 1] = Read(t, w[x + 1].at)
      BY <1>1, <1>2, <3>6
    <3>8. w[x].curr = v[j].curr + d
      BY <3>2, <3>3 DEF Moved, IsFinal
    <3>9. w[h + k] = Read(t, v[j].curr + d) /\ v[k] = Read(u, v[j].curr)
      BY <3>1, <3>3, <3>7, <3>8, <1>5
    <3>10. Moved(w[h + k], v[k], d)
      BY <1>3, <1>4, <3>3, <3>9, RestRead
    <3> QED BY <3>1, <3>6, <3>10
  <2> QED BY <2>1, <2>2
<1>9. D \subseteq Nat /\ Len(v) \in D
  BY <1>5
<1> HIDE DEF D, S
<1>10. D \subseteq S
  BY <1>8, <1>9, Upward
<1>11. \A k \in D : h + k \in 1..Len(w) /\ Moved(w[h + k], v[k], d)
  BY <1>10 DEF S
<1>12. Len(w) = h + Len(v)
  <2> DEFINE x == h + Len(v)
  <2>1. x \in 1..Len(w) /\ IsFinal(w[x])
    BY <1>5, <1>7, <1>9, <1>11 DEF D
  <2> HIDE DEF x
  <2>2. x \notin 1..Len(w) - 1
    BY <1>2, <2>1
  <2> QED BY <1>1, <2>1, <2>2 DEF x
<1> QED BY <1>11, <1>12 DEF D

\* What follows the end of a text says nothing.
Silent(l, n) == ~IsSolid(l) \/ l.type = "EOS" \/ (IsSign(l, "semi") /\ l.curr = n)

\* A lone semicolon the parser passes over is the last token but the end.
LEMMA EndOfAll ==
  ASSUME NEW t \in Seq(Chars), NEW p \in 0..Len(t), NEW l, ReadAt(t, p, l), AtEnd(l, Len(t))
  PROVE  l.type = "EOS" \/ (IsSign(l, "semi") /\ l.curr = Len(t))
<1> SUFFICES ASSUME l.type # "EOS" PROVE IsSign(l, "semi") /\ l.curr = Len(t)
  OBVIOUS
<1>1. l.type # "error" /\ l.curr >= Len(t) /\ l.prefix = "semi"
  BY DEF AtEnd
<1>2. l.type # "error" => l.curr \in p..Len(t)
  BY ReadAhead
<1>3. l.curr = Len(t)
  BY <1>1, <1>2
<1>4. p < Len(t) /\ PlainAt(t, p, l)
  <2>1. ~CommentAt(t, p, l)
    BY <1>1 DEF CommentAt
  <2>2. ~QuotedAt(t, p, l)
    BY <1>1 DEF QuotedAt, Quotes
  <2> QED BY <1>1, <2>1, <2>2 DEF ReadAt
<1>5. "semi" \in Signs /\ "semi" \notin Blanks
  BY DEF Signs, Blanks
<1>6. l.type = "SIGN"
  <2>1. l.type # "USER_VAR" \/ l.curr < Len(t)
    BY <1>1, <1>4 DEF PlainAt
  <2>2. l.type # "USER_VAR"
    BY <1>3, <2>1
  <2>3. l.type # "BLANK"
    <3> SUFFICES ASSUME l.type = "BLANK" PROVE FALSE
      OBVIOUS
    <3>1. l.curr > p /\ l.prefix = At(t, p) /\ \A j \in p..l.curr - 1 : At(t, j) \in Blanks
      BY <1>4 DEF PlainAt
    <3>2. p \in p..l.curr - 1
      BY <1>3, <1>4
    <3> QED BY <1>1, <1>5, <3>1, <3>2
  <2> QED BY <1>1, <1>4, <1>5, <2>2, <2>3 DEF PlainAt
<1> QED BY <1>1, <1>3, <1>6 DEF IsSign

\* So it is after the last statement, which ended with the token e.
LEMMA RestSilent ==
  ASSUME NEW t \in Seq(Chars), NEW w, IsWalk(t, 0, w), NEW e \in 1..Len(w), IsEnd(w[e]),
         AtEnd(w[After(w, e)], Len(t)),
         NEW u, u = Slice(t, w[e].end, Len(t)), NEW l \in Range(Walk(u))
  PROVE  Silent(l, Len(u))
<1>0. 0 \in 0..Len(t)
  OBVIOUS
<1> DEFINE
  d == w[e].end
  v == Walk(u)
<1>1. /\ Len(w) \in Nat
      /\ \A k \in 1..Len(w) : w[k].at \in 0..Len(t) /\ w[k] = Read(t, w[k].at) /\ ReadAt(t, w[k].at, w[k])
  BY <1>0, WalkPlaces
<1>2. /\ d = w[e].curr /\ d \in 0..Len(t) /\ (w[e].type = "EOS" => d = Len(t))
      /\ (w[e].type # "EOS" => d > w[e].at)
  BY EndAt, <1>1
<1>3. u \in Seq(Chars) /\ Len(u) = Len(t) - d /\ 0 \in 0..Len(u)
  <2>1. u \in Seq(Chars) /\ Len(u) = Len(t) - d
    <3> HIDE DEF d
    <3> QED BY <1>2, RestAgrees DEF d
  <2> QED BY <1>2, <2>1
<1>4. IsWalk(u, 0, v)
  BY <1>3, WalksAre DEF Walk
<1>5. PICK k \in 1..Len(v) : l = v[k]
  BY <1>4 DEF IsWalk, Range
<1> HIDE DEF v
<1>6. ReadAt(u, l.at, l) /\ l.at \in 0..Len(u)
  BY <1>3, <1>4, <1>5, WalkPlaces
<1>7. CASE e = Len(w)
  <2>1. IsFinal(w[e])
    BY <1>0, <1>7, WalkPlaces
  <2>2. w[e].type = "EOS"
    <3>1. w[e].type \notin {"EOS", "error"} => w[e].curr = w[e].at
      BY <2>1 DEF IsFinal
    <3>2. w[e].type # "error"
      BY DEF IsEnd, IsSign
    <3> QED BY <1>1, <1>2, <3>1, <3>2
  <2>3. Len(u) = 0
    BY <1>2, <1>3, <2>2
  <2>4. l.at = Len(u) /\ l = Read(u, l.at)
    BY <1>6, <2>3, <1>3, <1>4, <1>5, WalkPlaces
  <2>5. l.type = "EOS"
    BY <2>4, ReadEnd
  <2> QED BY <2>5 DEF Silent
<1>8. CASE e < Len(w)
  <2>1. e \in 1..Len(w) - 1
    BY <1>8
  <2>2. w[e + 1].at = d
    BY <1>2, <1>0, <2>1, WalkPlaces
  <2>3. Len(w) = e + Len(v) /\ Moved(w[e + k], v[k], d)
    <3>1. e \in 0..Len(w) - 1
      BY <1>8
    <3> HIDE DEF d
    <3>2. Len(w) = e + Len(v) /\ \A i \in 1..Len(v) : Moved(w[e + i], v[i], d)
      BY <1>4, <2>2, <3>1, RestWalk DEF d
    <3> QED BY <1>5, <3>2
  <2> DEFINE
    x == e + k
    a == After(w, e)
  <2>4. Ended(w)
    BY <1>0, WalkEnded
  <2>5. a \in 1..Len(w) /\ e < a /\ \A i \in e + 1..a - 1 : ~IsSolid(w[i])
    BY <1>8, <2>4, AfterIs
  <2> HIDE DEF a
  <2>6. w[x].type = l.type /\ w[x].prefix = l.prefix /\ x \in e + 1..Len(w)
    BY <1>1, <1>5, <2>3 DEF Moved
  <2>7. CASE x < a
    BY <2>6, <2>5, <2>7 DEF IsSolid, Silent
  <2>8. w[a].type = "EOS" \/ (IsSign(w[a], "semi") /\ w[a].curr = Len(t))
    BY EndOfAll, <1>1, <2>5 DEF a
  <2>9. CASE x = a
    <3>1. CASE w[a].type = "EOS"
      BY <2>6, <2>9, <3>1 DEF Silent
    <3>2. CASE IsSign(w[a], "semi") /\ w[a].curr = Len(t)
      <4>1. l.type = "SIGN" /\ l.prefix = "semi"
        BY <2>6, <2>9, <3>2 DEF IsSign
      <4>2. w[x].curr = l.curr + d
        BY <1>5, <2>3, <4>1 DEF Moved
      <4>3. l.curr \in Int
        BY <1>6 DEF ReadAt, Reads
      <4>4. l.curr = Len(u)
        <5>1. l.curr + d = Len(t) /\ d \in Int /\ Len(u) = Len(t) - d /\ Len(t) \in Int
          BY <1>2, <1>3, <2>9, <3>2, <4>2
        <5> HIDE DEF d
        <5> QED BY ONLY <4>3, <5>1
      <4> QED BY <4>1, <4>4 DEF Silent, IsSign
    <3> QED BY <2>8, <3>1, <3>2
  <2>10. CASE x > a
    <3>1. a \in 1..Len(w) - 1 /\ ~IsFinal(w[a])
      BY <1>0, WalkPlaces, <1>1, <2>5, <2>6, <2>10
    <3>2. w[a].curr = Len(t)
      BY <2>8, <3>1 DEF IsFinal
    <3>3. w[a].curr <= w[x].at
      <4>1. x \in a..Len(w)
        BY <1>1, <2>5, <2>6, <2>10
      <4> HIDE DEF x
      <4> QED BY <1>0, <2>5, <2>10, <4>1, WalkForward
    <3>4. x \in 1..Len(w)
      BY <1>1, <2>6
    <3> HIDE DEF x
    <3>5. w[x].at = Len(t) /\ w[x] = Read(t, w[x].at)
      BY <3>2, <3>3, <1>1, <3>4
    <3>6. w[x].type = "EOS"
      BY <3>5, ReadEnd
    <3> QED BY <2>6, <3>6 DEF Silent
  <2> QED BY <1>1, <2>5, <2>6, <2>7, <2>9, <2>10
<1> QED BY <1>7, <1>8

-----------------------------------------------------------------------------
(* The statements of a query. *)

\* Once a query is answered its statements are what its text is parsed to.
StmtsOK ==
    /\ TextOK
    /\ answer = "none" => stmts = <<>>
    /\ answer # "none" => stmts = Parse(text).stmts
    /\ answer = "parsed" => Parse(text).ok /\ stmts # <<>>

\* The statements are those of the text, or none yet.
LEMMA StmtsAlways == Spec => []StmtsOK
<1>1. Init => StmtsOK
  BY DEF Init, StmtsOK, TextOK
<1>2. StmtsOK /\ TextOK' /\ [Next]_vars => StmtsOK'
  <2> SUFFICES ASSUME StmtsOK, TextOK', [Next]_vars PROVE StmtsOK'
    OBVIOUS
  <2>1. ASSUME NEW f \in UNION Range(Fragments), Write(f)
        PROVE  StmtsOK'
    BY <2>1 DEF Write, StmtsOK
  <2>2. CASE Query
    <3> DEFINE p == Parse(text)
    <3>1. /\ text' = text /\ stmts' = p.stmts
          /\ answer' = CASE text = <<>> \/ ~p.ok -> "refused"
                         [] p.stmts = <<>> -> "empty"
                         [] OTHER -> "parsed"
      BY <2>2 DEF Query
    <3>2. p' = Parse(text)'
      OBVIOUS
    <3>3. Parse(text)' = Parse(text)
      BY <3>1
    <3> HIDE DEF p
    <3>4. answer' # "none" /\ (answer' = "parsed" => p.ok /\ p.stmts # <<>>)
      BY <3>1
    <3> QED BY <3>1, <3>3, <3>4 DEF StmtsOK, p
  <2>3. CASE Execute \/ UNCHANGED vars
    <3>1. UNCHANGED <<text, answer, stmts>>
      BY <2>3 DEF Execute, vars
    <3>2. Parse(text)' = Parse(text)
      BY <3>1
    <3> QED BY <3>1, <3>2 DEF StmtsOK
  <2> QED BY <2>1, <2>2, <2>3 DEF Next
<1> QED BY <1>1, <1>2, TextAlways, PTL DEF Spec

\* What Parse accepts is read statement by statement.
LEMMA ParseTracked ==
  ASSUME NEW t \in Seq(Chars)
  PROVE  /\ IsWalk(t, 0, Walk(t)) /\ Ended(Walk(t)) /\ After(Walk(t), 0) \in 1..Len(Walk(t))
         /\ ~Parse(t).ok => Parse(t).stmts = <<>>
         /\ Parse(t).ok => \E f : /\ Tracks(Walk(t), Len(t), Parse(t).stmts, f)
                                  /\ f[1] = After(Walk(t), 0)
<1> DEFINE
  w == Walk(t)
  i == After(w, 0)
<1>0. 0 \in 0..Len(t)
  OBVIOUS
<1>1. IsWalk(t, 0, w)
  BY <1>0, WalksAre DEF Walk
<1> HIDE DEF w
<1>2. Ended(w) /\ 0 \in 0..Len(w)
  BY <1>0, <1>1, WalkEnded DEF Ended
<1>3. i \in 1..Len(w)
  BY <1>2, AfterIs
<1>4. Parse(t) = Statements(w, Len(t))[i]
  BY DEF Parse, ParseWalk, w
<1> HIDE DEF i
<1>5. ~Parse(t).ok => Parse(t).stmts = <<>>
  BY <1>2, <1>3, <1>4, StatementsRefused
<1>6. Parse(t).ok => \E f : Tracks(w, Len(t), Parse(t).stmts, f) /\ f[1] = i
  BY <1>2, <1>3, <1>4, StatementsTracked
<1> QED BY <1>1, <1>2, <1>3, <1>5, <1>6 DEF w, i

\* What follows the last statement is silent.
LEMMA StatementsSilent ==
  ASSUME NEW t \in Seq(Chars), NEW w, IsWalk(t, 0, w),
         NEW ss, NEW f, Tracks(w, Len(t), ss, f), ss # <<>>,
         NEW u, u = Slice(t, ss[Len(ss)].end, Len(t)), NEW l \in Range(Walk(u))
  PROVE  Silent(l, Len(u))
<1> DEFINE
  k == Len(ss)
  g == f[k]
<1>0. 0 \in 0..Len(t)
  OBVIOUS
<1>1. Ended(w) /\ Len(w) \in Nat
  BY <1>0, WalkEnded, WalkPlaces
<1>2. k \in 1..Len(ss)
  BY DEF Tracks
<1>3. /\ g \in 1..Len(w) /\ Select(w, g).next # 0
      /\ ss[k] = Select(w, g).node /\ f[k + 1] = Select(w, g).next
  BY <1>2 DEF Tracks
<1>4. AtEnd(w[f[k + 1]], Len(t))
  BY DEF Tracks
<1> HIDE DEF k, g
<1>5. PICK e \in g + 1..Len(w) : IsEnd(w[e]) /\ Select(w, g).node.end = w[e].end
                                   /\ Select(w, g).next = After(w, e)
  BY <1>1, <1>3, SelectIs
<1>6. e \in 1..Len(w) /\ AtEnd(w[After(w, e)], Len(t)) /\ u = Slice(t, w[e].end, Len(t))
  BY <1>1, <1>3, <1>4, <1>5 DEF k
<1> QED BY <1>5, <1>6, RestSilent

\* Statements follow each other in the text with nothing but blanks and their own
\* comments between them, and what follows the last says nothing.
THEOREM StatementsTiled == Spec => []StatementsTile
<1>1. StmtsOK => StatementsTile
  <2> SUFFICES ASSUME StmtsOK PROVE StatementsTile
    OBVIOUS
  <2> DEFINE w == Walk(text)
  <2>1. text \in Seq(Chars)
    BY DEF StmtsOK, TextOK
  <2>2. IsWalk(text, 0, w)
    BY <2>1, ParseTracked
  <2>3. CASE stmts = <<>>
    BY <2>3 DEF StmtsOK, StatementsTile
  <2>4. CASE stmts # <<>>
    <3>1. stmts = Parse(text).stmts /\ Parse(text).ok
      BY <2>1, <2>4, ParseTracked DEF StmtsOK
    <3>2. PICK f : Tracks(w, Len(text), stmts, f) /\ f[1] = After(w, 0)
      BY <2>1, <3>1, ParseTracked
    <3> HIDE DEF w
    <3>3. DOMAIN stmts = 1..Len(stmts)
      BY <3>2 DEF Tracks
    <3>4. ASSUME NEW k \in DOMAIN stmts
          PROVE  /\ EndBefore(k) <= stmts[k].start
                 /\ \A j \in EndBefore(k)..stmts[k].start - 1 : Between(text, stmts[k].comments, j)
      <4>1. EndBefore(k) = EndOf(stmts, k)
        BY DEF EndBefore, EndOf
      <4> QED BY <2>1, <2>2, <3>2, <3>3, <4>1, StatementsBetween
    <3>5. ASSUME NEW rest \in {Slice(text, stmts[Len(stmts)].end, Len(text))},
                 NEW l \in Range(Walk(rest))
          PROVE  Silent(l, Len(rest))
      BY <2>1, <2>2, <2>4, <3>2, StatementsSilent
    <3> QED BY <3>4, <3>5 DEF StatementsTile, Between, Silent
  <2> QED BY <2>3, <2>4
<1> QED BY <1>1, StmtsAlways, PTL

-----------------------------------------------------------------------------
(* The parser reads tokens that stand elsewhere as the same. *)

\* The first n tokens of v are those of w behind the h-th, which is not one the
\* parser passes over. If they are all of v, nothing follows them in w.
Aligned(w, v, h, d, n) ==
    /\ Ended(w) /\ Ended(v) /\ h \in Nat /\ d \in Int /\ n \in 0..Len(v) /\ h + n <= Len(w)
    /\ (h > 0 => IsSolid(w[h])) /\ (n = Len(v) => h + n = Len(w))
    /\ \A k \in 1..n : Moved(w[h + k], v[k], d) /\ v[k].start \in Nat

MovedBy(r, d) == [r EXCEPT !.start = @ + d, !.end = @ + d]

MovedLimit(r, d) ==
    [MovedBy(r, d) EXCEPT !.rows = @ + d, !.offset = IF @ = -1 THEN -1 ELSE @ + d]

MovedList(q, d) == [i \in DOMAIN q |-> MovedBy(q[i], d)]

\* The fields of what is moved.
LEMMA NodeMoved ==
  ASSUME NEW kind, NEW name, NEW scope, NEW start, NEW end, NEW d,
         NEW r, r = [kind |-> kind, name |-> name, scope |-> scope, start |-> start, end |-> end]
  PROVE  MovedBy(r, d) = [kind |-> kind, name |-> name, scope |-> scope,
                          start |-> start + d, end |-> end + d]
<1> DEFINE s == [r EXCEPT !.start = @ + d]
<1>1. s = [kind |-> kind, name |-> name, scope |-> scope, start |-> start + d, end |-> end]
  OBVIOUS
<1>2. MovedBy(r, d) = [s EXCEPT !.end = @ + d]
  BY <1>1 DEF MovedBy
<1> HIDE DEF s
<1> QED BY <1>1, <1>2

\* The same of a comment,
LEMMA MarkMoved ==
  ASSUME NEW sign, NEW start, NEW end, NEW d,
         NEW r, r = [sign |-> sign, start |-> start, end |-> end]
  PROVE  MovedBy(r, d) = [sign |-> sign, start |-> start + d, end |-> end + d]
<1> DEFINE s == [r EXCEPT !.start = @ + d]
<1>1. s = [sign |-> sign, start |-> start + d, end |-> end]
  OBVIOUS
<1>2. MovedBy(r, d) = [s EXCEPT !.end = @ + d]
  BY <1>1 DEF MovedBy
<1> HIDE DEF s
<1> QED BY <1>1, <1>2

\* and of a LIMIT.
LEMMA LimitMovedBy ==
  ASSUME NEW rows, NEW offset, NEW start, NEW end, NEW d,
         NEW r, r = [rows |-> rows, offset |-> offset, start |-> start, end |-> end]
  PROVE  MovedLimit(r, d) = [rows |-> rows + d, offset |-> IF offset = -1 THEN -1 ELSE offset + d,
                             start |-> start + d, end |-> end + d]
<1> DEFINE
  s == [r EXCEPT !.start = @ + d]
  x == [s EXCEPT !.end = @ + d]
  y == [x EXCEPT !.rows = @ + d]
<1>1. s = [rows |-> rows, offset |-> offset, start |-> start + d, end |-> end]
  OBVIOUS
<1>2. MovedBy(r, d) = x
  BY <1>1 DEF MovedBy
<1> HIDE DEF s
<1>3. x = [rows |-> rows, offset |-> offset, start |-> start + d, end |-> end + d]
  BY <1>1
<1>4. MovedLimit(r, d) = [y EXCEPT !.offset = IF @ = -1 THEN -1 ELSE @ + d]
  BY <1>2, <1>3 DEF MovedLimit
<1> HIDE DEF x
<1>5. y = [rows |-> rows + d, offset |-> offset, start |-> start + d, end |-> end + d]
  BY <1>3
<1> HIDE DEF y
<1> QED BY <1>4, <1>5

\* What is the same of a token that stands elsewhere.
LEMMA AlignedToken ==
  ASSUME NEW w, NEW v, NEW h, NEW d, NEW n, Aligned(w, v, h, d, n), NEW k \in 1..n
  PROVE  /\ h + k \in 1..Len(w) /\ k \in 1..Len(v) /\ w[h + k] \in Reads /\ v[k] \in Reads
         /\ Moved(w[h + k], v[k], d)
         /\ \A c : IsSign(w[h + k], c) <=> IsSign(v[k], c)
         /\ \A c : IsWord(w[h + k], c) <=> IsWord(v[k], c)
         /\ IsSolid(w[h + k]) <=> IsSolid(v[k])
         /\ v[k].start \in Nat
<1>0. /\ Ended(w) /\ Ended(v) /\ h \in Nat /\ n \in 0..Len(v) /\ h + n <= Len(w)
      /\ \A i \in 1..n : Moved(w[h + i], v[i], d) /\ v[i].start \in Nat
  BY DEF Aligned
<1>1. /\ w \in Seq(Reads) /\ v \in Seq(Reads) /\ h \in Nat /\ n \in 0..Len(v) /\ h + n <= Len(w)
      /\ Len(w) \in Nat /\ Len(v) \in Nat /\ Moved(w[h + k], v[k], d) /\ v[k].start \in Nat
  <2>1. w \in Seq(Reads) /\ v \in Seq(Reads)
    BY <1>0 DEF Ended
  <2>2. Moved(w[h + k], v[k], d) /\ v[k].start \in Nat
    BY ONLY <1>0, k \in 1..n
  <2> QED BY <1>0, <2>1, <2>2
<1>2. h + k \in 1..Len(w) /\ k \in 1..Len(v)
  BY <1>1
<1>3. w[h + k] \in Reads /\ v[k] \in Reads
  BY <1>1, <1>2
<1>4. /\ w[h + k].type = v[k].type /\ w[h + k].prefix = v[k].prefix
      /\ w[h + k].quoted = v[k].quoted /\ w[h + k].says = v[k].says
  BY <1>1 DEF Moved
<1> QED BY <1>1, <1>2, <1>3, <1>4 DEF IsSign, IsWord, IsSolid

\* token() goes the same way among tokens that stand elsewhere.
LEMMA AfterMoved ==
  ASSUME NEW w, NEW v, NEW h, NEW d, NEW n, Aligned(w, v, h, d, n),
         NEW i \in 0..n, After(v, i) <= n
  PROVE  After(w, h + i) = h + After(v, i)
<1>1. /\ Ended(w) /\ Ended(v) /\ h \in Nat /\ n \in 0..Len(v) /\ h + n <= Len(w)
      /\ Len(w) \in Nat /\ Len(v) \in Nat /\ (n = Len(v) => h + n = Len(w))
  BY DEF Aligned, Ended
<1> DEFINE
  a == After(v, i)
  b == h + i
  e == h + a
<1>2. i \in 0..Len(v)
  BY <1>1
<1>3. /\ IsSolid(v[a]) /\ \A k \in i + 1..a - 1 : ~IsSolid(v[k])
      /\ a \in 1..Len(v) /\ i <= a /\ (i < Len(v) => i < a)
  BY <1>1, <1>2, AfterIs
<1>4. a <= n
  OBVIOUS
<1> HIDE DEF a
<1>5. CASE i < a
  <2>1. b \in 0..Len(w) /\ e \in b + 1..Len(w)
    BY <1>1, <1>3, <1>4, <1>5
  <2>2. IsSolid(w[e])
    <3>1. a \in 1..n
      BY <1>1, <1>3, <1>4
    <3> QED BY <1>3, <3>1, AlignedToken
  <2>3. ASSUME NEW x \in b + 1..e - 1
        PROVE  ~IsSolid(w[x])
    <3> DEFINE k == x - h
    <3>1. k \in i + 1..a - 1 /\ k \in 1..n /\ h + k = x
      BY <1>1, <1>3, <1>4
    <3> HIDE DEF k
    <3> QED BY <1>3, <3>1, AlignedToken
  <2> HIDE DEF b, e
  <2>4. After(w, b) = e
    BY <1>1, <2>1, <2>2, <2>3, AfterThe
  <2> QED BY <2>4 DEF a, b, e
<1>6. CASE ~(i < a)
  <2>1. i = a /\ i = n /\ n = Len(v) /\ b = Len(w) /\ e = Len(w)
    BY <1>1, <1>3, <1>4, <1>6
  <2> HIDE DEF b, e
  <2>2. After(w, b) = b
    <3>1. b \in 0..Len(w)
      BY <1>1, <2>1
    <3>2. After(w, b) \in 1..Len(w) /\ b <= After(w, b)
      BY <1>1, <3>1, AfterIs
    <3> QED BY <1>1, <2>1, <3>2
  <2> QED BY <2>1, <2>2 DEF a, b, e
<1> QED BY <1>5, <1>6

\* The variables of a list.
LEMMA ExprMoved ==
  ASSUME NEW w, NEW v, NEW h, NEW d, NEW n, Aligned(w, v, h, d, n), NEW i \in 1..n,
         SelectExpr(v, i).next # 0, SelectExpr(v, i).next <= n
  PROVE  /\ SelectExpr(w, h + i).next = h + SelectExpr(v, i).next
         /\ SelectExpr(w, h + i).node = MovedBy(SelectExpr(v, i).node, d)
         /\ \E j \in i..Len(v) : /\ v[j].type \in {"USER_VAR", "ID"}
                                 /\ SelectExpr(v, i).next = After(v, j)
<1>1. /\ Ended(w) /\ Ended(v) /\ h \in Nat /\ n \in 0..Len(v) /\ h + n <= Len(w) /\ d \in Int
      /\ Len(w) \in Nat /\ Len(v) \in Nat
  BY DEF Aligned, Ended
<1> DEFINE
  x == SelectExpr(v, i)
  y == SelectExpr(w, h + i)
<1>2. i \in 1..Len(v) /\ x # Refused
  BY <1>1 DEF Refused
<1>3. i < Len(v) /\ x.next \in i + 1..Len(v) /\ x.next <= n
  BY <1>1, <1>2, SelectExprIs
<1> HIDE DEF x, y
<1>4. /\ w[h + i] \in Reads /\ v[i] \in Reads /\ Moved(w[h + i], v[i], d)
      /\ IsSign(w[h + i], "@") <=> IsSign(v[i], "@")
  BY AlignedToken
<1>5. w[h + i].type = v[i].type /\ w[h + i].quoted = v[i].quoted /\ w[h + i].says = v[i].says
  BY <1>4 DEF Moved
<1>6. CASE v[i].type = "USER_VAR"
  <2>1. x = [next |-> After(v, i), node |-> UserVar(v[i])]
    BY <1>6 DEF SelectExpr, IsSign, x
  <2>2. y = [next |-> After(w, h + i), node |-> UserVar(w[h + i])]
    BY <1>5, <1>6 DEF SelectExpr, IsSign, y
  <2>3. x.next = After(v, i) /\ y.next = After(w, h + i)
        /\ x.node = UserVar(v[i]) /\ y.node = UserVar(w[h + i])
    BY <2>1, <2>2
  <2>4. y.next = h + x.next
    BY <2>3, AfterMoved, <1>1, <1>3
  <2>5. UserVar(w[h + i]) = MovedBy(UserVar(v[i]), d)
    <3> DEFINE g == IF v[i].quoted THEN 2 ELSE 1
    <3>1. w[h + i].start = v[i].start + d /\ w[h + i].curr = v[i].curr + d
      BY <1>4, <1>6 DEF Moved
    <3>2. v[i].start \in Int /\ v[i].curr \in Int /\ g \in Int
      BY <1>4 DEF Reads
    <3>3. UserVar(v[i]) = [kind |-> "user", name |-> v[i].says, scope |-> "none",
                           start |-> v[i].start - g, end |-> v[i].curr]
      BY DEF UserVar
    <3>4. UserVar(w[h + i]) = [kind |-> "user", name |-> v[i].says, scope |-> "none",
                               start |-> (v[i].start + d) - g, end |-> v[i].curr + d]
      BY <1>5, <3>1 DEF UserVar
    <3> HIDE DEF g
    <3>5. (v[i].start + d) - g = (v[i].start - g) + d
      BY <1>1, <3>2
    <3> QED BY <3>3, <3>4, <3>5, NodeMoved
  <2>6. i \in i..Len(v)
    BY <1>1, <1>2
  <2> QED BY <1>6, <2>3, <2>4, <2>5, <2>6 DEF x, y
<1>7. CASE v[i].type # "USER_VAR" /\ IsSign(v[i], "@")
  <2> DEFINE
    first == After(v, i)
    name == SysVarName(v, first)
    next == After(v, name)
    node == [kind |-> "sys", name |-> v[name].says,
             scope |-> IF IsWord(v[first], "GLOBAL") THEN "GLOBAL" ELSE "SESSION",
             start |-> SysVarStart(v[first]), end |-> NameEnd(v[name])]
    f == After(w, h + i)
    m == SysVarName(w, f)
    u == [kind |-> "sys", name |-> w[m].says,
          scope |-> IF IsWord(w[f], "GLOBAL") THEN "GLOBAL" ELSE "SESSION",
          start |-> SysVarStart(w[f]), end |-> NameEnd(w[m])]
  <2>1. x = IF SysVarRefused(v, i, first, name) THEN Refused ELSE [next |-> next, node |-> node]
    BY <1>7 DEF SelectExpr, SysVar, x
  <2>2. y = IF SysVarRefused(w, h + i, f, m) THEN Refused ELSE [next |-> After(w, m), node |-> u]
    BY <1>4, <1>5, <1>7 DEF SelectExpr, SysVar, y
  <2>3. ~SysVarRefused(v, i, first, name) /\ x.next = next /\ x.node = node
    <3>1. x # Refused
      BY <1>2 DEF x
    <3> HIDE DEF first, name, next, node
    <3> QED BY <2>1, <3>1
  <2>4. first \in i + 1..Len(v) /\ IsSolid(v[first])
    BY <1>1, <1>2, <1>3, AfterIs
  <2>5. (IsScope(v[first]) => /\ After(v, first) \in first..Len(v)
                              /\ After(v, After(v, first)) \in After(v, first)..Len(v)
                              /\ name = After(v, After(v, first)))
        /\ (~IsScope(v[first]) => name = first)
    <3>1. After(v, first) \in first..Len(v)
      BY <1>1, <2>4, AfterIs
    <3>2. After(v, After(v, first)) \in After(v, first)..Len(v)
      BY <1>1, <2>4, <3>1, AfterIs
    <3> QED BY <3>1, <3>2 DEF SysVarName
  <2>6. name \in first..Len(v)
    BY <1>1, <2>4, <2>5
  <2>7. next \in name..Len(v)
    BY <1>1, <2>4, <2>6, AfterIs
  <2> HIDE DEF node, u
  <2>8. first \in 1..n /\ name \in 1..n /\ next \in 1..n
    <3> HIDE DEF first, name, next
    <3> QED BY <1>1, <1>3, <2>3, <2>4, <2>6, <2>7
  <2>9. f = h + first
    <3>1. i \in 0..n /\ After(v, i) <= n
      <4> HIDE DEF name, next
      <4> QED BY <1>1, <2>4, <2>8
    <3> QED BY <3>1, AfterMoved
  <2> HIDE DEF first, f
  <2>10. /\ Moved(w[f], v[first], d) /\ w[f] \in Reads /\ v[first] \in Reads
         /\ \A c : IsWord(w[f], c) <=> IsWord(v[first], c)
    BY <2>8, <2>9, AlignedToken
  <2>11. IsScope(w[f]) <=> IsScope(v[first])
    BY <2>10 DEF IsScope
  <2>12. /\ v[first].type = "ID" /\ v[first].at = v[i].curr /\ v[name].type = "ID"
         /\ ~ReservedName(v, name)
         /\ IsScope(v[first]) => IsSign(v[After(v, first)], ".")
    BY <2>3 DEF SysVarRefused
  <2>13. m = h + name
    <3>1. CASE ~IsScope(v[first])
      BY <2>9, <2>5, <2>11, <3>1 DEF SysVarName
    <3>2. CASE IsScope(v[first])
      <4> DEFINE dot == After(v, first)
      <4>1. dot \in first..Len(v) /\ name = After(v, dot) /\ name \in dot..Len(v)
        BY <2>5, <3>2
      <4>2. m = After(w, After(w, f))
        BY <2>11, <3>2 DEF SysVarName
      <4> HIDE DEF name, next
      <4>3. dot <= n
        BY <1>1, <2>8, <4>1
      <4>4. After(w, f) = h + dot
        BY <2>9, <4>3, AfterMoved, <1>1, <2>8
      <4> HIDE DEF dot
      <4>5. After(w, h + dot) = h + name
        BY <4>1, AfterMoved, <1>1, <2>8, <4>3
      <4> QED BY <4>2, <4>4, <4>5
    <3> QED BY <3>1, <3>2
  <2>14. After(w, m) = h + next
    <3>1. name \in 0..n /\ next <= n
      <4> HIDE DEF name, next
      <4> QED BY <1>1, <2>8
    <3> HIDE DEF name
    <3> QED BY <2>13, <3>1, AfterMoved
  <2> HIDE DEF m
  <2>15. Moved(w[m], v[name], d) /\ w[m] \in Reads /\ v[name] \in Reads
    <3> HIDE DEF name
    <3> QED BY <2>8, <2>13, AlignedToken
  <2>16. ~SysVarRefused(w, h + i, f, m)
    <3>1. w[f].type = "ID" /\ w[m].type = "ID"
      <4> HIDE DEF name
      <4> QED BY <2>10, <2>12, <2>15 DEF Moved
    <3>2. w[f].at = w[h + i].curr
      <4>1. w[f].at = v[first].at + d
        BY <2>10 DEF Moved
      <4>2. w[h + i].curr = v[i].curr + d
        BY <1>4, <1>7 DEF IsSign, Moved
      <4> QED BY <2>12, <4>1, <4>2
    <3>3. IsScope(w[f]) => IsSign(w[After(w, f)], ".")
      <4> SUFFICES ASSUME IsScope(w[f]) PROVE IsSign(w[After(w, f)], ".")
        OBVIOUS
      <4> DEFINE dot == After(v, first)
      <4>1. IsSign(v[dot], ".") /\ dot \in first..Len(v) /\ name \in dot..Len(v)
        BY <2>5, <2>11, <2>12
      <4> HIDE DEF name, next, dot
      <4>2. dot \in 1..n
        BY <1>1, <2>8, <4>1
      <4>3. After(w, h + first) = h + dot
        <5>1. first \in 0..n /\ dot <= n
          BY <1>1, <2>8, <4>1, <4>2
        <5> QED BY <5>1, AfterMoved DEF dot
      <4> QED BY <2>9, <4>1, <4>2, <4>3, AlignedToken
    <3>4. ~ReservedName(w, m)
      <4>1. w[m].says = v[name].says
        <5> HIDE DEF name
        <5> QED BY <2>15 DEF Moved
      <4>2. w[After(w, m)].prefix = v[After(v, name)].prefix
        <5>1. Moved(w[h + next], v[next], d)
          <6> HIDE DEF name, next
          <6> QED BY <2>8, AlignedToken
        <5> HIDE DEF name
        <5> QED BY <2>14, <5>1 DEF Moved
      <4> HIDE DEF name
      <4> QED BY <2>12, <4>1, <4>2 DEF ReservedName
    <3> QED BY <3>1, <3>2, <3>3, <3>4 DEF SysVarRefused
  <2>17. y.next = h + x.next /\ y.node = u
    <3> HIDE DEF next
    <3> QED BY <2>2, <2>3, <2>14, <2>16
  <2>18. u = MovedBy(node, d)
    <3>1. w[m].says = v[name].says /\ (IsWord(w[f], "GLOBAL") <=> IsWord(v[first], "GLOBAL"))
      <4> HIDE DEF name
      <4> QED BY <2>10, <2>15 DEF Moved
    <3>2. SysVarStart(w[f]) = SysVarStart(v[first]) + d
      <4>1. w[f].start = v[first].start + d /\ w[f].quoted = v[first].quoted
        BY <2>10, <2>12 DEF Moved
      <4>2. v[first].start \in Int
        BY <2>10 DEF Reads
      <4> QED BY <1>1, <4>1, <4>2 DEF SysVarStart
    <3>3. NameEnd(w[m]) = NameEnd(v[name]) + d
      <4> HIDE DEF name
      <4>1. w[m].end = v[name].end + d /\ w[m].quoted = v[name].quoted
        BY <2>12, <2>15 DEF Moved
      <4>2. v[name].end \in Int
        BY <2>15 DEF Reads
      <4> QED BY <1>1, <4>1, <4>2 DEF NameEnd
    <3> DEFINE
      says == v[name].says
      scope == IF IsWord(v[first], "GLOBAL") THEN "GLOBAL" ELSE "SESSION"
      start == SysVarStart(v[first])
      end == NameEnd(v[name])
    <3>4. u = [kind |-> "sys", name |-> says, scope |-> scope, start |-> start + d, end |-> end + d]
      BY <3>1, <3>2, <3>3 DEF u
    <3>5. node = [kind |-> "sys", name |-> says, scope |-> scope, start |-> start, end |-> end]
      BY DEF node
    <3> HIDE DEF says, scope, start, end
    <3> QED BY <3>4, <3>5, NodeMoved
  <2>19. name \in i..Len(v) /\ v[name].type \in {"USER_VAR", "ID"} /\ x.next = After(v, name)
    <3>1. name \in i..Len(v)
      <4> HIDE DEF name
      <4> QED BY <1>1, <2>4, <2>6
    <3> QED BY <2>3, <2>12, <3>1
  <2> HIDE DEF name, next
  <2> QED BY <2>3, <2>17, <2>18, <2>19 DEF x, y
<1> QED BY <1>2, <1>6, <1>7 DEF SelectExpr, x

\* What F makes of the elements of a sequence.
Each(F, q) == [i \in DOMAIN q |-> F[q[i]]]

Grows(F, a, q) ==
    Each(F, <<a>>) = <<F[a]>> /\ Each(F, <<a>> \o q) = <<F[a]>> \o Each(F, q)

\* A function on the members of a sequence, one of which comes first.
LEMMA EachGrows ==
  ASSUME NEW S, NEW T, NEW F \in [S -> T], NEW a \in S, NEW q \in Seq(S)
  PROVE  Grows(F, a, q)
<1> DEFINE
  m == F[a]
  o == <<a>>
  p == o \o q
<1>1. o \in Seq(S) /\ Len(o) = 1 /\ o[1] = a
  OBVIOUS
<1>2. ASSUME NEW s \in Seq(S)
      PROVE  /\ Each(F, s) \in Seq(T) /\ Len(Each(F, s)) = Len(s)
             /\ \A i \in 1..Len(s) : Each(F, s)[i] = F[s[i]]
  <2>1. DOMAIN s = 1..Len(s) /\ Len(s) \in Nat /\ \A i \in 1..Len(s) : s[i] \in S
    OBVIOUS
  <2>2. Each(F, s) = [i \in 1..Len(s) |-> F[s[i]]]
    BY <2>1 DEF Each
  <2> QED BY <2>1, <2>2
<1>3. m \in T /\ <<m>> \in Seq(T) /\ Len(<<m>>) = 1 /\ <<m>>[1] = m
  OBVIOUS
<1>4. p \in Seq(S) /\ Len(p) = Len(q) + 1 /\ p[1] = a /\ \A i \in 1..Len(q) : p[i + 1] = q[i]
  BY <1>1
<1> HIDE DEF o, p
<1>5. Each(F, o) = <<m>>
  <2> DEFINE
    x == Each(F, o)
    y == <<m>>
  <2>1. x \in Seq(T) /\ Len(x) = Len(o) /\ \A i \in 1..Len(o) : x[i] = F[o[i]]
    BY <1>1, <1>2
  <2>2. Len(x) = 1 /\ x[1] = m
    BY <1>1, <2>1
  <2>3. y \in Seq(T) /\ Len(y) = 1 /\ y[1] = m
    BY <1>3
  <2> HIDE DEF x, y
  <2>4. x = y
    BY <2>1, <2>2, <2>3, SeqEqual
  <2> QED BY <2>4 DEF x, y
<1>6. Each(F, p) = <<m>> \o Each(F, q)
  <2> DEFINE
    x == Each(F, p)
    y == Each(F, q)
  <2>1. x \in Seq(T) /\ Len(x) = Len(p) /\ \A i \in 1..Len(p) : x[i] = F[p[i]]
    BY <1>2, <1>4
  <2>2. y \in Seq(T) /\ Len(y) = Len(q) /\ \A i \in 1..Len(q) : y[i] = F[q[i]]
    BY <1>2
  <2> HIDE DEF x, y, m
  <2>3. /\ <<m>> \o y \in Seq(T) /\ Len(<<m>> \o y) = Len(q) + 1 /\ (<<m>> \o y)[1] = m
        /\ \A i \in 1..Len(q) : (<<m>> \o y)[i + 1] = y[i]
    BY <1>3, <2>2
  <2>4. ASSUME NEW i \in 1..Len(x)
        PROVE  x[i] = (<<m>> \o y)[i]
    <3>1. CASE i = 1
      BY <1>4, <2>3, <3>1, <2>1 DEF m
    <3>2. CASE i # 1
      <4> DEFINE j == i - 1
      <4>1. j \in 1..Len(q) /\ j + 1 = i /\ i \in 1..Len(p)
        BY <1>4, <2>1, <3>2
      <4> HIDE DEF j
      <4>2. p[j + 1] = q[j] /\ (<<m>> \o y)[j + 1] = y[j] /\ y[j] = F[q[j]]
        BY <1>4, <2>2, <2>3, <4>1
      <4>3. x[i] = F[p[i]]
        BY <2>1, <4>1
      <4> QED BY <4>1, <4>2, <4>3
    <3> QED BY <3>1, <3>2
  <2>5. x = <<m>> \o y
    BY <1>4, <2>1, <2>3, <2>4, SeqEqual
  <2> QED BY <2>5 DEF x, y
<1> QED BY <1>5, <1>6 DEF m, o, p, Grows

\* The list of one more variable.
LEMMA ListMoved ==
  ASSUME NEW S, NEW a \in S, NEW q \in Seq(S), NEW d
  PROVE  /\ MovedList(<<a>>, d) = <<MovedBy(a, d)>>
         /\ MovedList(<<a>> \o q, d) = <<MovedBy(a, d)>> \o MovedList(q, d)
<1> DEFINE
  T == {MovedBy(b, d) : b \in S}
  F == [b \in S |-> MovedBy(b, d)]
  o == <<a>>
  p == <<a>> \o q
<1>1. F \in [S -> T] /\ \A b \in S : F[b] = MovedBy(b, d)
  OBVIOUS
<1> HIDE DEF F, T
<1>2. ASSUME NEW s \in Seq(S)
      PROVE  MovedList(s, d) = Each(F, s)
  BY <1>1 DEF MovedList, Each
<1>3. Each(F, o) = <<F[a]>> /\ Each(F, p) = <<F[a]>> \o Each(F, q)
  <2>1. Grows(F, a, q)
    BY <1>1, EachGrows
  <2> QED BY <2>1 DEF Grows
<1>4. o \in Seq(S) /\ p \in Seq(S)
  OBVIOUS
<1> HIDE DEF o, p
<1>5. MovedList(o, d) = Each(F, o) /\ MovedList(p, d) = Each(F, p) /\ MovedList(q, d) = Each(F, q)
  BY <1>2, <1>4
<1>6. F[a] = MovedBy(a, d)
  BY <1>1
<1> QED BY <1>3, <1>5, <1>6 DEF o, p

\* A list of variables.
LEMMA ExprsMoved ==
  ASSUME NEW w, NEW v, NEW h, NEW d, NEW n, Aligned(w, v, h, d, n), NEW i \in 1..n,
         SelectExprs(v, i).next # 0, SelectExprs(v, i).next <= n
  PROVE  /\ SelectExprs(w, h + i).next = h + SelectExprs(v, i).next
         /\ SelectExprs(w, h + i).node = MovedList(SelectExprs(v, i).node, d)
         /\ \E j \in i..Len(v) : /\ v[j].type \in {"USER_VAR", "ID"}
                                 /\ SelectExprs(v, i).next = After(v, j)
<1>1. /\ Ended(w) /\ Ended(v) /\ h \in Nat /\ n \in 0..Len(v) /\ h + n <= Len(w) /\ d \in Int
      /\ Len(w) \in Nat /\ Len(v) \in Nat
  BY DEF Aligned, Ended
<1> DEFINE
  D == 1..n
  l(k) == SelectExprs(v, k)
  m(k) == SelectExprs(w, h + k)
  Good(k) ==
     l(k).next # 0 /\ l(k).next <= n =>
         /\ m(k).next = h + l(k).next /\ m(k).node = MovedList(l(k).node, d)
         /\ \E j \in k..Len(v) : /\ v[j].type \in {"USER_VAR", "ID"}
                                 /\ l(k).next = After(v, j)
  S == {k \in D : Good(k)}
<1>2. ASSUME NEW k \in D, \A j \in D : k < j => j \in S
      PROVE  k \in S
  <2> SUFFICES ASSUME l(k).next # 0, l(k).next <= n PROVE Good(k)
    OBVIOUS
  <2> DEFINE
    x == SelectExpr(v, k)
    a == After(v, x.next)
    rest == l(a)
    y == SelectExpr(w, h + k)
    b == After(w, y.next)
  <2>1. k \in 1..Len(v) /\ h + k \in 1..Len(w)
    BY <1>1
  <2>2. l(k) = SelectList(v, x, rest)
    BY <1>1, <2>1, SelectListsDefined
  <2>3. m(k) = SelectList(w, y, SelectExprs(w, b))
    <3> DEFINE g == h + k
    <3>1. g \in 1..Len(w)
      BY <2>1
    <3> HIDE DEF g
    <3>2. SelectExprs(w, g) = LET z == SelectExpr(w, g) IN SelectList(w, z, SelectExprs(w, After(w, z.next)))
      BY <1>1, <3>1, SelectListsDefined
    <3> QED BY <3>2 DEF g
  <2>4. x.next # 0
    BY <2>2 DEF SelectList, Refused
  <2>5. x.node \in Nodes /\ k < Len(v) /\ x.next \in k + 1..Len(v) /\ IsSolid(v[x.next])
    BY <1>1, <2>1, SelectExprIs, <2>4 DEF Refused
  <2> HIDE DEF l, m
  <2>6. CASE IsSign(v[x.next], "comma")
    <3>1. rest.next # 0 /\ l(k).next = rest.next /\ l(k).node = <<x.node>> \o rest.node
      <4> HIDE DEF x, rest
      <4>1. l(k) = IF rest.next = 0 THEN Refused
                   ELSE [next |-> rest.next, node |-> <<x.node>> \o rest.node]
        BY <2>2, <2>4, <2>6 DEF SelectList
      <4> QED BY <4>1 DEF Refused
    <3>2. x.next < Len(v)
      <4> HIDE DEF x
      <4>1. v[x.next].type = "SIGN"
        BY <2>6 DEF IsSign
      <4>2. x.next # Len(v)
        BY <1>1, <4>1 DEF Ended
      <4> QED BY <1>1, <2>5, <4>2
    <3>3. a \in x.next + 1..Len(v)
      <4> DEFINE c == x.next
      <4>1. c \in 0..Len(v) /\ c < Len(v)
        BY <1>1, <2>5, <3>2
      <4> HIDE DEF c
      <4>2. After(v, c) \in 1..Len(v) /\ c < After(v, c)
        BY <1>1, <4>1, AfterIs
      <4>3. After(v, c) \in c + 1..Len(v)
        BY <1>1, <4>1, <4>2
      <4> QED BY <4>3 DEF c
    <3> HIDE DEF a
    <3>4. rest.node \in Seq(Nodes) /\ rest.next \in a + 1..Len(v)
      <4>1. a \in 1..Len(v)
        <5> HIDE DEF x
        <5> QED BY <1>1, <2>5, <3>3
      <4> QED BY <1>1, <3>1, <4>1, SelectExprsIs DEF l
    <3> HIDE DEF rest
    <3>5. a \in D /\ k < a /\ x.next \in D
      <4>1. rest.next <= n /\ rest.next \in a + 1..Len(v)
        BY <3>1, <3>4
      <4>2. /\ x.next \in k + 1..Len(v) /\ a \in x.next + 1..Len(v) /\ k \in 1..n
            /\ n \in Nat /\ Len(v) \in Nat
        BY <1>1, <2>5, <3>3
      <4> HIDE DEF x
      <4>3. a \in 1..n /\ k < a /\ x.next \in 1..n
        BY ONLY <4>1, <4>2
      <4> QED BY <4>3
    <3>6. Good(a)
      BY <1>2, <3>5
    <3>7. /\ m(a).next = h + rest.next /\ m(a).node = MovedList(rest.node, d)
          /\ \E j \in a..Len(v) : v[j].type \in {"USER_VAR", "ID"} /\ rest.next = After(v, j)
      BY <3>1, <3>6 DEF rest
    <3>8. y.next = h + x.next /\ y.node = MovedBy(x.node, d)
      <4>1. x.next <= n
        <5> HIDE DEF x
        <5> QED BY <1>1, <3>5
      <4> QED BY <2>4, <4>1, ExprMoved
    <3>9. b = h + a
      <4>1. x.next \in 0..n /\ a <= n
        <5> HIDE DEF x
        <5> QED BY <1>1, <2>5, <3>3, <3>5
      <4> HIDE DEF x, y
      <4> QED BY <3>8, <4>1, AfterMoved DEF a
    <3>10. IsSign(w[y.next], "comma")
      <4> HIDE DEF x, y
      <4> QED BY <2>6, <3>5, <3>8, AlignedToken
    <3> HIDE DEF x, y, b
    <3>11. m(k) = [next |-> m(a).next, node |-> <<y.node>> \o m(a).node]
      <4>1. y.next # 0 /\ m(a).next # 0
        <5>1. y.next = h + x.next /\ m(a).next = h + rest.next
          BY <3>7, <3>8
        <5>2. x.next \in 1..n /\ h \in Nat /\ n \in Nat
          BY <1>1, <3>5
        <5>3. rest.next \in a + 1..Len(v) /\ a \in 1..n /\ Len(v) \in Nat
          BY <1>1, <3>4, <3>5
        <5> QED BY ONLY <5>1, <5>2, <5>3
      <4>2. SelectExprs(w, b) = m(a)
        BY <3>9 DEF m
      <4> QED BY <2>3, <3>10, <4>1, <4>2 DEF SelectList
    <3>12. m(k).node = MovedList(l(k).node, d)
      <4>1. MovedList(<<x.node>> \o rest.node, d) = <<MovedBy(x.node, d)>> \o MovedList(rest.node, d)
        <5>1. ASSUME NEW p \in Nodes, NEW q \in Seq(Nodes)
              PROVE  MovedList(<<p>> \o q, d) = <<MovedBy(p, d)>> \o MovedList(q, d)
          BY ONLY ListMoved, SMTT(20)
        <5> QED BY <2>5, <3>4, <5>1
      <4> QED
        <5>1. m(k).node = <<y.node>> \o m(a).node
          BY <3>11
        <5> QED BY <3>1, <3>7, <3>8, <4>1, <5>1
    <3>13. m(k).next = h + l(k).next
      BY <3>1, <3>7, <3>11
    <3>14. \E j \in k..Len(v) : v[j].type \in {"USER_VAR", "ID"} /\ l(k).next = After(v, j)
      <4>1. PICK j \in a..Len(v) : v[j].type \in {"USER_VAR", "ID"} /\ rest.next = After(v, j)
        BY <3>7
      <4>2. j \in k..Len(v)
        BY <1>1, <3>5, <4>1
      <4> QED BY <3>1, <4>1, <4>2
    <3> QED BY <3>12, <3>13, <3>14
  <2>7. CASE ~IsSign(v[x.next], "comma")
    <3>1. /\ ~(v[x.next].type = "SIGN" /\ ~IsSign(v[x.next], "semi"))
          /\ l(k).next = x.next /\ l(k).node = <<x.node>>
      <4> HIDE DEF x
      <4>1. l(k) = IF v[x.next].type = "SIGN" /\ ~IsSign(v[x.next], "semi") THEN Refused
                   ELSE [next |-> x.next, node |-> <<x.node>>]
        BY <2>2, <2>4, <2>7 DEF SelectList
      <4> QED BY <4>1 DEF Refused
    <3>2. x.next \in D /\ x.next <= n
      <4> HIDE DEF x
      <4> QED BY <1>1, <2>5, <3>1
    <3>3. /\ y.next = h + x.next /\ y.node = MovedBy(x.node, d)
          /\ \E j \in k..Len(v) : v[j].type \in {"USER_VAR", "ID"} /\ x.next = After(v, j)
      BY <2>4, <3>2, ExprMoved
    <3> HIDE DEF x, y, b
    <3>4. /\ ~IsSign(w[y.next], "comma")
          /\ ~(w[y.next].type = "SIGN" /\ ~IsSign(w[y.next], "semi"))
      <4>1. /\ \A c : IsSign(w[h + x.next], c) <=> IsSign(v[x.next], c)
            /\ Moved(w[h + x.next], v[x.next], d)
        BY <3>2, AlignedToken
      <4> QED BY <2>7, <3>1, <3>3, <4>1 DEF Moved
    <3>5. m(k) = [next |-> y.next, node |-> <<y.node>>]
      BY <2>3, <3>4, <1>1, <2>5, <3>3 DEF SelectList
    <3>6. MovedList(<<x.node>>, d) = <<MovedBy(x.node, d)>>
      <4>1. <<>> \in Seq(Nodes)
        OBVIOUS
      <4> QED BY <2>5, <4>1, ListMoved
    <3>7. m(k).next = h + l(k).next /\ m(k).node = MovedList(l(k).node, d)
      BY <3>1, <3>3, <3>5, <3>6
    <3> QED BY <3>1, <3>3, <3>7
  <2> QED BY <2>6, <2>7
<1>3. D \subseteq Int /\ n \in Int /\ (\A k \in D : k <= n) /\ i \in D
  BY <1>1
<1> HIDE DEF D, S
<1>4. D \subseteq S
  BY <1>2, <1>3, Downward
<1>5. Good(i)
  BY <1>3, <1>4 DEF S
<1> QED BY <1>5

\* The clause LIMIT.
LEMMA LimitMoved ==
  ASSUME NEW w, NEW v, NEW h, NEW d, NEW n, Aligned(w, v, h, d, n), NEW i \in 1..n,
         IsWord(v[i], "LIMIT"), SelectLimit(v, i).next # 0, SelectLimit(v, i).next <= n
  PROVE  /\ SelectLimit(w, h + i).next = h + SelectLimit(v, i).next
         /\ SelectLimit(w, h + i).node = {MovedLimit(c, d) : c \in SelectLimit(v, i).node}
         /\ \/ \E c \in SelectLimit(v, i).node : c.offset = -1
            \/ \E j \in i..Len(v) : v[j].type = "INT" /\ SelectLimit(v, i).next = After(v, j)
<1>1. /\ Ended(w) /\ Ended(v) /\ h \in Nat /\ n \in 0..Len(v) /\ h + n <= Len(w) /\ d \in Int
      /\ Len(w) \in Nat /\ Len(v) \in Nat
  BY DEF Aligned, Ended
<1> DEFINE
  Clause(u, k, numbers, last) ==
     {[rows |-> numbers[1], offset |-> numbers[2], start |-> u[k].start, end |-> u[last].end]}
  first == After(v, i)
  sign == After(v, first)
  second == After(v, sign)
  next == After(v, second)
  x == SelectLimit(v, i)
  one == w[h + sign].type = "EOS" \/ IsSign(w[h + sign], "semi")
  f == After(w, h + i)
  s == After(w, f)
  o == After(w, s)
  e == After(w, o)
  y == SelectLimit(w, h + i)
<1>2. i \in 1..Len(v)
  BY <1>1
<1>3. first \in i..Len(v) /\ first \in 1..Len(v)
  BY <1>1, <1>2, AfterIs
<1>4. sign \in first..Len(v)
  BY <1>1, <1>3, AfterIs
<1>5. second \in sign..Len(v)
  BY <1>1, <1>3, <1>4, AfterIs
<1>6. next \in second..Len(v)
  BY <1>1, <1>3, <1>4, <1>5, AfterIs
<1>7. x = IF v[first].type # "INT" THEN Refused
          ELSE IF v[sign].type = "EOS" \/ IsSign(v[sign], "semi")
          THEN [next |-> second, node |-> Clause(v, i, <<v[first].start, -1>>, first)]
          ELSE IF v[second].type = "INT" /\ (IsSign(v[sign], "comma") \/ IsWord(v[sign], "OFFSET"))
          THEN [next |-> next,
                node |-> Clause(v, i, LimitNumbers(v[sign], v[first], v[second]), second)]
          ELSE Refused
  BY DEF SelectLimit
<1>8. y = IF w[f].type # "INT" THEN Refused
          ELSE IF w[s].type = "EOS" \/ IsSign(w[s], "semi")
          THEN [next |-> o, node |-> Clause(w, h + i, <<w[f].start, -1>>, f)]
          ELSE IF w[o].type = "INT" /\ (IsSign(w[s], "comma") \/ IsWord(w[s], "OFFSET"))
          THEN [next |-> e,
                node |-> Clause(w, h + i, LimitNumbers(w[s], w[f], w[o]), o)]
          ELSE Refused
  BY DEF SelectLimit
<1>9. x.next # 0 /\ x.next <= n
  OBVIOUS
<1>10. Refused.next = 0
  BY DEF Refused
<1> HIDE DEF Clause, x, y, next
<1>11. v[first].type = "INT" /\ x.next \in second..Len(v)
  <2> HIDE DEF first, sign, second
  <2>1. v[first].type = "INT" /\ x.next \in {second, next}
    BY <1>7, <1>9, <1>10
  <2> QED BY <1>1, <1>3, <1>4, <1>5, <1>6, <2>1
<1> USE DEF next
<1>12. first \in 1..n /\ sign \in 1..n /\ second \in 1..n
  <2> HIDE DEF first, sign, second
  <2> QED BY <1>1, <1>2, <1>3, <1>4, <1>5, <1>9, <1>11
<1>13. f = h + first
  <2>1. i \in 0..n /\ first <= n
    <3> HIDE DEF first
    <3> QED BY <1>1, <1>12
  <2> QED BY <2>1, AfterMoved
<1> HIDE DEF first, f
<1>14. s = h + sign
  <2>1. first \in 0..n /\ sign <= n
    <3> HIDE DEF sign
    <3> QED BY <1>1, <1>12
  <2> QED BY <1>13, <2>1, AfterMoved
<1> HIDE DEF sign, s
<1>15. o = h + second
  <2>1. sign \in 0..n /\ second <= n
    <3> HIDE DEF second
    <3> QED BY <1>1, <1>12
  <2> QED BY <1>14, <2>1, AfterMoved
<1> HIDE DEF second, o
<1>16. /\ Moved(w[f], v[first], d) /\ Moved(w[s], v[sign], d) /\ Moved(w[o], v[second], d)
       /\ Moved(w[h + i], v[i], d)
       /\ \A c : IsSign(w[s], c) <=> IsSign(v[sign], c)
       /\ \A c : IsWord(w[s], c) <=> IsWord(v[sign], c)
  BY <1>12, <1>13, <1>14, <1>15, AlignedToken
<1>17. /\ v[first] \in Reads /\ v[second] \in Reads /\ v[i] \in Reads
       /\ v[first].start \in Nat /\ v[second].start \in Nat
  BY <1>12, AlignedToken
<1>18. /\ v[first].start \in Int /\ v[first].end \in Int /\ v[second].start \in Int
       /\ v[second].end \in Int /\ v[i].start \in Int
  BY <1>17 DEF Reads
<1>19. w[f].type = "INT" /\ w[f].start = v[first].start + d /\ w[f].end = v[first].end + d
  BY <1>11, <1>16 DEF Moved
<1>20. w[h + i].start = v[i].start + d
  BY <1>16 DEF Moved, IsWord
<1>21. ASSUME NEW a \in Int, NEW b \in Int, NEW k, NEW m, w[m].end = v[k].end + d
       PROVE  {MovedLimit(c, d) : c \in Clause(v, i, <<a, b>>, k)} =
                  Clause(w, h + i, <<a + d, IF b = -1 THEN -1 ELSE b + d>>, m)
  <2> DEFINE
    p == v[i].start
    q == v[k].end
    r == [rows |-> a, offset |-> b, start |-> p, end |-> q]
    z == [rows |-> a + d, offset |-> IF b = -1 THEN -1 ELSE b + d,
          start |-> p + d, end |-> q + d]
  <2>1. Clause(v, i, <<a, b>>, k) = {r}
    BY DEF Clause
  <2>2. Clause(w, h + i, <<a + d, IF b = -1 THEN -1 ELSE b + d>>, m) = {z}
    BY <1>20, <1>21 DEF Clause
  <2> HIDE DEF p, q
  <2>3. MovedLimit(r, d) = z
    BY LimitMovedBy
  <2> HIDE DEF r, z
  <2> QED BY <2>1, <2>2, <2>3
<1>22. CASE v[sign].type = "EOS" \/ IsSign(v[sign], "semi")
  <2>1. x.next = second /\ x.node = Clause(v, i, <<v[first].start, -1>>, first)
    BY <1>7, <1>11, <1>22
  <2>2. w[s].type = "EOS" \/ IsSign(w[s], "semi")
    BY <1>16, <1>22 DEF Moved
  <2>3. y.next = o /\ y.node = Clause(w, h + i, <<v[first].start + d, -1>>, f)
    BY <1>8, <1>19, <2>2
  <2>4. y.node = {MovedLimit(c, d) : c \in x.node}
    <3>1. -1 \in Int /\ -1 = -1
      OBVIOUS
    <3>2. {MovedLimit(c, d) : c \in Clause(v, i, <<v[first].start, -1>>, first)} =
                  Clause(w, h + i, <<v[first].start + d, IF -1 = -1 THEN -1 ELSE -1 + d>>, f)
      BY <1>18, <1>19, <1>21, <3>1
    <3> QED BY <2>1, <2>3, <3>2
  <2>5. \E c \in x.node : c.offset = -1
    BY <2>1 DEF Clause
  <2> QED BY <1>15, <2>1, <2>3, <2>4, <2>5 DEF x, y
<1>23. CASE ~(v[sign].type = "EOS" \/ IsSign(v[sign], "semi"))
  <2> DEFINE numbers == LimitNumbers(v[sign], v[first], v[second])
  <2>1. /\ v[second].type = "INT" /\ (IsSign(v[sign], "comma") \/ IsWord(v[sign], "OFFSET"))
        /\ x.next = next /\ x.node = Clause(v, i, numbers, second)
    <3> HIDE DEF numbers, next
    <3> QED BY <1>7, <1>9, <1>10, <1>11, <1>23 DEF numbers
  <2>2. /\ ~(w[s].type = "EOS" \/ IsSign(w[s], "semi")) /\ w[o].type = "INT"
        /\ (IsSign(w[s], "comma") \/ IsWord(w[s], "OFFSET"))
    BY <1>16, <1>23, <2>1 DEF Moved
  <2>3. y.next = e /\ y.node = Clause(w, h + i, LimitNumbers(w[s], w[f], w[o]), o)
    <3> HIDE DEF e
    <3> QED BY <1>8, <1>19, <2>2
  <2>4. e = h + next
    BY <1>15, AfterMoved, <1>1, <1>9, <1>12, <2>1
  <2> HIDE DEF e
  <2>5. y.node = {MovedLimit(c, d) : c \in x.node}
    <3> DEFINE
      p == v[first].start
      q == v[second].start
      a == IF IsSign(v[sign], "comma") THEN q ELSE p
      b == IF IsSign(v[sign], "comma") THEN p ELSE q
    <3>1. numbers = <<a, b>> /\ a \in Nat /\ b \in Nat
      BY <1>17 DEF LimitNumbers
    <3>2. LimitNumbers(w[s], w[f], w[o]) = <<a + d, b + d>>
      <4>1. w[f].start = p + d /\ w[o].start = q + d
        BY <1>16, <1>19, <2>1 DEF Moved
      <4>2. IsSign(w[s], "comma") <=> IsSign(v[sign], "comma")
        BY <1>16
      <4> QED BY <4>1, <4>2 DEF LimitNumbers
    <3>3. w[o].end = v[second].end + d
      BY <1>16, <2>1 DEF Moved
    <3> HIDE DEF a, b
    <3>4. a \in Int /\ b \in Int /\ b # -1
      BY <3>1
    <3> HIDE DEF numbers
    <3>5. {MovedLimit(c, d) : c \in Clause(v, i, <<a, b>>, second)} =
                  Clause(w, h + i, <<a + d, IF b = -1 THEN -1 ELSE b + d>>, o)
      BY <1>21, <3>3, <3>4
    <3> QED BY <2>1, <2>3, <3>1, <3>2, <3>4, <3>5
  <2>6. second \in i..Len(v)
    BY <1>1, <1>3, <1>4, <1>5
  <2> QED BY <2>1, <2>3, <2>4, <2>5, <2>6 DEF x, y
<1> QED BY <1>22, <1>23

Mark(l) == [sign |-> l.prefix, start |-> l.start, end |-> l.end]

\* The comments in front of a token.
LEMMA CommentsMoved ==
  ASSUME NEW w, NEW v, NEW h, NEW d, NEW n, Aligned(w, v, h, d, n), NEW i \in 1..n, IsSolid(v[i])
  PROVE  Comments(w, h + i) = {MovedBy(c, d) : c \in Comments(v, i)}
<1>1. /\ Ended(w) /\ Ended(v) /\ h \in Nat /\ n \in 0..Len(v) /\ h + n <= Len(w) /\ d \in Int
      /\ Len(w) \in Nat /\ Len(v) \in Nat /\ (h > 0 => IsSolid(w[h]))
  BY DEF Aligned, Ended
<1> DEFINE
  g == h + i
  J == {k \in 1..i - 1 : v[k].type = "COMMENT" /\ After(v, k) = i}
  K == {k \in 1..g - 1 : w[k].type = "COMMENT" /\ After(w, k) = g}
<1>g. g = h + i
  OBVIOUS
<1> HIDE DEF g
<1>2. /\ \A c : c \in Comments(v, i) <=> \E k \in J : c = Mark(v[k])
      /\ \A c : c \in Comments(w, g) <=> \E k \in K : c = Mark(w[k])
  BY DEF Comments, Mark
<1>3. ASSUME NEW k \in J
      PROVE  h + k \in K
  <2>1. k \in 1..n /\ k \in 0..n /\ After(v, k) <= n /\ h + k \in 1..g - 1
    BY <1>1, <1>g
  <2>2. After(w, h + k) = g
    BY <1>g, <2>1, AfterMoved
  <2>3. w[h + k].type = "COMMENT"
    BY <2>1, AlignedToken DEF Moved
  <2> QED BY <2>1, <2>2, <2>3
<1>4. ASSUME NEW x \in K
      PROVE  x - h \in J /\ h + (x - h) = x
  <2>1. x \in 1..Len(w) /\ x \in 0..Len(w) /\ x < g /\ ~IsSolid(w[x])
    BY <1>1, <1>g DEF IsSolid
  <2>2. \A k \in x + 1..g - 1 : ~IsSolid(w[k])
    <3>1. \A k \in x + 1..After(w, x) - 1 : ~IsSolid(w[k])
      BY <1>1, <2>1, AfterIs
    <3>2. After(w, x) = g
      OBVIOUS
    <3> QED BY ONLY <3>1, <3>2
  <2>3. x > h
    <3> SUFFICES ASSUME x <= h PROVE FALSE
      BY <1>1, <2>1
    <3>1. IsSolid(w[h])
      BY <1>1, <2>1
    <3>2. x # h
      BY <2>1, <3>1
    <3>3. h \in x + 1..g - 1
      BY <1>1, <1>g, <2>1, <3>2
    <3> QED BY <2>2, <3>1, <3>3
  <2> DEFINE k == x - h
  <2>4. k \in 1..i - 1 /\ h + k = x /\ k \in 1..n /\ k \in 0..Len(v) /\ i \in k + 1..Len(v)
    BY <1>1, <1>g, <2>1, <2>3
  <2> HIDE DEF k
  <2>5. v[k].type = "COMMENT"
    BY <2>4, AlignedToken DEF Moved
  <2>6. ASSUME NEW j \in k + 1..i - 1
        PROVE  ~IsSolid(v[j])
    <3>1. j \in 1..n /\ h + j \in x + 1..g - 1
      BY <1>1, <1>g, <2>4
    <3>2. ~IsSolid(w[h + j])
      BY <2>2, <3>1
    <3> QED BY <3>1, <3>2, AlignedToken
  <2>7. After(v, k) = i
    BY <1>1, <2>4, <2>6, AfterThe
  <2> QED BY <2>4, <2>5, <2>7 DEF k
<1>5. ASSUME NEW k \in J
      PROVE  Mark(w[h + k]) = MovedBy(Mark(v[k]), d)
  <2>1. k \in 1..n
    BY <1>1
  <2>2. Moved(w[h + k], v[k], d)
    BY <2>1, AlignedToken
  <2>3. w[h + k].prefix = v[k].prefix /\ w[h + k].start = v[k].start + d /\ w[h + k].end = v[k].end + d
    BY <2>2 DEF Moved
  <2> DEFINE
    sign == v[k].prefix
    start == v[k].start
    end == v[k].end
    r == [sign |-> sign, start |-> start, end |-> end]
  <2>4. Mark(v[k]) = r /\ Mark(w[h + k]) = [sign |-> sign, start |-> start + d, end |-> end + d]
    BY <2>3 DEF Mark
  <2> HIDE DEF sign, start, end
  <2>5. MovedBy(r, d) = [sign |-> sign, start |-> start + d, end |-> end + d]
    BY MarkMoved
  <2> QED BY <2>4, <2>5
<1> HIDE DEF J, K
<1>6. \A x \in K : \E k \in J : x = h + k
  BY <1>4
<1>7. \A c : c \in Comments(w, g) <=> \E k \in J : c = MovedBy(Mark(v[k]), d)
  <2>1. ASSUME NEW k \in J PROVE h + k \in K /\ Mark(w[h + k]) = MovedBy(Mark(v[k]), d)
    BY <1>3, <1>5
  <2> QED BY <1>2, <1>6, <2>1
<1>8. \A c : c \in {MovedBy(m, d) : m \in Comments(v, i)} <=> \E k \in J : c = MovedBy(Mark(v[k]), d)
  BY <1>2
<1> QED BY <1>7, <1>8, <1>g

\* The tokens of a text are where they are.
LEMMA SelfAligned ==
  ASSUME NEW v, Ended(v), \A k \in 1..Len(v) : v[k].start \in Nat
  PROVE  Aligned(v, v, 0, 0, Len(v))
<1>1. Len(v) \in Nat /\ \A k \in 1..Len(v) : v[k] \in Reads
  BY DEF Ended
<1>2. ASSUME NEW k \in 1..Len(v)
      PROVE  Moved(v[0 + k], v[k], 0)
  <2>1. 0 + k = k /\ v[k] \in Reads
    BY <1>1
  <2>2. v[k].at \in Int /\ v[k].start \in Int /\ v[k].end \in Int /\ v[k].curr \in Int
    BY <2>1 DEF Reads
  <2> QED BY <2>1, <2>2 DEF Moved
<1>3. 0 + Len(v) <= Len(v) /\ ~(0 > 0) /\ 0 + Len(v) = Len(v) /\ 0 \in Nat /\ Len(v) \in 0..Len(v)
  BY <1>1
<1> QED BY <1>2, <1>3 DEF Aligned

MovedStmt(s, d) ==
    [start |-> s.start + d, end |-> s.end + d, exprs |-> MovedList(s.exprs, d),
     comments |-> {MovedBy(c, d) : c \in s.comments},
     limit |-> {MovedLimit(c, d) : c \in s.limit}]

\* A statement that ends with the e-th of the tokens. Its end is the first token
\* behind one that is no semicolon, unless a LIMIT of one number is before it.
LEMMA SelectMoved ==
  ASSUME NEW w, NEW v, NEW h, NEW d, NEW n, Aligned(w, v, h, d, n), NEW i \in 1..n,
         IsWord(v[i], "SELECT"), Select(v, i).next # 0, \A k \in 1..Len(v) : v[k].start \in Nat
  PROVE  \E e \in i + 1..Len(v) :
            /\ IsEnd(v[e]) /\ Select(v, i).node.end = v[e].end /\ Select(v, i).next = After(v, e)
            /\ \/ \E c \in Select(v, i).node.limit : c.offset = -1
               \/ \E j \in i..Len(v) : v[j].type \in {"USER_VAR", "ID", "INT"} /\ e = After(v, j)
            /\ e <= n => /\ Select(w, h + i).next = After(w, h + e)
                         /\ Select(w, h + i).node = MovedStmt(Select(v, i).node, d)
<1>1. /\ Ended(w) /\ Ended(v) /\ h \in Nat /\ n \in 0..Len(v) /\ h + n <= Len(w) /\ d \in Int
      /\ Len(w) \in Nat /\ Len(v) \in Nat
  BY DEF Aligned, Ended
<1> DEFINE
  a == After(v, i)
  list == SelectExprs(v, a)
  limit == IF IsWord(v[list.next], "LIMIT") THEN SelectLimit(v, list.next)
           ELSE [next |-> list.next, node |-> {}]
  e == limit.next
  x == Select(v, i)
  node == [start |-> v[i].start, end |-> v[e].end,
           exprs |-> list.node, limit |-> limit.node, comments |-> Comments(v, i)]
  b == After(w, h + i)
  row == SelectExprs(w, b)
  bound == IF IsWord(w[row.next], "LIMIT") THEN SelectLimit(w, row.next)
           ELSE [next |-> row.next, node |-> {}]
  y == Select(w, h + i)
  other == [start |-> w[h + i].start, end |-> w[bound.next].end,
            exprs |-> row.node, limit |-> bound.node, comments |-> Comments(w, h + i)]
<1>2. x = IF list.next = 0 THEN Refused
          ELSE IF e = 0 \/ ~(IsSign(v[e], "semi") \/ v[e].type = "EOS") THEN Refused
          ELSE [next |-> After(v, e), node |-> node]
  BY DEF Select, SelectWith, SelectEnd, Behind
<1>3. y = IF row.next = 0 THEN Refused
          ELSE IF bound.next = 0 \/ ~(IsSign(w[bound.next], "semi") \/ w[bound.next].type = "EOS")
          THEN Refused
          ELSE [next |-> After(w, bound.next), node |-> other]
  BY DEF Select, SelectWith, SelectEnd, Behind
<1>4. x.next # 0 /\ Refused.next = 0
  BY DEF Refused
<1>5. i \in 1..Len(v)
  BY <1>1
<1> HIDE DEF x, y, node, other
<1>6. list.next # 0 /\ e # 0 /\ IsEnd(v[e]) /\ x.next = After(v, e) /\ x.node = node
  <2> HIDE DEF list, limit, e
  <2> QED BY <1>2, <1>4 DEF IsEnd
<1>7. a \in i..Len(v) /\ a \in 1..Len(v) /\ (i < Len(v) => i < a)
  BY <1>1, <1>5, AfterIs
<1> HIDE DEF a, b
<1>8. list.next \in a + 1..Len(v)
  BY <1>1, <1>6, <1>7, SelectExprsIs
<1> HIDE DEF list, row
<1>9. e \in list.next..Len(v)
  <2>1. CASE IsWord(v[list.next], "LIMIT")
    <3> DEFINE p == list.next
    <3>1. p \in 1..Len(v) /\ e = SelectLimit(v, p).next
      BY <1>1, <1>7, <1>8, <2>1
    <3> HIDE DEF p, e
    <3>2. e \in p + 1..Len(v)
      BY <1>1, <1>6, <3>1, SelectLimitIs
    <3> QED BY <3>1, <3>2 DEF p
  <2>2. CASE ~IsWord(v[list.next], "LIMIT")
    BY <1>1, <1>7, <1>8, <2>2
  <2> QED BY <2>1, <2>2
<1> HIDE DEF limit, e
<1>10. e \in i + 1..Len(v)
  BY <1>1, <1>5, <1>7, <1>8, <1>9
<1>11. ASSUME e <= n
       PROVE  y.next = After(w, h + e) /\ y.node = MovedStmt(x.node, d)
  <2>1. a \in 1..n /\ list.next \in 1..n /\ e \in 1..n
    BY <1>1, <1>7, <1>8, <1>9, <1>11
  <2>2. b = h + a
    BY AfterMoved, <1>1, <2>1 DEF a, b
  <2>3. row.next = h + list.next /\ row.node = MovedList(list.node, d)
    <3>1. SelectExprs(v, a).next # 0 /\ SelectExprs(v, a).next <= n
      BY <1>1, <1>6, <2>1 DEF list
    <3> QED BY <2>1, <2>2, <3>1, ExprsMoved DEF list, row
  <2>4. IsWord(w[row.next], "LIMIT") <=> IsWord(v[list.next], "LIMIT")
    BY <2>1, <2>3, AlignedToken, ZenonT(40)
  <2>5. bound.next = h + e /\ bound.node = {MovedLimit(c, d) : c \in limit.node}
    <3>1. CASE IsWord(v[list.next], "LIMIT")
      <4> DEFINE p == list.next
      <4>1. limit = SelectLimit(v, p) /\ bound = SelectLimit(w, h + p) /\ e = limit.next
        BY <2>3, <2>4, <3>1 DEF limit, e
      <4>2. p \in 1..n /\ IsWord(v[p], "LIMIT")
        BY <2>1, <3>1
      <4> HIDE DEF p, bound
      <4>3. SelectLimit(v, p).next # 0 /\ SelectLimit(v, p).next <= n
        BY <1>6, <1>11, <4>1
      <4>4. bound.next = h + limit.next /\ bound.node = {MovedLimit(c, d) : c \in limit.node}
        BY <4>1, <4>2, <4>3, LimitMoved
      <4> QED BY <4>1, <4>4
    <3>2. CASE ~IsWord(v[list.next], "LIMIT")
      <4>1. limit = [next |-> list.next, node |-> {}] /\ bound = [next |-> row.next, node |-> {}]
            /\ e = list.next
        BY <2>4, <3>2 DEF limit, e
      <4>2. {MovedLimit(c, d) : c \in {}} = {}
        OBVIOUS
      <4> QED BY <2>3, <4>1, <4>2
    <3> QED BY <3>1, <3>2
  <2>6. Moved(w[h + e], v[e], d) /\ (\A c : IsSign(w[h + e], c) <=> IsSign(v[e], c)) /\ v[e] \in Reads
    BY <2>1, AlignedToken
  <2> HIDE DEF bound
  <2>7. y.next = After(w, h + e) /\ y.node = other
    <3>1. row.next # 0 /\ bound.next # 0
      BY <1>1, <2>1, <2>3, <2>5
    <3>2. IsSign(w[bound.next], "semi") \/ w[bound.next].type = "EOS"
      BY <1>6, <2>5, <2>6 DEF IsEnd, Moved
    <3> QED BY <1>3, <2>5, <3>1, <3>2
  <2>8. other = MovedStmt(node, d)
    <3>1. w[bound.next].end = v[e].end + d
      BY <1>6, <2>5, <2>6 DEF IsEnd, IsSign, Moved
    <3>2. w[h + i].start = v[i].start + d
      BY AlignedToken DEF Moved, IsWord
    <3>3. Comments(w, h + i) = {MovedBy(c, d) : c \in Comments(v, i)}
      BY CommentsMoved DEF IsSolid, IsWord
    <3> QED BY <2>3, <2>5, <3>1, <3>2, <3>3 DEF MovedStmt, other, node
  <2> QED BY <1>6, <2>5, <2>7, <2>8 DEF node
<1>12. x.node.end = v[e].end /\ x.node.limit = limit.node
  BY <1>6 DEF node
<1>13. \/ \E c \in limit.node : c.offset = -1
       \/ \E j \in i..Len(v) : v[j].type \in {"USER_VAR", "ID", "INT"} /\ e = After(v, j)
  <2>1. Aligned(v, v, 0, 0, Len(v))
    BY <1>1, SelfAligned
  <2>2. \A j \in a..Len(v) : j \in i..Len(v)
    BY <1>1, <1>5, <1>7
  <2>3. CASE IsWord(v[list.next], "LIMIT")
    <3> DEFINE p == list.next
    <3>1. limit = SelectLimit(v, p) /\ e = limit.next /\ p \in 1..Len(v) /\ p \in a..Len(v)
      BY <1>1, <1>7, <1>8, <2>3 DEF limit, e
    <3> HIDE DEF p
    <3>2. SelectLimit(v, p).next # 0 /\ SelectLimit(v, p).next <= Len(v) /\ IsWord(v[p], "LIMIT")
      BY <1>1, <1>6, <1>10, <2>3, <3>1 DEF p
    <3>3. \/ \E c \in limit.node : c.offset = -1
          \/ \E j \in p..Len(v) : v[j].type = "INT" /\ limit.next = After(v, j)
      BY <2>1, <3>1, <3>2, LimitMoved
    <3>4. \A j \in p..Len(v) : j \in i..Len(v)
      BY <1>1, <1>5, <1>7, <3>1
    <3> QED BY <3>1, <3>3, <3>4
  <2>4. CASE ~IsWord(v[list.next], "LIMIT")
    <3>1. e = list.next
      BY <2>4 DEF limit, e
    <3>2. SelectExprs(v, a).next # 0 /\ SelectExprs(v, a).next <= Len(v)
      BY <1>1, <1>6, <1>7, <1>8 DEF list
    <3>3. \E j \in a..Len(v) : v[j].type \in {"USER_VAR", "ID"} /\ list.next = After(v, j)
      BY <1>7, <2>1, <3>2, ExprsMoved DEF list
    <3> QED BY <2>2, <3>1, <3>3
  <2> QED BY <2>3, <2>4
<1> QED BY <1>6, <1>10, <1>11, <1>12, <1>13 DEF x, y

MovedStmts(q, d) == [i \in DOMAIN q |-> MovedStmt(q[i], d)]

\* Statements, moved one by one.
LEMMA StmtsMoved ==
  ASSUME NEW S, NEW a \in S, NEW q \in Seq(S), NEW d
  PROVE  MovedStmts(<<a>> \o q, d) = <<MovedStmt(a, d)>> \o MovedStmts(q, d)
<1> DEFINE
  T == {MovedStmt(b, d) : b \in S}
  F == [b \in S |-> MovedStmt(b, d)]
  p == <<a>> \o q
<1>1. F \in [S -> T] /\ \A b \in S : F[b] = MovedStmt(b, d)
  OBVIOUS
<1> HIDE DEF F, T
<1>2. ASSUME NEW s \in Seq(S)
      PROVE  MovedStmts(s, d) = Each(F, s)
  BY <1>1 DEF MovedStmts, Each
<1>3. Each(F, p) = <<F[a]>> \o Each(F, q)
  <2>1. Grows(F, a, q)
    BY <1>1, EachGrows
  <2> QED BY <2>1 DEF Grows
<1>4. p \in Seq(S)
  OBVIOUS
<1> HIDE DEF p
<1>5. MovedStmts(p, d) = Each(F, p) /\ MovedStmts(q, d) = Each(F, q)
  BY <1>2, <1>4
<1>6. F[a] = MovedStmt(a, d)
  BY <1>1
<1> QED BY <1>3, <1>5, <1>6 DEF p

\* The end is the same end elsewhere.
LEMMA EndMoved ==
  ASSUME NEW w, NEW v, NEW h, NEW d, NEW n, Aligned(w, v, h, d, n), NEW i \in 1..n, NEW m \in Int
  PROVE  AtEnd(w[h + i], m + d) <=> AtEnd(v[i], m)
<1>1. Moved(w[h + i], v[i], d) /\ v[i] \in Reads /\ d \in Int
  BY AlignedToken, ZenonT(60) DEF Aligned
<1>2. v[i].curr \in Int
  BY <1>1 DEF Reads
<1>3. CASE v[i].type = "error"
  BY <1>1, <1>3 DEF AtEnd, Moved
<1>4. CASE v[i].type # "error"
  <2>1. w[h + i].curr = v[i].curr + d /\ w[h + i].type = v[i].type /\ w[h + i].prefix = v[i].prefix
    BY <1>1, <1>4 DEF Moved
  <2>2. w[h + i].curr >= m + d <=> v[i].curr >= m
    <3>1. w[h + i].curr = v[i].curr + d /\ v[i].curr \in Int /\ d \in Int /\ m \in Int
      BY <1>1, <1>2, <2>1
    <3> QED BY ONLY <3>1
  <2> QED BY <2>1, <2>2 DEF AtEnd
<1> QED BY <1>3, <1>4

\* Statements that are read at the end of a text, and are the same when it is all of it.
LEMMA StatementsMoved ==
  ASSUME NEW w, NEW v, NEW h, NEW d, Aligned(w, v, h, d, Len(v)), NEW m \in Int,
         NEW i \in 1..Len(v), Statements(v, m)[i].ok
  PROVE  /\ Statements(w, m + d)[h + i].ok
         /\ Statements(w, m + d)[h + i].stmts = MovedStmts(Statements(v, m)[i].stmts, d)
<1>1. /\ Ended(w) /\ Ended(v) /\ h \in Nat /\ h + Len(v) <= Len(w) /\ d \in Int
      /\ Len(w) \in Nat /\ Len(v) \in Nat
  BY DEF Aligned, Ended
<1> DEFINE
  D == 1..Len(v)
  p(k) == Statements(v, m)[k]
  r(k) == Statements(w, m + d)[h + k]
  Good(k) == p(k).ok => r(k).ok /\ r(k).stmts = MovedStmts(p(k).stmts, d)
  S == {k \in D : Good(k)}
<1>2. ASSUME NEW k \in D, \A j \in D : k < j => j \in S
      PROVE  k \in S
  <2> SUFFICES ASSUME p(k).ok PROVE Good(k)
    OBVIOUS
  <2> DEFINE
    x == Select(v, k)
    y == Select(w, h + k)
    rest == p(x.next)
    more == Statements(w, m + d)[y.next]
  <2>1. p(k) = IF AtEnd(v[k], m) THEN [ok |-> TRUE, stmts |-> <<>>]
                ELSE IF ~IsWord(v[k], "SELECT") THEN Refusal
                ELSE Statement(x, rest)
    BY <1>1, StatementsDefined
  <2>2. r(k) = IF AtEnd(w[h + k], m + d) THEN [ok |-> TRUE, stmts |-> <<>>]
               ELSE IF ~IsWord(w[h + k], "SELECT") THEN Refusal
               ELSE Statement(y, more)
    <3> DEFINE
      g == h + k
      u == m + d
    <3>1. g \in 1..Len(w)
      BY <1>1
    <3> HIDE DEF g, u
    <3>2. Statements(w, u)[g] = IF AtEnd(w[g], u) THEN [ok |-> TRUE, stmts |-> <<>>]
                                ELSE IF ~IsWord(w[g], "SELECT") THEN Refusal
                                ELSE Statement(Select(w, g), Statements(w, u)[Select(w, g).next])
      BY <1>1, <3>1, StatementsDefined
    <3> QED BY <3>2 DEF g, u
  <2>3. AtEnd(w[h + k], m + d) <=> AtEnd(v[k], m)
    BY EndMoved
  <2>4. \A c : IsWord(w[h + k], c) <=> IsWord(v[k], c)
    BY AlignedToken
  <2> HIDE DEF p, r
  <2>5. CASE AtEnd(v[k], m)
    <3>1. p(k).stmts = <<>> /\ r(k).stmts = <<>> /\ r(k).ok
      BY <2>1, <2>2, <2>3, <2>5
    <3>2. MovedStmts(<<>>, d) = <<>>
      BY DEF MovedStmts
    <3> QED BY <3>1, <3>2
  <2>6. CASE ~AtEnd(v[k], m)
    <3> HIDE DEF x, y, rest, more
    <3>1. /\ IsWord(v[k], "SELECT") /\ x.next # 0 /\ rest.ok /\ p(k).stmts = <<x.node>> \o rest.stmts
      BY <2>1, <2>6 DEF Refusal, Statement
    <3>2. r(k) = Statement(y, more)
      BY <2>2, <2>3, <2>4, <2>6, <3>1
    <3>3. x.next \in k + 1..Len(v) /\ x.node \in Stmts
      BY <1>1, <3>1, SelectIs DEF x
    <3>4. PICK e \in k + 1..Len(v) : /\ x.next = After(v, e)
                                     /\ y.next = After(w, h + e) /\ y.node = MovedStmt(x.node, d)
      <4>1. \A g \in 1..Len(v) : v[g].start \in Nat
        BY AlignedToken
      <4>2. \E e \in k + 1..Len(v) :
               /\ IsEnd(v[e]) /\ Select(v, k).node.end = v[e].end /\ Select(v, k).next = After(v, e)
               /\ \/ \E c \in Select(v, k).node.limit : c.offset = -1
                  \/ \E j \in k..Len(v) : v[j].type \in {"USER_VAR", "ID", "INT"} /\ e = After(v, j)
               /\ e <= Len(v) => /\ Select(w, h + k).next = After(w, h + e)
                                 /\ Select(w, h + k).node = MovedStmt(Select(v, k).node, d)
        BY <4>1, SelectMoved, <3>1 DEF x
      <4> QED BY <1>1, <4>2 DEF x, y
    <3>5. y.next = h + x.next
      BY <3>4, AfterMoved, <1>1, <3>3
    <3>6. x.next \in D /\ k < x.next
      BY <1>1, <3>3
    <3>7. more.ok /\ more.stmts = MovedStmts(rest.stmts, d)
      <4>1. Good(x.next)
        BY <1>2, <3>6
      <4>2. more = r(x.next) /\ rest = p(x.next)
        BY <3>5 DEF more, rest, r
      <4> QED BY <3>1, <4>1, <4>2
    <3>8. y.next # 0
      BY <1>1, <3>5, <3>6
    <3>9. r(k).ok /\ r(k).stmts = <<y.node>> \o more.stmts
      BY <3>2, <3>7, <3>8 DEF Statement
    <3>10. rest.stmts \in Seq(Stmts)
      <4> DEFINE c == x.next
      <4>1. c \in 1..Len(v) /\ Statements(v, m)[c].ok /\ rest = Statements(v, m)[c]
        BY <1>1, <3>1, <3>6 DEF rest, p
      <4> HIDE DEF c
      <4>2. \E f : Tracks(v, m, rest.stmts, f) /\ f[1] = c
        BY <1>1, <4>1, StatementsTracked
      <4> QED BY <4>2 DEF Tracks
    <3>11. MovedStmts(<<x.node>> \o rest.stmts, d) = <<MovedStmt(x.node, d)>> \o MovedStmts(rest.stmts, d)
      <4> DEFINE
        q == rest.stmts
        b == x.node
      <4>1. q \in Seq(Stmts) /\ b \in Stmts
        BY <3>3, <3>10
      <4> HIDE DEF q, b
      <4>2. MovedStmts(<<b>> \o q, d) = <<MovedStmt(b, d)>> \o MovedStmts(q, d)
        BY ONLY <4>1, StmtsMoved
      <4> QED BY <4>2 DEF q, b
    <3> QED BY <3>1, <3>4, <3>7, <3>9, <3>11
  <2> QED BY <2>5, <2>6
<1>3. D \subseteq Int /\ Len(v) \in Int /\ (\A k \in D : k <= Len(v)) /\ i \in D
  BY <1>1
<1> HIDE DEF D, S
<1>4. D \subseteq S
  BY <1>2, <1>3, Downward
<1>5. Good(i)
  BY <1>3, <1>4 DEF S
<1> QED BY <1>5

-----------------------------------------------------------------------------
(* A text that ends with a semicolon of another. *)

\* A semicolon at the beginning of a token is one,
LEMMA SemiRead ==
  ASSUME NEW t \in Seq(Chars), NEW p \in 0..Len(t) - 1, At(t, p) = "semi"
  PROVE  /\ Read(t, p).type = "SIGN" /\ Read(t, p).prefix = "semi" /\ Read(t, p).quoted = FALSE
         /\ Read(t, p).start = p /\ Read(t, p).end = p + 1 /\ Read(t, p).curr = p + 1
         /\ Read(t, p).at = p /\ Read(t, p).says = <<"semi">>
<1> DEFINE
  c == At(t, p)
  next == IF p + 1 < Len(t) THEN At(t, p + 1) ELSE "end"
  One(type) == Token(type, c, p, p + 1, p + 1)
  l == NexToken(t, p)
<1>1. l = CASE c \in {"-", "/"} /\ next = "end" -> Fault
            [] c = "-" /\ next = "-" -> LineComment(t, p + 2, "--")
            [] c = "/" /\ next = "/" -> LineComment(t, p + 2, "//")
            [] c = "/" /\ next = "*" -> MultiComment(t, p + 2)
            [] c = "-" /\ next \notin {"-", "end"} -> One("OP_ARI")
            [] c = "/" /\ next \notin {"/", "*", "end"} -> One("OP_ARI")
            [] c \in {"+", "*"} -> One("OP_ARI")
            [] c = "#" -> LineComment(t, p + 1, "#")
            [] c \in Blanks -> BlankToken(t, p)
            [] c = "bq" -> Quoted(t, p, "ID")
            [] c \in {"sq", "dq"} -> Quoted(t, p, "STRING")
            [] c \in Signs -> One("SIGN")
            [] OTHER -> ParseToken(t, p)
  BY DEF NexToken
<1>2. c = "semi" /\ c \in Signs /\ c \notin Blanks
  BY DEF Signs, Blanks
<1> HIDE DEF l, c, next
<1>3. l = One("SIGN")
  BY <1>1, <1>2
<1>4. Lex(t, p) = Token("SIGN", "semi", p, p + 1, p + 1)
  <2>1. p # Len(t)
    OBVIOUS
  <2>2. Lex(t, p) = l
    BY <1>2, <2>1 DEF Lex, l, c
  <2> QED BY <1>2, <1>3, <2>2
<1>5. Slice(t, p, p + 1) = <<"semi">>
  BY <1>2, SliceOne DEF c
<1>6. /\ Lex(t, p).type = "SIGN" /\ Lex(t, p).prefix = "semi" /\ Lex(t, p).quoted = FALSE
      /\ Lex(t, p).start = p /\ Lex(t, p).end = p + 1 /\ Lex(t, p).curr = p + 1
  BY <1>4 DEF Token
<1> QED BY <1>5, <1>6, ReadFields

\* and a token that is one is that character.
LEMMA SignAt ==
  ASSUME NEW t \in Seq(Chars), NEW p \in 0..Len(t), NEW l, ReadAt(t, p, l), IsSign(l, "semi")
  PROVE  p < Len(t) /\ At(t, p) = "semi" /\ l.start = p /\ l.curr = p + 1
<1>1. l.type = "SIGN" /\ l.prefix = "semi"
  BY DEF IsSign
<1>2. p < Len(t) /\ PlainAt(t, p, l)
  <2>1. ~CommentAt(t, p, l)
    BY <1>1 DEF CommentAt
  <2>2. ~QuotedAt(t, p, l)
    BY <1>1 DEF QuotedAt
  <2> QED BY <1>1, <2>1, <2>2 DEF ReadAt
<1>3. "semi" \in Signs
  BY DEF Signs
<1> QED BY <1>1, <1>2, <1>3 DEF PlainAt

\* A token begins in its text, and a fault at its beginning.
LEMMA ReadStart ==
  ASSUME NEW t \in Seq(Chars), NEW p \in 0..Len(t)
  PROVE  Read(t, p).start \in Nat
<1>1. Read(t, p).start = Lex(t, p).start /\ Read(t, p).type = Lex(t, p).type
  BY ReadFields
<1>2. ReadAt(t, p, Read(t, p))
  BY ReadIs
<1>3. Laid(t, p, Lex(t, p))
  BY LexLaid
<1>4. CASE Read(t, p).type = "error"
  <2>1. Lex(t, p) = Fault
    <3>1. Lex(t, p).type = "error"
      BY <1>1, <1>4
    <3> QED BY <1>3, <3>1 DEF Laid, Token, CommentAt, QuotedAt, PlainAt
  <2> QED BY <1>1, <2>1 DEF Fault, Token
<1>5. CASE Read(t, p).type # "error"
  <2>1. Read(t, p).start >= p
    BY <1>2, <1>5, ReadAhead
  <2>2. Read(t, p).start \in Int
    BY <1>2 DEF ReadAt, Reads
  <2> QED BY <2>1, <2>2
<1> QED BY <1>4, <1>5

\* A text agrees with what is cut off behind a character of it, up to that one.
LEMMA PrefixAgrees ==
  ASSUME NEW t \in Seq(Chars), NEW e \in 0..Len(t) - 1, NEW u, u = Slice(t, 0, e + 1)
  PROVE  /\ u \in Seq(Chars) /\ Len(u) = e + 1 /\ At(u, e) = At(t, e)
         /\ \A p \in 0..e : Agree(u, t, 0, p, e)
<1> DEFINE n == e + 1
<1>1. n \in 0..Len(t) /\ 0 \in 0..Len(t) /\ 0 <= n /\ n - 0 = n /\ Len(t) \in Nat
  OBVIOUS
<1> HIDE DEF n
<1>2. /\ Slice(t, 0, n) \in Seq(Chars) /\ Len(Slice(t, 0, n)) = IF 0 <= n THEN n - 0 ELSE 0
      /\ \A k \in 0..n - 0 - 1 : At(Slice(t, 0, n), k) = At(t, 0 + k)
  BY <1>1, SliceIs
<1>3. u = Slice(t, 0, n)
  BY DEF n
<1>4. u \in Seq(Chars) /\ Len(u) = n /\ \A k \in 0..n - 1 : At(u, k) = At(t, 0 + k)
  BY <1>1, <1>2, <1>3
<1>5. \A k \in 0..e : At(u, k) = At(t, k)
  <2>1. ASSUME NEW k \in 0..e PROVE At(u, k) = At(t, k)
    BY <1>4 DEF n
  <2> QED BY <2>1
<1>6. ASSUME NEW p \in 0..e
      PROVE  Agree(u, t, 0, p, e)
  <2>1. /\ p \in Nat /\ p + 0 \in Nat /\ e \in p..Len(t) /\ e + 0 <= Len(u)
    BY <1>1, <1>4 DEF n
  <2>2. ASSUME NEW i \in p..e
        PROVE  /\ i < Len(t) <=> i + 0 < Len(u)
               /\ i < Len(t) => At(u, i + 0) = At(t, i)
    BY <1>5, <1>1, <1>4 DEF n
  <2> QED BY <1>4, <2>1, <2>2 DEF Agree
<1>7. e \in 0..e
  OBVIOUS
<1> QED BY <1>4, <1>5, <1>6, <1>7 DEF n

\* All the tokens begin in their text.
LEMMA WalkStarts ==
  ASSUME NEW t \in Seq(Chars), NEW w, IsWalk(t, 0, w)
  PROVE  \A k \in 1..Len(w) : w[k].start \in Nat
<1>1. 0 \in 0..Len(t)
  OBVIOUS
<1>2. \A k \in 1..Len(w) : w[k].at \in 0..Len(t) /\ w[k] = Read(t, w[k].at)
  BY <1>1, WalkPlaces
<1> QED BY <1>2, ReadStart

\* A token that ends before the semicolon is the same without what follows that.
LEMMA PrefixRead ==
  ASSUME NEW t \in Seq(Chars), NEW e \in 0..Len(t) - 1, NEW u, u = Slice(t, 0, e + 1),
         NEW p \in 0..e, Read(t, p).type # "error", Read(t, p).curr <= e
  PROVE  Moved(Read(u, p), Read(t, p), 0) /\ Moved(Read(t, p), Read(u, p), 0)
<1> DEFINE
  k == Read(u, p)
  l == Read(t, p)
<1>1. Agree(u, t, 0, p, e)
  BY PrefixAgrees
<1>2. Moved(Read(u, p + 0), l, 0) /\ p + 0 = p
  <2>1. l.type # "error" /\ l.curr <= e
    OBVIOUS
  <2>2. Moved(Read(u, p + 0), Read(t, p), 0)
    BY <1>1, <2>1, ReadMoved
  <2> QED BY <2>2
<1>3. Moved(k, l, 0)
  BY <1>2
<1>4. l \in Reads
  BY ReadIs DEF ReadAt
<1>5. l.at \in Int /\ l.start \in Int /\ l.end \in Int /\ l.curr \in Int
  BY <1>4 DEF Reads
<1> HIDE DEF k, l
<1>6. /\ k.type = l.type /\ k.prefix = l.prefix /\ k.quoted = l.quoted /\ k.says = l.says
      /\ k.at = l.at + 0 /\ k.start = l.start + 0 /\ k.end = l.end + 0 /\ k.curr = l.curr + 0
  BY <1>3 DEF Moved, l
<1>7. k.at = l.at /\ k.start = l.start /\ k.end = l.end /\ k.curr = l.curr
  BY <1>5, <1>6
<1>8. Moved(l, k, 0)
  BY <1>5, <1>6, <1>7 DEF Moved
<1> QED BY <1>3, <1>8 DEF k, l

\* The tokens of a text up to a semicolon are its tokens without what follows that.
LEMMA PrefixWalk ==
  ASSUME NEW t \in Seq(Chars), NEW w, IsWalk(t, 0, w), NEW c \in 1..Len(w), IsSign(w[c], "semi"),
         NEW u, u = Slice(t, 0, w[c].curr), NEW v, IsWalk(u, 0, v)
  PROVE  /\ u \in Seq(Chars) /\ Len(u) = w[c].curr /\ w[c].curr = w[c].at + 1
         /\ w[c].at \in 0..Len(t) - 1
         /\ Len(v) = c + 1 /\ v[c + 1].type = "EOS"
         /\ \A k \in 1..c : Moved(w[k], v[k], 0)
<1>0. 0 \in 0..Len(t)
  OBVIOUS
<1> DEFINE e == w[c].at
<1>1. /\ Len(w) \in Nat /\ w[1].at = 0
      /\ \A k \in 1..Len(w) : w[k].at \in 0..Len(t) /\ w[k] = Read(t, w[k].at)
                               /\ ReadAt(t, w[k].at, w[k])
  BY <1>0, WalkPlaces
<1>2. \A k \in 1..Len(w) - 1 : w[k + 1].at = w[k].curr /\ ~IsFinal(w[k])
  BY <1>0, WalkPlaces, SMTT(30)
<1>3. e \in 0..Len(t) - 1 /\ At(t, e) = "semi" /\ w[c].start = e /\ w[c].curr = e + 1
  <2>1. e \in 0..Len(t) /\ ReadAt(t, e, w[c])
    BY <1>1
  <2>2. e < Len(t) /\ At(t, e) = "semi" /\ w[c].start = e /\ w[c].curr = e + 1
    BY <2>1, SignAt
  <2> QED BY <2>1, <2>2
<1>4. u = Slice(t, 0, e + 1)
  BY <1>3
<1>5. u \in Seq(Chars) /\ Len(u) = e + 1 /\ At(u, e) = "semi"
  BY <1>3, <1>4, PrefixAgrees
<1>6. 0 \in 0..Len(u) /\ e \in 0..Len(u) - 1
  BY <1>3, <1>5
<1>7. /\ Len(v) \in Nat /\ Len(v) > 0 /\ v[1] = Read(u, 0) /\ IsFinal(v[Len(v)])
      /\ \A k \in 1..Len(v) - 1 : ~IsFinal(v[k]) /\ v[k + 1] = Read(u, v[k].curr)
  BY DEF IsWalk
<1>8. ASSUME NEW k \in 1..c, k # c
      PROVE  /\ k \in 1..Len(w) - 1 /\ w[k].at \in 0..e
             /\ Moved(Read(u, w[k].at), w[k], 0) /\ Moved(w[k], Read(u, w[k].at), 0)
  <2> DEFINE p == w[k].at
  <2>1. k \in 1..Len(w) - 1 /\ c \in k..Len(w) /\ k < c /\ k \in 1..Len(w)
    BY <1>1, <1>8
  <2>2. p <= e /\ w[k].curr <= e
    BY <1>0, <2>1, WalkForward
  <2>3. p \in 0..e /\ w[k] = Read(t, p)
    BY <1>3, <2>2, <1>1, <2>1
  <2>4. w[k].type # "error"
    BY <1>2, <2>1 DEF IsFinal
  <2> HIDE DEF p, e
  <2>5. Read(t, p).type # "error" /\ Read(t, p).curr <= e
    BY <2>2, <2>3, <2>4
  <2>6. Moved(Read(u, p), Read(t, p), 0) /\ Moved(Read(t, p), Read(u, p), 0)
    BY <1>3, <1>4, <2>3, <2>5, PrefixRead
  <2> QED BY <2>1, <2>3, <2>6 DEF p
<1> DEFINE
  D == 1..c
  S == {k \in D : k \in 1..Len(v) /\ v[k] = Read(u, w[k].at)}
<1>9. ASSUME NEW k \in D, \A j \in D : j < k => j \in S
      PROVE  k \in S
  <2>1. CASE k = 1
    BY <1>1, <1>7, <2>1
  <2>2. CASE k > 1
    <3> DEFINE j == k - 1
    <3>1. j \in 1..c /\ j # c /\ j < k /\ j + 1 = k
      BY <2>2
    <3>2. j \in 1..Len(v) /\ v[j] = Read(u, w[j].at)
      BY <1>9, <3>1
    <3> HIDE DEF j
    <3>3. /\ j \in 1..Len(w) - 1 /\ w[j].at \in 0..e
          /\ Moved(Read(u, w[j].at), w[j], 0)
      BY <1>8, <3>1
    <3>4. w[j + 1].at = w[j].curr /\ ~IsFinal(w[j])
      BY <1>2, <3>3
    <3>5. w[j] \in Reads
      BY <1>1, <3>3 DEF ReadAt
    <3>6. w[j].at \in Int /\ w[j].curr \in Int
      BY <3>5 DEF Reads
    <3>7. Moved(v[j], w[j], 0)
      BY <3>2, <3>3
    <3>8. ~IsFinal(v[j])
      BY <3>4, <3>6, <3>7, MovedFinal
    <3>9. v[j].curr = w[j].curr
      BY <3>6, <3>4, <3>7 DEF Moved, IsFinal
    <3>10. j \in 1..Len(v) - 1
      BY <1>7, <3>2, <3>8
    <3>11. v[j + 1] = Read(u, v[j].curr)
      BY <1>7, <3>10
    <3>12. j + 1 \in 1..Len(v)
      BY <1>7, <3>10
    <3> QED BY <3>1, <3>4, <3>9, <3>11, <3>12
  <2> QED BY <2>1, <2>2
<1>10. D \subseteq Nat /\ c \in D
  OBVIOUS
<1> HIDE DEF D, S
<1>11. D \subseteq S
  BY <1>9, <1>10, Upward
<1>12. \A k \in 1..c : k \in 1..Len(v) /\ v[k] = Read(u, w[k].at)
  BY <1>11 DEF S, D
<1> HIDE DEF e
<1>13. /\ v[c].type = "SIGN" /\ v[c].prefix = "semi" /\ v[c].quoted = FALSE /\ v[c].at = e
       /\ v[c].start = e /\ v[c].end = e + 1 /\ v[c].curr = e + 1 /\ v[c].says = <<"semi">>
  <2>1. v[c] = Read(u, e)
    BY <1>12 DEF e
  <2>2. /\ Read(u, e).type = "SIGN" /\ Read(u, e).prefix = "semi" /\ Read(u, e).quoted = FALSE
        /\ Read(u, e).start = e /\ Read(u, e).end = e + 1 /\ Read(u, e).curr = e + 1
        /\ Read(u, e).at = e /\ Read(u, e).says = <<"semi">>
    BY <1>5, <1>6, SemiRead
  <2> QED BY <2>1, <2>2, Zenon
<1>14. /\ w[c].type = "SIGN" /\ w[c].prefix = "semi" /\ w[c].quoted = FALSE /\ w[c].at = e
       /\ w[c].start = e /\ w[c].end = e + 1 /\ w[c].curr = e + 1 /\ w[c].says = <<"semi">>
  <2>1. w[c] = Read(t, e)
    BY <1>1 DEF e
  <2>2. /\ Read(t, e).type = "SIGN" /\ Read(t, e).prefix = "semi" /\ Read(t, e).quoted = FALSE
        /\ Read(t, e).start = e /\ Read(t, e).end = e + 1 /\ Read(t, e).curr = e + 1
        /\ Read(t, e).at = e /\ Read(t, e).says = <<"semi">>
    BY <1>3, SemiRead, ZenonT(40)
  <2> QED BY <2>1, <2>2, Zenon
<1>15. Moved(w[c], v[c], 0)
  <2>1. e = e + 0 /\ e + 1 = (e + 1) + 0
    BY <1>3
  <2> QED BY <1>13, <1>14, <2>1 DEF Moved
<1>16. \A k \in 1..c : Moved(w[k], v[k], 0)
  BY <1>8, <1>12, <1>15
<1>17. c \in 1..Len(v) - 1 /\ v[c + 1].type = "EOS"
  <2>1. c \in 1..Len(v) /\ ~IsFinal(v[c])
    BY <1>12, <1>13, <1>3 DEF IsFinal
  <2>2. c \in 1..Len(v) - 1
    BY <1>7, <2>1
  <2>3. v[c + 1] = Read(u, e + 1)
    BY <1>7, <1>13, <2>2
  <2> QED BY <1>5, <2>2, <2>3, ReadEnd
<1>18. Len(v) = c + 1
  <2> DEFINE x == c + 1
  <2>1. IsFinal(v[x])
    BY <1>17 DEF IsFinal
  <2>2. x \in 1..Len(v)
    BY <1>7, <1>17
  <2> HIDE DEF x
  <2>3. x \notin 1..Len(v) - 1
    BY <1>7, <2>1
  <2>4. x = Len(v)
    BY <1>7, <2>2, <2>3
  <2> QED BY <2>4 DEF x
<1> QED BY <1>3, <1>5, <1>16, <1>17, <1>18 DEF e

\* Nothing is moved by nothing.
LEMMA MovedNone ==
  ASSUME NEW s \in Stmts
  PROVE  MovedStmt(s, 0) = s
<1>1. /\ s.start \in Int /\ s.end \in Int /\ s.exprs \in Seq(Nodes)
      /\ s.limit \subseteq Limits /\ s.comments \subseteq Marked
  BY DEF Stmts
<1>2. ASSUME NEW x \in Nodes
      PROVE  MovedBy(x, 0) = x
  <2>1. x.start + 0 = x.start /\ x.end + 0 = x.end
    BY DEF Nodes
  <2>2. MovedBy(x, 0) = [[x EXCEPT !.start = x.start] EXCEPT !.end = x.end]
    BY <2>1 DEF MovedBy, Nodes
  <2> QED BY <2>2 DEF Nodes
<1>3. ASSUME NEW x \in Marked
      PROVE  MovedBy(x, 0) = x
  <2>1. x.start + 0 = x.start /\ x.end + 0 = x.end
    BY DEF Marked
  <2>2. MovedBy(x, 0) = [[x EXCEPT !.start = x.start] EXCEPT !.end = x.end]
    BY <2>1 DEF MovedBy, Marked
  <2> QED BY <2>2 DEF Marked
<1>4. ASSUME NEW x \in Limits
      PROVE  MovedLimit(x, 0) = x
  <2> DEFINE
    rows == x.rows
    offset == x.offset
    start == x.start
    end == x.end
  <2>1. /\ rows + 0 = rows /\ start + 0 = start /\ end + 0 = end
        /\ (IF offset = -1 THEN -1 ELSE offset + 0) = offset
    BY DEF Limits
  <2>2. x = [rows |-> rows, offset |-> offset, start |-> start, end |-> end]
    BY DEF Limits
  <2> HIDE DEF rows, offset, start, end
  <2>3. MovedLimit(x, 0) = [rows |-> rows + 0, offset |-> IF offset = -1 THEN -1 ELSE offset + 0,
                            start |-> start + 0, end |-> end + 0]
    BY <2>2, LimitMovedBy
  <2> QED BY <2>1, <2>2, <2>3
<1>5. MovedList(s.exprs, 0) = s.exprs
  <2> DEFINE q == s.exprs
  <2>1. q \in Seq(Nodes) /\ DOMAIN q = 1..Len(q)
    BY <1>1
  <2>2. \A i \in DOMAIN q : MovedBy(q[i], 0) = q[i]
    BY <1>2, <2>1
  <2>3. q = [i \in DOMAIN q |-> q[i]]
    BY <2>1
  <2> HIDE DEF q
  <2>4. MovedList(q, 0) = q
    BY <2>2, <2>3 DEF MovedList
  <2> QED BY <2>4 DEF q
<1>6. {MovedBy(c, 0) : c \in s.comments} = s.comments
  BY <1>1, <1>3
<1>7. {MovedLimit(c, 0) : c \in s.limit} = s.limit
  BY <1>1, <1>4
<1>8. s.start + 0 = s.start /\ s.end + 0 = s.end
  BY <1>1
<1>9. MovedStmt(s, 0) = [start |-> s.start, end |-> s.end, exprs |-> s.exprs,
                         comments |-> s.comments, limit |-> s.limit]
  BY <1>5, <1>6, <1>7, <1>8 DEF MovedStmt
<1> QED BY <1>9 DEF Stmts

\* The tokens in front of a semicolon are aligned with those of the text up to it,
LEMMA PrefixAligned ==
  ASSUME NEW t \in Seq(Chars), NEW w, IsWalk(t, 0, w), NEW c \in 1..Len(w), IsSign(w[c], "semi"),
         NEW u, u = Slice(t, 0, w[c].curr), NEW v, IsWalk(u, 0, v)
  PROVE  Aligned(w, v, 0, 0, c)
<1>1. /\ u \in Seq(Chars) /\ Len(v) = c + 1 /\ \A k \in 1..c : Moved(w[k], v[k], 0)
  BY PrefixWalk
<1>2. Ended(w)
  BY WalkEnded
<1>3. Ended(v) /\ \A k \in 1..Len(v) : v[k].start \in Nat
  <2>1. 0 \in 0..Len(u)
    BY <1>1
  <2> QED BY <1>1, <2>1, WalkEnded, WalkStarts
<1>4. ASSUME NEW k \in 1..c
      PROVE  Moved(w[0 + k], v[k], 0) /\ v[k].start \in Nat
  BY <1>1, <1>3
<1>5. 0 \in Nat /\ 0 \in Int /\ c \in 0..Len(v) /\ 0 + c <= Len(w) /\ ~(0 > 0) /\ c # Len(v)
  BY <1>1, <1>2 DEF Ended
<1> QED BY <1>2, <1>3, <1>4, <1>5 DEF Aligned

\* and those behind it with those of the rest.
LEMMA RestAligned ==
  ASSUME NEW t \in Seq(Chars), NEW w, IsWalk(t, 0, w), NEW c \in 1..Len(w), IsSign(w[c], "semi"),
         NEW u, u = Slice(t, w[c].curr, Len(t)), NEW v, IsWalk(u, 0, v)
  PROVE  Aligned(w, v, c, w[c].curr, Len(v)) /\ Len(u) = Len(t) - w[c].curr
<1>0. 0 \in 0..Len(t)
  OBVIOUS
<1> DEFINE
  d == w[c].curr
  x == c + 1
<1>1. Ended(w) /\ Len(w) \in Nat
  BY <1>0, WalkEnded DEF Ended
<1>2. c \in 0..Len(w) - 1 /\ c \in 1..Len(w) - 1
  <2>1. c # Len(w)
    BY <1>1 DEF Ended, IsSign
  <2> QED BY <1>1, <2>1
<1>3. d = w[x].at /\ d \in 0..Len(t)
  <2>1. x \in 1..Len(w)
    BY <1>1, <1>2
  <2> HIDE DEF x
  <2>2. w[x].at \in 0..Len(t)
    BY <1>0, <2>1, WalkPlaces
  <2>3. w[c + 1].at = w[c].curr
    BY <1>0, <1>2, WalkPlaces
  <2> QED BY <2>2, <2>3 DEF x
<1>4. u = Slice(t, d, Len(t))
  OBVIOUS
<1> HIDE DEF d
<1>5. u \in Seq(Chars) /\ Len(u) = Len(t) - d
  BY <1>3, <1>4, RestAgrees
<1>6. Len(w) = c + Len(v) /\ \A k \in 1..Len(v) : Moved(w[c + k], v[k], d)
  BY <1>2, <1>3, <1>4, RestWalk
<1>7. Ended(v) /\ (\A k \in 1..Len(v) : v[k].start \in Nat) /\ Len(v) \in Nat
  BY <1>5, WalkEnded, WalkStarts DEF Ended
<1>8. IsSolid(w[c])
  BY DEF IsSign, IsSolid
<1>9. c \in Nat /\ d \in Int /\ Len(v) \in 0..Len(v) /\ c + Len(v) <= Len(w)
  BY <1>1, <1>3, <1>6, <1>7
<1> QED BY <1>1, <1>5, <1>6, <1>7, <1>8, <1>9 DEF Aligned, d

Lastly(ss) == ss[Len(ss)]

\* The last statement of some ends with the n-th character, and no LIMIT of one
\* number reads its semicolon.
EndsAt(ss, n) == ss # <<>> /\ Lastly(ss).end = n /\ \A c \in Lastly(ss).limit : c.offset # -1

\* The last of a sequence with one in front.
LEMMA LastOf ==
  ASSUME NEW S, NEW a \in S, NEW q \in Seq(S)
  PROVE  /\ <<a>> \o q # <<>>
         /\ q = <<>> => Lastly(<<a>> \o q) = a
         /\ q # <<>> => Lastly(<<a>> \o q) = Lastly(q)
<1> DEFINE
  p == <<a>> \o q
  n == Len(q)
<1>1. n \in Nat /\ Len(p) = n + 1 /\ p[1] = a /\ p # <<>>
  OBVIOUS
<1>2. CASE q = <<>>
  BY <1>1, <1>2 DEF Lastly
<1>3. CASE q # <<>>
  <2>1. n \in 1..n /\ n > 0
    BY <1>3
  <2>2. p[n + 1] = q[n]
    BY <2>1
  <2> HIDE DEF p
  <2>3. Lastly(p) = q[n]
    BY <1>1, <2>2 DEF Lastly
  <2> QED BY <1>1, <1>3, <2>3 DEF Lastly, p
<1> QED BY <1>1, <1>2, <1>3

\* What SelectMoved says of the statement that is read at i.
SelectGoes(w, v, h, d, n, i) ==
    \E e \in i + 1..Len(v) :
        /\ IsEnd(v[e]) /\ Select(v, i).node.end = v[e].end /\ Select(v, i).next = After(v, e)
        /\ \/ \E c \in Select(v, i).node.limit : c.offset = -1
           \/ \E j \in i..Len(v) : v[j].type \in {"USER_VAR", "ID", "INT"} /\ e = After(v, j)
        /\ e <= n => /\ Select(w, h + i).next = After(w, h + e)
                     /\ Select(w, h + i).node = MovedStmt(Select(v, i).node, d)

\* The statement at i, as SelectGoes says.
LEMMA SelectWent ==
  ASSUME NEW w, NEW v, NEW h, NEW d, NEW n, Aligned(w, v, h, d, n), NEW i \in 1..n,
         IsWord(v[i], "SELECT"), Select(v, i).next # 0, \A k \in 1..Len(v) : v[k].start \in Nat
  PROVE  SelectGoes(w, v, h, d, n, i)
  BY SelectMoved DEF SelectGoes

Regroups(a, q, r) == <<a>> \o (q \o r) = (<<a>> \o q) \o r

\* Sequences are joined in any grouping.
LEMMA Regrouped ==
  ASSUME NEW S, NEW a \in S, NEW q \in Seq(S), NEW r \in Seq(S)
  PROVE  Regroups(a, q, r)
<1> DEFINE
  p == <<a>>
  x == p \o (q \o r)
  y == (p \o q) \o r
<1>1. /\ p \in Seq(S) /\ Len(p) = 1 /\ Len(q) \in Nat /\ Len(r) \in Nat
      /\ q \o r \in Seq(S) /\ p \o q \in Seq(S)
      /\ Len(q \o r) = Len(q) + Len(r) /\ Len(p \o q) = 1 + Len(q)
  OBVIOUS
<1>2. x \in Seq(S) /\ y \in Seq(S) /\ Len(x) = Len(y)
  BY <1>1
<1>3. ASSUME NEW i \in 1..Len(x)
      PROVE  x[i] = y[i]
  BY <1>1
<1> HIDE DEF x, y
<1>4. x = y
  BY <1>2, <1>3, SeqEqual
<1> QED BY <1>4 DEF x, y, Regroups

\* The statements from i on are those of v, and then those behind the semicolon.
JoinsAt(w, m, v, n, i, more) ==
    Statements(w, m)[i] = [ok |-> TRUE, stmts |-> Statements(v, n)[i].stmts \o more]

\* From a place on, the statements in front of a semicolon that ends one are
\* those of the text that stops there, and go on with those behind it.
LEMMA StatementsJoined ==
  ASSUME NEW w, NEW v, NEW c \in Nat, c > 0, Aligned(w, v, 0, 0, c), Len(v) = c + 1,
         IsSign(v[c], "semi"), v[c + 1].type = "EOS", NEW n \in Int, NEW m \in Int,
         \A k \in 1..c - 1 : IsEnd(v[k]) => v[k].end # n,
         \A k \in 1..c - 1 : w[k].curr < m,
         \A k \in 1..Len(v) : v[k].start \in Nat,
         NEW T, Stmts \subseteq T, NEW more \in Seq(T),
         Statements(w, m)[After(w, c)] = [ok |-> TRUE, stmts |-> more],
         NEW i \in 1..Len(v), Statements(v, n)[i].ok, EndsAt(Statements(v, n)[i].stmts, n)
  PROVE  i < c /\ JoinsAt(w, m, v, n, i, more)
<1>1. /\ Ended(w) /\ Ended(v) /\ Len(w) \in Nat /\ Len(v) \in Nat /\ c <= Len(w)
      /\ \A k \in 1..Len(v) : v[k] \in Reads
  BY DEF Aligned, Ended
<1> DEFINE
  D == 1..Len(v)
  p(k) == Statements(v, n)[k]
  r(k) == Statements(w, m)[k]
  Good(k) == p(k).ok /\ EndsAt(p(k).stmts, n) =>
                 k < c /\ r(k) = [ok |-> TRUE, stmts |-> p(k).stmts \o more]
  S == {k \in D : Good(k)}
<1>2. ASSUME NEW k \in D, \A j \in D : k < j => j \in S
      PROVE  k \in S
  <2> SUFFICES ASSUME p(k).ok, EndsAt(p(k).stmts, n) PROVE Good(k)
    OBVIOUS
  <2> DEFINE
    x == Select(v, k)
    y == Select(w, k)
    rest == p(x.next)
  <2>1. p(k) = IF AtEnd(v[k], n) THEN [ok |-> TRUE, stmts |-> <<>>]
                ELSE IF ~IsWord(v[k], "SELECT") THEN Refusal
                ELSE Statement(x, rest)
    BY <1>1, StatementsDefined
  <2> HIDE DEF x, y, rest
  <2>2. IsWord(v[k], "SELECT") /\ p(k) = Statement(x, rest) /\ p(k).stmts # <<>>
    <3>1. p(k).stmts # <<>> /\ p(k).ok
      BY DEF EndsAt
    <3> HIDE DEF p
    <3> QED BY <2>1, <3>1 DEF Refusal
  <2>3. x.next # 0 /\ rest.ok /\ p(k).stmts = <<x.node>> \o rest.stmts
    <3>1. p(k).ok
      OBVIOUS
    <3> HIDE DEF p
    <3> QED BY <2>2, <3>1 DEF Statement, Refusal
  <2>4. k \in 1..c - 1
    BY <1>1, <2>2 DEF IsWord, IsSign
  <2>5. k \in 1..c /\ k \in 1..Len(w)
    BY <1>1, <2>4
  <2>6. IsWord(w[k], "SELECT") /\ ~AtEnd(w[k], m)
    <3>1. (\A a : IsWord(w[0 + k], a) <=> IsWord(v[k], a)) /\ w[0 + k] \in Reads
      BY <2>5, AlignedToken
    <3>2. 0 + k = k
      BY <2>4
    <3>3. IsWord(w[k], "SELECT") /\ w[k].curr \in Int
      BY <2>2, <3>1, <3>2 DEF Reads
    <3>4. w[k].curr < m
      BY <2>4
    <3>5. ~(w[k].curr >= m)
      BY <3>3, <3>4
    <3> QED BY <3>3, <3>5 DEF AtEnd, IsWord
  <2>7. r(k) = Statement(y, r(y.next))
    BY <2>6, <1>1, <2>5, StatementsDefined DEF y
  <2>8. x.next \in k + 1..Len(v) /\ x.node \in Stmts
    BY <1>1, <2>3, SelectIs DEF x
  <2>9. PICK e \in k + 1..Len(v) :
          /\ IsEnd(v[e]) /\ x.node.end = v[e].end /\ x.next = After(v, e)
          /\ \/ \E a \in x.node.limit : a.offset = -1
             \/ \E j \in k..Len(v) : v[j].type \in {"USER_VAR", "ID", "INT"} /\ e = After(v, j)
          /\ e <= c => /\ Select(w, 0 + k).next = After(w, 0 + e)
                       /\ Select(w, 0 + k).node = MovedStmt(x.node, 0)
    <3>1. IsWord(v[k], "SELECT") /\ Select(v, k).next # 0
      BY <2>2, <2>3 DEF x
    <3>2. SelectGoes(w, v, 0, 0, c, k)
      BY <2>5, <3>1, SelectWent
    <3> QED BY <3>2 DEF x, SelectGoes
  <2>10. e <= c => y.next = After(w, e) /\ y.node = x.node
    <3>1. 0 + k = k /\ 0 + e = e
      BY <1>1, <2>4
    <3>2. MovedStmt(x.node, 0) = x.node
      BY <2>8, MovedNone
    <3> QED BY <2>9, <3>1, <3>2 DEF y
  <2>11. rest.stmts \in Seq(Stmts)
    <3> DEFINE a == x.next
    <3>1. a \in 1..Len(v) /\ Statements(v, n)[a].ok /\ rest = Statements(v, n)[a]
      BY <1>1, <2>3, <2>4, <2>8 DEF rest
    <3> HIDE DEF a
    <3>2. \E f : Tracks(v, n, rest.stmts, f) /\ f[1] = a
      BY ONLY <1>1, <3>1, StatementsTracked
    <3> QED BY <3>2 DEF Tracks
  <2>12. /\ rest.stmts = <<>> => Lastly(p(k).stmts) = x.node
         /\ rest.stmts # <<>> => Lastly(p(k).stmts) = Lastly(rest.stmts)
    <3> DEFINE
      a == x.node
      q == rest.stmts
    <3>1. a \in Stmts /\ q \in Seq(Stmts) /\ p(k).stmts = <<a>> \o q
      BY <2>3, <2>8, <2>11
    <3> HIDE DEF a, q, p
    <3>2. (q = <<>> => Lastly(<<a>> \o q) = a) /\ (q # <<>> => Lastly(<<a>> \o q) = Lastly(q))
      BY <3>1, LastOf
    <3> QED BY <3>1, <3>2 DEF a, q
  <2> HIDE DEF S, D, p, r
  <2>13. CASE rest.stmts = <<>>
    <3>1. v[e].end = n /\ \A a \in x.node.limit : a.offset # -1
      BY <2>9, <2>12, <2>13 DEF EndsAt
    <3>2. e = c
      <4>1. PICK j \in k..Len(v) : v[j].type \in {"USER_VAR", "ID", "INT"} /\ e = After(v, j)
        BY <2>9, <3>1
      <4>2. k \in 1..Len(v)
        BY <1>1, <2>4
      <4>3. j \in 0..Len(v) /\ j \in 1..c + 1 /\ e \in 1..c + 1 /\ e \notin 1..c - 1
        BY <1>1, <2>9, <3>1, <4>2
      <4>4. j \in 1..c - 1
        BY <4>3, <4>1 DEF IsSign
      <4>5. e # c + 1
        <5>1. \A a \in j + 1..After(v, j) - 1 : ~IsSolid(v[a])
          BY <1>1, <4>3, AfterIs
        <5>2. IsSolid(v[c])
          BY DEF IsSign, IsSolid
        <5>3. c \notin j + 1..After(v, j) - 1
          BY <5>1, <5>2
        <5> QED BY <4>1, <4>4, <5>3
      <4> QED BY <4>3, <4>5
    <3>3. y.next = After(w, c) /\ y.node = x.node
      BY <2>10, <3>2
    <3>4. y.next # 0
      <4>1. c \in 0..Len(w)
        BY <1>1
      <4>2. After(w, c) \in 1..Len(w)
        BY <1>1, <4>1, AfterIs
      <4> QED BY <3>3, <4>2
    <3>5. r(y.next) = [ok |-> TRUE, stmts |-> more]
      BY <3>3 DEF r
    <3>6. r(k) = [ok |-> TRUE, stmts |-> <<x.node>> \o more]
      BY <2>7, <3>3, <3>4, <3>5 DEF Statement
    <3>7. p(k).stmts = <<x.node>>
      BY <2>3, <2>8, <2>13
    <3> QED BY <2>4, <3>6, <3>7
  <2>14. CASE rest.stmts # <<>>
    <3>1. EndsAt(rest.stmts, n)
      BY <2>12, <2>14 DEF EndsAt
    <3>2. x.next \in D /\ k < x.next
      BY <1>1, <2>4, <2>8 DEF D
    <3>3. Good(x.next)
      BY <1>2, <3>2 DEF S
    <3>4. x.next < c /\ r(x.next) = [ok |-> TRUE, stmts |-> rest.stmts \o more]
      BY <2>3, <3>1, <3>3 DEF rest
    <3>5. e \in 0..c /\ After(v, e) <= c
      <4>1. e \in 0..Len(v)
        BY <1>1, <2>4
      <4>2. e <= After(v, e)
        BY <1>1, <4>1, AfterIs
      <4> QED BY <1>1, <2>8, <2>9, <3>4, <4>1, <4>2
    <3>6. y.next = x.next /\ y.node = x.node
      <4>1. After(w, 0 + e) = 0 + After(v, e)
        BY <3>5, AfterMoved
      <4>2. 0 + e = e /\ 0 + After(v, e) = After(v, e)
        BY <2>8, <2>9, <3>5
      <4> QED BY <2>9, <2>10, <3>5, <4>1, <4>2
    <3>7. r(k) = [ok |-> TRUE, stmts |-> <<x.node>> \o (rest.stmts \o more)]
      <4>1. y.next # 0
        BY <2>4, <2>8, <3>6
      <4>2. r(y.next) = [ok |-> TRUE, stmts |-> rest.stmts \o more]
        BY <3>4, <3>6
      <4> QED BY <2>7, <3>6, <4>1, <4>2 DEF Statement
    <3>8. <<x.node>> \o (rest.stmts \o more) = (<<x.node>> \o rest.stmts) \o more
      <4> DEFINE
        a == x.node
        q == rest.stmts
      <4>1. a \in T /\ q \in Seq(T) /\ more \in Seq(T)
        BY <2>8, <2>11
      <4> HIDE DEF a, q
      <4>2. Regroups(a, q, more)
        BY ONLY <4>1, Regrouped
      <4> QED BY <4>2 DEF a, q, Regroups
    <3>9. r(k) = [ok |-> TRUE, stmts |-> p(k).stmts \o more]
      BY <2>3, <3>7, <3>8, Zenon
    <3> QED BY <2>4, <3>9
  <2>15. Good(k)
    BY <2>13, <2>14
  <2> QED BY <2>15 DEF S
<1>3. D \subseteq Int /\ Len(v) \in Int /\ (\A k \in D : k <= Len(v)) /\ i \in D
  BY <1>1
<1> HIDE DEF D, S
<1>4. D \subseteq S
  BY <1>2, <1>3, Downward
<1>5. Good(i)
  BY <1>3, <1>4 DEF S
<1> QED BY <1>5 DEF JoinsAt

\* Statements that are accepted, as a record.
LEMMA StatementsForm ==
  ASSUME NEW w, Ended(w), NEW m, NEW i \in 1..Len(w), Statements(w, m)[i].ok
  PROVE  Statements(w, m)[i] = [ok |-> TRUE, stmts |-> Statements(w, m)[i].stmts]
<1> DEFINE
  r == Statements(w, m)[i]
  rest == Statements(w, m)[Select(w, i).next]
<1>1. r = IF AtEnd(w[i], m) THEN [ok |-> TRUE, stmts |-> <<>>]
          ELSE IF ~IsWord(w[i], "SELECT") THEN Refusal ELSE Statement(Select(w, i), rest)
  BY StatementsDefined
<1>2. r.ok
  OBVIOUS
<1> HIDE DEF r, rest
<1>3. \/ r = [ok |-> TRUE, stmts |-> <<>>]
      \/ r = [ok |-> TRUE, stmts |-> <<Select(w, i).node>> \o rest.stmts]
  BY <1>1, <1>2 DEF Refusal, Statement
<1>4. r = [ok |-> TRUE, stmts |-> r.stmts]
  BY <1>3
<1> QED BY <1>4 DEF r

\* Moved statements are a sequence.
LEMMA StmtsSeq ==
  ASSUME NEW q \in Seq(Stmts), NEW d
  PROVE  MovedStmts(q, d) \in Seq(Stmts \cup {MovedStmt(b, d) : b \in Stmts})
<1> DEFINE T == Stmts \cup {MovedStmt(b, d) : b \in Stmts}
<1>1. DOMAIN q = 1..Len(q) /\ Len(q) \in Nat /\ \A i \in 1..Len(q) : MovedStmt(q[i], d) \in T
  OBVIOUS
<1> HIDE DEF T
<1>2. MovedStmts(q, d) = [i \in 1..Len(q) |-> MovedStmt(q[i], d)]
  BY <1>1 DEF MovedStmts
<1>3. MovedStmts(q, d) \in [1..Len(q) -> T]
  BY <1>1, <1>2
<1> HIDE DEF T
<1>4. MovedStmts(q, d) \in Seq(T)
  BY <1>1, <1>3
<1> QED BY <1>4 DEF T

\* What is parsed is what the loop gives for the first token.
LEMMA ParseIs ==
  ASSUME NEW t \in Seq(Chars), NEW w, w = Walk(t)
  PROVE  /\ IsWalk(t, 0, w) /\ Ended(w) /\ After(w, 0) \in 1..Len(w)
         /\ Parse(t) = Statements(w, Len(t))[After(w, 0)]
         /\ Parse(t).ok => Parse(t).stmts \in Seq(Stmts)
<1>1. IsWalk(t, 0, w) /\ Ended(w) /\ After(w, 0) \in 1..Len(w)
  BY ParseTracked
<1>2. Parse(t) = Statements(w, Len(t))[After(w, 0)]
  BY DEF Parse, ParseWalk
<1>3. Parse(t).ok => Parse(t).stmts \in Seq(Stmts)
  BY ParseTracked DEF Tracks
<1> QED BY <1>1, <1>2, <1>3

Joins(t, u, x, n) ==
    Parse(t) = [ok |-> TRUE, stmts |-> Parse(u).stmts \o MovedStmts(Parse(x).stmts, n)]

\* A text that is cut behind a semicolon which ends a statement.
LEMMA ParseJoined ==
  ASSUME NEW t \in Seq(Chars), NEW w, w = Walk(t), NEW c \in 1..Len(w), IsSign(w[c], "semi"),
         NEW n, n = w[c].curr, NEW u, u = Slice(t, 0, n), NEW x, x = Slice(t, n, Len(t)),
         Parse(u).ok, EndsAt(Parse(u).stmts, n), Parse(x).ok
  PROVE  Joins(t, u, x, n)
<1> DEFINE
  v == Walk(u)
  z == Walk(x)
  m == Len(t)
  l == Len(x)
  more == MovedStmts(Parse(x).stmts, n)
  i == After(v, 0)
  j == After(z, 0)
<1>0. 0 \in 0..Len(t) /\ m \in Nat
  OBVIOUS
<1>1. /\ IsWalk(t, 0, w) /\ Ended(w) /\ Len(w) \in Nat
      /\ Parse(t) = Statements(w, m)[After(w, 0)]
      /\ \A k \in 1..Len(w) : w[k].at \in 0..Len(t) /\ w[k] \in Reads
  <2>1. IsWalk(t, 0, w) /\ Ended(w) /\ Parse(t) = Statements(w, m)[After(w, 0)]
    BY ParseIs
  <2>2. \A k \in 1..Len(w) : w[k].at \in 0..Len(t)
    BY <1>0, <2>1, WalkPlaces
  <2> QED BY <2>1, <2>2 DEF Ended
<1>2. n = w[c].at + 1 /\ n \in 0..Len(t) /\ w[c].at \in 0..Len(t) - 1
  <2>1. w[c].at \in 0..Len(t) /\ ReadAt(t, w[c].at, w[c])
    BY <1>0, <1>1, WalkPlaces
  <2>2. w[c].at < Len(t) /\ w[c].curr = w[c].at + 1
    BY <2>1, SignAt
  <2> QED BY <2>1, <2>2
<1>3. u \in Seq(Chars) /\ Len(u) = n /\ x \in Seq(Chars) /\ l = m - n
  <2> DEFINE e == w[c].at
  <2>1. e \in 0..Len(t) - 1 /\ u = Slice(t, 0, e + 1) /\ e + 1 = n
    BY <1>2
  <2> HIDE DEF e
  <2>2. u \in Seq(Chars) /\ Len(u) = e + 1
    BY <2>1, PrefixAgrees
  <2>3. x \in Seq(Chars) /\ Len(x) = Len(t) - n
    BY <1>2, RestAgrees
  <2> QED BY <2>1, <2>2, <2>3
<1>4. /\ IsWalk(u, 0, v) /\ Ended(v) /\ i \in 1..Len(v) /\ Parse(u) = Statements(v, n)[i]
      /\ Len(v) \in Nat /\ \A k \in 1..Len(v) : v[k] \in Reads
  <2>1. /\ IsWalk(u, 0, v) /\ Ended(v) /\ i \in 1..Len(v) /\ Parse(u) = Statements(v, Len(u))[i]
    BY <1>3, ParseIs
  <2>2. v \in Seq(Reads)
    BY <2>1 DEF Ended
  <2> HIDE DEF v, i
  <2>3. Len(v) \in Nat /\ \A k \in 1..Len(v) : v[k] \in Reads
    BY <2>2
  <2> QED BY <1>3, <2>1, <2>3
<1>5. /\ IsWalk(x, 0, z) /\ Ended(z) /\ j \in 1..Len(z) /\ Parse(x) = Statements(z, l)[j]
      /\ Parse(x).stmts \in Seq(Stmts) /\ Len(z) \in Nat
  BY <1>3, ParseIs, SMTT(20) DEF Ended
<1> HIDE DEF v, z, i, j, m, l
<1>6. /\ Len(v) = c + 1 /\ v[c + 1].type = "EOS"
      /\ \A k \in 1..c : Moved(w[k], v[k], 0)
  BY <1>1, <1>4, PrefixWalk
<1>7. Aligned(w, v, 0, 0, c) /\ \A k \in 1..Len(v) : v[k].start \in Nat
  BY <1>1, <1>3, <1>4, PrefixAligned, WalkStarts
<1>8. Aligned(w, z, c, n, Len(z))
  BY <1>1, <1>5, RestAligned
<1>9. IsSign(v[c], "semi") /\ v[c].at = w[c].at /\ c \in 1..Len(v) /\ c \in 1..c /\ c \in Nat /\ c > 0
  <2>1. c \in 1..Len(v) /\ c \in 1..c /\ c \in Nat /\ c > 0
    BY <1>6
  <2>2. Moved(w[c], v[c], 0) /\ v[c] \in Reads
    BY <1>4, <1>6, <2>1
  <2>3. v[c].at \in Int
    BY <2>2 DEF Reads
  <2>4. w[c].at = v[c].at
    BY <2>2, <2>3 DEF Moved
  <2> QED BY <2>1, <2>2, <2>4 DEF Moved, IsSign
<1>10. Statements(w, m)[After(w, c)] = [ok |-> TRUE, stmts |-> more]
  <2> DEFINE
    e == c + j
    o == l + n
  <2>1. o = m /\ l \in Int /\ n \in Int
    BY <1>0, <1>2, <1>3, SMTT(30)
  <2>2. e = After(w, c) /\ After(w, c) \in 1..Len(w)
    <3> DEFINE a == 0
    <3>1. a \in 0..Len(z) /\ After(z, a) = j /\ j <= Len(z) /\ c + a = c
      BY <1>5, <1>9 DEF j
    <3>2. c \in 0..Len(w)
      BY <1>1
    <3>3. After(w, c) \in 1..Len(w)
      BY <1>1, <3>2, AfterIs
    <3> HIDE DEF a
    <3>4. After(w, c + a) = c + After(z, a)
      BY <1>8, <3>1, AfterMoved
    <3> QED BY <3>1, <3>3, <3>4
  <2>3. Statements(z, l)[j].ok
    BY <1>5
  <2>4. Statements(w, o)[e].ok /\ Statements(w, o)[e].stmts = MovedStmts(Statements(z, l)[j].stmts, n)
    BY <1>5, <1>8, <2>1, <2>3, StatementsMoved
  <2> HIDE DEF e, o
  <2>5. Statements(w, m)[After(w, c)].ok /\ Statements(w, m)[After(w, c)].stmts = more
    BY <1>5, <2>1, <2>2, <2>4
  <2> QED BY <1>1, <2>2, <2>5, StatementsForm
<1>11. ASSUME NEW k \in 1..c - 1
       PROVE  (IsEnd(v[k]) => v[k].end # n) /\ w[k].curr < m
  <2>1. k \in 1..Len(v) /\ c \in k..Len(v) /\ k < c /\ k \in 1..Len(w) /\ c \in k..Len(w)
    BY <1>1, <1>6
  <2>2. 0 \in 0..Len(u)
    BY <1>3
  <2>3. v[k].curr <= v[c].at
    BY <1>3, <1>4, <2>1, <2>2, WalkForward
  <2>4. w[k].curr <= w[c].at
    BY <1>0, <1>1, <2>1, WalkForward
  <2>5. v[k].curr \in Int /\ w[k].curr \in Int
    BY <1>1, <1>4, <2>1 DEF Reads
  <2>6. IsEnd(v[k]) => v[k].end = v[k].curr
    <3>1. v[k].at \in 0..Len(u) /\ ReadAt(u, v[k].at, v[k])
      BY <1>3, <1>4, <2>1, <2>2, WalkPlaces
    <3> QED BY <1>3, <3>1, EndAt
  <2> QED BY <1>2, <1>9, <2>3, <2>4, <2>5, <2>6 DEF m
<1> DEFINE T == Stmts \cup {MovedStmt(b, n) : b \in Stmts}
<1>12. Stmts \subseteq T /\ more \in Seq(T)
  BY <1>5, StmtsSeq
<1> HIDE DEF T, more
<1>13. Statements(v, n)[i].ok /\ EndsAt(Statements(v, n)[i].stmts, n)
  BY <1>4
<1>14. i < c /\ JoinsAt(w, m, v, n, i, more)
  <2>1. n \in Int /\ m \in Int
    BY <1>0, <1>2
  <2>2. \A k \in 1..c - 1 : IsEnd(v[k]) => v[k].end # n
    BY <1>11
  <2>3. \A k \in 1..c - 1 : w[k].curr < m
    BY <1>11
  <2> QED BY ONLY <1>4, <1>6, <1>7, <1>9, <1>10, <1>12, <1>13, <2>1, <2>2, <2>3, StatementsJoined
<1>15. After(w, 0) = i
  <2>1. 0 \in 0..c /\ After(v, 0) <= c /\ 0 + 0 = 0 /\ 0 + i = i
    BY <1>4, <1>9, <1>14 DEF i
  <2>2. After(w, 0 + 0) = 0 + After(v, 0)
    BY <1>7, <2>1, AfterMoved
  <2> QED BY <2>1, <2>2 DEF i
<1> QED BY <1>1, <1>4, <1>14, <1>15 DEF more, JoinsAt, Joins

\* Shift is what moves a statement here.
LEMMA ShiftIs ==
  ASSUME NEW s, NEW d
  PROVE  Shift(s, d) = MovedStmt(s, d)
  BY DEF Shift, MovedStmt, MovedBy, MovedLimit, MovedList

\* Queries that are accepted one by one are accepted in one text, as the same
\* statements (mysql-parser.js:95-144), but behind a LIMIT of one number.
THEOREM StatementsJoinedAlways == Spec => []StatementsJoin
<1>1. TextOK => StatementsJoin
  <2> SUFFICES ASSUME TextOK, answer = "none" PROVE StatementsJoin
    BY DEF StatementsJoin
  <2> SUFFICES ASSUME NEW cut \in {l.curr : l \in {w \in Range(Walk(text)) : IsSign(w, "semi")}},
                      NEW first \in {Parse(Slice(text, 0, cut))},
                      NEW rest \in {Parse(Slice(text, cut, Len(text)))}
               PROVE  LET last == first.stmts[Len(first.stmts)]
                      IN first.ok /\ first.stmts # <<>> /\ rest.ok =>
                           \/ last.end # cut
                           \/ \E c \in last.limit : c.offset = -1
                           \/ Parse(text) = [ok |-> TRUE, stmts |-> first.stmts \o
                                  [i \in DOMAIN rest.stmts |-> Shift(rest.stmts[i], cut)]]
    BY DEF StatementsJoin
  <2> SUFFICES ASSUME first.ok, first.stmts # <<>>, rest.ok,
                      first.stmts[Len(first.stmts)].end = cut,
                      ~\E c \in first.stmts[Len(first.stmts)].limit : c.offset = -1
               PROVE  Parse(text) = [ok |-> TRUE, stmts |-> first.stmts \o
                          [i \in DOMAIN rest.stmts |-> Shift(rest.stmts[i], cut)]]
    OBVIOUS
  <2> DEFINE w == Walk(text)
  <2>1. text \in Seq(Chars)
    BY DEF TextOK
  <2>2. Ended(w)
    BY <2>1, ParseIs
  <2>3. PICK c \in 1..Len(w) : IsSign(w[c], "semi") /\ cut = w[c].curr
    <3>1. PICK l \in Range(w) : IsSign(l, "semi") /\ cut = l.curr
      OBVIOUS
    <3>2. DOMAIN w = 1..Len(w)
      BY <2>2 DEF Ended
    <3>3. \E c \in DOMAIN w : l = w[c]
      BY <3>1 DEF Range
    <3> QED BY <3>1, <3>2, <3>3
  <2>4. EndsAt(first.stmts, cut)
    BY DEF EndsAt, Lastly
  <2>5. [i \in DOMAIN rest.stmts |-> Shift(rest.stmts[i], cut)] = MovedStmts(rest.stmts, cut)
    BY ShiftIs DEF MovedStmts
  <2> HIDE DEF w
  <2>6. Parse(text) = [ok |-> TRUE, stmts |-> first.stmts \o MovedStmts(rest.stmts, cut)]
    <3> DEFINE
      u == Slice(text, 0, cut)
      x == Slice(text, cut, Len(text))
    <3>1. w = Walk(text) /\ u = Slice(text, 0, cut) /\ x = Slice(text, cut, Len(text))
      BY DEF w
    <3>2. /\ Parse(u).ok /\ Parse(x).ok /\ EndsAt(Parse(u).stmts, cut)
          /\ first = Parse(u) /\ rest = Parse(x)
      BY <2>4
    <3> HIDE DEF u, x
    <3>3. Joins(text, u, x, cut)
      BY ONLY <2>1, <2>3, <3>1, <3>2, ParseJoined
    <3> QED BY <3>2, <3>3 DEF Joins
  <2> QED BY <2>5, <2>6
<1> QED BY <1>1, TextAlways, PTL

-----------------------------------------------------------------------------
(* A token that is cut out of its text. *)

\* The characters a..c-1 of u are those of t that stand d further right, where a
\* semicolon or the end of the text comes behind them.
Cut(t, u, d, a, c) ==
    /\ t \in Seq(Chars) /\ u \in Seq(Chars) /\ d \in Int /\ a \in Nat /\ a + d \in Nat
    /\ c \in a + 1..Len(u) /\ c + d <= Len(t)
    /\ \A i \in a..c - 1 : At(t, i + d) = At(u, i)
    /\ c + d < Len(t) => At(t, c + d) = "semi"

\* The texts agree on what is cut out.
LEMMA CutAgrees ==
  ASSUME NEW t, NEW u, NEW d, NEW a, NEW c, Cut(t, u, d, a, c)
  PROVE  /\ Agree(t, u, d, a, c - 1)
         /\ d \in Int /\ a \in Nat /\ a + d \in Nat /\ Len(t) \in Nat /\ Len(u) \in Nat
         /\ c \in a + 1..Len(u) /\ c + d <= Len(t) /\ t \in Seq(Chars) /\ u \in Seq(Chars)
<1>1. /\ d \in Int /\ a \in Nat /\ a + d \in Nat /\ Len(t) \in Nat /\ Len(u) \in Nat
      /\ c \in a + 1..Len(u) /\ c + d <= Len(t) /\ t \in Seq(Chars) /\ u \in Seq(Chars)
      /\ \A i \in a..c - 1 : At(t, i + d) = At(u, i)
  BY DEF Cut
<1>2. c - 1 \in a..Len(u) /\ (c - 1) + d <= Len(t)
  BY <1>1
<1>3. \A i \in a..c - 1 : i < Len(u) /\ i + d < Len(t)
  BY <1>1
<1> QED BY <1>1, <1>2, <1>3 DEF Agree

\* A quoted text that is cut out ends where it did.
LEMMA CutClosing ==
  ASSUME NEW t, NEW u, NEW d, NEW a, NEW c, Cut(t, u, d, a, c), NEW i \in a..c - 1,
         NEW q \in Quotes, Closing(u, i, q) = c - 1
  PROVE  Closing(t, i + d, q) = c - 1 + d
<1> DEFINE
  D == a..c - 1
  e == c - 1
  Good(k) == Closing(u, k, q) = e => Closing(t, k + d, q) = e + d
  S == {k \in D : Good(k)}
<1>1. /\ d \in Int /\ a \in Nat /\ a + d \in Nat /\ Len(t) \in Nat /\ Len(u) \in Nat
      /\ c \in a + 1..Len(u) /\ c + d <= Len(t) /\ e \in a..Len(u) - 1 /\ e + 1 = c
      /\ D = a..e
  BY CutAgrees
<1>2. Agree(t, u, d, a, e)
  BY CutAgrees
<1>3. c + d < Len(t) => At(t, c + d) # q
  BY DEF Cut, Quotes
<1>4. Closing(u, i, q) = e
  OBVIOUS
<1> HIDE DEF D, e
<1>5. ASSUME NEW k \in D, \A h \in D : k < h => h \in S
      PROVE  k \in S
  <2>1. k \in 0..Len(u) /\ k + d \in 0..Len(t)
    BY <1>1, <1>2, AgreeAt
  <2>2. PICK j \in k..Len(u) : j = Find(u, k, {q})
    BY <1>1, <2>1, FindIn
  <2>3. Closing(u, k, q) = IF j + 1 < Len(u) /\ At(u, j + 1) = q THEN Closing(u, j + 2, q) ELSE j
    BY <1>1, <2>1, <2>2, ClosingsDefined
  <2>4. ASSUME Closing(u, k, q) = e
        PROVE  Closing(t, k + d, q) = e + d
    <3>0. j + 1 < Len(u) /\ At(u, j + 1) = q => j + 2 \in D /\ k < j + 2 /\ Closing(u, j + 2, q) = e
      <4> SUFFICES ASSUME j + 1 < Len(u), At(u, j + 1) = q
                   PROVE  j + 2 \in D /\ k < j + 2 /\ Closing(u, j + 2, q) = e
        OBVIOUS
      <4>1. j + 2 \in 0..Len(u)
        BY <1>1, <2>1, <2>2, SMTT(30)
      <4>2. Closing(u, j + 2, q) \in j + 2..Len(u)
        BY <1>1, <4>1, ClosingIs
      <4>3. Closing(u, j + 2, q) = e
        BY <2>3, <2>4
      <4> QED BY <1>1, <2>2, <4>2, <4>3, SMTT(30)
    <3>1. j <= e /\ (~(j + 1 < Len(u) /\ At(u, j + 1) = q) => j = e)
      BY <1>1, <2>2, <2>3, <2>4, <3>0, SMTT(30)
    <3>2. Find(t, k + d, {q}) = j + d
      BY <1>1, <1>2, <2>2, <3>1, FindMoved, SMTT(30)
    <3> DEFINE
      n == k + d
      f == j + d
    <3>3. Closing(t, n, q) = IF f + 1 < Len(t) /\ At(t, f + 1) = q THEN Closing(t, f + 2, q) ELSE f
      <4> HIDE DEF n, f
      <4>1. n \in 0..Len(t) /\ Find(t, n, {q}) = f
        BY <2>1, <3>2 DEF n, f
      <4> QED BY <1>1, <4>1, ClosingsDefined
    <3>4. (j + 1) + d = f + 1 /\ (j + 2) + d = f + 2 /\ j \in Int
      BY <1>1, <2>2
    <3>6. CASE j + 1 < Len(u) /\ At(u, j + 1) = q
      <4>1. j + 1 \in a..e
        BY <1>1, <2>2, <3>0, <3>6, SMTT(30)
      <4> DEFINE x == j + 1
      <4>2. x + d < Len(t) /\ At(t, x + d) = At(u, x)
        <5> HIDE DEF x
        <5> QED BY <1>2, <3>6, <4>1, AgreeAt DEF x
      <4>3. Closing(t, k + d, q) = Closing(t, (j + 2) + d, q)
        BY <3>3, <3>4, <3>6, <4>2
      <4>4. Good(j + 2)
        BY <1>5, <3>0, <3>6
      <4> QED BY <3>0, <3>6, <4>3, <4>4
    <3>7. CASE ~(j + 1 < Len(u) /\ At(u, j + 1) = q)
      BY <1>3, <3>3, <1>1, <3>1, <3>4, <3>7
    <3> QED BY <3>6, <3>7
  <2> QED BY <2>4
<1>6. D \subseteq Int /\ e \in Int /\ (\A k \in D : k <= e) /\ i \in D
  BY <1>1 DEF D, e
<1> HIDE DEF S
<1>7. D \subseteq S
  BY <1>5, <1>6, Downward
<1>8. Good(i)
  BY <1>6, <1>7 DEF S
<1> QED BY <1>4, <1>8 DEF e

\* A scan that stopped where the text is cut stops there.
LEMMA CutScan ==
  ASSUME NEW t, NEW u, NEW d, NEW p, NEW c, Cut(t, u, d, p, c), NEW from \in p..c,
         NEW n, Going(p, from, n), NEW m, Twin(m, n, d), Going(p + d, from + d, m),
         Scan(u, p, from, n).kind = "stop", Scan(u, p, from, n).end = c
  PROVE  Twin(Scan(t, p + d, from + d, m), Scan(u, p, from, n), d)
<1>1. /\ d \in Int /\ p \in Nat /\ p + d \in Nat /\ Len(t) \in Nat /\ Len(u) \in Nat
      /\ c \in p + 1..Len(u) /\ c + d <= Len(t) /\ Agree(t, u, d, p, c - 1)
  BY CutAgrees
<1> DEFINE
  b == p + d
  g == from + d
  s(i) == Scans(u, p, from, n)[i]
  r(i) == Scans(t, b, g, m)[i]
<1>2. from \in p..Len(u) /\ g \in b..Len(t) /\ b \in Nat
  BY <1>1
<1>3. PICK e \in from..Len(u) : Stops(u, p, from, n, e)
  BY <1>1, <1>2, ScanStops
<1>4. PICK f \in g..Len(t) : Stops(t, b, g, m, f)
  <2> HIDE DEF b, g
  <2>1. Going(b, g, m)
    BY DEF b, g
  <2> QED BY <1>1, <1>2, <2>1, ScanStops
<1>5. /\ s(from) = n
      /\ \A i \in from..e - 1 : s(i + 1) = ScanStep(u, p, i, s(i)) /\ ScanStep(u, p, i, s(i)).kind = "go"
  <2>1. Stops(u, p, from, n, e) /\ p \in Nat /\ Len(u) \in Nat /\ from \in p..Len(u)
    BY <1>1, <1>2, <1>3
  <2> HIDE DEF b, g, r, s
  <2>2. /\ Scans(u, p, from, n)[from] = n
        /\ \A i \in from..e - 1 :
              /\ Scans(u, p, from, n)[i + 1] = ScanStep(u, p, i, Scans(u, p, from, n)[i])
              /\ ScanStep(u, p, i, Scans(u, p, from, n)[i]).kind = "go"
    BY <2>1, StopsGo
  <2> QED BY <2>2 DEF s
<1>6. /\ r(g) = m
      /\ \A i \in g..f - 1 : r(i + 1) = ScanStep(t, b, i, r(i)) /\ ScanStep(t, b, i, r(i)).kind = "go"
  <2>1. Going(b, g, m)
    OBVIOUS
  <2>2. Stops(t, b, g, m, f) /\ b \in Nat /\ Len(t) \in Nat /\ g \in b..Len(t) /\ f \in g..Len(t)
    BY <1>1, <1>2, <1>4
  <2> HIDE DEF b, g, r, s
  <2>3. /\ Scans(t, b, g, m)[g] = m
        /\ \A i \in g..f - 1 :
              /\ Scans(t, b, g, m)[i + 1] = ScanStep(t, b, i, Scans(t, b, g, m)[i])
              /\ ScanStep(t, b, i, Scans(t, b, g, m)[i]).kind = "go"
    BY <2>1, <2>2, StopsGo
  <2> QED BY <2>3 DEF r
<1>7. /\ \A i \in from..e : Going(p, i, s(i))
      /\ Scan(u, p, from, n) = ScanStep(u, p, e, s(e)) /\ Scan(u, p, from, n).kind # "go"
  BY <1>3 DEF Stops
<1>8. Scan(t, b, g, m) = ScanStep(t, b, f, r(f)) /\ Scan(t, b, g, m).kind # "go"
  BY <1>4 DEF Stops
<1> HIDE DEF s, r
<1>9. e = c /\ Scan(u, p, from, n) = Stop(s(e), e)
  <2> DEFINE z == Scan(u, p, from, n)
  <2>1. z = ScanStep(u, p, e, s(e)) /\ Going(p, e, s(e)) /\ e \in p..Len(u)
    BY <1>1, <1>2, <1>3, <1>7
  <2>2. z.kind = "stop" /\ z.end = c
    OBVIOUS
  <2> HIDE DEF z
  <2>3. z = Stop(s(e), e)
    BY <1>1, <2>1, <2>2, ScanStepGoes
  <2>4. z.end = e
    BY <2>1, <2>3 DEF Stop, Going, Notes
  <2> QED BY <2>2, <2>3, <2>4 DEF z
<1>10. ASSUME NEW i \in from..e, i + d <= f
       PROVE  Twin(r(i + d), s(i), d)
  <2> DEFINE
    D == from..i
    S == {k \in D : Twin(r(k + d), s(k), d)}
  <2>1. ASSUME NEW k \in D, \A h \in D : h < k => h \in S
        PROVE  k \in S
    <3>1. CASE k = from
      BY <3>1, <1>5, <1>6
    <3>2. CASE k > from
      <4>1. k - 1 \in D /\ k - 1 < k
        BY <3>2
      <4> DEFINE h == k - 1
      <4>2. Twin(r(h + d), s(h), d)
        BY <2>1, <4>1
      <4>3. h \in from..e - 1 /\ h \in p..c - 1 /\ h + d \in g..f - 1 /\ h + 1 = k /\ (h + d) + 1 = k + d
            /\ h \in from..e
        BY <1>1, <1>3, <1>4, <1>9, <1>10, <4>1
      <4> HIDE DEF h
      <4>4. Going(p, h, s(h)) /\ s(h + 1) = ScanStep(u, p, h, s(h)) /\ ScanStep(u, p, h, s(h)).kind = "go"
        BY <1>5, <1>7, <4>3
      <4>5. r((h + d) + 1) = ScanStep(t, b, h + d, r(h + d))
        BY <1>6, <4>3
      <4>6. Twin(ScanStep(t, b, h + d, r(h + d)), ScanStep(u, p, h, s(h)), d)
        BY <1>1, <4>2, <4>3, <4>4, TwinStep
      <4> QED BY <4>3, <4>4, <4>5, <4>6
    <3> QED BY <3>1, <3>2
  <2>2. D \subseteq Nat /\ i \in D
    BY <1>1
  <2> HIDE DEF D, S
  <2>3. D \subseteq S
    BY <2>1, <2>2, Upward
  <2> QED BY <2>2, <2>3 DEF S
<1>11. ~(f < e + d)
  <2> SUFFICES ASSUME f < e + d PROVE FALSE
    OBVIOUS
  <2> DEFINE i == f - d
  <2>1. i \in from..e - 1 /\ i \in from..e /\ i + d = f /\ i + d <= f /\ i \in p..c - 1
    BY <1>1, <1>3, <1>4, <1>9
  <2> HIDE DEF i
  <2>2. ScanStep(u, p, i, s(i)).kind = "go" /\ Going(p, i, s(i)) /\ Twin(r(i + d), s(i), d)
    BY <1>5, <1>7, <1>10, <2>1
  <2>3. ScanStep(t, b, i + d, r(i + d)).kind = ScanStep(u, p, i, s(i)).kind
    BY <1>1, <2>1, <2>2, TwinStep, SMTT(30)
  <2> QED BY <1>8, <2>1, <2>2, <2>3
<1>12. e \in from..e /\ e + d <= f /\ e + d \in g..Len(t)
  BY <1>1, <1>3, <1>4, <1>11
<1>13. Twin(r(e + d), s(e), d) /\ Going(p, e, s(e))
  BY <1>7, <1>10, <1>12
<1>14. ScanStep(t, b, e + d, r(e + d)) = Stop(r(e + d), e + d)
  <2> DEFINE
    i == e + d
    x == CharAt(t, i)
    y == r(i)
  <2>1. x \in {"semi", "end"}
    BY <1>1, <1>9, <1>12 DEF CharAt, Cut
  <2>2. x \notin Digits /\ x # "." /\ x \notin Letters /\ x \notin {"+", "-"}
    BY <2>1, Kinds
  <2> HIDE DEF i, y
  <2>3. ScanStep(t, b, i, y) =
           IF x \in Digits THEN [y EXCEPT !.isn = @ \/ i = b]
           ELSE IF x = "." /\ y.di # -1 THEN [y EXCEPT !.kind = "error"]
           ELSE IF x = "." /\ y.isn THEN [y EXCEPT !.di = i]
           ELSE IF x \in Letters THEN ScanLetter(b, i, y, y.isn /\ x = "e" /\ y.ei = -1)
           ELSE IF x \in {"+", "-"} /\ y.ei # -1 /\ y.ei = i - 1 THEN [y EXCEPT !.si = i]
           ELSE Stop(y, i)
    BY ScanStepIs
  <2> HIDE DEF x
  <2>4. ScanStep(t, b, i, y) = Stop(y, i)
    BY <2>2, <2>3
  <2> QED BY <2>4 DEF y, i
<1>15. f = e + d
  <2> SUFFICES ASSUME f # e + d PROVE FALSE
    OBVIOUS
  <2>1. e + d \in g..f - 1
    BY <1>1, <1>4, <1>12
  <2>2. ScanStep(t, b, e + d, r(e + d)).kind = "go"
    BY <1>6, <2>1
  <2>3. r(e + d) \in Notes
    BY <1>13 DEF Twin
  <2> QED BY <1>14, <2>2, <2>3 DEF Stop, Notes
<1>16. Twin(Stop(r(e + d), e + d), Stop(s(e), e), d)
  <2>1. /\ r(e + d) \in Notes /\ s(e) \in Notes /\ r(e + d).isn = s(e).isn
        /\ r(e + d).di = Place(s(e).di, d) /\ r(e + d).ei = Place(s(e).ei, d)
        /\ r(e + d).si = Place(s(e).si, d) /\ e \in Int /\ e + d \in Int
    BY <1>1, <1>12, <1>13 DEF Twin
  <2> QED BY <2>1 DEF Twin, Stop, Notes, Outcomes
<1> QED BY <1>8, <1>9, <1>14, <1>15, <1>16

\* A number or an identifier that is cut out is the same.
LEMMA CutScanned ==
  ASSUME NEW t, NEW u, NEW d, NEW p, NEW c, Cut(t, u, d, p, c), NEW from \in p..c,
         NEW n, Going(p, from, n), NEW m, Twin(m, n, d), Going(p + d, from + d, m),
         NEW l, l = Scanned(u, p, Scan(u, p, from, n)), l.type \in {"ID", "INT"}, l.curr = c
  PROVE  Same(Scanned(t, p + d, Scan(t, p + d, from + d, m)), l, d)
<1> DEFINE
  s == Scan(u, p, from, n)
  r == Scan(t, p + d, from + d, m)
<1>1. /\ p \in p..c - 1 /\ d \in Int /\ p \in Nat /\ p + d \in Nat /\ Len(u) \in Nat
      /\ from \in p..Len(u) /\ Agree(t, u, d, p, c - 1)
  BY CutAgrees
<1>2. l = IF ScanFails(s) THEN Fault ELSE Token(ScannedType(s), At(u, p), p, s.end, s.end)
  BY DEF Scanned
<1> HIDE DEF s, r
<1>3. ~ScanFails(s)
  BY <1>2 DEF Fault, Token
<1>4. s.kind # "error" /\ s.end = c /\ ScannedType(s) \in {"ID", "INT"}
  BY <1>2, <1>3 DEF Token, ScanFails
<1>5. Bounded(p, s) /\ s.kind \in {"stop", "sign"}
  BY <1>1, <1>4, ScanBounds DEF s
<1>6. s.kind = "stop"
  BY <1>4, <1>5 DEF ScannedType
<1>7. Twin(r, s, d)
  BY <1>4, <1>6, CutScan DEF r, s
<1>8. At(t, p + d) = At(u, p)
  BY <1>1 DEF Cut
<1>9. Same(Scanned(t, p + d, r), Scanned(u, p, s), d)
  BY <1>1, <1>3, <1>5, <1>7, <1>8, ScannedAlike
<1> QED BY <1>9 DEF r, s

\* A text in quotes that is cut out is the same,
LEMMA CutQuoted ==
  ASSUME NEW t, NEW u, NEW d, NEW p, NEW c, Cut(t, u, d, p, c), NEW b \in p..c - 1,
         At(u, b) \in Quotes, NEW type, type # "error", Quoted(u, b, type).type # "error",
         Quoted(u, b, type).curr = c
  PROVE  Same(Quoted(t, b + d, type), Quoted(u, b, type), d)
<1>1. /\ d \in Int /\ p \in Nat /\ p + d \in Nat /\ Len(t) \in Nat /\ Len(u) \in Nat
      /\ c \in p + 1..Len(u) /\ c + d <= Len(t) /\ Agree(t, u, d, p, c - 1)
  BY CutAgrees
<1> DEFINE
  q == At(u, b)
  e == Closing(u, b + 1, q)
  l == Quoted(u, b, type)
<1>2. At(t, b + d) = q
  BY DEF Cut
<1>q. q \in Quotes
  OBVIOUS
<1> HIDE DEF q
<1>3. e \in b + 1..Len(u)
  <2>1. b + 1 \in 0..Len(u)
    BY <1>1
  <2> DEFINE h == b + 1
  <2> HIDE DEF h
  <2>2. Closing(u, h, q) \in h..Len(u)
    BY <1>1, <2>1, ClosingIs DEF h
  <2> QED BY <2>2 DEF h
<1>4. l = IF e = Len(u) THEN Fault
          ELSE [type |-> type, prefix |-> q, quoted |-> type # "STRING",
                start |-> b + 1, end |-> e, curr |-> e + 1]
  BY DEF Quoted, QuotedTo, q
<1>5. l.type # "error" /\ l.curr = c
  OBVIOUS
<1> HIDE DEF l, e
<1>6. e # Len(u)
  BY <1>4, <1>5 DEF Fault, Token
<1>7. l = [type |-> type, prefix |-> q, quoted |-> type # "STRING",
           start |-> b + 1, end |-> e, curr |-> e + 1]
  BY <1>4, <1>6
<1>8. e = c - 1
  BY <1>1, <1>3, <1>5, <1>7
<1>9. Closing(t, (b + 1) + d, q) = e + d
  <2> DEFINE h == b + 1
  <2>1. h \in p..c - 1
    BY <1>1, <1>3, <1>8
  <2>2. Closing(u, h, q) = c - 1
    BY <1>8 DEF e
  <2> HIDE DEF h
  <2>3. Closing(t, h + d, q) = c - 1 + d
    BY <1>q, <2>1, <2>2, CutClosing
  <2> QED BY <1>8, <2>3 DEF h
<1>10. e + d # Len(t)
  BY <1>1, <1>3, <1>8
<1>11. (b + d) + 1 = (b + 1) + d
  BY <1>1
<1>12. Quoted(t, b + d, type) =
           [type |-> type, prefix |-> q, quoted |-> type # "STRING",
            start |-> (b + 1) + d, end |-> e + d, curr |-> (e + d) + 1]
  <2>1. Quoted(t, b + d, type) = QuotedTo(t, b + d, type, Closing(t, (b + d) + 1, At(t, b + d)))
    BY DEF Quoted
  <2>2. Quoted(t, b + d, type) = QuotedTo(t, b + d, type, e + d)
    BY <1>2, <1>9, <1>11, <2>1
  <2> QED BY <1>2, <1>10, <1>11, <2>2 DEF QuotedTo
<1>13. (e + d) + 1 = (e + 1) + d
  BY <1>1, <1>3
<1>14. Same(Quoted(t, b + d, type), l, d)
  BY <1>7, <1>12, <1>13 DEF Same
<1> QED BY <1>14 DEF l

\* The token k is the token l, moved, but for its first character.
Like(k, l, d) ==
    /\ k.type = l.type /\ k.quoted = l.quoted
    /\ k.start = l.start + d /\ k.end = l.end + d /\ k.curr = l.curr + d

\* and a user variable, which may have no name.
LEMMA CutUserVar ==
  ASSUME NEW t, NEW u, NEW d, NEW p, NEW c, Cut(t, u, d, p, c), NEW b \in p..c, b < Len(u),
         UserVarToken(u, b).type # "error", UserVarToken(u, b).curr = c,
         b + d < Len(t)
  PROVE  Like(UserVarToken(t, b + d), UserVarToken(u, b), d)
<1>1. /\ d \in Int /\ p \in Nat /\ p + d \in Nat /\ Len(t) \in Nat /\ Len(u) \in Nat
      /\ c \in p + 1..Len(u) /\ c + d <= Len(t) /\ Agree(t, u, d, p, c - 1)
      /\ t \in Seq(Chars) /\ u \in Seq(Chars)
  BY CutAgrees
<1> DEFINE
  S == Chars \ (Letters \cup Digits \cup {"."})
  e == Find(u, b, S)
  l == UserVarToken(u, b)
  k == UserVarToken(t, b + d)
<1>2. b < c => At(t, b + d) = At(u, b)
  BY <1>1 DEF Cut
<1>3. b = c => At(t, b + d) = "semi"
  BY DEF Cut
<1>4. CASE At(u, b) \in Quotes
  <2>1. l = Quoted(u, b, "USER_VAR")
    BY <1>4 DEF UserVarToken
  <2>2. b < c
    <3>1. b \in 0..Len(u) - 1
      BY <1>1
    <3> DEFINE
      q == At(u, b)
      f == Closing(u, b + 1, q)
    <3>2. l = IF f = Len(u) THEN Fault
              ELSE [type |-> "USER_VAR", prefix |-> q, quoted |-> "USER_VAR" # "STRING",
                    start |-> b + 1, end |-> f, curr |-> f + 1]
      BY <2>1 DEF Quoted, QuotedTo
    <3>3. f \in b + 1..Len(u)
      <4>1. b + 1 \in 0..Len(u)
        BY <3>1
      <4> DEFINE h == b + 1
      <4> HIDE DEF h, q
      <4>2. Closing(u, h, q) \in h..Len(u)
        BY <1>1, <4>1, ClosingIs DEF h
      <4> QED BY <4>2 DEF h
    <3>4. l.type # "error" /\ l.curr = c
      OBVIOUS
    <3> HIDE DEF l, f
    <3>5. f # Len(u)
      BY <3>2, <3>4 DEF Fault, Token
    <3> QED BY <1>1, <3>2, <3>3, <3>4, <3>5
  <2>3. k = Quoted(t, b + d, "USER_VAR")
    BY <1>2, <1>4, <2>2 DEF UserVarToken
  <2>4. b \in p..c - 1
    BY <1>1, <2>2
  <2>5. Same(Quoted(t, b + d, "USER_VAR"), Quoted(u, b, "USER_VAR"), d)
    BY <1>4, <2>1, <2>4, CutQuoted
  <2>6. Like(Quoted(t, b + d, "USER_VAR"), Quoted(u, b, "USER_VAR"), d)
    BY <2>5 DEF Same, Like
  <2> QED BY <2>1, <2>3, <2>6
<1>5. CASE At(u, b) \notin Quotes
  <2>1. l = Token("USER_VAR", At(u, b), b, e, e)
    BY <1>5 DEF UserVarToken
  <2>2. e = c
    <3>1. l.curr = c
      OBVIOUS
    <3> HIDE DEF l, e
    <3> QED BY <2>1, <3>1 DEF Token
  <2>3. At(t, b + d) \notin Quotes
    BY <1>1, <1>2, <1>3, <1>5 DEF Quotes
  <2>4. Find(t, b + d, S) = c + d
    <3> DEFINE
      g == b + d
      h == c + d
    <3>1. g \in 0..Len(t) /\ h \in g..Len(t)
      BY <1>1
    <3>2. h < Len(t) => At(t, h) \in S
      BY DEF Cut, Chars, Signs, Letters, Keywords, Digits
    <3>3. \A i \in b..c - 1 : At(u, i) \notin S
      <4>1. b \in 0..Len(u)
        BY <1>1
      <4> HIDE DEF S
      <4>2. \A i \in b..Find(u, b, S) - 1 : At(u, i) \notin S
        BY <1>1, <4>1, FindIn
      <4> QED BY <2>2, <4>2
    <3>4. \A i \in g..h - 1 : At(t, i) \notin S
      <4> TAKE i \in g..h - 1
      <4> DEFINE j == i - d
      <4>1. j \in b..c - 1 /\ j \in p..c - 1 /\ i = j + d
        BY <1>1
      <4> HIDE DEF j, S
      <4>2. At(t, j + d) = At(u, j)
        BY <4>1 DEF Cut
      <4> QED BY <3>3, <4>1, <4>2
    <3> HIDE DEF S, g, h
    <3>5. Find(t, g, S) = h
      BY <1>1, <3>1, <3>2, <3>4, FindThe
    <3> QED BY <3>5 DEF g, h
  <2>5. k = Token("USER_VAR", At(t, b + d), b + d, c + d, c + d)
    BY <2>3, <2>4 DEF UserVarToken
  <2>6. l = Token("USER_VAR", At(u, b), b, c, c)
    BY <2>1, <2>2
  <2> HIDE DEF l, k
  <2>7. Like(k, l, d)
    BY <2>5, <2>6 DEF Like, Token
  <2> QED BY <2>7 DEF k, l
<1> QED BY <1>4, <1>5

\* A scan does not stop at a digit.
LEMMA ScanEnd ==
  ASSUME NEW u, Len(u) \in Nat, NEW p \in Nat, NEW from \in p..Len(u), NEW n, Going(p, from, n),
         NEW s, s = Scan(u, p, from, n), s.kind = "stop"
  PROVE  CharAt(u, s.end) \notin Digits
<1>1. PICK e \in from..Len(u) : Stops(u, p, from, n, e)
  BY ScanStops
<1> DEFINE
  y == Scans(u, p, from, n)[e]
  x == CharAt(u, e)
<1>2. s = ScanStep(u, p, e, y) /\ Going(p, e, y)
  BY <1>1 DEF Stops
<1> HIDE DEF y
<1>3. e \in p..Len(u) /\ y \in Notes /\ y.kind = "go"
  BY <1>1, <1>2 DEF Going
<1>4. s = Stop(y, e)
  BY <1>2, <1>3, ScanStepGoes
<1>5. s.end = e
  BY <1>3, <1>4 DEF Stop, Notes
<1>6. s = IF x \in Digits THEN [y EXCEPT !.isn = @ \/ e = p]
          ELSE IF x = "." /\ y.di # -1 THEN [y EXCEPT !.kind = "error"]
          ELSE IF x = "." /\ y.isn THEN [y EXCEPT !.di = e]
          ELSE IF x \in Letters THEN ScanLetter(p, e, y, y.isn /\ x = "e" /\ y.ei = -1)
          ELSE IF x \in {"+", "-"} /\ y.ei # -1 /\ y.ei = e - 1 THEN [y EXCEPT !.si = e]
          ELSE Stop(y, e)
  BY <1>2, ScanStepIs
<1> HIDE DEF x
<1>7. x \in Digits => s.kind = "go"
  BY <1>3, <1>6 DEF Notes
<1> QED BY <1>5, <1>7 DEF x

\* A number or an identifier that is cut out is read as it was,
LEMMA CutParse ==
  ASSUME NEW t, NEW u, NEW d, NEW p, NEW c, Cut(t, u, d, p, c),
         ParseToken(u, p).type \in {"ID", "INT"}, ParseToken(u, p).curr = c
  PROVE  Same(ParseToken(t, p + d), ParseToken(u, p), d)
<1>1. /\ d \in Int /\ p \in Nat /\ p + d \in Nat /\ Len(t) \in Nat /\ Len(u) \in Nat
      /\ c \in p + 1..Len(u) /\ c + d <= Len(t) /\ p \in p..c - 1 /\ p \in p..c
      /\ Agree(t, u, d, p, c - 1)
  BY CutAgrees
<1> DEFINE
  b == p + d
  n == [kind |-> "go", isn |-> FALSE, end |-> p, di |-> -1, ei |-> -1, si |-> -1]
  m == [n EXCEPT !.isn = TRUE, !.di = p]
  g == [kind |-> "go", isn |-> FALSE, end |-> b, di |-> -1, ei |-> -1, si |-> -1]
  h == [g EXCEPT !.isn = TRUE, !.di = b]
  l == ParseToken(u, p)
<1>2. l = IF At(u, p) # "." THEN Scanned(u, p, Scan(u, p, p, n))
          ELSE IF p + 1 = Len(u) THEN Fault
          ELSE IF At(u, p + 1) \notin Digits THEN Token("SIGN", ".", p, p + 1, p + 1)
          ELSE Scanned(u, p, Scan(u, p, p + 1, m))
  BY DEF ParseToken
<1>3. ParseToken(t, b) =
          IF At(t, b) # "." THEN Scanned(t, b, Scan(t, b, b, g))
          ELSE IF b + 1 = Len(t) THEN Fault
          ELSE IF At(t, b + 1) \notin Digits THEN Token("SIGN", ".", b, b + 1, b + 1)
          ELSE Scanned(t, b, Scan(t, b, b + 1, h))
  BY DEF ParseToken
<1>4. At(t, b) = At(u, p)
  BY <1>1 DEF Cut
<1>5. l.type \in {"ID", "INT"} /\ l.curr = c
  OBVIOUS
<1> HIDE DEF b, l
<1>b. b = p + d /\ b \in Nat /\ b + 1 = (p + 1) + d
  BY <1>1 DEF b
<1>6. /\ n \in Notes /\ n.kind = "go" /\ ~n.isn /\ n.end = p /\ n.di = -1 /\ n.ei = -1 /\ n.si = -1
      /\ g \in Notes /\ g.kind = "go" /\ ~g.isn /\ g.end = b /\ g.di = -1 /\ g.ei = -1 /\ g.si = -1
      /\ n.isn = g.isn
  BY <1>1, <1>b DEF Notes, Outcomes
<1> HIDE DEF n, g
<1>7. /\ m \in Notes /\ m.kind = "go" /\ m.isn = TRUE /\ m.end = p /\ m.di = p /\ m.ei = -1 /\ m.si = -1
      /\ h \in Notes /\ h.kind = "go" /\ h.isn = TRUE /\ h.end = b /\ h.di = b /\ h.ei = -1 /\ h.si = -1
  BY <1>1, <1>6, <1>b DEF Notes
<1> HIDE DEF m, h
<1>8. Going(p, p, n) /\ Going(b, b, g)
  BY <1>1, <1>6, <1>b DEF Going
<1>9. Going(p, p + 1, m) /\ Going(b, b + 1, h)
  BY <1>1, <1>7, <1>b DEF Going
<1>10. Twin(g, n, d)
  BY <1>6, <1>b DEF Twin, Place
<1>11. Twin(h, m, d)
  <2>1. h.di = Place(m.di, d) /\ h.ei = Place(m.ei, d) /\ h.si = Place(m.si, d)
    BY <1>7, <1>b, <1>1 DEF Place
  <2> QED BY <1>7, <1>b, <2>1 DEF Twin
<1>12. CASE At(u, p) # "."
  <2>1. l = Scanned(u, p, Scan(u, p, p, n)) /\ ParseToken(t, b) = Scanned(t, b, Scan(t, b, b, g))
    BY <1>2, <1>3, <1>4, <1>12
  <2>2. Same(Scanned(t, p + d, Scan(t, p + d, p + d, g)), l, d)
    BY <2>1, <1>1, <1>5, <1>8, <1>10, <1>b, CutScanned
  <2> QED BY <1>b, <2>1, <2>2 DEF l
<1>13. CASE At(u, p) = "."
  <2>1. p + 1 # Len(u) /\ At(u, p + 1) \in Digits
    BY <1>2, <1>5, <1>13 DEF Fault, Token
  <2>2. l = Scanned(u, p, Scan(u, p, p + 1, m))
    BY <1>2, <1>13, <2>1
  <2> DEFINE
    x == p + 1
    s == Scan(u, p, x, m)
  <2>3. /\ x \in p..Len(u) /\ x \in p..c /\ x < Len(u) /\ Going(p, x, m) /\ Going(p + d, x + d, h)
        /\ x + d = b + 1 /\ At(u, x) \in Digits /\ l = Scanned(u, p, s)
    BY <1>1, <1>9, <1>b, <2>1, <2>2
  <2> HIDE DEF x, s
  <2>4. l = IF ScanFails(s) THEN Fault ELSE Token(ScannedType(s), At(u, p), p, s.end, s.end)
    BY <2>3 DEF Scanned
  <2>5. ~ScanFails(s)
    BY <1>5, <2>4 DEF Fault, Token
  <2>6. s.kind # "error" /\ s.end = c /\ ScannedType(s) \in {"ID", "INT"}
    BY <1>5, <2>4, <2>5 DEF Token, ScanFails
  <2>7. s.kind = "stop"
    BY <2>6, <1>1, <2>3, ScanBounds DEF s, ScannedType
  <2>8. CharAt(u, c) \notin Digits
    BY <1>1, <2>3, <2>6, <2>7, ScanEnd DEF s
  <2>9. x \in p..c - 1
    BY <1>1, <2>3, <2>8 DEF CharAt
  <2>10. At(t, x + d) = At(u, x)
    BY <2>9 DEF Cut
  <2>11. x + d < Len(t)
    BY <1>1, <2>9
  <2>12. ParseToken(t, b) = Scanned(t, b, Scan(t, b, b + 1, h))
    BY <1>3, <1>4, <1>13, <2>3, <2>10, <2>11
  <2>13. Same(Scanned(t, p + d, Scan(t, p + d, x + d, h)), l, d)
    BY <1>5, <1>11, <2>3, CutScanned DEF s
  <2> QED BY <1>b, <2>3, <2>12, <2>13 DEF l
<1> QED BY <1>b, <1>12, <1>13

\* What is cut out of nexToken,
LEMMA CutNexToken ==
  ASSUME NEW t, NEW u, NEW d, NEW p, NEW c, Cut(t, u, d, p, c), At(u, p) # "@",
         NexToken(u, p).type \in {"ID", "INT"}, NexToken(u, p).curr = c
  PROVE  Same(NexToken(t, p + d), NexToken(u, p), d)
<1> DEFINE
  b == p + d
  x == At(u, p)
  l == NexToken(u, p)
  k == NexToken(t, b)
  next == IF p + 1 < Len(u) THEN At(u, p + 1) ELSE "end"
  then == IF b + 1 < Len(t) THEN At(t, b + 1) ELSE "end"
  One(type) == Token(type, x, p, p + 1, p + 1)
  There(type) == Token(type, x, b, b + 1, b + 1)
<1>1. /\ d \in Int /\ p \in Nat /\ b \in Nat /\ Len(t) \in Nat /\ Len(u) \in Nat
      /\ c \in p + 1..Len(u) /\ c + d <= Len(t) /\ p \in p..c - 1 /\ p \in 0..Len(u) - 1
      /\ t \in Seq(Chars) /\ u \in Seq(Chars)
  BY CutAgrees
<1>2. At(t, b) = x
  BY <1>1 DEF Cut
<1>3. l = CASE x \in {"-", "/"} /\ next = "end" -> Fault
            [] x = "-" /\ next = "-" -> LineComment(u, p + 2, "--")
            [] x = "/" /\ next = "/" -> LineComment(u, p + 2, "//")
            [] x = "/" /\ next = "*" -> MultiComment(u, p + 2)
            [] x = "-" /\ next \notin {"-", "end"} -> One("OP_ARI")
            [] x = "/" /\ next \notin {"/", "*", "end"} -> One("OP_ARI")
            [] x \in {"+", "*"} -> One("OP_ARI")
            [] x = "#" -> LineComment(u, p + 1, "#")
            [] x \in Blanks -> BlankToken(u, p)
            [] x = "bq" -> Quoted(u, p, "ID")
            [] x \in {"sq", "dq"} -> Quoted(u, p, "STRING")
            [] x \in Signs -> One("SIGN")
            [] OTHER -> ParseToken(u, p)
  BY DEF NexToken
<1>4. k = CASE x \in {"-", "/"} /\ then = "end" -> Fault
            [] x = "-" /\ then = "-" -> LineComment(t, b + 2, "--")
            [] x = "/" /\ then = "/" -> LineComment(t, b + 2, "//")
            [] x = "/" /\ then = "*" -> MultiComment(t, b + 2)
            [] x = "-" /\ then \notin {"-", "end"} -> There("OP_ARI")
            [] x = "/" /\ then \notin {"/", "*", "end"} -> There("OP_ARI")
            [] x \in {"+", "*"} -> There("OP_ARI")
            [] x = "#" -> LineComment(t, b + 1, "#")
            [] x \in Blanks -> BlankToken(t, b)
            [] x = "bq" -> Quoted(t, b, "ID")
            [] x \in {"sq", "dq"} -> Quoted(t, b, "STRING")
            [] x \in Signs -> There("SIGN")
            [] OTHER -> ParseToken(t, b)
  BY <1>2 DEF NexToken
<1>5. l.type \in {"ID", "INT"} /\ l.curr = c
  OBVIOUS
<1>6. \/ x = "bq"
      \/ x \notin Signs \cup Blanks \cup Quotes
  <2>1. Laid(u, p, l)
    BY <1>1, NexTokenLaid
  <2> HIDE DEF l
  <2>2. ~CommentAt(u, p, l)
    BY <1>5 DEF CommentAt
  <2>3. l # Fault /\ p # Len(u)
    BY <1>1, <1>5 DEF Fault, Token
  <2>4. CASE QuotedAt(u, p, l)
    <3>1. l.start = p + 1 /\ l.prefix = "bq" /\ At(u, l.start - 1) = l.prefix
      BY <1>5, <2>4 DEF QuotedAt
    <3>2. l.start - 1 = p
      BY <1>1, <3>1
    <3> QED BY <3>1, <3>2
  <2>5. CASE PlainAt(u, p, l)
    BY <1>5, <2>5 DEF PlainAt
  <2> QED BY <2>1, <2>2, <2>3, <2>4, <2>5 DEF Laid
<1>7. x \in Chars
  BY <1>1, Chars1
<1>8. \A type : One(type).type = type
  BY DEF Token
<1> HIDE DEF next, then, l, k, One, There, x, b
<1> USE DEF Blanks, Signs
<1>9. CASE x = "bq"
  <2>1. l = Quoted(u, p, "ID") /\ k = Quoted(t, b, "ID")
    BY <1>3, <1>4, <1>9
  <2>2. At(u, p) \in Quotes
    BY <1>9 DEF x, Quotes
  <2>3. Same(Quoted(t, p + d, "ID"), Quoted(u, p, "ID"), d)
    BY <1>1, <1>5, <2>1, <2>2, CutQuoted
  <2> QED BY <2>1, <2>3 DEF k, l, b
<1>10. CASE x \in {"-", "/", "+", "*", "#"}
  <2>1. \/ l = Fault
        \/ \E i, s : l = LineComment(u, i, s)
        \/ l = MultiComment(u, p + 2)
        \/ l = One("OP_ARI")
    <3>1. CASE x \in {"-", "/"} /\ next = "end"
      BY <1>3, <3>1
    <3>2. CASE x = "-" /\ next = "-"
      BY <1>3, <3>2
    <3>3. CASE x = "/" /\ next = "/"
      BY <1>3, <3>3
    <3>4. CASE x = "/" /\ next = "*"
      BY <1>3, <3>4
    <3>5. CASE \/ x = "-" /\ next \notin {"-", "end"}
               \/ x = "/" /\ next \notin {"/", "*", "end"}
               \/ x \in {"+", "*"}
      BY <1>3, <3>5
    <3>6. CASE x = "#"
      BY <1>3, <3>6
    <3> QED BY <1>10, <3>1, <3>2, <3>3, <3>4, <3>5, <3>6
  <2>2. \A i, s : LineComment(u, i, s).type = "COMMENT"
    BY DEF LineComment, Token
  <2>3. MultiComment(u, p + 2).type = "COMMENT"
    BY DEF MultiComment, Token
  <2> QED BY <1>5, <1>8, <2>1, <2>2, <2>3 DEF Fault, Token
<1>11. CASE x \in Digits \cup Letters \cup {".", "other"}
  <2>1. l = ParseToken(u, p) /\ k = ParseToken(t, b)
    BY <1>3, <1>4, <1>11 DEF Digits, Letters, Keywords
  <2>2. Same(ParseToken(t, p + d), ParseToken(u, p), d)
    BY <1>1, <1>5, <2>1, CutParse
  <2> QED BY <2>1, <2>2 DEF k, l, b
<1> HIDE DEF Blanks, Signs
<1>12. \/ x \in {"-", "/", "+", "*", "#"} \/ x = "bq" \/ x \in Signs \cup Blanks \cup Quotes
       \/ x \in Digits \cup Letters \cup {".", "other"}
  BY <1>7 DEF Chars
<1>13. Same(k, l, d)
  BY <1>6, <1>9, <1>10, <1>11, <1>12 DEF k, l, b
<1> QED BY <1>13 DEF k, l, b

\* and of the lexer. The first character of a user variable may be another.
LEMMA CutLex ==
  ASSUME NEW t, NEW u, NEW d, NEW p, NEW c, Cut(t, u, d, p, c), NEW l, l = Lex(u, p),
         l.type \in {"ID", "INT", "USER_VAR"}, l.curr = c, l.type = "USER_VAR" => c + d < Len(t)
  PROVE  /\ Like(Lex(t, p + d), l, d)
         /\ l.type # "USER_VAR" => Lex(t, p + d).prefix = l.prefix
<1>1. /\ d \in Int /\ p \in Nat /\ p + d \in Nat /\ Len(t) \in Nat /\ Len(u) \in Nat
      /\ c \in p + 1..Len(u) /\ c + d <= Len(t) /\ p \in p..c - 1 /\ p \in 0..Len(u) - 1
      /\ p # Len(u) /\ p + d # Len(t)
      /\ t \in Seq(Chars) /\ u \in Seq(Chars)
  BY CutAgrees
<1>2. At(t, p + d) = At(u, p)
  BY <1>1 DEF Cut
<1>3. CASE At(u, p) # "@"
  <2>1. l = NexToken(u, p) /\ Lex(t, p + d) = NexToken(t, p + d)
    BY <1>1, <1>2, <1>3 DEF Lex
  <2>2. l.type # "USER_VAR"
    <3>1. Laid(u, p, l)
      BY <1>1, <1>3, <2>1, NexTokenLaid
    <3>2. CASE QuotedAt(u, p, l)
      BY <1>3, <3>2 DEF QuotedAt
    <3>3. CASE PlainAt(u, p, l)
      BY <1>3, <3>3 DEF PlainAt
    <3>4. CASE CommentAt(u, p, l)
      BY <3>4 DEF CommentAt
    <3>5. CASE l = Fault
      BY <3>5 DEF Fault, Token
    <3> QED BY <1>1, <3>1, <3>2, <3>3, <3>4, <3>5 DEF Laid
  <2>3. Same(NexToken(t, p + d), NexToken(u, p), d)
    BY <1>3, <2>1, <2>2, CutNexToken
  <2> QED BY <2>1, <2>3 DEF Same, Like
<1>4. CASE At(u, p) = "@"
  <2> DEFINE x == p + 1
  <2>1. l = IF x = Len(u) THEN Fault
            ELSE IF At(u, x) = "@" THEN Token("SIGN", "@", p, p + 2, p + 2)
            ELSE UserVarToken(u, x)
    BY <1>1, <1>4 DEF Lex
  <2>2. x \in p..c /\ x + d = (p + d) + 1 /\ x \in 0..Len(u)
    BY <1>1
  <2> HIDE DEF x
  <2>3. x # Len(u) /\ At(u, x) # "@" /\ l = UserVarToken(u, x)
    BY <2>1 DEF Fault, Token
  <2>4. l.type = "USER_VAR" /\ x < Len(u)
    <3>1. x < Len(u)
      BY <1>1, <2>2, <2>3
    <3>2. CASE At(u, x) \in Quotes
      <4>1. l = Quoted(u, x, "USER_VAR")
        BY <2>3, <3>1, <3>2 DEF UserVarToken
      <4> QED BY <3>1, <4>1 DEF Quoted, QuotedTo, Fault, Token
    <3>3. CASE At(u, x) \notin Quotes
      BY <2>3, <3>1, <3>3 DEF UserVarToken, Token
    <3> QED BY <3>1, <3>2, <3>3
  <2>5. x + d < Len(t)
    BY <1>1, <2>2, <2>4
  <2>6. At(t, x + d) # "@"
    <3>1. CASE x < c
      BY <2>3, <1>1, <2>2, <3>1 DEF Cut
    <3>2. CASE x = c
      BY <3>2, <2>4 DEF Cut
    <3> QED BY <1>1, <2>2, <3>1, <3>2
  <2>7. Lex(t, p + d) = UserVarToken(t, x + d)
    <3>1. (p + d) + 1 # Len(t)
      BY <1>1, <2>2, <2>5
    <3> QED BY <1>1, <1>2, <1>4, <2>2, <2>6, <3>1 DEF Lex
  <2>8. Like(UserVarToken(t, x + d), UserVarToken(u, x), d)
    BY <2>2, <2>3, <2>4, <2>5, CutUserVar
  <2> QED BY <2>3, <2>4, <2>7, <2>8
<1> QED BY <1>3, <1>4

\* Of two texts, what is cut out of characters that are the same is the same.
LEMMA SliceCut ==
  ASSUME NEW t \in Seq(Chars), NEW u \in Seq(Chars), NEW d \in Int, NEW i \in Nat, NEW j \in Int,
         i <= j, j <= Len(u), i + d >= 0, j + d <= Len(t),
         \A k \in i..j - 1 : At(t, k + d) = At(u, k)
  PROVE  Slice(t, i + d, j + d) = Slice(u, i, j)
<1> DEFINE
  g == i + d
  h == j + d
  x == Slice(u, i, j)
  y == Slice(t, g, h)
<1>1. /\ i \in 0..Len(u) /\ j \in 0..Len(u) /\ g \in 0..Len(t) /\ h \in 0..Len(t)
      /\ g <= h /\ h - g = j - i /\ i <= j /\ Len(t) \in Nat /\ Len(u) \in Nat
  OBVIOUS
<1>2. /\ x \in Seq(Chars) /\ Len(x) = IF i <= j THEN j - i ELSE 0
      /\ \A k \in 0..j - i - 1 : At(x, k) = At(u, i + k)
  BY ONLY u \in Seq(Chars), <1>1, SliceIs
<1>3. /\ y \in Seq(Chars) /\ Len(y) = IF g <= h THEN h - g ELSE 0
      /\ \A k \in 0..h - g - 1 : At(y, k) = At(t, g + k)
  <2> HIDE DEF g, h
  <2> QED BY ONLY t \in Seq(Chars), <1>1, SliceIs
<1> HIDE DEF x, y
<1>4. Len(x) = j - i /\ Len(y) = j - i
  BY <1>1, <1>2, <1>3
<1>5. ASSUME NEW k \in 1..Len(x)
      PROVE  x[k] = y[k]
  <2> DEFINE
    l == k - 1
    m == i + l
  <2>1. l \in 0..j - i - 1 /\ l \in 0..h - g - 1 /\ m \in i..j - 1 /\ m + d = g + l /\ l + 1 = k
    BY <1>1, <1>4
  <2>2. At(x, l) = At(u, m)
    BY <1>2, <2>1
  <2>3. At(y, l) = At(t, g + l)
    BY <1>3, <2>1
  <2> HIDE DEF l, m
  <2>4. At(t, m + d) = At(u, m)
    BY <2>1
  <2> QED BY <2>1, <2>2, <2>3, <2>4 DEF At
<1>6. x = y
  BY <1>2, <1>3, <1>4, <1>5, SeqEqual
<1> QED BY <1>6 DEF x, y

\* The token k is the token l, moved with what it says. The first character of a
\* user variable, which may have no name, may be another.
Alike(k, l, d) ==
    /\ k.type = l.type /\ k.quoted = l.quoted /\ k.says = l.says /\ k.at = l.at + d
    /\ k.start = l.start + d /\ k.end = l.end + d /\ k.curr = l.curr + d
    /\ l.type # "USER_VAR" => k.prefix = l.prefix

\* A variable, a name or a number that ends what is cut out is read as it was.
LEMMA CutRead ==
  ASSUME NEW t, NEW u, NEW d, NEW p, NEW c, Cut(t, u, d, p, c), NEW r, r = Read(u, p),
         r.type \in {"ID", "INT", "USER_VAR"}, r.curr = c, r.type = "USER_VAR" => c + d < Len(t)
  PROVE  Alike(Read(t, p + d), r, d)
<1>1. /\ d \in Int /\ p \in Nat /\ p + d \in Nat /\ Len(t) \in Nat /\ Len(u) \in Nat
      /\ c \in p + 1..Len(u) /\ c + d <= Len(t)
      /\ t \in Seq(Chars) /\ u \in Seq(Chars) /\ p \in 0..Len(u)
  BY CutAgrees
<1> DEFINE
  l == Lex(u, p)
  k == Lex(t, p + d)
  s == Read(t, p + d)
<1>2. /\ r.type = l.type /\ r.prefix = l.prefix /\ r.quoted = l.quoted /\ r.at = p
      /\ r.start = l.start /\ r.end = l.end /\ r.curr = l.curr /\ r.says = Slice(u, l.start, l.end)
  BY ReadFields
<1>3. /\ s.type = k.type /\ s.prefix = k.prefix /\ s.quoted = k.quoted /\ s.at = p + d
      /\ s.start = k.start /\ s.end = k.end /\ s.curr = k.curr /\ s.says = Slice(t, k.start, k.end)
  BY ReadFields
<1>4. Like(k, l, d) /\ (l.type # "USER_VAR" => k.prefix = l.prefix)
  BY <1>2, CutLex
<1>5. ReadAt(u, p, r)
  BY <1>1, ReadIs
<1> HIDE DEF l, k, s
<1>6. r.start \in p..c /\ r.end \in Int /\ r.start <= r.end /\ r.end <= c
  <2>1. r.start \in Int /\ r.end \in Int /\ r.curr \in Int
    BY <1>5 DEF ReadAt, Reads
  <2>2. CASE QuotedAt(u, p, r)
    <3>1. r.start \in {p + 1, p + 2} /\ r.end \in r.start..Len(u) - 1 /\ r.curr = r.end + 1
      BY <2>2 DEF QuotedAt
    <3> QED BY <1>1, <2>1, <3>1, SMTT(20)
  <2>3. CASE PlainAt(u, p, r)
    BY <1>1, <2>1, <2>3, PlainSpan
  <2>4. ~CommentAt(u, p, r)
    BY DEF CommentAt
  <2> QED BY <1>5, <2>2, <2>3, <2>4 DEF ReadAt
<1>7. Slice(t, r.start + d, r.end + d) = Slice(u, r.start, r.end)
  <2> DEFINE
    i == r.start
    j == r.end
  <2>1. /\ i \in Nat /\ j \in Int /\ i <= j /\ j <= Len(u) /\ i + d >= 0 /\ j + d <= Len(t)
        /\ i..j - 1 \subseteq p..c - 1
    BY <1>1, <1>6, SMTT(30)
  <2>2. \A x \in p..c - 1 : At(t, x + d) = At(u, x)
    BY DEF Cut
  <2> HIDE DEF i, j
  <2>3. \A x \in i..j - 1 : At(t, x + d) = At(u, x)
    BY <2>1, <2>2
  <2>4. Slice(t, i + d, j + d) = Slice(u, i, j)
    BY <1>1, <2>1, <2>3, SliceCut
  <2> QED BY <2>4 DEF i, j
<1>8. k.start = r.start + d /\ k.end = r.end + d
  BY <1>2, <1>4 DEF Like
<1>9. s.says = r.says
  BY <1>2, <1>3, <1>7, <1>8
<1>10. Alike(s, r, d)
  BY <1>2, <1>3, <1>4, <1>9 DEF Alike, Like
<1> QED BY <1>10 DEF s

\* The tokens a to e of u are cut out, and stand in t from its token b on.
Lifted(t, u, d, w, v, a, b, e) ==
    /\ IsWalk(u, 0, w) /\ IsWalk(t, 0, v)
    /\ a \in 1..Len(w) /\ e \in a..Len(w) /\ b \in 1..Len(v)
    /\ ~IsFinal(w[e]) /\ w[e].type \in {"ID", "INT", "USER_VAR"}
    /\ Cut(t, u, d, w[a].at, w[e].curr)
    /\ w[e].type = "USER_VAR" => w[e].curr + d < Len(t)
    /\ v[b].at = w[a].at + d

\* So they are the same tokens.
Carried(t, d, w, v, a, b, e) ==
    /\ b + (e - a) + 1 \in 1..Len(v)
    /\ \A k \in 0..e - a : Alike(v[b + k], w[a + k], d)
    /\ v[b + (e - a) + 1] = Read(t, w[e].curr + d)

\* What is cut out of a text, from one of its tokens to another, is read as the
\* same tokens.
LEMMA CutWalk ==
  ASSUME NEW t, NEW u, NEW d, NEW w, NEW v, NEW a, NEW b, NEW e, Lifted(t, u, d, w, v, a, b, e)
  PROVE  Carried(t, d, w, v, a, b, e)
<1>0. /\ IsWalk(u, 0, w) /\ IsWalk(t, 0, v)
      /\ a \in 1..Len(w) /\ e \in a..Len(w) /\ b \in 1..Len(v)
      /\ ~IsFinal(w[e]) /\ w[e].type \in {"ID", "INT", "USER_VAR"}
      /\ Cut(t, u, d, w[a].at, w[e].curr)
      /\ w[e].type = "USER_VAR" => w[e].curr + d < Len(t)
      /\ v[b].at = w[a].at + d
  BY DEF Lifted
<1> USE <1>0
<1> DEFINE
  p == w[a].at
  c == w[e].curr
<1>1. /\ d \in Int /\ p \in Nat /\ p + d \in Nat /\ Len(t) \in Nat /\ Len(u) \in Nat
      /\ c \in p + 1..Len(u) /\ c + d <= Len(t) /\ Agree(t, u, d, p, c - 1)
      /\ t \in Seq(Chars) /\ u \in Seq(Chars)
  BY CutAgrees
<1> HIDE DEF p, c
<1>2. /\ Len(w) \in Nat /\ Len(w) > 0
      /\ \A k \in 1..Len(w) :
           w[k].at \in 0..Len(u) /\ w[k] = Read(u, w[k].at) /\ ReadAt(u, w[k].at, w[k])
      /\ \A k \in 1..Len(w) - 1 :
           w[k + 1].at = w[k].curr /\ w[k].curr \in w[k].at + 1..Len(u) /\ ~IsFinal(w[k])
      /\ IsFinal(w[Len(w)])
  <2>1. 0 \in 0..Len(u)
    BY <1>1
  <2> QED BY <1>1, <2>1, WalkPlaces
<1>3. /\ Len(v) \in Nat /\ Len(v) > 0
      /\ \A k \in 1..Len(v) :
           v[k].at \in 0..Len(t) /\ v[k] = Read(t, v[k].at) /\ ReadAt(t, v[k].at, v[k])
      /\ \A k \in 1..Len(v) - 1 :
           v[k + 1].at = v[k].curr /\ v[k].curr \in v[k].at + 1..Len(t) /\ ~IsFinal(v[k])
      /\ IsFinal(v[Len(v)])
  <2>1. 0 \in 0..Len(t)
    BY <1>1
  <2> QED BY <1>1, <2>1, WalkPlaces
<1>4. e < Len(w)
  BY <1>2
<1>r. Len(w) \in Nat /\ Len(v) \in Nat /\ a \in 1..Len(w) /\ e \in a..Len(w) /\ b \in 1..Len(v)
      /\ e < Len(w)
  BY <1>2, <1>3, <1>4
<1>5. ASSUME NEW k \in 0..e - a, b + k \in 1..Len(v), v[b + k].at = w[a + k].at + d
      PROVE  /\ Alike(v[b + k], w[a + k], d)
             /\ b + k + 1 \in 1..Len(v) /\ v[b + k + 1].at = w[a + k].curr + d
  <2> DEFINE
    y == a + k
    z == b + k
    l == w[y]
    m == v[z]
    q == l.at
  <2>1. /\ y \in a..e /\ y \in 1..Len(w) - 1 /\ y \in 1..Len(w) /\ z \in 1..Len(v) /\ z \in Nat
    BY ONLY <1>r, <1>5
  <2> HIDE DEF y, z
  <2>2. /\ q \in 0..Len(u) /\ l = Read(u, q) /\ ReadAt(u, q, l) /\ ~IsFinal(l)
        /\ l.curr \in q + 1..Len(u)
    BY <1>2, <2>1
  <2>3. m = Read(t, q + d) /\ m.at = q + d
    BY <1>3, <1>5, <2>1 DEF y, z
  <2>4. p <= q /\ (y < e => l.curr <= w[e].at) /\ w[e].at < c
    <3>1. a \in 1..Len(w) /\ y \in a..Len(w)
      BY <1>2, <2>1
    <3>z. 0 \in 0..Len(u)
      BY <1>1
    <3>2. p <= q
      BY <1>1, <3>1, <3>z, WalkForward DEF p
    <3>3. y < e => l.curr <= w[e].at
      <4>1. e \in y..Len(w)
        BY <1>2, <2>1
      <4>z. 0 \in 0..Len(u)
        BY <1>1
      <4> QED BY <1>1, <2>1, <4>1, <4>z, WalkForward
    <3>4. w[e].at < c
      <4>1. e \in 1..Len(w) - 1
        BY <1>2, <1>4
      <4>2. w[e].curr \in w[e].at + 1..Len(u) /\ w[e].at \in 0..Len(u)
        <5>1. e \in 1..Len(w)
          BY <1>r
        <5>2. w[e].at \in 0..Len(u)
          BY <1>2, <5>1
        <5>3. w[e].curr \in w[e].at + 1..Len(u)
          BY <1>2, <4>1
        <5> QED BY <5>2, <5>3
      <4> QED BY <1>1, <4>2, SMTT(30) DEF c
    <3> QED BY <3>2, <3>3, <3>4
  <2> HIDE DEF m, l, q
  <2>5. l.at = q /\ l.curr \in Int /\ q \in Int /\ w[e].at \in Int
    BY <1>2, <2>2 DEF q
  <2>6. Alike(m, l, d)
    <3>1. CASE y = e
      <4>1. l = w[e] /\ l.curr = c /\ q = w[e].at
        BY <3>1 DEF l, c, q
      <4>2. Cut(t, u, d, q, c)
        <5>0. q \in 0..Len(u)
          BY <2>2
        <5>1. q \in Nat /\ q + d \in Nat /\ c \in q + 1..Len(u)
          <6>1. q \in Nat /\ q + d \in Nat
            BY ONLY <1>1, <2>4, <2>5, <5>0
          <6>2. q < c
            BY ONLY <2>4, <4>1
          <6> QED BY ONLY <1>1, <5>0, <6>1, <6>2
        <5>2. Cut(t, u, d, p, c)
          BY DEF p, c
        <5>3. q..c - 1 \subseteq p..c - 1
          BY <1>1, <2>4, <2>5
        <5> QED BY <5>1, <5>2, <5>3 DEF Cut
      <4>3. l.type \in {"ID", "INT", "USER_VAR"} /\ (l.type = "USER_VAR" => c + d < Len(t))
        BY <4>1 DEF c
      <4> QED BY <2>2, <2>3, <4>1, <4>2, <4>3, CutRead
    <3>2. CASE y # e
      <4>1. y < e
        BY <2>1, <3>2
      <4> DEFINE x == c - 1
      <4>2. l.curr <= x /\ x \in q..Len(u) /\ q \in p..x /\ q \in Nat /\ q + d \in Nat
        <5>1. q \in 0..Len(u) /\ l.curr \in q + 1..Len(u)
          BY <2>2
        <5> QED
          <6>1. l.curr <= x
            BY ONLY <1>1, <2>4, <2>5, <4>1
          <6>2. x \in q..Len(u)
            BY ONLY <1>1, <2>5, <5>1, <6>1
          <6>3. q \in Nat /\ q + d \in Nat
            BY ONLY <1>1, <2>4, <2>5, <5>1, SMTT(30)
          <6> QED BY ONLY <1>1, <2>4, <6>1, <6>2, <6>3
      <4>3. Agree(t, u, d, p, x)
        BY <1>1
      <4> HIDE DEF x
      <4>4. Agree(t, u, d, q, x)
        <5>1. q..x \subseteq p..x
          BY <1>1, <4>2, SMTT(30)
        <5> QED BY <4>2, <4>3, <5>1 DEF Agree
      <4>5. l.type # "error"
        BY <2>2 DEF IsFinal
      <4>6. Moved(m, l, d)
        BY <2>2, <2>3, <4>2, <4>4, <4>5, ReadMoved
      <4> QED BY <4>5, <4>6 DEF Moved, Alike
    <3> QED BY <3>1, <3>2
  <2>7. ~IsFinal(m)
    <3>1. l.type \notin {"EOS", "error"} /\ l.curr # l.at
      BY <2>2 DEF IsFinal
    <3>2. m.type = l.type /\ m.curr = l.curr + d /\ m.at = l.at + d
      BY <2>6 DEF Alike
    <3> QED
      <4>1. m.curr # m.at
        <5> DEFINE
          x == l.at
          y1 == l.curr
        <5>1. x \in Int /\ y1 \in Int /\ d \in Int /\ x # y1
          BY <1>1, <2>5, <3>1
        <5>2. m.curr = y1 + d /\ m.at = x + d
          BY <3>2
        <5> HIDE DEF x, y1
        <5>3. y1 + d # x + d
          BY <5>1
        <5> QED BY <5>2, <5>3
      <4>2. m.type \notin {"EOS", "error"}
        BY ONLY <3>1, <3>2
      <4> QED BY <4>1, <4>2 DEF IsFinal
  <2>8. z # Len(v)
    BY <1>3, <2>7 DEF m
  <2>9. z \in 1..Len(v) - 1 /\ z + 1 \in 1..Len(v)
    BY <1>3, <2>1, <2>8
  <2>10. v[z + 1].at = l.curr + d
    BY <2>6, <1>3, <2>9 DEF m, Alike
  <2> QED BY <2>6, <2>9, <2>10 DEF l, m, y, z
<1> DEFINE S == {k \in 0..e - a : b + k \in 1..Len(v) /\ v[b + k].at = w[a + k].at + d}
<1>6. 0..e - a \subseteq S
  <2> DEFINE E == 0..e - a
  <2>1. E \subseteq Nat
    BY <1>2
  <2>2. ASSUME NEW k \in E, \A j \in E : j < k => j \in S
        PROVE  k \in S
    <3>1. CASE k = 0
      BY <3>1, <1>2, <1>3
    <3>2. CASE k # 0
      <4> DEFINE j == k - 1
      <4>0. /\ a \in Nat /\ a > 0 /\ b \in Nat /\ e \in Nat /\ Len(w) \in Nat /\ e < Len(w)
            /\ k \in Nat /\ k # 0 /\ k <= e - a
        <5> HIDE DEF j, S
        <5>1. a \in Nat /\ a > 0 /\ b \in Nat /\ e \in Nat /\ Len(w) \in Nat /\ e < Len(w)
          BY ONLY <1>r, <1>4
        <5> QED BY ONLY <2>2, <3>2, <5>1
      <4>1. j \in E /\ j < k /\ b + j + 1 = b + k /\ a + j + 1 = a + k /\ a + j \in 1..Len(w) - 1
        <5> DEFINE n == Len(w)
        <5>1. n \in Nat /\ e < n
          BY ONLY <4>0
        <5>2. j \in Nat /\ j < k /\ j + 1 = k /\ j <= e - a
          BY ONLY <4>0
        <5>3. j \in E
          BY ONLY <4>0, <5>2
        <5> HIDE DEF n, j, E, S
        <5>4. b + j + 1 = b + k /\ a + j + 1 = a + k /\ a + j \in 1..n - 1
          BY ONLY <4>0, <5>1, <5>2
        <5> QED BY ONLY <5>2, <5>3, <5>4 DEF n
      <4>2. j \in S
        BY <2>2, <4>1
      <4> HIDE DEF j
      <4>3. b + j + 1 \in 1..Len(v) /\ v[b + j + 1].at = w[a + j].curr + d
        BY <1>5, <4>2
      <4>4. w[(a + j) + 1].at = w[a + j].curr
        BY <1>2, <4>1
      <4> QED BY <4>1, <4>3, <4>4
    <3> QED BY <3>1, <3>2
  <2> HIDE DEF E, S
  <2>3. E \subseteq S
    BY <2>1, <2>2, Upward
  <2> QED BY <2>3 DEF E
<1>7. \A k \in 0..e - a : Alike(v[b + k], w[a + k], d)
  BY <1>5, <1>6
<1>8. b + (e - a) + 1 \in 1..Len(v) /\ v[b + (e - a) + 1].at = w[e].curr + d
  <2> DEFINE k == e - a
  <2>1. k \in 0..e - a /\ a + k = e
    BY <1>2
  <2> HIDE DEF k
  <2>2. b + k + 1 \in 1..Len(v) /\ v[b + k + 1].at = w[a + k].curr + d
    BY <1>5, <1>6, <2>1
  <2> QED BY <2>1, <2>2 DEF k
<1>9. v[b + (e - a) + 1] = Read(t, w[e].curr + d)
  <2> DEFINE k == b + (e - a) + 1
  <2> HIDE DEF k
  <2>1. k \in 1..Len(v) /\ v[k].at = w[e].curr + d
    BY <1>8 DEF k
  <2>2. v[k] = Read(t, v[k].at)
    BY <1>3, <2>1
  <2> QED BY <2>1, <2>2 DEF k
<1> QED BY <1>7, <1>8, <1>9 DEF Carried

-----------------------------------------------------------------------------
(* Variables that are cut out. *)

\* The tokens a to e of w are those of v that stand g further. They are not all
\* of either.
Twins(v, w, g, a, e, d) ==
    /\ Ended(v) /\ Ended(w) /\ g \in Int /\ d \in Int
    /\ a \in 1..Len(w) /\ e \in a..Len(w) - 1 /\ a + g >= 1 /\ e + g < Len(v)
    /\ \A k \in a..e : Alike(v[k + g], w[k], d) /\ v[k + g] \in Reads /\ w[k] \in Reads

\* What twins have in common.
LEMMA TwinToken ==
  ASSUME NEW v, NEW w, NEW g, NEW a, NEW e, NEW d, Twins(v, w, g, a, e, d), NEW k \in a..e
  PROVE  /\ k \in 1..Len(w) /\ k + g \in 1..Len(v) /\ v[k + g] \in Reads /\ w[k] \in Reads
         /\ Alike(v[k + g], w[k], d)
         /\ v[k + g].type = w[k].type /\ v[k + g].says = w[k].says
         /\ v[k + g].at = w[k].at + d /\ v[k + g].curr = w[k].curr + d
         /\ \A c : IsSign(v[k + g], c) <=> IsSign(w[k], c)
         /\ \A c : IsWord(v[k + g], c) <=> IsWord(w[k], c)
         /\ IsSolid(v[k + g]) <=> IsSolid(w[k])
<1> DEFINE
  l == w[k]
  m == v[k + g]
<1>1. Alike(m, l, d) /\ m \in Reads /\ l \in Reads
  BY DEF Twins
<1>2. k \in 1..Len(w) /\ k + g \in 1..Len(v)
  BY DEF Twins, Ended
<1> HIDE DEF l, m
<1>3. /\ m.type = l.type /\ m.quoted = l.quoted /\ m.says = l.says
      /\ m.at = l.at + d /\ m.curr = l.curr + d /\ (l.type # "USER_VAR" => m.prefix = l.prefix)
  BY <1>1 DEF Alike
<1>4. \A c : IsSign(m, c) <=> IsSign(l, c)
  BY <1>3 DEF IsSign
<1>5. \A c : IsWord(m, c) <=> IsWord(l, c)
  BY <1>3 DEF IsWord
<1>6. IsSolid(m) <=> IsSolid(l)
  BY <1>3 DEF IsSolid
<1> QED BY <1>1, <1>2, <1>3, <1>4, <1>5, <1>6 DEF l, m

\* token() goes the same way among twins.
LEMMA AfterTwins ==
  ASSUME NEW v, NEW w, NEW g, NEW a, NEW e, NEW d, Twins(v, w, g, a, e, d),
         NEW i \in a..e, After(w, i) <= e
  PROVE  After(v, i + g) = After(w, i) + g /\ After(w, i) \in i + 1..e
<1>1. /\ Ended(v) /\ Ended(w) /\ g \in Int /\ Len(v) \in Nat /\ Len(w) \in Nat
      /\ a \in 1..Len(w) /\ e \in a..Len(w) - 1 /\ a + g >= 1 /\ e + g < Len(v)
  BY DEF Twins, Ended
<1> DEFINE
  f == After(w, i)
  x == i + g
  y == f + g
<1>2. i \in 0..Len(w) /\ i < Len(w)
  BY <1>1
<1>3. /\ f \in 1..Len(w) /\ i < f /\ IsSolid(w[f])
      /\ \A k \in i + 1..f - 1 : ~IsSolid(w[k])
  BY <1>1, <1>2, AfterIs
<1>4. f <= e
  OBVIOUS
<1> HIDE DEF f
<1>5. f \in i + 1..e /\ f \in a..e
  BY <1>1, <1>3, <1>4
<1>6. x \in 0..Len(v) /\ y \in x + 1..Len(v)
  BY <1>1, <1>5
<1>7. IsSolid(v[y])
  BY <1>3, <1>5, TwinToken
<1>8. ASSUME NEW z \in x + 1..y - 1
      PROVE  ~IsSolid(v[z])
  <2> DEFINE k == z - g
  <2>1. k \in i + 1..f - 1 /\ k \in a..e /\ k + g = z
    BY <1>1, <1>5
  <2> HIDE DEF k
  <2> QED BY <1>3, <2>1, TwinToken
<1> HIDE DEF x, y
<1>9. After(v, x) = y
  BY <1>1, <1>6, <1>7, <1>8, AfterThe
<1> QED BY <1>5, <1>9 DEF f, x, y

\* What may follow a variable of a list.
Follows(l) == IsSign(l, "comma") \/ IsEnd(l) \/ IsWord(l, "LIMIT")

\* It is no point,
LEMMA FollowsNoPoint ==
  ASSUME NEW t \in Seq(Chars), NEW p \in 0..Len(t), NEW l, ReadAt(t, p, l), Follows(l)
  PROVE  l.prefix # "." /\ (l.type \notin {"EOS", "error"} => l.curr # l.at)
<1>1. CASE IsSign(l, "comma") \/ IsSign(l, "semi")
  <2>1. l.type = "SIGN" /\ l.prefix \in {"comma", "semi"} /\ l.at = p
    BY <1>1 DEF IsSign, ReadAt
  <2>2. PlainAt(t, p, l)
    BY <2>1 DEF CommentAt, QuotedAt, ReadAt
  <2>3. l.curr > p
    BY <2>1, <2>2 DEF PlainAt
  <2> QED BY <2>1, <2>3
<1>2. CASE l.type = "EOS"
  BY <1>2 DEF CommentAt, QuotedAt, PlainAt, ReadAt
<1>3. CASE IsWord(l, "LIMIT")
  <2>1. p < Len(t) /\ l.start = p /\ PlainAt(t, p, l)
    BY <1>3, WordAt
  <2>2. l.type = "ID" /\ ~l.quoted /\ l.says = <<"LIMIT">>
    BY <1>3 DEF IsWord
  <2>3. l.end = l.curr /\ l.curr \in p..Len(t) /\ l.prefix = At(t, p)
    BY <2>1, <2>2 DEF PlainAt
  <2>4. l.says = Slice(t, p, l.curr) /\ l.at = p
    BY <2>1, <2>3 DEF ReadAt
  <2>5. l.curr # p
    <3>1. CASE l.curr = p
      <4>1. p \in Int /\ l.says = Slice(t, p, p)
        BY <2>4, <3>1
      <4>2. l.says = <<>>
        BY <4>1, SliceNone
      <4>3. <<"LIMIT">> = <<>>
        BY <2>2, <4>2
      <4>4. Len(<<"LIMIT">>) = 1 /\ Len(<<>>) = 0
        OBVIOUS
      <4> QED BY ONLY <4>3, <4>4
    <3> QED BY <3>1
  <2> DEFINE c == l.curr
  <2>6. c \in 0..Len(t) /\ p \in 0..Len(t) /\ p <= c /\ 0 \in 0..c - p - 1 /\ p + 0 = p
    BY <2>3, <2>5
  <2> HIDE DEF c
  <2>7. \A k \in 0..c - p - 1 : At(Slice(t, p, c), k) = At(t, p + k)
    BY <2>6, SliceIs
  <2>8. At(<<"LIMIT">>, 0) = At(t, p)
    BY <2>2, <2>4, <2>6, <2>7 DEF c
  <2>9. At(t, p) = "LIMIT"
    BY <2>8 DEF At
  <2> QED BY <2>3, <2>4, <2>5, <2>9
<1> QED BY <1>1, <1>2, <1>3 DEF Follows, IsEnd

\* The variable that begins at i consists of the tokens up to e.
Spans(w, i, e) ==
    /\ e \in i..Len(w) - 1 /\ w[e].type \in {"USER_VAR", "ID"} /\ ~IsFinal(w[e])
    /\ SelectExpr(w, i).node.start = w[i].at /\ SelectExpr(w, i).node.end = w[e].curr
    /\ SelectExpr(w, i).next = After(w, e)
    /\ \/ w[i].type = "USER_VAR" /\ e = i /\ SelectExpr(w, i).node = UserVar(w[i])
       \/ /\ IsSign(w[i], "@") /\ w[e].type = "ID" /\ e = SysVarName(w, After(w, i))
          /\ ~SysVarRefused(w, i, After(w, i), e) /\ w[After(w, e)].prefix # "."
          /\ After(w, i) \in i + 1..e
          /\ IsScope(w[After(w, i)]) => After(w, After(w, i)) \in i + 1..e
          /\ SelectExpr(w, i).node.kind = "sys" /\ SelectExpr(w, i).node.name = w[e].says
          /\ SelectExpr(w, i).node.scope =
                IF IsWord(w[After(w, i)], "GLOBAL") THEN "GLOBAL" ELSE "SESSION"

\* and the variable in front of it spans its tokens.
LEMMA ExprSpans ==
  ASSUME NEW t \in Seq(Chars), NEW w, IsWalk(t, 0, w), NEW i \in 1..Len(w),
         SelectExpr(w, i).next # 0, Follows(w[SelectExpr(w, i).next])
  PROVE  \E e \in i..Len(w) - 1 : Spans(w, i, e)
<1> DEFINE x == SelectExpr(w, i)
<1>z. 0 \in 0..Len(t) /\ Len(t) \in Nat
  OBVIOUS
<1>1. Ended(w) /\ Len(w) \in Nat /\ Len(w) > 0
  BY <1>z, WalkEnded DEF Ended
<1>2. /\ \A k \in 1..Len(w) :
           w[k].at \in 0..Len(t) /\ w[k] = Read(t, w[k].at) /\ ReadAt(t, w[k].at, w[k])
      /\ \A k \in 1..Len(w) - 1 :
           w[k + 1].at = w[k].curr /\ w[k].curr \in w[k].at + 1..Len(t) /\ ~IsFinal(w[k])
      /\ IsFinal(w[Len(w)])
  BY <1>z, WalkPlaces
<1>3. x # Refused
  BY DEF Refused
<1>4. i < Len(w) /\ x.next \in i + 1..Len(w)
  BY <1>1, <1>3, SelectExprIs
<1>5. i \in 1..Len(w) - 1 /\ i \in i..Len(w) - 1
  BY <1>1, <1>4
<1> DEFINE p == w[i].at
<1>6. /\ p \in 0..Len(t) /\ ReadAt(t, p, w[i]) /\ ~IsFinal(w[i]) /\ w[i] \in Reads
  BY <1>2, <1>5 DEF ReadAt
<1>7. Follows(w[x.next])
  OBVIOUS
<1> HIDE DEF x, p
<1>8. CASE w[i].type = "USER_VAR"
  <2>1. x = [next |-> After(w, i), node |-> UserVar(w[i])]
    BY <1>8 DEF SelectExpr, IsSign, x
  <2>2. x.next = After(w, i) /\ x.node = UserVar(w[i])
    BY <2>1
  <2>3. UserVar(w[i]).start = p /\ UserVar(w[i]).end = w[i].curr
    <3>1. ~CommentAt(t, p, w[i])
      BY <1>8 DEF CommentAt
    <3>2. QuotedAt(t, p, w[i]) \/ PlainAt(t, p, w[i])
      BY <1>6, <1>8, <3>1 DEF ReadAt
    <3>3. \/ w[i].quoted = TRUE /\ w[i].start = p + 2
          \/ w[i].quoted = FALSE /\ w[i].start = p + 1
      <4>1. w[i].quoted \in BOOLEAN
        BY <1>6 DEF Reads
      <4>2. CASE QuotedAt(t, p, w[i])
        BY <4>1, <1>8, <4>2 DEF QuotedAt
      <4>3. CASE PlainAt(t, p, w[i])
        BY <4>1, <1>8, <4>3 DEF PlainAt
      <4> QED BY <3>2, <4>2, <4>3
    <3>4. w[i].start - (IF w[i].quoted THEN 2 ELSE 1) = p
      BY <1>6, <3>3
    <3> QED BY <3>4 DEF UserVar
  <2> QED BY <1>5, <1>6, <1>8, <2>2, <2>3 DEF Spans, x, p
<1>9. CASE w[i].type # "USER_VAR" /\ IsSign(w[i], "@")
  <2> DEFINE
    f == After(w, i)
    e == SysVarName(w, f)
  <2>1. x = IF SysVarRefused(w, i, f, e) THEN Refused
            ELSE [next |-> After(w, e),
                  node |-> [kind |-> "sys", name |-> w[e].says,
                            scope |-> IF IsWord(w[f], "GLOBAL") THEN "GLOBAL" ELSE "SESSION",
                            start |-> SysVarStart(w[f]), end |-> NameEnd(w[e])]]
    BY <1>9 DEF SelectExpr, SysVar, x
  <2>2. f \in i + 1..Len(w)
    BY <1>1, <1>4, AfterIs
  <2>3. /\ ~IsScope(w[f]) => e = f
        /\ IsScope(w[f]) => /\ After(w, f) \in f..Len(w) /\ e = After(w, After(w, f))
                            /\ e \in After(w, f)..Len(w)
    <3>1. f \in 0..Len(w)
      BY <1>1, <2>2
    <3> DEFINE g == After(w, f)
    <3> HIDE DEF f
    <3>2. g \in f..Len(w)
      BY <1>1, <3>1, AfterIs
    <3>3. g \in 0..Len(w)
      BY <1>1, <3>1, <3>2
    <3> HIDE DEF g
    <3>4. After(w, g) \in g..Len(w)
      BY <1>1, <3>3, AfterIs
    <3> QED BY <3>2, <3>4 DEF SysVarName, g
  <2> HIDE DEF f, e
  <2>4. /\ ~SysVarRefused(w, i, f, e)
        /\ x.next = After(w, e)
        /\ x.node = [kind |-> "sys", name |-> w[e].says,
                     scope |-> IF IsWord(w[f], "GLOBAL") THEN "GLOBAL" ELSE "SESSION",
                     start |-> SysVarStart(w[f]), end |-> NameEnd(w[e])]
    BY <1>3, <2>1 DEF x
  <2>5. /\ x.node.kind = "sys" /\ x.node.name = w[e].says
        /\ x.node.scope = IF IsWord(w[f], "GLOBAL") THEN "GLOBAL" ELSE "SESSION"
        /\ x.node.start = SysVarStart(w[f]) /\ x.node.end = NameEnd(w[e])
    BY <2>4
  <2>6. e \in f..Len(w)
    BY <1>1, <2>2, <2>3
  <2>7. e \in 1..Len(w) /\ f \in 1..Len(w)
    BY <1>1, <2>2, <2>6
  <2>8. w[f].type = "ID" /\ w[f].at = w[i].curr /\ w[e].type = "ID"
    BY <2>4 DEF SysVarRefused
  <2>9. \A k \in {e, f} : /\ w[k].at \in 0..Len(t) /\ ReadAt(t, w[k].at, w[k]) /\ w[k] \in Reads
                          /\ w[k].quoted \in BOOLEAN
    BY <1>2, <2>7 DEF ReadAt, Reads
  <2>10. ASSUME NEW k \in {e, f}
         PROVE  \/ w[k].quoted = TRUE /\ w[k].start = w[k].at + 1 /\ w[k].curr = w[k].end + 1
                \/ w[k].quoted = FALSE /\ w[k].start = w[k].at /\ w[k].curr = w[k].end
    <3> DEFINE l == w[k]
    <3>1. ReadAt(t, l.at, l) /\ l.quoted \in BOOLEAN /\ l.type = "ID"
      BY <2>8, <2>9
    <3> HIDE DEF l
    <3>2. ~CommentAt(t, l.at, l)
      BY <3>1 DEF CommentAt
    <3>3. QuotedAt(t, l.at, l) \/ PlainAt(t, l.at, l)
      BY <3>1, <3>2 DEF ReadAt
    <3>4. \/ l.quoted = TRUE /\ l.start = l.at + 1 /\ l.curr = l.end + 1
          \/ l.quoted = FALSE /\ l.start = l.at /\ l.curr = l.end
      BY <3>1, <3>3 DEF QuotedAt, PlainAt
    <3> QED BY <3>4 DEF l
  <2>11. NameEnd(w[e]) = w[e].curr
    BY <2>10 DEF NameEnd
  <2>12. SysVarStart(w[f]) = p
    <3>1. w[i].curr = p + 2
      <4>1. w[i].type = "SIGN" /\ w[i].prefix = "@"
        BY <1>9 DEF IsSign
      <4>2. ~CommentAt(t, p, w[i]) /\ ~QuotedAt(t, p, w[i])
        BY <4>1 DEF CommentAt, QuotedAt
      <4>3. PlainAt(t, p, w[i])
        BY <1>6, <4>1, <4>2 DEF ReadAt
      <4> QED BY <4>1, <4>3 DEF PlainAt, Signs
    <3>2. w[f].start = w[f].at + (IF w[f].quoted THEN 1 ELSE 0)
      <4>1. w[f].at \in Int
        BY <2>9
      <4>2. \/ w[f].quoted = TRUE /\ w[f].start = w[f].at + 1
            \/ w[f].quoted = FALSE /\ w[f].start = w[f].at
        BY <2>10
      <4>3. CASE w[f].quoted = TRUE /\ w[f].start = w[f].at + 1
        BY <4>1, <4>3
      <4>4. CASE w[f].quoted = FALSE /\ w[f].start = w[f].at
        BY <4>1, <4>4
      <4> QED BY <4>2, <4>3, <4>4
    <3>3. w[f].at = p + 2 /\ p \in Int
      BY <1>6, <2>8, <3>1
    <3> QED BY <3>2, <3>3 DEF SysVarStart
  <2>13. w[After(w, e)].prefix # "."
    <3> DEFINE n == x.next
    <3>1. n \in 1..Len(w)
      BY <1>1, <1>4
    <3> HIDE DEF n
    <3>2. w[n].at \in 0..Len(t) /\ ReadAt(t, w[n].at, w[n])
      BY <1>2, <3>1
    <3>3. w[n].prefix # "."
      BY <1>7, <3>2, FollowsNoPoint DEF n
    <3> QED BY <2>4, <3>3 DEF n
  <2>14. e < Len(w)
    <3>1. CASE e = Len(w)
      <4>1. After(w, e) \in 1..Len(w) /\ e <= After(w, e)
        BY <1>1, AfterIs, <2>7
      <4>2. x.next = e
        BY <1>1, <2>4, <3>1, <4>1
      <4>3. Follows(w[e]) /\ IsFinal(w[e])
        BY <1>2, <1>7, <3>1, <4>2
      <4>4. w[e].curr # w[e].at
        <5>1. ReadAt(t, w[e].at, w[e]) /\ w[e].at \in 0..Len(t)
          BY <2>9
        <5> DEFINE
          l == w[e]
          q == w[e].at
        <5> HIDE DEF l, q
        <5>2. l.type \notin {"EOS", "error"} => l.curr # l.at
          BY <4>3, <5>1, FollowsNoPoint DEF l, q
        <5> QED BY <2>8, <5>2 DEF l
      <4> QED BY <2>8, <4>3, <4>4 DEF IsFinal
    <3> QED BY <1>1, <2>7, <3>1
  <2>15. e \in i..Len(w) - 1 /\ ~IsFinal(w[e]) /\ f \in i + 1..e
    BY <1>2, <1>1, <1>5, <2>2, <2>6, <2>14
  <2>16. IsScope(w[f]) => After(w, f) \in i + 1..e
    <3> SUFFICES ASSUME IsScope(w[f]) PROVE After(w, f) \in i + 1..e
      OBVIOUS
    <3> DEFINE g == After(w, f)
    <3>1. g \in f..Len(w) /\ e \in g..Len(w)
      BY <2>3
    <3> HIDE DEF g
    <3>2. g \in i + 1..e
      BY <1>1, <2>2, <3>1
    <3> QED BY <3>2 DEF g
  <2>17. Spans(w, i, e)
    BY <1>9, <2>4, <2>5, <2>8, <2>11, <2>12, <2>13, <2>15, <2>16 DEF Spans, x, p, f, e
  <2> QED BY <2>15, <2>17
<1> QED BY <1>3, <1>8, <1>9 DEF SelectExpr, x

\* The tokens of v are twins of those that are cut out, and then t goes on.
CutOut(t, v, w, g, a, e, d) ==
    Twins(v, w, g, a, e, d) /\ v[(e + g) + 1] = Read(t, w[e].curr + d)

\* What is cut out, up to a variable, a name or a number, has the tokens it had.
LEMMA CutTwins ==
  ASSUME NEW t \in Seq(Chars), NEW u \in Seq(Chars), NEW w, IsWalk(u, 0, w),
         NEW a \in 1..Len(w), NEW e \in a..Len(w) - 1,
         ~IsFinal(w[e]), w[e].type \in {"ID", "INT", "USER_VAR"},
         NEW d, Cut(t, u, d, w[a].at, w[e].curr),
         w[e].type = "USER_VAR" => w[e].curr + d < Len(t),
         NEW v, IsWalk(t, 0, v), NEW b \in 1..Len(v), v[b].at = w[a].at + d,
         NEW g, g = b - a
  PROVE  CutOut(t, v, w, g, a, e, d)
<1>1. /\ Len(w) \in Nat /\ Len(v) \in Nat /\ Ended(w) /\ Ended(v) /\ d \in Int
      /\ \A k \in 1..Len(w) : w[k] \in Reads
      /\ \A k \in 1..Len(v) : v[k] \in Reads
  <2>1. 0 \in 0..Len(u) /\ 0 \in 0..Len(t)
    OBVIOUS
  <2>2. Ended(w) /\ Ended(v)
    BY <2>1, WalkEnded
  <2>3. d \in Int
    BY DEF Cut
  <2>4. w \in Seq(Reads) /\ v \in Seq(Reads)
    BY <2>2 DEF Ended
  <2> QED BY ONLY <2>2, <2>3, <2>4
<1>2. e \in a..Len(w)
  BY <1>1
<1>3. /\ b + (e - a) + 1 \in 1..Len(v)
      /\ \A k \in 0..e - a : Alike(v[b + k], w[a + k], d)
      /\ v[b + (e - a) + 1] = Read(t, w[e].curr + d)
  <2>1. Lifted(t, u, d, w, v, a, b, e)
    BY <1>2 DEF Lifted
  <2>2. Carried(t, d, w, v, a, b, e)
    BY ONLY <2>1, CutWalk
  <2> QED BY <2>2 DEF Carried
<1>4. b + (e - a) + 1 = (e + g) + 1 /\ g \in Int /\ a + g = b
  BY <1>1
<1>5. e + g < Len(v) /\ a + g >= 1
  BY <1>1, <1>3, <1>4
<1>6. ASSUME NEW k \in a..e
      PROVE  Alike(v[k + g], w[k], d) /\ v[k + g] \in Reads /\ w[k] \in Reads
  <2> DEFINE j == k - a
  <2>1. j \in 0..e - a /\ b + j = k + g /\ a + j = k /\ k + g \in 1..Len(v) /\ k \in 1..Len(w)
    BY <1>1, <1>4, <1>5
  <2> HIDE DEF j
  <2>2. Alike(v[b + j], w[a + j], d)
    BY <1>3, <2>1
  <2> QED BY <1>1, <2>1, <2>2
<1>7. Twins(v, w, g, a, e, d)
  BY <1>1, <1>4, <1>5, <1>6 DEF Twins
<1> QED BY <1>3, <1>4, <1>7 DEF CutOut

\* What a variable is.
Means(x, y) == x.kind = y.kind /\ x.name = y.name /\ x.scope = y.scope

\* A variable among twins is the same.
LEMMA ExprTwins ==
  ASSUME NEW v, NEW w, NEW g, NEW i, NEW e, NEW d, Twins(v, w, g, i, e, d), Spans(w, i, e),
         NEW n, n = (e + g) + 1, IsSolid(v[n])
  PROVE  /\ SelectExpr(v, i + g).next = n
         /\ Means(SelectExpr(v, i + g).node, SelectExpr(w, i).node)
<1>1. /\ Ended(v) /\ Ended(w) /\ g \in Int /\ Len(v) \in Nat /\ Len(w) \in Nat /\ d \in Int
      /\ i \in 1..Len(w) /\ e \in i..Len(w) - 1 /\ i + g >= 1 /\ e + g < Len(v)
      /\ i \in i..e /\ e \in i..e
  BY DEF Twins, Ended
<1> DEFINE
  x == SelectExpr(w, i)
  y == SelectExpr(v, i + g)
  h == e + g
  b == i + g
<1>2. After(v, h) = n
  <2>1. h \in 0..Len(v) /\ n \in h + 1..Len(v) /\ h + 1..n - 1 = {}
    BY <1>1
  <2> HIDE DEF h
  <2> QED BY <1>1, <2>1, AfterThe
<1>3. /\ v[b].type = w[i].type /\ v[b].says = w[i].says /\ v[b].curr = w[i].curr + d
      /\ IsSign(v[b], "@") <=> IsSign(w[i], "@")
  <2>1. i \in i..e
    BY <1>1
  <2>2. /\ v[i + g].type = w[i].type /\ v[i + g].says = w[i].says
        /\ v[i + g].curr = w[i].curr + d
        /\ \A c : IsSign(v[i + g], c) <=> IsSign(w[i], c)
    BY ONLY Twins(v, w, g, i, e, d), <2>1, TwinToken
  <2>3. IsSign(v[i + g], "@") <=> IsSign(w[i], "@")
    BY ONLY <2>2
  <2> QED BY <2>2, <2>3
<1>4. CASE w[i].type = "USER_VAR" /\ e = i /\ x.node = UserVar(w[i])
  <2>1. y = [next |-> After(v, b), node |-> UserVar(v[b])]
    BY <1>3, <1>4 DEF SelectExpr, IsSign, y
  <2>2. y.next = After(v, b) /\ y.node = UserVar(v[b])
    BY <2>1
  <2>3. Means(UserVar(v[b]), UserVar(w[i]))
    BY <1>3 DEF UserVar, Means
  <2>4. b = h
    BY <1>4
  <2> QED BY <1>2, <1>4, <2>2, <2>3, <2>4
<1>5. CASE /\ IsSign(w[i], "@") /\ w[e].type = "ID" /\ e = SysVarName(w, After(w, i))
           /\ ~SysVarRefused(w, i, After(w, i), e) /\ w[After(w, e)].prefix # "."
           /\ After(w, i) \in i + 1..e
           /\ IsScope(w[After(w, i)]) => After(w, After(w, i)) \in i + 1..e
           /\ x.node.kind = "sys" /\ x.node.name = w[e].says
           /\ x.node.scope = IF IsWord(w[After(w, i)], "GLOBAL") THEN "GLOBAL" ELSE "SESSION"
  <2> DEFINE
    f == After(w, i)
    q == After(v, b)
    m == SysVarName(v, q)
  <2>1. f \in i + 1..e
    BY <1>5
  <2>2. q = f + g
    <3>1. After(w, i) <= e
      BY <1>1, <2>1
    <3> QED BY <1>1, <3>1, AfterTwins
  <2>3. /\ w[e].type = "ID" /\ e = SysVarName(w, f) /\ ~SysVarRefused(w, i, f, e)
        /\ w[After(w, e)].prefix # "."
        /\ IsScope(w[f]) => After(w, f) \in i + 1..e
        /\ x.node.kind = "sys" /\ x.node.name = w[e].says
        /\ x.node.scope = IF IsWord(w[f], "GLOBAL") THEN "GLOBAL" ELSE "SESSION"
    BY <1>5
  <2> HIDE DEF f, q, x
  <2>4. f \in i..e
    BY <1>1, <2>1
  <2>5. /\ v[q].type = w[f].type /\ v[q].at = w[f].at + d
        /\ \A c : IsWord(v[q], c) <=> IsWord(w[f], c)
    BY <2>2, <2>4, TwinToken
  <2>6. IsScope(v[q]) <=> IsScope(w[f])
    BY <2>5 DEF IsScope
  <2>7. IsScope(w[f]) => /\ After(v, q) = After(w, f) + g
                         /\ IsSign(v[After(v, q)], ".") <=> IsSign(w[After(w, f)], ".")
                         /\ After(v, After(v, q)) = h
    <3> SUFFICES ASSUME IsScope(w[f])
                 PROVE  /\ After(v, q) = After(w, f) + g
                        /\ IsSign(v[After(v, q)], ".") <=> IsSign(w[After(w, f)], ".")
                        /\ After(v, After(v, q)) = h
      OBVIOUS
    <3> DEFINE r == After(w, f)
    <3>1. r \in i + 1..e /\ e = After(w, r)
      BY <2>3 DEF SysVarName
    <3>2. After(v, f + g) = r + g
      <4>1. After(w, f) <= e
        BY <1>1, <3>1
      <4> QED BY <2>4, <4>1, AfterTwins
    <3> HIDE DEF r
    <3>3. r \in i..e
      BY <1>1, <3>1
    <3>4. IsSign(v[r + g], ".") <=> IsSign(w[r], ".")
      BY <3>3, TwinToken
    <3>5. After(v, r + g) = e + g
      <4>1. After(w, r) <= e
        BY <1>1, <3>1
      <4> QED BY <3>1, <3>3, <4>1, AfterTwins
    <3> QED BY <2>2, <3>2, <3>4, <3>5 DEF r
  <2>8. m = h
    <3>1. CASE IsScope(w[f])
      BY <2>6, <2>7, <3>1 DEF SysVarName
    <3>2. CASE ~IsScope(w[f])
      BY <2>2, <2>3, <2>6, <3>2 DEF SysVarName
    <3> QED BY <3>1, <3>2
  <2>9. v[h].type = "ID" /\ v[h].says = w[e].says
    <3>1. e \in i..e
      BY <1>1
    <3>2. v[h].type = w[e].type /\ v[h].says = w[e].says
      BY ONLY Twins(v, w, g, i, e, d), <3>1, TwinToken
    <3> QED BY <2>3, <3>2
  <2>10. /\ w[f].type = "ID" /\ w[f].at = w[i].curr /\ ~ReservedName(w, e)
         /\ IsScope(w[f]) => IsSign(w[After(w, f)], ".")
    BY <2>3 DEF SysVarRefused
  <2>11. ~ReservedName(v, h)
    BY <2>9, <2>3, <2>10 DEF ReservedName
  <2> HIDE DEF h
  <2>12. ~SysVarRefused(v, b, q, h)
    <3>1. v[q].type = "ID" /\ v[q].at = v[b].curr
      BY <1>3, <2>5, <2>10
    <3>2. IsScope(v[q]) => IsSign(v[After(v, q)], ".")
      BY <2>6, <2>7, <2>10
    <3> QED BY <2>9, <2>11, <3>1, <3>2 DEF SysVarRefused
  <2>13. y = [next |-> After(v, h),
              node |-> [kind |-> "sys", name |-> v[h].says,
                        scope |-> IF IsWord(v[q], "GLOBAL") THEN "GLOBAL" ELSE "SESSION",
                        start |-> SysVarStart(v[q]), end |-> NameEnd(v[h])]]
    <3>1. IsSign(v[b], "@")
      BY <1>3, <1>5
    <3>2. v[b].type # "USER_VAR"
      BY <3>1 DEF IsSign
    <3>3. y = SysVar(v, b)
      BY <3>1, <3>2 DEF SelectExpr
    <3> QED BY <2>8, <2>12, <3>3 DEF SysVar, q
  <2>14. /\ y.next = After(v, h) /\ y.node.kind = "sys" /\ y.node.name = v[h].says
         /\ y.node.scope = IF IsWord(v[q], "GLOBAL") THEN "GLOBAL" ELSE "SESSION"
    BY <2>13
  <2> HIDE DEF y
  <2>15. Means(y.node, x.node)
    BY <2>3, <2>5, <2>9, <2>14 DEF Means
  <2> QED BY <1>2, <2>14, <2>15 DEF x, y
<1> QED BY <1>4, <1>5 DEF Spans

\* A word before a blank is one token.
LEMMA SelectRead ==
  ASSUME NEW t \in Seq(Chars), Len(t) > 1, At(t, 0) = "SELECT", At(t, 1) = "sp"
  PROVE  /\ Read(t, 0).type = "ID" /\ Read(t, 0).prefix = "SELECT" /\ ~Read(t, 0).quoted
         /\ Read(t, 0).at = 0 /\ Read(t, 0).start = 0 /\ Read(t, 0).curr = 1
         /\ Read(t, 0).says = <<"SELECT">>
<1> DEFINE
  n == [kind |-> "go", isn |-> FALSE, end |-> 0, di |-> -1, ei |-> -1, si |-> -1]
  s == Scan(t, 0, 0, n)
  l == Lex(t, 0)
<1>1. Len(t) \in Nat /\ 0 \in 0..Len(t) /\ 0 \in Nat /\ 0 \in 0..Len(t) - 1
  OBVIOUS
<1>2. /\ n \in Notes /\ n.kind = "go" /\ ~n.isn /\ n.end = 0 /\ n.di = -1 /\ n.ei = -1
      /\ n.si = -1 /\ Going(0, 0, n)
  BY DEF Notes, Outcomes, Going
<1> DEFINE z == 0
<1>3. z = 0
  OBVIOUS
<1> HIDE DEF n, z
<1>4. \E e \in z..Len(t) : Stops(t, z, z, n, e)
  BY <1>1, <1>2, <1>3, ScanStops
<1>5. PICK e \in 0..Len(t) : Stops(t, 0, 0, n, e)
  BY <1>3, <1>4
<1>6. /\ Scans(t, 0, 0, n)[0] = n
      /\ \A i \in 0..e - 1 :
           /\ Scans(t, 0, 0, n)[i + 1] = ScanStep(t, 0, i, Scans(t, 0, 0, n)[i])
           /\ ScanStep(t, 0, i, Scans(t, 0, 0, n)[i]).kind = "go"
  <2>1. /\ Scans(t, z, z, n)[z] = n
        /\ \A i \in z..e - 1 :
             /\ Scans(t, z, z, n)[i + 1] = ScanStep(t, z, i, Scans(t, z, z, n)[i])
             /\ ScanStep(t, z, i, Scans(t, z, z, n)[i]).kind = "go"
    BY <1>1, StopsGo, <1>2, <1>3, <1>5
  <2> QED BY <1>3, <2>1
<1>7. s = ScanStep(t, 0, e, Scans(t, 0, 0, n)[e]) /\ s.kind # "go"
  BY <1>5 DEF Stops
<1> HIDE DEF s
<1>8. ScanStep(t, 0, 0, n) = n
  <2>1. CharAt(t, 0) = "SELECT"
    BY DEF CharAt
  <2>2. ScanStep(t, 0, 0, n) = ScanLetter(0, 0, n, n.isn /\ "SELECT" = "e" /\ n.ei = -1)
    BY <1>2, <2>1, ScanStepIs DEF Digits, Letters, Keywords
  <2>3. ScanStep(t, 0, 0, n) = ScanLetter(0, 0, n, FALSE)
    BY <1>2, <2>2
  <2>4. ScanLetter(0, 0, n, FALSE) =
            [kind |-> "go", isn |-> FALSE, end |-> 0, di |-> -1, ei |-> -1, si |-> -1]
    BY DEF ScanLetter, n
  <2> QED BY <2>3, <2>4 DEF n
<1>9. ScanStep(t, 0, 1, n) = Stop(n, 1)
  BY ScanStepIs, <1>1 DEF CharAt, Digits, Letters, Keywords
<1>10. e # 0
  BY <1>2, <1>6, <1>7, <1>8
<1>11. Scans(t, 0, 0, n)[1] = n
  BY <1>6, <1>8, <1>5, <1>10
<1>12. e = 1
  <2>1. CASE e # 1
    <3>1. 1 \in 0..e - 1
      BY <1>5, <1>10, <2>1
    <3>2. Stop(n, 1).kind = "go"
      BY <1>6, <1>9, <1>11, <3>1
    <3> QED BY <1>2, <3>2 DEF Stop, Notes
  <2> QED BY <2>1
<1>13. s = Stop(n, 1)
  BY <1>7, <1>9, <1>11, <1>12
<1>14. s.kind = "stop" /\ s.end = 1 /\ ~s.isn
  BY <1>13 DEF Stop, n
<1>15. l = Token("ID", "SELECT", 0, 1, 1)
  <2>1. l = NexToken(t, 0)
    BY DEF Lex
  <2>2. NexToken(t, 0) = ParseToken(t, 0)
    BY DEF NexToken, Blanks, Signs
  <2>3. ParseToken(t, 0) = Scanned(t, 0, s)
    BY DEF ParseToken, n, s
  <2>4. ~ScanFails(s) /\ ScannedType(s) = "ID"
    BY <1>14 DEF ScanFails, ScannedType
  <2>5. Scanned(t, 0, s) = Token("ID", "SELECT", 0, 1, 1)
    BY <1>14, <2>4 DEF Scanned
  <2> QED BY <2>1, <2>2, <2>3, <2>5
<1>16. /\ Read(t, 0).type = l.type /\ Read(t, 0).prefix = l.prefix /\ Read(t, 0).quoted = l.quoted
       /\ Read(t, 0).at = 0 /\ Read(t, 0).start = l.start /\ Read(t, 0).curr = l.curr
       /\ Read(t, 0).says = Slice(t, l.start, l.end)
  BY ReadFields
<1> HIDE DEF l
<1>17. l.type = "ID" /\ l.prefix = "SELECT" /\ ~l.quoted /\ l.start = 0 /\ l.end = 1 /\ l.curr = 1
  BY <1>15 DEF Token
<1>18. Slice(t, 0, 1) = <<"SELECT">>
  BY <1>3, <1>1, SliceOne
<1> QED BY <1>16, <1>17, <1>18

\* A blank before something else is one token.
LEMMA BlankRead ==
  ASSUME NEW t \in Seq(Chars), NEW p \in 0..Len(t) - 2, At(t, p) = "sp", At(t, p + 1) \notin Blanks
  PROVE  Read(t, p).type = "BLANK" /\ Read(t, p).curr = p + 1
<1> DEFINE
  l == Lex(t, p)
  h == p + 1
  S == Chars \ Blanks
<1>1. Len(t) \in Nat /\ p \in 0..Len(t) /\ h \in p..Len(t) /\ h \in 0..Len(t) - 1 /\ p # Len(t)
      /\ p..h - 1 = {p}
  OBVIOUS
<1>2. l = BlankToken(t, p)
  <2>1. l = NexToken(t, p)
    BY <1>1 DEF Lex
  <2>2. NexToken(t, p) = BlankToken(t, p)
    <3> DEFINE
      x == At(t, p)
      next == IF p + 1 < Len(t) THEN At(t, p + 1) ELSE "end"
      One(type) == Token(type, x, p, p + 1, p + 1)
    <3>1. NexToken(t, p) =
              CASE x \in {"-", "/"} /\ next = "end" -> Fault
                [] x = "-" /\ next = "-" -> LineComment(t, p + 2, "--")
                [] x = "/" /\ next = "/" -> LineComment(t, p + 2, "//")
                [] x = "/" /\ next = "*" -> MultiComment(t, p + 2)
                [] x = "-" /\ next \notin {"-", "end"} -> One("OP_ARI")
                [] x = "/" /\ next \notin {"/", "*", "end"} -> One("OP_ARI")
                [] x \in {"+", "*"} -> One("OP_ARI")
                [] x = "#" -> LineComment(t, p + 1, "#")
                [] x \in Blanks -> BlankToken(t, p)
                [] x = "bq" -> Quoted(t, p, "ID")
                [] x \in {"sq", "dq"} -> Quoted(t, p, "STRING")
                [] x \in Signs -> One("SIGN")
                [] OTHER -> ParseToken(t, p)
      BY DEF NexToken
    <3>2. x = "sp"
      OBVIOUS
    <3> HIDE DEF x, next, One
    <3> QED BY <3>1, <3>2 DEF Blanks, Signs
  <2> QED BY <2>1, <2>2
<1>3. Find(t, p, S) = h
  <2>1. At(t, p) \notin S
    BY DEF Blanks
  <2>2. At(t, h) \in S
    BY <1>1, Chars1
  <2> HIDE DEF S, h
  <2>3. \A k \in p..h - 1 : At(t, k) \notin S
    BY <1>1, <2>1
  <2> QED BY <1>1, <2>2, <2>3, FindThe
<1>4. l = Token("BLANK", At(t, p), p, h, h)
  BY <1>2, <1>3 DEF BlankToken
<1>5. Read(t, p).type = l.type /\ Read(t, p).curr = l.curr
  BY ReadFields
<1> HIDE DEF l
<1> QED BY <1>4, <1>5 DEF Token

\* The variable from s to c, with a statement around it.
Again(u, s, c) == <<"SELECT", "sp">> \o Slice(u, s, c) \o <<"semi">>

\* The variable is cut out, and stands in t between its word and its semicolon.
CutAgain(t, u, d, s, c) ==
    /\ Cut(t, u, d, s, c) /\ Len(t) = (c + d) + 1 /\ At(t, c + d) = "semi"
    /\ At(t, 0) = "SELECT" /\ At(t, 1) = "sp"

\* A statement is put around a variable.
LEMMA AgainIs ==
  ASSUME NEW u \in Seq(Chars), NEW s \in 0..Len(u), NEW c \in s + 1..Len(u),
         NEW t, t = Again(u, s, c), NEW d, d = 2 - s
  PROVE  CutAgain(t, u, d, s, c)
<1> DEFINE
  a == <<"SELECT", "sp">>
  b == Slice(u, s, c)
  e == <<"semi">>
  f == a \o b
<1>1. a \in Seq(Chars) /\ Len(a) = 2 /\ a[1] = "SELECT" /\ a[2] = "sp"
  BY DEF Chars, Letters, Keywords, Blanks
<1>2. b \in Seq(Chars) /\ Len(b) = c - s /\ \A k \in 0..c - s - 1 : At(b, k) = At(u, s + k)
  BY SliceIs
<1>3. e \in Seq(Chars) /\ Len(e) = 1 /\ e[1] = "semi"
  BY DEF Chars, Signs
<1> HIDE DEF a, b, e
<1>4. /\ f \in Seq(Chars) /\ Len(f) = Len(a) + Len(b)
      /\ \A i \in 1..Len(a) + Len(b) : f[i] = IF i <= Len(a) THEN a[i] ELSE b[i - Len(a)]
  BY <1>1, <1>2, ConcatProperties
<1>5. t = f \o e
  BY DEF Again, a, b, e, f
<1> HIDE DEF f
<1>f. f \in Seq(Chars)
  BY <1>4
<1>6. /\ t \in Seq(Chars) /\ Len(t) = Len(f) + Len(e)
      /\ \A i \in 1..Len(f) + Len(e) : t[i] = IF i <= Len(f) THEN f[i] ELSE e[i - Len(f)]
  <2>1. /\ f \o e \in Seq(Chars) /\ Len(f \o e) = Len(f) + Len(e)
        /\ \A i \in 1..Len(f) + Len(e) :
             (f \o e)[i] = IF i <= Len(f) THEN f[i] ELSE e[i - Len(f)]
    BY ONLY <1>f, <1>3, ConcatProperties
  <2> QED BY ONLY <1>5, <2>1
<1>7. s \in Nat /\ c \in Nat /\ s < c /\ d \in Int /\ s + d = 2 /\ Len(f) = c + d /\ Len(u) \in Nat
  BY <1>1, <1>2, <1>4
<1>8. Len(t) = (c + d) + 1 /\ c + d <= Len(t) /\ c + d > 2
  BY <1>3, <1>6, <1>7
<1>9. t[1] = "SELECT" /\ t[2] = "sp"
  <2>1. 1 \in 1..Len(a) + Len(b) /\ 2 \in 1..Len(a) + Len(b) /\ 1 <= Len(a) /\ 2 <= Len(a)
    BY <1>1, <1>2, <1>7
  <2>2. f[1] = "SELECT" /\ f[2] = "sp"
    BY <1>1, <1>4, <2>1
  <2>3. 1 \in 1..Len(f) + Len(e) /\ 2 \in 1..Len(f) + Len(e) /\ 1 <= Len(f) /\ 2 <= Len(f)
    BY <1>3, <1>7, <1>8
  <2> QED BY <1>6, <2>2, <2>3
<1>10. At(t, c + d) = "semi"
  <2> DEFINE n == (c + d) + 1
  <2>1. n \in 1..Len(f) + Len(e) /\ ~(n <= Len(f)) /\ n - Len(f) = 1
    BY <1>3, <1>7, <1>8
  <2> HIDE DEF n
  <2>2. t[n] = e[1]
    BY <1>6, <2>1
  <2> QED BY <1>3, <2>2 DEF At, n
<1>11. ASSUME NEW i \in s..c - 1
       PROVE  At(t, i + d) = At(u, i)
  <2> DEFINE
    k == i - s
    n == (i + d) + 1
  <2>1. k \in 0..c - s - 1 /\ s + k = i /\ n \in 1..Len(f) + Len(e) /\ n <= Len(f)
        /\ n \in 1..Len(a) + Len(b) /\ ~(n <= Len(a)) /\ n - Len(a) = k + 1
    BY <1>1, <1>2, <1>3, <1>4, <1>7
  <2> HIDE DEF k, n
  <2>2. At(b, k) = At(u, i)
    BY <1>2, <2>1
  <2>3. t[n] = b[k + 1]
    BY <1>4, <1>6, <2>1
  <2> QED BY <2>2, <2>3 DEF At, n
<1>12. Cut(t, u, d, s, c)
  BY <1>6, <1>7, <1>8, <1>10, <1>11 DEF Cut
<1>13. At(t, 0) = "SELECT" /\ At(t, 1) = "sp"
  BY <1>9 DEF At
<1> QED BY <1>8, <1>10, <1>12, <1>13 DEF CutAgain

\* A variable begins with an at sign.
LEMMA VarAt ==
  ASSUME NEW t \in Seq(Chars), NEW p \in 0..Len(t), NEW l, ReadAt(t, p, l),
         l.type = "USER_VAR" \/ IsSign(l, "@")
  PROVE  At(t, p) = "@" /\ p < Len(t) /\ IsSolid(l)
<1>1. l.type = "USER_VAR" \/ (l.type = "SIGN" /\ l.prefix = "@")
  BY DEF IsSign
<1>2. ~CommentAt(t, p, l)
  BY <1>1 DEF CommentAt
<1>3. p < Len(t) /\ (QuotedAt(t, p, l) \/ PlainAt(t, p, l))
  BY <1>1, <1>2 DEF ReadAt
<1>4. CASE QuotedAt(t, p, l)
  BY <1>1, <1>3, <1>4 DEF QuotedAt, IsSolid
<1>5. CASE PlainAt(t, p, l)
  BY <1>1, <1>3, <1>5 DEF PlainAt, IsSolid
<1> QED BY <1>3, <1>4, <1>5

\* t is a statement, which has one variable, x.
ReadsAs(t, x) ==
    /\ Parse(t).ok /\ Len(Parse(t).stmts) = 1 /\ Len(Parse(t).stmts[1].exprs) = 1
    /\ \E y \in Range(Parse(t).stmts[1].exprs) :
          <<y.kind, y.name, y.scope>> = <<x.kind, x.name, x.scope>>

\* A statement of one variable, by its tokens.
LEMMA OneExpr ==
  ASSUME NEW t \in Seq(Chars), NEW v, v = Walk(t), NEW n, n \in 4..Len(v) - 1,
         IsWord(v[1], "SELECT"), v[1].prefix = "SELECT", v[2].type = "BLANK", IsSolid(v[3]),
         SelectExpr(v, 3).next = n, IsSign(v[n], "semi"), v[n + 1].type = "EOS",
         NEW x, Means(SelectExpr(v, 3).node, x)
  PROVE  ReadsAs(t, x)
<1>1. Ended(v) /\ Len(v) \in Nat /\ Parse(t) = Statements(v, Len(t))[After(v, 0)]
  BY ParseIs DEF Ended
<1>2. 1 \in 1..Len(v) /\ 3 \in 1..Len(v) /\ 0 \in 0..Len(v) /\ n \in 0..Len(v) /\ n \in Int
      /\ n # 0 /\ n + 1 \in n + 1..Len(v) /\ n + 1 \in 1..Len(v)
  BY <1>1
<1> DEFINE
  y == SelectExpr(v, 3)
  list == SelectExprs(v, 3)
  s == Select(v, 1)
  z == 0
  o == 1
  h == n + 1
  limit == [next |-> n, node |-> {}]
<1>3. z = 0 /\ o = 1 /\ h = n + 1
  OBVIOUS
<1> HIDE DEF y, z, o, h
<1>4. v[1].type = "ID" /\ ~v[1].quoted
  BY DEF IsWord
<1>5. IsSolid(v[1]) /\ ~IsSolid(v[2]) /\ IsSolid(v[h])
  BY <1>3, <1>4 DEF IsSolid
<1>6. After(v, 0) = 1
  <2>1. z \in 0..Len(v) /\ o \in z + 1..Len(v) /\ z + 1..o - 1 = {} /\ IsSolid(v[o])
    BY <1>1, <1>2, <1>3, <1>5
  <2>2. After(v, z) = o
    BY <1>1, <2>1, AfterThe
  <2> QED BY <1>3, <2>2
<1>7. After(v, 1) = 3
  <2> DEFINE j == 3
  <2>1. j = 3
    OBVIOUS
  <2> HIDE DEF j
  <2>2. o \in 0..Len(v) /\ j \in o + 1..Len(v) /\ o + 1..j - 1 = {2} /\ IsSolid(v[j])
    BY <1>1, <1>2, <1>3, <2>1
  <2>3. \A k \in o + 1..j - 1 : ~IsSolid(v[k])
    BY <1>5, <2>2
  <2>4. After(v, o) = j
    BY <1>1, <2>2, <2>3, AfterThe
  <2> QED BY <1>3, <2>1, <2>4
<1>8. After(v, n) = h
  BY <1>1, <1>2, <1>5, AfterThe, <1>3
<1>9. list = [next |-> n, node |-> <<y.node>>]
  <2>1. list = SelectList(v, y, SelectExprs(v, After(v, y.next)))
    BY <1>1, <1>2, SelectListsDefined DEF y
  <2>2. y.next = n
    BY DEF y
  <2>3. ~IsSign(v[n], "comma")
    BY DEF IsSign
  <2> HIDE DEF list
  <2> QED BY <1>2, <2>1, <2>2, <2>3 DEF SelectList
<1>10. list.next = n /\ list.node = <<y.node>>
  BY <1>9
<1>11. s = SelectWith(v, 1, list)
  BY <1>7 DEF Select
<1> HIDE DEF list, s
<1>12. ~IsWord(v[n], "LIMIT")
  BY DEF IsSign, IsWord
<1>13. s = SelectEnd(v, 1, list, limit)
  BY <1>2, <1>10, <1>11, <1>12 DEF SelectWith
<1>14. s = [next |-> h, node |-> [start |-> v[1].start, end |-> v[n].end, exprs |-> <<y.node>>,
                                  limit |-> {}, comments |-> Comments(v, 1)]]
  <2>1. limit.next = n /\ limit.node = {}
    OBVIOUS
  <2> HIDE DEF limit
  <2> QED BY <1>2, <1>8, <1>10, <1>13, <2>1 DEF SelectEnd, Behind
<1>15. s.next = h /\ s.node.exprs = <<y.node>>
  BY <1>14
<1> DEFINE
  m == Len(t)
  rest == Statements(v, m)[h]
<1>16. rest = [ok |-> TRUE, stmts |-> <<>>]
  <2>1. AtEnd(v[h], m)
    BY <1>3 DEF AtEnd
  <2>2. h \in 1..Len(v)
    BY <1>2, <1>3
  <2> HIDE DEF m
  <2> QED BY <1>1, <2>1, <2>2, StatementsDefined
<1>17. Statements(v, m)[1] = Statement(s, rest)
  <2>1. ~AtEnd(v[1], m)
    BY <1>4 DEF AtEnd
  <2> HIDE DEF m
  <2>2. Statements(v, m)[1] = Statement(Select(v, 1), Statements(v, m)[Select(v, 1).next])
    BY <1>1, <1>2, <2>1, StatementsDefined
  <2> QED BY <1>15, <2>2 DEF s, rest
<1> HIDE DEF rest
<1>18. Statement(s, rest) = [ok |-> TRUE, stmts |-> <<s.node>> \o <<>>]
  BY <1>1, <1>2, <1>3, <1>15, <1>16 DEF Statement
<1>19. <<s.node>> \o <<>> = <<s.node>>
  OBVIOUS
<1>20. Parse(t) = [ok |-> TRUE, stmts |-> <<s.node>>]
  BY <1>1, <1>6, <1>17, <1>18, <1>19
<1>21. Parse(t).ok /\ Parse(t).stmts = <<s.node>>
  BY <1>20
<1>22. Len(<<s.node>>) = 1 /\ <<s.node>>[1] = s.node
  OBVIOUS
<1>23. Len(<<y.node>>) = 1 /\ <<y.node>>[1] = y.node
  OBVIOUS
<1> DEFINE parse == Parse(t)
<1>24. parse.ok /\ parse.stmts = <<s.node>>
  BY <1>21
<1> HIDE DEF parse
<1>25. Len(parse.stmts) = 1 /\ parse.stmts[1] = s.node
  BY <1>22, <1>24
<1>26. Len(parse.stmts[1].exprs) = 1 /\ y.node \in Range(parse.stmts[1].exprs)
  <2>1. parse.stmts[1].exprs = <<y.node>>
    BY <1>15, <1>25
  <2>2. 1 \in DOMAIN <<y.node>>
    OBVIOUS
  <2> QED BY <1>23, <2>1, <2>2 DEF Range
<1>27. <<y.node.kind, y.node.name, y.node.scope>> = <<x.kind, x.name, x.scope>>
  BY DEF y, Means
<1> QED BY <1>24, <1>25, <1>26, <1>27 DEF ReadsAs, parse

\* A variable that is cut out by its range reads as the same variable.
LEMMA VarAgain ==
  ASSUME NEW u \in Seq(Chars), NEW w, IsWalk(u, 0, w), NEW i \in 1..Len(w),
         SelectExpr(w, i).next # 0, Follows(w[SelectExpr(w, i).next]),
         NEW x, x = SelectExpr(w, i).node
  PROVE  ReadsAs(Again(u, x.start, x.end), x)
<1>z. 0 \in 0..Len(u) /\ Len(u) \in Nat
  OBVIOUS
<1>1. Ended(w) /\ Len(w) \in Nat
  BY <1>z, WalkEnded DEF Ended
<1>2. /\ \A k \in 1..Len(w) :
           w[k].at \in 0..Len(u) /\ w[k] = Read(u, w[k].at) /\ ReadAt(u, w[k].at, w[k])
      /\ \A k \in 1..Len(w) - 1 :
           w[k + 1].at = w[k].curr /\ w[k].curr \in w[k].at + 1..Len(u) /\ ~IsFinal(w[k])
  BY <1>z, WalkPlaces
<1>3. PICK e \in i..Len(w) - 1 : Spans(w, i, e)
  BY ExprSpans
<1> DEFINE
  s == w[i].at
  c == w[e].curr
  d == 2 - s
  t == Again(u, s, c)
  v == Walk(t)
  g == 3 - i
  n == (e + g) + 1
  y == SelectExpr(v, 3)
<1>4. /\ w[e].type \in {"USER_VAR", "ID"} /\ ~IsFinal(w[e]) /\ x.start = s /\ x.end = c
      /\ w[i].type = "USER_VAR" \/ IsSign(w[i], "@")
  BY <1>3 DEF Spans
<1>5. i \in 1..Len(w) /\ e \in 1..Len(w) - 1 /\ e \in 1..Len(w) /\ e \in i..Len(w) /\ i \in Int /\ e \in Int
  BY <1>1, <1>3
<1>6. s \in 0..Len(u) /\ c \in s + 1..Len(u) /\ s \in Int /\ c \in Int
  <2>1. w[i].at <= w[e].at
    BY <1>z, <1>5, WalkForward
  <2>2. w[i].at \in 0..Len(u) /\ w[e].at \in 0..Len(u) /\ w[e].curr \in w[e].at + 1..Len(u)
    BY <1>2, <1>5
  <2> QED BY <1>z, <2>1, <2>2
<1>7. At(u, s) = "@" /\ IsSolid(w[i])
  BY <1>2, <1>4, <1>5, VarAt
<1> HIDE DEF s, c
<1>8. d = 2 - s /\ d \in Int /\ s + d = 2 /\ s \in s..c - 1
  BY <1>6
<1> HIDE DEF d, t
<1>9. /\ Cut(t, u, d, s, c) /\ Len(t) = (c + d) + 1 /\ At(t, c + d) = "semi"
      /\ At(t, 0) = "SELECT" /\ At(t, 1) = "sp"
  <2>1. t = Again(u, s, c)
    BY DEF t
  <2>2. CutAgain(t, u, d, s, c)
    BY <1>6, <1>8, <2>1, AgainIs
  <2> QED BY <2>2 DEF CutAgain
<1>10. t \in Seq(Chars) /\ Len(t) \in Nat /\ Len(t) > 3 /\ At(t, 2) = "@"
  <2>1. t \in Seq(Chars) /\ Len(t) \in Nat
    BY <1>9, CutAgrees
  <2>2. At(t, s + d) = At(u, s)
    BY <1>8, <1>9 DEF Cut
  <2> QED BY <1>6, <1>7, <1>8, <1>9, <2>1, <2>2
<1>11. IsWalk(t, 0, v)
  BY <1>10, ParseIs
<1> HIDE DEF v
<1>12. /\ Len(v) \in Nat /\ Len(v) > 0 /\ v[1] = Read(t, 0)
       /\ \A k \in 1..Len(v) - 1 : ~IsFinal(v[k]) /\ v[k + 1] = Read(t, v[k].curr)
       /\ IsFinal(v[Len(v)])
  BY <1>11 DEF IsWalk
<1>13. /\ v[1].type = "ID" /\ v[1].prefix = "SELECT" /\ ~v[1].quoted /\ v[1].at = 0
       /\ v[1].curr = 1 /\ v[1].says = <<"SELECT">>
  BY <1>9, <1>10, <1>12, SelectRead
<1>14. 1 \in 1..Len(v) - 1
  BY <1>12, <1>13 DEF IsFinal
<1>15. v[2] = Read(t, 1) /\ v[2].type = "BLANK" /\ v[2].curr = 2 /\ v[2].at = 1
  <2> DEFINE o == 1
  <2>1. o \in 0..Len(t) - 2 /\ o = 1 /\ o + 1 = 2
    BY <1>10
  <2> HIDE DEF o
  <2>2. At(t, o) = "sp" /\ At(t, o + 1) \notin Blanks
    BY <1>9, <1>10, <2>1 DEF Blanks
  <2>3. Read(t, o).type = "BLANK" /\ Read(t, o).curr = o + 1
    BY <1>10, <2>1, <2>2, BlankRead
  <2>4. v[1 + 1] = Read(t, v[1].curr)
    BY <1>12, <1>14
  <2>5. Read(t, o).at = o
    BY ReadFields
  <2> QED BY <1>13, <2>1, <2>3, <2>4, <2>5
<1>16. 2 \in 1..Len(v) - 1
  <2>1. ~IsFinal(v[2])
    BY <1>15 DEF IsFinal
  <2>2. 2 # Len(v)
    BY <1>12, <2>1
  <2>3. Len(v) \in Nat
    BY <1>12
  <2> DEFINE l == Len(v)
  <2>4. 1 \in 1..l - 1 /\ l # 2 /\ l \in Nat
    BY <1>14, <2>2, <2>3
  <2> HIDE DEF l
  <2>5. 2 \in 1..l - 1
    BY <2>4
  <2> QED BY <2>5 DEF l
<1>17. v[3] = Read(t, 2) /\ v[3].at = 2 /\ 3 \in 1..Len(v)
  <2>1. v[2 + 1] = Read(t, v[2].curr)
    BY <1>12, <1>16
  <2>2. Read(t, 2).at = 2
    BY ReadFields
  <2> QED BY <1>12, <1>15, <1>16, <2>1, <2>2
<1>18. Twins(v, w, g, i, e, d) /\ v[n] = Read(t, c + d)
  <2> DEFINE b == 3
  <2>1. b = 3
    OBVIOUS
  <2> HIDE DEF b
  <2>2. b \in 1..Len(v) /\ v[b].at = w[i].at + d /\ g = b - i
    BY <1>6, <1>8, <1>17, <2>1 DEF s
  <2>3. Cut(t, u, d, w[i].at, w[e].curr)
    BY <1>9 DEF s, c
  <2>4. w[e].curr + d < Len(t)
    BY <1>6, <1>8, <1>9 DEF c
  <2>5. w[e].type \in {"ID", "INT", "USER_VAR"}
    BY <1>4
  <2> HIDE DEF g
  <2>6. CutOut(t, v, w, g, i, e, d)
    BY <1>4, <1>5, <1>10, <1>11, <2>2, <2>3, <2>4, <2>5, CutTwins
  <2> QED BY <2>6 DEF CutOut, c
<1>19. i + g = 3 /\ g \in Int /\ e + g < Len(v) /\ e + g >= 3 /\ n = (e + g) + 1
  BY <1>3, <1>5, <1>18 DEF Twins
<1>20. IsSign(v[n], "semi") /\ v[n].curr = Len(t) /\ v[n].at = c + d
  <2> DEFINE p == c + d
  <2>1. p \in 0..Len(t) - 1 /\ At(t, p) = "semi" /\ p + 1 = Len(t)
    BY <1>6, <1>8, <1>9, <1>10
  <2> HIDE DEF p
  <2>2. Read(t, p).type = "SIGN" /\ Read(t, p).prefix = "semi" /\ Read(t, p).curr = p + 1 /\ Read(t, p).at = p
    BY <1>10, <2>1, SemiRead
  <2> QED BY <1>18, <2>1, <2>2 DEF IsSign, p
<1> HIDE DEF n
<1>21. n \in 4..Len(v)
  BY <1>12, <1>19, SMTT(30)
<1>22. n \in 4..Len(v) - 1 /\ v[n + 1].type = "EOS"
  <2>1. ~IsFinal(v[n])
    BY <1>20, <1>6, <1>8, <1>9 DEF IsFinal, IsSign
  <2>2. n \in 4..Len(v) - 1 /\ n \in 1..Len(v) - 1
    BY <1>12, <1>21, <2>1
  <2>3. v[n + 1] = Read(t, v[n].curr)
    BY <1>12, <2>2
  <2> QED BY <1>20, <2>2, <2>3, ReadEnd
<1>23. SelectExpr(v, i + g).next = n /\ Means(SelectExpr(v, i + g).node, SelectExpr(w, i).node)
  <2>1. IsSolid(v[n])
    BY <1>20 DEF IsSolid, IsSign
  <2> HIDE DEF g
  <2> QED BY <1>3, <1>18, <1>19, <2>1, ExprTwins
<1>24. y.next = n /\ Means(y.node, x)
  BY <1>19, <1>23
<1>25. IsSolid(v[3])
  <2>1. 3 = i + g /\ i \in i..e
    BY <1>3, <1>5, <1>19
  <2> HIDE DEF g
  <2>2. IsSolid(v[i + g]) <=> IsSolid(w[i])
    BY <1>18, <2>1, TwinToken
  <2> QED BY <1>7, <2>1, <2>2
<1>26. IsWord(v[1], "SELECT")
  BY <1>13 DEF IsWord
<1>27. ReadsAs(t, x)
  <2> HIDE DEF y
  <2>1. v = Walk(t)
    BY DEF v
  <2>2. SelectExpr(v, 3).next = n /\ Means(SelectExpr(v, 3).node, x)
    BY <1>24 DEF y
  <2> QED BY <1>10, <1>13, <1>15, <1>20, <1>22, <1>25, <1>26, <2>1, <2>2, OneExpr
<1> QED BY <1>4, <1>27 DEF t

\* The variables of w behind which a list ends or goes on.
Listed(w) ==
    {SelectExpr(w, j).node :
        j \in {k \in 1..Len(w) : SelectExpr(w, k).next # 0 /\ Follows(w[SelectExpr(w, k).next])}}

\* A list consists of such variables,
LEMMA ListListed ==
  ASSUME NEW w, Ended(w), NEW i \in 1..Len(w), SelectExprs(w, i).next # 0,
         Follows(w[SelectExprs(w, i).next])
  PROVE  SelectExprs(w, i).node \in Seq(Listed(w))
<1> DEFINE
  n == Len(w)
  D == 1..n
  G == Listed(w)
  l(k) == SelectExprs(w, k)
  Good(k) == l(k).next # 0 /\ Follows(w[l(k).next]) => l(k).node \in Seq(G)
  S == {k \in D : Good(k)}
<1>1. n \in Nat /\ n > 0
  BY DEF Ended
<1>2. ASSUME NEW k \in D, \A j \in D : k < j => j \in S
      PROVE  k \in S
  <2> DEFINE
    x == SelectExpr(w, k)
    rest == l(After(w, x.next))
  <2>1. l(k) = SelectList(w, x, rest)
    BY SelectListsDefined
  <2>x. x.next # 0 /\ Follows(w[x.next]) => x.node \in G
    BY DEF Listed
  <2> HIDE DEF l, G
  <2>2. Refused.next = 0
    BY DEF Refused
  <2>3. CASE x.next = 0
    BY <2>1, <2>2, <2>3 DEF SelectList
  <2>4. CASE x.next # 0
    <3>1. k < n /\ x.next \in k + 1..n
      BY <2>2, <2>4, SelectExprIs
    <3>2. IsSign(w[x.next], "comma") => After(w, x.next) \in D /\ k < After(w, x.next)
      <4>1. After(w, x.next) \in 1..n /\ x.next <= After(w, x.next)
        BY <1>1, <3>1, AfterIs, SMTT(20)
      <4> QED BY <1>1, <3>1, <4>1
    <3> DEFINE a == After(w, x.next)
    <3>3. IsSign(w[x.next], "comma") => Good(a)
      BY <1>2, <3>2
    <3> HIDE DEF x, a
    <3>5. CASE IsSign(w[x.next], "comma")
      <4>1. CASE l(a).next = 0
        BY <2>1, <2>2, <2>4, <3>5, <4>1 DEF SelectList, a
      <4>2. CASE l(a).next # 0
        <5>1. l(k) = [next |-> l(a).next, node |-> <<x.node>> \o l(a).node]
          BY <2>1, <2>4, <3>5, <4>2 DEF SelectList, a
        <5>2. l(k).next = l(a).next /\ l(k).node = <<x.node>> \o l(a).node
          BY <5>1
        <5>3. x.node \in G
          BY <2>x, <2>4, <3>5 DEF Follows
        <5>4. ASSUME Follows(w[l(k).next]) PROVE l(k).node \in Seq(G)
          <6>1. l(a).node \in Seq(G) /\ <<x.node>> \in Seq(G)
            BY <3>3, <3>5, <4>2, <5>2, <5>3, <5>4
          <6>2. <<x.node>> \o l(a).node \in Seq(G)
            BY <6>1
          <6> QED BY <5>2, <6>2
        <5> QED BY <5>4
      <4> QED BY <4>1, <4>2
    <3>6. CASE ~IsSign(w[x.next], "comma")
      <4>1. l(k) = Refused \/ l(k) = [next |-> x.next, node |-> <<x.node>>]
        BY <2>1, <2>4, <3>6 DEF SelectList
      <4>2. CASE l(k) = Refused
        BY <2>2, <4>2
      <4>3. CASE l(k) = [next |-> x.next, node |-> <<x.node>>]
        <5>1. l(k).next = x.next /\ l(k).node = <<x.node>>
          BY <4>3
        <5>2. ASSUME Follows(w[l(k).next]) PROVE l(k).node \in Seq(G)
          <6>1. x.node \in G
            BY <2>x, <2>4, <5>1, <5>2
          <6>2. <<x.node>> \in Seq(G)
            BY <6>1
          <6> QED BY <5>1, <6>2
        <5> QED BY <5>2
      <4> QED BY <4>1, <4>2, <4>3
    <3> QED BY <3>5, <3>6
  <2> QED BY <2>3, <2>4
<1>3. D \subseteq Int /\ n \in Int /\ (\A k \in D : k <= n) /\ i \in D
  BY <1>1
<1> HIDE DEF D, S, n, G
<1>4. D \subseteq S
  BY <1>2, <1>3, Downward
<1> QED BY <1>3, <1>4 DEF S, n, G

\* and so does a statement; its LIMIT is the one that ends it.
LEMMA SelectListed ==
  ASSUME NEW w, Ended(w), NEW i \in 1..Len(w), Select(w, i).next # 0
  PROVE  /\ Select(w, i).node.exprs \in Seq(Listed(w))
         /\ \/ Select(w, i).node.limit = {}
            \/ \E j \in 1..Len(w) :
                  /\ IsWord(w[j], "LIMIT") /\ SelectLimit(w, j).next # 0
                  /\ Select(w, i).node.limit = SelectLimit(w, j).node
<1> DEFINE
  n == Len(w)
  list == SelectExprs(w, After(w, i))
  limit == IF IsWord(w[list.next], "LIMIT") THEN SelectLimit(w, list.next)
           ELSE [next |-> list.next, node |-> {}]
  s == Select(w, i)
  node == [start |-> w[i].start, end |-> w[limit.next].end,
           exprs |-> list.node, limit |-> limit.node, comments |-> Comments(w, i)]
<1>1. n \in Nat /\ n > 0
  BY DEF Ended
<1>2. s = IF list.next = 0 THEN Refused
          ELSE IF limit.next = 0 \/ ~(IsSign(w[limit.next], "semi") \/ w[limit.next].type = "EOS")
          THEN Refused
          ELSE [next |-> After(w, limit.next), node |-> node]
  BY DEF Select, SelectWith, SelectEnd, Behind
<1>3. s.next # 0
  OBVIOUS
<1> HIDE DEF s
<1>4. list.next # 0 /\ limit.next # 0 /\ IsEnd(w[limit.next])
      /\ s = [next |-> After(w, limit.next), node |-> node]
  <2> HIDE DEF list, limit, node
  <2> QED BY <1>2, <1>3 DEF Refused, IsEnd
<1>5. After(w, i) \in 1..n
  BY <1>1, AfterIs
<1>6. list.next \in 1..n
  <2>1. list.next \in After(w, i) + 1..n
    BY <1>4, <1>5, SelectExprsIs
  <2> HIDE DEF list
  <2> QED BY <1>1, <1>5, <2>1
<1>7. Follows(w[list.next])
  <2> HIDE DEF list
  <2>1. CASE IsWord(w[list.next], "LIMIT")
    BY <2>1 DEF Follows
  <2>2. CASE ~IsWord(w[list.next], "LIMIT")
    BY <1>4, <2>2 DEF Follows
  <2> QED BY <2>1, <2>2
<1>8. list.node \in Seq(Listed(w))
  BY <1>4, <1>5, <1>7, ListListed
<1>9. s.node.exprs = list.node /\ s.node.limit = limit.node
  <2>1. s.node = node
    BY <1>4
  <2>2. node.exprs = list.node /\ node.limit = limit.node
    OBVIOUS
  <2> HIDE DEF node
  <2> QED BY <2>1, <2>2
<1> HIDE DEF list
<1>10. CASE IsWord(w[list.next], "LIMIT")
  <2>1. limit = SelectLimit(w, list.next)
    BY <1>10
  <2> HIDE DEF limit
  <2> QED BY <1>4, <1>6, <1>8, <1>9, <1>10, <2>1 DEF s
<1>11. CASE ~IsWord(w[list.next], "LIMIT")
  <2>1. limit.node = {}
    BY <1>11
  <2> HIDE DEF limit
  <2> QED BY <1>8, <1>9, <2>1 DEF s
<1> QED BY <1>10, <1>11

\* A number is all of its token.
LEMMA IntAt ==
  ASSUME NEW t \in Seq(Chars), NEW p \in 0..Len(t), NEW l, ReadAt(t, p, l), l.type = "INT"
  PROVE  /\ l.start = p /\ l.end = l.curr /\ ~IsFinal(l) /\ IsSolid(l)
         /\ l.curr \in p + 1..Len(t)
<1>1. ~CommentAt(t, p, l) /\ ~QuotedAt(t, p, l)
  BY DEF CommentAt, QuotedAt
<1>2. PlainAt(t, p, l)
  BY <1>1 DEF ReadAt
<1>3. l.start = p /\ l.end = l.curr /\ l.curr \in p..Len(t) /\ l.curr # p /\ l.at = p
  BY <1>2 DEF PlainAt, ReadAt
<1>4. ~IsFinal(l) /\ IsSolid(l)
  BY <1>3 DEF IsFinal, IsSolid
<1>5. l.curr \in p + 1..Len(t)
  <2> DEFINE c == l.curr
  <2>1. c \in p..Len(t) /\ c # p
    BY <1>3
  <2> HIDE DEF c
  <2>2. c \in p + 1..Len(t)
    BY <2>1
  <2> QED BY <2>2 DEF c
<1> QED BY <1>3, <1>4, <1>5

\* The text from one token of u to another is cut out of it.
LEMMA SliceIsCut ==
  ASSUME NEW u \in Seq(Chars), NEW s \in 0..Len(u), NEW c \in s + 1..Len(u),
         NEW t, t = Slice(u, s, c), NEW d, d = -s
  PROVE  Cut(t, u, d, s, c) /\ Len(t) = c + d
<1>1. c \in 0..Len(u) /\ s <= c /\ s \in Nat /\ c \in Int /\ Len(u) \in Nat /\ d \in Int /\ s + d = 0
  OBVIOUS
<1>2. t \in Seq(Chars) /\ Len(t) = c - s /\ \A k \in 0..c - s - 1 : At(t, k) = At(u, s + k)
  <2>1. /\ Slice(u, s, c) \in Seq(Chars)
        /\ Len(Slice(u, s, c)) = IF s <= c THEN c - s ELSE 0
        /\ \A k \in 0..c - s - 1 : At(Slice(u, s, c), k) = At(u, s + k)
    BY ONLY u \in Seq(Chars), s \in 0..Len(u), <1>1, SliceIs
  <2> QED BY <1>1, <2>1
<1>3. Len(t) = c + d
  BY <1>1, <1>2
<1>4. ASSUME NEW i \in s..c - 1
      PROVE  At(t, i + d) = At(u, i)
  <2> DEFINE k == i - s
  <2>1. k \in 0..c - s - 1 /\ s + k = i /\ i + d = k
    BY <1>1
  <2> HIDE DEF k
  <2> QED BY <1>2, <2>1
<1>5. c + d <= Len(t) /\ ~(c + d < Len(t)) /\ s + d \in Nat /\ c \in s + 1..Len(u)
  BY <1>1, <1>3
<1>6. Cut(t, u, d, s, c)
  BY <1>1, <1>2, <1>4, <1>5 DEF Cut
<1> QED BY <1>3, <1>6

\* The tokens of v are those of w from j to e, and the end.
OnlyTwins(v, w, j, e, d) ==
    /\ Twins(v, w, 1 - j, j, e, d) /\ Len(v) = e - j + 2 /\ v[Len(v)].type = "EOS"

\* A text that is cut out, up to a number, has the tokens that are cut out.
LEMMA CutOnly ==
  ASSUME NEW u \in Seq(Chars), NEW w, IsWalk(u, 0, w), NEW j \in 1..Len(w),
         NEW e \in j..Len(w) - 1, w[e].type = "INT",
         NEW v, v = Walk(Slice(u, w[j].at, w[e].curr))
  PROVE  OnlyTwins(v, w, j, e, -w[j].at)
<1>z. 0 \in 0..Len(u) /\ Len(u) \in Nat
  OBVIOUS
<1>1. Ended(w) /\ Len(w) \in Nat
  BY <1>z, WalkEnded DEF Ended
<1>2. /\ \A k \in 1..Len(w) :
           w[k].at \in 0..Len(u) /\ w[k] = Read(u, w[k].at) /\ ReadAt(u, w[k].at, w[k])
      /\ \A k \in 1..Len(w) - 1 :
           w[k + 1].at = w[k].curr /\ w[k].curr \in w[k].at + 1..Len(u) /\ ~IsFinal(w[k])
  BY <1>z, WalkPlaces
<1> DEFINE
  s == w[j].at
  c == w[e].curr
  d == -s
  t == Slice(u, s, c)
  g == 1 - j
  n == (e + g) + 1
<1>3. e \in 1..Len(w) - 1 /\ e \in 1..Len(w) /\ e \in j..Len(w) /\ j \in Int /\ e \in Int
  BY <1>1
<1>4. s \in 0..Len(u) /\ c \in s + 1..Len(u) /\ s \in Int /\ c \in Int
  <2>1. w[j].at <= w[e].at
    BY <1>z, <1>3, WalkForward
  <2>2. w[j].at \in 0..Len(u) /\ w[e].at \in 0..Len(u) /\ w[e].curr \in w[e].at + 1..Len(u)
    BY <1>2, <1>3
  <2> QED BY <1>z, <2>1, <2>2, SMTT(30)
<1>v. v = Walk(t)
  OBVIOUS
<1> HIDE DEF s, c
<1>5. d = -s /\ d \in Int /\ s + d = 0
  BY <1>4
<1> HIDE DEF d
<1>6. Cut(t, u, d, s, c) /\ Len(t) = c + d
  <2> HIDE DEF t
  <2>1. t = Slice(u, s, c)
    BY DEF t
  <2> QED BY <1>4, <1>5, <2>1, SliceIsCut
<1> HIDE DEF t
<1>7. t \in Seq(Chars) /\ Len(t) \in Nat
  BY <1>6, CutAgrees
<1>8. IsWalk(t, 0, v)
  BY <1>7, <1>v, ParseIs
<1>9. /\ Len(v) \in Nat /\ Len(v) > 0 /\ v[1] = Read(t, 0) /\ v \in Seq(Reads)
      /\ \A k \in 1..Len(v) - 1 : ~IsFinal(v[k])
  BY <1>8 DEF IsWalk
<1>10. Twins(v, w, g, j, e, d) /\ v[n] = Read(t, c + d)
  <2> DEFINE b == 1
  <2>1. b = 1
    OBVIOUS
  <2> HIDE DEF b
  <2>2. Read(t, 0).at = 0
    BY ReadFields
  <2>3. b \in 1..Len(v) /\ v[b].at = w[j].at + d /\ g = b - j
    BY <1>5, <1>9, <2>1, <2>2 DEF s
  <2>4. Cut(t, u, d, w[j].at, w[e].curr)
    BY <1>6 DEF s, c
  <2>5. /\ ~IsFinal(w[e]) /\ w[e].type \in {"ID", "INT", "USER_VAR"}
        /\ w[e].type = "USER_VAR" => w[e].curr + d < Len(t)
    BY <1>2, <1>3
  <2> HIDE DEF g
  <2>6. CutOut(t, v, w, g, j, e, d)
    BY <1>3, <1>7, <1>8, <2>3, <2>4, <2>5, CutTwins
  <2> QED BY <2>6 DEF CutOut, c
<1>11. n \in 1..Len(v) /\ n = e - j + 2
  <2> DEFINE l == Len(v)
  <2>1. e + g < l /\ l \in Nat
    BY <1>9, <1>10 DEF Twins
  <2>2. e + g >= 1 /\ e + g \in Int /\ n = e - j + 2
    BY <1>3
  <2> DEFINE m == e + g
  <2> HIDE DEF l, m
  <2>3. n = m + 1 /\ m < l /\ l \in Nat /\ m >= 1 /\ m \in Int
    BY <2>1, <2>2 DEF m
  <2> HIDE DEF n
  <2>4. n \in 1..l
    BY <2>3
  <2> QED BY <2>2, <2>4 DEF l
<1> HIDE DEF n
<1>12. v[n].type = "EOS"
  BY <1>6, <1>10, ReadEnd
<1>13. n = Len(v)
  <2>1. IsFinal(v[n])
    BY <1>12 DEF IsFinal
  <2>2. n \notin 1..Len(v) - 1
    BY <1>9, <2>1
  <2> DEFINE m == Len(v)
  <2>3. n \in 1..m /\ n \notin 1..m - 1 /\ m \in Nat
    BY <1>9, <1>11, <2>2
  <2> HIDE DEF m
  <2>4. n = m
    BY <2>3
  <2> QED BY <2>4 DEF m
<1> QED BY <1>10, <1>11, <1>12, <1>13 DEF OnlyTwins, d, s

\* The tokens of a kind.
OfType(v, type) == {l \in Range(v) : l.type = type}

\* What is cut out of the tokens j to e has one of a kind for each of theirs.
LEMMA OfTypeIs ==
  ASSUME NEW v, NEW w, NEW j, NEW e, NEW d, OnlyTwins(v, w, j, e, d), NEW g, g = 1 - j,
         NEW type, type # "EOS"
  PROVE  /\ \A l \in OfType(v, type) : \E k \in j..e : w[k].type = type /\ l = v[k + g]
         /\ \A k \in j..e : w[k].type = type => v[k + g] \in OfType(v, type)
<1>1. /\ Twins(v, w, g, j, e, d) /\ Len(v) = e - j + 2 /\ v[Len(v)].type = "EOS"
  BY DEF OnlyTwins
<1>2. /\ v \in Seq(Reads) /\ Len(v) \in Nat /\ j \in Int /\ e \in Int /\ g \in Int /\ e >= j
  BY <1>1 DEF Twins, Ended
<1>3. Range(v) = {v[k] : k \in 1..Len(v)}
  BY <1>2 DEF Range
<1>4. ASSUME NEW k \in j..e
      PROVE  k + g \in 1..Len(v) /\ v[k + g].type = w[k].type
  BY <1>1, TwinToken
<1>5. ASSUME NEW l \in OfType(v, type)
      PROVE  \E k \in j..e : w[k].type = type /\ l = v[k + g]
  <2>1. l.type = type /\ l \in Range(v)
    BY DEF OfType
  <2>2. PICK i \in 1..Len(v) : l = v[i]
    BY <1>3, <2>1
  <2>3. i # Len(v)
    BY <1>1, <2>1, <2>2
  <2> DEFINE k == i - g
  <2>4. k \in j..e /\ k + g = i
    BY <1>1, <1>2, <2>3
  <2> HIDE DEF k
  <2>5. w[k].type = v[i].type
    BY <1>4, <2>4
  <2> QED BY <2>1, <2>2, <2>4, <2>5
<1>6. ASSUME NEW k \in j..e, w[k].type = type
      PROVE  v[k + g] \in OfType(v, type)
  BY <1>4, <1>6, <1>3 DEF OfType
<1> QED BY <1>5, <1>6

\* The numbers of a LIMIT are read where they stand.
LimitRead(v, c) ==
    \/ \E l \in OfType(v, "INT") :
          OfType(v, "INT") = {l} /\ c.rows = c.start + l.start /\ c.offset = -1
    \/ \E l, m \in OfType(v, "INT") :
          /\ OfType(v, "INT") = {l, m} /\ l.start < m.start
          /\ IF OfType(v, "SIGN") # {}
             THEN c.offset = c.start + l.start /\ c.rows = c.start + m.start
             ELSE c.rows = c.start + l.start /\ c.offset = c.start + m.start

\* A LIMIT of one number,
LEMMA LimitOne ==
  ASSUME NEW v, NEW w, NEW j, NEW e, NEW d, OnlyTwins(v, w, j, e, d), NEW c,
         c.start + d = 0, c.start \in Int,
         w[j].type # "INT", w[e].type = "INT", \A k \in j + 1..e - 1 : ~IsSolid(w[k]),
         c.rows = w[e].start, c.offset = -1
  PROVE  LimitRead(v, c)
<1> DEFINE
  g == 1 - j
  l == v[e + g]
  S == OfType(v, "INT")
<1>1. Twins(v, w, g, j, e, d)
  BY DEF OnlyTwins
<1>2. j \in Int /\ e \in Int /\ e >= j /\ d \in Int /\ e \in j..e
  BY <1>1 DEF Twins, Ended
<1>3. g = 1 - j
  OBVIOUS
<1> HIDE DEF g
<1>4. /\ \A x \in S : \E k \in j..e : w[k].type = "INT" /\ x = v[k + g]
      /\ \A k \in j..e : w[k].type = "INT" => v[k + g] \in S
  BY <1>3, OfTypeIs
<1>5. ASSUME NEW k \in j..e, w[k].type = "INT"
      PROVE  k = e
  <2>1. k # j
    BY <1>5
  <2>2. k \notin j + 1..e - 1
    BY <1>5 DEF IsSolid
  <2> QED BY <1>2, <2>1, <2>2
<1>6. S = {l}
  <2>1. l \in S
    BY <1>2, <1>4
  <2>2. \A x \in S : x = l
    BY <1>4, <1>5
  <2> HIDE DEF l, S
  <2> QED BY <2>1, <2>2
<1>7. l.start = w[e].start + d /\ w[e].start \in Int
  BY <1>1, <1>2, TwinToken DEF Alike, Reads
<1> HIDE DEF l, S
<1>8. c.rows = c.start + l.start
  <2> DEFINE
    a == c.start
    b == w[e].start
    x == l.start
  <2>1. x = b + d /\ b \in Int /\ a + d = 0 /\ a \in Int /\ d \in Int
    BY <1>2, <1>7
  <2> HIDE DEF a, b, x
  <2>2. b = a + x
    BY <2>1
  <2> QED BY <2>2 DEF a, b, x
<1> QED BY <1>6, <1>8 DEF LimitRead, S

\* and of two.
LEMMA LimitTwo ==
  ASSUME NEW v, NEW w, NEW j, NEW f, NEW h, NEW e, NEW d, OnlyTwins(v, w, j, e, d), NEW c,
         c.start + d = 0, c.start \in Int,
         f \in Int, h \in Int, j < f, f < h, h < e,
         w[j].type = "ID", w[f].type = "INT", w[e].type = "INT", w[f].start < w[e].start,
         \A k \in j + 1..e - 1 : k # f /\ k # h => ~IsSolid(w[k]),
         \/ /\ IsSign(w[h], "comma")
            /\ c.rows = w[e].start /\ c.offset = w[f].start
         \/ /\ w[h].type = "ID"
            /\ c.rows = w[f].start /\ c.offset = w[e].start
  PROVE  LimitRead(v, c)
<1> DEFINE
  g == 1 - j
  l == v[f + g]
  m == v[e + g]
  S == OfType(v, "INT")
  Z == OfType(v, "SIGN")
<1>1. Twins(v, w, g, j, e, d)
  BY DEF OnlyTwins
<1>2. j \in Int /\ e \in Int /\ e >= j /\ d \in Int /\ e \in j..e /\ f \in j..e /\ h \in j..e
  BY <1>1 DEF Twins, Ended
<1>3. g = 1 - j
  OBVIOUS
<1> HIDE DEF g
<1>4. /\ \A x \in S : \E k \in j..e : w[k].type = "INT" /\ x = v[k + g]
      /\ \A k \in j..e : w[k].type = "INT" => v[k + g] \in S
  BY <1>3, OfTypeIs
<1>5. /\ \A x \in Z : \E k \in j..e : w[k].type = "SIGN" /\ x = v[k + g]
      /\ \A k \in j..e : w[k].type = "SIGN" => v[k + g] \in Z
  BY <1>3, OfTypeIs
<1>6. w[h].type \in {"SIGN", "ID"}
  BY DEF IsSign
<1>7. ASSUME NEW k \in j..e, w[k].type \in {"INT", "SIGN"}
      PROVE  k \in {f, h, e}
  <2>1. k # j
    BY <1>7
  <2>2. IsSolid(w[k])
    BY <1>7 DEF IsSolid
  <2>3. k \in j + 1..e - 1 => k \in {f, h}
    BY <2>2
  <2> QED BY <1>2, <2>1, <2>3
<1>8. S = {l, m}
  <2>1. l \in S /\ m \in S
    BY <1>2, <1>4
  <2>2. \A x \in S : x = l \/ x = m
    <3> TAKE x \in S
    <3>1. PICK k \in j..e : w[k].type = "INT" /\ x = v[k + g]
      BY <1>4
    <3>2. k \in {f, h, e} /\ k # h
      BY <1>6, <1>7, <3>1
    <3> QED BY <3>1, <3>2
  <2> HIDE DEF l, m, S
  <2> QED BY <2>1, <2>2
<1>9. Z # {} <=> w[h].type = "SIGN"
  <2>1. ASSUME w[h].type = "SIGN" PROVE Z # {}
    <3>1. v[h + g] \in Z
      BY <1>2, <1>5, <2>1
    <3> HIDE DEF Z
    <3> QED BY <3>1
  <2>2. ASSUME Z # {} PROVE w[h].type = "SIGN"
    <3>1. PICK x \in Z : TRUE
      BY <2>2
    <3>2. PICK k \in j..e : w[k].type = "SIGN" /\ x = v[k + g]
      BY <1>5, <3>1
    <3>3. k = h
      BY <1>7, <3>2
    <3> QED BY <3>2, <3>3
  <2> QED BY <2>1, <2>2
<1>10. /\ l.start = w[f].start + d /\ w[f].start \in Int
       /\ m.start = w[e].start + d /\ w[e].start \in Int
  <2>1. Alike(l, w[f], d) /\ w[f] \in Reads
    BY <1>1, <1>2, TwinToken
  <2>2. Alike(m, w[e], d) /\ w[e] \in Reads
    BY <1>1, <1>2, TwinToken
  <2> HIDE DEF l, m
  <2> QED BY <2>1, <2>2 DEF Alike, Reads
<1> HIDE DEF l, m, S, Z
<1>11. w[f].start = c.start + l.start /\ w[e].start = c.start + m.start /\ l.start < m.start
  <2> DEFINE
    a == c.start
    b == w[f].start
    x == l.start
    z == w[e].start
    y == m.start
  <2>1. x = b + d /\ b \in Int /\ y = z + d /\ z \in Int /\ a + d = 0 /\ a \in Int /\ d \in Int /\ b < z
    BY <1>2, <1>10
  <2> HIDE DEF a, b, x, y, z
  <2>2. b = a + x /\ z = a + y /\ x < y
    BY <2>1
  <2> QED BY <2>2 DEF a, b, x, y, z
<1>12. CASE IsSign(w[h], "comma") /\ c.rows = w[e].start /\ c.offset = w[f].start
  <2>1. Z # {}
    BY <1>9, <1>12 DEF IsSign
  <2> QED BY <1>8, <1>11, <1>12, <2>1 DEF LimitRead, S, Z
<1>13. CASE w[h].type = "ID" /\ c.rows = w[f].start /\ c.offset = w[e].start
  <2>1. Z = {}
    BY <1>9, <1>13
  <2> QED BY <1>8, <1>11, <1>13, <2>1 DEF LimitRead, S, Z
<1> QED BY <1>12, <1>13

\* A LIMIT that is cut out by its range has its numbers.
LEMMA LimitAgain ==
  ASSUME NEW u \in Seq(Chars), NEW w, IsWalk(u, 0, w), NEW j \in 1..Len(w), IsWord(w[j], "LIMIT"),
         SelectLimit(w, j).next # 0, NEW c \in SelectLimit(w, j).node
  PROVE  LimitRead(Walk(Slice(u, c.start, c.end)), c)
<1>z. 0 \in 0..Len(u) /\ Len(u) \in Nat
  OBVIOUS
<1> DEFINE
  n == Len(w)
  f == After(w, j)
  h == After(w, f)
  e == After(w, h)
  x == SelectLimit(w, j)
<1>1. Ended(w) /\ n \in Nat
  BY <1>z, WalkEnded DEF Ended
<1>2. /\ \A k \in 1..n : w[k].at \in 0..Len(u) /\ ReadAt(u, w[k].at, w[k])
      /\ \A k \in 1..n - 1 : ~IsFinal(w[k])
      /\ IsFinal(w[n])
  BY <1>z, WalkPlaces
<1>3. /\ w[j].type = "ID" /\ w[j].start = w[j].at /\ w[j].at \in Int
  <2>1. w[j].start = w[j].at
    BY <1>2, WordAt
  <2>2. w[j].at \in Int
    BY <1>2
  <2> QED BY <2>1, <2>2 DEF IsWord
<1>4. f \in 1..n /\ j <= f /\ (j < n => j < f) /\ \A k \in j + 1..f - 1 : ~IsSolid(w[k])
  BY <1>1, AfterIs
<1> HIDE DEF f
<1>5. h \in 1..n /\ f <= h /\ (f < n => f < h) /\ \A k \in f + 1..h - 1 : ~IsSolid(w[k])
  BY <1>1, AfterIs, <1>4
<1> HIDE DEF h
<1>6. e \in 1..n /\ h <= e /\ (h < n => h < e) /\ \A k \in h + 1..e - 1 : ~IsSolid(w[k])
  BY <1>1, AfterIs, <1>5
<1> HIDE DEF e
<1> DEFINE
  Clause(numbers, last) ==
      {[rows |-> numbers[1], offset |-> numbers[2], start |-> w[j].start, end |-> w[last].end]}
<1>7. x = IF w[f].type # "INT" THEN Refused
          ELSE IF w[h].type = "EOS" \/ IsSign(w[h], "semi")
          THEN [next |-> e, node |-> Clause(<<w[f].start, -1>>, f)]
          ELSE IF w[e].type = "INT" /\ (IsSign(w[h], "comma") \/ IsWord(w[h], "OFFSET"))
          THEN [next |-> After(w, e), node |-> Clause(LimitNumbers(w[h], w[f], w[e]), e)]
          ELSE Refused
  BY DEF SelectLimit, f, h, e
<1>8. x.next # 0 /\ c \in x.node
  OBVIOUS
<1> HIDE DEF x, Clause
<1>9. w[f].type = "INT"
  BY <1>7, <1>8 DEF Refused
<1>10. ASSUME NEW k \in 1..n, w[k].type = "INT"
       PROVE  /\ w[k].start = w[k].at /\ w[k].end = w[k].curr /\ k \in 1..n - 1 /\ w[k].at \in Int
              /\ w[k].curr \in Int /\ w[k].at < w[k].curr
  <2>1. w[k].at \in 0..Len(u) /\ ReadAt(u, w[k].at, w[k])
    BY <1>2
  <2>2. w[k].start = w[k].at /\ w[k].end = w[k].curr /\ ~IsFinal(w[k]) /\ w[k].curr \in w[k].at + 1..Len(u)
    BY <1>10, <2>1, IntAt
  <2>3. k # n
    BY <1>2, <2>2
  <2> QED BY <1>1, <2>1, <2>2, <2>3
<1>11. CASE w[h].type = "EOS" \/ IsSign(w[h], "semi")
  <2>1. x.node = Clause(<<w[f].start, -1>>, f)
    BY <1>7, <1>9, <1>11
  <2>2. c = [rows |-> w[f].start, offset |-> -1, start |-> w[j].start, end |-> w[f].end]
    BY <1>8, <2>1 DEF Clause
  <2>3. c.rows = w[f].start /\ c.offset = -1 /\ c.start = w[j].at /\ c.end = w[f].curr
    BY <1>3, <1>4, <1>9, <1>10, <2>2
  <2> DEFINE
    v == Walk(Slice(u, c.start, c.end))
    d == -w[j].at
  <2>4. f \in j..Len(w) - 1
    BY <1>1, <1>4, <1>9, <1>10
  <2>5. v = Walk(Slice(u, w[j].at, w[f].curr))
    BY <2>3
  <2> HIDE DEF v
  <2>6. OnlyTwins(v, w, j, f, -w[j].at)
    BY <1>9, <2>4, <2>5, CutOnly
  <2>7. c.start + d = 0 /\ c.start \in Int
    BY <1>3, <2>3
  <2>8. OnlyTwins(v, w, j, f, d)
    BY <2>6
  <2> HIDE DEF d
  <2>9. LimitRead(v, c)
    BY <1>3, <1>4, <1>9, <2>3, <2>7, <2>8, LimitOne
  <2> QED BY <2>9 DEF v
<1>12. CASE ~(w[h].type = "EOS" \/ IsSign(w[h], "semi"))
  <2>1. /\ w[e].type = "INT" /\ (IsSign(w[h], "comma") \/ IsWord(w[h], "OFFSET"))
        /\ x.node = Clause(LimitNumbers(w[h], w[f], w[e]), e)
    BY <1>7, <1>9, <1>12, <1>8 DEF Refused
  <2>2. w[h].type \in {"SIGN", "ID"} /\ (IsSign(w[h], "comma") <=> w[h].type = "SIGN")
    BY <2>1 DEF IsSign, IsWord
  <2> DEFINE numbers == LimitNumbers(w[h], w[f], w[e])
  <2>3. numbers = IF IsSign(w[h], "comma") THEN <<w[e].start, w[f].start>> ELSE <<w[f].start, w[e].start>>
    BY DEF LimitNumbers
  <2> HIDE DEF numbers
  <2>4. c = [rows |-> numbers[1], offset |-> numbers[2], start |-> w[j].start, end |-> w[e].end]
    BY <1>8, <2>1 DEF Clause, numbers
  <2>5. c.rows = numbers[1] /\ c.offset = numbers[2] /\ c.start = w[j].at /\ c.end = w[e].curr
    BY <1>3, <1>6, <1>10, <2>1, <2>4
  <2>6. \/ IsSign(w[h], "comma") /\ c.rows = w[e].start /\ c.offset = w[f].start
        \/ w[h].type = "ID" /\ c.rows = w[f].start /\ c.offset = w[e].start
    <3>1. CASE IsSign(w[h], "comma")
      BY <2>3, <2>5, <3>1
    <3>2. CASE ~IsSign(w[h], "comma")
      BY <2>2, <2>3, <2>5, <3>2
    <3> QED BY <3>1, <3>2
  <2>7. f \in 1..n - 1 /\ e \in 1..n - 1
    BY <1>4, <1>6, <1>9, <1>10, <2>1
  <2>8. j < f /\ f < h /\ h < e
    <3>1. h # n
      BY <1>1, <1>6, <2>7
    <3>2. j # n
      BY <1>1, <1>4, <2>7
    <3> QED BY <1>1, <1>4, <1>5, <1>6, <2>7, <3>1, <3>2
  <2>9. j \in Int /\ f \in Int /\ h \in Int /\ e \in Int /\ e \in j..Len(w) - 1 /\ f \in 1..n /\ e \in f..Len(w)
    BY <1>1, <2>7, <2>8, <1>5
  <2>10. \A k \in j + 1..e - 1 : k # f /\ k # h => ~IsSolid(w[k])
    <3> TAKE k \in j + 1..e - 1
    <3> SUFFICES ASSUME k # f, k # h PROVE ~IsSolid(w[k])
      OBVIOUS
    <3>1. k \in j + 1..f - 1 \/ k \in f + 1..h - 1 \/ k \in h + 1..e - 1
      BY <2>9
    <3> QED BY <1>4, <1>5, <1>6, <3>1
  <2>11. w[f].start < w[e].start
    <3>1. w[f].curr <= w[e].at
      BY <1>z, <2>9, WalkForward, <2>8
    <3>2. /\ w[f].start = w[f].at /\ w[f].at < w[f].curr /\ w[f].at \in Int /\ w[f].curr \in Int
          /\ w[e].start = w[e].at /\ w[e].at \in Int
      BY <1>4, <1>6, <1>9, <1>10, <2>1
    <3> QED BY <3>1, <3>2
  <2> DEFINE
    v == Walk(Slice(u, c.start, c.end))
    d == -w[j].at
  <2>12. v = Walk(Slice(u, w[j].at, w[e].curr))
    BY <2>5
  <2> HIDE DEF v
  <2>13. OnlyTwins(v, w, j, e, -w[j].at)
    BY <2>1, <2>9, <2>12, CutOnly
  <2>14. c.start + d = 0 /\ c.start \in Int
    BY <1>3, <2>5
  <2>15. OnlyTwins(v, w, j, e, d)
    BY <2>13
  <2> HIDE DEF d
  <2>16. LimitRead(v, c)
    BY <1>3, <1>9, <2>1, <2>6, <2>8, <2>9, <2>10, <2>11, <2>14, <2>15, LimitTwo
  <2> QED BY <2>16 DEF v
<1> QED BY <1>11, <1>12

\* The variables and the LIMIT of a statement that is read back.
LEMMA StmtAgain ==
  ASSUME NEW u \in Seq(Chars), NEW w, IsWalk(u, 0, w), NEW m,
         NEW ss, NEW f, Tracks(w, m, ss, f), NEW k \in 1..Len(ss)
  PROVE  /\ \A i \in DOMAIN ss[k].exprs :
              ReadsAs(Again(u, ss[k].exprs[i].start, ss[k].exprs[i].end), ss[k].exprs[i])
         /\ \A c \in ss[k].limit : LimitRead(Walk(Slice(u, c.start, c.end)), c)
<1> DEFINE
  g == f[k]
  s == ss[k]
<1>0. 0 \in 0..Len(u)
  OBVIOUS
<1>1. Ended(w)
  BY <1>0, WalkEnded
<1>2. g \in 1..Len(w) /\ Select(w, g).next # 0 /\ s = Select(w, g).node
  BY DEF Tracks
<1> HIDE DEF g, s
<1>3. /\ s.exprs \in Seq(Listed(w))
      /\ \/ s.limit = {}
         \/ \E j \in 1..Len(w) :
               /\ IsWord(w[j], "LIMIT") /\ SelectLimit(w, j).next # 0
               /\ s.limit = SelectLimit(w, j).node
  BY <1>1, <1>2, SelectListed
<1>4. ASSUME NEW i \in DOMAIN s.exprs
      PROVE  ReadsAs(Again(u, s.exprs[i].start, s.exprs[i].end), s.exprs[i])
  <2> DEFINE x == s.exprs[i]
  <2>1. x \in Listed(w)
    <3> DEFINE
      G == Listed(w)
      q == s.exprs
    <3>1. q \in Seq(G) /\ i \in DOMAIN q
      BY <1>3
    <3> HIDE DEF G, q
    <3>2. q[i] \in G
      BY <3>1
    <3> QED BY <3>2 DEF G, q
  <2> HIDE DEF x
  <2>2. PICK j \in 1..Len(w) : /\ SelectExpr(w, j).next # 0 /\ Follows(w[SelectExpr(w, j).next])
                               /\ x = SelectExpr(w, j).node
    BY <2>1 DEF Listed
  <2>3. ReadsAs(Again(u, x.start, x.end), x)
    BY <2>2, VarAgain
  <2> QED BY <2>3 DEF x
<1>5. ASSUME NEW c \in s.limit
      PROVE  LimitRead(Walk(Slice(u, c.start, c.end)), c)
  <2>1. PICK j \in 1..Len(w) : /\ IsWord(w[j], "LIMIT") /\ SelectLimit(w, j).next # 0
                               /\ c \in SelectLimit(w, j).node
    BY <1>3, <1>5
  <2> QED BY <2>1, LimitAgain
<1> QED BY <1>4, <1>5 DEF s

\* A variable cut out by its range reads as the same variable, name and scope
\* (sql-expr.js:24-55), and a LIMIT by its range as its numbers, however long the
\* text is.
THEOREM NodesReadBackAlways == Spec => []NodesReadBack
<1>1. StmtsOK => NodesReadBack
  <2> SUFFICES ASSUME StmtsOK PROVE NodesReadBack
    OBVIOUS
  <2> DEFINE w == Walk(text)
  <2>1. text \in Seq(Chars)
    BY DEF StmtsOK, TextOK
  <2>2. IsWalk(text, 0, w)
    BY <2>1, ParseTracked
  <2>3. CASE stmts = <<>>
    BY <2>3 DEF NodesReadBack
  <2>4. CASE stmts # <<>>
    <3>1. stmts = Parse(text).stmts /\ Parse(text).ok
      BY <2>1, <2>4, ParseTracked DEF StmtsOK
    <3>2. PICK f : Tracks(w, Len(text), stmts, f)
      BY <2>1, <3>1, ParseTracked
    <3> HIDE DEF w
    <3>3. DOMAIN stmts = 1..Len(stmts)
      BY <3>2 DEF Tracks
    <3>4. ASSUME NEW k \in DOMAIN stmts
          PROVE  /\ \A i \in DOMAIN stmts[k].exprs :
                      ReadsAs(Again(text, stmts[k].exprs[i].start, stmts[k].exprs[i].end),
                              stmts[k].exprs[i])
                 /\ \A c \in stmts[k].limit : LimitRead(Walk(Slice(text, c.start, c.end)), c)
      BY <2>1, <2>2, <3>2, <3>3, StmtAgain
    <3>5. ASSUME NEW k \in DOMAIN stmts, NEW i \in DOMAIN stmts[k].exprs
          PROVE  LET x == stmts[k].exprs[i]
                 IN \E again \in {Parse(<<"SELECT", "sp">> \o Slice(text, x.start, x.end) \o <<"semi">>)} :
                     /\ again.ok /\ Len(again.stmts) = 1 /\ Len(again.stmts[1].exprs) = 1
                     /\ \E y \in Range(again.stmts[1].exprs) :
                         <<y.kind, y.name, y.scope>> = <<x.kind, x.name, x.scope>>
      <4> DEFINE
        x == stmts[k].exprs[i]
        t == <<"SELECT", "sp">> \o Slice(text, x.start, x.end) \o <<"semi">>
      <4>1. ReadsAs(t, x)
        BY <3>4 DEF Again
      <4> HIDE DEF x, t
      <4>2. \E again \in {Parse(t)} :
               /\ again.ok /\ Len(again.stmts) = 1 /\ Len(again.stmts[1].exprs) = 1
               /\ \E y \in Range(again.stmts[1].exprs) :
                   <<y.kind, y.name, y.scope>> = <<x.kind, x.name, x.scope>>
        BY <4>1 DEF ReadsAs
      <4> QED BY <4>2 DEF t, x
    <3>6. ASSUME NEW k \in DOMAIN stmts, NEW c \in stmts[k].limit
          PROVE  \E walk \in {Walk(Slice(text, c.start, c.end))} :
                 LET Of(type) == {l \in Range(walk) : l.type = type}
                     Num(l) == c.start + l.start
                 IN \/ \E l \in Of("INT") : Of("INT") = {l} /\ c.rows = Num(l) /\ c.offset = -1
                    \/ \E l, m \in Of("INT") :
                         /\ Of("INT") = {l, m} /\ l.start < m.start
                         /\ IF Of("SIGN") # {} THEN c.offset = Num(l) /\ c.rows = Num(m)
                            ELSE c.rows = Num(l) /\ c.offset = Num(m)
      <4> DEFINE walk == Walk(Slice(text, c.start, c.end))
      <4>1. LimitRead(walk, c)
        BY <3>4
      <4> HIDE DEF walk
      <4>2. LET Of(type) == {l \in Range(walk) : l.type = type}
                Num(l) == c.start + l.start
            IN \/ \E l \in Of("INT") : Of("INT") = {l} /\ c.rows = Num(l) /\ c.offset = -1
               \/ \E l, m \in Of("INT") :
                    /\ Of("INT") = {l, m} /\ l.start < m.start
                    /\ IF Of("SIGN") # {} THEN c.offset = Num(l) /\ c.rows = Num(m)
                       ELSE c.rows = Num(l) /\ c.offset = Num(m)
        BY <4>1 DEF LimitRead, OfType
      <4> QED BY <4>2 DEF walk
    <3> QED BY <3>5, <3>6 DEF NodesReadBack
  <2> QED BY <2>3, <2>4
<1> QED BY <1>1, StmtsAlways, PTL
===============================================================================
