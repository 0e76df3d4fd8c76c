----------------------------- MODULE WireProofs -----------------------------
(* Proofs about the packets of a connection, for every size of its buffer,   *)
(* every limit, and all logins, commands, messages and result sets.          *)
EXTENDS Wire, FiniteSetTheorems, SequenceTheorems, WellFoundedInduction, TLAPS

-----------------------------------------------------------------------------
\* Induction on the naturals, from their well-founded order: what holds of 0
\* and of every successor holds of all.
LEMMA NatsIn ==
    ASSUME NEW S, 0 \in S, \A n \in Nat : n \in S => n + 1 \in S
    PROVE  Nat \subseteq S
  <1> SUFFICES ASSUME Nat \ S # {} PROVE FALSE
    OBVIOUS
  <1> DEFINE R == OpToRel(<, Nat)
  <1>1. IsWellFoundedOn(R, Nat)
    BY NatLessThanWellFounded, Zenon
  <1> HIDE DEF R
  <1>2. PICK m \in Nat \ S : \A n \in Nat \ S : <<n, m>> \notin R
    BY <1>1, WFMin
  <1>3. \A n \in Nat \ S : ~(n < m)
    BY <1>2 DEF R, OpToRel
  <1>4. m # 0 /\ m - 1 \in Nat /\ m - 1 \in S
    BY <1>3
  <1> QED
    BY <1>4

-----------------------------------------------------------------------------
\* Length-encoded numbers.

\* As many bytes are written as were counted.
LEMMA EncodeCounts ==
    ASSUME NEW n \in Nat
    PROVE  /\ Len(Encode(n)) = EncodedLength(n)
           /\ EncodedLength(n) \in Nat /\ EncodedLength(n) >= 1
           /\ Counted(n) = Written(n) /\ Counted(n) \in Nat
  <1>1. /\ Len(Encode(n)) = EncodedLength(n)
        /\ EncodedLength(n) \in Nat /\ EncodedLength(n) >= 1
    BY DEF Encode, EncodedLength
  <1> QED
    BY <1>1 DEF Counted, Written

LEMMA LengthsNat == Lengths \subseteq Nat
  <1> SUFFICES ASSUME NEW n \in Lengths
               PROVE  n \in Nat
    OBVIOUS
  <1> QED
    BY DEF Lengths

\* What was written is read back.
LEMMA DecodeEncode ==
    ASSUME NEW n \in Lengths
    PROVE  Decode(Encode(n)) = n
  <1> DEFINE e == Encode(n)
  <1>1. n \in Nat /\ n < 2^24 * 256
    BY DEF Lengths
  <1>2. CASE n < 251
    BY <1>1, <1>2 DEF Encode, Decode
  <1>3. CASE n >= 251 /\ n < 2^16
    <2>1. Byte(n, 1) + 2^8 * Byte(n, 2^8) = n
      BY <1>1, <1>3 DEF Byte
    <2> QED
      BY <1>3, <2>1 DEF Encode, Decode
  <1>4. CASE n >= 2^16 /\ n < 2^24
    <2>1. Byte(n, 1) + 2^8 * Byte(n, 2^8) + 2^16 * Byte(n, 2^16) = n
      BY <1>1, <1>4 DEF Byte
    <2>2. e = <<253, Byte(n, 1), Byte(n, 2^8), Byte(n, 2^16)>>
      BY <1>1, <1>4 DEF Encode
    <2>3. e[1] = 253 /\ e[2] = Byte(n, 1) /\ e[3] = Byte(n, 2^8) /\ e[4] = Byte(n, 2^16)
      BY <2>2
    <2> HIDE DEF e
    <2>4. Decode(e) = e[2] + 2^8 * e[3] + 2^16 * e[4]
      BY <2>3 DEF Decode
    <2> QED
      BY <2>1, <2>3, <2>4 DEF e
  <1>5. CASE n >= 2^24
    <2>1. Byte(n, 1) + 2^8 * Byte(n, 2^8) + 2^16 * Byte(n, 2^16) + 2^24 * Byte(n, 2^24) = n
      BY <1>1, <1>5 DEF Byte
    <2>2. e = <<254, Byte(n, 1), Byte(n, 2^8), Byte(n, 2^16), Byte(n, 2^24), 0, 0, 0, 0>>
      BY <1>1, <1>5 DEF Encode
    <2>3. /\ e[1] = 254 /\ e[2] = Byte(n, 1) /\ e[3] = Byte(n, 2^8)
          /\ e[4] = Byte(n, 2^16) /\ e[5] = Byte(n, 2^24)
      BY <2>2
    <2> HIDE DEF e
    <2>4. Decode(e) = e[2] + 2^8 * e[3] + 2^16 * e[4] + 2^24 * e[5]
      BY <2>3 DEF Decode
    <2> QED
      BY <2>1, <2>3, <2>4 DEF e
  <1> QED
    BY <1>1, <1>2, <1>3, <1>4, <1>5

-----------------------------------------------------------------------------
\* Sums of lengths.

\* The recursive function of the partial sums exists: one that is right up to
\* k is, unrolled once, right up to k + 1.
LEMMA SumsDefined ==
    ASSUME NEW s, Len(s) \in Nat
    PROVE  \A i \in 0..Len(s) : Sums(s)[i] = IF i = 0 THEN 0 ELSE Sums(s)[i - 1] + s[i]
  <1> DEFINE Unrolled(g) == [i \in 0..Len(s) |-> IF i = 0 THEN 0 ELSE g[i - 1] + s[i]]
             Right(g, k) == \A i \in 0..Len(s) : i <= k => g[i] = Unrolled(g)[i]
             Reached == {k \in Nat : \E g : Right(g, k)}
  <1>1. 0 \in Reached
    <2> DEFINE zero == [i \in 0..Len(s) |-> 0]
    <2>1. Right(zero, 0)
      OBVIOUS
    <2> QED
      BY <2>1
  <1>2. ASSUME NEW k \in Nat, k \in Reached
        PROVE  k + 1 \in Reached
    <2>1. PICK g : Right(g, k)
      BY <1>2
    <2> DEFINE u == Unrolled(g)
    <2>2. ASSUME NEW i \in 0..Len(s), i <= k + 1
          PROVE  u[i] = Unrolled(u)[i]
      <3>1. CASE i = 0
        BY <3>1
      <3>2. CASE i # 0
        <4>1. i - 1 \in 0..Len(s) /\ i - 1 <= k
          BY <2>2, <3>2
        <4>2. g[i - 1] = u[i - 1]
          BY <2>1, <4>1
        <4>3. u[i] = g[i - 1] + s[i] /\ Unrolled(u)[i] = u[i - 1] + s[i]
          BY <3>2
        <4> QED
          BY <4>2, <4>3
      <3> QED
        BY <3>1, <3>2
    <2>3. Right(u, k + 1)
      BY <2>2
    <2> HIDE DEF u, Unrolled
    <2> QED
      BY <2>3
  <1> HIDE DEF Reached
  <1>3. Len(s) \in Reached
    BY <1>1, <1>2, NatsIn
  <1>4. PICK g : Right(g, Len(s))
    BY <1>3 DEF Reached
  <1>5. Unrolled(g) = Unrolled(Unrolled(g))
    BY <1>4
  <1>6. Sums(s) = Unrolled(Sums(s))
    BY <1>5 DEF Sums
  <1> HIDE DEF Unrolled
  <1>7. \A i \in 0..Len(s) : Sums(s)[i] = Unrolled(Sums(s))[i]
    BY <1>6
  <1> QED
    BY <1>7 DEF Unrolled

LEMMA SumsStep ==
    ASSUME NEW s, Len(s) \in Nat, NEW k \in Nat, k + 1 <= Len(s)
    PROVE  Sums(s)[k + 1] = Sums(s)[k] + s[k + 1]
  <1>1. k + 1 \in 0..Len(s) /\ k + 1 # 0 /\ (k + 1) - 1 = k
    OBVIOUS
  <1> QED
    BY <1>1, SumsDefined

\* The sum of no number is zero,
LEMMA SumOfNothing ==
    ASSUME NEW s, Len(s) = 0
    PROVE  SumOf(s) = 0
  BY SumsDefined DEF SumOf

\* sums of naturals are naturals, and one more number adds itself.
LEMMA SumsNat ==
    ASSUME NEW s, Len(s) \in Nat, \A i \in 1..Len(s) : s[i] \in Nat
    PROVE  \A i \in 0..Len(s) : Sums(s)[i] \in Nat
  <1> DEFINE Good == {k \in Nat : k <= Len(s) => Sums(s)[k] \in Nat}
  <1>1. 0 \in Good
    BY SumsDefined
  <1>2. ASSUME NEW k \in Nat, k \in Good
        PROVE  k + 1 \in Good
    <2> SUFFICES ASSUME k + 1 <= Len(s)
                 PROVE  Sums(s)[k + 1] \in Nat
      OBVIOUS
    <2>1. Sums(s)[k + 1] = Sums(s)[k] + s[k + 1]
      BY SumsStep
    <2>2. Sums(s)[k] \in Nat /\ s[k + 1] \in Nat
      BY <1>2
    <2> QED
      BY <2>1, <2>2
  <1> HIDE DEF Good
  <1>3. Nat \subseteq Good
    BY <1>1, <1>2, NatsIn
  <1> QED
    BY <1>3 DEF Good

LEMMA SumOfMore ==
    ASSUME NEW s, NEW t, Len(s) \in Nat, Len(t) = Len(s) + 1,
           \A i \in 1..Len(s) : t[i] = s[i] /\ s[i] \in Nat
    PROVE  SumOf(t) = SumOf(s) + t[Len(t)] /\ SumOf(s) \in Nat
  <1> DEFINE Same == {k \in Nat : k <= Len(s) => Sums(t)[k] = Sums(s)[k]}
  <1>1. 0 \in Same
    BY SumsDefined
  <1>2. ASSUME NEW k \in Nat, k \in Same
        PROVE  k + 1 \in Same
    <2> SUFFICES ASSUME k + 1 <= Len(s)
                 PROVE  Sums(t)[k + 1] = Sums(s)[k + 1]
      OBVIOUS
    <2>1. Sums(s)[k + 1] = Sums(s)[k] + s[k + 1]
      BY SumsStep
    <2>2. k + 1 <= Len(t) /\ Len(t) \in Nat
      OBVIOUS
    <2>3. Sums(t)[k + 1] = Sums(t)[k] + t[k + 1]
      BY <2>2, SumsStep
    <2> QED
      BY <1>2, <2>1, <2>3
  <1> HIDE DEF Same
  <1>3. Len(s) \in Same
    BY <1>1, <1>2, NatsIn
  <1>4. Sums(t)[Len(t)] = Sums(t)[Len(s)] + t[Len(t)]
    BY SumsStep
  <1> QED
    BY <1>3, <1>4, SumsNat DEF SumOf, Same

-----------------------------------------------------------------------------
\* What the packets declare and hold.

Kinds == {"handshake", "ok", "error", "header", "field", "eof", "row"}
Packets == [kind: Kinds, seq: Nat, len: Nat, bytes: Nat]

\* A packet of a kind and a sequence id that declares what is written.
Sound(f, kind, id) ==
    f \in Packets /\ f.kind = kind /\ f.seq = id % Ids /\ f.len = f.bytes

\* Sequence ids are naturals, and an id that was cut to a byte stays the same.
LEMMA IdsWrap ==
    ASSUME NEW id \in Nat
    PROVE  id % Ids \in Nat /\ (id % Ids) % Ids = id % Ids
  <1>1. Ids \in Nat \ {0}
    BY WireAssumption
  <1>2. ASSUME NEW n \in Nat \ {0}
        PROVE  id % n \in Nat /\ (id % n) % n = id % n
    OBVIOUS
  <1> QED
    BY <1>1, <1>2

LEMMA PacketSound ==
    ASSUME NEW kind \in Kinds, NEW id \in Nat, NEW n \in Nat
    PROVE  Sound(Packet(kind, id, n, n), kind, id)
  BY IdsWrap DEF Sound, Packet, Packets

\* The packets of the greeting, and the small ones of fixed size,
LEMMA HandshakeSound ==
    ASSUME NEW v10 \in BOOLEAN
    PROVE  Sound(Handshake(v10), "handshake", 0)
  <1>1. Version \in Nat
    BY WireAssumption
  <1>2. CASE v10
    <2>1. Handshake(v10) = Packet("handshake", 0, Version + 68, Version + 68)
      BY <1>1, <1>2 DEF Handshake, Packet
    <2> QED
      BY <1>1, <2>1, PacketSound DEF Kinds
  <1>3. CASE ~v10
    <2>1. Handshake(v10) = Packet("handshake", 0, Version + 46, Version + 46)
      BY <1>1, <1>3 DEF Handshake, Packet
    <2> QED
      BY <1>1, <2>1, PacketSound DEF Kinds
  <1> QED
    BY <1>2, <1>3

LEMMA OkSound ==
    ASSUME NEW id \in Nat
    PROVE  Sound(Ok(id), "ok", id)
  BY PacketSound DEF Ok, Kinds

LEMMA EofSound ==
    ASSUME NEW id \in Nat
    PROVE  Sound(Eof(id), "eof", id)
  BY PacketSound DEF Eof, Kinds

\* and those of a result set, whose strings are written with their lengths.
LEMMA HeaderSound ==
    ASSUME NEW id \in Nat, NEW count \in Nat
    PROVE  Sound(ResultHeader(id, count), "header", id)
  BY PacketSound, EncodeCounts DEF ResultHeader, Kinds

LEMMA FieldSound ==
    ASSUME NEW id \in Nat, NEW n \in Nat
    PROVE  Sound(Field(id, n), "field", id)
  <1>1. /\ Counted(n) = Written(n) /\ Counted(n) \in Nat
        /\ Counted(3) = Written(3) /\ Counted(3) \in Nat
    BY EncodeCounts
  <1> DEFINE size == Counted(3) + Counted(n) + 17
  <1>2. /\ Counted(3) + 1 + 1 + 1 + Counted(n) + 1 + 13 = size
        /\ Written(3) + 1 + 1 + 1 + Written(n) + 1 + (1 + 2 + 4 + 1 + 2 + 1) + 2 = size
    BY <1>1
  <1>3. Field(id, n) = Packet("field", id, size, size)
    BY <1>2, Zenon DEF Field
  <1>4. size \in Nat
    BY <1>1
  <1> QED
    BY <1>3, <1>4, PacketSound DEF Kinds

LEMMA RowSound ==
    ASSUME NEW id \in Nat, NEW values \in Seq(Nat)
    PROVE  Sound(Row(id, values), "row", id)
  <1> DEFINE counted == [i \in DOMAIN values |-> IF values[i] > 0 THEN Counted(values[i]) ELSE 1]
             written == [i \in DOMAIN values |-> IF values[i] > 0 THEN Written(values[i]) ELSE 1]
  <1>1. \A i \in DOMAIN values : Counted(values[i]) = Written(values[i]) /\ Counted(values[i]) \in Nat
    BY EncodeCounts
  <1>2. written = counted
    BY <1>1
  <1>3. Len(counted) = Len(values) /\ DOMAIN values = 1..Len(values) /\ Len(values) \in Nat
    OBVIOUS
  <1>4. \A i \in 1..Len(counted) : counted[i] \in Nat
    BY <1>1, <1>3
  <1> HIDE DEF counted
  <1>5. SumOf(counted) \in Nat
    BY <1>3, <1>4, SumsNat DEF SumOf
  <1>6. Row(id, values) = Packet("row", id, SumOf(counted), SumOf(counted))
    BY <1>2 DEF Row, counted
  <1> QED
    BY <1>5, <1>6, PacketSound DEF Kinds

\* An error packet declares what is written unless its message is long or
\* has more bytes than characters.
LEMMA ErrorPackets ==
    ASSUME NEW id \in Nat, NEW m \in [chars: Nat, bytes: Nat]
    PROVE  /\ Error(id, m) \in Packets /\ Error(id, m).kind = "error"
           /\ \/ Error(id, m).len = Error(id, m).bytes
              \/ /\ m.chars > ErrMsgSize \/ m.bytes # m.chars
                 /\ Error(id, m) = Error(Error(id, m).seq, m)
  BY IdsWrap DEF Error, Packet, Packets, Kinds, ErrMsgSize

-----------------------------------------------------------------------------
\* The buffer that is laid out.

Sizes(s) == [i \in DOMAIN s |-> HeaderSize + s[i].len]

\* A packet follows those that are in the buffer.
LEMMA OneMore ==
    ASSUME NEW s \in Seq(Packets), NEW f \in Packets
    PROVE  /\ SumOf(Sizes(Append(s, f))) = SumOf(Sizes(s)) + (HeaderSize + f.len)
           /\ SumOf(Sizes(s)) \in Nat
  <1> DEFINE t == Append(s, f)
  <1>1. /\ t \in Seq(Packets) /\ Len(t) = Len(s) + 1 /\ t[Len(t)] = f /\ Len(s) \in Nat
        /\ \A i \in 1..Len(s) : t[i] = s[i] /\ s[i] \in Packets
    OBVIOUS
  <1> HIDE DEF t
  <1>2. DOMAIN s = 1..Len(s) /\ DOMAIN t = 1..Len(t)
    BY <1>1
  <1>3. /\ Len(Sizes(s)) = Len(s) /\ Len(Sizes(t)) = Len(t)
        /\ \A i \in 1..Len(s) : Sizes(s)[i] = HeaderSize + s[i].len
        /\ \A i \in 1..Len(t) : Sizes(t)[i] = HeaderSize + t[i].len
    BY <1>1, <1>2 DEF Sizes
  <1>4. /\ \A i \in 1..Len(s) : i \in 1..Len(t) /\ HeaderSize + s[i].len \in Nat
        /\ Len(t) \in 1..Len(t)
    <2>1. \A x \in Packets : HeaderSize + x.len \in Nat
      BY DEF Packets, HeaderSize
    <2>2. \A i \in 1..Len(s) : HeaderSize + s[i].len \in Nat
      BY <1>1, <2>1
    <2>3. \A i \in 1..Len(s) : i \in 1..Len(t)
      BY <1>1
    <2>4. Len(t) \in 1..Len(t)
      BY <1>1
    <2> QED
      BY <2>2, <2>3, <2>4
  <1>5. /\ \A i \in 1..Len(Sizes(s)) : Sizes(t)[i] = Sizes(s)[i] /\ Sizes(s)[i] \in Nat
        /\ Sizes(t)[Len(Sizes(t))] = HeaderSize + f.len
    BY <1>1, <1>3, <1>4
  <1>6. /\ SumOf(Sizes(t)) = SumOf(Sizes(s)) + Sizes(t)[Len(Sizes(t))]
        /\ SumOf(Sizes(s)) \in Nat
    BY <1>1, <1>3, <1>5, SumOfMore
  <1> QED
    BY <1>5, <1>6 DEF t

-----------------------------------------------------------------------------
\* The result set that is laid out.

Eofs(s) == {k \in DOMAIN s : s[k].kind = "eof"}

\* The sequence id of the packet that comes next.
Upcoming == IF last = None THEN seq ELSE last

LayoutTyped ==
    /\ stage \in {"greet", "login", "command", "fields", "rows", "closed"}
    /\ cap \in Nat /\ p \in Nat
    /\ seq \in Nat /\ last \in Nat \cup {None}
    /\ out \in Seq(Packets)
    /\ job \in [names: Seq(Lengths), rows: Seq(Seq(Lengths))]

\* The packets in the buffer declare what they hold and reach the position.
Filled ==
    /\ p = SumOf(Sizes(out)) /\ p <= cap
    /\ \A i \in DOMAIN out : out[i].len = out[i].bytes

\* A result set in the buffer begins with its header and is numbered from it;
\* the end of its fields stands before its rows, once.
Underway ==
    /\ out # <<>> /\ wire = <<>> /\ out[1].kind = "header"
    /\ \A k \in DOMAIN out : out[k].seq = k % Ids
    /\ Upcoming = Len(out) + 1
    /\ stage = "fields" => last = None /\ Eofs(out) = {}
    /\ stage = "rows" => \E k \in DOMAIN out : Eofs(out) = {k}

Laying ==
    /\ stage \in {"greet", "login", "command"} => out = <<>>
    /\ stage \in {"fields", "rows"} => Underway

\* What is sent: whole packets, whole result sets, numbered from the header.
GoodWrite(s) ==
    /\ \A k \in DOMAIN s :
          s[k].len = s[k].bytes \/ \E m \in Messages :
              (m.chars > ErrMsgSize \/ m.bytes # m.chars) /\ s[k] = Error(s[k].seq, m)
    /\ s[1].kind = "header" =>
          /\ \A k \in DOMAIN s : s[k].seq = k % Ids
          /\ s[Len(s)].kind = "eof"
          /\ Cardinality(Eofs(s)) = 2
    /\ s[1].kind \in {"handshake", "ok", "error", "header"}

WritesGood == \A i \in DOMAIN wire : GoodWrite(wire[i].packets)

LayoutInv == LayoutTyped /\ Filled /\ Laying /\ WritesGood

\* A good write is all that answers the last command.
LEMMA GoodOne ==
    ASSUME NEW s, NEW c, GoodWrite(s), wire' = <<Write(s, c)>>
    PROVE  WritesGood'
  <1>1. DOMAIN wire' = {1} /\ wire'[1].packets = s
    BY DEF Write
  <1>2. \A i \in DOMAIN wire' : GoodWrite(wire'[i].packets)
    BY <1>1
  <1> QED
    BY <1>2 DEF WritesGood, GoodWrite, Eofs

\* Writes stay good.
LEMMA WritesKept ==
    ASSUME WritesGood, wire' = wire
    PROVE  WritesGood'
  <1>1. \A i \in DOMAIN wire' : GoodWrite(wire'[i].packets)
    BY DEF WritesGood
  <1> QED
    BY <1>1 DEF WritesGood, GoodWrite, Eofs

\* A packet on its own is one.
LEMMA GoodSingle ==
    ASSUME NEW f, NEW c, f.kind \in {"handshake", "ok", "error"},
           f.len = f.bytes \/ \E m \in Messages :
              (m.chars > ErrMsgSize \/ m.bytes # m.chars) /\ f = Error(f.seq, m),
           wire' = <<Write(<<f>>, c)>>
    PROVE  WritesGood'
  <1>1. DOMAIN <<f>> = {1} /\ <<f>>[1] = f
    OBVIOUS
  <1>2. GoodWrite(<<f>>)
    BY <1>1 DEF GoodWrite
  <1> QED
    BY <1>2, GoodOne

\* Actions that lay nothing out: they may send, grow the buffer, and end.
LEMMA Quiet ==
    ASSUME LayoutInv, UNCHANGED layout, cap' \in Nat, cap' >= cap, WritesGood',
           \/ stage' = stage /\ (stage \in {"fields", "rows"} => wire' = wire)
           \/ stage' = "closed"
           \/ stage \in {"greet", "login"} /\ stage' \in {"login", "command"}
    PROVE  LayoutInv'
  <1> USE DEF LayoutInv
  <1>1. LayoutTyped'
    BY DEF LayoutTyped, layout
  <1>2. Filled'
    BY DEF LayoutTyped, Filled, layout, Sizes
  <1>3. Laying'
    BY DEF LayoutTyped, Laying, Underway, Upcoming, layout, Eofs
  <1> QED
    BY <1>1, <1>2, <1>3

\* The buffer never shrinks.
LEMMA GrownNat ==
    ASSUME cap \in Nat, NEW size \in Nat
    PROVE  Grown(size) \in Nat /\ Grown(size) >= cap /\ Grown(size) >= size
  BY DEF Grown

LEMMA PutFacts ==
    ASSUME LayoutTyped, NEW f \in Packets, Put(f)
    PROVE  /\ cap' \in Nat /\ p' <= cap' /\ p' = p + HeaderSize + f.bytes
           /\ out' = Append(out, f)
  <1>1. p + HeaderSize + f.len \in Nat /\ cap \in Nat
    BY DEF LayoutTyped, Packets, HeaderSize
  <1>2. Grown(p + HeaderSize + f.len) \in Nat
    BY <1>1, GrownNat
  <1> QED
    BY <1>2 DEF Put, Holds

\* A packet follows in the buffer.
LEMMA Laid ==
    ASSUME LayoutTyped, Filled, NEW f \in Packets, f.len = f.bytes,
           p' = p + HeaderSize + f.bytes, p' <= cap', cap' \in Nat,
           out' = Append(out, f)
    PROVE  /\ p' \in Nat /\ out' \in Seq(Packets) /\ Filled'
           /\ Len(out') = Len(out) + 1 /\ Len(out) \in Nat
           /\ DOMAIN out' = DOMAIN out \cup {Len(out) + 1} /\ DOMAIN out = 1..Len(out)
           /\ out'[Len(out) + 1] = f /\ \A i \in DOMAIN out : out'[i] = out[i]
  <1>1. /\ out' \in Seq(Packets)
        /\ Len(out') = Len(out) + 1 /\ Len(out) \in Nat
        /\ DOMAIN out' = DOMAIN out \cup {Len(out) + 1} /\ DOMAIN out = 1..Len(out)
        /\ out'[Len(out) + 1] = f /\ \A i \in DOMAIN out : out'[i] = out[i]
    BY DEF LayoutTyped
  <1>2. p' \in Nat /\ p' = p + (HeaderSize + f.len)
    BY DEF LayoutTyped, Packets, HeaderSize
  <1>3. SumOf(Sizes(Append(out, f))) = SumOf(Sizes(out)) + (HeaderSize + f.len)
    BY OneMore DEF LayoutTyped
  <1>4. p' = SumOf(Sizes(out'))
    BY <1>2, <1>3 DEF Filled
  <1>5. Filled'
    BY <1>1, <1>4 DEF Filled, Sizes
  <1> QED
    BY <1>1, <1>2, <1>5

\* The next packet of a result set keeps it numbered from its header.
LEMMA Continued ==
    ASSUME LayoutInv, stage \in {"fields", "rows"}, stage' \in {"fields", "rows"},
           NEW kind \in Kinds, NEW f, Sound(f, kind, Upcoming),
           p' = p + HeaderSize + f.bytes, p' <= cap', cap' \in Nat,
           out' = Append(out, f), wire' = wire,
           seq' \in Nat, last' \in Nat \cup {None}, Upcoming' = Upcoming + 1,
           stage' = "fields" => last' = None /\ stage = "fields" /\ kind # "eof",
           stage' = "rows" => (stage = "fields" <=> kind = "eof"),
           job' \in [names: Seq(Lengths), rows: Seq(Seq(Lengths))]
    PROVE  LayoutInv'
  <1> USE DEF LayoutInv
  <1>1. Underway
    BY DEF Laying
  <1>2. /\ f \in Packets /\ f.kind = kind /\ f.seq = Upcoming % Ids /\ f.len = f.bytes
        /\ Upcoming = Len(out) + 1
    BY <1>1 DEF Sound, Underway
  <1>3. /\ p' \in Nat /\ out' \in Seq(Packets) /\ Filled'
        /\ Len(out') = Len(out) + 1 /\ Len(out) \in Nat
        /\ DOMAIN out' = DOMAIN out \cup {Len(out) + 1} /\ DOMAIN out = 1..Len(out)
        /\ out'[Len(out) + 1] = f /\ \A i \in DOMAIN out : out'[i] = out[i]
    BY <1>2, Laid
  <1>4. LayoutTyped'
    BY <1>3 DEF LayoutTyped
  <1>5. 1 \in DOMAIN out
    BY <1>1, <1>3 DEF Underway, LayoutTyped
  <1>6. \A k \in DOMAIN out' : out'[k].seq = k % Ids
    BY <1>1, <1>2, <1>3 DEF Underway
  <1>7. Eofs(out') = IF kind = "eof" THEN Eofs(out) \cup {Len(out) + 1} ELSE Eofs(out)
    BY <1>2, <1>3 DEF Eofs
  <1>8. stage' = "fields" => last' = None /\ Eofs(out') = {}
    BY <1>1, <1>7 DEF Underway
  <1>9. stage' = "rows" => \E k \in DOMAIN out' : Eofs(out') = {k}
    BY <1>1, <1>3, <1>7 DEF Underway
  <1>10. Underway'
    <2>1. out' # <<>> /\ wire' = <<>> /\ out'[1].kind = "header"
      BY <1>1, <1>3, <1>5 DEF Underway
    <2>2. Upcoming' = Len(out') + 1
      BY <1>2, <1>3
    <2>3. Eofs(out)' = Eofs(out')
      BY DEF Eofs
    <2> QED
      BY <2>1, <2>2, <2>3, <1>6, <1>8, <1>9 DEF Underway
  <1> QED
    BY <1>3, <1>4, <1>10 DEF Laying, WritesGood

LEMMA StartResultLayout ==
    ASSUME LayoutInv, NEW r \in Results, StartResult(r)
    PROVE  LayoutInv'
  <1> USE DEF LayoutInv
  <1> DEFINE f == ResultHeader(1, Len(r.names))
  <1>1. r \in [names: Seq(Lengths), rows: Seq(Seq(Lengths))] /\ Len(r.names) \in Nat
    BY WireAssumption
  <1>2. Sound(f, "header", 1)
    BY <1>1, HeaderSound
  <1> HIDE DEF f
  <1>3. /\ stage = "command" /\ stage' = "fields" /\ wire' = <<>> /\ seq' = 2 /\ last' = None
        /\ job' = r /\ Put(f)
    BY DEF StartResult, f
  <1>4. out = <<>>
    BY <1>3 DEF Laying
  <1>5. /\ cap' \in Nat /\ p' <= cap' /\ p' = p + HeaderSize + f.bytes
        /\ out' = Append(out, f)
    BY <1>2, <1>3, PutFacts DEF Sound
  <1>6. /\ p' \in Nat /\ out' \in Seq(Packets) /\ Filled'
        /\ Len(out') = Len(out) + 1 /\ Len(out) \in Nat
        /\ DOMAIN out' = DOMAIN out \cup {Len(out) + 1} /\ DOMAIN out = 1..Len(out)
        /\ out'[Len(out) + 1] = f
    BY <1>2, <1>5, Laid DEF Sound
  <1>7. LayoutTyped'
    BY <1>1, <1>3, <1>5, <1>6 DEF LayoutTyped
  <1>8. Len(out) = 0 /\ DOMAIN out' = {1} /\ out'[1] = f
    BY <1>4, <1>6
  <1>9. Eofs(out') = {} /\ \A k \in DOMAIN out' : out'[k].seq = k % Ids
    BY <1>2, <1>8 DEF Eofs, Sound
  <1>10. Underway'
    <2>1. out' # <<>> /\ wire' = <<>> /\ out'[1].kind = "header"
      <3>1. Len(out') = 1 /\ out'[1].kind = "header"
        BY <1>2, <1>6, <1>8 DEF Sound
      <3> QED
        BY <1>3, <1>6, <3>1
    <2>2. Upcoming' = Len(out') + 1
      BY <1>3, <1>6, <1>8 DEF Upcoming
    <2>3. Eofs(out)' = Eofs(out')
      BY DEF Eofs
    <2> QED
      BY <1>3, <1>9, <2>1, <2>2, <2>3 DEF Underway
  <1> QED
    BY <1>3, <1>6, <1>7, <1>10 DEF Laying, WritesGood

LEMMA WriteFieldLayout ==
    ASSUME LayoutInv, WriteField
    PROVE  LayoutInv'
  <1> USE DEF LayoutInv
  <1> DEFINE f == Field(seq, Head(job.names))
  <1>1. /\ stage = "fields" /\ stage' = "fields" /\ wire' = wire /\ seq' = seq + 1
        /\ last' = last /\ job.names # <<>> /\ job' = [job EXCEPT !.names = Tail(@)]
        /\ Put(f)
    BY DEF WriteField
  <1>2. job.names \in Seq(Lengths) /\ job.rows \in Seq(Seq(Lengths))
    BY DEF LayoutTyped
  <1>3. Head(job.names) \in Nat /\ Tail(job.names) \in Seq(Lengths)
    BY <1>1, <1>2, LengthsNat
  <1>4. last = None /\ seq \in Nat /\ Upcoming = seq
    BY <1>1 DEF LayoutTyped, Laying, Underway, Upcoming
  <1>5. Sound(f, "field", Upcoming)
    BY <1>3, <1>4, FieldSound
  <1> HIDE DEF f
  <1>6. /\ cap' \in Nat /\ p' <= cap' /\ p' = p + HeaderSize + f.bytes
        /\ out' = Append(out, f)
    BY <1>1, <1>5, PutFacts DEF Sound
  <1>7. job' \in [names: Seq(Lengths), rows: Seq(Seq(Lengths))]
    BY <1>1, <1>2, <1>3 DEF LayoutTyped
  <1>8. Upcoming' = Upcoming + 1
    BY <1>1, <1>4 DEF Upcoming
  <1>9. /\ seq' \in Nat /\ last' = None
        /\ p' = p + HeaderSize + f.bytes /\ p' <= cap' /\ cap' \in Nat
    BY <1>1, <1>4, <1>6
  <1> QED
    BY <1>1, <1>4, <1>5, <1>6, <1>7, <1>8, <1>9, Continued DEF Kinds

LEMMA FieldsEndLayout ==
    ASSUME LayoutInv, FieldsEnd
    PROVE  LayoutInv'
  <1> USE DEF LayoutInv
  <1> DEFINE f == Eof(seq)
  <1>1. /\ stage = "fields" /\ stage' = "rows" /\ wire' = wire /\ seq' = seq + 1
        /\ last' = last /\ job' = job /\ Put(f)
    BY DEF FieldsEnd
  <1>2. last = None /\ seq \in Nat /\ Upcoming = seq
    BY <1>1 DEF LayoutTyped, Laying, Underway, Upcoming
  <1>3. Sound(f, "eof", Upcoming)
    BY <1>2, EofSound
  <1> HIDE DEF f
  <1>4. /\ cap' \in Nat /\ p' <= cap' /\ p' = p + HeaderSize + f.bytes
        /\ out' = Append(out, f)
    BY <1>1, <1>3, PutFacts DEF Sound
  <1>5. job' \in [names: Seq(Lengths), rows: Seq(Seq(Lengths))]
    BY <1>1 DEF LayoutTyped
  <1>6. Upcoming' = Upcoming + 1
    BY <1>1, <1>2 DEF Upcoming
  <1> QED
    BY <1>1, <1>2, <1>3, <1>4, <1>5, <1>6, Continued DEF Kinds

LEMMA WriteRowLayout ==
    ASSUME LayoutInv, WriteRow
    PROVE  LayoutInv'
  <1> USE DEF LayoutInv
  <1> DEFINE f == Row(Upcoming, Head(job.rows))
  <1>1. /\ stage = "rows" /\ stage' = "rows" /\ wire' = wire /\ cap' = cap
        /\ job.rows # <<>> /\ job' = [job EXCEPT !.rows = Tail(@)]
        /\ p' = p + HeaderSize + f.bytes /\ p' <= cap /\ out' = Append(out, f)
        /\ seq' = Upcoming /\ last' = Upcoming + 1
    BY DEF WriteRow, Upcoming
  <1>2. job.names \in Seq(Lengths) /\ job.rows \in Seq(Seq(Lengths))
    BY DEF LayoutTyped
  <1>3. Head(job.rows) \in Seq(Nat) /\ Tail(job.rows) \in Seq(Seq(Lengths))
    <2>1. Head(job.rows) \in Seq(Lengths) /\ Lengths \subseteq Nat
      BY <1>1, <1>2, LengthsNat
    <2> QED
      BY <1>1, <1>2, <2>1
  <1>4. Upcoming \in Nat
    BY DEF LayoutTyped, Upcoming
  <1>5. Sound(f, "row", Upcoming)
    BY <1>3, <1>4, RowSound
  <1> HIDE DEF f
  <1>6. job' \in [names: Seq(Lengths), rows: Seq(Seq(Lengths))]
    BY <1>1, <1>2, <1>3 DEF LayoutTyped
  <1>7. Upcoming' = Upcoming + 1
    BY <1>1, <1>4 DEF Upcoming, None
  <1>8. p' <= cap' /\ cap' \in Nat /\ seq' \in Nat /\ last' \in Nat \cup {None}
    BY <1>1, <1>4 DEF LayoutTyped
  <1> QED
    BY <1>1, <1>5, <1>6, <1>7, <1>8, Continued DEF Kinds

\* The last packet of a result set: two EOF packets, and everything is sent.
LEMMA RowsEndLayout ==
    ASSUME LayoutInv, RowsEnd
    PROVE  LayoutInv'
  <1> USE DEF LayoutInv
  <1> DEFINE f == Eof(Upcoming)
             all == Append(out, f)
  <1>1. /\ stage = "rows" /\ stage' = "command" /\ p' = 0 /\ out' = <<>>
        /\ wire' = Append(wire, Write(all, packed)) /\ cap' = Grown(p + HeaderSize + Eof(0).len)
        /\ UNCHANGED <<job, seq, last>>
    BY DEF RowsEnd, Upcoming
  <1>2. Underway /\ Upcoming \in Nat
    BY <1>1 DEF Laying, LayoutTyped, Upcoming
  <1>3. Sound(f, "eof", Upcoming)
    BY <1>2, EofSound
  <1> HIDE DEF f
  <1>4. wire' = <<Write(all, packed)>>
    BY <1>1, <1>2 DEF Underway
  <1>6. /\ Len(all) = Len(out) + 1 /\ Len(out) \in Nat /\ Len(out) >= 1
        /\ DOMAIN all = DOMAIN out \cup {Len(out) + 1} /\ DOMAIN out = 1..Len(out)
        /\ all[Len(out) + 1] = f /\ \A i \in DOMAIN out : all[i] = out[i]
    BY <1>2 DEF LayoutTyped, Underway
  <1> HIDE DEF all
  <1>7. \A k \in DOMAIN all : all[k].len = all[k].bytes /\ all[k].seq = k % Ids
    BY <1>2, <1>3, <1>6 DEF Filled, Underway, Sound
  <1>8. all[1].kind = "header" /\ all[Len(all)].kind = "eof"
    BY <1>2, <1>3, <1>6 DEF Underway, Sound
  <1>9. Cardinality(Eofs(all)) = 2
    <2>1. PICK k \in DOMAIN out : Eofs(out) = {k}
      BY <1>1, <1>2 DEF Underway
    <2>2. Eofs(all) = {k} \cup {Len(out) + 1} /\ Len(out) + 1 \notin {k}
      BY <2>1, <1>3, <1>6 DEF Eofs, Sound
    <2>3. IsFiniteSet({k}) /\ Cardinality({k}) = 1
      BY FS_Singleton
    <2>4. Cardinality({k} \cup {Len(out) + 1}) = 2
      BY <2>2, <2>3, FS_AddElement
    <2> QED
      BY <2>2, <2>4
  <1>10. GoodWrite(all)
    BY <1>7, <1>8, <1>9 DEF GoodWrite
  <1>11. WritesGood'
    BY <1>4, <1>10, GoodOne
  <1>12. cap' \in Nat
    BY <1>1, GrownNat, EofSound DEF LayoutTyped, Eof, Packet, HeaderSize
  <1>13. LayoutTyped'
    BY <1>1, <1>12 DEF LayoutTyped
  <1>14. Filled'
    <2>1. DOMAIN out' = {} /\ Len(Sizes(out')) = 0
      BY <1>1 DEF Sizes
    <2>2. SumOf(Sizes(out')) = 0
      BY <2>1, SumOfNothing
    <2> QED
      BY <1>1, <1>12, <2>1, <2>2 DEF Filled
  <1> QED
    BY <1>1, <1>11, <1>13, <1>14 DEF Laying

\* A packet that is sent on its own leaves the layout alone.
LEMMA SendFacts ==
    ASSUME LayoutTyped, NEW f \in Packets, NEW c, Send(f, c)
    PROVE  cap' \in Nat /\ cap' >= cap /\ wire' = <<Write(<<f>>, c)>>
  <1>1. HeaderSize + f.len \in Nat /\ cap \in Nat
    BY DEF LayoutTyped, Packets, HeaderSize
  <1>2. Grown(HeaderSize + f.len) \in Nat /\ Grown(HeaderSize + f.len) >= cap
    BY <1>1, GrownNat
  <1> QED
    BY <1>2 DEF Send

LEMMA ErrorSent ==
    ASSUME LayoutTyped, NEW id \in Nat, NEW m \in [chars: Nat, bytes: Nat], NEW c,
           (m.chars > ErrMsgSize \/ m.bytes # m.chars) => m \in Messages,
           Send(Error(id, m), c)
    PROVE  cap' \in Nat /\ cap' >= cap /\ WritesGood'
  <1> DEFINE f == Error(id, m)
  <1>1. /\ f \in Packets /\ f.kind = "error"
        /\ \/ f.len = f.bytes
           \/ (m.chars > ErrMsgSize \/ m.bytes # m.chars) /\ f = Error(f.seq, m)
    BY ErrorPackets
  <1>2. Send(f, c)
    OBVIOUS
  <1> HIDE DEF f
  <1>3. cap' \in Nat /\ cap' >= cap /\ wire' = <<Write(<<f>>, c)>>
    BY <1>1, <1>2, SendFacts
  <1>4. f.len = f.bytes \/ \E x \in Messages :
              (x.chars > ErrMsgSize \/ x.bytes # x.chars) /\ f = Error(f.seq, x)
    BY <1>1 DEF ErrMsgSize
  <1> QED
    BY <1>1, <1>3, <1>4, GoodSingle

LEMMA LayoutInit == Init => LayoutInv
  <1> SUFFICES ASSUME Init
               PROVE  LayoutInv
    OBVIOUS
  <1> USE DEF Init
  <1>1. LayoutTyped
    <2>1. Chunk \in Nat
      BY WireAssumption
    <2>2. job \in [names: Seq(Lengths), rows: Seq(Seq(Lengths))]
      OBVIOUS
    <2> QED
      BY <2>1, <2>2 DEF LayoutTyped
  <1>2. Filled
    <2>1. Len(Sizes(out)) = 0
      BY DEF Sizes
    <2>2. SumOf(Sizes(out)) = 0
      BY <2>1, SumOfNothing
    <2> QED
      BY <1>1, <2>2 DEF Filled, LayoutTyped
  <1>3. Laying /\ WritesGood
    BY DEF Laying, WritesGood
  <1> QED
    BY <1>1, <1>2, <1>3 DEF LayoutInv

LEMMA LayoutNext == LayoutInv /\ [Next]_vars => LayoutInv'
  <1> SUFFICES ASSUME LayoutInv, [Next]_vars
               PROVE  LayoutInv'
    OBVIOUS
  <1>0. LayoutTyped /\ cap \in Nat /\ cap >= cap
    BY DEF LayoutInv, LayoutTyped
  <1>K. UNCHANGED wire => WritesGood'
    BY WritesKept DEF LayoutInv
  <1>1. ASSUME NEW v10 \in BOOLEAN, Greet(v10)
        PROVE  LayoutInv'
    <2> DEFINE f == Handshake(v10)
    <2>1. Sound(f, "handshake", 0)
      BY HandshakeSound
    <2>2. Send(f, FALSE) /\ stage = "greet" /\ stage' = "login" /\ UNCHANGED layout
      BY <1>1 DEF Greet
    <2> HIDE DEF f
    <2>3. cap' \in Nat /\ cap' >= cap /\ wire' = <<Write(<<f>>, FALSE)>>
      BY <1>0, <2>1, <2>2, SendFacts DEF Sound
    <2>4. f.kind = "handshake" /\ f.len = f.bytes /\ \E c : wire' = <<Write(<<f>>, c)>>
      BY <2>1, <2>3 DEF Sound
    <2>5. WritesGood'
      BY <2>4, GoodSingle
    <2> QED
      BY <2>2, <2>3, <2>5, Quiet
  <1>2. CASE Ends
    <2>1. stage' = "closed" /\ UNCHANGED layout /\ UNCHANGED <<cap, wire>>
      BY <1>2 DEF Ends, Shut
    <2> QED
      BY <1>0, <1>K, <2>1, Quiet
  <1>3. ASSUME NEW l \in Logins, Login(l)
        PROVE  LayoutInv'
    <2>1. l.seq + 1 \in Nat
      BY WireAssumption
    <2> DEFINE f == Ok(l.seq + 1)
    <2>2. Sound(f, "ok", l.seq + 1)
      BY <2>1, OkSound
    <2>3. /\ stage = "login" /\ stage' = "command" /\ UNCHANGED layout /\ cap' = cap
          /\ \E c : wire' = <<Write(<<f>>, c)>>
      BY <1>3 DEF Login
    <2> HIDE DEF f
    <2>4. f.kind = "ok" /\ f.len = f.bytes
      BY <2>2 DEF Sound
    <2>5. WritesGood'
      BY <2>3, <2>4, GoodSingle
    <2> QED
      BY <1>0, <2>3, <2>5, Quiet
  <1>4. ASSUME NEW l \in Logins, NEW m \in Messages, LoginRefused(l, m)
        PROVE  LayoutInv'
    <2> DEFINE id == IF l.database /\ ~l.charset THEN 2 ELSE l.seq + 1
    <2>1. /\ id \in Nat /\ m \in [chars: Nat, bytes: Nat]
          /\ (m.chars > ErrMsgSize \/ m.bytes # m.chars) => m \in Messages
      BY WireAssumption
    <2>2. Send(Error(id, m), FALSE) /\ stage' = "closed" /\ UNCHANGED layout
      BY <1>4 DEF LoginRefused, Shut
    <2> HIDE DEF id
    <2>3. cap' \in Nat /\ cap' >= cap /\ WritesGood'
      BY <1>0, <2>1, <2>2, ErrorSent
    <2> QED
      BY <2>2, <2>3, Quiet
  <1>5. ASSUME NEW n \in Payloads, ClientSends(n)
        PROVE  LayoutInv'
    <2>1. UNCHANGED <<stage, cap, wire>> /\ UNCHANGED layout
      BY <1>5 DEF ClientSends
    <2> QED
      BY <1>0, <1>K, <2>1, Quiet
  <1>6. ASSUME NEW b \in Bundles, ClientSendsBundle(b)
        PROVE  LayoutInv'
    <2>1. UNCHANGED <<stage, cap, wire>> /\ UNCHANGED layout
      BY <1>6 DEF ClientSendsBundle
    <2> QED
      BY <1>0, <1>K, <2>1, Quiet
  <1>14. ASSUME NEW c \in Straddlers, ClientStraddles(c)
         PROVE  LayoutInv'
    <2>1. UNCHANGED <<stage, cap, wire>> /\ UNCHANGED layout
      BY <1>14 DEF ClientStraddles
    <2> QED
      BY <1>0, <1>K, <2>1, Quiet
  <1>7. CASE ReadFrame
    <2>1. UNCHANGED <<stage, cap, wire>> /\ UNCHANGED layout
      BY <1>7 DEF ReadFrame
    <2> QED
      BY <1>0, <1>K, <2>1, Quiet
  <1>8. CASE TooLarge
    <2> DEFINE m == [chars |-> 51, bytes |-> 51]
    <2>1. Send(Error(2, m), packed) /\ stage' = "closed" /\ UNCHANGED layout
      BY <1>8 DEF TooLarge, Shut
    <2>2. m \in [chars: Nat, bytes: Nat] /\ ~(m.chars > ErrMsgSize \/ m.bytes # m.chars)
      BY DEF ErrMsgSize
    <2> HIDE DEF m
    <2>3. cap' \in Nat /\ cap' >= cap /\ WritesGood'
      BY <1>0, <2>1, <2>2, ErrorSent
    <2> QED
      BY <2>1, <2>3, Quiet
  <1>9. CASE Ping
    <2>1. /\ stage = "command" /\ stage' = stage /\ UNCHANGED layout /\ cap' = cap
          /\ wire' = <<Write(<<Ok(1)>>, packed)>>
      BY <1>9 DEF Ping
    <2>2. Sound(Ok(1), "ok", 1)
      BY OkSound
    <2>3. WritesGood'
      BY <2>1, <2>2, GoodSingle DEF Sound
    <2> QED
      BY <1>0, <2>1, <2>3, Quiet
  <1>10. ASSUME NEW m \in Messages, Refuse(m)
         PROVE  LayoutInv'
    <2>1. stage = "command" /\ stage' = stage /\ Send(Error(1, m), packed) /\ UNCHANGED layout
      BY <1>10 DEF Refuse
    <2>2. /\ m \in [chars: Nat, bytes: Nat]
          /\ (m.chars > ErrMsgSize \/ m.bytes # m.chars) => m \in Messages
      BY WireAssumption
    <2>3. cap' \in Nat /\ cap' >= cap /\ WritesGood'
      BY <1>0, <2>1, <2>2, ErrorSent
    <2> QED
      BY <2>1, <2>3, Quiet
  <1>11. CASE ResultFails
    <2>1. stage' = "closed" /\ UNCHANGED layout /\ UNCHANGED <<cap, wire>>
      BY <1>11 DEF ResultFails, Shut
    <2> QED
      BY <1>0, <1>K, <2>1, Quiet
  <1>12. CASE UNCHANGED vars
    <2>1. UNCHANGED <<stage, cap, wire>> /\ UNCHANGED layout
      BY <1>12 DEF vars
    <2> QED
      BY <1>0, <1>K, <2>1, Quiet
  <1> QED
    BY <1>1, <1>2, <1>3, <1>4, <1>5, <1>6, <1>7, <1>8, <1>9, <1>10, <1>11, <1>12, <1>14,
       StartResultLayout, WriteFieldLayout, FieldsEndLayout, WriteRowLayout, RowsEndLayout
       DEF Next

LEMMA LayoutAlways == Spec => []LayoutInv
  <1> QED
    BY LayoutInit, LayoutNext, PTL DEF Spec

-----------------------------------------------------------------------------
\* The write buffer holds whole packets, and what is declared is what is
\* written, in a buffer of any size and however it had to grow.
THEOREM PacketsAreWhole == Spec => []PacketsTile
  <1>1. LayoutInv => PacketsTile
    BY DEF LayoutInv, Filled, Sizes, WritesGood, GoodWrite, PacketsTile
  <1> QED
    BY <1>1, LayoutAlways, PTL

\* The packets of every result set are numbered from 1 without a gap, past the
\* largest id, for any number of fields and rows.
THEOREM NumbersFollow == Spec => []ResultsNumbered
  <1>1. LayoutInv => ResultsNumbered
    BY DEF LayoutInv, WritesGood, GoodWrite, ResultsNumbered
  <1> QED
    BY <1>1, LayoutAlways, PTL

\* A client gets a result set with both its EOF packets or nothing of it.
THEOREM NoHalfResults == Spec => []ResultsWhole
  <1>1. LayoutInv => ResultsWhole
    BY DEF LayoutInv, WritesGood, GoodWrite, Eofs, ResultsWhole
  <1> QED
    BY <1>1, LayoutAlways, PTL

\* Every length of a result set is read back as it was written, in the bytes
\* that were counted for it.
THEOREM LengthsSurvive == Spec => []LengthsReadBack
  <1>1. LayoutInv => LengthsReadBack
    <2> SUFFICES ASSUME LayoutInv,
                        NEW n \in ToSet(job.names) \cup UNION {ToSet(job.rows[i]) : i \in DOMAIN job.rows}
                 PROVE  Decode(Encode(n)) = n /\ Len(Encode(n)) = EncodedLength(n)
      BY DEF LengthsReadBack
    <2>1. job.names \in Seq(Lengths) /\ job.rows \in Seq(Seq(Lengths))
      BY DEF LayoutInv, LayoutTyped
    <2>2. \A s \in Seq(Lengths) : ToSet(s) \subseteq Lengths
      BY DEF ToSet
    <2>3. \A i \in DOMAIN job.rows : job.rows[i] \in Seq(Lengths)
      BY <2>1
    <2>4. n \in Lengths
      BY <2>1, <2>2, <2>3
    <2>5. n \in Nat
      BY <2>4, LengthsNat
    <2> QED
      BY <2>4, <2>5, DecodeEncode, EncodeCounts
  <1> QED
    BY <1>1, LayoutAlways, PTL

-----------------------------------------------------------------------------
\* The pieces of a frame, joined.

LEMMA JoinsDefined ==
    ASSUME NEW acc, NEW frame, Len(Inner(frame)) \in Nat
    PROVE  \A i \in 0..Len(Inner(frame)) :
              Joins(acc, frame)[i] =
                  IF i = 0 THEN acc
                  ELSE Join(Joins(acc, frame)[i - 1], Declared(frame, i), Inner(frame)[i])
  <1> DEFINE n == Len(Inner(frame))
             Step(g, i) == Join(g, Declared(frame, i), Inner(frame)[i])
             Unrolled(g) == [i \in 0..n |-> IF i = 0 THEN acc ELSE Step(g[i - 1], i)]
             Right(g, k) == \A i \in 0..n : i <= k => g[i] = Unrolled(g)[i]
             Reached == {k \in Nat : \E g : Right(g, k)}
  <1>1. Joins(acc, frame) = CHOOSE g : g = Unrolled(g)
    BY DEF Joins
  <1>2. n \in Nat
    OBVIOUS
  <1> HIDE DEF n, Step
  <1>3. 0 \in Reached
    <2> DEFINE zero == [i \in 0..n |-> acc]
    <2>1. Right(zero, 0)
      OBVIOUS
    <2> QED
      BY <2>1
  <1>4. ASSUME NEW k \in Nat, k \in Reached
        PROVE  k + 1 \in Reached
    <2>1. PICK g : Right(g, k)
      BY <1>4
    <2> DEFINE u == Unrolled(g)
    <2>2. ASSUME NEW i \in 0..n, i <= k + 1
          PROVE  u[i] = Unrolled(u)[i]
      <3>1. CASE i = 0
        BY <3>1
      <3>2. CASE i # 0
        <4>1. i - 1 \in 0..n /\ i - 1 <= k
          BY <1>2, <2>2, <3>2
        <4>2. g[i - 1] = u[i - 1]
          BY <2>1, <4>1
        <4>3. u[i] = Step(g[i - 1], i) /\ Unrolled(u)[i] = Step(u[i - 1], i)
          BY <3>2
        <4> QED
          BY <4>2, <4>3
      <3> QED
        BY <3>1, <3>2
    <2>3. Right(u, k + 1)
      BY <2>2
    <2> HIDE DEF u, Unrolled
    <2> QED
      BY <2>3
  <1> HIDE DEF Reached
  <1>5. n \in Reached
    BY <1>2, <1>3, <1>4, NatsIn
  <1>6. PICK g : Right(g, n)
    BY <1>5 DEF Reached
  <1>7. Unrolled(g) = Unrolled(Unrolled(g))
    BY <1>2, <1>6
  <1>8. Joins(acc, frame) = Unrolled(Joins(acc, frame))
    BY <1>1, <1>7
  <1> HIDE DEF Unrolled
  <1>9. \A i \in 0..n : Joins(acc, frame)[i] = Unrolled(Joins(acc, frame))[i]
    BY <1>8
  <1> QED
    BY <1>9 DEF Unrolled, Step, n

LEMMA JoinsStep ==
    ASSUME NEW acc, NEW frame, Len(Inner(frame)) \in Nat,
           NEW k \in Nat, k + 1 <= Len(Inner(frame))
    PROVE  Joins(acc, frame)[k + 1] =
              Join(Joins(acc, frame)[k], Declared(frame, k + 1), Inner(frame)[k + 1])
  <1>1. k + 1 \in 0..Len(Inner(frame)) /\ k + 1 # 0 /\ (k + 1) - 1 = k
    OBVIOUS
  <1> QED
    BY <1>1, JoinsDefined

\* What a loop has gathered.
Gathered == [done: Seq(Nat), rest: Nat \cup {None}, total: Int]

\* The length of a command with its next piece.
With(acc, n) == n + IF acc.rest = None THEN 0 ELSE acc.rest

\* The piece was kept, or it ended the command.
Taken(acc, new, d, sum) ==
    /\ new \in Gathered /\ new.total = acc.total /\ sum \in Nat
    /\ Len(acc.done) \in Nat /\ Len(new.done) \in Nat
    /\ Len(new.done) >= Len(acc.done)
    /\ \A i \in 1..Len(acc.done) : new.done[i] = acc.done[i]
    /\ d = Full => new.done = acc.done /\ new.rest = sum
    /\ d # Full => /\ Len(new.done) = Len(acc.done) + 1 /\ new.rest = None
                   /\ new.done[Len(acc.done) + 1] = sum

LEMMA JoinFacts ==
    ASSUME NEW acc \in Gathered, NEW d, NEW n \in Nat
    PROVE  Taken(acc, Join(acc, d, n), d, With(acc, n))
  <1> DEFINE sum == With(acc, n)
             new == Join(acc, d, n)
  <1>1. /\ acc.done \in Seq(Nat) /\ acc.rest \in Nat \cup {None} /\ acc.total \in Int
        /\ Len(acc.done) \in Nat
    BY DEF Gathered
  <1>2. sum \in Nat
    BY <1>1 DEF None, With
  <1>3. new = IF d = Full
              THEN [done |-> acc.done, rest |-> sum, total |-> acc.total]
              ELSE [done |-> Append(acc.done, sum), rest |-> None, total |-> acc.total]
    BY DEF Join, With
  <1> SUFFICES Taken(acc, new, d, sum)
    OBVIOUS
  <1> HIDE DEF sum, new
  <1>4. CASE d = Full
    BY <1>1, <1>2, <1>3, <1>4 DEF Gathered, Taken
  <1>5. CASE d # Full
    <2> DEFINE more == Append(acc.done, sum)
    <2>1. /\ more \in Seq(Nat) /\ Len(more) = Len(acc.done) + 1
          /\ more[Len(acc.done) + 1] = sum
          /\ \A i \in 1..Len(acc.done) : more[i] = acc.done[i]
      BY <1>1, <1>2
    <2>2. new.done = more /\ new.rest = None /\ new.total = acc.total
          /\ new = [done |-> more, rest |-> None, total |-> acc.total]
      BY <1>3, <1>5
    <2> HIDE DEF more
    <2> QED
      BY <1>1, <1>2, <1>5, <2>1, <2>2 DEF Gathered, Taken
  <1> QED
    BY <1>4, <1>5

LEMMA JoinsTyped ==
    ASSUME NEW acc \in Gathered, NEW frame,
           Len(Inner(frame)) \in Nat, \A i \in 1..Len(Inner(frame)) : Inner(frame)[i] \in Nat
    PROVE  \A k \in 0..Len(Inner(frame)) : Joins(acc, frame)[k] \in Gathered
  <1> DEFINE s == Inner(frame)
             J(k) == Joins(acc, frame)[k]
             Good == {k \in Nat : k <= Len(s) => J(k) \in Gathered}
  <1>1. 0 \in Good
    BY JoinsDefined
  <1>2. ASSUME NEW k \in Nat, k \in Good
        PROVE  k + 1 \in Good
    <2> SUFFICES ASSUME k + 1 <= Len(s)
                 PROVE  J(k + 1) \in Gathered
      OBVIOUS
    <2>1. J(k + 1) = Join(J(k), Declared(frame, k + 1), s[k + 1])
      BY JoinsStep
    <2>2. J(k) \in Gathered /\ s[k + 1] \in Nat
      BY <1>2
    <2> HIDE DEF J, s, Good
    <2>3. Join(J(k), Declared(frame, k + 1), s[k + 1]) \in Gathered
      BY <2>2, JoinFacts DEF Taken
    <2> QED
      BY <2>1, <2>3
  <1> HIDE DEF Good
  <1>3. Nat \subseteq Good
    BY <1>1, <1>2, NatsIn
  <1> QED
    BY <1>3 DEF Good

-----------------------------------------------------------------------------
\* The commands that have been read.

Commands == [len: Nat, apart: BOOLEAN]

\* Compressed frames.
Wraps == [deflated: BOOLEAN, pieces: Seq(Piece) \ {<<>>}]

RequestTyped ==
    /\ packed \in BOOLEAN
    /\ sent \in Seq(Commands) /\ taken \in Seq(Nat)
    /\ gathered \in Gathered
    /\ inbound \in IF packed THEN Seq(Wraps) ELSE Seq(Nat)

\* All the commands up to x can be told from their next.
Apart(x) == \A y \in 1..x : sent[y].apart

\* Of the first r commands, those before any that cannot be told from its next
\* are complete, in order, and no larger than allowed; and there is nothing else
\* when all can.
Arrived(r, acc) ==
    /\ \A x \in 1..r : Apart(x) =>
          /\ sent[x].len <= Allowed
          /\ x <= Len(taken) + Len(acc.done)
          /\ x <= Len(taken) => taken[x] = sent[x].len
          /\ x > Len(taken) => acc.done[x - Len(taken)] = sent[x].len
    /\ Apart(r) => Len(taken) + Len(acc.done) = r /\ acc.rest = None

\* One more piece, which is the next command.
LEMMA ArrivedStep ==
    ASSUME packed, RequestTyped, NEW r \in Nat, r + 1 <= Len(sent),
           NEW acc \in Gathered, Arrived(r, acc), NEW n \in Nat, sent[r + 1].len = n,
           sent[r + 1].apart => n # BigInner, Apart(r + 1) => n <= Allowed
    PROVE  Arrived(r + 1, Join(acc, n, n))
  <1> DEFINE new == Join(acc, n, n)
             sum == With(acc, n)
  <1>1. Taken(acc, new, n, sum)
    BY JoinFacts
  <1>2. sum = n + IF acc.rest = None THEN 0 ELSE acc.rest
    BY DEF With
  <1> HIDE DEF new, sum
  <1>3. Full = BigInner /\ Len(taken) \in Nat /\ Len(acc.done) \in Nat
    BY <1>1 DEF Full, RequestTyped, Taken
  <1>4. ASSUME Apart(r + 1)
        PROVE  /\ Len(taken) + Len(acc.done) = r /\ new.rest = None
               /\ Len(new.done) = Len(acc.done) + 1 /\ new.done[Len(acc.done) + 1] = n
    <2>1. Apart(r) /\ sent[r + 1].apart
      BY <1>4 DEF Apart
    <2>2. Len(taken) + Len(acc.done) = r /\ acc.rest = None
      BY <2>1 DEF Arrived
    <2>3. n # Full /\ sum = n
      BY <1>2, <1>3, <2>1, <2>2
    <2> QED
      BY <1>1, <2>2, <2>3 DEF Taken
  <1>5. ASSUME NEW x \in 1..(r + 1), Apart(x)
        PROVE  /\ sent[x].len <= Allowed
               /\ x <= Len(taken) + Len(new.done)
               /\ x <= Len(taken) => taken[x] = sent[x].len
               /\ x > Len(taken) => new.done[x - Len(taken)] = sent[x].len
    <2>1. CASE x = r + 1
      <3>1. x = Len(taken) + Len(acc.done) + 1 /\ x - Len(taken) = Len(acc.done) + 1
        BY <1>3, <1>4, <1>5, <2>1
      <3>2. /\ Len(new.done) = Len(acc.done) + 1
            /\ new.done[x - Len(taken)] = sent[x].len
        BY <1>4, <1>5, <2>1, <3>1
      <3>3. sent[x].len <= Allowed
        BY <1>5, <2>1
      <3> QED
        BY <1>3, <3>1, <3>2, <3>3
    <2>2. CASE x # r + 1
      <3>1. /\ x <= Len(taken) + Len(acc.done) /\ sent[x].len <= Allowed
            /\ x <= Len(taken) => taken[x] = sent[x].len
            /\ x > Len(taken) => acc.done[x - Len(taken)] = sent[x].len
        BY <1>5, <2>2 DEF Arrived
      <3>2. Len(new.done) >= Len(acc.done) /\ Len(new.done) \in Nat
        BY <1>1 DEF Taken
      <3>3. ASSUME x > Len(taken)
            PROVE  new.done[x - Len(taken)] = acc.done[x - Len(taken)]
        <4>1. x - Len(taken) \in 1..Len(acc.done)
          BY <1>3, <3>1, <3>3
        <4> QED
          BY <1>1, <4>1 DEF Taken
      <3> QED
        BY <1>3, <3>1, <3>2, <3>3
    <2> QED
      BY <2>1, <2>2
  <1>6. Arrived(r + 1, new)
    <2>1. ASSUME Apart(r + 1)
          PROVE  Len(taken) + Len(new.done) = r + 1 /\ new.rest = None
      <3>1. Len(taken) + Len(acc.done) = r /\ Len(new.done) = Len(acc.done) + 1 /\ new.rest = None
        BY <1>4, <2>1
      <3> QED
        BY <1>3, <3>1
    <2> QED
      BY <1>5, <2>1 DEF Arrived
  <1> QED
    BY <1>6 DEF new

\* Whatever comes after a command that cannot be told from its next.
LEMMA ArrivedSkip ==
    ASSUME RequestTyped, NEW r \in Nat, NEW t \in Nat, t >= r,
           NEW y \in 1..t, y <= r + 1, ~sent[y].apart,
           NEW acc \in Gathered, Arrived(r, acc), NEW n \in Nat, NEW d
    PROVE  Arrived(t, Join(acc, d, n))
  <1> DEFINE new == Join(acc, d, n)
  <1>1. Taken(acc, new, d, With(acc, n))
    BY JoinFacts
  <1> HIDE DEF new
  <1>2. Len(taken) \in Nat /\ Len(acc.done) \in Nat /\ Len(new.done) \in Nat
    BY <1>1 DEF RequestTyped, Taken
  <1>3. \A x \in Nat : x >= y => ~Apart(x)
    BY DEF Apart
  <1>4. ASSUME NEW x \in 1..t, Apart(x)
        PROVE  /\ sent[x].len <= Allowed
               /\ x <= Len(taken) + Len(new.done)
               /\ x <= Len(taken) => taken[x] = sent[x].len
               /\ x > Len(taken) => new.done[x - Len(taken)] = sent[x].len
    <2>1. x \in 1..r
      BY <1>3, <1>4
    <2>2. /\ x <= Len(taken) + Len(acc.done) /\ sent[x].len <= Allowed
          /\ x <= Len(taken) => taken[x] = sent[x].len
          /\ x > Len(taken) => acc.done[x - Len(taken)] = sent[x].len
      BY <1>4, <2>1 DEF Arrived
    <2>3. Len(new.done) >= Len(acc.done)
      BY <1>1 DEF Taken
    <2>4. ASSUME x > Len(taken)
          PROVE  new.done[x - Len(taken)] = acc.done[x - Len(taken)]
      <3>1. x - Len(taken) \in 1..Len(acc.done)
        BY <1>2, <2>2, <2>4
      <3> QED
        BY <1>1, <3>1 DEF Taken
    <2> QED
      BY <1>2, <2>2, <2>3, <2>4
  <1>5. Arrived(t, new)
    BY <1>3, <1>4 DEF Arrived
  <1> QED
    BY <1>5 DEF new

-----------------------------------------------------------------------------
\* Compressed frames.

\* No number is larger than the sum.
LEMMA SumBounds ==
    ASSUME NEW s, Len(s) \in Nat, Len(s) >= 1, \A i \in 1..Len(s) : s[i] \in Nat
    PROVE  /\ SumOf(s) \in Nat /\ \A i \in 1..Len(s) : s[i] <= SumOf(s)
           /\ Len(s) = 1 => SumOf(s) = s[1]
  <1> DEFINE Good == {k \in Nat : k <= Len(s) => \A i \in 1..k : s[i] <= Sums(s)[k]}
  <1>0. \A k \in 0..Len(s) : Sums(s)[k] \in Nat
    BY SumsNat
  <1>1. 0 \in Good
    OBVIOUS
  <1>2. ASSUME NEW k \in Nat, k \in Good
        PROVE  k + 1 \in Good
    <2> SUFFICES ASSUME k + 1 <= Len(s), NEW i \in 1..(k + 1)
                 PROVE  s[i] <= Sums(s)[k + 1]
      OBVIOUS
    <2>1. Sums(s)[k + 1] = Sums(s)[k] + s[k + 1]
      BY SumsStep
    <2>2. Sums(s)[k] \in Nat /\ s[k + 1] \in Nat /\ s[i] \in Nat
      BY <1>0
    <2>3. i \in 1..k => s[i] <= Sums(s)[k]
      BY <1>2
    <2>4. i \in 1..k \/ i = k + 1
      OBVIOUS
    <2> HIDE DEF Good
    <2> QED
      BY <2>1, <2>2, <2>3, <2>4
  <1> HIDE DEF Good
  <1>3. Nat \subseteq Good
    BY <1>1, <1>2, NatsIn
  <1>4. Len(s) = 1 => Sums(s)[1] = s[1]
    <2> SUFFICES ASSUME Len(s) = 1
                 PROVE  Sums(s)[1] = s[1]
      OBVIOUS
    <2>1. Sums(s)[0 + 1] = Sums(s)[0] + s[0 + 1] /\ Sums(s)[0] = 0 /\ 0 + 1 = 1
      BY SumsStep, SumsDefined
    <2>2. s[1] \in Nat
      OBVIOUS
    <2> QED
      BY <2>1, <2>2
  <1> QED
    BY <1>0, <1>3, <1>4 DEF Good, SumOf

\* What is counted of a frame is a number, and its pieces have lengths.
LEMMA FrameLoads ==
    ASSUME packed, NEW f \in Wraps
    PROVE  /\ Load(f) \in Int /\ Wrapped(f) \in Nat
           /\ Len(Inner(f)) \in Nat /\ Len(Inner(f)) >= 1
           /\ \A i \in 1..Len(Inner(f)) : Inner(f)[i] \in Nat
  <1> DEFINE s == f.pieces
             t == [i \in DOMAIN f.pieces |-> f.pieces[i].size]
             u == [i \in DOMAIN f.pieces |-> Payload(f.pieces[i].size)]
  <1>1. s \in Seq(Piece) /\ s # <<>> /\ f.deflated \in BOOLEAN
    BY DEF Wraps
  <1>2. Len(s) \in Nat /\ Len(s) >= 1 /\ DOMAIN s = 1..Len(s)
        /\ \A i \in 1..Len(s) : s[i].size \in Nat
    <2>1. \A x \in Piece : x.size \in Nat
      BY DEF Piece
    <2> HIDE DEF s
    <2> QED
      BY <1>1, <2>1
  <1>3. /\ Len(t) = Len(s) /\ \A i \in 1..Len(s) : t[i] \in Nat
        /\ Len(u) = Len(s) /\ \A i \in 1..Len(s) : u[i] = Payload(s[i].size)
    BY <1>2
  <1>4. \A n \in Nat : Payload(n) \in Nat
    BY DEF Payload, HeaderSize
  <1>5. Wrapped(f) = SumOf(t)
    BY DEF Wrapped
  <1>6. Inner(f) = IF f.deflated THEN u ELSE <<Payload(Wrapped(f))>>
    BY DEF Inner
  <1>7. Load(f) = Wrapped(f) - IF f.deflated THEN HeaderSize ELSE 0
    BY DEF Load
  <1> HIDE DEF t, u, s
  <1>8. Wrapped(f) \in Nat
    BY <1>2, <1>3, <1>5, SumBounds
  <1>9. Load(f) \in Int
    BY <1>7, <1>8 DEF HeaderSize
  <1>10. CASE f.deflated
    BY <1>2, <1>3, <1>4, <1>6, <1>8, <1>9, <1>10
  <1>11. CASE ~f.deflated
    <2> DEFINE w == Payload(Wrapped(f))
    <2>1. w \in Nat /\ Inner(f) = <<w>>
      BY <1>4, <1>6, <1>8, <1>11
    <2> HIDE DEF w
    <2> QED
      BY <1>8, <1>9, <2>1
  <1> QED
    BY <1>10, <1>11

\* The pieces of a frame with whole packets are these packets, if it is
\* deflated or has only one.
LEMMA BundleLoads ==
    ASSUME packed, NEW b \in Bundles
    PROVE  /\ b.packets \in Seq(Nat) /\ Len(b.packets) \in Nat /\ Len(b.packets) >= 1
           /\ DOMAIN b.packets = 1..Len(b.packets)
           /\ Frame(b) \in Wraps
           /\ \A i \in 1..Len(b.packets) : Declared(Frame(b), i) = b.packets[i]
           /\ b.deflated \/ Len(b.packets) = 1 =>
                 /\ Len(Inner(Frame(b))) = Len(b.packets)
                 /\ \A i \in 1..Len(b.packets) :
                       Inner(Frame(b))[i] = b.packets[i] /\ b.packets[i] <= Load(Frame(b))
  <1> DEFINE s == b.packets
             f == Frame(b)
             q == [i \in DOMAIN b.packets |-> Whole(b.packets[i])]
             t == [i \in DOMAIN f.pieces |-> f.pieces[i].size]
  <1>1. s \in Seq(Nat) /\ s # <<>> /\ b.deflated \in BOOLEAN
    BY WireAssumption
  <1>2. Len(s) \in Nat /\ Len(s) >= 1 /\ DOMAIN s = 1..Len(s) /\ \A i \in 1..Len(s) : s[i] \in Nat
    BY <1>1
  <1>3. f.deflated = b.deflated /\ f.pieces = q /\ f = [deflated |-> b.deflated, pieces |-> q]
    BY DEF Frame
  <1>4. /\ \A n \in Nat : /\ Whole(n) \in Piece /\ Whole(n).len = n /\ Whole(n).size = n + 4
                          /\ Payload(n + 4) = n
    BY DEF Whole, Piece, Payload, HeaderSize
  <1>5. q \in Seq(Piece) /\ Len(q) = Len(s) /\ DOMAIN q = 1..Len(s) /\ q # <<>>
        /\ \A i \in 1..Len(s) : q[i] = Whole(s[i])
    <2>1. \A i \in 1..Len(s) : Whole(s[i]) \in Piece
      BY <1>2, <1>4
    <2>2. q = [i \in 1..Len(s) |-> Whole(s[i])]
      BY <1>2
    <2> HIDE DEF q, s
    <2> QED
      BY <1>2, <2>1, <2>2
  <1>6. f \in Wraps
    BY <1>1, <1>3, <1>5 DEF Wraps
  <1>7. \A i \in 1..Len(s) : Declared(f, i) = s[i]
    BY <1>2, <1>3, <1>4, <1>5 DEF Declared
  <1>8. Len(t) = Len(s) /\ \A i \in 1..Len(s) : t[i] = s[i] + 4 /\ t[i] \in Nat
    <2>1. t = [i \in 1..Len(s) |-> q[i].size]
      BY <1>3, <1>5
    <2>2. \A i \in 1..Len(s) : q[i].size = s[i] + 4
      BY <1>2, <1>4, <1>5
    <2> HIDE DEF t, q, s
    <2> QED
      BY SMTT(30), <1>2, <2>1, <2>2
  <1>9. Wrapped(f) = SumOf(t)
    BY DEF Wrapped
  <1>10. /\ f.deflated => Load(f) = Wrapped(f) - 4
                          /\ Inner(f) = [i \in DOMAIN q |-> Payload(q[i].size)]
         /\ ~f.deflated => Load(f) = Wrapped(f) - 0 /\ Inner(f) = <<Payload(Wrapped(f))>>
    BY <1>3 DEF Load, Inner, HeaderSize
  <1> HIDE DEF f, s, t, q
  <1>11. /\ Wrapped(f) \in Nat /\ \A i \in 1..Len(s) : s[i] + 4 <= Wrapped(f)
         /\ Len(s) = 1 => Wrapped(f) = s[1] + 4
    <2>1. /\ SumOf(t) \in Nat /\ \A i \in 1..Len(t) : t[i] <= SumOf(t)
          /\ Len(t) = 1 => SumOf(t) = t[1]
      BY <1>2, <1>8, SumBounds
    <2> QED
      BY <1>2, <1>8, <1>9, <2>1
  <1>12. CASE b.deflated
    <2>1. /\ Len(Inner(f)) = Len(s)
          /\ \A i \in 1..Len(s) : Inner(f)[i] = s[i]
      <3>1. Inner(f) = [i \in 1..Len(s) |-> Payload(q[i].size)]
        BY <1>3, <1>5, <1>10, <1>12
      <3>2. \A i \in 1..Len(s) : Payload(q[i].size) = s[i]
        BY <1>2, <1>4, <1>5
      <3> QED
        BY <1>2, <3>1, <3>2
    <2>2. \A i \in 1..Len(s) : s[i] <= Load(f)
      <3>1. Load(f) = Wrapped(f) - 4
        BY <1>3, <1>10, <1>12
      <3> QED
        BY <1>2, <1>11, <3>1
    <2> QED
      BY <1>1, <1>2, <1>6, <1>7, <2>1, <2>2 DEF s, f
  <1>13. CASE ~b.deflated
    <2>1. ASSUME Len(s) = 1
          PROVE  /\ Len(Inner(f)) = Len(s)
                 /\ \A i \in 1..Len(s) : Inner(f)[i] = s[i] /\ s[i] <= Load(f)
      <3>1. Inner(f) = <<s[1]>> /\ Load(f) = s[1] + 4 /\ s[1] \in Nat
        BY <1>2, <1>3, <1>4, <1>10, <1>11, <1>13, <2>1
      <3> QED
        BY <2>1, <3>1
    <2> QED
      BY <1>1, <1>2, <1>6, <1>7, <1>13, <2>1 DEF s, f
  <1> QED
    BY <1>1, <1>12, <1>13

\* A frame that comes with or after a command that cannot be told from its
\* next.
LEMMA FrameSkipped ==
    ASSUME packed, RequestTyped, NEW f \in Wraps, NEW r \in Nat, NEW t \in Nat, t >= r,
           NEW y \in 1..t, y <= r + 1, ~sent[y].apart,
           NEW acc \in Gathered, Arrived(r, acc)
    PROVE  Arrived(t, Joins(acc, f)[Len(Inner(f))])
  <1> DEFINE all == Inner(f)
             J(k) == Joins(acc, f)[k]
             Good == {k \in Nat : k <= Len(all) /\ k >= 1 => Arrived(t, J(k))}
  <1>1. Len(all) \in Nat /\ Len(all) >= 1 /\ \A i \in 1..Len(all) : all[i] \in Nat
    BY FrameLoads
  <1>2. \A k \in 0..Len(all) : J(k) \in Gathered
    BY <1>1, JoinsTyped
  <1>3. J(0) = acc
    BY <1>1, JoinsDefined
  <1>4. \A k \in Nat : k + 1 <= Len(all) => J(k + 1) = Join(J(k), Declared(f, k + 1), all[k + 1])
    BY <1>1, JoinsStep
  <1> HIDE DEF all, J
  <1>5. 0 \in Good
    OBVIOUS
  <1>6. ASSUME NEW k \in Nat, k \in Good
        PROVE  k + 1 \in Good
    <2> SUFFICES ASSUME k + 1 <= Len(all)
                 PROVE  Arrived(t, J(k + 1))
      OBVIOUS
    <2>1. J(k + 1) = Join(J(k), Declared(f, k + 1), all[k + 1]) /\ all[k + 1] \in Nat
          /\ J(k) \in Gathered
      BY <1>1, <1>2, <1>4
    <2>2. CASE k = 0
      BY <1>3, <2>1, <2>2, ArrivedSkip
    <2>3. CASE k # 0
      <3>1. Arrived(t, J(k)) /\ y <= t + 1
        BY <1>6, <2>3
      <3> QED
        BY <2>1, <3>1, ArrivedSkip
    <2> QED
      BY <2>2, <2>3
  <1> HIDE DEF Good
  <1>7. Nat \subseteq Good
    BY <1>5, <1>6, NatsIn
  <1> QED
    BY <1>1, <1>7 DEF Good, all, J

LEMMA FrameArrives ==
    ASSUME packed, RequestTyped, NEW b \in Bundles, NEW r \in Nat,
           r + Len(b.packets) <= Len(sent),
           \A i \in 1..Len(b.packets) : sent[r + i] = Command(b, i),
           NEW acc \in Gathered, Arrived(r, acc), Apart(r) => Load(Frame(b)) <= Allowed
    PROVE  Arrived(r + Len(b.packets), Joins(acc, Frame(b))[Len(Inner(Frame(b)))])
  <1> DEFINE s == b.packets
             f == Frame(b)
             all == Inner(f)
             J(k) == Joins(acc, f)[k]
  <1>1. /\ s \in Seq(Nat) /\ Len(s) \in Nat /\ Len(s) >= 1 /\ f \in Wraps
        /\ \A i \in 1..Len(s) : s[i] \in Nat /\ Declared(f, i) = s[i]
        /\ b.deflated \/ Len(s) = 1 =>
              Len(all) = Len(s) /\ \A i \in 1..Len(s) : all[i] = s[i] /\ s[i] <= Load(f)
    BY SMTT(30), BundleLoads
  <1>2. /\ Len(all) \in Nat /\ Len(all) >= 1 /\ \A i \in 1..Len(all) : all[i] \in Nat
        /\ Load(f) \in Int
    BY <1>1, FrameLoads
  <1>3. J(0) = acc /\ \A k \in 0..Len(all) : J(k) \in Gathered
    BY <1>2, JoinsDefined, JoinsTyped
  <1>4. \A i \in 1..Len(s) : /\ sent[r + i].len = s[i]
                             /\ sent[r + i].apart => s[i] # BigInner /\ (b.deflated \/ Len(s) = 1)
    <2>1. ASSUME NEW i
          PROVE  /\ Command(b, i).len = s[i]
                 /\ Command(b, i).apart => s[i] # BigInner /\ (b.deflated \/ Len(s) = 1)
      BY Zenon DEF Command
    <2> QED
      BY <2>1
  <1>6. \A k \in Nat : k + 1 <= Len(all) => J(k + 1) = Join(J(k), Declared(f, k + 1), all[k + 1])
    BY <1>2, JoinsStep
  <1>9. Apart(r) => Load(f) <= Allowed /\ Allowed \in Nat
    BY WireAssumption
  <1> HIDE DEF s, all, J, f
  <1>7. CASE b.deflated \/ Len(s) = 1
    <2> DEFINE Good == {k \in Nat : k <= Len(s) => Arrived(r + k, J(k))}
    <2>1. Len(all) = Len(s) /\ \A i \in 1..Len(s) : all[i] = s[i] /\ s[i] <= Load(f)
      BY <1>1, <1>7
    <2>2. 0 \in Good
      BY <1>3
    <2>3. ASSUME NEW k \in Nat, k \in Good
          PROVE  k + 1 \in Good
      <3> SUFFICES ASSUME k + 1 <= Len(s)
                   PROVE  Arrived(r + (k + 1), J(k + 1))
        OBVIOUS
      <3>1. k + 1 \in 1..Len(s) /\ k \in 0..Len(all) /\ k + 1 <= Len(all)
        BY <1>1, <2>1
      <3>2. J(k + 1) = Join(J(k), s[k + 1], s[k + 1]) /\ s[k + 1] \in Nat /\ J(k) \in Gathered
        BY <1>1, <1>3, <1>6, <2>1, <3>1
      <3>3. Arrived(r + k, J(k))
        BY <2>3
      <3>4. /\ r + k \in Nat /\ (r + k) + 1 = r + (k + 1) /\ (r + k) + 1 <= Len(sent)
        <4>1. Len(sent) \in Nat /\ r + Len(s) <= Len(sent)
          BY DEF RequestTyped, s
        <4> QED
          BY <1>1, <4>1
      <3>5. sent[(r + k) + 1].len = s[k + 1] /\ (sent[(r + k) + 1].apart => s[k + 1] # BigInner)
        BY <1>4, <3>1, <3>4
      <3>6. Apart((r + k) + 1) => s[k + 1] <= Allowed
        <4>1. Apart((r + k) + 1) => Apart(r)
          BY DEF Apart
        <4> QED
          BY <1>2, <1>9, <2>1, <3>1, <3>2, <4>1
      <3>7. Arrived((r + k) + 1, Join(J(k), s[k + 1], s[k + 1]))
        BY <3>2, <3>3, <3>4, <3>5, <3>6, ArrivedStep
      <3> QED
        BY <3>2, <3>4, <3>7
    <2> HIDE DEF Good
    <2>4. Len(s) \in Good
      BY <1>1, <2>2, <2>3, NatsIn
    <2>5. Arrived(r + Len(s), J(Len(all)))
      BY <1>1, <2>1, <2>4 DEF Good
    <2> QED
      BY <2>5 DEF s, all, J, f
  <1>8. CASE ~(b.deflated \/ Len(s) = 1)
    <2>1. r + Len(s) \in Nat /\ r + Len(s) >= r /\ r + 1 \in 1..(r + Len(s)) /\ ~sent[r + 1].apart
      BY <1>1, <1>4, <1>8
    <2>2. Arrived(r + Len(s), J(Len(all)))
      BY <1>1, <2>1, FrameSkipped DEF J, all
    <2> QED
      BY <2>2 DEF s, all, J, f
  <1> QED
    BY <1>7, <1>8

\* A frame has the commands from r + 1 to t in whole packets, or it comes with
\* or after one that cannot be told from its next.
Carries(commands, f, r, t) ==
    \/ \E b \in Bundles : /\ f = Frame(b) /\ t = r + Len(b.packets)
                          /\ \A i \in 1..Len(b.packets) : commands[r + i] = Command(b, i)
    \/ t >= r /\ \E y \in 1..t : y <= r + 1 /\ ~commands[y].apart

\* Where the commands of each frame that is not read begin among those sent.
Begins(at) ==
    /\ at \in [0..Len(inbound) -> Nat]
    /\ at[Len(inbound)] = Len(sent)
    /\ \A k \in 1..Len(inbound) : Carries(sent, inbound[k], at[k - 1], at[k])

PackedArrives ==
    \E at : /\ Begins(at) /\ Arrived(at[0], gathered)
            /\ Apart(at[0]) => gathered = Nothing

\* The frames of the commands that are not complete: of which command each is,
\* and how many frames of it come before.
Pieces(of, before) ==
    /\ of \in [1..(Len(inbound) + 1) -> Nat] /\ before \in [1..(Len(inbound) + 1) -> Nat]
    /\ of[Len(inbound) + 1] = Len(sent) + 1 /\ before[Len(inbound) + 1] = 0
    /\ \A k \in 1..Len(inbound) : LET full == sent[of[k]].len \div Big IN
          /\ of[k] \in 1..Len(sent) /\ before[k] <= full
          /\ before[k] < full =>
                /\ inbound[k] = Big
                /\ of[k + 1] = of[k] /\ before[k + 1] = before[k] + 1
          /\ before[k] = full =>
                /\ inbound[k] = sent[of[k]].len % Big
                /\ of[k + 1] = of[k] + 1 /\ before[k + 1] = 0

Reading(n) == [done |-> <<>>, rest |-> IF n = 0 THEN None ELSE n * Big, total |-> n * Big]

PlainArrives ==
    /\ \E of, before :
          Pieces(of, before) /\ of[1] = Len(taken) + 1 /\ gathered = Reading(before[1])
    /\ \A i \in 1..Len(taken) : i <= Len(sent) /\ taken[i] = sent[i].len /\ taken[i] <= Allowed

Fresh == sent = <<>> /\ inbound = <<>> /\ taken = <<>> /\ gathered = Nothing

RequestInv ==
    /\ RequestTyped
    /\ stage \in {"greet", "login"} => Fresh
    /\ stage # "closed" => IF packed THEN PackedArrives ELSE PlainArrives
    /\ stage = "closed" => CommandsArriveWhole

\* Before the first command,
LEMMA FreshArrives ==
    ASSUME Fresh
    PROVE  PackedArrives /\ PlainArrives
  <1>1. Len(inbound) = 0 /\ Len(sent) = 0 /\ Len(taken) = 0 /\ gathered = Nothing
    BY DEF Fresh
  <1>2. PackedArrives
    <2> DEFINE at == [k \in 0..Len(inbound) |-> 0]
    <2>1. Begins(at)
      BY <1>1 DEF Begins
    <2>2. Len(gathered.done) = 0 /\ gathered.rest = None
      BY <1>1 DEF Nothing
    <2>3. Arrived(at[0], gathered)
      BY <1>1, <2>2 DEF Arrived
    <2> QED
      BY <1>1, <2>1, <2>3 DEF PackedArrives
  <1>3. PlainArrives
    <2> DEFINE of == [k \in 1..(Len(inbound) + 1) |-> 1]
               before == [k \in 1..(Len(inbound) + 1) |-> 0]
    <2>1. Pieces(of, before)
      BY <1>1 DEF Pieces
    <2>2. of[1] = Len(taken) + 1 /\ before[1] = 0
      BY <1>1
    <2>3. gathered = Reading(0)
      <3>1. 0 * Big = 0
        BY DEF Big
      <3> QED
        BY <1>1, <3>1 DEF Nothing, Reading
    <2> QED
      BY <1>1, <2>1, <2>2, <2>3 DEF PlainArrives
  <1> QED
    BY <1>2, <1>3

\* The frames that are not read hold the last commands that were sent.
LEMMA BeginsInOrder ==
    ASSUME packed, RequestTyped, NEW at, Begins(at)
    PROVE  \A k \in 0..Len(inbound) : at[k] \in Nat /\ at[k] <= Len(sent)
  <1> DEFINE n == Len(inbound)
             Good == {x \in Nat : x <= n => at[n - x] <= Len(sent)}
  <1>1. n \in Nat /\ (\A k \in 0..n : at[k] \in Nat) /\ at[n] = Len(sent) /\ Len(sent) \in Nat
    <2>1. inbound \in Seq(Wraps)
      BY DEF RequestTyped
    <2>2. at \in [0..n -> Nat] /\ n \in Nat /\ at[n] = Len(sent) /\ sent \in Seq(Commands)
      BY <2>1 DEF Begins, RequestTyped
    <2> QED
      BY <2>2
  <1>2. \A k \in 1..n : at[k] >= at[k - 1]
    <2> SUFFICES ASSUME NEW k \in 1..n
                 PROVE  at[k] >= at[k - 1]
      OBVIOUS
    <2>1. Carries(sent, inbound[k], at[k - 1], at[k]) /\ at[k - 1] \in Nat
      BY <1>1 DEF Begins
    <2>2. \A b \in Bundles : Len(b.packets) \in Nat
      BY BundleLoads
    <2> QED
      BY <2>1, <2>2 DEF Carries
  <1> HIDE DEF n
  <1>3. 0 \in Good
    BY <1>1
  <1>4. ASSUME NEW x \in Nat, x \in Good
        PROVE  x + 1 \in Good
    <2> SUFFICES ASSUME x + 1 <= n
                 PROVE  at[n - (x + 1)] <= Len(sent)
      OBVIOUS
    <2>1. n - x \in 1..n /\ (n - x) - 1 = n - (x + 1) /\ n - x \in 0..n /\ n - (x + 1) \in 0..n
      BY <1>1
    <2>2. at[n - x] >= at[n - (x + 1)]
      BY <1>2, <2>1
    <2>3. at[n - x] <= Len(sent)
      BY <1>1, <1>4
    <2> QED
      BY <1>1, <2>1, <2>2, <2>3
  <1> HIDE DEF Good
  <1>5. Nat \subseteq Good
    BY <1>3, <1>4, NatsIn
  <1>6. ASSUME NEW k \in 0..n
        PROVE  at[k] <= Len(sent)
    <2>1. n - k \in Nat /\ n - k <= n /\ n - (n - k) = k
      BY <1>1
    <2> QED
      BY <1>5, <2>1 DEF Good
  <1> QED
    BY <1>1, <1>6 DEF n

\* and whenever they arrive.
LEMMA ArriveWhole ==
    ASSUME RequestTyped, IF packed THEN PackedArrives ELSE PlainArrives
    PROVE  CommandsArriveWhole
  <1> DEFINE Least(i) == IF i < Len(sent) THEN i ELSE Len(sent)
  <1>1. /\ Len(taken) \in Nat /\ Len(sent) \in Nat /\ DOMAIN taken = 1..Len(taken)
        /\ packed \in BOOLEAN /\ gathered.done \in Seq(Nat)
    BY DEF RequestTyped, Gathered
  <1>2. SUFFICES ASSUME NEW i \in 1..Len(taken), Apart(Least(i))
                 PROVE  i <= Len(sent) /\ taken[i] = sent[i].len /\ taken[i] <= Allowed
    BY <1>1 DEF CommandsArriveWhole, Apart
  <1>3. CASE ~packed
    BY <1>3 DEF PlainArrives
  <1>4. CASE packed
    <2>1. PICK at : Begins(at) /\ Arrived(at[0], gathered)
      BY <1>4 DEF PackedArrives
    <2> DEFINE r == at[0]
               d == Len(gathered.done)
    <2>2. r \in Nat /\ d \in Nat /\ Arrived(r, gathered)
      <3>1. Len(inbound) \in Nat
        BY <1>4 DEF RequestTyped
      <3> QED
        BY <1>1, <2>1, <3>1 DEF Begins
    <2>3. r <= Len(sent)
      <3>1. 0 \in 0..Len(inbound)
        BY <1>4 DEF RequestTyped
      <3> QED
        BY <1>4, <2>1, <3>1, BeginsInOrder
    <2> HIDE DEF r, d
    <2>4. CASE i <= r
      <3>1. Least(i) = i
        BY <1>1, <2>2, <2>3, <2>4
      <3> QED
        BY <1>1, <1>2, <2>2, <2>3, <2>4, <3>1 DEF Arrived
    <2>5. CASE i > r
      <3>1. Apart(r)
        BY <1>1, <1>2, <2>2, <2>3, <2>5 DEF Apart
      <3>2. Len(taken) + d = r
        BY <2>2, <3>1 DEF Arrived, d
      <3> QED
        BY <1>1, <2>2, <2>5, <3>2
    <2> QED
      BY <1>1, <2>2, <2>4, <2>5
  <1> QED
    BY <1>1, <1>3, <1>4

LEMMA PlainKept ==
    ASSUME PlainArrives, UNCHANGED <<sent, inbound, gathered, taken>>
    PROVE  PlainArrives'
  <1>1. PICK of, before :
          Pieces(of, before) /\ of[1] = Len(taken) + 1 /\ gathered = Reading(before[1])
    BY DEF PlainArrives
  <1>2. Pieces(of, before)'
    BY <1>1 DEF Pieces
  <1>3. of[1] = Len(taken') + 1 /\ gathered' = Reading(before[1])
    BY <1>1
  <1> QED
    BY <1>2, <1>3 DEF PlainArrives, Reading

LEMMA RequestKept ==
    ASSUME RequestInv, UNCHANGED <<packed, sent, inbound, gathered, taken>>,
           stage' # "closed" => stage # "closed",
           stage' \in {"greet", "login"} => stage \in {"greet", "login"}
    PROVE  RequestInv'
  <1>1. RequestTyped'
    BY DEF RequestInv, RequestTyped
  <1>3. (stage \in {"greet", "login"} => Fresh)'
    BY DEF RequestInv, Fresh
  <1>4. (stage # "closed" => IF packed THEN PackedArrives ELSE PlainArrives)'
    <2> SUFFICES ASSUME stage' # "closed"
                 PROVE  (IF packed THEN PackedArrives ELSE PlainArrives)'
      OBVIOUS
    <2>1. IF packed THEN PackedArrives ELSE PlainArrives
      BY DEF RequestInv
    <2>2. PackedArrives => PackedArrives'
      BY DEF PackedArrives, Begins, Arrived, Apart, Nothing
    <2>3. PlainArrives => PlainArrives'
      BY PlainKept
    <2> QED
      BY <2>1, <2>2, <2>3
  <1>5. (stage = "closed" => CommandsArriveWhole)'
    <2>1. CommandsArriveWhole
      BY ArriveWhole DEF RequestInv
    <2> QED
      BY <2>1 DEF CommandsArriveWhole
  <1> QED
    BY <1>1, <1>3, <1>4, <1>5 DEF RequestInv

LEMMA RequestShut ==
    ASSUME RequestInv, Shut
    PROVE  RequestInv'
  <1>1. /\ UNCHANGED <<packed, sent, taken>> /\ stage' = "closed"
        /\ inbound' = <<>> /\ gathered' = Nothing
    BY DEF Shut
  <1>2. RequestTyped'
    <2>1. Nothing \in Gathered
      BY DEF Nothing, Gathered
    <2> QED
      BY <1>1, <2>1 DEF RequestInv, RequestTyped
  <1>5. CommandsArriveWhole
    BY ArriveWhole DEF RequestInv
  <1>6. CommandsArriveWhole'
    BY <1>1, <1>5 DEF CommandsArriveWhole
  <1> QED
    BY <1>1, <1>2, <1>6 DEF RequestInv

LEMMA RequestLogin ==
    ASSUME RequestInv, stage \in {"greet", "login"}, UNCHANGED requests, packed' \in BOOLEAN,
           stage' # "closed"
    PROVE  RequestInv'
  <1>1. Fresh /\ Fresh'
    BY DEF RequestInv, Fresh, requests
  <1>2. PackedArrives' /\ PlainArrives'
    <2>1. PackedArrives /\ PlainArrives
      BY <1>1, FreshArrives
    <2>2. PackedArrives => PackedArrives'
      BY DEF PackedArrives, Begins, Arrived, Apart, Nothing, requests
    <2>3. PlainArrives => PlainArrives'
      BY PlainKept DEF requests
    <2> QED
      BY <2>1, <2>2, <2>3
  <1>3. RequestTyped'
    BY <1>1 DEF RequestInv, RequestTyped, Fresh, requests
  <1> QED
    BY <1>1, <1>2, <1>3 DEF RequestInv

LEMMA RequestInit == Init => RequestInv
  <1> SUFFICES ASSUME Init
               PROVE  RequestInv
    OBVIOUS
  <1>1. Fresh /\ packed = FALSE /\ stage = "greet" /\ gathered = Nothing /\ taken = <<>>
    BY DEF Init, Fresh
  <1>2. PackedArrives /\ PlainArrives
    BY <1>1, FreshArrives
  <1>3. RequestTyped
    <2>1. Nothing \in Gathered
      BY DEF Nothing, Gathered
    <2>2. sent \in Seq(Commands) /\ taken \in Seq(Nat) /\ inbound \in Seq(Nat)
      BY <1>1 DEF Fresh
    <2> QED
      BY <1>1, <2>1, <2>2 DEF RequestTyped
  <1> QED
    BY <1>1, <1>2, <1>3 DEF RequestInv

\* One sequence after another, by their elements,
LEMMA Concatenated ==
    ASSUME NEW S, NEW s \in Seq(S), NEW t \in Seq(S)
    PROVE  /\ s \o t \in Seq(S) /\ Len(s \o t) = Len(s) + Len(t)
           /\ Len(s) \in Nat /\ Len(t) \in Nat
           /\ \A i \in 1..Len(s) : (s \o t)[i] = s[i]
           /\ \A i \in 1..Len(t) : (s \o t)[Len(s) + i] = t[i]
  <1> DEFINE u == s \o t
  <1>1. /\ u \in Seq(S) /\ Len(u) = Len(s) + Len(t)
        /\ \A i \in 1..Len(s) + Len(t) : u[i] = IF i <= Len(s) THEN s[i] ELSE t[i - Len(s)]
    BY ConcatProperties
  <1>2. Len(s) \in Nat /\ Len(t) \in Nat
    OBVIOUS
  <1> HIDE DEF u
  <1>3. ASSUME NEW i \in 1..Len(s)
        PROVE  u[i] = s[i]
    BY <1>1, <1>2
  <1>4. ASSUME NEW i \in 1..Len(t)
        PROVE  u[Len(s) + i] = t[i]
    <2>1. Len(s) + i \in 1..Len(s) + Len(t) /\ ~(Len(s) + i <= Len(s)) /\ (Len(s) + i) - Len(s) = i
      BY <1>2
    <2> QED
      BY <1>1, <2>1
  <1> QED
    BY <1>1, <1>2, <1>3, <1>4 DEF u

\* and what follows its first.
LEMMA Rest ==
    ASSUME NEW S, NEW s \in Seq(S), s # <<>>
    PROVE  /\ Head(s) = s[1] /\ s[1] \in S /\ Len(s) \in Nat /\ Len(s) >= 1
           /\ Tail(s) \in Seq(S) /\ Len(Tail(s)) = Len(s) - 1
           /\ \A i \in 1..(Len(s) - 1) : Tail(s)[i] = s[i + 1]
  BY HeadTailProperties

\* Compressed frames are sent: they have the commands that are sent with them.
LEMMA RequestMore ==
    ASSUME RequestInv, packed, stage = "command",
           NEW s \in Seq(Commands), NEW fs \in Seq(Wraps), fs # <<>>,
           sent' = sent \o s, inbound' = inbound \o fs,
           UNCHANGED <<stage, packed, gathered, taken>>,
           \A k \in 1..Len(fs) : Carries(sent', fs[k],
               IF k = 1 THEN Len(sent) ELSE Len(sent) + Len(s), Len(sent) + Len(s))
    PROVE  RequestInv'
  <1> DEFINE n == Len(s)
             m == Len(fs)
             e == Len(sent)
             l == Len(inbound)
  <1>1. RequestTyped /\ PackedArrives
    BY DEF RequestInv
  <1>2. sent \in Seq(Commands) /\ inbound \in Seq(Wraps)
    BY <1>1 DEF RequestTyped
  <1>3. /\ sent' \in Seq(Commands) /\ Len(sent') = e + n /\ e \in Nat /\ n \in Nat
        /\ \A i \in 1..e : sent'[i] = sent[i]
    <2>1. /\ sent \o s \in Seq(Commands) /\ Len(sent \o s) = Len(sent) + Len(s)
          /\ Len(sent) \in Nat /\ Len(s) \in Nat
          /\ \A i \in 1..Len(sent) : (sent \o s)[i] = sent[i]
      BY <1>2, Concatenated
    <2> QED
      BY <2>1
  <1>4. /\ inbound' \in Seq(Wraps) /\ Len(inbound') = l + m /\ l \in Nat /\ m \in Nat /\ m >= 1
        /\ \A k \in 1..l : inbound'[k] = inbound[k]
        /\ \A k \in 1..m : inbound'[l + k] = fs[k]
    <2>1. /\ inbound \o fs \in Seq(Wraps) /\ Len(inbound \o fs) = Len(inbound) + Len(fs)
          /\ Len(inbound) \in Nat /\ Len(fs) \in Nat
          /\ \A k \in 1..Len(inbound) : (inbound \o fs)[k] = inbound[k]
          /\ \A k \in 1..Len(fs) : (inbound \o fs)[Len(inbound) + k] = fs[k]
      BY <1>2, Concatenated
    <2>2. Len(fs) >= 1
      BY <2>1
    <2> QED
      BY <2>1, <2>2
  <1>5. PICK at : Begins(at) /\ Arrived(at[0], gathered) /\ (Apart(at[0]) => gathered = Nothing)
    BY <1>1 DEF PackedArrives
  <1>6. (\A k \in 0..l : at[k] \in Nat /\ at[k] <= e) /\ at[l] = e
    BY <1>1, <1>5, BeginsInOrder DEF Begins
  <1>7. \A k \in 1..m : Carries(sent', fs[k], IF k = 1 THEN e ELSE e + n, e + n)
    OBVIOUS
  <1>8. \A k \in 1..l : Carries(sent, inbound[k], at[k - 1], at[k])
    BY <1>5 DEF Begins
  <1> HIDE DEF n, m, e, l
  <1>9. PICK to : to = [k \in 0..(l + m) |-> IF k <= l THEN at[k] ELSE e + n]
    OBVIOUS
  <1>10. to \in [0..Len(inbound') -> Nat] /\ to[Len(inbound')] = Len(sent') /\ to[0] = at[0]
    BY <1>3, <1>4, <1>6, <1>9
  <1>11. ASSUME NEW k \in 1..Len(inbound')
         PROVE  Carries(sent', inbound'[k], to[k - 1], to[k])
    <2>1. CASE k <= l
      <3>1. k \in 1..l /\ to[k] = at[k] /\ to[k - 1] = at[k - 1] /\ inbound'[k] = inbound[k]
        BY <1>4, <1>9, <2>1
      <3>2. Carries(sent, inbound[k], at[k - 1], at[k]) /\ at[k] <= e
            /\ at[k] \in Nat /\ at[k - 1] \in Nat
        BY <1>4, <1>6, <1>8, <3>1
      <3>3. ASSUME NEW b \in Bundles, at[k] = at[k - 1] + Len(b.packets),
                   NEW i \in 1..Len(b.packets)
            PROVE  sent'[at[k - 1] + i] = sent[at[k - 1] + i]
        <4>1. Len(b.packets) \in Nat
          BY BundleLoads
        <4>2. PICK a \in Nat, z \in Nat, len \in Nat :
                a = at[k - 1] /\ z = at[k] /\ len = Len(b.packets)
          BY <3>2, <4>1
        <4>3. z = a + len /\ z <= e /\ i \in 1..len
          BY <3>2, <3>3, <4>2
        <4>4. a + i \in 1..e
          BY <1>3, <4>3
        <4>5. at[k - 1] + i \in 1..e
          BY <4>2, <4>4
        <4> QED
          BY <1>3, <4>5
      <3>4. ASSUME NEW y \in 1..at[k]
            PROVE  sent'[y] = sent[y]
        <4>1. y \in 1..e
          BY <1>3, <3>2
        <4> QED
          BY <1>3, <4>1
      <3>5. Carries(sent', inbound[k], at[k - 1], at[k])
        <4>1. CASE \E b \in Bundles :
                 /\ inbound[k] = Frame(b) /\ at[k] = at[k - 1] + Len(b.packets)
                 /\ \A i \in 1..Len(b.packets) : sent[at[k - 1] + i] = Command(b, i)
          BY <3>3, <4>1 DEF Carries
        <4>2. CASE at[k] >= at[k - 1] /\ \E y \in 1..at[k] : y <= at[k - 1] + 1 /\ ~sent[y].apart
          BY <3>4, <4>2 DEF Carries
        <4> QED
          BY <3>2, <4>1, <4>2 DEF Carries
      <3> QED
        BY <3>1, <3>5
    <2>2. CASE ~(k <= l)
      <3>1. /\ k - l \in 1..m /\ l + (k - l) = k /\ to[k] = e + n
            /\ to[k - 1] = IF k - l = 1 THEN e ELSE e + n
        <4>1. k \in 1..(l + m) /\ k - 1 \in 0..(l + m) /\ l \in Nat /\ m \in Nat
          BY <1>4
        <4>2. to[k] = e + n /\ k \in 0..(l + m)
          BY <1>9, <2>2, <4>1
        <4>3. to[k - 1] = IF k - 1 <= l THEN at[k - 1] ELSE e + n
          BY <1>9, <4>1
        <4>4. k - l \in 1..m /\ l + (k - l) = k /\ (k - 1 <= l <=> k - l = 1)
              /\ (k - l = 1 => k - 1 = l)
          BY <2>2, <4>1
        <4> QED
          BY <1>6, <4>2, <4>3, <4>4
      <3>2. inbound'[k] = fs[k - l]
        BY <1>4, <3>1
      <3> QED
        BY <1>7, <3>1, <3>2
    <2> QED
      BY <2>1, <2>2
  <1>12. Begins(to)'
    BY <1>10, <1>11 DEF Begins
  <1>13. at[0] \in Nat /\ at[0] <= e
    BY <1>4, <1>6
  <1>14. \A x \in 1..at[0] : \A y \in 1..x : sent'[y] = sent[y]
    BY SMTT(30), <1>3, <1>13
  <1>0. \A x \in 0..at[0] : \A y \in 1..x : y \in 1..e
    BY <1>3, <1>13
  <1>20. ASSUME NEW x \in 0..at[0]
         PROVE  Apart(x)' <=> Apart(x)
    <2>1. \A y \in 1..x : sent'[y] = sent[y]
      BY <1>0, <1>3
    <2> QED
      BY <2>1 DEF Apart
  <1>15. \A x \in 1..at[0] : (Apart(x)' <=> Apart(x)) /\ sent'[x] = sent[x]
    <2>1. ASSUME NEW x \in 1..at[0]
          PROVE  x \in 0..at[0] /\ x \in 1..x
      BY <1>13
    <2> QED
      BY <1>14, <1>20, <2>1
  <1>16. Apart(at[0])' <=> Apart(at[0])
    BY <1>13, <1>20
  <1>17. Arrived(at[0], gathered)'
    <2>1. \A x \in 1..at[0] : Apart(x)' =>
             /\ sent'[x].len <= Allowed
             /\ x <= Len(taken') + Len(gathered'.done)
             /\ x <= Len(taken') => taken'[x] = sent'[x].len
             /\ x > Len(taken') => gathered'.done[x - Len(taken')] = sent'[x].len
      BY <1>5, <1>15 DEF Arrived
    <2>2. Apart(at[0])' => Len(taken') + Len(gathered'.done) = at[0] /\ gathered'.rest = None
      BY <1>5, <1>16 DEF Arrived
    <2> QED
      BY <2>1, <2>2 DEF Arrived
  <1>18. PackedArrives'
    <2>1. (Arrived(to[0], gathered))' /\ (Apart(to[0]) => gathered = Nothing)'
      BY <1>5, <1>10, <1>16, <1>17 DEF Nothing
    <2> QED
      BY <1>12, <2>1 DEF PackedArrives
  <1>19. RequestTyped'
    BY <1>1, <1>3, <1>4 DEF RequestTyped
  <1> QED
    BY <1>18, <1>19 DEF RequestInv

LEMMA RequestBundle ==
    ASSUME RequestInv, NEW b \in Bundles, ClientSendsBundle(b)
    PROVE  RequestInv'
  <1> DEFINE s == [i \in DOMAIN b.packets |-> Command(b, i)]
             n == Len(b.packets)
             f == Frame(b)
  <1>1. /\ stage = "command" /\ packed
        /\ sent' = sent \o s /\ inbound' = Append(inbound, f)
        /\ UNCHANGED <<stage, packed, gathered, taken>>
    BY DEF ClientSendsBundle
  <1>2. sent \in Seq(Commands) /\ inbound \in Seq(Wraps)
    BY <1>1 DEF RequestInv, RequestTyped
  <1>3. n \in Nat /\ n >= 1 /\ DOMAIN b.packets = 1..n /\ f \in Wraps
        /\ \A i \in 1..n : b.packets[i] \in Nat
    BY <1>1, BundleLoads
  <1>4. s \in Seq(Commands) /\ Len(s) = n /\ \A i \in 1..n : s[i] = Command(b, i)
    <2>1. \A i \in 1..n : Command(b, i) \in Commands
      <3> SUFFICES ASSUME NEW i \in 1..n
                   PROVE  Command(b, i) \in Commands
        OBVIOUS
      <3>1. b.packets[i] \in Nat
        BY <1>3
      <3> HIDE DEF n
      <3> QED
        BY <3>1 DEF Command, Commands
    <2> QED
      BY <1>3, <2>1
  <1> HIDE DEF s, f
  <1>5. \A i \in 1..n : sent'[Len(sent) + i] = Command(b, i)
    <2>1. \A i \in 1..Len(s) : (sent \o s)[Len(sent) + i] = s[i]
      BY <1>2, <1>4, Concatenated
    <2> QED
      BY <1>1, <1>4, <2>1
  <1>6. Carries(sent', f, Len(sent), Len(sent) + Len(s))
    BY <1>4, <1>5 DEF Carries, f
  <1> DEFINE fs == <<f>>
  <1>7. /\ fs \in Seq(Wraps) /\ fs # <<>> /\ inbound' = inbound \o fs
        /\ Len(fs) = 1 /\ fs[1] = f
    BY <1>1, <1>2, <1>3
  <1> HIDE DEF fs
  <1>8. \A k \in 1..Len(fs) : Carries(sent', fs[k],
            IF k = 1 THEN Len(sent) ELSE Len(sent) + Len(s), Len(sent) + Len(s))
    BY <1>6, <1>7
  <1> QED
    BY <1>1, <1>4, <1>7, <1>8, RequestMore

LEMMA RequestStraddles ==
    ASSUME RequestInv, NEW c \in Straddlers, ClientStraddles(c)
    PROVE  RequestInv'
  <1> DEFINE d == [len |-> c.len, apart |-> FALSE]
             s == <<d>>
             fs == c.frames
             e == Len(sent)
  <1>1. /\ stage = "command" /\ packed
        /\ sent' = Append(sent, d) /\ inbound' = inbound \o fs
        /\ UNCHANGED <<stage, packed, gathered, taken>>
    BY DEF ClientStraddles
  <1>2. c.len \in Nat /\ fs \in Seq(Wraps) /\ fs # <<>>
    BY WireAssumption DEF Wraps
  <1>3. sent \in Seq(Commands)
    BY <1>1 DEF RequestInv, RequestTyped
  <1>4. d \in Commands /\ ~d.apart
    BY <1>2 DEF Commands
  <1> HIDE DEF d, fs
  <1>5. s \in Seq(Commands) /\ Len(s) = 1 /\ sent' = sent \o s
        /\ e \in Nat /\ sent'[e + 1] = d
    BY <1>1, <1>3, <1>4
  <1> HIDE DEF s
  <1>6. \A k \in 1..Len(fs) : Carries(sent', fs[k], IF k = 1 THEN e ELSE e + 1, e + 1)
    <2> SUFFICES ASSUME NEW k \in 1..Len(fs), NEW r, r = IF k = 1 THEN e ELSE e + 1
                 PROVE  Carries(sent', fs[k], r, e + 1)
      OBVIOUS
    <2>1. e + 1 >= r /\ e + 1 \in 1..(e + 1) /\ e + 1 <= r + 1
      BY <1>5
    <2>2. ~sent'[e + 1].apart
      BY <1>4, <1>5
    <2> QED
      BY <2>1, <2>2 DEF Carries
  <1> QED
    BY <1>1, <1>2, <1>5, <1>6, RequestMore

\* A command fills frames, and the last one is not full.
LEMMA Fills ==
    ASSUME NEW n \in Nat
    PROVE  /\ n \div Big \in Nat /\ n % Big \in Nat /\ n % Big # Big
           /\ n = (n \div Big) * Big + (n % Big) /\ Big \in Nat
  BY DEF Big

LEMMA FramesOf ==
    ASSUME NEW n \in Nat
    PROVE  /\ Frames(n) \in Seq(Nat) /\ Len(Frames(n)) = (n \div Big) + 1
           /\ \A i \in 1..((n \div Big) + 1) :
                 Frames(n)[i] = IF i <= n \div Big THEN Big ELSE n % Big
  <1> DEFINE q == n \div Big
             m == n % Big
  <1>1. q \in Nat /\ m \in Nat /\ Big \in Nat
    BY Fills
  <1>2. Frames(n) = [i \in 1..(q + 1) |-> IF i <= q THEN Big ELSE m]
    BY DEF Frames
  <1> HIDE DEF q, m
  <1>3. /\ Frames(n) \in Seq(Nat) /\ Len(Frames(n)) = q + 1
        /\ \A i \in 1..(q + 1) : Frames(n)[i] = IF i <= q THEN Big ELSE m
    BY <1>1, <1>2
  <1> QED
    BY <1>3 DEF q, m

\* A command is sent in plain frames.
LEMMA RequestPlain ==
    ASSUME RequestInv, NEW n \in Payloads, ClientSends(n)
    PROVE  RequestInv'
  <1> DEFINE c == [len |-> n, apart |-> TRUE]
             q == n \div Big
             F == Frames(n)
             e == Len(sent)
             l == Len(inbound)
  <1>0. n \in Nat
    BY WireAssumption
  <1>1. /\ stage = "command" /\ ~packed
        /\ sent' = Append(sent, c) /\ inbound' = inbound \o F
        /\ UNCHANGED <<stage, packed, gathered, taken>>
    BY DEF ClientSends
  <1>2. RequestTyped /\ PlainArrives
    BY <1>1 DEF RequestInv
  <1>3. sent \in Seq(Commands) /\ inbound \in Seq(Nat)
    BY <1>1, <1>2 DEF RequestTyped
  <1>4. /\ F \in Seq(Nat) /\ Len(F) = q + 1 /\ q \in Nat
        /\ \A i \in 1..(q + 1) : F[i] = IF i <= q THEN Big ELSE n % Big
    BY <1>0, Fills, FramesOf
  <1>5. c \in Commands /\ c.len = n
    BY <1>0 DEF Commands
  <1> HIDE DEF c, F
  <1>6. /\ sent' \in Seq(Commands) /\ Len(sent') = e + 1 /\ e \in Nat
        /\ sent'[e + 1] = c /\ \A i \in 1..e : sent'[i] = sent[i]
    BY <1>1, <1>3, <1>5
  <1>7. /\ inbound' \in Seq(Nat) /\ Len(inbound') = l + (q + 1) /\ l \in Nat
        /\ \A k \in 1..l : inbound'[k] = inbound[k]
        /\ \A i \in 1..(q + 1) : inbound'[l + i] = F[i]
    <2>1. inbound \in Seq(Nat) /\ F \in Seq(Nat)
      BY <1>3, <1>4
    <2>2. /\ inbound \o F \in Seq(Nat) /\ Len(inbound \o F) = l + Len(F) /\ l \in Nat
          /\ \A k \in 1..l : (inbound \o F)[k] = inbound[k]
          /\ \A i \in 1..Len(F) : (inbound \o F)[l + i] = F[i]
      BY <2>1, Concatenated
    <2> QED
      BY <1>1, <1>4, <2>2
  <1>8. PICK of, before :
          Pieces(of, before) /\ of[1] = Len(taken) + 1 /\ gathered = Reading(before[1])
    BY <1>2 DEF PlainArrives
  <1>9. /\ \A k \in 1..(l + 1) : of[k] \in Nat /\ before[k] \in Nat
        /\ of[l + 1] = e + 1 /\ before[l + 1] = 0
    BY <1>8 DEF Pieces
  <1>10. PICK of2 : of2 = [k \in 1..(l + q + 2) |->
              IF k <= l + 1 THEN of[k] ELSE IF k <= l + 1 + q THEN e + 1 ELSE e + 2]
    OBVIOUS
  <1>11. PICK bef2 : bef2 = [k \in 1..(l + q + 2) |->
              IF k <= l + 1 THEN before[k] ELSE IF k <= l + 1 + q THEN k - (l + 1) ELSE 0]
    OBVIOUS
  <1> HIDE DEF q, l, e
  <1>12. /\ of2 \in [1..(l + q + 2) -> Nat] /\ bef2 \in [1..(l + q + 2) -> Nat]
         /\ of2[l + q + 2] = e + 2 /\ bef2[l + q + 2] = 0
         /\ of2[1] = of[1] /\ bef2[1] = before[1]
    <2>1. ASSUME NEW k \in 1..(l + q + 2)
          PROVE  of2[k] \in Nat
      <3>1. of2[k] = IF k <= l + 1 THEN of[k] ELSE IF k <= l + 1 + q THEN e + 1 ELSE e + 2
        BY <1>10
      <3>2. CASE k <= l + 1
        <4>1. k \in 1..(l + 1)
          BY <1>7, <3>2
        <4> QED
          BY <1>9, <3>1, <3>2, <4>1
      <3>3. CASE ~(k <= l + 1)
        BY <1>6, <3>1, <3>3
      <3> QED
        BY <3>2, <3>3
    <2>2. \A k \in 1..(l + q + 2) : bef2[k] \in Nat
      BY <1>4, <1>6, <1>7, <1>9, <1>11
    <2>3. l + q + 2 \in 1..(l + q + 2) /\ 1 \in 1..(l + q + 2) /\ 1 <= l + 1
          /\ ~(l + q + 2 <= l + 1) /\ ~(l + q + 2 <= l + 1 + q)
      BY <1>4, <1>7
    <2> QED
      BY <1>10, <1>11, <2>1, <2>2, <2>3
  \* The frames that were there,
  <1>13. ASSUME NEW k \in 1..l
         PROVE  LET full == sent'[of2[k]].len \div Big IN
                /\ of2[k] \in 1..(e + 1) /\ bef2[k] <= full
                /\ bef2[k] < full =>
                      inbound'[k] = Big /\ of2[k + 1] = of2[k] /\ bef2[k + 1] = bef2[k] + 1
                /\ bef2[k] = full =>
                      /\ inbound'[k] = sent'[of2[k]].len % Big
                      /\ of2[k + 1] = of2[k] + 1 /\ bef2[k + 1] = 0
    <2>1. k \in 1..(l + q + 2) /\ k + 1 \in 1..(l + q + 2) /\ k <= l + 1 /\ k + 1 <= l + 1
      BY <1>4, <1>7
    <2>2. of2[k] = of[k] /\ of2[k + 1] = of[k + 1] /\ bef2[k] = before[k] /\ bef2[k + 1] = before[k + 1]
      BY <1>10, <1>11, <2>1
    <2>3. LET full == sent[of[k]].len \div Big IN
          /\ of[k] \in 1..e /\ before[k] <= full
          /\ before[k] < full =>
                inbound[k] = Big /\ of[k + 1] = of[k] /\ before[k + 1] = before[k] + 1
          /\ before[k] = full =>
                /\ inbound[k] = sent[of[k]].len % Big
                /\ of[k + 1] = of[k] + 1 /\ before[k + 1] = 0
      BY <1>8 DEF Pieces, l, e
    <2>4. sent'[of[k]] = sent[of[k]] /\ inbound'[k] = inbound[k] /\ of[k] \in 1..(e + 1)
      BY <1>6, <1>7, <2>3
    <2> QED
      BY <2>2, <2>3, <2>4
  \* and those of the command.
  <1>14. ASSUME NEW k \in (l + 1)..(l + (q + 1))
         PROVE  LET full == sent'[of2[k]].len \div Big IN
                /\ of2[k] \in 1..(e + 1) /\ bef2[k] <= full
                /\ bef2[k] < full =>
                      inbound'[k] = Big /\ of2[k + 1] = of2[k] /\ bef2[k + 1] = bef2[k] + 1
                /\ bef2[k] = full =>
                      /\ inbound'[k] = sent'[of2[k]].len % Big
                      /\ of2[k + 1] = of2[k] + 1 /\ bef2[k + 1] = 0
    <2> DEFINE x == k - (l + 1)
    <2>1. x \in Nat /\ x <= q /\ k = l + (x + 1) /\ x + 1 \in 1..(q + 1)
      BY <1>4, <1>7
    <2> HIDE DEF x
    <2>2. k \in 1..(l + q + 2) /\ k + 1 \in 1..(l + q + 2) /\ ~(k + 1 <= l + 1)
          /\ (k <= l + 1 <=> x = 0) /\ k <= l + 1 + q /\ k - (l + 1) = x
          /\ (k + 1) - (l + 1) = x + 1 /\ (k + 1 <= l + 1 + q <=> x < q)
      BY <1>4, <1>7, <2>1
    <2>3. of2[k] = e + 1 /\ bef2[k] = x
      <3>1. CASE x = 0
        <4>1. k = l + 1
          BY <1>7, <2>1, <3>1
        <4> QED
          BY <1>9, <1>10, <1>11, <2>2, <3>1, <4>1
      <3>2. CASE x # 0
        BY <1>10, <1>11, <2>2, <3>2
      <3> QED
        BY <3>1, <3>2
    <2>4. /\ of2[k + 1] = IF x < q THEN e + 1 ELSE e + 2
          /\ bef2[k + 1] = IF x < q THEN x + 1 ELSE 0
      BY <1>10, <1>11, <2>2
    <2>5. sent'[of2[k]].len = n /\ of2[k] \in 1..(e + 1)
      BY <1>5, <1>6, <2>3
    <2>6. inbound'[k] = IF x + 1 <= q THEN Big ELSE n % Big
      BY <1>4, <1>7, <2>1
    <2>7. (x < q <=> x + 1 <= q) /\ (x < q <=> x # q) /\ (e + 1) + 1 = e + 2
      BY <1>4, <1>6, <2>1
    <2>8. sent'[of2[k]].len \div Big = q
      BY <2>5 DEF q
    <2> QED
      BY <2>1, <2>3, <2>4, <2>5, <2>6, <2>7, <2>8
  <1>15. Pieces(of2, bef2)'
    <2>1. Len(inbound') + 1 = l + q + 2 /\ Len(sent') + 1 = e + 2 /\ Len(sent') = e + 1
      BY <1>4, <1>6, <1>7
    <2>2. \A k \in 1..Len(inbound') : k \in 1..l \/ k \in (l + 1)..(l + (q + 1))
      BY <1>4, <1>7
    <2> QED
      BY <1>12, <1>13, <1>14, <2>1, <2>2 DEF Pieces
  <1>16. \A i \in 1..Len(taken) : i <= Len(sent') /\ taken[i] = sent'[i].len /\ taken[i] <= Allowed
    <2>1. ASSUME NEW i \in 1..Len(taken)
          PROVE  i <= Len(sent') /\ taken[i] = sent'[i].len /\ taken[i] <= Allowed
      <3>1. i <= e /\ taken[i] = sent[i].len /\ taken[i] <= Allowed
        BY <1>2 DEF PlainArrives, e
      <3>2. i \in 1..e
        BY <1>2, <1>6, <3>1 DEF RequestTyped
      <3> QED
        BY <1>6, <3>1, <3>2
    <2> QED
      BY <2>1
  <1>17. PlainArrives'
    <2>1. of2[1] = Len(taken') + 1 /\ gathered' = Reading(bef2[1])
      BY <1>1, <1>8, <1>12
    <2>2. (of2[1] = Len(taken) + 1)' /\ (gathered = Reading(bef2[1]))'
      BY <2>1 DEF Reading
    <2> QED
      BY <1>1, <1>15, <1>16, <2>2 DEF PlainArrives
  <1>18. RequestTyped'
    BY <1>1, <1>2, <1>6, <1>7 DEF RequestTyped
  <1> QED
    BY <1>1, <1>17, <1>18 DEF RequestInv

\* What a loop has gathered when it goes on with a frame.
Begun(frame) ==
    [done |-> gathered.done, rest |-> gathered.rest, total |-> gathered.total + Load(frame)]

\* What was gathered is taken when no command goes on.
LEMMA ArrivedTaken ==
    ASSUME taken \in Seq(Nat), sent' = sent, NEW r, NEW all \in Gathered, Arrived(r, all),
           all.rest = None, taken' = taken \o all.done, gathered' = Nothing
    PROVE  Arrived(r, gathered)'
  <1> DEFINE d == all.done
  <1>1. d \in Seq(Nat)
    BY DEF Gathered
  <1>2. Nothing.done = <<>> /\ Nothing.rest = None /\ Len(<<>>) = 0
    BY DEF Nothing
  <1>3. /\ Len(taken') = Len(taken) + Len(d) /\ Len(taken) \in Nat /\ Len(d) \in Nat
        /\ \A i \in 1..Len(taken) : taken'[i] = taken[i]
        /\ \A i \in 1..Len(d) : taken'[Len(taken) + i] = d[i]
    <2>1. /\ Len(taken \o d) = Len(taken) + Len(d) /\ Len(taken) \in Nat /\ Len(d) \in Nat
          /\ \A i \in 1..Len(taken) : (taken \o d)[i] = taken[i]
          /\ \A i \in 1..Len(d) : (taken \o d)[Len(taken) + i] = d[i]
      BY <1>1, Concatenated
    <2> QED
      BY <2>1
  <1>4. \A x : Apart(x)' <=> Apart(x)
    BY DEF Apart
  <1>5. ASSUME NEW x \in 1..r, Apart(x)'
        PROVE  /\ sent'[x].len <= Allowed
               /\ x <= Len(taken') + Len(gathered'.done)
               /\ x <= Len(taken') => taken'[x] = sent'[x].len
               /\ x > Len(taken') => gathered'.done[x - Len(taken')] = sent'[x].len
    <2>1. /\ x <= Len(taken) + Len(d) /\ sent'[x].len <= Allowed
          /\ x <= Len(taken) => taken[x] = sent[x].len
          /\ x > Len(taken) => d[x - Len(taken)] = sent[x].len
      BY <1>4, <1>5 DEF Arrived
    <2>2. x \in Nat /\ x >= 1 /\ x <= Len(taken') /\ Len(gathered'.done) = 0
      BY <1>2, <1>3, <2>1
    <2>3. taken'[x] = sent'[x].len
      <3>1. CASE x <= Len(taken)
        BY <1>3, <2>1, <2>2, <3>1
      <3>2. CASE x > Len(taken)
        <4>1. x - Len(taken) \in 1..Len(d) /\ Len(taken) + (x - Len(taken)) = x
          BY <1>3, <2>1, <2>2, <3>2
        <4> QED
          BY <1>3, <2>1, <3>2, <4>1
      <3> QED
        BY <1>3, <2>2, <3>1, <3>2
    <2>4. Len(taken') \in Nat /\ ~(x > Len(taken'))
      BY <1>3, <2>2
    <2>5. x <= Len(taken') + Len(gathered'.done)
      BY <2>2, <2>4
    <2> QED
      BY <2>1, <2>3, <2>4, <2>5
  <1>6. Apart(r)' => Len(taken') + Len(gathered'.done) = r /\ gathered'.rest = None
    <2> SUFFICES ASSUME Apart(r)'
                 PROVE  Len(taken') + Len(gathered'.done) = r /\ gathered'.rest = None
      OBVIOUS
    <2>1. Len(taken) + Len(d) = r
      BY <1>4 DEF Arrived
    <2> QED
      BY <1>2, <1>3, <2>1
  <1> QED
    BY <1>5, <1>6 DEF Arrived

\* A compressed frame is read.
LEMMA ReadPacked ==
    ASSUME RequestInv, packed, ReadFrame
    PROVE  RequestInv'
  <1> DEFINE f == Head(inbound)
             begun == Begun(f)
             all == Joins(begun, f)[Len(Inner(f))]
             l == Len(inbound)
  <1>1. /\ stage = "command" /\ inbound # <<>> /\ begun.total <= Allowed
        /\ inbound' = Tail(inbound)
        /\ IF all.rest # None THEN gathered' = all /\ taken' = taken
           ELSE gathered' = Nothing /\ taken' = taken \o all.done
        /\ UNCHANGED <<stage, packed, sent>>
    BY DEF ReadFrame, Idle, Begun
  <1>2. RequestTyped /\ PackedArrives
    BY <1>1 DEF RequestInv
  <1>3. /\ inbound \in Seq(Wraps) /\ taken \in Seq(Nat) /\ gathered \in Gathered
        /\ sent \in Seq(Commands)
    BY <1>2 DEF RequestTyped
  <1>4. /\ f = inbound[1] /\ f \in Wraps /\ l \in Nat /\ l >= 1
        /\ inbound' \in Seq(Wraps) /\ Len(inbound') = l - 1
        /\ \A i \in 1..(l - 1) : inbound'[i] = inbound[i + 1]
    <2>1. /\ Head(inbound) = inbound[1] /\ inbound[1] \in Wraps /\ l \in Nat /\ l >= 1
          /\ Tail(inbound) \in Seq(Wraps) /\ Len(Tail(inbound)) = l - 1
          /\ \A i \in 1..(l - 1) : Tail(inbound)[i] = inbound[i + 1]
      BY <1>1, <1>3, Rest
    <2> QED
      BY <1>1, <2>1
  <1>5. /\ Load(f) \in Int /\ Len(Inner(f)) \in Nat /\ Len(Inner(f)) >= 1
        /\ \A i \in 1..Len(Inner(f)) : Inner(f)[i] \in Nat
    BY <1>4, FrameLoads
  <1>6. /\ gathered.total \in Int /\ gathered.done \in Seq(Nat)
        /\ gathered.rest \in Nat \cup {None}
    BY <1>3 DEF Gathered
  <1>7. /\ begun \in Gathered /\ begun.done = gathered.done /\ begun.rest = gathered.rest
        /\ begun.total = gathered.total + Load(f)
    BY <1>5, <1>6 DEF Begun, Gathered
  <1> HIDE DEF begun
  <1>8. all \in Gathered
    <2>1. Len(Inner(f)) \in 0..Len(Inner(f))
      BY <1>5
    <2> QED
      BY <1>5, <1>7, <2>1, JoinsTyped
  <1>9. PICK at : Begins(at) /\ Arrived(at[0], gathered) /\ (Apart(at[0]) => gathered = Nothing)
    BY <1>2 DEF PackedArrives
  <1>10. /\ \A k \in 0..l : at[k] \in Nat /\ at[k] <= Len(sent)
         /\ Carries(sent, f, at[0], at[1])
    <2>1. \A k \in 0..l : at[k] \in Nat /\ at[k] <= Len(sent)
      BY <1>2, <1>9, BeginsInOrder
    <2>2. 1 \in 1..l /\ 1 - 1 = 0
      BY <1>4
    <2> QED
      BY <1>4, <1>9, <2>1, <2>2 DEF Begins
  <1>11. Arrived(at[0], begun) /\ at[0] \in Nat /\ at[1] \in Nat /\ at[1] <= Len(sent)
    BY <1>4, <1>7, <1>9, <1>10 DEF Arrived
  \* The commands before one that cannot be told from its next are read alone.
  <1>12. Apart(at[0]) => Load(f) <= Allowed
    <2> SUFFICES ASSUME Apart(at[0])
                 PROVE  Load(f) <= Allowed
      OBVIOUS
    <2>1. gathered.total = 0
      BY <1>9 DEF Nothing
    <2> QED
      BY <1>1, <1>5, <1>7, <2>1
  <1>13. Arrived(at[1], all)
    <2>1. CASE \E b \in Bundles : /\ f = Frame(b) /\ at[1] = at[0] + Len(b.packets)
                                  /\ \A i \in 1..Len(b.packets) : sent[at[0] + i] = Command(b, i)
      <3>1. PICK b \in Bundles : /\ f = Frame(b) /\ at[1] = at[0] + Len(b.packets)
                                 /\ \A i \in 1..Len(b.packets) : sent[at[0] + i] = Command(b, i)
        BY <2>1
      <3> HIDE DEF f
      <3> QED
        BY <1>2, <1>7, <1>11, <1>12, <3>1, FrameArrives
    <2>2. CASE at[1] >= at[0] /\ \E y \in 1..at[1] : y <= at[0] + 1 /\ ~sent[y].apart
      <3>1. PICK y \in 1..at[1] : y <= at[0] + 1 /\ ~sent[y].apart
        BY <2>2
      <3> HIDE DEF f
      <3> QED
        BY <1>2, <1>4, <1>7, <1>11, <2>2, <3>1, FrameSkipped
    <2> QED
      BY <1>10, <2>1, <2>2 DEF Carries
  <1> HIDE DEF all, f
  <1>14. gathered' \in Gathered /\ taken' \in Seq(Nat)
    <2>1. CASE all.rest # None
      BY <1>1, <1>3, <1>8, <2>1
    <2>2. CASE all.rest = None
      <3>1. gathered' = Nothing /\ taken' = taken \o all.done /\ all.done \in Seq(Nat)
        BY <1>1, <1>8, <2>2 DEF Gathered
      <3>2. taken' \in Seq(Nat)
        BY <1>3, <3>1, Concatenated
      <3> QED
        BY <3>1, <3>2 DEF Nothing, Gathered
    <2> QED
      BY <2>1, <2>2
  <1>15. Arrived(at[1], gathered)' /\ (Apart(at[1]) => gathered = Nothing)'
    <2>1. CASE all.rest # None
      <3>1. ~Apart(at[1])
        BY <1>13, <2>1 DEF Arrived
      <3>2. ~Apart(at[1])'
        BY <1>1, <3>1 DEF Apart
      <3>3. Arrived(at[1], gathered)'
        BY <1>1, <1>13, <2>1 DEF Arrived, Apart
      <3> QED
        BY <3>2, <3>3
    <2>2. CASE all.rest = None
      <3>1. gathered' = Nothing
        BY <1>1, <2>2
      <3>2. Arrived(at[1], gathered)'
        BY <1>1, <1>3, <1>8, <1>13, <2>2, ArrivedTaken
      <3> QED
        BY <3>1, <3>2 DEF Nothing
    <2> QED
      BY <2>1, <2>2
  <1>16. PackedArrives'
    <2>1. PICK to : to = [k \in 0..(l - 1) |-> at[k + 1]]
      OBVIOUS
    <2>2. at \in [0..l -> Nat] /\ at[l] = Len(sent)
      BY <1>9 DEF Begins
    <2>3. to \in [0..Len(inbound') -> Nat] /\ to[Len(inbound')] = Len(sent') /\ to[0] = at[1]
      BY <1>1, <1>4, <2>1, <2>2
    <2>4. ASSUME NEW k \in 1..Len(inbound')
          PROVE  Carries(sent', inbound'[k], to[k - 1], to[k])
      <3>1. k + 1 \in 1..l /\ (k + 1) - 1 = k /\ k \in 1..(l - 1)
            /\ k - 1 \in 0..(l - 1) /\ k \in 0..(l - 1) /\ (k - 1) + 1 = k
        BY <1>4
      <3>2. to[k] = at[k + 1] /\ to[k - 1] = at[k] /\ inbound'[k] = inbound[k + 1]
        BY <1>4, <2>1, <3>1
      <3>3. Carries(sent, inbound[k + 1], at[k], at[k + 1])
        BY <1>9, <3>1 DEF Begins
      <3> QED
        BY <1>1, <3>2, <3>3
    <2>5. Begins(to)'
      BY <2>3, <2>4 DEF Begins
    <2>6. (Arrived(to[0], gathered) /\ (Apart(to[0]) => gathered = Nothing))'
      BY <1>15, <2>3
    <2> QED
      BY <2>5, <2>6 DEF PackedArrives
  <1>17. RequestTyped'
    BY <1>1, <1>2, <1>4, <1>14 DEF RequestTyped
  <1> QED
    BY <1>1, <1>16, <1>17 DEF RequestInv

\* A plain frame is read: the frames after it are still of their commands.
LEMMA PlainRead ==
    ASSUME RequestTyped, ~packed, stage = "command", UNCHANGED <<stage, packed, sent>>,
           Len(inbound) >= 1, inbound' \in Seq(Nat), Len(inbound') = Len(inbound) - 1,
           \A i \in 1..(Len(inbound) - 1) : inbound'[i] = inbound[i + 1],
           NEW of, NEW before, Pieces(of, before),
           of[2] = Len(taken') + 1, (gathered = Reading(before[2]))',
           \A i \in 1..Len(taken') :
              i <= Len(sent) /\ taken'[i] = sent[i].len /\ taken'[i] <= Allowed,
           taken' \in Seq(Nat), gathered' \in Gathered
    PROVE  RequestInv'
  <1> DEFINE l == Len(inbound)
  <1>1. l \in Nat /\ Len(sent) \in Nat
    BY DEF RequestTyped
  <1>2. PICK of2 : of2 = [k \in 1..l |-> of[k + 1]]
    OBVIOUS
  <1>3. PICK bef2 : bef2 = [k \in 1..l |-> before[k + 1]]
    OBVIOUS
  <1>4. /\ \A k \in 1..(l + 1) : of[k] \in Nat /\ before[k] \in Nat
        /\ of[l + 1] = Len(sent) + 1 /\ before[l + 1] = 0
    BY DEF Pieces
  <1>5. /\ of2 \in [1..l -> Nat] /\ bef2 \in [1..l -> Nat]
        /\ of2[l] = Len(sent) + 1 /\ bef2[l] = 0
        /\ of2[1] = of[2] /\ bef2[1] = before[2]
    <2>1. \A k \in 1..l : k + 1 \in 1..(l + 1)
      BY <1>1
    <2>2. l \in 1..l /\ 1 \in 1..l /\ 1 + 1 = 2
      BY <1>1
    <2> QED
      BY <1>2, <1>3, <1>4, <2>1, <2>2
  <1>6. ASSUME NEW k \in 1..Len(inbound')
        PROVE  LET full == sent'[of2[k]].len \div Big IN
               /\ of2[k] \in 1..Len(sent) /\ bef2[k] <= full
               /\ bef2[k] < full =>
                     inbound'[k] = Big /\ of2[k + 1] = of2[k] /\ bef2[k + 1] = bef2[k] + 1
               /\ bef2[k] = full =>
                     /\ inbound'[k] = sent'[of2[k]].len % Big
                     /\ of2[k + 1] = of2[k] + 1 /\ bef2[k + 1] = 0
    <2>1. k + 1 \in 1..l /\ k \in 1..l /\ k \in 1..(l - 1)
      BY <1>1
    <2>2. /\ of2[k] = of[k + 1] /\ of2[k + 1] = of[(k + 1) + 1]
          /\ bef2[k] = before[k + 1] /\ bef2[k + 1] = before[(k + 1) + 1]
          /\ inbound'[k] = inbound[k + 1]
      BY <1>2, <1>3, <2>1
    <2>3. LET full == sent[of[k + 1]].len \div Big IN
          /\ of[k + 1] \in 1..Len(sent) /\ before[k + 1] <= full
          /\ before[k + 1] < full =>
                /\ inbound[k + 1] = Big
                /\ of[(k + 1) + 1] = of[k + 1] /\ before[(k + 1) + 1] = before[k + 1] + 1
          /\ before[k + 1] = full =>
                /\ inbound[k + 1] = sent[of[k + 1]].len % Big
                /\ of[(k + 1) + 1] = of[k + 1] + 1 /\ before[(k + 1) + 1] = 0
      BY <2>1 DEF Pieces
    <2> QED
      BY <2>2, <2>3
  <1>7. Pieces(of2, bef2)'
    <2>1. Len(inbound') + 1 = l /\ sent' = sent
      BY <1>1
    <2> QED
      BY <1>5, <1>6, <2>1 DEF Pieces
  <1>8. PlainArrives'
    <2>1. (of2[1] = Len(taken) + 1)' /\ (gathered = Reading(bef2[1]))'
      BY <1>5 DEF Reading
    <2> QED
      BY <1>7, <2>1 DEF PlainArrives
  <1>9. RequestTyped'
    BY DEF RequestTyped
  <1> QED
    BY <1>8, <1>9 DEF RequestInv

LEMMA ReadPlain ==
    ASSUME RequestInv, ~packed, ReadFrame
    PROVE  RequestInv'
  <1> DEFINE f == Head(inbound)
             begun == Begun(f)
             all == Joins(begun, f)[Len(Inner(f))]
             l == Len(inbound)
  <1>1. /\ stage = "command" /\ inbound # <<>> /\ begun.total <= Allowed
        /\ inbound' = Tail(inbound)
        /\ IF all.rest # None THEN gathered' = all /\ taken' = taken
           ELSE gathered' = Nothing /\ taken' = taken \o all.done
        /\ UNCHANGED <<stage, packed, sent>>
    BY DEF ReadFrame, Idle, Begun
  <1>2. RequestTyped /\ PlainArrives
    BY <1>1 DEF RequestInv
  <1>3. inbound \in Seq(Nat) /\ taken \in Seq(Nat) /\ sent \in Seq(Commands)
    BY <1>2 DEF RequestTyped
  <1>4. /\ f = inbound[1] /\ f \in Nat /\ l \in Nat /\ l >= 1
        /\ inbound' \in Seq(Nat) /\ Len(inbound') = l - 1
        /\ \A i \in 1..(l - 1) : inbound'[i] = inbound[i + 1]
    <2>1. /\ Head(inbound) = inbound[1] /\ inbound[1] \in Nat /\ l \in Nat /\ l >= 1
          /\ Tail(inbound) \in Seq(Nat) /\ Len(Tail(inbound)) = l - 1
          /\ \A i \in 1..(l - 1) : Tail(inbound)[i] = inbound[i + 1]
      BY <1>1, <1>3, Rest
    <2> QED
      BY <1>1, <2>1
  <1>5. PICK of, before :
          Pieces(of, before) /\ of[1] = Len(taken) + 1 /\ gathered = Reading(before[1])
    BY <1>2 DEF PlainArrives
  <1> DEFINE c == sent[of[1]].len
             q == c \div Big
             j == before[1]
  <1>6. /\ of[1] \in 1..Len(sent) /\ j \in Nat /\ j <= q
        /\ j < q => f = Big /\ of[2] = of[1] /\ before[2] = j + 1
        /\ j = q => f = c % Big /\ of[2] = of[1] + 1 /\ before[2] = 0
    <2>1. 1 \in 1..l /\ 1 \in 1..(l + 1) /\ 1 + 1 = 2
      BY <1>4
    <2>2. j \in Nat
      BY <1>5, <2>1 DEF Pieces
    <2>3. \A k \in 1..l : LET full == sent[of[k]].len \div Big IN
              /\ of[k] \in 1..Len(sent) /\ before[k] <= full
              /\ before[k] < full =>
                    inbound[k] = Big /\ of[k + 1] = of[k] /\ before[k + 1] = before[k] + 1
              /\ before[k] = full =>
                    inbound[k] = sent[of[k]].len % Big /\ of[k + 1] = of[k] + 1 /\ before[k + 1] = 0
      BY <1>5, Zenon DEF Pieces
    <2> HIDE DEF l
    <2>4. /\ of[1] \in 1..Len(sent) /\ j <= q
          /\ j < q => inbound[1] = Big /\ of[1 + 1] = of[1] /\ before[1 + 1] = j + 1
          /\ j = q => inbound[1] = c % Big /\ of[1 + 1] = of[1] + 1 /\ before[1 + 1] = 0
      BY <2>1, <2>3, Zenon
    <2> QED
      BY <1>4, <2>1, <2>2, <2>4, Zenon
  <1>7. c \in Nat /\ q \in Nat /\ c % Big # Big /\ c = q * Big + (c % Big) /\ Big \in Nat
    <2>1. c \in Nat
      <3>1. sent[of[1]] \in Commands
        BY <1>3, <1>6
      <3> QED
        BY <3>1 DEF Commands
    <2> QED
      BY <2>1, Fills
  \* What is gathered after the frame.
  <1>8. /\ begun = [done |-> <<>>, rest |-> IF j = 0 THEN None ELSE j * Big, total |-> j * Big + f]
        /\ all = Join(begun, f, f)
    <2>1. Load(f) = f
      BY DEF Load
    <2>2. Inner(f) = <<f>> /\ Declared(f, 1) = f
      BY DEF Inner, Declared
    <2>3. Len(Inner(f)) = 1 /\ Inner(f)[1] = f
      BY <2>2
    <2>4. /\ gathered.done = <<>> /\ gathered.rest = IF j = 0 THEN None ELSE j * Big
          /\ gathered.total = j * Big
      BY <1>5 DEF Reading
    <2>5. begun = [done |-> <<>>, rest |-> IF j = 0 THEN None ELSE j * Big, total |-> j * Big + f]
      BY <2>1, <2>4 DEF Begun
    <2> HIDE DEF begun, f
    <2>6. Joins(begun, f)[1] = Join(Joins(begun, f)[1 - 1], Declared(f, 1), Inner(f)[1])
      <3>1. 1 \in 0..Len(Inner(f)) /\ Len(Inner(f)) \in Nat /\ 1 # 0
        BY <2>3
      <3> QED
        BY <3>1, JoinsDefined
    <2>7. Joins(begun, f)[0] = begun
      BY <2>3, JoinsDefined
    <2> QED
      BY <2>2, <2>3, <2>5, <2>6, <2>7
  <1> DEFINE sum == f + IF begun.rest = None THEN 0 ELSE begun.rest
  <1>9. /\ sum = j * Big + f /\ begun.total = sum /\ sum \in Nat
        /\ all = IF f = Big THEN [done |-> <<>>, rest |-> sum, total |-> sum]
                 ELSE [done |-> Append(<<>>, sum), rest |-> None, total |-> sum]
    <2>1. j * Big \in Nat /\ (j = 0 => j * Big = 0) /\ (j # 0 => j * Big # None)
      BY <1>6 DEF Big, None
    <2>2. sum = j * Big + f
      BY <1>4, <1>8, <2>1
    <2>3. begun.total = sum /\ begun.done = <<>>
      BY <1>8, <2>2
    <2>4. sum \in Nat
      BY <1>4, <2>1, <2>2
    <2> HIDE DEF f
    <2>5. Join(begun, f, f) = IF f = Big THEN [done |-> begun.done, rest |-> sum, total |-> begun.total]
             ELSE [done |-> Append(begun.done, sum), rest |-> None, total |-> begun.total]
      BY Zenon DEF Join, Full
    <2> QED
      BY <1>8, <2>2, <2>3, <2>4, <2>5
  <1> HIDE DEF all, begun, f, c, q, j, sum
  \* The command goes on, or it is complete.
  <1>10. CASE j < q
    <2>1. f = Big /\ of[2] = of[1] /\ before[2] = j + 1 /\ sum = (j + 1) * Big
      BY <1>6, <1>9, <1>10 DEF Big
    <2>2. sum # None /\ j + 1 # 0
      BY <1>6, <1>9 DEF None
    <2>3. gathered' = Reading(j + 1) /\ taken' = taken
      BY <1>1, <1>9, <2>1, <2>2 DEF Reading
    <2>4. /\ of[2] = Len(taken') + 1 /\ (gathered = Reading(before[2]))'
          /\ \A i \in 1..Len(taken') :
                i <= Len(sent) /\ taken'[i] = sent[i].len /\ taken'[i] <= Allowed
      BY <1>2, <1>5, <2>1, <2>3 DEF PlainArrives, Reading
    <2>5. taken' \in Seq(Nat)
      BY <1>3, <2>3
    <2>6. gathered' \in Gathered
      <3>1. gathered' = [done |-> <<>>, rest |-> sum, total |-> sum]
        BY <1>1, <1>9, <2>1, <2>2
      <3> QED
        BY <1>9, <3>1 DEF Gathered
    <2> QED
      BY <1>1, <1>2, <1>4, <1>5, <2>4, <2>5, <2>6, PlainRead
  <1>11. CASE j = q
    <2>1. f # Big /\ of[2] = of[1] + 1 /\ before[2] = 0 /\ sum = c
      BY <1>6, <1>7, <1>9, <1>11
    <2>2. all.rest = None /\ all.done = <<c>>
      BY <1>9, <2>1
    <2>3. gathered' = Nothing /\ taken' = taken \o <<c>>
      BY <1>1, <2>2
    <2>4. /\ taken' \in Seq(Nat) /\ Len(taken') = Len(taken) + 1 /\ Len(taken) \in Nat
          /\ taken'[Len(taken) + 1] = c
          /\ \A i \in 1..Len(taken) : taken'[i] = taken[i]
      <3>1. <<c>> \in Seq(Nat) /\ Len(<<c>>) = 1 /\ <<c>>[1] = c
        BY <1>7
      <3>2. /\ taken \o <<c>> \in Seq(Nat) /\ Len(taken \o <<c>>) = Len(taken) + Len(<<c>>)
            /\ Len(taken) \in Nat
            /\ \A i \in 1..Len(taken) : (taken \o <<c>>)[i] = taken[i]
            /\ \A i \in 1..Len(<<c>>) : (taken \o <<c>>)[Len(taken) + i] = <<c>>[i]
        BY <1>3, <3>1, Concatenated
      <3> QED
        BY <2>3, <3>1, <3>2
    <2>5. of[2] = Len(taken') + 1 /\ (gathered = Reading(before[2]))'
      <3>1. Nothing = Reading(0)
        <4>1. 0 * Big = 0
          BY DEF Big
        <4> QED
          BY <4>1 DEF Nothing, Reading
      <3>2. gathered' = Reading(before[2])
        BY <2>1, <2>3, <3>1
      <3> QED
        BY <1>5, <2>1, <2>4, <3>2 DEF Reading
    <2>6. \A i \in 1..Len(taken') :
             i <= Len(sent) /\ taken'[i] = sent[i].len /\ taken'[i] <= Allowed
      <3>1. ASSUME NEW i \in 1..Len(taken')
            PROVE  i <= Len(sent) /\ taken'[i] = sent[i].len /\ taken'[i] <= Allowed
        <4>1. CASE i \in 1..Len(taken)
          BY <1>2, <2>4, <4>1 DEF PlainArrives
        <4>2. CASE i = Len(taken) + 1
          <5>1. c <= Allowed
            BY <1>1, <1>9, <2>1
          <5> QED
            BY <1>5, <1>6, <2>4, <4>2, <5>1 DEF c
        <4> QED
          BY <2>4, <4>1, <4>2
      <3> QED
        BY <3>1
    <2>8. gathered' \in Gathered
      BY <2>3 DEF Nothing, Gathered
    <2> QED
      BY <1>1, <1>2, <1>4, <1>5, <2>4, <2>5, <2>6, <2>8, PlainRead
  <1> QED
    BY <1>6, <1>7, <1>10, <1>11

LEMMA RequestNext == RequestInv /\ [Next]_vars => RequestInv'
  <1> SUFFICES ASSUME RequestInv, [Next]_vars
               PROVE  RequestInv'
    OBVIOUS
  <1> DEFINE read == <<packed, sent, inbound, gathered, taken>>
  <1>1. ASSUME NEW v10 \in BOOLEAN, Greet(v10)
        PROVE  RequestInv'
    <2>1. UNCHANGED read /\ stage = "greet"
      BY <1>1 DEF Greet, requests
    <2> QED
      BY <2>1, RequestKept
  <1>2. CASE Ends
    BY <1>2, RequestShut DEF Ends
  <1>3. ASSUME NEW l \in Logins, Login(l)
        PROVE  RequestInv'
    <2>1. l.compress \in BOOLEAN /\ Compression \in BOOLEAN
      BY WireAssumption
    <2>2. /\ stage = "login" /\ stage' = "command" /\ UNCHANGED requests
          /\ packed' = (l.compress /\ Compression)
      BY <1>3 DEF Login
    <2>3. packed' \in BOOLEAN
      BY <2>1, <2>2
    <2> QED
      BY <2>2, <2>3, RequestLogin
  <1>4. ASSUME NEW l \in Logins, NEW m \in Messages, LoginRefused(l, m)
        PROVE  RequestInv'
    BY <1>4, RequestShut DEF LoginRefused
  <1>5. ASSUME NEW n \in Payloads, ClientSends(n)
        PROVE  RequestInv'
    BY <1>5, RequestPlain
  <1>6. ASSUME NEW b \in Bundles, ClientSendsBundle(b)
        PROVE  RequestInv'
    BY <1>6, RequestBundle
  <1>12. ASSUME NEW c \in Straddlers, ClientStraddles(c)
         PROVE  RequestInv'
    BY <1>12, RequestStraddles
  <1>7. CASE ReadFrame
    BY <1>7, ReadPacked, ReadPlain
  <1>8. CASE TooLarge
    BY <1>8, RequestShut DEF TooLarge
  <1>9. CASE ResultFails
    BY <1>9, RequestShut DEF ResultFails
  \* A reply reads nothing.
  <1>10. ASSUME \/ Ping \/ (\E m \in Messages : Refuse(m)) \/ (\E r \in Results : StartResult(r))
                \/ WriteField \/ FieldsEnd \/ WriteRow \/ RowsEnd
         PROVE  RequestInv'
    <2>1. UNCHANGED read /\ stage # "closed" /\ stage' \notin {"greet", "login"}
      BY <1>10 DEF Ping, Refuse, StartResult, WriteField, FieldsEnd, WriteRow, RowsEnd, requests
    <2> QED
      BY <2>1, RequestKept
  <1>11. CASE UNCHANGED vars
    <2>1. UNCHANGED read /\ UNCHANGED stage
      BY <1>11 DEF vars, requests
    <2> QED
      BY <2>1, RequestKept
  <1> QED
    BY <1>1, <1>2, <1>3, <1>4, <1>5, <1>6, <1>7, <1>8, <1>9, <1>10, <1>11, <1>12 DEF Next

\* Every command arrives as it was sent and in its order, from the plain frames
\* that it fills or the compressed frame it shares, and none is larger than
\* allowed, up to the first command that cannot be told from its next, be it
\* one that straddles compressed frames: for commands of every length, any
\* limit, and any frames on the way.
THEOREM CommandsSurvive == Spec => []CommandsArriveWhole
  <1>1. RequestInv => CommandsArriveWhole
    <2> SUFFICES ASSUME RequestInv
                 PROVE  CommandsArriveWhole
      OBVIOUS
    <2>1. CASE stage = "closed"
      BY <2>1 DEF RequestInv
    <2>2. CASE stage # "closed"
      BY <2>2, ArriveWhole DEF RequestInv
    <2> QED
      BY <2>1, <2>2
  <1>2. Spec => []RequestInv
    BY RequestInit, RequestNext, PTL DEF Spec
  <1> QED
    BY <1>1, <1>2, PTL
=============================================================================
