-------------------------------- MODULE Wire --------------------------------
(***************************************************************************)
(* The packets of one client connection: the read handler puts commands    *)
(* together from the frames that arrive, plain or compressed, and replies  *)
(* are laid out packet by packet in the connection's write buffer. A       *)
(* packet is its lengths: what its header declares and the bytes that are  *)
(* written. What a command asks for and whether a login is admitted is     *)
(* chosen here and modelled in Session. Writing past the end of a buffer   *)
(* throws.                                                                 *)
(***************************************************************************)
EXTENDS Integers, Sequences, FiniteSets, SequencesExt

CONSTANTS
    Chunk,       \* the write buffer of a new connection
    Total,       \* BufferPool.totalSize, for this connection alone
    Allowed,     \* maxAllowedPacket
    Compression, \* useCompression
    Version,     \* the length of the server version
    Logins,      \* the login packets a client may send
    Payloads,    \* the command lengths it may send in plain frames
    Bundles,     \* the packets it may wrap in one compressed frame
    Straddlers,  \* the commands that do not fit in one, with their frames
    Messages,    \* error messages, with their characters and bytes
    Results,     \* result sets: lengths of the aliases, lengths of the rows
    Ids,         \* the sequence ids of a byte, 256; fewer wrap around sooner
    MaxCommands  \* bound: frames or commands in a session

Big == 2^24 - 1         \* MysqlPacket.maxPayloadSize, 0xffffff
BigInner == Big - 4     \* maxPacketLen of readCompressed
HeaderSize == 4
MinCompress == 1536
ErrMsgSize == 512

\* The lengths of the strings a client asks for: no Buffer is longer.
Lengths == 0..(2^30 + (2^30 - 1))

\* The sums of the first i numbers of a sequence, and of all.
Sums(s) ==
    LET sum[i \in 0..Len(s)] == IF i = 0 THEN 0 ELSE sum[i - 1] + s[i] IN sum

SumOf(s) == Sums(s)[Len(s)]

\* A piece of what a compressed frame wraps: the length that its header
\* declares, and the bytes that are there, the header's among them.
Piece == [len: Nat, size: Nat]
Whole(n) == [len |-> n, size |-> HeaderSize + n]

Wrapped(frame) == SumOf([i \in DOMAIN frame.pieces |-> frame.pieces[i].size])

\* splitPackets cuts at the lengths that are declared, and the last piece at
\* the end. Bytes of a header that are not there read as 0.
Split(pieces) ==
    \A i \in DOMAIN pieces : LET q == pieces[i] IN
        /\ IF i < Len(pieces) THEN q = Whole(q.len) ELSE q.size \in 1..(HeaderSize + q.len)
        /\ q.len < 2^(8 * (IF q.size < 3 THEN q.size ELSE 3))

\* The lengths of a compressed frame have three bytes, so that a longer command
\* fills frames. The first begins with its header; what the others begin with
\* is read as a header, whatever it is.
Straddles(c) ==
    LET n == Len(c.frames) IN
    /\ c.len > BigInner
    /\ c.frames[1].pieces = <<[len |-> IF c.len < Big THEN c.len ELSE Big, size |-> Big]>>
    /\ \A i \in 1..n : Split(c.frames[i].pieces)
    /\ \A i \in 1..(n - 1) : Wrapped(c.frames[i]) = Big
    /\ Wrapped(c.frames[n]) = c.len + HeaderSize * (c.len \div Big + 1) - (n - 1) * Big

ASSUME WireAssumption ==
    /\ Chunk \in Nat /\ Total \in Nat /\ Allowed \in Nat /\ Version \in Nat
    /\ Ids \in Nat \ {0}
    /\ Compression \in BOOLEAN
    /\ Logins \subseteq [seq: Nat, database: BOOLEAN, charset: BOOLEAN,
                        native: BOOLEAN, compress: BOOLEAN]
    /\ Payloads \subseteq Nat
    /\ Bundles \subseteq [deflated: BOOLEAN, packets: Seq(Nat) \ {<<>>}]
    /\ Straddlers \subseteq
          [len: Nat, frames: Seq([deflated: BOOLEAN, pieces: Seq(Piece) \ {<<>>}]) \ {<<>>}]
    /\ \A c \in Straddlers : Straddles(c)
    /\ Messages \subseteq [chars: Nat, bytes: Nat]
    /\ Results \subseteq [names: Seq(Lengths), rows: Seq(Seq(Lengths))]

VARIABLES
    stage,      \* "greet", "login", "command", "fields", "rows" or "closed"
    packed,     \* supportCompress
    sent,       \* the commands the client has sent
    inbound,    \* the frames that have not been read
    gathered,   \* what a loop of readPackets has so far
    queue,      \* the commands it has returned that are not handled
    taken,      \* all the commands it has returned
    cap,        \* the length of the write buffer
    p,          \* the position in it
    out,        \* the packets laid out in it
    job,        \* the result set that is being laid out
    seq, last,  \* the sequence ids of sendResultSet and of its last row packet
    wire        \* the writes that answer the last login or command

requests == <<sent, inbound, gathered, queue, taken>>
layout == <<p, out, job, seq, last>>
vars == <<stage, packed, requests, cap, layout, wire>>

None == -1

\* The commands that are complete, the length of the one that is not, and the
\* sum that is held against maxAllowedPacket.
Nothing == [done |-> <<>>, rest |-> None, total |-> 0]

Init ==
    /\ stage = "greet" /\ packed = FALSE
    /\ sent = <<>> /\ inbound = <<>> /\ gathered = Nothing
    /\ queue = <<>> /\ taken = <<>>
    /\ cap = Chunk /\ p = 0 /\ out = <<>>
    /\ job = [names |-> <<>>, rows |-> <<>>]
    /\ seq = 0 /\ last = None /\ wire = <<>>

-----------------------------------------------------------------------------
\* Length-encoded numbers.

\* lengthEncodedOf: the bytes of a number.
EncodedLength(n) ==
    IF n < 251 THEN 1 ELSE IF n < 2^16 THEN 3 ELSE IF n < 2^24 THEN 4 ELSE 9

\* The byte of a number that counts w.
Byte(n, w) == (n \div w) % 256

\* Mutant: the number 251 in one byte, as in its own mark for NULL.
EncodeShort(n) ==
    IF n <= 251 THEN <<n>>
    ELSE IF n < 2^16 THEN <<252, Byte(n, 1), Byte(n, 2^8)>>
    ELSE IF n < 2^24 THEN <<253, Byte(n, 1), Byte(n, 2^8), Byte(n, 2^16)>>
    ELSE <<254, Byte(n, 1), Byte(n, 2^8), Byte(n, 2^16), Byte(n, 2^24), 0, 0, 0, 0>>

\* writeLengthEncoded.
Encode(n) ==
    IF n < 251 THEN <<n>>
    ELSE IF n < 2^16 THEN <<252, Byte(n, 1), Byte(n, 2^8)>>
    ELSE IF n < 2^24 THEN <<253, Byte(n, 1), Byte(n, 2^8), Byte(n, 2^16)>>
    ELSE <<254, Byte(n, 1), Byte(n, 2^8), Byte(n, 2^16), Byte(n, 2^24), 0, 0, 0, 0>>

\* readLength.
Decode(b) ==
    IF b[1] = 251 THEN None
    ELSE IF b[1] = 252 THEN b[2] + 2^8 * b[3]
    ELSE IF b[1] = 253 THEN b[2] + 2^8 * b[3] + 2^16 * b[4]
    ELSE IF b[1] = 254 THEN b[2] + 2^8 * b[3] + 2^16 * b[4] + 2^24 * b[5]
    ELSE b[1]

\* The two-byte and the eight-byte form are written by functions of the buffer
\* that nothing else calls: they may not exist.
Wide(n) == n \in 251..(2^16 - 1) \/ n >= 2^24

\* bufferLength, and the bytes of writeBytesWithLength.
Counted(n) == EncodedLength(n) + n
Written(n) == Len(Encode(n)) + n

-----------------------------------------------------------------------------
\* A packet: its sequence id, the length it declares, its bytes after the
\* header.

Packet(kind, id, declared, bytes) ==
    [kind |-> kind, seq |-> id % Ids, len |-> declared, bytes |-> bytes]

SizeOf(packets) == SumOf([i \in DOMAIN packets |-> HeaderSize + packets[i].bytes])

Handshake(v10) ==
    IF v10
    THEN Packet("handshake", 0,
            1 + (Version + 1) + 4 + 8 + 1 + 2 + 1 + 2 + 2 + 1 + 10 + 13 + (21 + 1),
            1 + Version + 1 + 4 + (8 + 1) + (2 + 1 + 2 + 2) + 1 + 10 + (12 + 1) + 21 + 1)
    ELSE Packet("handshake", 0,
            1 + Version + 5 + 8 + 19 + 12 + 1,
            1 + Version + 1 + 4 + (8 + 1) + (2 + 1 + 2) + 13 + 12 + 1)

\* The two constant packets: the answer to a login, and to a ping.
Ok(id) == Packet("ok", id, 7, 7)

\* The length is compared with the message itself, so a long one is declared
\* clipped and written whole; and its characters are counted, not its bytes.
Error(id, m) ==
    Packet("error", id,
        3 + 6 + (IF m.chars > ErrMsgSize THEN ErrMsgSize ELSE m.chars), 3 + 6 + m.bytes)

ResultHeader(id, count) ==
    Packet("header", id, EncodedLength(count), Len(Encode(count)))

\* Mutant: the strings that are absent are not counted.
FieldOfPresent(id, n) ==
    Packet("field", id,
        Counted(3) + Counted(n) + 13,
        Written(3) + 1 + 1 + 1 + Written(n) + 1 + (1 + 2 + 4 + 1 + 2 + 1) + 2)

\* Of the six strings only the catalog and the name are present.
Field(id, n) ==
    Packet("field", id,
        Counted(3) + 1 + 1 + 1 + Counted(n) + 1 + 13,
        Written(3) + 1 + 1 + 1 + Written(n) + 1 + (1 + 2 + 4 + 1 + 2 + 1) + 2)

Eof(id) == Packet("eof", id, 5, 1 + 2 + 2)

\* An absent value and an empty one are one byte each.
Row(id, values) ==
    Packet("row", id,
        SumOf([i \in DOMAIN values |-> IF values[i] > 0 THEN Counted(values[i]) ELSE 1]),
        SumOf([i \in DOMAIN values |-> IF values[i] > 0 THEN Written(values[i]) ELSE 1]))

-----------------------------------------------------------------------------
\* The write buffer, and writing it.

\* ensureWriteBuffer: a growing buffer is tested with its old length counted.
Grown(size) == IF size > cap THEN size ELSE cap
Fits(size) == size <= cap \/ size + cap <= Total

\* The packet can be laid out at the position.
Holds(at, f) ==
    /\ Fits(at + HeaderSize + f.len)
    /\ at + HeaderSize + f.bytes <= Grown(at + HeaderSize + f.len)

\* A small write is stored in a compressed frame as it is; either way the
\* frame takes the sequence id of its first packet.
Write(packets, compressed) ==
    [packets |-> packets, compressed |-> compressed,
     stored |-> compressed /\ SizeOf(packets) < MinCompress]

\* The session is over; the write buffer goes back to the pool.
Shut ==
    /\ stage' = "closed"
    /\ inbound' = <<>> /\ queue' = <<>> /\ gathered' = Nothing
    /\ UNCHANGED <<packed, sent, taken, layout>>

\* A packet follows in the buffer.
Put(f) ==
    /\ Holds(p, f)
    /\ cap' = Grown(p + HeaderSize + f.len)
    /\ p' = p + HeaderSize + f.bytes
    /\ out' = Append(out, f)

\* A packet on its own is laid out and written.
Send(f, compressed) ==
    /\ Holds(0, f)
    /\ cap' = Grown(HeaderSize + f.len)
    /\ wire' = <<Write(<<f>>, compressed)>>

\* A reply that the buffer cannot hold, a peer that closes or quits, and in
\* the login: another plugin, for which the switch packet cannot be made, and
\* a charset index that success() cannot set.
Ends ==
    /\ \/ stage \in {"greet", "login"} \/ (stage = "command" /\ queue = <<>>)
       \/ stage = "command" /\ queue # <<>> /\ \E m \in Messages : ~Holds(0, Error(1, m))
    /\ Shut
    /\ UNCHANGED <<cap, wire>>

-----------------------------------------------------------------------------
\* The handshake of either version, as useHandshakeV10 says.
Greet(v10) ==
    /\ stage = "greet"
    /\ Send(Handshake(v10), FALSE)
    /\ stage' = "login"
    /\ UNCHANGED <<packed, requests, layout>>

\* A login that is admitted. The answer is compressed already.
Login(l) ==
    /\ stage = "login" /\ l.charset /\ l.native
    /\ stage' = "command"
    /\ packed' = (l.compress /\ Compression)
    /\ wire' = <<Write(<<Ok(l.seq + 1)>>, packed')>>
    /\ UNCHANGED <<requests, cap, layout>>

\* One that is not, or that names a database in an unknown charset, is told
\* why; after the latter, read() names an undefined variable.
LoginRefused(l, m) ==
    LET unread == l.database /\ ~l.charset IN
    /\ stage = "login" /\ (l.native \/ unread)
    /\ Send(Error(IF unread THEN 2 ELSE l.seq + 1, m), FALSE)
    /\ Shut

-----------------------------------------------------------------------------
\* The client sends a command, in frames of which only the last is not full.

Frames(n) ==
    [i \in 1..((n \div Big) + 1) |-> IF i <= n \div Big THEN Big ELSE n % Big]

ClientSends(n) ==
    /\ stage = "command" /\ ~packed
    /\ Len(sent) < MaxCommands
    /\ sent' = Append(sent, [len |-> n, apart |-> TRUE])
    /\ inbound' = inbound \o Frames(n)
    /\ UNCHANGED <<stage, packed, gathered, queue, taken, cap, layout, wire>>

\* What the code can tell from the next command of a compressed frame.
Command(b, i) ==
    [len |-> b.packets[i],
     apart |-> b.packets[i] # BigInner /\ (b.deflated \/ Len(b.packets) = 1)]

Frame(b) ==
    [deflated |-> b.deflated, pieces |-> [i \in DOMAIN b.packets |-> Whole(b.packets[i])]]

\* Or several commands, each in a packet of its own, in a compressed frame.
ClientSendsBundle(b) ==
    /\ stage = "command" /\ packed
    /\ Len(sent) < MaxCommands
    /\ Wrapped(Frame(b)) <= Big
    /\ sent' = sent \o [i \in DOMAIN b.packets |-> Command(b, i)]
    /\ inbound' = Append(inbound, Frame(b))
    /\ UNCHANGED <<stage, packed, gathered, queue, taken, cap, layout, wire>>

\* Or one that does not fit in a frame.
ClientStraddles(c) ==
    /\ stage = "command" /\ packed
    /\ Len(sent) < MaxCommands
    /\ sent' = Append(sent, [len |-> c.len, apart |-> FALSE])
    /\ inbound' = inbound \o c.frames
    /\ UNCHANGED <<stage, packed, gathered, queue, taken, cap, layout, wire>>

Idle == stage = "command" /\ queue = <<>> /\ inbound # <<>>

\* What the loop of readPackets counts of a frame: of a deflated one the bytes
\* less a header, though that be less than none.
Load(frame) ==
    IF ~packed THEN frame
    ELSE Wrapped(frame) - IF frame.deflated THEN HeaderSize ELSE 0

\* What follows the header.
Payload(size) == IF size > HeaderSize THEN size - HeaderSize ELSE 0

\* The lengths of the pieces of a frame. decompressMysqlPacket does not split
\* what was stored as it is.
Inner(frame) ==
    IF ~packed THEN <<frame>>
    ELSE IF frame.deflated
    THEN [i \in DOMAIN frame.pieces |-> Payload(frame.pieces[i].size)]
    ELSE <<Payload(Wrapped(frame))>>

\* What the header of the i-th piece declares.
Declared(frame, i) == IF packed THEN frame.pieces[i].len ELSE frame

\* The length by which a packet tells that it goes on in the next.
Full == IF packed THEN BigInner ELSE Big

\* Mutant: one piece is one command.
JoinNone(acc, declared, n) == [acc EXCEPT !.done = Append(@, n)]

\* A piece continues the command; it ends it unless its header says full.
Join(acc, declared, n) ==
    LET sum == n + IF acc.rest = None THEN 0 ELSE acc.rest IN
    IF declared = Full
    THEN [done |-> acc.done, rest |-> sum, total |-> acc.total]
    ELSE [done |-> Append(acc.done, sum), rest |-> None, total |-> acc.total]

\* What is gathered after each piece of a frame.
Joins(acc, frame) ==
    LET joined[i \in 0..Len(Inner(frame))] ==
            IF i = 0 THEN acc
            ELSE Join(joined[i - 1], Declared(frame, i), Inner(frame)[i])
    IN joined

\* The loop of readPackets, once; when no packet goes on, it returns.
ReadFrame ==
    LET frame == Head(inbound)
        begun == [done |-> gathered.done, rest |-> gathered.rest,
                  total |-> gathered.total + Load(frame)]
        all == Joins(begun, frame)[Len(Inner(frame))] IN
    /\ Idle /\ begun.total <= Allowed
    /\ inbound' = Tail(inbound)
    /\ IF all.rest # None
       THEN gathered' = all /\ UNCHANGED <<queue, taken>>
       ELSE gathered' = Nothing /\ queue' = all.done /\ taken' = taken \o all.done
    /\ UNCHANGED <<stage, packed, sent, cap, layout, wire>>

\* More than is allowed: an error packet, and the connection is closed.
TooLarge ==
    /\ Idle /\ gathered.total + Load(Head(inbound)) > Allowed
    /\ Send(Error(2, [chars |-> 51, bytes |-> 51]), packed)
    /\ Shut

-----------------------------------------------------------------------------
\* The next command is handled.

Ping ==
    /\ stage = "command" /\ queue # <<>>
    /\ queue' = Tail(queue)
    /\ wire' = <<Write(<<Ok(1)>>, packed)>>
    /\ UNCHANGED <<stage, packed, sent, inbound, gathered, taken, cap, layout>>

Refuse(m) ==
    /\ stage = "command" /\ queue # <<>>
    /\ Send(Error(1, m), packed)
    /\ queue' = Tail(queue)
    /\ UNCHANGED <<stage, packed, sent, inbound, gathered, taken, layout>>

\* sendResultSet begins with the header.
StartResult(r) ==
    /\ stage = "command" /\ queue # <<>>
    /\ queue' = Tail(queue)
    /\ Put(ResultHeader(1, Len(r.names)))
    /\ job' = r /\ seq' = 2 /\ last' = None
    /\ stage' = "fields" /\ wire' = <<>>
    /\ UNCHANGED <<packed, sent, inbound, gathered, taken>>

\* The type of a field is looked up in the first row, which must exist.
WriteField ==
    /\ stage = "fields" /\ job.names # <<>> /\ job.rows # <<>>
    /\ Put(Field(seq, Head(job.names)))
    /\ job' = [job EXCEPT !.names = Tail(@)]
    /\ seq' = seq + 1
    /\ UNCHANGED <<stage, packed, requests, last, wire>>

\* Mutant: the end of the fields is flushed.
FieldsEndFlushed ==
    /\ stage = "fields" /\ job.names = <<>>
    /\ Holds(p, Eof(seq)) /\ UNCHANGED cap
    /\ wire' = <<Write(Append(out, Eof(seq)), packed)>>
    /\ p' = 0 /\ out' = <<>>
    /\ seq' = seq + 1
    /\ stage' = "rows"
    /\ UNCHANGED <<packed, requests, job, last>>

FieldsEnd ==
    /\ stage = "fields" /\ job.names = <<>>
    /\ Put(Eof(seq))
    /\ seq' = seq + 1
    /\ stage' = "rows"
    /\ UNCHANGED <<packed, requests, job, last, wire>>

\* A row does not grow the buffer, for the size it asks for is not a number:
\* MysqlPacket.packetHeaderSize has no return. Nor is any row split or sent
\* before the end. A row packet counts its own sequence id up.
WriteRow ==
    LET id == IF last = None THEN seq ELSE last
        f == Row(id, Head(job.rows)) IN
    /\ stage = "rows" /\ job.rows # <<>>
    /\ p' = p + HeaderSize + f.bytes /\ p' <= cap
    /\ out' = Append(out, f)
    /\ job' = [job EXCEPT !.rows = Tail(@)]
    /\ seq' = id /\ last' = id + 1
    /\ UNCHANGED <<stage, packed, requests, cap, wire>>

\* Mutant: the last packet continues the count of sendResultSet.
RowsEndStale ==
    LET all == Append(out, Eof(seq)) IN
    /\ stage = "rows" /\ job.rows = <<>>
    /\ Holds(p, Eof(0)) /\ cap' = Grown(p + HeaderSize + Eof(0).len)
    /\ wire' = Append(wire, Write(all, packed))
    /\ p' = 0 /\ out' = <<>>
    /\ stage' = "command"
    /\ UNCHANGED <<packed, requests, job, seq, last>>

\* The last packet, with which everything is sent.
RowsEnd ==
    LET all == Append(out, Eof(IF last = None THEN seq ELSE last)) IN
    /\ stage = "rows" /\ job.rows = <<>>
    /\ Holds(p, Eof(0)) /\ cap' = Grown(p + HeaderSize + Eof(0).len)
    /\ wire' = Append(wire, Write(all, packed))
    /\ p' = 0 /\ out' = <<>>
    /\ stage' = "command"
    /\ UNCHANGED <<packed, requests, job, seq, last>>

\* Laying out throws: the pool has no room, a row goes past the end of the
\* buffer, there is no first row, or a length needs a doubtful form.
ResultFails ==
    /\ \/ stage = "fields" /\ job.names # <<>>
             /\ \/ job.rows = <<>>
                \/ ~Holds(p, Field(seq, Head(job.names)))
                \/ Wide(Head(job.names))
       \/ stage = "rows" /\ job.rows # <<>>
             /\ \/ p + HeaderSize + Row(0, Head(job.rows)).bytes > cap
                \/ \E n \in ToSet(Head(job.rows)) : Wide(n)
       \/ stage \in {"fields", "rows"} /\ ~Holds(p, Eof(0))
    /\ Shut
    /\ UNCHANGED <<cap, wire>>

Next ==
    \/ \E v10 \in BOOLEAN : Greet(v10)
    \/ Ends
    \/ \E l \in Logins : Login(l) \/ \E m \in Messages : LoginRefused(l, m)
    \/ \E n \in Payloads : ClientSends(n)
    \/ \E b \in Bundles : ClientSendsBundle(b)
    \/ \E c \in Straddlers : ClientStraddles(c)
    \/ ReadFrame \/ TooLarge
    \/ Ping \/ \E m \in Messages : Refuse(m)
    \/ \E r \in Results : StartResult(r)
    \/ WriteField \/ FieldsEnd \/ WriteRow \/ RowsEnd \/ ResultFails

Spec == Init /\ [][Next]_vars

-----------------------------------------------------------------------------
\* The buffer holds whole packets and nothing else, however the layout was
\* interrupted by growing: what each packet's header declares is what was
\* written of it, and together they reach the position. On the wire this
\* excepts the error packets of long and of non-ASCII messages, which declare
\* less than is written.
PacketsTile ==
    /\ p = SumOf([i \in DOMAIN out |-> HeaderSize + out[i].len]) /\ p <= cap
    /\ \A i \in DOMAIN wire : \A k \in DOMAIN wire[i].packets :
          LET f == wire[i].packets[k] IN
          f.len = f.bytes \/ \E m \in Messages :
              (m.chars > ErrMsgSize \/ m.bytes # m.chars) /\ f = Error(f.seq, m)

\* Commands are taken as they were sent, in order and none larger than
\* allowed: long ones from the plain frames they fill, several from one
\* deflated frame. Excepted is what comes with or after a command that the
\* code cannot tell from its next: several stored in one compressed frame, one
\* whose length there reads as a full packet, and one that straddles frames.
CommandsArriveWhole ==
    \A i \in DOMAIN taken :
        (\A j \in 1..(IF i < Len(sent) THEN i ELSE Len(sent)) : sent[j].apart) =>
            i <= Len(sent) /\ taken[i] = sent[i].len /\ taken[i] <= Allowed

\* What front-read-handler.js:121 and 127 promise, a logical payload that a
\* loop puts together for big packets: each command as it was sent, those that
\* straddle compressed frames too.
CommandsAsSent ==
    \A i \in DOMAIN taken : i <= Len(sent) /\ taken[i] = sent[i].len

\* The packets of a result set are numbered one after the other from 1, past
\* the largest too: the count is kept by sendResultSet, then by the row packets.
ResultsNumbered ==
    \A i \in DOMAIN wire : wire[i].packets[1].kind = "header" =>
        \A k \in DOMAIN wire[i].packets : wire[i].packets[k].seq = k % Ids

\* A client never gets a part of a result set: every write that begins one
\* also has the two EOF packets around its rows, although a failure can occur
\* at any packet.
ResultsWhole ==
    \A i \in DOMAIN wire : LET s == wire[i].packets IN
        /\ s[1].kind = "header" =>
              /\ s[Len(s)].kind = "eof"
              /\ Cardinality({k \in DOMAIN s : s[k].kind = "eof"}) = 2
        /\ s[1].kind \in {"handshake", "ok", "error", "header"}

\* Every length the layout meets is read back by readLength as it was written,
\* in as many bytes as were counted for it, and is not taken for NULL.
LengthsReadBack ==
    \A n \in ToSet(job.names) \cup UNION {ToSet(job.rows[i]) : i \in DOMAIN job.rows} :
        Decode(Encode(n)) = n /\ Len(Encode(n)) = EncodedLength(n)
=============================================================================
