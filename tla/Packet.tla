------------------------------- MODULE Packet -------------------------------
(***************************************************************************)
(* utils/packet.h: Packet writes typed fields behind a length and an       *)
(* opcode into a buffer that may be replaced by a larger one, ReadPacket   *)
(* reads them back on the other side.                                      *)
(*                                                                         *)
(* Memory is a sequence of bytes and the host is little-endian; a signed   *)
(* integer is the unsigned one with the same bytes.  A write that does not *)
(* fit fails an assertion, so the user only makes those that do.  Reader   *)
(* and writer are given the same byte order.  A packet that grows is a     *)
(* SendPacket made with isAutoMalloc: AutoMallocPacket passes its true to  *)
(* the parameter before that one (line 623) and does not grow.             *)
(***************************************************************************)
EXTENDS Integers, Sequences, SequencesExt

CONSTANTS
    PacketSize,         \* bytes of the buffer the writer is given
    FieldInts,          \* integers that are written
    FieldBinaries,      \* byte strings that are written
    MaxFields           \* bound: fields of a packet

PACKET_HEAD_LEN == 6

ASSUME PacketAssumption ==
    /\ PacketSize \in Nat /\ PacketSize >= PACKET_HEAD_LEN /\ MaxFields \in Nat
    /\ FieldInts \subseteq Nat
    /\ FieldBinaries \subseteq Seq(Nat) /\ \A s \in FieldBinaries : \A i \in 1..Len(s) : s[i] < 256

VARIABLES
    writer,             \* class Packet
    reader,             \* class ReadPacket
    mBigEndian, mIsAutoMalloc,
    head,               \* history: what readPacketLen and readOP returned
    fields,             \* history: the fields written, in order
    fieldsRead          \* history: the values read

packetVars == <<writer, reader, mBigEndian, mIsAutoMalloc, head, fields, fieldsRead>>

Width == [u8 |-> 1, u16 |-> 2, u32 |-> 4, u64 |-> 8]

\* v without its lowest 0, 1, ..., 8 bytes.
Quotients(v) ==
    LET q1 == v \div 256   q2 == q1 \div 256  q3 == q2 \div 256  q4 == q3 \div 256
        q5 == q4 \div 256  q6 == q5 \div 256  q7 == q6 \div 256  q8 == q7 \div 256
    IN  <<v, q1, q2, q3, q4, q5, q6, q7, q8>>

\* The values of an integer type of w bytes.
InRange(v, w) == Quotients(v)[w + 1] = 0

\* A w byte integer as it lies in the memory of the host.
HostInt(v, w) == [i \in 1..w |-> Quotients(v)[i] % 256]

HostValue(bytes) ==
    LET at(i) == IF i \in DOMAIN bytes THEN bytes[i] ELSE 0
    IN  at(1) + 256 * (at(2) + 256 * (at(3) + 256 * (at(4)
              + 256 * (at(5) + 256 * (at(6) + 256 * (at(7) + 256 * at(8)))))))

\* htobe16/32/64 and back: on this host the bytes change places.
hostToNetwork(bytes, convert) == IF convert THEN Reverse(bytes) ELSE bytes
networkToHost(bytes, convert) == IF convert THEN Reverse(bytes) ELSE bytes

\* memcpy to p.mBuffer + at.
Put(p, at, bytes) ==
    [p EXCEPT !.mBuffer = [i \in DOMAIN @ |->
        IF i - at \in DOMAIN bytes THEN bytes[i - at] ELSE @[i]]]

mMaxLen(p) == Len(p.mBuffer)

\* Mutant: the new buffer starts empty.
growBuffer_empty(p, len) ==
    IF mIsAutoMalloc /\ p.mPos + len > mMaxLen(p)
    THEN [p EXCEPT !.mBuffer = [i \in 1..(mMaxLen(p) + len) |-> 0]]
    ELSE p

growBuffer(p, len) ==
    IF mIsAutoMalloc /\ p.mPos + len > mMaxLen(p)
    THEN [p EXCEPT !.mBuffer = SubSeq(@, 1, p.mPos) \o [i \in 1..(mMaxLen(p) + len - p.mPos) |-> 0]]
    ELSE p

writeBuffer(p, bytes) ==
    LET g == growBuffer(p, Len(bytes))
    IN  IF g.mPos + Len(bytes) <= mMaxLen(g)
        THEN [Put(g, g.mPos, bytes) EXCEPT !.mPos = @ + Len(bytes)]
        ELSE g

writeInt(p, v, w) == writeBuffer(p, hostToNetwork(HostInt(v, w), mBigEndian))
writeBinary(p, bytes) == writeBuffer(writeInt(p, Len(bytes), 4), bytes)

\* Room for the length and the bytes, which the user then fills in:
\* serializePBMsgToPacket.
claimBinary(p, bytes) ==
    LET g == writeInt(growBuffer(p, Len(bytes) + 4), Len(bytes), 4)
    IN  [Put(g, g.mPos, bytes) EXCEPT !.mPos = @ + Len(bytes)]

setOP(p, op) == writeInt(writeInt(p, PACKET_HEAD_LEN, 4), op, 2)

Fits(len) == mIsAutoMalloc \/ writer.mPos + len <= mMaxLen(writer)

\* A SendPacket for opcode 1.
PacketInit ==
    /\ mBigEndian \in BOOLEAN /\ mIsAutoMalloc \in BOOLEAN
    /\ writer = setOP([mBuffer |-> [i \in 1..PacketSize |-> 0], mPos |-> 0, mIsFinish |-> FALSE], 1)
    /\ reader = [mPos |-> 0, mMaxLen |-> 0]
    /\ head = <<>> /\ fields = <<>> /\ fieldsRead = <<>>

writeField(type, value) ==
    /\ ~ writer.mIsFinish
    /\ Len(fields) < MaxFields
    /\ CASE type = "binary" -> Fits(4 + Len(value)) /\ writer' = writeBinary(writer, value)
         [] type = "pb"     -> Fits(4 + Len(value)) /\ writer' = claimBinary(writer, value)
         [] OTHER           -> Fits(Width[type]) /\ writer' = writeInt(writer, value, Width[type])
    /\ fields' = Append(fields, [type |-> type, value |-> value])
    /\ UNCHANGED <<reader, mBigEndian, mIsAutoMalloc, head, fieldsRead>>

\* end() puts the length into the head, in network byte order whatever
\* mBigEndian is; the bytes go to the other side, where a ReadPacket is made.
getLen ==
    /\ ~ writer.mIsFinish
    /\ writer' = [Put(writer, 0, hostToNetwork(HostInt(writer.mPos, 4), TRUE)) EXCEPT !.mIsFinish = TRUE]
    /\ reader' = [mPos |-> 0, mMaxLen |-> writer.mPos]
    /\ UNCHANGED <<mBigEndian, mIsAutoMalloc, head, fields, fieldsRead>>

\* The w bytes at mPos; a read over the end leaves the value 0.
readInt(r, w) ==
    IF r.mPos + w <= r.mMaxLen
    THEN [value |-> HostValue(networkToHost(SubSeq(writer.mBuffer, r.mPos + 1, r.mPos + w), mBigEndian)),
          at |-> [r EXCEPT !.mPos = @ + w]]
    ELSE [value |-> 0, at |-> r]

\* readPacketLen and readOP, in the byte order of the fields.
readHead ==
    /\ writer.mIsFinish /\ head = <<>>
    /\ LET len == readInt(reader, 4)
           op == readInt(len.at, 2)
       IN  reader' = op.at /\ head' = <<len.value, op.value>>
    /\ UNCHANGED <<writer, mBigEndian, mIsAutoMalloc, fields, fieldsRead>>

\* A length and that many bytes, at least so many; else what is returned.
readString(r, least, failed) ==
    LET len == readInt(r, 4)
        r1 == len.at
    IN  IF r1.mPos + len.value <= r1.mMaxLen /\ len.value >= least
        THEN [value |-> SubSeq(writer.mBuffer, r1.mPos + 1, r1.mPos + len.value),
              at |-> [r1 EXCEPT !.mPos = @ + len.value]]
        ELSE [value |-> failed, at |-> r1]

\* The readBinary that returns a string.
readBinary(r) == readString(r, 0, <<>>)

\* deserializePBMsgToPacket found no data: assert(data != nullptr) fails, or
\* without assertions it returns false.
NoMessage == <<-1>>

\* It uses the other readBinary, which leaves data nullptr when len is 0.
deserializePBMsgToPacket(r) == readString(r, 1, NoMessage)

readField ==
    /\ head # <<>>
    /\ Len(fieldsRead) < Len(fields)
    /\ LET type == fields[Len(fieldsRead) + 1].type
           got == CASE type = "binary" -> readBinary(reader)
                    [] type = "pb"     -> deserializePBMsgToPacket(reader)
                    [] OTHER           -> readInt(reader, Width[type])
       IN  reader' = got.at /\ fieldsRead' = Append(fieldsRead, got.value)
    /\ UNCHANGED <<writer, mBigEndian, mIsAutoMalloc, head, fields>>

PacketNext ==
    \/ \E type \in DOMAIN Width, v \in FieldInts : InRange(v, Width[type]) /\ writeField(type, v)
    \/ \E type \in {"binary", "pb"}, bytes \in FieldBinaries : writeField(type, bytes)
    \/ getLen
    \/ readHead
    \/ readField

PacketSpec == PacketInit /\ [][PacketNext]_packetVars
-----------------------------------------------------------------------------
\* What serializePBMsgToPacket writes for a message all of whose fields have
\* their default values.
EmptyMessage(f) == f.type = "pb" /\ f.value = <<>>

(***************************************************************************)
(* The reader gets back the fields that were written, whether or not the   *)
(* buffer had to grow between or inside fields and in either byte order,   *)
(* and ends exactly where the writer ended, as ~BasePacketReader asserts   *)
(* (line 437).  Excepted is the empty protobuf message, see MessagesParse; *)
(* what follows it is read at the right place all the same.  The length in *)
(* front, read in network order, counts every byte; readPacketLen returns  *)
(* it when the packet is big-endian (with mBigEndian = false it returns    *)
(* the swapped value), readOP the opcode.                                  *)
(***************************************************************************)
FieldsReadBack ==
    /\ \A i \in DOMAIN fieldsRead : EmptyMessage(fields[i]) \/ fieldsRead[i] = fields[i].value
    /\ writer.mIsFinish => HostValue(Reverse(SubSeq(writer.mBuffer, 1, 4))) = reader.mMaxLen
    /\ head # <<>> => head[2] = 1 /\ (mBigEndian => head[1] = reader.mMaxLen)
    /\ head # <<>> /\ Len(fieldsRead) = Len(fields) => reader.mPos = reader.mMaxLen

(***************************************************************************)
(* deserializePBMsgToPacket finds data for every message that              *)
(* serializePBMsgToPacket has written: assert(data != nullptr), line 659.  *)
(***************************************************************************)
MessagesParse == \A i \in DOMAIN fieldsRead : fields[i].type = "pb" => fieldsRead[i] # NoMessage
=============================================================================
