------------------------------ MODULE WireCodec ------------------------------
(***************************************************************************)
(* The packets of the binary socket (transport/socket.rs): pack_packet,    *)
(* unpack_packet, and the receive loop that cuts the byte stream into      *)
(* packets and a packet into frames.                                       *)
(*                                                                         *)
(* A byte is a digit below Base (256).  The length field has four digits:  *)
(* three of length and, on top, the compression flag.  LZ4 and MessagePack *)
(* are libraries: Decompressed and Decoded stand for them, with a failure  *)
(* of either, a list of items and a single value told apart.  The writer   *)
(* lays its packets out as pack_packet does.  The stream is one sequence   *)
(* of bytes with two positions in it, how much arrived and how much was    *)
(* read; what close() does to the loop is in Transport.                    *)
(***************************************************************************)
EXTENDS Integers, Sequences

CONSTANTS Base,        \* digits of a byte (256)
          Packets,     \* packets the writer may send: records of Packet
          MaxPackets   \* bound: packets sent

Digit  == 0 .. Base - 1
Packet == [ver : Digit, cmd : 0 .. Base * Base - 1, seq : Nat,
           opcode : 0 .. Base * Base - 1, flag : Digit, body : Seq(Digit)]

ASSUME BaseAssumption    == Base \in Nat \ {0, 1}
ASSUME PacketsAssumption == Packets \subseteq Packet /\ MaxPackets \in Nat

VARIABLES sent,       \* packets written
          stream,     \* every byte written, in order
          ends,       \* where each packet ends in the stream (history)
          arrived,    \* bytes of the stream that arrived
          read,       \* bytes of the stream that read_exact has taken
          alive,      \* the connection
          header,     \* the header read, <<>> between packets
          delivered,  \* the frames taken out of each packet, in order (history)
          running     \* the receive loop

writerVars == <<sent, stream, ends>>
loopVars   == <<read, header, delivered, running>>
wireVars   == <<writerVars, arrived, alive, loopVars>>

HeaderSize == 10
LengthCap  == Base * Base * Base    \* 2^24
-----------------------------------------------------------------------------
(* Numbers, most significant byte first: the byte of n that counts units,   *)
(* and the number whose first byte is data[k].                              *)

Byte(n, unit) == (n \div unit) % Base

Number2(data, k) == Base * data[k] + data[k + 1]
Number4(data, k) == (Base * Base) * Number2(data, k) + Number2(data, k + 2)

(* pack_packet writes length & 0x00FFFFFF and the whole payload; the flag is *)
(* zero in what the client writes.                                           *)
LengthField(p) == LengthCap * p.flag + (Len(p.body) % LengthCap)

PackHeader(p) ==
  <<p.ver, Byte(p.cmd, Base), Byte(p.cmd, 1), p.seq % Base,
    Byte(p.opcode, Base), Byte(p.opcode, 1),
    Byte(LengthField(p), LengthCap), Byte(LengthField(p), Base * Base),
    Byte(LengthField(p), Base), Byte(LengthField(p), 1)>>

PackPacket(p) == PackHeader(p) \o p.body

PackedLength(data) == Number4(data, 7)

(* Mutant of PayloadLength: the flag byte is taken for length. *)
PayloadLengthWithFlag(data) == PackedLength(data)

PayloadLength(data) == PackedLength(data) % LengthCap

(* External: lz4_flex::decompress and the MessagePack decoder; <<>> of the    *)
(* first and "bad" of the second are failures.                               *)
Decompressed(bytes) == IF Head(bytes) = 0 THEN <<>> ELSE Tail(bytes)
Decoded(bytes) ==
  [tag   |-> CASE bytes = <<>> -> "bad" [] bytes # <<>> /\ Head(bytes) = 0 -> "single"
               [] OTHER -> "list",
   items |-> IF bytes = <<>> THEN <<>> ELSE Tail(bytes)]

(* What a payload decodes to: an empty one is null, whatever its flag.       *)
Value(flag, bytes) ==
  IF bytes = <<>> THEN [tag |-> "null", items |-> <<>>]
  ELSE Decoded(IF flag # 0 THEN Decompressed(bytes) ELSE bytes)

Payload(data) == SubSeq(data, HeaderSize + 1, HeaderSize + PayloadLength(data))

(* Mutant of UnpackPacket: the opcode is read one byte late. *)
UnpackPacketShifted(data) ==
  [ver |-> data[1], cmd |-> Number2(data, 2), seq |-> data[4],
   opcode |-> Number2(data, 6),
   value |-> Value(PackedLength(data) \div LengthCap, Payload(data))]

(* unpack_packet, of a whole packet.                                         *)
UnpackPacket(data) ==
  [ver |-> data[1], cmd |-> Number2(data, 2), seq |-> data[4],
   opcode |-> Number2(data, 5),
   value |-> Value(PackedLength(data) \div LengthCap, Payload(data))]

(* The frames of a packet: one for each item of a list, none when it could   *)
(* not be decoded.                                                           *)
Frames(frame) ==
  CASE frame.value.tag = "bad"  -> <<>>
    [] frame.value.tag = "list" ->
         [i \in DOMAIN frame.value.items |->
            [frame EXCEPT !.value = [tag |-> "item", items |-> <<frame.value.items[i]>>]]]
    [] OTHER -> <<frame>>
-----------------------------------------------------------------------------
Content == [tag : {"null", "bad", "single", "list", "item"}, items : Seq(Digit)]
Frame   == [ver : Digit, cmd : Nat, seq : Digit, opcode : Nat, value : Content]

WireTypeOK ==
  /\ sent \in Seq(Packets) /\ Len(sent) <= MaxPackets
  /\ stream \in Seq(Digit) /\ ends \in Seq(Nat)
  /\ arrived \in 0 .. Len(stream) /\ read \in 0 .. arrived
  /\ header \in Seq(Digit) /\ Len(header) \in {0, HeaderSize}
  /\ delivered \in Seq(Seq(Frame))
  /\ alive \in BOOLEAN /\ running \in BOOLEAN

WireInit ==
  /\ sent = <<>> /\ stream = <<>> /\ ends = <<>>
  /\ arrived = 0 /\ read = 0 /\ header = <<>> /\ delivered = <<>>
  /\ alive = TRUE /\ running = TRUE

(* The peer and the network (external) *)

Write(p) == /\ alive /\ Len(sent) < MaxPackets
            /\ sent' = Append(sent, p) /\ stream' = stream \o PackPacket(p)
            /\ ends' = Append(ends, Len(stream'))
            /\ UNCHANGED <<arrived, alive, loopVars>>

Arrive(n) == /\ alive /\ arrived + n <= Len(stream)
             /\ arrived' = arrived + n
             /\ UNCHANGED <<writerVars, alive, loopVars>>

(* The connection ends; what was on its way is lost.                         *)
Cut == /\ alive /\ alive' = FALSE
       /\ UNCHANGED <<writerVars, arrived, loopVars>>
-----------------------------------------------------------------------------
(* recv_loop *)

Available == arrived - read
Taken(n)  == SubSeq(stream, read + 1, read + n)

(* Mutant of ReadHeader: takes whatever is there, as read() would. *)
ReadHeaderAvailable ==
  /\ running /\ header = <<>> /\ Available > 0
  /\ header' = Taken(IF Available < HeaderSize THEN Available ELSE HeaderSize)
  /\ read' = read + Len(header')
  /\ UNCHANGED <<writerVars, arrived, alive, delivered, running>>

(* read_exact of a header.                                                   *)
ReadHeader ==
  /\ running /\ header = <<>> /\ Available >= HeaderSize
  /\ header' = Taken(HeaderSize) /\ read' = read + HeaderSize
  /\ UNCHANGED <<writerVars, arrived, alive, delivered, running>>

(* The rest of the packet is read and its frames, which share one number, go  *)
(* on in order; which of them resolves a request is in Transport.            *)
ReadPayload ==
  /\ running /\ header # <<>> /\ Available >= PayloadLength(header)
  /\ LET n == PayloadLength(header) IN
     /\ delivered' = Append(delivered, Frames(UnpackPacket(header \o Taken(n))))
     /\ read' = read + n
  /\ header' = <<>>
  /\ UNCHANGED <<writerVars, arrived, alive, running>>

(* What read_exact waits for.                                                *)
Needed == IF header = <<>> THEN HeaderSize ELSE PayloadLength(header)

(* Mutant of ReadFails: the end of the stream within a payload is not seen. *)
ReadFailsAtHeader ==
  /\ running /\ ~alive /\ header = <<>> /\ Available < HeaderSize
  /\ running' = FALSE
  /\ UNCHANGED <<writerVars, arrived, alive, read, header, delivered>>

(* read_exact finds the end of the stream and the loop ends.                 *)
ReadFails ==
  /\ running /\ ~alive /\ Available < Needed
  /\ running' = FALSE
  /\ UNCHANGED <<writerVars, arrived, alive, read, header, delivered>>
-----------------------------------------------------------------------------
WireNext == \/ \E p \in Packets : Write(p)
            \/ \E n \in 1 .. Len(stream) : Arrive(n)
            \/ Cut \/ ReadHeader \/ ReadPayload \/ ReadFails

WireSpec == WireInit /\ [][WireNext]_wireVars

(* The task of the loop runs whenever read_exact can return.                 *)
WireFairSpec == WireSpec /\ WF_wireVars(ReadHeader \/ ReadPayload \/ ReadFails)
-----------------------------------------------------------------------------
(* The reference: what the sender meant, without going through bytes.        *)
Meant(p) == [ver |-> p.ver, cmd |-> p.cmd, seq |-> p.seq % Base,
             opcode |-> p.opcode, value |-> Value(p.flag, p.body)]

(* The length field tells the truth about every packet up to the n-th.       *)
LengthsFit(n) == \A k \in DOMAIN sent : k <= n => Len(sent[k].body) < LengthCap

(* The loop stays in step with the stream (socket.rs 182-256, 270-334):      *)
(* however the bytes are cut up on the way, what it takes out of the k-th    *)
(* packet is what was sent in it, in order and whole, nothing when it cannot *)
(* be decoded, up to the first payload of 2^24 bytes or more, whose length   *)
(* field lies.                                                               *)
InStep ==
  \A k \in DOMAIN delivered :
    LengthsFit(k) => k \in DOMAIN sent /\ delivered[k] = Frames(Meant(sent[k]))

(* The packets before the first whose length field lies.                     *)
Honest == {k \in DOMAIN sent : LengthsFit(k)}

(* Nothing that arrived whole is lost, and nothing is made up (socket.rs     *)
(* 270-339): as long as lengths fit, a packet is taken out of the stream     *)
(* only when all of it arrived, and when the loop ends it has taken out all  *)
(* that did, whatever part of a packet the connection was cut in.            *)
WholePackets ==
  /\ \A k \in DOMAIN delivered :
       LengthsFit(k) => k \in DOMAIN sent /\ ends[k] <= arrived
  /\ ~running => \A k \in Honest : ends[k] <= arrived => k \in DOMAIN delivered
-----------------------------------------------------------------------------
(* The stream as its two ends see it: bytes and reads implement a channel of *)
(* packets, up to the first whose length field lies.                         *)
PC == INSTANCE PacketChannel
        WITH Contents <- {Frames(Meant(p)) : p \in Packets},
             meant    <- [k \in Honest |-> Frames(Meant(sent[k]))],
             there    <- {k \in Honest : ends[k] <= arrived},
             taken    <- [k \in DOMAIN delivered \cap Honest |-> delivered[k]],
             open     <- alive,
             reading  <- running

(* recv_loop (socket.rs 262-340) on whatever bytes the network makes of      *)
(* pack_packet is a PacketChannel, up to the first payload of 2^24 bytes or  *)
(* more: what is written is taken out whole and in order, all that arrived   *)
(* is taken in the end, and the loop ends after the connection, also when a  *)
(* length field lied.                                                        *)
ImplementsPacketChannel == PC!FairSpec
=============================================================================
