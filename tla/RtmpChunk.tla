----------------------------- MODULE RtmpChunk -----------------------------
(***************************************************************************)
(* The chunk stream of node_rtmp_session.js, whose copy is in              *)
(* node_rtmp_client.js: a peer splits messages into chunks, as             *)
(* rtmpChunksCreate does, and may interleave those of several channels,    *)
(* TCP delivers the bytes in pieces of any length, and rtmpChunkRead puts  *)
(* the messages together.                                                  *)
(*                                                                         *)
(* The peer sends whole chunks on any channel.  rtmpChunksCreate does so   *)
(* on those with one byte of header, and the code sends on no other: above *)
(* channel 63 it would reckon too few bytes for the headers of type 3.     *)
(*                                                                         *)
(* The bytes on their way are those of a sequence of chunks, of the first  *)
(* of which some have been read: a reader that takes a byte for another,   *)
(* or one that is not of its chunk, is found out.  Messages are not empty, *)
(* and the chunk size changes only between messages.                       *)
(***************************************************************************)
EXTENDS Naturals, Sequences

CONSTANTS ShortCids, LongCids,     \* channels with headers of one and of two bytes
          Lengths, Times,          \* of messages
          ChunkSizes,
          MaxTime,                 \* 0xffffff, from which a time needs four more bytes
          MaxMessages,             \* bound: messages sent
          MaxWire                  \* bound: chunks on their way

ASSUME ChunkAssumption ==
    /\ ShortCids \cap LongCids = {}
    /\ Lengths \cup ChunkSizes \subseteq Nat \ {0} /\ Times \subseteq Nat
    /\ {MaxTime, MaxMessages, MaxWire} \subseteq Nat

VARIABLES
    \* the sender
    count,          \* messages sent, for the bound
    outChunkSize,
    header,         \* the header last sent on a channel
    left,           \* how much of the message on a channel is still to be sent
    done,           \* the messages whose last chunk was sent, in that order
    wire,           \* the chunks on their way
    read,           \* how many bytes of the first of them have been read
    \* the reader
    parserState,
    parserBytes,    \* how many bytes of the header it has
    parsed,         \* the chunk they are of
    inPackets,      \* the message being put together on a channel
    inChunkSize,
    handled,        \* how many messages it has handled
    garbled         \* it took a byte for another, or handled what is not due

sender == <<count, outChunkSize, header, left, done>>
way == <<wire, read>>
reader == <<parserState, parserBytes, parsed, inPackets, inChunkSize, handled, garbled>>
vars == <<sender, way, reader>>

Cids == ShortCids \cup LongCids
Fresh == [length |-> 0, timestamp |-> 0, clock |-> 0, message |-> 0, newSize |-> 0]

Init ==
    /\ count = 0 /\ outChunkSize \in ChunkSizes /\ inChunkSize = outChunkSize
    /\ header = [c \in Cids |-> Fresh] /\ left = [c \in Cids |-> 0]
    /\ done = <<>> /\ wire = <<>> /\ read = 0
    /\ parserState = "init" /\ parserBytes = 0 /\ handled = 0
    /\ parsed = [fmt |-> 0, cid |-> CHOOSE c \in Cids : TRUE, header |-> Fresh, size |-> 0]
    /\ inPackets = [c \in Cids |-> [length |-> 0, timestamp |-> 0, clock |-> 0, body |-> <<>>]]
    /\ garbled = FALSE

-----------------------------------------------------------------------------
(* The sender.                                                             *)

rtmpHeaderSize(fmt) == CASE fmt = 0 -> 11 [] fmt = 1 -> 7 [] fmt = 2 -> 3 [] fmt = 3 -> 0
BasicSize(cid) == IF cid \in LongCids THEN 2 ELSE 1
Smaller(a, b) == IF a < b THEN a ELSE b
Clip(time) == Smaller(time, MaxTime)
ExtendedSize(time) == IF Clip(time) = MaxTime THEN 4 ELSE 0

\* What comes before the payload: basic header, message header, extended time.
HeadSize(chunk) ==
    BasicSize(chunk.cid) + rtmpHeaderSize(chunk.fmt) + ExtendedSize(chunk.header.timestamp)

\* The message whose chunks bear this header: each of its bytes is known by its number.
Message(h) == [body |-> [i \in 1..h.length |-> h.message], clock |-> h.clock]

\* The next chunk on channel cid: as much of what is left of its message as fits.
Chunk(fmt, cid, h, more) ==
    LET size == Smaller(more, outChunkSize)
    IN  /\ Len(wire) < MaxWire
        /\ wire' = Append(wire, [fmt |-> fmt, cid |-> cid, header |-> h, size |-> size])
        /\ left' = [left EXCEPT ![cid] = more - size]
        /\ done' = IF more > size THEN done ELSE Append(done, Message(h))
        /\ UNCHANGED <<read, reader>>

\* The first chunk: type 0 bears the time, types 1 and 2 what it is later, type 2
\* no length, and type 3 nothing new.
Begin(cid, fmt, length, time, newSize) ==
    LET old == header[cid]
        h == [length |-> length, timestamp |-> time, message |-> count + 1, newSize |-> newSize,
              clock |-> IF fmt = 0 THEN time ELSE old.clock + time]
    IN  /\ left[cid] = 0 /\ count < MaxMessages
        /\ old.length = 0 => fmt = 0
        /\ fmt >= 2 => length = old.length
        /\ fmt = 3 => time = old.timestamp
        /\ count' = count + 1
        /\ header' = [header EXCEPT ![cid] = h]
        /\ Chunk(fmt, cid, h, length)

\* Any peer sends a message, on any channel that has none under way.
SendMessage ==
    /\ \E cid \in Cids, fmt \in 0..3, length \in Lengths, time \in Times :
          Begin(cid, fmt, length, time, 0)
    /\ UNCHANGED outChunkSize

\* The new size holds for what is sent after this message.
SendChunkSize ==
    /\ \A c \in Cids : left[c] = 0
    /\ \E cid \in ShortCids, size \in ChunkSizes \ {outChunkSize} :
          Begin(cid, 0, 1, 0, size) /\ outChunkSize' = size

\* The rest of a message follows in chunks of type 3, between those of others.
SendRest ==
    /\ \E cid \in Cids : left[cid] > 0 /\ Chunk(3, cid, header[cid], left[cid])
    /\ UNCHANGED <<count, outChunkSize, header>>

-----------------------------------------------------------------------------
(* The reader: each action is a turn of the loop of rtmpChunkRead, which    *)
(* needs a byte to be there even when it takes none.                        *)

parserPacket == inPackets[parsed.cid]

\* The next n bytes, if so many have come.
Take(n) ==
    LET rest == HeadSize(Head(wire)) + Head(wire).size - read
    IN  /\ n <= rest \/ Len(wire) > 1
        /\ IF n < rest THEN read' = read + n /\ UNCHANGED wire
                       ELSE read' = 0 /\ wire' = Tail(wire)

\* They are not what they are taken for: header bytes behind those the reader has,
\* or payload, all of one chunk.
Astray(n, expected) ==
    read \notin expected \/ read + n > HeadSize(Head(wire)) + Head(wire).size

\* What of so many bytes a turn may find.
Coming(size) == IF size = 0 THEN {0} ELSE 1..size

\* Collects the header up to `size` bytes; `then` follows when it is complete.
Collect(size, then) ==
    \E n \in Coming(size - parserBytes) :
        /\ Take(n) /\ garbled' = Astray(n, {parserBytes})
        /\ parserBytes' = parserBytes + n
        /\ IF parserBytes + n = size THEN then ELSE UNCHANGED <<parserState, inPackets>>
        /\ UNCHANGED <<parsed, inChunkSize, handled>>

ParseInit ==
    /\ parserState = "init"
    /\ Take(1) /\ garbled' = Astray(1, {0})
    /\ parserBytes' = 1 /\ parsed' = Head(wire)
    /\ parserState' = "basic"
    /\ UNCHANGED <<inPackets, inChunkSize, handled>>

ParseBasicHeader ==
    /\ parserState = "basic"
    /\ Collect(BasicSize(parsed.cid), parserState' = "message" /\ UNCHANGED inPackets)

\* rtmpPacketParse: what the header does not bear is left from the one before.
ParseMessageHeader ==
    LET update(packet, h) ==
            [packet EXCEPT !.timestamp = IF parsed.fmt <= 2 THEN Clip(h.timestamp) ELSE @,
                           !.length = IF parsed.fmt <= 1 THEN h.length ELSE @]
    IN  /\ parserState = "message"
        /\ Collect(BasicSize(parsed.cid) + rtmpHeaderSize(parsed.fmt),
               /\ parserState' = "extended"
               /\ inPackets' = [inPackets EXCEPT ![parsed.cid] = update(@, parsed.header)])

\* Variant: the time is added again with every chunk.
ClockAgain(packet, time) == IF parsed.fmt = 0 THEN time ELSE packet.clock + time

\* The clock moves with the first chunk of a message only.
Clock(packet, time) ==
    IF packet.body # <<>> THEN packet.clock
    ELSE IF parsed.fmt = 0 THEN time ELSE packet.clock + time

ParseExtendedTimestamp ==
    LET extended == ExtendedSize(parserPacket.timestamp)
        time == IF extended > 0 THEN parsed.header.timestamp ELSE parserPacket.timestamp
    IN  /\ parserState = "extended"
        /\ Collect(BasicSize(parsed.cid) + rtmpHeaderSize(parsed.fmt) + extended,
               /\ parserState' = "payload"
               /\ inPackets' = [inPackets EXCEPT ![parsed.cid].clock = Clock(parserPacket, time)])

\* How much of the message the chunk may still bring.
ChunkRoom(bytes) ==
    Smaller(inChunkSize - (bytes % inChunkSize), parserPacket.length - bytes)

\* Variant: off by one.
CompleteLate(body) == Len(body) > parserPacket.length

Complete(body) == Len(body) >= parserPacket.length

ChunkDone(bytes) == bytes % inChunkSize = 0

\* It is the next of those that were completed.
Due(message) == handled < Len(done) /\ done[handled + 1] = message

\* A message that is complete is handled; a new chunk size holds from then on.
ParsePayload ==
    /\ parserState = "payload"
    /\ \E n \in Coming(ChunkRoom(Len(parserPacket.body))) :
         LET chunk == Head(wire)
             body == parserPacket.body \o [i \in 1..n |-> chunk.header.message]
             message == [body |-> body, clock |-> parserPacket.clock]
         IN  /\ Take(n)
             /\ garbled' = \/ Astray(n, HeadSize(chunk)..(HeadSize(chunk) + chunk.size))
                           \/ Complete(body) /\ ~Due(message)
             /\ inPackets' = [inPackets EXCEPT ![parsed.cid].body = IF Complete(body) THEN <<>> ELSE body]
             /\ parserState' = IF Complete(body) \/ ChunkDone(Len(body)) THEN "init" ELSE parserState
             /\ IF Complete(body)
                THEN /\ handled' = handled + 1
                     /\ inChunkSize' = IF parsed.header.newSize = 0 THEN inChunkSize
                                       ELSE parsed.header.newSize
                ELSE UNCHANGED <<handled, inChunkSize>>
    /\ UNCHANGED <<parserBytes, parsed>>

rtmpChunkRead ==
    /\ ~garbled /\ wire # <<>>
    /\ ParseInit \/ ParseBasicHeader \/ ParseMessageHeader
          \/ ParseExtendedTimestamp \/ ParsePayload
    /\ UNCHANGED sender

Next == SendMessage \/ SendChunkSize \/ SendRest \/ rtmpChunkRead

Spec == Init /\ [][Next]_vars

-----------------------------------------------------------------------------
(* Properties.                                                             *)

\* However TCP cuts the bytes and the sender interleaves its channels, the reader
\* never takes a byte for another, and handles each message once, complete, with
\* its time, in the order in which they were completed.
RoundTrip == ~garbled

\* When every byte has been read, every complete message has been handled: none
\* waits for a byte of the next.
NothingHeldBack == wire = <<>> => handled = Len(done)
=============================================================================
