---------------------------- MODULE MessageChannel ----------------------------
(***************************************************************************)
(* ChiaMessageChannel.messageHandler and the onmessage callback that feeds *)
(* it (src/xch/providers/leaflet/chia_message_channel.ts): a stream of     *)
(* frames arrives in chunks of any size and is cut into messages again.    *)
(*                                                                         *)
(* A byte is its position in the stream.  Frame i is the bytes after       *)
(* Start[i] up to Start[i + 1]: a header of 6 bytes, or 8 with a message   *)
(* id, and Frames[i].len bytes of data.  The operators named for what they *)
(* drop or ignore are the faults the properties are tested against.        *)
(*                                                                         *)
(* The handler is one JavaScript turn; its loop is cut into steps, between *)
(* which nothing else happens.                                             *)
(***************************************************************************)
EXTENDS Integers, Sequences

CONSTANTS
    Frames,       \* what the node sends: records of id (BOOLEAN) and len
    Start,        \* Start[i]: the bytes sent before frame i
    MaxPending,   \* bound: Blobs awaited at once
    HandlerThrows \* may onMessage (Serializer.deserialize) throw?

ASSUME FramesAssumption ==
    /\ Frames \in Seq([id : BOOLEAN, len : Nat])
    /\ Start \in [1..Len(Frames) + 1 -> Nat]
    /\ Start[1] = 0
    /\ \A i \in 1..Len(Frames) :
          Start[i + 1] = Start[i] + Frames[i].len + (IF Frames[i].id THEN 8 ELSE 6)

ASSUME ModeAssumption ==
    HandlerThrows \in BOOLEAN /\ MaxPending \in Nat

FrameIds == 1..Len(Frames)
Total == Start[Len(Frames) + 1]
Bytes == 1..Total

VARIABLES
    arrived,     \* bytes the socket has received
    pending,     \* chunks whose bytes onmessage awaits, as pairs first, last
    overtaken,   \* has a chunk been read before an earlier one?
    buffer,      \* inboundDataBuffer
    pc,          \* "idle", in the handler's "loop", or "garbled"
    delivered,   \* the frames passed to onMessage
    outcome      \* how the handler last ended: "ok", "short", "handler"

channelVars == <<arrived, pending, overtaken, buffer, pc, delivered, outcome>>

ChannelTypeOK ==
    /\ arrived \in 0..Total
    /\ pending \in Seq(Bytes \X Bytes) /\ Len(pending) <= MaxPending
    /\ overtaken \in BOOLEAN
    /\ buffer \in Seq(Bytes)
    /\ pc \in {"idle", "loop", "garbled"}
    /\ delivered \in Seq(FrameIds)
    /\ outcome \in {"ok", "short", "handler"}

ChannelInit ==
    /\ arrived = 0
    /\ pending = <<>>
    /\ overtaken = FALSE
    /\ buffer = <<>>
    /\ pc = "idle"
    /\ delivered = <<>>
    /\ outcome = "ok"

-----------------------------------------------------------------------------
(* The bytes of one chunk: Buffer.from(message.data).                      *)
Span(first, last) == [i \in 1..(last - first + 1) |-> first + i - 1]

(* The first n bytes of s are the first n bytes of frame i.                *)
Opens(s, i, n) == \A j \in 1..n : s[j] = Start[i] + j

Least(m, n) == IF m < n THEN m ELSE n

(* What the handler reads from the header of frame i. *)
lengthField(i) == IF Frames[i].id THEN 8 ELSE 6
IgnoresMessageId(i) == Frames[i].len + 6
realMessageLength(i) == Frames[i].len + (IF Frames[i].id THEN 8 ELSE 6)

(* messageHandler up to its loop: fewer than 5 bytes are left for later.   *)
HandlerStarts(chunk) ==
    /\ buffer' = buffer \o chunk
    /\ outcome' = "ok"
    /\ pc' = IF Len(buffer') < 5 THEN "idle" ELSE "loop"
    /\ UNCHANGED delivered

(* n more bytes arrive and onmessage runs: what is no Blob is handled at   *)
(* once, the bytes of a Blob are awaited.                                  *)
OnMessage(n) ==
    /\ pc = "idle"
    /\ arrived + n <= Total
    /\ arrived' = arrived + n
    /\ \/ /\ HandlerStarts(Span(arrived + 1, arrived + n))
          /\ overtaken' = (overtaken \/ pending # <<>>)
          /\ UNCHANGED pending
       \/ /\ Len(pending) < MaxPending
          /\ pending' = Append(pending, <<arrived + 1, arrived + n>>)
          /\ UNCHANGED <<overtaken, buffer, pc, delivered, outcome>>

(* The bytes of the j-th awaited Blob are read; a later one may be first.  *)
BlobRead(j) ==
    /\ pc = "idle"
    /\ HandlerStarts(Span(pending[j][1], pending[j][2]))
    /\ pending' = SubSeq(pending, 1, j - 1) \o SubSeq(pending, j + 1, Len(pending))
    /\ overtaken' = (overtaken \/ j > 1)
    /\ UNCHANGED arrived

(* The frame at the head of the buffer, when the bytes the handler reads   *)
(* as a header are one; otherwise what it reads is garbage.                *)
HeadedBy(i) == Opens(buffer, i, Least(Len(buffer), lengthField(i)))
Misread ==
    /\ pc = "loop"
    /\ \A i \in FrameIds : ~HeadedBy(i)
    /\ pc' = "garbled"
    /\ UNCHANGED <<arrived, pending, overtaken, buffer, delivered, outcome>>

(* readUInt32BE runs past the end of the buffer: RangeError.               *)
TooShort(i) ==
    /\ pc = "loop" /\ HeadedBy(i)
    /\ Len(buffer) < lengthField(i)
    /\ pc' = "idle"
    /\ outcome' = "short"
    /\ UNCHANGED <<arrived, pending, overtaken, buffer, delivered>>

(* The frame is not complete: break. *)
Incomplete(i) ==
    /\ pc = "loop" /\ HeadedBy(i)
    /\ Len(buffer) >= lengthField(i)
    /\ Len(buffer) < realMessageLength(i)
    /\ pc' = "idle"
    /\ UNCHANGED <<arrived, pending, overtaken, buffer, delivered, outcome>>

(* The loop's test after a message. *)
NoLoop(rest) == FALSE
Again(rest) == Len(rest) >= 5

(* The frame is cut off the buffer and handed over; onMessage may throw.   *)
Consume(i) ==
    /\ pc = "loop" /\ HeadedBy(i)
    /\ Len(buffer) >= lengthField(i)
    /\ Len(buffer) >= realMessageLength(i)
    /\ buffer' = SubSeq(buffer, realMessageLength(i) + 1, Len(buffer))
    /\ \/ /\ ~Opens(buffer, i, realMessageLength(i))
          /\ pc' = "garbled"
          /\ UNCHANGED <<delivered, outcome>>
       \/ /\ Opens(buffer, i, realMessageLength(i))
          /\ delivered' = Append(delivered, i)
          /\ \/ /\ pc' = IF Again(buffer') THEN "loop" ELSE "idle"
                /\ UNCHANGED outcome
             \/ /\ HandlerThrows
                /\ pc' = "idle"
                /\ outcome' = "handler"
    /\ UNCHANGED <<arrived, pending, overtaken>>

ChannelNext ==
    \/ \E n \in 1..Total : OnMessage(n)
    \/ \E j \in 1..Len(pending) : BlobRead(j)
    \/ Misread
    \/ \E i \in FrameIds : TooShort(i) \/ Incomplete(i) \/ Consume(i)

ChannelSpec == ChannelInit /\ [][ChannelNext]_channelVars

-----------------------------------------------------------------------------
(* However the stream is cut into chunks, and whatever the earlier runs of *)
(* the handler threw, the messages handed over are the frames in order and *)
(* the buffer continues where they end; only a chunk read before an        *)
(* earlier one, a Blob, can break this.                                    *)
FramesInOrder ==
    ~overtaken =>
        /\ pc # "garbled"
        /\ delivered = [k \in 1..Len(delivered) |-> k]
        /\ \A j \in 1..Len(buffer) : buffer[j] = Start[Len(delivered) + 1] + j

(* A handler that ends without an exception of onMessage leaves no         *)
(* complete message in the buffer.                                         *)
NothingStuck ==
    pc = "idle" /\ outcome # "handler" =>
        \A i \in FrameIds :
            Len(buffer) >= Start[i + 1] - Start[i] => ~Opens(buffer, i, Start[i + 1] - Start[i])

(* "Buffer is big enough to contain the length"                            *)
(* (chia_message_channel.ts:133): the loop can read the length field.      *)
LengthIsThere ==
    pc = "loop" => \A i \in FrameIds : HeadedBy(i) => Len(buffer) >= lengthField(i)
=============================================================================
