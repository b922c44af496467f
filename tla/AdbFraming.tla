----------------------------- MODULE AdbFraming -----------------------------
(***************************************************************************)
(* Packet framing on the USB IN pipe of one device: what                   *)
(* read_adb_message_last_message (daemon.rs) makes of the transfers adbd   *)
(* writes, through UsbTransport::_bulk_read and AdbMessage::unpack_message, *)
(* inside the retry loop of read_adb_message_with_packet_store.            *)
(*                                                                         *)
(* adbd writes each packet as two USB transfers: the 24-byte header        *)
(* (pack_message) and, when there is a payload, the payload.  The host     *)
(* reads the header with a 50 ms timeout and the payload with the time     *)
(* left of the caller's operation timeout; with no operation timeout that  *)
(* is READING_MIN_TIMEOUT = 0.0, which libusb takes as "no timeout".       *)
(*                                                                         *)
(* Units: a u32 header field is one unit, a payload byte is one unit, so   *)
(* the header is HeaderUnits = 6 units and a payload may be shorter than,  *)
(* as long as, or longer than a header.  Values are taken modulo 2^Width.  *)
(*                                                                         *)
(* libusb, as the environment: a read of n bytes takes whole transfers     *)
(* while they fit; a transfer longer than the room left is split when the  *)
(* room is a whole DEFAULT_BUFFER_SIZE chunk (a multiple of the endpoint's *)
(* packet size) and is otherwise an overflow error that consumes it; a     *)
(* read finding no transfer may time out.                                  *)
(***************************************************************************)
EXTENDS Naturals, Sequences, SequencesExt

CONSTANTS
    Sent,          \* the packets adbd writes, in order: [cmd, arg0, arg1, data]
    HeaderUnits,   \* ADB_MESSAGE_SIZE: six u32 fields
    BufferSize,    \* DEFAULT_BUFFER_SIZE, the largest chunk one read_bulk asks for
    Width,         \* bits of a u32
    OpTimeouts     \* the operation timeouts callers pass: "none" (connect(None)) or "some"

ASSUME HeaderUnits = 6 /\ 0 < BufferSize /\ 0 < Width
ASSUME OpTimeouts \subseteq {"none", "some"}

U32Max == 2^Width - 1

VARIABLES
    devPos,       \* adbd: the next packet of Sent to write
    devPhase,     \* adbd: "header" or "data" of packet devPos
    pipe,         \* transfers written by adbd and not yet read by the host
    opTimeout,    \* the caller's operation timeout
    hpc,          \* the host: "header", "data" or "error" (a read returned Err)
    buf,          \* bytes read so far by the current bulk read
    hdr,          \* the unpacked header whose payload is being read
    returned,     \* the packets read_adb_message_last_message returned
    lastErr       \* the last error returned: "none", "overflow", "checksum"

vars == <<devPos, devPhase, pipe, opTimeout, hpc, buf, hdr, returned, lastErr>>

-----------------------------------------------------------------------------
(* AdbMessage                                                              *)

\* AdbMessage::checksum: the sum of the payload bytes (u32, wrapping).
Checksum(data) == FoldSeq(LAMBDA b, acc : (acc + b) % (U32Max + 1), 0, data)

\* AdbMessage::new: magic is command ^ 0xFFFFFFFF.
Magic(cmd) == U32Max - cmd

\* AdbMessage::pack_message: command, arg0, arg1, data length, checksum, magic.
PackMessage(m) ==
    <<m.cmd, m.arg0, m.arg1, Len(m.data), Checksum(m.data), Magic(m.cmd)>>

\* AdbMessage::unpack_message: the first five fields; the magic is not
\* checked.
UnpackMessage(b) ==
    [cmd |-> b[1], arg0 |-> b[2], arg1 |-> b[3], len |-> b[4], sum |-> b[5]]

-----------------------------------------------------------------------------
(* adbd                                                                    *)
(* adbd frames a packet the way AdbDeviceIo::write_bytes does: the packed  *)
(* header as one transfer, then the payload, if any, as another.           *)

DeviceWriteHeader ==
    /\ devPos <= Len(Sent) /\ devPhase = "header"
    /\ pipe' = Append(pipe, PackMessage(Sent[devPos]))
    /\ IF Sent[devPos].data = <<>>
       THEN devPos' = devPos + 1 /\ UNCHANGED devPhase
       ELSE devPhase' = "data" /\ UNCHANGED devPos
    /\ UNCHANGED <<opTimeout, hpc, buf, hdr, returned, lastErr>>

DeviceWriteData ==
    /\ devPhase = "data"
    /\ pipe' = Append(pipe, Sent[devPos].data)
    /\ devPos' = devPos + 1 /\ devPhase' = "header"
    /\ UNCHANGED <<opTimeout, hpc, buf, hdr, returned, lastErr>>

-----------------------------------------------------------------------------
(* The host                                                                *)

\* One read_bulk of at most `room` bytes against the first transfer: the
\* bytes it yields and the transfers left, or an overflow.
Fits(room) == Len(Head(pipe)) <= room
\* A mutant of _bulk_read's loop test: it also goes on with a full buffer.
ShortOrFull(b, length) == Len(b) <= length
\* _bulk_read's loop test: while buffer.len() < length.
Short(b, length) == Len(b) < length
\* A mutant of Splits: every transfer longer than the chunk overflows.
SplitsNever(room) == FALSE
Splits(room) == Len(Head(pipe)) > room /\ room = BufferSize
Taken(room) == IF Fits(room) THEN Head(pipe) ELSE SubSeq(Head(pipe), 1, room)
Left(room) ==
    IF Fits(room) THEN Tail(pipe)
    ELSE <<SubSeq(Head(pipe), room + 1, Len(Head(pipe)))>> \o Tail(pipe)

\* read_adb_message_last_message returns a whole packet.
Return(m) ==
    /\ returned' = Append(returned, m)
    /\ hpc' = "header" /\ buf' = <<>>

\* A read that ends in an error other than a timeout: it is returned to the
\* caller of read_adb_message_with_packet_store.
Error(kind) == hpc' = "error" /\ buf' = <<>> /\ lastErr' = kind

\* read_message_header: _bulk_read(24, 50 ms) reads transfers until it has
\* 24 bytes (a 24-byte chunk is never a whole DEFAULT_BUFFER_SIZE chunk, so
\* a longer transfer overflows), then unpack_message; a header with no
\* payload is the packet.
HeaderRead ==
    /\ hpc = "header" /\ pipe # <<>>
    /\ LET room == HeaderUnits - Len(buf) IN
       IF Fits(room)
       THEN LET b == buf \o Taken(room) IN
            /\ pipe' = Left(room)
            /\ IF Short(b, HeaderUnits)
               THEN buf' = b /\ UNCHANGED <<hpc, hdr, returned, lastErr>>
               ELSE LET h == UnpackMessage(b) IN
                    IF h.len = 0
                    THEN Return([cmd |-> h.cmd, arg0 |-> h.arg0, arg1 |-> h.arg1,
                                 data |-> <<>>]) /\ UNCHANGED <<hdr, lastErr>>
                    ELSE /\ hdr' = h /\ hpc' = "data" /\ buf' = <<>>
                         /\ UNCHANGED <<returned, lastErr>>
       ELSE /\ pipe' = Tail(pipe) /\ Error("overflow")
            /\ UNCHANGED <<hdr, returned>>
    /\ UNCHANGED <<devPos, devPhase, opTimeout>>

\* The 50 ms header read finds nothing more: the bytes it had are dropped,
\* the read loop sleeps and reads a header again.
HeaderTimeout ==
    /\ hpc = "header" /\ pipe = <<>>
    /\ buf' = <<>>
    /\ UNCHANGED <<devPos, devPhase, pipe, opTimeout, hpc, hdr, returned, lastErr>>

\* read_message_data: _bulk_read(len, remaining) in chunks of at most
\* DEFAULT_BUFFER_SIZE, then the checksum check.
DataRead ==
    /\ hpc = "data" /\ pipe # <<>>
    /\ LET room == IF hdr.len - Len(buf) < BufferSize
                   THEN hdr.len - Len(buf) ELSE BufferSize IN
       IF Fits(room) \/ Splits(room)
       THEN LET b == buf \o Taken(room) IN
            /\ pipe' = Left(room)
            /\ IF Short(b, hdr.len)
               THEN buf' = b /\ UNCHANGED <<hpc, returned, lastErr>>
               ELSE IF Checksum(b) = hdr.sum
                    THEN Return([cmd |-> hdr.cmd, arg0 |-> hdr.arg0,
                                 arg1 |-> hdr.arg1, data |-> b])
                         /\ UNCHANGED lastErr
                    ELSE Error("checksum") /\ UNCHANGED returned
       ELSE /\ pipe' = Tail(pipe) /\ Error("overflow")
            /\ UNCHANGED returned
    /\ UNCHANGED <<devPos, devPhase, opTimeout, hdr>>

\* With an operation timeout the payload read has only the time left and
\* can time out before adbd's payload transfer comes: the header is gone,
\* and the read loop goes round to read a header again.
DataTimeout ==
    /\ hpc = "data" /\ pipe = <<>> /\ opTimeout = "some"
    /\ hpc' = "header" /\ buf' = <<>>
    /\ UNCHANGED <<devPos, devPhase, pipe, opTimeout, hdr, returned, lastErr>>

\* The caller that got the error reads again later (the next request).
ReadAgain ==
    /\ hpc = "error"
    /\ hpc' = "header"
    /\ UNCHANGED <<devPos, devPhase, pipe, opTimeout, buf, hdr, returned, lastErr>>

\* adbd has written everything and the host has read all there is.
Drained ==
    /\ devPos > Len(Sent) /\ pipe = <<>> /\ hpc = "header"
    /\ UNCHANGED vars

Init ==
    /\ devPos = 1 /\ devPhase = "header" /\ pipe = <<>>
    /\ opTimeout \in OpTimeouts
    /\ hpc = "header" /\ buf = <<>>
    /\ hdr = [cmd |-> 0, arg0 |-> 0, arg1 |-> 0, len |-> 0, sum |-> 0]
    /\ returned = <<>> /\ lastErr = "none"

Device == DeviceWriteHeader \/ DeviceWriteData
Host == HeaderRead \/ DataRead \/ DataTimeout \/ ReadAgain

Next == Device \/ Host \/ HeaderTimeout \/ Drained

\* adbd writes every packet it has; the host task keeps reading (the read
\* loop never gives up without an operation timeout).
Spec == Init /\ [][Next]_vars /\ WF_vars(Device) /\ WF_vars(Host)

-----------------------------------------------------------------------------
(* Properties                                                              *)

Packet == [cmd : 0..U32Max, arg0 : 0..U32Max, arg1 : 0..U32Max,
           data : Seq(0..U32Max)]

\* Every header field is a u32: lengths and checksums read back from the
\* pipe stay within 32 bits (AdbMessage::checksum wraps).  The read buffer
\* of _bulk_read is a partial read, shorter than the length asked for.
TypeOK ==
    /\ devPos \in 1..Len(Sent) + 1 /\ devPhase \in {"header", "data"}
    /\ pipe \in Seq(Seq(0..U32Max))
    /\ opTimeout \in OpTimeouts /\ hpc \in {"header", "data", "error"}
    /\ buf \in Seq(0..U32Max)
    /\ Len(buf) < IF hpc = "data" THEN hdr.len ELSE HeaderUnits
    /\ hdr \in [cmd : 0..U32Max, arg0 : 0..U32Max, arg1 : 0..U32Max,
                len : 0..U32Max, sum : 0..U32Max]
    /\ returned \in Seq(Packet)
    /\ lastErr \in {"none", "overflow", "checksum"}

\* The packets read_adb_message_last_message returns are, in order, the
\* packets adbd wrote, and no read has failed: the host stays on packet
\* boundaries.
FramingAligned == IsPrefix(returned, Sent) /\ lastErr = "none"

\* The whole-packet channel, seen through the framing: a packet is written
\* once its last transfer is in the pipe.
Channel == INSTANCE PacketChannel
               WITH reliable <- opTimeout = "none", written <- devPos - 1

\* With no operation timeout (AdbDevice::connect passes None) the USB
\* framing implements the whole-packet channel: every read returns the
\* oldest packet adbd finished writing, and every packet written is
\* eventually returned, payloads longer than DEFAULT_BUFFER_SIZE included.
\* (With an operation timeout the mapping makes no promise.)
NoTimeoutRefinesChannel == Channel!Spec

====
