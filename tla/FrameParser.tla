---------------------------- MODULE FrameParser ----------------------------
(***************************************************************************)
(* Connector::read_from_serial (src/connector/sync.rs): the loop that      *)
(* turns the bytes a serial port delivers, in chunks of any size, into     *)
(* packets.                                                                *)
(*                                                                         *)
(* Bytes are named by their position in the stream of everything the port  *)
(* ever delivers, counted from 0.  The code's local buffer `rolling` is    *)
(* the stretch stream[head .. tail-1] and its local `consumed` is          *)
(* cursor - head, so draining, clearing and trimming the buffer only move  *)
(* head and cursor.  A packet is named by the position of its header.      *)
(***************************************************************************)
EXTENDS Integers, Sequences, Functions

CONSTANTS
  Header,       \* R200_FRAME_HEADER, 0xAA
  ReadBuf,      \* size of read_buf: the most one port.read() can return
  RollingMax,   \* rolling is trimmed when it is longer than this (8192)
  RollingKeep,  \* ... down to its last RollingKeep bytes (4096)
  Limits,       \* values of num_expected_responses.unwrap_or(100000)
  Inputs        \* what the port may deliver: [bytes, frames] records

Byte == 0..255

ASSUME SizesAssumption ==
  /\ Header \in Byte
  /\ ReadBuf \in Nat \ {0}
  /\ RollingMax \in Nat
  /\ RollingKeep \in 0..RollingMax
  /\ Limits \subseteq Nat \ {0}

(* The ghost field frames holds the positions where the reader started a   *)
(* frame of its own; the parser never looks at it.                         *)
ASSUME InputsAssumption ==
  \A i \in Inputs : /\ i.bytes \in Seq(Byte)
                    /\ i.frames \subseteq 0..(Len(i.bytes) - 1)

VARIABLES
  stream,   \* bytes the port delivers, in order
  frames,   \* ghost: where the frames the reader sent begin
  expected, \* num_expected_responses of the current call
  start,    \* ghost: first byte the current call can see
  head,     \* rolling is stream[head .. tail-1]
  cursor,   \* head + consumed
  tail,     \* bytes taken from the port so far
  output,   \* packets of the current call, by the position of their header
  pc,       \* "read": in port.read(); "scan": in the inner loop; "done"
  result    \* how the last call returned

input == <<stream, frames>>
call  == <<expected, start>>
vars  == <<stream, frames, expected, start, head, cursor, tail, output, pc, result>>

-----------------------------------------------------------------------------
(* The frame at a position: AA TYPE CMD PL_MSB PL_LSB DATA[PL] CHECKSUM DD *)

ByteAt(p)   == stream[p + 1]
DataLen(p)  == 256 * ByteAt(p + 3) + ByteAt(p + 4)
FrameLen(p) == 5 + DataLen(p) + 2

(* Packet::is_valid. The length test holds of a chunk cut at frame_len;    *)
(* the checksum is the low byte of the sum from the type to the data.      *)
IsValid(p) ==
  LET cs == p + FrameLen(p) - 2
  IN  SumFunctionOnSet(stream, (p + 2)..cs) % 256 = ByteAt(cs)

(* The first header in rolling at or after the cursor. *)
NextHeader(p) ==
  /\ p \in cursor..(tail - 1)
  /\ ByteAt(p) = Header
  /\ \A q \in cursor..(p - 1) : ByteAt(q) # Header

NoHeader == \A q \in cursor..(tail - 1) : ByteAt(q) # Header

(* rolling[p..] does not hold the frame at p yet. *)
Incomplete(p) == IF p + 5 > tail THEN TRUE ELSE p + FrameLen(p) > tail

(* Slips: no cap; a drain down to RollingKeep bytes whatever the length. *)
NeverTrimmed(p)  == p
AlwaysTrimmed(p) == tail - RollingKeep

(* The cap on rolling once it has been drained to begin at p. *)
Trimmed(p) == IF tail - p > RollingMax THEN tail - RollingKeep ELSE p

-----------------------------------------------------------------------------
Init ==
  /\ \E i \in Inputs : stream = i.bytes /\ frames = i.frames
  /\ expected \in Limits
  /\ start = 0 /\ head = 0 /\ cursor = 0 /\ tail = 0
  /\ output = <<>>
  /\ pc = "read"
  /\ result = "none"

(* port.read() returned n > 0 bytes, appended to rolling. *)
Received ==
  /\ pc = "read"
  /\ \E n \in 1..ReadBuf :
       /\ tail + n <= Len(stream)
       /\ tail' = tail + n
  /\ cursor' = head
  /\ pc' = "scan"
  /\ UNCHANGED <<input, call, head, output, result>>

(* Leave the inner loop with rolling drained to begin at p, and capped. *)
ReadAgain(p) ==
  /\ head' = Trimmed(p)
  /\ cursor' = Trimmed(p)
  /\ pc' = "read"
  /\ UNCHANGED <<input, call, tail, output, result>>

(* No header in the rest of rolling (or no rest): it is cleared. *)
Exhausted == pc = "scan" /\ NoHeader /\ ReadAgain(tail)

(* Slip: rolling is cleared when a frame is not complete yet. *)
ForgetPartial ==
  /\ pc = "scan"
  /\ \E p \in cursor..(tail - 1) : NextHeader(p) /\ Incomplete(p)
  /\ ReadAgain(tail)

(* A frame has begun but is not complete: keep it for the next read. *)
NeedMore ==
  /\ pc = "scan"
  /\ \E p \in cursor..(tail - 1) : NextHeader(p) /\ Incomplete(p) /\ ReadAgain(p)

(* A complete valid frame, and the call expects more. *)
EmitFrame ==
  /\ pc = "scan"
  /\ \E p \in cursor..(tail - 1) :
       /\ NextHeader(p) /\ ~Incomplete(p) /\ IsValid(p)
       /\ Len(output) + 1 < expected
       /\ output' = Append(output, p)
       /\ cursor' = p + FrameLen(p)
  /\ UNCHANGED <<input, call, head, tail, pc, result>>

(* A complete valid frame, the last one expected: return Ok(Some(output)). *)
(* What is left of rolling is dropped with it.                             *)
LastFrame ==
  /\ pc = "scan"
  /\ \E p \in cursor..(tail - 1) :
       /\ NextHeader(p) /\ ~Incomplete(p) /\ IsValid(p)
       /\ Len(output) + 1 >= expected
       /\ output' = Append(output, p)
       /\ cursor' = p + FrameLen(p)
  /\ pc' = "done"
  /\ result' = "Packets"
  /\ UNCHANGED <<input, call, head, tail>>

(* Slip: consumed is not advanced past an invalid frame. *)
StayAtInvalid ==
  /\ pc = "scan"
  /\ \E p \in cursor..(tail - 1) :
       /\ NextHeader(p) /\ ~Incomplete(p) /\ ~IsValid(p)
       /\ cursor' = p
  /\ UNCHANGED <<input, call, head, tail, output, pc, result>>

(* A complete frame with a bad checksum is passed over as a whole. *)
SkipFrame ==
  /\ pc = "scan"
  /\ \E p \in cursor..(tail - 1) :
       /\ NextHeader(p) /\ ~Incomplete(p) /\ ~IsValid(p)
       /\ cursor' = p + FrameLen(p)
  /\ UNCHANGED <<input, call, head, tail, output, pc, result>>

Return(r) ==
  /\ pc = "read"
  /\ pc' = "done"
  /\ result' = r
  /\ UNCHANGED <<input, call, head, cursor, tail, output>>

(* Slip: a timeout is an error whatever was parsed. *)
AlwaysTimeout == Return("Timeout")

(* Err(TimedOut): an error only if no packet was parsed. *)
TimedOut == Return(IF output = <<>> THEN "Timeout" ELSE "Packets")

(* Ok(0): Ok(None), whatever was parsed. *)
Eof == Return("Empty")

(* Any other error but Interrupted: Err(SerialRead), whatever was parsed.  *)
(* Interrupted reads again and changes nothing.                            *)
ReadError == Return("SerialRead")

(* The next call starts with a fresh rolling, where the last one stopped   *)
(* reading.                                                                *)
NextCall ==
  /\ pc = "done"
  /\ expected' \in Limits
  /\ start' = tail /\ head' = tail /\ cursor' = tail
  /\ output' = <<>>
  /\ pc' = "read"
  /\ result' = "none"
  /\ UNCHANGED <<input, tail>>

Scan == Exhausted \/ NeedMore \/ EmitFrame \/ LastFrame \/ SkipFrame

Next ==
  \/ Received
  \/ Exhausted \/ NeedMore \/ EmitFrame \/ LastFrame \/ SkipFrame
  \/ TimedOut \/ Eof \/ ReadError
  \/ NextCall

Spec == Init /\ [][Next]_vars

(* The inner loop runs to its end, and a read on a line that has gone      *)
(* quiet ends with the port's own timeout.                                 *)
Fairness == WF_vars(Scan) /\ WF_vars(TimedOut)

FairSpec == Spec /\ Fairness

-----------------------------------------------------------------------------
(* The state of the loop: rolling is a stretch of what was received in     *)
(* this call, and a call never returns more packets than it asked for.     *)
TypeOK ==
  /\ stream \in Seq(Byte) /\ frames \subseteq 0..(Len(stream) - 1)
  /\ expected \in Limits
  /\ start \in Nat /\ head \in Nat /\ cursor \in Nat /\ tail \in Nat
  /\ start <= head /\ head <= cursor /\ cursor <= tail /\ tail <= Len(stream)
  /\ output \in Seq(Nat)
  /\ pc \in {"read", "scan", "done"}
  /\ result \in {"none", "Packets", "Empty", "Timeout", "SerialRead"}

(* A read's answer fits its caller: Ok(Some(v)) holds at least one and at  *)
(* most num_expected_responses packets, so the unwraps and first() of the  *)
(* operations see a packet; Err(Timeout) never hides a parsed packet.      *)
AnswerSize ==
  /\ Len(output) <= expected
  /\ pc # "done" => Len(output) < expected
  /\ result = "Packets" => output # <<>>
  /\ result = "Timeout" => output = <<>>

(* The cap of read_from_serial does bound the buffer: between reads it is  *)
(* at most RollingMax, and one read never grows it past one read more.     *)
RollingBounded ==
  /\ pc = "read" => tail - head <= RollingMax
  /\ tail - head <= RollingMax + ReadBuf

(* A line without noise: the header byte occurs only inside the frames the *)
(* reader sent, which do not overlap and fit the buffer. The payload of a  *)
(* frame, and its checksum, may hold any byte at all.                      *)
Regular ==
  /\ \A f \in frames : /\ ByteAt(f) = Header
                       /\ f + 7 <= Len(stream)
                       /\ f + FrameLen(f) <= Len(stream)
                       /\ FrameLen(f) <= RollingMax + 1
  /\ \A f, g \in frames : f < g => f + FrameLen(f) <= g
  /\ \A q \in 0..(Len(stream) - 1) :
       ByteAt(q) = Header => \E f \in frames : f <= q /\ q < f + FrameLen(f)

Inside(p) == \E f \in frames : f < p /\ p < f + FrameLen(f)

(* On a regular line, a call that starts between two frames reports        *)
(* exactly the frames with a good checksum among those it has passed, each *)
(* once and in order: no frame is lost, repeated or invented however the   *)
(* bytes are cut into reads and whatever the payloads hold.                *)
ExactFrames ==
  Regular /\ ~Inside(start) =>
    /\ \A i, j \in 1..Len(output) : i < j => output[i] < output[j]
    /\ Range(output) = {f \in frames : start <= f /\ f < cursor /\ IsValid(f)}

(* Every call returns: the line cannot keep a reader waiting once it has   *)
(* gone quiet, whatever it delivered before.                               *)
ReadReturns == (pc # "done") ~> (pc = "done")
=============================================================================
