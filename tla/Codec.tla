-------------------------------- MODULE Codec --------------------------------
(***************************************************************************)
(* What the connector's operations put on the wire and read off it: the    *)
(* bytes of every request (src/frame.rs), the decoding of every response   *)
(* (src/packet.rs, src/rfid.rs, src/connector/mod.rs), and the hex text    *)
(* the CLI takes from its user and from an inventory. At the other end is  *)
(* a reader that decodes requests by the protocol, with tags in its field. *)
(* Every request is answered in time here; Connector is about answers that *)
(* are not.                                                                *)
(***************************************************************************)
EXTENDS Integers, SequencesExt

CONSTANTS
  Tags,   \* tag -> [rssi, epc]: what comes near the antenna
  Sites,  \* [calls, errors, tags, builds]: what a client invokes, the data of
          \* the reader's error responses, the tags that may be in its field,
          \* and how the client is built
  NoTag   \* not a tag

VARIABLES
  build,    \* "debug": u16 sums that overflow panic; "release": they wrap
  site,     \* the one of Sites this client is at
  area, channel, power, rounds, \* the reader's settings
  mask,     \* ... its select parameter: [ptr, len, bytes]
  mode,     \* ... and when it applies it (1: not to tag operations, 2: to them)
  field,    \* the tags in the field
  memory,   \* words written to tags: a function on <<tag, bank, address>>
  pc,       \* "idle", "send", "sent" (to the reader) or "answered"
  op,       \* the operation
  step,     \* which of its requests
  wire,     \* the frames on the wire
  kept,     \* the packet of the operation's first exchange
  result,   \* how the operation ended: [status, val]
  refused,  \* ghost: the code of the error response of this call, if any
  acted,    \* ghost: the tag this call acted on, its EPC and memory before
  selected  \* ghost: the text of a select_tag that returned Ok and is the last
            \* call that touched the selection, or <<>>

deviceVars == <<area, channel, power, rounds, mask, mode, field, memory>>
clientVars == <<pc, op, step, wire, kept, result, selected>>
vars == <<build, site, deviceVars, clientVars, refused, acted>>

-----------------------------------------------------------------------------
(* Bytes *)

Byte  == 0..255
Top   == 65535   \* u16::MAX
Short == 0..Top

(* `as u16`; `(n >> 8) as u8, (n & 0xFF) as u8`. *)
U16(n) == n % 65536
TwoBytes(n) == <<n \div 256, n % 256>>

(* In parts of sixteen: TLC recurses as deep as a fold is long.           *)
Total(numbers) == FoldLeft(+, 0, numbers)

Sum(bytes) ==
  LET n == Len(bytes)
      Part(i) == SubSeq(bytes, 16 * i - 15, IF 16 * i < n THEN 16 * i ELSE n)
  IN  Total([i \in 1..((n + 15) \div 16) |-> Total(Part(i))])

(* Slip: the sum saturates at a byte instead of being cut to one. *)
SaturatedSum(bytes) == IF Sum(bytes) > 255 THEN 255 ELSE Sum(bytes)

(* Slip: the sum is not cut. *)
WholeSum(bytes) == U16(Sum(bytes))

(* Slip: the sum is kept in a byte. *)
OverflowsByte(bytes) == Sum(bytes) > 255

(* The checksum of Frame and of Packet, a sum in u16 cut to its low byte.  *)
Checksum(bytes)  == U16(Sum(bytes)) % 256
Overflows(bytes) == Sum(bytes) >= 65536

-----------------------------------------------------------------------------
(* Hex text, as the bytes of its UTF-8: a digit is its value; a character  *)
(* of one byte that is none is Bad, except that from_str_radix takes a     *)
(* sign; a longer character begins with Wide and goes on with Rest.        *)

Bad  == 16
Plus == 17
Wide == 18
Rest == 19

PairValue(a, b) ==
  IF a < 16 /\ b < 16 THEN 16 * a + b
  ELSE IF a = Plus /\ b < 16 THEN b ELSE 0   \* unwrap_or(0)

(* parse_hex_str, where it does not panic; parse_hex refuses an odd number *)
(* of bytes first.                                                         *)
ParseHex(text) == [i \in 1..(Len(text) \div 2) |-> PairValue(text[2 * i - 1], text[2 * i])]

(* bytes_to_hex_upper *)
HexUpper(bytes) ==
  [i \in 1..(2 * Len(bytes)) |->
     LET b == bytes[(i + 1) \div 2] IN IF i % 2 = 1 THEN b \div 16 ELSE b % 16]

(* The slice &s[i..i + 2] of parse_hex_str panics, in any build, if it     *)
(* begins or ends within a character.                                      *)
Cut(text) == \E i \in 1..Len(text) : i % 2 = 1 /\ text[i] = Rest

AllDigits(text) == \A i \in 1..Len(text) : text[i] < 16

-----------------------------------------------------------------------------
(* Requests *)

Code == [GetWorkingArea |-> 8, SetWorkingArea |-> 7, GetWorkingChannel |-> 170,
         AcquireTransmitPower |-> 183, SetTransmissionPower |-> 182,
         SinglePollingInstruction |-> 34, MultiplePollingInstruction |-> 39,
         StopMultiplePollingInstruction |-> 40, SetSelect |-> 12, SetSendSelect |-> 18,
         ReadLabel |-> 57, WriteLabel |-> 73, KillTag |-> 101, LockTag |-> 130]

(* Slip: the codes in the order of the names. *)
AreaCodeInOrder == [China900Mhz |-> 1, China800Mhz |-> 2, US |-> 3, EU |-> 4, Korea |-> 6]

AreaCode == [China900Mhz |-> 1, US |-> 2, EU |-> 3, China800Mhz |-> 4, Korea |-> 6]

(* `(p * 100.0) as u16` cuts the product off, and p is only the double     *)
(* nearest to n/100, where p is what the user asked for. Let 2^-k be the   *)
(* place of p's last bit: p is below n/100 by r/100 of it, with            *)
(* r = n * 2^k mod 100, if r < 50. The exact product is then below n by    *)
(* r * 2^-k, and the rounded one too, so that it is cut to n - 1, if that  *)
(* is more than half of the last place of the doubles just below n. In     *)
(* units of 2^-k half of it is 32 if n/100 has the higher of its two       *)
(* possible exponents or n is a power of two, and else 64: too much.       *)
Log2(n) == CHOOSE l \in 0..16 : 2^l <= n /\ n < 2^(l + 1)

(* 2^k mod 100, which from k = 2 on has a period of 20. *)
PowerOfTwoMod100(k) == 2^(2 + ((k - 2) % 20)) % 100

FallsShort(n) ==
  LET l == Log2(n)
      wide == 16 * n >= 25 * 2^l           \* floor(log2(n/100)) = l - 6
      k == 52 - (IF wide THEN l - 6 ELSE l - 7)
      r == (n * PowerOfTwoMod100(k)) % 100
  IN  (wide \/ n = 2^l) /\ 32 < r /\ r < 50

PowerUnits(n) ==
  CASE n <= 0     -> 0
    [] n > 65535  -> 65535
    [] OTHER      -> IF FallsShort(n) THEN n - 1 ELSE n

Cmd(name, params) == [name |-> name, params |-> params]

(* Frame::new and Frame::to_bytes *)
Summed(c) == <<Code[c.name]>> \o TwoBytes(U16(Len(c.params))) \o c.params
Frame(c)  == <<170, 0>> \o Summed(c) \o <<Checksum(Summed(c)), 221>>

(* The select parameter: bank 1 from bit 0x20, 0x60 bits, no truncation.   *)
SelectParams(epc) == <<1>> \o <<0, 0, 0, 32>> \o <<96, 0>> \o epc

MemoryAt(o) == o.password \o <<o.bank>> \o TwoBytes(o.addr)

(* Slip: the mode that does not send it. *)
SendNoSelect == 1

(* Select mode: send it before tag operations. *)
SendSelect == 2

(* The requests of an operation. *)
Requests(o) ==
  CASE o.name = "get_working_area" -> <<Cmd("GetWorkingArea", <<>>)>>
    [] o.name = "get_working_channel" ->
         <<Cmd("GetWorkingChannel", <<>>), Cmd("GetWorkingArea", <<>>)>>
    [] o.name = "set_working_area" -> <<Cmd("SetWorkingArea", <<AreaCode[o.area]>>)>>
    [] o.name = "get_transmit_power" -> <<Cmd("AcquireTransmitPower", <<>>)>>
    [] o.name = "set_transmission_power" ->
         <<Cmd("SetTransmissionPower", TwoBytes(PowerUnits(o.power)))>>
    [] o.name = "single_polling_instruction" -> <<Cmd("SinglePollingInstruction", <<>>)>>
    [] o.name = "enable_multiple_polling_instructions" ->
         <<Cmd("MultiplePollingInstruction", <<34>> \o TwoBytes(o.times))>>
    [] o.name = "stop_multiple_polling_instructions" ->
         <<Cmd("StopMultiplePollingInstruction", <<>>)>>
    [] o.name = "select_tag" ->
         <<Cmd("SetSelect", SelectParams(ParseHex(o.text))), Cmd("SetSendSelect", <<SendSelect>>)>>
    [] o.name = "clear_select" ->
         <<Cmd("SetSelect", [i \in 1..8 |-> 0]), Cmd("SetSendSelect", <<1>>)>>
    [] o.name = "read_mem" -> <<Cmd("ReadLabel", MemoryAt(o) \o TwoBytes(o.length))>>
    [] o.name = "write_mem" ->
         LET data == ParseHex(o.text)
         IN  <<Cmd("WriteLabel", MemoryAt(o) \o TwoBytes(U16(Len(data) \div 2)) \o data)>>
    [] o.name = "kill_tag" -> <<Cmd("KillTag", o.password)>>
    [] o.name = "lock_tag" -> <<Cmd("LockTag", o.password \o o.data)>>

-----------------------------------------------------------------------------
(* What a client may invoke: the types of the parameters, with the four    *)
(* bytes of a password and the three of a lock that the traits ask for. An *)
(* odd number of bytes of text does not get past parse_hex.                *)
Operations ==
  {"get_working_area", "get_working_channel", "set_working_area", "get_transmit_power",
   "set_transmission_power", "single_polling_instruction",
   "enable_multiple_polling_instructions", "stop_multiple_polling_instructions", "select_tag",
   "clear_select", "read_mem", "write_mem", "kill_tag", "lock_tag"}

(* What the CLI parses a text for. (That of a password or a lock panics    *)
(* the same way; here these are bytes already.)                            *)
TextOps == {"select_tag", "write_mem"}

IsCall(o) ==
  /\ o.name \in Operations
  /\ o.name = "set_working_area" => o.area \in DOMAIN AreaCode
  /\ o.name = "set_transmission_power" => o.power \in Int
  /\ o.name = "enable_multiple_polling_instructions" => o.times \in Short
  /\ o.name \in TextOps => o.text \in Seq(0..Rest) /\ Len(o.text) % 2 = 0
  /\ o.name \in {"read_mem", "write_mem"} => o.bank \in Byte /\ o.addr \in Short
  /\ o.name = "read_mem" => o.length \in Short
  /\ o.name \in {"read_mem", "write_mem", "kill_tag", "lock_tag"} =>
       o.password \in Seq(Byte) /\ Len(o.password) = 4
  /\ o.name = "lock_tag" => o.data \in Seq(Byte) /\ Len(o.data) = 3

(* A tag tells the number of words of its EPC in five bits; an error       *)
(* response has a code and, at most, what a tag sent.                      *)
ASSUME CodecAssumption ==
  /\ NoTag \notin DOMAIN Tags
  /\ \A t \in DOMAIN Tags :
       /\ Tags[t].rssi \in Byte /\ Tags[t].epc \in Seq(Byte)
       /\ Len(Tags[t].epc) % 2 = 0 /\ Len(Tags[t].epc) <= 62
  /\ \A s \in Sites :
       /\ s.tags \subseteq DOMAIN Tags /\ IsFiniteSet(s.tags)
       /\ s.builds \subseteq {"debug", "release"}
       /\ \A e \in s.errors : e \in Seq(Byte) /\ Len(e) <= 66
       /\ \A o \in s.calls : IsCall(o)

-----------------------------------------------------------------------------
(* Responses *)

CommandCode(p) == p[3]
DataLen(p)     == 256 * p[4] + p[5]
Data(p)        == SubSeq(p, 6, 5 + DataLen(p))
IsError(p)     == CommandCode(p) = 255

(* The elements of a sequence at the places in T, in their order. *)
Pick(s, T) ==
  LET some[i \in 0..Len(s)] ==
        IF i = 0 THEN <<>> ELSE IF i \in T THEN Append(some[i - 1], s[i]) ELSE some[i - 1]
  IN  some[Len(s)]

(* Packet::is_valid *)
CheckedPart(p) == SubSeq(p, 2, Len(p) - 2)
IsValid(p) == 7 + DataLen(p) = Len(p) /\ Checksum(CheckedPart(p)) = p[Len(p) - 1]

(* ErrorCode::from_byte *)
NamedErrors ==
  [Success |-> 0, ReadFail |-> 9, WriteFail |-> 16, KillFail |-> 18, LockFail |-> 19,
   BlockPermalockFail |-> 20, InventoryFail |-> 21, AccessFail |-> 22, CommandError |-> 23,
   ChangeConfigFail |-> 26, ChangeEasFail |-> 27, EasAlarmFail |-> 29, FhssFail |-> 32,
   ReadProtectFail |-> 42, ResetReadProtectFail |-> 43, QtFail |-> 46]

ErrorFamilies ==
  [ReadError |-> 10, WriteError |-> 11, LockError |-> 12, KillError |-> 13,
   BlockPermalockError |-> 14]

Family(b) == b \div 16

FromByte(b) ==
  IF \E name \in DOMAIN NamedErrors : NamedErrors[name] = b
  THEN [kind |-> CHOOSE name \in DOMAIN NamedErrors : NamedErrors[name] = b, code |-> 0]
  ELSE IF \E name \in DOMAIN ErrorFamilies : ErrorFamilies[name] = Family(b)
  THEN [kind |-> CHOOSE name \in DOMAIN ErrorFamilies : ErrorFamilies[name] = Family(b),
        code |-> b % 16]
  ELSE [kind |-> "Unknown", code |-> b]

(* error_code_byte().unwrap_or(0xFF) *)
ErrorByte(p) == IF Data(p) = <<>> THEN 255 ELSE Data(p)[1]

(* Display of ErrorCode has bytes of its own, and none for Success; for a  *)
(* family it shows the two halves, "0xA0|0x03".                            *)
MessageByte ==
  [CommandError |-> 23, FhssFail |-> 32, InventoryFail |-> 21, AccessFail |-> 22,
   ReadFail |-> 9, WriteFail |-> 16, LockFail |-> 19, KillFail |-> 18,
   BlockPermalockFail |-> 20, ChangeConfigFail |-> 26, ReadProtectFail |-> 42,
   ResetReadProtectFail |-> 43, ChangeEasFail |-> 27, EasAlarmFail |-> 29, QtFail |-> 46]

(* Slip: the literals of two families are swapped. *)
SwappedHalf ==
  [ReadError |-> 160, WriteError |-> 176, LockError |-> 208, KillError |-> 192,
   BlockPermalockError |-> 224]

MessageHalf ==
  [ReadError |-> 160, WriteError |-> 176, LockError |-> 192, KillError |-> 208,
   BlockPermalockError |-> 224]

NoByte == 256   \* no byte is shown

ShownByte(e) ==
  CASE e.kind = "Success"              -> NoByte
    [] e.kind \in DOMAIN MessageByte   -> MessageByte[e.kind]
    [] e.kind \in DOMAIN MessageHalf   -> MessageHalf[e.kind] + e.code
    [] e.kind = "Unknown"              -> e.code

Outcome(status, val) == [status |-> status, val |-> val]
Ok(val)    == Outcome("Ok", val)
Unit       == <<>>
BadAnswer  == Outcome("InvalidResponse", <<>>)

(* Command::from_tuple: what a response answers, as far as it can tell.    *)
FromTuple(code, first) ==
  CASE code = 3 /\ first = 0 -> "HardwareVersion"
    [] code = 3 /\ first = 1 -> "SoftwareVersion"
    [] code = 3 /\ first = 2 -> "Manufacturer"
    [] code = 170 -> "GetWorkingChannel"
    [] code = 8   -> "GetWorkingArea"
    [] code = 7   -> "SetWorkingArea"
    [] code = 183 -> "AcquireTransmitPower"
    [] code = 40  -> "StopMultiplePollingInstruction"
    [] code = 18  -> "SetSendSelect"
    [] OTHER      -> "InvalidCommand"

(* check_ack, and the same lines in the other operations. *)
CheckAck(p) == IF IsError(p) THEN Outcome("CommandError", <<FromByte(ErrorByte(p))>>) ELSE Ok(Unit)

ParseToWorkingArea(p) ==
  CASE Data(p) = <<>> -> BadAnswer
    [] Data(p) # <<>> /\ Data(p)[1] = 1 -> Ok(<<"China900Mhz">>)
    [] Data(p) # <<>> /\ Data(p)[1] = 2 -> Ok(<<"US">>)
    [] Data(p) # <<>> /\ Data(p)[1] = 3 -> Ok(<<"EU">>)
    [] Data(p) # <<>> /\ Data(p)[1] = 4 -> Ok(<<"China800Mhz">>)
    [] Data(p) # <<>> /\ Data(p)[1] = 6 -> Ok(<<"Korea">>)
    [] OTHER -> Outcome("InvalidWorkingArea", <<>>)

(* packet_to_64, in kHz. *)
Spacing == [China900Mhz |-> 250, China800Mhz |-> 250, US |-> 500, EU |-> 200, Korea |-> 200]
Base    == [China900Mhz |-> 920125, China800Mhz |-> 840125, US |-> 902250, EU |-> 865100,
            Korea |-> 917100]

ChannelFrequency(a, p) == IF Data(p) = <<>> THEN 0 ELSE Data(p)[1] * Spacing[a] + Base[a]

(* calculate_transmit_power, in hundredths; a single byte is whole dBm.    *)
TransmitPower(p) ==
  LET d == Data(p) IN
  CASE Len(d) >= 2 -> Ok(<<256 * d[1] + d[2]>>)
    [] Len(d) = 1  -> Ok(<<100 * d[1]>>)
    [] Len(d) = 0  -> BadAnswer

PowerSet(p) ==
  CASE Data(p) = <<>> -> BadAnswer
    [] Data(p) # <<>> -> IF Data(p)[1] = 0 THEN Ok(Unit) ELSE Outcome("FailedSetting", <<>>)

(* Rfid::from_raw *)
FromRaw(raw) ==
  [rssi |-> raw[1], pc |-> HexUpper(SubSeq(raw, 2, 3)), epc |-> HexUpper(SubSeq(raw, 4, 15)),
   crc |-> HexUpper(SubSeq(raw, 16, 17))]

(* Slip: so does any inventory that begins with it. *)
BeginsWithNoTag(packets) == Data(packets[1]) # <<>> /\ Data(packets[1])[1] = 21

(* A lone packet that begins with 0x15 says that there is no tag. *)
SaysNoTag(packets) ==
  Len(packets) = 1 /\ Data(packets[1]) # <<>> /\ Data(packets[1])[1] = 21

ParseRfidPackets(packets) ==
  IF SaysNoTag(packets) THEN <<>>
  ELSE LET whole == Pick(packets, {i \in 1..Len(packets) : Len(Data(packets[i])) = 17})
       IN  [i \in 1..Len(whole) |-> FromRaw(Data(whole[i]))]

(* Slip: the words are taken to begin behind the length byte. *)
KeepFraming(d) == Ok(<<SubSeq(d, 2, Len(d))>>)

(* strip_read_framing *)
StripReadFraming(d) ==
  IF d # <<>> /\ Len(d) >= 1 + d[1] THEN Ok(<<SubSeq(d, 2 + d[1], Len(d))>>) ELSE BadAnswer

(* The result of an operation, from the packets of its last exchange. *)
Decode(packets) ==
  LET p == packets[1] IN
  CASE op.name = "get_working_area" -> ParseToWorkingArea(p)
    [] op.name = "get_working_channel" ->
         LET a == ParseToWorkingArea(p)
         IN  IF a.status = "Ok" THEN Ok(<<ChannelFrequency(a.val[1], kept)>>) ELSE a
    [] op.name = "get_transmit_power" -> TransmitPower(p)
    [] op.name = "set_transmission_power" -> PowerSet(p)
    [] op.name = "single_polling_instruction" -> Ok(ParseRfidPackets(packets))
    [] op.name = "stop_multiple_polling_instructions" ->
         IF \E i \in 1..Len(packets) :
              FromTuple(CommandCode(packets[i]), packets[i][6]) = "StopMultiplePollingInstruction"
         THEN Ok(Unit) ELSE Outcome("ErrorStopMultiPolling", <<>>)
    [] op.name = "read_mem" -> IF IsError(p) THEN CheckAck(p) ELSE StripReadFraming(Data(p))
    [] OTHER -> CheckAck(p)

(* After its first exchange, a channel is kept; a selection must be good.  *)
GoesOn(packets) == op.name = "get_working_channel" \/ CheckAck(packets[1]).status = "Ok"

-----------------------------------------------------------------------------
(* The reader and its tags, by the protocol *)

Region == <<"China900Mhz", "US", "EU", "China800Mhz", "none", "Korea">>

(* The words of a tag: <<bank, address>> of those written, and else its    *)
(* protocol control and EPC in bank 1, and ones.                           *)
Word(t, bank, addr) ==
  CASE <<t, bank, addr>> \in DOMAIN memory -> memory[<<t, bank, addr>>]
    [] <<t, bank, addr>> \notin DOMAIN memory /\ <<bank, addr>> = <<1, 1>> ->
         <<4 * Len(Tags[t].epc), 0>>
    [] <<t, bank, addr>> \notin DOMAIN memory /\ bank = 1
         /\ 2 * (addr - 1) \in 2..Len(Tags[t].epc) ->
         <<Tags[t].epc[2 * addr - 3], Tags[t].epc[2 * addr - 2]>>
    [] OTHER -> <<255, 255>>

Words(t, bank, addr, count) ==
  [i \in 1..(2 * count) |-> Word(t, bank, addr + ((i - 1) \div 2))[2 - (i % 2)]]

PcOf(t)  == Word(t, 1, 1)
EpcOf(t) == Words(t, 1, 2, PcOf(t)[1] \div 8)
CrcOf(t) == <<Sum(EpcOf(t)) % 256, 170>>

(* A selection compares mask.len bits of a bank with the mask, from bit    *)
(* mask.ptr of it; all are whole bytes here.                               *)
Matches(t) ==
  LET bytes == mask.len \div 8
      first == mask.ptr \div 8
      found == Words(t, mask.bank, first \div 2, bytes \div 2)
  IN  found = SubSeq(mask.bytes, 1, bytes)

Candidates == IF mode = 2 THEN {t \in field : Matches(t)} ELSE field

WellFormed(f, type) ==
  /\ Len(f) >= 7
  /\ f[1] = 170 /\ f[2] = type /\ f[Len(f)] = 221
  /\ Len(f) = 7 + 256 * f[4] + f[5]
  /\ f[Len(f) - 1] = Sum(SubSeq(f, 2, Len(f) - 2)) % 256

Params == SubSeq(wire[1], 6, Len(wire[1]) - 2)

Reply(type, code, data) ==
  LET body == <<type, code, Len(data) \div 256, Len(data) % 256>> \o data
  IN  <<170>> \o body \o <<Sum(body) % 256, 221>>

Requested(code, length) ==
  pc = "sent" /\ wire[1][3] = code /\ WellFormed(wire[1], 0) /\ Len(Params) = length

Answers(frames) ==
  /\ pc' = "answered"
  /\ wire' = frames
  /\ UNCHANGED <<build, site, op, step, kept, result, selected>>

Acknowledges == Answers(<<Reply(1, wire[1][3], <<0>>)>>) /\ UNCHANGED <<refused, acted>>

Refuses(data) ==
  /\ Answers(<<Reply(1, 255, data)>>)
  /\ refused' = <<data>>
  /\ UNCHANGED <<deviceVars, acted>>

Refuse == pc = "sent" /\ \E data \in site.errors : Refuses(data)

TellArea ==
  /\ Requested(8, 0)
  /\ Answers(<<Reply(1, 8, <<area>>)>>)
  /\ UNCHANGED <<deviceVars, refused, acted>>

TakeArea ==
  /\ Requested(7, 1)
  /\ Params[1] \in {1, 2, 3, 4, 6}
  /\ area' = Params[1]
  /\ Acknowledges
  /\ UNCHANGED <<channel, power, rounds, mask, mode, field, memory>>

TellChannel ==
  /\ Requested(170, 0)
  /\ Answers(<<Reply(1, 170, <<channel>>)>>)
  /\ UNCHANGED <<deviceVars, refused, acted>>

TellPower ==
  /\ Requested(183, 0)
  /\ Answers(<<Reply(1, 183, <<power \div 256, power % 256>>)>>)
  /\ UNCHANGED <<deviceVars, refused, acted>>

TakePower ==
  /\ Requested(182, 2)
  /\ power' = 256 * Params[1] + Params[2]
  /\ Acknowledges
  /\ UNCHANGED <<area, channel, rounds, mask, mode, field, memory>>

(* The notifications that follow are Connector's subject.                  *)
TakeRounds ==
  /\ Requested(39, 3)
  /\ Params[1] = 34
  /\ rounds' = 256 * Params[2] + Params[3]
  /\ Answers(<<>>)
  /\ UNCHANGED <<area, channel, power, mask, mode, field, memory, refused, acted>>

StopRounds ==
  /\ Requested(40, 0)
  /\ rounds' = 0
  /\ Acknowledges
  /\ UNCHANGED <<area, channel, power, mask, mode, field, memory>>

Notice(t) == Reply(2, 34, <<Tags[t].rssi>> \o PcOf(t) \o EpcOf(t) \o CrcOf(t))

PollOnce ==
  /\ Requested(34, 0)
  /\ LET tags == SetToSeq(field)
     IN  Answers(IF tags = <<>> THEN <<Reply(1, 255, <<21>>)>>
                 ELSE [i \in 1..Len(tags) |-> Notice(tags[i])])
  /\ UNCHANGED <<deviceVars, refused, acted>>

TakeMask ==
  /\ pc = "sent" /\ wire[1][3] = 12 /\ WellFormed(wire[1], 0) /\ Len(Params) >= 7
  /\ LET len == Params[6] IN
     /\ 8 * (Len(Params) - 7) >= len
     /\ mask' = [bank |-> Params[1] % 4, ptr |-> 256 * Params[4] + Params[5], len |-> len,
                 bytes |-> SubSeq(Params, 8, Len(Params))]
  /\ Acknowledges
  /\ UNCHANGED <<area, channel, power, rounds, mode, field, memory>>

TakeMode ==
  /\ Requested(18, 1)
  /\ Params[1] \in 0..2
  /\ mode' = Params[1]
  /\ Acknowledges
  /\ UNCHANGED <<area, channel, power, rounds, mask, field, memory>>

(* A tag answers to the password of four zeroes, and is killed by another; *)
(* with no more words than a frame has room for.                           *)
TagAnswer(t, data) ==
  /\ 3 + Len(EpcOf(t)) + Len(data) \in Short
  /\ Answers(<<Reply(1, wire[1][3], <<2 + Len(EpcOf(t))>> \o PcOf(t) \o EpcOf(t) \o data)>>)
  /\ acted' = [tag |-> t, epc |-> EpcOf(t), memory |-> memory]
  /\ UNCHANGED refused

Password == SubSeq(Params, 1, 4)
Zeroes   == <<0, 0, 0, 0>>
Address  == 256 * Params[6] + Params[7]
Count    == 256 * Params[8] + Params[9]

ReadLabel ==
  /\ Requested(57, 9)
  /\ Password = Zeroes
  /\ \E t \in Candidates : TagAnswer(t, Words(t, Params[5], Address, Count))
  /\ UNCHANGED deviceVars

WriteLabel ==
  /\ pc = "sent" /\ wire[1][3] = 73 /\ WellFormed(wire[1], 0) /\ Len(Params) >= 9
  /\ Len(Params) = 9 + 2 * Count
  /\ Password = Zeroes
  /\ \E t \in Candidates :
       /\ TagAnswer(t, <<0>>)
       /\ LET place == {<<t, Params[5], Address + i>> : i \in 0..(Count - 1)} IN
          memory' = [w \in DOMAIN memory \cup place |->
                       IF w \in place
                       THEN LET at == 10 + 2 * (w[3] - Address) IN <<Params[at], Params[at + 1]>>
                       ELSE memory[w]]
  /\ UNCHANGED <<area, channel, power, rounds, mask, mode, field>>

KillTag ==
  /\ Requested(101, 4)
  /\ Password # Zeroes
  /\ \E t \in Candidates :
       /\ TagAnswer(t, <<0>>)
       /\ field' = field \ {t}
  /\ UNCHANGED <<area, channel, power, rounds, mask, mode, memory>>

LockTag ==
  /\ Requested(130, 7)
  /\ Password = Zeroes
  /\ \E t \in Candidates : TagAnswer(t, <<0>>)
  /\ UNCHANGED deviceVars

TagCodes == {57, 73, 101, 130}

(* No tag, or not with this password.                                      *)
TagFails ==
  /\ pc = "sent" /\ wire[1][3] \in TagCodes /\ WellFormed(wire[1], 0) /\ Len(Params) >= 4
  /\ IF Candidates = {} THEN Refuses(<<CASE wire[1][3] = 57 -> 9 [] wire[1][3] = 73 -> 16
                                        [] wire[1][3] = 101 -> 18 [] OTHER -> 19>>)
     ELSE (Password = Zeroes) = (wire[1][3] = 101) /\ Refuses(<<22>>)

Reader ==
  \/ Refuse \/ TellArea \/ TakeArea \/ TellChannel \/ TellPower \/ TakePower \/ TakeRounds
  \/ StopRounds \/ PollOnce \/ TakeMask \/ TakeMode \/ ReadLabel \/ WriteLabel \/ KillTag
  \/ LockTag \/ TagFails

-----------------------------------------------------------------------------
(* The client *)

Init ==
  /\ site \in Sites
  /\ build \in site.builds
  /\ area = 5 /\ channel = 2 /\ power = 2000 /\ rounds = 0
  /\ mask = [bank |-> 0, ptr |-> 0, len |-> 0, bytes |-> <<0>>] /\ mode = 1
  /\ field \in SUBSET site.tags
  /\ memory = <<>>
  /\ pc = "idle" /\ step = 1 /\ wire = <<>> /\ kept = <<>>
  /\ op = [name |-> "none"] /\ result = Outcome("none", <<>>)
  /\ refused = <<>> /\ acted = NoTag /\ selected = <<>>

(* A tag of an inventory may be selected by the text of its EPC.           *)
Found ==
  IF op.name = "single_polling_instruction" /\ result.status = "Ok"
  THEN {[name |-> "select_tag", text |-> result.val[i].epc] : i \in 1..Len(result.val)}
  ELSE {}

SelectOps == {"select_tag", "clear_select"}

Invoke ==
  /\ pc = "idle"
  /\ \E o \in site.calls \cup Found :
       /\ op' = o
       /\ selected' = IF o.name \in SelectOps THEN <<>> ELSE selected
       /\ IF o.name \in TextOps /\ Cut(o.text)
          THEN pc' = pc /\ result' = Outcome("Panic", <<>>)
          ELSE IF o.name = "write_mem" /\ Len(ParseHex(o.text)) % 2 = 1
          THEN pc' = pc /\ result' = Outcome("FailedSetting", <<>>)
          ELSE pc' = "send" /\ result' = Outcome("none", <<>>)
  /\ wire' = <<>> /\ refused' = <<>> /\ acted' = NoTag
  /\ UNCHANGED <<build, site, deviceVars, step, kept>>

Returns(res) ==
  /\ pc' = "idle" /\ result' = res
  /\ step' = 1 /\ kept' = <<>>
  /\ selected' = IF op.name = "select_tag" /\ res.status = "Ok" THEN op.text ELSE selected

(* send_packet; a sum that overflows in a debug build ends the process.    *)
Send ==
  /\ pc = "send"
  /\ LET c == Requests(op)[step] IN
     /\ wire' = <<Frame(c)>>
     /\ IF build = "debug" /\ Overflows(Summed(c))
        THEN Returns(Outcome("Panic", <<>>))
        ELSE pc' = "sent" /\ UNCHANGED <<step, kept, result, selected>>
  /\ UNCHANGED <<build, site, deviceVars, op, refused, acted>>

(* The packets of a read, and what the operation makes of them.            *)
Receive ==
  /\ pc = "answered"
  /\ LET packets == Pick(wire, {i \in 1..Len(wire) : IsValid(wire[i])})
         panics  == build = "debug" /\ \E i \in 1..Len(wire) : Overflows(CheckedPart(wire[i]))
     IN
     IF panics THEN Returns(Outcome("Panic", <<>>)) /\ UNCHANGED wire
     ELSE IF op.name = "enable_multiple_polling_instructions" THEN Returns(Ok(Unit)) /\ wire' = <<>>
     ELSE IF packets = <<>> THEN Returns(Outcome("Timeout", <<>>)) /\ wire' = <<>>
     ELSE IF step < Len(Requests(op)) /\ GoesOn(packets)
     THEN /\ pc' = "send" /\ step' = step + 1 /\ kept' = packets[1] /\ wire' = <<>>
          /\ UNCHANGED <<result, selected>>
     ELSE Returns(Decode(packets)) /\ wire' = <<>>
  /\ UNCHANGED <<build, site, deviceVars, op, refused, acted>>

Client == Invoke \/ Send \/ Receive

Next == Client \/ Reader

Spec == Init /\ [][Next]_vars

-----------------------------------------------------------------------------
(* Properties *)

(* The bytes on the wire are bytes, whatever a request is computed from,   *)
(* and the reader's settings are what it can hold.                         *)
TypeOK ==
  /\ build \in {"debug", "release"} /\ site \in Sites
  /\ area \in 1..6 /\ channel \in Byte /\ power \in Short /\ rounds \in Short
  /\ mode \in 0..2 /\ field \subseteq DOMAIN Tags
  /\ \A w \in DOMAIN memory : memory[w][1] \in Byte /\ memory[w][2] \in Byte
  /\ pc \in {"idle", "send", "sent", "answered"} /\ step \in 1..2
  /\ \A i \in 1..Len(wire) : \A j \in 1..Len(wire[i]) : wire[i][j] \in Byte

(* The parameters that a command has. *)
ParamLengths(code) ==
  CASE code \in {8, 170, 183, 34, 40} -> {0}
    [] code \in {7, 18} -> {1}
    [] code = 182 -> {2}
    [] code = 39  -> {3}
    [] code = 101 -> {4}
    [] code = 130 -> {7}
    [] code = 57  -> {9}
    [] code = 12  -> {7 + b : b \in (Params[6] \div 8)..32}
    [] code = 73  -> {9 + 2 * Count}

(* Each side takes what the other sends for a whole frame: a request is    *)
(* well formed and of the length its command has, for any parameter, and   *)
(* Packet::is_valid accepts every response, the longest ones included.     *)
FramesUnderstood ==
  /\ pc = "sent" => WellFormed(wire[1], 0) /\ Len(Params) \in ParamLengths(wire[1][3])
  /\ pc = "answered" => \A i \in 1..Len(wire) : IsValid(wire[i])

(* When read_mem returns Ok, its bytes are the words at that place of the  *)
(* tag that answered, behind whatever EPC; when write_mem does, these      *)
(* words of that tag are the bytes of the text, and no others changed.     *)
(* Text with a character that is no digit is not covered: parse_hex_str    *)
(* writes a zero for it.                                                   *)
Place == {<<acted.tag, op.bank, op.addr + i>> : i \in 0..((Len(op.text) \div 4) - 1)}

Typed(w, i) ==
  LET at == 4 * (w[3] - op.addr) + 2 * i - 1 IN 16 * op.text[at] + op.text[at + 1]

MemoryAsAsked ==
  pc = "idle" /\ result.status = "Ok" =>
    /\ op.name = "read_mem" =>
         result.val = <<Words(acted.tag, op.bank, op.addr, op.length)>> /\ memory = acted.memory
    /\ op.name = "write_mem" /\ AllDigits(op.text) =>
         /\ \A w \in Place : memory[w] = <<Typed(w, 1), Typed(w, 2)>>
         /\ \A w \in DOMAIN memory \ Place :
              w \in DOMAIN acted.memory /\ memory[w] = acted.memory[w]

(* After a select_tag that returned Ok, tag operations touch only tags     *)
(* whose EPC begins with the selected one, also when its text is the one   *)
(* an inventory showed, and after write_mem gave other tags other EPCs.    *)
(* (Not: is the selected one. The mask is 96 bits, and a longer EPC that   *)
(* begins with them is selected too.)                                      *)
OnlyTheSelected ==
  acted # NoTag /\ selected # <<>> /\ AllDigits(selected) =>
    SubSeq(HexUpper(acted.epc), 1, Len(selected)) = selected

(* What a setter that returned Ok was asked for is what the reader has,    *)
(* power to a hundredth and within its 16 bits; and what a getter returns  *)
(* is what the reader has: the channel is a frequency in the band of its   *)
(* area. Error responses, which the getters decode as values, are left     *)
(* out.                                                                    *)
Band == [China900Mhz |-> <<920000, 925000>>, US |-> <<902000, 928000>>, EU |-> <<865000, 868000>>,
         China800Mhz |-> <<840000, 845000>>, Korea |-> <<917000, 923500>>]

InBand(frequency, a) == Band[a][1] <= frequency /\ frequency <= Band[a][2]

Clamp(n) == IF n < 0 THEN 0 ELSE IF n > 65535 THEN 65535 ELSE n

SettingsArrive ==
  pc = "idle" /\ result.status = "Ok" /\ refused = <<>> =>
    /\ op.name = "set_working_area" => Region[area] = op.area
    /\ op.name = "get_working_area" => result.val = <<Region[area]>>
    /\ op.name = "get_working_channel" => InBand(result.val[1], Region[area])
    /\ op.name = "set_transmission_power" => Clamp(op.power) - power \in {0, 1}
    /\ op.name = "get_transmit_power" => result.val = <<power>>
    /\ op.name = "enable_multiple_polling_instructions" => rounds = op.times
    /\ op.name = "stop_multiple_polling_instructions" => rounds = 0

(* A refused operation that looks at the error flag fails, and its message *)
(* shows the byte the reader sent, except that a code of 0 is told as      *)
(* "Success" without a byte; a refused stop fails; an empty error response *)
(* is told as 0xFF. The queries, the setting of power and the inventory do *)
(* not look, enable_multiple_polling does not read.                        *)
CheckedOps ==
  {"set_working_area", "select_tag", "clear_select", "read_mem", "write_mem", "kill_tag", "lock_tag"}

ToldAs(data) ==
  IF data = <<>> THEN 255 ELSE IF data[1] = 0 THEN NoByte ELSE data[1]

ErrorTold ==
  pc = "idle" /\ refused # <<>> =>
    /\ op.name \in CheckedOps =>
         /\ result.status = "CommandError"
         /\ ShownByte(result.val[1]) = ToldAs(refused[1])
    /\ op.name = "stop_multiple_polling_instructions" => result.status = "ErrorStopMultiPolling"

(* What an inventory returns.                                              *)
RecordOf(t) ==
  [rssi |-> Tags[t].rssi, pc |-> HexUpper(PcOf(t)), epc |-> HexUpper(EpcOf(t)),
   crc |-> HexUpper(CrcOf(t))]

Inventoried == pc = "idle" /\ op.name = "single_polling_instruction" /\ result.status = "Ok" /\ refused = <<>>

Lists(tags) ==
  /\ Len(result.val) = Cardinality(tags)
  /\ ToSet(result.val) = {RecordOf(t) : t \in tags}

(* An inventory lists the tags in the field, each once with its fields as  *)
(* the reader sent them; except that only EPCs of 96 bits are listed, and  *)
(* that a lone tag of signal strength 0x15 is not.                         *)
InventoryFaithful ==
  Inventoried =>
    \/ Lists({t \in field : Len(EpcOf(t)) = 12})
    \/ \E t \in DOMAIN Tags : field = {t} /\ Tags[t].rssi = 21 /\ Lists({})

(* A call panics in two cases only: in any build, before it sends a byte,  *)
(* on text that parse_hex_str cuts within a character; and in a debug      *)
(* build on a checksum that overflows, which takes a frame of more than    *)
(* 257 bytes.                                                              *)
PanicsExplained ==
  result.status = "Panic" =>
    \/ wire = <<>> /\ op.name \in TextOps /\ Cut(op.text)
    \/ build = "debug" /\ \E i \in 1..Len(wire) : Len(wire[i]) > 257

(* The reader is set to the power that set_transmission_power was asked    *)
(* for, "26.50 dBm -> 2650 -> 0x0A 0x5A" (a test of frame.rs).             *)
PowerAsAsked ==
  pc = "idle" /\ op.name = "set_transmission_power" /\ result.status = "Ok" /\ refused = <<>> =>
    power = Clamp(op.power)

(* An inventory lists the tags in the field: "parses all returned packets  *)
(* into a collection of Rfid records", "possibly empty if no tags are      *)
(* present" (SyncIO::single_polling_instruction).                          *)
InventoryComplete == Inventoried => Lists(field)

=============================================================================
