# A TLA+ model of r200_uhf

`r200_uhf` drives an R200 / M100 UHF RFID reader over a serial line: a library
(`Connector` with the traits `SyncIO` and `AsyncIO`) and a command line tool
(`r200`). This directory models the parts of it whose correctness is a matter of
orders and of failures: turning a byte stream into packets, pairing requests
with responses, encoding and decoding what they carry, and the select / operate /
clear sequences that decide which tag is written, killed or locked.

Paths such as `sync.rs` are relative to the crate's `src/` (`connector/sync.rs`,
`connector/mod.rs`, `cli/mod.rs`, `cli/port.rs`, ...).

## Inventory

| Part | State | Operations | What is hard | What makes it correct |
|---|---|---|---|---|
| `read_from_serial` (`connector/sync.rs:195`) | `rolling`, `consumed`, `output`, all local to a call | append what `port.read()` delivers, find frames, drop garbage, return on a count, a timeout, an end or an error | frames cut anywhere, header bytes in payloads, corrupted lengths, leftovers dropped at return | exactly the sent frames, once and in order; bounded buffer; always returns |
| `SyncIO` operations (`connector/sync.rs:145`) | none of their own: the port's input buffer and the reader's settings | 17 operations, each one to three request/response exchanges | no response is matched to its request; notifications of multi-polling; late answers; two-step selection; error frames taken for values | an answer is the answer to this call; a setting reported as made is made; stop means stopped |
| `write_epc_reliable` (`sync.rs:557`) | `select_epc`, `last_err`, the attempt | select, write, on `WriteFail` clear, poll for the tag, retry | writes applied in part or unacknowledged, another tag in the field, ignored clear failure | bounded retries; touches another tag only if it took it for the tag |
| CLI tag commands (`cli/mod.rs:205-443`) | `current_epc`, `--select` | wait for a tag, select, operate, clear, read back | the tag leaves between the steps; selections left over by an aborted command | `--select` gates every operation; success leaves no selection |
| `SharedPort`, `ReaderGuard` (`cli/port.rs`) | `needs_flush` | clear the input before the first write after a read; send a stop when dropped | a failing clear consumes the flag; the guard reads no acknowledgement | stale input never answers a request |
| CLI sessions (`cli/mod.rs:148`) | `running`, `seen` | connect, a sequence or a loop of operations, Ctrl+C, the guard's stop | the interrupt races the read; a killed process leaves an answer under way; either stop may fail | a scan never leaves the reader multi-polling; no process takes an answer meant for another |
| `AsyncIO` (`connector/async_impl.rs`) | as `SyncIO` | the same exchanges with `await` and a 500 ms timeout per read | a future dropped between request and read | as `SyncIO` |
| `frame.rs`, `packet.rs`, `rfid.rs`, decoding in `connector/mod.rs` | none | encode commands, decode packets | widths, a truncated double, an RSSI byte equal to an error code, framing of variable length, checksums that overflow | the reader does, and the caller is told, what was meant |
| `cli/display.rs`, `main.rs`, `lib.rs`, examples | none | printing, re-exports | nothing | not modelled |

How they interact: the CLI owns a `Connector<SharedPort>`; every operation writes
one frame through `send_packet` and reads through `read_from_serial`, both on
the same port, from a single thread. The guard holds a clone of the port and
writes to it when the connector is no longer in use. The reader answers each
request with one frame, except that an inventory sends a frame for every tag
and a multi-polling command goes on sending them until its rounds are over or a
stop command comes. So the interleaving that matters is between the host, the
line and the reader (and the tags, which are moved by hand), not between threads.

`PROJECT.json` lists the hazards one by one with their lines.

## Modules

```
FrameParser  <- FrameParserProofs            bytes  -> packets
     ^--------- MCFrameParser
Codec        <- CodecProofs                  packets <-> values
     ^--------- MCCodec
R200Reader   <- Connector <- MCConnector     packets -> answers of operations
                | INSTANCE  ^
                v           +- CliSession <- MCCliSession     processes
             Exchanges                       what operations promise
TagCommand   <- TagCommandProofs             answers -> which tags are touched
     ^--------- MCTagCommand

Connector <- ConnectorProofs <- SharedPortProofs <- ExchangeProofs
  |                 ^---------- PromptLineProofs
  +--------- CliSession <- CliSessionProofs
```

`ConnectorProofs` has the types and what the other proofs use of sequences, scripts
and the reader; `SharedPortProofs` and `ExchangeProofs` are about the CLI's port,
`PromptLineProofs` about a plain one, `CliSessionProofs` about the processes.

The levels are separate because each hands the next one a fact: the parser
reports exactly the frames sent (`ExactFrames`), so `Connector` and `Codec` can deal in
frames; the bytes of a frame mean what the caller meant (`Codec`), so `Connector`
can name them; an operation implements `Exchanges` (`AtomicExchanges`), in which
each exchange is carried out at most once, before the next one and if it is
reported, so `TagCommand` can make an exchange one step that succeeds, or fails
with or without its effect.

### FrameParser

`read_from_serial` over a stream of bytes. A byte is named by its position in
the stream, so the code's `rolling` is `stream[head .. tail-1]`, its
`consumed` is `cursor - head`, a drain or clear moves `head`, and a packet in
`output` is the position of its header. Actions: `Received` (a read of any
size), the branches of the inner loop `Exhausted` (no header: clear),
`NeedMore` (short header or incomplete frame: drain to it), `EmitFrame`,
`LastFrame` (count reached: return), `SkipFrame` (bad checksum), then
`TimedOut`, `Eof`, `ReadError` and `NextCall`. The trim to 4096 bytes once
`rolling` exceeds 8192 is part of every way out of the inner loop (`ReadAgain`).
`Interrupted` reads again and changes nothing, so it is a stuttering step.
The ghost `frames` says where the reader began a frame; the parser never reads it.

### R200Reader and Connector

`R200Reader` is the device and the line, which the repository does not contain:
it is modelled from what the connector sends and distinguishes. It takes
requests in order, carries one out or refuses it, sends inventories, goes on
with multi-polling rounds, and the line may lose a request or a frame.

`Connector` gives every operation a `Script` of exchanges (`send_packet` then
`read_from_serial`, with the number of packets asked for) and computes an
answer from whatever frames the read returned. Nothing in it compares command
codes except the stop command's search for its acknowledgement, as in the code.
`Receive` drops what comes with the last expected packet; `TimedOut`, `Eof` and
`ReadError` end a read; `SendFails` is an I/O error with the request sent or
not; `get_module_info` keeps going after a failed exchange and reports the
first failure at the end; `setup_reader` ignores how its stop ended. `Input` is
`SharedPort::write` when `Flush` is on, and `ClearFails` its failure: the flag is
consumed and nothing is sent. A call has an `api`: an `"async"` one is a future
of `AsyncIO`; its `get_module_info` returns at its first failure, and `Cancel` drops it
at any point between its start and its return, with the packets it had read. The reader
may be multi-polling when the program starts. The ghost field `own` marks frames that
answer the request sent last; the ghost `polled` says that no stop has been
acknowledged since multi-polling began, and `owed` counts the stops a careful client
still has to make after a call it dropped (one) or whose write failed (two).

The line has three tempers (`Line`): `"prompt"`, a read times out only if
nothing is under way; `"settles"`, a read may time out early, but what is under
way arrives before the next request goes out; `"late"`, neither.

`Exchanges` is what the operations promise, without port, frames or buffers:
`Begin` takes a script of requests, `Ask` makes the first of them, the reader may
`CarryOut` or `Lose` it, `Succeed` gets past it (if it is one that must be
confirmed: only when it was carried out and its answer was not lost), `Fail` gives
up. `AskOnly` is an operation that waits for no answer, `AskInVain` one whose write fails, and
`Skip` is `setup_reader`, which returns `Ok` even then. `Connector`'s `Promise` maps onto it: `todo` is the rest of the call's script,
`sent` and `acked` are read off the line (the call's own request under way to the reader;
its own answer under way to the host, in the port's buffer or among the packets read).

### Codec

The bytes. `Requests` gives every operation its commands and parameters, `Frame`
the frame that `send_packet` writes; `Decode` makes the result of an operation of the
packets it read. `Invoke`, `Send` and `Receive` are an operation's steps; a
process built with overflow checks (`build = "debug"`) panics where a u16 sum overflows.
`IsCall` says what can be invoked at all: what the traits' types allow, and text of an even
number of bytes, which is all that `parse_hex` looks at.
Numbers have their widths (`U16`, `TwoBytes`); a power is given in hundredths of a
dBm and `PowerUnits` is what `(p * 100.0) as u16` makes of the double nearest to it
(`FallsShort` says when the product is just below the whole number, which was compared with
double arithmetic for all values of u16). Hex text is a sequence of the bytes of its
UTF-8: digits by their values, `Bad` for another character of one byte, `Plus` for the sign
that `from_str_radix` takes, and `Wide` with `Rest` behind it for a longer character.
`parse_hex_str` slices pairs of bytes, and a slice that cuts a character (`Cut`) panics in any build: then
`Invoke` ends before a byte is sent. `FromByte` decodes the code of an error response by the table of
`ErrorCode::from_byte`; `ShownByte` is the byte that `Display` prints, from its own literals
(`MessageByte`, `MessageHalf`), which is none for `Success` (`NoByte`). The other side is a reader that decodes requests by
the protocol, with literals of its own rather than the code's tables: settings, select
mask and mode, tags with memory, one action per command. It may refuse any
request with the codes the site lists. The ghosts `refused`, `acted` and
`selected` remember the error response of the call, the tag acted on with its
memory before, and the selection that was reported.

### CliSession

The `r200` tool: processes that follow one another on the same reader and line.
It extends `Connector` with `Flush` on. A command is a `Program`, a sequence of
operations, each with what the command does with its result: end on an error (`"must"`,
the `?`), go on whatever it is (`"may"`), repeat until a tag is seen (`"until"`),
repeat until Ctrl+C (`"while"`). `Connect` clears the input and raises
`needs_flush`; `CallOp` calls the next operation, which then runs through
`Connector`'s own actions; `Advance`, `Again`, `LeaveLoop` and `Fail` look at its
result; `Exit` is the drop of `ReaderGuard`, whose stop clears nothing and whose
acknowledgement nobody reads. `CtrlC` takes `running` down in a scan and in any other
command kills the process (`Killed`), which drops nothing. `Fault` counts what
fails: a request or a frame lost, a stop refused, a write or a clear failing. `TagProgram`
is the part that the commands on a tag share; a write without `--select` reads the EPC back
with one more loop of polls, and its retries are `TagCommand`'s subject.

### TagCommand

The commands that act on one tag, down to the tags. `Find`, `SelectTag` (two
steps), the operation, `ClearSelect` (two steps), `Verify`, and for
`write_epc_reliable` `WriteFails`, `Reset` (the ignored clear), `Look`
(rediscovery) and `Retry`. An error answer comes with or without its effect; a
failed write leaves the old EPC, the new one or a partial one; the reader may
start with any selection; tags come and go. `touched` collects the tags an
operation acted on, `target` the tags the command is for, `found` the tags a
rediscovery settled on.

## Runs

| Run | Result | Question |
|---|---|---|
| `parser` | holds | Does the parser report exactly the frames sent, whatever the payloads, damage, cuts and early ends (`ExactFrames`)? Is its buffer bounded (`RollingBounded`)? What may it return (`AnswerSize`)? On arbitrary bytes, is the way they are cut into reads invisible (`ChunkingInvisible`)? Does every read end (`ReadReturns`)? |
| `connector_prompt` | holds | All operations of both traits in any order on a lossy line, futures dropped anywhere: is an answer ever mixed up (`OwnAnswer`), a setting reported but not made (`SettingsHold`), a stop reported while polling goes on (`StopLeavesQuiet`), anything left on the line (`CleanBetweenCalls`)? |
| `connector_flush` | holds | The same on the CLI's port when answers come after the timeout and reads, writes and clears fail; do the operations implement `Exchanges` (`AtomicExchanges`), and does every call return (`CallReturns`)? |
| `cli_sessions` | holds | Commands, kills and interrupts in any order, one fault in all: does a scan leave the reader polling (`LeavesNoPolling`), does a command take another's answer (`CommandsGetTheirAnswers`)? |
| `cli_scan` | holds | Does Ctrl+C end a scan, however many tags answer (`InterruptEnds`)? |
| `connector_late` | violated | "Ok(()) when the device acknowledges the setting" on a plain port with a late answer (`OkMeansAcknowledged`). |
| `connector_power` | violated | "Ok(f64) with the transmit power" when the reader answers with an error (`PowerIsReal`). |
| `tag_commands` | holds | Which tags may be touched (`SelectGates`, `OnlyMistakenTags`), what is left selected (`NoSelectionLeft`), how often is a write retried (`AllRetriesUsed`), does a command end (`CommandEnds`)? |
| `tag_rediscover` | violated | "polls to rediscover the tag's actual EPC" with a second tag in the field (`RediscoversTheTag`). |
| `codec` | holds | Is every frame understood by its receiver (`FramesUnderstood`)? Are the words read and written those that were meant (`MemoryAsAsked`), the tags operated on those selected (`OnlyTheSelected`), the settings made and told those asked for (`SettingsArrive`), refusals told with their code (`ErrorTold`), the tags listed those in the field (`InventoryFaithful`)? When does a call panic (`PanicsExplained`)? |
| `codec_power` | violated | "26.50 dBm -> 2650 -> 0x0A 0x5A" for other powers (`PowerAsAsked`). |
| `codec_inventory` | violated | "parses all returned packets into a collection of Rfid records" (`InventoryComplete`). |

What the five violations say:

* `connector_late`: a set-power request is answered only after the port's
  timeout; the next set-power request is lost; its read finds the late answer
  and returns `Ok`. `SharedPort` prevents it in the CLI (`connector_flush`),
  a `Connector` on a plain port is exposed to it.
* `connector_power`: an error response has one data byte, its code;
  `calculate_transmit_power` reads a one-byte payload as a power.
* `tag_rediscover`: `tags.first()` after a failed write may be a different tag,
  which is then selected and written. The CLI avoids this path under
  `--select`, which is why `SelectGates` holds.

* `codec_power`: 16.90 as a double is a little less than 16.9; times 100 it is
  1689.9999..., which `as u16` cuts to 1689. Of the 3400 hundredths below 34 dBm, 176
  lose a hundredth in this way.
* `codec_inventory`: a tag with a 128-bit EPC answers with 21 bytes, which
  `parse_rfid_packets` drops; a lone tag whose RSSI byte is 0x15 is taken for the error
  code for no tag.

More things the runs taught that are no contradiction to any document, and
that the properties name as their exceptions:

* When a request is written and the flush of the port after it fails, the call
  ends without a read, so `needs_flush` stays down; the next operation of the same
  command (only Info goes on after a failure) then does not clear the input and
  may take the answer to the failed one. `CommandsGetTheirAnswers` is about
  histories in which no write failed.
* A stop may be acknowledged twice, once for the guard of the last process and once for itself,
  and accept the first of the two. Both say that polling has ended, so
  `OwnAnswer` and `CommandsGetTheirAnswers` leave stops out, and `StopLeavesQuiet` and
  `LeavesNoPolling` cover them.
* The select mask is 96 bits: a longer EPC that begins with the selected one is
  selected too, and `OnlyTheSelected` says "begins with".
* A wrong character in hex text becomes a zero, and a character of several bytes across two
  pairs (`aéb` has four bytes, which is even) ends the process in a panic, in any build.
  `MemoryAsAsked` and `OnlyTheSelected` are about text of digits, `PanicsExplained` names the panic.
* An error response with code 0 fails its operation with the message "Success" and no byte; every other
  code is shown as it came. `ErrorTold` names this.
* An inventory refused with any code but 0x15 is an empty one;
  `InventoryFaithful` is about inventories that were not refused.

### Bounds

* Sizes 1024 / 8192 / 4096 of the parser are scaled to 4 / 9 / 4, so that a frame with a
  corrupted length reaches the cap. The theorems hold for all sizes. Pieces include a
  header byte in the data, a checksum equal to the header, a damaged frame, noise
  that looks like a header and a header that announces more than the buffer; noise is
  every sequence of header bytes and zeroes of the length `MCFrameParser` gives. Calls
  follow one another on the same stream, asking for one or several packets.
* `Values` has two members, so a stale setting differs from the right one;
  `MaxTags` = 2 tags in an inventory, `PollRounds` = 2 rounds, of which a
  multi-polling call takes `PollLimit` = 2 packets and so can leave some behind, as
  with 100 in the code. `MaxLine` = 2 or 3 bounds the frames the reader is
  willing to put on the line; the reader waits at the bound.
* `connector_prompt` leaves out `set_working_area`, which has the exchange and the
  check of the other settings, and the futures of `kill_tag` and `lock_tag`, which have
  those of `write_mem`; `connector_flush` has every operation of `SyncIO`.
* `Careful` is on in the `connector_*` runs: the client stops multi-polling before it calls anything else, and
  stops once after a call it dropped: that is how the examples use it and what the operations rely on.
  After a call whose write failed it stops twice (the CLI ends instead): only a read raises
  `needs_flush` again, so the first of these stops may go out over stale input and take the
  acknowledgement of an earlier one for its own. With a single stop `StopLeavesQuiet` fails.
  The `cli_*` runs need no such assumption: there the discipline is what the programs do.
* `connector_prompt` takes one round and one packet of multi-polling, which is enough to
  leave notifications behind; `connector_flush` two; `cli_sessions` one, `cli_scan` two.
* `MaxFaults` = 1: two stops end a scan, so one fault is the most that
  `LeavesNoPolling` can survive; processes and calls are not bounded.
* The commands of `cli_sessions` are one of each form: Read, WriteMem and Lock have
  Kill's, Write adds a poll as Scan's loop has it, GetPower has less than Info, Region has
  SetPower's. The theorems are about all of them.
* Two tags and three EPCs, two retries (the CLI passes 3): enough for one wrong
  rediscovery after another and for a tag that carries the EPC in `--select`
  or none that does.

* `codec` has three sites. Settings: every area, powers at and beyond both ends of
  u16, one that is cut and one that is not, and 24 error responses (every named code, one or more of
  each family, unknown ones, 0xFF, an empty one). Tags: any of three in the field, one with the RSSI of
  the error code, two whose EPCs differ in the last digit, one with a 128-bit EPC
  that begins with another's; reads and writes across address 256, an EPC rewritten, wrong
  passwords, a kill, a lock. Long frames: 120 words, which fit the sum, and 130, which
  overflow it, in both builds; text with wrong characters, and with one of two bytes within a pair and
  across two. Calls are not bounded.

### Fairness

* `FrameParser`: the inner loop runs (it is sequential code), and a read on a
  line that stays silent ends with the port's timeout (500 ms in the CLI).
  There is no fairness on `Received`: the line may stop at any time.
* `Connector`: the host proceeds, the reader eventually takes or refuses a
  request and finishes its rounds, the line delivers what it does not lose, and
  a read on a silent line times out. No fairness on losses or on the client.
* `CliSession`: the process runs (`Run`), and the connector, the line and the reader
  as above. No fairness on Ctrl+C, on kills or on faults, nor on starting a process.
* `TagCommand`: once a command has found a tag, every exchange ends, by
  `CallReturns`. Waiting for a tag may last forever, so `CommandEnds` starts
  from the selection.

## Proofs

`FrameParserProofs` proves, for every size of buffer, trim, read and stream, from
`SizesAssumption` and `InputsAssumption` alone (sizes are naturals, the stream is
a sequence of bytes):

* `TypeCorrect`: `Spec => []TypeOK`. The order `start <= head <= cursor <= tail`
  is inductive by itself once the length of a frame at a complete header is known
  to be a natural number.
* `Bounded`: `Spec => []RollingBounded`, from the trim in `ReadAgain`.
* `Answers`: `Spec => []AnswerSize`.
* `Framing`: `Spec => []ExactFrames`. Neither `ExactFrames` nor its parts are
  inductive: what carries the proof is that on a regular line the cursor is
  never strictly inside a frame. Since a header byte outside a frame does
  not exist on such a line, the next header at or after a cursor between frames is the
  start of a frame; its announced length is its real length; so skipping or emitting it puts the
  cursor between frames again; a clear loses no header; and the trim never cuts,
  because an incomplete frame is no longer than the buffer. The invariant adds this to `TypeOK` and to the
  statement about `output`, and each action is one step of the proof.

`CodecProofs` proves the type invariant and five more of the run's properties (`BytesAreBytes`,
`PanicsAreExplained`, `ErrorsAreTold`, `SettingsDoArrive`, `MemoryIsAsAsked`, `InventoryIsFaithful`) for
any tags, sites, calls and error responses that `CodecAssumption` allows: texts and reads
of any length, all powers and addresses, any tags in the field. They follow from `Invariant`
(`Spec => []Inv`), whose parts follow a call on its way:

* `Device`, `Call`: the types of the reader's settings, and which call is made and how far it is.
* `Sent`: a request on the wire is the one of this call and step. So the reader, which
  decodes it by literals of its own, does what the call says and nothing else.
* `Answered`: an answer on the wire is a refusal, which is remembered, or has the command and the data
  that this operation decodes, and the reader and the tags are what the data say.
* `Shown`: the text of a listed EPC is 24 digits, so that selecting it is a call again.

`Receive` then decodes what `Answered` describes. Three things are needed on the way. A checksum
is a fold and `Pick` a recursive function: both exist and unfold one step at a time (`SumsExist`,
`PicksExist`), and `Induction` over a set of numbers, proved from their well-foundedness,
bounds the sums, so a checksum is a byte and a panic takes a frame of more than 257 bytes. A
request too long for its 16 bits is not excluded: the reader does not take it for well formed, and
can do no more than refuse it. And a tag answers with no more words than the length field can tell.

Three theorems about data of any length stand by themselves: `HexRoundTrip` (`ParseHex(HexUpper(bytes)) =
bytes`: an EPC listed is the EPC selected), `FramingStripped` (`StripReadFraming` returns the
words behind PC and EPC of any length) and `ShownIsSent` (the literals of `Display` agree with
the table of `from_byte` for every byte; for 0 none is shown).

`TagCommandProofs` proves all five invariants of `TagCommand` for any tags and EPCs
and any number of retries (`TypeCorrect`, `Gated`, `MistakenOnly`, `Cleared`,
`Retried`). None but the type is inductive. The invariant adds what the code relies
on without saying it: where a command is determines the reader's selection
(between `select_tag`'s two steps the mask is set, at the operation the mode
too, at verification neither), only `write_epc_reliable` retries and rediscovers, tags
that were never touched have EPCs of their own, and every tag the selection
matches is the target or was taken for it by a rediscovery.

`ConnectorProofs` proves `TypeCorrect` (`Spec => []TypeOK`) for every instance of
`Connector`: any port, line, client and faults. With it comes `Fits`: every
operation stays within its script, whatever the answers.

### The CLI's port

`SharedPortProofs` assumes `OnSharedPort`: the port clears its input (`Flush`), what is under
way arrives before the next request goes out (`Line = "settles"`: reads may time
out early), and the client stops multi-polling where it has to (`Careful`). All
else is free: the operations called, the tags and rounds, what is lost or refused, which
of the port's calls fail. `Invariance` proves `PortInv`, from which follow `AnswersOwn`, `SettingsMade` and
`StopsQuiet` (the run's `OwnAnswer`, `SettingsHold`, `StopLeavesQuiet`). Its parts:

* `OneRequest`: the only request on its way is the last one.
* `StopsAreMade`: a request goes out over stale input only when it is a stop or
  another multi-polling. This is where the two stops after a failed write are needed.
* `AcksEndPolling`: an acknowledgement anywhere on the line tells that the
  reader does not poll and has not been told to, so it does not matter to a stop
  which one it meets.
* `AckIsLast`: the acknowledgement of the last request is the last frame of the
  line. A stop that has read it has read everything, which is why `Ok` means a
  quiet line, although the read ends by a timeout that may come early.
* `MeetsItsOwn`: any other call but a multi-polling reads only frames that answer
  its request. This, and no comparison of command codes, is what `OwnAnswer` rests on.
* `SettingsFollow`: what the answer under way confirms is set; a selection's
  mask still is when its mode is confirmed.

`ExchangeProofs` proves, from `PortInv`, that `Connector` implements `Exchanges`
(`Implements`: `Spec /\ OnSharedPort => AtomicExchanges`): initial states map to initial
states, and each action to one step of the abstract specification or to a stutter.
Losses map to `Lose`, taking a request to `CarryOut`, the end of an exchange to
`Succeed` or `Fail`; that `Succeed` is allowed (the answer was the request's own)
is what `MeetsItsOwn` and `AckIsLast` give.

### A prompt line

`PromptLineProofs` assumes `OnPromptLine`: reads time out only if nothing is under way, the
port's calls do not fail, the client is careful, and `Many > Room`. Futures of
`AsyncIO` may be dropped anywhere, anything may be lost or refused, and there need be no
flush. `Invariance` proves `LineInv`; `CleanBetween`, `AnswersOwn`, `SettingsMade` and
`StopsQuiet` are the four invariants of the run.

* `Bounded`: the frames under way, and those the requests and rounds still to come
  may put there, never exceed `Room`. So `read_from_serial(None)`, which waits for
  `Many` packets, is never full: it ends by its timeout, with nothing under way. This is
  what makes a stop and a single polling leave a clean line, and the one place where
  the number matters. With the code's 100000 packets it allows, for instance, 20 requests
  waiting, 20 tags in the field and 100 rounds (`Room` is then 44580); a field and a
  multi-polling so large that more can be under way are outside the theorem. In the run
  `Room` is 21 and `Many` 100.
* `ClientStops`: a client that is polling or dropped a call has a stop to make first.
* `Clean`: otherwise, outside a read, nothing at all is left of earlier calls.
  `CleanBetweenCalls` says this for the time between calls; between the exchanges
  of one call it has to hold too, for the second answer to be the right one.
* `AcksEnd`: nothing but a stop is sent after a stop, and an acknowledgement on the
  line tells that polling is over; only a stop can meet one.
* `Meets`: any other call has one request or its answer under way, never both, and
  a single frame unless it polls. So a read that stops at its first packet leaves none behind.

### Sessions

`CliSessionProofs` is about processes that follow one another without end, killed or
interrupted anywhere, running any of the commands. It does not assume a careful client: that
a process stops what it started is what the programs and the guard do (`Commanded` states
the shape the proofs need of each program). Faults are counted in `faults`, and the last two
theorems are about histories with at most one, whatever `MaxFaults` is.

* `SessionTypes`: `SessionSpec => []SessionTypeOK`.
* `ScanLeavesNoPolling`: `LeavesNoPolling`, on every kind of line, with reads that time
  out early and answers that come late. The invariant `StopInv` says that once a scan is
  over, whatever can still make the reader poll (rounds to come, a request on its way) has
  two stops behind it on the line, the scan's own and the guard's, or one if there was a
  fault; and one already when the scan has sent its own (`Backup`).
* `CommandsTakeTheirAnswers`: `CommandsGetTheirAnswers`, where what is under way arrives
  before the next request goes out (`Line = "settles"`). The invariant `AnswersInv` says that
  while no write has failed, a read finds only frames that answer the request it waits for
  (`OnlyItsOwn`), and that where `needs_flush` is down before a request, nothing is left on the
  line or in the buffer (`NothingStale`). It is down after a clear that failed, and then the
  command ends. Only Info goes on after an error, that of its third operation; by then all it
  asked for before has been answered (`InfoInOrder`, `OkHasRead`).

### Assumptions

`ConnectorAssumption`, `ReaderAssumption` and `TagCommandAssumption` type the
constants: calls are the operations of the traits, `AsyncIO` is not used on the
`SharedPort` (which is the CLI's, and blocking), the values of settings are none of the marks the model
uses for other contents of frames; `CliAssumption` and `VerbsAssumption` put sessions on a
`SharedPort` and name the commands. `CodecAssumption` types what `Codec` is about: calls are what `IsCall`
says, a tag's EPC has whole words, at most 31 of them (five bits of its PC tell how many), and the data of an error
response is at most 66 bytes, a code and what a tag sent. The theorems about `Connector` assume nothing else than the
formulas `OnSharedPort` and `OnPromptLine`, which the runs `connector_flush` and
`connector_prompt` satisfy; `connector_late` shows what happens without either. Both
are about constants, and `Careful` is about the client, not the library: the
documentation does not tell it to stop, the examples do.

### Only model-checked

* `FramesUnderstood` and `OnlyTheSelected`, of `Codec`. The first is not true of every call: the length
  of a write beyond 64 KiB is cut to 16 bits, and a selection by hand may be of any
  length, although the command always says 96 bits. It is about the calls of the run's sites.
* `ChunkingInvisible`: its reference `OnePass` is a recursive function over data.
* Liveness (`ReadReturns`, `CallReturns`, `InterruptEnds`, `CommandEnds`), which is outside
  what the prover handles.

## Not modelled

* Argument parsing, sleeps, printing and logging: no state that a property
  is about.
* The text of module info, which is decoded as UTF-8 and stripped of what is not ASCII,
  and the wording of errors. Fractions of a MHz below 1 kHz.
* Lock bits and passwords of tags beyond one that is right and one that is wrong.
* `Ok(0)` from a port is modelled as an end of input at any point; a port
  that blocks forever (no timeout configured) is not.
* The device's firmware beyond what the connector distinguishes; it answers
  requests in order and never invents a response.

## Plan

The order so far: bytes to packets first, since everything rests on it, then
operations, then the commands on tags and the processes; then the proofs, in
the same order: `FrameParser`, `Connector` on both kinds of line, `TagCommand`, `CliSession`
and, last, the behaviours of `Codec`. What is left:

1. `FramesUnderstood` under an assumption on the lengths of texts, and `OnlyTheSelected`, which needs an
   invariant about the mask and the mode between one call and the next.
2. An abstract specification of delivery (the frames of the line taken in order)
   that `FrameParser` implements on a regular line, from `Framing`'s invariant.
