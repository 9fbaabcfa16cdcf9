------------------------------ MODULE Connector ------------------------------
(***************************************************************************)
(* The operations of SyncIO (src/connector/sync.rs) and AsyncIO            *)
(* (async_impl.rs) at the level of frames, over the port of a reader:      *)
(* every operation is a script of exchanges, each of them send_packet      *)
(* followed by read_from_serial, and the answer of an operation is         *)
(* computed from whatever frames that read returned. Nothing ties a frame  *)
(* to the request it answers, and the buffer of a read dies with it.       *)
(***************************************************************************)
EXTENDS R200Reader, FiniteSets

CONSTANTS
  Calls,     \* what the client may invoke: [name, arg, api] records
  PollLimit, \* packets multi_polling_instruction waits for (100)
  Many,      \* read_from_serial(None): 100000 packets
  Flush,     \* the port is the CLI's SharedPort, which drops stale input
  Line,      \* "prompt", "settles" or "late": see Patience below
  Faults,    \* which of the port's calls may fail: {}, {"read"}, ...
  Careful    \* whether the client calls stop where it has to: see Invoke

(* The operations of the two traits. read_epc is read_mem, write_epc is    *)
(* write_mem, and write_epc_reliable is made of the others (TagCommand).   *)
AsyncOperations ==
  {"setup_reader", "get_module_info", "get_working_area", "get_working_channel",
   "get_transmit_power", "set_transmission_power", "set_working_area",
   "single_polling_instruction", "multi_polling_instruction",
   "stop_multiple_polling_instructions", "select_tag", "clear_select",
   "read_mem", "write_mem", "kill_tag", "lock_tag"}

SyncOperations == AsyncOperations \cup {"enable_multiple_polling_instructions"}

(* A call of AsyncIO is a future, which may be dropped. *)
IsAsync(c) == c.api = "async"

ASSUME ConnectorAssumption ==
  /\ Calls \subseteq [name : SyncOperations, arg : Values \cup {NoValue}, api : {"sync", "async"}]
  /\ \A c \in Calls : IsAsync(c) => c.name \in AsyncOperations /\ ~Flush
  /\ PollLimit \in Nat \ {0} /\ Many \in Nat \ {0}
  /\ Flush \in BOOLEAN /\ Careful \in BOOLEAN
  /\ Faults \subseteq {"read", "write", "clear"}
  /\ Line \in {"prompt", "settles", "late"}

VARIABLES
  inbuf,   \* frames in the port's input buffer
  stale,   \* SharedPort.needs_flush: a read has happened since the last write
  pc,      \* "idle"; "send": before send_packet; "read": in read_from_serial
  call,    \* the operation under way, or the last one
  step,    \* which exchange of its script
  got,     \* the packets of the current read
  failed,  \* the first answer of the call that was not Ok
  result,  \* how the call ended: [status, val]
  pure,    \* ghost: every frame the call used answered its own request
  polled,  \* ghost: the reader may be multi-polling: no stop since it was
  owed     \* ghost: the stops a careful client still has to make: one after a
           \* call it dropped, two after a call whose write failed

hostVars == <<stale, pc, call, step, got, failed, result, pure, polled,
              owed>>
vars     == <<readerVars, inbuf, hostVars>>

-----------------------------------------------------------------------------
(* Scripts *)

(* Slip: read_from_serial(None) taken for a single read. *)
ExchangeOnce(cmd, arg, expect) ==
  [cmd |-> cmd, arg |-> arg, expect |-> IF expect = Many THEN 1 ELSE expect]

Exchange(cmd, arg, expect) == [cmd |-> cmd, arg |-> arg, expect |-> expect]
Ask(cmd) == Exchange(cmd, NoValue, 1)

StopCalls == {"setup_reader", "stop_multiple_polling_instructions"}

(* The exchanges of an operation; expect is what read_from_serial is asked *)
(* for, 0 when the operation does not read.                                *)
Script(c) ==
  CASE c.name \in StopCalls ->
         <<Exchange(StopCmd, NoValue, Many)>>
    [] c.name = "get_module_info" ->
         <<Ask("HardwareVersion"), Ask("SoftwareVersion"), Ask("Manufacturer")>>
    [] c.name = "get_working_area"   -> <<Ask("GetWorkingArea")>>
    [] c.name = "get_working_channel" ->
         <<Ask("GetWorkingChannel"), Ask("GetWorkingArea")>>
    [] c.name = "get_transmit_power" -> <<Ask("AcquireTransmitPower")>>
    [] c.name = "set_transmission_power" ->
         <<Exchange("SetTransmissionPower", c.arg, 1)>>
    [] c.name = "set_working_area" ->
         <<Exchange("SetWorkingArea", c.arg, 1)>>
    [] c.name = "single_polling_instruction" ->
         <<Exchange("SinglePollingInstruction", NoValue, Many)>>
    [] c.name = "multi_polling_instruction" ->
         <<Exchange("MultiplePollingInstruction", NoValue, PollLimit)>>
    [] c.name = "enable_multiple_polling_instructions" ->
         <<Exchange("MultiplePollingInstruction", NoValue, 0)>>
    [] c.name = "select_tag" ->
         <<Exchange("SetSelect", c.arg, 1), Exchange("SetSendSelect", WithMask, 1)>>
    [] c.name = "clear_select" ->
         <<Exchange("SetSelect", NoValue, 1), Exchange("SetSendSelect", NoMask, 1)>>
    [] c.name = "read_mem"  -> <<Ask("ReadLabel")>>
    [] c.name = "write_mem" -> <<Ask("WriteLabel")>>
    [] c.name = "kill_tag"  -> <<Ask("KillTag")>>
    [] c.name = "lock_tag"  -> <<Ask("LockTag")>>

Now == Script(call)[step]

(* Slip: the selection's acknowledgements are not checked for errors. *)
CheckedButSelect == {"SetWorkingArea"} \cup TagCmds

(* is_error() is consulted by these only. *)
CheckedCmds == {"SetWorkingArea", "SetSelect", "SetSendSelect"} \cup TagCmds

(* What the operation makes of the first packet of its read. A frame that  *)
(* answers something else is taken at face value.                          *)
PacketAnswer(cmd, p) ==
  CASE cmd \in CheckedCmds -> IF p.cmd = Error THEN "CommandError" ELSE "Ok"
    [] cmd = "SetTransmissionPower" -> IF p.val = "ack" THEN "Ok" ELSE "FailedSetting"
    [] cmd = "GetWorkingArea" -> IF p.val \in Values THEN "Ok" ELSE "InvalidWorkingArea"
    [] OTHER -> "Ok"

(* Slip: any packet will do. *)
HasPacket(packets) == packets # <<>>

HasAck(packets) == \E i \in 1..Len(packets) : packets[i].cmd = StopCmd

(* What an exchange makes of a read that returned Ok(Some(packets))        *)
(* ("Packets"), Ok(None) ("Empty"), or an error.                           *)
Answer(cmd, kind, packets) ==
  CASE cmd = StopCmd ->
         IF kind = "Packets" /\ HasAck(packets) THEN "Ok" ELSE "ErrorStopMultiPolling"
    [] cmd # StopCmd /\ kind = "Packets" -> PacketAnswer(cmd, packets[1])
    [] cmd # StopCmd /\ kind = "Empty" ->
         CASE cmd \in PollCmds -> "Ok"
           [] cmd \in InfoCmds \ {"GetWorkingChannel"} -> IF IsAsync(call) THEN "Ok" ELSE "Panic"
           [] OTHER -> "NoPacketReceived"
    [] OTHER -> kind

(* Ghost: the frames the exchange relies on are answers to its request. A  *)
(* poll takes tags and passes over anything else; a multi-polling takes    *)
(* the tags seen since polling began; a stop looks for its acknowledgement.*)
Belongs(cmd, packets) ==
  CASE cmd = StopCmd ->
         HasAck(packets) => \E i \in 1..Len(packets) : packets[i].cmd = StopCmd /\ packets[i].own
    [] cmd = "SinglePollingInstruction" ->
         \A i \in 1..Len(packets) : packets[i].val = "tag" => packets[i].own
    [] cmd = "MultiplePollingInstruction" -> TRUE
    [] OTHER -> \A i \in 1..Len(packets) : packets[i].own

-----------------------------------------------------------------------------
Init ==
  /\ ReaderInit
  /\ inbuf = <<>>
  /\ stale = TRUE
  /\ pc = "idle"
  /\ call \in Calls
  /\ step = 1
  /\ got = <<>>
  /\ failed = "none"
  /\ result = [status |-> "none", val |-> NoValue]
  /\ pure = TRUE
  /\ polled = (rounds > 0)
  /\ owed = 0

(* A frame reaches the port's input buffer; a full buffer loses it. *)
Arrive ==
  /\ toHost # <<>>
  /\ toHost' = Tail(toHost)
  /\ inbuf' = IF Len(inbuf) < MaxLine THEN Append(inbuf, Head(toHost)) ELSE inbuf
  /\ UNCHANGED <<toDev, settings, rounds, polling, hostVars>>

Reader == ReaderStep /\ UNCHANGED <<inbuf, hostVars>>

(* The client calls an operation; a careful one stops multi-polling before *)
(* anything else; after a call that was dropped it stops once, and after   *)
(* one whose write failed twice: only a read raises needs_flush again, so  *)
(* the first of the two may see the acknowledgement of an earlier stop.    *)
(* write_mem with an odd number of bytes ends before it sends anything.    *)
Invoke(c) ==
  /\ pc = "idle"
  /\ Careful /\ polled  => c.name \in StopCalls \cup {"multi_polling_instruction"}
  /\ Careful /\ owed > 0 => c.name \in StopCalls
  /\ call' = c
  /\ step' = 1
  /\ got' = <<>>
  /\ failed' = "none"
  /\ pure' = TRUE
  /\ \/ /\ pc' = "send"
        /\ result' = [status |-> "none", val |-> NoValue]
     \/ /\ c.name = "write_mem"
        /\ pc' = "idle"
        /\ result' = [status |-> "FailedSetting", val |-> c.arg]
  /\ UNCHANGED <<readerVars, inbuf, stale, polled, owed>>

(* The call returns. setup_reader ignores how the stop ended;              *)
(* get_module_info looks at its three answers only now, first to last.     *)
Return(status, val) ==
  /\ pc' = "idle"
  /\ result' = [status |-> IF call.name = "setup_reader" THEN "Ok"
                           ELSE IF failed # "none" THEN failed ELSE status,
                val    |-> val]
  /\ UNCHANGED <<call, step, failed>>

(* A stop that saw an acknowledgement ends multi-polling (ghost). *)
NoteStop(status) ==
  LET stopped == Now.cmd = StopCmd /\ status = "Ok"
  IN  /\ polled' = (polled /\ ~stopped)
      /\ owed' = IF stopped /\ owed > 0 THEN owed - 1 ELSE owed

(* Slip: the last exchange of a script is followed by another. *)
ConcludeTooLate(status, val) ==
  /\ NoteStop(status)
  /\ IF step <= Len(Script(call)) /\ status = "Ok"
     THEN step' = step + 1 /\ pc' = "send" /\ UNCHANGED <<call, failed, result>>
     ELSE Return(status, val)

(* Only get_module_info of SyncIO goes on after an answer that was not Ok. *)
GoesOn(status) == status = "Ok" \/ (call.name = "get_module_info" /\ ~IsAsync(call))

(* The exchange is over: on to the next one, or return.                    *)
Conclude(status, val) ==
  /\ NoteStop(status)
  /\ IF step < Len(Script(call)) /\ GoesOn(status)
     THEN /\ step' = step + 1
          /\ pc' = "send"
          /\ failed' = IF failed = "none" /\ status # "Ok" THEN status ELSE failed
          /\ UNCHANGED <<call, result>>
     ELSE Return(status, val)

(* Requests, frames and notifications of before are no longer the answer   *)
(* to the last request (ghost).                                            *)
Disown(s) == [i \in 1..Len(s) |-> [s[i] EXCEPT !.own = FALSE]]

(* How long the port waits. "prompt": a read times out only when nothing   *)
(* is under way. "settles": it may time out early, but what is under way   *)
(* arrives before the next request is sent. "late": neither.               *)
MayTimeOut == inbuf = <<>> /\ (Line = "prompt" => Quiet)
MaySend    == Line = "settles" => Quiet

(* Slip: the input is not cleared. *)
KeptInput == inbuf

(* SharedPort::write clears the input before the first write after a read. *)
Input == IF Flush /\ stale THEN <<>> ELSE inbuf

Write(delivered) ==
  /\ toDev' = Disown(toDev) \o
              (IF delivered THEN <<[cmd |-> Now.cmd, arg |-> Now.arg, own |-> TRUE]>> ELSE <<>>)
  /\ toHost' = Disown(toHost)
  /\ inbuf' = Disown(Input)
  /\ polling' = FALSE
  /\ stale' = FALSE
  /\ got' = <<>>
  /\ UNCHANGED <<settings, rounds, pure>>

(* send_packet *)
Send ==
  /\ pc = "send"
  /\ MaySend
  /\ Len(toDev) < MaxLine
  /\ Write(TRUE)
  /\ IF Now.expect = 0
     THEN Return("Ok", NoValue)
     ELSE pc' = "read" /\ UNCHANGED <<call, step, failed, result>>
  /\ polled' = (polled \/ Now.cmd = "MultiplePollingInstruction")
  /\ UNCHANGED owed

(* ... fails, with the request sent or not: Err(Io) at once, except that   *)
(* setup_reader ignores it.                                                *)
SendFails ==
  /\ "write" \in Faults
  /\ pc = "send"
  /\ MaySend
  /\ Len(toDev) < MaxLine
  /\ \E delivered \in BOOLEAN : Write(delivered)
  /\ pc' = "idle"
  /\ result' = [status |-> IF call.name = "setup_reader" THEN "Ok" ELSE "Io",
                val    |-> NoValue]
  /\ UNCHANGED <<call, step, failed>>
  /\ polled' = (polled \/ Now.cmd = "MultiplePollingInstruction")
  /\ owed' = 2

(* SharedPort::write fails to clear the input: Err(Io), nothing is sent,   *)
(* and the flag that asked for the clear is gone.                          *)
ClearFails ==
  /\ "clear" \in Faults
  /\ Flush /\ stale
  /\ pc = "send"
  /\ stale' = FALSE
  /\ pc' = "idle"
  /\ result' = [status |-> IF call.name = "setup_reader" THEN "Ok" ELSE "Io",
                val    |-> NoValue]
  /\ owed' = 2
  /\ UNCHANGED <<readerVars, inbuf, call, step, got, failed, pure, polled>>

(* The future of a call of AsyncIO is dropped, while it sends or while it  *)
(* reads; what it had read is lost.                                        *)
Cancel ==
  /\ IsAsync(call)
  /\ pc # "idle"
  /\ pc' = "idle"
  /\ got' = <<>>
  /\ result' = [status |-> "Dropped", val |-> NoValue]
  /\ owed' = IF owed = 0 THEN 1 ELSE owed
  /\ UNCHANGED <<readerVars, inbuf, stale, call, step, failed, pure, polled>>

(* port.read() delivers the next n frames. At the number expected the read *)
(* returns, and what else came with them is dropped (a frame that the last *)
(* read cut in two as well: the rest of it is noise to the next call).     *)
Receive ==
  /\ pc = "read"
  /\ \E n \in 1..Len(inbuf) :
       LET all     == got \o SubSeq(inbuf, 1, n)
           packets == SubSeq(all, 1, Now.expect)
       IN  /\ inbuf' = SubSeq(inbuf, n + 1, Len(inbuf))
           /\ IF Len(all) >= Now.expect
              THEN /\ got' = <<>>
                   /\ pure' = (pure /\ Belongs(Now.cmd, packets))
                   /\ Conclude(Answer(Now.cmd, "Packets", packets), packets[1].val)
              ELSE /\ got' = all
                   /\ UNCHANGED <<pc, call, step, failed, result, pure, polled, owed>>
  /\ stale' = TRUE
  /\ UNCHANGED readerVars

(* The read ends without (more) frames. *)
EndRead(kind) ==
  /\ pc = "read"
  /\ IF kind = "Packets"
     THEN /\ pure' = (pure /\ Belongs(Now.cmd, got))
          /\ Conclude(Answer(Now.cmd, kind, got), got[1].val)
     ELSE /\ pure' = pure
          /\ Conclude(Answer(Now.cmd, kind, <<>>), NoValue)
  /\ stale' = TRUE
  /\ got' = <<>>
  /\ UNCHANGED <<readerVars, inbuf>>

(* Slip, and the comment at sync.rs:275: continue and read again. *)
ReadOn == MayTimeOut /\ got # <<>> /\ EndRead("Packets")

TimedOut  == MayTimeOut /\ EndRead(IF got = <<>> THEN "Timeout" ELSE "Packets")
Eof       == "read" \in Faults /\ EndRead("Empty")
ReadError == "read" \in Faults /\ EndRead("SerialRead")

Next ==
  \/ Arrive
  \/ Reader
  \/ \E c \in Calls : Invoke(c)
  \/ Send \/ SendFails \/ ClearFails \/ Cancel
  \/ Receive \/ TimedOut \/ Eof \/ ReadError

Spec == Init /\ [][Next]_vars

(* The reader takes requests and the line delivers; the host runs; a read  *)
(* on a line that stays quiet times out.                                   *)
Fairness ==
  /\ WF_vars((Refuse \/ CarryOut) /\ UNCHANGED <<inbuf, hostVars>>)
  /\ WF_vars(PollRound /\ UNCHANGED <<inbuf, hostVars>>)
  /\ WF_vars(Arrive)
  /\ WF_vars(Send) /\ WF_vars(Receive) /\ WF_vars(TimedOut)

FairSpec == Spec /\ Fairness
-----------------------------------------------------------------------------
TypeOK ==
  /\ ReaderTypeOK
  /\ inbuf \in Seq(Frames) /\ Len(inbuf) <= MaxLine
  /\ stale \in BOOLEAN
  /\ pc \in {"idle", "send", "read"}
  /\ call \in Calls
  /\ step \in 1..Len(Script(call))
  /\ got \in Seq(Frames)
  /\ pure \in BOOLEAN /\ polled \in BOOLEAN /\ owed \in 0..2

Returned(names) == pc = "idle" /\ result.status = "Ok" /\ call.name \in names

(* The answer of a call comes from the reader's answers to that call: what *)
(* Ok, CommandError and FailedSetting report is never taken from a late    *)
(* response to an earlier request or from a tag notification still in      *)
(* flight. Nothing in Connector compares command codes, so this rests on   *)
(* the discipline of the port and of the client alone. A stop may see the  *)
(* acknowledgement of an earlier one whose call was dropped: what its Ok   *)
(* is good for is StopLeavesQuiet.                                         *)
OwnAnswer == pc = "idle" /\ call.name \notin StopCalls => pure

(* A setting that is reported as made is made: when set_transmission_power,*)
(* set_working_area, select_tag or clear_select returns Ok, the reader has *)
(* exactly that setting, the mask together with its mode.                  *)
SettingsHold ==
  /\ Returned({"set_transmission_power"}) => settings["power"] = call.arg
  /\ Returned({"set_working_area"}) => settings["area"] = call.arg
  /\ Returned({"select_tag"}) => settings["mask"] = call.arg /\ settings["mode"] = WithMask
  /\ Returned({"clear_select"}) => settings["mask"] = NoValue /\ settings["mode"] = NoMask

(* stop_multiple_polling_instructions returns Ok, and no further stop is   *)
(* owed, only when the reader has left multi-polling and every             *)
(* notification of it has been taken off the line, so the next read cannot *)
(* meet one.                                                               *)
StopLeavesQuiet ==
  Returned({"stop_multiple_polling_instructions"}) /\ owed = 0 =>
    rounds = 0 /\ Quiet /\ inbuf = <<>>

(* Between calls of a client that stops multi-polling, and that owes no    *)
(* stop, the line is clean: nothing is left of an exchange that could be   *)
(* taken for an answer to the next one.                                    *)
CleanBetweenCalls ==
  pc = "idle" /\ ~polled /\ owed = 0 => rounds = 0 /\ Quiet /\ inbuf = <<>>

(* The same as Exchanges sees it: what is on its way, and whether the      *)
(* answer to it is there or on its way, are read off the line. Of the      *)
(* requests only the last can be the call's own.                           *)
Asked(r)      == [cmd |-> r.cmd, arg |-> r.arg]
Requesting(s) == [i \in 1..Len(s) |-> Asked(s[i])]

ConfirmedCmds == SetCmds \cup TagCmds \cup {"GetWorkingArea"}

OwnConfirmed(f) == f.own /\ f.cmd \in ConfirmedCmds

HoldsAnswer(s) == \E i \in 1..Len(s) : OwnConfirmed(s[i])

OnItsWay ==
  IF toDev # <<>> /\ OwnConfirmed(toDev[Len(toDev)])
  THEN <<Asked(toDev[Len(toDev)])>>
  ELSE <<>>

CallScripts == {Requesting(Script(c)) : c \in Calls}
Assigned    == [cmd \in SetCmds |-> SettingOf(cmd)]

Promise == INSTANCE Exchanges WITH
  Scripts   <- CallScripts,
  Assigns   <- Assigned,
  Confirmed <- ConfirmedCmds,
  todo      <- IF pc = "idle" THEN <<>>
               ELSE Requesting(SubSeq(Script(call), step, Len(Script(call)))),
  asked     <- pc = "read",
  sent      <- OnItsWay,
  acked     <- HoldsAnswer(toHost) \/ HoldsAnswer(inbuf) \/ HoldsAnswer(got),
  outcome   <- IF pc # "idle" \/ result.status = "none" THEN "none"
               ELSE IF result.status = "Ok" THEN "Ok" ELSE "failed"

(* An operation is a sequence of exchanges with the reader, each carried   *)
(* out at most once and before the next one begins, and a setting, a tag   *)
(* operation or an area that is reported as good was carried out in this   *)
(* very exchange: what the CLI may take for atomic (and TagCommand does),  *)
(* although an answer is whatever frame the read meets first.              *)
AtomicExchanges == Promise!ExchangeSpec

(* "Ok(()) when the device acknowledges the setting": the packet that made *)
(* set_transmission_power return Ok acknowledges its own request.          *)
OkMeansAcknowledged == Returned({"set_transmission_power"}) => pure

(* What get_transmit_power reports is the reader's power: "Ok(f64) with    *)
(* the transmit power".                                                    *)
PowerIsReal == Returned({"get_transmit_power"}) => result.val = settings["power"]

(* Every call returns, whatever the reader answers or the line loses.      *)
CallReturns == (pc # "idle") ~> (pc = "idle")
=============================================================================
