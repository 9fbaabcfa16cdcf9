----------------------------- MODULE CliSession -----------------------------
(***************************************************************************)
(* The r200 command line tool (src/cli/mod.rs, src/cli/port.rs) over the   *)
(* Connector and its SharedPort: one process after another opens the port, *)
(* runs one command, which is a sequence of operations, and ends by        *)
(* dropping the ReaderGuard, or is killed. The reader and what is under    *)
(* way on the line outlive the process.                                    *)
(***************************************************************************)
EXTENDS Connector, SequencesExt

CONSTANTS
  Verbs,    \* the commands a user may run
  MaxFaults \* bound on the length of faults

ASSUME CliAssumption ==
  /\ MaxFaults \in Nat
  /\ Flush /\ ~Careful

VARIABLES
  verb,    \* the command of the process, or "none" when there is no process
  at,      \* which operation of it
  waiting, \* that operation was called and its result not looked at yet
  running, \* the flag that Scan's Ctrl+C handler takes down
  faults   \* ghost: what has failed so far: "line", "refused", "write", "clear"

sessionVars == <<verb, at, waiting, running, faults>>
allVars     == <<vars, sessionVars>>

-----------------------------------------------------------------------------
(* How a command goes on after an operation: "must": the `?`, an error     *)
(* ends it; "may": whatever it returned; "until": as must, and again until *)
(* a tag is seen; "while": again until Ctrl+C, errors ignored.             *)
Op(name, arg, mode) == [name |-> name, arg |-> arg, mode |-> mode]
Must(name)  == Op(name, NoValue, "must")
May(name)   == Op(name, NoValue, "may")
FindTag     == Op("single_polling_instruction", NoValue, "until")
Chosen      == CHOOSE v \in Values : v # Factory

(* The operation of a command that acts on one tag. Write is the one with  *)
(* --select, and looks at the tag once more; Write without it is in        *)
(* TagCommand.                                                             *)
TagVerbs == [Write |-> "write_mem", WriteMem |-> "write_mem", Kill |-> "kill_tag",
             Lock |-> "lock_tag", Read |-> "read_mem"]

TagProgram(v) ==
  <<FindTag, Op("select_tag", Chosen, "must"), Must(TagVerbs[v]), Must("clear_select")>>

ProgramOf(v, scanEnd) ==
  CASE v = "Info" ->
         <<Must("get_module_info"), Must("get_working_area"),
           May("get_working_channel"), May("get_transmit_power")>>
    [] v = "Poll"     -> <<FindTag>>
    [] v = "Scan"     -> <<Op("multi_polling_instruction", NoValue, "while")>> \o scanEnd
    [] v = "Region"   -> <<Op("set_working_area", Chosen, "must")>>
    [] v = "SetPower" -> <<Op("set_transmission_power", Chosen, "must")>>
    [] v = "GetPower" -> <<Must("get_transmit_power")>>
    [] v = "Write"    -> TagProgram(v) \o <<Must("single_polling_instruction")>>
    [] v \in DOMAIN TagVerbs \ {"Write"} -> TagProgram(v)

(* Slip: Scan leaves it to the guard to stop the reader. *)
NoStopOfItsOwn(v) == ProgramOf(v, <<>>)

Program(v) == ProgramOf(v, <<Must("stop_multiple_polling_instructions")>>)

(* The operation as a call of SyncIO. *)
CallOf(op) == [name |-> op.name, arg |-> op.arg, api |-> "sync"]

ASSUME VerbsAssumption ==
  /\ Verbs \subseteq {"Info", "Poll", "Scan", "Region", "SetPower", "GetPower"} \cup DOMAIN TagVerbs
  /\ \A v \in Verbs : \A i \in 1..Len(Program(v)) : CallOf(Program(v)[i]) \in Calls

Current == Program(verb)[at]
InProgram == verb # "none" /\ at <= Len(Program(verb))

(* The first tag that a poll reports. *)
SawTag == result.val = "tag"

-----------------------------------------------------------------------------
(* The reader is not polling when the first process starts. *)
SessionInit ==
  /\ Init
  /\ rounds = 0
  /\ verb = "none"
  /\ at = 1
  /\ waiting = FALSE
  /\ running = TRUE
  /\ faults = <<>>

(* Slip: needs_flush starts down. *)
ConnectUnflushed(v) ==
  /\ verb = "none"
  /\ verb' = v
  /\ at' = 1
  /\ running' = TRUE
  /\ inbuf' = <<>>
  /\ stale' = FALSE
  /\ UNCHANGED <<readerVars, pc, call, step, got, failed, result, pure, polled,
                 owed, waiting, faults>>

(* connect: the input is cleared, and both handles of the port start with  *)
(* needs_flush up.                                                         *)
Connect(v) ==
  /\ verb = "none"
  /\ verb' = v
  /\ at' = 1
  /\ running' = TRUE
  /\ inbuf' = <<>>
  /\ stale' = TRUE
  /\ UNCHANGED <<readerVars, pc, call, step, got, failed, result, pure, polled,
                 owed, waiting, faults>>

(* Slip: the loop of Scan does not look at running. *)
CallAnyway ==
  /\ InProgram /\ ~waiting
  /\ Invoke(CallOf(Current))
  /\ pc' = "send"
  /\ waiting' = TRUE
  /\ UNCHANGED <<verb, at, running, faults>>

(* The next operation; the loop of Scan looks at running first. *)
CallOp ==
  /\ InProgram /\ ~waiting
  /\ Current.mode = "while" => running
  /\ Invoke(CallOf(Current))
  /\ pc' = "send"
  /\ waiting' = TRUE
  /\ UNCHANGED <<verb, at, running, faults>>

(* Scan sees that running is down, and leaves its loop. *)
LeaveLoop ==
  /\ InProgram /\ ~waiting
  /\ Current.mode = "while" /\ ~running
  /\ at' = at + 1
  /\ UNCHANGED <<vars, verb, waiting, running, faults>>

(* The operation has returned. *)
HasReturned == verb # "none" /\ waiting /\ pc = "idle"

(* Slip: the result of an operation is taken for that of the next as well. *)
AdvanceStillWaiting ==
  /\ HasReturned
  /\ \/ Current.mode = "must" /\ result.status = "Ok"
     \/ Current.mode = "may"
     \/ Current.mode = "until" /\ result.status = "Ok" /\ SawTag
  /\ at' = at + 1
  /\ UNCHANGED <<vars, verb, waiting, running, faults>>

(* The result is good enough to go on to the next operation; in a loop, to *)
(* go round again. Scan takes any result.                                  *)
Advance ==
  /\ HasReturned
  /\ \/ Current.mode = "must" /\ result.status = "Ok"
     \/ Current.mode = "may"
     \/ Current.mode = "until" /\ result.status = "Ok" /\ SawTag
  /\ at' = at + 1
  /\ waiting' = FALSE
  /\ UNCHANGED <<vars, verb, running, faults>>

Again ==
  /\ HasReturned
  /\ \/ Current.mode = "while"
     \/ Current.mode = "until" /\ result.status = "Ok" /\ ~SawTag
  /\ waiting' = FALSE
  /\ UNCHANGED <<vars, verb, at, running, faults>>

(* run() returns, or unwinds: ReaderGuard is dropped and sends a stop on   *)
(* its own handle, which clears nothing, and reads no acknowledgement.     *)
Exit ==
  /\ verb' = "none"
  /\ waiting' = FALSE
  /\ Len(toDev) < MaxLine
  /\ toDev' = Append(Disown(toDev), [cmd |-> StopCmd, arg |-> NoValue, own |-> FALSE])
  /\ toHost' = Disown(toHost)
  /\ inbuf' = Disown(inbuf)
  /\ polling' = FALSE
  /\ UNCHANGED <<settings, rounds, hostVars, at, running, faults>>

(* The command is done: run() returns Ok(()). *)
Finish == verb # "none" /\ ~InProgram /\ Exit

(* The `?` of an operation that did not return Ok; a panic ends here, too. *)
Fail ==
  /\ HasReturned
  /\ Current.mode \in {"must", "until"}
  /\ result.status # "Ok"
  /\ Exit

(* Ctrl+C: Scan's handler takes running down; any other command is killed  *)
(* where it is, without dropping the guard.                                *)
CtrlC ==
  /\ verb = "Scan" /\ running
  /\ running' = FALSE
  /\ UNCHANGED <<vars, verb, at, waiting, faults>>

Killed ==
  /\ verb \notin {"none", "Scan"}
  /\ verb' = "none"
  /\ waiting' = FALSE
  /\ pc' = "idle"
  /\ got' = <<>>
  /\ UNCHANGED <<readerVars, inbuf, stale, call, step, failed, result, pure, polled,
                 owed, at, running, faults>>

-----------------------------------------------------------------------------
FaultKinds == {"line", "refused", "write", "clear"}

(* The connector, the line and the reader go on; losses, refused stops and *)
(* failing writes are counted.                                             *)
Faultless ==
  /\ \/ Arrive \/ Send \/ Receive \/ TimedOut \/ Eof \/ ReadError
     \/ CarryOut /\ UNCHANGED <<inbuf, hostVars>>
     \/ PollRound /\ UNCHANGED <<inbuf, hostVars>>
     \/ Refuse /\ Head(toDev).cmd # StopCmd /\ UNCHANGED <<inbuf, hostVars>>
  /\ UNCHANGED sessionVars

Fault(kind) ==
  /\ Len(faults) < MaxFaults
  /\ faults' = Append(faults, kind)
  /\ \/ kind = "write" /\ SendFails
     \/ kind = "clear" /\ ClearFails
     \/ kind = "line" /\ (LoseRequest \/ LoseFrame) /\ UNCHANGED <<inbuf, hostVars>>
     \/ kind = "refused" /\ Refuse /\ Head(toDev).cmd = StopCmd
          /\ UNCHANGED <<inbuf, hostVars>>
  /\ UNCHANGED <<verb, at, waiting, running>>

Run == CallOp \/ LeaveLoop \/ Advance \/ Again \/ Finish \/ Fail

SessionNext ==
  \/ \E v \in Verbs : Connect(v)
  \/ CallOp \/ LeaveLoop \/ Advance \/ Again \/ Finish \/ Fail
  \/ CtrlC \/ Killed
  \/ Faultless
  \/ \E kind \in FaultKinds : Fault(kind)

SessionSpec == SessionInit /\ [][SessionNext]_allVars

(* The process runs; the rest as in Connector. *)
SessionFairness ==
  /\ WF_allVars(Run)
  /\ WF_allVars(Send /\ UNCHANGED sessionVars)
  /\ WF_allVars(Receive /\ UNCHANGED sessionVars)
  /\ WF_allVars(TimedOut /\ UNCHANGED sessionVars)
  /\ WF_allVars(Arrive /\ UNCHANGED sessionVars)
  /\ WF_allVars((CarryOut \/ PollRound) /\ UNCHANGED <<inbuf, hostVars, sessionVars>>)

FairSessionSpec == SessionSpec /\ SessionFairness

-----------------------------------------------------------------------------
(* A process is at an operation of its command, or past the last one. *)
SessionTypeOK ==
  /\ TypeOK
  /\ verb \in Verbs \cup {"none"}
  /\ verb # "none" => at \in 1..(Len(Program(verb)) + 1)
  /\ waiting => InProgram
  /\ waiting \in BOOLEAN /\ running \in BOOLEAN
  /\ faults \in Seq(FaultKinds) /\ Len(faults) <= MaxFaults

(* "Always leave the reader out of multi-polling mode, even on Ctrl+C"     *)
(* (src/cli/mod.rs:200): once a scan is over and the reader has taken what *)
(* was sent to it, it is not polling, although any one request, answer,    *)
(* write or stop may fail: Scan's stop and the guard's back each other up. *)
LeavesNoPolling == verb # "Scan" /\ toDev = <<>> => rounds = 0

(* No command takes an answer that was meant for another one, or for an    *)
(* earlier process: not even the acknowledgement of the guard's stop,      *)
(* which nobody reads, what a killed command had asked for, or what the    *)
(* input held when clearing it failed. There are two exceptions. A stop    *)
(* may see the acknowledgement of the guard's stop before its own; and     *)
(* when a request is sent but the flush after it fails, the next operation *)
(* of Info does not clear the input, since nothing was read in between.    *)
CommandsGetTheirAnswers ==
  pc = "idle" /\ call.name \notin StopCalls /\ ~Contains(faults, "write") => pure

(* Ctrl+C does end a scan, however many tags keep answering.               *)
InterruptEnds == (verb = "Scan" /\ ~running) ~> (verb = "none")
=============================================================================
