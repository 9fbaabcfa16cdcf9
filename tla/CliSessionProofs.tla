--------------------------- MODULE CliSessionProofs ---------------------------
(***************************************************************************)
(* The commands of the r200 tool one after another, on the SharedPort, for *)
(* every set of commands and any number of processes: what a scan leaves   *)
(* behind, and whose answers a command takes.                              *)
(***************************************************************************)
EXTENDS CliSession, ConnectorProofs

(* A call is under way only while its command waits for it.                *)
Following ==
  /\ pc # "idle" => waiting
  /\ waiting => call = CallOf(Current)

(* What a call keeps to, on any port.                                      *)
Reading ==
  /\ pc = "read" => Len(got) < Now.expect
  /\ pc # "read" => got = <<>>
  /\ failed # "Ok"
  /\ failed # "none" => call.name = "get_module_info"

-----------------------------------------------------------------------------
(* Stops *)

StartsPolling(r) == r.cmd = "MultiplePollingInstruction"
HasStart(s)      == \E r \in On(s) : StartsPolling(r)

(* The reader is polling, or will be.                                      *)
PollingAhead == rounds > 0 \/ HasStart(toDev)

(* A stop behind all that starts polling; two of them.                     *)
StopAt(s, i) == s[i].cmd = StopCmd /\ \A j \in i..Len(s) : ~StartsPolling(s[j])

OneStop(s)  == \E i \in 1..Len(s) : StopAt(s, i)
TwoStops(s) == \E i, k \in 1..Len(s) : i < k /\ StopAt(s, i) /\ StopAt(s, k)

(* The stop of a scan has been sent, if no write failed.                   *)
ScanEnding == verb = "Scan" /\ (at > 2 \/ (at = 2 /\ waiting /\ pc # "send"))

(* A scan sends two stops, its own and the guard's: one of them is there   *)
(* or has been carried out, if no more than one request or answer failed.  *)
Backup ==
  PollingAhead =>
    /\ faults = <<>> /\ verb # "Scan"     => TwoStops(toDev)
    /\ Len(faults) = 1 /\ verb # "Scan"   => OneStop(toDev)
    /\ faults = <<>> /\ ScanEnding        => OneStop(toDev)

StopInv == SessionTypeOK /\ Following /\ Reading /\ Backup

-----------------------------------------------------------------------------
(* Answers *)

(* No more than one fault, and no write that failed after it was sent.     *)
Sound == Len(faults) <= 1 /\ ~Contains(faults, "write")

Settled == Quiet /\ inbuf = <<>> /\ rounds = 0

(* The command has yet to send a request.                                  *)
Ahead == InProgram /\ (~waiting \/ pc = "send")

(* Any command but a scan meets nothing but the answer to its request.     *)
OnlyItsOwn ==
  pc = "read" /\ verb # "Scan" =>
    /\ rounds = 0
    /\ \A f \in OnLine : f.own
    /\ \A r \in On(toDev) : r.own /\ r.cmd = Now.cmd

(* Where a clear has failed, the input is not cleared before the next      *)
(* request: the command has ended, or nothing has been left on the line.   *)
NothingStale == verb # "Scan" /\ Ahead /\ ~stale => Settled

(* Only Info goes on after an error, of its third operation, and by then   *)
(* all it had asked for before has been answered.                          *)
InfoInOrder ==
  verb = "Info" =>
    /\ pc = "read" =>
         /\ Now.expect = 1
         /\ Len(toDev) + Len(toHost) + Len(inbuf) <= 1
    /\ at = 3 /\ Ahead => Settled
    /\ HasReturned /\ at = 2 /\ result.status = "Ok" => Settled
    /\ HasReturned /\ at = 3 /\ ~stale => Settled

(* An operation that went well has read, so the next one clears.           *)
OkHasRead == HasReturned /\ verb # "Scan" /\ result.status = "Ok" => stale

AnswersInv ==
  Sound =>
    /\ call.name \notin StopCalls => pure
    /\ OnlyItsOwn /\ NothingStale /\ InfoInOrder /\ OkHasRead

-----------------------------------------------------------------------------
(* Commands *)

(* The commands, as far as the proofs look into them: a scan polls until   *)
(* Ctrl+C and then stops; only Info goes on after an error, from its third *)
(* operation; no command but a scan starts polling, or stops it.           *)
Shape(v, s) ==
  /\ Len(s) \in Nat \ {0}
  /\ v = "Scan" =>
       /\ Len(s) = 2
       /\ s[1].name = "multi_polling_instruction" /\ s[1].mode = "while"
       /\ s[2].name = "stop_multiple_polling_instructions" /\ s[2].mode = "must"
  /\ v # "Scan" => \A i \in 1..Len(s) :
       /\ s[i].name \notin StopCalls \cup Polls
       /\ s[i].mode \in {"must", "may", "until"}
       /\ s[i].mode = "may" => v = "Info" /\ i \in 3..4
  /\ v = "Info" =>
       /\ Len(s) = 4
       /\ s[1].name = "get_module_info" /\ s[2].name = "get_working_area"
       /\ s[3].name = "get_working_channel" /\ s[4].name = "get_transmit_power"
       /\ s[1].mode = "must" /\ s[2].mode = "must"
       /\ s[3].mode = "may" /\ s[4].mode = "may"

(* A sequence of operations that must succeed, or find a tag.              *)
Plain(s) ==
  /\ Len(s) \in Nat \ {0}
  /\ \A i \in 1..Len(s) :
       s[i].name \notin StopCalls \cup Polls /\ s[i].mode \in {"must", "until"}

(* Every command's program has its command's shape.                        *)
LEMMA Commanded ==
  ASSUME NEW v \in Verbs
  PROVE  Shape(v, Program(v))
<1> USE DEF StopCalls, Polls
<1>1. /\ \A n : Must(n).name = n /\ Must(n).mode = "must"
      /\ \A n : May(n).name = n /\ May(n).mode = "may"
      /\ \A n, a, m : Op(n, a, m).name = n /\ Op(n, a, m).mode = m
      /\ FindTag.name = "single_polling_instruction" /\ FindTag.mode = "until"
  BY DEF Must, May, Op, FindTag
<1>2. ASSUME Plain(Program(v)), v \notin {"Info", "Scan"} PROVE Shape(v, Program(v))
  BY <1>2 DEF Plain, Shape
<1>3. ASSUME NEW x, x.name \notin StopCalls \cup Polls, x.mode \in {"must", "until"}
      PROVE  Plain(<<x>>)
  <2>1. Len(<<x>>) = 1 /\ \A i \in 1..1 : <<x>>[i] = x
    OBVIOUS
  <2> HIDE DEF StopCalls, Polls
  <2> QED
    BY <1>3, <2>1 DEF Plain
<1>4. CASE v = "Info"
  <2> DEFINE s == <<Must("get_module_info"), Must("get_working_area"),
                    May("get_working_channel"), May("get_transmit_power")>>
  <2>1. Program(v) = s
    BY <1>4 DEF Program, ProgramOf, TagVerbs
  <2>2. Len(s) = 4 /\ s[1] = Must("get_module_info") /\ s[2] = Must("get_working_area")
        /\ s[3] = May("get_working_channel") /\ s[4] = May("get_transmit_power")
    OBVIOUS
  <2> HIDE DEF s
  <2>3. \A i \in 1..4 : i \in {1, 2, 3, 4}
    OBVIOUS
  <2> QED
    BY <1>1, <1>4, <2>1, <2>2, <2>3 DEF Shape
<1>5. CASE v = "Scan"
  <2> DEFINE p == Op("multi_polling_instruction", NoValue, "while")
             q == Must("stop_multiple_polling_instructions")
  <2>1. Program(v) = <<p>> \o <<q>>
    BY <1>5 DEF Program, ProgramOf, TagVerbs
  <2>2. p.name = "multi_polling_instruction" /\ p.mode = "while"
        /\ q.name = "stop_multiple_polling_instructions" /\ q.mode = "must"
    BY <1>1
  <2> DEFINE s == <<p>> \o <<q>>
  <2> HIDE DEF p, q
  <2>3. Len(s) = 2 /\ s[1] = p /\ s[2] = q
    OBVIOUS
  <2> HIDE DEF s
  <2>4. Program(v) = s
    BY <2>1 DEF s
  <2> QED
    BY <1>5, <2>2, <2>3, <2>4 DEF Shape
<1>6. CASE v = "Poll"
  <2>1. Program(v) = <<FindTag>>
    BY <1>6 DEF Program, ProgramOf, TagVerbs
  <2> QED
    BY <1>1, <1>2, <1>3, <1>6, <2>1
<1>7. CASE v = "Region"
  <2>1. Program(v) = <<Op("set_working_area", Chosen, "must")>>
    BY <1>7 DEF Program, ProgramOf, TagVerbs
  <2> QED
    BY <1>1, <1>2, <1>3, <1>7, <2>1
<1>8. CASE v = "SetPower"
  <2>1. Program(v) = <<Op("set_transmission_power", Chosen, "must")>>
    BY <1>8 DEF Program, ProgramOf, TagVerbs
  <2> QED
    BY <1>1, <1>2, <1>3, <1>8, <2>1
<1>9. CASE v = "GetPower"
  <2>1. Program(v) = <<Must("get_transmit_power")>>
    BY <1>9 DEF Program, ProgramOf, TagVerbs
  <2> QED
    BY <1>1, <1>2, <1>3, <1>9, <2>1
<1>10. CASE v \in DOMAIN TagVerbs
  <2> DEFINE x == Op("select_tag", Chosen, "must")
             y == Must(TagVerbs[v])
             z == Must("clear_select")
             u == Must("single_polling_instruction")
             s == <<FindTag, x, y, z>>
  <2>1. /\ v \in {"Write", "WriteMem", "Kill", "Lock", "Read"}
        /\ TagVerbs[v] \in {"write_mem", "kill_tag", "lock_tag", "read_mem"}
    BY <1>10 DEF TagVerbs
  <2>2. Program(v) = IF v = "Write" THEN s \o <<u>> ELSE s
    BY <2>1 DEF Program, ProgramOf, TagProgram, TagVerbs
  <2>3. \A w \in {FindTag, x, y, z, u} :
          w.name \notin StopCalls \cup Polls /\ w.mode \in {"must", "until"}
    BY <1>1, <2>1
  <2> HIDE DEF x, y, z, u
  <2>4. Len(s) = 4 /\ \A i \in 1..4 : s[i] \in {FindTag, x, y, z, u}
    OBVIOUS
  <2>5. Len(s \o <<u>>) = 5 /\ \A i \in 1..5 : (s \o <<u>>)[i] \in {FindTag, x, y, z, u}
    OBVIOUS
  <2> HIDE DEF s, StopCalls, Polls
  <2>6. Plain(s) /\ Plain(s \o <<u>>)
    BY <2>3, <2>4, <2>5 DEF Plain
  <2> QED
    BY <1>2, <2>1, <2>2, <2>6
<1> QED
  BY <1>4, <1>5, <1>6, <1>7, <1>8, <1>9, <1>10, VerbsAssumption

-----------------------------------------------------------------------------
(* Types *)

(* A command that is not over is at one of its operations.                 *)
LEMMA AtOperation ==
  ASSUME SessionTypeOK, InProgram
  PROVE  /\ verb \in Verbs /\ at \in 1..Len(Program(verb)) /\ Shape(verb, Program(verb))
         /\ CallOf(Current) \in Calls /\ CallOf(Current).name = Current.name
<1>1. verb \in Verbs
  BY DEF SessionTypeOK, InProgram
<1>2. Shape(verb, Program(verb))
  BY <1>1, Commanded
<1>3. at \in 1..Len(Program(verb))
  BY <1>1, <1>2 DEF SessionTypeOK, InProgram, Shape
<1>4. CallOf(Current) \in Calls
  BY <1>1, <1>3, VerbsAssumption DEF Current
<1> QED
  BY <1>1, <1>2, <1>3, <1>4 DEF CallOf

(* An operation that is waited for is one of the command's.                *)
LEMMA InCall ==
  ASSUME SessionTypeOK, Following, waiting
  PROVE  /\ InProgram /\ verb \in Verbs /\ at \in 1..Len(Program(verb))
         /\ Shape(verb, Program(verb)) /\ Current = Program(verb)[at]
         /\ call.name = Current.name
<1>1. InProgram
  BY DEF SessionTypeOK
<1>2. call = CallOf(Current)
  BY DEF Following
<1> QED
  BY <1>1, <1>2, AtOperation DEF Current

(* Where the command and its place in it are the same, so is its operation.*)
LEMMA SameOperation ==
  UNCHANGED <<verb, at>> => Current' = Current /\ (InProgram' <=> InProgram)
  BY DEF Current, InProgram

(* A fault is one of the connector's, of the reader's or of the line's;    *)
(* there is one more of them, and a write that fails is remembered.        *)
LEMMA FaultIs ==
  ASSUME SessionTypeOK, NEW kind \in FaultKinds, Fault(kind)
  PROVE  /\ faults' \in Seq(FaultKinds) /\ Len(faults') = Len(faults) + 1
         /\ Len(faults') <= MaxFaults
         /\ UNCHANGED <<verb, at, waiting, running>>
         /\ \/ SendFails
            \/ ClearFails
            \/ (LoseRequest \/ LoseFrame \/ Refuse) /\ UNCHANGED <<inbuf, hostVars>>
         /\ Sound' => Sound /\ (ClearFails \/ UNCHANGED <<inbuf, hostVars>>)
<1>1. faults \in Seq(FaultKinds) /\ faults' = Append(faults, kind) /\ Len(faults) < MaxFaults
  BY DEF Fault, SessionTypeOK
<1>2. /\ faults' \in Seq(FaultKinds) /\ Len(faults') = Len(faults) + 1
      /\ faults'[Len(faults) + 1] = kind
      /\ \A i \in 1..Len(faults) : faults'[i] = faults[i]
  BY <1>1
<1>3. Len(faults') <= MaxFaults
  BY <1>1, <1>2, CliAssumption
<1>4. Sound' => Sound /\ kind # "write"
  <2>1. ASSUME Contains(faults, "write") PROVE Contains(faults', "write")
    BY <1>1, <1>2, <2>1 DEF Contains
  <2>2. ASSUME kind = "write" PROVE Contains(faults', "write")
    <3>1. Len(faults) + 1 \in 1..Len(faults')
      BY <1>1, <1>2
    <3> QED
      BY <1>2, <2>2, <3>1 DEF Contains
  <2>3. Sound' => Len(faults') <= 1 /\ ~Contains(faults', "write")
    BY DEF Sound
  <2> QED
    BY <1>1, <1>2, <2>1, <2>2, <2>3 DEF Sound
<1> QED
  BY <1>2, <1>3, <1>4 DEF Fault

(* The steps of a session that are steps of the connector.                 *)
LEMMA ConnectorSteps ==
  ASSUME SessionTypeOK, Faultless \/ \E kind \in FaultKinds : Fault(kind)
  PROVE  TypeOK' /\ UNCHANGED <<verb, at, waiting, running>>
<1>1. CASE Faultless
  <2>1. Next /\ UNCHANGED sessionVars
    BY <1>1 DEF Faultless, Next, Reader, ReaderStep
  <2> QED
    BY <2>1, Typed DEF SessionTypeOK, sessionVars
<1>2. CASE \E kind \in FaultKinds : Fault(kind)
  <2>1. PICK kind \in FaultKinds : Fault(kind)
    BY <1>2
  <2>2. Next /\ UNCHANGED <<verb, at, waiting, running>>
    BY <2>1, FaultIs DEF Next, Reader, ReaderStep
  <2> QED
    BY <2>2, Typed DEF SessionTypeOK
<1> QED
  BY <1>1, <1>2

(* The guard sends its stop behind what is under way.                      *)
LEMMA ExitIs ==
  ASSUME TypeOK, Exit
  PROVE  /\ TypeOK' /\ verb' = "none" /\ waiting' = FALSE
         /\ UNCHANGED <<rounds, hostVars, at, running, faults>>
         /\ \E r \in Requests :
              /\ r.cmd = StopCmd
              /\ toDev' = Append(Disown(toDev), r)
<1> DEFINE r == [cmd |-> StopCmd, arg |-> NoValue, own |-> FALSE]
<1>1. r \in Requests /\ r.cmd = StopCmd
  BY DEF Requests, Commands, Args
<1>2. toDev' = Append(Disown(toDev), r)
  BY DEF Exit
<1>3. toDev \in Seq(Requests) /\ toHost \in Seq(Frames) /\ inbuf \in Seq(Frames)
  BY DEF TypeOK, ReaderTypeOK
<1> HIDE DEF r
<1>4. toDev' \in Seq(Requests)
  BY <1>1, <1>2, <1>3, DisownRequests
<1>5. toHost' \in Seq(Frames) /\ inbuf' \in Seq(Frames) /\ Len(inbuf') = Len(inbuf)
  BY <1>3, DisownFrames DEF Exit
<1>6. TypeOK'
  BY <1>4, <1>5 DEF Exit, TypeOK, ReaderTypeOK, hostVars
<1> QED
  BY <1>1, <1>2, <1>6 DEF Exit

(* A command ends at the end of its program, or where an operation failed. *)
LEMMA EndIs ==
  ASSUME Finish \/ Fail
  PROVE  /\ Exit /\ verb # "none"
         /\ InProgram => HasReturned /\ Current.mode \in {"must", "until"}
  BY DEF Finish, Fail, HasReturned

(* The session stays in its types: a process is at an operation of its     *)
(* command, or past the last one.                                          *)
LEMMA SessionTyped == SessionTypeOK /\ [SessionNext]_allVars => SessionTypeOK'
<1> SUFFICES ASSUME SessionTypeOK, [SessionNext]_allVars PROVE SessionTypeOK'
  OBVIOUS
<1>1. ASSUME NEW v \in Verbs, Connect(v) PROVE SessionTypeOK'
  <2>1. TypeOK'
    BY <1>1, ReaderAssumption DEF Connect, SessionTypeOK, TypeOK, ReaderTypeOK, readerVars
  <2>2. ~waiting
    BY <1>1 DEF Connect, SessionTypeOK, InProgram
  <2>3. 1 \in 1..(Len(Program(v)) + 1)
    BY Commanded DEF Shape
  <2> QED
    BY <1>1, <2>1, <2>2, <2>3 DEF Connect, SessionTypeOK
<1>2. CASE CallOp
  <2>1. Invoke(CallOf(Current)) /\ CallOf(Current) \in Calls
    BY <1>2, AtOperation DEF CallOp
  <2>2. TypeOK'
    BY <2>1, Typed DEF SessionTypeOK, Next
  <2>3. InProgram' /\ UNCHANGED <<verb, at, running, faults>> /\ waiting' = TRUE
    BY <1>2, SameOperation DEF CallOp
  <2> QED
    BY <2>2, <2>3 DEF SessionTypeOK
<1>3. ASSUME UNCHANGED <<vars, verb, running, faults>>, InProgram, at' = at + 1,
             waiting' = FALSE
      PROVE  SessionTypeOK'
  <2>1. TypeOK'
    BY <1>3, Typed DEF SessionTypeOK
  <2>2. at' \in 1..(Len(Program(verb)) + 1)
    BY <1>3, AtOperation DEF Shape
  <2> QED
    BY <1>3, <2>1, <2>2 DEF SessionTypeOK
<1>4. CASE LeaveLoop
  BY <1>3, <1>4 DEF LeaveLoop, SessionTypeOK
<1>5. CASE Advance
  BY <1>3, <1>5 DEF Advance, HasReturned, SessionTypeOK
<1>6. CASE Again
  <2>1. TypeOK' /\ waiting' = FALSE /\ UNCHANGED <<verb, at, running, faults>>
    BY <1>6, Typed DEF Again, SessionTypeOK
  <2> QED
    BY <2>1 DEF SessionTypeOK
<1>7. CASE Finish \/ Fail
  <2>1. Exit
    BY <1>7, EndIs
  <2> QED
    BY <2>1, ExitIs DEF SessionTypeOK
<1>8. CASE CtrlC
  <2>1. TypeOK' /\ running' = FALSE /\ UNCHANGED <<verb, at, waiting, faults>>
    BY <1>8, Typed DEF CtrlC, SessionTypeOK
  <2>2. waiting' => InProgram'
    BY <2>1, SameOperation DEF SessionTypeOK
  <2> QED
    BY <2>1, <2>2 DEF SessionTypeOK
<1>9. CASE Killed
  <2>1. TypeOK'
    BY <1>9 DEF Killed, SessionTypeOK, TypeOK, ReaderTypeOK, readerVars
  <2> QED
    BY <1>9, <2>1 DEF Killed, SessionTypeOK
<1>10. CASE Faultless \/ \E kind \in FaultKinds : Fault(kind)
  <2>1. TypeOK' /\ UNCHANGED <<verb, at, waiting, running>>
    BY <1>10, ConnectorSteps
  <2>2. faults' \in Seq(FaultKinds) /\ Len(faults') <= MaxFaults
    <3>1. CASE Faultless
      BY <3>1 DEF Faultless, sessionVars, SessionTypeOK
    <3>2. CASE \E kind \in FaultKinds : Fault(kind)
      BY <3>2, FaultIs
    <3> QED
      BY <1>10, <3>1, <3>2
  <2>3. waiting' => InProgram'
    BY <2>1, SameOperation DEF SessionTypeOK
  <2> QED
    BY <2>1, <2>2, <2>3 DEF SessionTypeOK
<1>11. CASE UNCHANGED allVars
  <2>1. TypeOK' /\ UNCHANGED sessionVars
    BY <1>11, Typed DEF allVars, SessionTypeOK
  <2>2. waiting' => InProgram'
    BY <2>1, SameOperation DEF SessionTypeOK, sessionVars
  <2> QED
    BY <2>1, <2>2 DEF SessionTypeOK, sessionVars
<1> QED
  BY <1>1, <1>2, <1>4, <1>5, <1>6, <1>7, <1>8, <1>9, <1>10, <1>11 DEF SessionNext

-----------------------------------------------------------------------------
(* Reads and writes *)

(* A read ends, and the call makes something of the packets of it.         *)
ReadKinds == {"Packets", "Empty", "Timeout", "SerialRead"}

Ends(kind, packets) ==
  /\ \E val : Conclude(Answer(Now.cmd, kind, packets), val)
  /\ got' = <<>>
  /\ pure' = (pure /\ (kind = "Packets" => Belongs(Now.cmd, packets)))

(* A read goes on, with a part of what it waits for; or it ends, with      *)
(* packets that were on the line, or without. A read of one packet that    *)
(* ends with it has taken it off the input.                                *)
LEMMA ReceiveReads ==
  ASSUME TypeOK, Reading, Receive
  PROVE  /\ pc = "read" /\ stale' = TRUE /\ UNCHANGED readerVars
         /\ On(inbuf') \subseteq On(inbuf) /\ Len(inbuf') < Len(inbuf)
         /\ \/ /\ UNCHANGED <<pc, call, step, failed, result, pure>>
               /\ Now.expect > 1 /\ Len(got') < Now.expect /\ On(got') \subseteq OnLine
            \/ \E packets \in Seq(Frames) :
                 Ends("Packets", packets) /\ packets # <<>> /\ On(packets) \subseteq OnLine
<1>1. PICK n \in 1..Len(inbuf) :
        LET all     == got \o SubSeq(inbuf, 1, n)
            packets == SubSeq(all, 1, Now.expect)
        IN  /\ inbuf' = SubSeq(inbuf, n + 1, Len(inbuf))
            /\ IF Len(all) >= Now.expect
               THEN /\ got' = <<>>
                    /\ pure' = (pure /\ Belongs(Now.cmd, packets))
                    /\ Conclude(Answer(Now.cmd, "Packets", packets), packets[1].val)
               ELSE /\ got' = all
                    /\ UNCHANGED <<pc, call, step, failed, result, pure, polled, owed>>
  BY DEF Receive
<1> DEFINE taken   == SubSeq(inbuf, 1, n)
           all     == got \o taken
           packets == SubSeq(all, 1, Now.expect)
<1>2. pc = "read" /\ stale' = TRUE /\ UNCHANGED readerVars
  BY DEF Receive
<1>3. /\ inbuf \in Seq(Frames) /\ got \in Seq(Frames)
      /\ Len(inbuf) \in Nat /\ Len(got) \in Nat
      /\ Now.expect \in Nat /\ Len(got) < Now.expect
      /\ n \in Nat /\ 1 <= n /\ n <= Len(inbuf)
  <2>1. Now.expect \in Nat /\ Len(got) < Now.expect
    BY <1>2, NowFits DEF Reading, Exchanging
  <2>2. inbuf \in Seq(Frames) /\ got \in Seq(Frames)
    BY DEF TypeOK
  <2>3. Len(inbuf) \in Nat /\ Len(got) \in Nat
    BY <2>2
  <2> QED
    BY <2>1, <2>2, <2>3
<1>4. /\ On(inbuf') \subseteq On(inbuf) /\ On(taken) \subseteq On(inbuf)
      /\ Len(inbuf') < Len(inbuf)
      /\ taken \in Seq(Frames) /\ Len(taken) = n
  <2>1. /\ n + 1 \in 1..(Len(inbuf) + 1) /\ n \in 0..Len(inbuf) /\ Len(inbuf) \in 0..Len(inbuf)
        /\ 1 \in 1..(Len(inbuf) + 1)
    BY <1>3
  <2>2. inbuf' = SubSeq(inbuf, n + 1, Len(inbuf))
    BY <1>1
  <2>3. Len(SubSeq(inbuf, n + 1, Len(inbuf))) = Len(inbuf) - n /\ Len(taken) = n
    BY <1>3
  <2>4. Len(inbuf') < Len(inbuf)
    BY <1>3, <2>2, <2>3
  <2> QED
    BY <1>3, <2>1, <2>2, <2>3, <2>4, OnSubSeq
<1>5. /\ On(all) = On(got) \cup On(taken) /\ all \in Seq(Frames)
      /\ Len(all) = Len(got) + n
  <2>1. taken \in Seq(Frames) /\ Len(taken) = n
    BY <1>4
  <2> HIDE DEF taken
  <2>2. Len(all) = Len(got) + Len(taken)
    <3>1. \A s, t \in Seq(Frames) : Len(s \o t) = Len(s) + Len(t)
      OBVIOUS
    <3> QED
      BY <1>3, <2>1, <3>1
  <2> QED
    BY <1>3, <2>1, <2>2, OnConcat
<1>6. On(all) \subseteq OnLine
  BY <1>4, <1>5 DEF OnLine
<1>7. CASE Len(all) >= Now.expect
  <2>1. /\ got' = <<>> /\ Conclude(Answer(Now.cmd, "Packets", packets), packets[1].val)
        /\ pure' = (pure /\ Belongs(Now.cmd, packets))
    BY <1>1, <1>7
  <2>2. On(packets) \subseteq On(all) /\ packets \in Seq(Frames) /\ packets # <<>>
    <3>1. all \in Seq(Frames) /\ Len(all) \in Nat /\ Len(all) >= Now.expect /\ Now.expect >= 1
      BY <1>3, <1>5, <1>7
    <3> HIDE DEF all
    <3>2. 1 \in 1..(Len(all) + 1) /\ Now.expect \in 0..Len(all)
      BY <1>3, <3>1
    <3>3. Len(packets) = Now.expect
      BY <1>3, <3>1
    <3>4. On(packets) \subseteq On(all) /\ packets \in Seq(Frames)
      BY <3>1, <3>2, OnSubSeq
    <3> HIDE DEF packets
    <3> QED
      BY <3>1, <3>3, <3>4
  <2> HIDE DEF packets, all, taken
  <2>3. Ends("Packets", packets) /\ On(packets) \subseteq OnLine
    BY <1>6, <2>1, <2>2 DEF Ends
  <2> QED
    BY <1>2, <1>4, <2>2, <2>3
<1>8. CASE ~(Len(all) >= Now.expect)
  <2>1. got' = all /\ UNCHANGED <<pc, call, step, failed, result, pure>>
    BY <1>1, <1>8
  <2> HIDE DEF all, taken
  <2>2. Now.expect > 1 /\ Len(got') < Now.expect
    BY <1>3, <1>5, <1>8, <2>1
  <2> QED
    BY <1>2, <1>4, <1>6, <2>1, <2>2
<1> QED
  BY <1>7, <1>8

(* A read that ends otherwise leaves the input alone. One that waited for  *)
(* a single packet had none.                                               *)
LEMMA EndsWithout ==
  ASSUME TypeOK, Reading, TimedOut \/ Eof \/ ReadError
  PROVE  /\ pc = "read" /\ stale' = TRUE /\ UNCHANGED readerVars /\ inbuf' = inbuf
         /\ \E kind \in ReadKinds, packets \in Seq(Frames) :
              /\ Ends(kind, packets) /\ On(packets) \subseteq OnLine
              /\ kind = "Packets" => packets # <<>> /\ Now.expect > 1
<1>1. PICK kind \in ReadKinds : EndRead(kind) /\ (kind = "Packets" => got # <<>>)
  <2>1. CASE TimedOut
    BY <2>1 DEF TimedOut, ReadKinds
  <2>2. CASE Eof \/ ReadError
    BY <2>2 DEF Eof, ReadError, ReadKinds
  <2> QED
    BY <2>1, <2>2
<1>2. pc = "read" /\ stale' = TRUE /\ UNCHANGED readerVars /\ inbuf' = inbuf /\ got' = <<>>
  BY <1>1 DEF EndRead
<1>3. /\ got \in Seq(Frames) /\ <<>> \in Seq(Frames)
      /\ On(got) \subseteq OnLine /\ On(<<>>) \subseteq OnLine
  BY OnEmpty DEF TypeOK, OnLine
<1>4. CASE kind = "Packets"
  <2>1. Ends(kind, got)
    BY <1>1, <1>2, <1>4 DEF EndRead, Ends
  <2>2. Now.expect > 1
    <3>1. Now.expect \in Nat /\ Len(got) < Now.expect
      BY <1>2, NowFits DEF Reading, Exchanging
    <3>2. Len(got) \in Nat /\ Len(got) # 0
      BY <1>1, <1>3, <1>4
    <3> QED
      BY <3>1, <3>2
  <2> QED
    BY <1>1, <1>2, <1>3, <1>4, <2>1, <2>2
<1>5. CASE kind # "Packets"
  <2>1. pure \in BOOLEAN
    BY DEF TypeOK
  <2>2. Ends(kind, <<>>)
    BY <1>1, <1>2, <1>5, <2>1 DEF EndRead, Ends
  <2> QED
    BY <1>2, <1>3, <1>5, <2>2
<1> QED
  BY <1>4, <1>5

(* A request is written: it joins what is on its way to the reader.        *)
LEMMA WriteIs ==
  ASSUME TypeOK, NEW delivered \in BOOLEAN, Write(delivered)
  PROVE  /\ got' = <<>> /\ stale' = FALSE /\ UNCHANGED <<settings, rounds, pure>>
         /\ toHost' = Disown(toHost) /\ inbuf' = Disown(Input)
         /\ \/ toDev' = Disown(toDev)
            \/ \E r \in Requests : /\ r.cmd = Now.cmd /\ r.own
                                   /\ toDev' = Append(Disown(toDev), r)
         /\ delivered => \E r \in Requests : /\ r.cmd = Now.cmd /\ r.own
                                             /\ toDev' = Append(Disown(toDev), r)
<1> DEFINE r == [cmd |-> Now.cmd, arg |-> Now.arg, own |-> TRUE]
<1>1. r \in Requests /\ r.cmd = Now.cmd /\ r.own
  BY NowFits DEF Exchanging, Requests
<1>2. toDev' = Disown(toDev) \o (IF delivered THEN <<r>> ELSE <<>>)
  BY DEF Write
<1> HIDE DEF r
<1>3. Disown(toDev) \in Seq(Requests)
  BY DisownRequests DEF TypeOK, ReaderTypeOK
<1>4. Append(Disown(toDev), r) = Disown(toDev) \o <<r>>
  BY <1>1, <1>3, AppendIs
<1>5. Disown(toDev) \o <<>> = Disown(toDev)
  BY <1>3
<1> QED
  BY <1>1, <1>2, <1>4, <1>5 DEF Write

(* A step of the connector is the line's or the reader's, or it writes, or *)
(* it fails to clear the input, or it reads.                               *)
LEMMA ConnectorIs ==
  ASSUME SessionTypeOK, Faultless \/ \E kind \in FaultKinds : Fault(kind)
  PROVE  \/ Arrive
         \/ ReaderStep /\ UNCHANGED <<inbuf, hostVars>>
         \/ Send \/ SendFails \/ ClearFails \/ Receive
         \/ TimedOut \/ Eof \/ ReadError
<1>1. CASE Faultless
  BY <1>1 DEF Faultless, ReaderStep
<1>2. CASE \E kind \in FaultKinds : Fault(kind)
  BY <1>2, FaultIs DEF ReaderStep
<1> QED
  BY <1>1, <1>2

(* What a read leaves of the call that it ends, or whose next exchange it  *)
(* makes way for.                                                          *)
LEMMA EndsIs ==
  ASSUME Reading, NEW kind, NEW packets, Ends(kind, packets)
  PROVE  /\ call' = call /\ pc' \in {"send", "idle"} /\ Reading'
<1>1. PICK val : Conclude(Answer(Now.cmd, kind, packets), val)
  BY DEF Ends
<1>2. got' = <<>>
  BY DEF Ends
<1> QED
  BY <1>1, <1>2, ConcludeIs DEF Reading, GoesOn

(* While the connector goes on, the call under way stays what it is.       *)
LEMMA ConnectorCalls ==
  ASSUME SessionTypeOK, Reading, Faultless \/ \E kind \in FaultKinds : Fault(kind)
  PROVE  call' = call /\ (pc = "idle" => pc' = "idle") /\ Reading'
<1>1. TypeOK
  BY DEF SessionTypeOK
<1>2. ASSUME UNCHANGED hostVars
      PROVE  call' = call /\ (pc = "idle" => pc' = "idle") /\ Reading'
  BY <1>2, NowSame DEF hostVars, Reading
<1>3. CASE Arrive \/ (ReaderStep /\ UNCHANGED <<inbuf, hostVars>>)
  BY <1>2, <1>3 DEF Arrive
<1>4. CASE Send
  <2>1. /\ pc = "send" /\ got' = <<>> /\ UNCHANGED <<call, step, failed>>
        /\ pc' = IF Now.expect = 0 THEN "idle" ELSE "read"
    BY <1>4 DEF Send, Write, Return
  <2>2. Now' = Now
    BY <2>1, NowSame
  <2>3. Now.expect \in Nat /\ Len(<<>>) = 0
    BY <1>1, NowFits DEF Exchanging
  <2> QED
    BY <2>1, <2>2, <2>3 DEF Reading
<1>5. CASE SendFails
  BY <1>5 DEF SendFails, Write, Reading
<1>6. CASE ClearFails
  BY <1>6 DEF ClearFails, Reading
<1>7. CASE Receive
  <2>1. CASE UNCHANGED <<pc, call, step, failed, result, pure>> /\ Len(got') < Now.expect
    BY <1>1, <1>7, <2>1, NowSame, ReceiveReads DEF Reading
  <2>2. CASE \E packets \in Seq(Frames) : Ends("Packets", packets)
    BY <1>1, <1>7, <2>2, EndsIs, ReceiveReads
  <2> QED
    BY <1>1, <1>7, <2>1, <2>2, ReceiveReads
<1>8. CASE TimedOut \/ Eof \/ ReadError
  BY <1>1, <1>8, EndsIs, EndsWithout
<1>9. \/ Arrive \/ (ReaderStep /\ UNCHANGED <<inbuf, hostVars>>)
      \/ Send \/ SendFails \/ ClearFails \/ Receive \/ (TimedOut \/ Eof \/ ReadError)
  BY ConnectorIs
<1> QED
  BY <1>3, <1>4, <1>5, <1>6, <1>7, <1>8, <1>9

(* A call is made, waited for and let go by its command.                   *)
LEMMA Followed ==
  SessionTypeOK /\ Following /\ Reading /\ [SessionNext]_allVars => Following' /\ Reading'
<1> SUFFICES ASSUME SessionTypeOK, Following, Reading, [SessionNext]_allVars
             PROVE  Following' /\ Reading'
  OBVIOUS
<1>1. ASSUME waiting' = FALSE, pc = "idle", UNCHANGED <<pc, call, step, got, failed>>
      PROVE  Following' /\ Reading'
  BY <1>1, NowSame DEF Following, Reading
<1>2. ASSUME NEW v \in Verbs, Connect(v) PROVE Following' /\ Reading'
  <2>1. waiting = FALSE
    BY <1>2 DEF Connect, SessionTypeOK, InProgram
  <2> QED
    BY <1>1, <1>2, <2>1 DEF Connect, Following
<1>3. CASE CallOp
  <2>1. Invoke(CallOf(Current)) /\ pc' = "send" /\ waiting' = TRUE /\ UNCHANGED <<verb, at>>
    BY <1>3 DEF CallOp
  <2>2. call' = CallOf(Current) /\ got' = <<>> /\ failed' = "none"
    BY <2>1 DEF Invoke
  <2>3. Current' = Current
    BY <2>1, SameOperation
  <2> QED
    BY <2>1, <2>2, <2>3 DEF Following, Reading, CallOf
<1>4. CASE LeaveLoop
  <2>1. ~waiting /\ UNCHANGED <<vars, waiting>>
    BY <1>4 DEF LeaveLoop
  <2>2. pc = "idle" /\ waiting \in BOOLEAN
    BY <2>1 DEF Following, SessionTypeOK
  <2> QED
    BY <1>1, <2>1, <2>2 DEF vars, hostVars
<1>5. CASE Advance \/ Again
  <2>1. HasReturned /\ UNCHANGED vars /\ waiting' = FALSE
    BY <1>5 DEF Advance, Again
  <2> QED
    BY <1>1, <2>1 DEF HasReturned, vars, hostVars
<1>6. CASE Finish \/ Fail
  <2>1. waiting' = FALSE /\ UNCHANGED hostVars
    BY <1>6, EndIs DEF Exit
  <2>2. pc = "idle"
    BY <1>6, EndIs DEF HasReturned, SessionTypeOK, Following
  <2> QED
    BY <1>1, <2>1, <2>2 DEF hostVars
<1>7. CASE CtrlC
  <2>1. UNCHANGED <<pc, call, step, got, failed, waiting, verb, at>>
    BY <1>7 DEF CtrlC, vars, hostVars
  <2> QED
    BY <2>1, SameOperation, NowSame DEF Following, Reading
<1>8. CASE Killed
  BY <1>8 DEF Killed, Following, Reading
<1>9. CASE Faultless \/ \E kind \in FaultKinds : Fault(kind)
  <2>1. /\ call' = call /\ (pc = "idle" => pc' = "idle") /\ Reading'
        /\ UNCHANGED <<verb, at, waiting, running>>
    BY <1>9, ConnectorCalls, ConnectorSteps
  <2> QED
    BY <2>1, SameOperation DEF Following
<1>10. CASE UNCHANGED allVars
  <2>1. UNCHANGED <<pc, call, step, got, failed, waiting, verb, at>>
    BY <1>10 DEF allVars, sessionVars, vars, hostVars
  <2> QED
    BY <2>1, SameOperation, NowSame DEF Following, Reading
<1> QED
  BY <1>2, <1>3, <1>4, <1>5, <1>6, <1>7, <1>8, <1>9, <1>10 DEF SessionNext

-----------------------------------------------------------------------------
(* Stops on the line *)

(* What two lines have in common that hold the same commands.              *)
LEMMA StopsSame ==
  ASSUME NEW s \in Seq(Requests), NEW t \in Seq(Requests), Len(t) = Len(s),
         \A i \in 1..Len(s) : t[i].cmd = s[i].cmd
  PROVE  /\ HasStart(t) => HasStart(s)
         /\ OneStop(s) => OneStop(t)
         /\ TwoStops(s) => TwoStops(t)
<1>1. HasStart(t) => HasStart(s)
  BY DEF HasStart, On, StartsPolling
<1>2. ASSUME NEW i \in 1..Len(s), StopAt(s, i) PROVE StopAt(t, i)
  BY <1>2 DEF StopAt, StartsPolling
<1> QED
  BY <1>1, <1>2 DEF OneStop, TwoStops

(* Disowning a line changes none of its commands.                          *)
LEMMA StopsDisown ==
  ASSUME NEW s \in Seq(Requests)
  PROVE  /\ Disown(s) \in Seq(Requests)
         /\ HasStart(Disown(s)) => HasStart(s)
         /\ OneStop(s) => OneStop(Disown(s))
         /\ TwoStops(s) => TwoStops(Disown(s))
<1>1. Disown(s) \in Seq(Requests) /\ Len(Disown(s)) = Len(s)
  BY DisownRequests
<1>2. ASSUME NEW i \in 1..Len(s) PROVE Disown(s)[i].cmd = s[i].cmd
  <2>1. s[i] \in Requests
    OBVIOUS
  <2> QED
    BY <2>1 DEF Disown, Requests
<1> QED
  BY <1>1, <1>2, StopsSame

(* A request that starts no polling leaves the stops before it behind all  *)
(* that does; a stop is one more of them.                                  *)
LEMMA StopsAppend ==
  ASSUME NEW s \in Seq(Requests), NEW r \in Requests, ~StartsPolling(r)
  PROVE  /\ HasStart(Append(s, r)) => HasStart(s)
         /\ OneStop(s) => OneStop(Append(s, r))
         /\ TwoStops(s) => TwoStops(Append(s, r))
         /\ r.cmd = StopCmd => OneStop(Append(s, r))
         /\ r.cmd = StopCmd /\ OneStop(s) => TwoStops(Append(s, r))
<1> DEFINE t == Append(s, r)
<1>1. /\ Len(s) \in Nat /\ Len(t) = Len(s) + 1 /\ t[Len(s) + 1] = r
      /\ \A i \in 1..Len(s) : t[i] = s[i]
  OBVIOUS
<1>2. HasStart(t) => HasStart(s)
  BY OnAppend DEF HasStart
<1> HIDE DEF t
<1>3. ASSUME NEW i \in 1..Len(s), StopAt(s, i) PROVE StopAt(t, i) /\ i \in 1..Len(t)
  BY <1>1, <1>3 DEF StopAt
<1>4. ASSUME r.cmd = StopCmd PROVE StopAt(t, Len(s) + 1) /\ Len(s) + 1 \in 1..Len(t)
  BY <1>1, <1>4 DEF StopAt
<1>5. \A i \in 1..Len(s) : i < Len(s) + 1
  BY <1>1
<1> QED
  BY <1>2, <1>3, <1>4, <1>5 DEF OneStop, TwoStops, t

(* What is left of them when the reader takes, or the line loses, the      *)
(* first request: of two, at least one; all, if the first was no stop, or  *)
(* if polling is started behind it.                                        *)
LEMMA StopsTail ==
  ASSUME NEW s \in Seq(Requests), s # <<>>
  PROVE  /\ Tail(s) \in Seq(Requests) /\ Head(s) \in Requests
         /\ StartsPolling(Head(s)) \/ HasStart(Tail(s)) => HasStart(s)
         /\ TwoStops(s) => OneStop(Tail(s))
         /\ Head(s).cmd # StopCmd \/ HasStart(Tail(s)) =>
              /\ OneStop(s) => OneStop(Tail(s))
              /\ TwoStops(s) => TwoStops(Tail(s))
<1> DEFINE t == Tail(s)
<1>1. /\ Len(s) \in Nat /\ Len(s) >= 1 /\ Len(t) = Len(s) - 1 /\ Head(s) = s[1]
      /\ \A i \in 1..Len(t) : t[i] = s[i + 1]
      /\ t \in Seq(Requests)
  OBVIOUS
<1>2. On(t) \subseteq On(s) /\ Head(s) \in On(s) /\ Head(s) \in Requests
  BY OnTail, OnTyped
<1> HIDE DEF t
<1>3. ASSUME NEW i \in 1..Len(s), StopAt(s, i), i > 1
      PROVE  StopAt(t, i - 1) /\ i - 1 \in 1..Len(t)
  <2>1. i - 1 \in 1..Len(t) /\ t[i - 1] = s[i]
    BY <1>1, <1>3
  <2>2. \A j \in (i - 1)..Len(t) : j + 1 \in i..Len(s) /\ j \in 1..Len(t)
    BY <1>1, <1>3
  <2>3. \A j \in (i - 1)..Len(t) : ~StartsPolling(t[j])
    BY <1>1, <1>3, <2>2 DEF StopAt
  <2> QED
    BY <1>3, <2>1, <2>3 DEF StopAt
<1>4. ASSUME Head(s).cmd # StopCmd \/ HasStart(t), NEW i \in 1..Len(s), StopAt(s, i)
      PROVE  i > 1
  <2>1. CASE Head(s).cmd # StopCmd
    BY <1>1, <1>4, <2>1 DEF StopAt
  <2>2. CASE HasStart(t)
    <3>1. PICK j \in 1..Len(t) : StartsPolling(t[j])
      BY <2>2 DEF HasStart, On
    <3>2. j + 1 \in 1..Len(s) /\ StartsPolling(s[j + 1])
      BY <1>1, <3>1
    <3> QED
      BY <1>1, <1>4, <3>1, <3>2 DEF StopAt
  <2> QED
    BY <1>4, <2>1, <2>2
<1>5. TwoStops(s) => OneStop(t)
  BY <1>1, <1>3 DEF TwoStops, OneStop
<1>6. ASSUME Head(s).cmd # StopCmd \/ HasStart(t), OneStop(s) PROVE OneStop(t)
  BY <1>3, <1>4, <1>6 DEF OneStop
<1>7. ASSUME Head(s).cmd # StopCmd \/ HasStart(t), TwoStops(s) PROVE TwoStops(t)
  <2>1. PICK i \in 1..Len(s), k \in 1..Len(s) : i < k /\ StopAt(s, i) /\ StopAt(s, k)
    BY <1>7 DEF TwoStops
  <2>2. i > 1 /\ k > 1
    BY <1>4, <1>7, <2>1
  <2>3. StopAt(t, i - 1) /\ i - 1 \in 1..Len(t) /\ StopAt(t, k - 1) /\ k - 1 \in 1..Len(t)
    BY <1>3, <2>1, <2>2
  <2>4. i - 1 < k - 1
    BY <1>1, <2>1
  <2> QED
    BY <2>3, <2>4 DEF TwoStops
<1> QED
  BY <1>1, <1>2, <1>5, <1>6, <1>7 DEF HasStart, t

-----------------------------------------------------------------------------
(* What a scan leaves behind *)

(* A step that fails nothing and takes no stop away.                       *)
LEMMA BackupKept ==
  ASSUME Backup, faults' = faults,
         PollingAhead' => PollingAhead,
         PollingAhead /\ OneStop(toDev) => OneStop(toDev'),
         PollingAhead /\ TwoStops(toDev) => TwoStops(toDev'),
         verb' # "Scan" => verb # "Scan", ScanEnding' => ScanEnding
  PROVE  Backup'
  BY DEF Backup

(* One that leaves the reader, its line and the command alone.             *)
LEMMA BackupSame ==
  ASSUME Backup, UNCHANGED <<toDev, rounds, faults>>,
         verb' # "Scan" => verb # "Scan", ScanEnding' => ScanEnding
  PROVE  Backup'
  BY BackupKept DEF PollingAhead

(* The reader takes a request, or the line loses one: that is a fault, as  *)
(* a refused stop is, or the stops behind it are still there.              *)
LEMMA BackupTaken ==
  ASSUME StopInv, NEW f \in 0..1, Len(faults') = Len(faults) + f, f = 0 => faults' = faults,
         toDev # <<>>, toDev' = Tail(toDev), UNCHANGED <<hostVars, verb, at, waiting>>,
         f = 1 => rounds' = rounds,
         f = 0 => \/ Head(toDev).cmd # StopCmd /\ (rounds' = rounds \/ StartsPolling(Head(toDev)))
                  \/ Head(toDev).cmd = StopCmd /\ rounds' = 0
  PROVE  Backup'
<1>1. toDev \in Seq(Requests) /\ rounds \in Nat /\ Len(faults) \in Nat
  BY ReaderAssumption DEF StopInv, SessionTypeOK, TypeOK, ReaderTypeOK
<1>2. UNCHANGED <<verb, ScanEnding>>
  BY DEF ScanEnding, hostVars
<1>3. CASE f = 1
  <2>1. Len(faults') # 0 /\ (Len(faults') = 1 => faults = <<>>)
    BY <1>1, <1>3 DEF StopInv, SessionTypeOK
  <2>2. faults' # <<>>
    BY <2>1
  <2>3. PollingAhead' => PollingAhead
    BY <1>1, <1>3, StopsTail DEF PollingAhead
  <2>4. TwoStops(toDev) => OneStop(toDev')
    BY <1>1, StopsTail
  <2> QED
    BY <1>2, <2>1, <2>2, <2>3, <2>4 DEF StopInv, Backup
<1>4. CASE f = 0
  <2>1. PollingAhead' =>
          PollingAhead /\ (Head(toDev).cmd # StopCmd \/ HasStart(Tail(toDev)))
    BY <1>1, <1>4, StopsTail DEF PollingAhead
  <2>2. PollingAhead' =>
          (OneStop(toDev) => OneStop(toDev')) /\ (TwoStops(toDev) => TwoStops(toDev'))
    BY <1>1, <2>1, StopsTail
  <2> QED
    BY <1>2, <1>4, <2>1, <2>2 DEF StopInv, Backup
<1> QED
  BY <1>3, <1>4

(* A request is written, behind what is there.                             *)
LEMMA BackupWritten ==
  ASSUME StopInv, NEW delivered \in BOOLEAN, Write(delivered), pc = "send",
         UNCHANGED <<verb, at, waiting>>,
         \/ delivered /\ faults' = faults
         \/ Len(faults') = Len(faults) + 1
  PROVE  Backup'
<1>1. /\ SessionTypeOK /\ Following /\ TypeOK /\ waiting
      /\ toDev \in Seq(Requests) /\ Len(faults) \in Nat
  BY DEF StopInv, Following, SessionTypeOK, TypeOK, ReaderTypeOK
<1>2. rounds' = rounds
  BY <1>1, WriteIs
<1>3. /\ Shape(verb, Program(verb)) /\ at \in 1..Len(Program(verb))
      /\ call.name = Program(verb)[at].name
  BY <1>1, InCall
<1>4. CASE verb # "Scan"
  <2>1. call.name \notin Polls
    BY <1>3, <1>4 DEF Shape
  <2>2. Now.cmd # "MultiplePollingInstruction"
    BY <1>1, <2>1, NowFits DEF Fits
  <2>3. /\ HasStart(toDev') => HasStart(toDev)
        /\ OneStop(toDev) => OneStop(toDev')
        /\ TwoStops(toDev) => TwoStops(toDev')
    <3>1. CASE toDev' = Disown(toDev)
      BY <1>1, <3>1, StopsDisown
    <3>2. CASE \E r \in Requests : r.cmd = Now.cmd /\ toDev' = Append(Disown(toDev), r)
      <4>1. PICK r \in Requests : r.cmd = Now.cmd /\ toDev' = Append(Disown(toDev), r)
        BY <3>2
      <4> QED
        BY <1>1, <2>2, <4>1, StopsDisown, StopsAppend DEF StartsPolling
    <3> QED
      BY <1>1, <3>1, <3>2, WriteIs
  <2>4. PollingAhead' => PollingAhead
    BY <1>2, <2>3 DEF PollingAhead
  <2>5. verb' # "Scan" /\ ~ScanEnding'
    BY <1>4 DEF ScanEnding
  <2>6. CASE faults' = faults
    BY <1>4, <2>3, <2>4, <2>5, <2>6, BackupKept DEF StopInv
  <2>7. CASE Len(faults') = Len(faults) + 1
    <3>1. faults' # <<>> /\ (Len(faults') = 1 => faults = <<>>)
      BY <1>1, <2>7 DEF SessionTypeOK
    <3>2. TwoStops(toDev') => OneStop(toDev')
      BY DEF TwoStops, OneStop
    <3> QED
      BY <1>4, <2>3, <2>4, <2>5, <3>1, <3>2 DEF StopInv, Backup
  <2> QED
    BY <2>6, <2>7
<1>5. CASE verb = "Scan" /\ Len(faults') = Len(faults) + 1
  BY <1>1, <1>5 DEF Backup
<1>6. CASE verb = "Scan" /\ at = 1
  BY <1>6 DEF Backup, ScanEnding
<1>7. CASE verb = "Scan" /\ at # 1 /\ delivered
  <2>1. Program(verb)[2].name \in StopCalls /\ at = 2
    BY <1>3, <1>7 DEF Shape, StopCalls
  <2>2. Now.cmd = StopCmd
    BY <1>1, <1>3, <2>1, NowFits DEF Fits
  <2>3. PICK r \in Requests : r.cmd = Now.cmd /\ toDev' = Append(Disown(toDev), r)
    BY <1>1, <1>7, WriteIs
  <2>4. OneStop(toDev')
    BY <1>1, <2>2, <2>3, StopsDisown, StopsAppend DEF StartsPolling, StopCmd
  <2> QED
    BY <1>7, <2>4 DEF Backup
<1> QED
  BY <1>4, <1>5, <1>6, <1>7

(* The reader and the line go on.                                          *)
LEMMA BackupReader ==
  ASSUME StopInv, NEW f \in 0..1, Len(faults') = Len(faults) + f, f = 0 => faults' = faults,
         UNCHANGED <<inbuf, hostVars, verb, at, waiting>>,
         \/ f = 0 /\ (CarryOut \/ PollRound \/ (Refuse /\ Head(toDev).cmd # StopCmd))
         \/ f = 1 /\ (LoseRequest \/ LoseFrame \/ Refuse)
  PROVE  Backup'
<1>1. ReaderTypeOK /\ rounds \in Nat /\ toDev \in Seq(Requests) /\ Len(faults) \in Nat
  BY ReaderAssumption DEF StopInv, SessionTypeOK, TypeOK, ReaderTypeOK
<1>2. UNCHANGED ScanEnding
  BY DEF ScanEnding, hostVars
<1>3. ASSUME f = 0, Refuse, Head(toDev).cmd # StopCmd PROVE Backup'
  BY <1>3, BackupTaken DEF Refuse
<1>4. ASSUME f = 1, Refuse \/ LoseRequest PROVE Backup'
  BY <1>4, BackupTaken DEF Refuse, LoseRequest
<1>5. ASSUME f = 0, CarryOut PROVE Backup'
  <2> DEFINE r == Head(toDev)
  <2>1. toDev # <<>> /\ toDev' = Tail(toDev)
    BY <1>5 DEF CarryOut
  <2>2. \/ r.cmd # StopCmd /\ (rounds' = rounds \/ StartsPolling(r))
        \/ r.cmd = StopCmd /\ rounds' = 0
    BY <1>5 DEF CarryOut, SetSetting, GetSetting, Info, TagOperation, PollOnce, StartPolling,
       StopPolling, StartsPolling, SetCmds, GetCmds, InfoCmds, TagCmds, StopCmd
  <2> HIDE DEF r
  <2>3. \/ Head(toDev).cmd # StopCmd /\ (rounds' = rounds \/ StartsPolling(Head(toDev)))
        \/ Head(toDev).cmd = StopCmd /\ rounds' = 0
    BY <2>2 DEF r
  <2>4. UNCHANGED <<hostVars, verb, at, waiting>>
    OBVIOUS
  <2>5. f # 1
    BY <1>5
  <2>6. /\ f = 1 => rounds' = rounds
        /\ f = 0 => \/ Head(toDev).cmd # StopCmd /\ (rounds' = rounds \/ StartsPolling(Head(toDev)))
                    \/ Head(toDev).cmd = StopCmd /\ rounds' = 0
    BY <2>3, <2>5
  <2> QED
    BY <2>1, <2>4, <2>6, BackupTaken
<1>6. ASSUME f = 0, PollRound PROVE Backup'
  <2>1. PollingAhead /\ UNCHANGED <<toDev, faults, verb>>
    BY <1>6 DEF PollRound, PollingAhead
  <2> QED
    BY <1>2, <2>1, BackupKept DEF StopInv
<1>7. ASSUME f = 1, LoseFrame PROVE Backup'
  <2>1. UNCHANGED <<toDev, rounds, verb>>
    BY <1>7 DEF LoseFrame
  <2>2. faults' # <<>> /\ (Len(faults') = 1 => faults = <<>>)
    BY <1>1, <1>7 DEF StopInv, SessionTypeOK
  <2>3. PollingAhead' => PollingAhead
    BY <2>1 DEF PollingAhead
  <2>4. TwoStops(toDev) => OneStop(toDev')
    BY <2>1 DEF TwoStops, OneStop
  <2> QED
    BY <1>2, <2>1, <2>2, <2>3, <2>4 DEF StopInv, Backup
<1> QED
  BY <1>3, <1>4, <1>5, <1>6, <1>7

(* The connector goes on, and nothing fails.                               *)
LEMMA BackupFaultless == StopInv /\ Faultless => Backup'
<1> SUFFICES ASSUME StopInv, Faultless PROVE Backup'
  OBVIOUS
<1>1. TypeOK /\ Reading /\ Following /\ UNCHANGED <<verb, at, waiting, faults>>
  BY DEF StopInv, SessionTypeOK, Faultless, sessionVars
<1>2. ASSUME UNCHANGED <<toDev, rounds>>, pc = "read" \/ pc' = pc PROVE Backup'
  <2>1. ScanEnding' => ScanEnding
    BY <1>1, <1>2 DEF ScanEnding
  <2> QED
    BY <1>1, <1>2, <2>1, BackupSame DEF StopInv
<1>3. CASE Arrive
  BY <1>2, <1>3 DEF Arrive, hostVars
<1>4. CASE Send
  BY <1>1, <1>4, BackupWritten DEF Send
<1>5. CASE Receive \/ TimedOut \/ Eof \/ ReadError
  BY <1>1, <1>2, <1>5, ReceiveReads, EndsWithout DEF readerVars
<1>6. CASE /\ CarryOut \/ PollRound \/ (Refuse /\ Head(toDev).cmd # StopCmd)
           /\ UNCHANGED <<inbuf, hostVars>>
  <2>1. Len(faults') = Len(faults) + 0 /\ 0 \in 0..1
    BY <1>1 DEF StopInv, SessionTypeOK
  <2>2. UNCHANGED <<inbuf, hostVars, verb, at, waiting>>
    BY <1>1, <1>6
  <2> QED
    BY <1>1, <1>6, <2>1, <2>2, BackupReader
<1> QED
  BY <1>3, <1>4, <1>5, <1>6 DEF Faultless

(* Something fails.                                                        *)
LEMMA BackupFault ==
  ASSUME StopInv, NEW kind \in FaultKinds, Fault(kind)
  PROVE  Backup'
<1>1. /\ SessionTypeOK /\ Len(faults) \in Nat /\ Len(faults') = Len(faults) + 1
      /\ UNCHANGED <<verb, at, waiting>>
  BY FaultIs DEF StopInv, SessionTypeOK
<1>2. CASE SendFails
  BY <1>1, <1>2, BackupWritten DEF SendFails
<1>3. CASE ClearFails
  <2>1. UNCHANGED <<toDev, rounds>> /\ pc = "send"
    BY <1>3 DEF ClearFails, readerVars
  <2>2. faults' # <<>> /\ (Len(faults') = 1 => faults = <<>>)
    BY <1>1 DEF SessionTypeOK
  <2>3. PollingAhead' => PollingAhead
    BY <2>1 DEF PollingAhead
  <2>4. TwoStops(toDev) => OneStop(toDev')
    BY <2>1 DEF TwoStops, OneStop
  <2> QED
    BY <1>1, <2>2, <2>3, <2>4 DEF StopInv, Backup
<1>4. CASE (LoseRequest \/ LoseFrame \/ Refuse) /\ UNCHANGED <<inbuf, hostVars>>
  BY <1>1, <1>4, BackupReader
<1> QED
  BY <1>1, <1>2, <1>3, <1>4, FaultIs

(* The guard stops the reader once more.                                   *)
LEMMA BackupEnds == StopInv /\ (Finish \/ Fail) => Backup'
<1> SUFFICES ASSUME StopInv, Finish \/ Fail PROVE Backup'
  OBVIOUS
<1>1. SessionTypeOK /\ Following /\ TypeOK /\ toDev \in Seq(Requests)
  BY DEF StopInv, SessionTypeOK, TypeOK, ReaderTypeOK
<1>2. Exit /\ verb # "none" /\ (InProgram => HasReturned /\ Current.mode \in {"must", "until"})
  BY EndIs
<1>3. verb' = "none" /\ UNCHANGED <<rounds, faults>>
  BY <1>1, <1>2, ExitIs
<1>4. PICK r \in Requests : r.cmd = StopCmd /\ toDev' = Append(Disown(toDev), r)
  BY <1>1, <1>2, ExitIs
<1>5. /\ HasStart(toDev') => HasStart(toDev)
      /\ OneStop(toDev')
      /\ TwoStops(toDev) => TwoStops(toDev')
      /\ OneStop(toDev) => TwoStops(toDev')
  BY <1>1, <1>4, StopsDisown, StopsAppend DEF StartsPolling, StopCmd
<1>6. PollingAhead' => PollingAhead
  BY <1>3, <1>5 DEF PollingAhead
<1>7. ASSUME verb = "Scan" PROVE ScanEnding
  <2>1. verb \in Verbs /\ at \in Nat
    BY <1>1, <1>2 DEF SessionTypeOK
  <2>2. Len(Program(verb)) = 2 /\ Program(verb)[1].mode = "while"
    BY <1>7, <2>1, Commanded DEF Shape
  <2>3. CASE ~InProgram
    <3>1. at > 2
      BY <1>2, <2>1, <2>2, <2>3 DEF InProgram
    <3> QED
      BY <1>7, <3>1 DEF ScanEnding
  <2>4. CASE InProgram
    <3>1. waiting /\ pc = "idle" /\ Current.mode # "while"
      BY <1>2, <2>4 DEF HasReturned
    <3>2. at \in 1..2 /\ at # 1
      BY <1>1, <2>2, <2>4, <3>1, AtOperation DEF Current
    <3> QED
      BY <1>7, <3>1, <3>2 DEF ScanEnding
  <2> QED
    BY <2>3, <2>4
<1> QED
  BY <1>3, <1>5, <1>6, <1>7 DEF StopInv, Backup, ScanEnding

(* One of the two stops of a scan is there, or has been carried out, as    *)
(* long as no more than one request, answer or write has failed.           *)
LEMMA BackupStep == StopInv /\ [SessionNext]_allVars => Backup'
<1> SUFFICES ASSUME StopInv, [SessionNext]_allVars PROVE Backup'
  OBVIOUS
<1>1. SessionTypeOK /\ Following /\ Backup
  BY DEF StopInv
<1>2. ASSUME UNCHANGED <<vars, verb, faults>>, ScanEnding' => ScanEnding PROVE Backup'
  BY <1>1, <1>2, BackupSame DEF vars, readerVars
<1>3. ASSUME NEW v \in Verbs, Connect(v) PROVE Backup'
  BY <1>1, <1>3, BackupSame DEF Connect, readerVars, ScanEnding
<1>4. CASE CallOp
  <2>1. UNCHANGED <<readerVars, faults, verb, at>> /\ pc' = "send" /\ InProgram
    BY <1>4 DEF CallOp, Invoke
  <2>2. ScanEnding' => ScanEnding
    BY <2>1 DEF ScanEnding
  <2> QED
    BY <1>1, <2>1, <2>2, BackupSame DEF readerVars
<1>5. CASE LeaveLoop
  <2>1. /\ InProgram /\ ~waiting /\ Current.mode = "while" /\ at' = at + 1
        /\ UNCHANGED <<vars, verb, faults, waiting>>
    BY <1>5 DEF LeaveLoop
  <2>2. at = 1 \/ verb # "Scan"
    <3>1. at \in 1..Len(Program(verb)) /\ Shape(verb, Program(verb))
      BY <1>1, <2>1, AtOperation
    <3> QED
      BY <2>1, <3>1 DEF Shape, Current
  <2>3. ~ScanEnding'
    BY <2>1, <2>2 DEF ScanEnding
  <2> QED
    BY <1>2, <2>1, <2>3
<1>6. CASE Advance
  <2>1. /\ HasReturned /\ Current.mode # "while" /\ at' = at + 1
        /\ UNCHANGED <<vars, verb, faults>>
    BY <1>6 DEF Advance
  <2>2. verb = "Scan" => at = 2
    <3>1. /\ at \in 1..Len(Program(verb)) /\ Shape(verb, Program(verb))
          /\ Current = Program(verb)[at]
      BY <1>1, <2>1, InCall DEF HasReturned
    <3> QED
      BY <2>1, <3>1 DEF Shape
  <2>3. ScanEnding' => ScanEnding
    BY <2>1, <2>2 DEF ScanEnding, HasReturned
  <2> QED
    BY <1>2, <2>1, <2>3
<1>7. CASE Again
  BY <1>2, <1>7 DEF Again, ScanEnding
<1>8. CASE Finish \/ Fail
  BY <1>8, BackupEnds
<1>9. CASE CtrlC
  BY <1>2, <1>9 DEF CtrlC, ScanEnding, vars, hostVars
<1>10. CASE Killed
  BY <1>1, <1>10, BackupSame DEF Killed, readerVars, ScanEnding
<1>11. CASE Faultless
  BY <1>11, BackupFaultless
<1>12. CASE \E kind \in FaultKinds : Fault(kind)
  BY <1>12, BackupFault
<1>13. CASE UNCHANGED allVars
  BY <1>2, <1>13 DEF allVars, sessionVars, vars, hostVars, ScanEnding
<1> QED
  BY <1>3, <1>4, <1>5, <1>6, <1>7, <1>8, <1>9, <1>10, <1>11, <1>12, <1>13 DEF SessionNext

(* No process has run, and the reader is not polling.                      *)
LEMMA SessionStarts ==
  SessionInit => /\ StopInv /\ ~waiting /\ verb = "none" /\ pc = "idle" /\ pure /\ Settled
<1> SUFFICES ASSUME SessionInit
             PROVE  StopInv /\ ~waiting /\ verb = "none" /\ pc = "idle" /\ pure /\ Settled
  OBVIOUS
<1>1. /\ Init /\ rounds = 0 /\ verb = "none" /\ at = 1 /\ waiting = FALSE /\ running = TRUE
      /\ faults = <<>>
  BY DEF SessionInit
<1>2. /\ toDev = <<>> /\ toHost = <<>> /\ inbuf = <<>> /\ pc = "idle" /\ got = <<>>
      /\ failed = "none" /\ pure = TRUE
  BY <1>1 DEF Init, ReaderInit
<1>3. SessionTypeOK
  <2>1. faults \in Seq(FaultKinds) /\ Len(faults) = 0 /\ 0 <= MaxFaults
    BY <1>1, CliAssumption
  <2> QED
    BY <1>1, <2>1, InitTyped DEF SessionTypeOK
<1>4. Following /\ Reading
  BY <1>1, <1>2 DEF Following, Reading
<1>5. ~PollingAhead
  BY <1>1, <1>2, OnEmpty DEF PollingAhead, HasStart
<1> QED
  BY <1>1, <1>2, <1>3, <1>4, <1>5 DEF StopInv, Backup, Settled, Quiet

(* Every step of a session keeps StopInv.                                  *)
LEMMA StopStep == StopInv /\ [SessionNext]_allVars => StopInv'
  BY SessionTyped, Followed, BackupStep DEF StopInv

(* So it holds in every state of every session.                            *)
LEMMA StopAlways == SessionSpec => []StopInv
  BY SessionStarts, StopStep, PTL DEF SessionSpec

(* The values stay in their types for any set of commands and any number   *)
(* of processes: a process is at an operation of its command or past the   *)
(* last one, and waits for a result only in its program.                   *)
THEOREM SessionTypes == SessionSpec => []SessionTypeOK
<1>1. StopInv => SessionTypeOK
  BY DEF StopInv
<1> QED
  BY <1>1, StopAlways, PTL

(* Two stops of a scan and at most one fault: what is under way is enough  *)
(* to end polling.                                                         *)
LEMMA BackupStops == StopInv => (Len(faults) <= 1 => LeavesNoPolling)
<1> SUFFICES ASSUME StopInv, Len(faults) <= 1, verb # "Scan", toDev = <<>>
             PROVE  rounds = 0
  BY DEF LeavesNoPolling
<1>1. faults = <<>> \/ Len(faults) = 1
  <2>1. faults \in Seq(FaultKinds)
    BY DEF StopInv, SessionTypeOK
  <2>2. Len(faults) = 0 => faults = <<>>
    BY <2>1
  <2>3. Len(faults) \in Nat
    BY <2>1
  <2> QED
    BY <2>2, <2>3
<1>2. ~TwoStops(toDev) /\ ~OneStop(toDev)
  BY DEF TwoStops, OneStop
<1>3. rounds \in Nat
  BY ReaderAssumption DEF StopInv, SessionTypeOK, TypeOK, ReaderTypeOK
<1> QED
  BY <1>1, <1>2, <1>3 DEF StopInv, Backup, PollingAhead

(* Once a scan is over and the reader has taken what was sent to it, the   *)
(* reader is not polling, on every line and however its processes ended,   *)
(* if no more than one request, answer, write, clear or stop has failed    *)
(* up to then: Scan stops the reader, and its guard does so once more.     *)
THEOREM ScanLeavesNoPolling == SessionSpec => [](Len(faults) <= 1 => LeavesNoPolling)
  BY BackupStops, StopAlways, PTL

-----------------------------------------------------------------------------
(* Whose answers a command takes *)

(* What is on the line is nobody's business while there is no command, or  *)
(* while it is a scan.                                                     *)
LEMMA AnswersElsewhere ==
  ASSUME verb' = "Scan" \/ (verb' = "none" /\ pc' = "idle"),
         Sound' => (call'.name \notin StopCalls => pure')
  PROVE  AnswersInv'
<1>1. verb' = "none" => ~Ahead' /\ ~HasReturned'
  BY DEF Ahead, InProgram, HasReturned
<1>2. NothingStale' /\ OkHasRead'
  BY <1>1 DEF NothingStale, OkHasRead
<1>3. OnlyItsOwn' /\ InfoInOrder'
  BY DEF OnlyItsOwn, InfoInOrder
<1> QED
  BY <1>2, <1>3 DEF AnswersInv

(* The command looks at a result and goes on, or calls an operation.       *)
LEMMA AnswersForward ==
  ASSUME AnswersInv, Sound' => Sound,
         UNCHANGED <<readerVars, inbuf, stale>>,
         pc' # "read", waiting' => pc' # "idle",
         Sound' => (call'.name \notin StopCalls => pure'),
         Sound /\ verb' # "Scan" /\ Ahead' /\ ~stale => Settled,
         Sound /\ verb' = "Info" /\ at' = 3 /\ Ahead' => Settled
  PROVE  AnswersInv'
<1>1. Settled => Settled'
  BY DEF Settled, Quiet, readerVars
<1>2. ~HasReturned'
  BY DEF HasReturned
<1>3. OnlyItsOwn' /\ OkHasRead'
  BY <1>2 DEF OnlyItsOwn, OkHasRead
<1>4. Sound' => NothingStale' /\ InfoInOrder'
  BY <1>1, <1>2 DEF NothingStale, InfoInOrder
<1> QED
  BY <1>3, <1>4 DEF AnswersInv

(* Where the call, the line and the port are the same, so are the answers. *)
LEMMA AnswersSame ==
  ASSUME AnswersInv, Sound' => Sound, UNCHANGED <<vars, verb, at, waiting>>
  PROVE  AnswersInv'
<1>1. /\ UNCHANGED <<toDev, toHost, rounds, inbuf, stale, pc, call, step, got, result, pure>>
      /\ UNCHANGED <<verb, at, waiting>>
  BY DEF vars, readerVars, hostVars
<1>2. Now' = Now /\ (InProgram' <=> InProgram)
  BY <1>1, NowSame, SameOperation
<1>3. (Settled' <=> Settled) /\ (Ahead' <=> Ahead) /\ (HasReturned' <=> HasReturned)
      /\ OnLine' = OnLine
  BY <1>1, <1>2 DEF Settled, Quiet, Ahead, HasReturned, OnLine
<1>4. OnlyItsOwn => OnlyItsOwn'
  BY <1>1, <1>2, <1>3 DEF OnlyItsOwn
<1>5. NothingStale => NothingStale'
  BY <1>1, <1>3 DEF NothingStale
<1>6. InfoInOrder => InfoInOrder'
  BY <1>1, <1>2, <1>3 DEF InfoInOrder
<1>7. OkHasRead => OkHasRead'
  BY <1>1, <1>3 DEF OkHasRead
<1> QED
  BY <1>1, <1>4, <1>5, <1>6, <1>7 DEF AnswersInv

(* The command's own steps. An operation that did not return Ok is passed  *)
(* over only by Info, at its third and fourth operation.                   *)
LEMMA AnswersRun ==
  ASSUME StopInv, AnswersInv,
         CallOp \/ LeaveLoop \/ Advance \/ Again \/ Finish \/ Fail \/ CtrlC \/ Killed
         \/ \E v \in Verbs : Connect(v)
  PROVE  AnswersInv'
<1>1. /\ SessionTypeOK /\ Following /\ faults' = faults /\ (Sound' <=> Sound)
      /\ Sound => (call.name \notin StopCalls => pure)
  BY DEF StopInv, AnswersInv, Sound, CallOp, LeaveLoop, Advance, Again, Finish, Fail, Exit,
     CtrlC, Killed, Connect
<1>2. ASSUME InProgram, Current.mode = "while" PROVE verb = "Scan"
  BY <1>1, <1>2, AtOperation DEF Shape, Current
<1>3. CASE CallOp
  <2>1. /\ UNCHANGED <<readerVars, inbuf, stale, verb, at>> /\ pc' = "send" /\ pure' = TRUE
        /\ InProgram /\ ~waiting
    BY <1>3 DEF CallOp, Invoke
  <2>2. Ahead
    BY <2>1 DEF Ahead
  <2>3. /\ Sound /\ verb' # "Scan" /\ Ahead' /\ ~stale => Settled
        /\ Sound /\ verb' = "Info" /\ at' = 3 /\ Ahead' => Settled
    BY <2>1, <2>2 DEF AnswersInv, NothingStale, InfoInOrder
  <2> QED
    BY <1>1, <2>1, <2>3, AnswersForward
<1>4. CASE LeaveLoop
  <2>1. verb' = "Scan" /\ UNCHANGED <<call, pure>>
    BY <1>2, <1>4 DEF LeaveLoop, vars, hostVars
  <2> QED
    BY <1>1, <2>1, AnswersElsewhere
<1>5. CASE Advance
  <2>1. /\ HasReturned /\ UNCHANGED <<vars, verb>> /\ at' = at + 1 /\ waiting' = FALSE
        /\ result.status = "Ok" \/ Current.mode = "may"
    BY <1>5 DEF Advance
  <2>2. /\ UNCHANGED <<readerVars, inbuf, stale, pc, call, pure>> /\ pc = "idle" /\ waiting
    BY <2>1 DEF vars, hostVars, HasReturned
  <2>3. at \in 1..Len(Program(verb)) /\ Shape(verb, Program(verb)) /\ Current = Program(verb)[at]
    BY <1>1, <2>2, InCall
  <2>4. ASSUME Sound, verb # "Scan", Ahead', ~stale PROVE Settled
    <3>1. ~(result.status = "Ok")
      BY <2>1, <2>4 DEF AnswersInv, OkHasRead
    <3>2. verb = "Info" /\ at \in 3..4
      BY <2>1, <2>3, <2>4, <3>1 DEF Shape
    <3>3. at' <= 4
      BY <2>1, <2>3, <2>4, <3>2 DEF Ahead, InProgram, Shape
    <3>4. at = 3
      BY <2>1, <3>2, <3>3
    <3> QED
      BY <2>1, <2>4, <3>2, <3>4 DEF AnswersInv, InfoInOrder
  <2>5. ASSUME Sound, verb = "Info", at' = 3 PROVE Settled
    <3>1. at = 2
      BY <2>1, <2>3, <2>5
    <3>2. result.status = "Ok"
      BY <2>1, <2>3, <2>5, <3>1 DEF Shape
    <3> QED
      BY <2>1, <2>5, <3>1, <3>2 DEF AnswersInv, InfoInOrder
  <2> QED
    BY <1>1, <2>1, <2>2, <2>4, <2>5, AnswersForward
<1>6. CASE Again
  <2>1. /\ HasReturned /\ UNCHANGED <<vars, verb, at>> /\ waiting' = FALSE
        /\ Current.mode = "while" \/ (Current.mode = "until" /\ result.status = "Ok")
    BY <1>6 DEF Again
  <2>2. /\ UNCHANGED <<readerVars, inbuf, stale, pc, call, pure>> /\ pc = "idle" /\ waiting
    BY <2>1 DEF vars, hostVars, HasReturned
  <2>3. InProgram /\ Shape(verb, Program(verb)) /\ Current = Program(verb)[at]
        /\ at \in 1..Len(Program(verb))
    BY <1>1, <2>2, InCall
  <2>4. CASE verb = "Scan"
    BY <1>1, <2>1, <2>2, <2>4, AnswersElsewhere
  <2>5. CASE verb # "Scan"
    <3>1. result.status = "Ok" /\ Current.mode = "until"
      BY <1>2, <2>1, <2>3, <2>5
    <3>2. verb # "Info"
      <4>1. verb = "Info" => at \in {1, 2, 3, 4}
        BY <2>3 DEF Shape
      <4> QED
        BY <2>3, <3>1, <4>1 DEF Shape
    <3>3. Sound => stale
      BY <2>1, <2>5, <3>1 DEF AnswersInv, OkHasRead
    <3> QED
      BY <1>1, <2>1, <2>2, <3>2, <3>3, AnswersForward
  <2> QED
    BY <2>4, <2>5
<1>7. CASE Finish \/ Fail
  <2>1. verb' = "none" /\ UNCHANGED <<pc, call, pure>>
    BY <1>7, EndIs DEF Exit, hostVars
  <2>2. pc = "idle"
    BY <1>1, <1>7, EndIs DEF HasReturned, SessionTypeOK, Following
  <2> QED
    BY <1>1, <2>1, <2>2, AnswersElsewhere
<1>8. CASE CtrlC
  BY <1>1, <1>8, AnswersElsewhere DEF CtrlC, vars, hostVars
<1>9. CASE Killed
  BY <1>1, <1>9, AnswersElsewhere DEF Killed
<1>10. CASE \E v \in Verbs : Connect(v)
  <2>1. PICK v \in Verbs : Connect(v)
    BY <1>10
  <2>2. /\ ~waiting /\ pc = "idle" /\ stale' = TRUE /\ at' = 1
        /\ UNCHANGED <<waiting, pc, call, pure>>
    BY <1>1, <2>1 DEF Connect, SessionTypeOK, InProgram, Following
  <2>3. OnlyItsOwn' /\ NothingStale' /\ InfoInOrder' /\ OkHasRead'
    BY <2>2 DEF OnlyItsOwn, NothingStale, InfoInOrder, OkHasRead, HasReturned
  <2> QED
    BY <1>1, <2>2, <2>3 DEF AnswersInv
<1> QED
  BY <1>3, <1>4, <1>5, <1>6, <1>7, <1>8, <1>9, <1>10

(* The exchanges of a command's operations: only a scan starts polling or  *)
(* stops it; those of Info are answered by one packet each.                *)
LEMMA Asking ==
  ASSUME StopInv, pc # "idle"
  PROVE  /\ waiting /\ InProgram /\ verb \in Verbs
         /\ verb # "Scan" => /\ Now.cmd \notin {StopCmd, "MultiplePollingInstruction"}
                             /\ Now.expect # 0 /\ call.name \notin StopCalls
         /\ verb = "Scan" /\ call.name \notin StopCalls => Now.cmd = "MultiplePollingInstruction"
         /\ verb = "Info" =>
              /\ Now.expect = 1 /\ Now.cmd \notin PollCmds
              /\ at \in {2, 3} => Now.cmd \in {"GetWorkingChannel", "GetWorkingArea"}
                                  /\ call.name # "get_module_info"
<1>1. SessionTypeOK /\ Following /\ TypeOK /\ waiting
  BY DEF StopInv, SessionTypeOK, Following
<1>2. /\ InProgram /\ verb \in Verbs /\ at \in 1..Len(Program(verb))
      /\ Shape(verb, Program(verb)) /\ call.name = Program(verb)[at].name
  BY <1>1, InCall
<1>3. Fits(call, Now)
  BY <1>1, NowFits
<1>4. ASSUME verb # "Scan"
      PROVE  /\ Now.cmd \notin {StopCmd, "MultiplePollingInstruction"}
             /\ Now.expect # 0 /\ call.name \notin StopCalls
  <2>1. call.name \notin StopCalls \cup Polls
    BY <1>2, <1>4 DEF Shape
  <2> QED
    BY <1>3, <2>1 DEF Fits, Polls
<1>5. ASSUME verb = "Scan", call.name \notin StopCalls
      PROVE  Now.cmd = "MultiplePollingInstruction"
  <2>1. at \in {1, 2}
    BY <1>2, <1>5 DEF Shape
  <2>2. call.name = "multi_polling_instruction"
    BY <1>2, <1>5, <2>1 DEF Shape, StopCalls
  <2> QED
    BY <1>3, <2>2 DEF Fits, Polls
<1>6. ASSUME verb = "Info"
      PROVE  /\ Now.expect = 1 /\ Now.cmd \notin PollCmds
             /\ at \in {2, 3} => Now.cmd \in {"GetWorkingChannel", "GetWorkingArea"}
                                 /\ call.name # "get_module_info"
  <2>1. at \in {1, 2, 3, 4}
    BY <1>2, <1>6 DEF Shape
  <2>2. /\ call.name \in {"get_module_info", "get_working_area", "get_working_channel",
                           "get_transmit_power"}
        /\ at = 2 => call.name = "get_working_area"
        /\ at = 3 => call.name = "get_working_channel"
    BY <1>2, <1>6, <2>1 DEF Shape
  <2>3. Now.expect = 1 /\ Now.cmd \notin PollCmds
    BY <1>3, <2>2 DEF Fits, Expected, StopCalls, Polls, PollCmds
  <2>4. ASSUME at \in {2, 3} PROVE Now.cmd \in {"GetWorkingChannel", "GetWorkingArea"}
    <3>1. /\ call.name = "get_working_area" => Script(call) = <<Ask("GetWorkingArea")>>
          /\ call.name = "get_working_channel" =>
               Script(call) = <<Ask("GetWorkingChannel"), Ask("GetWorkingArea")>>
      BY ScriptOf
    <3>2. step \in 1..Len(Script(call))
      BY <1>1 DEF TypeOK
    <3>3. Now \in {Ask("GetWorkingChannel"), Ask("GetWorkingArea")}
      BY <2>2, <2>4, <3>1, <3>2 DEF Now
    <3> QED
      BY <3>3 DEF Ask, Exchange
  <2> QED
    BY <2>2, <2>3, <2>4
<1> QED
  BY <1>1, <1>2, <1>4, <1>5, <1>6

(* The reader and the line go on.                                          *)
LEMMA AnswersReader ==
  ASSUME StopInv, AnswersInv, Sound' => Sound,
         Arrive \/ (ReaderStep /\ UNCHANGED <<inbuf, hostVars>>),
         UNCHANGED <<verb, at, waiting>>
  PROVE  AnswersInv'
<1>1. /\ toDev \in Seq(Requests) /\ toHost \in Seq(Frames) /\ inbuf \in Seq(Frames)
      /\ ReaderTypeOK /\ rounds \in Nat
  BY ReaderAssumption DEF StopInv, SessionTypeOK, TypeOK, ReaderTypeOK
<1>2. UNCHANGED <<stale, pc, call, step, got, result, pure>>
  BY DEF Arrive, hostVars
<1>3. Now' = Now /\ (InProgram' <=> InProgram)
  BY <1>2, NowSame, SameOperation
<1>4. ~Settled
  BY DEF Settled, Quiet, Arrive, ReaderStep, Refuse, CarryOut, PollRound, LoseRequest, LoseFrame
<1>5. (Ahead' <=> Ahead) /\ (HasReturned' <=> HasReturned)
  BY <1>2, <1>3 DEF Ahead, HasReturned
<1>6. Sound => (call'.name \notin StopCalls => pure') /\ NothingStale' /\ OkHasRead'
  BY <1>2, <1>4, <1>5 DEF AnswersInv, NothingStale, OkHasRead
<1>7. ASSUME Sound, pc = "read", verb # "Scan"
      PROVE  /\ rounds' = 0 /\ \A f \in OnLine' : f.own
             /\ \A r \in On(toDev') : r.own /\ r.cmd = Now.cmd
             /\ verb = "Info" /\ Len(toDev) + Len(toHost) + Len(inbuf) <= 1 =>
                  Len(toDev') + Len(toHost') + Len(inbuf') <= 1
  <2>1. /\ rounds = 0 /\ \A f \in OnLine : f.own
        /\ \A r \in On(toDev) : r.own /\ r.cmd = Now.cmd
    BY <1>7 DEF AnswersInv, OnlyItsOwn
  <2>2. On(got') = On(got)
    BY <1>2
  <2>3. CASE Arrive
    <3>1. /\ toHost # <<>> /\ toHost' = Tail(toHost) /\ UNCHANGED <<toDev, rounds>>
          /\ inbuf' = inbuf \/ inbuf' = Append(inbuf, Head(toHost))
      BY <2>3 DEF Arrive
    <3>2. /\ On(toHost') \subseteq On(toHost) /\ Head(toHost) \in On(toHost)
          /\ Head(toHost) \in Frames
      <4>1. Head(toHost) \in Frames
        BY <1>1, <3>1
      <4> QED
        BY <1>1, <3>1, <4>1, OnTail
    <3>3. On(inbuf') \subseteq On(inbuf) \cup On(toHost)
      <4>1. On(Append(inbuf, Head(toHost))) = On(inbuf) \cup {Head(toHost)}
        BY <1>1, <3>2, OnAppend
      <4> QED
        BY <3>1, <3>2, <4>1
    <3>4. Len(toHost') = Len(toHost) - 1 /\ Len(inbuf') \in {Len(inbuf), Len(inbuf) + 1}
      BY <1>1, <3>1
    <3> QED
      BY <1>1, <2>1, <2>2, <3>1, <3>2, <3>3, <3>4 DEF OnLine
  <2>4. CASE PollRound /\ UNCHANGED <<inbuf, hostVars>>
    BY <2>1, <2>4 DEF PollRound
  <2>5. CASE LoseRequest /\ UNCHANGED <<inbuf, hostVars>>
    <3>1. toDev # <<>> /\ toDev' = Tail(toDev) /\ UNCHANGED <<toHost, inbuf, rounds>>
      BY <2>5 DEF LoseRequest
    <3>2. On(toDev') \subseteq On(toDev) /\ Len(toDev') = Len(toDev) - 1
      BY <1>1, <3>1, OnTail
    <3> QED
      BY <1>1, <2>1, <2>2, <3>1, <3>2 DEF OnLine
  <2>6. CASE LoseFrame /\ UNCHANGED <<inbuf, hostVars>>
    <3>1. toHost # <<>> /\ toHost' = Tail(toHost) /\ UNCHANGED <<toDev, inbuf, rounds>>
      BY <2>6 DEF LoseFrame
    <3>2. On(toHost') \subseteq On(toHost) /\ Len(toHost') = Len(toHost) - 1
      BY <1>1, <3>1, OnTail
    <3> QED
      BY <1>1, <2>1, <2>2, <3>1, <3>2 DEF OnLine
  <2>7. CASE (Refuse \/ CarryOut) /\ UNCHANGED <<inbuf, hostVars>>
    <3> DEFINE r == Head(toDev)
    <3>1. PICK new \in Seq(Frames) : /\ toDev # <<>> /\ toDev' = Tail(toDev)
                                     /\ toHost' = toHost \o new /\ Answers(r, new)
      BY <1>1, <2>7, ReaderAnswers
    <3>2. /\ On(toDev') \subseteq On(toDev) /\ r \in On(toDev) /\ Len(toDev') = Len(toDev) - 1
      BY <1>1, <3>1, OnTail
    <3> HIDE DEF r
    <3>3. On(toHost') = On(toHost) \cup On(new) /\ Len(toHost') = Len(toHost) + Len(new)
      BY <1>1, <3>1, OnConcat
    <3>4. r.own /\ r.cmd = Now.cmd
      BY <2>1, <3>2
    <3>5. \A f \in On(new) : f.own
      BY <3>1, <3>4 DEF Answers
    <3>6. rounds' = 0
      <4>1. r.cmd # "MultiplePollingInstruction"
        BY <1>7, <3>4, Asking
      <4> QED
        BY <2>1, <3>1, <4>1 DEF Answers
    <3>7. verb = "Info" => Len(new) = 1
      <4>1. verb = "Info" => r.cmd \notin PollCmds
        BY <1>7, <3>4, Asking
      <4> QED
        BY <3>1, <4>1 DEF Answers
    <3>8. On(inbuf') = On(inbuf) /\ Len(inbuf') = Len(inbuf)
      BY <2>7
    <3> QED
      BY <1>1, <2>1, <2>2, <3>2, <3>3, <3>5, <3>6, <3>7, <3>8 DEF OnLine
  <2> QED
    BY <2>3, <2>4, <2>5, <2>6, <2>7 DEF ReaderStep
<1>8. Sound => OnlyItsOwn'
  BY <1>2, <1>3, <1>7 DEF OnlyItsOwn
<1>9. Sound => InfoInOrder'
  BY <1>2, <1>3, <1>4, <1>5, <1>7 DEF AnswersInv, InfoInOrder
<1> QED
  BY <1>6, <1>8, <1>9 DEF AnswersInv

(* A request goes out on a line on which nothing is left: it is all that   *)
(* there is.                                                               *)
LEMMA AnswersSend ==
  ASSUME Line = "settles", StopInv, AnswersInv, Send, faults' = faults,
         UNCHANGED <<verb, at, waiting>>
  PROVE  AnswersInv'
<1>1. /\ SessionTypeOK /\ TypeOK /\ pc = "send" /\ Quiet /\ Write(TRUE)
      /\ UNCHANGED <<call, step>> /\ pc' = IF Now.expect = 0 THEN "idle" ELSE "read"
      /\ (Sound' <=> Sound)
  BY DEF StopInv, SessionTypeOK, Send, MaySend, Return, Sound
<1>2. pure' = pure
  BY <1>1, WriteIs
<1>3. CASE verb = "Scan"
  BY <1>1, <1>2, <1>3, AnswersElsewhere DEF AnswersInv
<1>4. CASE verb # "Scan"
  <2>1. /\ waiting /\ InProgram /\ pc' = "read" /\ Now' = Now
        /\ verb = "Info" => Now.expect = 1
    BY <1>1, <1>4, Asking, NowSame
  <2>2. ASSUME Sound
        PROVE  /\ rounds' = 0 /\ toHost' = <<>> /\ inbuf' = <<>> /\ got' = <<>>
               /\ Len(toDev') = 1 /\ \A r \in On(toDev') : r.own /\ r.cmd = Now.cmd
    <3>1. rounds = 0
      BY <1>1, <1>4, <2>2, BackupStops DEF Sound, LeavesNoPolling, Quiet
    <3>2. Input = <<>>
      <4>1. CASE stale
        BY <4>1, CliAssumption DEF Input
      <4>2. CASE ~stale
        <5>1. Settled
          BY <1>1, <1>4, <2>1, <2>2, <4>2 DEF AnswersInv, NothingStale, Ahead
        <5> QED
          BY <4>2, <5>1 DEF Input, Settled
      <4> QED
        BY <4>1, <4>2
    <3>3. PICK r \in Requests : r.cmd = Now.cmd /\ r.own /\ toDev' = Append(Disown(toDev), r)
      BY <1>1, WriteIs
    <3>4. Disown(<<>>) = <<>> /\ <<>> \in Seq(Requests)
      BY DEF Disown
    <3>5. toDev' = Append(<<>>, r)
      BY <1>1, <3>3, <3>4 DEF Quiet
    <3>6. Len(toDev') = 1 /\ On(toDev') = {r}
      <4>1. On(Append(<<>>, r)) = {r}
        BY <3>3 DEF On
      <4>2. Len(Append(<<>>, r)) = 1
        BY <3>3, <3>4
      <4> QED
        BY <3>5, <4>1, <4>2
    <3> QED
      BY <1>1, <3>1, <3>2, <3>3, <3>4, <3>6, WriteIs DEF Quiet
  <2>3. ~Ahead' /\ ~HasReturned'
    BY <2>1 DEF Ahead, HasReturned
  <2>4. ASSUME Sound PROVE OnlyItsOwn'
    <3>1. OnLine' = {}
      BY <2>2, <2>4, OnEmpty DEF OnLine
    <3>2. rounds' = 0 /\ \A r \in On(toDev') : r.own /\ r.cmd = Now'.cmd
      BY <2>1, <2>2, <2>4
    <3> QED
      BY <3>1, <3>2 DEF OnlyItsOwn
  <2>5. ASSUME Sound PROVE InfoInOrder'
    <3>1. Len(toDev') + Len(toHost') + Len(inbuf') = 1
      BY <2>2, <2>5
    <3>2. verb' = "Info" => Now'.expect = 1
      BY <2>1
    <3> QED
      BY <2>3, <3>1, <3>2 DEF InfoInOrder
  <2>6. NothingStale' /\ OkHasRead'
    BY <2>3 DEF NothingStale, OkHasRead
  <2> QED
    BY <1>1, <1>2, <2>4, <2>5, <2>6 DEF AnswersInv
<1> QED
  BY <1>3, <1>4

(* The input is not cleared, and nothing has been sent: the operation      *)
(* fails. What Info asks for next meets nothing, as this would not have.   *)
LEMMA AnswersClearFails ==
  ASSUME StopInv, AnswersInv, ClearFails, Sound' => Sound, UNCHANGED <<verb, at, waiting>>
  PROVE  AnswersInv'
<1>1. /\ pc = "send" /\ pc' = "idle" /\ UNCHANGED <<readerVars, inbuf, call, pure>>
      /\ result'.status = IF call.name = "setup_reader" THEN "Ok" ELSE "Io"
  BY DEF ClearFails
<1>2. waiting /\ InProgram /\ (verb # "Scan" => call.name \notin StopCalls)
  BY <1>1, Asking
<1>3. verb # "Scan" => result'.status # "Ok"
  BY <1>1, <1>2 DEF StopCalls
<1>4. ~Ahead' /\ (Settled => Settled')
  BY <1>1, <1>2 DEF Ahead, Settled, Quiet, readerVars
<1>5. OnlyItsOwn' /\ NothingStale' /\ OkHasRead'
  BY <1>1, <1>3, <1>4 DEF OnlyItsOwn, NothingStale, OkHasRead
<1>6. Sound => InfoInOrder'
  <2>1. verb = "Info" /\ at = 3 /\ Sound => Settled
    BY <1>1, <1>2 DEF AnswersInv, InfoInOrder, Ahead
  <2> QED
    BY <1>1, <1>3, <1>4, <2>1 DEF InfoInOrder
<1> QED
  BY <1>1, <1>5, <1>6 DEF AnswersInv

(* A read ends: the packets it used answer the request, and if Info takes  *)
(* what its second or third operation got for an answer, it was all there  *)
(* was.                                                                    *)
LEMMA AnswersEnds ==
  ASSUME StopInv, AnswersInv, pc = "read", stale' = TRUE, UNCHANGED readerVars,
         faults' = faults, UNCHANGED <<verb, at, waiting>>,
         NEW kind \in ReadKinds, NEW packets \in Seq(Frames), Ends(kind, packets),
         On(packets) \subseteq OnLine, inbuf' \in Seq(Frames),
         kind = "Packets" /\ Now.expect = 1 => Len(inbuf') < Len(inbuf)
  PROVE  AnswersInv'
<1>1. PICK val : Conclude(Answer(Now.cmd, kind, packets), val)
  BY DEF Ends
<1>2. /\ SessionTypeOK /\ TypeOK /\ Reading /\ waiting /\ InProgram /\ verb \in Verbs
      /\ (Sound' <=> Sound)
  BY Asking DEF StopInv, SessionTypeOK, Sound
<1>3. call' = call /\ pc' \in {"send", "idle"}
  BY <1>2, EndsIs
<1>4. ASSUME Sound, call.name \notin StopCalls PROVE pure'
  <2>1. pure /\ Now.cmd # StopCmd
    BY <1>2, <1>4, NowFits DEF AnswersInv, Fits
  <2>2. CASE verb = "Scan"
    <3>1. Now.cmd = "MultiplePollingInstruction" /\ Now.cmd # "SinglePollingInstruction"
      BY <1>4, <2>2, Asking
    <3> QED
      BY <2>1, <3>1 DEF Ends, Belongs
  <2>3. CASE verb # "Scan"
    <3>1. \A f \in On(packets) : f.own
      BY <1>4, <2>3 DEF AnswersInv, OnlyItsOwn
    <3>2. \A i \in 1..Len(packets) : packets[i].own
      BY <3>1 DEF On
    <3>3. Belongs(Now.cmd, packets)
      BY <2>1, <3>2 DEF Belongs
    <3> QED
      BY <2>1, <3>3 DEF Ends
  <2> QED
    BY <2>2, <2>3
<1>5. OnlyItsOwn' /\ NothingStale' /\ OkHasRead'
  BY <1>3 DEF OnlyItsOwn, NothingStale, OkHasRead
<1>6. ASSUME Sound, verb = "Info", at \in {2, 3}, Answer(Now.cmd, kind, packets) = "Ok"
      PROVE  Settled'
  <2>1. /\ Now.expect = 1 /\ Now.cmd \in {"GetWorkingChannel", "GetWorkingArea"}
        /\ verb # "Scan"
    BY <1>6, Asking
  <2>2. kind = "Packets"
    BY <1>6, <2>1 DEF Answer, ReadKinds, StopCmd, PollCmds, InfoCmds
  <2>3. Len(toDev) + Len(toHost) + Len(inbuf) <= 1 /\ rounds = 0
    BY <1>6, <2>1 DEF AnswersInv, InfoInOrder, OnlyItsOwn
  <2>4. toDev \in Seq(Requests) /\ toHost \in Seq(Frames) /\ inbuf \in Seq(Frames)
    BY <1>2 DEF TypeOK, ReaderTypeOK
  <2> QED
    BY <2>1, <2>2, <2>3, <2>4 DEF Settled, Quiet, readerVars
<1>7. ASSUME Sound, verb = "Info" PROVE InfoInOrder'
  <2>1. at \in {2, 3} => call.name \notin {"get_module_info"} \cup StopCalls
    BY <1>7, Asking
  <2>2. ASSUME at \in {2, 3}, pc' = "send" \/ result'.status = "Ok"
        PROVE  Answer(Now.cmd, kind, packets) = "Ok"
    <3>1. failed = "none" /\ call.name # "setup_reader"
      BY <1>2, <2>1, <2>2 DEF Reading, StopCalls
    <3> QED
      BY <1>1, <2>1, <2>2, <3>1, ConcludeIs DEF GoesOn
  <2>3. ASSUME at = 3, Ahead' PROVE Settled'
    <3>1. pc' = "send"
      BY <1>2, <2>3 DEF Ahead
    <3> QED
      BY <1>6, <1>7, <2>2, <2>3, <3>1
  <2>4. ASSUME at = 2, result'.status = "Ok" PROVE Settled'
    BY <1>6, <1>7, <2>2, <2>4
  <2> QED
    BY <1>3, <2>3, <2>4 DEF InfoInOrder
<1>8. Sound => InfoInOrder'
  BY <1>7 DEF InfoInOrder
<1> QED
  BY <1>2, <1>3, <1>4, <1>5, <1>8 DEF AnswersInv

(* A read goes on with a part of what it waits for, which a read of Info   *)
(* never does.                                                             *)
LEMMA AnswersPart ==
  ASSUME StopInv, AnswersInv, pc = "read", stale' = TRUE, UNCHANGED readerVars,
         faults' = faults, UNCHANGED <<verb, at, waiting, pc, call, step, result, pure>>,
         On(inbuf') \subseteq On(inbuf), On(got') \subseteq OnLine, Now.expect > 1
  PROVE  AnswersInv'
<1>1. /\ Now' = Now /\ (Sound' <=> Sound) /\ UNCHANGED <<rounds, toDev, toHost>>
  BY NowSame DEF Sound, readerVars
<1>2. OnLine' \subseteq OnLine
  BY <1>1 DEF OnLine
<1>3. Sound => OnlyItsOwn'
  BY <1>1, <1>2 DEF AnswersInv, OnlyItsOwn
<1>4. verb # "Info"
  BY Asking
<1>5. NothingStale' /\ OkHasRead' /\ InfoInOrder'
  BY <1>4 DEF NothingStale, OkHasRead, InfoInOrder
<1> QED
  BY <1>1, <1>3, <1>5 DEF AnswersInv

(* The connector goes on, and nothing fails.                               *)
LEMMA AnswersFaultless ==
  ASSUME Line = "settles", StopInv, AnswersInv, Faultless
  PROVE  AnswersInv'
<1>1. /\ UNCHANGED <<verb, at, waiting>> /\ faults' = faults /\ (Sound' <=> Sound)
      /\ TypeOK /\ Reading
  BY DEF Faultless, sessionVars, Sound, StopInv, SessionTypeOK
<1>2. inbuf' \in Seq(Frames)
  BY ConnectorSteps DEF StopInv, TypeOK
<1>3. CASE Arrive \/ (ReaderStep /\ UNCHANGED <<inbuf, hostVars>>)
  BY <1>1, <1>3, AnswersReader
<1>4. CASE Send
  BY <1>1, <1>4, AnswersSend
<1>5. CASE Receive
  <2>1. /\ pc = "read" /\ stale' = TRUE /\ UNCHANGED readerVars
        /\ On(inbuf') \subseteq On(inbuf) /\ Len(inbuf') < Len(inbuf)
    BY <1>1, <1>5, ReceiveReads
  <2>2. CASE /\ UNCHANGED <<pc, call, step, failed, result, pure>>
             /\ Now.expect > 1 /\ Len(got') < Now.expect /\ On(got') \subseteq OnLine
    BY <1>1, <2>1, <2>2, AnswersPart
  <2>3. CASE \E packets \in Seq(Frames) :
               Ends("Packets", packets) /\ packets # <<>> /\ On(packets) \subseteq OnLine
    BY <1>1, <1>2, <2>1, <2>3, AnswersEnds DEF ReadKinds
  <2> QED
    BY <1>1, <1>5, <2>2, <2>3, ReceiveReads
<1>6. CASE TimedOut \/ Eof \/ ReadError
  <2>1. pc = "read" /\ stale' = TRUE /\ UNCHANGED readerVars /\ inbuf' = inbuf
    BY <1>1, <1>6, EndsWithout
  <2>2. PICK kind \in ReadKinds, packets \in Seq(Frames) :
          /\ Ends(kind, packets) /\ On(packets) \subseteq OnLine
          /\ kind = "Packets" => packets # <<>> /\ Now.expect > 1
    BY <1>1, <1>6, EndsWithout
  <2>3. kind = "Packets" /\ Now.expect = 1 => Len(inbuf') < Len(inbuf)
    BY <2>2
  <2> QED
    BY <1>1, <1>2, <2>1, <2>2, <2>3, AnswersEnds
<1> QED
  BY <1>3, <1>4, <1>5, <1>6 DEF Faultless, ReaderStep

(* Every step of a session keeps AnswersInv, where what is under way       *)
(* arrives before the next request is sent.                                *)
LEMMA AnswersStep ==
  Line = "settles" /\ StopInv /\ AnswersInv /\ [SessionNext]_allVars => AnswersInv'
<1> SUFFICES ASSUME Line = "settles", StopInv, AnswersInv, [SessionNext]_allVars
             PROVE  AnswersInv'
  OBVIOUS
<1>1. CASE \/ CallOp \/ LeaveLoop \/ Advance \/ Again \/ Finish \/ Fail \/ CtrlC \/ Killed
           \/ \E v \in Verbs : Connect(v)
  BY <1>1, AnswersRun
<1>2. CASE Faultless
  BY <1>2, AnswersFaultless
<1>3. ASSUME NEW kind \in FaultKinds, Fault(kind) PROVE AnswersInv'
  <2>1. /\ SessionTypeOK /\ UNCHANGED <<verb, at, waiting>>
        /\ Sound' => Sound /\ (ClearFails \/ UNCHANGED <<inbuf, hostVars>>)
    BY <1>3, FaultIs DEF StopInv
  <2>2. CASE ~Sound'
    BY <2>2 DEF AnswersInv
  <2>3. CASE Sound' /\ ClearFails
    BY <2>1, <2>3, AnswersClearFails
  <2>4. CASE Sound' /\ ~ClearFails
    <3>1. CASE (LoseRequest \/ LoseFrame \/ Refuse) /\ UNCHANGED <<inbuf, hostVars>>
      BY <2>1, <2>4, <3>1, AnswersReader DEF ReaderStep
    <3>2. ~SendFails
      BY <2>1, <2>4 DEF SendFails, hostVars
    <3> QED
      BY <1>3, <2>1, <2>4, <3>1, <3>2, FaultIs
  <2> QED
    BY <2>2, <2>3, <2>4
<1>4. CASE UNCHANGED allVars
  <2>1. UNCHANGED <<vars, verb, at, waiting, faults>>
    BY <1>4 DEF allVars, sessionVars
  <2> QED
    BY <2>1, AnswersSame DEF Sound
<1> QED
  BY <1>1, <1>2, <1>3, <1>4 DEF SessionNext

(* No process has asked for anything yet.                                  *)
LEMMA AnswersStart == SessionInit => AnswersInv
<1> SUFFICES ASSUME SessionInit PROVE AnswersInv
  OBVIOUS
<1>1. ~waiting /\ verb = "none" /\ pc = "idle" /\ pure
  BY SessionStarts
<1> QED
  BY <1>1 DEF AnswersInv, OnlyItsOwn, NothingStale, InfoInOrder, OkHasRead, Ahead, InProgram,
     HasReturned

(* No command takes an answer that was meant for another one, for an       *)
(* earlier process or for its own request of before, for any set of        *)
(* commands: if what is under way arrives before the next request is sent, *)
(* and no more than one request, answer, clear or stop has failed so far.  *)
(* Where a request is sent but the flush after it fails, Info goes on      *)
(* without a clear and may take what the request got for an answer.        *)
THEOREM CommandsTakeTheirAnswers ==
  ASSUME Line = "settles"
  PROVE  SessionSpec => [](Len(faults) <= 1 => CommandsGetTheirAnswers)
<1>1. StopInv /\ AnswersInv /\ [SessionNext]_allVars => StopInv' /\ AnswersInv'
  BY StopStep, AnswersStep
<1>2. SessionInit => StopInv /\ AnswersInv
  BY SessionStarts, AnswersStart
<1>3. AnswersInv => (Len(faults) <= 1 => CommandsGetTheirAnswers)
  BY DEF AnswersInv, Sound, CommandsGetTheirAnswers
<1> QED
  BY <1>1, <1>2, <1>3, PTL DEF SessionSpec
=============================================================================
