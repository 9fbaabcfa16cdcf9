-------------------------- MODULE PromptLineProofs --------------------------
(***************************************************************************)
(* What the operations of the connector promise on a port that answers     *)
(* within its timeout: SyncIO and AsyncIO alike, with futures that are     *)
(* dropped, a line that may lose anything, and no flush of the input.      *)
(***************************************************************************)
EXTENDS ConnectorProofs

(* What a round, rounds, a request and requests may put on the line; what  *)
(* a read may find there.                                                  *)
PerRound     == MaxTags + 1
Rounds(n)    == n * PerRound
PerRequest   == PerRound + Rounds(PollRounds)
Taking(n)    == n * PerRequest
Room         == 2 * MaxLine + MaxTags + Rounds(PollRounds) + Taking(MaxLine)

(* A read times out only when nothing is under way, the port's calls do    *)
(* not fail, the client stops multi-polling where it has to, and a read of *)
(* read_from_serial(None) is never full: the 100000 packets it waits for   *)
(* are more than can be under way.                                         *)
OnPromptLine == Line = "prompt" /\ Faults = {} /\ Careful /\ Many > Room

(* The frames on the line, those still to be sent, and both.              *)
Held   == Len(toHost) + Len(inbuf) + Len(got)
Due    == Rounds(rounds) + Taking(Len(toDev))
ToCome == Held + Due

Bounded ==
  /\ Len(toDev) <= MaxLine /\ Len(toHost) <= MaxLine + MaxTags
  /\ pc = "read" => ToCome <= Room

(* A client that is polling, or that dropped a call, stops before anything *)
(* else.                                                                   *)
SetCalls == {"set_transmission_power", "set_working_area"} \cup Selects

ClientStops ==
  /\ pc # "idle" /\ call.name \notin StopCalls =>
       owed = 0 /\ (call.name # "multi_polling_instruction" => ~polled)
  /\ pc = "read" /\ call.name = "multi_polling_instruction" => polled
  /\ Returned(SetCalls) => ~polled /\ owed = 0
  /\ Returned({"stop_multiple_polling_instructions"}) => ~polled
  /\ owed <= 1

(* Otherwise nothing is left of the calls before.                          *)
Clean == pc # "read" /\ ~polled /\ owed = 0 => rounds = 0 /\ Quiet /\ inbuf = <<>>

(* Whatever is sent after a stop is a stop.                                *)
StopsLast(s) == \A i, j \in 1..Len(s) : i < j /\ s[i].cmd = StopCmd => s[j].cmd = StopCmd

(* An acknowledgement on the line tells that polling is over, and only a   *)
(* client that owes a stop, or is at one, can meet it.                     *)
AcksEnd ==
  /\ StopsLast(toDev)
  /\ ~polled => NotPolling
  /\ \A f \in OnLine : Ack(f) => NotPolling
  /\ owed = 0 /\ ~(pc = "read" /\ call.name \in StopCalls) =>
       /\ \A f \in OnLine : ~Ack(f)
       /\ \A r \in On(toDev) : r.cmd # StopCmd

(* Any other call meets the answer to its request, and nothing else.       *)
Asks(c) == c.name \notin StopCalls \cup {"multi_polling_instruction"}

Meets ==
  /\ pc = "read" /\ Asks(call) =>
       /\ rounds = 0
       /\ \A f \in OnLine : IsAnswer(f, Now.cmd)
       /\ \A r \in On(toDev) : r.own /\ r.cmd = Now.cmd /\ r.arg = Now.arg
       /\ Len(toDev) <= 1
       /\ toDev # <<>> => Held = 0
       /\ Now.cmd # "SinglePollingInstruction" => Held <= 1
  /\ call.name \notin StopCalls => pure

LineInv ==
  /\ OnPromptLine
  /\ TypeOK
  /\ InScript /\ Bounded /\ ClientStops /\ Clean /\ AcksEnd /\ Meets
  /\ SettingsFollow /\ SettingsHold

-----------------------------------------------------------------------------
(* Arithmetic and sizes *)

(* The sizes are numbers.                                                  *)
LEMMA Sizes ==
  /\ MaxTags \in Nat /\ MaxLine \in Nat /\ PollRounds \in Nat
  /\ PerRound \in Nat /\ PerRequest \in Nat /\ Room \in Nat
  /\ PerRound = MaxTags + 1
  /\ PerRequest = PerRound + Rounds(PollRounds)
  /\ Room = 2 * MaxLine + MaxTags + Rounds(PollRounds) + Taking(MaxLine)
<1>1. MaxTags \in Nat /\ MaxLine \in Nat /\ PollRounds \in Nat
  BY ReaderAssumption
<1>2. PerRound \in Nat /\ PerRound = MaxTags + 1
  BY <1>1 DEF PerRound
<1>3. Rounds(PollRounds) \in Nat
  BY <1>1, <1>2 DEF Rounds
<1>4. PerRequest \in Nat /\ PerRequest = PerRound + Rounds(PollRounds)
  BY <1>2, <1>3 DEF PerRequest
<1>5. Taking(MaxLine) \in Nat
  BY <1>1, <1>4 DEF Taking
<1>6. Room = 2 * MaxLine + MaxTags + Rounds(PollRounds) + Taking(MaxLine)
  BY DEF Room
<1> QED
  BY <1>1, <1>2, <1>3, <1>4, <1>5, <1>6

(* Fewer rounds, or none, send no more frames.                             *)
LEMMA LessRounds ==
  ASSUME NEW n \in Nat
  PROVE  /\ Rounds(n) \in Nat /\ Rounds(0) = 0
         /\ n > 0 => Rounds(n - 1) = Rounds(n) - PerRound
         /\ \A m \in Nat : m <= n => Rounds(m) <= Rounds(n)
<1>1. PerRound \in Nat
  BY Sizes
<1>2. Rounds(n) \in Nat /\ Rounds(0) = 0
  BY <1>1 DEF Rounds
<1>3. n > 0 => Rounds(n - 1) = Rounds(n) - PerRound
  BY <1>1 DEF Rounds
<1>4. ASSUME NEW m \in Nat, m <= n PROVE Rounds(m) <= Rounds(n)
  BY <1>1, <1>4 DEF Rounds
<1> QED
  BY <1>2, <1>3, <1>4

(* ... and fewer requests, or none, are answered with no more.             *)
LEMMA LessTaking ==
  ASSUME NEW n \in Nat
  PROVE  /\ Taking(n) \in Nat
         /\ n > 0 => Taking(n - 1) = Taking(n) - PerRequest
         /\ \A m \in Nat : m <= n => Taking(m) <= Taking(n)
<1>1. PerRequest \in Nat
  BY Sizes
<1>2. Taking(n) \in Nat
  BY <1>1 DEF Taking
<1>3. n > 0 => Taking(n - 1) = Taking(n) - PerRequest
  BY <1>1 DEF Taking
<1>4. ASSUME NEW m \in Nat, m <= n PROVE Taking(m) <= Taking(n)
  BY <1>1, <1>4 DEF Taking
<1> QED
  BY <1>2, <1>3, <1>4

(* A round sends one frame at least and PerRound at most.                  *)
LEMMA InventorySize ==
  ASSUME NEW n \in 0..MaxTags, NEW own
  PROVE  Len(Inventory(n, own)) \in 1..PerRound
<1>1. n \in Nat /\ MaxTags \in Nat /\ PerRound = MaxTags + 1 /\ PerRound \in Nat
  BY Sizes
<1>2. CASE n = 0
  BY <1>1, <1>2 DEF Inventory
<1>3. CASE n # 0
  <2> DEFINE tags == [i \in 1..n |-> Response("SinglePollingInstruction", "tag", own)]
  <2>1. Inventory(n, own) = tags
    BY <1>3 DEF Inventory
  <2>2. Len(tags) = n
    BY <1>1
  <2> QED
    BY <1>1, <1>3, <2>1, <2>2
<1> QED
  BY <1>2, <1>3

(* What the reader makes of a request is no more than PerRequest.          *)
LEMMA TakeSize ==
  ASSUME ReaderTypeOK, Refuse \/ CarryOut
  PROVE  /\ Len(toHost) < MaxLine
         /\ \E k \in 0..PerRound :
              /\ Len(toHost') = Len(toHost) + k
              /\ Head(toDev).cmd \notin PollCmds => k = 1
              /\ rounds' = rounds \/ rounds' = 0 \/ (rounds' = PollRounds /\ k = 0)
<1> DEFINE r == Head(toDev)
           IsFine(k) == /\ k \in 0..PerRound
                        /\ Len(toHost') = Len(toHost) + k
                        /\ r.cmd \notin PollCmds => k = 1
                        /\ rounds' = rounds \/ rounds' = 0 \/ (rounds' = PollRounds /\ k = 0)
<1>1. /\ toDev # <<>> /\ Len(toHost) < MaxLine /\ toHost \in Seq(Frames)
      /\ PerRound \in Nat /\ 1 \in 0..PerRound /\ 0 \in 0..PerRound
  BY Sizes DEF Refuse, CarryOut, ReaderTypeOK
<1>2. \A x : Len(Append(toHost, x)) = Len(toHost) + 1
  BY <1>1
<1> HIDE DEF r
<1>3. CASE Refuse
  <2>1. IsFine(1)
    BY <1>1, <1>2, <1>3 DEF Refuse
  <2> QED
    BY <1>1, <2>1 DEF r
<1>4. CASE CarryOut
  <2>1. CASE SetSetting(r) \/ GetSetting(r) \/ Info(r) \/ TagOperation(r) \/ StopPolling(r)
    <3>1. IsFine(1)
      BY <1>1, <1>2, <2>1 DEF SetSetting, GetSetting, Info, TagOperation, StopPolling
    <3> QED
      BY <1>1, <3>1 DEF r
  <2>2. CASE StartPolling(r)
    <3>1. IsFine(0)
      BY <1>1, <2>2 DEF StartPolling, PollCmds
    <3> QED
      BY <1>1, <3>1 DEF r
  <2>3. CASE PollOnce(r)
    <3>1. PICK n \in 0..MaxTags : toHost' = toHost \o Inventory(n, r.own)
      BY <2>3 DEF PollOnce
    <3>2. Len(Inventory(n, r.own)) \in 1..PerRound
      BY InventorySize
    <3>3. Inventory(n, r.own) \in Seq(Frames)
      <4>1. r \in Requests
        BY <1>1 DEF r, ReaderTypeOK
      <4>2. r.own \in BOOLEAN /\ n \in Nat
        BY <4>1, Sizes DEF Requests
      <4> QED
        BY <4>2, InventoryFrames
    <3>4. Len(toHost') = Len(toHost) + Len(Inventory(n, r.own))
      BY <1>1, <3>1, <3>3
    <3>5. IsFine(Len(Inventory(n, r.own)))
      BY <1>1, <2>3, <3>2, <3>4 DEF PollOnce, PollCmds
    <3> QED
      BY <1>1, <3>5 DEF r
  <2> QED
    BY <1>4, <2>1, <2>2, <2>3 DEF CarryOut, r
<1> QED
  BY <1>3, <1>4

(* ... and a round of multi-polling no more than PerRound.                 *)
LEMMA PollSize ==
  ASSUME ReaderTypeOK, PollRound
  PROVE  /\ Len(toHost) < MaxLine /\ rounds' = rounds - 1
         /\ Len(toHost') \in Len(toHost)..(Len(toHost) + PerRound)
<1>1. Len(toHost) < MaxLine /\ rounds' = rounds - 1 /\ toHost \in Seq(Frames) /\ PerRound \in Nat
  BY Sizes DEF PollRound, ReaderTypeOK
<1>2. CASE toHost' = toHost
  BY <1>1, <1>2
<1>3. CASE \E n \in 0..MaxTags : toHost' = toHost \o Inventory(n, polling)
  <2>1. PICK n \in 0..MaxTags : toHost' = toHost \o Inventory(n, polling)
    BY <1>3
  <2>2. Inventory(n, polling) \in Seq(Frames)
    BY InventoryFrames, ReaderAssumption DEF ReaderTypeOK
  <2>3. Len(Inventory(n, polling)) \in 1..PerRound
    BY InventorySize
  <2>4. Len(toHost') = Len(toHost) + Len(Inventory(n, polling))
    BY <1>1, <2>1, <2>2
  <2> QED
    BY <1>1, <2>3, <2>4
<1> QED
  BY <1>1, <1>2, <1>3 DEF PollRound

(* What is to come is a number ...                                         *)
LEMMA Counted ==
  ASSUME TypeOK
  PROVE  /\ Len(toHost) \in Nat /\ Len(inbuf) \in Nat /\ Len(got) \in Nat /\ Len(toDev) \in Nat
         /\ rounds \in Nat /\ Rounds(rounds) \in Nat /\ Taking(Len(toDev)) \in Nat
         /\ Due = Rounds(rounds) + Taking(Len(toDev))
         /\ Held \in Nat /\ Due \in Nat /\ ToCome \in Nat
<1>1. /\ toHost \in Seq(Frames) /\ inbuf \in Seq(Frames) /\ got \in Seq(Frames)
      /\ toDev \in Seq(Requests) /\ rounds \in Nat
  BY Sizes DEF TypeOK, ReaderTypeOK
<1>2. Len(toHost) \in Nat /\ Len(inbuf) \in Nat /\ Len(got) \in Nat /\ Len(toDev) \in Nat
  BY <1>1
<1>3. Rounds(rounds) \in Nat /\ Taking(Len(toDev)) \in Nat
  BY <1>1, <1>2, LessRounds, LessTaking
<1>4. Held \in Nat /\ Due \in Nat /\ Due = Rounds(rounds) + Taking(Len(toDev))
  BY <1>2, <1>3 DEF Held, Due
<1> QED
  BY <1>1, <1>2, <1>3, <1>4 DEF ToCome

(* ... and still is one after a step.                                      *)
LEMMA CountedNext ==
  ASSUME TypeOK'
  PROVE  /\ Len(toHost') \in Nat /\ Len(inbuf') \in Nat /\ Len(got') \in Nat
         /\ Len(toDev') \in Nat /\ rounds' \in Nat
         /\ Due' = Rounds(rounds') + Taking(Len(toDev'))
         /\ Held' = Len(toHost') + Len(inbuf') + Len(got')
<1>1. /\ toHost' \in Seq(Frames) /\ inbuf' \in Seq(Frames) /\ got' \in Seq(Frames)
      /\ toDev' \in Seq(Requests) /\ rounds' \in Nat
  BY Sizes DEF TypeOK, ReaderTypeOK
<1>2. Due' = Rounds(rounds') + Taking(Len(toDev'))
  BY DEF Due
<1>3. Held' = Len(toHost') + Len(inbuf') + Len(got')
  BY DEF Held
<1> QED
  BY <1>1, <1>2, <1>3

(* A step that leaves the host alone, and adds no more to the line than it *)
(* takes from what is due.                                                 *)
LEMMA NoMoreToCome ==
  ASSUME TypeOK, TypeOK', UNCHANGED <<inbuf, got>>,
         NEW k \in Nat, Len(toHost') = Len(toHost) + k,
         NEW due \in Nat, Due' = due, k + due <= Due
  PROVE  \E all \in Nat : ToCome' = all /\ all <= ToCome
<1> DEFINE all == Len(toHost) + k + Len(inbuf) + Len(got) + due
<1>1. all \in Nat /\ all <= ToCome
  <2>1. /\ Len(toHost) \in Nat /\ Len(inbuf) \in Nat /\ Len(got) \in Nat /\ Due \in Nat
        /\ ToCome = Len(toHost) + Len(inbuf) + Len(got) + Due
    BY Counted DEF ToCome, Held
  <2> QED
    BY <2>1
<1>2. ToCome' = all
  BY DEF ToCome, Held
<1> HIDE DEF all
<1> QED
  BY <1>1, <1>2

(* The rest of a line on which stops come last.                            *)
LEMMA StopsLastTail ==
  ASSUME NEW s \in Seq(Requests), s # <<>>, StopsLast(s)
  PROVE  /\ StopsLast(Tail(s))
         /\ Head(s).cmd = StopCmd => \A r \in On(Tail(s)) : r.cmd = StopCmd
<1>1. /\ Len(Tail(s)) = Len(s) - 1 /\ Len(s) \in Nat /\ Len(s) > 0
      /\ \A i \in 1..Len(Tail(s)) : Tail(s)[i] = s[i + 1] /\ i + 1 \in 1..Len(s)
      /\ Head(s) = s[1] /\ 1 \in 1..Len(s)
  OBVIOUS
<1>2. StopsLast(Tail(s))
  BY <1>1 DEF StopsLast
<1>3. ASSUME Head(s).cmd = StopCmd, NEW i \in 1..Len(Tail(s)) PROVE Tail(s)[i].cmd = StopCmd
  <2>1. i + 1 \in 1..Len(s) /\ 1 < i + 1 /\ Tail(s)[i] = s[i + 1]
    BY <1>1
  <2> QED
    BY <1>1, <1>3, <2>1 DEF StopsLast
<1> QED
  BY <1>2, <1>3 DEF On

-----------------------------------------------------------------------------
(* Calls *)

(* A stop and a single polling read on until the line is quiet; any other  *)
(* call that asks for something reads one frame.                           *)
LEMMA ExpectFits ==
  ASSUME TypeOK
  PROVE  /\ call.name \in StopCalls => Now.expect = Many
         /\ Now.cmd = "SinglePollingInstruction" => Now.expect = Many
         /\ Asks(call) => Now.expect \in {0, 1, Many}
         /\ Asks(call) /\ Now.expect = 0 => call.name = "enable_multiple_polling_instructions"
BY NowFits DEF Fits, Expected, Asks

(* While a call is reading that asks for something, the client is neither  *)
(* polling nor owes a stop, and its request is no multi-polling.           *)
LEMMA Asking ==
  ASSUME LineInv, pc # "idle", Asks(call)
  PROVE  /\ ~polled /\ owed = 0
         /\ Now.cmd # StopCmd
         /\ pc = "read" => Now.cmd # "MultiplePollingInstruction"
<1>1. ~polled /\ owed = 0
  BY DEF LineInv, ClientStops, Asks
<1>2. Fits(call, Now)
  BY NowFits DEF LineInv
<1> QED
  BY <1>1, <1>2 DEF LineInv, InScript, Fits, Asks, Polls

(* A setting is a call that asks for something.                            *)
LEMMA SettersAsk ==
  ASSUME TypeOK
  PROVE  Now.cmd \in SetCmds => Asks(call)
  BY NowFits DEF Fits, SetCmds, Selects, StopCalls, Asks

-----------------------------------------------------------------------------
(* Steps of the line and of the reader *)

(* What takes something off the line, and adds nothing, keeps LineInv.     *)
LEMMA LessOnLine ==
  ASSUME LineInv, TypeOK',
         UNCHANGED <<settings, rounds, pc, call, step, failed, result, pure, polled, owed>>,
         OnLine' \subseteq OnLine, On(toDev') \subseteq On(toDev), StopsLast(toDev'),
         Len(toDev') <= Len(toDev), Len(toHost') <= Len(toHost),
         NEW held \in Nat, Held' = held, held <= Held,
         pc # "read" => got' = <<>>
  PROVE  LineInv'
<1>1. Now' = Now
  BY NowSame
<1>2. /\ Len(toHost) \in Nat /\ Len(toDev) \in Nat /\ Held \in Nat /\ rounds \in Nat
      /\ ToCome \in Nat /\ Due \in Nat /\ Due = Rounds(rounds) + Taking(Len(toDev))
      /\ Rounds(rounds) \in Nat /\ Taking(Len(toDev)) \in Nat
      /\ MaxLine \in Nat /\ MaxTags \in Nat /\ Room \in Nat
  BY Counted, Sizes DEF LineInv
<1>3. toDev # <<>> \/ toDev' = <<>>
  BY DEF LineInv, TypeOK, ReaderTypeOK
<1>4. InScript'
  BY <1>1 DEF LineInv, InScript
<1>5. Bounded'
  <2>1. PICK n \in Nat : n = Len(toDev') /\ n <= Len(toDev)
    BY CountedNext
  <2>2. Taking(n) \in Nat /\ Taking(n) <= Taking(Len(toDev))
    BY <1>2, <2>1, LessTaking
  <2> DEFINE all == held + (Rounds(rounds) + Taking(n))
  <2>3. all \in Nat /\ all <= ToCome
    <3>1. ToCome = Held + (Rounds(rounds) + Taking(Len(toDev)))
      BY <1>2 DEF ToCome
    <3>2. /\ Held \in Nat /\ Rounds(rounds) \in Nat /\ Taking(Len(toDev)) \in Nat
          /\ held <= Held
      BY <1>2
    <3>3. Rounds(rounds) + Taking(n) <= Rounds(rounds) + Taking(Len(toDev))
      BY <2>2, <3>2
    <3> QED
      BY <2>2, <3>1, <3>2, <3>3
  <2>4. ToCome' = all
    <3>1. Due' = Rounds(rounds) + Taking(n)
      BY <2>1 DEF Due
    <3> QED
      BY <3>1 DEF ToCome
  <2> HIDE DEF all
  <2>5. pc = "read" => all <= Room
    BY <1>2, <2>3 DEF LineInv, Bounded
  <2>6. Len(toDev') <= MaxLine /\ Len(toHost') <= MaxLine + MaxTags
    BY <1>2, CountedNext DEF LineInv, Bounded
  <2> QED
    BY <2>4, <2>5, <2>6 DEF Bounded
<1>6. ClientStops'
  BY DEF LineInv, ClientStops, Returned
<1>7. Clean'
  <2>1. ASSUME pc # "read", ~polled, owed = 0
        PROVE  toDev' = <<>> /\ toHost' = <<>> /\ inbuf' = <<>>
    <3>1. toDev = <<>> /\ toHost = <<>> /\ inbuf = <<>> /\ got = <<>>
      BY <2>1 DEF LineInv, Clean, Quiet, InScript
    <3>2. OnLine = {}
      BY <3>1, OnEmpty DEF OnLine
    <3>3. On(toHost') = {} /\ On(inbuf') = {}
      BY <3>2 DEF OnLine
    <3>4. toHost' \in Seq(Frames) /\ inbuf' \in Seq(Frames)
      BY DEF TypeOK, ReaderTypeOK
    <3> QED
      BY <1>3, <3>1, <3>3, <3>4, OnNothing
  <2> QED
    BY <2>1 DEF LineInv, Clean, Quiet
<1>8. AcksEnd'
  BY DEF LineInv, AcksEnd, NotPolling
<1>9. Meets'
  <2>1. (Held = 0 => held = 0) /\ (Held <= 1 => held <= 1)
    BY <1>2
  <2>2. Len(toDev) <= 1 => Len(toDev') <= 1
    BY <1>2, CountedNext
  <2> QED
    BY <1>1, <1>3, <2>1, <2>2 DEF LineInv, Meets
<1>10. SettingsFollow'
  BY <1>1, <1>3 DEF LineInv, SettingsFollow, Made, Returned
<1>11. SettingsHold'
  BY DEF LineInv, SettingsHold, Returned
<1> QED
  BY <1>4, <1>5, <1>6, <1>7, <1>8, <1>9, <1>10, <1>11 DEF LineInv, OnPromptLine

(* A frame goes from the line into the port's buffer.                      *)
LEMMA ArriveKeeps == LineInv /\ TypeOK' /\ Arrive => LineInv'
<1> SUFFICES ASSUME LineInv, TypeOK', Arrive PROVE LineInv'
  OBVIOUS
<1>1. /\ toHost \in Seq(Frames) /\ inbuf \in Seq(Frames) /\ got \in Seq(Frames)
      /\ toDev \in Seq(Requests) /\ toHost # <<>>
  BY DEF LineInv, TypeOK, ReaderTypeOK, Arrive
<1>2. /\ On(toHost') \subseteq On(toHost) /\ Head(toHost) \in On(toHost)
      /\ Head(toHost) \in Frames /\ Len(toHost') = Len(toHost) - 1
  BY <1>1, OnTail DEF Arrive
<1>3. inbuf' = inbuf \/ inbuf' = Append(inbuf, Head(toHost))
  BY DEF Arrive
<1>4. On(inbuf') \subseteq On(inbuf) \cup {Head(toHost)} /\ Len(inbuf') <= Len(inbuf) + 1
  <2>1. /\ Len(Append(inbuf, Head(toHost))) = Len(inbuf) + 1
        /\ Len(inbuf) \in Nat
    BY <1>1, <1>2
  <2>2. On(Append(inbuf, Head(toHost))) = On(inbuf) \cup {Head(toHost)}
    BY <1>1, <1>2, OnAppend
  <2>3. CASE inbuf' = inbuf
    BY <2>1, <2>3
  <2>4. CASE inbuf' = Append(inbuf, Head(toHost))
    <3>1. On(inbuf') = On(inbuf) \cup {Head(toHost)}
      BY <2>2, <2>4
    <3>2. Len(inbuf') <= Len(inbuf) + 1
      BY <2>1, <2>4
    <3> QED
      BY <3>1, <3>2
  <2> QED
    BY <1>3, <2>3, <2>4
<1>5. UNCHANGED <<toDev, settings, rounds, pc, call, step, got, failed, result, pure, polled, owed>>
  BY DEF Arrive, hostVars
<1>6. OnLine' \subseteq OnLine
  BY <1>2, <1>4, <1>5 DEF OnLine
<1>7. PICK held \in Nat : Held' = held /\ held <= Held
  <2>1. PICK m \in Nat, k \in Nat :
          m = Len(toHost') /\ m = Len(toHost) - 1 /\ k = Len(inbuf') /\ k <= Len(inbuf) + 1
    BY <1>2, <1>4, CountedNext
  <2> DEFINE held == m + k + Len(got)
  <2>2. held \in Nat /\ held <= Held
    <3>1. Len(toHost) \in Nat /\ Len(inbuf) \in Nat /\ Len(got) \in Nat
      BY <1>1
    <3> QED
      BY <2>1, <3>1 DEF Held
  <2>3. Held' = held
    BY <1>5, <2>1 DEF Held
  <2> HIDE DEF held
  <2> QED
    BY <2>2, <2>3
<1>8. StopsLast(toDev') /\ (pc # "read" => got' = <<>>)
  BY <1>5 DEF LineInv, AcksEnd, InScript
<1>9. Len(toHost') <= Len(toHost) /\ Len(toDev') <= Len(toDev)
  <2>1. Len(toHost) \in Nat /\ Len(toDev) \in Nat
    BY <1>1
  <2> QED
    BY <1>2, <1>5, <2>1
<1> QED
  BY <1>5, <1>6, <1>7, <1>8, <1>9, LessOnLine

(* The line loses a request or a frame.                                    *)
LEMMA LossKeeps ==
  ASSUME LineInv, TypeOK', LoseRequest \/ LoseFrame, UNCHANGED <<inbuf, hostVars>>
  PROVE  LineInv'
<1>1. /\ toHost \in Seq(Frames) /\ inbuf \in Seq(Frames) /\ got \in Seq(Frames)
      /\ toDev \in Seq(Requests)
      /\ Len(toHost) \in Nat /\ Len(inbuf) \in Nat /\ Len(got) \in Nat /\ Len(toDev) \in Nat
  BY DEF LineInv, TypeOK, ReaderTypeOK
<1>2. UNCHANGED <<settings, rounds, pc, call, step, got, failed, result, pure, polled, owed, inbuf>>
  BY DEF LoseRequest, LoseFrame, hostVars
<1>3. pc # "read" => got' = <<>>
  BY <1>2 DEF LineInv, InScript
<1>4. CASE LoseRequest
  <2>1. toDev # <<>> /\ toDev' = Tail(toDev) /\ toHost' = toHost
    BY <1>4 DEF LoseRequest
  <2>2. On(toDev') \subseteq On(toDev) /\ Len(toDev') <= Len(toDev) /\ StopsLast(toDev')
    BY <1>1, <2>1, OnTail, StopsLastTail DEF LineInv, AcksEnd
  <2>3. OnLine' = OnLine /\ Held' = Held /\ Held \in Nat /\ Len(toHost') <= Len(toHost)
    BY <1>1, <1>2, <2>1 DEF OnLine, Held
  <2> QED
    BY <1>2, <1>3, <2>2, <2>3, LessOnLine
<1>5. CASE LoseFrame
  <2>1. toHost # <<>> /\ toHost' = Tail(toHost) /\ toDev' = toDev
    BY <1>5 DEF LoseFrame
  <2>2. On(toHost') \subseteq On(toHost) /\ Len(toHost') <= Len(toHost)
    BY <1>1, <2>1, OnTail
  <2>3. OnLine' \subseteq OnLine
    BY <1>2, <2>2 DEF OnLine
  <2>4. PICK held \in Nat : Held' = held /\ held <= Held
    <3>1. PICK m \in Nat : m = Len(toHost') /\ m <= Len(toHost)
      BY <2>2, CountedNext
    <3> DEFINE held == m + Len(inbuf) + Len(got)
    <3>2. held \in Nat /\ held <= Held
      BY <1>1, <3>1 DEF Held
    <3>3. Held' = held
      BY <1>2, <3>1 DEF Held
    <3> HIDE DEF held
    <3> QED
      BY <3>2, <3>3
  <2>5. Len(toDev') <= Len(toDev) /\ StopsLast(toDev')
    BY <1>1, <2>1 DEF LineInv, AcksEnd
  <2> QED
    BY <1>2, <1>3, <2>1, <2>2, <2>3, <2>4, <2>5, LessOnLine
<1> QED
  BY <1>4, <1>5

(* The reader takes a request: where a call asks for something that is its *)
(* only request, and the answer to it the only one on the line.            *)
LEMMA TakeKeeps ==
  ASSUME LineInv, TypeOK', Refuse \/ CarryOut, UNCHANGED <<inbuf, hostVars>>
  PROVE  LineInv'
<1> DEFINE r == Head(toDev)
<1>1. /\ toHost \in Seq(Frames) /\ toDev \in Seq(Requests) /\ ReaderTypeOK /\ TypeOK
      /\ settings \in [Settings -> Args] /\ rounds \in Nat
  <2>1. rounds \in Nat
    BY Counted DEF LineInv
  <2> QED
    BY <2>1 DEF LineInv, TypeOK, ReaderTypeOK
<1>2. UNCHANGED <<pc, call, step, got, failed, result, pure, polled, owed, inbuf>>
  BY DEF hostVars
<1>3. Now' = Now
  BY <1>2, NowSame
<1>4. PICK new \in Seq(Frames) : toHost' = toHost \o new /\ Answers(r, new)
  BY <1>1, ReaderAnswers
<1>5. /\ toDev # <<>> /\ r \in On(toDev) /\ toDev' = Tail(toDev) /\ On(toDev') \subseteq On(toDev)
      /\ Len(toDev') = Len(toDev) - 1 /\ Len(toDev) \in Nat
      /\ Len(toDev) <= 1 => toDev' = <<>>
  <2>1. toDev # <<>> /\ toDev' = Tail(toDev)
    BY <1>1, ReaderAnswers
  <2>2. Len(Tail(toDev)) = Len(toDev) - 1 /\ Len(toDev) \in Nat
    BY <1>1, <2>1
  <2> QED
    BY <1>1, <2>1, <2>2, OnTail
<1>6. OnLine' = OnLine \cup On(new)
  BY <1>1, <1>2, <1>4, OnConcat DEF OnLine
<1>7. PICK k \in 0..PerRound :
        /\ Len(toHost') = Len(toHost) + k
        /\ r.cmd \notin PollCmds => k = 1
        /\ rounds' = rounds \/ rounds' = 0 \/ (rounds' = PollRounds /\ k = 0)
  BY <1>1, TakeSize
<1>8. Len(toHost) < MaxLine
  BY <1>1, TakeSize
<1>9. StopsLast(toDev') /\ (r.cmd = StopCmd => \A q \in On(toDev') : q.cmd = StopCmd)
  BY <1>1, <1>5, StopsLastTail DEF LineInv, AcksEnd
<1> HIDE DEF r
<1>10. pc = "read" \/ polled \/ owed # 0
  BY <1>5 DEF LineInv, Clean, Quiet
<1>11. ASSUME pc = "read", Asks(call)
       PROVE  /\ r.own /\ r.cmd = Now.cmd /\ r.arg = Now.arg
              /\ toDev' = <<>> /\ Held = 0 /\ rounds = 0 /\ rounds' = 0
              /\ r.cmd # "MultiplePollingInstruction" /\ r.cmd # StopCmd
  <2>1. /\ r.own /\ r.cmd = Now.cmd /\ r.arg = Now.arg
        /\ toDev' = <<>> /\ Held = 0 /\ rounds = 0
    BY <1>5, <1>11 DEF LineInv, Meets
  <2>2. r.cmd # "MultiplePollingInstruction" /\ r.cmd # StopCmd
    BY <1>11, <2>1, Asking
  <2> QED
    BY <1>4, <2>1, <2>2 DEF Answers
<1>12. InScript'
  BY <1>2, <1>3 DEF LineInv, InScript
<1>13. Bounded'
  <2>1. /\ Len(toHost) \in Nat /\ Len(toDev) \in Nat /\ Due \in Nat
        /\ Due = Rounds(rounds) + Taking(Len(toDev))
        /\ Rounds(rounds) \in Nat /\ Taking(Len(toDev)) \in Nat
    BY <1>1, Counted
  <2>2. PICK n \in Nat, q \in Nat :
          /\ n = Len(toDev') /\ n = Len(toDev) - 1 /\ Len(toDev) > 0
          /\ q = rounds' /\ (q = rounds \/ q = 0 \/ (q = PollRounds /\ k = 0))
    <3>1. Len(toDev') \in Nat /\ rounds' \in Nat
      BY CountedNext
    <3>2. Len(toDev') = Len(toDev) - 1 /\ Len(toDev) > 0
      BY <1>5, <3>1
    <3> QED
      BY <1>7, <3>1, <3>2
  <2>3. Taking(n) = Taking(Len(toDev)) - PerRequest /\ Taking(n) \in Nat
    BY <2>1, <2>2, LessTaking
  <2>4. k + Rounds(q) <= Rounds(rounds) + PerRequest /\ Rounds(q) \in Nat /\ k \in Nat
    <3>1. /\ Rounds(0) = 0 /\ Rounds(PollRounds) \in Nat /\ Rounds(q) \in Nat
          /\ PerRequest = PerRound + Rounds(PollRounds)
          /\ PerRequest \in Nat /\ PerRound \in Nat
          /\ k \in Nat /\ k <= PerRound
      <4>1. PerRound \in Nat /\ PollRounds \in Nat /\ 0 \in Nat
        BY Sizes
      <4>2. k \in Nat /\ k <= PerRound
        BY <4>1
      <4> QED
        BY <4>1, <4>2, Sizes, LessRounds
    <3>2. PICK a \in Nat, b \in Nat, c \in Nat :
            a = Rounds(q) /\ b = Rounds(rounds) /\ c = Rounds(PollRounds)
      BY <2>1, <3>1
    <3>3. a = b \/ a = 0 \/ (a = c /\ k = 0)
      BY <2>2, <3>1, <3>2
    <3>4. PerRequest = PerRound + c /\ PerRequest \in Nat
      BY <3>1, <3>2
    <3>5. k + a <= b + PerRequest
      BY <3>1, <3>3, <3>4
    <3> QED
      BY <3>1, <3>2, <3>5
  <2>5. PICK due \in Nat : Due' = due /\ k + due <= Due
    <3> DEFINE due == Rounds(q) + Taking(n)
    <3>1. Due' = due
      BY <2>2, CountedNext
    <3>2. due \in Nat /\ k + due <= Due
      <4>1. PerRequest \in Nat
        BY Sizes
      <4>2. PICK a \in Nat, b \in Nat, c \in Nat, d \in Nat :
              /\ a = Rounds(q) /\ b = Taking(n)
              /\ c = Rounds(rounds) /\ d = Taking(Len(toDev))
        BY <2>1, <2>3, <2>4
      <4>3. k + a <= c + PerRequest /\ b = d - PerRequest /\ k \in Nat
        BY <2>3, <2>4, <4>2
      <4>4. k + (a + b) <= c + d /\ a + b \in Nat
        BY <4>1, <4>3
      <4>5. Due = c + d
        BY <2>1, <4>2
      <4> QED
        BY <4>2, <4>4, <4>5
    <3> HIDE DEF due
    <3> QED
      BY <3>1, <3>2
  <2>6. Len(toHost') <= MaxLine + MaxTags
    <3>1. /\ MaxTags \in Nat /\ MaxLine \in Nat /\ PerRound = MaxTags + 1
          /\ k \in 0..PerRound
      BY Sizes
    <3>2. Len(toHost) + k <= MaxLine + MaxTags
      BY <1>8, <2>1, <3>1
    <3>3. Len(toHost') = Len(toHost) + k
      BY <1>7
    <3> QED
      BY <3>2, <3>3
  <2>7. PICK all \in Nat : ToCome' = all /\ all <= ToCome
    BY <1>1, <1>2, <1>7, <2>4, <2>5, NoMoreToCome
  <2>8. pc = "read" => all <= Room
    <3>1. ToCome \in Nat /\ Room \in Nat /\ all <= ToCome
      BY <1>1, <2>7, Counted, Sizes
    <3>2. pc = "read" => ToCome <= Room
      BY DEF LineInv, Bounded
    <3> QED
      BY <3>1, <3>2
  <2>9. Len(toDev') <= MaxLine
    BY <2>1, <2>2, Sizes DEF LineInv, Bounded
  <2> QED
    BY <1>2, <2>6, <2>7, <2>8, <2>9 DEF Bounded
<1>14. ClientStops'
  BY <1>2 DEF LineInv, ClientStops, Returned
<1>15. Clean'
  BY <1>2, <1>10 DEF Clean
<1>16. AcksEnd'
  <2>1. Error # StopCmd /\ "MultiplePollingInstruction" # StopCmd
    BY DEF Error, StopCmd
  <2>2. NotPolling => NotPolling'
    BY <1>4, <1>5 DEF NotPolling, Answers
  <2>3. ASSUME NEW f \in On(new), Ack(f) PROVE NotPolling'
    <3>1. rounds' = 0 /\ r.cmd = StopCmd
      BY <1>4, <2>1, <2>3 DEF Answers, Ack
    <3> QED
      BY <1>9, <2>1, <3>1 DEF NotPolling
  <2>4. ASSUME owed = 0, ~(pc = "read" /\ call.name \in StopCalls)
        PROVE  /\ \A f \in OnLine' : ~Ack(f)
               /\ \A q \in On(toDev') : q.cmd # StopCmd
    <3>1. r.cmd # StopCmd
      BY <1>5, <2>4 DEF LineInv, AcksEnd
    <3>2. \A f \in On(new) : ~Ack(f)
      BY <1>4, <2>1, <3>1 DEF Answers, Ack
    <3> QED
      BY <1>5, <1>6, <2>4, <3>2 DEF LineInv, AcksEnd
  <2> QED
    BY <1>2, <1>6, <1>9, <2>2, <2>3, <2>4 DEF LineInv, AcksEnd
<1>17. Meets'
  <2>1. ASSUME pc = "read", Asks(call)
        PROVE  /\ \A f \in OnLine' : IsAnswer(f, Now.cmd)
               /\ Now.cmd # "SinglePollingInstruction" => Held' <= 1
    <3>1. \A f \in On(new) : IsAnswer(f, Now.cmd)
      BY <1>4, <1>11, <2>1, ReaderAssumption DEF Answers, IsAnswer
    <3>2. Now.cmd # "SinglePollingInstruction" => k = 1
      BY <1>7, <1>11, <2>1 DEF PollCmds
    <3>3. Held' = Held + k
      BY <1>1, <1>2, <1>7, Counted DEF Held
    <3> QED
      BY <1>6, <1>11, <2>1, <3>1, <3>2, <3>3 DEF LineInv, Meets
  <2>2. pc = "read" /\ Asks(call) =>
          rounds' = 0 /\ toDev' = <<>> /\ On(toDev') = {} /\ Len(toDev') <= 1
    BY <1>11, OnEmpty
  <2> QED
    BY <1>2, <1>3, <2>1, <2>2 DEF LineInv, Meets
<1>18. SettingsFollow' /\ SettingsHold'
  <2>1. pc = "read" /\ Now.cmd \in SetCmds =>
          Head(toDev).cmd = Now.cmd /\ Head(toDev).arg = Now.arg /\ toDev' = <<>>
    BY <1>1, <1>11, SettersAsk DEF r
  <2>2. SettingsFollow /\ SettingsHold
    BY DEF LineInv
  <2> QED
    BY <1>1, <2>1, <2>2, SettingsTaken
<1> QED
  BY <1>12, <1>13, <1>14, <1>15, <1>16, <1>17, <1>18 DEF LineInv, OnPromptLine

(* A round of multi-polling: the client is polling, and not waiting for    *)
(* anything else.                                                          *)
LEMMA PollKeeps ==
  ASSUME LineInv, TypeOK', PollRound, UNCHANGED <<inbuf, hostVars>>
  PROVE  LineInv'
<1>1. /\ toHost \in Seq(Frames) /\ toDev \in Seq(Requests) /\ ReaderTypeOK /\ TypeOK
      /\ rounds > 0 /\ rounds # 0 /\ rounds \in Nat
  <2>1. rounds \in Nat
    BY Counted DEF LineInv
  <2>2. rounds > 0
    BY DEF PollRound
  <2>3. rounds # 0
    BY <2>1, <2>2
  <2> QED
    BY <2>1, <2>2, <2>3 DEF LineInv, TypeOK, ReaderTypeOK
<1>2. UNCHANGED <<pc, call, step, got, failed, result, pure, polled, owed, inbuf, toDev, settings>>
  BY <1>1, ReaderPolls DEF hostVars
<1>3. Now' = Now
  BY <1>2, NowSame
<1>4. PICK new \in Seq(Frames) :
        toHost' = toHost \o new /\ \A f \in On(new) : f.cmd \in {Error, "SinglePollingInstruction"}
  BY <1>1, ReaderPolls
<1>5. OnLine' = OnLine \cup On(new)
  BY <1>1, <1>2, <1>4, OnConcat DEF OnLine
<1>6. \A f \in OnLine' : ~Ack(f)
  BY <1>1, <1>4, <1>5 DEF LineInv, AcksEnd, NotPolling, Ack, Error, StopCmd
<1>7. polled
  BY <1>1 DEF LineInv, AcksEnd, NotPolling
<1>8. ~(pc = "read" /\ Asks(call))
  BY <1>1 DEF LineInv, Meets
<1>9. InScript'
  BY <1>2, <1>3 DEF LineInv, InScript
<1>10. Bounded'
  <2>1. /\ Len(toHost) < MaxLine /\ rounds' = rounds - 1
        /\ Len(toHost') \in Len(toHost)..(Len(toHost) + PerRound)
    BY <1>1, PollSize
  <2>2. /\ Len(toHost) \in Nat /\ Rounds(rounds) \in Nat /\ Taking(Len(toDev)) \in Nat
        /\ Due = Rounds(rounds) + Taking(Len(toDev))
        /\ ToCome \in Nat
    BY <1>1, Counted
  <2>3. Rounds(rounds - 1) = Rounds(rounds) - PerRound /\ Rounds(rounds - 1) \in Nat
    <3>1. rounds - 1 \in Nat
      BY <1>1
    <3> QED
      BY <1>1, <3>1, LessRounds
  <2>4. PICK k \in 0..PerRound : Len(toHost') = Len(toHost) + k
    <3>1. /\ Len(toHost') - Len(toHost) \in 0..PerRound
          /\ Len(toHost') = Len(toHost) + (Len(toHost') - Len(toHost))
      BY <2>1, <2>2, Sizes
    <3> QED
      BY <3>1
  <2>5. Len(toHost') <= MaxLine + MaxTags
    BY <2>1, <2>2, Sizes
  <2>6. k \in Nat /\ k <= PerRound /\ PerRound \in Nat
    BY Sizes
  <2>7. PICK due \in Nat : Due' = due /\ k + due <= Due
    <3> DEFINE due == Rounds(rounds - 1) + Taking(Len(toDev))
    <3>1. Due' = due
      BY <1>2, <2>1, CountedNext
    <3>2. due \in Nat /\ k + due <= Due
      BY <2>2, <2>3, <2>6
    <3> HIDE DEF due
    <3> QED
      BY <3>1, <3>2
  <2>8. PICK all \in Nat : ToCome' = all /\ all <= ToCome
    BY <1>1, <1>2, <2>4, <2>6, <2>7, NoMoreToCome
  <2>9. pc = "read" => all <= Room
    BY <1>1, <2>2, <2>8, Sizes DEF LineInv, Bounded
  <2>10. Len(toDev') <= MaxLine
    BY <1>2 DEF LineInv, Bounded
  <2> QED
    BY <1>2, <2>5, <2>8, <2>9, <2>10 DEF Bounded
<1>11. ClientStops' /\ Clean'
  BY <1>2, <1>7 DEF LineInv, ClientStops, Clean, Returned
<1>12. AcksEnd'
  BY <1>2, <1>6, <1>7 DEF LineInv, AcksEnd
<1>13. Meets'
  BY <1>2, <1>8 DEF LineInv, Meets
<1>14. SettingsFollow' /\ SettingsHold'
  <2>1. ~(pc = "read" /\ Now.cmd \in SetCmds)
    BY <1>1, <1>8, SettersAsk
  <2> QED
    BY <1>2, <1>3, <2>1 DEF LineInv, SettingsFollow, SettingsHold, Returned
<1> QED
  BY <1>9, <1>10, <1>11, <1>12, <1>13, <1>14 DEF LineInv, OnPromptLine

-----------------------------------------------------------------------------
(* Steps of the host *)

(* A disowned request is still the command it was.                         *)
LEMMA DisownCommands ==
  ASSUME NEW s \in Seq(Requests)
  PROVE  \A i \in 1..Len(s) : Disown(s)[i].cmd = s[i].cmd
<1>1. ASSUME NEW i \in 1..Len(s) PROVE Disown(s)[i].cmd = s[i].cmd
  <2>1. s[i] \in Requests /\ Disown(s)[i] = [s[i] EXCEPT !.own = FALSE]
    BY DEF Disown
  <2> QED
    BY <2>1 DEF Requests
<1> QED
  BY <1>1

(* What a request finds on the line it joins, and what it adds to it.      *)
LEMMA WriteOnLine ==
  ASSUME LineInv, Write(TRUE)
  PROVE  LET r == [cmd |-> Now.cmd, arg |-> Now.arg, own |-> TRUE]
         IN  /\ Len(toDev') = Len(toDev) + 1
             /\ \A i \in 1..Len(toDev) : toDev'[i].cmd = toDev[i].cmd
             /\ toDev'[Len(toDev) + 1] = r
             /\ Len(toHost') = Len(toHost) /\ Len(inbuf') <= Len(inbuf)
             /\ \A f \in OnLine' : \E g \in OnLine : f.cmd = g.cmd
             /\ got' = <<>> /\ UNCHANGED <<settings, rounds, pure>>
<1> DEFINE r == [cmd |-> Now.cmd, arg |-> Now.arg, own |-> TRUE]
<1>1. /\ toDev \in Seq(Requests) /\ toHost \in Seq(Frames) /\ inbuf \in Seq(Frames)
      /\ Len(toDev) \in Nat /\ Len(toHost) \in Nat /\ Len(inbuf) \in Nat
  BY DEF LineInv, TypeOK, ReaderTypeOK
<1>2. /\ Disown(toDev) \in Seq(Requests) /\ Len(Disown(toDev)) = Len(toDev)
      /\ \A i \in 1..Len(toDev) : Disown(toDev)[i].cmd = toDev[i].cmd
  BY <1>1, DisownRequests, DisownCommands
<1>3. r \in Requests /\ <<r>> \in Seq(Requests) /\ Len(<<r>>) = 1 /\ <<r>>[1] = r
  BY NowFits DEF LineInv, Exchanging, Requests
<1>4. toDev' = Disown(toDev) \o <<r>>
  BY DEF Write
<1> HIDE DEF r
<1>5. /\ Len(toDev') = Len(toDev) + 1
      /\ \A i \in 1..Len(toDev) : toDev'[i].cmd = toDev[i].cmd
      /\ toDev'[Len(toDev) + 1] = r
  <2> DEFINE t == Disown(toDev)
             u == t \o <<r>>
  <2>1. t \in Seq(Requests) /\ Len(t) = Len(toDev)
    BY <1>2
  <2>2. \A i \in 1..Len(toDev) : t[i].cmd = toDev[i].cmd
    BY <1>2
  <2> HIDE DEF t
  <2>3. Len(u) = Len(t) + 1 /\ \A i \in 1..Len(t) : u[i] = t[i]
    BY <1>3, <2>1
  <2>4. u[Len(t) + 1] = r
    BY <1>3, <2>1
  <2>5. toDev' = u
    BY <1>4 DEF t
  <2> HIDE DEF u
  <2> QED
    BY <2>1, <2>2, <2>3, <2>4, <2>5
<1>6. Input \in Seq(Frames) /\ On(Input) \subseteq On(inbuf) /\ Len(Input) <= Len(inbuf)
  BY <1>1, OnEmpty DEF Input
<1>7. toHost' = Disown(toHost) /\ inbuf' = Disown(Input) /\ got' = <<>>
      /\ UNCHANGED <<settings, rounds, pure>>
  BY DEF Write
<1>8. /\ Len(toHost') = Len(toHost) /\ Len(inbuf') <= Len(inbuf)
      /\ \A f \in On(toHost') : \E g \in On(toHost) : f.cmd = g.cmd
      /\ \A f \in On(inbuf') : \E g \in On(inbuf) : f.cmd = g.cmd
  <2>1. /\ Len(Disown(toHost)) = Len(toHost) /\ Len(Disown(Input)) = Len(Input)
        /\ \A f \in On(Disown(toHost)) : \E g \in On(toHost) : f.cmd = g.cmd
        /\ \A f \in On(Disown(Input)) : \E g \in On(Input) : f.cmd = g.cmd
    BY <1>1, <1>6, DisownFrames
  <2> QED
    BY <1>6, <1>7, <2>1
<1>9. \A f \in OnLine' : \E g \in OnLine : f.cmd = g.cmd
  BY <1>7, <1>8, OnEmpty DEF OnLine
<1> QED
  BY <1>5, <1>7, <1>8, <1>9 DEF r

(* Whatever is there already, a read never finds more than Room.           *)
LEMMA WriteSize ==
  ASSUME LineInv, TypeOK', Len(toDev) < MaxLine,
         Len(toDev') = Len(toDev) + 1, Len(toHost') = Len(toHost), Len(inbuf') <= Len(inbuf),
         got' = <<>>, rounds' = rounds
  PROVE  Bounded'
<1>1. /\ Len(toDev) \in Nat /\ Len(toHost) \in Nat /\ Len(inbuf) \in Nat /\ rounds \in Nat
      /\ MaxLine \in Nat /\ MaxTags \in Nat /\ PollRounds \in Nat
      /\ Len(toHost) <= MaxLine + MaxTags
  BY Counted, Sizes DEF LineInv, Bounded
<1>2. Len(inbuf) <= MaxLine /\ rounds <= PollRounds
  BY <1>1 DEF LineInv, TypeOK, ReaderTypeOK
<1>3. PICK n \in Nat, k \in Nat : n = Len(toDev') /\ n <= MaxLine /\ k = Len(inbuf') /\ k <= MaxLine
  BY <1>1, <1>2, CountedNext
<1>4. Taking(n) \in Nat /\ Taking(n) <= Taking(MaxLine) /\ Taking(MaxLine) \in Nat
  BY <1>1, <1>3, LessTaking
<1>5. /\ Rounds(rounds) \in Nat /\ Rounds(rounds) <= Rounds(PollRounds)
      /\ Rounds(PollRounds) \in Nat
  BY <1>1, <1>2, LessRounds
<1>6. Room \in Nat /\ Room = 2 * MaxLine + MaxTags + Rounds(PollRounds) + Taking(MaxLine)
  BY Sizes
<1> DEFINE all == (Len(toHost) + k) + (Rounds(rounds) + Taking(n))
<1>7. all \in Nat /\ all <= Room
  <2>1. Len(toHost) + k <= 2 * MaxLine + MaxTags /\ Len(toHost) + k \in Nat
    BY <1>1, <1>3
  <2>2. /\ Rounds(rounds) + Taking(n) <= Rounds(PollRounds) + Taking(MaxLine)
        /\ Rounds(rounds) + Taking(n) \in Nat
    BY <1>4, <1>5
  <2>3. PICK there \in Nat : there = Len(toHost) + k /\ there <= 2 * MaxLine + MaxTags
    BY <2>1
  <2>4. PICK due \in Nat : /\ due = Rounds(rounds) + Taking(n)
                           /\ due <= Rounds(PollRounds) + Taking(MaxLine)
    BY <2>2
  <2>5. there + due <= Room
    <3>1. /\ there <= 2 * MaxLine + MaxTags /\ MaxLine \in Nat /\ MaxTags \in Nat
          /\ due <= Rounds(PollRounds) + Taking(MaxLine)
          /\ Rounds(PollRounds) \in Nat /\ Taking(MaxLine) \in Nat
      BY <1>1, <1>4, <1>5, <2>3, <2>4
    <3> QED
      BY <1>6, <3>1
  <2>6. all = there + due
    BY <2>3, <2>4
  <2> HIDE DEF all
  <2> QED
    BY <2>5, <2>6
<1>8. ToCome' = all
  <2>1. Due' = Rounds(rounds) + Taking(n)
    BY <1>3 DEF Due
  <2>2. Held' = Len(toHost) + k
    <3>1. Len(got') = 0
      OBVIOUS
    <3>2. Len(toHost) + k + 0 = Len(toHost) + k
      BY <1>1, <1>3
    <3> QED
      BY <1>3, <3>1, <3>2 DEF Held
  <2> QED
    BY <2>1, <2>2 DEF ToCome
<1> HIDE DEF all
<1>9. Len(toDev') <= MaxLine /\ Len(toHost') <= MaxLine + MaxTags
  BY <1>1, <1>3
<1> QED
  BY <1>7, <1>8, <1>9 DEF Bounded

(* An operation is called: nothing is sent yet.                            *)
LEMMA InvokeKeeps ==
  ASSUME LineInv, TypeOK', NEW c \in Calls, Invoke(c)
  PROVE  LineInv'
<1>1. /\ pc = "idle" /\ call' = c /\ step' = 1 /\ got' = <<>> /\ failed' = "none" /\ pure'
      /\ pc' \in {"idle", "send"} /\ result'.status \in {"none", "FailedSetting"}
      /\ UNCHANGED <<inbuf, polled, owed>>
  BY DEF Invoke
<1>2. UNCHANGED <<toDev, toHost, settings, rounds>>
  BY DEF Invoke, readerVars
<1>3. InScript' /\ Bounded'
  BY <1>1, <1>2 DEF LineInv, InScript, Bounded
<1>4. ClientStops'
  <2>1. /\ polled => c.name \in StopCalls \cup {"multi_polling_instruction"}
        /\ owed > 0 => c.name \in StopCalls
        /\ owed \in 0..2
    BY DEF LineInv, OnPromptLine, Invoke, TypeOK
  <2> QED
    BY <1>1, <2>1 DEF LineInv, ClientStops, Returned
<1>5. Clean'
  BY <1>1, <1>2 DEF LineInv, Clean, Quiet
<1>6. AcksEnd'
  <2>1. OnLine' \subseteq OnLine
    BY <1>1, <1>2, OnEmpty DEF OnLine
  <2> QED
    BY <1>1, <1>2, <2>1 DEF LineInv, AcksEnd, NotPolling
<1>7. pure'
  BY <1>1
<1>8. Meets'
  BY <1>1, <1>7 DEF Meets
<1>9. SettingsFollow' /\ SettingsHold'
  BY <1>1 DEF SettingsFollow, SettingsHold, Returned
<1> QED
  BY <1>3, <1>4, <1>5, <1>6, <1>8, <1>9 DEF LineInv, OnPromptLine

(* A request is sent. A stop may join anything; a multi-polling may join   *)
(* what an earlier one left; any other finds the line empty.               *)
LEMMA SendKeeps == LineInv /\ TypeOK' /\ Send => LineInv'
<1> SUFFICES ASSUME LineInv, TypeOK', Send PROVE LineInv'
  OBVIOUS
<1> DEFINE r == [cmd |-> Now.cmd, arg |-> Now.arg, own |-> TRUE]
<1>1. pc = "send" /\ Write(TRUE) /\ owed' = owed /\ Len(toDev) < MaxLine
  BY DEF Send
<1>2. polled' <=> polled \/ Now.cmd = "MultiplePollingInstruction"
  BY DEF Send
<1>3. /\ Len(toDev') = Len(toDev) + 1
      /\ \A i \in 1..Len(toDev) : toDev'[i].cmd = toDev[i].cmd
      /\ toDev'[Len(toDev) + 1] = r
      /\ Len(toHost') = Len(toHost) /\ Len(inbuf') <= Len(inbuf)
      /\ \A f \in OnLine' : \E g \in OnLine : f.cmd = g.cmd
      /\ got' = <<>> /\ UNCHANGED <<settings, rounds, pure>>
  BY <1>1, WriteOnLine
<1>4. r.cmd = Now.cmd /\ r.arg = Now.arg /\ r.own
  OBVIOUS
<1> HIDE DEF r
<1>5. UNCHANGED <<call, step, failed>>
  BY DEF Send, Return
<1>6. Now' = Now /\ Fits(call, Now) /\ Now.expect \in Nat
  BY <1>5, NowSame, NowFits DEF LineInv, Exchanging
<1>7. \/ pc' = "read" /\ Now.expect # 0 /\ result' = result
      \/ pc' = "idle" /\ Now.expect = 0
  BY DEF Send, Return
<1>8. /\ pc' = "idle" => call.name = "enable_multiple_polling_instructions"
      /\ pc' = "read" => call.name # "enable_multiple_polling_instructions"
      /\ Now.cmd = StopCmd <=> call.name \in StopCalls
      /\ Now.cmd = "MultiplePollingInstruction" <=> call.name \in Polls
  BY <1>6, <1>7 DEF Fits
<1>9. Len(toDev) \in Nat
  BY DEF LineInv, TypeOK, ReaderTypeOK
<1>10. \A i \in 1..Len(toDev') : i \in 1..Len(toDev) \/ i = Len(toDev) + 1
  BY <1>3, <1>9
<1>11. \A q \in On(toDev') : q = r \/ \E g \in On(toDev) : q.cmd = g.cmd
  BY <1>3, <1>10 DEF On
<1>12. InScript'
  BY <1>3, <1>5, <1>6, <1>7 DEF LineInv, InScript
<1>13. Bounded'
  BY <1>1, <1>3, WriteSize
<1>14. ClientStops'
  <2>1. ASSUME call.name \notin StopCalls
        PROVE  owed = 0 /\ (call.name # "multi_polling_instruction" => ~polled)
    BY <1>1, <2>1 DEF LineInv, ClientStops
  <2>2. ASSUME pc' = "read", call.name \notin StopCalls, call.name # "multi_polling_instruction"
        PROVE  ~polled'
    BY <1>2, <1>8, <2>1, <2>2 DEF Polls
  <2>3. call.name = "multi_polling_instruction" => polled'
    BY <1>2, <1>8 DEF Polls
  <2>4. ~Returned(SetCalls)' /\ ~Returned({"stop_multiple_polling_instructions"})'
    BY <1>5, <1>7, <1>8 DEF Returned, SetCalls, Selects
  <2>5. owed <= 1
    BY DEF LineInv, ClientStops
  <2> QED
    BY <1>1, <1>5, <1>7, <2>1, <2>2, <2>3, <2>4, <2>5 DEF ClientStops
<1>15. Clean'
  <2>1. pc' # "read" => polled'
    BY <1>2, <1>7, <1>8 DEF Polls
  <2> QED
    BY <2>1 DEF Clean
<1>16. ASSUME call.name \notin StopCalls
       PROVE  /\ \A f \in OnLine : ~Ack(f)
              /\ \A q \in On(toDev) : q.cmd # StopCmd
  BY <1>1, <1>16 DEF LineInv, AcksEnd, ClientStops
<1>17. AcksEnd'
  <2>1. StopsLast(toDev')
    <3>1. ASSUME NEW i \in 1..Len(toDev'), NEW j \in 1..Len(toDev'), i < j,
                 toDev'[i].cmd = StopCmd
          PROVE  toDev'[j].cmd = StopCmd
      <4>1. i \in 1..Len(toDev) /\ toDev[i].cmd = StopCmd
        <5>1. i # Len(toDev) + 1
          BY <1>3, <1>9, <3>1
        <5> QED
          BY <1>3, <1>10, <3>1, <5>1
      <4>2. call.name \in StopCalls
        BY <1>16, <4>1 DEF On
      <4>3. CASE j \in 1..Len(toDev)
        BY <1>3, <3>1, <4>1, <4>3 DEF LineInv, AcksEnd, StopsLast
      <4>4. CASE j = Len(toDev) + 1
        BY <1>3, <1>4, <1>8, <4>2, <4>4
      <4> QED
        BY <1>10, <4>3, <4>4
    <3> QED
      BY <3>1 DEF StopsLast
  <2>2. ASSUME NotPolling, Now.cmd # "MultiplePollingInstruction" PROVE NotPolling'
    BY <1>3, <1>4, <1>11, <2>2 DEF NotPolling
  <2>3. ~polled' => NotPolling'
    BY <1>2, <2>2 DEF LineInv, AcksEnd
  <2>4. ASSUME NEW f \in OnLine', Ack(f) PROVE NotPolling'
    <3>1. PICK g \in OnLine : Ack(g)
      BY <1>3, <2>4 DEF Ack
    <3>2. call.name \in StopCalls /\ NotPolling
      BY <1>16, <3>1 DEF LineInv, AcksEnd
    <3>3. Now.cmd # "MultiplePollingInstruction"
      BY <1>8, <3>2 DEF Polls, StopCalls
    <3> QED
      BY <2>2, <3>2, <3>3
  <2>5. ASSUME owed' = 0, ~(pc' = "read" /\ call.name \in StopCalls)
        PROVE  /\ \A f \in OnLine' : ~Ack(f)
               /\ \A q \in On(toDev') : q.cmd # StopCmd
    <3>1. call.name \notin StopCalls
      BY <1>7, <1>8, <2>5 DEF StopCalls
    <3> QED
      BY <1>3, <1>4, <1>8, <1>11, <1>16, <3>1 DEF Ack
  <2> QED
    BY <1>5, <2>1, <2>3, <2>4, <2>5 DEF AcksEnd
<1>18. ASSUME Asks(call)
       PROVE  /\ rounds = 0 /\ toDev = <<>> /\ toHost = <<>> /\ inbuf = <<>>
              /\ toHost' = <<>> /\ inbuf' = <<>> /\ OnLine' = {}
              /\ Len(toDev') = 1 /\ On(toDev') = {r}
  <2>1. ~polled /\ owed = 0
    BY <1>1, <1>18, Asking
  <2>2. rounds = 0 /\ toDev = <<>> /\ toHost = <<>> /\ inbuf = <<>>
    BY <1>1, <2>1 DEF LineInv, Clean, Quiet
  <2>3. /\ toHost' \in Seq(Frames) /\ inbuf' \in Seq(Frames)
        /\ Len(toHost') = 0 /\ Len(inbuf') = 0
    <3>1. Len(toHost) = 0 /\ Len(inbuf) = 0
      BY <2>2
    <3>2. toHost' \in Seq(Frames) /\ inbuf' \in Seq(Frames)
      BY DEF TypeOK, ReaderTypeOK
    <3>3. Len(inbuf') \in Nat
      BY <3>2
    <3> QED
      BY <1>3, <3>1, <3>2, <3>3
  <2>4. toHost' = <<>> /\ inbuf' = <<>>
    BY <2>3
  <2>5. OnLine' = {}
    BY <1>3, <2>4, OnEmpty DEF OnLine
  <2>6. Len(toDev') = 1 /\ toDev'[1] = r
    <3>1. Len(toDev) = 0
      BY <2>2
    <3> QED
      BY <1>3, <3>1
  <2> QED
    BY <2>2, <2>4, <2>5, <2>6 DEF On
<1>19. Meets'
  <2>1. ASSUME pc' = "read", Asks(call) PROVE Held' = 0
    <3>1. Len(toHost') = 0 /\ Len(inbuf') = 0 /\ Len(got') = 0
      BY <1>3, <1>18, <2>1
    <3> QED
      BY <3>1 DEF Held
  <2>2. call.name \notin StopCalls => pure'
    BY <1>3 DEF LineInv, Meets
  <2> QED
    BY <1>3, <1>4, <1>5, <1>6, <1>18, <2>1, <2>2 DEF Meets
<1>20. SettingsFollow' /\ SettingsHold'
  <2>1. Now.cmd \in SetCmds => OnLine' = {}
    BY <1>18, SettersAsk DEF LineInv
  <2>2. ~Returned(SetCalls)'
    BY <1>5, <1>7, <1>8 DEF Returned, SetCalls, Selects
  <2>3. settings' = settings /\ (pc' # "idle" => pc' # "send")
    BY <1>3, <1>7
  <2> QED
    BY <1>1, <1>5, <1>6, <2>1, <2>2, <2>3
       DEF LineInv, SettingsFollow, SettingsHold, Returned, SetCalls, Selects
<1> QED
  BY <1>12, <1>13, <1>14, <1>15, <1>17, <1>19, <1>20 DEF LineInv, OnPromptLine

(* A future is dropped: the client owes a stop.                            *)
LEMMA CancelKeeps == LineInv /\ TypeOK' /\ Cancel => LineInv'
<1> SUFFICES ASSUME LineInv, TypeOK', Cancel PROVE LineInv'
  OBVIOUS
<1>1. /\ pc' = "idle" /\ got' = <<>> /\ result'.status = "Dropped"
      /\ owed' = IF owed = 0 THEN 1 ELSE owed
      /\ UNCHANGED <<inbuf, call, step, failed, pure, polled>>
  BY DEF Cancel
<1>2. UNCHANGED <<toDev, toHost, settings, rounds>>
  BY DEF Cancel, readerVars
<1>3. owed' # 0 /\ owed' <= 1
  BY <1>1 DEF LineInv, TypeOK, ClientStops
<1>4. InScript' /\ Bounded' /\ ClientStops' /\ Clean'
  BY <1>1, <1>2, <1>3 DEF LineInv, InScript, Bounded, ClientStops, Clean, Returned
<1>5. AcksEnd'
  <2>1. OnLine' \subseteq OnLine
    BY <1>1, <1>2, OnEmpty DEF OnLine
  <2> QED
    BY <1>1, <1>2, <1>3, <2>1 DEF LineInv, AcksEnd, NotPolling
<1>6. Meets'
  BY <1>1 DEF LineInv, Meets
<1>7. SettingsFollow' /\ SettingsHold'
  BY <1>1 DEF SettingsFollow, SettingsHold, Returned
<1> QED
  BY <1>4, <1>5, <1>6, <1>7 DEF LineInv, OnPromptLine

(* The end of an exchange: unless the call is a multi-polling, everything  *)
(* that was under way has come and been read.                              *)
LEMMA ConcludeKeeps ==
  ASSUME LineInv, TypeOK', pc = "read",
         NEW kind \in {"Packets", "Empty", "Timeout", "SerialRead"},
         NEW packets \in Seq(Frames), kind = "Packets" => packets # <<>>,
         On(packets) \subseteq On(got) \cup On(inbuf),
         NEW val, Conclude(Answer(Now.cmd, kind, packets), val),
         pure /\ (kind = "Packets" => Belongs(Now.cmd, packets)) => pure',
         UNCHANGED readerVars, got' = <<>>, On(inbuf') \subseteq On(inbuf),
         Len(inbuf') <= Len(inbuf),
         call.name # "multi_polling_instruction" => Quiet /\ inbuf' = <<>>
  PROVE  LineInv'
<1> DEFINE status == Answer(Now.cmd, kind, packets)
<1>1. On(packets) \subseteq OnLine
  BY DEF OnLine
<1>2. Now.cmd = StopCmd /\ status = "Ok" => \E f \in On(packets) : Ack(f)
  BY <1>1, OkAnswer DEF LineInv
<1>3. InScript' /\ SettingsFollow' /\ SettingsHold'
  BY <1>1, SettingsConclude DEF LineInv
<1>4. /\ polled' <=> polled /\ ~(Now.cmd = StopCmd /\ status = "Ok")
      /\ owed' = IF Now.cmd = StopCmd /\ status = "Ok" /\ owed > 0 THEN owed - 1 ELSE owed
      /\ \/ /\ step < Len(Script(call)) /\ GoesOn(status)
            /\ pc' = "send" /\ step' = step + 1 /\ UNCHANGED <<call, result>>
            /\ failed' = failed \/ (failed' = status /\ status # "Ok")
         \/ /\ ~(step < Len(Script(call)) /\ GoesOn(status))
            /\ pc' = "idle" /\ UNCHANGED <<call, step, failed>>
            /\ result'.status = IF call.name = "setup_reader" THEN "Ok"
                                ELSE IF failed # "none" THEN failed ELSE status
  BY ConcludeIs
<1> HIDE DEF status
<1>5. UNCHANGED <<toDev, toHost, settings, rounds>> /\ call' = call /\ pc' \in {"idle", "send"}
  BY <1>4 DEF readerVars
<1>6. /\ Now.cmd = StopCmd <=> call.name \in StopCalls
      /\ Now.cmd = "MultiplePollingInstruction" <=> call.name \in Polls
  BY NowFits DEF LineInv, Fits
<1>7. call.name \notin StopCalls => owed' = owed /\ (polled' <=> polled)
  BY <1>4, <1>6
<1>8. owed \in 0..2 /\ owed <= 1 /\ owed' <= 1
  BY <1>4 DEF LineInv, TypeOK, ClientStops
<1>9. OnLine' \subseteq OnLine
  BY <1>5, OnEmpty DEF OnLine
<1>10. call.name # "multi_polling_instruction" => OnLine' = {} /\ On(toDev') = {}
  BY <1>5, OnEmpty DEF OnLine, Quiet
<1>11. ~polled' => NotPolling
  <2>1. CASE ~polled
    BY <2>1 DEF LineInv, AcksEnd
  <2>2. CASE Now.cmd = StopCmd /\ status = "Ok"
    BY <1>1, <1>2, <2>2 DEF LineInv, AcksEnd
  <2> QED
    BY <1>4, <2>1, <2>2
<1>12. Bounded'
  <2>1. Len(toDev) <= MaxLine /\ Len(toHost) <= MaxLine + MaxTags
    BY DEF LineInv, Bounded
  <2> QED
    BY <1>5, <2>1 DEF Bounded
<1>13. ClientStops'
  <2>1. ASSUME call.name \notin StopCalls
        PROVE  owed' = 0 /\ (call.name # "multi_polling_instruction" => ~polled')
    BY <1>7, <2>1 DEF LineInv, ClientStops
  <2>2. Returned(SetCalls)' => ~polled' /\ owed' = 0
    BY <1>5, <2>1 DEF Returned, SetCalls, Selects, StopCalls
  <2>3. Returned({"stop_multiple_polling_instructions"})' => ~polled'
    <3>1. ASSUME pc' = "idle", result'.status = "Ok",
                 call.name = "stop_multiple_polling_instructions"
          PROVE  ~polled'
      <4>1. status = "Ok"
        BY <1>4, <3>1 DEF LineInv, InScript
      <4> QED
        BY <1>4, <1>6, <3>1, <4>1 DEF StopCalls
    <3> QED
      BY <1>5, <3>1 DEF Returned
  <2> QED
    BY <1>5, <1>8, <2>1, <2>2, <2>3 DEF ClientStops
<1>14. Clean'
  <2>1. ASSUME ~polled' PROVE rounds = 0 /\ Quiet /\ inbuf' = <<>>
    <3>1. call.name # "multi_polling_instruction"
      BY <1>7, <2>1 DEF LineInv, ClientStops, StopCalls
    <3> QED
      BY <1>11, <2>1, <3>1 DEF NotPolling
  <2> QED
    BY <1>5, <2>1 DEF Clean, Quiet
<1>15. AcksEnd'
  <2>1. ASSUME owed' = 0
        PROVE  /\ \A f \in OnLine' : ~Ack(f)
               /\ \A r \in On(toDev') : r.cmd # StopCmd
    <3>1. CASE call.name = "multi_polling_instruction"
      BY <1>5, <1>7, <1>9, <2>1, <3>1 DEF LineInv, AcksEnd, StopCalls
    <3>2. CASE call.name # "multi_polling_instruction"
      BY <1>10, <3>2
    <3> QED
      BY <3>1, <3>2
  <2> QED
    BY <1>5, <1>9, <1>11, <2>1 DEF LineInv, AcksEnd, NotPolling
<1>16. Meets'
  <2>1. ASSUME call.name \notin StopCalls PROVE pure'
    <3>1. pure /\ Now.cmd # StopCmd
      BY <1>6, <2>1 DEF LineInv, Meets
    <3>2. CASE call.name = "multi_polling_instruction"
      <4>1. Now.cmd = "MultiplePollingInstruction"
        BY <1>6, <3>2 DEF Polls
      <4> QED
        BY <3>1, <4>1 DEF Belongs, StopCmd
    <3>3. CASE call.name # "multi_polling_instruction"
      <4>1. \A i \in 1..Len(packets) : packets[i].own
        BY <1>1, <2>1, <3>3 DEF LineInv, Meets, Asks, IsAnswer, On
      <4> QED
        BY <3>1, <4>1 DEF Belongs
    <3> QED
      BY <3>2, <3>3
  <2> QED
    BY <1>5, <2>1 DEF Meets
<1> QED
  BY <1>3, <1>12, <1>13, <1>14, <1>15, <1>16 DEF LineInv, OnPromptLine

(* A read that has what it expects, and is no multi-polling, expects one   *)
(* frame, and that was the only one: Many are not under way.               *)
LEMMA ReadsAll ==
  ASSUME LineInv, pc = "read", NEW n \in 1..Len(inbuf), Len(got) + n >= Now.expect,
         call.name # "multi_polling_instruction"
  PROVE  Quiet /\ n = Len(inbuf)
<1>1. /\ Len(toHost) \in Nat /\ Len(inbuf) \in Nat /\ Len(got) \in Nat /\ n \in Nat /\ n >= 1
      /\ n <= Len(inbuf) /\ Many \in Nat /\ Room \in Nat /\ Due \in Nat /\ Held \in Nat
  BY Counted, Sizes, ConnectorAssumption DEF LineInv
<1>2. Len(got) + n <= Held /\ Held <= Room /\ Room < Many
  <2>1. ToCome = Held + Due /\ ToCome <= Room /\ Room < Many
    BY DEF ToCome, LineInv, Bounded, OnPromptLine
  <2>2. Held <= Room
    BY <1>1, <2>1
  <2>3. Len(got) + n <= Held
    BY <1>1 DEF Held
  <2> QED
    BY <2>1, <2>2, <2>3
<1>3. Now.expect # Many
  BY <1>1, <1>2
<1>4. Now.expect = Expected(call) /\ Now.expect > 0
  BY NowFits DEF LineInv, Fits, InScript
<1>5. Asks(call) /\ Now.cmd # "SinglePollingInstruction"
  <2>1. call.name \notin StopCalls \cup {"single_polling_instruction"}
    BY <1>3, <1>4 DEF Expected
  <2> QED
    BY <2>1, NowFits DEF LineInv, Fits, Asks
<1>6. Held <= 1 /\ (toDev # <<>> => Held = 0)
  BY <1>5 DEF LineInv, Meets
<1>7. Len(toHost) = 0 /\ Len(got) = 0 /\ Len(inbuf) = 1 /\ Held # 0
  BY <1>1, <1>6 DEF Held
<1>8. toHost = <<>>
  BY <1>7 DEF LineInv, TypeOK, ReaderTypeOK
<1> QED
  BY <1>1, <1>6, <1>7, <1>8 DEF Quiet

(* The host takes frames out of its buffer.                                *)
LEMMA ReceiveKeeps == LineInv /\ TypeOK' /\ Receive => LineInv'
<1> SUFFICES ASSUME LineInv, TypeOK', Receive PROVE LineInv'
  OBVIOUS
<1>1. PICK n \in 1..Len(inbuf) :
        LET all     == got \o SubSeq(inbuf, 1, n)
            packets == SubSeq(all, 1, Now.expect)
        IN  /\ inbuf' = SubSeq(inbuf, n + 1, Len(inbuf))
            /\ IF Len(all) >= Now.expect
               THEN /\ got' = <<>>
                    /\ pure' = (pure /\ Belongs(Now.cmd, packets))
                    /\ Conclude(Answer(Now.cmd, "Packets", packets), packets[1].val)
               ELSE /\ got' = all
                    /\ UNCHANGED <<pc, call, step, failed, result, pure, polled, owed>>
  BY DEF Receive
<1> DEFINE taken   == SubSeq(inbuf, 1, n)
           all     == got \o taken
           packets == SubSeq(all, 1, Now.expect)
<1>2. pc = "read" /\ UNCHANGED readerVars
  BY DEF Receive
<1>3. UNCHANGED <<toDev, toHost, settings, rounds>>
  BY <1>2 DEF readerVars
<1>4. /\ inbuf \in Seq(Frames) /\ got \in Seq(Frames) /\ toDev \in Seq(Requests)
      /\ toHost \in Seq(Frames)
      /\ Len(inbuf) \in Nat /\ Len(got) \in Nat /\ Len(toDev) \in Nat /\ Len(toHost) \in Nat
      /\ Now.expect \in Nat /\ Now.expect > 0 /\ n \in Nat /\ 1 <= n /\ n <= Len(inbuf)
  <2>1. Now.expect \in Nat /\ Now.expect > 0
    BY <1>2, NowFits DEF LineInv, InScript, Exchanging
  <2>2. /\ inbuf \in Seq(Frames) /\ got \in Seq(Frames) /\ toDev \in Seq(Requests)
        /\ toHost \in Seq(Frames)
    BY DEF LineInv, TypeOK, ReaderTypeOK
  <2>3. Len(inbuf) \in Nat /\ Len(got) \in Nat /\ Len(toDev) \in Nat /\ Len(toHost) \in Nat
    BY <2>2
  <2>4. n \in Nat /\ 1 <= n /\ n <= Len(inbuf)
    BY <2>3
  <2> QED
    BY <2>1, <2>2, <2>3, <2>4
<1>5. /\ inbuf' = SubSeq(inbuf, n + 1, Len(inbuf)) /\ Len(inbuf') = Len(inbuf) - n
      /\ On(inbuf') \subseteq On(inbuf) /\ On(taken) \subseteq On(inbuf)
      /\ taken \in Seq(Frames) /\ Len(taken) = n
  <2>1. /\ n + 1 \in 1..(Len(inbuf) + 1) /\ n \in 0..Len(inbuf) /\ Len(inbuf) \in 0..Len(inbuf)
        /\ 1 \in 1..(Len(inbuf) + 1)
    BY <1>4
  <2>2. inbuf' = SubSeq(inbuf, n + 1, Len(inbuf))
    BY <1>1
  <2>3. Len(SubSeq(inbuf, n + 1, Len(inbuf))) = Len(inbuf) - n /\ Len(taken) = n
    BY <1>4
  <2> QED
    BY <1>4, <2>1, <2>2, <2>3, OnSubSeq
<1>6. /\ On(all) = On(got) \cup On(taken) /\ all \in Seq(Frames)
      /\ Len(all) = Len(got) + n
  <2>1. taken \in Seq(Frames) /\ Len(taken) = n
    BY <1>5
  <2> HIDE DEF taken
  <2>2. Len(all) = Len(got) + Len(taken)
    <3>1. \A s, t \in Seq(Frames) : Len(s \o t) = Len(s) + Len(t)
      OBVIOUS
    <3>2. got \in Seq(Frames)
      BY <1>4
    <3> QED
      BY <2>1, <3>1, <3>2
  <2> QED
    BY <1>4, <2>1, <2>2, OnConcat
<1>7. CASE Len(all) >= Now.expect
  <2>1. /\ got' = <<>> /\ Conclude(Answer(Now.cmd, "Packets", packets), packets[1].val)
        /\ pure' = (pure /\ Belongs(Now.cmd, packets))
    BY <1>1, <1>7
  <2>2. On(packets) \subseteq On(all) /\ packets \in Seq(Frames) /\ Len(packets) = Now.expect
    <3>1. all \in Seq(Frames) /\ Len(all) \in Nat /\ Len(all) >= Now.expect
      BY <1>6, <1>7
    <3> HIDE DEF all
    <3>2. 1 \in 1..(Len(all) + 1) /\ Now.expect \in 0..Len(all)
      BY <1>4, <3>1
    <3>3. Len(packets) = Now.expect
      BY <1>4, <3>1
    <3> QED
      BY <3>1, <3>2, <3>3, OnSubSeq
  <2> HIDE DEF packets, all, taken
  <2>3. packets # <<>>
    <3>1. Len(packets) >= 1 /\ Len(<<>>) = 0
      BY <1>4, <2>2
    <3> QED
      BY <3>1
  <2>4. On(packets) \subseteq On(got) \cup On(inbuf)
    BY <1>5, <1>6, <2>2
  <2>5. ASSUME call.name # "multi_polling_instruction" PROVE Quiet /\ inbuf' = <<>>
    <3>1. Quiet /\ n = Len(inbuf)
      BY <1>2, <1>6, <1>7, <2>5, ReadsAll
    <3>2. inbuf' \in Seq(Frames) /\ Len(inbuf') = 0
      BY <1>4, <1>5, <3>1 DEF TypeOK
    <3> QED
      BY <3>1, <3>2
  <2>6. Len(inbuf') <= Len(inbuf)
    BY <1>4, <1>5
  <2> QED
    BY <1>2, <1>5, <2>1, <2>2, <2>3, <2>4, <2>5, <2>6, ConcludeKeeps
<1>8. CASE ~(Len(all) >= Now.expect)
  <2>1. got' = all /\ UNCHANGED <<pc, call, step, failed, result, pure, polled, owed>>
    BY <1>1, <1>8
  <2>2. OnLine' \subseteq OnLine
    BY <1>3, <1>5, <1>6, <2>1 DEF OnLine
  <2>3. Len(got') = Len(got) + n
    BY <1>6, <2>1
  <2>4. PICK held \in Nat : Held' = held /\ held <= Held
    <3> DEFINE held == Len(toHost) + (Len(inbuf) - n) + (Len(got) + n)
    <3>1. held \in Nat /\ held <= Held
      BY <1>4 DEF Held
    <3>2. Held' = held
      BY <1>3, <1>5, <2>3 DEF Held
    <3> HIDE DEF held
    <3> QED
      BY <3>1, <3>2
  <2>5. Len(toDev') <= Len(toDev) /\ Len(toHost') <= Len(toHost) /\ StopsLast(toDev')
    BY <1>3, <1>4 DEF LineInv, AcksEnd
  <2> QED
    BY <1>2, <1>3, <2>1, <2>2, <2>4, <2>5, LessOnLine
<1> QED
  BY <1>7, <1>8

(* A read times out: nothing is under way.                                 *)
LEMMA TimedOutKeeps == LineInv /\ TypeOK' /\ TimedOut => LineInv'
<1> SUFFICES ASSUME LineInv, TypeOK', TimedOut PROVE LineInv'
  OBVIOUS
<1> DEFINE kind == IF got = <<>> THEN "Timeout" ELSE "Packets"
<1>1. EndRead(kind) /\ Quiet /\ inbuf = <<>>
  BY DEF TimedOut, MayTimeOut, LineInv, OnPromptLine
<1>2. kind \in {"Packets", "Timeout"} /\ (kind = "Packets" => got # <<>>)
  OBVIOUS
<1> HIDE DEF kind
<1>3. pc = "read" /\ got' = <<>> /\ UNCHANGED <<readerVars, inbuf>>
  BY <1>1 DEF EndRead
<1>4. /\ got \in Seq(Frames) /\ <<>> \in Seq(Frames) /\ On(<<>>) = {}
      /\ Len(inbuf') <= Len(inbuf)
  <2>1. Len(inbuf) \in Nat
    BY DEF LineInv, TypeOK
  <2> QED
    BY <1>3, <2>1, OnEmpty DEF LineInv, TypeOK
<1>5. CASE kind = "Packets"
  <2>1. /\ Conclude(Answer(Now.cmd, kind, got), got[1].val)
        /\ pure' = (pure /\ Belongs(Now.cmd, got))
    BY <1>1, <1>5 DEF EndRead
  <2> QED
    BY <1>1, <1>2, <1>3, <1>4, <1>5, <2>1, ConcludeKeeps
<1>6. CASE kind = "Timeout"
  <2>1. Conclude(Answer(Now.cmd, kind, <<>>), NoValue) /\ pure' = pure
    BY <1>1, <1>6 DEF EndRead
  <2> QED
    BY <1>1, <1>3, <1>4, <1>6, <2>1, ConcludeKeeps
<1> QED
  BY <1>2, <1>5, <1>6

-----------------------------------------------------------------------------
(* Theorems *)

(* Every step of the connector keeps LineInv.                              *)
LEMMA Inductive == LineInv /\ [Next]_vars => LineInv'
<1> SUFFICES ASSUME LineInv, [Next]_vars PROVE LineInv'
  OBVIOUS
<1>1. TypeOK'
  BY Typed DEF LineInv
<1>2. CASE Arrive
  BY <1>1, <1>2, ArriveKeeps
<1>3. CASE Reader
  <2>1. Refuse \/ CarryOut \/ PollRound \/ LoseRequest \/ LoseFrame
    BY <1>3 DEF Reader, ReaderStep
  <2>2. UNCHANGED <<inbuf, hostVars>>
    BY <1>3 DEF Reader
  <2> QED
    BY <1>1, <2>1, <2>2, TakeKeeps, PollKeeps, LossKeeps
<1>4. CASE \E c \in Calls : Invoke(c)
  BY <1>1, <1>4, InvokeKeeps
<1>5. CASE Send
  BY <1>1, <1>5, SendKeeps
<1>6. CASE SendFails \/ ClearFails \/ Eof \/ ReadError
  BY <1>6 DEF SendFails, ClearFails, Eof, ReadError, LineInv, OnPromptLine
<1>7. CASE Cancel
  BY <1>1, <1>7, CancelKeeps
<1>8. CASE Receive
  BY <1>1, <1>8, ReceiveKeeps
<1>9. CASE TimedOut
  BY <1>1, <1>9, TimedOutKeeps
<1>10. CASE UNCHANGED vars
  <2>1. UNCHANGED <<toDev, toHost, settings, rounds, inbuf, pc, call, step, got, failed, result,
                    pure, polled, owed>>
    BY <1>10 DEF vars, readerVars, hostVars
  <2>2. Now' = Now /\ OnLine' = OnLine /\ Held' = Held /\ ToCome' = ToCome
    BY <2>1, NowSame DEF OnLine, Held, Due, ToCome
  <2>3. InScript' /\ Bounded' /\ ClientStops' /\ Clean'
    BY <2>1, <2>2 DEF LineInv, InScript, Bounded, ClientStops, Clean, Returned, Quiet
  <2>4. AcksEnd' /\ Meets'
    BY <2>1, <2>2 DEF LineInv, AcksEnd, NotPolling, Meets
  <2>5. SettingsFollow' /\ SettingsHold'
    BY <2>1, <2>2 DEF LineInv, SettingsFollow, SettingsHold, Returned, Made
  <2> QED
    BY <1>1, <2>3, <2>4, <2>5 DEF LineInv, OnPromptLine
<1> QED
  BY <1>2, <1>3, <1>4, <1>5, <1>6, <1>7, <1>8, <1>9, <1>10 DEF Next

(* LineInv holds while nothing has been called.                            *)
LEMMA Initially == Init /\ OnPromptLine => LineInv
<1> SUFFICES ASSUME Init, OnPromptLine PROVE LineInv
  OBVIOUS
<1>1. TypeOK
  BY InitTyped
<1>2. /\ toDev = <<>> /\ toHost = <<>> /\ inbuf = <<>> /\ got = <<>> /\ pc = "idle"
      /\ failed = "none" /\ result.status = "none" /\ pure /\ owed = 0
      /\ (rounds = 0 \/ rounds = PollRounds) /\ (polled <=> rounds > 0)
  BY DEF Init, ReaderInit
<1>3. /\ On(toDev) = {} /\ OnLine = {} /\ (~polled => rounds = 0)
      /\ Len(toDev) = 0 /\ Len(toHost) = 0
  BY <1>2, OnEmpty, ReaderAssumption DEF OnLine
<1>4. Bounded
  <2>1. 0 <= MaxLine /\ 0 <= MaxLine + MaxTags
    BY ReaderAssumption
  <2> QED
    BY <1>2, <1>3, <2>1 DEF Bounded
<1>5. InScript /\ ClientStops /\ Clean /\ Meets
  BY <1>2, <1>3 DEF InScript, ClientStops, Clean, Quiet, Meets, Returned
<1>6. AcksEnd
  <2>1. StopsLast(toDev)
    BY <1>3 DEF StopsLast
  <2> QED
    BY <1>3, <2>1 DEF AcksEnd, NotPolling
<1>7. SettingsFollow /\ SettingsHold
  BY <1>2 DEF SettingsFollow, SettingsHold, Returned
<1> QED
  BY <1>1, <1>4, <1>5, <1>6, <1>7 DEF LineInv

(* LineInv holds throughout, on every prompt line.                         *)
THEOREM Invariance == Spec /\ OnPromptLine => []LineInv
<1>1. Init /\ OnPromptLine => LineInv
  BY Initially
<1>2. LineInv /\ [Next]_vars => LineInv'
  BY Inductive
<1> QED
  BY <1>1, <1>2, PTL DEF Spec

(* CleanBetweenCalls on every prompt line: each operation reads until the  *)
(* last frame of its own exchange, or leaves the client with a stop to     *)
(* make, whatever was lost, refused or dropped on the way.                 *)
THEOREM CleanBetween == Spec /\ OnPromptLine => []CleanBetweenCalls
<1>1. LineInv => CleanBetweenCalls
  BY DEF LineInv, Clean, CleanBetweenCalls
<1> QED
  BY <1>1, Invariance, PTL

(* OwnAnswer on every prompt line, for SyncIO and AsyncIO alike: without a *)
(* flush, what an operation reports still rests on answers to its own      *)
(* request, because the client stops after a call it dropped.              *)
THEOREM AnswersOwn == Spec /\ OnPromptLine => []OwnAnswer
<1>1. LineInv => OwnAnswer
  BY DEF LineInv, Meets, OwnAnswer
<1> QED
  BY <1>1, Invariance, PTL

(* SettingsHold on every prompt line: a setting operation that returned Ok *)
(* has set the reader, though earlier ones may have been dropped half-way. *)
THEOREM SettingsMade == Spec /\ OnPromptLine => []SettingsHold
<1>1. LineInv => SettingsHold
  BY DEF LineInv
<1> QED
  BY <1>1, Invariance, PTL

(* StopLeavesQuiet on every prompt line: one stop that returned Ok is      *)
(* enough after a dropped call, or after multi-polling.                    *)
THEOREM StopsQuiet == Spec /\ OnPromptLine => []StopLeavesQuiet
<1>1. LineInv => StopLeavesQuiet
  BY DEF LineInv, ClientStops, Clean, StopLeavesQuiet, Returned
<1> QED
  BY <1>1, Invariance, PTL
=============================================================================
