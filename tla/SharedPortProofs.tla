-------------------------- MODULE SharedPortProofs --------------------------
(***************************************************************************)
(* What the operations of the connector promise on the SharedPort of the   *)
(* CLI: for every reader, every choice of operations, a line that may lose *)
(* anything, reads that end before the answer has come, and any fault of   *)
(* the port.                                                               *)
(***************************************************************************)
EXTENDS ConnectorProofs

(* The port is the CLI's, what is under way arrives before the next        *)
(* request is sent, and the client stops multi-polling where it has to.    *)
OnSharedPort == Flush /\ Line = "settles" /\ Careful

(* At most the last request is on its way, and it is the client's own.     *)
OneRequest ==
  /\ Len(toDev) <= 1
  /\ \A r \in On(toDev) : r.own
  /\ pc = "read" => \A r \in On(toDev) : r.cmd = Now.cmd /\ r.arg = Now.arg

(* A request goes out over input that is stale only if it is a stop or     *)
(* another multi-polling: the client owes stops, or is polling.            *)
StopsAreMade ==
  /\ pc # "idle" /\ call.name \notin StopCalls =>
       /\ owed = 0
       /\ call.name # "multi_polling_instruction" => ~polled
  /\ pc # "read" /\ ~stale => owed = 2 \/ (owed = 0 /\ polled)

(* Polling ends with an acknowledgement: where one has been sent since,    *)
(* the reader is not polling and has not been told to.                     *)
AcksEndPolling ==
  /\ ~polled => NotPolling
  /\ \A f \in OnLine : Ack(f) => NotPolling
  /\ pc # "read" /\ ~stale /\ owed = 0 =>
       /\ \A f \in On(toHost) \cup On(inbuf) : ~Ack(f)
       /\ \A r \in On(toDev) : r.cmd # StopCmd

(* The acknowledgement of the last request is the last thing on the line,  *)
(* and a stop sees no other, unless more than one stop is owed.            *)
OwnAck(f) == Ack(f) /\ f.own

AckEnds(s) == \A i \in 1..Len(s) : OwnAck(s[i]) => i = Len(s)

AckIsLast ==
  /\ AckEnds(toHost) /\ AckEnds(inbuf)
  /\ \A f \in On(toHost) : OwnAck(f) => toDev = <<>> /\ rounds = 0
  /\ \A f \in On(inbuf) : OwnAck(f) => Quiet /\ rounds = 0
  /\ \A f \in On(got) : OwnAck(f) => inbuf = <<>> /\ Quiet /\ rounds = 0
  /\ pc = "read" /\ Now.cmd = StopCmd /\ owed < 2 => \A f \in OnLine : Ack(f) => f.own

(* Any other call, but a multi-polling, meets only answers to its request. *)
MeetsItsOwn ==
  /\ pc = "read" /\ call.name \notin StopCalls \cup {"multi_polling_instruction"} =>
       \A f \in OnLine : IsAnswer(f, Now.cmd)
  /\ call.name \notin StopCalls => pure

PortInv ==
  /\ OnSharedPort
  /\ TypeOK
  /\ InScript /\ OneRequest /\ StopsAreMade /\ AcksEndPolling /\ AckIsLast
  /\ MeetsItsOwn /\ SettingsFollow /\ SettingsHold /\ StopLeavesQuiet

-----------------------------------------------------------------------------
(* An acknowledgement that comes last stays last.                          *)
LEMMA AckEndsNone ==
  ASSUME NEW s, \A f \in On(s) : ~OwnAck(f)
  PROVE  AckEnds(s)
  BY DEF On, AckEnds

(* ... also when the first frame is taken off; if that is the              *)
(* acknowledgement, nothing is left.                                       *)
LEMMA AckEndsTail ==
  ASSUME NEW s \in Seq(Frames), s # <<>>, AckEnds(s)
  PROVE  AckEnds(Tail(s)) /\ (OwnAck(Head(s)) => Tail(s) = <<>>)
<1>1. \A i \in 1..Len(Tail(s)) : Tail(s)[i] = s[i + 1] /\ Len(s) = Len(Tail(s)) + 1
  OBVIOUS
<1>2. Head(s) = s[1] /\ Len(s) \in Nat /\ Len(s) >= 1
  OBVIOUS
<1> QED
  BY <1>1, <1>2 DEF AckEnds

(* ... when any frame is added behind frames that are no acknowledgement, *)
LEMMA AckEndsAppend ==
  ASSUME NEW s \in Seq(Frames), NEW x \in Frames, \A f \in On(s) : ~OwnAck(f)
  PROVE  AckEnds(Append(s, x))
  BY DEF On, AckEnds

(* ... and when an answer that ends with it is. *)
LEMMA AckEndsConcat ==
  ASSUME NEW s \in Seq(Frames), NEW t \in Seq(Frames),
         \A f \in On(s) : ~OwnAck(f), AckEnds(t)
  PROVE  AckEnds(s \o t)
<1> DEFINE u == s \o t
<1>1. /\ Len(u) = Len(s) + Len(t) /\ Len(s) \in Nat /\ Len(t) \in Nat
      /\ \A i \in 1..Len(u) : u[i] = IF i <= Len(s) THEN s[i] ELSE t[i - Len(s)]
  OBVIOUS
<1> HIDE DEF u
<1>2. ASSUME NEW i \in 1..Len(u), OwnAck(u[i]) PROVE i = Len(u)
  <2>1. CASE i <= Len(s)
    BY <1>1, <1>2, <2>1 DEF On
  <2>2. CASE ~(i <= Len(s))
    <3>1. i - Len(s) \in 1..Len(t) /\ u[i] = t[i - Len(s)]
      BY <1>1, <2>2
    <3>2. i - Len(s) = Len(t)
      BY <1>2, <3>1 DEF AckEnds
    <3> QED
      BY <1>1, <3>2
  <2> QED
    BY <2>1, <2>2
<1> QED
  BY <1>2 DEF AckEnds, u

(* A read that takes the acknowledgement leaves nothing behind it. *)
LEMMA AckEndsTake ==
  ASSUME NEW s \in Seq(Frames), NEW n \in 1..Len(s), AckEnds(s)
  PROVE  /\ AckEnds(SubSeq(s, n + 1, Len(s)))
         /\ \A f \in On(SubSeq(s, 1, n)) : OwnAck(f) => SubSeq(s, n + 1, Len(s)) = <<>>
<1> DEFINE u == SubSeq(s, n + 1, Len(s))
<1>1. /\ Len(u) = Len(s) - n /\ Len(s) \in Nat
      /\ \A i \in 1..Len(u) : u[i] = s[i + n]
      /\ Len(u) = 0 => u = <<>>
  OBVIOUS
<1>2. \A i \in 1..Len(SubSeq(s, 1, n)) : SubSeq(s, 1, n)[i] = s[i] /\ i \in 1..n
  OBVIOUS
<1> HIDE DEF u
<1>3. AckEnds(u)
  <2> SUFFICES ASSUME NEW i \in 1..Len(u), OwnAck(u[i]) PROVE i = Len(u)
    BY DEF AckEnds
  <2>1. i + n \in 1..Len(s) /\ OwnAck(s[i + n])
    BY <1>1
  <2> QED
    BY <1>1, <2>1 DEF AckEnds
<1>4. ASSUME NEW f \in On(SubSeq(s, 1, n)), OwnAck(f) PROVE u = <<>>
  <2>1. PICK i \in 1..n : f = s[i]
    BY <1>2 DEF On
  <2> QED
    BY <1>1, <1>4, <2>1 DEF AckEnds
<1> QED
  BY <1>3, <1>4 DEF u

(* The line loses something, or passes it on; the host reads on.           *)
LEMMA LessOnLine ==
  ASSUME PortInv, TypeOK', AckIsLast',
         UNCHANGED <<settings, pc, call, step, failed, result, pure, polled, owed>>,
         rounds' = rounds,
         On(toDev') \subseteq On(toDev), Len(toDev') <= Len(toDev),
         OnLine' \subseteq OnLine,
         On(toHost') \cup On(inbuf') \subseteq On(toHost) \cup On(inbuf),
         inbuf = <<>> /\ Quiet => inbuf' = <<>> /\ Quiet',
         toDev = <<>> => toDev' = <<>>,
         (stale' = stale /\ got' = got) \/ pc = "read"
  PROVE  PortInv'
<1> USE DEF PortInv
<1>1. Now' = Now
  BY NowSame
<1>2. InScript'
  BY <1>1 DEF InScript
<1>3. OneRequest'
  BY <1>1 DEF OneRequest, TypeOK, ReaderTypeOK
<1>4. StopsAreMade'
  BY DEF StopsAreMade
<1>5. AcksEndPolling'
  BY DEF AcksEndPolling, NotPolling
<1>6. MeetsItsOwn'
  BY <1>1 DEF MeetsItsOwn
<1>7. SettingsFollow'
  BY <1>1 DEF SettingsFollow, Made, Returned
<1>8. SettingsHold'
  BY DEF SettingsHold, Returned
<1>9. StopLeavesQuiet'
  BY DEF StopLeavesQuiet, Returned
<1> QED
  BY <1>2, <1>3, <1>4, <1>5, <1>6, <1>7, <1>8, <1>9 DEF OnSharedPort

(* A frame goes from the line into the host's buffer. *)
LEMMA ArriveKeeps == PortInv /\ TypeOK' /\ Arrive => PortInv'
<1> SUFFICES ASSUME PortInv, TypeOK', Arrive PROVE PortInv'
  OBVIOUS
<1>1. /\ toHost \in Seq(Frames) /\ inbuf \in Seq(Frames) /\ toHost # <<>>
      /\ toDev \in Seq(Requests)
  BY DEF PortInv, TypeOK, ReaderTypeOK, Arrive
<1>2. /\ On(toHost') \subseteq On(toHost) /\ Head(toHost) \in On(toHost)
      /\ Head(toHost) \in Frames
  BY <1>1, OnTail DEF Arrive
<1>3. inbuf' = inbuf \/ inbuf' = Append(inbuf, Head(toHost))
  BY DEF Arrive
<1>4. On(inbuf') \subseteq On(inbuf) \cup {Head(toHost)}
  <2>1. On(Append(inbuf, Head(toHost))) = On(inbuf) \cup {Head(toHost)}
    BY <1>1, <1>2, OnAppend
  <2> QED
    BY <1>3, <2>1
<1>5. UNCHANGED <<toDev, settings, rounds, stale, pc, call, step, got, failed, result, pure,
                  polled, owed>>
  BY DEF Arrive, hostVars
<1>6. AckIsLast'
  <2>1. \A f \in On(inbuf) \cup On(got) : ~OwnAck(f)
    BY <1>1 DEF PortInv, AckIsLast, Quiet
  <2>2. AckEnds(toHost') /\ (OwnAck(Head(toHost)) => toHost' = <<>>)
    BY <1>1, AckEndsTail DEF PortInv, AckIsLast, Arrive
  <2>3. AckEnds(inbuf')
    BY <1>1, <1>2, <1>3, <2>1, AckEndsAppend DEF PortInv, AckIsLast
  <2>4. Now' = Now
    BY <1>5, NowSame
  <2> QED
    BY <1>2, <1>4, <1>5, <2>1, <2>2, <2>3, <2>4 DEF PortInv, AckIsLast, Quiet, OnLine
<1>7. OnLine' \subseteq OnLine
  BY <1>2, <1>4, <1>5 DEF OnLine
<1>8. ~Quiet
  BY <1>1 DEF Quiet
<1> QED
  BY <1>1, <1>2, <1>4, <1>5, <1>6, <1>7, <1>8, LessOnLine

(* The line loses a request or a frame. *)
LEMMA LossKeeps ==
  PortInv /\ TypeOK' /\ (LoseRequest \/ LoseFrame) /\ UNCHANGED <<inbuf, hostVars>> => PortInv'
<1> SUFFICES ASSUME PortInv, TypeOK', LoseRequest \/ LoseFrame, UNCHANGED <<inbuf, hostVars>>
             PROVE  PortInv'
  OBVIOUS
<1>1. toHost \in Seq(Frames) /\ inbuf \in Seq(Frames) /\ toDev \in Seq(Requests)
  BY DEF PortInv, TypeOK, ReaderTypeOK
<1>2. UNCHANGED <<settings, rounds, stale, pc, call, step, got, failed, result, pure, polled,
                  owed, inbuf>>
  BY DEF LoseRequest, LoseFrame, hostVars
<1>3. Now' = Now
  BY <1>2, NowSame
<1>4. CASE LoseRequest
  <2>1. toDev # <<>> /\ toDev' = Tail(toDev) /\ toHost' = toHost
    BY <1>4 DEF LoseRequest
  <2>2. On(toDev') \subseteq On(toDev) /\ Len(toDev') <= Len(toDev)
    BY <1>1, <2>1, OnTail
  <2>3. AckIsLast'
    BY <1>2, <1>3, <2>1 DEF PortInv, AckIsLast, Quiet, OnLine
  <2> QED
    BY <1>1, <1>2, <2>1, <2>2, <2>3, LessOnLine DEF Quiet, OnLine
<1>5. CASE LoseFrame
  <2>1. toHost # <<>> /\ toHost' = Tail(toHost) /\ toDev' = toDev
    BY <1>5 DEF LoseFrame
  <2>2. On(toHost') \subseteq On(toHost) /\ AckEnds(toHost')
    BY <1>1, <2>1, OnTail, AckEndsTail DEF PortInv, AckIsLast
  <2>3. AckIsLast'
    BY <1>2, <1>3, <2>1, <2>2 DEF PortInv, AckIsLast, Quiet, OnLine
  <2>4. Len(toDev) <= Len(toDev)
    BY <1>1
  <2> QED
    BY <1>1, <1>2, <2>1, <2>2, <2>3, <2>4, LessOnLine DEF Quiet, OnLine
<1> QED
  BY <1>4, <1>5

(* The reader takes the one request there is: nothing on the line answers  *)
(* it yet, so that the acknowledgement of a stop comes last, and whatever  *)
(* a setting is answered with comes after the setting.                     *)
LEMMA TakeKeeps ==
  PortInv /\ TypeOK' /\ (Refuse \/ CarryOut) /\ UNCHANGED <<inbuf, hostVars>> => PortInv'
<1> SUFFICES ASSUME PortInv, TypeOK', Refuse \/ CarryOut, UNCHANGED <<inbuf, hostVars>>
             PROVE  PortInv'
  OBVIOUS
<1> DEFINE r == Head(toDev)
<1>1. /\ toHost \in Seq(Frames) /\ toDev \in Seq(Requests) /\ ReaderTypeOK
      /\ settings \in [Settings -> Args] /\ rounds \in Nat
  BY ReaderAssumption DEF PortInv, TypeOK, ReaderTypeOK
<1>2. UNCHANGED <<stale, pc, call, step, got, failed, result, pure, polled, owed, inbuf>>
  BY DEF hostVars
<1>3. Now' = Now
  BY <1>2, NowSame
<1>4. PICK new \in Seq(Frames) : toHost' = toHost \o new /\ Answers(r, new)
  BY <1>1, ReaderAnswers
<1>5. toDev # <<>> /\ r \in On(toDev) /\ toDev' = <<>>
  BY <1>1, ReaderAnswers, OnTail DEF PortInv, OneRequest
<1>6. On(toHost') = On(toHost) \cup On(new) /\ OnLine' = OnLine \cup On(new)
  BY <1>1, <1>2, <1>4, OnConcat DEF OnLine
<1>7. r.own /\ (pc = "read" => r.cmd = Now.cmd /\ r.arg = Now.arg)
  BY <1>5 DEF PortInv, OneRequest
<1>8. On(toDev') = {} /\ Len(toDev') = 0
  BY <1>5, OnEmpty
<1> HIDE DEF r
<1>9. InScript' /\ OneRequest'
  BY <1>2, <1>3, <1>8 DEF PortInv, InScript, OneRequest
<1>10. StopsAreMade'
  BY <1>2 DEF PortInv, StopsAreMade
<1>11. Error # StopCmd /\ StopCmd \notin PollCmds /\ StopCmd \notin SetCmds
       /\ "MultiplePollingInstruction" \notin SetCmds
  BY DEF Error, StopCmd, PollCmds, SetCmds
<1>12. AcksEndPolling'
  <2>1. ~polled' => NotPolling'
    BY <1>2, <1>4, <1>5, <1>8 DEF PortInv, AcksEndPolling, NotPolling, Answers
  <2>2. ASSUME NEW f \in OnLine', Ack(f) PROVE NotPolling'
    <3>1. CASE f \in On(new)
      BY <1>4, <1>8, <2>2, <3>1 DEF Answers, NotPolling, Ack
    <3>2. CASE f \in OnLine
      BY <1>4, <1>5, <1>8, <2>2, <3>2 DEF PortInv, AcksEndPolling, NotPolling, Answers
    <3> QED
      BY <1>6, <3>1, <3>2
  <2>3. pc' # "read" /\ ~stale' /\ owed' = 0 =>
          \A f \in On(toHost') \cup On(inbuf') : ~Ack(f)
    BY <1>2, <1>4, <1>5, <1>6, <1>11 DEF PortInv, AcksEndPolling, Ack, Answers
  <2> QED
    BY <1>8, <2>1, <2>2, <2>3 DEF AcksEndPolling
<1>13. AckIsLast'
  <2>1. \A f \in OnLine : ~OwnAck(f)
    BY <1>5 DEF PortInv, AckIsLast, Quiet, OnLine
  <2>2. AckEnds(new)
    <3>1. CASE r.cmd = StopCmd
      <4>1. Len(new) = 1
        BY <1>4, <1>11, <3>1 DEF Answers
      <4> QED
        BY <4>1 DEF AckEnds
    <3>2. CASE r.cmd # StopCmd
      BY <1>4, <1>11, <3>2, AckEndsNone DEF Answers, OwnAck, Ack
    <3> QED
      BY <3>1, <3>2
  <2>3. AckEnds(toHost')
    BY <1>1, <1>4, <2>1, <2>2, AckEndsConcat DEF OnLine
  <2>4. \A f \in On(toHost') : OwnAck(f) => toDev' = <<>> /\ rounds' = 0
    BY <1>4, <1>5, <1>6, <2>1 DEF OnLine, OwnAck, Ack, Answers
  <2>5. pc = "read" /\ Now.cmd = StopCmd /\ owed < 2 => \A f \in OnLine' : Ack(f) => f.own
    BY <1>4, <1>6, <1>7 DEF PortInv, AckIsLast, Answers
  <2> QED
    BY <1>2, <1>3, <2>1, <2>3, <2>4, <2>5 DEF PortInv, AckIsLast, OnLine
<1>14. MeetsItsOwn'
  <2>1. \A f \in On(new) : pc = "read" => IsAnswer(f, Now.cmd)
    BY <1>4, <1>7, ReaderAssumption DEF Answers, IsAnswer
  <2> QED
    BY <1>2, <1>3, <1>6, <2>1 DEF PortInv, MeetsItsOwn
<1>15. SettingsFollow'
  <2>1. ASSUME pc = "read", Now.cmd \in SetCmds, NEW f \in OnLine'
        PROVE  \/ f.cmd = Error /\ f.val = "code"
               \/ f.cmd = Now.cmd /\ Made(Now.cmd, Now.arg)'
    <3>1. CASE f \in On(new)
      <4>1. SettingOf(r.cmd) \in Settings
        BY <1>7, <2>1 DEF SetCmds, SettingOf, Settings
      <4>2. r.cmd = Now.cmd /\ r.arg = Now.arg
        BY <1>7, <2>1
      <4>3. \/ f.cmd = Error /\ f.val = "code"
            \/ f.cmd = r.cmd /\ settings' = [settings EXCEPT ![SettingOf(r.cmd)] = r.arg]
        BY <1>4, <2>1, <3>1, <4>2 DEF Answers
      <4>4. settings' = [settings EXCEPT ![SettingOf(r.cmd)] = r.arg] =>
              settings'[SettingOf(r.cmd)] = r.arg
        BY <1>1, <4>1
      <4> QED
        BY <1>3, <1>5, <4>2, <4>3, <4>4 DEF Made
    <3>2. CASE f \in OnLine
      BY <1>5, <2>1, <3>2 DEF PortInv, SettingsFollow, Made
    <3> QED
      BY <1>6, <3>1, <3>2
  <2>2. ASSUME pc # "idle", step = 2, call.name \in Selects
        PROVE  settings'["mask"] = settings["mask"] /\ pc = "read"
    <3>1. pc = "read"
      BY <1>5, <2>2 DEF PortInv, SettingsFollow, TypeOK, Selects
    <3>2. Now.cmd = "SetSendSelect"
      BY <2>2, ScriptOf DEF Now, Selects, Exchange
    <3>3. r.cmd = "SetSendSelect"
      BY <1>7, <3>1, <3>2
    <3> QED
      BY <1>1, <1>4, <3>1, <3>3 DEF Answers, SettingOf, Settings
  <2> QED
    BY <1>2, <1>3, <1>5, <2>1, <2>2 DEF PortInv, SettingsFollow, Returned, Selects
<1>16. SettingsHold'
  BY <1>2, <1>5 DEF PortInv, SettingsFollow, SettingsHold, Returned
<1>17. StopLeavesQuiet'
  BY <1>2, <1>5 DEF PortInv, StopLeavesQuiet, Returned, Quiet
<1> QED
  BY <1>9, <1>10, <1>12, <1>13, <1>14, <1>15, <1>16, <1>17 DEF PortInv, OnSharedPort

(* A round of multi-polling: no acknowledgement has been sent, and no call *)
(* waits that would take a tag for its answer.                             *)
LEMMA PollKeeps == PortInv /\ TypeOK' /\ PollRound /\ UNCHANGED <<inbuf, hostVars>> => PortInv'
<1> SUFFICES ASSUME PortInv, TypeOK', PollRound, UNCHANGED <<inbuf, hostVars>> PROVE PortInv'
  OBVIOUS
<1>1. /\ toHost \in Seq(Frames) /\ toDev \in Seq(Requests) /\ ReaderTypeOK /\ rounds > 0
      /\ rounds # 0 /\ TypeOK
  BY ReaderAssumption, ReaderPolls DEF PortInv, TypeOK, ReaderTypeOK
<1>2. UNCHANGED <<stale, pc, call, step, got, failed, result, pure, polled, owed, inbuf, toDev,
                  settings>>
  BY <1>1, ReaderPolls DEF hostVars
<1>3. Now' = Now
  BY <1>2, NowSame
<1>4. PICK new \in Seq(Frames) :
        toHost' = toHost \o new /\ \A f \in On(new) : f.cmd \in {Error, "SinglePollingInstruction"}
  BY <1>1, ReaderPolls
<1>5. On(toHost') = On(toHost) \cup On(new) /\ OnLine' = OnLine \cup On(new)
  BY <1>1, <1>2, <1>4, OnConcat DEF OnLine
<1>6. \A f \in OnLine' : ~Ack(f)
  BY <1>1, <1>4, <1>5 DEF PortInv, AcksEndPolling, NotPolling, Ack, Error, StopCmd
<1>7. polled
  BY <1>1 DEF PortInv, AcksEndPolling, NotPolling
<1>8. pc = "read" => call.name \in StopCalls \cup {"multi_polling_instruction"}
  BY <1>7 DEF PortInv, StopsAreMade
<1>9. InScript' /\ OneRequest'
  BY <1>2, <1>3 DEF PortInv, InScript, OneRequest
<1>10. StopsAreMade'
  BY <1>2 DEF PortInv, StopsAreMade
<1>11. AcksEndPolling'
  BY <1>2, <1>6, <1>7 DEF PortInv, AcksEndPolling, OnLine
<1>12. AckIsLast'
  <2>1. AckEnds(toHost') /\ AckEnds(inbuf')
    BY <1>6, AckEndsNone DEF OnLine, OwnAck
  <2> QED
    BY <1>6, <2>1 DEF AckIsLast, OwnAck, OnLine
<1>13. MeetsItsOwn'
  BY <1>2, <1>8 DEF PortInv, MeetsItsOwn
<1>14. SettingsFollow'
  <2>1. pc = "read" => Now.cmd \notin SetCmds
    BY <1>1, <1>8, NowFits DEF Fits, SetCmds, StopCmd, Polls, StopCalls
  <2> QED
    BY <1>2, <1>3, <2>1 DEF PortInv, SettingsFollow, Returned
<1>15. SettingsHold'
  BY <1>2 DEF PortInv, SettingsHold, Returned
<1>16. StopLeavesQuiet'
  BY <1>1, <1>2 DEF PortInv, StopLeavesQuiet, Returned
<1> QED
  BY <1>9, <1>10, <1>11, <1>12, <1>13, <1>14, <1>15, <1>16 DEF PortInv, OnSharedPort

(* A call begins: the client makes the stops it owes before anything else. *)
LEMMA InvokeKeeps ==
  ASSUME PortInv, TypeOK', NEW c \in Calls, Invoke(c)
  PROVE  PortInv'
<1>1. /\ UNCHANGED <<readerVars, inbuf, stale, polled, owed>>
      /\ pc = "idle" /\ call' = c /\ step' = 1 /\ got' = <<>> /\ failed' = "none" /\ pure' = TRUE
      /\ pc' \in {"idle", "send"}
  BY DEF Invoke
<1>2. pc' = "idle" => c.name = "write_mem" /\ result'.status = "FailedSetting"
  BY DEF Invoke
<1>3. UNCHANGED <<toDev, toHost, settings, rounds>>
  BY <1>1 DEF readerVars
<1>4. OnLine' \subseteq OnLine /\ On(got') = {}
  BY <1>1, <1>3, OnEmpty DEF OnLine
<1>5. InScript' /\ OneRequest'
  BY <1>1, <1>3 DEF PortInv, InScript, OneRequest
<1>6. StopsAreMade'
  <2>1. (polled => c.name \in StopCalls \cup {"multi_polling_instruction"})
        /\ (owed > 0 => c.name \in StopCalls) /\ owed \in 0..2
    BY DEF PortInv, OnSharedPort, Invoke, TypeOK
  <2> QED
    BY <1>1, <2>1 DEF PortInv, StopsAreMade
<1>7. AcksEndPolling'
  BY <1>1, <1>3, <1>4 DEF PortInv, AcksEndPolling, NotPolling
<1>8. AckIsLast'
  BY <1>1, <1>3, <1>4 DEF PortInv, AckIsLast, Quiet
<1>9. pure'
  BY <1>1
<1>10. MeetsItsOwn'
  BY <1>1, <1>9 DEF MeetsItsOwn
<1>11. SettingsFollow' /\ SettingsHold' /\ StopLeavesQuiet'
  BY <1>1, <1>2 DEF SettingsFollow, SettingsHold, StopLeavesQuiet, Returned
<1> QED
  BY <1>5, <1>6, <1>7, <1>8, <1>10, <1>11 DEF PortInv, OnSharedPort

(* What a write leaves on the line: the request, if it went out, and what  *)
(* the input buffer held, if it was not cleared. Only a stop, or another   *)
(* multi-polling, goes out over such input.                                *)
LEMMA WriteOnLine ==
  ASSUME PortInv, pc = "send", MaySend, NEW delivered \in BOOLEAN, Write(delivered)
  PROVE  /\ toHost' = <<>> /\ On(toHost') = {} /\ got' = <<>> /\ On(got') = {}
         /\ OnLine' = On(inbuf')
         /\ Len(toDev') <= 1
         /\ \A r \in On(toDev') : r.own /\ r.cmd = Now.cmd /\ r.arg = Now.arg
         /\ \A f \in On(inbuf') : ~f.own /\ \E g \in On(inbuf) : f.cmd = g.cmd
         /\ stale => On(inbuf') = {}
         /\ call.name \notin StopCalls => \A f \in On(inbuf') : ~Ack(f)
         /\ call.name \notin StopCalls \cup {"multi_polling_instruction"} => On(inbuf') = {}
         /\ UNCHANGED <<settings, rounds, pure>>
<1>1. Quiet /\ Flush
  BY DEF PortInv, OnSharedPort, MaySend
<1>2. /\ inbuf \in Seq(Frames) /\ <<>> \in Seq(Frames) /\ <<>> \in Seq(Requests)
      /\ Input \in Seq(Frames) /\ On(Input) \subseteq On(inbuf) /\ (stale => On(Input) = {})
  BY <1>1, OnEmpty DEF PortInv, TypeOK, Input
<1>3. Disown(toDev) = <<>> /\ Disown(toHost) = <<>>
  <2>1. Disown(<<>>) \in Seq(Frames) /\ Len(Disown(<<>>)) = 0
    BY <1>2, DisownFrames
  <2>2. Disown(<<>>) = <<>>
    BY <2>1
  <2> QED
    BY <1>1, <2>2 DEF Quiet
<1>4. toHost' = <<>> /\ got' = <<>> /\ UNCHANGED <<settings, rounds, pure>>
  BY <1>3 DEF Write
<1>5. On(toHost') = {} /\ On(got') = {} /\ OnLine' = On(inbuf')
  BY <1>4, OnEmpty DEF OnLine
<1>6. /\ Len(toDev') <= 1
      /\ \A r \in On(toDev') : r.own /\ r.cmd = Now.cmd /\ r.arg = Now.arg
  <2> DEFINE r == [cmd |-> Now.cmd, arg |-> Now.arg, own |-> TRUE]
  <2>1. toDev' = <<>> \o (IF delivered THEN <<r>> ELSE <<>>)
    BY <1>3 DEF Write
  <2>2. r \in Requests
    BY NowFits DEF PortInv, Exchanging, Requests
  <2>3. r.own /\ r.cmd = Now.cmd /\ r.arg = Now.arg
    OBVIOUS
  <2> HIDE DEF r
  <2>4. toDev' = <<r>> \/ toDev' = <<>>
    BY <2>1, <2>2
  <2>5. On(<<r>>) = {r} /\ Len(<<r>>) = 1 /\ On(<<>>) = {} /\ Len(<<>>) = 0
    BY OnEmpty DEF On
  <2>6. On(toDev') \subseteq {r} /\ Len(toDev') <= 1
    <3>1. CASE toDev' = <<r>>
      BY <2>5, <3>1
    <3>2. CASE toDev' = <<>>
      BY <2>5, <3>2
    <3> QED
      BY <2>4, <3>1, <3>2
  <2> QED
    BY <2>3, <2>6
<1>7. \A f \in On(inbuf') : ~f.own /\ \E g \in On(inbuf) : f.cmd = g.cmd
  BY <1>2, DisownFrames DEF Write
<1>8. stale => On(inbuf') = {}
  <2>1. ASSUME NEW f \in On(inbuf') PROVE \E g \in On(Input) : f.cmd = g.cmd
    BY <1>2, <2>1, DisownFrames DEF Write
  <2> QED
    BY <1>2, <2>1
<1>9. call.name \notin StopCalls => \A f \in On(inbuf') : ~Ack(f)
  BY <1>7, <1>8 DEF PortInv, StopsAreMade, AcksEndPolling, Ack
<1>10. call.name \notin StopCalls \cup {"multi_polling_instruction"} => On(inbuf') = {}
  BY <1>8 DEF PortInv, StopsAreMade
<1> QED
  BY <1>4, <1>5, <1>6, <1>7, <1>8, <1>9, <1>10

(* A request is sent: what is on the line is flushed or disowned, so that  *)
(* the answer to the last one cannot be taken for the answer to this one.  *)
LEMMA SendKeeps == PortInv /\ TypeOK' /\ Send => PortInv'
<1> SUFFICES ASSUME PortInv, TypeOK', Send PROVE PortInv'
  OBVIOUS
<1>1. pc = "send" /\ MaySend /\ Write(TRUE) /\ owed' = owed /\ stale' = FALSE
  BY DEF Send, Write
<1>2. polled' <=> polled \/ Now.cmd = "MultiplePollingInstruction"
  BY DEF Send
<1>3. /\ toHost' = <<>> /\ On(toHost') = {} /\ got' = <<>> /\ On(got') = {}
      /\ OnLine' = On(inbuf')
      /\ Len(toDev') <= 1
      /\ \A r \in On(toDev') : r.own /\ r.cmd = Now.cmd /\ r.arg = Now.arg
      /\ \A f \in On(inbuf') : ~f.own /\ \E g \in On(inbuf) : f.cmd = g.cmd
      /\ stale => On(inbuf') = {}
      /\ call.name \notin StopCalls => \A f \in On(inbuf') : ~Ack(f)
      /\ call.name \notin StopCalls \cup {"multi_polling_instruction"} => On(inbuf') = {}
      /\ UNCHANGED <<settings, rounds, pure>>
  BY <1>1, WriteOnLine
<1>4. UNCHANGED <<call, step, failed>>
  BY DEF Send, Return
<1>5. Now' = Now /\ Fits(call, Now) /\ Now.expect \in Nat
  BY <1>4, NowSame, NowFits DEF PortInv, Exchanging
<1>6. \/ pc' = "read" /\ Now.expect # 0 /\ result' = result
      \/ pc' = "idle" /\ Now.expect = 0
  BY DEF Send, Return
<1>7. /\ pc' = "idle" => call.name = "enable_multiple_polling_instructions"
      /\ pc' = "read" => call.name # "enable_multiple_polling_instructions"
  BY <1>5, <1>6 DEF Fits
<1>8. InScript' /\ OneRequest'
  BY <1>3, <1>4, <1>5, <1>6 DEF PortInv, InScript, OneRequest
<1>9. /\ Now.cmd = StopCmd <=> call.name \in StopCalls
      /\ Now.cmd = "MultiplePollingInstruction" <=> call.name \in Polls
  BY <1>5 DEF Fits
<1>10. StopsAreMade'
  <2>1. ASSUME call.name \notin StopCalls
        PROVE  owed = 0 /\ (call.name # "multi_polling_instruction" => ~polled)
    BY <1>1, <2>1 DEF PortInv, StopsAreMade
  <2>2. ASSUME pc' = "read", call.name \notin StopCalls, call.name # "multi_polling_instruction"
        PROVE  ~polled'
    BY <1>2, <1>7, <1>9, <2>1, <2>2 DEF Polls
  <2>3. ASSUME pc' # "read" PROVE owed = 0 /\ polled'
    BY <1>2, <1>6, <1>7, <1>9, <2>1, <2>3 DEF Polls, StopCalls
  <2> QED
    BY <1>1, <1>4, <1>6, <2>1, <2>2, <2>3 DEF StopsAreMade
<1>11. AcksEndPolling'
  <2>1. ~polled' => NotPolling'
    BY <1>2, <1>3 DEF PortInv, AcksEndPolling, NotPolling
  <2>2. ASSUME NEW f \in OnLine', Ack(f) PROVE NotPolling'
    <3>1. call.name \in StopCalls
      BY <1>3, <2>2
    <3>2. Now.cmd # "MultiplePollingInstruction"
      BY <1>9, <3>1 DEF Polls, StopCalls
    <3>3. PICK g \in On(inbuf) : f.cmd = g.cmd
      BY <1>3
    <3>4. NotPolling
      BY <2>2, <3>3 DEF PortInv, AcksEndPolling, OnLine, Ack
    <3> QED
      BY <1>3, <3>2, <3>4 DEF NotPolling
  <2>3. pc' # "read" => /\ \A f \in On(toHost') \cup On(inbuf') : ~Ack(f)
                        /\ \A r \in On(toDev') : r.cmd # StopCmd
    BY <1>3, <1>6, <1>7, <1>9 DEF StopCalls
  <2> QED
    BY <2>1, <2>2, <2>3 DEF AcksEndPolling
<1>12. AckIsLast'
  <2>1. AckEnds(toHost') /\ AckEnds(inbuf')
    BY <1>3, AckEndsNone DEF OwnAck
  <2>2. ASSUME Now.cmd = StopCmd, owed < 2, NEW f \in OnLine' PROVE ~Ack(f)
    BY <1>1, <1>3, <2>2 DEF PortInv, TypeOK, StopsAreMade, AcksEndPolling, Ack
  <2> QED
    BY <1>1, <1>3, <1>5, <2>1, <2>2 DEF AckIsLast, OwnAck
<1>13. MeetsItsOwn'
  BY <1>1, <1>3, <1>4 DEF PortInv, MeetsItsOwn
<1>14. SettingsFollow'
  <2>1. Now.cmd \in SetCmds => On(inbuf') = {}
    BY <1>3, <1>5 DEF Fits, SetCmds, Selects, StopCalls
  <2> QED
    BY <1>1, <1>3, <1>4, <1>5, <1>6, <1>7, <2>1 DEF PortInv, SettingsFollow, Returned
<1>15. SettingsHold' /\ StopLeavesQuiet'
  BY <1>4, <1>6, <1>7 DEF SettingsHold, StopLeavesQuiet, Returned
<1> QED
  BY <1>8, <1>10, <1>11, <1>12, <1>13, <1>14, <1>15 DEF PortInv, OnSharedPort

(* After a write that failed the client owes two stops, which excuses      *)
(* whatever is left in the input buffer.                                   *)
LEMMA SendFailsKeeps == PortInv /\ TypeOK' /\ SendFails => PortInv'
<1> SUFFICES ASSUME PortInv, TypeOK', SendFails PROVE PortInv'
  OBVIOUS
<1>1. PICK delivered \in BOOLEAN : Write(delivered)
  BY DEF SendFails
<1>2. /\ pc = "send" /\ MaySend /\ pc' = "idle" /\ owed' = 2 /\ UNCHANGED <<call, step, failed>>
      /\ result'.status = IF call.name = "setup_reader" THEN "Ok" ELSE "Io"
  BY DEF SendFails
<1>3. polled' <=> polled \/ Now.cmd = "MultiplePollingInstruction"
  BY DEF SendFails
<1>4. /\ toHost' = <<>> /\ On(toHost') = {} /\ got' = <<>> /\ On(got') = {}
      /\ OnLine' = On(inbuf')
      /\ Len(toDev') <= 1
      /\ \A r \in On(toDev') : r.own /\ r.cmd = Now.cmd /\ r.arg = Now.arg
      /\ \A f \in On(inbuf') : ~f.own /\ \E g \in On(inbuf) : f.cmd = g.cmd
      /\ call.name \notin StopCalls => \A f \in On(inbuf') : ~Ack(f)
      /\ UNCHANGED <<settings, rounds, pure>>
  BY <1>1, <1>2, WriteOnLine
<1>5. /\ Now.cmd = StopCmd <=> call.name \in StopCalls
      /\ Now.cmd = "MultiplePollingInstruction" <=> call.name \in Polls
  BY NowFits DEF PortInv, Fits
<1>6. InScript' /\ OneRequest' /\ StopsAreMade'
  BY <1>2, <1>4 DEF PortInv, InScript, OneRequest, StopsAreMade
<1>7. AcksEndPolling'
  <2>1. ~polled' => NotPolling'
    BY <1>3, <1>4 DEF PortInv, AcksEndPolling, NotPolling
  <2>2. ASSUME NEW f \in OnLine', Ack(f) PROVE NotPolling'
    <3>1. call.name \in StopCalls
      BY <1>4, <2>2
    <3>2. Now.cmd # "MultiplePollingInstruction"
      BY <1>5, <3>1 DEF Polls, StopCalls
    <3>3. PICK g \in On(inbuf) : f.cmd = g.cmd
      BY <1>4
    <3>4. NotPolling
      BY <2>2, <3>3 DEF PortInv, AcksEndPolling, OnLine, Ack
    <3> QED
      BY <1>4, <3>2, <3>4 DEF NotPolling
  <2> QED
    BY <1>2, <2>1, <2>2 DEF AcksEndPolling
<1>8. AckIsLast'
  <2>1. AckEnds(toHost') /\ AckEnds(inbuf')
    BY <1>4, AckEndsNone DEF OwnAck
  <2> QED
    BY <1>2, <1>4, <2>1 DEF AckIsLast, OwnAck
<1>9. MeetsItsOwn'
  BY <1>2, <1>4 DEF PortInv, MeetsItsOwn
<1>10. SettingsFollow' /\ SettingsHold' /\ StopLeavesQuiet'
  BY <1>2 DEF SettingsFollow, SettingsHold, StopLeavesQuiet, Returned
<1> QED
  BY <1>6, <1>7, <1>8, <1>9, <1>10 DEF PortInv, OnSharedPort

(* The flush before a request fails, and the request is not sent. *)
LEMMA ClearFailsKeeps == PortInv /\ TypeOK' /\ ClearFails => PortInv'
<1> SUFFICES ASSUME PortInv, TypeOK', ClearFails PROVE PortInv'
  OBVIOUS
<1>1. /\ pc = "send" /\ pc' = "idle" /\ owed' = 2
      /\ UNCHANGED <<readerVars, inbuf, call, step, got, failed, pure, polled>>
      /\ result'.status = IF call.name = "setup_reader" THEN "Ok" ELSE "Io"
  BY DEF ClearFails
<1>2. UNCHANGED <<toDev, toHost, settings, rounds>> /\ OnLine' = OnLine
  BY <1>1 DEF readerVars, OnLine
<1>3. InScript' /\ OneRequest' /\ StopsAreMade'
  BY <1>1, <1>2 DEF PortInv, InScript, OneRequest, StopsAreMade
<1>4. AcksEndPolling' /\ AckIsLast' /\ MeetsItsOwn'
  BY <1>1, <1>2 DEF PortInv, AcksEndPolling, NotPolling, AckIsLast, Quiet, MeetsItsOwn
<1>5. SettingsFollow' /\ SettingsHold' /\ StopLeavesQuiet'
  BY <1>1 DEF SettingsFollow, SettingsHold, StopLeavesQuiet, Returned
<1> QED
  BY <1>3, <1>4, <1>5 DEF PortInv, OnSharedPort

(* The end of an exchange: what a read returned decides how the call goes  *)
(* on.                                                                     *)
LEMMA ConcludeKeeps ==
  ASSUME PortInv, TypeOK', pc = "read",
         NEW kind \in {"Packets", "Empty", "Timeout", "SerialRead"},
         NEW packets \in Seq(Frames), kind = "Packets" => packets # <<>>,
         On(packets) \subseteq On(got) \cup On(inbuf),
         NEW val, Conclude(Answer(Now.cmd, kind, packets), val),
         pure /\ (kind = "Packets" => Belongs(Now.cmd, packets)) => pure',
         stale', UNCHANGED readerVars, got' = <<>>,
         On(inbuf') \subseteq On(inbuf), AckEnds(inbuf'),
         \A f \in On(packets) : OwnAck(f) => inbuf' = <<>>
  PROVE  PortInv'
<1> DEFINE status == Answer(Now.cmd, kind, packets)
<1>1. /\ Now.cmd = StopCmd /\ status = "Ok" =>
           kind = "Packets" /\ \E f \in On(packets) : Ack(f)
      /\ Now.cmd \in SetCmds /\ status = "Ok" => Made(Now.cmd, Now.arg)
  <2>1. SettingsFollow /\ On(packets) \subseteq OnLine
    BY DEF PortInv, OnLine
  <2> QED
    BY <2>1, OkAnswer
<1> HIDE DEF status
<1>2. /\ polled' <=> polled /\ ~(Now.cmd = StopCmd /\ status = "Ok")
      /\ owed' = IF Now.cmd = StopCmd /\ status = "Ok" /\ owed > 0 THEN owed - 1 ELSE owed
  BY DEF Conclude, NoteStop, status
<1>3. \/ /\ step < Len(Script(call)) /\ GoesOn(status)
         /\ pc' = "send" /\ step' = step + 1 /\ UNCHANGED <<call, result>>
         /\ failed' = failed \/ (failed' = status /\ status # "Ok")
      \/ /\ ~(step < Len(Script(call)) /\ GoesOn(status))
         /\ pc' = "idle" /\ UNCHANGED <<call, step, failed>>
         /\ result'.status = IF call.name = "setup_reader" THEN "Ok"
                             ELSE IF failed # "none" THEN failed ELSE status
  BY DEF Conclude, Return, status
<1>4. /\ Fits(call, Now) /\ Now = Script(call)[step]
      /\ step \in 1..Len(Script(call)) /\ Len(Script(call)) \in 1..3 /\ owed \in 0..2
      /\ call \in Calls
  BY NowFits, ScriptFits DEF PortInv, TypeOK, Now
<1>5. UNCHANGED <<toDev, toHost, settings, rounds>> /\ call' = call /\ pc' \in {"idle", "send"}
  BY <1>3 DEF readerVars
<1>6. OnLine' \subseteq OnLine /\ On(got') = {}
  BY <1>5, OnEmpty DEF OnLine
<1>7. call.name \notin StopCalls => Now.cmd # StopCmd /\ owed' = owed /\ (polled' <=> polled)
  BY <1>2, <1>4 DEF Fits
<1>8. pc' = "idle" /\ result'.status = "Ok" /\ call.name # "setup_reader" =>
        status = "Ok" /\ step = Len(Script(call))
  BY <1>3, <1>4 DEF PortInv, InScript, GoesOn
<1>9. InScript' /\ OneRequest'
  BY <1>3, <1>5 DEF PortInv, InScript, OneRequest, GoesOn
<1>10. StopsAreMade'
  BY <1>5, <1>7 DEF PortInv, StopsAreMade
<1>11. AcksEndPolling'
  <2>1. ASSUME ~polled' PROVE NotPolling
    <3>1. CASE ~polled
      BY <3>1 DEF PortInv, AcksEndPolling
    <3>2. CASE Now.cmd = StopCmd /\ status = "Ok"
      BY <1>1, <3>2 DEF PortInv, AcksEndPolling, OnLine
    <3> QED
      BY <1>2, <2>1, <3>1, <3>2
  <2> QED
    BY <1>5, <1>6, <2>1 DEF PortInv, AcksEndPolling, NotPolling
<1>12. AckIsLast'
  BY <1>5, <1>6 DEF PortInv, AckIsLast, Quiet
<1>13. MeetsItsOwn'
  <2>1. ASSUME call.name \notin StopCalls PROVE pure'
    <3>1. pure /\ Now.cmd # StopCmd
      BY <1>7, <2>1 DEF PortInv, MeetsItsOwn
    <3>2. CASE call.name = "multi_polling_instruction"
      <4>1. Now.cmd = "MultiplePollingInstruction"
        BY <1>4, <3>2 DEF Fits, Polls
      <4> QED
        BY <3>1, <4>1 DEF Belongs, StopCmd
    <3>3. CASE call.name # "multi_polling_instruction"
      <4>1. \A i \in 1..Len(packets) : packets[i].own
        BY <2>1, <3>3 DEF PortInv, MeetsItsOwn, IsAnswer, OnLine, On
      <4> QED
        BY <3>1, <4>1 DEF Belongs
    <3> QED
      BY <3>2, <3>3
  <2> QED
    BY <1>5, <2>1 DEF MeetsItsOwn
<1>14. SettingsFollow'
  <2>1. ASSUME pc' = "send", step' = 2, call.name \in Selects
        PROVE  settings["mask"] = Script(call)[1].arg /\ toDev = <<>>
    <3>1. step = 1 /\ status = "Ok"
      BY <1>3, <1>4, <2>1 DEF GoesOn, Selects
    <3>2. Now.cmd = "SetSelect"
      BY <1>4, <2>1, <3>1, ScriptOf DEF Selects, Exchange
    <3> QED
      BY <1>1, <1>4, <3>1, <3>2 DEF SetCmds, Made, SettingOf
  <2>2. ASSUME pc' = "idle", result'.status = "Ok",
               call.name \in {"set_transmission_power", "set_working_area"} \cup Selects
        PROVE  toDev = <<>>
    <3>1. Now.cmd \in SetCmds
      BY <1>4, <2>2 DEF Fits, SetCmds, Selects
    <3> QED
      BY <1>1, <1>8, <2>2, <3>1 DEF Made, Selects
  <2> QED
    BY <1>5, <2>1, <2>2 DEF SettingsFollow, Returned, Selects
<1>15. SettingsHold'
  <2>1. ASSUME pc' = "idle", result'.status = "Ok", call.name = "set_transmission_power"
        PROVE  settings["power"] = call.arg
    <3>1. Now.cmd = "SetTransmissionPower" /\ Now.arg = call.arg
      BY <1>4, <2>1 DEF Fits
    <3> QED
      BY <1>1, <1>8, <2>1, <3>1 DEF Made, SettingOf, SetCmds
  <2>2. ASSUME pc' = "idle", result'.status = "Ok", call.name = "set_working_area"
        PROVE  settings["area"] = call.arg
    <3>1. Now.cmd = "SetWorkingArea" /\ Now.arg = call.arg
      BY <1>4, <2>2 DEF Fits
    <3> QED
      BY <1>1, <1>8, <2>2, <3>1 DEF Made, SettingOf, SetCmds
  <2>3. ASSUME pc' = "idle", result'.status = "Ok", call.name \in Selects
        PROVE  /\ settings["mask"] = Script(call)[1].arg
               /\ settings["mode"] = Script(call)[2].arg
    <3>1. step = 2 /\ status = "Ok"
      BY <1>4, <1>8, <2>3, ScriptFits DEF Selects
    <3>2. Now.cmd = "SetSendSelect"
      BY <1>4, <2>3, <3>1, ScriptOf DEF Selects, Exchange
    <3>3. settings["mode"] = Now.arg
      BY <1>1, <3>1, <3>2 DEF Made, SettingOf, SetCmds
    <3> QED
      BY <1>4, <2>3, <3>1, <3>3 DEF PortInv, SettingsFollow, Selects
  <2>4. /\ call.name = "select_tag" =>
             Script(call)[1].arg = call.arg /\ Script(call)[2].arg = WithMask
        /\ call.name = "clear_select" =>
             Script(call)[1].arg = NoValue /\ Script(call)[2].arg = NoMask
    BY ScriptOf DEF Exchange
  <2> QED
    BY <1>5, <2>1, <2>2, <2>3, <2>4 DEF SettingsHold, Returned, Selects
<1>16. StopLeavesQuiet'
  <2> SUFFICES ASSUME pc' = "idle", result'.status = "Ok", owed' = 0,
                      call.name = "stop_multiple_polling_instructions"
               PROVE  rounds = 0 /\ Quiet /\ inbuf' = <<>>
    BY <1>5 DEF StopLeavesQuiet, Returned, Quiet
  <2>1. Now.cmd = StopCmd /\ status = "Ok" /\ owed < 2
    BY <1>2, <1>4, <1>8 DEF Fits, StopCalls
  <2>2. PICK f \in On(packets) : Ack(f)
    BY <1>1, <2>1
  <2>3. OwnAck(f)
    BY <2>1, <2>2 DEF PortInv, AckIsLast, OnLine, OwnAck
  <2> QED
    BY <2>2, <2>3 DEF PortInv, AckIsLast
<1> QED
  BY <1>9, <1>10, <1>11, <1>12, <1>13, <1>14, <1>15, <1>16 DEF PortInv, OnSharedPort

(* The host takes frames out of its buffer, and concludes once it has as   *)
(* many as it expects.                                                     *)
LEMMA ReceiveKeeps == PortInv /\ TypeOK' /\ Receive => PortInv'
<1> SUFFICES ASSUME PortInv, TypeOK', Receive PROVE PortInv'
  OBVIOUS
<1>1. PICK n \in 1..Len(inbuf) :
        LET all     == got \o SubSeq(inbuf, 1, n)
            packets == SubSeq(all, 1, Now.expect)
        IN  /\ inbuf' = SubSeq(inbuf, n + 1, Len(inbuf))
            /\ IF Len(all) >= Now.expect
               THEN /\ got' = <<>>
                    /\ pure' = (pure /\ Belongs(Now.cmd, packets))
                    /\ Conclude(Answer(Now.cmd, "Packets", packets), packets[1].val)
               ELSE /\ got' = all
                    /\ UNCHANGED <<pc, call, step, failed, result, pure, polled, owed>>
  BY DEF Receive
<1> DEFINE taken   == SubSeq(inbuf, 1, n)
           all     == got \o taken
           packets == SubSeq(all, 1, Now.expect)
<1>2. pc = "read" /\ stale' = TRUE /\ UNCHANGED readerVars
  BY DEF Receive
<1>3. UNCHANGED <<toDev, toHost, settings, rounds>>
  BY <1>2 DEF readerVars
<1>4. /\ inbuf \in Seq(Frames) /\ got \in Seq(Frames) /\ Now.expect \in Nat /\ Now.expect > 0
      /\ toDev \in Seq(Requests)
  BY <1>2, NowFits DEF PortInv, TypeOK, ReaderTypeOK, InScript, Exchanging
<1>5. /\ On(inbuf') \subseteq On(inbuf) /\ On(taken) \subseteq On(inbuf) /\ taken \in Seq(Frames)
      /\ AckEnds(inbuf') /\ \A f \in On(taken) : OwnAck(f) => inbuf' = <<>>
  <2>1. /\ n + 1 \in 1..(Len(inbuf) + 1) /\ n \in 0..Len(inbuf) /\ Len(inbuf) \in 0..Len(inbuf)
        /\ 1 \in 1..(Len(inbuf) + 1)
    BY <1>4
  <2>2. inbuf' = SubSeq(inbuf, n + 1, Len(inbuf)) /\ AckEnds(inbuf)
    BY <1>1 DEF PortInv, AckIsLast
  <2>3. On(inbuf') \subseteq On(inbuf) /\ On(taken) \subseteq On(inbuf) /\ taken \in Seq(Frames)
    BY <1>4, <2>1, <2>2, OnSubSeq
  <2>4. AckEnds(inbuf') /\ \A f \in On(taken) : OwnAck(f) => inbuf' = <<>>
    BY <1>4, <2>2, AckEndsTake
  <2> QED
    BY <2>3, <2>4
<1>6. On(all) = On(got) \cup On(taken) /\ all \in Seq(Frames)
  BY <1>4, <1>5, OnConcat
<1>7. n \in Nat /\ 1 <= n /\ inbuf # <<>>
  BY <1>4
<1>8. \A f \in On(got) : ~OwnAck(f)
  BY <1>7 DEF PortInv, AckIsLast
<1>9. CASE Len(all) >= Now.expect
  <2>1. /\ got' = <<>> /\ Conclude(Answer(Now.cmd, "Packets", packets), packets[1].val)
        /\ pure' = (pure /\ Belongs(Now.cmd, packets))
    BY <1>1, <1>9
  <2>2. On(packets) \subseteq On(all) /\ packets \in Seq(Frames) /\ Len(packets) = Now.expect
    <3> HIDE DEF all
    <3> QED
      BY <1>4, <1>6, <1>9, OnSubSeq
  <2> HIDE DEF packets, all, taken
  <2>3. packets # <<>>
    <3>1. Len(packets) >= 1 /\ Len(<<>>) = 0
      BY <1>4, <2>2
    <3> QED
      BY <3>1
  <2>4. On(packets) \subseteq On(got) \cup On(inbuf)
    BY <1>5, <1>6, <2>2
  <2>5. \A f \in On(packets) : OwnAck(f) => inbuf' = <<>>
    BY <1>5, <1>6, <1>8, <2>2
  <2> QED
    BY <1>2, <1>5, <2>1, <2>2, <2>3, <2>4, <2>5, ConcludeKeeps
<1>10. CASE ~(Len(all) >= Now.expect)
  <2>1. got' = all /\ UNCHANGED <<pc, call, step, failed, result, pure, polled, owed>>
    BY <1>1, <1>10
  <2>2. On(got') = On(got) \cup On(taken)
    BY <1>6, <2>1
  <2>3. OnLine' \subseteq OnLine
    BY <1>3, <1>5, <2>2 DEF OnLine
  <2>4. Now' = Now
    BY <2>1, NowSame
  <2>5. AckIsLast'
    BY <1>3, <1>5, <1>8, <2>1, <2>2, <2>3, <2>4 DEF PortInv, AckIsLast, Quiet
  <2>6. Len(toDev) <= Len(toDev)
    BY <1>4
  <2> QED
    BY <1>2, <1>3, <1>5, <1>7, <2>1, <2>3, <2>5, <2>6, LessOnLine
<1> QED
  BY <1>9, <1>10

(* A read ends without as many frames as it expects. *)
LEMMA EndReadKeeps ==
  ASSUME PortInv, TypeOK', NEW kind \in {"Packets", "Empty", "Timeout", "SerialRead"},
         EndRead(kind), kind = "Packets" => got # <<>>
  PROVE  PortInv'
<1>1. pc = "read" /\ stale' /\ got' = <<>> /\ UNCHANGED <<readerVars, inbuf>>
  BY DEF EndRead
<1>2. got \in Seq(Frames) /\ <<>> \in Seq(Frames) /\ On(<<>>) = {}
  BY OnEmpty DEF PortInv, TypeOK
<1>3. AckEnds(inbuf') /\ \A f \in On(got) : OwnAck(f) => inbuf' = <<>>
  BY <1>1 DEF PortInv, AckIsLast
<1>4. CASE kind = "Packets"
  <2>1. /\ Conclude(Answer(Now.cmd, kind, got), got[1].val)
        /\ pure' = (pure /\ Belongs(Now.cmd, got))
    BY <1>4 DEF EndRead
  <2> QED
    BY <1>1, <1>2, <1>3, <1>4, <2>1, ConcludeKeeps
<1>5. CASE kind # "Packets"
  <2>1. Conclude(Answer(Now.cmd, kind, <<>>), NoValue) /\ pure' = pure
    BY <1>5 DEF EndRead
  <2> QED
    BY <1>1, <1>2, <1>3, <1>5, <2>1, ConcludeKeeps
<1> QED
  BY <1>4, <1>5

(* Every step of the connector keeps PortInv. *)
LEMMA Inductive == PortInv /\ [Next]_vars => PortInv'
<1> SUFFICES ASSUME PortInv, [Next]_vars PROVE PortInv'
  OBVIOUS
<1>0. TypeOK'
  BY Typed DEF PortInv
<1>1. CASE Arrive
  BY <1>0, <1>1, ArriveKeeps
<1>2. CASE Reader
  BY <1>0, <1>2, TakeKeeps, PollKeeps, LossKeeps DEF Reader, ReaderStep
<1>3. CASE \E c \in Calls : Invoke(c)
  BY <1>0, <1>3, InvokeKeeps
<1>4. CASE Send
  BY <1>0, <1>4, SendKeeps
<1>5. CASE SendFails
  BY <1>0, <1>5, SendFailsKeeps
<1>6. CASE ClearFails
  BY <1>0, <1>6, ClearFailsKeeps
<1>7. CASE Cancel
  <2>1. IsAsync(call) /\ call \in Calls /\ Flush
    BY <1>7 DEF PortInv, TypeOK, OnSharedPort, Cancel
  <2> QED
    BY <2>1, ConnectorAssumption
<1>8. CASE Receive
  BY <1>0, <1>8, ReceiveKeeps
<1>9. CASE TimedOut
  BY <1>0, <1>9, EndReadKeeps DEF TimedOut
<1>10. CASE Eof \/ ReadError
  BY <1>0, <1>10, EndReadKeeps DEF Eof, ReadError
<1>11. CASE UNCHANGED vars
  <2>1. UNCHANGED <<toDev, toHost, settings, rounds, polling, inbuf, stale, pc, call, step, got,
                    failed, result, pure, polled, owed>>
    BY <1>11 DEF vars, readerVars, hostVars
  <2>2. Now' = Now /\ OnLine' = OnLine
    BY <2>1, NowSame DEF OnLine
  <2>3. InScript' /\ OneRequest' /\ StopsAreMade' /\ AcksEndPolling'
    BY <2>1, <2>2 DEF PortInv, InScript, OneRequest, StopsAreMade, AcksEndPolling, NotPolling
  <2>4. AckIsLast' /\ MeetsItsOwn'
    BY <2>1, <2>2 DEF PortInv, AckIsLast, Quiet, MeetsItsOwn
  <2>5. SettingsFollow' /\ SettingsHold' /\ StopLeavesQuiet'
    BY <2>1, <2>2 DEF PortInv, SettingsFollow, SettingsHold, StopLeavesQuiet, Returned, Quiet, Made
  <2> QED
    BY <1>0, <2>3, <2>4, <2>5 DEF PortInv, OnSharedPort
<1> QED
  BY <1>1, <1>2, <1>3, <1>4, <1>5, <1>6, <1>7, <1>8, <1>9, <1>10, <1>11 DEF Next

(* PortInv holds while nothing has been called. *)
LEMMA Initially == Init /\ OnSharedPort => PortInv
<1> SUFFICES ASSUME Init, OnSharedPort PROVE PortInv
  OBVIOUS
<1>1. TypeOK
  BY InitTyped
<1>2. /\ toDev = <<>> /\ toHost = <<>> /\ inbuf = <<>> /\ got = <<>> /\ stale /\ pc = "idle"
      /\ failed = "none" /\ result.status = "none" /\ pure /\ owed = 0
      /\ (rounds = 0 \/ rounds = PollRounds) /\ (polled <=> rounds > 0)
  BY DEF Init, ReaderInit
<1>3. On(toDev) = {} /\ OnLine = {} /\ Len(toDev) = 0 /\ (~polled => rounds = 0)
  BY <1>2, OnEmpty, ReaderAssumption DEF OnLine
<1>4. InScript /\ OneRequest /\ StopsAreMade /\ AcksEndPolling /\ MeetsItsOwn
  BY <1>2, <1>3 DEF InScript, OneRequest, StopsAreMade, AcksEndPolling, NotPolling, MeetsItsOwn
<1>5. AckIsLast
  BY <1>2, <1>3, AckEndsNone DEF AckIsLast, OnLine
<1>6. SettingsFollow /\ SettingsHold /\ StopLeavesQuiet
  BY <1>2 DEF SettingsFollow, SettingsHold, StopLeavesQuiet, Returned
<1> QED
  BY <1>1, <1>4, <1>5, <1>6 DEF PortInv

(* PortInv holds throughout, on every SharedPort. *)
THEOREM Invariance == Spec /\ OnSharedPort => []PortInv
<1>1. Init /\ OnSharedPort => PortInv
  BY Initially
<1>2. PortInv /\ [Next]_vars => PortInv'
  BY Inductive
<1> QED
  BY <1>1, <1>2, PTL DEF Spec

(* OwnAnswer on every SharedPort: what an operation reports, but for a     *)
(* stop, rests on answers to its own request, since every write flushes    *)
(* the input first (cli/port.rs) and a client stops multi-polling.  *)
THEOREM AnswersOwn == Spec /\ OnSharedPort => []OwnAnswer
<1>1. PortInv => OwnAnswer
  BY DEF PortInv, MeetsItsOwn, OwnAnswer
<1> QED
  BY <1>1, Invariance, PTL

(* SettingsHold on every SharedPort: a setting operation that returned Ok  *)
(* has set the reader.                                                     *)
THEOREM SettingsMade == Spec /\ OnSharedPort => []SettingsHold
<1>1. PortInv => SettingsHold
  BY DEF PortInv
<1> QED
  BY <1>1, Invariance, PTL

(* StopLeavesQuiet on every SharedPort: a stop that returned Ok, when no   *)
(* further one is owed, leaves a reader that is not polling and a line     *)
(* that is empty.                                                          *)
THEOREM StopsQuiet == Spec /\ OnSharedPort => []StopLeavesQuiet
<1>1. PortInv => StopLeavesQuiet
  BY DEF PortInv
<1> QED
  BY <1>1, Invariance, PTL
=============================================================================
