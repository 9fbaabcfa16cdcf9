--------------------------- MODULE ExchangeProofs ---------------------------
(***************************************************************************)
(* On the SharedPort of the CLI the operations of the connector implement  *)
(* Exchanges: every step of Connector is a step of Exchanges, or leaves    *)
(* what Exchanges sees of it alone.                                        *)
(***************************************************************************)
EXTENDS SharedPortProofs

(* What Exchanges sees of the connector. *)
Todo ==
  IF pc = "idle" THEN <<>>
  ELSE Requesting(SubSeq(Script(call), step, Len(Script(call))))

Reading == pc = "read"

Acked == HoldsAnswer(toHost) \/ HoldsAnswer(inbuf) \/ HoldsAnswer(got)

Outcome ==
  IF pc # "idle" \/ result.status = "none" THEN "none"
  ELSE IF result.status = "Ok" THEN "Ok" ELSE "failed"

-----------------------------------------------------------------------------
(* The steps of Exchanges, in these terms.                                 *)
LEMMA LoseStep ==
  ASSUME OnItsWay' \in {OnItsWay, <<>>}, Acked' => Acked,
         UNCHANGED <<settings, Todo, Outcome>>, Reading' <=> Reading
  PROVE  Promise!ExchangeNext
<1>1. Acked' \in {Acked, FALSE} /\ Reading' = Reading
  BY DEF Acked, HoldsAnswer, Reading
<1>2. Promise!Lose
  BY <1>1 DEF Promise!Lose, Todo, Acked, Outcome, Reading
<1> QED
  BY <1>2 DEF Promise!ExchangeNext

(* The reader carries out the request that is on its way: CarryOut. *)
LEMMA CarryOutStep ==
  ASSUME OnItsWay # <<>>, settings' = Promise!Effect(OnItsWay[1]), OnItsWay' = <<>>,
         UNCHANGED <<Todo, Outcome>>, Reading' <=> Reading
  PROVE  Promise!ExchangeNext
<1>1. Acked' \in BOOLEAN /\ Reading' = Reading
  BY DEF Acked, HoldsAnswer, Reading
<1>2. Promise!CarryOut
  BY <1>1 DEF Promise!CarryOut, Todo, Acked, Outcome, Reading
<1> QED
  BY <1>2 DEF Promise!ExchangeNext

(* A call begins with the requests of its script: Begin. *)
LEMMA BeginStep ==
  ASSUME Todo = <<>>, Todo' \in CallScripts, Outcome' = "none", Acked' <=> Acked,
         UNCHANGED <<settings, OnItsWay>>, Reading' <=> Reading
  PROVE  Promise!ExchangeNext
<1>1. Acked' = Acked /\ Reading' = Reading
  BY DEF Acked, HoldsAnswer, Reading
<1>2. Promise!Begin
  BY <1>1 DEF Promise!Begin, Todo, Acked, Outcome, Reading
<1> QED
  BY <1>2 DEF Promise!ExchangeNext

(* A call returns an error before it makes a request: Reject. *)
LEMMA RejectStep ==
  ASSUME Todo = <<>>, Todo' = <<>>, Outcome' = "failed", Acked' <=> Acked,
         UNCHANGED <<settings, OnItsWay>>, Reading' <=> Reading
  PROVE  Promise!ExchangeNext
<1>1. Acked' = Acked /\ Reading' = Reading
  BY DEF Acked, HoldsAnswer, Reading
<1>2. Promise!Reject
  BY <1>1 DEF Promise!Reject, Todo, Acked, Outcome, Reading
<1> QED
  BY <1>2 DEF Promise!ExchangeNext

(* A request is made and its answer read: Ask. *)
LEMMA AskStep ==
  ASSUME Todo # <<>>, ~Reading, OnItsWay = <<>>, Reading', ~Acked',
         OnItsWay' \in {<<>>, <<Head(Todo)>>}, UNCHANGED <<settings, Todo, Outcome>>
  PROVE  Promise!ExchangeNext
<1>1. Acked' = FALSE /\ Reading' = TRUE
  BY DEF Acked, HoldsAnswer, Reading
<1>2. Promise!Ask
  BY <1>1 DEF Promise!Ask, Todo, Acked, Outcome, Reading
<1> QED
  BY <1>2 DEF Promise!ExchangeNext

(* A write fails, and the call with it: AskInVain. *)
LEMMA AskInVainStep ==
  ASSUME Todo # <<>>, ~Reading, OnItsWay = <<>>, ~Reading', ~Acked',
         OnItsWay' \in {<<>>, <<Head(Todo)>>}, Todo' = <<>>, Outcome' = "failed",
         UNCHANGED settings
  PROVE  Promise!ExchangeNext
<1>1. Acked' = FALSE /\ Reading' = Reading
  BY DEF Acked, HoldsAnswer, Reading
<1>2. Promise!AskInVain
  BY <1>1 DEF Promise!AskInVain, Todo, Acked, Outcome, Reading
<1> QED
  BY <1>2 DEF Promise!ExchangeNext

(* A last request whose answer is not read: AskOnly. *)
LEMMA AskOnlyStep ==
  ASSUME Todo # <<>>, ~Reading, OnItsWay = <<>>, ~Reading', ~Acked',
         Len(Todo) = 1, Head(Todo).cmd \notin ConfirmedCmds,
         OnItsWay' = <<>>, Todo' = <<>>, Outcome' = "Ok", UNCHANGED settings
  PROVE  Promise!ExchangeNext
<1>1. Acked' = FALSE /\ Reading' = Reading
  BY DEF Acked, HoldsAnswer, Reading
<1>2. Promise!AskOnly
  BY <1>1 DEF Promise!AskOnly, Todo, Acked, Outcome, Reading
<1> QED
  BY <1>2 DEF Promise!ExchangeNext

(* A last request that need not be confirmed is not made: Skip. *)
LEMMA SkipStep ==
  ASSUME Todo # <<>>, ~Reading, ~Reading', Acked' <=> Acked,
         Len(Todo) = 1, Head(Todo).cmd \notin ConfirmedCmds,
         Todo' = <<>>, Outcome' = "Ok", UNCHANGED <<settings, OnItsWay>>
  PROVE  Promise!ExchangeNext
<1>1. Acked' = Acked /\ Reading' = Reading
  BY DEF Acked, HoldsAnswer, Reading
<1>2. Promise!Skip
  BY <1>1 DEF Promise!Skip, Todo, Acked, Outcome, Reading
<1> QED
  BY <1>2 DEF Promise!ExchangeNext

(* A call gets past its request: Succeed. *)
LEMMA SucceedStep ==
  ASSUME Reading, Head(Todo).cmd \in ConfirmedCmds => Acked, Todo' = Tail(Todo),
         ~Reading', Acked' => Acked,
         Outcome' = IF Todo' = <<>> THEN "Ok" ELSE Outcome,
         UNCHANGED <<settings, OnItsWay>>
  PROVE  Promise!ExchangeNext
<1>1. Acked' \in {Acked, FALSE} /\ Reading' = FALSE
  BY DEF Acked, HoldsAnswer, Reading
<1>2. Promise!Succeed
  BY <1>1 DEF Promise!Succeed, Todo, Acked, Outcome, Reading
<1> QED
  BY <1>2 DEF Promise!ExchangeNext

(* A call gives up: Fail. *)
LEMMA FailStep ==
  ASSUME Todo # <<>>, Todo' = <<>>, ~Reading', Acked' => Acked, Outcome' = "failed",
         UNCHANGED <<settings, OnItsWay>>
  PROVE  Promise!ExchangeNext
<1>1. Acked' \in {Acked, FALSE} /\ Reading' = FALSE
  BY DEF Acked, HoldsAnswer, Reading
<1>2. Promise!Fail
  BY <1>1 DEF Promise!Fail, Todo, Acked, Outcome, Reading
<1> QED
  BY <1>2 DEF Promise!ExchangeNext

-----------------------------------------------------------------------------
(* What is left of a script, one exchange after another.                   *)
Rest(s, k) == Requesting(SubSeq(s, k, Len(s)))

(* The head of a sequence is its first element. *)
LEMMA HeadFirst ==
  ASSUME NEW S, NEW s \in Seq(S), s # <<>>
  PROVE  Len(s) \in Nat /\ Len(s) >= 1 /\ Head(s) = s[1]
  OBVIOUS

(* Sequences of the same length with the same elements are the same. *)
LEMMA SameSequence ==
  ASSUME NEW S, NEW s \in Seq(S), NEW t \in Seq(S), Len(s) = Len(t),
         \A i \in 1..Len(s) : s[i] = t[i]
  PROVE  s = t
<1>1. /\ s = [i \in 1..Len(s) |-> s[i]]
      /\ t = [i \in 1..Len(t) |-> t[i]]
  OBVIOUS
<1> QED
  BY <1>1, Zenon

(* What is left of a script from one of its steps on: it is not empty, and *)
(* past that step its tail is left.                                        *)
LEMMA RestOf ==
  ASSUME NEW s \in Seq(Exchanging), NEW k \in 1..Len(s)
  PROVE  /\ Rest(s, k) # <<>> /\ Head(Rest(s, k)) = Asked(s[k])
         /\ Len(Rest(s, k)) = Len(s) - k + 1
         /\ k < Len(s) => Tail(Rest(s, k)) = Rest(s, k + 1)
         /\ k = Len(s) => Tail(Rest(s, k)) = <<>>
<1> DEFINE u(j) == SubSeq(s, j, Len(s))
           R    == [cmd : Commands, arg : Args]
<1>1. \A j \in 1..Len(s) : /\ u(j) \in Seq(Exchanging) /\ Len(u(j)) = Len(s) - j + 1
                           /\ \A i \in 1..Len(u(j)) : u(j)[i] = s[i + j - 1]
  OBVIOUS
<1>2. \A x \in Exchanging : Asked(x) \in R
  BY DEF Exchanging, Asked
<1> HIDE DEF u, R
<1>3. ASSUME NEW j \in 1..Len(s)
      PROVE  /\ Rest(s, j) \in Seq(R) /\ Len(Rest(s, j)) = Len(s) - j + 1
             /\ \A i \in 1..(Len(s) - j + 1) : Rest(s, j)[i] = Asked(s[i + j - 1])
  <2>1. Rest(s, j) = [i \in 1..(Len(s) - j + 1) |-> Asked(u(j)[i])]
    BY <1>1 DEF Rest, Requesting, u
  <2>2. \A i \in 1..(Len(s) - j + 1) : u(j)[i] = s[i + j - 1] /\ s[i + j - 1] \in Exchanging
    BY <1>1
  <2>3. Len(s) - j + 1 \in Nat
    OBVIOUS
  <2> QED
    BY <1>2, <2>1, <2>2, <2>3
<1>4. Rest(s, k) # <<>> /\ Head(Rest(s, k)) = Asked(s[k]) /\ Len(Rest(s, k)) = Len(s) - k + 1
  <2>1. Len(Rest(s, k)) >= 1 /\ 1 \in 1..(Len(s) - k + 1) /\ 1 + k - 1 = k
    BY <1>3
  <2>2. Rest(s, k)[1] = Asked(s[k])
    BY <1>3, <2>1
  <2> QED
    BY <1>3, <2>1, <2>2
<1>5. ASSUME k < Len(s) PROVE Tail(Rest(s, k)) = Rest(s, k + 1)
  <2>1. k + 1 \in 1..Len(s)
    BY <1>5
  <2>2. /\ Tail(Rest(s, k)) \in Seq(R) /\ Len(Tail(Rest(s, k))) = Len(s) - k
        /\ \A i \in 1..(Len(s) - k) : Tail(Rest(s, k))[i] = Rest(s, k)[i + 1]
    BY <1>3, <1>4
  <2>3. ASSUME NEW i \in 1..(Len(s) - k) PROVE Tail(Rest(s, k))[i] = Rest(s, k + 1)[i]
    <3>1. /\ i + 1 \in 1..(Len(s) - k + 1) /\ (i + 1) + k - 1 = i + k
          /\ i \in 1..(Len(s) - (k + 1) + 1) /\ i + (k + 1) - 1 = i + k
      BY <1>5
    <3> QED
      BY <1>3, <2>1, <2>2, <3>1
  <2>4. Rest(s, k + 1) \in Seq(R) /\ Len(Rest(s, k + 1)) = Len(s) - k
    BY <1>3, <2>1
  <2> QED
    BY <2>2, <2>3, <2>4, SameSequence
<1>6. ASSUME k = Len(s) PROVE Tail(Rest(s, k)) = <<>>
  BY <1>3, <1>4, <1>6
<1> QED
  BY <1>4, <1>5, <1>6

(* Answers that count, on the line; and which requests have them.          *)
LEMMA AckedOn == Acked <=> \E f \in OnLine : OwnConfirmed(f)
BY DEF Acked, HoldsAnswer, OnLine, On

(* Stops, polls and questions need no confirmation. *)
LEMMA Unconfirmed ==
  /\ ConfirmedCmds \cap ({Error, StopCmd} \cup PollCmds \cup InfoCmds) = {}
  /\ SetCmds \subseteq ConfirmedCmds
BY DEF ConfirmedCmds, SetCmds, TagCmds, Error, StopCmd, PollCmds, InfoCmds

(* Of the line's requests, there is at most the one.                       *)
LEMMA OnTheWay ==
  ASSUME toDev \in Seq(Requests), OneRequest
  PROVE  /\ toDev = <<>> => OnItsWay = <<>>
         /\ toDev # <<>> =>
              OnItsWay = IF Head(toDev).cmd \in ConfirmedCmds THEN <<Asked(Head(toDev))>> ELSE <<>>
<1>1. ASSUME toDev # <<>>
      PROVE  OnItsWay = IF Head(toDev).cmd \in ConfirmedCmds THEN <<Asked(Head(toDev))>> ELSE <<>>
  <2>1. Len(toDev) = 1 /\ Head(toDev) = toDev[1]
    <3>1. Len(toDev) \in Nat /\ Len(toDev) >= 1 /\ Head(toDev) = toDev[1]
      BY <1>1, HeadFirst
    <3>2. Len(toDev) <= 1
      BY DEF OneRequest
    <3> QED
      BY <3>1, <3>2
  <2>2. toDev[Len(toDev)] = Head(toDev) /\ Head(toDev) \in On(toDev)
    BY <2>1 DEF On
  <2>3. Head(toDev).own
    BY <2>2 DEF OneRequest
  <2> QED
    BY <1>1, <2>2, <2>3 DEF OnItsWay, OwnConfirmed
<1> QED
  BY <1>1 DEF OnItsWay

(* The call under way still has its present exchange to get past.          *)
LEMMA TodoNow ==
  ASSUME TypeOK, pc # "idle"
  PROVE  /\ Todo = Rest(Script(call), step) /\ Todo # <<>> /\ Head(Todo) = Asked(Now)
         /\ Len(Todo) = Len(Script(call)) - step + 1
         /\ step < Len(Script(call)) => Tail(Todo) = Rest(Script(call), step + 1)
         /\ step = Len(Script(call)) => Tail(Todo) = <<>>
<1>1. Script(call) \in Seq(Exchanging) /\ step \in 1..Len(Script(call))
  BY ScriptFits DEF TypeOK, AllFit
<1>2. Todo = Rest(Script(call), step)
  BY DEF Todo, Rest
<1> QED
  BY <1>1, <1>2, RestOf DEF Now

(* A buffer holds the answer that confirms a request if such a frame is on *)
(* it.                                                                     *)
LEMMA HoldsOn ==
  ASSUME NEW s
  PROVE  HoldsAnswer(s) <=> \E f \in On(s) : OwnConfirmed(f)
BY DEF HoldsAnswer, On

(* AckedOn in the next state. *)
LEMMA AckedNext == Acked' <=> \E f \in OnLine' : OwnConfirmed(f)
BY HoldsOn DEF Acked, OnLine

(* What a step of the reader or of the line leaves alone.                  *)
LEMMA HostSame ==
  ASSUME UNCHANGED <<pc, call, step, result>>
  PROVE  UNCHANGED <<Todo, Outcome>> /\ (Reading' <=> Reading)
BY DEF Todo, Outcome, Reading

-----------------------------------------------------------------------------
(* The line passes a frame on, or loses something; the answer to the       *)
(* request may be lost with it.                                            *)
LEMMA LineMaps ==
  PortInv /\ (Arrive \/ ((LoseRequest \/ LoseFrame) /\ UNCHANGED <<inbuf, hostVars>>))
    => Promise!ExchangeNext
<1> SUFFICES ASSUME PortInv, Arrive \/ ((LoseRequest \/ LoseFrame) /\ UNCHANGED <<inbuf, hostVars>>)
             PROVE  Promise!ExchangeNext
  OBVIOUS
<1>1. toHost \in Seq(Frames) /\ inbuf \in Seq(Frames) /\ toDev \in Seq(Requests) /\ OneRequest
  BY DEF PortInv, TypeOK, ReaderTypeOK
<1>2. UNCHANGED <<settings, pc, call, step, got, result>>
  BY DEF Arrive, LoseRequest, LoseFrame, hostVars
<1>3. UNCHANGED <<Todo, Outcome>> /\ (Reading' <=> Reading)
  BY <1>2, HostSame
<1>4. OnLine' \subseteq OnLine
  <2>1. CASE Arrive
    <3>1. toHost # <<>> /\ toHost' = Tail(toHost)
          /\ (inbuf' = inbuf \/ inbuf' = Append(inbuf, Head(toHost)))
      BY <2>1 DEF Arrive
    <3>2. On(toHost') \subseteq On(toHost) /\ Head(toHost) \in On(toHost) /\ Head(toHost) \in Frames
      <4>1. On(toHost') \subseteq On(toHost) /\ Head(toHost) \in On(toHost)
        BY <1>1, <3>1, OnTail
      <4>2. On(toHost) \subseteq Frames
        BY <1>1, OnTyped
      <4> QED
        BY <4>1, <4>2
    <3>3. On(inbuf') \subseteq On(inbuf) \cup {Head(toHost)}
      <4>1. On(Append(inbuf, Head(toHost))) = On(inbuf) \cup {Head(toHost)}
        BY <1>1, <3>2, OnAppend
      <4> QED
        BY <3>1, <4>1
    <3> QED
      BY <1>2, <3>2, <3>3 DEF OnLine
  <2>2. CASE LoseRequest /\ UNCHANGED <<inbuf, hostVars>>
    BY <1>2, <2>2 DEF LoseRequest, OnLine
  <2>3. CASE LoseFrame /\ UNCHANGED <<inbuf, hostVars>>
    BY <1>1, <1>2, <2>3, OnTail DEF LoseFrame, OnLine
  <2> QED
    BY <2>1, <2>2, <2>3
<1>5. OnItsWay' \in {OnItsWay, <<>>}
  <2>1. toDev' = toDev \/ toDev' = <<>>
    <3>1. CASE LoseRequest
      <4>1. toDev # <<>> /\ toDev' = Tail(toDev) /\ Len(toDev) <= 1
        BY <1>1, <3>1 DEF LoseRequest, OneRequest
      <4> QED
        BY <1>1, <4>1, OnTail
    <3> QED
      BY <3>1 DEF Arrive, LoseFrame
  <2> QED
    BY <2>1 DEF OnItsWay
<1> QED
  BY <1>2, <1>3, <1>4, <1>5, AckedOn, AckedNext, LoseStep

(* A round of multi-polling sends no answer that counts.                   *)
LEMMA PollMaps ==
  PortInv /\ PollRound /\ UNCHANGED <<inbuf, hostVars>> => Promise!ExchangeNext
<1> SUFFICES ASSUME PortInv, PollRound, UNCHANGED <<inbuf, hostVars>>
             PROVE  Promise!ExchangeNext
  OBVIOUS
<1>1. toHost \in Seq(Frames) /\ ReaderTypeOK
  BY DEF PortInv, TypeOK, ReaderTypeOK
<1>2. UNCHANGED <<settings, toDev, inbuf, pc, call, step, got, result>>
  BY <1>1, ReaderPolls DEF hostVars
<1>3. UNCHANGED <<Todo, Outcome>> /\ (Reading' <=> Reading)
  BY <1>2, HostSame
<1>4. PICK new \in Seq(Frames) :
        toHost' = toHost \o new /\ \A f \in On(new) : f.cmd \in {Error, "SinglePollingInstruction"}
  BY <1>1, ReaderPolls
<1>5. OnLine' = OnLine \cup On(new)
  BY <1>1, <1>2, <1>4, OnConcat DEF OnLine
<1>6. Acked' => Acked
  BY <1>4, <1>5, AckedOn, AckedNext, Unconfirmed DEF OwnConfirmed, PollCmds
<1>7. OnItsWay' = OnItsWay
  BY <1>2 DEF OnItsWay
<1> QED
  BY <1>2, <1>3, <1>6, <1>7, LoseStep

(* The reader takes the request: it carries it out, or refuses it.         *)
LEMMA TakeMaps ==
  PortInv /\ (Refuse \/ CarryOut) /\ UNCHANGED <<inbuf, hostVars>> => Promise!ExchangeNext
<1> SUFFICES ASSUME PortInv, Refuse \/ CarryOut, UNCHANGED <<inbuf, hostVars>>
             PROVE  Promise!ExchangeNext
  OBVIOUS
<1> DEFINE r == Head(toDev)
<1>1. toHost \in Seq(Frames) /\ ReaderTypeOK /\ toDev \in Seq(Requests) /\ OneRequest
  BY DEF PortInv, TypeOK, ReaderTypeOK
<1>2. UNCHANGED <<inbuf, pc, call, step, got, result>>
  BY DEF hostVars
<1>3. UNCHANGED <<Todo, Outcome>> /\ (Reading' <=> Reading)
  BY <1>2, HostSame
<1>4. PICK new \in Seq(Frames) : toHost' = toHost \o new /\ Answers(r, new)
  BY <1>1, ReaderAnswers
<1>5. toDev # <<>> /\ toDev' = <<>>
  BY <1>1, ReaderAnswers, OnTail DEF OneRequest
<1>6. OnLine' = OnLine \cup On(new)
  BY <1>1, <1>2, <1>4, OnConcat DEF OnLine
<1>7. OnItsWay = IF r.cmd \in ConfirmedCmds THEN <<Asked(r)>> ELSE <<>>
  BY <1>1, <1>5, OnTheWay
<1>8. OnItsWay' = <<>>
  BY <1>5 DEF OnItsWay
<1> HIDE DEF r
<1>9. CASE r.cmd \in SetCmds /\ settings' = [settings EXCEPT ![SettingOf(r.cmd)] = r.arg]
  <2>1. OnItsWay = <<Asked(r)>> /\ OnItsWay[1] = Asked(r) /\ OnItsWay # <<>>
    BY <1>7, <1>9, Unconfirmed
  <2>2. settings' = Promise!Effect(OnItsWay[1])
    BY <1>9, <2>1 DEF Promise!Effect, Assigned, Asked
  <2> QED
    BY <1>3, <1>8, <2>1, <2>2, CarryOutStep
<1>10. CASE r.cmd \in ConfirmedCmds \ SetCmds
  <2>1. OnItsWay = <<Asked(r)>> /\ OnItsWay[1] = Asked(r) /\ OnItsWay # <<>>
    BY <1>7, <1>10
  <2>2. settings' = settings
    BY <1>4, <1>10 DEF Answers
  <2>3. settings' = Promise!Effect(OnItsWay[1])
    BY <1>10, <2>1, <2>2 DEF Promise!Effect, Assigned, Asked
  <2> QED
    BY <1>3, <1>8, <2>1, <2>3, CarryOutStep
<1>11. CASE r.cmd \notin ConfirmedCmds
  <2>1. settings' = settings
    BY <1>4, <1>11, Unconfirmed DEF Answers
  <2>2. Acked' => Acked
    BY <1>4, <1>6, <1>11, AckedOn, AckedNext, Unconfirmed DEF Answers, OwnConfirmed
  <2> QED
    BY <1>3, <1>8, <2>1, <2>2, LoseStep
<1>12. CASE r.cmd \in SetCmds /\ settings' # [settings EXCEPT ![SettingOf(r.cmd)] = r.arg]
  <2>1. settings' = settings /\ \A f \in On(new) : f.cmd = Error
    BY <1>4, <1>12 DEF Answers
  <2>2. Acked' => Acked
    BY <1>6, <2>1, AckedOn, AckedNext, Unconfirmed DEF OwnConfirmed
  <2> QED
    BY <1>3, <1>8, <2>1, <2>2, LoseStep
<1> QED
  BY <1>9, <1>10, <1>11, <1>12

(* A call begins, or is refused for its arguments. *)
LEMMA InvokeMaps ==
  ASSUME PortInv, NEW c \in Calls, Invoke(c)
  PROVE  Promise!ExchangeNext
<1>1. /\ UNCHANGED <<toDev, toHost, settings, inbuf>> /\ pc = "idle" /\ call' = c /\ step' = 1
      /\ got' = got
  BY DEF Invoke, readerVars, PortInv, InScript
<1>2. OnItsWay' = OnItsWay /\ (Acked' <=> Acked) /\ ~Reading /\ Todo = <<>>
  BY <1>1 DEF OnItsWay, Acked, Reading, Todo
<1>3. CASE pc' = "send"
  <2>1. Todo' = Requesting(SubSeq(Script(c), 1, Len(Script(c))))
    BY <1>1, <1>3 DEF Todo
  <2>2. SubSeq(Script(c), 1, Len(Script(c))) = Script(c)
    <3>1. Script(c) \in Seq(Exchanging)
      BY ScriptFits DEF AllFit
    <3> QED
      BY <3>1
  <2>3. Todo' \in CallScripts /\ Outcome' = "none" /\ ~Reading'
    BY <1>3, <2>1, <2>2 DEF CallScripts, Outcome, Reading
  <2> QED
    BY <1>1, <1>2, <2>3, BeginStep
<1>4. CASE pc' # "send"
  <2>1. pc' = "idle" /\ result'.status = "FailedSetting"
    BY <1>4 DEF Invoke
  <2>2. Todo' = <<>> /\ Outcome' = "failed" /\ ~Reading'
    BY <2>1 DEF Todo, Outcome, Reading
  <2> QED
    BY <1>1, <1>2, <2>2, RejectStep
<1> QED
  BY <1>3, <1>4

(* A write leaves nothing on its way but the request, and no answer.       *)
LEMMA WriteMaps ==
  ASSUME PortInv, TypeOK', pc = "send", MaySend, NEW delivered \in BOOLEAN, Write(delivered)
  PROVE  /\ Todo # <<>> /\ ~Reading /\ OnItsWay = <<>> /\ ~Acked' /\ settings' = settings
         /\ OnItsWay' \in {<<>>, <<Head(Todo)>>}
         /\ Now.cmd \notin ConfirmedCmds => OnItsWay' = <<>>
         /\ Head(Todo) = Asked(Now) /\ Len(Todo) = Len(Script(call)) - step + 1
<1>1. /\ OnLine' = On(inbuf') /\ settings' = settings
      /\ \A f \in On(inbuf') : ~f.own
      /\ \A r \in On(toDev') : r.own /\ r.cmd = Now.cmd /\ r.arg = Now.arg
  BY WriteOnLine
<1>2. Todo # <<>> /\ Head(Todo) = Asked(Now) /\ Len(Todo) = Len(Script(call)) - step + 1
  BY TodoNow DEF PortInv
<1>3. OnItsWay = <<>>
  BY DEF PortInv, OnSharedPort, MaySend, Quiet, OnItsWay
<1>4. ~Acked'
  BY <1>1, AckedNext DEF OwnConfirmed
<1>5. ASSUME toDev' # <<>>
      PROVE  LET r == toDev'[Len(toDev')] IN r.cmd = Now.cmd /\ r.arg = Now.arg
  <2>1. toDev' \in Seq(Requests)
    BY DEF TypeOK, ReaderTypeOK
  <2>2. Len(toDev') \in Nat /\ Len(toDev') >= 1
    BY <1>5, <2>1, HeadFirst
  <2>3. toDev'[Len(toDev')] \in On(toDev')
    BY <2>2 DEF On
  <2> QED
    BY <1>1, <2>3
<1>6. /\ OnItsWay' \in {<<>>, <<Asked(Now)>>}
      /\ Now.cmd \notin ConfirmedCmds => OnItsWay' = <<>>
  BY <1>5 DEF OnItsWay, OwnConfirmed, Asked
<1> QED
  BY <1>1, <1>2, <1>3, <1>4, <1>6 DEF Reading

(* A request is sent. *)
LEMMA SendMaps == PortInv /\ TypeOK' /\ Send => Promise!ExchangeNext
<1> SUFFICES ASSUME PortInv, TypeOK', Send PROVE Promise!ExchangeNext
  OBVIOUS
<1>1. pc = "send" /\ MaySend /\ Write(TRUE) /\ UNCHANGED <<call, step>>
  BY DEF Send, Return
<1>2. /\ Todo # <<>> /\ ~Reading /\ OnItsWay = <<>> /\ ~Acked' /\ settings' = settings
      /\ OnItsWay' \in {<<>>, <<Head(Todo)>>}
      /\ Now.cmd \notin ConfirmedCmds => OnItsWay' = <<>>
      /\ Head(Todo) = Asked(Now) /\ Len(Todo) = Len(Script(call)) - step + 1
  BY <1>1, WriteMaps
<1>3. CASE Now.expect # 0
  <2>1. pc' = "read" /\ result' = result
    BY <1>3 DEF Send
  <2>2. Todo' = Todo /\ Outcome' = Outcome /\ Reading'
    BY <1>1, <2>1 DEF Todo, Outcome, Reading
  <2> QED
    BY <1>2, <2>2, AskStep
<1>4. CASE Now.expect = 0
  <2>1. Fits(call, Now) /\ call \in Calls /\ step \in 1..Len(Script(call))
    BY NowFits DEF PortInv, TypeOK
  <2>2. call.name = "enable_multiple_polling_instructions"
    BY <1>4, <2>1 DEF Fits
  <2>3. Now.cmd = "MultiplePollingInstruction" /\ Len(Script(call)) = 1
    BY <2>1, <2>2, ScriptFits DEF Fits, Polls, Long, Selects
  <2>4. Now.cmd \notin ConfirmedCmds
    BY <2>3, Unconfirmed DEF PollCmds
  <2>5. failed = "none"
    BY <2>2 DEF PortInv, InScript
  <2>6. pc' = "idle" /\ result'.status = "Ok"
    BY <1>4, <2>2, <2>5 DEF Send, Return
  <2>7. Todo' = <<>> /\ Outcome' = "Ok" /\ ~Reading'
    BY <2>6 DEF Todo, Outcome, Reading
  <2>8. Len(Todo) = 1 /\ Head(Todo).cmd \notin ConfirmedCmds
    BY <1>2, <2>1, <2>3, <2>4 DEF Asked
  <2> QED
    BY <1>2, <2>4, <2>7, <2>8, AskOnlyStep
<1> QED
  BY <1>3, <1>4

(* A write fails; the bytes may have gone out all the same. *)
LEMMA SendFailsMaps == PortInv /\ TypeOK' /\ SendFails => Promise!ExchangeNext
<1> SUFFICES ASSUME PortInv, TypeOK', SendFails PROVE Promise!ExchangeNext
  OBVIOUS
<1>1. PICK delivered \in BOOLEAN : Write(delivered)
  BY DEF SendFails
<1>2. /\ pc = "send" /\ MaySend /\ pc' = "idle"
      /\ result'.status = IF call.name = "setup_reader" THEN "Ok" ELSE "Io"
  BY DEF SendFails
<1>3. /\ Todo # <<>> /\ ~Reading /\ OnItsWay = <<>> /\ ~Acked' /\ settings' = settings
      /\ OnItsWay' \in {<<>>, <<Head(Todo)>>}
      /\ Now.cmd \notin ConfirmedCmds => OnItsWay' = <<>>
      /\ Head(Todo) = Asked(Now) /\ Len(Todo) = Len(Script(call)) - step + 1
  BY <1>1, <1>2, WriteMaps
<1>4. Todo' = <<>> /\ ~Reading'
  BY <1>2 DEF Todo, Reading
<1>5. CASE call.name = "setup_reader"
  <2>1. Fits(call, Now) /\ call \in Calls /\ step \in 1..Len(Script(call))
    BY NowFits DEF PortInv, TypeOK
  <2>2. Now.cmd = StopCmd /\ Len(Script(call)) = 1
    BY <1>5, <2>1, ScriptFits DEF Fits, StopCalls, Long, Selects
  <2>3. Now.cmd \notin ConfirmedCmds
    BY <2>2, Unconfirmed
  <2>4. Outcome' = "Ok"
    BY <1>2, <1>5 DEF Outcome
  <2>5. Len(Todo) = 1 /\ Head(Todo).cmd \notin ConfirmedCmds
    BY <1>3, <2>1, <2>2, <2>3 DEF Asked
  <2> QED
    BY <1>3, <1>4, <2>3, <2>4, <2>5, AskOnlyStep
<1>6. CASE call.name # "setup_reader"
  <2>1. Outcome' = "failed"
    BY <1>2, <1>6 DEF Outcome
  <2> QED
    BY <1>3, <1>4, <2>1, AskInVainStep
<1> QED
  BY <1>5, <1>6

(* A flush fails, and the request is not made. *)
LEMMA ClearFailsMaps == PortInv /\ ClearFails => Promise!ExchangeNext
<1> SUFFICES ASSUME PortInv, ClearFails PROVE Promise!ExchangeNext
  OBVIOUS
<1>1. /\ pc = "send" /\ pc' = "idle" /\ UNCHANGED <<toDev, toHost, inbuf, got, settings>>
      /\ result'.status = IF call.name = "setup_reader" THEN "Ok" ELSE "Io"
  BY DEF ClearFails, readerVars
<1>2. /\ OnItsWay' = OnItsWay /\ (Acked' <=> Acked)
      /\ ~Reading /\ ~Reading' /\ Todo' = <<>>
  BY <1>1 DEF OnItsWay, Acked, Reading, Todo
<1>3. Todo # <<>> /\ Head(Todo) = Asked(Now) /\ Len(Todo) = Len(Script(call)) - step + 1
  BY <1>1, TodoNow DEF PortInv
<1>4. CASE call.name = "setup_reader"
  <2>1. Fits(call, Now) /\ call \in Calls /\ step \in 1..Len(Script(call))
    BY NowFits DEF PortInv, TypeOK
  <2>2. Now.cmd = StopCmd /\ Len(Script(call)) = 1
    BY <1>4, <2>1, ScriptFits DEF Fits, StopCalls, Long, Selects
  <2>3. Outcome' = "Ok"
    BY <1>1, <1>4 DEF Outcome
  <2>4. Len(Todo) = 1 /\ Head(Todo).cmd \notin ConfirmedCmds
    BY <1>3, <2>1, <2>2, Unconfirmed DEF Asked
  <2> QED
    BY <1>1, <1>2, <1>3, <2>3, <2>4, SkipStep
<1>5. CASE call.name # "setup_reader"
  <2>1. Outcome' = "failed"
    BY <1>1, <1>5 DEF Outcome
  <2> QED
    BY <1>1, <1>2, <1>3, <2>1, FailStep
<1> QED
  BY <1>4, <1>5

(* A call gets past a request that must be confirmed on the strength of an *)
(* answer to it.                                                           *)
LEMMA ConfirmedAnswer ==
  ASSUME PortInv, pc = "read", NEW kind \in {"Packets", "Empty", "Timeout", "SerialRead"},
         NEW packets \in Seq(Frames), kind = "Packets" => packets # <<>>,
         On(packets) \subseteq OnLine, Answer(Now.cmd, kind, packets) = "Ok",
         Now.cmd \in ConfirmedCmds
  PROVE  Acked
<1>1. Now.cmd # StopCmd /\ Now.cmd \notin PollCmds /\ Now.cmd \notin InfoCmds
  BY Unconfirmed
<1>2. call.name \notin StopCalls \cup {"multi_polling_instruction"}
  <2>1. Fits(call, Now)
    BY NowFits DEF PortInv
  <2> QED
    BY <1>1, <2>1 DEF Fits, Polls, PollCmds
<1>3. kind = "Packets" /\ PacketAnswer(Now.cmd, packets[1]) = "Ok"
  BY <1>1 DEF Answer
<1>4. packets[1] \in On(packets)
  BY <1>3 DEF On
<1>5. IsAnswer(packets[1], Now.cmd)
  BY <1>2, <1>4 DEF PortInv, MeetsItsOwn
<1>6. packets[1].cmd = Now.cmd
  <2>1. CASE Now.cmd = "SetTransmissionPower"
    <3>1. packets[1].val = "ack"
      BY <1>3, <2>1 DEF PacketAnswer, CheckedCmds, TagCmds
    <3> QED
      BY <1>4, <2>1, <3>1 DEF PortInv, SettingsFollow, SetCmds
  <2>2. CASE Now.cmd = "GetWorkingArea"
    <3>1. packets[1].val \in Values
      BY <1>3, <2>2 DEF PacketAnswer, CheckedCmds, TagCmds
    <3> QED
      BY <1>5, <3>1 DEF IsAnswer
  <2>3. CASE Now.cmd \in CheckedCmds
    <3>1. packets[1].cmd # Error
      BY <1>3, <2>3 DEF PacketAnswer, CheckedCmds, TagCmds
    <3> QED
      BY <1>5, <3>1 DEF IsAnswer
  <2> QED
    BY <2>1, <2>2, <2>3 DEF ConfirmedCmds, CheckedCmds, SetCmds
<1> QED
  BY <1>4, <1>5, <1>6, AckedOn DEF OwnConfirmed, IsAnswer

(* An exchange makes something of every read. *)
LEMMA AnswerSays ==
  ASSUME NEW cmd, NEW kind \in {"Packets", "Empty", "Timeout", "SerialRead"}, NEW packets
  PROVE  Answer(cmd, kind, packets) # "none"
BY DEF Answer, PacketAnswer

(* The end of an exchange: the call gets past it, or gives up.             *)
LEMMA ConcludeMaps ==
  ASSUME PortInv, TypeOK', pc = "read",
         NEW kind \in {"Packets", "Empty", "Timeout", "SerialRead"},
         NEW packets \in Seq(Frames), kind = "Packets" => packets # <<>>,
         On(packets) \subseteq On(got) \cup On(inbuf),
         NEW val, Conclude(Answer(Now.cmd, kind, packets), val),
         UNCHANGED readerVars, got' = <<>>, On(inbuf') \subseteq On(inbuf)
  PROVE  Promise!ExchangeNext
<1> DEFINE status == Answer(Now.cmd, kind, packets)
<1>1. status # "none" /\ (status = "Ok" /\ Now.cmd \in ConfirmedCmds => Acked)
  BY AnswerSays, ConfirmedAnswer DEF OnLine
<1> HIDE DEF status
<1>2. \/ /\ step < Len(Script(call)) /\ GoesOn(status)
         /\ pc' = "send" /\ step' = step + 1 /\ UNCHANGED <<call, result>>
      \/ /\ ~(step < Len(Script(call)) /\ GoesOn(status))
         /\ pc' = "idle" /\ UNCHANGED <<call, step>>
         /\ result'.status = IF call.name = "setup_reader" THEN "Ok"
                             ELSE IF failed # "none" THEN failed ELSE status
  BY DEF Conclude, Return, status
<1>3. /\ Fits(call, Now) /\ Now = Script(call)[step] /\ call \in Calls
      /\ step \in 1..Len(Script(call)) /\ Len(Script(call)) \in 1..3
  BY NowFits, ScriptFits DEF PortInv, TypeOK, Now
<1>4. /\ Todo # <<>> /\ Head(Todo).cmd = Now.cmd /\ Todo = Rest(Script(call), step)
      /\ step < Len(Script(call)) => Tail(Todo) = Rest(Script(call), step + 1)
      /\ step = Len(Script(call)) => Tail(Todo) = <<>>
  BY TodoNow DEF PortInv, Asked
<1>5. UNCHANGED <<toDev, toHost, settings>>
  BY DEF readerVars
<1>6. OnLine' \subseteq OnLine
  BY <1>5, OnEmpty DEF OnLine
<1>7. Acked' => Acked
  BY <1>6, AckedOn, AckedNext
<1>8. OnItsWay' = OnItsWay /\ Reading
  BY <1>5 DEF OnItsWay, Reading
<1>9. call.name = "get_module_info" => Now.cmd \notin ConfirmedCmds
  <2>1. ASSUME call.name = "get_module_info" PROVE Now.cmd \in InfoCmds
    BY <1>3, <2>1, ScriptOf DEF Ask, Exchange, InfoCmds
  <2> QED
    BY <2>1, Unconfirmed
<1>10. CASE step < Len(Script(call)) /\ GoesOn(status)
  <2>1. pc' = "send" /\ step' = step + 1 /\ UNCHANGED <<call, result>>
    BY <1>2, <1>10
  <2>2. Todo' = Tail(Todo)
    BY <1>4, <1>10, <2>1 DEF Todo, Rest
  <2>3. Todo' # <<>>
    <3>1. step + 1 \in 1..Len(Script(call)) /\ Script(call) \in Seq(Exchanging)
      BY <1>3, <1>10, ScriptFits DEF AllFit
    <3> QED
      BY <1>4, <1>10, <2>2, <3>1, RestOf
  <2>4. Outcome' = Outcome /\ ~Reading'
    BY <2>1 DEF Outcome, Reading
  <2>5. Now.cmd \in ConfirmedCmds => Acked
    BY <1>1, <1>9, <1>10 DEF GoesOn
  <2> QED
    BY <1>4, <1>5, <1>7, <1>8, <2>2, <2>3, <2>4, <2>5, SucceedStep
<1>11. CASE ~(step < Len(Script(call)) /\ GoesOn(status))
  <2>1. /\ pc' = "idle" /\ UNCHANGED <<call, step>>
        /\ result'.status = IF call.name = "setup_reader" THEN "Ok"
                            ELSE IF failed # "none" THEN failed ELSE status
    BY <1>2, <1>11
  <2>2. Todo' = <<>> /\ ~Reading'
    BY <2>1 DEF Todo, Reading
  <2>3. CASE result'.status = "Ok"
    <3>1. Outcome' = "Ok"
      BY <2>1, <2>3 DEF Outcome
    <3>2. CASE call.name = "setup_reader"
      <4>1. Now.cmd = StopCmd
        BY <1>3, <3>2 DEF Fits, StopCalls
      <4>2. Len(Script(call)) = 1
        BY <3>2, ScriptOf DEF StopCalls
      <4>3. step = Len(Script(call))
        BY <1>3, <4>2
      <4> QED
        BY <1>4, <1>5, <1>7, <1>8, <2>2, <3>1, <4>1, <4>3, Unconfirmed, SucceedStep
    <3>3. CASE call.name # "setup_reader"
      <4>1. status = "Ok"
        BY <2>1, <2>3, <3>3 DEF PortInv, InScript
      <4>2. step = Len(Script(call))
        BY <1>3, <1>11, <4>1 DEF GoesOn
      <4> QED
        BY <1>1, <1>4, <1>5, <1>7, <1>8, <2>2, <3>1, <4>1, <4>2, SucceedStep
    <3> QED
      BY <3>2, <3>3
  <2>4. CASE result'.status # "Ok"
    <3>1. Outcome' = "failed"
      BY <1>1, <2>1, <2>4 DEF Outcome
    <3> QED
      BY <1>4, <1>5, <1>7, <1>8, <2>2, <3>1, FailStep
  <2> QED
    BY <2>3, <2>4
<1> QED
  BY <1>10, <1>11

(* The host takes frames out of its buffer. *)
LEMMA ReceiveMaps == PortInv /\ TypeOK' /\ Receive => Promise!ExchangeNext
<1> SUFFICES ASSUME PortInv, TypeOK', Receive PROVE Promise!ExchangeNext
  OBVIOUS
<1>1. PICK n \in 1..Len(inbuf) :
        LET all     == got \o SubSeq(inbuf, 1, n)
            packets == SubSeq(all, 1, Now.expect)
        IN  /\ inbuf' = SubSeq(inbuf, n + 1, Len(inbuf))
            /\ IF Len(all) >= Now.expect
               THEN /\ got' = <<>>
                    /\ pure' = (pure /\ Belongs(Now.cmd, packets))
                    /\ Conclude(Answer(Now.cmd, "Packets", packets), packets[1].val)
               ELSE /\ got' = all
                    /\ UNCHANGED <<pc, call, step, failed, result, pure, polled, owed>>
  BY DEF Receive
<1> DEFINE taken   == SubSeq(inbuf, 1, n)
           all     == got \o taken
           packets == SubSeq(all, 1, Now.expect)
<1>2. pc = "read" /\ UNCHANGED readerVars
  BY DEF Receive
<1>3. UNCHANGED <<toDev, toHost, settings>>
  BY <1>2 DEF readerVars
<1>4. /\ inbuf \in Seq(Frames) /\ got \in Seq(Frames) /\ Now.expect \in Nat /\ Now.expect > 0
  BY <1>2, NowFits DEF PortInv, TypeOK, InScript, Exchanging
<1>5. On(inbuf') \subseteq On(inbuf) /\ On(taken) \subseteq On(inbuf) /\ taken \in Seq(Frames)
  <2>1. /\ n + 1 \in 1..(Len(inbuf) + 1) /\ n \in 0..Len(inbuf) /\ Len(inbuf) \in 0..Len(inbuf)
        /\ 1 \in 1..(Len(inbuf) + 1)
    BY <1>4
  <2>2. inbuf' = SubSeq(inbuf, n + 1, Len(inbuf))
    BY <1>1
  <2> QED
    BY <1>4, <2>1, <2>2, OnSubSeq
<1>6. On(all) = On(got) \cup On(taken) /\ all \in Seq(Frames)
  BY <1>4, <1>5, OnConcat
<1>7. CASE Len(all) >= Now.expect
  <2>1. got' = <<>> /\ Conclude(Answer(Now.cmd, "Packets", packets), packets[1].val)
    BY <1>1, <1>7
  <2>2. On(packets) \subseteq On(all) /\ packets \in Seq(Frames) /\ Len(packets) = Now.expect
    <3> HIDE DEF all
    <3> QED
      BY <1>4, <1>6, <1>7, OnSubSeq
  <2> HIDE DEF packets, all, taken
  <2>3. packets # <<>>
    BY <1>4, <2>2
  <2>4. On(packets) \subseteq On(got) \cup On(inbuf)
    BY <1>5, <1>6, <2>2
  <2> QED
    BY <1>2, <1>5, <2>1, <2>2, <2>3, <2>4, ConcludeMaps
<1>8. CASE ~(Len(all) >= Now.expect)
  <2>1. got' = all /\ UNCHANGED <<pc, call, step, result>>
    BY <1>1, <1>8
  <2>2. On(got') = On(got) \cup On(taken)
    BY <1>6, <2>1
  <2>3. OnLine' \subseteq OnLine
    BY <1>3, <1>5, <2>2 DEF OnLine
  <2>4. OnItsWay' = OnItsWay
    BY <1>3 DEF OnItsWay
  <2>5. Acked' => Acked
    BY <2>3, AckedOn, AckedNext
  <2>6. UNCHANGED <<Todo, Outcome>> /\ (Reading' <=> Reading)
    BY <2>1, HostSame
  <2> QED
    BY <1>3, <2>4, <2>5, <2>6, LoseStep
<1> QED
  BY <1>7, <1>8

(* A read ends without as many frames as it expects. *)
LEMMA EndReadMaps ==
  ASSUME PortInv, TypeOK', NEW kind \in {"Packets", "Empty", "Timeout", "SerialRead"},
         EndRead(kind), kind = "Packets" => got # <<>>
  PROVE  Promise!ExchangeNext
<1>1. pc = "read" /\ got' = <<>> /\ UNCHANGED <<readerVars, inbuf>>
  BY DEF EndRead
<1>2. got \in Seq(Frames) /\ <<>> \in Seq(Frames) /\ On(<<>>) = {}
  BY OnEmpty DEF PortInv, TypeOK
<1>3. CASE kind = "Packets"
  <2>1. Conclude(Answer(Now.cmd, kind, got), got[1].val)
    BY <1>3 DEF EndRead
  <2> QED
    BY <1>1, <1>2, <1>3, <2>1, ConcludeMaps
<1>4. CASE kind # "Packets"
  <2>1. Conclude(Answer(Now.cmd, kind, <<>>), NoValue)
    BY <1>4 DEF EndRead
  <2> QED
    BY <1>1, <1>2, <1>4, <2>1, ConcludeMaps
<1> QED
  BY <1>3, <1>4

(* Every step of the connector is a step of Exchanges. *)
LEMMA StepMaps == PortInv /\ TypeOK' /\ Next => Promise!ExchangeNext
<1> SUFFICES ASSUME PortInv, TypeOK', Next PROVE Promise!ExchangeNext
  OBVIOUS
<1>1. CASE Arrive
  BY <1>1, LineMaps
<1>2. CASE Reader
  BY <1>2, LineMaps, PollMaps, TakeMaps DEF Reader, ReaderStep
<1>3. CASE \E c \in Calls : Invoke(c)
  BY <1>3, InvokeMaps
<1>4. CASE Send \/ SendFails \/ ClearFails
  BY <1>4, SendMaps, SendFailsMaps, ClearFailsMaps
<1>5. CASE Cancel
  <2>1. IsAsync(call) /\ call \in Calls /\ Flush
    BY <1>5 DEF PortInv, TypeOK, OnSharedPort, Cancel
  <2> QED
    BY <2>1, ConnectorAssumption
<1>6. CASE Receive
  BY <1>6, ReceiveMaps
<1>7. CASE TimedOut
  BY <1>7, EndReadMaps DEF TimedOut
<1>8. CASE Eof \/ ReadError
  BY <1>8, EndReadMaps DEF Eof, ReadError
<1> QED
  BY <1>1, <1>2, <1>3, <1>4, <1>5, <1>6, <1>7, <1>8 DEF Next

(* On the SharedPort the connector implements Exchanges: a call gets past  *)
(* a request that must be confirmed only if the reader carried out that    *)
(* very request, each request is carried out at most once, and none after  *)
(* the next one is made.                                                   *)
THEOREM Implements == Spec /\ OnSharedPort => AtomicExchanges
<1>1. Init => Promise!Start
  <2> SUFFICES ASSUME Init PROVE Promise!Start
    OBVIOUS
  <2>1. toDev = <<>> /\ toHost = <<>> /\ inbuf = <<>> /\ got = <<>> /\ pc = "idle"
        /\ result.status = "none"
    BY DEF Init, ReaderInit
  <2>2. ~Acked
    BY <2>1, OnEmpty, AckedOn DEF OnLine
  <2> QED
    BY <2>1, <2>2 DEF Promise!Start, OnItsWay, Acked
<1>2. PortInv /\ PortInv' /\ [Next]_vars => [Promise!ExchangeNext]_(Promise!exchangeVars)
  <2> SUFFICES ASSUME PortInv, PortInv', [Next]_vars
               PROVE  Promise!ExchangeNext \/ UNCHANGED Promise!exchangeVars
    OBVIOUS
  <2>1. CASE Next
    BY <2>1, StepMaps DEF PortInv
  <2>2. CASE UNCHANGED vars
    <3>1. UNCHANGED <<toDev, toHost, settings, inbuf, pc, call, step, got, result>>
      BY <2>2 DEF vars, readerVars, hostVars
    <3> QED
      BY <3>1 DEF Promise!exchangeVars, OnItsWay
  <2> QED
    BY <2>1, <2>2
<1> QED
  BY <1>1, <1>2, Invariance, PTL DEF Spec, AtomicExchanges, Promise!ExchangeSpec
=============================================================================
