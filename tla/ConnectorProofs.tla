--------------------------- MODULE ConnectorProofs ---------------------------
(***************************************************************************)
(* Type correctness of Connector, for every instance; and what the proofs  *)
(* about its operations use of sequences, scripts and the reader.          *)
(***************************************************************************)
EXTENDS Connector, TLAPS

(* The members of a sequence; the frames the host has not dealt with.      *)
On(s) == {s[i] : i \in 1..Len(s)}

OnLine == On(toHost) \cup On(inbuf) \cup On(got)

-----------------------------------------------------------------------------
(* Sequences *)

(* Nothing is on an empty line. *)
LEMMA OnEmpty == On(<<>>) = {}
  BY DEF On

(* What is put at the end of a line is on it. *)
LEMMA OnAppend ==
  ASSUME NEW S, NEW s \in Seq(S), NEW x \in S
  PROVE  On(Append(s, x)) = On(s) \cup {x}
  BY DEF On

(* Taking the first element off a line adds nothing to it. *)
LEMMA OnTail ==
  ASSUME NEW S, NEW s \in Seq(S), s # <<>>
  PROVE  /\ On(Tail(s)) \subseteq On(s) /\ Head(s) \in On(s) /\ Tail(s) \in Seq(S)
         /\ Len(s) <= 1 => Tail(s) = <<>>
  BY DEF On

(* What is on two lines put together is on one of them. *)
LEMMA OnConcat ==
  ASSUME NEW S, NEW s \in Seq(S), NEW t \in Seq(S)
  PROVE  On(s \o t) = On(s) \cup On(t) /\ s \o t \in Seq(S)
<1> DEFINE u == s \o t
<1>1. /\ u \in Seq(S) /\ Len(u) = Len(s) + Len(t)
      /\ \A i \in 1..Len(u) : u[i] = IF i <= Len(s) THEN s[i] ELSE t[i - Len(s)]
  OBVIOUS
<1>2. ASSUME NEW x \in On(u) PROVE x \in On(s) \cup On(t)
  <2>1. PICK i \in 1..Len(u) : x = u[i]
    BY DEF On
  <2>2. CASE i <= Len(s)
    BY <1>1, <2>1, <2>2 DEF On
  <2>3. CASE ~(i <= Len(s))
    <3>1. i - Len(s) \in 1..Len(t)
      BY <1>1, <2>3
    <3> QED
      BY <1>1, <2>1, <2>3, <3>1 DEF On
  <2> QED
    BY <2>2, <2>3
<1>3. ASSUME NEW x \in On(s) PROVE x \in On(u)
  <2>1. PICK i \in 1..Len(s) : x = s[i]
    BY DEF On
  <2>2. i \in 1..Len(u) /\ u[i] = x
    BY <1>1, <2>1
  <2> QED
    BY <2>2 DEF On
<1>4. ASSUME NEW x \in On(t) PROVE x \in On(u)
  <2>1. PICK i \in 1..Len(t) : x = t[i]
    BY DEF On
  <2>2. Len(s) + i \in 1..Len(u) /\ u[Len(s) + i] = x
    BY <1>1, <2>1
  <2> QED
    BY <2>2 DEF On
<1> QED
  BY <1>1, <1>2, <1>3, <1>4

(* A part of a line holds only what is on the line. *)
LEMMA OnSubSeq ==
  ASSUME NEW S, NEW s \in Seq(S), NEW m \in 1..(Len(s) + 1), NEW n \in 0..Len(s)
  PROVE  On(SubSeq(s, m, n)) \subseteq On(s) /\ SubSeq(s, m, n) \in Seq(S)
  BY DEF On

(* What is on a line has the type of the line. *)
LEMMA OnTyped ==
  ASSUME NEW S, NEW s \in Seq(S)
  PROVE  On(s) \subseteq S
  BY DEF On

(* A line with nothing on it is empty. *)
LEMMA OnNothing ==
  ASSUME NEW S, NEW s \in Seq(S), On(s) = {}
  PROVE  s = <<>>
  BY DEF On

(* What is disowned keeps everything else. *)
LEMMA DisownFrames ==
  ASSUME NEW s \in Seq(Frames)
  PROVE  /\ Disown(s) \in Seq(Frames) /\ Len(Disown(s)) = Len(s)
         /\ \A f \in On(Disown(s)) : ~f.own /\ \E g \in On(s) : f.cmd = g.cmd /\ f.val = g.val
<1>1. /\ Len(s) \in Nat
      /\ DOMAIN Disown(s) = 1..Len(s)
      /\ \A i \in 1..Len(s) : Disown(s)[i] = [s[i] EXCEPT !.own = FALSE]
  BY DEF Disown
<1>2. ASSUME NEW i \in 1..Len(s)
      PROVE  /\ Disown(s)[i] \in Frames /\ ~Disown(s)[i].own
             /\ Disown(s)[i].cmd = s[i].cmd /\ Disown(s)[i].val = s[i].val
  <2>1. s[i] \in Frames
    OBVIOUS
  <2> QED
    BY <1>1, <2>1 DEF Frames
<1>3. Disown(s) \in Seq(Frames) /\ Len(Disown(s)) = Len(s)
  BY <1>1, <1>2 DEF Disown
<1> QED
  BY <1>2, <1>3 DEF On

(* A disowned request is on the line still, but no longer the client's     *)
(* last.                                                                   *)
LEMMA DisownRequests ==
  ASSUME NEW s \in Seq(Requests)
  PROVE  /\ Disown(s) \in Seq(Requests) /\ Len(Disown(s)) = Len(s)
         /\ \A r \in On(Disown(s)) : ~r.own
<1>1. /\ Len(s) \in Nat
      /\ DOMAIN Disown(s) = 1..Len(s)
      /\ \A i \in 1..Len(s) : Disown(s)[i] = [s[i] EXCEPT !.own = FALSE]
  BY DEF Disown
<1>2. ASSUME NEW i \in 1..Len(s)
      PROVE  /\ Disown(s)[i] \in Requests /\ ~Disown(s)[i].own
  <2>1. s[i] \in Requests
    OBVIOUS
  <2> QED
    BY <1>1, <2>1 DEF Requests
<1>3. Disown(s) \in Seq(Requests) /\ Len(Disown(s)) = Len(s)
  BY <1>1, <1>2 DEF Disown
<1> QED
  BY <1>2, <1>3 DEF On

-----------------------------------------------------------------------------
(* Scripts *)

(* The script of an operation, operation by operation. *)
LEMMA ScriptOf ==
  ASSUME NEW c
  PROVE  /\ c.name \in StopCalls => Script(c) = <<Exchange(StopCmd, NoValue, Many)>>
         /\ c.name = "get_module_info" =>
              Script(c) = <<Ask("HardwareVersion"), Ask("SoftwareVersion"), Ask("Manufacturer")>>
         /\ c.name = "get_working_area" => Script(c) = <<Ask("GetWorkingArea")>>
         /\ c.name = "get_working_channel" =>
              Script(c) = <<Ask("GetWorkingChannel"), Ask("GetWorkingArea")>>
         /\ c.name = "get_transmit_power" => Script(c) = <<Ask("AcquireTransmitPower")>>
         /\ c.name = "set_transmission_power" =>
              Script(c) = <<Exchange("SetTransmissionPower", c.arg, 1)>>
         /\ c.name = "set_working_area" => Script(c) = <<Exchange("SetWorkingArea", c.arg, 1)>>
         /\ c.name = "single_polling_instruction" =>
              Script(c) = <<Exchange("SinglePollingInstruction", NoValue, Many)>>
         /\ c.name = "multi_polling_instruction" =>
              Script(c) = <<Exchange("MultiplePollingInstruction", NoValue, PollLimit)>>
         /\ c.name = "enable_multiple_polling_instructions" =>
              Script(c) = <<Exchange("MultiplePollingInstruction", NoValue, 0)>>
         /\ c.name = "select_tag" =>
              Script(c) = <<Exchange("SetSelect", c.arg, 1), Exchange("SetSendSelect", WithMask, 1)>>
         /\ c.name = "clear_select" =>
              Script(c) = <<Exchange("SetSelect", NoValue, 1), Exchange("SetSendSelect", NoMask, 1)>>
         /\ c.name = "read_mem"  => Script(c) = <<Ask("ReadLabel")>>
         /\ c.name = "write_mem" => Script(c) = <<Ask("WriteLabel")>>
         /\ c.name = "kill_tag"  => Script(c) = <<Ask("KillTag")>>
         /\ c.name = "lock_tag"  => Script(c) = <<Ask("LockTag")>>
  BY DEF Script, StopCalls

(* What the proofs use of the exchanges of an operation.                   *)
Exchanging == [cmd : Commands, arg : Args, expect : Nat]

Polls == {"multi_polling_instruction", "enable_multiple_polling_instructions"}

Selects == {"select_tag", "clear_select"}

(* A stop and a single polling read on until the line is quiet.           *)
Expected(c) ==
  IF c.name \in StopCalls \cup {"single_polling_instruction"} THEN Many
  ELSE IF c.name = "multi_polling_instruction" THEN PollLimit
  ELSE IF c.name = "enable_multiple_polling_instructions" THEN 0
  ELSE 1

Fits(c, x) ==
  /\ x \in Exchanging
  /\ x.expect = Expected(c)
  /\ x.cmd = "SinglePollingInstruction" <=> c.name = "single_polling_instruction"
  /\ x.cmd = StopCmd <=> c.name \in StopCalls
  /\ x.cmd = "MultiplePollingInstruction" <=> c.name \in Polls
  /\ x.expect = 0 <=> c.name = "enable_multiple_polling_instructions"
  /\ x.cmd = "SetTransmissionPower" <=> c.name = "set_transmission_power"
  /\ x.cmd = "SetWorkingArea" <=> c.name = "set_working_area"
  /\ x.cmd \in {"SetSelect", "SetSendSelect"} <=> c.name \in Selects
  /\ c.name \in {"set_transmission_power", "set_working_area"} => x.arg = c.arg

AllFit(c, s) == s \in Seq(Exchanging) /\ \A i \in 1..Len(s) : Fits(c, s[i])

Long == {"get_module_info", "get_working_channel"} \cup Selects

(* Every exchange of an operation fits it; only a few make more than one.  *)
LEMMA ScriptFits ==
  ASSUME NEW c \in Calls
  PROVE  /\ AllFit(c, Script(c)) /\ Len(Script(c)) \in 1..3
         /\ c.name \notin Long => Len(Script(c)) = 1
         /\ c.name \in Selects => Len(Script(c)) = 2
<1>1. /\ c.name \in SyncOperations /\ c.arg \in Args
      /\ NoValue \in Args /\ WithMask \in Args /\ NoMask \in Args
      /\ PollLimit \in Nat \ {0} /\ Many \in Nat \ {0}
  BY ConnectorAssumption DEF Args
<1>2. ASSUME NEW x, Fits(c, x)
      PROVE  AllFit(c, <<x>>) /\ Len(<<x>>) = 1
  BY <1>2 DEF Fits, AllFit
<1>3. ASSUME NEW x, NEW y, Fits(c, x), Fits(c, y)
      PROVE  AllFit(c, <<x, y>>) /\ Len(<<x, y>>) = 2
  <2>1. \A i \in 1..2 : <<x, y>>[i] \in {x, y}
    OBVIOUS
  <2>2. x \in Exchanging /\ y \in Exchanging
    BY <1>3 DEF Fits
  <2> QED
    BY <1>3, <2>1, <2>2 DEF AllFit
<1>4. ASSUME NEW x, NEW y, NEW z, Fits(c, x), Fits(c, y), Fits(c, z)
      PROVE  AllFit(c, <<x, y, z>>) /\ Len(<<x, y, z>>) = 3
  <2>1. \A i \in 1..3 : <<x, y, z>>[i] \in {x, y, z}
    OBVIOUS
  <2>2. x \in Exchanging /\ y \in Exchanging /\ z \in Exchanging
    BY <1>4 DEF Fits
  <2> QED
    BY <1>4, <2>1, <2>2 DEF AllFit
<1> USE DEF StopCalls, Polls, Selects, Long
<1>5. CASE c.name \in StopCalls
  <2>1. Fits(c, Exchange(StopCmd, NoValue, Many))
    BY <1>1, <1>5 DEF Fits, Expected, Exchanging, Exchange, Commands, GetCmds,
       SetCmds, InfoCmds, TagCmds, PollCmds, StopCmd
  <2> QED
    BY <1>2, <1>3, <1>4, <1>5, <2>1, ScriptOf
<1>6. CASE c.name = "get_module_info"
  <2>1. /\ Fits(c, Ask("HardwareVersion"))
       /\ Fits(c, Ask("SoftwareVersion"))
       /\ Fits(c, Ask("Manufacturer"))
    BY <1>1, <1>6 DEF Fits, Expected, Exchanging, Exchange, Ask, Commands, GetCmds,
       SetCmds, InfoCmds, TagCmds, PollCmds, StopCmd
  <2> QED
    BY <1>2, <1>3, <1>4, <1>6, <2>1, ScriptOf
<1>7. CASE c.name = "get_working_area"
  <2>1. Fits(c, Ask("GetWorkingArea"))
    BY <1>1, <1>7 DEF Fits, Expected, Exchanging, Exchange, Ask, Commands, GetCmds,
       SetCmds, InfoCmds, TagCmds, PollCmds, StopCmd
  <2> QED
    BY <1>2, <1>3, <1>4, <1>7, <2>1, ScriptOf
<1>8. CASE c.name = "get_working_channel"
  <2>1. /\ Fits(c, Ask("GetWorkingChannel"))
       /\ Fits(c, Ask("GetWorkingArea"))
    BY <1>1, <1>8 DEF Fits, Expected, Exchanging, Exchange, Ask, Commands, GetCmds,
       SetCmds, InfoCmds, TagCmds, PollCmds, StopCmd
  <2> QED
    BY <1>2, <1>3, <1>4, <1>8, <2>1, ScriptOf
<1>9. CASE c.name = "get_transmit_power"
  <2>1. Fits(c, Ask("AcquireTransmitPower"))
    BY <1>1, <1>9 DEF Fits, Expected, Exchanging, Exchange, Ask, Commands, GetCmds,
       SetCmds, InfoCmds, TagCmds, PollCmds, StopCmd
  <2> QED
    BY <1>2, <1>3, <1>4, <1>9, <2>1, ScriptOf
<1>10. CASE c.name = "set_transmission_power"
  <2>1. Fits(c, Exchange("SetTransmissionPower", c.arg, 1))
    BY <1>1, <1>10 DEF Fits, Expected, Exchanging, Exchange, Commands, GetCmds,
       SetCmds, InfoCmds, TagCmds, PollCmds, StopCmd
  <2> QED
    BY <1>2, <1>3, <1>4, <1>10, <2>1, ScriptOf
<1>11. CASE c.name = "set_working_area"
  <2>1. Fits(c, Exchange("SetWorkingArea", c.arg, 1))
    BY <1>1, <1>11 DEF Fits, Expected, Exchanging, Exchange, Commands, GetCmds,
       SetCmds, InfoCmds, TagCmds, PollCmds, StopCmd
  <2> QED
    BY <1>2, <1>3, <1>4, <1>11, <2>1, ScriptOf
<1>12. CASE c.name = "single_polling_instruction"
  <2>1. Fits(c, Exchange("SinglePollingInstruction", NoValue, Many))
    BY <1>1, <1>12 DEF Fits, Expected, Exchanging, Exchange, Commands, GetCmds,
       SetCmds, InfoCmds, TagCmds, PollCmds, StopCmd
  <2> QED
    BY <1>2, <1>3, <1>4, <1>12, <2>1, ScriptOf
<1>13. CASE c.name = "multi_polling_instruction"
  <2>1. Fits(c, Exchange("MultiplePollingInstruction", NoValue, PollLimit))
    BY <1>1, <1>13 DEF Fits, Expected, Exchanging, Exchange, Commands, GetCmds,
       SetCmds, InfoCmds, TagCmds, PollCmds, StopCmd
  <2> QED
    BY <1>2, <1>3, <1>4, <1>13, <2>1, ScriptOf
<1>14. CASE c.name = "enable_multiple_polling_instructions"
  <2>1. Fits(c, Exchange("MultiplePollingInstruction", NoValue, 0))
    BY <1>1, <1>14 DEF Fits, Expected, Exchanging, Exchange, Commands, GetCmds,
       SetCmds, InfoCmds, TagCmds, PollCmds, StopCmd
  <2> QED
    BY <1>2, <1>3, <1>4, <1>14, <2>1, ScriptOf
<1>15. CASE c.name = "select_tag"
  <2>1. /\ Fits(c, Exchange("SetSelect", c.arg, 1))
       /\ Fits(c, Exchange("SetSendSelect", WithMask, 1))
    BY <1>1, <1>15 DEF Fits, Expected, Exchanging, Exchange, Commands, GetCmds,
       SetCmds, InfoCmds, TagCmds, PollCmds, StopCmd
  <2> QED
    BY <1>2, <1>3, <1>4, <1>15, <2>1, ScriptOf
<1>16. CASE c.name = "clear_select"
  <2>1. /\ Fits(c, Exchange("SetSelect", NoValue, 1))
       /\ Fits(c, Exchange("SetSendSelect", NoMask, 1))
    BY <1>1, <1>16 DEF Fits, Expected, Exchanging, Exchange, Commands, GetCmds,
       SetCmds, InfoCmds, TagCmds, PollCmds, StopCmd
  <2> QED
    BY <1>2, <1>3, <1>4, <1>16, <2>1, ScriptOf
<1>17. CASE c.name = "read_mem"
  <2>1. Fits(c, Ask("ReadLabel"))
    BY <1>1, <1>17 DEF Fits, Expected, Exchanging, Exchange, Ask, Commands, GetCmds,
       SetCmds, InfoCmds, TagCmds, PollCmds, StopCmd
  <2> QED
    BY <1>2, <1>3, <1>4, <1>17, <2>1, ScriptOf
<1>18. CASE c.name = "write_mem"
  <2>1. Fits(c, Ask("WriteLabel"))
    BY <1>1, <1>18 DEF Fits, Expected, Exchanging, Exchange, Ask, Commands, GetCmds,
       SetCmds, InfoCmds, TagCmds, PollCmds, StopCmd
  <2> QED
    BY <1>2, <1>3, <1>4, <1>18, <2>1, ScriptOf
<1>19. CASE c.name = "kill_tag"
  <2>1. Fits(c, Ask("KillTag"))
    BY <1>1, <1>19 DEF Fits, Expected, Exchanging, Exchange, Ask, Commands, GetCmds,
       SetCmds, InfoCmds, TagCmds, PollCmds, StopCmd
  <2> QED
    BY <1>2, <1>3, <1>4, <1>19, <2>1, ScriptOf
<1>20. CASE c.name = "lock_tag"
  <2>1. Fits(c, Ask("LockTag"))
    BY <1>1, <1>20 DEF Fits, Expected, Exchanging, Exchange, Ask, Commands, GetCmds,
       SetCmds, InfoCmds, TagCmds, PollCmds, StopCmd
  <2> QED
    BY <1>2, <1>3, <1>4, <1>20, <2>1, ScriptOf
<1> QED
  BY <1>1, <1>5, <1>6, <1>7, <1>8, <1>9, <1>10, <1>11, <1>12, <1>13, <1>14, <1>15, <1>16,
     <1>17, <1>18, <1>19, <1>20 DEF SyncOperations, AsyncOperations

-----------------------------------------------------------------------------
(* Type correctness *)

(* Where a call is under way, Now is an exchange of it.                    *)
LEMMA NowFits ==
  TypeOK => Now \in Exchanging /\ Fits(call, Now)
BY ScriptFits DEF TypeOK, Now, AllFit, Fits

(* What the reader sends are frames; a round of inventory sends tags or    *)
(* the error that there are none.                                          *)
LEMMA ResponseFrame ==
  ASSUME NEW cmd \in Commands \cup {Error},
         NEW val \in Args \cup {"ack", "tag", "code", "noTag", "text"}, NEW own \in BOOLEAN
  PROVE  Response(cmd, val, own) \in Frames
  BY DEF Response, Frames

(* An inventory is answered with tags, or with an error that says there    *)
(* are none; all of it belongs to the request or none of it does.          *)
LEMMA InventoryFrames ==
  ASSUME NEW n \in Nat, NEW own \in BOOLEAN
  PROVE  /\ Inventory(n, own) \in Seq(Frames)
         /\ \A f \in On(Inventory(n, own)) :
              /\ f.own = own
              /\ \/ f.cmd = Error /\ f.val = "noTag"
                 \/ f.cmd = "SinglePollingInstruction" /\ f.val = "tag"
<1> DEFINE tag  == Response("SinglePollingInstruction", "tag", own)
           none == Response(Error, "noTag", own)
           tags == [i \in 1..n |-> tag]
<1>1. tag \in Frames /\ none \in Frames
  BY ResponseFrame DEF Commands, PollCmds
<1>2. tags \in Seq(Frames) /\ \A f \in On(tags) : f = tag
  BY <1>1 DEF On
<1>3. <<none>> \in Seq(Frames) /\ \A f \in On(<<none>>) : f = none
  BY <1>1 DEF On
<1>4. /\ tag.own = own /\ tag.cmd = "SinglePollingInstruction" /\ tag.val = "tag"
      /\ none.own = own /\ none.cmd = Error /\ none.val = "noTag"
  BY DEF Response
<1> HIDE DEF tag, none, tags
<1>5. Inventory(n, own) = IF n = 0 THEN <<none>> ELSE tags
  BY DEF Inventory, tag, none, tags
<1> QED
  BY <1>2, <1>3, <1>4, <1>5

(* Append as the concatenation of one element. *)
LEMMA AppendIs ==
  ASSUME NEW S, NEW s \in Seq(S), NEW x \in S
  PROVE  /\ Append(s, x) = s \o <<x>> /\ <<x>> \in Seq(S) /\ Len(<<x>>) = 1
         /\ On(<<x>>) = {x}
  BY DEF On

(* What the reader may make of a request r: it sends some frames, each an  *)
(* answer to r or an error; a setting is acknowledged only if it is made;  *)
(* multi-polling ends where a stop is acknowledged.                        *)
Answers(r, new) ==
  /\ \A f \in On(new) : f.own = r.own /\ f.cmd \in {r.cmd, Error}
  /\ \A f \in On(new) : f.cmd = Error => f.val \in {"code", "noTag"}
  /\ r.cmd \notin PollCmds => Len(new) = 1
  /\ \A f \in On(new) : f.cmd = StopCmd => rounds' = 0
  /\ r.cmd \in SetCmds => \A f \in On(new) :
       \/ f.cmd = Error /\ f.val = "code"
       \/ f.cmd = r.cmd /\ settings' = [settings EXCEPT ![SettingOf(r.cmd)] = r.arg]
  /\ \/ settings' = settings
     \/ r.cmd \in SetCmds /\ settings' = [settings EXCEPT ![SettingOf(r.cmd)] = r.arg]
  /\ rounds' = rounds \/ (rounds' = 0 /\ r.cmd = StopCmd) \/ r.cmd = "MultiplePollingInstruction"
  /\ rounds' \in Nat

(* The reader takes the first request off its line and puts its answer, if *)
(* any, at the end of the other.                                           *)
LEMMA ReaderAnswers ==
  ASSUME ReaderTypeOK, Refuse \/ CarryOut
  PROVE  /\ toDev # <<>> /\ toDev' = Tail(toDev)
         /\ \E new \in Seq(Frames) : toHost' = toHost \o new /\ Answers(Head(toDev), new)
<1> DEFINE r == Head(toDev)
<1>1. toDev # <<>> /\ toDev' = Tail(toDev)
  BY DEF Refuse, CarryOut
<1>2. r \in Requests
  BY <1>1 DEF ReaderTypeOK
<1>3. r.cmd \in Commands /\ r.arg \in Args /\ r.own \in BOOLEAN
  BY <1>2 DEF Requests
<1>4. r.cmd # Error
  BY <1>3 DEF Commands, GetCmds, SetCmds, InfoCmds, TagCmds, PollCmds, StopCmd, Error
<1>5. toHost \in Seq(Frames) /\ rounds \in Nat /\ PollRounds \in Nat
  BY ReaderAssumption DEF ReaderTypeOK
<1> HIDE DEF r
<1>6. ASSUME NEW x \in Frames, toHost' = Append(toHost, x), Answers(r, <<x>>)
      PROVE  \E new \in Seq(Frames) : toHost' = toHost \o new /\ Answers(r, new)
  BY <1>5, <1>6, AppendIs
<1>7. ASSUME NEW cmd, NEW val, NEW own
      PROVE  /\ On(<<Response(cmd, val, own)>>) = {Response(cmd, val, own)}
             /\ Len(<<Response(cmd, val, own)>>) = 1
             /\ Response(cmd, val, own).cmd = cmd /\ Response(cmd, val, own).val = val
             /\ Response(cmd, val, own).own = own
  BY DEF On, Response
<1>8. CASE Refuse
  <2>1. Response(Error, "code", r.own) \in Frames /\ Error # StopCmd
    BY <1>3, ResponseFrame DEF Error, StopCmd
  <2>2. Answers(r, <<Response(Error, "code", r.own)>>)
    BY <1>4, <1>5, <1>7, <1>8, <2>1 DEF Refuse, Answers
  <2>3. toHost' = Append(toHost, Response(Error, "code", r.own))
    BY <1>8 DEF Refuse, r
  <2> QED
    BY <1>1, <1>6, <2>1, <2>2, <2>3 DEF r
<1>9. CASE CarryOut
  <2>1. CASE SetSetting(r)
    <3>1. Response(r.cmd, "ack", r.own) \in Frames
      BY <1>3, ResponseFrame
    <3>2. r.cmd \notin PollCmds \cup {StopCmd}
      BY <2>1 DEF SetSetting, SetCmds, PollCmds, StopCmd
    <3>3. Answers(r, <<Response(r.cmd, "ack", r.own)>>)
      BY <1>4, <1>5, <1>7, <2>1, <3>2 DEF SetSetting, Answers
    <3> QED
      BY <1>1, <1>6, <2>1, <3>1, <3>3 DEF SetSetting, r
  <2>2. CASE GetSetting(r)
    <3>1. settings[SettingOf(r.cmd)] \in Args
      BY <2>2 DEF GetSetting, GetCmds, SettingOf, Settings, ReaderTypeOK
    <3>2. Response(r.cmd, settings[SettingOf(r.cmd)], r.own) \in Frames
      BY <1>3, <3>1, ResponseFrame
    <3>3. r.cmd \notin PollCmds \cup SetCmds \cup {StopCmd}
      BY <2>2 DEF GetSetting, GetCmds, SetCmds, PollCmds, StopCmd
    <3>4. Answers(r, <<Response(r.cmd, settings[SettingOf(r.cmd)], r.own)>>)
      BY <1>4, <1>5, <1>7, <2>2, <3>3 DEF GetSetting, Answers
    <3> QED
      BY <1>1, <1>6, <2>2, <3>2, <3>4 DEF GetSetting, r
  <2>3. CASE Info(r)
    <3>1. Response(r.cmd, "text", r.own) \in Frames
      BY <1>3, ResponseFrame
    <3>2. r.cmd \notin PollCmds \cup SetCmds \cup {StopCmd}
      BY <2>3 DEF Info, InfoCmds, SetCmds, PollCmds, StopCmd
    <3>3. Answers(r, <<Response(r.cmd, "text", r.own)>>)
      BY <1>4, <1>5, <1>7, <2>3, <3>2 DEF Info, Answers
    <3> QED
      BY <1>1, <1>6, <2>3, <3>1, <3>3 DEF Info, r
  <2>4. CASE TagOperation(r)
    <3>1. Response(r.cmd, "ack", r.own) \in Frames
      BY <1>3, ResponseFrame
    <3>2. r.cmd \notin PollCmds \cup SetCmds \cup {StopCmd}
      BY <2>4 DEF TagOperation, TagCmds, SetCmds, PollCmds, StopCmd
    <3>3. Answers(r, <<Response(r.cmd, "ack", r.own)>>)
      BY <1>4, <1>5, <1>7, <2>4, <3>2 DEF TagOperation, Answers
    <3> QED
      BY <1>1, <1>6, <2>4, <3>1, <3>3 DEF TagOperation, r
  <2>5. CASE PollOnce(r)
    <3>1. PICK n \in 0..MaxTags : toHost' = toHost \o Inventory(n, r.own)
      BY <2>5 DEF PollOnce
    <3>2. /\ Inventory(n, r.own) \in Seq(Frames)
          /\ \A f \in On(Inventory(n, r.own)) :
               f.own = r.own /\ f.cmd \in {r.cmd, Error} /\ (f.cmd = Error => f.val = "noTag")
      <4>1. n \in Nat /\ r.cmd = "SinglePollingInstruction"
        BY <2>5, ReaderAssumption DEF PollOnce
      <4> QED
        BY <1>3, <1>4, <4>1, InventoryFrames
    <3>3. r.cmd \in PollCmds /\ r.cmd \notin SetCmds \cup {StopCmd} /\ Error # StopCmd
      BY <2>5 DEF PollOnce, SetCmds, PollCmds, StopCmd, Error
    <3>4. Answers(r, Inventory(n, r.own))
      BY <1>5, <2>5, <3>2, <3>3 DEF PollOnce, Answers
    <3> QED
      BY <1>1, <3>1, <3>2, <3>4 DEF r
  <2>6. CASE StartPolling(r)
    <3>1. <<>> \in Seq(Frames) /\ toHost' = toHost \o <<>> /\ On(<<>>) = {}
      BY <1>5, <2>6, OnEmpty DEF StartPolling
    <3>2. r.cmd \in PollCmds /\ r.cmd \notin SetCmds
      BY <2>6 DEF StartPolling, SetCmds, PollCmds
    <3>3. Answers(r, <<>>)
      BY <1>5, <2>6, <3>1, <3>2 DEF StartPolling, Answers
    <3> QED
      BY <1>1, <3>1, <3>3 DEF r
  <2>7. CASE StopPolling(r)
    <3>1. Response(StopCmd, "ack", r.own) \in Frames
      BY <1>3, ResponseFrame DEF Commands
    <3>2. r.cmd \notin SetCmds
      BY <2>7 DEF StopPolling, SetCmds, StopCmd
    <3>3. Answers(r, <<Response(StopCmd, "ack", r.own)>>)
      BY <1>4, <1>5, <1>7, <2>7, <3>2 DEF StopPolling, Answers
    <3> QED
      BY <1>1, <1>6, <2>7, <3>1, <3>3 DEF StopPolling, r
  <2> QED
    BY <1>9, <2>1, <2>2, <2>3, <2>4, <2>5, <2>6, <2>7 DEF CarryOut, r
<1> QED
  BY <1>8, <1>9

(* A round of multi-polling sends no acknowledgement.                      *)
LEMMA ReaderPolls ==
  ASSUME ReaderTypeOK, PollRound
  PROVE  /\ rounds > 0 /\ UNCHANGED <<toDev, settings, polling>>
         /\ \E new \in Seq(Frames) :
              /\ toHost' = toHost \o new
              /\ \A f \in On(new) : f.own = polling /\ f.cmd \in {Error, "SinglePollingInstruction"}
<1>1. rounds > 0 /\ UNCHANGED <<toDev, settings, polling>>
  BY DEF PollRound
<1>2. CASE toHost' = toHost
  <2>1. <<>> \in Seq(Frames) /\ toHost' = toHost \o <<>> /\ On(<<>>) = {}
    BY <1>2, OnEmpty DEF ReaderTypeOK
  <2> QED
    BY <1>1, <2>1
<1>3. CASE \E n \in 0..MaxTags : toHost' = toHost \o Inventory(n, polling)
  <2>1. PICK n \in 0..MaxTags : toHost' = toHost \o Inventory(n, polling)
    BY <1>3
  <2>2. /\ Inventory(n, polling) \in Seq(Frames)
        /\ \A f \in On(Inventory(n, polling)) :
             f.own = polling /\ f.cmd \in {Error, "SinglePollingInstruction"}
    <3>1. n \in Nat /\ polling \in BOOLEAN
      BY ReaderAssumption DEF ReaderTypeOK
    <3> QED
      BY <3>1, InventoryFrames
  <2> QED
    BY <1>1, <2>1, <2>2
<1> QED
  BY <1>2, <1>3 DEF PollRound

(* The reader and the line keep the types. *)
LEMMA ReaderTyped == ReaderTypeOK /\ ReaderStep => ReaderTypeOK'
<1> SUFFICES ASSUME ReaderTypeOK, ReaderStep PROVE ReaderTypeOK'
  OBVIOUS
<1> USE DEF ReaderTypeOK
<1>1. ASSUME toDev # <<>>
      PROVE  /\ Head(toDev) \in Requests /\ Tail(toDev) \in Seq(Requests)
             /\ Head(toDev).cmd \in Commands /\ Head(toDev).arg \in Args
             /\ Head(toDev).own \in BOOLEAN
  <2>1. Head(toDev) \in Requests /\ Tail(toDev) \in Seq(Requests)
    BY <1>1
  <2> QED
    BY <2>1 DEF Requests
<1>2. CASE Refuse
  <2>1. Response(Error, "code", Head(toDev).own) \in Frames
    BY <1>1, <1>2, ResponseFrame DEF Refuse
  <2> QED
    BY <1>1, <1>2, <2>1 DEF Refuse
<1>3. CASE CarryOut
  <2> DEFINE r == Head(toDev)
  <2>1. r.cmd \in Commands /\ r.arg \in Args /\ r.own \in BOOLEAN /\ toDev' \in Seq(Requests)
    BY <1>1, <1>3 DEF CarryOut
  <2> HIDE DEF r
  <2>2. CASE SetSetting(r)
    <3>1. Response(r.cmd, "ack", r.own) \in Frames
      BY <2>1, ResponseFrame
    <3>2. toHost' \in Seq(Frames) /\ rounds' = rounds /\ polling' = polling
      BY <2>2, <3>1 DEF SetSetting
    <3>3. settings' \in [Settings -> Args]
      BY <2>1, <2>2 DEF SetSetting
    <3> QED
      BY <2>1, <3>2, <3>3
  <2>3. CASE GetSetting(r)
    <3>1. settings[SettingOf(r.cmd)] \in Args
      BY <2>3 DEF GetSetting, GetCmds, SettingOf, Settings
    <3>2. Response(r.cmd, settings[SettingOf(r.cmd)], r.own) \in Frames
      BY <2>1, <3>1, ResponseFrame
    <3> QED
      BY <2>1, <2>3, <3>2 DEF GetSetting
  <2>4. CASE Info(r)
    <3>1. Response(r.cmd, "text", r.own) \in Frames
      BY <2>1, ResponseFrame
    <3> QED
      BY <2>1, <2>4, <3>1 DEF Info
  <2>5. CASE TagOperation(r)
    <3>1. Response(r.cmd, "ack", r.own) \in Frames
      BY <2>1, ResponseFrame
    <3> QED
      BY <2>1, <2>5, <3>1 DEF TagOperation
  <2>6. CASE PollOnce(r)
    <3>1. PICK n \in 0..MaxTags : toHost' = toHost \o Inventory(n, r.own)
      BY <2>6 DEF PollOnce
    <3>2. Inventory(n, r.own) \in Seq(Frames)
      BY <2>1, InventoryFrames, ReaderAssumption
    <3> QED
      BY <2>1, <2>6, <3>1, <3>2 DEF PollOnce
  <2>7. CASE StartPolling(r)
    BY <2>1, <2>7, ReaderAssumption DEF StartPolling
  <2>8. CASE StopPolling(r)
    <3>1. Response(StopCmd, "ack", r.own) \in Frames
      BY <2>1, ResponseFrame DEF Commands
    <3> QED
      BY <2>1, <2>8, <3>1, ReaderAssumption DEF StopPolling
  <2> QED
    BY <1>3, <2>2, <2>3, <2>4, <2>5, <2>6, <2>7, <2>8 DEF CarryOut, r
<1>4. CASE PollRound
  <2>1. toHost' \in Seq(Frames)
    <3>1. CASE \E n \in 0..MaxTags : toHost' = toHost \o Inventory(n, polling)
      <4>1. PICK n \in 0..MaxTags : toHost' = toHost \o Inventory(n, polling)
        BY <3>1
      <4>2. Inventory(n, polling) \in Seq(Frames)
        BY InventoryFrames, ReaderAssumption
      <4> QED
        BY <4>1, <4>2
    <3> QED
      BY <1>4, <3>1 DEF PollRound
  <2> QED
    BY <1>4, <2>1, ReaderAssumption DEF PollRound
<1>5. CASE LoseRequest
  BY <1>1, <1>5 DEF LoseRequest
<1>6. CASE LoseFrame
  BY <1>6 DEF LoseFrame
<1> QED
  BY <1>2, <1>3, <1>4, <1>5, <1>6 DEF ReaderStep

(* A return ends the call and leaves its name and its step alone. *)
LEMMA ReturnTyped ==
  ASSUME TypeOK, NEW status, NEW val, Return(status, val)
  PROVE  pc' = "idle" /\ call' = call /\ step' = step
  BY DEF Return

(* What follows an exchange keeps the types: a next exchange is one of the *)
(* script.                                                                 *)
LEMMA ConcludeTyped ==
  ASSUME TypeOK, NEW status, NEW val, Conclude(status, val)
  PROVE  /\ pc' \in {"idle", "send"} /\ call' = call
         /\ step' \in 1..Len(Script(call))
         /\ polled' \in BOOLEAN /\ owed' \in 0..2
<1>1. polled' \in BOOLEAN /\ owed' \in 0..2
  BY DEF Conclude, NoteStop, TypeOK
<1>2. CASE step < Len(Script(call)) /\ GoesOn(status)
  BY <1>1, <1>2, ScriptFits DEF Conclude, TypeOK
<1>3. CASE ~(step < Len(Script(call)) /\ GoesOn(status))
  BY <1>1, <1>3, ReturnTyped DEF Conclude, TypeOK
<1> QED
  BY <1>2, <1>3

(* A write leaves frames and requests what they are. *)
LEMMA WriteTyped ==
  ASSUME TypeOK, NEW delivered \in BOOLEAN, Write(delivered)
  PROVE  /\ ReaderTypeOK'
         /\ inbuf' \in Seq(Frames) /\ Len(inbuf') <= MaxLine
         /\ stale' \in BOOLEAN /\ got' = <<>> /\ pure' = pure
<1> USE DEF TypeOK, ReaderTypeOK
<1>1. Disown(toDev) \in Seq(Requests)
  BY DisownRequests
<1>2. [cmd |-> Now.cmd, arg |-> Now.arg, own |-> TRUE] \in Requests
  BY NowFits DEF Exchanging, Requests
<1>3. toDev' \in Seq(Requests)
  BY <1>1, <1>2 DEF Write
<1>4. toHost' \in Seq(Frames)
  BY DisownFrames DEF Write
<1>5. Input \in Seq(Frames) /\ Len(Input) <= MaxLine
  BY ReaderAssumption DEF Input
<1>6. inbuf' \in Seq(Frames) /\ Len(inbuf') <= MaxLine
  BY <1>5, DisownFrames DEF Write
<1> QED
  BY <1>3, <1>4, <1>6 DEF Write

(* A read that ends without further frames keeps the types. *)
LEMMA EndReadTyped ==
  ASSUME TypeOK, NEW kind, EndRead(kind)
  PROVE  TypeOK'
<1>1. pure' \in BOOLEAN
  BY DEF EndRead, TypeOK, Belongs
<1>2. PICK status, val : Conclude(status, val)
  BY DEF EndRead
<1> QED
  BY <1>1, <1>2, ConcludeTyped DEF EndRead, TypeOK, ReaderTypeOK, readerVars

(* Every step keeps the types. *)
LEMMA Typed == TypeOK /\ [Next]_vars => TypeOK'
<1> SUFFICES ASSUME TypeOK, [Next]_vars PROVE TypeOK'
  OBVIOUS
<1> USE DEF readerVars, hostVars
<1>1. CASE Arrive
  <2>1. ReaderTypeOK'
    BY <1>1 DEF Arrive, TypeOK, ReaderTypeOK
  <2>2. inbuf' \in Seq(Frames) /\ Len(inbuf') <= MaxLine
    BY <1>1, ReaderAssumption DEF Arrive, TypeOK, ReaderTypeOK
  <2> QED
    BY <1>1, <2>1, <2>2 DEF Arrive, TypeOK
<1>2. CASE Reader
  BY <1>2, ReaderTyped DEF Reader, TypeOK
<1>3. CASE \E c \in Calls : Invoke(c)
  <2>1. PICK c \in Calls : Invoke(c)
    BY <1>3
  <2>2. ReaderTypeOK'
    BY <2>1 DEF Invoke, TypeOK, ReaderTypeOK
  <2>3. call' = c /\ step' = 1 /\ got' = <<>> /\ pc' \in {"send", "idle"}
    BY <2>1 DEF Invoke
  <2>4. step' \in 1..Len(Script(call'))
    BY <2>3, ScriptFits
  <2> QED
    BY <2>1, <2>2, <2>3, <2>4 DEF Invoke, TypeOK
<1>4. CASE Send
  <2>1. Write(TRUE)
    BY <1>4 DEF Send
  <2>2. /\ pc' \in {"idle", "read"} /\ call' = call /\ step' = step
        /\ polled' \in BOOLEAN /\ owed' = owed
    BY <1>4 DEF Send, Return, TypeOK
  <2>3. /\ ReaderTypeOK'
        /\ inbuf' \in Seq(Frames) /\ Len(inbuf') <= MaxLine
        /\ stale' \in BOOLEAN /\ got' = <<>> /\ pure' = pure
    BY <2>1, WriteTyped
  <2> QED
    BY <2>2, <2>3 DEF TypeOK
<1>5. CASE SendFails
  <2>1. PICK delivered \in BOOLEAN : Write(delivered)
    BY <1>5 DEF SendFails
  <2>2. pc' = "idle" /\ call' = call /\ step' = step /\ polled' \in BOOLEAN /\ owed' = 2
    BY <1>5 DEF SendFails, TypeOK
  <2>3. /\ ReaderTypeOK'
        /\ inbuf' \in Seq(Frames) /\ Len(inbuf') <= MaxLine
        /\ stale' \in BOOLEAN /\ got' = <<>> /\ pure' = pure
    BY <2>1, WriteTyped
  <2> QED
    BY <2>2, <2>3 DEF TypeOK
<1>6. CASE ClearFails
  <2>1. stale' \in BOOLEAN
    BY <1>6 DEF ClearFails
  <2> QED
    BY <1>6, <2>1 DEF ClearFails, TypeOK, ReaderTypeOK
<1>7. CASE Cancel
  BY <1>7 DEF Cancel, TypeOK, ReaderTypeOK
<1>8. CASE Receive
  <2>1. PICK n \in 1..Len(inbuf) :
          LET all     == got \o SubSeq(inbuf, 1, n)
              packets == SubSeq(all, 1, Now.expect)
          IN  /\ inbuf' = SubSeq(inbuf, n + 1, Len(inbuf))
              /\ IF Len(all) >= Now.expect
                 THEN /\ got' = <<>>
                      /\ pure' = (pure /\ Belongs(Now.cmd, packets))
                      /\ Conclude(Answer(Now.cmd, "Packets", packets), packets[1].val)
                 ELSE /\ got' = all
                      /\ UNCHANGED <<pc, call, step, failed, result, pure, polled, owed>>
    BY <1>8 DEF Receive
  <2> DEFINE all     == got \o SubSeq(inbuf, 1, n)
             packets == SubSeq(all, 1, Now.expect)
  <2>2. inbuf' \in Seq(Frames) /\ Len(inbuf') <= MaxLine /\ all \in Seq(Frames)
    BY <2>1, OnSubSeq, OnConcat, ReaderAssumption DEF TypeOK
  <2>3. ReaderTypeOK' /\ stale' = TRUE
    BY <1>8 DEF Receive, TypeOK, ReaderTypeOK
  <2>4. CASE Len(all) >= Now.expect
    <3>1. got' = <<>> /\ pure' \in BOOLEAN
      BY <2>1, <2>4 DEF TypeOK
    <3>2. Conclude(Answer(Now.cmd, "Packets", packets), packets[1].val)
      BY <2>1, <2>4
    <3> QED
      BY <2>2, <2>3, <3>1, <3>2, ConcludeTyped DEF TypeOK
  <2>5. CASE ~(Len(all) >= Now.expect)
    <3>1. got' = all /\ UNCHANGED <<pc, call, step, failed, result, pure, polled, owed>>
      BY <2>1, <2>5
    <3> HIDE DEF all
    <3> QED
      BY <2>2, <2>3, <3>1 DEF TypeOK
  <2> QED
    BY <2>4, <2>5
<1>9. CASE TimedOut
  BY <1>9, EndReadTyped DEF TimedOut
<1>10. CASE Eof \/ ReadError
  BY <1>10, EndReadTyped DEF Eof, ReadError
<1>11. CASE UNCHANGED vars
  BY <1>11 DEF vars, TypeOK, ReaderTypeOK
<1> QED
  BY <1>1, <1>2, <1>3, <1>4, <1>5, <1>6, <1>7, <1>8, <1>9, <1>10, <1>11 DEF Next

(* The program starts in its types. *)
LEMMA InitTyped == Init => TypeOK
<1> SUFFICES ASSUME Init PROVE TypeOK
  OBVIOUS
<1>1. settings \in [Settings -> Args] /\ rounds \in 0..PollRounds
  BY ReaderAssumption DEF Init, ReaderInit, Settings, Args
<1>2. polling \in BOOLEAN /\ polled \in BOOLEAN
  <2>1. (rounds > 0) \in BOOLEAN
    OBVIOUS
  <2>2. polled = (rounds > 0) /\ polling = FALSE
    BY Zenon DEF Init, ReaderInit
  <2> QED
    BY <2>1, <2>2, Zenon
<1>3. ReaderTypeOK
  BY <1>1, <1>2 DEF Init, ReaderInit, ReaderTypeOK
<1>4. stale \in BOOLEAN /\ pure \in BOOLEAN
  BY DEF Init
<1>5. call \in Calls /\ step \in 1..Len(Script(call))
  BY ScriptFits DEF Init
<1>6. inbuf \in Seq(Frames) /\ Len(inbuf) <= MaxLine /\ got \in Seq(Frames)
  BY ReaderAssumption DEF Init
<1>7. pc \in {"idle", "send", "read"} /\ owed \in 0..2
  BY DEF Init
<1> QED
  BY <1>2, <1>3, <1>4, <1>5, <1>6, <1>7 DEF TypeOK

(* The values stay in their types, whatever the port, the line and the     *)
(* client do: the call under way is in one of its exchanges, and the input *)
(* buffer of the port never holds more than it can.                        *)
THEOREM TypeCorrect == Spec => []TypeOK
  BY InitTyped, Typed, PTL DEF Spec
-----------------------------------------------------------------------------
(* What the ports and the lines have in common.                            *)

(* A call reads only if it has to, keeps nothing of an earlier read, and   *)
(* goes on after an answer that was not Ok only if it is get_module_info.  *)
InScript ==
  /\ pc = "read" => Now.expect > 0
  /\ pc # "read" => got = <<>>
  /\ failed # "Ok"
  /\ failed # "none" => call.name = "get_module_info"

(* The reader is not polling and has not been told to.                     *)
NotPolling == rounds = 0 /\ \A r \in On(toDev) : r.cmd # "MultiplePollingInstruction"

(* The acknowledgement of a stop, the answer to a request.                 *)
Ack(f) == f.cmd = StopCmd

IsAnswer(f, cmd) == f.own /\ (f.cmd = cmd \/ (f.cmd = Error /\ f.val \notin Values))

(* The answer to a setting comes after the setting.                        *)
Made(cmd, arg) == toDev = <<>> /\ settings[SettingOf(cmd)] = arg

SettingsFollow ==
  /\ pc = "read" /\ Now.cmd \in SetCmds =>
       \A f \in OnLine :
         \/ f.cmd = Error /\ f.val = "code"
         \/ f.cmd = Now.cmd /\ Made(Now.cmd, Now.arg)
  /\ pc # "idle" /\ step = 2 /\ call.name \in {"select_tag", "clear_select"} =>
       settings["mask"] = Script(call)[1].arg /\ (pc = "send" => toDev = <<>>)
  /\ Returned({"set_transmission_power", "set_working_area", "select_tag", "clear_select"}) =>
       toDev = <<>>

(* The exchange under way is one of the call's, and stays so while the     *)
(* call and its step do.                                                   *)
LEMMA NowSame == UNCHANGED <<call, step>> => Now' = Now
BY DEF Now

(* What an answer that is Ok says of the packets it was computed from.     *)
LEMMA OkAnswer ==
  ASSUME SettingsFollow, pc = "read", NEW kind \in {"Packets", "Empty", "Timeout", "SerialRead"},
         NEW packets \in Seq(Frames), kind = "Packets" => packets # <<>>,
         On(packets) \subseteq OnLine, Answer(Now.cmd, kind, packets) = "Ok"
  PROVE  /\ Now.cmd = StopCmd => kind = "Packets" /\ \E f \in On(packets) : Ack(f)
         /\ Now.cmd \in SetCmds => Made(Now.cmd, Now.arg)
<1>1. ASSUME Now.cmd = StopCmd PROVE kind = "Packets" /\ \E f \in On(packets) : Ack(f)
  <2>1. kind = "Packets" /\ HasAck(packets)
    BY <1>1 DEF Answer
  <2> QED
    BY <2>1 DEF HasAck, On, Ack
<1>2. ASSUME Now.cmd \in SetCmds PROVE Made(Now.cmd, Now.arg)
  <2>1. Now.cmd # StopCmd /\ Now.cmd \notin PollCmds /\ Now.cmd \notin InfoCmds
    BY <1>2 DEF SetCmds, StopCmd, PollCmds, InfoCmds
  <2>2. kind = "Packets" /\ PacketAnswer(Now.cmd, packets[1]) = "Ok"
    BY <2>1 DEF Answer
  <2>3. packets[1] \in On(packets)
    BY <2>2 DEF On
  <2>4. packets[1].cmd # Error \/ packets[1].val = "ack"
    BY <1>2, <2>2 DEF PacketAnswer, CheckedCmds, SetCmds
  <2> QED
    BY <1>2, <2>3, <2>4 DEF SettingsFollow
<1> QED
  BY <1>1, <1>2

(* How an exchange ends: a stop that saw its acknowledgement ends polling; *)
(* the call goes on to the next exchange, or returns.                      *)
LEMMA ConcludeIs ==
  ASSUME NEW status, NEW val, Conclude(status, val)
  PROVE  /\ polled' <=> polled /\ ~(Now.cmd = StopCmd /\ status = "Ok")
         /\ owed' = IF Now.cmd = StopCmd /\ status = "Ok" /\ owed > 0 THEN owed - 1 ELSE owed
         /\ \/ /\ step < Len(Script(call)) /\ GoesOn(status)
               /\ pc' = "send" /\ step' = step + 1 /\ UNCHANGED <<call, result>>
               /\ failed' = failed \/ (failed' = status /\ status # "Ok")
            \/ /\ ~(step < Len(Script(call)) /\ GoesOn(status))
               /\ pc' = "idle" /\ UNCHANGED <<call, step, failed>>
               /\ result'.status = IF call.name = "setup_reader" THEN "Ok"
                                   ELSE IF failed # "none" THEN failed ELSE status
<1>1. polled' <=> polled /\ ~(Now.cmd = StopCmd /\ status = "Ok")
  BY DEF Conclude, NoteStop
<1>2. owed' = IF Now.cmd = StopCmd /\ status = "Ok" /\ owed > 0 THEN owed - 1 ELSE owed
  BY DEF Conclude, NoteStop
<1>3. CASE step < Len(Script(call)) /\ GoesOn(status)
  BY <1>1, <1>2, <1>3 DEF Conclude
<1>4. CASE ~(step < Len(Script(call)) /\ GoesOn(status))
  BY <1>1, <1>2, <1>4 DEF Conclude, Return
<1> QED
  BY <1>3, <1>4

(* A setting that is confirmed was made, and stays so until the call       *)
(* returns; the two settings of a selection are both made.                 *)
LEMMA SettingsConclude ==
  ASSUME TypeOK, InScript, SettingsFollow, pc = "read",
         NEW kind \in {"Packets", "Empty", "Timeout", "SerialRead"},
         NEW packets \in Seq(Frames), kind = "Packets" => packets # <<>>,
         On(packets) \subseteq OnLine,
         NEW val, Conclude(Answer(Now.cmd, kind, packets), val),
         UNCHANGED readerVars, got' = <<>>
  PROVE  InScript' /\ SettingsFollow' /\ SettingsHold'
<1> DEFINE status == Answer(Now.cmd, kind, packets)
<1>1. Now.cmd \in SetCmds /\ status = "Ok" => Made(Now.cmd, Now.arg)
  BY OkAnswer
<1>2. \/ /\ step < Len(Script(call)) /\ GoesOn(status)
         /\ pc' = "send" /\ step' = step + 1 /\ UNCHANGED <<call, result>>
         /\ failed' = failed \/ (failed' = status /\ status # "Ok")
      \/ /\ ~(step < Len(Script(call)) /\ GoesOn(status))
         /\ pc' = "idle" /\ UNCHANGED <<call, step, failed>>
         /\ result'.status = IF call.name = "setup_reader" THEN "Ok"
                             ELSE IF failed # "none" THEN failed ELSE status
  BY ConcludeIs
<1> HIDE DEF status
<1>3. /\ Fits(call, Now) /\ Now = Script(call)[step]
      /\ step \in 1..Len(Script(call)) /\ Len(Script(call)) \in 1..3
      /\ call \in Calls
  BY NowFits, ScriptFits DEF TypeOK, Now
<1>4. UNCHANGED <<toDev, toHost, settings>> /\ call' = call /\ pc' \in {"idle", "send"}
  BY <1>2 DEF readerVars
<1>5. pc' = "idle" /\ result'.status = "Ok" /\ call.name # "setup_reader" =>
        status = "Ok" /\ step = Len(Script(call))
  BY <1>2, <1>3 DEF InScript, GoesOn
<1>6. InScript'
  BY <1>2, <1>4 DEF InScript, GoesOn
<1>7. SettingsFollow'
  <2>1. ASSUME pc' = "send", step' = 2, call.name \in Selects
        PROVE  settings["mask"] = Script(call)[1].arg /\ toDev = <<>>
    <3>1. step = 1 /\ status = "Ok"
      BY <1>2, <1>3, <2>1 DEF GoesOn, Selects
    <3>2. Now.cmd = "SetSelect"
      BY <1>3, <2>1, <3>1, ScriptOf DEF Selects, Exchange
    <3> QED
      BY <1>1, <1>3, <3>1, <3>2 DEF SetCmds, Made, SettingOf
  <2>2. ASSUME pc' = "idle", result'.status = "Ok",
               call.name \in {"set_transmission_power", "set_working_area"} \cup Selects
        PROVE  toDev = <<>>
    <3>1. Now.cmd \in SetCmds
      BY <1>3, <2>2 DEF Fits, SetCmds, Selects
    <3> QED
      BY <1>1, <1>5, <2>2, <3>1 DEF Made, Selects
  <2> QED
    BY <1>4, <2>1, <2>2 DEF SettingsFollow, Returned, Selects
<1>8. SettingsHold'
  <2>1. ASSUME pc' = "idle", result'.status = "Ok", call.name = "set_transmission_power"
        PROVE  settings["power"] = call.arg
    <3>1. Now.cmd = "SetTransmissionPower" /\ Now.arg = call.arg
      BY <1>3, <2>1 DEF Fits
    <3> QED
      BY <1>1, <1>5, <2>1, <3>1 DEF Made, SettingOf, SetCmds
  <2>2. ASSUME pc' = "idle", result'.status = "Ok", call.name = "set_working_area"
        PROVE  settings["area"] = call.arg
    <3>1. Now.cmd = "SetWorkingArea" /\ Now.arg = call.arg
      BY <1>3, <2>2 DEF Fits
    <3> QED
      BY <1>1, <1>5, <2>2, <3>1 DEF Made, SettingOf, SetCmds
  <2>3. ASSUME pc' = "idle", result'.status = "Ok", call.name \in Selects
        PROVE  /\ settings["mask"] = Script(call)[1].arg
               /\ settings["mode"] = Script(call)[2].arg
    <3>1. step = 2 /\ status = "Ok"
      BY <1>3, <1>5, <2>3, ScriptFits DEF Selects
    <3>2. Now.cmd = "SetSendSelect"
      BY <1>3, <2>3, <3>1, ScriptOf DEF Selects, Exchange
    <3>3. settings["mode"] = Now.arg
      BY <1>1, <3>1, <3>2 DEF Made, SettingOf, SetCmds
    <3> QED
      BY <1>3, <2>3, <3>1, <3>3 DEF SettingsFollow, Selects
  <2>4. /\ call.name = "select_tag" =>
             Script(call)[1].arg = call.arg /\ Script(call)[2].arg = WithMask
        /\ call.name = "clear_select" =>
             Script(call)[1].arg = NoValue /\ Script(call)[2].arg = NoMask
    BY ScriptOf DEF Exchange
  <2> QED
    BY <1>4, <2>1, <2>2, <2>3, <2>4 DEF SettingsHold, Returned, Selects
<1> QED
  BY <1>6, <1>7, <1>8

(* A setting is answered after it is made, when the reader has nothing     *)
(* left to do.                                                             *)
LEMMA SettingsTaken ==
  ASSUME TypeOK, SettingsFollow, SettingsHold, Refuse \/ CarryOut,
         UNCHANGED <<inbuf, hostVars>>,
         pc = "read" /\ Now.cmd \in SetCmds =>
           /\ Head(toDev).cmd = Now.cmd /\ Head(toDev).arg = Now.arg
           /\ toDev' = <<>>
  PROVE  SettingsFollow' /\ SettingsHold'
<1> DEFINE r == Head(toDev)
<1>1. /\ toHost \in Seq(Frames) /\ ReaderTypeOK /\ settings \in [Settings -> Args]
  BY DEF TypeOK, ReaderTypeOK
<1>2. UNCHANGED <<pc, call, step, got, result, inbuf>>
  BY DEF hostVars
<1>3. Now' = Now
  BY <1>2, NowSame
<1>4. PICK new \in Seq(Frames) : toHost' = toHost \o new /\ Answers(r, new)
  BY <1>1, ReaderAnswers
<1>5. toDev # <<>>
  BY <1>1, ReaderAnswers
<1>6. OnLine' = OnLine \cup On(new)
  BY <1>1, <1>2, <1>4, OnConcat DEF OnLine
<1> HIDE DEF r
<1>7. ASSUME pc = "read", Now.cmd \in SetCmds, NEW f \in OnLine'
      PROVE  \/ f.cmd = Error /\ f.val = "code"
             \/ f.cmd = Now.cmd /\ Made(Now.cmd, Now.arg)'
  <2>1. r.cmd = Now.cmd /\ r.arg = Now.arg /\ toDev' = <<>>
    BY <1>7 DEF r
  <2>2. CASE f \in On(new)
    <3>1. SettingOf(r.cmd) \in Settings
      BY <1>7, <2>1 DEF SetCmds, SettingOf, Settings
    <3>2. \/ f.cmd = Error /\ f.val = "code"
          \/ f.cmd = r.cmd /\ settings' = [settings EXCEPT ![SettingOf(r.cmd)] = r.arg]
      BY <1>4, <1>7, <2>1, <2>2 DEF Answers
    <3>3. settings' = [settings EXCEPT ![SettingOf(r.cmd)] = r.arg] =>
            settings'[SettingOf(r.cmd)] = r.arg
      BY <1>1, <3>1
    <3> QED
      BY <1>3, <2>1, <3>2, <3>3 DEF Made
  <2>3. CASE f \in OnLine
    BY <1>5, <1>7, <2>3 DEF SettingsFollow, Made
  <2> QED
    BY <1>6, <2>2, <2>3
<1>8. ASSUME pc # "idle", step = 2, call.name \in Selects
      PROVE  settings'["mask"] = settings["mask"] /\ pc = "read"
  <2>1. pc = "read"
    BY <1>5, <1>8 DEF SettingsFollow, TypeOK, Selects
  <2>2. Now.cmd = "SetSendSelect"
    BY <1>8, ScriptOf DEF Now, Selects, Exchange
  <2>3. r.cmd = "SetSendSelect"
    BY <2>1, <2>2 DEF r, SetCmds
  <2> QED
    BY <1>1, <1>4, <2>1, <2>3 DEF Answers, SettingOf, Settings
<1>9. ~Returned({"set_transmission_power", "set_working_area", "select_tag", "clear_select"})
  BY <1>5 DEF SettingsFollow
<1>10. SettingsFollow'
  BY <1>2, <1>3, <1>7, <1>8, <1>9 DEF SettingsFollow, Returned, Selects
<1>11. SettingsHold'
  BY <1>2, <1>9 DEF SettingsHold, Returned
<1> QED
  BY <1>10, <1>11
=============================================================================
