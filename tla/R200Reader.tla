----------------------------- MODULE R200Reader -----------------------------
(***************************************************************************)
(* The R200 reader at the far end of the serial line, and the line itself, *)
(* as the connector depends on them. The firmware is not in the            *)
(* repository: requests, acknowledgements, error responses and tag         *)
(* notifications are modelled from the commands src/src/connector sends    *)
(* and from the responses it tells apart.                                  *)
(*                                                                         *)
(* A frame on the line is whole: FrameParser shows that the byte loop      *)
(* reports exactly the frames sent. The ghost field own tells whether a    *)
(* frame belongs to the request sent last.                                 *)
(***************************************************************************)
EXTENDS Integers, Sequences

CONSTANTS
  Values,     \* arguments of settings: powers, areas, EPC masks
  Factory,    \* the power and the area the reader starts with
  NoValue,    \* no argument
  MaxTags,    \* the most tag notifications of one inventory round
  PollRounds, \* rounds of a multi-polling command (100 and more)
  MaxLine,    \* bound: frames under way to the host
  Lossy       \* whether the line may lose a request or a frame

ASSUME ReaderAssumption ==
  /\ NoValue \notin Values /\ Factory \in Values
  /\ Values \cap {"ack", "tag", "code", "noTag", "text"} = {}
  /\ MaxTags \in Nat /\ PollRounds \in Nat /\ MaxLine \in Nat
  /\ Lossy \in BOOLEAN

GetCmds  == {"AcquireTransmitPower", "GetWorkingArea"}
SetCmds  == {"SetTransmissionPower", "SetWorkingArea", "SetSelect", "SetSendSelect"}
InfoCmds == {"HardwareVersion", "SoftwareVersion", "Manufacturer", "GetWorkingChannel"}
TagCmds  == {"ReadLabel", "WriteLabel", "KillTag", "LockTag"}
PollCmds == {"SinglePollingInstruction", "MultiplePollingInstruction"}
StopCmd  == "StopMultiplePollingInstruction"
Commands == GetCmds \cup SetCmds \cup InfoCmds \cup TagCmds \cup PollCmds \cup {StopCmd}

(* The setting a command reads or writes. *)
SettingOf(cmd) ==
  CASE cmd \in {"AcquireTransmitPower", "SetTransmissionPower"} -> "power"
    [] cmd \in {"GetWorkingArea", "SetWorkingArea"}             -> "area"
    [] cmd = "SetSelect"                                        -> "mask"
    [] cmd = "SetSendSelect"                                    -> "mode"

Settings == {"power", "area", "mask", "mode"}

(* Modes of SetSendSelect: with the mask, and without. *)
WithMask == "WithMask"
NoMask   == "NoMask"

Args     == Values \cup {NoValue, WithMask, NoMask}
Requests == [cmd : Commands, arg : Args, own : BOOLEAN]

(* A response carries the command code it answers, or Error (0xFF); val is *)
(* what its data says: a setting, "ack" (0x00), "tag" (17 bytes), "code"   *)
(* (an error code) or "noTag" (the error code 0x15).                       *)
Error  == "Error"
Frames == [cmd : Commands \cup {Error},
           val : Args \cup {"ack", "tag", "code", "noTag", "text"},
           own : BOOLEAN]

VARIABLES
  toDev,    \* requests the reader has not taken yet
  toHost,   \* frames it has sent that the host's port has not received yet
  settings, \* its settings
  rounds,   \* inventory rounds left of a multi-polling command
  polling   \* ghost: whether that command is the request sent last

readerVars == <<toDev, toHost, settings, rounds, polling>>

(* It may still be in the multi-polling of a program that was killed. *)
ReaderInit ==
  /\ toDev = <<>> /\ toHost = <<>>
  /\ settings = [power |-> Factory, area |-> Factory, mask |-> NoValue, mode |-> NoMask]
  /\ rounds \in {0, PollRounds}
  /\ polling = FALSE

Response(cmd, val, own) == [cmd |-> cmd, val |-> val, own |-> own]

(* What one inventory round that sees n tags sends. *)
Inventory(n, own) ==
  IF n = 0 THEN <<Response(Error, "noTag", own)>>
  ELSE [i \in 1..n |-> Response("SinglePollingInstruction", "tag", own)]

(* The reader takes a request and refuses it. *)
Refuse ==
  /\ toDev # <<>>
  /\ Len(toHost) < MaxLine
  /\ toDev' = Tail(toDev)
  /\ toHost' = Append(toHost, Response(Error, "code", Head(toDev).own))
  /\ UNCHANGED <<settings, rounds, polling>>

(* The reader takes a request and carries it out. *)
SetSetting(r) ==
  /\ r.cmd \in SetCmds
  /\ settings' = [settings EXCEPT ![SettingOf(r.cmd)] = r.arg]
  /\ toHost' = Append(toHost, Response(r.cmd, "ack", r.own))
  /\ UNCHANGED <<rounds, polling>>

GetSetting(r) ==
  /\ r.cmd \in GetCmds
  /\ toHost' = Append(toHost, Response(r.cmd, settings[SettingOf(r.cmd)], r.own))
  /\ UNCHANGED <<settings, rounds, polling>>

Info(r) ==
  /\ r.cmd \in InfoCmds
  /\ toHost' = Append(toHost, Response(r.cmd, "text", r.own))
  /\ UNCHANGED <<settings, rounds, polling>>

TagOperation(r) ==
  /\ r.cmd \in TagCmds
  /\ toHost' = Append(toHost, Response(r.cmd, "ack", r.own))
  /\ UNCHANGED <<settings, rounds, polling>>

PollOnce(r) ==
  /\ r.cmd = "SinglePollingInstruction"
  /\ \E n \in 0..MaxTags : toHost' = toHost \o Inventory(n, r.own)
  /\ UNCHANGED <<settings, rounds, polling>>

StartPolling(r) ==
  /\ r.cmd = "MultiplePollingInstruction"
  /\ rounds' = PollRounds
  /\ polling' = r.own
  /\ UNCHANGED <<settings, toHost>>

StopPolling(r) ==
  /\ r.cmd = StopCmd
  /\ rounds' = 0
  /\ toHost' = Append(toHost, Response(StopCmd, "ack", r.own))
  /\ UNCHANGED <<settings, polling>>

CarryOut ==
  /\ toDev # <<>>
  /\ Len(toHost) < MaxLine
  /\ LET r == Head(toDev) IN
       \/ SetSetting(r) \/ GetSetting(r) \/ Info(r) \/ TagOperation(r)
       \/ PollOnce(r) \/ StartPolling(r) \/ StopPolling(r)
  /\ toDev' = Tail(toDev)

(* One more round of multi-polling. A round that sees nothing may be       *)
(* silent or say so.                                                       *)
PollRound ==
  /\ rounds > 0
  /\ Len(toHost) < MaxLine
  /\ rounds' = rounds - 1
  /\ \/ toHost' = toHost
     \/ \E n \in 0..MaxTags : toHost' = toHost \o Inventory(n, polling)
  /\ UNCHANGED <<toDev, settings, polling>>

(* The line loses a request, or a frame. *)
LoseRequest ==
  /\ Lossy /\ toDev # <<>>
  /\ toDev' = Tail(toDev)
  /\ UNCHANGED <<toHost, settings, rounds, polling>>

LoseFrame ==
  /\ Lossy /\ toHost # <<>>
  /\ toHost' = Tail(toHost)
  /\ UNCHANGED <<toDev, settings, rounds, polling>>

ReaderStep == Refuse \/ CarryOut \/ PollRound \/ LoseRequest \/ LoseFrame

(* Nothing is under way. *)
Quiet == toDev = <<>> /\ toHost = <<>>

ReaderTypeOK ==
  /\ toDev \in Seq(Requests)
  /\ toHost \in Seq(Frames)
  /\ settings \in [Settings -> Args]
  /\ rounds \in 0..PollRounds
  /\ polling \in BOOLEAN
=============================================================================
