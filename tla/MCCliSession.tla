----------------------------- MODULE MCCliSession ---------------------------
(***************************************************************************)
(* Small instances of CliSession.                                          *)
(***************************************************************************)
EXTENDS CliSession

(* One command of every form; Read, Write and Lock have Kill's, GetPower   *)
(* has less than Info, Region is SetPower.                                 *)
SomeVerbs == {"Info", "Poll", "Scan", "SetPower", "Kill"}

(* The operations that commands call. *)
CallsOf(verbs) ==
  UNION {{CallOf(Program(v)[i]) : i \in 1..Len(Program(v))} : v \in verbs}

SomeCalls == CallsOf(SomeVerbs)
ScanVerbs == {"Scan", "GetPower"}
ScanCalls == CallsOf(ScanVerbs)
=============================================================================
