----------------------------- MODULE MCConnector -----------------------------
(***************************************************************************)
(* Small instances of Connector: which operations the client mixes.        *)
(***************************************************************************)
EXTENDS Connector

(* Calls without an argument, and with one. *)
Plain(api, names) == {[name |-> n, arg |-> NoValue, api |-> api] : n \in names}
With(api, names, vals) ==
  {[name |-> n, arg |-> v, api |-> api] : n \in names, v \in vals}

Setters == {"set_transmission_power", "set_working_area", "select_tag"}

AllCalls ==
  Plain("sync", SyncOperations \ Setters) \cup With("sync", Setters, Values)

(* SyncIO and AsyncIO on one port that is both, without set_working_area   *)
(* (a setting like set_transmission_power) and without the futures of      *)
(* kill_tag and lock_tag (one exchange, as write_mem).                     *)
PromptCalls ==
  Plain("sync", SyncOperations \ Setters)
    \cup Plain("async", AsyncOperations \ (Setters \cup {"kill_tag", "lock_tag"}))
    \cup With("sync", {"set_transmission_power", "select_tag"}, Values \ {Factory})
    \cup With("async", {"set_transmission_power", "select_tag"}, Values \ {Factory})

PowerCalls ==
  With("sync", {"set_transmission_power"}, Values)
    \cup Plain("sync", {"get_transmit_power", "setup_reader"})
=============================================================================
