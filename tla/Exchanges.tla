------------------------------ MODULE Exchanges ------------------------------
(***************************************************************************)
(* What an operation of the connector promises its caller, without ports,  *)
(* frames and buffers: it makes its requests one after another; the reader *)
(* carries out each of them at most once, and not after the next one is    *)
(* made; and the operation gets past a request that must be confirmed only *)
(* if the reader did carry it out. TagCommand takes an exchange as one     *)
(* step on the strength of this; Connector implements it.                  *)
(***************************************************************************)
EXTENDS Integers, Sequences

CONSTANTS
  Scripts,   \* the requests of every operation: sequences of [cmd, arg]
  Assigns,   \* which setting a command assigns: a function on commands
  Confirmed  \* commands that must not succeed without the reader

VARIABLES
  settings, \* the settings of the reader
  todo,     \* the requests the operation has still to get past, if any
  asked,    \* the first of them has been made
  sent,     \* the request to be confirmed that is on its way: <<>> or <<r>>
  acked,    \* the reader has carried out that request and its answer is not lost
  outcome   \* how the last operation ended: "none", "Ok" or "failed"

exchangeVars == <<settings, todo, asked, sent, acked, outcome>>

Effect(r) ==
  IF r.cmd \in DOMAIN Assigns THEN [settings EXCEPT ![Assigns[r.cmd]] = r.arg] ELSE settings

Start ==
  /\ todo = <<>> /\ sent = <<>> /\ ~asked /\ ~acked
  /\ outcome = "none"

-----------------------------------------------------------------------------
Begin ==
  /\ todo = <<>>
  /\ todo' \in Scripts
  /\ outcome' = "none"
  /\ UNCHANGED <<settings, asked, sent, acked>>

(* The operation ends before it makes a request. *)
Reject ==
  /\ todo = <<>>
  /\ outcome' = "failed"
  /\ UNCHANGED <<settings, todo, asked, sent, acked>>

(* A request is made, of which nothing may be heard again. The one before  *)
(* is no longer on its way.                                                *)
Ask ==
  /\ todo # <<>> /\ ~asked
  /\ sent = <<>>
  /\ asked' = TRUE
  /\ sent' \in {<<>>, <<Head(todo)>>}
  /\ acked' = FALSE
  /\ UNCHANGED <<settings, todo, outcome>>

(* A request is made, it cannot be told whether it went out, and the       *)
(* operation gives up at once.                                             *)
AskInVain ==
  /\ todo # <<>> /\ ~asked
  /\ sent = <<>>
  /\ sent' \in {<<>>, <<Head(todo)>>}
  /\ acked' = FALSE
  /\ todo' = <<>>
  /\ outcome' = "failed"
  /\ UNCHANGED <<settings, asked>>

(* The last request, when the operation waits for no answer. *)
AskOnly ==
  /\ todo # <<>> /\ ~asked
  /\ sent = <<>>
  /\ Len(todo) = 1 /\ Head(todo).cmd \notin Confirmed
  /\ sent' = <<>>
  /\ acked' = FALSE
  /\ todo' = <<>>
  /\ outcome' = "Ok"
  /\ UNCHANGED <<settings, asked>>

(* The same, and the request is not even made. *)
Skip ==
  /\ todo # <<>> /\ ~asked
  /\ Len(todo) = 1 /\ Head(todo).cmd \notin Confirmed
  /\ todo' = <<>>
  /\ outcome' = "Ok"
  /\ UNCHANGED <<settings, asked, sent, acked>>

CarryOut ==
  /\ sent # <<>>
  /\ settings' = Effect(sent[1])
  /\ sent' = <<>>
  /\ acked' \in BOOLEAN
  /\ UNCHANGED <<todo, asked, outcome>>

(* The request is refused or lost, or the answer is. *)
Lose ==
  /\ sent' \in {sent, <<>>}
  /\ acked' \in {acked, FALSE}
  /\ UNCHANGED <<settings, todo, asked, outcome>>

(* Past the first request: it was carried out, if that is to be confirmed. *)
Succeed ==
  /\ asked
  /\ Head(todo).cmd \in Confirmed => acked
  /\ todo' = Tail(todo)
  /\ asked' = FALSE
  /\ acked' \in {acked, FALSE}
  /\ outcome' \in IF todo' = <<>> THEN {"Ok"} ELSE {outcome}
  /\ UNCHANGED <<settings, sent>>

(* The operation gives up, whether or not its request was, or will be,     *)
(* carried out.                                                            *)
Fail ==
  /\ todo # <<>>
  /\ todo' = <<>>
  /\ asked' = FALSE
  /\ acked' \in {acked, FALSE}
  /\ outcome' = "failed"
  /\ UNCHANGED <<settings, sent>>

ExchangeNext ==
  \/ Begin \/ Reject \/ Ask \/ AskInVain \/ AskOnly \/ Skip
  \/ CarryOut \/ Lose \/ Succeed \/ Fail

ExchangeSpec == Start /\ [][ExchangeNext]_exchangeVars
=============================================================================
