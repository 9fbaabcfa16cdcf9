---------------------------- MODULE MCTagCommand ----------------------------
(***************************************************************************)
(* Small instances of TagCommand; the configurations name two tags, the    *)
(* EPCs they start with and one more that no tag has.                      *)
(***************************************************************************)
EXTENDS TagCommand
=============================================================================
