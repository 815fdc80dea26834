------------------------------ MODULE MCOutbox ------------------------------
(***************************************************************************)
(* Two worker processes, two consumers and one outbox event.               *)
(***************************************************************************)
EXTENDS Outbox
==============================================================================
