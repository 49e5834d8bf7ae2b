---------------------------- MODULE MCDispatcher ----------------------------
(***************************************************************************)
(* The dispatcher with an arbitrary stream of requests and tick outcomes.  *)
(***************************************************************************)
EXTENDS Dispatcher
=============================================================================
