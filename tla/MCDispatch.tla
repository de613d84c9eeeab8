----------------------------- MODULE MCDispatch -----------------------------
(* Dispatch for TLC: two calls, from any clients, each with any request. *)
EXTENDS Dispatch
=============================================================================
