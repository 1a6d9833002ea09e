---------------------------- MODULE MCRequestPath ----------------------------
(***************************************************************************)
(* RequestPath for TLC: its inputs are finite as they are.                 *)
(***************************************************************************)
EXTENDS RequestPath
=============================================================================
