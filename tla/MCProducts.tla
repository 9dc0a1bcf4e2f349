----------------------------- MODULE MCProducts -----------------------------
(***************************************************************************)
(* Products for TLC: a description is named for the request that wrote it. *)
(***************************************************************************)
EXTENDS Products

MCInfo == Request \cup {Prior}
=============================================================================
