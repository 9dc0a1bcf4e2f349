--------------------------- MODULE MCAuthSessions ---------------------------
(***************************************************************************)
(* AuthSessions for TLC: refresh tokens are the requests that issue them   *)
(* and the one the account starts with.                                    *)
(***************************************************************************)
EXTENDS AuthSessions, TLC

MCToken == Request \cup {Prior}

Symmetry == Permutations(Request) \cup Permutations(Password)
=============================================================================
