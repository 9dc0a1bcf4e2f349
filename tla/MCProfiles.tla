----------------------------- MODULE MCProfiles -----------------------------
(***************************************************************************)
(* Profiles for TLC, with the constants of its configuration as they are.  *)
(***************************************************************************)
EXTENDS Profiles
=============================================================================
