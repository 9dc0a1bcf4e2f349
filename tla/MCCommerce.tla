----------------------------- MODULE MCCommerce -----------------------------
(***************************************************************************)
(* Commerce for TLC: a few quantities around zero and around each limit.   *)
(***************************************************************************)
EXTENDS Commerce

MCAmount == -1 .. 5

MCDiscounts == {-1, 0, 1, 2, 3}

MCLineAmount == 0 .. 3
=============================================================================
