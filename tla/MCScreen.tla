------------------------------ MODULE MCScreen ------------------------------
(***************************************************************************)
(* Small instance of Screen, and its time unit: the half minute of a       *)
(* trade_wake, with notifications of two.                                  *)
(***************************************************************************)
EXTENDS Screen
=============================================================================
