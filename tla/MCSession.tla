----------------------------- MODULE MCSession ------------------------------
(***************************************************************************)
(* Small instances of Session: up to two owners, and half trading days,    *)
(* 9:30 to 12:00, with two scheduled cycles, at 10:05 and 11:40.           *)
(***************************************************************************)
EXTENDS Session

CONSTANTS ann, bob

ASSUME TwoCycles == CycleMinutes = {605, 700}

=============================================================================
