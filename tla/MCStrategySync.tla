--------------------------- MODULE MCStrategySync ---------------------------
(***************************************************************************)
(* Small instance of StrategySync: one bot of the page (force) and one     *)
(* that only the website offers (zeus).                                    *)
(***************************************************************************)
EXTENDS StrategySync

CONSTANTS force, zeus

=============================================================================
