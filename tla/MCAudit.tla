------------------------------ MODULE MCAudit ------------------------------
(***************************************************************************)
(* Small instance of Audit: a stateless bot that moves with the bars, and  *)
(* a stateful one that settles on a, whatever its first choice was.        *)
(***************************************************************************)
EXTENDS Audit

CONSTANTS force, draco, a, b, c

Only(s) == [t \in {s} |-> 1]
Both    == [t \in {a, b} |-> 1]

MCWeight == [x \in {force, draco} |-> 1]
MCAnswer(bot, version, state) ==
  CASE bot = force -> IF version = 0 THEN Both ELSE Only(b)
    [] bot = draco /\ state = 0 /\ version > 0 -> Only(b)
    [] OTHER -> Only(a)
MCNextState(version, state) == 1
\* c, where it is traded, is held at first and wanted by no bot.
MCPositions == [s \in Symbols |-> IF s \in {a, c} THEN 4 ELSE 0]

=============================================================================
