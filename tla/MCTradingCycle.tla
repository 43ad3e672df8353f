--------------------------- MODULE MCTradingCycle ---------------------------
(***************************************************************************)
(* Small instances of TradingCycle: the owner may lock any symbol, bot m   *)
(* wants A alone or A and L, bot n wants B, and the account starts with    *)
(* some of L.                                                              *)
(***************************************************************************)
EXTENDS TradingCycle

CONSTANTS A, B, L, m, n

P(S) == [s \in S |-> 1]

MCWeight == [b \in Bots |-> IF b = m THEN 2 ELSE 1]
MCSignals == [b \in Bots |-> IF b = m THEN {P({A}), P({A, L})} ELSE {P({B}), P({L})}]
MCInitPos == [s \in Symbols |-> IF s = L THEN 3 ELSE 0]

=============================================================================
