------------------------------ MODULE Ordering ------------------------------
(***************************************************************************)
(* What the bots take from Python: sorted, by a key and by a comparison,   *)
(* and picking the elements of a list.                                     *)
(***************************************************************************)
EXTENDS Integers, FiniteSets, SequencesExt

\* sorted: the elements of a finite set, less holding the pairs in order.
InOrder(S, less) ==
  [i \in 1..Cardinality(S) |-> CHOOSE t \in S : Cardinality({u \in S : <<u, t>> \in less}) = i - 1]

\* What a sequence has at the places I, in its own order.
AtPlaces(s, I) ==
  LET places == InOrder(I, {p \in I \X I : p[1] < p[2]})
  IN [k \in DOMAIN places |-> s[places[k]]]

\* Binary insertion; less is the pairs that compare as such.
PlaceFor(out, x, less) ==
  LET half(q) == (q[1] + q[2]) \div 2
      search[q \in (0..Len(out)) \X (0..Len(out))] ==
        IF q[1] >= q[2] THEN q[1]
        ELSE IF <<x, out[half(q) + 1]>> \in less THEN search[<<q[1], half(q)>>]
             ELSE search[<<half(q) + 1, q[2]>>]
  IN search[<<0, Len(out)>>]

Inserted(out, x, less) == InsertAt(out, PlaceFor(out, x, less) + 1, x)
AllInserted(out, rest, less) == FoldLeft(LAMBDA v, x : Inserted(v, x, less), out, rest)

\* The run at the front, ascending or falling; a falling one is turned round.
Falls(s, less) == Len(s) > 1 /\ <<s[2], s[1]>> \in less
Runs(s, less)  == {n \in 0..Len(s) : \A i \in 2..n : <<s[i], s[i - 1]>> \in less <=> Falls(s, less)}
Start(s, less, run) == IF Falls(s, less) THEN Reverse(SubSeq(s, 1, run)) ELSE SubSeq(s, 1, run)

\* sorted(): Python's, on fewer than 64 elements.
PythonSorted(s, less) ==
  LET run == Max(Runs(s, less))
  IN AllInserted(Start(s, less, run), SubSeq(s, run + 1, Len(s)), less)

=============================================================================
