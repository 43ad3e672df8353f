----------------------------- MODULE ReleaseSlot -----------------------------
(***************************************************************************)
(* What the updater promises: one release is in place at every moment; it  *)
(* is one that is stored; an update puts a newer one in place, and until   *)
(* the update is settled the release before it is kept and may be put back *)
(* in place.                                                               *)
(***************************************************************************)
EXTENDS Integers

CONSTANTS Trusted,  \* versions that may be stored
          First     \* the version the device comes with

VARIABLES stored, inPlace, fallback
vars == <<stored, inPlace, fallback>>

Init == stored = {First} /\ inPlace = First /\ fallback = First

\* A release arrives.
Store(v) ==
  /\ v \in Trusted
  /\ stored' = stored \cup {v}
  /\ UNCHANGED <<inPlace, fallback>>

Upgrade(v) ==
  /\ v \in stored /\ v > inPlace
  /\ inPlace' = v /\ fallback' = inPlace
  /\ UNCHANGED stored

Revert == inPlace' = fallback /\ UNCHANGED <<stored, fallback>>

\* The update stands; the release before it is no longer needed.
Settle == fallback' = inPlace /\ UNCHANGED <<stored, inPlace>>

Discard(old) ==
  /\ inPlace \notin old /\ fallback \notin old
  /\ stored' = stored \ old
  /\ UNCHANGED <<inPlace, fallback>>

Next ==
  \/ \E v \in Trusted : Store(v) \/ Upgrade(v)
  \/ Revert \/ Settle
  \/ \E old \in SUBSET stored : Discard(old)

Spec == Init /\ [][Next]_vars

=============================================================================
