------------------------- MODULE MCEvidenceHistory -------------------------
(* Instances of EvidenceHistory for TLC. *)
EXTENDS EvidenceHistory, TLC

\* Current since day 0 and due on that day, with evidence that is never due.
DueItem == [state |-> "current", verifiedOn |-> 0, reverifyOn |-> 0,
            link |-> [state |-> "current", verifiedOn |-> 0, reverifyOn |-> None]]
\* Never verified.
UnknownItem == [state |-> "unknown", verifiedOn |-> None, reverifyOn |-> None,
                link |-> [state |-> "current", verifiedOn |-> None, reverifyOn |-> None]]

AuthoredItems == {DueItem, UnknownItem}

Symmetry == Permutations(Discrepancies)
=============================================================================
