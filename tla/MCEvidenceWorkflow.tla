------------------------ MODULE MCEvidenceWorkflow ------------------------
(* Instances of EvidenceWorkflow for TLC. *)
EXTENDS EvidenceWorkflow, TLC

CONSTANTS t1, t2, v1, v2, proc1, proc2, item, point, e1, e2, source, dep

OneProcedure  == [v \in Versions |-> proc1]
TwoProcedures == (v1 :> proc1) @@ (v2 :> proc2)

\* Versions, procedures, dependencies, items, evidence and sources, in
\* publication's lock order.
Position == (v1 :> 1) @@ (v2 :> 2) @@ (proc1 :> 3) @@ (proc2 :> 4) @@ (dep :> 5) @@ (point :> 6)
            @@ (item :> 7) @@ (e1 :> 8) @@ (e2 :> 9) @@ (source :> 10)
LockOrder == [r \in Ranked |-> Position[r]]

\* Dependencies of the first version.
Dependent  == [d \in Dependencies |-> v1]
GraphOrder == [d \in Dependencies |-> 1]

\* All links belong to one item.
ItemHome     == (item :> v1)
ItemEvidence == [l \in Links |-> item]
CitesNothing == [l \in Links |-> {}]

\* An item of the first version, shared material of the second, one source.
TwoHomes    == (item :> v1) @@ (point :> v2)
TwoEvidence == (e1 :> item) @@ (e2 :> point)
CitesSource == [l \in Links |-> {source}]

DueDates == {[verifiedOn |-> 0, reverifyOn |-> 1]}

Symmetry == Permutations(Txns)
=============================================================================
