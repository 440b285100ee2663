--------------------------- MODULE MCPublication ---------------------------
(* Instances of Publication for TLC. *)
EXTENDS Publication, TLC

CONSTANTS t1, t2, v1, v2, proc, ann, bob, item, source, policy1, policy2, dep, x, y

Policy_(author, risks) == [author |-> author, risks |-> risks]

\* One draft: a checklist item and its review policy.
OneDraftPolicyRow == (v1 :> policy1)
OneDraftOwners    == (item :> {v1}) @@ (policy1 :> {v1})
OneDraftRank      == (item :> 1) @@ (policy1 :> 2)
OneDraftProcedure == (v1 :> proc)

\* Two versions of one Procedure that cite the same source, the first of which
\* depends on another Procedure.
TwoVersionsPolicyRow == (v1 :> policy1) @@ (v2 :> policy2)
TwoVersionsProcedure == (v1 :> proc) @@ (v2 :> proc)
TwoVersionsOwners    == (dep :> {v1}) @@ (source :> {v1, v2}) @@ (policy1 :> {v1}) @@ (policy2 :> {v2})
TwoVersionsRank      == (dep :> 1) @@ (policy1 :> 2) @@ (policy2 :> 2) @@ (source :> 3)
TwoVersionsGraph     == (dep :> 1)

NoGraph == [r \in {} |-> 0]

EitherAuthor == {Policy_(ann, {"legal"}), Policy_(bob, {})}
RiskOrNone   == {Policy_(ann, {"legal"}), Policy_(ann, {})}
NoRisks      == {Policy_(ann, {})}

Always       == {[from |-> None, to |-> None]}
\* Neighbours share their boundary day; the first and the last do not overlap.
TouchingDays == {[from |-> None, to |-> 1], [from |-> 1, to |-> 2], [from |-> 2, to |-> None]}

Symmetry         == Permutations(Txns)
ContentsSymmetry == {p @@ q : p \in Permutations(Txns), q \in Permutations(Values)}
=============================================================================
