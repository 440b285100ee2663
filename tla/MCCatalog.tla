----------------------------- MODULE MCCatalog -----------------------------
(* Instances of Catalog for TLC. *)
EXTENDS Catalog, TLC

CONSTANTS s1, s2, p1, p2, p3, v1, v2, v3, f, m, src, pubA, pubB, r1

\* Two services; the first has one Procedure, the second has two.
PrimaryOf   == (p1 :> s1) @@ (p2 :> s2) @@ (p3 :> s2)
VersionsOf  == (v1 :> p1) @@ (v2 :> p2) @@ (v3 :> p3)
\* The first and the third version cite the same source.
Citations   == (v1 :> {src}) @@ (v2 :> {}) @@ (v3 :> {src})

Says(needs, requires, routes, claims) ==
  [needs |-> needs, requires |-> requires, routes |-> routes, claims |-> claims]

NoClaims == [items |-> {}, steps |-> {}, warnings |-> {}, fees |-> {}]

Link(support, trust) ==
  [support |-> support, trust |-> trust, passage |-> TRUE, context |-> TRUE,
   sources |-> {[classification |-> "official", observed |-> FALSE]}]

\* A requirement and a fee that two links support, and, in a draft that must
\* not become public, one that a third link contradicts.
Charged(links) ==
  [items    |-> {[classification |-> "official_requirement", rule |-> {f}, trust |-> "current",
                  links |-> {Link("supports", "current")}]},
   steps    |-> {},
   warnings |-> {[id |-> 1, role |-> "regeneration", kind |-> "product", rule |-> {},
                  trust |-> "unknown", links |-> {}]},
   fees     |-> {[value |-> "known", amount |-> 45, minimum |-> None, maximum |-> None,
                  rule |-> {}, basis |-> "none", trust |-> "current", links |-> links]}]

Agreed == Charged({Link("supports", "current")})
Contradicted == Charged({Link("supports", "current"), Link("contradicts", "current")})

\* Every pair may require each other, and all three in a circle.
SomeDrafts ==
  (v1 :> {Says({}, {p2}, {m}, Agreed), Says({f}, {p3}, {}, NoClaims), Says({}, {}, {}, Contradicted)})
    @@ (v2 :> {Says({}, {p1}, {}, NoClaims), Says({}, {p3}, {m}, NoClaims)})
    @@ (v3 :> {Says({}, {p1, p2}, {}, NoClaims)})

Setup(active, candidates, chosenBy, opposed, asked) ==
  [active |-> active, candidates |-> candidates, chosenBy |-> chosenBy, opposed |-> opposed, asked |-> asked]

SomeSetups ==
  (s1 :> {Setup(TRUE, {p1}, {}, {}, {f}), Setup(FALSE, {p1}, {f}, {}, {}), Setup(TRUE, {p1}, {}, {f}, {})})
    @@ (s2 :> {Setup(TRUE, {p2, p3}, {}, {}, {}), Setup(TRUE, {p2}, {}, {}, {})})

Symmetry == Permutations(Publishers)
=============================================================================
