----------------------------- MODULE MCPlanning -----------------------------
(* Catalogues and facts for TLC. *)
EXTENDS PlanningDialogue

Enum(values) == [kind |-> "enum", derived |-> FALSE, values |-> values]
Bool         == [kind |-> "boolean", derived |-> FALSE, values |-> BOOLEAN]
Count(values)  == [kind |-> "integer", derived |-> FALSE, values |-> values]
Date(values) == [kind |-> "date", derived |-> FALSE, values |-> values]
Derived(kind) == [kind |-> kind, derived |-> TRUE, values |-> {}]

\* Born 18 years before the second day, or after it; expired three months
\* before the first day, in a longer month, or still valid.
MCDefinitions ==
  "citizenship" :> Enum({"egyptian", "other"}) @@
  "father_alive" :> Bool @@
  "other_living_sons_of_father_count" :> Count({0, 1}) @@
  "national_id_expiry_date" :> Date({20231130, 20240331}) @@
  "birth_date" :> Date({20060301, 20240302}) @@
  "age_years_on_evaluation_date" :> Derived("integer") @@
  "card_expired_before_evaluation_date" :> Derived("boolean") @@
  "renewal_deadline_date" :> Derived("date") @@
  "renewal_deadline_passed" :> Derived("boolean") @@
  "only_son_candidate" :> Derived("boolean")

MCDays == {20240229, 20240301}

-----------------------------------------------------------------------------
Leaf(op, fact, value) == [op |-> op, fact |-> fact, value |-> value]
Node(op, children)    == [op |-> op, children |-> children]

Egyptian == Leaf("eq", "citizenship", "egyptian")
Foreign  == Node("not", <<Egyptian>>)
Adult    == Leaf("gte", "age_years_on_evaluation_date", 18)
Late     == Leaf("eq", "renewal_deadline_passed", TRUE)
OnlySon  == Leaf("eq", "only_son_candidate", TRUE)
Orphan   == Leaf("eq", "father_alive", FALSE)
Brothers == Leaf("gt", "other_living_sons_of_father_count", 0)
Told     == [op |-> "exists", fact |-> "father_alive"]
Either   == Node("any", <<Egyptian, Orphan>>)
Both     == Node("all", <<Egyptian, Orphan>>)
Neither  == Node("not", <<Either>>)
Tautology == Node("any", <<Orphan, Node("not", <<Orphan>>)>>)
Clash    == Node("all", <<Orphan, Brothers>>)
Clashes  == Node("any", <<Clash, Node("all", <<Foreign, Brothers>>)>>)

MCRules ==
  {Egyptian, Foreign, Adult, Late, OnlySon, Orphan, Brothers, Told, Either, Both, Neither,
   Tautology, Node("not", <<Orphan>>), Clash, Clashes, Node("all", <<Foreign, Brothers>>)}

-----------------------------------------------------------------------------
Trust(state, verifiedOn, reverifyOn) ==
  [state |-> state, verifiedOn |-> verifiedOn, reverifyOn |-> reverifyOn]
Trusted  == Trust("current", 20230101, None)
Due      == Trust("current", 20230101, 20240229)
Stale    == Trust("stale", 20230101, None)
Disputed == Trust("disputed", 20230101, None)

Source(official, reverifyOn) ==
  [official |-> official, retrievedOn |-> 20230101, from |-> None, to |-> None,
   reverifyOn |-> reverifyOn]
Link(support, trust, sources) ==
  [support |-> support, trust |-> trust, from |-> None, to |-> None,
   retrievedOn |-> 20230101, sources |-> sources]

Supported    == {Link("supports", Trusted, {Source(TRUE, None)})}
Practical    == {Link("supports", Trusted, {Source(FALSE, None)})}
HalfDue      == {Link("supports", Trusted, {Source(TRUE, None), Source(FALSE, 20240229)})}
Controversial == Supported \cup {Link("contradicts", Trusted, {Source(TRUE, None)})}

Item(id, when, basis, trust, links) ==
  [id |-> id, when |-> when, basis |-> basis, from |-> None, to |-> None,
   trust |-> trust, links |-> links]

Question(id, priority, asks) == [id |-> id, priority |-> priority, facts |-> asks]
Questions ==
  {Question(1, 3, {"citizenship"}),
   Question(2, 2, {"father_alive", "other_living_sons_of_father_count"}),
   Question(3, 1, {"national_id_expiry_date"}), Question(4, 1, {"birth_date"})}

Version(id, from, to, content) ==
  content @@ [id |-> id, procedure |-> "renewal", state |-> "published", from |-> from, to |-> to,
   applicability |-> Egyptian, bases |-> {}, dependencies |-> {}, checklist |-> {},
   steps |-> {}, fees |-> {}, warnings |-> {}, associations |-> {}]

Catalogue(content) ==
  [active |-> TRUE, questions |-> Questions, contradictions |-> {},
   candidates |-> {[procedure |-> "renewal", when |-> Egyptian]},
   versions |-> {Version(1, None, None, content)}]

\* One candidate or two, under any pair of rules; the fifth question overlaps two others.
Candidates ==
  {[Catalogue(<<>>) EXCEPT !.questions = @ \cup {Question(5, 2, {"citizenship", "father_alive"})},
                           !.candidates = {[procedure |-> "renewal", when |-> r],
                                           [procedure |-> "exemption", when |-> s]}] :
     r \in {Egyptian, Adult, Either, Both, Neither, Tautology}, s \in {Foreign, OnlySon, Told}}

\* What is asked depends on earlier answers and is asked between two questions about
\* the same fact: the same question again, or another that overlaps the first.  Of three
\* questions without a fact in common, one is left half answered and asked again.
Branches ==
  {[Catalogue("applicability" :> Adult @@ "steps" :> {Item("apply", Orphan, None, Trusted, Supported)}
              @@ "checklist" :> {"official" :> TRUE @@ Item("photo", Late, None, Trusted, Supported)})
      EXCEPT !.questions = q] :
     q \in {{Question(1, 1, {"citizenship", "father_alive"}), Question(2, 2, {"birth_date"})},
            {Question(1, 1, {"citizenship"}), Question(2, 2, {"birth_date"}),
             Question(3, 3, {"citizenship", "father_alive"})},
            {Question(1, 1, {"citizenship", "father_alive"}), Question(2, 2, {"birth_date"}),
             Question(3, 3, {"national_id_expiry_date"})}}}

\* Contradicting facts, uncovered facts and inactive services.
Defects ==
  {[Catalogue(<<>>) EXCEPT !.contradictions = {c},
                           !.candidates = {[procedure |-> "renewal", when |-> Both]}] :
     c \in {Clash, Clashes, Told}}
  \cup {[Catalogue(<<>>) EXCEPT !.questions = @ \ {Question(1, 3, {"citizenship"})}],
        [Catalogue(<<>>) EXCEPT !.questions = {}],
        [Catalogue(<<>>) EXCEPT !.active = FALSE]}

\* Two versions whose windows touch, meet or overlap, in any state.
Windows == {<<None, 20240229>>, <<20240301, None>>, <<20240301, 20240301>>, <<20250101, None>>}
Succession ==
  {[Catalogue(<<>>) EXCEPT !.versions =
      {Version(1, v[1], v[2], <<>>),
       "state" :> s @@ Version(2, w[1], w[2], <<>>)}] :
     v, w \in Windows, s \in {"draft", "published", "withdrawn"}}

\* Trusted items with all kinds of evidence, and the rest with good evidence.
Material == {<<Trusted, l>> : l \in {Supported, Practical, HalfDue, Controversial}}
            \cup {<<t, Supported>> : t \in {Due, Stale, Disputed}}

Whens == {None, Late, Both}

Lists ==
  {Catalogue("checklist" :> {"official" :> o @@ Item("photo", w, None, m[1], m[2])}) :
     w \in Whens, o \in BOOLEAN, m \in Material}

\* A basis, and a step and a fee that depend on it.
Bases ==
  {Catalogue("bases" :> {"reachable" :> r @@ Item("orphan", q, None, t, Supported)} @@
             "steps" :> {Item("apply", w, "orphan", Trusted, Supported)} @@
             "fees" :> {"value" :> "known" @@ Item("stamp", None, "orphan", Due, Supported)}) :
     r \in {None, Adult}, q \in {Either, OnlySon}, w \in {None, Late},
     t \in {Trusted, Due, Stale, Disputed}}

Money ==
  {Catalogue("fees" :> {"value" :> x @@ Item("stamp", w, None, m[1], m[2])} @@
             "warnings" :> {"role" :> "regeneration" @@ "product" :> TRUE
                              @@ Item("again", None, None, Disputed, {})}) :
     x \in {"known", "unknown"}, w \in Whens, m \in Material}

Steps ==
  {Catalogue("steps" :> {Item("apply", w, None, t, l)}) :
     w \in Whens, t \in {Trusted, Due, Disputed}, l \in {Supported, Controversial}}

Requirements ==
  {Catalogue("dependencies" :>
      {"target" :> target @@ "satisfied" :> s @@ Item("card", w, None, t, Supported)}) :
     w \in {None, Late, Orphan}, s \in {Adult, OnlySon}, t \in {Trusted, Due, Disputed},
     target \in {"renewal", "unknown"}}

Places ==
  {Catalogue("associations" :>
      {"point" :> point @@ Item("desk", w, None, t, Supported)}) :
     w \in {Late, Orphan}, t \in {Trusted, Due},
     point \in {None, "availability" :> "available" @@ Item("office", None, None, Trusted, Supported),
                "availability" :> "closed" @@ Item("office", None, None, Trusted, Supported)}}

MCCatalogues ==
  Candidates \cup Branches \cup Defects \cup Succession \cup Lists \cup Bases \cup Money \cup Steps
  \cup Requirements \cup Places
=============================================================================
