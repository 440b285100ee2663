------------------------------- MODULE TabCase -------------------------------
(***************************************************************************)
(* The answers of one browser tab: what an answer, a change, a correction  *)
(* and a date do to a case, and how the session storage keeps it.          *)
(*                                                                         *)
(* A case is [service, date, facts, history, cleared]; its history is a    *)
(* sequence of the sets of keys that were asked together.  cleared is not  *)
(* data of the program: it says which control had cleared answers that are *)
(* still stored, in the life of this document.                             *)
(***************************************************************************)
EXTENDS SequencesExt

CONSTANTS
  None,
  Today,     \* the local date of a fresh case
  MaxFacts   \* bound of facts and history entries

FreshCase(service) ==
  [service |-> service, date |-> Today, facts |-> <<>>, history |-> <<>>, cleared |-> None]

KeysOf(history) == UNION ToSet(history)

Without(facts, keys) == Restrict(facts, (DOMAIN facts) \ keys)

\* Back to before an entry: it and all later ones lose their answers.
RewindCase(case, index) ==
  IF index \notin 1..Len(case.history) THEN case
  ELSE [case EXCEPT !.facts = Without(@, KeysOf(SubSeq(case.history, index, Len(case.history)))),
                    !.history = SubSeq(@, 1, index - 1)]

\* The entries the review list offers to change: each answer is shown once, at the
\* first entry that asked for it.
Reviewable(case) ==
  {i \in DOMAIN case.history :
     ~((case.history[i] \cap DOMAIN case.facts) \subseteq KeysOf(SubSeq(case.history, 1, i - 1)))}

\* The first entry that asked for one of the keys; 0 if none did.
Earliest(case, keys) ==
  SelectInSeq(case.history, LAMBDA entry : entry \cap keys # {})

\* What a form says of the question: other fields of the draft do not count.
Given(question, draft) == Restrict(draft, question \cap DOMAIN draft)

\* Fault: an answer that is left out is not a change.
ChangedValues(case, question, values) ==
  {k \in question \cap DOMAIN case.facts : k \in DOMAIN values /\ values[k] # case.facts[k]}

\* Earlier answers that are given differently or left out.
Changed(case, question, values) ==
  {k \in question \cap DOMAIN case.facts : k \notin DOMAIN values \/ values[k] # case.facts[k]}

\* What the form says of the question replaces what was known of it.
Replaced(facts, question, values) ==
  [k \in ((DOMAIN facts) \ question) \cup DOMAIN values |->
     IF k \in DOMAIN values THEN values[k] ELSE facts[k]]

Resubmitted(case, question, draft) ==
  LET values == Given(question, draft)
      base   == RewindCase(case, Earliest(case, Changed(case, question, values)))
  IN
  [base EXCEPT !.facts = Replaced(@, question, values), !.history = Append(@, question)]

\* The form refuses an empty submission, one that changes nothing and too many facts.
SubmitRefused(case, question, draft) ==
  \/ Given(question, draft) = <<>>
  \/ Cardinality(DOMAIN Resubmitted(case, question, draft).facts) > MaxFacts
  \/ Len(Resubmitted(case, question, draft).history) > MaxFacts
  \/ Resubmitted(case, question, draft).facts = case.facts

\* The facts a diagnosis names are dropped, and what was asked after them.
CorrectDiagnostics(case, keys) ==
  [RewindCase(case, Earliest(case, keys)) EXCEPT !.facts = Without(@, keys)]

\* A question that asks nothing new is a fault of the configuration.
QuestionProblem(question, facts) == question = {} \/ question \subseteq DOMAIN facts

-----------------------------------------------------------------------------
(* Session storage.  Every access may be refused, at any time: each operation
   gives the set of its outcomes.                                            *)

\* A failed write tries to remove the old case rather than restore it later.
Save(case, stored) ==
  {[ok |-> TRUE, stored |-> case],
   [ok |-> FALSE, stored |-> None], [ok |-> FALSE, stored |-> stored]}

\* A stored case of another service is discarded.
Load(service, stored) ==
  LET fresh == FreshCase(service)
      denied == [case |-> fresh, notice |-> "memory", stored |-> stored]
  IN {denied} \cup
     IF stored = None THEN {[case |-> fresh, notice |-> None, stored |-> None]}
     ELSE IF stored.service = service
       THEN {[case |-> stored, notice |-> "restored", stored |-> stored]}
     ELSE {[case |-> fresh, notice |-> "discarded", stored |-> None]}

\* by: the control that clears; what it cannot remove stays behind.
ClearStorage(stored, by) ==
  {[ok |-> TRUE, stored |-> None],
   [ok |-> FALSE, stored |-> IF stored = None \/ stored.facts = <<>> THEN stored
                             ELSE [stored EXCEPT !.cleared = by]]}
=============================================================================
