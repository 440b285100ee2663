--------------------------- MODULE MCQuestionnaire ---------------------------
(* A planner that asks for one fact, and refuses it on the second date. *)
EXTENDS Questionnaire

Ask(keys)     == [kind |-> "question", keys |-> keys, dated |-> FALSE]
Invalid(keys, dated) == [kind |-> "invalid", keys |-> keys, dated |-> dated]
Other(kind)   == [kind |-> kind, keys |-> {}, dated |-> FALSE]

MCPlanner(facts, date) ==
  IF date = 1 THEN IF "f" \notin DOMAIN facts THEN Ask({"f"}) ELSE Other("plan")
  ELSE IF "f" \notin DOMAIN facts THEN Other("inconclusive") ELSE Invalid({"f"}, FALSE)
=============================================================================
