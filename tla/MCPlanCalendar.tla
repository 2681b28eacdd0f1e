---------------------------- MODULE MCPlanCalendar ----------------------------
(* Three days of two slots; the exam is on the second or the third day.      *)
EXTENDS PlanCalendar

CONSTANTS t1, t2, k1

LearnReview == <<"learn", "review">>

SomeAdditions == {[topic |-> 2, at |-> 3, minutes |-> 1, activity |-> "review"]}

SomeTargeted == {[key |-> k1, exam |-> 5, limit |-> 1, hour |-> 0, topic |-> 1]}

\* No request depends on the reply to an earlier one.
Record == <<now, topics, exam, budget, plan, pending, requests, call, edits>>

Symmetry == Permutations(Threads)
=============================================================================
