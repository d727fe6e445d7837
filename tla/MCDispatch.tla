----------------------------- MODULE MCDispatch -----------------------------
(* Symmetry sets and bounds for the runs of Dispatch. *)
EXTENDS Dispatch, TLC

Symmetry == Permutations(Jobs) \cup Permutations(Emps) \cup Permutations(Workers)
              \cup Permutations(Handlers)

\* Bound: behaviours of one day.
SameDay == \A j \in Jobs : job[j].window # "past"

\* Bound: before the hours of a job are over.
InHours == \A j \in Jobs : job[j].window \in {"future", "open"}
=============================================================================
