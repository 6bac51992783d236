----------------------------- MODULE MCActions -----------------------------
(* Instances of Actions for model checking. *)
EXTENDS Actions, TLC

CONSTANTS a1, a2, u1

TwoActions == {a1, a2}
OneAction == {a1}
OneUnit == {u1}

\* One unfinished status, and finished ones below and above Failed, which is
\* what the core itself sets.
SomeReports == {Running, Completed, Canceled}

FewReports == {Running, Completed}

Symmetry == Permutations(Uuid)
============================================================================
