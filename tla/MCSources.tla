----------------------------- MODULE MCSources -----------------------------
(* Instances of Sources for TLC. *)
EXTENDS Sources, TLC

CONSTANTS o1, o2, o3, n1, n2, r1, r2, r3, r4, f1, f2, q1, d1, d2, a1, t1

OneNode == {n1}
TwoNodes == {n1, n2}
TwoRemoteOneLocal == {o1, o2, o3}
OneItem == {o1}
OnlyLocal == {o3}
ThreeRefs == {r1, r2, r3}
FourRefs == {r1, r2, r3, r4}
OneFull == {f1}
TwoFull == {f1, f2}
OneQuick == {q1}
OneDestroyer == {d1}
TwoDestroyers == {d1, d2}
OneAccepter == {a1}
OneRemover == {t1}
None == {}

\* Each node of two has an item of its own.
OneEach == [n \in Node |-> IF n = n1 THEN {o1} ELSE {o2}]
\* All nodes announce all items.
Overlap == [n \in Node |-> Oid]

Symmetry == Permutations(Ref) \union Permutations(Full) \union Permutations(Destroyer)
============================================================================
