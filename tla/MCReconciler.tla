---------------------------- MODULE MCReconciler ----------------------------
(* Constant values for model checking Reconciler.                          *)
EXTENDS Reconciler, TLC

CONSTANTS a, b, s1, s2, s3, s4, k1, f1

OneKind   == [r \in Resources |-> "kind"]
OwnKinds  == [r \in Resources |-> r]
NoRefs    == [r \in Resources |-> {}]
BRefersToA == [r \in Resources |-> IF r = b THEN {a} ELSE {}]

SpecSymmetry == Permutations(Specs)

=============================================================================
