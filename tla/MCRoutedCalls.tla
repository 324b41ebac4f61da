---------------------------- MODULE MCRoutedCalls ----------------------------
(* Instances of RoutedCalls for TLC.                                        *)
EXTENDS RoutedCalls

CONSTANTS r1, r2, r3, b1, b2, b3

Symmetry == Permutations(Requests)

\* Every list that names a backend at most once and at least one, of two
\* backends and of three.
TwoLists == {<<b1>>, <<b2>>, <<b1, b2>>, <<b2, b1>>}
ThreeLists ==
  TwoLists \cup {<<b3>>, <<b1, b3>>, <<b3, b1>>, <<b2, b3>>, <<b3, b2>>,
    <<b1, b2, b3>>, <<b1, b3, b2>>, <<b2, b1, b3>>, <<b2, b3, b1>>,
    <<b3, b1, b2>>, <<b3, b2, b1>>}

Declared(name, models, weight, priority, enabled) ==
  [name |-> name, models |-> models, weight |-> weight,
   priority |-> priority, enabled |-> enabled]

\* b2 serves everything with no weight given, b1 one model with two turns, and
\* b3 is disabled; the file lists them in another order than their priorities.
ThreeDeclared ==
  << Declared(b2, {}, 0, 20, TRUE),
     Declared(b1, {"m1"}, 2, 10, TRUE),
     Declared(b3, {}, 1, 0, FALSE) >>

\* Two backends for every model, the second of higher priority.
TwoDeclared ==
  << Declared(b2, {}, 1, 20, TRUE), Declared(b1, {}, 1, 10, TRUE) >>
===============================================================================
