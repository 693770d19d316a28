--------------------------- MODULE MCExpectations ---------------------------
(* Expectations with two calls, in one tab or in two.                       *)
EXTENDS Expectations
CONSTANTS c1, c2, t1, t2

TwoPlaces == {[c \in {c1, c2} |-> t1], [c \in {c1, c2} |-> IF c = c1 THEN t1 ELSE t2]}

=============================================================================
