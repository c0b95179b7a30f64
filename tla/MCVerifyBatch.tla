--------------------------- MODULE MCVerifyBatch ---------------------------
(* A key of one row and two columns over polynomials of one coefficient.   *)
EXTENDS VerifyBatch

Poly(c) == [levels |-> 1, n |-> 1, coeffs |-> <<c>>]

MCKey == [A |-> << <<Poly(3), Poly(4)>> >>, BTilde |-> <<Poly(5)>>]

MCIssued ==
  [m \in Message |-> [C     |-> Poly(IF m = "m1" THEN 3 ELSE 4),
                      Z     |-> <<Poly(5), Poly(3)>>,
                      Delta |-> <<Poly(4)>>]]
=============================================================================
