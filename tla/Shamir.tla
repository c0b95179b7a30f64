------------------------------- MODULE Shamir -------------------------------
(***************************************************************************)
(* Shamir sharing over a prime field, and the two share-rotation kernels   *)
(* built on it: reshare.Reshare and reshare.Refresh.                       *)
(*                                                                         *)
(* The code works coefficient by coefficient on vectors of polynomials in  *)
(* R_q; the coefficients never meet, so one coefficient is modelled.  The  *)
(* prime q = 0x1000000004A01 becomes the constant Q.  A polynomial f is    *)
(* the function from degrees to coefficients, a share map a function from  *)
(* 1-indexed party IDs (the evaluation points) to field elements.          *)
(***************************************************************************)
EXTENDS Integers, FiniteSets, Functions

CONSTANT Q     \* the prime modulus

\* Q is a prime.
ASSUME QAssumption ==
  Q \in Nat /\ Q > 1 /\ \A d \in 2 .. (Q - 1) : Q % d # 0

Field == 0 .. (Q - 1)

\* The inverse in the field (0 has none).
ModInverse(a) == CHOOSE b \in Field : (a * b) % Q = 1

\* The sum of the values of g, reduced.
FieldSum(g) == SumFunction(g) % Q

\* The product of the values of g, reduced.
FieldProduct(g) == FoldFunction(LAMBDA x, acc : (x * acc) % Q, 1, g)

\* Horner's rule: f(x), from the leading coefficient of degree t-1 down.
EvaluateAt(f, t, x) ==
  LET acc[d \in 0 .. (t - 1)] ==
        IF d = t - 1 THEN f[d] ELSE (acc[d + 1] * x + f[d]) % Q
  IN  acc[0]

\* lambda_i = product over j # i of (-x_j) / (x_i - x_j).
LagrangeAtZero(ids) ==
  [i \in ids |->
     FieldProduct([j \in ids \ {i} |->
                     ((-j) % Q) * ModInverse((i - j) % Q)])]

\* f(x), from the constant term up, with the powers of x.
EvaluateByPowers(f, t, x) ==
  LET xPow[d \in 0 .. (t - 1)] == IF d = 0 THEN 1 ELSE xPow[d - 1] * x
  IN  FieldSum([d \in 0 .. (t - 1) |-> f[d] * xPow[d]])

\* ShamirSecretSharingGeneral: the shares f(1), ..., f(k).
ShamirSecretSharingGeneral(f, t, k) ==
  [x \in 1 .. k |-> EvaluateByPowers(f, t, x)]

\* selectQuorum: the t smallest IDs.
SelectQuorum(ids, t) == {i \in ids : Cardinality({j \in ids : j < i}) < t}

\* reshare.Verify: interpolation at 0 of the shares of ids.
Reconstruct(shares, ids) ==
  FieldSum([i \in ids |-> LagrangeAtZero(ids)[i] * shares[i]])

\* The polynomial of constant term c with the higher coefficients of r.
WithConstant(c, r) == [d \in {0} \cup DOMAIN r |-> IF d = 0 THEN c ELSE r[d]]

\* Draws(S, t, V): the coefficients 1 .. t-1 that each party of S samples
\* from randSource, when randSource yields elements of V.
Draws(S, t, V) == [S -> [1 .. (t - 1) -> V]]

\* Mutant: the old shares are not weighted before they are shared again.
ReshareKernel_Unweighted(shares, tOld, newSet, tNew, draw) ==
  LET tStar == SelectQuorum(DOMAIN shares, tOld) IN
  [j \in newSet |->
     FieldSum([i \in tStar |->
                 EvaluateAt(WithConstant(shares[i], draw[i]), tNew, j)])]

\* The arithmetic of reshare.Reshare: each i of the quorum shares
\* lambda_i * s_i with f_i, and party j of the new set adds up the f_i(j).
ReshareKernel(shares, tOld, newSet, tNew, draw) ==
  LET tStar == SelectQuorum(DOMAIN shares, tOld)
      lambda == LagrangeAtZero(tStar)
      c0 == [i \in tStar |-> (shares[i] * lambda[i]) % Q]
  IN  [j \in newSet |->
         FieldSum([i \in tStar |->
                     EvaluateAt(WithConstant(c0[i], draw[i]), tNew, j)])]

\* The checks of reshare.Reshare, in terms of a caller's share map.
ReshareAdmits(shares, tOld, newSet, tNew) ==
  /\ tOld >= 1 /\ tNew >= 1
  /\ DOMAIN shares # {} /\ newSet # {}
  /\ tOld <= Cardinality(DOMAIN shares)
  /\ tNew <= Cardinality(newSet)
  /\ 0 \notin newSet \cup DOMAIN shares

\* Mutant: the refresh polynomials have a constant term, the drawn
\* coefficient of degree 1.
RefreshKernel_Constant(shares, t, draw) ==
  [j \in DOMAIN shares |->
     (shares[j] + FieldSum([i \in DOMAIN shares |->
        IF t = 1 THEN 0
        ELSE EvaluateAt(WithConstant(draw[i][1], draw[i]), t, j)])) % Q]

\* Mutant: the new share is not reduced.
RefreshKernel_Unreduced(shares, t, draw) ==
  [j \in DOMAIN shares |->
     shares[j] + FieldSum([i \in DOMAIN shares |->
        EvaluateAt(WithConstant(0, draw[i]), t, j)])]

\* The arithmetic of reshare.Refresh: every party adds the shares of a
\* polynomial with constant term 0.
RefreshKernel(shares, t, draw) ==
  [j \in DOMAIN shares |->
     (shares[j] + FieldSum([i \in DOMAIN shares |->
        EvaluateAt(WithConstant(0, draw[i]), t, j)])) % Q]

\* The checks of reshare.Refresh.
RefreshAdmits(shares, t) ==
  /\ t >= 1
  /\ DOMAIN shares # {}
  /\ t <= Cardinality(DOMAIN shares)
  /\ 0 \notin DOMAIN shares
=============================================================================
