---------------------------- MODULE ShamirProofs ----------------------------
(***************************************************************************)
(* What the operators of Shamir compute, for every prime Q, threshold and  *)
(* committee: interpolation of the shares of any t parties gives back the  *)
(* constant term, and the rotation kernels map sharings of a secret to     *)
(* sharings of the same secret.                                            *)
(*                                                                         *)
(* Induction is by the least counterexample (WFMin), on sets of numbers    *)
(* and of sets rather than on predicates.                                  *)
(***************************************************************************)
EXTENDS Shamir, FiniteSetTheorems, WellFoundedInduction, TLAPS

-----------------------------------------------------------------------------
(* Induction.                                                              *)

\* A nonempty set of naturals has a least element.
LEMMA LeastNat ==
  ASSUME NEW T, T \subseteq Nat, T # {}
  PROVE  \E x \in T : \A y \in T : x <= y
  <1> DEFINE R == OpToRel(<, Nat)
  <1>1. IsWellFoundedOn(R, Nat)
    BY NatLessThanWellFounded
  <1>2. PICK x \in T : \A y \in T : ~ (<<y, x>> \in R)
    <2> HIDE DEF R
    <2> QED
      BY <1>1, WFMin
  <1>3. ASSUME NEW y \in T
        PROVE  x <= y
    <2>1. y < x => <<y, x>> \in R
      BY DEF OpToRel
    <2>2. ~ (y < x)
      BY <1>2, <2>1
    <2> QED
      BY <2>2
  <1> QED
    BY <1>3

\* A set that holds 0 and with each natural the next holds them all.
LEMMA NatSetInduction ==
  ASSUME NEW S, 0 \in S, \A n \in Nat : n \in S => n + 1 \in S
  PROVE  Nat \subseteq S
  <1> SUFFICES ASSUME Nat \ S # {}
               PROVE  FALSE
    OBVIOUS
  <1>1. PICK x \in Nat \ S : \A y \in Nat \ S : x <= y
    BY LeastNat
  <1>2. x # 0 /\ x - 1 \in Nat /\ (x - 1) + 1 = x
    BY <1>1
  <1>3. x - 1 \in S
    BY <1>1, <1>2
  <1> QED
    BY <1>1, <1>2, <1>3

\* A set loses an element.
LEMMA RemoveOne ==
  ASSUME NEW S, IsFiniteSet(S), NEW x \in S
  PROVE  /\ IsFiniteSet(S \ {x})
         /\ Cardinality(S) \in Nat
         /\ Cardinality(S \ {x}) = Cardinality(S) - 1
  <1>1. IsFiniteSet(S \ {x}) /\ Cardinality(S) \in Nat
    BY FS_RemoveElement, FS_CardinalityType
  <1>2. Cardinality(S \ {x}) =
          IF x \in S THEN Cardinality(S) - 1 ELSE Cardinality(S)
    BY FS_RemoveElement
  <1> QED
    BY <1>1, <1>2

\* F holds a subset of D whenever it holds all those smaller by one element.
ClosedUp(D, F) ==
  \A T \in SUBSET D : (\A x \in T : T \ {x} \in F) => T \in F

\* A family that holds a subset of D whenever it holds all those smaller by one
\* element holds every subset of D.
LEMMA SubsetInduction ==
  ASSUME NEW D, IsFiniteSet(D), NEW F, ClosedUp(D, F)
  PROVE  SUBSET D \subseteq F
  <1> DEFINE S == {n \in Nat : \A T \in SUBSET D : Cardinality(T) = n => T \in F}
  <1>1. 0 \in S
    <2> SUFFICES ASSUME NEW T \in SUBSET D, Cardinality(T) = 0
                 PROVE  T \in F
      OBVIOUS
    <2>1. T = {}
      BY FS_Subset, FS_EmptySet
    <2> QED
      BY <2>1 DEF ClosedUp
  <1>2. ASSUME NEW n \in Nat, n \in S
        PROVE  n + 1 \in S
    <2> SUFFICES ASSUME NEW T \in SUBSET D, Cardinality(T) = n + 1
                 PROVE  T \in F
      OBVIOUS
    <2>1. IsFiniteSet(T)
      BY FS_Subset
    <2>2. ASSUME NEW x \in T
          PROVE  T \ {x} \in F
      <3>1. Cardinality(T \ {x}) = n
        BY <2>1, RemoveOne
      <3> QED
        BY <1>2, <3>1
    <2> QED
      BY <2>2 DEF ClosedUp
  <1>3. Nat \subseteq S
    <2> HIDE DEF S
    <2> QED
      BY <1>1, <1>2, NatSetInduction
  <1>4. ASSUME NEW T \in SUBSET D
        PROVE  T \in F
    <2>1. Cardinality(T) \in Nat
      BY FS_Subset, FS_CardinalityType
    <2> QED
      BY <1>3, <2>1
  <1> QED
    BY <1>4

-----------------------------------------------------------------------------
(* Folds over the values of a function.                                    *)

\* The element a fold takes from s first.
Pick(s) == CHOOSE x \in s : TRUE

\* h is the fold of g by op, as a function of the set folded over.
IsFold(op, base, g, h) ==
  h = [s \in SUBSET DOMAIN g |->
         IF s = {} THEN base ELSE op[<<g[Pick(s)], h[s \ {Pick(s)}]>>]]

\* The order of two applications does not matter.
LeftCommutative(op) ==
  \A x, y, z \in Int : op[<<x, op[<<y, z>>]>>] = op[<<y, op[<<x, z>>]>>]

\* The fold can take any element first.
AnyFirst(op, g, h) ==
  \A s \in SUBSET DOMAIN g : \A a \in s : h[s] = op[<<g[a], h[s \ {a}]>>]

\* Pick takes an element.
LEMMA PickIn == \A s : s # {} => Pick(s) \in s
  BY DEF Pick

\* There is a fold.
LEMMA FoldExists ==
  ASSUME NEW D, IsFiniteSet(D), NEW g \in [D -> Int], NEW base \in Int,
         NEW op \in [Int \X Int -> Int]
  PROVE  \E h \in [SUBSET D -> Int] : IsFold(op, base, g, h)
  <1> DEFINE Body(h, s) ==
        IF s = {} THEN base ELSE op[<<g[Pick(s)], h[s \ {Pick(s)}]>>]
  <1> DEFINE S == {n \in Nat :
        \E h \in [SUBSET D -> Int] :
          \A s \in SUBSET D : Cardinality(s) <= n => h[s] = Body(h, s)}
  <1>0. \A s \in SUBSET D : IsFiniteSet(s) /\ Cardinality(s) \in Nat
    BY FS_Subset, FS_CardinalityType
  <1>a. ASSUME NEW h \in [SUBSET D -> Int], NEW s \in SUBSET D
        PROVE  Body(h, s) \in Int
    <2>1. CASE s = {}
      BY <2>1
    <2>2. CASE s # {}
      <3>1. Pick(s) \in D /\ s \ {Pick(s)} \in SUBSET D
        BY <2>2, PickIn
      <3> QED
        BY <2>2, <3>1
    <2> QED
      BY <2>1, <2>2
  <1>1. 0 \in S
    <2> DEFINE h == [s \in SUBSET D |-> base]
    <2>1. h \in [SUBSET D -> Int]
      OBVIOUS
    <2>2. \A s \in SUBSET D : Cardinality(s) <= 0 => h[s] = Body(h, s)
      <3> SUFFICES ASSUME NEW s \in SUBSET D, Cardinality(s) <= 0
                   PROVE  h[s] = Body(h, s)
        OBVIOUS
      <3>1. s = {}
        BY <1>0, FS_EmptySet
      <3> QED
        BY <3>1
    <2> QED
      BY <2>1, <2>2
  <1>2. ASSUME NEW n \in Nat, n \in S
        PROVE  n + 1 \in S
    <2>1. PICK h \in [SUBSET D -> Int] :
            \A s \in SUBSET D : Cardinality(s) <= n => h[s] = Body(h, s)
      BY <1>2
    <2> DEFINE k == [s \in SUBSET D |-> Body(h, s)]
    <2>2. k \in [SUBSET D -> Int]
      BY <1>a
    <2>3. ASSUME NEW s \in SUBSET D, Cardinality(s) <= n + 1
          PROVE  k[s] = Body(k, s)
      <3>1. CASE s = {}
        BY <3>1
      <3>2. CASE s # {}
        <4> DEFINE r == s \ {Pick(s)}
        <4>1. Pick(s) \in s /\ r \in SUBSET D
          BY <3>2, PickIn
        <4>2. Cardinality(r) <= n
          BY <2>3, <4>1, <1>0, RemoveOne
        <4>3. h[r] = k[r]
          BY <2>1, <4>1, <4>2
        <4>4. k[s] = Body(h, s)
          OBVIOUS
        <4> QED
          BY <3>2, <4>3, <4>4
      <3> QED
        BY <3>1, <3>2
    <2>4. \E f \in [SUBSET D -> Int] :
            \A s \in SUBSET D : Cardinality(s) <= n + 1 => f[s] = Body(f, s)
      <3> HIDE DEF k, Body
      <3> QED
        BY <2>2, <2>3
    <2>5. n + 1 \in Nat
      OBVIOUS
    <2> HIDE DEF Body
    <2> QED
      BY <2>4, <2>5, Zenon
  <1>3. Cardinality(D) \in S
    <2>1. Nat \subseteq S
      <3> HIDE DEF S
      <3> QED
        BY <1>1, <1>2, NatSetInduction
    <2> QED
      BY <2>1, FS_CardinalityType
  <1>4. PICK h \in [SUBSET D -> Int] :
          \A s \in SUBSET D : Cardinality(s) <= Cardinality(D) => h[s] = Body(h, s)
    BY <1>3
  <1>5. \A s \in SUBSET D : h[s] = Body(h, s)
    BY <1>4, FS_Subset
  <1>6. h = [s \in SUBSET D |-> Body(h, s)]
    BY <1>5
  <1>7. DOMAIN g = D
    OBVIOUS
  <1> QED
    BY <1>6, <1>7 DEF IsFold

\* A fold by an operation for which the order does not matter can take any
\* element first.
LEMMA FoldAny ==
  ASSUME NEW D, IsFiniteSet(D), NEW g \in [D -> Int], NEW base \in Int,
         NEW op \in [Int \X Int -> Int], LeftCommutative(op),
         NEW h \in [SUBSET D -> Int], IsFold(op, base, g, h)
  PROVE  AnyFirst(op, g, h)
  <1> DEFINE F == {s \in SUBSET D : \A a \in s : h[s] = op[<<g[a], h[s \ {a}]>>]}
  <1>1. \A s \in SUBSET D : s # {} =>
          /\ Pick(s) \in s
          /\ h[s] = op[<<g[Pick(s)], h[s \ {Pick(s)}]>>]
    BY PickIn DEF IsFold
  <1>2. ASSUME NEW s \in SUBSET D, \A x \in s : s \ {x} \in F, NEW a \in s
        PROVE  h[s] = op[<<g[a], h[s \ {a}]>>]
    <2> DEFINE c == Pick(s)
               r == (s \ {a}) \ {c}
    <2>1. c \in s /\ h[s] = op[<<g[c], h[s \ {c}]>>]
      BY <1>1
    <2>2. CASE a = c
      BY <2>1, <2>2
    <2>3. CASE a # c
      <3> HIDE DEF c
      <3>1. /\ s \ {a} \in SUBSET D /\ s \ {c} \in SUBSET D /\ r \in SUBSET D
            /\ a \in s \ {c} /\ c \in s \ {a} /\ (s \ {c}) \ {a} = r
        BY <2>1, <2>3
      <3>2. s \ {c} \in F /\ s \ {a} \in F
        BY <1>2, <2>1
      <3>3. h[s \ {c}] = op[<<g[a], h[r]>>] /\ h[s \ {a}] = op[<<g[c], h[r]>>]
        BY <3>1, <3>2
      <3>4. g[a] \in Int /\ g[c] \in Int /\ h[r] \in Int
        BY <2>1, <3>1
      <3>5. op[<<g[c], op[<<g[a], h[r]>>]>>] = op[<<g[a], op[<<g[c], h[r]>>]>>]
        BY <3>4 DEF LeftCommutative
      <3> QED
        BY <2>1, <3>3, <3>5
    <2> QED
      BY <2>2, <2>3
  <1>3. ClosedUp(D, F)
    BY <1>2 DEF ClosedUp
  <1>4. SUBSET D \subseteq F
    <2> HIDE DEF F
    <2> QED
      BY <1>3, SubsetInduction
  <1>5. DOMAIN g = D
    OBVIOUS
  <1> QED
    BY <1>4, <1>5 DEF AnyFirst

\* The fold over a smaller set is part of the fold over a larger one.
LEMMA FoldRestrict ==
  ASSUME NEW D, NEW g \in [D -> Int], NEW base, NEW op,
         NEW h, IsFold(op, base, g, h), NEW E \in SUBSET D
  PROVE  IsFold(op, base, Restrict(g, E), Restrict(h, SUBSET E))
  <1> DEFINE f == [i \in E |-> g[i]]
             k == [s \in SUBSET E |-> h[s]]
  <1>1. \A s \in SUBSET D :
          h[s] = IF s = {} THEN base ELSE op[<<g[Pick(s)], h[s \ {Pick(s)}]>>]
    BY DEF IsFold
  <1>2. ASSUME NEW s \in SUBSET E
        PROVE  k[s] = IF s = {} THEN base
                      ELSE op[<<f[Pick(s)], k[s \ {Pick(s)}]>>]
    <2>1. k[s] = h[s] /\ s \in SUBSET D
      OBVIOUS
    <2>2. CASE s = {}
      BY <1>1, <2>1, <2>2
    <2>3. CASE s # {}
      <3>1. Pick(s) \in E /\ s \ {Pick(s)} \in SUBSET E
        BY <2>3, PickIn
      <3>2. f[Pick(s)] = g[Pick(s)] /\ k[s \ {Pick(s)}] = h[s \ {Pick(s)}]
        BY <3>1
      <3> QED
        BY <1>1, <2>1, <2>3, <3>2
    <2> QED
      BY <2>2, <2>3
  <1>3. k = [s \in SUBSET E |->
               IF s = {} THEN base ELSE op[<<f[Pick(s)], k[s \ {Pick(s)}]>>]]
    BY <1>2
  <1>4. DOMAIN f = E
    OBVIOUS
  <1> HIDE DEF f, k
  <1>5. IsFold(op, base, f, k)
    BY <1>3, <1>4 DEF IsFold
  <1> QED
    BY <1>5 DEF f, k, Restrict

-----------------------------------------------------------------------------
(* Sums.                                                                   *)

\* Addition as a function.
Plus == [p \in Int \X Int |-> p[1] + p[2]]

\* What SumFunction computes with.
IsSum(g, h) ==
  h = [s \in SUBSET DOMAIN g |->
         IF s = {} THEN 0 ELSE g[Pick(s)] + h[s \ {Pick(s)}]]

\* Plus is an operation whose order does not matter.
LEMMA PlusType == Plus \in [Int \X Int -> Int] /\ LeftCommutative(Plus)
  <1>1. Plus \in [Int \X Int -> Int]
    BY DEF Plus
  <1>2. ASSUME NEW x \in Int, NEW y \in Int
        PROVE  Plus[<<x, y>>] = x + y
    BY DEF Plus
  <1>3. ASSUME NEW x \in Int, NEW y \in Int, NEW z \in Int
        PROVE  Plus[<<x, Plus[<<y, z>>]>>] = Plus[<<y, Plus[<<x, z>>]>>]
    <2>1. x + z \in Int /\ y + z \in Int
      OBVIOUS
    <2>2. Plus[<<x, y + z>>] = x + (y + z) /\ Plus[<<y, x + z>>] = y + (x + z)
      BY <1>2, <2>1
    <2> QED
      BY <1>2, <2>2
  <1> QED
    BY <1>1, <1>3 DEF LeftCommutative

\* SumFunction is the fold by Plus.
LEMMA SumIsFold ==
  ASSUME NEW D, IsFiniteSet(D), NEW g \in [D -> Int],
         NEW h \in [SUBSET D -> Int], IsFold(Plus, 0, g, h)
  PROVE  SumFunction(g) = h[D]
  <1>0. DOMAIN g = D
    OBVIOUS
  <1>1. SumFunction(g) = (CHOOSE f : IsSum(g, f))[DOMAIN g]
    BY Zenon DEF SumFunction, SumFunctionOnSet, FoldFunctionOnSet,
                 MapThenFoldSet, IsSum, Pick
  <1>2. \A s \in SUBSET D :
          h[s] = IF s = {} THEN 0 ELSE Plus[<<g[Pick(s)], h[s \ {Pick(s)}]>>]
    BY <1>0 DEF IsFold
  <1>3. ASSUME NEW s \in SUBSET D
        PROVE  h[s] = IF s = {} THEN 0 ELSE g[Pick(s)] + h[s \ {Pick(s)}]
    <2>1. CASE s # {}
      <3>1. g[Pick(s)] \in Int /\ h[s \ {Pick(s)}] \in Int
        BY <2>1, PickIn
      <3> QED
        BY <1>2, <2>1, <3>1 DEF Plus
    <2>2. CASE s = {}
      BY <1>2, <2>2
    <2> QED
      BY <2>1, <2>2
  <1>4. IsSum(g, h)
    BY <1>0, <1>3 DEF IsSum
  <1> DEFINE k == CHOOSE f : IsSum(g, f)
  <1>5. IsSum(g, k)
    BY <1>4
  <1> HIDE DEF k
  <1>6. \A s \in SUBSET D :
          k[s] = IF s = {} THEN 0 ELSE g[Pick(s)] + k[s \ {Pick(s)}]
    BY <1>0, <1>5 DEF IsSum
  <1>a. {} \in SUBSET D /\ D \in SUBSET D
    OBVIOUS
  <1>b. h[{}] = 0 /\ k[{}] = 0
    <2>1. h[{}] = 0
      BY <1>3, <1>a
    <2>2. k[{}] = 0
      BY <1>6, <1>a
    <2> QED
      BY <2>1, <2>2
  <1> DEFINE F == {s \in SUBSET D : k[s] = h[s]}
  <1>7. ASSUME NEW s \in SUBSET D, \A x \in s : s \ {x} \in F
        PROVE  k[s] = h[s]
    <2>1. CASE s = {}
      BY <1>b, <2>1
    <2>2. CASE s # {}
      <3>1. k[s \ {Pick(s)}] = h[s \ {Pick(s)}]
        BY <1>7, <2>2, PickIn
      <3>2. k[s] = g[Pick(s)] + k[s \ {Pick(s)}]
        BY <1>6, <2>2
      <3>3. h[s] = g[Pick(s)] + h[s \ {Pick(s)}]
        BY <1>3, <2>2
      <3> QED
        BY <3>1, <3>2, <3>3
    <2> QED
      BY <2>1, <2>2
  <1>8. ClosedUp(D, F)
    BY <1>7 DEF ClosedUp
  <1>9. SUBSET D \subseteq F
    <2> HIDE DEF F
    <2> QED
      BY <1>8, SubsetInduction
  <1>10. k[D] = h[D]
    BY <1>9, <1>a
  <1>11. SumFunction(g) = k[D]
    BY <1>0, <1>1 DEF k
  <1> QED
    BY <1>10, <1>11

\* A sum is a number; without summands it is 0; any summand can be split off.
LEMMA SumSplit ==
  ASSUME NEW D, IsFiniteSet(D), NEW g \in [D -> Int]
  PROVE  /\ SumFunction(g) \in Int
         /\ D = {} => SumFunction(g) = 0
         /\ \A a \in D : SumFunction(g)
                           = g[a] + SumFunction([i \in D \ {a} |-> g[i]])
  <1>0. 0 \in Int
    OBVIOUS
  <1>1. PICK h \in [SUBSET D -> Int] : IsFold(Plus, 0, g, h)
    BY <1>0, FoldExists, PlusType, Zenon
  <1>2. SumFunction(g) = h[D]
    BY <1>1, SumIsFold
  <1>3. D = {} => h[D] = 0
    <2>1. D \in SUBSET D /\ DOMAIN g = D
      OBVIOUS
    <2> QED
      BY <1>1, <2>1 DEF IsFold
  <1>4. ASSUME NEW a \in D
        PROVE  SumFunction(g) = g[a] + SumFunction([i \in D \ {a} |-> g[i]])
    <2> DEFINE E == D \ {a}
               f == [i \in E |-> g[i]]
               k == [s \in SUBSET E |-> h[s]]
    <2>1. IsFiniteSet(E) /\ E \in SUBSET D /\ D \in SUBSET D
      BY RemoveOne
    <2>2. IsFold(Plus, 0, f, k)
      <3>1. IsFold(Plus, 0, Restrict(g, E), Restrict(h, SUBSET E))
        BY <1>1, <2>1, FoldRestrict
      <3> QED
        BY <3>1 DEF Restrict
    <2>3. f \in [E -> Int] /\ k \in [SUBSET E -> Int] /\ k[E] = h[E]
      OBVIOUS
    <2>4. SumFunction(f) = h[E]
      <3> HIDE DEF f, k, E
      <3> QED
        BY <2>1, <2>2, <2>3, SumIsFold
    <2>a. AnyFirst(Plus, g, h)
      BY <1>0, <1>1, PlusType, FoldAny, Zenon
    <2>5. h[D] = Plus[<<g[a], h[E]>>]
      BY <2>1, <2>a DEF AnyFirst
    <2>6. g[a] \in Int /\ h[E] \in Int
      BY <2>1
    <2>7. Plus[<<g[a], h[E]>>] = g[a] + h[E]
      BY <2>6 DEF Plus
    <2> QED
      BY <1>2, <2>4, <2>5, <2>7
  <1> QED
    BY <1>2, <1>3, <1>4
-----------------------------------------------------------------------------
(* Arithmetic modulo Q.                                                    *)

\* a and b are equal in the field.
Cong(a, b) == a % Q = b % Q

\* Reduction gives a field element.
LEMMA ModType == \A a \in Int : a % Q \in Field /\ a % Q \in Int
  BY QAssumption DEF Field

\* A number is a multiple of Q and its remainder.
LEMMA ModDecompose ==
  ASSUME NEW a \in Int
  PROVE  \E k \in Int : a = (k * Q) + (a % Q)
  <1>1. a = (Q * (a \div Q)) + (a % Q) /\ a \div Q \in Int
    BY QAssumption
  <1> DEFINE k == a \div Q
  <1>2. k \in Int /\ a = (k * Q) + (a % Q)
    BY <1>1, QAssumption, ModType
  <1> HIDE DEF k
  <1> QED
    BY <1>2

\* There is only one remainder.
LEMMA ModUnique ==
  ASSUME NEW k \in Int, NEW r \in Field
  PROVE  ((k * Q) + r) % Q = r
  BY QAssumption DEF Field

\* Multiples of Q do not change the remainder.
LEMMA ModShift ==
  ASSUME NEW a \in Int, NEW k \in Int
  PROVE  (a + (k * Q)) % Q = a % Q
  <1>1. PICK j \in Int : a = (j * Q) + (a % Q)
    BY ModDecompose
  <1>2. a % Q \in Field /\ a % Q \in Int /\ j + k \in Int
    BY ModType
  <1>3. a + (k * Q) = ((j + k) * Q) + (a % Q)
    BY <1>1, <1>2, QAssumption
  <1> QED
    BY <1>2, <1>3, ModUnique

\* Numbers equal in the field differ by a multiple of Q.
LEMMA ModEq ==
  ASSUME NEW a \in Int, NEW b \in Int, Cong(a, b)
  PROVE  \E k \in Int : a = b + (k * Q)
  <1>1. PICK j \in Int : a = (j * Q) + (a % Q)
    BY ModDecompose
  <1>2. PICK i \in Int : b = (i * Q) + (b % Q)
    BY ModDecompose
  <1>3. j - i \in Int /\ a = b + ((j - i) * Q)
    BY <1>1, <1>2, QAssumption, ModType DEF Cong
  <1> QED
    BY <1>3

\* The field operations respect equality in the field.
LEMMA CongOps ==
  ASSUME NEW a \in Int, NEW b \in Int, NEW c \in Int, NEW d \in Int,
         Cong(a, b), Cong(c, d)
  PROVE  Cong(a + c, b + d) /\ Cong(a - c, b - d) /\ Cong(a * c, b * d)
  <1>1. PICK j \in Int : a = b + (j * Q)
    BY ModEq
  <1>2. PICK i \in Int : c = d + (i * Q)
    BY ModEq
  <1>3. Cong(a + c, b + d)
    <2>1. b + d \in Int /\ j + i \in Int /\ a + c = (b + d) + ((j + i) * Q)
      BY <1>1, <1>2, QAssumption
    <2> QED
      BY <2>1, ModShift DEF Cong
  <1>4. Cong(a - c, b - d)
    <2>1. b - d \in Int /\ j - i \in Int /\ a - c = (b - d) + ((j - i) * Q)
      BY <1>1, <1>2, QAssumption
    <2> QED
      BY <2>1, ModShift DEF Cong
  <1>5. Cong(a * c, b * d)
    <2> DEFINE k == (b * i) + (j * d) + (j * i * Q)
    <2>1. b * d \in Int /\ k \in Int
      BY QAssumption
    <2>2. a * c = (b * d) + (k * Q)
      BY <1>1, <1>2, QAssumption
    <2> HIDE DEF k
    <2> QED
      BY <2>1, <2>2, ModShift DEF Cong
  <1> QED
    BY <1>3, <1>4, <1>5

\* A field element is its own remainder.
LEMMA FieldMod == \A a \in Field : a % Q = a /\ a \in Int
  BY QAssumption DEF Field

\* A number and its remainder are equal in the field.
LEMMA CongMod == \A a \in Int : Cong(a % Q, a) /\ Cong(a, a % Q)
  <1> SUFFICES ASSUME NEW a \in Int
               PROVE  (a % Q) % Q = a % Q
    BY DEF Cong
  <1> QED
    BY ModType, FieldMod

\* Equality in the field is an equivalence.
LEMMA CongRefl == \A a : Cong(a, a)
  BY DEF Cong

\* Congruence is symmetric.
LEMMA CongSym == \A a, b : Cong(a, b) => Cong(b, a)
  BY DEF Cong

\* Congruence is transitive.
LEMMA CongTrans == \A a, b, c : Cong(a, b) /\ Cong(b, c) => Cong(a, c)
  BY DEF Cong

\* Equal numbers have equal multiples.
LEMMA CongScale ==
  ASSUME NEW c \in Int, NEW a \in Int, NEW b \in Int, Cong(a, b)
  PROVE  Cong(c * a, c * b) /\ Cong(a * c, b * c)
  <1>1. Cong(c, c)
    BY CongRefl
  <1> QED
    BY <1>1, CongOps

\* One step of Horner's rule gives a number.
LEMMA AffineType ==
  ASSUME NEW p \in Int, NEW x \in Int, NEW c \in Int
  PROVE  /\ (p * x) + c \in Int
         /\ ((p * x) + c) % Q \in Int
         /\ ((p * x) + c) % Q \in Field
  <1>1. (p * x) + c \in Int
    OBVIOUS
  <1> QED
    BY <1>1, ModType

\* One step of Horner's rule respects equality in the field.
LEMMA CongAffine ==
  ASSUME NEW p \in Int, NEW q \in Int, NEW x \in Int, NEW c \in Int, Cong(p, q)
  PROVE  Cong((p * x) + c, (q * x) + c)
  <1>1. Cong(p * x, q * x) /\ Cong(c, c)
    BY CongScale, CongRefl
  <1>2. p * x \in Int /\ q * x \in Int
    OBVIOUS
  <1> QED
    BY <1>1, <1>2, CongOps

\* A number that is not 0 in the field has an inverse: the least positive
\* a * x modulo Q divides Q.
LEMMA InverseExists ==
  ASSUME NEW a \in Int, a % Q # 0
  PROVE  \E b \in Field : (a * b) % Q = 1
  <1> DEFINE V == {v \in Nat : v # 0 /\ \E x \in Int : Cong(a * x, v)}
  <1>1. a % Q \in V /\ a % Q < Q
    <2>1. a % Q \in Nat /\ a % Q < Q
      BY QAssumption
    <2>2. Cong(a * 1, a % Q) /\ 1 \in Int
      <3>1. a * 1 = a
        OBVIOUS
      <3> QED
        BY <3>1, CongMod
    <2> QED
      BY <2>1, <2>2
  <1>2. PICK m \in V : \A v \in V : m <= v
    <2>1. V \subseteq Nat /\ V # {}
      BY <1>1
    <2> HIDE DEF V
    <2> QED
      BY <2>1, LeastNat
  <1>3. m \in Nat /\ m # 0 /\ m < Q
    <2>1. m \in Nat /\ m # 0 /\ m <= a % Q
      BY <1>1, <1>2
    <2> HIDE DEF V
    <2> QED
      BY <1>1, <2>1, ModType, QAssumption
  <1>4. PICK x \in Int : Cong(a * x, m)
    BY <1>2
  <1>5. Q % m \notin V
    <2>1. Q % m < m /\ Q % m \in Nat
      BY <1>3, QAssumption
    <2>2. ASSUME Q % m \in V
          PROVE  FALSE
      <3>1. m <= Q % m
        BY <1>2, <2>2
      <3> HIDE DEF V
      <3> QED
        BY <3>1, <2>1, <1>3
    <2> QED
      BY <2>2
  <1>6. Q % m \in V \/ Q % m = 0
    <2> DEFINE k == Q \div m
    <2>1. k \in Int /\ Q % m \in Nat /\ Q = (m * k) + (Q % m)
      BY <1>3, QAssumption
    <2>2. Cong(a * ((-k) * x), Q % m)
      <3> HIDE DEF k
      <3>1. Cong((-k) * (a * x), (-k) * m)
        <4>1. -k \in Int /\ a * x \in Int /\ m \in Int
          BY <1>3, <2>1
        <4> QED
          BY <1>4, <4>1, CongScale
      <3>2. a * ((-k) * x) = (-k) * (a * x)
        BY <2>1
      <3>3. (-k) * m \in Int /\ 1 \in Int /\ ((-k) * m) + (1 * Q) = Q % m
        BY <1>3, <2>1, QAssumption
      <3>4. Cong(Q % m, (-k) * m)
        BY <3>3, ModShift DEF Cong
      <3> QED
        BY <3>1, <3>2, <3>4, CongSym, CongTrans
    <2>3. (-k) * x \in Int
      BY <2>1
    <2> HIDE DEF k
    <2> QED
      BY <2>1, <2>2, <2>3
  <1>7. m = 1
    <2>1. Q % m = 0
      BY <1>5, <1>6
    <2>2. m \notin 2 .. (Q - 1)
      BY <2>1, QAssumption
    <2> HIDE DEF V
    <2> QED
      BY <1>3, <2>2, QAssumption
  <1>8. x % Q \in Field /\ x % Q \in Int
    BY ModType
  <1>9. Cong(a * (x % Q), a * x)
    BY <1>8, CongMod, CongRefl, CongOps
  <1>10. Cong(a * (x % Q), 1)
    BY <1>4, <1>7, <1>9, CongTrans
  <1>11. 1 % Q = 1
    BY QAssumption
  <1> QED
    BY <1>8, <1>10, <1>11 DEF Cong

\* ModInverse is an inverse.
LEMMA ModInverseType ==
  ASSUME NEW a \in Int, a % Q # 0
  PROVE  /\ ModInverse(a) \in Field
         /\ ModInverse(a) \in Int
         /\ Cong(a * ModInverse(a), 1)
  <1>1. PICK b \in Field : (a * b) % Q = 1
    BY InverseExists
  <1>2. ModInverse(a) \in Field /\ (a * ModInverse(a)) % Q = 1
    BY <1>1 DEF ModInverse
  <1>3. 1 % Q = 1
    BY QAssumption
  <1> QED
    BY <1>2, <1>3, FieldMod DEF Cong

\* A factor that is not 0 in the field can be cancelled.
LEMMA CongCancel ==
  ASSUME NEW a \in Int, NEW b \in Int, NEW c \in Int, c % Q # 0,
         Cong(c * a, c * b)
  PROVE  Cong(a, b)
  <1> DEFINE v == ModInverse(c)
  <1>1. v \in Int /\ Cong(c * v, 1)
    BY ModInverseType
  <1> HIDE DEF v
  <1>2. Cong(v * (c * a), v * (c * b))
    <2>1. c * a \in Int /\ c * b \in Int
      OBVIOUS
    <2> QED
      BY <1>1, <2>1, CongScale
  <1>3. /\ v * (c * a) = (c * v) * a
        /\ v * (c * b) = (c * v) * b
    BY <1>1
  <1>4. Cong((c * v) * a, 1 * a) /\ Cong((c * v) * b, 1 * b)
    <2>1. c * v \in Int /\ 1 \in Int
      BY <1>1
    <2> QED
      BY <1>1, <2>1, CongScale
  <1>5. 1 * a = a /\ 1 * b = b
    OBVIOUS
  <1> QED
    BY <1>2, <1>3, <1>4, <1>5 DEF Cong

-----------------------------------------------------------------------------
(* Products.                                                               *)

\* Multiplication in the field, as a function.
Times == [p \in Int \X Int |-> (p[1] * p[2]) % Q]

\* What FieldProduct computes with.
IsProduct(g, h) ==
  h = [s \in SUBSET DOMAIN g |->
         IF s = {} THEN 1 ELSE (g[Pick(s)] * h[s \ {Pick(s)}]) % Q]

\* The values of Times.
LEMMA TimesAt ==
  ASSUME NEW x \in Int, NEW y \in Int
  PROVE  Times[<<x, y>>] = (x * y) % Q /\ Times[<<x, y>>] \in Int
  BY ModType DEF Times

\* Times is an operation whose order does not matter.
LEMMA TimesType == Times \in [Int \X Int -> Int] /\ LeftCommutative(Times)
  <1>1. Times \in [Int \X Int -> Int]
    BY ModType DEF Times
  <1>2. ASSUME NEW x \in Int, NEW y \in Int, NEW z \in Int
        PROVE  Times[<<x, Times[<<y, z>>]>>] = (x * (y * z)) % Q
    <2>1. y * z \in Int /\ (y * z) % Q \in Int
      BY ModType
    <2>2. Cong(x * ((y * z) % Q), x * (y * z))
      BY <2>1, CongMod, CongRefl, CongOps
    <2>3. Times[<<y, z>>] = (y * z) % Q
      BY TimesAt
    <2>4. Times[<<x, (y * z) % Q>>] = (x * ((y * z) % Q)) % Q
      BY <2>1, TimesAt
    <2> QED
      BY <2>2, <2>3, <2>4 DEF Cong
  <1>3. ASSUME NEW x \in Int, NEW y \in Int, NEW z \in Int
        PROVE  Times[<<x, Times[<<y, z>>]>>] = Times[<<y, Times[<<x, z>>]>>]
    <2>1. x * (y * z) = y * (x * z)
      OBVIOUS
    <2>2. Times[<<x, Times[<<y, z>>]>>] = (x * (y * z)) % Q
      BY <1>2
    <2>3. Times[<<y, Times[<<x, z>>]>>] = (y * (x * z)) % Q
      BY <1>2
    <2> QED
      BY <2>1, <2>2, <2>3
  <1> QED
    BY <1>1, <1>3 DEF LeftCommutative

\* FieldProduct is the fold by Times.
LEMMA ProductIsFold ==
  ASSUME NEW D, IsFiniteSet(D), NEW g \in [D -> Int],
         NEW h \in [SUBSET D -> Int], IsFold(Times, 1, g, h)
  PROVE  FieldProduct(g) = h[D]
  <1>0. DOMAIN g = D
    OBVIOUS
  <1>1. FieldProduct(g) = (CHOOSE f : IsProduct(g, f))[DOMAIN g]
    BY Zenon DEF FieldProduct, FoldFunction, FoldFunctionOnSet,
                 MapThenFoldSet, IsProduct, Pick
  <1>2. \A s \in SUBSET D :
          h[s] = IF s = {} THEN 1 ELSE Times[<<g[Pick(s)], h[s \ {Pick(s)}]>>]
    BY <1>0 DEF IsFold
  <1>3. ASSUME NEW s \in SUBSET D
        PROVE  h[s] = IF s = {} THEN 1
                      ELSE (g[Pick(s)] * h[s \ {Pick(s)}]) % Q
    <2>1. CASE s # {}
      <3>1. g[Pick(s)] \in Int /\ h[s \ {Pick(s)}] \in Int
        BY <2>1, PickIn
      <3>2. h[s] = Times[<<g[Pick(s)], h[s \ {Pick(s)}]>>]
        BY <1>2, <2>1
      <3>3. h[s] = (g[Pick(s)] * h[s \ {Pick(s)}]) % Q
        BY <3>1, <3>2, TimesAt
      <3> QED
        BY <2>1, <3>3
    <2>2. CASE s = {}
      BY <1>2, <2>2
    <2> QED
      BY <2>1, <2>2
  <1>4. IsProduct(g, h)
    BY <1>0, <1>3, Zenon DEF IsProduct
  <1> DEFINE k == CHOOSE f : IsProduct(g, f)
  <1>5. IsProduct(g, k)
    BY <1>4
  <1> HIDE DEF k
  <1>6. \A s \in SUBSET D :
          k[s] = IF s = {} THEN 1 ELSE (g[Pick(s)] * k[s \ {Pick(s)}]) % Q
    BY <1>0, <1>5 DEF IsProduct
  <1>a. {} \in SUBSET D /\ D \in SUBSET D
    OBVIOUS
  <1>b. h[{}] = 1 /\ k[{}] = 1
    <2>1. h[{}] = 1
      BY <1>3, <1>a
    <2>2. k[{}] = 1
      BY <1>6, <1>a
    <2> QED
      BY <2>1, <2>2
  <1> DEFINE F == {s \in SUBSET D : k[s] = h[s]}
  <1>7. ASSUME NEW s \in SUBSET D, \A x \in s : s \ {x} \in F
        PROVE  k[s] = h[s]
    <2>1. CASE s = {}
      BY <1>b, <2>1
    <2>2. CASE s # {}
      <3>1. k[s \ {Pick(s)}] = h[s \ {Pick(s)}]
        BY <1>7, <2>2, PickIn
      <3>2. k[s] = (g[Pick(s)] * k[s \ {Pick(s)}]) % Q
        BY <1>6, <2>2
      <3>3. h[s] = (g[Pick(s)] * h[s \ {Pick(s)}]) % Q
        BY <1>3, <2>2
      <3> QED
        BY <3>1, <3>2, <3>3
    <2> QED
      BY <2>1, <2>2
  <1>8. ClosedUp(D, F)
    BY <1>7 DEF ClosedUp
  <1>9. SUBSET D \subseteq F
    <2> HIDE DEF F
    <2> QED
      BY <1>8, SubsetInduction
  <1>10. k[D] = h[D]
    BY <1>9, <1>a
  <1>11. FieldProduct(g) = k[D]
    BY <1>0, <1>1 DEF k
  <1> QED
    BY <1>10, <1>11

\* A product is a field element; without factors it is 1; any factor can be
\* split off.
LEMMA ProductSplit ==
  ASSUME NEW D, IsFiniteSet(D), NEW g \in [D -> Int]
  PROVE  /\ FieldProduct(g) \in Field
         /\ D = {} => FieldProduct(g) = 1
         /\ \A a \in D :
              FieldProduct(g)
                = (g[a] * FieldProduct([i \in D \ {a} |-> g[i]])) % Q
  <1>0. 1 \in Int
    OBVIOUS
  <1>1. PICK h \in [SUBSET D -> Int] : IsFold(Times, 1, g, h)
    BY <1>0, FoldExists, TimesType, Zenon
  <1>2. FieldProduct(g) = h[D]
    BY <1>1, ProductIsFold
  <1>3. D = {} => h[D] = 1
    <2>1. D \in SUBSET D /\ DOMAIN g = D
      OBVIOUS
    <2> QED
      BY <1>1, <2>1 DEF IsFold
  <1>4. ASSUME NEW a \in D
        PROVE  /\ FieldProduct(g)
                    = (g[a] * FieldProduct([i \in D \ {a} |-> g[i]])) % Q
               /\ FieldProduct(g) \in Field
    <2> DEFINE E == D \ {a}
               f == [i \in E |-> g[i]]
               k == [s \in SUBSET E |-> h[s]]
    <2>1. IsFiniteSet(E) /\ E \in SUBSET D /\ D \in SUBSET D
      BY RemoveOne
    <2>2. IsFold(Times, 1, f, k)
      <3>1. IsFold(Times, 1, Restrict(g, E), Restrict(h, SUBSET E))
        BY <1>1, <2>1, FoldRestrict
      <3> QED
        BY <3>1 DEF Restrict
    <2>3. f \in [E -> Int] /\ k \in [SUBSET E -> Int] /\ k[E] = h[E]
      OBVIOUS
    <2>4. FieldProduct(f) = h[E]
      <3> HIDE DEF f, k, E
      <3> QED
        BY <2>1, <2>2, <2>3, ProductIsFold
    <2>a. AnyFirst(Times, g, h)
      BY <1>0, <1>1, TimesType, FoldAny, Zenon
    <2>5. h[D] = Times[<<g[a], h[E]>>]
      BY <2>1, <2>a DEF AnyFirst
    <2>6. g[a] \in Int /\ h[E] \in Int
      BY <2>1
    <2>7. Times[<<g[a], h[E]>>] = (g[a] * h[E]) % Q
      BY <2>6, TimesAt
    <2>8. (g[a] * h[E]) % Q \in Field
      BY <2>6, ModType
    <2> QED
      BY <1>2, <2>4, <2>5, <2>7, <2>8
  <1>5. 1 \in Field
    BY QAssumption DEF Field
  <1> QED
    BY <1>2, <1>3, <1>4, <1>5

-----------------------------------------------------------------------------
(* Properties of sums.                                                     *)

\* SumSplit for the sum over part of a function's domain.
LEMMA SumOn ==
  ASSUME NEW D, IsFiniteSet(D), NEW g \in [D -> Int], NEW s \in SUBSET D
  PROVE  /\ SumFunction(Restrict(g, s)) \in Int
         /\ s = {} => SumFunction(Restrict(g, s)) = 0
         /\ \A x \in s : SumFunction(Restrict(g, s))
                           = g[x] + SumFunction(Restrict(g, s \ {x}))
  <1> DEFINE f == [i \in s |-> g[i]]
  <1>1. IsFiniteSet(s) /\ f \in [s -> Int]
    BY FS_Subset
  <1>2. Restrict(g, s) = f
    BY DEF Restrict
  <1>3. ASSUME NEW x \in s
        PROVE  /\ f[x] = g[x]
               /\ [i \in s \ {x} |-> f[i]] = Restrict(g, s \ {x})
    BY DEF Restrict
  <1> HIDE DEF f
  <1>4. ASSUME NEW x \in s
        PROVE  SumFunction(f) = f[x] + SumFunction([i \in s \ {x} |-> f[i]])
    BY <1>1, SumSplit
  <1>5. SumFunction(f) \in Int /\ (s = {} => SumFunction(f) = 0)
    BY <1>1, SumSplit
  <1> QED
    BY <1>2, <1>3, <1>4, <1>5

\* A function restricted to its domain is the function.
LEMMA RestrictAll ==
  ASSUME NEW D, NEW S, NEW g \in [D -> S]
  PROVE  Restrict(g, D) = g
  BY DEF Restrict

\* The sum of a linear combination.
LEMMA SumLinear ==
  ASSUME NEW D, IsFiniteSet(D), NEW g \in [D -> Int], NEW h \in [D -> Int],
         NEW a \in Int, NEW b \in Int
  PROVE  SumFunction([i \in D |-> (a * g[i]) + (b * h[i])])
           = (a * SumFunction(g)) + (b * SumFunction(h))
  <1> DEFINE f == [i \in D |-> (a * g[i]) + (b * h[i])]
             Sum(u, s) == SumFunction(Restrict(u, s))
             F == {s \in SUBSET D :
                     Sum(f, s) = (a * Sum(g, s)) + (b * Sum(h, s))}
  <1>1. f \in [D -> Int] /\ \A i \in D : f[i] = (a * g[i]) + (b * h[i])
    OBVIOUS
  <1> HIDE DEF f
  <1>2. ASSUME NEW u \in [D -> Int], NEW s \in SUBSET D
        PROVE  /\ Sum(u, s) \in Int
               /\ s = {} => Sum(u, s) = 0
               /\ \A x \in s : Sum(u, s) = u[x] + Sum(u, s \ {x})
    BY SumOn
  <1>3. ASSUME NEW s \in SUBSET D, \A x \in s : s \ {x} \in F
        PROVE  s \in F
    <2>1. CASE s = {}
      <3>1. Sum(f, s) = 0 /\ Sum(g, s) = 0 /\ Sum(h, s) = 0
        BY <1>1, <1>2, <2>1
      <3> HIDE DEF Sum
      <3> QED
        BY <3>1
    <2>2. CASE s # {}
      <3>1. PICK x \in s : TRUE
        BY <2>2
      <3> DEFINE r == s \ {x}
      <3> HIDE DEF Sum
      <3>2. /\ Sum(f, s) = f[x] + Sum(f, r)
            /\ Sum(g, s) = g[x] + Sum(g, r)
            /\ Sum(h, s) = h[x] + Sum(h, r)
        BY <1>1, <1>2
      <3>3. Sum(f, r) = (a * Sum(g, r)) + (b * Sum(h, r))
        BY <1>3
      <3>4. Sum(g, r) \in Int /\ Sum(h, r) \in Int
        BY <1>2
      <3>5. f[x] = (a * g[x]) + (b * h[x]) /\ g[x] \in Int /\ h[x] \in Int
        BY <1>1
      <3> HIDE DEF r
      <3>6. Sum(f, s) = (a * Sum(g, s)) + (b * Sum(h, s))
        BY <3>2, <3>3, <3>4, <3>5
      <3> QED
        BY <3>6
    <2> QED
      BY <2>1, <2>2
  <1>4. ClosedUp(D, F)
    <2> HIDE DEF F
    <2> QED
      BY <1>3 DEF ClosedUp
  <1>5. D \in F
    <2> HIDE DEF F
    <2> QED
      BY <1>4, SubsetInduction
  <1>6. Sum(f, D) = SumFunction(f) /\ Sum(g, D) = SumFunction(g)
          /\ Sum(h, D) = SumFunction(h)
    BY <1>1, RestrictAll
  <1>7. SumFunction(f) = (a * SumFunction(g)) + (b * SumFunction(h))
    <2> HIDE DEF Sum
    <2> QED
      BY <1>5, <1>6
  <1> QED
    BY <1>7 DEF f

\* Sums with equal summands in the field are equal in the field.
LEMMA SumCong ==
  ASSUME NEW D, IsFiniteSet(D), NEW g \in [D -> Int], NEW h \in [D -> Int],
         \A i \in D : Cong(g[i], h[i])
  PROVE  Cong(SumFunction(g), SumFunction(h))
  <1> DEFINE Sum(u, s) == SumFunction(Restrict(u, s))
             F == {s \in SUBSET D : Cong(Sum(g, s), Sum(h, s))}
  <1>1. ASSUME NEW u \in [D -> Int], NEW s \in SUBSET D
        PROVE  /\ Sum(u, s) \in Int
               /\ s = {} => Sum(u, s) = 0
               /\ \A x \in s : Sum(u, s) = u[x] + Sum(u, s \ {x})
    BY SumOn
  <1>2. ASSUME NEW s \in SUBSET D, \A x \in s : s \ {x} \in F
        PROVE  s \in F
    <2> HIDE DEF Sum
    <2>1. CASE s = {}
      <3>1. Sum(g, s) = Sum(h, s)
        BY <1>1, <2>1
      <3> QED
        BY <3>1, CongRefl
    <2>2. CASE s # {}
      <3>1. PICK x \in s : TRUE
        BY <2>2
      <3> DEFINE r == s \ {x}
      <3>2. Sum(g, s) = g[x] + Sum(g, r) /\ Sum(h, s) = h[x] + Sum(h, r)
        BY <1>1
      <3>3. Cong(Sum(g, r), Sum(h, r))
        BY <1>2
      <3>4. Sum(g, r) \in Int /\ Sum(h, r) \in Int
        BY <1>1
      <3>5. g[x] \in Int /\ h[x] \in Int /\ Cong(g[x], h[x])
        OBVIOUS
      <3> HIDE DEF r
      <3>6. Cong(Sum(g, s), Sum(h, s))
        BY <3>2, <3>3, <3>4, <3>5, CongOps
      <3> QED
        BY <3>6
    <2> QED
      BY <2>1, <2>2
  <1>3. ClosedUp(D, F)
    <2> HIDE DEF F
    <2> QED
      BY <1>2 DEF ClosedUp
  <1>4. D \in F
    <2> HIDE DEF F
    <2> QED
      BY <1>3, SubsetInduction
  <1>5. Sum(g, D) = SumFunction(g) /\ Sum(h, D) = SumFunction(h)
    BY RestrictAll
  <1> QED
    BY <1>4, <1>5

\* A factor comes out of a sum.
LEMMA SumScale ==
  ASSUME NEW D, IsFiniteSet(D), NEW g \in [D -> Int], NEW a \in Int
  PROVE  SumFunction([i \in D |-> a * g[i]]) = a * SumFunction(g)
  <1>1. SumFunction([i \in D |-> (a * g[i]) + (0 * g[i])])
          = (a * SumFunction(g)) + (0 * SumFunction(g))
    BY SumLinear
  <1>2. [i \in D |-> (a * g[i]) + (0 * g[i])] = [i \in D |-> a * g[i]]
    <2>1. \A i \in D : (a * g[i]) + (0 * g[i]) = a * g[i]
      OBVIOUS
    <2> QED
      BY <2>1
  <1>3. SumFunction(g) \in Int
    BY SumSplit
  <1>4. (a * SumFunction(g)) + (0 * SumFunction(g)) = a * SumFunction(g)
    BY <1>3
  <1> QED
    BY <1>1, <1>2, <1>4

\* The sum of two functions.
LEMMA SumAdd ==
  ASSUME NEW D, IsFiniteSet(D), NEW g \in [D -> Int], NEW h \in [D -> Int]
  PROVE  SumFunction([i \in D |-> g[i] + h[i]])
           = SumFunction(g) + SumFunction(h)
  <1>1. SumFunction([i \in D |-> (1 * g[i]) + (1 * h[i])])
          = (1 * SumFunction(g)) + (1 * SumFunction(h))
    BY SumLinear
  <1>2. [i \in D |-> (1 * g[i]) + (1 * h[i])] = [i \in D |-> g[i] + h[i]]
    <2>1. \A i \in D : (1 * g[i]) + (1 * h[i]) = g[i] + h[i]
      OBVIOUS
    <2> QED
      BY <2>1
  <1>3. SumFunction(g) \in Int /\ SumFunction(h) \in Int
    BY SumSplit
  <1>4. (1 * SumFunction(g)) + (1 * SumFunction(h))
          = SumFunction(g) + SumFunction(h)
    BY <1>3
  <1> QED
    BY <1>1, <1>2, <1>4

-----------------------------------------------------------------------------
(* Lagrange coefficients.                                                  *)

\* The evaluation points: the party IDs, not 0 in the field.
Points == 1 .. (Q - 1)

\* The factor of j in the coefficient of i.
Factor(i, j) == ((-j) % Q) * ModInverse((i - j) % Q)

\* Sets of points are finite sets of integers.
LEMMA PointsFinite ==
  \A T \in SUBSET Points : IsFiniteSet(T) /\ T \subseteq Int
  <1>1. IsFiniteSet(Points)
    BY FS_Interval, QAssumption DEF Points
  <1>2. Points \subseteq Int
    BY QAssumption DEF Points
  <1> QED
    BY <1>1, <1>2, FS_Subset

\* Two points differ in the field.
LEMMA PointsDiffer ==
  ASSUME NEW i \in Points, NEW j \in Points, i # j
  PROVE  /\ i \in Int /\ j \in Int /\ i - j \in Int
         /\ (i - j) % Q # 0
  <1>1. i \in Int /\ j \in Int /\ i - j \in Int
    BY QAssumption DEF Points
  <1>2. ASSUME (i - j) % Q = 0
        PROVE  FALSE
    <2>1. PICK k \in Int : i - j = (k * Q) + ((i - j) % Q)
      BY <1>1, ModDecompose
    <2>2. i - j = k * Q
      BY <1>1, <1>2, <2>1, QAssumption
    <2>3. i - j < Q /\ i - j > -Q /\ i - j # 0
      BY QAssumption DEF Points
    <2>4. CASE k >= 1
      <3>1. k * Q >= Q
        BY <2>4, QAssumption
      <3> QED
        BY <2>2, <2>3, <3>1, QAssumption
    <2>5. CASE k <= -1
      <3>1. k * Q <= -Q
        BY <2>5, QAssumption
      <3> QED
        BY <2>2, <2>3, <3>1, QAssumption
    <2>6. CASE k = 0
      BY <2>2, <2>3, <2>6, QAssumption
    <2> QED
      BY <2>4, <2>5, <2>6
  <1> QED
    BY <1>1, <1>2

\* The factor of j is -j / (i - j).
LEMMA FactorType ==
  ASSUME NEW i \in Points, NEW j \in Points, i # j
  PROVE  Factor(i, j) \in Int /\ Cong(Factor(i, j) * (i - j), -j)
  <1> DEFINE e == (i - j) % Q
             v == ModInverse(e)
             n == (-j) % Q
  <1>1. i - j \in Int /\ -j \in Int /\ e # 0
    BY PointsDiffer
  <1>2. e \in Int /\ e % Q = e /\ Cong(i - j, e)
    BY <1>1, ModType, FieldMod, CongMod
  <1>3. n \in Int /\ Cong(n, -j)
    BY <1>1, ModType, CongMod
  <1>4. v \in Int /\ Cong(e * v, 1)
    <2> HIDE DEF e
    <2> QED
      BY <1>1, <1>2, ModInverseType
  <1>5. Factor(i, j) = n * v
    BY DEF Factor
  <1> HIDE DEF e, v, n
  <1> DEFINE c == i - j
             m == -j
  <1>6. c \in Int /\ m \in Int /\ Cong(c, e) /\ Cong(n, m)
    BY <1>1, <1>2, <1>3
  <1> HIDE DEF c, m
  <1>7. Cong(c * v, e * v)
    BY <1>2, <1>4, <1>6, CongScale
  <1>8. Cong(c * v, 1) /\ c * v \in Int /\ 1 \in Int
    BY <1>4, <1>6, <1>7, CongTrans
  <1>9. Cong(n * (c * v), m * 1)
    BY <1>3, <1>6, <1>8, CongOps
  <1>10. (n * v) * c = n * (c * v) /\ m * 1 = m /\ n * v \in Int
    BY <1>3, <1>4, <1>6
  <1>11. Cong((n * v) * c, m)
    BY <1>9, <1>10
  <1> QED
    BY <1>5, <1>10, <1>11 DEF c, m

\* The coefficients are field elements, products of factors.
LEMMA LambdaType ==
  ASSUME NEW T \in SUBSET Points
  PROVE  /\ LagrangeAtZero(T) \in [T -> Field]
         /\ \A i \in T : /\ LagrangeAtZero(T)[i] \in Int
                         /\ [j \in T \ {i} |-> Factor(i, j)] \in [T \ {i} -> Int]
                         /\ LagrangeAtZero(T)[i]
                              = FieldProduct([j \in T \ {i} |-> Factor(i, j)])
  <1>1. LagrangeAtZero(T)
          = [i \in T |-> FieldProduct([j \in T \ {i} |-> Factor(i, j)])]
    BY Zenon DEF LagrangeAtZero, Factor
  <1>2. ASSUME NEW i \in T
        PROVE  /\ FieldProduct([j \in T \ {i} |-> Factor(i, j)]) \in Field
               /\ [j \in T \ {i} |-> Factor(i, j)] \in [T \ {i} -> Int]
    <2>1. \A j \in T \ {i} : Factor(i, j) \in Int
      BY FactorType
    <2>2. [j \in T \ {i} |-> Factor(i, j)] \in [T \ {i} -> Int]
      BY <2>1
    <2>3. IsFiniteSet(T \ {i})
      BY PointsFinite, RemoveOne
    <2> QED
      BY <2>2, <2>3, ProductSplit
  <1>3. \A i \in T : FieldProduct([j \in T \ {i} |-> Factor(i, j)]) \in Field
    BY <1>2
  <1>4. LagrangeAtZero(T) \in [T -> Field]
    BY <1>1, <1>3
  <1>5. \A i \in T : LagrangeAtZero(T)[i]
                       = FieldProduct([j \in T \ {i} |-> Factor(i, j)])
    BY <1>1
  <1> QED
    BY <1>2, <1>4, <1>5, FieldMod

\* A party alone has the coefficient 1.
LEMMA LambdaOne ==
  ASSUME NEW a \in Points
  PROVE  LagrangeAtZero({a})[a] = 1
  <1> DEFINE D == {a} \ {a}
             g == [j \in D |-> Factor(a, j)]
  <1>1. D = {} /\ IsFiniteSet(D)
    BY FS_EmptySet
  <1>2. LagrangeAtZero({a})[a] = FieldProduct(g) /\ g \in [D -> Int]
    <2>1. {a} \in SUBSET Points /\ a \in {a}
      OBVIOUS
    <2> QED
      BY <2>1, LambdaType
  <1> HIDE DEF D, g
  <1> QED
    BY <1>1, <1>2, ProductSplit

\* How the coefficient of i changes when a leaves.
LEMMA LambdaStep ==
  ASSUME NEW T \in SUBSET Points, NEW a \in T, NEW i \in T \ {a}
  PROVE  Cong(LagrangeAtZero(T)[i] * (i - a),
              LagrangeAtZero(T \ {a})[i] * (-a))
  <1> DEFINE D == T \ {i}
             g == [j \in D |-> Factor(i, j)]
             p == LagrangeAtZero(T)[i]
             q == LagrangeAtZero(T \ {a})[i]
             f == Factor(i, a)
  <1>1. /\ i \in Int /\ a \in Int /\ i - a \in Int /\ -a \in Int
        /\ f \in Int /\ Cong(f * (i - a), -a)
    BY FactorType, PointsDiffer
  <1>2. T \ {a} \in SUBSET Points /\ i \in T \ {a} /\ i \in T
    OBVIOUS
  <1>3. p \in Int /\ p = FieldProduct(g) /\ g \in [D -> Int] /\ q \in Int
    BY <1>2, LambdaType
  <1>4. q = FieldProduct([j \in D \ {a} |-> g[j]])
    <2>1. (T \ {a}) \ {i} = D \ {a}
      OBVIOUS
    <2>2. [j \in D \ {a} |-> g[j]] = [j \in D \ {a} |-> Factor(i, j)]
      OBVIOUS
    <2>3. q = FieldProduct([j \in (T \ {a}) \ {i} |-> Factor(i, j)])
      BY <1>2, LambdaType
    <2> QED
      BY <2>1, <2>2, <2>3
  <1>5. g[a] = f /\ a \in D
    OBVIOUS
  <1>6. IsFiniteSet(D)
    BY PointsFinite, RemoveOne
  <1>7. p = (f * q) % Q
    <2> HIDE DEF D, g, p, q, f
    <2> QED
      BY <1>3, <1>4, <1>5, <1>6, ProductSplit
  <1> DEFINE c == i - a
             m == -a
  <1>8. c \in Int /\ m \in Int /\ Cong(f * c, m)
    BY <1>1
  <1> HIDE DEF D, g, p, q, f, c, m
  <1>9. f * q \in Int /\ Cong(p, f * q)
    BY <1>1, <1>3, <1>7, CongMod
  <1>10. Cong(p * c, (f * q) * c)
    BY <1>3, <1>8, <1>9, CongScale
  <1>11. (f * q) * c = q * (f * c) /\ f * c \in Int
    BY <1>1, <1>3, <1>8
  <1>12. Cong(q * (f * c), q * m)
    BY <1>3, <1>8, <1>11, CongScale
  <1>13. Cong(p * c, q * m)
    BY <1>10, <1>11, <1>12, CongTrans
  <1> QED
    BY <1>13 DEF p, q, c, m

-----------------------------------------------------------------------------
(* Interpolation at 0.                                                     *)

\* The combination of the values v with the coefficients of T.
Combine(T, v) == SumFunction([i \in T |-> LagrangeAtZero(T)[i] * v[i]])

\* A combination is a number.
LEMMA CombineType ==
  ASSUME NEW T \in SUBSET Points, NEW v \in [T -> Int]
  PROVE  /\ [i \in T |-> LagrangeAtZero(T)[i] * v[i]] \in [T -> Int]
         /\ Combine(T, v) \in Int
  <1>1. \A i \in T : LagrangeAtZero(T)[i] \in Int
    BY LambdaType
  <1>2. [i \in T |-> LagrangeAtZero(T)[i] * v[i]] \in [T -> Int]
    BY <1>1
  <1>3. IsFiniteSet(T)
    BY PointsFinite
  <1> QED
    BY <1>2, <1>3, SumSplit DEF Combine

\* The combination of a linear combination.
LEMMA CombineLinear ==
  ASSUME NEW T \in SUBSET Points, NEW u \in [T -> Int], NEW v \in [T -> Int],
         NEW a \in Int, NEW b \in Int
  PROVE  Combine(T, [i \in T |-> (a * u[i]) + (b * v[i])])
           = (a * Combine(T, u)) + (b * Combine(T, v))
  <1> DEFINE L == LagrangeAtZero(T)
             g == [i \in T |-> L[i] * u[i]]
             h == [i \in T |-> L[i] * v[i]]
             w == [i \in T |-> (a * u[i]) + (b * v[i])]
  <1>1. \A i \in T : L[i] \in Int
    BY LambdaType
  <1>2. g \in [T -> Int] /\ h \in [T -> Int] /\ IsFiniteSet(T)
    BY CombineType, PointsFinite
  <1>3. ASSUME NEW i \in T
        PROVE  L[i] * w[i] = (a * g[i]) + (b * h[i])
    <2>1. L[i] \in Int /\ u[i] \in Int /\ v[i] \in Int
      BY <1>1
    <2>2. w[i] = (a * u[i]) + (b * v[i]) /\ g[i] = L[i] * u[i]
            /\ h[i] = L[i] * v[i]
      OBVIOUS
    <2> HIDE DEF L, g, h, w
    <2> QED
      BY <2>1, <2>2
  <1>4. [i \in T |-> L[i] * w[i]] = [i \in T |-> (a * g[i]) + (b * h[i])]
    <2> HIDE DEF L, g, h, w
    <2> QED
      BY <1>3
  <1>5. Combine(T, w) = SumFunction([i \in T |-> (a * g[i]) + (b * h[i])])
    <2>1. Combine(T, w) = SumFunction([i \in T |-> L[i] * w[i]])
      BY DEF Combine
    <2> HIDE DEF L, g, h, w
    <2> QED
      BY <1>4, <2>1
  <1>6. SumFunction([i \in T |-> (a * g[i]) + (b * h[i])])
          = (a * SumFunction(g)) + (b * SumFunction(h))
    <2> HIDE DEF g, h
    <2> QED
      BY <1>2, SumLinear
  <1>7. SumFunction(g) = Combine(T, u) /\ SumFunction(h) = Combine(T, v)
    BY DEF Combine
  <1>8. Combine(T, w) = (a * Combine(T, u)) + (b * Combine(T, v))
    BY <1>5, <1>6, <1>7
  <1> QED
    BY <1>8

\* Combinations of values equal in the field are equal in the field.
LEMMA CombineCong ==
  ASSUME NEW T \in SUBSET Points, NEW u \in [T -> Int], NEW v \in [T -> Int],
         \A i \in T : Cong(u[i], v[i])
  PROVE  Cong(Combine(T, u), Combine(T, v))
  <1> DEFINE L == LagrangeAtZero(T)
             g == [i \in T |-> L[i] * u[i]]
             h == [i \in T |-> L[i] * v[i]]
  <1>1. \A i \in T : L[i] \in Int
    BY LambdaType
  <1>2. g \in [T -> Int] /\ h \in [T -> Int] /\ IsFiniteSet(T)
    BY CombineType, PointsFinite
  <1>3. \A i \in T : Cong(g[i], h[i])
    BY <1>1, CongScale
  <1>4. Combine(T, u) = SumFunction(g) /\ Combine(T, v) = SumFunction(h)
    BY DEF Combine
  <1> HIDE DEF g, h
  <1> QED
    BY <1>2, <1>3, <1>4, SumCong

\* Values that vanish at a combine without a.
LEMMA CombineStep ==
  ASSUME NEW T \in SUBSET Points, NEW a \in T, NEW v \in [T -> Int]
  PROVE  Cong(Combine(T, [i \in T |-> (i - a) * v[i]]),
              (-a) * Combine(T \ {a}, [i \in T \ {a} |-> v[i]]))
  <1> DEFINE U == T \ {a}
             L == LagrangeAtZero(T)
             M == LagrangeAtZero(U)
             w == [i \in T |-> (i - a) * v[i]]
             g == [i \in T |-> L[i] * w[i]]
             gU == [i \in U |-> g[i]]
             x == [i \in U |-> v[i]]
             k == [i \in U |-> M[i] * x[i]]
             h == [i \in U |-> (-a) * k[i]]
  <1>1. U \in SUBSET Points /\ IsFiniteSet(U) /\ IsFiniteSet(T) /\ T \subseteq Int
    BY PointsFinite
  <1>2. a \in Int /\ -a \in Int
    BY <1>1
  <1>3. w \in [T -> Int] /\ x \in [U -> Int]
    BY <1>1
  <1>4. g \in [T -> Int] /\ k \in [U -> Int]
    <2> HIDE DEF w, U, x
    <2> QED
      BY <1>1, <1>3, CombineType
  <1>5. Combine(T, w) = SumFunction(g)
    BY DEF Combine
  <1>6. Combine(U, x) = SumFunction(k)
    BY DEF Combine
  <1>7. gU \in [U -> Int] /\ h \in [U -> Int]
    <2> HIDE DEF g, k
    <2> QED
      BY <1>2, <1>4
  <1>8. SumFunction(g) = g[a] + SumFunction(gU)
    <2> HIDE DEF g
    <2>1. \A b \in T :
            SumFunction(g) = g[b] + SumFunction([i \in T \ {b} |-> g[i]])
      BY <1>1, <1>4, SumSplit
    <2> QED
      BY <2>1
  <1>9. g[a] = 0
    <2>1. w[a] = 0
      <3>1. w[a] = (a - a) * v[a] /\ v[a] \in Int
        OBVIOUS
      <3> HIDE DEF w
      <3> QED
        BY <1>2, <3>1
    <2>2. L[a] \in Int
      BY LambdaType
    <2>3. g[a] = L[a] * w[a]
      OBVIOUS
    <2> HIDE DEF w, g, L
    <2> QED
      BY <2>1, <2>2, <2>3
  <1>10. ASSUME NEW i \in U
         PROVE  Cong(gU[i], h[i])
    <2>1. gU[i] = L[i] * ((i - a) * v[i]) /\ h[i] = (-a) * (M[i] * v[i])
      OBVIOUS
    <2>2. Cong(L[i] * (i - a), M[i] * (-a))
      BY LambdaStep
    <2>3. L[i] \in Int /\ M[i] \in Int /\ v[i] \in Int /\ i \in Int
      BY <1>1, LambdaType
    <2> DEFINE c == i - a
               m == -a
               l == L[i]
               n == M[i]
               y == v[i]
    <2>4. /\ c \in Int /\ m \in Int /\ l \in Int /\ n \in Int /\ y \in Int
          /\ Cong(l * c, n * m) /\ gU[i] = l * (c * y) /\ h[i] = m * (n * y)
      BY <1>2, <2>1, <2>2, <2>3
    <2> HIDE DEF c, m, l, n, y, gU, h
    <2>5. l * c \in Int /\ n * m \in Int
            /\ l * (c * y) = (l * c) * y /\ m * (n * y) = (n * m) * y
      BY <2>4
    <2> QED
      BY <2>4, <2>5, CongScale
  <1>11. Cong(SumFunction(gU), SumFunction(h))
    <2> HIDE DEF gU, h, U
    <2> QED
      BY <1>1, <1>7, <1>10, SumCong
  <1>12. SumFunction(h) = (-a) * SumFunction(k)
    <2> DEFINE m == -a
    <2>1. m \in Int
      BY <1>2
    <2> HIDE DEF k, U, m
    <2>2. SumFunction([i \in U |-> m * k[i]]) = m * SumFunction(k)
      BY <1>1, <1>4, <2>1, SumScale
    <2> QED
      BY <2>2 DEF m
  <1>13. SumFunction(gU) \in Int
    <2> HIDE DEF gU, U
    <2> QED
      BY <1>1, <1>7, SumSplit
  <1>14. Cong(Combine(T, w), (-a) * Combine(U, x))
    <2> HIDE DEF g, gU, h, k, w, U, x
    <2>1. SumFunction(g) = SumFunction(gU)
      BY <1>8, <1>9, <1>13
    <2> QED
      BY <1>5, <1>6, <1>11, <1>12, <2>1
  <1> QED
    BY <1>14

\* The coefficients of a nonempty set sum to 1.
LEMMA LambdaSum ==
  ASSUME NEW T \in SUBSET Points, T # {}
  PROVE  Cong(Combine(T, [i \in T |-> 1]), 1)
  <1> DEFINE One(S) == [i \in S |-> 1]
             F == {S \in SUBSET Points : S # {} => Cong(Combine(S, One(S)), 1)}
  <1>0. \A S \in SUBSET Points : One(S) \in [S -> Int]
    OBVIOUS
  <1>1. ASSUME NEW S \in SUBSET Points, \A x \in S : S \ {x} \in F,
               NEW a \in S
        PROVE  Cong(Combine(S, One(S)), 1)
    <2> DEFINE s == Combine(S, One(S))
               id == [i \in S |-> i]
               p == Combine(S, id)
               Less(c) == [i \in S |-> (i - c) * One(S)[i]]
    <2>0. S \subseteq Int /\ a \in Int /\ id \in [S -> Int]
      BY PointsFinite
    <2>1. s \in Int /\ p \in Int
      BY <1>0, <2>0, CombineType
    <2>2. CASE S = {a}
      <3> DEFINE g == [i \in S |-> LagrangeAtZero(S)[i] * One(S)[i]]
      <3>1. g \in [S -> Int] /\ s = SumFunction(g) /\ IsFiniteSet(S)
        <4>1. s = SumFunction(g) /\ IsFiniteSet(S)
          BY PointsFinite DEF Combine
        <4>2. g \in [S -> Int]
          <5> HIDE DEF One
          <5> QED
            BY <1>0, CombineType
        <4> QED
          BY <4>1, <4>2
      <3>2. g[a] = 1
        BY <2>2, LambdaOne
      <3>3. SumFunction(g) = g[a] + SumFunction([i \in S \ {a} |-> g[i]])
        <4> HIDE DEF g
        <4> QED
          BY <3>1, SumSplit
      <3>4. SumFunction([i \in S \ {a} |-> g[i]]) = 0
        <4> DEFINE E == S \ {a}
                   e == [i \in E |-> g[i]]
        <4>1. E = {} /\ IsFiniteSet(E) /\ e \in [E -> Int]
          BY <2>2, FS_EmptySet
        <4> HIDE DEF E, e
        <4>2. SumFunction(e) = 0
          BY <4>1, SumSplit
        <4> QED
          BY <4>2 DEF e, E
      <3>5. s = 1
        <4> HIDE DEF g, s
        <4> QED
          BY <3>1, <3>2, <3>3, <3>4
      <3> QED
        BY <3>5, CongRefl
    <2>3. CASE S # {a}
      <3>1. PICK b \in S : b # a
        BY <2>3
      <3>2. ASSUME NEW c \in S, S \ {c} # {}
            PROVE  Cong(p - (c * s), -c)
        <4> DEFINE U == S \ {c}
                   r == Combine(U, One(U))
                   x == [i \in U |-> One(S)[i]]
        <4>1. c \in Int /\ -c \in Int /\ U \in SUBSET Points
          BY <2>0
        <4>2. x = One(U)
          OBVIOUS
        <4>3. Cong(Combine(S, Less(c)), (-c) * r)
          <5>1. Cong(Combine(S, Less(c)), (-c) * Combine(U, x))
            <6> HIDE DEF One
            <6> QED
              BY <1>0, CombineStep
          <5> QED
            BY <4>2, <5>1
        <4>4. r \in Int /\ Cong(r, 1)
          <5>1. U \in F /\ U # {}
            BY <1>1, <3>2
          <5> HIDE DEF One, U
          <5> QED
            BY <1>0, <4>1, <5>1, CombineType
        <4>5. Combine(S, Less(c)) = p - (c * s)
          <5> DEFINE m == -c
                     w == [i \in S |-> (1 * id[i]) + (m * One(S)[i])]
          <5>1. m \in Int /\ 1 \in Int
            BY <4>1
          <5>2. Combine(S, w) = (1 * p) + (m * s)
            <6> HIDE DEF id, One, m
            <6> QED
              BY <1>0, <2>0, <5>1, CombineLinear
          <5>3. w = Less(c)
            <6>1. \A i \in S : (1 * id[i]) + (m * One(S)[i]) = (i - c) * One(S)[i]
              <7>1. \A i \in S : id[i] = i /\ One(S)[i] = 1 /\ i \in Int
                BY <2>0
              <7> HIDE DEF id, One
              <7> QED
                BY <4>1, <7>1
            <6> HIDE DEF id, One, m
            <6> QED
              BY <6>1
          <5>4. (1 * p) + (m * s) = p - (c * s)
            <6> HIDE DEF p, s
            <6> QED
              BY <2>1, <4>1
          <5> QED
            BY <5>2, <5>3, <5>4
        <4> HIDE DEF p, s, r, Less
        <4>6. Cong((-c) * r, (-c) * 1)
          <5> DEFINE m == -c
          <5>1. m \in Int /\ 1 \in Int
            BY <4>1
          <5> HIDE DEF m
          <5>2. Cong(m * r, m * 1)
            BY <4>4, <5>1, CongScale
          <5> QED
            BY <5>2 DEF m
        <4>7. (-c) * 1 = -c
          BY <4>1
        <4> QED
          BY <4>3, <4>5, <4>6, <4>7, CongTrans
      <3>3. Cong(p - (a * s), -a) /\ Cong(p - (b * s), -b)
        <4>1. S \ {a} # {} /\ S \ {b} # {}
          BY <3>1
        <4> QED
          BY <3>2, <4>1
      <3>4. b \in Int /\ b \in Points /\ a \in Points
        BY <2>0
      <3> HIDE DEF p, s
      <3>5. p - (a * s) \in Int /\ p - (b * s) \in Int /\ -a \in Int /\ -b \in Int
        BY <2>0, <2>1, <3>4
      <3>6. Cong((p - (a * s)) - (p - (b * s)), (-a) - (-b))
        BY <3>3, <3>5, CongOps
      <3>7. /\ (p - (a * s)) - (p - (b * s)) = (b - a) * s
            /\ (-a) - (-b) = (b - a) * 1
        BY <2>0, <2>1, <3>4
      <3>8. b - a \in Int /\ (b - a) % Q # 0 /\ 1 \in Int
        BY <3>1, <3>4, PointsDiffer
      <3>9. Cong(s, 1)
        <4> DEFINE e == b - a
        <4>1. Cong(e * s, e * 1)
          BY <3>6, <3>7
        <4>2. e \in Int /\ e % Q # 0 /\ 1 \in Int
          BY <3>8
        <4> HIDE DEF e
        <4> QED
          BY <2>1, <4>1, <4>2, CongCancel
      <3> QED
        BY <3>9 DEF s
    <2> QED
      BY <2>2, <2>3
  <1>2. ClosedUp(Points, F)
    <2> HIDE DEF One
    <2> QED
      BY <1>1 DEF ClosedUp
  <1>3. T \in F
    <2>1. IsFiniteSet(Points)
      BY PointsFinite
    <2> HIDE DEF F
    <2> QED
      BY <1>2, <2>1, SubsetInduction
  <1> QED
    BY <1>3

\* Equal values combine to that value.
LEMMA CombineConst ==
  ASSUME NEW T \in SUBSET Points, T # {}, NEW c \in Int
  PROVE  Cong(Combine(T, [i \in T |-> c]), c)
  <1> DEFINE one == [i \in T |-> 1]
             s == Combine(T, one)
             w == [i \in T |-> (c * one[i]) + (0 * one[i])]
  <1>1. one \in [T -> Int] /\ 0 \in Int
    OBVIOUS
  <1>2. w = [i \in T |-> c]
    <2>1. \A i \in T : (c * one[i]) + (0 * one[i]) = c
      OBVIOUS
    <2> QED
      BY <2>1
  <1>3. Cong(s, 1)
    BY LambdaSum
  <1> HIDE DEF one
  <1>4. Combine(T, w) = (c * s) + (0 * s)
    BY <1>1, CombineLinear
  <1>5. s \in Int
    BY <1>1, CombineType
  <1> HIDE DEF s, w
  <1>6. (c * s) + (0 * s) = c * s /\ c * 1 = c /\ 1 \in Int
    BY <1>5
  <1>7. Cong(c * s, c * 1)
    BY <1>3, <1>5, <1>6, CongScale
  <1>8. Cong(Combine(T, w), c)
    BY <1>4, <1>6, <1>7
  <1> QED
    BY <1>2, <1>8

\* H[i] are the intermediate results of Horner's rule for f at the point i.
HornerTable(f, t, H) ==
  /\ H \in [Points -> [0 .. (t - 1) -> Int]]
  /\ \A i \in Points :
       /\ H[i][t - 1] = f[t - 1]
       /\ \A d \in 0 .. (t - 1) :
            d # t - 1 => Cong(H[i][d], (H[i][d + 1] * i) + f[d])

\* One step of Horner's rule, combined.
LEMMA InterpolateStep ==
  ASSUME NEW T \in SUBSET Points, NEW a \in T, T \ {a} # {},
         NEW u \in [T -> Int], NEW y \in [T -> Int],
         NEW b \in Int, NEW c \in Int,
         \A i \in T : Cong(y[i], (u[i] * i) + c),
         Cong(Combine(T, u), b),
         Cong(Combine(T \ {a}, [i \in T \ {a} |-> u[i]]), b)
  PROVE  Cong(Combine(T, y), c)
  <1> DEFINE U == T \ {a}
             one == [i \in T |-> c]
             z == [i \in T |-> (i - a) * u[i]]
             w == [i \in T |-> (1 * z[i]) + (a * u[i])]
             x == [i \in T |-> (1 * w[i]) + (1 * one[i])]
             p == Combine(T, z)
             q == Combine(T, u)
             r == Combine(U, [i \in U |-> u[i]])
  <1>0. T \subseteq Int /\ a \in Int /\ 1 \in Int /\ U \in SUBSET Points
    <2>1. T \subseteq Int
      BY PointsFinite
    <2>2. U \in SUBSET Points
      OBVIOUS
    <2> QED
      BY <2>1, <2>2
  <1>1. z \in [T -> Int] /\ w \in [T -> Int] /\ one \in [T -> Int]
    BY <1>0
  <1>2. x \in [T -> Int] /\ \A i \in T : x[i] = (u[i] * i) + c
    <2>1. \A i \in T : u[i] \in Int /\ i \in Int /\ z[i] = (i - a) * u[i]
                         /\ w[i] = (1 * z[i]) + (a * u[i]) /\ one[i] = c
                         /\ x[i] = (1 * w[i]) + (1 * one[i])
      BY <1>0
    <2>2. \A i \in T : x[i] = (u[i] * i) + c
      <3> HIDE DEF x, w, z, one
      <3> QED
        BY <1>0, <2>1
    <2>3. \A i \in T : x[i] \in Int
      BY <2>1, <2>2
    <2> QED
      BY <2>2, <2>3
  <1>3. \A i \in T : Cong(y[i], x[i])
    <2> HIDE DEF x
    <2> QED
      BY <1>2
  <1>4. Cong(Combine(T, y), Combine(T, x))
    <2> HIDE DEF x
    <2> QED
      BY <1>2, <1>3, CombineCong
  <1>5. p \in Int /\ q \in Int /\ r \in Int
    <2>1. [i \in U |-> u[i]] \in [U -> Int]
      OBVIOUS
    <2> HIDE DEF z, U
    <2> QED
      BY <1>0, <1>1, <2>1, CombineType
  <1>6. Cong(p, (-a) * r)
    BY CombineStep
  <1>7. Combine(T, w) = (1 * p) + (a * q)
    <2> HIDE DEF z
    <2> QED
      BY <1>0, <1>1, CombineLinear
  <1>8. Combine(T, x) = (1 * Combine(T, w)) + (1 * Combine(T, one))
    <2> HIDE DEF w, one
    <2> QED
      BY <1>0, <1>1, CombineLinear
  <1>9. Cong(Combine(T, one), c) /\ Combine(T, one) \in Int
    <2>1. Cong(Combine(T, one), c)
      BY CombineConst
    <2> HIDE DEF one
    <2> QED
      BY <1>1, <2>1, CombineType
  <1> DEFINE m == -a
             o == Combine(T, one)
  <1>10. /\ p \in Int /\ q \in Int /\ r \in Int /\ m \in Int /\ o \in Int
         /\ Cong(p, m * r) /\ Cong(q, b) /\ Cong(r, b) /\ Cong(o, c)
         /\ Combine(T, x) = (1 * ((1 * p) + (a * q))) + (1 * o)
    BY <1>0, <1>5, <1>6, <1>7, <1>8, <1>9
  <1> DEFINE e == Combine(T, x)
  <1>11. e = (p + (a * q)) + o /\ m * b = -(a * b)
    <2>1. e = (1 * ((1 * p) + (a * q))) + (1 * o)
      BY <1>10
    <2> HIDE DEF p, q, r, o, e
    <2> QED
      BY <1>0, <1>10, <2>1
  <1> HIDE DEF p, q, r, o, e, m
  <1>12. m * r \in Int /\ m * b \in Int /\ a * q \in Int /\ a * b \in Int
           /\ p + (a * q) \in Int
    BY <1>0, <1>10
  <1>13. Cong(p, m * b)
    <2>1. Cong(m * r, m * b)
      BY <1>10, CongScale
    <2> QED
      BY <1>10, <2>1, CongTrans
  <1>14. Cong(a * q, a * b)
    BY <1>0, <1>10, CongScale
  <1>15. Cong(p + (a * q), (m * b) + (a * b))
    BY <1>10, <1>12, <1>13, <1>14, CongOps
  <1>16. (m * b) + (a * b) = 0 /\ 0 \in Int /\ 0 + c = c
    BY <1>11, <1>12
  <1>17. Cong((p + (a * q)) + o, 0 + c)
    BY <1>10, <1>12, <1>15, <1>16, CongOps
  <1>18. Cong(e, c)
    BY <1>11, <1>16, <1>17
  <1> QED
    BY <1>4, <1>18, CongTrans DEF e

\* Taking a point from a set of more than n + 1.
LEMMA RemovePoint ==
  ASSUME NEW R \in SUBSET Points, NEW n \in Nat, Cardinality(R) > n + 1
  PROVE  /\ R # {} /\ Cardinality(R) > n
         /\ \A a \in R : /\ R \ {a} \in SUBSET Points
                         /\ Cardinality(R \ {a}) > n
                         /\ R \ {a} # {}
  <1>1. IsFiniteSet(R) /\ Cardinality(R) \in Nat
    BY PointsFinite, FS_CardinalityType
  <1>2. R # {}
    BY <1>1, FS_EmptySet
  <1>3. ASSUME NEW a \in R
        PROVE  /\ R \ {a} \in SUBSET Points
               /\ Cardinality(R \ {a}) > n
               /\ R \ {a} # {}
    <2>1. Cardinality(R \ {a}) = Cardinality(R) - 1 /\ IsFiniteSet(R \ {a})
      BY <1>1, RemoveOne
    <2>2. Cardinality(R \ {a}) > n /\ Cardinality(R \ {a}) # 0
      BY <1>1, <2>1
    <2>3. R \ {a} # {}
      BY <2>1, <2>2, FS_EmptySet
    <2> QED
      BY <2>2, <2>3
  <1> QED
    BY <1>1, <1>2, <1>3

\* Interpolation at 0 of the values of a polynomial of degree below t at t or
\* more points is its constant term.
LEMMA Interpolate ==
  ASSUME NEW t \in Nat \ {0}, NEW f \in [0 .. (t - 1) -> Int], NEW H,
         HornerTable(f, t, H), NEW T \in SUBSET Points, Cardinality(T) >= t
  PROVE  Cong(Combine(T, [i \in T |-> H[i][0]]), f[0])
  <1> DEFINE Row(R, d) == [i \in R |-> H[i][d]]
             Good(n) == \A R \in SUBSET Points :
                          Cardinality(R) > n =>
                            Cong(Combine(R, Row(R, (t - 1) - n)), f[(t - 1) - n])
             S == {n \in Nat : n < t => Good(n)}
  <1>0. \A R \in SUBSET Points, d \in 0 .. (t - 1) :
          Row(R, d) \in [R -> Int] /\ \A i \in R : Row(R, d)[i] = H[i][d]
    BY DEF HornerTable
  <1>1. 0 \in S
    <2> SUFFICES ASSUME NEW R \in SUBSET Points, Cardinality(R) > 0
                 PROVE  Cong(Combine(R, Row(R, (t - 1) - 0)), f[(t - 1) - 0])
      OBVIOUS
    <2>1. (t - 1) - 0 = t - 1 /\ f[t - 1] \in Int
      OBVIOUS
    <2>2. Row(R, t - 1) = [i \in R |-> f[t - 1]]
      BY DEF HornerTable
    <2>3. R # {}
      BY FS_EmptySet
    <2>4. Cong(Combine(R, [i \in R |-> f[t - 1]]), f[t - 1])
      BY <2>1, <2>3, CombineConst
    <2> QED
      BY <2>1, <2>2, <2>4
  <1>2. ASSUME NEW n \in Nat, n \in S
        PROVE  n + 1 \in S
    <2> SUFFICES ASSUME n + 1 < t, NEW R \in SUBSET Points,
                        Cardinality(R) > n + 1
                 PROVE  Cong(Combine(R, Row(R, (t - 1) - (n + 1))),
                             f[(t - 1) - (n + 1)])
      OBVIOUS
    <2> DEFINE d == (t - 1) - (n + 1)
    <2>1. /\ d \in 0 .. (t - 1) /\ d + 1 \in 0 .. (t - 1) /\ d # t - 1
          /\ (t - 1) - n = d + 1
      OBVIOUS
    <2>2. Good(n)
      BY <1>2
    <2>3. /\ R # {} /\ Cardinality(R) > n
          /\ \A a \in R : /\ R \ {a} \in SUBSET Points
                          /\ Cardinality(R \ {a}) > n
                          /\ R \ {a} # {}
      BY RemovePoint
    <2>4. PICK a \in R : TRUE
      BY <2>3
    <2> DEFINE U == R \ {a}
               u == Row(R, d + 1)
    <2>5. U \in SUBSET Points /\ Cardinality(U) > n /\ Cardinality(R) > n
      BY <2>3
    <2>6. U # {}
      BY <2>3
    <2>7. Cong(Combine(R, u), f[d + 1]) /\ Cong(Combine(U, Row(U, d + 1)), f[d + 1])
      BY <2>1, <2>2, <2>5
    <2>8. Row(U, d + 1) = [i \in U |-> u[i]]
      BY <1>0
    <2>9. u \in [R -> Int] /\ Row(R, d) \in [R -> Int]
            /\ f[d] \in Int /\ f[d + 1] \in Int
      <3> HIDE DEF d, Row
      <3> QED
        BY <1>0, <2>1
    <2>10. \A i \in R : Cong(Row(R, d)[i], (u[i] * i) + f[d])
      <3>1. \A i \in R : Row(R, d)[i] = H[i][d] /\ u[i] = H[i][d + 1]
        OBVIOUS
      <3> HIDE DEF d, Row, u
      <3> QED
        BY <2>1, <3>1 DEF HornerTable
    <2> HIDE DEF d, Row, u
    <2>11. Cong(Combine(R, Row(R, d)), f[d])
      BY <2>6, <2>7, <2>8, <2>9, <2>10, InterpolateStep
    <2> QED
      BY <2>11 DEF d
  <1>3. t - 1 \in S
    <2>1. Nat \subseteq S
      <3> HIDE DEF S
      <3> QED
        BY <1>1, <1>2, NatSetInduction
    <2> HIDE DEF S
    <2> QED
      BY <2>1
  <1>4. (t - 1) - (t - 1) = 0 /\ t - 1 < t /\ Cardinality(T) > t - 1
    BY PointsFinite, FS_CardinalityType
  <1>5. Good(t - 1)
    BY <1>3, <1>4
  <1>6. Cong(Combine(T, Row(T, (t - 1) - (t - 1))), f[(t - 1) - (t - 1)])
    <2> HIDE DEF Row
    <2> QED
      BY <1>4, <1>5
  <1> QED
    BY <1>4, <1>6

-----------------------------------------------------------------------------
(* Evaluation by Horner's rule.                                            *)

\* Induction from t-1 down to 0.
LEMMA DownInduction ==
  ASSUME NEW t \in Nat \ {0}, NEW S, t - 1 \in S,
         \A d \in 0 .. (t - 1) : d # t - 1 /\ d + 1 \in S => d \in S
  PROVE  0 .. (t - 1) \subseteq S
  <1> DEFINE N == {n \in Nat : n < t => (t - 1) - n \in S}
  <1>1. 0 \in N
    OBVIOUS
  <1>2. ASSUME NEW n \in Nat, n \in N
        PROVE  n + 1 \in N
    <2> SUFFICES ASSUME n + 1 < t
                 PROVE  (t - 1) - (n + 1) \in S
      OBVIOUS
    <2> DEFINE d == (t - 1) - (n + 1)
    <2>1. d \in 0 .. (t - 1) /\ d # t - 1 /\ d + 1 = (t - 1) - n /\ n < t
      OBVIOUS
    <2>2. d + 1 \in S
      BY <1>2, <2>1
    <2> QED
      BY <2>1, <2>2
  <1>3. Nat \subseteq N
    <2> HIDE DEF N
    <2> QED
      BY <1>1, <1>2, NatSetInduction
  <1>4. ASSUME NEW d \in 0 .. (t - 1)
        PROVE  d \in S
    <2> DEFINE n == (t - 1) - d
    <2>1. n \in Nat /\ n < t /\ (t - 1) - n = d
      OBVIOUS
    <2> HIDE DEF n
    <2>2. n \in N
      BY <1>3, <2>1
    <2> QED
      BY <2>1, <2>2
  <1> QED
    BY <1>4

\* The recursive definition in EvaluateAt.
HornerBody(f, t, x, a, d) ==
  IF d = t - 1 THEN f[d] ELSE ((a[d + 1] * x) + f[d]) % Q

\* The intermediate results of EvaluateAt.
Horner(f, t, x) ==
  CHOOSE a : a = [d \in 0 .. (t - 1) |-> HornerBody(f, t, x, a, d)]

\* The polynomials of degree below t.
Poly(t) == [0 .. (t - 1) -> Field]

\* EvaluateAt returns the last result.
LEMMA EvaluateHorner ==
  ASSUME NEW f, NEW t, NEW x
  PROVE  EvaluateAt(f, t, x) = Horner(f, t, x)[0]
  BY Zenon DEF EvaluateAt, Horner, HornerBody

\* The recursive definition has a solution.
LEMMA HornerExists ==
  ASSUME NEW t \in Nat \ {0}, NEW f \in Poly(t), NEW x \in Int
  PROVE  \E a : a = [d \in 0 .. (t - 1) |-> HornerBody(f, t, x, a, d)]
  <1> DEFINE I == 0 .. (t - 1)
             Upto(c) == \E a \in [I -> Int] :
                          \A d \in I : d >= c => a[d] = HornerBody(f, t, x, a, d)
             S == {c \in I : Upto(c)}
  <1>0. \A d \in I : f[d] \in Int
    BY FieldMod DEF Poly
  <1>1. t - 1 \in S
    <2> DEFINE a == [d \in I |-> f[d]]
    <2>1. a \in [I -> Int]
      BY <1>0
    <2>2. \A d \in I : d >= t - 1 => a[d] = HornerBody(f, t, x, a, d)
      BY DEF HornerBody
    <2>3. t - 1 \in I
      OBVIOUS
    <2> HIDE DEF a
    <2> QED
      BY <2>1, <2>2, <2>3
  <1>2. ASSUME NEW c \in I, c # t - 1, c + 1 \in S
        PROVE  c \in S
    <2>1. PICK b \in [I -> Int] :
            \A d \in I : d >= c + 1 => b[d] = HornerBody(f, t, x, b, d)
      BY <1>2
    <2> DEFINE a == [d \in I |-> IF d = c THEN ((b[c + 1] * x) + f[c]) % Q
                                 ELSE b[d]]
    <2>2. c + 1 \in I /\ b[c + 1] \in Int /\ f[c] \in Int
      BY <1>0, <1>2
    <2>3. ((b[c + 1] * x) + f[c]) % Q \in Int
      BY <2>2, AffineType
    <2>4. a \in [I -> Int]
      BY <2>3
    <2>5. \A d \in I : d >= c => a[d] = HornerBody(f, t, x, a, d)
      <3> SUFFICES ASSUME NEW d \in I, d >= c
                   PROVE  a[d] = HornerBody(f, t, x, a, d)
        OBVIOUS
      <3>1. CASE d = c
        <4>1. a[c + 1] = b[c + 1]
          BY <2>2
        <4>2. a[c] = ((b[c + 1] * x) + f[c]) % Q
          OBVIOUS
        <4> QED
          BY <1>2, <3>1, <4>1, <4>2 DEF HornerBody
      <3>2. CASE d # c
        <4>1. d >= c + 1 /\ a[d] = b[d]
          BY <3>2
        <4>2. b[d] = HornerBody(f, t, x, b, d)
          BY <2>1, <4>1
        <4>3. d # t - 1 => a[d + 1] = b[d + 1]
          BY <4>1
        <4> QED
          BY <4>1, <4>2, <4>3 DEF HornerBody
      <3> QED
        BY <3>1, <3>2
    <2>6. Upto(c)
      <3> HIDE DEF a
      <3> QED
        BY <2>4, <2>5
    <2> QED
      BY <2>6
  <1>3. 0 \in S
    <2> HIDE DEF S
    <2>1. I \subseteq S
      BY <1>1, <1>2, DownInduction
    <2> QED
      BY <2>1
  <1>4. PICK a \in [I -> Int] :
          \A d \in I : d >= 0 => a[d] = HornerBody(f, t, x, a, d)
    BY <1>3
  <1>5. \A d \in I : a[d] = HornerBody(f, t, x, a, d)
    BY <1>4
  <1>6. a = [d \in I |-> HornerBody(f, t, x, a, d)]
    BY <1>5
  <1> QED
    BY <1>6

\* What the intermediate results are.
LEMMA HornerType ==
  ASSUME NEW t \in Nat \ {0}, NEW f \in Poly(t), NEW x \in Int
  PROVE  /\ Horner(f, t, x) \in Poly(t)
         /\ Horner(f, t, x)[t - 1] = f[t - 1]
         /\ \A d \in 0 .. (t - 1) :
              d # t - 1 => Horner(f, t, x)[d]
                             = ((Horner(f, t, x)[d + 1] * x) + f[d]) % Q
  <1> DEFINE a == Horner(f, t, x)
             I == 0 .. (t - 1)
  <1>1. a = [d \in I |-> HornerBody(f, t, x, a, d)]
    BY HornerExists DEF Horner
  <1> HIDE DEF a
  <1>2. \A d \in I : a[d] = HornerBody(f, t, x, a, d)
    BY <1>1
  <1>3. t - 1 \in I
    OBVIOUS
  <1>4. a[t - 1] = f[t - 1]
    BY <1>2, <1>3 DEF HornerBody
  <1>5. \A d \in I : d # t - 1 => a[d] = ((a[d + 1] * x) + f[d]) % Q
    BY <1>2 DEF HornerBody
  <1> DEFINE S == {d \in I : a[d] \in Field}
  <1>6. t - 1 \in S
    BY <1>3, <1>4 DEF Poly
  <1>7. \A d \in I : d # t - 1 /\ d + 1 \in S => d \in S
    <2> SUFFICES ASSUME NEW d \in I, d # t - 1, d + 1 \in S
                 PROVE  a[d] \in Field
      OBVIOUS
    <2>1. a[d + 1] \in Int /\ f[d] \in Int
      BY FieldMod DEF Poly
    <2>2. (a[d + 1] * x) + f[d] \in Int
      BY <2>1
    <2> QED
      BY <1>5, <2>2, ModType
  <1>8. I \subseteq S
    <2> HIDE DEF S
    <2> QED
      BY <1>6, <1>7, DownInduction
  <1>9. a \in [I -> Field]
    <2>1. \A d \in I : a[d] \in Field
      BY <1>8
    <2>2. DOMAIN a = I /\ a = [d \in I |-> a[d]]
      BY <1>1, <1>2
    <2> QED
      BY <2>1, <2>2
  <1> QED
    BY <1>4, <1>5, <1>9 DEF a, Poly

\* a satisfies the equations of Horner's rule in the field.
HornerEquations(f, t, x, a) ==
  /\ a \in [0 .. (t - 1) -> Int]
  /\ Cong(a[t - 1], f[t - 1])
  /\ \A d \in 0 .. (t - 1) :
       d # t - 1 => Cong(a[d], (a[d + 1] * x) + f[d])

\* Any results that satisfy Horner's equations in the field are those of
\* EvaluateAt.
LEMMA HornerUnique ==
  ASSUME NEW t \in Nat \ {0}, NEW f \in Poly(t), NEW x \in Int,
         NEW a, HornerEquations(f, t, x, a)
  PROVE  /\ EvaluateAt(f, t, x) \in Field
         /\ EvaluateAt(f, t, x) = a[0] % Q
  <1> DEFINE h == Horner(f, t, x)
             I == 0 .. (t - 1)
             S == {d \in I : Cong(a[d], h[d])}
  <1>0. /\ a \in [I -> Int]
        /\ Cong(a[t - 1], f[t - 1])
        /\ \A d \in I : d # t - 1 => Cong(a[d], (a[d + 1] * x) + f[d])
    BY DEF HornerEquations
  <1>1. /\ h \in [I -> Field]
        /\ h[t - 1] = f[t - 1]
        /\ \A d \in I : d # t - 1 => h[d] = ((h[d + 1] * x) + f[d]) % Q
    BY HornerType DEF Poly
  <1> HIDE DEF h
  <1>2. t - 1 \in S
    BY <1>0, <1>1
  <1>3. \A d \in I : d # t - 1 /\ d + 1 \in S => d \in S
    <2> SUFFICES ASSUME NEW d \in I, d # t - 1, d + 1 \in S
                 PROVE  Cong(a[d], h[d])
      OBVIOUS
    <2> DEFINE p == a[d + 1]
               q == h[d + 1]
               c == f[d]
    <2>1. /\ p \in Int /\ q \in Int /\ c \in Int /\ Cong(p, q)
          /\ Cong(a[d], (p * x) + c) /\ h[d] = ((q * x) + c) % Q
      BY <1>0, <1>1, FieldMod DEF Poly
    <2> HIDE DEF p, q, c
    <2>3. Cong((p * x) + c, (q * x) + c)
      BY <2>1, CongAffine
    <2>4. Cong((q * x) + c, h[d])
      <3>1. (q * x) + c \in Int
        BY <2>1, AffineType
      <3> QED
        BY <2>1, <3>1, CongMod
    <2> QED
      BY <2>1, <2>3, <2>4, CongTrans
  <1>4. 0 \in S
    <2>1. I \subseteq S
      <3> HIDE DEF S
      <3> QED
        BY <1>2, <1>3, DownInduction
    <2> QED
      BY <2>1
  <1>5. h[0] \in Field /\ EvaluateAt(f, t, x) = h[0]
    BY <1>1, EvaluateHorner DEF h
  <1>6. h[0] % Q = h[0]
    BY <1>5, FieldMod
  <1> QED
    BY <1>4, <1>5, <1>6 DEF Cong

\* A polynomial evaluates to a field element.
LEMMA EvaluateType ==
  ASSUME NEW t \in Nat \ {0}, NEW f \in Poly(t), NEW x \in Int
  PROVE  EvaluateAt(f, t, x) \in Field /\ EvaluateAt(f, t, x) \in Int
  <1>1. Horner(f, t, x) \in [0 .. (t - 1) -> Field]
    BY HornerType DEF Poly
  <1>2. Horner(f, t, x)[0] \in Field
    BY <1>1
  <1> QED
    BY <1>2, EvaluateHorner, FieldMod

\* A sum reduced is a field element.
LEMMA FieldSumType ==
  ASSUME NEW D, IsFiniteSet(D), NEW g \in [D -> Int]
  PROVE  /\ FieldSum(g) \in Field /\ FieldSum(g) \in Int
         /\ SumFunction(g) \in Int
         /\ Cong(SumFunction(g), FieldSum(g))
  <1>1. SumFunction(g) \in Int
    BY SumSplit
  <1> QED
    BY <1>1, ModType, CongMod DEF FieldSum

\* Evaluation of a sum of polynomials.
LEMMA EvaluateSum ==
  ASSUME NEW S, IsFiniteSet(S), NEW t \in Nat \ {0},
         NEW fs \in [S -> Poly(t)], NEW x \in Int
  PROVE  /\ [d \in 0 .. (t - 1) |-> FieldSum([i \in S |-> fs[i][d]])] \in Poly(t)
         /\ FieldSum([i \in S |-> EvaluateAt(fs[i], t, x)])
              = EvaluateAt([d \in 0 .. (t - 1) |->
                              FieldSum([i \in S |-> fs[i][d]])], t, x)
  <1> DEFINE I == 0 .. (t - 1)
             h == [i \in S |-> Horner(fs[i], t, x)]
             F(d) == [i \in S |-> fs[i][d]]
             H(d) == [i \in S |-> h[i][d]]
             G == [d \in I |-> FieldSum(F(d))]
             a == [d \in I |-> SumFunction(H(d))]
  <1>1. ASSUME NEW i \in S
        PROVE  /\ fs[i] \in [I -> Field]
               /\ h[i] \in [I -> Field]
               /\ h[i][t - 1] = fs[i][t - 1]
               /\ \A d \in I :
                    d # t - 1 => h[i][d] = ((h[i][d + 1] * x) + fs[i][d]) % Q
    <2>1. fs[i] \in Poly(t) /\ h[i] = Horner(fs[i], t, x)
      OBVIOUS
    <2> HIDE DEF h
    <2> QED
      BY <2>1, HornerType DEF Poly
  <1>2. \A i \in S : EvaluateAt(fs[i], t, x) = h[i][0]
    BY EvaluateHorner
  <1> HIDE DEF h
  <1>3. \A i \in S, d \in I : /\ fs[i][d] \in Field /\ h[i][d] \in Field
                              /\ fs[i][d] \in Int /\ h[i][d] \in Int
    BY <1>1, FieldMod
  <1>4. \A d \in I : F(d) \in [S -> Int] /\ H(d) \in [S -> Int]
    BY <1>3
  <1>5. \A d \in I : /\ FieldSum(F(d)) \in Field /\ FieldSum(F(d)) \in Int
                     /\ SumFunction(F(d)) \in Int /\ SumFunction(H(d)) \in Int
                     /\ Cong(SumFunction(F(d)), FieldSum(F(d)))
    <2> HIDE DEF F, H
    <2> QED
      BY <1>4, FieldSumType
  <1>6. G \in Poly(t) /\ a \in [I -> Int]
    <2> HIDE DEF F, H
    <2> QED
      BY <1>5 DEF Poly
  <1>7. \A d \in I : G[d] = FieldSum(F(d)) /\ a[d] = SumFunction(H(d))
    <2> HIDE DEF F, H
    <2> QED
      OBVIOUS
  <1>8. Cong(a[t - 1], G[t - 1])
    <2>1. t - 1 \in I
      OBVIOUS
    <2>2. H(t - 1) = F(t - 1)
      BY <1>1
    <2> HIDE DEF F, H, a, G
    <2> QED
      BY <1>5, <1>7, <2>1, <2>2
  <1>9. ASSUME NEW d \in I, d # t - 1
        PROVE  Cong(a[d], (a[d + 1] * x) + G[d])
    <2> DEFINE w == [i \in S |-> (x * H(d + 1)[i]) + (1 * F(d)[i])]
    <2>1. d + 1 \in I /\ 1 \in Int
      BY <1>9
    <2>2. SumFunction(w) = (x * SumFunction(H(d + 1))) + (1 * SumFunction(F(d)))
      <3> HIDE DEF F, H
      <3> QED
        BY <1>4, <2>1, SumLinear
    <2>3. ASSUME NEW i \in S
          PROVE  w[i] \in Int /\ Cong(H(d)[i], w[i])
      <3> DEFINE p == h[i][d + 1]
                 c == fs[i][d]
                 e == h[i][d]
      <3>1. p \in Int /\ c \in Int /\ e = ((p * x) + c) % Q
        BY <1>1, <1>3, <1>9, <2>1
      <3>2. w[i] = (x * p) + (1 * c) /\ H(d)[i] = e
        OBVIOUS
      <3> HIDE DEF p, c, e, w, H
      <3>3. (x * p) + (1 * c) = (p * x) + c /\ (p * x) + c \in Int
        BY <3>1
      <3>4. Cong(e, (p * x) + c)
        BY <3>1, <3>3, CongMod
      <3> QED
        BY <3>2, <3>3, <3>4
    <2>4. w \in [S -> Int]
      <3>1. \A i \in S : w[i] \in Int
        BY <2>3
      <3> QED
        BY <3>1
    <2>5. Cong(SumFunction(H(d)), SumFunction(w))
      <3> HIDE DEF w, H
      <3> QED
        BY <1>4, <2>3, <2>4, SumCong
    <2> DEFINE p == SumFunction(H(d + 1))
               c == SumFunction(F(d))
               g == FieldSum(F(d))
               e == SumFunction(H(d))
               s == SumFunction(w)
    <2>6. /\ p \in Int /\ c \in Int /\ g \in Int /\ Cong(c, g) /\ Cong(e, s)
          /\ s = (x * p) + (1 * c)
      <3> HIDE DEF F, H, w
      <3> QED
        BY <1>5, <2>1, <2>2, <2>5
    <2>7. a[d] = e /\ a[d + 1] = p /\ G[d] = g
      <3> HIDE DEF F, H, w, a, G
      <3> QED
        BY <1>7, <2>1
    <2> HIDE DEF F, H, w, p, c, g, e, s, a, G
    <2>8. (x * p) + (1 * c) = (p * x) + c /\ p * x \in Int
      BY <2>6
    <2>9. Cong((p * x) + c, (p * x) + g)
      BY <2>6, <2>8, CongOps, CongRefl
    <2> QED
      BY <2>6, <2>7, <2>8, <2>9, CongTrans
  <1>10. EvaluateAt(G, t, x) = a[0] % Q
    <2> HIDE DEF a, G
    <2>1. HornerEquations(G, t, x, a)
      BY <1>6, <1>8, <1>9 DEF HornerEquations
    <2> QED
      BY <1>6, <2>1, HornerUnique
  <1>11. a[0] = SumFunction(H(0))
    OBVIOUS
  <1>12. [i \in S |-> EvaluateAt(fs[i], t, x)] = H(0)
    BY <1>2
  <1>13. FieldSum([i \in S |-> EvaluateAt(fs[i], t, x)]) = EvaluateAt(G, t, x)
    <2> HIDE DEF a, G, H
    <2> QED
      BY <1>10, <1>11, <1>12 DEF FieldSum
  <1> QED
    BY <1>6, <1>13

\* Evaluation of the sum of two polynomials.
LEMMA EvaluateAdd ==
  ASSUME NEW t \in Nat \ {0}, NEW f \in Poly(t), NEW g \in Poly(t), NEW x \in Int
  PROVE  /\ [d \in 0 .. (t - 1) |-> (f[d] + g[d]) % Q] \in Poly(t)
         /\ (EvaluateAt(f, t, x) + EvaluateAt(g, t, x)) % Q
              = EvaluateAt([d \in 0 .. (t - 1) |-> (f[d] + g[d]) % Q], t, x)
  <1> DEFINE I == 0 .. (t - 1)
             h == Horner(f, t, x)
             k == Horner(g, t, x)
             G == [d \in I |-> (f[d] + g[d]) % Q]
             a == [d \in I |-> h[d] + k[d]]
  <1>1. /\ h \in [I -> Field] /\ k \in [I -> Field]
        /\ f \in [I -> Field] /\ g \in [I -> Field]
        /\ h[t - 1] = f[t - 1] /\ k[t - 1] = g[t - 1]
        /\ \A d \in I : d # t - 1 => /\ h[d] = ((h[d + 1] * x) + f[d]) % Q
                                     /\ k[d] = ((k[d + 1] * x) + g[d]) % Q
    BY HornerType DEF Poly
  <1>2. EvaluateAt(f, t, x) = h[0] /\ EvaluateAt(g, t, x) = k[0]
    BY EvaluateHorner
  <1> HIDE DEF h, k
  <1>3. \A d \in I : h[d] \in Int /\ k[d] \in Int /\ f[d] \in Int /\ g[d] \in Int
    BY <1>1, FieldMod
  <1>4. \A d \in I : f[d] + g[d] \in Int /\ h[d] + k[d] \in Int
    BY <1>3
  <1>5. G \in Poly(t) /\ a \in [I -> Int]
    BY <1>4, ModType DEF Poly
  <1>6. \A d \in I : Cong(f[d] + g[d], G[d]) /\ G[d] \in Int
    BY <1>4, CongMod, ModType
  <1>7. Cong(a[t - 1], G[t - 1])
    <2>1. t - 1 \in I
      OBVIOUS
    <2>2. a[t - 1] = f[t - 1] + g[t - 1]
      BY <1>1, <2>1
    <2> HIDE DEF a, G
    <2> QED
      BY <1>6, <2>1, <2>2
  <1>8. ASSUME NEW d \in I, d # t - 1
        PROVE  Cong(a[d], (a[d + 1] * x) + G[d])
    <2> DEFINE p == h[d + 1]
               q == k[d + 1]
               b == f[d]
               c == g[d]
               y == h[d]
               z == k[d]
               s == G[d]
    <2>1. d + 1 \in I
      BY <1>8
    <2>2. /\ p \in Int /\ q \in Int /\ b \in Int /\ c \in Int /\ y \in Int
          /\ z \in Int /\ s \in Int /\ Cong(b + c, s)
          /\ y = ((p * x) + b) % Q /\ z = ((q * x) + c) % Q
      <3> HIDE DEF G
      <3> QED
        BY <1>1, <1>3, <1>6, <1>8, <2>1
    <2>3. a[d] = y + z /\ a[d + 1] = p + q
      BY <2>1
    <2> HIDE DEF p, q, b, c, y, z, s, a, G
    <2>4. (p * x) + b \in Int /\ (q * x) + c \in Int
      BY <2>2, AffineType
    <2>5. Cong(y, (p * x) + b) /\ Cong(z, (q * x) + c)
      BY <2>2, <2>4, CongMod
    <2>6. Cong(y + z, ((p * x) + b) + ((q * x) + c))
      BY <2>2, <2>4, <2>5, CongOps
    <2>7. ((p * x) + b) + ((q * x) + c) = ((p + q) * x) + (b + c)
      BY <2>2
    <2>8. (p + q) * x \in Int /\ b + c \in Int
      BY <2>2
    <2>9. Cong(((p + q) * x) + (b + c), ((p + q) * x) + s)
      BY <2>2, <2>8, CongOps, CongRefl
    <2>10. Cong(y + z, ((p + q) * x) + s)
      BY <2>6, <2>7, <2>9, CongTrans
    <2> QED
      BY <2>3, <2>10 DEF s
  <1>9. EvaluateAt(G, t, x) = a[0] % Q
    <2> HIDE DEF a, G
    <2>1. HornerEquations(G, t, x, a)
      BY <1>5, <1>7, <1>8 DEF HornerEquations
    <2> QED
      BY <1>5, <2>1, HornerUnique
  <1>10. a[0] = h[0] + k[0]
    OBVIOUS
  <1>11. (EvaluateAt(f, t, x) + EvaluateAt(g, t, x)) % Q = EvaluateAt(G, t, x)
    <2> HIDE DEF a, G
    <2> QED
      BY <1>2, <1>9, <1>10
  <1> QED
    BY <1>5, <1>11

-----------------------------------------------------------------------------
(* Evaluation by powers.                                                   *)

\* Induction from 0 up to t-1.
LEMMA UpInduction ==
  ASSUME NEW t \in Nat \ {0}, NEW S, 0 \in S,
         \A d \in 0 .. (t - 1) : d # t - 1 /\ d \in S => d + 1 \in S
  PROVE  0 .. (t - 1) \subseteq S
  <1> DEFINE N == {n \in Nat : n < t => n \in S}
  <1>1. 0 \in N
    OBVIOUS
  <1>2. ASSUME NEW n \in Nat, n \in N
        PROVE  n + 1 \in N
    <2> SUFFICES ASSUME n + 1 < t
                 PROVE  n + 1 \in S
      OBVIOUS
    <2>1. n \in 0 .. (t - 1) /\ n # t - 1 /\ n < t
      OBVIOUS
    <2>2. n \in S
      BY <1>2, <2>1
    <2> QED
      BY <2>1, <2>2
  <1>3. Nat \subseteq N
    <2> HIDE DEF N
    <2> QED
      BY <1>1, <1>2, NatSetInduction
  <1>4. \A d \in 0 .. (t - 1) : d \in Nat /\ d < t
    OBVIOUS
  <1> QED
    BY <1>3, <1>4

\* The recursive definition of the powers in EvaluateByPowers.
PowerBody(x, p, d) == IF d = 0 THEN 1 ELSE p[d - 1] * x

\* The powers of x.
Powers(t, x) == CHOOSE p : p = [d \in 0 .. (t - 1) |-> PowerBody(x, p, d)]

\* EvaluateByPowers sums with the powers.
LEMMA EvaluatePowers ==
  ASSUME NEW f, NEW t, NEW x
  PROVE  EvaluateByPowers(f, t, x)
           = FieldSum([d \in 0 .. (t - 1) |-> f[d] * Powers(t, x)[d]])
  BY Zenon DEF EvaluateByPowers, Powers, PowerBody

\* What the powers are.
LEMMA PowersType ==
  ASSUME NEW t \in Nat \ {0}, NEW x \in Int
  PROVE  /\ Powers(t, x) \in [0 .. (t - 1) -> Int]
         /\ Powers(t, x)[0] = 1
         /\ \A d \in 0 .. (t - 1) :
              d # t - 1 => Powers(t, x)[d + 1] = Powers(t, x)[d] * x
  <1> DEFINE I == 0 .. (t - 1)
             Upto(c) == \E p \in [I -> Int] :
                          \A d \in I : d <= c => p[d] = PowerBody(x, p, d)
             S == {c \in I : Upto(c)}
  <1>1. 0 \in S
    <2> DEFINE p == [d \in I |-> 1]
    <2>1. p \in [I -> Int] /\ \A d \in I : d <= 0 => p[d] = PowerBody(x, p, d)
      BY DEF PowerBody
    <2>2. 0 \in I
      OBVIOUS
    <2> HIDE DEF p
    <2> QED
      BY <2>1, <2>2
  <1>2. ASSUME NEW c \in I, c # t - 1, c \in S
        PROVE  c + 1 \in S
    <2>1. PICK b \in [I -> Int] :
            \A d \in I : d <= c => b[d] = PowerBody(x, b, d)
      BY <1>2
    <2> DEFINE p == [d \in I |-> IF d = c + 1 THEN b[c] * x ELSE b[d]]
    <2>2. c + 1 \in I /\ b[c] \in Int
      BY <1>2
    <2>3. p \in [I -> Int]
      BY <2>2
    <2>4. \A d \in I : d <= c + 1 => p[d] = PowerBody(x, p, d)
      <3> SUFFICES ASSUME NEW d \in I, d <= c + 1
                   PROVE  p[d] = PowerBody(x, p, d)
        OBVIOUS
      <3>1. CASE d = c + 1
        <4>1. p[c] = b[c] /\ p[c + 1] = b[c] * x /\ (c + 1) - 1 = c /\ c + 1 # 0
          BY <2>2
        <4> HIDE DEF p
        <4> QED
          BY <3>1, <4>1 DEF PowerBody
      <3>2. CASE d # c + 1
        <4>1. d <= c /\ p[d] = b[d]
          BY <3>2
        <4>2. b[d] = PowerBody(x, b, d)
          BY <2>1, <4>1
        <4>3. d # 0 => p[d - 1] = b[d - 1]
          BY <4>1
        <4> HIDE DEF p
        <4> QED
          BY <4>1, <4>2, <4>3 DEF PowerBody
      <3> QED
        BY <3>1, <3>2
    <2>5. Upto(c + 1)
      <3> HIDE DEF p
      <3> QED
        BY <2>3, <2>4
    <2> QED
      BY <2>2, <2>5
  <1>3. t - 1 \in S
    <2>1. I \subseteq S
      <3> HIDE DEF S
      <3> QED
        BY <1>1, <1>2, UpInduction
    <2>2. t - 1 \in I
      OBVIOUS
    <2> QED
      BY <2>1, <2>2
  <1>4. PICK b \in [I -> Int] :
          \A d \in I : d <= t - 1 => b[d] = PowerBody(x, b, d)
    BY <1>3
  <1>5. b = [d \in I |-> PowerBody(x, b, d)]
    <2>1. \A d \in I : b[d] = PowerBody(x, b, d)
      BY <1>4
    <2> QED
      BY <2>1
  <1> DEFINE p == Powers(t, x)
  <1>6. p = [d \in I |-> PowerBody(x, p, d)]
    BY <1>5 DEF Powers
  <1> HIDE DEF p
  <1>7. \A d \in I : p[d] = PowerBody(x, p, d)
    BY <1>6
  <1>8. p[0] = 1
    BY <1>7 DEF PowerBody
  <1>9. ASSUME NEW d \in I, d # t - 1
        PROVE  p[d + 1] = p[d] * x
    <2>1. d + 1 \in I /\ d + 1 # 0 /\ (d + 1) - 1 = d
      BY <1>9
    <2> QED
      BY <1>7, <2>1 DEF PowerBody
  <1> DEFINE R == {d \in I : p[d] \in Int}
  <1>10. I \subseteq R
    <2>1. 0 \in R
      BY <1>8
    <2>2. \A d \in I : d # t - 1 /\ d \in R => d + 1 \in R
      BY <1>9
    <2> HIDE DEF R
    <2> QED
      BY <2>1, <2>2, UpInduction
  <1>11. p \in [I -> Int]
    <2>1. p = [d \in I |-> p[d]]
      BY <1>6, <1>7
    <2> QED
      BY <1>10, <2>1
  <1> QED
    BY <1>8, <1>9, <1>11 DEF p

\* The two evaluation loops of the code agree: primitives/shamir.go adds up
\* powers, reshare and dkg use Horner's rule.
THEOREM PowersAgree ==
  ASSUME NEW t \in Nat \ {0}, NEW f \in Poly(t), NEW x \in Int
  PROVE  EvaluateByPowers(f, t, x) = EvaluateAt(f, t, x)
  <1> DEFINE I == 0 .. (t - 1)
             h == Horner(f, t, x)
             p == Powers(t, x)
             u == [d \in I |-> f[d] * p[d]]
             R(d) == SumFunction(Restrict(u, d .. (t - 1)))
             S == {d \in I : Cong(p[d] * h[d], R(d))}
  <1>1. /\ h \in [I -> Field] /\ f \in [I -> Field]
        /\ h[t - 1] = f[t - 1]
        /\ \A d \in I : d # t - 1 => h[d] = ((h[d + 1] * x) + f[d]) % Q
    BY HornerType DEF Poly
  <1>2. /\ p \in [I -> Int] /\ p[0] = 1
        /\ \A d \in I : d # t - 1 => p[d + 1] = p[d] * x
    BY PowersType
  <1>3. EvaluateAt(f, t, x) = h[0] /\ EvaluateByPowers(f, t, x) = FieldSum(u)
    BY EvaluateHorner, EvaluatePowers
  <1> HIDE DEF h, p
  <1>4. \A d \in I : h[d] \in Int /\ f[d] \in Int /\ p[d] \in Int
    BY <1>1, <1>2, FieldMod
  <1>5. u \in [I -> Int] /\ \A d \in I : u[d] = f[d] * p[d]
    BY <1>4
  <1> HIDE DEF u
  <1>6. IsFiniteSet(I)
    BY FS_Interval
  <1>7. ASSUME NEW d \in I
        PROVE  /\ R(d) \in Int
               /\ d # t - 1 => R(d) = u[d] + R(d + 1)
               /\ d = t - 1 => R(d) = u[d]
    <2> DEFINE E == d .. (t - 1)
    <2>1. E \in SUBSET I /\ d \in E /\ {} \in SUBSET I
      OBVIOUS
    <2>2. /\ SumFunction(Restrict(u, E)) \in Int
          /\ SumFunction(Restrict(u, E)) = u[d] + SumFunction(Restrict(u, E \ {d}))
      <3> HIDE DEF E, I
      <3>1. /\ SumFunction(Restrict(u, E)) \in Int
            /\ \A e \in E : SumFunction(Restrict(u, E))
                              = u[e] + SumFunction(Restrict(u, E \ {e}))
        BY <1>5, <1>6, <2>1, SumOn
      <3> QED
        BY <2>1, <3>1
    <2>3. SumFunction(Restrict(u, {})) = 0
      BY <1>5, <1>6, <2>1, SumOn
    <2>4. E \ {d} = (d + 1) .. (t - 1)
      OBVIOUS
    <2>5. d = t - 1 => E \ {d} = {}
      OBVIOUS
    <2>6. u[d] \in Int
      BY <1>5
    <2>7. R(d) = SumFunction(Restrict(u, E))
            /\ R(d + 1) = SumFunction(Restrict(u, (d + 1) .. (t - 1)))
      OBVIOUS
    <2> HIDE DEF R, E
    <2>8. R(d) = u[d] + R(d + 1)
      BY <2>2, <2>4, <2>7
    <2>9. d = t - 1 => R(d) = u[d]
      <3> SUFFICES ASSUME d = t - 1
                   PROVE  R(d) = u[d]
        OBVIOUS
      <3>1. SumFunction(Restrict(u, E \ {d})) = 0
        BY <2>3, <2>5
      <3>2. R(d) = u[d] + 0
        BY <2>2, <2>7, <3>1
      <3> QED
        BY <2>6, <3>2
    <2> QED
      BY <2>2, <2>7, <2>8, <2>9
  <1> HIDE DEF R
  <1>8. t - 1 \in S
    <2>1. t - 1 \in I
      OBVIOUS
    <2>2. p[t - 1] * h[t - 1] = R(t - 1)
      <3>1. R(t - 1) = f[t - 1] * p[t - 1]
        BY <1>5, <1>7, <2>1
      <3> QED
        BY <1>1, <1>4, <2>1, <3>1
    <2> QED
      BY <2>1, <2>2, CongRefl
  <1>9. \A d \in I : d # t - 1 /\ d + 1 \in S => d \in S
    <2> SUFFICES ASSUME NEW d \in I, d # t - 1, d + 1 \in S
                 PROVE  Cong(p[d] * h[d], R(d))
      OBVIOUS
    <2> DEFINE y == h[d]
               z == h[d + 1]
               c == f[d]
               w == p[d]
               r == R(d + 1)
    <2>1. d + 1 \in I
      OBVIOUS
    <2>2. /\ y \in Int /\ z \in Int /\ c \in Int /\ w \in Int /\ r \in Int
          /\ y = ((z * x) + c) % Q /\ p[d + 1] = w * x
          /\ R(d) = (c * w) + r /\ Cong(p[d + 1] * z, r)
      BY <1>1, <1>2, <1>4, <1>5, <1>7, <2>1
    <2> HIDE DEF y, z, c, w, r
    <2>3. (z * x) + c \in Int
      BY <2>2, AffineType
    <2>4. Cong(y, (z * x) + c)
      BY <2>2, <2>3, CongMod
    <2>5. Cong(w * y, w * ((z * x) + c))
      BY <2>2, <2>3, <2>4, CongScale
    <2>6. w * ((z * x) + c) = (c * w) + ((w * x) * z)
      BY <2>2
    <2>7. c * w \in Int /\ (w * x) * z \in Int /\ Cong((w * x) * z, r)
      BY <2>2
    <2>8. Cong((c * w) + ((w * x) * z), (c * w) + r)
      BY <2>2, <2>7, CongOps, CongRefl
    <2>9. Cong(w * y, (c * w) + r)
      BY <2>5, <2>6, <2>8, CongTrans
    <2> QED
      BY <2>2, <2>9 DEF w, y
  <1>10. 0 \in S
    <2>1. I \subseteq S
      <3> HIDE DEF S
      <3> QED
        BY <1>8, <1>9, DownInduction
    <2>2. 0 \in I
      OBVIOUS
    <2> QED
      BY <2>1, <2>2
  <1>11. p[0] * h[0] = h[0] /\ h[0] \in Field
    <2>1. 0 \in I
      OBVIOUS
    <2> QED
      BY <1>1, <1>2, <1>4, <2>1
  <1>12. R(0) = SumFunction(u)
    BY <1>5, RestrictAll DEF R
  <1>13. Cong(h[0], SumFunction(u))
    BY <1>10, <1>11, <1>12
  <1> QED
    BY <1>3, <1>11, <1>13, FieldMod DEF Cong, FieldSum

-----------------------------------------------------------------------------
(* Sharings.                                                               *)

\* shares are the values of a polynomial of degree below t with the constant
\* term s.
IsSharing(shares, t, s) ==
  \E f \in Poly(t) :
    /\ f[0] = s
    /\ \A i \in DOMAIN shares : shares[i] = EvaluateAt(f, t, i)

\* The shares of a sharing are field elements.
LEMMA SharingType ==
  ASSUME NEW t \in Nat \ {0}, NEW s, NEW shares,
         DOMAIN shares \subseteq Int, IsSharing(shares, t, s)
  PROVE  s \in Field /\ \A i \in DOMAIN shares : shares[i] \in Field
  <1>1. PICK f \in Poly(t) :
          f[0] = s /\ \A i \in DOMAIN shares : shares[i] = EvaluateAt(f, t, i)
    BY DEF IsSharing
  <1>2. s \in Field
    BY <1>1 DEF Poly
  <1>3. \A i \in DOMAIN shares : EvaluateAt(f, t, i) \in Field
    BY EvaluateType
  <1> QED
    BY <1>1, <1>2, <1>3

\* Any t or more shares of a sharing reconstruct the secret (reshare.Verify,
\* and the Lagrange weights of the signers).
THEOREM ReconstructSharing ==
  ASSUME NEW t \in Nat \ {0}, NEW s, NEW shares, IsSharing(shares, t, s),
         NEW T \in SUBSET Points, T \subseteq DOMAIN shares,
         Cardinality(T) >= t
  PROVE  Reconstruct(shares, T) = s
  <1>1. PICK f \in Poly(t) :
          f[0] = s /\ \A i \in DOMAIN shares : shares[i] = EvaluateAt(f, t, i)
    BY DEF IsSharing
  <1> DEFINE H == [i \in Points |-> Horner(f, t, i)]
             v == [i \in T |-> H[i][0]]
  <1>2. \A i \in Points : i \in Int
    BY PointsFinite
  <1>3. ASSUME NEW i \in Points
        PROVE  /\ H[i] \in [0 .. (t - 1) -> Int]
               /\ H[i][t - 1] = f[t - 1]
               /\ \A d \in 0 .. (t - 1) :
                    d # t - 1 => Cong(H[i][d], (H[i][d + 1] * i) + f[d])
    <2> DEFINE h == Horner(f, t, i)
    <2>1. /\ h \in [0 .. (t - 1) -> Field]
          /\ h[t - 1] = f[t - 1]
          /\ \A d \in 0 .. (t - 1) :
               d # t - 1 => h[d] = ((h[d + 1] * i) + f[d]) % Q
      BY <1>2, HornerType DEF Poly
    <2>2. H[i] = h
      OBVIOUS
    <2> HIDE DEF H, h
    <2>3. h \in [0 .. (t - 1) -> Int]
      BY <2>1, FieldMod
    <2>4. ASSUME NEW d \in 0 .. (t - 1), d # t - 1
          PROVE  Cong(h[d], (h[d + 1] * i) + f[d])
      <3>1. h[d + 1] \in Int /\ f[d] \in Int
        BY <2>3, <2>4, FieldMod DEF Poly
      <3>2. (h[d + 1] * i) + f[d] \in Int
        BY <1>2, <3>1, AffineType
      <3> QED
        BY <2>1, <2>4, <3>2, CongMod
    <2> QED
      BY <2>1, <2>2, <2>3, <2>4
  <1>4. HornerTable(f, t, H)
    <2>1. H \in [Points -> [0 .. (t - 1) -> Int]]
      BY <1>3
    <2> HIDE DEF H
    <2> QED
      BY <1>3, <2>1 DEF HornerTable
  <1>5. \A i \in T : H[i][0] = shares[i]
    BY <1>1, EvaluateHorner
  <1> HIDE DEF H
  <1>6. f \in [0 .. (t - 1) -> Int]
    BY FieldMod DEF Poly
  <1>7. Cong(Combine(T, v), s)
    BY <1>1, <1>4, <1>6, Interpolate
  <1>8. [i \in T |-> LagrangeAtZero(T)[i] * v[i]]
          = [i \in T |-> LagrangeAtZero(T)[i] * shares[i]]
    BY <1>5
  <1>9. Reconstruct(shares, T) = Combine(T, v) % Q
    <2> HIDE DEF v
    <2> QED
      BY <1>8 DEF Reconstruct, Combine, FieldSum
  <1>10. s % Q = s
    BY <1>1, FieldMod DEF Poly
  <1> QED
    BY <1>7, <1>9, <1>10 DEF Cong

\* selectQuorum takes t of at least t parties.
LEMMA SelectQuorumSize ==
  ASSUME NEW D \in SUBSET Nat, IsFiniteSet(D), NEW t \in Nat,
         t <= Cardinality(D)
  PROVE  /\ SelectQuorum(D, t) \subseteq D
         /\ Cardinality(SelectQuorum(D, t)) >= t
  <1> DEFINE S == {n \in Nat : n <= Cardinality(D)
                                 => Cardinality(SelectQuorum(D, n)) >= n}
  <1>0. \A n : /\ SelectQuorum(D, n) \subseteq D
               /\ IsFiniteSet(SelectQuorum(D, n))
               /\ Cardinality(SelectQuorum(D, n)) \in Nat
    <2>1. \A n : SelectQuorum(D, n) \subseteq D
      BY DEF SelectQuorum
    <2> QED
      BY <2>1, FS_Subset, FS_CardinalityType
  <1>1. 0 \in S
    BY <1>0
  <1>2. ASSUME NEW n \in Nat, n \in S
        PROVE  n + 1 \in S
    <2> SUFFICES ASSUME n + 1 <= Cardinality(D)
                 PROVE  Cardinality(SelectQuorum(D, n + 1)) >= n + 1
      OBVIOUS
    <2> DEFINE A == SelectQuorum(D, n)
               B == SelectQuorum(D, n + 1)
               Below(i) == {j \in D : j < i}
    <2>0. /\ A \subseteq D /\ IsFiniteSet(A) /\ Cardinality(A) \in Nat
          /\ B \subseteq D /\ IsFiniteSet(B) /\ Cardinality(B) \in Nat
          /\ Cardinality(D) \in Nat
      BY <1>0, FS_CardinalityType
    <2>1. Cardinality(A) >= n
      <3>1. n <= Cardinality(D)
        BY <2>0
      <3> QED
        BY <1>2, <3>1
    <2>2. \A i \in D : IsFiniteSet(Below(i)) /\ Cardinality(Below(i)) \in Nat
      BY FS_Subset, FS_CardinalityType
    <2>3. A \subseteq B
      <3>1. \A i \in D : Cardinality(Below(i)) < n => Cardinality(Below(i)) < n + 1
        BY <2>2
      <3> QED
        BY <3>1 DEF SelectQuorum
    <2>4. CASE Cardinality(A) > n
      <3>1. Cardinality(A) <= Cardinality(B)
        BY <2>0, <2>3, FS_Subset
      <3> QED
        BY <2>0, <2>4, <3>1
    <2>5. CASE Cardinality(A) = n
      <3>1. D \ A # {}
        BY <2>0, <2>5
      <3>2. PICK m \in D \ A : \A y \in D \ A : m <= y
        BY <3>1, LeastNat
      <3>3. Below(m) \subseteq A
        <4> SUFFICES ASSUME NEW j \in D, j < m, j \notin A
                     PROVE  FALSE
          OBVIOUS
        <4>1. m <= j
          BY <3>2
        <4> QED
          BY <4>1
      <3>4. Cardinality(Below(m)) <= n
        BY <2>0, <2>5, <3>3, FS_Subset
      <3>5. m \in B
        <4>1. Cardinality(Below(m)) < n + 1
          BY <2>2, <3>2, <3>4
        <4> QED
          BY <3>2, <4>1 DEF SelectQuorum
      <3>6. /\ A \cup {m} \subseteq B
            /\ Cardinality(A \cup {m}) = n + 1
        <4>1. m \notin A
          BY <3>2
        <4>2. Cardinality(A \cup {m}) = Cardinality(A) + 1
          BY <2>0, <4>1, FS_AddElement, Zenon
        <4> QED
          BY <2>3, <2>5, <3>5, <4>2
      <3>7. Cardinality(A \cup {m}) <= Cardinality(B)
        BY <2>0, <3>6, FS_Subset
      <3> QED
        BY <3>6, <3>7
    <2> QED
      BY <2>0, <2>1, <2>4, <2>5
  <1>3. Nat \subseteq S
    <2> HIDE DEF S
    <2> QED
      BY <1>1, <1>2, NatSetInduction
  <1> QED
    BY <1>0, <1>3

\* The sums of what several dealers dealt are shares of the sum of their
\* constant terms.
LEMMA SharingSum ==
  ASSUME NEW S, IsFiniteSet(S), NEW t \in Nat \ {0}, NEW fs \in [S -> Poly(t)],
         NEW shares, DOMAIN shares \subseteq Int,
         \A j \in DOMAIN shares :
           shares[j] = FieldSum([i \in S |-> EvaluateAt(fs[i], t, j)])
  PROVE  IsSharing(shares, t, FieldSum([i \in S |-> fs[i][0]]))
  <1> DEFINE G == [d \in 0 .. (t - 1) |-> FieldSum([i \in S |-> fs[i][d]])]
  <1>1. G[0] = FieldSum([i \in S |-> fs[i][0]])
    OBVIOUS
  <1>2. G \in Poly(t)
    <2>1. 0 \in Int
      OBVIOUS
    <2> QED
      BY <2>1, EvaluateSum
  <1>3. \A j \in DOMAIN shares : shares[j] = EvaluateAt(G, t, j)
    <2> SUFFICES ASSUME NEW j \in DOMAIN shares
                 PROVE  shares[j] = EvaluateAt(G, t, j)
      OBVIOUS
    <2>1. FieldSum([i \in S |-> EvaluateAt(fs[i], t, j)]) = EvaluateAt(G, t, j)
      BY EvaluateSum
    <2> QED
      BY <2>1
  <1> HIDE DEF G
  <1> QED
    BY <1>1, <1>2, <1>3 DEF IsSharing

\* What WithConstant makes of the drawn coefficients.
LEMMA WithConstantType ==
  ASSUME NEW t \in Nat \ {0}, NEW c \in Field, NEW r \in [1 .. (t - 1) -> Field]
  PROVE  WithConstant(c, r) \in Poly(t) /\ WithConstant(c, r)[0] = c
  <1>1. DOMAIN r = 1 .. (t - 1) /\ {0} \cup DOMAIN r = 0 .. (t - 1)
    OBVIOUS
  <1>2. WithConstant(c, r) = [d \in 0 .. (t - 1) |-> IF d = 0 THEN c ELSE r[d]]
    BY <1>1 DEF WithConstant
  <1>3. \A d \in 0 .. (t - 1) : d # 0 => r[d] \in Field
    OBVIOUS
  <1> QED
    BY <1>2, <1>3 DEF Poly

\* reshare.Reshare makes of a sharing a sharing of the same secret, for the new
\* committee and the new threshold, whatever the parties draw.
THEOREM ReshareKeepsSecret ==
  ASSUME NEW shares, DOMAIN shares \in SUBSET Points, NEW s,
         NEW tOld \in Nat \ {0}, tOld <= Cardinality(DOMAIN shares),
         IsSharing(shares, tOld, s),
         NEW newSet \in SUBSET Int, NEW tNew \in Nat \ {0},
         NEW draw \in Draws(SelectQuorum(DOMAIN shares, tOld), tNew, Field)
  PROVE  /\ DOMAIN ReshareKernel(shares, tOld, newSet, tNew, draw) = newSet
         /\ IsSharing(ReshareKernel(shares, tOld, newSet, tNew, draw), tNew, s)
  <1> DEFINE tStar == SelectQuorum(DOMAIN shares, tOld)
             lambda == LagrangeAtZero(tStar)
             c0 == [i \in tStar |-> (shares[i] * lambda[i]) % Q]
             fs == [i \in tStar |-> WithConstant(c0[i], draw[i])]
             new == ReshareKernel(shares, tOld, newSet, tNew, draw)
             u == [i \in tStar |-> shares[i] * lambda[i]]
             w == [i \in tStar |-> lambda[i] * shares[i]]
  <1>1. /\ IsFiniteSet(DOMAIN shares) /\ DOMAIN shares \in SUBSET Nat
        /\ DOMAIN shares \subseteq Int
    <2>1. Points \subseteq Nat
      BY QAssumption DEF Points
    <2> QED
      BY <2>1, PointsFinite
  <1>2. tStar \subseteq DOMAIN shares /\ Cardinality(tStar) >= tOld
    BY <1>1, SelectQuorumSize
  <1>3. tStar \in SUBSET Points /\ IsFiniteSet(tStar)
    BY <1>2, PointsFinite
  <1>4. \A i \in tStar : shares[i] \in Int
    BY <1>1, <1>2, SharingType, FieldMod
  <1> HIDE DEF tStar
  <1>5. \A i \in tStar : lambda[i] \in Int
    BY <1>3, LambdaType
  <1> HIDE DEF lambda
  <1>6. \A i \in tStar : shares[i] * lambda[i] \in Int
    BY <1>4, <1>5
  <1>7. c0 \in [tStar -> Field] /\ c0 \in [tStar -> Int] /\ u \in [tStar -> Int]
          /\ w \in [tStar -> Int] /\ u = w
    <2>1. \A i \in tStar : shares[i] * lambda[i] = lambda[i] * shares[i]
      BY <1>4, <1>5
    <2>2. u \in [tStar -> Int] /\ u = w
      BY <1>6, <2>1
    <2>3. c0 \in [tStar -> Field] /\ c0 \in [tStar -> Int]
      BY <1>6, ModType
    <2> QED
      BY <2>2, <2>3
  <1>8. FieldSum(w) = s
    <2>1. Reconstruct(shares, tStar) = s
      BY <1>2, <1>3, ReconstructSharing
    <2> QED
      BY <2>1 DEF Reconstruct, lambda
  <1>9. FieldSum(c0) = s
    <2>1. \A i \in tStar : Cong(c0[i], u[i])
      BY <1>6, CongMod
    <2> HIDE DEF c0, u, w
    <2>2. Cong(SumFunction(c0), SumFunction(u))
      BY <1>3, <1>7, <2>1, SumCong
    <2> QED
      BY <1>7, <1>8, <2>2 DEF Cong, FieldSum
  <1>10. ASSUME NEW i \in tStar
         PROVE  fs[i] \in Poly(tNew) /\ fs[i][0] = c0[i]
    <2>1. c0[i] \in Field /\ draw[i] \in [1 .. (tNew - 1) -> Field]
      <3> HIDE DEF c0
      <3> QED
        BY <1>7 DEF Draws, tStar
    <2>2. fs[i] = WithConstant(c0[i], draw[i])
      OBVIOUS
    <2> HIDE DEF c0, fs
    <2> QED
      BY <2>1, <2>2, WithConstantType
  <1>11. fs \in [tStar -> Poly(tNew)] /\ [i \in tStar |-> fs[i][0]] = c0
    <2> HIDE DEF c0
    <2> QED
      BY <1>7, <1>10
  <1>12. new = [j \in newSet |->
                  FieldSum([i \in tStar |-> EvaluateAt(fs[i], tNew, j)])]
    <2>1. new = [j \in newSet |->
                   FieldSum([i \in tStar |->
                     EvaluateAt(WithConstant(c0[i], draw[i]), tNew, j)])]
      BY Zenon DEF ReshareKernel, tStar, lambda
    <2>2. \A j : [i \in tStar |->
                     EvaluateAt(WithConstant(c0[i], draw[i]), tNew, j)]
                   = [i \in tStar |-> EvaluateAt(fs[i], tNew, j)]
      <3> HIDE DEF c0
      <3> QED
        OBVIOUS
    <2> HIDE DEF new, fs, c0
    <2> QED
      BY <2>1, <2>2
  <1> HIDE DEF new, fs, c0
  <1>13. DOMAIN new = newSet /\ \A j \in DOMAIN new :
           new[j] = FieldSum([i \in tStar |-> EvaluateAt(fs[i], tNew, j)])
    BY <1>12
  <1>14. IsSharing(new, tNew, FieldSum([i \in tStar |-> fs[i][0]]))
    BY <1>3, <1>11, <1>13, SharingSum
  <1>15. IsSharing(new, tNew, s)
    BY <1>9, <1>11, <1>14
  <1> QED
    BY <1>13, <1>15 DEF new

\* Zeros sum to 0.
LEMMA SumZero ==
  ASSUME NEW D, IsFiniteSet(D)
  PROVE  FieldSum([i \in D |-> 0]) = 0
  <1> DEFINE z == [i \in D |-> 0]
  <1>1. z \in [D -> Int] /\ [i \in D |-> 0 * z[i]] = z /\ 0 \in Int
    OBVIOUS
  <1> HIDE DEF z
  <1>2. SumFunction([i \in D |-> 0 * z[i]]) = 0 * SumFunction(z)
    BY <1>1, SumScale
  <1>3. SumFunction(z) \in Int
    BY <1>1, SumSplit
  <1>4. SumFunction(z) = 0
    BY <1>1, <1>2, <1>3
  <1>5. 0 % Q = 0
    BY QAssumption
  <1> QED
    BY <1>4, <1>5 DEF FieldSum, z

\* reshare.Refresh makes of a sharing a sharing of the same secret with the
\* same threshold, whatever the parties draw.
THEOREM RefreshKeepsSecret ==
  ASSUME NEW shares, DOMAIN shares \in SUBSET Points, NEW s,
         NEW t \in Nat \ {0}, IsSharing(shares, t, s),
         NEW draw \in Draws(DOMAIN shares, t, Field)
  PROVE  /\ DOMAIN RefreshKernel(shares, t, draw) = DOMAIN shares
         /\ IsSharing(RefreshKernel(shares, t, draw), t, s)
  <1> DEFINE D == DOMAIN shares
             fs == [i \in D |-> WithConstant(0, draw[i])]
             z == [j \in D |-> FieldSum([i \in D |-> EvaluateAt(fs[i], t, j)])]
             new == RefreshKernel(shares, t, draw)
  <1>1. IsFiniteSet(D) /\ D \subseteq Int
    BY PointsFinite
  <1>2. ASSUME NEW i \in D
        PROVE  fs[i] \in Poly(t) /\ fs[i][0] = 0
    <2>1. 0 \in Field /\ draw[i] \in [1 .. (t - 1) -> Field]
      BY QAssumption DEF Draws, Field
    <2>2. fs[i] = WithConstant(0, draw[i])
      OBVIOUS
    <2> HIDE DEF fs
    <2> QED
      BY <2>1, <2>2, WithConstantType
  <1>3. fs \in [D -> Poly(t)] /\ [i \in D |-> fs[i][0]] = [i \in D |-> 0]
    BY <1>2
  <1>4. new = [j \in D |-> (shares[j] + z[j]) % Q]
    <2>1. new = [j \in D |-> (shares[j] + FieldSum([i \in D |->
                                EvaluateAt(WithConstant(0, draw[i]), t, j)])) % Q]
      BY Zenon DEF RefreshKernel
    <2>2. ASSUME NEW j \in D
          PROVE  z[j] = FieldSum([i \in D |->
                                    EvaluateAt(WithConstant(0, draw[i]), t, j)])
      <3>1. [i \in D |-> EvaluateAt(WithConstant(0, draw[i]), t, j)]
              = [i \in D |-> EvaluateAt(fs[i], t, j)]
        OBVIOUS
      <3> HIDE DEF fs
      <3> QED
        BY <3>1
    <2> HIDE DEF new, z
    <2> QED
      BY <2>1, <2>2
  <1> HIDE DEF new, fs
  <1>5. DOMAIN z = D /\ \A j \in DOMAIN z :
          z[j] = FieldSum([i \in D |-> EvaluateAt(fs[i], t, j)])
    OBVIOUS
  <1> HIDE DEF z
  <1>6. IsSharing(z, t, 0)
    <2>1. IsSharing(z, t, FieldSum([i \in D |-> fs[i][0]]))
      BY <1>1, <1>3, <1>5, SharingSum
    <2>2. FieldSum([i \in D |-> fs[i][0]]) = 0
      BY <1>1, <1>3, SumZero
    <2> QED
      BY <2>1, <2>2
  <1>7. PICK f \in Poly(t) :
          f[0] = s /\ \A i \in D : shares[i] = EvaluateAt(f, t, i)
    BY DEF IsSharing
  <1>8. PICK g \in Poly(t) :
          g[0] = 0 /\ \A i \in D : z[i] = EvaluateAt(g, t, i)
    BY <1>5, <1>6 DEF IsSharing
  <1> DEFINE k == [d \in 0 .. (t - 1) |-> (f[d] + g[d]) % Q]
  <1>9. k \in Poly(t)
    <2>1. 0 \in Int
      OBVIOUS
    <2> QED
      BY <2>1, EvaluateAdd
  <1>10. k[0] = s
    <2>1. k[0] = (f[0] + g[0]) % Q /\ f[0] \in Field
      BY DEF Poly
    <2>2. f[0] + 0 = f[0] /\ f[0] % Q = f[0]
      BY <2>1, FieldMod
    <2> HIDE DEF k
    <2> QED
      BY <1>7, <1>8, <2>1, <2>2
  <1>11. ASSUME NEW j \in D
         PROVE  new[j] = EvaluateAt(k, t, j)
    <2>1. new[j] = (shares[j] + z[j]) % Q
      BY <1>4
    <2>2. shares[j] = EvaluateAt(f, t, j) /\ z[j] = EvaluateAt(g, t, j)
      BY <1>7, <1>8
    <2>3. (EvaluateAt(f, t, j) + EvaluateAt(g, t, j)) % Q = EvaluateAt(k, t, j)
      BY <1>1, EvaluateAdd
    <2> QED
      BY <2>1, <2>2, <2>3
  <1>12. DOMAIN new = D
    BY <1>4
  <1> HIDE DEF k
  <1>13. IsSharing(new, t, s)
    BY <1>9, <1>10, <1>11, <1>12 DEF IsSharing
  <1> QED
    BY <1>12, <1>13 DEF new

\* A sum does not depend on the names of its terms: positions may be replaced by
\* what stands at them.
LEMMA SumReindex ==
  ASSUME NEW D, IsFiniteSet(D), NEW E, NEW g \in [D -> Int],
         NEW h \in [E -> Int], NEW b \in [D -> E],
         \A i, j \in D : b[i] = b[j] => i = j,
         \A v \in E : \E i \in D : b[i] = v,
         \A i \in D : h[b[i]] = g[i]
  PROVE  SumFunction(h) = SumFunction(g)
  <1> DEFINE Sum(u, s) == SumFunction(Restrict(u, s))
             Im(s) == {b[i] : i \in s}
             F == {s \in SUBSET D : Sum(g, s) = Sum(h, Im(s))}
  <1>1. E = Im(D)
    OBVIOUS
  <1>2. IsFiniteSet(E)
    <2>1. b \in Surjection(D, E)
      BY DEF Surjection
    <2> QED
      BY <2>1, FS_Surjection
  <1>3. ASSUME NEW s \in SUBSET D
        PROVE  /\ Sum(g, s) \in Int
               /\ s = {} => Sum(g, s) = 0
               /\ \A x \in s : Sum(g, s) = g[x] + Sum(g, s \ {x})
    BY SumOn
  <1>4. ASSUME NEW r \in SUBSET E
        PROVE  /\ Sum(h, r) \in Int
               /\ r = {} => Sum(h, r) = 0
               /\ \A y \in r : Sum(h, r) = h[y] + Sum(h, r \ {y})
    BY <1>2, SumOn
  <1> HIDE DEF Sum
  <1>5. ASSUME NEW s \in SUBSET D, \A x \in s : s \ {x} \in F
        PROVE  s \in F
    <2>0. Im(s) \in SUBSET E
      OBVIOUS
    <2>1. CASE s = {}
      <3>1. Im(s) = {}
        BY <2>1
      <3>2. Sum(g, s) = 0 /\ Sum(h, Im(s)) = 0
        BY <1>3, <1>4, <2>0, <2>1, <3>1
      <3> QED
        BY <3>2
    <2>2. CASE s # {}
      <3>1. PICK x \in s : TRUE
        BY <2>2
      <3>2. Im(s \ {x}) = Im(s) \ {b[x]} /\ b[x] \in Im(s)
        OBVIOUS
      <3>3. Sum(g, s \ {x}) = Sum(h, Im(s \ {x}))
        BY <1>5
      <3>4. h[b[x]] = g[x]
        OBVIOUS
      <3> HIDE DEF Im
      <3>5. Sum(g, s) = g[x] + Sum(g, s \ {x})
        BY <1>3
      <3>6. Sum(h, Im(s)) = h[b[x]] + Sum(h, Im(s) \ {b[x]})
        BY <1>4, <2>0, <3>2
      <3> QED
        BY <3>2, <3>3, <3>4, <3>5, <3>6
    <2> QED
      BY <2>1, <2>2
  <1>6. ClosedUp(D, F)
    <2> HIDE DEF F
    <2> QED
      BY <1>5 DEF ClosedUp
  <1>7. D \in F
    <2> HIDE DEF F
    <2>1. SUBSET D \subseteq F
      BY <1>6, SubsetInduction
    <2> QED
      BY <2>1
  <1>8. Sum(g, D) = Sum(h, E)
    BY <1>1, <1>7
  <1> QED
    BY <1>8, RestrictAll DEF Sum
=============================================================================
