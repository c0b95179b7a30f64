------------------------- MODULE ShareRotationProofs -------------------------
(***************************************************************************)
(* Proofs about ShareRotation, for every prime, committee size, number of  *)
(* rotations and choice of random coefficients: what is blamed is what was *)
(* altered, the keys of a pair are formable by its ends, and the published *)
(* secret survives every ceremony, rotation and loss of shares.            *)
(***************************************************************************)
EXTENDS ShareRotation, ShamirProofs

-----------------------------------------------------------------------------
(* The inductive invariant.                                                *)

\* The contributions of n dealers.
ContribsShape(c, n) ==
  /\ c \in [commits : [1 .. n -> Poly(c.t)], t : 1 .. (n - 1),
            inputs : [1 .. n -> [1 .. n -> Field]],
            altered : SUBSET ((1 .. n) \X (1 .. n))]
  /\ \A i, j \in 1 .. n :
       <<i, j>> \in c.altered
         <=> c.inputs[j][i] # EvaluateAt(c.commits[i], c.t, j)

\* A delivery differs from what its dealer committed to exactly when it was
\* altered on the way.
ContribsInv ==
  contribs # Nil => \E n \in 2 .. MaxParties : ContribsShape(contribs, n)

\* What Round2 gave to party j of n: the sums over polynomials of degree below
\* t, the commitments it verified.
ResultShape(r, n, t, j) ==
  /\ r.commits \in [1 .. n -> Poly(t)]
  /\ r.secretShare = FieldSum([i \in 1 .. n |-> EvaluateAt(r.commits[i], t, j)])
  /\ r.bTilde = FieldSum([i \in 1 .. n |-> r.commits[i][0]])

\* A DKG of n parties.
DKGShape(n) ==
  /\ dkg.n = n /\ dkg.t \in 1 .. (n - 1)
  /\ DOMAIN results = 1 .. n
  /\ \A o \in outputs : \E d \in Nat \ {0} : o.commits \in Poly(d)
  /\ \A j \in 1 .. n : results[j] # Nil => ResultShape(results[j], n, dkg.t, j)

DKGInv == dkg # Nil => \E n \in 2 .. MaxParties : DKGShape(n)

\* The shares are a sharing of the secret.
SharingInv == threshold # 0 => IsSharing(shares, threshold, secret)

IInv ==
  /\ TypeOK
  /\ ContribsInv
  /\ DKGInv
  /\ BlameJustified
  /\ SharingInv

-----------------------------------------------------------------------------
(* Facts about the constants.                                              *)

\* Committees are sets of points, and random polynomials polynomials.
LEMMA Committees ==
  /\ MaxParties \in Nat
  /\ \A n \in 1 .. MaxParties :
       /\ 1 .. n \in SUBSET Points
       /\ IsFiniteSet(1 .. n) /\ Cardinality(1 .. n) = n
  /\ \A t \in Nat \ {0} : Polynomials(t) \subseteq Poly(t)
  /\ \A S, t : Draws(S, t, Rand) \subseteq Draws(S, t, Field)
  <1>1. MaxParties \in Nat /\ MaxParties <= Q - 1
    BY CeremonyBoundAssumption, QAssumption
  <1>2. ASSUME NEW n \in 1 .. MaxParties
        PROVE  /\ 1 .. n \in SUBSET Points
               /\ IsFiniteSet(1 .. n) /\ Cardinality(1 .. n) = n
    <2>1. 1 .. n \in SUBSET Points
      BY <1>1, QAssumption DEF Points
    <2>2. n \in Int /\ 1 \in Int /\ ~ (1 > n)
      BY <1>1
    <2>3. IsFiniteSet(1 .. n) /\ Cardinality(1 .. n) = (n - 1) + 1
      BY <2>2, FS_Interval
    <2> QED
      BY <1>1, <2>1, <2>3
  <1>3. \A t \in Nat \ {0} : Polynomials(t) \subseteq Poly(t)
    BY RandAssumption DEF Polynomials, Poly
  <1>4. ASSUME NEW S, NEW t, NEW draw \in Draws(S, t, Rand)
        PROVE  draw \in Draws(S, t, Field)
    BY RandAssumption DEF Draws
  <1> QED
    BY <1>1, <1>2, <1>3, <1>4

\* A key given out by a ceremony with a sharing of it re-establishes the
\* invariant.
LEMMA PublishStep ==
  ASSUME TypeOK, threshold = 0, rotations' = rotations,
         NEW k, NEW m, NEW t \in 1 .. MaxParties, Publish(k, m, t),
         DOMAIN m \in SUBSET Points, IsSharing(m, t, k)
  PROVE  IInv'
  <1>0. t \in Nat \ {0}
    BY Committees
  <1>1. k \in Field /\ \A i \in DOMAIN m : m[i] \in Field
    BY <1>0, SharingType, PointsFinite
  <1>2. /\ secret' = k /\ shares' = m /\ threshold' = t
        /\ contribs' = Nil /\ dkg' = Nil /\ abort' = Nil
    BY DEF Publish
  <1>3. TypeOK'
    BY <1>0, <1>1, <1>2, Committees DEF TypeOK, Points
  <1>4. ContribsInv' /\ DKGInv'
    BY <1>2 DEF ContribsInv, DKGInv
  <1>5. BlameJustified'
    BY <1>2 DEF BlameJustified, Aborted
  <1>6. SharingInv'
    BY <1>2 DEF SharingInv
  <1> QED
    BY <1>3, <1>4, <1>5, <1>6 DEF IInv

-----------------------------------------------------------------------------
(* The trusted dealer.                                                     *)

\* The dealer of one polynomial.
LEMMA TrustedDealerStep ==
  ASSUME IInv, TrustedDealerNext, rotations' = rotations
  PROVE  IInv'
  <1>1. PICK n \in 1 .. MaxParties : \E t \in 1 .. n :
          \E f \in Polynomials(t) : TrustedDealing(n, t, f)
    BY DEF TrustedDealerNext
  <1>2. PICK t \in 1 .. n : \E f \in Polynomials(t) : TrustedDealing(n, t, f)
    BY <1>1
  <1>3. PICK f \in Polynomials(t) : TrustedDealing(n, t, f)
    BY <1>2
  <1> DEFINE m == ShamirSecretSharingGeneral(f, t, n)
  <1>4. t \in Nat \ {0} /\ t \in 1 .. MaxParties /\ f \in Poly(t)
    BY Committees
  <1>5. DOMAIN m = 1 .. n /\ DOMAIN m \in SUBSET Points
    BY Committees DEF ShamirSecretSharingGeneral
  <1>6. \A x \in 1 .. n : m[x] = EvaluateAt(f, t, x)
    <2>1. \A x \in 1 .. n : EvaluateByPowers(f, t, x) = EvaluateAt(f, t, x)
      BY <1>4, Committees, PowersAgree
    <2> QED
      BY <2>1 DEF ShamirSecretSharingGeneral
  <1>7. Publish(f[0], m, t) /\ threshold = 0
    BY <1>3 DEF TrustedDealing, Idle
  <1> HIDE DEF m
  <1>8. IsSharing(m, t, f[0])
    BY <1>4, <1>5, <1>6 DEF IsSharing
  <1> QED
    BY <1>4, <1>5, <1>7, <1>8, PublishStep DEF IInv

-----------------------------------------------------------------------------
(* The Pedersen ceremony.                                                  *)

\* DealPedersen: nothing is altered yet.
LEMMA DealStep ==
  ASSUME IInv, rotations' = rotations,
         NEW n \in 1 .. MaxParties, NEW t \in 1 .. n,
         NEW fs \in [1 .. n -> Polynomials(t)], DealPedersen(n, t, fs)
  PROVE  IInv'
  <1> DEFINE inp == [j \in 1 .. n |->
                       [i \in 1 .. n |-> EvaluateAt(fs[i], t, j)]]
             c == [commits |-> fs, t |-> t, inputs |-> inp, altered |-> {}]
  <1>1. /\ n \in Nat /\ n >= 2 /\ t \in 1 .. (n - 1) /\ t \in Nat \ {0}
        /\ n \in 2 .. MaxParties
    BY Committees DEF DealPedersen, PedersenShape
  <1>2. /\ contribs' = c /\ abort' = Nil /\ dkg = Nil /\ threshold = 0
        /\ UNCHANGED <<dkg, outputs, results, secret, shares, threshold>>
    BY DEF DealPedersen, keyVars
  <1>3. fs \in [1 .. n -> Poly(t)]
    BY <1>1, Committees
  <1>4. \A i, j \in 1 .. n : EvaluateAt(fs[i], t, j) \in Field
    BY <1>1, <1>3, EvaluateType
  <1>5. inp \in [1 .. n -> [1 .. n -> Field]]
    BY <1>4
  <1>6. ContribsShape(c, n)
    <2>1. \A i, j \in 1 .. n : inp[j][i] = EvaluateAt(fs[i], t, j)
      OBVIOUS
    <2> HIDE DEF inp
    <2>2. /\ c.commits = fs /\ c.t = t /\ c.inputs = inp /\ c.altered = {}
      OBVIOUS
    <2>3. c \in [commits : [1 .. n -> Poly(t)], t : 1 .. (n - 1),
                 inputs : [1 .. n -> [1 .. n -> Field]],
                 altered : SUBSET ((1 .. n) \X (1 .. n))]
      BY <1>1, <1>3, <1>5
    <2> HIDE DEF c
    <2> QED
      BY <2>1, <2>2, <2>3 DEF ContribsShape
  <1> HIDE DEF c
  <1>7. ContribsInv'
    BY <1>1, <1>2, <1>6 DEF ContribsInv
  <1>8. TypeOK'
    BY <1>2 DEF IInv, TypeOK
  <1>9. DKGInv' /\ BlameJustified' /\ SharingInv'
    BY <1>2 DEF DKGInv, BlameJustified, Aborted, SharingInv
  <1> QED
    BY <1>7, <1>8, <1>9 DEF IInv

\* A shift that is not 0 in the field changes a field element.
LEMMA ShiftChanges ==
  ASSUME NEW a \in Field, NEW shift \in Int, shift % Q # 0
  PROVE  (a + shift) % Q \in Field /\ (a + shift) % Q # a
  <1>1. a \in Int /\ a % Q = a
    BY FieldMod
  <1>2. (a + shift) % Q \in Field
    BY <1>1, ModType
  <1>3. ASSUME (a + shift) % Q = a
        PROVE  FALSE
    <2>1. a + shift \in Int /\ Cong(a + shift, a)
      BY <1>1, <1>3 DEF Cong
    <2>2. Cong((a + shift) - a, a - a)
      BY <1>1, <2>1, CongOps, CongRefl
    <2>3. (a + shift) - a = shift /\ a - a = 0 /\ 0 % Q = 0
      BY <1>1, QAssumption
    <2> QED
      BY <2>2, <2>3 DEF Cong
  <1> QED
    BY <1>2, <1>3

\* An altered delivery: the pair is recorded, the others stay as they were.
LEMMA AlterStep ==
  ASSUME IInv, rotations' = rotations,
         NEW i \in 1 .. MaxParties, NEW j \in 1 .. MaxParties,
         NEW shift \in Rand, AlterDelivery(i, j, shift)
  PROVE  IInv'
  <1>1. PICK n \in 2 .. MaxParties : ContribsShape(contribs, n)
    BY DEF AlterDelivery, IInv, ContribsInv
  <1> DEFINE c == contribs
             b == (c.inputs[j][i] + shift) % Q
             d == [c EXCEPT !.inputs[j][i] = (@ + shift) % Q,
                            !.altered = @ \cup {<<i, j>>}]
  <1>2. /\ contribs' = d /\ abort = Nil /\ abort' = abort
        /\ {i, j} \subseteq DOMAIN c.inputs /\ <<i, j>> \notin c.altered
        /\ shift % Q # 0 /\ c # Nil
        /\ UNCHANGED <<dkg, outputs, results, secret, shares, threshold>>
    BY DEF AlterDelivery, Aborted, keyVars
  <1>3. /\ c \in [commits : [1 .. n -> Poly(c.t)], t : 1 .. (n - 1),
                  inputs : [1 .. n -> [1 .. n -> Field]],
                  altered : SUBSET ((1 .. n) \X (1 .. n))]
        /\ \A p, q \in 1 .. n :
             <<p, q>> \in c.altered
               <=> c.inputs[q][p] # EvaluateAt(c.commits[p], c.t, q)
    BY <1>1 DEF ContribsShape
  <1> HIDE DEF c
  <1>4. i \in 1 .. n /\ j \in 1 .. n
    BY <1>2, <1>3
  <1>5. c.inputs[j][i] \in Field /\ b \in Field /\ b # c.inputs[j][i]
    <2>1. c.inputs[j][i] \in Field
      BY <1>3, <1>4
    <2>2. shift \in Int
      BY RandAssumption, FieldMod
    <2> QED
      BY <1>2, <2>1, <2>2, ShiftChanges
  <1>6. c.inputs[j][i] = EvaluateAt(c.commits[i], c.t, j)
    BY <1>2, <1>3, <1>4
  <1> HIDE DEF b
  <1>7. /\ d.commits = c.commits /\ d.t = c.t
        /\ d.altered = c.altered \cup {<<i, j>>}
        /\ d.inputs = [c.inputs EXCEPT ![j] = [c.inputs[j] EXCEPT ![i] = b]]
        /\ d \in [commits : [1 .. n -> Poly(c.t)], t : 1 .. (n - 1),
                  inputs : [1 .. n -> [1 .. n -> Field]],
                  altered : SUBSET ((1 .. n) \X (1 .. n))]
    <2>1. d = [commits |-> c.commits, t |-> c.t,
               inputs |-> [c.inputs EXCEPT ![j] = [c.inputs[j] EXCEPT ![i] = b]],
               altered |-> c.altered \cup {<<i, j>>}]
      <3>1. d = [f \in {"commits", "t", "inputs", "altered"} |->
                   IF f = "altered" THEN c.altered \cup {<<i, j>>}
                   ELSE IF f = "inputs"
                   THEN [c.inputs EXCEPT ![j] = [c.inputs[j] EXCEPT ![i] = b]]
                   ELSE c[f]]
        BY <1>3, <1>4 DEF b
      <3> HIDE DEF d
      <3> QED
        BY <3>1
    <2>2. [c.inputs EXCEPT ![j] = [c.inputs[j] EXCEPT ![i] = b]]
            \in [1 .. n -> [1 .. n -> Field]]
      BY <1>3, <1>4, <1>5
    <2>3. c.altered \cup {<<i, j>>} \in SUBSET ((1 .. n) \X (1 .. n))
      BY <1>3, <1>4
    <2> HIDE DEF d
    <2> QED
      BY <1>3, <2>1, <2>2, <2>3
  <1> HIDE DEF d
  <1>8. ASSUME NEW p \in 1 .. n, NEW q \in 1 .. n
        PROVE  <<p, q>> \in d.altered
                 <=> d.inputs[q][p] # EvaluateAt(d.commits[p], d.t, q)
    <2>1. CASE p = i /\ q = j
      <3>1. d.inputs[q][p] = b /\ <<p, q>> \in d.altered
        BY <1>3, <1>4, <1>7, <2>1
      <3> QED
        BY <1>5, <1>6, <1>7, <2>1, <3>1
    <2>2. CASE ~ (p = i /\ q = j)
      <3>1. d.inputs[q][p] = c.inputs[q][p]
        BY <1>3, <1>4, <1>7, <2>2
      <3>2. <<p, q>> \in d.altered <=> <<p, q>> \in c.altered
        BY <1>7, <2>2
      <3> QED
        BY <1>3, <1>7, <3>1, <3>2
    <2> QED
      BY <2>1, <2>2
  <1>9. ContribsShape(d, n)
    BY <1>7, <1>8 DEF ContribsShape
  <1>10. ContribsInv'
    BY <1>2, <1>9 DEF ContribsInv
  <1>11. TypeOK'
    <2>1. dkg = Nil /\ threshold = 0
      BY <1>2 DEF IInv, TypeOK, c
    <2> QED
      BY <1>2, <2>1 DEF IInv, TypeOK
  <1>12. DKGInv' /\ SharingInv'
    BY <1>2 DEF IInv, DKGInv, DKGShape, SharingInv
  <1>13. BlameJustified'
    BY <1>2 DEF BlameJustified, Aborted
  <1> QED
    BY <1>10, <1>11, <1>12, <1>13 DEF IInv

\* Recipients with a bad delivery are those with an altered one.
LEMMA AccusersAltered ==
  ASSUME NEW n \in 2 .. MaxParties, ContribsShape(contribs, n)
  PROVE  /\ \A j \in 1 .. n : \A i : i \in BadDealers(j)
              <=> i \in 1 .. n /\ <<i, j>> \in contribs.altered
         /\ Accusers = {j \in 1 .. n : \E i \in 1 .. n :
                          <<i, j>> \in contribs.altered}
         /\ DOMAIN contribs.inputs = 1 .. n /\ DOMAIN contribs.commits = 1 .. n
  <1>1. DOMAIN contribs.inputs = 1 .. n /\ DOMAIN contribs.commits = 1 .. n
    BY DEF ContribsShape
  <1>2. \A j \in 1 .. n : \A i : i \in BadDealers(j)
          <=> i \in 1 .. n /\ <<i, j>> \in contribs.altered
    BY <1>1 DEF ContribsShape, BadDealers
  <1>3. Accusers = {j \in 1 .. n : \E i \in 1 .. n :
                      <<i, j>> \in contribs.altered}
    BY <1>1, <1>2 DEF Accusers
  <1> QED
    BY <1>1, <1>2, <1>3

\* FinishBootstrapPedersen, all deliveries good: the aggregate shares are a
\* sharing of the aggregate key.
LEMMA FinishStep ==
  ASSUME IInv, rotations' = rotations, FinishPedersen
  PROVE  IInv'
  <1>1. contribs # Nil /\ Accusers = {}
    BY DEF FinishPedersen
  <1>2. PICK n \in 2 .. MaxParties : ContribsShape(contribs, n)
    BY <1>1 DEF IInv, ContribsInv
  <1> DEFINE c == contribs
             t == contribs.t
             m == [j \in 1 .. n |-> AggregateShare(j)]
             s == FieldSum([i \in 1 .. n |-> c.commits[i][0]])
  <1>3. /\ n \in 1 .. MaxParties /\ t \in 1 .. (n - 1) /\ t \in Nat \ {0}
        /\ t \in 1 .. MaxParties /\ n >= t
    BY <1>2, Committees DEF ContribsShape
  <1>4. /\ 1 .. n \in SUBSET Points /\ IsFiniteSet(1 .. n)
        /\ Cardinality(1 .. n) = n /\ 1 .. n \subseteq Int
    BY <1>3, Committees
  <1>5. c.commits \in [1 .. n -> Poly(t)] /\ DOMAIN c.inputs = 1 .. n
    BY <1>2 DEF ContribsShape
  <1>6. \A i, j \in 1 .. n : c.inputs[j][i] = EvaluateAt(c.commits[i], t, j)
    BY <1>1, <1>2, AccusersAltered DEF ContribsShape
  <1>7. \A j \in 1 .. n :
          m[j] = FieldSum([i \in 1 .. n |-> EvaluateAt(c.commits[i], t, j)])
    <2> SUFFICES ASSUME NEW j \in 1 .. n
                 PROVE  m[j] = FieldSum([i \in 1 .. n |->
                                           EvaluateAt(c.commits[i], t, j)])
      OBVIOUS
    <2>1. m[j] = FieldSum([i \in 1 .. n |-> c.inputs[j][i]])
      BY <1>5 DEF AggregateShare
    <2>2. [i \in 1 .. n |-> c.inputs[j][i]]
            = [i \in 1 .. n |-> EvaluateAt(c.commits[i], t, j)]
      BY <1>6
    <2> QED
      BY <2>1, <2>2
  <1>8. DOMAIN m = 1 .. n
    OBVIOUS
  <1>9. Publish(AggregateKey(m, n), m, t)
    <2>1. Cardinality(DOMAIN contribs.inputs) = n
      BY <1>4, <1>5
    <2> QED
      BY <2>1, Zenon DEF FinishPedersen
  <1> HIDE DEF c, t, m
  <1>10. IsSharing(m, t, s)
    <2> DEFINE fs == c.commits
    <2>1. fs \in [1 .. n -> Poly(t)]
      BY <1>5
    <2>2. \A j \in DOMAIN m :
            m[j] = FieldSum([i \in 1 .. n |-> EvaluateAt(fs[i], t, j)])
      BY <1>7, <1>8
    <2>3. DOMAIN m \subseteq Int
      BY <1>4, <1>8
    <2>4. s = FieldSum([i \in 1 .. n |-> fs[i][0]])
      OBVIOUS
    <2> HIDE DEF fs, s
    <2>5. IsSharing(m, t, FieldSum([i \in 1 .. n |-> fs[i][0]]))
      BY <1>3, <1>4, <2>1, <2>2, <2>3, SharingSum
    <2> QED
      BY <2>4, <2>5
  <1>11. AggregateKey(m, n) = Reconstruct(m, 1 .. n)
    BY DEF AggregateKey, Reconstruct
  <1>12. Reconstruct(m, 1 .. n) = s
    <2> HIDE DEF s
    <2> QED
      BY <1>3, <1>4, <1>8, <1>10, ReconstructSharing
  <1>13. IsSharing(m, t, AggregateKey(m, n))
    BY <1>10, <1>11, <1>12
  <1>14. threshold = 0
    BY <1>1 DEF IInv, TypeOK
  <1> QED
    BY <1>3, <1>4, <1>8, <1>9, <1>13, <1>14, PublishStep DEF IInv

\* A nonempty set of naturals has a minimum.
LEMMA MinIn ==
  ASSUME NEW S \in SUBSET Nat, S # {}
  PROVE  Min(S) \in S /\ \A y \in S : Min(S) <= y
  <1>1. \E x \in S : \A y \in S : x <= y
    BY LeastNat
  <1> QED
    BY <1>1 DEF Min

\* FinishBootstrapPedersen, abort: the evidence names an altered delivery.
LEMMA AbortStep ==
  ASSUME IInv, rotations' = rotations, AbortPedersen
  PROVE  IInv'
  <1>1. /\ contribs # Nil /\ Accusers # {}
        /\ UNCHANGED <<contribs, dkg, outputs, results, secret, shares,
                       threshold>>
    BY DEF AbortPedersen, keyVars
  <1>2. PICK n \in 2 .. MaxParties : ContribsShape(contribs, n)
    BY <1>1 DEF IInv, ContribsInv
  <1> DEFINE r == Min(Accusers)
  <1>3. /\ Accusers \in SUBSET Nat /\ Accusers \subseteq 1 .. n
    BY <1>2, AccusersAltered
  <1>4. r \in Accusers /\ \A y \in Accusers : r <= y
    BY <1>1, <1>3, MinIn
  <1> HIDE DEF r
  <1>5. PICK dealer \in BadDealers(r) : abort' = BuildAbortEvidence(dealer, r)
    BY DEF AbortPedersen, r
  <1>6. /\ abort'.Accused = dealer /\ abort'.Accuser = r
        /\ abort'.Disqualified = {dealer}
    BY <1>5 DEF BuildAbortEvidence
  <1>7. <<dealer, r>> \in contribs.altered
    BY <1>2, <1>3, <1>4, <1>5, AccusersAltered
  <1>8. \A p \in contribs.altered : p[2] >= r
    <2> SUFFICES ASSUME NEW p \in contribs.altered
                 PROVE  p[2] >= r
      OBVIOUS
    <2>1. p \in (1 .. n) \X (1 .. n)
      BY <1>2 DEF ContribsShape
    <2>2. p[1] \in 1 .. n /\ p[2] \in 1 .. n /\ p = <<p[1], p[2]>>
      BY <2>1
    <2>3. p[2] \in Accusers
      BY <1>2, <2>2, AccusersAltered
    <2> QED
      BY <1>3, <1>4, <2>3
  <1>9. BlameJustified'
    BY <1>1, <1>6, <1>7, <1>8 DEF BlameJustified
  <1>10. TypeOK' /\ SharingInv'
    BY <1>1 DEF IInv, TypeOK, SharingInv
  <1>11. ContribsInv' /\ DKGInv'
    BY <1>1 DEF IInv, ContribsInv, ContribsShape, DKGInv, DKGShape
  <1> QED
    BY <1>9, <1>10, <1>11 DEF IInv

\* The ceremony.
LEMMA PedersenStep ==
  ASSUME IInv, rotations' = rotations, PedersenNext
  PROVE  IInv'
  <1>1. CASE \E n \in 1 .. MaxParties : \E t \in 1 .. n :
               \E fs \in [1 .. n -> Polynomials(t)] : DealPedersen(n, t, fs)
    BY <1>1, DealStep
  <1>2. CASE \E i, j \in 1 .. MaxParties, shift \in Rand :
               AlterDelivery(i, j, shift)
    BY <1>2, AlterStep
  <1>3. CASE FinishPedersen
    BY <1>3, FinishStep
  <1>4. CASE AbortPedersen
    BY <1>4, AbortStep
  <1> QED
    BY <1>1, <1>2, <1>3, <1>4 DEF PedersenNext

-----------------------------------------------------------------------------
(* The DKG.                                                                *)

\* Steps of the DKG leave the rest alone.
LEMMA DKGFrame ==
  ASSUME IInv, rotations' = rotations, threshold = 0, contribs = Nil,
         UNCHANGED <<contribs, abort, keyVars>>
  PROVE  TypeOK' /\ ContribsInv' /\ BlameJustified' /\ SharingInv'
  <1>1. UNCHANGED <<contribs, abort, secret, shares, threshold>>
    BY DEF keyVars
  <1>2. TypeOK'
    BY <1>1 DEF IInv, TypeOK
  <1>3. ContribsInv' /\ SharingInv'
    BY <1>1 DEF ContribsInv, SharingInv
  <1>4. BlameJustified'
    BY <1>1 DEF IInv, BlameJustified, Aborted
  <1> QED
    BY <1>2, <1>3, <1>4

\* NewDKGSession: nothing sent, nothing computed.
LEMMA NewSessionStep ==
  ASSUME IInv, rotations' = rotations,
         NEW n \in 1 .. MaxParties, NEW t \in 1 .. MaxParties,
         NewDKGSession(n, t)
  PROVE  IInv'
  <1>1. TypeOK' /\ ContribsInv' /\ BlameJustified' /\ SharingInv'
    BY DKGFrame DEF NewDKGSession, Idle
  <1>2. /\ dkg' = [n |-> n, t |-> t] /\ outputs' = {}
        /\ results' = [j \in 1 .. n |-> Nil] /\ t \in 1 .. (n - 1)
        /\ n \in 2 .. MaxParties
    BY Committees DEF NewDKGSession
  <1>3. DKGShape(n)'
    <2>1. dkg'.n = n /\ dkg'.t = t
      BY <1>2
    <2>2. DOMAIN results' = 1 .. n /\ \A j \in 1 .. n : results'[j] = Nil
      BY <1>2
    <2> QED
      BY <1>2, <2>1, <2>2 DEF DKGShape
  <1>4. DKGInv'
    BY <1>2, <1>3 DEF DKGInv
  <1> QED
    BY <1>1, <1>4 DEF IInv

\* The DKG under way, from the invariant.
LEMMA DKGFacts ==
  ASSUME IInv, dkg # Nil
  PROVE  /\ threshold = 0 /\ contribs = Nil
         /\ \E n \in 2 .. MaxParties : DKGShape(n)
  BY DEF IInv, TypeOK, DKGInv

\* A Round1 output, good or bad.
LEMMA SendStep ==
  ASSUME IInv, rotations' = rotations, NEW i, NEW d \in Nat \ {0},
         NEW f \in Polynomials(d), NEW victim, SendOutput(i, d, f, victim)
  PROVE  IInv'
  <1>1. dkg # Nil /\ UNCHANGED <<contribs, abort, dkg, results, keyVars>>
    BY DEF SendOutput
  <1>2. threshold = 0 /\ contribs = Nil
    BY <1>1, DKGFacts
  <1>3. TypeOK' /\ ContribsInv' /\ BlameJustified' /\ SharingInv'
    BY <1>1, <1>2, DKGFrame
  <1>4. PICK n \in 2 .. MaxParties : DKGShape(n)
    BY <1>1, DKGFacts
  <1>5. \A o \in outputs' : o \in outputs \/ o.commits = f
    BY DEF SendOutput
  <1>6. f \in Poly(d)
    BY Committees
  <1>7. DKGShape(n)'
    BY <1>1, <1>4, <1>5, <1>6 DEF DKGShape
  <1> QED
    BY <1>3, <1>7 DEF IInv, DKGInv

\* A polynomial of t coefficients has degree below t.
LEMMA PolyDegree ==
  ASSUME NEW d \in Nat \ {0}, NEW f \in Poly(d), NEW t,
         Cardinality(DOMAIN f) = t
  PROVE  f \in Poly(t)
  <1>1. DOMAIN f = 0 .. (d - 1)
    BY DEF Poly
  <1>2. 0 \in Int /\ d - 1 \in Int /\ ~ (0 > d - 1)
    OBVIOUS
  <1>3. Cardinality(0 .. (d - 1)) = ((d - 1) - 0) + 1
    BY <1>2, FS_Interval
  <1>4. t = d
    BY <1>1, <1>3
  <1> QED
    BY <1>4

\* Round2: the shares party j adds up are those of the commitments it keeps.
LEMMA Round2Step ==
  ASSUME IInv, rotations' = rotations, dkg # Nil, NEW j, NEW s \in Received,
         NEW c \in Received, Round2(j, s, c)
  PROVE  IInv'
  <1>1. UNCHANGED <<contribs, abort, dkg, outputs, keyVars>>
    BY DEF Round2
  <1>2. threshold = 0 /\ contribs = Nil
    BY DKGFacts
  <1>3. TypeOK' /\ ContribsInv' /\ BlameJustified' /\ SharingInv'
    BY <1>1, <1>2, DKGFrame
  <1>4. PICK n \in 2 .. MaxParties : DKGShape(n)
    BY DKGFacts
  <1> DEFINE t == dkg.t
             fs == [i \in 1 .. n |-> c[i].commits]
             r == [secretShare |-> FieldSum([i \in 1 .. n |-> s[i].shares[j]]),
                   bTilde |-> FieldSum([i \in 1 .. n |-> c[i].commits[0]]),
                   commits |-> fs]
  <1>5. /\ dkg.n = n /\ t \in 1 .. (n - 1) /\ DOMAIN results = 1 .. n
        /\ \A o \in outputs : \E d \in Nat \ {0} : o.commits \in Poly(d)
        /\ \A k \in 1 .. n : results[k] # Nil => ResultShape(results[k], n, t, k)
    BY <1>4 DEF DKGShape
  <1>6. \A i \in 1 .. n :
          /\ Cardinality(DOMAIN c[i].commits) = t
          /\ s[i].shares[j] = EvaluateAt(c[i].commits, t, j)
    BY <1>5 DEF Round2, ShareVerifies
  <1>7. results' = [results EXCEPT ![j] = r]
    BY <1>5, Zenon DEF Round2
  <1>8. \A i \in 1 .. n : c[i].commits \in Poly(t)
    <2> SUFFICES ASSUME NEW i \in 1 .. n
                 PROVE  c[i].commits \in Poly(t)
      OBVIOUS
    <2>1. c[i] \in outputs
      BY <1>5 DEF Received
    <2>2. PICK d \in Nat \ {0} : c[i].commits \in Poly(d)
      BY <1>5, <2>1
    <2> QED
      BY <1>6, <2>2, PolyDegree
  <1>9. ResultShape(r, n, t, j)
    <2>1. fs \in [1 .. n -> Poly(t)]
      BY <1>8
    <2>2. [i \in 1 .. n |-> s[i].shares[j]]
            = [i \in 1 .. n |-> EvaluateAt(fs[i], t, j)]
      BY <1>6
    <2>3. [i \in 1 .. n |-> c[i].commits[0]] = [i \in 1 .. n |-> fs[i][0]]
      OBVIOUS
    <2>4. /\ r.commits = fs
          /\ r.secretShare = FieldSum([i \in 1 .. n |-> EvaluateAt(fs[i], t, j)])
          /\ r.bTilde = FieldSum([i \in 1 .. n |-> fs[i][0]])
      BY <2>2, <2>3, Zenon
    <2> HIDE DEF r, fs
    <2> QED
      BY <2>1, <2>4 DEF ResultShape
  <1> HIDE DEF r
  <1>10. DKGShape(n)'
    <2>1. /\ dkg' = dkg /\ outputs' = outputs
          /\ \A k \in 1 .. n : results'[k] = IF k = j THEN r ELSE results[k]
          /\ DOMAIN results' = 1 .. n
      BY <1>1, <1>5, <1>7
    <2>2. \A k \in 1 .. n : results'[k] # Nil
                              => ResultShape(results'[k], n, t, k)
      BY <1>5, <1>9, <2>1
    <2> QED
      BY <1>5, <2>1, <2>2 DEF DKGShape
  <1> QED
    BY <1>3, <1>10 DEF IInv, DKGInv

\* AdoptKey: parties that saw the same commitments hold a sharing of the key.
LEMMA AdoptStep ==
  ASSUME IInv, rotations' = rotations, dkg # Nil, NEW S, AdoptKey(S)
  PROVE  IInv'
  <1>2. threshold = 0
    BY DKGFacts
  <1>3. PICK n \in 2 .. MaxParties : DKGShape(n)
    BY DKGFacts
  <1> DEFINE t == dkg.t
             k == CHOOSE j \in S : TRUE
             m == [j \in S |-> results[j].secretShare]
             fs == results[k].commits
  <1>4. /\ t \in 1 .. (n - 1) /\ DOMAIN results = 1 .. n
        /\ \A j \in 1 .. n : results[j] # Nil => ResultShape(results[j], n, t, j)
    BY <1>3 DEF DKGShape
  <1>5. /\ S # {} /\ S \subseteq 1 .. n /\ \A j \in S : results[j] # Nil
        /\ \A i, j \in S : results[i].commits = results[j].commits
    BY <1>4 DEF AdoptKey
  <1>6. Publish(results[k].bTilde, m, t)
    BY Zenon DEF AdoptKey
  <1>7. k \in S
    BY <1>5
  <1> HIDE DEF k
  <1>8. fs \in [1 .. n -> Poly(t)]
    BY <1>4, <1>5, <1>7 DEF ResultShape
  <1>9. results[k].bTilde = FieldSum([i \in 1 .. n |-> fs[i][0]])
    BY <1>4, <1>5, <1>7 DEF ResultShape
  <1>10. \A j \in S :
           m[j] = FieldSum([i \in 1 .. n |-> EvaluateAt(fs[i], t, j)])
    <2> SUFFICES ASSUME NEW j \in S
                 PROVE  m[j] = FieldSum([i \in 1 .. n |->
                                           EvaluateAt(fs[i], t, j)])
      OBVIOUS
    <2>1. /\ results[j].commits = fs
          /\ results[j].secretShare
               = FieldSum([i \in 1 .. n |->
                             EvaluateAt(results[j].commits[i], t, j)])
      BY <1>4, <1>5, <1>7 DEF ResultShape
    <2> HIDE DEF fs
    <2> QED
      BY <2>1, Zenon
  <1>11. DOMAIN m = S
    OBVIOUS
  <1>12. /\ n \in 1 .. MaxParties /\ t \in 1 .. MaxParties /\ t \in Nat \ {0}
         /\ IsFiniteSet(1 .. n) /\ S \in SUBSET Points /\ S \subseteq Int
    BY <1>4, <1>5, Committees
  <1> HIDE DEF fs, m, t
  <1>13. IsSharing(m, t, FieldSum([i \in 1 .. n |-> fs[i][0]]))
    BY <1>8, <1>10, <1>11, <1>12, SharingSum
  <1>14. IsSharing(m, t, results[k].bTilde)
    BY <1>9, <1>13
  <1> QED
    BY <1>2, <1>6, <1>11, <1>12, <1>14, PublishStep DEF IInv

\* The DKG.
LEMMA DKGStep ==
  ASSUME IInv, rotations' = rotations, DKGNext
  PROVE  IInv'
  <1>1. CASE \E n, t \in 1 .. MaxParties : NewDKGSession(n, t)
    BY <1>1, NewSessionStep
  <1>2. CASE dkg # Nil
    <2>1. PICK n \in 2 .. MaxParties : DKGShape(n)
      BY <1>2, DKGFacts
    <2>2. dkg.t \in Nat \ {0}
      BY <2>1, Committees DEF DKGShape
    <2>3. CASE \E i \in 1 .. dkg.n, f \in Polynomials(dkg.t) : Round1(i, f)
      BY <2>2, <2>3, SendStep DEF Round1
    <2>4. CASE \E i \in 1 .. dkg.n, d \in {dkg.t, dkg.t + 1},
                  victim \in {Nil} \cup 1 .. dkg.n :
                 \E f \in Polynomials(d) : DealBadly(i, d, f, victim)
      <3>1. PICK i \in 1 .. dkg.n, d \in {dkg.t, dkg.t + 1},
                 victim \in {Nil} \cup 1 .. dkg.n :
              \E f \in Polynomials(d) : DealBadly(i, d, f, victim)
        BY <2>4
      <3>2. PICK f \in Polynomials(d) : DealBadly(i, d, f, victim)
        BY <3>1
      <3>3. d \in Nat \ {0}
        BY <2>2
      <3>4. SendOutput(i, d, f, victim)
        BY <3>2 DEF DealBadly
      <3> QED
        BY <3>3, <3>4, SendStep
    <2>5. CASE \E j \in 1 .. dkg.n, s, c \in Received : Round2(j, s, c)
      BY <1>2, <2>5, Round2Step
    <2>6. CASE \E S \in SUBSET (1 .. dkg.n) : AdoptKey(S)
      BY <1>2, <2>6, AdoptStep
    <2>7. CASE \E p, t \in 1 .. MaxParties : NewDKGSession(p, t)
      BY <1>1, <2>7
    <2> QED
      BY <2>3, <2>4, <2>5, <2>6, <2>7 DEF DKGNext
  <1> QED
    BY <1>1, <1>2 DEF DKGNext

-----------------------------------------------------------------------------
(* Rotations and losses.                                                   *)

\* What every step after the ceremony keeps, when its shares are a sharing.
LEMMA RotationFrame ==
  ASSUME IInv, threshold # 0, threshold' \in 1 .. MaxParties,
         rotations' \in 0 .. MaxRotations, UNCHANGED <<secret, ceremonyVars>>,
         DOMAIN shares' \in SUBSET Points,
         IsSharing(shares', threshold', secret)
  PROVE  IInv'
  <1>1. UNCHANGED <<contribs, abort, dkg, secret>> /\ contribs = Nil /\ dkg = Nil
    BY DEF ceremonyVars, IInv, TypeOK
  <1>2. /\ threshold' \in Nat \ {0} /\ DOMAIN shares' \subseteq Int
        /\ threshold' \in 0 .. MaxParties
    BY Committees, PointsFinite
  <1>3. \A i \in DOMAIN shares' : shares'[i] \in Field
    BY <1>2, SharingType
  <1>4. TypeOK'
    <2>1. /\ secret' \in Field
      BY <1>1 DEF IInv, TypeOK
    <2> QED
      BY <1>1, <1>2, <1>3, <2>1 DEF TypeOK, Points
  <1>5. ContribsInv' /\ DKGInv'
    BY <1>1 DEF ContribsInv, DKGInv
  <1>6. SharingInv'
    BY <1>1 DEF SharingInv
  <1>7. BlameJustified'
    BY <1>1 DEF IInv, BlameJustified, Aborted
  <1> QED
    BY <1>4, <1>5, <1>6, <1>7 DEF IInv

\* The sharing a rotation starts from.
LEMMA RotationFacts ==
  ASSUME IInv, threshold # 0
  PROVE  /\ threshold \in Nat \ {0} /\ threshold \in 1 .. MaxParties
         /\ DOMAIN shares \in SUBSET Points
         /\ IsSharing(shares, threshold, secret)
         /\ rotations \in 0 .. MaxRotations /\ MaxRotations \in Nat
  BY Committees, RotationBoundAssumption DEF IInv, TypeOK, SharingInv, Points

\* Reshare hands the secret to the new committee.
LEMMA ReshareStep ==
  ASSUME IInv, NEW newSet \in SUBSET ID, NEW tNew \in 1 .. Cardinality(newSet),
         Cardinality(newSet) <= MaxParties,
         NEW draw \in Draws(SelectQuorum(DOMAIN shares, threshold), tNew, Rand),
         Reshare(newSet, tNew, draw)
  PROVE  IInv'
  <1> DEFINE D == SelectQuorum(DOMAIN shares, threshold)
             k == ReshareKernel(shares, threshold, newSet, tNew, draw)
  <1>1. /\ threshold # 0 /\ rotations < MaxRotations
        /\ threshold <= Cardinality(DOMAIN shares)
        /\ shares' = k /\ threshold' = tNew /\ rotations' = rotations + 1
        /\ UNCHANGED <<secret, ceremonyVars>>
    BY DEF Reshare, ReshareAdmits
  <1>2. newSet \in SUBSET Points /\ newSet \in SUBSET Int
    BY IDAssumption, PointsFinite DEF Points
  <1>3. Cardinality(newSet) \in Nat
    BY <1>2, PointsFinite, FS_CardinalityType
  <1>4. tNew \in Nat \ {0} /\ tNew \in 1 .. MaxParties
    BY <1>3, Committees
  <1>5. draw \in Draws(D, tNew, Field)
    BY Committees
  <1>6. rotations' \in 0 .. MaxRotations
    BY <1>1, RotationFacts
  <1>7. DOMAIN k = newSet /\ IsSharing(k, tNew, secret)
    BY <1>1, <1>2, <1>4, <1>5, RotationFacts, ReshareKeepsSecret
  <1> HIDE DEF k
  <1> QED
    BY <1>1, <1>2, <1>4, <1>6, <1>7, RotationFrame

\* Refresh keeps the committee, the threshold and the secret.
LEMMA RefreshStep ==
  ASSUME IInv, NEW draw \in Draws(DOMAIN shares, threshold, Rand), Refresh(draw)
  PROVE  IInv'
  <1> DEFINE k == RefreshKernel(shares, threshold, draw)
  <1>1. /\ threshold # 0 /\ rotations < MaxRotations
        /\ shares' = k /\ threshold' = threshold /\ rotations' = rotations + 1
        /\ UNCHANGED <<secret, ceremonyVars>>
    BY DEF Refresh
  <1>2. draw \in Draws(DOMAIN shares, threshold, Field)
    BY Committees
  <1>3. rotations' \in 0 .. MaxRotations
    BY <1>1, RotationFacts
  <1>4. DOMAIN k = DOMAIN shares /\ IsSharing(k, threshold, secret)
    BY <1>1, <1>2, RotationFacts, RefreshKeepsSecret
  <1> HIDE DEF k
  <1> QED
    BY <1>1, <1>3, <1>4, RotationFacts, RotationFrame

\* The shares left after a loss are shares of the same sharing.
LEMMA LoseStep ==
  ASSUME IInv, NEW i, LoseShare(i)
  PROVE  IInv'
  <1>1. /\ i \in DOMAIN shares
        /\ shares' = [j \in DOMAIN shares \ {i} |-> shares[j]]
        /\ UNCHANGED <<secret, threshold, rotations, ceremonyVars>>
    BY DEF LoseShare
  <1>2. threshold # 0
    <2>1. DOMAIN << >> = {}
      OBVIOUS
    <2> QED
      BY <1>1, <2>1 DEF IInv, TypeOK
  <1>3. PICK f \in Poly(threshold) :
          /\ f[0] = secret
          /\ \A j \in DOMAIN shares : shares[j] = EvaluateAt(f, threshold, j)
    BY <1>2, RotationFacts DEF IsSharing
  <1>4. DOMAIN shares' = DOMAIN shares \ {i}
    BY <1>1
  <1>5. \A j \in DOMAIN shares' : shares'[j] = EvaluateAt(f, threshold, j)
    BY <1>1, <1>3
  <1>6. IsSharing(shares', threshold', secret)
    BY <1>1, <1>3, <1>5 DEF IsSharing
  <1> QED
    BY <1>1, <1>2, <1>4, <1>6, RotationFacts, RotationFrame

-----------------------------------------------------------------------------
(* The theorems.                                                           *)

\* Before any ceremony the invariant holds.
LEMMA InitIInv ==
  Init => IInv
  <1> SUFFICES ASSUME Init PROVE IInv
    OBVIOUS
  <1>1. /\ contribs = Nil /\ abort = Nil /\ dkg = Nil /\ secret = Nil
        /\ shares = << >> /\ threshold = 0 /\ rotations = 0
    BY DEF Init, CeremonyInit
  <1>2. DOMAIN shares = {}
    BY <1>1
  <1>3. TypeOK
    BY <1>1, <1>2, Committees, RotationBoundAssumption DEF TypeOK
  <1> QED
    BY <1>1, <1>3 DEF IInv, ContribsInv, DKGInv, SharingInv, BlameJustified,
                      Aborted

\* Every step keeps the invariant.
LEMMA NextIInv ==
  IInv /\ [Next]_vars => IInv'
  <1> SUFFICES ASSUME IInv, [Next]_vars PROVE IInv'
    OBVIOUS
  <1>1. CASE CeremonyNext /\ UNCHANGED rotations
    BY <1>1, TrustedDealerStep, PedersenStep, DKGStep DEF CeremonyNext
  <1>2. CASE \E newSet \in SUBSET ID : \E tNew \in 1 .. Cardinality(newSet) :
               /\ Cardinality(newSet) <= MaxParties
               /\ \E draw \in Draws(SelectQuorum(DOMAIN shares, threshold),
                                    tNew, Rand) :
                    Reshare(newSet, tNew, draw)
    BY <1>2, ReshareStep
  <1>3. CASE \E draw \in Draws(DOMAIN shares, threshold, Rand) : Refresh(draw)
    BY <1>3, RefreshStep
  <1>4. CASE \E i \in ID : LoseShare(i)
    BY <1>4, LoseStep
  <1>5. CASE UNCHANGED vars
    <2>1. UNCHANGED <<contribs, abort, dkg, outputs, results, secret, shares,
                      threshold, rotations>>
      BY <1>5 DEF vars
    <2>2. TypeOK' /\ SharingInv'
      BY <2>1 DEF IInv, TypeOK, SharingInv
    <2>3. ContribsInv' /\ BlameJustified'
      BY <2>1 DEF IInv, ContribsInv, BlameJustified, Aborted
    <2>4. DKGInv'
      BY <2>1 DEF IInv, DKGInv, DKGShape
    <2> QED
      BY <2>2, <2>3, <2>4 DEF IInv
  <1> QED
    BY <1>1, <1>2, <1>3, <1>4, <1>5 DEF Next

\* The inductive invariant holds throughout: deliveries differ from their
\* commitments exactly where they were altered, what Round2 returned are sums of
\* polynomials of degree below t, and the shares are values of one polynomial
\* whose constant term is the secret behind the published key.
THEOREM InvariantTheorem == Spec => []IInv
  BY InitIInv, NextIInv, PTL DEF Spec

\* The bookkeeping of the ceremonies and the range of the shares.
THEOREM TypeTheorem == Spec => []TypeOK
  <1>1. IInv => TypeOK
    BY DEF IInv
  <1> QED
    BY <1>1, InvariantTheorem, PTL

\* Whatever ceremony, rotations and losses there were, every set of at least
\* threshold share holders reconstructs the secret behind the published key.
THEOREM SecretTheorem == Spec => []SecretPreserved
  <1>1. IInv => SecretPreserved
    <2> SUFFICES ASSUME IInv, NEW T \in SUBSET DOMAIN shares, threshold # 0,
                        Cardinality(T) >= threshold
                 PROVE  Reconstruct(shares, T) = secret
      BY DEF SecretPreserved
    <2>1. T \in SUBSET Points
      BY RotationFacts
    <2> QED
      BY <2>1, RotationFacts, ReconstructSharing
  <1> QED
    BY <1>1, InvariantTheorem, PTL

\* An aborted ceremony blames a dealer whose delivery to the accuser was
\* altered, and nobody before the accuser had cause to complain.
THEOREM BlameTheorem == Spec => []BlameJustified
  <1>1. IInv => BlameJustified
    BY DEF IInv
  <1> QED
    BY <1>1, InvariantTheorem, PTL

\* When the ceremony succeeds, each end of a pair can form the MAC key of the
\* pair, and the two seeds of the pair and the key are three different values.
THEOREM PairKeysTheorem == Spec => []PairKeysFormable
  <1>1. IInv => PairKeysFormable
    <2> SUFFICES ASSUME IInv, contribs # Nil, Accusers = {},
                        NEW i \in DOMAIN contribs.inputs,
                        NEW j \in DOMAIN contribs.inputs, i # j
                 PROVE  /\ MACKeyFromShares(i, j)
                             = PRF(Suite, OwnPairKex(i, j), << >>)
                        /\ MACKeyFromShares(i, j) = MACKeyFromShares(j, i)
                        /\ SeedFromShares(i, j) # SeedFromShares(j, i)
                        /\ MACKeyFromShares(i, j) # SeedFromShares(i, j)
      BY DEF PairKeysFormable
    <2>1. PICK n \in 2 .. MaxParties : ContribsShape(contribs, n)
      BY DEF IInv, ContribsInv
    <2>2. i \in 1 .. n /\ j \in 1 .. n /\ i \in Nat /\ j \in Nat
      BY <2>1, AccusersAltered
    <2>3. /\ contribs.inputs[j][i] = EvaluateAt(contribs.commits[i], contribs.t, j)
          /\ contribs.inputs[i][j] = EvaluateAt(contribs.commits[j], contribs.t, i)
      BY <2>1, <2>2, AccusersAltered DEF ContribsShape
    <2>4. /\ (i < j => CanonicalPair(i, j) = <<i, j>>
                         /\ CanonicalPair(j, i) = <<i, j>>)
          /\ (j < i => CanonicalPair(i, j) = <<j, i>>
                         /\ CanonicalPair(j, i) = <<j, i>>)
          /\ (i < j \/ j < i)
      BY <2>2 DEF CanonicalPair
    <2>5. PairKex(i, j) = PairKex(j, i) /\ PairKex(i, j) = OwnPairKex(i, j)
      <3>1. CASE i < j
        <4>1. ~ (j < i)
          BY <2>2, <3>1
        <4> QED
          BY <2>3, <2>4, <3>1 DEF PairKex, OwnPairKex, SealedShare
      <3>2. CASE j < i
        <4>1. ~ (i < j)
          BY <2>2, <3>2
        <4> QED
          BY <2>3, <2>4, <3>2, <4>1 DEF PairKex, OwnPairKex, SealedShare
      <3> QED
        BY <2>4, <3>1, <3>2
    <2>6. \A k, l, x, y : PRF(Suite, k, x) = PRF(Suite, l, y) => x = y
      <3> SUFFICES ASSUME NEW k, NEW l, NEW x, NEW y,
                          PRF(Suite, k, x) = PRF(Suite, l, y)
                   PROVE  x = y
        OBVIOUS
      <3>1. PRF(Suite, k, x).Label = x /\ PRF(Suite, l, y).Label = y
        BY DEF PRF
      <3> QED
        BY <3>1
    <2>7. <<i, j>> # <<j, i>> /\ << >> # <<i, j>>
      OBVIOUS
    <2> QED
      BY <2>5, <2>6, <2>7 DEF MACKeyFromShares, SeedFromShares, SeedLabel
  <1> QED
    BY <1>1, InvariantTheorem, PTL
=============================================================================
