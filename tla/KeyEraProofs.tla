---------------------------- MODULE KeyEraProofs ----------------------------
(***************************************************************************)
(* Proofs about KeyEra and EpochHandover, for every field, committee and   *)
(* number of epochs: the lineage, the shares behind the group key, the     *)
(* refinement of KeyLineage and the pairwise material of a handover.       *)
(***************************************************************************)
EXTENDS EpochHandover, ShamirProofs

-----------------------------------------------------------------------------
(* The lineage.                                                            *)

\* e is a *KeyEra whose epoch state is in step with it.
InStep(e) ==
  \E eraID \in Nat, genesis \in Nat, generation \in Nat, suite \in Suite :
    \E groupKey, validators, t, shares :
      e = [EraID |-> eraID, GroupKey |-> groupKey, GenesisEpoch |-> genesis,
           HashSuiteID |-> suite,
           State |-> [KeyEraID    |-> eraID,
                      HashSuiteID |-> suite,
                      Generation  |-> generation,
                      Epoch       |-> genesis + generation,
                      Validators  |-> validators,
                      Threshold   |-> t,
                      Shares      |-> shares]]

\* The inductive form of Lineage.
LineageInv == era = Nil \/ InStep(era)

\* A ceremony of either kind opens a new era.
LEMMA CeremonyOpens ==
  ASSUME NEW eraID, NEW suite, NEW epoch, Ceremony(eraID, suite, epoch)
  PROVE  \E validators, t, sk, groupKey :
           era' = NewEra(eraID, suite, validators, t, sk, groupKey, epoch)
  <1>0. PICK validators \in ValidatorList :
          \E t \in Positions(validators) :
            \/ \E f \in [0 .. (t - 1) -> Rand] :
                 TrustedDealer(eraID, suite, validators, t, f, epoch)
            \/ \E fs \in [Positions(validators) -> [0 .. (t - 1) -> Rand]] :
                 Pedersen(eraID, suite, validators, t, fs, epoch)
    BY Zenon DEF Ceremony
  <1>1. PICK t \in Positions(validators) :
          \/ \E f \in [0 .. (t - 1) -> Rand] :
               TrustedDealer(eraID, suite, validators, t, f, epoch)
          \/ \E fs \in [Positions(validators) -> [0 .. (t - 1) -> Rand]] :
               Pedersen(eraID, suite, validators, t, fs, epoch)
    BY <1>0
  <1>2. CASE \E f \in [0 .. (t - 1) -> Rand] :
               TrustedDealer(eraID, suite, validators, t, f, epoch)
    BY <1>2, Zenon DEF TrustedDealer
  <1>3. CASE \E fs \in [Positions(validators) -> [0 .. (t - 1) -> Rand]] :
               Pedersen(eraID, suite, validators, t, fs, epoch)
    BY <1>3, Zenon DEF Pedersen
  <1> QED
    BY <1>1, <1>2, <1>3

\* A ceremony for an era id, a suite and a first epoch opens an era in step.
LEMMA CeremonyInStep ==
  ASSUME NEW eraID \in Nat, NEW suite \in Suite, NEW epoch \in Nat,
         Ceremony(eraID, suite, epoch)
  PROVE  InStep(era')
  <1>1. PICK validators, t, sk, groupKey :
          era' = NewEra(eraID, suite, validators, t, sk, groupKey, epoch)
    BY CeremonyOpens
  <1>2. epoch = epoch + 0
    OBVIOUS
  <1> QED
    BY <1>1, <1>2 DEF NewEra, GenesisState, InStep

\* Reshare advances generation and epoch together and touches nothing else of
\* the lineage.
LEMMA ReshareInStep ==
  ASSUME InStep(era), NEW validators, NEW t, NEW draw,
         Reshare(validators, t, draw)
  PROVE  InStep(era')
  <1>0. PICK eraID \in Nat, genesis \in Nat, generation \in Nat,
             suite \in Suite :
          \E groupKey, oldValidators, oldT, oldShares :
            era = [EraID |-> eraID, GroupKey |-> groupKey,
                   GenesisEpoch |-> genesis, HashSuiteID |-> suite,
                   State |-> [KeyEraID    |-> eraID,
                              HashSuiteID |-> suite,
                              Generation  |-> generation,
                              Epoch       |-> genesis + generation,
                              Validators  |-> oldValidators,
                              Threshold   |-> oldT,
                              Shares      |-> oldShares]]
    BY DEF InStep
  <1>1. PICK groupKey, oldValidators, oldT, oldShares :
          era = [EraID |-> eraID, GroupKey |-> groupKey,
                 GenesisEpoch |-> genesis, HashSuiteID |-> suite,
                 State |-> [KeyEraID    |-> eraID,
                            HashSuiteID |-> suite,
                            Generation  |-> generation,
                            Epoch       |-> genesis + generation,
                            Validators  |-> oldValidators,
                            Threshold   |-> oldT,
                            Shares      |-> oldShares]]
    BY <1>0
  <1>2. PICK shares :
          era' = [era EXCEPT !.State =
            [KeyEraID    |-> era.State.KeyEraID,
             HashSuiteID |-> era.HashSuiteID,
             Generation  |-> era.State.Generation + 1,
             Epoch       |-> era.State.Epoch + 1,
             Validators  |-> validators,
             Threshold   |-> t,
             Shares      |-> shares]]
    BY Zenon DEF Reshare
  <1>3. era' = [EraID |-> eraID, GroupKey |-> groupKey,
                GenesisEpoch |-> genesis, HashSuiteID |-> suite,
                State |-> [KeyEraID    |-> eraID,
                           HashSuiteID |-> suite,
                           Generation  |-> generation + 1,
                           Epoch       |-> (genesis + generation) + 1,
                           Validators  |-> validators,
                           Threshold   |-> t,
                           Shares      |-> shares]]
    BY <1>1, <1>2
  <1>4. /\ generation + 1 \in Nat
        /\ (genesis + generation) + 1 = genesis + (generation + 1)
    OBVIOUS
  <1> QED
    BY <1>3, <1>4 DEF InStep

\* Every step keeps the era in step.
LEMMA LineageStep == LineageInv /\ [Next]_vars => LineageInv'
  <1> SUFFICES ASSUME LineageInv, [Next]_vars
               PROVE  LineageInv'
    OBVIOUS
  <1>1. CASE Bootstrap
    BY <1>1, CeremonyInStep, GenesisEraIDAssumption DEF Bootstrap, LineageInv
  <1>2. CASE Reanchor
    <2>1. /\ era.EraID + 1 \in Nat
          /\ era.State.Epoch + 1 \in Nat
          /\ InheritedSuite(era) \in Suite
      BY <1>2, SuiteAssumption DEF Reanchor, LineageInv, InStep, InheritedSuite
    <2> QED
      BY <1>2, <2>1, CeremonyInStep DEF Reanchor, LineageInv
  <1>3. ASSUME era # Nil, NEW validators, NEW t, NEW draw,
               Reshare(validators, t, draw)
        PROVE  LineageInv'
    BY <1>3, ReshareInStep DEF LineageInv
  <1>4. CASE UNCHANGED vars
    BY <1>4 DEF vars, LineageInv
  <1> QED
    BY <1>1, <1>2, <1>3, <1>4 DEF Next

\* In every behaviour the epoch state carries the era id and the suite of its
\* era, and its epoch is the era's first epoch plus the reshares since.
THEOREM LineageTheorem == Spec => []Lineage
  <1>1. Init => LineageInv
    BY DEF Init, LineageInv
  <1>2. LineageInv => Lineage
    BY DEF LineageInv, InStep, Lineage
  <1> QED
    BY <1>1, <1>2, LineageStep, PTL DEF Spec

-----------------------------------------------------------------------------
(* The shares behind the group key.  Shares are kept by name, so the       *)
(* results hold of committees that name nobody twice.                      *)

\* No validator list names a validator twice.
DistinctNames ==
  \A l \in ValidatorList : \A i, j \in Positions(l) : l[i] = l[j] => i = j

\* A committee: its positions are points of the field.
LEMMA CommitteeFacts ==
  ASSUME NEW l \in ValidatorList
  PROVE  /\ Len(l) \in Nat \ {0} /\ Positions(l) = 1 .. Len(l)
         /\ Positions(l) \in SUBSET Points /\ Positions(l) \subseteq Int
         /\ IsFiniteSet(Positions(l)) /\ Cardinality(Positions(l)) = Len(l)
         /\ l \in [Positions(l) -> Range(l)]
         /\ \A v \in Range(l) : \E i \in Positions(l) : l[i] = v
  <1>1. l \in Seq(Range(l)) /\ l # << >> /\ Len(l) < Q
    BY ValidatorListAssumption
  <1>2. Len(l) \in Nat \ {0} /\ l \in [1 .. Len(l) -> Range(l)]
    BY <1>1
  <1>3. 1 \in Int /\ Len(l) \in Int /\ ~ (1 > Len(l))
    BY <1>2
  <1>4. IsFiniteSet(1 .. Len(l)) /\ Cardinality(1 .. Len(l)) = (Len(l) - 1) + 1
    BY <1>3, FS_Interval
  <1>5. 1 .. Len(l) \in SUBSET Points
    BY <1>1, <1>2, QAssumption DEF Points
  <1>6. \A v \in Range(l) : \E i \in 1 .. Len(l) : l[i] = v
    BY <1>2 DEF Range
  <1> QED
    BY <1>2, <1>4, <1>5, <1>6 DEF Positions

\* The last position of a name.
Last(l, v) ==
  CHOOSE i \in Positions(l) :
    l[i] = v /\ \A j \in Positions(l) : l[j] = v => j <= i

\* KeyShares, with its choice of position named.
LEMMA KeySharesAre ==
  ASSUME NEW l, NEW sk
  PROVE  /\ KeyShares(l, sk)
              = [v \in Range(l) |->
                   [Index |-> Last(l, v) - 1, SkShare |-> sk[Last(l, v)],
                    Lambda |-> LagrangeAtZero(1 .. Len(l))[Last(l, v)]]]
         /\ KeyShares(l, sk) = [v \in Range(l) |-> KeyShares(l, sk)[v]]
  <1>1. KeyShares(l, sk)
          = [v \in Range(l) |->
               [Index |-> Last(l, v) - 1, SkShare |-> sk[Last(l, v)],
                Lambda |-> LagrangeAtZero(1 .. Len(l))[Last(l, v)]]]
    BY Zenon DEF KeyShares, Last, FullCommitteeLagrange
  <1> QED
    BY <1>1

\* A name's KeyShare is the one of its position.
LEMMA KeySharesAt ==
  ASSUME DistinctNames, NEW l \in ValidatorList, NEW sk
  PROVE  /\ DOMAIN KeyShares(l, sk) = Range(l)
         /\ \A i \in Positions(l) :
              KeyShares(l, sk)[l[i]]
                = [Index |-> i - 1, SkShare |-> sk[i],
                   Lambda |-> LagrangeAtZero(Positions(l))[i]]
  <1>1. KeyShares(l, sk)
          = [v \in Range(l) |->
               [Index |-> Last(l, v) - 1, SkShare |-> sk[Last(l, v)],
                Lambda |-> LagrangeAtZero(1 .. Len(l))[Last(l, v)]]]
    BY KeySharesAre
  <1>2. ASSUME NEW i \in Positions(l)
        PROVE  Last(l, l[i]) = i /\ l[i] \in Range(l)
    <2>1. \A j \in Positions(l) : l[j] = l[i] => j = i
      BY DEF DistinctNames
    <2>2. i <= i
      BY CommitteeFacts
    <2>3. \E k \in Positions(l) :
            l[k] = l[i] /\ \A j \in Positions(l) : l[j] = l[i] => j <= k
      BY <2>1, <2>2
    <2>4. /\ Last(l, l[i]) \in Positions(l) /\ l[Last(l, l[i])] = l[i]
      BY <2>3 DEF Last
    <2> QED
      BY <2>1, <2>4, CommitteeFacts
  <1>3. ASSUME NEW i \in Positions(l)
        PROVE  KeyShares(l, sk)[l[i]]
                 = [Index |-> i - 1, SkShare |-> sk[i],
                    Lambda |-> LagrangeAtZero(1 .. Len(l))[i]]
    BY <1>1, <1>2, Zenon
  <1>4. DOMAIN KeyShares(l, sk) = Range(l)
    BY <1>1
  <1> QED
    BY <1>3, <1>4 DEF Positions

\* sk, by position, is a sharing of key k among the committee l.
CommitteeSharing(l, t, sk, k) ==
  /\ l \in ValidatorList
  /\ t \in Positions(l)
  /\ DOMAIN sk = Positions(l)
  /\ IsSharing(sk, t, k)

\* The key shares of era e are those of a sharing of its group key.
HoldsKey(e) ==
  \E sk : /\ CommitteeSharing(e.State.Validators, e.State.Threshold, sk,
                              e.GroupKey)
          /\ e.State.Shares = KeyShares(e.State.Validators, sk)

\* What the members of a committee hold by name, taken in order of position, is
\* the sharing, of field elements.
LEMMA SharingFacts ==
  ASSUME DistinctNames, NEW l, NEW t, NEW sk, NEW k,
         CommitteeSharing(l, t, sk, k)
  PROVE  /\ t \in Nat \ {0} /\ t \in 1 .. Len(l) /\ k \in Field
         /\ \A i \in Positions(l) :
              /\ sk[i] \in Field
              /\ KeyShares(l, sk)[l[i]].SkShare = sk[i]
              /\ KeyShares(l, sk)[l[i]].Lambda = LagrangeAtZero(Positions(l))[i]
              /\ KeyShares(l, sk)[l[i]].Lambda \in Field
         /\ KeyShares(l, sk) \in [Range(l) -> KeyShareType]
  <1>1. l \in ValidatorList /\ t \in Positions(l) /\ DOMAIN sk = Positions(l)
    BY DEF CommitteeSharing
  <1>2. t \in Nat \ {0} /\ t \in 1 .. Len(l)
    BY <1>1, CommitteeFacts
  <1>3. k \in Field /\ \A i \in Positions(l) : sk[i] \in Field
    BY <1>1, <1>2, CommitteeFacts, SharingType DEF CommitteeSharing
  <1>4. \A i \in Positions(l) : LagrangeAtZero(Positions(l))[i] \in Field
    BY <1>1, CommitteeFacts, LambdaType
  <1>5. \A i \in Positions(l) :
          KeyShares(l, sk)[l[i]]
            = [Index |-> i - 1, SkShare |-> sk[i],
               Lambda |-> LagrangeAtZero(Positions(l))[i]]
    BY <1>1, KeySharesAt
  <1>6. \A i \in Positions(l) : i - 1 \in Nat
    BY <1>1, CommitteeFacts
  <1>7. KeyShares(l, sk) \in [Range(l) -> KeyShareType]
    <2>1. KeyShares(l, sk) = [v \in Range(l) |-> KeyShares(l, sk)[v]]
      BY KeySharesAre
    <2>2. ASSUME NEW i \in Positions(l)
          PROVE  KeyShares(l, sk)[l[i]] \in KeyShareType
      <3> DEFINE x == i - 1
                 y == LagrangeAtZero(Positions(l))[i]
      <3>1. /\ KeyShares(l, sk)[l[i]] = [Index |-> x, SkShare |-> sk[i],
                                        Lambda |-> y]
            /\ x \in Nat /\ sk[i] \in Field /\ y \in Field
        BY <1>3, <1>4, <1>5, <1>6
      <3> HIDE DEF x, y
      <3> QED
        BY <3>1 DEF KeyShareType
    <2>3. \A v \in Range(l) : KeyShares(l, sk)[v] \in KeyShareType
      BY <1>1, <2>2, CommitteeFacts
    <2> QED
      BY <2>1, <2>3
  <1>8. ASSUME NEW i \in Positions(l)
        PROVE  /\ KeyShares(l, sk)[l[i]].SkShare = sk[i]
               /\ KeyShares(l, sk)[l[i]].Lambda = LagrangeAtZero(Positions(l))[i]
    <2> DEFINE x == i - 1
               y == LagrangeAtZero(Positions(l))[i]
    <2>1. KeyShares(l, sk)[l[i]] = [Index |-> x, SkShare |-> sk[i],
                                    Lambda |-> y]
      BY <1>5
    <2> HIDE DEF x, y
    <2>2. KeyShares(l, sk)[l[i]].SkShare = sk[i]
      BY <2>1
    <2>3. KeyShares(l, sk)[l[i]].Lambda = y
      BY <2>1
    <2> QED
      BY <2>2, <2>3 DEF y
  <1> QED
    BY <1>2, <1>3, <1>4, <1>7, <1>8

\* The shares read back by position are the sharing.
LEMMA OldSharesSharing ==
  ASSUME DistinctNames, NEW e, HoldsKey(e)
  PROVE  CommitteeSharing(e.State.Validators, e.State.Threshold,
                          OldShares(e.State), e.GroupKey)
  <1> DEFINE l == e.State.Validators
             t == e.State.Threshold
             o == OldShares(e.State)
  <1>1. PICK sk : /\ CommitteeSharing(l, t, sk, e.GroupKey)
                  /\ e.State.Shares = KeyShares(l, sk)
    BY DEF HoldsKey
  <1>2. DOMAIN o = Positions(l) /\ \A i \in Positions(l) : o[i] = sk[i]
    BY <1>1, SharingFacts DEF OldShares
  <1> HIDE DEF o, l, t
  <1>3. IsSharing(o, t, e.GroupKey)
    BY <1>1, <1>2 DEF CommitteeSharing, IsSharing
  <1> QED
    BY <1>1, <1>2, <1>3 DEF CommitteeSharing, l, t, o

\* A whole committee reconstructs its key: as reshare.Verify does, and as
\* PedersenKey forms it.
LEMMA WholeCommittee ==
  ASSUME NEW l, NEW t, NEW sk, NEW k, CommitteeSharing(l, t, sk, k)
  PROVE  /\ Reconstruct(sk, Positions(l)) = k
         /\ PedersenKey(sk, Len(l)) = k
  <1>1. l \in ValidatorList /\ t \in Positions(l) /\ DOMAIN sk = Positions(l)
        /\ IsSharing(sk, t, k)
    BY DEF CommitteeSharing
  <1>2. t \in Nat \ {0} /\ Cardinality(Positions(l)) >= t
    BY <1>1, CommitteeFacts
  <1>3. Reconstruct(sk, Positions(l)) = k
    BY <1>1, <1>2, CommitteeFacts, ReconstructSharing
  <1>4. PedersenKey(sk, Len(l)) = Reconstruct(sk, 1 .. Len(l))
    BY DEF PedersenKey, Reconstruct, FullCommitteeLagrange
  <1> QED
    BY <1>3, <1>4 DEF Positions

\* The committee signs with the group key: the Lambdas are those of all of it.
LEMMA CommitteeKeyIsGroupKey ==
  ASSUME DistinctNames, NEW e, HoldsKey(e)
  PROVE  CommitteeKey(e.State) = e.GroupKey /\ e.GroupKey \in Field
  <1> DEFINE l == e.State.Validators
             t == e.State.Threshold
             P == Positions(l)
             E == Range(l)
             sh == e.State.Shares
  <1>1. PICK sk : /\ CommitteeSharing(l, t, sk, e.GroupKey)
                  /\ sh = KeyShares(l, sk)
    BY DEF HoldsKey
  <1> DEFINE g == [i \in P |-> LagrangeAtZero(P)[i] * sk[i]]
             h == [v \in E |-> sh[v].Lambda * sh[v].SkShare]
  <1>2. l \in ValidatorList
    BY <1>1 DEF CommitteeSharing
  <1>3. /\ IsFiniteSet(P) /\ l \in [P -> E]
        /\ \A v \in E : \E i \in P : l[i] = v
        /\ \A i, j \in P : l[i] = l[j] => i = j
    BY <1>2, CommitteeFacts DEF DistinctNames
  <1>4. \A i \in P : /\ sh[l[i]].Lambda = LagrangeAtZero(P)[i]
                     /\ sh[l[i]].SkShare = sk[i]
                     /\ sh[l[i]].Lambda \in Int /\ sh[l[i]].SkShare \in Int
    BY <1>1, SharingFacts, FieldMod
  <1> HIDE DEF l, t, sh
  <1>5. g \in [P -> Int]
    BY <1>4
  <1>6. h \in [E -> Int]
    <2>1. \A v \in E : sh[v].Lambda \in Int /\ sh[v].SkShare \in Int
      BY <1>3, <1>4
    <2> QED
      BY <2>1
  <1>7. \A i \in P : h[l[i]] = g[i]
    BY <1>3, <1>4
  <1> HIDE DEF g, h, P, E
  <1>8. SumFunction(h) = SumFunction(g)
    BY <1>3, <1>5, <1>6, <1>7, SumReindex
  <1>9. CommitteeKey(e.State) = FieldSum(h)
    BY DEF CommitteeKey, h, E, l, sh
  <1>10. Reconstruct(sk, P) = FieldSum(g)
    BY DEF Reconstruct, g
  <1>11. Reconstruct(sk, P) = e.GroupKey
    BY <1>1, WholeCommittee DEF P
  <1>12. e.GroupKey \in Field
    BY <1>1, SharingFacts
  <1> QED
    BY <1>8, <1>9, <1>10, <1>11, <1>12 DEF FieldSum

\* An era opened on a sharing holds its key.
LEMMA NewEraHolds ==
  ASSUME NEW eraID, NEW suite, NEW l, NEW t, NEW sk, NEW k, NEW epoch,
         CommitteeSharing(l, t, sk, k)
  PROVE  HoldsKey(NewEra(eraID, suite, l, t, sk, k, epoch))
  <1> DEFINE e == NewEra(eraID, suite, l, t, sk, k, epoch)
             sh == KeyShares(l, sk)
  <1>1. /\ e.State.Validators = l /\ e.State.Threshold = t
        /\ e.State.Shares = sh /\ e.GroupKey = k
    BY DEF NewEra, GenesisState
  <1> HIDE DEF e
  <1> QED
    BY <1>1 DEF HoldsKey, e

\* The random polynomials are polynomials.
LEMMA RandPoly == \A t : [0 .. (t - 1) -> Rand] \subseteq Poly(t)
  BY EraBoundAssumption DEF Poly

\* A ceremony of either kind opens an era that holds its key.
LEMMA CeremonyHolds ==
  ASSUME NEW eraID, NEW suite, NEW epoch, Ceremony(eraID, suite, epoch)
  PROVE  HoldsKey(era')
  <1>0. PICK l \in ValidatorList :
          \E t \in Positions(l) :
            \/ \E f \in [0 .. (t - 1) -> Rand] :
                 TrustedDealer(eraID, suite, l, t, f, epoch)
            \/ \E fs \in [Positions(l) -> [0 .. (t - 1) -> Rand]] :
                 Pedersen(eraID, suite, l, t, fs, epoch)
    BY Zenon DEF Ceremony
  <1>1. PICK t \in Positions(l) :
          \/ \E f \in [0 .. (t - 1) -> Rand] :
               TrustedDealer(eraID, suite, l, t, f, epoch)
          \/ \E fs \in [Positions(l) -> [0 .. (t - 1) -> Rand]] :
               Pedersen(eraID, suite, l, t, fs, epoch)
    BY <1>0
  <1>2. /\ t \in Nat \ {0} /\ Positions(l) \subseteq Int
        /\ IsFiniteSet(Positions(l)) /\ Positions(l) = 1 .. Len(l)
    BY CommitteeFacts
  <1>3. ASSUME NEW f \in [0 .. (t - 1) -> Rand],
               TrustedDealer(eraID, suite, l, t, f, epoch)
        PROVE  HoldsKey(era')
    <2> DEFINE m == ShamirSecretSharingGeneral(f, t, Len(l))
    <2>1. f \in Poly(t)
      BY RandPoly
    <2>2. \A x \in Positions(l) : EvaluateByPowers(f, t, x) = EvaluateAt(f, t, x)
      BY <1>2, <2>1, PowersAgree
    <2>3. /\ DOMAIN m = Positions(l)
          /\ \A x \in Positions(l) : m[x] = EvaluateAt(f, t, x)
      BY <1>2, <2>2 DEF ShamirSecretSharingGeneral
    <2>4. era' = NewEra(eraID, suite, l, t, m, f[0], epoch)
      BY <1>3, Zenon DEF TrustedDealer
    <2> HIDE DEF m
    <2>5. CommitteeSharing(l, t, m, f[0])
      BY <2>1, <2>3 DEF CommitteeSharing, IsSharing
    <2> QED
      BY <2>4, <2>5, NewEraHolds
  <1>4. ASSUME NEW fs \in [Positions(l) -> [0 .. (t - 1) -> Rand]],
               Pedersen(eraID, suite, l, t, fs, epoch)
        PROVE  HoldsKey(era')
    <2> DEFINE P == Positions(l)
               m == [j \in P |-> FieldSum([i \in P |-> EvaluateAt(fs[i], t, j)])]
               s == FieldSum([i \in P |-> fs[i][0]])
    <2>1. fs \in [P -> Poly(t)]
      BY RandPoly
    <2>2. /\ DOMAIN m = P
          /\ \A j \in DOMAIN m :
               m[j] = FieldSum([i \in P |-> EvaluateAt(fs[i], t, j)])
      OBVIOUS
    <2>3. era' = NewEra(eraID, suite, l, t, m, PedersenKey(m, Len(l)), epoch)
      BY <1>2, <1>4, Zenon DEF Pedersen
    <2> HIDE DEF m
    <2>4. IsSharing(m, t, s)
      BY <1>2, <2>1, <2>2, SharingSum
    <2> HIDE DEF s
    <2>5. CommitteeSharing(l, t, m, s)
      BY <2>2, <2>4 DEF CommitteeSharing
    <2>6. PedersenKey(m, Len(l)) = s
      BY <2>5, WholeCommittee
    <2>7. CommitteeSharing(l, t, m, PedersenKey(m, Len(l)))
      BY <2>5, <2>6
    <2> QED
      BY <2>3, <2>7, NewEraHolds
  <1> QED
    BY <1>1, <1>3, <1>4

\* What Reshare leaves in the era.
LEMMA ReshareFields ==
  ASSUME InStep(era), NEW l, NEW t, NEW draw, Reshare(l, t, draw)
  PROVE  /\ era'.GroupKey = era.GroupKey
         /\ era'.State.Validators = l /\ era'.State.Threshold = t
         /\ era'.State.Shares
              = KeyShares(l, ReshareKernel(OldShares(era.State),
                                           era.State.Threshold, Positions(l),
                                           t, draw))
         /\ era'.State.KeyEraID = era.State.KeyEraID
         /\ era'.State.HashSuiteID = era.State.HashSuiteID
         /\ era'.State.Epoch = era.State.Epoch + 1
         /\ era.State.Epoch \in Nat /\ era.State.Epoch < MaxEpoch
  <1> DEFINE sh == KeyShares(l, ReshareKernel(OldShares(era.State),
                                              era.State.Threshold,
                                              Positions(l), t, draw))
             S == [KeyEraID    |-> era.State.KeyEraID,
                   HashSuiteID |-> era.HashSuiteID,
                   Generation  |-> era.State.Generation + 1,
                   Epoch       |-> era.State.Epoch + 1,
                   Validators  |-> l,
                   Threshold   |-> t,
                   Shares      |-> sh]
  <1>1. era' = [era EXCEPT !.State = S] /\ era.State.Epoch < MaxEpoch
    BY Zenon DEF Reshare
  <1> HIDE DEF sh
  <1>2. /\ era'.State = S /\ era'.GroupKey = era.GroupKey
        /\ era.State.HashSuiteID = era.HashSuiteID
        /\ era.State.Epoch \in Nat
    BY <1>1 DEF InStep
  <1> QED
    BY <1>1, <1>2 DEF sh

\* Reshare keeps the key: every quorum of the new committee shares it.
LEMMA ReshareHolds ==
  ASSUME DistinctNames, InStep(era), HoldsKey(era),
         NEW l \in ValidatorList, NEW t \in Positions(l),
         NEW draw \in Draws(SelectQuorum(Positions(era.State.Validators),
                                         era.State.Threshold), t, Rand),
         Reshare(l, t, draw)
  PROVE  HoldsKey(era')
  <1> DEFINE o == OldShares(era.State)
             tOld == era.State.Threshold
             k == era.GroupKey
             sk == ReshareKernel(o, tOld, Positions(l), t, draw)
  <1>1. CommitteeSharing(era.State.Validators, tOld, o, k)
    BY OldSharesSharing
  <1>2. /\ DOMAIN o = Positions(era.State.Validators) /\ IsSharing(o, tOld, k)
        /\ era.State.Validators \in ValidatorList
        /\ tOld \in Positions(era.State.Validators)
    BY <1>1 DEF CommitteeSharing
  <1>3. /\ DOMAIN o \in SUBSET Points /\ tOld \in Nat \ {0}
        /\ tOld <= Cardinality(DOMAIN o)
    BY <1>2, CommitteeFacts
  <1>4. t \in Nat \ {0} /\ Positions(l) \in SUBSET Int
    BY CommitteeFacts
  <1>5. draw \in Draws(SelectQuorum(DOMAIN o, tOld), t, Field)
    BY <1>2, EraBoundAssumption DEF Draws
  <1> HIDE DEF o, tOld, k
  <1>6. DOMAIN sk = Positions(l) /\ IsSharing(sk, t, k)
    BY <1>2, <1>3, <1>4, <1>5, ReshareKeepsSecret
  <1>7. era'.State.Shares = KeyShares(l, sk)
    BY ReshareFields DEF o, tOld
  <1> HIDE DEF sk
  <1>8. CommitteeSharing(l, t, sk, k)
    BY <1>6 DEF CommitteeSharing
  <1> QED
    BY <1>7, <1>8, ReshareFields DEF HoldsKey, k

\* The inductive invariant of the lifecycle.
EraInv == era = Nil \/ (InStep(era) /\ HoldsKey(era))

\* Every step of the lifecycle keeps it.
LEMMA EraStep ==
  ASSUME DistinctNames, EraInv, [Next]_vars
  PROVE  EraInv'
  <1>1. LineageInv'
    BY LineageStep DEF EraInv, LineageInv
  <1>2. CASE Bootstrap
    BY <1>1, <1>2, CeremonyHolds DEF Bootstrap, LineageInv, EraInv
  <1>3. CASE Reanchor
    BY <1>1, <1>3, CeremonyHolds DEF Reanchor, LineageInv, EraInv
  <1>4. ASSUME era # Nil, NEW l \in ValidatorList, NEW t \in Positions(l),
               NEW draw \in Draws(SelectQuorum(Positions(era.State.Validators),
                                               era.State.Threshold), t, Rand),
               Reshare(l, t, draw)
        PROVE  EraInv'
    BY <1>1, <1>4, ReshareHolds DEF LineageInv, EraInv
  <1>5. CASE UNCHANGED vars
    BY <1>5 DEF vars, EraInv
  <1> QED
    BY <1>2, <1>3, <1>4, <1>5 DEF Next

\* After any sequence of Bootstrap, Reshare and Reanchor over committees that
\* name nobody twice, the shares are those of a sharing of the era's key.
THEOREM EraTheorem ==
  ASSUME DistinctNames
  PROVE  Spec => []EraInv
  <1>1. Init => EraInv
    BY DEF Init, EraInv
  <1>2. EraInv /\ [Next]_vars => EraInv'
    BY EraStep
  <1> QED
    BY <1>1, <1>2, PTL DEF Spec

\* Every quorum of the current validators reconstructs the secret behind the
\* group key, which no Reshare changed.
THEOREM SharesTheorem ==
  ASSUME DistinctNames
  PROVE  Spec => []SharesMatchKey
  <1>1. EraInv => SharesMatchKey
    <2> SUFFICES ASSUME EraInv, era # Nil,
                        NEW V \in SUBSET Positions(era.State.Validators),
                        Cardinality(V) >= era.State.Threshold
                 PROVE  Reconstruct(OldShares(era.State), V) = era.GroupKey
      BY DEF SharesMatchKey
    <2> DEFINE l == era.State.Validators
               t == era.State.Threshold
               o == OldShares(era.State)
               k == era.GroupKey
    <2>1. CommitteeSharing(l, t, o, k)
      BY OldSharesSharing DEF EraInv
    <2>2. /\ l \in ValidatorList /\ t \in Positions(l)
          /\ DOMAIN o = Positions(l) /\ IsSharing(o, t, k)
      BY <2>1 DEF CommitteeSharing
    <2>3. t \in Nat \ {0} /\ V \in SUBSET Points /\ V \subseteq DOMAIN o
      BY <2>2, CommitteeFacts
    <2> HIDE DEF o, t, k
    <2>4. Cardinality(V) >= t
      BY DEF t
    <2>5. Reconstruct(o, V) = k
      BY <2>2, <2>3, <2>4, ReconstructSharing
    <2> QED
      BY <2>5 DEF o, k
  <1> QED
    BY <1>1, EraTheorem, PTL

-----------------------------------------------------------------------------
(* The refinement of KeyLineage.                                           *)

\* An era in step that holds its key is an era, and not nil.
LEMMA EraTyped ==
  ASSUME DistinctNames, NEW e, InStep(e), HoldsKey(e)
  PROVE  e \in EraType /\ e # Nil
  <1>1. PICK sk : /\ CommitteeSharing(e.State.Validators, e.State.Threshold, sk,
                                      e.GroupKey)
                  /\ e.State.Shares = KeyShares(e.State.Validators, sk)
    BY DEF HoldsKey
  <1> DEFINE l == e.State.Validators
             t == e.State.Threshold
             sh == e.State.Shares
             k == e.GroupKey
  <1>2. l \in ValidatorList
    BY <1>1 DEF CommitteeSharing
  <1>3. t \in Nat /\ k \in Field /\ sh \in [Range(l) -> KeyShareType]
    BY <1>1, SharingFacts
  <1>4. sh \in UNION {[Range(m) -> KeyShareType] : m \in ValidatorList}
    BY <1>2, <1>3
  <1>5. PICK eraID \in Nat, genesis \in Nat, generation \in Nat,
             suite \in Suite :
          \E groupKey, validators, threshold, shares :
            e = [EraID |-> eraID, GroupKey |-> groupKey,
                 GenesisEpoch |-> genesis, HashSuiteID |-> suite,
                 State |-> [KeyEraID    |-> eraID,
                            HashSuiteID |-> suite,
                            Generation  |-> generation,
                            Epoch       |-> genesis + generation,
                            Validators  |-> validators,
                            Threshold   |-> threshold,
                            Shares      |-> shares]]
    BY DEF InStep
  <1> DEFINE ep == genesis + generation
             st == [KeyEraID |-> eraID, HashSuiteID |-> suite,
                    Generation |-> generation, Epoch |-> ep,
                    Validators |-> l, Threshold |-> t, Shares |-> sh]
  <1>6. e = [EraID |-> eraID, GroupKey |-> k, GenesisEpoch |-> genesis,
             HashSuiteID |-> suite, State |-> st]
    BY <1>5
  <1>7. ep \in Nat
    OBVIOUS
  <1> HIDE DEF l, t, sh, k, ep
  <1>8. st \in StateType
    BY <1>2, <1>3, <1>4, <1>7 DEF StateType
  <1> HIDE DEF st
  <1>9. e \in EraType
    BY <1>3, <1>6, <1>8 DEF EraType
  <1> QED
    BY <1>9, NilAssumption

\* What a ceremony fixes of the new lineage.
LEMMA CeremonyFields ==
  ASSUME NEW eraID, NEW suite, NEW epoch, Ceremony(eraID, suite, epoch)
  PROVE  /\ era'.State.KeyEraID = eraID
         /\ era'.State.HashSuiteID = suite
         /\ era'.State.Epoch = epoch
  <1>1. PICK validators, t, sk, groupKey :
          era' = NewEra(eraID, suite, validators, t, sk, groupKey, epoch)
    BY CeremonyOpens
  <1> QED
    BY <1>1 DEF NewEra, GenesisState

\* A ceremony opens an era of the abstract lineage with a key of its own.
LEMMA CeremonyChain ==
  ASSUME DistinctNames, NEW eraID \in Nat, NEW suite \in Suite,
         NEW epoch \in Nat, Ceremony(eraID, suite, epoch)
  PROVE  /\ era' # Nil
         /\ era'.State.KeyEraID = eraID /\ era'.State.Epoch = epoch
         /\ era'.State.HashSuiteID = suite
         /\ CommitteeKey(era'.State) \in Field
  <1>1. InStep(era') /\ HoldsKey(era')
    BY CeremonyInStep, CeremonyHolds
  <1>2. era' # Nil
    BY <1>1, EraTyped
  <1>3. CommitteeKey(era'.State) \in Field
    BY <1>1, CommitteeKeyIsGroupKey
  <1> QED
    BY <1>2, <1>3, CeremonyFields

\* Every step of the lifecycle is a step of the lineage or leaves it alone.
LEMMA ChainStep ==
  ASSUME DistinctNames, EraInv, [Next]_vars
  PROVE  [Chain!Next]_(Chain!vars)
  <1>1. CASE Bootstrap
    <2>1. PICK eraID \in GenesisEraID, suite \in Suite :
            Ceremony(eraID, suite, 0)
      BY <1>1 DEF Bootstrap
    <2>2. era = Nil /\ eraID \in Nat /\ 0 \in Nat
      BY <1>1, GenesisEraIDAssumption DEF Bootstrap
    <2>3. /\ era' # Nil
          /\ era'.State.KeyEraID = eraID /\ era'.State.Epoch = 0
          /\ era'.State.HashSuiteID = suite
          /\ CommitteeKey(era'.State) \in Field
      BY <2>1, <2>2, CeremonyChain
    <2>4. Chain!Open
      BY <2>2, <2>3 DEF Chain!Open
    <2> QED
      BY <2>4 DEF Chain!Next
  <1>2. CASE Reanchor
    <2>1. PICK suite \in Suite \cup {InheritedSuite(era)} :
            Ceremony(era.EraID + 1, suite, era.State.Epoch + 1)
      BY <1>2 DEF Reanchor
    <2>2. era # Nil /\ InStep(era)
      BY <1>2 DEF Reanchor, EraInv
    <2>3. /\ era.EraID + 1 \in Nat /\ era.State.Epoch + 1 \in Nat
          /\ era.State.KeyEraID = era.EraID /\ era.EraID \in Nat
          /\ suite \in Suite
      BY <2>2, SuiteAssumption DEF InStep, InheritedSuite
    <2>4. /\ era' # Nil
          /\ era'.State.KeyEraID = era.EraID + 1
          /\ era'.State.Epoch = era.State.Epoch + 1
          /\ era'.State.HashSuiteID = suite
          /\ CommitteeKey(era'.State) \in Field
      BY <2>1, <2>3, CeremonyChain
    <2>5. era.State.KeyEraID # Nil
      BY <2>3, NilAssumption
    <2>6. Chain!Reanchor
      BY <2>2, <2>3, <2>4, <2>5 DEF Chain!Reanchor
    <2> QED
      BY <2>6 DEF Chain!Next
  <1>3. ASSUME era # Nil, NEW l \in ValidatorList, NEW t \in Positions(l),
               NEW draw \in Draws(SelectQuorum(Positions(era.State.Validators),
                                               era.State.Threshold), t, Rand),
               Reshare(l, t, draw)
        PROVE  Chain!Rotate
    <2>1. InStep(era) /\ HoldsKey(era)
      BY <1>3 DEF EraInv
    <2>2. InStep(era') /\ HoldsKey(era')
      BY <1>3, <2>1, ReshareInStep, ReshareHolds
    <2>3. era' # Nil
      BY <2>2, EraTyped
    <2>4. /\ era'.GroupKey = era.GroupKey
          /\ era'.State.KeyEraID = era.State.KeyEraID
          /\ era'.State.HashSuiteID = era.State.HashSuiteID
          /\ era'.State.Epoch = era.State.Epoch + 1
      BY <1>3, <2>1, ReshareFields
    <2>5. CommitteeKey(era'.State) = CommitteeKey(era.State)
      BY <2>1, <2>2, <2>4, CommitteeKeyIsGroupKey
    <2>6. era.State.KeyEraID # Nil
      BY <2>1, NilAssumption DEF InStep
    <2> QED
      BY <1>3, <2>3, <2>4, <2>5, <2>6 DEF Chain!Rotate
  <1>4. CASE UNCHANGED vars
    BY <1>4 DEF vars, Chain!vars
  <1> QED
    BY <1>1, <1>2, <1>3, <1>4 DEF Next, Chain!Next

\* The lifecycle implements KeyLineage: the secret the committee signs with and
\* the suite stay while the committee changes, and change only with the era.
THEOREM ChainTheorem ==
  ASSUME DistinctNames
  PROVE  Spec => ImplementsLineage
  <1>1. Init => Chain!Init
    BY DEF Init, Chain!Init
  <1>2. EraInv /\ [Next]_vars => [Chain!Next]_(Chain!vars)
    BY ChainStep
  <1> QED
    BY <1>1, <1>2, EraTheorem, PTL DEF Spec, ImplementsLineage, Chain!Spec

-----------------------------------------------------------------------------
(* The handover.                                                           *)

\* Every step of the handovers is one of the lifecycle.
LEMMA HandoverIsNext == [HandoverNext]_handoverVars => [Next]_vars
  BY DEF HandoverNext, OpenEra, Handover, Next, handoverVars, vars

\* The handovers are a lifecycle, so what is proved of it holds of them.
THEOREM HandoverIsLifecycle == HandoverSpec => Spec
  <1>1. HandoverInit => Init
    BY DEF HandoverInit
  <1> QED
    BY <1>1, HandoverIsNext, PTL DEF HandoverSpec, Spec

\* The transcript of the last handover names its two epochs; the committee is
\* one of the lists.
HandoverInv ==
  /\ LineageInv
  /\ transcript # Nil =>
       /\ InStep(era)
       /\ era.State.Validators \in ValidatorList
       /\ era.State.Epoch \in 1 .. MaxEpoch
       /\ \E old, k : /\ old.Epoch = era.State.Epoch - 1
                      /\ transcript = ReshareTranscriptHash(old, era.State, k)

\* A handover leaves its own transcript.
LEMMA HandoverStep ==
  ASSUME HandoverInv, [HandoverNext]_handoverVars
  PROVE  HandoverInv'
  <1>1. LineageInv'
    BY LineageStep, HandoverIsNext DEF HandoverInv
  <1>2. CASE OpenEra
    <2>1. transcript' = Nil
      BY <1>2 DEF OpenEra
    <2> QED
      BY <1>1, <2>1 DEF HandoverInv
  <1>3. CASE Handover
    <2>1. PICK l \in ValidatorList : \E t \in Positions(l) :
            \E draw \in Draws(SelectQuorum(Positions(era.State.Validators),
                                           era.State.Threshold), t, Rand) :
              Reshare(l, t, draw)
      BY <1>3 DEF Handover
    <2>2. PICK t, draw : Reshare(l, t, draw)
      BY <2>1
    <2>3. /\ era # Nil
          /\ transcript' = ReshareTranscriptHash(era.State, era'.State,
                                                 era.GroupKey)
      BY <1>3 DEF Handover
    <2>4. InStep(era)
      BY <2>3 DEF HandoverInv, LineageInv
    <2>5. /\ era'.State.Validators = l
          /\ era'.State.Epoch = era.State.Epoch + 1
          /\ era.State.Epoch \in Nat /\ era.State.Epoch < MaxEpoch
      BY <2>2, <2>4, ReshareFields
    <2>6. /\ era'.State.Epoch \in 1 .. MaxEpoch
          /\ era.State.Epoch = era'.State.Epoch - 1
      BY <2>5, EraBoundAssumption
    <2>7. \E old, k : /\ old.Epoch = era'.State.Epoch - 1
                      /\ transcript' = ReshareTranscriptHash(old, era'.State, k)
      BY <2>3, <2>6
    <2>8. InStep(era')
      BY <2>2, <2>4, ReshareInStep
    <2> QED
      BY <1>1, <2>5, <2>6, <2>7, <2>8 DEF HandoverInv
  <1>4. CASE UNCHANGED handoverVars
    BY <1>1, <1>4 DEF handoverVars, HandoverInv
  <1> QED
    BY <1>2, <1>3, <1>4 DEF HandoverNext

\* The transcript th moved to the epochs x and y.
Moved(th, x, y) == [th EXCEPT !.OldEpochID = x, !.NewEpochID = y]

\* A field of a record of two.
LEMMA ExchangeFields ==
  \A a, b : [of |-> a, th |-> b].of = a /\ [of |-> a, th |-> b].th = b
  OBVIOUS

\* What a transcript binds: under its two epochs replaced it is another, and a
\* refresh never has the transcript of a reshare.
LEMMA TranscriptBinds ==
  ASSUME NEW old, NEW new, NEW k, NEW th, th = ReshareTranscriptHash(old, new, k)
  PROVE  /\ th.OldEpochID = old.Epoch /\ th.NewEpochID = new.Epoch
         /\ Moved(th, old.Epoch, new.Epoch) = th
         /\ \A x, y : Moved(th, x, y) = th => y = new.Epoch
         /\ \A s, e, h : RefreshTranscriptHash(s, e, h) # th
  <1> DEFINE oh == ValidatorSetHash(old.Validators)
             nh == ValidatorSetHash(new.Validators)
  <1>1. th = [OldEpochID |-> old.Epoch, NewEpochID |-> new.Epoch,
              OldSetHash |-> oh, NewSetHash |-> nh,
              ThresholdOld |-> old.Threshold, ThresholdNew |-> new.Threshold,
              GroupPublicKeyHash |-> k, Variant |-> "reshare"]
    BY Zenon DEF ReshareTranscriptHash, TranscriptInputs
  <1> HIDE DEF oh, nh
  <1>2. th.OldEpochID = old.Epoch /\ th.NewEpochID = new.Epoch
    BY <1>1
  <1>3. th.Variant = "reshare"
    BY <1>1
  <1>4. Moved(th, old.Epoch, new.Epoch) = th
    <2>1. th = [z \in DOMAIN th |-> th[z]]
      BY <1>1
    <2>2. Moved(th, th.OldEpochID, th.NewEpochID) = [z \in DOMAIN th |-> th[z]]
      BY DEF Moved
    <2> QED
      BY <1>2, <2>1, <2>2
  <1>5. ASSUME NEW x, NEW y
        PROVE  Moved(th, x, y).NewEpochID = y
    BY <1>1 DEF Moved
  <1>6. ASSUME NEW s, NEW e, NEW h
        PROVE  RefreshTranscriptHash(s, e, h).Variant = "refresh"
    <2>1. PICK a, b : RefreshTranscriptHash(s, e, h)
                        = TranscriptInputs("refresh", a, b, h)
      BY Zenon DEF RefreshTranscriptHash
    <2> QED
      BY <2>1 DEF TranscriptInputs
  <1> QED
    BY <1>2, <1>3, <1>4, <1>5, <1>6

\* The positions of the committee and its members.
LEMMA MemberFacts ==
  ASSUME era.State.Validators \in ValidatorList
  PROVE  /\ Size \in Nat \ {0}
         /\ \A i \in Places(Size) : MemberAt(i) \in Range(era.State.Validators)
         /\ \A p \in Pairs(Size) : /\ p = <<p[1], p[2]>> /\ p[1] < p[2]
                                   /\ p[1] \in Places(Size)
                                   /\ p[2] \in Places(Size)
                                   /\ p[1] \in Int /\ p[2] \in Int
  <1> DEFINE l == era.State.Validators
  <1>1. Len(l) \in Nat \ {0} /\ l \in [1 .. Len(l) -> Range(l)]
    BY CommitteeFacts DEF Positions
  <1> HIDE DEF l
  <1>2. Size \in Nat \ {0}
    BY <1>1 DEF Size, l
  <1>3. ASSUME NEW i \in Places(Size)
        PROVE  MemberAt(i) \in Range(l)
    <2>1. i + 1 \in 1 .. Len(l)
      BY <1>1 DEF Places, Size, l
    <2> QED
      BY <1>1, <2>1 DEF MemberAt, l
  <1>4. ASSUME NEW p \in Pairs(Size)
        PROVE  /\ p = <<p[1], p[2]>> /\ p[1] < p[2]
               /\ p[1] \in Places(Size) /\ p[2] \in Places(Size)
    BY DEF Pairs
  <1>5. Places(Size) \subseteq Int
    BY <1>2 DEF Places
  <1> QED
    BY <1>2, <1>3, <1>4, <1>5 DEF l

\* What a member takes is its peer's ephemeral of this handover, and there is
\* one to take: the signature covers the transcript, and no other exchange has
\* the transcript of this one.
LEMMA TakenIsThis ==
  ASSUME HandoverInv, transcript # Nil, NEW i \in Places(Size)
  PROVE  /\ Taken(i) # {}
         /\ \A m \in Taken(i) : m.PubEph = Ephemeral(MemberAt(i), ThisExchange)
  <1> DEFINE e == era.State.Epoch
             v == MemberAt(i)
  <1>1. /\ era.State.Validators \in ValidatorList /\ e \in 1 .. MaxEpoch
    BY DEF HandoverInv
  <1>2. PICK old, k : /\ old.Epoch = e - 1
                      /\ transcript = ReshareTranscriptHash(old, era.State, k)
    BY DEF HandoverInv
  <1>3. v \in Range(era.State.Validators)
    BY <1>1, MemberFacts
  <1>4. /\ Moved(transcript, e - 1, e) = transcript
        /\ \A x, y : Moved(transcript, x, y) = transcript => y = e
        /\ \A s, f, h : RefreshTranscriptHash(s, f, h) # transcript
    BY <1>2, TranscriptBinds
  <1>5. \A x \in Exchanges : x.th = transcript => x.of = ThisExchange
    <2> SUFFICES ASSUME NEW x \in Exchanges, x.th = transcript
                 PROVE  x.of = ThisExchange
      OBVIOUS
    <2>1. CASE \E f \in 1 .. MaxEpoch :
                 x = [of |-> <<"reshare", f>>, th |-> Moved(transcript, f - 1, f)]
      <3>1. PICK f \in 1 .. MaxEpoch :
                 x = [of |-> <<"reshare", f>>, th |-> Moved(transcript, f - 1, f)]
        BY <2>1
      <3>2. /\ x.of = <<"reshare", f>>
            /\ x.th = Moved(transcript, f - 1, f)
        BY <3>1, ExchangeFields
      <3>3. f = e
        BY <1>4, <3>2
      <3> QED
        BY <3>2, <3>3 DEF ThisExchange
    <2>2. CASE x = [of |-> <<"refresh", era.State.Epoch>>,
                    th |-> RefreshTranscriptHash([era.State EXCEPT !.Epoch = @ - 1],
                                                 era.State.Epoch, era.GroupKey)]
      <3>1. x.th = RefreshTranscriptHash([era.State EXCEPT !.Epoch = @ - 1],
                                         era.State.Epoch, era.GroupKey)
        BY <2>2, ExchangeFields
      <3> QED
        BY <1>4, <3>1
    <2> QED
      BY <2>1, <2>2 DEF Exchanges, Moved
  <1>6. PICK x \in Exchanges : x.th = transcript /\ x.of = ThisExchange
    <2> DEFINE x == [of |-> <<"reshare", e>>, th |-> Moved(transcript, e - 1, e)]
    <2>1. x \in Exchanges
      BY <1>1 DEF Exchanges, Moved
    <2>2. x.of = <<"reshare", e>> /\ x.th = transcript
      BY <1>4, ExchangeFields
    <2> QED
      BY <2>1, <2>2 DEF ThisExchange
  <1> HIDE DEF v
  <1> DEFINE E == Ephemeral(v, ThisExchange)
             m0 == SignEphemeral(v, E, transcript)
  <1>7. m0 \in Taken(i)
    <2>1. m0 = SignEphemeral(v, Ephemeral(v, x.of), x.th)
      BY <1>6
    <2>2. m0 \in Wire
      BY <1>3, <2>1 DEF Wire
    <2>3. m0.PubEph = E
      BY DEF SignEphemeral
    <2>4. E # LowOrder
      <3>1. E.Party = v
        BY DEF Ephemeral
      <3>2. LowOrder.Party # v
        BY <1>1, <1>3, LowOrderAssumption
      <3> QED
        BY <3>1, <3>2
    <2> HIDE DEF m0, E
    <2>5. KexAdmits(m0.PubEph, m0, v, transcript)
      BY <2>3, <2>4 DEF KexAdmits, X25519Admits, m0
    <2> QED
      BY <2>2, <2>5 DEF Taken, v
  <1>8. ASSUME NEW m \in Taken(i)
        PROVE  m.PubEph = E
    <2>1. m \in Wire /\ m = SignEphemeral(v, m.PubEph, transcript)
      BY <1>8 DEF Taken, KexAdmits, v
    <2>2. PICK w \in Range(era.State.Validators), y \in Exchanges :
            m = SignEphemeral(w, Ephemeral(w, y.of), y.th)
      BY <2>1 DEF Wire
    <2>3. \A a, b, c : /\ SignEphemeral(a, b, c).Signer = a
                       /\ SignEphemeral(a, b, c).PubEph = b
                       /\ SignEphemeral(a, b, c).Transcript = c
      BY DEF SignEphemeral
    <2>4. w = v /\ y.th = transcript /\ m.PubEph = Ephemeral(w, y.of)
      BY <2>1, <2>2, <2>3
    <2> QED
      BY <1>5, <2>4
  <1> QED
    BY <1>7, <1>8 DEF v

\* The derived key of a pair: its label and its pair can be read off.
LEMMA KDFFields ==
  ASSUME NEW tag, NEW keyMat, NEW ctx, NEW i, NEW j
  PROVE  /\ KDFOutput(tag, keyMat, ctx, i, j).Label = tag
         /\ KDFOutput(tag, keyMat, ctx, i, j).Pair = CanonicalPair(i, j)
  <1> DEFINE c == CanonicalPair(i, j)
  <1>1. KDFOutput(tag, keyMat, ctx, i, j)
          = [Suite |-> ctx.HashSuiteID, Use |-> "pairwise", Key |-> keyMat,
             Label |-> tag, EraID |-> ctx.KeyEraID,
             Generation |-> ctx.Generation, Pair |-> c]
    BY DEF KDFOutput, DerivePairwise
  <1> HIDE DEF c
  <1> QED
    BY <1>1 DEF c

\* Both ends of a pair look their MAC key up at the canonical pair.
LEMMA MACKeysFacts ==
  ASSUME era.State.Validators \in ValidatorList, NEW p \in Pairs(Size)
  PROVE  /\ MACKeysAt(p[1])[p[2]] = MACs[p]
         /\ MACKeysAt(p[2])[p[1]] = MACs[p]
         /\ MACs[p].Label = "mac-key" /\ MACs[p].Pair = p
  <1>1. /\ p = <<p[1], p[2]>> /\ p[1] < p[2]
        /\ p[1] \in Places(Size) /\ p[2] \in Places(Size)
        /\ p[1] \in Int /\ p[2] \in Int
    BY MemberFacts
  <1>2. CanonicalPair(p[1], p[2]) = p /\ CanonicalPair(p[2], p[1]) = p
    <2> DEFINE a == p[1]
               b == p[2]
    <2>1. a \in Int /\ b \in Int /\ a < b /\ p = <<a, b>>
      BY <1>1
    <2> HIDE DEF a, b
    <2>2. ~ (a > b) /\ b > a
      BY <2>1
    <2>3. CanonicalPair(a, b) = p /\ CanonicalPair(b, a) = p
      BY <2>1, <2>2 DEF CanonicalPair
    <2> QED
      BY <2>3 DEF a, b
  <1>3. p[1] # p[2]
    BY <1>1
  <1>4. /\ MACKeysAt(p[1])[p[2]] = MACs[CanonicalPair(p[1], p[2])]
        /\ MACKeysAt(p[2])[p[1]] = MACs[CanonicalPair(p[2], p[1])]
    BY <1>1, <1>3 DEF MACKeysAt, MACKeysOf
  <1>5. MACs[p] = KDFOutput("mac-key", AuthKex[p], era.State, p[1], p[2])
    BY DEF MACs, DeriveMACKeys
  <1> QED
    BY <1>2, <1>4, <1>5, KDFFields

\* Every seed is labelled as one.
LEMMA SeedLabels ==
  ASSUME era.State.Validators \in ValidatorList, NEW s \in Range(Seeds)
  PROVE  s.Label = "prf-seed"
  <1> DEFINE D == Pairs(Size) \cup {<<i, i>> : i \in Places(Size)}
             ds == DeriveSeeds(Size, AuthKex, SelfSeeds, era.State)
  <1>1. Seeds = [p \in Places(Size) \X Places(Size) |->
                   ds[CanonicalPair(p[1], p[2])]]
    BY DEF Seeds, SeedsOf
  <1>2. PICK p \in Places(Size) \X Places(Size) :
          s = ds[CanonicalPair(p[1], p[2])]
    BY <1>1 DEF Range
  <1>3. CanonicalPair(p[1], p[2]) \in D
    <2> DEFINE a == p[1]
               b == p[2]
    <2>1. a \in Places(Size) /\ b \in Places(Size)
      OBVIOUS
    <2>2. Places(Size) \subseteq Int
      BY MemberFacts DEF Places
    <2> HIDE DEF a, b
    <2>3. CASE a > b
      <3>1. <<b, a>> \in Pairs(Size)
        BY <2>1, <2>2, <2>3 DEF Pairs
      <3> QED
        BY <2>3, <3>1 DEF CanonicalPair, a, b
    <2>4. CASE a < b
      <3>1. <<a, b>> \in Pairs(Size) /\ ~ (a > b)
        BY <2>1, <2>2, <2>4 DEF Pairs
      <3> QED
        BY <3>1 DEF CanonicalPair, a, b
    <2>5. CASE a = b
      <3>1. <<a, b>> \in D /\ ~ (a > b)
        BY <2>1, <2>2, <2>5
      <3> QED
        BY <3>1 DEF CanonicalPair, a, b
    <2> QED
      BY <2>1, <2>2, <2>3, <2>4, <2>5
  <1> DEFINE c == CanonicalPair(p[1], p[2])
             key == IF c[1] = c[2] THEN SelfSeeds[c[1]] ELSE AuthKex[c]
  <1>4. ds = [q \in D |-> KDFOutput("prf-seed",
                                    IF q[1] = q[2] THEN SelfSeeds[q[1]]
                                    ELSE AuthKex[q], era.State, q[1], q[2])]
    BY DEF DeriveSeeds
  <1> HIDE DEF c, D
  <1>5. ds[c] = KDFOutput("prf-seed", key, era.State, c[1], c[2])
    BY <1>3, <1>4, Zenon DEF c
  <1> HIDE DEF key, ds
  <1> QED
    BY <1>2, <1>5, KDFFields DEF c

\* After a handover the exchange completes; whatever else is delivered, both
\* ends of a pair compute one auth_kex and hold one MAC key, no other pair holds
\* it and it is nobody's seed.
THEOREM HandoverKeysTheorem == HandoverSpec => []PairKeysShared
  <1>1. HandoverInit => HandoverInv
    BY DEF HandoverInit, Init, HandoverInv, LineageInv
  <1>2. HandoverInv /\ [HandoverNext]_handoverVars => HandoverInv'
    BY HandoverStep
  <1>3. HandoverInv => PairKeysShared
    <2> SUFFICES ASSUME HandoverInv, transcript # Nil
                 PROVE  /\ \A i \in Places(Size) : Taken(i) # {}
                        /\ \A p \in Pairs(Size) :
                             \A m \in Taken(p[2]), n \in Taken(p[1]) :
                               KexAt(p[1], m) = KexAt(p[2], n)
                        /\ DeriveAdmits(Size, AuthKex, SelfSeeds)
                        /\ \A p, r \in Pairs(Size) :
                             (MACKeysAt(p[1])[p[2]] = MACKeysAt(r[2])[r[1]])
                               <=> (p = r)
                        /\ \A p \in Pairs(Size) :
                             MACKeysAt(p[1])[p[2]] \notin Range(Seeds)
      BY DEF PairKeysShared
    <2>1. era.State.Validators \in ValidatorList
      BY DEF HandoverInv
    <2>2. \A i \in Places(Size) : Taken(i) # {}
      BY TakenIsThis
    <2>3. ASSUME NEW p \in Pairs(Size), NEW m \in Taken(p[2]),
                 NEW n \in Taken(p[1])
          PROVE  KexAt(p[1], m) = KexAt(p[2], n)
      <3> DEFINE a == Ephemeral(MemberAt(p[1]), ThisExchange)
                 b == Ephemeral(MemberAt(p[2]), ThisExchange)
      <3>1. p[1] \in Places(Size) /\ p[2] \in Places(Size)
        BY <2>1, MemberFacts
      <3>2. m.PubEph = b /\ n.PubEph = a
        BY <2>3, <3>1, TakenIsThis
      <3>3. /\ KexAt(p[1], m) = AuthenticatedKex(a, b, transcript, era.HashSuiteID)
            /\ KexAt(p[2], n) = AuthenticatedKex(b, a, transcript, era.HashSuiteID)
        BY <3>2 DEF KexAt
      <3> HIDE DEF a, b
      <3>4. X25519Pair(a, b) = X25519Pair(b, a)
        BY DEF X25519Pair
      <3> QED
        BY <3>3, <3>4 DEF AuthenticatedKex
    <2>4. DeriveAdmits(Size, AuthKex, SelfSeeds)
      BY DEF DeriveAdmits, AuthKex, SelfSeeds
    <2>5. \A p, r \in Pairs(Size) :
            (MACKeysAt(p[1])[p[2]] = MACKeysAt(r[2])[r[1]]) <=> (p = r)
      BY <2>1, MACKeysFacts
    <2>6. \A p \in Pairs(Size) : MACKeysAt(p[1])[p[2]] \notin Range(Seeds)
      BY <2>1, MACKeysFacts, SeedLabels
    <2> QED
      BY <2>2, <2>3, <2>4, <2>5, <2>6
  <1> QED
    BY <1>1, <1>2, <1>3, PTL DEF HandoverSpec
=============================================================================
