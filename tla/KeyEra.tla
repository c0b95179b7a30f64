------------------------------- MODULE KeyEra -------------------------------
(***************************************************************************)
(* The key-era lifecycle of package keyera: Bootstrap opens an era with a  *)
(* fresh group key, by a trusted dealer or by a Pedersen DKG; Reshare      *)
(* hands the era to a new committee; Reanchor opens the next era.          *)
(*                                                                         *)
(* The caller holds one *KeyEra, the newest.  A group key stands for the   *)
(* secret s behind bTilde = Round(A*s + e).  Shares are kept by validator  *)
(* name, as in EpochShareState.Shares; the evaluation points are the       *)
(* positions in Validators.                                                *)
(***************************************************************************)
EXTENDS Shamir, Sequences

CONSTANTS
  ValidatorList,  \* the validator lists callers use
  GenesisEraID,   \* the era ids Bootstrap is called with
  Suite,          \* the hash suites
  DefaultSuite,   \* Corona-SHA3
  LegacySuite,    \* Corona-BLAKE3
  Rand,           \* the field elements randomness sources yield
  MaxEpoch,       \* bound: the epoch
  Nil             \* the Go nil

\* A committee has fewer members than the field has elements: q exceeds 2^48.
ASSUME ValidatorListAssumption ==
  \A l \in ValidatorList : l \in Seq(Range(l)) /\ l # << >> /\ Len(l) < Q

ASSUME GenesisEraIDAssumption == GenesisEraID \subseteq Nat

ASSUME SuiteAssumption == {DefaultSuite, LegacySuite} \subseteq Suite

ASSUME EraBoundAssumption == MaxEpoch \in Nat /\ Rand \subseteq Field

\* The values of a KeyShare, an EpochShareState and a KeyEra.
KeyShareType == [Index : Nat, SkShare : Field, Lambda : Field]

StateType ==
  [KeyEraID : Nat, HashSuiteID : Suite, Generation : Nat, Epoch : Nat,
   Validators : ValidatorList, Threshold : Nat,
   Shares : UNION {[Range(l) -> KeyShareType] : l \in ValidatorList}]

EraType ==
  [EraID : Nat, GroupKey : Field, GenesisEpoch : Nat, HashSuiteID : Suite,
   State : StateType]

\* nil is neither a number nor an era.
ASSUME NilAssumption == Nil \notin Nat /\ Nil \notin EraType

VARIABLE era      \* the caller's *KeyEra, Nil before Bootstrap

vars == era

-----------------------------------------------------------------------------
\* The positions of a validator list, which are the 1-indexed party IDs.
Positions(validators) == 1 .. Len(validators)

\* computeFullCommitteeLagrange.
FullCommitteeLagrange(n) == LagrangeAtZero(1 .. n)

\* The KeyShares by name: a map filled in list order, so a name listed twice
\* keeps its last position.
KeyShares(validators, sk) ==
  LET lambda == FullCommitteeLagrange(Len(validators))
      last(v) == CHOOSE i \in Positions(validators) :
                   /\ validators[i] = v
                   /\ \A j \in Positions(validators) :
                        validators[j] = v => j <= i
  IN  [v \in Range(validators) |->
         [Index |-> last(v) - 1, SkShare |-> sk[last(v)],
          Lambda |-> lambda[last(v)]]]

\* The state of a first generation.
GenesisState(eraID, suite, validators, t, sk, epoch) ==
  [KeyEraID |-> eraID, HashSuiteID |-> suite, Generation |-> 0,
   Epoch |-> epoch, Validators |-> validators, Threshold |-> t,
   Shares |-> KeyShares(validators, sk)]

\* Mutant: Reanchor does not move the new state to the next epoch.
NewEra_StaleEpoch(eraID, suite, validators, t, sk, groupKey, epoch) ==
  [EraID |-> eraID, GroupKey |-> groupKey, GenesisEpoch |-> epoch,
   HashSuiteID |-> suite,
   State |-> GenesisState(eraID, suite, validators, t, sk, 0)]

\* A new *KeyEra whose first epoch is epoch.
NewEra(eraID, suite, validators, t, sk, groupKey, epoch) ==
  [EraID |-> eraID, GroupKey |-> groupKey, GenesisEpoch |-> epoch,
   HashSuiteID |-> suite,
   State |-> GenesisState(eraID, suite, validators, t, sk, epoch)]

\* bootstrapTrustedDealerImpl: one dealer shares the constant term of f.
TrustedDealer(eraID, suite, validators, t, f, epoch) ==
  /\ t \in 1 .. Len(validators)
  /\ era' = NewEra(eraID, suite, validators, t,
                   ShamirSecretSharingGeneral(f, t, Len(validators)),
                   f[0], epoch)

\* Mutant: the key is formed from the shares of a quorum, unweighted.
PedersenKey_Unweighted(sk, n) == FieldSum([j \in 1 .. n |-> sk[j]])

\* Path (a): b sums the lambda_j * s_j of the whole committee.
PedersenKey(sk, n) ==
  FieldSum([j \in 1 .. n |-> FullCommitteeLagrange(n)[j] * sk[j]])

\* BootstrapPedersen with honest dealers: position i deals fs[i], position j
\* adds up what it received; the key is formed from the shares.  An abort
\* returns no era and changes nothing.
Pedersen(eraID, suite, validators, t, fs, epoch) ==
  LET n == Len(validators)
      sk == [j \in 1 .. n |->
               FieldSum([i \in 1 .. n |-> EvaluateAt(fs[i], t, j)])]
  IN
  /\ n >= 2
  /\ t \in 1 .. (n - 1)
  /\ era' = NewEra(eraID, suite, validators, t, sk, PedersenKey(sk, n), epoch)

\* A ceremony of either kind.
Ceremony(eraID, suite, epoch) ==
  \E validators \in ValidatorList : \E t \in Positions(validators) :
    \/ \E f \in [0 .. (t - 1) -> Rand] :
         TrustedDealer(eraID, suite, validators, t, f, epoch)
    \/ \E fs \in [Positions(validators) -> [0 .. (t - 1) -> Rand]] :
         Pedersen(eraID, suite, validators, t, fs, epoch)

\* Bootstrap, BootstrapWithSuite and their trusted-dealer forms.
Bootstrap ==
  /\ era = Nil
  /\ \E eraID \in GenesisEraID, suite \in Suite : Ceremony(eraID, suite, 0)

\* The suite Reanchor continues with.
InheritedSuite(prev) ==
  IF prev.HashSuiteID = LegacySuite THEN LegacySuite ELSE DefaultSuite

\* Reanchor (the inherited suite) and ReanchorWithSuite (any).
Reanchor ==
  /\ era # Nil
  /\ era.State.Epoch < MaxEpoch
  /\ \E suite \in Suite \cup {InheritedSuite(era)} :
       Ceremony(era.EraID + 1, suite, era.State.Epoch + 1)

\* The shares of era.State in the order of the validator list.
OldShares(state) ==
  [i \in Positions(state.Validators) |->
     state.Shares[state.Validators[i]].SkShare]

\* (*KeyEra).Reshare: the shares move to newValidators; era id, suite and group
\* key stay, generation and epoch advance.
Reshare(newValidators, newThreshold, draw) ==
  LET sk == ReshareKernel(OldShares(era.State), era.State.Threshold,
                          Positions(newValidators), newThreshold, draw)
  IN
  /\ era.State.Epoch < MaxEpoch
  /\ newThreshold \in Positions(newValidators)
  /\ ReshareAdmits(OldShares(era.State), era.State.Threshold,
                   Positions(newValidators), newThreshold)
  /\ era' = [era EXCEPT !.State =
       [KeyEraID    |-> era.State.KeyEraID,
        HashSuiteID |-> era.HashSuiteID,
        Generation  |-> era.State.Generation + 1,
        Epoch       |-> era.State.Epoch + 1,
        Validators  |-> newValidators,
        Threshold   |-> newThreshold,
        Shares      |-> KeyShares(newValidators, sk)]]

Init == era = Nil

Next ==
  \/ Bootstrap
  \/ Reanchor
  \/ /\ era # Nil
     /\ \E validators \in ValidatorList : \E t \in Positions(validators) :
          \E draw \in Draws(SelectQuorum(Positions(era.State.Validators),
                                         era.State.Threshold), t, Rand) :
            Reshare(validators, t, draw)

Spec == Init /\ [][Next]_vars

-----------------------------------------------------------------------------
\* The epoch state belongs to the era it hangs under, and counts its epochs
\* from the era's first: every Bootstrap, Reshare and Reanchor keeps the two
\* copies of the lineage (KeyEra and EpochShareState) in step.
Lineage ==
  era # Nil =>
    /\ era.State.KeyEraID = era.EraID
    /\ era.State.HashSuiteID = era.HashSuiteID
    /\ era.State.Epoch = era.GenesisEpoch + era.State.Generation

\* After any sequence of Reshares, every quorum of the current validators holds
\* shares of the secret behind the era's unchanged GroupKey.
SharesMatchKey ==
  era # Nil =>
    \A V \in SUBSET Positions(era.State.Validators) :
      Cardinality(V) >= era.State.Threshold
        => Reconstruct(OldShares(era.State), V) = era.GroupKey

\* What the whole committee signs with: each response carries the Lambda its
\* KeyShare was given.
CommitteeKey(state) ==
  FieldSum([v \in Range(state.Validators) |->
              state.Shares[v].Lambda * state.Shares[v].SkShare])

\* The lifecycle implements the abstract lineage: the secret that the current
\* committee signs with, and the suite, change only with the era.
Chain == INSTANCE KeyLineage WITH
  Key   <- Field,
  eraID <- IF era = Nil THEN Nil ELSE era.State.KeyEraID,
  epoch <- IF era = Nil THEN Nil ELSE era.State.Epoch,
  key   <- IF era = Nil THEN Nil ELSE CommitteeKey(era.State),
  suite <- IF era = Nil THEN Nil ELSE era.State.HashSuiteID

ImplementsLineage == Chain!Spec
=============================================================================
