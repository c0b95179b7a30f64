---------------------------- MODULE ShareRotation ----------------------------
(***************************************************************************)
(* The life of one secret under the rotation kernels: a ceremony gives a   *)
(* committee its shares, it reshares them to committees of other IDs,      *)
(* sizes and thresholds, refreshes them in place, and loses shares on the  *)
(* way.                                                                    *)
(***************************************************************************)
EXTENDS KeyCeremony

CONSTANTS
  ID,           \* the party IDs callers use for new committees
  MaxRotations  \* bound: Reshare and Refresh calls

ASSUME IDAssumption == ID \subseteq 1 .. (Q - 1)

ASSUME RotationBoundAssumption == MaxRotations \in Nat

VARIABLE rotations     \* rotations so far

vars == <<contribs, abort, dkg, outputs, results, secret, shares, threshold,
          rotations>>

Init == CeremonyInit /\ rotations = 0

\* reshare.Reshare to the committee newSet; a refused call changes nothing.
Reshare(newSet, tNew, draw) ==
  /\ rotations < MaxRotations
  /\ threshold # 0
  /\ ReshareAdmits(shares, threshold, newSet, tNew)
  /\ shares' = ReshareKernel(shares, threshold, newSet, tNew, draw)
  /\ threshold' = tNew
  /\ rotations' = rotations + 1
  /\ UNCHANGED <<secret, ceremonyVars>>

\* reshare.Refresh by the parties that still hold shares.
Refresh(draw) ==
  /\ rotations < MaxRotations
  /\ threshold # 0
  /\ RefreshAdmits(shares, threshold)
  /\ shares' = RefreshKernel(shares, threshold, draw)
  /\ rotations' = rotations + 1
  /\ UNCHANGED <<secret, threshold, ceremonyVars>>

\* Party i is gone: the callers pass the shares of the others on.  (A share that
\* EraseShare has zeroed is one nobody passes on either; its tests and comment
\* erase the shares of a committee that has been replaced.)
LoseShare(i) ==
  /\ i \in DOMAIN shares
  /\ shares' = [j \in DOMAIN shares \ {i} |-> shares[j]]
  /\ UNCHANGED <<secret, threshold, rotations, ceremonyVars>>

Next ==
  \/ CeremonyNext /\ UNCHANGED rotations
  \/ \E newSet \in SUBSET ID : \E tNew \in 1 .. Cardinality(newSet) :
       /\ Cardinality(newSet) <= MaxParties
       /\ \E draw \in
               Draws(SelectQuorum(DOMAIN shares, threshold), tNew, Rand) :
            Reshare(newSet, tNew, draw)
  \/ \E draw \in Draws(DOMAIN shares, threshold, Rand) : Refresh(draw)
  \/ \E i \in ID : LoseShare(i)

Spec == Init /\ [][Next]_vars

-----------------------------------------------------------------------------
\* The bookkeeping of the ceremonies: one is under way at a time, and none
\* once there is a key; shares are field elements.
TypeOK ==
  /\ contribs = Nil \/ dkg = Nil
  /\ threshold \in 0 .. MaxParties
  /\ threshold = 0 => secret = Nil /\ shares = << >> /\ rotations = 0
  /\ threshold # 0 => secret \in Field /\ contribs = Nil /\ dkg = Nil
  /\ DOMAIN shares \subseteq 1 .. (Q - 1)
  /\ \A i \in DOMAIN shares : shares[i] \in Field
  /\ rotations \in 0 .. MaxRotations

\* After any ceremony and any sequence of rotations, thresholds and losses,
\* every set of at least t share holders reconstructs the secret behind the
\* published key: no bad delivery gets past FinishBootstrapPedersen, no bad
\* share, repeated Round1 or polynomial of too high a degree past Round2 of the
\* DKG, and Reshare and Refresh keep the degree and the constant term of the
\* sharing polynomial.
SecretPreserved ==
  \A T \in SUBSET DOMAIN shares :
    threshold # 0 /\ Cardinality(T) >= threshold
      => Reconstruct(shares, T) = secret

\* FinishBootstrapPedersen aborts only with evidence against a dealer whose
\* delivery to the accuser really was bad, the accuser being the first
\* recipient so wronged, and disqualifies that dealer alone.
BlameJustified ==
  Aborted =>
    /\ <<abort.Accused, abort.Accuser>> \in contribs.altered
    /\ abort.Disqualified = {abort.Accused}
    /\ \A p \in contribs.altered : p[2] >= abort.Accuser

\* What party i can form of the pair secret by itself: the share it dealt to j,
\* from its own polynomial, and the share it opened from j.
OwnPairKex(i, j) ==
  LET dealt  == EvaluateAt(contribs.commits[i], contribs.t, j)
      opened == contribs.inputs[i][j]
  IN  TranscriptHash(Suite,
                     IF i < j THEN <<dealt, opened>> ELSE <<opened, dealt>>)

\* Whenever FinishBootstrapPedersen gives keys, whatever was altered before,
\* the MAC key of a pair is one that each end can form from what it dealt and
\* opened, and the seeds of the two directions of the pair differ from it and
\* from each other (derivePairwiseFromShares).
PairKeysFormable ==
  contribs # Nil /\ Accusers = {} =>
    \A i, j \in DOMAIN contribs.inputs :
      i # j =>
        /\ MACKeyFromShares(i, j) = PRF(Suite, OwnPairKex(i, j), << >>)
        /\ MACKeyFromShares(i, j) = MACKeyFromShares(j, i)
        /\ SeedFromShares(i, j) # SeedFromShares(j, i)
        /\ MACKeyFromShares(i, j) # SeedFromShares(i, j)
=============================================================================
