----------------------------- MODULE KeyCeremony -----------------------------
(***************************************************************************)
(* The three ways a committee comes by its first shares:                   *)
(*   - the trusted dealer of keyera;                                       *)
(*   - the Pedersen ceremony of keyera, DealPedersen followed by           *)
(*     FinishBootstrapPedersen, which aborts and blames;                   *)
(*   - the Feldman DKG of package dkg, one DKGSession per party.           *)
(*                                                                         *)
(* A commitment to a polynomial binds it, so it is the polynomial; the     *)
(* public key bTilde stands for the secret behind it.  Deliveries are      *)
(* altered on the way (the fault DealPedersen and FinishBootstrapPedersen  *)
(* are split for), DKG dealers repeat Round1, deal shares that do not fit  *)
(* or commit to a polynomial of a higher degree.                           *)
(***************************************************************************)
EXTENDS Shamir, PairwiseKeys, FiniteSetsExt

CONSTANTS
  MaxParties,   \* bound: the size of a committee
  Rand,         \* the field elements randomness sources yield
  MaxFaults,    \* bound: altered deliveries of a Pedersen ceremony
  MaxExtra,     \* bound: repeated and faulty Round1 outputs of a DKG
  Nil           \* the Go nil

ASSUME RandAssumption == Rand \subseteq Field

ASSUME CeremonyBoundAssumption ==
  MaxParties \in 1 .. (Q - 1) /\ MaxFaults \in Nat /\ MaxExtra \in Nat

VARIABLES
  contribs,     \* *PedersenContributions between the two halves
  abort,        \* the AbortEvidence of the last FinishBootstrapPedersen
  dkg,          \* the n and t of the DKG sessions, Nil when there are none
  outputs,      \* the Round1Outputs of the DKG on the network
  results,      \* results[j]: what Round2 returned to party j, Nil before
  secret,       \* history: the secret behind the published key
  shares,       \* the share map: who still holds a share, and which
  threshold     \* the reconstruction threshold of shares, 0 before a key

ceremonyVars == <<contribs, abort, dkg, outputs, results>>

keyVars == <<secret, shares, threshold>>

-----------------------------------------------------------------------------
\* The polynomials of degree below t a party samples.
Polynomials(t) == [0 .. (t - 1) -> Rand]

\* No key yet and no ceremony under way.
Idle == threshold = 0 /\ contribs = Nil /\ dkg = Nil

\* The key k came out of a ceremony, which is over.
Publish(k, shareMap, t) ==
  /\ secret' = k
  /\ shares' = shareMap
  /\ threshold' = t
  /\ contribs' = Nil
  /\ abort' = Nil
  /\ dkg' = Nil
  /\ outputs' = {}
  /\ results' = << >>

\* A committee of n is dealt shares of the constant term of f.
TrustedDealing(n, t, f) ==
  /\ Idle
  /\ t \in 1 .. n
  /\ Publish(f[0], ShamirSecretSharingGeneral(f, t, n), t)

-----------------------------------------------------------------------------
(* keyera: the Pedersen ceremony.                                          *)

\* The checks of DealPedersen, repeated by FinishBootstrapPedersen.
PedersenShape(n, t) == n >= 2 /\ t \in 1 .. (n - 1)

\* ExtractAbortEvidence finds evidence in what the caller was returned.
Aborted == abort # Nil

\* DealPedersen: dealer i commits to fs[i] and seals fs[i](j) to recipient j,
\* which opens it: inputs[j][i].  After an abort the caller may deal again.
DealPedersen(n, t, fs) ==
  /\ threshold = 0 /\ dkg = Nil
  /\ contribs = Nil \/ Aborted
  /\ PedersenShape(n, t)
  /\ contribs' = [commits |-> fs, t |-> t,
                  inputs  |-> [j \in 1 .. n |->
                                 [i \in 1 .. n |-> EvaluateAt(fs[i], t, j)]],
                  altered |-> {}]
  /\ abort' = Nil
  /\ UNCHANGED <<dkg, outputs, results, keyVars>>

\* The share dealer i delivers to recipient j is another than the one it
\* committed to.
AlterDelivery(i, j, shift) ==
  /\ contribs # Nil /\ ~Aborted
  /\ Cardinality(contribs.altered) < MaxFaults
  /\ {i, j} \subseteq DOMAIN contribs.inputs
  /\ <<i, j>> \notin contribs.altered
  /\ shift % Q # 0
  /\ contribs' = [contribs EXCEPT !.inputs[j][i] = (@ + shift) % Q,
                                  !.altered = @ \cup {<<i, j>>}]
  /\ UNCHANGED <<abort, dkg, outputs, results, keyVars>>

\* Party.Round3 of the vss library: the dealers whose share for recipient j
\* does not open their commitments at j.
BadDealers(j) ==
  {i \in DOMAIN contribs.commits :
     contribs.inputs[j][i] # EvaluateAt(contribs.commits[i], contribs.t, j)}

\* The recipients whose Round3 fails.
Accusers == {j \in DOMAIN contribs.inputs : BadDealers(j) # {}}

\* Mutant: the evidence names the recipient as the offender.
BuildAbortEvidence_Recipient(dealer, recipient) ==
  [Accused |-> recipient, Accuser |-> recipient, Disqualified |-> {recipient}]

\* buildAbortEvidence: one complaint of the recipient against the dealer.
BuildAbortEvidence(dealer, recipient) ==
  [Accused |-> dealer, Accuser |-> recipient, Disqualified |-> {dealer}]

\* Mutant: the key is formed from the shares unweighted.
AggregateKey_Unweighted(sShares, n) == FieldSum([j \in 1 .. n |-> sShares[j]])

\* Path (a): b = sum of the beta_j = A * (lambda_j * s_j), lambda for the whole
\* committee.
AggregateKey(sShares, n) ==
  FieldSum([j \in 1 .. n |-> LagrangeAtZero(1 .. n)[j] * sShares[j]])

\* The suite of the ceremony.
Suite == "Corona-SHA3"

\* The share a dealer sealed to a recipient.
SealedShare(dealer, recipient) == contribs.inputs[recipient][dealer]

\* pairKex: the two shares sealed between a pair, in canonical order.
PairKex(i, j) ==
  LET p == CanonicalPair(i, j)
  IN  TranscriptHash(Suite,
                     <<SealedShare(p[1], p[2]), SealedShare(p[2], p[1])>>)

\* Mutant: the label does not tell the directions of a pair apart.
SeedLabel_Unordered(i, j) == CanonicalPair(i, j)

\* seedLabel: the ordered pair.
SeedLabel(i, j) == <<i, j>>

\* The share recipient j ends up with.
AggregateShare(j) ==
  FieldSum([i \in DOMAIN contribs.inputs |-> contribs.inputs[j][i]])

\* derivePairwiseFromShares, the seeds: a pair's from what is sealed between
\* it, a party's own from its aggregate share.
SeedFromShares(i, j) ==
  PRF(Suite,
      IF i = j THEN TranscriptHash(Suite, <<AggregateShare(i)>>)
      ELSE PairKex(i, j),
      SeedLabel(i, j))

\* derivePairwiseFromShares, the MAC keys: one per pair.
MACKeyFromShares(i, j) == PRF(Suite, PairKex(i, j), << >>)

\* FinishBootstrapPedersen, all deliveries good: recipient j adds up what it
\* was dealt.
FinishPedersen ==
  LET n == Cardinality(DOMAIN contribs.inputs)
      sShares == [j \in 1 .. n |-> AggregateShare(j)]
  IN
  /\ contribs # Nil
  /\ Accusers = {}
  /\ Publish(AggregateKey(sShares, n), sShares, contribs.t)

\* FinishBootstrapPedersen, identifiable abort: the first recipient in order
\* whose Round3 fails accuses a dealer; no key is formed.
AbortPedersen ==
  /\ contribs # Nil
  /\ Accusers # {}
  /\ \E dealer \in BadDealers(Min(Accusers)) :
       abort' = BuildAbortEvidence(dealer, Min(Accusers))
  /\ UNCHANGED <<contribs, dkg, outputs, results, keyVars>>

-----------------------------------------------------------------------------
(* Package dkg.                                                            *)

\* NewDKGSession, by every party.
NewDKGSession(n, t) ==
  /\ Idle
  /\ n >= 2
  /\ t \in 1 .. (n - 1)
  /\ dkg' = [n |-> n, t |-> t]
  /\ outputs' = {}
  /\ results' = [j \in 1 .. n |-> Nil]
  /\ UNCHANGED <<contribs, abort, keyVars>>

\* The outputs of S that a party sent beyond its first, and the faulty ones.
Extras(S) ==
  Cardinality(S) - Cardinality({o.from : o \in S})
    + Cardinality({o \in S : o.faulty})

\* Party i sends out what it calls its Round1Output: d commitments to f, and
\* the shares f(j), of which a faulty dealer spoils the one for victim.
SendOutput(i, d, f, victim) ==
  LET o == [from |-> i, commits |-> f, faulty |-> d # dkg.t \/ victim # Nil,
            shares |-> [j \in 1 .. dkg.n |->
              (EvaluateAt(f, d, j) + (IF j = victim THEN 1 ELSE 0)) % Q]]
  IN
  /\ dkg # Nil
  /\ i \in DOMAIN results
  /\ Extras(outputs \cup {o}) <= MaxExtra
  /\ outputs' = outputs \cup {o}
  /\ UNCHANGED <<contribs, abort, dkg, results, keyVars>>

\* Round1: party i samples f, commits to its t coefficients and shares it.
\* Every call samples anew.
Round1(i, f) == SendOutput(i, dkg.t, f, Nil)

\* A faulty dealer.
DealBadly(i, d, f, victim) ==
  (d # dkg.t \/ victim # Nil) /\ SendOutput(i, d, f, victim)

\* Mutant: the number of commitments is not checked against t.
ShareVerifies_AnyDegree(j, share, commits) ==
  share = EvaluateAt(commits, Cardinality(DOMAIN commits), j)

\* The checks of Round2 on one dealer: t commitments, and A * share equals
\* their Horner sum at j.
ShareVerifies(j, share, commits) ==
  /\ Cardinality(DOMAIN commits) = dkg.t
  /\ share = EvaluateAt(commits, dkg.t, j)

\* Round2 of party j with one share and one commitment vector per dealer,
\* possibly of different Round1 outputs; a missing one or a failed check is an
\* error, and j may call again.
Round2(j, receivedShares, receivedCommits) ==
  LET n == dkg.n IN
  /\ dkg # Nil
  /\ j \in DOMAIN results
  /\ results[j] = Nil
  /\ \A i \in 1 .. n :
       ShareVerifies(j, receivedShares[i].shares[j],
                     receivedCommits[i].commits)
  /\ results' = [results EXCEPT ![j] =
       [secretShare |->
          FieldSum([i \in 1 .. n |-> receivedShares[i].shares[j]]),
        bTilde |->
          FieldSum([i \in 1 .. n |-> receivedCommits[i].commits[0]]),
        commits |-> [i \in 1 .. n |-> receivedCommits[i].commits]]]
  /\ UNCHANGED <<contribs, abort, dkg, outputs, keyVars>>

\* What party j may receive: an output of each dealer.
Received ==
  {r \in [1 .. dkg.n -> outputs] : \A i \in 1 .. dkg.n : r[i].from = i}

\* The parties of S, which saw the same commitments (a broadcast), take the
\* key into use.
AdoptKey(S) ==
  /\ dkg # Nil
  /\ S # {} /\ S \subseteq DOMAIN results
  /\ \A j \in S : results[j] # Nil
  /\ \A j, k \in S : results[j].commits = results[k].commits
  /\ Publish(results[CHOOSE j \in S : TRUE].bTilde,
             [j \in S |-> results[j].secretShare], dkg.t)

-----------------------------------------------------------------------------
CeremonyInit ==
  /\ contribs = Nil
  /\ abort = Nil
  /\ dkg = Nil
  /\ outputs = {}
  /\ results = << >>
  /\ secret = Nil
  /\ shares = << >>
  /\ threshold = 0

TrustedDealerNext ==
  \E n \in 1 .. MaxParties : \E t \in 1 .. n :
    \E f \in Polynomials(t) : TrustedDealing(n, t, f)

PedersenNext ==
  \/ \E n \in 1 .. MaxParties : \E t \in 1 .. n :
       \E fs \in [1 .. n -> Polynomials(t)] : DealPedersen(n, t, fs)
  \/ \E i, j \in 1 .. MaxParties, shift \in Rand : AlterDelivery(i, j, shift)
  \/ FinishPedersen
  \/ AbortPedersen

DKGNext ==
  \/ \E n, t \in 1 .. MaxParties : NewDKGSession(n, t)
  \/ /\ dkg # Nil
     /\ \/ \E i \in 1 .. dkg.n, f \in Polynomials(dkg.t) : Round1(i, f)
        \/ \E i \in 1 .. dkg.n, d \in {dkg.t, dkg.t + 1},
              victim \in {Nil} \cup 1 .. dkg.n :
             \E f \in Polynomials(d) : DealBadly(i, d, f, victim)
        \/ \E j \in 1 .. dkg.n, s, c \in Received : Round2(j, s, c)
        \/ \E S \in SUBSET (1 .. dkg.n) : AdoptKey(S)

CeremonyNext == TrustedDealerNext \/ PedersenNext \/ DKGNext
=============================================================================
