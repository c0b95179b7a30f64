------------------------------ MODULE MCSigning ------------------------------
(***************************************************************************)
(* Instances of Signing for TLC.                                           *)
(***************************************************************************)
EXTENDS Signing, TLC

CONSTANTS
  p1, p2, p3,  \* the parties
  Threshold    \* t: the shares a quorum needs

\* One independent seed per direction.
DirectedSeeds == [i \in Party |-> [j \in Party |-> <<i, j>>]]

PairList == {<<p1, p2>>}

\* The network corrupts a message or a party restarts, not both in one run.
OneFault == tampers + restarts <= 1

\* The committee, its dealt half, another half, and a list that names a signer
\* twice.
SubsetLists == {<<p1, p2>>, <<p2, p3>>, <<p1, p2, p3>>, <<p1, p1>>}

\* The nonces behind the summands of a verifying signature.
SignedWith(sig) == {z.nonce : z \in sig.z}

\* The nonce R is fresh per signature (CONSTANT-TIME-REVIEW.md, SignRound1):
\* signatures of different messages share no nonce.
NonceSignsOnce ==
  \A s, t \in sigs :
    CheckL2Norm(s) /\ CheckL2Norm(t) /\ s.H # t.H
      => SignedWith(s) \cap SignedWith(t) = {}

\* Robustness (SPEC.md section 5): at least t parties that all complete both
\* rounds produce a valid signature.
QuorumSigns ==
  \A sig \in sigs :
    Complete(sig) /\ Cardinality(Members(sig.H.th.T)) >= Threshold
      => Verify(sig.H.mu, sig)
=============================================================================
