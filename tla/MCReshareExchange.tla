------------------------- MODULE MCReshareExchange -------------------------
(***************************************************************************)
(* Instances of ReshareExchange for TLC.                                   *)
(***************************************************************************)
EXTENDS ReshareExchange, TLC

CONSTANTS d1, d2, d3, d4, m1, m2, m3

\* The whole committee signs (every share carries the committee's Lambda).
Everybody == {Member}

\* Two members sign, one of them m1, which is honest.
PairsWithFirst == {S \in SUBSET Member : m1 \in S /\ Cardinality(S) >= 2}

\* A share that fails the check, and other commits with a share that passes.
BadShareOrCommits ==
  {[digest |-> 1, check |-> "mismatch"], [digest |-> 2, check |-> "ok"]}

\* Complaints about honest dealers in an earlier invocation.
EarlierComplaints ==
  {[TranscriptHash |-> "earlier", SenderID |-> i, ComplainerID |-> j,
    Reason |-> "missing"] : i \in Honest(Dealer), j \in Honest(Member)}

\* A faulty member needs no view of its own: it signs what others sign and
\* complains as it likes without one, so nothing reads what it received.
FaultyKeepNoLog ==
  \A j \in Member \cap Faulty :
    phase[j] = "deal" /\ \A i \in Dealer \cap Faulty : dealt[i][j] = Nil

\* Honest dealers are alike.
DealerSymmetry == Permutations(Honest(Dealer))
=============================================================================
