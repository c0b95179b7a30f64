-------------------------- MODULE ReshareExchange --------------------------
(***************************************************************************)
(* The verifiable exchange around one resharing: dealers of the old quorum *)
(* deliver committed shares to the members of the new committee, members   *)
(* complain about what they received, work out which dealers qualify, and  *)
(* activate the new epoch on a certificate they sign together.             *)
(*                                                                         *)
(* Package reshare provides the checks and the computations; the caller    *)
(* runs them in the order its integration checklist gives, with Round 1    *)
(* deliveries on time between honest parties and complaints that reach     *)
(* members in any order, repeatedly, or not at all.  A hash is what was    *)
(* hashed; a commitment vector is its digest; a private share is whether   *)
(* it passes VerifyShareAgainstCommits.                                    *)
(***************************************************************************)
EXTENDS Naturals, Sequences, FiniteSets, Functions

CONSTANTS
  Dealer,          \* the original quorum of old-committee parties
  Member,          \* the new committee
  Faulty,          \* the dealers and members that may do anything
  ThresholdOld,    \* t_old
  CertQuorum,      \* the member sets whose signature verifies under the GroupKey
  FaultyDelivery,  \* what a faulty dealer delivers
  LocalTranscript, \* TranscriptInputs.Hash of this invocation
  OldComplaints,   \* complaints of earlier invocations still on the wire
  Nil,             \* nothing
  MaxFalse,        \* bound: complaints faulty members make up
  MaxLog           \* bound: complaints a member receives

Reason == {"bad-delivery", "equivocation", "missing", "malformed-commit"}

\* A delivery is the digest of the commits and the verdict on the share; its
\* check is "length" when the commit vector is empty.
ASSUME DeliveryAssumption ==
  /\ Nil \notin FaultyDelivery
  /\ \A d \in FaultyDelivery :
       DOMAIN d = {"digest", "check"} /\ d.check \in {"ok", "mismatch", "length"}

ASSUME ThresholdAssumption == ThresholdOld \in Nat \ {0}

ASSUME ExchangeBoundAssumption == {MaxFalse, MaxLog} \subseteq Nat

ASSUME FiniteAssumption == IsFiniteSet(Dealer) /\ IsFiniteSet(Member)

\* Two certificates share an honest signer.
ASSUME CertQuorumAssumption ==
  \A S, T \in CertQuorum : S \subseteq Member /\ (S \cap T) \ Faulty # {}

ASSUME OldComplaintsAssumption ==
  \A c \in OldComplaints : c.TranscriptHash # LocalTranscript

VARIABLES
  dealt,        \* dealt[i][j]: what dealer i delivered to member j in Round 1
  complaints,   \* the signed complaints on the wire
  phase,        \* how far each member is
  log,          \* log[j]: the validated complaints j received, in order
  disqualified, \* disqualified[j]: the senders j found disqualified
  quorum,       \* quorum[j]: the qualified quorum j computed
  signed        \* the activation messages signed, with their signers

vars == <<dealt, complaints, phase, log, disqualified, quorum, signed>>

Honest(S) == S \ Faulty

\* What an honest dealer delivers.
Good == [digest |-> 1, check |-> "ok"]

Delivery == FaultyDelivery \cup {Good, Nil}

-----------------------------------------------------------------------------
(* The computations of package reshare.                                    *)

\* Mutant: the share is not compared with the commits.
Reasons_NoMismatch(d) ==
  IF d = Nil THEN {"missing"}
  ELSE IF d.check = "length" THEN {"malformed-commit"} ELSE {}

\* VerifyShareAgainstCommits: the reason to complain about a delivery, if any.
\* The length of the commit vector is not compared with t_new: a commitment of
\* another degree passes with shares that fit it.  A delivery that is absent at
\* the deadline is itself a reason.
Reasons(d) ==
  IF d = Nil THEN {"missing"}
  ELSE {r \in {"malformed-commit", "bad-delivery"} :
          \/ d.check = "length" /\ r = "malformed-commit"
          \/ d.check = "mismatch" /\ r = "bad-delivery"}

\* A complaint of j about i, signed for this invocation.
NewComplaint(i, j, reason) ==
  [TranscriptHash |-> LocalTranscript, SenderID |-> i, ComplainerID |-> j,
   Reason |-> reason]

\* Mutant: a complaint of another invocation is taken.
Validated_AnyInvocation(c) == c.SenderID \in Dealer

\* The complaint is for this invocation.  (That its key is the complainer's and
\* its evidence holds up is the caller's check.)
Validated(c) == c.TranscriptHash = LocalTranscript

\* The default t_old - 1, and at least 1.
DisqualificationThreshold(t) == IF t <= 1 THEN 1 ELSE t - 1

\* The distinct complainers about i.
Complainers(cs, i) == {c.ComplainerID : c \in {x \in Range(cs) : x.SenderID = i}}

\* Mutant: complaints are counted, not complainers.
ComputeDisqualifiedSet_NoDedup(cs, t) ==
  {i \in {c.SenderID : c \in Range(cs)} :
     Cardinality({n \in DOMAIN cs : cs[n].SenderID = i})
       >= DisqualificationThreshold(t)}

\* ComputeDisqualifiedSet.
ComputeDisqualifiedSet(cs, t) ==
  {i \in {c.SenderID : c \in Range(cs)} :
     Cardinality(Complainers(cs, i)) >= DisqualificationThreshold(t)}

\* No ErrInsufficientQuorum.
SufficientQuorum(q, tOld) == Cardinality(q) >= tOld

\* The survivors FilterQualifiedQuorum returns.
FilterQualifiedQuorum(q, dq) == q \ dq

\* ReshareTranscript.Hash of member j's view: commit digests by dealer, the
\* complaint hashes in the order given, the two party lists sorted.
ReshareTranscript(j) ==
  [CommitDigests |->
     [i \in {k \in Dealer : dealt[k][j] # Nil} |-> dealt[i][j].digest],
   ComplaintHashes     |-> log[j],
   DisqualifiedSenders |-> disqualified[j],
   QualifiedQuorum     |-> quorum[j]]

\* The message j signs: both transcript hashes.
ActivationMessage(j) ==
  [Transcript |-> LocalTranscript, ReshareTranscript |-> ReshareTranscript(j)]

\* The callback of VerifyActivation: the signature verifies when the members of
\* a whole signing quorum have signed this message.
SignatureVerifies(message) ==
  \E S \in CertQuorum : \A m \in S : [Signer |-> m, Message |-> message] \in signed

\* Mutant: the exchange hash is not compared with the local one.
VerifyActivation_AnyExchange(message, localTranscript, localExchange) ==
  /\ message.Transcript = localTranscript
  /\ SignatureVerifies(message)

\* VerifyActivation.
VerifyActivation(message, localTranscript, localExchange) ==
  /\ message.Transcript = localTranscript
  /\ message.ReshareTranscript = localExchange
  /\ SignatureVerifies(message)

-----------------------------------------------------------------------------
Init ==
  /\ dealt = [i \in Dealer |-> [j \in Member |-> Nil]]
  /\ complaints = OldComplaints
  /\ phase = [j \in Member |-> "deal"]
  /\ log = [j \in Member |-> <<>>]
  /\ disqualified = [j \in Member |-> {}]
  /\ quorum = [j \in Member |-> {}]
  /\ signed = {}

\* Round 1: dealer i commits with CommitToPoly and delivers to each member
\* before that member's deadline; a faulty dealer delivers what it likes.
Deal(i, d) ==
  /\ \A j \in Member : dealt[i][j] = Nil
  /\ \A j \in Member : d[j] # Nil => phase[j] = "deal"
  /\ i \notin Faulty => \A j \in Member : d[j] = Good
  /\ dealt' = [dealt EXCEPT ![i] = d]
  /\ UNCHANGED <<complaints, phase, log, disqualified, quorum, signed>>

\* The Round 1 deadline of member j: it verifies every delivery and complains.
\* Honest dealers have delivered by then.
RoundOneDeadline(j) ==
  /\ phase[j] = "deal"
  /\ \A i \in Honest(Dealer) : dealt[i][j] # Nil
  /\ complaints' = complaints \cup
       UNION {{NewComplaint(i, j, r) : r \in Reasons(dealt[i][j])} : i \in Dealer}
  /\ phase' = [phase EXCEPT ![j] = "complain"]
  /\ UNCHANGED <<dealt, log, disqualified, quorum, signed>>

\* Round 1.5: j finds that i's commit digest differs from the one member k got.
CrossCheckDigests(j, k, i) ==
  /\ phase[j] = "complain" /\ phase[k] # "deal"
  /\ dealt[i][j] # Nil /\ dealt[i][k] # Nil
  /\ dealt[i][j].digest # dealt[i][k].digest
  /\ complaints' = complaints \cup {NewComplaint(i, j, "equivocation")}
  /\ UNCHANGED <<dealt, phase, log, disqualified, quorum, signed>>

\* A faulty member complains without cause, for a reason whose evidence nobody
\* else can refute.
FalseComplaint(j, i, reason) ==
  /\ Cardinality({c \in complaints \ OldComplaints : c.ComplainerID \in Faulty})
       < MaxFalse
  /\ complaints' = complaints \cup {NewComplaint(i, j, reason)}
  /\ UNCHANGED <<dealt, phase, log, disqualified, quorum, signed>>

\* Round 2: a complaint reaches member j, perhaps again.
ReceiveComplaint(j, c) ==
  /\ phase[j] = "complain"
  /\ Len(log[j]) < MaxLog
  /\ Validated(c)
  /\ log' = [log EXCEPT ![j] = Append(@, c)]
  /\ UNCHANGED <<dealt, complaints, phase, disqualified, quorum, signed>>

\* The Round 2 deadline of member j: compute the qualified quorum, or fail.
RoundTwoDeadline(j) ==
  LET dq == ComputeDisqualifiedSet(log[j], ThresholdOld)
      q  == FilterQualifiedQuorum(Dealer, dq)
  IN
  /\ phase[j] = "complain"
  /\ disqualified' = [disqualified EXCEPT ![j] = dq]
  /\ IF SufficientQuorum(q, ThresholdOld)
       THEN /\ quorum' = [quorum EXCEPT ![j] = q]
            /\ phase' = [phase EXCEPT ![j] = "qualified"]
       ELSE /\ phase' = [phase EXCEPT ![j] = "failed"]
            /\ UNCHANGED quorum
  /\ UNCHANGED <<dealt, complaints, log, signed>>

\* Member j has a verified share from every dealer of its quorum.
HoldsShares(j) == \A i \in quorum[j] : Reasons(dealt[i][j]) = {}

\* j's response to its activation message, under the share it computed.
SignActivation(j) ==
  /\ phase[j] = "qualified"
  /\ HoldsShares(j)
  /\ signed' = signed \cup {[Signer |-> j, Message |-> ActivationMessage(j)]}
  /\ UNCHANGED <<dealt, complaints, phase, log, disqualified, quorum>>

\* A faulty member helps sign the message of member k's view.
FaultySign(j, k) ==
  /\ phase[k] = "qualified"
  /\ signed' = signed \cup {[Signer |-> j, Message |-> ActivationMessage(k)]}
  /\ UNCHANGED <<dealt, complaints, phase, log, disqualified, quorum>>

\* A certificate on message reaches j, which takes the new epoch if it
\* verifies; otherwise j stays at the old epoch.
Activate(j, message) ==
  /\ phase[j] = "qualified"
  /\ VerifyActivation(message, LocalTranscript, ReshareTranscript(j))
  /\ phase' = [phase EXCEPT ![j] = "active"]
  /\ UNCHANGED <<dealt, complaints, log, disqualified, quorum, signed>>

Next ==
  \/ \E i \in Dealer : \E d \in [Member -> Delivery] : Deal(i, d)
  \/ \E j \in Member :
       \/ RoundOneDeadline(j)
       \/ \E k \in Member, i \in Dealer : CrossCheckDigests(j, k, i)
       \/ \E c \in complaints : ReceiveComplaint(j, c)
       \/ RoundTwoDeadline(j)
       \/ \E s \in signed : Activate(j, s.Message)
  \/ \E j \in Honest(Member) : SignActivation(j)
  \/ \E j \in Member \cap Faulty :
       \/ \E i \in Dealer, reason \in {"missing", "bad-delivery"} :
            FalseComplaint(j, i, reason)
       \/ \E k \in Member : FaultySign(j, k)

Spec == Init /\ [][Next]_vars

-----------------------------------------------------------------------------
(* Types.                                                                  *)

Complaint == [TranscriptHash : {LocalTranscript}, SenderID : Dealer,
              ComplainerID : Member, Reason : Reason]

\* Every variable has its type; only complaints of this invocation are logged.
TypeOK ==
  /\ dealt \in [Dealer -> [Member -> Delivery]]
  /\ complaints \subseteq Complaint \cup OldComplaints
  /\ phase \in [Member -> {"deal", "complain", "qualified", "failed", "active"}]
  /\ log \in [Member -> Seq(Complaint)]
  /\ disqualified \in [Member -> SUBSET Dealer]
  /\ quorum \in [Member -> SUBSET Dealer]

-----------------------------------------------------------------------------
(* Safety.                                                                 *)

Active == {j \in Honest(Member) : phase[j] = "active"}

\* Members that activate the new epoch, on whatever certificates and after
\* complaints in whatever order, use one qualified quorum, and hold of each of
\* its dealers the same commitments: their shares lie on one polynomial
\* (VerifyActivation, ReshareTranscript.Hash).
ActivationAgreement ==
  \A j, k \in Active :
    /\ quorum[j] = quorum[k]
    /\ \A i \in quorum[j] :
         dealt[i][j] # Nil /\ dealt[i][k] # Nil
           => dealt[i][j].digest = dealt[i][k].digest

\* Behind an activated epoch stand at least t_old qualified dealers, and a
\* signing quorum whose honest members verified a share from each of them
\* (FilterQualifiedQuorum, the circuit breaker).
ActivationBacked ==
  \A j \in Active :
    /\ Cardinality(quorum[j]) >= ThresholdOld
    /\ \E S \in CertQuorum : \A m \in Honest(S) : \A i \in quorum[j] :
         dealt[i][m] # Nil /\ dealt[i][m].check = "ok"

\* Members that processed the same set of complaints, in any order and with
\* any repetitions, disqualify the same senders (ComputeDisqualifiedSet).
QuorumDeterministic ==
  \A j, k \in Member :
    /\ {phase[j], phase[k]} \cap {"deal", "complain"} = {}
    /\ Range(log[j]) = Range(log[k])
    => disqualified[j] = disqualified[k]

\* No member disqualifies an honest dealer (DisqualificationThreshold).
HonestDealersKept ==
  \A j \in Honest(Member) : disqualified[j] \subseteq Faulty
=============================================================================
