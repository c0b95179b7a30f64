----------------------- MODULE ReshareExchangeProofs -----------------------
(***************************************************************************)
(* Proofs about ReshareExchange, for every committee, every set of faulty  *)
(* parties and every bound.                                                *)
(***************************************************************************)
EXTENDS ReshareExchange, FiniteSetTheorems, TLAPS

\* The members whose view is final.
Settled(j) == phase[j] \in {"qualified", "active"}

\* A settled view has t_old dealers left.
QuorumLarge ==
  \A j \in Member : Settled(j) => Cardinality(quorum[j]) >= ThresholdOld

\* Every signed message is an activation message of this invocation.
SignedShape ==
  \A s \in signed :
    s.Message = [Transcript |-> LocalTranscript,
                 ReshareTranscript |-> s.Message.ReshareTranscript]

\* An honest member signs its own settled view only, and only with verified
\* shares.
SignedOwn ==
  \A s \in signed : s.Signer \notin Faulty =>
    /\ s.Signer \in Member
    /\ Settled(s.Signer)
    /\ s.Message = ActivationMessage(s.Signer)
    /\ HoldsShares(s.Signer)

\* An activated member's own message is certified.
ActiveCertified ==
  \A j \in Member : phase[j] = "active" => SignatureVerifies(ActivationMessage(j))

\* The inductive invariant behind agreement.
IInv == TypeOK /\ QuorumLarge /\ SignedShape /\ SignedOwn /\ ActiveCertified

-----------------------------------------------------------------------------
\* The reasons VerifyShareAgainstCommits yields are reasons.
LEMMA ReasonsType == \A d : Reasons(d) \subseteq Reason
  BY DEF Reasons, Reason

\* A disqualified sender is the sender of a logged complaint.
LEMMA DisqualifiedSenders ==
  ASSUME NEW cs \in Seq(Complaint), NEW t
  PROVE  ComputeDisqualifiedSet(cs, t) \subseteq Dealer
  <1>1. Range(cs) \subseteq Complaint
    BY DEF Range
  <1>2. \A c \in Range(cs) : c.SenderID \in Dealer
    BY <1>1 DEF Complaint
  <1> QED
    BY <1>2 DEF ComputeDisqualifiedSet

\* Every step keeps the types.
LEMMA TypeStep == TypeOK /\ [Next]_vars => TypeOK'
  <1> SUFFICES ASSUME TypeOK, [Next]_vars
               PROVE  TypeOK'
    OBVIOUS
  <1>1. ASSUME NEW i \in Dealer, NEW d \in [Member -> Delivery], Deal(i, d)
        PROVE  TypeOK'
    BY <1>1 DEF Deal, TypeOK
  <1>2. ASSUME NEW j \in Member, RoundOneDeadline(j)
        PROVE  TypeOK'
    <2>1. \A i \in Dealer : \A r \in Reasons(dealt[i][j]) :
            NewComplaint(i, j, r) \in Complaint
      BY ReasonsType DEF NewComplaint, Complaint
    <2>2. complaints' \subseteq Complaint \cup OldComplaints
      BY <1>2, <2>1 DEF RoundOneDeadline, TypeOK
    <2> QED
      BY <1>2, <2>2 DEF RoundOneDeadline, TypeOK
  <1>3. ASSUME NEW j \in Member, NEW k \in Member, NEW i \in Dealer,
               CrossCheckDigests(j, k, i)
        PROVE  TypeOK'
    <2>1. NewComplaint(i, j, "equivocation") \in Complaint
      BY DEF NewComplaint, Complaint, Reason
    <2> QED
      BY <1>3, <2>1 DEF CrossCheckDigests, TypeOK
  <1>4. ASSUME NEW j \in Member, NEW c \in complaints, ReceiveComplaint(j, c)
        PROVE  TypeOK'
    <2>1. c \in Complaint
      BY <1>4, OldComplaintsAssumption
      DEF ReceiveComplaint, Validated, TypeOK
    <2> QED
      BY <1>4, <2>1 DEF ReceiveComplaint, TypeOK
  <1>5. ASSUME NEW j \in Member, RoundTwoDeadline(j)
        PROVE  TypeOK'
    <2>1. ComputeDisqualifiedSet(log[j], ThresholdOld) \subseteq Dealer
      BY DisqualifiedSenders DEF TypeOK
    <2> DEFINE dq == ComputeDisqualifiedSet(log[j], ThresholdOld)
    <2>2. /\ disqualified' = [disqualified EXCEPT ![j] = dq]
          /\ \/ /\ quorum' = [quorum EXCEPT ![j] = Dealer \ dq]
                /\ phase' = [phase EXCEPT ![j] = "qualified"]
             \/ /\ phase' = [phase EXCEPT ![j] = "failed"]
                /\ UNCHANGED quorum
          /\ UNCHANGED <<dealt, complaints, log, signed>>
      BY <1>5 DEF RoundTwoDeadline, FilterQualifiedQuorum
    <2> HIDE DEF dq
    <2>3. dq \subseteq Dealer
      BY <2>1 DEF dq
    <2>4. /\ disqualified' \in [Member -> SUBSET Dealer]
          /\ quorum' \in [Member -> SUBSET Dealer]
      BY <2>2, <2>3 DEF TypeOK
    <2>5. phase' \in [Member -> {"deal", "complain", "qualified", "failed", "active"}]
      BY <2>2 DEF TypeOK
    <2> QED
      BY <2>2, <2>4, <2>5 DEF TypeOK
  <1>6. ASSUME NEW j \in Member, NEW message, Activate(j, message)
        PROVE  TypeOK'
    BY <1>6 DEF Activate, TypeOK
  <1>7. ASSUME NEW j \in Member, SignActivation(j)
        PROVE  TypeOK'
    BY <1>7 DEF SignActivation, TypeOK
  <1>8. ASSUME NEW j \in Member, NEW i \in Dealer,
               NEW reason \in {"missing", "bad-delivery"},
               FalseComplaint(j, i, reason)
        PROVE  TypeOK'
    <2>1. NewComplaint(i, j, reason) \in Complaint
      BY DEF NewComplaint, Complaint, Reason
    <2> QED
      BY <1>8, <2>1 DEF FalseComplaint, TypeOK
  <1>9. ASSUME NEW j \in Member, NEW k \in Member, FaultySign(j, k)
        PROVE  TypeOK'
    BY <1>9 DEF FaultySign, TypeOK
  <1>10. CASE UNCHANGED vars
    BY <1>10 DEF vars, TypeOK
  <1> QED
    BY <1>1, <1>2, <1>3, <1>4, <1>5, <1>6, <1>7, <1>8, <1>9, <1>10
    DEF Next, Honest

\* A settled member's deliveries, log and quorum are final: late deliveries and
\* complaints no longer reach it.
LEMMA SettledStays ==
  ASSUME TypeOK, [Next]_vars, NEW j \in Member, Settled(j)
  PROVE  /\ Settled(j)'
         /\ \A i \in Dealer : dealt'[i][j] = dealt[i][j]
         /\ log'[j] = log[j]
         /\ disqualified'[j] = disqualified[j]
         /\ quorum'[j] = quorum[j]
  <1>1. ASSUME NEW i \in Dealer, NEW d \in [Member -> Delivery], Deal(i, d)
        PROVE  \A k \in Dealer : dealt'[k][j] = dealt[k][j]
    BY <1>1 DEF Deal, TypeOK, Settled
  <1>2. ASSUME NEW i \in Dealer, NEW d \in [Member -> Delivery], Deal(i, d)
        PROVE  UNCHANGED <<phase, log, disqualified, quorum>>
    BY <1>2 DEF Deal
  <1>3. ASSUME NEW k \in Member,
               \/ RoundOneDeadline(k)
               \/ RoundTwoDeadline(k)
               \/ \E c \in complaints : ReceiveComplaint(k, c)
               \/ \E message : Activate(k, message)
        PROVE  /\ dealt' = dealt
               /\ Settled(j)'
               /\ log'[j] = log[j]
               /\ disqualified'[j] = disqualified[j]
               /\ quorum'[j] = quorum[j]
    BY <1>3 DEF RoundOneDeadline, RoundTwoDeadline, ReceiveComplaint, Activate,
                Settled, TypeOK
  <1>4. ASSUME \/ \E k, l \in Member, i \in Dealer : CrossCheckDigests(k, l, i)
               \/ \E k \in Member : SignActivation(k)
               \/ \E k \in Member, i \in Dealer,
                     reason \in {"missing", "bad-delivery"} :
                    FalseComplaint(k, i, reason)
               \/ \E k, l \in Member : FaultySign(k, l)
               \/ UNCHANGED vars
        PROVE  UNCHANGED <<dealt, phase, log, disqualified, quorum>>
    BY <1>4 DEF CrossCheckDigests, SignActivation, FalseComplaint, FaultySign,
                vars
  <1> QED
    BY <1>1, <1>2, <1>3, <1>4 DEF Next, Settled, Honest

\* So its activation message and its shares do not change either.
LEMMA MessageStays ==
  ASSUME TypeOK, [Next]_vars, NEW j \in Member, Settled(j)
  PROVE  /\ ActivationMessage(j)' = ActivationMessage(j)
         /\ HoldsShares(j) => HoldsShares(j)'
  <1>1. /\ \A i \in Dealer : dealt'[i][j] = dealt[i][j]
        /\ log'[j] = log[j]
        /\ disqualified'[j] = disqualified[j]
        /\ quorum'[j] = quorum[j]
    BY SettledStays
  <1>2. {k \in Dealer : dealt'[k][j] # Nil} = {k \in Dealer : dealt[k][j] # Nil}
    BY <1>1
  <1>3. [i \in {k \in Dealer : dealt'[k][j] # Nil} |-> dealt'[i][j].digest]
          = [i \in {k \in Dealer : dealt[k][j] # Nil} |-> dealt[i][j].digest]
    BY <1>1, <1>2
  <1>4. ReshareTranscript(j)' = ReshareTranscript(j)
    BY <1>1, <1>3 DEF ReshareTranscript
  <1>5. HoldsShares(j) => HoldsShares(j)'
    BY <1>1 DEF HoldsShares, TypeOK, Reasons
  <1> QED
    BY <1>4, <1>5 DEF ActivationMessage

\* Signatures are never withdrawn.
LEMMA SignedGrows == [Next]_vars => signed \subseteq signed'
  BY DEF Next, Deal, RoundOneDeadline, CrossCheckDigests, ReceiveComplaint,
         RoundTwoDeadline, Activate, SignActivation, FalseComplaint, FaultySign,
         vars

\* A new signature is an honest member's on its own view, or a faulty one's on
\* some view.
LEMMA NewSignature ==
  ASSUME [Next]_vars, NEW s \in signed', s \notin signed
  PROVE  \E j \in Member, k \in Member :
           /\ s = [Signer |-> j, Message |-> ActivationMessage(k)]
           /\ j \notin Faulty => j = k /\ SignActivation(j)
  <1>1. \/ \E j \in Honest(Member) : SignActivation(j)
        \/ \E j \in Member \cap Faulty, k \in Member : FaultySign(j, k)
    BY DEF Next, Deal, RoundOneDeadline, CrossCheckDigests, ReceiveComplaint,
           RoundTwoDeadline, Activate, FalseComplaint, vars
  <1> QED
    BY <1>1 DEF SignActivation, FaultySign, Honest

\* The invariant behind agreement is inductive.
LEMMA InvStep == IInv /\ [Next]_vars => IInv'
  <1> SUFFICES ASSUME IInv, [Next]_vars
               PROVE  IInv'
    OBVIOUS
  <1>0. TypeOK /\ TypeOK'
    BY TypeStep DEF IInv
  <1>1. QuorumLarge'
    <2> SUFFICES ASSUME NEW j \in Member, Settled(j)'
                 PROVE  Cardinality(quorum'[j]) >= ThresholdOld
      BY DEF QuorumLarge
    <2>1. CASE Settled(j)
      BY <2>1, <1>0, SettledStays DEF IInv, QuorumLarge
    <2>2. CASE ~Settled(j)
      <3>1. RoundTwoDeadline(j)
        BY <2>2, <1>0 DEF Next, Deal, RoundOneDeadline, CrossCheckDigests,
           ReceiveComplaint, RoundTwoDeadline, Activate, SignActivation,
           FalseComplaint, FaultySign, vars, Settled, TypeOK
      <3> QED
        BY <3>1, <2>2, <1>0 DEF RoundTwoDeadline, SufficientQuorum, Settled,
           TypeOK
    <2> QED
      BY <2>1, <2>2
  <1>2. SignedShape'
    <2> SUFFICES ASSUME NEW s \in signed'
                 PROVE  s.Message = [Transcript |-> LocalTranscript,
                          ReshareTranscript |-> s.Message.ReshareTranscript]
      BY DEF SignedShape
    <2>1. CASE s \in signed
      BY <2>1 DEF IInv, SignedShape
    <2>2. CASE s \notin signed
      BY <2>2, NewSignature DEF ActivationMessage
    <2> QED
      BY <2>1, <2>2
  <1>3. SignedOwn'
    <2> SUFFICES ASSUME NEW s \in signed', s.Signer \notin Faulty
                 PROVE  /\ s.Signer \in Member
                        /\ Settled(s.Signer)'
                        /\ s.Message = ActivationMessage(s.Signer)'
                        /\ HoldsShares(s.Signer)'
      BY DEF SignedOwn
    <2>1. /\ s.Signer \in Member
          /\ Settled(s.Signer)
          /\ s.Message = ActivationMessage(s.Signer)
          /\ HoldsShares(s.Signer)
      <3>1. CASE s \in signed
        BY <3>1 DEF IInv, SignedOwn
      <3>2. CASE s \notin signed
        <4>1. PICK j \in Member :
                /\ s = [Signer |-> j, Message |-> ActivationMessage(j)]
                /\ SignActivation(j)
          BY <3>2, NewSignature
        <4> QED
          BY <4>1 DEF SignActivation, Settled
      <3> QED
        BY <3>1, <3>2
    <2> QED
      BY <2>1, <1>0, SettledStays, MessageStays
  <1>4. ActiveCertified'
    <2> SUFFICES ASSUME NEW j \in Member, phase'[j] = "active"
                 PROVE  SignatureVerifies(ActivationMessage(j))'
      BY DEF ActiveCertified
    <2>1. Settled(j) /\ SignatureVerifies(ActivationMessage(j))
      <3>1. CASE phase[j] = "active"
        BY <3>1 DEF IInv, ActiveCertified, Settled
      <3>2. CASE phase[j] # "active"
        <4>1. PICK s \in signed : Activate(j, s.Message)
          BY <3>2, <1>0 DEF Next, Deal, RoundOneDeadline, CrossCheckDigests,
             ReceiveComplaint, RoundTwoDeadline, Activate, SignActivation,
             FalseComplaint, FaultySign, vars, TypeOK
        <4>2. s.Message = ActivationMessage(j)
          BY <4>1 DEF Activate, VerifyActivation, ActivationMessage, IInv,
                      SignedShape
        <4> QED
          BY <4>1, <4>2 DEF Activate, VerifyActivation, Settled
      <3> QED
        BY <3>1, <3>2
    <2>2. ActivationMessage(j)' = ActivationMessage(j)
      BY <2>1, <1>0, MessageStays
    <2> QED
      BY <2>1, <2>2, SignedGrows DEF SignatureVerifies
  <1> QED
    BY <1>0, <1>1, <1>2, <1>3, <1>4 DEF IInv

\* IInv holds in every reachable state.
THEOREM Invariance == Spec => []IInv
  <1>1. Init => IInv
    BY DEF Init, IInv, TypeOK, Delivery, QuorumLarge, Settled, SignedShape,
           SignedOwn, ActiveCertified
  <1> QED
    BY <1>1, InvStep, PTL DEF Spec

\* Every variable keeps its type; stale complaints are never logged.
THEOREM TypeCorrect == Spec => []TypeOK
  <1>1. IInv => TypeOK
    BY DEF IInv
  <1> QED
    BY <1>1, Invariance, PTL

\* Members that activate do so on one quorum and one set of commitments.
THEOREM ActivationAgreementTheorem == Spec => []ActivationAgreement
  <1>1. IInv => ActivationAgreement
    <2> SUFFICES ASSUME IInv, NEW j \in Active, NEW k \in Active
                 PROVE  /\ quorum[j] = quorum[k]
                        /\ \A i \in quorum[j] :
                             dealt[i][j] # Nil /\ dealt[i][k] # Nil
                               => dealt[i][j].digest = dealt[i][k].digest
      BY DEF ActivationAgreement
    <2>1. j \in Member /\ k \in Member
      BY DEF Active, Honest
    <2>2. /\ SignatureVerifies(ActivationMessage(j))
          /\ SignatureVerifies(ActivationMessage(k))
      BY <2>1 DEF IInv, ActiveCertified, Active
    <2>3. PICK m : /\ m \notin Faulty
                   /\ [Signer |-> m, Message |-> ActivationMessage(j)] \in signed
                   /\ [Signer |-> m, Message |-> ActivationMessage(k)] \in signed
      BY <2>2, CertQuorumAssumption DEF SignatureVerifies
    <2>4. ActivationMessage(j) = ActivationMessage(k)
      BY <2>3 DEF IInv, SignedOwn
    <2>5. ReshareTranscript(j) = ReshareTranscript(k)
      BY <2>4 DEF ActivationMessage
    <2>6. quorum[j] = quorum[k]
      BY <2>5 DEF ReshareTranscript
    <2>7. [i \in {x \in Dealer : dealt[x][j] # Nil} |-> dealt[i][j].digest]
            = [i \in {x \in Dealer : dealt[x][k] # Nil} |-> dealt[i][k].digest]
      BY <2>5 DEF ReshareTranscript
    <2>8. quorum[j] \subseteq Dealer
      BY <2>1 DEF IInv, TypeOK
    <2> QED
      BY <2>6, <2>7, <2>8
  <1> QED
    BY <1>1, Invariance, PTL

\* An activated epoch has t_old qualified dealers and a signing quorum whose
\* honest members verified a share from each.
THEOREM ActivationBackedTheorem == Spec => []ActivationBacked
  <1>1. IInv => ActivationBacked
    <2> SUFFICES ASSUME IInv, NEW j \in Active
                 PROVE  /\ Cardinality(quorum[j]) >= ThresholdOld
                        /\ \E S \in CertQuorum : \A m \in Honest(S) :
                             \A i \in quorum[j] :
                               dealt[i][m] # Nil /\ dealt[i][m].check = "ok"
      BY DEF ActivationBacked
    <2>1. j \in Member /\ phase[j] = "active"
      BY DEF Active, Honest
    <2>2. Cardinality(quorum[j]) >= ThresholdOld
      BY <2>1 DEF IInv, QuorumLarge, Settled
    <2>3. PICK S \in CertQuorum :
            \A m \in S : [Signer |-> m, Message |-> ActivationMessage(j)] \in signed
      BY <2>1 DEF IInv, ActiveCertified, SignatureVerifies
    <2>4. ASSUME NEW m \in Honest(S), NEW i \in quorum[j]
          PROVE  dealt[i][m] # Nil /\ dealt[i][m].check = "ok"
      <3>1. [Signer |-> m, Message |-> ActivationMessage(j)] \in signed
        BY <2>3 DEF Honest
      <3>2. /\ m \in Member
            /\ ActivationMessage(j) = ActivationMessage(m)
            /\ HoldsShares(m)
        BY <3>1 DEF IInv, SignedOwn, Honest
      <3>3. quorum[m] = quorum[j]
        BY <3>2 DEF ActivationMessage, ReshareTranscript
      <3>4. Reasons(dealt[i][m]) = {}
        BY <3>2, <3>3 DEF HoldsShares
      <3>5. dealt[i][m] \in Delivery
        BY <2>1, <3>2 DEF IInv, TypeOK
      <3> QED
        BY <3>4, <3>5, DeliveryAssumption DEF Reasons, Delivery, Good
    <2> QED
      BY <2>2, <2>3, <2>4
  <1> QED
    BY <1>1, Invariance, PTL

-----------------------------------------------------------------------------
(* Honest dealers.                                                         *)

\* Honest dealers deliver good shares under one commitment.
HonestDealings ==
  \A i \in Honest(Dealer), j \in Member : dealt[i][j] \in {Nil, Good}

\* A complaint that can be logged and is not a faulty member's is about a
\* faulty dealer.
FairComplaint(c) ==
  Validated(c) => c.ComplainerID \in Faulty \/ c.SenderID \in Faulty

\* All complaints on the wire and in the logs are of that kind, and a member
\* has disqualified only what its log justifies.
HonestInv ==
  /\ TypeOK
  /\ HonestDealings
  /\ \A c \in complaints : FairComplaint(c)
  /\ \A j \in Member : \A c \in Range(log[j]) : FairComplaint(c)
  /\ \A j \in Member : disqualified[j] \subseteq Faulty

\* What Append adds to the range of a sequence.
LEMMA RangeAppend ==
  ASSUME NEW S, NEW s \in Seq(S), NEW e \in S
  PROVE  Range(Append(s, e)) = Range(s) \cup {e}
  <1>1. /\ Append(s, e) \in Seq(S)
        /\ Len(Append(s, e)) = Len(s) + 1
        /\ \A i \in 1 .. Len(s) : Append(s, e)[i] = s[i]
        /\ Append(s, e)[Len(s) + 1] = e
    OBVIOUS
  <1>2. /\ Len(s) \in Nat
        /\ DOMAIN s = 1 .. Len(s)
        /\ DOMAIN Append(s, e) = 1 .. (Len(s) + 1)
    BY <1>1
  <1>3. 1 .. (Len(s) + 1) = (1 .. Len(s)) \cup {Len(s) + 1}
    BY <1>2
  <1>4. Range(Append(s, e)) \subseteq Range(s) \cup {e}
    BY <1>1, <1>2, <1>3 DEF Range
  <1>5. Range(s) \cup {e} \subseteq Range(Append(s, e))
    BY <1>1, <1>2, <1>3 DEF Range
  <1> QED
    BY <1>4, <1>5

\* With fewer faulty members than the threshold, a log of fair complaints
\* disqualifies faulty dealers only.
LEMMA FewCannotDisqualify ==
  ASSUME Cardinality(Member \cap Faulty) < DisqualificationThreshold(ThresholdOld),
         NEW cs \in Seq(Complaint),
         \A c \in Range(cs) : FairComplaint(c)
  PROVE  ComputeDisqualifiedSet(cs, ThresholdOld) \subseteq Faulty
  <1> SUFFICES ASSUME NEW i \in ComputeDisqualifiedSet(cs, ThresholdOld),
                      i \notin Faulty
               PROVE  FALSE
    OBVIOUS
  <1>1. Range(cs) \subseteq Complaint
    BY DEF Range
  <1>2. \A c \in Range(cs) :
          /\ c.ComplainerID \in Member
          /\ c.SenderID = i => c.ComplainerID \in Faulty
    BY <1>1 DEF Complaint, FairComplaint, Validated
  <1>3. Complainers(cs, i) \subseteq Member \cap Faulty
    BY <1>2 DEF Complainers
  <1>4. IsFiniteSet(Member \cap Faulty)
    <2>1. Member \cap Faulty \subseteq Member
      OBVIOUS
    <2> QED
      BY <2>1, FiniteAssumption, FS_Subset
  <1>5. /\ Cardinality(Complainers(cs, i)) \in Nat
        /\ Cardinality(Member \cap Faulty) \in Nat
        /\ Cardinality(Complainers(cs, i)) <= Cardinality(Member \cap Faulty)
    BY <1>3, <1>4, FS_Subset, FS_CardinalityType
  <1>6. DisqualificationThreshold(ThresholdOld) \in Nat
    BY ThresholdAssumption DEF DisqualificationThreshold
  <1>7. Cardinality(Complainers(cs, i)) >= DisqualificationThreshold(ThresholdOld)
    BY DEF ComputeDisqualifiedSet
  <1> QED
    BY <1>5, <1>6, <1>7

\* Every step keeps complaints fair and honest dealers in.
LEMMA HonestStep ==
  ASSUME Cardinality(Member \cap Faulty) < DisqualificationThreshold(ThresholdOld),
         HonestInv, [Next]_vars
  PROVE  HonestInv'
  <1>0. TypeOK /\ TypeOK'
    BY TypeStep DEF HonestInv
  <1>1. ASSUME NEW i \in Dealer, NEW d \in [Member -> Delivery], Deal(i, d)
        PROVE  HonestInv'
    <2>1. HonestDealings'
      BY <1>1, <1>0 DEF HonestInv, HonestDealings, Deal, TypeOK, Honest
    <2> QED
      BY <1>1, <2>1, <1>0 DEF HonestInv, Deal, FairComplaint, Validated
  <1>2. ASSUME NEW j \in Member, RoundOneDeadline(j)
        PROVE  HonestInv'
    <2>1. \A i \in Dealer : \A r \in Reasons(dealt[i][j]) :
            FairComplaint(NewComplaint(i, j, r))
      <3> SUFFICES ASSUME NEW i \in Dealer, NEW r \in Reasons(dealt[i][j]),
                          i \notin Faulty
                   PROVE  FALSE
        BY DEF FairComplaint, NewComplaint
      <3>1. dealt[i][j] # Nil /\ dealt[i][j] \in {Nil, Good}
        BY <1>2 DEF HonestInv, HonestDealings, RoundOneDeadline, Honest
      <3> QED
        BY <3>1 DEF Reasons, Good
    <2>2. \A c \in complaints' : FairComplaint(c)
      BY <1>2, <2>1 DEF RoundOneDeadline, HonestInv
    <2> QED
      BY <1>2, <2>2, <1>0 DEF HonestInv, HonestDealings, RoundOneDeadline,
                              FairComplaint, Validated
  <1>3. ASSUME NEW j \in Member, NEW k \in Member, NEW i \in Dealer,
               CrossCheckDigests(j, k, i)
        PROVE  HonestInv'
    <2>1. i \in Faulty
      BY <1>3 DEF CrossCheckDigests, HonestInv, HonestDealings, Honest
    <2>2. FairComplaint(NewComplaint(i, j, "equivocation"))
      BY <2>1 DEF FairComplaint, NewComplaint
    <2> QED
      BY <1>3, <2>2, <1>0 DEF HonestInv, HonestDealings, CrossCheckDigests,
                              FairComplaint, Validated
  <1>4. ASSUME NEW j \in Member, NEW c \in complaints, ReceiveComplaint(j, c)
        PROVE  HonestInv'
    <2>1. c \in Complaint
      BY <1>4, <1>0, OldComplaintsAssumption
      DEF ReceiveComplaint, Validated, TypeOK
    <2>2. \A m \in Member : Range(log'[m]) \subseteq Range(log[m]) \cup {c}
      <3>1. log[j] \in Seq(Complaint) /\ log'[j] = Append(log[j], c)
        BY <1>4, <1>0 DEF ReceiveComplaint, TypeOK
      <3>2. Range(log'[j]) = Range(log[j]) \cup {c}
        BY <3>1, <2>1, RangeAppend
      <3>3. \A m \in Member \ {j} : log'[m] = log[m]
        BY <1>4, <1>0 DEF ReceiveComplaint, TypeOK
      <3> QED
        BY <3>2, <3>3
    <2>3. \A m \in Member : \A x \in Range(log'[m]) : FairComplaint(x)
      BY <2>2 DEF HonestInv
    <2> QED
      BY <1>4, <2>3, <1>0 DEF HonestInv, HonestDealings, ReceiveComplaint,
                              FairComplaint, Validated
  <1>5. ASSUME NEW j \in Member, RoundTwoDeadline(j)
        PROVE  HonestInv'
    <2>1. ComputeDisqualifiedSet(log[j], ThresholdOld) \subseteq Faulty
      BY <1>0, FewCannotDisqualify DEF HonestInv, TypeOK
    <2>2. \A m \in Member : disqualified'[m] \subseteq Faulty
      BY <1>5, <2>1, <1>0 DEF RoundTwoDeadline, HonestInv, TypeOK
    <2> QED
      BY <1>5, <2>2, <1>0 DEF HonestInv, HonestDealings, RoundTwoDeadline,
                              FairComplaint, Validated
  <1>6. ASSUME NEW j \in Member, NEW i \in Dealer, j \in Faulty,
               NEW reason \in {"missing", "bad-delivery"},
               FalseComplaint(j, i, reason)
        PROVE  HonestInv'
    <2>1. FairComplaint(NewComplaint(i, j, reason))
      BY <1>6 DEF FairComplaint, NewComplaint
    <2> QED
      BY <1>6, <2>1, <1>0 DEF HonestInv, HonestDealings, FalseComplaint,
                              FairComplaint, Validated
  <1>7. ASSUME \/ \E j \in Member, s \in signed : Activate(j, s.Message)
               \/ \E j \in Member : SignActivation(j)
               \/ \E j, k \in Member : FaultySign(j, k)
               \/ UNCHANGED vars
        PROVE  HonestInv'
    <2>1. UNCHANGED <<dealt, complaints, log, disqualified>>
      BY <1>7 DEF Activate, SignActivation, FaultySign, vars
    <2> QED
      BY <2>1, <1>0 DEF HonestInv, HonestDealings, FairComplaint, Validated
  <1> QED
    BY <1>1, <1>2, <1>3, <1>4, <1>5, <1>6, <1>7 DEF Next, Honest

\* With fewer faulty members than DisqualificationThreshold(t_old), no honest
\* member ever disqualifies an honest dealer.
THEOREM HonestDealersKeptTheorem ==
  ASSUME Cardinality(Member \cap Faulty) < DisqualificationThreshold(ThresholdOld)
  PROVE  Spec => []HonestDealersKept
  <1>1. Init => HonestInv
    BY OldComplaintsAssumption
    DEF Init, HonestInv, TypeOK, Delivery, HonestDealings, Honest,
        FairComplaint, Validated, Range
  <1>2. HonestInv /\ [Next]_vars => HonestInv'
    BY HonestStep
  <1>3. HonestInv => HonestDealersKept
    BY DEF HonestInv, HonestDealersKept, Honest
  <1> QED
    BY <1>1, <1>2, <1>3, PTL DEF Spec
-----------------------------------------------------------------------------
(* Members with the same complaints agree, whatever the faulty parties do. *)

\* A member past its Round 2 deadline disqualified what its log says, and its
\* log is closed.
VerdictInv ==
  /\ TypeOK
  /\ \A j \in Member :
       phase[j] \notin {"deal", "complain"}
         => disqualified[j] = ComputeDisqualifiedSet(log[j], ThresholdOld)

\* Only the set of the complaints counts, not their order or their number.
LEMMA OrderIrrelevant ==
  ASSUME NEW cs, NEW ds, NEW t, Range(cs) = Range(ds)
  PROVE  ComputeDisqualifiedSet(cs, t) = ComputeDisqualifiedSet(ds, t)
  BY DEF ComputeDisqualifiedSet, Complainers

\* Every step keeps the verdicts in line with the logs.
LEMMA VerdictStep == VerdictInv /\ [Next]_vars => VerdictInv'
  <1> SUFFICES ASSUME VerdictInv, [Next]_vars
               PROVE  VerdictInv'
    OBVIOUS
  <1>0. TypeOK /\ TypeOK'
    BY TypeStep DEF VerdictInv
  <1> SUFFICES ASSUME NEW j \in Member, phase'[j] \notin {"deal", "complain"}
               PROVE  disqualified'[j]
                        = ComputeDisqualifiedSet(log'[j], ThresholdOld)
    BY <1>0 DEF VerdictInv, ComputeDisqualifiedSet, Complainers, Range
  <1>1. CASE phase[j] \notin {"deal", "complain"}
    <2>1. log'[j] = log[j] /\ disqualified'[j] = disqualified[j]
      BY <1>0, <1>1
      DEF Next, Deal, RoundOneDeadline, CrossCheckDigests, ReceiveComplaint,
          RoundTwoDeadline, Activate, SignActivation, FalseComplaint,
          FaultySign, TypeOK, vars, Honest
    <2> QED
      BY <1>1, <2>1 DEF VerdictInv
  <1>2. CASE phase[j] \in {"deal", "complain"}
    BY <1>0, <1>2
    DEF Next, Deal, RoundOneDeadline, CrossCheckDigests, ReceiveComplaint,
        RoundTwoDeadline, Activate, SignActivation, FalseComplaint, FaultySign,
        TypeOK, vars, Honest
  <1> QED
    BY <1>1, <1>2

\* Members that processed the same set of complaints, in any order and with any
\* repetitions, disqualify the same senders, for any number of faulty parties.
THEOREM QuorumDeterministicTheorem == Spec => []QuorumDeterministic
  <1>1. Init => VerdictInv
    BY DEF Init, VerdictInv, TypeOK, Delivery
  <1>2. VerdictInv /\ [Next]_vars => VerdictInv'
    BY VerdictStep
  <1>3. VerdictInv => QuorumDeterministic
    <2> SUFFICES ASSUME VerdictInv, NEW j \in Member, NEW k \in Member,
                        {phase[j], phase[k]} \cap {"deal", "complain"} = {},
                        Range(log[j]) = Range(log[k])
                 PROVE  disqualified[j] = disqualified[k]
      BY DEF QuorumDeterministic
    <2>1. phase[j] \notin {"deal", "complain"}
      OBVIOUS
    <2>2. phase[k] \notin {"deal", "complain"}
      OBVIOUS
    <2>3. ComputeDisqualifiedSet(log[j], ThresholdOld)
            = ComputeDisqualifiedSet(log[k], ThresholdOld)
      BY OrderIrrelevant
    <2> QED
      BY <2>1, <2>2, <2>3 DEF VerdictInv
  <1> QED
    BY <1>1, <1>2, <1>3, PTL DEF Spec
=============================================================================
