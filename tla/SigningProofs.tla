---------------------------- MODULE SigningProofs ----------------------------
(***************************************************************************)
(* Proofs about Signing, for every committee, number of sessions, signer   *)
(* list, message and bound.                                                *)
(***************************************************************************)
EXTENDS Signing, TLAPS

-----------------------------------------------------------------------------
(* The parts of the inductive invariant.                                   *)

\* A MAC on the network was made by a Round1 call of its sender.
MACsGenuine ==
  \A m \in round1 : \A j \in Party :
    m.MACs[j] # Nil =>
      Drew(m.MACs[j].sender, m.MACs[j].D, m.MACs[j].sid, m.MACs[j].T)

\* A draw is determined by its nonce: the owner, the session, the signer list
\* and, through the salt, the call.
DrawsKeyed ==
  \A d \in drawn :
    /\ d.D = PRNGKeyForRound(d.party, d.sid, d.T, d.call)
    /\ d.call <= calls[d.party]

\* A party only ever answers with a nonce of its own.
NoncesOwned ==
  /\ \A p \in Party : R[p] # Nil => R[p].party = p
  /\ \A z \in round2 : z.nonce # Nil => z.nonce.party = z.PartyID

\* The request a commitment h belongs to.
RequestOf(h) == [sid |-> h.th.sid, T |-> h.th.T, mu |-> h.mu]

\* A response exists only for a request its sender approved, over a non-empty
\* signer list.
ResponsesApproved ==
  \A z \in round2 :
    /\ RequestOf(z.h) \in approved[z.PartyID]
    /\ Members(z.h.th.T) # {}

\* H and C belong together and over a non-empty signer list.
ChallengesPaired ==
  \A p \in Party : C[p] # Nil =>
    /\ H[p] \in Hs
    /\ C[p] = LowNormHash(H[p], H[p].mu)
    /\ Members(H[p].th.T) # {}

\* A signature aggregates responses from the network under one (H, C) pair.
SignaturesPaired ==
  \A sig \in sigs :
    /\ sig.z \subseteq round2
    /\ sig.C = LowNormHash(sig.H, sig.H.mu)
    /\ Members(sig.H.th.T) # {}

IInv ==
  /\ TypeOK
  /\ MACsGenuine
  /\ DrawsKeyed
  /\ CommitmentsAuthentic
  /\ NoncesOwned
  /\ ResponsesApproved
  /\ ChallengesPaired
  /\ SignaturesPaired

-----------------------------------------------------------------------------
(* Operators.                                                              *)

\* The members of a signer list are parties.
LEMMA MembersParty ==
  ASSUME NEW T \in SignerList
  PROVE  Members(T) \subseteq Party
  BY SignerListAssumption DEF Members, Range

\* The entries of a caller's map are messages of the set it was filled from.
LEMMA MapsType ==
  ASSUME NEW S, NEW data \in Maps(S)
  PROVE  /\ \A k \in DOMAIN data : data[k] \in S
         /\ Range(data) \subseteq S
  BY DEF Maps, Range

\* EntryOf finds a message with the PartyID asked for.
LEMMA EntryOfType ==
  ASSUME NEW S, NEW data \in Maps(S), NEW j \in IDs(data)
  PROVE  EntryOf(data, j) \in S /\ EntryOf(data, j).PartyID = j
  BY MapsType DEF EntryOf, IDs

\* The nonce key determines everything it was derived from.
LEMMA PRNGKeyInjective ==
  ASSUME NEW p, NEW sid, NEW T, NEW salt, NEW q, NEW s, NEW L, NEW t,
         PRNGKeyForRound(p, sid, T, salt) = PRNGKeyForRound(q, s, L, t)
  PROVE  p = q /\ sid = s /\ T = L /\ salt = t
  BY DEF PRNGKeyForRound

-----------------------------------------------------------------------------
(* Each action keeps the types.                                            *)

\* Round1 keeps the types.
LEMMA Round1Type ==
  ASSUME TypeOK, NEW p \in Party, NEW sid \in Session, NEW T \in SignerList,
         Round1(p, sid, T)
  PROVE  TypeOK'
  <1>1. PICK salt \in SaltRead(p) :
          /\ R' = [R EXCEPT ![p] = PRNGKeyForRound(p, sid, T, salt)]
          /\ round1' = round1 \cup
               {[PartyID |-> p,
                 D       |-> PRNGKeyForRound(p, sid, T, salt),
                 MACs    |-> [j \in Party |->
                   IF j \in Members(T) \ {p}
                     THEN GenerateMAC(PRNGKeyForRound(p, sid, T, salt),
                                      MACKey(p, j), p, sid, T)
                     ELSE Nil]]}
          /\ calls' = [calls EXCEPT ![p] = @ + 1]
          /\ drawn' = drawn \cup
               {[party |-> p, call |-> calls[p] + 1,
                 D |-> PRNGKeyForRound(p, sid, T, salt),
                 sid |-> sid, T |-> T]}
          /\ UNCHANGED <<H, C, round2, sigs, tampers, restarts, approved>>
    BY DEF Round1, SignRound1
  <1>2. calls[p] \in Nat /\ salt \in Nat
    BY DEF TypeOK, SaltRead
  <1>3. PRNGKeyForRound(p, sid, T, salt) \in Nonce
    BY <1>2 DEF PRNGKeyForRound, Nonce
  <1>4. \A j \in Party :
          GenerateMAC(PRNGKeyForRound(p, sid, T, salt), MACKey(p, j), p,
                      sid, T) \in MAC
    BY <1>3 DEF GenerateMAC, MACKey, MAC
  <1>5. round1' \subseteq Round1Data
    BY <1>1, <1>3, <1>4 DEF TypeOK, Round1Data
  <1>6. drawn' \subseteq Draw
    BY <1>1, <1>2, <1>3 DEF TypeOK, Draw
  <1>7. R' \in [Party -> Nonce \cup {Nil}] /\ calls' \in [Party -> Nat]
    BY <1>1, <1>2, <1>3 DEF TypeOK
  <1> QED
    BY <1>1, <1>5, <1>6, <1>7 DEF TypeOK

\* Round2 keeps the types.
LEMMA Round2Type ==
  ASSUME TypeOK, NEW p \in Party, NEW sid \in Session, NEW mu \in Message,
         NEW T \in SignerList, NEW prfKey \in PRFKey,
         NEW data \in Maps(round1), Round2(p, sid, mu, T, prfKey, data)
  PROVE  TypeOK'
  <1> DEFINE D == [j \in IDs(data) |-> EntryOf(data, j).D]
             h == Commitment(Hash(D, sid, T), mu)
  <1>1. \A j \in Members(T) : D[j] \in Nonce
    <2>1. Members(T) \subseteq IDs(data)
      BY DEF Round2, SignRound2, SignRound2Preprocess
    <2>2. \A j \in IDs(data) : EntryOf(data, j) \in Round1Data
      BY EntryOfType DEF TypeOK
    <2> QED
      BY <2>1, <2>2 DEF Round1Data
  <1>2. h \in Hs
    BY <1>1 DEF Commitment, Hash, Hs, Transcript
  <1> HIDE DEF D
  <1>3. LowNormHash(h, mu) \in Cs
    BY <1>2 DEF LowNormHash, Cs
  <1> HIDE DEF h
  <1>4. /\ H' = [H EXCEPT ![p] = h]
        /\ C' = [C EXCEPT ![p] = LowNormHash(h, mu)]
        /\ round2' = round2 \cup
             {[PartyID |-> p, nonce |-> R[p], h |-> h, prfKey |-> prfKey]}
        /\ approved' = [approved EXCEPT
             ![p] = @ \cup {[sid |-> sid, T |-> T, mu |-> mu]}]
        /\ UNCHANGED <<R, round1, sigs, calls, tampers, restarts, drawn>>
    BY DEF Round2, SignRound2, D, h
  <1>5. round2' \subseteq Round2Data
    BY <1>2, <1>4 DEF TypeOK, Round2Data
  <1>6. approved' \in [Party -> SUBSET Request]
    BY <1>4 DEF TypeOK, Request
  <1>7. H' \in [Party -> Hs \cup {Nil}] /\ C' \in [Party -> Cs \cup {Nil}]
    BY <1>2, <1>3, <1>4 DEF TypeOK
  <1> QED
    BY <1>4, <1>5, <1>6, <1>7 DEF TypeOK

\* Finalize keeps the types.
LEMMA FinalizeType ==
  ASSUME TypeOK, ChallengesPaired, NEW p \in Party,
         NEW data \in Maps(round2), Finalize(p, data)
  PROVE  TypeOK'
  <1>1. C[p] \in Cs /\ H[p] \in Hs
    BY DEF Finalize, SignFinalize, HasChallenge, ChallengesPaired, TypeOK
  <1>2. Range(data) \subseteq Round2Data
    BY MapsType DEF TypeOK
  <1>3. [C |-> C[p], H |-> H[p], z |-> Range(data)] \in Signature
    BY <1>1, <1>2 DEF Signature
  <1> QED
    BY <1>3 DEF Finalize, SignFinalize, TypeOK

\* TamperRound1 keeps the types.
LEMMA TamperRound1Type ==
  ASSUME TypeOK, NEW m \in round1, NEW D \in {n.D : n \in round1},
         NEW i \in Party, TamperRound1(m, D, i)
  PROVE  TypeOK'
  <1>1. [m EXCEPT !.D = D, !.PartyID = i] \in Round1Data
    BY DEF TypeOK, Round1Data
  <1> QED
    BY <1>1 DEF TamperRound1, TypeOK

\* NewSigner keeps the types.
LEMMA NewSignerType ==
  ASSUME TypeOK, NEW p \in Party, NewSigner(p)
  PROVE  TypeOK'
  BY DEF NewSigner, TypeOK

-----------------------------------------------------------------------------
(* Each action keeps the invariant.                                        *)

\* A Round1 call commits to a nonce of its caller that no call had before.
LEMMA Round1Inv ==
  ASSUME IInv, NEW p \in Party, NEW sid \in Session, NEW T \in SignerList,
         Round1(p, sid, T)
  PROVE  IInv'
  <1> USE DEF IInv
  <1>0. calls[p] \in Nat
    BY DEF TypeOK
  <1>n. PICK D : D = PRNGKeyForRound(p, sid, T, calls[p] + 1)
    OBVIOUS
  <1> DEFINE d == [party |-> p, call |-> calls[p] + 1, D |-> D,
                   sid |-> sid, T |-> T]
             m == [PartyID |-> p, D |-> D,
                   MACs |-> [j \in Party |->
                     IF j \in Members(T) \ {p}
                       THEN GenerateMAC(D, MACKey(p, j), p, sid, T)
                       ELSE Nil]]
  <1>1. /\ R' = [R EXCEPT ![p] = D]
        /\ round1' = round1 \cup {m}
        /\ calls' = [calls EXCEPT ![p] = @ + 1]
        /\ drawn' = drawn \cup {d}
        /\ UNCHANGED <<H, C, round2, sigs, tampers, restarts, approved>>
    BY <1>0, <1>n DEF Round1, SignRound1, SaltRead, SaltAccepted
  <1>2. TypeOK'
    BY Round1Type
  <1>3. \A q, E, s, L : Drew(q, E, s, L) => Drew(q, E, s, L)'
    BY <1>1 DEF Drew
  <1>4. Drew(p, D, sid, T)'
    <2>1. d \in drawn'
      BY <1>1
    <2>2. d.party = p /\ d.D = D /\ d.sid = sid /\ d.T = T
      OBVIOUS
    <2> HIDE DEF d
    <2> QED
      BY <2>1, <2>2 DEF Drew
  <1>5. MACsGenuine'
    <2> SUFFICES ASSUME NEW n \in round1', NEW j \in Party, n.MACs[j] # Nil
                 PROVE  Drew(n.MACs[j].sender, n.MACs[j].D, n.MACs[j].sid,
                             n.MACs[j].T)'
      BY DEF MACsGenuine
    <2>1. CASE n \in round1
      BY <1>3, <2>1 DEF MACsGenuine
    <2>2. CASE n = m
      <3>1. n.MACs[j] = GenerateMAC(D, MACKey(p, j), p, sid, T)
        BY <2>2
      <3> QED
        BY <1>4, <3>1 DEF GenerateMAC
    <2> QED
      BY <1>1, <2>1, <2>2
  <1>6. DrawsKeyed'
    <2> SUFFICES ASSUME NEW e \in drawn'
                 PROVE  /\ e.D = PRNGKeyForRound(e.party, e.sid, e.T, e.call)
                        /\ e.call <= calls'[e.party]
      BY DEF DrawsKeyed
    <2>1. CASE e \in drawn
      <3>1. e.party \in Party /\ e.call \in Nat /\ calls[e.party] \in Nat
        BY <2>1 DEF TypeOK, Draw
      <3>2. calls'[e.party] \in Nat /\ calls[e.party] <= calls'[e.party]
        BY <1>1, <3>1 DEF TypeOK
      <3> QED
        BY <2>1, <3>1, <3>2 DEF DrawsKeyed
    <2>2. CASE e = d
      BY <1>0, <1>n, <1>1, <2>2 DEF TypeOK
    <2> QED
      BY <1>1, <2>1, <2>2
  <1>7. CommitmentsAuthentic'
    BY <1>1, <1>3 DEF CommitmentsAuthentic
  <1>8. NoncesOwned'
    BY <1>n, <1>1 DEF NoncesOwned, TypeOK, PRNGKeyForRound
  <1>9. ResponsesApproved' /\ ChallengesPaired' /\ SignaturesPaired'
    BY <1>1 DEF ResponsesApproved, ChallengesPaired, SignaturesPaired
  <1> QED
    BY <1>2, <1>5, <1>6, <1>7, <1>8, <1>9

\* The MAC a Round2 call accepts names the sender, session and signer list it
\* was made for, so the commitment under it is a draw of that sender.
LEMMA Round2Inv ==
  ASSUME IInv, NEW p \in Party, NEW sid \in Session, NEW mu \in Message,
         NEW T \in SignerList, NEW prfKey \in PRFKey,
         NEW data \in Maps(round1), Round2(p, sid, mu, T, prfKey, data)
  PROVE  IInv'
  <1> USE DEF IInv
  <1> DEFINE D == [j \in IDs(data) |-> EntryOf(data, j).D]
             h == Commitment(Hash(D, sid, T), mu)
             z == [PartyID |-> p, nonce |-> R[p], h |-> h, prfKey |-> prfKey]
  <1>1. /\ H' = [H EXCEPT ![p] = h]
        /\ C' = [C EXCEPT ![p] = LowNormHash(h, mu)]
        /\ round2' = round2 \cup {z}
        /\ approved' = [approved EXCEPT
             ![p] = @ \cup {[sid |-> sid, T |-> T, mu |-> mu]}]
        /\ UNCHANGED <<R, round1, sigs, calls, tampers, restarts, drawn>>
    BY DEF Round2, SignRound2
  <1>2. TypeOK'
    BY Round2Type
  <1>3. /\ h.th.sid = sid /\ h.th.T = T /\ h.mu = mu
        /\ \A j \in Members(T) : h.th.D[j] = EntryOf(data, j).D
    <2>1. Members(T) \subseteq IDs(data) /\ Members(T) \subseteq Party
      BY MembersParty DEF Round2, SignRound2, SignRound2Preprocess
    <2> QED
      BY <2>1 DEF Commitment, Hash
  <1>4. \A j \in Members(T) \ {p} : Drew(j, h.th.D[j], sid, T)
    <2> SUFFICES ASSUME NEW j \in Members(T) \ {p}
                 PROVE  Drew(j, h.th.D[j], sid, T)
      OBVIOUS
    <2> DEFINE m == EntryOf(data, j)
               g == GenerateMAC(m.D, MACKey(p, j), j, sid, T)
    <2>1. j \in IDs(data) /\ m.MACs[p] = g
      BY DEF Round2, SignRound2, SignRound2Preprocess
    <2>2. m \in round1 /\ m.D \in Nonce
      BY <2>1, EntryOfType DEF TypeOK, Round1Data
    <2>3. g \in MAC
      BY <2>2, MembersParty DEF GenerateMAC, MACKey, MAC
    <2>4. g.sender = j /\ g.D = m.D /\ g.sid = sid /\ g.T = T
      BY DEF GenerateMAC
    <2>5. Drew(g.sender, g.D, g.sid, g.T)
      BY <2>1, <2>2, <2>3, NilAssumption DEF MACsGenuine
    <2> QED
      BY <1>3, <2>4, <2>5
  <1>5. Members(T) # {}
    BY DEF Round2, SignRound2, SignRound2Preprocess
  <1> HIDE DEF D, h
  <1>6. \A q, E, s, L : Drew(q, E, s, L) => Drew(q, E, s, L)'
    BY <1>1 DEF Drew
  <1>7. CommitmentsAuthentic'
    BY <1>1, <1>3, <1>4, <1>6 DEF CommitmentsAuthentic
  <1>8. MACsGenuine' /\ DrawsKeyed'
    BY <1>1, <1>6 DEF MACsGenuine, DrawsKeyed
  <1>9. NoncesOwned'
    BY <1>1 DEF NoncesOwned, TypeOK
  <1>10. ResponsesApproved'
    <2>1. approved[p] \subseteq approved'[p]
      BY <1>1 DEF TypeOK
    <2>2. \A q \in Party : approved[q] \subseteq approved'[q]
      BY <1>1, <2>1 DEF TypeOK
    <2>3. RequestOf(h) \in approved'[p]
      BY <1>1, <1>3 DEF RequestOf, TypeOK
    <2>4. \A y \in round2 : y.PartyID \in Party
      BY DEF TypeOK, Round2Data
    <2> QED
      BY <1>1, <1>3, <1>5, <2>2, <2>3, <2>4 DEF ResponsesApproved
  <1>11. ChallengesPaired'
    <2>1. h \in Hs
      BY <1>1, <1>2 DEF TypeOK, Round2Data
    <2> QED
      BY <1>1, <1>3, <1>5, <2>1 DEF ChallengesPaired, TypeOK
  <1>12. SignaturesPaired'
    BY <1>1 DEF SignaturesPaired
  <1> QED
    BY <1>2, <1>7, <1>8, <1>9, <1>10, <1>11, <1>12

\* Finalize preserves IInv: the signature takes H and C of one Round2.
LEMMA FinalizeInv ==
  ASSUME IInv, NEW p \in Party, NEW data \in Maps(round2), Finalize(p, data)
  PROVE  IInv'
  <1> USE DEF IInv
  <1>1. TypeOK'
    BY FinalizeType
  <1>2. SignaturesPaired'
    <2>1. Range(data) \subseteq round2
      BY MapsType
    <2> QED
      BY <2>1 DEF Finalize, SignFinalize, HasChallenge, ChallengesPaired, SignaturesPaired
  <1>3. \A q, E, s, L : Drew(q, E, s, L) => Drew(q, E, s, L)'
    BY DEF Finalize, SignFinalize, Drew
  <1>4. MACsGenuine' /\ DrawsKeyed' /\ CommitmentsAuthentic' /\ NoncesOwned'
    BY <1>3 DEF Finalize, SignFinalize, MACsGenuine, DrawsKeyed, CommitmentsAuthentic,
                NoncesOwned
  <1>5. ResponsesApproved' /\ ChallengesPaired'
    BY DEF Finalize, SignFinalize, ResponsesApproved, ChallengesPaired
  <1> QED
    BY <1>1, <1>2, <1>4, <1>5

\* Corrupting a message moves no MAC and makes none.
LEMMA TamperRound1Inv ==
  ASSUME IInv, NEW m \in round1, NEW D \in {n.D : n \in round1},
         NEW i \in Party, TamperRound1(m, D, i)
  PROVE  IInv'
  <1> USE DEF IInv
  <1>1. TypeOK'
    BY TamperRound1Type
  <1>2. \A q, E, s, L : Drew(q, E, s, L) => Drew(q, E, s, L)'
    BY DEF TamperRound1, Drew
  <1>3. MACsGenuine'
    <2> DEFINE n == [m EXCEPT !.D = D, !.PartyID = i]
    <2>1. n.MACs = m.MACs
      BY DEF TypeOK, Round1Data
    <2>2. round1' = round1 \cup {n}
      BY DEF TamperRound1
    <2> HIDE DEF n
    <2> QED
      BY <1>2, <2>1, <2>2 DEF MACsGenuine
  <1>4. DrawsKeyed' /\ CommitmentsAuthentic' /\ NoncesOwned'
    BY <1>2 DEF TamperRound1, DrawsKeyed, CommitmentsAuthentic, NoncesOwned
  <1>5. ResponsesApproved' /\ ChallengesPaired' /\ SignaturesPaired'
    BY DEF TamperRound1, ResponsesApproved, ChallengesPaired, SignaturesPaired
  <1> QED
    BY <1>1, <1>3, <1>4, <1>5

\* NewSigner preserves IInv: it clears R, H and C together.
LEMMA NewSignerInv ==
  ASSUME IInv, NEW p \in Party, NewSigner(p)
  PROVE  IInv'
  <1> USE DEF IInv
  <1>1. TypeOK'
    BY NewSignerType
  <1>2. \A q, E, s, L : Drew(q, E, s, L) => Drew(q, E, s, L)'
    BY DEF NewSigner, Drew
  <1>3. MACsGenuine' /\ DrawsKeyed' /\ CommitmentsAuthentic'
    BY <1>2 DEF NewSigner, MACsGenuine, DrawsKeyed, CommitmentsAuthentic
  <1>4. NoncesOwned'
    BY DEF NewSigner, NoncesOwned, TypeOK
  <1>5. ChallengesPaired'
    BY DEF NewSigner, ChallengesPaired, TypeOK
  <1>6. ResponsesApproved' /\ SignaturesPaired'
    BY DEF NewSigner, ResponsesApproved, SignaturesPaired
  <1> QED
    BY <1>1, <1>3, <1>4, <1>5, <1>6

-----------------------------------------------------------------------------
(* The invariant holds of every behaviour.                                 *)

\* IInv holds at the start.
LEMMA InitInv == Init => IInv
  BY DEF Init, IInv, TypeOK, MACsGenuine, DrawsKeyed, CommitmentsAuthentic,
         NoncesOwned, ResponsesApproved, ChallengesPaired, SignaturesPaired

\* Every step preserves IInv.
LEMMA NextInv == IInv /\ [Next]_vars => IInv'
  <1> SUFFICES ASSUME IInv, [Next]_vars PROVE IInv'
    OBVIOUS
  <1>1. ASSUME NEW p \in Party, NEW sid \in Session, NEW T \in SignerList,
               Round1(p, sid, T)
        PROVE  IInv'
    BY <1>1, Round1Inv
  <1>2. ASSUME NEW p \in Party, NEW sid \in Session, NEW mu \in Message,
               NEW T \in SignerList, NEW prfKey \in PRFKey,
               NEW data \in Maps(round1), Round2(p, sid, mu, T, prfKey, data)
        PROVE  IInv'
    BY <1>2, Round2Inv
  <1>3. ASSUME NEW p \in Party, NEW data \in Maps(round2), Finalize(p, data)
        PROVE  IInv'
    BY <1>3, FinalizeInv
  <1>4. ASSUME NEW m \in round1, NEW D \in {n.D : n \in round1},
               NEW i \in Party, TamperRound1(m, D, i)
        PROVE  IInv'
    BY <1>4, TamperRound1Inv
  <1>5. ASSUME NEW p \in Party, NewSigner(p)
        PROVE  IInv'
    BY <1>5, NewSignerInv
  <1>6. CASE UNCHANGED vars
    BY <1>6 DEF vars, IInv, TypeOK, MACsGenuine, DrawsKeyed, Drew,
                CommitmentsAuthentic, NoncesOwned, ResponsesApproved,
                ChallengesPaired, SignaturesPaired
  <1> QED
    BY <1>1, <1>2, <1>3, <1>4, <1>5, <1>6 DEF Next

\* The conjunction of all parts is an invariant of the signing protocol.
THEOREM Invariance == Spec => []IInv
  BY InitInv, NextInv, PTL DEF Spec

\* Every variable keeps its type, and Finalize never publishes an unset
\* challenge or commitment.
THEOREM TypeCorrect == Spec => []TypeOK
  <1>1. IInv => TypeOK
    BY DEF IInv
  <1> QED
    BY <1>1, Invariance, PTL

\* No corrupted, relabelled or replayed Round1Data gets past the MAC checks of
\* SignRound2Preprocess, for any committee and any set of signer lists.
THEOREM CommitmentsAuthenticTheorem == Spec => []CommitmentsAuthentic
  <1>1. IInv => CommitmentsAuthentic
    BY DEF IInv
  <1> QED
    BY <1>1, Invariance, PTL

\* No two Round1 calls of SignRound1 commit to one nonce, however often a
\* session id and signer list are reused.
THEOREM NonceFreshTheorem == Spec => []NonceFresh
  <1>1. IInv => NonceFresh
    <2> SUFFICES ASSUME TypeOK, DrawsKeyed,
                        NEW d \in drawn, NEW e \in drawn, d.D = e.D
                 PROVE  d = e
      BY DEF IInv, NonceFresh
    <2>1. d \in Draw /\ e \in Draw
      BY DEF TypeOK
    <2>2. PRNGKeyForRound(d.party, d.sid, d.T, d.call)
            = PRNGKeyForRound(e.party, e.sid, e.T, e.call)
      BY DEF DrawsKeyed
    <2>3. d.party = e.party /\ d.sid = e.sid /\ d.T = e.T /\ d.call = e.call
      BY <2>2, PRNGKeyInjective
    <2> QED
      BY <2>1, <2>3 DEF Draw
  <1> QED
    BY <1>1, Invariance, PTL

-----------------------------------------------------------------------------
(* What a verifying aggregate proves about its parts.                      *)

\* The masks tie the responses together: the mask that one response to h adds
\* for j can only be taken away again by a response of j to h, and the mask it
\* takes away can only have been added if its sender is listed.
LEMMA MasksTie ==
  ASSUME NEW Z \in SUBSET Round2Data, MasksCancel(Z), NEW y \in Z
  PROVE  /\ \A j \in Members(y.h.th.T) :
              \E z \in Z : z.PartyID = j /\ z.h = y.h
         /\ Members(y.h.th.T) # {} => y.PartyID \in Members(y.h.th.T)
  <1>1. \A z \in Z : /\ z.PartyID \in Party
                     /\ Members(z.h.th.T) \subseteq Party
    BY MembersParty DEF Round2Data, Hs, Transcript
  <1>2. ASSUME NEW j \in Members(y.h.th.T)
        PROVE  \E z \in Z : z.PartyID = j /\ z.h = y.h
    <2> DEFINE k == [seed |-> Seeds[j][y.PartyID], prfKey |-> y.prfKey,
                     h |-> y.h]
    <2>1. k \in MaskPrime(y)
      BY DEF MaskPrime
    <2>2. PICK z \in Z : k \in Mask(z)
      BY <2>1 DEF MasksCancel
    <2>3. PICK i \in Members(z.h.th.T) :
            k = [seed |-> Seeds[z.PartyID][i], prfKey |-> z.prfKey, h |-> z.h]
      BY <2>2 DEF Mask
    <2>4. Seeds[j][y.PartyID] = Seeds[z.PartyID][i] /\ z.h = y.h
      BY <2>3
    <2> QED
      BY <1>1, <2>4, SeedsAssumption
  <1>3. ASSUME NEW j \in Members(y.h.th.T)
        PROVE  y.PartyID \in Members(y.h.th.T)
    <2> DEFINE k == [seed |-> Seeds[y.PartyID][j], prfKey |-> y.prfKey,
                     h |-> y.h]
    <2>1. k \in Mask(y)
      BY DEF Mask
    <2>2. PICK z \in Z : k \in MaskPrime(z)
      BY <2>1 DEF MasksCancel
    <2>3. PICK i \in Members(z.h.th.T) :
            k = [seed |-> Seeds[i][z.PartyID], prfKey |-> z.prfKey, h |-> z.h]
      BY <2>2 DEF MaskPrime
    <2>4. Seeds[y.PartyID][j] = Seeds[i][z.PartyID] /\ z.h = y.h
      BY <2>3
    <2> QED
      BY <1>1, <2>4, SeedsAssumption
  <1> QED
    BY <1>2, <1>3

\* An aggregate below the norm bound holds, for every listed signer, a response
\* of that signer and a response with that signer's nonce, all to the
\* finalizer's commitment; and the dealt shares are among the listed signers.
LEMMA VerifyingAggregate ==
  ASSUME NEW sig \in Signature, CheckL2Norm(sig),
         sig.C = LowNormHash(sig.H, sig.H.mu), Members(sig.H.th.T) # {}
  PROVE  /\ \A j \in Members(sig.H.th.T) :
              /\ \E z \in sig.z : z.PartyID = j /\ z.h = sig.H
              /\ \E z \in sig.z : /\ z.nonce # Nil
                                  /\ z.nonce = sig.H.th.D[j]
                                  /\ z.h = sig.H
         /\ Dealt \subseteq Members(sig.H.th.T)
  <1>1. sig.z \in SUBSET Round2Data
    BY DEF Signature
  <1>2. \A j \in Members(sig.H.th.T) :
          \E z \in sig.z : /\ z.nonce # Nil
                           /\ z.nonce = sig.H.th.D[j]
                           /\ z.h = sig.H
    BY DEF CheckL2Norm, NoncesMatch, Bijection, Surjection
  <1>3. \A j \in Members(sig.H.th.T) :
          \E z \in sig.z : z.PartyID = j /\ z.h = sig.H
    <2>1. PICK y \in sig.z : y.h = sig.H
      BY <1>2
    <2> QED
      BY <1>1, <2>1, MasksTie DEF CheckL2Norm
  <1>4. ASSUME NEW i \in Dealt
        PROVE  i \in Members(sig.H.th.T)
    <2>1. PICK y \in sig.z : y.PartyID = i
      BY DEF CheckL2Norm, SharesRecover
    <2>2. LowNormHash(y.h, y.h.mu) = LowNormHash(sig.H, sig.H.mu)
      BY <2>1 DEF CheckL2Norm, SharesRecover
    <2>3. y.h = sig.H
      BY <2>2 DEF LowNormHash
    <2> QED
      BY <1>1, <2>1, <2>3, MasksTie DEF CheckL2Norm
  <1> QED
    BY <1>2, <1>3, <1>4

\* With at least two dealt shares (t >= 2), behind a verifying signature every
\* listed signer answered with the nonce it committed to in a Round1 call for
\* this session and signer list.
THEOREM SignedNoncesGenuineTheorem ==
  ASSUME \E i, j \in Dealt : i # j
  PROVE  Spec => []SignedNoncesGenuine
  <1>1. IInv => SignedNoncesGenuine
    <2> SUFFICES ASSUME IInv, NEW sig \in sigs, CheckL2Norm(sig),
                        NEW j \in Members(sig.H.th.T)
                 PROVE  /\ Drew(j, sig.H.th.D[j], sig.H.th.sid, sig.H.th.T)
                        /\ \E z \in sig.z :
                             /\ z.PartyID = j
                             /\ z.h = sig.H
                             /\ z.nonce = sig.H.th.D[j]
      BY DEF SignedNoncesGenuine
    <2>1. /\ sig \in Signature
          /\ sig.z \subseteq round2
          /\ sig.C = LowNormHash(sig.H, sig.H.mu)
          /\ Members(sig.H.th.T) # {}
      BY DEF IInv, TypeOK, SignaturesPaired
    <2>2. PICK q \in Members(sig.H.th.T) : q # j
      BY <2>1, VerifyingAggregate
    <2>3. PICK y \in sig.z : y.PartyID = q /\ y.h = sig.H
      BY <2>1, VerifyingAggregate
    <2>4. PICK d \in drawn : /\ d.party = j
                             /\ d.D = sig.H.th.D[j]
                             /\ d.sid = sig.H.th.sid
                             /\ d.T = sig.H.th.T
      BY <2>1, <2>2, <2>3 DEF IInv, CommitmentsAuthentic, Drew
    <2>5. sig.H.th.D[j].party = j
      <3>1. d.D = PRNGKeyForRound(d.party, d.sid, d.T, d.call)
        BY DEF IInv, DrawsKeyed
      <3>2. d.D.party = d.party
        BY <3>1 DEF PRNGKeyForRound
      <3> QED
        BY <2>4, <3>2
    <2>6. PICK z \in sig.z : /\ z.nonce # Nil
                             /\ z.nonce = sig.H.th.D[j]
                             /\ z.h = sig.H
      BY <2>1, VerifyingAggregate
    <2>7. z.PartyID = j
      BY <2>1, <2>5, <2>6 DEF IInv, NoncesOwned
    <2> QED
      BY <2>4, <2>6, <2>7 DEF Drew
  <1> QED
    BY <1>1, Invariance, PTL

-----------------------------------------------------------------------------
(* The protocol implements the service.                                    *)

\* The requests of the commitments in verifying signatures.
VerifyingRequests == {RequestOf(sig.H) : sig \in {s \in sigs : CheckL2Norm(s)}}

\* A signature verifies for the request of its commitment and for no other.
LEMMA IssuedRequests == IInv => Issued = VerifyingRequests
  <1> SUFFICES ASSUME IInv PROVE Issued = VerifyingRequests
    OBVIOUS
  <1>1. \A sig \in sigs : /\ sig.H \in Hs
                          /\ sig.C = LowNormHash(sig.H, sig.H.mu)
    BY DEF IInv, TypeOK, Signature, SignaturesPaired
  <1>2. ASSUME NEW rq \in Request, NEW sig \in sigs,
               rq.sid = sig.H.th.sid, rq.T = sig.H.th.T, Verify(rq.mu, sig)
        PROVE  rq = RequestOf(sig.H) /\ CheckL2Norm(sig)
    <2>1. LowNormHash(sig.H, rq.mu) = LowNormHash(sig.H, sig.H.mu)
      BY <1>1, <1>2 DEF Verify
    <2>2. rq.mu = sig.H.mu
      BY <2>1 DEF LowNormHash
    <2> QED
      BY <1>2, <2>2 DEF Request, RequestOf, Verify
  <1>3. ASSUME NEW sig \in sigs, CheckL2Norm(sig)
        PROVE  RequestOf(sig.H) \in Issued
    <2> DEFINE rq == RequestOf(sig.H)
    <2>1. /\ rq \in Request
          /\ rq.sid = sig.H.th.sid /\ rq.T = sig.H.th.T /\ rq.mu = sig.H.mu
      BY <1>1 DEF Hs, Transcript, RequestOf, Request
    <2>2. Verify(rq.mu, sig)
      BY <1>1, <1>3, <2>1 DEF Verify
    <2> HIDE DEF rq
    <2>3. rq \in Issued
      BY <2>1, <2>2 DEF Issued
    <2> QED
      BY <2>3 DEF rq
  <1>4. Issued \subseteq VerifyingRequests
    BY <1>2 DEF Issued, VerifyingRequests
  <1> QED
    BY <1>3, <1>4 DEF VerifyingRequests

\* IssuedRequests after a step.
LEMMA IssuedRequestsNext == (IInv => Issued = VerifyingRequests)'
  BY IssuedRequests, PTL

\* A Finalize issues at most the request of the finalizer's commitment, and
\* only when every signer it lists has approved it.
LEMMA FinalizeIssues ==
  ASSUME IInv, IInv', NEW p \in Party, NEW data \in Maps(round2),
         Finalize(p, data)
  PROVE  [Service!Next]_Service!vars
  <1> DEFINE sig == [C |-> C[p], H |-> H[p], z |-> Range(data)]
             rq == RequestOf(sig.H)
  <1>1. sigs' = sigs \cup {sig} /\ approved' = approved
    BY DEF Finalize, SignFinalize
  <1>2. Issued' = {RequestOf(s.H) : s \in {x \in sigs' : CheckL2Norm(x)}}
    BY IssuedRequestsNext DEF VerifyingRequests
  <1>3. Issued = {RequestOf(s.H) : s \in {x \in sigs : CheckL2Norm(x)}}
    BY IssuedRequests DEF VerifyingRequests
  <1>4. CASE ~ CheckL2Norm(sig)
    <2>1. Issued' = Issued
      BY <1>1, <1>2, <1>3, <1>4
    <2> QED
      BY <1>1, <2>1 DEF Service!vars
  <1>5. CASE CheckL2Norm(sig)
    <2>1. Issued' = Issued \cup {rq}
      BY <1>1, <1>2, <1>3, <1>5
    <2>2. /\ sig \in Signature
          /\ sig.z \subseteq round2
          /\ sig.C = LowNormHash(sig.H, sig.H.mu)
          /\ Members(sig.H.th.T) # {}
      BY <1>1, MapsType DEF IInv, TypeOK, SignaturesPaired, Finalize, SignFinalize
    <2> HIDE DEF sig
    <2>3. rq \in Request /\ rq.T = sig.H.th.T
      BY <2>2 DEF Signature, Hs, Transcript, RequestOf, Request
    <2>4. \A j \in Members(rq.T) : rq \in approved[j]
      <3>1. \A j \in Members(rq.T) :
              \E z \in sig.z : z.PartyID = j /\ z.h = sig.H
        BY <1>5, <2>2, <2>3, VerifyingAggregate
      <3> QED
        BY <2>2, <3>1 DEF IInv, ResponsesApproved
    <2>5. Dealt \subseteq Members(rq.T)
      BY <1>5, <2>2, <2>3, VerifyingAggregate
    <2> HIDE DEF rq
    <2>6. Service!Issue(rq)
      BY <1>1, <2>1, <2>4, <2>5 DEF Service!Issue, Service!Range, Members, Range
    <2> QED
      BY <2>3, <2>6 DEF Service!Next
  <1> QED
    BY <1>4, <1>5

\* A step that adds no signature issues nothing.
LEMMA IssuedUnchanged ==
  ASSUME UNCHANGED sigs
  PROVE  UNCHANGED Issued
  BY DEF Issued

\* Every step of the protocol is a step of the service or leaves it unchanged:
\* Round2 is an approval, Finalize an issue or a stutter.
LEMMA StepImplements ==
  ASSUME IInv, IInv', [Next]_vars
  PROVE  [Service!Next]_Service!vars
  <1>1. ASSUME NEW p \in Party, NEW sid \in Session, NEW mu \in Message,
               NEW T \in SignerList, NEW prfKey \in PRFKey,
               NEW data \in Maps(round1), Round2(p, sid, mu, T, prfKey, data)
        PROVE  Service!Next
    <2> DEFINE rq == [sid |-> sid, T |-> T, mu |-> mu]
    <2>1. rq \in Request
      BY DEF Request
    <2>2. /\ approved' = [approved EXCEPT ![p] = @ \cup {rq}]
          /\ UNCHANGED sigs
      BY <1>1 DEF Round2, SignRound2
    <2> HIDE DEF rq
    <2>3. Service!Approve(p, rq)
      BY <2>2, IssuedUnchanged DEF Service!Approve
    <2> QED
      BY <2>1, <2>3 DEF Service!Next
  <1>2. ASSUME NEW p \in Party, NEW data \in Maps(round2), Finalize(p, data)
        PROVE  [Service!Next]_Service!vars
    BY <1>2, FinalizeIssues
  <1>3. ASSUME UNCHANGED <<sigs, approved>>
        PROVE  UNCHANGED Service!vars
    BY <1>3, IssuedUnchanged DEF Service!vars
  <1>4. ASSUME NEW p \in Party, NEW sid \in Session, NEW T \in SignerList,
               Round1(p, sid, T)
        PROVE  UNCHANGED <<sigs, approved>>
    BY <1>4 DEF Round1, SignRound1
  <1>5. ASSUME NEW m \in round1, NEW D, NEW i, TamperRound1(m, D, i)
        PROVE  UNCHANGED <<sigs, approved>>
    BY <1>5 DEF TamperRound1
  <1>6. ASSUME NEW p \in Party, NewSigner(p)
        PROVE  UNCHANGED <<sigs, approved>>
    BY <1>6 DEF NewSigner
  <1>7. CASE UNCHANGED vars
    BY <1>3, <1>7 DEF vars
  <1> QED
    BY <1>1, <1>2, <1>3, <1>4, <1>5, <1>6, <1>7 DEF Next

\* The signing protocol implements the abstract service: a verifying signature
\* appears only for a request that every listed signer called Round2 for and
\* whose signers hold all the dealt shares.
THEOREM Refinement == Spec => ImplementsService
  <1>1. Init => Service!Init
    BY DEF Init, Service!Init, Issued
  <1>2. IInv /\ IInv' /\ [Next]_vars => [Service!Next]_Service!vars
    BY StepImplements
  <1> QED
    BY <1>1, <1>2, Invariance, PTL DEF Spec, ImplementsService, Service!Spec

-----------------------------------------------------------------------------
(* What a complete aggregate needs.                                        *)

\* A commitment that was answered holds a nonce of every listed signer; the
\* answering party's own included, which no MAC protects.
CommitmentsHeld ==
  \A z \in round2 : \A j \in Members(z.h.th.T) : z.h.th.D[j] \in Nonce

\* Round2 answers only when every listed signer's message is there.
LEMMA CommitmentsHeldStep ==
  ASSUME IInv, CommitmentsHeld, [Next]_vars
  PROVE  CommitmentsHeld'
  <1>1. ASSUME UNCHANGED round2
        PROVE  CommitmentsHeld'
    BY <1>1 DEF CommitmentsHeld
  <1>2. ASSUME NEW p \in Party, NEW sid \in Session, NEW mu \in Message,
               NEW T \in SignerList, NEW prfKey \in PRFKey,
               NEW data \in Maps(round1), Round2(p, sid, mu, T, prfKey, data)
        PROVE  CommitmentsHeld'
    <2> DEFINE D == [j \in IDs(data) |-> EntryOf(data, j).D]
               h == Commitment(Hash(D, sid, T), mu)
               y == SignRound2(p, h, prfKey)
    <2>1. round2' = round2 \cup {y} /\ Members(T) \subseteq IDs(data)
      BY <1>2 DEF Round2, SignRound2Preprocess
    <2>2. Members(T) \subseteq Party
      BY MembersParty
    <2>3. ASSUME NEW j \in Members(T)
          PROVE  D[j] \in Nonce
      <3>1. EntryOf(data, j) \in round1
        BY <2>1, EntryOfType
      <3>2. EntryOf(data, j).D \in Nonce
        BY <3>1 DEF IInv, TypeOK, Round1Data
      <3> QED
        BY <2>1, <3>2
    <2> HIDE DEF D
    <2>4. y.h.th.T = T /\ \A j \in Members(T) : y.h.th.D[j] = D[j]
      BY <2>2 DEF SignRound2, Commitment, Hash
    <2> HIDE DEF y
    <2> QED
      BY <2>1, <2>3, <2>4 DEF CommitmentsHeld
  <1> QED
    BY <1>1, <1>2 DEF Next, Round1, Finalize, TamperRound1, NewSigner, vars

\* When everybody listed answers one commitment under one PRF key, each mask is
\* added by its receiver and taken away by its sender.
LEMMA CompleteMasks ==
  ASSUME NEW sig \in Signature, Complete(sig)
  PROVE  MasksCancel(sig.z)
  <1> DEFINE S == Members(sig.H.th.T)
             Z == sig.z
             E(k, i, j) == [seed |-> Seeds[i][j], prfKey |-> k, h |-> sig.H]
  <1>1. /\ \A z \in Z : z.PartyID \in S /\ z.h = sig.H
        /\ \A j \in S : \E z \in Z : z.PartyID = j
        /\ \A y, z \in Z : y.prfKey = z.prfKey
    BY DEF Complete
  <1>2. ASSUME NEW z \in Z
        PROVE  /\ MaskPrime(z) = {E(z.prfKey, j, z.PartyID) : j \in S}
               /\ Mask(z) = {E(z.prfKey, z.PartyID, j) : j \in S}
    BY <1>1 DEF MaskPrime, Mask
  <1> HIDE DEF E, S, Z
  <1>3. ASSUME NEW x
        PROVE  x \in UNION {MaskPrime(z) : z \in Z} <=>
                 \E z \in Z : \E j \in S : x = E(z.prfKey, j, z.PartyID)
    BY <1>2
  <1>4. ASSUME NEW x
        PROVE  x \in UNION {Mask(z) : z \in Z} <=>
                 \E z \in Z : \E j \in S : x = E(z.prfKey, z.PartyID, j)
    BY <1>2
  <1>5. ASSUME NEW z \in Z, NEW j \in S
        PROVE  \E y \in Z : /\ y.PartyID = j /\ z.PartyID \in S
                            /\ y.prfKey = z.prfKey
    BY <1>1
  <1>6. ASSUME NEW x
        PROVE  x \in UNION {MaskPrime(z) : z \in Z} <=>
                 x \in UNION {Mask(z) : z \in Z}
    <2>1. ASSUME NEW z \in Z, NEW j \in S, x = E(z.prfKey, j, z.PartyID)
          PROVE  x \in UNION {Mask(y) : y \in Z}
      BY <1>4, <1>5, <2>1
    <2>2. ASSUME NEW z \in Z, NEW j \in S, x = E(z.prfKey, z.PartyID, j)
          PROVE  x \in UNION {MaskPrime(y) : y \in Z}
      BY <1>3, <1>5, <2>2
    <2> QED
      BY <1>3, <1>4, <2>1, <2>2
  <1>7. UNION {MaskPrime(z) : z \in Z} = UNION {Mask(z) : z \in Z}
    BY <1>6
  <1> QED
    BY <1>7 DEF MasksCancel, Z

\* The nonces of a complete aggregate are the committed ones, each once.
LEMMA CompleteNonces ==
  ASSUME NEW sig \in Signature, Complete(sig),
         \A j \in Members(sig.H.th.T) : sig.H.th.D[j] \in Nonce
  PROVE  NoncesMatch(sig.z, sig.H)
  <1> DEFINE S == Members(sig.H.th.T)
             Z == sig.z
             f == [z \in Z |-> z.PartyID]
  <1>1. ASSUME NEW z \in Z
        PROVE  /\ z.PartyID \in S /\ z.h = sig.H
               /\ z.nonce = sig.H.th.D[z.PartyID] /\ z \in Round2Data
    BY DEF Complete, Signature
  <1>2. \A j \in S : \E z \in Z : z.PartyID = j
    BY DEF Complete
  <1>3. \A y, z \in Z : y.prfKey = z.prfKey
    BY DEF Complete
  <1>4. {z \in Z : z.nonce # Nil} = Z
    BY <1>1, NilAssumption
  <1>5. ASSUME NEW y \in Z, NEW z \in Z, y.PartyID = z.PartyID
        PROVE  y = z
    BY <1>1, <1>3, <1>5 DEF Round2Data
  <1> HIDE DEF Z, S
  <1>6. f \in [Z -> S] /\ \A z \in Z : f[z] = z.PartyID
    BY <1>1
  <1>7. f \in Bijection(Z, S)
    <2>1. \A y, z \in Z : f[y] = f[z] => y = z
      BY <1>5, <1>6
    <2>2. \A j \in S : \E z \in Z : f[z] = j
      BY <1>2, <1>6
    <2> HIDE DEF f
    <2> QED
      BY <1>6, <2>1, <2>2 DEF Bijection, Injection, Surjection, IsInjective
  <1>8. \A z \in DOMAIN f : z.nonce = sig.H.th.D[f[z]] /\ z.h = sig.H
    BY <1>1, <1>6
  <1> HIDE DEF f
  <1>9. \E g \in Bijection({z \in Z : z.nonce # Nil}, S) :
          \A z \in DOMAIN g : z.nonce = sig.H.th.D[g[z]] /\ z.h = sig.H
    BY <1>4, <1>7, <1>8
  <1> QED
    BY <1>9 DEF NoncesMatch, Z, S

\* A complete aggregate in which the dealt shares are present verifies, in every
\* reachable state: the converse of SignedNoncesGenuineTheorem.
THEOREM CommitteeSignsTheorem == Spec => []CommitteeSigns
  <1>1. ASSUME IInv, CommitmentsHeld
        PROVE  CommitteeSigns
    <2> SUFFICES ASSUME NEW sig \in sigs, Complete(sig),
                        Dealt \subseteq Members(sig.H.th.T)
                 PROVE  Verify(sig.H.mu, sig)
      BY DEF CommitteeSigns
    <2>1. /\ sig \in Signature /\ sig.z \subseteq round2
          /\ sig.C = LowNormHash(sig.H, sig.H.mu)
          /\ Members(sig.H.th.T) # {}
      BY <1>1 DEF IInv, TypeOK, SignaturesPaired
    <2>2. PICK z \in sig.z : z.h = sig.H
      BY <2>1 DEF Complete
    <2>3. \A j \in Members(sig.H.th.T) : sig.H.th.D[j] \in Nonce
      BY <1>1, <2>1, <2>2 DEF CommitmentsHeld
    <2>4. MasksCancel(sig.z)
      BY <2>1, CompleteMasks
    <2>5. NoncesMatch(sig.z, sig.H)
      BY <2>1, <2>3, CompleteNonces
    <2>6. SharesRecover(sig.z, sig.C)
      BY <2>1 DEF SharesRecover, Complete
    <2> QED
      BY <2>1, <2>4, <2>5, <2>6 DEF Verify, CheckL2Norm
  <1>2. Init => CommitmentsHeld
    BY DEF Init, CommitmentsHeld
  <1>3. IInv /\ CommitmentsHeld /\ [Next]_vars => CommitmentsHeld'
    BY CommitmentsHeldStep
  <1>4. Spec => []IInv
    BY Invariance
  <1> QED
    BY <1>1, <1>2, <1>3, <1>4, PTL DEF Spec
=============================================================================
