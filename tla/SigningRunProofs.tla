-------------------------- MODULE SigningRunProofs --------------------------
(***************************************************************************)
(* Proofs about SigningRun, for every number of parties, every set of      *)
(* peer listings and any number of faults: the program takes the steps of  *)
(* the signing protocol only, and a verification result it prints is true. *)
(***************************************************************************)
EXTENDS SigningRun, SigningProofs

-----------------------------------------------------------------------------
(* The parts of the inductive invariant.                                   *)

Stages == {"start", "connect", "keys", "round1", "exchange", "round2",
           "respond", "done", "dead"}

\* The stages before SignRound1.
Early == {"start", "connect", "keys", "round1"}

\* The stages of a process that has called SignRound1 and goes on.
Active == {"exchange", "round2", "respond"}

\* The program's own variables have their types.
RunTypes ==
  /\ mode \in Modes
  /\ stage \in [Party -> Stages]
  /\ Ds \in [Party -> SUBSET Party]
  /\ MACs \in [Party -> SUBSET Party]
  /\ z \in [Party -> SUBSET Party]

\* q has published its commitment; q has published its response.
HasMessage(q) == \E m \in round1 : m.PartyID = q
HasResponse(q) == \E y \in round2 : y.PartyID = q

\* The commitment every party answers: the hash of the nonces of all.
Agreed == Commitment(Hash(R, sid, T), mu)

\* p's one message, and its one response.
MessageOf(p) == SignRound1(p, sid, T, R[p])
ResponseOf(p) == SignRound2(p, Agreed, prfKey)

\* A process calls SignRound1 once: what it published holds the nonce it has.
MessagesCurrent ==
  \A m \in round1 : m = MessageOf(m.PartyID) /\ stage[m.PartyID] \notin Early

\* A process that goes on after SignRound1 has published; what is in a map D
\* was published by its sender.
MessagesThere ==
  /\ \A q \in Party : stage[q] \in Active => HasMessage(q)
  /\ \A p \in Party : \A q \in Ds[p] : HasMessage(q)

\* Nobody answers before everybody has committed, and all answer alike.
ResponsesAgree ==
  /\ round2 # {} => \A q \in Party : HasMessage(q)
  /\ \A y \in round2 : y = ResponseOf(y.PartyID)

\* Who is past round 2 has the agreed commitment and challenge and has
\* answered; what the combiner has collected was answered by its sender.
ResponsesThere ==
  /\ \A q \in Party : stage[q] = "respond" =>
       /\ H[q] = Agreed
       /\ C[q] = LowNormHash(Agreed, mu)
       /\ HasResponse(q)
  /\ \A p \in Party : \A q \in z[p] : HasResponse(q)

\* LocalRun keeps the parties together and collects every response.
LocalInStep ==
  mode = "local" =>
    /\ \/ \A q \in Party : stage[q] \in {"round1", "round2", "respond"}
       \/ \A q \in Party : stage[q] \in {"done", "dead"}
    /\ \A q \in Party : stage[q] = "respond" => q \in z[0]

RunInv ==
  /\ IInv
  /\ RunTypes
  /\ MessagesCurrent
  /\ MessagesThere
  /\ ResponsesAgree
  /\ ResponsesThere
  /\ LocalInStep
  /\ PrintsVerified

-----------------------------------------------------------------------------
(* The request.                                                            *)

\* The request is one a caller of Signing may make; T lists every party, and
\* the finalizers are parties.
LEMMA RequestFacts ==
  /\ T \in SignerList /\ sid \in Session /\ mu \in Message
  /\ prfKey \in PRFKey
  /\ Members(T) = Party
  /\ 0 \in Party /\ CombinerID \in Party
  <1> DEFINE k == Cardinality(Party)
  <1>1. k - 1 \in Int /\ k \in Int /\ k >= 2
    BY RankAssumption
  <1>2. Party = 0 .. (k - 1)
    BY RankAssumption
  <1> HIDE DEF k
  <1>3. Members(T) = Party
    <2>1. T = [i \in 1 .. k |-> i - 1]
      BY DEF T, k
    <2>2. ASSUME NEW x \in Party
          PROVE  x + 1 \in 1 .. k /\ T[x + 1] = x
      BY <1>1, <1>2, <2>1
    <2>3. ASSUME NEW i \in 1 .. k
          PROVE  T[i] \in Party
      BY <1>1, <1>2, <2>1
    <2> QED
      BY <2>1, <2>2, <2>3 DEF Members, Range
  <1>4. sid \in Session /\ mu \in Message /\ prfKey \in PRFKey
    BY RequestAssumption DEF sid, mu, prfKey
  <1> QED
    BY <1>1, <1>2, <1>3, <1>4, RequestAssumption DEF CombinerID

-----------------------------------------------------------------------------
(* Steps that publish nothing.                                             *)

\* Nobody goes back before SignRound1, or on to round 2 or past it, without
\* publishing.
NoAdvance ==
  \A q \in Party :
    /\ stage[q] \notin Early => stage'[q] \notin Early
    /\ stage'[q] \in Active => stage[q] \in Active
    /\ stage'[q] = "respond" => stage[q] = "respond"

\* What enters a map D or the collected responses was published.
OnlyPublished ==
  \A p \in Party :
    /\ \A q \in Ds'[p] : HasMessage(q)
    /\ \A q \in z'[p] : HasResponse(q)

\* A step that publishes no message keeps the invariant.
LEMMA QuietStep ==
  ASSUME RunInv, IInv', RunTypes', NoAdvance, OnlyPublished,
         LocalInStep', PrintsVerified',
         UNCHANGED <<R, H, C, round1, round2, mode>>
  PROVE  RunInv'
  <1>1. Agreed' = Agreed
    BY DEF Agreed
  <1>2. \A q : HasMessage(q)' <=> HasMessage(q)
    BY DEF HasMessage
  <1>3. \A q : HasResponse(q)' <=> HasResponse(q)
    BY DEF HasResponse
  <1>4. \A p : MessageOf(p)' = MessageOf(p) /\ ResponseOf(p)' = ResponseOf(p)
    BY <1>1 DEF MessageOf, ResponseOf, SignRound2
  <1>5. \A m \in round1 : m.PartyID \in Party
    BY DEF RunInv, IInv, TypeOK, Round1Data
  <1>6. MessagesCurrent'
    BY <1>4, <1>5 DEF MessagesCurrent, RunInv, NoAdvance
  <1>7. MessagesThere'
    BY <1>2 DEF MessagesThere, RunInv, NoAdvance, OnlyPublished
  <1>8. ResponsesAgree'
    BY <1>2, <1>4 DEF ResponsesAgree, RunInv
  <1>9. ResponsesThere'
    BY <1>1, <1>3 DEF ResponsesThere, RunInv, NoAdvance, OnlyPublished
  <1> QED
    BY <1>6, <1>7, <1>8, <1>9 DEF RunInv

\* A step of the transport: one process moves on, or none.
LEMMA MoveStep ==
  ASSUME RunInv, NEW p \in Party, NEW s \in Stages \ {"respond"},
         stage' = [stage EXCEPT ![p] = s],
         s \in Early => stage[p] \in Early,
         s \in Active => stage[p] \in Active,
         mode # "local",
         Ds' \in [Party -> SUBSET Party], MACs' \in [Party -> SUBSET Party],
         z' \in [Party -> SUBSET Party], OnlyPublished,
         UNCHANGED <<vars, mode, verified>>
  PROVE  RunInv'
  <1>1. IInv'
    BY NextInv DEF RunInv
  <1>2. RunTypes'
    BY DEF RunInv, RunTypes
  <1>3. NoAdvance
    BY DEF NoAdvance, RunInv, RunTypes, Stages
  <1>4. LocalInStep' /\ PrintsVerified'
    BY DEF RunInv, LocalInStep, PrintsVerified
  <1> QED
    BY <1>1, <1>2, <1>3, <1>4, QuietStep DEF vars

\* What is published stays published.
LEMMA StillPublished ==
  ASSUME RunInv, UNCHANGED <<Ds, z>>
  PROVE  OnlyPublished
  BY DEF RunInv, MessagesThere, ResponsesThere, OnlyPublished

\* A process may die at any point.
LEMMA DieStep ==
  ASSUME RunInv, NEW p \in Party, mode # "local", Die(p)
  PROVE  RunInv'
  <1>1. /\ stage' = [stage EXCEPT ![p] = "dead"]
        /\ Ds' = [Ds EXCEPT ![p] = {}] /\ MACs' = [MACs EXCEPT ![p] = {}]
        /\ z' = [z EXCEPT ![p] = {}]
        /\ UNCHANGED <<vars, mode, verified>>
    BY DEF Die, Goto
  <1>2. /\ Ds' \in [Party -> SUBSET Party] /\ MACs' \in [Party -> SUBSET Party]
        /\ z' \in [Party -> SUBSET Party]
    BY <1>1 DEF RunInv, RunTypes
  <1>3. OnlyPublished
    BY <1>1 DEF RunInv, RunTypes, MessagesThere, ResponsesThere, OnlyPublished
  <1>4. /\ "dead" \in Stages \ {"respond"} /\ "dead" \notin Early
        /\ "dead" \notin Active
    BY DEF Stages, Early, Active
  <1> QED
    BY <1>1, <1>2, <1>3, <1>4, MoveStep

\* LocalRun opens no connection and exchanges nothing.
LEMMA NotLocal ==
  ASSUME RunInv, NEW p \in Party,
         stage[p] \in {"start", "connect", "keys", "exchange"}
  PROVE  mode # "local"
  BY DEF RunInv, LocalInStep

\* A step of a process that stays where it is.
LEMMA StayStep ==
  ASSUME RunInv, NEW p \in Party,
         stage[p] \in {"start", "connect", "keys", "exchange"},
         Ds' \in [Party -> SUBSET Party], MACs' \in [Party -> SUBSET Party],
         OnlyPublished,
         UNCHANGED <<vars, mode, stage, z, verified>>
  PROVE  RunInv'
  <1>1. stage' = [stage EXCEPT ![p] = stage[p]]
    BY DEF RunInv, RunTypes
  <1>2. stage[p] \in Stages \ {"respond"}
    BY DEF Stages
  <1>3. mode # "local"
    BY NotLocal
  <1>4. z' \in [Party -> SUBSET Party]
    BY DEF RunInv, RunTypes
  <1> QED
    BY <1>1, <1>2, <1>3, <1>4, MoveStep

\* A step of a process that goes from one such stage to another.
LEMMA GotoStep ==
  ASSUME RunInv, NEW p \in Party, NEW s \in Stages \ {"respond"},
         stage[p] \in {"start", "connect", "keys", "exchange"},
         s \in Early => stage[p] \in Early,
         s \in Active => stage[p] \in Active,
         stage' = [stage EXCEPT ![p] = s],
         UNCHANGED <<vars, mode, exchange, z, verified>>
  PROVE  RunInv'
  <1>1. UNCHANGED <<Ds, MACs, z>>
    BY DEF exchange
  <1>2. /\ Ds' \in [Party -> SUBSET Party] /\ MACs' \in [Party -> SUBSET Party]
        /\ z' \in [Party -> SUBSET Party]
    BY <1>1 DEF RunInv, RunTypes
  <1>3. OnlyPublished
    BY <1>1, StillPublished
  <1>4. mode # "local"
    BY NotLocal
  <1> QED
    BY <1>2, <1>3, <1>4, MoveStep

\* Starting and connecting.
LEMMA ConnectSteps ==
  ASSUME RunInv, NEW p \in Party,
         Start(p) \/ (\E q \in Peers(p) : Dial(p, q)) \/ Established(p)
  PROVE  RunInv'
  <1>1. CASE Start(p)
    <2>1. PICK ranks \in Env :
            /\ stage[p] = "start"
            /\ Goto(p, IF p \in ranks THEN "connect" ELSE "dead")
            /\ UNCHANGED <<vars, mode, exchange, z, verified>>
      BY <1>1 DEF Start
    <2> DEFINE s == IF p \in ranks THEN "connect" ELSE "dead"
    <2>2. s \in Stages \ {"respond"} /\ s \notin Active /\ stage[p] \in Early
      BY <2>1 DEF Stages, Active, Early
    <2>3. stage' = [stage EXCEPT ![p] = s]
      BY <2>1 DEF Goto
    <2> HIDE DEF s
    <2> QED
      BY <2>1, <2>2, <2>3, GotoStep
  <1>2. CASE \E q \in Peers(p) : Dial(p, q)
    <2>1. /\ stage[p] = "connect"
          /\ UNCHANGED <<vars, mode, stage, exchange, z, verified>>
      BY <1>2 DEF Dial
    <2>2. Ds' \in [Party -> SUBSET Party] /\ MACs' \in [Party -> SUBSET Party]
      BY <2>1 DEF exchange, RunInv, RunTypes
    <2>3. OnlyPublished
      BY <2>1, StillPublished DEF exchange
    <2> QED
      BY <2>1, <2>2, <2>3, StayStep
  <1>3. CASE Established(p)
    <2> DEFINE s == IF peers[p] = Peers(p) THEN "keys" ELSE "dead"
    <2>1. /\ stage[p] = "connect" /\ stage' = [stage EXCEPT ![p] = s]
          /\ UNCHANGED <<vars, mode, exchange, z, verified>>
      BY <1>3 DEF Established, Goto
    <2>2. s \in Stages \ {"respond"} /\ s \notin Active /\ stage[p] \in Early
      BY <2>1 DEF Stages, Active, Early
    <2> HIDE DEF s
    <2> QED
      BY <2>1, <2>2, GotoStep
  <1> QED
    BY <1>1, <1>2, <1>3

\* Handing out the key material.
LEMMA KeySteps ==
  ASSUME RunInv, NEW p \in Party,
         GetSockPanics(p) \/ Deal(p) \/ Keyed(p) \/ DealFails(p)
  PROVE  RunInv'
  <1>1. CASE GetSockPanics(p) \/ DealFails(p)
    <2>1. stage[p] = "keys" /\ Die(p)
      BY <1>1 DEF GetSockPanics, DealFails, Fatal
    <2>2. mode # "local"
      BY <2>1, NotLocal
    <2> QED
      BY <2>1, <2>2, DieStep
  <1>2. CASE Deal(p)
    <2>1. /\ stage[p] = "keys"
          /\ UNCHANGED <<vars, mode, stage, exchange, z, verified>>
      BY <1>2 DEF Deal
    <2>2. Ds' \in [Party -> SUBSET Party] /\ MACs' \in [Party -> SUBSET Party]
      BY <2>1 DEF exchange, RunInv, RunTypes
    <2>3. OnlyPublished
      BY <2>1, StillPublished DEF exchange
    <2> QED
      BY <2>1, <2>2, <2>3, StayStep
  <1>3. CASE Keyed(p)
    <2>1. /\ stage[p] = "keys" /\ stage' = [stage EXCEPT ![p] = "round1"]
          /\ UNCHANGED <<vars, mode, exchange, z, verified>>
      BY <1>3 DEF Keyed, Goto
    <2>2. /\ "round1" \in Stages \ {"respond"} /\ "round1" \notin Active
          /\ stage[p] \in Early
      BY <2>1 DEF Stages, Active, Early
    <2> QED
      BY <2>1, <2>2, GotoStep
  <1> QED
    BY <1>1, <1>2, <1>3

\* The exchange of round-1 messages: what enters D was sent by a process in its
\* exchange, which has published.
LEMMA ExchangeSteps ==
  ASSUME RunInv, NEW p \in Party,
         \/ \E q \in Peers(p) :
              Receive(p, q) \/ RecvMatrixFails(p, q) \/ Check(p, q)
         \/ ExchangeFails(p) \/ Exchanged(p)
  PROVE  RunInv'
  <1>1. ASSUME NEW q \in Peers(p), Receive(p, q)
        PROVE  RunInv'
    <2>1. /\ stage[p] = "exchange" /\ stage[q] = "exchange"
          /\ UNCHANGED <<vars, mode, stage, z, verified>>
      BY <1>1 DEF Receive, Transfer
    <2>2. \E S \in SUBSET Party, A \in SUBSET Party :
            /\ Ds' = [Ds EXCEPT ![p] = S] /\ S \subseteq Ds[p] \cup {q}
            /\ MACs' = [MACs EXCEPT ![p] = A]
      <3>1. q \in Party /\ Ds[p] \in SUBSET Party /\ MACs[p] \in SUBSET Party
        BY DEF Peers, RunInv, RunTypes
      <3>2. Ds = [Ds EXCEPT ![p] = Ds[p]] /\ MACs = [MACs EXCEPT ![p] = MACs[p]]
        BY DEF RunInv, RunTypes
      <3>3. CASE rx[p][q] = "recvD"
        <4>1. PICK lost \in BOOLEAN :
                /\ Ds' = [Ds EXCEPT ![p] = IF lost THEN @ ELSE @ \cup {q}]
                /\ MACs' = MACs
          BY <1>1, <3>3 DEF Receive
        <4>2. Ds' = [Ds EXCEPT ![p] = Ds[p]]
                \/ Ds' = [Ds EXCEPT ![p] = Ds[p] \cup {q}]
          BY <4>1
        <4> QED
          BY <3>1, <3>2, <4>1, <4>2
      <3>4. CASE rx[p][q] # "recvD"
        <4>1. PICK lost \in BOOLEAN :
                /\ MACs' = [MACs EXCEPT ![p] = IF lost THEN @ ELSE @ \cup {q}]
                /\ Ds' = Ds
          BY <1>1, <3>4 DEF Receive
        <4>2. MACs' = [MACs EXCEPT ![p] = MACs[p]]
                \/ MACs' = [MACs EXCEPT ![p] = MACs[p] \cup {q}]
          BY <4>1
        <4> QED
          BY <3>1, <3>2, <4>1, <4>2
      <3> QED
        BY <3>3, <3>4
    <2>3. Ds' \in [Party -> SUBSET Party] /\ MACs' \in [Party -> SUBSET Party]
      BY <2>2 DEF RunInv, RunTypes
    <2>4. HasMessage(q)
      BY <2>1 DEF RunInv, MessagesThere, Active, Peers
    <2>5. OnlyPublished
      BY <2>1, <2>2, <2>4
         DEF OnlyPublished, RunInv, RunTypes, MessagesThere, ResponsesThere
    <2> QED
      BY <2>1, <2>3, <2>5, StayStep
  <1>2. ASSUME NEW q \in Peers(p),
               RecvMatrixFails(p, q) \/ (Check(p, q) /\ ~err[p])
        PROVE  RunInv'
    <2>1. /\ stage[p] = "exchange"
          /\ UNCHANGED <<vars, mode, stage, Ds, MACs, z, verified>>
      BY <1>2 DEF RecvMatrixFails, Check
    <2>2. Ds' \in [Party -> SUBSET Party] /\ MACs' \in [Party -> SUBSET Party]
      BY <2>1 DEF RunInv, RunTypes
    <2>3. OnlyPublished
      BY <2>1, StillPublished
    <2> QED
      BY <2>1, <2>2, <2>3, StayStep
  <1>3. ASSUME ExchangeFails(p) \/ \E q \in Peers(p) : Check(p, q) /\ err[p]
        PROVE  RunInv'
    <2>1. stage[p] = "exchange" /\ Die(p)
      BY <1>3 DEF ExchangeFails, Check, Fatal
    <2>2. mode # "local"
      BY <2>1, NotLocal
    <2> QED
      BY <2>1, <2>2, DieStep
  <1>4. CASE Exchanged(p)
    <2>1. /\ stage[p] = "exchange" /\ stage' = [stage EXCEPT ![p] = "round2"]
          /\ UNCHANGED <<vars, mode, exchange, z, verified>>
      BY <1>4 DEF Exchanged, Goto
    <2>2. /\ "round2" \in Stages \ {"respond"} /\ "round2" \notin Early
          /\ stage[p] \in Active
      BY <2>1 DEF Stages, Active, Early
    <2> QED
      BY <2>1, <2>2, GotoStep
  <1> QED
    BY <1>1, <1>2, <1>3, <1>4

-----------------------------------------------------------------------------
(* Round 1.                                                                *)

\* SignRound1, in a process or in LocalRun: the first message of p, before
\* anybody has answered.
LEMMA Round1Step ==
  ASSUME RunInv, NEW p \in Party, stage[p] = "round1", Round1(p, sid, T),
         NEW s \in {"exchange", "round2"}, stage' = [stage EXCEPT ![p] = s],
         mode = "local" => s = "round2",
         Ds' \in [Party -> SUBSET Party], MACs' \in [Party -> SUBSET Party],
         \A q \in Party : Ds'[q] \subseteq Ds[q] \cup {p},
         UNCHANGED <<mode, z, verified>>
  PROVE  RunInv'
  <1>1. PICK salt \in SaltRead(p) :
          /\ R' = [R EXCEPT ![p] = PRNGKeyForRound(p, sid, T, salt)]
          /\ round1' = round1 \cup
               {SignRound1(p, sid, T, PRNGKeyForRound(p, sid, T, salt))}
          /\ UNCHANGED <<H, C, round2>>
    BY DEF Round1
  <1> DEFINE N == PRNGKeyForRound(p, sid, T, salt)
  <1>2. IInv'
    BY RequestFacts, NextInv DEF Next, RunInv
  <1>3. RunTypes'
    BY DEF RunInv, RunTypes, Stages
  <1>4. \A m \in round1 : m.PartyID \in Party \ {p}
    BY DEF RunInv, MessagesCurrent, Early, IInv, TypeOK, Round1Data
  <1>5. round2 = {}
    BY <1>4 DEF RunInv, ResponsesAgree, HasMessage
  <1>6. R'[p] = N /\ \A q \in Party \ {p} : R'[q] = R[q]
    BY <1>1 DEF RunInv, IInv, TypeOK
  <1> HIDE DEF N
  <1>7. round1' = round1 \cup {SignRound1(p, sid, T, N)}
    BY <1>1 DEF N
  <1>8. SignRound1(p, sid, T, N).PartyID = p
    BY DEF SignRound1
  <1>9. MessagesCurrent'
    <2>1. stage'[p] = s /\ \A q \in Party \ {p} : stage'[q] = stage[q]
      BY DEF RunInv, RunTypes
    <2>2. ASSUME NEW m \in round1
          PROVE  m = MessageOf(m.PartyID)' /\ stage'[m.PartyID] \notin Early
      <3>1. m = SignRound1(m.PartyID, sid, T, R[m.PartyID])
        BY DEF RunInv, MessagesCurrent, MessageOf
      <3>2. R'[m.PartyID] = R[m.PartyID] /\ stage'[m.PartyID] = stage[m.PartyID]
        BY <1>4, <1>6, <2>1
      <3> QED
        BY <3>1, <3>2 DEF MessageOf, RunInv, MessagesCurrent
    <2>3. SignRound1(p, sid, T, N) = MessageOf(p)' /\ stage'[p] \notin Early
      BY <1>6, <2>1 DEF MessageOf, Early
    <2> QED
      BY <1>7, <1>8, <2>2, <2>3 DEF MessagesCurrent
  <1>10. HasMessage(p)' /\ \A q : HasMessage(q) => HasMessage(q)'
    BY <1>7, <1>8 DEF HasMessage
  <1>11. MessagesThere'
    BY <1>10 DEF RunInv, RunTypes, MessagesThere
  <1>12. ResponsesAgree'
    BY <1>1, <1>5 DEF ResponsesAgree
  <1>13. ResponsesThere'
    <2>1. \A q : ~ HasResponse(q)
      BY <1>5 DEF HasResponse
    <2>2. \A q \in Party : stage[q] # "respond" /\ z[q] = {}
      BY <2>1 DEF RunInv, RunTypes, ResponsesThere
    <2>3. \A q \in Party : stage'[q] # "respond"
      BY <2>2 DEF RunInv, RunTypes
    <2> QED
      BY <2>2, <2>3 DEF ResponsesThere
  <1>14. LocalInStep'
    BY DEF RunInv, RunTypes, LocalInStep
  <1>15. PrintsVerified'
    BY DEF RunInv, PrintsVerified
  <1> QED
    BY <1>2, <1>3, <1>9, <1>11, <1>12, <1>13, <1>14, <1>15 DEF RunInv

-----------------------------------------------------------------------------
(* Round 2.                                                                *)

\* The map of the messages of S, when each of S has published.
LEMMA MessagesMap ==
  ASSUME RunInv, NEW S \in SUBSET Party, \A q \in S : HasMessage(q)
  PROVE  /\ Messages(S) \in Maps(round1)
         /\ IDs(Messages(S)) = S
  <1>1. \A q \in S : /\ Messages(S)[q] \in round1
                     /\ Messages(S)[q].PartyID = q
    BY DEF Messages, HasMessage
  <1>2. DOMAIN Messages(S) = S
    BY DEF Messages
  <1>3. Messages(S) \in [S -> round1]
    BY <1>1 DEF Messages
  <1> QED
    BY <1>1, <1>2, <1>3 DEF Maps, IDs

\* Over the messages of all, every party computes one commitment.
LEMMA OneCommitment ==
  ASSUME RunInv, \A q \in Party : HasMessage(q)
  PROVE  LET data == Messages(Party)
             D == [j \in IDs(data) |-> EntryOf(data, j).D]
         IN Commitment(Hash(D, sid, T), mu) = Agreed
  <1> DEFINE data == Messages(Party)
  <1> DEFINE D == [j \in IDs(data) |-> EntryOf(data, j).D]
  <1>1. data \in Maps(round1) /\ IDs(data) = Party
    BY MessagesMap
  <1> HIDE DEF data
  <1>2. ASSUME NEW j \in Party
        PROVE  D[j] = R[j]
    <2>1. EntryOf(data, j) \in round1 /\ EntryOf(data, j).PartyID = j
      BY <1>1, EntryOfType
    <2>2. EntryOf(data, j) = SignRound1(j, sid, T, R[j])
      BY <2>1 DEF RunInv, MessagesCurrent, MessageOf
    <2>3. EntryOf(data, j).D = R[j]
      BY <2>2 DEF SignRound1
    <2> QED
      BY <1>1, <2>3
  <1> HIDE DEF D
  <1>3. Hash(D, sid, T) = Hash(R, sid, T)
    BY <1>2 DEF Hash
  <1> QED
    BY <1>3 DEF Agreed, D, data

\* SignRound2, in a process or in LocalRun: p answers the agreed commitment.
LEMMA Round2Step ==
  ASSUME RunInv, NEW p \in Party, stage[p] = "round2",
         NEW S \in SUBSET Party, \A q \in S : HasMessage(q),
         Round2(p, sid, mu, T, prfKey, Messages(S)),
         stage' = [stage EXCEPT ![p] = "respond"],
         z' \in [Party -> SUBSET Party],
         \A q \in Party : z'[q] \subseteq z[q] \cup {p},
         mode = "local" => z'[0] = z[0] \cup {p},
         UNCHANGED <<mode, Ds, MACs, verified>>
  PROVE  RunInv'
  <1>1. Messages(S) \in Maps(round1) /\ IDs(Messages(S)) = S
    BY MessagesMap
  <1>2. S = Party
    BY <1>1, RequestFacts DEF Round2, SignRound2Preprocess
  <1>3. IInv'
    BY <1>1, RequestFacts, NextInv DEF Next, RunInv
  <1>4. RunTypes'
    BY DEF RunInv, RunTypes, Stages
  <1> DEFINE h == Commitment(Hash([j \in IDs(Messages(S)) |->
                                     EntryOf(Messages(S), j).D], sid, T), mu)
  <1>5. h = Agreed
    BY <1>2, OneCommitment
  <1>6. /\ H' = [H EXCEPT ![p] = h]
        /\ C' = [C EXCEPT ![p] = LowNormHash(h, mu)]
        /\ round2' = round2 \cup {SignRound2(p, h, prfKey)}
        /\ UNCHANGED <<R, round1>>
    BY DEF Round2
  <1> HIDE DEF h
  <1>7. Agreed' = Agreed
    BY <1>6 DEF Agreed
  <1>8. \A q : HasMessage(q)' <=> HasMessage(q)
    BY <1>6 DEF HasMessage
  <1>9. \A q : MessageOf(q)' = MessageOf(q) /\ ResponseOf(q)' = ResponseOf(q)
    BY <1>6, <1>7 DEF MessageOf, ResponseOf, SignRound2
  <1>10. /\ round2' = round2 \cup {ResponseOf(p)}
         /\ ResponseOf(p).PartyID = p
    BY <1>5, <1>6 DEF ResponseOf, SignRound2
  <1>11. HasResponse(p)' /\ \A q : HasResponse(q) => HasResponse(q)'
    BY <1>10 DEF HasResponse
  <1>12. stage'[p] = "respond" /\ \A q \in Party \ {p} : stage'[q] = stage[q]
    BY DEF RunInv, RunTypes
  <1>13. MessagesCurrent'
    <2>1. \A m \in round1 : m.PartyID \in Party
      BY DEF RunInv, IInv, TypeOK, Round1Data
    <2>2. "respond" \notin Early
      BY DEF Early
    <2> QED
      BY <1>6, <1>9, <1>12, <2>1, <2>2 DEF RunInv, MessagesCurrent
  <1>14. MessagesThere'
    BY <1>2, <1>8 DEF RunInv, MessagesThere
  <1>15. ResponsesAgree'
    BY <1>2, <1>8, <1>9, <1>10 DEF RunInv, ResponsesAgree
  <1>16. ResponsesThere'
    <2>1. ASSUME NEW q \in Party, stage'[q] = "respond"
          PROVE  /\ H'[q] = Agreed
                 /\ C'[q] = LowNormHash(Agreed, mu)
                 /\ HasResponse(q)'
      <3>1. CASE q = p
        BY <1>5, <1>6, <1>11, <3>1 DEF RunInv, IInv, TypeOK
      <3>2. CASE q # p
        BY <1>6, <1>11, <1>12, <2>1, <3>2
           DEF RunInv, IInv, TypeOK, ResponsesThere
      <3> QED
        BY <3>1, <3>2
    <2>2. \A a \in Party : \A q \in z'[a] : HasResponse(q)'
      BY <1>11 DEF RunInv, ResponsesThere
    <2> QED
      BY <1>7, <2>1, <2>2 DEF ResponsesThere
  <1>17. LocalInStep'
    BY <1>12 DEF RunInv, LocalInStep
  <1>18. PrintsVerified'
    BY DEF RunInv, PrintsVerified
  <1> QED
    BY <1>3, <1>4, <1>13, <1>14, <1>15, <1>16, <1>17, <1>18 DEF RunInv

-----------------------------------------------------------------------------
(* Finalize and Verify.                                                    *)

\* The responses of S, when each of S has answered.
LEMMA ResponsesMap ==
  ASSUME RunInv, NEW S \in SUBSET Party, \A q \in S : HasResponse(q)
  PROVE  /\ Responses(S) \in Maps(round2)
         /\ DOMAIN Responses(S) = S
         /\ \A q \in S : Responses(S)[q] = ResponseOf(q)
  <1>1. \A q \in S : /\ Responses(S)[q] \in round2
                     /\ Responses(S)[q].PartyID = q
    BY DEF Responses, HasResponse
  <1>2. DOMAIN Responses(S) = S /\ Responses(S) \in [S -> round2]
    BY <1>1 DEF Responses
  <1> QED
    BY <1>1, <1>2 DEF Maps, RunInv, ResponsesAgree

\* The agreed commitment is over T, holds everybody's nonce and is for mu.
LEMMA AgreedFields ==
  /\ Members(Agreed.th.T) = Party
  /\ Agreed.mu = mu
  /\ \A j \in Party : Agreed.th.D[j] = R[j]
  <1>1. Agreed.th = Hash(R, sid, T) /\ Agreed.mu = mu
    BY DEF Agreed, Commitment
  <1>2. /\ Hash(R, sid, T).T = T
        /\ Hash(R, sid, T).D =
             [j \in Party |-> IF j \in Members(T) THEN R[j] ELSE Nil]
    BY DEF Hash
  <1> QED
    BY <1>1, <1>2, RequestFacts

\* The fields of a response.
LEMMA ResponseFields ==
  ASSUME NEW q
  PROVE  /\ ResponseOf(q).PartyID = q
         /\ ResponseOf(q).nonce = R[q]
         /\ ResponseOf(q).h = Agreed
         /\ ResponseOf(q).prfKey = prfKey
  BY DEF ResponseOf, SignRound2

\* The aggregate of everybody's response verifies: every mask is added once
\* and taken away once, the nonces are the committed ones, and all shares are
\* there.
LEMMA CompleteVerifies ==
  ASSUME RunInv, NEW p \in Party, stage[p] = "respond", z[p] = Party
  PROVE  Verify(mu, SignFinalize(p, Range(Responses(z[p]))))
  <1> DEFINE Z == {ResponseOf(q) : q \in Party}
             sig == SignFinalize(p, Z)
  <1>1. \A q \in Party : HasResponse(q)
    BY DEF RunInv, ResponsesThere
  <1>2. Range(Responses(z[p])) = Z
    BY <1>1, ResponsesMap DEF Range
  <1>3. sig.H = Agreed /\ sig.C = LowNormHash(Agreed, mu) /\ sig.z = Z
    BY DEF SignFinalize, RunInv, ResponsesThere
  <1> HIDE DEF sig
  <1>4. MasksCancel(Z)
    <2> DEFINE E(i, j) == [seed |-> Seeds[i][j], prfKey |-> prfKey,
                           h |-> Agreed]
    <2>1. ASSUME NEW q \in Party
          PROVE  /\ MaskPrime(ResponseOf(q)) = {E(j, q) : j \in Party}
                 /\ Mask(ResponseOf(q)) = {E(q, j) : j \in Party}
      BY ResponseFields, AgreedFields DEF MaskPrime, Mask
    <2>2. UNION {MaskPrime(y) : y \in Z}
            = UNION {MaskPrime(ResponseOf(q)) : q \in Party}
      OBVIOUS
    <2>3. UNION {Mask(y) : y \in Z}
            = UNION {Mask(ResponseOf(q)) : q \in Party}
      OBVIOUS
    <2> HIDE DEF E
    <2>4. ASSUME NEW x
          PROVE  x \in UNION {MaskPrime(ResponseOf(q)) : q \in Party}
                   <=> \E i \in Party, j \in Party : x = E(i, j)
      BY <2>1
    <2>5. ASSUME NEW x
          PROVE  x \in UNION {Mask(ResponseOf(q)) : q \in Party}
                   <=> \E i \in Party, j \in Party : x = E(i, j)
      BY <2>1
    <2>6. UNION {MaskPrime(ResponseOf(q)) : q \in Party}
            = UNION {Mask(ResponseOf(q)) : q \in Party}
      BY <2>4, <2>5
    <2> QED
      BY <2>2, <2>3, <2>6 DEF MasksCancel
  <1>5. NoncesMatch(Z, Agreed)
    <2> DEFINE f == [y \in Z |-> y.PartyID]
    <2>1. \A q \in Party : R[q] \in Nonce
      <3>1. round2 # {}
        BY <1>1 DEF HasResponse
      <3>2. \A q \in Party : HasMessage(q)
        BY <3>1 DEF RunInv, ResponsesAgree
      <3>3. ASSUME NEW q \in Party
            PROVE  R[q] \in Nonce
        <4>1. PICK m \in round1 : m.PartyID = q
          BY <3>2 DEF HasMessage
        <4>2. m = SignRound1(q, sid, T, R[q])
          BY <4>1 DEF RunInv, MessagesCurrent, MessageOf
        <4>3. m.D = R[q]
          BY <4>2 DEF SignRound1
        <4> QED
          BY <4>3 DEF RunInv, IInv, TypeOK, Round1Data
      <3> QED
        BY <3>3
    <2>2. {y \in Z : y.nonce # Nil} = Z
      BY <2>1, ResponseFields, NilAssumption
    <2>3. ASSUME NEW y \in Z
          PROVE  /\ y.PartyID \in Party /\ y = ResponseOf(y.PartyID)
                 /\ y.nonce = Agreed.th.D[y.PartyID] /\ y.h = Agreed
      BY ResponseFields, AgreedFields
    <2>4. ASSUME NEW q \in Party
          PROVE  ResponseOf(q) \in Z /\ f[ResponseOf(q)] = q
      BY ResponseFields
    <2> HIDE DEF Z
    <2>5. f \in [Z -> Party] /\ \A y \in Z : f[y] = y.PartyID
      BY <2>3
    <2>6. \A x, y \in Z : f[x] = f[y] => x = y
      BY <2>3, <2>5
    <2>7. f \in Bijection(Z, Party)
      BY <2>4, <2>5, <2>6
         DEF Bijection, Injection, Surjection, IsInjective
    <2>8. \A y \in DOMAIN f : y.nonce = Agreed.th.D[f[y]] /\ y.h = Agreed
      BY <2>3, <2>5
    <2> HIDE DEF f
    <2> QED
      BY <2>2, <2>7, <2>8, AgreedFields DEF NoncesMatch
  <1>6. SharesRecover(Z, LowNormHash(Agreed, mu))
    <2>1. Dealt = Party
      BY RankAssumption
    <2>2. \A y \in Z : y.h = Agreed
      BY ResponseFields
    <2>3. Party \subseteq {y.PartyID : y \in Z}
      BY ResponseFields
    <2> HIDE DEF Z
    <2> QED
      BY <2>1, <2>2, <2>3, AgreedFields DEF SharesRecover
  <1>7. Verify(mu, sig)
    BY <1>3, <1>4, <1>5, <1>6 DEF Verify, CheckL2Norm
  <1> QED
    BY <1>2, <1>7 DEF sig

\* SignFinalize and Verify by a party that has everybody's response: the
\* result is true.
LEMMA FinalizeStep ==
  ASSUME RunInv, NEW p \in Party, stage[p] = "respond", z[p] = Party,
         FinalizeAndVerify(p), stage' \in [Party -> Stages],
         \A q \in Party : stage'[q] \in {"done", stage[q]},
         LocalInStep',
         UNCHANGED <<mode, exchange, z>>
  PROVE  RunInv'
  <1>1. \A q \in Party : HasResponse(q)
    BY DEF RunInv, ResponsesThere
  <1>2. Responses(z[p]) \in Maps(round2)
    BY <1>1, ResponsesMap
  <1>3. Finalize(p, Responses(z[p])) /\ UNCHANGED <<R, H, C, round1, round2>>
    BY DEF FinalizeAndVerify, Finalize
  <1>4. IInv'
    BY <1>2, <1>3, NextInv DEF Next, RunInv
  <1>5. UNCHANGED <<Ds, MACs, z>>
    BY DEF exchange
  <1>6. RunTypes'
    BY <1>5 DEF RunInv, RunTypes, Stages
  <1>7. NoAdvance
    BY DEF NoAdvance, RunInv, RunTypes, Early, Active
  <1>8. OnlyPublished
    BY <1>5, StillPublished
  <1>9. verified' = TRUE
    BY CompleteVerifies DEF FinalizeAndVerify
  <1>10. PrintsVerified'
    BY <1>9 DEF PrintsVerified
  <1> QED
    BY <1>3, <1>4, <1>6, <1>7, <1>8, <1>10, QuietStep

-----------------------------------------------------------------------------
(* The program's steps.                                                    *)

\* Round 1 of a process.
LEMMA MainRound1Steps ==
  ASSUME RunInv, NEW p \in Party, MainRound1(p) \/ MainRound1Fails(p)
  PROVE  RunInv'
  <1>1. CASE MainRound1(p)
    <2>1. /\ mode = "socks" /\ stage[p] = "round1" /\ Round1(p, sid, T)
          /\ stage' = [stage EXCEPT ![p] = "exchange"]
          /\ Ds' = [Ds EXCEPT ![p] = {p}] /\ MACs' = [MACs EXCEPT ![p] = {p}]
          /\ UNCHANGED <<mode, z, verified>>
      BY <1>1 DEF MainRound1, Goto
    <2>2. /\ Ds' \in [Party -> SUBSET Party]
          /\ MACs' \in [Party -> SUBSET Party]
          /\ \A q \in Party : Ds'[q] \subseteq Ds[q] \cup {p}
      BY <2>1 DEF RunInv, RunTypes
    <2> QED
      BY <2>1, <2>2, Round1Step
  <1>2. CASE MainRound1Fails(p)
    <2>1. mode # "local" /\ Die(p)
      BY <1>2 DEF MainRound1Fails
    <2> QED
      BY <2>1, DieStep
  <1> QED
    BY <1>1, <1>2

\* Round 2 of a process.
LEMMA MainRound2Step ==
  ASSUME RunInv, NEW p \in Party, MainRound2(p)
  PROVE  RunInv'
  <1> DEFINE S == Ds[p] \cap MACs[p]
  <1>1. CASE SignRound2Preprocess(p, sid, T, Messages(S))
    <2>1. /\ mode = "socks" /\ stage[p] = "round2"
          /\ Round2(p, sid, mu, T, prfKey, Messages(S))
          /\ stage' = [stage EXCEPT ![p] = "respond"]
          /\ z' = [z EXCEPT ![p] = {p}]
          /\ UNCHANGED <<mode, exchange, verified>>
      BY <1>1 DEF MainRound2, Goto
    <2>2. S \in SUBSET Party /\ \A q \in S : HasMessage(q)
      BY DEF RunInv, RunTypes, MessagesThere
    <2>3. /\ z' \in [Party -> SUBSET Party]
          /\ \A q \in Party : z'[q] \subseteq z[q] \cup {p}
      BY <2>1 DEF RunInv, RunTypes
    <2>4. UNCHANGED <<Ds, MACs>>
      BY <2>1 DEF exchange
    <2> HIDE DEF S
    <2> QED
      BY <2>1, <2>2, <2>3, <2>4, Round2Step
  <1>2. CASE ~ SignRound2Preprocess(p, sid, T, Messages(S))
    <2>1. mode # "local" /\ Die(p)
      BY <1>2 DEF MainRound2, Fatal
    <2> QED
      BY <2>1, DieStep
  <1> QED
    BY <1>1, <1>2

\* The responses on their way to the combiner, and a process that is killed.
LEMMA RespondSteps ==
  ASSUME RunInv, NEW p \in Party, Respond(p) \/ RespondFails(p) \/ Kill(p)
  PROVE  RunInv'
  <1>1. CASE Respond(p)
    <2>1. /\ mode = "socks" /\ stage[p] = "respond"
          /\ z' = [z EXCEPT ![CombinerID] = @ \cup {p}]
          /\ stage' = [stage EXCEPT ![p] = "done"]
          /\ UNCHANGED <<vars, mode, exchange, verified>>
      BY <1>1 DEF Respond, Goto
    <2>2. z' \in [Party -> SUBSET Party]
      BY <2>1 DEF RunInv, RunTypes
    <2>3. UNCHANGED <<Ds, MACs>>
      BY <2>1 DEF exchange
    <2>4. Ds' \in [Party -> SUBSET Party] /\ MACs' \in [Party -> SUBSET Party]
      BY <2>3 DEF RunInv, RunTypes
    <2>5. HasResponse(p)
      BY <2>1 DEF RunInv, ResponsesThere
    <2>6. \A q \in Party : z'[q] \subseteq z[q] \cup {p}
      BY <2>1 DEF RunInv, RunTypes
    <2>7. OnlyPublished
      BY <2>3, <2>5, <2>6
         DEF RunInv, MessagesThere, ResponsesThere, OnlyPublished
    <2>8. /\ "done" \in Stages \ {"respond"} /\ "done" \notin Early
          /\ "done" \notin Active
      BY DEF Stages, Early, Active
    <2> QED
      BY <2>1, <2>2, <2>4, <2>7, <2>8, MoveStep
  <1>2. CASE RespondFails(p) \/ Kill(p)
    <2>1. mode # "local" /\ Die(p)
      BY <1>2 DEF RespondFails, Kill, Fatal
    <2> QED
      BY <2>1, DieStep
  <1> QED
    BY <1>1, <1>2

\* The combiner's end of main.
LEMMA CombineStep ==
  ASSUME RunInv, Combine
  PROVE  RunInv'
  <1>1. /\ mode = "socks" /\ stage[CombinerID] = "respond"
        /\ Missing(CombinerID) = {} /\ FinalizeAndVerify(CombinerID)
        /\ stage' = [stage EXCEPT ![CombinerID] = "done"]
        /\ UNCHANGED <<mode, exchange, z>>
    BY DEF Combine, Goto
  <1>2. CombinerID \in Party /\ z[CombinerID] = Party
    BY <1>1, RequestFacts DEF Missing, RunInv, RunTypes
  <1>3. /\ stage' \in [Party -> Stages]
        /\ \A q \in Party : stage'[q] \in {"done", stage[q]}
    BY <1>1 DEF RunInv, RunTypes, Stages
  <1>4. LocalInStep'
    BY <1>1 DEF LocalInStep
  <1> QED
    BY <1>1, <1>2, <1>3, <1>4, FinalizeStep

\* LocalRun, from the first party's round 1 to the verification.
LEMMA LocalSteps ==
  ASSUME RunInv,
         \/ \E p \in Party : LocalRound1(p) \/ LocalRound2(p) \/ LocalFails(p)
         \/ LocalFinalize
  PROVE  RunInv'
  <1>1. ASSUME NEW p \in Party, LocalRound1(p)
        PROVE  RunInv'
    <2>1. /\ mode = "local" /\ stage[p] = "round1" /\ Round1(p, sid, T)
          /\ stage' = [stage EXCEPT ![p] = "round2"]
          /\ UNCHANGED <<mode, exchange, z, verified>>
      BY <1>1 DEF LocalRound1, InTurn, Goto
    <2>2. UNCHANGED <<Ds, MACs>>
      BY <2>1 DEF exchange
    <2>3. /\ Ds' \in [Party -> SUBSET Party]
          /\ MACs' \in [Party -> SUBSET Party]
          /\ \A q \in Party : Ds'[q] \subseteq Ds[q] \cup {p}
      BY <2>2 DEF RunInv, RunTypes
    <2> QED
      BY <2>1, <2>3, Round1Step
  <1>2. ASSUME NEW p \in Party, LocalRound2(p)
        PROVE  RunInv'
    <2>1. /\ mode = "local" /\ stage[p] = "round2"
          /\ \A q \in Party : stage[q] # "round1"
          /\ Round2(p, sid, mu, T, prfKey, Messages(Party))
          /\ stage' = [stage EXCEPT ![p] = "respond"]
          /\ z' = [z EXCEPT ![0] = @ \cup {p}]
          /\ UNCHANGED <<mode, exchange, verified>>
      BY <1>2 DEF LocalRound2, InTurn, Goto
    <2>2. \A q \in Party : stage[q] \in Active
      BY <2>1 DEF RunInv, LocalInStep, Active
    <2>3. \A q \in Party : HasMessage(q)
      BY <2>2 DEF RunInv, MessagesThere
    <2>4. /\ z' \in [Party -> SUBSET Party]
          /\ \A q \in Party : z'[q] \subseteq z[q] \cup {p}
          /\ z'[0] = z[0] \cup {p}
      BY <2>1, RequestFacts DEF RunInv, RunTypes
    <2>5. UNCHANGED <<Ds, MACs>>
      BY <2>1 DEF exchange
    <2> QED
      BY <2>1, <2>3, <2>4, <2>5, Round2Step
  <1>3. ASSUME NEW p \in Party, LocalFails(p)
        PROVE  RunInv'
    <2>1. /\ stage' = [q \in Party |-> "dead"]
          /\ UNCHANGED <<vars, mode, exchange, z, verified>>
      BY <1>3 DEF LocalFails
    <2>2. UNCHANGED <<R, H, C, round1, round2, Ds, MACs>>
      BY <2>1 DEF exchange, vars
    <2>3. IInv'
      BY <2>1, NextInv DEF RunInv
    <2>4. RunTypes'
      BY <2>1, <2>2 DEF RunInv, RunTypes, Stages
    <2>5. NoAdvance
      BY <2>1 DEF NoAdvance, Early, Active
    <2>6. LocalInStep' /\ PrintsVerified'
      BY <2>1 DEF RunInv, LocalInStep, PrintsVerified
    <2>7. OnlyPublished
      BY <2>1, <2>2, StillPublished
    <2> QED
      BY <2>1, <2>2, <2>3, <2>4, <2>5, <2>6, <2>7, QuietStep
  <1>4. CASE LocalFinalize
    <2>1. /\ mode = "local" /\ \A q \in Party : stage[q] = "respond"
          /\ FinalizeAndVerify(0) /\ stage' = [q \in Party |-> "done"]
          /\ UNCHANGED <<mode, exchange, z>>
      BY <1>4 DEF LocalFinalize
    <2>2. 0 \in Party /\ z[0] = Party
      BY <2>1, RequestFacts DEF RunInv, RunTypes, LocalInStep
    <2>3. LocalInStep'
      BY <2>1 DEF LocalInStep
    <2>4. /\ stage' \in [Party -> Stages]
          /\ \A q \in Party : stage'[q] \in {"done", stage[q]}
      BY <2>1 DEF Stages
    <2> QED
      BY <2>1, <2>2, <2>3, <2>4, FinalizeStep
  <1> QED
    BY <1>1, <1>2, <1>3, <1>4

\* The program starts in the invariant.
LEMMA MainInitInv == MainInit => RunInv
  <1> SUFFICES ASSUME MainInit
               PROVE  RunInv
    OBVIOUS
  <1>1. IInv
    BY InitInv DEF MainInit
  <1>2. round1 = {} /\ round2 = {}
    BY DEF MainInit, Init
  <1>3. RunTypes
    BY DEF MainInit, RunTypes, Stages, Modes
  <1>4. MessagesCurrent /\ ResponsesAgree
    BY <1>2 DEF MessagesCurrent, ResponsesAgree
  <1>5. MessagesThere /\ ResponsesThere
    BY DEF MainInit, MessagesThere, ResponsesThere, Active
  <1>6. LocalInStep /\ PrintsVerified
    BY RequestAssumption DEF MainInit, LocalInStep, PrintsVerified
  <1> QED
    BY <1>1, <1>3, <1>4, <1>5, <1>6 DEF RunInv

\* Every step of the program keeps the invariant.
LEMMA MainNextInv == RunInv /\ [MainNext]_mainVars => RunInv'
  <1> SUFFICES ASSUME RunInv, [MainNext]_mainVars
               PROVE  RunInv'
    OBVIOUS
  <1>1. ASSUME NEW p \in Party, Step(p)
        PROVE  RunInv'
    BY <1>1, ConnectSteps, KeySteps, MainRound1Steps, ExchangeSteps,
       MainRound2Step, RespondSteps, LocalSteps DEF Step
  <1>2. CASE UNCHANGED mainVars
    <2>1. UNCHANGED <<vars, mode, stage, exchange, z, verified>>
      BY <1>2 DEF mainVars
    <2>2. UNCHANGED <<R, H, C, round1, round2, Ds, MACs>>
      BY <2>1 DEF exchange, vars
    <2>3. IInv'
      BY <2>1, NextInv DEF RunInv
    <2>4. RunTypes' /\ NoAdvance /\ LocalInStep' /\ PrintsVerified'
      BY <2>1, <2>2
         DEF RunInv, RunTypes, NoAdvance, LocalInStep, PrintsVerified
    <2>5. OnlyPublished
      BY <2>1, <2>2, StillPublished
    <2> QED
      BY <2>1, <2>2, <2>3, <2>4, <2>5, QuietStep
  <1> QED
    BY <1>1, <1>2, RespondSteps, CombineStep, LocalSteps DEF MainNext

\* The parts together are an invariant of the program.
THEOREM RunInvariance == MainSpec => []RunInv
  BY MainInitInv, MainNextInv, PTL DEF MainSpec

\* A verification result the program prints is true, for any number of
\* parties, listings and faults: no entry lost in the unlocked maps, no error
\* masked in the shared err, no process that died lets the combiner finalize
\* an incomplete signature.
THEOREM PrintsVerifiedTheorem == MainSpec => []PrintsVerified
  <1>1. RunInv => PrintsVerified
    BY DEF RunInv
  <1> QED
    BY <1>1, RunInvariance, PTL

-----------------------------------------------------------------------------
(* The program runs the signing protocol.                                  *)

\* A process that dies changes nothing the protocol sees.
LEMMA DieQuiet ==
  ASSUME NEW p, Die(p)
  PROVE  UNCHANGED vars
  BY DEF Die

\* What a process does next is a step of Signing or none.
LEMMA StepSigns ==
  ASSUME RunInv, NEW p \in Party, Step(p)
  PROVE  [Next]_vars
  <1>1. CASE \/ Start(p) \/ (\E q \in Peers(p) : Dial(p, q))
             \/ Established(p) \/ Deal(p) \/ Keyed(p)
             \/ \E q \in Peers(p) : Receive(p, q) \/ RecvMatrixFails(p, q)
             \/ Exchanged(p) \/ Respond(p) \/ LocalFails(p)
    BY <1>1 DEF Start, Dial, Established, Deal, Keyed, Receive,
                RecvMatrixFails, Exchanged, Respond, LocalFails
  <1>2. CASE \/ GetSockPanics(p) \/ DealFails(p) \/ MainRound1Fails(p)
             \/ ExchangeFails(p) \/ RespondFails(p)
    BY <1>2, DieQuiet DEF GetSockPanics, DealFails, MainRound1Fails,
                          ExchangeFails, RespondFails, Fatal
  <1>3. ASSUME NEW q \in Peers(p), Check(p, q)
        PROVE  [Next]_vars
    BY <1>3, DieQuiet DEF Check, Fatal
  <1>4. CASE MainRound1(p) \/ LocalRound1(p)
    BY <1>4, RequestFacts DEF MainRound1, LocalRound1, Next
  <1>5. CASE MainRound2(p)
    <2> DEFINE S == Ds[p] \cap MACs[p]
    <2>1. S \in SUBSET Party /\ \A q \in S : HasMessage(q)
      BY DEF RunInv, RunTypes, MessagesThere
    <2>2. Messages(S) \in Maps(round1)
      BY <2>1, MessagesMap
    <2>3. Round2(p, sid, mu, T, prfKey, Messages(S)) \/ Die(p)
      BY <1>5 DEF MainRound2, Fatal
    <2> HIDE DEF S
    <2> QED
      BY <2>2, <2>3, RequestFacts, DieQuiet DEF Next
  <1>6. CASE LocalRound2(p)
    <2>1. \A q \in Party : stage[q] \in Active
      BY <1>6 DEF LocalRound2, InTurn, RunInv, LocalInStep, Active
    <2>2. Messages(Party) \in Maps(round1)
      BY <2>1, MessagesMap DEF RunInv, MessagesThere
    <2>3. Round2(p, sid, mu, T, prfKey, Messages(Party))
      BY <1>6 DEF LocalRound2
    <2> QED
      BY <2>2, <2>3, RequestFacts DEF Next
  <1> QED
    BY <1>1, <1>2, <1>3, <1>4, <1>5, <1>6 DEF Step

\* Every step of the program is a step of Signing or none: the program hands
\* Round2 and Finalize only messages that are on the network.
LEMMA RunSigns == RunInv /\ [MainNext]_mainVars => [Next]_vars
  <1> SUFFICES ASSUME RunInv, [MainNext]_mainVars
               PROVE  [Next]_vars
    OBVIOUS
  <1>1. ASSUME NEW p \in Party, Kill(p)
        PROVE  [Next]_vars
    BY <1>1, DieQuiet DEF Kill
  <1>2. ASSUME NEW p \in Party, FinalizeAndVerify(p)
        PROVE  [Next]_vars
    <2>1. z[p] \in SUBSET Party /\ \A q \in z[p] : HasResponse(q)
      BY DEF RunInv, RunTypes, ResponsesThere
    <2>2. Responses(z[p]) \in Maps(round2)
      BY <2>1, ResponsesMap
    <2> QED
      BY <1>2, <2>2 DEF FinalizeAndVerify, Next
  <1>3. CASE UNCHANGED mainVars
    BY <1>3 DEF mainVars
  <1> QED
    BY <1>1, <1>2, <1>3, StepSigns, RequestFacts
       DEF MainNext, Combine, LocalFinalize

\* main and LocalRun run the signing protocol: whatever is proved of every
\* caller of Signing holds of the program.
THEOREM RunIsSigning == MainSpec => Spec
  <1>1. MainInit => Init
    BY DEF MainInit
  <1> QED
    BY <1>1, RunSigns, RunInvariance, PTL DEF MainSpec, Spec

\* So the program implements the abstract signing service.
THEOREM RunImplementsService == MainSpec => ImplementsService
  BY RunIsSigning, Refinement, PTL
=============================================================================
