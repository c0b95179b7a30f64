------------------------------- MODULE Signing -------------------------------
(***************************************************************************)
(* The two-round threshold signing protocol: threshold.Signer, the         *)
(* sign.Party it wraps, and the network between the signers.               *)
(*                                                                         *)
(* Each party runs one Signer.  A Signer keeps the nonce matrix R of its   *)
(* last Round1 and the commitment H and challenge C of its last Round2;    *)
(* every call overwrites them, whatever session it is for.  The caller     *)
(* decides which call to make next and with which messages, so sessions    *)
(* interleave on one Signer, a round is retried, a process restarts.       *)
(*                                                                         *)
(* Ring elements are symbolic.  A nonce stands for R and for its           *)
(* commitment D = A*R + E; a hash is the record of what was hashed (no     *)
(* collisions); a MAC is the record of what was authenticated and under    *)
(* which pairwise key (no forgeries); a response z_i is the list of its    *)
(* summands.  Verification then asks whether the summands of the           *)
(* aggregate cancel to R*u + s*c.                                          *)
(***************************************************************************)
EXTENDS Naturals, Sequences, FiniteSets, Functions

CONSTANTS
  Party,       \* the committee of the key
  Dealt,       \* the parties whose lambda_i * s_i add up to the secret
  Seeds,       \* Seeds[i][j]: the pairwise PRF seed from i to j
  Session,     \* the session ids (consensus slots) callers use
  SignerList,  \* the signer lists T callers use (sequences of parties)
  Message,     \* the messages mu callers ask to sign
  PRFKey,      \* the PRF keys callers use
  Nil,         \* the Go zero value: an unset field, an absent map entry
  MaxRound1,   \* bound: successful Round1 calls per party
  MaxRound2,   \* bound: distinct Round2 responses per party
  MaxTamper,   \* bound: messages the network corrupts
  MaxRestart,  \* bound: process restarts
  MaxSigs      \* bound: signatures Finalize outputs

ASSUME PartyAssumption == Dealt \subseteq Party

ASSUME SignerListAssumption == SignerList \subseteq Seq(Party)

\* Every ordered pair has a seed of its own (sign.Gen draws K*K seeds,
\* derivePairwiseFromShares derives one per direction).
ASSUME SeedsAssumption ==
  \A i, j, k, l \in Party : Seeds[i][j] = Seeds[k][l] => i = k /\ j = l

ASSUME BoundAssumption ==
  {MaxRound1, MaxRound2, MaxTamper, MaxRestart, MaxSigs} \subseteq Nat

VARIABLES
  R,           \* R[p]: Party.R, the nonce of p's last Round1
  H,           \* H[p]: Party.H, the rounded commitment of p's last Round2
  C,           \* C[p]: Party.C, the challenge of p's last Round2
  round1,      \* the Round1Data on the network, genuine or corrupted
  round2,      \* the Round2Data on the network
  sigs,        \* the Signatures Finalize returned
  calls,       \* calls[p]: successful Round1 calls of p (the fresh salts drawn)
  tampers,     \* messages corrupted so far
  restarts,    \* restarts so far
  drawn,       \* history: what each Round1 call committed to
  approved     \* history: approved[p] is what p's Round2 calls agreed to sign

vars == <<R, H, C, round1, round2, sigs, calls, tampers, restarts,
          drawn, approved>>

-----------------------------------------------------------------------------
(* Hashes, nonces and MACs.                                                *)

\* The set a signer list names.
Members(T) == Range(T)

\* Mutant: the nonce key of a bare session id, without the hedge salt.
PRNGKeyForRound_NoSalt(p, sid, T, salt) ==
  [party |-> p, sid |-> sid, T |-> T, salt |-> 1]

\* PRNGKeyForRound: the nonce is a PRF of the share (its holder), the session
\* id derived from (sid, T), and the hedge salt.
PRNGKeyForRound(p, sid, T, salt) ==
  [party |-> p, sid |-> sid, T |-> T, salt |-> salt]

\* Mutant: a MAC that does not bind the session id.
GenerateMAC_NoSid(D, key, sender, sid, T) ==
  [key |-> key, sender |-> sender, D |-> D,
   sid |-> CHOOSE s \in Session : TRUE, T |-> T]

\* GenerateMAC: what the sender of D authenticates to its peer under the
\* key the two share.
GenerateMAC(D, key, sender, sid, T) ==
  [key |-> key, sender |-> sender, D |-> D, sid |-> sid, T |-> T]

\* MACKeys[i][j] = MACKeys[j][i]: one key per pair.
MACKey(i, j) == {i, j}

\* Mutant: a transcript hash that leaves the session id out.
Hash_NoSid(D, sid, T) ==
  [D |-> [j \in Party |-> IF j \in Members(T) THEN D[j] ELSE Nil],
   sid |-> CHOOSE s \in Session : TRUE, T |-> T]

\* The transcript hash binds the commitments of the members of T, sid and T.
Hash(D, sid, T) ==
  [D |-> [j \in Party |-> IF j \in Members(T) THEN D[j] ELSE Nil],
   sid |-> sid, T |-> T]

\* h = DSum * u with u = GaussianHash(transcriptHash, mu).
Commitment(th, mu) == [th |-> th, mu |-> mu]

\* The challenge: c = LowNormHash(A, bTilde, h, mu).
LowNormHash(h, mu) == [h |-> h, mu |-> mu]

\* The maps from Go keys to messages a caller can hand in; the keys are
\* labels, only the PartyID inside each message counts.
Maps(S) == UNION {[K -> S] : K \in SUBSET Party}

\* The PartyIDs of the entries of such a map.
IDs(data) == {data[k].PartyID : k \in DOMAIN data}

\* No two entries carry one PartyID.
NoDuplicate(data) ==
  \A k, l \in DOMAIN data : data[k].PartyID = data[l].PartyID => k = l

\* The entry of PartyID j.
EntryOf(data, j) == data[CHOOSE k \in DOMAIN data : data[k].PartyID = j]

-----------------------------------------------------------------------------
(* The summands of a response                                              *)
(*   z_i = R*u + maskPrime + lambda_i*s_i*c - mask.                        *)

\* Mutant: maskPrime leaves out the seed a signer shares with itself.
MaskPrime_NotSelf(z) ==
  {[seed |-> Seeds[j][z.PartyID], prfKey |-> z.prfKey, h |-> z.h]
     : j \in Members(z.h.th.T) \ {z.PartyID}}

\* maskPrime: the masks added, one per seed towards i.
MaskPrime(z) ==
  {[seed |-> Seeds[j][z.PartyID], prfKey |-> z.prfKey, h |-> z.h]
     : j \in Members(z.h.th.T)}

\* mask: the masks subtracted, one per seed from i.
Mask(z) ==
  {[seed |-> Seeds[z.PartyID][j], prfKey |-> z.prfKey, h |-> z.h]
     : j \in Members(z.h.th.T)}

\* Every mask added by one response of Z is subtracted by another.
MasksCancel(Z) == UNION {MaskPrime(z) : z \in Z} = UNION {Mask(z) : z \in Z}

\* The nonce summands are those of h = (sum of D_j)*u, each once.
NoncesMatch(Z, h) ==
  \E f \in Bijection({z \in Z : z.nonce # Nil}, Members(h.th.T)) :
    \A z \in DOMAIN f : z.nonce = h.th.D[f[z]] /\ z.h = h

\* The share summands add up to s*c.
SharesRecover(Z, c) ==
  /\ Dealt \subseteq {z.PartyID : z \in Z}
  /\ \A z \in Z : z.PartyID \in Dealt => LowNormHash(z.h, z.h.mu) = c

\* The norm of (z, Delta) is below the bound: A*zSum - b*c is the
\* finalizer's h up to rounding noise.
CheckL2Norm(sig) ==
  /\ MasksCancel(sig.z)
  /\ NoncesMatch(sig.z, sig.H)
  /\ SharesRecover(sig.z, sig.C)

\* Verify recomputes A*z - b*c + Delta, which is the finalizer's h by the
\* construction of Delta, hashes it with mu and compares challenges.
Verify(mu, sig) == LowNormHash(sig.H, mu) = sig.C /\ CheckL2Norm(sig)

-----------------------------------------------------------------------------
Init ==
  /\ R = [p \in Party |-> Nil]
  /\ H = [p \in Party |-> Nil]
  /\ C = [p \in Party |-> Nil]
  /\ round1 = {}
  /\ round2 = {}
  /\ sigs = {}
  /\ calls = [p \in Party |-> 0]
  /\ tampers = 0
  /\ restarts = 0
  /\ drawn = {}
  /\ approved = [p \in Party |-> {}]

\* What io.ReadFull(party.Rand) can hand back: a salt never drawn before, or
\* the all-zero salt of a broken source.
SaltRead(p) == {0, calls[p] + 1}

\* isZero32(salt) fails the call closed.
SaltAccepted(salt) == salt # 0

\* SignRound1: the message that publishes D, with one MAC per peer in T.
SignRound1(p, sid, T, D) ==
  [PartyID |-> p,
   D       |-> D,
   MACs    |-> [j \in Party |->
                  IF j \in Members(T) \ {p}
                    THEN GenerateMAC(D, MACKey(p, j), p, sid, T)
                    ELSE Nil]]

\* Signer.Round1: draw a salt, derive the nonce, keep it and publish.  A failed
\* call changes nothing a later call reads.
Round1(p, sid, T) ==
  \E salt \in SaltRead(p) :
    LET D == PRNGKeyForRound(p, sid, T, salt) IN
    /\ calls[p] < MaxRound1
    /\ SaltAccepted(salt)
    /\ R' = [R EXCEPT ![p] = D]
    /\ round1' = round1 \cup {SignRound1(p, sid, T, D)}
    /\ calls' = [calls EXCEPT ![p] = @ + 1]
    /\ drawn' = drawn \cup
         {[party |-> p, call |-> calls[p] + 1, D |-> D, sid |-> sid, T |-> T]}
    /\ UNCHANGED <<H, C, round2, sigs, tampers, restarts, approved>>

\* Round2 refuses too few messages, a message from outside T and a repeated
\* PartyID before any kernel sees them.
Round2Admits(T, data) ==
  /\ Cardinality(DOMAIN data) >= Len(T)
  /\ IDs(data) \subseteq Members(T)
  /\ NoDuplicate(data)

\* Mutant: the peers' MACs are not checked.
SignRound2Preprocess_NoMAC(p, sid, T, data) ==
  /\ Members(T) \subseteq IDs(data)
  /\ Members(T) # {}

\* SignRound2Preprocess: each peer's MAC for p verifies, every member of T has
\* a commitment to add to DSum, and DSum has full rank (an empty sum has not).
\* p's own entry is taken as it comes.
SignRound2Preprocess(p, sid, T, data) ==
  /\ \A j \in Members(T) \ {p} :
       /\ j \in IDs(data)
       /\ EntryOf(data, j).MACs[p] =
            GenerateMAC(EntryOf(data, j).D, MACKey(p, j), j, sid, T)
  /\ Members(T) \subseteq IDs(data)
  /\ Members(T) # {}

\* SignRound2: p's response to commitment h, under the nonce R holds.
SignRound2(p, h, prfKey) ==
  [PartyID |-> p, nonce |-> R[p], h |-> h, prfKey |-> prfKey]

\* Signer.Round2: check the round-1 messages, set H and C and publish the
\* response under the nonce R happens to hold.
Round2(p, sid, mu, T, prfKey, data) ==
  LET D == [j \in IDs(data) |-> EntryOf(data, j).D]
      h == Commitment(Hash(D, sid, T), mu)
  IN
  /\ Cardinality({z \in round2 : z.PartyID = p}) < MaxRound2
  /\ Round2Admits(T, data)
  /\ SignRound2Preprocess(p, sid, T, data)
  /\ H' = [H EXCEPT ![p] = h]
  /\ C' = [C EXCEPT ![p] = LowNormHash(h, mu)]
  /\ round2' = round2 \cup {SignRound2(p, h, prfKey)}
  /\ approved' = [approved EXCEPT
       ![p] = @ \cup {[sid |-> sid, T |-> T, mu |-> mu]}]
  /\ UNCHANGED <<R, round1, sigs, calls, tampers, restarts, drawn>>

\* Mutant: Finalize may run before any Round2.
HasChallenge_Always(p) == p \in Party

\* Party.C is set; using it unset panics inside the ring arithmetic.
HasChallenge(p) == C[p] # Nil

\* SignFinalize: the aggregate of Z with the challenge it answers and the hint
\* Delta, which makes up the difference to h.
SignFinalize(p, Z) == [C |-> C[p], H |-> H[p], z |-> Z]

\* Signer.Finalize: add up the responses handed in, against the H and C of
\* p's last Round2.
Finalize(p, data) ==
  /\ Cardinality(sigs) < MaxSigs
  /\ HasChallenge(p)
  /\ DOMAIN data # {}
  /\ NoDuplicate(data)
  /\ sigs' = sigs \cup {SignFinalize(p, Range(data))}
  /\ UNCHANGED <<R, H, C, round1, round2, calls, tampers, restarts,
                 drawn, approved>>

\* The network delivers a Round1Data with another message's commitment, or
\* under another PartyID; it cannot make a MAC.
TamperRound1(m, D, i) ==
  /\ tampers < MaxTamper
  /\ round1' = round1 \cup {[m EXCEPT !.D = D, !.PartyID = i]}
  /\ tampers' = tampers + 1
  /\ UNCHANGED <<R, H, C, round2, sigs, calls, restarts, drawn, approved>>

\* p's process restarts and builds a new Signer from its key share.
NewSigner(p) ==
  /\ restarts < MaxRestart
  /\ R' = [R EXCEPT ![p] = Nil]
  /\ H' = [H EXCEPT ![p] = Nil]
  /\ C' = [C EXCEPT ![p] = Nil]
  /\ restarts' = restarts + 1
  /\ UNCHANGED <<round1, round2, sigs, calls, tampers, drawn, approved>>

Next ==
  \/ \E p \in Party, sid \in Session, T \in SignerList : Round1(p, sid, T)
  \/ \E p \in Party, sid \in Session, mu \in Message, T \in SignerList,
        prfKey \in PRFKey, data \in Maps(round1) :
       Round2(p, sid, mu, T, prfKey, data)
  \/ \E p \in Party, data \in Maps(round2) : Finalize(p, data)
  \/ \E m \in round1, D \in {n.D : n \in round1}, i \in Party :
       TamperRound1(m, D, i)
  \/ \E p \in Party : NewSigner(p)

Spec == Init /\ [][Next]_vars

-----------------------------------------------------------------------------
(* Types.                                                                  *)

Nonce == [party : Party, sid : Session, T : SignerList, salt : Nat]

MAC == [key : SUBSET Party, sender : Party, D : Nonce, sid : Session,
        T : SignerList]

\* An absent MAC (a nil slice) never equals a computed one, and an unset nonce
\* is not a nonce.
ASSUME NilAssumption == Nil \notin MAC /\ Nil \notin Nonce

Transcript == [D : [Party -> Nonce \cup {Nil}], sid : Session, T : SignerList]

Hs == [th : Transcript, mu : Message]

Cs == [h : Hs, mu : Message]

Round1Data == [PartyID : Party, D : Nonce,
               MACs : [Party -> MAC \cup {Nil}]]

Round2Data == [PartyID : Party, nonce : Nonce \cup {Nil}, h : Hs,
               prfKey : PRFKey]

Signature == [C : Cs, H : Hs, z : SUBSET Round2Data]

Request == [sid : Session, T : SignerList, mu : Message]

Draw == [party : Party, call : Nat, D : Nonce, sid : Session, T : SignerList]

\* Every variable has its type; H and C are set and cleared together, so a
\* signature always carries a challenge and a commitment.
TypeOK ==
  /\ R \in [Party -> Nonce \cup {Nil}]
  /\ H \in [Party -> Hs \cup {Nil}]
  /\ C \in [Party -> Cs \cup {Nil}]
  /\ round1 \subseteq Round1Data
  /\ round2 \subseteq Round2Data
  /\ sigs \subseteq Signature
  /\ calls \in [Party -> Nat]
  /\ tampers \in Nat
  /\ restarts \in Nat
  /\ drawn \subseteq Draw
  /\ approved \in [Party -> SUBSET Request]

-----------------------------------------------------------------------------
(* Safety.                                                                 *)

\* p's Round1 call for (sid, T) committed to D.
Drew(p, D, sid, T) ==
  \E d \in drawn : d.party = p /\ d.D = D /\ d.sid = sid /\ d.T = T

\* Round2 answers only commitments that each of its peers really made in a
\* Round1 call for this very session and signer list: no corrupted, relabelled
\* or replayed Round1Data gets past SignRound2Preprocess.
CommitmentsAuthentic ==
  \A z \in round2 : \A j \in Members(z.h.th.T) \ {z.PartyID} :
    Drew(j, z.h.th.D[j], z.h.th.sid, z.h.th.T)

\* Two Round1 calls never commit to one nonce, even when the caller reuses the
\* session id and signer list or the salt source breaks (SignRound1).
NonceFresh ==
  \A d, e \in drawn : d.D = e.D => d = e

\* The requests some returned signature verifies for.
Issued ==
  {rq \in Request : \E sig \in sigs :
     /\ rq.sid = sig.H.th.sid
     /\ rq.T = sig.H.th.T
     /\ Verify(rq.mu, sig)}

\* Behind a verifying signature, every listed signer answered, with the nonce
\* it committed to in a Round1 call for this session and signer list; this
\* includes the finalizer, although Round2 takes its own entry unchecked.
SignedNoncesGenuine ==
  \A sig \in sigs : CheckL2Norm(sig) =>
    \A j \in Members(sig.H.th.T) :
      /\ Drew(j, sig.H.th.D[j], sig.H.th.sid, sig.H.th.T)
      /\ \E z \in sig.z :
           z.PartyID = j /\ z.h = sig.H /\ z.nonce = sig.H.th.D[j]

\* sig aggregates one response of every listed signer, all under one PRF key
\* and to the finalizer's commitment, each with the nonce committed to.
Complete(sig) ==
  /\ {z.PartyID : z \in sig.z} = Members(sig.H.th.T)
  /\ \A z \in sig.z : z.h = sig.H /\ z.nonce = sig.H.th.D[z.PartyID]
  /\ \A y, z \in sig.z : y.prfKey = z.prfKey

\* A complete aggregate in which the dealt shares are present verifies, whatever
\* other sessions, restarts and corrupted messages came in between: SignRound2's
\* masks cancel, and Finalize's H and C are those of the responses.
CommitteeSigns ==
  \A sig \in sigs :
    Complete(sig) /\ Dealt \subseteq Members(sig.H.th.T) => Verify(sig.H.mu, sig)

\* The protocol implements the abstract signing service: a verifying signature
\* appears only for a request every listed signer called Round2 for.
Service == INSTANCE ThresholdSignature WITH issued <- Issued

ImplementsService == Service!Spec
=============================================================================
