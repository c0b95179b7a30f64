---------------------------- MODULE PairwiseKeys ----------------------------
(***************************************************************************)
(* The pairwise material of a committee, seeds and MAC keys, from the      *)
(* authenticated key exchange of package reshare, and the transcript the   *)
(* exchange is bound to.                                                   *)
(*                                                                         *)
(* A hash, a signature and a derived key are what they were computed from, *)
(* so two are equal exactly when their inputs are.  One chain, one network *)
(* and one group: their identifiers, fixed in every input, are left out,   *)
(* and so are malformed byte lengths.  Committee positions count from 0.   *)
(***************************************************************************)
EXTENDS Naturals, Sequences, FiniteSets, Functions

\* canonicalPair: the smaller position first.
CanonicalPair(i, j) == IF i > j THEN <<j, i>> ELSE <<i, j>>

\* The positions of a committee of K, and its canonical pairs.
Places(K) == 0 .. (K - 1)
Pairs(K) == {p \in Places(K) \X Places(K) : p[1] < p[2]}

-----------------------------------------------------------------------------
(* The hash suites: Corona-SHA3 and Corona-BLAKE3 frame each part with its *)
(* length and tag each use, so an output tells suite, use and parts.       *)

\* TranscriptHash.
TranscriptHash(suite, parts) ==
  [Suite |-> suite, Use |-> "transcript", Parts |-> parts]

\* PRF.
PRF(suite, key, label) ==
  [Suite |-> suite, Use |-> "prf", Key |-> key, Label |-> label]

\* DerivePairwise, which puts the pair in canonical order itself.
DerivePairwise(suite, kex, label, eraID, generation, i, j) ==
  [Suite |-> suite, Use |-> "pairwise", Key |-> kex, Label |-> label,
   EraID |-> eraID, Generation |-> generation, Pair |-> CanonicalPair(i, j)]

-----------------------------------------------------------------------------
(* The transcript.                                                         *)

\* ValidatorSetHash: the keys are sorted before they are hashed, so how often
\* each occurs is what counts.
ValidatorSetHash(keys) ==
  [v \in Range(keys) |-> Cardinality({k \in DOMAIN keys : keys[k] = v})]

\* TranscriptInputs.Hash over the fields BuildTranscript fills in; the era, the
\* two generations, the suite and the Nebula root stay zero.
TranscriptInputs(variant, old, new, groupKeyHash) ==
  [OldEpochID |-> old.Epoch, NewEpochID |-> new.Epoch,
   OldSetHash |-> ValidatorSetHash(old.Validators),
   NewSetHash |-> ValidatorSetHash(new.Validators),
   ThresholdOld |-> old.Threshold, ThresholdNew |-> new.Threshold,
   GroupPublicKeyHash |-> groupKeyHash, Variant |-> variant]

\* (*ReshareEpochInputs).BuildTranscript, hashed.
ReshareTranscriptHash(old, new, groupKeyHash) ==
  TranscriptInputs("reshare", old, new, groupKeyHash)

\* (*RefreshEpochInputs).BuildTranscript, hashed: one committee, one threshold.
RefreshTranscriptHash(state, newEpoch, groupKeyHash) ==
  TranscriptInputs("refresh", state, [state EXCEPT !.Epoch = newEpoch],
                   groupKeyHash)

-----------------------------------------------------------------------------
(* The key exchange.                                                       *)

\* The ephemeral key pair a party draws for an invocation, and a point of low
\* order, which nobody honest draws.
Ephemeral(party, invocation) == [Party |-> party, Invocation |-> invocation]
LowOrder == [Party |-> "low-order", Invocation |-> "low-order"]

\* Mutant: the signature does not cover the transcript.
SignEphemeral_NoTranscript(party, pubEph, transcript) ==
  [Signer |-> party, PubEph |-> pubEph, Transcript |-> "none"]

\* SignEphemeral: the signed message covers the transcript and the key.
SignEphemeral(party, pubEph, transcript) ==
  [Signer |-> party, PubEph |-> pubEph, Transcript |-> transcript]

\* X25519Pair returns no error.
X25519Admits(pub) == pub # LowOrder

\* The shared secret: the same whichever end holds the private half.
X25519Pair(priv, pub) == {priv, pub}

\* AuthenticatedKex returns no error: sig is the peer's signature on pubEph
\* under this transcript, and the exchange gives a secret.
KexAdmits(pubEph, sig, peer, transcript) ==
  /\ sig = SignEphemeral(peer, pubEph, transcript)
  /\ X25519Admits(pubEph)

\* What AuthenticatedKex then returns: auth_kex_ij.
AuthenticatedKex(priv, pubEph, transcript, suite) ==
  TranscriptHash(suite, [Transcript |-> transcript,
                         Shared |-> X25519Pair(priv, pubEph)])

-----------------------------------------------------------------------------
(* The derived material.                                                   *)

\* KDFOutput: DerivePairwise with the tag in the label, under the suite, era
\* and generation of ctx.
KDFOutput(tag, keyMat, ctx, i, j) ==
  DerivePairwise(ctx.HashSuiteID, keyMat, tag, ctx.KeyEraID, ctx.Generation,
                 i, j)

\* No error of DeriveSeeds or DeriveMACKeys: every pair has its auth_kex and,
\* for the seeds, every party its self-seed.
DeriveAdmits(K, authKex, selfSeeds) ==
  Pairs(K) \subseteq DOMAIN authKex /\ Places(K) \subseteq DOMAIN selfSeeds

\* DeriveSeeds.
DeriveSeeds(K, authKex, selfSeeds, ctx) ==
  [p \in Pairs(K) \cup {<<i, i>> : i \in Places(K)} |->
     KDFOutput("prf-seed",
               IF p[1] = p[2] THEN selfSeeds[p[1]] ELSE authKex[p],
               ctx, p[1], p[2])]

\* DeriveMACKeys: no party MACs to itself.
DeriveMACKeys(K, authKex, ctx) ==
  [p \in Pairs(K) |-> KDFOutput("mac-key", authKex[p], ctx, p[1], p[2])]

\* The MACKeys PartyKeyShareFromShare gives to position me.
MACKeysOf(me, K, pairwiseMACs) ==
  [k \in Places(K) \ {me} |-> pairwiseMACs[CanonicalPair(me, k)]]

\* The Seeds PartyKeyShareFromShare gives to every position.
SeedsOf(K, pairwiseSeeds) ==
  [p \in Places(K) \X Places(K) |-> pairwiseSeeds[CanonicalPair(p[1], p[2])]]
=============================================================================
