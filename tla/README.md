# Corona in TLA+

Corona is a two-round lattice threshold signature (Ringtail) with a key
lifecycle around it: a committee of validators is dealt or generates a group
key once per *key era*, passes its shares on whenever the committee changes,
and signs consensus slots under the unchanged key. This directory models the
protocol state machines of the Go code with TLA+, checks them with TLC on small
instances and proves the main safety properties with TLAPS for every instance.

## 1. Inventory

| Component | Source | State | Operations | What is hard |
|---|---|---|---|---|
| Threshold signing | `threshold/threshold.go`, `sign/sign.go`, `primitives/hash.go` | per signer: nonce `R`, commitment `H`, challenge `C`, all overwritten by every call | `NewSigner`, `Round1`, `Round2`, `Finalize`, `Verify` | sessions interleave on one `Signer`; stale, corrupted or relabelled messages; retries of a slot; restarts |
| Secret sharing and rotation | `primitives/shamir.go`, `reshare/reshare.go`, `reshare/keyshare.go` | the share map and its threshold | `Reshare`, `Refresh`, `EraseShare`, `Verify` | thresholds, sizes and evaluation points change at each step; shares are lost between steps |
| Key-era lifecycle | `keyera/*.go` | `KeyEra` and the `EpochShareState` under it | `Bootstrap*`, `Reshare`, `Reanchor*` | the lineage is kept twice; shares by name, evaluation points by position |
| Verifiable rotation | `reshare/{commit,complaint,activation,transcript,quasar_integration,pairwise}.go` | complaints, disqualified senders, qualified quorum, exchange transcript, activation certificate | deal, verify, complain, disqualify, filter, certify, activate | faulty dealers and complainers; every member must reach the same quorum from messages in another order |
| Transport | `networking/zap.go`, `networking/networking.go` | map of per-peer streams, each a queue with a condition variable | `handleIncoming`, `recvBody`, `close`, connect, `Send*`/`Recv*` | goroutines race for the creation of a stream; wakeups; close |
| First shares of a committee | `keyera/bootstrap_pedersen.go`, `dkg/dkg.go`, the trusted dealer of `keyera` | contributions between dealing and finishing, abort evidence; one DKG session per party | deal, deliver, verify, abort and blame, finish | bad deliveries; aborts that blame the right dealer; a `Round1` repeated in mid-ceremony |
| Pairwise keys | `reshare/pairwise.go`, `reshare/keyshare.go`, `derivePairwiseFromShares`, `hash` | ephemerals, `auth_kex` per pair, seeds and MAC keys | sign and check an ephemeral, exchange, derive | messages of another handover; both ends must derive one key |
| Signing driver | `main.go`, `networking/networking.go` | maps `D`, `MACs`, `z` filled by goroutines, the `err` they share | one signature, one process per party over sockets | unsynchronised writes; unbuffered sends; a process that dies |
| In-process signer | `sign/local.go` | none between calls | `LocalRun` | |
| Batch verification | `threshold/verify_batch.go` | none between calls | `VerifyBatch`, `VerifyBatchAll` | hand-out of work to a pool, its end |
| Wire formats | `wire/wire.go`, `threshold/wire.go` | none | encode, decode | counts and lengths inside a frame |
| Numerics | `utils`, `gpu`, samplers | package globals (randomness buffer, `sign.K`, `sign.Threshold`) | ring arithmetic, rounding, Gaussian sampling | shared globals |
| Tools and tests | `cli`, `cmd`, `ct`, `jasmin`, `proofs`, `papers`, `scripts` | | | not program logic |

How they interact: `keyera` calls the sharing kernels and hands each validator
a `threshold.KeyShare`; a `threshold.Signer` is built from it; the signers'
`Round1Data` and `Round2Data` travel over `networking`; after a rotation the new
committee signs an activation message, with the same signer, under the old key.

Correct means: a signature verifies only for a request that every listed signer
approved; no nonce is drawn twice; a rotation moves the same secret; the group
key changes only with the era; an epoch is activated on one quorum only; the
transport neither loses, repeats nor reorders bodies, and nobody sleeps beside
a message; a failed ceremony blames who failed it; the two ends of a pair, and
nobody else, hold its MAC key; bytes verify only if they are the key's own and an exact frame
of a signature issued under it.

## 2. Plan

The order follows what would hurt most: what the committee signs, then the key
it signs with, then what carries the messages.

| Step | Modules | State |
|---|---|---|
| 1. Signing, as an implementation of an abstract signing service | `Signing`, `ThresholdSignature`, `SigningProofs` | done |
| 2. Share rotation kernels | `Shamir`, `ShareRotation`, `ShamirProofs`, `ShareRotationProofs` | done |
| 3. Key-era lifecycle, as an implementation of an abstract key lineage | `KeyEra` (uses `Shamir`), `KeyLineage`, `KeyEraProofs` | done |
| 4. Receive side of the transport | `ZapTransport`, `ZapTransportProofs` | done |
| 5. Verifiable exchange around a resharing | `ReshareExchange`, `ReshareExchangeProofs` | done |
| 6. The ceremonies that give a committee its first shares, with faults | `KeyCeremony`, under `ShareRotation` | done |
| 7. The signing run: connection set-up, key distribution and the goroutines of `main.go`; `LocalRun` | `SigningRun`, on top of `Signing`, `SigningRunProofs` | done |
| 8. Parsing and batch verification | `WireFrames`, `VerifyBatch`, `VerifyBatchProofs` | done |
| 9. Pairwise keys, composed with the lifecycle | `PairwiseKeys`, under `KeyCeremony`; `EpochHandover`, composing it with `KeyEra` | done |
| 10. Activation gating the lifecycle: an era moves to the state of a reshare only with its certificate | a module composing `ReshareExchange` and `KeyEra` | left |

Every safety property a passing run checks is proved. Left, with step 10: that
the composition implements `KeyLineage`.

## 3. The models and the code

What is common to them: a state variable has the name of the field or map it
stands for; an action is one exported call or one critical section; a call that
returns an error changes nothing and is not a step, unless it leaves state
behind. A definition named `X_Something` just before `X` is a wrong variant of
`X` (a plausible bug), kept to show that the properties notice it; no
specification uses it. Cryptography is symbolic and ideal: a hash is the record
of what was hashed, a MAC the record of what was authenticated under which key.
`PROJECT.json` maps every definition to its lines.

**`Signing`.** One `threshold.Signer` per party. `R`, `H` and `C` are the fields
of `sign.Party`, which `Round1` (`R`) and `Round2` (`H`, `C`) overwrite whatever
session the call is for. `round1` and `round2` are all messages ever sent: a
caller may hand any map of them to any call, so reordering, replay, duplication
and loss are built in; `TamperRound1` also changes a commitment or relabels its
sender. `Round1` draws a salt, which the code refuses if it is all zero
(`SaltAccepted`). `Round2` has the three admission checks of `threshold.go` and
the MAC, completeness and rank checks of `SignRound2Preprocess`; it takes the
party's own entry unchecked, as the code does. A response `z_i` is kept as its
summands, nonce, masks and share term; `Verify` holds when the masks cancel
(`MasksCancel`), the nonces are those of the commitment (`NoncesMatch`) and the
share terms add up to the secret (`SharesRecover`), which is what the norm check
of the code distinguishes up to rounding noise. `NewSigner` is a process restart.
`Dealt` is the set of parties whose `Lambda_i * s_i` add up to the secret: with
`keyera` keys the full committee, because `computeFullCommitteeLagrange` fixes
every `Lambda`; with `GenerateKeysTrustedDealer` the first `t` parties, the only
ones to which `ShamirSecretSharing` gives a share. `ThresholdSignature` is the abstract service: a
request may be issued when every signer it lists has approved it.

**`Shamir`, `ShareRotation`.** The kernels of `primitives/shamir.go` and
`reshare/*.go` as functions over a prime field `Q`. One ring coefficient is
modelled, because the kernels work coefficient by coefficient and coefficients
never meet. `ReshareAdmits` and `RefreshAdmits` are the error returns.
`ShareRotation` runs the kernels in any order on one secret, with shares lost
in between (`LoseShare`: the caller's map has no entry for the party any more).
`EraseShare` is not an action: it zeroes a share in place and leaves the entry,
and a caller that handed such an entry to `Reshare` would share zero; its comment
and tests use it for the shares of a replaced committee, which nothing reads.

**`KeyCeremony`.** Where that secret comes from; `ShareRotation` extends it.
Three ways: the trusted dealer of `keyera`; the Pedersen ceremony, whose two
halves `DealPedersen` and `FinishBootstrapPedersen` are separate actions with
altered deliveries (`AlterDelivery`) between them, and whose second half either
forms the key (`FinishPedersen`) or stops with evidence (`AbortPedersen`), after
which the caller may deal again; the DKG of package `dkg`, where every `Round1`
samples anew, a faulty dealer spoils a share or commits to one coefficient too
many, and `Round2` takes shares and commitments as two maps, possibly of
different `Round1` outputs. A commitment binds a polynomial and therefore is
the polynomial. `AdoptKey` is the consensus caller: parties that saw the same
commitments take the key into use. The dealer whose complaint is reported first
within one failing recipient is the `vss` library's choice.

**`KeyEra`.** The caller holds one `*KeyEra`; `era` is that record, with the
nested `EpochShareState` and its own copies of era id, suite and epoch. Shares
are kept by validator name, evaluation points are list positions. A group key
is the secret behind it. `KeyLineage` is the promise: inside an era, group key
and suite never change; a new era gets the next id.

**`PairwiseKeys`, `EpochHandover`.** `PairwiseKeys` has the hash suites as what
they bind, the transcript (`BuildTranscript`; validator sets hash as sorted
lists), signed ephemerals, `AuthenticatedKex` with its checks, `DeriveSeeds`,
`DeriveMACKeys` and `PartyKeyShareFromShare`. `EpochHandover` composes it with
`KeyEra`: each `Reshare` is followed by the exchange bound to its transcript,
and a member may be handed any signed ephemeral of this committee, of this
handover or another, of a refresh for the same epochs, of its peer or of
somebody else. One exchange is run per handover, because the transcript has no
attempt number. Malformed byte lengths are left out. The keys a Pedersen
ceremony derives from the sealed shares are in `KeyCeremony`
(`PairKex`, `SeedFromShares`, `MACKeyFromShares`).

**`ZapTransport`.** A step is one critical section of `zn.mu` or `ps.mu`.
`LookUpStream` and `CreateStream` are the two halves of `getOrCreateStream`;
`Push` and `PopBody`/`PopEmpty` those of the stream, with `cond.Wait` as
releasing the lock and parking, and `Signal` waking one arbitrary waiter;
`CloseBegin`, `CloseStream`, `CloseUnlock` and `Stop` are `zapNode.close`, which
holds `zn.mu` during its loop. The ZAP library is external: it is modelled as
one handler goroutine per peer that delivers bodies in order until `Stop`.

**`ReshareExchange`.** Package `reshare` provides checks and computations; the
consensus caller runs them in the order of the checklist in
`quasar_integration.go`. The computations (`VerifyShareAgainstCommits` as
`Reasons`, `ComputeDisqualifiedSet`, `FilterQualifiedQuorum`,
`ReshareTranscript.Hash`, `VerifyActivation`) are the code's; the actions around
them are that checklist, and what is the caller's duty is assumed of it: it
binds `ComplainerKey` to `ComplainerID`, checks the transcript and the evidence
of a complaint, and delivers Round 1 messages between honest parties before the
deadline. Complaints reach members in part, repeatedly and in any order. A
delivery is the digest of the commitments and the verdict on the share; faulty
dealers pick any of `FaultyDelivery` per member, faulty members make up
complaints whose evidence nobody else can refute, and sign any view. Honest
members sign their own.

**`WireFrames`, `VerifyBatch`.** A frame is a sequence of eight-byte cells
(counts, coefficients and length prefixes); `TakeCount`, `WalkPoly`,
`WalkVector` and the rest are the walkers of package `wire`, run before the
lattice library's decoders, which are external. `DecodePoly` reads the layout
that `wire/wire.go` lines 51-53 give; the repository's tests exercise it with one
modulus, so that for more moduli it rests on that comment. Walkers and decoders
are functions on all sequences of cells, so that the proofs speak of bytes of any
length; `NilAssumption` says that the error value is none of the values. The
decoders' own error returns in `UnmarshalBinary` are left out: no bytes that
passed the walker make a decoder fail (`WalkersExact`).

`VerifyBatch` is the verifier around them: tuples arrive as bytes, at most one
altered (a cell changed, cut or added anywhere, a coefficient raised by a
modulus, a polynomial added with or without its count, another header), are
parsed, and go through the channel and the goroutines of the pool. `Verify` is the
set of answers the call can give, because not every parsed value has one:

- `Dimensions` is the guard of `VerifyWithSuite`. It does not look at `BTilde`.
  `Panics` is what happens when that has a polynomial too many: `VectorPolyMul`
  writes past its result, in a goroutine that recovers nothing, and `Crash` ends
  the process.
- `Equations` reads what `VerifyWithSuite` reads, so that a vector that is too
  long is caught by the guard or not at all, and compares residues, since no
  decoder asks for reduced coefficients: `C` and `Z` modulo `Q`, `Delta` modulo
  `QNu`. A signature with a coefficient raised by the modulus is another byte
  string that verifies. A `Delta` that is not reduced may be refused or not. The
  key is hashed byte for byte and has no such freedom.
- What the library does with a polynomial of another ring (`~RingKey`,
  `~RingSignature`) is left open: it may panic or give any answer, except that
  nothing but the group's key is accepted.

That nothing else passes the equations is the hardness of the scheme and assumed.
`IssuedAssumption` says that the key and the issued signatures have the dimensions
and the ring of the parameter set and are below the caps of package `wire`.

**`SigningRun`.** `main.go`, one process per rank, using the actions of
`Signing` for the rounds. `mode` is `"local"` (`LocalRun`), `"socks"` (a caller
wired `P2PComm.Socks`) or `"zap"` (nobody did, which is `main` as built:
`GetSock` gives nil and its first use panics, `GetSockPanics`). A socket has no
buffer, as `net.Pipe`, so that a transfer is a joint step; with a buffer fewer
orders block. The receiving goroutines write `D`, `MACs` and the one `err`
without a lock: a racing write may lose an entry (`Receive`), and `Check` reads
the `err` another goroutine may have cleared. One fault, a kill (`Kill`, also
the runtime's throw on concurrent map writes), a degenerate salt or a lost
entry, happens at any point.

## 4. Runs

`CHECK_DEADLOCK FALSE` is everywhere because each system may really stop: no
caller has to make another call, and the bounds end every behaviour. That no
process is stuck before its end is `Terminates` and `BatchReturns`.

| Run | Instance | Shows |
|---|---|---|
| `replay` | 2 signers, 2 sessions, 2 `Round1` per signer, one corrupted or relabelled message or one restart (`OneFault`); 216,832 states | every Round2 answers commitments made for its session and list (`CommitmentsAuthentic`); nonces are fresh (`NonceFresh`); behind a verifying aggregate is one genuine response per signer (`SignedNoncesGenuine`); a complete aggregate verifies (`CommitteeSigns`); the service is implemented (`ImplementsService`) |
| `rotation` | committees of at most 3 of 4 IDs over the field of 5, 2 altered deliveries or 1 repeated or faulty `Round1`, 2 rotations; 44,596 states | any `threshold` remaining shares reconstruct the secret behind the published key (`SecretPreserved`); an abort blames a dealer that delivered badly (`BlameJustified`); both ends of a pair can form its keys (`PairKeysFormable`) |
| `lifecycle` | committees of 1 to 3, 3 epoch changes; 5,877 states | the committee signs with the era's group key (`SharesMatchKey`), the two copies of the lineage agree (`Lineage`), key and suite change only with the era (`ImplementsLineage`); after a handover a pair, and no other, holds one MAC key, whatever is replayed (`PairKeysShared`) |
| `race` | 2 peers, 2 receivers of one of them, 2 messages per peer, close at any time; 161,136 states | `FIFO`, `EOFAfterDrain`, `NoLostWakeup`, and, under fairness, `Unblocks` |
| `exchange` | 4 dealers and 3 members, one of each faulty, `t_old` = 3, a made-up complaint, replays of an earlier invocation, 2 received complaints per member; 284,394 states up to renaming honest dealers; the log of the faulty member is not explored (`FaultyKeepNoLog`), since nothing reads it | members that activate agree on the quorum and its commitments (`ActivationAgreement`); behind them are `t_old` dealers and verified shares (`ActivationBacked`); equal sets of complaints give equal verdicts (`QuorumDeterministic`); an honest dealer is not disqualified (`HonestDealersKept`) |
| `verify` | batches of up to 3 tuples, 2 goroutines, a key of one row and two columns, one coefficient, moduli 7 and 5, every alteration of one frame; 298,925 states | every tuple gets an answer of its own (`ResultsComplete`); what was encoded verifies, and otherwise only the key's own bytes with an exact frame of the issued residues (`OnlyIssuedVerifies`); the call returns, unless a tuple ends the process (`BatchReturns`) |
| `driver` | 3 processes, all modes, complete and incomplete peer lists, one fault; 143,476 states | a printed verification is true (`PrintsVerified`); every process ends (`Terminates`) |

Why these bounds: two sessions and two `Round1` calls are what a stale message
needs to meet a call for something else; one restart clears a field between two
calls; two receivers and two messages on one stream are what a lost wakeup
needs; a threshold of 2 with one faulty complainer is the first where counting
messages and counting complainers differ; three positions over five field
elements give sub-quorums on both sides of every threshold; two bad deliveries
let two recipients disagree on whom to blame; three processes are the fewest in
which two goroutines of one process race, and in which the combiner waits for
two; three tuples on two goroutines leave one goroutine two; the moduli are above
the values of the instance, so that raising a coefficient by one is another
residue and by the modulus the same. All safety
properties of these runs are proved for every instance
(section 6), so there the bounds only matter for the behaviour TLC explores, not
for the claim; sub-committees, larger fields and signer lists that name a signer
twice are covered that way.

Five runs end in a violation, on purpose. Each states what a document or comment
of the repository says of the code, and the trace shows what the code does
instead (quoted in `PROJECT.json`, `findings`):

| Run | Property | What happens |
|---|---|---|
| `nonce` | `NonceSignsOnce` | `Round2` leaves `Party.R` set; a second `Round2` after one `Round1` signs another message with the same nonce. Freshness is per `Round1` call (`NonceFresh`), not per signature. |
| `quorum` | `QuorumSigns` | with `keyera` keys, `t <= k < n` signers that complete both rounds get an aggregate that does not verify, because each `Lambda` is that of the full committee |
| `close` | `CloseUnblocks` | a `recvBody` that creates its stream after `close` has walked the map waits for ever |
| `slander` | `HonestDealersKept` | `t_old - 1` faulty members, the tolerated number, reach the disqualification threshold `t_old - 1` |
| `panic` | `MalformedRefused` | a group key with one polynomial too many in `BTilde` parses, passes the guard and makes `Verify` write past a slice: the process ends where `false` is promised |

Observations that are not runs:

- `ReshareTranscript.Hash` takes the complaint hashes in the order given:
  members that hold one set of complaints in different orders have different
  exchange hashes and refuse each other's certificate. The caller has to sort.
  `ActivationAgreement` holds whether it does or not; only progress depends on
  it.
- `main` never fills `P2PComm.Socks`, so `GetSock` gives nil and every process
  panics once it has connected. The model keeps this mode and the wired one.
- The comments in `networking.go` on who dials and `EstablishConnectionsZAP`
  disagree: in the code the higher rank of a pair dials.
- A committee list of `keyera` that names a validator twice passes every check;
  `Shares` then keeps the share of its last position only. No document says what
  such a list means; the runs use lists of distinct names, and the theorems on
  shares assume them.
- `PartyKeyShareFromShare` gives both directions of a pair one seed, while
  `derivePairwiseFromShares` keeps them apart; each is modelled as it is.

## 5. Fairness

Three modules have liveness properties.

- `ZapTransport`: weak fairness of each handler goroutine, each receiver
  goroutine and of `close` once called: the Go scheduler runs every runnable
  goroutine, and `sync.Mutex` and `sync.RWMutex` do not starve waiters. Nothing
  obliges a peer to send, a caller to call `recvBody`, or anyone to call
  `close`; those steps have no fairness. In the `close` run the same fairness
  holds, so its trace is a receiver that is really stuck and not one that is
  never scheduled.
- `VerifyBatch`: weak fairness of the caller once inside the call and of each
  goroutine of the pool, for the same reason. Nobody has to call. The
  next step of a goroutine that has an index is an answer or a panic; which of
  them, where `Verify` leaves it open, fairness does not say.
- `SigningRun`: weak fairness of each process's next step, of the combiner's end
  and of `LocalFinalize`. The operating system and the Go scheduler run what can
  run, a process that ended has closed its sockets, and a blocked read or write
  on a closed socket returns an error. Kills have no fairness. No step repeats
  for ever, so nothing more is asked of the goroutines within a process.

## 6. Proofs

The theorems hold for every value of the constants that meets the named
assumptions, the bounds included.

**`SigningProofs`** (`Invariance`, `TypeCorrect`, `CommitmentsAuthenticTheorem`,
`NonceFreshTheorem`, `SignedNoncesGenuineTheorem`, `Refinement`,
`CommitteeSignsTheorem`). None of the
properties is inductive by itself: that a response answers authentic
commitments needs that every MAC on the network was made by the call that drew
its commitment, even inside tampered messages; that nonces are fresh needs that
a party's salts are numbered by its calls; that an approved request stands
behind a response needs the history of `Round2`. `IInv` is the conjunction of
these. Refinement then rests on one lemma about sums (`MasksTie`): since every
ordered pair has a seed of its own (`SeedsAssumption`), masks that cancel tie
the responses of all listed signers to one commitment, and only `Finalize` can
add to the issued requests. `CommitteeSignsTheorem` is the other direction: an
aggregate of one response per listed signer, to one commitment, under one PRF key
and with the committed nonces, verifies if the dealt shares are among them. It
needs one more invariant, that an answered commitment holds a nonce of every
listed signer (`CommitmentsHeld`). That all dealt shares are there is its
hypothesis; run `quorum` shows that fewer do not do.

**`SigningRunProofs`** (`RunInvariance`, `PrintsVerifiedTheorem`,
`RunIsSigning`, `RunImplementsService`), for any number of parties, peer listings
and faults. `PrintsVerified` says nothing of how a signature comes about; what
makes it true is that all parties answer one commitment. `RunInv` says so: a
process publishes once, so the message on the network holds the nonce it still
has (`MessagesCurrent`); what is in a map was published (`MessagesThere`); nobody
answers before all have published, after which no nonce changes, so every
response is to the hash of the nonces of all (`ResponsesAgree`); who is past
round 2 holds that commitment and has answered (`ResponsesThere`); `LocalRun`
keeps its parties together (`LocalInStep`). Entries lost in the unlocked maps make
`SignRound2Preprocess` refuse, they never change what is answered. The aggregate
of all responses then verifies (`CompleteVerifies`: the masks cancel, the map
from responses to parties is the bijection of `NoncesMatch`). `RunIsSigning` shows
that each step of `main` and `LocalRun` is a step of `Signing` or leaves it alone,
so that the theorems of `SigningProofs` hold of the program. They need that there
is a request (`RequestAssumption`) and that parties are the ranks of a committee
of at least two whose keys `Gen` dealt to all (`RankAssumption`).

**`ShamirProofs`** (`PowersAgree`, `ReconstructSharing`, `ReshareKeepsSecret`,
`RefreshKeepsSecret`), for every prime `Q`, threshold and committee of nonzero
points. The library's induction rules take an operator and cannot be used; here
induction is on sets: the set of naturals, or of finite sets, for which a
statement holds contains the empty case and the next one, hence all, since a
least counterexample would exist (`WFMin`). This gives the recursion equations of
the sums and products, which the community modules define by a fold over a set
in an arbitrary order, and that the order does not matter. That interpolation at 0
gives back the constant term of a polynomial of degree below `t` from any `t` or
more points is by induction on the degree and the set of points, with the
inverses of a prime field. The two evaluation loops of the code agree. A sharing
(`IsSharing`) is then mapped by `Reshare` to the sum of the polynomials the quorum
drew, whose constant terms add up to the secret, and by `Refresh` to the old
polynomial plus ones without constant term.

**`ShareRotationProofs`** (`InvariantTheorem`, `TypeTheorem`, `SecretTheorem`,
`BlameTheorem`, `PairKeysTheorem`). `SecretPreserved` is not inductive: that all
quorums agree now does not say that the shares lie on one polynomial of low
degree, which the next rotation needs. `IInv` adds that (`SharingInv`), and, for
the ceremonies, that a delivery differs from its dealer's commitment exactly
where it was altered (`ContribsInv`), and that what `Round2` returned is the sum
of polynomials of degree below `t` that it verified (`DKGInv`).

**`KeyEraProofs`** (`LineageTheorem`, `EraTheorem`, `SharesTheorem`,
`ChainTheorem`, `HandoverIsLifecycle`, `HandoverKeysTheorem`). `Lineage` is by
induction over the three operations; the invariant says that `era` is a whole
record whose two halves name one era and suite, with epoch = genesis epoch +
generation. `EraInv` adds that the shares, read by name at each position, are a
sharing of the group key. This and what follows from it, `SharesMatchKey` and the
refinement of `KeyLineage`, hold under `DistinctNames`: no validator list names a
validator twice. It is a hypothesis of the theorems and not an assumption of the
module, because the code does not check it (section 4, observations). `ValidatorListAssumption` bounds a committee by the modulus, which in
the code has 48 bits. `HandoverKeysTheorem` needs no distinct names: the
transcript binds the epochs, so of all signed ephemerals only those of this
handover are admitted, and both ends of a pair derive from one unordered pair of
them. `HandoverIsLifecycle` carries the other theorems over to the composition.

**`VerifyBatchProofs`** (`ResultsTheorem`, `WalkersExact`, `HonestFramesPass`,
`ParsingInjective`, `VerifyBytesIssued`, `OnlyIssuedTheorem`), for any batch, pool
and schedule, and for byte strings of any length.
`BatchInv` accounts for every index: it is queued, in the hand of a running
goroutine, or an answer `Verify` can give is stored for it; and no goroutine leaves
before the channel is closed and drained. When the last one has left, only the
third case remains. This rests on the pool not being empty for a batch that is not
(`PoolFacts`). A process that has died returns nothing.

What is said of the bytes rests on four relations between a walker, a decoder
and an encoder (`Codec`, `Good`): what the decoder reads, written again, are the
bytes it read (`Faithful`); what was written is read back, whatever follows it
(`ReadsBack`); the walker, where it accepts, leaves what the decoder leaves
(`Agree`) and accepts what was written (`Passes`). They are shown for a
polynomial, where a product of two counts meets the walker's division
(`DivBound`), and carried to a count followed by that many items (`ManyCodec`,
`ManyGood`), hence to vectors and matrices, and to length-prefixed bodies and
frames. That step is an induction over the number of items, on the set of
numbers for which the statement holds, as in `ShamirProofs`: `Rests` gives what is
left after each item, and `FlattenSeq` is shown to add one item at a time
(`FlattenExists`, `FlattenPrefixes`). A walked frame is then the one encoding of
what it decodes to (`WalkersExact`), no two byte strings parse to one value
(`ParsingInjective`), and the dimension guard makes the equations read `z` and
`Delta` whole. Hence (`VerifyBytesIssued`) of all byte strings only the key's own
can be accepted, with the one encoding of a signature that has the issued
dimensions and, within the ring, the issued residues; and what was encoded of the
key and of an issued signature has no answer but true and cannot panic. The
theorem leaves exactly the multiples of the moduli open, which the code does too;
it says nothing of when malformed bytes are answered false and when they panic,
which run `panic` is about. `OnlyIssuedTheorem` adds `CallInv`: what arrives,
altered or not, are frames, and from the call on the arguments are what was parsed
of them.

**`ZapTransportProofs`** (`Invariance`, `TypeCorrect`, `FIFOTheorem`,
`EOFAfterDrainTheorem`, `NoLostWakeupTheorem`). `FIFO` needs that there is one
stream per peer: each goroutine that holds a stream holds the one in the map
(`getOrCreateStream` looks again under the write lock), each stream belongs to
its peer, and a handler pushes the body right after the last accepted one
until the stream is closed. `NoLostWakeup` is inductive on top of that: a push
adds one body and wakes one waiter, a pop takes one body and one awake
receiver, and a receiver parks only on an empty queue.

**`ReshareExchangeProofs`** (`Invariance`, `TypeCorrect`,
`ActivationAgreementTheorem`, `ActivationBackedTheorem`,
`HonestDealersKeptTheorem`, `QuorumDeterministicTheorem`). A member's view does not change once it is past
the Round 2 deadline; hence what an honest member signed is still its view, and
a certificate keeps verifying. Two certificates share an honest signer
(`CertQuorumAssumption`), which has one view, so the certified quorums are
equal. The assumption is justified by the signer: with `keyera` keys only the
full committee produces a verifying signature (run `quorum`), so any two
certificates share all members. `HonestDealersKeptTheorem` assumes fewer faulty
members than `DisqualificationThreshold`; run `slander` shows that the
assumption cannot be weakened by one. `QuorumDeterministicTheorem` needs that a member's verdict
is a function of the set of complaints it logged (`VerdictInv`): the count runs
over complainers, so neither order nor repetition in the log enters it.

Only model-checked: liveness (`Unblocks`, `BatchReturns`, `Terminates`), which the
prover does not do.

## 7. Not modelled

- Ring arithmetic, rounding, Gaussian sampling, `gpu`: numerics. That the norm
  bound accepts honest aggregates and rejects others is taken as exact; the
  rejection probability is not modelled, nor the noise of a key made by Path (a).
- The strength of the cryptography: hashes do not collide, MACs and signatures
  are not forged, PRF outputs of different keys differ.
- Package-level state shared by concurrent callers: the randomness buffer of
  `utils`, `sign.K` and `sign.Threshold`, written by key generation
  (`threshold.go:143`). The models run one key generation at a time. Listed as
  hazards.
- Bytes below the cell: frame lengths that split a count or a coefficient, and
  the 64 bits of a coefficient, which is a natural number here.
- What the lattice library computes with a polynomial of another ring: left
  nondeterministic in `VerifyBatch`. `WalkersExact` includes such polynomials in the
  layout of `wire/wire.go`'s comment; the header the library itself writes for
  them is not known here.
- The payload codecs of `Recv*` and `Send*` of `P2PComm` (`decodeBytesMap` and the
  like): a value arrives whole or, when the sender is gone, not at all. Likewise
  the read-ahead of a `bufio.Reader` over a buffering socket.
- The degree of a commitment in `ReshareExchange`: `VerifyShareAgainstCommits` refuses
  an empty commit vector only and compares its length with nothing, so a delivery
  is its digest and that verdict. What a commitment of too high a degree does is
  modelled for the DKG, in `KeyCeremony`.
- Calls no caller in the repository makes: `FinishBootstrapPedersen` with
  another `t` than `DealPedersen`, a resharing retried under the same epoch
  ids. Listed as hazards.
- Activation as a precondition of the next epoch: the code leaves it to the
  consensus caller (section 2, step 10).
- `cli`, `cmd`, `ct`, `jasmin`, `proofs`, `papers`, `scripts`: tools,
  measurements, documents and other languages; no protocol state.
