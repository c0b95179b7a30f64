---------------------------- MODULE VerifyBatch ----------------------------
(***************************************************************************)
(* The verifier: tuples of a group key, a message and a signature arrive   *)
(* as bytes, are parsed (threshold/wire.go) and verified together by a     *)
(* pool of goroutines (threshold/verify_batch.go).                         *)
(*                                                                         *)
(* One step is one channel operation or one assignment of a goroutine.     *)
(* Some frames were altered under way.  A signature is what the group      *)
(* issued for the message.  Assumed, as the hardness of the scheme: within *)
(* the ring of the parameter set, nothing else passes the equations of     *)
(* VerifyWithSuite, up to the residues they compute with.  Not assumed:    *)
(* that the bytes reach those equations unchanged, that a coefficient is   *)
(* reduced, or that every parsed value can be computed with.               *)
(***************************************************************************)
EXTENDS WireFrames, FiniteSets

CONSTANTS
  M,           \* rows of A, polynomials of BTilde and of Delta
  N,           \* coefficients of a polynomial of the ring
  Q, QNu,      \* the moduli of the ring and of its rounding
  Key,         \* the group's public key
  Message,     \* the messages the group signed
  Issued,      \* Issued[m]: the signature the group issued for m
  GOMAXPROCS,  \* the number of CPUs Go uses
  MaxBatch     \* bound: tuples per batch

ASSUME PoolAssumption ==
  /\ M \in Nat \ {0} /\ N \in Nat \ {0}
  /\ Q \in Nat \ {0} /\ QNu \in Nat \ {0}
  /\ GOMAXPROCS \in Nat \ {0} /\ MaxBatch \in Nat

VARIABLES
  arrived,     \* the tuples that arrived, as bytes
  altered,     \* one frame has been altered
  groupKeys, messages, sigs,   \* the arguments of VerifyBatch
  pc,          \* where VerifyBatch is; "panicked" when the process has died
  jobs,        \* the channel of indices
  closed,      \* jobs is closed
  next,        \* the index the loop sends next
  hand,        \* hand[w]: the index goroutine w verifies, 0 if none
  running,     \* the goroutines that have not called wg.Done
  results,     \* results of this call
  ret          \* what VerifyBatch and VerifyBatchAll return

Workers == 1 .. GOMAXPROCS

call == <<groupKeys, messages, sigs>>
pool == <<jobs, closed, next, hand, running>>
vars == <<arrived, altered, call, pc, pool, results, ret>>

ErrBatchSizeMismatch == "size mismatch"

-----------------------------------------------------------------------------
(* Verify.                                                                 *)

\* Mutant: a vector longer than the key implies is not refused.
Dimensions_AtLeast(A, sig) ==
  /\ Len(A) = M /\ Len(sig.Delta) >= M
  /\ \A i \in 1 .. M : Len(A[i]) = Len(A[1])
  /\ Len(sig.Z) >= Len(A[1])

\* The guard at the head of VerifyWithSuite.
Dimensions(A, sig) ==
  /\ Len(A) = M /\ Len(sig.Delta) = M
  /\ \A i \in 1 .. M : Len(A[i]) = Len(A[1])
  /\ Len(sig.Z) = Len(A[1])

\* A polynomial of a ring whose size the walkers accept.
SizedPoly(p) ==
  /\ p \in Polys
  /\ p.levels \in 1 .. MaxLatticeUintSliceLen
  /\ p.n \in 1 .. MaxLatticeUintSliceLen
  /\ Len(p.coeffs) = p.levels * p.n

SizedVector(v) ==
  /\ v \in Vectors /\ Len(v) <= MaxLatticeUintSliceLen
  /\ \A i \in 1 .. Len(v) : SizedPoly(v[i])
  /\ FrameFits(EncodeVector(v))

\* A polynomial of the ring: one modulus, N coefficients.
RingPoly(p) == p.levels = 1 /\ p.n = N /\ Len(p.coeffs) = N

RingVector(v) == \A i \in 1 .. Len(v) : RingPoly(v[i])

RingKey(gk) ==
  RingVector(gk.BTilde) /\ \A i \in 1 .. Len(gk.A) : RingVector(gk.A[i])

RingSignature(sig) ==
  RingPoly(sig.C) /\ RingVector(sig.Z) /\ RingVector(sig.Delta)

\* The key and what the group issued under it have the sizes and dimensions of
\* the parameter set, which are below the caps.
ASSUME IssuedAssumption ==
  /\ Key \in [A : Matrices, BTilde : Vectors]
  /\ Len(Key.A) <= MaxLatticeUintSliceLen
  /\ \A i \in 1 .. Len(Key.A) : SizedVector(Key.A[i])
  /\ FrameFits(EncodeMatrix(Key.A))
  /\ SizedVector(Key.BTilde) /\ Len(Key.BTilde) = M
  /\ RingKey(Key)
  /\ \A m \in Message :
       /\ Issued[m] \in [C : Polys, Z : Vectors, Delta : Vectors]
       /\ SizedPoly(Issued[m].C) /\ FrameFits(EncodePoly(Issued[m].C))
       /\ SizedVector(Issued[m].Z) /\ SizedVector(Issued[m].Delta)
       /\ Dimensions(Key.A, Issued[m])
       /\ RingSignature(Issued[m])

\* The same residues; no decoder asks for the smallest ones.
Congruent(p, o, q) ==
  \A i \in 1 .. N : p.coeffs[i] % q = o.coeffs[i] % q

\* The rest of VerifyWithSuite, as far as it reads: one polynomial of Z per
\* column of A and M of Delta.  C is compared by its residues, Z is multiplied
\* modulo Q, Delta is added modulo QNu.
Equations(m, sig) ==
  LET t == Issued[m] IN
  /\ Congruent(sig.C, t.C, Q)
  /\ \A i \in 1 .. Len(t.Z) : Congruent(sig.Z[i], t.Z[i], Q)
  /\ \A i \in 1 .. M : Congruent(sig.Delta[i], t.Delta[i], QNu)

\* Verify gets past nil arguments and the guard.
Computes(gk, sig) == gk # Nil /\ sig # Nil /\ Dimensions(gk.A, sig)

\* Verify may panic: the guard does not look at BTilde, and VectorPolyMul writes
\* one of M polynomials for each of BTilde's.  What the library does with a
\* polynomial of another ring is left open.
Panics(gk, sig) ==
  /\ Computes(gk, sig)
  /\ Len(gk.BTilde) > M \/ ~RingKey(gk) \/ ~RingSignature(sig)

\* Verify may answer true.  The key enters the hash byte for byte.
Accepts(gk, m, sig) ==
  /\ Computes(gk, sig)
  /\ gk = Key
  /\ RingSignature(sig) => Equations(m, sig)

\* Verify may answer false.  A Delta that is not reduced is added, and its norm
\* taken, as it stands: it may pass or not.
Refuses(gk, m, sig) ==
  \/ ~Computes(gk, sig)
  \/ /\ Len(gk.BTilde) <= M
     /\ ~ (/\ gk = Key
           /\ RingSignature(sig) /\ Equations(m, sig)
           /\ sig.Delta = Issued[m].Delta)

\* The answers Verify can give; none when it is sure to panic.
Verify(gk, m, sig) ==
  {ok \in BOOLEAN : IF ok THEN Accepts(gk, m, sig) ELSE Refuses(gk, m, sig)}

\* VerifyBytes.
VerifyBytes(gkBytes, m, sigBytes) ==
  Verify(UnmarshalGroupKey(gkBytes), m, UnmarshalSignature(sigBytes))

-----------------------------------------------------------------------------
(* What can happen to bytes under way.                                     *)

Encoded(m) ==
  [gk |-> MarshalGroupKey(Key), msg |-> m, sig |-> MarshalSignature(Issued[m])]

\* A body with a cell more, a cell less, a polynomial more, counted or not, a
\* modulus more, or one cell changed, to the same residue or to another.
AlteredBodies(b) ==
  {Append(b, 1), Front(b), b \o <<1, 1, 3>>}
    \cup {[b EXCEPT ![1] = @ + 1] \o e : e \in {<<1, 1, 3>>, << 3 >>}}
    \cup (UNION {{[b EXCEPT ![i] = @ + d] : i \in 1 .. Len(b)} :
                  d \in {1, Q, QNu}})

\* A frame with one body altered, cut short, extended, or under another header.
AlteredFrames(f, k) ==
  LET b == Bodies(f, f.magic, k) IN
  (UNION {{Frame(f.magic, [b EXCEPT ![j] = c]) : c \in AlteredBodies(b[j])} :
            j \in 1 .. k})
    \cup {[f EXCEPT !.cells = SubSeq(@, 1, i)] : i \in 0 .. Len(f.cells) - 1}
    \cup {[f EXCEPT !.cells = Append(@, 1)],
          [f EXCEPT !.magic = wireMagicSig],
          [f EXCEPT !.magic = wireMagicGroupKey],
          [f EXCEPT !.version = 2]}

\* The tuples an altered frame makes of m's.
AlteredTuples(m) ==
  LET e == Encoded(m) IN
  {[e EXCEPT !.sig = f] : f \in AlteredFrames(e.sig, 3)}
    \cup {[e EXCEPT !.gk = f] : f \in AlteredFrames(e.gk, 2)}
    \cup {[e EXCEPT !.msg = o] : o \in Message}

-----------------------------------------------------------------------------
Init ==
  /\ arrived = << >> /\ altered = FALSE
  /\ groupKeys = << >> /\ messages = << >> /\ sigs = << >>
  /\ pc = "idle"
  /\ jobs = << >> /\ closed = FALSE /\ next = 0
  /\ hand = [w \in Workers |-> 0] /\ running = {}
  /\ results = << >>
  /\ ret = [results |-> Nil, err |-> Nil, all |-> Nil]

\* A tuple arrives as it was sent.
Arrive(m) ==
  /\ pc = "idle" /\ Len(arrived) < MaxBatch
  /\ arrived' = Append(arrived, Encoded(m))
  /\ UNCHANGED <<altered, call, pc, pool, results, ret>>

\* A tuple arrives altered.
ArriveAltered(m) ==
  /\ pc = "idle" /\ Len(arrived) < MaxBatch
  /\ ~altered /\ altered' = TRUE
  /\ \E t \in AlteredTuples(m) : arrived' = Append(arrived, t)
  /\ UNCHANGED <<call, pc, pool, results, ret>>

\* What VerifyBatchAll makes of the answer of VerifyBatch.
VerifyBatchAll(res, err) ==
  err = Nil /\ (res # Nil => \A i \in DOMAIN res : res[i])

Answer(res, err) ==
  [results |-> res, err |-> err, all |-> VerifyBatchAll(res, err)]

\* Mutant: the pool has one goroutine fewer than it may have.
PoolSize_Short(n) == (IF GOMAXPROCS > n THEN n ELSE GOMAXPROCS) - 1

\* The number of goroutines.
PoolSize(n) == IF GOMAXPROCS > n THEN n ELSE GOMAXPROCS

\* VerifyBatch is called with what arrived, a nil for what did not parse; the
\* caller may have kept the k first keys only.
Call(k) ==
  LET n == Len(arrived) IN
  /\ pc = "idle"
  /\ sigs' = [i \in 1 .. n |-> UnmarshalSignature(arrived[i].sig)]
  /\ messages' = [i \in 1 .. n |-> arrived[i].msg]
  /\ groupKeys' = [i \in 1 .. k |-> UnmarshalGroupKey(arrived[i].gk)]
  /\ IF n # k \/ n = 0
       THEN /\ pc' = "returned"
            /\ ret' = Answer(Nil, IF n # k THEN ErrBatchSizeMismatch ELSE Nil)
            /\ UNCHANGED <<pool, results>>
       ELSE /\ pc' = "dispatch"
            /\ results' = [i \in 1 .. n |-> FALSE]
            /\ next' = 1
            /\ running' = 1 .. PoolSize(n)
            /\ UNCHANGED <<jobs, closed, hand, ret>>
  /\ UNCHANGED <<arrived, altered>>

\* jobs <- i; the buffer holds them all.
SendJob ==
  /\ pc = "dispatch" /\ next <= Len(sigs)
  /\ jobs' = Append(jobs, next)
  /\ next' = next + 1
  /\ UNCHANGED <<arrived, altered, call, pc, closed, hand, running, results,
                 ret>>

\* Mutant: the channel is never closed.
CloseJobs_Never ==
  /\ pc = "dispatch" /\ next > Len(sigs)
  /\ pc' = "wait"
  /\ UNCHANGED <<arrived, altered, call, pool, results, ret>>

\* close(jobs).
CloseJobs ==
  /\ pc = "dispatch" /\ next > Len(sigs)
  /\ closed' = TRUE
  /\ pc' = "wait"
  /\ UNCHANGED <<arrived, altered, call, jobs, next, hand, running, results,
                 ret>>

\* A goroutine receives an index.
TakeJob(w) ==
  /\ pc # "panicked"
  /\ w \in running /\ hand[w] = 0 /\ jobs # << >>
  /\ hand' = [hand EXCEPT ![w] = Head(jobs)]
  /\ jobs' = Tail(jobs)
  /\ UNCHANGED <<arrived, altered, call, pc, closed, next, running, results,
                 ret>>

\* results[i] = Verify(...).
Store(w) ==
  /\ pc # "panicked" /\ hand[w] # 0
  /\ LET i == hand[w] IN
       \E ok \in Verify(groupKeys[i], messages[i], sigs[i]) :
         results' = [results EXCEPT ![i] = ok]
  /\ hand' = [hand EXCEPT ![w] = 0]
  /\ UNCHANGED <<arrived, altered, call, pc, jobs, closed, next, running, ret>>

\* Verify panics in a goroutine: nothing recovers, the process dies.
Crash(w) ==
  /\ pc # "panicked" /\ hand[w] # 0
  /\ Panics(groupKeys[hand[w]], sigs[hand[w]])
  /\ pc' = "panicked"
  /\ UNCHANGED <<arrived, altered, call, pool, results, ret>>

\* The channel is closed and drained: wg.Done.
Exit(w) ==
  /\ pc # "panicked"
  /\ w \in running /\ hand[w] = 0 /\ jobs = << >> /\ closed
  /\ running' = running \ {w}
  /\ UNCHANGED <<arrived, altered, call, pc, jobs, closed, next, hand, results,
                 ret>>

\* wg.Wait is over.
Return ==
  /\ pc = "wait" /\ running = {}
  /\ pc' = "returned"
  /\ ret' = Answer(results, Nil)
  /\ UNCHANGED <<arrived, altered, call, pool, results>>

Work(w) == TakeJob(w) \/ Store(w) \/ Crash(w) \/ Exit(w)

Caller == SendJob \/ CloseJobs \/ Return

Next ==
  \/ \E m \in Message : Arrive(m) \/ ArriveAltered(m)
  \/ \E k \in 0 .. Len(arrived) : Call(k)
  \/ Caller
  \/ \E w \in Workers : Work(w)

\* The Go scheduler runs every goroutine that can run.
Fairness == WF_vars(Caller) /\ \A w \in Workers : WF_vars(Work(w))

Spec == Init /\ [][Next]_vars

FairSpec == Spec /\ Fairness

-----------------------------------------------------------------------------
(* Properties.                                                             *)

\* VerifyBatch, when it returns, says of each tuple what Verify can say of it:
\* no index is skipped, verified twice into another's place, or reported before
\* its goroutine stored the answer (verify_batch.go).
ResultsComplete ==
  pc = "returned" /\ ret.results # Nil =>
    /\ DOMAIN ret.results = DOMAIN sigs
    /\ \A i \in DOMAIN sigs :
         ret.results[i] \in Verify(groupKeys[i], messages[i], sigs[i])

\* What the encoders write for the group's key and for the signature issued for
\* the message is never refused.  A tuple is reported valid only if its key is
\* byte for byte the group's and its signature frame is the one encoding of
\* what was parsed, not one polynomial longer than what was issued and, within
\* the ring, congruent to it: the frame adds no second form to the one that
\* coefficients which are not reduced leave open (UnmarshalBinary, the walkers
\* of package wire, the dimension guard of VerifyWithSuite).
OnlyIssuedVerifies ==
  pc = "returned" /\ ret.results # Nil =>
    \A i \in DOMAIN ret.results :
      LET m == arrived[i].msg IN
      /\ arrived[i] = Encoded(m) => ret.results[i]
      /\ ret.results[i] =>
           /\ arrived[i].gk = MarshalGroupKey(Key)
           /\ arrived[i].sig = MarshalSignature(sigs[i])
           /\ Len(sigs[i].Z) = Len(Issued[m].Z)
           /\ Len(sigs[i].Delta) = Len(Issued[m].Delta)
           /\ RingSignature(sigs[i]) => Equations(m, sigs[i])

\* VerifyBatch returns (jobs is closed, every goroutine leaves its range loop,
\* wg.Wait ends), unless a tuple of the batch made Verify panic.
BatchReturns ==
  (pc = "dispatch") ~>
    \/ pc = "returned"
    \/ pc = "panicked" /\ \E i \in DOMAIN sigs : Panics(groupKeys[i], sigs[i])

\* "Rejection of any malformed input returns false" (threshold/wire.go): what
\* parsed, into polynomials of the ring, never makes Verify panic.
MalformedRefused ==
  pc = "panicked" =>
    \E i \in DOMAIN sigs :
      /\ groupKeys[i] # Nil /\ sigs[i] # Nil
      /\ ~RingKey(groupKeys[i]) \/ ~RingSignature(sigs[i])
=============================================================================
