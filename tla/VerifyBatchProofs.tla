------------------------- MODULE VerifyBatchProofs -------------------------
(***************************************************************************)
(* Proofs about VerifyBatch, for every pool and batch size and for every   *)
(* byte string: the walkers, the decoders and the encoders of WireFrames   *)
(* agree, so that one byte string only is verified for a message; and when *)
(* VerifyBatch returns, each place of its answer holds what Verify says of *)
(* the tuple at that place.                                                *)
(*                                                                         *)
(* A reader of values of V maps bytes to a value and the bytes it leaves.  *)
(* Faithful: what is read, written again, is what was read.  ReadsBack:    *)
(* what was written is read.  Both are shown for a polynomial and carried  *)
(* to vectors, matrices and frames by induction over the number of items.  *)
(***************************************************************************)
EXTENDS VerifyBatch, SequenceTheorems, WellFoundedInduction, TLAPS

-----------------------------------------------------------------------------
(* Induction, by the least counterexample, on sets rather than predicates. *)

\* A set that holds 0 and with each natural the next holds them all.
LEMMA NatSetInduction ==
  ASSUME NEW S, 0 \in S, \A i \in Nat : i \in S => i + 1 \in S
  PROVE  Nat \subseteq S
  <1> DEFINE R == OpToRel(<, Nat)
             T == Nat \ S
  <1> SUFFICES ASSUME T # {}
               PROVE  FALSE
    OBVIOUS
  <1>1. IsWellFoundedOn(R, Nat) /\ T \subseteq Nat
    BY NatLessThanWellFounded
  <1>2. PICK x \in T : \A y \in T : ~ (<<y, x>> \in R)
    <2> HIDE DEF R, T
    <2> QED
      BY <1>1, WFMin
  <1>3. x # 0 /\ x - 1 \in Nat /\ (x - 1) + 1 = x /\ x - 1 < x
    OBVIOUS
  <1>4. <<x - 1, x>> \in R
    BY <1>3 DEF OpToRel
  <1>5. x - 1 \in S
    BY <1>2, <1>3, <1>4
  <1> QED
    BY <1>3, <1>5

\* The same for the numbers up to k.
LEMMA UptoInduction ==
  ASSUME NEW k \in Nat, NEW S, 0 \in S,
         \A i \in 0 .. (k - 1) : i \in S => i + 1 \in S
  PROVE  0 .. k \subseteq S
  <1> DEFINE T == S \cup {i \in Nat : i > k}
  <1>1. 0 \in T
    OBVIOUS
  <1>2. \A i \in Nat : i \in T => i + 1 \in T
    OBVIOUS
  <1>3. Nat \subseteq T
    <2> HIDE DEF T
    <2> QED
      BY <1>1, <1>2, NatSetInduction
  <1> QED
    BY <1>3

-----------------------------------------------------------------------------
(* Readings in a row.                                                      *)

\* One more reading.
Step(walk, prev) == IF prev = Nil THEN Nil ELSE walk[prev]

\* r is what the readings leave.
IsRests(r, walk, b, k) ==
  r = [i \in 0 .. k |-> IF i = 0 THEN b ELSE Step(walk, r[i - 1])]

\* There is such a function.
LEMMA RestsExist ==
  ASSUME NEW walk, NEW b, NEW k \in Nat
  PROVE  \E r : IsRests(r, walk, b, k)
  <1> DEFINE S == {j \in Nat : \E r : IsRests(r, walk, b, j)}
  <1>1. 0 \in S
    <2>1. IsRests([i \in 0 .. 0 |-> b], walk, b, 0)
      BY DEF IsRests
    <2> QED
      BY <2>1
  <1>2. ASSUME NEW j \in Nat, j \in S
        PROVE  j + 1 \in S
    <2>1. PICK r : IsRests(r, walk, b, j)
      BY <1>2
    <2> DEFINE x == Step(walk, r[j])
               q == [i \in 0 .. (j + 1) |-> IF i = j + 1 THEN x ELSE r[i]]
    <2>2. \A i \in 0 .. j : r[i] = IF i = 0 THEN b ELSE Step(walk, r[i - 1])
      BY <2>1 DEF IsRests
    <2>3. ASSUME NEW i \in 0 .. (j + 1)
          PROVE  q[i] = IF i = 0 THEN b ELSE Step(walk, q[i - 1])
      <3>1. CASE i = j + 1
        <4>1. q[i] = x /\ q[i - 1] = r[j] /\ i # 0
          BY <3>1
        <4> QED
          BY <4>1
      <3>2. CASE i # j + 1
        <4>1. i \in 0 .. j /\ q[i] = r[i]
          BY <3>2
        <4>2. i # 0 => q[i - 1] = r[i - 1]
          BY <3>2
        <4> HIDE DEF q
        <4> QED
          BY <2>2, <4>1, <4>2
      <3> QED
        BY <3>1, <3>2
    <2>4. q = [i \in 0 .. (j + 1) |-> q[i]]
      OBVIOUS
    <2>5. IsRests(q, walk, b, j + 1)
      <3> HIDE DEF q
      <3> QED
        BY <2>3, <2>4 DEF IsRests
    <2> QED
      BY <2>5
  <1>3. Nat \subseteq S
    <2> HIDE DEF S
    <2> QED
      BY <1>1, <1>2, NatSetInduction
  <1> QED
    BY <1>3

\* Rests is that function.
LEMMA RestsSteps ==
  ASSUME NEW walk, NEW b, NEW k \in Nat
  PROVE  /\ Rests(walk, b, k)[0] = b
         /\ \A i \in 1 .. k :
              Rests(walk, b, k)[i] = Step(walk, Rests(walk, b, k)[i - 1])
  <1> DEFINE R == Rests(walk, b, k)
  <1>1. R = CHOOSE r : IsRests(r, walk, b, k)
    BY Zenon DEF Rests, IsRests, Step
  <1>2. IsRests(R, walk, b, k)
    <2> HIDE DEF R
    <2> QED
      BY <1>1, RestsExist
  <1>3. \A i \in 0 .. k : R[i] = IF i = 0 THEN b ELSE Step(walk, R[i - 1])
    <2> HIDE DEF R
    <2> QED
      BY <1>2 DEF IsRests
  <1> HIDE DEF R
  <1>4. R[0] = b /\ \A i \in 1 .. k : R[i] = Step(walk, R[i - 1])
    BY <1>3
  <1> QED
    BY <1>4 DEF R

\* When the last reading succeeds every one before it did.
LEMMA RestsCells ==
  ASSUME NEW walk \in [Cells -> Cells \cup {Nil}], NEW b \in Cells,
         NEW k \in Nat, Rests(walk, b, k)[k] # Nil
  PROVE  /\ \A i \in 0 .. k : Rests(walk, b, k)[i] \in Cells
         /\ \A i \in 1 .. k :
              Rests(walk, b, k)[i] = walk[Rests(walk, b, k)[i - 1]]
  <1> DEFINE R == Rests(walk, b, k)
             S == {i \in 0 .. k : R[i] \in Cells \cup {Nil}}
             D == {j \in 0 .. k : R[k - j] # Nil}
  <1>1. R[0] = b /\ \A i \in 1 .. k : R[i] = Step(walk, R[i - 1])
    BY RestsSteps
  <1>2. R[k] # Nil
    OBVIOUS
  <1> HIDE DEF R
  <1>3. 0 .. k \subseteq S
    <2>1. 0 \in S
      BY <1>1
    <2>2. ASSUME NEW i \in 0 .. (k - 1), i \in S
          PROVE  i + 1 \in S
      <3>1. i + 1 \in 1 .. k /\ (i + 1) - 1 = i /\ i + 1 \in 0 .. k
        OBVIOUS
      <3>2. R[i + 1] = Step(walk, R[i])
        BY <1>1, <3>1
      <3>3. R[i] \in Cells \cup {Nil}
        BY <2>2
      <3>4. R[i + 1] \in Cells \cup {Nil}
        BY <3>2, <3>3 DEF Step
      <3> QED
        BY <3>1, <3>4
    <2> HIDE DEF S
    <2> QED
      BY <2>1, <2>2, UptoInduction
  <1>4. 0 .. k \subseteq D
    <2>1. 0 \in D
      BY <1>2
    <2>2. ASSUME NEW j \in 0 .. (k - 1), j \in D
          PROVE  j + 1 \in D
      <3>1. k - j \in 1 .. k /\ (k - j) - 1 = k - (j + 1) /\ j + 1 \in 0 .. k
        OBVIOUS
      <3>2. R[k - j] = Step(walk, R[k - (j + 1)])
        BY <1>1, <3>1
      <3>3. R[k - j] # Nil
        BY <2>2
      <3>4. R[k - (j + 1)] # Nil
        BY <3>2, <3>3 DEF Step
      <3> QED
        BY <3>1, <3>4
    <2> HIDE DEF D
    <2> QED
      BY <2>1, <2>2, UptoInduction
  <1>5. ASSUME NEW i \in 0 .. k
        PROVE  R[i] # Nil /\ R[i] \in Cells
    <2>1. k - i \in 0 .. k /\ k - (k - i) = i
      OBVIOUS
    <2>2. R[k - (k - i)] # Nil
      BY <1>4, <2>1
    <2>3. R[i] # Nil
      BY <2>1, <2>2
    <2>4. R[i] \in Cells \cup {Nil}
      BY <1>3
    <2> QED
      BY <2>3, <2>4
  <1>6. ASSUME NEW i \in 1 .. k
        PROVE  R[i] = walk[R[i - 1]]
    <2>1. i - 1 \in 0 .. k
      OBVIOUS
    <2>2. R[i - 1] # Nil
      BY <1>5, <2>1
    <2> QED
      BY <1>1, <2>2 DEF Step
  <1> QED
    BY <1>5, <1>6 DEF R

-----------------------------------------------------------------------------
(* Concatenations.                                                         *)

\* No cells are cells.
LEMMA EmptyCells == << >> \in Cells
  BY DEF Cells

\* A common front can be dropped.
LEMMA ConcatCancel ==
  ASSUME NEW a \in Cells, NEW x \in Cells, NEW y \in Cells, a \o x = a \o y
  PROVE  x = y
  BY ConcatSimplifications, Zenon DEF Cells

\* Concatenation of cells is associative.
LEMMA CellsAssoc ==
  ASSUME NEW a \in Cells, NEW b \in Cells, NEW c \in Cells
  PROVE  (a \o b) \o c = a \o (b \o c) /\ a \o b \in Cells
  BY ConcatAssociative DEF Cells

\* b is p and then r.
Joins(b, p, r) == b = p \o r

\* What is next can move to the front.
LEMMA JoinsShift ==
  ASSUME NEW b, NEW p \in Cells, NEW r, NEW e \in Cells, NEW t \in Cells,
         NEW q, Joins(q, p, e), Joins(r, e, t)
  PROVE  Joins(b, p, r) <=> Joins(b, q, t)
  BY CellsAssoc DEF Joins

\* pre[i] is what the first i of seqs are together.
IsPrefixes(pre, seqs) ==
  /\ pre \in [0 .. Len(seqs) -> Cells]
  /\ pre[0] = << >>
  /\ \A i \in 1 .. Len(seqs) : pre[i] = pre[i - 1] \o seqs[i]
  /\ pre[Len(seqs)] = FlattenSeq(seqs)

\* f is the table FlattenSeq fills, up to k.
IsFlatten(f, seqs, k) ==
  f = [i \in 1 .. k |-> IF i = 1 THEN seqs[i] ELSE f[i - 1] \o seqs[i]]

\* There is such a table.
LEMMA FlattenExists ==
  ASSUME NEW seqs, NEW k \in Nat
  PROVE  \E f : IsFlatten(f, seqs, k)
  <1> DEFINE S == {j \in Nat : \E f : IsFlatten(f, seqs, j)}
  <1>1. 0 \in S
    <2>1. IsFlatten([i \in 1 .. 0 |-> 0], seqs, 0)
      BY DEF IsFlatten
    <2> QED
      BY <2>1
  <1>2. ASSUME NEW j \in Nat, j \in S
        PROVE  j + 1 \in S
    <2>1. PICK f : IsFlatten(f, seqs, j)
      BY <1>2
    <2> DEFINE x == IF j = 0 THEN seqs[1] ELSE f[j] \o seqs[j + 1]
               q == [i \in 1 .. (j + 1) |-> IF i = j + 1 THEN x ELSE f[i]]
    <2>2. \A i \in 1 .. j :
            f[i] = IF i = 1 THEN seqs[i] ELSE f[i - 1] \o seqs[i]
      BY <2>1 DEF IsFlatten
    <2>3. ASSUME NEW i \in 1 .. (j + 1)
          PROVE  q[i] = IF i = 1 THEN seqs[i] ELSE q[i - 1] \o seqs[i]
      <3>1. CASE i = j + 1
        <4>1. q[i] = x /\ (i # 1 => q[i - 1] = f[j]) /\ (i = 1 <=> j = 0)
          BY <3>1
        <4> HIDE DEF q
        <4> QED
          BY <3>1, <4>1
      <3>2. CASE i # j + 1
        <4>1. i \in 1 .. j /\ q[i] = f[i]
          BY <3>2
        <4>2. i # 1 => q[i - 1] = f[i - 1]
          BY <3>2
        <4> HIDE DEF q
        <4> QED
          BY <2>2, <4>1, <4>2
      <3> QED
        BY <3>1, <3>2
    <2>4. q = [i \in 1 .. (j + 1) |-> q[i]]
      OBVIOUS
    <2>5. IsFlatten(q, seqs, j + 1)
      <3> HIDE DEF q
      <3> QED
        BY <2>3, <2>4 DEF IsFlatten
    <2> QED
      BY <2>5
  <1>3. Nat \subseteq S
    <2> HIDE DEF S
    <2> QED
      BY <1>1, <1>2, NatSetInduction
  <1> QED
    BY <1>3

\* FlattenSeq concatenates from the left.
LEMMA FlattenPrefixes ==
  ASSUME NEW seqs \in Seq(Cells)
  PROVE  \E pre : IsPrefixes(pre, seqs)
  <1> DEFINE k == Len(seqs)
  <1>0. k \in Nat
    OBVIOUS
  <1>1. CASE k = 0
    <2>1. FlattenSeq(seqs) = seqs /\ seqs = << >>
      BY <1>1 DEF FlattenSeq
    <2>2. IsPrefixes([i \in 0 .. 0 |-> << >>], seqs)
      BY <1>1, <2>1 DEF IsPrefixes, Cells
    <2> QED
      BY <2>2
  <1>2. CASE k # 0
    <2> DEFINE F == CHOOSE f : IsFlatten(f, seqs, k)
    <2>1. FlattenSeq(seqs) = F[k]
      BY <1>2, Zenon DEF FlattenSeq, IsFlatten
    <2>2. IsFlatten(F, seqs, k)
      BY <1>0, FlattenExists
    <2>3. \A i \in 1 .. k : F[i] = IF i = 1 THEN seqs[i] ELSE F[i - 1] \o seqs[i]
      <3> HIDE DEF F
      <3> QED
        BY <2>2 DEF IsFlatten
    <2> HIDE DEF F
    <2> DEFINE pre == [i \in 0 .. k |-> IF i = 0 THEN << >> ELSE F[i]]
               S == {i \in 0 .. k : pre[i] \in Cells}
    <2>4. ASSUME NEW i \in 1 .. k
          PROVE  pre[i] = pre[i - 1] \o seqs[i] /\ seqs[i] \in Cells
      <3>1. seqs[i] \in Cells
        OBVIOUS
      <3>2. CASE i = 1
        <4>1. pre[1] = seqs[1] /\ pre[0] = << >>
          BY <2>3, <3>2
        <4>2. << >> \o seqs[1] = seqs[1]
          BY <3>1, <3>2, ConcatEmptySeq DEF Cells
        <4> HIDE DEF pre
        <4>3. pre[1] = pre[0] \o seqs[1]
          BY <4>1, <4>2, Zenon
        <4>4. i - 1 = 0
          BY <3>2
        <4> QED
          BY <3>1, <3>2, <4>3, <4>4, Zenon
      <3>3. CASE i # 1
        <4>1. pre[i] = F[i] /\ pre[i - 1] = F[i - 1]
          BY <3>3
        <4> HIDE DEF pre
        <4> QED
          BY <2>3, <3>1, <3>3, <4>1
      <3> QED
        BY <3>2, <3>3
    <2>5. pre[0] = << >> /\ DOMAIN pre = 0 .. k /\ pre[k] = FlattenSeq(seqs)
      BY <1>0, <1>2, <2>1
    <2>6. pre = [i \in 0 .. k |-> pre[i]]
      OBVIOUS
    <2> HIDE DEF pre
    <2>7. 0 .. k \subseteq S
      <3>1. 0 \in S
        BY <1>0, <2>5, EmptyCells
      <3>2. ASSUME NEW i \in 0 .. (k - 1), i \in S
            PROVE  i + 1 \in S
        <4>1. i + 1 \in 1 .. k /\ (i + 1) - 1 = i /\ i + 1 \in 0 .. k
          BY <1>0
        <4>2. pre[i + 1] = pre[i] \o seqs[i + 1] /\ seqs[i + 1] \in Cells
          BY <2>4, <4>1
        <4>3. pre[i] \in Cells
          BY <3>2
        <4>4. pre[i + 1] \in Cells
          BY <4>2, <4>3, CellsAssoc
        <4> QED
          BY <4>1, <4>4
      <3> HIDE DEF S
      <3> QED
        BY <1>0, <3>1, <3>2, UptoInduction
    <2>8. pre \in [0 .. k -> Cells]
      BY <2>6, <2>7
    <2> QED
      BY <2>4, <2>5, <2>8 DEF IsPrefixes
  <1> QED
    BY <1>1, <1>2

-----------------------------------------------------------------------------
(* Decoders.                                                               *)

\* dec reads values of V.
Reader(dec, V) == dec \in [Cells -> Read(V) \cup {Nil}] /\ Nil \notin Read(V)

\* What dec reads are the bytes enc writes.
Faithful(dec, enc) ==
  \A b \in Cells : dec[b] # Nil => b = enc[dec[b].value] \o dec[b].rest

\* walk passes over e.
Passes(walk, e) == \A c \in Cells : walk[e \o c] = c

\* dec reads v from e.
ReadsBack(dec, e, v) ==
  \A c \in Cells : dec[e \o c] = [value |-> v, rest |-> c]

\* Where walk succeeds, dec succeeds and stops at the same place.
Agree(walk, dec) == \A c \in Cells : walk[c] # Nil => Skip(dec)[c] = walk[c]

\* The table of the encodings of v.
Encs(enc, v) == [i \in 1 .. Len(v) |-> enc[v[i]]]

\* Skip leaves what dec leaves, and fails where dec fails.
LEMMA SkipFacts ==
  ASSUME NEW V, NEW dec, Reader(dec, V)
  PROVE  /\ Skip(dec) \in [Cells -> Cells \cup {Nil}]
         /\ \A c \in Cells : dec[c] = Nil => Skip(dec)[c] = Nil
         /\ \A c \in Cells : dec[c] # Nil =>
              /\ Skip(dec)[c] = dec[c].rest /\ dec[c].rest \in Cells
              /\ Skip(dec)[c] # Nil
              /\ dec[c].value \in V
  <1>1. ASSUME NEW c \in Cells, dec[c] # Nil
        PROVE  dec[c].value \in V /\ dec[c].rest \in Cells
    <2>1. dec[c] \in Read(V)
      BY <1>1 DEF Reader
    <2> QED
      BY <2>1 DEF Read
  <1>2. Skip(dec) = [c \in Cells |-> IF dec[c] = Nil THEN Nil ELSE dec[c].rest]
    BY DEF Skip
  <1>3. Nil \notin Cells
    BY NilAssumption
  <1>4. \A c \in Cells : Skip(dec)[c] = IF dec[c] = Nil THEN Nil ELSE dec[c].rest
    BY <1>2
  <1>5. \A c \in Cells : Skip(dec)[c] \in Cells \cup {Nil}
    BY <1>1, <1>4
  <1>6. Skip(dec) \in [Cells -> Cells \cup {Nil}]
    BY <1>2, <1>5
  <1> QED
    BY <1>1, <1>3, <1>4, <1>6

\* The encodings of values are cells.
LEMMA EncsType ==
  ASSUME NEW V, NEW enc \in [V -> Cells], NEW v \in Seq(V)
  PROVE  /\ Encs(enc, v) \in Seq(Cells) /\ Len(Encs(enc, v)) = Len(v)
         /\ \A i \in 1 .. Len(v) : Encs(enc, v)[i] = enc[v[i]]
  <1> DEFINE k == Len(v)
  <1>1. k \in Nat /\ \A i \in 1 .. k : v[i] \in V
    OBVIOUS
  <1>2. Encs(enc, v) = [i \in 1 .. k |-> enc[v[i]]]
    BY DEF Encs
  <1>3. Encs(enc, v) \in [1 .. k -> Cells]
    BY <1>1, <1>2
  <1> HIDE DEF k
  <1>4. Encs(enc, v) \in Seq(Cells) /\ Len(Encs(enc, v)) = k
    BY <1>1, <1>3
  <1> QED
    BY <1>2, <1>4 DEF k

\* What k readings in a row read is the concatenation of the encodings of the
\* values they return.
LEMMA ReadSeqFaithful ==
  ASSUME NEW V, NEW dec, Reader(dec, V), NEW enc \in [V -> Cells],
         Faithful(dec, enc), NEW b \in Cells, NEW k \in Nat,
         NEW r, r = ReadSeq(b, dec, k), r # Nil
  PROVE  /\ r.value \in Seq(V) /\ Len(r.value) = k /\ r.rest \in Cells
         /\ r \in Read(Seq(V))
         /\ r.rest = Rests(Skip(dec), b, k)[k]
         /\ Joins(b, FlattenSeq(Encs(enc, r.value)), r.rest)
  <1> DEFINE R == Rests(Skip(dec), b, k)
             v == [i \in 1 .. k |-> dec[R[i - 1]].value]
  <1>0. Skip(dec) \in [Cells -> Cells \cup {Nil}]
    BY SkipFacts
  <1>1. R[k] # Nil /\ r = [value |-> v, rest |-> R[k]]
    BY DEF ReadSeq
  <1>2. R[0] = b
    BY RestsSteps
  <1>3. /\ \A i \in 0 .. k : R[i] \in Cells
        /\ \A i \in 1 .. k : R[i] = Skip(dec)[R[i - 1]]
    BY <1>0, <1>1, RestsCells
  <1> HIDE DEF R
  <1>4. ASSUME NEW i \in 1 .. k
        PROVE  /\ v[i] \in V /\ v[i] = dec[R[i - 1]].value
               /\ enc[v[i]] \in Cells
               /\ R[i - 1] = enc[v[i]] \o R[i]
    <2>1. R[i - 1] \in Cells /\ R[i] \in Cells /\ R[i] = Skip(dec)[R[i - 1]]
      BY <1>3
    <2>2. ASSUME NEW c \in Cells, Skip(dec)[c] \in Cells
          PROVE  /\ dec[c].value \in V
                 /\ c = enc[dec[c].value] \o Skip(dec)[c]
      <3>1. dec[c] # Nil
        BY <2>2, SkipFacts, NilAssumption
      <3>2. dec[c].value \in V /\ Skip(dec)[c] = dec[c].rest
        BY <3>1, SkipFacts
      <3> QED
        BY <3>1, <3>2 DEF Faithful
    <2>3. dec[R[i - 1]].value \in V
      BY <2>1, <2>2
    <2>4. R[i - 1] = enc[dec[R[i - 1]].value] \o R[i]
      BY <2>1, <2>2
    <2>5. v[i] = dec[R[i - 1]].value
      OBVIOUS
    <2> QED
      BY <2>3, <2>4, <2>5
  <1>5. v \in Seq(V) /\ Len(v) = k
    <2>1. v \in [1 .. k -> V]
      BY <1>4
    <2> HIDE DEF v
    <2> QED
      BY <2>1
  <1> HIDE DEF v
  <1> DEFINE es == Encs(enc, v)
  <1>6. es \in Seq(Cells) /\ Len(es) = k /\ \A i \in 1 .. k : es[i] = enc[v[i]]
    BY <1>5, EncsType
  <1> HIDE DEF es
  <1>7. PICK pre : IsPrefixes(pre, es)
    BY <1>6, FlattenPrefixes
  <1>8. /\ pre \in [0 .. k -> Cells] /\ pre[0] = << >>
        /\ \A i \in 1 .. k : pre[i] = pre[i - 1] \o es[i]
        /\ pre[k] = FlattenSeq(es)
    BY <1>6, <1>7 DEF IsPrefixes
  <1> DEFINE S == {i \in 0 .. k : Joins(b, pre[i], R[i])}
  <1>9. 0 .. k \subseteq S
    <2>1. 0 \in S
      <3>1. << >> \o b = b
        BY ConcatEmptySeq DEF Cells
      <3>2. Joins(b, pre[0], R[0])
        BY <1>2, <1>8, <3>1, Zenon DEF Joins
      <3> QED
        BY <3>2
    <2>2. ASSUME NEW i \in 0 .. (k - 1), i \in S
          PROVE  i + 1 \in S
      <3>1. i + 1 \in 1 .. k /\ (i + 1) - 1 = i /\ i + 1 \in 0 .. k
        OBVIOUS
      <3>2. Joins(b, pre[i], R[i])
        BY <2>2
      <3>7. es[i + 1] \in Cells /\ R[i + 1] \in Cells /\ pre[i] \in Cells
        BY <1>3, <1>6, <1>8, <3>1
      <3>8. pre[i + 1] = pre[(i + 1) - 1] \o es[i + 1]
        BY <1>8, <3>1, Zenon
      <3>3. Joins(pre[i + 1], pre[i], es[i + 1])
        BY <3>1, <3>8 DEF Joins
      <3>4. R[(i + 1) - 1] = enc[v[i + 1]] \o R[i + 1] /\ es[i + 1] = enc[v[i + 1]]
        BY <1>4, <1>6, <3>1
      <3>5. Joins(R[i], es[i + 1], R[i + 1])
        BY <3>1, <3>4 DEF Joins
      <3>6. Joins(b, pre[i + 1], R[i + 1])
        BY <3>2, <3>3, <3>5, <3>7, JoinsShift
      <3> QED
        BY <3>1, <3>6
    <2> HIDE DEF S
    <2> QED
      BY <2>1, <2>2, UptoInduction
  <1>10. b = FlattenSeq(es) \o R[k]
    <2>1. Joins(b, pre[k], R[k])
      BY <1>9
    <2> QED
      BY <1>8, <2>1, Zenon DEF Joins
  <1> DEFINE x == R[k]
  <1>11. x \in Cells /\ r = [value |-> v, rest |-> x]
    BY <1>1, <1>3
  <1> HIDE DEF x
  <1>12. r.value = v /\ r.rest = x
    BY <1>11
  <1>13. /\ Joins(b, FlattenSeq(Encs(enc, v)), x)
         /\ x = Rests(Skip(dec), b, k)[k]
    BY <1>10 DEF x, es, R, Joins
  <1> QED
    BY <1>5, <1>11, <1>12, <1>13 DEF Read

\* Each of seqs is passed by walk.
PassesAll(walk, seqs) ==
  \A i \in 1 .. Len(seqs) : Passes(walk, seqs[i])

\* A walk that passes each of some encodings passes them in a row, leaving at
\* each place the encodings not yet passed.
LEMMA RestsOfFlatten ==
  ASSUME NEW walk, NEW es \in Seq(Cells), PassesAll(walk, es), NEW r \in Cells
  PROVE  LET R == Rests(walk, FlattenSeq(es) \o r, Len(es)) IN
         /\ R[Len(es)] = r
         /\ \A i \in 0 .. Len(es) : R[i] \in Cells
         /\ \A i \in 1 .. Len(es) : Joins(R[i - 1], es[i], R[i])
  <1> DEFINE k == Len(es)
             d == FlattenSeq(es) \o r
             R == Rests(walk, d, k)
  <1>0. k \in Nat /\ \A i \in 1 .. k : es[i] \in Cells
    OBVIOUS
  <1>1. PICK pre : IsPrefixes(pre, es)
    BY FlattenPrefixes
  <1>2. /\ pre \in [0 .. k -> Cells] /\ pre[0] = << >>
        /\ \A i \in 1 .. k : Joins(pre[i], pre[i - 1], es[i])
        /\ pre[k] = FlattenSeq(es)
    BY <1>1 DEF IsPrefixes, Joins
  <1>3. d \in Cells /\ Joins(d, pre[k], r)
    BY <1>0, <1>2, CellsAssoc DEF Joins
  <1>5. \A i \in 1 .. k : Passes(walk, es[i])
    BY DEF PassesAll
  <1> HIDE DEF d, k
  <1>4. R[0] = d /\ \A i \in 1 .. k : R[i] = Step(walk, R[i - 1])
    BY <1>0, RestsSteps
  <1> HIDE DEF R
  <1> DEFINE P == {j \in 0 .. k : \E c \in Cells : Joins(d, pre[k - j], c)}
  <1>6. 0 .. k \subseteq P
    <2>1. 0 \in P
      BY <1>0, <1>3
    <2>2. ASSUME NEW j \in 0 .. (k - 1), j \in P
          PROVE  j + 1 \in P
      <3>1. /\ k - j \in 1 .. k /\ (k - j) - 1 = k - (j + 1)
            /\ j + 1 \in 0 .. k /\ k - (j + 1) \in 0 .. k
        BY <1>0
      <3>2. PICK c \in Cells : Joins(d, pre[k - j], c)
        BY <2>2
      <3>3. Joins(pre[k - j], pre[k - (j + 1)], es[k - j])
        BY <1>2, <3>1
      <3>4. pre[k - (j + 1)] \in Cells /\ es[k - j] \in Cells
        BY <1>0, <1>2, <3>1
      <3> DEFINE t == es[k - j] \o c
      <3>5. t \in Cells /\ Joins(t, es[k - j], c)
        BY <3>4, CellsAssoc DEF Joins
      <3> HIDE DEF t
      <3>6. Joins(d, pre[k - (j + 1)], t)
        BY <3>2, <3>3, <3>4, <3>5, JoinsShift
      <3> QED
        BY <3>1, <3>5, <3>6
    <2> HIDE DEF P
    <2> QED
      BY <1>0, <2>1, <2>2, UptoInduction
  <1>7. ASSUME NEW i \in 0 .. k
        PROVE  \E c \in Cells : Joins(d, pre[i], c)
    <2>1. k - i \in 0 .. k /\ k - (k - i) = i
      BY <1>0
    <2>2. k - i \in P
      BY <1>6, <2>1
    <2> QED
      BY <2>1, <2>2
  <1> HIDE DEF P
  \* one more place
  <1>8. ASSUME NEW i \in 0 .. (k - 1), R[i] \in Cells, Joins(d, pre[i], R[i])
        PROVE  /\ R[i + 1] \in Cells /\ Joins(d, pre[i + 1], R[i + 1])
               /\ Joins(R[i], es[i + 1], R[i + 1])
    <2>1. i + 1 \in 1 .. k /\ (i + 1) - 1 = i /\ i + 1 \in 0 .. k /\ i \in 0 .. k
      BY <1>0
    <2>2. PICK c \in Cells : Joins(d, pre[i + 1], c)
      BY <1>7, <2>1
    <2>3. /\ Joins(pre[i + 1], pre[i], es[i + 1])
          /\ pre[i] \in Cells /\ es[i + 1] \in Cells
      BY <1>0, <1>2, <2>1
    <2> DEFINE t == es[i + 1] \o c
    <2>4. t \in Cells /\ Joins(t, es[i + 1], c)
      BY <2>3, CellsAssoc DEF Joins
    <2>5. walk[t] = c
      BY <1>5, <2>1 DEF Passes
    <2> HIDE DEF t
    <2>6. Joins(d, pre[i], t)
      BY <2>2, <2>3, <2>4, JoinsShift
    <2>7. R[i] = t
      <3>1. pre[i] \o R[i] = pre[i] \o t
        BY <1>8, <2>6, Zenon DEF Joins
      <3> QED
        BY <1>8, <2>3, <2>4, <3>1, ConcatCancel
    <2>8. R[i + 1] = c
      <3>1. R[i + 1] = Step(walk, R[i])
        BY <1>4, <2>1
      <3>2. R[i] # Nil
        BY <1>8, NilAssumption
      <3> QED
        BY <2>5, <2>7, <3>1, <3>2 DEF Step
    <2> QED
      BY <2>2, <2>4, <2>7, <2>8
  <1> DEFINE S == {i \in 0 .. k : R[i] \in Cells /\ Joins(d, pre[i], R[i])}
  <1>9. 0 .. k \subseteq S
    <2>1. 0 \in S
      <3>1. << >> \o d = d
        BY <1>3, ConcatEmptySeq DEF Cells
      <3>2. Joins(d, pre[0], R[0])
        BY <1>2, <1>4, <3>1, Zenon DEF Joins
      <3> QED
        BY <1>0, <1>3, <1>4, <3>2
    <2>2. ASSUME NEW i \in 0 .. (k - 1), i \in S
          PROVE  i + 1 \in S
      <3>1. i + 1 \in 0 .. k
        BY <1>0
      <3> QED
        BY <1>8, <2>2, <3>1
    <2> HIDE DEF S
    <2> QED
      BY <1>0, <2>1, <2>2, UptoInduction
  <1>10. \A i \in 0 .. k : R[i] \in Cells
    BY <1>9
  <1>11. ASSUME NEW i \in 1 .. k
         PROVE  Joins(R[i - 1], es[i], R[i])
    <2>1. i - 1 \in 0 .. (k - 1) /\ i - 1 \in 0 .. k /\ (i - 1) + 1 = i
      BY <1>0
    <2>2. i - 1 \in S
      BY <1>9, <2>1
    <2>3. R[i - 1] \in Cells /\ Joins(d, pre[i - 1], R[i - 1])
      BY <2>2
    <2>4. Joins(R[i - 1], es[(i - 1) + 1], R[(i - 1) + 1])
      BY <1>8, <2>1, <2>3
    <2> QED
      BY <2>1, <2>4
  <1>12. R[k] = r
    <2>1. k \in 0 .. k
      BY <1>0
    <2>2. Joins(d, pre[k], R[k]) /\ R[k] \in Cells /\ pre[k] \in Cells
      BY <1>2, <1>9, <2>1
    <2>3. pre[k] \o R[k] = pre[k] \o r
      BY <1>3, <2>2, Zenon DEF Joins
    <2> QED
      BY <2>2, <2>3, ConcatCancel
  <1> QED
    BY <1>10, <1>11, <1>12 DEF R, d, k

\* Each of v is read back from its encoding.
ReadsBackAll(dec, enc, v) ==
  \A i \in 1 .. Len(v) : ReadsBack(dec, enc[v[i]], v[i])

\* A decoder that reads each of some values back from its encoding reads them
\* all back from their encodings in a row.
LEMMA ReadSeqBack ==
  ASSUME NEW V, NEW dec, Reader(dec, V), NEW enc \in [V -> Cells],
         NEW v \in Seq(V), ReadsBackAll(dec, enc, v), NEW r \in Cells
  PROVE  ReadSeq(FlattenSeq(Encs(enc, v)) \o r, dec, Len(v)) =
           [value |-> v, rest |-> r]
  <1> DEFINE k == Len(v)
             es == Encs(enc, v)
             d == FlattenSeq(es) \o r
             R == Rests(Skip(dec), d, k)
  <1>1. /\ es \in Seq(Cells) /\ Len(es) = k /\ k \in Nat
        /\ \A i \in 1 .. k : es[i] = enc[v[i]] /\ es[i] \in Cells /\ v[i] \in V
    BY EncsType
  <1>2. ASSUME NEW i \in 1 .. k, NEW c \in Cells
        PROVE  /\ es[i] \o c \in Cells
               /\ dec[es[i] \o c] = [value |-> v[i], rest |-> c]
    <2>1. es[i] \o c \in Cells
      BY <1>1, CellsAssoc
    <2>2. ReadsBack(dec, enc[v[i]], v[i])
      BY DEF ReadsBackAll
    <2> QED
      BY <1>1, <2>1, <2>2 DEF ReadsBack
  <1> HIDE DEF k, es, R
  <1>3. PassesAll(Skip(dec), es)
    <2>1. ASSUME NEW i \in 1 .. k, NEW c \in Cells
          PROVE  Skip(dec)[es[i] \o c] = c
      <3> DEFINE t == es[i] \o c
                 x == v[i]
      <3>1. t \in Cells /\ dec[t] = [value |-> x, rest |-> c] /\ x \in V
        BY <1>1, <1>2
      <3> HIDE DEF t, x
      <3>2. [value |-> x, rest |-> c] \in Read(V)
        BY <3>1 DEF Read
      <3>3. dec[t] # Nil
        BY <3>1, <3>2 DEF Reader
      <3>4. Skip(dec)[t] = dec[t].rest
        BY <3>1, <3>3, SkipFacts
      <3>5. Skip(dec)[t] = c
        BY <3>1, <3>4
      <3> QED
        BY <3>5 DEF t
    <2> QED
      BY <1>1, <2>1 DEF PassesAll, Passes
  <1>4. /\ R[k] = r
        /\ \A i \in 0 .. k : R[i] \in Cells
        /\ \A i \in 1 .. k : Joins(R[i - 1], es[i], R[i])
    BY <1>1, <1>3, RestsOfFlatten DEF R
  <1>5. ASSUME NEW i \in 1 .. k
        PROVE  dec[R[i - 1]].value = v[i]
    <2> DEFINE x == v[i]
               t == R[i]
    <2>1. t \in Cells /\ R[i - 1] = es[i] \o t
      <3>1. i \in 0 .. k /\ Joins(R[i - 1], es[i], t)
        BY <1>1, <1>4
      <3> QED
        BY <1>4, <3>1 DEF Joins
    <2>2. dec[R[i - 1]] = [value |-> x, rest |-> t]
      BY <1>2, <2>1
    <2> HIDE DEF x, t
    <2>3. dec[R[i - 1]].value = x
      BY <2>2
    <2> QED
      BY <2>3 DEF x
  <1>6. [i \in 1 .. k |-> dec[R[i - 1]].value] = v
    <2> DEFINE f == [i \in 1 .. k |-> dec[R[i - 1]].value]
    <2>1. f \in [1 .. k -> V] /\ \A i \in 1 .. k : f[i] = v[i]
      BY <1>1, <1>5
    <2> HIDE DEF f
    <2>2. f \in Seq(V) /\ Len(f) = k
      BY <1>1, <2>1
    <2>3. f = v
      BY <2>1, <2>2, SeqEqual DEF k
    <2> QED
      BY <2>3 DEF f
  <1>7. R[k] # Nil
    BY <1>4, NilAssumption
  <1>8. ReadSeq(d, dec, k) =
          [value |-> [i \in 1 .. k |-> dec[R[i - 1]].value], rest |-> R[k]]
    BY <1>7, Zenon DEF ReadSeq, R
  <1>9. ReadSeq(d, dec, k) = [value |-> v, rest |-> r]
    BY <1>4, <1>6, <1>8, Zenon
  <1> QED
    BY <1>9 DEF k, es

\* Where the walker succeeds k times in a row the decoder does, and both stop at
\* the same place.
LEMMA RestsAgree ==
  ASSUME NEW V, NEW dec, Reader(dec, V),
         NEW walk \in [Cells -> Cells \cup {Nil}], Agree(walk, dec),
         NEW b \in Cells, NEW k \in Nat, Rests(walk, b, k)[k] # Nil
  PROVE  Rests(Skip(dec), b, k)[k] = Rests(walk, b, k)[k]
  <1> DEFINE W == Rests(walk, b, k)
             R == Rests(Skip(dec), b, k)
             S == {i \in 0 .. k : R[i] = W[i]}
  <1>1. /\ \A i \in 0 .. k : W[i] \in Cells
        /\ \A i \in 1 .. k : W[i] = walk[W[i - 1]]
    BY RestsCells
  <1>2. W[0] = b
    BY RestsSteps
  <1>3. R[0] = b /\ \A i \in 1 .. k : R[i] = Step(Skip(dec), R[i - 1])
    BY RestsSteps
  <1> HIDE DEF W, R
  <1>4. 0 .. k \subseteq S
    <2>1. 0 \in S
      BY <1>2, <1>3
    <2>2. ASSUME NEW i \in 0 .. (k - 1), i \in S
          PROVE  i + 1 \in S
      <3>1. i + 1 \in 1 .. k /\ (i + 1) - 1 = i /\ i + 1 \in 0 .. k /\ i \in 0 .. k
        OBVIOUS
      <3>2. /\ W[i] \in Cells /\ W[i + 1] \in Cells /\ W[i + 1] = walk[W[i]]
            /\ R[i + 1] = Step(Skip(dec), R[i]) /\ R[i] = W[i]
        BY <1>1, <1>3, <2>2, <3>1
      <3>3. W[i] # Nil /\ walk[W[i]] # Nil
        BY <3>2, NilAssumption
      <3>4. Skip(dec)[W[i]] = walk[W[i]]
        BY <3>2, <3>3 DEF Agree
      <3>5. R[i + 1] = W[i + 1]
        BY <3>2, <3>3, <3>4 DEF Step
      <3> QED
        BY <3>1, <3>5
    <2> HIDE DEF S
    <2> QED
      BY <2>1, <2>2, UptoInduction
  <1> QED
    BY <1>4 DEF W, R

-----------------------------------------------------------------------------
(* Counts.                                                                 *)

\* A cell in front of cells.
LEMMA ConsCells ==
  ASSUME NEW x \in Nat, NEW c \in Cells
  PROVE  /\ <<x>> \in Cells /\ <<x>> \o c \in Cells /\ <<x>> \o c # << >>
         /\ Head(<<x>> \o c) = x /\ Tail(<<x>> \o c) = c
         /\ Len(<<x>> \o c) = Len(c) + 1 /\ Len(c) \in Nat
  <1>1. <<x>> \in Cells
    BY DEF Cells
  <1> DEFINE s == <<x>> \o c
  <1>2. /\ s \in Seq(Nat) /\ Len(s) = Len(c) + 1 /\ Len(c) \in Nat
        /\ s[1] = x /\ \A i \in 1 .. Len(c) : s[i + 1] = c[i]
    BY DEF Cells
  <1> HIDE DEF s
  <1>3. s # << >> /\ Head(s) = x
    BY <1>2
  <1>4. /\ Tail(s) \in Seq(Nat) /\ Len(Tail(s)) = Len(c)
        /\ \A i \in 1 .. Len(Tail(s)) : Tail(s)[i] = s[i + 1]
    BY <1>2, <1>3, HeadTailProperties
  <1>5. Tail(s) = c
    BY <1>2, <1>4, SeqEqual DEF Cells
  <1> QED
    BY <1>1, <1>2, <1>3, <1>5, Zenon DEF s, Cells

\* Cells that are not empty are a cell in front of cells.
LEMMA UnconsCells ==
  ASSUME NEW b \in Cells, b # << >>
  PROVE  /\ Head(b) \in Nat /\ Tail(b) \in Cells /\ Len(b) = Len(Tail(b)) + 1
         /\ Len(Tail(b)) \in Nat
         /\ b = <<Head(b)>> \o Tail(b) /\ Head(b) = b[1]
  <1> DEFINE h == Head(b)
             t == Tail(b)
  <1>1. h \in Nat /\ t \in Cells /\ Len(b) = Len(t) + 1 /\ Len(t) \in Nat
    BY HeadTailProperties DEF Cells
  <1>2. /\ h = b[1] /\ \A i \in 1 .. Len(t) : t[i] = b[i + 1]
    BY HeadTailProperties DEF Cells
  <1> HIDE DEF h, t
  <1> DEFINE s == <<h>> \o t
  <1>3. /\ s \in Seq(Nat) /\ Len(s) = Len(t) + 1
        /\ s[1] = h /\ \A i \in 1 .. Len(t) : s[i + 1] = t[i]
    BY <1>1 DEF Cells
  <1> HIDE DEF s
  <1>4. ASSUME NEW i \in 1 .. Len(b)
        PROVE  b[i] = s[i]
    <2>1. CASE i = 1
      BY <1>2, <1>3, <2>1
    <2>2. CASE i # 1
      <3>1. i - 1 \in 1 .. Len(t) /\ (i - 1) + 1 = i
        BY <1>1, <2>2
      <3>2. t[i - 1] = b[(i - 1) + 1] /\ s[(i - 1) + 1] = t[i - 1]
        BY <1>2, <1>3, <3>1
      <3> QED
        BY <3>1, <3>2
    <2> QED
      BY <2>1, <2>2
  <1>5. b = s
    BY <1>1, <1>3, <1>4, SeqEqual DEF Cells
  <1> QED
    BY <1>1, <1>2, <1>5 DEF h, t, s

\* A count that takeCount accepts is the first cell.
LEMMA TakeCountFacts ==
  ASSUME NEW b \in Cells, TakeCount(b) # Nil
  PROVE  /\ b # << >> /\ TakeCount(b).value = Head(b)
         /\ TakeCount(b).rest = Tail(b) /\ Head(b) <= MaxLatticeUintSliceLen
  <1>1. /\ b # << >> /\ ~ (Head(b) > MaxLatticeUintSliceLen)
        /\ TakeCount(b) = [value |-> Head(b), rest |-> Tail(b)]
    BY DEF TakeCount
  <1>2. Head(b) \in Nat
    BY <1>1, UnconsCells
  <1> DEFINE h == Head(b)
             t == Tail(b)
  <1>3. TakeCount(b) = [value |-> h, rest |-> t]
    BY <1>1
  <1>4. h <= MaxLatticeUintSliceLen
    BY <1>1, <1>2, WireAssumption
  <1> HIDE DEF h, t
  <1>5. TakeCount(b).value = h /\ TakeCount(b).rest = t
    BY <1>3
  <1> QED
    BY <1>1, <1>4, <1>5 DEF h, t

\* takeCount accepts a count that is small enough.
LEMMA TakeCountBack ==
  ASSUME NEW x \in Nat, NEW c \in Cells, x <= 8 * Len(c),
         x <= MaxLatticeUintSliceLen
  PROVE  /\ TakeCount(<<x>> \o c) = [value |-> x, rest |-> c]
         /\ TakeCount(<<x>> \o c) # Nil
  <1> DEFINE s == <<x>> \o c
  <1>0. /\ s # << >> /\ Head(s) = x /\ Tail(s) = c /\ Len(c) \in Nat
        /\ Len(s) = Len(c) + 1
    BY ConsCells, Zenon
  <1> HIDE DEF s
  <1>1. /\ ~ (x > 8 * (Len(s) - 1)) /\ ~ (x > MaxLatticeUintSliceLen)
    BY <1>0, WireAssumption
  <1>2. TakeCount(s) = [value |-> x, rest |-> c]
    BY <1>0, <1>1, Zenon DEF TakeCount, CellBytes
  <1>3. [value |-> x, rest |-> c] \in Read(Nat)
    BY DEF Read
  <1>4. TakeCount(s) # Nil
    BY <1>2, <1>3, NilAssumption
  <1> QED
    BY <1>2, <1>4 DEF s

-----------------------------------------------------------------------------
(* A count and that many values.                                           *)

\* WalkMany is a walker.
LEMMA WalkManyType ==
  ASSUME NEW walk \in [Cells -> Cells \cup {Nil}], NEW b \in Cells
  PROVE  WalkMany(b, walk) \in Cells \cup {Nil}
  <1>1. CASE TakeCount(b) = Nil
    BY <1>1 DEF WalkMany
  <1>2. CASE TakeCount(b) # Nil
    <2> DEFINE x == TakeCount(b).value
               t == TakeCount(b).rest
    <2>1. x \in Nat /\ t \in Cells
      BY <1>2, TakeCountFacts, UnconsCells
    <2>2. WalkMany(b, walk) = Rests(walk, t, x)[x]
      BY <1>2 DEF WalkMany
    <2> HIDE DEF x, t
    <2>3. x \in 0 .. x
      BY <2>1
    <2>4. Rests(walk, t, x)[x] # Nil => Rests(walk, t, x)[x] \in Cells
      BY <2>1, <2>3, RestsCells
    <2> QED
      BY <2>2, <2>4
  <1> QED
    BY <1>1, <1>2

\* Where the walker of many succeeds the decoder of many does, and both stop at
\* the same place.
LEMMA ManyAgree ==
  ASSUME NEW V, NEW dec, Reader(dec, V),
         NEW walk \in [Cells -> Cells \cup {Nil}], Agree(walk, dec),
         NEW b \in Cells, WalkMany(b, walk) # Nil, Nil \notin Read(Seq(V)),
         NEW enc \in [V -> Cells], Faithful(dec, enc)
  PROVE  DecodeMany(b, dec) # Nil /\ DecodeMany(b, dec).rest = WalkMany(b, walk)
  <1>1. TakeCount(b) # Nil
    BY DEF WalkMany
  <1> DEFINE x == Head(b)
             t == Tail(b)
  <1>2. /\ b # << >> /\ x \in Nat /\ t \in Cells
        /\ TakeCount(b).value = x /\ TakeCount(b).rest = t
    BY <1>1, TakeCountFacts, UnconsCells
  <1>3. WalkMany(b, walk) = Rests(walk, t, x)[x]
    BY <1>1, <1>2 DEF WalkMany
  <1>4. DecodeMany(b, dec) = ReadSeq(t, dec, x)
    BY <1>2 DEF DecodeMany
  <1> HIDE DEF x, t
  <1>5. Rests(Skip(dec), t, x)[x] = Rests(walk, t, x)[x]
    BY <1>2, <1>3, RestsAgree
  <1> DEFINE R == Rests(Skip(dec), t, x)
             v == [i \in 1 .. x |-> dec[R[i - 1]].value]
             y == R[x]
  <1>6. y # Nil /\ y = WalkMany(b, walk)
    BY <1>3, <1>5
  <1>7. ReadSeq(t, dec, x) = [value |-> v, rest |-> y]
    BY <1>6 DEF ReadSeq
  <1>8. Skip(dec) \in [Cells -> Cells \cup {Nil}]
    BY SkipFacts
  <1>9. /\ \A i \in 0 .. x : R[i] \in Cells
        /\ \A i \in 1 .. x : R[i] = Skip(dec)[R[i - 1]]
    BY <1>2, <1>6, <1>8, RestsCells
  <1> HIDE DEF R
  <1>10. ASSUME NEW i \in 1 .. x
         PROVE  dec[R[i - 1]].value \in V
    <2>1. ASSUME NEW c \in Cells, Skip(dec)[c] \in Cells
          PROVE  dec[c].value \in V
      <3>1. dec[c] # Nil
        BY <2>1, SkipFacts, NilAssumption
      <3> QED
        BY <3>1, SkipFacts
    <2>2. R[i - 1] \in Cells /\ Skip(dec)[R[i - 1]] \in Cells
      BY <1>2, <1>9
    <2> QED
      BY <2>1, <2>2
  <1>11. v \in Seq(V)
    <2>1. v \in [1 .. x -> V]
      BY <1>10
    <2> HIDE DEF v
    <2> QED
      BY <1>2, <2>1
  <1>12. y \in Cells
    BY <1>2, <1>9
  <1> HIDE DEF v, y
  <1>13. [value |-> v, rest |-> y] \in Read(Seq(V))
    BY <1>11, <1>12 DEF Read
  <1>14. DecodeMany(b, dec) # Nil /\ DecodeMany(b, dec).rest = y
    BY <1>4, <1>7, <1>13
  <1> QED
    BY <1>6, <1>14

\* What DecodeMany reads is what EncodeMany writes for the values it returns.
LEMMA DecodeManyFaithful ==
  ASSUME NEW V, NEW dec, Reader(dec, V), NEW enc \in [V -> Cells],
         Faithful(dec, enc), NEW b \in Cells, DecodeMany(b, dec) # Nil
  PROVE  /\ DecodeMany(b, dec) \in Read(Seq(V))
         /\ b = EncodeMany(Encs(enc, DecodeMany(b, dec).value))
                  \o DecodeMany(b, dec).rest
  <1> DEFINE x == Head(b)
             t == Tail(b)
             r == ReadSeq(t, dec, x)
  <1>1. b # << >> /\ DecodeMany(b, dec) = r
    BY DEF DecodeMany
  <1>2. x \in Nat /\ t \in Cells /\ b = <<x>> \o t
    BY <1>1, UnconsCells
  <1>0. r = ReadSeq(t, dec, x) /\ r # Nil
    BY <1>1
  <1> HIDE DEF x, t, r
  <1>3. /\ r.value \in Seq(V) /\ Len(r.value) = x /\ r.rest \in Cells
        /\ r \in Read(Seq(V))
        /\ Joins(t, FlattenSeq(Encs(enc, r.value)), r.rest)
    <2>1. x \in Nat /\ t \in Cells 
      BY <1>2
    <2> QED BY <2>1, <1>0, ReadSeqFaithful
  <1> DEFINE v == r.value
             y == r.rest
             es == Encs(enc, v)
             f == FlattenSeq(es)
  <1>4. v \in Seq(V) /\ y \in Cells /\ r \in Read(Seq(V)) /\ Len(v) = x
    BY <1>3
  <1>5. t = f \o y
    BY <1>3 DEF Joins
  <1> HIDE DEF v, y
  <1>7. es \in Seq(Cells) /\ Len(es) = x
    BY <1>4, EncsType
  <1> HIDE DEF es
  <1>8. f \in Cells
    <2>1. PICK pre : IsPrefixes(pre, es)
      BY <1>7, FlattenPrefixes
    <2>2. Len(es) \in 0 .. Len(es)
      BY <1>2, <1>7
    <2> QED
      BY <2>1, <2>2 DEF IsPrefixes
  <1> HIDE DEF f
  <1>9. b = (<<x>> \o f) \o y
    <2> DEFINE e == <<x>>
    <2>1. e \in Cells /\ b = e \o t
      BY <1>2, ConsCells
    <2> HIDE DEF e
    <2>3. y \in Cells
      BY <1>4
    <2>4. (e \o f) \o y = e \o (f \o y)
      <3>1. \A aa \in Cells, bb \in Cells, cc \in Cells : (aa \o bb) \o cc = aa \o (bb \o cc)
        BY CellsAssoc
      <3>2. f \in Cells
        BY <1>8
      <3>3. e \in Cells
        BY <2>1
      <3> QED BY <3>1, <3>2, <3>3, <2>3
    <2>2. b = (e \o f) \o y
      BY <1>5, <2>1, <2>4, Zenon
    <2> QED
      BY <2>2 DEF e
  <1>10. EncodeMany(es) = <<x>> \o f
    BY <1>7 DEF EncodeMany, f
  <1>11. b = EncodeMany(es) \o y
    BY <1>9, <1>10
  <1> QED
    BY <1>1, <1>4, <1>11 DEF es, v, y

\* Concatenations of cells are cells, at least as many as there are parts.
LEMMA FlattenType ==
  ASSUME NEW es \in Seq(Cells)
  PROVE  /\ FlattenSeq(es) \in Cells
         /\ (\A i \in 1 .. Len(es) : Len(es[i]) >= 1)
              => Len(FlattenSeq(es)) >= Len(es)
  <1> DEFINE k == Len(es)
  <1>0. k \in Nat /\ k \in 0 .. k /\ \A i \in 1 .. k : es[i] \in Cells
    OBVIOUS
  <1>1. PICK pre : IsPrefixes(pre, es)
    BY FlattenPrefixes
  <1>2. /\ pre \in [0 .. k -> Cells] /\ pre[0] = << >>
        /\ \A i \in 1 .. k : Joins(pre[i], pre[i - 1], es[i])
        /\ pre[k] = FlattenSeq(es)
    BY <1>1 DEF IsPrefixes, Joins
  <1>3. pre[k] \in Cells
    BY <1>0, <1>2
  <1>4. ASSUME \A i \in 1 .. k : Len(es[i]) >= 1
        PROVE  Len(pre[k]) >= k
    <2> HIDE DEF k
    <2> DEFINE S == {i \in 0 .. k : Len(pre[i]) >= i}
    <2>1. 0 \in S
      <3>1. pre[0] \in Cells
        BY <1>0, <1>2
      <3>2. Len(pre[0]) \in Nat
        BY <3>1 DEF Cells
      <3> QED
        BY <1>0, <3>2
    <2>2. ASSUME NEW i \in 0 .. (k - 1), i \in S
          PROVE  i + 1 \in S
      <3>1. i + 1 \in 1 .. k /\ (i + 1) - 1 = i /\ i + 1 \in 0 .. k /\ i \in 0 .. k
        BY <1>0
      <3>2. /\ Joins(pre[i + 1], pre[i], es[i + 1])
            /\ es[i + 1] \in Cells /\ pre[i] \in Cells
        BY <1>0, <1>2, <3>1
      <3>3. Len(pre[i + 1]) = Len(pre[i]) + Len(es[i + 1])
        BY <3>2 DEF Joins, Cells
      <3>4. Len(pre[i]) \in Nat /\ Len(es[i + 1]) \in Nat
        BY <3>2 DEF Cells
      <3>5. Len(es[i + 1]) >= 1 /\ Len(pre[i]) >= i
        BY <1>4, <2>2, <3>1
      <3>6. Len(pre[i + 1]) >= i + 1
        <4>1. i \in Nat
          BY <1>0
        <4> DEFINE p == Len(pre[i])
                   q == Len(es[i + 1])
        <4>2. p \in Nat /\ q \in Nat /\ q >= 1 /\ p >= i
          BY <3>4, <3>5
        <4> HIDE DEF p, q
        <4>3. p + q >= i + 1
          BY <4>1, <4>2
        <4> QED
          BY <3>3, <4>3 DEF p, q
      <3> QED
        BY <3>1, <3>6
    <2>3. 0 .. k \subseteq S
      <3> HIDE DEF S
      <3> QED
        BY <1>0, <2>1, <2>2, UptoInduction
    <2> QED
      BY <1>0, <2>3
  <1> QED
    BY <1>2, <1>3, <1>4

\* What EncodeMany writes, with what follows it.
LEMMA EncodeManyFacts ==
  ASSUME NEW es \in Seq(Cells), NEW r \in Cells
  PROVE  /\ EncodeMany(es) \in Cells /\ Len(EncodeMany(es)) >= 1
         /\ FlattenSeq(es) \o r \in Cells
         /\ Joins(EncodeMany(es) \o r, <<Len(es)>>, FlattenSeq(es) \o r)
  <1> DEFINE x == Len(es)
             f == FlattenSeq(es)
             e == <<x>>
             d == EncodeMany(es)
  <1>1. x \in Nat /\ f \in Cells
    BY FlattenType
  <1>2. d = e \o f
    BY DEF EncodeMany
  <1> HIDE DEF x, f, d
  <1>3. e \in Cells /\ e \o f \in Cells /\ Len(e \o f) >= 1
    BY <1>1, ConsCells
  <1> HIDE DEF e
  <1>4. (e \o f) \o r = e \o (f \o r) /\ f \o r \in Cells
    <2>1. \A a1 \in Cells, b1 \in Cells, c1 \in Cells :
            (a1 \o b1) \o c1 = a1 \o (b1 \o c1) /\ a1 \o b1 \in Cells
      BY CellsAssoc
    <2>2. e \in Cells
      BY <1>3
    <2> QED
      BY <1>1, <2>1, <2>2
  <1>5. d \in Cells /\ Len(d) >= 1 /\ d \o r = e \o (f \o r)
    BY <1>2, <1>3, <1>4, Zenon
  <1> QED
    BY <1>4, <1>5, Zenon DEF x, f, e, d, Joins

\* A walker that passes each of some encodings passes what EncodeMany makes of
\* them, if they are not too many.
LEMMA WalkManyBack ==
  ASSUME NEW walk, NEW es \in Seq(Cells), PassesAll(walk, es),
         \A i \in 1 .. Len(es) : Len(es[i]) >= 1,
         Len(es) <= MaxLatticeUintSliceLen, NEW r \in Cells
  PROVE  WalkMany(EncodeMany(es) \o r, walk) = r
  <1> DEFINE x == Len(es)
             t == FlattenSeq(es) \o r
             s == EncodeMany(es) \o r
             c == TakeCount(s)
  <1>1. x \in Nat /\ t \in Cells /\ Joins(s, <<x>>, t)
    BY EncodeManyFacts
  <1>2. x <= 8 * Len(t)
    <2> DEFINE f == FlattenSeq(es)
    <2>1. f \in Cells /\ Len(f) >= x
      BY FlattenType
    <2> HIDE DEF f
    <2>2. Len(f) \in Nat /\ Len(r) \in Nat /\ Len(f \o r) = Len(f) + Len(r)
      BY <2>1 DEF Cells
    <2>3. Len(t) = Len(f) + Len(r)
      BY <2>2 DEF f
    <2> HIDE DEF x, t
    <2> QED
      BY <1>1, <2>1, <2>2, <2>3
  <1>3. Rests(walk, t, x)[x] = r
    BY RestsOfFlatten
  <1>4. x <= MaxLatticeUintSliceLen
    OBVIOUS
  <1> HIDE DEF x, t, s
  <1>5. c = [value |-> x, rest |-> t] /\ c # Nil
    BY <1>1, <1>2, <1>4, TakeCountBack DEF Joins
  <1>6. c.value = x /\ c.rest = t
    BY <1>5
  <1>7. WalkMany(s, walk) = Rests(walk, t, x)[x]
    BY <1>5, <1>6 DEF WalkMany
  <1> QED
    BY <1>3, <1>7 DEF s

\* A decoder that reads each of some values back reads them back from what
\* EncodeMany makes of them.
LEMMA DecodeManyBack ==
  ASSUME NEW V, NEW dec, Reader(dec, V), NEW enc \in [V -> Cells],
         NEW v \in Seq(V), ReadsBackAll(dec, enc, v), NEW r \in Cells
  PROVE  DecodeMany(EncodeMany(Encs(enc, v)) \o r, dec) =
           [value |-> v, rest |-> r]
  <1> DEFINE es == Encs(enc, v)
             x == Len(es)
             t == FlattenSeq(es) \o r
             s == EncodeMany(es) \o r
  <1>0. es \in Seq(Cells) /\ x = Len(v) /\ x \in Nat
    BY EncsType
  <1>1. t \in Cells /\ Joins(s, <<x>>, t)
    BY <1>0, EncodeManyFacts
  <1>2. ReadSeq(t, dec, x) = [value |-> v, rest |-> r]
    BY <1>0, ReadSeqBack
  <1> HIDE DEF es, x, t, s
  <1>3. s # << >> /\ Head(s) = x /\ Tail(s) = t
    BY <1>0, <1>1, ConsCells DEF Joins
  <1>4. DecodeMany(s, dec) = ReadSeq(t, dec, x)
    BY <1>3 DEF DecodeMany
  <1>5. DecodeMany(s, dec) = [value |-> v, rest |-> r]
    BY <1>2, <1>4
  <1> QED
    BY <1>5 DEF s, es

-----------------------------------------------------------------------------
(* Polynomials.                                                            *)

\* A stretch of cells.
LEMMA Window ==
  ASSUME NEW b \in Cells, NEW i \in 1 .. (Len(b) + 1), NEW j \in (i - 1) .. Len(b)
  PROVE  /\ SubSeq(b, i, j) \in Cells /\ Len(SubSeq(b, i, j)) = (j - i) + 1
         /\ \A l \in 1 .. ((j - i) + 1) : SubSeq(b, i, j)[l] = b[(i + l) - 1]
  <1>1. Len(b) \in Nat /\ i \in Int /\ j \in Int
    BY DEF Cells
  <1>2. \A l \in i .. j : b[l] \in Nat
    BY DEF Cells
  <1>3. /\ SubSeq(b, i, j) \in Seq(Nat)
        /\ Len(SubSeq(b, i, j)) = IF i <= j THEN j - i + 1 ELSE 0
        /\ \A l \in 1 .. j - i + 1 : SubSeq(b, i, j)[l] = b[i + l - 1]
    BY <1>1, <1>2, SubSeqProperties
  <1> DEFINE s == SubSeq(b, i, j)
  <1>4. s \in Cells
    BY <1>3 DEF Cells
  <1>5. Len(s) = IF i <= j THEN j - i + 1 ELSE 0
    BY <1>3
  <1>6. \A l \in 1 .. j - i + 1 : s[l] = b[i + l - 1]
    BY <1>3
  <1> HIDE DEF s
  <1>7. Len(s) = (j - i) + 1
    BY <1>1, <1>5
  <1>8. ASSUME NEW l \in 1 .. ((j - i) + 1)
        PROVE  s[l] = b[(i + l) - 1]
    BY <1>1, <1>6
  <1> QED
    BY <1>4, <1>7, <1>8 DEF s

\* Two cells, p cells and the rest make up the cells they are taken from.
LEMMA PolySplit ==
  ASSUME NEW b \in Cells, NEW p \in Nat, Len(b) >= 2 + p
  PROVE  /\ b[1] \in Nat /\ b[2] \in Nat
         /\ SubSeq(b, 3, 2 + p) \in Cells /\ Len(SubSeq(b, 3, 2 + p)) = p
         /\ SubSeq(b, 3 + p, Len(b)) \in Cells
         /\ Joins(b, <<b[1], b[2]>> \o SubSeq(b, 3, 2 + p),
                  SubSeq(b, 3 + p, Len(b)))
  <1> DEFINE u == SubSeq(b, 3, 2 + p)
             w == SubSeq(b, 3 + p, Len(b))
             x == b[1]
             y == b[2]
             e == <<x, y>>
  <1>1. Len(b) \in Nat /\ x \in Nat /\ y \in Nat
    BY DEF Cells
  <1>2. /\ u \in Cells /\ Len(u) = ((2 + p) - 3) + 1
        /\ \A l \in 1 .. (((2 + p) - 3) + 1) : u[l] = b[(3 + l) - 1]
    <2>1. 3 \in 1 .. (Len(b) + 1) /\ 2 + p \in (3 - 1) .. Len(b)
      BY <1>1
    <2> QED
      BY <2>1, Window
  <1>3. /\ w \in Cells /\ Len(w) = (Len(b) - (3 + p)) + 1
        /\ \A l \in 1 .. ((Len(b) - (3 + p)) + 1) : w[l] = b[((3 + p) + l) - 1]
    <2>1. 3 + p \in 1 .. (Len(b) + 1) /\ Len(b) \in ((3 + p) - 1) .. Len(b)
      BY <1>1
    <2> QED
      BY <2>1, Window
  <1> HIDE DEF u, w
  <1>4. /\ Len(u) = p /\ \A l \in 1 .. p : u[l] = b[2 + l]
        /\ Len(w) = Len(b) - (2 + p)
        /\ \A l \in 1 .. Len(w) : w[l] = b[(2 + p) + l]
    <2>1. Len(u) = p /\ Len(w) = Len(b) - (2 + p)
      BY <1>1, <1>2, <1>3
    <2>2. ASSUME NEW l \in 1 .. p
          PROVE  u[l] = b[2 + l]
      <3>1. l \in 1 .. (((2 + p) - 3) + 1) /\ (3 + l) - 1 = 2 + l
        OBVIOUS
      <3> QED
        BY <1>2, <3>1
    <2>3. ASSUME NEW l \in 1 .. Len(w)
          PROVE  w[l] = b[(2 + p) + l]
      <3>1. /\ l \in 1 .. ((Len(b) - (3 + p)) + 1)
            /\ ((3 + p) + l) - 1 = (2 + p) + l
        BY <1>1, <2>1
      <3> QED
        BY <1>3, <3>1
    <2> QED
      BY <2>1, <2>2, <2>3
  <1> HIDE DEF x, y
  <1>5. e \in Seq(Nat) /\ Len(e) = 2 /\ e[1] = x /\ e[2] = y
    BY <1>1
  <1> HIDE DEF e
  <1> DEFINE g == e \o u
             s == g \o w
  <1>6. /\ g \in Seq(Nat) /\ Len(g) = 2 + p /\ g[1] = x /\ g[2] = y
        /\ \A l \in 1 .. p : g[2 + l] = u[l]
    <2>1. /\ g \in Seq(Nat) /\ Len(g) = Len(e) + Len(u)
          /\ \A i \in 1 .. Len(e) + Len(u) :
               g[i] = IF i <= Len(e) THEN e[i] ELSE u[i - Len(e)]
      BY <1>2, <1>5, ConcatProperties DEF Cells
    <2> HIDE DEF g
    <2>2. g[1] = x /\ g[2] = y /\ Len(g) = 2 + p
      BY <1>4, <1>5, <2>1
    <2>3. ASSUME NEW l \in 1 .. p
          PROVE  g[2 + l] = u[l]
      <3>1. 2 + l \in 1 .. 2 + p /\ ~ (2 + l <= 2) /\ (2 + l) - 2 = l
        OBVIOUS
      <3> QED
        BY <1>4, <1>5, <2>1, <3>1
    <2> QED
      BY <2>1, <2>2, <2>3
  <1> HIDE DEF g
  <1>7. /\ s \in Seq(Nat) /\ Len(s) = Len(g) + Len(w)
        /\ \A i \in 1 .. Len(g) + Len(w) :
             s[i] = IF i <= Len(g) THEN g[i] ELSE w[i - Len(g)]
    BY <1>3, <1>6, ConcatProperties DEF Cells
  <1> HIDE DEF s
  <1>8. Len(s) = Len(b)
    BY <1>1, <1>4, <1>6, <1>7
  <1>9. ASSUME NEW i \in 1 .. Len(b)
        PROVE  b[i] = s[i]
    <2>0. i \in 1 .. Len(g) + Len(w)
      BY <1>7, <1>8
    <2>1. CASE i > 2 + p
      <3>1. /\ ~ (i <= Len(g)) /\ i - (2 + p) \in 1 .. Len(w)
            /\ (2 + p) + (i - (2 + p)) = i
        BY <1>1, <1>4, <1>6, <2>1
      <3>2. w[i - (2 + p)] = b[(2 + p) + (i - (2 + p))]
        BY <1>4, <3>1
      <3> QED
        BY <1>6, <1>7, <2>0, <3>1, <3>2
    <2>2. CASE i \in 3 .. (2 + p)
      <3>1. i <= Len(g) /\ i - 2 \in 1 .. p /\ 2 + (i - 2) = i
        BY <1>1, <1>6, <2>2
      <3>2. g[2 + (i - 2)] = u[i - 2] /\ u[i - 2] = b[2 + (i - 2)]
        BY <1>4, <1>6, <3>1
      <3> QED
        BY <1>7, <2>0, <3>1, <3>2
    <2>3. CASE i = 1 \/ i = 2
      <3>1. i <= Len(g) /\ g[i] = b[i]
        BY <1>6, <2>3 DEF x, y
      <3> QED
        BY <1>7, <2>0, <3>1
    <2> QED
      BY <1>1, <2>1, <2>2, <2>3
  <1>10. b = s
    BY <1>7, <1>8, <1>9, SeqEqual DEF Cells
  <1> QED
    BY <1>1, <1>2, <1>3, <1>4, <1>10 DEF Joins, s, g, e, u, w, x, y

\* What PolySplit takes apart can be put together and taken apart again.
LEMMA PolyJoin ==
  ASSUME NEW x \in Nat, NEW y \in Nat, NEW u \in Cells, NEW w \in Cells,
         NEW s, Joins(s, <<x, y>> \o u, w)
  PROVE  /\ s \in Cells /\ s[1] = x /\ s[2] = y
         /\ Len(s) = (2 + Len(u)) + Len(w) /\ Len(u) \in Nat /\ Len(w) \in Nat
         /\ SubSeq(s, 3, 2 + Len(u)) = u
         /\ SubSeq(s, 3 + Len(u), Len(s)) = w
  <1> DEFINE e == <<x, y>>
             g == e \o u
             p == Len(u)
             q == Len(w)
  <1>1. /\ e \in Seq(Nat) /\ Len(e) = 2 /\ e[1] = x /\ e[2] = y
        /\ p \in Nat /\ q \in Nat
    BY DEF Cells
  <1>0. s = g \o w
    BY DEF Joins
  <1> HIDE DEF e
  <1>2. /\ g \in Seq(Nat) /\ Len(g) = Len(e) + Len(u)
        /\ \A i \in 1 .. Len(e) + Len(u) :
             g[i] = IF i <= Len(e) THEN e[i] ELSE u[i - Len(e)]
    BY <1>1, ConcatProperties DEF Cells
  <1> HIDE DEF g
  <1>3. /\ s \in Seq(Nat) /\ Len(s) = Len(g) + Len(w)
        /\ \A i \in 1 .. Len(g) + Len(w) :
             s[i] = IF i <= Len(g) THEN g[i] ELSE w[i - Len(g)]
    BY <1>0, <1>2, ConcatProperties DEF Cells
  <1> HIDE DEF p, q
  <1>4. Len(u) = p /\ Len(w) = q /\ Len(g) = 2 + p /\ Len(s) = (2 + p) + q
    BY <1>1, <1>2, <1>3 DEF p, q
  <1>5. s[1] = x /\ s[2] = y
    BY <1>1, <1>2, <1>3, <1>4
  <1>6. ASSUME NEW l \in 1 .. p
        PROVE  s[2 + l] = u[l]
    <2>1. /\ 2 + l \in 1 .. 2 + p /\ ~ (2 + l <= 2) /\ (2 + l) - 2 = l
          /\ 2 + l \in 1 .. (2 + p) + q /\ 2 + l <= 2 + p
      BY <1>1
    <2>2. g[2 + l] = u[l]
      BY <1>1, <1>2, <1>4, <2>1
    <2> QED
      BY <1>3, <1>4, <2>1, <2>2
  <1>7. ASSUME NEW l \in 1 .. q
        PROVE  s[(2 + p) + l] = w[l]
    <2>1. /\ (2 + p) + l \in 1 .. (2 + p) + q /\ ~ ((2 + p) + l <= 2 + p)
          /\ ((2 + p) + l) - (2 + p) = l
      BY <1>1
    <2> QED
      BY <1>3, <1>4, <2>1
  <1>8. s \in Cells
    BY <1>3 DEF Cells
  <1>9. SubSeq(s, 3, 2 + p) = u
    <2> DEFINE a == SubSeq(s, 3, 2 + p)
    <2>1. 3 \in 1 .. (Len(s) + 1) /\ 2 + p \in (3 - 1) .. Len(s)
      BY <1>1, <1>4
    <2>2. /\ a \in Cells /\ Len(a) = ((2 + p) - 3) + 1
          /\ \A l \in 1 .. (((2 + p) - 3) + 1) : a[l] = s[(3 + l) - 1]
      BY <1>8, <2>1, Window
    <2> HIDE DEF a
    <2>3. Len(a) = p
      BY <1>1, <2>2
    <2>4. ASSUME NEW l \in 1 .. p
          PROVE  a[l] = u[l]
      <3>1. l \in 1 .. (((2 + p) - 3) + 1) /\ (3 + l) - 1 = 2 + l
        BY <1>1
      <3>2. a[l] = s[(3 + l) - 1]
        BY <2>2, <3>1
      <3> QED
        BY <1>6, <3>1, <3>2
    <2>5. a = u
      BY <1>4, <2>2, <2>3, <2>4, SeqEqual DEF Cells
    <2> QED
      BY <2>5 DEF a
  <1>10. SubSeq(s, 3 + p, Len(s)) = w
    <2> DEFINE a == SubSeq(s, 3 + p, Len(s))
    <2>1. 3 + p \in 1 .. (Len(s) + 1) /\ Len(s) \in ((3 + p) - 1) .. Len(s)
      BY <1>1, <1>4
    <2>2. /\ a \in Cells /\ Len(a) = (Len(s) - (3 + p)) + 1
          /\ \A l \in 1 .. ((Len(s) - (3 + p)) + 1) : a[l] = s[((3 + p) + l) - 1]
      BY <1>8, <2>1, Window
    <2> HIDE DEF a
    <2>3. Len(a) = q
      BY <1>1, <1>4, <2>2
    <2>4. ASSUME NEW l \in 1 .. q
          PROVE  a[l] = w[l]
      <3>1. /\ l \in 1 .. ((Len(s) - (3 + p)) + 1)
            /\ ((3 + p) + l) - 1 = (2 + p) + l
        BY <1>1, <1>4
      <3>2. a[l] = s[((3 + p) + l) - 1]
        BY <2>2, <3>1
      <3> QED
        BY <1>7, <3>1, <3>2
    <2>5. a = w
      BY <1>4, <2>2, <2>3, <2>4, SeqEqual DEF Cells
    <2> QED
      BY <2>5 DEF a
  <1> QED
    BY <1>1, <1>4, <1>5, <1>8, <1>9, <1>10 DEF p, q

\* EncodePoly as a function.
EncP == [p \in Polys |-> EncodePoly(p)]

\* The product of the two counts at the front.
Size(b) == b[1] * b[2]

\* The polynomial DecodePoly finds at the front.
PolyAt(b) == [levels |-> b[1], n |-> b[2], coeffs |-> SubSeq(b, 3, 2 + Size(b))]

\* DecodePoly by cases.
LEMMA DecodePolyCases ==
  ASSUME NEW b \in Cells
  PROVE  /\ Len(b) \in Nat
         /\ Len(b) >= 2 => b[1] \in Nat /\ b[2] \in Nat /\ Size(b) \in Nat
         /\ DecodePoly[b] # Nil => Len(b) >= 2 /\ Len(b) >= 2 + Size(b)
         /\ (Len(b) >= 2 /\ Len(b) >= 2 + Size(b)) =>
              DecodePoly[b] = [value |-> PolyAt(b),
                               rest |-> SubSeq(b, 3 + Size(b), Len(b))]
  <1>1. Len(b) \in Nat /\ (Len(b) >= 2 => b[1] \in Nat /\ b[2] \in Nat)
    BY DEF Cells
  <1>2. \A i \in Nat, j \in Nat : i * j \in Nat
    OBVIOUS
  <1>3. Len(b) >= 2 => Size(b) \in Nat
    BY <1>1, <1>2 DEF Size
  <1>4. DecodePoly[b] =
          IF Len(b) < 2 \/ Len(b) < 2 + Size(b) THEN Nil
          ELSE [value |-> PolyAt(b), rest |-> SubSeq(b, 3 + Size(b), Len(b))]
    BY Zenon DEF DecodePoly, PolyAt, Size
  <1>5. DecodePoly[b] # Nil => ~ (Len(b) < 2) /\ ~ (Len(b) < 2 + Size(b))
    BY <1>4, Zenon
  <1>6. (~ (Len(b) < 2) /\ ~ (Len(b) < 2 + Size(b))) =>
          DecodePoly[b] = [value |-> PolyAt(b),
                           rest |-> SubSeq(b, 3 + Size(b), Len(b))]
    BY <1>4, Zenon
  <1> DEFINE k == Len(b)
             p == Size(b)
  <1>7. k \in Nat /\ (k >= 2 => p \in Nat)
    BY <1>1, <1>3
  <1> HIDE DEF k, p
  <1>8. /\ (~ (k < 2) /\ ~ (k < 2 + p)) => k >= 2 /\ k >= 2 + p
        /\ (k >= 2 /\ k >= 2 + p) => ~ (k < 2) /\ ~ (k < 2 + p)
    BY <1>7
  <1> QED
    BY <1>1, <1>3, <1>5, <1>6, <1>8, Zenon DEF k, p

\* DecodePoly reads polynomials, from the bytes EncodePoly writes.
LEMMA DecodePolyFaithful ==
  Reader(DecodePoly, Polys) /\ EncP \in [Polys -> Cells] /\
  Faithful(DecodePoly, EncP)
  <1>1. ASSUME NEW b \in Cells, DecodePoly[b] # Nil
        PROVE  /\ DecodePoly[b] \in Read(Polys)
               /\ b = EncP[DecodePoly[b].value] \o DecodePoly[b].rest
    <2> DEFINE p == Size(b)
               u == SubSeq(b, 3, 2 + p)
               w == SubSeq(b, 3 + p, Len(b))
               x == b[1]
               y == b[2]
               v == PolyAt(b)
    <2>1. p \in Nat /\ Len(b) >= 2 + p /\ DecodePoly[b] = [value |-> v, rest |-> w]
      BY <1>1, DecodePolyCases
    <2>2. v = [levels |-> x, n |-> y, coeffs |-> u]
      BY DEF PolyAt
    <2> HIDE DEF p
    <2>3. /\ x \in Nat /\ y \in Nat /\ u \in Cells /\ w \in Cells
          /\ Joins(b, <<x, y>> \o u, w)
      BY <2>1, PolySplit
    <2> HIDE DEF u, w, x, y, v
    <2>4. v \in Polys /\ v.levels = x /\ v.n = y /\ v.coeffs = u
      BY <2>2, <2>3 DEF Polys
    <2>5. EncP[v] = <<x, y>> \o u
      BY <2>4 DEF EncP, EncodePoly
    <2>6. DecodePoly[b].value = v /\ DecodePoly[b].rest = w
      BY <2>1
    <2>7. b = EncP[v] \o w
      BY <2>3, <2>5, Zenon DEF Joins
    <2>8. DecodePoly[b] \in Read(Polys)
      BY <2>1, <2>3, <2>4 DEF Read
    <2> QED
      BY <2>6, <2>7, <2>8, Zenon
  <1>2. DOMAIN DecodePoly = Cells /\ DecodePoly = [b \in Cells |-> DecodePoly[b]]
    BY DEF DecodePoly
  <1>3. \A b \in Cells : DecodePoly[b] \in Read(Polys) \cup {Nil}
    BY <1>1
  <1>4. DecodePoly \in [Cells -> Read(Polys) \cup {Nil}]
    BY <1>2, <1>3
  <1>5. Reader(DecodePoly, Polys)
    BY <1>4, NilAssumption DEF Reader
  <1>6. EncP \in [Polys -> Cells]
    <2>1. ASSUME NEW v \in Polys
          PROVE  EncodePoly(v) \in Cells
      <3> DEFINE e == <<v.levels, v.n>>
                 u == v.coeffs
      <3>1. e \in Cells /\ u \in Cells
        BY DEF Polys, Cells
      <3> HIDE DEF e, u
      <3>2. e \o u \in Cells
        BY <3>1, CellsAssoc
      <3> QED
        BY <3>2 DEF EncodePoly, e, u
    <2> QED
      BY <2>1 DEF EncP
  <1>7. Faithful(DecodePoly, EncP)
    BY <1>1, Zenon DEF Faithful
  <1> QED
    BY <1>5, <1>6, <1>7

\* DecodePoly reads a polynomial back that has as many coefficients as it says.
LEMMA DecodePolyBack ==
  ASSUME NEW v \in Polys, Len(v.coeffs) = v.levels * v.n
  PROVE  ReadsBack(DecodePoly, EncP[v], v)
  <1> SUFFICES ASSUME NEW r \in Cells
               PROVE  DecodePoly[EncP[v] \o r] = [value |-> v, rest |-> r]
    BY DEF ReadsBack
  <1> DEFINE x == v.levels
             y == v.n
             u == v.coeffs
             s == EncP[v] \o r
  <1>1. /\ x \in Nat /\ y \in Nat /\ u \in Cells
        /\ v = [levels |-> x, n |-> y, coeffs |-> u]
    BY DEF Polys
  <1>2. Len(u) = x * y
    OBVIOUS
  <1>3. Joins(s, <<x, y>> \o u, r)
    BY Zenon DEF EncP, EncodePoly, Joins
  <1> HIDE DEF x, y, u, s
  <1>4. /\ s \in Cells /\ s[1] = x /\ s[2] = y /\ Len(u) \in Nat /\ Len(r) \in Nat
        /\ Len(s) = (2 + Len(u)) + Len(r)
        /\ SubSeq(s, 3, 2 + Len(u)) = u
        /\ SubSeq(s, 3 + Len(u), Len(s)) = r
    BY <1>1, <1>3, PolyJoin
  <1>5. Size(s) = Len(u)
    BY <1>2, <1>4, Zenon DEF Size
  <1>6. Len(s) >= 2 /\ Len(s) >= 2 + Len(u)
    BY <1>4
  <1>7. PolyAt(s) = v
    BY <1>1, <1>4, <1>5, Zenon DEF PolyAt
  <1>8. DecodePoly[s] = [value |-> v, rest |-> r]
    BY <1>4, <1>5, <1>6, <1>7, DecodePolyCases, Zenon
  <1> QED
    BY <1>8 DEF s

\* Cells after the first two.
LEMMA TailTail ==
  ASSUME NEW b \in Cells, Len(b) >= 2
  PROVE  /\ b # << >> /\ Head(b) = b[1] /\ Tail(b) \in Cells
         /\ Len(Tail(b)) = Len(b) - 1 /\ Tail(b) # << >>
         /\ Head(Tail(b)) = b[2]
         /\ Tail(Tail(b)) \in Cells /\ Len(Tail(Tail(b))) = Len(b) - 2
         /\ \A p \in 0 .. (Len(b) - 2) :
              SubSeq(Tail(Tail(b)), p + 1, Len(Tail(Tail(b)))) =
                SubSeq(b, 3 + p, Len(b))
  <1> DEFINE t == Tail(b)
             c == Tail(t)
             k == Len(b)
  <1>0. k \in Nat /\ b # << >>
    BY DEF Cells
  <1>1. /\ Head(b) = b[1] /\ t \in Cells /\ Len(t) = k - 1
        /\ \A i \in 1 .. (k - 1) : t[i] = b[i + 1]
    BY <1>0, HeadTailProperties DEF Cells
  <1> HIDE DEF t
  <1>2. t # << >> /\ Head(t) = t[1] /\ t[1] = b[2]
    BY <1>0, <1>1 DEF Cells
  <1>3. /\ c \in Cells /\ Len(c) = k - 2
        /\ \A i \in 1 .. (k - 2) : c[i] = b[i + 2]
    <2>1. /\ c \in Cells /\ Len(c) = Len(t) - 1
          /\ \A i \in 1 .. Len(c) : c[i] = t[i + 1]
      BY <1>1, <1>2, HeadTailProperties DEF Cells
    <2> HIDE DEF c
    <2>2. Len(c) = k - 2
      BY <1>0, <1>1, <2>1
    <2>3. ASSUME NEW i \in 1 .. (k - 2)
          PROVE  c[i] = b[i + 2]
      <3>1. i + 1 \in 1 .. (k - 1) /\ (i + 1) + 1 = i + 2 /\ i \in 1 .. Len(c)
        BY <1>0, <2>2
      <3> QED
        BY <1>1, <2>1, <3>1
    <2> QED
      BY <2>1, <2>2, <2>3
  <1> HIDE DEF c
  <1>4. ASSUME NEW p \in 0 .. (k - 2)
        PROVE  SubSeq(c, p + 1, Len(c)) = SubSeq(b, 3 + p, k)
    <2> DEFINE d == SubSeq(c, p + 1, Len(c))
               e == SubSeq(b, 3 + p, k)
    <2>0. p \in Nat /\ Len(c) = k - 2 /\ k >= 2
      BY <1>0, <1>3
    <2>1. /\ d \in Cells /\ Len(d) = (Len(c) - (p + 1)) + 1
          /\ \A l \in 1 .. ((Len(c) - (p + 1)) + 1) : d[l] = c[((p + 1) + l) - 1]
      <3>1. p + 1 \in 1 .. (Len(c) + 1) /\ Len(c) \in ((p + 1) - 1) .. Len(c)
        BY <1>0, <2>0
      <3> QED
        BY <1>3, <3>1, Window
    <2>2. /\ e \in Cells /\ Len(e) = (k - (3 + p)) + 1
          /\ \A l \in 1 .. ((k - (3 + p)) + 1) : e[l] = b[((3 + p) + l) - 1]
      <3>1. 3 + p \in 1 .. (Len(b) + 1) /\ Len(b) \in ((3 + p) - 1) .. Len(b)
        BY <1>0, <2>0
      <3> QED
        BY <3>1, Window
    <2> HIDE DEF d, e
    <2>3. Len(d) = Len(e)
      BY <1>0, <2>0, <2>1, <2>2
    <2>4. ASSUME NEW l \in 1 .. Len(d)
          PROVE  d[l] = e[l]
      <3>1. /\ l \in 1 .. ((Len(c) - (p + 1)) + 1) /\ l \in 1 .. ((k - (3 + p)) + 1)
            /\ ((p + 1) + l) - 1 = p + l /\ p + l \in 1 .. (k - 2)
            /\ ((3 + p) + l) - 1 = (p + l) + 2
        BY <1>0, <2>0, <2>1
      <3>2. d[l] = c[((p + 1) + l) - 1] /\ e[l] = b[((3 + p) + l) - 1]
        BY <2>1, <2>2, <3>1
      <3>3. c[p + l] = b[(p + l) + 2]
        BY <1>3, <3>1
      <3> QED
        BY <3>1, <3>2, <3>3
    <2>5. d = e
      BY <2>1, <2>2, <2>3, <2>4, SeqEqual DEF Cells
    <2> QED
      BY <2>5 DEF d, e
  <1> QED
    BY <1>0, <1>1, <1>2, <1>3, <1>4 DEF t, c, k

\* The division that bounds the product.
LEMMA DivBound ==
  ASSUME NEW x \in Nat, NEW y \in Nat \ {0}, NEW k \in Nat
  PROVE  ~ (x > k \div y) <=> x * y <= k
  <1> DEFINE q == k \div y
  <1>1. q \in Nat /\ q * y <= k /\ k < (q + 1) * y
    OBVIOUS
  <1> HIDE DEF q
  <1>2. ASSUME x <= q
        PROVE  x * y <= k
    <2>1. x * y <= q * y
      BY <1>1, <1>2
    <2> QED
      BY <1>1, <2>1
  <1>3. ASSUME x > q
        PROVE  x * y > k
    <2>1. (q + 1) * y <= x * y
      BY <1>1, <1>3
    <2> QED
      BY <1>1, <2>1
  <1>4. ~ (x > q) <=> x * y <= k
    <2>1. x * y \in Nat
      OBVIOUS
    <2> QED
      BY <1>1, <1>2, <1>3, <2>1
  <1> QED
    BY <1>4 DEF q

\* takeCount accepts a first cell that is small enough.
LEMMA TakeCountHead ==
  ASSUME NEW b \in Cells, b # << >>, Head(b) <= 8 * (Len(b) - 1),
         Head(b) <= MaxLatticeUintSliceLen
  PROVE  TakeCount(b) # Nil
  <1> DEFINE h == Head(b)
             t == Tail(b)
  <1>1. /\ h \in Nat /\ t \in Cells /\ Len(t) \in Nat /\ Len(b) = Len(t) + 1
        /\ Joins(b, <<h>>, t)
    BY UnconsCells DEF Joins
  <1>2. h <= 8 * Len(t) /\ h <= MaxLatticeUintSliceLen
    BY <1>1
  <1> HIDE DEF h, t
  <1>3. TakeCount(<<h>> \o t) # Nil
    BY <1>1, <1>2, TakeCountBack
  <1> QED
    BY <1>1, <1>3, Zenon DEF Joins

\* What walkPoly leaves, when both counts are accepted.
LEMMA WalkPolyCases ==
  ASSUME NEW b \in Cells
  PROVE  /\ WalkPoly[b] # Nil =>
              /\ Len(b) >= 2 /\ Len(b) >= 2 + Size(b)
              /\ WalkPoly[b] = SubSeq(b, 3 + Size(b), Len(b))
         /\ (/\ Len(b) >= 2 /\ Len(b) >= 2 + Size(b)
             /\ TakeCount(b) # Nil /\ TakeCount(Tail(b)) # Nil) =>
              WalkPoly[b] = SubSeq(b, 3 + Size(b), Len(b))
  <1> DEFINE c == TakeCount(b)
             d == IF c = Nil THEN Nil ELSE TakeCount(c.rest)
             bad == d.value # 0 /\ c.value > Len(d.rest) \div d.value
             left == SubSeq(d.rest, c.value * d.value + 1, Len(d.rest))
  <1>1. WalkPoly[b] = IF d = Nil \/ bad THEN Nil ELSE left
    BY Zenon DEF WalkPoly
  <1>2. ASSUME c # Nil, d # Nil
        PROVE  /\ Len(b) >= 2 /\ (~ bad <=> Len(b) >= 2 + Size(b))
               /\ ~ bad => left = SubSeq(b, 3 + Size(b), Len(b))
    <2> DEFINE t == Tail(b)
               u == Tail(t)
               x == b[1]
               y == b[2]
               k == Len(u)
    <2>1. b # << >> /\ c.value = Head(b) /\ c.rest = t
      BY <1>2, TakeCountFacts
    <2>2. t \in Cells /\ d = TakeCount(t)
      BY <1>2, <2>1, UnconsCells
    <2>3. t # << >> /\ d.value = Head(t) /\ d.rest = u
      BY <1>2, <2>2, TakeCountFacts
    <2>4. Len(b) >= 2 /\ Len(b) \in Nat
      <3>1. Len(b) = Len(t) + 1 /\ Len(t) \in Nat /\ Len(t) = Len(u) + 1
            /\ Len(u) \in Nat
        BY <2>1, <2>2, <2>3, UnconsCells
      <3> HIDE DEF t, u
      <3> QED
        BY <3>1
    <2>5. /\ Head(b) = x /\ Head(t) = y /\ u \in Cells /\ k = Len(b) - 2
          /\ \A p \in 0 .. (Len(b) - 2) :
               SubSeq(u, p + 1, k) = SubSeq(b, 3 + p, Len(b))
      BY <2>4, TailTail
    <2>6. x \in Nat /\ y \in Nat
      BY <2>4, DecodePolyCases
    <2>7. c.value = x /\ d.value = y /\ d.rest = u
      BY <2>1, <2>3, <2>5
    <2> HIDE DEF c, d, t, u, x, y, k
    <2> DEFINE p == x * y
    <2>8. p \in Nat /\ Size(b) = p /\ k \in Nat
      <3>1. \A i \in Nat, j \in Nat : i * j \in Nat
        OBVIOUS
      <3>2. p \in Nat
        BY <2>6, <3>1
      <3>3. k \in Nat
        BY <2>4, <2>5
      <3> QED
        BY <3>2, <3>3 DEF Size, x, y
    <2>9. bad <=> (y # 0 /\ x > k \div y)
      BY <2>7, Zenon DEF k
    <2>10. ~ (y # 0 /\ x > k \div y) <=> p <= k
      <3>1. CASE y = 0
        <4>1. p = 0
          BY <2>6, <3>1
        <4> HIDE DEF p
        <4> QED
          BY <2>8, <3>1, <4>1
      <3>2. CASE y # 0
        BY <2>6, <2>8, <3>2, DivBound
      <3> QED
        BY <3>1, <3>2
    <2>11. left = SubSeq(u, p + 1, k)
      BY <2>7, Zenon DEF k
    <2> HIDE DEF p, bad, left
    <2>12. p <= k <=> Len(b) >= 2 + p
      BY <2>4, <2>5, <2>8
    <2>13. p <= k => left = SubSeq(b, 3 + p, Len(b))
      <3>1. p <= k => p \in 0 .. (Len(b) - 2)
        BY <2>4, <2>5, <2>8
      <3> QED
        BY <2>5, <2>11, <3>1
    <2> QED
      BY <2>4, <2>8, <2>9, <2>10, <2>12, <2>13
  <1>3. WalkPoly[b] # Nil => c # Nil /\ d # Nil /\ ~ bad /\ WalkPoly[b] = left
    BY <1>1, Zenon
  <1>4. c # Nil /\ TakeCount(Tail(b)) # Nil => d # Nil
    BY TakeCountFacts
  <1>5. d # Nil /\ ~ bad => WalkPoly[b] = left
    BY <1>1, Zenon
  <1>6. TakeCount(b) # Nil <=> c # Nil
    OBVIOUS
  <1> HIDE DEF c, d, bad, left
  <1> QED
    BY <1>2, <1>3, <1>4, <1>5, <1>6

\* walkPoly is a walker, and stops where the decoder of polynomials stops.
LEMMA WalkPolyAgrees ==
  WalkPoly \in [Cells -> Cells \cup {Nil}] /\ Agree(WalkPoly, DecodePoly)
  <1>1. ASSUME NEW b \in Cells, WalkPoly[b] # Nil
        PROVE  WalkPoly[b] \in Cells /\ Skip(DecodePoly)[b] = WalkPoly[b]
    <2> DEFINE p == Size(b)
               w == SubSeq(b, 3 + p, Len(b))
               v == PolyAt(b)
    <2>1. Len(b) >= 2 /\ Len(b) >= 2 + p /\ WalkPoly[b] = w
      BY <1>1, WalkPolyCases
    <2>2. p \in Nat /\ DecodePoly[b] = [value |-> v, rest |-> w]
      BY <2>1, DecodePolyCases
    <2> HIDE DEF p, v
    <2>3. w \in Cells
      BY <2>1, <2>2, PolySplit
    <2> HIDE DEF w
    <2>4. DecodePoly[b].rest = w
      BY <2>2
    <2>5. DecodePoly[b] # Nil
      <3>3. v \in Polys
        <4> DEFINE x == b[1]
                   y == b[2]
                   u == SubSeq(b, 3, 2 + p)
        <4>1. x \in Nat /\ y \in Nat /\ u \in Cells
          BY <2>1, <2>2, PolySplit
        <4>2. v = [levels |-> x, n |-> y, coeffs |-> u]
          BY DEF v, PolyAt, p
        <4> HIDE DEF x, y, u
        <4> QED
          BY <4>1, <4>2 DEF Polys
      <3>4. [value |-> v, rest |-> w] \in Read(Polys)
        BY <2>3, <3>3 DEF Read
      <3> QED
        BY <2>2, <3>4, NilAssumption
    <2>6. Skip(DecodePoly)[b] = DecodePoly[b].rest
      BY <2>5, SkipFacts, DecodePolyFaithful
    <2> QED
      BY <2>1, <2>3, <2>4, <2>6
  <1>2. WalkPoly = [b \in Cells |-> WalkPoly[b]]
    BY DEF WalkPoly
  <1>3. \A b \in Cells : WalkPoly[b] \in Cells \cup {Nil}
    BY <1>1
  <1>4. WalkPoly \in [Cells -> Cells \cup {Nil}]
    BY <1>2, <1>3
  <1> QED
    BY <1>1, <1>4 DEF Agree

\* walkPoly passes a polynomial whose size it accepts.
LEMMA WalkPolyBack ==
  ASSUME NEW v, SizedPoly(v)
  PROVE  Passes(WalkPoly, EncP[v]) /\ EncP[v] \in Cells /\ Len(EncP[v]) >= 1
  <1> DEFINE x == v.levels
             y == v.n
             u == v.coeffs
             m == MaxLatticeUintSliceLen
             p == x * y
  <1>1. /\ v \in Polys /\ x \in 1 .. m /\ y \in 1 .. m /\ Len(u) = p
        /\ u \in Cells /\ EncP[v] = <<x, y>> \o u
    BY DEF SizedPoly, Polys, EncP, EncodePoly
  <1>2. m \in Nat
    BY WireAssumption
  <1> HIDE DEF x, y, u, m
  <1>3. x \in Nat \ {0} /\ y \in Nat \ {0} /\ x <= m /\ y <= m
    BY <1>1, <1>2
  <1>4. p \in Nat /\ x <= p /\ y <= p
    BY <1>3
  <1> HIDE DEF p
  <1>5. ASSUME NEW r \in Cells
        PROVE  WalkPoly[EncP[v] \o r] = r
    <2> DEFINE s == EncP[v] \o r
    <2>1. Joins(s, <<x, y>> \o u, r)
      BY <1>1, Zenon DEF Joins
    <2> HIDE DEF s
    <2>2. /\ s \in Cells /\ s[1] = x /\ s[2] = y /\ Len(r) \in Nat
          /\ Len(s) = (2 + Len(u)) + Len(r)
          /\ SubSeq(s, 3 + Len(u), Len(s)) = r
      <3>1. x \in Nat /\ y \in Nat /\ u \in Cells
        BY <1>1, <1>3
      <3> QED
        BY <2>1, <3>1, PolyJoin
    <2>3. Len(s) >= 2 /\ Len(s) >= 2 + p /\ Len(s) \in Nat
      BY <1>1, <1>4, <2>2
    <2>4. /\ s # << >> /\ Head(s) = x /\ Tail(s) \in Cells /\ Tail(s) # << >>
          /\ Head(Tail(s)) = y /\ Len(Tail(s)) = Len(s) - 1
      BY <2>2, <2>3, TailTail
    <2>5. TakeCount(s) # Nil
      <3>1. x <= 8 * (Len(s) - 1)
        BY <1>3, <1>4, <2>3
      <3> QED
        BY <1>3, <2>2, <2>4, <3>1, TakeCountHead DEF m
    <2>6. TakeCount(Tail(s)) # Nil
      <3>1. y <= 8 * (Len(Tail(s)) - 1)
        BY <1>3, <1>4, <2>3, <2>4
      <3> QED
        BY <1>3, <2>4, <3>1, TakeCountHead DEF m
    <2>7. Size(s) = p
      BY <2>2 DEF Size, p
    <2>8. WalkPoly[s] = SubSeq(s, 3 + p, Len(s))
      BY <2>2, <2>3, <2>5, <2>6, <2>7, WalkPolyCases
    <2> QED
      BY <1>1, <2>2, <2>8 DEF s
  <1>6. EncP[v] \in Cells /\ Len(EncP[v]) >= 1
    <2> DEFINE s == EncP[v]
    <2>1. s \in Cells
      BY <1>1, DecodePolyFaithful
    <2>2. s = <<x, y>> \o u
      BY <1>1
    <2>3. Len(s) = 2 + Len(u) /\ Len(u) \in Nat
      <3> DEFINE e == <<x, y>>
      <3>1. e \in Cells /\ Len(e) = 2
        BY <1>3 DEF Cells
      <3> HIDE DEF e
      <3>2. u \in Cells
        BY <1>1
      <3>4. Len(e \o u) = Len(e) + Len(u)
        BY <3>1, <3>2, ConcatProperties DEF Cells
      <3>5. Len(u) \in Nat
        BY <3>2 DEF Cells
      <3>3. Len(e \o u) = 2 + Len(u) /\ Len(u) \in Nat
        BY <3>1, <3>4, <3>5, Zenon
      <3> QED
        BY <2>2, <3>3 DEF e
    <2> HIDE DEF s
    <2>4. Len(s) >= 1
      BY <2>3
    <2> QED
      BY <2>1, <2>4 DEF s
  <1> QED
    BY <1>5, <1>6 DEF Passes

-----------------------------------------------------------------------------
(* Vectors and matrices.                                                   *)

\* A walker, a decoder and an encoder of V that fit together.
Codec(walk, dec, enc, V) ==
  /\ walk \in [Cells -> Cells \cup {Nil}] /\ Agree(walk, dec)
  /\ Reader(dec, V) /\ enc \in [V -> Cells] /\ Faithful(dec, enc)

\* They accept v.
Good(walk, dec, enc, v) ==
  /\ Passes(walk, enc[v]) /\ ReadsBack(dec, enc[v], v) /\ Len(enc[v]) >= 1

\* The same for a count and that many values.
ManyWalk(walk) == [b \in Cells |-> WalkMany(b, walk)]
ManyDecode(dec) == [b \in Cells |-> DecodeMany(b, dec)]
ManyEncode(enc, V) == [v \in Seq(V) |-> EncodeMany(Encs(enc, v))]

\* Many of what fits together fits together.
LEMMA ManyCodec ==
  ASSUME NEW V, NEW walk, NEW dec, NEW enc, Codec(walk, dec, enc, V),
         Nil \notin Read(Seq(V))
  PROVE  Codec(ManyWalk(walk), ManyDecode(dec), ManyEncode(enc, V), Seq(V))
  <1> DEFINE W == ManyWalk(walk)
             D == ManyDecode(dec)
             E == ManyEncode(enc, V)
  <1>0. /\ walk \in [Cells -> Cells \cup {Nil}] /\ Agree(walk, dec)
        /\ Reader(dec, V) /\ enc \in [V -> Cells] /\ Faithful(dec, enc)
    BY DEF Codec
  <1>1. /\ W = [b \in Cells |-> WalkMany(b, walk)]
        /\ D = [b \in Cells |-> DecodeMany(b, dec)]
        /\ E = [v \in Seq(V) |-> EncodeMany(Encs(enc, v))]
    BY DEF ManyWalk, ManyDecode, ManyEncode
  <1> HIDE DEF W, D, E
  <1>2. W \in [Cells -> Cells \cup {Nil}] /\ \A b \in Cells : W[b] = WalkMany(b, walk)
    BY <1>0, <1>1, WalkManyType
  <1>3. \A b \in Cells : D[b] = DecodeMany(b, dec)
    BY <1>1
  <1>4. /\ E \in [Seq(V) -> Cells]
        /\ \A v \in Seq(V) : E[v] = EncodeMany(Encs(enc, v))
    <2>1. ASSUME NEW v \in Seq(V)
          PROVE  EncodeMany(Encs(enc, v)) \in Cells
      <3>1. Encs(enc, v) \in Seq(Cells)
        BY <1>0, EncsType
      <3> QED
        BY <3>1, EmptyCells, EncodeManyFacts
    <2> QED
      BY <1>1, <2>1
  <1>5. ASSUME NEW b \in Cells, D[b] # Nil
        PROVE  D[b] \in Read(Seq(V)) /\ b = E[D[b].value] \o D[b].rest
    <2> DEFINE r == DecodeMany(b, dec)
    <2>1. D[b] = r /\ r # Nil
      BY <1>3, <1>5
    <2>2. /\ r \in Read(Seq(V))
          /\ b = EncodeMany(Encs(enc, r.value)) \o r.rest
      BY <1>0, <2>1, DecodeManyFaithful
    <2> HIDE DEF r
    <2>3. r.value \in Seq(V)
      BY <2>2 DEF Read
    <2>4. E[r.value] = EncodeMany(Encs(enc, r.value))
      BY <1>4, <2>3
    <2> QED
      BY <2>1, <2>2, <2>4, Zenon
  <1>6. D \in [Cells -> Read(Seq(V)) \cup {Nil}]
    <2>1. \A b \in Cells : D[b] \in Read(Seq(V)) \cup {Nil}
      BY <1>5
    <2>2. D = [b \in Cells |-> D[b]]
      BY <1>1
    <2> QED
      BY <2>1, <2>2
  <1>7. Reader(D, Seq(V)) /\ Faithful(D, E)
    BY <1>5, <1>6, Zenon DEF Reader, Faithful
  <1>8. Agree(W, D)
    <2>1. ASSUME NEW b \in Cells, W[b] # Nil
          PROVE  Skip(D)[b] = W[b]
      <3>1. WalkMany(b, walk) # Nil /\ W[b] = WalkMany(b, walk)
        BY <1>2, <2>1
      <3>2. DecodeMany(b, dec) # Nil /\ DecodeMany(b, dec).rest = WalkMany(b, walk)
        BY <1>0, <3>1, ManyAgree
      <3>3. D[b] # Nil /\ D[b].rest = W[b]
        BY <1>3, <3>1, <3>2
      <3> QED
        BY <1>7, <3>3, SkipFacts
    <2> QED
      BY <2>1 DEF Agree
  <1> QED
    BY <1>2, <1>4, <1>7, <1>8 DEF Codec, W, D, E

\* Many of what is accepted is accepted, if they are not too many.
LEMMA ManyGood ==
  ASSUME NEW V, NEW walk, NEW dec, NEW enc, Codec(walk, dec, enc, V),
         NEW v \in Seq(V), Len(v) <= MaxLatticeUintSliceLen,
         \A i \in 1 .. Len(v) : Good(walk, dec, enc, v[i])
  PROVE  Good(ManyWalk(walk), ManyDecode(dec), ManyEncode(enc, V), v)
  <1> DEFINE es == Encs(enc, v)
             s == EncodeMany(es)
  <1>0. Reader(dec, V) /\ enc \in [V -> Cells]
    BY DEF Codec
  <1>1. /\ es \in Seq(Cells) /\ Len(es) = Len(v)
        /\ \A i \in 1 .. Len(v) : es[i] = enc[v[i]]
    BY <1>0, EncsType
  <1>2. ManyEncode(enc, V)[v] = s
    BY DEF ManyEncode
  <1>3. PassesAll(walk, es) /\ \A i \in 1 .. Len(es) : Len(es[i]) >= 1
    BY <1>1 DEF Good, PassesAll
  <1>4. ReadsBackAll(dec, enc, v)
    BY DEF Good, ReadsBackAll
  <1>5. Len(es) <= MaxLatticeUintSliceLen
    BY <1>1
  <1>6. s \in Cells /\ Len(s) >= 1
    BY <1>1, EmptyCells, EncodeManyFacts
  <1> HIDE DEF es
  <1>7. ASSUME NEW r \in Cells
        PROVE  /\ ManyWalk(walk)[s \o r] = r
               /\ ManyDecode(dec)[s \o r] = [value |-> v, rest |-> r]
    <2>1. WalkMany(s \o r, walk) = r
      BY <1>1, <1>3, <1>5, WalkManyBack
    <2>2. DecodeMany(s \o r, dec) = [value |-> v, rest |-> r]
      BY <1>0, <1>4, DecodeManyBack DEF es
    <2> HIDE DEF s
    <2>3. s \o r \in Cells
      BY <1>6, CellsAssoc
    <2>4. ManyWalk(walk)[s \o r] = WalkMany(s \o r, walk)
      BY <2>3, Zenon DEF ManyWalk
    <2>5. ManyDecode(dec)[s \o r] = DecodeMany(s \o r, dec)
      BY <2>3, Zenon DEF ManyDecode
    <2> QED
      BY <2>1, <2>2, <2>4, <2>5, Zenon
  <1>8. Passes(ManyWalk(walk), s) /\ ReadsBack(ManyDecode(dec), s, v)
    BY <1>7, Zenon DEF Passes, ReadsBack
  <1> HIDE DEF s
  <1> QED
    BY <1>2, <1>6, <1>8, Zenon DEF Good

EncV == ManyEncode(EncP, Polys)
EncM == ManyEncode(EncV, Vectors)

\* The codecs of the lattice library.
LEMMA Codecs ==
  /\ Codec(WalkPoly, DecodePoly, EncP, Polys)
  /\ Codec(WalkVector, DecodeVector, EncV, Vectors)
  /\ Codec(ManyWalk(WalkVector), DecodeMatrix, EncM, Matrices)
  <1>1. Codec(WalkPoly, DecodePoly, EncP, Polys)
    BY DecodePolyFaithful, WalkPolyAgrees DEF Codec
  <1>2. /\ ManyWalk(WalkPoly) = WalkVector /\ ManyDecode(DecodePoly) = DecodeVector
        /\ ManyDecode(DecodeVector) = DecodeMatrix
    BY Zenon DEF ManyWalk, ManyDecode, WalkVector, DecodeVector, DecodeMatrix
  <1>3. Nil \notin Read(Seq(Polys)) /\ Nil \notin Read(Seq(Vectors))
    BY NilAssumption DEF Vectors, Matrices
  <1>4. Codec(WalkVector, DecodeVector, EncV, Vectors)
    <2>1. Codec(ManyWalk(WalkPoly), ManyDecode(DecodePoly), ManyEncode(EncP, Polys),
                Seq(Polys))
      BY <1>1, <1>3, ManyCodec, Zenon
    <2> QED
      BY <1>2, <2>1, Zenon DEF EncV, Vectors
  <1>5. Codec(ManyWalk(WalkVector), DecodeMatrix, EncM, Matrices)
    <2>1. Codec(ManyWalk(WalkVector), ManyDecode(DecodeVector),
                ManyEncode(EncV, Vectors), Seq(Vectors))
      BY <1>3, <1>4, ManyCodec, Zenon
    <2> QED
      BY <1>2, <2>1, Zenon DEF EncM, Matrices
  <1> QED
    BY <1>1, <1>4, <1>5

\* The encoders are the codecs' encoders.
LEMMA EncodersAre ==
  /\ \A p \in Polys : EncodePoly(p) = EncP[p]
  /\ \A v \in Vectors : EncodeVector(v) = EncV[v]
  /\ \A m \in Matrices : EncodeMatrix(m) = EncM[m]
  <1>1. \A p \in Polys : EncodePoly(p) = EncP[p]
    BY DEF EncP
  <1>2. ASSUME NEW v \in Vectors
        PROVE  EncodeVector(v) = EncV[v]
    <2>1. \A i \in 1 .. Len(v) : v[i] \in Polys
      BY DEF Vectors
    <2>2. [i \in 1 .. Len(v) |-> EncodePoly(v[i])] = Encs(EncP, v)
      BY <1>1, <2>1, Zenon DEF Encs
    <2>3. EncV[v] = EncodeMany(Encs(EncP, v))
      BY DEF EncV, ManyEncode, Vectors
    <2> QED
      BY <2>2, <2>3, Zenon DEF EncodeVector
  <1>3. ASSUME NEW m \in Matrices
        PROVE  EncodeMatrix(m) = EncM[m]
    <2>1. \A i \in 1 .. Len(m) : m[i] \in Vectors
      BY DEF Matrices
    <2>2. [i \in 1 .. Len(m) |-> EncodeVector(m[i])] = Encs(EncV, m)
      BY <1>2, <2>1, Zenon DEF Encs
    <2>3. EncM[m] = EncodeMany(Encs(EncV, m))
      BY DEF EncM, ManyEncode, Matrices
    <2> QED
      BY <2>2, <2>3, Zenon DEF EncodeMatrix
  <1> QED
    BY <1>1, <1>2, <1>3

\* Polynomials, vectors and matrices of accepted sizes are accepted.
LEMMA SizedGood ==
  /\ \A p : SizedPoly(p) => Good(WalkPoly, DecodePoly, EncP, p)
  /\ \A v : SizedVector(v) => Good(WalkVector, DecodeVector, EncV, v)
  /\ \A m \in Matrices :
       (/\ Len(m) <= MaxLatticeUintSliceLen
        /\ \A i \in 1 .. Len(m) : SizedVector(m[i])) =>
         Good(ManyWalk(WalkVector), DecodeMatrix, EncM, m)
  <1>0. /\ ManyWalk(WalkPoly) = WalkVector /\ ManyDecode(DecodePoly) = DecodeVector
        /\ ManyDecode(DecodeVector) = DecodeMatrix
    BY Zenon DEF ManyWalk, ManyDecode, WalkVector, DecodeVector, DecodeMatrix
  <1>1. ASSUME NEW p, SizedPoly(p)
        PROVE  Good(WalkPoly, DecodePoly, EncP, p)
    <2>1. p \in Polys /\ Len(p.coeffs) = p.levels * p.n
      BY <1>1 DEF SizedPoly
    <2>2. ReadsBack(DecodePoly, EncP[p], p)
      BY <2>1, DecodePolyBack
    <2> QED
      BY <1>1, <2>2, WalkPolyBack DEF Good
  <1>2. ASSUME NEW v, SizedVector(v)
        PROVE  Good(WalkVector, DecodeVector, EncV, v)
    <2>1. /\ v \in Seq(Polys) /\ Len(v) <= MaxLatticeUintSliceLen
          /\ \A i \in 1 .. Len(v) : Good(WalkPoly, DecodePoly, EncP, v[i])
      BY <1>1, <1>2 DEF SizedVector, Vectors
    <2>2. Good(ManyWalk(WalkPoly), ManyDecode(DecodePoly), ManyEncode(EncP, Polys), v)
      BY <2>1, Codecs, ManyGood
    <2> QED
      BY <1>0, <2>2, Zenon DEF EncV
  <1>3. ASSUME NEW m \in Matrices, Len(m) <= MaxLatticeUintSliceLen,
               \A i \in 1 .. Len(m) : SizedVector(m[i])
        PROVE  Good(ManyWalk(WalkVector), DecodeMatrix, EncM, m)
    <2>1. /\ m \in Seq(Vectors)
          /\ \A i \in 1 .. Len(m) : Good(WalkVector, DecodeVector, EncV, m[i])
      BY <1>2, <1>3 DEF Matrices
    <2>2. Good(ManyWalk(WalkVector), ManyDecode(DecodeVector),
               ManyEncode(EncV, Vectors), m)
      BY <1>3, <2>1, Codecs, ManyGood
    <2> QED
      BY <1>0, <2>2, Zenon DEF EncM
  <1> QED
    BY <1>1, <1>2, <1>3

-----------------------------------------------------------------------------
(* Frames.                                                                 *)

\* One cell, p cells and the rest make up the cells they are taken from.
LEMMA BodySplit ==
  ASSUME NEW b \in Cells, NEW p \in Nat, Len(b) >= 1 + p
  PROVE  /\ b[1] \in Nat
         /\ SubSeq(b, 2, 1 + p) \in Cells /\ Len(SubSeq(b, 2, 1 + p)) = p
         /\ SubSeq(b, 2 + p, Len(b)) \in Cells
         /\ Joins(b, <<b[1]>> \o SubSeq(b, 2, 1 + p),
                  SubSeq(b, 2 + p, Len(b)))
  <1> DEFINE u == SubSeq(b, 2, 1 + p)
             w == SubSeq(b, 2 + p, Len(b))
             x == b[1]
             e == <<x>>
  <1>1. Len(b) \in Nat /\ x \in Nat
    BY DEF Cells
  <1>2. /\ u \in Cells /\ Len(u) = ((1 + p) - 2) + 1
        /\ \A l \in 1 .. (((1 + p) - 2) + 1) : u[l] = b[(2 + l) - 1]
    <2>1. 2 \in 1 .. (Len(b) + 1) /\ 1 + p \in (2 - 1) .. Len(b)
      BY <1>1
    <2> QED
      BY <2>1, Window
  <1>3. /\ w \in Cells /\ Len(w) = (Len(b) - (2 + p)) + 1
        /\ \A l \in 1 .. ((Len(b) - (2 + p)) + 1) : w[l] = b[((2 + p) + l) - 1]
    <2>1. 2 + p \in 1 .. (Len(b) + 1) /\ Len(b) \in ((2 + p) - 1) .. Len(b)
      BY <1>1
    <2> QED
      BY <2>1, Window
  <1> HIDE DEF u, w
  <1>4. /\ Len(u) = p /\ \A l \in 1 .. p : u[l] = b[1 + l]
        /\ Len(w) = Len(b) - (1 + p)
        /\ \A l \in 1 .. Len(w) : w[l] = b[(1 + p) + l]
    <2>1. Len(u) = p /\ Len(w) = Len(b) - (1 + p)
      BY <1>1, <1>2, <1>3
    <2>2. ASSUME NEW l \in 1 .. p
          PROVE  u[l] = b[1 + l]
      <3>1. l \in 1 .. (((1 + p) - 2) + 1) /\ (2 + l) - 1 = 1 + l
        OBVIOUS
      <3> QED
        BY <1>2, <3>1
    <2>3. ASSUME NEW l \in 1 .. Len(w)
          PROVE  w[l] = b[(1 + p) + l]
      <3>1. /\ l \in 1 .. ((Len(b) - (2 + p)) + 1)
            /\ ((2 + p) + l) - 1 = (1 + p) + l
        BY <1>1, <2>1
      <3> QED
        BY <1>3, <3>1
    <2> QED
      BY <2>1, <2>2, <2>3
  <1> HIDE DEF x
  <1>5. e \in Seq(Nat) /\ Len(e) = 1 /\ e[1] = x
    BY <1>1
  <1> HIDE DEF e
  <1> DEFINE g == e \o u
             s == g \o w
  <1>6. /\ g \in Seq(Nat) /\ Len(g) = 1 + p /\ g[1] = x
        /\ \A l \in 1 .. p : g[1 + l] = u[l]
    <2>1. /\ g \in Seq(Nat) /\ Len(g) = Len(e) + Len(u)
          /\ \A i \in 1 .. Len(e) + Len(u) :
               g[i] = IF i <= Len(e) THEN e[i] ELSE u[i - Len(e)]
      <3>1. e \in Seq(Nat) /\ u \in Seq(Nat)
        BY <1>2, <1>5 DEF Cells
      <3> QED
        BY <3>1, ConcatProperties, Zenon
    <2> HIDE DEF g
    <2>2. g[1] = x /\ Len(g) = 1 + p
      BY <1>4, <1>5, <2>1
    <2>3. ASSUME NEW l \in 1 .. p
          PROVE  g[1 + l] = u[l]
      <3>1. 1 + l \in 1 .. 1 + p /\ ~ (1 + l <= 1) /\ (1 + l) - 1 = l
        OBVIOUS
      <3> QED
        BY <1>4, <1>5, <2>1, <3>1
    <2> QED
      BY <2>1, <2>2, <2>3
  <1> HIDE DEF g
  <1>7. /\ s \in Seq(Nat) /\ Len(s) = Len(g) + Len(w)
        /\ \A i \in 1 .. Len(g) + Len(w) :
             s[i] = IF i <= Len(g) THEN g[i] ELSE w[i - Len(g)]
    BY <1>3, <1>6, ConcatProperties DEF Cells
  <1> HIDE DEF s
  <1>8. Len(s) = Len(b)
    BY <1>1, <1>4, <1>6, <1>7
  <1>9. ASSUME NEW i \in 1 .. Len(b)
        PROVE  b[i] = s[i]
    <2>0. i \in 1 .. Len(g) + Len(w)
      BY <1>7, <1>8
    <2>1. CASE i > 1 + p
      <3>1. /\ ~ (i <= Len(g)) /\ i - (1 + p) \in 1 .. Len(w)
            /\ (1 + p) + (i - (1 + p)) = i
        BY <1>1, <1>4, <1>6, <2>1
      <3>2. w[i - (1 + p)] = b[(1 + p) + (i - (1 + p))]
        BY <1>4, <3>1
      <3> QED
        BY <1>6, <1>7, <2>0, <3>1, <3>2
    <2>2. CASE i \in 2 .. (1 + p)
      <3>1. i <= Len(g) /\ i - 1 \in 1 .. p /\ 1 + (i - 1) = i
        BY <1>1, <1>6, <2>2
      <3>2. g[1 + (i - 1)] = u[i - 1] /\ u[i - 1] = b[1 + (i - 1)]
        BY <1>4, <1>6, <3>1
      <3> QED
        BY <1>7, <2>0, <3>1, <3>2
    <2>3. CASE i = 1
      <3>1. i <= Len(g) /\ g[i] = b[i]
        BY <1>6, <2>3 DEF x
      <3> QED
        BY <1>7, <2>0, <3>1
    <2> QED
      BY <1>1, <2>1, <2>2, <2>3
  <1>10. b = s
    BY <1>7, <1>8, <1>9, SeqEqual DEF Cells
  <1> QED
    BY <1>1, <1>2, <1>3, <1>4, <1>10 DEF Joins, s, g, e, u, w, x

\* What BodySplit takes apart can be put together and taken apart again.
LEMMA BodyJoin ==
  ASSUME NEW x \in Nat, NEW u \in Cells, NEW w \in Cells,
         NEW s, Joins(s, <<x>> \o u, w)
  PROVE  /\ s \in Cells /\ s[1] = x
         /\ Len(s) = (1 + Len(u)) + Len(w) /\ Len(u) \in Nat /\ Len(w) \in Nat
         /\ SubSeq(s, 2, 1 + Len(u)) = u
         /\ SubSeq(s, 2 + Len(u), Len(s)) = w
  <1> DEFINE e == <<x>>
             g == e \o u
             p == Len(u)
             q == Len(w)
  <1>1. /\ e \in Seq(Nat) /\ Len(e) = 1 /\ e[1] = x
        /\ p \in Nat /\ q \in Nat
    BY DEF Cells
  <1>0. s = g \o w
    BY DEF Joins
  <1> HIDE DEF e
  <1>2. /\ g \in Seq(Nat) /\ Len(g) = Len(e) + Len(u)
        /\ \A i \in 1 .. Len(e) + Len(u) :
             g[i] = IF i <= Len(e) THEN e[i] ELSE u[i - Len(e)]
    BY <1>1, ConcatProperties DEF Cells
  <1> HIDE DEF g
  <1>3. /\ s \in Seq(Nat) /\ Len(s) = Len(g) + Len(w)
        /\ \A i \in 1 .. Len(g) + Len(w) :
             s[i] = IF i <= Len(g) THEN g[i] ELSE w[i - Len(g)]
    <2>1. g \in Seq(Nat) /\ w \in Seq(Nat)
      BY <1>2 DEF Cells
    <2>2. /\ g \o w \in Seq(Nat) /\ Len(g \o w) = Len(g) + Len(w)
          /\ \A i \in 1 .. Len(g) + Len(w) :
               (g \o w)[i] = IF i <= Len(g) THEN g[i] ELSE w[i - Len(g)]
      BY <2>1, ConcatProperties, Zenon
    <2> QED
      BY <1>0, <2>2, Zenon
  <1> HIDE DEF p, q
  <1>4. Len(u) = p /\ Len(w) = q /\ Len(g) = 1 + p /\ Len(s) = (1 + p) + q
    BY <1>1, <1>2, <1>3 DEF p, q
  <1>5. s[1] = x
    BY <1>1, <1>2, <1>3, <1>4
  <1>6. ASSUME NEW l \in 1 .. p
        PROVE  s[1 + l] = u[l]
    <2>1. /\ 1 + l \in 1 .. 1 + p /\ ~ (1 + l <= 1) /\ (1 + l) - 1 = l
          /\ 1 + l \in 1 .. (1 + p) + q /\ 1 + l <= 1 + p
      BY <1>1
    <2>2. g[1 + l] = u[l]
      BY <1>1, <1>2, <1>4, <2>1
    <2> QED
      BY <1>3, <1>4, <2>1, <2>2
  <1>7. ASSUME NEW l \in 1 .. q
        PROVE  s[(1 + p) + l] = w[l]
    <2>1. /\ (1 + p) + l \in 1 .. (1 + p) + q /\ ~ ((1 + p) + l <= 1 + p)
          /\ ((1 + p) + l) - (1 + p) = l
      BY <1>1
    <2> QED
      BY <1>3, <1>4, <2>1
  <1>8. s \in Cells
    BY <1>3 DEF Cells
  <1>9. SubSeq(s, 2, 1 + p) = u
    <2> DEFINE a == SubSeq(s, 2, 1 + p)
    <2>1. 2 \in 1 .. (Len(s) + 1) /\ 1 + p \in (2 - 1) .. Len(s)
      BY <1>1, <1>4
    <2>2. /\ a \in Cells /\ Len(a) = ((1 + p) - 2) + 1
          /\ \A l \in 1 .. (((1 + p) - 2) + 1) : a[l] = s[(2 + l) - 1]
      BY <1>8, <2>1, Window
    <2> HIDE DEF a
    <2>3. Len(a) = p
      BY <1>1, <2>2
    <2>4. ASSUME NEW l \in 1 .. p
          PROVE  a[l] = u[l]
      <3>1. l \in 1 .. (((1 + p) - 2) + 1) /\ (2 + l) - 1 = 1 + l
        BY <1>1
      <3>2. a[l] = s[(2 + l) - 1]
        BY <2>2, <3>1
      <3> QED
        BY <1>6, <3>1, <3>2
    <2>5. a = u
      BY <1>4, <2>2, <2>3, <2>4, SeqEqual DEF Cells
    <2> QED
      BY <2>5 DEF a
  <1>10. SubSeq(s, 2 + p, Len(s)) = w
    <2> DEFINE a == SubSeq(s, 2 + p, Len(s))
    <2>1. 2 + p \in 1 .. (Len(s) + 1) /\ Len(s) \in ((2 + p) - 1) .. Len(s)
      BY <1>1, <1>4
    <2>2. /\ a \in Cells /\ Len(a) = (Len(s) - (2 + p)) + 1
          /\ \A l \in 1 .. ((Len(s) - (2 + p)) + 1) : a[l] = s[((2 + p) + l) - 1]
      BY <1>8, <2>1, Window
    <2> HIDE DEF a
    <2>3. Len(a) = q
      BY <1>1, <1>4, <2>2
    <2>4. ASSUME NEW l \in 1 .. q
          PROVE  a[l] = w[l]
      <3>1. /\ l \in 1 .. ((Len(s) - (2 + p)) + 1)
            /\ ((2 + p) + l) - 1 = (1 + p) + l
        BY <1>1, <1>4
      <3>2. a[l] = s[((2 + p) + l) - 1]
        BY <2>2, <3>1
      <3> QED
        BY <1>7, <3>1, <3>2
    <2>5. a = w
      BY <1>4, <2>2, <2>3, <2>4, SeqEqual DEF Cells
    <2> QED
      BY <2>5 DEF a
  <1> QED
    BY <1>1, <1>4, <1>5, <1>8, <1>9, <1>10 DEF p, q

\* A body behind its length.
EncB == [c \in Cells |-> <<Len(c)>> \o c]

\* readLenPrefixed by cases.
LEMMA ReadBodyCases ==
  ASSUME NEW b \in Cells
  PROVE  /\ ReadLenPrefixed[b] # Nil =>
              Len(b) >= 1 /\ b[1] \in Nat /\ Len(b) >= 1 + b[1]
         /\ (Len(b) >= 1 /\ Len(b) >= 1 + b[1]) =>
              ReadLenPrefixed[b] = [value |-> SubSeq(b, 2, 1 + b[1]),
                                    rest |-> SubSeq(b, 2 + b[1], Len(b))]
  <1> DEFINE h == Head(b)
             k == Len(b)
             v == SubSeq(b, 2, h + 1)
             w == SubSeq(b, h + 2, k)
  <1>1. ReadLenPrefixed[b] =
          IF b = << >> \/ h > k - 1 THEN Nil ELSE [value |-> v, rest |-> w]
    BY Zenon DEF ReadLenPrefixed
  <1>2. /\ k \in Nat /\ (b # << >> <=> k >= 1)
        /\ b # << >> => h = b[1] /\ h \in Nat
    BY DEF Cells
  <1>3. ReadLenPrefixed[b] # Nil => b # << >> /\ ~ (h > k - 1)
    BY <1>1, Zenon
  <1>4. (b # << >> /\ ~ (h > k - 1)) =>
          ReadLenPrefixed[b] = [value |-> v, rest |-> w]
    BY <1>1, Zenon
  <1>5. b # << >> => h + 1 = 1 + h /\ h + 2 = 2 + h
    BY <1>2
  <1>6. b # << >> => v = SubSeq(b, 2, 1 + b[1]) /\ w = SubSeq(b, 2 + b[1], k)
    BY <1>2, <1>5, Zenon
  <1> HIDE DEF v, w, h, k
  <1>7. b # << >> => (~ (h > k - 1) <=> k >= 1 + h)
    BY <1>2
  <1>8. ASSUME k >= 1, k >= 1 + b[1]
        PROVE  ReadLenPrefixed[b] = [value |-> SubSeq(b, 2, 1 + b[1]),
                                     rest |-> SubSeq(b, 2 + b[1], k)]
    <2>1. b # << >> /\ ~ (h > k - 1)
      BY <1>2, <1>7, <1>8
    <2> QED
      BY <1>4, <1>6, <2>1, Zenon
  <1>9. ASSUME ReadLenPrefixed[b] # Nil
        PROVE  k >= 1 /\ b[1] \in Nat /\ k >= 1 + b[1]
    <2>1. b # << >> /\ ~ (h > k - 1)
      BY <1>3, <1>9
    <2> QED
      BY <1>2, <1>7, <2>1
  <1> QED
    BY <1>8, <1>9 DEF k

\* A body is read from the bytes that were written for it.
LEMMA ReadBodyFaithful ==
  /\ Reader(ReadLenPrefixed, Cells) /\ EncB \in [Cells -> Cells]
  /\ Faithful(ReadLenPrefixed, EncB)
  <1>1. ASSUME NEW b \in Cells, ReadLenPrefixed[b] # Nil
        PROVE  /\ ReadLenPrefixed[b] \in Read(Cells)
               /\ b = EncB[ReadLenPrefixed[b].value] \o ReadLenPrefixed[b].rest
    <2> DEFINE p == b[1]
               u == SubSeq(b, 2, 1 + p)
               w == SubSeq(b, 2 + p, Len(b))
    <2>1. /\ p \in Nat /\ Len(b) >= 1 + p
          /\ ReadLenPrefixed[b] = [value |-> u, rest |-> w]
      BY <1>1, ReadBodyCases
    <2>2. /\ u \in Cells /\ Len(u) = p /\ w \in Cells
          /\ Joins(b, <<p>> \o u, w)
      BY <2>1, BodySplit
    <2> HIDE DEF p, u, w
    <2>3. EncB[u] = <<p>> \o u
      BY <2>2 DEF EncB
    <2>4. ReadLenPrefixed[b].value = u /\ ReadLenPrefixed[b].rest = w
      BY <2>1
    <2>5. ReadLenPrefixed[b] \in Read(Cells)
      BY <2>1, <2>2 DEF Read
    <2>6. b = EncB[u] \o w
      BY <2>2, <2>3, Zenon DEF Joins
    <2> QED
      BY <2>4, <2>5, <2>6, Zenon
  <1>2. ReadLenPrefixed = [b \in Cells |-> ReadLenPrefixed[b]]
    BY DEF ReadLenPrefixed
  <1>3. \A b \in Cells : ReadLenPrefixed[b] \in Read(Cells) \cup {Nil}
    BY <1>1
  <1>4. ReadLenPrefixed \in [Cells -> Read(Cells) \cup {Nil}]
    BY <1>2, <1>3
  <1>5. Reader(ReadLenPrefixed, Cells)
    BY <1>4, NilAssumption DEF Reader
  <1>6. EncB \in [Cells -> Cells]
    <2>1. ASSUME NEW c \in Cells
          PROVE  <<Len(c)>> \o c \in Cells
      <3>1. Len(c) \in Nat
        BY DEF Cells
      <3> QED
        BY <3>1, ConsCells
    <2> QED
      BY <2>1 DEF EncB
  <1>7. Faithful(ReadLenPrefixed, EncB)
    BY <1>1, Zenon DEF Faithful
  <1> QED
    BY <1>5, <1>6, <1>7

\* A body is read back.
LEMMA ReadBodyBack ==
  ASSUME NEW u \in Cells
  PROVE  ReadsBack(ReadLenPrefixed, EncB[u], u)
  <1> SUFFICES ASSUME NEW r \in Cells
               PROVE  ReadLenPrefixed[EncB[u] \o r] = [value |-> u, rest |-> r]
    BY DEF ReadsBack
  <1> DEFINE p == Len(u)
             s == EncB[u] \o r
  <1>1. p \in Nat
    BY DEF Cells
  <1>2. Joins(s, <<p>> \o u, r)
    BY Zenon DEF EncB, Joins
  <1> HIDE DEF s
  <1>3. /\ s \in Cells /\ s[1] = p /\ Len(s) = (1 + Len(u)) + Len(r)
        /\ Len(u) \in Nat /\ Len(r) \in Nat
        /\ SubSeq(s, 2, 1 + Len(u)) = u
        /\ SubSeq(s, 2 + Len(u), Len(s)) = r
    BY <1>1, <1>2, BodyJoin
  <1>4. Len(s) >= 1 /\ Len(s) >= 1 + p
    BY <1>3
  <1>5. ReadLenPrefixed[s] = [value |-> SubSeq(s, 2, 1 + s[1]),
                              rest |-> SubSeq(s, 2 + s[1], Len(s))]
    BY <1>3, <1>4, ReadBodyCases
  <1>6. ReadLenPrefixed[s] = [value |-> u, rest |-> r]
    BY <1>3, <1>5, Zenon
  <1> QED
    BY <1>6 DEF s

\* What the first four bytes of a frame can be; that the two are strings is not
\* known to the provers.
Magics == STRING \cup {wireMagicSig, wireMagicGroupKey}

\* Frames of the wire format.
Frames == [magic : Magics, version : Nat, cells : Cells]

\* The bodies of a frame are written one after the other.
LEMMA FrameIs ==
  ASSUME NEW magic \in Magics, NEW bs \in Seq(Cells)
  PROVE  /\ Frame(magic, bs) \in Frames
         /\ Frame(magic, bs).magic = magic
         /\ Frame(magic, bs).version = wireVersionV1
         /\ Frame(magic, bs).cells = FlattenSeq(Encs(EncB, bs))
         /\ FlattenSeq(Encs(EncB, bs)) \in Cells
  <1> DEFINE f == FlattenSeq(Encs(EncB, bs))
             a == [i \in 1 .. Len(bs) |-> <<Len(bs[i])>> \o bs[i]]
  <1>1. \A i \in 1 .. Len(bs) : bs[i] \in Cells
    OBVIOUS
  <1>2. \A c \in Cells : EncB[c] = <<Len(c)>> \o c
    BY DEF EncB
  <1>3. a = Encs(EncB, bs)
    BY <1>1, <1>2, Zenon DEF Encs
  <1>4. Encs(EncB, bs) \in Seq(Cells)
    BY ReadBodyFaithful, EncsType
  <1>5. f \in Cells
    BY <1>4, FlattenType
  <1>6. Frame(magic, bs) = [magic |-> magic, version |-> wireVersionV1, cells |-> f]
    BY <1>3, Zenon DEF Frame
  <1> HIDE DEF f
  <1>7. wireVersionV1 \in Nat
    BY DEF wireVersionV1
  <1>8. /\ Frame(magic, bs) \in Frames /\ Frame(magic, bs).magic = magic
        /\ Frame(magic, bs).version = wireVersionV1 /\ Frame(magic, bs).cells = f
    BY <1>5, <1>6, <1>7 DEF Frames
  <1> QED
    BY <1>5, <1>8 DEF f

\* A frame that is accepted is the one that is written for its bodies.
LEMMA BodiesFaithful ==
  ASSUME NEW f \in Frames, NEW magic \in Magics, NEW k \in Nat, NEW bs,
         bs = Bodies(f, magic, k), bs # Nil
  PROVE  bs \in Seq(Cells) /\ Len(bs) = k /\ f = Frame(magic, bs)
  <1> DEFINE c == f.cells
             r == ReadSeq(c, ReadLenPrefixed, k)
  <1>1. /\ f.magic = magic /\ f.version = wireVersionV1 /\ r # Nil
        /\ r.rest = << >> /\ bs = r.value
    BY Zenon DEF Bodies
  <1>2. /\ c \in Cells /\ f \in [magic : Magics, version : Nat, cells : Cells]
    BY DEF Frames
  <1>3. r = ReadSeq(c, ReadLenPrefixed, k)
    OBVIOUS
  <1> HIDE DEF c, r
  <1>4. /\ r.value \in Seq(Cells) /\ Len(r.value) = k
        /\ Joins(c, FlattenSeq(Encs(EncB, r.value)), r.rest)
    BY <1>1, <1>2, <1>3, ReadBodyFaithful, ReadSeqFaithful
  <1>5. bs \in Seq(Cells) /\ Len(bs) = k
    BY <1>1, <1>4
  <1> DEFINE g == FlattenSeq(Encs(EncB, bs))
             h == Frame(magic, bs)
  <1>6. /\ h \in Frames /\ h.magic = magic /\ h.version = wireVersionV1
        /\ h.cells = g /\ g \in Cells
    BY <1>5, FrameIs
  <1>7. c = g \o << >>
    BY <1>1, <1>4, Zenon DEF Joins
  <1> HIDE DEF g, h
  <1>8. c = g
    BY <1>6, <1>7, ConcatEmptySeq DEF Cells
  <1>9. f = h
    BY <1>1, <1>2, <1>6, <1>8 DEF Frames, c
  <1> QED
    BY <1>5, <1>9 DEF h

\* The bodies are read back from the frame that is written for them.
LEMMA BodiesBack ==
  ASSUME NEW magic \in Magics, NEW bs \in Seq(Cells)
  PROVE  Bodies(Frame(magic, bs), magic, Len(bs)) = bs
  <1> DEFINE h == Frame(magic, bs)
             g == FlattenSeq(Encs(EncB, bs))
             r == ReadSeq(h.cells, ReadLenPrefixed, Len(bs))
  <1>1. /\ h.magic = magic /\ h.version = wireVersionV1
        /\ h.cells = g /\ g \in Cells
    BY FrameIs
  <1>2. ReadsBackAll(ReadLenPrefixed, EncB, bs)
    BY ReadBodyBack DEF ReadsBackAll
  <1> DEFINE e == << >>
  <1>3. e \in Cells /\ g \o e = g
    BY <1>1, EmptyCells, ConcatEmptySeq DEF Cells
  <1> HIDE DEF e
  <1>4. ReadSeq(g \o e, ReadLenPrefixed, Len(bs)) = [value |-> bs, rest |-> e]
    <2>1. e \in Cells
      BY <1>3
    <2> QED
      BY <1>2, <2>1, ReadBodyFaithful, ReadSeqBack
  <1>5. r = [value |-> bs, rest |-> e]
    BY <1>1, <1>3, <1>4, Zenon
  <1> HIDE DEF r
  <1>6. r # Nil
    <2>1. r \in Read(Seq(Cells))
      BY <1>3, <1>5 DEF Read
    <2> QED
      BY <2>1, NilAssumption
  <1>7. r.rest = e /\ r.value = bs
    BY <1>5
  <1> QED
    BY <1>1, <1>6, <1>7, Zenon DEF Bodies, r, e

-----------------------------------------------------------------------------
(* Signatures and keys.                                                    *)

Sigs == [C : Polys, Z : Vectors, Delta : Vectors]

Keys == [A : Matrices, BTilde : Vectors]

\* Bytes that are walked to their end are the encoding of what they decode to.
LEMMA ValidFaithful ==
  ASSUME NEW V, NEW walk, NEW dec, NEW enc, Codec(walk, dec, enc, V),
         NEW b \in Cells, NoTrailing(walk[b])
  PROVE  /\ dec[b] # Nil /\ dec[b].rest = << >>
         /\ dec[b].value \in V /\ enc[dec[b].value] = b
  <1> DEFINE e == << >>
             v == dec[b].value
  <1>0. e \in Cells /\ walk[b] = e
    BY EmptyCells DEF NoTrailing
  <1>1. enc \in [V -> Cells] /\ Agree(walk, dec) /\ Reader(dec, V) /\ Faithful(dec, enc)
    BY DEF Codec
  <1>6. \A c \in Cells : c \o e = c
    BY ConcatEmptySeq DEF Cells
  <1> HIDE DEF e
  <1>2. walk[b] # Nil
    BY <1>0, NilAssumption
  <1>3. Skip(dec)[b] = e
    BY <1>0, <1>1, <1>2 DEF Agree
  <1>4. dec[b] # Nil /\ dec[b].rest = e /\ v \in V
    <2>1. dec[b] # Nil
      BY <1>0, <1>1, <1>3, SkipFacts, NilAssumption
    <2> QED
      BY <1>1, <1>3, <2>1, SkipFacts
  <1>5. Joins(b, enc[v], e)
    BY <1>1, <1>4, Zenon DEF Faithful, Joins
  <1>7. enc[v] \in Cells
    BY <1>1, <1>4
  <1>8. enc[v] = b
    BY <1>5, <1>6, <1>7, Zenon DEF Joins
  <1> QED
    BY <1>4, <1>8 DEF e

\* The encoding of an accepted value is walked to its end and decodes to it.
LEMMA ValidBack ==
  ASSUME NEW walk, NEW dec, NEW enc, NEW v, Good(walk, dec, enc, v),
         enc[v] \in Cells
  PROVE  NoTrailing(walk[enc[v]]) /\ dec[enc[v]].value = v
  <1> DEFINE e == << >>
             b == enc[v]
  <1>1. e \in Cells /\ b \o e = b
    BY EmptyCells, ConcatEmptySeq DEF Cells
  <1>2. \A c \in Cells : walk[b \o c] = c /\ dec[b \o c] = [value |-> v, rest |-> c]
    BY DEF Good, Passes, ReadsBack
  <1> HIDE DEF e, b
  <1>3. walk[b \o e] = e /\ dec[b \o e] = [value |-> v, rest |-> e]
    <2>1. e \in Cells
      BY <1>1
    <2> QED
      BY <1>2, <2>1, Zenon
  <1>4. walk[b] = e /\ dec[b] = [value |-> v, rest |-> e]
    BY <1>1, <1>3, Zenon
  <1>5. dec[b].value = v
    BY <1>4
  <1> QED
    BY <1>4, <1>5 DEF NoTrailing, e, b

\* Sequences of two and of three cells' bodies.
LEMMA SmallTuples ==
  /\ \A s \in Seq(Cells) : Len(s) = 3 =>
       /\ s[1] \in Cells /\ s[2] \in Cells /\ s[3] \in Cells
       /\ s = <<s[1], s[2], s[3]>>
  /\ \A s \in Seq(Cells) : Len(s) = 2 =>
       s[1] \in Cells /\ s[2] \in Cells /\ s = <<s[1], s[2]>>
  OBVIOUS

\* The walker of matrices.
LEMMA MatrixWalk == \A b \in Cells : WalkMany(b, WalkVector) = ManyWalk(WalkVector)[b]
  BY DEF ManyWalk

\* A signature that parses is written as the bytes it was parsed from.
LEMMA SignatureFaithful ==
  ASSUME NEW f \in Frames, NEW sig, sig = UnmarshalSignature(f), sig # Nil
  PROVE  sig \in Sigs /\ f = MarshalSignature(sig)
  <1> DEFINE b == Bodies(f, wireMagicSig, 3)
             x == DecodePoly[b[1]].value
             y == DecodeVector[b[2]].value
             z == DecodeVector[b[3]].value
  <1>1. /\ b # Nil /\ NoTrailing(WalkPoly[b[1]])
        /\ NoTrailing(WalkVector[b[2]]) /\ NoTrailing(WalkVector[b[3]])
        /\ sig = [C |-> x, Z |-> y, Delta |-> z]
    BY Zenon DEF UnmarshalSignature, ValidatePolyFrame, ValidateVectorPolyFrame
  <1>2. wireMagicSig \in Magics /\ 3 \in Nat
    BY DEF Magics
  <1>3. b \in Seq(Cells) /\ Len(b) = 3 /\ f = Frame(wireMagicSig, b)
    <2> DEFINE mg == wireMagicSig
               k == 3
    <2>1. b = Bodies(f, mg, k) /\ b # Nil /\ mg \in Magics /\ k \in Nat
      BY <1>1, <1>2 DEF b
    <2> HIDE DEF b, mg, k
    <2>2. b \in Seq(Cells) /\ Len(b) = k /\ f = Frame(mg, b)
      BY <2>1, BodiesFaithful
    <2> QED
      BY <2>2 DEF mg, k
  <1> HIDE DEF b
  <1>4. /\ b[1] \in Cells /\ b[2] \in Cells /\ b[3] \in Cells
        /\ b = <<b[1], b[2], b[3]>>
    BY <1>3, SmallTuples
  <1>5. x \in Polys /\ EncP[x] = b[1]
    BY <1>1, <1>4, Codecs, ValidFaithful
  <1>6. y \in Vectors /\ EncV[y] = b[2]
    BY <1>1, <1>4, Codecs, ValidFaithful
  <1>7. z \in Vectors /\ EncV[z] = b[3]
    BY <1>1, <1>4, Codecs, ValidFaithful
  <1> HIDE DEF x, y, z
  <1>8. sig \in Sigs /\ sig.C = x /\ sig.Z = y /\ sig.Delta = z
    BY <1>1, <1>5, <1>6, <1>7 DEF Sigs
  <1>9. EncodePoly(x) = b[1] /\ EncodeVector(y) = b[2] /\ EncodeVector(z) = b[3]
    BY <1>5, <1>6, <1>7, EncodersAre
  <1>10. MarshalSignature(sig) = Frame(wireMagicSig, b)
    BY <1>4, <1>8, <1>9, Zenon DEF MarshalSignature
  <1> QED
    BY <1>3, <1>8, <1>10

\* A signature of accepted sizes parses from the bytes written for it.
LEMMA SignatureBack ==
  ASSUME NEW sig \in Sigs, SizedPoly(sig.C), FrameFits(EncodePoly(sig.C)),
         SizedVector(sig.Z), SizedVector(sig.Delta)
  PROVE  UnmarshalSignature(MarshalSignature(sig)) = sig
  <1> DEFINE x == sig.C
             y == sig.Z
             z == sig.Delta
             b == <<EncodePoly(x), EncodeVector(y), EncodeVector(z)>>
             f == MarshalSignature(sig)
  <1>1. /\ x \in Polys /\ y \in Vectors /\ z \in Vectors
        /\ sig = [C |-> x, Z |-> y, Delta |-> z]
    BY DEF Sigs
  <1>2. /\ SizedPoly(x) /\ FrameFits(EncodePoly(x)) /\ SizedVector(y)
        /\ SizedVector(z) /\ FrameFits(EncodeVector(y)) /\ FrameFits(EncodeVector(z))
    BY DEF SizedVector
  <1>3. f = Frame(wireMagicSig, b)
    BY DEF MarshalSignature
  <1> HIDE DEF x, y, z, f
  <1>4. EncodePoly(x) = EncP[x] /\ EncodeVector(y) = EncV[y] /\ EncodeVector(z) = EncV[z]
    BY <1>1, EncodersAre
  <1>5. EncP[x] \in Cells /\ EncV[y] \in Cells /\ EncV[z] \in Cells
    BY <1>1, Codecs DEF Codec
  <1>6. b \in Seq(Cells) /\ Len(b) = 3 /\ b[1] = EncP[x] /\ b[2] = EncV[y] /\ b[3] = EncV[z]
    BY <1>4, <1>5
  <1>7. FrameFits(b[1]) /\ FrameFits(b[2]) /\ FrameFits(b[3])
    BY <1>2, <1>4, <1>6
  <1> HIDE DEF b
  <1>8. wireMagicSig \in Magics
    BY DEF Magics
  <1>9. Bodies(f, wireMagicSig, 3) = b
    BY <1>3, <1>6, <1>8, BodiesBack
  <1>10. b # Nil
    BY <1>6, NilAssumption
  <1>11. NoTrailing(WalkPoly[EncP[x]]) /\ DecodePoly[EncP[x]].value = x
    BY <1>2, <1>5, SizedGood, ValidBack
  <1>12. NoTrailing(WalkVector[EncV[y]]) /\ DecodeVector[EncV[y]].value = y
    BY <1>2, <1>5, SizedGood, ValidBack
  <1>13. NoTrailing(WalkVector[EncV[z]]) /\ DecodeVector[EncV[z]].value = z
    BY <1>2, <1>5, SizedGood, ValidBack
  <1>14. /\ ValidatePolyFrame(b[1]) /\ ValidateVectorPolyFrame(b[2])
         /\ ValidateVectorPolyFrame(b[3])
    BY <1>6, <1>7, <1>11, <1>12, <1>13, Zenon
    DEF ValidatePolyFrame, ValidateVectorPolyFrame
  <1>15. DecodePoly[b[1]].value = x /\ DecodeVector[b[2]].value = y
         /\ DecodeVector[b[3]].value = z
    BY <1>6, <1>11, <1>12, <1>13, Zenon
  <1>16. UnmarshalSignature(f) = [C |-> x, Z |-> y, Delta |-> z]
    BY <1>9, <1>10, <1>14, <1>15, Zenon DEF UnmarshalSignature
  <1> QED
    BY <1>1, <1>16, Zenon DEF f

\* A key that parses is written as the bytes it was parsed from.
LEMMA KeyFaithful ==
  ASSUME NEW f \in Frames, NEW gk, gk = UnmarshalGroupKey(f), gk # Nil
  PROVE  gk \in Keys /\ f = MarshalGroupKey(gk)
  <1> DEFINE b == Bodies(f, wireMagicGroupKey, 2)
             x == DecodeMatrix[b[1]].value
             y == DecodeVector[b[2]].value
  <1>1. /\ b # Nil /\ NoTrailing(WalkMany(b[1], WalkVector))
        /\ NoTrailing(WalkVector[b[2]])
        /\ gk = [A |-> x, BTilde |-> y]
    BY Zenon DEF UnmarshalGroupKey, ValidateMatrixPolyFrame, ValidateVectorPolyFrame
  <1>2. wireMagicGroupKey \in Magics /\ 2 \in Nat
    BY DEF Magics
  <1>3. b \in Seq(Cells) /\ Len(b) = 2 /\ f = Frame(wireMagicGroupKey, b)
    <2> DEFINE mg == wireMagicGroupKey
               k == 2
    <2>1. b = Bodies(f, mg, k) /\ b # Nil /\ mg \in Magics /\ k \in Nat
      BY <1>1, <1>2 DEF b
    <2> HIDE DEF b, mg, k
    <2>2. b \in Seq(Cells) /\ Len(b) = k /\ f = Frame(mg, b)
      BY <2>1, BodiesFaithful
    <2> QED
      BY <2>2 DEF mg, k
  <1> HIDE DEF b
  <1>4. b[1] \in Cells /\ b[2] \in Cells /\ b = <<b[1], b[2]>>
    BY <1>3, SmallTuples
  <1>5. x \in Matrices /\ EncM[x] = b[1]
    <2>1. NoTrailing(ManyWalk(WalkVector)[b[1]])
      BY <1>1, <1>4, MatrixWalk, Zenon
    <2> QED
      BY <1>4, <2>1, Codecs, ValidFaithful
  <1>6. y \in Vectors /\ EncV[y] = b[2]
    BY <1>1, <1>4, Codecs, ValidFaithful
  <1> HIDE DEF x, y
  <1>7. gk \in Keys /\ gk.A = x /\ gk.BTilde = y
    BY <1>1, <1>5, <1>6 DEF Keys
  <1>8. EncodeMatrix(x) = b[1] /\ EncodeVector(y) = b[2]
    BY <1>5, <1>6, EncodersAre
  <1>9. MarshalGroupKey(gk) = Frame(wireMagicGroupKey, b)
    BY <1>4, <1>7, <1>8, Zenon DEF MarshalGroupKey
  <1> QED
    BY <1>3, <1>7, <1>9

\* A key of accepted sizes parses from the bytes written for it.
LEMMA KeyBack ==
  ASSUME NEW gk \in Keys, Len(gk.A) <= MaxLatticeUintSliceLen,
         \A i \in 1 .. Len(gk.A) : SizedVector(gk.A[i]),
         FrameFits(EncodeMatrix(gk.A)), SizedVector(gk.BTilde)
  PROVE  UnmarshalGroupKey(MarshalGroupKey(gk)) = gk
  <1> DEFINE x == gk.A
             y == gk.BTilde
             b == <<EncodeMatrix(x), EncodeVector(y)>>
             f == MarshalGroupKey(gk)
  <1>1. x \in Matrices /\ y \in Vectors /\ gk = [A |-> x, BTilde |-> y]
    BY DEF Keys
  <1>2. /\ Len(x) <= MaxLatticeUintSliceLen
        /\ \A i \in 1 .. Len(x) : SizedVector(x[i])
        /\ FrameFits(EncodeMatrix(x)) /\ SizedVector(y)
        /\ FrameFits(EncodeVector(y))
    BY DEF SizedVector
  <1>3. f = Frame(wireMagicGroupKey, b)
    BY DEF MarshalGroupKey
  <1> HIDE DEF x, y, f
  <1>4. EncodeMatrix(x) = EncM[x] /\ EncodeVector(y) = EncV[y]
    BY <1>1, EncodersAre
  <1>5. EncM[x] \in Cells /\ EncV[y] \in Cells
    BY <1>1, Codecs DEF Codec
  <1>6. b \in Seq(Cells) /\ Len(b) = 2 /\ b[1] = EncM[x] /\ b[2] = EncV[y]
    BY <1>4, <1>5
  <1>7. FrameFits(b[1]) /\ FrameFits(b[2])
    BY <1>2, <1>4, <1>6
  <1> HIDE DEF b
  <1>8. wireMagicGroupKey \in Magics
    BY DEF Magics
  <1>9. Bodies(f, wireMagicGroupKey, 2) = b
    BY <1>3, <1>6, <1>8, BodiesBack
  <1>10. b # Nil
    BY <1>6, NilAssumption
  <1>11. /\ NoTrailing(WalkMany(EncM[x], WalkVector))
         /\ DecodeMatrix[EncM[x]].value = x
    <2>1. Good(ManyWalk(WalkVector), DecodeMatrix, EncM, x)
      BY <1>1, <1>2, SizedGood
    <2>2. /\ NoTrailing(ManyWalk(WalkVector)[EncM[x]])
          /\ DecodeMatrix[EncM[x]].value = x
      BY <1>5, <2>1, ValidBack
    <2> QED
      BY <1>5, <2>2, MatrixWalk, Zenon
  <1>12. NoTrailing(WalkVector[EncV[y]]) /\ DecodeVector[EncV[y]].value = y
    BY <1>2, <1>5, SizedGood, ValidBack
  <1>13. ValidateMatrixPolyFrame(b[1]) /\ ValidateVectorPolyFrame(b[2])
    BY <1>6, <1>7, <1>11, <1>12, Zenon
    DEF ValidateMatrixPolyFrame, ValidateVectorPolyFrame
  <1>14. DecodeMatrix[b[1]].value = x /\ DecodeVector[b[2]].value = y
    BY <1>6, <1>11, <1>12, Zenon
  <1>15. UnmarshalGroupKey(f) = [A |-> x, BTilde |-> y]
    BY <1>9, <1>10, <1>13, <1>14, Zenon DEF UnmarshalGroupKey
  <1> QED
    BY <1>1, <1>15, Zenon DEF f

-----------------------------------------------------------------------------
(* What the walkers and the parsers promise.                               *)

\* A frame that a walker of package wire accepts is the encoding of a value and
\* the decoder behind the walker reads that value and nothing less: "every
\* length it declares is backed by bytes that are actually there" (wire.go).
\* The decoders' own errors in threshold/wire.go are therefore unreachable, if the
\* library lays a polynomial of more than one modulus out as wire/wire.go says.
THEOREM WalkersExact ==
  ASSUME NEW b \in Cells
  PROVE  /\ ValidatePolyFrame(b) =>
              /\ DecodePoly[b] # Nil /\ DecodePoly[b].rest = << >>
              /\ DecodePoly[b].value \in Polys
              /\ EncodePoly(DecodePoly[b].value) = b
         /\ ValidateVectorPolyFrame(b) =>
              /\ DecodeVector[b] # Nil /\ DecodeVector[b].rest = << >>
              /\ DecodeVector[b].value \in Vectors
              /\ EncodeVector(DecodeVector[b].value) = b
         /\ ValidateMatrixPolyFrame(b) =>
              /\ DecodeMatrix[b] # Nil /\ DecodeMatrix[b].rest = << >>
              /\ DecodeMatrix[b].value \in Matrices
              /\ EncodeMatrix(DecodeMatrix[b].value) = b
  <1>1. ASSUME ValidatePolyFrame(b)
        PROVE  /\ DecodePoly[b] # Nil /\ DecodePoly[b].rest = << >>
               /\ DecodePoly[b].value \in Polys
               /\ EncodePoly(DecodePoly[b].value) = b
    <2>1. NoTrailing(WalkPoly[b])
      BY <1>1 DEF ValidatePolyFrame
    <2>2. /\ DecodePoly[b] # Nil /\ DecodePoly[b].rest = << >>
          /\ DecodePoly[b].value \in Polys /\ EncP[DecodePoly[b].value] = b
      BY <2>1, Codecs, ValidFaithful
    <2> QED
      BY <2>2, EncodersAre, Zenon
  <1>2. ASSUME ValidateVectorPolyFrame(b)
        PROVE  /\ DecodeVector[b] # Nil /\ DecodeVector[b].rest = << >>
               /\ DecodeVector[b].value \in Vectors
               /\ EncodeVector(DecodeVector[b].value) = b
    <2>1. NoTrailing(WalkVector[b])
      BY <1>2 DEF ValidateVectorPolyFrame
    <2>2. /\ DecodeVector[b] # Nil /\ DecodeVector[b].rest = << >>
          /\ DecodeVector[b].value \in Vectors /\ EncV[DecodeVector[b].value] = b
      BY <2>1, Codecs, ValidFaithful
    <2> QED
      BY <2>2, EncodersAre, Zenon
  <1>3. ASSUME ValidateMatrixPolyFrame(b)
        PROVE  /\ DecodeMatrix[b] # Nil /\ DecodeMatrix[b].rest = << >>
               /\ DecodeMatrix[b].value \in Matrices
               /\ EncodeMatrix(DecodeMatrix[b].value) = b
    <2>1. NoTrailing(ManyWalk(WalkVector)[b])
      BY <1>3, MatrixWalk, Zenon DEF ValidateMatrixPolyFrame
    <2>2. /\ DecodeMatrix[b] # Nil /\ DecodeMatrix[b].rest = << >>
          /\ DecodeMatrix[b].value \in Matrices /\ EncM[DecodeMatrix[b].value] = b
      BY <2>1, Codecs, ValidFaithful
    <2> QED
      BY <2>2, EncodersAre, Zenon
  <1> QED
    BY <1>1, <1>2, <1>3

\* The walkers accept what the library writes for a value within the caps: the
\* rule "cannot refuse an honest frame, whose bytes are all present" (wire.go).
THEOREM HonestFramesPass ==
  /\ \A p : SizedPoly(p) /\ FrameFits(EncodePoly(p)) =>
       ValidatePolyFrame(EncodePoly(p))
  /\ \A v : SizedVector(v) => ValidateVectorPolyFrame(EncodeVector(v))
  /\ \A a \in Matrices :
       /\ Len(a) <= MaxLatticeUintSliceLen
       /\ \A i \in 1 .. Len(a) : SizedVector(a[i])
       /\ FrameFits(EncodeMatrix(a))
       => ValidateMatrixPolyFrame(EncodeMatrix(a))
  <1>1. ASSUME NEW p, SizedPoly(p), FrameFits(EncodePoly(p))
        PROVE  ValidatePolyFrame(EncodePoly(p))
    <2>1. p \in Polys
      BY <1>1 DEF SizedPoly
    <2>2. EncP[p] \in Cells /\ EncodePoly(p) = EncP[p]
      BY <2>1, Codecs, EncodersAre DEF Codec
    <2>3. NoTrailing(WalkPoly[EncP[p]])
      BY <1>1, <2>2, SizedGood, ValidBack
    <2> QED
      BY <1>1, <2>2, <2>3, Zenon DEF ValidatePolyFrame
  <1>2. ASSUME NEW v, SizedVector(v)
        PROVE  ValidateVectorPolyFrame(EncodeVector(v))
    <2>1. v \in Vectors /\ FrameFits(EncodeVector(v))
      BY <1>2 DEF SizedVector
    <2>2. EncV[v] \in Cells /\ EncodeVector(v) = EncV[v]
      BY <2>1, Codecs, EncodersAre DEF Codec
    <2>3. NoTrailing(WalkVector[EncV[v]])
      BY <1>2, <2>2, SizedGood, ValidBack
    <2> QED
      BY <2>1, <2>2, <2>3, Zenon DEF ValidateVectorPolyFrame
  <1>3. ASSUME NEW a \in Matrices, Len(a) <= MaxLatticeUintSliceLen,
               \A i \in 1 .. Len(a) : SizedVector(a[i]),
               FrameFits(EncodeMatrix(a))
        PROVE  ValidateMatrixPolyFrame(EncodeMatrix(a))
    <2>1. EncM[a] \in Cells /\ EncodeMatrix(a) = EncM[a]
      BY Codecs, EncodersAre DEF Codec
    <2>2. Good(ManyWalk(WalkVector), DecodeMatrix, EncM, a)
      BY <1>3, SizedGood
    <2>3. NoTrailing(ManyWalk(WalkVector)[EncM[a]])
      BY <2>1, <2>2, ValidBack
    <2>4. NoTrailing(WalkMany(EncM[a], WalkVector))
      BY <2>1, <2>3, MatrixWalk, Zenon
    <2> QED
      BY <1>3, <2>1, <2>4, Zenon DEF ValidateMatrixPolyFrame
  <1> QED
    BY <1>1, <1>2, <1>3

\* Two byte strings that parse, parse to different values: there are no bytes
\* "two frames can differ in while decoding the same" (wire.go, noTrailing).
THEOREM ParsingInjective ==
  ASSUME NEW f \in Frames, NEW g \in Frames
  PROVE  /\ UnmarshalSignature(f) # Nil
              /\ UnmarshalSignature(f) = UnmarshalSignature(g) => f = g
         /\ UnmarshalGroupKey(f) # Nil
              /\ UnmarshalGroupKey(f) = UnmarshalGroupKey(g) => f = g
  BY SignatureFaithful, KeyFaithful

-----------------------------------------------------------------------------
(* What verifies.                                                          *)

\* Verify accepts the group's key with what was issued for the message, and
\* does nothing else with it.
LEMMA VerifyIssued ==
  ASSUME NEW m \in Message
  PROVE  /\ Verify(Key, m, Issued[m]) = {TRUE}
         /\ ~Panics(Key, Issued[m])
  <1> DEFINE t == Issued[m]
  <1>1. /\ Key \in Keys /\ t \in Sigs /\ Dimensions(Key.A, t)
        /\ Len(Key.BTilde) = M /\ RingKey(Key) /\ RingSignature(t)
    BY IssuedAssumption DEF Keys, Sigs
  <1>2. Computes(Key, t)
    BY <1>1, NilAssumption DEF Computes, Keys, Sigs
  <1>3. Equations(m, t)
    BY Zenon DEF Equations, Congruent
  <1>4. Accepts(Key, m, t)
    BY <1>2, <1>3, Zenon DEF Accepts
  <1>5. ~Refuses(Key, m, t)
    BY <1>1, <1>2, <1>3, Zenon DEF Refuses
  <1>6. ~ (Len(Key.BTilde) > M)
    BY <1>1, PoolAssumption
  <1>7. ~Panics(Key, t)
    BY <1>1, <1>6, Zenon DEF Panics
  <1>8. Verify(Key, m, t) = {TRUE}
    BY <1>4, <1>5, Zenon DEF Verify
  <1> QED
    BY <1>7, <1>8

\* What Verify may accept for a message is the group's key with a signature of
\* the length of the one issued, and congruent to it within the ring.
LEMMA AcceptsIssued ==
  ASSUME NEW gk, NEW m \in Message, NEW sig, TRUE \in Verify(gk, m, sig)
  PROVE  /\ gk = Key /\ gk # Nil /\ sig # Nil
         /\ Len(sig.Z) = Len(Issued[m].Z)
         /\ Len(sig.Delta) = Len(Issued[m].Delta)
         /\ RingSignature(sig) => Equations(m, sig)
  <1>1. Accepts(gk, m, sig)
    BY Zenon DEF Verify
  <1>2. /\ gk = Key /\ gk # Nil /\ sig # Nil /\ Dimensions(gk.A, sig)
        /\ RingSignature(sig) => Equations(m, sig)
    BY <1>1, Zenon DEF Accepts, Computes
  <1>3. Dimensions(Key.A, Issued[m])
    BY IssuedAssumption
  <1>4. /\ Len(sig.Z) = Len(Issued[m].Z)
        /\ Len(sig.Delta) = Len(Issued[m].Delta)
    BY <1>2, <1>3, Zenon DEF Dimensions
  <1> QED
    BY <1>2, <1>4, Zenon

\* Of all the byte strings VerifyBytes can be given with a message (frames of
\* any magic, version and length), it can accept only the encoding of the
\* group's key with the encoding of a signature that has the length of the one
\* issued and, if it is of the ring, its residues; what the encoders write for
\* the key and the signature issued it accepts for sure, and never panics on.  So the bytes leave
\* one freedom, the multiple of the modulus in a coefficient: nothing refuses
\* one that is not reduced (wire.go, threshold/wire.go, sign.go).
THEOREM VerifyBytesIssued ==
  ASSUME NEW gkB \in Frames, NEW m \in Message, NEW sigB \in Frames
  PROVE  /\ TRUE \in VerifyBytes(gkB, m, sigB) =>
              /\ gkB = MarshalGroupKey(Key)
              /\ LET sig == UnmarshalSignature(sigB) IN
                 /\ sig \in Sigs /\ sigB = MarshalSignature(sig)
                 /\ Len(sig.Z) = Len(Issued[m].Z)
                 /\ Len(sig.Delta) = Len(Issued[m].Delta)
                 /\ RingSignature(sig) => Equations(m, sig)
         /\ VerifyBytes(MarshalGroupKey(Key), m, MarshalSignature(Issued[m]))
              = {TRUE}
         /\ ~Panics(UnmarshalGroupKey(MarshalGroupKey(Key)),
                    UnmarshalSignature(MarshalSignature(Issued[m])))
  <1> DEFINE gk == UnmarshalGroupKey(gkB)
             sig == UnmarshalSignature(sigB)
  <1>1. ASSUME TRUE \in VerifyBytes(gkB, m, sigB)
        PROVE  /\ gkB = MarshalGroupKey(Key)
               /\ sig \in Sigs /\ sigB = MarshalSignature(sig)
               /\ Len(sig.Z) = Len(Issued[m].Z)
               /\ Len(sig.Delta) = Len(Issued[m].Delta)
               /\ RingSignature(sig) => Equations(m, sig)
    <2>1. TRUE \in Verify(gk, m, sig)
      BY <1>1, Zenon DEF VerifyBytes
    <2>2. gk = UnmarshalGroupKey(gkB) /\ sig = UnmarshalSignature(sigB)
      OBVIOUS
    <2> HIDE DEF gk, sig
    <2>3. /\ gk = Key /\ gk # Nil /\ sig # Nil
          /\ Len(sig.Z) = Len(Issued[m].Z)
          /\ Len(sig.Delta) = Len(Issued[m].Delta)
          /\ RingSignature(sig) => Equations(m, sig)
      BY <2>1, AcceptsIssued
    <2>4. gkB = MarshalGroupKey(gk)
      BY <2>2, <2>3, KeyFaithful
    <2>5. sig \in Sigs /\ sigB = MarshalSignature(sig)
      BY <2>2, <2>3, SignatureFaithful
    <2> QED
      BY <2>3, <2>4, <2>5, Zenon
  <1>2. UnmarshalGroupKey(MarshalGroupKey(Key)) = Key
    <2>1. /\ Key \in Keys /\ Len(Key.A) <= MaxLatticeUintSliceLen
          /\ \A i \in 1 .. Len(Key.A) : SizedVector(Key.A[i])
          /\ FrameFits(EncodeMatrix(Key.A)) /\ SizedVector(Key.BTilde)
      BY IssuedAssumption DEF Keys
    <2> QED
      BY <2>1, KeyBack
  <1>3. UnmarshalSignature(MarshalSignature(Issued[m])) = Issued[m]
    <2> DEFINE t == Issued[m]
    <2>1. /\ t \in Sigs /\ SizedPoly(t.C) /\ FrameFits(EncodePoly(t.C))
          /\ SizedVector(t.Z) /\ SizedVector(t.Delta)
      BY IssuedAssumption DEF Sigs
    <2> HIDE DEF t
    <2>2. UnmarshalSignature(MarshalSignature(t)) = t
      BY <2>1, SignatureBack
    <2> QED
      BY <2>2 DEF t
  <1>4. VerifyBytes(MarshalGroupKey(Key), m, MarshalSignature(Issued[m])) = {TRUE}
    BY <1>2, <1>3, VerifyIssued, Zenon DEF VerifyBytes
  <1>5. ~Panics(UnmarshalGroupKey(MarshalGroupKey(Key)),
                UnmarshalSignature(MarshalSignature(Issued[m])))
    <2>1. ~Panics(Key, Issued[m])
      <3>1. RingKey(Key) /\ RingSignature(Issued[m])
        BY IssuedAssumption, Zenon
      <3>2. Len(Key.BTilde) = M /\ M \in Nat
        BY IssuedAssumption, PoolAssumption
      <3>3. ~(Len(Key.BTilde) > M)
        BY <3>2
      <3> QED
        BY <3>1, <3>3, Zenon DEF Panics
    <2> QED
      BY <1>2, <1>3, <2>1, Zenon
  <1> QED
    BY <1>1, <1>4, <1>5, Zenon

-----------------------------------------------------------------------------
(* What arrives.                                                           *)

\* Tuples as they arrive.
Tuples == [gk : Frames, msg : Message, sig : Frames]

\* What the encoders write are frames of two and of three bodies.
LEMMA EncodedBodies ==
  ASSUME NEW m \in Message
  PROVE  /\ \E b \in Seq(Cells) :
              Len(b) = 2 /\ MarshalGroupKey(Key) = Frame(wireMagicGroupKey, b)
         /\ \E b \in Seq(Cells) :
              Len(b) = 3 /\ MarshalSignature(Issued[m]) = Frame(wireMagicSig, b)
  <1>1. Key.A \in Matrices /\ Key.BTilde \in Vectors
    BY IssuedAssumption
  <1>2. /\ Issued[m].C \in Polys /\ Issued[m].Z \in Vectors
        /\ Issued[m].Delta \in Vectors
    BY IssuedAssumption
  <1>3. /\ \A p \in Polys : EncodePoly(p) \in Cells
        /\ \A v \in Vectors : EncodeVector(v) \in Cells
        /\ \A a \in Matrices : EncodeMatrix(a) \in Cells
    BY Codecs, EncodersAre DEF Codec
  <1> DEFINE x == EncodeMatrix(Key.A)
             y == EncodeVector(Key.BTilde)
             u == EncodePoly(Issued[m].C)
             v == EncodeVector(Issued[m].Z)
             w == EncodeVector(Issued[m].Delta)
  <1>4. x \in Cells /\ y \in Cells /\ u \in Cells /\ v \in Cells /\ w \in Cells
    BY <1>1, <1>2, <1>3
  <1>5. /\ MarshalGroupKey(Key) = Frame(wireMagicGroupKey, <<x, y>>)
        /\ MarshalSignature(Issued[m]) = Frame(wireMagicSig, <<u, v, w>>)
    BY DEF MarshalGroupKey, MarshalSignature
  <1> HIDE DEF x, y, u, v, w
  <1>6. /\ <<x, y>> \in Seq(Cells) /\ Len(<<x, y>>) = 2
        /\ <<u, v, w>> \in Seq(Cells) /\ Len(<<u, v, w>>) = 3
    BY <1>4
  <1> QED
    BY <1>5, <1>6, Zenon

\* A tuple arrives as frames when it was not altered.
LEMMA EncodedType ==
  ASSUME NEW m \in Message
  PROVE  Encoded(m) \in Tuples
  <1>0. wireMagicSig \in Magics /\ wireMagicGroupKey \in Magics
    BY DEF Magics
  <1>1. MarshalGroupKey(Key) \in Frames
    <2>1. PICK b \in Seq(Cells) : MarshalGroupKey(Key) = Frame(wireMagicGroupKey, b)
      BY EncodedBodies
    <2> QED
      BY <1>0, <2>1, FrameIs
  <1>2. MarshalSignature(Issued[m]) \in Frames
    <2>1. PICK b \in Seq(Cells) : MarshalSignature(Issued[m]) = Frame(wireMagicSig, b)
      BY EncodedBodies
    <2> QED
      BY <1>0, <2>1, FrameIs
  <1> QED
    BY <1>1, <1>2 DEF Encoded, Tuples

\* An altered body is made of cells.
LEMMA AlteredBodyType ==
  ASSUME NEW b \in Cells, NEW c \in AlteredBodies(b)
  PROVE  c \in Cells
  <1> USE DEF Cells
  <1>1. Append(b, 1) \in Cells
    OBVIOUS
  <1>2. Front(b) \in Cells
    <2>1. Len(b) \in Nat
      OBVIOUS
    <2> QED
      BY <2>1 DEF Front
  <1>3. ASSUME NEW i, NEW y \in Nat
        PROVE  [b EXCEPT ![i] = @ + y] \in Cells
    <2> DEFINE d == [b EXCEPT ![i] = @ + y]
    <2>1. ASSUME NEW x \in 1 .. Len(b)
          PROVE  d[x] \in Nat
      <3>1. b[x] \in Nat /\ b[x] + y \in Nat
        OBVIOUS
      <3>2. d[x] = b[x] \/ d[x] = b[x] + y
        OBVIOUS
      <3> QED
        BY <3>1, <3>2
    <2>2. DOMAIN d = 1 .. Len(b) /\ d = [x \in 1 .. Len(b) |-> d[x]]
      OBVIOUS
    <2> HIDE DEF d
    <2>3. d \in [1 .. Len(b) -> Nat]
      BY <2>1, <2>2
    <2>4. Len(b) \in Nat
      OBVIOUS
    <2>5. d \in Seq(Nat)
      BY <2>3, <2>4
    <2> QED
      BY <2>5 DEF d
  <1>4. <<1, 1, 3>> \in Cells /\ << 3 >> \in Cells /\ 1 \in Nat
    OBVIOUS
  <1>5. ASSUME NEW d \in Cells, NEW e \in Cells
        PROVE  d \o e \in Cells
    BY ConcatProperties
  <1> HIDE DEF Cells
  <1>6. b \o <<1, 1, 3>> \in Cells
    BY <1>4, <1>5
  <1>7. ASSUME NEW e \in {<<1, 1, 3>>, << 3 >>}
        PROVE  [b EXCEPT ![1] = @ + 1] \o e \in Cells
    <2>1. [b EXCEPT ![1] = @ + 1] \in Cells /\ e \in Cells
      BY <1>3, <1>4
    <2> QED
      BY <1>5, <2>1
  <1>8. ASSUME NEW d \in {1, Q, QNu}, NEW i \in 1 .. Len(b)
        PROVE  [b EXCEPT ![i] = @ + d] \in Cells
    <2>1. d \in Nat
      BY PoolAssumption
    <2> QED
      BY <1>3, <2>1
  <1> DEFINE A(d) == {[b EXCEPT ![i] = @ + d] : i \in 1 .. Len(b)}
             B == {[b EXCEPT ![1] = @ + 1] \o e : e \in {<<1, 1, 3>>, << 3 >>}}
             C == {Append(b, 1), Front(b), b \o <<1, 1, 3>>}
  <1>9. AlteredBodies(b) = C \cup B \cup (UNION {A(d) : d \in {1, Q, QNu}})
    BY Zenon DEF AlteredBodies
  <1>10. \A d \in {1, Q, QNu} : A(d) \subseteq Cells
    BY <1>8, Zenon
  <1>11. B \subseteq Cells
    BY <1>7, Zenon
  <1>12. C \subseteq Cells
    BY <1>1, <1>2, <1>6, Zenon
  <1> HIDE DEF A, B, C
  <1> QED
    BY <1>9, <1>10, <1>11, <1>12, Zenon

\* An altered frame is a frame.
LEMMA AlteredFrameType ==
  ASSUME NEW magic \in Magics, NEW b \in Seq(Cells), NEW k, k = Len(b),
         NEW f, f = Frame(magic, b), NEW g \in AlteredFrames(f, k)
  PROVE  g \in Frames
  <1>1. f \in Frames /\ f.magic = magic
    BY FrameIs
  <1> DEFINE a == Bodies(f, f.magic, k)
  <1>2. a = b
    BY <1>1, BodiesBack
  <1> HIDE DEF a
  <1>3. ASSUME NEW j \in 1 .. k, NEW c \in AlteredBodies(a[j])
        PROVE  Frame(f.magic, [a EXCEPT ![j] = c]) \in Frames
    <2> DEFINE d == [a EXCEPT ![j] = c]
    <2>1. a[j] \in Cells
      BY <1>2
    <2>2. c \in Cells
      BY <2>1, <1>3, AlteredBodyType
    <2>3. d \in Seq(Cells)
      BY <1>2, <2>2
    <2> HIDE DEF d
    <2>4. Frame(magic, d) \in Frames
      BY <2>3, FrameIs
    <2> QED
      BY <1>1, <2>4 DEF d
  <1>4. ASSUME NEW c \in Cells
        PROVE  [f EXCEPT !.cells = c] \in Frames
    BY <1>1 DEF Frames
  <1>5. /\ [f EXCEPT !.magic = wireMagicSig] \in Frames
        /\ [f EXCEPT !.magic = wireMagicGroupKey] \in Frames
    BY <1>1 DEF Frames, Magics
  <1>6. [f EXCEPT !.version = 2] \in Frames
    BY <1>1 DEF Frames
  <1>7. f.cells \in Cells
    BY <1>1 DEF Frames
  <1>8. ASSUME NEW i \in 0 .. Len(f.cells) - 1
        PROVE  SubSeq(f.cells, 1, i) \in Cells
    <2> DEFINE c == f.cells
    <2>1. c \in Seq(Nat) /\ i \in 0 .. Len(c) - 1
      BY <1>7 DEF Cells
    <2> HIDE DEF c
    <2>2. SubSeq(c, 1, i) \in Seq(Nat)
      BY <2>1
    <2> QED
      BY <2>2 DEF Cells, c
  <1>9. Append(f.cells, 1) \in Cells
    BY <1>7 DEF Cells
  <1>10. ASSUME NEW i \in 0 .. Len(f.cells) - 1
         PROVE  [f EXCEPT !.cells = SubSeq(@, 1, i)] \in Frames
    BY <1>4, <1>8
  <1>11. [f EXCEPT !.cells = Append(@, 1)] \in Frames
    BY <1>4, <1>9
  <1> DEFINE A(j) == {Frame(f.magic, [a EXCEPT ![j] = c]) : c \in AlteredBodies(a[j])}
             B == {[f EXCEPT !.cells = SubSeq(@, 1, i)] : i \in 0 .. Len(f.cells) - 1}
             C == {[f EXCEPT !.cells = Append(@, 1)],
                   [f EXCEPT !.magic = wireMagicSig],
                   [f EXCEPT !.magic = wireMagicGroupKey],
                   [f EXCEPT !.version = 2]}
  <1>12. AlteredFrames(f, k) = (UNION {A(j) : j \in 1 .. k}) \cup B \cup C
    BY Zenon DEF AlteredFrames, a
  <1>13. \A j \in 1 .. k : A(j) \subseteq Frames
    BY <1>3, Zenon
  <1>14. B \subseteq Frames
    BY <1>10, Zenon
  <1>15. C \subseteq Frames
    BY <1>5, <1>6, <1>11, Zenon
  <1> HIDE DEF A, B, C
  <1> QED
    BY <1>12, <1>13, <1>14, <1>15, Zenon

\* What arrives altered is a tuple of frames.
LEMMA AlteredTupleType ==
  ASSUME NEW m \in Message, NEW t \in AlteredTuples(m)
  PROVE  t \in Tuples
  <1> DEFINE e == Encoded(m)
  <1>0. wireMagicSig \in Magics /\ wireMagicGroupKey \in Magics
    BY DEF Magics
  <1>1. e \in Tuples
    BY EncodedType
  <1>2. e.gk = MarshalGroupKey(Key) /\ e.sig = MarshalSignature(Issued[m])
    BY DEF Encoded
  <1>3. \/ \E f \in AlteredFrames(e.sig, 3) : t = [e EXCEPT !.sig = f]
        \/ \E f \in AlteredFrames(e.gk, 2) : t = [e EXCEPT !.gk = f]
        \/ \E o \in Message : t = [e EXCEPT !.msg = o]
    BY Zenon DEF AlteredTuples
  <1> HIDE DEF e
  <1>4. ASSUME NEW f \in AlteredFrames(e.sig, 3)
        PROVE  f \in Frames
    <2> DEFINE k == 3
               mg == wireMagicSig
    <2>1. PICK b \in Seq(Cells) :
            Len(b) = k /\ MarshalSignature(Issued[m]) = Frame(mg, b)
      BY EncodedBodies
    <2>2. e.sig = Frame(mg, b) /\ f \in AlteredFrames(e.sig, k) /\ mg \in Magics
      BY <1>0, <1>2, <1>4, <2>1
    <2> HIDE DEF k, mg
    <2> QED
      BY <2>1, <2>2, AlteredFrameType
  <1>5. ASSUME NEW f \in AlteredFrames(e.gk, 2)
        PROVE  f \in Frames
    <2> DEFINE k == 2
               mg == wireMagicGroupKey
    <2>1. PICK b \in Seq(Cells) :
            Len(b) = k /\ MarshalGroupKey(Key) = Frame(mg, b)
      BY EncodedBodies
    <2>2. e.gk = Frame(mg, b) /\ f \in AlteredFrames(e.gk, k) /\ mg \in Magics
      BY <1>0, <1>2, <1>5, <2>1
    <2> HIDE DEF k, mg
    <2> QED
      BY <2>1, <2>2, AlteredFrameType
  <1> QED
    BY <1>1, <1>3, <1>4, <1>5 DEF Tuples

-----------------------------------------------------------------------------
(* The pool.                                                               *)

\* What Verify can say of tuple i.
Verdict(i) == Verify(groupKeys[i], messages[i], sigs[i])

\* The size of the batch.
n == Len(sigs)

\* Before the call nothing is queued, in hand or running.
IdleInv ==
  pc = "idle" =>
    jobs = << >> /\ ~closed /\ running = {} /\ hand = [w \in Workers |-> 0]

\* An index that was sent is queued, in the hand of a goroutine, or answered.
Accounted(i) ==
  \/ \E k \in 1 .. Len(jobs) : jobs[k] = i
  \/ \E w \in running : hand[w] = i
  \/ results[i] \in Verdict(i)

\* During the call: the channel and the hands hold indices of the batch, what
\* was sent is accounted for, and no goroutine has left before the channel was
\* closed and drained.
PoolInv ==
  pc \in {"dispatch", "wait"} =>
    /\ n \in Nat \ {0} /\ DOMAIN sigs = 1 .. n /\ DOMAIN results = 1 .. n
    /\ jobs \in Seq(1 .. n)
    /\ next \in 1 .. (n + 1)
    /\ running \subseteq 1 .. PoolSize(n)
    /\ hand \in [Workers -> 0 .. n]
    /\ \A w \in Workers \ running : hand[w] = 0
    /\ closed <=> pc = "wait"
    /\ pc = "wait" => next = n + 1
    /\ running # 1 .. PoolSize(n) => closed /\ jobs = << >>
    /\ \A i \in 1 .. (next - 1) : Accounted(i)

BatchInv ==
  /\ pc \in {"idle", "dispatch", "wait", "returned", "panicked"}
  /\ IdleInv
  /\ PoolInv
  /\ ResultsComplete

-----------------------------------------------------------------------------
\* A batch that is not empty has a pool that is not empty, of known goroutines.
LEMMA PoolFacts ==
  ASSUME NEW k \in Nat \ {0}
  PROVE  1 \in 1 .. PoolSize(k) /\ 1 .. PoolSize(k) \subseteq Workers
  BY PoolAssumption DEF PoolSize, Workers

\* A table of k entries is a sequence of length k.
LEMMA TableLen ==
  ASSUME NEW k \in Nat, NEW s, DOMAIN s = 1 .. k
  PROVE  Len(s) = k
  OBVIOUS

\* The call: nothing is sent yet, every goroutine of the pool runs.
LEMMA CallStep ==
  ASSUME BatchInv, NEW k \in 0 .. Len(arrived), Call(k)
  PROVE  BatchInv'
  <1> DEFINE m == Len(arrived)
  <1>1. /\ pc = "idle" /\ jobs = << >> /\ ~closed /\ running = {}
        /\ hand = [w \in Workers |-> 0]
    BY DEF Call, BatchInv, IdleInv
  <1>2. CASE m # k \/ m = 0
    <2>1. pc' = "returned" /\ ret'.results = Nil
      BY <1>2 DEF Call, Answer
    <2> QED
      BY <2>1 DEF BatchInv, IdleInv, PoolInv, ResultsComplete
  <1>3. CASE ~ (m # k \/ m = 0)
    <2>1. /\ pc' = "dispatch" /\ next' = 1 /\ running' = 1 .. PoolSize(m)
          /\ sigs' = [i \in 1 .. m |-> UnmarshalSignature(arrived[i].sig)]
          /\ results' = [i \in 1 .. m |-> FALSE]
          /\ UNCHANGED <<jobs, closed, hand, ret>>
      BY <1>3 DEF Call
    <2>2. m \in Nat \ {0}
      BY <1>3
    <2>3. DOMAIN sigs' = 1 .. m /\ DOMAIN results' = 1 .. m
      BY <2>1
    <2>4. Len(sigs') = m
      BY <2>2, <2>3, TableLen
    <2>5. n' = m
      BY <2>4 DEF n
    <2>6. hand' \in [Workers -> 0 .. m] /\ \A w \in Workers : hand'[w] = 0
      BY <1>1, <2>1, <2>2
    <2>7. jobs' = << >> /\ jobs' \in Seq(1 .. m)
      BY <1>1, <2>1
    <2>8. PoolInv'
      BY <1>1, <2>1, <2>2, <2>3, <2>5, <2>6, <2>7 DEF PoolInv
    <2> QED
      BY <2>1, <2>8 DEF BatchInv, IdleInv, ResultsComplete
  <1> QED
    BY <1>2, <1>3

\* A send puts the next index into the channel.
LEMMA SendStep ==
  ASSUME BatchInv, SendJob
  PROVE  BatchInv'
  <1>1. /\ pc = "dispatch" /\ next <= n /\ jobs' = Append(jobs, next)
        /\ next' = next + 1
        /\ UNCHANGED <<groupKeys, messages, sigs, pc, closed, hand, running,
                       results, ret>>
    BY DEF SendJob, call, n
  <1>2. /\ n \in Nat \ {0} /\ jobs \in Seq(1 .. n) /\ next \in 1 .. (n + 1)
        /\ ~closed /\ running = 1 .. PoolSize(n)
        /\ \A i \in 1 .. (next - 1) : Accounted(i)
    BY <1>1 DEF BatchInv, PoolInv
  <1>3. n' = n
    BY <1>1 DEF n
  <1>4. /\ jobs' \in Seq(1 .. n) /\ Len(jobs) \in Nat
        /\ Len(jobs') = Len(jobs) + 1 /\ jobs'[Len(jobs) + 1] = next
        /\ \A k \in 1 .. Len(jobs) : jobs'[k] = jobs[k]
    BY <1>1, <1>2
  <1>5. ASSUME NEW i \in 1 .. (next' - 1)
        PROVE  Accounted(i)'
    <2>1. CASE i = next
      BY <1>4, <2>1 DEF Accounted
    <2>2. CASE i # next
      <3>1. Accounted(i)
        BY <1>1, <1>2, <2>2
      <3>2. ASSUME NEW k \in 1 .. Len(jobs), jobs[k] = i
            PROVE  \E l \in 1 .. Len(jobs') : jobs'[l] = i
        BY <1>4, <3>2
      <3> QED
        BY <1>1, <3>1, <3>2 DEF Accounted, Verdict
    <2> QED
      BY <2>1, <2>2
  <1>6. PoolInv'
    <2>1. next' \in 1 .. (n + 1)
      BY <1>1, <1>2
    <2> QED
      BY <1>1, <1>2, <1>3, <1>4, <1>5, <2>1 DEF BatchInv, PoolInv
  <1> QED
    BY <1>1, <1>6 DEF BatchInv, IdleInv, ResultsComplete

\* The channel is closed once everything is sent.
LEMMA CloseStep ==
  ASSUME BatchInv, CloseJobs
  PROVE  BatchInv'
  <1>1. /\ pc = "dispatch" /\ next > n /\ closed' = TRUE /\ pc' = "wait"
        /\ UNCHANGED <<groupKeys, messages, sigs, jobs, next, hand, running,
                       results, ret>>
    BY DEF CloseJobs, call, n
  <1>2. n' = n /\ \A i : Accounted(i)' <=> Accounted(i)
    BY <1>1 DEF n, Accounted, Verdict
  <1>3. next = n + 1 /\ ~closed
    BY <1>1 DEF BatchInv, PoolInv
  <1>4. PoolInv'
    BY <1>1, <1>2, <1>3 DEF BatchInv, PoolInv
  <1> QED
    BY <1>1, <1>4 DEF BatchInv, IdleInv, ResultsComplete

\* A receive moves an index from the channel to a hand.
LEMMA TakeStep ==
  ASSUME BatchInv, NEW w \in Workers, TakeJob(w)
  PROVE  BatchInv'
  <1>1. /\ w \in running /\ hand[w] = 0 /\ jobs # << >>
        /\ hand' = [hand EXCEPT ![w] = Head(jobs)] /\ jobs' = Tail(jobs)
        /\ UNCHANGED <<groupKeys, messages, sigs, pc, closed, next, running,
                       results, ret>>
    BY DEF TakeJob, call
  <1>2. PoolInv'
    <2> SUFFICES ASSUME pc \in {"dispatch", "wait"}
                 PROVE  PoolInv'
      BY <1>1 DEF PoolInv
    <2>1. /\ n \in Nat \ {0} /\ jobs \in Seq(1 .. n)
          /\ hand \in [Workers -> 0 .. n] /\ running = 1 .. PoolSize(n)
          /\ \A i \in 1 .. (next - 1) : Accounted(i)
      BY <1>1 DEF BatchInv, PoolInv
    <2>2. /\ Head(jobs) = jobs[1] /\ Head(jobs) \in 1 .. n
          /\ jobs' \in Seq(1 .. n) /\ Len(jobs) \in Nat \ {0}
          /\ Len(jobs') = Len(jobs) - 1
          /\ \A k \in 1 .. (Len(jobs) - 1) : jobs'[k] = jobs[k + 1]
      BY <1>1, <2>1
    <2>3. /\ n' = n /\ hand' \in [Workers -> 0 .. n] /\ hand'[w] = jobs[1]
          /\ \A x \in Workers : x # w => hand'[x] = hand[x]
      BY <1>1, <2>1, <2>2 DEF n
    <2>4. ASSUME NEW i \in 1 .. (next - 1)
          PROVE  Accounted(i)'
      <3>0. i \in Int /\ i # 0
        BY DEF BatchInv, PoolInv
      <3>1. CASE \E k \in 1 .. Len(jobs) : jobs[k] = i
        <4>1. PICK k \in 1 .. Len(jobs) : jobs[k] = i
          BY <3>1
        <4>2. CASE k = 1
          BY <1>1, <2>3, <4>1, <4>2 DEF Accounted
        <4>3. CASE k # 1
          <5>1. k - 1 \in 1 .. Len(jobs') /\ jobs'[k - 1] = i
            BY <2>2, <4>1, <4>3
          <5> QED
            BY <5>1 DEF Accounted
        <4> QED
          BY <4>2, <4>3
      <3>2. CASE \E x \in running : hand[x] = i
        <4>1. PICK x \in running : hand[x] = i
          BY <3>2
        <4>2. x \in Workers /\ x # w
          BY <1>1, <2>1, <3>0, <4>1, PoolFacts
        <4> QED
          BY <1>1, <2>3, <4>1, <4>2 DEF Accounted
      <3>3. CASE results[i] \in Verdict(i)
        BY <1>1, <3>3 DEF Accounted, Verdict
      <3> QED
        BY <2>1, <3>1, <3>2, <3>3 DEF Accounted
    <2> QED
      BY <1>1, <2>1, <2>2, <2>3, <2>4 DEF BatchInv, PoolInv
  <1> QED
    BY <1>1, <1>2 DEF BatchInv, IdleInv, ResultsComplete

\* A store answers the index in hand.
LEMMA StoreStep ==
  ASSUME BatchInv, NEW w \in Workers, Store(w)
  PROVE  BatchInv'
  <1> DEFINE h == hand[w]
  <1>0. PICK ok \in Verdict(h) : results' = [results EXCEPT ![h] = ok]
    BY Zenon DEF Store, Verdict
  <1>1. /\ h # 0 /\ hand' = [hand EXCEPT ![w] = 0]
        /\ UNCHANGED <<groupKeys, messages, sigs, pc, jobs, closed, next,
                       running, ret>>
    BY DEF Store, call
  <1>2. pc # "idle"
    BY <1>1 DEF BatchInv, IdleInv
  <1>3. PoolInv'
    <2> SUFFICES ASSUME pc \in {"dispatch", "wait"}
                 PROVE  PoolInv'
      BY <1>1 DEF PoolInv
    <2>1. /\ n \in Nat \ {0} /\ DOMAIN results = 1 .. n
          /\ hand \in [Workers -> 0 .. n]
          /\ \A x \in Workers \ running : hand[x] = 0
          /\ running \subseteq Workers
          /\ \A i \in 1 .. (next - 1) : Accounted(i)
          /\ next \in 1 .. (n + 1)
      BY PoolFacts DEF BatchInv, PoolInv
    <2>2. /\ n' = n /\ hand' \in [Workers -> 0 .. n] /\ hand'[w] = 0
          /\ \A x \in Workers : x # w => hand'[x] = hand[x]
          /\ DOMAIN results' = 1 .. n
          /\ \A i \in 1 .. n : i # h => results'[i] = results[i]
          /\ h \in 1 .. n /\ results'[h] = ok
      BY <1>0, <1>1, <2>1 DEF n
    <2>3. ASSUME NEW i \in 1 .. (next - 1)
          PROVE  Accounted(i)'
      <3>1. i \in 1 .. n /\ Verdict(i)' = Verdict(i)
        BY <1>1, <2>1 DEF Verdict
      <3>2. CASE i = h
        BY <1>0, <2>2, <3>1, <3>2 DEF Accounted
      <3>3. CASE i # h
        <4>1. ASSUME NEW x \in running, hand[x] = i
              PROVE  hand'[x] = i
          BY <2>1, <2>2, <3>3, <4>1
        <4> QED
          BY <1>1, <2>1, <2>2, <3>1, <3>3, <4>1 DEF Accounted
      <3> QED
        BY <3>2, <3>3
    <2> QED
      BY <1>1, <2>1, <2>2, <2>3 DEF BatchInv, PoolInv
  <1> QED
    BY <1>1, <1>2, <1>3 DEF BatchInv, IdleInv, ResultsComplete

\* A process that has died promises nothing.
LEMMA CrashStep ==
  ASSUME BatchInv, NEW w \in Workers, Crash(w)
  PROVE  BatchInv'
  <1>1. pc' = "panicked"
    BY DEF Crash
  <1> QED
    BY <1>1 DEF BatchInv, IdleInv, PoolInv, ResultsComplete

\* A goroutine leaves only when the channel is closed and drained.
LEMMA ExitStep ==
  ASSUME BatchInv, NEW w \in Workers, Exit(w)
  PROVE  BatchInv'
  <1>1. /\ w \in running /\ hand[w] = 0 /\ jobs = << >> /\ closed
        /\ running' = running \ {w}
        /\ UNCHANGED <<groupKeys, messages, sigs, pc, jobs, closed, next, hand,
                       results, ret>>
    BY DEF Exit, call
  <1>2. PoolInv'
    <2> SUFFICES ASSUME pc \in {"dispatch", "wait"}
                 PROVE  PoolInv'
      BY <1>1 DEF PoolInv
    <2>1. /\ n' = n /\ n \in Nat /\ next \in 1 .. (n + 1)
          /\ \A i \in 1 .. (next - 1) : Accounted(i)
      BY <1>1 DEF BatchInv, PoolInv, n
    <2>2. \A i \in 1 .. (next - 1) : Accounted(i)'
      BY <1>1, <2>1 DEF Accounted, Verdict
    <2> QED
      BY <1>1, <2>1, <2>2 DEF BatchInv, PoolInv
  <1> QED
    BY <1>1, <1>2 DEF BatchInv, IdleInv, ResultsComplete

\* When nobody runs, nothing is queued or in hand, so everything is answered.
LEMMA ReturnStep ==
  ASSUME BatchInv, Return
  PROVE  BatchInv'
  <1>1. /\ pc = "wait" /\ running = {} /\ pc' = "returned"
        /\ ret'.results = results
        /\ UNCHANGED <<groupKeys, messages, sigs, results>>
    BY DEF Return, Answer, call
  <1>2. /\ n \in Nat \ {0} /\ DOMAIN sigs = 1 .. n /\ DOMAIN results = 1 .. n
        /\ next = n + 1 /\ \A i \in 1 .. (next - 1) : Accounted(i)
        /\ running # 1 .. PoolSize(n) => jobs = << >>
    BY <1>1 DEF BatchInv, PoolInv
  <1>3. jobs = << >>
    BY <1>1, <1>2, PoolFacts
  <1>4. \A i \in 1 .. n : results[i] \in Verdict(i)
    <2>1. 1 .. (next - 1) = 1 .. n /\ 1 .. Len(jobs) = {}
      BY <1>2, <1>3
    <2> QED
      BY <1>1, <1>2, <2>1 DEF Accounted
  <1>5. ResultsComplete'
    BY <1>1, <1>2, <1>4 DEF ResultsComplete, Verdict
  <1> QED
    BY <1>1, <1>5 DEF BatchInv, IdleInv, PoolInv

\* Every step keeps the invariant.
LEMMA BatchStep == BatchInv /\ [Next]_vars => BatchInv'
  <1> SUFFICES ASSUME BatchInv, [Next]_vars
               PROVE  BatchInv'
    OBVIOUS
  <1>1. ASSUME NEW m \in Message, Arrive(m) \/ ArriveAltered(m)
        PROVE  BatchInv'
    <2>1. pc = "idle" /\ UNCHANGED <<call, pc, pool, results, ret>>
      BY <1>1 DEF Arrive, ArriveAltered
    <2> QED
      BY <2>1 DEF pool, BatchInv, IdleInv, PoolInv, ResultsComplete
  <1>2. CASE UNCHANGED vars
    <2>1. UNCHANGED <<groupKeys, messages, sigs, pc, jobs, closed, next, hand,
                      running, results, ret>>
      BY <1>2 DEF vars, call, pool
    <2>2. n' = n /\ \A i : Accounted(i)' <=> Accounted(i)
      BY <2>1 DEF n, Accounted, Verdict
    <2> QED
      BY <2>1, <2>2 DEF BatchInv, IdleInv, PoolInv, ResultsComplete
  <1> QED
    BY <1>1, <1>2, CallStep, SendStep, CloseStep, ReturnStep, TakeStep,
       StoreStep, CrashStep, ExitStep DEF Next, Caller, Work

\* When VerifyBatch returns an answer, it holds for each tuple what Verify can
\* say of it, however many goroutines shared the work and in whatever order.
THEOREM ResultsTheorem == Spec => []ResultsComplete
  <1>1. Init => BatchInv
    BY DEF Init, BatchInv, IdleInv, PoolInv, ResultsComplete
  <1>2. BatchInv => ResultsComplete
    BY DEF BatchInv
  <1> QED
    BY <1>1, <1>2, BatchStep, PTL DEF Spec

-----------------------------------------------------------------------------
(* What is reported of the bytes that arrived.                             *)

\* What arrived are tuples of frames, and the arguments of the call are what
\* was parsed of them; of the keys, when there is a result to be had.
CallInv ==
  /\ arrived \in Seq(Tuples)
  /\ pc \notin {"idle", "panicked"} =>
       /\ DOMAIN sigs = 1 .. Len(arrived)
       /\ \A i \in 1 .. Len(arrived) :
            /\ sigs[i] = UnmarshalSignature(arrived[i].sig)
            /\ messages[i] = arrived[i].msg
  /\ pc \in {"dispatch", "wait"} \/ (pc = "returned" /\ ret.results # Nil) =>
       \A i \in 1 .. Len(arrived) :
         groupKeys[i] = UnmarshalGroupKey(arrived[i].gk)

\* Every step keeps what arrived and what was parsed of it together.
LEMMA CallInvStep == CallInv /\ [Next]_vars => CallInv'
  <1> SUFFICES ASSUME CallInv, [Next]_vars
               PROVE  CallInv'
    OBVIOUS
  <1>1. ASSUME NEW t \in Tuples, pc = "idle", arrived' = Append(arrived, t),
               UNCHANGED pc
        PROVE  CallInv'
    <2>1. arrived \in Seq(Tuples)
      BY DEF CallInv
    <2>2. arrived' \in Seq(Tuples)
      BY <1>1, <2>1
    <2> QED
      BY <1>1, <2>2 DEF CallInv
  <1>2. ASSUME NEW m \in Message, Arrive(m)
        PROVE  CallInv'
    <2>1. Encoded(m) \in Tuples
      BY EncodedType
    <2> QED
      BY <1>1, <1>2, <2>1 DEF Arrive
  <1>3. ASSUME NEW m \in Message, ArriveAltered(m)
        PROVE  CallInv'
    <2>1. PICK t \in AlteredTuples(m) : arrived' = Append(arrived, t)
      BY <1>3 DEF ArriveAltered
    <2>2. t \in Tuples
      BY <2>1, AlteredTupleType
    <2> QED
      BY <1>1, <1>3, <2>1, <2>2 DEF ArriveAltered
  <1>4. ASSUME NEW k \in 0 .. Len(arrived), Call(k)
        PROVE  CallInv'
    <2> DEFINE l == Len(arrived)
    <2>1. /\ arrived' = arrived /\ arrived \in Seq(Tuples)
          /\ sigs' = [i \in 1 .. l |-> UnmarshalSignature(arrived[i].sig)]
          /\ messages' = [i \in 1 .. l |-> arrived[i].msg]
          /\ groupKeys' = [i \in 1 .. k |-> UnmarshalGroupKey(arrived[i].gk)]
      BY <1>4 DEF Call, CallInv
    <2>2. l # k \/ l = 0 => pc' = "returned" /\ ret'.results = Nil
      BY <1>4 DEF Call, Answer
    <2>3. CASE l # k \/ l = 0
      BY <2>1, <2>2, <2>3 DEF CallInv
    <2>4. CASE l = k
      BY <2>1, <2>4 DEF CallInv
    <2> QED
      BY <2>3, <2>4
  <1>5. CASE SendJob \/ CloseJobs
    BY <1>5 DEF SendJob, CloseJobs, call, CallInv
  <1>6. CASE Return
    BY <1>6 DEF Return, call, CallInv
  <1>7. ASSUME UNCHANGED <<arrived, groupKeys, messages, sigs, pc, ret>>
        PROVE  CallInv'
    BY <1>7 DEF CallInv
  <1>8. ASSUME NEW w \in Workers, Work(w)
        PROVE  CallInv'
    <2>1. CASE TakeJob(w) \/ Store(w) \/ Exit(w)
      BY <1>7, <2>1 DEF TakeJob, Store, Exit, call
    <2>2. CASE Crash(w)
      BY <2>2 DEF Crash, CallInv
    <2> QED
      BY <1>8, <2>1, <2>2 DEF Work
  <1>9. CASE UNCHANGED vars
    BY <1>7, <1>9 DEF vars, call
  <1> QED
    BY <1>2, <1>3, <1>4, <1>5, <1>6, <1>8, <1>9 DEF Next, Caller

\* A result is what VerifyBytes can say of the bytes of its tuple, so what the
\* encoders wrote is reported valid, and only the encoding of the group's key
\* and of a signature like the one issued is.
LEMMA OnlyIssued ==
  ASSUME CallInv, ResultsComplete
  PROVE  OnlyIssuedVerifies
  <1> DEFINE Genuine(m, s) ==
               /\ Len(s.Z) = Len(Issued[m].Z)
               /\ Len(s.Delta) = Len(Issued[m].Delta)
               /\ RingSignature(s) => Equations(m, s)
  <1> SUFFICES ASSUME pc = "returned", ret.results # Nil,
                      NEW i \in DOMAIN ret.results
               PROVE  /\ arrived[i] = Encoded(arrived[i].msg) => ret.results[i]
                      /\ ret.results[i] =>
                           /\ arrived[i].gk = MarshalGroupKey(Key)
                           /\ arrived[i].sig = MarshalSignature(sigs[i])
                           /\ Genuine(arrived[i].msg, sigs[i])
    BY Zenon DEF OnlyIssuedVerifies
  <1> DEFINE t == arrived[i]
             g == t.gk
             m == t.msg
             s == t.sig
             r == ret.results[i]
             sig == sigs[i]
  <1>1. /\ i \in 1 .. Len(arrived) /\ i \in DOMAIN sigs
        /\ sig = UnmarshalSignature(s) /\ messages[i] = m
        /\ groupKeys[i] = UnmarshalGroupKey(g)
    BY DEF CallInv, ResultsComplete
  <1>2. r \in Verify(groupKeys[i], messages[i], sig)
    BY <1>1 DEF ResultsComplete
  <1>3. r \in VerifyBytes(g, m, s)
    BY <1>1, <1>2, Zenon DEF VerifyBytes
  <1>4. t \in Tuples
    BY <1>1 DEF CallInv
  <1> HIDE DEF t
  <1>5. g \in Frames /\ m \in Message /\ s \in Frames
    BY <1>4 DEF Tuples
  <1>6. t = Encoded(m) => g = MarshalGroupKey(Key) /\ s = MarshalSignature(Issued[m])
    BY DEF Encoded
  <1> HIDE DEF g, m, s, r, sig
  <1>7. TRUE \in VerifyBytes(g, m, s) =>
          /\ g = MarshalGroupKey(Key) /\ s = MarshalSignature(sig)
          /\ Genuine(m, sig)
    BY <1>1, <1>5, VerifyBytesIssued, Zenon
  <1>8. VerifyBytes(MarshalGroupKey(Key), m, MarshalSignature(Issued[m])) = {TRUE}
    BY <1>5, VerifyBytesIssued
  <1>9. ASSUME t = Encoded(m)
        PROVE  r
    <2>1. VerifyBytes(g, m, s) = {TRUE}
      BY <1>6, <1>8, <1>9, Zenon
    <2>2. r = TRUE
      BY <1>3, <2>1, Zenon
    <2> QED
      BY <2>2, Zenon
  <1>10. r \in BOOLEAN
    BY <1>3, Zenon DEF VerifyBytes, Verify
  <1>11. r => TRUE \in VerifyBytes(g, m, s)
    BY <1>3, <1>10, Zenon
  <1> HIDE DEF Genuine
  <1>12. r => /\ g = MarshalGroupKey(Key) /\ s = MarshalSignature(sig)
              /\ Genuine(m, sig)
    BY <1>7, <1>11, Zenon
  <1> QED
    BY <1>9, <1>12, Zenon DEF t, g, m, s, r, sig

\* What the encoders write for the group's key and the signature issued is
\* reported valid, and besides that only the encoding of a signature of the same
\* length and, within the ring, the same residues, whatever was altered and
\* however the pool shared the work.
THEOREM OnlyIssuedTheorem == Spec => []OnlyIssuedVerifies
  <1>1. Init => CallInv
    BY DEF Init, CallInv
  <1>2. Spec => []CallInv
    BY <1>1, CallInvStep, PTL DEF Spec
  <1> QED
    BY <1>2, ResultsTheorem, OnlyIssued, PTL
=============================================================================
