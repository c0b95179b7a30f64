----------------------------- MODULE WireFrames -----------------------------
(***************************************************************************)
(* The wire formats: the frame walkers of package wire, and the encoders   *)
(* and decoders of threshold/wire.go around them.                          *)
(*                                                                         *)
(* A frame is a sequence of cells.  A cell is the eight bytes of one count *)
(* or one coefficient; a length prefix is a cell too and counts cells, so  *)
(* lengths that split a cell are left out.  Nil stands for an error.  The  *)
(* decoders of the lattice library size their work from the counts they    *)
(* read; they are external.                                                *)
(***************************************************************************)
EXTENDS Integers, Sequences, SequencesExt

CONSTANTS
  MaxLatticeUintSliceLen,  \* the count corona accepts at most
  MaxFrameCells,           \* MaxFrameBytes, in cells
  Nil                      \* an error, the Go nil

ASSUME WireAssumption ==
  /\ MaxLatticeUintSliceLen \in Nat
  /\ MaxFrameCells \in Nat

CellBytes == 8

Cells == Seq(Nat)

\* A polynomial: moduli, ring degree, and the coefficients modulo each modulus.
Polys == [levels : Nat, n : Nat, coeffs : Cells]
Vectors == Seq(Polys)
Matrices == Seq(Vectors)

\* A value of V read from the front of some bytes, and what follows it.
Read(V) == [value : V, rest : Cells]

\* nil is none of the values.
ASSUME NilAssumption ==
  /\ Nil \notin Cells /\ Nil \notin Seq(Cells)
  /\ Nil \notin Read(Nat) /\ Nil \notin Read(Cells) /\ Nil \notin Read(Seq(Cells))
  /\ Nil \notin Read(Polys) /\ Nil \notin Read(Vectors)
  /\ Nil \notin Read(Matrices)
  /\ Nil \notin [C : Polys, Z : Vectors, Delta : Vectors]
  /\ Nil \notin [A : Matrices, BTilde : Vectors]

\* What is left of b after i readings in a row, each of which leaves walk[c] of
\* c; i is at most k.
Rests(walk, b, k) ==
  LET rest[i \in 0 .. k] ==
        IF i = 0 THEN b
        ELSE LET prev == rest[i - 1] IN IF prev = Nil THEN Nil ELSE walk[prev]
  IN  rest

-----------------------------------------------------------------------------
(* Package wire.  A walker maps bytes to what follows the walked part.     *)

\* frameFits.
FrameFits(frame) == Len(frame) <= MaxFrameCells

\* takeCount: a count no larger than the bytes left and the cap.
TakeCount(b) ==
  IF \/ b = << >>
     \/ Head(b) > CellBytes * (Len(b) - 1)
     \/ Head(b) > MaxLatticeUintSliceLen
  THEN Nil
  ELSE [value |-> Head(b), rest |-> Tail(b)]

\* walkPoly: two counts, and as many coefficients as their product, bounded by
\* a division.
WalkPoly ==
  [b \in Cells |->
     LET levels == TakeCount(b)
         n == IF levels = Nil THEN Nil ELSE TakeCount(levels.rest)
     IN
     IF \/ n = Nil
        \/ n.value # 0 /\ levels.value > Len(n.rest) \div n.value
     THEN Nil
     ELSE SubSeq(n.rest, levels.value * n.value + 1, Len(n.rest))]

\* A count, and that many walks.
WalkMany(b, walk) ==
  LET c == TakeCount(b) IN
  IF c = Nil THEN Nil ELSE Rests(walk, c.rest, c.value)[c.value]

\* walkVector.
WalkVector == [b \in Cells |-> WalkMany(b, WalkPoly)]

\* Mutant: bytes after the end are ignored.
NoTrailing_Ignored(rest) == rest # Nil

\* noTrailing, of a walk that did not fail.
NoTrailing(rest) == rest = << >>

ValidatePolyFrame(frame) == FrameFits(frame) /\ NoTrailing(WalkPoly[frame])

ValidateVectorPolyFrame(frame) ==
  FrameFits(frame) /\ NoTrailing(WalkVector[frame])

ValidateMatrixPolyFrame(frame) ==
  FrameFits(frame) /\ NoTrailing(WalkMany(frame, WalkVector))

-----------------------------------------------------------------------------
(* The lattice library.  A decoder maps bytes to the value at their front  *)
(* and what it did not read; a short read is an error.                     *)

\* What dec does not read.
Skip(dec) ==
  [c \in Cells |-> LET d == dec[c] IN IF d = Nil THEN Nil ELSE d.rest]

\* k values in a row.
ReadSeq(b, dec, k) ==
  LET rest == Rests(Skip(dec), b, k) IN
  IF rest[k] = Nil THEN Nil
  ELSE [value |-> [i \in 1 .. k |-> dec[rest[i - 1]].value],
        rest  |-> rest[k]]

EncodePoly(p) == <<p.levels, p.n>> \o p.coeffs

EncodeMany(encs) == <<Len(encs)>> \o FlattenSeq(encs)

EncodeVector(v) == EncodeMany([i \in 1 .. Len(v) |-> EncodePoly(v[i])])

EncodeMatrix(m) == EncodeMany([i \in 1 .. Len(m) |-> EncodeVector(m[i])])

\* The layout wire/wire.go documents: two counts and their product of
\* coefficients.
\* The repository's tests meet it with one modulus only; the library's own
\* header for another ring is not known here.
DecodePoly ==
  [b \in Cells |->
     IF Len(b) < 2 \/ Len(b) < 2 + b[1] * b[2] THEN Nil
     ELSE [value |-> [levels |-> b[1], n |-> b[2],
                      coeffs |-> SubSeq(b, 3, 2 + b[1] * b[2])],
           rest  |-> SubSeq(b, 3 + b[1] * b[2], Len(b))]]

DecodeMany(b, dec) ==
  IF b = << >> THEN Nil ELSE ReadSeq(Tail(b), dec, Head(b))

DecodeVector == [b \in Cells |-> DecodeMany(b, DecodePoly)]

DecodeMatrix == [b \in Cells |-> DecodeMany(b, DecodeVector)]

-----------------------------------------------------------------------------
(* threshold/wire.go.                                                      *)

wireMagicSig == "CORS"
wireMagicGroupKey == "CORG"
wireVersionV1 == 1

\* magic, version, and each body behind its length.
Frame(magic, bodies) ==
  [magic |-> magic, version |-> wireVersionV1,
   cells |-> FlattenSeq([i \in 1 .. Len(bodies) |->
                           <<Len(bodies[i])>> \o bodies[i]])]

\* readLenPrefixed.
ReadLenPrefixed ==
  [c \in Cells |->
     IF c = << >> \/ Head(c) > Len(c) - 1 THEN Nil
     ELSE [value |-> SubSeq(c, 2, Head(c) + 1),
           rest  |-> SubSeq(c, Head(c) + 2, Len(c))]]

\* The k bodies of a frame with this magic and the known version, and nothing
\* after them.
Bodies(frame, magic, k) ==
  LET r == ReadSeq(frame.cells, ReadLenPrefixed, k) IN
  IF \/ frame.magic # magic
     \/ frame.version # wireVersionV1
     \/ r = Nil
  THEN Nil
  ELSE IF r.rest # << >> THEN Nil ELSE r.value

\* (*Signature).MarshalBinary.
MarshalSignature(sig) ==
  Frame(wireMagicSig,
        <<EncodePoly(sig.C), EncodeVector(sig.Z), EncodeVector(sig.Delta)>>)

\* (*Signature).UnmarshalBinary: every body is walked, then decoded.
UnmarshalSignature(frame) ==
  LET b == Bodies(frame, wireMagicSig, 3) IN
  IF b = Nil THEN Nil
  ELSE IF \/ ~ValidatePolyFrame(b[1])
          \/ ~ValidateVectorPolyFrame(b[2])
          \/ ~ValidateVectorPolyFrame(b[3])
  THEN Nil
  ELSE [C     |-> DecodePoly[b[1]].value,
        Z     |-> DecodeVector[b[2]].value,
        Delta |-> DecodeVector[b[3]].value]

\* (*GroupKey).MarshalBinary.
MarshalGroupKey(gk) ==
  Frame(wireMagicGroupKey, <<EncodeMatrix(gk.A), EncodeVector(gk.BTilde)>>)

\* (*GroupKey).UnmarshalBinary; Params is rebuilt, not read.
UnmarshalGroupKey(frame) ==
  LET b == Bodies(frame, wireMagicGroupKey, 2) IN
  IF b = Nil THEN Nil
  ELSE IF ~ValidateMatrixPolyFrame(b[1]) \/ ~ValidateVectorPolyFrame(b[2])
  THEN Nil
  ELSE [A |-> DecodeMatrix[b[1]].value, BTilde |-> DecodeVector[b[2]].value]
=============================================================================
