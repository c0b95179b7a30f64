------------------------- MODULE ZapTransportProofs -------------------------
(* Safety of the transport's receive side, for every set of peers and      *)
(* receivers and every number of messages.                                 *)
EXTENDS ZapTransport, FiniteSetTheorems, SequenceTheorems, TLAPS

-----------------------------------------------------------------------------
(* The sequences FIFO speaks of.                                           *)

\* Appending to the queue appends to what was taken and is queued.
LEMMA AppendConcat ==
  ASSUME NEW s \in Seq(Nat), NEW q \in Seq(Nat), NEW x \in Nat
  PROVE  s \o Append(q, x) = Append(s \o q, x)
  OBVIOUS

\* Appending body n + 1 to the first n bodies gives the first n + 1.
LEMMA PrefixAppend ==
  ASSUME NEW n \in Nat, NEW t \in Seq(Nat), t = [k \in 1 .. n |-> k]
  PROVE  Append(t, n + 1) = [k \in 1 .. n + 1 |-> k]
<1>1. Len(t) = n
  BY LenProperties
<1> QED  BY <1>1

\* Moving the head of the queue to the end of what was taken changes nothing.
LEMMA HeadMoves ==
  ASSUME NEW s \in Seq(Nat), NEW q \in Seq(Nat), q # <<>>
  PROVE  Append(s, Head(q)) \o Tail(q) = s \o q
  OBVIOUS

-----------------------------------------------------------------------------
(* The inductive invariant.                                                *)

\* The map sends each rank to a stream made for it, so no two ranks share one.
OwnStream ==
  \A p \in Peer : streams[p] # 0 => heap[streams[p]].peer = p

\* Past getOrCreateStream a goroutine holds the stream that is in the map: no
\* stream is ever replaced there.
HoldsStream ==
  \A q \in Proc : pc[q] \in {"have", "wait", "eof"} => ps[q] = streams[From(q)]

\* Until its stream closes, p's handler has pushed every message it was invoked
\* for, but the one it is working on.
Numbered ==
  \A p \in Peer : (streams[p] = 0 \/ ~heap[streams[p]].closed) =>
    handled[p] = IF pc[p] = "idle" THEN accepted[p] ELSE accepted[p] + 1

\* A receiver that got io.EOF left a stream that is closed and empty.
EOFClosed ==
  \A r \in Receiver : pc[r] = "eof" =>
    heap[ps[r]].closed /\ heap[ps[r]].queue = <<>>

IInv ==
  /\ TypeOK
  /\ OwnStream
  /\ HoldsStream
  /\ Numbered
  /\ EOFClosed
  /\ FIFO

-----------------------------------------------------------------------------
(* What the steps do to the heap.                                          *)

\* Updating one stream leaves the others, and the length of the heap, alone.
LEMMA HeapUpdate ==
  ASSUME NEW h \in Seq(PeerStream), NEW s \in 1 .. Len(h), NEW x \in PeerStream
  PROVE  /\ [h EXCEPT ![s] = x] \in Seq(PeerStream)
         /\ Len([h EXCEPT ![s] = x]) = Len(h)
         /\ \A i \in 1 .. Len(h) :
              [h EXCEPT ![s] = x][i] = IF i = s THEN x ELSE h[i]
  BY ExceptSeq

\* A stream of the heap is a PeerStream.
LEMMA HeapElement ==
  ASSUME TypeOK, NEW s \in 1 .. Len(heap)
  PROVE  /\ heap[s] \in PeerStream
         /\ heap[s].peer \in Peer
         /\ heap[s].queue \in Seq(Nat)
         /\ heap[s].closed \in BOOLEAN
<1>1. heap \in Seq(PeerStream)
  BY DEF TypeOK
<1>2. heap[s] \in PeerStream
  BY <1>1, ElementOfSeq
<1> QED  BY <1>2 DEF PeerStream

\* Updating a field of a stream keeps the others.
LEMMA FieldUpdate ==
  ASSUME NEW x \in PeerStream, NEW v
  PROVE  /\ [x EXCEPT !.queue = v] =
              [peer |-> x.peer, closed |-> x.closed, queue |-> v]
         /\ [x EXCEPT !.closed = v] =
              [peer |-> x.peer, closed |-> v, queue |-> x.queue]
  BY DEF PeerStream

\* From(q) is a rank.
LEMMA FromPeer ==
  ASSUME NEW q \in Proc
  PROVE  From(q) \in Peer
  BY SrcAssumption DEF From, Proc

\* A goroutine past getOrCreateStream holds an index of the heap.
LEMMA HeldIndex ==
  ASSUME TypeOK, NEW q \in Proc, pc[q] \in {"have", "wait", "eof"}
  PROVE  ps[q] \in 1 .. Len(heap)
  BY DEF TypeOK

\* So does a rank that is in the map.
LEMMA StreamIndex ==
  ASSUME TypeOK, NEW p \in Peer, streams[p] # 0
  PROVE  streams[p] \in 1 .. Len(heap)
  BY DEF TypeOK

\* A queue is a sequence of body numbers.
LEMMA QueueType ==
  ASSUME TypeOK, NEW p \in Peer
  PROVE  Queue(p) \in Seq(Nat)
<1>1. CASE streams[p] = 0
  BY <1>1 DEF Queue
<1>2. CASE streams[p] # 0
  BY <1>2, StreamIndex, HeapElement DEF Queue
<1> QED  BY <1>1, <1>2

\* CreateStream: either nothing changes, or a fresh empty stream enters the map.
LEMMA CreateEffect ==
  ASSUME TypeOK, NEW q \in Proc, CreateStream(q)
  PROVE  \/ /\ streams[From(q)] # 0
            /\ UNCHANGED <<heap, streams>>
         \/ /\ streams[From(q)] = 0
            /\ heap' \in Seq(PeerStream)
            /\ Len(heap') = Len(heap) + 1
            /\ \A i \in 1 .. Len(heap) : heap'[i] = heap[i]
            /\ heap'[Len(heap) + 1] = NewPeerStream(From(q))
            /\ streams' = [streams EXCEPT ![From(q)] = Len(heap) + 1]
<1>1. NewPeerStream(From(q)) \in PeerStream
  BY FromPeer DEF NewPeerStream, PeerStream
<1>2. CASE streams[From(q)] # 0
  BY <1>2 DEF CreateStream, Absent
<1>3. CASE streams[From(q)] = 0
  <2>1. /\ heap' = Append(heap, NewPeerStream(From(q)))
        /\ streams' = [streams EXCEPT ![From(q)] = Len(heap) + 1]
    BY <1>3 DEF CreateStream, Absent
  <2> QED  BY <1>1, <1>3, <2>1 DEF TypeOK
<1> QED  BY <1>2, <1>3

\* Push: the body is dropped, or goes to the end of the queue of ps[p].
LEMMA PushEffect ==
  ASSUME TypeOK, NEW p \in Peer, Push(p)
  PROVE  \/ /\ heap[ps[p]].closed
            /\ pc' = [pc EXCEPT ![p] = "idle"]
            /\ UNCHANGED <<heap, accepted>>
         \/ /\ ~heap[ps[p]].closed
            /\ heap' \in Seq(PeerStream)
            /\ Len(heap') = Len(heap)
            /\ \A i \in 1 .. Len(heap) :
                 /\ heap'[i].peer = heap[i].peer
                 /\ heap'[i].closed = heap[i].closed
                 /\ heap'[i].queue = IF i = ps[p]
                                      THEN Append(heap[i].queue, handled[p])
                                      ELSE heap[i].queue
            /\ accepted' = [accepted EXCEPT ![p] = @ + 1]
            /\ \E W \in Signal(ps[p]) :
                 pc' = [q \in Proc |-> IF q = p THEN "idle"
                                       ELSE IF q \in W THEN "have" ELSE pc[q]]
<1> DEFINE s == ps[p]
           x == [peer |-> heap[s].peer, closed |-> heap[s].closed,
                 queue |-> Append(heap[s].queue, handled[p])]
<1>1. s \in 1 .. Len(heap)
  BY HeldIndex DEF Push, Proc
<1>2. heap[s] \in PeerStream /\ x \in PeerStream
  <2>1. handled[p] \in Nat
    BY DEF TypeOK
  <2>2. Append(heap[s].queue, handled[p]) \in Seq(Nat)
    BY <1>1, <2>1, HeapElement
  <2> QED  BY <1>1, <2>2, HeapElement DEF PeerStream
<1>3. CASE heap[s].closed
  BY <1>3 DEF Push, Dropped
<1>4. CASE ~heap[s].closed
  <2>1. heap' = [heap EXCEPT ![s] = x]
    <3>1. heap' = [heap EXCEPT ![s].queue = Append(@, handled[p])]
      BY <1>4 DEF Push, Dropped
    <3> QED  BY <1>2, <3>1, FieldUpdate
  <2> HIDE DEF x
  <2>2. /\ heap' \in Seq(PeerStream)
        /\ Len(heap') = Len(heap)
        /\ \A i \in 1 .. Len(heap) : heap'[i] = IF i = s THEN x ELSE heap[i]
    BY <2>1, <1>1, <1>2, HeapUpdate DEF TypeOK
  <2>3. /\ x.peer = heap[s].peer
        /\ x.closed = heap[s].closed
        /\ x.queue = Append(heap[s].queue, handled[p])
    BY DEF x
  <2>4. \A i \in 1 .. Len(heap) :
          /\ heap'[i].peer = heap[i].peer
          /\ heap'[i].closed = heap[i].closed
          /\ heap'[i].queue = IF i = ps[p]
                               THEN Append(heap[i].queue, handled[p])
                               ELSE heap[i].queue
    BY <2>2, <2>3
  <2> QED  BY <1>4, <2>2, <2>4 DEF Push, Dropped
<1> QED  BY <1>3, <1>4

\* Push ends p's handler and moves no goroutine but a parked receiver.
LEMMA PushWakes ==
  ASSUME TypeOK, NEW p \in Peer, Push(p)
  PROVE  /\ DOMAIN pc' = Proc
         /\ pc' = [q \in Proc |-> pc'[q]]
         /\ pc'[p] = "idle"
         /\ \A k \in Proc \ {p} :
              \/ pc'[k] = pc[k]
              \/ k \in Receiver /\ pc[k] = "wait" /\ pc'[k] = "have"
<1>1. CASE pc' = [pc EXCEPT ![p] = "idle"]
  BY <1>1 DEF TypeOK, Proc
<1>2. ASSUME NEW W \in Signal(ps[p]),
             pc' = [q \in Proc |-> IF q = p THEN "idle"
                                   ELSE IF q \in W THEN "have" ELSE pc[q]]
      PROVE  /\ DOMAIN pc' = Proc
             /\ pc' = [q \in Proc |-> pc'[q]]
             /\ pc'[p] = "idle"
             /\ \A k \in Proc \ {p} :
                  \/ pc'[k] = pc[k]
                  \/ k \in Receiver /\ pc[k] = "wait" /\ pc'[k] = "have"
  <2>1. \A q \in W : q \in Receiver /\ pc[q] = "wait"
    BY DEF Signal, Waiters
  <2> QED  BY <1>2, <2>1 DEF Proc
<1> QED  BY <1>1, <1>2, PushEffect

\* PopBody: the head of the queue of ps[r] goes.
LEMMA PopEffect ==
  ASSUME TypeOK, NEW r \in Receiver, PopBody(r)
  PROVE  /\ heap' \in Seq(PeerStream)
         /\ Len(heap') = Len(heap)
         /\ \A i \in 1 .. Len(heap) :
              /\ heap'[i].peer = heap[i].peer
              /\ heap'[i].closed = heap[i].closed
              /\ heap'[i].queue = IF i = ps[r] THEN Tail(heap[i].queue)
                                              ELSE heap[i].queue
<1> DEFINE s == ps[r]
           x == [peer |-> heap[s].peer, closed |-> heap[s].closed,
                 queue |-> Tail(heap[s].queue)]
<1>1. s \in 1 .. Len(heap)
  BY HeldIndex DEF PopBody, Proc
<1>2. heap[s] \in PeerStream /\ x \in PeerStream
  BY <1>1, HeapElement, HeadTailProperties DEF PopBody, PeerStream
<1>3. heap' = [heap EXCEPT ![s] = x]
  BY <1>2, FieldUpdate DEF PopBody
<1> HIDE DEF x
<1>4. /\ heap' \in Seq(PeerStream)
      /\ Len(heap') = Len(heap)
      /\ \A i \in 1 .. Len(heap) : heap'[i] = IF i = s THEN x ELSE heap[i]
  BY <1>3, <1>1, <1>2, HeapUpdate DEF TypeOK
<1>5. /\ x.peer = heap[s].peer
      /\ x.closed = heap[s].closed
      /\ x.queue = Tail(heap[s].queue)
  BY DEF x
<1> QED  BY <1>4, <1>5

\* CloseStream: the closed flag of s goes up.
LEMMA CloseEffect ==
  ASSUME TypeOK, NEW s \in toClose, CloseStream(s)
  PROVE  /\ heap' \in Seq(PeerStream)
         /\ Len(heap') = Len(heap)
         /\ \A i \in 1 .. Len(heap) :
              /\ heap'[i].peer = heap[i].peer
              /\ heap'[i].closed = IF i = s THEN TRUE ELSE heap[i].closed
              /\ heap'[i].queue = heap[i].queue
<1> DEFINE x == [peer |-> heap[s].peer, closed |-> TRUE, queue |-> heap[s].queue]
<1>1. s \in 1 .. Len(heap)
  BY DEF TypeOK
<1>2. heap[s] \in PeerStream /\ x \in PeerStream
  BY <1>1, HeapElement DEF PeerStream
<1>3. heap' = [heap EXCEPT ![s] = x]
  BY <1>2, FieldUpdate DEF CloseStream
<1> HIDE DEF x
<1>4. /\ heap' \in Seq(PeerStream)
      /\ Len(heap') = Len(heap)
      /\ \A i \in 1 .. Len(heap) : heap'[i] = IF i = s THEN x ELSE heap[i]
  BY <1>3, <1>1, <1>2, HeapUpdate DEF TypeOK
<1>5. /\ x.peer = heap[s].peer
      /\ x.closed = TRUE
      /\ x.queue = heap[s].queue
  BY DEF x
<1> QED  BY <1>4, <1>5

-----------------------------------------------------------------------------
(* The steps preserve the invariant.                                       *)

\* TypeOK is inductive.
LEMMA TypeStep ==
  ASSUME IInv, [Next]_vars
  PROVE  TypeOK'
<1> USE DEF IInv
<1>1. ASSUME NEW p \in Peer, Send(p) PROVE TypeOK'
  BY <1>1 DEF Send, TypeOK
<1>2. ASSUME NEW p \in Peer, HandleIncoming(p) PROVE TypeOK'
  BY <1>2 DEF HandleIncoming, TypeOK, Proc
<1>3. ASSUME NEW r \in Receiver, RecvBody(r) PROVE TypeOK'
  BY <1>3 DEF RecvBody, TypeOK, Proc
<1>4. ASSUME NEW q \in Proc, LookUpStream(q) PROVE TypeOK'
  BY <1>4, FromPeer DEF LookUpStream, Found, TypeOK
<1>5. ASSUME NEW q \in Proc, CreateStream(q) PROVE TypeOK'
  <2>1. /\ heap' \in Seq(PeerStream)
        /\ streams' \in [Peer -> 0 .. Len(heap')]
        /\ streams'[From(q)] # 0
        /\ Len(heap') \in {Len(heap), Len(heap) + 1}
    <3>1. From(q) \in Peer
      BY FromPeer
    <3>2. CASE streams[From(q)] # 0 /\ UNCHANGED <<heap, streams>>
      BY <3>1, <3>2 DEF TypeOK
    <3>3. CASE /\ heap' \in Seq(PeerStream)
               /\ Len(heap') = Len(heap) + 1
               /\ streams' = [streams EXCEPT ![From(q)] = Len(heap) + 1]
      <4>1. Len(heap) \in Nat
        BY LenProperties DEF TypeOK
      <4> QED  BY <3>1, <3>3, <4>1 DEF TypeOK
    <3> QED  BY <1>5, <3>2, <3>3, CreateEffect
  <2>2. /\ ps' = [ps EXCEPT ![q] = streams'[From(q)]]
        /\ pc' = [pc EXCEPT ![q] = "have"]
        /\ UNCHANGED <<sent, handled, life, toClose, accepted, taken>>
    BY <1>5 DEF CreateStream
  <2>3. /\ 0 .. Len(heap) \subseteq 0 .. Len(heap')
        /\ 1 .. Len(heap) \subseteq 1 .. Len(heap')
    <3>1. Len(heap) \in Nat
      BY LenProperties DEF TypeOK
    <3> QED  BY <2>1, <3>1
  <2>4. streams'[From(q)] \in 0 .. Len(heap')
    BY <2>1, FromPeer
  <2>5. ps' \in [Proc -> 0 .. Len(heap')]
    BY <2>2, <2>3, <2>4 DEF TypeOK
  <2>6. toClose' \subseteq 1 .. Len(heap')
    BY <2>2, <2>3 DEF TypeOK
  <2>7. /\ pc' \in [Proc -> {"idle", "read", "create", "have", "wait", "eof"}]
        /\ \A k \in Proc : pc'[k] \in {"have", "wait", "eof"} => ps'[k] # 0
    BY <2>1, <2>2 DEF TypeOK
  <2> QED  BY <2>1, <2>2, <2>5, <2>6, <2>7 DEF TypeOK
<1>6. ASSUME NEW p \in Peer, Push(p) PROVE TypeOK'
  <2>1. heap' \in Seq(PeerStream) /\ Len(heap') = Len(heap)
    BY <1>6, PushEffect DEF TypeOK
  <2>2. accepted' \in [Peer -> Nat]
    BY <1>6, PushEffect DEF TypeOK
  <2>3. UNCHANGED <<sent, handled, streams, ps, life, toClose, taken>>
    BY <1>6 DEF Push
  <2>4. /\ pc' \in [Proc -> {"idle", "read", "create", "have", "wait", "eof"}]
        /\ \A q \in Proc : pc'[q] \in {"have", "wait", "eof"} => ps[q] # 0
    BY <1>6, PushWakes DEF TypeOK, Proc
  <2> QED  BY <2>1, <2>2, <2>3, <2>4 DEF TypeOK
<1>7. ASSUME NEW r \in Receiver, PopBody(r) PROVE TypeOK'
  <2>1. heap' \in Seq(PeerStream) /\ Len(heap') = Len(heap)
    BY <1>7, PopEffect
  <2>2. ps[r] \in 1 .. Len(heap)
    BY <1>7, HeldIndex DEF PopBody, Proc
  <2>3. Head(heap[ps[r]].queue) \in Nat
    BY <1>7, <2>2, HeapElement, HeadTailProperties DEF PopBody
  <2>4. Src[r] \in Peer /\ taken[Src[r]] \in Seq(Nat)
    BY SrcAssumption DEF TypeOK
  <2>5. Append(taken[Src[r]], Head(heap[ps[r]].queue)) \in Seq(Nat)
    BY <2>3, <2>4
  <2>6. taken' \in [Peer -> Seq(Nat)]
    BY <1>7, <2>4, <2>5 DEF PopBody, TypeOK
  <2>7. /\ pc' = [pc EXCEPT ![r] = "idle"]
        /\ UNCHANGED <<sent, handled, streams, ps, life, toClose, accepted>>
    BY <1>7 DEF PopBody
  <2> QED  BY <2>1, <2>6, <2>7 DEF TypeOK
<1>8. ASSUME NEW r \in Receiver, PopEmpty(r) PROVE TypeOK'
  BY <1>8 DEF PopEmpty, TypeOK, Proc
<1>9. CASE CloseBegin
  BY <1>9 DEF CloseBegin, TypeOK
<1>10. ASSUME NEW s \in toClose, CloseStream(s) PROVE TypeOK'
  <2>1. heap' \in Seq(PeerStream) /\ Len(heap') = Len(heap)
    BY <1>10, CloseEffect
  <2>2. \A q \in Broadcast(s) : q \in Proc /\ pc[q] = "wait"
    BY DEF Broadcast, Waiters, Proc
  <2>3. /\ pc' = [q \in Proc |-> IF q \in Broadcast(s) THEN "have" ELSE pc[q]]
        /\ toClose' = toClose \ {s}
        /\ UNCHANGED <<sent, handled, streams, ps, life, accepted, taken>>
    BY <1>10 DEF CloseStream
  <2> QED  BY <2>1, <2>2, <2>3 DEF TypeOK
<1>11. CASE CloseUnlock \/ Stop \/ UNCHANGED vars
  BY <1>11 DEF CloseUnlock, Stop, vars, TypeOK
<1> QED
  BY <1>1, <1>2, <1>3, <1>4, <1>5, <1>6, <1>7, <1>8, <1>9, <1>10, <1>11
     DEF Next, Handler, Receive, Closing, Proc

\* A stream enters the map only for the rank it was made for.
LEMMA OwnStep ==
  ASSUME IInv, [Next]_vars
  PROVE  OwnStream'
<1> USE DEF IInv
<1>1. ASSUME NEW p \in Peer, Send(p) PROVE OwnStream'
  BY <1>1 DEF Send, OwnStream
<1>2. ASSUME NEW p \in Peer, HandleIncoming(p) PROVE OwnStream'
  BY <1>2 DEF HandleIncoming, OwnStream
<1>3. ASSUME NEW r \in Receiver, RecvBody(r) PROVE OwnStream'
  BY <1>3 DEF RecvBody, OwnStream
<1>4. ASSUME NEW q \in Proc, LookUpStream(q) PROVE OwnStream'
  BY <1>4 DEF LookUpStream, OwnStream
<1>5. ASSUME NEW q \in Proc, CreateStream(q) PROVE OwnStream'
  <2>1. CASE UNCHANGED <<heap, streams>>
    BY <2>1 DEF OwnStream
  <2>2. CASE /\ Len(heap') = Len(heap) + 1
             /\ \A k \in 1 .. Len(heap) : heap'[k] = heap[k]
             /\ heap'[Len(heap) + 1] = NewPeerStream(From(q))
             /\ streams' = [streams EXCEPT ![From(q)] = Len(heap) + 1]
    BY <2>2, FromPeer DEF OwnStream, NewPeerStream, TypeOK
  <2> QED  BY <1>5, <2>1, <2>2, CreateEffect
<1>6. ASSUME NEW p \in Peer, Push(p) PROVE OwnStream'
  <2>1. \A k \in 1 .. Len(heap) : heap'[k].peer = heap[k].peer
    BY <1>6, PushEffect
  <2>2. streams' = streams
    BY <1>6 DEF Push
  <2> QED  BY <2>1, <2>2, StreamIndex DEF OwnStream
<1>7. ASSUME NEW r \in Receiver, PopBody(r) PROVE OwnStream'
  <2>1. \A k \in 1 .. Len(heap) : heap'[k].peer = heap[k].peer
    BY <1>7, PopEffect
  <2>2. streams' = streams
    BY <1>7 DEF PopBody
  <2> QED  BY <2>1, <2>2, StreamIndex DEF OwnStream
<1>8. ASSUME NEW r \in Receiver, PopEmpty(r) PROVE OwnStream'
  BY <1>8 DEF PopEmpty, OwnStream
<1>9. CASE CloseBegin
  BY <1>9 DEF CloseBegin, OwnStream
<1>10. ASSUME NEW s \in toClose, CloseStream(s) PROVE OwnStream'
  <2>1. \A k \in 1 .. Len(heap) : heap'[k].peer = heap[k].peer
    BY <1>10, CloseEffect
  <2>2. streams' = streams
    BY <1>10 DEF CloseStream
  <2> QED  BY <2>1, <2>2, StreamIndex DEF OwnStream
<1>11. CASE CloseUnlock \/ Stop \/ UNCHANGED vars
  BY <1>11 DEF CloseUnlock, Stop, vars, OwnStream
<1> QED
  BY <1>1, <1>2, <1>3, <1>4, <1>5, <1>6, <1>7, <1>8, <1>9, <1>10, <1>11
     DEF Next, Handler, Receive, Closing, Proc

\* Nobody takes a stream out of the map, or a goroutine's stream from it.
LEMMA HoldsStep ==
  ASSUME IInv, [Next]_vars
  PROVE  HoldsStream'
<1> USE DEF IInv
<1>1. ASSUME NEW p \in Peer, Send(p) PROVE HoldsStream'
  BY <1>1 DEF Send, HoldsStream, TypeOK, Proc
<1>2. ASSUME NEW p \in Peer, HandleIncoming(p) PROVE HoldsStream'
  BY <1>2 DEF HandleIncoming, HoldsStream, TypeOK, Proc
<1>3. ASSUME NEW r \in Receiver, RecvBody(r) PROVE HoldsStream'
  BY <1>3 DEF RecvBody, HoldsStream, TypeOK, Proc
<1>4. ASSUME NEW q \in Proc, LookUpStream(q) PROVE HoldsStream'
  <2>1. /\ ps' = [ps EXCEPT ![q] = streams[From(q)]]
        /\ pc' = [pc EXCEPT ![q] = IF Found(From(q)) THEN "have" ELSE "create"]
        /\ streams' = streams
    BY <1>4 DEF LookUpStream
  <2> QED  BY <2>1 DEF HoldsStream, TypeOK
<1>5. ASSUME NEW q \in Proc, CreateStream(q) PROVE HoldsStream'
  <2>1. /\ ps' = [ps EXCEPT ![q] = streams'[From(q)]]
        /\ pc' = [pc EXCEPT ![q] = "have"]
    BY <1>5 DEF CreateStream
  <2>2. \A k \in Peer : streams[k] # 0 => streams'[k] = streams[k]
    BY <1>5, CreateEffect, FromPeer DEF TypeOK
  <2>3. ASSUME NEW k \in Proc, pc'[k] \in {"have", "wait", "eof"}
        PROVE  ps'[k] = streams'[From(k)]
    <3>1. CASE k = q
      BY <2>1, <3>1 DEF TypeOK
    <3>2. CASE k # q
      <4>1. pc[k] \in {"have", "wait", "eof"} /\ ps'[k] = ps[k]
        BY <2>1, <2>3, <3>2 DEF TypeOK
      <4>2. ps[k] # 0 /\ ps[k] = streams[From(k)]
        BY <4>1 DEF TypeOK, HoldsStream
      <4> QED  BY <4>1, <4>2, <2>2, FromPeer
    <3> QED  BY <3>1, <3>2
  <2> QED  BY <2>3 DEF HoldsStream
<1>6. ASSUME NEW p \in Peer, Push(p) PROVE HoldsStream'
  <2>1. UNCHANGED <<streams, ps>>
    BY <1>6 DEF Push
  <2>2. \A k \in Proc : pc'[k] \in {"have", "wait", "eof"} =>
          pc[k] \in {"have", "wait", "eof"}
    BY <1>6, PushWakes DEF TypeOK, Proc
  <2> QED  BY <2>1, <2>2 DEF HoldsStream
<1>7. ASSUME NEW r \in Receiver, PopBody(r) PROVE HoldsStream'
  BY <1>7 DEF PopBody, HoldsStream, TypeOK, Proc
<1>8. ASSUME NEW r \in Receiver, PopEmpty(r) PROVE HoldsStream'
  BY <1>8 DEF PopEmpty, HoldsStream, TypeOK, Proc
<1>9. CASE CloseBegin
  BY <1>9 DEF CloseBegin, HoldsStream, TypeOK, Proc
<1>10. ASSUME NEW s \in toClose, CloseStream(s) PROVE HoldsStream'
  BY <1>10 DEF CloseStream, Broadcast, Waiters, HoldsStream
<1>11. CASE CloseUnlock \/ Stop \/ UNCHANGED vars
  BY <1>11 DEF CloseUnlock, Stop, vars, HoldsStream, TypeOK, Proc
<1> QED
  BY <1>1, <1>2, <1>3, <1>4, <1>5, <1>6, <1>7, <1>8, <1>9, <1>10, <1>11
     DEF Next, Handler, Receive, Closing, Proc

\* A handler pushes the messages it is invoked for in turn.
LEMMA NumberedStep ==
  ASSUME IInv, [Next]_vars
  PROVE  Numbered'
<1> USE DEF IInv
<1>1. ASSUME NEW p \in Peer, Send(p) PROVE Numbered'
  BY <1>1 DEF Send, Numbered
<1>2. ASSUME NEW p \in Peer, HandleIncoming(p) PROVE Numbered'
  BY <1>2 DEF HandleIncoming, Numbered, TypeOK, Proc
<1>3. ASSUME NEW r \in Receiver, RecvBody(r) PROVE Numbered'
  BY <1>3, ReceiverAssumption DEF RecvBody, Numbered, TypeOK, Proc
<1>4. ASSUME NEW q \in Proc, LookUpStream(q) PROVE Numbered'
  BY <1>4 DEF LookUpStream, Numbered, TypeOK, Proc
<1>5. ASSUME NEW q \in Proc, CreateStream(q) PROVE Numbered'
  <2>1. /\ pc[q] = "create" /\ pc' = [pc EXCEPT ![q] = "have"]
        /\ UNCHANGED <<handled, accepted>>
    BY <1>5 DEF CreateStream
  <2>2. ASSUME NEW k \in Peer, streams'[k] = 0 \/ ~heap'[streams'[k]].closed
        PROVE  streams[k] = 0 \/ ~heap[streams[k]].closed
    <3>1. CASE streams[k] # 0
      BY <1>5, <2>2, <3>1, CreateEffect, StreamIndex, FromPeer DEF TypeOK
    <3> QED  BY <3>1
  <2>3. \A k \in Peer : pc'[k] = "idle" <=> pc[k] = "idle"
    BY <2>1 DEF TypeOK, Proc
  <2> QED  BY <2>1, <2>2, <2>3 DEF Numbered
<1>6. ASSUME NEW p \in Peer, Push(p) PROVE Numbered'
  <2>1. UNCHANGED <<handled, streams>> /\ pc[p] = "have"
    BY <1>6 DEF Push
  <2>2. ps[p] = streams[p] /\ ps[p] # 0
    BY <2>1 DEF HoldsStream, From, Proc, TypeOK
  <2>3. \A k \in Peer : streams[k] # 0 =>
          heap'[streams[k]].closed = heap[streams[k]].closed
    BY <1>6, PushEffect, StreamIndex
  <2>4. \A k \in Peer \ {p} : pc'[k] = pc[k] /\ accepted'[k] = accepted[k]
    <3>1. \A k \in Peer \ {p} : pc'[k] = pc[k]
      BY <1>6, PushWakes, ReceiverAssumption DEF Proc
    <3>2. \A k \in Peer \ {p} : accepted'[k] = accepted[k]
      BY <1>6, PushEffect DEF TypeOK
    <3> QED  BY <3>1, <3>2
  <2>5. pc'[p] = "idle"
    BY <1>6, PushWakes
  <2>6. ~heap[ps[p]].closed => accepted'[p] = accepted[p] + 1
    BY <1>6, PushEffect DEF TypeOK
  <2> QED  BY <2>1, <2>2, <2>3, <2>4, <2>5, <2>6 DEF Numbered, TypeOK
<1>7. ASSUME NEW r \in Receiver, PopBody(r) PROVE Numbered'
  <2>1. \A k \in Peer : streams[k] # 0 =>
          heap'[streams[k]].closed = heap[streams[k]].closed
    BY <1>7, PopEffect, StreamIndex
  <2>2. \A k \in Peer : pc'[k] = pc[k]
    BY <1>7, ReceiverAssumption DEF PopBody, TypeOK, Proc
  <2>3. UNCHANGED <<handled, streams, accepted>>
    BY <1>7 DEF PopBody
  <2> QED  BY <2>1, <2>2, <2>3 DEF Numbered
<1>8. ASSUME NEW r \in Receiver, PopEmpty(r) PROVE Numbered'
  BY <1>8, ReceiverAssumption DEF PopEmpty, Numbered, TypeOK, Proc
<1>9. CASE CloseBegin
  BY <1>9 DEF CloseBegin, Numbered
<1>10. ASSUME NEW s \in toClose, CloseStream(s) PROVE Numbered'
  <2>1. \A k \in Peer : streams[k] # 0 =>
          (heap[streams[k]].closed => heap'[streams[k]].closed)
    BY <1>10, CloseEffect, StreamIndex
  <2>2. \A k \in Peer : pc'[k] = pc[k]
    BY <1>10, ReceiverAssumption DEF CloseStream, Broadcast, Waiters, Proc
  <2>3. UNCHANGED <<handled, streams, accepted>>
    BY <1>10 DEF CloseStream
  <2> QED  BY <2>1, <2>2, <2>3 DEF Numbered
<1>11. CASE CloseUnlock \/ Stop \/ UNCHANGED vars
  BY <1>11 DEF CloseUnlock, Stop, vars, Numbered
<1> QED
  BY <1>1, <1>2, <1>3, <1>4, <1>5, <1>6, <1>7, <1>8, <1>9, <1>10, <1>11
     DEF Next, Handler, Receive, Closing, Proc

\* A closed and empty stream stays so.
LEMMA EOFStep ==
  ASSUME IInv, [Next]_vars
  PROVE  EOFClosed'
<1> USE DEF IInv
<1>1. ASSUME NEW p \in Peer, Send(p) PROVE EOFClosed'
  BY <1>1 DEF Send, EOFClosed
<1>2. ASSUME NEW p \in Peer, HandleIncoming(p) PROVE EOFClosed'
  BY <1>2, ReceiverAssumption DEF HandleIncoming, EOFClosed, TypeOK, Proc
<1>3. ASSUME NEW r \in Receiver, RecvBody(r) PROVE EOFClosed'
  BY <1>3 DEF RecvBody, EOFClosed, TypeOK, Proc
<1>4. ASSUME NEW q \in Proc, LookUpStream(q) PROVE EOFClosed'
  <2>1. /\ \A r \in Receiver : pc'[r] = "eof" => pc[r] = "eof" /\ ps'[r] = ps[r]
        /\ heap' = heap
    BY <1>4 DEF LookUpStream, TypeOK, Proc
  <2> QED  BY <2>1 DEF EOFClosed
<1>5. ASSUME NEW q \in Proc, CreateStream(q) PROVE EOFClosed'
  <2>1. \A k \in Receiver : pc'[k] = "eof" => pc[k] = "eof" /\ ps'[k] = ps[k]
    BY <1>5 DEF CreateStream, TypeOK, Proc
  <2>2. ASSUME NEW k \in 1 .. Len(heap), heap[k].closed, heap[k].queue = <<>>
        PROVE  heap'[k].closed /\ heap'[k].queue = <<>>
    BY <1>5, <2>2, CreateEffect
  <2>3. \A k \in Receiver : pc[k] = "eof" => ps[k] \in 1 .. Len(heap)
    BY HeldIndex DEF Proc
  <2> QED  BY <2>1, <2>2, <2>3 DEF EOFClosed
<1>6. ASSUME NEW p \in Peer, Push(p) PROVE EOFClosed'
  <2>1. \A k \in Receiver : pc'[k] = "eof" => pc[k] = "eof" /\ ps'[k] = ps[k]
    <3>1. ps' = ps
      BY <1>6 DEF Push
    <3> QED  BY <1>6, <3>1, PushWakes DEF Proc
  <2>2. ASSUME NEW k \in 1 .. Len(heap), heap[k].closed, heap[k].queue = <<>>
        PROVE  heap'[k].closed /\ heap'[k].queue = <<>>
    BY <1>6, <2>2, PushEffect
  <2>3. \A k \in Receiver : pc[k] = "eof" => ps[k] \in 1 .. Len(heap)
    BY HeldIndex DEF Proc
  <2> QED  BY <2>1, <2>2, <2>3 DEF EOFClosed
<1>7. ASSUME NEW r \in Receiver, PopBody(r) PROVE EOFClosed'
  <2>1. \A k \in Receiver : pc'[k] = "eof" => pc[k] = "eof" /\ ps'[k] = ps[k]
    BY <1>7 DEF PopBody, TypeOK, Proc
  <2>2. ASSUME NEW k \in 1 .. Len(heap), heap[k].closed, heap[k].queue = <<>>
        PROVE  heap'[k].closed /\ heap'[k].queue = <<>>
    <3>1. k # ps[r]
      BY <1>7, <2>2 DEF PopBody
    <3> QED  BY <1>7, <2>2, <3>1, PopEffect
  <2>3. \A k \in Receiver : pc[k] = "eof" => ps[k] \in 1 .. Len(heap)
    BY HeldIndex DEF Proc
  <2> QED  BY <2>1, <2>2, <2>3 DEF EOFClosed
<1>8. ASSUME NEW r \in Receiver, PopEmpty(r) PROVE EOFClosed'
  BY <1>8 DEF PopEmpty, Drained, EOFClosed, TypeOK, Proc
<1>9. CASE CloseBegin
  BY <1>9 DEF CloseBegin, EOFClosed
<1>10. ASSUME NEW s \in toClose, CloseStream(s) PROVE EOFClosed'
  <2>1. \A k \in Receiver : pc'[k] = "eof" => pc[k] = "eof" /\ ps'[k] = ps[k]
    BY <1>10 DEF CloseStream, TypeOK, Proc
  <2>2. ASSUME NEW k \in 1 .. Len(heap), heap[k].closed, heap[k].queue = <<>>
        PROVE  heap'[k].closed /\ heap'[k].queue = <<>>
    BY <1>10, <2>2, CloseEffect
  <2>3. \A k \in Receiver : pc[k] = "eof" => ps[k] \in 1 .. Len(heap)
    BY HeldIndex DEF Proc
  <2> QED  BY <2>1, <2>2, <2>3 DEF EOFClosed
<1>11. CASE CloseUnlock \/ Stop \/ UNCHANGED vars
  BY <1>11 DEF CloseUnlock, Stop, vars, EOFClosed
<1> QED
  BY <1>1, <1>2, <1>3, <1>4, <1>5, <1>6, <1>7, <1>8, <1>9, <1>10, <1>11
     DEF Next, Handler, Receive, Closing, Proc

\* What was taken and what is queued stay the accepted prefix.
LEMMA FIFOStep ==
  ASSUME IInv, [Next]_vars
  PROVE  FIFO'
<1> USE DEF IInv
<1>1. ASSUME NEW p \in Peer, Send(p) PROVE FIFO'
  BY <1>1 DEF Send, FIFO, Queue
<1>2. ASSUME NEW p \in Peer, HandleIncoming(p) PROVE FIFO'
  BY <1>2 DEF HandleIncoming, FIFO, Queue
<1>3. ASSUME NEW r \in Receiver, RecvBody(r) PROVE FIFO'
  BY <1>3 DEF RecvBody, FIFO, Queue
<1>4. ASSUME NEW q \in Proc, LookUpStream(q) PROVE FIFO'
  BY <1>4 DEF LookUpStream, FIFO, Queue
<1>5. ASSUME NEW q \in Proc, CreateStream(q) PROVE FIFO'
  <2>1. \A k \in Peer : Queue(k)' = Queue(k)
    <3> SUFFICES ASSUME NEW k \in Peer PROVE Queue(k)' = Queue(k)
      OBVIOUS
    <3>1. CASE UNCHANGED <<heap, streams>>
      BY <3>1 DEF Queue
    <3>2. CASE /\ streams[From(q)] = 0
               /\ \A j \in 1 .. Len(heap) : heap'[j] = heap[j]
               /\ heap'[Len(heap) + 1] = NewPeerStream(From(q))
               /\ streams' = [streams EXCEPT ![From(q)] = Len(heap) + 1]
      <4>1. CASE k = From(q)
        BY <3>2, <4>1 DEF Queue, NewPeerStream, TypeOK
      <4>2. CASE k # From(q)
        BY <3>2, <4>2, StreamIndex, FromPeer DEF Queue, TypeOK
      <4> QED  BY <4>1, <4>2
    <3> QED  BY <1>5, <3>1, <3>2, CreateEffect
  <2>2. UNCHANGED <<accepted, taken>>
    BY <1>5 DEF CreateStream
  <2> QED  BY <2>1, <2>2 DEF FIFO
<1>6. ASSUME NEW p \in Peer, Push(p) PROVE FIFO'
  <2>1. UNCHANGED <<handled, streams, taken>> /\ pc[p] = "have"
    BY <1>6 DEF Push
  <2>2. ps[p] = streams[p] /\ ps[p] # 0
    BY <2>1 DEF HoldsStream, From, Proc, TypeOK
  <2>3. CASE UNCHANGED <<heap, accepted>>
    BY <2>1, <2>3 DEF FIFO, Queue
  <2>4. CASE /\ ~heap[ps[p]].closed
             /\ \A k \in 1 .. Len(heap) :
                  heap'[k].queue = IF k = ps[p]
                                   THEN Append(heap[k].queue, handled[p])
                                   ELSE heap[k].queue
             /\ accepted' = [accepted EXCEPT ![p] = @ + 1]
    <3>1. handled[p] = accepted[p] + 1 /\ accepted[p] \in Nat
      BY <2>1, <2>2, <2>4 DEF Numbered, TypeOK
    <3>2. Queue(p)' = Append(Queue(p), accepted[p] + 1)
      BY <2>1, <2>2, <2>4, <3>1, StreamIndex DEF Queue
    <3>3. taken[p] \in Seq(Nat) /\ Queue(p) \in Seq(Nat)
      BY QueueType DEF TypeOK
    <3>4. taken[p] \o Queue(p) = [n \in 1 .. accepted[p] |-> n]
      BY DEF FIFO
    <3>5. taken[p] \o Queue(p)' = Append(taken[p] \o Queue(p), accepted[p] + 1)
      <4>1. accepted[p] + 1 \in Nat
        BY <3>1
      <4>2. taken[p] \o Append(Queue(p), accepted[p] + 1)
              = Append(taken[p] \o Queue(p), accepted[p] + 1)
        BY <4>1, <3>3, AppendConcat
      <4> QED  BY <3>2, <4>2, Zenon
    <3>6. taken[p] \o Queue(p) \in Seq(Nat)
      BY <3>3, ConcatProperties
    <3>7. taken[p] \o Queue(p)' = [n \in 1 .. accepted[p] + 1 |-> n]
      <4>1. Append(taken[p] \o Queue(p), accepted[p] + 1)
              = [n \in 1 .. accepted[p] + 1 |-> n]
        BY <3>1, <3>4, <3>6, PrefixAppend
      <4> QED  BY <3>5, <4>1, Zenon
    <3>8. accepted'[p] = accepted[p] + 1
      BY <2>4 DEF TypeOK
    <3>9. \A k \in Peer \ {p} : Queue(k)' = Queue(k) /\ accepted'[k] = accepted[k]
      <4> SUFFICES ASSUME NEW k \in Peer, k # p
                   PROVE  Queue(k)' = Queue(k) /\ accepted'[k] = accepted[k]
        OBVIOUS
      <4>1. streams[k] # 0 => streams[k] # streams[p]
        BY <2>2 DEF OwnStream
      <4>2. Queue(k)' = Queue(k)
        BY <2>1, <2>2, <2>4, <4>1, StreamIndex DEF Queue
      <4> QED  BY <2>4, <4>2 DEF TypeOK
    <3>10. ASSUME NEW k \in Peer
           PROVE  taken'[k] \o Queue(k)' = [n \in 1 .. accepted'[k] |-> n]
      <4>1. CASE k = p
        BY <2>1, <3>7, <3>8, <4>1
      <4>2. CASE k # p
        BY <2>1, <3>9, <4>2 DEF FIFO
      <4> QED  BY <4>1, <4>2
    <3> QED  BY <3>10 DEF FIFO
  <2> QED  BY <1>6, <2>3, <2>4, PushEffect
<1>7. ASSUME NEW r \in Receiver, PopBody(r) PROVE FIFO'
  <2> DEFINE p == Src[r]
  <2>1. p \in Peer /\ From(r) = p /\ r \in Proc
    BY SrcAssumption, ReceiverAssumption DEF From, Proc
  <2>2. UNCHANGED <<streams, accepted>> /\ pc[r] = "have"
    BY <1>7 DEF PopBody
  <2>3. ps[r] = streams[p] /\ ps[r] # 0
    BY <2>1, <2>2 DEF HoldsStream, TypeOK
  <2>4. heap[ps[r]].queue = Queue(p) /\ Queue(p) # <<>>
    BY <1>7, <2>3 DEF Queue, PopBody
  <2>5. taken' = [taken EXCEPT ![p] = Append(@, Head(Queue(p)))]
    BY <1>7, <2>4 DEF PopBody
  <2>6. Queue(p)' = Tail(Queue(p))
    BY <1>7, <2>1, <2>2, <2>3, <2>4, PopEffect, StreamIndex DEF Queue
  <2>7. taken[p] \in Seq(Nat) /\ Queue(p) \in Seq(Nat)
    BY <2>1, QueueType DEF TypeOK
  <2>8. taken'[p] \o Queue(p)' = taken[p] \o Queue(p)
    <3>1. taken'[p] = Append(taken[p], Head(Queue(p)))
      BY <2>1, <2>5 DEF TypeOK
    <3> QED  BY <2>4, <2>6, <2>7, <3>1, HeadMoves
  <2>9. ASSUME NEW k \in Peer, k # p
        PROVE  Queue(k)' = Queue(k) /\ taken'[k] = taken[k]
    <3>1. streams[k] # 0 => streams[k] # streams[p]
      BY <2>1, <2>3, <2>9 DEF OwnStream
    <3>2. Queue(k)' = Queue(k)
      BY <1>7, <2>2, <2>3, <3>1, PopEffect, StreamIndex DEF Queue
    <3> QED  BY <2>1, <2>5, <2>9, <3>2 DEF TypeOK
  <2>10. ASSUME NEW k \in Peer
         PROVE  taken'[k] \o Queue(k)' = [n \in 1 .. accepted'[k] |-> n]
    <3>1. taken'[k] \o Queue(k)' = taken[k] \o Queue(k)
      BY <2>8, <2>9
    <3> QED  BY <2>2, <3>1 DEF FIFO
  <2> QED  BY <2>10 DEF FIFO
<1>8. ASSUME NEW r \in Receiver, PopEmpty(r) PROVE FIFO'
  BY <1>8 DEF PopEmpty, FIFO, Queue
<1>9. CASE CloseBegin
  BY <1>9 DEF CloseBegin, FIFO, Queue
<1>10. ASSUME NEW s \in toClose, CloseStream(s) PROVE FIFO'
  <2>1. UNCHANGED <<streams, accepted, taken>>
    BY <1>10 DEF CloseStream
  <2>2. \A k \in Peer : Queue(k)' = Queue(k)
    BY <1>10, <2>1, CloseEffect, StreamIndex DEF Queue
  <2> QED  BY <2>1, <2>2 DEF FIFO
<1>11. CASE CloseUnlock \/ Stop \/ UNCHANGED vars
  BY <1>11 DEF CloseUnlock, Stop, vars, FIFO, Queue
<1> QED
  BY <1>1, <1>2, <1>3, <1>4, <1>5, <1>6, <1>7, <1>8, <1>9, <1>10, <1>11
     DEF Next, Handler, Receive, Closing, Proc

\* The invariant holds at the start.
LEMMA InitInv ==
  Init => IInv
<1> SUFFICES ASSUME Init PROVE IInv
  OBVIOUS
<1>1. TypeOK
  BY DEF Init, TypeOK, Proc
<1>2. OwnStream /\ HoldsStream /\ Numbered /\ EOFClosed
  BY DEF Init, OwnStream, HoldsStream, Numbered, EOFClosed, Proc
<1>3. FIFO
  <2> SUFFICES ASSUME NEW p \in Peer
               PROVE  taken[p] \o Queue(p) = [n \in 1 .. accepted[p] |-> n]
    BY DEF FIFO
  <2>1. taken[p] = <<>> /\ Queue(p) = <<>> /\ accepted[p] = 0
    BY DEF Init, Queue
  <2>2. 1 .. 0 = {}
    OBVIOUS
  <2> QED  BY <2>1, <2>2
<1> QED  BY <1>1, <1>2, <1>3 DEF IInv

\* IInv is an invariant of the transport.
THEOREM Invariance == Spec => []IInv
<1>1. IInv /\ [Next]_vars => IInv'
  BY TypeStep, OwnStep, HoldsStep, NumberedStep, EOFStep, FIFOStep DEF IInv
<1> QED  BY InitInv, <1>1, PTL DEF Spec

\* Every variable keeps its type, and no goroutine goes on without a stream.
THEOREM TypeCorrect == Spec => []TypeOK
<1>1. IInv => TypeOK
  BY DEF IInv
<1> QED  BY Invariance, <1>1, PTL

\* What recvBody returned and what is queued is the accepted prefix of what the
\* peer sent: no interleaving of handlers, receivers and close loses, repeats
\* or reorders a body.
THEOREM FIFOTheorem == Spec => []FIFO
<1>1. IInv => FIFO
  BY DEF IInv
<1> QED  BY Invariance, <1>1, PTL

\* recvBody reports io.EOF only after it has returned every accepted body.
THEOREM EOFAfterDrainTheorem == Spec => []EOFAfterDrain
<1>1. IInv => EOFAfterDrain
  <2> SUFFICES ASSUME IInv, NEW r \in Receiver, pc[r] = "eof"
               PROVE  Len(taken[Src[r]]) = accepted[Src[r]]
    BY DEF EOFAfterDrain
  <2> DEFINE p == Src[r]
  <2>1. p \in Peer /\ From(r) = p /\ r \in Proc
    BY SrcAssumption, ReceiverAssumption DEF From, Proc
  <2>2. ps[r] = streams[p] /\ ps[r] # 0
    BY <2>1 DEF IInv, HoldsStream, TypeOK
  <2>3. Queue(p) = <<>>
    BY <2>2 DEF IInv, EOFClosed, Queue
  <2>4. taken[p] \in Seq(Nat) /\ accepted[p] \in Nat
    BY <2>1 DEF IInv, TypeOK
  <2>5. taken[p] \o <<>> = [n \in 1 .. accepted[p] |-> n]
    BY <2>1, <2>3 DEF IInv, FIFO
  <2>6. taken[p] = [n \in 1 .. accepted[p] |-> n]
    BY <2>4, <2>5, ConcatEmptySeq
  <2> QED  BY <2>4, <2>6, LenProperties
<1> QED  BY Invariance, <1>1, PTL

-----------------------------------------------------------------------------
(* One Signal per push is enough.                                          *)

\* Awake(s) is finite.
LEMMA AwakeFinite ==
  ASSUME NEW s
  PROVE  IsFiniteSet(Awake(s)) /\ Cardinality(Awake(s)) \in Nat
<1>1. Awake(s) \subseteq Receiver
  BY DEF Awake
<1> QED  BY <1>1, ReceiverAssumption, FS_Subset, FS_CardinalityType

\* A step that parks nobody on s, takes nobody away from it and leaves its queue
\* alone keeps NoLostWakeup there.
LEMMA WakeupKept ==
  ASSUME NoLostWakeup, NEW s \in 1 .. Len(heap),
         heap'[s].queue = heap[s].queue,
         Waiters(s)' \subseteq Waiters(s), Awake(s) \subseteq Awake(s)',
         Len(heap[s].queue) \in Nat, Waiters(s)' # {}
  PROVE  Len(heap'[s].queue) <= Cardinality(Awake(s)')
<1>1. Len(heap[s].queue) <= Cardinality(Awake(s))
  BY DEF NoLostWakeup
<1>2. IsFiniteSet(Awake(s)') /\ Cardinality(Awake(s)') \in Nat
  <2>1. Awake(s)' \subseteq Receiver
    BY DEF Awake
  <2> QED  BY <2>1, ReceiverAssumption, FS_Subset, FS_CardinalityType
<1>3. Cardinality(Awake(s)) <= Cardinality(Awake(s)')
  BY <1>2, FS_Subset
<1> QED  BY <1>1, <1>2, <1>3, AwakeFinite

\* The length of a queue is a number.
LEMMA QueueLen ==
  ASSUME TypeOK, NEW s \in 1 .. Len(heap)
  PROVE  Len(heap[s].queue) \in Nat
  BY HeapElement, LenProperties

\* NoLostWakeup is inductive relative to IInv.
LEMMA WakeupStep ==
  ASSUME IInv, NoLostWakeup, [Next]_vars
  PROVE  NoLostWakeup'
<1> USE DEF IInv
<1> SUFFICES ASSUME NEW k \in 1 .. Len(heap'), Waiters(k)' # {}
             PROVE  Len(heap'[k].queue) <= Cardinality(Awake(k)')
  BY DEF NoLostWakeup
<1>1. ASSUME NEW p \in Peer, Send(p) 
      PROVE  Len(heap'[k].queue) <= Cardinality(Awake(k)')
  <2>1. Waiters(k)' = Waiters(k) /\ Awake(k)' = Awake(k) /\ heap' = heap
    BY <1>1 DEF Send, Waiters, Awake
  <2> QED  BY <2>1, WakeupKept, QueueLen
<1>2. ASSUME NEW p \in Peer, HandleIncoming(p) 
      PROVE  Len(heap'[k].queue) <= Cardinality(Awake(k)')
  <2>1. Waiters(k)' = Waiters(k) /\ Awake(k)' = Awake(k) /\ heap' = heap
    BY <1>2, ReceiverAssumption DEF HandleIncoming, Waiters, Awake, TypeOK, Proc
  <2> QED  BY <2>1, WakeupKept, QueueLen
<1>3. ASSUME NEW r \in Receiver, RecvBody(r) 
      PROVE  Len(heap'[k].queue) <= Cardinality(Awake(k)')
  <2>1. Waiters(k)' = Waiters(k) /\ Awake(k)' = Awake(k) /\ heap' = heap
    BY <1>3, ReceiverAssumption DEF RecvBody, Waiters, Awake, TypeOK, Proc
  <2> QED  BY <2>1, WakeupKept, QueueLen
<1>4. ASSUME NEW q \in Proc, LookUpStream(q) 
      PROVE  Len(heap'[k].queue) <= Cardinality(Awake(k)')
  <2>1. /\ pc[q] = "read" /\ heap' = heap
        /\ pc' = [pc EXCEPT ![q] = IF Found(From(q)) THEN "have" ELSE "create"]
        /\ \A t \in Proc \ {q} : ps'[t] = ps[t]
    BY <1>4 DEF LookUpStream, TypeOK
  <2>2. Waiters(k)' = Waiters(k) /\ Awake(k) \subseteq Awake(k)'
    BY <2>1 DEF Waiters, Awake, TypeOK, Proc
  <2> QED  BY <2>1, <2>2, WakeupKept, QueueLen
<1>5. ASSUME NEW q \in Proc, CreateStream(q) 
      PROVE  Len(heap'[k].queue) <= Cardinality(Awake(k)')
  <2>1. /\ pc[q] = "create" /\ pc' = [pc EXCEPT ![q] = "have"]
        /\ \A t \in Proc \ {q} : ps'[t] = ps[t]
    BY <1>5 DEF CreateStream, TypeOK
  <2>2. Waiters(k)' = Waiters(k) /\ Awake(k) \subseteq Awake(k)'
    BY <2>1 DEF Waiters, Awake, TypeOK, Proc
  <2>3. CASE k \in 1 .. Len(heap)
    <3>1. heap'[k].queue = heap[k].queue
      BY <1>5, <2>3, CreateEffect
    <3> QED  BY <2>2, <2>3, <3>1, WakeupKept, QueueLen
  <2>4. CASE k \notin 1 .. Len(heap)
    <3>1. Waiters(k) = {}
      BY <2>4, HeldIndex DEF Waiters, Proc
    <3> QED  BY <2>2, <3>1
  <2> QED  BY <2>3, <2>4
<1>6. ASSUME NEW p \in Peer, Push(p) 
      PROVE  Len(heap'[k].queue) <= Cardinality(Awake(k)')
  <2>1. pc[p] = "have" /\ UNCHANGED ps /\ p \in Proc
    BY <1>6 DEF Push, Proc
  <2>2. CASE UNCHANGED heap /\ pc' = [pc EXCEPT ![p] = "idle"]
    <3>1. \A t \in Receiver : pc'[t] = pc[t]
      BY <2>2, ReceiverAssumption DEF TypeOK, Proc
    <3> QED  BY <2>1, <2>2, <3>1, WakeupKept, QueueLen DEF Waiters, Awake
  <2>3. ASSUME \A t \in 1 .. Len(heap) :
                 heap'[t].queue = IF t = ps[p]
                                  THEN Append(heap[t].queue, handled[p])
                                  ELSE heap[t].queue,
               Len(heap') = Len(heap),
               NEW W \in Signal(ps[p]),
               pc' = [q \in Proc |-> IF q = p THEN "idle"
                                     ELSE IF q \in W THEN "have" ELSE pc[q]]
        PROVE  Len(heap'[k].queue) <= Cardinality(Awake(k)')
    <3>1. k \in 1 .. Len(heap)
      BY <2>3
    <3>2. \A t \in Receiver : pc'[t] = IF t \in W THEN "have" ELSE pc[t]
      BY <2>3, ReceiverAssumption DEF Proc
    <3>3. CASE Waiters(ps[p]) = {}
      <4>1. W = {}
        BY <3>3 DEF Signal
      <4>2. Waiters(k)' = Waiters(k) /\ Awake(k)' = Awake(k)
        BY <2>1, <3>2, <4>1 DEF Waiters, Awake
      <4>3. k # ps[p]
        BY <3>3, <4>2
      <4> QED  BY <2>3, <3>1, <4>2, <4>3, WakeupKept, QueueLen
    <3>4. CASE Waiters(ps[p]) # {}
      <4>1. PICK t \in Waiters(ps[p]) : W = {t}
        BY <3>4 DEF Signal
      <4>2. CASE k = ps[p]
        <5>1. Awake(k)' = Awake(k) \cup {t} /\ t \notin Awake(k)
          BY <2>1, <3>2, <4>1, <4>2 DEF Waiters, Awake
        <5>2. Cardinality(Awake(k)') = Cardinality(Awake(k)) + 1
          BY <5>1, AwakeFinite, FS_AddElement
        <5>3. Len(heap'[k].queue) = Len(heap[k].queue) + 1
          <6>1. handled[p] \in Nat /\ heap[k].queue \in Seq(Nat)
            BY <3>1, HeapElement DEF TypeOK
          <6>2. heap'[k].queue = Append(heap[k].queue, handled[p])
            BY <2>3, <3>1, <4>2
          <6> QED  BY <6>1, <6>2
        <5>4. Len(heap[k].queue) <= Cardinality(Awake(k))
          BY <3>1, <3>4, <4>2 DEF NoLostWakeup
        <5> QED  BY <3>1, <5>2, <5>3, <5>4, AwakeFinite, QueueLen
      <4>3. CASE k # ps[p]
        <5>1. Waiters(k)' = Waiters(k) /\ Awake(k)' = Awake(k)
          BY <2>1, <3>2, <4>1, <4>3 DEF Waiters, Awake
        <5> QED  BY <2>3, <3>1, <4>3, <5>1, WakeupKept, QueueLen
      <4> QED  BY <4>2, <4>3
    <3> QED  BY <3>3, <3>4
  <2> QED  BY <1>6, <2>2, <2>3, PushEffect
<1>7. ASSUME NEW r \in Receiver, PopBody(r) 
      PROVE  Len(heap'[k].queue) <= Cardinality(Awake(k)')
  <2>1. /\ pc[r] = "have" /\ pc' = [pc EXCEPT ![r] = "idle"]
        /\ ps' = ps /\ heap[ps[r]].queue # <<>>
    BY <1>7 DEF PopBody
  <2>2. k \in 1 .. Len(heap)
    BY <1>7, PopEffect
  <2>3. \A t \in Receiver : pc'[t] = IF t = r THEN "idle" ELSE pc[t]
    BY <2>1 DEF TypeOK, Proc
  <2>4. Waiters(k)' = Waiters(k)
    BY <2>1, <2>3 DEF Waiters
  <2>5. CASE k = ps[r]
    <3>1. Awake(k)' = Awake(k) \ {r} /\ r \in Awake(k)
      BY <2>1, <2>3, <2>5 DEF Awake
    <3>2. Cardinality(Awake(k)') = Cardinality(Awake(k)) - 1
      BY <3>1, AwakeFinite, FS_RemoveElement
    <3>3. Len(heap'[k].queue) = Len(heap[k].queue) - 1
      <4>1. heap[k].queue \in Seq(Nat) /\ heap[k].queue # <<>>
        BY <2>1, <2>2, <2>5, HeapElement
      <4>2. heap'[k].queue = Tail(heap[k].queue)
        BY <1>7, <2>2, <2>5, PopEffect
      <4> QED  BY <4>1, <4>2, HeadTailProperties
    <3>4. Len(heap[k].queue) <= Cardinality(Awake(k))
      BY <2>2, <2>4 DEF NoLostWakeup
    <3> QED  BY <2>2, <3>2, <3>3, <3>4, AwakeFinite, QueueLen
  <2>6. CASE k # ps[r]
    <3>1. Awake(k)' = Awake(k)
      BY <2>1, <2>3, <2>6 DEF Awake
    <3>2. heap'[k].queue = heap[k].queue
      BY <1>7, <2>2, <2>6, PopEffect
    <3> QED  BY <2>2, <2>4, <3>1, <3>2, WakeupKept, QueueLen
  <2> QED  BY <2>5, <2>6
<1>8. ASSUME NEW r \in Receiver, PopEmpty(r) 
      PROVE  Len(heap'[k].queue) <= Cardinality(Awake(k)')
  <2>1. /\ pc[r] = "have" /\ heap[ps[r]].queue = <<>>
        /\ pc' = [pc EXCEPT ![r] = IF heap[ps[r]].closed THEN "eof" ELSE "wait"]
        /\ UNCHANGED <<ps, heap>>
    BY <1>8 DEF PopEmpty, Drained
  <2>2. \A t \in Receiver \ {r} : pc'[t] = pc[t]
    BY <2>1 DEF TypeOK, Proc
  <2>3. CASE k = ps[r]
    <3>1. Len(heap'[k].queue) = 0
      BY <2>1, <2>3
    <3>2. Cardinality(Awake(k)') \in Nat
      <4>1. Awake(k)' \subseteq Receiver
        BY DEF Awake
      <4> QED  BY <4>1, ReceiverAssumption, FS_Subset, FS_CardinalityType
    <3> QED  BY <3>1, <3>2
  <2>4. CASE k # ps[r]
    <3>1. Waiters(k)' = Waiters(k) /\ Awake(k)' = Awake(k)
      BY <2>1, <2>2, <2>4 DEF Waiters, Awake
    <3> QED  BY <2>1, <3>1, WakeupKept, QueueLen
  <2> QED  BY <2>3, <2>4
<1>9. CASE CloseBegin
  <2>1. Waiters(k)' = Waiters(k) /\ Awake(k)' = Awake(k) /\ heap' = heap
    BY <1>9 DEF CloseBegin, Waiters, Awake
  <2> QED  BY <2>1, WakeupKept, QueueLen
<1>10. ASSUME NEW s \in toClose, CloseStream(s) 
      PROVE  Len(heap'[k].queue) <= Cardinality(Awake(k)')
  <2>1. /\ pc' = [q \in Proc |-> IF q \in Broadcast(s) THEN "have" ELSE pc[q]]
        /\ ps' = ps
    BY <1>10 DEF CloseStream
  <2>2. k \in 1 .. Len(heap) /\ heap'[k].queue = heap[k].queue
    BY <1>10, CloseEffect
  <2>3. Waiters(k)' \subseteq Waiters(k) /\ Awake(k) \subseteq Awake(k)'
    BY <2>1 DEF Broadcast, Waiters, Awake, Proc
  <2> QED  BY <2>2, <2>3, WakeupKept, QueueLen
<1>11. CASE CloseUnlock \/ Stop \/ UNCHANGED vars
  <2>1. Waiters(k)' = Waiters(k) /\ Awake(k)' = Awake(k) /\ heap' = heap
    BY <1>11 DEF CloseUnlock, Stop, vars, Waiters, Awake
  <2> QED  BY <2>1, WakeupKept, QueueLen
<1> QED
  BY <1>1, <1>2, <1>3, <1>4, <1>5, <1>6, <1>7, <1>8, <1>9, <1>10, <1>11
     DEF Next, Handler, Receive, Closing, Proc

\* While a receiver is parked, each queued body has an awake receiver: the one
\* Signal of a push is never lost, for any number of receivers of one stream.
THEOREM NoLostWakeupTheorem == Spec => []NoLostWakeup
<1>1. Init => NoLostWakeup
  BY DEF Init, NoLostWakeup, Waiters, Proc
<1>2. IInv /\ NoLostWakeup /\ [Next]_vars => NoLostWakeup'
  BY WakeupStep
<1> QED  BY Invariance, <1>1, <1>2, PTL DEF Spec
=============================================================================
