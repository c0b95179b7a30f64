---------------------------- MODULE ZapTransport ----------------------------
(***************************************************************************)
(* The receive side of one party's transport: zapNode, its map of          *)
(* peerStreams, and the goroutines that share them.                        *)
(*                                                                         *)
(* The ZAP library runs one handler goroutine per connected peer, which    *)
(* pushes each message body into the stream of its sender.  Any number of  *)
(* goroutines of the protocol block in recvBody, which pops the stream of  *)
(* one sender.  Whoever needs a stream first creates it.  close, called    *)
(* once, closes the streams that exist and stops the node.                 *)
(*                                                                         *)
(* A step is one critical section: of zn.mu (the map) or of ps.mu (one     *)
(* stream).  A body is its number in its sender's order of sending.        *)
(***************************************************************************)
EXTENDS Naturals, Sequences, FiniteSets

CONSTANTS
  Peer,        \* the ranks this party hears from; also their handler goroutines
  Receiver,    \* the goroutines that call recvBody
  Src,         \* Src[r]: the rank receiver r reads from
  MaxSend      \* bound: messages each peer sends

ASSUME ReceiverAssumption == IsFiniteSet(Receiver) /\ Peer \cap Receiver = {}

ASSUME SrcAssumption == Src \in [Receiver -> Peer]

ASSUME MaxSendAssumption == MaxSend \in Nat

VARIABLES
  sent,        \* sent[p]: messages p has handed to its ZAP node
  handled,     \* handled[p]: messages of p its handler was invoked for
  streams,     \* zn.streams: streams[p] is an index of heap, 0 if absent
  heap,        \* every peerStream ever made, in the order of creation
  pc,          \* where each goroutine is
  ps,          \* ps[q]: the stream goroutine q got from getOrCreateStream
  life,        \* how far zn.close has come; it holds zn.mu while "closing"
  toClose,     \* the streams zn.close's loop has not reached yet
  accepted,    \* history: accepted[p] bodies of p were pushed, not dropped
  taken        \* history: taken[p] are the bodies recvBody returned, in order

vars == <<sent, handled, streams, heap, pc, ps, life, toClose, accepted, taken>>

Proc == Peer \cup Receiver

\* The rank goroutine q wants the stream of.
From(q) == IF q \in Peer THEN q ELSE Src[q]

\* The goroutines parked in cond.Wait of stream s.
Waiters(s) == {r \in Receiver : pc[r] = "wait" /\ ps[r] = s}

\* Mutant: the signal is forgotten.
Signal_None(s) == {{}}

\* cond.Signal wakes one waiter, if there is one.
Signal(s) == IF Waiters(s) = {} THEN {{}} ELSE {{r} : r \in Waiters(s)}

\* cond.Broadcast wakes every waiter.
Broadcast(s) == Waiters(s)

\* newPeerStream, with the rank it is made for.
NewPeerStream(p) == [peer |-> p, queue |-> <<>>, closed |-> FALSE]

Init ==
  /\ sent = [p \in Peer |-> 0]
  /\ handled = [p \in Peer |-> 0]
  /\ streams = [p \in Peer |-> 0]
  /\ heap = <<>>
  /\ pc = [q \in Proc |-> "idle"]
  /\ ps = [q \in Proc |-> 0]
  /\ life = "open"
  /\ toClose = {}
  /\ accepted = [p \in Peer |-> 0]
  /\ taken = [p \in Peer |-> <<>>]

-----------------------------------------------------------------------------
(* The goroutines' steps.                                                  *)

\* Peer p sends its next message to this party.
Send(p) ==
  /\ sent[p] < MaxSend
  /\ sent' = [sent EXCEPT ![p] = @ + 1]
  /\ UNCHANGED <<handled, streams, heap, pc, ps, life, toClose, accepted, taken>>

\* The ZAP node invokes handleIncoming for p's next message; a stopped node
\* invokes nothing.
HandleIncoming(p) ==
  /\ pc[p] = "idle"
  /\ handled[p] < sent[p]
  /\ life # "stopped"
  /\ handled' = [handled EXCEPT ![p] = @ + 1]
  /\ pc' = [pc EXCEPT ![p] = "read"]
  /\ UNCHANGED <<sent, streams, heap, ps, life, toClose, accepted, taken>>

\* Receiver r calls recvBody.
RecvBody(r) ==
  /\ pc[r] \in {"idle", "eof"}
  /\ pc' = [pc EXCEPT ![r] = "read"]
  /\ UNCHANGED <<sent, handled, streams, heap, ps, life, toClose, accepted, taken>>

\* zn.mu can be taken.
MuFree == life # "closing"

\* Mutant: the map lookup's ok is ignored.
Found_Always(p) == p \in Peer

\* ok of the map lookup.
Found(p) == streams[p] # 0

\* The read-locked half of getOrCreateStream.
LookUpStream(q) ==
  /\ pc[q] = "read"
  /\ MuFree
  /\ ps' = [ps EXCEPT ![q] = streams[From(q)]]
  /\ pc' = [pc EXCEPT ![q] = IF Found(From(q)) THEN "have" ELSE "create"]
  /\ UNCHANGED <<sent, handled, streams, heap, life, toClose, accepted, taken>>

\* Mutant: the write-locked half trusts what the read-locked half saw.
Absent_Stale(p) == p \in Peer

\* The second look, under the write lock.
Absent(p) == streams[p] = 0

\* The write-locked half of getOrCreateStream.
CreateStream(q) ==
  /\ pc[q] = "create"
  /\ MuFree
  /\ IF Absent(From(q))
       THEN /\ heap' = Append(heap, NewPeerStream(From(q)))
            /\ streams' = [streams EXCEPT ![From(q)] = Len(heap) + 1]
       ELSE UNCHANGED <<heap, streams>>
  /\ ps' = [ps EXCEPT ![q] = streams'[From(q)]]
  /\ pc' = [pc EXCEPT ![q] = "have"]
  /\ UNCHANGED <<sent, handled, life, toClose, accepted, taken>>

\* A closed stream drops what is pushed.
Dropped(s) == heap[s].closed

\* push, the end of p's handler: append the body and wake one waiter, or drop.
Push(p) ==
  /\ pc[p] = "have"
  /\ IF Dropped(ps[p])
       THEN /\ pc' = [pc EXCEPT ![p] = "idle"]
            /\ UNCHANGED <<heap, accepted>>
       ELSE /\ heap' = [heap EXCEPT ![ps[p]].queue = Append(@, handled[p])]
            /\ accepted' = [accepted EXCEPT ![p] = @ + 1]
            /\ \E W \in Signal(ps[p]) :
                 pc' = [q \in Proc |-> IF q = p THEN "idle"
                                       ELSE IF q \in W THEN "have" ELSE pc[q]]
  /\ UNCHANGED <<sent, handled, streams, ps, life, toClose, taken>>

\* pop with a body in the queue: recvBody returns it.
PopBody(r) ==
  /\ pc[r] = "have"
  /\ heap[ps[r]].queue # <<>>
  /\ taken' = [taken EXCEPT ![Src[r]] = Append(@, Head(heap[ps[r]].queue))]
  /\ heap' = [heap EXCEPT ![ps[r]].queue = Tail(@)]
  /\ pc' = [pc EXCEPT ![r] = "idle"]
  /\ UNCHANGED <<sent, handled, streams, ps, life, toClose, accepted>>

\* Mutant: a closed stream ends at once, before it is drained.
Drained_Ignored(s) == heap[s].queue = <<>> \/ heap[s].closed

\* len(ps.queue) == 0.
Drained(s) == heap[s].queue = <<>>

\* pop with an empty queue: io.EOF from a closed stream, else wait.
PopEmpty(r) ==
  /\ pc[r] = "have"
  /\ Drained(ps[r])
  /\ pc' = [pc EXCEPT ![r] = IF heap[ps[r]].closed THEN "eof" ELSE "wait"]
  /\ UNCHANGED <<sent, handled, streams, heap, ps, life, toClose, accepted, taken>>

\* zn.close takes zn.mu and starts on the streams there are.
CloseBegin ==
  /\ life = "open"
  /\ life' = "closing"
  /\ toClose' = {streams[p] : p \in Peer} \ {0}
  /\ UNCHANGED <<sent, handled, streams, heap, pc, ps, accepted, taken>>

\* One turn of its loop: ps.close.
CloseStream(s) ==
  /\ life = "closing"
  /\ s \in toClose
  /\ heap' = [heap EXCEPT ![s].closed = TRUE]
  /\ pc' = [q \in Proc |-> IF q \in Broadcast(s) THEN "have" ELSE pc[q]]
  /\ toClose' = toClose \ {s}
  /\ UNCHANGED <<sent, handled, streams, ps, life, accepted, taken>>

\* The loop is over: release zn.mu.
CloseUnlock ==
  /\ life = "closing"
  /\ toClose = {}
  /\ life' = "closed"
  /\ UNCHANGED <<sent, handled, streams, heap, pc, ps, toClose, accepted, taken>>

\* node.Stop.
Stop ==
  /\ life = "closed"
  /\ life' = "stopped"
  /\ UNCHANGED <<sent, handled, streams, heap, pc, ps, toClose, accepted, taken>>

Handler(p) == HandleIncoming(p) \/ LookUpStream(p) \/ CreateStream(p) \/ Push(p)

Receive(r) == LookUpStream(r) \/ CreateStream(r) \/ PopBody(r) \/ PopEmpty(r)

Closing == (\E s \in toClose : CloseStream(s)) \/ CloseUnlock \/ Stop

Next ==
  \/ \E p \in Peer : Send(p) \/ Handler(p)
  \/ \E r \in Receiver : RecvBody(r) \/ Receive(r)
  \/ CloseBegin
  \/ Closing

\* The Go scheduler runs every goroutine that can run, and neither kind of
\* mutex starves a waiter.  Sending, receiving and closing are up to callers.
Fairness ==
  /\ \A p \in Peer : WF_vars(Handler(p))
  /\ \A r \in Receiver : WF_vars(Receive(r))
  /\ WF_vars(Closing)

Spec == Init /\ [][Next]_vars

FairSpec == Spec /\ Fairness

-----------------------------------------------------------------------------
(* Types.                                                                  *)

PeerStream == [peer : Peer, queue : Seq(Nat), closed : BOOLEAN]

\* Every variable has its type, and a goroutine past getOrCreateStream holds a
\* stream.
TypeOK ==
  /\ sent \in [Peer -> Nat]
  /\ handled \in [Peer -> Nat]
  /\ heap \in Seq(PeerStream)
  /\ streams \in [Peer -> 0 .. Len(heap)]
  /\ pc \in [Proc -> {"idle", "read", "create", "have", "wait", "eof"}]
  /\ ps \in [Proc -> 0 .. Len(heap)]
  /\ life \in {"open", "closing", "closed", "stopped"}
  /\ toClose \subseteq 1 .. Len(heap)
  /\ accepted \in [Peer -> Nat]
  /\ taken \in [Peer -> Seq(Nat)]
  /\ \A q \in Proc : pc[q] \in {"have", "wait", "eof"} => ps[q] # 0

-----------------------------------------------------------------------------
(* Properties.                                                             *)

\* The bodies of p waiting in its stream.
Queue(p) == IF streams[p] = 0 THEN <<>> ELSE heap[streams[p]].queue

\* What recvBody has returned from a peer, followed by what is queued, is the
\* prefix of what the peer sent that was accepted: nothing is lost, repeated or
\* reordered, although handler and receivers race to create the stream
\* (getOrCreateStream) and a close cuts the prefix off anywhere.
FIFO ==
  \A p \in Peer : taken[p] \o Queue(p) = [n \in 1 .. accepted[p] |-> n]

\* recvBody reports io.EOF only when every body the stream accepted has been
\* returned, and none is accepted after that (pop, push).
EOFAfterDrain ==
  \A r \in Receiver : pc[r] = "eof" => Len(taken[Src[r]]) = accepted[Src[r]]

\* The receivers about to pop stream s.
Awake(s) == {r \in Receiver : pc[r] = "have" /\ ps[r] = s}

\* While a receiver is parked on a stream, each queued body has an awake
\* receiver on its way to it: one Signal per push suffices (push, pop).
NoLostWakeup ==
  \A s \in 1 .. Len(heap) : Waiters(s) # {} =>
    Len(heap[s].queue) <= Cardinality(Awake(s))

\* A receiver blocked in recvBody while a body for it is queued returns, or
\* other receivers take what is queued.
Unblocks ==
  \A r \in Receiver :
    (pc[r] # "idle" /\ Queue(Src[r]) # <<>>)
      ~> (pc[r] = "idle" \/ Queue(Src[r]) = <<>>)

\* recvBody "blocks until one arrives or the stream closes": once close is
\* over, no call of it stays blocked.
CloseUnblocks ==
  \A r \in Receiver : life = "stopped" ~> pc[r] \in {"idle", "eof"}
=============================================================================
