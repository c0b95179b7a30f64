----------------------------- MODULE SigningRun -----------------------------
(***************************************************************************)
(* The program: main.go drives one signature, either all parties in one    *)
(* process (LocalRun) or one process per party over P2PComm                *)
(* (networking.go).  The signing steps are those of Signing; this module   *)
(* says when the program takes them and with which messages.               *)
(*                                                                         *)
(* A process connects to its peers, gets its key material from the dealer, *)
(* exchanges round-1 messages with one sending and one receiving goroutine *)
(* per peer, and sends its response to the combiner.  main reads and       *)
(* writes the legacy sockets of P2PComm: in mode "socks" a caller wired    *)
(* them, in mode "zap" nobody did, which is main as it is built, and the   *)
(* first GetSock it dereferences panics.  A socket has no buffer (as       *)
(* net.Pipe), so a transfer is one step of sender and receiver; a process  *)
(* that ended has closed its sockets.                                      *)
(***************************************************************************)
EXTENDS Signing

CONSTANTS
  Env,         \* the sets of ranks a party's CORONA_PEERS may list
  MaxDials,    \* the attempts of Connect (10 in the code)
  MaxFaults    \* bound: faults, bad salts and lost map entries

\* Parties are ranks.  Gen, run by the dealer, makes keys of the full
\* committee.
ASSUME RankAssumption ==
  /\ Cardinality(Party) \in Nat \ {0, 1}
  /\ Party = 0 .. Cardinality(Party) - 1
  /\ Dealt = Party

ASSUME RunAssumption == MaxDials \in Nat \ {0} /\ MaxFaults \in Nat

TrustedDealerID == 0
CombinerID == 1

VARIABLES
  mode,        \* "local", "socks" or "zap"
  stage,       \* stage[p]: where process p is
  peerAddrs,   \* peerAddrs[p]: the ranks p has an address for
  peers,       \* peers[p]: the ranks p has registered
  dials,       \* dials[p][q]: failed attempts of p to dial q
  received,    \* received[p]: how many of the dealer's five values p has
  rx,          \* rx[p][q]: where p's receiving goroutine for q is
  Ds, MACs,    \* the keys of p's maps D and MACs
  err,         \* err[p]: the variable err its goroutines share is set
  z,           \* z[p]: the parties whose response p has
  verified,    \* the verification result printed
  faults       \* faults so far

comm == <<peerAddrs, peers, dials, received>>
exchange == <<rx, Ds, MACs, err>>
mainVars == <<vars, mode, stage, comm, exchange, z, verified, faults>>

\* The one request: T is every rank, sid, mu and the PRF key are fixed.
T == [i \in 1 .. Cardinality(Party) |-> i - 1]
sid == CHOOSE s \in Session : TRUE
mu == CHOOSE m \in Message : TRUE
prfKey == CHOOSE k \in PRFKey : TRUE

\* There is such a request, and no result yet is not a result.
ASSUME RequestAssumption ==
  /\ T \in SignerList
  /\ Session # {} /\ Message # {} /\ PRFKey # {}
  /\ Nil \notin BOOLEAN

\* The first argument is "l" or a rank; a rank's process has its sockets wired
\* or not.
Modes == {"local", "socks", "zap"}

MainInit ==
  /\ Init
  /\ mode \in Modes
  /\ stage = [p \in Party |-> IF mode = "local" THEN "round1" ELSE "start"]
  /\ peerAddrs = [p \in Party |-> {}]
  /\ peers = [p \in Party |-> {}]
  /\ dials = [p \in Party |-> [q \in Party |-> 0]]
  /\ received = [p \in Party |-> 0]
  /\ rx = [p \in Party |-> [q \in Party |-> "recvD"]]
  /\ Ds = [p \in Party |-> {}]
  /\ MACs = [p \in Party |-> {}]
  /\ err = [p \in Party |-> FALSE]
  /\ z = [p \in Party |-> {}]
  /\ verified = Nil
  /\ faults = 0

Peers(p) == Party \ {p}

\* p has ended, by its own will or not: its sockets are closed.
Gone(p) == stage[p] \in {"dead", "done"}

\* p goes on to stage s.
Goto(p, s) == stage' = [stage EXCEPT ![p] = s]

\* q has sent p both its messages.
Sent(q, p) == rx[p][q] \in {"checkMACs", "done"}

\* p's process ends and its memory with it; what its sockets took is known.
Die(p) ==
  /\ Goto(p, "dead")
  /\ rx' = [rx EXCEPT ![p] =
              [q \in Party |-> IF Sent(q, p) THEN "done" ELSE "recvD"]]
  /\ Ds' = [Ds EXCEPT ![p] = {}]
  /\ MACs' = [MACs EXCEPT ![p] = {}]
  /\ err' = [err EXCEPT ![p] = FALSE]
  /\ z' = [z EXCEPT ![p] = {}]
  /\ peerAddrs' = [peerAddrs EXCEPT ![p] = {}]
  /\ peers' = [peers EXCEPT ![p] = {}]
  /\ dials' = [dials EXCEPT ![p] = [q \in Party |-> 0]]
  /\ UNCHANGED <<vars, mode, received, verified>>

\* One of the faults the bound allows.
Fault == faults < MaxFaults /\ faults' = faults + 1

\* log.Fatalf, or a panic.
Fatal(p) == Die(p) /\ UNCHANGED faults

-----------------------------------------------------------------------------
(* Connecting.                                                             *)

\* The peers p pre-registers with AcceptPeer: the lower rank of a pair listens.
Accepted(p) == {q \in Party : p < q}

\* parsePeerEnv, NewP2PComm, and the goroutines of EstablishConnectionsZAP
\* that only register.
Start(p) ==
  \E ranks \in Env :
    /\ stage[p] = "start"
    /\ Goto(p, IF p \in ranks THEN "connect" ELSE "dead")
    /\ peerAddrs' = [peerAddrs EXCEPT ![p] = ranks \ {p}]
    /\ peers' = [peers EXCEPT ![p] = Accepted(p)]
    /\ UNCHANGED <<vars, mode, dials, received, exchange, z, verified, faults>>

\* q's node accepts connections.
Listening(q) == stage[q] # "start" /\ ~Gone(q)

\* One attempt of Connect: the higher rank dials.
Dial(p, q) ==
  /\ stage[p] = "connect"
  /\ q \in peerAddrs[p] \ peers[p] /\ q < p
  /\ dials[p][q] < MaxDials
  /\ IF Listening(q)
       THEN /\ peers' = [peers EXCEPT ![p] = @ \cup {q}]
            /\ UNCHANGED dials
       ELSE /\ dials' = [dials EXCEPT ![p][q] = @ + 1]
            /\ UNCHANGED peers
  /\ UNCHANGED <<vars, mode, stage, peerAddrs, received, exchange, z, verified,
                 faults>>

\* Connect to q returned an error, or there was no address to dial.
NoConnection(p, q) ==
  /\ q < p /\ q \notin peers[p]
  /\ q \notin peerAddrs[p] \/ dials[p][q] = MaxDials

\* EstablishConnectionsZAP returns when each of its goroutines has.
Established(p) ==
  /\ stage[p] = "connect"
  /\ \A q \in Peers(p) : q \in peers[p] \/ NoConnection(p, q)
  /\ Goto(p, IF peers[p] = Peers(p) THEN "keys" ELSE "dead")
  /\ UNCHANGED <<vars, mode, comm, exchange, z, verified, faults>>

-----------------------------------------------------------------------------
(* Key material.                                                           *)

\* What the dealer's goroutine for a party sends, in this order.
DealtValues == <<"b", "A", "skShare", "seeds", "MACKeys">>

\* main dereferences a socket that was never wired.
GetSockPanics(p) == mode = "zap" /\ stage[p] = "keys" /\ Fatal(p)

\* The dealer's goroutine for p sends its next value, and p receives it.
Deal(p) ==
  /\ mode = "socks"
  /\ p # TrustedDealerID
  /\ stage[TrustedDealerID] = "keys" /\ stage[p] = "keys"
  /\ received[p] < Len(DealtValues)
  /\ received' = [received EXCEPT ![p] = @ + 1]
  /\ UNCHANGED <<vars, mode, stage, peerAddrs, peers, dials, exchange, z,
                 verified, faults>>

\* p has all the dealer sends, or the dealer has sent all (sendWg.Wait).
Keyed(p) ==
  /\ stage[p] = "keys"
  /\ \A q \in (IF p = TrustedDealerID THEN Peers(p) ELSE {p}) :
       received[q] = Len(DealtValues)
  /\ Goto(p, "round1")
  /\ UNCHANGED <<vars, mode, comm, exchange, z, verified, faults>>

\* A value cannot be sent, or received, because the other process is gone.
DealFails(p) ==
  /\ mode = "socks" /\ stage[p] = "keys"
  /\ IF p = TrustedDealerID
       THEN \E q \in Peers(p) : received[q] < Len(DealtValues) /\ Gone(q)
       ELSE received[p] < Len(DealtValues) /\ Gone(TrustedDealerID)
  /\ Fatal(p)

-----------------------------------------------------------------------------
(* Round 1.                                                                *)

\* SignRound1; the goroutines start.
MainRound1(p) ==
  /\ mode = "socks" /\ stage[p] = "round1"
  /\ Round1(p, sid, T)
  /\ Goto(p, "exchange")
  /\ Ds' = [Ds EXCEPT ![p] = {p}]
  /\ MACs' = [MACs EXCEPT ![p] = {p}]
  /\ UNCHANGED <<mode, comm, rx, err, z, verified, faults>>

\* SignRound1 reports a degenerate session.
MainRound1Fails(p) ==
  /\ mode = "socks" /\ stage[p] = "round1"
  /\ \E salt \in SaltRead(p) : ~SaltAccepted(salt)
  /\ Fault
  /\ Die(p)

\* Mutant: one goroutine per peer, which receives before it sends.
Sending_AfterReceiving(q, p) == rx[q][p] = "done"

\* q's sending goroutine for p is at work from the start.
Sending(q, p) == ~Sent(q, p)

\* Another goroutine of p can write the same map at the same time.
Racing(p, q) ==
  \E o \in Peers(p) \ {q} : rx[p][o] = rx[p][q] /\ stage[o] = "exchange"

\* deliver at q meets the streaming Recv of p: both run, and q's goroutine for p
\* is at its send.
Transfer(q, p) ==
  stage[p] = "exchange" /\ stage[q] = "exchange" /\ Sending(q, p)

\* D[i], err = ... and then MACs[i], err = ...: a transfer from q to p, and
\* assignments without a lock, so that the entry of a racing write may be lost.
Receive(p, q) ==
  /\ Transfer(q, p)
  /\ \E lost \in BOOLEAN :
       /\ IF lost THEN Racing(p, q) /\ Fault ELSE UNCHANGED faults
       /\ \/ /\ rx[p][q] = "recvD"
             /\ rx' = [rx EXCEPT ![p][q] = "checkD"]
             /\ Ds' = [Ds EXCEPT ![p] = IF lost THEN @ ELSE @ \cup {q}]
             /\ UNCHANGED MACs
          \/ /\ rx[p][q] = "recvMACs"
             /\ rx' = [rx EXCEPT ![p][q] = "checkMACs"]
             /\ MACs' = [MACs EXCEPT ![p] = IF lost THEN @ ELSE @ \cup {q}]
             /\ UNCHANGED Ds
  /\ err' = [err EXCEPT ![p] = FALSE]
  /\ UNCHANGED <<vars, mode, stage, comm, z, verified>>

\* RecvMatrix fails: what it assigns is an error.
RecvMatrixFails(p, q) ==
  /\ stage[p] = "exchange" /\ rx[p][q] = "recvD" /\ Gone(q)
  /\ rx' = [rx EXCEPT ![p][q] = "checkD"]
  /\ err' = [err EXCEPT ![p] = TRUE]
  /\ UNCHANGED <<vars, mode, stage, comm, Ds, MACs, z, verified, faults>>

\* if err != nil, which by now another goroutine may have set or cleared.
Check(p, q) ==
  /\ stage[p] = "exchange" /\ rx[p][q] \in {"checkD", "checkMACs"}
  /\ IF err[p] THEN Fatal(p)
     ELSE /\ rx' = [rx EXCEPT ![p][q] =
                      IF @ = "checkD" THEN "recvMACs" ELSE "done"]
          /\ UNCHANGED <<vars, mode, stage, comm, Ds, MACs, err, z, verified,
                         faults>>

\* A read finds no MACs, which ends the process in decodeBytesMap itself; a write
\* finds the peer gone.
ExchangeFails(p) ==
  /\ stage[p] = "exchange"
  /\ \E q \in Peers(p) :
       \/ rx[p][q] = "recvMACs" /\ Gone(q)
       \/ ~Sent(p, q) /\ Gone(q)
  /\ Fatal(p)

\* round1Wg.Wait: everything is sent and received.
Exchanged(p) ==
  /\ stage[p] = "exchange"
  /\ \A q \in Peers(p) : rx[p][q] = "done" /\ Sent(p, q)
  /\ Goto(p, "round2")
  /\ UNCHANGED <<vars, mode, comm, exchange, z, verified, faults>>

-----------------------------------------------------------------------------
(* Round 2.                                                                *)

\* The round-1 messages of the parties in S.
Messages(S) == [q \in S |-> CHOOSE m \in round1 : m.PartyID = q]

\* SignRound2Preprocess and SignRound2.
MainRound2(p) ==
  LET data == Messages(Ds[p] \cap MACs[p]) IN
  /\ mode = "socks" /\ stage[p] = "round2"
  /\ IF SignRound2Preprocess(p, sid, T, data)
       THEN /\ Round2(p, sid, mu, T, prfKey, data)
            /\ Goto(p, "respond")
            /\ z' = [z EXCEPT ![p] = {p}]
            /\ UNCHANGED <<mode, comm, exchange, verified, faults>>
       ELSE Fatal(p)

\* Mutant: the last response is not waited for.
Missing_NotLast(p) == Party \ (z[p] \cup {Cardinality(Party) - 1})

\* The parties whose response the combiner has yet to receive, in order.
Missing(p) == Party \ z[p]

\* A response reaches the combiner, which reads its peers one after another;
\* the sender is done.
Respond(p) ==
  /\ mode = "socks" /\ p # CombinerID
  /\ stage[p] = "respond" /\ stage[CombinerID] = "respond"
  /\ \A q \in Missing(CombinerID) : p <= q
  /\ z' = [z EXCEPT ![CombinerID] = @ \cup {p}]
  /\ Goto(p, "done")
  /\ UNCHANGED <<vars, mode, comm, exchange, verified, faults>>

\* The response cannot be sent, or the next one not received.
RespondFails(p) ==
  /\ mode = "socks" /\ stage[p] = "respond"
  /\ IF p # CombinerID THEN Gone(CombinerID)
     ELSE \E q \in Missing(p) :
            (\A o \in Missing(p) : q <= o) /\ Gone(q)
  /\ Fatal(p)

\* The responses of the parties in S.
Responses(S) == [q \in S |-> CHOOSE y \in round2 : y.PartyID = q]

\* SignFinalize and Verify, by party p.
FinalizeAndVerify(p) ==
  /\ Finalize(p, Responses(z[p]))
  /\ verified' = Verify(mu, SignFinalize(p, Range(Responses(z[p]))))

\* The combiner's end of main.
Combine ==
  /\ mode = "socks"
  /\ stage[CombinerID] = "respond"
  /\ Missing(CombinerID) = {}
  /\ FinalizeAndVerify(CombinerID)
  /\ Goto(CombinerID, "done")
  /\ UNCHANGED <<mode, comm, exchange, z, faults>>

\* p's process is killed, by whoever or by the runtime, which throws when it
\* sees two goroutines in a map.
Kill(p) ==
  /\ mode # "local"
  /\ stage[p] # "start" /\ ~Gone(p)
  /\ Fault
  /\ Die(p)

-----------------------------------------------------------------------------
(* LocalRun: all parties in one process, one after another.                *)

\* The parties before p are past stage s.
InTurn(p, s) ==
  mode = "local" /\ stage[p] = s /\ \A q \in Party : q < p => stage[q] # s

LocalRound1(p) ==
  /\ InTurn(p, "round1")
  /\ Round1(p, sid, T)
  /\ Goto(p, "round2")
  /\ UNCHANGED <<mode, comm, exchange, z, verified, faults>>

\* Every party is handed the same maps.
LocalRound2(p) ==
  /\ InTurn(p, "round2")
  /\ \A q \in Party : stage[q] # "round1"
  /\ Round2(p, sid, mu, T, prfKey, Messages(Party))
  /\ Goto(p, "respond")
  /\ z' = [z EXCEPT ![0] = @ \cup {p}]
  /\ UNCHANGED <<mode, comm, exchange, verified, faults>>

\* parties[0] finalizes.
LocalFinalize ==
  /\ mode = "local"
  /\ \A q \in Party : stage[q] = "respond"
  /\ FinalizeAndVerify(0)
  /\ stage' = [q \in Party |-> "done"]
  /\ UNCHANGED <<mode, comm, exchange, z, faults>>

\* SignRound1 reports a degenerate session: LocalRun returns the error.
LocalFails(p) ==
  /\ InTurn(p, "round1")
  /\ \E salt \in SaltRead(p) : ~SaltAccepted(salt)
  /\ Fault
  /\ stage' = [q \in Party |-> "dead"]
  /\ UNCHANGED <<vars, mode, comm, exchange, z, verified>>

-----------------------------------------------------------------------------
\* What p's process does next.
Step(p) ==
  \/ Start(p) \/ (\E q \in Peers(p) : Dial(p, q)) \/ Established(p)
  \/ GetSockPanics(p) \/ Deal(p) \/ Keyed(p) \/ DealFails(p)
  \/ MainRound1(p) \/ MainRound1Fails(p)
  \/ \E q \in Peers(p) :
       Receive(p, q) \/ RecvMatrixFails(p, q) \/ Check(p, q)
  \/ ExchangeFails(p) \/ Exchanged(p)
  \/ MainRound2(p) \/ Respond(p) \/ RespondFails(p)
  \/ LocalRound1(p) \/ LocalRound2(p) \/ LocalFails(p)

MainNext ==
  \/ \E p \in Party : Step(p) \/ Kill(p)
  \/ Combine
  \/ LocalFinalize

\* Every process that can take a step takes one.  No process has a loop without
\* end, so nothing more is asked of the goroutines of one process.
MainFairness ==
  /\ \A p \in Party : WF_mainVars(Step(p))
  /\ WF_mainVars(Combine)
  /\ WF_mainVars(LocalFinalize)

MainSpec == MainInit /\ [][MainNext]_mainVars /\ MainFairness

-----------------------------------------------------------------------------
(* Properties.                                                             *)

\* When the program prints a verification result, it is true: whatever was
\* lost in the unlocked maps, masked in the shared err or cut off by a process
\* that died, no party gets to combine an incomplete signature (main.go).
PrintsVerified == verified # FALSE

\* Every process ends: no order of sends and receives on unbuffered sockets
\* has the parties wait for each other, and the end of one process ends those
\* that wait for it (main.go).
Terminates == <>(\A p \in Party : Gone(p))
=============================================================================
