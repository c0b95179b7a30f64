-------------------------- MODULE ThresholdSignature --------------------------
(***************************************************************************)
(* What a threshold signing service promises its callers: a request (a     *)
(* session, a signer list and a message) is signed only after every        *)
(* signer it lists has approved exactly that request, and only if the      *)
(* listed signers hold the shares that recover the secret.                 *)
(***************************************************************************)
EXTENDS Functions

CONSTANTS Party, Dealt, Request

VARIABLES
  approved,    \* approved[p]: the requests p has agreed to sign
  issued       \* the requests a verifying signature exists for

vars == <<approved, issued>>

Init ==
  /\ approved = [p \in Party |-> {}]
  /\ issued = {}

\* p agrees to sign rq.
Approve(p, rq) ==
  /\ approved' = [approved EXCEPT ![p] = @ \cup {rq}]
  /\ UNCHANGED issued

\* A signature for rq appears.
Issue(rq) ==
  /\ \A p \in Range(rq.T) : rq \in approved[p]
  /\ Dealt \subseteq Range(rq.T)
  /\ issued' = issued \cup {rq}
  /\ UNCHANGED approved

Next ==
  \/ \E p \in Party, rq \in Request : Approve(p, rq)
  \/ \E rq \in Request : Issue(rq)

Spec == Init /\ [][Next]_vars
=============================================================================
