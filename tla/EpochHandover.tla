---------------------------- MODULE EpochHandover ----------------------------
(***************************************************************************)
(* The key-era lifecycle with the pairwise material each handover leaves   *)
(* the new committee with: after a Reshare the members exchange signed     *)
(* ephemeral keys under the transcript of that handover and derive their   *)
(* seeds and MAC keys from them, in place of the material keyera draws in  *)
(* process.                                                                *)
(*                                                                         *)
(* A member may be handed any signed ephemeral that was ever sent: of this *)
(* handover or of another, its peer's or somebody else's.  One exchange is *)
(* run per handover: the transcript has no attempt number.                 *)
(***************************************************************************)
EXTENDS KeyEra, PairwiseKeys

\* The point of low order is nobody's key.
ASSUME LowOrderAssumption ==
  \A l \in ValidatorList : LowOrder.Party \notin Range(l)

VARIABLE transcript  \* of the Reshare that made the current state, else Nil

handoverVars == <<era, transcript>>

HandoverInit == Init /\ transcript = Nil

\* A fresh key: the ceremony's own material is used.
OpenEra == (Bootstrap \/ Reanchor) /\ transcript' = Nil

\* A Reshare whose exchange is bound to BuildTranscript of the two states.
Handover ==
  /\ era # Nil
  /\ \E validators \in ValidatorList : \E t \in Positions(validators) :
       \E draw \in Draws(SelectQuorum(Positions(era.State.Validators),
                                      era.State.Threshold), t, Rand) :
         Reshare(validators, t, draw)
  /\ transcript' = ReshareTranscriptHash(era.State, era'.State, era.GroupKey)

HandoverNext == OpenEra \/ Handover

HandoverSpec == HandoverInit /\ [][HandoverNext]_handoverVars

-----------------------------------------------------------------------------
(* What is on the wire.                                                    *)

\* The committee in order of position, and its size.
MemberAt(i) == era.State.Validators[i + 1]
Size == Len(era.State.Validators)

\* The name of the exchange of the current handover.
ThisExchange == <<"reshare", era.State.Epoch>>

\* The exchanges a signed ephemeral on the wire may be of: handovers to this
\* committee at any epoch, and a refresh of it for the same epochs.
Exchanges ==
  {[of |-> <<"reshare", e>>,
    th |-> [transcript EXCEPT !.OldEpochID = e - 1, !.NewEpochID = e]] :
     e \in 1 .. MaxEpoch}
    \cup {[of |-> <<"refresh", era.State.Epoch>>,
           th |-> RefreshTranscriptHash([era.State EXCEPT !.Epoch = @ - 1],
                                        era.State.Epoch, era.GroupKey)]}

\* The signed ephemerals on the wire.
Wire ==
  {SignEphemeral(v, Ephemeral(v, x.of), x.th) :
     v \in Range(era.State.Validators), x \in Exchanges}

\* The auth_kex position i computes from the message m of its peer.
KexAt(i, m) ==
  AuthenticatedKex(Ephemeral(MemberAt(i), ThisExchange), m.PubEph,
                   transcript, era.HashSuiteID)

\* What position i may take for the ephemeral of its peer at j.
Taken(j) == {m \in Wire : KexAdmits(m.PubEph, m, MemberAt(j), transcript)}

\* The exchange as the committee runs it: the smaller position of each pair
\* computes auth_kex from a message it took.
AuthKex == [p \in Pairs(Size) |-> KexAt(p[1], CHOOSE m \in Taken(p[2]) : TRUE)]

\* A self-seed comes from the member's own key.
SelfSeeds == [i \in Places(Size) |-> [Own |-> MemberAt(i)]]

Seeds == SeedsOf(Size, DeriveSeeds(Size, AuthKex, SelfSeeds, era.State))
MACs == DeriveMACKeys(Size, AuthKex, era.State)
MACKeysAt(i) == MACKeysOf(i, Size, MACs)

-----------------------------------------------------------------------------
\* After a handover the exchange completes, whatever else is delivered both
\* ends of a pair compute one auth_kex, and they hold one MAC key, which no
\* other pair holds and which is nobody's seed (AuthenticatedKex,
\* DeriveMACKeys, PartyKeyShareFromShare).
PairKeysShared ==
  transcript # Nil =>
    /\ \A i \in Places(Size) : Taken(i) # {}
    /\ \A p \in Pairs(Size) : \A m \in Taken(p[2]), n \in Taken(p[1]) :
         KexAt(p[1], m) = KexAt(p[2], n)
    /\ DeriveAdmits(Size, AuthKex, SelfSeeds)
    /\ \A p, r \in Pairs(Size) :
         (MACKeysAt(p[1])[p[2]] = MACKeysAt(r[2])[r[1]]) <=> (p = r)
    /\ \A p \in Pairs(Size) : MACKeysAt(p[1])[p[2]] \notin Range(Seeds)
=============================================================================
