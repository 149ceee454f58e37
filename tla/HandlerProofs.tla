--------------------------- MODULE HandlerProofs ---------------------------
(***************************************************************************)
(* The lemmas of modules CoreProofs and CertificateProofs for the rest of  *)
(* the handlers of module Core: Timeouts, proposals and blocks.            *)
(***************************************************************************)
EXTENDS CertificateProofs

-----------------------------------------------------------------------------
(***************************************************************************)
(* Timeouts.                                                               *)
(***************************************************************************)

\* Aggregator::add_timeout and what handle_timeout does with the outcome.
LEMMA Leads_add_timeout ==
    ASSUME NEW s, Sound(s), NEW t \in Timeout, NEW e, e.payload \in Payload
    PROVE  Leads(s, add_timeout(s, t, e))
<1> DEFINE old == s.timeouts_aggregators[t.round]
           used == \E x \in old.votes : x.author = t.author
           maker == IF used THEN old ELSE append(old, t, e)
           weight == Cardinality(maker.votes)
           tc == NewTC(maker.high_qc, maker.high_wqc, t.round,
                       {[author |-> x.author, locked |-> x.high_qc.round] : x \in maker.votes})
           makers == [s.timeouts_aggregators EXCEPT ![t.round] = maker]
           t1 == [s EXCEPT !.timeouts_aggregators = makers]
           rest == Call("handle_tc", tc)
           t2 == push(t1, <<rest>>)
           t3 == send_timeout(t2, t.round)
           t4 == send_timeout(t1, t.round)
<1>1. /\ s \in State /\ t.round \in Round \ {0}
      /\ s.timeouts_aggregators \in [Round \ {0} -> TCMaker]
  BY Fields DEF Sound, Timeout
<1>2. add_timeout(s, t, e) = IF weight < validity_threshold THEN t1
                             ELSE IF used \/ weight < view_change_threshold THEN t4
                             ELSE t3
  BY DEF add_timeout
<1>3. old \in TCMaker
  BY <1>1
<1> HIDE DEF old, used
<1>4. maker \in TCMaker
  BY <1>3, AppendType
<1> HIDE DEF maker
<1>5. makers \in [Round \ {0} -> TCMaker]
  BY <1>1, <1>4
<1>6. tc \in TC
  <2>1. maker.votes \in SUBSET Timeout /\ maker.high_qc \in QC /\ maker.high_wqc \in WQC
    BY <1>4 DEF TCMaker
  <2>2. \A x \in Timeout : [author |-> x.author, locked |-> x.high_qc.round]
                               \in [author : Node, locked : Round]
    BY DEF Timeout, QC
  <2>3. {[author |-> x.author, locked |-> x.high_qc.round] : x \in maker.votes}
            \in SUBSET [author : Node, locked : Round]
    BY <2>1, <2>2
  <2>4. QED
    BY <1>1, <2>1, <2>3 DEF NewTC, TC
<1> HIDE DEF tc, makers, weight
<1>7. rest \in PendingCall
  BY <1>6, CallTypes
<1> HIDE DEF rest
<1>8. Leads(s, t1)
  BY <1>1, <1>5, Set_timeouts_aggregators, SameLeads
<1> HIDE DEF t1
<1>9. Leads(s, t4)
  <2>1. Leads(t1, t4)
    BY <1>1, <1>8, LeadsSound, Leads_send_timeout
  <2>2. QED
    BY <1>8, <2>1, ThenLeads
<1>10. Leads(t1, t2)
  BY <1>7, <1>8, LeadsSound, Leads_push
<1> HIDE DEF t2
<1>11. Leads(t2, t3)
  BY <1>1, <1>10, LeadsSound, Leads_send_timeout
<1> HIDE DEF t3, t4
<1>12. Leads(s, t3)
  <2>1. Leads(s, t2)
    BY <1>8, <1>10, ThenLeads
  <2>2. QED
    BY <1>11, <2>1, ThenLeads
<1>13. QED
  BY <1>2, <1>8, <1>9, <1>12

\* Core::handle_timeout.
LEMMA Leads_handle_timeout ==
    ASSUME NEW s, Sound(s), NEW t \in Timeout, NEW e, e.payload \in Payload
    PROVE  Leads(s, handle_timeout(s, t, e))
<1> DEFINE rest == Call("add_timeout", t)
           t1 == push(s, <<rest>>)
           t2 == handle_qc(t1, t.high_qc, e)
           t3 == resume(t2)
           t4 == add_timeout(t3, t, e)
<1>1. s.calls \in Seq(PendingCall) /\ t.high_qc \in QC /\ s.locked \in QC
  BY Fields DEF Sound, Timeout
<1>2. rest \in PendingCall
  BY CallTypes
<1>3. handle_timeout(s, t, e) =
          IF t.round <= s.locked.round THEN send(s, QCMessage(s.locked))
          ELSE IF t.round < s.round THEN send_timeout(s, s.round - 1)
          ELSE IF returned(t2, s.calls, rest) THEN t4 ELSE t2
  BY DEF handle_timeout
<1>4. Leads(s, send(s, QCMessage(s.locked)))
  BY <1>1, QCMessageType, Leads_send
<1>5. t.round < s.round => Leads(s, send_timeout(s, s.round - 1))
  <2>1. t.round < s.round => s.round - 1 \in Round \ {0}
    BY Fields, RoundAssumption DEF Sound, Timeout, Round
  <2>2. QED
    BY <2>1, Leads_send_timeout
<1> HIDE DEF rest
<1>6. Leads(s, t1)
  BY <1>2, Leads_push
<1> HIDE DEF t1
<1>7. Leads(t1, t2)
  BY <1>1, <1>6, LeadsSound, Leads_handle_qc
<1> HIDE DEF t2
<1>8. Leads(s, t2) /\ Sound(t2)
  BY <1>6, <1>7, ThenLeads, LeadsSound
<1>9. ASSUME returned(t2, s.calls, rest)
      PROVE  Leads(s, t4)
  <2>1. Leads(t2, t3)
    BY <1>1, <1>2, <1>8, <1>9, Leads_returned
  <2>2. Leads(t3, t4)
    BY <2>1, LeadsSound, Leads_add_timeout
  <2>3. Leads(s, t3)
    BY <1>8, <2>1, ThenLeads
  <2>4. QED
    BY <2>2, <2>3, ThenLeads
<1> HIDE DEF t4
<1>10. QED
  BY <1>3, <1>4, <1>5, <1>8, <1>9

\* Core::local_timeout_round, in a round the model covers.
LEMMA Leads_local_timeout_round ==
    ASSUME NEW s, Sound(s), s.round <= MaxRound
    PROVE  Leads(s, local_timeout_round(s))
<1>1. PICK t : t = [s EXCEPT !.timeout_syncs = {}]
  OBVIOUS
<1>2. Leads(s, t)
  BY <1>1, Set_timeout_syncs, SameLeads DEF Sound
<1>3. s.round \in Round \ {0}
  BY Fields, RoundAssumption DEF Sound, Round
<1>4. Leads(t, send_timeout(t, s.round))
  BY <1>2, <1>3, LeadsSound, Leads_send_timeout
<1>5. QED
  BY <1>1, <1>2, <1>4, ThenLeads DEF local_timeout_round

-----------------------------------------------------------------------------
(***************************************************************************)
(* Proposals and blocks.                                                   *)
(***************************************************************************)

\* What process_block does with a block it accepts.
LEMMA Leads_accept_block ==
    ASSUME NEW s, Sound(s), NEW b \in Block
    PROVE  Leads(s, accept_block(s, b))
<1>1. PICK t : t = store_block(s, b)
  OBVIOUS
<1>2. PICK u : u = try_commit_or_sync_ancestor(t, b)
  OBVIOUS
<1>3. Leads(s, t)
  BY <1>1, Leads_store_block
<1>4. Leads(t, u)
  BY <1>2, <1>3, LeadsSound, Leads_try_commit_or_sync_ancestor
<1>5. Leads(u, try_vote(u))
  BY <1>4, LeadsSound, Leads_try_vote
<1>6. Leads(s, u)
  BY <1>3, <1>4, ThenLeads
<1>7. Leads(s, try_vote(u))
  BY <1>5, <1>6, ThenLeads
<1>8. QED
  BY <1>1, <1>2, <1>6, <1>7 DEF accept_block

\* A block that is no longer waited for.
LEMMA Leads_received ==
    ASSUME NEW s, Sound(s), NEW b \in Block
    PROVE  Leads(s, [s EXCEPT !.sync_requests = s.sync_requests \ {b}])
<1>1. s \in State /\ s.sync_requests \ {b} \in SUBSET Block
  BY Fields DEF Sound
<1>2. QED
  BY <1>1, Set_sync_requests, SameLeads

\* Core::process_block.
LEMMA Leads_process_block ==
    ASSUME NEW s, Sound(s), NEW b \in Block
    PROVE  Leads(s, process_block(s, b))
<1>1. PICK t : t = [s EXCEPT !.sync_requests = s.sync_requests \ {b}]
  OBVIOUS
<1>2. Leads(s, t)
  BY <1>1, Leads_received
<1>3. Leads(t, accept_block(t, b))
  BY <1>2, LeadsSound, Leads_accept_block
<1>4. Leads(s, accept_block(t, b))
  BY <1>2, <1>3, ThenLeads
<1>5. process_block(s, b) \in {s, accept_block(t, b), panic(s), reject(s), accept_block(s, b)}
  BY <1>1 DEF process_block
<1>6. QED
  BY <1>4, <1>5, StayLeads, Leads_panic, Leads_reject, Leads_accept_block

\* The end of process_normal_proposal and process_fallback_recovery_proposal.
LEMMA Leads_finish_proposal ==
    ASSUME NEW s, Sound(s), NEW p \in Proposal
    PROVE  Leads(s, finish_proposal(s, p))
<1>1. p.block \in Block
  BY DEF Proposal
<1>2. finish_proposal(s, p) \in {process_block(s, p.block), reject(s)}
  BY DEF finish_proposal
<1>3. QED
  BY <1>1, <1>2, Leads_process_block, Leads_reject

\* Core::handle_proposal.
LEMMA Leads_handle_proposal ==
    ASSUME NEW s, Sound(s), NEW p \in Proposal, NEW e, e.payload \in Payload
    PROVE  Leads(s, handle_proposal(s, p, e))
<1> DEFINE rest == Call("finish_proposal", p)
           t1 == push(s, <<rest>>)
           t2 == IF p.type = "F" THEN handle_tc(t1, p.tc, e) ELSE handle_qc(t1, p.qc, e)
           t3 == resume(t2)
           t4 == finish_proposal(t3, p)
<1>1. /\ s.calls \in Seq(PendingCall)
      /\ p.type = "F" => p.tc \in TC
      /\ p.type # "F" => p.qc \in QC
  BY Fields DEF Sound, Proposal
<1>2. rest \in PendingCall
  BY CallTypes
<1>3. handle_proposal(s, p, e) = IF returned(t2, s.calls, rest) THEN t4 ELSE t2
  BY DEF handle_proposal
<1> HIDE DEF rest
<1>4. Leads(s, t1)
  BY <1>2, Leads_push
<1> HIDE DEF t1
<1>5. Leads(t1, t2)
  BY <1>1, <1>4, LeadsSound, Leads_handle_qc, Leads_handle_tc
<1> HIDE DEF t2
<1>6. Leads(s, t2) /\ Sound(t2)
  BY <1>4, <1>5, ThenLeads, LeadsSound
<1>7. ASSUME returned(t2, s.calls, rest)
      PROVE  Leads(s, t4)
  <2>1. Leads(t2, t3)
    BY <1>1, <1>2, <1>6, <1>7, Leads_returned
  <2>2. Leads(t3, t4)
    BY <2>1, LeadsSound, Leads_finish_proposal
  <2>3. Leads(s, t3)
    BY <1>6, <2>1, ThenLeads
  <2>4. QED
    BY <2>2, <2>3, ThenLeads
<1> HIDE DEF t4
<1>8. QED
  BY <1>3, <1>6, <1>7

\* Core::handle_sync_response.
LEMMA Leads_handle_sync_response ==
    ASSUME NEW s, Sound(s), NEW b \in Block
    PROVE  Leads(s, handle_sync_response(s, b))
<1>1. PICK t : t = [s EXCEPT !.sync_requests = s.sync_requests \ {b}]
  OBVIOUS
<1>2. PICK u : u = store_block(t, b)
  OBVIOUS
<1>3. Leads(s, t)
  BY <1>1, Leads_received
<1>4. Leads(t, u)
  BY <1>2, <1>3, LeadsSound, Leads_store_block
<1>5. Leads(u, try_commit_or_sync_ancestor(u, b))
  BY <1>4, LeadsSound, Leads_try_commit_or_sync_ancestor
<1>6. Leads(s, u)
  BY <1>3, <1>4, ThenLeads
<1>7. Leads(s, try_commit_or_sync_ancestor(u, b))
  BY <1>5, <1>6, ThenLeads
<1>8. handle_sync_response(s, b) \in {t, try_commit_or_sync_ancestor(u, b)}
  BY <1>1, <1>2 DEF handle_sync_response
<1>9. QED
  BY <1>3, <1>7, <1>8

\* Core::handle_synchronizer_loopback.
LEMMA Leads_handle_synchronizer_loopback ==
    ASSUME NEW s, Sound(s), NEW b \in Block
    PROVE  Leads(s, handle_synchronizer_loopback(s, b))
BY StayLeads, Leads_try_commit_or_sync_ancestor DEF handle_synchronizer_loopback

\* The state a node starts in.
LEMMA InitialStateSound ==
    ASSUME NEW n \in Node
    PROVE  Sound(InitialState(n))
<1>1. 1 \in 1..(MaxRound + 1) /\ 0 \in Round
  BY RoundAssumption DEF Round
<1>2. NewVote(n, Genesis, "Normal", 0) \in Vote
  BY GenesisTypes DEF NewVote, Vote, VoteType
<1>3. [r \in Round \ {0} |-> NewTCMaker] \in [Round \ {0} -> TCMaker]
  BY GenesisTypes DEF NewTCMaker, TCMaker
<1>4. << >> \in Seq(Block) /\ << >> \in Seq(PendingCall)
  OBVIOUS
<1>5. InitialState(n) \in State
  BY <1>1, <1>2, <1>3, <1>4, GenesisTypes DEF InitialState, State
<1>6. InitialState(n).last_vote.round <= InitialState(n).round
  BY DEF InitialState, NewVote
<1>7. InitialState(n).sent = {} /\ InitialState(n).pending_proposals = {Genesis}
  BY DEF InitialState
<1>8. Ballot(InitialState(n))
  <2>1. BlockRound(Genesis) = 0
    BY DEF BlockRound, Genesis
  <2>2. QED
    BY <1>7, <2>1 DEF Ballot, VotesOf, VotesOnce
<1>9. QED
  BY <1>5, <1>6, <1>7, <1>8 DEF Sound
=============================================================================
