------------------------- MODULE CertificateProofs -------------------------
(***************************************************************************)
(* The lemmas of module CoreProofs for the handlers of module Core that    *)
(* propose and that take quorum certificates and timeout certificates.     *)
(***************************************************************************)
EXTENDS CoreProofs

-----------------------------------------------------------------------------
(***************************************************************************)
(* Proposing and quorum certificates.                                      *)
(***************************************************************************)

\* Core::propose_normal.
LEMMA Leads_propose_normal ==
    ASSUME NEW s, Sound(s), NEW qc \in QC, NEW e, e.payload \in Payload
    PROVE  Leads(s, propose_normal(s, qc, e))
<1> DEFINE r == qc.round + 1
           b == NewBlock(s.name, qc.blk_hash, e.payload, r)
           m == NormalProposal(b, qc)
<1>1. s.name \in Node
  BY Fields DEF Sound
<1>2. ASSUME r <= MaxRound
      PROVE  Leads(s, send(s, m))
  <2>1. qc.blk_hash \in Block /\ r \in Round \ {0}
    BY <1>2, RoundAssumption DEF QC, Round
  <2>2. b \in Block
    BY <1>1, <2>1, NewBlockType
  <2> HIDE DEF b
  <2>3. m \in Message /\ m.type = "N"
    BY <2>2 DEF NormalProposal, Message, Proposal
  <2> HIDE DEF m
  <2>4. QED
    BY <2>3, Leads_send
<1>3. propose_normal(s, qc, e) = IF r <= MaxRound /\ s.name = Leader[r] THEN send(s, m) ELSE s
  BY DEF propose_normal, propose_if_leader
<1> HIDE DEF m, r
<1>4. QED
  BY <1>2, <1>3, StayLeads

\* The block that a TC allows to extend is a block.
LEMMA SafeBlockType ==
    ASSUME NEW tc \in TC
    PROVE  SafeBlock(tc) \in Block
BY DEF SafeBlock, TC, QC, WQC

\* Core::propose_fallback.
LEMMA Leads_propose_fallback ==
    ASSUME NEW s, Sound(s), NEW tc \in TC, NEW e, e.payload \in Payload
    PROVE  Leads(s, propose_fallback(s, tc, e))
<1> DEFINE r == tc.round + 1
           b == NewBlock(s.name, SafeBlock(tc), e.payload, r)
           m == FallbackRecoveryProposal(b, tc)
<1>1. s.name \in Node
  BY Fields DEF Sound
<1>2. ASSUME r <= MaxRound
      PROVE  Leads(s, send(s, m))
  <2>1. r \in Round \ {0}
    BY <1>2, RoundAssumption DEF TC, Round
  <2>2. b \in Block
    BY <1>1, <2>1, NewBlockType, SafeBlockType
  <2> HIDE DEF b
  <2>3. m \in Message /\ m.type = "F"
    BY <2>2 DEF FallbackRecoveryProposal, Message, Proposal
  <2> HIDE DEF m
  <2>4. QED
    BY <2>3, Leads_send
<1>3. propose_fallback(s, tc, e) = IF r <= MaxRound /\ s.name = Leader[r] THEN send(s, m) ELSE s
  BY DEF propose_fallback, propose_if_leader
<1> HIDE DEF m, r
<1>4. QED
  BY <1>2, <1>3, StayLeads

\* Core::handle_commit_qc.
LEMMA Leads_handle_commit_qc ==
    ASSUME NEW s, Sound(s), NEW qc \in QC
    PROVE  Leads(s, handle_commit_qc(s, qc))
<1>1. PICK t : t = schedule_commit(s, qc.blk_hash)
  OBVIOUS
<1>2. qc.blk_hash \in Block
  BY DEF QC
<1>3. Leads(s, t)
  BY <1>1, <1>2, Leads_schedule_commit
<1>4. Leads(t, cleanup_prepares(t, qc.round))
  BY <1>3, LeadsSound, Leads_cleanup_prepares
<1>5. Leads(s, cleanup_prepares(t, qc.round))
  BY <1>3, <1>4, ThenLeads
<1>6. QED
  BY <1>1, <1>5, StayLeads DEF handle_commit_qc

\* Taking the lock of a higher round.
LEMMA Leads_set_locked ==
    ASSUME NEW s, Sound(s), NEW qc \in QC, s.locked.round < qc.round,
           NEW t, t = cleanup_timeouts([s EXCEPT !.locked = qc], qc.round)
    PROVE  /\ Leads(s, t) /\ t.last_timeout = s.last_timeout
           /\ t.locked = qc /\ t.sent = s.sent
<1>1. s \in State
  BY DEF Sound
<1>2. PICK u : u = [s EXCEPT !.locked = qc]
  OBVIOUS
<1>3. /\ u \in State /\ u.locked = qc /\ u.sent = s.sent
      /\ u.name = s.name /\ u.round = s.round /\ u.last_timeout = s.last_timeout
      /\ u.last_vote = s.last_vote /\ u.high_wqc = s.high_wqc
      /\ u.last_commit = s.last_commit /\ u.pending_proposals = s.pending_proposals
  BY <1>1, <1>2 DEF State
<1>4. Sound(u)
  <2>1. CommitRound(u) = CommitRound(s)
    BY <1>3 DEF CommitRound
  <2>2. /\ VotesOf(u, "Normal") = VotesOf(s, "Normal")
        /\ VotesOf(u, "Commit") = VotesOf(s, "Commit")
        /\ VotesOnce(s) => VotesOnce(u)
    BY <1>3 DEF VotesOf, VotesOnce
  <2>3. \A v \in VotesOf(s, "Commit") : v.round <= qc.round
    <3>1. s.locked.round \in Int /\ qc.round \in Int
      BY <1>1, RoundTypes, RoundAssumption DEF QC, Round
    <3>2. QED
      BY <1>1, <3>1, VoteRounds DEF Sound, Ballot
  <2>4. Ballot(u)
    BY <1>3, <2>1, <2>2, <2>3 DEF Sound, Ballot
  <2>5. QED
    BY <1>3, <2>4 DEF Sound
<1>5. Leads(s, u)
  BY <1>1, <1>3, <1>4, RoundTypes DEF Leads
<1>6. t \in State /\ Same(u, t)
  BY <1>2, <1>3, Same_cleanup_timeouts
<1>7. Leads(u, t)
  BY <1>4, <1>6, SameLeads
<1>8. t.last_timeout = s.last_timeout /\ t.locked = qc /\ t.sent = s.sent
  BY <1>3, <1>6 DEF Same, Reports
<1>9. Leads(s, t)
  BY <1>5, <1>7, ThenLeads
<1>10. QED
  BY <1>8, <1>9

\* The lock and the Commit vote of handle_prepare_qc.
LEMMA Leads_lock ==
    ASSUME NEW s, Sound(s), NEW qc \in QC
    PROVE  Leads(s, lock(s, qc))
<1>1. CASE s.locked.round >= qc.round
  BY <1>1, StayLeads DEF lock
<1>2. CASE ~(s.locked.round >= qc.round)
  <2>1. qc.round \in Round /\ qc.round \in Int /\ qc.blk_hash \in Block /\ s.locked.round \in Int
    BY RoundTypes, RoundAssumption DEF Sound, QC, Round
  <2>2. PICK t : t = cleanup_timeouts([s EXCEPT !.locked = qc], qc.round)
    OBVIOUS
  <2>3. /\ Leads(s, t) /\ t.last_timeout = s.last_timeout
        /\ t.locked.round = qc.round /\ t.sent = s.sent
    BY <1>2, <2>1, <2>2, Leads_set_locked
  <2>4. Sound(t) /\ \A w \in VotesOf(t, "Commit") : w.round < qc.round
    <3>1. s \in State /\ VotesOf(t, "Commit") = VotesOf(s, "Commit")
      BY <2>3 DEF Sound, VotesOf
    <3>2. \A w \in VotesOf(s, "Commit") : w.round <= s.locked.round /\ w.round \in Int
      BY <3>1, VoteRounds DEF Sound, Ballot
    <3>3. QED
      BY <1>2, <2>1, <2>3, <3>1, <3>2, LeadsSound
  <2>5. s.last_timeout < qc.round => Leads(t, send_vote(t, qc.blk_hash, qc.round, "Commit"))
    BY <2>1, <2>3, <2>4, Leads_send_commit_vote
  <2>6. s.last_timeout < qc.round => Leads(s, send_vote(t, qc.blk_hash, qc.round, "Commit"))
    BY <2>3, <2>5, ThenLeads
  <2>7. lock(s, qc) = IF s.last_timeout < qc.round
                      THEN send_vote(t, qc.blk_hash, qc.round, "Commit") ELSE t
    BY <1>2, <2>2 DEF lock
  <2>8. QED
    BY <2>3, <2>6, <2>7
<1>3. QED
  BY <1>1, <1>2

\* A QC as a message.
LEMMA QCMessageType ==
    ASSUME NEW qc \in QC
    PROVE  QCMessage(qc) \in Message /\ QCMessage(qc).type = "QC"
BY DEF QCMessage, Message

\* The end of handle_prepare_qc.
LEMMA Leads_finish_prepare_qc ==
    ASSUME NEW s, Sound(s), NEW qc \in QC
    PROVE  Leads(s, finish_prepare_qc(s, qc))
<1>1. PICK t : t = get_block(s, qc.blk_hash, qc.round)
  OBVIOUS
<1>2. qc.blk_hash \in Block /\ qc.round + 1 \in 1..(MaxRound + 1)
  BY RoundAssumption DEF QC, Round
<1>3. Leads(s, t) /\ Sound(t)
  BY <1>1, <1>2, Leads_get_block, LeadsSound
<1>4. PICK u : u = send(t, QCMessage(qc))
  OBVIOUS
<1>5. Leads(t, u)
  BY <1>3, <1>4, QCMessageType, Leads_send
<1>6. Leads(u, advance_to_round(u, qc.round + 1))
  BY <1>2, <1>5, LeadsSound, Leads_advance_to_round
<1>7. Leads(s, advance_to_round(u, qc.round + 1))
  BY <1>3, <1>5, <1>6, ThenLeads
<1>8. QED
  BY <1>1, <1>3, <1>4, <1>7 DEF finish_prepare_qc

\* Core::handle_prepare_qc.
LEMMA Leads_handle_prepare_qc ==
    ASSUME NEW s, Sound(s), NEW qc \in QC, NEW e, e.payload \in Payload
    PROVE  Leads(s, handle_prepare_qc(s, qc, e))
<1> DEFINE t1 == [s EXCEPT !.uncommitted_qcs = s.uncommitted_qcs \cup {qc}]
           t2 == IF s.round < qc.round + 1 THEN propose_normal(t1, qc, e) ELSE t1
           rest == Call("finish_prepare_qc", qc)
           t3 == push(t2, <<rest>>)
           t4 == lock(t3, qc)
           t5 == resume(t4)
           t6 == finish_prepare_qc(t5, qc)
<1>1. s \in State /\ s.uncommitted_qcs \cup {qc} \in SUBSET QC /\ s.calls \in Seq(PendingCall)
  BY Fields DEF Sound
<1>2. rest \in PendingCall
  BY CallTypes
<1>3. handle_prepare_qc(s, qc, e) =
          IF \E x \in s.uncommitted_qcs : x.round = qc.round THEN s
          ELSE IF returned(t4, s.calls, rest) THEN t6 ELSE t4
  BY DEF handle_prepare_qc
<1>4. Leads(s, t1)
  BY <1>1, Set_uncommitted_qcs, SameLeads
<1> HIDE DEF t1
<1>5. Leads(t1, t2)
  BY <1>4, LeadsSound, Leads_propose_normal, StayLeads
<1> HIDE DEF t2, rest
<1>6. Leads(t2, t3)
  BY <1>2, <1>5, LeadsSound, Leads_push
<1> HIDE DEF t3
<1>7. Leads(t3, t4)
  BY <1>6, LeadsSound, Leads_lock
<1> HIDE DEF t4
<1>8. Leads(s, t4) /\ Sound(t4)
  <2>1. Leads(s, t2)
    BY <1>4, <1>5, ThenLeads
  <2>2. Leads(s, t3)
    BY <1>6, <2>1, ThenLeads
  <2>3. Leads(s, t4)
    BY <1>7, <2>2, ThenLeads
  <2>4. QED
    BY <2>3, LeadsSound
<1>9. ASSUME returned(t4, s.calls, rest)
      PROVE  Leads(s, t6)
  <2>1. Leads(t4, t5)
    BY <1>1, <1>2, <1>8, <1>9, Leads_returned
  <2>2. Leads(t5, t6)
    BY <2>1, LeadsSound, Leads_finish_prepare_qc
  <2>3. Leads(s, t5)
    BY <1>8, <2>1, ThenLeads
  <2>4. QED
    BY <2>2, <2>3, ThenLeads
<1> HIDE DEF t6
<1>10. QED
  BY <1>3, <1>8, <1>9, StayLeads

\* Core::handle_qc.
LEMMA Leads_handle_qc ==
    ASSUME NEW s, Sound(s), NEW qc \in QC, NEW e, e.payload \in Payload
    PROVE  Leads(s, handle_qc(s, qc, e))
BY StayLeads, Leads_handle_commit_qc, Leads_handle_prepare_qc DEF handle_qc

-----------------------------------------------------------------------------
(***************************************************************************)
(* Timeouts and timeout certificates.                                      *)
(***************************************************************************)

\* The certificates of Genesis are certificates.
LEMMA GenesisTypes ==
    0 \in Round /\ Genesis \in Block /\ GenesisQC \in QC /\ GenesisWQC \in WQC
<1>1. 0 \in Round /\ << >> \in Block
  BY RoundAssumption DEF Round, Block
<1>2. QED
  BY <1>1 DEF GenesisQC, GenesisWQC, NewQC, NewWQC, QC, WQC, Genesis, VoteType

\* TCMaker::check_wqc.
LEMMA CheckWQCType ==
    ASSUME NEW timeouts \in SUBSET Timeout, NEW e
    PROVE  check_wqc(timeouts, e) \in WQC
<1> DEFINE high_votes == {t.high_vote : t \in timeouts}
           group(r) == {v \in high_votes : v.round = r}
           found == {r \in {v.round : v \in high_votes} :
                        Cardinality(group(r)) >= weak_cert_threshold}
           w(r) == NewWQC((CHOOSE v \in group(r) : TRUE).blk_hash, r)
           wqc(r) == IF r # 0 /\ Cardinality({v.blk_hash : v \in group(r)}) = 1
                     THEN w(r) ELSE GenesisWQC
<1>1. high_votes \in SUBSET Vote
  BY DEF Timeout
<1> HIDE DEF high_votes
<1>2. ASSUME NEW r \in {v.round : v \in high_votes}
      PROVE  w(r) \in WQC
  <2>1. group(r) # {} /\ r \in Round
    BY <1>1 DEF Vote
  <2>2. (CHOOSE v \in group(r) : TRUE) \in Vote
    BY <1>1, <2>1
  <2>3. (CHOOSE v \in group(r) : TRUE).blk_hash \in Block
    BY <2>2 DEF Vote
  <2>4. QED
    BY <2>1, <2>3 DEF NewWQC, WQC
<1>3. \A r \in found : wqc(r) \in WQC
  <2> HIDE DEF w, group
  <2> QED
    BY <1>2, GenesisTypes
<1>4. check_wqc(timeouts, e) = IF found = {} THEN GenesisWQC
                               ELSE IF e.first \in found THEN wqc(e.first)
                               ELSE wqc(CHOOSE r \in found : TRUE)
  BY DEF check_wqc, high_votes
<1> HIDE DEF found, wqc
<1>5. QED
  BY <1>3, <1>4, GenesisTypes

\* TCMaker::append.
LEMMA AppendType ==
    ASSUME NEW maker \in TCMaker, NEW t \in Timeout, NEW e
    PROVE  append(maker, t, e) \in TCMaker
<1>1. /\ maker.votes \in SUBSET Timeout /\ maker.high_qc \in QC /\ maker.high_wqc \in WQC
      /\ t.high_qc \in QC /\ t.high_wqc \in WQC
  BY DEF TCMaker, Timeout
<1>2. maker.votes \cup {t} \in SUBSET Timeout
  BY <1>1
<1>3. check_wqc(maker.votes \cup {t}, e) \in WQC
  BY <1>2, CheckWQCType
<1>4. /\ higher(maker.high_qc, t.high_qc) \in QC
      /\ higher(maker.high_wqc, t.high_wqc) \in WQC
      /\ higher(higher(maker.high_wqc, t.high_wqc), check_wqc(maker.votes \cup {t}, e)) \in WQC
  BY <1>1, <1>3 DEF higher
<1>5. QED
  BY <1>2, <1>4 DEF append, TCMaker

\* Core::send_timeout: last_timeout covers the Timeout sent.
LEMMA Leads_send_timeout ==
    ASSUME NEW s, Sound(s), NEW r \in Round \ {0}
    PROVE  Leads(s, send_timeout(s, r))
<1>1. s \in State /\ s.timeout_syncs \cup {r} \in SUBSET Round
  BY Fields DEF Sound
<1>2. PICK m : m = NewTimeout(s.last_vote, s.locked, s.high_wqc, r, s.name)
  OBVIOUS
<1>3. m \in Timeout /\ m \in Message /\ m.type = "Timeout" /\ m.round = r
  BY <1>1, <1>2, Fields DEF NewTimeout, Timeout, Message
<1> DEFINE x == IF r > s.last_timeout THEN r ELSE s.last_timeout
<1>4. x \in Round /\ s.last_timeout <= x /\ r <= x /\ x \in Int /\ r \in Int
  BY <1>1, Fields, RoundAssumption DEF Round
<1>5. PICK t : t = [s EXCEPT !.last_timeout = x]
  OBVIOUS
<1>6. PICK u : u = [t EXCEPT !.timeout_syncs = s.timeout_syncs \cup {r}]
  OBVIOUS
<1>7. PICK w : w = send(u, m)
  OBVIOUS
<1>8. [s EXCEPT !.last_timeout = x, !.timeout_syncs = s.timeout_syncs \cup {r}] = u
  BY <1>5, <1>6
<1>9. send_timeout(s, r) = IF r \in s.timeout_syncs THEN s
                           ELSE push(w, <<Call("handle_timeout", m)>>)
  BY <1>2, <1>7, <1>8 DEF send_timeout
<1> HIDE DEF x
<1>10. /\ t \in State /\ t.last_timeout = x /\ t.sent = s.sent
       /\ t.name = s.name /\ t.round = s.round /\ t.last_vote = s.last_vote
       /\ t.locked = s.locked /\ t.high_wqc = s.high_wqc
       /\ t.last_commit = s.last_commit /\ t.pending_proposals = s.pending_proposals
  BY <1>1, <1>4, <1>5 DEF State
<1>11. u \in State /\ Same(t, u)
  BY <1>1, <1>6, <1>10, Set_timeout_syncs
<1>12. /\ w \in State /\ w.sent = s.sent \cup {m}
       /\ w.name = s.name /\ w.round = s.round /\ w.last_timeout = x
       /\ w.last_vote = s.last_vote /\ w.locked = s.locked /\ w.high_wqc = s.high_wqc
       /\ w.last_commit = s.last_commit /\ w.pending_proposals = s.pending_proposals
  <2>1. /\ w \in State /\ w.sent = u.sent \cup {m}
        /\ w.name = u.name /\ w.round = u.round /\ w.last_timeout = u.last_timeout
        /\ w.last_vote = u.last_vote /\ w.locked = u.locked /\ w.high_wqc = u.high_wqc
        /\ w.last_commit = u.last_commit /\ w.pending_proposals = u.pending_proposals
    BY <1>3, <1>7, <1>11 DEF send, State
  <2>2. QED
    BY <1>10, <1>11, <2>1 DEF Same, Reports
<1>13. Sound(w)
  <2>1. ASSUME NEW k \in s.sent, k.type = "Timeout"
        PROVE  k.round <= x
    <3>1. k.round <= s.last_timeout
      BY <2>1 DEF Sound
    <3>2. k \in Message
      BY <1>1, Fields
    <3>3. k.round \in Int
      BY <2>1, <3>2, MessageTypes, RoundAssumption DEF Timeout, Round
    <3>4. QED
      BY <1>1, <1>4, <3>1, <3>3, RoundTypes
  <2>2. \A k \in w.sent : k.type = "Timeout" => k.round <= w.last_timeout
    BY <1>3, <1>4, <1>12, <2>1
  <2>3. Ballot(w)
    BY <1>3, <1>12, BallotSame DEF Sound
  <2>4. QED
    BY <1>12, <2>2, <2>3 DEF Sound
<1>14. Leads(s, w)
  BY <1>1, <1>3, <1>4, <1>12, <1>13, RoundTypes DEF Leads
<1>15. Leads(w, push(w, <<Call("handle_timeout", m)>>))
  BY <1>3, <1>13, CallTypes, Leads_push
<1>16. Leads(s, push(w, <<Call("handle_timeout", m)>>))
  BY <1>14, <1>15, ThenLeads
<1>17. QED
  BY <1>9, <1>16, StayLeads

\* Core::handle_wqc.
LEMMA Leads_handle_wqc ==
    ASSUME NEW s, Sound(s), NEW wqc \in WQC
    PROVE  Leads(s, handle_wqc(s, wqc))
<1>1. s \in State
  BY DEF Sound
<1>2. CASE s.high_wqc.round < wqc.round
  <2>1. PICK t : t = [s EXCEPT !.high_wqc = wqc]
    OBVIOUS
  <2>2. /\ t \in State /\ t.high_wqc = wqc /\ t.sent = s.sent
        /\ t.name = s.name /\ t.round = s.round /\ t.last_timeout = s.last_timeout
        /\ t.last_vote = s.last_vote /\ t.locked = s.locked
        /\ t.last_commit = s.last_commit /\ t.pending_proposals = s.pending_proposals
    BY <1>1, <2>1 DEF State
  <2>3. Sound(t)
    BY <2>2, BallotSame DEF Sound
  <2>4. wqc.round \in Int
    BY RoundAssumption DEF WQC, Round
  <2>5. Leads(s, t)
    BY <1>1, <1>2, <2>2, <2>3, <2>4, RoundTypes DEF Leads
  <2>6. QED
    BY <1>2, <2>1, <2>5 DEF handle_wqc
<1>3. CASE ~(s.high_wqc.round < wqc.round)
  BY <1>3, StayLeads DEF handle_wqc
<1>4. QED
  BY <1>2, <1>3

\* The end of handle_tc.
LEMMA Leads_finish_tc ==
    ASSUME NEW s, Sound(s), NEW tc \in TC, NEW e, e.payload \in Payload
    PROVE  Leads(s, finish_tc(s, tc, e))
<1> DEFINE t1 == handle_wqc(s, tc.high_wqc)
           t2 == propose_fallback(t1, tc, e)
           rest == Call("advance_to_round", tc.round + 1)
           t3 == push(t2, <<rest>>)
           t4 == send_timeout(t3, tc.round)
<1>1. /\ s.calls \in Seq(PendingCall) /\ tc.high_wqc \in WQC
      /\ tc.round \in Round \ {0} /\ tc.round + 1 \in 1..(MaxRound + 1)
  BY Fields, RoundAssumption DEF Sound, TC, Round
<1>2. rest \in PendingCall
  BY <1>1, CallTypes
<1>3. send_to(t2, TCMessage(tc), Leader[tc.round + 1]) = t2
  BY DEF send_to, TCMessage
<1>4. finish_tc(s, tc, e) = IF ~TC_is_well_formed(tc) THEN reject(t1)
                            ELSE t4
  BY <1>3 DEF finish_tc
<1>5. Leads(s, t1)
  BY <1>1, Leads_handle_wqc
<1> HIDE DEF t1
<1>6. Leads(t1, t2)
  BY <1>5, LeadsSound, Leads_propose_fallback
<1> HIDE DEF t2, rest
<1>7. Leads(t2, t3)
  BY <1>2, <1>6, LeadsSound, Leads_push
<1> HIDE DEF t3
<1>8. Leads(t3, t4)
  BY <1>1, <1>7, LeadsSound, Leads_send_timeout
<1> HIDE DEF t4
<1>9. Leads(s, t4)
  <2>1. Leads(s, t2)
    BY <1>5, <1>6, ThenLeads
  <2>2. Leads(s, t3)
    BY <1>7, <2>1, ThenLeads
  <2>3. QED
    BY <1>8, <2>2, ThenLeads
<1>10. Leads(s, reject(t1))
  <2>1. Leads(t1, reject(t1))
    BY <1>5, LeadsSound, Leads_reject
  <2>2. QED
    BY <1>5, <2>1, ThenLeads
<1>11. QED
  BY <1>4, <1>9, <1>10

\* Core::handle_tc.
LEMMA Leads_handle_tc ==
    ASSUME NEW s, Sound(s), NEW tc \in TC, NEW e, e.payload \in Payload
    PROVE  Leads(s, handle_tc(s, tc, e))
<1> DEFINE rest == Call("finish_tc", tc)
           t1 == push(s, <<rest>>)
           t2 == handle_qc(t1, tc.high_qc, e)
<1>1. tc.high_qc \in QC
  BY DEF TC
<1>2. rest \in PendingCall
  BY CallTypes
<1>3. handle_tc(s, tc, e) = IF s.round >= tc.round + 1 THEN s ELSE t2
  BY DEF handle_tc
<1> HIDE DEF rest
<1>4. Leads(s, t1)
  BY <1>2, Leads_push
<1> HIDE DEF t1
<1>5. Leads(t1, t2)
  BY <1>1, <1>4, LeadsSound, Leads_handle_qc
<1> HIDE DEF t2
<1>6. Leads(s, t2)
  BY <1>4, <1>5, ThenLeads
<1>7. QED
  BY <1>3, <1>6, StayLeads
=============================================================================
