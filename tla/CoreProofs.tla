----------------------------- MODULE CoreProofs -----------------------------
(***************************************************************************)
(* Every handler of module Core keeps the types of a node's state, never   *)
(* takes the node back, and votes only in rounds the node has not given up *)
(* on, once of each kind.  One lemma per operator: here those that commit  *)
(* and vote, in modules CertificateProofs and HandlerProofs the others;    *)
(* module HydrangeaProofs draws the theorems.                              *)
(*                                                                         *)
(* An operator updates the record one field at a time.  The lemmas Set_f   *)
(* say that an update of a field f keeps the record a State and leaves     *)
(* alone what the argument is about; with them the record type is not      *)
(* expanded again.                                                         *)
(***************************************************************************)
EXTENDS Core, SequenceTheorems, WellFoundedInduction, TLAPS

\* What a node reports to the others is the same in t as in s.
Reports(s, t) ==
    /\ t.name = s.name /\ t.round = s.round /\ t.last_timeout = s.last_timeout
    /\ t.last_vote = s.last_vote /\ t.locked = s.locked /\ t.high_wqc = s.high_wqc
    /\ t.sent = s.sent

\* So is what keeps it from voting twice.
Same(s, t) ==
    /\ Reports(s, t)
    /\ t.last_commit = s.last_commit /\ t.pending_proposals = s.pending_proposals

\* The votes of a kind that a node sent.
VotesOf(s, kind) == {v \in s.sent : v.type = "Vote" /\ v.kind = kind}

\* Two votes of one kind for one round are for one block.
VotesOnce(s) ==
    \A v, w \in s.sent :
        /\ v.type = "Vote" /\ w.type = "Vote"
        /\ v.kind = w.kind /\ v.round = w.round
        => v.blk_hash = w.blk_hash

\* Why a node votes once in a round: the block it voted for is the only block of its
\* round in pending_proposals until the node has committed that round or a later
\* one, and pending_proposals then holds no block of that round again (the Genesis
\* block, of round 0, is there at the start); a Commit vote comes with a lock of its
\* round.
Ballot(s) ==
    /\ \A x \in s.pending_proposals : BlockRound(x) > CommitRound(s) \/ BlockRound(x) = 0
    /\ \A x, y \in s.pending_proposals : BlockRound(x) = BlockRound(y) => x = y
    /\ \A v \in VotesOf(s, "Normal") :
          \/ v.round <= CommitRound(s)
          \/ v.blk_hash \in s.pending_proposals /\ BlockRound(v.blk_hash) = v.round
    /\ \A v \in VotesOf(s, "Commit") : v.round <= s.locked.round
    /\ VotesOnce(s)

\* The inductive part: the last vote is not ahead of the round, last_timeout
\* covers every Timeout sent, and the node votes once in a round.
Sound(s) ==
    /\ s \in State
    /\ s.last_vote.round <= s.round
    /\ \A m \in s.sent : m.type = "Timeout" => m.round <= s.last_timeout
    /\ Ballot(s)

\* A handler may take a node from s to t.
Leads(s, t) ==
    /\ Sound(t)
    /\ t.name = s.name
    /\ s.round <= t.round
    /\ s.last_timeout <= t.last_timeout
    /\ s.last_vote.round <= t.last_vote.round
    /\ s.locked.round <= t.locked.round
    /\ s.high_wqc.round <= t.high_wqc.round
    /\ s.sent \subseteq t.sent
    /\ \A m \in t.sent \ s.sent : m.type = "Vote" => s.last_timeout < m.round

-----------------------------------------------------------------------------
(***************************************************************************)
(* Records.                                                                *)
(***************************************************************************)

\* The fields of a state have their types.
LEMMA Fields ==
    ASSUME NEW s \in State
    PROVE  /\ s.name \in Node /\ s.round \in 1..(MaxRound + 1) /\ s.last_vote \in Vote
           /\ s.last_timeout \in Round /\ s.locked \in QC /\ s.high_wqc \in WQC
           /\ s.last_commit \in Block /\ s.committable_blocks \in SUBSET Block
           /\ s.pending_proposals \in SUBSET Block /\ s.uncommitted_blocks \in SUBSET Block
           /\ s.uncommitted_qcs \in SUBSET QC /\ s.sync_requests \in SUBSET Block
           /\ s.timeout_syncs \in SUBSET Round /\ s.votes_aggregators \in SUBSET Vote
           /\ s.commit_aggregators \in SUBSET Vote
           /\ s.timeouts_aggregators \in [Round \ {0} -> TCMaker]
           /\ s.store \in SUBSET Block /\ s.loopbacks \in SUBSET (Block \X Block)
           /\ s.output \in Seq(Block) /\ s.sent \in SUBSET Message
           /\ s.calls \in Seq(PendingCall)
BY DEF State

\* The type of a message tells what it is.
LEMMA MessageTypes ==
    ASSUME NEW m \in Message
    PROVE  /\ m.type = "Vote" => m \in Vote
           /\ m.type = "Timeout" => m \in Timeout
           /\ m.type = "QC" => m \in [type : {"QC"}, qc : QC]
           /\ m.type = "N" => m \in [type : {"N"}, block : Block, qc : QC]
           /\ m.type = "F" => m \in [type : {"F"}, block : Block, tc : TC]
<1>1. m \in Vote => m.type = "Vote"
  BY DEF Vote
<1>2. m \in Timeout => m.type = "Timeout"
  BY DEF Timeout
<1>3. QED
  BY <1>1, <1>2 DEF Message, Proposal

\* Rounds are integers.
LEMMA RoundTypes ==
    ASSUME NEW s \in State
    PROVE  /\ s.round \in Int /\ s.last_timeout \in Int /\ s.last_vote.round \in Int
           /\ s.locked.round \in Int /\ s.high_wqc.round \in Int
BY Fields, RoundAssumption DEF Vote, QC, WQC, Round

\* An update of last_commit leaves alone what a node reports.
LEMMA Set_last_commit ==
    ASSUME NEW s \in State, NEW x \in Block
    PROVE  /\ [s EXCEPT !.last_commit = x] \in State
           /\ Reports(s, [s EXCEPT !.last_commit = x])
           /\ [s EXCEPT !.last_commit = x].last_commit = x
           /\ [s EXCEPT !.last_commit = x].pending_proposals = s.pending_proposals
BY DEF State, Reports

\* An update of committable_blocks leaves alone what a node reports.
LEMMA Set_committable_blocks ==
    ASSUME NEW s \in State, NEW x \in SUBSET Block
    PROVE  [s EXCEPT !.committable_blocks = x] \in State /\ Same(s, [s EXCEPT !.committable_blocks = x])
BY DEF State, Same, Reports

\* An update of pending_proposals leaves alone what a node reports.
LEMMA Set_pending_proposals ==
    ASSUME NEW s \in State, NEW x \in SUBSET Block
    PROVE  /\ [s EXCEPT !.pending_proposals = x] \in State
           /\ Reports(s, [s EXCEPT !.pending_proposals = x])
           /\ [s EXCEPT !.pending_proposals = x].pending_proposals = x
           /\ [s EXCEPT !.pending_proposals = x].last_commit = s.last_commit
BY DEF State, Reports

\* An update of uncommitted_blocks leaves alone what a node reports.
LEMMA Set_uncommitted_blocks ==
    ASSUME NEW s \in State, NEW x \in SUBSET Block
    PROVE  [s EXCEPT !.uncommitted_blocks = x] \in State /\ Same(s, [s EXCEPT !.uncommitted_blocks = x])
BY DEF State, Same, Reports

\* An update of uncommitted_qcs leaves alone what a node reports.
LEMMA Set_uncommitted_qcs ==
    ASSUME NEW s \in State, NEW x \in SUBSET QC
    PROVE  [s EXCEPT !.uncommitted_qcs = x] \in State /\ Same(s, [s EXCEPT !.uncommitted_qcs = x])
BY DEF State, Same, Reports

\* An update of sync_requests leaves alone what a node reports.
LEMMA Set_sync_requests ==
    ASSUME NEW s \in State, NEW x \in SUBSET Block
    PROVE  [s EXCEPT !.sync_requests = x] \in State /\ Same(s, [s EXCEPT !.sync_requests = x])
BY DEF State, Same, Reports

\* An update of timeout_syncs leaves alone what a node reports.
LEMMA Set_timeout_syncs ==
    ASSUME NEW s \in State, NEW x \in SUBSET Round
    PROVE  [s EXCEPT !.timeout_syncs = x] \in State /\ Same(s, [s EXCEPT !.timeout_syncs = x])
BY DEF State, Same, Reports

\* An update of votes_aggregators leaves alone what a node reports.
LEMMA Set_votes_aggregators ==
    ASSUME NEW s \in State, NEW x \in SUBSET Vote
    PROVE  [s EXCEPT !.votes_aggregators = x] \in State /\ Same(s, [s EXCEPT !.votes_aggregators = x])
BY DEF State, Same, Reports

\* An update of commit_aggregators leaves alone what a node reports.
LEMMA Set_commit_aggregators ==
    ASSUME NEW s \in State, NEW x \in SUBSET Vote
    PROVE  [s EXCEPT !.commit_aggregators = x] \in State /\ Same(s, [s EXCEPT !.commit_aggregators = x])
BY DEF State, Same, Reports

\* An update of timeouts_aggregators leaves alone what a node reports.
LEMMA Set_timeouts_aggregators ==
    ASSUME NEW s \in State, NEW x \in [Round \ {0} -> TCMaker]
    PROVE  [s EXCEPT !.timeouts_aggregators = x] \in State /\ Same(s, [s EXCEPT !.timeouts_aggregators = x])
BY DEF State, Same, Reports

\* An update of store leaves alone what a node reports.
LEMMA Set_store ==
    ASSUME NEW s \in State, NEW x \in SUBSET Block
    PROVE  [s EXCEPT !.store = x] \in State /\ Same(s, [s EXCEPT !.store = x])
BY DEF State, Same, Reports

\* An update of loopbacks leaves alone what a node reports.
LEMMA Set_loopbacks ==
    ASSUME NEW s \in State, NEW x \in SUBSET (Block \X Block)
    PROVE  [s EXCEPT !.loopbacks = x] \in State /\ Same(s, [s EXCEPT !.loopbacks = x])
BY DEF State, Same, Reports

\* An update of output leaves alone what a node reports.
LEMMA Set_output ==
    ASSUME NEW s \in State, NEW x \in Seq(Block)
    PROVE  [s EXCEPT !.output = x] \in State /\ Same(s, [s EXCEPT !.output = x])
BY DEF State, Same, Reports

\* An update of calls leaves alone what a node reports.
LEMMA Set_calls ==
    ASSUME NEW s \in State, NEW x \in Seq(PendingCall)
    PROVE  [s EXCEPT !.calls = x] \in State /\ Same(s, [s EXCEPT !.calls = x])
BY DEF State, Same, Reports

\* An update of panicked leaves alone what a node reports.
LEMMA Set_panicked ==
    ASSUME NEW s \in State, NEW x \in BOOLEAN
    PROVE  [s EXCEPT !.panicked = x] \in State /\ Same(s, [s EXCEPT !.panicked = x])
BY DEF State, Same, Reports

\* An update of rejected leaves alone what a node reports.
LEMMA Set_rejected ==
    ASSUME NEW s \in State, NEW x \in BOOLEAN
    PROVE  [s EXCEPT !.rejected = x] \in State /\ Same(s, [s EXCEPT !.rejected = x])
BY DEF State, Same, Reports

-----------------------------------------------------------------------------
(***************************************************************************)
(* The relation Leads.                                                     *)
(***************************************************************************)

\* What keeps a node from voting twice depends on four fields.
LEMMA BallotSame ==
    ASSUME NEW s, NEW t, Ballot(s),
           t.last_commit = s.last_commit, t.pending_proposals = s.pending_proposals,
           t.locked = s.locked,
           \A v : v.type = "Vote" => (v \in t.sent <=> v \in s.sent)
    PROVE  Ballot(t)
<1>1. CommitRound(t) = CommitRound(s)
  BY DEF CommitRound
<1>2. VotesOf(t, "Normal") = VotesOf(s, "Normal") /\ VotesOf(t, "Commit") = VotesOf(s, "Commit")
  BY DEF VotesOf
<1>3. VotesOnce(t)
  BY DEF Ballot, VotesOnce
<1>4. QED
  BY <1>1, <1>2, <1>3 DEF Ballot

\* A state in which the node reports the same is a step.
LEMMA ReportsLeads ==
    ASSUME NEW s, Sound(s), NEW t \in State, Reports(s, t), Ballot(t)
    PROVE  Leads(s, t)
<1>1. Sound(t)
  BY DEF Sound, Reports
<1>2. QED
  BY <1>1, RoundTypes DEF Sound, Reports, Leads

LEMMA SameLeads ==
    ASSUME NEW s, Sound(s), NEW t \in State, Same(s, t)
    PROVE  Leads(s, t)
<1>1. Ballot(t)
  BY BallotSame DEF Sound, Same, Reports
<1>2. QED
  BY <1>1, ReportsLeads DEF Same

\* A handler that does nothing is a step.
LEMMA StayLeads ==
    ASSUME NEW s, Sound(s)
    PROVE  Leads(s, s)
BY SameLeads DEF Sound, Same, Reports

\* Two steps make a step.
LEMMA ThenLeads ==
    ASSUME NEW s, NEW t, NEW u, Sound(s), Leads(s, t), Leads(t, u)
    PROVE  Leads(s, u)
<1>1. s \in State /\ t \in State /\ u \in State
  BY DEF Sound, Leads
<1>2. \A m \in u.sent \ s.sent : m.type = "Vote" => s.last_timeout < m.round
  <2> SUFFICES ASSUME NEW m \in u.sent \ s.sent, m.type = "Vote"
               PROVE  s.last_timeout < m.round
    OBVIOUS
  <2>1. CASE m \in t.sent
    BY <2>1 DEF Leads
  <2>2. CASE m \notin t.sent
    <3>1. t.last_timeout < m.round
      BY <2>2 DEF Leads
    <3>2. m \in Message
      BY <1>1, Fields
    <3>3. m.round \in Int
      BY <3>2, MessageTypes, RoundAssumption DEF Vote, Round
    <3>4. s.last_timeout <= t.last_timeout
      BY DEF Leads
    <3>5. QED
      BY <3>1, <3>3, <3>4, <1>1, RoundTypes
  <2>3. QED
    BY <2>1, <2>2
<1>3. QED
  BY <1>1, <1>2, RoundTypes DEF Leads

\* A step ends in a sound state.
LEMMA LeadsSound ==
    ASSUME NEW s, NEW t, Leads(s, t)
    PROVE  Sound(t) /\ t \in State
BY DEF Leads, Sound

\* What a node reports is the same after two updates that leave it alone.
LEMMA SameSame ==
    ASSUME NEW s, NEW t, NEW u, Same(s, t), Same(t, u)
    PROVE  Same(s, u)
BY DEF Same, Reports

-----------------------------------------------------------------------------
(***************************************************************************)
(* The call stack, sending and failing.                                    *)
(***************************************************************************)

\* A call pushed on the stack.
LEMMA Leads_push ==
    ASSUME NEW s, Sound(s), NEW c \in PendingCall
    PROVE  Leads(s, push(s, <<c>>))
<1>1. <<c>> \o s.calls \in Seq(PendingCall)
  BY Fields DEF Sound
<1>2. QED
  BY <1>1, Set_calls, SameLeads DEF push, Sound

\* The next call taken off the stack.
LEMMA Leads_resume ==
    ASSUME NEW s, Sound(s), s.calls # << >>
    PROVE  Leads(s, resume(s))
<1>1. Tail(s.calls) \in Seq(PendingCall)
  BY Fields DEF Sound
<1>2. QED
  BY <1>1, Set_calls, SameLeads DEF resume, Sound

\* A call that returned left the rest on top of the stack.
LEMMA Leads_returned ==
    ASSUME NEW s, Sound(s), NEW calls \in Seq(PendingCall), NEW rest \in PendingCall,
           returned(s, calls, rest)
    PROVE  Leads(s, resume(s))
<1>1. <<rest>> \in Seq(PendingCall) /\ Len(<<rest>>) = 1
  OBVIOUS
<1>2. Len(<<rest>> \o calls) = 1 + Len(calls) /\ Len(calls) \in Nat
  BY <1>1, ConcatProperties, LenProperties
<1>3. s.calls # << >>
  <2>1. Len(s.calls) # 0
    BY <1>2 DEF returned
  <2>2. QED
    BY <2>1
<1>4. QED
  BY <1>3, Leads_resume

\* A message that is neither a vote nor a Timeout.
LEMMA Leads_send ==
    ASSUME NEW s, Sound(s), NEW m \in Message, m.type \notin {"Vote", "Timeout"}
    PROVE  Leads(s, send(s, m))
<1>1. s \in State /\ s.sent \cup {m} \in SUBSET Message
  BY Fields DEF Sound
<1>2. PICK t : t = send(s, m)
  OBVIOUS
<1>3. /\ t \in State /\ t.sent = s.sent \cup {m}
      /\ t.name = s.name /\ t.round = s.round /\ t.last_timeout = s.last_timeout
      /\ t.last_vote = s.last_vote /\ t.locked = s.locked /\ t.high_wqc = s.high_wqc
  BY <1>1, <1>2 DEF send, State
<1>4. t.last_commit = s.last_commit /\ t.pending_proposals = s.pending_proposals
  BY <1>1, <1>2 DEF send, State
<1>5. Ballot(t)
  BY <1>3, <1>4, BallotSame DEF Sound
<1>6. Sound(t)
  BY <1>3, <1>5 DEF Sound
<1>7. QED
  BY <1>1, <1>2, <1>3, <1>6, RoundTypes DEF Leads

\* An assertion that fails.
LEMMA Leads_panic ==
    ASSUME NEW s, Sound(s)
    PROVE  Leads(s, panic(s))
<1> DEFINE t == [s EXCEPT !.panicked = TRUE]
<1>1. << >> \in Seq(PendingCall)
  OBVIOUS
<1>2. t \in State /\ Same(s, t)
  BY Set_panicked DEF Sound
<1>3. panic(s) = [t EXCEPT !.calls = << >>]
  BY DEF panic
<1>4. panic(s) \in State /\ Same(t, panic(s))
  BY <1>1, <1>2, <1>3, Set_calls
<1>5. QED
  BY <1>2, <1>4, SameSame, SameLeads

\* An error that ends a handler.
LEMMA Leads_reject ==
    ASSUME NEW s, Sound(s)
    PROVE  Leads(s, reject(s))
<1> DEFINE t == [s EXCEPT !.rejected = TRUE]
<1>1. << >> \in Seq(PendingCall)
  OBVIOUS
<1>2. t \in State /\ Same(s, t)
  BY Set_rejected DEF Sound
<1>3. reject(s) = [t EXCEPT !.calls = << >>]
  BY DEF reject
<1>4. reject(s) \in State /\ Same(t, reject(s))
  BY <1>1, <1>2, <1>3, Set_calls
<1>5. QED
  BY <1>2, <1>4, SameSame, SameLeads

-----------------------------------------------------------------------------
(***************************************************************************)
(* Blocks.                                                                 *)
(***************************************************************************)

\* The round of a block is a round, and only Genesis has round 0.
LEMMA BlockRoundType ==
    ASSUME NEW b \in Block
    PROVE  /\ BlockRound(b) \in Round /\ BlockRound(b) \in Int
           /\ b # Genesis => BlockRound(b) \in Round \ {0}
<1>1. 0 \in Round
  BY RoundAssumption DEF Round
<1>2. b # Genesis => b[Len(b)] \in Header
  BY DEF Block, Genesis
<1>3. b # Genesis => b[Len(b)].round \in Round \ {0}
  BY <1>2 DEF Header
<1>4. QED
  BY <1>1, <1>3, RoundAssumption DEF BlockRound, Round

\* An ancestor of a block is a block.
LEMMA AncestorType ==
    ASSUME NEW b \in Block, NEW i \in 0..Len(b)
    PROVE  Ancestor(b, i) \in Block
BY SubSeqProperties DEF Ancestor, Block

\* A new block is a block.
LEMMA NewBlockType ==
    ASSUME NEW author \in Node, NEW parent \in Block, NEW payload \in Payload,
           NEW r \in Round \ {0}
    PROVE  NewBlock(author, parent, payload, r) \in Block
<1>1. [round |-> r, author |-> author, payload |-> payload] \in Header
  BY DEF Header
<1>2. QED
  BY <1>1, AppendProperties DEF NewBlock, Block

-----------------------------------------------------------------------------
(***************************************************************************)
(* Committing.                                                             *)
(***************************************************************************)

\* A request to the Synchronizer.
LEMMA Leads_request ==
    ASSUME NEW s, Sound(s), NEW b \in Block, NEW c \in Block
    PROVE  Leads(s, request(s, b, c))
<1> DEFINE t == [s EXCEPT !.sync_requests = s.sync_requests \cup {b}]
           l == IF c = Genesis THEN s.loopbacks ELSE s.loopbacks \cup {<<b, c>>}
<1>1. s \in State
  BY DEF Sound
<1>2. s.sync_requests \cup {b} \in SUBSET Block /\ l \in SUBSET (Block \X Block)
  BY <1>1, Fields
<1>3. t \in State /\ Same(s, t)
  BY <1>1, <1>2, Set_sync_requests
<1>4. request(s, b, c) = [t EXCEPT !.loopbacks = l]
  BY <1>1 DEF request, State
<1>5. [t EXCEPT !.loopbacks = l] \in State /\ Same(t, [t EXCEPT !.loopbacks = l])
  <2> HIDE DEF t, l
  <2> QED
    BY <1>2, <1>3, Set_loopbacks
<1>6. QED
  BY <1>3, <1>4, <1>5, SameSame, SameLeads

\* Core::get_block.
LEMMA Leads_get_block ==
    ASSUME NEW s, Sound(s), NEW b \in Block, NEW r
    PROVE  Leads(s, get_block(s, b, r))
<1>1. Genesis \in Block
  BY DEF Genesis, Block
<1>2. QED
  BY <1>1, StayLeads, Leads_panic, Leads_request DEF get_block

\* The blocks a commit outputs are blocks.
LEMMA UncommittedType ==
    ASSUME NEW s \in State, NEW b \in Block, Len(s.last_commit) < Len(b)
    PROVE  Uncommitted(s, b) \in Seq(Block)
<1> DEFINE k == Len(b) - Len(s.last_commit)
<1>1. Len(b) \in Nat /\ Len(s.last_commit) \in Nat /\ k \in Nat
  BY Fields, LenProperties DEF Block
<1>2. \A i \in 1..k : Ancestor(b, Len(s.last_commit) + i) \in Block
  BY <1>1, AncestorType
<1>3. Uncommitted(s, b) \in [1..k -> Block]
  BY <1>2 DEF Uncommitted
<1>4. QED
  BY <1>1, <1>3, SeqDef

\* Core::commit.
LEMMA Leads_commit ==
    ASSUME NEW s, Sound(s), NEW b \in Block
    PROVE  Leads(s, commit(s, b))
<1>1. s \in State
  BY DEF Sound
<1>2. CASE b = Genesis \/ ~LinksToLastCommit(s, b)
  BY <1>2, StayLeads, Leads_panic DEF commit
<1>3. CASE b # Genesis /\ LinksToLastCommit(s, b)
  <2> DEFINE newer(blocks) == {x \in blocks : BlockRound(x) > BlockRound(b)}
             t1 == [s EXCEPT !.output = s.output \o Uncommitted(s, b)]
             t2 == [t1 EXCEPT !.last_commit = b]
             t3 == [t2 EXCEPT !.committable_blocks = newer(s.committable_blocks)]
             t4 == [t3 EXCEPT !.pending_proposals = newer(s.pending_proposals)]
             t5 == [t4 EXCEPT !.uncommitted_blocks = newer(s.uncommitted_blocks)]
             t6 == [t5 EXCEPT !.uncommitted_qcs =
                                  {qc \in s.uncommitted_qcs : qc.round > BlockRound(b)}]
  <2>1. Len(s.last_commit) < Len(b)
    BY <1>1, <1>3, Fields, LenProperties DEF LinksToLastCommit, IsStrictPrefix, IsPrefix, Block
  <2>2. s.output \o Uncommitted(s, b) \in Seq(Block)
    BY <1>1, <2>1, UncommittedType, Fields, ConcatProperties
  <2>3. /\ newer(s.committable_blocks) \in SUBSET Block
        /\ newer(s.pending_proposals) \in SUBSET Block
        /\ newer(s.uncommitted_blocks) \in SUBSET Block
        /\ {qc \in s.uncommitted_qcs : qc.round > BlockRound(b)} \in SUBSET QC
    BY <1>1, Fields
  <2>4. commit(s, b) = t6
    BY <1>1, <1>3 DEF commit, State
  <2> HIDE DEF newer
  <2>5. t1 \in State /\ Same(s, t1)
    BY <1>1, <2>2, Set_output
  <2> HIDE DEF t1
  <2>6. /\ t2 \in State /\ Reports(t1, t2)
        /\ t2.last_commit = b /\ t2.pending_proposals = t1.pending_proposals
    BY <2>5, Set_last_commit
  <2> HIDE DEF t2
  <2>7. t3 \in State /\ Same(t2, t3)
    BY <2>3, <2>6, Set_committable_blocks
  <2> HIDE DEF t3
  <2>8. /\ t4 \in State /\ Reports(t3, t4) /\ t4.last_commit = t3.last_commit
        /\ t4.pending_proposals = newer(s.pending_proposals)
    BY <2>3, <2>7, Set_pending_proposals
  <2> HIDE DEF t4
  <2>9. t5 \in State /\ Same(t4, t5)
    BY <2>3, <2>8, Set_uncommitted_blocks
  <2> HIDE DEF t5
  <2>10. t6 \in State /\ Same(t5, t6)
    BY <2>3, <2>9, Set_uncommitted_qcs
  <2> HIDE DEF t6
  <2>11. /\ Reports(s, t6) /\ t6.last_commit = b
         /\ t6.pending_proposals = newer(s.pending_proposals)
    BY <2>5, <2>6, <2>7, <2>8, <2>9, <2>10 DEF Same, Reports
  <2>12. Ballot(t6)
    <3>1. BlockRound(b) > CommitRound(s) /\ CommitRound(t6) = BlockRound(b)
      BY <1>3, <2>11 DEF LinksToLastCommit, CommitRound
    <3>2. BlockRound(b) \in Int /\ CommitRound(s) \in Int
      BY <1>1, Fields, BlockRoundType DEF CommitRound
    <3>3. \A x \in t6.pending_proposals : x \in s.pending_proposals /\ BlockRound(x) > BlockRound(b)
      BY <2>11 DEF newer
    <3>4. t6.sent = s.sent /\ t6.locked = s.locked
      BY <2>11 DEF Reports
    <3>5. ASSUME NEW v \in VotesOf(t6, "Normal")
          PROVE  \/ v.round <= CommitRound(t6)
                 \/ v.blk_hash \in t6.pending_proposals /\ BlockRound(v.blk_hash) = v.round
      <4>1. v \in VotesOf(s, "Normal") /\ v \in Message /\ v.type = "Vote"
        BY <1>1, <3>4, Fields DEF VotesOf
      <4>2. v.round \in Int
        BY <4>1, MessageTypes, RoundAssumption DEF Vote, Round
      <4>3. CASE v.round <= CommitRound(s)
        BY <3>1, <3>2, <4>2, <4>3
      <4>4. CASE v.blk_hash \in s.pending_proposals /\ BlockRound(v.blk_hash) = v.round
        BY <2>11, <3>1, <3>2, <4>2, <4>4 DEF newer
      <4>5. QED
        BY <4>1, <4>3, <4>4 DEF Sound, Ballot
    <3>6. VotesOf(t6, "Commit") = VotesOf(s, "Commit") /\ (VotesOnce(s) => VotesOnce(t6))
      BY <3>4 DEF VotesOf, VotesOnce
    <3>7. QED
      BY <3>1, <3>3, <3>4, <3>5, <3>6 DEF Ballot, Sound
  <2>13. QED
    BY <2>4, <2>10, <2>11, <2>12, ReportsLeads
<1>4. QED
  BY <1>2, <1>3

\* A set of natural numbers that is not empty has a least element.
LEMMA LeastNatural ==
    ASSUME NEW T \in SUBSET Nat, T # {}
    PROVE  \E x \in T : \A y \in T : x <= y
<1>1. \E x \in T : \A y \in T : ~(<<y, x>> \in OpToRel(<, Nat))
  BY NatLessThanWellFounded, WFMin
<1>2. PICK x \in T : \A y \in T : ~(<<y, x>> \in OpToRel(<, Nat))
  BY <1>1
<1>3. ASSUME NEW y \in T
      PROVE  x <= y
  <2>1. <<y, x>> \in OpToRel(<, Nat) <=> y < x
    BY DEF OpToRel
  <2>2. ~(y < x)
    BY <1>2, <2>1
  <2>3. QED
    BY <2>2
<1>4. QED
  BY <1>3

\* The walk over the ancestors of a block ends at a block: Genesis at the latest.
LEMMA WalkEndType ==
    ASSUME NEW s \in State, NEW b \in Block, b # Genesis
    PROVE  WalkEnd(s, b) \in Block
<1> DEFINE stops(i) == \/ ~have(s, Ancestor(b, i))
                       \/ BlockRound(Ancestor(b, i)) <= CommitRound(s)
           last(i) == stops(i) /\ \A j \in (i + 1)..(Len(b) - 1) : ~stops(j)
           T == {Len(b) - 1 - i : i \in {i \in 0..(Len(b) - 1) : stops(i)}}
<1>1. Len(b) \in Nat /\ Len(b) > 0
  BY LenProperties, EmptySeq DEF Block, Genesis
<1>2. stops(0)
  <2>1. Ancestor(b, 0) = Genesis
    BY SubSeqEmpty DEF Ancestor, Genesis, Block
  <2>2. BlockRound(Genesis) = 0
    BY DEF BlockRound
  <2>3. CommitRound(s) >= 0
    BY Fields, BlockRoundType, RoundAssumption DEF CommitRound, Round
  <2>4. QED
    BY <2>1, <2>2, <2>3
<1> HIDE DEF stops
<1>3. \E x \in T : \A y \in T : x <= y
  <2>1. T \in SUBSET Nat
    BY <1>1
  <2>2. Len(b) - 1 - 0 \in T
    BY <1>1, <1>2
  <2>3. QED
    BY <2>1, <2>2, LeastNatural
<1>4. PICK i \in 0..(Len(b) - 1) : stops(i) /\ \A y \in T : Len(b) - 1 - i <= y
  BY <1>3
<1>5. last(i)
  <2> SUFFICES ASSUME NEW j \in (i + 1)..(Len(b) - 1), stops(j)
               PROVE  FALSE
    BY <1>4
  <2>1. j \in 0..(Len(b) - 1) /\ Len(b) - 1 - j < Len(b) - 1 - i
    BY <1>1
  <2>2. Len(b) - 1 - j \in T
    BY <2>1
  <2>3. Len(b) - 1 - i <= Len(b) - 1 - j
    BY <1>4, <2>2, Zenon
  <2>4. QED
    BY <1>1, <2>1, <2>3
<1>6. (CHOOSE k \in 0..(Len(b) - 1) : last(k)) \in 0..(Len(b) - 1)
  BY <1>5
<1>7. WalkEnd(s, b) = Ancestor(b, CHOOSE k \in 0..(Len(b) - 1) : last(k))
  BY DEF WalkEnd, stops
<1>8. QED
  BY <1>1, <1>6, <1>7, AncestorType

\* have_all_ancestors and the commit that follows it.
LEMMA Leads_commit_if_have_all_ancestors ==
    ASSUME NEW s, Sound(s), NEW b \in Block
    PROVE  Leads(s, commit_if_have_all_ancestors(s, b))
<1>1. CASE b = Genesis
  BY <1>1, Leads_commit DEF commit_if_have_all_ancestors
<1>2. CASE b # Genesis
  <2>1. WalkEnd(s, b) \in Block
    BY <1>2, WalkEndType DEF Sound
  <2>2. QED
    BY <2>1, Leads_commit, Leads_panic, Leads_request DEF commit_if_have_all_ancestors
<1>3. QED
  BY <1>1, <1>2

\* Core::try_commit_or_sync_ancestor.
LEMMA Leads_try_commit_or_sync_ancestor ==
    ASSUME NEW s, Sound(s), NEW b \in Block
    PROVE  Leads(s, try_commit_or_sync_ancestor(s, b))
BY Leads_commit_if_have_all_ancestors, Leads_panic, StayLeads
   DEF try_commit_or_sync_ancestor

\* Core::schedule_commit.
LEMMA Leads_schedule_commit ==
    ASSUME NEW s, Sound(s), NEW b \in Block
    PROVE  Leads(s, schedule_commit(s, b))
<1> DEFINE t == [s EXCEPT !.committable_blocks = s.committable_blocks \cup {b}]
<1>1. s \in State /\ s.committable_blocks \cup {b} \in SUBSET Block
  BY Fields DEF Sound
<1>2. Leads(s, t)
  BY <1>1, Set_committable_blocks, SameLeads
<1>3. schedule_commit(s, b) = IF b \in s.uncommitted_blocks
                              THEN commit_if_have_all_ancestors(t, b) ELSE t
  BY DEF schedule_commit
<1> HIDE DEF t
<1>4. Leads(t, commit_if_have_all_ancestors(t, b))
  BY <1>2, Leads_commit_if_have_all_ancestors DEF Leads
<1>5. Leads(s, commit_if_have_all_ancestors(t, b))
  BY <1>2, <1>4, ThenLeads
<1>6. QED
  BY <1>2, <1>3, <1>5

\* Core::update_pending_proposals, of a block newer than the last commit.
LEMMA Leads_update_pending_proposals ==
    ASSUME NEW s, Sound(s), NEW b \in Block, BlockRound(b) > CommitRound(s)
    PROVE  Leads(s, update_pending_proposals(s, b))
<1>1. s \in State /\ s.pending_proposals \cup {b} \in SUBSET Block
  BY Fields DEF Sound
<1>2. CASE \E x \in s.pending_proposals : BlockRound(x) = BlockRound(b)
  BY <1>2, StayLeads DEF update_pending_proposals
<1>3. CASE ~\E x \in s.pending_proposals : BlockRound(x) = BlockRound(b)
  <2>1. PICK t : t = [s EXCEPT !.pending_proposals = s.pending_proposals \cup {b}]
    OBVIOUS
  <2>2. /\ t \in State /\ Reports(s, t) /\ t.last_commit = s.last_commit
        /\ t.pending_proposals = s.pending_proposals \cup {b}
    BY <1>1, <2>1, Set_pending_proposals
  <2>3. Ballot(t)
    <3>1. CommitRound(t) = CommitRound(s) /\ t.sent = s.sent /\ t.locked = s.locked
      BY <2>2 DEF CommitRound, Reports
    <3>2. /\ VotesOf(t, "Normal") = VotesOf(s, "Normal")
          /\ VotesOf(t, "Commit") = VotesOf(s, "Commit")
          /\ VotesOnce(s) => VotesOnce(t)
      BY <3>1 DEF VotesOf, VotesOnce
    <3>3. \A x, y \in t.pending_proposals : BlockRound(x) = BlockRound(y) => x = y
      BY <1>3, <2>2 DEF Sound, Ballot
    <3>4. \A x \in t.pending_proposals : BlockRound(x) > CommitRound(t) \/ BlockRound(x) = 0
      BY <2>2, <3>1 DEF Sound, Ballot
    <3>5. QED
      BY <2>2, <3>1, <3>2, <3>3, <3>4 DEF Sound, Ballot
  <2>4. QED
    BY <1>3, <2>1, <2>2, <2>3, ReportsLeads DEF update_pending_proposals
<1>4. QED
  BY <1>2, <1>3

\* Core::store_block.
LEMMA Leads_store_block ==
    ASSUME NEW s, Sound(s), NEW b \in Block
    PROVE  Leads(s, store_block(s, b))
<1>1. CASE BlockRound(b) <= CommitRound(s)
  BY <1>1, Leads_panic DEF store_block
<1>2. CASE ~(BlockRound(b) <= CommitRound(s))
  <2>1. PICK t : t = update_pending_proposals(s, b)
    OBVIOUS
  <2>2. Leads(s, t) /\ Sound(t) /\ t \in State
    <3>1. BlockRound(b) > CommitRound(s)
      BY <1>2, Fields, BlockRoundType DEF Sound, CommitRound
    <3>2. QED
      BY <2>1, <3>1, Leads_update_pending_proposals DEF Leads, Sound
  <2> DEFINE u == [t EXCEPT !.uncommitted_blocks = t.uncommitted_blocks \cup {b}]
             w == [u EXCEPT !.store = t.store \cup {b}]
  <2>3. t.uncommitted_blocks \cup {b} \in SUBSET Block /\ t.store \cup {b} \in SUBSET Block
    BY <2>2, Fields
  <2>4. store_block(s, b) = w
    BY <1>2, <2>1, <2>2 DEF store_block, State
  <2>5. u \in State /\ Same(t, u)
    BY <2>2, <2>3, Set_uncommitted_blocks
  <2> HIDE DEF u
  <2>6. w \in State /\ Same(u, w)
    BY <2>3, <2>5, Set_store
  <2> HIDE DEF w
  <2>7. Leads(t, w)
    BY <2>2, <2>5, <2>6, SameSame, SameLeads
  <2>8. QED
    BY <2>2, <2>4, <2>7, ThenLeads
<1>3. QED
  BY <1>1, <1>2

-----------------------------------------------------------------------------
(***************************************************************************)
(* Votes.                                                                  *)
(***************************************************************************)

\* What a handler leaves on the stack has the type of the stack.
LEMMA CallTypes ==
    /\ \A qc \in QC : /\ Call("handle_qc", qc) \in PendingCall
                      /\ Call("finish_prepare_qc", qc) \in PendingCall
    /\ \A t \in Timeout : /\ Call("handle_timeout", t) \in PendingCall
                          /\ Call("add_timeout", t) \in PendingCall
    /\ \A tc \in TC : /\ Call("handle_tc", tc) \in PendingCall
                      /\ Call("finish_tc", tc) \in PendingCall
    /\ \A r \in 1..(MaxRound + 1) : Call("advance_to_round", r) \in PendingCall
    /\ \A p \in Proposal : Call("finish_proposal", p) \in PendingCall
BY DEF Call, PendingCall

\* A vote of an aggregator makes a QC.
LEMMA NewQCType ==
    ASSUME NEW b \in Block, NEW kind \in VoteType, NEW r \in Round, NEW fast \in BOOLEAN
    PROVE  NewQC(b, kind, r, fast) \in QC
BY DEF NewQC, QC

\* Aggregator::add_normal_vote.
LEMMA Leads_add_normal_vote ==
    ASSUME NEW s, Sound(s), NEW v \in Vote
    PROVE  Leads(s, add_normal_vote(s, v))
<1> DEFINE t == [s EXCEPT !.votes_aggregators = s.votes_aggregators \cup {v}]
           qc(fast) == Call("handle_qc", NewQC(v.blk_hash, "Normal", v.round, fast))
<1>1. s \in State /\ s.votes_aggregators \cup {v} \in SUBSET Vote
  BY Fields DEF Sound
<1>2. Leads(s, t) /\ Sound(t)
  <2>1. Leads(s, t)
    BY <1>1, Set_votes_aggregators, SameLeads
  <2>2. QED
    BY <2>1, LeadsSound
<1>3. qc(TRUE) \in PendingCall /\ qc(FALSE) \in PendingCall
  <2>1. v.blk_hash \in Block /\ v.round \in Round /\ "Normal" \in VoteType
    BY DEF Vote, VoteType
  <2>2. /\ NewQC(v.blk_hash, "Normal", v.round, TRUE) \in QC
        /\ NewQC(v.blk_hash, "Normal", v.round, FALSE) \in QC
    BY <2>1, NewQCType
  <2>3. QED
    BY <2>2, CallTypes
<1>4. add_normal_vote(s, v) \in {s, t, push(t, <<qc(TRUE)>>), push(t, <<qc(FALSE)>>)}
  BY DEF add_normal_vote
<1> HIDE DEF t, qc
<1>5. Leads(t, push(t, <<qc(TRUE)>>)) /\ Leads(t, push(t, <<qc(FALSE)>>))
  BY <1>2, <1>3, Leads_push
<1>6. Leads(s, push(t, <<qc(TRUE)>>)) /\ Leads(s, push(t, <<qc(FALSE)>>))
  BY <1>2, <1>5, ThenLeads
<1>7. QED
  BY <1>2, <1>4, <1>6, StayLeads

\* Aggregator::add_commit_vote.
LEMMA Leads_add_commit_vote ==
    ASSUME NEW s, Sound(s), NEW v \in Vote
    PROVE  Leads(s, add_commit_vote(s, v))
<1> DEFINE t == [s EXCEPT !.commit_aggregators = s.commit_aggregators \cup {v}]
           qc == Call("handle_qc", NewQC(v.blk_hash, "Commit", v.round, FALSE))
<1>1. s \in State /\ s.commit_aggregators \cup {v} \in SUBSET Vote
  BY Fields DEF Sound
<1>2. Leads(s, t) /\ Sound(t)
  <2>1. Leads(s, t)
    BY <1>1, Set_commit_aggregators, SameLeads
  <2>2. QED
    BY <2>1, LeadsSound
<1>3. qc \in PendingCall
  <2>1. v.blk_hash \in Block /\ v.round \in Round /\ "Commit" \in VoteType
    BY DEF Vote, VoteType
  <2>2. NewQC(v.blk_hash, "Commit", v.round, FALSE) \in QC
    BY <2>1, NewQCType
  <2>3. QED
    BY <2>2, CallTypes
<1>4. add_commit_vote(s, v) \in {s, t, push(t, <<qc>>), reject(t)}
  BY DEF add_commit_vote
<1> HIDE DEF t, qc
<1>5. Leads(t, push(t, <<qc>>)) /\ Leads(t, reject(t))
  BY <1>2, <1>3, Leads_push, Leads_reject
<1>6. Leads(s, push(t, <<qc>>)) /\ Leads(s, reject(t))
  BY <1>2, <1>5, ThenLeads
<1>7. QED
  BY <1>2, <1>4, <1>6, StayLeads

\* Core::handle_vote.
LEMMA Leads_handle_vote ==
    ASSUME NEW s, Sound(s), NEW v \in Vote
    PROVE  Leads(s, handle_vote(s, v))
BY StayLeads, Leads_add_normal_vote, Leads_add_commit_vote DEF handle_vote

\* Aggregator::cleanup_timeouts.
LEMMA Same_cleanup_timeouts ==
    ASSUME NEW s \in State, NEW r
    PROVE  cleanup_timeouts(s, r) \in State /\ Same(s, cleanup_timeouts(s, r))
<1> DEFINE x == [k \in Round \ {0} |-> IF k > r THEN s.timeouts_aggregators[k] ELSE NewTCMaker]
<1>1. 0 \in Round /\ << >> \in Block
  BY RoundAssumption DEF Round, Block
<1>2. GenesisQC \in QC /\ GenesisWQC \in WQC
  BY <1>1 DEF GenesisQC, GenesisWQC, NewQC, NewWQC, QC, WQC, Genesis, VoteType
<1>3. NewTCMaker \in TCMaker
  BY <1>2 DEF NewTCMaker, TCMaker
<1>4. s.timeouts_aggregators \in [Round \ {0} -> TCMaker]
  BY Fields
<1>5. x \in [Round \ {0} -> TCMaker]
  BY <1>3, <1>4
<1>6. cleanup_timeouts(s, r) = [s EXCEPT !.timeouts_aggregators = x]
  BY DEF cleanup_timeouts
<1> HIDE DEF x
<1>7. QED
  BY <1>5, <1>6, Set_timeouts_aggregators

\* Aggregator::cleanup_prepares.
LEMMA Leads_cleanup_prepares ==
    ASSUME NEW s, Sound(s), NEW r
    PROVE  Leads(s, cleanup_prepares(s, r))
<1> DEFINE x == {v \in s.votes_aggregators : v.round > r}
           y == {v \in s.commit_aggregators : v.round > r}
           t == [s EXCEPT !.votes_aggregators = x]
           u == [t EXCEPT !.commit_aggregators = y]
<1>1. s \in State
  BY DEF Sound
<1>2. x \in SUBSET Vote /\ y \in SUBSET Vote
  BY <1>1, Fields
<1>3. cleanup_prepares(s, r) = u
  BY <1>1 DEF cleanup_prepares, State
<1> HIDE DEF x, y
<1>4. t \in State /\ Same(s, t)
  BY <1>1, <1>2, Set_votes_aggregators
<1> HIDE DEF t
<1>5. u \in State /\ Same(t, u)
  BY <1>2, <1>4, Set_commit_aggregators
<1>6. QED
  BY <1>3, <1>4, <1>5, SameSame, SameLeads

\* The rounds of the votes sent are numbers.
LEMMA VoteRounds ==
    ASSUME NEW s \in State, NEW kind, NEW v \in VotesOf(s, kind)
    PROVE  v.round \in Int
<1>1. v \in Message /\ v.type = "Vote"
  BY Fields DEF VotesOf
<1>2. QED
  BY <1>1, MessageTypes, RoundAssumption DEF Vote, Round

\* Core::send_vote of a Commit vote, in a round the node did not give up on, that
\* is locked and later than those of the Commit votes before.
LEMMA Leads_send_commit_vote ==
    ASSUME NEW s, Sound(s), NEW b \in Block, NEW r \in Round, s.last_timeout < r,
           r <= s.locked.round, \A w \in VotesOf(s, "Commit") : w.round < r
    PROVE  Leads(s, send_vote(s, b, r, "Commit"))
<1>1. s \in State
  BY DEF Sound
<1>2. PICK v : v = NewVote(s.name, b, "Commit", r)
  OBVIOUS
<1>3. v \in Vote /\ v.type = "Vote" /\ v.kind = "Commit" /\ v.round = r /\ v \in Message
  BY <1>1, <1>2, Fields DEF NewVote, Vote, VoteType, Message
<1>4. PICK t : t = send(s, v)
  OBVIOUS
<1>5. /\ t \in State /\ t.sent = s.sent \cup {v}
      /\ t.name = s.name /\ t.round = s.round /\ t.last_timeout = s.last_timeout
      /\ t.last_vote = s.last_vote /\ t.locked = s.locked /\ t.high_wqc = s.high_wqc
      /\ t.last_commit = s.last_commit /\ t.pending_proposals = s.pending_proposals
  BY <1>1, <1>3, <1>4 DEF send, State
<1>6. Sound(t)
  <2>1. CommitRound(t) = CommitRound(s)
    BY <1>5 DEF CommitRound
  <2>2. /\ VotesOf(t, "Normal") = VotesOf(s, "Normal")
        /\ VotesOf(t, "Commit") = VotesOf(s, "Commit") \cup {v}
    BY <1>3, <1>5 DEF VotesOf
  <2>3. \A w \in VotesOf(s, "Commit") : w.round # r
    BY <1>1, VoteRounds, RoundAssumption DEF Round
  <2>4. VotesOnce(t)
    BY <1>3, <1>5, <2>3 DEF VotesOnce, VotesOf, Sound, Ballot
  <2>5. Ballot(t)
    BY <1>3, <1>5, <2>1, <2>2, <2>4 DEF Sound, Ballot
  <2>6. QED
    BY <1>3, <1>5, <2>5 DEF Sound
<1>7. Leads(s, t)
  BY <1>1, <1>3, <1>5, <1>6, RoundTypes DEF Leads
<1>8. Leads(t, handle_vote(t, v))
  BY <1>3, <1>6, Leads_handle_vote
<1>9. send_vote(s, b, r, "Commit") = handle_vote(t, v)
  BY <1>2, <1>4 DEF send_vote
<1>10. QED
  BY <1>7, <1>8, <1>9, ThenLeads

\* Core::send_vote of a Normal vote, for the pending block of the round the node
\* is in.
LEMMA Leads_send_normal_vote ==
    ASSUME NEW s, Sound(s), NEW b \in Block, NEW r \in Round,
           s.last_timeout < r, r = s.round, b \in s.pending_proposals, BlockRound(b) = r
    PROVE  Leads(s, send_vote(s, b, r, "Normal"))
<1>1. s \in State
  BY DEF Sound
<1>2. PICK v : v = NewVote(s.name, b, "Normal", r)
  OBVIOUS
<1>3. /\ v \in Vote /\ v.type = "Vote" /\ v.kind = "Normal" /\ v.round = r
      /\ v.blk_hash = b /\ v \in Message
  BY <1>1, <1>2, Fields DEF NewVote, Vote, VoteType, Message
<1>4. PICK u : u = [s EXCEPT !.last_vote = v]
  OBVIOUS
<1>5. /\ u \in State /\ u.last_vote = v /\ u.sent = s.sent
      /\ u.name = s.name /\ u.round = s.round /\ u.last_timeout = s.last_timeout
      /\ u.locked = s.locked /\ u.high_wqc = s.high_wqc
      /\ u.last_commit = s.last_commit /\ u.pending_proposals = s.pending_proposals
  BY <1>1, <1>3, <1>4 DEF State
<1>6. PICK t : t = send(u, v)
  OBVIOUS
<1>7. /\ t \in State /\ t.sent = s.sent \cup {v}
      /\ t.name = s.name /\ t.round = s.round /\ t.last_timeout = s.last_timeout
      /\ t.last_vote = v /\ t.locked = s.locked /\ t.high_wqc = s.high_wqc
      /\ t.last_commit = s.last_commit /\ t.pending_proposals = s.pending_proposals
  BY <1>3, <1>5, <1>6 DEF send, State
<1>8. Sound(t)
  <2>1. CommitRound(t) = CommitRound(s)
    BY <1>7 DEF CommitRound
  <2>2. /\ VotesOf(t, "Normal") = VotesOf(s, "Normal") \cup {v}
        /\ VotesOf(t, "Commit") = VotesOf(s, "Commit")
    BY <1>3, <1>7 DEF VotesOf
  <2>3. ASSUME NEW w \in VotesOf(s, "Normal"), w.round = r
        PROVE  w.blk_hash = b
    <3>1. CommitRound(s) \in Int /\ r \in Int /\ r # 0
      BY <1>1, Fields, BlockRoundType, RoundAssumption DEF CommitRound, Round
    <3>2. r > CommitRound(s)
      BY <3>1 DEF Sound, Ballot
    <3>3. w.blk_hash \in s.pending_proposals /\ BlockRound(w.blk_hash) = r
      BY <2>3, <3>1, <3>2 DEF Sound, Ballot
    <3>4. QED
      BY <3>3 DEF Sound, Ballot
  <2>4. VotesOnce(t)
    BY <1>3, <1>7, <2>3 DEF VotesOnce, VotesOf, Sound, Ballot
  <2>5. Ballot(t)
    BY <1>3, <1>7, <2>1, <2>2, <2>4 DEF Sound, Ballot
  <2>6. QED
    BY <1>1, <1>3, <1>7, <2>5, RoundTypes DEF Sound
<1>9. Leads(s, t)
  BY <1>1, <1>3, <1>7, <1>8, RoundTypes DEF Leads, Sound
<1>10. Leads(t, handle_vote(t, v))
  BY <1>3, <1>8, Leads_handle_vote
<1>11. send_vote(s, b, r, "Normal") = handle_vote(t, v)
  BY <1>2, <1>4, <1>6 DEF send_vote
<1>12. QED
  BY <1>9, <1>10, <1>11, ThenLeads

\* Core::try_vote.
LEMMA Leads_try_vote ==
    ASSUME NEW s, Sound(s)
    PROVE  Leads(s, try_vote(s))
<1> DEFINE accepted == {b \in s.pending_proposals : BlockRound(b) = s.round}
           b == CHOOSE x \in accepted : TRUE
<1>1. s \in State
  BY DEF Sound
<1>2. CASE accepted = {}
  BY <1>2, StayLeads DEF try_vote
<1>3. CASE accepted # {}
  <2>1. b \in Block /\ BlockRound(b) = s.round /\ b \in s.pending_proposals
    BY <1>1, <1>3, Fields
  <2>2. try_vote(s) = IF b \notin s.uncommitted_blocks THEN panic(s)
                      ELSE IF can_vote(s, b) THEN send_vote(s, b, BlockRound(b), "Normal")
                      ELSE s
    BY <1>3 DEF try_vote
  <2> HIDE DEF b
  <2>3. can_vote(s, b) => Leads(s, send_vote(s, b, BlockRound(b), "Normal"))
    BY <2>1, BlockRoundType, Leads_send_normal_vote DEF can_vote
  <2>4. QED
    BY <2>2, <2>3, Leads_panic, StayLeads
<1>4. QED
  BY <1>2, <1>3

\* Core::advance_to_round.
LEMMA Leads_advance_to_round ==
    ASSUME NEW s, Sound(s), NEW r \in 1..(MaxRound + 1)
    PROVE  Leads(s, advance_to_round(s, r))
<1>1. s \in State
  BY DEF Sound
<1>2. CASE ~(r > s.round)
  BY <1>2, StayLeads DEF advance_to_round
<1>3. CASE r > s.round
  <2>1. PICK t : t = [s EXCEPT !.round = r]
    OBVIOUS
  <2>2. /\ t \in State /\ t.round = r /\ t.sent = s.sent
        /\ t.name = s.name /\ t.last_timeout = s.last_timeout
        /\ t.last_vote = s.last_vote /\ t.locked = s.locked /\ t.high_wqc = s.high_wqc
        /\ t.last_commit = s.last_commit /\ t.pending_proposals = s.pending_proposals
    BY <1>1, <2>1 DEF State
  <2>3. r \in Int
    BY RoundAssumption
  <2>4. Sound(t)
    <3>1. Ballot(t)
      BY <2>2, BallotSame DEF Sound
    <3>2. QED
      BY <1>1, <1>3, <2>2, <2>3, <3>1, RoundTypes DEF Sound
  <2>5. Leads(s, t)
    BY <1>1, <1>3, <2>2, <2>3, <2>4, RoundTypes DEF Leads
  <2>6. QED
    BY <1>3, <2>1, <2>4, <2>5, Leads_try_vote, ThenLeads DEF advance_to_round
<1>4. QED
  BY <1>2, <1>3
=============================================================================
