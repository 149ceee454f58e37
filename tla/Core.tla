-------------------------------- MODULE Core --------------------------------
(***************************************************************************)
(* The consensus engine of one node (hydrangea/src/core.rs), with the part *)
(* of the aggregator (hydrangea/src/aggregator.rs) it drives.              *)
(*                                                                         *)
(* A node's state is a record with the fields of the struct Core that the  *)
(* handlers read or write; each handler is an operator from that record to *)
(* the next one.  The handlers call each other recursively (handle_vote -> *)
(* handle_qc -> advance_to_round -> try_vote -> send_vote -> handle_vote). *)
(* The recursion is made explicit: the two calls that close a cycle, the   *)
(* handling of the QC that the node's own vote completes and of the node's *)
(* own Timeout, are pushed on the node's call stack instead of made.  What *)
(* a caller does after a call is pushed below it, as one more call, and is *)
(* made at once when the call returns with nothing left above.             *)
(*                                                                         *)
(* The argument e of a handler holds the choices that are not the node's:  *)
(* the payload its Proposer has at hand and the round that comes first in  *)
(* the HashMap of check_wqc.                                               *)
(*                                                                         *)
(* A map from rounds or digests to values that carry their own round or    *)
(* digest is the set of the values.                                        *)
(***************************************************************************)
EXTENDS Messages, SequencesExt

CONSTANTS
    Honest,     \* the authorities that run: the others fail in round 1
    Leader,     \* Leader[r] is the leader of round r
    MaxTimeouts \* bound: the timer of n expires until n has sent MaxTimeouts[n]
                \* Timeouts

ASSUME CoreAssumption ==
    /\ Honest \subseteq Node
    /\ MaxTimeouts \in [Honest -> Nat]
    /\ Leader \in [1..(MaxRound + 1) -> Node]

\* What a handler may find outside the node: a handler that may append a Timeout
\* may reach check_wqc, the others do not.
Choice == [payload : Payload]

TimeoutChoice == [payload : Payload, first : Round]

\* The Timeouts that a TCMaker holds and the highest certificates it knows.
NewTCMaker == [votes |-> {}, high_qc |-> GenesisQC, high_wqc |-> GenesisWQC]

InitialState(n) ==
    [ name               |-> n,
      round              |-> 1,
      last_vote          |-> NewVote(n, Genesis, "Normal", 0),
      last_timeout       |-> 0,
      locked             |-> GenesisQC,
      high_wqc           |-> GenesisWQC,
      last_commit        |-> Genesis,
      committable_blocks |-> {},
      pending_proposals  |-> {Genesis},
      uncommitted_blocks |-> {Genesis},
      uncommitted_qcs    |-> {GenesisQC},
      sync_requests      |-> {},
      timeout_syncs      |-> {},
      \* The aggregator: the votes in its QCMakers and its TCMakers.
      votes_aggregators    |-> {},
      commit_aggregators   |-> {},
      timeouts_aggregators |-> [r \in Round \ {0} |-> NewTCMaker],
      \* The blocks on disk, the blocks the Synchronizer will hand back once
      \* the block they wait for is on disk, and the blocks output so far.
      store              |-> {},
      loopbacks          |-> {},
      output             |-> << >>,
      \* Everything the node sent, the calls it has still to make, and
      \* whether an assertion failed or a message was refused.
      sent               |-> {},
      calls              |-> << >>,
      panicked           |-> FALSE,
      rejected           |-> FALSE ]

\* The calls that a handler leaves on the stack.
PendingCall ==
    [op : {"handle_qc", "finish_prepare_qc"}, arg : QC] \cup
    [op : {"handle_timeout", "add_timeout"}, arg : Timeout] \cup
    [op : {"handle_tc", "finish_tc"}, arg : TC] \cup
    [op : {"advance_to_round"}, arg : 1..(MaxRound + 1)] \cup
    [op : {"finish_proposal"}, arg : Proposal]

TCMaker == [votes : SUBSET Timeout, high_qc : QC, high_wqc : WQC]

State ==
    [ name : Node, round : 1..(MaxRound + 1), last_vote : Vote, last_timeout : Round,
      locked : QC, high_wqc : WQC, last_commit : Block,
      committable_blocks : SUBSET Block, pending_proposals : SUBSET Block,
      uncommitted_blocks : SUBSET Block, uncommitted_qcs : SUBSET QC,
      sync_requests : SUBSET Block, timeout_syncs : SUBSET Round,
      votes_aggregators : SUBSET Vote, commit_aggregators : SUBSET Vote,
      timeouts_aggregators : [Round \ {0} -> TCMaker],
      store : SUBSET Block, loopbacks : SUBSET (Block \X Block),
      output : Seq(Block), sent : SUBSET Message, calls : Seq(PendingCall),
      panicked : BOOLEAN, rejected : BOOLEAN ]

Call(op, arg) == [op |-> op, arg |-> arg]

push(s, calls) == [s EXCEPT !.calls = calls \o @]

\* Core::broadcast, for the messages it does not drop.
send(s, m) == [s EXCEPT !.sent = @ \cup {m}]

\* Core::send_to, which drops every other type of message.
send_to(s, m, recipient) ==
    IF recipient # s.name /\ m.type \in {"QC", "Vote", "Timeout"} THEN send(s, m) ELSE s

\* assert!, expect and panic!: the task dies.
panic(s) == [s EXCEPT !.panicked = TRUE, !.calls = << >>]

\* An error propagated with "?" up to the main loop, which logs it.  (Were it
\* raised while a node handles its own vote, send_vote would discard it.)
reject(s) == [s EXCEPT !.rejected = TRUE, !.calls = << >>]

\* The call made in a state with calls \o <<rest>> on its stack returned, in
\* state s, with nothing left to do before rest.
returned(s, calls, rest) == s.calls = <<rest>> \o calls

resume(s) == [s EXCEPT !.calls = Tail(@)]

CommitRound(s) == BlockRound(s.last_commit)

-----------------------------------------------------------------------------
(***************************************************************************)
(* Committing, and fetching what is missing to commit.                     *)
(***************************************************************************)

\* The in-memory index, then Synchronizer::get_block, which knows Genesis and
\* reads the disk.
have(s, b) == b = Genesis \/ b \in s.uncommitted_blocks \/ b \in s.store

\* Synchronizer::get_block for a block that is not on disk.  A resume_from of
\* Genesis stands for None.
request(s, b, resume_from) ==
    [s EXCEPT !.sync_requests = @ \cup {b},
              !.loopbacks = IF resume_from = Genesis THEN @
                                                     ELSE @ \cup {<<b, resume_from>>}]

get_block(s, b, round) ==
    IF round <= CommitRound(s) THEN s
    ELSE IF \A qc \in s.uncommitted_qcs : qc.round # round THEN panic(s)
    ELSE IF b \in s.uncommitted_blocks THEN s
    ELSE IF b \in s.store THEN panic(s)
    ELSE request(s, b, Genesis)

\* Mutant: only the block itself is output.
Uncommitted_without_ancestors(s, b) == <<b>>

\* The blocks to output when b is committed, oldest first.
Uncommitted(s, b) ==
    [i \in 1..(Len(b) - Len(s.last_commit)) |-> Ancestor(b, Len(s.last_commit) + i)]

\* The walk over the parents of b meets last_commit, and every block before it
\* is in memory and newer than last_commit.
LinksToLastCommit(s, b) ==
    /\ BlockRound(b) > CommitRound(s)
    /\ IsStrictPrefix(s.last_commit, b)
    /\ \A i \in Len(s.last_commit) + 1 .. Len(b) - 1 :
          /\ Ancestor(b, i) \in s.uncommitted_blocks
          /\ BlockRound(Ancestor(b, i)) > CommitRound(s)

commit(s, b) ==
    LET newer(blocks) == {x \in blocks : BlockRound(x) > BlockRound(b)}
    IN  IF b = Genesis THEN s
        ELSE IF ~LinksToLastCommit(s, b) THEN panic(s)
        ELSE [s EXCEPT !.output = @ \o Uncommitted(s, b),
                       !.last_commit = b,
                       !.committable_blocks = newer(@),
                       !.pending_proposals = newer(@),
                       !.uncommitted_blocks = newer(@),
                       !.uncommitted_qcs = {qc \in @ : qc.round > BlockRound(b)}]

\* The ancestor of b at which the loop of have_all_ancestors stops: the first
\* one that is missing or is not newer than last_commit.
WalkEnd(s, b) ==
    LET stops(i) == \/ ~have(s, Ancestor(b, i))
                    \/ BlockRound(Ancestor(b, i)) <= CommitRound(s)
    IN  Ancestor(b, CHOOSE i \in 0..(Len(b) - 1) :
                       stops(i) /\ \A j \in (i + 1)..(Len(b) - 1) : ~stops(j))

\* if self.have_all_ancestors(block) { self.commit(block) }
commit_if_have_all_ancestors(s, b) ==
    LET end == WalkEnd(s, b)
    IN  IF b = Genesis \/ Parent(b) = s.last_commit THEN commit(s, b)
        ELSE IF BlockRound(b) <= CommitRound(s) \/ b \notin s.committable_blocks
             THEN panic(s)
        ELSE IF ~have(s, end) THEN request(s, end, b)
        ELSE IF BlockRound(end) = CommitRound(s) THEN commit(s, b)
        ELSE panic(s)

try_commit_or_sync_ancestor(s, b) ==
    IF BlockRound(b) <= CommitRound(s) THEN panic(s)
    ELSE IF b \in s.committable_blocks THEN commit_if_have_all_ancestors(s, b)
    ELSE s

schedule_commit(s, b) ==
    LET s1 == [s EXCEPT !.committable_blocks = @ \cup {b}]
    IN  IF b \in s.uncommitted_blocks THEN commit_if_have_all_ancestors(s1, b)
                                      ELSE s1

update_pending_proposals(s, b) ==
    IF \E x \in s.pending_proposals : BlockRound(x) = BlockRound(b)
    THEN s
    ELSE [s EXCEPT !.pending_proposals = @ \cup {b}]

\* Mutant: the block is not written to disk.
store_block_in_memory(s, b) ==
    IF BlockRound(b) <= CommitRound(s)
    THEN panic(s)
    ELSE [update_pending_proposals(s, b) EXCEPT !.uncommitted_blocks = @ \cup {b}]

store_block(s, b) ==
    IF BlockRound(b) <= CommitRound(s)
    THEN panic(s)
    ELSE [update_pending_proposals(s, b) EXCEPT
             !.uncommitted_blocks = @ \cup {b},
             !.store = @ \cup {b}]

-----------------------------------------------------------------------------
(***************************************************************************)
(* Votes.                                                                  *)
(***************************************************************************)

\* Mutant: one QCMaker per round.
add_normal_vote_of_round(s, v) ==
    LET s1 == [s EXCEPT !.votes_aggregators = @ \cup {v}]
        used == {u \in s1.votes_aggregators : u.round = v.round}
        qc == Call("handle_qc", NewQC(v.blk_hash, "Normal", v.round, FALSE))
    IN  IF v \notin s.votes_aggregators /\ Cardinality(used) = quorum_threshold
        THEN push(s1, <<qc>>)
        ELSE s1

\* Aggregator::add_normal_vote and QCMaker::append.  The QCMaker of a block
\* compares its weight with the quorum first and with the fast quorum only
\* when that comparison fails.
add_normal_vote(s, v) ==
    LET s1 == [s EXCEPT !.votes_aggregators = @ \cup {v}]
        used == {u \in s1.votes_aggregators :
                    u.round = v.round /\ u.blk_hash = v.blk_hash}
        qc(fast) == Call("handle_qc", NewQC(v.blk_hash, "Normal", v.round, fast))
    IN  IF v \in s.votes_aggregators THEN s
        ELSE IF Cardinality(used) = quorum_threshold THEN push(s1, <<qc(FALSE)>>)
        ELSE IF Cardinality(used) = fast_commit_quorum_threshold
             THEN push(s1, <<qc(TRUE)>>)
        ELSE s1

\* Aggregator::add_commit_vote and QCMaker::append: one QCMaker per round,
\* whose aggregate signature verifies only if all its votes are for one block.
add_commit_vote(s, v) ==
    LET s1 == [s EXCEPT !.commit_aggregators = @ \cup {v}]
        used == {u \in s1.commit_aggregators : u.round = v.round}
        qc == Call("handle_qc", NewQC(v.blk_hash, "Commit", v.round, FALSE))
    IN  IF \E u \in s.commit_aggregators : u.round = v.round /\ u.author = v.author
        THEN s
        ELSE IF Cardinality(used) # slow_commit_threshold THEN s1
        ELSE IF \A u \in used : u.blk_hash = v.blk_hash THEN push(s1, <<qc>>)
        ELSE reject(s1)

handle_vote(s, v) ==
    IF v.round <= CommitRound(s) THEN s
    ELSE IF v.kind = "Commit" THEN add_commit_vote(s, v)
    ELSE add_normal_vote(s, v)

cleanup_timeouts(s, r) ==
    [s EXCEPT !.timeouts_aggregators =
                  [k \in Round \ {0} |-> IF k > r THEN @[k] ELSE NewTCMaker]]

cleanup_prepares(s, r) ==
    [s EXCEPT !.votes_aggregators = {v \in @ : v.round > r},
              !.commit_aggregators = {v \in @ : v.round > r}]

\* The node handles its own vote before it broadcasts it; nothing it does in
\* between is visible to others.
send_vote(s, blk_hash, r, kind) ==
    LET vote == NewVote(s.name, blk_hash, kind, r)
        s1 == IF kind = "Normal" THEN [s EXCEPT !.last_vote = vote] ELSE s
    IN  handle_vote(send(s1, vote), vote)

\* Mutant: last_timeout is not looked at.
can_vote_any(s, b) == TRUE

\* Mutant: the node does not vote in the round after the one it gave up on.
can_vote_later(s, b) == s.last_timeout + 1 < BlockRound(b)

can_vote(s, b) == s.last_timeout < BlockRound(b)

try_vote(s) ==
    LET accepted == {b \in s.pending_proposals : BlockRound(b) = s.round}
        b == CHOOSE x \in accepted : TRUE
    IN  IF accepted = {} THEN s
        ELSE IF b \notin s.uncommitted_blocks THEN panic(s)
        ELSE IF can_vote(s, b) THEN send_vote(s, b, BlockRound(b), "Normal")
        ELSE s

\* Mutant: a late certificate takes the node back.
advance_to_any_round(s, r) == try_vote([s EXCEPT !.round = r])

advance_to_round(s, r) ==
    IF r > s.round THEN try_vote([s EXCEPT !.round = r]) ELSE s

-----------------------------------------------------------------------------
(***************************************************************************)
(* Proposing.  The Proposer turns the trigger into a proposal with the     *)
(* payload it has at hand; the proposal counts as sent at once, and the    *)
(* time the Proposer takes is part of the time it takes to arrive.         *)
(***************************************************************************)

propose_if_leader(s, r, proposal) ==
    IF r <= MaxRound /\ s.name = Leader[r] THEN send(s, proposal) ELSE s

propose_normal(s, qc, e) ==
    LET r == qc.round + 1
        b == NewBlock(s.name, qc.blk_hash, e.payload, r)
    IN  propose_if_leader(s, r, NormalProposal(b, qc))

propose_fallback(s, tc, e) ==
    LET r == tc.round + 1
        b == NewBlock(s.name, SafeBlock(tc), e.payload, r)
    IN  propose_if_leader(s, r, FallbackRecoveryProposal(b, tc))

-----------------------------------------------------------------------------
(***************************************************************************)
(* Quorum certificates.                                                    *)
(***************************************************************************)

handle_commit_qc(s, qc) ==
    IF qc.blk_hash \in s.committable_blocks
    THEN s
    ELSE cleanup_prepares(schedule_commit(s, qc.blk_hash), qc.round)

\* Mutant: the lock is taken only together with the Commit vote.
lock_with_vote(s, qc) ==
    LET s1 == cleanup_timeouts([s EXCEPT !.locked = qc], qc.round)
    IN  IF s.locked.round >= qc.round \/ s.last_timeout >= qc.round THEN s
        ELSE send_vote(s1, qc.blk_hash, qc.round, "Commit")

\* The lock, and the Commit vote that goes with it unless the node gave up on
\* the round; then the rest of handle_prepare_qc.
lock(s, qc) ==
    LET s1 == cleanup_timeouts([s EXCEPT !.locked = qc], qc.round)
    IN  IF s.locked.round >= qc.round THEN s
        ELSE IF s.last_timeout < qc.round
             THEN send_vote(s1, qc.blk_hash, qc.round, "Commit")
        ELSE s1

finish_prepare_qc(s, qc) ==
    LET s1 == get_block(s, qc.blk_hash, qc.round)
    IN  IF s1.panicked THEN s1
                       ELSE advance_to_round(send(s1, QCMessage(qc)), qc.round + 1)

\* Mutant: the next block is proposed even if its round is past.
handle_prepare_qc_proposing(s, qc, e) ==
    LET s1 == propose_normal([s EXCEPT !.uncommitted_qcs = @ \cup {qc}], qc, e)
        rest == Call("finish_prepare_qc", qc)
        s2 == lock(push(s1, <<rest>>), qc)
    IN  IF \E x \in s.uncommitted_qcs : x.round = qc.round THEN s
        ELSE IF returned(s2, s.calls, rest) THEN finish_prepare_qc(resume(s2), qc)
        ELSE s2

handle_prepare_qc(s, qc, e) ==
    LET s1 == [s EXCEPT !.uncommitted_qcs = @ \cup {qc}]
        s2 == IF s.round < qc.round + 1 THEN propose_normal(s1, qc, e) ELSE s1
        rest == Call("finish_prepare_qc", qc)
        s3 == lock(push(s2, <<rest>>), qc)
    IN  IF \E x \in s.uncommitted_qcs : x.round = qc.round THEN s
        ELSE IF returned(s3, s.calls, rest) THEN finish_prepare_qc(resume(s3), qc)
        ELSE s3

handle_qc(s, qc, e) ==
    IF qc.round <= CommitRound(s) THEN s
    ELSE IF qc.kind = "Commit" \/ qc.fast_quorum THEN handle_commit_qc(s, qc)
    ELSE handle_prepare_qc(s, qc, e)

-----------------------------------------------------------------------------
(***************************************************************************)
(* Timeouts and timeout certificates.                                      *)
(***************************************************************************)

\* Mutant: the comparison is the wrong way round.
lower(x, y) == IF y.round < x.round THEN y ELSE x

\* The certificate x of a TCMaker, replaced by y if y is of a higher round.
higher(x, y) == IF y.round > x.round THEN y ELSE x

\* Mutant: one vote is enough.
check_wqc_of_one(timeouts, e) ==
    LET votes == {t.high_vote : t \in {x \in timeouts : x.high_vote.round > 0}}
        v == CHOOSE x \in votes : TRUE
    IN  IF votes = {} THEN GenesisWQC ELSE NewWQC(v.blk_hash, v.round)

\* TCMaker::check_wqc.  The votes are grouped by round; any group that is large
\* enough may be the one found, the groups being in the order of a HashMap.
\* The aggregate signature of the group verifies only if all its votes are for
\* one block and none is the unsigned vote for Genesis.  GenesisWQC is None.
check_wqc(timeouts, e) ==
    LET high_votes == {t.high_vote : t \in timeouts}
        group(r) == {v \in high_votes : v.round = r}
        found == {r \in {v.round : v \in high_votes} :
                     Cardinality(group(r)) >= weak_cert_threshold}
        wqc(r) == IF r # 0 /\ Cardinality({v.blk_hash : v \in group(r)}) = 1
                  THEN NewWQC((CHOOSE v \in group(r) : TRUE).blk_hash, r)
                  ELSE GenesisWQC
    IN  IF found = {} THEN GenesisWQC
        ELSE IF e.first \in found THEN wqc(e.first)
        ELSE wqc(CHOOSE r \in found : TRUE)

\* TCMaker::append, of the first Timeout of its author.
append(maker, t, e) ==
    LET votes == maker.votes \cup {t}
        high_wqc == higher(maker.high_wqc, t.high_wqc)
    IN  [ votes    |-> votes,
          high_qc  |-> higher(maker.high_qc, t.high_qc),
          high_wqc |-> IF Cardinality(votes) >= view_change_threshold
                       THEN higher(high_wqc, check_wqc(votes, e)) ELSE high_wqc ]

\* A Timeout is broadcast whatever comes out of handling it: an error there
\* would mean that an honest node's message was refused.
send_timeout(s, r) ==
    LET timeout == NewTimeout(s.last_vote, s.locked, s.high_wqc, r, s.name)
        s1 == [s EXCEPT !.last_timeout = IF r > @ THEN r ELSE @,
                        !.timeout_syncs = @ \cup {r}]
    IN  IF r \in s.timeout_syncs
        THEN s
        ELSE push(send(s1, timeout), <<Call("handle_timeout", timeout)>>)

handle_wqc(s, wqc) ==
    IF s.high_wqc.round < wqc.round THEN [s EXCEPT !.high_wqc = wqc] ELSE s

\* handle_tc once the high QC is processed.
finish_tc(s, tc, e) ==
    LET s1 == handle_wqc(s, tc.high_wqc)
        s2 == send_to(propose_fallback(s1, tc, e), TCMessage(tc), Leader[tc.round + 1])
        rest == Call("advance_to_round", tc.round + 1)
    IN  IF ~TC_is_well_formed(tc) THEN reject(s1)
        ELSE send_timeout(push(s2, <<rest>>), tc.round)

handle_tc(s, tc, e) ==
    IF s.round >= tc.round + 1 THEN s
    ELSE handle_qc(push(s, <<Call("finish_tc", tc)>>), tc.high_qc, e)

\* Aggregator::add_timeout, which ignores a second Timeout of an author, and
\* what handle_timeout does with the outcome.
add_timeout(s, t, e) ==
    LET old == s.timeouts_aggregators[t.round]
        used == \E x \in old.votes : x.author = t.author
        maker == IF used THEN old ELSE append(old, t, e)
        weight == Cardinality(maker.votes)
        tc == NewTC(maker.high_qc, maker.high_wqc, t.round,
                    {[author |-> x.author, locked |-> x.high_qc.round] : x \in maker.votes})
        s1 == [s EXCEPT !.timeouts_aggregators = [@ EXCEPT ![t.round] = maker]]
    IN  IF weight < validity_threshold THEN s1
        ELSE IF used \/ weight < view_change_threshold THEN send_timeout(s1, t.round)
        ELSE send_timeout(push(s1, <<Call("handle_tc", tc)>>), t.round)

\* sync_peer sends the locked QC to the author, at most once per timeout_delay.
handle_timeout(s, t, e) ==
    LET rest == Call("add_timeout", t)
        s1 == handle_qc(push(s, <<rest>>), t.high_qc, e)
    IN  IF t.round <= s.locked.round THEN send(s, QCMessage(s.locked))
        ELSE IF t.round < s.round THEN send_timeout(s, s.round - 1)
        ELSE IF returned(s1, s.calls, rest) THEN add_timeout(resume(s1), t, e)
        ELSE s1

\* Mutant: the round wraps below zero.
local_timeout_older_round(s) == send_timeout([s EXCEPT !.timeout_syncs = {}], s.round - 2)

\* Mutant: timeout_syncs is not cleared.
local_timeout_round_once(s) == send_timeout(s, s.round)

local_timeout_round(s) == send_timeout([s EXCEPT !.timeout_syncs = {}], s.round)

-----------------------------------------------------------------------------
(***************************************************************************)
(* Proposals and blocks.                                                   *)
(***************************************************************************)

\* The assertion of can_accept_block: a certified block that the node is not
\* waiting for is one it has.
acceptance_panics(s, b) ==
    /\ \E qc \in s.uncommitted_qcs : qc.round = BlockRound(b) /\ qc.blk_hash = b
    /\ b \notin s.uncommitted_blocks

certified(s, r) == \E qc \in s.uncommitted_qcs : qc.round = r

is_non_equivocal_and_certifiable(s, b) ==
    \A x \in s.pending_proposals : BlockRound(x) # BlockRound(b)

\* What process_block does with a block that can_accept_block accepts.
accept_block(s, b) ==
    LET s1 == try_commit_or_sync_ancestor(store_block(s, b), b)
    IN  IF s1.panicked THEN s1 ELSE try_vote(s1)

\* Mutant: sync_requests is looked at after uncommitted_qcs.
process_block_late_sync(s, b) ==
    IF BlockRound(b) <= CommitRound(s) THEN s
    ELSE IF acceptance_panics(s, b) THEN panic(s)
    ELSE IF certified(s, BlockRound(b)) THEN s
    ELSE IF b \in s.sync_requests \/ is_non_equivocal_and_certifiable(s, b)
         THEN accept_block([s EXCEPT !.sync_requests = @ \ {b}], b)
    ELSE s

\* Mutant: a second proposal for a round replaces the first.
process_block_replacing(s, b) ==
    IF BlockRound(b) <= CommitRound(s) \/ certified(s, BlockRound(b)) THEN s
    ELSE accept_block([s EXCEPT !.pending_proposals =
                                    {x \in @ : BlockRound(x) # BlockRound(b)}], b)

process_block(s, b) ==
    IF BlockRound(b) <= CommitRound(s) THEN s
    ELSE IF b \in s.sync_requests
         THEN accept_block([s EXCEPT !.sync_requests = @ \ {b}], b)
    ELSE IF acceptance_panics(s, b) THEN panic(s)
    ELSE IF certified(s, BlockRound(b)) THEN s
    ELSE IF b[Len(b)].author # Leader[BlockRound(b)] THEN reject(s)
    ELSE IF is_non_equivocal_and_certifiable(s, b) THEN accept_block(s, b)
    ELSE s

\* process_normal_proposal and process_fallback_recovery_proposal once the
\* certificate is processed.
finish_proposal(s, p) ==
    IF IF p.type = "F" THEN FallbackRecoveryProposal_is_well_formed(p)
                       ELSE NormalProposal_is_well_formed(p)
    THEN process_block(s, p.block)
    ELSE reject(s)

\* process_normal_proposal and process_fallback_recovery_proposal.
handle_proposal(s, p, e) ==
    LET rest == Call("finish_proposal", p)
        s1 == IF p.type = "F" THEN handle_tc(push(s, <<rest>>), p.tc, e)
                              ELSE handle_qc(push(s, <<rest>>), p.qc, e)
    IN  IF returned(s1, s.calls, rest) THEN finish_proposal(resume(s1), p) ELSE s1

handle_sync_response(s, b) ==
    LET s1 == [s EXCEPT !.sync_requests = @ \ {b}]
    IN  IF b \in s.sync_requests /\ BlockRound(b) > CommitRound(s)
        THEN try_commit_or_sync_ancestor(store_block(s1, b), b)
        ELSE s1

\* Mutant: the block may have been committed in the meantime.
handle_any_loopback(s, b) == try_commit_or_sync_ancestor(s, b)

handle_synchronizer_loopback(s, b) ==
    IF BlockRound(b) > CommitRound(s) THEN try_commit_or_sync_ancestor(s, b) ELSE s
=============================================================================
