----------------------------- MODULE Hydrangea -----------------------------
(***************************************************************************)
(* A committee of nodes that run the consensus engine of module Core.      *)
(*                                                                         *)
(* The network keeps everything that was ever sent.  A node may receive a  *)
(* message of another node at any time, in any order, again, or never:     *)
(* SimpleSender drops messages when a connection breaks, ReliableSender    *)
(* sends again what was not acknowledged, and there is one connection per  *)
(* sender and message class.  A node that crashes is one that stops taking *)
(* steps; the nodes outside Honest crash in round 1, and of those only the *)
(* leader of round 1 may have been heard of.                               *)
(*                                                                         *)
(* The main loop of a node runs one handler to completion before it takes  *)
(* the next message.  Nodes share nothing but the messages, so a handler   *)
(* that runs is run to its end before any other node moves: what the other *)
(* nodes would do in between, they can do before or after.                 *)
(***************************************************************************)
EXTENDS Core

CONSTANT
    Lost        \* bound: <<kind, n>> for the kinds of message that never reach n

VARIABLE
    node        \* node[n] is the state of the consensus engine of node n

vars == <<node>>

Idle == \A n \in Honest : node[n].calls = << >>

\* A node proposes for round 1 each time it boots, with the payload it has then,
\* and recovers nothing from its disk: a leader of round 1 that fails and boots
\* again may have sent several proposals.
Booted ==
    {NormalProposal(NewBlock(n, Genesis, payload, 1), GenesisQC) :
        n \in {Leader[1]} \ Honest, payload \in Payload}

Sent == Booted \cup UNION {node[n].sent : n \in Honest}

\* Core::spawn, and the proposal for round 1 that Core::run asks for.
Init ==
    \E e \in Choice : node = [n \in Honest |-> propose_normal(InitialState(n), GenesisQC, e)]

\* Node n becomes what a handler makes of it.
Becomes(n, s) == node' = [node EXCEPT ![n] = s]

\* The main loop of node n is free to take its next input.
Free(n) == Idle /\ ~node[n].panicked

Kind(m) == IF m.type = "Vote" THEN m.kind ELSE m.type

Arriving(n, type) == {m \in Sent : m.type = type /\ <<Kind(m), n>> \notin Lost}

-----------------------------------------------------------------------------
ReceiveVote(n) ==
    /\ Free(n)
    /\ \E v \in Arriving(n, "Vote") :
          v.author # n /\ Becomes(n, handle_vote(node[n], v))

ReceiveTimeout(n) ==
    /\ Free(n)
    /\ \E t \in Arriving(n, "Timeout"), e \in TimeoutChoice :
          t.author # n /\ Becomes(n, handle_timeout(node[n], t, e))

ReceiveQC(n) ==
    /\ Free(n)
    /\ \E m \in Arriving(n, "QC"), e \in Choice : Becomes(n, handle_qc(node[n], m.qc, e))

\* From the leader's Proposer, or from the node's own over rx_proposer.
ReceiveProposal(n) ==
    /\ Free(n)
    /\ \E p \in Arriving(n, "N") \cup Arriving(n, "F"), e \in Choice :
          Becomes(n, handle_proposal(node[n], p, e))

\* The Helper of some node m answers the request of the Synchronizer of n.
ReceiveSyncResponse(n) ==
    /\ Free(n)
    /\ \E b \in node[n].sync_requests, m \in Honest \ {n} :
          /\ b \in node[m].store
          /\ Becomes(n, handle_sync_response(node[n], b))

\* The Synchronizer of n sees that the block it waited for is on disk.
ReceiveLoopback(n) ==
    /\ Free(n)
    /\ \E w \in node[n].loopbacks :
          /\ w[1] \in node[n].store
          /\ Becomes(n, handle_synchronizer_loopback(node[n], w[2]))

TimerExpires(n) ==
    /\ Free(n)
    /\ node[n].round <= MaxRound
    /\ Cardinality({m \in node[n].sent : m.type = "Timeout"}) < MaxTimeouts[n]
    /\ Becomes(n, local_timeout_round(node[n]))

-----------------------------------------------------------------------------
\* Node n makes the next call of its stack.
Calls(n, op) == node[n].calls # << >> /\ Head(node[n].calls).op = op

Arg(n) == Head(node[n].calls).arg

RunHandleQC(n) ==
    /\ Calls(n, "handle_qc")
    /\ \E e \in Choice : Becomes(n, handle_qc(resume(node[n]), Arg(n), e))

RunFinishPrepareQC(n) ==
    /\ Calls(n, "finish_prepare_qc")
    /\ Becomes(n, finish_prepare_qc(resume(node[n]), Arg(n)))

RunHandleTimeout(n) ==
    /\ Calls(n, "handle_timeout")
    /\ \E e \in TimeoutChoice : Becomes(n, handle_timeout(resume(node[n]), Arg(n), e))

RunAddTimeout(n) ==
    /\ Calls(n, "add_timeout")
    /\ \E e \in TimeoutChoice : Becomes(n, add_timeout(resume(node[n]), Arg(n), e))

RunHandleTC(n) ==
    /\ Calls(n, "handle_tc")
    /\ \E e \in Choice : Becomes(n, handle_tc(resume(node[n]), Arg(n), e))

RunFinishTC(n) ==
    /\ Calls(n, "finish_tc")
    /\ \E e \in Choice : Becomes(n, finish_tc(resume(node[n]), Arg(n), e))

RunAdvanceToRound(n) ==
    /\ Calls(n, "advance_to_round")
    /\ Becomes(n, advance_to_round(resume(node[n]), Arg(n)))

RunFinishProposal(n) ==
    /\ Calls(n, "finish_proposal")
    /\ Becomes(n, finish_proposal(resume(node[n]), Arg(n)))

Receive(n) ==
    \/ ReceiveVote(n)
    \/ ReceiveTimeout(n)
    \/ ReceiveQC(n)
    \/ ReceiveProposal(n)
    \/ ReceiveSyncResponse(n)
    \/ ReceiveLoopback(n)

Run(n) ==
    \/ RunHandleQC(n)
    \/ RunFinishPrepareQC(n)
    \/ RunHandleTimeout(n)
    \/ RunAddTimeout(n)
    \/ RunHandleTC(n)
    \/ RunFinishTC(n)
    \/ RunAdvanceToRound(n)
    \/ RunFinishProposal(n)

Next == \E n \in Honest : Receive(n) \/ TimerExpires(n) \/ Run(n)

Spec == Init /\ [][Next]_vars

-----------------------------------------------------------------------------
(***************************************************************************)
(* Invariants.                                                             *)
(***************************************************************************)

\* The fields of every node have their types.
TypeOK == node \in [Honest -> State]

\* No assert!, expect or panic! of core.rs is ever reached: the chain that a
\* node walks in have_all_ancestors and commit always meets its last commit, a
\* block on disk and not in memory is committed, a certified block is one the
\* node has or waits for.
NoPanic == \A n \in Honest : ~node[n].panicked

\* No handler ends in an error: what a running node sends is well formed for
\* every running node, whatever state that node is in when it arrives.
NoRejection == \A n \in Honest : ~node[n].rejected

\* A node that broadcasts Normal votes for two blocks of one round could help
\* to certify both: send_vote has no memory of earlier votes, so this rests on
\* pending_proposals keeping the first block of a round until it is committed.
\* Nor does it vote to commit two blocks of one round.
OneVotePerRound ==
    \A n \in Honest : \A v, w \in node[n].sent :
        /\ v.type = "Vote" /\ w.type = "Vote"
        /\ v.kind = w.kind /\ v.round = w.round
        => v.blk_hash = w.blk_hash

\* A leader proposes one block per round, although handle_prepare_qc and
\* handle_tc both ask the Proposer to propose and neither knows of the other.
OneProposalPerRound ==
    \A n \in Honest : \A p, q \in node[n].sent :
        /\ p.type \in {"N", "F"} /\ q.type \in {"N", "F"}
        /\ BlockRound(p.block) = BlockRound(q.block)
        => p = q

\* The running nodes that sent a vote of this kind for block b in round r.
Voters(kind, b, r) == {n \in Honest : NewVote(n, b, kind, r) \in node[n].sent}

\* The prepare QCs that node n has: a commit removes the ones that it makes old,
\* and leaves the lock.
PrepareQCs(n) == node[n].uncommitted_qcs \cup {node[n].locked}

\* Every certificate a node acts on stands for as many distinct voters as the
\* thresholds ask for, although the aggregators are emptied by a commit and may
\* count again the votes that arrive, or arrive again, later.
CertificatesBacked ==
    \A n \in Honest :
        /\ \A qc \in PrepareQCs(n) :
              qc = GenesisQC \/
              Cardinality(Voters("Normal", qc.blk_hash, qc.round)) >= quorum_threshold
        /\ \A b \in node[n].committable_blocks \cup {node[n].last_commit} :
              \/ b = Genesis
              \/ Cardinality(Voters("Normal", b, BlockRound(b))) >= fast_commit_quorum_threshold
              \/ Cardinality(Voters("Commit", b, BlockRound(b))) >= slow_commit_threshold
        /\ LET w == node[n].high_wqc
           IN  w = GenesisWQC \/
               Cardinality(Voters("Normal", w.blk_hash, w.round)) >= weak_cert_threshold

\* Two prepare QCs for one round, in the index or the lock of whichever nodes,
\* certify one block.  A node sends its Commit vote for a QC that it has, so the
\* Commit votes of a round, which share one QCMaker, are for one block too.
OneCertificatePerRound ==
    \A m, n \in Honest : \A x \in PrepareQCs(m), y \in PrepareQCs(n) :
        x.round = y.round => x.blk_hash = y.blk_hash

\* The running nodes that sent a Timeout for round r.
TimedOut(r) ==
    {n \in Honest : \E t \in node[n].sent : t.type = "Timeout" /\ t.round = r}

\* The claim of the comment in handle_timeout: a node whose lock is older than
\* the round before its own entered its round with a TC, so that enough nodes
\* have already sent a Timeout for that round.  A node is never locked in its
\* own round or a later one.
RoundEntryJustified ==
    Idle => \A n \in Honest :
        /\ node[n].locked.round < node[n].round
        /\ \/ node[n].locked.round = node[n].round - 1
           \/ Cardinality(TimedOut(node[n].round - 1)) >= view_change_threshold

\* Every block that a node still asks its peers for is on the disk of one of
\* them, so that the retries of the Synchronizer can succeed.
RequestedIsAvailable ==
    \A n \in Honest : \A b \in node[n].sync_requests :
        \E m \in Honest : b \in node[m].store

\* Every block proposed for a later round extends every block that some node
\* has output: what was committed on the fast path is recovered from the weak
\* certificates of a TC, what was committed on the slow path from its high QC.
OutputIsExtended ==
    \A n \in Honest, m \in Sent :
        m.type \in {"N", "F"} =>
            \A i \in DOMAIN node[n].output :
                BlockRound(node[n].output[i]) < BlockRound(m.block)
                => IsPrefix(node[n].output[i], m.block)

-----------------------------------------------------------------------------
(***************************************************************************)
(* Action properties.                                                      *)
(***************************************************************************)

\* A node that told the others it gave up on a round votes no more in that
\* round or an earlier one, neither for a block nor to commit: can_vote and
\* handle_prepare_qc compare with last_timeout, which every path that sends a
\* Timeout has to raise.
NoVoteAfterTimeout ==
    [][\A n \in Honest : \A v \in node'[n].sent \ node[n].sent :
          v.type = "Vote" =>
              \A t \in node[n].sent : t.type = "Timeout" => t.round < v.round]_vars

\* What a node reports in its Timeouts, and the round it is in, never falls
\* back, although send_vote overwrites last_vote without looking at it.
NeverGoesBack ==
    [][\A n \in Honest :
          /\ node[n].round <= node'[n].round
          /\ node[n].last_timeout <= node'[n].last_timeout
          /\ node[n].last_vote.round <= node'[n].last_vote.round
          /\ node[n].locked.round <= node'[n].locked.round
          /\ node[n].high_wqc.round <= node'[n].high_wqc.round]_vars

-----------------------------------------------------------------------------
(***************************************************************************)
(* What the committee promises its clients.                                *)
(***************************************************************************)

Promise == INSTANCE Ledger WITH log <- [n \in Honest |-> node[n].output]

\* The blocks the nodes output are one growing chain.
Agreement == Promise!Spec

-----------------------------------------------------------------------------
(***************************************************************************)
(* Two claims of comments in core.rs.  The program does not keep them.     *)
(***************************************************************************)

\* schedule_commit, of a block that it does not have: "Will have requested in
\* call to get_block".  Votes may complete a commit or fast certificate before
\* the node has seen the prepare QC, which is what calls get_block.
ScheduledIsRequested ==
    Idle => \A n \in Honest : \A b \in node[n].committable_blocks :
                b \in node[n].uncommitted_blocks \cup node[n].sync_requests

\* handle_tc: "Forward TC to next leader".  send_to does not send a TC.
TCForwarded ==
    Idle => \A n \in Honest :
        LET r == node[n].round
        IN  node[n].locked.round < r - 1 /\ Leader[r] # n =>
                \E m \in node[n].sent : m.type = "TC" /\ m.tc.round = r - 1
=============================================================================
