------------------------------ MODULE Messages ------------------------------
(***************************************************************************)
(* Blocks, votes, certificates and proposals (hydrangea/src/messages.rs).  *)
(*                                                                         *)
(* A digest is collision free, so a block stands for its own digest, and   *)
(* since a block holds the digest of its parent it is the sequence of the  *)
(* headers from the child of Genesis to itself.  Signatures verify exactly *)
(* when the signed values agree, so they are not modelled.                 *)
(***************************************************************************)
EXTENDS Committee, Sequences

CONSTANTS
    Payload,    \* what a proposer may find in its buffer
    MaxRound    \* bound: no block is proposed for a later round

ASSUME RoundAssumption == MaxRound \in Nat \ {0}

\* The rounds of proposals, votes and certificates, Genesis included.
Round == 0..MaxRound

Header == [round : Round \ {0}, author : Node, payload : Payload]

Block == Seq(Header)

Genesis == << >>

BlockRound(b) == IF b = Genesis THEN 0 ELSE b[Len(b)].round

Ancestor(b, i) == SubSeq(b, 1, i)

Parent(b) == Ancestor(b, Len(b) - 1)

\* Block::new.
NewBlock(author, parent, payload, round) ==
    Append(parent, [round |-> round, author |-> author, payload |-> payload])

-----------------------------------------------------------------------------
VoteType == {"Normal", "Commit"}

Vote == [type : {"Vote"}, author : Node, blk_hash : Block, kind : VoteType, round : Round]

QC == [blk_hash : Block, kind : VoteType, round : Round, fast_quorum : BOOLEAN]

WQC == [blk_hash : Block, round : Round]

Timeout ==
    [type : {"Timeout"}, high_vote : Vote, high_qc : QC, high_wqc : WQC,
     round : Round \ {0}, author : Node]

TC ==
    [high_qc : QC, high_wqc : WQC, round : Round \ {0},
     votes : SUBSET [author : Node, locked : Round]]

NewVote(author, blk_hash, kind, round) ==
    [type |-> "Vote", author |-> author, blk_hash |-> blk_hash,
     kind |-> kind, round |-> round]

NewQC(blk_hash, kind, round, fast_quorum) ==
    [blk_hash |-> blk_hash, kind |-> kind, round |-> round,
     fast_quorum |-> fast_quorum]

GenesisQC == NewQC(Genesis, "Commit", 0, FALSE)

NewWQC(blk_hash, round) == [blk_hash |-> blk_hash, round |-> round]

GenesisWQC == NewWQC(Genesis, 0)

NewTimeout(high_vote, high_qc, high_wqc, round, author) ==
    [type |-> "Timeout", high_vote |-> high_vote, high_qc |-> high_qc,
     high_wqc |-> high_wqc, round |-> round, author |-> author]

\* A TC keeps, of each Timeout it was made from, the author and the round of
\* the author's locked QC.
NewTC(high_qc, high_wqc, round, votes) ==
    [high_qc |-> high_qc, high_wqc |-> high_wqc, round |-> round,
     votes |-> votes]

TC_is_well_formed(tc) ==
    /\ \A v \in tc.votes : v.locked <= tc.high_qc.round
    /\ Cardinality(tc.votes) >= quorum_threshold

-----------------------------------------------------------------------------
QCMessage(qc) == [type |-> "QC", qc |-> qc]

TCMessage(tc) == [type |-> "TC", tc |-> tc]

NormalProposal(block, qc) == [type |-> "N", block |-> block, qc |-> qc]

NormalProposal_is_well_formed(p) ==
    /\ p.qc.blk_hash = Parent(p.block)
    /\ p.qc.round = BlockRound(p.block) - 1

FallbackRecoveryProposal(block, tc) == [type |-> "F", block |-> block, tc |-> tc]

\* Mutant: the weak certificate is not looked at.
SafeBlock_by_QC(tc) == tc.high_qc.blk_hash

\* The block a TC allows the next leader to extend.
SafeBlock(tc) ==
    IF tc.high_wqc.round > tc.high_qc.round THEN tc.high_wqc.blk_hash
                                            ELSE tc.high_qc.blk_hash

FallbackRecoveryProposal_is_well_formed(p) ==
    /\ p.tc.round = BlockRound(p.block) - 1
    /\ Parent(p.block) = SafeBlock(p.tc)

Proposal ==
    [type : {"N"}, block : Block, qc : QC] \cup [type : {"F"}, block : Block, tc : TC]

Message ==
    Vote \cup Timeout \cup Proposal \cup [type : {"QC"}, qc : QC] \cup [type : {"TC"}, tc : TC]
=============================================================================
