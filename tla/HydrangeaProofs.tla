-------------------------- MODULE HydrangeaProofs --------------------------
(***************************************************************************)
(* Theorems about the committee of module Hydrangea, for every committee,  *)
(* leader schedule, payload, set of running nodes, set of lost messages    *)
(* and bound on rounds and timers.                                         *)
(*                                                                         *)
(* The inductive invariant says of every node what Sound says of its       *)
(* state; that a step of the committee is a step Leads of one node follows *)
(* from the lemmas of modules CoreProofs and HandlerProofs.                *)
(***************************************************************************)
EXTENDS Hydrangea, HandlerProofs, CommitteeProofs

\* The inductive invariant.
IInv == TypeOK /\ \A n \in Honest : Sound(node[n])

\* The nodes that run are members of the committee.
LEMMA HonestNodes == Honest \subseteq Node
BY CoreAssumption

\* Everything on the network is a message.
LEMMA SentType ==
    ASSUME IInv
    PROVE  Sent \in SUBSET Message
<1>1. ASSUME NEW n \in Honest
      PROVE  node[n].sent \in SUBSET Message
  BY <1>1, Fields DEF IInv, Sound
<1>2. Booted \in SUBSET Message
  <2> SUFFICES ASSUME NEW n \in {Leader[1]} \ Honest, NEW payload \in Payload
               PROVE  NormalProposal(NewBlock(n, Genesis, payload, 1), GenesisQC) \in Message
    BY DEF Booted
  <2>1. n \in Node /\ 1 \in Round \ {0}
    BY CoreAssumption, RoundAssumption DEF Round
  <2>2. PICK b : b = NewBlock(n, Genesis, payload, 1)
    OBVIOUS
  <2>3. b \in Block
    BY <2>1, <2>2, NewBlockType, GenesisTypes
  <2>4. NormalProposal(b, GenesisQC) \in Message
    BY <2>3, GenesisTypes DEF NormalProposal, Message, Proposal
  <2>5. QED
    BY <2>2, <2>4
<1>3. QED
  BY <1>1, <1>2 DEF Sent

\* A message that arrives has the type its reader asks for.
LEMMA ArrivingType ==
    ASSUME IInv, NEW n
    PROVE  /\ Arriving(n, "Vote") \subseteq Vote
           /\ Arriving(n, "Timeout") \subseteq Timeout
           /\ \A m \in Arriving(n, "QC") : m.qc \in QC
           /\ Arriving(n, "N") \cup Arriving(n, "F") \subseteq Proposal
<1>1. ASSUME NEW type, NEW m \in Arriving(n, type)
      PROVE  m \in Message /\ m.type = type
  BY <1>1, SentType DEF Arriving
<1>2. QED
  BY <1>1, MessageTypes DEF Proposal

\* The choices of the environment have a payload.
LEMMA ChoiceTypes ==
    /\ \A e \in Choice : e.payload \in Payload
    /\ \A e \in TimeoutChoice : e.payload \in Payload
BY DEF Choice, TimeoutChoice

\* A node that takes a message or whose timer expires makes a step.
LEMMA InputLeads ==
    ASSUME IInv, NEW n \in Honest, Receive(n) \/ TimerExpires(n)
    PROVE  \E s : Becomes(n, s) /\ Leads(node[n], s)
<1>1. Sound(node[n])
  BY DEF IInv
<1>2. CASE ReceiveVote(n)
  BY <1>1, <1>2, ArrivingType, Leads_handle_vote DEF ReceiveVote
<1>3. CASE ReceiveTimeout(n)
  BY <1>1, <1>3, ArrivingType, ChoiceTypes, Leads_handle_timeout DEF ReceiveTimeout
<1>4. CASE ReceiveQC(n)
  BY <1>1, <1>4, ArrivingType, ChoiceTypes, Leads_handle_qc DEF ReceiveQC
<1>5. CASE ReceiveProposal(n)
  BY <1>1, <1>5, ArrivingType, ChoiceTypes, Leads_handle_proposal DEF ReceiveProposal
<1>6. CASE ReceiveSyncResponse(n)
  <2>1. node[n].sync_requests \in SUBSET Block
    BY <1>1, Fields DEF Sound
  <2>2. QED
    BY <1>1, <1>6, <2>1, Leads_handle_sync_response DEF ReceiveSyncResponse
<1>7. CASE ReceiveLoopback(n)
  <2>1. node[n].loopbacks \in SUBSET (Block \X Block)
    BY <1>1, Fields DEF Sound
  <2>2. \A w \in node[n].loopbacks : w[2] \in Block
    BY <2>1
  <2>3. QED
    BY <1>1, <1>7, <2>2, Leads_handle_synchronizer_loopback DEF ReceiveLoopback
<1>8. CASE TimerExpires(n)
  BY <1>1, <1>8, Leads_local_timeout_round DEF TimerExpires
<1>9. QED
  BY <1>2, <1>3, <1>4, <1>5, <1>6, <1>7, <1>8 DEF Receive

\* The argument of the next call has the type of the handler it is for.
LEMMA ArgType ==
    ASSUME IInv, NEW n \in Honest, node[n].calls # << >>
    PROVE  /\ Calls(n, "handle_qc") \/ Calls(n, "finish_prepare_qc") => Arg(n) \in QC
           /\ Calls(n, "handle_timeout") \/ Calls(n, "add_timeout") => Arg(n) \in Timeout
           /\ Calls(n, "handle_tc") \/ Calls(n, "finish_tc") => Arg(n) \in TC
           /\ Calls(n, "advance_to_round") => Arg(n) \in 1..(MaxRound + 1)
           /\ Calls(n, "finish_proposal") => Arg(n) \in Proposal
<1>1. node[n].calls \in Seq(PendingCall)
  BY Fields DEF IInv, Sound
<1>2. PICK c \in PendingCall : c = Head(node[n].calls)
  BY <1>1
<1>3. /\ c.op \in {"handle_qc", "finish_prepare_qc"} => c.arg \in QC
      /\ c.op \in {"handle_timeout", "add_timeout"} => c.arg \in Timeout
      /\ c.op \in {"handle_tc", "finish_tc"} => c.arg \in TC
      /\ c.op \in {"advance_to_round"} => c.arg \in 1..(MaxRound + 1)
      /\ c.op \in {"finish_proposal"} => c.arg \in Proposal
  BY DEF PendingCall
<1>4. QED
  BY <1>2, <1>3 DEF Calls, Arg

\* A node that makes the next call of its stack makes a step.
LEMMA RunLeads ==
    ASSUME IInv, NEW n \in Honest, Run(n)
    PROVE  \E s : Becomes(n, s) /\ Leads(node[n], s)
<1>1. Sound(node[n]) /\ node[n].calls # << >>
  BY DEF IInv, Run, RunHandleQC, RunFinishPrepareQC, RunHandleTimeout, RunAddTimeout,
         RunHandleTC, RunFinishTC, RunAdvanceToRound, RunFinishProposal, Calls
<1>2. PICK t : t = resume(node[n])
  OBVIOUS
<1>3. Leads(node[n], t)
  BY <1>1, <1>2, Leads_resume
<1>4. Sound(t)
  BY <1>3, LeadsSound
<1>5. SUFFICES \E s : Becomes(n, s) /\ Leads(t, s)
  BY <1>1, <1>3, ThenLeads
<1>6. CASE RunHandleQC(n)
  BY <1>1, <1>2, <1>4, <1>6, ArgType, ChoiceTypes, Leads_handle_qc DEF RunHandleQC
<1>7. CASE RunFinishPrepareQC(n)
  BY <1>1, <1>2, <1>4, <1>7, ArgType, Leads_finish_prepare_qc DEF RunFinishPrepareQC
<1>8. CASE RunHandleTimeout(n)
  BY <1>1, <1>2, <1>4, <1>8, ArgType, ChoiceTypes, Leads_handle_timeout DEF RunHandleTimeout
<1>9. CASE RunAddTimeout(n)
  BY <1>1, <1>2, <1>4, <1>9, ArgType, ChoiceTypes, Leads_add_timeout DEF RunAddTimeout
<1>10. CASE RunHandleTC(n)
  BY <1>1, <1>2, <1>4, <1>10, ArgType, ChoiceTypes, Leads_handle_tc DEF RunHandleTC
<1>11. CASE RunFinishTC(n)
  BY <1>1, <1>2, <1>4, <1>11, ArgType, ChoiceTypes, Leads_finish_tc DEF RunFinishTC
<1>12. CASE RunAdvanceToRound(n)
  BY <1>1, <1>2, <1>4, <1>12, ArgType, Leads_advance_to_round DEF RunAdvanceToRound
<1>13. CASE RunFinishProposal(n)
  BY <1>1, <1>2, <1>4, <1>13, ArgType, Leads_finish_proposal DEF RunFinishProposal
<1>14. QED
  BY <1>6, <1>7, <1>8, <1>9, <1>10, <1>11, <1>12, <1>13 DEF Run

\* A step of the committee is a step of one node, and the others stay.
LEMMA NextLeads ==
    ASSUME IInv, [Next]_vars
    PROVE  node' \in [Honest -> State] /\ \A n \in Honest : Leads(node[n], node'[n])
<1>1. node \in [Honest -> State] /\ \A n \in Honest : Sound(node[n])
  BY DEF IInv, TypeOK
<1>2. CASE Next
  <2>1. PICK n \in Honest : Receive(n) \/ TimerExpires(n) \/ Run(n)
    BY <1>2 DEF Next
  <2>2. PICK s : Becomes(n, s) /\ Leads(node[n], s)
    BY <2>1, InputLeads, RunLeads
  <2>3. s \in State
    BY <2>2, LeadsSound
  <2>4. node' = [node EXCEPT ![n] = s]
    BY <2>2 DEF Becomes
  <2>5. node' \in [Honest -> State]
    BY <1>1, <2>3, <2>4
  <2>6. ASSUME NEW m \in Honest
        PROVE  Leads(node[m], node'[m])
    <3>1. CASE m = n
      BY <1>1, <2>2, <2>4, <3>1
    <3>2. CASE m # n
      BY <1>1, <2>4, <3>2, StayLeads
    <3>3. QED
      BY <3>1, <3>2
  <2>7. QED
    BY <2>5, <2>6
<1>3. CASE UNCHANGED vars
  BY <1>1, <1>3, StayLeads DEF vars
<1>4. QED
  BY <1>2, <1>3

\* IInv is an invariant.
LEMMA Inductive == Spec => []IInv
<1>1. Init => IInv
  <2> SUFFICES ASSUME Init
               PROVE  IInv
    OBVIOUS
  <2>1. PICK e \in Choice :
            node = [n \in Honest |-> propose_normal(InitialState(n), GenesisQC, e)]
    BY DEF Init
  <2>2. ASSUME NEW n \in Honest
        PROVE  Sound(propose_normal(InitialState(n), GenesisQC, e))
    <3>1. Sound(InitialState(n))
      BY HonestNodes, InitialStateSound
    <3>2. Leads(InitialState(n), propose_normal(InitialState(n), GenesisQC, e))
      BY <3>1, GenesisTypes, ChoiceTypes, Leads_propose_normal
    <3>3. QED
      BY <3>2, LeadsSound
  <2>3. \A n \in Honest : Sound(node[n])
    BY <2>1, <2>2
  <2>4. node \in [Honest -> State]
    BY <2>1, <2>2 DEF Sound
  <2>5. QED
    BY <2>3, <2>4 DEF IInv, TypeOK
<1>2. IInv /\ [Next]_vars => IInv'
  <2> SUFFICES ASSUME IInv, [Next]_vars
               PROVE  IInv'
    OBVIOUS
  <2>1. node' \in [Honest -> State] /\ \A n \in Honest : Leads(node[n], node'[n])
    BY NextLeads
  <2>2. \A n \in Honest : Sound(node'[n])
    BY <2>1, LeadsSound
  <2>3. QED
    BY <2>1, <2>2 DEF IInv, TypeOK
<1>3. QED
  BY <1>1, <1>2, PTL DEF Spec

\* The fields of every node keep their types: no handler reaches a round
\* outside the model, sends something malformed or makes up a block.
THEOREM TypeCorrect == Spec => []TypeOK
<1>1. IInv => TypeOK
  BY DEF IInv
<1>2. QED
  BY <1>1, Inductive, PTL

\* A node never votes in a round once it has sent a Timeout for it or for a
\* later round: can_vote and handle_prepare_qc compare with last_timeout, and
\* last_timeout covers every Timeout that send_timeout has broadcast.
THEOREM VotesStopAtTimeout == Spec => NoVoteAfterTimeout
<1> DEFINE A == \A n \in Honest : \A v \in node'[n].sent \ node[n].sent :
                    v.type = "Vote" =>
                        \A t \in node[n].sent : t.type = "Timeout" => t.round < v.round
<1>1. IInv /\ [Next]_vars => [A]_vars
  <2> SUFFICES ASSUME IInv, [Next]_vars, NEW n \in Honest,
                      NEW v \in node'[n].sent \ node[n].sent, v.type = "Vote",
                      NEW t \in node[n].sent, t.type = "Timeout"
               PROVE  t.round < v.round
    OBVIOUS
  <2>1. Leads(node[n], node'[n]) /\ Sound(node[n]) /\ Sound(node'[n])
    BY NextLeads, LeadsSound DEF IInv
  <2>2. node[n].last_timeout < v.round
    BY <2>1 DEF Leads
  <2>3. t.round <= node[n].last_timeout
    BY <2>1 DEF Sound
  <2>4. v \in Message /\ t \in Message /\ node[n].last_timeout \in Int
    BY <2>1, Fields, RoundTypes DEF Sound
  <2>5. v.round \in Int /\ t.round \in Int
    BY <2>4, MessageTypes, RoundAssumption DEF Vote, Timeout, Round
  <2>6. QED
    BY <2>2, <2>3, <2>4, <2>5
<1>2. QED
  BY <1>1, Inductive, PTL DEF Spec, NoVoteAfterTimeout

\* The round of a node and what it reports in its Timeouts never fall back.
THEOREM Monotone == Spec => NeverGoesBack
<1> DEFINE A == \A n \in Honest :
                    /\ node[n].round <= node'[n].round
                    /\ node[n].last_timeout <= node'[n].last_timeout
                    /\ node[n].last_vote.round <= node'[n].last_vote.round
                    /\ node[n].locked.round <= node'[n].locked.round
                    /\ node[n].high_wqc.round <= node'[n].high_wqc.round
<1>1. IInv /\ [Next]_vars => [A]_vars
  <2> SUFFICES ASSUME IInv, [Next]_vars, NEW n \in Honest
               PROVE  /\ node[n].round <= node'[n].round
                      /\ node[n].last_timeout <= node'[n].last_timeout
                      /\ node[n].last_vote.round <= node'[n].last_vote.round
                      /\ node[n].locked.round <= node'[n].locked.round
                      /\ node[n].high_wqc.round <= node'[n].high_wqc.round
    OBVIOUS
  <2>1. Leads(node[n], node'[n])
    BY NextLeads
  <2>2. QED
    BY <2>1 DEF Leads
<1>2. QED
  BY <1>1, Inductive, PTL DEF Spec, NeverGoesBack

\* A node sends one Normal vote and one Commit vote in a round.  try_vote runs
\* again for every block and every round entered, and send_vote remembers only
\* the last vote; what keeps it from a second one is stated by Ballot.
THEOREM VotesAreUnique == Spec => []OneVotePerRound
<1>1. IInv => OneVotePerRound
  <2> SUFFICES ASSUME IInv, NEW n \in Honest
               PROVE  VotesOnce(node[n])
    BY DEF OneVotePerRound, VotesOnce
  <2>1. QED
    BY DEF IInv, Sound, Ballot
<1>2. QED
  BY <1>1, Inductive, PTL

\* Every vote is for a round after the one of the Genesis block.
VotesPositive == \A n \in Honest : \A v \in node[n].sent : v.type = "Vote" => v.round # 0

\* VotesPositive is an invariant.
LEMMA NoGenesisVote == Spec => []VotesPositive
<1>1. ASSUME NEW s, NEW t, s \in State, Leads(s, t),
             \A v \in s.sent : v.type = "Vote" => v.round # 0
      PROVE  \A v \in t.sent : v.type = "Vote" => v.round # 0
  <2> SUFFICES ASSUME NEW v \in t.sent \ s.sent, v.type = "Vote"
               PROVE  v.round # 0
    BY <1>1
  <2>1. s.last_timeout < v.round /\ s.last_timeout \in Nat
    BY <1>1, Fields, RoundAssumption DEF Leads, Round
  <2>2. QED
    BY <2>1
<1>2. Init => VotesPositive
  <2> SUFFICES ASSUME Init, NEW n \in Honest
               PROVE  \A v \in node[n].sent : v.type = "Vote" => v.round # 0
    BY DEF VotesPositive
  <2>1. PICK e \in Choice :
            node = [k \in Honest |-> propose_normal(InitialState(k), GenesisQC, e)]
    BY DEF Init
  <2>2. InitialState(n) \in State /\ Sound(InitialState(n)) /\ InitialState(n).sent = {}
    BY HonestNodes, InitialStateSound DEF Sound, InitialState
  <2>3. Leads(InitialState(n), node[n])
    BY <2>1, <2>2, GenesisTypes, ChoiceTypes, Leads_propose_normal
  <2>4. QED
    BY <1>1, <2>2, <2>3
<1>3. IInv /\ VotesPositive /\ [Next]_vars => VotesPositive'
  <2> SUFFICES ASSUME IInv, VotesPositive, [Next]_vars, NEW n \in Honest
               PROVE  \A v \in node'[n].sent : v.type = "Vote" => v.round # 0
    BY DEF VotesPositive
  <2>1. Leads(node[n], node'[n]) /\ node[n] \in State
    BY NextLeads DEF IInv, Sound
  <2>2. QED
    BY <1>1, <2>1 DEF VotesPositive
<1>4. QED
  BY <1>2, <1>3, Inductive, PTL DEF Spec

\* Two prepare QCs for one round, whichever nodes have them, are for one block, in every
\* committee in which a QC stands for a quorum of votes: the quorums share a node,
\* and VotesAreUnique says that this node voted for one block.
THEOREM CertificatesAgree == Spec => [](CertificatesBacked => OneCertificatePerRound)
<1>1. IInv /\ VotesPositive => (CertificatesBacked => OneCertificatePerRound)
  <2> SUFFICES ASSUME IInv, VotesPositive, CertificatesBacked,
                      NEW m \in Honest, NEW n \in Honest,
                      NEW x \in PrepareQCs(m), NEW y \in PrepareQCs(n),
                      x.round = y.round
               PROVE  x.blk_hash = y.blk_hash
    BY DEF OneCertificatePerRound
  <2> DEFINE voters(qc) == Voters("Normal", qc.blk_hash, qc.round)
  <2>1. /\ x = GenesisQC \/ Cardinality(voters(x)) >= quorum_threshold
        /\ y = GenesisQC \/ Cardinality(voters(y)) >= quorum_threshold
    BY DEF CertificatesBacked
  <2>2. voters(x) \in SUBSET Node /\ voters(y) \in SUBSET Node
    BY HonestNodes DEF Voters
  <2>3. /\ F \in Nat /\ quorum_threshold \in Int /\ quorum_threshold > 0
        /\ Cardinality(voters(x)) \in Nat /\ Cardinality(voters(y)) \in Nat
        /\ Cardinality(voters(x) \cap voters(y)) \in Nat
        /\ IsFiniteSet(voters(x)) /\ IsFiniteSet(voters(y))
        /\ IsFiniteSet(voters(x) \cap voters(y))
    <3>1. N \in Nat /\ F \in Nat /\ quorum_threshold \in Int
      BY ThresholdTypes, CommitteeAssumption
    <3>2. quorum_threshold > 0
      BY <3>1 DEF quorum_threshold
    <3>3. QED
      BY <2>2, <3>1, <3>2, Overlap
  <2>4. ASSUME NEW qc, qc.round = 0, voters(qc) # {}
        PROVE  FALSE
    <3>1. PICK k \in Honest : NewVote(k, qc.blk_hash, "Normal", qc.round) \in node[k].sent
      BY <2>4 DEF Voters
    <3>2. QED
      BY <2>4, <3>1 DEF VotesPositive, NewVote
  <2>5. GenesisQC.round = 0
    BY DEF GenesisQC, NewQC
  <2>6. \A S : Cardinality(S) \in Nat /\ Cardinality(S) > 0 => S # {}
    BY FS_EmptySet
  <2> HIDE DEF voters
  <2>7. CASE x = GenesisQC \/ y = GenesisQC
    <3>1. voters(x) = {} /\ voters(y) = {}
      BY <2>4, <2>5, <2>7
    <3>2. QED
      BY <2>1, <2>3, <2>6, <2>7, <3>1
  <2>8. CASE x # GenesisQC /\ y # GenesisQC
    <3>1. Cardinality(voters(x) \cap voters(y)) >= F + 1
      BY <2>1, <2>2, <2>8, QuorumsIntersect
    <3>2. PICK k : k \in voters(x) \cap voters(y)
      BY <2>3, <2>6, <3>1
    <3>3. /\ k \in Honest
          /\ NewVote(k, x.blk_hash, "Normal", x.round) \in node[k].sent
          /\ NewVote(k, y.blk_hash, "Normal", x.round) \in node[k].sent
      BY <3>2 DEF voters, Voters
    <3>4. VotesOnce(node[k])
      BY <3>3 DEF IInv, Sound, Ballot
    <3>5. QED
      BY <3>3, <3>4 DEF VotesOnce, NewVote
  <2>9. QED
    BY <2>7, <2>8
<1>2. QED
  BY <1>1, Inductive, NoGenesisVote, PTL
=============================================================================
