---------------------------- MODULE Synchronizer ----------------------------
(***************************************************************************)
(* How one node fetches the blocks it missed: its consensus engine (module *)
(* Core), its Synchronizer (hydrangea/src/synchronizer.rs), its Store      *)
(* (store/src/lib.rs) and the Helpers of its peers (hydrangea/src/         *)
(* helper.rs).                                                             *)
(*                                                                         *)
(* The rest of the committee is given by its outcome: a chain of certified *)
(* blocks, some of them with a commit certificate.  Proposals and          *)
(* certificates reach the node in any order, or not at all.                *)
(*                                                                         *)
(* Core hands a request to the task of the Synchronizer over inner_channel *)
(* and goes on; the task hands the block to resume from back over another  *)
(* channel, and the Core may have moved on before it takes it.             *)
(***************************************************************************)
EXTENDS Core

CONSTANTS
    Me,         \* the node
    Top,        \* the highest certified block: its ancestors are the others
    Final,      \* the certified blocks with a commit certificate
    Disk        \* Disk[p]: the blocks the Helper of peer p finds in its store,
                \* none if p has failed

Peer == Node \ {Me}

Certified == {Ancestor(Top, i) : i \in 1..Len(Top)}

\* A certified block is on the disk of a peer: the nodes that voted for it
\* had stored it (Core::store_block comes before Core::try_vote).
ASSUME SynchronizerAssumption ==
    /\ Me \in Honest
    /\ Top \in Block /\ Top # Genesis
    /\ \A i \in 1..Len(Top) : Top[i].round = i /\ Top[i].author = Leader[i]
    /\ Final \subseteq Certified
    /\ Disk \in [Peer -> SUBSET Certified]
    /\ UNION {Disk[p] : p \in Peer} = Certified

VARIABLES
    core,       \* the consensus engine; its loopbacks are those of one handler
    inner,      \* inner_channel: the requests the task has not taken yet
    requests,   \* the blocks the task asks for
    loopbacks,  \* loopbacks[b] is the block to resume from when b is on disk
    waiting,    \* the blocks with a waiter
    rx_sync,    \* the blocks handed back that Core has not taken yet
    answers     \* the SyncResponses on their way to Core

vars == <<core, inner, requests, loopbacks, waiting, rx_sync, answers>>

\* All but Core and what it sends.
channels == <<requests, loopbacks, waiting, rx_sync, answers>>

SyncRequest == [to_sync : Certified, server : Node, resume_from : Certified \cup {Genesis}]

Init ==
    /\ core = InitialState(Me)
    /\ inner = << >>
    /\ requests = {}
    /\ loopbacks = << >>
    /\ waiting = {}
    /\ rx_sync = << >>
    /\ answers = {}

-----------------------------------------------------------------------------
(***************************************************************************)
(* Core.  What a handler sends to the task follows from the state it makes *)
(* of a state without loopbacks.                                           *)
(***************************************************************************)
\* First get_block asks for the block of a certificate that is new, then
\* have_all_ancestors for the ancestor that is missing, perhaps the same block.
SentToTask(s) ==
    LET new == {qc.blk_hash : qc \in s.uncommitted_qcs \ core.uncommitted_qcs}
        asked == new \ (core.uncommitted_blocks \cup core.store)
    IN  SetToSeq({ [to_sync |-> b, server |-> Leader[BlockRound(b)],
                    resume_from |-> Genesis] : b \in asked }) \o
        SetToSeq({ [to_sync |-> w[1], server |-> w[2][Len(w[1]) + 1].author,
                    resume_from |-> w[2]] : w \in s.loopbacks })

\* Core runs a handler that makes s of its state.  What it sends to the other
\* nodes is of no account here.
CoreBecomes(s) ==
    /\ ~core.panicked
    /\ core' = [s EXCEPT !.loopbacks = {}, !.sent = {}]
    /\ inner' = inner \o SentToTask(s)

\* The same for a message that the network may bring at any time; one that Core
\* ignores changes nothing at all.
CoreReceives(s) == CoreBecomes(s) /\ <<core, inner>>' # <<core, inner>>

ReceivePrepareQC(b) ==
    /\ \E e \in Choice :
          CoreReceives(handle_qc(core, NewQC(b, "Normal", BlockRound(b), FALSE), e))
    /\ UNCHANGED <<requests, loopbacks, waiting, rx_sync, answers>>

ReceiveCommitQC(b) ==
    /\ b \in Final
    /\ \E e \in Choice :
          CoreReceives(handle_qc(core, NewQC(b, "Commit", BlockRound(b), FALSE), e))
    /\ UNCHANGED <<requests, loopbacks, waiting, rx_sync, answers>>

\* The proposal of b, with the certificate of the parent of b.
ReceiveProposal(b) ==
    LET parent == Parent(b)
        qc == IF parent = Genesis
              THEN GenesisQC ELSE NewQC(parent, "Normal", BlockRound(parent), FALSE)
    IN  /\ \E e \in Choice : CoreReceives(handle_proposal(core, NormalProposal(b, qc), e))
        /\ UNCHANGED <<requests, loopbacks, waiting, rx_sync, answers>>

\* rx_synchronizer.
TakeLoopback ==
    /\ rx_sync # << >> /\ ~core.panicked
    /\ rx_sync' = Tail(rx_sync)
    /\ UNCHANGED <<requests, loopbacks, waiting, answers>>

ReceiveLoopback ==
    TakeLoopback /\ CoreBecomes(handle_synchronizer_loopback(core, Head(rx_sync)))

\* rx_consensus.
TakeAnswer(b) ==
    /\ b \in answers /\ ~core.panicked
    /\ answers' = answers \ {b}
    /\ UNCHANGED <<requests, loopbacks, waiting, rx_sync>>

ReceiveSyncResponse(b) == TakeAnswer(b) /\ CoreBecomes(handle_sync_response(core, b))

-----------------------------------------------------------------------------
(***************************************************************************)
(* The task of the Synchronizer.                                           *)
(***************************************************************************)
\* The requests that arrive, each of a peer p for a block b, and what the Helpers
\* answer to them.  A request or an answer that is lost is one not sent here.
Send(pairs) ==
    answers' = answers \cup {w[2] : w \in {x \in pairs : x[2] \in Disk[x[1]]}}

PutLoopback(b, resume_from) ==
    [x \in DOMAIN loopbacks \cup {b} |-> IF x = b THEN resume_from ELSE loopbacks[x]]

\* Mutant: there is a request already, so there is nothing to do.
RequestAgain_ignored ==
    /\ inner # << >>
    /\ Head(inner).to_sync \in requests
    /\ inner' = Tail(inner)
    /\ UNCHANGED <<core, requests, loopbacks, waiting, rx_sync, answers>>

\* Already made a SyncRequest for this block: keep the higher block to resume
\* from.
RequestAgain ==
    /\ inner # << >>
    /\ LET to_sync == Head(inner).to_sync
           resume_from == Head(inner).resume_from
       IN  /\ to_sync \in requests
           /\ loopbacks' =
                 IF \/ resume_from = Genesis
                    \/ /\ to_sync \in DOMAIN loopbacks
                       /\ BlockRound(resume_from) <= BlockRound(loopbacks[to_sync])
                 THEN loopbacks
                 ELSE PutLoopback(to_sync, resume_from)
    /\ inner' = Tail(inner)
    /\ UNCHANGED <<core, requests, waiting, rx_sync, answers>>

\* Mutant: one request at a time.
NewRequest_only ==
    /\ inner # << >>
    /\ LET to_sync == Head(inner).to_sync
           resume_from == Head(inner).resume_from
       IN  /\ to_sync \notin requests
           /\ requests' = {to_sync}
           /\ loopbacks' = IF resume_from = Genesis THEN loopbacks
                                                    ELSE PutLoopback(to_sync, resume_from)
           /\ waiting' = waiting \cup {to_sync}
    /\ inner' = Tail(inner)
    /\ UNCHANGED <<core, rx_sync, answers>>

\* Mutant: a block to resume from is kept even if there is none.
NewRequest_resuming ==
    /\ inner # << >>
    /\ LET to_sync == Head(inner).to_sync
       IN  /\ to_sync \notin requests
           /\ requests' = requests \cup {to_sync}
           /\ loopbacks' = PutLoopback(to_sync, Head(inner).resume_from)
           /\ waiting' = waiting \cup {to_sync}
    /\ inner' = Tail(inner)
    /\ UNCHANGED <<core, rx_sync, answers>>

\* New SyncRequest.  The block to resume from was received, so it is not asked
\* for any more.
NewRequest ==
    /\ inner # << >>
    /\ LET to_sync == Head(inner).to_sync
           resume_from == Head(inner).resume_from
       IN  /\ to_sync \notin requests
           /\ requests' = (requests \ {resume_from}) \cup {to_sync}
           /\ loopbacks' = IF resume_from = Genesis THEN loopbacks
                                                    ELSE PutLoopback(to_sync, resume_from)
           /\ waiting' = waiting \cup {to_sync}
           /\ \/ UNCHANGED answers
              \/ Send({<<Head(inner).server, to_sync>>})
    /\ inner' = Tail(inner)
    /\ UNCHANGED <<core, rx_sync>>

\* Store answers a NotifyRead at once if the block is there, or else when it is
\* written.
Notified(b) == b \in core.store

\* The waiter of b returns.
BlockOnDisk(b) ==
    /\ b \in waiting /\ Notified(b)
    /\ waiting' = waiting \ {b}
    /\ requests' = requests \ {b}
    /\ IF b \in DOMAIN loopbacks
       THEN /\ rx_sync' = Append(rx_sync, loopbacks[b])
            /\ loopbacks' = [x \in DOMAIN loopbacks \ {b} |-> loopbacks[x]]
       ELSE UNCHANGED <<rx_sync, loopbacks>>
    /\ UNCHANGED <<core, inner, answers>>

\* Mutant: the request goes to the leader of the block again.
Retry_leader(b) ==
    /\ b \in requests
    /\ Send({<<Leader[BlockRound(b)], b>>})
    /\ UNCHANGED <<core, inner, requests, loopbacks, waiting, rx_sync>>

\* The timer: the requests that are old enough go to every peer, and the one
\* for b gets through.
Retry(b) ==
    /\ b \in requests
    /\ Send(Peer \X {b})
    /\ UNCHANGED <<core, inner, requests, loopbacks, waiting, rx_sync>>

\* The task takes what Core has for it, or a waiter returns.
TaskStep == RequestAgain \/ NewRequest \/ \E b \in Certified : BlockOnDisk(b)

Next ==
    \/ \E b \in Certified :
          \/ ReceivePrepareQC(b)
          \/ ReceiveCommitQC(b)
          \/ ReceiveProposal(b)
          \/ ReceiveSyncResponse(b)
    \/ ReceiveLoopback
    \/ TaskStep
    \/ \E b \in requests : Retry(b)

\* The tasks of the node are scheduled and its timer fires again and again; of
\* the requests and answers for a block that are sent over and over, one pair
\* arrives.  Nothing is assumed of proposals and certificates.
Fairness ==
    /\ WF_channels(TakeLoopback \/ \E b \in Certified : TakeAnswer(b))
    /\ WF_vars(TaskStep)
    /\ \A b \in Certified : WF_vars(Retry(b))

Spec == Init /\ [][Next]_vars /\ Fairness

-----------------------------------------------------------------------------
(***************************************************************************)
(* Properties.                                                             *)
(***************************************************************************)
TypeOK ==
    /\ core \in State /\ core.loopbacks = {} /\ core.sent = {} /\ core.calls = << >>
    /\ inner \in Seq(SyncRequest)
    /\ requests \subseteq Certified
    /\ DOMAIN loopbacks \subseteq Certified /\ \A b \in DOMAIN loopbacks : loopbacks[b] \in Final
    /\ waiting \subseteq Certified
    /\ rx_sync \in Seq(Final)
    /\ answers \subseteq Certified

\* No assertion of Core fails, in whatever order proposals, certificates, answers
\* and loopbacks arrive: in particular not the assertions of get_block (a block
\* that is certified only now is not on disk), of try_commit_or_sync_ancestor (a
\* block handed back late is not older than the last commit) and of commit.
NoPanic == ~core.panicked

\* What Core wants is asked for.  A block in sync_requests that Core still needs
\* is in a request the task has taken or has yet to take; the task removes the
\* request of a block it is told to resume from, so this fails if Core ever
\* names a block it does not hold.  And a block that something waits for is
\* asked for until it is on disk.
AskedForWhileWanted ==
    /\ \A b \in core.sync_requests :
          \/ BlockRound(b) <= CommitRound(core)
          \/ b \in requests
          \/ \E i \in DOMAIN inner : inner[i].to_sync = b
    /\ \A b \in DOMAIN loopbacks : b \in waiting /\ (b \in requests \/ b \in core.store)

\* A block that can be committed as soon as its ancestors are there is not
\* forgotten: it, or a higher one, is on its way to the task, kept by the task
\* for when the missing ancestor is on disk, or on its way back to Core.  Core
\* itself keeps no note of what to try again.
NothingForgotten ==
    \A b \in core.committable_blocks \cap core.uncommitted_blocks :
        \E c \in Final :
            /\ BlockRound(c) >= BlockRound(b)
            /\ \/ \E i \in DOMAIN inner : inner[i].resume_from = c
               \/ \E a \in DOMAIN loopbacks : loopbacks[a] = c
               \/ \E i \in DOMAIN rx_sync : rx_sync[i] = c

\* No block with a commit certificate that Core holds or has asked for waits for
\* ever to be committed, even if every first request and any number of later
\* messages are lost and the peer asked first does not have the block.  (commit
\* takes the blocks that it passes out of committable_blocks.)
CommitEventually ==
    []<>(core.committable_blocks \cap (core.uncommitted_blocks \cup core.sync_requests) = {})
=============================================================================
