------------------------------- MODULE Worker -------------------------------
(***************************************************************************)
(* The workers of crate worker: they make batches of the transactions of   *)
(* their clients, give a batch to the workers of other authorities before  *)
(* they report its digest to their primary, and fetch the batches that     *)
(* their primary misses.                                                   *)
(*                                                                         *)
(* A task takes one input at a time and is an action here.  A channel is   *)
(* the set of what is in it, except for the one to the QuorumWaiter, which *)
(* waits for its batches one by one.  A digest is collision free, so that  *)
(* a batch stands for its own, and a batch is the set of its transactions. *)
(***************************************************************************)
EXTENDS Committee, SequencesExt

CONSTANTS
    Txn,                \* the transactions
    Client,             \* Client[t]: the authority to whose worker t is sent
    Behind,             \* bound: the authorities whose primaries ask for batches
    batch_size,         \* how many transactions fill a batch
    gc_depth,           \* how many rounds a request is kept
    sync_retry_nodes,   \* how many workers a request is repeated to
    MaxCleanup          \* bound: the last round of which a primary tells its worker

ASSUME WorkerAssumption ==
    /\ Client \in [Txn -> Node]
    /\ Behind \subseteq Node
    /\ {batch_size, sync_retry_nodes} \subseteq Nat \ {0}
    /\ {gc_depth, MaxCleanup} \subseteq Nat

VARIABLES
    submitted,      \* the transactions that reached a worker
    current_batch,  \* current_batch[n]: the batch that the BatchMaker fills
    tx_message,     \* to the QuorumWaiter: the batches whose ACKs it waits for
    acked,          \* acked[n]: the <<batch, worker>> acknowledged to n
    tx_batch,       \* from the QuorumWaiter to the Processor of the own batches
    tx_processor,   \* to the Processor of the batches of others
    store,          \* the batches on disk
    tx_primary,     \* the digests of own batches on their way to the PrimaryConnector
    primary,        \* the digests of own batches sent to the primary
    round,          \* the round of the primary that the Synchronizer knows
    pending,        \* pending[n]: the <<digest, round>> that the Synchronizer asks for
    waiting,        \* waiting[n]: its <<digest, cancelled>> waiters
    tx_helper,      \* tx_helper[n]: the <<digest, origin>> asked of n
    failed          \* the workers that failed

making == <<submitted, current_batch, tx_message, acked, tx_batch>>
syncing == <<round, pending, waiting, tx_helper>>
vars == <<making, tx_processor, store, tx_primary, primary, syncing, failed>>

Batch == (SUBSET Txn) \ {{}}

Everywhere(value) == [n \in Node |-> value]

Init ==
    /\ submitted = {}
    /\ current_batch = Everywhere({})
    /\ tx_message = Everywhere(<< >>)
    /\ acked = Everywhere({})
    /\ tx_batch = Everywhere({})
    /\ tx_processor = Everywhere({})
    /\ store = Everywhere({})
    /\ tx_primary = Everywhere({})
    /\ primary = Everywhere({})
    /\ round = Everywhere(0)
    /\ pending = Everywhere({})
    /\ waiting = Everywhere({})
    /\ tx_helper = Everywhere({})
    /\ failed = {}

Put(f, n, x) == [f EXCEPT ![n] = @ \cup {x}]

Take(f, n, x) == [f EXCEPT ![n] = @ \ {x}]

-----------------------------------------------------------------------------
(***************************************************************************)
(* Batches of the own clients.                                             *)
(***************************************************************************)

\* Mutant: the batch is not drained.
seal_undrained(n, batch) ==
    /\ current_batch' = [current_batch EXCEPT ![n] = batch]
    /\ tx_message' = [tx_message EXCEPT ![n] = Append(@, batch)]

\* BatchMaker::seal, of a batch.  The ReliableSender starts to send it.
seal(n, batch) ==
    /\ current_batch' = [current_batch EXCEPT ![n] = {}]
    /\ tx_message' = [tx_message EXCEPT ![n] = Append(@, batch)]

\* The transaction t reaches the BatchMaker through TxReceiverHandler.
ReceiveTransaction(t) ==
    LET n == Client[t]
        batch == current_batch[n] \cup {t}
    IN  /\ t \notin submitted
        /\ submitted' = submitted \cup {t}
        /\ IF Cardinality(batch) >= batch_size
           THEN seal(n, batch)
           ELSE /\ current_batch' = [current_batch EXCEPT ![n] = batch]
                /\ UNCHANGED tx_message
        /\ UNCHANGED <<acked, tx_batch, tx_processor, store, tx_primary, primary, syncing, failed>>

\* Mutant: the timer waits for a full batch.
Sealable_full(n) == Cardinality(current_batch[n]) >= batch_size

\* The timer seals what there is.
Sealable(n) == current_batch[n] # {}

\* max_batch_delay has passed.
SealTimer(n) ==
    /\ Sealable(n)
    /\ seal(n, current_batch[n])
    /\ UNCHANGED <<submitted, acked, tx_batch, tx_processor, store, tx_primary, primary,
                   syncing, failed>>

\* A batch reaches the WorkerReceiverHandler of m.  (To store it again would change
\* nothing.)
Arrived(b, m) ==
    IF b \in store[m] \/ m \in failed THEN tx_processor ELSE Put(tx_processor, m, b)

\* The ReliableSender of n hands the next batch to worker m, whose WorkerReceiverHandler
\* sends an ACK first.  A lost ACK makes the sender send again, until the handler
\* is dropped.
Deliver(n, m, ack) ==
    /\ m # n
    /\ \E i \in DOMAIN tx_message[n] :
          LET b == tx_message[n][i]
          IN  /\ \A j \in 1..i : <<tx_message[n][j], m>> \in acked[n] <=> j < i
              /\ tx_processor' = Arrived(b, m)
              /\ acked' = IF ack THEN Put(acked, n, <<b, m>>) ELSE acked
    /\ UNCHANGED <<submitted, current_batch, tx_message, tx_batch, store, tx_primary, primary,
                   syncing, failed>>

\* Mutant: one correct worker is enough.
QuorumReached_validity(acks) == 1 + acks >= validity_threshold

\* total_stake >= quorum_threshold, looked at after each ACK.
QuorumReached(acks) == acks > 0 /\ 1 + acks >= quorum_threshold

\* QuorumWaiter::run.  The handlers of the other workers are dropped.
QuorumWaiter(n) ==
    /\ tx_message[n] # << >>
    /\ LET b == Head(tx_message[n])
           acks == {m \in Node : <<b, m>> \in acked[n]}
       IN  /\ QuorumReached(Cardinality(acks))
           /\ tx_batch' = Put(tx_batch, n, b)
           /\ acked' = [acked EXCEPT ![n] = @ \ ({b} \X acks)]
           /\ tx_message' = [tx_message EXCEPT ![n] = Tail(@)]
    /\ UNCHANGED <<submitted, current_batch, tx_processor, store, tx_primary, primary, syncing,
                   failed>>

\* The Processor of the own batches, and the one of the batches of others, whose
\* digests the primary takes note of and does not use.  A batch counts as stored
\* when the store has the command to write it: reads come after it, and what a
\* worker that fails has not yet written no one reads.
ProcessOwn(n) ==
    /\ \E b \in tx_batch[n] :
          /\ tx_batch' = Take(tx_batch, n, b)
          /\ store' = Put(store, n, b)
          /\ tx_primary' = Put(tx_primary, n, b)
    /\ UNCHANGED <<submitted, current_batch, tx_message, acked, tx_processor, primary, syncing,
                   failed>>

ProcessOthers(n) ==
    /\ \E b \in tx_processor[n] :
          /\ tx_processor' = Take(tx_processor, n, b)
          /\ store' = Put(store, n, b)
    /\ UNCHANGED <<making, tx_primary, primary, syncing, failed>>

\* PrimaryConnector::run gives the digest to a SimpleSender.
PrimaryConnector(n) ==
    /\ \E d \in tx_primary[n] :
          /\ tx_primary' = Take(tx_primary, n, d)
          /\ primary' = Put(primary, n, d)
    /\ UNCHANGED <<making, tx_processor, store, syncing, failed>>

-----------------------------------------------------------------------------
(***************************************************************************)
(* Batches that the primary misses.                                        *)
(***************************************************************************)

IsPending(n, b) == \E p \in pending[n] : p[1] = b

\* n sends a BatchRequest to the workers in targets.  What a SimpleSender sends may
\* be lost: here it is the answer.
Ask(n, digests, targets) ==
    tx_helper' = [m \in Node |-> IF m \in targets \ failed
                                 THEN tx_helper[m] \cup (digests \X {n}) ELSE tx_helper[m]]

\* PrimaryWorkerMessage::Synchronize: the primary of n saw a header of target with
\* these digests.
Synchronize(n, target) ==
    /\ n \in Behind \ {target}
    /\ \E digests \in (SUBSET primary[target]) \ {{}} :
          LET new == {b \in digests : ~IsPending(n, b)}
          IN  /\ pending' = [pending EXCEPT ![n] = @ \cup {<<b, round[n]>> : b \in new}]
              /\ waiting' = [waiting EXCEPT ![n] = @ \cup {<<b, FALSE>> : b \in new}]
              /\ Ask(n, new \ store[n], {target})
    /\ UNCHANGED <<making, tx_processor, store, tx_primary, primary, round, failed>>

\* The waiters of these digests see their channel closed or a message in it.
Cancel(ws, digests) == {IF w[1] \in digests THEN <<w[1], TRUE>> ELSE w : w \in ws}

\* Mutant: the requests stay in the table.
Cleanup_kept(n) ==
    /\ n \in Behind /\ round[n] < MaxCleanup
    /\ round' = [round EXCEPT ![n] = @ + 1]
    /\ LET old == {p \in pending[n] : p[2] + gc_depth <= round'[n]}
       IN  waiting' = [waiting EXCEPT ![n] = Cancel(@, {p[1] : p \in old})]
    /\ UNCHANGED <<making, tx_processor, store, tx_primary, primary, pending, tx_helper, failed>>

\* PrimaryWorkerMessage::Cleanup.
Cleanup(n) ==
    /\ n \in Behind /\ round[n] < MaxCleanup
    /\ round' = [round EXCEPT ![n] = @ + 1]
    /\ LET old == {p \in pending[n] : p[2] + gc_depth <= round'[n]}
       IN  /\ waiting' = [waiting EXCEPT ![n] = Cancel(@, {p[1] : p \in old})]
           /\ pending' = [pending EXCEPT ![n] = @ \ old]
    /\ UNCHANGED <<making, tx_processor, store, tx_primary, primary, tx_helper, failed>>

\* A waiter ends: its batch is on disk, or it was cancelled.  If it is both, it may
\* have seen either.
Waiter(n) ==
    /\ \E w \in waiting[n] :
          \/ /\ w[1] \in store[n]
             /\ pending' = [pending EXCEPT ![n] = {p \in @ : p[1] # w[1]}]
             /\ waiting' = [waiting EXCEPT ![n] = Cancel(@ \ {w}, {w[1]})]
          \/ /\ w[2]
             /\ waiting' = [waiting EXCEPT ![n] = @ \ {w}]
             /\ UNCHANGED pending
    /\ UNCHANGED <<making, tx_processor, store, tx_primary, primary, round, tx_helper, failed>>

\* Mutant: the comparison of the timestamps is never true.
Retry_never(n, targets) == pending[n] # {} /\ UNCHANGED vars

\* The timer, sync_retry_delay after the last request: lucky_broadcast sends it to
\* sync_retry_nodes others.
Retry(n, targets) ==
    /\ pending[n] # {}
    /\ n \notin targets
    /\ Ask(n, {p[1] : p \in pending[n]}, targets)
    /\ UNCHANGED <<making, tx_processor, store, tx_primary, primary, round, pending, waiting,
                   failed>>

\* Helper::run, for one digest of a request.
Helper(n, b, arrives) ==
    /\ \E r \in tx_helper[n] :
          /\ r[1] = b
          /\ tx_helper' = Take(tx_helper, n, r)
          /\ tx_processor' = IF arrives /\ b \in store[n] THEN Arrived(b, r[2])
                                                         ELSE tx_processor
    /\ UNCHANGED <<making, store, tx_primary, primary, round, pending, waiting, failed>>

-----------------------------------------------------------------------------
\* The worker of n fails: what is not on its disk is lost.
Fail(n) ==
    /\ Cardinality(failed) < C
    /\ failed' = failed \cup {n}
    /\ current_batch' = [current_batch EXCEPT ![n] = {}]
    /\ tx_message' = [tx_message EXCEPT ![n] = << >>]
    /\ acked' = [acked EXCEPT ![n] = {}]
    /\ tx_batch' = [tx_batch EXCEPT ![n] = {}]
    /\ tx_processor' = [tx_processor EXCEPT ![n] = {}]
    /\ tx_primary' = [tx_primary EXCEPT ![n] = {}]
    /\ pending' = [pending EXCEPT ![n] = {}]
    /\ waiting' = [waiting EXCEPT ![n] = {}]
    /\ tx_helper' = [tx_helper EXCEPT ![n] = {}]
    /\ UNCHANGED <<submitted, store, primary, round>>

Step(n) ==
    \/ SealTimer(n)
    \/ \E m \in Node \ failed, ack \in BOOLEAN : Deliver(n, m, ack)
    \/ QuorumWaiter(n)
    \/ ProcessOwn(n)
    \/ ProcessOthers(n)
    \/ PrimaryConnector(n)
    \/ \E m \in Node : Synchronize(n, m)
    \/ Cleanup(n)
    \/ Waiter(n)
    \/ \E targets \in kSubset(sync_retry_nodes, Node) : Retry(n, targets)
    \/ \E b \in Batch, arrives \in BOOLEAN : Helper(n, b, arrives)
    \/ Fail(n)

Next ==
    \/ \E t \in Txn : Client[t] \notin failed /\ ReceiveTransaction(t)
    \/ \E n \in Node \ failed : Step(n)

\* Answers and repeated requests that bring a batch closer to a worker.
UsefulAnswer ==
    /\ \E n \in Node \ failed : \E b \in store[n] : Helper(n, b, TRUE)
    /\ tx_processor' # tx_processor

UsefulRetry ==
    \E n \in Behind \ failed, targets \in kSubset(sync_retry_nodes, Node) :
        /\ Retry(n, targets)
        /\ \E m \in targets \ failed, p \in pending[n] : p[1] \in store[m] \ store[n]

\* A running worker has something to do; as N - C workers are a quorum, a batch can
\* always be given to one more of them.
Busy ==
    \E n \in Node \ failed :
        \/ Sealable(n)
        \/ tx_message[n] # << >>
        \/ tx_batch[n] \cup tx_processor[n] \cup tx_primary[n] # {}

\* A worker that runs serves all its channels, and the ReliableSender of a batch
\* gets through to the workers that run (module ReliableSender); both end.  The
\* random choice of lucky_broadcast does not miss the workers with a batch for
\* ever, and answers are not lost for ever.  (The first conjunct is the weak
\* fairness of its action, which can be taken whenever Busy holds.)
Fairness ==
    /\ \/ []<>~Busy
       \/ []<><<\E n \in Node \ failed :
                   \/ SealTimer(n) \/ QuorumWaiter(n)
                   \/ ProcessOwn(n) \/ ProcessOthers(n) \/ PrimaryConnector(n)
                   \/ \E m \in Node \ failed : Deliver(n, m, TRUE)>>_vars
    /\ SF_vars(UsefulRetry)
    /\ SF_vars(UsefulAnswer)

Spec == Init /\ [][Next]_vars /\ Fairness

-----------------------------------------------------------------------------
(***************************************************************************)
(* Properties.                                                             *)
(***************************************************************************)

\* Every channel holds what it is for; a failed worker's are empty, and nothing
\* is put in them.
TypeOK ==
    /\ submitted \subseteq Txn
    /\ \A n \in Node :
          /\ current_batch[n] \subseteq submitted /\ Cardinality(current_batch[n]) < batch_size
          /\ Range(tx_message[n]) \cup tx_batch[n] \cup tx_processor[n] \cup store[n] \subseteq Batch
          /\ acked[n] \subseteq Range(tx_message[n]) \X (Node \ {n})
          /\ tx_primary[n] \cup primary[n] \subseteq store[n]
          /\ round[n] \in 0..MaxCleanup
          /\ pending[n] \subseteq Batch \X (0..round[n])
          /\ waiting[n] \subseteq Batch \X BOOLEAN
          /\ tx_helper[n] \subseteq Batch \X (Node \ {n})
    /\ \A n \in failed : tx_processor[n] = {} /\ tx_helper[n] = {} /\ tx_message[n] = << >>

\* What a primary puts into a header can be fetched: whichever C workers fail, a
\* batch whose digest was reported is with a worker that runs, on its disk or on
\* the way there.  The ACK is sent before the batch is stored, and the sending to
\* the others is given up when the quorum is reached.
ReportedIsHeld ==
    \A n \in Node : \A b \in primary[n] :
        \E m \in Node \ failed : b \in store[m] \cup tx_processor[m]

\* A request that the Synchronizer still repeats has a waiter that will end it,
\* although a cleanup cancels waiters and a waiter of an earlier request for the
\* same digest may end late.
PendingIsWaited ==
    \A n \in Node : \A p \in pending[n] : <<p[1], FALSE>> \in waiting[n]

\* Every transaction that a running worker took is reported in some batch, even
\* if no other comes to fill the batch and C other workers fail.  A digest is
\* reported when the SimpleSender of PrimaryConnector has it, which sends it once:
\* that it arrives is not promised.
TransactionsReported ==
    []<>(\A t \in submitted : Client[t] \in failed \/ \E b \in primary[Client[t]] : t \in b)

\* Every batch that a primary asks for arrives or is given up by a cleanup, even
\* if the first worker asked has failed or never got the request.
BatchesArrive ==
    []<>(\A n \in Node : \A p \in pending[n] : p[1] \in store[n])
=============================================================================
