# Hydrangea in TLA+

Models of the consensus engine of this repository and of the parts around it
(pacemaker, block synchronisation, reliable sending, leader schedules, mempool,
workers), model-checked with TLC on small instances, with theorems about the
engine and the workers proved by TLAPS for every committee. Paths below are
relative to `src/`.

## The system

A *node* runs a set of tokio tasks that talk over channels.

| part | source | state | operations | talks to |
|---|---|---|---|---|
| consensus engine | `hydrangea/src/core.rs` | round, lock, last vote and Timeout, indexes of uncommitted blocks and QCs, sync requests | one handler per message type, the round timer, loopbacks | everything below |
| aggregator | `hydrangea/src/aggregator.rs` | votes per block (Normal) or round (Commit), Timeouts per round | add a vote or a Timeout, forget old rounds | engine |
| messages | `hydrangea/src/messages.rs` | - | making and checking blocks, votes, QCs, WQCs, TCs, proposals | - |
| round timer | `hydrangea/src/timer.rs` | the deadline | reset, expire | engine |
| proposer | `hydrangea/src/proposer.rs` | one request slot, payload buffer, proposals being delivered | propose, clean up, observe | engine, mempool, reliable network |
| synchronizer | `hydrangea/src/synchronizer.rs` | requests, loopbacks, waiters | request, completion, retry | engine, store, helpers of the peers |
| helper, store | `hydrangea/src/helper.rs`, `store/src/lib.rs` | the disk, readers that wait | serve a block; write, read, notify | synchronizers |
| committer, mempool driver | `hydrangea/src/committer.rs`, `mempool.rs` | - | load the headers there are, deduplicate, execute; report back what is committed | engine, store, executor, mempool |
| leader election | `hydrangea/src/leader.rs` | - | round to leader | engine |
| committee | `config/src/lib.rs` | n, f, c, k | the thresholds | everything |
| network | `network/src/` | connections, messages not acknowledged | best-effort and reliable sending | all tasks |
| mempool | `primary/src/` | batches, headers in process and their votes, the store | batch transactions, make and certify headers, loop back committed certificates | proposer |
| executor | `aptos_executor/` | accounts | execute a list of transactions | committer |
| worker | `worker/src/` | the batch being filled, batches waiting for ACKs, the store, requests for batches and their waiters | make, disseminate, store and report batches; fetch missing ones | its primary, other workers (the node binary does not start one) |

A round: the leader proposes a block on top of the QC (or TC) of the round
before; nodes vote (*Normal*); `quorum_threshold` votes make a prepare QC, which
nodes lock, and for which they send a *Commit* vote; `slow_commit_threshold`
Commit votes, or `fast_commit_threshold` Normal votes, commit the block and its
ancestors. When a timer expires nodes send *Timeouts* with their last vote, lock
and highest weak certificate; `view_change_threshold` of them make a TC, which
says which block the next leader extends: the one of the weak certificate (WQC)
if that is newer than the high QC.

What is hard here, and hardly reached by a test: votes, QCs, Timeouts, proposals
and synchronised blocks in any order; a handler that calls another one which
advances the round under it; a Timeout racing a vote; a certificate that
completes before the block or the prepare QC is there; a node that misses rounds
and fetches them later; a leader that boots twice. `PROJECT.json` lists them
with their lines.

## Modules

| module | models |
|---|---|
| `Committee` | the thresholds of `Committee::new`, stake 1 |
| `Messages` | blocks, votes, certificates, proposals and their checks |
| `Core` | one node: the handlers of `core.rs` and the aggregator |
| `Hydrangea` | a committee of such nodes over an unreliable network |
| `Ledger` | what the engine promises: one growing chain, output in order |
| `Pacemaker` | the same nodes over a network that becomes stable: timers, Timeouts, `sync_peer` |
| `Synchronizer` | one node's engine (`Core`) with its synchronizer task, store and the helpers of its peers |
| `ReliableSender` | one connection of the reliable sender and the peer that serves it |
| `ReliableLink` | what such a connection promises |
| `LeaderElector` | the generation of the leader schedules |
| `Mempool` | transactions, headers, certificates and payloads of several nodes, up to execution |
| `Worker` | the workers of all authorities, one each |
| `MCHydrangea`, `MCPacemaker`, `MCSynchronizer`, `MCWorker` | the instances for TLC |
| `CommitteeProofs` | theorems about the thresholds |
| `CoreProofs`, `CertificateProofs`, `HandlerProofs`, `HydrangeaProofs` | theorems about the engine |
| `WorkerProofs`, `BatchProofs` | theorems about the workers |
| `SenderProofs` | theorems about the reliable sender |

### The engine

**State.** `node[n]` is a record with the fields of `struct Core` that handlers
read or write, plus `store` (disk), `loopbacks` (what the synchronizer will hand
back), `output`, `sent`, `panicked` (an assertion failed) and `rejected` (an
error reached the main loop).

**Handlers.** Each is an operator from the record to the next one, under the
name it has in the code. They call each other recursively. The two calls that
close a cycle (`handle_qc` of a QC that the node's own vote completes, and
`handle_timeout` of its own Timeout) are pushed on `calls`; what the caller does
after a call is pushed below and runs at once if the call returned with nothing
left. What follows the Timeout that completes a TC (`handle_tc`, `finish_tc` and
the entry into the next round) always stays on `calls`. The `Run...` actions make
the pushed calls. No node takes an input while a handler runs, so that it makes no
difference to the other nodes in how many steps it does.

**Network.** `sent` only grows; any message may arrive at any time, again, or
never. A crash is a node that stops moving: every prefix of a behaviour is a
behaviour.

**Blocks.** A digest has no collisions, so a block is the sequence of headers
from the child of Genesis to itself. A signature verifies exactly when the signed
values agree; an aggregate of votes for different blocks does not.

**Simplifications.**
- A requested block may be answered by any node that has it, and a loopback may
  be delivered more than once: more behaviours than the synchronizer has.
- `sync_peer` sends the lock to everyone and without a rate limit (in `Pacemaker`,
  to one node and with the limit).
- The node's vote or Timeout counts as sent when its handling starts, not ends;
  no other node moves in between.
- The proposer answers at once; its delay is part of the delivery time.
- `send_to` drops a TC, so no node ever receives one on its own.
- Payload checks of the mempool driver are left out (as with `consensus_only`);
  what becomes of payloads is the subject of `Mempool`.
- Nodes outside `Honest` are silent, except that the leader of round 1 may have
  booted several times. Nothing of Byzantine nodes is modelled.

### The pacemaker

`Pacemaker` runs the handlers of `Core` under time. Here a node runs a handler
to its end, the pushed calls included, in one step, and `net` holds each message
on its way to each node, so that it is delivered once or lost. Until `Stabilize`
any message may stay on its way and timers expire at will (the bounds `Unheard`
and `MaxUnstable` choose which story this tells). `Stabilize` is the last time
that connections break: what a `SimpleSender` had not delivered is lost, and so
is what comes from or goes to a node that fails; a proposal whose author has not
moved on survives, as the reliable sender repeats it until `cleanup`. From then
on every message arrives, and a timer expires only when nothing is on its way:
the delay is longer than the exchange of messages that a round takes.
`sync_peer` answers one node and may be rate limited (`SyncPeer`, `RateLimit`).
A message that its receiver would ignore whenever it arrived is dropped at once.

### Around the engine

`Synchronizer`: the committee is given by its outcome, a chain of certified
blocks, some of them finalised, and by what the peers have on disk. Proposals
and certificates reach the node in any order. The engine is the one of `Core`;
what its handlers ask for goes through `inner` (the channel to the task) into
`requests`, `loopbacks` and `waiting`, and comes back over `rx_sync`. A request
or an answer that is lost is one the model does not send.

`ReliableSender`: the caller, `Connection::run` and `keep_alive`, and the peer,
which ACKs a message before it passes it on and closes the connection on one it
cannot deserialize (the proposer opens its connections with such a message).
What was written to a broken connection may still be read later.

`LeaderElector`: one action per turn of the loop of `generate_schedule`; the
failure schedules in one action each.

`Mempool`: the worker's batches, the headers of the primary's proposer, the
primary's core with its votes and certificates, the garbage collector's
loopback, the consensus proposer with its buffer and request slot, and the
committer. Messages between primaries arrive in any order, and some of them
twice. Of consensus only its effect on payloads is left: who is asked for a
block, who stores it, which blocks are committed. Sizes count transactions. A
message of the engine to the proposer takes effect when it is sent; later is the
same as a block stored, or a leader asked, later.

`Worker`: one action per task and input. `tx_message[n]` is the queue of the
`QuorumWaiter`, which waits for the ACKs of one batch at a time, and at the same
time what the `ReliableSender` still has to deliver: the handles are dropped
together with the batch. The receiver sends its ACK before it stores the batch.
In the `Synchronizer`, an entry of `pending` owns the sending end of its waiter's
channel, so that removing the entry, by a cleanup or by a waiter of an earlier
request for the same digest, cancels the waiter (`Cancel`). `Store::write` only
queues the write, and the model stores the batch at once: reads queue behind it,
and what a worker had not written when it failed is read by no one, though its
`store` in the model has it. A request that is
lost is modelled by an answer that is. The primary is the one that `primary.rs`
defines messages for: it asks for batches that another primary put in a header,
and reports its rounds. A worker that fails loses all but its disk.

## Runs

The first three lines and the first two violations are runs of `Hydrangea`.
`Lost` names kinds of message that never reach a node and keeps each run at one
story; `MaxRound` and `MaxTimeouts` bound it.

| run | instance | checks |
|---|---|---|
| `TwoOfThree` | n=3 (c=1), two run, 3 rounds (the leader of round 3 is down), nothing lost | `TypeOK`, `NoRejection`, `OneProposalPerRound`, `RoundEntryJustified`, `NoVoteAfterTimeout`, `NeverGoesBack`, `Agreement` |
| `Recovery` | n=3, all run, 2 rounds; one node commits on the fast path, another misses the first round, timers expire | `OutputIsExtended`, `NoPanic`, `RequestedIsAvailable` |
| `TwoProposals` | n=4 (c=1, k=1), three run; the leader of round 1 proposed two blocks and is down | `OneVotePerRound`, `CertificatesBacked`, `OneCertificatePerRound` |
| `Pacemaker` | n=3, one node fails, 3 rounds, two of them led by nodes that fail or stay behind | `TypeOK`, `LeavesEveryRound`, `CommitsOnceStable` |
| `CatchUp` | a chain of three blocks, the second and third finalised, one of two peers has failed | `TypeOK`, `NoPanic`, `AskedForWhileWanted`, `NothingForgotten`, `CommitEventually` |
| `ReliableDelivery` | four messages, the first refused, a channel of capacity 2, a broken connection | `TypeOK`, `AcksMatch`, `ReachInOrder`, `ImplementsLink` |
| `Schedules` | committees of 2 to 12 nodes, fewer than half of them failing | `ScheduleCloses`, `EveryPairOnce`, `LeadsAgainSoon`, `HonestSuccession` |
| `Payloads` | two of four nodes (f=1) take part, one client, two transactions, one message twice, one block | `TypeOK`, `TransactionsConserved`, `CertifiedIsAvailable`, `CommittedIsKnown`, `OncePerBlock`, `CertifiedEventually` |
| `Batches` | three workers, one of which may fail, two transactions, batches of one or two, one primary that misses batches, one cleanup | `TypeOK`, `ReportedIsHeld`, `PendingIsWaited`, `TransactionsReported`, `BatchesArrive` |
| `ScheduledIsRequested` | n=3, all run, 1 round, nothing lost | violated: finding 1 |
| `TCForwarded` | two of three run | violated: finding 2 |
| `Resubmission` | as `Payloads`, one transaction sent twice | violated: finding 3 |

`Agreement` is the refinement: `Hydrangea` implements `Ledger` with `log` mapped
to the outputs. n=3 with c=1 gives quorum 2, slow commit 2, fast commit 3 and
view change 2, so the fast and slow paths, weak certificates (size 1) and
recovery all occur; n=4 with c=1 and k=1 gives weak certificates of size 2, a
quorum that is rounded up (2.5 to 3) and a fast quorum equal to it. In all
instances of the engine f=0, in which quorums need not tolerate lies; f>0 is
covered by the theorems on thresholds only. Deadlock is not checked: the bounds
make every behaviour end.

What `Pacemaker` shows beyond its two properties. `sync_peer` does not help every
node that is behind: one that committed round r by Commit votes before it had the
QC of r ignores that QC, and leaves r with the Timeouts of a later round.
`CommitsOnceStable` starts at the second round that is entered after the network
became stable. The first may be lost although its leader runs: the leader may
lack a Timeout that was lost earlier, that Timeout is sent again only after a
local timeout clears `timeout_syncs`, and the nodes that have the TC do not send
it on (finding 2).

The bounds of the other runs. `CatchUp`: with three blocks and two of them
finalised, a block waits for an ancestor that itself waits for one, and two
blocks wait for one ancestor. `ReliableDelivery`: four messages and a break let
messages wait for an ACK, on the wire, in the buffer and in the channel at once.
`Schedules`: the bound 3n-3 of `LeadsAgainSoon` is reached at n=12. `Payloads`:
f+1 = 2 nodes must vote, and both do; with two transactions and sizes of two,
batches and headers are closed by size and by timer. One block cannot show a
request that replaces another, and as both nodes have every certified header, the
branch of the committer for a missing one is in the model and not taken. `Batches`: the quorum is 2 of 3, so a batch is
given up for the third worker while it is on its way to the second; the cleanup
and a second request for the same digest meet the waiter of the first.

Fairness. The properties checked of `Hydrangea` are safety properties and need
none.
- `LeavesEveryRound`, `CommitsOnceStable`: once the network is stable, messages
  are taken (weak fairness of all inputs together; timers wait for them), each
  timer expires again and again (strong fairness, as it waits while messages are
  on their way; `Timer::reset` is called by every Timeout sent), and a node that
  asks for ever is not rate limited for ever, as the limit is a time.
- `CommitEventually`: the node's tasks run, its retry timer fires, and of the
  requests for a block that are sent over and over, with their answers, one gets
  through; nothing is assumed of proposals and certificates.
- `ImplementsLink`: the tasks run, an attempt to connect that is repeated for ever
  succeeds (strong fairness, the peer being up), the connection breaks finitely
  often, and the caller drops the handles of what the peer refuses, as the
  proposer does.
- `CertifiedEventually`: timers fire, tasks run, and messages between primaries
  arrive, which is what `ReliableDelivery` shows of the sender.
- `TransactionsReported`: the tasks of the workers that run take their inputs and
  the batch timer fires; ACKs of workers that run arrive. A digest is reported
  when the `SimpleSender` of `PrimaryConnector` has it; it sends it once, and a
  digest lost between worker and primary is outside the property. `BatchesArrive`: of the
  retries, to workers picked at random, some go to a worker with the batch, and
  of its answers some arrive (strong fairness of each).

The fairness conditions are written with the guards of the actions in place of
`ENABLED`, which TLC evaluates far faster; a comment at each says why they agree.

Findings:
1. `core.rs:456` "Will have requested in call to get_block." A Commit QC
   completed by votes before the prepare QC schedules a block nobody requested.
2. `core.rs:745` "Forward TC to next leader." `send_to` drops the message.
3. `primary/src/core.rs:164` `.expect("Failed to process our own vote")`. The id
   of a header is a digest of author, round and payload, and the round is always
   1. A client that sends a transaction again may thus cause a second header
   with the id of the first; if the first has no certificate yet, the own vote
   for the second is a repeated vote, an error, and the core of the primary ends.

One more disagreement needs no run of its own. `hydrangea/src/leader.rs:173-176`
says of the failure schedules what holds of the fair one, that every node is
succeeded by every other and every pair appears once. A failure schedule has n
rounds and n(n-1) ordered pairs do not fit: `HonestSuccession` states that each
node leads one round, and that the promise about pairs holds for n=2 only. It also
states what the comments of the three generators count. For n=3f+1 with f failing,
the 2f and f+1 "directly-committable blocks" of the best and the middle case are the
honest leaders followed by an honest one; by that measure the worst case has f+1
too, and its "1" is the one honest leader followed by two.

## Proofs

The assumption on committees is n >= 3f+2c+k+1. `Committee::new` does not enforce
it; `benchmark/benchmark/config.py:277` refuses a committee in which the two sides
differ, and `scripts/start_local.sh` generates one in which they are equal.

**The engine.** For every such committee, leader schedule, payload
set, set of running nodes, set of lost messages and bounds:

- `TypeCorrect`: `Spec => []TypeOK`;
- `VotesStopAtTimeout`: `Spec => NoVoteAfterTimeout`;
- `Monotone`: `Spec => NeverGoesBack`;
- `VotesAreUnique`: `Spec => []OneVotePerRound`;
- `CertificatesAgree`: `Spec => [](CertificatesBacked => OneCertificatePerRound)`.

None of these is inductive. The inductive invariant adds, for each node, `Sound`:
the last vote is not ahead of the round, `last_timeout` covers every Timeout sent,
and `Ballot`. `Ballot` is the reason why a node votes once although nothing records
its votes: the block of a Normal vote stays the only block of its round in
`pending_proposals` until that round, or a later one, is committed, and a
committed round never gets a pending block again; a Commit vote is for a round
that is locked, and the lock only moves up. `Leads(s, t)` says a handler may take
a node from `s` to `t`: `Sound(t)`, nothing falls back, and new votes are for
rounds after `s.last_timeout`. It is reflexive on sound states and transitive, so
a handler's lemma composes those of its callees; there is one lemma per operator,
in the order of `Core`. `CertificatesAgree` takes the common member of two quorums
from `QuorumsIntersect` and its one vote from `VotesAreUnique`.

**The thresholds** (`CommitteeProofs`): quorums intersect in f+1; a slow commit
meets every TC in f+1; a fast commit leaves a weak certificate in every TC, and no
other block of that round can have one; the nodes left after f+c failures reach
every threshold but the fast one.

**The workers.** For every committee, set of transactions and bounds:

- `RequestsAreWaited`: `Spec => []PendingIsWaited`. The invariant adds that the
  tables have their types and that each digest has one entry.
- `ReportedBatchesSurvive`: `Spec => []ReportedIsHeld`. The invariant (`BatchInv`)
  follows a batch on its way: an ACK of a worker that has not failed means that
  the batch is in its store or its channel, a batch past the `QuorumWaiter` is
  backed by a quorum of workers that hold it or have failed, and a quorum is
  larger than C, so that one of them is left.

**The reliable sender** (`SenderProofs`). For any number of messages and of broken
connections, any channel capacity and any set of messages the peer refuses:

- `AcksAlwaysMatch`: `Spec => []AcksMatch`;
- `SenderKeepsOrder`: `Spec => []ReachInOrder`;
- `SenderRefinesLink`: `Spec => Link!Init /\ [][Link!Next]_(Link!vars)`, the safety
  part of `ImplementsLink`.

The invariant `IInv` has four parts. `QueueInv`: `pending`, `buffer` and `channel`,
one after the other, are in the order of sending, and hold every message that was
sent and is neither cancelled nor refused nor at the peer. `AckInv`: `pending` is
what `acks` is made for, followed by what is on the wire, unless the peer closed the
connection. From these two, a message below one on the wire is settled or before it
on the wire; `StaleInv` says the same of what is left of former connections. Then
whatever the peer takes next keeps `ReachInOrder`, the fourth part.

Only model-checked: `Agreement`, `CertificatesBacked` and the other invariants of
the engine, and the properties of the parts not named here. Outside this prover:
liveness (that of `ImplementsLink` included), what the schedules of `LeaderElector` compute.

## Not modelled

- Channel capacities (1000): full channels would only delay, except that the
  engine and the proposer could wait for each other, which takes 1000 proposals
  of one node that its engine has not taken.
- Requests to the proposer that replace one another in more than one block
  (`Mempool` decides one), and certified blocks off the committed chain in
  `Synchronizer`.
- Byzantine nodes, beyond a leader of round 1 that boots twice.
- A node that restarts in a later round: it recovers nothing from its disk, and
  the engine makes no promise for it.
- Cryptography (assumed as above), error wording, command line and client, the
  executor under `aptos_executor/` (the models end where the committer calls it),
  the benchmark scripts.
- `primary/src/{helper,payload_receiver}.rs`, which nothing sends to, and
  `primary/src/{synchronizer,header_waiter}.rs`, which are not compiled.
