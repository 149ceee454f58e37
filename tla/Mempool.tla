------------------------------ MODULE Mempool ------------------------------
(***************************************************************************)
(* The way of a transaction through the nodes: worker and primary          *)
(* (primary/src), the Proposer and the Committer of consensus              *)
(* (hydrangea/src/proposer.rs, committer.rs).                              *)
(*                                                                         *)
(* Batches of transactions become headers; a header with f+1 votes has a   *)
(* certificate; certificates are the payload of blocks.  A certificate is  *)
(* the header it is for: two of one header are equal to all who compare    *)
(* them.  The header of a transaction list is the same whenever it is made *)
(* (the round of the primary's Proposer is always 1, and so no round is    *)
(* ever old enough to be cleaned up).                                      *)
(*                                                                         *)
(* Primaries talk over ReliableSenders, whose messages arrive in any order *)
(* and once or more.  Consensus is given by what it does to the payload:   *)
(* which leader is asked for a block, who stores the block, which blocks   *)
(* are committed, in one order for all.                                    *)
(***************************************************************************)
EXTENDS Committee, Sequences, SequencesExt

CONSTANTS
    Running,        \* the authorities that run; the others are slow or down
    Client,         \* those among them whose workers get transactions
    Txn,            \* the transactions
    MaxSubmissions, \* bound: how often a client sends a transaction
    MaxCopies,      \* bound: how many messages arrive a second time
    MaxBlocks,      \* bound: how often a leader is asked for a block
    batch_size,     \* in transactions, and so are the other two
    header_size,
    max_block_size

ASSUME MempoolAssumption ==
    /\ Running \subseteq Node /\ Client \subseteq Running
    /\ MaxSubmissions \in Nat /\ MaxCopies \in Nat /\ MaxBlocks \in Nat
    /\ batch_size \in Nat \ {0} /\ header_size \in Nat \ {0} /\ max_block_size \in Nat \ {0}

Header == [author : Client, payload : Seq(Txn)]

Message ==
    [type : {"Header", "Certificate"}, header : Header, to : Running] \cup
    [type : {"Vote"}, header : Header, to : Running, author : Running]

VARIABLES
    submitted,      \* how often each transaction was sent
    current_batch,  \* of the BatchMaker of each node
    digests,        \* the batches on their way to the primary's Proposer
    txns,           \* the transactions in the primary's Proposer
    rx_proposer,    \* the headers on their way to the primary's Core
    voters,         \* voters[n][h], for the headers h that n is processing
    headers,        \* the headers in the store of each node
    certificates,   \* the certificates in the store of each node
    panicked,       \* the primary's Core of a node is dead
    loopback,       \* the certificates on their way from GarbageCollector to Core
    messages,       \* the messages on their way between primaries
    copies,         \* how many messages were sent again after they arrived
    rx_mempool,     \* the certificates on their way to the consensus Proposer
    buffer,         \* the certificates the consensus Proposer has at hand
    request,        \* the request to propose that it has yet to serve, or 0
    requests,       \* how many requests there were
    proposed,       \* proposed[r] holds the payload of the block made for request r
    held,           \* the blocks, by request, that each node has stored
    log,            \* the committed blocks, by request
    committed,      \* how much of it each node has committed
    feedback,       \* the certificates on their way to GarbageCollector
    to_execute,     \* the payloads on their way to the Committer
    executed        \* what each Committer gave to the executor

worker == <<submitted, current_batch, digests, txns, rx_proposer>>

primary == <<voters, headers, certificates, panicked>>

network == <<messages, copies>>

proposer == <<buffer, request, proposed>>

consensus == <<requests, held, log, committed>>

committer == <<to_execute, executed>>

vars == <<worker, primary, network, proposer, consensus, committer,
          loopback, rx_mempool, feedback>>

Each(x) == [n \in Running |-> x]

Init ==
    /\ submitted = [t \in Txn |-> 0]
    /\ current_batch = Each(<< >>) /\ digests = Each(<< >>) /\ txns = Each(<< >>)
    /\ rx_proposer = Each(<< >>) /\ voters = Each(<< >>)
    /\ headers = Each({}) /\ certificates = Each({}) /\ loopback = Each(<< >>)
    /\ messages = EmptyBag /\ copies = 0 /\ panicked = Each(FALSE)
    /\ rx_mempool = Each(<< >>) /\ buffer = Each(<< >>) /\ request = Each(0)
    /\ requests = 0 /\ proposed = [r \in 1..MaxBlocks |-> {}] /\ held = Each({})
    /\ log = << >> /\ committed = Each(0) /\ feedback = Each(<< >>)
    /\ to_execute = Each(<< >>) /\ executed = Each(<< >>)

-----------------------------------------------------------------------------
(***************************************************************************)
(* The worker and the Proposer of the primary.                             *)
(***************************************************************************)

\* TxReceiverHandler, for a transaction that a client sends, perhaps again.
dispatch(t) ==
    /\ submitted[t] < MaxSubmissions
    /\ submitted' = [submitted EXCEPT ![t] = @ + 1]

\* BatchMaker: the batch is sealed when it is large enough.
Submit(n, t) ==
    LET batch == Append(current_batch[n], t)
        full == Len(batch) >= batch_size
    IN  /\ dispatch(t)
        /\ current_batch' = [current_batch EXCEPT ![n] = IF full THEN << >> ELSE batch]
        /\ digests' = IF full THEN [digests EXCEPT ![n] = Append(@, batch)] ELSE digests
        /\ UNCHANGED <<txns, rx_proposer, primary, network, proposer, consensus,
                       committer, loopback, rx_mempool, feedback>>

\* The timer of the BatchMaker.
SealBatch(n) ==
    /\ current_batch[n] # << >>
    /\ digests' = [digests EXCEPT ![n] = Append(@, current_batch[n])]
    /\ current_batch' = [current_batch EXCEPT ![n] = << >>]
    /\ UNCHANGED <<submitted, txns, rx_proposer, primary, network, proposer, consensus,
                   committer, loopback, rx_mempool, feedback>>

\* Mutant: a header made without draining the transactions.
make_header_undrained(n, payload) ==
    /\ rx_proposer' = [rx_proposer EXCEPT
                          ![n] = Append(@, [author |-> n, payload |-> payload])]
    /\ txns' = [txns EXCEPT ![n] = payload]

\* make_header, from the transactions payload.
make_header(n, payload) ==
    /\ rx_proposer' = [rx_proposer EXCEPT
                          ![n] = Append(@, [author |-> n, payload |-> payload])]
    /\ txns' = [txns EXCEPT ![n] = << >>]

TakeBatch(n) ==
    /\ digests[n] # << >>
    /\ digests' = [digests EXCEPT ![n] = Tail(@)]
    /\ LET payload == txns[n] \o Head(digests[n])
       IN  IF Len(payload) >= header_size
           THEN make_header(n, payload)
           ELSE txns' = [txns EXCEPT ![n] = payload] /\ UNCHANGED rx_proposer
    /\ UNCHANGED <<submitted, current_batch, primary, network, proposer, consensus,
                   committer, loopback, rx_mempool, feedback>>

\* The timer of the primary's Proposer.
HeaderDelayElapses(n) ==
    /\ txns[n] # << >>
    /\ make_header(n, txns[n])
    /\ UNCHANGED <<submitted, current_batch, digests, primary, network, proposer,
                   consensus, committer, loopback, rx_mempool, feedback>>

-----------------------------------------------------------------------------
(***************************************************************************)
(* The Core of the primary.  Its functions take and return the record of a *)
(* Core, with what they send to other primaries and to consensus.          *)
(***************************************************************************)

Core(n) ==
    [name |-> n, voters |-> voters[n], headers |-> headers[n],
     certificates |-> certificates[n], panicked |-> FALSE, sent |-> {}, out |-> << >>]

\* To all other primaries; those that do not run have no part in what follows.
broadcast(c, type, h) ==
    [c EXCEPT !.sent = @ \cup {[type |-> type, header |-> h, to |-> m] : m \in Running \ {c.name}}]

process_certificate(c, h) ==
    [c EXCEPT !.certificates = @ \cup {h}, !.out = Append(@, h)]

\* VotesAggregator: the votes of these authors make a certificate.
Certifies(authors) == Cardinality(authors) >= validity_threshold

\* Mutant: a certificate that is not broadcast.
process_vote_quiet(c, h, author) ==
    IF h \notin DOMAIN c.voters \/ author \in c.voters[h]
    THEN c
    ELSE IF Certifies(c.voters[h] \cup {author})
    THEN process_certificate([c EXCEPT !.voters = Restrict(@, DOMAIN @ \ {h})], h)
    ELSE [c EXCEPT !.voters[h] = @ \cup {author}]

\* A vote for a header that is not in process is ignored.  A second vote of one
\* author is an error, which is logged, and fatal if the vote is the Core's own.
process_vote(c, h, author) ==
    IF h \notin DOMAIN c.voters
    THEN c
    ELSE IF author \in c.voters[h]
    THEN [c EXCEPT !.panicked = (author = c.name)]
    ELSE LET used == c.voters[h] \cup {author}
         IN  IF Certifies(used)
             THEN process_certificate(
                      broadcast([c EXCEPT !.voters = Restrict(@, DOMAIN @ \ {h})], "Certificate", h), h)
             ELSE [c EXCEPT !.voters[h] = used]

\* Mutant: only the author stores the header.
process_header_unstored(c, h) ==
    IF h.author = c.name
    THEN process_vote([c EXCEPT !.headers = @ \cup {h}], h, c.name)
    ELSE [c EXCEPT !.sent = @ \cup
             {[type |-> "Vote", header |-> h, to |-> h.author, author |-> c.name]}]

process_header(c, h) ==
    LET stored == [c EXCEPT !.headers = @ \cup {h}]
    IN  IF h.author = c.name
        THEN process_vote(stored, h, c.name)
        ELSE [stored EXCEPT !.sent = @ \cup
                 {[type |-> "Vote", header |-> h, to |-> h.author, author |-> c.name]}]

\* An aggregator of votes that is there already is kept.
process_own_header(c, h) ==
    process_header(broadcast([c EXCEPT !.voters = @ @@ (h :> {})], "Header", h), h)

CoreBecomes(c) ==
    /\ ~panicked[c.name]
    /\ voters' = [voters EXCEPT ![c.name] = c.voters]
    /\ headers' = [headers EXCEPT ![c.name] = c.headers]
    /\ certificates' = [certificates EXCEPT ![c.name] = c.certificates]
    /\ panicked' = [panicked EXCEPT ![c.name] = c.panicked]
    /\ rx_mempool' = [rx_mempool EXCEPT ![c.name] = @ \o c.out]
    /\ UNCHANGED <<submitted, current_batch, digests, txns, proposer, consensus, committer, feedback>>

ReceiveOwnHeader(n) ==
    /\ rx_proposer[n] # << >>
    /\ rx_proposer' = [rx_proposer EXCEPT ![n] = Tail(@)]
    /\ \E c \in {process_own_header(Core(n), Head(rx_proposer[n]))} :
          CoreBecomes(c) /\ messages' = messages (+) SetToBag(c.sent)
    /\ UNCHANGED <<copies, loopback>>

\* The handler of a message from another primary.  A certificate goes through a
\* pool of threads and back to the Core, whatever its verification says: it is
\* processed later than messages that came after it, which is to say that it
\* arrives later.
Handler(c, m) ==
    CASE m.type = "Header" -> process_header(c, m.header)
      [] m.type = "Vote" -> process_vote(c, m.header, m.author)
      [] m.type = "Certificate" -> process_certificate(c, m.header)

\* The sender, cut off before the ACK, may send m again.
Receive(n, m) ==
    /\ m.to = n
    /\ \E c \in {Handler(Core(n), m)} :
          /\ CoreBecomes(c)
          /\ LET rest == messages (+) SetToBag(c.sent)
             IN  \/ messages' = rest (-) SetToBag({m}) /\ UNCHANGED copies
                 \/ copies < MaxCopies /\ copies' = copies + 1 /\ messages' = rest
    /\ UNCHANGED <<rx_proposer, loopback>>

ReceiveLoopback(n) ==
    /\ loopback[n] # << >>
    /\ loopback' = [loopback EXCEPT ![n] = Tail(@)]
    /\ \E c \in {process_certificate(Core(n), Head(loopback[n]))} : CoreBecomes(c)
    /\ UNCHANGED <<rx_proposer, network>>

\* Mutant: nothing is looped back.
CollectGarbage_only(n) ==
    /\ feedback[n] # << >>
    /\ feedback' = [feedback EXCEPT ![n] = Tail(@)]
    /\ UNCHANGED <<worker, primary, network, proposer, consensus, committer, loopback, rx_mempool>>

\* GarbageCollector: what was committed and is not in the store goes to the Core.
CollectGarbage(n) ==
    LET h == Head(feedback[n])
    IN  /\ feedback[n] # << >>
        /\ feedback' = [feedback EXCEPT ![n] = Tail(@)]
        /\ loopback' = IF h \in certificates[n] THEN loopback
                        ELSE [loopback EXCEPT ![n] = Append(@, h)]
        /\ UNCHANGED <<worker, primary, network, proposer, consensus, committer, rx_mempool>>

-----------------------------------------------------------------------------
(***************************************************************************)
(* The Proposer of consensus.                                              *)
(***************************************************************************)

\* Mutant: max_block_size is not looked at.
get_payload_whole(buf) == buf

\* The first certificates, as many as a block may have.
get_payload(buf) == SubSeq(buf, 1, IF Len(buf) < max_block_size THEN Len(buf) ELSE max_block_size)

\* One turn of its loop, with the certificates buf at hand and req to serve: it
\* proposes if it has a payload, or without one once the timer has expired.
ProposerTurn(n, buf, req) ==
    LET payload == get_payload(buf)
        proposes == /\ proposed' = [proposed EXCEPT ![req] = {payload}]
                    /\ buffer' = [buffer EXCEPT ![n] = SubSeq(buf, Len(payload) + 1, Len(buf))]
                    /\ request' = [request EXCEPT ![n] = 0]
        waits == /\ buffer' = [buffer EXCEPT ![n] = buf]
                 /\ request' = [request EXCEPT ![n] = req]
                 /\ UNCHANGED proposed
    IN  \/ req # 0 /\ proposes
        \/ (req = 0 \/ buf = << >>) /\ waits

TakeCertificate(n) ==
    /\ rx_mempool[n] # << >>
    /\ rx_mempool' = [rx_mempool EXCEPT ![n] = Tail(@)]
    /\ ProposerTurn(n, Append(buffer[n], Head(rx_mempool[n])), request[n])
    /\ UNCHANGED <<worker, primary, network, consensus, committer, loopback, feedback>>

\* Consensus asks a leader; a request not yet served is replaced.
Propose(n) ==
    /\ requests < MaxBlocks
    /\ requests' = requests + 1
    /\ ProposerTurn(n, buffer[n], requests')
    /\ UNCHANGED <<worker, primary, network, held, log, committed, committer, loopback,
                   rx_mempool, feedback>>

BlockDelayElapses(n) ==
    /\ request[n] # 0
    /\ ProposerTurn(n, buffer[n], request[n])
    /\ request'[n] = 0
    /\ UNCHANGED <<worker, primary, network, consensus, committer, loopback,
                   rx_mempool, feedback>>

-----------------------------------------------------------------------------
(***************************************************************************)
(* Blocks, and their execution.                                            *)
(***************************************************************************)

\* store_block: the Proposer drops the certificates that it observes in the block.
StoreBlock(n, r) ==
    /\ r \notin held[n]
    /\ held' = [held EXCEPT ![n] = @ \cup {r}]
    /\ \E payload \in proposed[r] :
          ProposerTurn(n, SelectSeq(buffer[n], LAMBDA h : h \notin ToSet(payload)), request[n])
    /\ UNCHANGED <<worker, primary, network, requests, log, committed, committer, loopback,
                   rx_mempool, feedback>>

\* Consensus agrees on the next block; it may pass over blocks.
Decide(r) ==
    /\ \E n \in Running : r \in held[n]
    /\ \A s \in ToSet(log) : s < r
    /\ log' = Append(log, r)
    /\ UNCHANGED <<worker, primary, network, proposer, requests, held, committed, committer,
                   loopback, rx_mempool, feedback>>

\* MempoolDriver::cleanup.
cleanup(n, payload) == feedback' = [feedback EXCEPT ![n] = @ \o payload]

commit(n) ==
    /\ committed[n] < Len(log)
    /\ LET r == log[committed[n] + 1]
       IN  /\ r \in held[n]
           /\ \E payload \in proposed[r] :
                 /\ to_execute' = [to_execute EXCEPT ![n] = Append(@, payload)]
                 /\ cleanup(n, payload)
    /\ committed' = [committed EXCEPT ![n] = @ + 1]
    /\ UNCHANGED <<worker, primary, network, proposer, requests, held, log, executed, loopback,
                   rx_mempool>>

\* Mutant: only a transaction equal to the one just before it is left out.
deduplicate_transactions_next(s) ==
    FoldLeft(LAMBDA unique, t : IF unique # << >> /\ Last(unique) = t THEN unique ELSE Append(unique, t),
             << >>, s)

deduplicate_transactions(s) ==
    FoldLeft(LAMBDA unique, t : IF Contains(unique, t) THEN unique ELSE Append(unique, t), << >>, s)

\* The Committer leaves out the headers that it does not find in the store.
Execute(n) ==
    LET found == SelectSeq(Head(to_execute[n]), LAMBDA h : h \in headers[n])
        transactions == deduplicate_transactions(
                            FlattenSeq([i \in DOMAIN found |-> found[i].payload]))
    IN  /\ to_execute[n] # << >>
        /\ to_execute' = [to_execute EXCEPT ![n] = Tail(@)]
        /\ executed' = IF transactions = << >> THEN executed
                       ELSE [executed EXCEPT ![n] = Append(@, transactions)]
        /\ UNCHANGED <<worker, primary, network, proposer, consensus, loopback, rx_mempool, feedback>>

-----------------------------------------------------------------------------
WorkerNext(n) ==
    \/ SealBatch(n)
    \/ TakeBatch(n)
    \/ HeaderDelayElapses(n)

CoreNext(n) ==
    \/ ReceiveOwnHeader(n)
    \/ \E m \in BagToSet(messages) : Receive(n, m)
    \/ ReceiveLoopback(n)

Next ==
    \/ \E n \in Client, t \in Txn : Submit(n, t)
    \/ \E n \in Running :
          \/ WorkerNext(n)
          \/ CoreNext(n)
          \/ CollectGarbage(n)
          \/ TakeCertificate(n)
          \/ Propose(n)
          \/ BlockDelayElapses(n)
          \/ \E r \in 1..MaxBlocks : StoreBlock(n, r)
          \/ commit(n)
          \/ Execute(n)
    \/ \E r \in 1..MaxBlocks : Decide(r)

\* The timers fire, the tasks run, and a ReliableSender delivers: while a worker
\* or a primary has something to do, some worker or primary does something.
Fairness == WF_vars(\E n \in Running : WorkerNext(n) \/ CoreNext(n))

Spec == Init /\ [][Next]_vars /\ Fairness

-----------------------------------------------------------------------------
(***************************************************************************)
(* Properties.                                                             *)
(***************************************************************************)

\* The variables have their types; a batch or a header that is large enough is
\* not held back, no payload is larger than max_block_size, and a header that
\* is in process has fewer votes than make a certificate.
TypeOK ==
    /\ submitted \in [Txn -> 0..MaxSubmissions]
    /\ current_batch \in [Running -> BoundedSeq(Txn, batch_size - 1)]
    /\ digests \in [Running -> Seq(Seq(Txn))]
    /\ txns \in [Running -> BoundedSeq(Txn, header_size - 1)]
    /\ \A n \in Running :
          /\ ToSet(rx_proposer[n]) \cup headers[n] \cup certificates[n] \cup ToSet(loopback[n]) \cup
             ToSet(rx_mempool[n]) \cup ToSet(buffer[n]) \cup ToSet(feedback[n]) \subseteq Header
          /\ \A h \in DOMAIN voters[n] :
                /\ h \in headers[n] /\ h.author = n
                /\ voters[n][h] \in SUBSET Running /\ ~Certifies(voters[n][h])
          /\ ToSet(to_execute[n]) \subseteq UNION {proposed[r] : r \in held[n]}
          /\ executed[n] \in Seq(Seq(Txn))
    /\ BagToSet(messages) \subseteq Message /\ copies \in 0..MaxCopies
    /\ panicked \in [Running -> BOOLEAN]
    /\ request \in [Running -> 0..requests] /\ requests \in 0..MaxBlocks
    /\ \A r \in 1..MaxBlocks :
          /\ Cardinality(proposed[r]) <= 1
          /\ \A payload \in proposed[r] : payload \in Seq(Header) /\ Len(payload) <= max_block_size
    /\ held \in [Running -> SUBSET (1..requests)]
    /\ log \in Seq(1..requests) /\ committed \in [Running -> 0..Len(log)]

\* The places where a transaction that its client sent to n is, up to a header.
Places(n, t) ==
    {<<"batch", i, 0>> : i \in {j \in DOMAIN current_batch[n] : current_batch[n][j] = t}} \cup
    UNION {{<<"digests", i, j>> : j \in {k \in DOMAIN digests[n][i] : digests[n][i][k] = t}} :
              i \in DOMAIN digests[n]} \cup
    {<<"txns", i, 0>> : i \in {j \in DOMAIN txns[n] : txns[n][j] = t}} \cup
    UNION {{<<"header", h.payload, i>> : i \in {j \in DOMAIN h.payload : h.payload[j] = t}} :
              h \in {g \in ToSet(rx_proposer[n]) \cup headers[n] : g.author = n}}

\* From the worker to the store of the primary, a transaction that was sent once
\* is in exactly one place: neither the sealing of a batch nor the making of a
\* header, by size or by timer, loses it or takes it twice (BatchMaker::seal,
\* make_header, Core::process_own_header).
TransactionsConserved ==
    \A t \in Txn : submitted[t] = 1 =>
        Cardinality(UNION {{<<n, p>> : p \in Places(n, t)} : n \in Running}) = 1

Certified ==
    UNION {certificates[n] \cup ToSet(buffer[n]) : n \in Running} \cup
    UNION {UNION {ToSet(payload) : payload \in proposed[r]} : r \in 1..MaxBlocks} \cup
    {m.header : m \in {k \in BagToSet(messages) : k.type = "Certificate"}}

\* The header of a certificate is in the stores of f+1 nodes, wherever the
\* certificate has got to (Core::process_header, VotesAggregator::append).  Nothing
\* brings it to the other nodes in time: the Committer of one goes on without it.
CertifiedIsAvailable ==
    \A h \in Certified : Cardinality({n \in Running : h \in headers[n]}) >= validity_threshold

\* A node that has committed a block has its certificates in the store, or they
\* are on their way there by the GarbageCollector (Core::commit,
\* MempoolDriver::cleanup, GarbageCollector::run).
CommittedIsKnown ==
    \A n \in Running : \A i \in 1..committed[n] : \A payload \in proposed[log[i]] :
        ToSet(payload) \subseteq certificates[n] \cup ToSet(feedback[n]) \cup ToSet(loopback[n])

\* No transaction is given to the executor twice for one block, although a
\* certificate that arrives twice is proposed twice (deduplicate_transactions).
OncePerBlock ==
    \A n \in Running : \A i \in DOMAIN executed[n] : IsInjective(executed[n][i])

\* process_header, of the Core's own vote: expect("Failed to process our own vote").
OwnVoteCounts == \A n \in Running : ~panicked[n]

\* Again and again there is a time when every transaction that clients have sent
\* is in a header of which all nodes that run have the certificate
\* (Core::process_vote).  No store forgets, so each one gets there.
CertifiedEventually ==
    []<>(\A t \in Txn : submitted[t] > 0 =>
            \E c \in Client : \E h \in headers[c] :
                t \in ToSet(h.payload) /\ \A n \in Running : h \in certificates[n])
=============================================================================
