---------------------------- MODULE WorkerProofs ----------------------------
(***************************************************************************)
(* The Synchronizer of a worker repeats no request without a waiter, for   *)
(* every committee, all transactions and all bounds.                       *)
(***************************************************************************)
EXTENDS Worker, CommitteeProofs

\* The tables of the workers are functions on Node, and everything in them has the
\* shape that the actions give it.
Tables ==
    /\ current_batch \in [Node -> SUBSET Txn]
    /\ tx_message \in [Node -> Seq(Batch)]
    /\ acked \in [Node -> SUBSET (Batch \X Node)]
    /\ tx_batch \in [Node -> SUBSET Batch]
    /\ tx_processor \in [Node -> SUBSET Batch]
    /\ store \in [Node -> SUBSET Batch]
    /\ tx_primary \in [Node -> SUBSET Batch]
    /\ primary \in [Node -> SUBSET Batch]
    /\ round \in [Node -> Nat]
    /\ pending \in [Node -> SUBSET (Batch \X Nat)]
    /\ waiting \in [Node -> SUBSET (Batch \X BOOLEAN)]
    /\ tx_helper \in [Node -> SUBSET (Batch \X Node)]
    /\ failed \subseteq Node

\* The inductive invariant behind PendingIsWaited: a digest has one entry in the
\* table, so that cancelling the waiters of the old entries spares the others'.
PendingInv ==
    /\ \A n \in Node : \A p, q \in pending[n] : p[1] = q[1] => p = q
    /\ PendingIsWaited

-----------------------------------------------------------------------------
\* Every set of transactions but the empty one is a batch.
LEMMA Batches == \A S \in SUBSET Txn : S # {} => S \in Batch
BY DEF Batch

\* Cancelling leaves the waiters of the other digests alone.
LEMMA CancelTypes ==
    ASSUME NEW ws \in SUBSET (Batch \X BOOLEAN), NEW digests
    PROVE  /\ Cancel(ws, digests) \in SUBSET (Batch \X BOOLEAN)
           /\ \A w \in ws : w[1] \notin digests => w \in Cancel(ws, digests)
<1>1. ASSUME NEW w \in ws
      PROVE  (IF w[1] \in digests THEN <<w[1], TRUE>> ELSE w) \in Batch \X BOOLEAN
  <2>1. w \in Batch \X BOOLEAN
    OBVIOUS
  <2>2. w[1] \in Batch
    BY <2>1
  <2>3. <<w[1], TRUE>> \in Batch \X BOOLEAN
    BY <2>2
  <2>4. QED
    BY <2>1, <2>3
<1>2. Cancel(ws, digests) \in SUBSET (Batch \X BOOLEAN)
  BY <1>1 DEF Cancel
<1>3. ASSUME NEW w \in ws, w[1] \notin digests
      PROVE  w \in Cancel(ws, digests)
  BY <1>3 DEF Cancel
<1>4. QED
  BY <1>2, <1>3

\* The tables keep their shape.
LEMMA TablesHold == Spec => []Tables
<1>1. Init => Tables
  BY DEF Init, Tables, Everywhere
<1>2. Tables /\ [Next]_vars => Tables'
  <2> SUFFICES ASSUME Tables, [Next]_vars
               PROVE  Tables'
    OBVIOUS
  <2> USE DEF Tables
  <2>1. ASSUME NEW t \in Txn, ReceiveTransaction(t)
        PROVE  Tables'
    <3> DEFINE n == Client[t]
               batch == current_batch[n] \cup {t}
    <3>1. n \in Node /\ batch \in Batch
      <4>1. n \in Node
        BY WorkerAssumption
      <4>2. current_batch[n] \in SUBSET Txn
        BY <4>1
      <4>3. QED
        BY <4>1, <4>2, Batches
    <3>2. Append(tx_message[n], batch) \in Seq(Batch)
      BY <3>1
    <3>3. /\ current_batch' \in [Node -> SUBSET Txn]
          /\ tx_message' \in [Node -> Seq(Batch)]
      <4>1. batch \in SUBSET Txn
        BY WorkerAssumption, Batches, <3>1 DEF Batch
      <4>2. CASE Cardinality(batch) >= batch_size
        <5>1. seal(n, batch)
          BY <2>1, <4>2 DEF ReceiveTransaction
        <5> HIDE DEF n, batch
        <5>2. QED
          BY <3>1, <3>2, <5>1 DEF seal
      <4>3. CASE ~(Cardinality(batch) >= batch_size)
        BY <2>1, <3>1, <4>1, <4>3 DEF ReceiveTransaction
      <4>4. QED
        BY <4>2, <4>3
    <3>4. QED
      BY <2>1, <3>3 DEF ReceiveTransaction, syncing
  <2>2. ASSUME NEW n \in Node, SealTimer(n)
        PROVE  Tables'
    <3>1. current_batch[n] \in Batch
      <4>1. current_batch[n] \in SUBSET Txn
        OBVIOUS
      <4>2. QED
        BY <2>2, <4>1, Batches DEF SealTimer, Sealable
    <3>2. Append(tx_message[n], current_batch[n]) \in Seq(Batch)
      BY <3>1
    <3>3. QED
      BY <2>2, <3>2 DEF SealTimer, seal, syncing
  <2>3. ASSUME NEW n \in Node, NEW m \in Node, NEW ack \in BOOLEAN, Deliver(n, m, ack)
        PROVE  Tables'
    <3>1. PICK i \in DOMAIN tx_message[n] :
              /\ tx_processor' = Arrived(tx_message[n][i], m)
              /\ acked' = IF ack THEN Put(acked, n, <<tx_message[n][i], m>>) ELSE acked
      BY <2>3 DEF Deliver
    <3>2. tx_message[n][i] \in Batch
      <4>1. tx_message[n] \in Seq(Batch)
        OBVIOUS
      <4>2. QED
        BY <4>1
    <3>3. tx_processor' \in [Node -> SUBSET Batch]
      BY <3>1, <3>2 DEF Arrived, Put
    <3>4. acked' \in [Node -> SUBSET (Batch \X Node)]
      <4>1. <<tx_message[n][i], m>> \in Batch \X Node
        BY <3>2
      <4>2. Put(acked, n, <<tx_message[n][i], m>>) \in [Node -> SUBSET (Batch \X Node)]
        BY <4>1 DEF Put
      <4>3. QED
        BY <3>1, <4>2
    <3>5. QED
      BY <2>3, <3>3, <3>4 DEF Deliver, syncing
  <2>4. ASSUME NEW n \in Node, QuorumWaiter(n)
        PROVE  Tables'
    <3>1. /\ tx_message[n] \in Seq(Batch) /\ tx_message[n] # << >>
      BY <2>4 DEF QuorumWaiter
    <3>2. Head(tx_message[n]) \in Batch /\ Tail(tx_message[n]) \in Seq(Batch)
      BY <3>1
    <3>3. tx_batch' \in [Node -> SUBSET Batch]
      BY <2>4, <3>2 DEF QuorumWaiter, Put
    <3>4. QED
      BY <2>4, <3>2, <3>3 DEF QuorumWaiter, syncing
  <2>5. ASSUME NEW n \in Node, ProcessOwn(n)
        PROVE  Tables'
    <3>1. /\ tx_batch' \in [Node -> SUBSET Batch]
          /\ store' \in [Node -> SUBSET Batch]
          /\ tx_primary' \in [Node -> SUBSET Batch]
      BY <2>5 DEF ProcessOwn, Put, Take
    <3>2. QED
      BY <2>5, <3>1 DEF ProcessOwn, syncing
  <2>6. ASSUME NEW n \in Node, ProcessOthers(n)
        PROVE  Tables'
    <3>1. /\ tx_processor' \in [Node -> SUBSET Batch]
          /\ store' \in [Node -> SUBSET Batch]
      BY <2>6 DEF ProcessOthers, Put, Take
    <3>2. QED
      BY <2>6, <3>1 DEF ProcessOthers, syncing, making
  <2>7. ASSUME NEW n \in Node, PrimaryConnector(n)
        PROVE  Tables'
    <3>1. /\ tx_primary' \in [Node -> SUBSET Batch]
          /\ primary' \in [Node -> SUBSET Batch]
      BY <2>7 DEF PrimaryConnector, Put, Take
    <3>2. QED
      BY <2>7, <3>1 DEF PrimaryConnector, syncing, making
  <2>8. ASSUME NEW n \in Node, NEW m \in Node, Synchronize(n, m)
        PROVE  Tables'
    <3>1. PICK digests \in SUBSET primary[m] :
              LET new == {b \in digests : ~IsPending(n, b)}
              IN  /\ pending' = [pending EXCEPT ![n] = @ \cup {<<b, round[n]>> : b \in new}]
                  /\ waiting' = [waiting EXCEPT ![n] = @ \cup {<<b, FALSE>> : b \in new}]
                  /\ Ask(n, new \ store[n], {m})
      BY <2>8 DEF Synchronize
    <3> DEFINE new == {b \in digests : ~IsPending(n, b)}
    <3>2. new \subseteq Batch
      <4>1. primary[m] \in SUBSET Batch
        OBVIOUS
      <4>2. QED
        BY <4>1
    <3>3. {<<b, round[n]>> : b \in new} \subseteq Batch \X Nat
      BY <3>2
    <3>4. {<<b, FALSE>> : b \in new} \subseteq Batch \X BOOLEAN
      <4>1. ASSUME NEW b \in new
            PROVE  <<b, FALSE>> \in Batch \X BOOLEAN
        BY <3>2
      <4>2. QED
        <5> HIDE DEF new, Tables
        <5>1. ASSUME NEW w \in {<<b, FALSE>> : b \in new}
              PROVE  w \in Batch \X BOOLEAN
          <6>1. PICK b \in new : w = <<b, FALSE>>
            OBVIOUS
          <6>2. QED
            BY <4>1, <6>1
        <5>2. QED
          BY <5>1
    <3>5. (new \ store[n]) \X {n} \subseteq Batch \X Node
      BY <3>2
    <3> HIDE DEF new
    <3>6. tx_helper' \in [Node -> SUBSET (Batch \X Node)]
      BY <3>1, <3>5 DEF Ask, new
    <3>7. pending' \in [Node -> SUBSET (Batch \X Nat)]
      BY <3>1, <3>3 DEF new
    <3>8. waiting' \in [Node -> SUBSET (Batch \X BOOLEAN)]
      BY <3>1, <3>4 DEF new
    <3>9. QED
      BY <2>8, <3>6, <3>7, <3>8 DEF Synchronize, making
  <2>9. ASSUME NEW n \in Node, Cleanup(n)
        PROVE  Tables'
    <3>1. PICK digests : waiting' = [waiting EXCEPT ![n] = Cancel(@, digests)]
      BY <2>9 DEF Cleanup
    <3>2. Cancel(waiting[n], digests) \in SUBSET (Batch \X BOOLEAN)
      BY CancelTypes
    <3>3. waiting' \in [Node -> SUBSET (Batch \X BOOLEAN)]
      BY <3>1, <3>2
    <3>4. pending' \in [Node -> SUBSET (Batch \X Nat)] /\ round' \in [Node -> Nat]
      BY <2>9 DEF Cleanup
    <3>5. QED
      BY <2>9, <3>3, <3>4 DEF Cleanup, making
  <2>10. ASSUME NEW n \in Node, Waiter(n)
         PROVE  Tables'
    <3>1. PICK w \in waiting[n] :
              \/ /\ pending' = [pending EXCEPT ![n] = {p \in @ : p[1] # w[1]}]
                 /\ waiting' = [waiting EXCEPT ![n] = Cancel(@ \ {w}, {w[1]})]
              \/ /\ waiting' = [waiting EXCEPT ![n] = @ \ {w}]
                 /\ UNCHANGED pending
      BY <2>10 DEF Waiter
    <3>2. Cancel(waiting[n] \ {w}, {w[1]}) \in SUBSET (Batch \X BOOLEAN)
      BY CancelTypes
    <3>3. waiting' \in [Node -> SUBSET (Batch \X BOOLEAN)]
      <4>1. CASE waiting' = [waiting EXCEPT ![n] = Cancel(@ \ {w}, {w[1]})]
        BY <3>2, <4>1
      <4>2. CASE waiting' = [waiting EXCEPT ![n] = @ \ {w}]
        BY <4>2
      <4>3. QED
        BY <3>1, <4>1, <4>2
    <3>4. pending' \in [Node -> SUBSET (Batch \X Nat)]
      <4>1. CASE pending' = [pending EXCEPT ![n] = {p \in @ : p[1] # w[1]}]
        BY <4>1
      <4>2. CASE UNCHANGED pending
        BY <4>2
      <4>3. QED
        BY <3>1, <4>1, <4>2
    <3>5. QED
      BY <2>10, <3>3, <3>4 DEF Waiter, making
  <2>11. ASSUME NEW n \in Node, NEW targets, Retry(n, targets)
         PROVE  Tables'
    <3>1. {p[1] : p \in pending[n]} \X {n} \subseteq Batch \X Node
      OBVIOUS
    <3>2. tx_helper' \in [Node -> SUBSET (Batch \X Node)]
      BY <2>11, <3>1 DEF Retry, Ask
    <3>3. QED
      BY <2>11, <3>2 DEF Retry, making
  <2>12. ASSUME NEW n \in Node, NEW b \in Batch, NEW arrives \in BOOLEAN, Helper(n, b, arrives)
         PROVE  Tables'
    <3>1. PICK r \in tx_helper[n] :
              /\ tx_helper' = Take(tx_helper, n, r)
              /\ tx_processor' = IF arrives /\ b \in store[n] THEN Arrived(b, r[2])
                                                             ELSE tx_processor
      BY <2>12 DEF Helper
    <3>2. r[2] \in Node
      OBVIOUS
    <3>3. tx_processor' \in [Node -> SUBSET Batch]
      BY <3>1, <3>2 DEF Arrived, Put
    <3>4. tx_helper' \in [Node -> SUBSET (Batch \X Node)]
      BY <3>1 DEF Take
    <3>5. QED
      BY <2>12, <3>3, <3>4 DEF Helper, making
  <2>13. ASSUME NEW n \in Node, Fail(n)
         PROVE  Tables'
    BY <2>13 DEF Fail
  <2>14. CASE UNCHANGED vars
    BY <2>14 DEF vars, making, syncing
  <2>15. QED
    <3> HIDE DEF Tables
    <3>1. ASSUME NEW n \in Node, Step(n)
          PROVE  Tables'
      BY <3>1, <2>2, <2>3, <2>4, <2>5, <2>6, <2>7, <2>8, <2>9, <2>10, <2>11, <2>12, <2>13
         DEF Step
    <3>2. QED
      BY <2>1, <2>14, <3>1 DEF Next
<1>3. QED
  BY <1>1, <1>2, PTL DEF Spec

-----------------------------------------------------------------------------
\* No step of the Synchronizer leaves a request without the waiter that ends it.
LEMMA PendingStep == Tables /\ PendingInv /\ [Next]_vars => PendingInv'
<1> SUFFICES ASSUME Tables, PendingInv, [Next]_vars
             PROVE  PendingInv'
  OBVIOUS
<1>1. ASSUME NEW n \in Node,
             \A m \in Node \ {n} : pending'[m] = pending[m] /\ waiting'[m] = waiting[m],
             \A p, q \in pending'[n] : p[1] = q[1] => p = q,
             \A p \in pending'[n] : <<p[1], FALSE>> \in waiting'[n]
      PROVE  PendingInv'
  BY <1>1 DEF PendingInv, PendingIsWaited
<1>2. CASE UNCHANGED <<pending, waiting>>
  BY <1>2 DEF PendingInv, PendingIsWaited
<1>3. ASSUME NEW n \in Node, NEW m \in Node, Synchronize(n, m)
      PROVE  PendingInv'
  <2>1. PICK digests \in SUBSET primary[m] :
            LET new == {b \in digests : ~IsPending(n, b)}
            IN  /\ pending' = [pending EXCEPT ![n] = @ \cup {<<b, round[n]>> : b \in new}]
                /\ waiting' = [waiting EXCEPT ![n] = @ \cup {<<b, FALSE>> : b \in new}]
    BY <1>3 DEF Synchronize
  <2> DEFINE new == {b \in digests : ~IsPending(n, b)}
  <2>2. /\ pending'[n] = pending[n] \cup {<<b, round[n]>> : b \in new}
        /\ waiting'[n] = waiting[n] \cup {<<b, FALSE>> : b \in new}
        /\ \A k \in Node \ {n} : pending'[k] = pending[k] /\ waiting'[k] = waiting[k]
    BY <2>1 DEF Tables
  <2>3. \A p \in pending[n] : p[1] \notin new
    BY DEF IsPending
  <2> HIDE DEF new
  <2>4. ASSUME NEW p \in pending'[n], NEW q \in pending'[n], p[1] = q[1]
        PROVE  p = q
    <3>1. CASE p \in pending[n] /\ q \in pending[n]
      BY <2>4, <3>1 DEF PendingInv
    <3>2. CASE p \notin pending[n] \/ q \notin pending[n]
      BY <2>2, <2>3, <2>4, <3>2
    <3>3. QED
      BY <3>1, <3>2
  <2>5. ASSUME NEW p \in pending'[n]
        PROVE  <<p[1], FALSE>> \in waiting'[n]
    <3>1. CASE p \in pending[n]
      BY <2>2, <3>1 DEF PendingInv, PendingIsWaited
    <3>2. CASE p \in {<<b, round[n]>> : b \in new}
      BY <2>2, <3>2
    <3>3. QED
      BY <2>2, <3>1, <3>2
  <2>6. QED
    BY <1>1, <2>2, <2>4, <2>5
<1>4. ASSUME NEW n \in Node, Cleanup(n)
      PROVE  PendingInv'
  <2> DEFINE old == {p \in pending[n] : p[2] + gc_depth <= round'[n]}
             digests == {p[1] : p \in old}
  <2>1. /\ pending'[n] = pending[n] \ old
        /\ waiting'[n] = Cancel(waiting[n], digests)
        /\ \A k \in Node \ {n} : pending'[k] = pending[k] /\ waiting'[k] = waiting[k]
    BY <1>4 DEF Cleanup, Tables
  <2>2. old \subseteq pending[n]
    OBVIOUS
  <2> HIDE DEF old
  <2>3. ASSUME NEW p \in pending'[n]
        PROVE  <<p[1], FALSE>> \in waiting'[n]
    <3>1. p \in pending[n] /\ p \notin old
      BY <2>1
    <3>2. p[1] \notin digests
      BY <2>2, <3>1 DEF PendingInv
    <3>3. <<p[1], FALSE>> \in waiting[n]
      BY <3>1 DEF PendingInv, PendingIsWaited
    <3>4. waiting[n] \in SUBSET (Batch \X BOOLEAN)
      BY DEF Tables
    <3>5. <<p[1], FALSE>>[1] \notin digests
      BY <3>2
    <3> HIDE DEF digests
    <3>6. QED
      BY <2>1, <3>3, <3>4, <3>5, CancelTypes
  <2>4. \A p, q \in pending'[n] : p[1] = q[1] => p = q
    BY <2>1 DEF PendingInv
  <2>5. QED
    BY <1>1, <2>1, <2>3, <2>4
<1>5. ASSUME NEW n \in Node, Waiter(n)
      PROVE  PendingInv'
  <2>1. PICK w \in waiting[n] :
            \/ /\ pending' = [pending EXCEPT ![n] = {p \in @ : p[1] # w[1]}]
               /\ waiting' = [waiting EXCEPT ![n] = Cancel(@ \ {w}, {w[1]})]
            \/ /\ w[2]
               /\ waiting' = [waiting EXCEPT ![n] = @ \ {w}]
               /\ UNCHANGED pending
    BY <1>5 DEF Waiter
  <2>2. /\ \A k \in Node \ {n} : pending'[k] = pending[k] /\ waiting'[k] = waiting[k]
        /\ \/ /\ pending'[n] = {p \in pending[n] : p[1] # w[1]}
              /\ waiting'[n] = Cancel(waiting[n] \ {w}, {w[1]})
           \/ w[2] /\ waiting'[n] = waiting[n] \ {w} /\ pending'[n] = pending[n]
    BY <2>1 DEF Tables
  <2>3. ASSUME NEW p \in pending'[n]
        PROVE  <<p[1], FALSE>> \in waiting'[n]
    <3>1. p \in pending[n] /\ <<p[1], FALSE>> \in waiting[n]
      BY <2>2 DEF PendingInv, PendingIsWaited
    <3>2. CASE /\ pending'[n] = {q \in pending[n] : q[1] # w[1]}
               /\ waiting'[n] = Cancel(waiting[n] \ {w}, {w[1]})
      <4>1. p[1] # w[1]
        BY <3>2
      <4>2. <<p[1], FALSE>> \in waiting[n] \ {w} /\ <<p[1], FALSE>>[1] \notin {w[1]}
        <5>1. <<p[1], FALSE>>[1] = p[1]
          OBVIOUS
        <5>2. <<p[1], FALSE>>[1] # w[1]
          BY <4>1, <5>1
        <5>3. <<p[1], FALSE>> # w
          BY <5>2, Zenon
        <5>4. QED
          BY <3>1, <5>2, <5>3
      <4>3. waiting[n] \ {w} \in SUBSET (Batch \X BOOLEAN)
        BY DEF Tables
      <4>4. QED
        BY <3>2, <4>2, <4>3, CancelTypes
    <3>3. CASE w[2] /\ waiting'[n] = waiting[n] \ {w}
      <4>1. <<p[1], FALSE>> # w
        <5>1. ~ <<p[1], FALSE>>[2]
          OBVIOUS
        <5>2. QED
          BY <3>3, <5>1, Zenon
      <4>2. QED
        BY <3>1, <3>3, <4>1
    <3>4. QED
      BY <2>2, <3>2, <3>3
  <2>4. \A p, q \in pending'[n] : p[1] = q[1] => p = q
    BY <2>2 DEF PendingInv
  <2>5. QED
    BY <1>1, <2>2, <2>3, <2>4
<1>6. ASSUME NEW n \in Node, Fail(n)
      PROVE  PendingInv'
  <2>1. /\ pending'[n] = {}
        /\ \A k \in Node \ {n} : pending'[k] = pending[k] /\ waiting'[k] = waiting[k]
    BY <1>6 DEF Fail, Tables
  <2>2. QED
    BY <1>1, <2>1
<1>7. ASSUME NEW n \in Node, Step(n)
      PROVE  PendingInv'
  BY <1>2, <1>3, <1>4, <1>5, <1>6, <1>7
     DEF Step, SealTimer, Deliver, QuorumWaiter, ProcessOwn, ProcessOthers, PrimaryConnector,
         Retry, Helper, syncing
<1>8. QED
  BY <1>2, <1>7 DEF Next, ReceiveTransaction, vars, syncing

\* A request that the Synchronizer repeats has a waiter that ends it when the batch
\* is on disk, for any number of digests, rounds and retries: waiter, and the
\* branches of Synchronizer::run on Synchronize, Cleanup and a waiter that ended.
THEOREM RequestsAreWaited == Spec => []PendingIsWaited
<1>1. Init => PendingInv
  BY DEF Init, Everywhere, PendingInv, PendingIsWaited
<1>2. PendingInv => PendingIsWaited
  BY DEF PendingInv
<1>3. QED
  BY <1>1, <1>2, TablesHold, PendingStep, PTL DEF Spec
=============================================================================
