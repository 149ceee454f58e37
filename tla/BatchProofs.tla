---------------------------- MODULE BatchProofs -----------------------------
(***************************************************************************)
(* A batch whose digest the primary was told of outlives the failure of    *)
(* any C workers, for every committee, all transactions and all bounds.    *)
(***************************************************************************)
EXTENDS WorkerProofs

\* Worker m has the batch b on its disk or in the channel to it, or has failed.
HeldBy(m, b) == m \in failed \/ b \in store[m] \cup tx_processor[m]

\* As long as the Processor of n has not stored an own batch, n holds it in tx_batch.
Backs(m, n, b) == HeldBy(m, b) \/ (m = n /\ b \in tx_batch[n])

\* A quorum holds b.
Backed(n, b) ==
    \E Q \in SUBSET Node :
        /\ Cardinality(Q) >= quorum_threshold
        /\ \A m \in Q : Backs(m, n, b)

\* The inductive invariant behind ReportedIsHeld: an ACK means that the batch is
\* held, and everything past the QuorumWaiter is held by a quorum.
BatchInv ==
    /\ Cardinality(failed) <= C
    /\ \A n \in Node : \A a \in acked[n] : a[2] # n /\ HeldBy(a[2], a[1])
    /\ \A n \in Node : tx_primary[n] \cup primary[n] \subseteq store[n]
    /\ \A n \in Node : \A b \in tx_batch[n] \cup tx_primary[n] \cup primary[n] : Backed(n, b)

-----------------------------------------------------------------------------
\* A batch that a worker holds leaves it only by its failure.
LEMMA HeldStep ==
    ASSUME Tables, [Next]_vars
    PROVE  /\ failed \subseteq failed'
           /\ \A m \in Node : store[m] \subseteq store'[m]
           /\ \A m \in Node : \A b : HeldBy(m, b) => HeldBy(m, b)'
           /\ \A n \in Node : \A b \in tx_batch[n] : b \in tx_batch'[n] \/ HeldBy(n, b)'
<1> DEFINE Kept == /\ failed \subseteq failed'
                   /\ \A m \in Node : store[m] \subseteq store'[m]
                   /\ \A m \in Node : tx_processor[m] \subseteq
                                          tx_processor'[m] \cup store'[m] \/ m \in failed'
                   /\ \A m \in Node : tx_batch[m] \subseteq
                                          tx_batch'[m] \cup store'[m] \/ m \in failed'
<1> SUFFICES Kept
  BY DEF HeldBy
<1>1. CASE UNCHANGED <<tx_batch, tx_processor, store, failed>>
  BY <1>1
<1>2. ASSUME NEW b, NEW m \in Node, tx_processor' = Arrived(b, m) \/ UNCHANGED tx_processor,
             UNCHANGED <<tx_batch, store, failed>>
      PROVE  Kept
  <2>1. CASE UNCHANGED tx_processor
    BY <1>2, <2>1
  <2>2. CASE tx_processor' = Put(tx_processor, m, b)
    <3>1. \A k \in Node : tx_processor[k] \subseteq tx_processor'[k]
      BY <2>2 DEF Put, Tables
    <3>2. QED
      BY <1>2, <3>1
  <2>3. QED
    BY <1>2, <2>1, <2>2 DEF Arrived
<1>3. ASSUME NEW n \in Node, QuorumWaiter(n)
      PROVE  Kept
  BY <1>3 DEF QuorumWaiter, Put, Tables
<1>4. ASSUME NEW n \in Node, ProcessOwn(n)
      PROVE  Kept
  BY <1>4 DEF ProcessOwn, Put, Take, Tables
<1>5. ASSUME NEW n \in Node, ProcessOthers(n)
      PROVE  Kept
  BY <1>5 DEF ProcessOthers, making, Put, Take, Tables
<1>6. ASSUME NEW n \in Node, Fail(n)
      PROVE  Kept
  BY <1>6 DEF Fail, Tables
<1>7. ASSUME NEW n \in Node, NEW m \in Node, NEW ack \in BOOLEAN, Deliver(n, m, ack)
      PROVE  Kept
  BY <1>2, <1>7 DEF Deliver
<1>8. ASSUME NEW n \in Node, NEW b \in Batch, NEW arrives \in BOOLEAN, Helper(n, b, arrives)
      PROVE  Kept
  <2>1. PICK r \in tx_helper[n] :
            tx_processor' = IF arrives /\ b \in store[n] THEN Arrived(b, r[2])
                                                        ELSE tx_processor
    BY <1>8 DEF Helper
  <2>2. r[2] \in Node
    BY DEF Tables
  <2>3. QED
    BY <1>2, <1>8, <2>1, <2>2 DEF Helper, making
<1>9. ASSUME NEW n \in Node, Step(n)
      PROVE  Kept
  <2> HIDE DEF Kept
  <2>1. QED
    BY <1>1, <1>3, <1>4, <1>5, <1>6, <1>7, <1>8, <1>9
       DEF Step, SealTimer, PrimaryConnector, Synchronize, Cleanup, Waiter, Retry, making
<1>10. QED
  <2> HIDE DEF Kept
  <2>1. QED
    BY <1>1, <1>9 DEF Next, ReceiveTransaction, vars, making

\* An ACK in acked comes from another worker that holds the batch or has failed.
LEMMA AckedStep ==
    ASSUME Tables, BatchInv, [Next]_vars
    PROVE  \A n \in Node : \A a \in acked'[n] : a[2] # n /\ HeldBy(a[2], a[1])'
<1> DEFINE Goal == \A n \in Node : \A a \in acked'[n] : a[2] # n /\ HeldBy(a[2], a[1])'
<1> SUFFICES Goal
  OBVIOUS
<1>1. ASSUME NEW n \in Node, NEW a \in acked[n]
      PROVE  a[2] # n /\ HeldBy(a[2], a[1])'
  <2>1. a[2] \in Node
    BY DEF Tables
  <2>2. QED
    BY <1>1, <2>1, HeldStep DEF BatchInv
<1>2. CASE \A n \in Node : acked'[n] \subseteq acked[n]
  BY <1>1, <1>2
<1>3. ASSUME NEW n \in Node, NEW m \in Node \ failed, NEW ack \in BOOLEAN, Deliver(n, m, ack)
      PROVE  Goal
  <2>1. PICK b : /\ tx_processor' = Arrived(b, m)
                 /\ acked' = IF ack THEN Put(acked, n, <<b, m>>) ELSE acked
    BY <1>3 DEF Deliver
  <2>2. m # n /\ UNCHANGED store
    BY <1>3 DEF Deliver
  <2>3. HeldBy(m, b)'
    <3>1. CASE b \in store[m]
      BY <2>2, <3>1 DEF HeldBy
    <3>2. CASE b \notin store[m]
      <4>1. tx_processor' = Put(tx_processor, m, b)
        BY <2>1, <3>2 DEF Arrived
      <4>2. b \in tx_processor'[m]
        BY <4>1 DEF Put, Tables
      <4>3. QED
        BY <4>2 DEF HeldBy
    <3>3. QED
      BY <3>1, <3>2
  <2>4. ASSUME NEW k \in Node, NEW a \in acked'[k]
        PROVE  a \in acked[k] \/ (k = n /\ a = <<b, m>>)
    BY <2>1 DEF Put, Tables
  <2>5. <<b, m>>[1] = b /\ <<b, m>>[2] = m
    OBVIOUS
  <2>6. ASSUME NEW k \in Node, NEW a \in acked'[k]
        PROVE  a[2] # k /\ HeldBy(a[2], a[1])'
    <3>1. CASE a \in acked[k]
      BY <1>1, <3>1
    <3>2. CASE k = n /\ a = <<b, m>>
      BY <2>2, <2>3, <2>5, <3>2
    <3>3. QED
      BY <2>4, <3>1, <3>2
  <2>7. QED
    BY <2>6
<1>4. ASSUME NEW n \in Node, QuorumWaiter(n)
      PROVE  Goal
  BY <1>2, <1>4 DEF QuorumWaiter, Tables
<1>5. ASSUME NEW n \in Node, Fail(n)
      PROVE  Goal
  BY <1>2, <1>5 DEF Fail, Tables
<1>6. CASE UNCHANGED acked
  BY <1>2, <1>6
<1>7. ASSUME NEW n \in Node, Step(n)
      PROVE  Goal
  <2> HIDE DEF Goal
  <2>1. QED
    BY <1>3, <1>4, <1>5, <1>6, <1>7
       DEF Step, SealTimer, ProcessOwn, ProcessOthers, PrimaryConnector, Synchronize, Cleanup,
           Waiter, Retry, Helper, making
<1>8. QED
  <2> HIDE DEF Goal
  <2>1. QED
    BY <1>6, <1>7 DEF Next, ReceiveTransaction, vars, making

\* BatchInv is inductive.
LEMMA BatchStep == Tables /\ BatchInv /\ [Next]_vars => BatchInv'
<1> SUFFICES ASSUME Tables, BatchInv, [Next]_vars
             PROVE  BatchInv'
  OBVIOUS
<1> DEFINE Fewer == Cardinality(failed') <= C
           Own == \A n \in Node :
                      /\ tx_primary'[n] \cup primary'[n] \subseteq store'[n]
                      /\ \A b \in tx_batch'[n] \cup tx_primary'[n] \cup primary'[n] :
                            Backed(n, b)'
<1>1. ASSUME NEW n \in Node, NEW b, Backed(n, b)
      PROVE  Backed(n, b)'
  <2>1. PICK Q \in SUBSET Node : /\ Cardinality(Q) >= quorum_threshold
                                 /\ \A m \in Q : Backs(m, n, b)
    BY <1>1 DEF Backed
  <2>2. \A m \in Q : Backs(m, n, b)'
    BY <2>1, HeldStep DEF Backs
  <2>3. QED
    BY <2>1, <2>2 DEF Backed
<1>2. Fewer
  <2>1. CASE UNCHANGED failed
    BY <2>1 DEF BatchInv
  <2>2. ASSUME NEW n \in Node, Fail(n)
        PROVE  Fewer
    <3>1. IsFiniteSet(failed) /\ Cardinality(failed) \in Nat
      BY CommitteeAssumption, FS_Subset, FS_CardinalityType DEF Tables
    <3>2. Cardinality(failed \cup {n}) <= Cardinality(failed) + 1
      BY <3>1, FS_AddElement
    <3>3. Cardinality(failed \cup {n}) \in Nat
      BY <3>1, FS_AddElement, FS_CardinalityType
    <3>4. Cardinality(failed) < C /\ failed' = failed \cup {n}
      BY <2>2 DEF Fail
    <3>5. QED
      BY <3>1, <3>2, <3>3, <3>4, CommitteeAssumption
  <2> HIDE DEF Fewer
  <2>3. ASSUME NEW n \in Node, Step(n)
        PROVE  Fewer
    BY <2>1, <2>2, <2>3
       DEF Step, SealTimer, Deliver, QuorumWaiter, ProcessOwn, ProcessOthers, PrimaryConnector,
           Synchronize, Cleanup, Waiter, Retry, Helper
  <2>4. QED
    BY <2>1, <2>3 DEF Next, ReceiveTransaction, vars
<1>3. Own
  <2>1. CASE \A n \in Node : /\ tx_batch'[n] \subseteq tx_batch[n]
                             /\ tx_primary'[n] \subseteq tx_primary[n]
                             /\ primary'[n] \subseteq primary[n]
    BY <1>1, <2>1, HeldStep DEF BatchInv
  <2>2. ASSUME NEW n \in Node, QuorumWaiter(n)
        PROVE  Own
    <3>1. PICK b, acks :
              /\ acks = {m \in Node : <<b, m>> \in acked[n]}
              /\ QuorumReached(Cardinality(acks))
              /\ tx_batch' = Put(tx_batch, n, b)
              /\ UNCHANGED <<tx_primary, primary, store>>
      BY <2>2 DEF QuorumWaiter
    <3> DEFINE Q == acks \cup {n}
    <3>2. ASSUME NEW m \in acks
          PROVE  m # n /\ HeldBy(m, b)
      <4>1. <<b, m>>[1] = b /\ <<b, m>>[2] = m
        OBVIOUS
      <4>2. QED
        BY <3>1, <4>1 DEF BatchInv
    <3>3. acks \in SUBSET Node /\ n \notin acks
      BY <3>1, <3>2
    <3>4. Cardinality(Q) >= quorum_threshold
      <4>1. IsFiniteSet(acks)
        BY <3>3, CommitteeAssumption, FS_Subset
      <4>2. Cardinality(Q) = Cardinality(acks) + 1 /\ Cardinality(acks) \in Nat
        BY <3>3, <4>1, FS_AddElement, FS_CardinalityType
      <4>3. QED
        BY <3>1, <4>2, ThresholdTypes DEF QuorumReached
    <3>5. b \in tx_batch'[n]
      BY <3>1 DEF Put, Tables
    <3>6. \A m \in Q : Backs(m, n, b)'
      BY <3>2, <3>3, <3>5, HeldStep DEF Backs
    <3>7. Backed(n, b)'
      <4>1. Q \in SUBSET Node
        BY <3>3
      <4>2. QED
        BY <3>4, <3>6, <4>1 DEF Backed
    <3>8. ASSUME NEW k \in Node, NEW d \in tx_batch'[k]
          PROVE  d \in tx_batch[k] \/ (k = n /\ d = b)
      BY <3>1 DEF Put, Tables
    <3>9. QED
      BY <1>1, <3>1, <3>7, <3>8 DEF BatchInv
  <2>3. ASSUME NEW n \in Node, ProcessOwn(n)
        PROVE  Own
    <3>1. PICK b \in tx_batch[n] : /\ tx_batch' = Take(tx_batch, n, b)
                                   /\ store' = Put(store, n, b)
                                   /\ tx_primary' = Put(tx_primary, n, b)
      BY <2>3 DEF ProcessOwn
    <3>2. UNCHANGED primary
      BY <2>3 DEF ProcessOwn
    <3>3. ASSUME NEW k \in Node
          PROVE  /\ tx_batch'[k] \subseteq tx_batch[k]
                 /\ \A d \in tx_primary'[k] : d \in tx_primary[k] \/ (k = n /\ d = b)
      BY <3>1 DEF Put, Take, Tables
    <3>4. b \in store'[n]
      BY <3>1 DEF Put, Tables
    <3>5. ASSUME NEW k \in Node
          PROVE  tx_primary'[k] \cup primary'[k] \subseteq store'[k]
      BY <3>2, <3>3, <3>4, HeldStep DEF BatchInv
    <3>6. ASSUME NEW k \in Node, NEW d \in tx_batch'[k] \cup tx_primary'[k] \cup primary'[k]
          PROVE  Backed(k, d)'
      <4>1. d \in tx_batch[k] \cup tx_primary[k] \cup primary[k]
        BY <3>2, <3>3
      <4>2. QED
        BY <1>1, <4>1 DEF BatchInv
    <3>7. QED
      BY <3>5, <3>6
  <2>4. ASSUME NEW n \in Node, PrimaryConnector(n)
        PROVE  Own
    <3>1. ASSUME NEW k \in Node
          PROVE  /\ tx_primary'[k] \subseteq tx_primary[k]
                 /\ primary'[k] \subseteq primary[k] \cup tx_primary[k]
      BY <2>4 DEF PrimaryConnector, Put, Take, Tables
    <3>2. UNCHANGED <<tx_batch, store>>
      BY <2>4 DEF PrimaryConnector, making
    <3>3. QED
      BY <1>1, <3>1, <3>2 DEF BatchInv
  <2>5. ASSUME NEW n \in Node, Fail(n)
        PROVE  Own
    BY <2>1, <2>5 DEF Fail, Tables
  <2>6. CASE UNCHANGED <<tx_batch, tx_primary, primary>>
    BY <2>1, <2>6
  <2> HIDE DEF Own
  <2>7. ASSUME NEW n \in Node, Step(n)
        PROVE  Own
    BY <2>2, <2>3, <2>4, <2>5, <2>6, <2>7
       DEF Step, SealTimer, Deliver, ProcessOthers, Synchronize, Cleanup, Waiter, Retry, Helper,
           making
  <2>8. QED
    BY <2>6, <2>7 DEF Next, ReceiveTransaction, vars, making
<1>4. QED
  BY <1>2, <1>3, AckedStep DEF BatchInv

\* The batch of every digest that a worker reported to its primary is with a worker
\* that runs, on its disk or in the channel to it, whichever C workers fail and
\* whenever they do: seal, QuorumWaiter::run and Processor::spawn.  A quorum has
\* more than C members.
THEOREM ReportedBatchesSurvive == Spec => []ReportedIsHeld
<1>1. Init => BatchInv
  <2> SUFFICES ASSUME Init
               PROVE  BatchInv
    OBVIOUS
  <2>1. Cardinality(failed) <= C
    BY CommitteeAssumption, FS_EmptySet DEF Init
  <2>2. \A n \in Node : /\ acked[n] = {} /\ tx_batch[n] = {}
                        /\ tx_primary[n] = {} /\ primary[n] = {}
    BY DEF Init, Everywhere
  <2>3. QED
    BY <2>1, <2>2 DEF BatchInv
<1>2. Tables /\ BatchInv => ReportedIsHeld
  <2> SUFFICES ASSUME Tables, BatchInv, NEW n \in Node, NEW b \in primary[n]
               PROVE  \E m \in Node \ failed : b \in store[m] \cup tx_processor[m]
    BY DEF ReportedIsHeld
  <2>1. Backed(n, b) /\ b \in store[n]
    BY DEF BatchInv
  <2>2. PICK Q \in SUBSET Node : /\ Cardinality(Q) >= quorum_threshold
                                 /\ \A m \in Q : Backs(m, n, b)
    BY <2>1 DEF Backed
  <2>3. ~(Q \subseteq failed)
    <3>1. IsFiniteSet(failed) /\ IsFiniteSet(Q)
      BY CommitteeAssumption, FS_Subset DEF Tables
    <3>2. Q \subseteq failed => Cardinality(Q) <= Cardinality(failed)
      BY <3>1, FS_Subset
    <3>3. Cardinality(Q) \in Nat /\ Cardinality(failed) \in Nat
      BY <3>1, FS_CardinalityType
    <3>4. quorum_threshold > C
      BY ThresholdTypes, CommitteeAssumption DEF quorum_threshold
    <3>5. QED
      BY <2>2, <3>2, <3>3, <3>4, ThresholdTypes, CommitteeAssumption DEF BatchInv
  <2>4. PICK m \in Q : m \notin failed
    BY <2>3
  <2>5. b \in store[m] \cup tx_processor[m]
    BY <2>1, <2>2, <2>4 DEF Backs, HeldBy
  <2>6. QED
    BY <2>4, <2>5
<1>3. QED
  BY <1>1, <1>2, TablesHold, BatchStep, PTL DEF Spec
=============================================================================
