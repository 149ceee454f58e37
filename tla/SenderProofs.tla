---------------------------- MODULE SenderProofs ----------------------------
(***************************************************************************)
(* What a connection of the ReliableSender promises, for any number of     *)
(* messages, any capacity, any refused messages and any number of breaks.  *)
(***************************************************************************)
EXTENDS ReliableSender, FunctionTheorems, FiniteSetTheorems, SequenceTheorems, TLAPS

\* The messages in a queue.
Elems(s) == {s[i] : i \in 1..Len(s)}

\* Later places of a queue hold later messages.
Increasing(s) == \A i, j \in 1..Len(s) : i < j => s[i] < s[j]

-----------------------------------------------------------------------------
(***************************************************************************)
(* Queues.                                                                 *)
(***************************************************************************)

\* Taking the head of a queue.
LEMMA TakeHead ==
    ASSUME NEW s \in Seq(Message), s # << >>
    PROVE  /\ Head(s) \in Message /\ Tail(s) \in Seq(Message)
           /\ Len(Tail(s)) = Len(s) - 1
           /\ \A i \in 1..Len(Tail(s)) : Tail(s)[i] = s[i + 1]
           /\ Elems(s) = {Head(s)} \cup Elems(Tail(s))
           /\ Increasing(s) => /\ Increasing(Tail(s))
                               /\ \A x \in Elems(Tail(s)) : Head(s) < x
<1>1. /\ Len(s) \in Nat /\ Len(s) # 0
      /\ Head(s) = s[1] /\ Head(s) \in Message /\ Tail(s) \in Seq(Message)
      /\ Len(Tail(s)) = Len(s) - 1
      /\ \A i \in 1..Len(Tail(s)) : Tail(s)[i] = s[i + 1]
  OBVIOUS
<1>2. ASSUME NEW x \in Elems(s)
      PROVE  x = Head(s) \/ x \in Elems(Tail(s))
  <2>1. PICK i \in 1..Len(s) : x = s[i]
    BY <1>2 DEF Elems
  <2>2. CASE i = 1
    BY <1>1, <2>1, <2>2
  <2>3. CASE i # 1
    <3>1. i - 1 \in 1..Len(Tail(s)) /\ Tail(s)[i - 1] = x
      BY <1>1, <2>1, <2>3
    <3>2. QED
      BY <3>1 DEF Elems
  <2>4. QED
    BY <2>2, <2>3
<1>3. ASSUME NEW x \in Elems(Tail(s))
      PROVE  \E i \in 2..Len(s) : x = s[i]
  <2>1. PICK i \in 1..Len(Tail(s)) : x = Tail(s)[i]
    BY <1>3 DEF Elems
  <2>2. i + 1 \in 2..Len(s) /\ x = s[i + 1]
    BY <1>1, <2>1
  <2>3. QED
    BY <2>2
<1>4. Elems(s) = {Head(s)} \cup Elems(Tail(s))
  <2>1. Head(s) \in Elems(s)
    BY <1>1 DEF Elems
  <2>2. Elems(Tail(s)) \subseteq Elems(s)
    BY <1>1, <1>3 DEF Elems
  <2>3. QED
    BY <1>2, <2>1, <2>2
<1>5. ASSUME Increasing(s)
      PROVE  Increasing(Tail(s)) /\ \A x \in Elems(Tail(s)) : Head(s) < x
  <2>1. Increasing(Tail(s))
    BY <1>1, <1>5 DEF Increasing
  <2>2. \A x \in Elems(Tail(s)) : Head(s) < x
    BY <1>1, <1>3, <1>5 DEF Increasing
  <2>3. QED
    BY <2>1, <2>2
<1>6. QED
  BY <1>1, <1>4, <1>5

\* Putting a message at the end of a queue.
LEMMA PutLast ==
    ASSUME NEW s \in Seq(Message), NEW m \in Message
    PROVE  /\ Append(s, m) \in Seq(Message)
           /\ Elems(Append(s, m)) = Elems(s) \cup {m}
           /\ Increasing(s) /\ (\A x \in Elems(s) : x < m) => Increasing(Append(s, m))
<1>1. /\ Append(s, m) \in Seq(Message) /\ Len(s) \in Nat
      /\ Len(Append(s, m)) = Len(s) + 1
      /\ Append(s, m)[Len(s) + 1] = m
      /\ \A i \in 1..Len(s) : Append(s, m)[i] = s[i]
  OBVIOUS
<1>2. Elems(Append(s, m)) = Elems(s) \cup {m}
  <2>1. \A i \in 1..(Len(s) + 1) : i = Len(s) + 1 \/ i \in 1..Len(s)
    BY <1>1
  <2>2. Elems(Append(s, m)) \subseteq Elems(s) \cup {m}
    BY <1>1, <2>1 DEF Elems
  <2>3. m \in Elems(Append(s, m)) /\ Elems(s) \subseteq Elems(Append(s, m))
    BY <1>1 DEF Elems
  <2>4. QED
    BY <2>2, <2>3
<1>3. ASSUME Increasing(s), \A x \in Elems(s) : x < m
      PROVE  Increasing(Append(s, m))
  <2> SUFFICES ASSUME NEW i \in 1..(Len(s) + 1), NEW j \in 1..(Len(s) + 1), i < j
               PROVE  Append(s, m)[i] < Append(s, m)[j]
    BY <1>1 DEF Increasing
  <2>1. i \in 1..Len(s) /\ s[i] \in Elems(s)
    BY <1>1 DEF Elems
  <2>2. CASE j = Len(s) + 1
    BY <1>1, <1>3, <2>1, <2>2
  <2>3. CASE j \in 1..Len(s)
    BY <1>1, <1>3, <2>1, <2>3 DEF Increasing
  <2>4. QED
    BY <1>1, <2>2, <2>3
<1>4. QED
  BY <1>1, <1>2, <1>3

\* Putting one queue in front of another.
LEMMA Join ==
    ASSUME NEW s \in Seq(Message), NEW t \in Seq(Message)
    PROVE  /\ s \o t \in Seq(Message)
           /\ Elems(s \o t) = Elems(s) \cup Elems(t)
           /\ Increasing(s) /\ Increasing(t) /\ (\A x \in Elems(s) : \A y \in Elems(t) : x < y)
                 => Increasing(s \o t)
<1>1. /\ s \o t \in Seq(Message) /\ Len(s) \in Nat /\ Len(t) \in Nat
      /\ Len(s \o t) = Len(s) + Len(t)
      /\ \A i \in 1..Len(s) : (s \o t)[i] = s[i]
      /\ \A i \in 1..Len(t) : (s \o t)[Len(s) + i] = t[i]
  OBVIOUS
<1>2. ASSUME NEW i \in 1..(Len(s) + Len(t))
      PROVE  \/ i \in 1..Len(s) /\ (s \o t)[i] = s[i]
             \/ i - Len(s) \in 1..Len(t) /\ (s \o t)[i] = t[i - Len(s)]
  <2>1. CASE i <= Len(s)
    BY <1>1, <2>1
  <2>2. CASE i > Len(s)
    <3>1. i - Len(s) \in 1..Len(t) /\ Len(s) + (i - Len(s)) = i
      BY <1>1, <2>2
    <3>2. QED
      BY <1>1, <3>1
  <2>3. QED
    BY <1>1, <2>1, <2>2
<1>3. Elems(s \o t) = Elems(s) \cup Elems(t)
  <2>1. Elems(s \o t) \subseteq Elems(s) \cup Elems(t)
    BY <1>1, <1>2 DEF Elems
  <2>2. Elems(s) \subseteq Elems(s \o t)
    BY <1>1 DEF Elems
  <2>3. ASSUME NEW i \in 1..Len(t)
        PROVE  t[i] \in Elems(s \o t)
    <3>1. Len(s) + i \in 1..Len(s \o t)
      BY <1>1
    <3>2. QED
      BY <1>1, <3>1 DEF Elems
  <2>4. QED
    BY <2>1, <2>2, <2>3 DEF Elems
<1>4. ASSUME Increasing(s), Increasing(t), \A x \in Elems(s) : \A y \in Elems(t) : x < y
      PROVE  Increasing(s \o t)
  <2> SUFFICES ASSUME NEW i \in 1..(Len(s) + Len(t)), NEW j \in 1..(Len(s) + Len(t)), i < j
               PROVE  (s \o t)[i] < (s \o t)[j]
    BY <1>1 DEF Increasing
  <2>1. CASE i \in 1..Len(s) /\ j \in 1..Len(s)
    BY <1>1, <1>4, <2>1 DEF Increasing
  <2>2. CASE i \in 1..Len(s) /\ j \notin 1..Len(s)
    <3>1. s[i] \in Elems(s) /\ t[j - Len(s)] \in Elems(t)
      BY <1>1, <1>2, <2>2 DEF Elems
    <3>2. QED
      BY <1>1, <1>2, <1>4, <2>2, <3>1
  <2>3. CASE i \notin 1..Len(s)
    <3>1. j \notin 1..Len(s)
      BY <1>1, <2>3
    <3>2. /\ i - Len(s) \in 1..Len(t) /\ j - Len(s) \in 1..Len(t)
          /\ i - Len(s) < j - Len(s)
      BY <1>1, <2>3, <3>1
    <3>3. t[i - Len(s)] < t[j - Len(s)]
      BY <1>4, <3>2 DEF Increasing
    <3>4. QED
      BY <1>2, <2>3, <3>1, <3>3
  <2>4. QED
    BY <2>1, <2>2, <2>3
<1>5. QED
  BY <1>1, <1>3, <1>4

\* Filtering the buffer keeps the messages that are open, and their order.
LEMMA RetainOpen ==
    ASSUME NEW s \in Seq(Message), Retain(s)
    PROVE  /\ buffer' \in Seq(Message)
           /\ Elems(buffer') = {x \in Elems(s) : is_open(x)}
           /\ Increasing(s) => Increasing(buffer')
<1> DEFINE kept == {i \in 1..Len(s) : is_open(s[i])}
           N == Cardinality(kept)
<1>1. IsFiniteSet(kept) /\ N \in Nat
  <2>1. IsFiniteSet(1..Len(s))
    BY FS_Interval
  <2>2. IsFiniteSet(kept)
    BY <2>1, FS_Subset
  <2>3. QED
    BY <2>2, FS_CardinalityType
<1>2. PICK f \in [1..N -> kept] :
          /\ \A i, j \in 1..N : i < j => f[i] < f[j]
          /\ buffer' = [i \in 1..N |-> s[f[i]]]
  BY DEF Retain
<1>3. \A k \in kept : \E i \in 1..N : f[i] = k
  <2>1. \A i, j \in 1..N : f[i] = f[j] => i = j
    <3>1. \A i \in 1..N : f[i] \in 1..Len(s)
      BY <1>2
    <3> HIDE DEF kept, N
    <3>2. QED
      BY <1>1, <1>2, <3>1
  <2> HIDE DEF kept, N
  <2>2. f \in Injection(1..N, kept)
    BY <2>1, Fun_IsInj
  <2>3. Cardinality(1..N) = N
    BY <1>1, FS_Interval
  <2>4. f \in Surjection(1..N, kept)
    BY <1>1, <2>2, <2>3, FS_Injection DEF N
  <2>5. QED
    BY <2>4 DEF Surjection
<1>4. \A i \in 1..N : f[i] \in 1..Len(s) /\ is_open(s[f[i]])
  BY <1>2
<1> HIDE DEF N
<1>5. /\ buffer' \in Seq(Message) /\ Len(buffer') = N
      /\ \A i \in 1..N : buffer'[i] = s[f[i]]
  BY <1>1, <1>2, <1>4
<1>6. Elems(buffer') \subseteq {x \in Elems(s) : is_open(x)}
  BY <1>4, <1>5 DEF Elems
<1>7. {x \in Elems(s) : is_open(x)} \subseteq Elems(buffer')
  BY <1>3, <1>5 DEF Elems
<1>8. ASSUME Increasing(s)
      PROVE  Increasing(buffer')
  BY <1>2, <1>4, <1>5, <1>8 DEF Increasing
<1>9. QED
  BY <1>5, <1>6, <1>7, <1>8

\* The ACKs and what follows on the wire is Seq of messages after every disconnection.
LEMMA TypesOfDisconnect ==
    ASSUME TypeOK, Disconnect, breaks' \in 0..MaxBreaks
    PROVE  TypeOK'
<1>1. closed' \in BOOLEAN
  BY Zenon DEF Disconnect
<1>2. buffer' \in Seq(Message) /\ stale' \subseteq Seq(Message) \ {<< >>}
  BY DEF TypeOK, Disconnect
<1>3. /\ handle' = handle /\ channel' = channel /\ taken' = taken /\ delivered' = delivered
      /\ phase' = "connecting" /\ busy' = Nothing
      /\ pending' = << >> /\ wire' = << >> /\ acks' = << >>
  BY DEF Disconnect
<1>4. QED
  BY <1>1, <1>2, <1>3 DEF TypeOK

\* TypeOK: the fields of the connection and of the peer keep their types.
THEOREM SenderTypeCorrect == Spec => []TypeOK
<1>1. Init => TypeOK
  <2>1. Init => closed \in BOOLEAN
    BY Zenon DEF Init
  <2>2. Init => /\ handle = [m \in Message |-> "none"]
                /\ channel = << >> /\ phase = "connecting" /\ buffer = << >> /\ pending = << >>
                /\ wire = << >> /\ acks = << >> /\ stale = {} /\ busy = Nothing
                /\ taken = {} /\ delivered = {} /\ breaks = 0
    BY DEF Init
  <2>3. QED
    BY <2>1, <2>2, SenderAssumption DEF TypeOK
<1>2. TypeOK /\ [Next]_vars => TypeOK'
  <2> SUFFICES ASSUME TypeOK, [Next]_vars
               PROVE  TypeOK'
    OBVIOUS
  <2>0. CASE UNCHANGED vars
    BY <2>0 DEF TypeOK, vars, sender, peer
  <2>1. CASE Send
    BY <2>1 DEF TypeOK, Send, peer
  <2>2. ASSUME NEW m \in Message, Cancel(m)
        PROVE  TypeOK'
    BY <2>2 DEF TypeOK, Cancel, peer
  <2>3. ASSUME NEW m \in Message, PassOn(m)
        PROVE  TypeOK'
    BY <2>3 DEF TypeOK, PassOn, sender, Nothing
  <2>4. CASE Connect \/ FailToConnect \/ DelayElapses
    BY <2>4 DEF TypeOK, Connect, FailToConnect, DelayElapses, peer
  <2>5. CASE Drain
    <3>1. Append(buffer, Head(channel)) \in Seq(Message)
      BY <2>5 DEF TypeOK, Drain
    <3>2. buffer' \in Seq(Message)
      BY <2>5, <3>1, RetainOpen DEF Drain
    <3>3. QED
      BY <2>5, <3>2 DEF TypeOK, Drain, peer
  <2>6. CASE Transmit
    <3>1. Head(buffer) \in Message /\ Tail(buffer) \in Seq(Message)
      BY <2>6 DEF TypeOK, Transmit
    <3>2. /\ pending' = pending \/ pending' = Append(pending, Head(buffer))
          /\ wire' = wire \/ wire' = Append(wire, Head(buffer))
      BY <2>6, Zenon DEF Transmit
    <3>3. pending' \in Seq(Message) /\ wire' \in Seq(Message)
      <4>1. pending \in Seq(Message) /\ wire \in Seq(Message)
        BY DEF TypeOK
      <4>2. Append(pending, Head(buffer)) \in Seq(Message)
        BY <3>1, <4>1, PutLast
      <4>3. Append(wire, Head(buffer)) \in Seq(Message)
        BY <3>1, <4>1, PutLast
      <4>4. QED
        BY <3>2, <4>1, <4>2, <4>3, Zenon
    <3>4. QED
      BY <2>6, <3>1, <3>3 DEF TypeOK, Transmit, peer
  <2>7. CASE TakeMessage
    BY <2>7 DEF TypeOK, TakeMessage, peer
  <2>8. CASE ReceiveAck
    <3>1. CASE pending = << >>
      BY <2>8, <3>1, TypesOfDisconnect DEF ReceiveAck, TypeOK
    <3>2. CASE pending # << >>
      <4>1. Head(pending) \in Message /\ Tail(pending) \in Seq(Message)
        BY <3>2 DEF TypeOK
      <4>2. Tail(acks) \in Seq(Message \ Refused)
        BY <2>8 DEF TypeOK, ReceiveAck
      <4>3. QED
        BY <2>8, <3>2, <4>1, <4>2 DEF TypeOK, ReceiveAck, peer
    <3>3. QED
      BY <3>1, <3>2
  <2>9. CASE EndOfStream
    BY <2>9, TypesOfDisconnect DEF EndOfStream, TypeOK
  <2>10. CASE Break
    BY <2>10, TypesOfDisconnect, SenderAssumption DEF Break, TypeOK
  <2>11. CASE Dispatch
    <3>1. Head(wire) \in Message /\ Tail(wire) \in Seq(Message)
      BY <2>11 DEF TypeOK, Dispatch
    <3>2. CASE Head(wire) \in Refused
      <4>1. closed' \in BOOLEAN
        BY <2>11, <3>2, Zenon DEF Dispatch
      <4>2. wire' = << >> /\ UNCHANGED <<acks, busy, taken, stale, delivered, breaks, sender>>
        BY <2>11, <3>2 DEF Dispatch
      <4>3. QED
        BY <4>1, <4>2 DEF TypeOK, sender
    <3>3. CASE Head(wire) \notin Refused
      <4>1. Append(acks, Head(wire)) \in Seq(Message \ Refused)
        BY <3>1, <3>3 DEF TypeOK
      <4>2. /\ acks' = Append(acks, Head(wire)) /\ busy' = Head(wire)
            /\ taken' = taken \cup {Head(wire)} /\ wire' = Tail(wire)
            /\ UNCHANGED <<closed, stale, delivered, breaks, sender>>
        BY <2>11, <3>3, Zenon DEF Dispatch
      <4>3. QED
        BY <3>1, <3>3, <4>1, <4>2 DEF TypeOK, sender
    <3>4. QED
      BY <3>2, <3>3
  <2>12. CASE DispatchStale
    <3>1. PICK w \in stale :
              IF Head(w) \in Refused
              THEN stale' = stale \ {w} /\ UNCHANGED taken
              ELSE /\ stale' = (stale \ {w}) \cup (IF Len(w) = 1 THEN {} ELSE {Tail(w)})
                   /\ taken' = taken \cup {Head(w)}
      BY <2>12 DEF DispatchStale
    <3>2. w \in Seq(Message) /\ w # << >>
      BY DEF TypeOK
    <3>3. Head(w) \in Message /\ Tail(w) \in Seq(Message) /\ Len(Tail(w)) = Len(w) - 1
      BY <3>2
    <3>4. Len(w) # 1 => Tail(w) # << >>
      <4>1. PICK k : k = Len(Tail(w))
        OBVIOUS
      <4>2. Len(w) \in Nat /\ k = Len(w) - 1
        BY <3>2, <3>3, <4>1
      <4>3. Tail(w) = << >> => k = 0
        BY <4>1
      <4>4. QED
        BY <4>2, <4>3
    <3>5. stale' \subseteq Seq(Message) \ {<< >>} /\ taken' \subseteq Message \ Refused
      BY <3>1, <3>3, <3>4 DEF TypeOK
    <3>6. QED
      BY <2>12, <3>5 DEF TypeOK, DispatchStale, sender
  <2>13. QED
    BY <2>0, <2>1, <2>2, <2>3, <2>4, <2>5, <2>6, <2>7, <2>8, <2>9, <2>10, <2>11, <2>12
    DEF Next
<1>3. QED
  BY <1>1, <1>2, PTL DEF Spec

-----------------------------------------------------------------------------
(***************************************************************************)
(* The inductive invariant.                                                *)
(***************************************************************************)
Reached == taken \cup delivered

\* What ReachInOrder allows to be passed over.
Settled(i) == i \in Reached \/ i \in Refused \/ handle[i] = "dropped"

Queued == Elems(pending) \cup Elems(buffer) \cup Elems(channel)

\* The queues of the connection, one after the other, are in order, and hold every
\* message that was sent and is not settled.
QueueInv ==
    /\ Increasing(pending) /\ Increasing(buffer) /\ Increasing(channel)
    /\ \A x \in Elems(pending) : \A y \in Elems(buffer) : x < y
    /\ \A x \in Elems(pending) : \A y \in Elems(channel) : x < y
    /\ \A x \in Elems(buffer) : \A y \in Elems(channel) : x < y
    /\ \A m \in Queued : handle[m] # "none"
    /\ \A m \in Message : handle[m] # "none" => \A i \in 1..(m - 1) : handle[i] # "none"
    /\ \A m \in Message : handle[m] = "none" \/ Settled(m) \/ m \in Queued
    /\ \A m \in Message : handle[m] = "notified" => m \in Reached

\* The messages that wait for an ACK are those whose ACK is on its way, followed by
\* those on the wire; unless the peer closed the connection there are no others.
AckInv ==
    /\ phase # "connected" => pending = << >> /\ acks = << >> /\ wire = << >> /\ ~closed
    /\ closed => wire = << >>
    /\ ~closed => Len(pending) = Len(acks) + Len(wire)
    /\ Len(acks) <= Len(pending)
    /\ \A i \in 1..Len(acks) : acks[i] = pending[i] /\ acks[i] \in Reached
    /\ \A i \in 1..Len(wire) : wire[i] = pending[Len(acks) + i]

\* What the peer has still to read of w, at place j, is passed over by nothing that
\* is not settled.
InOrder(w, j) ==
    /\ handle[w[j]] # "none"
    /\ \A i \in 1..(w[j] - 1) : Settled(i) \/ \E k \in 1..(j - 1) : w[k] = i

StaleInv == \A w \in stale : \A j \in 1..Len(w) : InOrder(w, j)

IInv == QueueInv /\ AckInv /\ StaleInv /\ ReachInOrder

\* The messages of a queue are messages.
LEMMA ElemsType ==
    ASSUME NEW s \in Seq(Message)
    PROVE  Elems(s) \subseteq Message
BY DEF Elems

\* Nothing that was sent, reached the peer or is settled ceases to be so.
LEMMA Kept ==
    ASSUME TypeOK, [Next]_vars
    PROVE  /\ Reached \subseteq Reached'
           /\ \A m \in Message : handle[m] # "none" => handle'[m] # "none"
           /\ \A m \in Message : Settled(m) => Settled(m)'
<1> DEFINE Goal == /\ Reached \subseteq Reached'
                   /\ \A m \in Message : handle[m] # "none" => handle'[m] # "none"
                   /\ \A m \in Message : handle[m] = "dropped" => handle'[m] = "dropped"
<1> SUFFICES Goal
  BY DEF Settled
<1>1. handle \in [Message -> {"none", "open", "dropped", "notified"}]
  BY DEF TypeOK
<1>2. ASSUME UNCHANGED handle, taken \subseteq taken' \cup delivered', delivered \subseteq delivered'
      PROVE  Goal
  BY <1>2 DEF Reached
<1>3. ASSUME UNCHANGED <<taken, delivered>>, NEW m \in Message, NEW h, h # "none",
             handle[m] # "dropped", handle' = [handle EXCEPT ![m] = h]
      PROVE  Goal
  BY <1>1, <1>3 DEF Reached
<1>4. CASE UNCHANGED vars
  BY <1>2, <1>4 DEF vars, sender, peer
<1>5. CASE Send
  BY <1>3, <1>5 DEF Send, peer
<1>6. ASSUME NEW m \in Message, Cancel(m)
      PROVE  Goal
  BY <1>3, <1>6 DEF Cancel, peer
<1>7. ASSUME NEW m \in Message, PassOn(m)
      PROVE  Goal
  BY <1>2, <1>7 DEF PassOn, sender
<1>8. CASE Connect \/ FailToConnect \/ DelayElapses \/ Drain \/ Transmit \/ TakeMessage
  BY <1>2, <1>8 DEF Connect, FailToConnect, DelayElapses, Drain, Transmit, TakeMessage, peer
<1>9. CASE Disconnect
  BY <1>2, <1>9 DEF Disconnect
<1>10. CASE ReceiveAck
  <2>1. CASE pending = << >>
    BY <1>9, <1>10, <2>1 DEF ReceiveAck
  <2>2. CASE pending # << >>
    <3>1. Head(pending) \in Message /\ UNCHANGED <<taken, delivered>>
      BY <1>10, <2>2 DEF ReceiveAck, TypeOK, peer
    <3>2. CASE is_open(Head(pending))
      BY <1>3, <1>10, <2>2, <3>1, <3>2 DEF ReceiveAck, is_open
    <3>3. CASE ~is_open(Head(pending))
      BY <1>2, <1>10, <2>2, <3>1, <3>3 DEF ReceiveAck
    <3>4. QED
      BY <3>2, <3>3
  <2>3. QED
    BY <2>1, <2>2
<1>11. CASE EndOfStream \/ Break
  BY <1>9, <1>11 DEF EndOfStream, Break
<1>12. CASE Dispatch
  BY <1>2, <1>12 DEF Dispatch, sender
<1>13. CASE DispatchStale
  BY <1>2, <1>13 DEF DispatchStale, sender
<1>14. QED
  BY <1>4, <1>5, <1>6, <1>7, <1>8, <1>10, <1>11, <1>12, <1>13 DEF Next

\* QueueInv, of an action that leaves the queues and the handles alone.
LEMMA QueueFrame ==
    ASSUME TypeOK, QueueInv, [Next]_vars, UNCHANGED <<handle, channel, buffer, pending>>
    PROVE  QueueInv'
<1>1. Queued' = Queued /\ Queued \subseteq Message
  BY ElemsType DEF Queued, TypeOK
<1>2. \A m \in Message : Settled(m) => Settled(m)'
  BY Kept
<1>3. Reached \subseteq Reached'
  BY Kept
<1>4. QED
  BY <1>1, <1>2, <1>3 DEF QueueInv

\* QueueInv, when all queues may change but not the handles: what leaves them is
\* settled, and the order is as before.
LEMMA QueueMoves ==
    ASSUME TypeOK, TypeOK', QueueInv, [Next]_vars, UNCHANGED handle,
           Increasing(pending'), Increasing(buffer'), Increasing(channel'),
           \A x \in Elems(pending') : \A y \in Elems(buffer') : x < y,
           \A x \in Elems(pending') : \A y \in Elems(channel') : x < y,
           \A x \in Elems(buffer') : \A y \in Elems(channel') : x < y,
           Queued' \subseteq Queued, \A m \in Queued : m \in Queued' \/ Settled(m)
    PROVE  QueueInv'
<1>1. Queued \subseteq Message
  BY ElemsType DEF Queued, TypeOK
<1>2. \A m \in Message : Settled(m) => Settled(m)'
  BY Kept
<1>3. Reached \subseteq Reached'
  BY Kept
<1>4. \A m \in Queued' : handle'[m] # "none"
  BY DEF QueueInv
<1>5. \A m \in Message : handle'[m] # "none" => \A i \in 1..(m - 1) : handle'[i] # "none"
  BY DEF QueueInv
<1>6. \A m \in Message : handle'[m] = "none" \/ Settled(m)' \/ m \in Queued'
  BY <1>2 DEF QueueInv
<1>7. \A m \in Message : handle'[m] = "notified" => m \in Reached'
  BY <1>3 DEF QueueInv
<1>8. QED
  BY <1>4, <1>5, <1>6, <1>7 DEF QueueInv

\* Every message that the caller sends is later than those in the queues.
LEMMA SendIsLast ==
    ASSUME TypeOK, QueueInv, NEW m \in Message, handle[m] = "none"
    PROVE  \A x \in Queued : x < m
<1> SUFFICES ASSUME NEW x \in Queued, ~(x < m)
             PROVE  FALSE
  OBVIOUS
<1>1. x \in Message /\ handle[x] # "none"
  BY ElemsType DEF Queued, TypeOK, QueueInv
<1>2. m \in 1..(x - 1)
  BY <1>1, SenderAssumption DEF Message
<1>3. QED
  BY <1>1, <1>2 DEF QueueInv

\* QueueInv is inductive, given AckInv.
LEMMA QueueStep ==
    ASSUME TypeOK, TypeOK', QueueInv, AckInv, [Next]_vars
    PROVE  QueueInv'
<1>0. /\ pending \in Seq(Message) /\ buffer \in Seq(Message) /\ channel \in Seq(Message)
      /\ handle \in [Message -> {"none", "open", "dropped", "notified"}]
      /\ Queued \subseteq Message
  BY ElemsType DEF TypeOK, Queued
<1>1. CASE UNCHANGED <<handle, channel, buffer, pending>>
  BY <1>1, QueueFrame
<1>2. CASE Send
  <2>1. PICK m \in Message :
            /\ handle[m] = "none" /\ \A i \in 1..(m - 1) : handle[i] # "none"
            /\ handle' = [handle EXCEPT ![m] = "open"]
            /\ channel' = Append(channel, m)
    BY <1>2 DEF Send
  <2>2. UNCHANGED <<buffer, pending>> /\ UNCHANGED <<taken, delivered>>
    BY <1>2 DEF Send, peer
  <2>3. \A x \in Queued : x < m
    BY <2>1, SendIsLast
  <2>4. Elems(channel') = Elems(channel) \cup {m} /\ Increasing(channel')
    BY <1>0, <2>1, <2>3, PutLast DEF Queued, QueueInv
  <2>5. Queued' = Queued \cup {m}
    BY <2>2, <2>4 DEF Queued
  <2>6. /\ \A x \in Elems(pending') : \A y \in Elems(channel') : x < y
        /\ \A x \in Elems(buffer') : \A y \in Elems(channel') : x < y
    BY <2>2, <2>3, <2>4 DEF Queued, QueueInv
  <2>7. \A x \in Message : handle'[x] # "none" <=> handle[x] # "none" \/ x = m
    BY <1>0, <2>1
  <2>8. \A x \in Queued' : handle'[x] # "none"
    BY <1>0, <2>5, <2>7 DEF QueueInv
  <2>9. ASSUME NEW x \in Message, handle'[x] # "none", NEW i \in 1..(x - 1)
        PROVE  handle'[i] # "none"
    <3>1. i \in Message
      BY SenderAssumption DEF Message
    <3>2. QED
      BY <2>1, <2>7, <2>9, <3>1 DEF QueueInv
  <2>10. ASSUME NEW x \in Message
         PROVE  handle'[x] = "none" \/ Settled(x)' \/ x \in Queued'
    BY <2>5, <2>7, Kept DEF QueueInv
  <2>11. \A x \in Message : handle'[x] = "notified" => x \in Reached'
    BY <1>0, <2>1, <2>2 DEF QueueInv, Reached
  <2>12. QED
    BY <2>2, <2>4, <2>6, <2>8, <2>9, <2>10, <2>11 DEF QueueInv
<1>3. ASSUME NEW m \in Message, Cancel(m)
      PROVE  QueueInv'
  <2>1. /\ handle[m] = "open" /\ handle' = [handle EXCEPT ![m] = "dropped"]
        /\ UNCHANGED <<channel, buffer, pending, taken, delivered>>
    BY <1>3 DEF Cancel, peer
  <2>2. Queued' = Queued /\ Reached' = Reached
    BY <2>1 DEF Queued, Reached
  <2>3. \A x \in Message : /\ handle'[x] = "none" <=> handle[x] = "none"
                           /\ handle'[x] = "notified" <=> handle[x] = "notified"
    BY <1>0, <2>1
  <2>4. ASSUME NEW x \in Message, handle'[x] # "none", NEW i \in 1..(x - 1)
        PROVE  handle'[i] # "none"
    <3>1. i \in Message
      BY SenderAssumption DEF Message
    <3>2. QED
      BY <2>3, <2>4, <3>1 DEF QueueInv
  <2>5. \A x \in Message : handle'[x] = "none" \/ Settled(x)' \/ x \in Queued'
    BY <2>2, <2>3, Kept DEF QueueInv
  <2>6. \A x \in Queued' : handle'[x] # "none"
    BY <1>0, <2>2, <2>3 DEF QueueInv
  <2>7. QED
    BY <2>1, <2>2, <2>3, <2>4, <2>5, <2>6 DEF QueueInv
<1>4. CASE Drain
  <2> DEFINE s == Append(buffer, Head(channel))
  <2>1. /\ Head(channel) \in Message /\ Elems(channel) = {Head(channel)} \cup Elems(Tail(channel))
        /\ Increasing(Tail(channel)) /\ \A x \in Elems(Tail(channel)) : Head(channel) < x
    BY <1>0, <1>4, TakeHead DEF Drain, QueueInv
  <2>2. /\ s \in Seq(Message) /\ Elems(s) = Elems(buffer) \cup {Head(channel)}
        /\ Increasing(s)
    BY <1>0, <2>1, PutLast DEF QueueInv
  <2>3. Retain(s) /\ channel' = Tail(channel) /\ UNCHANGED <<handle, pending>>
    BY <1>4 DEF Drain
  <2> HIDE DEF s
  <2>4. Elems(buffer') = {x \in Elems(s) : is_open(x)} /\ Increasing(buffer')
    BY <2>2, <2>3, RetainOpen
  <2>5. Queued' \subseteq Queued
    BY <2>1, <2>2, <2>3, <2>4 DEF Queued
  <2>6. ASSUME NEW x \in Queued, x \notin Queued'
        PROVE  Settled(x)
    <3>1. x \in Elems(s) /\ ~is_open(x)
      BY <2>1, <2>2, <2>3, <2>4, <2>6 DEF Queued
    <3>2. x \in Message /\ handle[x] # "none" /\ handle[x] # "open"
      BY <1>0, <3>1 DEF is_open, QueueInv
    <3>3. QED
      BY <1>0, <3>2 DEF QueueInv, Settled
  <2>7. \A x \in Elems(pending') : \A y \in Elems(buffer') : x < y
    BY <2>1, <2>2, <2>3, <2>4 DEF QueueInv
  <2>8. \A x \in Elems(pending') : \A y \in Elems(channel') : x < y
    BY <2>1, <2>3 DEF QueueInv
  <2>9. \A x \in Elems(buffer') : \A y \in Elems(channel') : x < y
    BY <2>1, <2>2, <2>3, <2>4 DEF QueueInv
  <2>10. Increasing(pending') /\ Increasing(channel')
    BY <2>1, <2>3 DEF QueueInv
  <2>11. QED
    BY <2>3, <2>4, <2>5, <2>6, <2>7, <2>8, <2>9, <2>10, QueueMoves
<1>5. CASE Transmit
  <2> DEFINE m == Head(buffer)
  <2>1. /\ m \in Message /\ Elems(buffer) = {m} \cup Elems(Tail(buffer))
        /\ Increasing(Tail(buffer)) /\ \A x \in Elems(Tail(buffer)) : m < x
    BY <1>0, <1>5, TakeHead DEF Transmit, QueueInv
  <2>2. buffer' = Tail(buffer) /\ UNCHANGED <<handle, channel>>
    BY <1>5 DEF Transmit
  <2>3. pending' = IF is_open(m) THEN Append(pending, m) ELSE pending
    BY <1>5 DEF Transmit
  <2> HIDE DEF m
  <2>4. Elems(Append(pending, m)) = Elems(pending) \cup {m} /\ Increasing(Append(pending, m))
    BY <1>0, <2>1, PutLast DEF QueueInv
  <2>5. /\ Elems(pending') \subseteq Elems(pending) \cup {m} /\ Increasing(pending')
        /\ Elems(pending) \subseteq Elems(pending') /\ (is_open(m) => m \in Elems(pending'))
    BY <2>3, <2>4 DEF QueueInv
  <2>6. Queued' \subseteq Queued
    BY <2>1, <2>2, <2>5 DEF Queued
  <2>7. ASSUME NEW x \in Queued, x \notin Queued'
        PROVE  Settled(x)
    <3>1. x = m /\ ~is_open(m)
      <4>1. x \notin Elems(pending) /\ x \notin Elems(channel) /\ x \notin Elems(Tail(buffer))
        BY <2>2, <2>5, <2>7 DEF Queued
      <4>2. x = m
        BY <2>1, <4>1 DEF Queued
      <4>3. QED
        BY <2>5, <2>7, <4>2 DEF Queued
    <3>2. x \in Message /\ handle[x] # "none" /\ handle[x] # "open"
      BY <1>0, <3>1 DEF is_open, QueueInv
    <3>3. QED
      BY <1>0, <3>2 DEF QueueInv, Settled
  <2>8. \A x \in Elems(pending') : \A y \in Elems(buffer') : x < y
    BY <2>1, <2>2, <2>5 DEF QueueInv
  <2>9. \A x \in Elems(pending') : \A y \in Elems(channel') : x < y
    BY <2>1, <2>2, <2>5 DEF QueueInv
  <2>10. \A x \in Elems(buffer') : \A y \in Elems(channel') : x < y
    BY <2>1, <2>2 DEF QueueInv
  <2>11. Increasing(buffer') /\ Increasing(channel')
    BY <2>1, <2>2 DEF QueueInv
  <2>12. QED
    BY <2>2, <2>5, <2>6, <2>7, <2>8, <2>9, <2>10, <2>11, QueueMoves
<1>6. CASE TakeMessage
  <2>1. /\ Head(channel) \in Message /\ Elems(channel) = {Head(channel)} \cup Elems(Tail(channel))
        /\ Increasing(Tail(channel)) /\ \A x \in Elems(Tail(channel)) : Head(channel) < x
    BY <1>0, <1>6, TakeHead DEF TakeMessage, QueueInv
  <2>2. /\ buffer = << >> /\ buffer' = <<Head(channel)>> /\ channel' = Tail(channel)
        /\ UNCHANGED <<handle, pending>>
    BY <1>6 DEF TakeMessage
  <2>3. Elems(buffer') = {Head(channel)} /\ Increasing(buffer') /\ Elems(buffer) = {}
    BY <2>2 DEF Elems, Increasing
  <2>4. Queued' = Queued
    BY <2>1, <2>2, <2>3 DEF Queued
  <2>5. \A x \in Elems(pending') : \A y \in Elems(buffer') : x < y
    BY <2>1, <2>2, <2>3 DEF QueueInv
  <2>6. \A x \in Elems(pending') : \A y \in Elems(channel') : x < y
    BY <2>1, <2>2 DEF QueueInv
  <2>7. \A x \in Elems(buffer') : \A y \in Elems(channel') : x < y
    BY <2>1, <2>2, <2>3 DEF QueueInv
  <2>8. Increasing(pending') /\ Increasing(channel')
    BY <2>1, <2>2 DEF QueueInv
  <2>9. QED
    BY <2>2, <2>3, <2>4, <2>5, <2>6, <2>7, <2>8, QueueMoves
<1>7. CASE Disconnect
  <2>1. /\ buffer' = pending \o buffer /\ pending' = << >>
        /\ UNCHANGED <<handle, channel>>
    BY <1>7 DEF Disconnect
  <2>2. Elems(buffer') = Elems(pending) \cup Elems(buffer) /\ Increasing(buffer')
    BY <1>0, <2>1, Join DEF QueueInv
  <2>3. Elems(pending') = {} /\ Increasing(pending')
    BY <2>1 DEF Elems, Increasing
  <2>4. Queued' = Queued
    BY <2>1, <2>2, <2>3 DEF Queued
  <2>5. \A x \in Elems(buffer') : \A y \in Elems(channel') : x < y
    BY <2>1, <2>2 DEF QueueInv
  <2>6. Increasing(channel')
    BY <2>1 DEF QueueInv
  <2>7. QED
    BY <2>1, <2>2, <2>3, <2>4, <2>5, <2>6, QueueMoves
<1>8. CASE ReceiveAck
  <2>1. CASE pending = << >>
    BY <1>7, <1>8, <2>1 DEF ReceiveAck
  <2>2. CASE pending # << >>
    <3> DEFINE m == Head(pending)
    <3>1. /\ m \in Message /\ Elems(pending) = {m} \cup Elems(Tail(pending))
          /\ Increasing(Tail(pending)) /\ m = pending[1]
      BY <1>0, <2>2, TakeHead DEF QueueInv
    <3>2. m \in Reached
      <4>1. acks \in Seq(Message \ Refused) /\ acks # << >>
        BY <1>8 DEF ReceiveAck, TypeOK
      <4>2. 1 \in 1..Len(acks)
        BY <4>1
      <4>3. QED
        BY <3>1, <4>2 DEF AckInv
    <3>3. /\ pending' = Tail(pending) /\ UNCHANGED <<buffer, channel, taken, delivered>>
          /\ handle' = IF is_open(m) THEN [handle EXCEPT ![m] = "notified"] ELSE handle
      BY <1>8, <2>2 DEF ReceiveAck, peer
    <3> HIDE DEF m
    <3>4. Queued' \subseteq Queued /\ Queued \subseteq Queued' \cup {m} /\ Reached' = Reached
      BY <3>1, <3>3 DEF Queued, Reached
    <3>5. \A x \in Message : /\ handle'[x] = "none" <=> handle[x] = "none"
                             /\ handle'[x] = "notified" => handle[x] = "notified" \/ x = m
      BY <1>0, <3>1, <3>3 DEF is_open
    <3>6. /\ Increasing(pending') /\ Increasing(buffer') /\ Increasing(channel')
          /\ \A x \in Elems(pending') : \A y \in Elems(buffer') : x < y
          /\ \A x \in Elems(pending') : \A y \in Elems(channel') : x < y
          /\ \A x \in Elems(buffer') : \A y \in Elems(channel') : x < y
      BY <3>1, <3>3 DEF QueueInv
    <3>7. \A x \in Queued' : handle'[x] # "none"
      BY <1>0, <3>4, <3>5 DEF QueueInv
    <3>8. ASSUME NEW x \in Message, handle'[x] # "none", NEW i \in 1..(x - 1)
          PROVE  handle'[i] # "none"
      <4>1. i \in Message
        BY SenderAssumption DEF Message
      <4>2. QED
        BY <3>5, <3>8, <4>1 DEF QueueInv
    <3>9. ASSUME NEW x \in Message
          PROVE  handle'[x] = "none" \/ Settled(x)' \/ x \in Queued'
      <4>1. CASE x = m
        BY <3>2, <3>4, <4>1 DEF Settled
      <4>2. CASE x # m
        BY <3>4, <3>5, <4>2, Kept DEF QueueInv
      <4>3. QED
        BY <4>1, <4>2
    <3>10. \A x \in Message : handle'[x] = "notified" => x \in Reached'
      BY <3>2, <3>4, <3>5 DEF QueueInv
    <3>11. QED
      BY <3>6, <3>7, <3>8, <3>9, <3>10 DEF QueueInv
  <2>3. QED
    BY <2>1, <2>2
<1>9. CASE EndOfStream \/ Break
  BY <1>7, <1>9 DEF EndOfStream, Break
<1>10. CASE UNCHANGED vars \/ Connect \/ FailToConnect \/ DelayElapses
  BY <1>1, <1>10 DEF vars, sender, Connect, FailToConnect, DelayElapses
<1>11. CASE Dispatch \/ DispatchStale
  BY <1>1, <1>11 DEF Dispatch, DispatchStale, sender
<1>12. ASSUME NEW m \in Message, PassOn(m)
       PROVE  QueueInv'
  BY <1>1, <1>12 DEF PassOn, sender
<1>13. QED
  BY <1>2, <1>3, <1>4, <1>5, <1>6, <1>8, <1>9, <1>10, <1>11, <1>12 DEF Next

\* AckInv is inductive.
LEMMA AckStep ==
    ASSUME TypeOK, TypeOK', AckInv, [Next]_vars
    PROVE  AckInv'
<1>0. /\ pending \in Seq(Message) /\ acks \in Seq(Message) /\ wire \in Seq(Message)
      /\ buffer \in Seq(Message) /\ Len(pending) \in Nat /\ Len(acks) \in Nat /\ Len(wire) \in Nat
  BY DEF TypeOK
<1>1. Reached \subseteq Reached'
  BY Kept
<1>2. CASE UNCHANGED <<pending, acks, wire, closed>> /\ (phase' = phase \/ phase # "connected")
  BY <1>1, <1>2 DEF AckInv
<1>3. CASE Transmit
  <2> DEFINE m == Head(buffer)
  <2>1. /\ phase = "connected" /\ UNCHANGED <<phase, acks, closed>>
        /\ m \in Message
    BY <1>0, <1>3 DEF Transmit, peer
  <2>2. CASE ~is_open(m)
    BY <1>2, <1>3, <2>1, <2>2 DEF Transmit
  <2>3. CASE is_open(m) /\ closed
    <3>1. pending' = Append(pending, m) /\ wire' = wire
      BY <1>3, <2>3 DEF Transmit
    <3> HIDE DEF m
    <3>2. wire = << >>
      BY <2>3 DEF AckInv
    <3>3. Len(pending') = Len(pending) + 1 /\ \A i \in 1..Len(pending) : pending'[i] = pending[i]
      BY <1>0, <2>1, <3>1
    <3>4. QED
      BY <1>0, <1>1, <2>1, <2>3, <3>1, <3>2, <3>3 DEF AckInv
  <2>4. CASE is_open(m) /\ ~closed
    <3>1. pending' = Append(pending, m) /\ wire' = Append(wire, m)
      BY <1>3, <2>4 DEF Transmit
    <3> HIDE DEF m
    <3>2. /\ Len(pending') = Len(pending) + 1 /\ Len(wire') = Len(wire) + 1
          /\ pending'[Len(pending) + 1] = m /\ wire'[Len(wire) + 1] = m
          /\ \A i \in 1..Len(pending) : pending'[i] = pending[i]
          /\ \A i \in 1..Len(wire) : wire'[i] = wire[i]
      BY <1>0, <2>1, <3>1
    <3>3. Len(pending) = Len(acks) + Len(wire)
      BY <2>4 DEF AckInv
    <3>4. ASSUME NEW i \in 1..Len(acks')
          PROVE  acks'[i] = pending'[i] /\ acks'[i] \in Reached'
      <4>1. i \in 1..Len(acks) /\ i \in 1..Len(pending) /\ acks' = acks
        BY <1>0, <2>1, <3>3
      <4>2. acks[i] = pending[i] /\ acks[i] \in Reached
        BY <4>1 DEF AckInv
      <4>3. QED
        BY <1>1, <3>2, <4>1, <4>2
    <3>5. ASSUME NEW i \in 1..Len(wire')
          PROVE  wire'[i] = pending'[Len(acks') + i]
      <4>1. CASE i = Len(wire) + 1
        BY <1>0, <2>1, <3>2, <3>3, <4>1
      <4>2. CASE i \in 1..Len(wire)
        <5>1. wire[i] = pending[Len(acks) + i] /\ Len(acks) + i \in 1..Len(pending)
          BY <1>0, <3>3, <4>2 DEF AckInv
        <5>2. QED
          BY <2>1, <3>2, <4>2, <5>1
      <4>3. QED
        BY <1>0, <3>2, <4>1, <4>2
    <3>6. Len(pending') = Len(acks') + Len(wire') /\ Len(acks') <= Len(pending')
      BY <1>0, <2>1, <3>2, <3>3
    <3>7. QED
      BY <2>1, <2>4, <3>4, <3>5, <3>6 DEF AckInv
  <2>5. QED
    BY <2>2, <2>3, <2>4
<1>4. CASE Disconnect
  <2>1. pending' = << >> /\ acks' = << >> /\ wire' = << >>
    BY <1>4 DEF Disconnect
  <2>2. ~closed'
    BY <1>4, Zenon DEF Disconnect
  <2>3. QED
    BY <2>1, <2>2 DEF AckInv
<1>5. CASE ReceiveAck
  <2>1. CASE pending = << >>
    BY <1>4, <1>5, <2>1 DEF ReceiveAck
  <2>2. CASE pending # << >>
    <3>1. /\ acks # << >> /\ acks' = Tail(acks) /\ pending' = Tail(pending)
          /\ UNCHANGED <<phase, wire, closed>> /\ phase = "connected"
      BY <1>5, <2>2 DEF ReceiveAck, peer
    <3>2. /\ Len(pending') = Len(pending) - 1 /\ Len(acks') = Len(acks) - 1
          /\ \A i \in 1..Len(pending') : pending'[i] = pending[i + 1]
          /\ \A i \in 1..Len(acks') : acks'[i] = acks[i + 1]
      BY <1>0, <2>2, <3>1, TakeHead
    <3>3. Len(acks') <= Len(pending')
      BY <1>0, <3>2 DEF AckInv
    <3>4. ASSUME NEW i \in 1..Len(acks')
          PROVE  acks'[i] = pending'[i] /\ acks'[i] \in Reached'
      <4>1. i \in 1..Len(pending') /\ i + 1 \in 1..Len(acks)
        BY <1>0, <3>2, <3>3
      <4>2. QED
        BY <1>1, <3>2, <4>1 DEF AckInv
    <3>5. ASSUME NEW i \in 1..Len(wire')
          PROVE  wire'[i] = pending'[Len(acks') + i]
      <4>1. ~closed
        BY <1>0, <3>1 DEF AckInv
      <4>2. Len(pending) = Len(acks) + Len(wire)
        BY <4>1 DEF AckInv
      <4>3. /\ Len(acks') + i \in 1..Len(pending') /\ Len(acks') + i + 1 = Len(acks) + i
        BY <1>0, <3>1, <3>2, <4>2
      <4>4. pending'[Len(acks') + i] = pending[Len(acks) + i]
        BY <3>2, <4>3
      <4>5. QED
        BY <3>1, <4>4 DEF AckInv
    <3>6. ~closed' => Len(pending') = Len(acks') + Len(wire')
      BY <1>0, <3>1, <3>2 DEF AckInv
    <3>7. closed' => wire' = << >>
      BY <3>1 DEF AckInv
    <3>8. QED
      BY <3>1, <3>3, <3>4, <3>5, <3>6, <3>7 DEF AckInv
  <2>3. QED
    BY <2>1, <2>2
<1>6. CASE Dispatch
  <2>1. wire # << >> /\ UNCHANGED <<phase, pending>> /\ phase = "connected" /\ ~closed
    BY <1>6 DEF Dispatch, sender, AckInv
  <2>2. Len(pending) = Len(acks) + Len(wire)
    BY <2>1 DEF AckInv
  <2>3. CASE Head(wire) \in Refused
    <3>1. wire' = << >> /\ acks' = acks
      BY <1>6, <2>3 DEF Dispatch
    <3>2. closed'
      BY <1>6, <2>3, Zenon DEF Dispatch
    <3>3. \A i \in 1..Len(acks') : acks'[i] = pending'[i] /\ acks'[i] \in Reached'
      BY <1>1, <2>1, <3>1 DEF AckInv
    <3>4. Len(acks') <= Len(pending')
      BY <2>1, <3>1 DEF AckInv
    <3>5. QED
      BY <2>1, <3>1, <3>2, <3>3, <3>4 DEF AckInv
  <2>4. CASE Head(wire) \notin Refused
    <3>1. /\ acks' = Append(acks, Head(wire)) /\ wire' = Tail(wire)
          /\ taken' = taken \cup {Head(wire)}
      BY <1>6, <2>4 DEF Dispatch
    <3>2. closed' = closed
      BY <1>6, <2>4, Zenon DEF Dispatch
    <3>3. /\ Head(wire) = wire[1] /\ Head(wire) \in Message /\ Len(wire') = Len(wire) - 1
          /\ \A i \in 1..Len(wire') : wire'[i] = wire[i + 1]
      BY <1>0, <2>1, <3>1, TakeHead
    <3>4. /\ Len(acks') = Len(acks) + 1 /\ acks'[Len(acks) + 1] = Head(wire)
          /\ \A i \in 1..Len(acks) : acks'[i] = acks[i]
      BY <1>0, <3>1, <3>3
    <3>5. 1 \in 1..Len(wire)
      BY <1>0, <2>1
    <3>6. Head(wire) = pending[Len(acks) + 1] /\ Head(wire) \in Reached'
      BY <3>1, <3>3, <3>5 DEF AckInv, Reached
    <3>7. ASSUME NEW i \in 1..Len(acks')
          PROVE  acks'[i] = pending'[i] /\ acks'[i] \in Reached'
      <4>1. CASE i = Len(acks) + 1
        BY <2>1, <3>4, <3>6, <4>1
      <4>2. CASE i \in 1..Len(acks)
        BY <1>1, <2>1, <3>4, <4>2 DEF AckInv
      <4>3. QED
        BY <1>0, <3>4, <4>1, <4>2
    <3>8. ASSUME NEW i \in 1..Len(wire')
          PROVE  wire'[i] = pending'[Len(acks') + i]
      <4>1. i + 1 \in 1..Len(wire) /\ Len(acks) + (i + 1) = Len(acks') + i
        BY <1>0, <3>3, <3>4
      <4>2. QED
        BY <2>1, <3>3, <4>1 DEF AckInv
    <3>9. Len(pending') = Len(acks') + Len(wire') /\ Len(acks') <= Len(pending')
      BY <1>0, <2>1, <2>2, <3>3, <3>4, <3>5
    <3>10. QED
      BY <2>1, <3>2, <3>7, <3>8, <3>9 DEF AckInv
  <2>5. QED
    BY <2>3, <2>4
<1>7. CASE UNCHANGED vars \/ Send \/ Drain \/ TakeMessage \/ DispatchStale
  BY <1>2, <1>7 DEF vars, sender, peer, Send, Drain, TakeMessage, DispatchStale
<1>8. CASE Connect \/ FailToConnect \/ DelayElapses
  BY <1>2, <1>8 DEF Connect, FailToConnect, DelayElapses, peer
<1>9. ASSUME NEW m \in Message, Cancel(m) \/ PassOn(m)
      PROVE  AckInv'
  BY <1>2, <1>9 DEF Cancel, PassOn, sender, peer
<1>10. CASE EndOfStream \/ Break
  BY <1>4, <1>10 DEF EndOfStream, Break
<1>11. QED
  BY <1>3, <1>5, <1>6, <1>7, <1>8, <1>9, <1>10 DEF Next

-----------------------------------------------------------------------------
\* What is on the wire reaches the peer in order: a message below one on the wire
\* is settled or is before it on the wire.
LEMMA WirePrecedes ==
    ASSUME TypeOK, QueueInv, AckInv, NEW j \in 1..Len(wire)
    PROVE  InOrder(wire, j) /\ handle[wire[j]] # "none"
<1>0. /\ pending \in Seq(Message) /\ acks \in Seq(Message) /\ wire \in Seq(Message)
      /\ Len(pending) \in Nat /\ Len(acks) \in Nat /\ Len(wire) \in Nat
  BY DEF TypeOK
<1>1. wire # << >> /\ ~closed
  BY <1>0 DEF AckInv
<1>2. Len(pending) = Len(acks) + Len(wire)
  BY <1>1 DEF AckInv
<1>3. wire[j] = pending[Len(acks) + j] /\ Len(acks) + j \in 1..Len(pending)
  BY <1>0, <1>2 DEF AckInv
<1>4. wire[j] \in Elems(pending) /\ wire[j] \in Message
  BY <1>0, <1>3 DEF Elems
<1>5. handle[wire[j]] # "none"
  BY <1>4 DEF QueueInv, Queued
<1>6. ASSUME NEW i \in 1..(wire[j] - 1)
      PROVE  Settled(i) \/ \E k \in 1..(j - 1) : wire[k] = i
  <2>1. i \in Message /\ i < wire[j] /\ handle[i] # "none"
    BY <1>4, <1>5, SenderAssumption DEF QueueInv, Message
  <2>2. CASE i \in Elems(pending)
    <3>1. PICK p \in 1..Len(pending) : pending[p] = i
      BY <2>2 DEF Elems
    <3>2. p < Len(acks) + j
      <4>1. CASE p > Len(acks) + j
        <5>1. pending[Len(acks) + j] < pending[p]
          <6>1. Increasing(pending)
            BY DEF QueueInv
          <6>2. QED
            BY <1>3, <4>1, <6>1 DEF Increasing
        <5>2. QED
          BY <1>3, <1>4, <2>1, <3>1, <5>1 DEF Message
      <4>2. CASE p = Len(acks) + j
        BY <1>0, <1>3, <1>4, <2>1, <3>1, <4>2 DEF Message
      <4>3. QED
        BY <1>0, <3>1, <4>1, <4>2
    <3>3. CASE p <= Len(acks)
      <4>1. p \in 1..Len(acks)
        BY <1>0, <3>3
      <4>2. acks[p] = i /\ acks[p] \in Reached
        BY <3>1, <4>1 DEF AckInv
      <4>3. QED
        BY <4>2 DEF Settled
    <3>4. CASE p > Len(acks)
      <4>1. PICK k : k = p - Len(acks)
        OBVIOUS
      <4>2. k \in 1..(j - 1) /\ k \in 1..Len(wire) /\ Len(acks) + k = p
        BY <1>0, <3>2, <3>4, <4>1
      <4>3. wire[k] = i
        BY <3>1, <4>2 DEF AckInv
      <4>4. QED
        BY <4>2, <4>3
    <3>5. QED
      BY <1>0, <3>3, <3>4
  <2>3. CASE i \notin Elems(pending)
    <3>1. i \notin Queued
      <4>1. i \notin Elems(buffer)
        <5>1. \A y \in Elems(buffer) : wire[j] < y
          BY <1>4 DEF QueueInv
        <5>2. QED
          BY <1>4, <2>1, <5>1 DEF Message
      <4>2. i \notin Elems(channel)
        <5>1. \A y \in Elems(channel) : wire[j] < y
          BY <1>4 DEF QueueInv
        <5>2. QED
          BY <1>4, <2>1, <5>1 DEF Message
      <4>3. QED
        BY <2>3, <4>1, <4>2 DEF Queued
    <3>2. QED
      BY <2>1, <3>1 DEF QueueInv
  <2>4. QED
    BY <2>2, <2>3
<1>7. QED
  BY <1>5, <1>6 DEF InOrder

\* What is in order stays in order.
LEMMA InOrderKept ==
    ASSUME TypeOK, [Next]_vars, NEW w \in Seq(Message), NEW j \in 1..Len(w), InOrder(w, j)
    PROVE  InOrder(w, j)'
<1>1. w[j] \in Message /\ 1..(w[j] - 1) \subseteq Message
  BY SenderAssumption DEF Message
<1>2. handle'[w[j]] # "none"
  BY <1>1, Kept DEF InOrder
<1>3. \A i \in 1..(w[j] - 1) : Settled(i)' \/ \E k \in 1..(j - 1) : w[k] = i
  BY <1>1, Kept DEF InOrder
<1>4. QED
  BY <1>2, <1>3 DEF InOrder

\* StaleInv is inductive: a broken connection leaves what was on its wire, and its
\* task at the peer takes the first message of it.
LEMMA StaleStep ==
    ASSUME TypeOK, QueueInv, AckInv, StaleInv, [Next]_vars
    PROVE  StaleInv'
<1>0. stale \subseteq Seq(Message) \ {<< >>} /\ wire \in Seq(Message)
  BY DEF TypeOK
<1>1. ASSUME stale' \subseteq stale \cup {wire}
      PROVE  StaleInv'
  <2>1. SUFFICES ASSUME NEW w \in stale', NEW j \in 1..Len(w)
                 PROVE  InOrder(w, j)'
    BY DEF StaleInv
  <2>2. w \in Seq(Message)
    BY <1>0, <1>1
  <2>3. InOrder(w, j)
    <3>1. CASE w \in stale
      BY <3>1 DEF StaleInv
    <3>2. CASE w = wire
      BY <3>2, WirePrecedes
    <3>3. QED
      BY <1>1, <3>1, <3>2
  <2>4. QED
    BY <2>2, <2>3, InOrderKept
<1>2. CASE DispatchStale
  <2>1. PICK v \in stale :
            IF Head(v) \in Refused
            THEN stale' = stale \ {v} /\ UNCHANGED taken
            ELSE /\ stale' = (stale \ {v}) \cup (IF Len(v) = 1 THEN {} ELSE {Tail(v)})
                 /\ taken' = taken \cup {Head(v)}
    BY <1>2 DEF DispatchStale
  <2>2. CASE Head(v) \in Refused
    BY <1>1, <2>1, <2>2
  <2>3. CASE Head(v) \notin Refused
    <3>1. SUFFICES ASSUME NEW w \in stale', NEW j \in 1..Len(w)
                   PROVE  InOrder(w, j)'
      BY DEF StaleInv
    <3>2. CASE w \in stale
      BY <1>0, <3>2, InOrderKept DEF StaleInv
    <3>3. CASE w = Tail(v)
      <4>1. /\ v \in Seq(Message) /\ v # << >> /\ Len(v) \in Nat
        BY <1>0
      <4>2. /\ Head(v) = v[1] /\ Len(w) = Len(v) - 1
            /\ \A k \in 1..Len(w) : w[k] = v[k + 1]
        BY <3>3, <4>1, TakeHead
      <4>3. j + 1 \in 1..Len(v) /\ w[j] = v[j + 1] /\ Len(w) \in Nat
        BY <4>1, <4>2
      <4>4. InOrder(v, j + 1)'
        BY <4>1, <4>3, InOrderKept DEF StaleInv
      <4>5. Settled(v[1])'
        BY <2>1, <2>3, <4>2 DEF Settled, Reached
      <4>6. handle'[w[j]] # "none"
        BY <4>3, <4>4 DEF InOrder
      <4>7. ASSUME NEW i \in 1..(w[j] - 1)
            PROVE  Settled(i)' \/ \E k \in 1..(j - 1) : w[k] = i
        <5>1. Settled(i)' \/ \E k \in 1..((j + 1) - 1) : v[k] = i
          BY <4>3, <4>4 DEF InOrder
        <5>2. ASSUME NEW k \in 1..((j + 1) - 1), v[k] = i, k # 1
              PROVE  \E l \in 1..(j - 1) : w[l] = i
          <6>1. k - 1 \in 1..(j - 1) /\ k - 1 \in 1..Len(w) /\ (k - 1) + 1 = k
            BY <4>3, <5>2
          <6>2. w[k - 1] = i
            BY <4>2, <5>2, <6>1
          <6>3. QED
            BY <6>1, <6>2
        <5>3. QED
          BY <4>5, <5>1, <5>2
      <4>8. QED
        BY <4>6, <4>7 DEF InOrder
    <3>4. QED
      BY <2>1, <2>3, <3>2, <3>3
  <2>4. QED
    BY <2>2, <2>3
<1>3. CASE Disconnect
  BY <1>1, <1>3 DEF Disconnect
<1>4. CASE ReceiveAck \/ EndOfStream \/ Break
  BY <1>1, <1>3, <1>4 DEF ReceiveAck, EndOfStream, Break, peer
<1>5. CASE UNCHANGED vars \/ Send \/ Drain \/ Transmit \/ TakeMessage \/ Dispatch
  BY <1>1, <1>5 DEF vars, peer, Send, Drain, Transmit, TakeMessage, Dispatch
<1>6. CASE Connect \/ FailToConnect \/ DelayElapses
  BY <1>1, <1>6 DEF Connect, FailToConnect, DelayElapses, peer
<1>7. ASSUME NEW m \in Message, Cancel(m) \/ PassOn(m)
      PROVE  StaleInv'
  BY <1>1, <1>7 DEF Cancel, PassOn, peer
<1>8. QED
  BY <1>2, <1>4, <1>5, <1>6, <1>7 DEF Next

-----------------------------------------------------------------------------
\* What a step makes reach the peer: nothing, or one message that was sent and below
\* which everything is settled.
LEMMA OneReaches ==
    ASSUME TypeOK, QueueInv, AckInv, StaleInv, Dispatch \/ DispatchStale
    PROVE  /\ UNCHANGED <<handle, delivered>>
           /\ \/ UNCHANGED taken
              \/ \E m \in Message : /\ taken' = taken \cup {m} /\ handle[m] # "none"
                                    /\ \A i \in 1..(m - 1) : Settled(i)
<1>0. wire \in Seq(Message) /\ stale \subseteq Seq(Message) \ {<< >>}
  BY DEF TypeOK
<1>1. ASSUME NEW w \in Seq(Message), w # << >>, \A j \in 1..Len(w) : InOrder(w, j)
      PROVE  /\ Head(w) \in Message /\ handle[Head(w)] # "none"
             /\ \A i \in 1..(Head(w) - 1) : Settled(i)
  <2>1. Head(w) = w[1] /\ Head(w) \in Message /\ 1 \in 1..Len(w)
    BY <1>1
  <2>2. InOrder(w, 1)
    BY <1>1, <2>1
  <2>3. QED
    BY <2>1, <2>2 DEF InOrder
<1>2. CASE Dispatch
  <2>1. wire # << >> /\ UNCHANGED <<handle, delivered>>
    BY <1>2 DEF Dispatch, sender
  <2>2. UNCHANGED taken \/ taken' = taken \cup {Head(wire)}
    BY <1>2 DEF Dispatch
  <2>3. \A j \in 1..Len(wire) : InOrder(wire, j)
    BY WirePrecedes
  <2>4. QED
    BY <1>0, <1>1, <2>1, <2>2, <2>3
<1>3. CASE DispatchStale
  <2>1. PICK w \in stale : UNCHANGED taken \/ taken' = taken \cup {Head(w)}
    BY <1>3 DEF DispatchStale
  <2>2. \A j \in 1..Len(w) : InOrder(w, j)
    BY DEF StaleInv
  <2>3. UNCHANGED <<handle, delivered>>
    BY <1>3 DEF DispatchStale, sender
  <2>4. QED
    BY <1>0, <1>1, <2>1, <2>2, <2>3
<1>4. QED
  BY <1>2, <1>3

\* ReachInOrder is inductive, given the others.
LEMMA ReachStep ==
    ASSUME TypeOK, QueueInv, AckInv, StaleInv, ReachInOrder, [Next]_vars
    PROVE  ReachInOrder'
<1>0. Reached \subseteq Message
  BY DEF Reached, TypeOK
<1>1. \A m \in Reached : \A i \in 1..(m - 1) : i \in Message /\ Settled(i)
  BY <1>0, SenderAssumption DEF ReachInOrder, Reached, Settled, Message
<1>2. ASSUME NEW m \in Message, Reached' \subseteq Reached \cup {m},
             \A i \in 1..(m - 1) : Settled(i)
      PROVE  ReachInOrder'
  <2>1. \A i \in 1..(m - 1) : i \in Message
    BY SenderAssumption DEF Message
  <2>2. \A n \in Reached' : \A i \in 1..(n - 1) : Settled(i)'
    BY <1>1, <1>2, <2>1, Kept
  <2>3. QED
    BY <2>2 DEF ReachInOrder, Reached, Settled
<1>3. ASSUME Reached' \subseteq Reached
      PROVE  ReachInOrder'
  <2>1. \A n \in Reached' : \A i \in 1..(n - 1) : Settled(i)'
    BY <1>1, <1>3, Kept
  <2>2. QED
    BY <2>1 DEF ReachInOrder, Reached, Settled
<1>4. CASE Dispatch \/ DispatchStale
  BY <1>2, <1>3, <1>4, OneReaches DEF Reached
<1>5. ASSUME NEW m \in Message, Cancel(m) \/ PassOn(m)
      PROVE  ReachInOrder'
  BY <1>3, <1>5 DEF Cancel, PassOn, peer, Reached
<1>6. CASE UNCHANGED vars \/ Send \/ Drain \/ Transmit \/ TakeMessage
  BY <1>3, <1>6 DEF vars, peer, Send, Drain, Transmit, TakeMessage, Reached
<1>7. CASE Connect \/ FailToConnect \/ DelayElapses
  BY <1>3, <1>7 DEF Connect, FailToConnect, DelayElapses, peer, Reached
<1>8. CASE ReceiveAck \/ EndOfStream \/ Break
  BY <1>3, <1>8 DEF ReceiveAck, EndOfStream, Break, Disconnect, peer, Reached
<1>9. QED
  BY <1>4, <1>5, <1>6, <1>7, <1>8 DEF Next

-----------------------------------------------------------------------------
(***************************************************************************)
(* The theorems.                                                           *)
(***************************************************************************)
\* The invariant holds in every reachable state of a connection of a
\* ReliableSender and of the task that serves it at the peer.
THEOREM SenderInvariant == Spec => []IInv
<1>1. Init => IInv
  <2> SUFFICES ASSUME Init
               PROVE  IInv
    OBVIOUS
  <2>1. Elems(<< >>) = {} /\ Increasing(<< >>)
    BY DEF Elems, Increasing
  <2>2. /\ handle = [m \in Message |-> "none"] /\ channel = << >> /\ buffer = << >>
        /\ pending = << >> /\ wire = << >> /\ acks = << >> /\ stale = {}
        /\ taken = {} /\ delivered = {}
    BY DEF Init
  <2>3. ~closed
    BY Zenon DEF Init
  <2>4. QueueInv
    BY <2>1, <2>2 DEF QueueInv, Queued
  <2>5. AckInv
    BY <2>2, <2>3 DEF AckInv
  <2>6. StaleInv /\ ReachInOrder
    BY <2>2 DEF StaleInv, ReachInOrder
  <2>7. QED
    BY <2>4, <2>5, <2>6 DEF IInv
<1>2. TypeOK /\ TypeOK' /\ IInv /\ [Next]_vars => IInv'
  BY QueueStep, AckStep, StaleStep, ReachStep DEF IInv
<1>3. QED
  BY <1>1, <1>2, SenderTypeCorrect, PTL DEF Spec

\* keep_alive matches an ACK, which names no message, with the first message of
\* pending_replies: that is the message the peer sent it for, whatever was cancelled,
\* refused or sent again, for any number of messages and of broken connections.
THEOREM AcksAlwaysMatch == Spec => []AcksMatch
<1>1. TypeOK /\ IInv => AcksMatch
  <2> SUFFICES ASSUME TypeOK, AckInv
               PROVE  AcksMatch
    BY DEF IInv
  <2>1. /\ acks \in Seq(Message) /\ pending \in Seq(Message)
        /\ Len(acks) \in Nat /\ Len(pending) \in Nat /\ Len(acks) <= Len(pending)
    BY DEF TypeOK, AckInv
  <2> DEFINE front == SubSeq(pending, 1, Len(acks))
  <2>2. front \in Seq(Message) /\ Len(front) = Len(acks)
    BY <2>1
  <2>3. \A i \in 1..Len(acks) : front[i] = pending[i]
    BY <2>1
  <2>4. \A i \in 1..Len(acks) : front[i] = acks[i]
    BY <2>3 DEF AckInv
  <2> HIDE DEF front
  <2>5. acks = front
    BY <2>1, <2>2, <2>4, SeqEqual
  <2>6. QED
    BY <2>1, <2>5 DEF AcksMatch, front
<1>2. QED
  BY <1>1, SenderInvariant, SenderTypeCorrect, PTL

\* Connection::keep_alive puts the messages without an ACK back in front of the
\* buffer: so messages reach the peer in the order in which they were sent, across
\* any number of connections, and one is passed over only if it was cancelled or the
\* peer refuses it.
THEOREM SenderKeepsOrder == Spec => []ReachInOrder
<1>1. IInv => ReachInOrder
  BY DEF IInv
<1>2. QED
  BY <1>1, SenderInvariant, PTL

\* The safety part of ImplementsLink: every step of the connection and of the peer
\* is a step of ReliableLink or changes nothing there.  So the caller is notified only
\* of a message that reached the peer, and nothing reaches it that was not sent.
THEOREM SenderRefinesLink == Spec => Link!Init /\ [][Link!Next]_(Link!vars)
<1>1. Init => Link!Init
  BY DEF Init, Link!Init
<1>2. ASSUME TypeOK, IInv, [Next]_vars
      PROVE  [Link!Next]_(Link!vars)
  <2>0. handle \in [Message -> {"none", "open", "dropped", "notified"}] /\ pending \in Seq(Message)
    BY <1>2 DEF TypeOK
  <2>1. ASSUME UNCHANGED <<handle, taken, delivered>>
        PROVE  UNCHANGED Link!vars
    BY <2>1 DEF Link!vars
  <2>2. CASE Send
    <3>1. PICK m \in Message : handle[m] = "none" /\ handle' = [handle EXCEPT ![m] = "open"]
      BY <2>2 DEF Send
    <3>2. Link!Send(m)
      BY <2>2, <3>1 DEF Send, peer, Link!Send
    <3>3. QED
      BY <3>2 DEF Link!Next
  <2>3. ASSUME NEW m \in Message, Cancel(m)
        PROVE  Link!Next
    <3>1. Link!Cancel(m)
      BY <2>3 DEF Cancel, peer, Link!Cancel
    <3>2. QED
      BY <3>1 DEF Link!Next
  <2>4. ASSUME NEW m \in Message, PassOn(m)
        PROVE  Link!Next
    <3>1. Link!Deliver(m)
      BY <2>4 DEF PassOn, sender, Link!Deliver
    <3>2. QED
      BY <3>1 DEF Link!Next
  <2>5. CASE Dispatch \/ DispatchStale
    <3>1. /\ UNCHANGED <<handle, delivered>>
          /\ \/ UNCHANGED taken
             \/ \E m \in Message : taken' = taken \cup {m} /\ handle[m] # "none"
      BY <1>2, <2>5, OneReaches DEF IInv
    <3>2. ASSUME NEW m \in Message, taken' = taken \cup {m}, handle[m] # "none"
          PROVE  Link!Next
      <4>1. Link!Reach(m)
        BY <3>1, <3>2 DEF Link!Reach
      <4>2. QED
        BY <4>1 DEF Link!Next
    <3>3. QED
      BY <2>1, <3>1, <3>2
  <2>6. CASE Disconnect
    BY <2>1, <2>6 DEF Disconnect
  <2>7. CASE ReceiveAck
    <3>1. CASE pending = << >>
      BY <2>6, <2>7, <3>1 DEF ReceiveAck
    <3>2. CASE pending # << >> /\ is_open(Head(pending))
      <4> DEFINE m == Head(pending)
      <4>1. /\ handle' = [handle EXCEPT ![m] = "notified"] /\ handle[m] = "open"
            /\ UNCHANGED <<taken, delivered>>
        BY <2>7, <3>2 DEF ReceiveAck, is_open, peer
      <4>2. m \in Message /\ m = pending[1]
        BY <2>0, <3>2
      <4>3. m \in Reached
        <5>1. 1 \in 1..Len(acks)
          BY <1>2, <2>7 DEF ReceiveAck, TypeOK
        <5>2. QED
          BY <1>2, <4>2, <5>1 DEF IInv, AckInv
      <4>4. Link!Notify(m)
        BY <4>1, <4>3 DEF Link!Notify, Reached
      <4>5. QED
        BY <4>2, <4>4 DEF Link!Next
    <3>3. CASE pending # << >> /\ ~is_open(Head(pending))
      BY <2>1, <2>7, <3>3 DEF ReceiveAck, peer
    <3>4. QED
      BY <3>1, <3>2, <3>3
  <2>8. CASE EndOfStream \/ Break
    BY <2>6, <2>8 DEF EndOfStream, Break
  <2>9. CASE UNCHANGED vars \/ Drain \/ Transmit \/ TakeMessage
    BY <2>1, <2>9 DEF vars, sender, peer, Drain, Transmit, TakeMessage
  <2>10. CASE Connect \/ FailToConnect \/ DelayElapses
    BY <2>1, <2>10 DEF Connect, FailToConnect, DelayElapses, peer
  <2>11. QED
    BY <1>2, <2>2, <2>3, <2>4, <2>5, <2>7, <2>8, <2>9, <2>10 DEF Next
<1>3. QED
  BY <1>1, <1>2, SenderInvariant, SenderTypeCorrect, PTL DEF Spec
=============================================================================
