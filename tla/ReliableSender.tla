--------------------------- MODULE ReliableSender ---------------------------
(***************************************************************************)
(* One connection of a ReliableSender (network/src/reliable_sender.rs) and *)
(* the task that serves it at the peer (network/src/receiver.rs with the   *)
(* handler of hydrangea/src/consensus.rs).                                 *)
(*                                                                         *)
(* An ACK carries nothing that tells which message it is for: the sender   *)
(* matches it with the oldest message that waits for one.  In the model an *)
(* ACK is the message it was made for, which the sender does not look at.  *)
(*                                                                         *)
(* The messages are numbered in the order in which the caller sends them.  *)
(* Some are refused by the peer: the Proposer begins by sending the bytes  *)
(* "Ack", which are no consensus message, to open its connections, and     *)
(* drops the handles at once.                                              *)
(***************************************************************************)
EXTENDS Integers, Sequences, FiniteSets

CONSTANTS
    Last,       \* the caller sends the messages 1..Last
    Refused,    \* the messages that the peer cannot deserialize
    Capacity,   \* the capacity of the channel to the connection
    MaxBreaks   \* bound: how often the network breaks the connection

ASSUME SenderAssumption ==
    /\ Last \in Nat /\ Capacity \in Nat \ {0} /\ MaxBreaks \in Nat
    /\ Refused \subseteq 1..Last

Message == 1..Last

Nothing == 0

VARIABLES
    handle,     \* handle[m], as in ReliableLink
    channel,    \* receiver: what the connection has not taken yet
    phase,      \* "connecting", "waiting" to connect again or "connected"
    buffer,     \* the messages to (re)transmit
    pending,    \* pending_replies: transmitted, no ACK yet
    wire,       \* transmitted on this connection and not read by the peer
    acks,       \* the ACKs on their way back
    closed,     \* the peer has closed this connection
    stale,      \* what the peer may still read from former connections
    busy,       \* the message the task of the peer is passing on, or Nothing
    taken,      \* the messages ACKed and not passed on yet
    delivered,  \* the messages passed to the consensus engine of the peer
    breaks      \* how often the network broke the connection

sender == <<handle, channel, phase, buffer, pending>>

peer == <<closed, stale, busy, taken, delivered>>

vars == <<sender, peer, wire, acks, breaks>>

Init ==
    /\ handle = [m \in Message |-> "none"]
    /\ channel = << >> /\ phase = "connecting"
    /\ buffer = << >> /\ pending = << >>
    /\ wire = << >> /\ acks = << >>
    /\ closed = FALSE /\ stale = {} /\ busy = Nothing
    /\ taken = {} /\ delivered = {}
    /\ breaks = 0

is_open(m) == handle[m] = "open"

-----------------------------------------------------------------------------
(***************************************************************************)
(* The caller.                                                             *)
(***************************************************************************)
Send ==
    /\ Len(channel) < Capacity
    /\ \E m \in Message :
          /\ handle[m] = "none" /\ \A i \in 1..(m - 1) : handle[i] # "none"
          /\ handle' = [handle EXCEPT ![m] = "open"]
          /\ channel' = Append(channel, m)
    /\ UNCHANGED <<phase, buffer, pending, wire, acks, breaks, peer>>

\* Proposer::cleanup, or the end of the statement that opens the connections.
Cancel(m) ==
    /\ handle[m] = "open"
    /\ handle' = [handle EXCEPT ![m] = "dropped"]
    /\ UNCHANGED <<channel, phase, buffer, pending, wire, acks, breaks, peer>>

-----------------------------------------------------------------------------
(***************************************************************************)
(* The connection: Connection::run and Connection::keep_alive.             *)
(***************************************************************************)
Connect ==
    /\ phase = "connecting"
    /\ phase' = "connected"
    /\ UNCHANGED <<handle, channel, buffer, pending, wire, acks, breaks, peer>>

FailToConnect ==
    /\ phase = "connecting"
    /\ phase' = "waiting"
    /\ UNCHANGED <<handle, channel, buffer, pending, wire, acks, breaks, peer>>

DelayElapses ==
    /\ phase = "waiting"
    /\ phase' = "connecting"
    /\ UNCHANGED <<handle, channel, buffer, pending, wire, acks, breaks, peer>>

\* buffer.retain(...): the messages of s that were not cancelled, in their order
\* (there is one increasing numbering f of their positions).
Retain(s) ==
    LET kept == {i \in 1..Len(s) : is_open(s[i])}
    IN  \E f \in [1..Cardinality(kept) -> kept] :
            /\ \A i, j \in 1..Cardinality(kept) : i < j => f[i] < f[j]
            /\ buffer' = [i \in 1..Cardinality(kept) |-> s[f[i]]]

\* So as not to block the caller while there is no connection.
Drain ==
    /\ phase = "waiting" /\ channel # << >>
    /\ Retain(Append(buffer, Head(channel)))
    /\ channel' = Tail(channel)
    /\ UNCHANGED <<handle, phase, pending, wire, acks, breaks, peer>>

\* Mutant: the messages that wait for an ACK are cleaned up like the buffer.
Transmit_retaining ==
    /\ phase = "connected" /\ buffer # << >>
    /\ buffer' = Tail(buffer)
    /\ pending' = SelectSeq(Append(pending, Head(buffer)), is_open)
    /\ wire' = IF closed \/ ~is_open(Head(buffer)) THEN wire ELSE Append(wire, Head(buffer))
    /\ UNCHANGED <<handle, channel, phase, acks, breaks, peer>>

\* The head of the buffer is written, unless it was cancelled.  Writing succeeds
\* even if nobody reads at the other end any more.
Transmit ==
    /\ phase = "connected" /\ buffer # << >>
    /\ buffer' = Tail(buffer)
    /\ IF is_open(Head(buffer))
       THEN /\ pending' = Append(pending, Head(buffer))
            /\ wire' = IF closed THEN wire ELSE Append(wire, Head(buffer))
       ELSE UNCHANGED <<pending, wire>>
    /\ UNCHANGED <<handle, channel, phase, acks, breaks, peer>>

\* Only when the buffer is empty does keep_alive take anything else.
TakeMessage ==
    /\ phase = "connected" /\ buffer = << >> /\ channel # << >>
    /\ buffer' = <<Head(channel)>>
    /\ channel' = Tail(channel)
    /\ UNCHANGED <<handle, phase, pending, wire, acks, breaks, peer>>

\* Mutant: the messages without an ACK are put behind the others.
Disconnect_behind ==
    /\ phase' = "connecting"
    /\ buffer' = buffer \o pending
    /\ pending' = << >>
    /\ wire' = << >>
    /\ acks' = << >>
    /\ stale' = IF wire = << >> THEN stale ELSE stale \cup {wire}
    /\ closed' = FALSE
    /\ busy' = Nothing
    /\ UNCHANGED <<handle, channel, taken, delivered>>

\* Mutant: the messages without an ACK are not put back.
Disconnect_losing ==
    /\ phase' = "connecting"
    /\ pending' = << >>
    /\ wire' = << >>
    /\ acks' = << >>
    /\ stale' = IF wire = << >> THEN stale ELSE stale \cup {wire}
    /\ closed' = FALSE
    /\ busy' = Nothing
    /\ UNCHANGED <<handle, channel, buffer, taken, delivered>>

\* What keep_alive does on an error: the messages without an ACK are put back
\* in front of the buffer, in order.  The peer may still read what is on the
\* wire, or some of it.
Disconnect ==
    /\ phase' = "connecting"
    /\ buffer' = pending \o buffer
    /\ pending' = << >>
    /\ wire' = << >>
    /\ acks' = << >>
    /\ stale' = IF wire = << >> THEN stale ELSE stale \cup {wire}
    /\ closed' = FALSE
    /\ busy' = Nothing
    /\ UNCHANGED <<handle, channel, taken, delivered>>

ReceiveAck ==
    /\ phase = "connected" /\ buffer = << >> /\ acks # << >>
    /\ IF pending = << >>
       THEN Disconnect
       ELSE /\ acks' = Tail(acks)
            /\ pending' = Tail(pending)
            /\ handle' = IF is_open(Head(pending))
                         THEN [handle EXCEPT ![Head(pending)] = "notified"] ELSE handle
            /\ UNCHANGED <<channel, phase, buffer, wire, peer>>
    /\ UNCHANGED breaks

\* The peer closed the connection and all its ACKs are read.
EndOfStream ==
    /\ phase = "connected" /\ buffer = << >>
    /\ closed /\ acks = << >>
    /\ Disconnect
    /\ UNCHANGED breaks

\* Writing or reading fails.
Break ==
    /\ phase = "connected"
    /\ breaks < MaxBreaks
    /\ Disconnect
    /\ breaks' = breaks + 1

-----------------------------------------------------------------------------
(***************************************************************************)
(* The peer: Receiver::spawn_runner and ConsensusReceiverHandler::dispatch *)
(* for a proposal.  It sends the ACK before it passes the message on, and  *)
(* passing it on may block.                                                *)
(***************************************************************************)
\* Mutant: the ACK is sent before the message is looked at.
Dispatch_all ==
    /\ wire # << >> /\ busy = Nothing
    /\ acks' = Append(acks, Head(wire))
    /\ busy' = Head(wire)
    /\ taken' = taken \cup {Head(wire)}
    /\ wire' = Tail(wire)
    /\ UNCHANGED <<closed, stale, delivered, breaks, sender>>

Dispatch ==
    /\ wire # << >> /\ busy = Nothing
    /\ IF Head(wire) \in Refused
       THEN /\ closed' = TRUE
            /\ wire' = << >>
            /\ UNCHANGED <<acks, busy, taken>>
       ELSE /\ acks' = Append(acks, Head(wire))
            /\ busy' = Head(wire)
            /\ taken' = taken \cup {Head(wire)}
            /\ wire' = Tail(wire)
            /\ UNCHANGED closed
    /\ UNCHANGED <<stale, delivered, breaks, sender>>

\* The task of a former connection: its ACKs arrive nowhere.
DispatchStale ==
    /\ \E w \in stale :
          IF Head(w) \in Refused
          THEN stale' = stale \ {w} /\ UNCHANGED taken
          ELSE /\ stale' = (stale \ {w}) \cup (IF Len(w) = 1 THEN {} ELSE {Tail(w)})
               /\ taken' = taken \cup {Head(w)}
    /\ UNCHANGED <<closed, busy, delivered, wire, acks, breaks, sender>>

PassOn(m) ==
    /\ m \in taken
    /\ taken' = taken \ {m}
    /\ delivered' = delivered \cup {m}
    /\ busy' = IF busy = m THEN Nothing ELSE busy
    /\ UNCHANGED <<closed, stale, wire, acks, breaks, sender>>

Next ==
    \/ Send
    \/ \E m \in Message : Cancel(m) \/ PassOn(m)
    \/ Connect \/ FailToConnect \/ DelayElapses \/ Drain
    \/ Transmit \/ TakeMessage \/ ReceiveAck \/ EndOfStream \/ Break
    \/ Dispatch \/ DispatchStale

\* The tasks are scheduled, the peer runs and can be connected to in the end
\* (it is tried again and again), its consensus engine takes what is passed to
\* it, and the handles of what it refuses are dropped.
Fairness ==
    /\ SF_vars(Connect)
    /\ WF_vars(DelayElapses) /\ WF_vars(Transmit) /\ WF_vars(TakeMessage)
    /\ WF_vars(ReceiveAck) /\ WF_vars(EndOfStream) /\ WF_vars(Dispatch)
    /\ \A m \in Message : WF_vars(PassOn(m))
    /\ \A m \in Refused : WF_vars(Cancel(m))

Spec == Init /\ [][Next]_vars /\ Fairness

-----------------------------------------------------------------------------
(***************************************************************************)
(* Properties.                                                             *)
(***************************************************************************)
TypeOK ==
    /\ handle \in [Message -> {"none", "open", "dropped", "notified"}]
    /\ phase \in {"connecting", "waiting", "connected"}
    /\ channel \in Seq(Message) /\ buffer \in Seq(Message) /\ pending \in Seq(Message)
    /\ wire \in Seq(Message) /\ acks \in Seq(Message \ Refused)
    /\ closed \in BOOLEAN /\ breaks \in 0..MaxBreaks
    /\ stale \subseteq Seq(Message) \ {<< >>}
    /\ busy \in Message \cup {Nothing}
    /\ taken \subseteq Message \ Refused /\ delivered \subseteq Message \ Refused

\* An ACK is matched with the message it was made for: the ACKs on their way are
\* those of the first messages that wait for one, in order, whatever was
\* cancelled, refused or sent again in between.  So keep_alive never meets an
\* unexpected ACK while the connection is up.
AcksMatch ==
    /\ Len(acks) <= Len(pending)
    /\ acks = SubSeq(pending, 1, Len(acks))

\* Messages reach the peer in the order in which they were sent: one is passed
\* over only if it was cancelled or refused, even across broken connections.
ReachInOrder ==
    \A m \in taken \cup delivered : \A i \in 1..(m - 1) :
        i \in taken \cup delivered \cup Refused \/ handle[i] = "dropped"

\* The connection implements the promise of ReliableLink, its liveness included.
Link == INSTANCE ReliableLink WITH reached <- taken \cup delivered

ImplementsLink == Link!Spec
=============================================================================
