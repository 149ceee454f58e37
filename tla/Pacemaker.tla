----------------------------- MODULE Pacemaker -----------------------------
(***************************************************************************)
(* How the nodes keep in step: the timer (hydrangea/src/timer.rs), the     *)
(* Timeouts and the certificates with which nodes help each other out of a *)
(* round that failed (handle_timeout, send_timeout and sync_peer of        *)
(* hydrangea/src/core.rs), and the SimpleSender that carries all but the   *)
(* proposals (network/src/simple_sender.rs).                               *)
(*                                                                         *)
(* For some time the network is unreliable: connections break and what is  *)
(* on its way over them is lost, timers expire while messages are on their *)
(* way, and nodes may fail.  From some time on it is stable: messages      *)
(* arrive, and timers are slower than the messages.                        *)
(*                                                                         *)
(* A node takes one input at a time and runs its handler to the end in one *)
(* step (the calls of module Core included): here nothing but time lies    *)
(* between what it receives and what it sends.                             *)
(***************************************************************************)
EXTENDS Core

CONSTANTS
    Failing,    \* the nodes that have failed by the time the network is stable
    MaxUnstable,\* bound: before that time, a node in a later round waits for it
    Unheard     \* bound: <<kind, n>> for the inputs that n does not get before that
                \* time: the kinds of message, and "Timer"

ASSUME PacemakerAssumption == Failing \subseteq Honest /\ MaxUnstable \in 1..MaxRound

VARIABLES
    node,           \* the consensus engine of each node
    net,            \* the messages <<to, m>> on their way
    stable_from     \* the highest round that a node was in when the network
                    \* became stable, 0 before that time

vars == <<node, net, stable_from>>

Stable == stable_from > 0

Running == IF Stable THEN Honest \ Failing ELSE Honest

Moving(n) == n \in Running /\ (Stable \/ node[n].round <= MaxUnstable)

-----------------------------------------------------------------------------
\* The call on top of the stack of s.
make_call(s, e) ==
    LET call == Head(s.calls)
        t == resume(s)
    IN  CASE call.op = "handle_qc" -> handle_qc(t, call.arg, e)
          [] call.op = "finish_prepare_qc" -> finish_prepare_qc(t, call.arg)
          [] call.op = "handle_timeout" -> handle_timeout(t, call.arg, e)
          [] call.op = "add_timeout" -> add_timeout(t, call.arg, e)
          [] call.op = "handle_tc" -> handle_tc(t, call.arg, e)
          [] call.op = "finish_tc" -> finish_tc(t, call.arg, e)
          [] call.op = "advance_to_round" -> advance_to_round(t, call.arg)
          [] call.op = "finish_proposal" -> finish_proposal(t, call.arg)

\* A handler that has come to s, run to its end.
RECURSIVE complete(_, _)
complete(s, e) == IF s.calls = << >> THEN s ELSE complete(make_call(s, e), e)

\* Core::broadcast, and the Proposer, which sends a proposal to its own Core too.
Copies(n, messages) ==
    {<<to, m>> \in Running \X messages : to # n \/ m.type \in {"N", "F"}}

\* A message that the node ignores, now and whenever else it arrives, and that
\* may as well have arrived.
Ignored(s, m) ==
    CASE m.type = "Vote" -> m.round <= CommitRound(s)
      [] m.type = "QC" -> m.qc.round <= CommitRound(s) \/ certified(s, m.qc.round)
      [] m.type \in {"N", "F"} -> BlockRound(m.block) <= CommitRound(s) /\ m.type = "N"
      [] OTHER -> FALSE

\* Node n becomes s, having taken the messages in taken.
Becomes(n, s, taken) ==
    /\ node' = [node EXCEPT ![n] = [s EXCEPT !.sent = {}]]
    /\ net' = {p \in (net \ taken) \cup Copies(n, s.sent) : ~Ignored(node'[p[1]], p[2])}

Init ==
    /\ stable_from = 0
    /\ \E e \in Choice :
          LET booted == [n \in Honest |-> propose_normal(InitialState(n), GenesisQC, e)]
          IN  /\ node = [n \in Honest |-> [booted[n] EXCEPT !.sent = {}]]
              /\ net = UNION {Copies(n, booted[n].sent) : n \in Honest}

-----------------------------------------------------------------------------
Kind(m) == IF m.type = "Vote" THEN m.kind ELSE m.type

Arriving(n) == {p \in net : p[1] = n /\ (Stable \/ <<Kind(p[2]), n>> \notin Unheard)}

handle(s, m, e) ==
    CASE m.type = "Vote" -> handle_vote(s, m)
      [] m.type = "Timeout" -> handle_timeout(s, m, e)
      [] m.type = "QC" -> handle_qc(s, m.qc, e)
      [] m.type \in {"N", "F"} -> handle_proposal(s, m, e)

\* What the handling of m may find outside: without a TC or a Timeout no TCMaker
\* is touched.
Outside(m) == IF m.type \in {"Timeout", "F"} THEN TimeoutChoice ELSE Choice

\* A Timeout that is answered with the locked QC.
IsBehind(s, m) == m.type = "Timeout" /\ m.round <= s.locked.round

Receive(n) ==
    /\ Moving(n)
    /\ \E p \in Arriving(n) : \E e \in Outside(p[2]) :
          /\ ~IsBehind(node[n], p[2])
          /\ Becomes(n, complete(handle(node[n], p[2], e), e), {p})
    /\ UNCHANGED stable_from

\* sync_peer.
SyncPeer(n) ==
    /\ Moving(n)
    /\ \E p \in Arriving(n) :
          /\ IsBehind(node[n], p[2])
          /\ net' = (net \ {p}) \cup {<<p[2].author, QCMessage(node[n].locked)>>}
    /\ UNCHANGED <<node, stable_from>>

\* sync_peer, when less than timeout_delay has passed since the last QC that n
\* sent the author of the Timeout.
RateLimit(n) ==
    /\ Moving(n)
    /\ \E p \in Arriving(n) : IsBehind(node[n], p[2]) /\ net' = net \ {p}
    /\ UNCHANGED <<node, stable_from>>

\* The blocks that n asks for and a running node has, and those it waits with.
Answers(n) == node[n].sync_requests \cap UNION {node[m].store : m \in Running \ {n}}

Loopbacks(n) == {w \in node[n].loopbacks : w[1] \in node[n].store}

Fetch(n) ==
    /\ Moving(n)
    /\ \E b \in Answers(n), e \in Choice :
          Becomes(n, complete(handle_sync_response(node[n], b), e), {})
    /\ UNCHANGED stable_from

Resume(n) ==
    /\ Moving(n)
    /\ \E w \in Loopbacks(n), e \in Choice :
          LET s == [node[n] EXCEPT !.loopbacks = @ \ {w}]
          IN  Becomes(n, complete(handle_synchronizer_loopback(s, w[2]), e), {})
    /\ UNCHANGED stable_from

\* Some node has something to take that is not its timer.
Busy ==
    \E n \in Running : Arriving(n) # {} \/ Answers(n) # {} \/ Loopbacks(n) # {}

\* The timer of n.  bound: of the Timeout for the round after the last, only the
\* clearing of timeout_syncs is left.
TimerExpires(n) ==
    /\ Moving(n)
    /\ IF Stable THEN ~Busy ELSE <<"Timer", n>> \notin Unheard
    /\ IF node[n].round <= MaxRound
       THEN \E e \in TimeoutChoice : Becomes(n, complete(local_timeout_round(node[n]), e), {})
       ELSE /\ node' = [node EXCEPT ![n].timeout_syncs = {}]
            /\ UNCHANGED net
    /\ UNCHANGED stable_from

\* A proposal is sent again until its author fails or is in a later round
\* (Cleanup).  All else a SimpleSender sends once.
SentAgain(m) ==
    /\ m.type \in {"N", "F"}
    /\ LET author == m.block[Len(m.block)].author
       IN  author \notin Failing /\ node[author].round <= BlockRound(m.block)

\* The nodes in Failing stop, every connection breaks a last time and what is on
\* its way is lost, and the network becomes stable.
Stabilize ==
    /\ ~Stable
    /\ \E n \in Honest :
          /\ \A m \in Honest : node[m].round <= node[n].round
          /\ stable_from' = node[n].round
    /\ net' = {p \in net : p[1] \notin Failing /\ SentAgain(p[2])}
    /\ UNCHANGED node

Next ==
    \/ \E n \in Honest :
          Receive(n) \/ SyncPeer(n) \/ RateLimit(n) \/ Fetch(n) \/ Resume(n) \/ TimerExpires(n)
    \/ Stabilize

\* Whether the step TimerExpires(n) of a stable network changes anything.
TimerMatters(n) ==
    /\ Stable /\ ~Busy
    /\ IF node[n].round <= MaxRound THEN local_timeout_round(node[n]) # node[n]
                                    ELSE node[n].timeout_syncs # {}

\* With ENABLED replaced by the guards of the actions: weak fairness of all that
\* Busy speaks of taken together (no timer expires while the network is stable
\* and busy, so any step is one of those), and strong fairness of TimerExpires(n),
\* which has to wait while others are busy.  A node that asks for ever is not
\* rate limited for ever.
Fairness ==
    /\ []<>(Stable /\ ~Busy) \/ []<><<TRUE>>_vars
    /\ \A n \in Honest \ Failing :
          /\ <>[]~TimerMatters(n) \/ []<><<TimerMatters(n) /\ TimerExpires(n)>>_vars
          /\ <>[][~RateLimit(n)]_vars \/ []<><<SyncPeer(n)>>_vars

Spec == Init /\ [][Next]_vars /\ Fairness

-----------------------------------------------------------------------------
(***************************************************************************)
(* Properties.                                                             *)
(***************************************************************************)

\* The fields of every node have their types, and no handler is left halfway.
TypeOK ==
    /\ node \in [Honest -> State]
    /\ \A n \in Honest : node[n].calls = << >> /\ node[n].sent = {}
    /\ \A p \in net : p[1] \in Honest /\ p[2] \in Message
    /\ stable_from \in 0..(MaxRound + 1)

\* The claim "This is Live" of handle_timeout: however much was lost before,
\* once the network is stable every running node leaves every round, with the
\* help of the Timeouts and QCs that nodes send those who are behind.
LeavesEveryRound ==
    []<>(Stable => \A n \in Running : node[n].round = MaxRound + 1)

\* Stability is used: the block of a running leader is committed by every running
\* node, for every round but the first that a node enters when the network is
\* stable.  That one may be lost: the Timeout that its leader lacks was lost, is
\* sent again only after a local timeout clears timeout_syncs, and a node that
\* has the TC does not send it to the leader.
CommitsOnceStable ==
    []<>(Stable => \A n \in Running, r \in 1..MaxRound :
            r > stable_from + 1 /\ Leader[r] \in Running =>
                \E i \in DOMAIN node[n].output : BlockRound(node[n].output[i]) = r)
=============================================================================
