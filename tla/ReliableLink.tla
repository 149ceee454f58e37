---------------------------- MODULE ReliableLink ----------------------------
(***************************************************************************)
(* What a ReliableSender promises to its caller about one peer.            *)
(*                                                                         *)
(* The caller sends a message and gets a handle, which it may drop to      *)
(* cancel the message and on which it is notified.  A message whose handle *)
(* is kept reaches the peer, which passes it to its consensus engine, and  *)
(* the caller is notified; the caller is notified of nothing that did not  *)
(* reach the peer.  A message may reach the peer after it was cancelled.   *)
(* No message is promised to be passed on before the caller is notified.   *)
(***************************************************************************)
EXTENDS Naturals

CONSTANT Message

VARIABLES
    handle,     \* "none", "open", "dropped" or "notified", of each message
    reached,    \* the messages that reached the peer
    delivered   \* those the peer passed to its consensus engine

vars == <<handle, reached, delivered>>

Init ==
    /\ handle = [m \in Message |-> "none"]
    /\ reached = {}
    /\ delivered = {}

Send(m) ==
    /\ handle[m] = "none"
    /\ handle' = [handle EXCEPT ![m] = "open"]
    /\ UNCHANGED <<reached, delivered>>

Cancel(m) ==
    /\ handle[m] = "open"
    /\ handle' = [handle EXCEPT ![m] = "dropped"]
    /\ UNCHANGED <<reached, delivered>>

Reach(m) ==
    /\ handle[m] # "none"
    /\ reached' = reached \cup {m}
    /\ UNCHANGED <<handle, delivered>>

Notify(m) ==
    /\ handle[m] = "open"
    /\ m \in reached
    /\ handle' = [handle EXCEPT ![m] = "notified"]
    /\ UNCHANGED <<reached, delivered>>

Deliver(m) ==
    /\ m \in reached
    /\ delivered' = delivered \cup {m}
    /\ UNCHANGED <<handle, reached>>

Next == \E m \in Message : Send(m) \/ Cancel(m) \/ Reach(m) \/ Notify(m) \/ Deliver(m)

Fairness ==
    \A m \in Message :
        WF_vars(handle[m] = "open" /\ Reach(m)) /\ WF_vars(Notify(m)) /\ WF_vars(Deliver(m))

Spec == Init /\ [][Next]_vars /\ Fairness
=============================================================================
