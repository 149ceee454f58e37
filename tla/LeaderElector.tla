--------------------------- MODULE LeaderElector ---------------------------
(***************************************************************************)
(* The leader schedules (hydrangea/src/leader.rs).                         *)
(*                                                                         *)
(* A node is its index in the sorted list of the authorities; the failing  *)
(* ones come last, which the failure schedules do not depend on.           *)
(***************************************************************************)
EXTENDS Integers, Sequences, FiniteSets, SequencesExt

CONSTANT
    MaxSize     \* bound: the size of the largest committee

ASSUME SizeAssumption == MaxSize \in Nat /\ MaxSize >= 2

Kind == {"FairSuccession", "FailureBestCase", "FailureMidCase", "FailureWorstCase"}

VARIABLES
    kind,       \* the LeaderElectorKind
    n,          \* the size of the committee
    failing,    \* how many of its nodes are not honest
    successors, \* successors[i]: the nodes that have still to succeed i
    schedule,   \* the schedule so far
    leader,     \* the node to append to it
    done,       \* the schedule is complete
    panicked    \* an assertion failed

vars == <<kind, n, failing, successors, schedule, leader, done, panicked>>

Nodes == 0..(n - 1)

honest == [i \in 1..(n - failing) |-> i - 1]

byzantine == [i \in 1..failing |-> n - failing + i - 1]

\* Mutant: a node succeeds itself.
Successors_with_self(size, i) == [j \in 1..size |-> (i + j - 1) % size]

\* Mutant: the successors do not wrap around.
Successors_capped(size, i) ==
    [j \in 1..(size - 1) |-> IF i + j < size THEN i + j ELSE size - 1]

\* Mutant: the successors of every node begin with the last node.
Successors_descending(size, i) ==
    [j \in 1..(size - 1) |-> IF size - j > i THEN size - j ELSE size - j - 1]

\* All the others, beginning with the next one.
Successors(size, i) == [j \in 1..(size - 1) |-> (i + j) % size]

\* A committee of one node gets an empty schedule, in which no round has a leader.
Init ==
    /\ kind \in Kind
    /\ n \in 2..MaxSize
    /\ failing \in IF kind = "FairSuccession" THEN {0} ELSE 0..((n - 1) \div 2)
    /\ successors = [i \in Nodes |-> Successors(n, i)]
    /\ schedule = << >>
    /\ leader = 0
    /\ done = FALSE
    /\ panicked = FALSE

-----------------------------------------------------------------------------
(***************************************************************************)
(* DeterministicFairSuccessionLeaderElector::generate_schedule: one turn   *)
(* of its loop, and what follows the loop.                                 *)
(***************************************************************************)
AppendLeader ==
    /\ kind = "FairSuccession" /\ ~done
    /\ successors[leader] # << >>
    /\ schedule' = Append(schedule, leader)
    /\ leader' = Head(successors[leader])
    /\ successors' = [successors EXCEPT ![leader] = Tail(@)]
    /\ UNCHANGED <<kind, n, failing, done, panicked>>

\* The last leader is appended, compared with the first and removed again.
CloseSchedule ==
    /\ kind = "FairSuccession" /\ ~done
    /\ successors[leader] = << >>
    /\ panicked' = (schedule # << >> /\ Head(schedule) # leader)
    /\ done' = TRUE
    /\ UNCHANGED <<kind, n, failing, successors, schedule, leader>>

-----------------------------------------------------------------------------
(***************************************************************************)
(* FailureSimulationLeaderElector.                                         *)
(***************************************************************************)
generate_best_schedule == honest \o byzantine

generate_mid_schedule ==
    FlattenSeq([i \in DOMAIN honest |->
        IF i <= failing THEN <<honest[i], byzantine[i]>> ELSE <<honest[i]>>])

\* Mutant: one honest leader before every failing one, as in the middle case.
generate_worst_schedule_mid == generate_mid_schedule

\* The code counts from 0: its i is odd where i is even here.
generate_worst_schedule ==
    FlattenSeq([i \in DOMAIN honest |->
        IF i <= 2 * failing /\ i % 2 = 0 THEN <<honest[i], byzantine[i \div 2]>>
                                         ELSE <<honest[i]>>])

GenerateFailureSchedule ==
    /\ kind # "FairSuccession" /\ ~done
    /\ panicked' = \/ kind = "FailureMidCase" /\ Len(honest) <= failing
                   \/ kind = "FailureWorstCase" /\ Len(honest) <= 2 * failing
    /\ schedule' = CASE kind = "FailureBestCase"  -> generate_best_schedule
                     [] kind = "FailureMidCase"   -> generate_mid_schedule
                     [] kind = "FailureWorstCase" -> generate_worst_schedule
    /\ done' = TRUE
    /\ UNCHANGED <<kind, n, failing, successors, leader>>

Next == AppendLeader \/ CloseSchedule \/ GenerateFailureSchedule

Spec == Init /\ [][Next]_vars

\* LeaderElector::get_leader, for the schedules above.
get_leader(round) == schedule[(round % Len(schedule)) + 1]

-----------------------------------------------------------------------------
(***************************************************************************)
(* Properties.  They range over the rounds of one turn of the schedule and *)
(* so include the rounds where it begins again.                            *)
(***************************************************************************)
Turn == 0..(Len(schedule) - 1)

Complete(kinds) == done /\ ~panicked /\ kind \in kinds

\* The assertion at the end of generate_schedule holds: the walk over the
\* successors ends where it began.
ScheduleCloses == kind = "FairSuccession" => ~panicked

FairSuccession ==
    \A i, j \in Nodes :
        Cardinality({r \in Turn : get_leader(r) = i /\ get_leader(r + 1) = j})
            = IF i = j THEN 0 ELSE 1

\* What the comment of DeterministicFairSuccessionLeaderElector says: every node
\* is succeeded by every other node, every pair appears exactly once, and no node
\* succeeds itself; so every node leads the same number of rounds.
EveryPairOnce == Complete({"FairSuccession"}) => FairSuccession

\* A node leads again within 3n - 2 rounds, where the schedule begins again
\* included.  The test of the schedule checks this bound for the rounds before
\* that only.
LeadsAgainSoon ==
    Complete({"FairSuccession"}) =>
        \A r \in Turn : \E i \in 1..(3 * n - 3) : get_leader(r + i) = get_leader(r)

\* In how many rounds of a turn the leader and the next k leaders are honest.
HonestInARow(k) ==
    Cardinality({r \in Turn : \A i \in 0..k : get_leader(r + i) < n - failing})

\* In a failure schedule every node leads one round.  The comments of its three
\* generators count the blocks that commit directly; with n = 3f+1 nodes, f of
\* them failing, their 2f and f+1 are the honest leaders followed by an honest
\* one in the best and the middle case, and their 1 is the one followed by two in
\* the worst case, where f+1 are followed by one.  The comment of the elector
\* itself promises the succession of the fair schedule too, every pair once: no
\* failure schedule of more than two nodes has it.
HonestSuccession ==
    Complete(Kind \ {"FairSuccession"}) =>
        /\ \A i \in Nodes : Cardinality({r \in Turn : get_leader(r) = i}) = 1
        /\ FairSuccession <=> n = 2
        /\ HonestInARow(1) = Len(honest) - (IF kind = "FailureBestCase" /\ failing > 0
                                            THEN 1 ELSE failing)
        /\ kind = "FailureWorstCase" => HonestInARow(2) = Len(honest) - 2 * failing
=============================================================================
