---------------------------- MODULE MCTaskQueue ----------------------------
(***************************************************************************)
(* TaskQueue within four scopes, one in each behaviour: two processes that *)
(* share a task, one process with two slots and three tasks, one whose     *)
(* loop loses no time, and one that is watched by Ready.                   *)
(***************************************************************************)
EXTENDS TaskQueue, TLC

VARIABLE scope

Scopes ==
  [leases  |-> [loops |-> 2, tasks |-> 1, homes |-> 0, time |-> 4, urgent |-> FALSE, probed |-> FALSE],
   wakeups |-> [loops |-> 1, tasks |-> 3, homes |-> 3, time |-> 1, urgent |-> FALSE, probed |-> FALSE],
   times   |-> [loops |-> 1, tasks |-> 2, homes |-> 0, time |-> 6, urgent |-> TRUE, probed |-> FALSE],
   probed  |-> [loops |-> 1, tasks |-> 2, homes |-> 0, time |-> 4, urgent |-> TRUE, probed |-> TRUE]]

(* In the beginning the processes of the scope run, and tasks come from    *)
(* these or from elsewhere.                                                *)
Starts(s) ==
  LET running == {l \in Loops : loop[l].pc # "stopped"} IN
  Cardinality(running) = s.loops /\ \A t \in Tasks : home[t] \in running \cup {None}
Within(s) ==
  /\ Cardinality({t \in Tasks : accept[t] # "new"}) <= s.tasks
  /\ Cardinality({t \in Tasks : home[t] # None}) <= s.homes
  /\ now <= s.time /\ urgent = s.urgent
  /\ s.probed \/ (probe.pc = "idle" /\ probe.result = "none")

ASSUME QueueSmall == QueueAssumption

ScopedInit == scope \in DOMAIN Scopes /\ Init /\ Starts(Scopes[scope]) /\ Within(Scopes[scope])
ScopedNext ==
  /\ UNCHANGED scope
  /\ \/ Next /\ Within(Scopes[scope])'
     \/ now = Scopes[scope].time /\ UNCHANGED vars
ScopedSpec == ScopedInit /\ [][ScopedNext]_<<vars, scope>>

Symmetry == Permutations(Loops) \cup Permutations(Tasks)
=============================================================================
