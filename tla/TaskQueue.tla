------------------------------ MODULE TaskQueue ------------------------------
(***************************************************************************)
(* The background work of worker.go in time: the loop of Run with its      *)
(* slots, wake channel and poll timer in every process on the store, the   *)
(* tasks of memstore with RunAt and LeaseUntil, and the readiness probe.   *)
(* What a run does inside its lease is in Worker and the modules on it;    *)
(* here it ends by finishing its task, rescheduling it or giving it up.    *)
(***************************************************************************)
EXTENDS Integers, FiniteSets, FiniteSetsExt

CONSTANTS
  Loops,         \* processes that call Run
  Tasks,         \* challenge responses and finalizations that are accepted
  None,
  Concurrency, Lease, PollInterval, RetryDelay, StaleAfter,  \* WorkerConfig
  Probing,       \* is Ready called?
  MaxTime,       \* bound: the clock
  MaxAttempts,   \* WorkerConfig.MaxAttempts: no run is rescheduled after so many
  MaxFaults      \* bound: failed Store calls, lost runs and stopped loops

VARIABLES
  now,      \* Clock.Now
  task,     \* Store.tasks, None where there is no record
  accept,   \* the request that accepts each task
  home,     \* the process of that request, None for one without Run
  wake,     \* Server.wake holds a token
  loop,     \* Run in each process
  runs,     \* Server.process goroutines
  probe,    \* the last call of Ready
  faults,
  failed,   \* of these, claims that failed
  down,     \* the time since which no loop and no run is left, or None
  urgent    \* do the steps of a loop between two waits take no time?

vars == <<now, task, accept, home, wake, loop, runs, probe, faults, failed, down, urgent>>

ZeroTime == -1
TaskRec == [runAt : Nat, lease : Nat \cup {ZeroTime}, fence : Nat, seq : Nat]
LoopRec == [pc : {"slot", "clock", "claim", "wait", "stopped"}, used : 0..Concurrency,
            endAt : Nat, at : Nat, timer : Nat]
RunRec == [loop : Loops, task : Tasks, fence : Nat, endAt : Nat]

(* What is assumed of the constants; MCTaskQueue has it evaluated. *)
QueueAssumption ==
  /\ {Concurrency, Lease, PollInterval, RetryDelay, StaleAfter} \subseteq Nat \ {0}
  /\ {MaxTime, MaxAttempts, MaxFaults} \subseteq Nat
  /\ Probing \in BOOLEAN
  /\ IsFiniteSet(Tasks)
  /\ None \notin Loops \cup Nat \cup TaskRec

(* No slot is used beyond Concurrency, and no run has a fence that the     *)
(* store did not hand out.                                                 *)
TypeOK ==
  /\ now \in 0..MaxTime
  /\ task \in [Tasks -> TaskRec \cup {None}]
  /\ accept \in [Tasks -> {"new", "stored", "signalled"}]
  /\ home \in [Tasks -> Loops \cup {None}]
  /\ wake \in [Loops -> BOOLEAN]
  /\ loop \in [Loops -> LoopRec]
  /\ runs \subseteq RunRec
  /\ probe \in [pc : {"idle", "counted"}, at : Nat, result : {"none", "ready", "stale"}]
  /\ faults \in 0..MaxFaults /\ failed \in 0..faults
  /\ down \in Nat \cup {None}

(* Run is under way in some of the processes. *)
Init ==
  /\ now = 0
  /\ task = [t \in Tasks |-> None]
  /\ accept = [t \in Tasks |-> "new"]
  /\ home \in [Tasks -> Loops \cup {None}]
  /\ wake = [l \in Loops |-> FALSE]
  /\ \E running \in SUBSET Loops :
       /\ loop = [l \in Loops |-> [pc |-> IF l \in running THEN "slot" ELSE "stopped",
                                  used |-> 0, endAt |-> 0, at |-> 0, timer |-> 0]]
       /\ down = IF running = {} THEN 0 ELSE None
  /\ runs = {}
  /\ probe = [pc |-> "idle", at |-> 0, result |-> "none"]
  /\ faults = 0 /\ failed = 0 /\ urgent \in BOOLEAN

-----------------------------------------------------------------------------
(* The tasks of memstore. *)
Stored == {t \in Tasks : task[t] # None}

(* insertTask: the insertion number breaks ties of RunAt. *)
InsertTask(t) ==
  task' = [task EXCEPT ![t] = [runAt |-> now, lease |-> ZeroTime, fence |-> 0,
    seq |-> 1 + Cardinality({u \in Tasks : accept[u] # "new"})]]

Lapsed(t, at) == task[t].lease = ZeroTime \/ task[t].lease <= at
Runnable(at) == {t \in Stored : task[t].runAt <= at /\ Lapsed(t, at)}

(* The order in which ClaimTask takes runnable tasks. *)
Before(t, u) == \/ task[t].runAt < task[u].runAt
                \/ task[t].runAt = task[u].runAt /\ task[t].seq < task[u].seq

(* ClaimTask, for a caller that read its clock at the time at. *)
ClaimTask(t, at) ==
  /\ t \in Runnable(at) /\ \A u \in Runnable(at) \ {t} : Before(t, u)
  /\ task' = [task EXCEPT ![t].lease = at + Lease, ![t].fence = @ + 1]

(* checkTask. *)
Holds(r) == task[r.task] # None /\ task[r.task].fence = r.fence

(* PendingTasks and LeasedTasks. *)
\* Mutant: a lapsed lease still counts as a lease.
PendingUnleased(before) ==
  Cardinality({t \in Stored : task[t].runAt <= before /\ task[t].lease = ZeroTime})
PendingTasks(before) == Cardinality(Runnable(before))
LeasedTasks(at) == Cardinality({t \in Stored : task[t].lease > at})

(* retryDelay: doubled after every attempt but the first, up to 32 times   *)
(* RetryDelay.                                                             *)
Backoff(attempts) ==
  RetryDelay * <<1, 2, 4, 8, 16, 32>>[IF attempts < 6 THEN attempts ELSE 6]

-----------------------------------------------------------------------------
(* A request accepts a task (AcceptChallenge, FinalizeOrder) and then      *)
(* wakes the loop of its own process (workAccepted), if there is one.      *)
Accept(t) ==
  /\ accept[t] = "new"
  /\ accept' = [accept EXCEPT ![t] = "stored"]
  /\ InsertTask(t)
  /\ UNCHANGED <<now, home, wake, loop, runs, probe, faults, failed, down>>

\* Mutant: a token is sent only to a loop that already waits.
WorkAcceptedUnbuffered(t) ==
  /\ accept[t] = "stored"
  /\ accept' = [accept EXCEPT ![t] = "signalled"]
  /\ wake' = [l \in Loops |-> wake[l] \/ (l = home[t] /\ loop[l].pc = "wait")]
  /\ UNCHANGED <<now, task, home, loop, runs, probe, faults, failed, down>>
WorkAccepted(t) ==
  /\ accept[t] = "stored"
  /\ accept' = [accept EXCEPT ![t] = "signalled"]
  /\ wake' = [l \in Loops |-> wake[l] \/ l = home[t]]
  /\ UNCHANGED <<now, task, home, loop, runs, probe, faults, failed, down>>

-----------------------------------------------------------------------------
(* The loop of Run: take a slot, read the wall clock, read Clock.Now,      *)
(* claim.                                                                  *)
AcquireSlot(l) ==
  /\ loop[l].pc = "slot" /\ loop[l].used < Concurrency
  /\ loop' = [loop EXCEPT ![l].pc = "clock", ![l].used = @ + 1, ![l].endAt = now + Lease]
  /\ UNCHANGED <<now, task, accept, home, wake, runs, probe, faults, failed, down>>

ReadClock(l) ==
  /\ loop[l].pc = "clock"
  /\ loop' = [loop EXCEPT ![l].pc = "claim", ![l].at = now]
  /\ UNCHANGED <<now, task, accept, home, wake, runs, probe, faults, failed, down>>

(* The locals of an iteration end with it. *)
Iterate(l) ==
  loop' = [loop EXCEPT ![l] =
    [pc |-> "slot", used |-> @.used, endAt |-> 0, at |-> 0, timer |-> 0]]

\* Mutant: the end of the lease is counted from the end of the claim.
ClaimLate(l) ==
  /\ loop[l].pc = "claim"
  /\ \E t \in Tasks :
       /\ ClaimTask(t, loop[l].at)
       /\ runs' = runs \cup {[loop |-> l, task |-> t, fence |-> task[t].fence + 1,
                              endAt |-> now + Lease]}
  /\ Iterate(l)
  /\ UNCHANGED <<now, accept, home, wake, probe, faults, failed, down>>
Claim(l) ==
  /\ loop[l].pc = "claim"
  /\ \E t \in Tasks :
       /\ ClaimTask(t, loop[l].at)
       /\ runs' = runs \cup {[loop |-> l, task |-> t, fence |-> task[t].fence + 1,
                              endAt |-> loop[l].endAt]}
  /\ Iterate(l)
  /\ UNCHANGED <<now, accept, home, wake, probe, faults, failed, down>>

(* Without a task the slot is returned and the loop waits. *)
\* Mutant: the slot is kept.
WaitWithSlot(l) ==
  loop' = [loop EXCEPT ![l] = [pc |-> "wait", used |-> @.used, endAt |-> 0, at |-> 0,
                              timer |-> now + PollInterval]]
\* Mutant: the timer runs for a lease.
WaitForLease(l) ==
  loop' = [loop EXCEPT ![l] = [pc |-> "wait", used |-> @.used - 1, endAt |-> 0, at |-> 0,
                              timer |-> now + Lease]]
Wait(l) ==
  loop' = [loop EXCEPT ![l] = [pc |-> "wait", used |-> @.used - 1, endAt |-> 0, at |-> 0,
                              timer |-> now + PollInterval]]

ClaimEmpty(l) ==
  /\ loop[l].pc = "claim" /\ Runnable(loop[l].at) = {}
  /\ Wait(l)
  /\ UNCHANGED <<now, task, accept, home, wake, runs, probe, faults, failed, down>>

ClaimFails(l) ==
  /\ loop[l].pc = "claim" /\ faults < MaxFaults
  /\ faults' = faults + 1 /\ failed' = failed + 1
  /\ Wait(l)
  /\ UNCHANGED <<now, task, accept, home, wake, runs, probe, down>>

Woken(l) ==
  /\ loop[l].pc = "wait" /\ wake[l]
  /\ wake' = [wake EXCEPT ![l] = FALSE]
  /\ Iterate(l)
  /\ UNCHANGED <<now, task, accept, home, runs, probe, faults, failed, down>>

TimerFires(l) ==
  /\ loop[l].pc = "wait" /\ now >= loop[l].timer
  /\ Iterate(l)
  /\ UNCHANGED <<now, task, accept, home, wake, runs, probe, faults, failed, down>>

(* When the last loop and the last run are gone, down is the time. *)
NoteDown == down' = IF runs' = {} /\ \A l \in Loops : loop'[l].pc = "stopped"
                    THEN (IF down = None THEN now ELSE down) ELSE None

(* The context of Run is canceled while it waits in a select; runs in      *)
(* flight go on.                                                           *)
Stop(l) ==
  /\ loop[l].pc \in {"slot", "wait"} /\ faults < MaxFaults
  /\ faults' = faults + 1
  /\ loop' = [loop EXCEPT ![l].pc = "stopped", ![l].timer = 0]
  /\ UNCHANGED <<now, task, accept, home, wake, runs, probe, failed>>
  /\ NoteDown

(* The process dies, and its runs with it. *)
Crash(l) ==
  /\ loop[l].pc # "stopped" /\ faults < MaxFaults
  /\ faults' = faults + 1
  /\ runs' = {r \in runs : r.loop # l}
  /\ loop' = [loop EXCEPT ![l] =
       [pc |-> "stopped", used |-> 0, endAt |-> 0, at |-> 0, timer |-> 0]]
  /\ NoteDown
  /\ UNCHANGED <<now, task, accept, home, wake, probe, failed>>

-----------------------------------------------------------------------------
(* The end of a run.  Its context ends with the lease (process), and every *)
(* Store call of a run whose context has ended fails.                      *)
EndRun(r) ==
  /\ runs' = runs \ {r}
  /\ loop' = [loop EXCEPT ![r.loop].used = @ - 1]
  /\ NoteDown

Finish(r) ==
  /\ now < r.endAt /\ EndRun(r)
  /\ task' = IF Holds(r) THEN [task EXCEPT ![r.task] = None] ELSE task
  /\ UNCHANGED <<now, accept, home, wake, probe, faults, failed>>

Reschedule(r) ==
  /\ now < r.endAt /\ r.fence < MaxAttempts /\ EndRun(r)
  /\ task' = IF Holds(r)
       THEN [task EXCEPT ![r.task].runAt = now + Backoff(r.fence), ![r.task].lease = ZeroTime]
       ELSE task
  /\ UNCHANGED <<now, accept, home, wake, probe, faults, failed>>

(* The run has used up its lease, or its last write failed. *)
GiveUp(r) ==
  /\ \/ now >= r.endAt /\ UNCHANGED faults
     \/ now < r.endAt /\ faults < MaxFaults /\ faults' = faults + 1
  /\ EndRun(r)
  /\ UNCHANGED <<now, task, accept, home, wake, probe, failed>>

-----------------------------------------------------------------------------
(* Ready: the tasks that have waited, then the leases, two reads.          *)
Ready ==
  /\ Probing /\ probe.pc = "idle"
  /\ probe' = IF now - StaleAfter >= 0 /\ PendingTasks(now - StaleAfter) > 0
       THEN [pc |-> "counted", at |-> now, result |-> "none"]
       ELSE [pc |-> "idle", at |-> now, result |-> "ready"]
  /\ UNCHANGED <<now, task, accept, home, wake, loop, runs, faults, failed, down>>

ReadyLeases ==
  /\ probe.pc = "counted"
  /\ probe' = [probe EXCEPT !.pc = "idle",
       !.result = IF LeasedTasks(probe.at) > 0 THEN "ready" ELSE "stale"]
  /\ UNCHANGED <<now, task, accept, home, wake, loop, runs, faults, failed, down>>

(* A loop that is not waiting for a slot, a token or its timer. *)
Busy(l) == \/ loop[l].pc = "slot" /\ loop[l].used < Concurrency
           \/ loop[l].pc \in {"clock", "claim"}
           \/ loop[l].pc = "wait" /\ (wake[l] \/ now >= loop[l].timer)

Tick ==
  /\ now < MaxTime
  /\ urgent => \A l \in Loops : ~Busy(l)
  /\ now' = now + 1
  /\ UNCHANGED <<task, accept, home, wake, loop, runs, probe, faults, failed, down>>

(* The clock has reached its bound. *)
Rest == now = MaxTime /\ UNCHANGED vars

Next ==
  /\ UNCHANGED urgent
  /\ \/ \E t \in Tasks : Accept(t) \/ WorkAccepted(t)
     \/ \E l \in Loops : \/ AcquireSlot(l) \/ ReadClock(l) \/ Claim(l) \/ ClaimEmpty(l)
                         \/ ClaimFails(l) \/ Woken(l) \/ TimerFires(l) \/ Stop(l) \/ Crash(l)
     \/ \E r \in runs : Finish(r) \/ Reschedule(r) \/ GiveUp(r)
     \/ Ready \/ ReadyLeases \/ Tick \/ Rest

Spec == Init /\ [][Next]_vars

-----------------------------------------------------------------------------
(* While the context of a run is alive, its task is still leased to it and *)
(* no other run of the task is at work: the wall clock is read before the  *)
(* claim (Run), so the context ends before another worker may claim.       *)
LeaseCoversRun ==
  \A r \in runs : now < r.endAt =>
    /\ Holds(r) /\ task[r.task].lease >= r.endAt
    /\ \A other \in runs \ {r} : other.task = r.task => now >= other.endAt

(* The slots in use are the runs and the claim in progress, never more     *)
(* than Concurrency: no path of Run or process loses one.                  *)
SlotsMatchRuns ==
  \A l \in Loops : loop[l].used =
    Cardinality({r \in runs : r.loop = l})
      + (IF loop[l].pc \in {"clock", "claim"} THEN 1 ELSE 0)
SlotsAccounted == TypeOK /\ SlotsMatchRuns

(* No wake-up is lost in workAccepted: a loop that waits without a token   *)
(* knows of no accepted task of its process that nobody has claimed yet,   *)
(* although the token is dropped when there is one already and Run does    *)
(* not look at it between two claims.                                      *)
NoLostWakeup ==
  \A l \in Loops : loop[l].pc = "wait" /\ ~wake[l] /\ failed = 0 =>
    \A t \in Stored : home[t] = l /\ accept[t] = "signalled" => task[t].fence > 0

(* Where the loops themselves lose no time, a task that is due waits at    *)
(* most one poll interval for a loop that waits, also when nobody wakes    *)
(* the loop: the task comes from another process, its lease lapsed or its  *)
(* backoff ended (the timer of Run).                                       *)
ClaimedInTime ==
  urgent /\ failed = 0 => \A l \in Loops : loop[l].pc = "wait" =>
    \A t \in Runnable(now) : now <= Max({task[t].runAt, task[t].lease}) + PollInterval

(* When every worker is gone, Ready says so: a probe that starts once the  *)
(* last lease and StaleAfter have passed does not answer ready while a     *)
(* task is left that has been due for StaleAfter.                          *)
DeadQueueIsReported ==
  down # None /\ probe.result = "ready"
    /\ probe.at >= down + Lease + StaleAfter =>
  \A t \in Stored : task[t].runAt > probe.at - StaleAfter

(* "A queue that is deep because clients keep the workers busy is not an   *)
(* error, so client load cannot fail a readiness probe" (the comment on    *)
(* Ready), where no call fails, no loop stops and no loop loses time.      *)
LoadCannotFailProbe == urgent => probe.result # "stale"

=============================================================================
