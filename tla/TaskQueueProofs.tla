--------------------------- MODULE TaskQueueProofs ---------------------------
(***************************************************************************)
(* The proofs about TaskQueue, for any number of processes, tasks and      *)
(* slots and any lease, poll interval and backoff.                         *)
(***************************************************************************)
EXTENDS TaskQueue, FiniteSetTheorems, TLAPS

(* A leaf goes to the SMT solver unless it names another prover. *)
USE SMTT(20)

(* A loop reads the end of the lease before the clock of the claim, and a  *)
(* lease ends at most Lease after a claim.                                 *)
ClocksOrdered ==
  /\ \A l \in Loops : loop[l].pc = "clock" => loop[l].endAt <= now + Lease
  /\ \A l \in Loops : loop[l].pc = "claim" => loop[l].at <= now /\ loop[l].endAt <= loop[l].at + Lease
  /\ \A t \in Stored : task[t].lease <= now + Lease

(* Every claim hands out the next fence of a task, and only a claim does.  *)
FencesFresh ==
  /\ \A t \in Tasks : accept[t] = "new" => task[t] = None
  /\ \A r \in runs :
       /\ r.fence > 0 /\ accept[r.task] # "new"
       /\ task[r.task] # None => r.fence <= task[r.task].fence
  /\ \A r, s \in runs : r.task = s.task /\ r.fence = s.fence => r = s

(* A run whose context is alive holds its lease. *)
LeaseHeld ==
  \A r \in runs : now < r.endAt => Holds(r) /\ task[r.task].lease >= r.endAt

(* A task that nobody has claimed is due and free. *)
UnclaimedIsDue ==
  \A t \in Stored : task[t].fence = 0 => task[t].runAt <= now /\ task[t].lease = ZeroTime

(* The loop of a process still has to look for every unclaimed task that   *)
(* the process has announced.                                              *)
LoopWillLook ==
  failed = 0 => \A l \in Loops, t \in Stored :
    home[t] = l /\ accept[t] = "signalled" /\ task[t].fence = 0 =>
      \/ wake[l] \/ loop[l].pc \in {"slot", "clock", "stopped"}
      \/ loop[l].pc = "claim" /\ task[t].runAt <= loop[l].at

(* Where no loop loses time, a loop that waits found nothing to claim when *)
(* it began to, and its timer has not passed.                              *)
WaitsInTime ==
  /\ \A l \in Loops : loop[l].pc = "claim" => loop[l].at = now
  /\ \A l \in Loops : loop[l].pc = "wait" => now <= loop[l].timer /\ loop[l].timer <= now + PollInterval
  /\ failed = 0 => \A l \in Loops, t \in Stored : loop[l].pc = "wait" =>
       \/ loop[l].timer <= task[t].runAt + PollInterval
       \/ loop[l].timer <= task[t].lease + PollInterval

(* Once every worker is gone nothing claims any more, and the leases end.  *)
DownIsFinal ==
  down # None =>
    /\ down <= now /\ runs = {}
    /\ \A l \in Loops : loop[l].pc = "stopped"
    /\ \A t \in Stored : task[t].lease <= down + Lease

ProbeInTime == probe.at <= now

-----------------------------------------------------------------------------
(* Types, slots and fences. *)

Counted == TypeOK /\ IsFiniteSet(runs) /\ SlotsMatchRuns /\ FencesFresh

RunsOf(l) == {r \in runs : r.loop = l}

(* The constants' own types. *)
LEMMA Constants ==
  ASSUME QueueAssumption
  PROVE  /\ Concurrency \in Nat /\ Lease \in Nat /\ PollInterval \in Nat /\ RetryDelay \in Nat
         /\ StaleAfter \in Nat /\ MaxTime \in Nat /\ MaxAttempts \in Nat /\ MaxFaults \in Nat
         /\ Concurrency > 0 /\ Lease > 0 /\ PollInterval > 0 /\ RetryDelay > 0 /\ StaleAfter > 0
         /\ None \notin Loops /\ None \notin Nat /\ None \notin TaskRec /\ IsFiniteSet(Tasks)
BY DEF QueueAssumption

(* retryDelay is a positive time. *)
LEMMA BackoffPositive ==
  ASSUME QueueAssumption, NEW n \in Nat, n > 0
  PROVE  Backoff(n) \in Nat /\ Backoff(n) > 0
<1> DEFINE k == IF n < 6 THEN n ELSE 6
<1>1. k \in 1..6
  OBVIOUS
<1>2. <<1, 2, 4, 8, 16, 32>>[k] \in {1, 2, 4, 8, 16, 32}
  BY <1>1
<1>3. RetryDelay \in Nat /\ RetryDelay > 0
  BY Constants
<1>4. Backoff(n) = RetryDelay * <<1, 2, 4, 8, 16, 32>>[k]
  BY DEF Backoff
<1> HIDE DEF k
<1> QED BY <1>2, <1>3, <1>4

(* A loop has a slot for every run of its own. *)
LEMMA SlotTaken ==
  ASSUME Counted, NEW l \in Loops
  PROVE  /\ IsFiniteSet(RunsOf(l)) /\ Cardinality(RunsOf(l)) \in Nat
         /\ loop[l].pc \in {"clock", "claim"} => loop[l].used = Cardinality(RunsOf(l)) + 1
         /\ loop[l].pc \notin {"clock", "claim"} => loop[l].used = Cardinality(RunsOf(l))
         /\ \A r \in RunsOf(l) : /\ Cardinality(RunsOf(l)) >= 1
                                 /\ Cardinality(RunsOf(l) \ {r}) = Cardinality(RunsOf(l)) - 1
<1>1. RunsOf(l) \subseteq runs /\ IsFiniteSet(runs)
  BY DEF RunsOf, Counted
<1>2. IsFiniteSet(RunsOf(l))
  BY <1>1, FS_Subset
<1>3. Cardinality(RunsOf(l)) \in Nat
  BY <1>2, FS_CardinalityType
<1>4. \A r \in RunsOf(l) : /\ Cardinality(RunsOf(l)) >= 1
                           /\ Cardinality(RunsOf(l) \ {r}) = Cardinality(RunsOf(l)) - 1
  <2> TAKE r \in RunsOf(l)
  <2>1. IsFiniteSet(RunsOf(l) \ {r}) /\ Cardinality(RunsOf(l) \ {r}) = Cardinality(RunsOf(l)) - 1
    BY <1>2, FS_RemoveElement
  <2>2. Cardinality(RunsOf(l) \ {r}) \in Nat
    BY <2>1, FS_CardinalityType
  <2> QED BY <1>3, <2>1, <2>2
<1>5. loop[l].used = Cardinality(RunsOf(l)) + (IF loop[l].pc \in {"clock", "claim"} THEN 1 ELSE 0)
  BY DEF Counted, SlotsMatchRuns, RunsOf
<1> QED BY <1>2, <1>3, <1>4, <1>5

(* A loop begins with a slot to take, or is not there. *)
LEMMA LoopsStart ==
  ASSUME QueueAssumption, Init
  PROVE  /\ loop \in [Loops -> LoopRec]
         /\ \A l \in Loops : loop[l].pc \in {"slot", "stopped"} /\ loop[l].used = 0
         /\ down = None \/ (down = 0 /\ \A l \in Loops : loop[l].pc = "stopped")
<1>1. PICK running \in SUBSET Loops :
        /\ loop = [l \in Loops |-> [pc |-> IF l \in running THEN "slot" ELSE "stopped",
                                   used |-> 0, endAt |-> 0, at |-> 0, timer |-> 0]]
        /\ down = IF running = {} THEN 0 ELSE None
  BY Zenon DEF Init
<1>2. 0 \in 0..Concurrency
  BY Constants
<1> QED BY <1>1, <1>2 DEF LoopRec

(* Nothing is running, claimed or stored at the start. *)
LEMMA CountedStart ==
  ASSUME QueueAssumption, Init
  PROVE  Counted
<1>1. TypeOK
  <2>1. now = 0 /\ task = [t \in Tasks |-> None] /\ accept = [t \in Tasks |-> "new"]
    BY DEF Init
  <2>2. /\ home \in [Tasks -> Loops \cup {None}] /\ wake = [l \in Loops |-> FALSE]
        /\ runs = {} /\ probe = [pc |-> "idle", at |-> 0, result |-> "none"]
        /\ faults = 0 /\ failed = 0
    BY DEF Init
  <2> QED BY <2>1, <2>2, Constants, LoopsStart DEF TypeOK
<1>2. IsFiniteSet(runs) /\ SlotsMatchRuns
  <2>1. \A l \in Loops : {r \in runs : r.loop = l} = {}
    BY DEF Init
  <2>2. \A l \in Loops : loop[l].used = 0 /\ loop[l].pc \notin {"clock", "claim"}
    BY LoopsStart
  <2> QED BY <2>1, <2>2, FS_EmptySet DEF SlotsMatchRuns, Init
<1>3. FencesFresh
  BY DEF Init, FencesFresh
<1> QED BY <1>1, <1>2, <1>3 DEF Counted

(* What a step of a loop that starts and ends no run may change. *)
LEMMA CountedLoop ==
  ASSUME QueueAssumption, Counted, NEW l \in Loops, NEW q \in LoopRec,
         loop' = [loop EXCEPT ![l] = q], UNCHANGED <<now, task, accept, home, runs, probe>>,
         wake' \in [Loops -> BOOLEAN], faults' \in 0..MaxFaults, failed' \in 0..faults',
         down' \in Nat \cup {None},
         q.used - (IF q.pc \in {"clock", "claim"} THEN 1 ELSE 0)
           = loop[l].used - (IF loop[l].pc \in {"clock", "claim"} THEN 1 ELSE 0)
  PROVE  Counted'
<1>1. TypeOK'
  BY Zenon DEF Counted, TypeOK
<1>2. loop \in [Loops -> LoopRec] /\ loop[l].used \in Nat /\ q.used \in Nat
  BY Constants DEF Counted, TypeOK, LoopRec
<1>3. SlotsMatchRuns'
  <2> SUFFICES ASSUME NEW k \in Loops
               PROVE  loop'[k].used = Cardinality(RunsOf(k))
                        + (IF loop'[k].pc \in {"clock", "claim"} THEN 1 ELSE 0)
    BY DEF SlotsMatchRuns, RunsOf
  <2>1. /\ loop[k].used = Cardinality(RunsOf(k)) + (IF loop[k].pc \in {"clock", "claim"} THEN 1 ELSE 0)
        /\ Cardinality(RunsOf(k)) \in Nat
    BY Zenon, SlotTaken DEF Counted, SlotsMatchRuns, RunsOf
  <2>2. CASE k # l
    BY <1>2, <2>1, <2>2
  <2>3. CASE k = l
    <3>1. loop'[k] = q
      BY <1>2, <2>3
    <3> QED BY <1>2, <2>1, <2>3, <3>1
  <2> QED BY <2>2, <2>3
<1>4. FencesFresh'
  BY DEF Counted, FencesFresh
<1> QED BY <1>1, <1>3, <1>4 DEF Counted

(* The iteration of a loop that claims nothing, and its end. *)
LEMMA CountedIterates ==
  ASSUME QueueAssumption, Counted, NEW l \in Loops,
         \/ AcquireSlot(l) \/ ReadClock(l) \/ ClaimEmpty(l) \/ ClaimFails(l)
         \/ Woken(l) \/ TimerFires(l) \/ Stop(l)
  PROVE  Counted'
<1>r. PICK r : r = loop[l]
  OBVIOUS
<1>0. /\ loop \in [Loops -> LoopRec] /\ r \in LoopRec /\ now \in Nat /\ wake \in [Loops -> BOOLEAN]
      /\ faults \in 0..MaxFaults /\ failed \in 0..faults /\ down \in Nat \cup {None}
      /\ r.used \in 0..Concurrency
  BY <1>r, Constants DEF Counted, TypeOK, LoopRec
<1>1. r.pc \in {"clock", "claim"} => r.used >= 1
  BY <1>r, SlotTaken
<1>2. CASE AcquireSlot(l)
  <2> DEFINE q == [r EXCEPT !.pc = "clock", !.used = @ + 1, !.endAt = now + Lease]
  <2>1. loop' = [loop EXCEPT ![l] = q]
    BY Zenon, <1>0, <1>r, <1>2 DEF AcquireSlot
  <2>2. q \in LoopRec /\ q.pc = "clock" /\ q.used = r.used + 1 /\ r.pc = "slot"
    BY <1>0, <1>r, <1>2, Constants DEF AcquireSlot, LoopRec
  <2> HIDE DEF q
  <2>3. q.used - (IF q.pc \in {"clock", "claim"} THEN 1 ELSE 0)
           = loop[l].used - (IF loop[l].pc \in {"clock", "claim"} THEN 1 ELSE 0)
    BY <1>0, <1>r, <2>2
  <2>4. UNCHANGED <<now, task, accept, home, wake, runs, probe, faults, failed, down>>
    BY <1>2 DEF AcquireSlot
  <2> QED BY Zenon, <1>0, <2>1, <2>2, <2>3, <2>4, CountedLoop
<1>3. CASE ReadClock(l)
  <2> DEFINE q == [r EXCEPT !.pc = "claim", !.at = now]
  <2>1. loop' = [loop EXCEPT ![l] = q]
    BY Zenon, <1>0, <1>r, <1>3 DEF ReadClock
  <2>2. q \in LoopRec /\ q.pc = "claim" /\ q.used = r.used /\ r.pc = "clock"
    BY Zenon, <1>0, <1>r, <1>3 DEF ReadClock, LoopRec
  <2> HIDE DEF q
  <2> QED BY Zenon, <1>0, <1>r, <1>3, <2>1, <2>2, CountedLoop DEF ReadClock
<1>4. CASE ClaimEmpty(l) \/ ClaimFails(l)
  <2> DEFINE q == [pc |-> "wait", used |-> r.used - 1, endAt |-> 0, at |-> 0,
                   timer |-> now + PollInterval]
  <2>1. loop' = [loop EXCEPT ![l] = q] /\ r.pc = "claim"
    BY <1>0, <1>r, <1>4 DEF ClaimEmpty, ClaimFails, Wait
  <2>2. q \in LoopRec /\ q.pc = "wait" /\ q.used = r.used - 1
    BY <1>0, <1>1, <2>1, Constants DEF LoopRec
  <2>3. faults' \in 0..MaxFaults /\ failed' \in 0..faults'
    BY <1>0, <1>4, Constants DEF ClaimEmpty, ClaimFails
  <2> HIDE DEF q
  <2>4. q.used - (IF q.pc \in {"clock", "claim"} THEN 1 ELSE 0)
           = loop[l].used - (IF loop[l].pc \in {"clock", "claim"} THEN 1 ELSE 0)
    BY <1>0, <1>r, <2>1, <2>2
  <2>5. UNCHANGED <<now, task, accept, home, wake, runs, probe, down>>
    BY <1>4 DEF ClaimEmpty, ClaimFails
  <2> QED BY Zenon, <1>0, <2>1, <2>2, <2>3, <2>4, <2>5, CountedLoop
<1>5. CASE Woken(l) \/ TimerFires(l)
  <2> DEFINE q == [pc |-> "slot", used |-> r.used, endAt |-> 0, at |-> 0, timer |-> 0]
  <2>1. loop' = [loop EXCEPT ![l] = q] /\ r.pc = "wait"
    BY <1>0, <1>r, <1>5 DEF Woken, TimerFires, Iterate
  <2>2. q \in LoopRec /\ q.pc = "slot" /\ q.used = r.used
    BY <1>0 DEF LoopRec
  <2>3. wake' \in [Loops -> BOOLEAN]
    BY Zenon, <1>0, <1>5 DEF Woken, TimerFires
  <2> HIDE DEF q
  <2> QED BY Zenon, <1>0, <1>r, <1>5, <2>1, <2>2, <2>3, CountedLoop DEF Woken, TimerFires
<1>6. CASE Stop(l)
  <2> DEFINE q == [r EXCEPT !.pc = "stopped", !.timer = 0]
  <2>1. loop' = [loop EXCEPT ![l] = q] /\ r.pc \in {"slot", "wait"}
    BY Zenon, <1>0, <1>r, <1>6 DEF Stop
  <2>2. q \in LoopRec /\ q.pc = "stopped" /\ q.used = r.used
    BY Zenon, <1>0 DEF LoopRec
  <2>3. /\ faults' \in 0..MaxFaults /\ failed' \in 0..faults'
    BY <1>0, <1>6, Constants DEF Stop
  <2>4. down' \in Nat \cup {None}
    BY <1>0, <1>6 DEF Stop, NoteDown
  <2> HIDE DEF q
  <2> QED BY ZenonT(30), <1>0, <1>r, <1>6, <2>1, <2>2, <2>3, <2>4, CountedLoop DEF Stop
<1> QED BY <1>2, <1>3, <1>4, <1>5, <1>6

(* What a claim does to the task and to the runs: a new fence, and a run   *)
(* that has it.                                                            *)
LEMMA ClaimMeans ==
  ASSUME QueueAssumption, Counted, NEW l \in Loops, Claim(l)
  PROVE  \E t \in Stored, n \in RunRec :
           /\ t \in Runnable(loop[l].at) /\ loop[l].pc = "claim"
           /\ task' \in [Tasks -> TaskRec \cup {None}]
           /\ task'[t] \in TaskRec /\ task'[t].runAt = task[t].runAt
           /\ task'[t].lease = loop[l].at + Lease /\ task'[t].fence = task[t].fence + 1
           /\ \A u \in Tasks \ {t} : task'[u] = task[u]
           /\ n \notin runs /\ runs' = runs \cup {n}
           /\ n.loop = l /\ n.task = t /\ n.fence = task[t].fence + 1 /\ n.endAt = loop[l].endAt
<1>0. /\ loop \in [Loops -> LoopRec] /\ loop[l].at \in Nat /\ loop[l].endAt \in Nat
      /\ task \in [Tasks -> TaskRec \cup {None}] /\ Lease \in Nat
  BY Constants DEF Counted, TypeOK, LoopRec
<1>1. PICK t \in Tasks :
        /\ ClaimTask(t, loop[l].at)
        /\ runs' = runs \cup {[loop |-> l, task |-> t, fence |-> task[t].fence + 1,
                               endAt |-> loop[l].endAt]}
  BY DEF Claim
<1>2. t \in Stored /\ task[t] \in TaskRec /\ t \in Runnable(loop[l].at)
  BY <1>0, <1>1 DEF ClaimTask, Runnable, Stored
<1>3. task[t].fence \in Nat /\ task[t].runAt \in Nat /\ task[t].seq \in Nat
  BY <1>2 DEF TaskRec
<1> DEFINE n == [loop |-> l, task |-> t, fence |-> task[t].fence + 1, endAt |-> loop[l].endAt]
<1>d. PICK d \in Nat : d = loop[l].at + Lease
  BY <1>0
<1>f. PICK f \in Nat : f = task[t].fence + 1
  BY <1>3
<1> DEFINE q == [task[t] EXCEPT !.lease = d, !.fence = f]
<1>4. /\ n \in RunRec /\ n.loop = l /\ n.task = t /\ n.fence = task[t].fence + 1
      /\ n.endAt = loop[l].endAt
  BY <1>0, <1>3 DEF RunRec
<1>5. task' = [task EXCEPT ![t] = q]
  BY Zenon, <1>0, <1>1, <1>d, <1>f DEF ClaimTask
<1>6. q \in TaskRec /\ q.runAt = task[t].runAt /\ q.lease = d /\ q.fence = f
  BY Zenon, <1>2 DEF TaskRec
<1>7. n \notin runs
  <2> SUFFICES ASSUME n \in runs PROVE FALSE
    OBVIOUS
  <2>1. n.fence <= task[n.task].fence
    BY <1>2, <1>4 DEF Counted, FencesFresh, Stored
  <2> QED BY <1>3, <1>4, <2>1
<1>8. task'[t] = q /\ \A u \in Tasks \ {t} : task'[u] = task[u]
  BY <1>0, <1>5
<1>9. runs' = runs \cup {n} /\ loop[l].pc = "claim"
  BY <1>1 DEF Claim
<1> HIDE DEF n, q
<1>10. task' \in [Tasks -> TaskRec \cup {None}]
  BY <1>0, <1>5, <1>6
<1> QED BY <1>2, <1>4, <1>6, <1>7, <1>8, <1>9, <1>10, <1>d, <1>f

(* A claim takes the slot along to the run. *)
LEMMA CountedClaim ==
  ASSUME QueueAssumption, Counted, NEW l \in Loops, Claim(l)
  PROVE  Counted'
<1>r. PICK r : r = loop[l]
  OBVIOUS
<1>0. /\ loop \in [Loops -> LoopRec] /\ r \in LoopRec /\ r.used \in 0..Concurrency /\ TypeOK
      /\ task \in [Tasks -> TaskRec \cup {None}] /\ runs \subseteq RunRec /\ IsFiniteSet(runs)
  BY <1>r DEF Counted, TypeOK, LoopRec
<1>1. PICK t \in Stored, n \in RunRec :
           /\ r.pc = "claim" /\ task'[t] \in TaskRec /\ task'[t].fence = task[t].fence + 1
           /\ task' \in [Tasks -> TaskRec \cup {None}]
           /\ \A u \in Tasks \ {t} : task'[u] = task[u]
           /\ n \notin runs /\ runs' = runs \cup {n}
           /\ n.loop = l /\ n.task = t /\ n.fence = task[t].fence + 1
  BY <1>r, ClaimMeans
<1>2. t \in Tasks /\ task[t] # None /\ task[t] \in TaskRec /\ task[t].fence \in Nat
  BY <1>0, <1>1 DEF Stored, TaskRec
<1> DEFINE q == [pc |-> "slot", used |-> r.used, endAt |-> 0, at |-> 0, timer |-> 0]
<1>3. loop' = [loop EXCEPT ![l] = q]
  BY <1>0, <1>r DEF Claim, Iterate
<1>4. q \in LoopRec /\ q.pc = "slot" /\ q.used = r.used
  BY <1>0 DEF LoopRec
<1> HIDE DEF q
<1>5. TypeOK'
  <2>1. task' \in [Tasks -> TaskRec \cup {None}]
    BY <1>1
  <2>2. runs' \subseteq RunRec /\ loop' \in [Loops -> LoopRec]
    BY <1>0, <1>1, <1>3, <1>4
  <2>3. UNCHANGED <<now, accept, home, wake, probe, faults, failed, down>>
    BY DEF Claim
  <2> QED BY <1>0, <2>1, <2>2, <2>3 DEF TypeOK
<1>6. SlotsMatchRuns'
  <2> SUFFICES ASSUME NEW k \in Loops
               PROVE  loop'[k].used = Cardinality(RunsOf(k)')
                        + (IF loop'[k].pc \in {"clock", "claim"} THEN 1 ELSE 0)
    BY DEF SlotsMatchRuns, RunsOf
  <2>1. CASE k # l
    <3>1. RunsOf(k)' = RunsOf(k)
      BY <1>1, <2>1 DEF RunsOf
    <3>2. loop'[k] = loop[k]
      BY <1>0, <1>3, <2>1
    <3> QED BY <3>1, <3>2 DEF Counted, SlotsMatchRuns, RunsOf
  <2>2. CASE k = l
    <3>1. RunsOf(k)' = RunsOf(k) \cup {n} /\ n \notin RunsOf(k)
      BY <1>1, <2>2 DEF RunsOf
    <3>2. IsFiniteSet(RunsOf(k)) /\ r.used = Cardinality(RunsOf(k)) + 1
      BY <1>r, <1>1, <2>2, SlotTaken
    <3>3. Cardinality(RunsOf(k)') = Cardinality(RunsOf(k)) + 1
      BY Zenon, <3>1, <3>2, FS_AddElement
    <3>4. Cardinality(RunsOf(k)) \in Nat
      BY <3>2, FS_CardinalityType
    <3>5. loop'[k] = q
      BY <1>0, <1>3, <2>2
    <3> QED BY <1>4, <3>2, <3>3, <3>4, <3>5
  <2> QED BY <2>1, <2>2
<1>7. FencesFresh'
  <2>1. UNCHANGED accept /\ accept[t] # "new"
    BY <1>2 DEF Claim, Counted, FencesFresh
  <2>2. \A s \in runs : s.task = t => s.fence <= task[t].fence /\ s.fence \in Nat
    BY <1>0, <1>2 DEF Counted, FencesFresh, RunRec
  <2>3. \A u \in Tasks : accept'[u] = "new" => task'[u] = None
    BY <1>1, <2>1 DEF Counted, FencesFresh
  <2>4. \A s \in runs' :
          /\ s.fence > 0 /\ accept'[s.task] # "new"
          /\ task'[s.task] # None => s.fence <= task'[s.task].fence
    <3> TAKE s \in runs'
    <3>1. CASE s = n
      BY <1>1, <1>2, <2>1, <3>1
    <3>2. CASE s \in runs
      <4>1. s.task \in Tasks
        BY <1>0, <3>2 DEF RunRec
      <4>2. /\ s.fence > 0 /\ accept[s.task] # "new"
            /\ task[s.task] # None => s.fence <= task[s.task].fence
        BY <3>2 DEF Counted, FencesFresh
      <4>3. CASE s.task = t
        BY <1>1, <1>2, <2>1, <2>2, <3>2, <4>2, <4>3
      <4>4. CASE s.task # t
        BY <1>1, <2>1, <4>1, <4>2, <4>4
      <4> QED BY <4>3, <4>4
    <3> QED BY <1>1, <3>1, <3>2
  <2>5. \A s, u \in runs' : s.task = u.task /\ s.fence = u.fence => s = u
    <3>1. \A s \in runs : ~(s.task = n.task /\ s.fence = n.fence)
      BY <1>1, <1>2, <2>2
    <3>2. \A s, u \in runs : s.task = u.task /\ s.fence = u.fence => s = u
      BY DEF Counted, FencesFresh
    <3> QED BY <1>1, <3>1, <3>2
  <2> QED BY <2>3, <2>4, <2>5 DEF FencesFresh
<1>8. IsFiniteSet(runs')
  BY <1>0, <1>1, FS_AddElement
<1> QED BY <1>5, <1>6, <1>7, <1>8 DEF Counted

(* What the end of a run does to the tasks: it touches only its own, and   *)
(* only while it holds the lease.                                          *)
LEMMA EndMeans ==
  ASSUME QueueAssumption, Counted, NEW r \in runs, Finish(r) \/ Reschedule(r) \/ GiveUp(r)
  PROVE  /\ r \in RunRec /\ r.task \in Tasks /\ r.loop \in Loops /\ EndRun(r)
         /\ task' \in [Tasks -> TaskRec \cup {None}]
         /\ \A u \in Tasks \ {r.task} : task'[u] = task[u]
         /\ \/ task' = task
            \/ /\ now < r.endAt /\ Holds(r)
               /\ \/ task'[r.task] = None
                  \/ /\ task[r.task] # None /\ task'[r.task] \in TaskRec
                     /\ task'[r.task].fence = task[r.task].fence
                     /\ task'[r.task].lease = ZeroTime /\ task'[r.task].runAt > now
<1>0. /\ task \in [Tasks -> TaskRec \cup {None}] /\ now \in Nat /\ r \in RunRec
      /\ r.task \in Tasks /\ r.loop \in Loops /\ r.fence \in Nat /\ r.fence > 0
  BY Constants DEF Counted, TypeOK, RunRec, FencesFresh
<1>1. EndRun(r)
  BY DEF Finish, Reschedule, GiveUp
<1>2. CASE task' = task
  BY <1>0, <1>1, <1>2
<1>3. CASE task' # task /\ Finish(r)
  <2>1. now < r.endAt /\ Holds(r) /\ task' = [task EXCEPT ![r.task] = None]
    BY <1>3 DEF Finish
  <2> QED BY <1>0, <1>1, <2>1
<1>4. CASE task' # task /\ Reschedule(r)
  <2>1. PICK d \in Nat : d = now + Backoff(r.fence) /\ d > now
    BY <1>0, BackoffPositive
  <2>2. /\ now < r.endAt /\ Holds(r)
        /\ task' = [task EXCEPT ![r.task].runAt = d, ![r.task].lease = ZeroTime]
    BY <1>4, <2>1 DEF Reschedule
  <2>3. task[r.task] # None /\ task[r.task] \in TaskRec
    BY <1>0, <2>2 DEF Holds
  <2> DEFINE q == [task[r.task] EXCEPT !.runAt = d, !.lease = ZeroTime]
  <2>4. q \in TaskRec /\ q.fence = task[r.task].fence /\ q.lease = ZeroTime /\ q.runAt = d
    BY Zenon, <2>3 DEF TaskRec
  <2>5. task' = [task EXCEPT ![r.task] = q]
    BY Zenon, <1>0, <2>2
  <2> HIDE DEF q
  <2>6. task'[r.task] = q /\ \A u \in Tasks \ {r.task} : task'[u] = task[u]
    BY <1>0, <2>5
  <2>7. task' \in [Tasks -> TaskRec \cup {None}]
    BY <1>0, <2>4, <2>5
  <2> QED BY <1>0, <1>1, <2>1, <2>2, <2>3, <2>4, <2>6, <2>7
<1> QED BY <1>2, <1>3, <1>4 DEF GiveUp

(* The end of a run returns its slot. *)
LEMMA CountedEnd ==
  ASSUME QueueAssumption, Counted, NEW r \in runs, Finish(r) \/ Reschedule(r) \/ GiveUp(r)
  PROVE  Counted'
<1>l. PICK l \in Loops : l = r.loop
  BY EndMeans
<1>p. PICK p : p = loop[l]
  OBVIOUS
<1>0. /\ loop \in [Loops -> LoopRec] /\ p \in LoopRec /\ p.used \in 0..Concurrency /\ TypeOK
      /\ Concurrency \in Nat /\ runs \subseteq RunRec /\ IsFiniteSet(runs)
      /\ MaxFaults \in Nat /\ faults \in 0..MaxFaults /\ failed \in 0..faults /\ now \in Nat
      /\ down \in Nat \cup {None}
  BY <1>p, Constants DEF Counted, TypeOK, LoopRec
<1>1. /\ r.task \in Tasks /\ EndRun(r) /\ task' \in [Tasks -> TaskRec \cup {None}]
      /\ \A u \in Tasks \ {r.task} : task'[u] = task[u]
      /\ \/ task' = task
         \/ task'[r.task] = None
         \/ task[r.task] # None /\ task'[r.task].fence = task[r.task].fence
  BY EndMeans
<1>2. runs' = runs \ {r} /\ UNCHANGED <<now, accept, home, wake, probe, failed>>
  BY <1>1 DEF EndRun, Finish, Reschedule, GiveUp
<1>3. r \in RunsOf(l)
  BY <1>l DEF RunsOf
<1>4. /\ p.used >= 1 /\ IsFiniteSet(RunsOf(l)) /\ Cardinality(RunsOf(l)) \in Nat
      /\ Cardinality(RunsOf(l) \ {r}) = Cardinality(RunsOf(l)) - 1
      /\ p.used = Cardinality(RunsOf(l)) + (IF p.pc \in {"clock", "claim"} THEN 1 ELSE 0)
  BY <1>p, <1>3, SlotTaken
<1>u. PICK m \in 0..Concurrency : m = p.used - 1
  BY <1>0, <1>4
<1> DEFINE q == [p EXCEPT !.used = m]
<1>5. loop' = [loop EXCEPT ![l] = q]
  BY <1>0, <1>1, <1>l, <1>p, <1>u DEF EndRun
<1>6. q \in LoopRec /\ q.pc = p.pc /\ q.used = m
  BY <1>0 DEF LoopRec
<1> HIDE DEF q
<1>7. TypeOK'
  <2>1. faults' \in 0..MaxFaults /\ failed' \in 0..faults'
    <3>1. faults' = faults \/ (faults < MaxFaults /\ faults' = faults + 1)
      BY DEF Finish, Reschedule, GiveUp
    <3> QED BY <1>0, <1>2, <3>1
  <2>2. down' \in Nat \cup {None}
    BY <1>0, <1>1 DEF EndRun, NoteDown
  <2>3. loop' \in [Loops -> LoopRec] /\ runs' \subseteq RunRec
    BY <1>0, <1>2, <1>5, <1>6
  <2> QED BY <1>0, <1>1, <1>2, <2>1, <2>2, <2>3 DEF TypeOK
<1>8. SlotsMatchRuns'
  <2> SUFFICES ASSUME NEW k \in Loops
               PROVE  loop'[k].used = Cardinality(RunsOf(k)')
                        + (IF loop'[k].pc \in {"clock", "claim"} THEN 1 ELSE 0)
    BY DEF SlotsMatchRuns, RunsOf
  <2>1. CASE k # l
    <3>1. RunsOf(k)' = RunsOf(k)
      BY <1>l, <1>2, <2>1 DEF RunsOf
    <3>2. loop'[k] = loop[k]
      BY <1>0, <1>5, <2>1
    <3> QED BY <3>1, <3>2 DEF Counted, SlotsMatchRuns, RunsOf
  <2>2. CASE k = l
    <3>1. RunsOf(k)' = RunsOf(l) \ {r}
      BY <1>2, <2>2 DEF RunsOf
    <3>2. loop'[k] = q
      BY <1>0, <1>5, <2>2
    <3> QED BY <1>0, <1>4, <1>6, <1>u, <3>1, <3>2
  <2> QED BY <2>1, <2>2
<1>9. FencesFresh'
  <2>1. \A u \in Tasks : task'[u] = task[u] \/ task'[u] = None
                         \/ (task[u] # None /\ task'[u].fence = task[u].fence)
    BY <1>1, Zenon
  <2>2. \A s \in runs : s.task \in Tasks
    BY <1>0 DEF RunRec
  <2>3. \A u \in Tasks : accept'[u] = "new" => task'[u] = None
    BY <1>2, <2>1 DEF Counted, FencesFresh
  <2>4. \A s \in runs' :
          /\ s.fence > 0 /\ accept'[s.task] # "new"
          /\ task'[s.task] # None => s.fence <= task'[s.task].fence
    BY <1>2, <2>1, <2>2 DEF Counted, FencesFresh
  <2> QED BY <1>2, <2>3, <2>4 DEF Counted, FencesFresh
<1>10. IsFiniteSet(runs')
  BY <1>0, <1>2, FS_RemoveElement
<1> QED BY <1>7, <1>8, <1>9, <1>10 DEF Counted

(* A crash takes the runs of the process and all its slots. *)
LEMMA CountedCrash ==
  ASSUME QueueAssumption, Counted, NEW l \in Loops, Crash(l)
  PROVE  Counted'
<1>0. /\ loop \in [Loops -> LoopRec] /\ TypeOK /\ runs \subseteq RunRec /\ IsFiniteSet(runs)
      /\ MaxFaults \in Nat /\ faults \in 0..MaxFaults /\ failed \in 0..faults /\ now \in Nat
      /\ down \in Nat \cup {None} /\ Concurrency \in Nat
  BY Constants DEF Counted, TypeOK
<1> DEFINE q == [pc |-> "stopped", used |-> 0, endAt |-> 0, at |-> 0, timer |-> 0]
<1>1. /\ runs' = {r \in runs : r.loop # l} /\ loop' = [loop EXCEPT ![l] = q]
      /\ UNCHANGED <<now, task, accept, home, wake, probe, failed>>
      /\ faults < MaxFaults /\ faults' = faults + 1 /\ NoteDown
  BY DEF Crash
<1>2. q \in LoopRec /\ q.pc = "stopped" /\ q.used = 0
  BY <1>0 DEF LoopRec
<1> HIDE DEF q
<1>3. TypeOK'
  <2>1. faults' \in 0..MaxFaults /\ failed' \in 0..faults'
    BY <1>0, <1>1
  <2>2. down' \in Nat \cup {None}
    BY <1>0, <1>1 DEF NoteDown
  <2>3. loop' \in [Loops -> LoopRec] /\ runs' \subseteq RunRec
    BY <1>0, <1>1, <1>2
  <2> QED BY <1>0, <1>1, <2>1, <2>2, <2>3 DEF TypeOK
<1>4. SlotsMatchRuns'
  <2> SUFFICES ASSUME NEW k \in Loops
               PROVE  loop'[k].used = Cardinality(RunsOf(k)')
                        + (IF loop'[k].pc \in {"clock", "claim"} THEN 1 ELSE 0)
    BY DEF SlotsMatchRuns, RunsOf
  <2>1. CASE k # l
    <3>1. RunsOf(k)' = RunsOf(k)
      BY <1>1, <2>1 DEF RunsOf
    <3>2. loop'[k] = loop[k]
      BY <1>0, <1>1, <2>1
    <3> QED BY <3>1, <3>2 DEF Counted, SlotsMatchRuns, RunsOf
  <2>2. CASE k = l
    <3>1. RunsOf(k)' = {} /\ loop'[k] = q
      BY <1>0, <1>1, <2>2 DEF RunsOf
    <3> QED BY <1>2, <3>1, FS_EmptySet
  <2> QED BY <2>1, <2>2
<1>5. FencesFresh'
  BY <1>1 DEF Counted, FencesFresh
<1>6. IsFiniteSet(runs')
  BY <1>0, <1>1, FS_Subset
<1> QED BY <1>3, <1>4, <1>5, <1>6 DEF Counted

(* Requests, probes and the passing of time leave loops and runs alone. *)
LEMMA CountedRest ==
  ASSUME QueueAssumption, Counted,
         \/ \E t \in Tasks : Accept(t) \/ WorkAccepted(t)
         \/ Ready \/ ReadyLeases \/ Tick \/ UNCHANGED vars
  PROVE  Counted'
<1>0. UNCHANGED <<home, loop, runs, faults, failed, down>>
  BY DEF Accept, WorkAccepted, Ready, ReadyLeases, Tick, vars
<1>1. SlotsMatchRuns' /\ IsFiniteSet(runs')
  BY <1>0 DEF Counted, SlotsMatchRuns
<1>t. /\ task \in [Tasks -> TaskRec \cup {None}] /\ now \in Nat /\ now \in 0..MaxTime
      /\ accept \in [Tasks -> {"new", "stored", "signalled"}] /\ wake \in [Loops -> BOOLEAN]
      /\ probe \in [pc : {"idle", "counted"}, at : Nat, result : {"none", "ready", "stale"}]
  BY Constants DEF Counted, TypeOK
<1>2. ASSUME NEW t \in Tasks, Accept(t) PROVE TypeOK' /\ FencesFresh'
  <2>1. PICK n \in Nat : n = 1 + Cardinality({u \in Tasks : accept[u] # "new"})
    <3>1. IsFiniteSet({u \in Tasks : accept[u] # "new"})
      BY Constants, FS_Subset
    <3>2. Cardinality({u \in Tasks : accept[u] # "new"}) \in Nat
      BY <3>1, FS_CardinalityType
    <3> QED BY <3>2
  <2> DEFINE q == [runAt |-> now, lease |-> ZeroTime, fence |-> 0, seq |-> n]
  <2>2. task' = [task EXCEPT ![t] = q]
    BY <1>2, <2>1 DEF Accept, InsertTask
  <2>3. q \in TaskRec
    BY <1>t DEF TaskRec
  <2> HIDE DEF q
  <2>4. task' \in [Tasks -> TaskRec \cup {None}] /\ \A u \in Tasks \ {t} : task'[u] = task[u]
    BY <1>t, <2>2, <2>3
  <2>5. /\ accept[t] = "new" /\ accept' = [accept EXCEPT ![t] = "stored"]
        /\ UNCHANGED <<now, wake, probe>>
    BY <1>2 DEF Accept
  <2>6. accept' \in [Tasks -> {"new", "stored", "signalled"}]
    BY <1>t, <2>5
  <2>7. TypeOK'
    BY <1>0, <1>t, <2>4, <2>5, <2>6 DEF Counted, TypeOK
  <2>8. \A u \in Tasks : accept'[u] = "new" => u # t /\ accept[u] = "new"
    BY <1>t, <2>5
  <2>9. \A s \in runs : s.task \in Tasks /\ s.task # t
    BY <2>5 DEF Counted, FencesFresh, TypeOK, RunRec
  <2>10. \A u \in Tasks : u # t => accept'[u] = accept[u]
    BY ZenonT(30), <1>t, <2>5
  <2> QED BY <1>0, <2>4, <2>7, <2>8, <2>9, <2>10 DEF Counted, FencesFresh
<1>3. ASSUME NEW t \in Tasks, WorkAccepted(t) PROVE TypeOK' /\ FencesFresh'
  <2>1. /\ accept[t] = "stored" /\ accept' = [accept EXCEPT ![t] = "signalled"]
        /\ UNCHANGED <<now, task, probe>> /\ wake' = [l \in Loops |-> wake[l] \/ l = home[t]]
    BY Zenon, <1>3 DEF WorkAccepted
  <2>2. accept' \in [Tasks -> {"new", "stored", "signalled"}] /\ wake' \in [Loops -> BOOLEAN]
    BY <1>t, <2>1
  <2>3. \A u \in Tasks : accept'[u] = "new" <=> accept[u] = "new"
    BY <1>t, <2>1
  <2>4. \A s \in runs : s.task \in Tasks
    BY DEF Counted, TypeOK, RunRec
  <2> QED BY <1>0, <2>1, <2>2, <2>3, <2>4 DEF Counted, FencesFresh, TypeOK
<1>4. CASE Ready \/ ReadyLeases \/ Tick \/ UNCHANGED vars
  <2>1. UNCHANGED <<task, accept, wake>>
    BY <1>4 DEF Ready, ReadyLeases, Tick, vars
  <2>2. now' \in 0..MaxTime
    BY <1>4, <1>t, Constants DEF Ready, ReadyLeases, Tick, vars
  <2>3. probe' \in [pc : {"idle", "counted"}, at : Nat, result : {"none", "ready", "stale"}]
    <3>1. CASE Ready
      BY <1>t, <3>1 DEF Ready
    <3>2. CASE ReadyLeases
      <4>1. PICK x \in {"ready", "stale"} : probe' = [probe EXCEPT !.pc = "idle", !.result = x]
        BY ZenonT(30), <3>2 DEF ReadyLeases
      <4> QED BY Zenon, <1>t, <4>1
    <3>3. CASE Tick \/ UNCHANGED vars
      BY <1>t, <3>3 DEF Tick, vars
    <3> QED BY <1>4, <3>1, <3>2, <3>3
  <2>4. FencesFresh'
    BY Zenon, <1>0, <2>1 DEF Counted, FencesFresh
  <2>5. TypeOK'
    BY <1>0, <2>1, <2>2, <2>3 DEF Counted, TypeOK
  <2> QED BY <1>1, <2>4, <2>5 DEF Counted
<1> QED BY <1>1, <1>2, <1>3, <1>4 DEF Counted

(* Types, slots and fences are kept by every step. *)
LEMMA CountedStep ==
  ASSUME QueueAssumption, Counted, [Next]_vars
  PROVE  Counted'
BY CountedIterates, CountedClaim, CountedEnd, CountedCrash, CountedRest DEF Next, Rest

(* Run and process lose no slot and use none twice, with any number of     *)
(* processes, whichever claims fail, runs are lost and processes die.      *)
THEOREM SlotsAreAccounted ==
  ASSUME QueueAssumption
  PROVE  Spec => []SlotsAccounted
<1>1. Init => Counted
  BY CountedStart
<1>2. Counted /\ [Next]_vars => Counted'
  BY CountedStep
<1>3. Counted => SlotsAccounted
  BY DEF Counted, SlotsAccounted
<1> QED BY <1>1, <1>2, <1>3, PTL DEF Spec

-----------------------------------------------------------------------------
(* Leases. *)

(* The clocks of a loop and the leases stay in order. *)
LEMMA ClocksStep ==
  ASSUME QueueAssumption, Counted, Counted', ClocksOrdered, [Next]_vars
  PROVE  ClocksOrdered'
<1>0. /\ now \in Nat /\ now' \in Nat /\ Lease \in Nat /\ now' >= now
      /\ loop \in [Loops -> LoopRec] /\ loop' \in [Loops -> LoopRec]
      /\ task \in [Tasks -> TaskRec \cup {None}] /\ task' \in [Tasks -> TaskRec \cup {None}]
  <2>1. now' = now \/ now' = now + 1
    BY Zenon DEF Next, Rest, vars, Accept, WorkAccepted, AcquireSlot, ReadClock, Claim, ClaimEmpty, ClaimFails,
           Woken, TimerFires, Stop, Crash, Finish, Reschedule, GiveUp, Ready, ReadyLeases, Tick
  <2> QED BY <2>1, Constants DEF Counted, TypeOK
<1>1. \A k \in Loops : loop[k] \in LoopRec /\ loop[k].at \in Nat /\ loop[k].endAt \in Nat
  BY <1>0 DEF LoopRec
<1>2. \A k \in Loops :
        \/ loop'[k] = loop[k]
        \/ loop'[k].pc \notin {"clock", "claim"}
        \/ loop'[k].pc = "clock" /\ loop'[k].endAt = now + Lease
        \/ loop[k].pc = "clock" /\ loop'[k].pc = "claim" /\ loop'[k].at = now
             /\ loop'[k].endAt = loop[k].endAt
        \/ /\ loop'[k].pc = loop[k].pc /\ loop'[k].at = loop[k].at /\ loop'[k].endAt = loop[k].endAt
  <2> TAKE k \in Loops
  <2>1. CASE UNCHANGED loop
    BY <2>1
  <2>2. ASSUME NEW l \in Loops,
               \/ AcquireSlot(l) \/ ReadClock(l) \/ Claim(l) \/ ClaimEmpty(l)
               \/ ClaimFails(l) \/ Woken(l) \/ TimerFires(l) \/ Stop(l) \/ Crash(l)
        PROVE  \/ loop'[k] = loop[k]
               \/ loop'[k].pc \notin {"clock", "claim"}
               \/ loop'[k].pc = "clock" /\ loop'[k].endAt = now + Lease
               \/ loop[k].pc = "clock" /\ loop'[k].pc = "claim" /\ loop'[k].at = now
                    /\ loop'[k].endAt = loop[k].endAt
    <3>1. CASE AcquireSlot(l)
      BY <1>0, <1>1, <3>1 DEF AcquireSlot, LoopRec
    <3>2. CASE ReadClock(l)
      BY <1>0, <1>1, <3>2 DEF ReadClock, LoopRec
    <3>3. CASE Claim(l) \/ Woken(l) \/ TimerFires(l)
      BY <1>0, <3>3 DEF Claim, Woken, TimerFires, Iterate
    <3>4. CASE ClaimEmpty(l) \/ ClaimFails(l)
      BY <1>0, <3>4 DEF ClaimEmpty, ClaimFails, Wait
    <3>5. CASE Stop(l)
      BY ZenonT(30), <1>0, <1>1, <3>5 DEF Stop, LoopRec
    <3>6. CASE Crash(l)
      BY <1>0, <3>6 DEF Crash
    <3> QED BY Zenon, <2>2, <3>1, <3>2, <3>3, <3>4, <3>5, <3>6
  <2>3. ASSUME NEW r \in runs, EndRun(r)
        PROVE  /\ loop'[k].pc = loop[k].pc /\ loop'[k].at = loop[k].at
               /\ loop'[k].endAt = loop[k].endAt
    BY <1>0, <1>1, <2>3 DEF EndRun, LoopRec
  <2> QED BY Zenon, <2>1, <2>2, <2>3
          DEF Next, Rest, vars, Accept, WorkAccepted, Finish, Reschedule, GiveUp, Ready, ReadyLeases, Tick
<1>3. \A t \in Stored' :
        \/ t \in Stored /\ task'[t].lease = task[t].lease
        \/ task'[t].lease = ZeroTime
        \/ task'[t].lease <= now + Lease
  <2>1. CASE UNCHANGED task
    BY <2>1 DEF Stored
  <2>2. ASSUME NEW t \in Tasks, Accept(t)
        PROVE  \A u \in Stored' : \/ u \in Stored /\ task'[u].lease = task[u].lease
                                  \/ task'[u].lease = ZeroTime
    BY <1>0, <2>2 DEF Accept, InsertTask, Stored
  <2>3. ASSUME NEW l \in Loops, Claim(l)
        PROVE  \A u \in Stored' : \/ u \in Stored /\ task'[u].lease = task[u].lease
                                  \/ task'[u].lease <= now + Lease
    <3>1. PICK t \in Stored :
            /\ loop[l].pc = "claim" /\ task'[t].lease = loop[l].at + Lease
            /\ \A u \in Tasks \ {t} : task'[u] = task[u]
      BY <2>3, ClaimMeans
    <3>2. task'[t].lease <= now + Lease
      BY <1>0, <1>1, <3>1 DEF ClocksOrdered
    <3> QED BY <3>1, <3>2 DEF Stored
  <2>4. ASSUME NEW r \in runs, Finish(r) \/ Reschedule(r) \/ GiveUp(r)
        PROVE  \A u \in Stored' : \/ u \in Stored /\ task'[u].lease = task[u].lease
                                  \/ task'[u].lease = ZeroTime
    BY <2>4, EndMeans DEF Stored
  <2> QED BY ZenonT(30), <2>1, <2>2, <2>3, <2>4
          DEF Next, Rest, vars, WorkAccepted, AcquireSlot, ReadClock, ClaimEmpty, ClaimFails,
              Woken, TimerFires, Stop, Crash, Ready, ReadyLeases, Tick
<1>4. \A k \in Loops : loop'[k].pc = "clock" => loop'[k].endAt <= now' + Lease
  BY <1>0, <1>1, <1>2 DEF ClocksOrdered
<1>5. \A k \in Loops :
        loop'[k].pc = "claim" => loop'[k].at <= now' /\ loop'[k].endAt <= loop'[k].at + Lease
  BY <1>0, <1>1, <1>2 DEF ClocksOrdered
<1>6. \A t \in Stored' : task'[t].lease <= now' + Lease
  <2> TAKE t \in Stored'
  <2>1. task'[t].lease \in Nat \cup {-1}
    BY <1>0 DEF Stored, TaskRec, ZeroTime
  <2>2. t \in Stored => task[t].lease <= now + Lease
    BY DEF ClocksOrdered
  <2> QED BY <1>0, <1>3, <2>1, <2>2 DEF ZeroTime
<1> QED BY <1>4, <1>5, <1>6 DEF ClocksOrdered

(* The lease of a run that is alive is taken by nobody. *)
LEMMA LeaseStep ==
  ASSUME QueueAssumption, Counted, Counted', ClocksOrdered, LeaseHeld, [Next]_vars
  PROVE  LeaseHeld'
<1>0. /\ now \in Nat /\ now' \in Nat /\ Lease \in Nat
      /\ task \in [Tasks -> TaskRec \cup {None}]
      /\ \A r \in runs : r \in RunRec /\ r.task \in Tasks /\ r.endAt \in Nat /\ r.fence \in Nat
      /\ \A t \in Stored : task[t].lease \in Nat \cup {ZeroTime}
  BY Constants DEF Counted, TypeOK, RunRec, Stored, TaskRec
<1>1. ASSUME UNCHANGED <<now, task>>, runs' \subseteq runs PROVE LeaseHeld'
  BY <1>1 DEF LeaseHeld, Holds
<1>2. ASSUME NEW t \in Tasks, Accept(t) PROVE LeaseHeld'
  <2>1. UNCHANGED <<now, runs>> /\ accept[t] = "new" /\ \A u \in Tasks \ {t} : task'[u] = task[u]
    BY <1>0, <1>2 DEF Accept, InsertTask
  <2>2. \A r \in runs : r.task # t
    BY Zenon, <2>1 DEF Counted, FencesFresh
  <2> QED BY <1>0, <2>1, <2>2 DEF LeaseHeld, Holds
<1>3. ASSUME NEW l \in Loops, Claim(l) PROVE LeaseHeld'
  <2>1. PICK t \in Stored, n \in RunRec :
           /\ t \in Runnable(loop[l].at) /\ loop[l].pc = "claim"
           /\ task'[t] \in TaskRec
           /\ task'[t].lease = loop[l].at + Lease /\ task'[t].fence = task[t].fence + 1
           /\ \A u \in Tasks \ {t} : task'[u] = task[u]
           /\ runs' = runs \cup {n}
           /\ n.task = t /\ n.fence = task[t].fence + 1 /\ n.endAt = loop[l].endAt
    BY <1>3, ClaimMeans
  <2>2. now' = now
    BY ZenonT(30), <1>3 DEF Claim
  <2>3. loop[l].at \in Nat /\ loop[l].at <= now /\ loop[l].endAt <= loop[l].at + Lease
    BY ZenonT(30), <2>1 DEF ClocksOrdered, Counted, TypeOK, LoopRec
  <2>4. \A r \in runs : r.task = t => now >= r.endAt
    <3> SUFFICES ASSUME NEW r \in runs, r.task = t, now < r.endAt PROVE FALSE
      BY <1>0
    <3>1. task[t].lease >= r.endAt
      BY DEF LeaseHeld
    <3>2. task[t].lease = ZeroTime \/ task[t].lease <= loop[l].at
      BY ZenonT(30), <2>1 DEF Runnable, Lapsed
    <3> QED BY <1>0, <2>3, <3>1, <3>2 DEF ZeroTime
  <2>5. ASSUME NEW r \in runs', now < r.endAt
        PROVE  Holds(r)' /\ task'[r.task].lease >= r.endAt
    <3>1. CASE r = n
      BY ZenonT(30), <2>1, <2>3, <3>1, Constants DEF Holds
    <3>2. CASE r \in runs
      <4>1. r.task \in Tasks \ {t}
        BY <1>0, <2>4, <2>5, <3>2
      <4> QED BY <2>1, <2>5, <3>2, <4>1 DEF LeaseHeld, Holds
    <3> QED BY ZenonT(30), <2>1, <2>5, <3>1, <3>2
  <2> QED BY ZenonT(30), <2>2, <2>5 DEF LeaseHeld
<1>4. ASSUME NEW r \in runs, Finish(r) \/ Reschedule(r) \/ GiveUp(r) PROVE LeaseHeld'
  <2>1. /\ \A u \in Tasks \ {r.task} : task'[u] = task[u]
        /\ task' = task \/ (now < r.endAt /\ Holds(r))
    BY <1>4, EndMeans
  <2>2. now' = now /\ runs' = runs \ {r}
    BY <1>4 DEF Finish, Reschedule, GiveUp, EndRun
  <2>3. CASE task' = task
    BY <1>1, <2>2, <2>3
  <2>4. CASE Holds(r)
    <3>1. \A s \in runs' : now < s.endAt => s.task # r.task
      <4> SUFFICES ASSUME NEW s \in runs', now < s.endAt, s.task = r.task PROVE FALSE
        OBVIOUS
      <4>1. s \in runs /\ s # r /\ Holds(s)
        BY <2>2 DEF LeaseHeld
      <4>2. s.fence = r.fence
        BY <2>4, <4>1 DEF Holds
      <4> QED BY <4>1, <4>2 DEF Counted, FencesFresh
    <3>2. \A s \in runs' : now < s.endAt => task'[s.task] = task[s.task]
      BY <1>0, <2>1, <2>2, <3>1
    <3> QED BY <2>2, <3>2 DEF LeaseHeld, Holds
  <2> QED BY <2>1, <2>3, <2>4
<1>5. CASE Tick
  <2>1. now' = now + 1 /\ UNCHANGED <<task, runs>>
    BY <1>5 DEF Tick
  <2>2. \A r \in runs : now' < r.endAt => now < r.endAt
    BY <1>0, <2>1
  <2> QED BY <2>1, <2>2 DEF LeaseHeld, Holds
<1>6. ASSUME NEW l \in Loops, Crash(l) PROVE LeaseHeld'
  BY <1>1, <1>6 DEF Crash
<1> QED BY ZenonT(30), <1>1, <1>2, <1>3, <1>4, <1>5, <1>6
        DEF Next, Rest, vars, WorkAccepted, AcquireSlot, ReadClock, ClaimEmpty, ClaimFails,
            Woken, TimerFires, Stop, Ready, ReadyLeases

(* While the context of a run is alive, its task is leased to it and it is *)
(* the only run of the task at work, in whichever process the others are   *)
(* and however long a loop pauses between its clock and its claim (Run).   *)
THEOREM LeasesCoverRuns ==
  ASSUME QueueAssumption
  PROVE  Spec => []LeaseCoversRun
<1> DEFINE Inv == Counted /\ ClocksOrdered /\ LeaseHeld
<1>1. Init => Inv
  BY ZenonT(30), CountedStart, LoopsStart DEF Init, ClocksOrdered, LeaseHeld, Stored
<1>2. Inv /\ [Next]_vars => Inv'
  BY CountedStep, ClocksStep, LeaseStep
<1>3. Inv => LeaseCoversRun
  <2> SUFFICES ASSUME Inv, NEW r \in runs, now < r.endAt, NEW s \in runs \ {r}, s.task = r.task,
                      ~(now >= s.endAt)
               PROVE  FALSE
    BY DEF LeaseHeld, LeaseCoversRun
  <2>1. now < s.endAt
    BY Constants DEF Counted, TypeOK, RunRec
  <2>2. s.fence = r.fence
    BY <2>1 DEF LeaseHeld, Holds
  <2> QED BY <2>2 DEF Counted, FencesFresh
<1> QED BY <1>1, <1>2, <1>3, PTL DEF Spec

-----------------------------------------------------------------------------
(* Wake-ups. *)

(* An unclaimed task stays due, and the loop that was told of it does not  *)
(* go to sleep over it.                                                    *)
LEMMA LookStep ==
  ASSUME QueueAssumption, Counted, Counted', UnclaimedIsDue, LoopWillLook, [Next]_vars
  PROVE  UnclaimedIsDue' /\ LoopWillLook'
<1>0. /\ now \in Nat /\ now' \in Nat /\ failed \in Nat
      /\ loop \in [Loops -> LoopRec] /\ wake \in [Loops -> BOOLEAN]
      /\ accept \in [Tasks -> {"new", "stored", "signalled"}]
      /\ task \in [Tasks -> TaskRec \cup {None}] /\ None \notin Loops
      /\ \A t \in Stored : task[t] \in TaskRec /\ task[t].runAt \in Nat /\ task[t].fence \in Nat
  BY Constants DEF Counted, TypeOK, Stored, TaskRec
<1>1. ASSUME UNCHANGED <<now, task, accept, home, wake>>, failed' = failed,
             NEW l \in Loops, NEW q, loop' = [loop EXCEPT ![l] = q],
             \/ q.pc \in {"slot", "clock", "stopped"}
             \/ loop[l].pc = "clock" /\ q.pc = "claim" /\ q.at = now
             \/ q.pc = loop[l].pc /\ q.at = loop[l].at
      PROVE  UnclaimedIsDue' /\ LoopWillLook'
  <2>1. UnclaimedIsDue'
    BY <1>1 DEF UnclaimedIsDue, Stored
  <2>2. loop'[l] = q /\ \A k \in Loops \ {l} : loop'[k] = loop[k]
    BY ZenonT(30), <1>0, <1>1
  <2> QED BY <1>1, <2>1, <2>2 DEF LoopWillLook, UnclaimedIsDue, Stored
<1>2. ASSUME NEW t \in Tasks, Accept(t) PROVE UnclaimedIsDue' /\ LoopWillLook'
  <2>1. PICK n : task' = [task EXCEPT ![t] = [runAt |-> now, lease |-> ZeroTime, fence |-> 0, seq |-> n]]
    BY ZenonT(30), <1>2 DEF Accept, InsertTask
  <2>2. /\ task'[t].runAt = now /\ task'[t].lease = ZeroTime
        /\ \A u \in Tasks \ {t} : task'[u] = task[u]
    BY <1>0, <2>1
  <2>3. /\ UNCHANGED <<now, home, wake, loop, failed>> /\ accept'[t] = "stored"
        /\ \A u \in Tasks \ {t} : accept'[u] = accept[u]
    BY ZenonT(30), <1>0, <1>2 DEF Accept
  <2> QED BY <1>0, <2>2, <2>3 DEF UnclaimedIsDue, LoopWillLook, Stored
<1>3. ASSUME NEW t \in Tasks, WorkAccepted(t) PROVE UnclaimedIsDue' /\ LoopWillLook'
  <2>1. /\ UNCHANGED <<now, task, home, loop, failed>> /\ \A u \in Tasks \ {t} : accept'[u] = accept[u]
        /\ \A l \in Loops : wake[l] => wake'[l]
        /\ \A l \in Loops : home[t] = l => wake'[l]
    BY Zenon, <1>0, <1>3 DEF WorkAccepted
  <2> QED BY <2>1 DEF UnclaimedIsDue, LoopWillLook, Stored
<1>4. ASSUME NEW l \in Loops, Claim(l) PROVE UnclaimedIsDue' /\ LoopWillLook'
  <2>1. PICK t \in Stored :
           /\ task'[t].fence = task[t].fence + 1 /\ \A u \in Tasks \ {t} : task'[u] = task[u]
    BY ZenonT(30), <1>4, ClaimMeans
  <2>2. task'[t].fence # 0 /\ t \in Tasks
    BY <1>0, <2>1 DEF Stored
  <2>3. UNCHANGED <<now, accept, home, wake, failed>>
    BY <1>4 DEF Claim
  <2>4. loop'[l].pc = "slot" /\ \A k \in Loops \ {l} : loop'[k] = loop[k]
    BY <1>0, <1>4 DEF Claim, Iterate
  <2>5. UnclaimedIsDue'
    BY ZenonT(30), <2>1, <2>2, <2>3 DEF UnclaimedIsDue, Stored
  <2>6. LoopWillLook'
    BY ZenonT(30), <2>1, <2>2, <2>3, <2>4 DEF LoopWillLook, Stored
  <2> QED BY ZenonT(30), <2>5, <2>6
<1>5. ASSUME NEW l \in Loops, ClaimEmpty(l) PROVE UnclaimedIsDue' /\ LoopWillLook'
  <2>1. /\ UNCHANGED <<now, task, accept, home, wake, failed>> /\ loop[l].pc = "claim"
        /\ Runnable(loop[l].at) = {}
        /\ \A k \in Loops \ {l} : loop'[k] = loop[k]
    BY ZenonT(30), <1>0, <1>5 DEF ClaimEmpty, Wait
  <2>2. UnclaimedIsDue'
    BY <2>1 DEF UnclaimedIsDue, Stored
  <2>3. \A t \in Stored : task[t].fence = 0 => ~(task[t].runAt <= loop[l].at)
    BY <2>1 DEF Runnable, Lapsed, UnclaimedIsDue
  <2> QED BY ZenonT(30), <2>1, <2>2, <2>3 DEF LoopWillLook, Stored
<1>6. ASSUME NEW l \in Loops, ClaimFails(l) PROVE UnclaimedIsDue' /\ LoopWillLook'
  <2>1. UNCHANGED <<now, task>> /\ failed' = failed + 1
    BY <1>6 DEF ClaimFails
  <2>2. failed' # 0
    BY <1>0, <2>1
  <2> QED BY <2>1, <2>2 DEF UnclaimedIsDue, LoopWillLook, Stored
<1>7. ASSUME NEW l \in Loops, Woken(l) PROVE UnclaimedIsDue' /\ LoopWillLook'
  <2>1. /\ UNCHANGED <<now, task, accept, home, failed>> /\ loop'[l].pc = "slot"
        /\ \A k \in Loops \ {l} : loop'[k] = loop[k] /\ wake'[k] = wake[k]
    BY <1>0, <1>7 DEF Woken, Iterate
  <2> QED BY <2>1 DEF UnclaimedIsDue, LoopWillLook, Stored
<1>8. ASSUME NEW r \in runs, Finish(r) \/ Reschedule(r) \/ GiveUp(r)
      PROVE  UnclaimedIsDue' /\ LoopWillLook'
  <2>1. /\ r.task \in Tasks /\ r.loop \in Loops /\ EndRun(r)
        /\ \A u \in Tasks \ {r.task} : task'[u] = task[u]
        /\ \/ task' = task
           \/ /\ Holds(r)
              /\ \/ task'[r.task] = None
                 \/ task'[r.task].fence = task[r.task].fence
    BY <1>8, EndMeans
  <2>2. r.fence > 0
    BY ZenonT(30) DEF Counted, FencesFresh
  <2>3. \A t \in Stored' : task'[t] = task[t] \/ task'[t].fence # 0
    BY <1>0, <2>1, <2>2 DEF Holds, Stored
  <2>4. UNCHANGED <<now, accept, home, wake, failed>>
    BY <1>8 DEF Finish, Reschedule, GiveUp
  <2>5. \A k \in Loops : loop'[k].pc = loop[k].pc /\ loop'[k].at = loop[k].at
    <3>1. \A k \in Loops : loop[k] \in LoopRec
      BY <1>0
    <3> QED BY <1>0, <2>1, <3>1 DEF EndRun, LoopRec
  <2>6. UnclaimedIsDue'
    BY ZenonT(30), <2>3, <2>4 DEF UnclaimedIsDue, Stored
  <2>7. LoopWillLook'
    BY ZenonT(30), <2>3, <2>4, <2>5 DEF LoopWillLook, Stored
  <2> QED BY <2>6, <2>7
<1>9. ASSUME now' = now \/ now' = now + 1, UNCHANGED <<task, accept, home, wake, loop, failed>>
      PROVE  UnclaimedIsDue' /\ LoopWillLook'
  <2>1. \A t \in Stored : task[t].runAt <= now => task[t].runAt <= now'
    BY <1>0, <1>9
  <2> QED BY <1>9, <2>1 DEF UnclaimedIsDue, LoopWillLook, Stored
<1>10. ASSUME NEW l \in Loops, AcquireSlot(l) \/ ReadClock(l) \/ TimerFires(l) \/ Stop(l) \/ Crash(l)
       PROVE  UnclaimedIsDue' /\ LoopWillLook'
  <2>1. loop[l] \in LoopRec
    BY <1>0
  <2>2. UNCHANGED <<now, task, accept, home, wake, failed>>
    BY <1>10 DEF AcquireSlot, ReadClock, TimerFires, Stop, Crash
  <2>3. PICK q : /\ loop' = [loop EXCEPT ![l] = q]
                 /\ \/ q.pc \in {"slot", "clock", "stopped"}
                    \/ loop[l].pc = "clock" /\ q.pc = "claim" /\ q.at = now
    <3>1. CASE AcquireSlot(l)
      <4>1. loop' = [loop EXCEPT ![l] = [@ EXCEPT !.pc = "clock", !.used = loop[l].used + 1,
                                                  !.endAt = now + Lease]]
        BY Zenon, <1>0, <3>1 DEF AcquireSlot
      <4>2. [loop[l] EXCEPT !.pc = "clock", !.used = loop[l].used + 1, !.endAt = now + Lease].pc = "clock"
        BY <2>1 DEF LoopRec
      <4> QED BY Zenon, <4>1, <4>2
    <3>2. CASE ReadClock(l)
      <4>1. loop' = [loop EXCEPT ![l] = [@ EXCEPT !.pc = "claim", !.at = now]] /\ loop[l].pc = "clock"
        BY Zenon, <1>0, <3>2 DEF ReadClock
      <4>2. /\ [loop[l] EXCEPT !.pc = "claim", !.at = now].pc = "claim"
            /\ [loop[l] EXCEPT !.pc = "claim", !.at = now].at = now
        BY <2>1 DEF LoopRec
      <4> QED BY Zenon, <4>1, <4>2
    <3>3. CASE TimerFires(l)
      <4> DEFINE q == [pc |-> "slot", used |-> loop[l].used, endAt |-> 0, at |-> 0, timer |-> 0]
      <4>1. loop' = [loop EXCEPT ![l] = q]
        BY <1>0, <3>3 DEF TimerFires, Iterate
      <4>2. q.pc = "slot"
        OBVIOUS
      <4> HIDE DEF q
      <4> QED BY ZenonT(30), <4>1, <4>2
    <3>4. CASE Crash(l)
      <4> DEFINE q == [pc |-> "stopped", used |-> 0, endAt |-> 0, at |-> 0, timer |-> 0]
      <4>1. loop' = [loop EXCEPT ![l] = q]
        BY Zenon, <3>4 DEF Crash
      <4>2. q.pc = "stopped"
        OBVIOUS
      <4> HIDE DEF q
      <4> QED BY ZenonT(30), <4>1, <4>2
    <3>5. CASE Stop(l)
      <4>1. loop' = [loop EXCEPT ![l] = [@ EXCEPT !.pc = "stopped", !.timer = 0]]
        BY ZenonT(30), <1>0, <3>5 DEF Stop
      <4>2. [loop[l] EXCEPT !.pc = "stopped", !.timer = 0].pc = "stopped"
        BY <2>1 DEF LoopRec
      <4> QED BY Zenon, <4>1, <4>2
    <3> QED BY <1>10, <3>1, <3>2, <3>3, <3>4, <3>5
  <2> QED BY Zenon, <1>1, <2>2, <2>3
<1> QED BY ZenonT(30), <1>2, <1>3, <1>4, <1>5, <1>6, <1>7, <1>8, <1>9, <1>10
        DEF Next, Rest, vars, Ready, ReadyLeases, Tick

(* No wake-up is lost between workAccepted and the loop of Run: a loop     *)
(* that waits without a token knows of no announced task of its process    *)
(* that is still unclaimed.                                                *)
THEOREM WakeupsAreKept ==
  ASSUME QueueAssumption
  PROVE  Spec => []NoLostWakeup
<1> DEFINE Inv == Counted /\ UnclaimedIsDue /\ LoopWillLook
<1>1. Init => Inv
  BY ZenonT(30), CountedStart, LoopsStart DEF Init, UnclaimedIsDue, LoopWillLook, Stored
<1>2. Inv /\ [Next]_vars => Inv'
  BY CountedStep, LookStep
<1>3. Inv => NoLostWakeup
  <2> SUFFICES ASSUME Inv, NEW l \in Loops, loop[l].pc = "wait", ~wake[l], failed = 0,
                      NEW t \in Stored, home[t] = l, accept[t] = "signalled"
               PROVE  task[t].fence > 0
    BY DEF NoLostWakeup
  <2>1. task[t].fence # 0
    BY DEF LoopWillLook
  <2>2. task[t].fence \in Nat
    BY DEF Counted, TypeOK, Stored, TaskRec
  <2> QED BY <2>1, <2>2
<1> QED BY <1>1, <1>2, <1>3, PTL DEF Spec

-----------------------------------------------------------------------------
(* A queue without workers. *)

(* When the last worker is gone no lease is taken any more. *)
LEMMA DownStep ==
  ASSUME QueueAssumption, Counted, Counted', ClocksOrdered, DownIsFinal, [Next]_vars
  PROVE  DownIsFinal'
<1>0. /\ now \in Nat /\ Lease \in Nat /\ down \in Nat \cup {None} /\ None \notin Nat
      /\ loop \in [Loops -> LoopRec] /\ task \in [Tasks -> TaskRec \cup {None}]
  BY Constants DEF Counted, TypeOK
<1>1. ASSUME NEW t \in Tasks, Accept(t) PROVE DownIsFinal'
  <2>1. PICK n : task' = [task EXCEPT ![t] = [runAt |-> now, lease |-> ZeroTime, fence |-> 0, seq |-> n]]
    BY ZenonT(30), <1>1 DEF Accept, InsertTask
  <2>2. task'[t].lease = ZeroTime /\ \A u \in Tasks \ {t} : task'[u] = task[u]
    BY <1>0, <2>1
  <2>3. UNCHANGED <<now, loop, runs, down>>
    BY ZenonT(30), <1>1 DEF Accept
  <2> QED BY <1>0, <2>2, <2>3 DEF DownIsFinal, Stored, ZeroTime
<1>2. ASSUME UNCHANGED <<task, loop, runs, down>>, now' = now \/ now' = now + 1
      PROVE  DownIsFinal'
  BY <1>0, <1>2 DEF DownIsFinal, Stored
<1>3. ASSUME NEW l \in Loops, loop[l].pc # "stopped", down' = down PROVE DownIsFinal'
  BY <1>3 DEF DownIsFinal
<1>4. ASSUME NoteDown, now' = now, task' = task, down = None PROVE DownIsFinal'
  <2>1. CASE down' = None
    BY ZenonT(30), <2>1 DEF DownIsFinal
  <2>2. CASE down' = now /\ runs' = {} /\ \A l \in Loops : loop'[l].pc = "stopped"
    BY <1>0, <1>4, <2>2 DEF DownIsFinal, ClocksOrdered, Stored
  <2> QED BY Zenon, <1>4, <2>1, <2>2 DEF NoteDown
<1>5. ASSUME NEW l \in Loops, Stop(l) \/ Crash(l) PROVE DownIsFinal'
  <2>1. loop[l].pc # "stopped" /\ NoteDown /\ now' = now /\ task' = task
    BY <1>5 DEF Stop, Crash
  <2> QED BY <1>4, <2>1 DEF DownIsFinal
<1>6. ASSUME NEW r \in runs, Finish(r) \/ Reschedule(r) \/ GiveUp(r) PROVE DownIsFinal'
  <2>1. down = None
    BY DEF DownIsFinal
  <2>2. /\ r.task \in Tasks /\ NoteDown /\ \A u \in Tasks \ {r.task} : task'[u] = task[u]
        /\ task' = task \/ task'[r.task] = None \/ (task[r.task] # None /\ task'[r.task].lease = ZeroTime)
    BY ZenonT(30), <1>6, EndMeans DEF EndRun
  <2>3. \A t \in Stored' : t \in Stored /\ (task'[t].lease = task[t].lease \/ task'[t].lease = ZeroTime)
    BY <2>2 DEF Stored
  <2>4. now' = now
    BY <1>6 DEF Finish, Reschedule, GiveUp
  <2>5. CASE down' = None
    BY <2>5 DEF DownIsFinal
  <2>6. CASE down' = now /\ runs' = {} /\ \A l \in Loops : loop'[l].pc = "stopped"
    <3>1. \A t \in Stored' : task'[t].lease <= now + Lease
      BY <1>0, <2>3 DEF ClocksOrdered, ZeroTime
    <3> QED BY <1>0, <2>4, <2>6, <3>1 DEF DownIsFinal
  <2> QED BY <2>1, <2>2, <2>5, <2>6 DEF NoteDown
<1>7. ASSUME NEW l \in Loops, \/ AcquireSlot(l) \/ ReadClock(l) \/ Claim(l) \/ ClaimEmpty(l)
                              \/ ClaimFails(l) \/ Woken(l) \/ TimerFires(l)
      PROVE  DownIsFinal'
  <2>1. loop[l].pc \in {"slot", "clock", "claim", "wait"} /\ down' = down
    BY <1>7 DEF AcquireSlot, ReadClock, Claim, ClaimEmpty, ClaimFails, Woken, TimerFires
  <2> QED BY <1>3, <2>1
<1> QED BY ZenonT(30), <1>1, <1>2, <1>5, <1>6, <1>7
        DEF Next, Rest, vars, WorkAccepted, Ready, ReadyLeases, Tick

(* A finite set has a member exactly when its cardinality is positive. *)
LEMMA SomeMember ==
  ASSUME NEW S, IsFiniteSet(S)
  PROVE  Cardinality(S) > 0 <=> S # {}
<1>1. Cardinality(S) \in Nat /\ (Cardinality(S) = 0 <=> S = {})
  BY FS_CardinalityType, FS_EmptySet
<1> QED BY <1>1

(* Ready counts every task that is due, and no lease once they have ended. *)
LEMMA ProbeStep ==
  ASSUME QueueAssumption, Counted, Counted', DownIsFinal, DownIsFinal', ProbeInTime,
         DeadQueueIsReported, [Next]_vars
  PROVE  ProbeInTime' /\ DeadQueueIsReported'
<1>0. /\ now \in Nat /\ Lease \in Nat /\ Lease > 0 /\ down \in Nat \cup {None} /\ None \notin Nat
      /\ StaleAfter \in Nat /\ StaleAfter > 0 /\ probe.at \in Nat /\ IsFiniteSet(Tasks)
      /\ loop \in [Loops -> LoopRec] /\ task \in [Tasks -> TaskRec \cup {None}]
      /\ \A t \in Stored : task[t].lease \in Nat \cup {ZeroTime} /\ task[t].runAt \in Nat
  BY Constants DEF Counted, TypeOK, Stored, TaskRec
<1>1. ASSUME NEW t \in Tasks, Accept(t) PROVE ProbeInTime' /\ DeadQueueIsReported'
  <2>1. PICK n : task' = [task EXCEPT ![t] = [runAt |-> now, lease |-> ZeroTime, fence |-> 0, seq |-> n]]
    BY ZenonT(30), <1>1 DEF Accept, InsertTask
  <2>2. task'[t].runAt = now /\ \A u \in Tasks \ {t} : task'[u] = task[u]
    BY Zenon, <1>0, <2>1
  <2>3. UNCHANGED <<now, probe, down>>
    BY <1>1 DEF Accept
  <2>4. now > probe.at - StaleAfter
    BY <1>0 DEF ProbeInTime
  <2> QED BY ZenonT(30), <2>2, <2>3, <2>4 DEF DeadQueueIsReported, ProbeInTime, Stored
<1>2. ASSUME UNCHANGED <<task, probe>>, now' = now \/ now' = now + 1, down' \in {down, None}
      PROVE  ProbeInTime' /\ DeadQueueIsReported'
  BY <1>0, <1>2 DEF DeadQueueIsReported, ProbeInTime, Stored
<1>3. ASSUME UNCHANGED <<now, probe>>, down' = None
      PROVE  ProbeInTime' /\ DeadQueueIsReported'
  BY ZenonT(30), <1>3 DEF DeadQueueIsReported, ProbeInTime
<1>4. ASSUME UNCHANGED <<now, probe>>, down' = now
      PROVE  ProbeInTime' /\ DeadQueueIsReported'
  BY <1>0, <1>4 DEF DeadQueueIsReported, ProbeInTime
<1>5. ASSUME NEW l \in Loops, Stop(l) \/ Crash(l) PROVE ProbeInTime' /\ DeadQueueIsReported'
  <2>1. down = None
    BY <1>5 DEF DownIsFinal, Stop, Crash
  <2>2. UNCHANGED <<now, probe>> /\ down' \in {now, None}
    BY <1>5, <2>1 DEF Stop, Crash, NoteDown
  <2> QED BY <1>3, <1>4, <2>2
<1>6. ASSUME NEW r \in runs, Finish(r) \/ Reschedule(r) \/ GiveUp(r)
      PROVE  ProbeInTime' /\ DeadQueueIsReported'
  <2>1. down = None
    BY DEF DownIsFinal
  <2>2. UNCHANGED <<now, probe>> /\ down' \in {now, None}
    BY <1>6, <2>1 DEF Finish, Reschedule, GiveUp, EndRun, NoteDown
  <2> QED BY <1>3, <1>4, <2>2
<1>7. ASSUME NEW l \in Loops, \/ AcquireSlot(l) \/ ReadClock(l) \/ Claim(l) \/ ClaimEmpty(l)
                              \/ ClaimFails(l) \/ Woken(l) \/ TimerFires(l)
      PROVE  ProbeInTime' /\ DeadQueueIsReported'
  <2>1. UNCHANGED <<now, probe>> /\ down' = down
    BY <1>7, Zenon DEF AcquireSlot, ReadClock, Claim, ClaimEmpty, ClaimFails, Woken, TimerFires
  <2>3. loop[l].pc \in {"slot", "clock", "claim", "wait"}
    BY <1>7 DEF AcquireSlot, ReadClock, Claim, ClaimEmpty, ClaimFails, Woken, TimerFires
  <2>2. down = None
    BY <2>3 DEF DownIsFinal
  <2> QED BY <1>3, <2>1, <2>2
<1>8. CASE Ready
  <2>1. UNCHANGED <<now, task, down>> /\ probe'.at = now
    BY <1>8 DEF Ready
  <2> SUFFICES ASSUME down # None, probe'.result = "ready", now >= down + Lease + StaleAfter,
                      NEW t \in Stored, ~(task[t].runAt > now - StaleAfter)
               PROVE  FALSE
    BY <1>0, <2>1 DEF DeadQueueIsReported, ProbeInTime, Stored
  <2>2. t \in Runnable(now - StaleAfter)
    <3>1. task[t].lease <= down + Lease
      BY DEF DownIsFinal
    <3> QED BY <1>0, <3>1 DEF Runnable, Lapsed, ZeroTime
  <2>3. IsFiniteSet(Runnable(now - StaleAfter))
    BY <1>0, FS_Subset DEF Runnable, Stored
  <2>4. PendingTasks(now - StaleAfter) > 0
    BY <2>2, <2>3, SomeMember DEF PendingTasks
  <2>5. now - StaleAfter >= 0
    BY <1>0
  <2> QED BY <1>8, <2>4, <2>5 DEF Ready
<1>9. CASE ReadyLeases
  <2>1. UNCHANGED <<now, task, down>> /\ probe'.at = probe.at
        /\ probe'.result = IF LeasedTasks(probe.at) > 0 THEN "ready" ELSE "stale"
    <3>1. probe \in [pc : {"idle", "counted"}, at : Nat, result : {"none", "ready", "stale"}]
      BY DEF Counted, TypeOK
    <3> QED BY <1>9, <3>1 DEF ReadyLeases
  <2> SUFFICES ASSUME down # None, LeasedTasks(probe.at) > 0, probe.at >= down + Lease + StaleAfter
               PROVE  FALSE
    BY <2>1 DEF DeadQueueIsReported, ProbeInTime, Stored
  <2>2. IsFiniteSet({t \in Stored : task[t].lease > probe.at})
    BY <1>0, FS_Subset DEF Stored
  <2>3. PICK t \in Stored : task[t].lease > probe.at
    BY <2>2, SomeMember DEF LeasedTasks
  <2>4. task[t].lease <= down + Lease
    BY DEF DownIsFinal
  <2> QED BY <1>0, <2>3, <2>4 DEF ZeroTime
<1> QED BY ZenonT(30), <1>1, <1>2, <1>5, <1>6, <1>7, <1>8, <1>9
        DEF Next, Rest, vars, WorkAccepted, Tick

(* A queue that has lost all its workers fails the readiness probe once    *)
(* the last lease and StaleAfter have passed, whatever was in flight when  *)
(* they were lost and however the two reads of Ready interleave.           *)
THEOREM DeadQueuesAreReported ==
  ASSUME QueueAssumption
  PROVE  Spec => []DeadQueueIsReported
<1> DEFINE Inv == Counted /\ ClocksOrdered /\ DownIsFinal /\ ProbeInTime /\ DeadQueueIsReported
<1>1. Init => Inv
  <2> SUFFICES ASSUME Init PROVE Inv
    OBVIOUS
  <2>1. Counted /\ \A l \in Loops : loop[l].pc \in {"slot", "stopped"}
    BY Zenon, CountedStart, LoopsStart
  <2>2. Stored = {} /\ now = 0 /\ runs = {} /\ probe.pc = "idle" /\ probe.at = 0 /\ probe.result = "none"
    BY DEF Init, Stored
  <2>3. down = None \/ (down = 0 /\ \A l \in Loops : loop[l].pc = "stopped")
    BY Zenon, LoopsStart
  <2>4. ClocksOrdered
    BY <2>1, <2>2 DEF ClocksOrdered
  <2>5. DownIsFinal /\ ProbeInTime
    BY <2>2, <2>3 DEF DownIsFinal, ProbeInTime
  <2>6. DeadQueueIsReported
    BY <2>2 DEF DeadQueueIsReported
  <2> QED BY <2>1, <2>4, <2>5, <2>6
<1>2. Inv /\ [Next]_vars => Inv'
  BY CountedStep, ClocksStep, DownStep, ProbeStep
<1> QED BY <1>1, <1>2, PTL DEF Spec

-----------------------------------------------------------------------------
(* The poll timer, where the loop itself loses no time. *)

(* The greater of two times. *)
LEMMA MaxOfTwo ==
  ASSUME NEW a \in Int, NEW b \in Int
  PROVE  Max({a, b}) \in Int /\ Max({a, b}) >= a /\ Max({a, b}) >= b
<1>1. \E x \in {a, b} : \A y \in {a, b} : x >= y
  BY DEF Max
<1>2. Max({a, b}) \in {a, b} /\ \A y \in {a, b} : Max({a, b}) >= y
  BY <1>1 DEF Max
<1> QED BY <1>2

(* A loop that waits has looked at every task that it could claim, and its *)
(* timer ends the wait.                                                    *)
LEMMA WaitStep ==
  ASSUME QueueAssumption, urgent, Counted, Counted', WaitsInTime, [Next]_vars
  PROVE  WaitsInTime'
<1>0. /\ now \in Nat /\ Lease \in Nat /\ PollInterval \in Nat /\ failed \in Nat
      /\ loop \in [Loops -> LoopRec] /\ task \in [Tasks -> TaskRec \cup {None}]
      /\ \A l \in Loops : loop[l] \in LoopRec /\ loop[l].at \in Nat /\ loop[l].timer \in Nat
      /\ \A t \in Stored : task[t].lease \in Nat \cup {-1} /\ task[t].runAt \in Nat
      /\ \A t \in Stored' : task'[t].lease \in Nat \cup {-1} /\ task'[t].runAt \in Nat
  BY Constants DEF Counted, TypeOK, Stored, TaskRec, LoopRec, ZeroTime
<1>1. ASSUME now' = now, failed' = failed,
             \A k \in Loops : /\ loop'[k].pc = "wait" => loop[k].pc = "wait" /\ loop'[k].timer = loop[k].timer
                              /\ loop'[k].pc = "claim" => loop'[k].at = now,
             \A t \in Stored' : \/ t \in Stored /\ task'[t] = task[t]
                                \/ task'[t].runAt >= now
                                \/ task'[t].lease >= now
      PROVE  WaitsInTime'
  <2>1. \A l \in Loops : loop'[l].pc = "claim" => loop'[l].at = now'
    BY ZenonT(30), <1>1
  <2>2. \A l \in Loops : loop'[l].pc = "wait" =>
          loop'[l].timer \in Nat /\ now' <= loop'[l].timer /\ loop'[l].timer <= now' + PollInterval
    BY <1>0, <1>1 DEF WaitsInTime
  <2>3. ASSUME failed' = 0, NEW l \in Loops, NEW t \in Stored', loop'[l].pc = "wait"
        PROVE  \/ loop'[l].timer <= task'[t].runAt + PollInterval
               \/ loop'[l].timer <= task'[t].lease + PollInterval
    <3>1. CASE t \in Stored /\ task'[t] = task[t]
      BY <1>1, <2>3, <3>1 DEF WaitsInTime
    <3>2. CASE task'[t].runAt >= now \/ task'[t].lease >= now
      BY <1>0, <1>1, <2>2, <2>3, <3>2
    <3> QED BY <1>1, <3>1, <3>2
  <2> QED BY Zenon, <2>1, <2>2, <2>3 DEF WaitsInTime
<1>2. ASSUME NEW t \in Tasks, Accept(t) PROVE WaitsInTime'
  <2>1. PICK n : task' = [task EXCEPT ![t] = [runAt |-> now, lease |-> ZeroTime, fence |-> 0, seq |-> n]]
    BY Zenon, <1>2 DEF Accept, InsertTask
  <2>2. task'[t].runAt >= now /\ \A u \in Tasks \ {t} : task'[u] = task[u]
    BY <1>0, <2>1
  <2>3. UNCHANGED <<now, failed, loop>>
    BY <1>2 DEF Accept
  <2>4. \A u \in Stored' : u \in Tasks /\ (u = t \/ (u \in Stored /\ task'[u] = task[u]))
    BY <2>2 DEF Stored
  <2> QED BY ZenonT(30), <1>1, <2>2, <2>3, <2>4 DEF WaitsInTime
<1>3. ASSUME UNCHANGED <<now, failed, loop, task>> PROVE WaitsInTime'
  BY <1>3 DEF WaitsInTime, Stored
<1>4. ASSUME NEW l \in Loops, Claim(l) PROVE WaitsInTime'
  <2>1. PICK t \in Stored :
           /\ loop[l].pc = "claim" /\ task'[t].lease = loop[l].at + Lease
           /\ \A u \in Tasks \ {t} : task'[u] = task[u]
    BY <1>4, ClaimMeans
  <2>2. task'[t].lease >= now
    BY <1>0, <2>1 DEF WaitsInTime
  <2>3. UNCHANGED <<now, failed>>
    BY ZenonT(30), <1>4 DEF Claim
  <2>4. loop'[l].pc = "slot" /\ \A k \in Loops \ {l} : loop'[k] = loop[k]
    BY <1>0, <1>4 DEF Claim, Iterate
  <2>5. \A u \in Stored' : u = t \/ (u \in Stored /\ task'[u] = task[u])
    BY <2>1 DEF Stored
  <2>6. \A k \in Loops : /\ loop'[k].pc = "wait" => loop[k].pc = "wait" /\ loop'[k].timer = loop[k].timer
                         /\ loop'[k].pc = "claim" => loop'[k].at = now
    BY ZenonT(30), <2>4 DEF WaitsInTime
  <2> QED BY ZenonT(30), <1>1, <2>2, <2>3, <2>5, <2>6
<1>5. ASSUME NEW r \in runs, Finish(r) \/ Reschedule(r) \/ GiveUp(r) PROVE WaitsInTime'
  <2>1. /\ r.task \in Tasks /\ r.loop \in Loops /\ EndRun(r)
        /\ \A u \in Tasks \ {r.task} : task'[u] = task[u]
        /\ task' = task \/ task'[r.task] = None \/ task'[r.task].runAt > now
    BY <1>5, EndMeans
  <2>2. \A u \in Stored' : (u \in Stored /\ task'[u] = task[u]) \/ task'[u].runAt >= now
    BY <1>0, <2>1 DEF Stored
  <2>3. \A k \in Loops : /\ loop'[k].pc = loop[k].pc /\ loop'[k].at = loop[k].at
                         /\ loop'[k].timer = loop[k].timer
    BY <1>0, <2>1 DEF EndRun, LoopRec
  <2>4. UNCHANGED <<now, failed>>
    BY <1>5 DEF Finish, Reschedule, GiveUp
  <2> QED BY <1>1, <2>2, <2>3, <2>4 DEF WaitsInTime
<1>6. ASSUME NEW l \in Loops, ClaimEmpty(l) \/ ClaimFails(l) PROVE WaitsInTime'
  <2>1. /\ UNCHANGED <<now, task>> /\ loop[l].pc = "claim" /\ loop[l].at = now
        /\ loop'[l].pc = "wait" /\ loop'[l].timer = now + PollInterval
        /\ \A k \in Loops \ {l} : loop'[k] = loop[k]
    <3>1. loop[l].pc = "claim" /\ Wait(l) /\ UNCHANGED <<now, task>>
      BY <1>6 DEF ClaimEmpty, ClaimFails
    <3>2. loop[l].at = now
      BY Zenon, <3>1 DEF WaitsInTime
    <3>3. loop'[l].pc = "wait" /\ loop'[l].timer = now + PollInterval
      BY <1>0, <3>1 DEF Wait
    <3>4. \A k \in Loops \ {l} : loop'[k] = loop[k]
      BY Zenon, <1>0, <3>1 DEF Wait
    <3> QED BY <3>1, <3>2, <3>3, <3>4
  <2>2. failed' = 0 => failed = 0 /\ Runnable(now) = {}
    <3>1. CASE ClaimEmpty(l)
      BY Zenon, <2>1, <3>1 DEF ClaimEmpty
    <3>2. CASE ClaimFails(l)
      <4>1. failed' = failed + 1
        BY Zenon, <3>2 DEF ClaimFails
      <4> QED BY <1>0, <4>1
    <3> QED BY <1>6, <3>1, <3>2
  <2>3. ASSUME failed' = 0, NEW t \in Stored
        PROVE  \/ loop'[l].timer <= task[t].runAt + PollInterval
               \/ loop'[l].timer <= task[t].lease + PollInterval
    <3>1. task[t].runAt > now \/ task[t].lease > now
      BY <1>0, <2>2, <2>3 DEF Runnable, Lapsed
    <3> QED BY <1>0, <2>1, <3>1
  <2>4. \A k \in Loops : loop'[k].pc = "wait" =>
          now <= loop'[k].timer /\ loop'[k].timer <= now + PollInterval
    BY <1>0, <2>1 DEF WaitsInTime
  <2>5. \A k \in Loops : loop'[k].pc = "claim" => loop'[k].at = now
    BY <2>1 DEF WaitsInTime
  <2>6. failed' = 0 => \A k \in Loops, t \in Stored : loop'[k].pc = "wait" =>
          \/ loop'[k].timer <= task[t].runAt + PollInterval
          \/ loop'[k].timer <= task[t].lease + PollInterval
    BY Zenon, <2>1, <2>2, <2>3 DEF WaitsInTime
  <2> QED BY ZenonT(30), <2>1, <2>4, <2>5, <2>6 DEF WaitsInTime, Stored
<1>7. ASSUME NEW l \in Loops, \/ AcquireSlot(l) \/ ReadClock(l) \/ Woken(l) \/ TimerFires(l)
                              \/ Stop(l) \/ Crash(l)
      PROVE  WaitsInTime'
  <2>1. UNCHANGED <<now, failed, task>>
    BY ZenonT(30), <1>7 DEF AcquireSlot, ReadClock, Woken, TimerFires, Stop, Crash
  <2>2. loop'[l].pc # "wait" /\ (loop'[l].pc = "claim" => loop'[l].at = now)
    <3>1. CASE AcquireSlot(l)
      BY <1>0, <3>1 DEF AcquireSlot, LoopRec
    <3>2. CASE ReadClock(l)
      BY ZenonT(30), <1>0, <3>2 DEF ReadClock, LoopRec
    <3>3. CASE Woken(l) \/ TimerFires(l)
      BY <1>0, <3>3 DEF Woken, TimerFires, Iterate
    <3>4. CASE Stop(l)
      BY ZenonT(30), <1>0, <3>4 DEF Stop, LoopRec
    <3>5. CASE Crash(l)
      BY <1>0, <3>5 DEF Crash
    <3> QED BY <1>7, <3>1, <3>2, <3>3, <3>4, <3>5
  <2>3. \A k \in Loops \ {l} : loop'[k] = loop[k]
    BY ZenonT(30), <1>0, <1>7 DEF AcquireSlot, ReadClock, Woken, TimerFires, Stop, Crash, Iterate
  <2>4. \A k \in Loops : /\ loop'[k].pc = "wait" => loop[k].pc = "wait" /\ loop'[k].timer = loop[k].timer
                         /\ loop'[k].pc = "claim" => loop'[k].at = now
    BY <2>2, <2>3 DEF WaitsInTime
  <2>5. \A u \in Stored' : u \in Stored /\ task'[u] = task[u]
    BY ZenonT(30), <2>1 DEF Stored
  <2> QED BY <1>1, <2>1, <2>4, <2>5
<1>8. CASE Tick
  <2>1. now' = now + 1 /\ UNCHANGED <<task, loop, failed>> /\ \A l \in Loops : ~Busy(l)
    BY <1>8 DEF Tick
  <2>2. \A l \in Loops : loop[l].pc # "claim" /\ (loop[l].pc = "wait" => now < loop[l].timer)
    BY <1>0, <2>1 DEF Busy
  <2> QED BY <1>0, <2>1, <2>2 DEF WaitsInTime, Stored
<1> QED BY ZenonT(30), <1>2, <1>3, <1>4, <1>5, <1>6, <1>7, <1>8
        DEF Next, Rest, vars, WorkAccepted, Ready, ReadyLeases

(* While a loop waits, no task that is due has been so for longer than one *)
(* poll interval, whichever process it came from and whatever became of    *)
(* its earlier attempts (the timer of Run), where the loop loses no time.  *)
THEOREM TasksAreClaimedInTime ==
  ASSUME QueueAssumption
  PROVE  Spec => []ClaimedInTime
<1> DEFINE Inv == Counted /\ (urgent => WaitsInTime)
<1>1. Init => Inv
  <2>1. Init => \A l \in Loops : loop[l].pc \notin {"claim", "wait"}
    BY LoopsStart
  <2> QED BY Zenon, <2>1, CountedStart DEF WaitsInTime
<1>2. Inv /\ [Next]_vars => Inv'
  <2>1. [Next]_vars => urgent' = urgent
    BY Zenon DEF Next, vars
  <2> QED BY Zenon, <2>1, CountedStep, WaitStep
<1>3. Inv => ClaimedInTime
  <2> SUFFICES ASSUME Counted, WaitsInTime, failed = 0, NEW l \in Loops, loop[l].pc = "wait",
                      NEW t \in Runnable(now)
               PROVE  now <= Max({task[t].runAt, task[t].lease}) + PollInterval
    BY Zenon DEF ClaimedInTime
  <2>1. t \in Stored
    BY ZenonT(30) DEF Runnable
  <2>2. /\ now \in Nat /\ loop[l].timer \in Nat /\ PollInterval \in Nat
        /\ task[t].runAt \in Nat /\ task[t].lease \in Nat \cup {-1}
    BY <2>1, Constants DEF Counted, TypeOK, LoopRec, Stored, TaskRec, ZeroTime
  <2>3. /\ now <= loop[l].timer
        /\ \/ loop[l].timer <= task[t].runAt + PollInterval
           \/ loop[l].timer <= task[t].lease + PollInterval
    BY <2>1 DEF WaitsInTime
  <2>m. PICK m : m = Max({task[t].runAt, task[t].lease})
    OBVIOUS
  <2>i. task[t].runAt \in Int /\ task[t].lease \in Int
    BY <2>2
  <2>4. m \in Int /\ m >= task[t].runAt /\ m >= task[t].lease
    BY Zenon, <2>i, <2>m, MaxOfTwo
  <2> QED BY <2>2, <2>3, <2>4, <2>m
<1> QED BY <1>1, <1>2, <1>3, PTL DEF Spec

=============================================================================
