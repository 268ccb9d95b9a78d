-------------------------- MODULE ThreadPoolProofs --------------------------
(***************************************************************************)
(* Proofs about ThreadPool, for any finite set of workers, any set of jobs *)
(* and any bound on the pending list.                                      *)
(***************************************************************************)
EXTENDS ThreadPool, FiniteSetTheorems, TLAPS

AwakePC == {"loop", "run", "report", "exit"}

(* How a step of one worker changes the set of awake workers and its size. *)
LEMMA AwakeGrows ==
    ASSUME NEW w \in Workers, NEW pc \in AwakePC, wpc \in [Workers -> WorkerPC],
           wpc[w] \notin AwakePC, wpc' = [wpc EXCEPT ![w] = pc]
    PROVE  Cardinality(Awake') = Cardinality(Awake) + 1
<1>1. IsFiniteSet(Awake)
  BY FS_Subset, PoolAssumption DEF Awake
<1>2. Awake' = Awake \cup {w} /\ w \notin Awake
  BY DEF Awake, AwakePC
<1>. QED BY <1>1, <1>2, FS_AddElement

(* A thread that goes leaves one fewer awake. *)
LEMMA AwakeShrinks ==
    ASSUME NEW w \in Workers, NEW pc, pc \notin AwakePC, wpc \in [Workers -> WorkerPC],
           wpc[w] \in AwakePC, wpc' = [wpc EXCEPT ![w] = pc]
    PROVE  /\ Cardinality(Awake') = Cardinality(Awake) - 1
           /\ Cardinality(Awake) > 0
<1>1. IsFiniteSet(Awake)
  BY FS_Subset, PoolAssumption DEF Awake
<1>2. Awake' = Awake \ {w} /\ w \in Awake
  BY DEF Awake, AwakePC
<1>3. Cardinality(Awake) \in Nat /\ Cardinality(Awake) # 0
  BY <1>1, <1>2, FS_CardinalityType, FS_EmptySet
<1>4. Cardinality(Awake \ {w}) = Cardinality(Awake) - 1
  BY <1>1, <1>2, FS_RemoveElement
<1>. QED BY <1>2, <1>3, <1>4

(* Threads that move among awake positions do not change the count. *)
LEMMA AwakeStays ==
    ASSUME wpc \in [Workers -> WorkerPC], wpc' \in [Workers -> WorkerPC],
           \A w \in Workers : wpc[w] \in AwakePC <=> wpc'[w] \in AwakePC
    PROVE  Awake' = Awake
BY DEF Awake, AwakePC

(* A thread that is awake is counted. *)
LEMMA AwakeCounts ==
    /\ Cardinality(Awake) \in Nat
    /\ \A w \in Workers : wpc[w] \in AwakePC => Cardinality(Awake) > 0
<1>1. IsFiniteSet(Awake)
  BY FS_Subset, PoolAssumption DEF Awake
<1>2. \A w \in Workers : wpc[w] \in AwakePC => Awake # {}
  BY DEF Awake, AwakePC
<1>. QED BY <1>1, <1>2, FS_CardinalityType, FS_EmptySet

(* A worker at the loop test that stays awake is counted exactly once. *)
LEMMA LoopCount ==
    ASSUME NEW w \in Workers, NEW pc \in AwakePC, wpc \in [Workers -> WorkerPC],
           worker_count = Cardinality(Awake), AtLoop(w), wpc' = [wpc EXCEPT ![w] = pc]
    PROVE  CountAtLoop(w) = Cardinality(Awake') /\ CountAtLoop(w) \in Nat
<1>1. CASE wpc[w] = "woken"
  <2>1. Cardinality(Awake') = Cardinality(Awake) + 1
    BY <1>1, AwakeGrows DEF AwakePC
  <2>. QED BY <1>1, <2>1, AwakeCounts DEF CountAtLoop
<1>2. CASE wpc[w] = "loop"
  <2>1. wpc' \in [Workers -> WorkerPC]
    BY DEF AwakePC, WorkerPC
  <2>2. Awake' = Awake
    BY <1>2, <2>1, AwakeStays DEF AwakePC
  <2>. QED BY <1>2, <2>2, AwakeCounts DEF CountAtLoop
<1>. QED BY <1>1, <1>2 DEF AtLoop

-----------------------------------------------------------------------------
(* Types and the hand-kept counters. *)

(* A call of add() that sleeps has a job to queue. *)
AddHasJob == cpc \in {"add_asleep", "add_woken"} => func \in Jobs

(* add() carries its job to the queue. *)
LEMMA AddHasJobNext == AddHasJob /\ [Next]_vars => AddHasJob'
<1>. SUFFICES ASSUME AddHasJob, [Next]_vars PROVE AddHasJob'
  OBVIOUS
<1>. USE DEF AddHasJob
<1>1. ASSUME NEW w \in Workers, work(w) PROVE AddHasJob'
  BY <1>1 DEF work, Start, Idle, Leave, Clear, Take, RunWell, RunThrows, Report, Exit, WakeWait, WakeAdd,
              callvars
<1>2. ASSUME NEW w \in Workers, SpuriousWorker(w) \/ Spawn(w) PROVE AddHasJob'
  BY <1>2 DEF SpuriousWorker, Spawn, callvars
<1>3. ASSUME NEW j \in Jobs, AddDrops(j) \/ AddSleeps(j) \/ AddQueues(j) PROVE AddHasJob'
  BY <1>3 DEF AddDrops, AddSleeps, AddQueues, Queue
<1>4. ASSUME \/ SpawnFails \/ AddSleepsAgain \/ AddResumes \/ WaitSleeps \/ WaitReturns
             \/ JoinCalled \/ JoinReturns \/ Destroyed \/ SpuriousCaller
      PROVE AddHasJob'
  BY <1>4 DEF SpawnFails, AddSleepsAgain, AddResumes, Queue, WaitSleeps, WaitReturns, JoinCalled, RequestJoin,
              JoinReturns, Destroyed, SpuriousCaller
<1>5. ASSUME UNCHANGED vars PROVE AddHasJob'
  BY <1>5 DEF vars, callvars
<1>. QED BY <1>1, <1>2, <1>3, <1>4, <1>5 DEF Next

CountInv == TypeOK /\ CountsAgree

(* The counts agree when the pool is constructed. *)
LEMMA CountInit == Init => CountInv
<1>. SUFFICES ASSUME Init PROVE CountInv
  OBVIOUS
<1>1. TypeOK
  <2>1. pending \in Seq(Jobs)
    BY DEF Init
  <2>. QED BY <2>1 DEF Init, TypeOK, WorkerPC, CallerPC, JobStatus
<1>2. Awake = {}
  BY DEF Init, Awake
<1>3. CountsAgree
  BY <1>2, FS_EmptySet, PoolAssumption DEF Init, CountsAgree
<1>. QED BY <1>1, <1>3 DEF CountInv

(* Every step of a worker and of the caller keeps the counts in agreement. *)
LEMMA CountNext == CountInv /\ AddHasJob /\ [Next]_vars => CountInv'
<1>. SUFFICES ASSUME CountInv, AddHasJob, [Next]_vars PROVE CountInv'
  OBVIOUS
<1>. USE PoolAssumption DEF CountInv, Goto
<1>0. /\ wpc \in [Workers -> WorkerPC]
      /\ worker_count = Cardinality(Awake)
      /\ pending_size = Len(pending)
      /\ pending_size <= max_jobs
  BY DEF TypeOK, CountsAgree
<1>1. ASSUME NEW w \in Workers, Start(w) PROVE CountInv'
  <2>1. Cardinality(Awake') = Cardinality(Awake) + 1
    BY <1>0, <1>1, AwakeGrows DEF Start, AwakePC
  <2>2. TypeOK'
    BY <1>1 DEF Start, TypeOK, WorkerPC, callvars, history
  <2>. QED BY <1>0, <1>1, <2>1, <2>2 DEF Start, CountsAgree
<1>2. ASSUME NEW w \in Workers, Idle(w) PROVE CountInv'
  <2>1. worker_count' = Cardinality(Awake') /\ worker_count' \in Nat
    <3>1. CASE wpc[w] = "loop"
      <4>1. Cardinality(Awake') = Cardinality(Awake) - 1 /\ Cardinality(Awake) > 0
        BY <1>0, <1>2, <3>1, AwakeShrinks DEF Idle, AwakePC
      <4>. QED BY <1>0, <1>2, <3>1, <4>1, AwakeCounts DEF Idle, CountAtLoop
    <3>2. CASE wpc[w] = "woken"
      <4>1. wpc' \in [Workers -> WorkerPC]
        BY <1>0, <1>2 DEF Idle, WorkerPC
      <4>2. Awake' = Awake
        BY <1>0, <1>2, <3>2, <4>1, AwakeStays DEF Idle, AwakePC
      <4>. QED BY <1>0, <1>2, <3>2, <4>2, AwakeCounts DEF Idle, CountAtLoop
    <3>. QED BY <1>2, <3>1, <3>2 DEF Idle, AtLoop
  <2>2. TypeOK'
    BY <1>2, <2>1 DEF Idle, TypeOK, WorkerPC, CallerPC, WakeWait, history
  <2>. QED BY <1>0, <1>2, <2>1, <2>2 DEF Idle, CountsAgree
<1>3. ASSUME NEW w \in Workers, Leave(w) PROVE CountInv'
  <2>1. worker_count' = Cardinality(Awake') /\ worker_count' \in Nat
    BY <1>0, <1>3, LoopCount DEF Leave, AwakePC
  <2>2. TypeOK'
    BY <1>3, <2>1 DEF Leave, TypeOK, WorkerPC, callvars, history
  <2>. QED BY <1>0, <1>3, <2>1, <2>2 DEF Leave, CountsAgree
<1>4. ASSUME NEW w \in Workers, Clear(w) PROVE CountInv'
  <2>1. worker_count' = Cardinality(Awake') /\ worker_count' \in Nat
    BY <1>0, <1>4, LoopCount DEF Clear, AwakePC
  <2>2. TypeOK'
    BY <1>4, <2>1 DEF Clear, TypeOK, WorkerPC, JobStatus, callvars
  <2>. QED BY <1>0, <1>4, <2>1, <2>2 DEF Clear, CountsAgree
<1>5. ASSUME NEW w \in Workers, Take(w) PROVE CountInv'
  <2>1. worker_count' = Cardinality(Awake') /\ worker_count' \in Nat
    BY <1>0, <1>5, LoopCount DEF Take, AwakePC
  <2>2. pending \in Seq(Jobs) /\ pending # <<>>
    BY <1>5 DEF Take, TypeOK
  <2>3. /\ Head(pending) \in Jobs
        /\ Tail(pending) \in Seq(Jobs)
        /\ Len(Tail(pending)) = Len(pending) - 1
        /\ Len(pending) \in Nat \ {0}
    BY <2>2
  <2>4. TypeOK'
    BY <1>0, <1>5, <2>1, <2>3 DEF Take, TypeOK, WorkerPC, CallerPC, JobStatus, WakeAdd
  <2>. QED BY <1>0, <1>5, <2>1, <2>3, <2>4 DEF Take, CountsAgree
<1>6. ASSUME NEW w \in Workers, RunWell(w) \/ RunThrows(w) PROVE CountInv'
  <2>1. TypeOK'
    BY <1>6 DEF RunWell, RunThrows, TypeOK, WorkerPC, JobStatus, poolvars, callvars
  <2>2. Awake' = Awake
    BY <1>0, <1>6, <2>1, AwakeStays DEF RunWell, RunThrows, AwakePC, TypeOK
  <2>. QED BY <1>0, <1>6, <2>1, <2>2 DEF RunWell, RunThrows, CountsAgree, poolvars
<1>7. ASSUME NEW w \in Workers, Report(w) PROVE CountInv'
  <2>1. TypeOK'
    BY <1>7 DEF Report, TypeOK, WorkerPC, callvars, history
  <2>2. Awake' = Awake
    BY <1>0, <1>7, <2>1, AwakeStays DEF Report, AwakePC, TypeOK
  <2>. QED BY <1>0, <1>7, <2>1, <2>2 DEF Report, CountsAgree
<1>8. ASSUME NEW w \in Workers, Exit(w) PROVE CountInv'
  <2>1. Cardinality(Awake') = Cardinality(Awake) - 1 /\ Cardinality(Awake) > 0
    BY <1>0, <1>8, AwakeShrinks DEF Exit, AwakePC
  <2>2. TypeOK'
    BY <1>0, <1>8, <2>1, AwakeCounts DEF Exit, TypeOK, WorkerPC, callvars, history
  <2>. QED BY <1>0, <1>8, <2>1, <2>2 DEF Exit, CountsAgree
<1>9. ASSUME NEW w \in Workers, SpuriousWorker(w) \/ Spawn(w) PROVE CountInv'
  <2>1. TypeOK'
    BY <1>9 DEF SpuriousWorker, Spawn, TypeOK, WorkerPC, CallerPC, poolvars, callvars, history
  <2>2. Awake' = Awake
    BY <1>0, <1>9, <2>1, AwakeStays DEF SpuriousWorker, Spawn, AwakePC, TypeOK
  <2>. QED BY <1>0, <1>9, <2>1, <2>2 DEF SpuriousWorker, Spawn, CountsAgree, poolvars
<1>10. ASSUME NEW j \in Jobs, Queue(j), func' \in Jobs \cup {None}, raised' \in Jobs \cup {None},
              batch' \in SUBSET Jobs
       PROVE CountInv'
  <2>1. TypeOK'
    BY <1>10 DEF Queue, TypeOK, WakeWorkers, WorkerPC, CallerPC, JobStatus
  <2>2. Awake' = Awake
    BY <1>0, <1>10, <2>1, AwakeStays DEF Queue, WakeWorkers, AwakePC, TypeOK
  <2>. QED BY <1>0, <1>10, <2>1, <2>2 DEF Queue, CountsAgree, TypeOK
<1>11. ASSUME NEW j \in Jobs, AddQueues(j) PROVE CountInv'
  BY <1>10, <1>11 DEF AddQueues, AddCalled, OpenBatch, TypeOK
<1>12. ASSUME AddResumes PROVE CountInv'
  BY <1>10, <1>12 DEF AddResumes, AddHasJob, TypeOK
<1>13. ASSUME NEW j \in Jobs, AddDrops(j) \/ AddSleeps(j) PROVE CountInv'
  <2>1. TypeOK'
    BY <1>13 DEF AddDrops, AddSleeps, AddCalled, OpenBatch, TypeOK, CallerPC, JobStatus, poolvars, workvars
  <2>. QED BY <1>0, <1>13, <2>1 DEF AddDrops, AddSleeps, CountsAgree, Awake, poolvars, workvars
<1>14. ASSUME RequestJoin PROVE CountInv'
  <2>1. TypeOK'
    BY <1>14 DEF RequestJoin, OpenBatch, WakeWorkers, TypeOK, WorkerPC, CallerPC
  <2>2. Awake' = Awake
    BY <1>0, <1>14, <2>1, AwakeStays DEF RequestJoin, WakeWorkers, AwakePC, TypeOK
  <2>. QED BY <1>0, <1>14, <2>1, <2>2 DEF RequestJoin, CountsAgree
<1>15. ASSUME AddSleepsAgain \/ WaitSleeps \/ WaitReturns \/ JoinReturns \/ Destroyed \/ SpuriousCaller
       PROVE CountInv'
  <2>1. TypeOK'
    BY <1>15 DEF AddSleepsAgain, WaitSleeps, WaitReturns, JoinReturns, Destroyed, SpuriousCaller,
                 throw_if_error, OpenBatch, TypeOK, CallerPC, poolvars, workvars, history
  <2>. QED BY <1>0, <1>15, <2>1 DEF AddSleepsAgain, WaitSleeps, WaitReturns, JoinReturns, Destroyed,
                 SpuriousCaller, CountsAgree, Awake, poolvars, workvars
<1>16. ASSUME UNCHANGED vars PROVE CountInv'
  BY <1>16 DEF vars, poolvars, workvars, callvars, history, TypeOK, CountsAgree, Awake
<1>. QED BY <1>1, <1>2, <1>3, <1>4, <1>5, <1>6, <1>7, <1>8, <1>9, <1>11, <1>12, <1>13, <1>14, <1>15,
            <1>16 DEF Next, work, SpawnFails, JoinCalled

(* The counts always agree. *)
LEMMA CountInvariant == Spec => [](CountInv /\ AddHasJob)
<1>1. Init => AddHasJob
  BY DEF Init, AddHasJob
<1>. QED BY <1>1, CountInit, CountNext, AddHasJobNext, PTL DEF Spec

(* Every variable keeps its type: in particular worker_count and pending_size *)
(* never wrap below zero, however the threads interleave.                      *)
THEOREM TypeCorrect == Spec => []TypeOK
BY CountInvariant, PTL DEF CountInv

(* The counters that work(), add() and wait() keep by hand are exact, and the *)
(* pending list never exceeds max_jobs.                                        *)
THEOREM CountsCorrect == Spec => []CountsAgree
BY CountInvariant, PTL DEF CountInv

-----------------------------------------------------------------------------
(* Where the threads can be in each phase of the pool's life. *)

Closing == {"joining", "joined", "destroyed"}

Control ==
    /\ join_requested <=> cpc \in Closing
    /\ cpc = "ctor" => pending = <<>>
    /\ \A w \in Workers : wpc[w] = "unborn" => cpc \in {"ctor"} \cup Closing /\ pending = <<>>
    /\ \A w \in Workers : wpc[w] \in {"exit", "gone"} => join_requested /\ pending = <<>>
    /\ cpc = "returned" => pending = <<>> /\ \A w \in Workers : wpc[w] \notin {"run", "report"}
    /\ cpc \in {"joined", "destroyed"} =>
          pending = <<>> /\ \A w \in Workers : wpc[w] \in {"unborn", "gone"}

(* Every step keeps the threads at positions that agree with the flags. *)
LEMMA ControlNext == CountInv /\ AddHasJob /\ Control /\ [Next]_vars => Control'
<1>. SUFFICES ASSUME CountInv, AddHasJob, Control, [Next]_vars PROVE Control'
  OBVIOUS
<1>0. /\ wpc \in [Workers -> WorkerPC]
      /\ worker_count = Cardinality(Awake)
  BY DEF CountInv, TypeOK, CountsAgree
<1>. USE DEF Control, Closing, Goto
<1>1. ASSUME NEW w \in Workers, Start(w) \/ Leave(w) \/ Exit(w) \/ SpuriousWorker(w) PROVE Control'
  BY <1>0, <1>1 DEF Start, Leave, Exit, SpuriousWorker, AtLoop, callvars, poolvars
<1>2. ASSUME NEW w \in Workers, Idle(w) PROVE Control'
  BY <1>0, <1>2 DEF Idle, AtLoop, WakeWait
<1>3. ASSUME NEW w \in Workers, Clear(w) PROVE Control'
  BY <1>0, <1>3 DEF Clear, AtLoop, callvars
<1>4. ASSUME NEW w \in Workers, Take(w) PROVE Control'
  BY <1>0, <1>4 DEF Take, AtLoop, WakeAdd
<1>5. ASSUME NEW w \in Workers, RunWell(w) \/ RunThrows(w) \/ Report(w) PROVE Control'
  BY <1>0, <1>5 DEF RunWell, RunThrows, Report, callvars, poolvars
<1>6. ASSUME NEW w \in Workers, Spawn(w) PROVE Control'
  BY <1>0, <1>6 DEF Spawn, poolvars
<1>7. ASSUME NEW j \in Jobs, AddDrops(j) \/ AddSleeps(j) PROVE Control'
  BY <1>0, <1>7 DEF AddDrops, AddSleeps, AddCalled, Between, poolvars, workvars
<1>8. ASSUME NEW j \in Jobs, Queue(j), Between \/ cpc = "add_woken" PROVE Control'
  BY <1>0, <1>8 DEF Queue, WakeWorkers, Between
<1>9. ASSUME NEW j \in Jobs, AddQueues(j) PROVE Control'
  BY <1>8, <1>9 DEF AddQueues, AddCalled
<1>10. ASSUME AddResumes PROVE Control'
  BY <1>8, <1>10 DEF AddResumes, AddHasJob
<1>11. ASSUME SpawnFails \/ JoinCalled PROVE Control'
  BY <1>0, <1>11 DEF SpawnFails, JoinCalled, RequestJoin, WakeWorkers, Between
<1>12. ASSUME WaitReturns PROVE Control'
  <2>1. \A w \in Workers : wpc[w] \notin AwakePC
    BY <1>0, <1>12, AwakeCounts DEF WaitReturns, Busy
  <2>. QED BY <1>0, <1>12, <2>1 DEF WaitReturns, Busy, Between, AwakePC, throw_if_error, workvars
<1>13. ASSUME JoinReturns \/ Destroyed PROVE Control'
  BY <1>0, <1>13, PoolAssumption DEF JoinReturns, Destroyed, Joined, throw_if_error, workvars, poolvars
<1>14. ASSUME AddSleepsAgain \/ WaitSleeps \/ SpuriousCaller PROVE Control'
  BY <1>0, <1>14 DEF AddSleepsAgain, WaitSleeps, SpuriousCaller, Between, poolvars, workvars
<1>15. ASSUME UNCHANGED vars PROVE Control'
  BY <1>15 DEF vars, poolvars, workvars, callvars
<1>. QED BY <1>1, <1>2, <1>3, <1>4, <1>5, <1>6, <1>7, <1>9, <1>10, <1>11, <1>12, <1>13, <1>14, <1>15
         DEF Next, work

-----------------------------------------------------------------------------
(* No lost wakeup. *)

(* No step puts a thread to sleep on a condition that holds, or makes it hold without a notification. *)
LEMMA WakeupNext == CountInv /\ Control /\ NoLostWakeup /\ [Next]_vars => NoLostWakeup'
<1>. SUFFICES ASSUME CountInv, Control, NoLostWakeup, [Next]_vars PROVE NoLostWakeup'
  OBVIOUS
<1>0. /\ wpc \in [Workers -> WorkerPC]
      /\ worker_count = Cardinality(Awake)
      /\ worker_count \in Nat
  BY DEF CountInv, TypeOK, CountsAgree
<1>. USE DEF NoLostWakeup, Busy, Goto
(* A worker that goes on without sleeping keeps wait() busy. *)
<1>1. ASSUME NEW w \in Workers, AtLoop(w), worker_count' = CountAtLoop(w) PROVE worker_count' > 0
  BY <1>0, <1>1, AwakeCounts DEF AtLoop, CountAtLoop, AwakePC
<1>2. ASSUME NEW w \in Workers, Start(w) \/ SpuriousWorker(w) \/ RunWell(w) \/ RunThrows(w) \/ Report(w)
      PROVE NoLostWakeup'
  BY <1>0, <1>2 DEF Start, SpuriousWorker, RunWell, RunThrows, Report, callvars, poolvars
<1>3. ASSUME NEW w \in Workers, Idle(w) PROVE NoLostWakeup'
  <2>1. worker_count' \in Nat
    BY <1>0, <1>3, AwakeCounts DEF Idle, AtLoop, CountAtLoop, AwakePC
  <2>2. cpc' = "wait_asleep" => worker_count' > 0
    <3>1. cpc' = IF worker_count' = 0 THEN WakeWait ELSE cpc
      BY <1>3 DEF Idle
    <3>2. WakeWait # "wait_asleep"
      BY DEF WakeWait
    <3>. QED BY <2>1, <3>1, <3>2
  <2>3. pending' = <<>> /\ ~join_requested'
    BY <1>3 DEF Idle
  <2>. QED BY <2>2, <2>3
<1>4. ASSUME NEW w \in Workers, Leave(w) \/ Clear(w) PROVE NoLostWakeup'
  BY <1>0, <1>1, <1>4 DEF Leave, Clear, callvars
<1>5. ASSUME NEW w \in Workers, Take(w) PROVE NoLostWakeup'
  BY <1>0, <1>1, <1>5 DEF Take, WakeAdd
<1>6. ASSUME NEW w \in Workers, Exit(w) PROVE NoLostWakeup'
  BY <1>0, <1>6 DEF Exit, Control, Closing, callvars
<1>7. ASSUME NEW w \in Workers, Spawn(w) PROVE NoLostWakeup'
  BY <1>0, <1>7 DEF Spawn, poolvars
<1>8. ASSUME NEW j \in Jobs, AddDrops(j) \/ AddSleeps(j) \/ AddQueues(j) PROVE NoLostWakeup'
  BY <1>0, <1>8 DEF AddDrops, AddSleeps, AddQueues, Queue, WakeWorkers, poolvars, workvars
<1>9. ASSUME AddResumes \/ SpawnFails \/ JoinCalled PROVE NoLostWakeup'
  BY <1>0, <1>9 DEF AddResumes, Queue, SpawnFails, JoinCalled, RequestJoin, WakeWorkers
<1>10. ASSUME AddSleepsAgain \/ WaitSleeps \/ WaitReturns \/ JoinReturns \/ Destroyed \/ SpuriousCaller
       PROVE NoLostWakeup'
  BY <1>0, <1>10 DEF AddSleepsAgain, WaitSleeps, WaitReturns, JoinReturns, Destroyed, SpuriousCaller,
                     poolvars, workvars
<1>11. ASSUME UNCHANGED vars PROVE NoLostWakeup'
  BY <1>11 DEF vars, poolvars, workvars, callvars
<1>. QED BY <1>2, <1>3, <1>4, <1>5, <1>6, <1>7, <1>8, <1>9, <1>10, <1>11 DEF Next, work

(* No wakeup is ever lost. *)
LEMMA WakeupInvariant == Spec => [](CountInv /\ AddHasJob /\ Control /\ NoLostWakeup)
<1>1. Init => Control /\ NoLostWakeup
  BY DEF Init, Control, Closing, NoLostWakeup
<1>. QED BY <1>1, CountInvariant, ControlNext, WakeupNext, PTL DEF Spec

(* However add(), wait(), join() and the workers interleave, and with spurious *)
(* wakeups, no worker sleeps on work and wait() never sleeps on an idle pool.   *)
THEOREM WakeupsCorrect == Spec => []NoLostWakeup
BY WakeupInvariant, PTL

-----------------------------------------------------------------------------
(* Where each job is: a job is pending exactly when it is in the list, once, *)
(* and running exactly when one worker holds it.                             *)

ListedOnce == \A i, k \in 1..Len(pending) : pending[i] = pending[k] => i = k
PendingIsListed ==
    \A j \in Jobs : status[j] = "pending" <=> \E i \in 1..Len(pending) : pending[i] = j
HeldIsRunning ==
    \A w \in Workers : wpc[w] = "run" => f[w] \in Jobs /\ status[f[w]] = "running"
RunningIsHeld ==
    \A j \in Jobs : status[j] = "running" => \E w \in Workers : wpc[w] = "run" /\ f[w] = j
HeldByOne ==
    \A v, w \in Workers : wpc[v] = "run" /\ wpc[w] = "run" /\ f[v] = f[w] => v = w
AddIsNew == cpc \in {"add_asleep", "add_woken"} => status[func] = "new"

JobPlaces ==
    ListedOnce /\ PendingIsListed /\ HeldIsRunning /\ RunningIsHeld /\ HeldByOne /\ AddIsNew

(* Every step keeps each job in one place. *)
LEMMA PlacesNext == CountInv /\ AddHasJob /\ JobPlaces /\ [Next]_vars => JobPlaces'
<1>. SUFFICES ASSUME CountInv, AddHasJob, JobPlaces, [Next]_vars PROVE JobPlaces'
  OBVIOUS
<1>0. TypeOK
  BY DEF CountInv
<1>. USE DEF JobPlaces, ListedOnce, PendingIsListed, HeldIsRunning, RunningIsHeld, HeldByOne, AddIsNew, Goto
(* Steps that leave the jobs and the workers that hold them alone. *)
<1>1. ASSUME UNCHANGED <<pending, f, status>>,
             \A w \in Workers : wpc'[w] = "run" <=> wpc[w] = "run",
             cpc' \in {"add_asleep", "add_woken"} => status[func'] = "new"
      PROVE JobPlaces'
  BY <1>1
<1>2. ASSUME NEW w \in Workers, Start(w) \/ Leave(w) \/ Report(w) \/ Exit(w) \/ SpuriousWorker(w)
      PROVE JobPlaces'
  BY <1>0, <1>1, <1>2 DEF Start, Leave, Report, Exit, SpuriousWorker, AtLoop, TypeOK, callvars, history,
                          poolvars
<1>3. ASSUME NEW w \in Workers, Idle(w) \/ Spawn(w) PROVE JobPlaces'
  BY <1>0, <1>1, <1>3 DEF Idle, Spawn, AtLoop, WakeWait, TypeOK, history, poolvars
<1>4. ASSUME NEW w \in Workers, Clear(w) PROVE JobPlaces'
  <2>1. \A v \in Workers : wpc'[v] = "run" <=> wpc[v] = "run"
    BY <1>0, <1>4 DEF Clear, AtLoop, TypeOK
  <2>2. pending' = <<>> /\ f' = f /\ cpc' = cpc /\ func' = func
    BY <1>4 DEF Clear, callvars
  <2>3. \A j \in Jobs : status'[j] = IF status[j] = "pending" THEN "cancelled" ELSE status[j]
    BY <1>4 DEF Clear
  <2>4. AddIsNew'
    BY <2>2, <2>3 DEF AddHasJob
  <2>. QED BY <2>1, <2>2, <2>3, <2>4
<1>5. ASSUME NEW w \in Workers, Take(w) PROVE JobPlaces'
  <2>. DEFINE h == Head(pending)
  <2>0. pending \in Seq(Jobs) /\ pending # <<>>
    BY <1>0, <1>5 DEF Take, TypeOK
  <2>1. /\ h \in Jobs /\ h = pending[1] /\ 1 \in 1..Len(pending)
        /\ Len(pending') = Len(pending) - 1 /\ Len(pending) \in Nat
        /\ \A i \in 1..Len(pending') : pending'[i] = pending[i + 1]
    BY <1>5, <2>0 DEF Take
  <2>2. status[h] = "pending"
    BY <2>1
  <2>3. \A j \in Jobs : status'[j] = IF j = h THEN "running" ELSE status[j]
    BY <1>0, <1>5 DEF Take, TypeOK
  <2>4. /\ \A v \in Workers : wpc'[v] = IF v = w THEN "run" ELSE wpc[v]
        /\ \A v \in Workers : f'[v] = IF v = w THEN h ELSE f[v]
    <3>1. wpc' = [wpc EXCEPT ![w] = "run"] /\ f' = [f EXCEPT ![w] = h]
      BY <1>5 DEF Take
    <3>2. wpc \in [Workers -> WorkerPC] /\ f \in [Workers -> Jobs \cup {None}]
      BY <1>0 DEF TypeOK
    <3>. HIDE DEF h
    <3>. QED BY <3>1, <3>2
  <2>. HIDE DEF h
  <2>5. ListedOnce'
    BY <2>1
  <2>6. PendingIsListed'
    <3>1. ASSUME NEW i \in 1..Len(pending') PROVE pending'[i] # h /\ status[pending'[i]] = "pending"
      <4>1. i + 1 \in 1..Len(pending) /\ i + 1 # 1 /\ pending'[i] = pending[i + 1]
        BY <2>1
      <4>2. pending[i + 1] \in Jobs
        BY <2>0, <4>1
      <4>. QED BY <2>1, <4>1, <4>2
    <3>2. ASSUME NEW j \in Jobs, status[j] = "pending", j # h PROVE \E i \in 1..Len(pending') : pending'[i] = j
      <4>1. PICK i \in 1..Len(pending) : pending[i] = j
        BY <3>2
      <4>2. i - 1 \in 1..Len(pending') /\ (i - 1) + 1 = i
        BY <2>1, <3>2, <4>1
      <4>3. pending'[i - 1] = pending[i]
        BY <2>1, <4>2
      <4>. QED BY <4>1, <4>2, <4>3
    <3>. QED BY <2>3, <3>1, <3>2
  <2>7. HeldIsRunning'
    BY <2>1, <2>2, <2>3, <2>4
  <2>8. RunningIsHeld'
    <3>1. wpc[w] # "run"
      BY <1>5 DEF Take, AtLoop
    <3>. QED BY <2>3, <2>4, <3>1
  <2>9. HeldByOne'
    BY <2>2, <2>4
  <2>10. AddIsNew'
    <3>1. cpc' \in {"add_asleep", "add_woken"} => cpc \in {"add_asleep", "add_woken"}
      BY <1>5 DEF Take, WakeAdd
    <3>. QED BY <1>5, <2>2, <2>3, <3>1 DEF AddHasJob, Take
  <2>. QED BY <2>5, <2>6, <2>7, <2>8, <2>9, <2>10
<1>6. ASSUME NEW w \in Workers, RunWell(w) \/ RunThrows(w) PROVE JobPlaces'
  <2>1. \E s \in {"ok", "threw"} : \A j \in Jobs : status'[j] = IF j = f[w] THEN s ELSE status[j]
    BY <1>0, <1>6 DEF RunWell, RunThrows, TypeOK
  <2>2. \A v \in Workers : wpc'[v] = IF v = w THEN "report" ELSE wpc[v]
    BY <1>0, <1>6 DEF RunWell, RunThrows, TypeOK
  <2>3. wpc[w] = "run" /\ f' = f /\ pending' = pending /\ cpc' = cpc /\ func' = func
    BY <1>6 DEF RunWell, RunThrows, poolvars, callvars
  <2>4. f[w] \in Jobs /\ status[f[w]] = "running"
    BY <2>3
  <2>5. PendingIsListed' /\ ListedOnce'
    BY <2>1, <2>3, <2>4
  <2>6. HeldIsRunning' /\ HeldByOne'
    BY <2>1, <2>2, <2>3, <2>4
  <2>7. RunningIsHeld'
    BY <2>1, <2>2, <2>3
  <2>8. AddIsNew'
    BY <2>1, <2>3, <2>4 DEF AddHasJob
  <2>. QED BY <2>5, <2>6, <2>7, <2>8
<1>7. ASSUME NEW j \in Jobs, AddDrops(j) PROVE JobPlaces'
  <2>1. \A k \in Jobs : status'[k] = IF k = j THEN "cancelled" ELSE status[k]
    BY <1>0, <1>7 DEF AddDrops, TypeOK
  <2>2. status[j] = "new" /\ cpc' = "ready" /\ UNCHANGED <<pending, wpc, f>>
    BY <1>7 DEF AddDrops, AddCalled, poolvars, workvars
  <2>. QED BY <2>1, <2>2
<1>8. ASSUME NEW j \in Jobs, AddSleeps(j) PROVE JobPlaces'
  BY <1>1, <1>8 DEF AddSleeps, AddCalled, poolvars, workvars
<1>9. ASSUME NEW j \in Jobs, Queue(j), status[j] = "new" PROVE JobPlaces'
  <2>1. \A k \in Jobs : status'[k] = IF k = j THEN "pending" ELSE status[k]
    BY <1>0, <1>9 DEF Queue, TypeOK
  <2>2. cpc' = "ready" /\ f' = f /\ \A w \in Workers : wpc'[w] = "run" <=> wpc[w] = "run"
    BY <1>9 DEF Queue, WakeWorkers
  <2>3. pending \in Seq(Jobs) /\ pending' = Append(pending, j)
    BY <1>0, <1>9 DEF Queue, TypeOK
  <2>4. /\ Len(pending') = Len(pending) + 1 /\ Len(pending) \in Nat
        /\ \A i \in 1..Len(pending) : pending'[i] = pending[i] /\ pending[i] \in Jobs
        /\ pending'[Len(pending) + 1] = j
    BY <2>3
  <2>5. \A i \in 1..Len(pending) : pending[i] # j
    BY <1>9
  <2>6. ListedOnce'
    BY <2>4, <2>5
  <2>7. PendingIsListed'
    BY <2>1, <2>4, <2>5
  <2>8. HeldIsRunning' /\ HeldByOne' /\ RunningIsHeld' /\ AddIsNew'
    BY <1>9, <2>1, <2>2
  <2>. QED BY <2>6, <2>7, <2>8
<1>10. ASSUME NEW j \in Jobs, AddQueues(j) PROVE JobPlaces'
  BY <1>9, <1>10 DEF AddQueues, AddCalled
<1>11. ASSUME AddResumes PROVE JobPlaces'
  BY <1>9, <1>11 DEF AddResumes, AddHasJob
<1>12. ASSUME SpawnFails \/ JoinCalled PROVE JobPlaces'
  BY <1>0, <1>1, <1>12 DEF SpawnFails, JoinCalled, RequestJoin, WakeWorkers
<1>13. ASSUME AddSleepsAgain \/ WaitSleeps \/ WaitReturns \/ JoinReturns \/ Destroyed \/ SpuriousCaller
       PROVE JobPlaces'
  BY <1>1, <1>13 DEF AddSleepsAgain, WaitSleeps, WaitReturns, JoinReturns, Destroyed, SpuriousCaller,
                     poolvars, workvars, history
<1>14. ASSUME UNCHANGED vars PROVE JobPlaces'
  BY <1>1, <1>14 DEF vars, poolvars, workvars, callvars, history
<1>. QED BY <1>2, <1>3, <1>4, <1>5, <1>6, <1>7, <1>8, <1>10, <1>11, <1>12, <1>13, <1>14 DEF Next, work

(* Each job is always in one place. *)
LEMMA PlacesInvariant == Spec => [](CountInv /\ AddHasJob /\ Control /\ JobPlaces)
<1>1. Init => JobPlaces
  BY DEF Init, JobPlaces, ListedOnce, PendingIsListed, HeldIsRunning, RunningIsHeld, HeldByOne, AddIsNew
<1>. QED BY <1>1, WakeupInvariant, PlacesNext, PTL DEF Spec

(* When wait() or join() is back the work is really over: no job is pending   *)
(* or running and no worker has an exception it has not handed over.          *)
THEOREM BarrierCorrect == Spec => []WaitIsBarrier
<1>1. Control /\ JobPlaces => WaitIsBarrier
  BY DEF Control, JobPlaces, PendingIsListed, RunningIsHeld, WaitIsBarrier
<1>. QED BY <1>1, PlacesInvariant, PTL

-----------------------------------------------------------------------------
(* No job is lost without an exception. *)

Returned == {"returned", "joined", "destroyed"}

(* While a call is open, a job of the batch that did not end well has left an *)
(* exception behind; only a job that add() still holds has not been judged.   *)
LossIsKept ==
    cpc \notin Returned => \A j \in batch : status[j] \in {"threw", "cancelled"} => Failed
NewIsInAdd ==
    \A j \in batch : status[j] = "new" => cpc \in {"add_asleep", "add_woken"} /\ func = j

ErrorKept == LossIsKept /\ NewIsInAdd /\ NormalReturnMeansAllRan

(* The error stays until it is rethrown. *)
LEMMA ErrorNext ==
    CountInv /\ AddHasJob /\ Control /\ JobPlaces /\ ErrorKept /\ [Next]_vars => ErrorKept'
<1>. SUFFICES ASSUME CountInv, AddHasJob, Control, JobPlaces, ErrorKept, [Next]_vars PROVE ErrorKept'
  OBVIOUS
<1>0. TypeOK /\ worker_count = Cardinality(Awake)
  BY DEF CountInv, CountsAgree
<1>. USE DEF ErrorKept, LossIsKept, NewIsInAdd, NormalReturnMeansAllRan, Returned, Goto
(* Steps that change no job of the batch and let no exception go. *)
<1>1. ASSUME UNCHANGED <<status, batch, func, raised>>, Failed => Failed',
             cpc' = cpc \/ (cpc' \notin Returned /\ cpc \notin Returned),
             cpc \in {"add_asleep", "add_woken"} => cpc' \in {"add_asleep", "add_woken"}
      PROVE ErrorKept'
  BY <1>1
<1>2. ASSUME NEW w \in Workers, Start(w) \/ Leave(w) \/ Exit(w) \/ SpuriousWorker(w) PROVE ErrorKept'
  <2>1. Failed => Failed'
    BY <1>0, <1>2 DEF Start, Leave, Exit, SpuriousWorker, AtLoop, Failed, TypeOK, poolvars
  <2>. QED BY <1>1, <1>2, <2>1 DEF Start, Leave, Exit, SpuriousWorker, callvars, history
<1>3. ASSUME NEW w \in Workers, Idle(w) \/ Spawn(w) PROVE ErrorKept'
  <2>1. Failed => Failed'
    BY <1>0, <1>3 DEF Idle, Spawn, AtLoop, Failed, TypeOK, poolvars
  <2>. QED BY <1>1, <1>3, <2>1 DEF Idle, Spawn, WakeWait, history
<1>4. ASSUME NEW w \in Workers, Clear(w) PROVE ErrorKept'
  <2>1. Failed' /\ pending # <<>>
    BY <1>4 DEF Clear, Failed
  <2>2. UNCHANGED <<cpc, func, raised, batch>>
    BY <1>4 DEF Clear, callvars
  <2>3. cpc \notin Returned
    BY <2>1 DEF Control
  <2>4. \A j \in Jobs : status'[j] = "new" => status[j] = "new"
    BY <1>4 DEF Clear
  <2>. QED BY <1>0, <2>1, <2>2, <2>3, <2>4 DEF TypeOK
<1>5. ASSUME NEW w \in Workers, Take(w) PROVE ErrorKept'
  <2>1. pending \in Seq(Jobs) /\ pending # <<>>
    BY <1>0, <1>5 DEF Take, TypeOK
  <2>2. \A j \in Jobs : status'[j] = status[j] \/ status'[j] = "running"
    BY <1>0, <1>5 DEF Take, TypeOK
  <2>3. Failed => Failed'
    BY <1>0, <1>5 DEF Take, AtLoop, Failed, TypeOK
  <2>4. cpc \notin Returned /\ cpc' \notin Returned
    BY <1>5, <2>1 DEF Control, Take, WakeAdd
  <2>5. cpc \in {"add_asleep", "add_woken"} => cpc' \in {"add_asleep", "add_woken"}
    BY <1>5 DEF Take, WakeAdd
  <2>6. UNCHANGED <<batch, func>>
    BY <1>5 DEF Take
  <2>. QED BY <1>0, <2>2, <2>3, <2>4, <2>5, <2>6 DEF TypeOK
<1>6. ASSUME NEW w \in Workers, RunWell(w) \/ RunThrows(w) PROVE ErrorKept'
  <2>1. wpc[w] = "run" /\ f[w] \in Jobs /\ UNCHANGED <<err, cpc, func, batch>>
    BY <1>6 DEF RunWell, RunThrows, JobPlaces, HeldIsRunning, poolvars, callvars
  <2>2. cpc \notin Returned
    BY <2>1 DEF Control
  <2>3. wpc' = [wpc EXCEPT ![w] = "report"]
    BY <1>6 DEF RunWell, RunThrows
  <2>4. Failed => Failed'
    BY <1>0, <1>6, <2>1, <2>3 DEF RunWell, RunThrows, Failed, TypeOK
  <2>5. CASE RunWell(w)
    <3>1. \A j \in Jobs : status'[j] = status[j] \/ status'[j] = "ok"
      BY <1>0, <2>5 DEF RunWell, TypeOK
    <3>. QED BY <1>0, <2>1, <2>2, <2>4, <3>1 DEF TypeOK
  <2>6. CASE RunThrows(w)
    <3>1. \A j \in Jobs : status'[j] = status[j] \/ status'[j] = "threw"
      BY <1>0, <2>6 DEF RunThrows, TypeOK
    <3>2. e'[w] = f[w] /\ wpc'[w] = "report"
      BY <1>0, <2>3, <2>6 DEF RunThrows, TypeOK
    <3>3. Failed'
      BY <2>1, <3>2, PoolAssumption DEF Failed
    <3>. QED BY <1>0, <2>1, <2>2, <3>1, <3>3 DEF TypeOK
  <2>. QED BY <1>6, <2>5, <2>6
<1>7. ASSUME NEW w \in Workers, Report(w) PROVE ErrorKept'
  <2>1. Failed => Failed'
    BY <1>0, <1>7 DEF Report, Failed, TypeOK
  <2>. QED BY <1>1, <1>7, <2>1 DEF Report, callvars, history
<1>9. ASSUME NEW j \in Jobs, AddDrops(j) PROVE ErrorKept'
  <2>1. Failed' /\ cpc' = "ready"
    BY <1>9 DEF AddDrops, Failed, poolvars
  <2>2. \A k \in batch' : status'[k] # "new"
    BY <1>0, <1>9 DEF AddDrops, AddCalled, OpenBatch, Between, TypeOK
  <2>. QED BY <2>1, <2>2
<1>10. ASSUME NEW j \in Jobs, AddSleeps(j) PROVE ErrorKept'
  <2>1. Failed => Failed'
    BY <1>10 DEF AddSleeps, Failed, poolvars, workvars
  <2>2. status' = status /\ status[j] = "new" /\ cpc' = "add_asleep" /\ func' = j
    BY <1>10 DEF AddSleeps, AddCalled
  <2>3. \A k \in batch' : k = j \/ (k \in batch /\ cpc = "ready")
    <3>1. batch' = OpenBatch \cup {j} /\ cpc \in {"ready", "returned"}
      BY <1>10 DEF AddSleeps, AddCalled, Between
    <3>. QED BY <3>1 DEF OpenBatch
  <2>. QED BY <2>1, <2>2, <2>3
<1>11. ASSUME NEW j \in Jobs, Queue(j), Failed => Failed',
              \A k \in batch' : k = j \/ (k \in batch /\ status[k] # "new" /\ cpc \notin Returned)
       PROVE ErrorKept'
  <2>1. \A k \in Jobs : status'[k] = IF k = j THEN "pending" ELSE status[k]
    BY <1>0, <1>11 DEF Queue, TypeOK
  <2>2. cpc' = "ready"
    BY <1>11 DEF Queue
  <2>. QED BY <1>0, <1>11, <2>1, <2>2 DEF TypeOK
<1>12. ASSUME NEW j \in Jobs, Queue(j) PROVE Failed => Failed'
  BY <1>0, <1>12 DEF Queue, WakeWorkers, Failed, TypeOK
<1>13. ASSUME NEW j \in Jobs, AddQueues(j) PROVE ErrorKept'
  <2>1. \A k \in batch' : k = j \/ (k \in batch /\ status[k] # "new" /\ cpc \notin Returned)
    <3>1. batch' = OpenBatch \cup {j} /\ cpc \in {"ready", "returned"}
      BY <1>13 DEF AddQueues, AddCalled, Between
    <3>2. \A k \in OpenBatch : k \in batch /\ cpc = "ready"
      BY <3>1 DEF OpenBatch
    <3>. QED BY <3>1, <3>2
  <2>. QED BY <1>11, <1>12, <1>13, <2>1 DEF AddQueues
<1>14. ASSUME AddResumes PROVE ErrorKept'
  <2>1. \A k \in batch' : k = func \/ (k \in batch /\ status[k] # "new" /\ cpc \notin Returned)
    <3>1. batch' = batch /\ cpc = "add_woken"
      BY <1>14 DEF AddResumes
    <3>. QED BY <3>1
  <2>. QED BY <1>11, <1>12, <1>14, <2>1 DEF AddResumes, AddHasJob
<1>15. ASSUME WaitSleeps \/ SpawnFails \/ JoinCalled PROVE ErrorKept'
  <2>1. Failed => Failed'
    BY <1>0, <1>15 DEF WaitSleeps, SpawnFails, JoinCalled, RequestJoin, WakeWorkers, Failed, TypeOK, poolvars,
                       workvars
  <2>2. status' = status /\ cpc' \notin Returned
    BY <1>15 DEF WaitSleeps, SpawnFails, JoinCalled, RequestJoin
  <2>3. \A k \in batch' : k \in batch /\ cpc \notin Returned /\ status[k] # "new"
    BY <1>15 DEF WaitSleeps, SpawnFails, JoinCalled, RequestJoin, OpenBatch, Between
  <2>. QED BY <2>1, <2>2, <2>3
<1>16. ASSUME WaitReturns PROVE ErrorKept'
  <2>1. \A w \in Workers : wpc[w] \notin AwakePC
    BY <1>0, <1>16, AwakeCounts DEF WaitReturns, Busy
  <2>2. \A j \in Jobs : status[j] \notin {"pending", "running"}
    BY <1>16, <2>1 DEF WaitReturns, Busy, AwakePC, JobPlaces, PendingIsListed, RunningIsHeld
  <2>3. raised' = None => ~Failed
    BY <1>16, <2>1 DEF WaitReturns, throw_if_error, Failed, AwakePC
  <2>4. \A k \in batch' : k \in batch /\ cpc \notin Returned /\ status[k] # "new"
    BY <1>16 DEF WaitReturns, OpenBatch, Between
  <2>5. cpc' = "returned" /\ status' = status
    BY <1>16 DEF WaitReturns
  <2>. QED BY <1>0, <2>2, <2>3, <2>4, <2>5 DEF TypeOK, JobStatus
<1>17. ASSUME JoinReturns PROVE ErrorKept'
  <2>1. \A w \in Workers : wpc[w] = "gone"
    BY <1>17 DEF JoinReturns
  <2>2. pending = <<>>
    BY <2>1, PoolAssumption DEF Control
  <2>3. \A j \in Jobs : status[j] \notin {"pending", "running"}
    BY <2>1, <2>2 DEF JobPlaces, PendingIsListed, RunningIsHeld
  <2>4. raised' = None => ~Failed
    BY <1>17, <2>1 DEF JoinReturns, throw_if_error, Failed
  <2>5. cpc = "joining" /\ cpc' = "joined" /\ status' = status /\ batch' = batch
    BY <1>17 DEF JoinReturns, Joined, history
  <2>. QED BY <1>0, <2>3, <2>4, <2>5 DEF TypeOK, JobStatus
<1>18. ASSUME Destroyed PROVE ErrorKept'
  BY <1>18 DEF Destroyed, Joined, history
<1>19. ASSUME AddSleepsAgain \/ SpuriousCaller PROVE ErrorKept'
  <2>1. Failed => Failed'
    BY <1>19 DEF AddSleepsAgain, SpuriousCaller, Failed, poolvars, workvars
  <2>. QED BY <1>1, <1>19, <2>1 DEF AddSleepsAgain, SpuriousCaller, history
<1>20. ASSUME UNCHANGED vars PROVE ErrorKept'
  BY <1>20 DEF vars, poolvars, workvars, callvars, history, Failed
<1>. QED BY <1>2, <1>3, <1>4, <1>5, <1>6, <1>7, <1>9, <1>10, <1>13, <1>14, <1>15, <1>16, <1>17, <1>18,
            <1>19, <1>20 DEF Next, work

(* wait() and join() that return normally tell the truth: every job submitted *)
(* since the last return ran to its end, none was cancelled or dropped.       *)
THEOREM NormalReturnCorrect == Spec => []NormalReturnMeansAllRan
<1>1. Init => ErrorKept
  BY DEF Init, ErrorKept, LossIsKept, NewIsInAdd, NormalReturnMeansAllRan
<1>2. Spec => []ErrorKept
  BY <1>1, PlacesInvariant, ErrorNext, PTL DEF Spec
<1>. QED BY <1>2, PTL DEF ErrorKept
=============================================================================
