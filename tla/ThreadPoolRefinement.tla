----------------------- MODULE ThreadPoolRefinement -----------------------
(***************************************************************************)
(* Proof that ThreadPool implements JobBatch, for any number of workers    *)
(* and jobs: every critical section is one step of the promise, or none.   *)
(***************************************************************************)
EXTENDS ThreadPoolProofs

(* An exception that is kept or carried was thrown by its job. *)
ErrorsAreThrown ==
    /\ err # None => status[err] = "threw"
    /\ \A w \in Workers : e[w] # None => status[e[w]] = "threw"

(* Only a job that threw makes the pool fail. *)
LEMMA ErrorsAreThrownNext ==
    TypeOK /\ JobPlaces /\ AddHasJob /\ ErrorsAreThrown /\ [Next]_vars => ErrorsAreThrown'
<1>. SUFFICES ASSUME TypeOK, JobPlaces, AddHasJob, ErrorsAreThrown, [Next]_vars PROVE ErrorsAreThrown'
  OBVIOUS
(* A job that threw keeps this status. *)
<1>1. ASSUME \A j \in Jobs : status[j] = "threw" => status'[j] = "threw",
             err' \in {err, None}, e' = e
      PROVE ErrorsAreThrown'
  BY <1>1 DEF ErrorsAreThrown, TypeOK
<1>2. ASSUME NEW w \in Workers, Start(w) \/ Idle(w) \/ Leave(w) \/ Exit(w) \/ SpuriousWorker(w) \/ Spawn(w)
      PROVE ErrorsAreThrown'
  BY <1>1, <1>2 DEF Start, Idle, Leave, Exit, SpuriousWorker, Spawn, history, poolvars
<1>3. ASSUME NEW w \in Workers, Clear(w) PROVE ErrorsAreThrown'
  BY <1>1, <1>3 DEF Clear
<1>4. ASSUME NEW w \in Workers, Take(w) PROVE ErrorsAreThrown'
  <2>1. pending \in Seq(Jobs) /\ pending # <<>>
    BY <1>4 DEF Take, TypeOK
  <2>2. Head(pending) \in Jobs /\ 1 \in 1..Len(pending) /\ pending[1] = Head(pending)
    BY <2>1
  <2>3. status[Head(pending)] = "pending"
    BY <2>2 DEF JobPlaces, PendingIsListed
  <2>4. status' = [status EXCEPT ![Head(pending)] = "running"] /\ UNCHANGED <<err, e>>
    BY <1>4 DEF Take
  <2>. QED BY <1>1, <2>2, <2>3, <2>4 DEF TypeOK
<1>5. ASSUME NEW w \in Workers, RunWell(w) PROVE ErrorsAreThrown'
  <2>1. f[w] \in Jobs /\ status[f[w]] = "running"
    BY <1>5 DEF RunWell, JobPlaces, HeldIsRunning
  <2>. QED BY <1>1, <1>5, <2>1 DEF RunWell, TypeOK, poolvars
<1>6. ASSUME NEW w \in Workers, RunThrows(w) PROVE ErrorsAreThrown'
  <2>1. f[w] \in Jobs
    BY <1>6 DEF RunThrows, JobPlaces, HeldIsRunning
  <2>2. \A j \in Jobs : status'[j] = IF j = f[w] THEN "threw" ELSE status[j]
    BY <1>6 DEF RunThrows, TypeOK
  <2>3. \A v \in Workers : e'[v] = IF v = w THEN f[w] ELSE e[v]
    BY <1>6 DEF RunThrows, TypeOK
  <2>4. err' = err
    BY <1>6 DEF RunThrows, poolvars
  <2>. QED BY <2>1, <2>2, <2>3, <2>4 DEF ErrorsAreThrown, TypeOK
<1>7. ASSUME NEW w \in Workers, Report(w) PROVE ErrorsAreThrown'
  BY <1>7 DEF Report, ErrorsAreThrown, history
<1>8. ASSUME NEW j \in Jobs, AddDrops(j) \/ AddSleeps(j) PROVE ErrorsAreThrown'
  BY <1>1, <1>8 DEF AddDrops, AddSleeps, AddCalled, TypeOK, poolvars, workvars
<1>9. ASSUME NEW j \in Jobs, Queue(j), status[j] = "new" PROVE ErrorsAreThrown'
  BY <1>1, <1>9 DEF Queue, TypeOK
<1>10. ASSUME NEW j \in Jobs, AddQueues(j) PROVE ErrorsAreThrown'
  BY <1>9, <1>10 DEF AddQueues, AddCalled
<1>11. ASSUME AddResumes PROVE ErrorsAreThrown'
  BY <1>9, <1>11 DEF AddResumes, AddHasJob, JobPlaces, AddIsNew
<1>12. ASSUME \/ SpawnFails \/ AddSleepsAgain \/ WaitSleeps \/ WaitReturns
              \/ JoinCalled \/ JoinReturns \/ Destroyed \/ SpuriousCaller
       PROVE ErrorsAreThrown'
  BY <1>1, <1>12 DEF SpawnFails, AddSleepsAgain, WaitSleeps, WaitReturns, JoinCalled, RequestJoin, JoinReturns,
                     Destroyed, SpuriousCaller, throw_if_error, poolvars, workvars, history
<1>13. ASSUME UNCHANGED vars PROVE ErrorsAreThrown'
  BY <1>13 DEF vars, poolvars, workvars, history, ErrorsAreThrown
<1>. QED BY <1>2, <1>3, <1>4, <1>5, <1>6, <1>7, <1>8, <1>10, <1>11, <1>12, <1>13 DEF Next, work

-----------------------------------------------------------------------------
RefInv == TypeOK /\ CountsAgree /\ AddHasJob /\ Control /\ JobPlaces /\ ErrorsAreThrown

(* The invariants the refinement needs. *)
LEMMA RefInvariant == Spec => []RefInv
<1>1. Init => ErrorsAreThrown
  BY DEF Init, ErrorsAreThrown
<1>. QED BY <1>1, PlacesInvariant, ErrorsAreThrownNext, PTL DEF Spec, RefInv, CountInv

(* A step that changes neither the jobs, nor whether an exception waits, nor  *)
(* the phase, is no step of the promise; one that only opens the phase begins *)
(* a call.                                                                    *)
LEMMA StutterOrCall ==
    ASSUME status' = status, Failed' <=> Failed, PhaseBar' = PhaseBar \/ PhaseBar' = "open",
           PhaseBar # "closed"
    PROVE  [Batch!Next]_(Batch!vars)
BY DEF Batch!Next, Batch!Call, Batch!vars, PhaseBar

(* A step that leaves the mapped variables alone is a stuttering step of the batch. *)
LEMMA Stutter ==
    ASSUME status' = status, Failed' <=> Failed, PhaseBar' = PhaseBar
    PROVE  UNCHANGED Batch!vars
BY DEF Batch!vars

(* Every step of the pool is a step of the batch or a stuttering step. *)
LEMMA StepKeepsPromise == RefInv /\ [Next]_vars => [Batch!Next]_(Batch!vars)
<1>. SUFFICES ASSUME RefInv, [Next]_vars PROVE [Batch!Next]_(Batch!vars)
  OBVIOUS
<1>0. TypeOK /\ worker_count = Cardinality(Awake) /\ AddHasJob /\ Control /\ JobPlaces /\ ErrorsAreThrown
  BY DEF RefInv, CountsAgree
<1>. USE DEF Goto
<1>1. ASSUME NEW w \in Workers, Start(w) \/ Idle(w) \/ Leave(w) \/ Exit(w) \/ SpuriousWorker(w) \/ Spawn(w)
      PROVE UNCHANGED Batch!vars
  <2>1. Failed' <=> Failed
    BY <1>0, <1>1 DEF Start, Idle, Leave, Exit, SpuriousWorker, Spawn, AtLoop, Failed, TypeOK, poolvars
  <2>2. PhaseBar' = PhaseBar
    BY <1>1 DEF Start, Idle, Leave, Exit, SpuriousWorker, Spawn, WakeWait, PhaseBar, callvars
  <2>3. status' = status
    BY <1>1 DEF Start, Idle, Leave, Exit, SpuriousWorker, Spawn, history
  <2>. QED BY <2>1, <2>2, <2>3, Stutter
<1>2. ASSUME NEW w \in Workers, Clear(w) PROVE Batch!Cancel
  <2>1. Failed /\ Failed' /\ PhaseBar' = PhaseBar
    BY <1>2 DEF Clear, Failed, PhaseBar, callvars
  <2>2. status' = [j \in Jobs |-> IF status[j] = "pending" THEN "cancelled" ELSE status[j]]
    BY <1>2 DEF Clear
  <2>. QED BY <2>1, <2>2 DEF Batch!Cancel
<1>3. ASSUME NEW w \in Workers, Take(w) PROVE \E j \in Jobs : Batch!Begin(j)
  <2>1. pending \in Seq(Jobs) /\ pending # <<>>
    BY <1>0, <1>3 DEF Take, TypeOK
  <2>2. Head(pending) \in Jobs /\ 1 \in 1..Len(pending) /\ pending[1] = Head(pending)
    BY <2>1
  <2>3. status[Head(pending)] = "pending"
    BY <1>0, <2>2 DEF JobPlaces, PendingIsListed
  <2>4. status' = [status EXCEPT ![Head(pending)] = "running"]
    BY <1>3 DEF Take
  <2>5. Failed' <=> Failed
    BY <1>0, <1>3 DEF Take, AtLoop, Failed, TypeOK
  <2>6. PhaseBar' = PhaseBar
    BY <1>3 DEF Take, WakeAdd, PhaseBar
  <2>. QED BY <2>2, <2>3, <2>4, <2>5, <2>6 DEF Batch!Begin
<1>4. ASSUME NEW w \in Workers, RunWell(w) \/ RunThrows(w) PROVE Batch!End(f[w])
  <2>1. wpc[w] = "run" /\ f[w] \in Jobs /\ status[f[w]] = "running"
    BY <1>0, <1>4 DEF RunWell, RunThrows, JobPlaces, HeldIsRunning
  <2>2. \E s \in {"ok", "threw"} : status' = [status EXCEPT ![f[w]] = s]
    BY <1>4 DEF RunWell, RunThrows
  <2>3. PhaseBar' = PhaseBar
    BY <1>4 DEF RunWell, RunThrows, PhaseBar, callvars
  <2>4. Failed => Failed'
    BY <1>0, <1>4, <2>1 DEF RunWell, RunThrows, Failed, TypeOK, poolvars
  <2>5. status'[f[w]] = "threw" => Failed'
    <3>1. CASE RunWell(w)
      BY <1>0, <2>1, <3>1 DEF RunWell, TypeOK
    <3>2. CASE RunThrows(w)
      <4>1. wpc'[w] = "report" /\ e'[w] = f[w] /\ f[w] # None
        BY <1>0, <2>1, <3>2, PoolAssumption DEF RunThrows, TypeOK
      <4>. QED BY <4>1 DEF Failed
    <3>. QED BY <1>4, <3>1, <3>2
  <2>6. Failed' => \E k \in Jobs : status'[k] = "threw"
    <3>1. ErrorsAreThrown'
      BY <1>0, <1>4, ErrorsAreThrownNext DEF Next, work
    <3>2. err' \in Jobs \cup {None} /\ \A v \in Workers : e'[v] \in Jobs \cup {None}
      BY <1>0, <1>4 DEF RunWell, RunThrows, TypeOK, poolvars
    <3>. QED BY <3>1, <3>2 DEF Failed, ErrorsAreThrown
  <2>7. Failed' \in BOOLEAN
    BY DEF Failed
  <2>. QED BY <2>1, <2>2, <2>3, <2>4, <2>5, <2>6, <2>7 DEF Batch!End
<1>5. ASSUME NEW w \in Workers, Report(w) PROVE UNCHANGED Batch!vars
  <2>1. Failed' <=> Failed
    BY <1>0, <1>5 DEF Report, Failed, TypeOK
  <2>2. PhaseBar' = PhaseBar /\ status' = status
    BY <1>5 DEF Report, PhaseBar, callvars, history
  <2>. QED BY <2>1, <2>2, Stutter
<1>6. ASSUME NEW j \in Jobs, AddDrops(j) PROVE Batch!Submit(j)
  <2>1. Failed /\ (Failed' <=> Failed) /\ status[j] = "new" /\ status' = [status EXCEPT ![j] = "cancelled"]
    BY <1>6 DEF AddDrops, AddCalled, Failed, poolvars, workvars
  <2>2. PhaseBar # "closed" /\ PhaseBar' = "open"
    BY <1>6 DEF AddDrops, AddCalled, Between, PhaseBar
  <2>. QED BY <2>1, <2>2 DEF Batch!Submit
<1>7. ASSUME NEW j \in Jobs, Queue(j), status[j] = "new", Between \/ cpc = "add_woken" PROVE Batch!Submit(j)
  <2>1. Failed' <=> Failed
    BY <1>0, <1>7 DEF Queue, WakeWorkers, Failed, TypeOK
  <2>2. PhaseBar # "closed" /\ PhaseBar' = "open"
    BY <1>7 DEF Queue, Between, PhaseBar
  <2>3. status' = [status EXCEPT ![j] = "pending"]
    BY <1>7 DEF Queue
  <2>. QED BY <1>7, <2>1, <2>2, <2>3 DEF Batch!Submit
<1>8. ASSUME NEW j \in Jobs, AddQueues(j) PROVE Batch!Submit(j)
  BY <1>7, <1>8 DEF AddQueues, AddCalled
<1>9. ASSUME AddResumes PROVE func \in Jobs /\ Batch!Submit(func)
  BY <1>0, <1>7, <1>9 DEF AddResumes, AddHasJob, JobPlaces, AddIsNew
(* A call begins or goes on. *)
<1>10. ASSUME \/ \E j \in Jobs : AddSleeps(j)
              \/ AddSleepsAgain \/ WaitSleeps \/ SpuriousCaller \/ SpawnFails \/ JoinCalled
       PROVE [Batch!Next]_(Batch!vars)
  <2>1. Failed' <=> Failed
    BY <1>0, <1>10 DEF AddSleeps, AddSleepsAgain, WaitSleeps, SpuriousCaller, SpawnFails, JoinCalled,
                       RequestJoin, WakeWorkers, Failed, TypeOK, poolvars, workvars
  <2>2. PhaseBar # "closed" /\ PhaseBar' = "open" /\ status' = status
    BY <1>10 DEF AddSleeps, AddCalled, AddSleepsAgain, WaitSleeps, SpuriousCaller, SpawnFails, JoinCalled,
                 RequestJoin, Between, PhaseBar, history
  <2>. QED BY <2>1, <2>2, StutterOrCall
<1>11. ASSUME \A w \in Workers : wpc[w] \notin {"run", "report"}, pending = <<>>
       PROVE Batch!Quiet /\ (Failed <=> err # None)
  BY <1>0, <1>11 DEF Batch!Quiet, Failed, JobPlaces, PendingIsListed, RunningIsHeld
<1>12. ASSUME WaitReturns PROVE Batch!Return
  <2>1. \A w \in Workers : wpc[w] \notin AwakePC
    BY <1>0, <1>12, AwakeCounts DEF WaitReturns, Busy
  <2>2. Batch!Quiet /\ (Failed <=> err # None)
    BY <1>11, <1>12, <2>1 DEF WaitReturns, Busy, AwakePC
  <2>3. ~Failed'
    BY <1>12, <2>1 DEF WaitReturns, throw_if_error, Failed, AwakePC, workvars
  <2>4. PhaseBar # "closed" /\ PhaseBar' = IF err # None THEN "raised" ELSE "returned"
    BY <1>12 DEF WaitReturns, throw_if_error, PhaseBar, Between
  <2>5. status' = status
    BY <1>12 DEF WaitReturns
  <2>. QED BY <2>2, <2>3, <2>4, <2>5 DEF Batch!Return
<1>13. ASSUME JoinReturns \/ Destroyed PROVE Batch!Close
  <2>1. \A w \in Workers : wpc[w] \in {"unborn", "gone"}
    BY <1>13 DEF JoinReturns, Destroyed, Joined
  <2>2. Batch!Quiet /\ (Failed <=> err # None)
    BY <1>0, <1>11, <2>1, PoolAssumption DEF Control
  <2>3. Failed' <=> err' # None
    BY <1>13, <2>1 DEF JoinReturns, Destroyed, Failed, workvars
  <2>4. err' = None \/ err' = err
    BY <1>13 DEF JoinReturns, Destroyed, throw_if_error, poolvars
  <2>5. PhaseBar # "closed" /\ PhaseBar' = "closed" /\ status' = status
    BY <1>13 DEF JoinReturns, Destroyed, Joined, PhaseBar, history
  <2>6. Failed' \in {Failed, FALSE}
    BY <2>2, <2>3, <2>4 DEF Failed
  <2>. QED BY <2>2, <2>5, <2>6 DEF Batch!Close
<1>14. ASSUME UNCHANGED vars PROVE UNCHANGED Batch!vars
  BY <1>14, Stutter DEF vars, poolvars, workvars, callvars, history, Failed, PhaseBar
<1>. QED BY <1>0, <1>1, <1>2, <1>3, <1>4, <1>5, <1>6, <1>8, <1>9, <1>10, <1>12, <1>13, <1>14
         DEF Next, work, Batch!Next, JobPlaces, HeldIsRunning, RunWell, RunThrows

(* thread_pool implements its promise: whatever the interleaving of workers,  *)
(* notifications and spurious wakeups, a behaviour of the pool is a behaviour *)
(* of JobBatch.                                                               *)
THEOREM PoolKeepsPromise == Spec => KeepsPromise
<1>1. Init => Batch!Init
  BY DEF Init, Batch!Init, Failed, PhaseBar
<1>. QED BY <1>1, RefInvariant, StepKeepsPromise, PTL DEF Spec, KeepsPromise, Batch!Spec
=============================================================================
