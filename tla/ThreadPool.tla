----------------------------- MODULE ThreadPool -----------------------------
(***************************************************************************)
(* sbmt::thread_pool (sbmt_decoder/src/thread_pool.cpp): worker threads    *)
(* around one mutex, three condition variables and a list of pending jobs. *)
(*                                                                         *)
(* One action is one critical section of mtx, or one stretch of code that  *)
(* runs without it.  Sleeping on a condition variable is a value of the    *)
(* program counter; notify_all moves every sleeper to its "woken" value,   *)
(* from which it goes on once it has the mutex again.  A sleeper may also  *)
(* wake for no reason.                                                     *)
(*                                                                         *)
(* One thread calls add, wait and join, as the class comment requires.     *)
(* An exception is identified with the job that threw it.                  *)
(***************************************************************************)
EXTENDS Naturals, Sequences, FiniteSets

CONSTANTS
    Workers,    \* the max_running threads of the pool
    Jobs,       \* the functors handed to add(), each once
    MayThrow,   \* the jobs that may let an exception escape
    max_jobs,   \* bound on the pending list
    None        \* no job, no exception

(* The constructor's argument checks. *)
ASSUME PoolAssumption ==
    /\ IsFiniteSet(Workers)
    /\ Workers # {}
    /\ max_jobs \in Nat \ {0}
    /\ MayThrow \subseteq Jobs
    /\ None \notin Jobs

VARIABLES
    (* members of thread_pool *)
    err,                \* the exception to rethrow, or None
    worker_count,       \* threads that are not asleep
    join_requested,
    pending,            \* jobs not yet taken
    pending_size,       \* its length, kept by hand
    (* the worker threads: position in work(), locals f and e *)
    wpc, f, e,
    (* the controlling thread: position, argument of add(), result of wait() *)
    cpc, func, raised,
    (* history: how far each job has come, jobs submitted since wait() returned *)
    status, batch

poolvars == <<err, worker_count, join_requested, pending, pending_size>>
workvars == <<wpc, f, e>>
callvars == <<cpc, func, raised>>
history == <<status, batch>>
vars == <<poolvars, workvars, callvars, history>>

WorkerPC == {"unborn", "start", "loop", "asleep", "woken", "run", "report", "exit", "gone"}

CallerPC == {"ctor", "ready", "add_asleep", "add_woken", "wait_asleep", "wait_woken",
             "returned", "joining", "joined", "destroyed"}

JobStatus == {"new", "pending", "running", "ok", "threw", "cancelled"}

TypeOK ==
    /\ err \in Jobs \cup {None}
    /\ worker_count \in Nat
    /\ join_requested \in BOOLEAN
    /\ pending \in Seq(Jobs)
    /\ pending_size \in Nat
    /\ wpc \in [Workers -> WorkerPC]
    /\ f \in [Workers -> Jobs \cup {None}]
    /\ e \in [Workers -> Jobs \cup {None}]
    /\ cpc \in CallerPC
    /\ func \in Jobs \cup {None}
    /\ raised \in Jobs \cup {None}
    /\ status \in [Jobs -> JobStatus]
    /\ batch \in SUBSET Jobs

Init ==
    /\ err = None
    /\ worker_count = 0
    /\ join_requested = FALSE
    /\ pending = <<>>
    /\ pending_size = 0
    /\ wpc = [w \in Workers |-> "unborn"]
    /\ f = [w \in Workers |-> None]
    /\ e = [w \in Workers |-> None]
    /\ cpc = "ctor"
    /\ func = None
    /\ raised = None
    /\ status = [j \in Jobs |-> "new"]
    /\ batch = {}
-----------------------------------------------------------------------------
(* The condition variables. *)

(* Mutations: a notification is forgotten. *)
WorkersNotNotified == wpc

CallerNotNotified == cpc

(* pending_or_join_requested.notify_all() *)
WakeWorkers == [w \in Workers |-> IF wpc[w] = "asleep" THEN "woken" ELSE wpc[w]]

(* work_finished.notify_all() *)
WakeWait == IF cpc = "wait_asleep" THEN "wait_woken" ELSE cpc

(* pending_space_available.notify_all() *)
WakeAdd == IF cpc = "add_asleep" THEN "add_woken" ELSE cpc

-----------------------------------------------------------------------------
(* The worker threads: thread_pool::work. *)

Goto(w, pc) == wpc' = [wpc EXCEPT ![w] = pc]

(* The first critical section. *)
Start(w) ==
    /\ wpc[w] = "start"
    /\ worker_count' = worker_count + 1
    /\ Goto(w, "loop")
    /\ UNCHANGED <<err, join_requested, pending, pending_size, f, e, callvars, history>>

(* w holds the mutex and tests the loop condition; a thread that comes out of  *)
(* the wait has counted itself in again.                                       *)
AtLoop(w) == wpc[w] \in {"loop", "woken"}

CountAtLoop(w) == IF wpc[w] = "woken" THEN worker_count + 1 ELSE worker_count

(* Nothing to do: count itself out, tell wait() if it was the last, sleep. *)
Idle(w) ==
    /\ AtLoop(w)
    /\ ~join_requested
    /\ pending = <<>>
    /\ worker_count' = CountAtLoop(w) - 1
    /\ cpc' = IF worker_count' = 0 THEN WakeWait ELSE cpc
    /\ Goto(w, "asleep")
    /\ UNCHANGED <<err, join_requested, pending, pending_size, f, e, func, raised, history>>

(* Nothing to do and join() wants the thread back. *)
Leave(w) ==
    /\ AtLoop(w)
    /\ join_requested
    /\ pending = <<>>
    /\ worker_count' = CountAtLoop(w)
    /\ Goto(w, "exit")
    /\ UNCHANGED <<err, join_requested, pending, pending_size, f, e, callvars, history>>

(* A job threw: throw the pending ones away.  Nobody is notified. *)
Clear(w) ==
    /\ AtLoop(w)
    /\ pending # <<>>
    /\ err # None
    /\ worker_count' = CountAtLoop(w)
    /\ pending' = <<>>
    /\ pending_size' = 0
    /\ Goto(w, IF join_requested THEN "exit" ELSE "loop")
    /\ status' = [j \in Jobs |-> IF status[j] = "pending" THEN "cancelled" ELSE status[j]]
    /\ UNCHANGED <<err, join_requested, f, e, callvars, batch>>

(* Take the oldest pending job. *)
Take(w) ==
    /\ AtLoop(w)
    /\ pending # <<>>
    /\ err = None
    /\ worker_count' = CountAtLoop(w)
    /\ f' = [f EXCEPT ![w] = Head(pending)]
    /\ pending' = Tail(pending)
    /\ pending_size' = pending_size - 1
    /\ cpc' = IF pending_size' < max_jobs THEN WakeAdd ELSE cpc
    /\ Goto(w, "run")
    /\ status' = [status EXCEPT ![Head(pending)] = "running"]
    /\ UNCHANGED <<err, join_requested, e, func, raised, batch>>

(* try_catch, outside the mutex: e is assigned only by a catch clause. *)
RunWell(w) ==
    /\ wpc[w] = "run"
    /\ Goto(w, "report")
    /\ status' = [status EXCEPT ![f[w]] = "ok"]
    /\ UNCHANGED <<poolvars, f, e, callvars, batch>>

RunThrows(w) ==
    /\ wpc[w] = "run"
    /\ f[w] \in MayThrow
    /\ e' = [e EXCEPT ![w] = f[w]]
    /\ Goto(w, "report")
    /\ status' = [status EXCEPT ![f[w]] = "threw"]
    /\ UNCHANGED <<poolvars, f, callvars, batch>>

(* The first exception is kept. *)
Report(w) ==
    /\ wpc[w] = "report"
    /\ err' = IF e[w] # None /\ err = None THEN e[w] ELSE err
    /\ Goto(w, "loop")
    /\ UNCHANGED <<worker_count, join_requested, pending, pending_size, f, e, callvars, history>>

(* The last critical section. *)
Exit(w) ==
    /\ wpc[w] = "exit"
    /\ worker_count' = worker_count - 1
    /\ Goto(w, "gone")
    /\ UNCHANGED <<err, join_requested, pending, pending_size, f, e, callvars, history>>

(* boost::condition::wait may return without a notification. *)
SpuriousWorker(w) ==
    /\ wpc[w] = "asleep"
    /\ Goto(w, "woken")
    /\ UNCHANGED <<poolvars, f, e, callvars, history>>

work(w) ==
    \/ Start(w) \/ Idle(w) \/ Leave(w) \/ Clear(w) \/ Take(w)
    \/ RunWell(w) \/ RunThrows(w) \/ Report(w) \/ Exit(w)

-----------------------------------------------------------------------------
(* The controlling thread. *)

Between == cpc \in {"ready", "returned"}

(* The constructor creates one more thread. *)
Spawn(w) ==
    /\ cpc = "ctor"
    /\ wpc[w] = "unborn"
    /\ Goto(w, "start")
    /\ cpc' = IF \E v \in Workers \ {w} : wpc[v] = "unborn" THEN "ctor" ELSE "ready"
    /\ UNCHANGED <<poolvars, f, e, func, raised, history>>

(* Mutation: the bound is off by one. *)
QueueOneTooMany(j) ==
    /\ pending_size <= max_jobs
    /\ pending' = Append(pending, j)
    /\ pending_size' = pending_size + 1
    /\ wpc' = WakeWorkers
    /\ status' = [status EXCEPT ![j] = "pending"]
    /\ cpc' = "ready"
    /\ UNCHANGED <<err, worker_count, join_requested, f, e>>

(* The end of add(): queue the job and notify the workers. *)
Queue(j) ==
    /\ pending_size < max_jobs
    /\ pending' = Append(pending, j)
    /\ pending_size' = pending_size + 1
    /\ wpc' = WakeWorkers
    /\ status' = [status EXCEPT ![j] = "pending"]
    /\ cpc' = "ready"
    /\ UNCHANGED <<err, worker_count, join_requested, f, e>>

(* The first call after wait() returned opens a new batch. *)
OpenBatch == IF cpc = "returned" THEN {} ELSE batch

(* add() is called with j. *)
AddCalled(j) ==
    /\ Between
    /\ status[j] = "new"
    /\ batch' = OpenBatch \cup {j}
    /\ raised' = None

(* An exception waits to be raised: add() returns without a trace of the job. *)
AddDrops(j) ==
    /\ AddCalled(j)
    /\ err # None
    /\ status' = [status EXCEPT ![j] = "cancelled"]
    /\ cpc' = "ready"
    /\ UNCHANGED <<poolvars, workvars, func>>

AddSleeps(j) ==
    /\ AddCalled(j)
    /\ err = None
    /\ pending_size >= max_jobs
    /\ func' = j
    /\ cpc' = "add_asleep"
    /\ UNCHANGED <<poolvars, workvars, status>>

AddQueues(j) ==
    /\ AddCalled(j)
    /\ err = None
    /\ Queue(j)
    /\ UNCHANGED func

(* add() has the mutex again.  It does not look at err a second time. *)
AddSleepsAgain ==
    /\ cpc = "add_woken"
    /\ pending_size >= max_jobs
    /\ cpc' = "add_asleep"
    /\ UNCHANGED <<poolvars, workvars, func, raised, history>>

AddResumes ==
    /\ cpc = "add_woken"
    /\ Queue(func)
    /\ func' = None
    /\ UNCHANGED <<raised, batch>>

(* Mutation: wait() looks at the list only, not at the running jobs. *)
BusyWhilePending == pending # <<>>

(* wait(): sleep while a worker is awake or a job is pending ... *)
Busy == worker_count > 0 \/ pending # <<>>

WaitSleeps ==
    /\ Between \/ cpc = "wait_woken"
    /\ Busy
    /\ cpc' = "wait_asleep"
    /\ raised' = None
    /\ batch' = OpenBatch
    /\ UNCHANGED <<poolvars, workvars, func, status>>

(* Mutation: the exception is forgotten without being thrown. *)
forget_error ==
    /\ raised' = None
    /\ err' = None

(* ... then rethrow and forget the exception, if there is one. *)
throw_if_error ==
    /\ raised' = err
    /\ err' = None

WaitReturns ==
    /\ Between \/ cpc = "wait_woken"
    /\ ~Busy
    /\ throw_if_error
    /\ cpc' = "returned"
    /\ batch' = OpenBatch
    /\ UNCHANGED <<worker_count, join_requested, pending, pending_size, workvars, func, status>>

(* join_nothrow(), first half: from join(), from the destructor, or from a   *)
(* constructor that could not create a thread.                               *)
RequestJoin ==
    /\ join_requested' = TRUE
    /\ wpc' = WakeWorkers
    /\ cpc' = "joining"
    /\ raised' = None
    /\ batch' = OpenBatch
    /\ UNCHANGED <<err, worker_count, pending, pending_size, f, e, func, status>>

JoinCalled == Between /\ RequestJoin

SpawnFails == cpc = "ctor" /\ RequestJoin

(* join_nothrow(), second half: every thread that was created has ended. *)
Joined ==
    /\ cpc = "joining"
    /\ \A w \in Workers : wpc[w] \in {"unborn", "gone"}

JoinReturns ==
    /\ Joined
    /\ \A w \in Workers : wpc[w] = "gone"
    /\ throw_if_error
    /\ cpc' = "joined"
    /\ UNCHANGED <<worker_count, join_requested, pending, pending_size, workvars, func, history>>

Destroyed ==
    /\ Joined
    /\ cpc' = "destroyed"
    /\ UNCHANGED <<poolvars, workvars, func, raised, history>>

SpuriousCaller ==
    /\ cpc \in {"add_asleep", "wait_asleep"}
    /\ cpc' = IF cpc = "add_asleep" THEN "add_woken" ELSE "wait_woken"
    /\ UNCHANGED <<poolvars, workvars, func, raised, history>>

(* What the controlling thread does by itself once it is inside a call. *)
Continue ==
    \/ AddSleepsAgain \/ AddResumes
    \/ cpc = "wait_woken" /\ (WaitSleeps \/ WaitReturns)
    \/ JoinReturns \/ Destroyed
    \/ \E w \in Workers : Spawn(w)

Next ==
    \/ \E w \in Workers : work(w) \/ SpuriousWorker(w)
    \/ \E w \in Workers : Spawn(w)
    \/ SpawnFails
    \/ \E j \in Jobs : AddDrops(j) \/ AddSleeps(j) \/ AddQueues(j)
    \/ AddSleepsAgain \/ AddResumes
    \/ WaitSleeps \/ WaitReturns
    \/ JoinCalled \/ JoinReturns \/ Destroyed
    \/ SpuriousCaller

Spec == Init /\ [][Next]_vars

(* Threads run when they can and jobs end; the caller finishes a call it has   *)
(* begun, but need never make another one.                                     *)
FairSpec ==
    /\ Spec
    /\ \A w \in Workers : WF_vars(work(w))
    /\ WF_vars(Continue)
-----------------------------------------------------------------------------
(* Properties. *)

Awake == {w \in Workers : wpc[w] \in {"loop", "run", "report", "exit"}}

(* worker_count and pending_size are kept by hand in seven critical sections: *)
(* they agree with what they count, so neither ever wraps below zero, and     *)
(* the list respects its bound.                                               *)
CountsAgree ==
    /\ worker_count = Cardinality(Awake)
    /\ pending_size = Len(pending)
    /\ pending_size <= max_jobs

(* "blocks until all submitted work is finished": when wait() or join() is    *)
(* back no job waits, none runs, and no worker has an exception left that it  *)
(* has not handed over.                                                       *)
WaitIsBarrier ==
    cpc \in {"returned", "joined", "destroyed"} =>
        /\ \A j \in Jobs : status[j] \notin {"pending", "running"}
        /\ \A w \in Workers : wpc[w] # "report"

(* wait() and join() come back without an exception only when every job       *)
(* submitted since the last return ran to its end: no job is dropped or       *)
(* cancelled without the caller hearing of it.                                *)
NormalReturnMeansAllRan ==
    cpc \in {"returned", "joined"} /\ raised = None => \A j \in batch : status[j] = "ok"

(* No lost wakeup: a worker never sleeps while a job is pending or join() is  *)
(* waiting for it, and wait() never sleeps when there is nothing left to      *)
(* wait for.                                                                  *)
NoLostWakeup ==
    /\ pending # <<>> \/ join_requested => \A w \in Workers : wpc[w] # "asleep"
    /\ cpc = "wait_asleep" => Busy

(* A call of wait() returns: some worker always brings worker_count to zero   *)
(* and notifies it.                                                           *)
WaitTerminates == cpc \in {"wait_asleep", "wait_woken"} ~> cpc = "returned"

(* join() and the destructor return: every worker leaves its loop.            *)
JoinTerminates == cpc = "joining" ~> cpc \in {"joined", "destroyed"}

(* "if more than max_jobs are waiting, then add() will block until some jobs  *)
(* have completed": a blocked add() is let go as long as no job throws (the   *)
(* branch that clears the list after an exception notifies nobody).           *)
AddTerminates == cpc \in {"add_asleep", "add_woken"} ~> cpc = "ready"

(* "if one job throws, all remaining jobs are cancelled": jobs are cancelled  *)
(* because a job they were submitted with threw.                              *)
CancelledOnlyByBatch ==
    (\E j \in batch : status[j] = "cancelled") => \E j \in batch : status[j] = "threw"

(* The refinement mapping.  An exception counts as waiting from the moment a  *)
(* worker carries it.                                                         *)
Failed == err # None \/ \E w \in Workers : wpc[w] = "report" /\ e[w] # None

PhaseBar ==
    IF cpc \in {"joined", "destroyed"} THEN "closed"
    ELSE IF cpc # "returned" THEN "open"
    ELSE IF raised = None THEN "returned" ELSE "raised"

Batch == INSTANCE JobBatch WITH failed <- Failed, phase <- PhaseBar

(* The pool keeps the promise of JobBatch: jobs begin once and only after     *)
(* they were submitted, are cancelled only after an exception, and wait()     *)
(* and join() come back only to a quiet pool.                                 *)
KeepsPromise == Batch!Spec
=============================================================================
