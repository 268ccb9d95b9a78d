----------------------------- MODULE DecodeRows -----------------------------
(***************************************************************************)
(* The decoder's row-parallel chart parse: decode_range, decode_row and    *)
(* decode_data of xrsdb/apps/search.cpp, for one sentence whose lattice    *)
(* has the vertices 0..N.                                                  *)
(*                                                                         *)
(* Row r is the job that computes the spans <<r-1,r>>, <<r-2,r>>, ...,     *)
(* <<0,r>> of the chart, in this order, on a thread of spanpool.  Span     *)
(* <<l,r>> starts with two holds: its row releases one when it has done    *)
(* <<l+1,r>>, row r-1 the other when it has done <<l,r-1>>.  A row sleeps  *)
(* on its own condition variable until the next span has no hold.  The     *)
(* main thread (process 0) admits at most max_active_rows rows at a time.  *)
(* A row that throws sends an abort to everyone.                           *)
(*                                                                         *)
(* spanpool is a FIFO queue served by NumThreads threads that stops taking *)
(* jobs after an exception: ThreadPool models how it does that.  What a    *)
(* span contains is left out; so are the grammar clusters, except that     *)
(* loading one may throw.                                                  *)
(***************************************************************************)
EXTENDS Naturals, FiniteSets

CONSTANTS
    N,                      \* the last vertex of the lattice
    NumThreads,             \* opts.num_threads
    limit_syntax_length,    \* longer spans are skipped unless they start the sentence
    MayThrow,               \* spans whose computation may throw
    LoadMayThrow            \* whether loading a grammar cluster may throw

Rows == 1..N
Spans == {s \in (0..N) \X (0..N) : s[1] < s[2]}

ASSUME RowsAssumption ==
    /\ N \in Nat \ {0}
    /\ NumThreads \in Nat \ {0}
    /\ limit_syntax_length \in Nat
    /\ MayThrow \subseteq Spans
    /\ LoadMayThrow \in BOOLEAN

VARIABLES
    chrthlds,       \* the hold count of each span
    done,           \* the spans the chart has in their final form
    active_rows,
    abort,
    failed,         \* spanpool has an exception to rethrow
    right,          \* the row the main thread is at
    pc,             \* position of each row, and of the main thread
    left,           \* left[r]: row r is at span <<left[r], r>>
    at              \* at[p]: the row that p's send_abort() notifies next

vars == <<chrthlds, done, active_rows, abort, failed, right, pc, left, at>>

RowPC == {"new", "queued", "compute", "row_done", "release_up", "notify_up",
          "release_left", "await", "asleep", "woken", "notify_total",
          "abort_set", "abort_rows", "abort_last", "threw", "sort_lost", "ended", "dropped"}

MainPC == {"throttle", "throttle_asleep", "load", "add", "jobs", "jobs_asleep", "pool_wait",
           "returned", "raised", "abort_set", "abort_rows", "abort_last", "destroyed", "gone"}

TypeOK ==
    /\ chrthlds \in [Spans -> 0..2]
    /\ done \in SUBSET Spans
    /\ active_rows \in Nat
    /\ abort \in BOOLEAN
    /\ failed \in BOOLEAN
    /\ right \in 1..N + 1
    /\ pc \in [0..N -> RowPC \cup MainPC]
    /\ pc[0] \in MainPC
    /\ \A r \in Rows : pc[r] \in RowPC
    /\ left \in [Rows -> 0..N]
    /\ \A r \in Rows : left[r] < r
    /\ at \in [0..N -> Rows]

(* Mutation: one hold, as if a span had one neighbour. *)
one_hold(s) == IF s[1] + 1 = s[2] THEN 0 ELSE 1

initial_holds(s) == IF s[1] + 1 = s[2] THEN 0 ELSE 2

Init ==
    /\ chrthlds = [s \in Spans |-> initial_holds(s)]
    /\ done = {}
    /\ active_rows = 0
    /\ abort = FALSE
    /\ failed = FALSE
    /\ right = 1
    /\ pc = [p \in 0..N |-> IF p = 0 THEN "throttle" ELSE "new"]
    /\ left = [r \in Rows |-> r - 1]
    /\ at = [p \in 0..N |-> 1]

Goto(p, to) == pc' = [pc EXCEPT ![p] = to]

(* The condition variables: a row's own, row_finished and jobs_done, each with *)
(* one thread that can sleep on it.  A sleeper tests its condition again when  *)
(* it wakes, except at jobs_done, whose wait has none.                         *)
Sleeping == {"asleep", "throttle_asleep", "jobs_asleep"}

Woken(c) == IF c = "asleep" THEN "woken"
            ELSE IF c = "throttle_asleep" THEN "throttle"
            ELSE IF c = "jobs_asleep" THEN "pool_wait" ELSE c

Notified(sleep, c) == IF c = sleep THEN Woken(c) ELSE c

max_active_rows == NumThreads
-----------------------------------------------------------------------------
(* spanpool. *)

Over == {"ended", "dropped"}
InPool == {r \in Rows : pc[r] \notin {"new", "queued"} \cup Over}

(* An idle pool thread takes the row that has waited longest. *)
PoolTakes(r) ==
    /\ pc[r] = "queued"
    /\ \A q \in Rows : pc[q] = "queued" => r <= q
    /\ Cardinality(InPool) < NumThreads
    /\ ~failed
    /\ Goto(r, "compute")
    /\ UNCHANGED <<chrthlds, done, active_rows, abort, failed, right, left, at>>

(* After an exception the queued rows are thrown away. *)
PoolClears ==
    /\ failed
    /\ \E r \in Rows : pc[r] = "queued"
    /\ Cardinality(InPool) < NumThreads
    /\ pc' = [p \in 0..N |-> IF p # 0 /\ pc[p] = "queued" THEN "dropped" ELSE pc[p]]
    /\ UNCHANGED <<chrthlds, done, active_rows, abort, failed, right, left, at>>

(* Mutation: the exception does not reach the pool. *)
PoolForgets(r) ==
    /\ pc[r] = "threw"
    /\ Goto(r, "ended")
    /\ UNCHANGED <<chrthlds, done, active_rows, abort, failed, right, left, at>>

(* The thread that ran a row that threw tells the pool. *)
PoolReports(r) ==
    /\ pc[r] = "threw"
    /\ failed' = TRUE
    /\ Goto(r, "ended")
    /\ UNCHANGED <<chrthlds, done, active_rows, abort, right, left, at>>
-----------------------------------------------------------------------------
(* decode_data::send_abort, called by a row that caught an exception and by  *)
(* the destructor.                                                           *)

(* Mutation: the flag is not raised. *)
AbortNotSet(p) ==
    /\ pc[p] = "abort_set"
    /\ at' = [at EXCEPT ![p] = 1]
    /\ Goto(p, "abort_rows")
    /\ UNCHANGED <<chrthlds, done, active_rows, abort, failed, right, left>>

AbortSet(p) ==
    /\ pc[p] = "abort_set"
    /\ abort' = TRUE
    /\ at' = [at EXCEPT ![p] = 1]
    /\ Goto(p, "abort_rows")
    /\ UNCHANGED <<chrthlds, done, active_rows, failed, right, left>>

AbortRow(p) ==
    /\ pc[p] = "abort_rows"
    /\ at' = [at EXCEPT ![p] = IF @ = N THEN @ ELSE @ + 1]
    /\ LET q == at[p] IN
       pc' = [pc EXCEPT ![q] = Notified("asleep", @),
                        ![p] = IF q = N THEN "abort_last" ELSE @]
    /\ UNCHANGED <<chrthlds, done, active_rows, abort, failed, right, left>>

(* row_finished and jobs_done are notified; the row's exception goes on to   *)
(* the pool, the destructor to the members.                                  *)
AbortLast(p) ==
    /\ pc[p] = "abort_last"
    /\ pc' = IF p = 0 THEN [pc EXCEPT ![0] = "destroyed"]
                       ELSE [pc EXCEPT ![p] = "threw", ![0] = Woken(@)]
    /\ UNCHANGED <<chrthlds, done, active_rows, abort, failed, right, left, at>>

send_abort(p) == AbortSet(p) \/ AbortRow(p) \/ AbortLast(p)
-----------------------------------------------------------------------------
(* decode_row, run by a thread of spanpool. *)

span(r) == <<left[r], r>>
Skipped(s) == s[1] # 0 /\ s[2] - s[1] > limit_syntax_length

(* Where row r goes once the span above has been dealt with: to the span on  *)
(* its left, or out of the loop, announcing the total span.                  *)
ToLeft(r) ==
    IF left[r] > 0 THEN "release_left" ELSE IF r = N THEN "notify_total" ELSE "ended"

ToUp(r) == IF r < N THEN "release_up" ELSE ToLeft(r)

(* The members go in the reverse order of their declaration: the sentence's     *)
(* mutex and conditions and sortpool are destroyed before spanpool is joined.   *)
Destroyed == pc[0] = "destroyed"

ComputeThrows(r) ==
    \/ chrthlds[span(r)] # 0       \* "calculating span with hold on it"
    \/ span(r) \in MayThrow /\ ~Skipped(span(r))
    \/ Destroyed

Compute(r) ==
    /\ pc[r] = "compute"
    /\ \/ /\ chrthlds[span(r)] = 0
          /\ done' = done \cup {span(r)}
          /\ Goto(r, IF left[r] = 0 THEN "row_done" ELSE ToUp(r))
       \/ /\ ComputeThrows(r)
          /\ Goto(r, "abort_set")
          /\ UNCHANGED done
    /\ UNCHANGED <<chrthlds, active_rows, abort, failed, right, left, at>>

(* A row that is still computing hands a sort to the destroyed sortpool, whose *)
(* workers have left, and waits for ever for its count to come down.           *)
SortLost(r) ==
    /\ pc[r] = "compute"
    /\ Destroyed
    /\ Goto(r, "sort_lost")
    /\ UNCHANGED <<chrthlds, done, active_rows, abort, failed, right, left, at>>

RowDone(r) ==
    /\ pc[r] = "row_done"
    /\ active_rows' = active_rows - 1
    /\ pc' = [pc EXCEPT ![r] = ToUp(r), ![0] = Notified("throttle_asleep", @)]
    /\ UNCHANGED <<chrthlds, done, abort, failed, right, left, at>>

(* Release the hold of <<left[r], r+1>>; a second critical section notifies. *)
ReleaseUp(r) ==
    /\ pc[r] = "release_up"
    /\ LET s == <<left[r], r + 1>> IN
       /\ chrthlds' = [chrthlds EXCEPT ![s] = @ - 1]
       /\ Goto(r, IF chrthlds'[s] = 0 THEN "notify_up" ELSE ToLeft(r))
    /\ UNCHANGED <<done, active_rows, abort, failed, right, left, at>>

(* Mutation: the row above is not notified. *)
NotifyNobody(r) ==
    /\ pc[r] = "notify_up"
    /\ Goto(r, ToLeft(r))
    /\ UNCHANGED <<chrthlds, done, active_rows, abort, failed, right, left, at>>

NotifyUp(r) ==
    /\ pc[r] = "notify_up"
    /\ pc' = [pc EXCEPT ![r] = ToLeft(r), ![r + 1] = Notified("asleep", @)]
    /\ UNCHANGED <<chrthlds, done, active_rows, abort, failed, right, left, at>>

NextSpan(r) ==
    /\ left' = [left EXCEPT ![r] = @ - 1]
    /\ Goto(r, "compute")

(* Release the hold of <<left[r]-1, r>> and go there if it was the last. *)
ReleaseLeft(r) ==
    /\ pc[r] = "release_left"
    /\ LET s == <<left[r] - 1, r>> IN
       /\ chrthlds' = [chrthlds EXCEPT ![s] = @ - 1]
       /\ IF chrthlds'[s] = 0 THEN NextSpan(r) ELSE Goto(r, "await") /\ UNCHANGED left
    /\ UNCHANGED <<done, active_rows, abort, failed, right, at>>

(* Mutation: the holds are not read again under the lock. *)
AwaitBlindly(r) ==
    /\ pc[r] \in {"await", "woken"}
    /\ LET holds == chrthlds[<<left[r] - 1, r>>] IN
       \/ abort /\ Goto(r, "ended") /\ UNCHANGED left
       \/ ~abort /\ (holds # 0 \/ pc[r] = "await") /\ Goto(r, "asleep") /\ UNCHANGED left
       \/ ~abort /\ holds = 0 /\ pc[r] = "woken" /\ NextSpan(r)
    /\ UNCHANGED <<chrthlds, done, active_rows, abort, failed, right, at>>

(* Mutation: the flag is looked at only after a wakeup. *)
AwaitDeaf(r) ==
    /\ pc[r] \in {"await", "woken"}
    /\ LET holds == chrthlds[<<left[r] - 1, r>>] IN
       \/ abort /\ pc[r] = "woken" /\ Goto(r, "ended") /\ UNCHANGED left
       \/ ~(abort /\ pc[r] = "woken") /\ holds # 0 /\ Goto(r, "asleep") /\ UNCHANGED left
       \/ ~(abort /\ pc[r] = "woken") /\ holds = 0 /\ NextSpan(r)
    /\ UNCHANGED <<chrthlds, done, active_rows, abort, failed, right, at>>

(* Sleep until row r-1 has released the other hold, or until an abort. *)
Await(r) ==
    /\ pc[r] \in {"await", "woken"}
    /\ LET holds == chrthlds[<<left[r] - 1, r>>] IN
       \/ abort /\ Goto(r, "ended") /\ UNCHANGED left
       \/ ~abort /\ holds # 0 /\ Goto(r, "asleep") /\ UNCHANGED left
       \/ ~abort /\ holds = 0 /\ NextSpan(r)
    /\ UNCHANGED <<chrthlds, done, active_rows, abort, failed, right, at>>

(* Mutation: the total span is not announced. *)
TotalNotAnnounced(r) ==
    /\ pc[r] = "notify_total"
    /\ Goto(r, "ended")
    /\ UNCHANGED <<chrthlds, done, active_rows, abort, failed, right, left, at>>

NotifyTotal(r) ==
    /\ pc[r] = "notify_total"
    /\ pc' = [pc EXCEPT ![r] = "ended", ![0] = Notified("jobs_asleep", @)]
    /\ UNCHANGED <<chrthlds, done, active_rows, abort, failed, right, left, at>>

(* Locking the destroyed mutex may fail; send_abort() then fails as well. *)
MutexGone(r) ==
    /\ Destroyed
    /\ pc[r] \in {"row_done", "notify_total", "abort_set", "abort_last"}
    /\ Goto(r, "threw")
    /\ UNCHANGED <<chrthlds, done, active_rows, abort, failed, right, left, at>>

decode_row(r) ==
    \/ Compute(r) \/ RowDone(r) \/ ReleaseUp(r) \/ NotifyUp(r)
    \/ ReleaseLeft(r) \/ Await(r) \/ NotifyTotal(r)
-----------------------------------------------------------------------------
(* decode_range and decode, run by the main thread. *)

(* Mutation: one row too many is admitted. *)
ThrottleOneTooMany ==
    /\ pc[0] = "throttle"
    /\ Goto(0, IF abort THEN "jobs"
               ELSE IF active_rows > max_active_rows THEN "throttle_asleep" ELSE "load")
    /\ UNCHANGED <<chrthlds, done, active_rows, abort, failed, right, left, at>>

Throttle ==
    /\ pc[0] = "throttle"
    /\ Goto(0, IF abort THEN "jobs"
               ELSE IF active_rows >= max_active_rows THEN "throttle_asleep" ELSE "load")
    /\ UNCHANGED <<chrthlds, done, active_rows, abort, failed, right, left, at>>

Load ==
    /\ pc[0] = "load"
    /\ active_rows' = active_rows + 1
    /\ Goto(0, "add")
    /\ UNCHANGED <<chrthlds, done, abort, failed, right, left, at>>

(* The exception leaves decode_range with rows still running. *)
LoadThrows ==
    /\ pc[0] = "load"
    /\ LoadMayThrow
    /\ Goto(0, "raised")
    /\ UNCHANGED <<chrthlds, done, active_rows, abort, failed, right, left, at>>

(* spanpool.add() drops the row if the pool has an exception. *)
Add ==
    /\ pc[0] = "add"
    /\ pc' = [pc EXCEPT ![right] = IF failed THEN "dropped" ELSE "queued",
                        ![0] = IF right = N THEN "jobs" ELSE "throttle"]
    /\ right' = right + 1
    /\ UNCHANGED <<chrthlds, done, active_rows, abort, failed, left, at>>

(* jobs_done.wait() has no condition around it: it ends with the first       *)
(* notification after it began.                                              *)
Jobs ==
    /\ pc[0] = "jobs"
    /\ Goto(0, IF abort THEN "pool_wait" ELSE "jobs_asleep")
    /\ UNCHANGED <<chrthlds, done, active_rows, abort, failed, right, left, at>>

(* spanpool.wait() *)
PoolWait ==
    /\ pc[0] = "pool_wait"
    /\ \A r \in Rows : pc[r] \in Over \cup {"new"}
    /\ Goto(0, IF failed THEN "raised" ELSE "returned")
    /\ failed' = FALSE
    /\ UNCHANGED <<chrthlds, done, active_rows, abort, right, left, at>>

(* The results are printed and ~decode_data() begins. *)
Finish ==
    /\ pc[0] \in {"returned", "raised"}
    /\ Goto(0, "abort_set")
    /\ UNCHANGED <<chrthlds, done, active_rows, abort, failed, right, left, at>>

(* The destructor of spanpool runs what is queued and joins the threads. *)
JoinPool ==
    /\ Destroyed
    /\ \A r \in Rows : pc[r] \in Over \cup {"new"}
    /\ Goto(0, "gone")
    /\ UNCHANGED <<chrthlds, done, active_rows, abort, failed, right, left, at>>

decode_range == Throttle \/ Load \/ Add \/ Jobs \/ PoolWait \/ Finish \/ JoinPool

(* A condition variable may let a sleeper go without a notification. *)
Spurious(p) ==
    /\ pc[p] \in Sleeping
    /\ Goto(p, Woken(pc[p]))
    /\ UNCHANGED <<chrthlds, done, active_rows, abort, failed, right, left, at>>

Next ==
    \/ \E r \in Rows : PoolTakes(r) \/ PoolReports(r) \/ decode_row(r) \/ MutexGone(r) \/ SortLost(r)
    \/ PoolClears
    \/ decode_range \/ LoadThrows
    \/ \E p \in 0..N : send_abort(p) \/ Spurious(p)

Spec == Init /\ [][Next]_vars

(* Every thread goes on when it can, and the computation of a span ends. *)
FairSpec ==
    /\ Spec
    /\ \A r \in Rows : WF_vars(PoolTakes(r) \/ PoolReports(r) \/ decode_row(r) \/ send_abort(r))
    /\ WF_vars(PoolClears)
    /\ WF_vars(decode_range \/ send_abort(0))
-----------------------------------------------------------------------------
(* Properties. *)

Inside(s, t) == t[1] <= s[1] /\ s[2] <= t[2] /\ s # t

(* A row reads the chart cells of every span inside the one it computes.  Two *)
(* holds per span, released by its two neighbours only, are enough to order   *)
(* them all: no hold is left (the logic_error of decode_row is never thrown)  *)
(* and everything inside is final.                                            *)
InsideIsFinal ==
    \A r \in Rows : pc[r] = "compute" =>
        /\ chrthlds[span(r)] = 0
        /\ \A s \in Spans : Inside(s, span(r)) => s \in done

(* The throttle is raised by the main thread and lowered by the rows, on      *)
(* normal and on error paths: no more rows than threads are admitted and not  *)
(* yet finished.                                                              *)
ThrottleHolds ==
    /\ active_rows <= max_active_rows
    /\ Cardinality({r \in Rows : pc[r] \notin {"new"} \cup Over /\ <<0, r>> \notin done}) <= active_rows

(* decode_range returns normally only when the whole chart is final: a row    *)
(* that was aborted, cancelled or dropped is always reported.                 *)
NormalReturnMeansChartFull == pc[0] = "returned" => done = Spans

(* The exception of a load leaves decode_range while rows run, and the        *)
(* destructor has only its one send_abort() to get them out: when it goes on  *)
(* to join spanpool no row is asleep on its condition and none will be, also  *)
(* those that were on their way to sleep while it passed and those that the   *)
(* pool starts afterwards.                                                    *)
NobodySleepsOnDestroyed ==
    pc[0] \in {"destroyed", "gone"} => \A r \in Rows : pc[r] # "asleep"

(* No lost wakeup in the rows: a row sleeps only while its next span is held  *)
(* or its notification is still on its way, and never after an abort has      *)
(* passed it by.                                                              *)
RowSleepsForAReason ==
    \A r \in Rows : pc[r] = "asleep" =>
        /\ \/ chrthlds[<<left[r] - 1, r>>] # 0
           \/ pc[r - 1] = "notify_up" /\ left[r - 1] = left[r] - 1
        /\ abort => \E p \in 0..N : pc[p] = "abort_rows" /\ at[p] <= r

(* Every row that was handed to the pool comes to an end, with or without     *)
(* exceptions of rows, if the computation of a span ends: no cycle of rows    *)
(* waiting for each other or for pool threads.  (Not when a load throws: see  *)
(* DestructorEnds.)                                                           *)
RowsEnd == \A r \in Rows : pc[r] = "queued" ~> pc[r] \in Over

TotalNotified == pc[N] = "ended"

(* If the main thread sleeps on jobs_done before the last row has announced   *)
(* the total span, decode_range comes back.  (If it begins to sleep after the *)
(* announcement, nothing but a spurious wakeup brings it back.)               *)
MainReturns == pc[0] = "jobs_asleep" /\ ~TotalNotified ~> pc[0] \in {"returned", "raised"}

(* After an exception of the main thread the destructor's abort reaches every *)
(* row, so that spanpool can be joined, unless a row that was computing has   *)
(* given a sort to the destroyed sortpool: then ~thread_pool() never returns. *)
DestructorEnds ==
    pc[0] = "destroyed" ~> pc[0] = "gone" \/ \E r \in Rows : pc[r] = "sort_lost"
=============================================================================
