--------------------------- MODULE SignatureCache ---------------------------
(***************************************************************************)
(* make_res of the decoder (xrsdb/apps/search.cpp): the rules below a      *)
(* signature are decompressed, sorted and published in a cache that all    *)
(* rows of the chart share.  Large tries are sorted in pieces by sortpool, *)
(* a thread_pool whose add() is called by all rows.                        *)
(*                                                                         *)
(* The cache has a reader-writer lock, held for one look-up or insertion:  *)
(* those are single steps here.  The lock of a signature's bucket is held  *)
(* from the second look-up to the end; nobody takes it shared, so that it  *)
(* is a mutex.  count is a local variable of the call, to which the jobs   *)
(* have a pointer.  A call that is left by an exception ends its row, and  *)
(* the row's exception the sentence: such a row stays at "threw".          *)
(***************************************************************************)
EXTENDS Integers, Sequences, FiniteSets

CONSTANTS
    Rows,           \* the threads of spanpool
    Workers,        \* the threads of sortpool
    Sigs,
    Bucket,         \* Bucket[s]: hash of the signature modulo 23
    Pieces,         \* Pieces[s]: pieces of its trie that are large enough for a job
    MaxCalls,       \* bound on the calls of a row
    MaxThrows,      \* bound on the jobs that throw
    none

Buckets == {Bucket[s] : s \in Sigs}
Piece == UNION {0..Pieces[s] : s \in Sigs}      \* piece 0 is sorted by the row itself
Job == [row : Rows, piece : Piece]

ASSUME CacheAssumption ==
    /\ IsFiniteSet(Workers) /\ Pieces \in [Sigs -> Nat] /\ DOMAIN Bucket = Sigs
    /\ MaxCalls \in Nat /\ MaxThrows \in Nat /\ none \notin Rows \cup Sigs \cup Job

VARIABLES
    cache,              \* signatures in the cache
    holder,             \* holder[b]: the row that has the lock of bucket b
    pc, sig, left,      \* a row: position, signature, pieces not yet handed out
    unsorted,           \* pieces of its trie that are not sorted
    count,
    calls,
    wpc, job,           \* a worker of sortpool: position and job
    pending, err,       \* sortpool
    throws

rowvars == <<cache, holder, pc, sig, left, calls>>
poolvars == <<wpc, job, pending, err, throws>>
vars == <<rowvars, unsorted, count, poolvars>>

Sorting == {"walk", "add", "inline", "wait", "sleep"}
Holding == {"again", "load", "check", "insert"} \cup Sorting

TypeOK ==
    /\ cache \subseteq Sigs
    /\ holder \in [Buckets -> Rows \cup {none}]
    /\ pc \in [Rows -> {"idle", "first", "lock", "logic_error", "threw"} \cup Holding]
    /\ sig \in [Rows -> Sigs \cup {none}] /\ left \in [Rows -> Nat]
    /\ unsorted \in [Rows -> SUBSET Piece]
    /\ count \in [Rows -> Nat] /\ calls \in [Rows -> 0..MaxCalls]
    /\ wpc \in [Workers -> {"awake", "asleep", "sort", "count", "threw"}]
    /\ job \in [Workers -> Job \cup {none}]
    /\ pending \in Seq(Job) /\ err \in BOOLEAN /\ throws \in 0..MaxThrows

Init ==
    /\ cache = {} /\ holder = [b \in Buckets |-> none]
    /\ pc = [r \in Rows |-> "idle"] /\ sig = [r \in Rows |-> none]
    /\ left = [r \in Rows |-> 0] /\ unsorted = [r \in Rows |-> {}]
    /\ count = [r \in Rows |-> 0] /\ calls = [r \in Rows |-> 0]
    /\ wpc = [w \in Workers |-> "awake"] /\ job = [w \in Workers |-> none]
    /\ pending = <<>> /\ err = FALSE /\ throws = 0
-----------------------------------------------------------------------------
(* make_res::operator(). *)

Goto(r, from, to) == pc[r] = from /\ pc' = [pc EXCEPT ![r] = to]

Lock(r) == Bucket[sig[r]]
Unlocked(r) == [holder EXCEPT ![Lock(r)] = none]

Call(r) ==
    /\ Goto(r, "idle", "first")
    /\ calls[r] < MaxCalls
    /\ calls' = [calls EXCEPT ![r] = @ + 1]
    /\ \E s \in Sigs : sig' = [sig EXCEPT ![r] = s]
    /\ count' = [count EXCEPT ![r] = 0]
    /\ UNCHANGED <<cache, holder, left, unsorted, poolvars>>

Find(r) ==
    /\ Goto(r, "first", IF sig[r] \in cache THEN "idle" ELSE "lock")
    /\ UNCHANGED <<cache, holder, sig, left, calls, unsorted, count, poolvars>>

LockBucket(r) ==
    /\ Goto(r, "lock", "again")
    /\ holder[Lock(r)] = none
    /\ holder' = [holder EXCEPT ![Lock(r)] = r]
    /\ UNCHANGED <<cache, sig, left, calls, unsorted, count, poolvars>>

(* Mutation: the look-up is not repeated under the lock. *)
FindOnce(r) ==
    /\ Goto(r, "again", "load")
    /\ UNCHANGED <<cache, holder, sig, left, calls, unsorted, count, poolvars>>

FindAgain(r) ==
    /\ Goto(r, "again", IF sig[r] \in cache THEN "idle" ELSE "load")
    /\ holder' = IF sig[r] \in cache THEN Unlocked(r) ELSE holder
    /\ UNCHANGED <<cache, sig, left, calls, unsorted, count, poolvars>>

Load(r) ==
    /\ Goto(r, "load", "walk")
    /\ left' = [left EXCEPT ![r] = Pieces[sig[r]]]
    /\ unsorted' = [unsorted EXCEPT ![r] = 0..Pieces[sig[r]]]
    /\ UNCHANGED <<cache, holder, sig, calls, count, poolvars>>

(* sort_res has gathered more than 1000 rules: it counts a job ... *)
Count(r) ==
    /\ Goto(r, "walk", "add") /\ left[r] > 0
    /\ count' = [count EXCEPT ![r] = @ + 1]
    /\ UNCHANGED <<cache, holder, sig, left, calls, unsorted, poolvars>>

(* ... and hands it to sortpool, which drops it when it has an exception. *)
Add(r) ==
    /\ Goto(r, "add", "walk")
    /\ left' = [left EXCEPT ![r] = @ - 1]
    /\ IF err
       THEN UNCHANGED <<pending, wpc>>
       ELSE /\ pending' = Append(pending, [row |-> r, piece |-> left[r]])
            /\ wpc' = [w \in Workers |-> IF wpc[w] = "asleep" THEN "awake" ELSE wpc[w]]
    /\ UNCHANGED <<cache, holder, sig, calls, unsorted, count, job, err, throws>>

Walked(r) ==
    /\ Goto(r, "walk", "inline") /\ left[r] = 0
    /\ UNCHANGED <<cache, holder, sig, left, calls, unsorted, count, poolvars>>

Inline(r) ==
    /\ Goto(r, "inline", "wait")
    /\ unsorted' = [unsorted EXCEPT ![r] = @ \ {0}]
    /\ UNCHANGED <<cache, holder, sig, left, calls, count, poolvars>>

(* Mutation: one job may be left. *)
AwaitAllButOne(r) ==
    /\ Goto(r, "wait", IF count[r] > 1 THEN "sleep" ELSE "check")
    /\ UNCHANGED <<cache, holder, sig, left, calls, unsorted, count, poolvars>>

Await(r) ==
    /\ Goto(r, "wait", IF count[r] > 0 THEN "sleep" ELSE "check")
    /\ UNCHANGED <<cache, holder, sig, left, calls, unsorted, count, poolvars>>

(* The two look-ups that must not find anything. *)
Check(r) ==
    /\ \/ sig[r] \in cache /\ Goto(r, "check", "logic_error") /\ holder' = Unlocked(r)
       \/ sig[r] \notin cache /\ Goto(r, "check", "insert") /\ UNCHANGED holder
    /\ UNCHANGED <<cache, sig, left, calls, unsorted, count, poolvars>>

Insert(r) ==
    /\ Goto(r, "insert", IF sig[r] \in cache THEN "logic_error" ELSE "idle")
    /\ cache' = cache \cup {sig[r]}
    /\ holder' = Unlocked(r)
    /\ UNCHANGED <<sig, left, calls, unsorted, count, poolvars>>

(* Loading the trie, gathering its rules, handing out a job, the row's own sort *)
(* and the insertion may throw.  The locks are released on the way out and the  *)
(* trie and the local variables are gone; jobs that were handed out are not     *)
(* called back.                                                                 *)
RowThrows(r) ==
    /\ pc[r] \in {"load", "walk", "add", "inline", "insert"}
    /\ pc' = [pc EXCEPT ![r] = "threw"]
    /\ holder' = Unlocked(r)
    /\ left' = [left EXCEPT ![r] = 0]
    /\ unsorted' = [unsorted EXCEPT ![r] = {}]
    /\ count' = [count EXCEPT ![r] = 0]
    /\ UNCHANGED <<cache, sig, calls, poolvars>>

make_res(r) ==
    \/ Find(r) \/ LockBucket(r) \/ FindAgain(r) \/ Load(r) \/ Count(r) \/ Add(r)
    \/ Walked(r) \/ Inline(r) \/ Await(r) \/ Check(r) \/ Insert(r)

Spurious(r) ==
    /\ Goto(r, "sleep", "wait")
    /\ UNCHANGED <<cache, holder, sig, left, calls, unsorted, count, poolvars>>

(* A new sentence: other weights, hence another order of the rules. *)
ClearCache ==
    /\ \A r \in Rows : pc[r] = "idle"
    /\ cache # {} /\ cache' = {}
    /\ UNCHANGED <<holder, pc, sig, left, calls, unsorted, count, poolvars>>
-----------------------------------------------------------------------------
(* sortpool: thread_pool::work, and the jobs, sortit. *)

Work(w, from, to) == wpc[w] = from /\ wpc' = [wpc EXCEPT ![w] = to]

Idle(w) ==
    /\ Work(w, "awake", "asleep") /\ pending = <<>>
    /\ UNCHANGED <<rowvars, unsorted, count, job, pending, err, throws>>

Take(w) ==
    /\ Work(w, "awake", "sort") /\ pending # <<>> /\ ~err
    /\ job' = [job EXCEPT ![w] = Head(pending)]
    /\ pending' = Tail(pending)
    /\ UNCHANGED <<rowvars, unsorted, count, err, throws>>

Clear(w) ==
    /\ wpc[w] = "awake" /\ pending # <<>> /\ err
    /\ pending' = <<>>
    /\ UNCHANGED <<rowvars, unsorted, count, wpc, job, err, throws>>

Sort(w) ==
    /\ Work(w, "sort", "count")
    /\ unsorted' = [unsorted EXCEPT ![job[w].row] = @ \ {job[w].piece}]
    /\ UNCHANGED <<rowvars, count, job, pending, err, throws>>

SortThrows(w) ==
    /\ Work(w, "sort", "threw") /\ throws < MaxThrows
    /\ throws' = throws + 1
    /\ UNCHANGED <<rowvars, unsorted, count, job, pending, err>>

(* All that wait at the condition of a bucket are woken. *)
Notified(b) == [r \in Rows |-> IF pc[r] = "sleep" /\ Lock(r) = b THEN "wait" ELSE pc[r]]

(* The worker lowers the count of its call, and notifies when it looks like the  *)
(* last.  If the call was left by an exception, what it lowers is whatever now   *)
(* lies where count was, and no longer a variable of a call.                     *)
Lower(w, by, last) ==
    LET r == job[w].row IN
    /\ Work(w, "count", "awake")
    /\ \/ /\ pc[r] # "threw"
          /\ count' = [count EXCEPT ![r] = @ - by]
          /\ pc' = IF count[r] = last THEN Notified(Lock(r)) ELSE pc
       \/ /\ pc[r] = "threw"
          /\ UNCHANGED count
          /\ pc' \in {pc, Notified(Lock(r))}
    /\ job' = [job EXCEPT ![w] = none]
    /\ UNCHANGED <<cache, holder, sig, left, calls, unsorted, pending, err, throws>>

(* Mutations: the last job but one notifies; every job lowers the count twice. *)
CountDownEarly(w) == Lower(w, 1, 2)

CountDownTwice(w) == Lower(w, 2, 2)

CountDown(w) == Lower(w, 1, 1)

Report(w) ==
    /\ Work(w, "threw", "awake")
    /\ err' = TRUE
    /\ job' = [job EXCEPT ![w] = none]
    /\ UNCHANGED <<rowvars, unsorted, count, pending, throws>>

work(w) == Idle(w) \/ Take(w) \/ Clear(w) \/ Sort(w) \/ CountDown(w) \/ Report(w)

Next ==
    \/ \E r \in Rows : Call(r) \/ make_res(r) \/ RowThrows(r) \/ Spurious(r)
    \/ \E w \in Workers : work(w) \/ SortThrows(w)
    \/ ClearCache

Spec == Init /\ [][Next]_vars

FairSpec ==
    /\ Spec
    /\ \A r \in Rows : WF_vars(make_res(r))
    /\ \A w \in Workers : WF_vars(work(w))
-----------------------------------------------------------------------------
(* Properties. *)

(* The jobs of a row that sortpool still has. *)
Waiting(r) == {i \in DOMAIN pending : pending[i].row = r}
Sorters(r) == {w \in Workers : wpc[w] \in {"sort", "count", "threw"} /\ job[w].row = r}
Outstanding(r) ==
    Cardinality(Waiting(r)) + Cardinality(Sorters(r)) + (IF pc[r] = "add" THEN 1 ELSE 0)

(* A trie is loaded by one row only, and the errors "signature_tree_data      *)
(* should not be loaded" are never thrown: what the second look-up found is   *)
(* still true when the trie is inserted, many steps and two locks later.      *)
LoadedOnce ==
    \A r \in Rows :
        /\ pc[r] # "logic_error"
        /\ pc[r] \in Holding \ {"again"} =>
            /\ sig[r] \notin cache
            /\ \A q \in Rows \ {r} : pc[q] \in Holding => sig[q] # sig[r]

(* A trie is published only when every piece of it has been sorted, by the    *)
(* row or by a job, whatever the pool threw, dropped or cancelled.            *)
SortedBeforePublished ==
    \A r \in Rows : pc[r] \in {"check", "insert"} => unsorted[r] = {}

(* count is a local variable of the call and the jobs lower it through a      *)
(* pointer.  As long as no job has thrown it is exactly the number of jobs    *)
(* that still have that pointer, and it is never less: a call that returns    *)
(* leaves no job behind, and only an exception of the row itself (RowThrows)  *)
(* lets jobs outlive it.                                                      *)
CountIsLive ==
    \A r \in Rows : pc[r] # "threw" =>
        /\ count[r] >= Outstanding(r)
        /\ throws = 0 => count[r] = Outstanding(r)
        /\ pc[r] \notin Sorting => Outstanding(r) = 0

(* Every call comes back or throws, also when the row of another call in the  *)
(* same bucket has thrown and jobs of the dead call still notify.  Not once a *)
(* job has thrown: its row then waits for ever, and so does every row that    *)
(* needs the bucket.                                                          *)
CallsReturn ==
    \A r \in Rows : pc[r] # "idle" ~> (pc[r] \in {"idle", "threw"} \/ throws > 0)
=============================================================================
