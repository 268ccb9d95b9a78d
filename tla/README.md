# Verification of the concurrent and distributed parts of sbmt

This directory holds TLA+ models of parts of the sbmt toolkit (syntax-based
machine translation), the TLC configurations that check them on small
instances, and TLAPS proofs for every size. Paths are relative to the root of
the repository and begin with `src/`.

## 1. Inventory

| component | state it keeps | operations | interacts with |
|---|---|---|---|
| `thread_pool` (`src/sbmt_decoder/src/thread_pool.cpp`) | pending list, two hand-kept counters, first exception, join flag; one mutex, three conditions | construct, `add`, `wait`, `join`, destroy, the worker loop `work` | used by every threaded part below |
| row-parallel chart parse (`src/xrsdb/apps/search.cpp`: `decode_data`, `decode_row`, `decode_range`) | chart, hold count of each span, `active_rows`, `abort`, a mutex and a condition per row | one job per row; release, notify, sleep; throttle; `send_abort` | `spanpool` and `sortpool` (two `thread_pool`s), signature cache |
| signature cache (`search.cpp`: `make_res`, `sort_res`, `sortit`) | tries in the cache, one lock and condition per bucket, a count per call | look up, lock, look up again, load, sort in pieces, wait, insert | rows, `sortpool` |
| command loop of the decoder (`search.cpp`: `decode`, `main`) | grammar stack, weights | push, pop, decode, print | the chart parse |
| threaded CKY of `mini_decoder` (`threaded_parse_cky.hpp`, `parse_robust.hpp`, `filter_bank.ipp`, `span.cpp`) | chart, filter bank, retry count | combine all spans of a length, barrier, retry with tighter beams | `thread_pool::wait` as the barrier |
| `read_write_mutex` | readers, writer flag | lock, unlock | nothing: its only user, `chart_mtx` of `filter_bank`, is never locked (the lock at `filter_bank.ipp:149` is commented out) |
| `mpiserv` (`src/mpiserv/`) | load tables, job queues, child processes | submit, receive, try again, flush, finish | MPI, decoder processes through `rhpipe` |
| MIRA driver (`src/mira/sbmt_decoder.py`) | weights sent last, age of the child, restarts | translate, instruct, send weights, restart | a decoder process behind a queue and a pipe |
| MIRA trainer and `pmap` (`src/mira/trainer.py`, `parallel.py`) | weights, their running sum, results not yet in order, error counter | train, exchange updates, average, held-out pass, stop | MPI, the driver |
| lazy generators, containers, edges, language models, features, rule extraction, tuning, pipelines | sequential | | |

What is hard here, component by component (the list with lines is under
"hazards" in `PROJECT.json`):

* `thread_pool`: lost wakeups between a worker that goes to sleep and `add`,
  `join`; only the worker that brings `worker_count` to zero wakes `wait`;
  counters kept by hand on several paths; an exception that cancels jobs while
  others run; a bounded list whose waiters must be let go. Correct means:
  `wait` is a barrier, always comes back, and comes back without an exception
  only when every job ran.
* chart parse: spans must be computed after everything inside them, with two
  counters per span as the only order; rows sleep while they occupy pool
  threads; `abort` is written under one mutex and read under another; one row
  fails while others compute, sleep or are queued; the data is destroyed when
  the sentence ends. Correct means: sound order, everybody ends, no partial
  chart passes for a full one.
* signature cache: two rows miss the same signature; a look-up is used many
  steps later; jobs of another pool lower a counter on the caller's stack; a
  sort that throws or is dropped. Correct means: loaded once, published
  sorted, no job outlives the counter of a call that returns.
* CKY: the barrier between span lengths; jobs that run when the attempt fails;
  what a retry changes; three comparisons with the limit on the length.
* `mpiserv`: jobs of a client that died are tried again, none lost or answered
  twice; load counts corrected by differences; results without a task number;
  a mutex held over a blocking receive; messages of two senders in any order.
* driver: weights as rounded differences to what the child is believed to
  have, over restarts; answers to requests that were given up; who waits for
  whom when the child holds a line back.
* trainer: replies without an index; averages kept incrementally; weights
  exchanged and put back; processes that decide separately whether to stop.

## 2. Modules

    JobBatch  <-- refined by --  ThreadPool  <-- ThreadPoolProofs <-- ThreadPoolRefinement
       ^                             ^
       | INSTANCE                MCThreadPool (3 configurations)
    CkyParse <-- CkyParseProofs
       ^
    MCCkyParse (3)

    DecodeRows <-- DecodeRowsProofs             SignatureCache <-- SignatureCacheProofs
        ^                                              ^
    MCDecodeRows (2)                            MCSignatureCache (1)

    MpiServ <-- MpiServProofs   DecoderDriver <-- DecoderDriverProofs   Trainer <-- TrainerProofs
       ^                              ^                                    ^
    MCMpiServ (1)               MCDecoderDriver (1)                     MCTrainer (1)

### ThreadPool

`src/sbmt_decoder/src/thread_pool.cpp`. The members `err`, `worker_count`,
`join_requested`, `pending`, `pending_size` are variables of the same name.
Each worker has a position in `work()` (`wpc`) and its locals `f` and `e`; the
controlling thread has a position (`cpc`), the argument of a blocked `add()`
(`func`) and what the last `wait()` threw (`raised`). `status` and `batch` are
history: how far each job has come, and the jobs submitted since the last
return.

One action is one critical section of `mtx`, or a stretch of code outside it
(`RunWell`, `RunThrows`). Sleeping on a condition is a value of the position;
`notify_all` moves all sleepers to "woken", from where they contend for the
mutex; every sleeper may also wake spuriously. The branch of `work()` that
clears the list is `Clear`, which notifies nobody, as in the code. `add()` is
`AddDrops`, `AddSleeps` or `AddQueues`, then `AddSleepsAgain` or `AddResumes`,
which do not look at `err` again. `join_nothrow` is `RequestJoin` and `Joined`,
shared by `join()`, the destructor and the constructor's failure path.

One thread calls `add`, `wait` and `join`, as the class comment asks. An
exception is identified with the job that threw it; its type and text are left
out. A job is added once.

### JobBatch

What the class comments of `thread_pool.hpp` promise, without threads: jobs
are submitted, begin, end well or throw; once one has thrown the pending ones
may be cancelled; `wait()` returns only to a quiet pool and normally only if
nothing failed. `ThreadPool!KeepsPromise` states that the pool implements it.
In the refinement mapping an exception counts as waiting from the moment a
worker carries it, not only once it is in `err`.

### DecodeRows

`decode_data`, `decode_row`, `decode_range`, `send_abort` and the end of
`decode` in `src/xrsdb/apps/search.cpp`. Process 0 is the main thread, process
`r` the job that computes the spans that end at vertex `r`. `chrthlds` holds
the holds of each span, `done` the spans that are final, `left[r]` the span row
`r` is at. A row's positions follow its loop: `compute`, `row_done` (last span:
lower `active_rows`), `release_up` and `notify_up` (the span above, in two
critical sections as in the code), `release_left`, `await`/`asleep`/`woken`
(the next span of its own row), `notify_total` (row `N`), and for an exception
`abort_set`, `abort_rows`, `abort_last` (the steps of `send_abort`), `threw`.
`at[p]` is the loop variable of `send_abort`: rows are notified one by one.

`spanpool` is the FIFO with `NumThreads` threads that ThreadPool models;
here `PoolTakes`, `PoolClears` and `PoolReports` say what the rows can see of
it: jobs begin in the order they were added, at most `NumThreads` at a time, and
none begins once the pool has an exception.

A span's content is left out: `Compute` either adds the span to the chart or
throws, where the spans of `MayThrow` may throw at any time, a span that is
skipped (`limit_syntax_length`) does not, and a span with a hold throws the
`logic_error` of the code. `LoadThrows` is an exception out of the loading of a
grammar cluster in the main thread: `decode_range` is then left with rows
running, the destructor sends the abort and the members that come after
`spanpool` in the class are destroyed before the pool is joined. From then on
locking a destroyed mutex may fail (`MutexGone`) or seem to work. `sortpool`
(line 2636) is one of those members: a row that hands it a sort after its
workers have left waits for ever (`SortLost`, position `sort_lost`).

`jobs_done.wait(lk)` has no loop around it in the code, so the model's sleeper
goes on at the first notification and not before.

### SignatureCache

`make_res`, `sort_res` and `sortit` of `search.cpp`. A row calls the cache with
any signature, looks it up under the cache's lock (`Find`), takes the lock of
the bucket, looks it up again, loads the trie, hands every large piece of it to
`sortpool` (`Count`, then `Add`: the counter is raised before the job is
queued), sorts the rest itself, waits at the bucket's condition until the
counter is zero, looks it up twice more (`Check`, `Insert`: a hit is a
`logic_error`) and publishes it. The cache's own reader-writer lock is held for
a single look-up or insertion, which is one step here. `sortpool` has the
workers of ThreadPool as its callers see them: FIFO, sleep, jobs that throw
(bounded by `MaxThrows`), a list that is cleared after an exception, an `add()`
that drops jobs. Nobody calls its `wait()` while rows run, so that `err` stays.
`RowThrows` is an exception in the row itself, out of loading, `add()`, its own
sort or the insertion: the lock is released, nothing is published, and jobs that
were handed out go on with a pointer to a counter that is gone; from what they
find there they may or may not notify the bucket (`Lower`).
`Pieces[s]` is how many pieces of the trie of `s` exceed 1000 rules. Buckets
are shared by signatures, so that a notification wakes rows of other tries too
and a row with a small trie waits for one with a large trie.

### CkyParse

`parse_robust`, `threaded_parse_cky`, the two methods of
`limit_syntax_length_generator` and the bookkeeping of `filter_bank`, composed
with `Pool == INSTANCE JobBatch WITH Jobs <- Spans`: what CkyParse shows holds
over every pool that keeps the promise, and ThreadPoolRefinement proves that
`thread_pool` does. Jobs and the caller may throw (`JobThrows`, `CallerThrows`);
so may the making of the filter bank and of the threads inside the `try`
(`AttemptThrows`) and the initialisation of the chart before it (`SetupThrows`,
which leaves `parse_robust` without a retry). "memory" is what a retry follows,
bad_alloc or a thread that cannot be made, "other" anything else. `Unwind` is the pool's destructor during an exception; `Retry`
leaves `adjusted` alone because of the `continue` in front of
`adjust_for_retry`. A filter is absent, open or, once finalized, null.

### MpiServ

`mpiserv.cpp` and `rhpipe.cpp`. Rank 0 submits, rank 1 receives, the others are
clients with two threads, a mutex and a child. One action is one critical
section of the client's mutex or the handling of one message; a feeding thread
that blocks in `world.recv` with the mutex is at `recv`, and the actions of
the reading thread are disabled meanwhile. `net[r]` holds the messages to a
rank; any message may be received that is the first of its sender (MPI's order),
where one that is not the oldest counts as overtaking. The child takes lines
and gives results; a result can be read only when the next one has begun or the
child's output has ended. Children may die at any time, with or without a last
answer, and may fail to start; both count as faults. `loadmax` is the constant
2 of the code: with 1 no result would ever be complete.

### DecoderDriver

`Decoder` of `sbmt_decoder.py` and its child, whose side is translated from
`decode_sequence_reader.cpp` and `search.cpp`: the depth of its grammar stack,
its weights, instructions and answers under way. An answer remembers the
sentence, weights and number of grammars it was made with.

Weights are one number. They are sent as text, which is shorter than the number
(`%g` has six digits) while `oldweights` keeps the exact vector: `Shown` is what
the text stands for and `Rounding` how far that may be from the number. A child
sums up what it is shown, so that its weights drift from the driver's until it
is replaced.

With `newline-after-pop` and `join_forests` (`decodescript.py`) a line comes out
only after `pop-grammar;`: `joined` says that the child is such a one and `held`
is the line held back. The child may die and give bad lines any number of times.

`check` keeps the four outcomes of a line: end of file and a line that is no
forest lead back to the top of the loop without a restart, a line whose parts
do not parse raises, a forest is accepted if the child lives. After
`MaxRestarts` restarts the dummy forest is returned. What is sent to a dead
child is lost.

### Trainer

`main` of `trainer.py` with `pmap_master` and `pmap_slave` of `parallel.py`. The
master's variables `idle`, `busy`, `output` are those of `pmap_master`; sends
are asynchronous. A slave receives updates of the others at any sentence
(`MPI.ANY_SOURCE` with a probe: any part of what has arrived), optimises over
them and its own, and keeps `sumweights_helper` and `nweights` as the code does;
`trained` is the history the average is compared with. Weights are one
fraction, the optimisation adds `Delta(k)` for k sentences: different for
different k, so that a wrong count shows. Updates may pile up from epoch to
epoch, so k is bounded only by the sentences all slaves have been given.
Sentences that are not decoded (`Fail`) raise `decoder_errors` and past the limit
the slave raises. The code loops for ever (`loop_forever`) and ends only by the
stop file, which may appear at any time and which each process looks for by
itself at the end of an epoch. `Iterations` is the model's bound: in the last
epoch a process does not look before there is a stop file (`Looks`), so that
nothing ends that would go on in the code.

## 3. Runs

All runs on two cores; the longest, `mpiserv`, takes about two minutes.

| run | instance | shows |
|---|---|---|
| `pool` | 2 workers, 3 jobs (2 may throw), list never full | `WaitIsBarrier`, `NormalReturnMeansAllRan`, `NoLostWakeup`; `WaitTerminates`, `JoinTerminates`; `KeepsPromise` (refinement of JobBatch) |
| `pool_bounded` | 2 workers, 3 jobs, `max_jobs = 1`, no exception | `CountsAgree`, `AddTerminates` |
| `pool_stale_error` | as `pool` | `CancelledOnlyByBatch` is violated (finding 1) |
| `decode_rows` | 4 words, 3 threads, 3 spans may throw, spans longer than 2 skipped | `InsideIsFinal`, `ThrottleHolds`, `NormalReturnMeansChartFull`, `RowSleepsForAReason`; `RowsEnd`, `MainReturns` |
| `decode_rows_load` | the same, spans longer than 1 skipped, loading may throw | `NobodySleepsOnDestroyed`; `DestructorEnds` |
| `signature_cache` | 2 rows of 2 calls, 2 sorters, 3 signatures with 2, 0, 1 jobs in 2 buckets, 1 sort that throws, rows that throw | `LoadedOnce`, `SortedBeforePublished`, `CountIsLive`; `CallsReturn` |
| `cky` | 5 words, limit 3, 1 retry, 3 exceptions | `CombinesFinal`, `ReturnsFullChart`, `AttemptsDoNotMix`; `ParseEnds` |
| `cky_retry` | 1 retry | `RetryIsTighter` is violated (finding 2) |
| `cky_limit` | limit 2 | `GivenLengthIsBuilt` is violated (finding 3) |
| `mpiserv` | 5 lines, 2 clients, 1 fault or overtaking | `LoadsAgree`, `AnsweredOnce`, `ResultsMatchJobs`; `Ends` |
| `decoder_driver` | 3 sentences (one without `pop-grammar;`), 4 weights of two digits shown with one, age 3, 3 restarts; any number of calls, deaths and bad lines | `WeightsArrive`, `AcceptsItsAnswer`; `TranslateReturns` |
| `trainer` | 2 slaves, 2 training and 3 held-out sentences, 2 epochs, 3 failures, a stop file at any time or never | `ResultsInOrder`, `HeldoutUsesAverage`, `TrainingResumes`; `TrainingEnds` |

The runs of the last five modules also check `TypeOK`. That of ThreadPool and
DecodeRows is proved for every size (section 5).

Bounds. Two workers are the least for which "the last one awake" and two
exceptions at once matter; with three jobs both workers can be busy while one
job waits, and a second batch can follow an exception. `max_jobs = 1` makes the
list full with one job waiting. Four words give ten spans, rows of every
length up to four, and a span (0,4) two levels above its nearest held
neighbours; three threads make the throttle (fewer threads than rows), the
queue and three rows sleeping in a chain all occur. The three spans that may
throw are one adjacent span, one in the middle and one that ends a row. The
proofs remove the bounds for the safety properties of all modules (section 5);
only the liveness properties rest on them.
In SignatureCache the two rows can want the same trie, two tries of one bucket
or of two, and a second call meets what the first one left; a trie with two
jobs can have one sorted and one lost. Five words in CkyParse give spans below,
at and above the limit with several ways to split them; three exceptions reach
a job, its neighbour and the retry. In MpiServ four lines fill both clients, so
that the fifth needs the exchange of loads; with one fault a client dies with
two jobs and they are tried again, and a process that does not start rejects
its jobs (three lines with two faults pass as well, which lets a retry fail
again). In DecoderDriver a child of age three has been sent three differences,
whose roundings of up to four units add up (the bound of `WeightsArrive` is
reached: a smaller one is violated), and no bound is put on calls, deaths or bad
lines. In Trainer the replies of two slaves cross, an update can be late by a sentence, an
epoch or two, and three held-out failures reach the training limit through the
shared counter.

Fairness. Weak fairness of each worker, row, rank and thread and of the caller
inside a call: the operating system runs a thread that can run, a mutex that is
free is obtained, jobs and children that were given work end it, and MPI
delivers. No fairness for spurious wakeups, exceptions, deaths, messages that
overtake, the stop file, and for the caller's next call: nothing in the code
promises them.

Deadlock is not checked where the modelled system stops or, in a case the
property names, hangs: a pool that is destroyed, a sentence that is finished,
rows that have made their calls or wait for a lost sort, `mpiserv` after an
overtaking, slaves that raised or saw the stop file alone, or are in the last
epoch of the bound without one. The liveness properties say when it may not
stop.

## 4. Findings

1. `CancelledOnlyByBatch`, `thread_pool.cpp:175` and `:206`: a worker's local
   `e` is never reset, so a later job that ends well hands the old exception
   over again and cancels jobs of a batch in which nothing threw.
2. `RetryIsTighter`, `parse_robust.hpp:117`: a `continue` jumps over
   `adjust_for_retry`, so that the log's "trying again with tighter beams" is
   not true and the retry meets the same memory. In the shortest run the
   threads of the first attempt cannot be made; a job that runs out of memory
   leads to the same `continue`.
3. `GivenLengthIsBuilt`, `span.cpp:353`: `shifts` leaves out spans of exactly
   the limit, which the option's text and `partitions` allow.

Weak places that no line of the repository contradicts, or that no caller
reaches; the properties are stated around them and the models show them when
the exception in the property is dropped:

* `thread_pool.cpp:190`: the branch that clears the list after an exception
  does not notify `pending_space_available`; an `add()` blocked on a full list
  sleeps for ever. No caller builds a pool with a finite `max_jobs`. The class
  comment also says that the last exception is thrown; the code keeps the first.
* `search.cpp:3262`: if row `N` announces the total span before the main
  thread sleeps on `jobs_done`, the notification is lost (`MainReturns`).
* `search.cpp:3238`: an exception of the cluster loader destroys the mutex, the
  conditions and `sortpool` of the sentence while rows still run. No row is left
  asleep on them (`NobodySleepsOnDestroyed`), but one that runs may lock what is
  gone, or wait for a sort that nobody does, and then the join of `spanpool`
  hangs (`DestructorEnds`).
* `search.cpp:1396`: a sort that throws, or is dropped after one that did,
  leaves its row waiting, and with it the rows of its bucket (`CallsReturn`).
  Lines 1396, 1432, 1437: an exception of the row itself leaves jobs with a
  pointer to a local variable that is gone (`CountIsLive`).
* `mpiserv.cpp:294`: when the receiver's flush overtakes the submitter's last
  task the client waits for a message with the mutex its result needs (`Ends`).
* `sbmt_decoder.py:259`: with a dead child, or a living one that never gives a
  forest, `translate()` asks for ever, as the comment at line 262 fears
  (`TranslateReturns`). Line 229: the line is read before `pop-grammar;` is
  sent, so that a child behind `join_forests` and the driver wait for each
  other. Lines 175-185: differences are rounded to six digits and the exact
  vector is kept, so that the roundings add up; only the replacement of the
  child after `MaxAge` sentences bounds the drift. Line 224 names a variable that is not defined, so that
  an instruction without `pop-grammar;` costs four restarts and gives the dummy
  forest.
* `trainer.py:532`: processes look for the stop file separately and may part
  (`TrainingEnds`). Line 254: failures of held-out sentences count against the
  lower limit of training sentences, and a slave that raises leaves the master
  waiting. Updates sent in the last sentences of an epoch are received in the
  next, and those of the last epoch never.

## 5. Proofs

The assumptions are the named ones of the modules: sizes and limits are natural
numbers, positive where the code's own constant or use is (`NumThreads`,
`loadmax`, `max_attempts`, `MaxAge`, the error limits); there is at least one
client and one slave; the sets of workers and slaves are finite; `None`, `none`
and `noparse` are no jobs, rows, signatures or sentences; the tables of the
cache are defined for every signature; weights and the changes `Delta` makes to
them are integers; the text of a difference of weights stands for an integer no
further from it than `Rounding`, and that of 0 for 0. Nothing else is assumed.

In each module an inductive invariant was first checked by TLC on instances
like those of section 3 and then proved. Two kinds of induction are needed that
the library's theorems cannot give here: over what is in a queue, and over the
slaves. The first is avoided by bounding the queue (DecoderDriver) or stating
the invariant with cardinalities (MpiServ), the second is done with the least
counterexample (TrainerProofs).

### The pool: ThreadPoolProofs, ThreadPoolRefinement

* `TypeCorrect`, `CountsCorrect`. `TypeOK` is not inductive: that the counters
  do not go below zero needs that they count something. `CountInv` adds
  `CountsAgree` (`worker_count` is the cardinality of the awake threads), with
  `AddHasJob` (a sleeping `add()` has a job to queue); the cardinality facts are
  `AwakeShrinks`, `AwakeStays`, `AwakeCounts` and their like.
* `WakeupsCorrect`. `Control` relates `join_requested` and the positions of
  the workers to the caller's; with it every step keeps `NoLostWakeup`.
* `BarrierCorrect`. `JobPlaces`: a job is pending exactly when it is in the
  list, running exactly when one worker holds it. A quiet pool then has none.
* `NormalReturnCorrect`. `ErrorKept`: until it is rethrown, a lost job of the
  batch leaves a trace in `err` or in a worker that is about to report.
* `PoolKeepsPromise`. Each action of the pool maps to a step or a stutter of
  JobBatch, under these invariants and `ErrorsAreThrown` (what the pool
  carries was thrown by a job).

### The chart parse: DecodeRowsProofs

For all `N`, `NumThreads`, `MayThrow` and `limit_syntax_length`.

The first lemmas reduce the twenty-odd actions to what they do to rows.
`Shape` is the part of the type invariant that is inductive by itself (with
integers for the counters), with what each position says about its indices.
`AllSteps` shows that every step is `Quiet` (moves rows, leaves chart, holds
and positions in the row alone) or is one of five loud steps of one row.

* `RowsReadFinalSpans` (`InsideIsFinal`). `Settled`: a row's spans are final
  from right to left up to where the row is. `Counted`: span (l,r) has at least
  as many holds as are still owed, where the row below owes one until it has
  finished (l,r-1) and released, and the row itself until it has finished
  (l+1,r) and released. So a span without holds has both neighbours final;
  `Closed` (the chart contains everything inside what it contains) does the
  rest: everything inside (l,r) is a neighbour or inside one.
* `RowsAreThrottled` and `TypeCorrect`. The rows that have been admitted and not
  been through `RowDone`, and one more while the main thread is between
  `Load` and `Add`, are at most `active_rows`; the counters are therefore
  natural numbers.
* `NothingIsLostSilently` (`NormalReturnMeansChartFull`). `Reported`: until
  `spanpool.wait()` is back, a raised `abort` means that the pool has an
  exception or a row carries one to it; a row dropped means the pool has one; a
  row that ended early means an exception or an abort; and the main thread
  leaves its loop early only for an abort. When all rows are over and there is
  no exception, each row has finished its last span.
* `NoLostWakeup` (`RowSleepsForAReason`). `HeldAsleep`: who takes the last hold
  of a sleeper's span is at `notify_up`. `AbortedAsleep`: nobody goes to sleep
  after the flag is up, and `send_abort` has not passed a sleeper.
* `DestructorWakesEveryRow` (`NobodySleepsOnDestroyed`), also when loading
  throws. `Passed`: the rows that the destructor's `send_abort` has notified are
  awake, and stay so because the flag is up before the first is notified and
  nobody goes to sleep after it. `EndSteps` says which steps the main thread has
  left by then.

### The signature cache: SignatureCacheProofs

For all rows, workers, signatures, buckets and sizes of tries, and however many
sorts throw.

* `TriesLoadedOnce` (`LoadedOnce`). `Locked`: a row between its second look-up
  and the insertion is the holder of its signature's bucket, so that two such
  rows differ in bucket and signature. `StillAbsent` follows: only the holder
  inserts. Most steps are `Sheltered` (they touch neither cache nor locks).
* `CountersOutliveJobs` (`CountIsLive`) and `TypeCorrect`, for calls that the row
  itself did not leave by an exception, whatever jobs other rows left behind. How
  each step changes
  the number of a row's jobs is stated once (`OutstandingAdd`, `OutstandingTake`,
  `OutstandingClear`, `OutstandingDone`) over cardinality lemmas for the list
  and for the workers; taking the head of the list is a bijection between
  positions. `NoneThrown` gives the equality as long as nothing was thrown.
* `PublishedSorted` (`SortedBeforePublished`). `Accounted`: a piece that was
  handed out and is not sorted has a job, or the counter exceeds the jobs; a
  lost job is never made up for. So a counter of zero means that nothing is
  left. This needs `CountIsLive` first.

### The CKY parse: CkyParseProofs

For all lengths, limits, numbers of retries and of exceptions, and from JobBatch
alone. With `PoolKeepsPromise` the results hold over `thread_pool`.

`CkyInv` says that jobs exist only between `add()` and the return of `wait()` or
the end of the destructor (`PoolAtRest`), that they are all of the present
length and everything shorter that is generated is final (`OneLength`), that a
job that ended well left its span in the chart and a null filter belongs to such
a job (`Results`), and that no span of the length is skipped and no failure is
forgotten as long as the attempt goes on (`NoneForgotten`). `LengthDone` is the
heart: when `wait()` has returned normally every span of the length is neither
new, at work, thrown nor cancelled, hence final. `SpansInOrder`, `ChartIsFull`,
`AttemptsAreApart` and `TypeCorrect` read off the invariant. `FirstSplit` shows
that a span of two words or more always has a first split under the limit.

### mpiserv: MpiServProofs

For all numbers of clients, lines, attempts, faults and overtakings, and with
messages of different senders in any order.

A task is carried by a message (to the receiver or to a client) or by a client's
queue. `Apart`: no task is carried twice, in one place or in two. `OnlyOpen`:
what is carried has been submitted and is not answered. `Recorded` ties
`minrecv` and `jobs_out`, the window in which the receiver keeps answers, to the
number of answers of each line. None of them is inductive alone: a second
answer is excluded because a carried task is open, and that it is carried once
because every handler that puts it somewhere takes it from somewhere.

* `EachLineOnce` (`AnsweredOnce`) reads off `Recorded`: when the receiver is done
  all of its window is answered, and nothing that is carried can be answered
  again.
* `LoadsAlwaysAgree` (`LoadsAgree`). The submitter adds to its table for each job,
  the receiver's differences are subtracted later, and both are compared with
  the jobs themselves: on the way, queued, on the way back. The cardinality
  lemmas say what removing and appending a message does to the places of a kind
  of message. `OneRequest` (request, pending answer and answer under way are one
  while the submitter waits, else none) makes the reported table unique.
* `ResultsAlwaysMatch` (`ResultsMatchJobs`). `Phases` gives for each client what
  the positions of its two threads and the state of its child leave of the
  queue: while the child lives the results in the pipe and the inputs it has are
  the queue, less the job that is to be written; a reader that is done left
  nothing. With it, a result can be attributed to the head of the queue.
* `TypeCorrect`, with the bound `loadmax` of each queue.

### The driver: DecoderDriverProofs

For all sentences, weights, texts of weights, restarts and ages, and both kinds
of children.

`UnderWay` lists, for each position of `translate()`, what may be between the
driver and a living child: the `pop-grammar;` of the sentence before, then the
weights, then the request, in this order and without what the child has read.
It follows that at most three instructions and one answer are ever under way,
whatever died and was asked again, and `Brought` (what the weights become when
the instructions are read) needs no induction.

* `WeightsAlwaysArrive` (`WeightsArrive`): each of these lists brings the child to
  within `(decoder_age + 1) * Rounding` of `oldweights`; a difference adds one
  rounding, and it is sent once per sentence that makes the child older (`Room`).
  A new child starts without weights and `oldweights` is forgotten, so that it is
  sent all of them.
* `OnlyItsAnswer` (`AcceptsItsAnswer`, an action property). `Answered` and
  `Asked`: an answer exists only while the driver reads, and was made for the
  sentence, weights (up to the drift) and one grammar it asked for.
* `TypeCorrect`: in particular no more grammars are popped than were pushed, and
  `join_forests` holds at most one line (`Answered`).

### The trainer: TrainerProofs

For all numbers of slaves, training and held-out sentences, epochs and failures.

A slave may be a part of an epoch away from the master, with messages of two
parts in its queue. `Place` lists where: `With` the master (four cases of what
it has read and answered), `Behind` (the master began the held-out pass, the
slave has not received the average), `Late` (the master is in the next epoch)
and `Ahead` (the slave is, because processes leave the held-out pass one by
one). Each of the steps of a slave and of the master keeps the list.

* `ResultsAlwaysInOrder` (`ResultsInOrder`). A reply carries no number, it is
  taken for the input `busy[s]`; `Answer` says it is the reply to it, because
  by `Place` a slave has at most one input and one reply of the present part.
  `Shared`: each input that was sent and not yielded is with one slave or in the
  heap, never in both, and the heap has no entry that could be yielded. `Flush`
  yields a run of consecutive entries, whose end is given by `FlushFacts`.
* `HeldoutAlwaysAveraged` (`HeldoutUsesAverage`) and `TrainingAlwaysResumes`
  (`TrainingResumes`). `Weights`: of every slave `nweights * last - helper` is the
  sum of the weights after each of its updates, its own weights are put aside
  exactly during the held-out pass, and what is gathered or broadcast is present
  only between the two collective calls. `Averaged` adds up the slaves; that
  the sum is an integer for any finite set of slaves is `SumType`, proved with
  the smallest set for which it would not be.
* `TypeCorrect`. That `Delta` is only asked for counts it is defined for needs
  `Counts`: nobody has learned from more sentences than have been sent, and an
  update under way is older than its sender.

### Only model-checked

What depends on fairness, which the prover cannot express: `WaitTerminates`,
`JoinTerminates`, `AddTerminates`, `RowsEnd`, `MainReturns`, `DestructorEnds`,
`CallsReturn`, `ParseEnds`, `Ends`, `TranslateReturns`, `TrainingEnds`. All
invariants, action properties and the refinement that the passing runs check
are proved. The three violated properties are counterexamples found by TLC.

## 6. Not modelled, and plan

Left out for good: what a span contains (rules, scores, pruning), on-disk
formats, language models, feature functions, tuning, rule extraction, parsers
and pipelines. They are sequential, numerical or input and output, and make up
nearly all of the repository's lines: the map names about 1,770 of some 327,000
(0.5 %), which are the concurrent and the distributed parts, so nothing here
speaks for the rest of the decoder. `read_write_mutex` is used by nothing.
Also out: the block and sequential variants of the
CKY parse; which words a later row needs (`usage_begins`, `freelists`), on which
dropping a grammar cluster depends; the text formats between the processes, but
for the rounding of weights; what memory a job overwrites through a pointer to a
counter that is gone; the assertion of `rhpipe::close` on a child that was killed.

Possible next, in this order:

1. The life of grammar clusters (`loadlists`, `freelists`, `drop`) in DecodeRows.
2. DecodeRows and SignatureCache over the two pools of a sentence, so that a lost
   sort stops the rows above it.
3. MpiServ and the trainer's `pmap` as refinements of one abstract task farm
   (each task given out, answered once, results in order).
4. The lazy product and union generators of `gusc` against a sorted
   enumeration, over bounded inputs.
