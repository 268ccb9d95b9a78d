------------------------------ MODULE CkyParse ------------------------------
(***************************************************************************)
(* The bottom-up parse of mini_decoder and its relatives: parse_robust     *)
(* (parse_robust.hpp) calls threaded_parse_cky (threaded_parse_cky.hpp),   *)
(* which hands every span of a length to a thread pool, waits, and goes on *)
(* to the next length.  The jobs work on a filter_bank (filter_bank.ipp).  *)
(* When memory runs out the parse is tried again.                          *)
(*                                                                         *)
(* The pool is the abstract one of JobBatch, which ThreadPool implements;  *)
(* every attempt has a pool and a filter_bank of its own.                  *)
(***************************************************************************)
EXTENDS Naturals

CONSTANTS
    Length,             \* words of the sentence
    max_length,         \* of limit_syntax_length_generator
    max_retries,
    MaxThrows           \* bound on the exceptions

ASSUME CkyAssumption ==
    {Length, max_length} \subseteq Nat \ {0} /\ {max_retries, MaxThrows} \subseteq Nat

Spans == {s \in (0..Length - 1) \X (1..Length) : s[1] < s[2]}
length(s) == s[2] - s[1]
target_span == <<0, Length>>

VARIABLES
    mpc, len, next,     \* the caller: position, length, left end of the next span
    retry_i,
    adjusted,           \* the last argument of adjust_for_retry
    error,              \* kind of the exception that is under way
    throws,
    filter,             \* span_filter_map
    chart,              \* the spans that have been finalized
    split,              \* split[s]: where the job of s is to combine next
    status, failed, phase       \* the pool

Pool == INSTANCE JobBatch WITH Jobs <- Spans

poolvars == <<status, failed, phase>>
bankvars == <<filter, chart, split>>
robustvars == <<retry_i, adjusted, error, throws>>
vars == <<mpc, len, next, robustvars, bankvars, poolvars>>

TypeOK ==
    /\ mpc \in {"init", "leaf", "add", "wait", "join", "unwind", "caught", "returned", "raised"}
    /\ len \in 1..Length + 1 /\ next \in 0..Length
    /\ retry_i \in 0..max_retries /\ adjusted \in 0..max_retries
    /\ error \in {"none", "memory", "other"} /\ throws \in 0..MaxThrows
    /\ filter \in [Spans -> {"absent", "open", "null"}] /\ chart \subseteq Spans
    /\ split \in [Spans -> 0..Length]
    /\ Pool!TypeOK

Init ==
    /\ mpc = "init" /\ len = 1 /\ next = 0
    /\ retry_i = 0 /\ adjusted = 0 /\ error = "none" /\ throws = 0
    /\ filter = [s \in Spans |-> "absent"] /\ chart = {} /\ split = [s \in Spans |-> 0]
    /\ Pool!Init
-----------------------------------------------------------------------------
(* limit_syntax_length_generator; with max_length > Length it generates what *)
(* full_cky_generator does.                                                  *)

shifts(n) == {s \in Spans : length(s) = n /\ (max_length > n \/ s[1] = 0)}

partitions(s) ==
    {k \in s[1] + 1..s[2] - 1 : length(s) > max_length => s[2] - k <= max_length}

Built == (UNION {shifts(n) : n \in 2..Length}) \cup {s \in Spans : length(s) = 1}

First(S) == CHOOSE k \in S : \A j \in S : k <= j
-----------------------------------------------------------------------------
(* filter_bank. *)

get_create(s) == IF filter[s] = "absent" THEN "open" ELSE filter[s]

(* An open filter is emptied into the chart and freed; a second call has no  *)
(* effect.                                                                   *)
finalize(s) ==
    /\ filter' = [filter EXCEPT ![s] = "null"]
    /\ chart' = chart \cup {s}

Throw == throws < MaxThrows /\ throws' = throws + 1
-----------------------------------------------------------------------------
(* The job of a span: combine_span. *)

Begin(s) ==
    /\ Pool!Begin(s)
    /\ split' = [split EXCEPT ![s] = First(partitions(s))]
    /\ UNCHANGED <<mpc, len, next, robustvars, filter, chart>>

Combine(s) ==
    /\ status[s] = "running" /\ split[s] \in partitions(s)
    /\ filter' = [filter EXCEPT ![s] = get_create(s)]
    /\ split' = [split EXCEPT ![s] = @ + 1]
    /\ UNCHANGED <<mpc, len, next, robustvars, chart, poolvars>>

Finish(s) ==
    /\ split[s] \notin partitions(s)
    /\ finalize(s)
    /\ Pool!End(s) /\ status'[s] = "ok"
    /\ UNCHANGED <<mpc, len, next, robustvars, split>>

JobThrows(s) ==
    /\ Pool!End(s) /\ status'[s] = "threw"
    /\ Throw /\ error' \in IF error = "none" THEN {"memory", "other"} ELSE {error}
    /\ UNCHANGED <<mpc, len, next, retry_i, adjusted, bankvars>>

Cancel ==
    /\ Pool!Cancel /\ status' # status
    /\ UNCHANGED <<mpc, len, next, robustvars, bankvars>>

combine_span(s) == Begin(s) \/ Combine(s) \/ Finish(s)
-----------------------------------------------------------------------------
(* threaded_parse_cky. *)

(* chart_init, a new filter_bank and a new pool. *)
Attempt ==
    /\ mpc = "init" /\ mpc' = "leaf"
    /\ chart' = {} /\ filter' = [s \in Spans |-> "absent"]
    /\ split' = [s \in Spans |-> 0]
    /\ status' = [s \in Spans |-> "new"] /\ failed' = FALSE /\ phase' = "open"
    /\ len' = 1 /\ next' = 0
    /\ UNCHANGED robustvars

(* chart_init and the reserve of memory come before the try: an exception    *)
(* there leaves parse_robust, whatever its kind and the retries left.        *)
SetupThrows ==
    /\ mpc = "init" /\ mpc' = "raised"
    /\ Throw /\ error' \in {"memory", "other"}
    /\ UNCHANGED <<len, next, retry_i, adjusted, bankvars, poolvars>>

(* The filter_bank cannot be made, or the threads cannot be started. *)
AttemptThrows ==
    /\ mpc = "init" /\ mpc' = "caught"
    /\ Throw /\ error' \in {"memory", "other"}
    /\ UNCHANGED <<len, next, retry_i, adjusted, bankvars, poolvars>>

(* A word cannot be finalized, or a job cannot be queued. *)
CallerThrows ==
    /\ mpc \in {"leaf", "add"} /\ mpc' = "unwind"
    /\ Throw /\ error' \in {"memory", "other"}
    /\ UNCHANGED <<len, next, retry_i, adjusted, bankvars, poolvars>>

(* Mutation: the pool's destructor does not wait for the jobs. *)
UnwindDetached ==
    /\ mpc = "unwind" /\ mpc' = "caught"
    /\ phase' = "closed"
    /\ UNCHANGED <<len, next, robustvars, bankvars, status, failed>>

Unwind ==
    /\ mpc = "unwind" /\ mpc' = "caught"
    /\ Pool!Close
    /\ UNCHANGED <<len, next, robustvars, bankvars>>

Leaf ==
    /\ mpc = "leaf" /\ next < Length
    /\ finalize(<<next, next + 1>>)
    /\ next' = next + 1
    /\ UNCHANGED <<mpc, len, robustvars, split, poolvars>>

(* Mutation: the length is not advanced. *)
SameLength ==
    /\ \/ mpc = "leaf" /\ next = Length
       \/ mpc = "wait" /\ phase = "returned"
    /\ mpc' = IF len < Length THEN "add" ELSE "join"
    /\ len' = (IF mpc = "leaf" THEN 2 ELSE len) /\ next' = 0
    /\ UNCHANGED <<robustvars, bankvars, poolvars>>

NextLength ==
    /\ \/ mpc = "leaf" /\ next = Length
       \/ mpc = "wait" /\ phase = "returned"
    /\ mpc' = IF len < Length THEN "add" ELSE "join"
    /\ len' = len + 1 /\ next' = 0
    /\ UNCHANGED <<robustvars, bankvars, poolvars>>

Add ==
    /\ mpc = "add" /\ next + len <= Length
    /\ LET s == <<next, next + len>> IN
        IF s \in shifts(len) THEN Pool!Submit(s) ELSE UNCHANGED poolvars
    /\ next' = next + 1
    /\ UNCHANGED <<mpc, len, robustvars, bankvars>>

Added ==
    /\ mpc = "add" /\ next + len > Length
    /\ mpc' = "wait"
    /\ UNCHANGED <<len, next, robustvars, bankvars, poolvars>>

(* Mutation: pool.wait() is left out. *)
NoWait ==
    /\ mpc = "wait" /\ phase = "open"
    /\ phase' = "returned"
    /\ UNCHANGED <<mpc, len, next, robustvars, bankvars, status, failed>>

Wait ==
    /\ mpc = "wait" /\ phase = "open"
    /\ Pool!Return
    /\ UNCHANGED <<mpc, len, next, robustvars, bankvars>>

WaitThrows ==
    /\ mpc = "wait" /\ phase = "raised"
    /\ mpc' = "caught"
    /\ UNCHANGED <<len, next, robustvars, bankvars, poolvars>>

(* The target is finalized once more, and the pool is joined. *)
Join ==
    /\ mpc = "join"
    /\ finalize(target_span)
    /\ Pool!Close
    /\ mpc' = "returned"
    /\ UNCHANGED <<len, next, robustvars, split>>

threaded_parse_cky ==
    Attempt \/ Leaf \/ NextLength \/ Add \/ Added \/ Wait \/ WaitThrows \/ Join
    \/ Unwind
-----------------------------------------------------------------------------
(* parse_robust: the loop, after an exception.  Only bad_alloc and           *)
(* thread_resource_error are caught.                                         *)

(* Mutation: the exception is forgotten and the chart taken as it is. *)
GiveUpSilently ==
    /\ mpc = "caught" /\ (error = "other" \/ retry_i = max_retries)
    /\ mpc' = "returned"
    /\ UNCHANGED <<len, next, robustvars, bankvars, poolvars>>

GiveUp ==
    /\ mpc = "caught" /\ (error = "other" \/ retry_i = max_retries)
    /\ mpc' = "raised"
    /\ UNCHANGED <<len, next, robustvars, bankvars, poolvars>>

(* Mutation: one retry too many. *)
RetryOnceMore ==
    /\ mpc = "caught" /\ error = "memory"
    /\ retry_i' = retry_i + 1
    /\ error' = "none"
    /\ mpc' = "init"
    /\ UNCHANGED <<len, next, adjusted, throws, bankvars, poolvars>>

Retry ==
    /\ mpc = "caught" /\ error = "memory" /\ retry_i < max_retries
    /\ retry_i' = retry_i + 1
    /\ error' = "none"
    /\ mpc' = "init"
    /\ UNCHANGED <<len, next, adjusted, throws, bankvars, poolvars>>

Ended == mpc \in {"returned", "raised"}

Terminated == Ended /\ UNCHANGED vars

Next ==
    \/ threaded_parse_cky \/ SetupThrows \/ AttemptThrows \/ CallerThrows \/ GiveUp \/ Retry \/ Terminated
    \/ \E s \in Spans : combine_span(s) \/ JobThrows(s)
    \/ Cancel

Spec == Init /\ [][Next]_vars

FairSpec ==
    /\ Spec
    /\ WF_vars(threaded_parse_cky) /\ WF_vars(GiveUp \/ Retry)
    /\ \A s \in Spans : WF_vars(combine_span(s))
-----------------------------------------------------------------------------
(* Properties. *)

(* Lengths are separated only by pool.wait(): whatever a job combines is      *)
(* already final, unless no job builds it in the whole parse, and the job's   *)
(* own filter, which finalize() sets to null, is still there.                 *)
CombinesFinal ==
    \A s \in Spans : status[s] = "running" /\ split[s] \in partitions(s) =>
        /\ {<<s[1], split[s]>>, <<split[s], s[2]>>} \cap Built \subseteq chart
        /\ filter[s] # "null"

(* parse_robust returns only with a chart in which every span that the        *)
(* generator names is final, and the target: not with the remains of an       *)
(* attempt that ran out of memory, nor with jobs that were cancelled.         *)
ReturnsFullChart == mpc = "returned" => Built \cup {target_span} \subseteq chart

(* A job never outlives the attempt that started it: after an exception the   *)
(* filter_bank and the pool of edges are reset while nobody uses them.        *)
AttemptsDoNotMix == mpc \in {"init", "caught", "returned", "raised"} => Pool!Quiet

(* The parse ends, with a chart or with an exception. *)
ParseEnds == <>Ended

(* span_filter_interface.hpp: "Another one handles falling back to            *)
(* increasingly tighter filters"; each attempt is to have the adjustment of   *)
(* its number.                                                                *)
RetryIsTighter == mpc = "leaf" => adjusted = retry_i

(* mini_decoder_filters.cpp on limit-syntax-length: "limits syntax            *)
(* applications to foreign spans of given length.  longer spans will be       *)
(* restricted to glueing": spans up to that length are to be built.           *)
GivenLengthIsBuilt ==
    mpc = "returned" => {s \in Spans : length(s) <= max_length} \subseteq chart
=============================================================================
