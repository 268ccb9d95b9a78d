-------------------------- MODULE CkyParseProofs ----------------------------
(***************************************************************************)
(* Proofs about CkyParse, for sentences of any length, any limit on the    *)
(* length of spans and any number of retries.  Of the pool they use only   *)
(* what JobBatch says.                                                     *)
(***************************************************************************)
EXTENDS CkyParse, TLAPS

Working == {"pending", "running"}

-----------------------------------------------------------------------------
(* Spans. *)

(* Ends and length of a span. *)
LEMMA SpanFacts ==
    ASSUME NEW s \in Spans
    PROVE  /\ s[1] \in Nat /\ s[2] \in Nat /\ s[1] < s[2] /\ s[2] <= Length
           /\ s = <<s[1], s[2]>> /\ length(s) \in Nat /\ length(s) >= 1 /\ length(s) <= Length
BY CkyAssumption DEF Spans, length

(* Two numbers in order are a span. *)
LEMMA IsSpan ==
    ASSUME NEW i \in Nat, NEW k \in Nat, i < k, k <= Length
    PROVE  <<i, k>> \in Spans /\ length(<<i, k>>) = k - i
BY CkyAssumption DEF Spans, length

(* What is put together are two shorter spans. *)
LEMMA PartitionFacts ==
    ASSUME NEW s \in Spans, NEW k \in partitions(s)
    PROVE  /\ k \in Nat /\ k < s[2] /\ k + 1 \in 0..Length
           /\ <<s[1], k>> \in Spans /\ length(<<s[1], k>>) < length(s)
           /\ <<k, s[2]>> \in Spans /\ length(<<k, s[2]>>) < length(s)
<1>1. k \in Nat /\ s[1] < k /\ k < s[2]
  BY SpanFacts, CkyAssumption DEF partitions
<1>. QED BY <1>1, SpanFacts, IsSpan, CkyAssumption DEF length

(* A span of two words or more can be split, and there is a first split. *)
LEMMA FirstSplit ==
    ASSUME NEW s \in Spans, length(s) >= 2
    PROVE  First(partitions(s)) \in partitions(s)
<1>. DEFINE k == IF length(s) > max_length /\ s[2] - max_length > s[1] + 1
                 THEN s[2] - max_length ELSE s[1] + 1
<1>1. /\ s[1] \in Nat /\ s[2] \in Nat /\ s[1] < s[2] /\ length(s) = s[2] - s[1]
      /\ max_length \in Nat /\ max_length >= 1
  BY SpanFacts, CkyAssumption DEF length
<1>2. k \in partitions(s)
  BY <1>1 DEF partitions
<1>3. \A j \in partitions(s) : k <= j
  BY <1>1 DEF partitions
<1>. HIDE DEF k
<1>. QED BY <1>2, <1>3 DEF First

(* The generated spans of a length, and those of one word. *)
LEMMA BuiltFacts ==
    /\ \A s \in Built : s \in Spans
    /\ \A s \in Built : length(s) >= 2 => s \in shifts(length(s))
    /\ \A n, s : s \in shifts(n) => s \in Spans /\ length(s) = n
<1>1. \A n, s : s \in shifts(n) => s \in Spans /\ length(s) = n
  BY DEF shifts
<1>2. ASSUME NEW s \in Built PROVE s \in Spans /\ (length(s) >= 2 => s \in shifts(length(s)))
  <2>1. CASE s \in Spans /\ length(s) = 1
    BY <2>1
  <2>2. CASE \E n \in 2..Length : s \in shifts(n)
    BY <1>1, <2>2
  <2>. QED BY <2>1, <2>2 DEF Built
<1>. QED BY <1>1, <1>2

(* Generated spans that are shorter than n. *)
Below(n) == {s \in Built : length(s) < n}

-----------------------------------------------------------------------------
(* The invariant. *)

(* Where the caller is says what it is at. *)
Positions ==
    /\ mpc = "leaf" => len = 1
    /\ mpc \in {"add", "wait"} => len \in 2..Length
    /\ mpc = "join" => len = Length + 1

(* The pool works only between the first add() and the return of wait(), or  *)
(* until it is destroyed; wait() has thrown only where the caller looks.     *)
PoolAtRest ==
    /\ mpc \notin {"add", "wait", "unwind"} \/ phase # "open" => Pool!Quiet
    /\ mpc \in {"leaf", "add", "join", "unwind"} => phase \in {"open", "returned"}
    /\ phase = "returned" => ~failed

(* Jobs are those of the present length, and everything shorter is final.    *)
OneLength ==
    /\ \A s \in Spans : status[s] \in Working => s \in shifts(len) /\ len >= 2
    /\ mpc \in {"add", "wait", "join"} \/ ~Pool!Quiet => Below(len) \subseteq chart
    /\ mpc = "leaf" => \A i \in Nat : i < next => <<i, i + 1>> \in chart

(* What a job has left behind. *)
Results ==
    /\ \A s \in Spans : status[s] = "ok" => s \in chart
    /\ mpc # "returned" =>
        \A s \in Spans : filter[s] = "null" => length(s) = 1 \/ status[s] = "ok"

(* No span of the present length is forgotten, and no job fails in silence.  *)
NoneForgotten ==
    /\ mpc = "add" => \A s \in shifts(len) : s[1] < next => status[s] # "new"
    /\ mpc = "wait" => \A s \in shifts(len) : status[s] # "new"
    /\ mpc \in {"leaf", "add", "wait", "join"} /\ ~failed /\ phase # "raised" =>
        \A s \in Spans : status[s] \notin {"threw", "cancelled"}

CkyInv ==
    /\ TypeOK /\ Positions /\ PoolAtRest /\ OneLength /\ Results /\ NoneForgotten
    /\ ReturnsFullChart

(* The initial state. *)
LEMMA CkyInit == Init => CkyInv
<1>. SUFFICES ASSUME Init PROVE CkyInv
  OBVIOUS
<1>. USE DEF Init, Pool!Init
<1>1. TypeOK
  <2>1. Length \in Nat \ {0} /\ max_retries \in Nat /\ MaxThrows \in Nat
    BY CkyAssumption
  <2>2. Pool!TypeOK
    BY DEF Pool!TypeOK, Pool!Status, Pool!Phase
  <2>3. split \in [Spans -> 0..Length] /\ filter \in [Spans -> {"absent", "open", "null"}]
    BY <2>1
  <2>. QED BY <2>1, <2>2, <2>3 DEF TypeOK
<1>2. Positions /\ PoolAtRest /\ OneLength
  BY DEF Positions, PoolAtRest, OneLength, Pool!Quiet, Working
<1>3. Results /\ NoneForgotten /\ ReturnsFullChart
  BY DEF Results, NoneForgotten, ReturnsFullChart
<1>. QED BY <1>1, <1>2, <1>3 DEF CkyInv

-----------------------------------------------------------------------------
(* The jobs. *)

(* A job that runs is one of the present length. *)
LEMMA JobFacts ==
    ASSUME CkyInv, NEW s \in Spans, status[s] \in Working
    PROVE  /\ ~Pool!Quiet /\ mpc \in {"add", "wait", "unwind"} /\ phase = "open"
           /\ s \in shifts(len) /\ length(s) = len /\ len >= 2
           /\ Below(len) \subseteq chart
<1>1. ~Pool!Quiet
  BY DEF Pool!Quiet, Working
<1>2. mpc \in {"add", "wait", "unwind"} /\ phase = "open"
  BY <1>1 DEF CkyInv, PoolAtRest
<1>. QED BY <1>1, <1>2, BuiltFacts DEF CkyInv, OneLength

(* What all steps of jobs have in common. *)
JobStep ==
    /\ UNCHANGED <<mpc, len, next, phase>>
    /\ mpc \in {"add", "wait", "unwind"} /\ phase = "open"
    /\ chart \subseteq chart'
    /\ \A s \in Spans :
        /\ status'[s] \in Working => status[s] \in Working
        /\ status'[s] = "new" => status[s] = "new"
        /\ status[s] = "ok" => status'[s] = "ok"
        /\ status'[s] = "ok" => status[s] = "ok" \/ s \in chart'
        /\ filter'[s] = "null" => filter[s] = "null" \/ status'[s] = "ok"
        /\ status'[s] \in {"threw", "cancelled"} => status[s] = status'[s] \/ failed'
    /\ failed => failed'

(* Such steps keep everything but the types. *)
LEMMA JobStepKeeps ==
    ASSUME CkyInv, JobStep, TypeOK'
    PROVE  CkyInv'
<1>1. Positions' /\ ReturnsFullChart'
  BY DEF CkyInv, JobStep, Positions, ReturnsFullChart
<1>2. Pool!Quiet => Pool!Quiet'
  BY DEF JobStep, Pool!Quiet, Working
<1>3. PoolAtRest'
  BY <1>2 DEF CkyInv, JobStep, PoolAtRest
<1>4. OneLength'
  BY <1>2 DEF CkyInv, JobStep, OneLength
<1>5. Results'
  BY DEF CkyInv, JobStep, Results
<1>6. NoneForgotten'
  BY BuiltFacts DEF CkyInv, JobStep, NoneForgotten
<1>. QED BY <1>1, <1>3, <1>4, <1>5, <1>6 DEF CkyInv

(* The steps of jobs, the ones that throw and the cancellation included. *)
LEMMA JobsKeep ==
    ASSUME CkyInv, (\E s \in Spans : combine_span(s) \/ JobThrows(s)) \/ Cancel
    PROVE  CkyInv'
<1>0. TypeOK
  BY DEF CkyInv
<1>. USE DEF TypeOK, Pool!TypeOK, Pool!Status, Pool!Phase
<1>1. ASSUME NEW s \in Spans, Begin(s) PROVE CkyInv'
  <2>0. status[s] = "pending" /\ mpc \in {"add", "wait", "unwind"} /\ phase = "open" /\ length(s) >= 2
    BY <1>1, JobFacts DEF Begin, Pool!Begin, Working
  <2>1. First(partitions(s)) \in 0..Length
    <3>1. First(partitions(s)) \in Nat /\ First(partitions(s)) < s[2]
      BY <2>0, FirstSplit, PartitionFacts
    <3>. QED BY <3>1, SpanFacts, CkyAssumption
  <2>2. TypeOK'
    BY <1>0, <1>1, <2>1 DEF Begin, Pool!Begin, robustvars
  <2>3. JobStep
    BY <1>0, <1>1, <2>0 DEF Begin, Pool!Begin, JobStep, Working
  <2>. QED BY <2>2, <2>3, JobStepKeeps
<1>2. ASSUME NEW s \in Spans, Combine(s) PROVE CkyInv'
  <2>0. mpc \in {"add", "wait", "unwind"} /\ phase = "open"
    BY <1>2, JobFacts DEF Combine, Working
  <2>1. split[s] + 1 \in 0..Length
    BY <1>2, PartitionFacts DEF Combine
  <2>2. TypeOK'
    BY <1>0, <1>2, <2>1 DEF Combine, get_create, robustvars, poolvars
  <2>3. JobStep
    BY <1>0, <1>2, <2>0 DEF Combine, get_create, poolvars, JobStep
  <2>. QED BY <2>2, <2>3, JobStepKeeps
<1>3. ASSUME NEW s \in Spans, Finish(s) PROVE CkyInv'
  <2>0. status[s] = "running" /\ mpc \in {"add", "wait", "unwind"} /\ phase = "open"
    BY <1>3, JobFacts DEF Finish, Pool!End, Working
  <2>1. status' = [status EXCEPT ![s] = "ok"] /\ failed' \in BOOLEAN /\ (failed => failed') /\ UNCHANGED phase
    BY <1>0, <1>3 DEF Finish, Pool!End
  <2>2. /\ filter' = [filter EXCEPT ![s] = "null"] /\ chart' = chart \cup {s}
        /\ UNCHANGED <<mpc, len, next, robustvars, split>>
    BY <1>3 DEF Finish, finalize
  <2>3. TypeOK'
    BY <1>0, <2>1, <2>2 DEF robustvars
  <2>4. JobStep
    BY <1>0, <2>0, <2>1, <2>2 DEF JobStep, Working
  <2>. QED BY <2>3, <2>4, JobStepKeeps
<1>4. ASSUME NEW s \in Spans, JobThrows(s) PROVE CkyInv'
  <2>0. status[s] = "running" /\ mpc \in {"add", "wait", "unwind"} /\ phase = "open"
    BY <1>4, JobFacts DEF JobThrows, Pool!End, Working
  <2>1. status' = [status EXCEPT ![s] = "threw"] /\ failed' = TRUE /\ UNCHANGED phase
    BY <1>0, <1>4 DEF JobThrows, Pool!End
  <2>2. UNCHANGED <<mpc, len, next, retry_i, adjusted, bankvars>>
    BY <1>4 DEF JobThrows
  <2>3. throws' \in 0..MaxThrows /\ error' \in {"none", "memory", "other"}
    BY <1>0, <1>4, CkyAssumption DEF JobThrows, Throw
  <2>4. TypeOK'
    BY <1>0, <2>1, <2>2, <2>3 DEF bankvars
  <2>5. JobStep
    BY <1>0, <2>0, <2>1, <2>2 DEF JobStep, Working, bankvars
  <2>. QED BY <2>4, <2>5, JobStepKeeps
<1>5. CASE Cancel
  <2>0. mpc \in {"add", "wait", "unwind"} /\ phase = "open"
    <3>1. PICK s \in Spans : status[s] = "pending"
      BY <1>0, <1>5 DEF Cancel, Pool!Cancel
    <3>. QED BY <3>1, JobFacts DEF Working
  <2>1. TypeOK'
    BY <1>0, <1>5 DEF Cancel, Pool!Cancel, robustvars, bankvars
  <2>2. JobStep
    BY <1>0, <1>5, <2>0 DEF Cancel, Pool!Cancel, bankvars, JobStep, Working
  <2>. QED BY <2>1, <2>2, JobStepKeeps
<1>. QED BY <1>1, <1>2, <1>3, <1>4, <1>5 DEF combine_span

-----------------------------------------------------------------------------
(* The caller. *)

(* Everything of the present length is final when wait() has returned. *)
LEMMA LengthDone ==
    ASSUME CkyInv, mpc = "wait", phase = "returned"
    PROVE  Below(len + 1) \subseteq chart
<1>1. Pool!Quiet /\ ~failed
  BY DEF CkyInv, PoolAtRest
<1>2. \A s \in shifts(len) : s \in chart
  <2>. TAKE s \in shifts(len)
  <2>1. s \in Spans
    BY BuiltFacts
  <2>2. status[s] \notin {"new", "pending", "running", "threw", "cancelled"}
    BY <1>1, <2>1 DEF CkyInv, NoneForgotten, Pool!Quiet
  <2>3. status[s] = "ok"
    BY <2>1, <2>2 DEF CkyInv, TypeOK, Pool!TypeOK, Pool!Status
  <2>. QED BY <2>1, <2>3 DEF CkyInv, Results
<1>3. ASSUME NEW s \in Below(len + 1) PROVE s \in Below(len) \/ s \in shifts(len)
  <2>1. s \in Built /\ length(s) \in Nat /\ length(s) < len + 1 /\ len \in Nat /\ len >= 2
    BY BuiltFacts, SpanFacts, CkyAssumption DEF Below, CkyInv, Positions, TypeOK
  <2>2. CASE length(s) = len
    BY <2>1, <2>2, BuiltFacts
  <2>3. CASE length(s) < len
    BY <2>1, <2>3 DEF Below
  <2>. QED BY <2>1, <2>2, <2>3
<1>4. Below(len) \subseteq chart
  BY DEF CkyInv, OneLength
<1>. QED BY <1>2, <1>3, <1>4

(* The words are final when the caller has gone through them. *)
LEMMA WordsDone ==
    ASSUME CkyInv, mpc = "leaf", next = Length
    PROVE  Below(2) \subseteq chart
<1>. SUFFICES ASSUME NEW s \in Below(2) PROVE s \in chart
  OBVIOUS
<1>1. s \in Spans /\ length(s) < 2
  BY BuiltFacts DEF Below
<1>2. s = <<s[1], s[1] + 1>> /\ s[1] \in Nat /\ s[1] < Length
  BY <1>1, SpanFacts, CkyAssumption DEF length
<1>. QED BY <1>2 DEF CkyInv, OneLength

(* The steps of the caller that leave the bank and the pool alone. *)
LEMMA CallerKeeps ==
    ASSUME CkyInv, \/ SetupThrows \/ AttemptThrows \/ CallerThrows \/ NextLength \/ Added \/ WaitThrows
                   \/ GiveUp \/ Retry \/ UNCHANGED vars
    PROVE  CkyInv'
<1>0. /\ TypeOK /\ Positions /\ PoolAtRest /\ OneLength /\ Results /\ NoneForgotten
      /\ ReturnsFullChart /\ Length \in Nat \ {0} /\ len \in Nat /\ next \in Nat
  BY CkyAssumption DEF CkyInv, TypeOK
<1>a. UNCHANGED <<bankvars, poolvars>>
  BY DEF SetupThrows, AttemptThrows, CallerThrows, NextLength, Added, WaitThrows, GiveUp, Retry, vars
<1>b. Pool!Quiet' <=> Pool!Quiet
  BY <1>a DEF poolvars, Pool!Quiet
<1>1. CASE SetupThrows \/ AttemptThrows \/ CallerThrows
  <2>1. mpc' \in {"raised", "caught", "unwind"} /\ UNCHANGED <<len, next, retry_i, adjusted>>
    BY <1>1 DEF SetupThrows, AttemptThrows, CallerThrows
  <2>2. throws' \in 0..MaxThrows /\ error' \in {"none", "memory", "other"}
    BY <1>0, <1>1, CkyAssumption DEF SetupThrows, AttemptThrows, CallerThrows, Throw, TypeOK
  <2>3. TypeOK'
    BY <1>0, <1>a, <2>1, <2>2 DEF TypeOK, Pool!TypeOK, bankvars, poolvars
  <2>4. PoolAtRest'
    BY <1>0, <1>1, <1>a, <1>b DEF SetupThrows, AttemptThrows, CallerThrows, PoolAtRest, poolvars
  <2>5. OneLength'
    BY <1>0, <1>a, <1>b, <2>1 DEF OneLength, bankvars, poolvars
  <2>6. Results' /\ NoneForgotten' /\ Positions' /\ ReturnsFullChart'
    <3>1. mpc # "returned" /\ mpc' # "returned"
      BY <1>1 DEF SetupThrows, AttemptThrows, CallerThrows
    <3>. QED BY <1>0, <1>a, <2>1, <3>1 DEF Results, NoneForgotten, Positions, ReturnsFullChart, bankvars, poolvars
  <2>. QED BY <2>3, <2>4, <2>5, <2>6 DEF CkyInv
<1>2. CASE NextLength
  <2>1. /\ mpc' = (IF len < Length THEN "add" ELSE "join") /\ len' = len + 1 /\ next' = 0
        /\ UNCHANGED robustvars /\ mpc \in {"leaf", "wait"}
    BY <1>2 DEF NextLength
  <2>2. len <= Length /\ len >= 1
    BY <1>0, <2>1 DEF Positions
  <2>3. TypeOK'
    BY <1>0, <1>a, <2>1, <2>2 DEF TypeOK, Pool!TypeOK, bankvars, poolvars, robustvars
  <2>4. Pool!Quiet /\ Below(len') \subseteq chart
    <3>1. CASE mpc = "leaf" /\ next = Length
      BY <1>0, <2>1, <3>1, WordsDone DEF PoolAtRest, Positions
    <3>2. CASE mpc = "wait" /\ phase = "returned"
      BY <1>0, <2>1, <3>2, LengthDone DEF PoolAtRest
    <3>. QED BY <1>2, <3>1, <3>2 DEF NextLength
  <2>5. phase \in {"open", "returned"}
    BY <1>0, <1>2 DEF NextLength, PoolAtRest
  <2>6. Positions'
    BY <1>0, <2>1, <2>2 DEF Positions
  <2>7. PoolAtRest'
    BY <1>0, <1>a, <1>b, <2>4, <2>5 DEF PoolAtRest, poolvars
  <2>8. OneLength'
    <3>1. \A s \in Spans : status'[s] \notin Working
      BY <1>a, <2>4 DEF poolvars, Pool!Quiet, Working
    <3>2. Below(len)' \subseteq chart'
      BY <1>a, <2>1, <2>4 DEF bankvars, Below
    <3>. QED BY <2>1, <3>1, <3>2 DEF OneLength
  <2>9. Results' /\ ReturnsFullChart'
    BY <1>0, <1>a, <2>1 DEF Results, ReturnsFullChart, bankvars, poolvars
  <2>10. NoneForgotten'
    <3>1. \A s \in shifts(len') : ~(s[1] < next')
      BY <2>1, BuiltFacts, SpanFacts
    <3>. QED BY <1>0, <1>a, <2>1, <3>1 DEF NoneForgotten, poolvars
  <2>. QED BY <2>3, <2>6, <2>7, <2>8, <2>9, <2>10 DEF CkyInv
<1>3. CASE Added
  <2>1. mpc = "add" /\ mpc' = "wait" /\ next + len > Length /\ UNCHANGED <<len, next, robustvars>>
    BY <1>3 DEF Added
  <2>2. TypeOK'
    BY <1>0, <1>a, <2>1 DEF TypeOK, Pool!TypeOK, bankvars, poolvars, robustvars
  <2>3. Positions' /\ PoolAtRest' /\ OneLength' /\ Results' /\ ReturnsFullChart'
    BY <1>0, <1>a, <1>b, <2>1 DEF Positions, PoolAtRest, OneLength, Results, ReturnsFullChart, bankvars, poolvars
  <2>4. NoneForgotten'
    <3>1. ASSUME NEW s \in shifts(len) PROVE s[1] < next
      <4>1. s \in Spans /\ length(s) = len
        BY BuiltFacts
      <4>2. s[1] \in Nat /\ s[2] \in Nat /\ s[2] - s[1] = len /\ s[2] <= Length
        BY <4>1, SpanFacts DEF length
      <4>. QED BY <1>0, <2>1, <4>2
    <3>. QED BY <1>0, <1>a, <2>1, <3>1 DEF NoneForgotten, poolvars
  <2>. QED BY <2>2, <2>3, <2>4 DEF CkyInv
<1>4. CASE WaitThrows \/ GiveUp \/ Retry
  <2>1. /\ mpc \in {"wait", "caught"} /\ mpc' \in {"caught", "raised", "init"}
        /\ UNCHANGED <<len, next, throws, adjusted>>
    BY <1>4 DEF WaitThrows, GiveUp, Retry, robustvars
  <2>2. retry_i' \in 0..max_retries /\ error' \in {"none", "memory", "other"}
    BY <1>0, <1>4, CkyAssumption DEF WaitThrows, GiveUp, Retry, robustvars, TypeOK
  <2>3. TypeOK'
    BY <1>0, <1>a, <2>1, <2>2 DEF TypeOK, Pool!TypeOK, bankvars, poolvars
  <2>4. Pool!Quiet
    BY <1>0, <1>4 DEF WaitThrows, GiveUp, Retry, PoolAtRest
  <2>5. Positions' /\ PoolAtRest' /\ Results' /\ ReturnsFullChart' /\ NoneForgotten'
    BY <1>0, <1>a, <1>b, <2>1, <2>4 DEF Positions, PoolAtRest, Results, ReturnsFullChart, NoneForgotten,
       bankvars, poolvars
  <2>6. OneLength'
    BY <1>0, <1>a, <1>b, <2>1, <2>4 DEF OneLength, bankvars, poolvars
  <2>. QED BY <2>3, <2>5, <2>6 DEF CkyInv
<1>5. CASE UNCHANGED vars
  BY <1>0, <1>5, <1>b DEF vars, robustvars, bankvars, poolvars, CkyInv, TypeOK, Pool!TypeOK, Positions, PoolAtRest,
     OneLength, Results, NoneForgotten, ReturnsFullChart
<1>. QED BY <1>1, <1>2, <1>3, <1>4, <1>5

(* An attempt begins with everything new. *)
LEMMA AttemptKeeps == ASSUME CkyInv, Attempt PROVE CkyInv'
<1>0. TypeOK /\ Length \in Nat \ {0}
  BY CkyAssumption DEF CkyInv
<1>1. /\ mpc' = "leaf" /\ chart' = {} /\ filter' = [s \in Spans |-> "absent"]
      /\ split' = [s \in Spans |-> 0] /\ status' = [s \in Spans |-> "new"]
      /\ failed' = FALSE /\ phase' = "open" /\ len' = 1 /\ next' = 0 /\ UNCHANGED robustvars
  BY DEF Attempt
<1>2. TypeOK'
  <2>1. Pool!TypeOK'
    BY <1>1 DEF Pool!TypeOK, Pool!Status, Pool!Phase
  <2>2. split' \in [Spans -> 0..Length] /\ filter' \in [Spans -> {"absent", "open", "null"}]
    BY <1>0, <1>1
  <2>. QED BY <1>0, <1>1, <2>1, <2>2 DEF TypeOK, robustvars
<1>3. Pool!Quiet'
  BY <1>1 DEF Pool!Quiet
<1>4. Positions' /\ PoolAtRest' /\ OneLength'
  BY <1>1, <1>3 DEF Positions, PoolAtRest, OneLength, Working
<1>5. Results' /\ NoneForgotten' /\ ReturnsFullChart'
  BY <1>1 DEF Results, NoneForgotten, ReturnsFullChart
<1>. QED BY <1>2, <1>4, <1>5 DEF CkyInv

(* A word is finalized. *)
LEMMA LeafKeeps == ASSUME CkyInv, Leaf PROVE CkyInv'
<1>0. /\ TypeOK /\ Positions /\ PoolAtRest /\ OneLength /\ Results /\ NoneForgotten
      /\ Length \in Nat \ {0} /\ next \in Nat
  BY CkyAssumption DEF CkyInv, TypeOK
<1>1. /\ mpc = "leaf" /\ next < Length /\ next' = next + 1
      /\ filter' = [filter EXCEPT ![<<next, next + 1>>] = "null"]
      /\ chart' = chart \cup {<<next, next + 1>>}
      /\ UNCHANGED <<mpc, len, robustvars, split, poolvars>>
  BY DEF Leaf, finalize
<1>2. <<next, next + 1>> \in Spans /\ length(<<next, next + 1>>) = 1
  BY <1>0, <1>1, IsSpan
<1>3. TypeOK'
  BY <1>0, <1>1, <1>2 DEF TypeOK, Pool!TypeOK, poolvars, robustvars
<1>4. Pool!Quiet' <=> Pool!Quiet
  BY <1>1 DEF poolvars, Pool!Quiet
<1>5. Positions' /\ PoolAtRest' /\ NoneForgotten' /\ ReturnsFullChart'
  BY <1>0, <1>1, <1>4 DEF Positions, PoolAtRest, NoneForgotten, ReturnsFullChart, poolvars
<1>6. Results'
  BY <1>0, <1>1, <1>2 DEF Results, TypeOK, poolvars
<1>7. OneLength'
  <2>1. Pool!Quiet
    BY <1>0, <1>1 DEF PoolAtRest
  <2>2. \A i \in Nat : i < next' => <<i, i + 1>> \in chart'
    <3>. TAKE i \in Nat
    <3>1. CASE i = next
      BY <1>1, <3>1
    <3>2. CASE i < next
      BY <1>0, <1>1, <3>2 DEF OneLength
    <3>. QED BY <1>0, <1>1, <3>1, <3>2
  <2>. QED BY <1>0, <1>1, <1>4, <2>1, <2>2 DEF OneLength, poolvars
<1>. QED BY <1>3, <1>5, <1>6, <1>7 DEF CkyInv

(* A span of the present length is handed to the pool, or passed over. *)
LEMMA AddKeeps == ASSUME CkyInv, Add PROVE CkyInv'
<1>0. /\ TypeOK /\ Positions /\ PoolAtRest /\ OneLength /\ Results /\ NoneForgotten
      /\ Length \in Nat \ {0} /\ next \in Nat /\ len \in 2..Length
  BY CkyAssumption DEF CkyInv, TypeOK, Positions, Add
<1>. DEFINE s == <<next, next + len>>
<1>1. /\ mpc = "add" /\ next + len <= Length /\ next' = next + 1
      /\ UNCHANGED <<mpc, len, robustvars, bankvars>>
  BY DEF Add
<1>2. s \in Spans /\ length(s) = len /\ s[1] = next
  BY <1>0, <1>1, IsSpan
<1>3. \A t \in shifts(len) : t[1] < next' => t = s \/ t[1] < next
  <2>. TAKE t \in shifts(len)
  <2>1. t \in Spans /\ length(t) = len
    BY BuiltFacts
  <2>2. t[1] \in Nat /\ t[2] \in Nat /\ t[2] - t[1] = len /\ t = <<t[1], t[2]>>
    BY <2>1, SpanFacts DEF length
  <2>. QED BY <1>0, <1>1, <2>2
<1>4. Below(len) \subseteq chart
  BY <1>0, <1>1 DEF OneLength
<1>. HIDE DEF s
<1>5. CASE s \notin shifts(len)
  <2>1. UNCHANGED poolvars
    BY <1>5 DEF Add, s
  <2>2. Pool!Quiet' <=> Pool!Quiet
    BY <2>1 DEF poolvars, Pool!Quiet
  <2>3. TypeOK'
    BY <1>0, <1>1, <2>1 DEF TypeOK, Pool!TypeOK, poolvars, robustvars, bankvars
  <2>4. Positions' /\ PoolAtRest' /\ OneLength' /\ Results' /\ ReturnsFullChart'
    BY <1>0, <1>1, <2>1, <2>2 DEF Positions, PoolAtRest, OneLength, Results, ReturnsFullChart, poolvars, bankvars
  <2>5. NoneForgotten'
    BY <1>0, <1>1, <1>3, <1>5, <2>1 DEF NoneForgotten, poolvars
  <2>. QED BY <2>3, <2>4, <2>5 DEF CkyInv
<1>6. CASE s \in shifts(len)
  <2>1. /\ status[s] = "new" /\ phase' = "open" /\ UNCHANGED failed
        /\ \/ status' = [status EXCEPT ![s] = "pending"]
           \/ failed /\ status' = [status EXCEPT ![s] = "cancelled"]
    BY <1>6 DEF Add, Pool!Submit, s
  <2>2. /\ status'[s] \in {"pending", "cancelled"} /\ (status'[s] = "cancelled" => failed)
        /\ \A t \in Spans \ {s} : status'[t] = status[t]
    BY <1>0, <1>2, <2>1 DEF TypeOK, Pool!TypeOK
  <2>3. TypeOK'
    <3>1. Pool!TypeOK'
      BY <1>0, <1>2, <2>1 DEF TypeOK, Pool!TypeOK, Pool!Status, Pool!Phase
    <3>. QED BY <1>0, <1>1, <3>1 DEF TypeOK, robustvars, bankvars
  <2>4. Positions' /\ PoolAtRest' /\ ReturnsFullChart'
    BY <1>0, <1>1, <2>1 DEF Positions, PoolAtRest, ReturnsFullChart
  <2>5. OneLength'
    BY <1>0, <1>1, <1>4, <1>6, <2>2 DEF OneLength, bankvars
  <2>6. Results'
    BY <1>0, <1>1, <2>1, <2>2 DEF Results, bankvars
  <2>7. phase # "raised"
    BY <1>0, <1>1 DEF PoolAtRest
  <2>8. NoneForgotten'
    <3>1. \A t \in shifts(len) : t[1] < next' => status'[t] # "new"
      BY <1>0, <1>1, <1>3, <2>2, BuiltFacts DEF NoneForgotten
    <3>. QED BY <1>0, <1>1, <2>1, <2>2, <2>7, <3>1 DEF NoneForgotten
  <2>. QED BY <2>3, <2>4, <2>5, <2>6, <2>8 DEF CkyInv
<1>. QED BY <1>5, <1>6

(* wait() comes back, or the pool is destroyed or joined. *)
LEMMA PoolEndKeeps == ASSUME CkyInv, Wait \/ Unwind \/ Join PROVE CkyInv'
<1>0. /\ TypeOK /\ Positions /\ PoolAtRest /\ OneLength /\ Results /\ NoneForgotten
      /\ ReturnsFullChart /\ Length \in Nat \ {0}
  BY CkyAssumption DEF CkyInv
<1>1. /\ Pool!Quiet /\ Pool!Quiet' /\ UNCHANGED <<status, len, next, robustvars, split>>
      /\ failed' \in BOOLEAN /\ phase' \in Pool!Phase
  BY <1>0 DEF Wait, Unwind, Join, Pool!Return, Pool!Close, Pool!Quiet, Pool!Phase, TypeOK, Pool!TypeOK, bankvars
<1>2. CASE Wait
  <2>1. /\ mpc = "wait" /\ phase' = (IF failed THEN "raised" ELSE "returned") /\ failed' = FALSE
        /\ UNCHANGED <<mpc, bankvars>> /\ phase = "open"
    BY <1>2 DEF Wait, Pool!Return
  <2>2. TypeOK'
    BY <1>0, <1>1, <2>1 DEF TypeOK, Pool!TypeOK, bankvars, robustvars
  <2>3. Positions' /\ PoolAtRest' /\ OneLength' /\ Results' /\ ReturnsFullChart'
    BY <1>0, <1>1, <2>1 DEF Positions, PoolAtRest, OneLength, Results, ReturnsFullChart, bankvars
  <2>4. NoneForgotten'
    BY <1>0, <1>1, <2>1 DEF NoneForgotten
  <2>. QED BY <2>2, <2>3, <2>4 DEF CkyInv
<1>3. CASE Unwind
  <2>1. mpc' = "caught" /\ phase' = "closed" /\ UNCHANGED bankvars /\ mpc = "unwind"
    BY <1>3 DEF Unwind, Pool!Close
  <2>2. TypeOK'
    BY <1>0, <1>1, <2>1 DEF TypeOK, Pool!TypeOK, bankvars, robustvars
  <2>3. Positions' /\ PoolAtRest' /\ OneLength' /\ Results' /\ ReturnsFullChart' /\ NoneForgotten'
    BY <1>0, <1>1, <2>1 DEF Positions, PoolAtRest, OneLength, Results, ReturnsFullChart, NoneForgotten, bankvars
  <2>. QED BY <2>2, <2>3 DEF CkyInv
<1>4. CASE Join
  <2>1. /\ mpc = "join" /\ mpc' = "returned" /\ phase' = "closed"
        /\ filter' = [filter EXCEPT ![target_span] = "null"] /\ chart' = chart \cup {target_span}
    BY <1>4 DEF Join, finalize, Pool!Close
  <2>2. target_span \in Spans
    BY <1>0, IsSpan DEF target_span
  <2>3. TypeOK'
    BY <1>0, <1>1, <2>1, <2>2 DEF TypeOK, Pool!TypeOK, robustvars
  <2>4. Built \subseteq Below(len)
    <3>1. len = Length + 1
      BY <1>0, <2>1 DEF Positions
    <3>2. \A s \in Built : length(s) < len
      BY <1>0, <3>1, BuiltFacts, SpanFacts
    <3>. QED BY <3>2 DEF Below
  <2>5. ReturnsFullChart'
    <3>1. Built \subseteq chart
      BY <1>0, <2>1, <2>4 DEF OneLength
    <3>. QED BY <2>1, <3>1 DEF ReturnsFullChart
  <2>6. Positions' /\ PoolAtRest' /\ NoneForgotten' /\ Results'
    BY <1>0, <1>1, <2>1 DEF Positions, PoolAtRest, NoneForgotten, Results
  <2>7. OneLength'
    <3>1. \A s \in Spans : status'[s] \notin Working
      BY <1>1 DEF Pool!Quiet, Working
    <3>. QED BY <1>1, <2>1, <3>1 DEF OneLength
  <2>. QED BY <2>3, <2>5, <2>6, <2>7 DEF CkyInv
<1>. QED BY <1>2, <1>3, <1>4

(* Every step keeps the invariant. *)
LEMMA CkyNext == CkyInv /\ [Next]_vars => CkyInv'
<1>. SUFFICES ASSUME CkyInv, [Next]_vars PROVE CkyInv'
  OBVIOUS
<1>1. CASE threaded_parse_cky
  BY <1>1, AttemptKeeps, LeafKeeps, AddKeeps, PoolEndKeeps, CallerKeeps DEF threaded_parse_cky
<1>2. CASE SetupThrows \/ AttemptThrows \/ CallerThrows \/ GiveUp \/ Retry \/ Terminated \/ UNCHANGED vars
  BY <1>2, CallerKeeps DEF Terminated
<1>3. CASE (\E s \in Spans : combine_span(s) \/ JobThrows(s)) \/ Cancel
  BY <1>3, JobsKeep
<1>. QED BY <1>1, <1>2, <1>3 DEF Next

-----------------------------------------------------------------------------
(* Every variable of the parse keeps its type. *)
THEOREM TypeCorrect == Spec => []TypeOK
<1>1. CkyInv => TypeOK
  BY DEF CkyInv
<1>. QED BY <1>1, CkyInit, CkyNext, PTL DEF Spec

(* pool.wait() between the lengths is enough: combine_span reads only what   *)
(* is final and writes to a filter that has not been finalized.              *)
THEOREM SpansInOrder == Spec => []CombinesFinal
<1>1. CkyInv => CombinesFinal
  <2>. SUFFICES ASSUME CkyInv, NEW s \in Spans, status[s] = "running", split[s] \in partitions(s)
                PROVE  /\ {<<s[1], split[s]>>, <<split[s], s[2]>>} \cap Built \subseteq chart
                       /\ filter[s] # "null"
    BY DEF CombinesFinal
  <2>1. length(s) = len /\ len >= 2 /\ Below(len) \subseteq chart /\ mpc # "returned"
    BY JobFacts DEF Working
  <2>2. length(<<s[1], split[s]>>) < len /\ length(<<split[s], s[2]>>) < len
    BY <2>1, PartitionFacts
  <2>3. {<<s[1], split[s]>>, <<split[s], s[2]>>} \cap Built \subseteq chart
    BY <2>1, <2>2 DEF Below
  <2>4. filter[s] # "null"
    BY <2>1 DEF CkyInv, Results
  <2>. QED BY <2>3, <2>4
<1>. QED BY <1>1, CkyInit, CkyNext, PTL DEF Spec

(* parse_robust returns without an exception only with the whole chart. *)
THEOREM ChartIsFull == Spec => []ReturnsFullChart
<1>1. CkyInv => ReturnsFullChart
  BY DEF CkyInv
<1>. QED BY <1>1, CkyInit, CkyNext, PTL DEF Spec

(* When an attempt is given up, its jobs are over. *)
THEOREM AttemptsAreApart == Spec => []AttemptsDoNotMix
<1>1. CkyInv => AttemptsDoNotMix
  BY DEF CkyInv, PoolAtRest, AttemptsDoNotMix
<1>. QED BY <1>1, CkyInit, CkyNext, PTL DEF Spec
=============================================================================
