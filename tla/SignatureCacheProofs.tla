------------------------ MODULE SignatureCacheProofs ------------------------
(***************************************************************************)
(* Proofs about SignatureCache, for any rows, sorting threads, signatures, *)
(* buckets and sizes of tries.                                             *)
(***************************************************************************)
EXTENDS SignatureCache, FunctionTheorems, FiniteSetTheorems, SequenceTheorems, TLAPS

RowPC == {"idle", "first", "lock", "logic_error", "threw"} \cup Holding

(* The types of what the rows share, and what a position says of the lock. *)
RowShape ==
    /\ holder \in [Buckets -> Rows \cup {none}]
    /\ pc \in [Rows -> RowPC]
    /\ sig \in [Rows -> Sigs \cup {none}]

(* A row that is past its first look-up has a signature; from the second    *)
(* look-up to the end it has the lock of that signature's bucket.           *)
Locked ==
    \A r \in Rows :
        /\ pc[r] \in {"first", "lock"} \cup Holding => sig[r] \in Sigs
        /\ pc[r] \in Holding => holder[Lock(r)] = r

(* What the second look-up found is still true. *)
StillAbsent ==
    \A r \in Rows :
        /\ pc[r] # "logic_error"
        /\ pc[r] \in Holding \ {"again"} => sig[r] \notin cache

CacheInv == RowShape /\ Locked /\ StillAbsent

(* A step that touches neither cache, locks nor signatures, and moves rows  *)
(* only forward inside the part of make_res that has the lock.              *)
Sheltered ==
    /\ UNCHANGED <<cache, holder, sig>>
    /\ pc' \in [Rows -> RowPC]
    /\ \A r \in Rows :
        \/ pc'[r] = pc[r]
        \/ pc[r] \in Holding \ {"again"} /\ pc'[r] \in Holding \ {"again"}

(* Sheltered steps keep the invariant. *)
LEMMA ShelteredKeeps == ASSUME CacheInv, Sheltered PROVE CacheInv'
<1>1. RowShape'
  BY DEF CacheInv, Sheltered, RowShape
<1>2. Locked'
  BY DEF CacheInv, Sheltered, Locked, Lock, Holding, Sorting
<1>3. StillAbsent'
  BY DEF CacheInv, Sheltered, StillAbsent, Holding, Sorting
<1>. QED BY <1>1, <1>2, <1>3 DEF CacheInv

(* Two rows that have locks have different ones. *)
LEMMA LocksDiffer ==
    ASSUME Locked, NEW r \in Rows, NEW q \in Rows, r # q,
           pc[r] \in Holding, pc[q] \in Holding
    PROVE  Lock(r) # Lock(q) /\ sig[r] # sig[q]
BY DEF Locked, Lock

(* The steps of a row from the loaded trie to the sorted one are sheltered. *)
LEMMA SortingSheltered ==
    ASSUME RowShape, NEW r \in Rows,
           Load(r) \/ Count(r) \/ Add(r) \/ Walked(r) \/ Inline(r) \/ Await(r) \/ Spurious(r)
    PROVE  Sheltered
<1>. USE DEF RowShape, RowPC, Holding, Sorting, Sheltered, Goto
<1>1. CASE Load(r)
  BY <1>1 DEF Load
<1>2. CASE Count(r)
  BY <1>2 DEF Count
<1>3. CASE Add(r)
  BY <1>3 DEF Add
<1>4. CASE Walked(r)
  BY <1>4 DEF Walked
<1>5. CASE Inline(r)
  BY <1>5 DEF Inline
<1>6. CASE Await(r)
  BY <1>6 DEF Await
<1>7. CASE Spurious(r)
  BY <1>7 DEF Spurious
<1>. QED BY <1>1, <1>2, <1>3, <1>4, <1>5, <1>6, <1>7

(* So are all steps of the sorting threads. *)
LEMMA WorkersSheltered ==
    ASSUME RowShape, NEW w \in Workers, work(w) \/ SortThrows(w)
    PROVE  Sheltered
<1>1. CASE Idle(w) \/ Take(w) \/ Clear(w) \/ Sort(w) \/ Report(w) \/ SortThrows(w)
  BY <1>1 DEF Idle, Take, Clear, Sort, Report, SortThrows, rowvars, RowShape, Sheltered
<1>2. CASE CountDown(w)
  <2>1. UNCHANGED <<cache, holder, sig>>
    BY <1>2 DEF CountDown, Lower
  <2>2. pc' = pc \/ \E b : pc' = Notified(b)
    BY <1>2 DEF CountDown, Lower
  <2>. QED BY <2>1, <2>2 DEF Notified, RowShape, RowPC, Holding, Sorting, Sheltered
<1>. QED BY <1>1, <1>2 DEF work

(* The cache starts empty, with no row inside. *)
LEMMA CacheInit == Init => CacheInv
BY DEF Init, CacheInv, RowShape, RowPC, Locked, StillAbsent, Holding, Sorting

(* Every step keeps the locks and what was looked up under them. *)
LEMMA CacheNext == CacheInv /\ [Next]_vars => CacheInv'
<1>. SUFFICES ASSUME CacheInv, [Next]_vars PROVE CacheInv'
  OBVIOUS
<1>0. RowShape /\ Locked /\ StillAbsent
  BY DEF CacheInv
<1>1. ASSUME NEW r \in Rows, Call(r) PROVE CacheInv'
  BY <1>0, <1>1 DEF Call, Goto, CacheInv, RowShape, RowPC, Locked, StillAbsent, Lock, Holding, Sorting
<1>2. ASSUME NEW r \in Rows, Find(r) PROVE CacheInv'
  BY <1>0, <1>2 DEF Find, Goto, CacheInv, RowShape, RowPC, Locked, StillAbsent, Lock, Holding, Sorting
<1>3. ASSUME NEW r \in Rows, LockBucket(r) PROVE CacheInv'
  <2>1. sig[r] \in Sigs /\ Lock(r) \in Buckets /\ pc[r] = "lock"
    BY <1>0, <1>3 DEF LockBucket, Goto, Locked, Lock, Buckets
  <2>2. \A q \in Rows : pc[q] \in Holding => Lock(q) # Lock(r)
    BY <1>0, <1>3, CacheAssumption DEF LockBucket, Locked
  <2>3. RowShape'
    BY <1>0, <1>3 DEF LockBucket, Goto, RowShape, RowPC, Holding
  <2>4. Locked'
    BY <1>0, <1>3, <2>1, <2>2 DEF LockBucket, Goto, RowShape, Locked, Lock, Holding
  <2>5. StillAbsent'
    BY <1>0, <1>3 DEF LockBucket, Goto, RowShape, StillAbsent
  <2>. QED BY <2>3, <2>4, <2>5 DEF CacheInv
<1>4. ASSUME NEW r \in Rows,
             FindAgain(r) \/ Check(r) \/ Insert(r)
      PROVE CacheInv'
  <2>1. /\ pc[r] \in Holding /\ sig[r] \in Sigs /\ Lock(r) \in Buckets
        /\ holder[Lock(r)] = r
    BY <1>0, <1>4 DEF FindAgain, Check, Insert, Goto, Holding, Sorting, Locked, Lock, Buckets
  <2>2. \A q \in Rows \ {r} : pc[q] \in Holding => Lock(q) # Lock(r) /\ sig[q] # sig[r]
    BY <1>0, <2>1, LocksDiffer
  <2>3. CASE FindAgain(r)
    BY <1>0, <2>1, <2>2, <2>3 DEF FindAgain, Goto, Unlocked, CacheInv, RowShape, RowPC, Locked,
       StillAbsent, Lock, Holding, Sorting
  <2>4. CASE Check(r)
    <3>1. sig[r] \notin cache /\ Goto(r, "check", "insert") /\ UNCHANGED holder
      BY <1>0, <2>4 DEF Check, Goto, StillAbsent, Holding
    <3>2. Sheltered
      BY <1>0, <2>4, <3>1 DEF Check, Goto, Sheltered, RowShape, RowPC, Holding
    <3>. QED BY <3>2, ShelteredKeeps
  <2>5. CASE Insert(r)
    <3>1. sig[r] \notin cache /\ pc' = [pc EXCEPT ![r] = "idle"]
      BY <1>0, <2>5 DEF Insert, Goto, StillAbsent, Holding
    <3>2. /\ cache' = cache \cup {sig[r]} /\ UNCHANGED sig
          /\ holder' = [holder EXCEPT ![Lock(r)] = none]
      BY <2>5 DEF Insert, Unlocked
    <3>3. RowShape'
      BY <1>0, <3>1, <3>2 DEF RowShape, RowPC
    <3>4. Locked'
      BY <1>0, <2>2, <3>1, <3>2 DEF RowShape, Locked, Lock, Holding, Sorting
    <3>5. StillAbsent'
      BY <1>0, <2>2, <3>1, <3>2 DEF RowShape, StillAbsent, Holding, Sorting
    <3>. QED BY <3>3, <3>4, <3>5 DEF CacheInv
  <2>. QED BY <1>4, <2>3, <2>4, <2>5
<1>5. ASSUME NEW r \in Rows,
             Load(r) \/ Count(r) \/ Add(r) \/ Walked(r) \/ Inline(r) \/ Await(r) \/ Spurious(r)
      PROVE CacheInv'
  BY <1>0, <1>5, SortingSheltered, ShelteredKeeps
<1>9. ASSUME NEW r \in Rows, RowThrows(r) PROVE CacheInv'
  <2>1. pc[r] \in Holding /\ sig[r] \in Sigs /\ Lock(r) \in Buckets
    BY <1>0, <1>9 DEF RowThrows, Holding, Sorting, Locked, Lock, Buckets
  <2>2. \A q \in Rows \ {r} : pc[q] \in Holding => Lock(q) # Lock(r)
    BY <1>0, <2>1, LocksDiffer
  <2>3. /\ pc' = [pc EXCEPT ![r] = "threw"] /\ UNCHANGED <<cache, sig>>
        /\ holder' = [holder EXCEPT ![Lock(r)] = none]
    BY <1>9 DEF RowThrows, Unlocked
  <2>4. RowShape'
    BY <1>0, <2>3 DEF RowShape, RowPC
  <2>5. Locked'
    BY <1>0, <2>2, <2>3 DEF RowShape, Locked, Lock, Holding, Sorting
  <2>6. StillAbsent'
    BY <1>0, <2>3 DEF RowShape, StillAbsent, Holding, Sorting
  <2>. QED BY <2>4, <2>5, <2>6 DEF CacheInv
<1>6. ASSUME NEW w \in Workers, work(w) \/ SortThrows(w) PROVE CacheInv'
  BY <1>0, <1>6, WorkersSheltered, ShelteredKeeps
<1>7. CASE ClearCache
  BY <1>0, <1>7 DEF ClearCache, CacheInv, RowShape, Locked, Lock, StillAbsent, Holding, Sorting
<1>8. CASE UNCHANGED vars
  BY <1>0, <1>8 DEF vars, rowvars, CacheInv, RowShape, Locked, Lock, StillAbsent
<1>. QED BY <1>1, <1>2, <1>3, <1>4, <1>5, <1>6, <1>7, <1>8, <1>9 DEF Next, make_res

(* make_res loads every trie once: no row finds in the cache what its second *)
(* look-up missed, and no two rows work on the same signature.               *)
THEOREM TriesLoadedOnce == Spec => []LoadedOnce
<1>1. CacheInv => LoadedOnce
  BY LocksDiffer DEF CacheInv, StillAbsent, LoadedOnce
<1>. QED BY <1>1, CacheInit, CacheNext, PTL DEF Spec

-----------------------------------------------------------------------------
(* Types. *)

Busy == {"sort", "count", "threw"}

(* The other variables; count may be any integer until CountIsLive is known. *)
Shape ==
    /\ cache \subseteq Sigs
    /\ left \in [Rows -> Nat] /\ unsorted \in [Rows -> SUBSET Piece]
    /\ count \in [Rows -> Int] /\ calls \in [Rows -> 0..MaxCalls]
    /\ wpc \in [Workers -> {"awake", "asleep"} \cup Busy]
    /\ job \in [Workers -> Job \cup {none}]
    /\ pending \in Seq(Job) /\ err \in BOOLEAN /\ throws \in 0..MaxThrows

(* A worker that sorts has a job; what is left to hand out are pieces. *)
HaveJobs ==
    /\ \A w \in Workers : wpc[w] \in Busy => job[w] \in Job
    /\ \A r \in Rows :
        /\ pc[r] \in {"walk", "add"} => left[r] \in 0..Pieces[sig[r]]
        /\ pc[r] = "add" => left[r] > 0
        /\ pc[r] \in {"inline", "wait", "sleep"} => left[r] = 0

(* Types hold at the beginning. *)
LEMMA ShapeInit == Init => Shape /\ HaveJobs
<1>. SUFFICES ASSUME Init PROVE Shape /\ HaveJobs
  OBVIOUS
<1>1. pending \in Seq(Job)
  BY DEF Init
<1>2. calls \in [Rows -> 0..MaxCalls] /\ throws \in 0..MaxThrows
  BY CacheAssumption DEF Init
<1>3. unsorted \in [Rows -> SUBSET Piece] /\ left \in [Rows -> Nat] /\ count \in [Rows -> Int]
  BY DEF Init
<1>4. wpc \in [Workers -> {"awake", "asleep"} \cup Busy] /\ job \in [Workers -> Job \cup {none}]
  BY DEF Init
<1>5. Shape
  BY <1>1, <1>2, <1>3, <1>4 DEF Init, Shape
<1>. QED BY <1>5 DEF Init, HaveJobs, Busy

(* Every step keeps them. *)
LEMMA ShapeNext == CacheInv /\ Shape /\ HaveJobs /\ [Next]_vars => Shape' /\ HaveJobs'
<1>. SUFFICES ASSUME CacheInv, Shape, HaveJobs, [Next]_vars PROVE Shape' /\ HaveJobs'
  OBVIOUS
<1>. USE CacheAssumption DEF Goto, Work, Busy
<1>0. RowShape /\ Locked
  BY DEF CacheInv
<1>1. ASSUME NEW r \in Rows, Call(r) PROVE Shape' /\ HaveJobs'
  BY <1>0, <1>1 DEF Call, Shape, HaveJobs, RowShape, poolvars
<1>2. ASSUME NEW r \in Rows, Find(r) \/ LockBucket(r) \/ FindAgain(r) PROVE Shape' /\ HaveJobs'
  BY <1>0, <1>2 DEF Find, LockBucket, FindAgain, Shape, HaveJobs, RowShape, poolvars
<1>3. ASSUME NEW r \in Rows, Load(r) PROVE Shape' /\ HaveJobs'
  <2>1. sig[r] \in Sigs /\ Pieces[sig[r]] \in Nat /\ 0..Pieces[sig[r]] \subseteq Piece
    BY <1>0, <1>3 DEF Load, Locked, Holding, Piece
  <2>. QED BY <1>0, <1>3, <2>1 DEF Load, Shape, HaveJobs, RowShape, poolvars
<1>4. ASSUME NEW r \in Rows, Count(r) PROVE Shape' /\ HaveJobs'
  BY <1>0, <1>4 DEF Count, Shape, HaveJobs, RowShape, poolvars
<1>5. ASSUME NEW r \in Rows, Add(r) PROVE Shape' /\ HaveJobs'
  <2>1. sig[r] \in Sigs /\ left[r] \in 0..Pieces[sig[r]] /\ left[r] > 0 /\ Pieces[sig[r]] \in Nat
    BY <1>0, <1>5 DEF Add, Locked, Holding, Sorting, HaveJobs
  <2>2. [row |-> r, piece |-> left[r]] \in Job
    BY <2>1 DEF Job, Piece
  <2>3. pending' \in Seq(Job)
    <3>1. CASE err
      BY <1>5, <3>1 DEF Add, Shape
    <3>2. CASE ~err
      <4>1. pending' = Append(pending, [row |-> r, piece |-> left[r]])
        BY <1>5, <3>2 DEF Add
      <4>2. pending \in Seq(Job)
        BY DEF Shape
      <4>. QED BY <2>2, <4>1, <4>2, AppendProperties
    <3>. QED BY <3>1, <3>2
  <2>4. wpc' \in [Workers -> {"awake", "asleep"} \cup Busy]
    BY <1>5 DEF Add, Shape
  <2>5. Shape'
    BY <1>5, <2>1, <2>3, <2>4 DEF Add, Shape
  <2>6. \A w \in Workers : wpc'[w] \in Busy => job'[w] \in Job
    BY <1>5 DEF Add, Shape, HaveJobs
  <2>. QED BY <1>0, <1>5, <2>1, <2>5, <2>6 DEF Add, Shape, HaveJobs, RowShape
<1>6. ASSUME NEW r \in Rows, Walked(r) \/ Inline(r) \/ Await(r) \/ Spurious(r) PROVE Shape' /\ HaveJobs'
  <2>1. CASE Walked(r) \/ Await(r) \/ Spurious(r)
    BY <1>0, <2>1 DEF Walked, Await, Spurious, Shape, HaveJobs, RowShape, poolvars
  <2>2. CASE Inline(r)
    BY <1>0, <2>2 DEF Inline, Shape, HaveJobs, RowShape, poolvars
  <2>. QED BY <1>6, <2>1, <2>2
<1>7. ASSUME NEW r \in Rows, Check(r) \/ Insert(r) PROVE Shape' /\ HaveJobs'
  <2>1. sig[r] \in Sigs
    BY <1>0, <1>7 DEF Check, Insert, Locked, Holding
  <2>. QED BY <1>0, <1>7, <2>1 DEF Check, Insert, Shape, HaveJobs, RowShape, poolvars
<1>13. ASSUME NEW r \in Rows, RowThrows(r) PROVE Shape' /\ HaveJobs'
  BY <1>0, <1>13 DEF RowThrows, Shape, HaveJobs, RowShape, poolvars
<1>8. ASSUME NEW w \in Workers, Idle(w) \/ Clear(w) \/ SortThrows(w) \/ Report(w)
      PROVE Shape' /\ HaveJobs'
  <2>1. << >> \in Seq(Job)
    OBVIOUS
  <2>2. CASE Idle(w) \/ Clear(w)
    BY <2>1, <2>2 DEF Idle, Clear, Shape, HaveJobs, rowvars
  <2>3. CASE SortThrows(w)
    BY <2>3 DEF SortThrows, Shape, HaveJobs, rowvars
  <2>4. CASE Report(w)
    BY <2>4 DEF Report, Shape, HaveJobs, rowvars
  <2>. QED BY <1>8, <2>2, <2>3, <2>4
<1>9. ASSUME NEW w \in Workers, Take(w) PROVE Shape' /\ HaveJobs'
  <2>1. Head(pending) \in Job /\ Tail(pending) \in Seq(Job)
    BY <1>9, HeadTailProperties DEF Take, Shape
  <2>. QED BY <1>9, <2>1 DEF Take, Shape, HaveJobs, rowvars
<1>10. ASSUME NEW w \in Workers, Sort(w) PROVE Shape' /\ HaveJobs'
  BY <1>10 DEF Sort, Shape, HaveJobs, rowvars
<1>11. ASSUME NEW w \in Workers, CountDown(w) PROVE Shape' /\ HaveJobs'
  <2>1. job[w].row \in Rows
    BY <1>11 DEF CountDown, Lower, HaveJobs, Job
  <2>2. Shape'
    BY <1>11, <2>1 DEF CountDown, Lower, Shape
  <2>3. \A v \in Workers : wpc'[v] \in Busy => job'[v] \in Job
    BY <1>11 DEF CountDown, Lower, Shape, HaveJobs
  <2>4. \A r \in Rows : pc'[r] = pc[r] \/ (pc[r] = "sleep" /\ pc'[r] = "wait")
    <3>1. pc' = pc \/ \E b : pc' = Notified(b)
      BY <1>11 DEF CountDown, Lower
    <3>. QED BY <3>1 DEF Notified
  <2>5. UNCHANGED <<left, sig>>
    BY <1>11 DEF CountDown, Lower
  <2>. QED BY <2>2, <2>3, <2>4, <2>5 DEF HaveJobs
<1>12. CASE ClearCache \/ UNCHANGED vars
  BY <1>12 DEF ClearCache, vars, rowvars, poolvars, Shape, HaveJobs
<1>. QED BY <1>1, <1>2, <1>3, <1>4, <1>5, <1>6, <1>7, <1>8, <1>9, <1>10, <1>11, <1>12, <1>13
     DEF Next, make_res, work

-----------------------------------------------------------------------------
(* How many jobs of a row sortpool has. *)

(* Both sets are finite. *)
LEMMA JobsFinite ==
    ASSUME Shape, NEW r
    PROVE  /\ IsFiniteSet(Waiting(r)) /\ Cardinality(Waiting(r)) \in Nat
           /\ IsFiniteSet(Sorters(r)) /\ Cardinality(Sorters(r)) \in Nat
           /\ Outstanding(r) \in Nat
<1>1. IsFiniteSet(DOMAIN pending)
  <2>1. DOMAIN pending = 1..Len(pending) /\ Len(pending) \in Nat
    BY DEF Shape
  <2>. QED BY <2>1, FS_Interval
<1>2. IsFiniteSet(Waiting(r)) /\ IsFiniteSet(Sorters(r))
  BY <1>1, FS_Subset, CacheAssumption DEF Waiting, Sorters
<1>3. Cardinality(Waiting(r)) \in Nat /\ Cardinality(Sorters(r)) \in Nat
  BY <1>2, FS_CardinalityType
<1>. QED BY <1>2, <1>3 DEF Outstanding

(* A job is appended. *)
LEMMA WaitingGrows ==
    ASSUME Shape, NEW j \in Job, pending' = Append(pending, j), NEW r
    PROVE  Cardinality(Waiting(r)') = Cardinality(Waiting(r)) + (IF j.row = r THEN 1 ELSE 0)
<1>1. /\ DOMAIN pending = 1..Len(pending) /\ Len(pending) \in Nat
      /\ DOMAIN pending' = 1..Len(pending) + 1
      /\ \A i \in DOMAIN pending : pending'[i] = pending[i]
      /\ pending'[Len(pending) + 1] = j
  BY AppendProperties DEF Shape
<1>2. CASE j.row = r
  <2>1. Waiting(r)' = Waiting(r) \cup {Len(pending) + 1} /\ Len(pending) + 1 \notin Waiting(r)
    BY <1>1, <1>2 DEF Waiting
  <2>. QED BY <1>2, <2>1, JobsFinite, FS_AddElement
<1>3. CASE j.row # r
  <2>1. Waiting(r)' = Waiting(r)
    BY <1>1, <1>3 DEF Waiting
  <2>. QED BY <1>3, <2>1, JobsFinite
<1>. QED BY <1>2, <1>3

(* The first job is taken: the others move up. *)
LEMMA WaitingShrinks ==
    ASSUME Shape, pending # <<>>, pending' = Tail(pending), NEW r
    PROVE  Cardinality(Waiting(r)') =
               Cardinality(Waiting(r)) - (IF Head(pending).row = r THEN 1 ELSE 0)
<1>1. /\ DOMAIN pending = 1..Len(pending) /\ Len(pending) \in Nat \ {0}
      /\ DOMAIN pending' = 1..Len(pending) - 1
      /\ \A i \in 1..Len(pending) - 1 : pending'[i] = pending[i + 1]
      /\ Head(pending) = pending[1]
  BY HeadTailProperties, EmptySeq DEF Shape
<1>. DEFINE up == [i \in Waiting(r)' |-> i + 1]
<1>2. up \in Bijection(Waiting(r)', Waiting(r) \ {1})
  <2>1. up \in [Waiting(r)' -> Waiting(r) \ {1}]
    BY <1>1 DEF Waiting
  <2>2. \A i, k \in Waiting(r)' : up[i] = up[k] => i = k
    BY <1>1 DEF Waiting
  <2>3. \A k \in Waiting(r) \ {1} : \E i \in Waiting(r)' : up[i] = k
    <3>. TAKE k \in Waiting(r) \ {1}
    <3>1. k - 1 \in Waiting(r)' /\ k = (k - 1) + 1
      BY <1>1 DEF Waiting
    <3>. QED BY <3>1
  <2>. QED BY <2>1, <2>2, <2>3, Fun_IsBij
<1>3. IsFiniteSet(Waiting(r)')
  <2>1. IsFiniteSet(DOMAIN pending')
    BY <1>1, FS_Interval
  <2>. QED BY <2>1, FS_Subset DEF Waiting
<1>4. Cardinality(Waiting(r) \ {1}) = Cardinality(Waiting(r)')
  BY <1>2, <1>3, FS_Bijection DEF ExistsBijection
<1>5. 1 \in Waiting(r) <=> Head(pending).row = r
  BY <1>1 DEF Waiting
<1>6. Cardinality(Waiting(r) \ {1}) =
          IF 1 \in Waiting(r) THEN Cardinality(Waiting(r)) - 1 ELSE Cardinality(Waiting(r))
  BY JobsFinite, FS_RemoveElement
<1>7. Cardinality(Waiting(r)) \in Nat
  BY JobsFinite
<1>. HIDE DEF up
<1>. QED BY <1>4, <1>5, <1>6, <1>7

(* A worker begins a job. *)
LEMMA SortersGrow ==
    ASSUME Shape, NEW w \in Workers, NEW j \in Job, wpc[w] = "awake",
           wpc' = [wpc EXCEPT ![w] = "sort"], job' = [job EXCEPT ![w] = j], NEW r
    PROVE  Cardinality(Sorters(r)') = Cardinality(Sorters(r)) + (IF j.row = r THEN 1 ELSE 0)
<1>1. CASE j.row = r
  <2>1. Sorters(r)' = Sorters(r) \cup {w} /\ w \notin Sorters(r)
    BY <1>1 DEF Sorters, Shape, Busy
  <2>. QED BY <1>1, <2>1, JobsFinite, FS_AddElement
<1>2. CASE j.row # r
  <2>1. Sorters(r)' = Sorters(r)
    BY <1>2 DEF Sorters, Shape, Busy
  <2>. QED BY <1>2, <2>1, JobsFinite
<1>. QED BY <1>1, <1>2

(* A worker is rid of its job. *)
LEMMA SortersShrink ==
    ASSUME Shape, NEW w \in Workers, wpc[w] \in {"count", "threw"},
           wpc' = [wpc EXCEPT ![w] = "awake"], job' = [job EXCEPT ![w] = none], NEW r
    PROVE  Cardinality(Sorters(r)') = Cardinality(Sorters(r)) - (IF job[w].row = r THEN 1 ELSE 0)
<1>1. CASE job[w].row = r
  <2>1. Sorters(r)' = Sorters(r) \ {w} /\ w \in Sorters(r)
    BY <1>1 DEF Sorters, Shape, Busy
  <2>. QED BY <1>1, <2>1, JobsFinite, FS_RemoveElement
<1>2. CASE job[w].row # r
  <2>1. Sorters(r)' = Sorters(r)
    BY <1>2 DEF Sorters, Shape, Busy
  <2>. QED BY <1>2, <2>1, JobsFinite
<1>. QED BY <1>1, <1>2

(* Steps that neither give jobs to workers nor take them away. *)
LEMMA JobsStay ==
    ASSUME UNCHANGED pending,
           \A w \in Workers :
               /\ wpc'[w] \in Busy <=> wpc[w] \in Busy
               /\ wpc[w] \in Busy => job'[w] = job[w]
    PROVE  \A r : Waiting(r)' = Waiting(r) /\ Sorters(r)' = Sorters(r)
BY DEF Waiting, Sorters, Busy

(* What the steps that touch sortpool do to the number of jobs. *)
LEMMA OutstandingCount ==
    ASSUME CacheInv, Shape, NEW r \in Rows, Count(r)
    PROVE  \A q \in Rows : Outstanding(q)' = Outstanding(q) + (IF q = r THEN 1 ELSE 0)
<1>1. \A q : Waiting(q)' = Waiting(q) /\ Sorters(q)' = Sorters(q)
  BY JobsStay DEF Count, poolvars
<1>. QED BY <1>1, JobsFinite DEF Count, Goto, CacheInv, RowShape, Outstanding

(* A job that is added leaves the count as it is; one that is dropped is    *)
(* missing from now on.                                                     *)
LEMMA OutstandingAdd ==
    ASSUME CacheInv, Shape, HaveJobs, NEW r \in Rows, Add(r)
    PROVE  /\ err => \A q \in Rows : Outstanding(q)' = Outstanding(q) - (IF q = r THEN 1 ELSE 0)
           /\ ~err => /\ [row |-> r, piece |-> left[r]] \in Job
                      /\ \A q \in Rows : Outstanding(q)' = Outstanding(q)
<1>0. \A q \in Rows : Cardinality(Waiting(q)) \in Nat /\ Cardinality(Sorters(q)) \in Nat
  BY JobsFinite
<1>1. \A q : Sorters(q)' = Sorters(q)
  BY DEF Add, Shape, Sorters
<1>2. ASSUME err, NEW q \in Rows PROVE Outstanding(q)' = Outstanding(q) - (IF q = r THEN 1 ELSE 0)
  <2>1. Waiting(q)' = Waiting(q)
    BY <1>2 DEF Add, Waiting
  <2>. QED BY <1>0, <1>1, <2>1 DEF Add, Goto, CacheInv, RowShape, Outstanding
<1>3. [row |-> r, piece |-> left[r]] \in Job
  <2>1. left[r] \in Piece
    BY CacheAssumption DEF Add, Goto, CacheInv, Locked, Holding, Sorting, HaveJobs, Piece
  <2>. QED BY <2>1 DEF Job
<1>4. ASSUME ~err, NEW q \in Rows PROVE Outstanding(q)' = Outstanding(q)
  <2>1. pending' = Append(pending, [row |-> r, piece |-> left[r]])
    BY <1>4 DEF Add
  <2>2. Cardinality(Waiting(q)') = Cardinality(Waiting(q)) + (IF r = q THEN 1 ELSE 0)
    BY <1>3, <2>1, WaitingGrows
  <2>. QED BY <1>0, <1>1, <2>2 DEF Add, Goto, CacheInv, RowShape, Outstanding
<1>. QED BY <1>2, <1>3, <1>4

(* A job that is taken goes from the list to a worker. *)
LEMMA OutstandingTake ==
    ASSUME Shape, NEW w \in Workers, Take(w)
    PROVE  Head(pending) \in Job /\ \A q \in Rows : Outstanding(q)' = Outstanding(q)
<1>0. \A q \in Rows : Cardinality(Waiting(q)) \in Nat /\ Cardinality(Sorters(q)) \in Nat
  BY JobsFinite
<1>1. Head(pending) \in Job
  BY HeadTailProperties DEF Take, Shape
<1>2. \A q : Cardinality(Waiting(q)') =
               Cardinality(Waiting(q)) - (IF Head(pending).row = q THEN 1 ELSE 0)
  BY WaitingShrinks DEF Take
<1>3. \A q : Cardinality(Sorters(q)') =
               Cardinality(Sorters(q)) + (IF Head(pending).row = q THEN 1 ELSE 0)
  BY <1>1, SortersGrow DEF Take, Work
<1>. QED BY <1>0, <1>1, <1>2, <1>3 DEF Take, rowvars, Outstanding

(* The jobs in a list that is cleared are missing from now on. *)
LEMMA OutstandingClear ==
    ASSUME Shape, NEW w \in Workers, Clear(w), NEW q \in Rows
    PROVE  /\ Outstanding(q)' = Outstanding(q) - Cardinality(Waiting(q))
           /\ Outstanding(q)' \in Nat
           /\ Waiting(q) # {} => Cardinality(Waiting(q)) > 0
<1>0. Cardinality(Waiting(q)) \in Nat /\ Cardinality(Sorters(q)) \in Nat
  BY JobsFinite
<1>1. Sorters(q)' = Sorters(q) /\ UNCHANGED pc
  BY DEF Clear, rowvars, Sorters
<1>2. Waiting(q)' = {}
  <2>1. DOMAIN pending' = {}
    BY DEF Clear
  <2>. QED BY <2>1 DEF Waiting
<1>3. Cardinality({}) = 0
  BY FS_EmptySet
<1>4. Outstanding(q) =
          Cardinality(Waiting(q)) + Cardinality(Sorters(q)) + (IF pc[q] = "add" THEN 1 ELSE 0)
  BY DEF Outstanding
<1>5. Outstanding(q)' = 0 + Cardinality(Sorters(q)) + (IF pc[q] = "add" THEN 1 ELSE 0)
  BY <1>1, <1>2, <1>3 DEF Outstanding
<1>6. Waiting(q) # {} => Cardinality(Waiting(q)) # 0
  BY JobsFinite, FS_EmptySet
<1>. QED BY <1>0, <1>4, <1>5, <1>6

(* A worker that has counted or reported has one job less.  Rows that it    *)
(* wakes stay in the sorting part.                                          *)
LEMMA OutstandingDone ==
    ASSUME Shape, HaveJobs, NEW w \in Workers, CountDown(w) \/ Report(w)
    PROVE  /\ job[w].row \in Rows /\ Outstanding(job[w].row) > 0
           /\ \A q \in Rows :
               /\ Outstanding(q)' = Outstanding(q) - (IF job[w].row = q THEN 1 ELSE 0)
               /\ pc'[q] \in Sorting <=> pc[q] \in Sorting
               /\ pc'[q] = "threw" <=> pc[q] = "threw"
               /\ pc'[q] # pc[q] => pc[q] = "sleep" /\ pc'[q] = "wait"
<1>a. \A q \in Rows : Cardinality(Waiting(q)) \in Nat /\ Cardinality(Sorters(q)) \in Nat
  BY JobsFinite
<1>0. /\ wpc[w] \in {"count", "threw"} /\ wpc' = [wpc EXCEPT ![w] = "awake"]
      /\ job' = [job EXCEPT ![w] = none] /\ UNCHANGED pending
      /\ job[w].row \in Rows
  BY DEF CountDown, Lower, Report, Work, HaveJobs, Busy, Job
<1>1. \A q \in Rows :
        /\ pc'[q] # pc[q] => pc[q] = "sleep" /\ pc'[q] = "wait"
        /\ pc'[q] = "add" <=> pc[q] = "add"
        /\ pc'[q] = "threw" <=> pc[q] = "threw"
        /\ pc'[q] \in Sorting <=> pc[q] \in Sorting
  <2>1. pc' = pc \/ \E b : pc' = Notified(b)
    BY DEF CountDown, Lower, Report, rowvars
  <2>. QED BY <2>1 DEF Notified, Sorting
<1>2. ASSUME NEW q \in Rows
      PROVE  Outstanding(q)' = Outstanding(q) - (IF job[w].row = q THEN 1 ELSE 0)
  <2>1. Cardinality(Waiting(q)') = Cardinality(Waiting(q))
    BY <1>0 DEF Waiting
  <2>2. Cardinality(Sorters(q)') = Cardinality(Sorters(q)) - (IF job[w].row = q THEN 1 ELSE 0)
    BY <1>0, SortersShrink
  <2>. QED BY <1>a, <1>1, <2>1, <2>2 DEF Outstanding
<1>3. Outstanding(job[w].row) > 0
  <2>1. w \in Sorters(job[w].row)
    BY <1>0 DEF Sorters
  <2>2. Cardinality(Sorters(job[w].row)) # 0
    BY <1>0, <2>1, JobsFinite, FS_EmptySet
  <2>. QED BY <1>a, <1>0, <2>2 DEF Outstanding
<1>. QED BY <1>0, <1>1, <1>2, <1>3

-----------------------------------------------------------------------------
(* The counter of a call. *)

(* Without an exception nothing is dropped. *)
NoneThrown == throws = 0 => ~err /\ \A w \in Workers : wpc[w] # "threw"

LiveInv == CountIsLive /\ NoneThrown

(* Steps that leave counters, jobs and threads alone, and take a row out of  *)
(* the sorting part only when its counter is zero.                           *)
Steady ==
    /\ UNCHANGED <<count, poolvars>>
    /\ \A r \in Rows :
        /\ pc'[r] = "add" <=> pc[r] = "add"
        /\ pc'[r] = "threw" <=> pc[r] = "threw"
        /\ pc'[r] \notin Sorting => pc[r] \notin Sorting \/ count[r] <= 0

(* They keep the counters live. *)
LEMMA SteadyKeeps == ASSUME Shape, LiveInv, Steady PROVE LiveInv'
<1>1. \A r \in Rows : Outstanding(r)' = Outstanding(r) /\ Outstanding(r) \in Nat
  <2>1. \A r : Waiting(r)' = Waiting(r) /\ Sorters(r)' = Sorters(r)
    BY JobsStay DEF Steady, poolvars
  <2>. QED BY <2>1, JobsFinite DEF Outstanding, Steady
<1>2. CountIsLive'
  <2>. SUFFICES ASSUME NEW r \in Rows, pc'[r] # "threw"
                PROVE  /\ count'[r] >= Outstanding(r)'
                       /\ throws' = 0 => count'[r] = Outstanding(r)'
                       /\ pc'[r] \notin Sorting => Outstanding(r)' = 0
    BY DEF CountIsLive
  <2>1. /\ count'[r] = count[r] /\ count[r] \in Int /\ throws' = throws /\ pc[r] # "threw"
        /\ pc'[r] \notin Sorting => pc[r] \notin Sorting \/ count[r] <= 0
    BY DEF Steady, poolvars, Shape
  <2>. QED BY <1>1, <2>1 DEF LiveInv, CountIsLive
<1>3. NoneThrown'
  BY DEF LiveInv, NoneThrown, Steady, poolvars
<1>. QED BY <1>2, <1>3 DEF LiveInv

(* The steps of a row that are steady. *)
LEMMA RowsSteady ==
    ASSUME RowShape, Shape, NEW r \in Rows,
           \/ Find(r) \/ LockBucket(r) \/ FindAgain(r) \/ Load(r) \/ Walked(r) \/ Inline(r)
           \/ Await(r) \/ Spurious(r) \/ Check(r) \/ Insert(r)
    PROVE  Steady
<1>. USE DEF RowShape, Steady, Sorting, Goto
<1>1. CASE Find(r) \/ LockBucket(r) \/ FindAgain(r) \/ Load(r)
  BY <1>1 DEF Find, LockBucket, FindAgain, Load
<1>2. CASE Walked(r) \/ Inline(r) \/ Spurious(r)
  BY <1>2 DEF Walked, Inline, Spurious
<1>3. CASE Await(r)
  BY <1>3 DEF Await, Shape
<1>4. CASE Check(r) \/ Insert(r)
  BY <1>4 DEF Check, Insert
<1>. QED BY <1>1, <1>2, <1>3, <1>4

(* Counters and jobs are nothing at first. *)
LEMMA LiveInit == Init => LiveInv
<1>. SUFFICES ASSUME Init PROVE LiveInv
  OBVIOUS
<1>1. \A r \in Rows : Waiting(r) = {} /\ Sorters(r) = {}
  <2>1. DOMAIN pending = {}
    BY DEF Init
  <2>. QED BY <2>1 DEF Init, Waiting, Sorters
<1>2. \A r \in Rows : Outstanding(r) = 0
  <2>1. Cardinality({}) = 0
    BY FS_EmptySet
  <2>2. \A r \in Rows : pc[r] # "add"
    BY DEF Init
  <2>. QED BY <1>1, <2>1, <2>2 DEF Outstanding
<1>3. CountIsLive
  BY <1>2 DEF CountIsLive, Init
<1>. QED BY <1>3 DEF LiveInv, NoneThrown, Init

(* Every step keeps the counters live. *)
LEMMA LiveNext == CacheInv /\ Shape /\ HaveJobs /\ LiveInv /\ [Next]_vars => LiveInv'
<1>. SUFFICES ASSUME CacheInv, Shape, HaveJobs, LiveInv, [Next]_vars PROVE LiveInv'
  OBVIOUS
<1>0. RowShape
  BY DEF CacheInv
<1>a. \A r \in Rows :
        /\ Cardinality(Waiting(r)) \in Nat /\ Cardinality(Sorters(r)) \in Nat
        /\ Outstanding(r) \in Nat /\ count[r] \in Int
  BY JobsFinite DEF Shape
<1>1. ASSUME NEW r \in Rows, Call(r) PROVE LiveInv'
  <2>1. \A q \in Rows : pc'[q] = "add" <=> pc[q] = "add"
    BY <1>0, <1>1 DEF Call, Goto, RowShape
  <2>2. \A q \in Rows : Outstanding(q)' = Outstanding(q)
    <3>1. \A q : Waiting(q)' = Waiting(q) /\ Sorters(q)' = Sorters(q)
      BY <1>1, JobsStay DEF Call, poolvars
    <3>. QED BY <2>1, <3>1 DEF Outstanding
  <2>3. Outstanding(r) = 0
    BY <1>1 DEF Call, Goto, Sorting, LiveInv, CountIsLive
  <2>4. CountIsLive'
    BY <1>0, <1>1, <2>2, <2>3, <1>a DEF Call, Goto, RowShape, Sorting, Shape, LiveInv, CountIsLive, poolvars
  <2>. QED BY <1>1, <2>4 DEF Call, LiveInv, NoneThrown, poolvars
<1>2. ASSUME NEW r \in Rows,
             \/ Find(r) \/ LockBucket(r) \/ FindAgain(r) \/ Load(r) \/ Walked(r) \/ Inline(r)
             \/ Await(r) \/ Spurious(r) \/ Check(r) \/ Insert(r)
      PROVE LiveInv'
  BY <1>0, <1>2, RowsSteady, SteadyKeeps
<1>3. ASSUME NEW r \in Rows, Count(r) PROVE LiveInv'
  <2>1. \A q \in Rows : Outstanding(q)' = Outstanding(q) + (IF q = r THEN 1 ELSE 0)
    BY <1>3, OutstandingCount
  <2>2. CountIsLive'
    BY <1>0, <1>3, <1>a, <2>1 DEF Count, Goto, RowShape, Sorting, Shape, LiveInv, CountIsLive, poolvars
  <2>. QED BY <1>3, <2>2 DEF Count, LiveInv, NoneThrown, poolvars
<1>4. ASSUME NEW r \in Rows, Add(r) PROVE LiveInv'
  <2>1. NoneThrown'
    BY <1>4 DEF Add, LiveInv, NoneThrown, Shape
  <2>2. CASE err
    <3>1. \A q \in Rows : Outstanding(q)' = Outstanding(q) - (IF q = r THEN 1 ELSE 0)
      BY <1>4, <2>2, OutstandingAdd
    <3>2. throws # 0
      BY <2>2 DEF LiveInv, NoneThrown
    <3>. QED BY <1>0, <1>4, <1>a, <2>1, <3>1, <3>2 DEF Add, Goto, RowShape, Sorting, LiveInv, CountIsLive
  <2>3. CASE ~err
    <3>1. \A q \in Rows : Outstanding(q)' = Outstanding(q)
      BY <1>4, <2>3, OutstandingAdd
    <3>. QED BY <1>0, <1>4, <1>a, <2>1, <3>1 DEF Add, Goto, RowShape, Sorting, LiveInv, CountIsLive
  <2>. QED BY <2>2, <2>3
<1>5. ASSUME NEW w \in Workers, Idle(w) \/ Sort(w) \/ SortThrows(w) PROVE LiveInv'
  <2>1. \A q \in Rows : Outstanding(q)' = Outstanding(q)
    <3>1. \A q : Waiting(q)' = Waiting(q) /\ Sorters(q)' = Sorters(q)
      <4>1. \A v \in Workers : (wpc'[v] \in Busy <=> wpc[v] \in Busy) /\ job'[v] = job[v]
        BY <1>5 DEF Idle, Sort, SortThrows, Work, Shape, Busy
      <4>. QED BY <1>5, <4>1, JobsStay DEF Idle, Sort, SortThrows
    <3>. QED BY <1>5, <3>1 DEF Idle, Sort, SortThrows, rowvars, Outstanding
  <2>2. throws' = 0 => throws = 0 /\ ~SortThrows(w)
    BY <1>5 DEF Idle, Sort, SortThrows, Shape
  <2>3. CountIsLive'
    BY <1>5, <2>1, <2>2 DEF Idle, Sort, SortThrows, rowvars, LiveInv, CountIsLive
  <2>4. NoneThrown'
    BY <1>5, <2>2 DEF Idle, Sort, Work, SortThrows, LiveInv, NoneThrown, Shape
  <2>. QED BY <2>3, <2>4 DEF LiveInv
<1>6. ASSUME NEW w \in Workers, Take(w) PROVE LiveInv'
  <2>1. \A q \in Rows : Outstanding(q)' = Outstanding(q)
    BY <1>6, OutstandingTake
  <2>2. CountIsLive'
    BY <1>6, <2>1 DEF Take, rowvars, LiveInv, CountIsLive
  <2>. QED BY <1>6, <2>2 DEF Take, Work, LiveInv, NoneThrown, Shape
<1>7. ASSUME NEW w \in Workers, Clear(w) PROVE LiveInv'
  <2>1. \A q \in Rows : Outstanding(q)' <= Outstanding(q) /\ Outstanding(q)' \in Nat
    BY <1>7, <1>a, OutstandingClear
  <2>2. throws # 0
    BY <1>7 DEF Clear, LiveInv, NoneThrown
  <2>3. CountIsLive'
    BY <1>7, <1>a, <2>1, <2>2 DEF Clear, rowvars, LiveInv, CountIsLive
  <2>. QED BY <1>7, <2>2, <2>3 DEF Clear, LiveInv, NoneThrown
<1>8. ASSUME NEW w \in Workers, CountDown(w) \/ Report(w) PROVE LiveInv'
  <2>1. /\ job[w].row \in Rows /\ Outstanding(job[w].row) > 0
        /\ \A q \in Rows :
            /\ Outstanding(q)' = Outstanding(q) - (IF job[w].row = q THEN 1 ELSE 0)
            /\ pc'[q] \in Sorting <=> pc[q] \in Sorting
            /\ pc'[q] = "threw" <=> pc[q] = "threw"
    BY <1>8, OutstandingDone
  <2>2. CASE CountDown(w)
    <3>1. \A q \in Rows :
            /\ pc[q] # "threw" => count'[q] = count[q] - (IF job[w].row = q THEN 1 ELSE 0)
            /\ pc[q] = "threw" => count'[q] = count[q]
      <4>1. \/ /\ pc[job[w].row] # "threw"
               /\ count' = [count EXCEPT ![job[w].row] = @ - 1]
            \/ pc[job[w].row] = "threw" /\ count' = count
        BY <2>2 DEF CountDown, Lower
      <4>2. count \in [Rows -> Int]
        BY DEF Shape
      <4>. QED BY <2>1, <4>1, <4>2
    <3>2. CountIsLive'
      BY <1>a, <2>1, <2>2, <3>1 DEF CountDown, Lower, LiveInv, CountIsLive
    <3>3. NoneThrown'
      BY <2>2 DEF CountDown, Lower, Work, LiveInv, NoneThrown, Shape
    <3>. QED BY <3>2, <3>3 DEF LiveInv
  <2>3. CASE Report(w)
    <3>1. throws # 0 /\ UNCHANGED throws
      BY <2>3 DEF Report, Work, LiveInv, NoneThrown
    <3>2. CountIsLive'
      BY <1>a, <2>1, <2>3, <3>1 DEF Report, LiveInv, CountIsLive
    <3>. QED BY <2>1, <2>3, <3>1, <3>2 DEF Report, LiveInv, NoneThrown
  <2>. QED BY <1>8, <2>2, <2>3
<1>10. ASSUME NEW r \in Rows, RowThrows(r) PROVE LiveInv'
  <2>1. /\ \A q \in Rows \ {r} : pc'[q] = pc[q] /\ count'[q] = count[q]
        /\ pc'[r] = "threw" /\ count'[r] = 0 /\ pc[r] # "threw" /\ UNCHANGED poolvars
    BY <1>0, <1>10 DEF RowThrows, RowShape, Shape
  <2>2. \A q \in Rows \ {r} : Outstanding(q)' = Outstanding(q)
    <3>1. \A q : Waiting(q)' = Waiting(q) /\ Sorters(q)' = Sorters(q)
      BY <2>1, JobsStay DEF poolvars
    <3>. QED BY <2>1, <3>1 DEF Outstanding
  <2>3. CountIsLive'
    BY <2>1, <2>2 DEF LiveInv, CountIsLive, poolvars
  <2>. QED BY <2>1, <2>3 DEF LiveInv, NoneThrown, poolvars
<1>9. CASE ClearCache \/ UNCHANGED vars
  <2>1. Steady
    BY <1>9 DEF ClearCache, vars, rowvars, Steady
  <2>. QED BY <2>1, SteadyKeeps
<1>. QED BY <1>1, <1>2, <1>3, <1>4, <1>5, <1>6, <1>7, <1>8, <1>9, <1>10 DEF Next, make_res, work

(* Unless the row itself has thrown, sortit lowers a counter that its call   *)
(* still has: the local variable count is the number of jobs that point to   *)
(* it, or more once a job has thrown, and no job is left when the call goes  *)
(* on to publish the trie or returns.                                        *)
THEOREM CountersOutliveJobs == Spec => []CountIsLive
<1>1. LiveInv => CountIsLive
  BY DEF LiveInv
<1>. QED BY <1>1, CacheInit, CacheNext, ShapeInit, ShapeNext, LiveInit, LiveNext, PTL DEF Spec

(* The counter of a call that was left by an exception is gone, and no job finds it again. *)
Gone == \A r \in Rows : pc[r] = "threw" => count[r] = 0

(* A row that has thrown stays where it is. *)
LEMMA GoneNext == CacheInv /\ Shape /\ HaveJobs /\ Gone /\ [Next]_vars => Gone'
<1>. SUFFICES ASSUME CacheInv, Shape, HaveJobs, Gone, [Next]_vars, NEW q \in Rows, pc'[q] = "threw"
              PROVE  count'[q] = 0
  BY DEF Gone
<1>0. RowShape
  BY DEF CacheInv
<1>1. ASSUME NEW r \in Rows, RowThrows(r) PROVE count'[q] = 0
  BY <1>0, <1>1 DEF RowThrows, RowShape, Shape, Gone
<1>2. ASSUME NEW r \in Rows, Call(r) \/ Count(r) PROVE count'[q] = 0
  BY <1>0, <1>2 DEF Call, Count, Goto, RowShape, Shape, Gone
<1>3. ASSUME NEW r \in Rows,
             \/ Find(r) \/ LockBucket(r) \/ FindAgain(r) \/ Load(r) \/ Walked(r) \/ Inline(r)
             \/ Await(r) \/ Spurious(r) \/ Check(r) \/ Insert(r)
      PROVE  count'[q] = 0
  BY <1>0, <1>3, RowsSteady DEF Steady, Gone
<1>4. ASSUME NEW r \in Rows, Add(r) PROVE count'[q] = 0
  BY <1>0, <1>4 DEF Add, Goto, RowShape, Gone
<1>5. ASSUME NEW w \in Workers, Idle(w) \/ Take(w) \/ Clear(w) \/ Sort(w) \/ SortThrows(w) PROVE count'[q] = 0
  BY <1>5 DEF Idle, Take, Clear, Sort, SortThrows, rowvars, Gone
<1>6. ASSUME NEW w \in Workers, CountDown(w) \/ Report(w) PROVE count'[q] = 0
  <2>1. pc[q] = "threw" /\ count[q] = 0
    BY <1>6, OutstandingDone DEF Gone
  <2>2. CASE CountDown(w)
    <3>1. count' = count \/ (job[w].row # q /\ count' = [count EXCEPT ![job[w].row] = @ - 1])
      BY <2>1, <2>2 DEF CountDown, Lower
    <3>. QED BY <2>1, <3>1 DEF Shape
  <2>3. CASE Report(w)
    BY <2>1, <2>3 DEF Report
  <2>. QED BY <1>6, <2>2, <2>3
<1>7. CASE ClearCache \/ UNCHANGED vars
  BY <1>7 DEF ClearCache, vars, rowvars, Gone
<1>. QED BY <1>1, <1>2, <1>3, <1>4, <1>5, <1>6, <1>7 DEF Next, make_res, work

(* Every variable keeps its type; count does not go below zero. *)
THEOREM TypeCorrect == Spec => []TypeOK
<1>1. CacheInv /\ Shape /\ LiveInv /\ Gone => TypeOK
  <2>. SUFFICES ASSUME CacheInv, Shape, LiveInv, Gone PROVE TypeOK
    OBVIOUS
  <2>1. count \in [Rows -> Nat]
    <3>1. ASSUME NEW r \in Rows PROVE count[r] \in Nat
      <4>1. Outstanding(r) \in Nat /\ count[r] \in Int
        BY JobsFinite DEF Shape
      <4>2. pc[r] # "threw" => count[r] >= Outstanding(r)
        BY DEF LiveInv, CountIsLive
      <4>. QED BY <4>1, <4>2 DEF Gone
    <3>. QED BY <3>1 DEF Shape
  <2>2. wpc \in [Workers -> {"awake", "asleep", "sort", "count", "threw"}]
    BY DEF Shape, Busy
  <2>. QED BY <2>1, <2>2 DEF Shape, CacheInv, RowShape, RowPC, TypeOK
<1>2. Init => Gone
  BY DEF Init, Gone
<1>. QED BY <1>1, <1>2, CacheInit, CacheNext, ShapeInit, ShapeNext, LiveInit, LiveNext, GoneNext, PTL DEF Spec

-----------------------------------------------------------------------------
(* Tries are sorted when they are published. *)

(* Somebody is going to sort piece p for row r, or is throwing instead. *)
HasJob(r, p) ==
    \/ \E i \in DOMAIN pending : pending[i].row = r /\ pending[i].piece = p
    \/ \E w \in Workers : wpc[w] \in {"sort", "threw"} /\ job[w].row = r /\ job[w].piece = p

(* A piece that was handed out and is not sorted has a job, or it is lost    *)
(* and the counter shows that by never becoming zero.                        *)
Accounted(r) ==
    /\ pc[r] \in Sorting =>
        \A p \in unsorted[r] : p > left[r] => HasJob(r, p) \/ count[r] > Outstanding(r)
    /\ pc[r] \in {"wait", "sleep"} => 0 \notin unsorted[r]
    /\ pc[r] \in {"check", "insert"} => unsorted[r] = {}

SortInv == \A r \in Rows : Accounted(r)

(* What a step must not do to a row. *)
Tame(r) == pc'[r] # "threw" =>
    /\ unsorted'[r] \subseteq unsorted[r] /\ left'[r] = left[r]
    /\ count[r] > Outstanding(r) => count'[r] > Outstanding(r)'
    /\ \A p \in unsorted'[r] : HasJob(r, p) => HasJob(r, p)' \/ count'[r] > Outstanding(r)'
    /\ pc'[r] \in Sorting => pc[r] \in Sorting
    /\ pc'[r] \in {"wait", "sleep"} => pc[r] \in {"wait", "sleep"} \/ 0 \notin unsorted'[r]
    /\ pc'[r] \in {"check", "insert"} => pc[r] \in {"check", "insert"} \/ unsorted'[r] = {}

(* A tame step keeps the pieces accounted for. *)
LEMMA TameKeeps == ASSUME NEW r \in Rows, Accounted(r), Tame(r) PROVE Accounted(r)'
BY DEF Accounted, Tame, Sorting

(* A step that leaves the pool alone leaves its jobs. *)
LEMMA HasJobStays ==
    ASSUME UNCHANGED <<pending, wpc, job>>
    PROVE  \A r, p : HasJob(r, p)' <=> HasJob(r, p)
BY DEF HasJob

(* Nothing is sorted yet. *)
LEMMA SortInit == Init => SortInv
BY DEF Init, SortInv, Accounted, Sorting

(* Rows keep the pieces accounted for. *)
LEMMA SortRow ==
    ASSUME CacheInv, Shape, HaveJobs, LiveInv, SortInv, NEW r \in Rows, Call(r) \/ make_res(r) \/ RowThrows(r) \/ Spurious(r)
    PROVE  SortInv'
<1>0. RowShape /\ \A q \in Rows : Outstanding(q) \in Nat /\ count[q] \in Int
  BY JobsFinite DEF CacheInv, Shape
<1>. USE DEF Goto
<1>1. CASE \/ Find(r) \/ LockBucket(r) \/ FindAgain(r) \/ Walked(r) \/ Inline(r)
           \/ Spurious(r) \/ Check(r) \/ Insert(r) \/ Await(r)
  <2>1. Steady
    BY <1>0, <1>1, RowsSteady
  <2>2. \A q \in Rows : Outstanding(q)' = Outstanding(q)
    <3>1. \A q : Waiting(q)' = Waiting(q) /\ Sorters(q)' = Sorters(q)
      BY <2>1, JobsStay DEF Steady, poolvars
    <3>. QED BY <2>1, <3>1 DEF Outstanding, Steady
  <2>3. \A q, p : HasJob(q, p)' <=> HasJob(q, p)
    BY <2>1, HasJobStays DEF Steady, poolvars
  <2>4. UNCHANGED <<count, left>>
    BY <1>1, <2>1 DEF Steady, Find, LockBucket, FindAgain, Walked, Inline, Spurious, Check, Insert, Await
  <2>5. ASSUME NEW q \in Rows, q # r PROVE Tame(q)
    <3>1. unsorted'[q] = unsorted[q] /\ pc'[q] = pc[q]
      BY <1>0, <1>1, <2>5 DEF Find, LockBucket, FindAgain, Walked, Inline, Spurious, Check, Insert, Await,
         RowShape, Shape
    <3>. QED BY <2>2, <2>3, <2>4, <3>1 DEF Tame
  <2>6. Tame(r)
    <3>1. CASE Find(r) \/ LockBucket(r) \/ FindAgain(r) \/ Walked(r) \/ Spurious(r) \/ Check(r) \/ Insert(r)
      <4>1. UNCHANGED unsorted
        BY <3>1 DEF Find, LockBucket, FindAgain, Walked, Spurious, Check, Insert
      <4>2. /\ pc'[r] \in Sorting => pc[r] \in Sorting
            /\ pc'[r] \in {"wait", "sleep"} => pc[r] \in {"wait", "sleep"}
            /\ pc'[r] \in {"check", "insert"} => pc[r] \in {"check", "insert"}
        BY <1>0, <3>1 DEF Find, LockBucket, FindAgain, Walked, Spurious, Check, Insert, RowShape, Sorting
      <4>. QED BY <2>2, <2>3, <2>4, <4>1, <4>2 DEF Tame
    <3>2. CASE Inline(r)
      <4>1. unsorted'[r] = unsorted[r] \ {0} /\ pc[r] = "inline" /\ pc'[r] = "wait"
        BY <1>0, <3>2 DEF Inline, RowShape, Shape
      <4>. QED BY <2>2, <2>3, <2>4, <4>1 DEF Tame, Sorting
    <3>3. CASE Await(r)
      <4>1. UNCHANGED unsorted /\ pc[r] = "wait" /\ pc'[r] = IF count[r] > 0 THEN "sleep" ELSE "check"
        BY <1>0, <3>3 DEF Await, RowShape
      <4>2. ASSUME ~(count[r] > 0) PROVE unsorted[r] = {}
        <5>1. Outstanding(r) = 0 /\ count[r] = 0
          BY <1>0, <4>1, <4>2 DEF LiveInv, CountIsLive
        <5>2. Waiting(r) = {} /\ Sorters(r) = {}
          <6>1. Cardinality(Waiting(r)) = 0 /\ Cardinality(Sorters(r)) = 0
            BY <5>1, JobsFinite DEF Outstanding
          <6>. QED BY <6>1, JobsFinite, FS_EmptySet
        <5>3. \A p : ~HasJob(r, p)
          BY <5>2 DEF HasJob, Waiting, Sorters
        <5>4. \A p \in unsorted[r] : p \in Nat /\ ~(p > left[r])
          <6>1. \A p \in unsorted[r] : p > left[r] => HasJob(r, p) \/ count[r] > Outstanding(r)
            BY <4>1 DEF SortInv, Accounted, Sorting
          <6>2. unsorted[r] \subseteq Nat
            BY CacheAssumption DEF Shape, Piece
          <6>. QED BY <5>1, <5>3, <6>1, <6>2
        <5>5. left[r] = 0 /\ 0 \notin unsorted[r]
          BY <4>1 DEF SortInv, Accounted, HaveJobs
        <5>. QED BY <5>4, <5>5
      <4>. QED BY <2>2, <2>3, <2>4, <4>1, <4>2 DEF Tame, Sorting
    <3>. QED BY <1>1, <3>1, <3>2, <3>3
  <2>. QED BY <2>5, <2>6, TameKeeps DEF SortInv
<1>2. CASE Call(r) \/ Load(r)
  <2>1. \A q, p : HasJob(q, p)' <=> HasJob(q, p)
    BY <1>2, HasJobStays DEF Call, Load, poolvars
  <2>2. ASSUME NEW q \in Rows, q # r PROVE Tame(q)
    <3>1. /\ unsorted'[q] = unsorted[q] /\ pc'[q] = pc[q] /\ count'[q] = count[q]
          /\ left'[q] = left[q]
      BY <1>0, <1>2, <2>2 DEF Call, Load, RowShape, Shape
    <3>2. Waiting(q)' = Waiting(q) /\ Sorters(q)' = Sorters(q)
      BY <1>2, JobsStay DEF Call, Load, poolvars
    <3>3. Outstanding(q)' = Outstanding(q)
      BY <3>1, <3>2 DEF Outstanding
    <3>. QED BY <2>1, <3>1, <3>3 DEF Tame
  <2>3. Accounted(r)'
    <3>1. CASE Call(r)
      BY <1>0, <3>1 DEF Call, RowShape, Accounted, Sorting
    <3>2. CASE Load(r)
      <4>1. /\ pc'[r] = "walk" /\ left'[r] = Pieces[sig[r]] /\ unsorted'[r] = 0..Pieces[sig[r]]
            /\ Pieces[sig[r]] \in Nat
        BY <1>0, <3>2, CacheAssumption DEF Load, RowShape, Shape, CacheInv, Locked, Holding
      <4>2. \A p \in unsorted'[r] : ~(p > left'[r])
        BY <4>1
      <4>. QED BY <4>1, <4>2 DEF Accounted
    <3>. QED BY <1>2, <3>1, <3>2
  <2>. QED BY <2>2, <2>3, TameKeeps DEF SortInv
<1>3. CASE Count(r)
  <2>1. \A q, p : HasJob(q, p)' <=> HasJob(q, p)
    BY <1>3, HasJobStays DEF Count, poolvars
  <2>2. \A q \in Rows : Outstanding(q)' = Outstanding(q) + (IF q = r THEN 1 ELSE 0)
    BY <1>3, OutstandingCount
  <2>3. \A q \in Rows : count'[q] = count[q] + (IF q = r THEN 1 ELSE 0)
    BY <1>0, <1>3 DEF Count, Shape
  <2>4. UNCHANGED <<left, unsorted>> /\ \A q \in Rows : pc'[q] # pc[q] => pc[q] = "walk" /\ pc'[q] = "add"
    BY <1>0, <1>3 DEF Count, RowShape
  <2>5. \A q \in Rows : Tame(q)
    BY <1>0, <2>1, <2>2, <2>3, <2>4 DEF Tame, Sorting
  <2>. QED BY <2>5, TameKeeps DEF SortInv
<1>4. CASE Add(r)
  <2>1. /\ UNCHANGED <<unsorted, count>> /\ pc[r] = "add" /\ pc'[r] = "walk" /\ left'[r] = left[r] - 1
        /\ \A q \in Rows \ {r} : pc'[q] = pc[q] /\ left'[q] = left[q]
        /\ left[r] \in Nat /\ \A q \in Rows : unsorted[q] \subseteq Nat
    BY <1>0, <1>4, CacheAssumption DEF Add, RowShape, Shape, Piece
  <2>2. CASE err
    <3>1. \A q \in Rows : Outstanding(q)' = Outstanding(q) - (IF q = r THEN 1 ELSE 0)
      BY <1>4, <2>2, OutstandingAdd
    <3>2. \A q, p : HasJob(q, p)' <=> HasJob(q, p)
      BY <1>4, <2>2, HasJobStays DEF Add
    <3>3. Accounted(r)'
      <4>1. count[r] >= Outstanding(r)
        BY <2>1 DEF LiveInv, CountIsLive
      <4>2. count'[r] > Outstanding(r)'
        BY <1>0, <2>1, <3>1, <4>1
      <4>. QED BY <2>1, <4>2 DEF Accounted
    <3>4. \A q \in Rows \ {r} : Tame(q)
      BY <1>0, <2>1, <3>1, <3>2 DEF Tame
    <3>. QED BY <3>3, <3>4, TameKeeps DEF SortInv
  <2>3. CASE ~err
    <3>1. /\ \A q \in Rows : Outstanding(q)' = Outstanding(q)
          /\ [row |-> r, piece |-> left[r]] \in Job
      BY <1>4, <2>3, OutstandingAdd
    <3>2. pending' = Append(pending, [row |-> r, piece |-> left[r]]) /\ UNCHANGED job
      BY <1>4, <2>3 DEF Add
    <3>3. /\ DOMAIN pending = 1..Len(pending) /\ Len(pending) \in Nat
          /\ DOMAIN pending' = 1..Len(pending) + 1
          /\ \A i \in DOMAIN pending : pending'[i] = pending[i]
          /\ pending'[Len(pending) + 1] = [row |-> r, piece |-> left[r]]
      BY <3>1, <3>2, AppendProperties DEF Shape
    <3>4. \A w \in Workers : wpc[w] \in {"sort", "threw"} => wpc'[w] = wpc[w]
      BY <1>4, <2>3 DEF Add
    <3>5. \A q, p : HasJob(q, p) => HasJob(q, p)'
      BY <3>2, <3>3, <3>4 DEF HasJob
    <3>6. \A p : p = left[r] => HasJob(r, p)'
      <4>1. Len(pending) + 1 \in DOMAIN pending'
        BY <3>3
      <4>2. pending'[Len(pending) + 1].row = r /\ pending'[Len(pending) + 1].piece = left[r]
        BY <3>3
      <4>. QED BY <4>1, <4>2 DEF HasJob
    <3>7. Accounted(r)'
      <4>1. ASSUME NEW p \in unsorted'[r], p > left'[r]
            PROVE  HasJob(r, p)' \/ count'[r] > Outstanding(r)'
        <5>1. p \in unsorted[r] /\ p \in Nat /\ (p = left[r] \/ p > left[r])
          BY <2>1, <4>1
        <5>2. CASE p > left[r]
          BY <2>1, <3>1, <3>5, <5>1, <5>2 DEF SortInv, Accounted, Sorting
        <5>. QED BY <3>6, <5>1, <5>2
      <4>. QED BY <2>1, <4>1 DEF Accounted
    <3>8. \A q \in Rows \ {r} : Tame(q)
      BY <1>0, <2>1, <3>1, <3>5 DEF Tame
    <3>. QED BY <3>7, <3>8, TameKeeps DEF SortInv
  <2>. QED BY <2>2, <2>3
<1>5. CASE RowThrows(r)
  <2>1. /\ \A q \in Rows \ {r} : /\ pc'[q] = pc[q] /\ count'[q] = count[q]
                                /\ left'[q] = left[q] /\ unsorted'[q] = unsorted[q]
        /\ pc'[r] = "threw" /\ UNCHANGED poolvars
    BY <1>0, <1>5 DEF RowThrows, RowShape, Shape
  <2>2. \A q \in Rows \ {r} : Outstanding(q)' = Outstanding(q) /\ \A p : HasJob(q, p)' <=> HasJob(q, p)
    <3>1. \A q : Waiting(q)' = Waiting(q) /\ Sorters(q)' = Sorters(q)
      BY <2>1, JobsStay DEF poolvars
    <3>. QED BY <2>1, <3>1, HasJobStays DEF Outstanding, poolvars
  <2>3. \A q \in Rows : Tame(q)
    BY <2>1, <2>2 DEF Tame
  <2>. QED BY <2>3, TameKeeps DEF SortInv
<1>. QED BY <1>1, <1>2, <1>3, <1>4, <1>5 DEF make_res

(* So do the sorting threads. *)
LEMMA SortWork ==
    ASSUME CacheInv, Shape, HaveJobs, LiveInv, SortInv, NEW w \in Workers, work(w) \/ SortThrows(w)
    PROVE  SortInv'
<1>0. \A q \in Rows :
        /\ Outstanding(q) \in Nat /\ count[q] \in Int
        /\ pc[q] # "threw" => count[q] >= Outstanding(q)
        /\ unsorted[q] \subseteq unsorted[q]
  BY JobsFinite DEF Shape, LiveInv, CountIsLive
<1>. USE DEF Work
<1>1. CASE Idle(w) \/ Sort(w) \/ SortThrows(w)
  <2>1. \A q \in Rows : Outstanding(q)' = Outstanding(q)
    <3>1. \A v \in Workers : (wpc'[v] \in Busy <=> wpc[v] \in Busy) /\ job'[v] = job[v]
      BY <1>1 DEF Idle, Sort, SortThrows, Shape, Busy
    <3>2. \A q : Waiting(q)' = Waiting(q) /\ Sorters(q)' = Sorters(q)
      BY <1>1, <3>1, JobsStay DEF Idle, Sort, SortThrows
    <3>. QED BY <1>1, <3>2 DEF Idle, Sort, SortThrows, rowvars, Outstanding
  <2>2. UNCHANGED <<pc, left, count, pending, job>>
    BY <1>1 DEF Idle, Sort, SortThrows, rowvars
  <2>3. ASSUME NEW q \in Rows PROVE Tame(q)
    <3>1. CASE Idle(w) \/ SortThrows(w)
      <4>1. UNCHANGED unsorted
        BY <3>1 DEF Idle, SortThrows
      <4>2. \A v \in Workers : wpc[v] \in {"sort", "threw"} => wpc'[v] \in {"sort", "threw"}
        BY <3>1 DEF Idle, SortThrows, Shape
      <4>3. \A p : HasJob(q, p) => HasJob(q, p)'
        BY <2>2, <4>2 DEF HasJob
      <4>. QED BY <1>0, <2>1, <2>2, <4>1, <4>3 DEF Tame
    <3>2. CASE Sort(w)
      <4>1. /\ unsorted'[q] = IF job[w].row = q THEN unsorted[q] \ {job[w].piece} ELSE unsorted[q]
            /\ wpc' = [wpc EXCEPT ![w] = "count"]
        BY <3>2 DEF Sort, Shape
      <4>2. \A p \in unsorted'[q] : HasJob(q, p) => HasJob(q, p)'
        BY <2>2, <4>1 DEF HasJob, Shape
      <4>. QED BY <1>0, <2>1, <2>2, <4>1, <4>2 DEF Tame
    <3>. QED BY <1>1, <3>1, <3>2
  <2>. QED BY <2>3, TameKeeps DEF SortInv
<1>2. CASE Take(w)
  <2>1. Head(pending) \in Job /\ \A q \in Rows : Outstanding(q)' = Outstanding(q)
    BY <1>2, OutstandingTake
  <2>2. /\ UNCHANGED <<pc, left, count, unsorted>> /\ wpc[w] = "awake"
        /\ wpc' = [wpc EXCEPT ![w] = "sort"] /\ job' = [job EXCEPT ![w] = Head(pending)]
    BY <1>2 DEF Take, rowvars
  <2>3. /\ DOMAIN pending = 1..Len(pending) /\ Len(pending) \in Nat \ {0}
        /\ DOMAIN pending' = 1..Len(pending) - 1
        /\ \A i \in 1..Len(pending) - 1 : pending'[i] = pending[i + 1]
        /\ Head(pending) = pending[1]
    BY <1>2, HeadTailProperties, EmptySeq DEF Take, Shape
  <2>4. ASSUME NEW q, NEW p, HasJob(q, p) PROVE HasJob(q, p)'
    <3>1. ASSUME NEW i \in DOMAIN pending, pending[i].row = q, pending[i].piece = p PROVE HasJob(q, p)'
      <4>1. CASE i = 1
        <5>1. wpc'[w] = "sort" /\ job'[w] = pending[1]
          BY <2>2, <2>3 DEF Shape
        <5>. QED BY <3>1, <4>1, <5>1 DEF HasJob
      <4>2. CASE i # 1
        <5>1. i - 1 \in DOMAIN pending' /\ pending'[i - 1] = pending[i]
          BY <2>3, <4>2
        <5>. QED BY <3>1, <5>1 DEF HasJob
      <4>. QED BY <4>1, <4>2
    <3>2. ASSUME NEW v \in Workers, wpc[v] \in {"sort", "threw"}, job[v].row = q, job[v].piece = p
          PROVE HasJob(q, p)'
      <4>1. wpc'[v] = wpc[v] /\ job'[v] = job[v]
        BY <2>2, <3>2 DEF Shape
      <4>. QED BY <3>2, <4>1 DEF HasJob
    <3>. QED BY <2>4, <3>1, <3>2 DEF HasJob
  <2>5. \A q \in Rows : Tame(q)
    BY <1>0, <2>1, <2>2, <2>4 DEF Tame
  <2>. QED BY <2>5, TameKeeps DEF SortInv
<1>3. CASE Clear(w)
  <2>1. UNCHANGED <<pc, left, count, unsorted, wpc, job>>
    BY <1>3 DEF Clear, rowvars
  <2>2. ASSUME NEW q \in Rows PROVE Tame(q)
    <3>1. /\ Outstanding(q)' = Outstanding(q) - Cardinality(Waiting(q))
          /\ Outstanding(q)' \in Nat /\ Cardinality(Waiting(q)) \in Nat
          /\ Waiting(q) # {} => Cardinality(Waiting(q)) > 0
      BY <1>3, OutstandingClear, JobsFinite
    <3>2. ASSUME NEW p, HasJob(q, p) PROVE HasJob(q, p)' \/ Waiting(q) # {}
      BY <2>1, <3>2 DEF HasJob, Waiting
    <3>3. pc'[q] # "threw" /\ Waiting(q) # {} => count'[q] > Outstanding(q)'
      BY <1>0, <2>1, <3>1
    <3>. QED BY <1>0, <2>1, <3>1, <3>2, <3>3 DEF Tame
  <2>. QED BY <2>2, TameKeeps DEF SortInv
<1>4. CASE CountDown(w) \/ Report(w)
  <2>1. /\ job[w].row \in Rows
        /\ \A q \in Rows :
            /\ Outstanding(q)' = Outstanding(q) - (IF job[w].row = q THEN 1 ELSE 0)
            /\ pc'[q] \in Sorting <=> pc[q] \in Sorting
            /\ pc'[q] = "threw" <=> pc[q] = "threw"
            /\ pc'[q] # pc[q] => pc[q] = "sleep" /\ pc'[q] = "wait"
    BY <1>4, OutstandingDone
  <2>2. /\ UNCHANGED <<left, unsorted, pending>> /\ wpc[w] \in {"count", "threw"}
        /\ \A v \in Workers \ {w} : wpc'[v] = wpc[v] /\ job'[v] = job[v]
    BY <1>4 DEF CountDown, Lower, Report, rowvars, Shape
  <2>3. ASSUME NEW q \in Rows PROVE Tame(q)
    <3>1. CASE CountDown(w)
      <4>1. pc[q] # "threw" => count'[q] = count[q] - (IF job[w].row = q THEN 1 ELSE 0)
        BY <1>0, <2>1, <3>1 DEF CountDown, Lower, Shape
      <4>2. \A p : HasJob(q, p) => HasJob(q, p)'
        BY <2>2, <3>1 DEF CountDown, Lower, HasJob
      <4>. QED BY <1>0, <2>1, <2>2, <4>1, <4>2 DEF Tame
    <3>2. CASE Report(w)
      <4>1. UNCHANGED count
        BY <3>2 DEF Report
      <4>2. CASE job[w].row = q
        <5>1. pc'[q] # "threw" => count'[q] > Outstanding(q)'
          BY <1>0, <2>1, <4>1, <4>2
        <5>. QED BY <1>0, <2>1, <2>2, <5>1 DEF Tame
      <4>3. CASE job[w].row # q
        <5>1. \A p : HasJob(q, p) => HasJob(q, p)'
          BY <2>2, <4>3 DEF HasJob
        <5>. QED BY <1>0, <2>1, <2>2, <4>1, <4>3, <5>1 DEF Tame
      <4>. QED BY <4>2, <4>3
    <3>. QED BY <1>4, <3>1, <3>2
  <2>. QED BY <2>3, TameKeeps DEF SortInv
<1>. QED BY <1>1, <1>2, <1>3, <1>4 DEF work

(* Every step keeps the pieces accounted for. *)
LEMMA SortNext == CacheInv /\ Shape /\ HaveJobs /\ LiveInv /\ SortInv /\ [Next]_vars => SortInv'
<1>. SUFFICES ASSUME CacheInv, Shape, HaveJobs, LiveInv, SortInv, [Next]_vars PROVE SortInv'
  OBVIOUS
<1>1. CASE ClearCache \/ UNCHANGED vars
  <2>1. UNCHANGED <<pc, left, unsorted, count, pending, wpc, job>>
    BY <1>1 DEF ClearCache, vars, rowvars, poolvars
  <2>2. \A q \in Rows : Outstanding(q)' = Outstanding(q) /\ \A p : HasJob(q, p)' <=> HasJob(q, p)
    BY <2>1, HasJobStays DEF Outstanding, Waiting, Sorters
  <2>3. \A q \in Rows : Tame(q)
    BY <2>1, <2>2 DEF Tame
  <2>. QED BY <2>3, TameKeeps DEF SortInv
<1>. QED BY <1>1, SortRow, SortWork DEF Next

(* make_res publishes a trie only when each piece of it has been sorted: a   *)
(* job that throws, is dropped or is cancelled leaves its row waiting.       *)
THEOREM PublishedSorted == Spec => []SortedBeforePublished
<1>1. SortInv => SortedBeforePublished
  BY DEF SortInv, Accounted, SortedBeforePublished
<1>. QED BY <1>1, CacheInit, CacheNext, ShapeInit, ShapeNext, LiveInit, LiveNext, SortInit, SortNext, PTL
     DEF Spec
=============================================================================
