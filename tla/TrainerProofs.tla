---------------------------- MODULE TrainerProofs ----------------------------
(***************************************************************************)
(* Proofs about Trainer: that pmap_master() puts the replies in order, that *)
(* the held-out sentences are decoded with the average of all updates and   *)
(* that training goes on from where it stopped, for any number of slaves,   *)
(* sentences and epochs.                                                    *)
(*                                                                          *)
(* A slave may be a part of an epoch before or behind the master.  Place    *)
(* lists where it can be and what is in its queue then; everything else     *)
(* follows from it.                                                         *)
(***************************************************************************)
EXTENDS Trainer, FiniteSetTheorems, SequenceTheorems, TLAPS

(* The variables that TypeOK leaves out: those of pmap_master() and the       *)
(* messages.                                                                 *)
Pmap ==
    /\ order \in Seq(Nat) /\ \A i \in DOMAIN order : order[i] # Die
    /\ Len(order) = IF phase = "train" THEN Train ELSE Heldout
    /\ next \in 1..Len(order) + 1 /\ flushed < next
    /\ \A s \in DOMAIN busy : busy[s] \in flushed + 1..next - 1
    /\ IsFiniteSet(output)

Messages ==
    /\ tosend \in [Slaves -> Seq(Nat)] /\ replies \in [Slaves -> Seq(Result)]
    /\ updates \in [Slaves -> SUBSET [from : Slaves, n : Nat]]
    /\ gathered \in [Slaves -> {nothing} \cup Int \X Nat]
    /\ broadcast \in [Slaves -> {nothing} \cup Int \X Nat]
    /\ trained \in [Slaves -> [sum : Int, last : Int]]
    /\ failures \in Nat

(* What a slave has of the present call of pmap_master(). *)
Share(s) == IF s \in idle THEN "idle" ELSE IF s \in DOMAIN busy THEN "busy" ELSE "told"

(* What pmap_master() has sent to a slave that has read nothing yet. *)
Due(k, x) == IF k = "idle" THEN nothing ELSE IF k = "busy" THEN <<x>> ELSE <<Die>>

(* The master is in part ph of epoch ep, and the slave has the share k, with *)
(* the sentence x if it is busy.  The slave is at p with the job j, has the  *)
(* messages q to read and has sent the replies r.                            *)
With(ph, ep, k, x, p, j, q, r) ==
    /\ j.phase = ph /\ j.epoch = ep
    /\ \/ p = "recv" /\ q = Due(k, x) /\ r = nothing
       \/ k = "busy" /\ p \in {"work", "raised"} /\ j.sent = x /\ q = nothing /\ r = nothing
       \/ k = "busy" /\ p = "recv" /\ q = nothing /\ Len(r) = 1
       \/ /\ k = "told" /\ q = nothing /\ r = nothing
          /\ p \in IF ph = "train" THEN {"gather", "bcast"} ELSE {"end", "out"}

Behind(ph, ep, k, x, p, j, q, r) ==
    /\ ph = "heldout" /\ j.phase = "train" /\ j.epoch = ep
    /\ p = "bcast" /\ q = Due(k, x) /\ r = nothing

Late(ph, ep, k, x, p, j, q, r) ==
    /\ ph = "train" /\ j.epoch = ep - 1 /\ r = nothing
    /\ \/ j.phase = "train" /\ p = "bcast" /\ q = <<Die>> \o Due(k, x)
       \/ j.phase = "heldout" /\ p = "recv" /\ q = <<Die>> \o Due(k, x)
       \/ j.phase = "heldout" /\ p \in {"end", "out"} /\ q = Due(k, x)

Ahead(ph, ep, k, x, p, j, q, r) ==
    /\ ph = "heldout" /\ j.phase = "train" /\ j.epoch = ep + 1
    /\ k = "told" /\ p = "recv" /\ q = nothing /\ r = nothing

Place(ph, ep, k, x, p, j, q, r) ==
    \/ With(ph, ep, k, x, p, j, q, r)
    \/ Behind(ph, ep, k, x, p, j, q, r)
    \/ Late(ph, ep, k, x, p, j, q, r)
    \/ Ahead(ph, ep, k, x, p, j, q, r)

PlaceOf(s) ==
    Place(phase, epoch, Share(s), order[busy[s]], pc[s], job[s], tosend[s], replies[s])

(* The master leaves pmap_master() when every slave has been told, and a     *)
(* slave is told when no input is left.                                      *)
Turns ==
    /\ at # "pmap" => \A s \in Slaves : Share(s) = "told"
    /\ at = "gather" => phase = "train"
    /\ at = "out" => phase = "heldout"
    /\ \A s \in Slaves : Share(s) = "told" => next = Len(order) + 1

(* Every input that has been sent and not yielded is in the heap or with one *)
(* slave.                                                                    *)
InHeap(i) == \E e \in output : e[1] = i

Shared ==
    /\ \A e \in output : e[1] \in flushed + 2..next - 1
    /\ \A s \in DOMAIN busy : ~InHeap(busy[s])
    /\ \A s, t \in DOMAIN busy : busy[s] = busy[t] => s = t
    /\ \A i \in flushed + 1..next - 1 : InHeap(i) \/ \E s \in DOMAIN busy : busy[s] = i

(* A result of input i in the present call of pmap_master(). *)
Good(r, x) ==
    /\ r.sent = x /\ r.phase = phase /\ r.epoch = epoch
    /\ phase = "heldout" => r.weights = outweights

Results ==
    /\ \A e \in output : Good(e[2], order[e[1]])
    /\ Len(yielded) = flushed
    /\ \A i \in DOMAIN yielded : Good(yielded[i], order[i])

Answer(s) == replies[s] # nothing => Good(replies[s][1], order[busy[s]])

(* The weights of a slave and what it has of the average. *)
Weights(ph, ep, p, j, w, v, h, n, d, g, b, o) ==
    /\ n * d.last - h = d.sum
    /\ j.phase = "train" => w = <<d.last, 1>>
    /\ j.phase = "heldout" /\ p # "out" => v = <<d.last, 1>>
    /\ j.phase = "heldout" /\ ph = "heldout" /\ p \in {"recv", "work"} => w = o
    /\ g = IF ph = "train" /\ j.phase = "train" /\ j.epoch = ep /\ p = "bcast"
           THEN <<d.sum, n>> ELSE nothing
    /\ b = IF j.phase = "train" /\ p = "bcast" /\ (ph = "heldout" \/ j.epoch # ep)
           THEN o ELSE nothing

WeightsOf(s) ==
    Weights(phase, epoch, pc[s], job[s], weights[s], saveweights[s], sumweights_helper[s],
            nweights[s], trained[s], gathered[s], broadcast[s], outweights)

Averaged ==
    phase = "heldout" =>
        outweights = <<SumOver([s \in Slaves |-> trained[s].sum]), SumOver(nweights)>>

(* A slave learns from no more sentences than have been sent. *)
Sent == Train * (epoch - 1) + IF phase = "train" THEN next - 1 ELSE Train

Counts ==
    /\ \A s \in Slaves :
        /\ nweights[s] <= Sent
        /\ phase = "train" /\ s \in DOMAIN busy /\ replies[s] = nothing => nweights[s] < Sent
    /\ \A s \in Slaves : \A u \in updates[s] : u.n < nweights[u.from]

(* The master's part of the invariant and the slaves'. *)
MasterInv == Pmap /\ Turns /\ Shared /\ Results

SlaveInv == \A s \in Slaves : PlaceOf(s) /\ Answer(s) /\ WeightsOf(s)

Inv == TypeOK /\ Messages /\ MasterInv /\ SlaveInv /\ Averaged /\ Counts
-----------------------------------------------------------------------------
(* SumOver is defined by a recursive function on the subsets of Slaves: one   *)
(* step of it, and the functions that take the step on the subsets with at    *)
(* most n members.                                                            *)
OneOf(T) == CHOOSE x \in T : TRUE
Small(n) == {T \in SUBSET Slaves : Cardinality(T) <= n}
Sums(f, D, n) ==
    {g \in [Small(n) -> D] :
        \A T \in Small(n) : g[T] = IF T = {} THEN 0 ELSE f[OneOf(T)] + g[T \ {OneOf(T)}]}

LEMMA OneOfFacts ==
    ASSUME IsFiniteSet(Slaves), NEW T \in SUBSET Slaves, T # {}
    PROVE  /\ OneOf(T) \in T /\ IsFiniteSet(T) /\ Cardinality(T) \in Nat
           /\ T \ {OneOf(T)} \in SUBSET Slaves
           /\ Cardinality(T \ {OneOf(T)}) = Cardinality(T) - 1
<1>1. OneOf(T) \in T
  BY DEF OneOf
<1>2. IsFiniteSet(T) /\ Cardinality(T) \in Nat
  BY FS_Subset, FS_CardinalityType
<1> QED BY <1>1, <1>2, FS_RemoveElement

(* A least natural number without a property. *)
LEMMA LeastOf ==
    ASSUME NEW S \in SUBSET Nat, S # {}
    PROVE  \E n \in S : \A m \in S : n <= m
<1>1. PICK n \in S : \A m \in S : ~(<<m, n>> \in OpToRel(<, Nat))
  BY NatLessThanWellFounded, WFMin
<1>2. \A m \in S : ~(m < n)
  BY <1>1 DEF OpToRel
<1> QED BY <1>2

LEMMA SumsExist ==
    ASSUME IsFiniteSet(Slaves), NEW D \in SUBSET Int, 0 \in D, \A a, b \in D : a + b \in D,
           NEW f \in [Slaves -> D], NEW m \in Nat
    PROVE  Sums(f, D, m) # {}
<1> DEFINE Bad == {n \in Nat : Sums(f, D, n) = {}}
<1>1. SUFFICES ASSUME Bad # {} PROVE FALSE
  OBVIOUS
<1>2. PICK n \in Bad : \A k \in Bad : n <= k
  BY <1>1, LeastOf
<1>3. \A T \in SUBSET Slaves : Cardinality(T) \in Nat /\ (Cardinality(T) = 0 <=> T = {})
  BY FS_Subset, FS_CardinalityType, FS_EmptySet
<1>4. n # 0
  <2>1. SUFFICES ASSUME n = 0 PROVE FALSE
    OBVIOUS
  <2>2. \A T \in Small(0) : T = {}
    BY <1>3 DEF Small
  <2>3. [T \in Small(0) |-> 0] \in Sums(f, D, 0)
    BY <2>2 DEF Sums
  <2> QED BY <2>1, <2>3
<1>5. PICK g : g \in Sums(f, D, n - 1)
  BY <1>2, <1>4
<1> DEFINE h == [T \in Small(n) |-> IF Cardinality(T) < n THEN g[T] ELSE f[OneOf(T)] + g[T \ {OneOf(T)}]]
<1>6. /\ g \in [Small(n - 1) -> D]
      /\ \A T \in Small(n - 1) : g[T] = IF T = {} THEN 0 ELSE f[OneOf(T)] + g[T \ {OneOf(T)}]
  BY <1>5 DEF Sums
<1>7. ASSUME NEW T \in Small(n)
      PROVE  h[T] \in D /\ h[T] = IF T = {} THEN 0 ELSE f[OneOf(T)] + h[T \ {OneOf(T)}]
  <2>1. T \in SUBSET Slaves /\ Cardinality(T) \in Nat /\ Cardinality(T) <= n
    BY <1>3 DEF Small
  <2>2. CASE T = {}
    <3>1. Cardinality(T) = 0 /\ T \in Small(n - 1)
      BY <1>3, <1>4, <2>1, <2>2 DEF Small
    <3>2. h[T] = g[T]
      BY <1>4, <3>1
    <3>3. g[T] = 0
      BY <1>6, <2>2, <3>1
    <3> QED BY <2>2, <3>2, <3>3
  <2>3. CASE T # {}
    <3> DEFINE U == T \ {OneOf(T)}
    <3>1. /\ OneOf(T) \in Slaves /\ U \in SUBSET Slaves
          /\ Cardinality(U) = Cardinality(T) - 1
      BY <2>1, <2>3, OneOfFacts
    <3>2. U \in Small(n) /\ U \in Small(n - 1) /\ Cardinality(U) < n
      BY <1>3, <2>1, <3>1 DEF Small
    <3>3. h[U] = g[U] /\ g[U] \in D /\ f[OneOf(T)] \in D
      BY <1>6, <3>1, <3>2
    <3>4. CASE Cardinality(T) < n
      <4>1. T \in Small(n - 1)
        BY <2>1, <3>4 DEF Small
      <4> QED BY <1>6, <2>3, <3>3, <3>4, <4>1
    <3>5. CASE ~(Cardinality(T) < n)
      BY <2>3, <3>3, <3>5
    <3> QED BY <3>4, <3>5
  <2> QED BY <2>2, <2>3
<1> HIDE DEF h
<1>8. h \in Sums(f, D, n)
  <2>1. DOMAIN h = Small(n) /\ h = [T \in Small(n) |-> h[T]]
    BY DEF h
  <2> QED BY <1>7, <2>1 DEF Sums
<1> QED BY <1>2, <1>8

LEMMA SumType ==
    ASSUME IsFiniteSet(Slaves), NEW D \in SUBSET Int, 0 \in D, \A a, b \in D : a + b \in D,
           NEW f \in [Slaves -> D]
    PROVE  SumOver(f) \in D
<1> DEFINE Sum(g) ==
      [T \in SUBSET Slaves |-> IF T = {} THEN 0 ELSE f[OneOf(T)] + g[T \ {OneOf(T)}]]
<1> DEFINE h == CHOOSE g : g = Sum(g)
<1>1. SumOver(f) = h[Slaves]
  BY DEF SumOver, MapThenSumSet, MapThenFoldSet, OneOf
<1>2. \A T \in SUBSET Slaves : Cardinality(T) \in Nat /\ Cardinality(T) <= Cardinality(Slaves)
  BY FS_Subset, FS_CardinalityType
<1>3. Small(Cardinality(Slaves)) = SUBSET Slaves /\ Cardinality(Slaves) \in Nat
  BY <1>2 DEF Small
<1>4. PICK g : g \in Sums(f, D, Cardinality(Slaves))
  BY <1>3, SumsExist
<1>5. g = Sum(g)
  BY <1>3, <1>4 DEF Sums
<1>6. h = Sum(h)
  BY <1>5
<1> HIDE DEF h
<1> DEFINE Bad == {n \in Nat : \E T \in SUBSET Slaves : Cardinality(T) = n /\ h[T] \notin D}
<1>7. ASSUME Bad # {} PROVE FALSE
  <2>1. PICK n \in Bad : \A k \in Bad : n <= k
    BY <1>7, LeastOf
  <2>2. PICK T \in SUBSET Slaves : Cardinality(T) = n /\ h[T] \notin D
    BY <2>1
  <2>3. h[T] = IF T = {} THEN 0 ELSE f[OneOf(T)] + h[T \ {OneOf(T)}]
    BY <1>6
  <2>4. T # {}
    BY <2>2, <2>3
  <2>5. /\ OneOf(T) \in Slaves /\ T \ {OneOf(T)} \in SUBSET Slaves
        /\ Cardinality(T \ {OneOf(T)}) = n - 1 /\ Cardinality(T \ {OneOf(T)}) \in Nat
    BY <1>2, <2>2, <2>4, OneOfFacts
  <2>6. h[T \ {OneOf(T)}] \in D
    BY <2>1, <2>5
  <2>7. f[OneOf(T)] + h[T \ {OneOf(T)}] \in D
    <3>1. f[OneOf(T)] \in D
      BY <2>5
    <3> QED BY <2>6, <3>1
  <2> QED BY <2>2, <2>3, <2>4, <2>7
<1>8. h[Slaves] \in D
  BY <1>3, <1>7
<1> QED BY <1>1, <1>8
-----------------------------------------------------------------------------
(* The heap of pmap_master(). *)

LEMMA GreatestOf ==
    ASSUME NEW a \in Nat, NEW b \in Nat, NEW S \in SUBSET (a..b), S # {}
    PROVE  Max(S) \in S /\ \A n \in S : n <= Max(S)
<1> DEFINE below == {k \in Nat : b - k \in S}
<1>1. below # {}
  <2>1. PICK n \in S : TRUE
    OBVIOUS
  <2>2. b - n \in Nat /\ b - (b - n) = n
    OBVIOUS
  <2> QED BY <2>1, <2>2
<1>2. PICK k \in below : \A j \in below : k <= j
  BY <1>1, LeastOf
<1>3. \A n \in S : b - k >= n
  <2>1. SUFFICES ASSUME NEW n \in S PROVE b - k >= n
    OBVIOUS
  <2>2. b - n \in Nat /\ b - (b - n) = n
    BY <2>1
  <2>3. b - n \in below
    BY <2>2
  <2>4. k <= b - n /\ k \in Nat /\ n \in Int
    BY <1>2, <2>3
  <2> QED BY <2>4
<1>4. b - k \in S
  BY <1>2
<1>5. \A n \in S : n \in Int
  OBVIOUS
<1>6. Max(S) \in S /\ \A n \in S : Max(S) >= n
  BY <1>3, <1>4 DEF Max
<1> QED BY <1>5, <1>6

LEMMA HeapLarge ==
    ASSUME NEW heap, IsFiniteSet(heap), NEW a \in Nat, NEW n \in Nat,
           \A i \in a + 1..a + n : \E e \in heap : e[1] = i
    PROVE  n <= Cardinality(heap)
<1> DEFINE entry == [i \in a + 1..a + n |-> CHOOSE e \in heap : e[1] = i]
<1>1. \A i \in a + 1..a + n : entry[i] \in heap /\ entry[i][1] = i
  OBVIOUS
<1>2. entry \in Injection(a + 1..a + n, heap)
  <2>1. entry \in [a + 1..a + n -> heap]
    BY <1>1
  <2>2. \A i, j \in a + 1..a + n : entry[i] = entry[j] => i = j
    BY <1>1
  <2> HIDE DEF entry
  <2> QED BY <2>1, <2>2 DEF Injection, IsInjective
<1>3. IsFiniteSet(a + 1..a + n) /\ Cardinality(a + 1..a + n) = n
  BY FS_Interval
<1> QED BY <1>2, <1>3, FS_Injection

LEMMA FlushFacts ==
    ASSUME NEW heap, IsFiniteSet(heap), flushed \in Nat, Flush(heap)
    PROVE  /\ flushed' \in Nat /\ flushed <= flushed'
           /\ \A i \in flushed + 1..flushed' : \E e \in heap : e[1] = i
           /\ ~\E e \in heap : e[1] = flushed' + 1
           /\ output' = {e \in heap : e[1] > flushed'}
           /\ yielded' = yielded \o [k \in 1..flushed' - flushed |-> Entry(heap, flushed + k)[2]]
<1> DEFINE Ready(n) == \A i \in flushed + 1..n : \E e \in heap : e[1] = i
           S == {n \in flushed..flushed + Cardinality(heap) : Ready(n)}
<1>1. Cardinality(heap) \in Nat
  BY FS_CardinalityType
<1>2. flushed \in S
  BY <1>1
<1>3. PICK last : last = Max(S)
  OBVIOUS
<1>4. flushed' = last
  BY <1>3 DEF Flush
<1>5. last \in S /\ \A n \in S : n <= last
  <2>1. flushed + Cardinality(heap) \in Nat /\ S \in SUBSET (flushed..flushed + Cardinality(heap))
    BY <1>1
  <2> HIDE DEF S
  <2> QED BY <1>2, <1>3, <2>1, GreatestOf
<1>6. /\ last \in Nat /\ flushed <= last /\ last <= flushed + Cardinality(heap)
      /\ \A i \in flushed + 1..last : \E e \in heap : e[1] = i
  BY <1>1, <1>5
<1>8. ASSUME \E e \in heap : e[1] = last + 1 PROVE FALSE
  <2>1. Ready(last + 1)
    <3>1. \A i \in flushed + 1..last + 1 : i \in flushed + 1..last \/ i = last + 1
      BY <1>6
    <3> QED BY <1>6, <1>8, <3>1
  <2>2. last + 1 - flushed \in Nat /\ flushed + (last + 1 - flushed) = last + 1
    BY <1>6
  <2>3. last + 1 - flushed <= Cardinality(heap)
    <3> DEFINE n == last + 1 - flushed
    <3>1. n \in Nat /\ \A i \in flushed + 1..flushed + n : \E e \in heap : e[1] = i
      BY <2>1, <2>2
    <3> HIDE DEF n
    <3>2. n <= Cardinality(heap)
      BY <3>1, HeapLarge
    <3> QED BY <3>2 DEF n
  <2>4. last + 1 \in S
    BY <1>1, <1>6, <2>1, <2>3
  <2> QED BY <1>5, <1>6, <2>4
<1>7. /\ output' = {e \in heap : e[1] > flushed'}
      /\ yielded' = yielded \o [k \in 1..flushed' - flushed |-> Entry(heap, flushed + k)[2]]
  BY DEF Flush
<1> QED BY <1>4, <1>6, <1>7, <1>8
-----------------------------------------------------------------------------
(* Queues of one or two messages. *)

LEMMA OneElement ==
    ASSUME NEW a
    PROVE  /\ Append(<<>>, a) = <<a>> /\ Head(<<a>>) = a /\ Tail(<<a>>) = <<>>
           /\ <<a>> # <<>> /\ Len(<<a>>) = 1 /\ <<a>> \o <<>> = <<a>>
<1>1. /\ <<>> \in Seq({a}) /\ <<a>> \in Seq({a}) /\ Append(<<>>, a) = <<a>>
      /\ Head(<<a>>) = a /\ <<a>> # <<>> /\ Len(<<a>>) = 1
  OBVIOUS
<1>2. Tail(<<a>>) = <<>>
  BY <1>1, HeadTailAppend
<1>3. <<a>> \o <<>> = <<a>>
  BY <1>1, ConcatEmptySeq
<1> QED BY <1>1, <1>2, <1>3

LEMMA TwoElements ==
    ASSUME NEW a, NEW b
    PROVE  /\ Append(<<a>>, b) = <<a, b>> /\ <<a>> \o <<b>> = <<a, b>>
           /\ Head(<<a, b>>) = a /\ Tail(<<a, b>>) = <<b>> /\ <<a, b>> # <<>>
<1>1. /\ <<a>> \in Seq({a, b}) /\ <<a, b>> \in Seq({a, b}) /\ Append(<<a>>, b) \in Seq({a, b})
      /\ <<b>> \in Seq({a, b}) /\ <<a>> \o <<b>> \in Seq({a, b}) /\ Tail(<<a, b>>) \in Seq({a, b})
  OBVIOUS
<1>2. Append(<<a>>, b) = <<a, b>>
  <2>1. Len(Append(<<a>>, b)) = Len(<<a, b>>)
    OBVIOUS
  <2>2. \A i \in 1..Len(<<a, b>>) : Append(<<a>>, b)[i] = <<a, b>>[i]
    OBVIOUS
  <2> QED BY <1>1, <2>1, <2>2, SeqEqual
<1>3. <<a>> \o <<b>> = <<a, b>>
  <2>1. Len(<<a>> \o <<b>>) = Len(<<a, b>>)
    OBVIOUS
  <2>2. \A i \in 1..Len(<<a, b>>) : (<<a>> \o <<b>>)[i] = <<a, b>>[i]
    OBVIOUS
  <2> QED BY <1>1, <2>1, <2>2, SeqEqual
<1>4. Tail(<<a, b>>) = <<b>>
  <2>1. Len(Tail(<<a, b>>)) = Len(<<b>>)
    OBVIOUS
  <2>2. \A i \in 1..Len(<<b>>) : Tail(<<a, b>>)[i] = <<b>>[i]
    OBVIOUS
  <2> QED BY <1>1, <2>1, <2>2, SeqEqual
<1> QED BY <1>2, <1>3, <1>4

LEMMA DueFacts ==
    ASSUME NEW x, NEW y
    PROVE  /\ Append(Due("idle", y), x) = Due("busy", x)
           /\ Append(Due("idle", y), Die) = Due("told", x)
           /\ Append(<<Die>> \o Due("idle", y), x) = <<Die>> \o Due("busy", x)
           /\ Append(<<Die>> \o Due("idle", y), Die) = <<Die>> \o Due("told", x)
<1>1. Due("idle", y) = <<>> /\ Due("busy", x) = <<x>> /\ Due("told", x) = <<Die>>
  BY DEF Due, nothing
<1>2. /\ <<Die>> \o <<>> = <<Die>> /\ Append(<<>>, x) = <<x>> /\ Append(<<>>, Die) = <<Die>>
  BY OneElement
<1>3. /\ <<Die>> \o <<x>> = <<Die, x>> /\ <<Die>> \o <<Die>> = <<Die, Die>>
      /\ Append(<<Die>>, x) = <<Die, x>> /\ Append(<<Die>>, Die) = <<Die, Die>>
  BY TwoElements
<1> QED BY <1>1, <1>2, <1>3

LEMMA LateFacts ==
    ASSUME NEW k, NEW x
    PROVE  /\ Head(<<Die>> \o Due(k, x)) = Die /\ Tail(<<Die>> \o Due(k, x)) = Due(k, x)
           /\ <<Die>> \o Due(k, x) # nothing
<1>1. Due(k, x) = <<>> \/ \E y : Due(k, x) = <<y>>
  BY DEF Due, nothing
<1>2. CASE Due(k, x) = <<>>
  BY <1>2, OneElement DEF nothing
<1>3. ASSUME NEW y, Due(k, x) = <<y>>
      PROVE  /\ Head(<<Die>> \o Due(k, x)) = Die /\ Tail(<<Die>> \o Due(k, x)) = Due(k, x)
             /\ <<Die>> \o Due(k, x) # nothing
  <2>1. <<Die>> \o Due(k, x) = <<Die, y>>
    BY <1>3, TwoElements
  <2>2. Head(<<Die, y>>) = Die /\ Tail(<<Die, y>>) = <<y>> /\ <<Die, y>> # <<>>
    BY TwoElements
  <2> QED BY <1>3, <2>1, <2>2 DEF nothing
<1> QED BY <1>1, <1>2, <1>3
-----------------------------------------------------------------------------
(* How a slave goes from place to place. *)

LEMMA PlaceSend ==
    ASSUME NEW ph, NEW ep, NEW y, NEW x, NEW p, NEW j, NEW q, NEW r,
           Place(ph, ep, "idle", y, p, j, q, r)
    PROVE  /\ Place(ph, ep, "busy", x, p, j, Append(q, x), r)
           /\ Place(ph, ep, "told", x, p, j, Append(q, Die), r)
<1>1. CASE With(ph, ep, "idle", y, p, j, q, r)
  BY <1>1, DueFacts DEF Place, With
<1>2. CASE Behind(ph, ep, "idle", y, p, j, q, r)
  BY <1>2, DueFacts DEF Place, Behind
<1>3. CASE Late(ph, ep, "idle", y, p, j, q, r)
  BY <1>3, DueFacts DEF Place, Late
<1>4. ~Ahead(ph, ep, "idle", y, p, j, q, r)
  BY DEF Ahead
<1> QED BY <1>1, <1>2, <1>3, <1>4 DEF Place

LEMMA PlaceRecv ==
    ASSUME NEW ph, NEW ep, NEW k, NEW x, NEW y, NEW p, NEW j, NEW q, NEW r,
           Place(ph, ep, k, x, p, j, q, r), r # nothing
    PROVE  /\ k = "busy" /\ Len(r) = 1
           /\ Place(ph, ep, "idle", y, p, j, q, nothing)
<1>1. With(ph, ep, k, x, p, j, q, r)
  BY DEF Place, Behind, Late, Ahead
<1>2. k = "busy" /\ p = "recv" /\ q = nothing /\ Len(r) = 1 /\ j.phase = ph /\ j.epoch = ep
  BY <1>1 DEF With
<1>3. With(ph, ep, "idle", y, p, j, q, nothing)
  BY <1>2 DEF With, Due
<1> QED BY <1>2, <1>3 DEF Place

LEMMA PlaceAverage ==
    ASSUME NEW ep \in Nat, NEW x, NEW y, NEW j, NEW q, NEW r, j.phase = "train", j.epoch = ep,
           Place("train", ep, "told", x, "bcast", j, q, r)
    PROVE  Place("heldout", ep, "idle", y, "bcast", j, q, r)
<1>1. ep # ep - 1
  OBVIOUS
<1>2. With("train", ep, "told", x, "bcast", j, q, r)
  BY <1>1 DEF Place, Behind, Late, Ahead
<1>3. q = nothing /\ r = nothing
  BY <1>2 DEF With
<1> QED BY <1>3 DEF Place, Behind, Due

LEMMA PlaceNextEpoch ==
    ASSUME NEW ep \in Nat, NEW x, NEW y, NEW p, NEW j, NEW q, NEW r,
           Place("heldout", ep, "told", x, p, j, q, r)
    PROVE  Place("train", ep + 1, "idle", y, p, j, q, r)
<1>1. (ep + 1) - 1 = ep
  OBVIOUS
<1>2. Due("told", x) = <<Die>> \o Due("idle", y) /\ Due("idle", y) = nothing
  BY OneElement DEF Due, nothing
<1>3. CASE With("heldout", ep, "told", x, p, j, q, r)
  BY <1>1, <1>2, <1>3 DEF Place, With, Late
<1>4. CASE Behind("heldout", ep, "told", x, p, j, q, r)
  BY <1>1, <1>2, <1>4 DEF Place, Behind, Late
<1>5. ~Late("heldout", ep, "told", x, p, j, q, r)
  BY DEF Late
<1>6. CASE Ahead("heldout", ep, "told", x, p, j, q, r)
  BY <1>2, <1>6 DEF Place, Ahead, With
<1> QED BY <1>3, <1>4, <1>5, <1>6 DEF Place

LEMMA PlaceReceive ==
    ASSUME NEW ph, NEW ep, NEW k, NEW x, NEW j, NEW i, NEW q, NEW r,
           Place(ph, ep, k, x, "recv", j, q, r), q # nothing,
           k \in {"idle", "busy", "told"}, k = "busy" => x # Die,
           ph \in Phases, i.sent = Head(q), i.phase = j.phase, i.epoch = j.epoch
    PROVE  Place(ph, ep, k, x, IF Head(q) # Die THEN "work"
                               ELSE IF j.phase = "train" THEN "gather" ELSE "end", i, Tail(q), r)
<1>1. CASE With(ph, ep, k, x, "recv", j, q, r)
  <2>1. q = Due(k, x) /\ r = nothing /\ j.phase = ph /\ j.epoch = ep
    BY <1>1 DEF With
  <2>2. CASE k = "busy"
    <3>1. q = <<x>>
      BY <2>1, <2>2 DEF Due
    <3>2. Head(q) = x /\ Tail(q) = nothing
      BY <3>1, OneElement DEF nothing
    <3> QED BY <2>1, <2>2, <3>2 DEF Place, With
  <2>3. CASE k = "told"
    <3>1. q = <<Die>>
      BY <2>1, <2>3 DEF Due
    <3>2. Head(q) = Die /\ Tail(q) = nothing
      BY <3>1, OneElement DEF nothing
    <3> QED BY <2>1, <2>3, <3>2 DEF Place, With, Phases
  <2> QED BY <2>1, <2>2, <2>3 DEF Due
<1>2. CASE Late(ph, ep, k, x, "recv", j, q, r)
  <2>1. Head(q) = Die /\ Tail(q) = Due(k, x) /\ j.phase = "heldout"
    BY <1>2, LateFacts DEF Late
  <2> QED BY <1>2, <2>1 DEF Place, Late
<1>3. ~Behind(ph, ep, k, x, "recv", j, q, r) /\ ~Ahead(ph, ep, k, x, "recv", j, q, r)
  BY DEF Behind, Ahead
<1> QED BY <1>1, <1>2, <1>3 DEF Place

LEMMA PlaceWork ==
    ASSUME NEW ph, NEW ep, NEW k, NEW x, NEW j, NEW q, NEW r,
           Place(ph, ep, k, x, "work", j, q, r)
    PROVE  /\ k = "busy" /\ j.phase = ph /\ j.epoch = ep /\ j.sent = x
           /\ q = nothing /\ r = nothing
           /\ Place(ph, ep, k, x, "raised", j, q, r)
<1>1. With(ph, ep, k, x, "work", j, q, r)
  BY DEF Place, Behind, Late, Ahead
<1>2. k = "busy" /\ j.phase = ph /\ j.epoch = ep /\ j.sent = x /\ q = nothing /\ r = nothing
  BY <1>1 DEF With
<1> QED BY <1>2 DEF Place, With

LEMMA PlaceReply ==
    ASSUME NEW ph, NEW ep, NEW k, NEW x, NEW j, NEW q, NEW r, NEW m,
           Place(ph, ep, k, x, "work", j, q, r)
    PROVE  /\ Append(r, m) = <<m>>
           /\ Place(ph, ep, k, x, "recv", j, q, Append(r, m))
<1>1. k = "busy" /\ j.phase = ph /\ j.epoch = ep /\ j.sent = x /\ q = nothing /\ r = nothing
  BY PlaceWork
<1>2. Append(r, m) = <<m>> /\ Len(<<m>>) = 1
  BY <1>1, OneElement DEF nothing
<1> QED BY <1>1, <1>2 DEF Place, With

LEMMA PlaceGather ==
    ASSUME NEW ph, NEW ep, NEW k, NEW x, NEW j, NEW q, NEW r,
           Place(ph, ep, k, x, "gather", j, q, r)
    PROVE  /\ ph = "train" /\ j.phase = "train" /\ j.epoch = ep
           /\ Place(ph, ep, k, x, "bcast", j, q, r)
<1>1. With(ph, ep, k, x, "gather", j, q, r)
  BY DEF Place, Behind, Late, Ahead
<1> QED BY <1>1 DEF Place, With

LEMMA PlaceBcast ==
    ASSUME NEW ph, NEW ep, NEW k, NEW x, NEW j, NEW i, NEW q, NEW r,
           Place(ph, ep, k, x, "bcast", j, q, r), ph = "heldout" \/ j.epoch # ep,
           i.phase = "heldout", i.epoch = j.epoch
    PROVE  /\ j.phase = "train"
           /\ Place(ph, ep, k, x, "recv", i, q, r)
<1>1. CASE Behind(ph, ep, k, x, "bcast", j, q, r)
  BY <1>1 DEF Place, Behind, With
<1>2. CASE Late(ph, ep, k, x, "bcast", j, q, r)
  BY <1>2 DEF Place, Late
<1>3. ~With(ph, ep, k, x, "bcast", j, q, r) /\ ~Ahead(ph, ep, k, x, "bcast", j, q, r)
  BY DEF With, Ahead
<1> QED BY <1>1, <1>2, <1>3 DEF Place

LEMMA PlaceEnd ==
    ASSUME NEW ph \in Phases, NEW ep \in Nat, NEW k, NEW x, NEW j, NEW i, NEW q, NEW r,
           Place(ph, ep, k, x, "end", j, q, r), i.phase = "train", i.epoch = j.epoch + 1
    PROVE  /\ j.phase = "heldout"
           /\ Place(ph, ep, k, x, "out", j, q, r)
           /\ Place(ph, ep, k, x, "recv", i, q, r)
<1>1. CASE With(ph, ep, k, x, "end", j, q, r)
  <2>1. /\ ph # "train" /\ j.phase = ph /\ j.epoch = ep /\ k = "told" /\ q = nothing /\ r = nothing
    BY <1>1 DEF With
  <2>2. ph = "heldout"
    BY <2>1 DEF Phases
  <2> QED BY <2>1, <2>2 DEF Place, With, Ahead
<1>2. CASE Late(ph, ep, k, x, "end", j, q, r)
  <2>1. (ep - 1) + 1 = ep
    OBVIOUS
  <2> QED BY <1>2, <2>1 DEF Place, Late, With
<1>3. ~Behind(ph, ep, k, x, "end", j, q, r) /\ ~Ahead(ph, ep, k, x, "end", j, q, r)
  BY DEF Behind, Ahead
<1> QED BY <1>1, <1>2, <1>3 DEF Place
-----------------------------------------------------------------------------
(* What a step of one slave leaves as it is. *)

MasterType ==
    /\ at \in {"pmap", "gather", "out"} /\ phase \in Phases /\ epoch \in 1..Iterations
    /\ next \in Nat /\ flushed \in Nat /\ output \subseteq Nat \X Result
    /\ idle \cup DOMAIN busy \subseteq Slaves /\ idle \cap DOMAIN busy = {}
    /\ yielded \in Seq(Result) /\ outweights \in Int \X Nat

Job == [sent : Nat, phase : Phases, epoch : 1..Iterations]

SlaveType ==
    /\ pc \in [Slaves -> {"recv", "work", "gather", "bcast", "end", "out", "raised"}]
    /\ job \in [Slaves -> Job]
    /\ weights \in [Slaves -> Int \X Nat] /\ saveweights \in [Slaves -> Int \X Nat]
    /\ sumweights_helper \in [Slaves -> Int] /\ nweights \in [Slaves -> Nat]
    /\ decoder_errors \in [Slaves -> Nat]

FileType == {stopfile, split} \subseteq BOOLEAN

LEMMA TypeIs == TypeOK <=> MasterType /\ SlaveType /\ FileType
BY DEF TypeOK, MasterType, SlaveType, FileType, Job

LEMMA TypeIsNext == TypeOK' <=> MasterType' /\ SlaveType' /\ FileType'
BY TypeIs, PTL

LEMMA ConstantFacts ==
    /\ IsFiniteSet(Slaves) /\ Slaves # {}
    /\ Train \in Nat /\ Heldout \in Nat /\ Iterations \in Nat /\ Iterations >= 1
    /\ InitialWeights \in Int
BY TrainerAssumption

(* The state of one slave and of its messages. *)
Local(s) ==
    <<pc[s], job[s], tosend[s], replies[s], weights[s], saveweights[s], sumweights_helper[s],
      nweights[s], trained[s], gathered[s], broadcast[s]>>

LEMMA MasterFrame ==
    ASSUME Inv, UNCHANGED <<master, pmap>>
    PROVE  MasterType' /\ MasterInv'
<1>1. MasterType'
  BY TypeIs DEF Inv, MasterType, master, pmap
<1>2. Pmap' /\ Shared'
  BY DEF Inv, MasterInv, Pmap, Shared, InHeap, master, pmap
<1>3. Turns'
  BY DEF Inv, MasterInv, Turns, Share, master, pmap
<1>4. Results'
  BY DEF Inv, MasterInv, Results, Good, master, pmap
<1> QED BY <1>1, <1>2, <1>3, <1>4 DEF MasterInv

LEMMA SlaveFrame ==
    ASSUME Inv, NEW s \in Slaves, UNCHANGED <<master, pmap>>, UNCHANGED Local(s)
    PROVE  PlaceOf(s)' /\ Answer(s)' /\ WeightsOf(s)'
<1>1. PlaceOf(s) /\ Answer(s) /\ WeightsOf(s)
  BY DEF Inv, SlaveInv
<1>2. Share(s)' = Share(s)
  BY DEF Share, pmap
<1>3. PlaceOf(s)'
  BY <1>1, <1>2 DEF PlaceOf, Local, master, pmap
<1>4. WeightsOf(s)'
  BY <1>1 DEF WeightsOf, Local, master
<1>5. Answer(s)'
  BY <1>1 DEF Answer, Good, Local, master, pmap
<1> QED BY <1>3, <1>4, <1>5

LEMMA SlaveStep ==
    ASSUME Inv, NEW s \in Slaves, UNCHANGED <<master, pmap, file>>, SlaveType', Messages', Counts',
           \A t \in Slaves \ {s} : UNCHANGED Local(t),
           PlaceOf(s)', Answer(s)', WeightsOf(s)',
           phase = "heldout" => UNCHANGED <<trained, nweights>>
    PROVE  Inv'
<1>1. MasterType' /\ MasterInv'
  BY MasterFrame
<1>2. SlaveInv'
  BY SlaveFrame DEF SlaveInv
<1>3. Averaged'
  BY DEF Inv, Averaged, master
<1>4. FileType'
  BY TypeIs DEF Inv, FileType, file
<1> QED BY <1>1, <1>2, <1>3, <1>4, TypeIsNext DEF Inv

LEMMA CountsFrame ==
    ASSUME Inv, UNCHANGED <<master, pmap, nweights, updates>>,
           \A s \in Slaves : replies'[s] = nothing => replies[s] = nothing
    PROVE  Counts'
<1>1. Sent' = Sent
  BY DEF Sent, master, pmap
<1> QED BY <1>1 DEF Inv, Counts, master, pmap
-----------------------------------------------------------------------------
(* How the weights of a slave change. *)

LEMMA WeightsMove ==
    ASSUME NEW ph, NEW ep, NEW p, NEW p2, NEW j, NEW i, NEW w, NEW v, NEW h, NEW n, NEW d, NEW g,
           NEW b, NEW o, Weights(ph, ep, p, j, w, v, h, n, d, g, b, o),
           i.phase = j.phase, i.epoch = j.epoch, p \in {"recv", "work"},
           p2 \in {"recv", "work", "gather", "end", "raised"}
    PROVE  Weights(ph, ep, p2, i, w, v, h, n, d, g, b, o)
<1>1. p # "bcast" /\ p2 # "bcast" /\ p # "out" /\ p2 # "out"
  OBVIOUS
<1>2. n * d.last - h = d.sum /\ (j.phase = "train" => w = <<d.last, 1>>)
  BY DEF Weights
<1>3. /\ j.phase = "heldout" => v = <<d.last, 1>>
      /\ j.phase = "heldout" /\ ph = "heldout" => w = o
  BY <1>1 DEF Weights
<1>4. g = nothing /\ b = nothing
  BY <1>1 DEF Weights
<1> QED BY <1>1, <1>2, <1>3, <1>4 DEF Weights

(* The sum of the weights after each update: (n + 1) (w + d) - (h + n d) is   *)
(* n w - h and the new weights.                                              *)
LEMMA Learn ==
    ASSUME NEW n \in Nat, NEW w \in Int, NEW h \in Int, NEW d \in Int
    PROVE  (n + 1) * (w + d) - (h + n * d) = (n * w - h) + (w + d)
<1>1. (n + 1) * (w + d) = n * w + n * d + w + d
  OBVIOUS
<1>2. PICK a \in Int, b \in Int : a = n * w /\ b = n * d
  OBVIOUS
<1> QED BY <1>1, <1>2

LEMMA WeightsLearn ==
    ASSUME NEW ph, NEW ep, NEW j, NEW w, NEW v, NEW h \in Int, NEW n \in Nat, NEW b, NEW g, NEW o,
           NEW a \in [sum : Int, last : Int], NEW c, NEW u, NEW d \in Int,
           Weights(ph, ep, "work", j, w, v, h, n, a, g, b, o), j.phase = "train",
           u = <<w[1] + d, 1>>, c = [sum |-> a.sum + u[1], last |-> u[1]]
    PROVE  Weights(ph, ep, "recv", j, u, v, h + n * d, n + 1, c, g, b, o)
<1>1. n * a.last - h = a.sum /\ w = <<a.last, 1>> /\ g = nothing /\ b = nothing
  BY DEF Weights
<1>2. w[1] = a.last /\ u[1] = a.last + d /\ u = <<a.last + d, 1>>
  BY <1>1
<1>3. c.sum = a.sum + (a.last + d) /\ c.last = a.last + d /\ a.last \in Int
  BY <1>2
<1>4. (n + 1) * c.last - (h + n * d) = c.sum
  BY <1>1, <1>3, Learn
<1>5. u = <<c.last, 1>>
  BY <1>2, <1>3
<1> QED BY <1>1, <1>4, <1>5 DEF Weights

LEMMA WeightsGather ==
    ASSUME NEW ep, NEW j, NEW w, NEW v, NEW h, NEW n, NEW d, NEW g, NEW b, NEW o,
           Weights("train", ep, "gather", j, w, v, h, n, d, g, b, o),
           j.phase = "train", j.epoch = ep
    PROVE  Weights("train", ep, "bcast", j, w, v, h, n, d, <<n * w[1] - h, n>>, b, o)
<1>1. n * d.last - h = d.sum /\ w = <<d.last, 1>> /\ b = nothing
  BY DEF Weights
<1>2. w[1] = d.last
  BY <1>1
<1>3. <<n * w[1] - h, n>> = <<d.sum, n>>
  BY <1>1, <1>2
<1> QED BY <1>1, <1>3 DEF Weights

LEMMA WeightsBcast ==
    ASSUME NEW ph \in Phases, NEW ep, NEW j, NEW i, NEW w, NEW v, NEW h, NEW n, NEW d, NEW g, NEW b,
           NEW o, Weights(ph, ep, "bcast", j, w, v, h, n, d, g, b, o), b # nothing,
           i.phase = "heldout", i.epoch = j.epoch
    PROVE  /\ ph = "heldout" \/ j.epoch # ep
           /\ Weights(ph, ep, "recv", i, b, w, h, n, d, g, nothing, o)
<1>1. j.phase = "train" /\ (ph = "heldout" \/ j.epoch # ep) /\ b = o
  BY DEF Weights
<1>2. n * d.last - h = d.sum /\ w = <<d.last, 1>> /\ g = nothing
  BY <1>1 DEF Weights
<1> QED BY <1>1, <1>2 DEF Weights

LEMMA WeightsEnd ==
    ASSUME NEW ph, NEW ep, NEW j, NEW i, NEW w, NEW v, NEW h, NEW n, NEW d, NEW g, NEW b, NEW o,
           Weights(ph, ep, "end", j, w, v, h, n, d, g, b, o),
           j.phase = "heldout", i.phase = "train"
    PROVE  /\ Weights(ph, ep, "out", j, v, v, h, n, d, g, b, o)
           /\ Weights(ph, ep, "recv", i, v, v, h, n, d, g, b, o)
<1>1. n * d.last - h = d.sum /\ v = <<d.last, 1>> /\ g = nothing /\ b = nothing
  BY DEF Weights
<1> QED BY <1>1 DEF Weights

LEMMA WeightsAverage ==
    ASSUME NEW ep, NEW p, NEW j, NEW w, NEW v, NEW h, NEW n, NEW d, NEW g, NEW b, NEW o, NEW u,
           Weights("train", ep, p, j, w, v, h, n, d, g, b, o), g # nothing
    PROVE  /\ p = "bcast" /\ j.phase = "train" /\ j.epoch = ep /\ g = <<d.sum, n>>
           /\ Weights("heldout", ep, p, j, w, v, h, n, d, nothing, u, u)
<1>1. p = "bcast" /\ j.phase = "train" /\ j.epoch = ep /\ g = <<d.sum, n>>
  BY DEF Weights
<1>2. n * d.last - h = d.sum /\ w = <<d.last, 1>>
  BY <1>1 DEF Weights
<1> QED BY <1>1, <1>2 DEF Weights

LEMMA WeightsNextEpoch ==
    ASSUME NEW ep \in Nat, NEW p, NEW j, NEW w, NEW v, NEW h, NEW n, NEW d, NEW g, NEW b, NEW o,
           Weights("heldout", ep, p, j, w, v, h, n, d, g, b, o),
           j.epoch = ep \/ p # "bcast"
    PROVE  Weights("train", ep + 1, p, j, w, v, h, n, d, g, b, o)
<1>1. ep + 1 # ep
  OBVIOUS
<1>2. g = nothing /\ b = IF j.phase = "train" /\ p = "bcast" THEN o ELSE nothing
  BY DEF Weights
<1>3. b = IF j.phase = "train" /\ p = "bcast" /\ j.epoch # ep + 1 THEN o ELSE nothing
  BY <1>1, <1>2
<1>4. ~(p = "bcast" /\ j.epoch = ep + 1)
  BY <1>1
<1> QED BY <1>2, <1>3, <1>4 DEF Weights
-----------------------------------------------------------------------------
(* The steps of a slave. *)

LEMMA InvParts ==
    ASSUME Inv
    PROVE  /\ TypeOK /\ MasterType /\ SlaveType /\ Messages /\ Counts
           /\ Pmap /\ Turns /\ Shared /\ Results
           /\ \A s \in Slaves : PlaceOf(s) /\ Answer(s) /\ WeightsOf(s)
BY TypeIs DEF Inv, MasterInv, SlaveInv

LEMMA BusyFacts ==
    ASSUME Inv, NEW s \in Slaves
    PROVE  /\ Share(s) \in {"idle", "busy", "told"}
           /\ Share(s) = "idle" <=> s \in idle
           /\ Share(s) = "busy" <=> s \in DOMAIN busy
           /\ Share(s) = "told" <=> s \notin idle /\ s \notin DOMAIN busy
           /\ s \in DOMAIN busy => /\ busy[s] \in 1..Len(order) /\ busy[s] \in Nat
                                   /\ order[busy[s]] # Die
<1>1. idle \cap DOMAIN busy = {}
  BY InvParts DEF MasterType
<1>2. ASSUME s \in DOMAIN busy
      PROVE  busy[s] \in 1..Len(order) /\ order[busy[s]] # Die
  <2>1. /\ busy[s] \in flushed + 1..next - 1 /\ flushed \in Nat /\ next \in 1..Len(order) + 1
        /\ order \in Seq(Nat) /\ \A i \in DOMAIN order : order[i] # Die
    BY <1>2, InvParts DEF Pmap, MasterType
  <2>2. Len(order) \in Nat /\ DOMAIN order = 1..Len(order)
    BY <2>1
  <2>3. busy[s] \in 1..Len(order)
    BY <2>1, <2>2
  <2> QED BY <2>1, <2>2, <2>3
<1> QED BY <1>1, <1>2 DEF Share

LEMMA ReceiveInv == ASSUME Inv, NEW s \in Slaves, Receive(s) PROVE Inv'
<1>1. SlaveType /\ Messages /\ PlaceOf(s) /\ Answer(s) /\ WeightsOf(s) /\ MasterType
  BY InvParts
<1>2. UNCHANGED <<master, pmap, file>>
  BY DEF Receive, file
<1>3. /\ tosend[s] \in Seq(Nat) /\ tosend[s] # <<>>
      /\ Head(tosend[s]) \in Nat /\ Tail(tosend[s]) \in Seq(Nat)
  <2>1. tosend[s] \in Seq(Nat) /\ tosend[s] # <<>>
    BY <1>1 DEF Messages, Receive, nothing
  <2> QED BY <2>1, HeadTailProperties
<1>4. /\ pc[s] = "recv"
      /\ pc'[s] = IF Head(tosend[s]) # Die THEN "work"
                  ELSE IF job[s].phase = "train" THEN "gather" ELSE "end"
      /\ tosend'[s] = Tail(tosend[s]) /\ replies'[s] = replies[s]
      /\ \A t \in Slaves \ {s} : pc'[t] = pc[t] /\ job'[t] = job[t] /\ tosend'[t] = tosend[t]
  BY <1>1 DEF Receive, Goto, SlaveType, Messages
<1>5. /\ job' \in [Slaves -> Job] /\ job'[s].sent = Head(tosend[s])
      /\ job'[s].phase = job[s].phase /\ job'[s].epoch = job[s].epoch
  BY <1>1, <1>3 DEF Receive, SlaveType, Job
<1>6. \A t \in Slaves \ {s} : UNCHANGED Local(t)
  BY <1>4 DEF Local, Receive, learned
<1>7. PlaceOf(s)'
  <2>1. Place(phase, epoch, Share(s), order[busy[s]], "recv", job[s], tosend[s], replies[s])
    BY <1>1, <1>4 DEF PlaceOf
  <2>2. Place(phase, epoch, Share(s), order[busy[s]], pc'[s], job'[s], tosend'[s], replies'[s])
    <3>1. /\ Share(s) \in {"idle", "busy", "told"} /\ phase \in Phases /\ tosend[s] # nothing
          /\ Share(s) = "busy" => order[busy[s]] # Die
      BY <1>1, <1>3, BusyFacts DEF MasterType, nothing
    <3>2. Place(phase, epoch, Share(s), order[busy[s]],
                IF Head(tosend[s]) # Die THEN "work"
                ELSE IF job[s].phase = "train" THEN "gather" ELSE "end",
                job'[s], Tail(tosend[s]), replies[s])
      BY <1>5, <2>1, <3>1, PlaceReceive
    <3> QED BY <1>4, <3>2
  <2>3. Share(s)' = Share(s)
    BY <1>2 DEF Share, pmap
  <2> QED BY <1>2, <2>2, <2>3 DEF PlaceOf, master, pmap
<1>8. WeightsOf(s)'
  <2>1. pc'[s] \in {"recv", "work", "gather", "end", "raised"}
    BY <1>4
  <2>2. Weights(phase, epoch, pc'[s], job'[s], weights[s], saveweights[s], sumweights_helper[s],
                nweights[s], trained[s], gathered[s], broadcast[s], outweights)
    BY <1>1, <1>4, <1>5, <2>1, WeightsMove DEF WeightsOf
  <2> QED BY <1>2, <2>2 DEF WeightsOf, Receive, master, learned
<1>9. Answer(s)'
  BY <1>1, <1>2, <1>4 DEF Answer, Good, master, pmap
<1>10. SlaveType'
  BY <1>1, <1>5 DEF SlaveType, Receive, Goto, learned
<1>11. Messages'
  BY <1>1, <1>3 DEF Messages, Receive, learned
<1>12. Counts'
  BY <1>2, CountsFrame DEF Receive, learned
<1> QED BY <1>2, <1>6, <1>7, <1>8, <1>9, <1>10, <1>11, <1>12, SlaveStep DEF Receive, learned

LEMMA GatherInv == ASSUME Inv, NEW s \in Slaves, Gather(s) PROVE Inv'
<1>1. SlaveType /\ Messages /\ PlaceOf(s) /\ Answer(s) /\ WeightsOf(s)
  BY InvParts
<1>2. UNCHANGED <<master, pmap, file>>
  BY DEF Gather
<1>3. /\ pc[s] = "gather" /\ pc'[s] = "bcast"
      /\ gathered'[s] = <<nweights[s] * weights[s][1] - sumweights_helper[s], nweights[s]>>
      /\ \A t \in Slaves \ {s} : pc'[t] = pc[t] /\ gathered'[t] = gathered[t]
  BY <1>1 DEF Gather, Goto, SlaveType, Messages
<1>4. \A t \in Slaves \ {s} : UNCHANGED Local(t)
  BY <1>3 DEF Local, Gather, learned
<1>5. /\ phase = "train" /\ job[s].phase = "train" /\ job[s].epoch = epoch
      /\ Place(phase, epoch, Share(s), order[busy[s]], "bcast", job[s], tosend[s], replies[s])
  BY <1>1, <1>3, PlaceGather DEF PlaceOf
<1>6. PlaceOf(s)'
  <2>1. Share(s)' = Share(s)
    BY <1>2 DEF Share, pmap
  <2> QED BY <1>2, <1>3, <1>5, <2>1 DEF PlaceOf, master, pmap, Gather
<1>7. WeightsOf(s)'
  <2>1. Weights("train", epoch, "gather", job[s], weights[s], saveweights[s], sumweights_helper[s],
                nweights[s], trained[s], gathered[s], broadcast[s], outweights)
    BY <1>1, <1>3, <1>5 DEF WeightsOf
  <2>2. Weights("train", epoch, "bcast", job[s], weights[s], saveweights[s], sumweights_helper[s],
                nweights[s], trained[s], gathered'[s], broadcast[s], outweights)
    BY <1>3, <1>5, <2>1, WeightsGather
  <2> QED BY <1>2, <1>3, <1>5, <2>2 DEF WeightsOf, Gather, master, learned
<1>8. Answer(s)'
  BY <1>1, <1>2 DEF Answer, Good, master, pmap, Gather
<1>9. SlaveType'
  BY <1>1 DEF SlaveType, Gather, Goto, learned
<1>10. Messages'
  <2>1. <<nweights[s] * weights[s][1] - sumweights_helper[s], nweights[s]>> \in Int \X Nat
    <3>1. nweights[s] \in Nat /\ weights[s][1] \in Int /\ sumweights_helper[s] \in Int
      BY <1>1 DEF SlaveType
    <3>2. nweights[s] * weights[s][1] \in Int
      BY <3>1
    <3> QED BY <3>1, <3>2
  <2> QED BY <1>1, <2>1 DEF Messages, Gather, learned
<1>11. Counts'
  BY <1>2, CountsFrame DEF Gather, learned
<1> QED BY <1>2, <1>4, <1>6, <1>7, <1>8, <1>9, <1>10, <1>11, SlaveStep DEF Gather, learned

LEMMA BcastInv == ASSUME Inv, NEW s \in Slaves, Bcast(s) PROVE Inv'
<1>1. SlaveType /\ Messages /\ PlaceOf(s) /\ Answer(s) /\ WeightsOf(s) /\ MasterType
  BY InvParts
<1>2. UNCHANGED <<master, pmap, file>>
  BY DEF Bcast
<1>3. /\ pc[s] = "bcast" /\ pc'[s] = "recv" /\ broadcast[s] # nothing /\ broadcast'[s] = nothing
      /\ weights'[s] = broadcast[s] /\ saveweights'[s] = weights[s]
      /\ \A t \in Slaves \ {s} : /\ pc'[t] = pc[t] /\ broadcast'[t] = broadcast[t]
                                 /\ weights'[t] = weights[t] /\ saveweights'[t] = saveweights[t]
  BY <1>1 DEF Bcast, Goto, SlaveType, Messages
<1>4. /\ job' \in [Slaves -> Job] /\ job'[s].phase = "heldout" /\ job'[s].epoch = job[s].epoch
      /\ \A t \in Slaves \ {s} : job'[t] = job[t]
  BY <1>1 DEF Bcast, SlaveType, Job, Phases
<1>5. \A t \in Slaves \ {s} : UNCHANGED Local(t)
  BY <1>3, <1>4 DEF Local, Bcast
<1>6. /\ phase = "heldout" \/ job[s].epoch # epoch
      /\ Weights(phase, epoch, "recv", job'[s], broadcast[s], weights[s], sumweights_helper[s],
                 nweights[s], trained[s], gathered[s], nothing, outweights)
  <2>1. Weights(phase, epoch, "bcast", job[s], weights[s], saveweights[s], sumweights_helper[s],
                nweights[s], trained[s], gathered[s], broadcast[s], outweights)
    BY <1>1, <1>3 DEF WeightsOf
  <2> QED BY <1>1, <1>3, <1>4, <2>1, WeightsBcast DEF MasterType
<1>7. WeightsOf(s)'
  BY <1>2, <1>3, <1>6 DEF WeightsOf, Bcast, master
<1>8. PlaceOf(s)'
  <2>1. Place(phase, epoch, Share(s), order[busy[s]], "bcast", job[s], tosend[s], replies[s])
    BY <1>1, <1>3 DEF PlaceOf
  <2>2. Place(phase, epoch, Share(s), order[busy[s]], "recv", job'[s], tosend[s], replies[s])
    BY <1>4, <1>6, <2>1, PlaceBcast
  <2>3. Share(s)' = Share(s)
    BY <1>2 DEF Share, pmap
  <2> QED BY <1>2, <1>3, <2>2, <2>3 DEF PlaceOf, master, pmap, Bcast
<1>9. Answer(s)'
  BY <1>1, <1>2 DEF Answer, Good, master, pmap, Bcast
<1>10. SlaveType'
  <2>1. broadcast[s] \in Int \X Nat
    BY <1>1, <1>3 DEF Messages
  <2> QED BY <1>1, <1>4, <2>1 DEF SlaveType, Bcast, Goto
<1>11. Messages'
  BY <1>1 DEF Messages, Bcast
<1>12. Counts'
  BY <1>2, CountsFrame DEF Bcast
<1> QED BY <1>2, <1>5, <1>7, <1>8, <1>9, <1>10, <1>11, <1>12, SlaveStep DEF Bcast

LEMMA EndEpochInv == ASSUME Inv, NEW s \in Slaves, EndEpoch(s) PROVE Inv'
<1>1. SlaveType /\ Messages /\ PlaceOf(s) /\ Answer(s) /\ WeightsOf(s) /\ MasterType
  BY InvParts
<1>2. UNCHANGED <<master, pmap, file>>
  BY DEF EndEpoch
<1>3. /\ pc[s] = "end" /\ weights'[s] = saveweights[s]
      /\ \A t \in Slaves \ {s} : pc'[t] = pc[t] /\ job'[t] = job[t] /\ weights'[t] = weights[t]
  BY <1>1 DEF EndEpoch, Restore, Goto, SlaveType
<1>4. \A t \in Slaves \ {s} : UNCHANGED Local(t)
  BY <1>3 DEF Local, EndEpoch, messages
<1>5. /\ job[s].epoch \in 1..Iterations /\ job[s] \in Job /\ epoch \in Nat /\ phase \in Phases
      /\ Iterations \in Nat
  BY <1>1, ConstantFacts DEF SlaveType, MasterType, Job
<1>6. \/ pc'[s] = "out" /\ job' = job
      \/ /\ pc'[s] = "recv" /\ job[s].epoch < Iterations
         /\ job' = [job EXCEPT ![s].epoch = @ + 1, ![s].phase = "train"]
  BY <1>1 DEF EndEpoch, Goto, Looks, SlaveType
<1> DEFINE i == [job[s] EXCEPT !.epoch = @ + 1, !.phase = "train"]
<1>7. i.phase = "train" /\ i.epoch = job[s].epoch + 1
  BY <1>5 DEF Job
<1>8. \/ pc'[s] = "out" /\ job' = job
      \/ pc'[s] = "recv" /\ job'[s] = i /\ job' \in [Slaves -> Job]
  <2>1. CASE pc'[s] = "out" /\ job' = job
    BY <2>1
  <2>2. CASE /\ pc'[s] = "recv" /\ job[s].epoch < Iterations
             /\ job' = [job EXCEPT ![s].epoch = @ + 1, ![s].phase = "train"]
    <3>1. job[s].epoch + 1 \in 1..Iterations
      BY <1>5, <2>2
    <3>2. i \in Job
      BY <1>5, <3>1 DEF Job, Phases
    <3>3. job' = [job EXCEPT ![s] = i]
      <4>1. job \in [Slaves -> Job]
        BY <1>1 DEF SlaveType
      <4> QED BY <2>2, <4>1
    <3> QED BY <1>1, <2>2, <3>2, <3>3 DEF SlaveType
  <2> QED BY <1>6, <2>1, <2>2
<1> HIDE DEF i
<1>9. /\ job[s].phase = "heldout"
      /\ Place(phase, epoch, Share(s), order[busy[s]], "out", job[s], tosend[s], replies[s])
      /\ Place(phase, epoch, Share(s), order[busy[s]], "recv", i, tosend[s], replies[s])
  <2>1. Place(phase, epoch, Share(s), order[busy[s]], "end", job[s], tosend[s], replies[s])
    BY <1>1, <1>3 DEF PlaceOf
  <2> QED BY <1>5, <1>7, <2>1, PlaceEnd
<1>10. PlaceOf(s)'
  <2>1. Share(s)' = Share(s)
    BY <1>2 DEF Share, pmap
  <2> QED BY <1>2, <1>8, <1>9, <2>1 DEF PlaceOf, master, pmap, EndEpoch, messages
<1>11. WeightsOf(s)'
  <2>1. Weights(phase, epoch, "end", job[s], weights[s], saveweights[s], sumweights_helper[s],
                nweights[s], trained[s], gathered[s], broadcast[s], outweights)
    BY <1>1, <1>3 DEF WeightsOf
  <2>2. /\ Weights(phase, epoch, "out", job[s], saveweights[s], saveweights[s], sumweights_helper[s],
                   nweights[s], trained[s], gathered[s], broadcast[s], outweights)
        /\ Weights(phase, epoch, "recv", i, saveweights[s], saveweights[s], sumweights_helper[s],
                   nweights[s], trained[s], gathered[s], broadcast[s], outweights)
    BY <1>7, <1>9, <2>1, WeightsEnd
  <2> QED BY <1>2, <1>3, <1>8, <2>2 DEF WeightsOf, EndEpoch, master, messages
<1>12. Answer(s)'
  BY <1>1, <1>2 DEF Answer, Good, master, pmap, EndEpoch, messages
<1>13. SlaveType'
  <2>1. job' \in [Slaves -> Job]
    BY <1>1, <1>8 DEF SlaveType
  <2>2. pc' \in [Slaves -> {"recv", "work", "gather", "bcast", "end", "out", "raised"}]
    BY <1>1 DEF SlaveType, EndEpoch, Goto
  <2>3. weights' \in [Slaves -> Int \X Nat]
    BY <1>1 DEF SlaveType, EndEpoch, Restore
  <2> QED BY <1>1, <2>1, <2>2, <2>3 DEF SlaveType, EndEpoch
<1>14. Messages'
  BY <1>1 DEF Messages, EndEpoch, messages
<1>15. Counts'
  BY <1>2, CountsFrame DEF EndEpoch, messages
<1> QED BY <1>2, <1>4, <1>10, <1>11, <1>12, <1>13, <1>14, <1>15, SlaveStep DEF EndEpoch

(* What a slave does when it has its sentence. *)
LEMMA WorkFacts ==
    ASSUME Inv, NEW s \in Slaves, pc[s] = "work"
    PROVE  /\ s \in DOMAIN busy /\ job[s].phase = phase /\ job[s].epoch = epoch
           /\ job[s].sent = order[busy[s]] /\ replies[s] = nothing
           /\ phase = "heldout" => weights[s] = outweights
<1>1. PlaceOf(s) /\ WeightsOf(s)
  BY InvParts
<1>2. /\ Share(s) = "busy" /\ job[s].phase = phase /\ job[s].epoch = epoch
      /\ job[s].sent = order[busy[s]] /\ replies[s] = nothing
  <2>1. Place(phase, epoch, Share(s), order[busy[s]], "work", job[s], tosend[s], replies[s])
    BY <1>1 DEF PlaceOf
  <2> QED BY <2>1, PlaceWork
<1>3. s \in DOMAIN busy
  BY <1>2, BusyFacts
<1>4. phase = "heldout" => weights[s] = outweights
  BY <1>1, <1>2 DEF WeightsOf, Weights
<1> QED BY <1>2, <1>3, <1>4

LEMMA ReplyFacts ==
    ASSUME Inv, NEW s \in Slaves, pc[s] = "work", Reply(s), UNCHANGED <<master, pmap, job, tosend>>
    PROVE  /\ pc'[s] = "recv" /\ replies'[s] # nothing
           /\ replies' \in [Slaves -> Seq(Result)]
           /\ pc' \in [Slaves -> {"recv", "work", "gather", "bcast", "end", "out", "raised"}]
           /\ \A t \in Slaves \ {s} : pc'[t] = pc[t] /\ replies'[t] = replies[t]
           /\ PlaceOf(s)' /\ Answer(s)'
<1> DEFINE m == [sent |-> job[s].sent, phase |-> job[s].phase, epoch |-> job[s].epoch,
                 weights |-> weights[s]]
<1>1. SlaveType /\ Messages /\ PlaceOf(s)
  BY InvParts
<1>2. m \in Result
  <2>1. job[s] \in Job /\ weights[s] \in Int \X Nat
    BY <1>1 DEF SlaveType
  <2> QED BY <2>1 DEF Result, Job
<1>3. replies' = [replies EXCEPT ![s] = Append(@, m)] /\ pc' = [pc EXCEPT ![s] = "recv"]
  BY DEF Reply, Goto
<1>4. Good(m, order[busy[s]])
  BY WorkFacts DEF Good
<1> HIDE DEF m
<1>5. /\ Append(replies[s], m) = <<m>>
      /\ Place(phase, epoch, Share(s), order[busy[s]], "recv", job[s], tosend[s], Append(replies[s], m))
  <2>1. Place(phase, epoch, Share(s), order[busy[s]], "work", job[s], tosend[s], replies[s])
    BY <1>1 DEF PlaceOf
  <2> QED BY <2>1, PlaceReply
<1>6. replies' \in [Slaves -> Seq(Result)]
  <2>1. Append(replies[s], m) \in Seq(Result)
    BY <1>1, <1>2, AppendProperties DEF Messages
  <2> QED BY <1>1, <1>3, <2>1 DEF Messages
<1>7. /\ pc'[s] = "recv" /\ replies'[s] = <<m>>
      /\ pc' \in [Slaves -> {"recv", "work", "gather", "bcast", "end", "out", "raised"}]
      /\ \A t \in Slaves \ {s} : pc'[t] = pc[t] /\ replies'[t] = replies[t]
  BY <1>1, <1>3, <1>5 DEF SlaveType, Messages
<1>8. PlaceOf(s)'
  <2>1. Share(s)' = Share(s)
    BY DEF Share, pmap
  <2> QED BY <1>5, <1>7, <2>1 DEF PlaceOf, master, pmap
<1>9. Answer(s)'
  <2>1. replies'[s][1] = m
    BY <1>7
  <2> QED BY <1>4, <2>1 DEF Answer, Good, master, pmap
<1>10. <<m>> # nothing
  BY OneElement DEF nothing
<1> QED BY <1>6, <1>7, <1>8, <1>9, <1>10

LEMMA ProcessHeldoutInv == ASSUME Inv, NEW s \in Slaves, process_heldout(s) PROVE Inv'
<1>1. SlaveType /\ Messages /\ WeightsOf(s)
  BY InvParts
<1>2. UNCHANGED <<master, pmap, file, job, tosend>> /\ pc[s] = "work" /\ Reply(s)
  BY DEF process_heldout
<1>3. /\ pc'[s] = "recv" /\ replies'[s] # nothing /\ replies' \in [Slaves -> Seq(Result)]
      /\ pc' \in [Slaves -> {"recv", "work", "gather", "bcast", "end", "out", "raised"}]
      /\ \A t \in Slaves \ {s} : pc'[t] = pc[t] /\ replies'[t] = replies[t]
      /\ PlaceOf(s)' /\ Answer(s)'
  BY <1>2, ReplyFacts
<1>4. \A t \in Slaves \ {s} : UNCHANGED Local(t)
  BY <1>3 DEF Local, process_heldout, learned
<1>5. WeightsOf(s)'
  <2>1. Weights(phase, epoch, "recv", job[s], weights[s], saveweights[s], sumweights_helper[s],
                nweights[s], trained[s], gathered[s], broadcast[s], outweights)
    BY <1>1, <1>2, WeightsMove DEF WeightsOf
  <2> QED BY <1>2, <1>3, <2>1 DEF WeightsOf, process_heldout, master, learned
<1>6. SlaveType'
  BY <1>1, <1>3 DEF SlaveType, process_heldout, learned
<1>7. Messages'
  BY <1>1, <1>3 DEF Messages, process_heldout, learned
<1>8. Counts'
  BY <1>2, <1>3, CountsFrame DEF process_heldout, learned
<1> QED BY <1>2, <1>3, <1>4, <1>5, <1>6, <1>7, <1>8, SlaveStep DEF process_heldout, learned

LEMMA FailInv == ASSUME Inv, NEW s \in Slaves, Fail(s) PROVE Inv'
<1>1. SlaveType /\ Messages /\ WeightsOf(s) /\ PlaceOf(s) /\ Answer(s)
  BY InvParts
<1>2. UNCHANGED <<master, pmap, file, job, tosend>> /\ pc[s] = "work"
  BY DEF Fail
<1>3. Reply(s) \/ (Goto(s, "raised") /\ UNCHANGED replies)
  BY DEF Fail
<1>4. /\ pc'[s] \in {"recv", "raised"} /\ replies' \in [Slaves -> Seq(Result)]
      /\ pc' \in [Slaves -> {"recv", "work", "gather", "bcast", "end", "out", "raised"}]
      /\ \A t \in Slaves \ {s} : pc'[t] = pc[t] /\ replies'[t] = replies[t]
      /\ PlaceOf(s)' /\ Answer(s)'
  <2>1. CASE Reply(s)
    BY <1>2, <2>1, ReplyFacts
  <2>2. CASE Goto(s, "raised") /\ UNCHANGED replies
    <3>1. /\ pc'[s] = "raised" /\ \A t \in Slaves \ {s} : pc'[t] = pc[t]
          /\ pc' \in [Slaves -> {"recv", "work", "gather", "bcast", "end", "out", "raised"}]
      BY <1>1, <2>2 DEF Goto, SlaveType
    <3>2. Place(phase, epoch, Share(s), order[busy[s]], "raised", job[s], tosend[s], replies[s])
      <4>1. Place(phase, epoch, Share(s), order[busy[s]], "work", job[s], tosend[s], replies[s])
        BY <1>1, <1>2 DEF PlaceOf
      <4> QED BY <4>1, PlaceWork
    <3>3. PlaceOf(s)'
      <4>1. Share(s)' = Share(s)
        BY <1>2 DEF Share, pmap
      <4> QED BY <1>2, <2>2, <3>1, <3>2, <4>1 DEF PlaceOf, master, pmap
    <3>4. Answer(s)'
      BY <1>1, <1>2, <2>2 DEF Answer, Good, master, pmap
    <3> QED BY <1>1, <2>2, <3>1, <3>3, <3>4 DEF Messages
  <2> QED BY <1>3, <2>1, <2>2
<1>5. \A t \in Slaves \ {s} : UNCHANGED Local(t)
  BY <1>4 DEF Local, Fail, learned
<1>6. WeightsOf(s)'
  <2>1. Weights(phase, epoch, pc'[s], job[s], weights[s], saveweights[s], sumweights_helper[s],
                nweights[s], trained[s], gathered[s], broadcast[s], outweights)
    BY <1>1, <1>2, <1>4, WeightsMove DEF WeightsOf
  <2> QED BY <1>2, <2>1 DEF WeightsOf, Fail, master, learned
<1>7. SlaveType'
  <2>1. \A k \in {decoder_errors[s], 0} : k + 1 \in Nat
    BY <1>1 DEF SlaveType
  <2>2. decoder_errors' \in [Slaves -> Nat]
    BY <1>1, <2>1 DEF SlaveType, Fail
  <2> QED BY <1>1, <1>4, <2>2 DEF SlaveType, Fail, learned
<1>8. Messages'
  <2>1. failures' \in Nat
    BY <1>1 DEF Messages, Fail
  <2> QED BY <1>1, <1>4, <2>1 DEF Messages, Fail, learned
<1>9. Counts'
  <2>1. replies[s] = nothing
    BY <1>2, WorkFacts
  <2> QED BY <1>2, <1>4, <2>1, CountsFrame DEF Fail, learned
<1> QED BY <1>2, <1>4, <1>5, <1>6, <1>7, <1>8, <1>9, SlaveStep DEF Fail, learned

LEMMA TimesMonotone ==
    ASSUME NEW a \in Nat, NEW b \in Nat, NEW c \in Nat, b <= c
    PROVE  a * b <= a * c
<1>1. PICK k \in Nat : c = b + k
  <2>1. c - b \in Nat /\ c = b + (c - b)
    OBVIOUS
  <2> QED BY <2>1
<1>2. a * (b + k) = a * b + a * k /\ a * b \in Nat /\ a * k \in Nat
  OBVIOUS
<1> QED BY <1>1, <1>2

LEMMA SentFacts ==
    ASSUME Inv
    PROVE  /\ Train * Iterations \in Nat /\ Sent \in Nat /\ Sent <= Train * Iterations
           /\ Train * (epoch - 1) \in Nat /\ Train * epoch = Train * (epoch - 1) + Train
<1>1. /\ Train \in Nat /\ Iterations \in Nat /\ epoch \in Nat /\ epoch - 1 \in Nat
      /\ epoch <= Iterations
  BY ConstantFacts, InvParts DEF MasterType
<1>3. next \in Nat /\ next >= 1
  <2>1. order \in Seq(Nat) /\ next \in 1..Len(order) + 1
    BY InvParts DEF Pmap
  <2> QED BY <2>1
<1>4. Train * (epoch - 1) \in Nat /\ Train * epoch = Train * (epoch - 1) + Train
  BY <1>1
<1>5. Train * epoch <= Train * Iterations /\ Train * Iterations \in Nat /\ Train * epoch \in Nat
  BY <1>1, TimesMonotone
<1>6. phase = "train" => next - 1 <= Train
  BY <1>1, InvParts DEF Pmap
<1>7. PICK a \in Nat : a = Train * (epoch - 1)
  BY <1>4
<1>8. Sent = a + IF phase = "train" THEN next - 1 ELSE Train
  BY <1>7 DEF Sent
<1>9. Sent \in Nat /\ Sent <= a + Train
  BY <1>1, <1>3, <1>6, <1>8
<1> QED BY <1>4, <1>5, <1>7, <1>9

LEMMA UpdatesBounded ==
    ASSUME Inv, NEW s \in Slaves
    PROVE  /\ IsFiniteSet(updates[s])
           /\ Cardinality(updates[s]) <= Cardinality(Slaves) * (Train * Iterations)
<1>1. PICK n \in Nat : n = Train * Iterations
  BY SentFacts
<1> DEFINE f == [u \in updates[s] |-> <<u.from, u.n>>]
<1>2. \A u \in updates[s] : u \in [from : Slaves, n : Nat] /\ u.n < n
  <2>1. updates[s] \subseteq [from : Slaves, n : Nat]
    BY InvParts DEF Messages
  <2>2. \A t \in Slaves : nweights[t] <= Sent /\ nweights[t] \in Nat
    BY InvParts DEF Counts, SlaveType
  <2>3. Sent \in Nat /\ Sent <= n
    BY <1>1, SentFacts
  <2>4. \A u \in updates[s] : u.n < nweights[u.from] /\ u.from \in Slaves /\ u.n \in Nat
    BY <2>1, InvParts DEF Counts
  <2> QED BY <2>1, <2>2, <2>3, <2>4
<1>3. f \in Injection(updates[s], Slaves \X (0..n - 1))
  <2>1. f \in [updates[s] -> Slaves \X (0..n - 1)]
    BY <1>1, <1>2
  <2>2. \A u, v \in updates[s] : f[u] = f[v] => u = v
    BY <1>2
  <2> HIDE DEF f
  <2> QED BY <2>1, <2>2 DEF Injection, IsInjective
<1>4. IsFiniteSet(0..n - 1) /\ Cardinality(0..n - 1) = n
  <2>1. 0 \in Int /\ n - 1 \in Int
    BY <1>1
  <2>2. IsFiniteSet(0..n - 1) /\ Cardinality(0..n - 1) = IF 0 > n - 1 THEN 0 ELSE (n - 1) - 0 + 1
    BY <2>1, FS_Interval
  <2>3. (IF 0 > n - 1 THEN 0 ELSE (n - 1) - 0 + 1) = n
    BY <1>1
  <2> QED BY <2>2, <2>3
<1>5. /\ IsFiniteSet(Slaves \X (0..n - 1))
      /\ Cardinality(Slaves \X (0..n - 1)) = Cardinality(Slaves) * n
  BY <1>4, ConstantFacts, FS_Product
<1>6. /\ IsFiniteSet(updates[s])
      /\ Cardinality(updates[s]) <= Cardinality(Slaves \X (0..n - 1))
  BY <1>3, <1>5, FS_Injection
<1> QED BY <1>1, <1>5, <1>6

LEMMA DeltaType ==
    ASSUME Inv, NEW s \in Slaves, NEW u \in Arrived(s)
    PROVE  Delta(1 + Cardinality(u)) \in Int
<1>1. PICK n : n = Cardinality(Slaves) * (Train * Iterations)
  OBVIOUS
<1>2. u \subseteq updates[s]
  BY DEF Arrived
<1>3. Cardinality(u) \in Nat /\ Cardinality(u) <= Cardinality(updates[s])
  BY <1>2, UpdatesBounded, FS_Subset, FS_CardinalityType
<1>4. Cardinality(updates[s]) \in Nat /\ Cardinality(updates[s]) <= n
  BY <1>1, UpdatesBounded, FS_CardinalityType
<1>5. n \in Nat
  BY <1>1, SentFacts, ConstantFacts, FS_CardinalityType
<1>6. 1 + Cardinality(u) \in 1..n + 1
  BY <1>3, <1>4, <1>5
<1>7. \A k \in 1..n + 1 : Delta(k) \in Int
  BY <1>1, TrainerAssumption
<1> QED BY <1>6, <1>7

LEMMA ProcessInv == ASSUME Inv, NEW s \in Slaves, process(s) PROVE Inv'
<1>1. SlaveType /\ Messages /\ WeightsOf(s) /\ Counts
  BY InvParts
<1>2. UNCHANGED <<master, pmap, file, job, tosend>> /\ pc[s] = "work" /\ Reply(s)
  BY DEF process
<1>3. /\ pc'[s] = "recv" /\ replies'[s] # nothing /\ replies' \in [Slaves -> Seq(Result)]
      /\ pc' \in [Slaves -> {"recv", "work", "gather", "bcast", "end", "out", "raised"}]
      /\ \A t \in Slaves \ {s} : pc'[t] = pc[t] /\ replies'[t] = replies[t]
      /\ PlaceOf(s)' /\ Answer(s)'
  BY <1>2, ReplyFacts
<1>4. /\ phase = "train" /\ job[s].phase = "train" /\ s \in DOMAIN busy /\ replies[s] = nothing
  BY <1>2, WorkFacts DEF process
<1>5. PICK u \in Arrived(s) :
        /\ Optimize(s, Delta(1 + Cardinality(u)))
        /\ trained' = [trained EXCEPT ![s] =
               [sum |-> @.sum + weights'[s][1], last |-> weights'[s][1]]]
        /\ updates' = [t \in Slaves |->
               IF t = s THEN updates[s] \ u ELSE updates[t] \cup {[from |-> s, n |-> nweights[s]]}]
  BY DEF process
<1>6. PICK d \in Int : d = Delta(1 + Cardinality(u))
  BY DeltaType
<1>7. /\ weights' = [weights EXCEPT ![s][1] = @ + d]
      /\ sumweights_helper' = [sumweights_helper EXCEPT ![s] = @ + nweights[s] * d]
      /\ nweights' = [nweights EXCEPT ![s] = @ + 1]
  BY <1>5, <1>6 DEF Optimize
<1>8. /\ nweights[s] \in Nat /\ sumweights_helper[s] \in Int /\ weights[s] \in Int \X Nat
      /\ trained[s] \in [sum : Int, last : Int] /\ weights[s] = <<trained[s].last, 1>>
  BY <1>1, <1>4 DEF SlaveType, Messages, WeightsOf, Weights
<1>9. weights' = [weights EXCEPT ![s] = <<weights[s][1] + d, 1>>]
  <2>1. [weights[s] EXCEPT ![1] = weights[s][1] + d] = <<weights[s][1] + d, 1>>
    BY <1>8
  <2> QED BY <1>1, <1>7, <2>1 DEF SlaveType
<1>10. /\ weights'[s] = <<weights[s][1] + d, 1>> /\ weights' \in [Slaves -> Int \X Nat]
       /\ weights'[s][1] \in Int
       /\ \A t \in Slaves \ {s} : weights'[t] = weights[t]
  <2>1. <<weights[s][1] + d, 1>> \in Int \X Nat
    BY <1>8
  <2> QED BY <1>1, <1>9, <2>1 DEF SlaveType
<1>11. nweights[s] * d \in Int
  BY <1>8
<1>12. /\ sumweights_helper'[s] = sumweights_helper[s] + nweights[s] * d
       /\ nweights'[s] = nweights[s] + 1
       /\ sumweights_helper' \in [Slaves -> Int] /\ nweights' \in [Slaves -> Nat]
       /\ \A t \in Slaves \ {s} : /\ sumweights_helper'[t] = sumweights_helper[t]
                                  /\ nweights'[t] = nweights[t]
  BY <1>1, <1>7, <1>8, <1>11 DEF SlaveType
<1>13. /\ trained'[s] = [sum |-> trained[s].sum + weights'[s][1], last |-> weights'[s][1]]
       /\ trained' \in [Slaves -> [sum : Int, last : Int]]
       /\ \A t \in Slaves \ {s} : trained'[t] = trained[t]
  <2>1. [sum |-> trained[s].sum + weights'[s][1], last |-> weights'[s][1]] \in [sum : Int, last : Int]
    BY <1>8, <1>10
  <2> QED BY <1>1, <1>5, <2>1 DEF Messages
<1>14. UNCHANGED <<saveweights, failures, gathered, broadcast>>
  BY DEF process
<1>15. \A t \in Slaves \ {s} : UNCHANGED Local(t)
  BY <1>2, <1>3, <1>10, <1>12, <1>13, <1>14 DEF Local
<1>16. WeightsOf(s)'
  <2>1. Weights(phase, epoch, "work", job[s], weights[s], saveweights[s], sumweights_helper[s],
                nweights[s], trained[s], gathered[s], broadcast[s], outweights)
    BY <1>1, <1>2 DEF WeightsOf
  <2>2. Weights(phase, epoch, "recv", job[s], weights'[s], saveweights[s],
                sumweights_helper[s] + nweights[s] * d, nweights[s] + 1, trained'[s],
                gathered[s], broadcast[s], outweights)
    BY <1>4, <1>8, <1>10, <1>13, <2>1, WeightsLearn
  <2> QED BY <1>2, <1>3, <1>12, <1>14, <2>2 DEF WeightsOf, master
<1>17. updates' \in [Slaves -> SUBSET [from : Slaves, n : Nat]]
  BY <1>1, <1>5, <1>8 DEF Messages
<1>18. SlaveType'
  <2>1. decoder_errors' \in [Slaves -> Nat]
    BY <1>1 DEF SlaveType, process
  <2> QED BY <1>1, <1>2, <1>3, <1>10, <1>12, <1>14, <2>1 DEF SlaveType
<1>19. Messages'
  BY <1>1, <1>2, <1>3, <1>13, <1>14, <1>17 DEF Messages
<1>20. Counts'
  <2>1. Sent' = Sent
    BY <1>2 DEF Sent, master, pmap
  <2>2. nweights[s] < Sent /\ Sent \in Nat
    BY <1>1, <1>4, SentFacts DEF Counts
  <2>3. \A t \in Slaves : nweights'[t] <= Sent
    BY <1>1, <1>8, <1>12, <2>2 DEF Counts
  <2>4. \A t \in Slaves : t \in DOMAIN busy' /\ replies'[t] = nothing => nweights'[t] < Sent
    BY <1>1, <1>2, <1>3, <1>4, <1>12 DEF Counts, pmap
  <2>5. \A t \in Slaves : nweights[t] \in Nat /\ nweights'[t] \in Nat /\ nweights[t] <= nweights'[t]
    BY <1>1, <1>8, <1>12 DEF SlaveType
  <2>6. \A t \in Slaves : \A x \in updates'[t] : x.n < nweights'[x.from]
    <3> SUFFICES ASSUME NEW t \in Slaves, NEW x \in updates'[t] PROVE x.n < nweights'[x.from]
      OBVIOUS
    <3>1. x \in updates[t] \/ x = [from |-> s, n |-> nweights[s]]
      BY <1>5
    <3>2. CASE x \in updates[t]
      <4>1. x.n \in Nat /\ x.from \in Slaves /\ x.n < nweights[x.from]
        BY <1>1, <3>2 DEF Counts, Messages
      <4> QED BY <2>5, <4>1
    <3>3. CASE x = [from |-> s, n |-> nweights[s]]
      BY <1>8, <1>12, <3>3
    <3> QED BY <3>1, <3>2, <3>3
  <2> QED BY <2>1, <2>3, <2>4, <2>6 DEF Counts
<1>21. phase # "heldout"
  BY <1>4
<1> QED BY <1>2, <1>3, <1>15, <1>16, <1>18, <1>19, <1>20, <1>21, SlaveStep

LEMMA SlaveStepInv == ASSUME Inv, NEW s \in Slaves, Slave(s) PROVE Inv'
BY ReceiveInv, ProcessInv, ProcessHeldoutInv, FailInv, GatherInv, BcastInv, EndEpochInv DEF Slave

LEMMA TouchInv == ASSUME Inv, Touch PROVE Inv'
<1>1. UNCHANGED <<master, pmap, pc, job, learned, decoder_errors, failures, messages>>
  BY DEF Touch
<1>2. MasterType' /\ MasterInv'
  BY <1>1, MasterFrame
<1>3. SlaveInv'
  BY <1>1, SlaveFrame DEF SlaveInv, Local, learned, messages
<1>4. SlaveType' /\ Messages'
  BY <1>1, InvParts DEF SlaveType, Messages, learned, messages
<1>5. Counts'
  BY <1>1, CountsFrame DEF learned, messages
<1>6. Averaged'
  BY <1>1 DEF Inv, Averaged, master, learned
<1>7. FileType'
  BY DEF FileType, Touch
<1> QED BY <1>2, <1>3, <1>4, <1>5, <1>6, <1>7, TypeIsNext DEF Inv
-----------------------------------------------------------------------------
(* The steps of the master. *)

LEMMA PlaceOther ==
    ASSUME NEW ph, NEW ep, NEW k, NEW x, NEW y, NEW p, NEW j, NEW q, NEW r,
           Place(ph, ep, k, x, p, j, q, r), k # "busy"
    PROVE  Place(ph, ep, k, y, p, j, q, r)
<1>1. Due(k, x) = Due(k, y)
  BY DEF Due
<1> QED BY <1>1 DEF Place, With, Behind, Late, Ahead

LEMMA RepliesOfBusy ==
    ASSUME Inv, NEW s \in Slaves, replies[s] # nothing
    PROVE  Share(s) = "busy" /\ s \in DOMAIN busy /\ Len(replies[s]) = 1
<1>1. Place(phase, epoch, Share(s), order[busy[s]], pc[s], job[s], tosend[s], replies[s])
  BY InvParts DEF PlaceOf
<1>2. Share(s) = "busy" /\ Len(replies[s]) = 1
  BY <1>1, PlaceRecv
<1> QED BY <1>2, BusyFacts

(* A step of pmap_master() is nothing to the slaves it does not write to. *)
LEMMA OtherSlave ==
    ASSUME Inv, NEW s \in Slaves, UNCHANGED <<phase, epoch, outweights, order>>,
           UNCHANGED Local(s), Share(s)' = Share(s), s \in DOMAIN busy => busy'[s] = busy[s]
    PROVE  PlaceOf(s)' /\ Answer(s)' /\ WeightsOf(s)'
<1>1. PlaceOf(s) /\ Answer(s) /\ WeightsOf(s)
  BY InvParts
<1>2. WeightsOf(s)'
  BY <1>1 DEF WeightsOf, Local
<1>3. CASE s \in DOMAIN busy
  BY <1>1, <1>2, <1>3 DEF PlaceOf, Answer, Good, Local
<1>4. CASE s \notin DOMAIN busy
  <2>1. Share(s) # "busy" /\ replies[s] = nothing
    BY <1>4, BusyFacts, RepliesOfBusy
  <2>2. Place(phase, epoch, Share(s), order[busy'[s]], pc[s], job[s], tosend[s], replies[s])
    BY <1>1, <2>1, PlaceOther DEF PlaceOf
  <2>3. PlaceOf(s)'
    BY <2>2 DEF PlaceOf, Local
  <2>4. Answer(s)'
    BY <2>1 DEF Answer, Local
  <2> QED BY <1>2, <2>3, <2>4
<1> QED BY <1>3, <1>4

LEMMA SendDieInv ==
    ASSUME Inv, NEW s \in idle, at = "pmap", next > Len(order), idle' = idle \ {s},
           tosend' = [tosend EXCEPT ![s] = Append(@, Die)],
           UNCHANGED <<next, busy, order, output, flushed, yielded, master, pc, job, learned,
                       decoder_errors, failures, replies, updates, gathered, broadcast, file>>
    PROVE  Inv'
<1>1. TypeOK /\ SlaveType /\ Messages /\ MasterType /\ Pmap /\ Turns /\ Shared /\ Results /\ Counts
  BY InvParts
<1>2. s \in Slaves
  BY <1>1 DEF MasterType
<1>3. Share(s) = "idle" /\ Share(s)' = "told" /\ \A t \in Slaves \ {s} : Share(t)' = Share(t)
  BY <1>1 DEF Share, MasterType
<1>4. next = Len(order) + 1
  <2>1. order \in Seq(Nat) /\ next \in 1..Len(order) + 1
    BY <1>1 DEF Pmap
  <2> QED BY <2>1
<1>5. MasterType' /\ Pmap' /\ Shared' /\ Results'
  BY <1>1 DEF MasterType, Pmap, Shared, InHeap, Results, Good, master
<1>6. Turns'
  BY <1>1, <1>3, <1>4 DEF Turns, master
<1>7. tosend'[s] = Append(tosend[s], Die) /\ \A t \in Slaves \ {s} : tosend'[t] = tosend[t]
  BY <1>1, <1>2 DEF Messages
<1>8. Messages'
  <2>1. Append(tosend[s], Die) \in Seq(Nat)
    BY <1>1, <1>2, AppendProperties DEF Messages, Die
  <2> QED BY <1>1, <2>1 DEF Messages, learned
<1>9. SlaveType'
  BY <1>1 DEF SlaveType, learned
<1>10. \A t \in Slaves \ {s} : PlaceOf(t)' /\ Answer(t)' /\ WeightsOf(t)'
  BY <1>3, <1>7, OtherSlave DEF Local, learned, master
<1>11. PlaceOf(s)' /\ Answer(s)' /\ WeightsOf(s)'
  <2>1. PlaceOf(s) /\ WeightsOf(s) /\ replies[s] = nothing
    BY <1>2, <1>3, InvParts, RepliesOfBusy
  <2>2. Place(phase, epoch, "idle", order[busy[s]], pc[s], job[s], tosend[s], replies[s])
    BY <1>3, <2>1 DEF PlaceOf
  <2>3. Place(phase, epoch, "told", order[busy[s]], pc[s], job[s], Append(tosend[s], Die), replies[s])
    BY <2>2, PlaceSend
  <2>4. PlaceOf(s)'
    BY <1>3, <1>7, <2>3 DEF PlaceOf, master
  <2>5. WeightsOf(s)' /\ Answer(s)'
    BY <2>1 DEF WeightsOf, Answer, master, learned
  <2> QED BY <2>4, <2>5
<1>12. Averaged' /\ Counts'
  <2>1. Sent' = Sent
    BY DEF Sent, master
  <2> QED BY <1>1, <2>1 DEF Inv, Averaged, Counts, master, learned
<1>13. FileType'
  BY TypeIs DEF Inv, FileType, file
<1>14. SlaveInv'
  BY <1>10, <1>11 DEF SlaveInv
<1> QED BY <1>5, <1>6, <1>8, <1>9, <1>12, <1>13, <1>14, TypeIsNext DEF Inv, MasterInv

LEMMA SendInputInv ==
    ASSUME Inv, NEW s \in idle, at = "pmap", next <= Len(order), idle' = idle \ {s},
           tosend' = [tosend EXCEPT ![s] = Append(@, order[next])],
           next' = next + 1,
           busy' = [t \in DOMAIN busy \cup {s} |-> IF t = s THEN next ELSE busy[t]],
           UNCHANGED <<order, output, flushed, yielded, master, pc, job, learned,
                       decoder_errors, failures, replies, updates, gathered, broadcast, file>>
    PROVE  Inv'
<1>1. TypeOK /\ SlaveType /\ Messages /\ MasterType /\ Pmap /\ Turns /\ Shared /\ Results /\ Counts
  BY InvParts
<1>2. s \in Slaves /\ s \notin DOMAIN busy
  BY <1>1 DEF MasterType
<1>3. /\ DOMAIN busy' = {s} \cup DOMAIN busy /\ busy'[s] = next
      /\ \A t \in DOMAIN busy : busy'[t] = busy[t]
  BY <1>2
<1>4. Share(s) = "idle" /\ Share(s)' = "busy" /\ \A t \in Slaves \ {s} : Share(t)' = Share(t)
  BY <1>1, <1>3 DEF Share, MasterType
<1>5. /\ order \in Seq(Nat) /\ next \in Nat /\ next >= 1 /\ Len(order) \in Nat
      /\ flushed \in Nat /\ flushed < next /\ next + 1 \in 1..Len(order) + 1
      /\ order[next] \in Nat
  <2>1. order \in Seq(Nat) /\ next \in 1..Len(order) + 1 /\ flushed \in Nat /\ flushed < next
    BY <1>1 DEF Pmap, MasterType
  <2>2. Len(order) \in Nat
    BY <2>1
  <2>3. next \in 1..Len(order)
    BY <2>1, <2>2
  <2> QED BY <2>1, <2>2, <2>3
<1>6. \A t \in DOMAIN busy : busy[t] \in flushed + 1..next - 1
  BY <1>1 DEF Pmap
<1>7. Pmap'
  <2>1. \A t \in DOMAIN busy' : busy'[t] \in flushed + 1..next' - 1
    BY <1>3, <1>5, <1>6
  <2>2. /\ order' \in Seq(Nat) /\ \A i \in DOMAIN order' : order'[i] # Die
        /\ Len(order') = (IF phase' = "train" THEN Train ELSE Heldout) /\ IsFiniteSet(output')
    BY <1>1 DEF Pmap, master
  <2>3. next' \in 1..Len(order) + 1 /\ flushed' < next'
    BY <1>5
  <2> QED BY <2>1, <2>2, <2>3 DEF Pmap
<1>8. MasterType'
  <2>1. idle' \cup DOMAIN busy' \subseteq Slaves /\ idle' \cap DOMAIN busy' = {}
    BY <1>1, <1>2, <1>3 DEF MasterType
  <2>2. next' \in Nat
    BY <1>5
  <2> QED BY <1>1, <2>1, <2>2 DEF MasterType, master
<1>9. Shared'
  <2>1. \A e \in output : e[1] \in flushed + 2..next - 1
    BY <1>1 DEF Shared
  <2>2. \A e \in output' : e[1] \in flushed' + 2..next' - 1
    BY <1>5, <2>1
  <2>3. \A t \in DOMAIN busy' : ~\E e \in output : e[1] = busy'[t]
    <3>1. \A t \in DOMAIN busy : ~\E e \in output : e[1] = busy[t]
      BY <1>1 DEF Shared, InHeap
    <3>2. ~\E e \in output : e[1] = next
      BY <1>5, <2>1
    <3> QED BY <1>3, <3>1, <3>2
  <2>4. \A t, r \in DOMAIN busy' : busy'[t] = busy'[r] => t = r
    <3>1. \A t, r \in DOMAIN busy : busy[t] = busy[r] => t = r
      BY <1>1 DEF Shared
    <3>2. \A t \in DOMAIN busy : busy[t] # next
      BY <1>5, <1>6
    <3> QED BY <1>3, <3>1, <3>2
  <2>5. ASSUME NEW i \in flushed + 1..next PROVE InHeap(i) \/ \E t \in DOMAIN busy' : busy'[t] = i
    <3>1. CASE i = next
      BY <1>3, <3>1
    <3>2. CASE i # next
      <4>1. i \in flushed + 1..next - 1
        BY <1>5, <3>2
      <4>2. InHeap(i) \/ \E t \in DOMAIN busy : busy[t] = i
        BY <1>1, <4>1 DEF Shared
      <4> QED BY <1>3, <4>2
    <3> QED BY <3>1, <3>2
  <2>6. next' - 1 = next
    BY <1>5
  <2> QED BY <2>2, <2>3, <2>4, <2>5, <2>6 DEF Shared, InHeap
<1>10. Results'
  BY <1>1 DEF Results, Good, master
<1>11. Turns'
  <2>1. \A t \in Slaves : Share(t)' = "told" => Share(t) = "told"
    BY <1>4
  <2>2. \A t \in Slaves : Share(t) # "told"
    BY <1>1, <1>5 DEF Turns
  <2> QED BY <1>1, <2>1, <2>2 DEF Turns, master
<1>12. tosend'[s] = Append(tosend[s], order[next]) /\ \A t \in Slaves \ {s} : tosend'[t] = tosend[t]
  BY <1>1, <1>2 DEF Messages
<1>13. Messages'
  <2>1. Append(tosend[s], order[next]) \in Seq(Nat)
    BY <1>1, <1>2, <1>5, AppendProperties DEF Messages
  <2> QED BY <1>1, <2>1 DEF Messages, learned
<1>14. SlaveType'
  BY <1>1 DEF SlaveType, learned
<1>15. \A t \in Slaves \ {s} : PlaceOf(t)' /\ Answer(t)' /\ WeightsOf(t)'
  BY <1>3, <1>4, <1>12, OtherSlave DEF Local, learned, master
<1>16. PlaceOf(s)' /\ Answer(s)' /\ WeightsOf(s)'
  <2>1. PlaceOf(s) /\ WeightsOf(s) /\ replies[s] = nothing
    BY <1>2, <1>4, InvParts, RepliesOfBusy
  <2>2. Place(phase, epoch, "idle", order[busy[s]], pc[s], job[s], tosend[s], replies[s])
    BY <1>4, <2>1 DEF PlaceOf
  <2>3. Place(phase, epoch, "busy", order[next], pc[s], job[s], Append(tosend[s], order[next]), replies[s])
    BY <2>2, PlaceSend
  <2>4. PlaceOf(s)'
    BY <1>3, <1>4, <1>12, <2>3 DEF PlaceOf, master
  <2>5. WeightsOf(s)' /\ Answer(s)'
    BY <2>1 DEF WeightsOf, Answer, master, learned
  <2> QED BY <2>4, <2>5
<1>17. Counts'
  <2>1. Sent \in Nat /\ Sent <= Sent' /\ (phase = "train" => Sent < Sent') /\ Sent' \in Nat
    <3>1. PICK a \in Nat : a = Train * (epoch - 1)
      BY SentFacts
    <3>2. Sent = a + IF phase = "train" THEN next - 1 ELSE Train
      BY <3>1 DEF Sent
    <3>3. Sent' = a + IF phase = "train" THEN next ELSE Train
      <4>1. phase' = phase /\ epoch' = epoch /\ next' - 1 = next
        BY <1>5 DEF master
      <4> QED BY <3>1, <4>1 DEF Sent
    <3>4. CASE phase = "train"
      BY <1>5, <3>2, <3>3, <3>4
    <3>5. CASE phase # "train"
      BY <3>2, <3>3, <3>5, ConstantFacts
    <3> QED BY <3>4, <3>5
  <2>2. \A t \in Slaves : nweights[t] \in Nat /\ nweights[t] <= Sent
    BY <1>1 DEF Counts, SlaveType
  <2>3. \A t \in Slaves : nweights[t] <= Sent' /\ (phase = "train" => nweights[t] < Sent')
    BY <2>1, <2>2
  <2>4. \A t \in Slaves : \A u \in updates[t] : u.n < nweights[u.from]
    BY <1>1 DEF Counts
  <2> QED BY <2>3, <2>4 DEF Counts, master, learned
<1>18. Averaged'
  BY DEF Inv, Averaged, master, learned
<1>19. FileType'
  BY TypeIs DEF Inv, FileType, file
<1>20. SlaveInv'
  BY <1>15, <1>16 DEF SlaveInv
<1> QED BY <1>7, <1>8, <1>9, <1>10, <1>11, <1>13, <1>14, <1>17, <1>18, <1>19, <1>20, TypeIsNext
        DEF Inv, MasterInv

LEMMA SendInv == ASSUME Inv, NEW s \in Slaves, Send(s) PROVE Inv'
BY SendDieInv, SendInputInv DEF Send

LEMMA RecvInv == ASSUME Inv, NEW s \in Slaves, Recv(s) PROVE Inv'
<1> DEFINE new == <<busy[s], Head(replies[s])>>
           heap == output \cup {new}
<1>1. TypeOK /\ SlaveType /\ Messages /\ MasterType /\ Pmap /\ Turns /\ Shared /\ Results /\ Counts
  BY InvParts
<1>2. /\ at = "pmap" /\ idle = {} /\ idle' = {s} /\ Flush(heap)
      /\ busy' = Restrict(busy, DOMAIN busy \ {s})
      /\ replies' = [replies EXCEPT ![s] = Tail(@)]
      /\ UNCHANGED <<order, next, master, pc, job, learned, decoder_errors, failures,
                     tosend, updates, gathered, broadcast, file>>
  BY DEF Recv
<1>3. /\ Share(s) = "busy" /\ s \in DOMAIN busy /\ Len(replies[s]) = 1 /\ replies[s] # <<>>
      /\ replies[s] \in Seq(Result)
  BY <1>1, RepliesOfBusy DEF Recv, nothing, Messages
<1>4. Head(replies[s]) = replies[s][1] /\ Head(replies[s]) \in Result /\ Tail(replies[s]) = nothing
  <2>1. Head(replies[s]) = replies[s][1] /\ Head(replies[s]) \in Result
    BY <1>3
  <2>2. Tail(replies[s]) \in Seq(Result) /\ Len(Tail(replies[s])) = 0
    BY <1>3, HeadTailProperties
  <2> QED BY <2>1, <2>2, EmptySeq DEF nothing
<1>5. /\ DOMAIN busy' = DOMAIN busy \ {s} /\ \A t \in DOMAIN busy' : busy'[t] = busy[t]
  BY <1>2 DEF Restrict
<1>6. Share(s)' = "idle" /\ \A t \in Slaves \ {s} : Share(t)' = Share(t)
  BY <1>2, <1>5 DEF Share
<1>7. /\ flushed \in Nat /\ next \in Nat /\ flushed < next /\ order \in Seq(Nat)
      /\ \A t \in DOMAIN busy : busy[t] \in flushed + 1..next - 1
      /\ busy[s] \in Nat /\ output \subseteq Nat \X Result /\ IsFiniteSet(output)
      /\ yielded \in Seq(Result) /\ next \in 1..Len(order) + 1
  <2>1. /\ flushed \in Nat /\ next \in Nat /\ output \subseteq Nat \X Result
        /\ yielded \in Seq(Result)
    BY <1>1 DEF MasterType
  <2>2. /\ flushed < next /\ next \in 1..Len(order) + 1 /\ order \in Seq(Nat) /\ IsFiniteSet(output)
        /\ \A t \in DOMAIN busy : busy[t] \in flushed + 1..next - 1
    BY <1>1 DEF Pmap
  <2>3. busy[s] \in Nat
    <3>1. busy[s] \in flushed + 1..next - 1
      BY <1>3, <2>2
    <3> QED BY <2>1, <3>1
  <2> QED BY <2>1, <2>2, <2>3
<1>8. Good(Head(replies[s]), order[busy[s]])
  BY <1>3, <1>4, InvParts DEF Answer, nothing
<1>9. new[1] = busy[s] /\ new[2] = Head(replies[s]) /\ new \in Nat \X Result
  BY <1>4, <1>7
<1> HIDE DEF new
<1>10. /\ IsFiniteSet(heap) /\ heap \subseteq Nat \X Result
       /\ \A e \in heap : Good(e[2], order[e[1]]) /\ e[1] \in flushed + 1..next - 1
  <2>1. IsFiniteSet(heap)
    BY <1>7, FS_AddElement
  <2>2. \A e \in output : Good(e[2], order[e[1]])
    BY <1>1 DEF Results
  <2>3. \A e \in output : e[1] \in flushed + 1..next - 1
    <3>1. \A e \in output : e[1] \in flushed + 2..next - 1
      BY <1>1 DEF Shared
    <3> QED BY <1>7, <3>1
  <2>4. Good(new[2], order[new[1]]) /\ new[1] \in flushed + 1..next - 1
    BY <1>3, <1>7, <1>8, <1>9
  <2> QED BY <1>7, <1>9, <2>1, <2>2, <2>3, <2>4
<1>11. PICK last \in Nat :
         /\ flushed' = last /\ flushed <= last
         /\ \A i \in flushed + 1..last : \E e \in heap : e[1] = i
         /\ ~\E e \in heap : e[1] = last + 1
         /\ output' = {e \in heap : e[1] > last}
         /\ yielded' = yielded \o [k \in 1..last - flushed |-> Entry(heap, flushed + k)[2]]
  BY <1>2, <1>7, <1>10, FlushFacts
<1>12. \A i : (\E e \in heap : e[1] = i) <=> InHeap(i) \/ i = busy[s]
  BY <1>9 DEF InHeap
<1> HIDE DEF heap
<1>13. last < next
  <2>1. CASE last = flushed
    BY <1>7, <2>1
  <2>2. CASE last # flushed
    <3>1. last \in flushed + 1..last
      BY <1>7, <1>11, <2>2
    <3>2. PICK e \in heap : e[1] = last
      BY <1>11, <3>1
    <3> QED BY <1>7, <1>10, <3>2
  <2> QED BY <2>1, <2>2
<1>14. \A t \in DOMAIN busy' : t # s /\ t \in DOMAIN busy /\ busy'[t] = busy[t]
  BY <1>5
<1>15. \A t \in DOMAIN busy' : ~\E e \in heap : e[1] = busy[t]
  <2>1. \A t \in DOMAIN busy : ~InHeap(busy[t])
    BY <1>1 DEF Shared
  <2>2. \A t \in DOMAIN busy' : busy[t] # busy[s]
    BY <1>1, <1>3, <1>14 DEF Shared
  <2> QED BY <1>12, <1>14, <2>1, <2>2
<1>16. \A t \in DOMAIN busy' : busy'[t] \in last + 1..next - 1
  <2> SUFFICES ASSUME NEW t \in DOMAIN busy' PROVE busy'[t] \in last + 1..next - 1
    OBVIOUS
  <2>1. busy[t] \in flushed + 1..next - 1 /\ busy'[t] = busy[t]
    BY <1>7, <1>14
  <2>2. busy[t] \notin flushed + 1..last
    BY <1>11, <1>15
  <2> QED BY <1>7, <1>11, <2>1, <2>2
<1>17. Pmap'
  <2>1. IsFiniteSet(output')
    BY <1>10, <1>11, FS_Subset
  <2>2. \A t \in DOMAIN busy' : busy'[t] \in flushed' + 1..next' - 1
    BY <1>2, <1>11, <1>16
  <2>3. flushed' < next'
    BY <1>2, <1>11, <1>13
  <2>4. /\ order' \in Seq(Nat) /\ \A i \in DOMAIN order' : order'[i] # Die
        /\ Len(order') = (IF phase' = "train" THEN Train ELSE Heldout)
        /\ next' \in 1..Len(order') + 1
    BY <1>1, <1>2 DEF Pmap, master
  <2> QED BY <2>1, <2>2, <2>3, <2>4 DEF Pmap
<1>18. Shared'
  <2>1. \A e \in output' : e[1] \in last + 2..next - 1
    <3> SUFFICES ASSUME NEW e \in output' PROVE e[1] \in last + 2..next - 1
      OBVIOUS
    <3>1. e \in heap /\ e[1] > last /\ e[1] # last + 1 /\ e[1] \in flushed + 1..next - 1
      BY <1>10, <1>11
    <3> QED BY <1>7, <1>11, <3>1
  <2>2. \A t \in DOMAIN busy' : ~\E e \in output' : e[1] = busy'[t]
    BY <1>11, <1>14, <1>15
  <2>3. \A t, r \in DOMAIN busy' : busy'[t] = busy'[r] => t = r
    BY <1>1, <1>14 DEF Shared
  <2>4. ASSUME NEW i \in last + 1..next - 1
        PROVE  (\E e \in output' : e[1] = i) \/ \E t \in DOMAIN busy' : busy'[t] = i
    <3>1. i \in flushed + 1..next - 1 /\ i > last
      BY <1>7, <1>11
    <3>2. InHeap(i) \/ \E t \in DOMAIN busy : busy[t] = i
      BY <1>1, <3>1 DEF Shared
    <3>3. (\E e \in heap : e[1] = i) \/ \E t \in DOMAIN busy' : busy'[t] = i
      BY <1>5, <1>12, <3>2
    <3> QED BY <1>11, <3>1, <3>3
  <2> QED BY <1>2, <1>11, <2>1, <2>2, <2>3, <2>4 DEF Shared, InHeap
<1> DEFINE more == [k \in 1..last - flushed |-> Entry(heap, flushed + k)[2]]
<1>19. \A k \in 1..last - flushed :
         Entry(heap, flushed + k) \in heap /\ Entry(heap, flushed + k)[1] = flushed + k
  <2> SUFFICES ASSUME NEW k \in 1..last - flushed
               PROVE  Entry(heap, flushed + k) \in heap /\ Entry(heap, flushed + k)[1] = flushed + k
    OBVIOUS
  <2>1. flushed + k \in flushed + 1..last
    BY <1>7, <1>11
  <2>2. \E e \in heap : e[1] = flushed + k
    BY <1>11, <2>1
  <2> QED BY <2>2 DEF Entry
<1>20. /\ \A k \in 1..last - flushed : more[k] \in Result /\ Good(more[k], order[flushed + k])
       /\ last - flushed \in Nat
  <2>1. last - flushed \in Nat
    BY <1>7, <1>11
  <2> QED BY <1>10, <1>19, <2>1
<1>21. more \in Seq(Result) /\ Len(more) = last - flushed
  <2>1. more \in [1..last - flushed -> Result]
    BY <1>20
  <2> HIDE DEF more
  <2> QED BY <1>20, <2>1
<1>22. /\ yielded' = yielded \o more /\ yielded' \in Seq(Result) /\ Len(yielded) = flushed
       /\ Len(yielded') = last
       /\ \A i \in 1..last : yielded'[i] = IF i <= flushed THEN yielded[i] ELSE more[i - flushed]
  <2>1. yielded' = yielded \o more /\ Len(yielded) = flushed
    BY <1>1, <1>11 DEF Results
  <2> HIDE DEF more
  <2>2. /\ yielded' \in Seq(Result) /\ Len(yielded') = flushed + (last - flushed)
        /\ \A i \in 1..flushed + (last - flushed) :
             yielded'[i] = IF i <= flushed THEN yielded[i] ELSE more[i - flushed]
    <3>1. /\ yielded \o more \in Seq(Result) /\ Len(yielded \o more) = Len(yielded) + Len(more)
          /\ \A i \in 1..Len(yielded) + Len(more) :
               (yielded \o more)[i] = IF i <= Len(yielded) THEN yielded[i] ELSE more[i - Len(yielded)]
      BY <1>7, <1>21, ConcatProperties
    <3> QED BY <1>21, <2>1, <3>1
  <2>3. flushed + (last - flushed) = last
    BY <1>7, <1>11
  <2> QED BY <2>1, <2>2, <2>3
<1> HIDE DEF more
<1>23. \A i \in 1..last : Good(yielded'[i], order[i])
  <2> SUFFICES ASSUME NEW i \in 1..last PROVE Good(yielded'[i], order[i])
    OBVIOUS
  <2>1. CASE i <= flushed
    <3>1. i \in 1..flushed /\ DOMAIN yielded = 1..flushed
      BY <1>7, <1>22, <2>1
    <3> QED BY <1>1, <1>22, <2>1, <3>1 DEF Results
  <2>2. CASE ~(i <= flushed)
    <3>1. i - flushed \in 1..last - flushed /\ flushed + (i - flushed) = i
      BY <1>7, <2>2
    <3>2. Good(more[i - flushed], order[i])
      BY <1>20, <3>1
    <3> QED BY <1>22, <2>2, <3>2
  <2> QED BY <2>1, <2>2
<1>24. Results'
  <2>1. \A e \in output' : Good(e[2], order[e[1]])
    BY <1>10, <1>11
  <2>2. DOMAIN yielded' = 1..last
    BY <1>22
  <2> QED BY <1>2, <1>11, <1>22, <1>23, <2>1, <2>2 DEF Results, Good, master
<1>25. MasterType'
  <2>1. idle' \cup DOMAIN busy' \subseteq Slaves /\ idle' \cap DOMAIN busy' = {}
    BY <1>1, <1>2, <1>5 DEF MasterType
  <2>2. output' \subseteq Nat \X Result
    BY <1>10, <1>11
  <2> QED BY <1>1, <1>2, <1>11, <1>22, <2>1, <2>2 DEF MasterType, master
<1>26. Turns'
  BY <1>1, <1>2, <1>6 DEF Turns, master
<1>27. replies'[s] = nothing /\ \A t \in Slaves \ {s} : replies'[t] = replies[t]
  BY <1>1, <1>2, <1>4 DEF Messages
<1>28. Messages'
  <2>1. Tail(replies[s]) \in Seq(Result)
    BY <1>3, HeadTailProperties
  <2> QED BY <1>1, <1>2, <2>1 DEF Messages, learned
<1>29. SlaveType'
  BY <1>1, <1>2 DEF SlaveType, learned
<1>30. \A t \in Slaves \ {s} : PlaceOf(t)' /\ Answer(t)' /\ WeightsOf(t)'
  <2> SUFFICES ASSUME NEW t \in Slaves \ {s} PROVE PlaceOf(t)' /\ Answer(t)' /\ WeightsOf(t)'
    OBVIOUS
  <2>1. UNCHANGED Local(t) /\ UNCHANGED <<phase, epoch, outweights, order>>
    BY <1>2, <1>27 DEF Local, learned, master
  <2>2. t \in DOMAIN busy => busy'[t] = busy[t]
    BY <1>5
  <2> QED BY <1>6, <2>1, <2>2, OtherSlave
<1>31. PlaceOf(s)' /\ Answer(s)' /\ WeightsOf(s)'
  <2>1. PlaceOf(s) /\ WeightsOf(s)
    BY InvParts
  <2>2. Place(phase, epoch, "idle", order[busy'[s]], pc[s], job[s], tosend[s], nothing)
    BY <1>3, <2>1, PlaceRecv DEF PlaceOf, nothing
  <2>3. PlaceOf(s)'
    BY <1>2, <1>6, <1>27, <2>2 DEF PlaceOf, master
  <2>4. WeightsOf(s)' /\ Answer(s)'
    BY <1>2, <1>27, <2>1 DEF WeightsOf, Answer, master, learned
  <2> QED BY <2>3, <2>4
<1>32. Counts'
  <2>1. Sent' = Sent
    BY <1>2 DEF Sent, master
  <2>2. \A t \in Slaves : t \in DOMAIN busy' /\ replies'[t] = nothing => t \in DOMAIN busy /\ replies[t] = nothing
    BY <1>14, <1>27
  <2> QED BY <1>1, <1>2, <2>1, <2>2 DEF Counts, master, learned
<1>33. Averaged' /\ FileType'
  BY <1>2, TypeIs DEF Inv, Averaged, FileType, file, master, learned
<1>34. SlaveInv'
  BY <1>30, <1>31 DEF SlaveInv
<1> QED BY <1>17, <1>18, <1>24, <1>25, <1>26, <1>28, <1>29, <1>32, <1>33, <1>34, TypeIsNext
        DEF Inv, MasterInv

LEMMA TrainedInv == ASSUME Inv, Trained PROVE Inv'
<1>1. TypeOK /\ SlaveType /\ Messages /\ MasterType /\ Pmap /\ Turns /\ Shared /\ Results /\ Counts
  BY InvParts
<1>2. /\ idle = {} /\ DOMAIN busy = {} /\ phase = "train" /\ at' = "gather"
      /\ UNCHANGED <<phase, epoch, outweights, pmap, pc, job, learned, decoder_errors, failures,
                     messages, file>>
  BY DEF Trained, Mapped, nothing
<1>3. \A s \in Slaves : Share(s)' = Share(s) /\ Share(s) = "told"
  BY <1>2 DEF Share, pmap
<1>4. Turns'
  BY <1>1, <1>2, <1>3 DEF Turns, pmap
<1>5. MasterType' /\ Pmap' /\ Shared' /\ Results'
  BY <1>1, <1>2 DEF MasterType, Pmap, Shared, InHeap, Results, Good, pmap
<1>6. SlaveType' /\ Messages'
  BY <1>1, <1>2 DEF SlaveType, Messages, learned, messages
<1>7. SlaveInv'
  <2>1. \A s \in Slaves : UNCHANGED Local(s) /\ UNCHANGED <<phase, epoch, outweights, order, busy>>
    BY <1>2 DEF Local, learned, messages, pmap
  <2> QED BY <1>3, <2>1, OtherSlave DEF SlaveInv
<1>8. Counts'
  BY <1>1, <1>2 DEF Counts, Sent, learned, messages, pmap
<1>9. Averaged' /\ FileType'
  BY <1>2, TypeIs DEF Inv, Averaged, FileType, file, learned
<1> QED BY <1>4, <1>5, <1>6, <1>7, <1>8, <1>9, TypeIsNext DEF Inv, MasterInv

(* pmap_master() at its beginning. *)
Inputs == IF phase = "train" THEN Train ELSE Heldout

Started ==
    /\ at = "pmap" /\ phase \in Phases /\ order \in [1..Inputs -> 1..Inputs]
    /\ next = 1 /\ idle = Slaves /\ busy = nothing
    /\ output = {} /\ flushed = 0 /\ yielded = nothing

Beginning ==
    /\ MasterInv
    /\ \A s \in Slaves : Share(s) = "idle"
    /\ DOMAIN busy = {} /\ yielded \in Seq(Result)

LEMMA StartedFacts == Started => Beginning
<1> SUFFICES ASSUME Started PROVE Beginning
  OBVIOUS
<1>1. Inputs \in Nat
  BY ConstantFacts DEF Inputs
<1>2. DOMAIN busy = {} /\ yielded \in Seq(Result) /\ Len(yielded) = 0
  BY DEF Started, nothing
<1>3. \A s \in Slaves : Share(s) = "idle"
  BY DEF Started, Share
<1>4. order \in Seq(Nat) /\ Len(order) = Inputs /\ DOMAIN order = 1..Inputs
  <2>1. order \in [1..Inputs -> Nat]
    BY <1>1 DEF Started
  <2> QED BY <1>1, <2>1
<1>5. Pmap
  <2>1. \A i \in DOMAIN order : order[i] # Die
    BY <1>1, <1>4 DEF Started, Die
  <2>2. next \in 1..Len(order) + 1 /\ flushed < next /\ IsFiniteSet(output)
    BY <1>1, <1>4, FS_EmptySet DEF Started
  <2> QED BY <1>2, <1>4, <2>1, <2>2 DEF Pmap, Inputs
<1>6. Turns
  BY <1>3 DEF Turns, Started
<1>7. Shared
  BY <1>2 DEF Shared, Started
<1>8. Results
  BY <1>2 DEF Results, Started
<1> QED BY <1>2, <1>3, <1>5, <1>6, <1>7, <1>8 DEF Beginning, MasterInv

LEMMA StartedNext == Started' => Beginning'
BY StartedFacts, PTL

LEMMA AverageInv == ASSUME Inv, Average PROVE Inv'
<1>1. TypeOK /\ SlaveType /\ Messages /\ MasterType /\ Pmap /\ Turns /\ Counts
  BY InvParts
<1>2. /\ at = "gather" /\ \A s \in Slaves : gathered[s] # nothing
      /\ gathered' = [s \in Slaves |-> nothing] /\ broadcast' = [s \in Slaves |-> outweights']
      /\ at' = "pmap" /\ phase' = "heldout" /\ StartPmap(InOrder(Heldout))
      /\ UNCHANGED <<epoch, pc, job, learned, decoder_errors, failures, tosend, replies, updates, file>>
  BY DEF Average
<1>3. phase = "train" /\ \A s \in Slaves : Share(s) = "told"
  BY <1>1, <1>2 DEF Turns
<1>4. Started'
  <2>1. InOrder(Heldout) \in [1..Heldout -> 1..Heldout]
    BY DEF InOrder
  <2> QED BY <1>2, <2>1 DEF Started, StartPmap, Inputs, Phases
<1>5. Beginning'
  BY <1>4, StartedNext
<1>6. \A s \in Slaves :
        /\ pc[s] = "bcast" /\ job[s].phase = "train" /\ job[s].epoch = epoch
        /\ gathered[s] = <<trained[s].sum, nweights[s]>>
        /\ Weights("heldout", epoch, pc[s], job[s], weights[s], saveweights[s], sumweights_helper[s],
                   nweights[s], trained[s], nothing, outweights', outweights')
  <2> SUFFICES ASSUME NEW s \in Slaves
               PROVE  /\ pc[s] = "bcast" /\ job[s].phase = "train" /\ job[s].epoch = epoch
                      /\ gathered[s] = <<trained[s].sum, nweights[s]>>
                      /\ Weights("heldout", epoch, pc[s], job[s], weights[s], saveweights[s],
                                 sumweights_helper[s], nweights[s], trained[s], nothing,
                                 outweights', outweights')
    OBVIOUS
  <2>1. Weights("train", epoch, pc[s], job[s], weights[s], saveweights[s], sumweights_helper[s],
                nweights[s], trained[s], gathered[s], broadcast[s], outweights)
    BY <1>3, InvParts DEF WeightsOf
  <2> QED BY <1>2, <2>1, WeightsAverage
<1>7. /\ [s \in Slaves |-> gathered[s][1]] = [s \in Slaves |-> trained[s].sum]
      /\ [s \in Slaves |-> gathered[s][2]] = nweights
  <2>1. \A s \in Slaves : gathered[s][1] = trained[s].sum /\ gathered[s][2] = nweights[s]
    BY <1>6
  <2> QED BY <1>1, <2>1 DEF SlaveType
<1>8. outweights' = <<SumOver([s \in Slaves |-> trained[s].sum]), SumOver(nweights)>>
  BY <1>7 DEF Average
<1>9. outweights' \in Int \X Nat
  <2>1. [s \in Slaves |-> trained[s].sum] \in [Slaves -> Int] /\ nweights \in [Slaves -> Nat]
    BY <1>1 DEF SlaveType, Messages
  <2>2. SumOver([s \in Slaves |-> trained[s].sum]) \in Int
    BY <2>1, SumType, ConstantFacts
  <2>3. SumOver(nweights) \in Nat
    <3>1. Nat \in SUBSET Int /\ 0 \in Nat /\ \A a, b \in Nat : a + b \in Nat
      OBVIOUS
    <3>2. IsFiniteSet(Slaves)
      BY ConstantFacts
    <3> HIDE DEF SumOver
    <3> QED BY <2>1, <3>1, <3>2, SumType
  <2> QED BY <1>8, <2>2, <2>3
<1>10. MasterType'
  BY <1>1, <1>2, <1>4, <1>5, <1>9 DEF MasterType, Started, Beginning, Phases
<1>11. SlaveType'
  BY <1>1, <1>2 DEF SlaveType, learned
<1>12. Messages'
  BY <1>1, <1>2, <1>9 DEF Messages, learned
<1>13. Averaged'
  BY <1>2, <1>8 DEF Averaged, learned
<1>14. SlaveInv'
  <2> SUFFICES ASSUME NEW s \in Slaves PROVE PlaceOf(s)' /\ Answer(s)' /\ WeightsOf(s)'
    BY DEF SlaveInv
  <2>1. WeightsOf(s)'
    BY <1>2, <1>6 DEF WeightsOf, learned
  <2>2. Place("train", epoch, "told", order[busy[s]], "bcast", job[s], tosend[s], replies[s])
    BY <1>3, <1>6, InvParts DEF PlaceOf
  <2>3. epoch \in Nat
    BY <1>1, ConstantFacts DEF MasterType
  <2>4. Place("heldout", epoch, "idle", order'[busy'[s]], "bcast", job[s], tosend[s], replies[s])
    BY <1>6, <2>2, <2>3, PlaceAverage
  <2>5. PlaceOf(s)'
    BY <1>2, <1>5, <1>6, <2>4 DEF PlaceOf, Beginning
  <2>6. Answer(s)'
    BY <1>2, <1>3, RepliesOfBusy DEF Answer
  <2> QED BY <2>1, <2>5, <2>6
<1>15. Counts'
  <2>1. Sent' = Train * (epoch - 1) + Train
    BY <1>2 DEF Sent
  <2>2. next - 1 <= Train /\ next \in Nat
    BY <1>1, <1>3, ConstantFacts DEF Pmap, MasterType
  <2>3. PICK a \in Nat : a = Train * (epoch - 1)
    BY SentFacts
  <2>4. Sent = a + (next - 1)
    BY <1>3, <2>3 DEF Sent
  <2>5. Sent \in Nat /\ Sent' \in Nat /\ Sent <= Sent'
    BY <2>1, <2>2, <2>3, <2>4, SentFacts, ConstantFacts
  <2>6. \A s \in Slaves : nweights[s] <= Sent /\ nweights[s] \in Nat
    BY <1>1 DEF Counts, SlaveType
  <2>7. \A s \in Slaves : nweights[s] <= Sent'
    BY <2>5, <2>6
  <2> QED BY <1>1, <1>2, <2>7 DEF Counts, learned
<1>16. FileType'
  BY <1>2, TypeIs DEF Inv, FileType, file
<1> QED BY <1>5, <1>10, <1>11, <1>12, <1>13, <1>14, <1>15, <1>16, TypeIsNext DEF Inv, Beginning

LEMMA NextEpochInv ==
    ASSUME Inv, Mapped, phase = "heldout", epoch < Iterations, epoch' = epoch + 1, phase' = "train",
           NEW o \in Shuffles, StartPmap(o),
           UNCHANGED <<at, outweights, pc, job, learned, decoder_errors, failures, messages, file>>
    PROVE  Inv'
<1>1. TypeOK /\ SlaveType /\ Messages /\ MasterType /\ Pmap /\ Turns /\ Counts
  BY InvParts
<1>2. /\ epoch \in Nat /\ epoch' \in 1..Iterations /\ at = "pmap"
  BY <1>1, ConstantFacts DEF MasterType, Mapped
<1>3. \A s \in Slaves : Share(s) = "told"
  BY DEF Mapped, Share, nothing
<1>4. Started'
  BY <1>2 DEF Started, StartPmap, Inputs, Phases, Shuffles
<1>5. Beginning'
  BY <1>4, StartedNext
<1>6. MasterType'
  BY <1>1, <1>2, <1>4, <1>5 DEF MasterType, Started, Beginning, Phases
<1>7. SlaveType' /\ Messages'
  BY <1>1 DEF SlaveType, Messages, learned, messages
<1>8. Averaged'
  BY DEF Averaged
<1>9. SlaveInv'
  <2> SUFFICES ASSUME NEW s \in Slaves PROVE PlaceOf(s)' /\ Answer(s)' /\ WeightsOf(s)'
    BY DEF SlaveInv
  <2>1. /\ Place("heldout", epoch, "told", order[busy[s]], pc[s], job[s], tosend[s], replies[s])
        /\ Weights("heldout", epoch, pc[s], job[s], weights[s], saveweights[s], sumweights_helper[s],
                   nweights[s], trained[s], gathered[s], broadcast[s], outweights)
    BY <1>3, InvParts DEF PlaceOf, WeightsOf
  <2>2. Place("train", epoch + 1, "idle", order'[busy'[s]], pc[s], job[s], tosend[s], replies[s])
    BY <1>2, <2>1, PlaceNextEpoch
  <2>3. PlaceOf(s)'
    BY <1>5, <2>2 DEF PlaceOf, Beginning, messages
  <2>4. job[s].epoch = epoch \/ pc[s] # "bcast"
    BY <2>1 DEF Place, With, Behind, Late, Ahead
  <2>5. Weights("train", epoch + 1, pc[s], job[s], weights[s], saveweights[s], sumweights_helper[s],
                nweights[s], trained[s], gathered[s], broadcast[s], outweights)
    BY <1>2, <2>1, <2>4, WeightsNextEpoch
  <2>6. WeightsOf(s)'
    BY <2>5 DEF WeightsOf, learned, messages
  <2>7. Answer(s)'
    BY <1>3, RepliesOfBusy DEF Answer, messages
  <2> QED BY <2>3, <2>6, <2>7
<1>10. Counts'
  <2>1. Sent = Train * (epoch - 1) + Train
    BY DEF Sent
  <2>2. Sent' = Train * ((epoch + 1) - 1) + (1 - 1)
    BY <1>4 DEF Sent, Started
  <2>3. (epoch + 1) - 1 = epoch
    BY <1>2
  <2>4. Sent' = Train * epoch + 0
    BY <2>2, <2>3
  <2>5. Sent' = Sent
    BY <2>1, <2>4, SentFacts, ConstantFacts
  <2> QED BY <1>1, <1>5, <2>5 DEF Counts, Beginning, learned, messages
<1>11. FileType'
  BY TypeIs DEF Inv, FileType, file
<1> QED BY <1>5, <1>6, <1>7, <1>8, <1>9, <1>10, <1>11, TypeIsNext DEF Inv, Beginning

LEMMA StopInv ==
    ASSUME Inv, Mapped, phase = "heldout", at' = "out",
           UNCHANGED <<phase, epoch, pmap, outweights, pc, job, learned, decoder_errors, failures,
                       messages, file>>
    PROVE  Inv'
<1>1. TypeOK /\ SlaveType /\ Messages /\ MasterType /\ Pmap /\ Turns /\ Shared /\ Results /\ Counts
  BY InvParts
<1>2. \A s \in Slaves : Share(s)' = Share(s) /\ Share(s) = "told"
  BY DEF Share, pmap, Mapped, nothing
<1>3. Turns'
  BY <1>1, <1>2 DEF Turns, pmap
<1>4. MasterType' /\ Pmap' /\ Shared' /\ Results'
  BY <1>1 DEF MasterType, Pmap, Shared, InHeap, Results, Good, pmap
<1>5. SlaveType' /\ Messages'
  BY <1>1 DEF SlaveType, Messages, learned, messages
<1>6. SlaveInv'
  <2>1. \A s \in Slaves : UNCHANGED Local(s) /\ UNCHANGED <<phase, epoch, outweights, order, busy>>
    BY DEF Local, learned, messages, pmap
  <2> QED BY <1>2, <2>1, OtherSlave DEF SlaveInv
<1>7. Counts'
  BY <1>1 DEF Counts, Sent, learned, messages, pmap
<1>8. Averaged' /\ FileType'
  BY TypeIs DEF Inv, Averaged, FileType, file, learned
<1> QED BY <1>3, <1>4, <1>5, <1>6, <1>7, <1>8, TypeIsNext DEF Inv, MasterInv

LEMMA EpochDoneInv == ASSUME Inv, EpochDone PROVE Inv'
BY NextEpochInv, StopInv DEF EpochDone, Looks
-----------------------------------------------------------------------------
(* The theorems. *)

LEMMA InitInv == Init => Inv
<1> SUFFICES ASSUME Init PROVE Inv
  OBVIOUS
<1>1. Started
  BY DEF Init, Started, Inputs, Phases, Shuffles
<1>2. Beginning
  BY <1>1, StartedFacts
<1>3. MasterType
  BY <1>1, <1>2, ConstantFacts DEF Init, MasterType, Started, Beginning, Phases
<1>4. SlaveType
  <2>1. <<InitialWeights, 1>> \in Int \X Nat
    BY ConstantFacts
  <2>2. [sent |-> Die, phase |-> "train", epoch |-> 1] \in Job
    BY ConstantFacts DEF Job, Phases, Die
  <2> QED BY <2>1, <2>2 DEF Init, SlaveType
<1>5. Messages
  <2>1. [sum |-> 0, last |-> InitialWeights] \in [sum : Int, last : Int]
    BY ConstantFacts
  <2>2. nothing \in Seq(Nat) /\ nothing \in Seq(Result)
    BY DEF nothing
  <2> QED BY <2>1, <2>2 DEF Init, Messages
<1>6. FileType
  BY DEF Init, FileType
<1>7. SlaveInv
  <2> SUFFICES ASSUME NEW s \in Slaves PROVE PlaceOf(s) /\ Answer(s) /\ WeightsOf(s)
    BY DEF SlaveInv
  <2>1. /\ pc[s] = "recv" /\ job[s].phase = "train" /\ job[s].epoch = 1 /\ phase = "train" /\ epoch = 1
        /\ tosend[s] = nothing /\ replies[s] = nothing /\ Share(s) = "idle"
    BY <1>2 DEF Init, Beginning
  <2>2. PlaceOf(s) /\ Answer(s)
    BY <2>1 DEF PlaceOf, Answer, Place, With, Due
  <2>3. /\ weights[s] = <<InitialWeights, 1>> /\ trained[s].last = InitialWeights
        /\ trained[s].sum = 0 /\ nweights[s] = 0 /\ sumweights_helper[s] = 0
        /\ gathered[s] = nothing /\ broadcast[s] = nothing
    BY DEF Init
  <2>4. 0 * InitialWeights - 0 = 0
    BY ConstantFacts
  <2>5. WeightsOf(s)
    BY <2>1, <2>3, <2>4 DEF WeightsOf, Weights
  <2> QED BY <2>2, <2>5
<1>8. Counts
  <2>1. Sent = Train * (1 - 1) + (1 - 1)
    BY DEF Sent, Init
  <2>2. Sent = 0
    BY <2>1, ConstantFacts
  <2> QED BY <1>2, <2>2 DEF Init, Counts, Beginning
<1>9. Averaged
  BY DEF Init, Averaged
<1> QED BY <1>2, <1>3, <1>4, <1>5, <1>6, <1>7, <1>8, <1>9, TypeIs DEF Inv, Beginning

LEMMA NextInv == Inv /\ [Next]_vars => Inv'
<1> SUFFICES ASSUME Inv, [Next]_vars PROVE Inv'
  OBVIOUS
<1>1. ASSUME Master PROVE Inv'
  BY <1>1, TrainedInv, AverageInv, EpochDoneInv, SendInv, RecvInv DEF Master
<1>2. ASSUME NEW s \in Slaves, Slave(s) PROVE Inv'
  BY <1>2, SlaveStepInv
<1>3. CASE Touch
  BY <1>3, TouchInv
<1>4. ASSUME UNCHANGED vars PROVE Inv'
  <2>1. UNCHANGED <<master, pmap, pc, job, learned, decoder_errors, failures, messages, file>>
    BY <1>4 DEF vars
  <2>2. MasterType' /\ MasterInv'
    BY <2>1, MasterFrame
  <2>3. SlaveInv'
    BY <2>1, SlaveFrame DEF SlaveInv, Local, learned, messages
  <2>4. SlaveType' /\ Messages'
    BY <2>1, InvParts DEF SlaveType, Messages, learned, messages
  <2>5. Counts'
    BY <2>1, CountsFrame DEF learned, messages
  <2>6. Averaged' /\ FileType'
    BY <2>1, TypeIs DEF Inv, Averaged, FileType, master, learned, file
  <2> QED BY <2>2, <2>3, <2>4, <2>5, <2>6, TypeIsNext DEF Inv
<1> QED BY <1>1, <1>2, <1>3, <1>4 DEF Next

LEMMA Invariance == Spec => []Inv
BY InitInv, NextInv, PTL DEF Spec

(* For any number of slaves, sentences, epochs and failures the variables of  *)
(* the trainer keep their types; in particular no slave is idle and busy at   *)
(* once, and a reply is received only from a slave that is busy.              *)
THEOREM TypeCorrect == Spec => []TypeOK
<1>1. Inv => TypeOK
  BY DEF Inv
<1> QED BY <1>1, Invariance, PTL

(* pmap_master() yields the results in the order of the input, one for each   *)
(* input and none of another part or epoch, in whatever order the slaves      *)
(* reply and however far one of them is behind or ahead.                      *)
THEOREM ResultsAlwaysInOrder == Spec => []ResultsInOrder
<1>1. Inv => ResultsInOrder
  <2> SUFFICES ASSUME Inv PROVE ResultsInOrder
    OBVIOUS
  <2>1. Pmap /\ Turns /\ Shared /\ Results /\ MasterType
    BY InvParts
  <2>2. ASSUME Mapped PROVE Len(yielded) = Len(order)
    <3>1. idle = {} /\ DOMAIN busy = {}
      BY <2>2 DEF Mapped, nothing
    <3>2. PICK s \in Slaves : Share(s) = "told"
      BY <3>1, ConstantFacts DEF Share
    <3>3. next = Len(order) + 1 /\ order \in Seq(Nat) /\ flushed \in Nat /\ flushed < next
      BY <2>1, <3>2 DEF Turns, Pmap, MasterType
    <3>4. Len(order) \in Nat
      BY <3>3
    <3>5. flushed + 1 \notin flushed + 1..next - 1
      <4>1. ~InHeap(flushed + 1)
        <5>1. \A e \in output : e[1] \in flushed + 2..next - 1
          BY <2>1 DEF Shared
        <5> QED BY <3>3, <5>1 DEF InHeap
      <4> QED BY <2>1, <3>1, <4>1 DEF Shared
    <3>6. flushed = Len(order)
      BY <3>3, <3>4, <3>5
    <3> QED BY <2>1, <3>6 DEF Results
  <2>3. \A k \in DOMAIN yielded :
          yielded[k].sent = order[k] /\ yielded[k].phase = phase /\ yielded[k].epoch = epoch
    BY <2>1 DEF Results, Good
  <2> QED BY <2>2, <2>3 DEF ResultsInOrder
<1> QED BY <1>1, Invariance, PTL

(* The held-out sentences are all decoded with the average of the weights     *)
(* after every update that any slave has made.                                *)
THEOREM HeldoutAlwaysAveraged == Spec => []HeldoutUsesAverage
<1>1. Inv => HeldoutUsesAverage
  BY DEF Inv, MasterInv, Results, Good, Averaged, HeldoutUsesAverage
<1> QED BY <1>1, Invariance, PTL

(* A slave trains with the weights that its own last update left.             *)
THEOREM TrainingAlwaysResumes == Spec => []TrainingResumes
<1>1. Inv => TrainingResumes
  BY DEF Inv, SlaveInv, WeightsOf, Weights, TrainingResumes
<1> QED BY <1>1, Invariance, PTL
==============================================================================
