--------------------------- MODULE MpiServProofs ----------------------------
(***************************************************************************)
(* Proofs about MpiServ.                                                   *)
(*                                                                         *)
(* A task is carried by messages and by the queue of a client.  The        *)
(* inductive invariant says that a task which is not answered is carried   *)
(* in at most one place, and an answered one nowhere; that the load tables *)
(* count those places; that at most one request for the load is open; and  *)
(* for each client what its two threads and its child leave of the queue   *)
(* in each of their positions.                                             *)
(***************************************************************************)
EXTENDS MpiServ, SequenceTheorems, FunctionTheorems, FiniteSetTheorems, TLAPS

Ranks == {receiver} \cup Clients

(* What a message to the receiver, to a client and a job in a queue look like. *)
ToReceiver ==
    {m \in Message :
        \/ m.type = "clientload" /\ m.src = submitter /\ m.task = 0
        \/ m.type = "finish" /\ m.src = submitter /\ m.task = Lines + 1
        \/ m.type \in {"input", "output"} /\ m.src \in Clients /\ m.task \in Tasks}

Jobs == {m \in Message : m.type = "input" /\ m.task \in Tasks}

ToClient == Jobs \cup {m \in Message : m.type \in {"flush", "finish"} /\ m.task = 0}

Forms ==
    /\ net[receiver] \in Seq(ToReceiver)
    /\ \A c \in Clients : net[c] \in Seq(ToClient) /\ jobs_in[c] \in Seq(Jobs)

(* The tasks a sequence of messages carries, each of them once. *)
Carried(s) == {s[i].task : i \in DOMAIN s} \ {0}

Distinct(s) == \A i, j \in DOMAIN s : s[i].task = s[j].task /\ s[i].task # 0 => i = j

Apart ==
    /\ \A r \in Ranks : Distinct(net[r])
    /\ \A c \in Clients : Distinct(jobs_in[c])
    /\ \A r, q \in Ranks : r # q => Carried(net[r]) \cap Carried(net[q]) = {}
    /\ \A c, d \in Clients : c # d => Carried(jobs_in[c]) \cap Carried(jobs_in[d]) = {}
    /\ \A r \in Ranks, c \in Clients : Carried(net[r]) \cap Carried(jobs_in[c]) = {}

(* A task that may be carried: it has been submitted and is not answered. *)
Open ==
    {t \in 1..Lines + 1 :
        /\ t < count \/ spc = "done"
        /\ t \in Tasks => answers[t] = 0
        /\ t = Lines + 1 => rpc = "recv" /\ t \notin jobs_out}

OnlyOpen ==
    /\ \A r \in Ranks : Carried(net[r]) \subseteq Open
    /\ \A c \in Clients : Carried(jobs_in[c]) \subseteq Open

(* What the receiver has recorded. *)
Recorded ==
    /\ spc = "done" => count = Lines + 1
    /\ rpc = "recv" =>
        /\ minrecv \notin jobs_out
        /\ \A t \in Tasks : answers[t] = IF t < minrecv \/ t \in jobs_out THEN 1 ELSE 0
        /\ \A t \in jobs_out : t > minrecv
    /\ rpc = "done" => \A t \in Tasks : answers[t] = 1
    /\ \A t \in Tasks : answers[t] = 1 => t < count
    /\ spc # "done" => rpc = "recv" /\ Lines + 1 \notin jobs_out

(* Where a sequence has an element of V. *)
Places(s, V) == {i \in DOMAIN s : s[i] \in V}

(* While the submitter waits, its request is in one place: under way, with the *)
(* receiver, or answered.                                                       *)
Requests == {m \in Message : m.type = "clientload"}
Asked == Cardinality(Places(net[receiver], Requests))

OneRequest ==
    Asked + (IF recvreq THEN 1 ELSE 0) + Len(loads) = IF spc = "wait" THEN 1 ELSE 0

(* A client: what its threads (at f and rd), its child (ch), with the results in *)
(* the pipe (r) and the inputs it has (t), leave of its queue (q).  w is the task *)
(* to be written, fin says that the child is to be given no more.                 *)
Unwritten(f, rd) == f = "give" /\ rd = "read"

Situation(f, rd, ch, fin, w, q, t, r) ==
    /\ rd = "done" =>
        /\ q = <<>> /\ ch = "down" /\ r = <<>> /\ t = <<>>
        /\ f \in {"loop", "give"} => fin = TRUE
        /\ f \notin {"recv", "wait"}
    /\ rd = "read" => f \notin {"start", "reject", "done"}
    /\ ch = "down" => t = <<>>
    /\ f = "recv" => Len(q) < loadmax
    /\ f = "give" => w \in Tasks
    /\ Unwritten(f, rd) =>
        /\ q # <<>> /\ q[Len(q)].task = w
        /\ Len(r) + Len(t) < Len(q)
    /\ ch # "down" => Len(r) + Len(t) = Len(q) - (IF Unwritten(f, rd) THEN 1 ELSE 0)

Phase(c) ==
    Situation(fpc[c], rdpc[c], child[c], jobs_in_finished[c], cur[c], jobs_in[c], todo[c], ready[c])

Phases == \A c \in Clients : Phase(c)

Inv ==
    /\ TypeOK /\ Forms /\ Apart /\ OnlyOpen /\ Recorded /\ OneRequest
    /\ LoadsAgree /\ Phases /\ ResultsMatchJobs
-----------------------------------------------------------------------------
(* Facts about sequences of messages. *)

LEMMA RemoveAtFacts ==
    ASSUME NEW S, NEW s \in Seq(S), NEW i \in 1..Len(s)
    PROVE  /\ RemoveAt(s, i) \in Seq(S) /\ Len(RemoveAt(s, i)) = Len(s) - 1
           /\ \A j \in 1..Len(s) - 1 : RemoveAt(s, i)[j] = IF j < i THEN s[j] ELSE s[j + 1]
<1> DEFINE a == SubSeq(s, 1, i - 1)
           b == SubSeq(s, i + 1, Len(s))
<1>1. a \in Seq(S) /\ Len(a) = i - 1 /\ \A j \in 1..i - 1 : a[j] = s[j]
  OBVIOUS
<1>2. b \in Seq(S) /\ Len(b) = Len(s) - i /\ \A j \in 1..Len(s) - i : b[j] = s[j + i]
  OBVIOUS
<1>3. RemoveAt(s, i) = a \o b
  BY DEF RemoveAt
<1> HIDE DEF a, b
<1>0. /\ a \o b \in Seq(S) /\ Len(a \o b) = Len(a) + Len(b)
      /\ \A j \in 1..Len(a) + Len(b) : (a \o b)[j] = IF j <= Len(a) THEN a[j] ELSE b[j - Len(a)]
  BY <1>1, <1>2, ConcatProperties
<1>4. a \o b \in Seq(S) /\ Len(a) + Len(b) = Len(s) - 1 /\ Len(a \o b) = Len(s) - 1
  BY <1>0, <1>1, <1>2
<1>5. ASSUME NEW j \in 1..Len(s) - 1 PROVE (a \o b)[j] = IF j < i THEN s[j] ELSE s[j + 1]
  <2>1. (a \o b)[j] = IF j <= Len(a) THEN a[j] ELSE b[j - Len(a)]
    BY <1>0, <1>4
  <2>2. CASE j < i
    BY <1>1, <2>1, <2>2
  <2>3. CASE ~(j < i)
    <3>1. j - Len(a) \in 1..Len(s) - i /\ ~(j <= Len(a)) /\ (j - Len(a)) + i = j + 1
      BY <1>1, <2>3
    <3> QED BY <1>2, <2>1, <2>3, <3>1
  <2> QED BY <2>2, <2>3
<1> QED BY <1>3, <1>4, <1>5

LEMMA TailIsRemoveAt ==
    ASSUME NEW S, NEW s \in Seq(S), s # <<>>
    PROVE  1 \in 1..Len(s) /\ Tail(s) = RemoveAt(s, 1)
<1>1. 1 \in 1..Len(s)
  OBVIOUS
<1>2. Tail(s) \in Seq(S) /\ Len(Tail(s)) = Len(s) - 1
      /\ \A j \in 1..Len(s) - 1 : Tail(s)[j] = s[j + 1]
  BY HeadTailProperties
<1>3. \A j \in 1..Len(s) - 1 : RemoveAt(s, 1)[j] = s[j + 1]
  BY <1>1, RemoveAtFacts
<1> QED BY <1>1, <1>2, <1>3, RemoveAtFacts, SeqEqual

(* How often a sequence has an element of V. *)

LEMMA PlacesFinite ==
    ASSUME NEW S, NEW s \in Seq(S), NEW V
    PROVE  IsFiniteSet(Places(s, V)) /\ Cardinality(Places(s, V)) \in Nat
<1>1. Places(s, V) \subseteq 1..Len(s) /\ IsFiniteSet(1..Len(s))
  BY FS_Interval DEF Places
<1> QED BY <1>1, FS_Subset, FS_CardinalityType

LEMMA CountRemove ==
    ASSUME NEW S, NEW s \in Seq(S), NEW i \in 1..Len(s), NEW V
    PROVE  Cardinality(Places(RemoveAt(s, i), V)) =
               Cardinality(Places(s, V)) - (IF s[i] \in V THEN 1 ELSE 0)
<1> DEFINE A == Places(s, V) \ {i}
           B == Places(RemoveAt(s, i), V)
           f == [j \in A |-> IF j < i THEN j ELSE j - 1]
<1>1. B = {j \in 1..Len(s) - 1 : (IF j < i THEN s[j] ELSE s[j + 1]) \in V}
  <2> DEFINE r == RemoveAt(s, i)
  <2>1. r \in Seq(S) /\ Len(r) = Len(s) - 1
        /\ \A j \in 1..Len(s) - 1 : r[j] = IF j < i THEN s[j] ELSE s[j + 1]
    BY RemoveAtFacts
  <2> HIDE DEF r
  <2>2. Places(r, V) = {j \in 1..Len(s) - 1 : r[j] \in V}
    BY <2>1 DEF Places
  <2> QED BY <2>1, <2>2 DEF r
<1>2. A = {j \in 1..Len(s) : s[j] \in V /\ j # i}
  BY DEF Places
<1>3. f \in Bijection(A, B)
  <2> HIDE DEF A, B
  <2>1. \A j \in A : f[j] \in B
    BY <1>1, <1>2
  <2>2. \A j, k \in A : f[j] = f[k] => j = k
    BY <1>2
  <2>3. \A k \in B : \E j \in A : f[j] = k
    <3> TAKE k \in B
    <3> DEFINE j == IF k < i THEN k ELSE k + 1
    <3>1. j \in A
      BY <1>1, <1>2
    <3>2. f[j] = k
      BY <1>1, <3>1
    <3> QED BY <3>1, <3>2
  <2> QED BY <2>1, <2>2, <2>3, Fun_IsBij
<1>4. IsFiniteSet(Places(s, V)) /\ Cardinality(Places(s, V)) \in Nat
  BY PlacesFinite
<1>5. IsFiniteSet(A) /\ Cardinality(A) = Cardinality(Places(s, V)) - (IF s[i] \in V THEN 1 ELSE 0)
  <2>1. i \in Places(s, V) <=> s[i] \in V
    BY DEF Places
  <2> QED BY <1>4, <2>1, FS_RemoveElement
<1>6. Cardinality(B) = Cardinality(A)
  <2> HIDE DEF A, B, f
  <2> QED BY <1>3, <1>5, FS_Bijection DEF ExistsBijection
<1> QED BY <1>5, <1>6

LEMMA CountConcat ==
    ASSUME NEW S, NEW s \in Seq(S), NEW t \in Seq(S), NEW V
    PROVE  Cardinality(Places(s \o t, V)) = Cardinality(Places(s, V)) + Cardinality(Places(t, V))
<1> DEFINE A == Places(s, V)
           B == Places(t, V)
           C == {j \in Len(s) + 1..Len(s) + Len(t) : t[j - Len(s)] \in V}
           f == [j \in B |-> j + Len(s)]
<1>1. Places(s \o t, V) = {j \in 1..Len(s) + Len(t) :
                             (IF j <= Len(s) THEN s[j] ELSE t[j - Len(s)]) \in V}
  BY ConcatProperties DEF Places
<1>2. A = {j \in 1..Len(s) : s[j] \in V} /\ B = {j \in 1..Len(t) : t[j] \in V}
  BY DEF Places
<1>3. Len(s) \in Nat /\ Len(t) \in Nat
  OBVIOUS
<1>4. IsFiniteSet(A) /\ Cardinality(A) \in Nat /\ IsFiniteSet(B) /\ Cardinality(B) \in Nat
  BY PlacesFinite
<1> HIDE DEF A, B
<1>5. Places(s \o t, V) = A \cup C /\ A \cap C = {}
  BY <1>1, <1>2, <1>3
<1>6. f \in Bijection(B, C)
  <2>1. \A j \in B : f[j] \in C
    BY <1>2, <1>3
  <2>2. \A j, k \in B : f[j] = f[k] => j = k
    BY <1>2, <1>3
  <2>3. \A k \in C : \E j \in B : f[j] = k
    <3> TAKE k \in C
    <3> DEFINE j == k - Len(s)
    <3>1. j \in B /\ j + Len(s) = k
      BY <1>2, <1>3
    <3>2. f[j] = k
      BY <3>1
    <3> QED BY <3>1, <3>2
  <2> QED BY <2>1, <2>2, <2>3, Fun_IsBij
<1>7. IsFiniteSet(C) /\ Cardinality(C) = Cardinality(B)
  <2> HIDE DEF C, f
  <2> QED BY <1>4, <1>6, FS_Bijection DEF ExistsBijection
<1>8. Cardinality(A \cup C) = Cardinality(A) + Cardinality(C) - Cardinality(A \cap C)
  BY <1>4, <1>7, FS_Union
<1>9. Cardinality(A \cap C) = 0
  BY <1>5, FS_EmptySet
<1> QED BY <1>4, <1>5, <1>7, <1>8, <1>9 DEF A, B

(* All or none of the elements. *)
LEMMA CountAll ==
    ASSUME NEW S, NEW s \in Seq(S), NEW V
    PROVE  /\ (\A i \in 1..Len(s) : s[i] \in V) => Cardinality(Places(s, V)) = Len(s)
           /\ (\A i \in 1..Len(s) : s[i] \notin V) => Cardinality(Places(s, V)) = 0
<1>1. ASSUME \A i \in 1..Len(s) : s[i] \in V PROVE Cardinality(Places(s, V)) = Len(s)
  <2>1. Places(s, V) = 1..Len(s)
    BY <1>1 DEF Places
  <2> QED BY <2>1, FS_Interval
<1>2. ASSUME \A i \in 1..Len(s) : s[i] \notin V PROVE Cardinality(Places(s, V)) = 0
  <2>1. Places(s, V) = {}
    BY <1>2 DEF Places
  <2> QED BY <2>1, FS_EmptySet
<1> QED BY <1>1, <1>2

LEMMA CountAppend ==
    ASSUME NEW S, NEW s \in Seq(S), NEW e \in S, NEW V
    PROVE  Cardinality(Places(Append(s, e), V)) =
               Cardinality(Places(s, V)) + (IF e \in V THEN 1 ELSE 0)
<1>1. <<e>> \in Seq(S) /\ Len(<<e>>) = 1 /\ <<e>>[1] = e
  OBVIOUS
<1>2. Append(s, e) = s \o <<e>>
  BY AppendIsConcat
<1>3. Cardinality(Places(<<e>>, V)) = IF e \in V THEN 1 ELSE 0
  <2> DEFINE t == <<e>>
  <2> HIDE DEF t
  <2>1. t \in Seq(S) /\ Len(t) = 1 /\ t[1] = e
    BY <1>1 DEF t
  <2>2. ASSUME NEW i \in 1..Len(t) PROVE t[i] = e
    BY <2>1
  <2>3. Cardinality(Places(t, V)) = IF e \in V THEN 1 ELSE 0
    <3>1. CASE e \in V
      BY <2>1, <2>2, <3>1, CountAll
    <3>2. CASE e \notin V
      BY <2>1, <2>2, <3>2, CountAll
    <3> QED BY <3>1, <3>2
  <2> QED BY <2>3 DEF t
<1>4. Cardinality(Places(s \o <<e>>, V)) = Cardinality(Places(s, V)) + Cardinality(Places(<<e>>, V))
  BY <1>1, CountConcat
<1> QED BY <1>2, <1>3, <1>4

(* The tasks that are carried. *)
LEMMA CarriedIs ==
    ASSUME NEW S, NEW s \in Seq(S), NEW t
    PROVE  t \in Carried(s) <=> t # 0 /\ \E i \in 1..Len(s) : s[i].task = t
BY DEF Carried

LEMMA CarriedEmpty == Carried(<<>>) = {} /\ Distinct(<<>>)
BY DEF Carried, Distinct

LEMMA CarriedConcat ==
    ASSUME NEW S, NEW s \in Seq(S), NEW t \in Seq(S)
    PROVE  /\ Carried(s \o t) = Carried(s) \cup Carried(t)
           /\ Distinct(s) /\ Distinct(t) /\ Carried(s) \cap Carried(t) = {} => Distinct(s \o t)
<1>1. /\ s \o t \in Seq(S) /\ Len(s \o t) = Len(s) + Len(t)
      /\ \A i \in 1..Len(s) + Len(t) : (s \o t)[i] = IF i <= Len(s) THEN s[i] ELSE t[i - Len(s)]
  BY ConcatProperties
<1>2. Len(s) \in Nat /\ Len(t) \in Nat
  OBVIOUS
<1> DEFINE u == s \o t
<1> HIDE DEF u
<1>3. /\ u \in Seq(S) /\ Len(u) = Len(s) + Len(t)
      /\ \A i \in 1..Len(s) : u[i] = s[i]
      /\ \A i \in 1..Len(t) : u[i + Len(s)] = t[i]
  BY <1>1, <1>2 DEF u
<1>4. \A i \in 1..Len(u) : i \in 1..Len(s) \/ (i - Len(s) \in 1..Len(t) /\ i = (i - Len(s)) + Len(s))
  BY <1>2, <1>3
<1>5. Carried(u) = Carried(s) \cup Carried(t)
  <2>1. ASSUME NEW x \in Carried(u) PROVE x \in Carried(s) \cup Carried(t)
    <3>1. PICK i \in 1..Len(u) : u[i].task = x /\ x # 0
      BY <1>3, <2>1, CarriedIs
    <3>2. CASE i \in 1..Len(s)
      BY <1>3, <3>1, <3>2, CarriedIs
    <3>3. CASE i - Len(s) \in 1..Len(t) /\ i = (i - Len(s)) + Len(s)
      <4>1. u[i] = t[i - Len(s)]
        BY <1>3, <3>3
      <4> QED BY <3>1, <3>3, <4>1, CarriedIs
    <3> QED BY <1>4, <3>2, <3>3
  <2>2. ASSUME NEW x \in Carried(s) PROVE x \in Carried(u)
    <3>1. PICK i \in 1..Len(s) : s[i].task = x /\ x # 0
      BY <2>2, CarriedIs
    <3>2. i \in 1..Len(u)
      BY <1>2, <1>3
    <3> QED BY <1>3, <3>1, <3>2, CarriedIs
  <2>3. ASSUME NEW x \in Carried(t) PROVE x \in Carried(u)
    <3>1. PICK i \in 1..Len(t) : t[i].task = x /\ x # 0
      BY <2>3, CarriedIs
    <3>2. i + Len(s) \in 1..Len(u)
      BY <1>2, <1>3
    <3> QED BY <1>3, <3>1, <3>2, CarriedIs
  <2> QED BY <2>1, <2>2, <2>3
<1>6. ASSUME Distinct(s), Distinct(t), Carried(s) \cap Carried(t) = {} PROVE Distinct(u)
  <2>1. SUFFICES ASSUME NEW i \in 1..Len(u), NEW j \in 1..Len(u), u[i].task = u[j].task, u[i].task # 0
                 PROVE  i = j
    BY <1>3 DEF Distinct
  <2>2. CASE i \in 1..Len(s) /\ j \in 1..Len(s)
    BY <1>3, <1>6, <2>1, <2>2 DEF Distinct
  <2>3. CASE i - Len(s) \in 1..Len(t) /\ j - Len(s) \in 1..Len(t)
    <3>0. i = (i - Len(s)) + Len(s) /\ j = (j - Len(s)) + Len(s)
      BY <1>2
    <3>1. t[i - Len(s)] = u[i] /\ t[j - Len(s)] = u[j]
      BY <1>3, <2>3, <3>0
    <3>2. t[i - Len(s)].task = t[j - Len(s)].task /\ t[i - Len(s)].task # 0
      BY <2>1, <3>1
    <3>3. i - Len(s) = j - Len(s)
      BY <1>6, <2>3, <3>2 DEF Distinct
    <3> QED BY <1>2, <3>3
  <2>4. ASSUME NEW a \in 1..Len(u), NEW b \in 1..Len(u), u[a].task = u[b].task, u[a].task # 0,
               a \in 1..Len(s), b - Len(s) \in 1..Len(t)
        PROVE  FALSE
    <3>0. b = (b - Len(s)) + Len(s)
      BY <1>2
    <3>1. s[a] = u[a] /\ t[b - Len(s)] = u[b]
      BY <1>3, <2>4, <3>0
    <3>2. u[a].task \in Carried(s) /\ u[a].task \in Carried(t)
      BY <2>4, <3>1, CarriedIs
    <3> QED BY <1>6, <3>2
  <2> QED BY <1>4, <2>1, <2>2, <2>3, <2>4
<1> QED BY <1>5, <1>6 DEF u

LEMMA CarriedNothing ==
    ASSUME NEW S, NEW s \in Seq(S), \A i \in 1..Len(s) : s[i].task = 0
    PROVE  Carried(s) = {} /\ Distinct(s)
BY DEF Carried, Distinct

LEMMA CarriedOne ==
    ASSUME NEW S, NEW e \in S
    PROVE  /\ <<e>> \in Seq(S) /\ Len(<<e>>) = 1
           /\ Carried(<<e>>) = {e.task} \ {0} /\ Distinct(<<e>>)
<1> DEFINE s == <<e>>
<1>1. s \in Seq(S) /\ Len(s) = 1 /\ s[1] = e
  OBVIOUS
<1> HIDE DEF s
<1>2. \A i \in 1..Len(s) : i = 1
  BY <1>1
<1>3. Carried(s) = {e.task} \ {0}
  BY <1>1, <1>2, CarriedIs
<1>4. Distinct(s)
  BY <1>1, <1>2 DEF Distinct
<1> QED BY <1>1, <1>3, <1>4 DEF s

LEMMA CarriedAppend ==
    ASSUME NEW S, NEW s \in Seq(S), NEW e \in S
    PROVE  /\ Carried(Append(s, e)) = Carried(s) \cup ({e.task} \ {0})
           /\ Distinct(s) /\ e.task \notin Carried(s) => Distinct(Append(s, e))
<1>1. Append(s, e) = s \o <<e>>
  BY AppendIsConcat
<1> DEFINE t == <<e>>
<1>2. t \in Seq(S) /\ Carried(t) = {e.task} \ {0} /\ Distinct(t)
  BY CarriedOne
<1> HIDE DEF t
<1>3. Carried(s \o t) = Carried(s) \cup Carried(t)
  BY <1>2, CarriedConcat
<1>4. Distinct(s) /\ Carried(s) \cap Carried(t) = {} => Distinct(s \o t)
  BY <1>2, CarriedConcat
<1> QED BY <1>1, <1>2, <1>3, <1>4 DEF t

LEMMA CarriedRemove ==
    ASSUME NEW S, NEW s \in Seq(S), NEW i \in 1..Len(s), Distinct(s)
    PROVE  /\ Carried(RemoveAt(s, i)) = Carried(s) \ {s[i].task}
           /\ Distinct(RemoveAt(s, i))
           /\ s[i].task # 0 => s[i].task \in Carried(s)
<1> DEFINE r == RemoveAt(s, i)
           from(j) == IF j < i THEN j ELSE j + 1
<1>1. r \in Seq(S) /\ Len(r) = Len(s) - 1
      /\ \A j \in 1..Len(s) - 1 : r[j] = IF j < i THEN s[j] ELSE s[j + 1]
  BY RemoveAtFacts
<1> HIDE DEF r
<1>2. \A j \in 1..Len(r) : from(j) \in 1..Len(s) /\ from(j) # i /\ r[j] = s[from(j)]
  BY <1>1
<1>3. \A j, k \in 1..Len(r) : from(j) = from(k) => j = k
  BY <1>1
<1>4. \A k \in 1..Len(s) : k # i => \E j \in 1..Len(r) : r[j] = s[k]
  <2> SUFFICES ASSUME NEW k \in 1..Len(s), k # i PROVE \E j \in 1..Len(r) : r[j] = s[k]
    OBVIOUS
  <2>1. CASE k < i
    <3>1. k \in 1..Len(r) /\ r[k] = s[k]
      BY <1>1, <2>1
    <3> QED BY <3>1
  <2>2. CASE k > i
    <3>1. k - 1 \in 1..Len(r) /\ ~(k - 1 < i) /\ (k - 1) + 1 = k
      BY <1>1, <2>2
    <3>2. r[k - 1] = s[k]
      BY <1>1, <3>1
    <3> QED BY <3>1, <3>2
  <2> QED BY <2>1, <2>2
<1> HIDE DEF from
<1>5. Distinct(r)
  <2> SUFFICES ASSUME NEW j \in 1..Len(r), NEW k \in 1..Len(r),
                      r[j].task = r[k].task, r[j].task # 0
               PROVE  j = k
    BY <1>1 DEF Distinct
  <2>1. from(j) = from(k)
    BY <1>2 DEF Distinct
  <2> QED BY <1>3, <2>1
<1>6. Carried(r) = Carried(s) \ {s[i].task}
  <2>1. ASSUME NEW x \in Carried(r) PROVE x \in Carried(s) /\ x # s[i].task
    <3>1. PICK j \in 1..Len(r) : r[j].task = x /\ x # 0
      BY <1>1, <2>1, CarriedIs
    <3>2. from(j) \in 1..Len(s) /\ from(j) # i /\ s[from(j)].task = x
      BY <1>2, <3>1
    <3>3. x \in Carried(s)
      BY <3>1, <3>2, CarriedIs
    <3> QED BY <3>1, <3>2, <3>3 DEF Distinct
  <2>2. ASSUME NEW x \in Carried(s), x # s[i].task PROVE x \in Carried(r)
    <3>1. PICK k \in 1..Len(s) : s[k].task = x /\ x # 0
      BY <2>2, CarriedIs
    <3> QED BY <1>1, <1>4, <2>2, <3>1, CarriedIs
  <2> QED BY <2>1, <2>2
<1>7. s[i].task # 0 => s[i].task \in Carried(s)
  BY CarriedIs
<1> QED BY <1>5, <1>6, <1>7 DEF r

(* Only the tasks matter. *)
LEMMA CarriedSame ==
    ASSUME NEW S, NEW s \in Seq(S), NEW t \in Seq(S), Len(s) = Len(t),
           \A i \in 1..Len(s) : s[i].task = t[i].task
    PROVE  Carried(s) = Carried(t) /\ (Distinct(s) => Distinct(t))
BY DEF Carried, Distinct
-----------------------------------------------------------------------------
(* What the invariant says, in the terms of these facts. *)

From(c) == {m \in Message : m.src = c}

In(c) == Cardinality(Places(net[c], Jobs))
Back(c) == Cardinality(Places(net[receiver], From(c)))

LEMMA ConstantFacts ==
    /\ receiver \notin Clients /\ submitter \notin Clients /\ 0 \notin Tasks
    /\ Clients \subseteq Int /\ Tasks \subseteq Nat /\ Lines \in Nat /\ Lines + 1 \notin Tasks
    /\ Ranks = {receiver} \cup Clients /\ receiver \in Ranks /\ Clients \subseteq Ranks
    /\ loadmax \in Nat \ {0} /\ max_attempts \in Nat \ {0} /\ NumClients \in Nat \ {0}
    /\ MaxFaults \in Nat
BY ServAssumption DEF receiver, submitter, Clients, Tasks, Ranks

LEMMA FormFacts ==
    /\ ToReceiver \subseteq Message /\ ToClient \subseteq Message /\ Jobs \subseteq ToClient
    /\ \A m \in Jobs : m.type = "input" /\ m.task \in Tasks
    /\ \A m \in ToClient : m \in Jobs <=> m.type = "input"
    /\ \A m \in ToClient : m \notin Jobs => m.type \in {"flush", "finish"} /\ m.task = 0
BY DEF ToReceiver, ToClient, Jobs

Counts ==
    /\ Len(loads) <= 1
    /\ \A c \in Clients : sload[c] - Reported(c) = In(c) + Len(jobs_in[c]) + Back(c)

LEMMA LoadsIs == Forms => (LoadsAgree <=> Counts)
<1> SUFFICES ASSUME Forms PROVE LoadsAgree <=> Counts
  OBVIOUS
<1>1. ASSUME NEW c \in Clients PROVE InputsTo(c) = Places(net[c], Jobs)
  <2>1. net[c] \in Seq(ToClient)
    BY DEF Forms
  <2> QED BY <2>1, FormFacts DEF InputsTo, Places
<1>2. ASSUME NEW c \in Clients PROVE JobsFrom(c) = Places(net[receiver], From(c))
  <2>1. net[receiver] \in Seq(ToReceiver)
    BY DEF Forms
  <2> QED BY <2>1, FormFacts DEF JobsFrom, Places, From
<1> QED BY <1>1, <1>2 DEF LoadsAgree, Counts, In, Back

LEMMA LoadsIsNext == Forms' => (LoadsAgree' <=> Counts')
BY LoadsIs, PTL

(* The results and the inputs are the first jobs of the queue. *)
Fits(r, t, q) ==
    /\ Len(r) + Len(t) <= Len(q)
    /\ \A i \in 1..Len(r) : r[i] = q[i].task
    /\ \A i \in 1..Len(t) : t[i] = q[i + Len(r)].task

LEMMA FitsIs ==
    ASSUME NEW r \in Seq(Tasks), NEW t \in Seq(Tasks), NEW q \in Seq(Message)
    PROVE  Fits(r, t, q) <=>
               /\ Len(r \o t) <= Len(q)
               /\ \A i \in DOMAIN (r \o t) : (r \o t)[i] = q[i].task
<1>1. /\ r \o t \in Seq(Tasks) /\ Len(r \o t) = Len(r) + Len(t)
      /\ \A i \in 1..Len(r) + Len(t) : (r \o t)[i] = IF i <= Len(r) THEN r[i] ELSE t[i - Len(r)]
  BY ConcatProperties
<1> DEFINE g == r \o t
<1> HIDE DEF g
<1>2. /\ DOMAIN g = 1..Len(r) + Len(t) /\ Len(g) = Len(r) + Len(t)
      /\ \A i \in 1..Len(r) : g[i] = r[i]
      /\ \A i \in 1..Len(t) : g[i + Len(r)] = t[i]
  BY <1>1 DEF g
<1>3. Len(r) \in Nat /\ Len(t) \in Nat
  OBVIOUS
<1>4. ASSUME Fits(r, t, q), NEW i \in DOMAIN g PROVE g[i] = q[i].task
  <2>1. CASE i \in 1..Len(r)
    BY <1>2, <1>4, <2>1 DEF Fits
  <2>2. CASE i - Len(r) \in 1..Len(t) /\ i = (i - Len(r)) + Len(r)
    BY <1>2, <1>4, <2>2 DEF Fits
  <2> QED BY <1>2, <1>3, <2>1, <2>2
<1>5. ASSUME \A i \in DOMAIN g : g[i] = q[i].task
      PROVE  /\ \A i \in 1..Len(r) : r[i] = q[i].task
             /\ \A i \in 1..Len(t) : t[i] = q[i + Len(r)].task
  <2>1. \A i \in 1..Len(r) : i \in DOMAIN g
    BY <1>2, <1>3
  <2>2. \A i \in 1..Len(t) : i + Len(r) \in DOMAIN g
    BY <1>2, <1>3
  <2> QED BY <1>2, <1>5, <2>1, <2>2
<1> QED BY <1>2, <1>4, <1>5 DEF Fits, g

Match(c) == Fits(ready[c], todo[c], jobs_in[c])

LEMMA MatchIs ==
    TypeOK => (ResultsMatchJobs <=> \A c \in Clients : Match(c))
<1> SUFFICES ASSUME TypeOK PROVE ResultsMatchJobs <=> \A c \in Clients : Match(c)
  OBVIOUS
<1>1. \A c \in Clients : ready[c] \in Seq(Tasks) /\ todo[c] \in Seq(Tasks) /\ jobs_in[c] \in Seq(Message)
  BY DEF TypeOK
<1>2. \A c \in Clients : Match(c) <=>
        /\ Len(ready[c] \o todo[c]) <= Len(jobs_in[c])
        /\ \A i \in DOMAIN (ready[c] \o todo[c]) : (ready[c] \o todo[c])[i] = jobs_in[c][i].task
  BY <1>1, FitsIs DEF Match
<1> QED BY <1>2 DEF ResultsMatchJobs

LEMMA MatchIsNext ==
    TypeOK' => (ResultsMatchJobs' <=> \A c \in Clients : Match(c)')
<1>1. TypeOK' => (ResultsMatchJobs' <=> (\A c \in Clients : Match(c))')
  BY MatchIs, PTL
<1> QED BY <1>1
-----------------------------------------------------------------------------
(* Steps that leave parts of the state alone. *)

queues == <<net, jobs_in, loads, rload, sload, answers, jobs_out, minrecv, rpc, spc, count, recvreq>>

Queues == Forms /\ Apart /\ OnlyOpen /\ Recorded /\ OneRequest /\ LoadsAgree

LEMMA QueuesFrame == Queues /\ UNCHANGED queues => Queues'
<1> SUFFICES ASSUME Queues, UNCHANGED queues PROVE Queues'
  OBVIOUS
<1>1. Forms' /\ Apart'
  BY DEF queues, Queues, Forms, Apart
<1>2. OnlyOpen' /\ Recorded'
  BY DEF queues, Queues, OnlyOpen, Open, Recorded
<1>3. OneRequest'
  BY DEF queues, Queues, OneRequest, Asked
<1>4. LoadsAgree'
  BY DEF queues, Queues, LoadsAgree, Reported, InputsTo, JobsFrom
<1> QED BY <1>1, <1>2, <1>3, <1>4 DEF Queues

Client(c) == <<fpc[c], rdpc[c], jobs_in[c], jobs_in_finished[c], cur[c], child[c], todo[c], ready[c]>>

LEMMA ClientFrame ==
    ASSUME NEW c \in Clients, Phase(c) /\ Match(c), UNCHANGED Client(c)
    PROVE  Phase(c)' /\ Match(c)'
BY DEF Client, Phase, Match

LEMMA OtherClients ==
    ASSUME NEW c \in Clients, TypeOK, Phases, ResultsMatchJobs, TypeOK',
           \A d \in Clients \ {c} : UNCHANGED Client(d),
           Phase(c)' /\ Match(c)'
    PROVE  Phases' /\ ResultsMatchJobs'
<1>1. \A d \in Clients : Phase(d) /\ Match(d)
  BY MatchIs DEF Phases
<1>2. \A d \in Clients \ {c} : Phase(d)' /\ Match(d)'
  BY <1>1, ClientFrame
<1>3. \A d \in Clients : Phase(d)' /\ Match(d)'
  BY <1>2
<1> QED BY <1>3, MatchIsNext DEF Phases

LEMMA AllClients ==
    ASSUME TypeOK, Phases, ResultsMatchJobs, TypeOK',
           UNCHANGED <<fpc, rdpc, jobs_in, jobs_in_finished, cur, child, todo, ready>>
    PROVE  Phases' /\ ResultsMatchJobs'
<1>1. \A d \in Clients : Phase(d) /\ Match(d)
  BY MatchIs DEF Phases
<1>2. \A d \in Clients : Phase(d)' /\ Match(d)'
  BY <1>1, ClientFrame DEF Client
<1> QED BY <1>2, MatchIsNext DEF Phases

LEMMA InvIs == Inv <=> TypeOK /\ Queues /\ Phases /\ ResultsMatchJobs
BY DEF Inv, Queues

LEMMA InvIsNext == Inv' <=> TypeOK' /\ Queues' /\ Phases' /\ ResultsMatchJobs'
BY InvIs, PTL
-----------------------------------------------------------------------------
(* Actions of a client and its child that move no message. *)

LEMMA Queue ==
    ASSUME TypeOK, NEW c \in Clients
    PROVE  /\ ready[c] \in Seq(Tasks) /\ todo[c] \in Seq(Tasks) /\ jobs_in[c] \in Seq(Message)
           /\ fpc[c] \in {"start", "loop", "wait", "recv", "give", "join", "reject", "done"}
           /\ rdpc[c] \in {"read", "done"} /\ child[c] \in {"up", "eof", "down"}
           /\ jobs_in_finished[c] \in BOOLEAN /\ net[c] \in Seq(Message)
           /\ messages[c] \in Seq({"flush", "finish"})
BY DEF TypeOK

LEMMA SituationLoop ==
    ASSUME NEW rd, NEW ch, NEW fin, NEW w, NEW q \in Seq(Message), NEW t \in Seq(Tasks),
           NEW r \in Seq(Tasks), Situation("loop", rd, ch, fin, w, q, t, r),
           NEW f \in {"join", "wait", "recv"}, NEW k, k = "down" <=> ch = "down",
           rd = "done" => f = "join", f = "recv" => ~(Len(q) >= loadmax)
    PROVE  Situation(f, rd, k, fin, w, q, t, r)
<1>1. loadmax \in Nat /\ Len(q) \in Nat
  BY ConstantFacts
<1>2. rd = "done" => f = "join" /\ q = <<>> /\ k = "down" /\ r = <<>> /\ t = <<>>
  BY DEF Situation
<1>3. f = "recv" => Len(q) < loadmax
  BY <1>1
<1>4. k = "down" => t = <<>>
  BY DEF Situation
<1>5. k # "down" => Len(r) + Len(t) = Len(q)
  BY DEF Situation, Unwritten
<1>6. ~Unwritten(f, rd)
  BY DEF Unwritten
<1> QED BY <1>2, <1>3, <1>4, <1>5, <1>6 DEF Situation, Unwritten

LEMMA SituationGive ==
    ASSUME NEW rd \in {"read", "done"}, NEW ch, NEW fin, NEW w, NEW v, NEW q \in Seq(Message),
           NEW t \in Seq(Tasks), NEW r \in Seq(Tasks), ch # "down",
           Situation("give", rd, ch, fin, w, q, t, r), Fits(r, t, q)
    PROVE  /\ Situation("loop", rd, ch, fin, v, q, Append(t, w), r)
           /\ Fits(r, Append(t, w), q)
<1> DEFINE u == Append(t, w)
<1>1. rd = "read" /\ w \in Tasks /\ q[Len(q)].task = w /\ Len(r) + Len(t) = Len(q) - 1
  BY DEF Situation, Unwritten
<1>2. /\ u \in Seq(Tasks) /\ Len(u) = Len(t) + 1 /\ u[Len(t) + 1] = w
      /\ \A i \in 1..Len(t) : u[i] = t[i]
  BY <1>1, AppendProperties
<1> HIDE DEF u
<1>3. Fits(r, u, q)
  <2>1. Len(r) \in Nat /\ Len(t) \in Nat /\ Len(q) \in Nat
    OBVIOUS
  <2>2. ASSUME NEW i \in 1..Len(u) PROVE u[i] = q[i + Len(r)].task
    <3>1. CASE i \in 1..Len(t)
      BY <1>2, <3>1 DEF Fits
    <3>2. CASE i = Len(t) + 1
      <4>1. i + Len(r) = Len(q)
        BY <1>1, <2>1, <3>2
      <4> QED BY <1>1, <1>2, <3>2, <4>1
    <3> QED BY <1>2, <2>1, <3>1, <3>2
  <2>3. Len(r) + Len(u) <= Len(q)
    BY <1>1, <1>2, <2>1
  <2>4. \A i \in 1..Len(r) : r[i] = q[i].task
    BY DEF Fits
  <2> QED BY <2>2, <2>3, <2>4 DEF Fits
<1>4. Situation("loop", rd, ch, fin, v, q, u, r)
  BY <1>1, <1>2 DEF Situation, Unwritten
<1> QED BY <1>3, <1>4 DEF u

LEMMA SituationDecode ==
    ASSUME NEW f, NEW rd, NEW ch, NEW fin, NEW w, NEW q \in Seq(Message), NEW t \in Seq(Tasks),
           NEW r \in Seq(Tasks), t # <<>>, ch # "down",
           Situation(f, rd, ch, fin, w, q, t, r), Fits(r, t, q)
    PROVE  /\ Situation(f, rd, ch, fin, w, q, Tail(t), Append(r, Head(t)))
           /\ Fits(Append(r, Head(t)), Tail(t), q) /\ Fits(Append(r, Head(t)), <<>>, q)
           /\ Tail(t) \in Seq(Tasks) /\ Append(r, Head(t)) \in Seq(Tasks)
<1> DEFINE u == Tail(t)
           p == Append(r, Head(t))
<1>0. Len(r) \in Nat /\ Len(t) \in Nat /\ Len(q) \in Nat /\ Len(t) # 0
  OBVIOUS
<1>1. /\ u \in Seq(Tasks) /\ Len(u) = Len(t) - 1 /\ Head(t) \in Tasks /\ Head(t) = t[1]
      /\ \A i \in 1..Len(u) : u[i] = t[i + 1]
  BY HeadTailProperties
<1>2. /\ p \in Seq(Tasks) /\ Len(p) = Len(r) + 1 /\ p[Len(r) + 1] = t[1]
      /\ \A i \in 1..Len(r) : p[i] = r[i]
  BY <1>1, AppendProperties
<1> HIDE DEF u, p
<1>3. Len(r) + Len(t) <= Len(q) /\ Len(p) + Len(u) = Len(r) + Len(t)
  BY <1>0, <1>1, <1>2 DEF Fits
<1>4. ASSUME NEW i \in 1..Len(p) PROVE p[i] = q[i].task
  <2>1. CASE i \in 1..Len(r)
    BY <1>2, <2>1 DEF Fits
  <2>2. CASE i = Len(r) + 1
    <3>1. 1 \in 1..Len(t) /\ i = 1 + Len(r)
      BY <1>0, <2>2
    <3> QED BY <1>2, <2>2, <3>1 DEF Fits
  <2> QED BY <1>0, <1>2, <2>1, <2>2
<1>5. ASSUME NEW i \in 1..Len(u) PROVE u[i] = q[i + Len(p)].task
  <2>1. i + 1 \in 1..Len(t) /\ (i + 1) + Len(r) = i + Len(p)
    BY <1>0, <1>1, <1>2
  <2>2. t[i + 1] = q[(i + 1) + Len(r)].task
    BY <2>1 DEF Fits
  <2> QED BY <1>1, <2>1, <2>2
<1>6. Fits(p, u, q)
  BY <1>3, <1>4, <1>5 DEF Fits
<1>7. Fits(p, <<>>, q)
  BY <1>0, <1>1, <1>2, <1>3, <1>4 DEF Fits
<1>8. Situation(f, rd, ch, fin, w, q, u, p)
  <2>1. rd # "done"
    BY DEF Situation
  <2> QED BY <1>3, <2>1 DEF Situation, Unwritten
<1> QED BY <1>1, <1>2, <1>6, <1>7, <1>8 DEF u, p

LEMMA SituationDead ==
    ASSUME NEW f, NEW rd, NEW ch, NEW fin, NEW w, NEW q \in Seq(Message), NEW t \in Seq(Tasks),
           NEW r \in Seq(Tasks), ch # "down",
           Situation(f, rd, ch, fin, w, q, t, r), Fits(r, t, q)
    PROVE  Situation(f, rd, "down", fin, w, q, <<>>, r) /\ Fits(r, <<>>, q)
<1>1. Len(r) \in Nat /\ Len(t) \in Nat /\ Len(q) \in Nat /\ Len(<<>>) = 0
  OBVIOUS
<1>2. rd # "done"
  BY DEF Situation
<1>3. Fits(r, <<>>, q)
  BY <1>1 DEF Fits
<1> QED BY <1>1, <1>2, <1>3 DEF Situation, Unwritten

LEMMA SituationResult ==
    ASSUME NEW f, NEW ch, NEW fin, NEW w, NEW q \in Seq(Message), NEW t \in Seq(Tasks),
           NEW r \in Seq(Tasks), r # <<>>, NEW g, g # "recv", g = "give" <=> f = "give",
           g \notin {"start", "reject", "done"},
           Situation(f, "read", ch, fin, w, q, t, r), Fits(r, t, q)
    PROVE  /\ Situation(g, "read", ch, fin, w, Tail(q), t, Tail(r))
           /\ Fits(Tail(r), t, Tail(q)) /\ q # <<>>
<1> DEFINE u == Tail(q)
           p == Tail(r)
<1>0. Len(r) \in Nat /\ Len(t) \in Nat /\ Len(q) \in Nat /\ Len(r) # 0
  OBVIOUS
<1>1. Len(r) + Len(t) <= Len(q) /\ q # <<>> /\ Len(q) # 0
  BY <1>0 DEF Fits
<1>2. /\ u \in Seq(Message) /\ Len(u) = Len(q) - 1
      /\ \A i \in 1..Len(u) : u[i] = q[i + 1]
  BY <1>1, HeadTailProperties
<1>3. /\ p \in Seq(Tasks) /\ Len(p) = Len(r) - 1
      /\ \A i \in 1..Len(p) : p[i] = r[i + 1]
  BY HeadTailProperties
<1> HIDE DEF u, p
<1>4. Len(p) + Len(t) = Len(r) + Len(t) - 1
  BY <1>0, <1>3
<1>5. ASSUME NEW i \in 1..Len(p) PROVE p[i] = u[i].task
  <2>1. i + 1 \in 1..Len(r) /\ i \in 1..Len(u)
    BY <1>0, <1>1, <1>2, <1>3
  <2> QED BY <1>2, <1>3, <2>1 DEF Fits
<1>6. ASSUME NEW i \in 1..Len(t) PROVE t[i] = u[i + Len(p)].task
  <2>1. i + Len(p) \in 1..Len(u) /\ (i + Len(p)) + 1 = i + Len(r)
    BY <1>0, <1>1, <1>2, <1>3
  <2>2. u[i + Len(p)] = q[i + Len(r)]
    BY <1>2, <2>1
  <2> QED BY <2>2 DEF Fits
<1>7. Fits(p, t, u)
  BY <1>0, <1>1, <1>2, <1>4, <1>5, <1>6 DEF Fits
<1>8. Situation(g, "read", ch, fin, w, u, t, p)
  <2>1. Unwritten(g, "read") <=> Unwritten(f, "read")
    BY DEF Unwritten
  <2>2. ASSUME f = "give" PROVE u # <<>> /\ u[Len(u)].task = w /\ Len(p) + Len(t) < Len(u)
    <3>1. q[Len(q)].task = w /\ Len(r) + Len(t) < Len(q)
      BY <2>2 DEF Situation, Unwritten
    <3>2. Len(u) \in 1..Len(u) /\ Len(u) + 1 = Len(q) /\ Len(u) # 0
      BY <1>0, <1>2, <3>1
    <3> QED BY <1>0, <1>2, <1>4, <3>1, <3>2
  <2>3. ch # "down" => Len(r) + Len(t) = Len(q) - (IF f = "give" THEN 1 ELSE 0)
    BY DEF Situation, Unwritten
  <2>4. ch # "down" => Len(p) + Len(t) = Len(u) - (IF g = "give" THEN 1 ELSE 0)
    <3>1. CASE f = "give"
      BY <1>0, <1>2, <1>3, <1>4, <2>3, <3>1
    <3>2. CASE f # "give"
      <4>1. g # "give"
        BY <3>2
      <4>2. ch # "down" => Len(r) + Len(t) = Len(q)
        BY <1>0, <2>3, <3>2
      <4>3. ch # "down" => Len(p) + Len(t) = Len(u)
        <5>1. Len(p) \in Nat /\ Len(u) \in Nat /\ Len(u) = Len(q) - 1 /\ Len(p) + Len(t) = Len(r) + Len(t) - 1
          BY <1>2, <1>3, <1>4
        <5>2. ASSUME Len(r) + Len(t) = Len(q) PROVE Len(p) + Len(t) = Len(u)
          BY <1>0, <5>1, <5>2
        <5> QED BY <4>2, <5>2
      <4> QED BY <1>0, <1>2, <4>1, <4>3
    <3> QED BY <3>1, <3>2
  <2>5. (ch = "down" => t = <<>>) /\ (f = "give" => w \in Tasks)
    BY DEF Situation
  <2> QED BY <2>2, <2>4, <2>5 DEF Situation, Unwritten
<1> QED BY <1>1, <1>7, <1>8 DEF u, p

LEMMA SituationEnd ==
    ASSUME NEW f, NEW fin, NEW w, NEW q, NEW g, g \notin {"recv", "wait"}, g = "give" => f = "give",
           NEW t, NEW r, r = <<>>, Situation(f, "read", "down", fin, w, q, t, r)
    PROVE  Situation(g, "done", "down", TRUE, w, <<>>, t, r) /\ Fits(r, t, <<>>)
<1>1. t = <<>> /\ (f = "give" => w \in Tasks) /\ Len(<<>>) = 0
  BY DEF Situation
<1>2. Fits(r, t, <<>>)
  BY <1>1 DEF Fits
<1> QED BY <1>1, <1>2 DEF Situation, Unwritten

LEMMA SituationClose ==
    ASSUME NEW rd, NEW ch, NEW fin, NEW fun, NEW w, NEW q \in Seq(Message), NEW t \in Seq(Tasks),
           NEW r \in Seq(Tasks), Situation("recv", rd, ch, fin, w, q, t, r),
           NEW k, k = "down" <=> ch = "down"
    PROVE  Situation("join", rd, k, fun, w, q, t, r)
<1>1. rd # "done"
  BY DEF Situation
<1>2. k = "down" => t = <<>>
  BY DEF Situation
<1>3. k # "down" => Len(r) + Len(t) = Len(q)
  BY DEF Situation, Unwritten
<1> QED BY <1>1, <1>2, <1>3 DEF Situation, Unwritten

LEMMA SituationTake ==
    ASSUME NEW rd \in {"read", "done"}, NEW ch, NEW fin, NEW w, NEW q \in Seq(Message), NEW t \in Seq(Tasks),
           NEW r \in Seq(Tasks), Situation("recv", rd, ch, fin, w, q, t, r), Fits(r, t, q),
           NEW m \in Message, m.task \in Tasks
    PROVE  /\ Situation("give", rd, ch, fin, m.task, Append(q, m), t, r)
           /\ Fits(r, t, Append(q, m)) /\ Len(Append(q, m)) <= loadmax
<1> DEFINE u == Append(q, m)
<1>0. Len(r) \in Nat /\ Len(t) \in Nat /\ Len(q) \in Nat /\ loadmax \in Nat
  BY ConstantFacts
<1>1. /\ u \in Seq(Message) /\ Len(u) = Len(q) + 1 /\ u[Len(q) + 1] = m
      /\ \A i \in 1..Len(q) : u[i] = q[i]
  BY AppendProperties
<1> HIDE DEF u
<1>2. Len(r) + Len(t) <= Len(q)
  BY DEF Fits
<1>3. \A i \in 1..Len(r) : i \in 1..Len(q)
  BY <1>0, <1>2
<1>4. \A i \in 1..Len(t) : i + Len(r) \in 1..Len(q)
  BY <1>0, <1>2
<1>5. Fits(r, t, u)
  <2>1. Len(r) + Len(t) <= Len(u)
    BY <1>0, <1>1, <1>2
  <2>2. \A i \in 1..Len(r) : r[i] = u[i].task
    BY <1>1, <1>3 DEF Fits
  <2>3. \A i \in 1..Len(t) : t[i] = u[i + Len(r)].task
    BY <1>1, <1>4 DEF Fits
  <2> QED BY <2>1, <2>2, <2>3 DEF Fits
<1>6. rd = "read" /\ Len(q) < loadmax
  BY DEF Situation
<1>7. Len(u) <= loadmax
  BY <1>0, <1>1, <1>6
<1>8. u # <<>> /\ u[Len(u)].task = m.task /\ Len(r) + Len(t) < Len(u)
  BY <1>0, <1>1, <1>2
<1>9. ch # "down" => Len(r) + Len(t) = Len(u) - 1
  BY <1>0, <1>1 DEF Situation, Unwritten
<1>10. ch = "down" => t = <<>>
  BY DEF Situation
<1>11. Situation("give", rd, ch, fin, m.task, u, t, r)
  BY <1>6, <1>8, <1>9, <1>10 DEF Situation, Unwritten
<1> QED BY <1>5, <1>7, <1>11 DEF u

LEMMA StartFailsInv == ASSUME Inv, NEW c \in Clients, StartFails(c) PROVE Inv'
<1>1. TypeOK /\ Phases /\ ResultsMatchJobs /\ Queues
  BY InvIs
<1>0. faults' \in Nat /\ faults' + overtakings <= MaxFaults
  BY <1>1, ConstantFacts DEF StartFails, MayFault, TypeOK
<1>2. TypeOK'
  BY <1>0, <1>1 DEF StartFails, Feed, TypeOK, netvars, subvars, recvars, state
<1>3. Queues'
  BY <1>1, QueuesFrame DEF StartFails, queues, netvars, subvars, recvars, state
<1>4. \A d \in Clients \ {c} : UNCHANGED Client(d)
  BY <1>1 DEF StartFails, Feed, Client, state, TypeOK
<1>5. Phase(c)' /\ Match(c)'
  BY <1>1, MatchIs DEF StartFails, Feed, Phases, Phase, Situation, Match, Unwritten, state, TypeOK
<1> QED BY <1>1, <1>2, <1>3, <1>4, <1>5, OtherClients, InvIsNext

LEMMA LoopInv == ASSUME Inv, NEW c \in Clients, Loop(c) PROVE Inv'
<1>1. TypeOK /\ Phases /\ ResultsMatchJobs /\ Queues
  BY InvIs
<1>2. TypeOK'
  BY <1>1 DEF Loop, Close, Feed, TypeOK, netvars, subvars, recvars, state
<1>3. Queues'
  BY <1>1, QueuesFrame DEF Loop, queues, netvars, subvars, recvars, state
<1>4. \A d \in Clients \ {c} : UNCHANGED Client(d)
  BY <1>1 DEF Loop, Close, Feed, Client, state, TypeOK
<1>5. Phase(c) /\ Match(c)
  BY <1>1, MatchIs DEF Phases
<1>6. /\ fpc[c] = "loop" /\ fpc'[c] \in {"join", "wait", "recv"}
      /\ fpc'[c] \in {"wait", "recv"} => jobs_in_finished[c] # TRUE /\ child'[c] = child[c]
      /\ fpc'[c] = "recv" => ~(Len(jobs_in[c]) >= loadmax)
      /\ child'[c] = "down" <=> child[c] = "down"
      /\ UNCHANGED <<rdpc, cur, jobs_in, jobs_in_finished, todo, ready>>
  <2>1. fpc \in [Clients -> {"start", "loop", "wait", "recv", "give", "join", "reject", "done"}]
    BY <1>1 DEF TypeOK
  <2>2. child \in [Clients -> {"down", "up", "eof"}]
    BY <1>1 DEF TypeOK
  <2> QED BY <2>1, <2>2 DEF Loop, Close, Feed, state
<1>7. jobs_in[c] \in Seq(Message) /\ loadmax \in Nat
  BY <1>1, ConstantFacts, Queue
<1>8. Match(c)'
  BY <1>5, <1>6 DEF Match
<1>9. Phase(c)'
  <2>1. ready[c] \in Seq(Tasks) /\ todo[c] \in Seq(Tasks)
    BY <1>1, Queue
  <2>2. Situation("loop", rdpc[c], child[c], jobs_in_finished[c], cur[c], jobs_in[c], todo[c], ready[c])
    BY <1>5, <1>6 DEF Phase
  <2>3. Situation(fpc'[c], rdpc[c], child'[c], jobs_in_finished[c], cur[c], jobs_in[c], todo[c], ready[c])
    <3>1. rdpc[c] = "done" => fpc'[c] = "join"
      BY <1>6, <2>2 DEF Situation
    <3>2. /\ child'[c] = "down" <=> child[c] = "down"
          /\ fpc'[c] = "recv" => ~(Len(jobs_in[c]) >= loadmax)
          /\ fpc'[c] \in {"join", "wait", "recv"}
      BY <1>6
    <3> QED BY <1>7, <2>1, <2>2, <3>1, <3>2, SituationLoop
  <2> QED BY <1>6, <2>3 DEF Phase
<1> QED BY <1>1, <1>2, <1>3, <1>4, <1>8, <1>9, OtherClients, InvIsNext

LEMMA JoinInv == ASSUME Inv, NEW c \in Clients, Join(c) PROVE Inv'
<1>1. TypeOK /\ Phases /\ ResultsMatchJobs /\ Queues
  BY InvIs
<1>2. TypeOK'
  BY <1>1 DEF Join, Feed, TypeOK, netvars, subvars, recvars, state, proc
<1>3. Queues'
  BY <1>1, QueuesFrame DEF Join, queues, netvars, subvars, recvars, state
<1>4. \A d \in Clients \ {c} : UNCHANGED Client(d)
  BY <1>1 DEF Join, Feed, Client, state, proc, TypeOK
<1>5. Phase(c)' /\ Match(c)'
  BY <1>1, MatchIs DEF Join, Feed, Phases, Phase, Situation, Match, Unwritten, state, proc, TypeOK
<1> QED BY <1>1, <1>2, <1>3, <1>4, <1>5, OtherClients, InvIsNext

LEMMA SpuriousInv == ASSUME Inv, NEW c \in Clients, Spurious(c) PROVE Inv'
<1>1. TypeOK /\ Phases /\ ResultsMatchJobs /\ Queues
  BY InvIs
<1>2. TypeOK'
  BY <1>1 DEF Spurious, Feed, TypeOK, netvars, subvars, recvars, state, proc
<1>3. Queues'
  BY <1>1, QueuesFrame DEF Spurious, queues, netvars, subvars, recvars, state
<1>4. \A d \in Clients \ {c} : UNCHANGED Client(d)
  BY <1>1 DEF Spurious, Feed, Client, state, proc, TypeOK
<1>5. Phase(c)' /\ Match(c)'
  BY <1>1, MatchIs DEF Spurious, Feed, Phases, Phase, Situation, Match, Unwritten, state, proc, TypeOK
<1> QED BY <1>1, <1>2, <1>3, <1>4, <1>5, OtherClients, InvIsNext

LEMMA ExitInv == ASSUME Inv, NEW c \in Clients, Exit(c) PROVE Inv'
<1>1. TypeOK /\ Phases /\ ResultsMatchJobs /\ Queues
  BY InvIs
<1>2. TypeOK'
  BY <1>1 DEF Exit, TypeOK, netvars, subvars, recvars, state
<1>3. Queues'
  BY <1>1, QueuesFrame DEF Exit, queues, netvars, subvars, recvars, state
<1>4. \A d \in Clients \ {c} : UNCHANGED Client(d)
  BY <1>1 DEF Exit, Client, state, TypeOK
<1>5. Phase(c)' /\ Match(c)'
  BY <1>1, MatchIs DEF Exit, Phases, Phase, Situation, Match, Unwritten, state, TypeOK
<1> QED BY <1>1, <1>2, <1>3, <1>4, <1>5, OtherClients, InvIsNext

LEMMA StartInv == ASSUME Inv, NEW c \in Clients, Start(c) PROVE Inv'
<1>1. TypeOK /\ Phases /\ ResultsMatchJobs /\ Queues
  BY InvIs
<1>2. Phase(c) /\ Match(c)
  BY <1>1, MatchIs DEF Phases
<1>3. fpc[c] = "start" /\ rdpc[c] = "done"
  BY <1>1, <1>2 DEF Start, Phase, Situation, TypeOK
<1>4. jobs_in' = jobs_in /\ jobs_in[c] = <<>> /\ ready[c] = <<>> /\ todo[c] = <<>>
  BY <1>1, <1>2, <1>3 DEF Start, Phase, Situation, TypeOK
<1>5. TypeOK'
  <2>1. <<>> \in Seq({"flush", "finish"})
    BY EmptySeq
  <2>2. messages' \in [Clients -> Seq({"flush", "finish"})]
    BY <1>1, <2>1 DEF Start, TypeOK
  <2>3. fpc' \in [Clients -> {"start", "loop", "wait", "recv", "give", "join", "reject", "done"}]
        /\ rdpc' \in [Clients -> {"read", "done"}] /\ child' \in [Clients -> {"up", "eof", "down"}]
    BY <1>1 DEF Start, Feed, TypeOK
  <2>4. jobs_in_finished' \in [Clients -> BOOLEAN]
    BY <1>1 DEF Start, TypeOK
  <2> QED BY <1>1, <1>4, <2>2, <2>3, <2>4 DEF Start, TypeOK, netvars, subvars, recvars
<1>6. Queues'
  BY <1>1, <1>4, QueuesFrame DEF Start, queues, netvars, subvars, recvars
<1>7. \A d \in Clients \ {c} : UNCHANGED Client(d)
  BY <1>1 DEF Start, Feed, Client, TypeOK
<1>8. /\ fpc'[c] = "loop" /\ rdpc'[c] = "read" /\ child'[c] = "up"
      /\ UNCHANGED <<jobs_in, ready, todo, cur>>
  BY <1>1, <1>4 DEF Start, Feed, TypeOK
<1>9. Match(c)'
  BY <1>2, <1>8 DEF Match
<1>10. Phase(c)'
  <2>1. Len(ready[c]) = 0 /\ Len(todo[c]) = 0 /\ Len(jobs_in[c]) = 0
    BY <1>4
  <2> QED BY <1>8, <2>1 DEF Phase, Situation, Unwritten
<1> QED BY <1>1, <1>5, <1>6, <1>7, <1>9, <1>10, OtherClients, InvIsNext

LEMMA GiveInv == ASSUME Inv, NEW c \in Clients, Give(c) PROVE Inv'
<1>1. TypeOK /\ Phases /\ ResultsMatchJobs /\ Queues
  BY InvIs
<1>2. Phase(c) /\ Match(c)
  BY <1>1, MatchIs DEF Phases
<1>3. /\ fpc[c] = "give" /\ fpc'[c] = "loop" /\ cur[c] \in Tasks
      /\ UNCHANGED <<rdpc, jobs_in, child, ready>>
  BY <1>1, <1>2 DEF Give, Feed, TypeOK, Phase, Situation
<1>4. \/ /\ child[c] # "down" /\ todo' = [todo EXCEPT ![c] = Append(@, cur[c])]
         /\ UNCHANGED <<messages, jobs_in_finished>>
      \/ /\ child[c] = "down" /\ UNCHANGED todo /\ jobs_in_finished'[c]
         /\ messages' = [messages EXCEPT ![c] = Append(@, "flush")]
  BY <1>1 DEF Give, TypeOK
<1>5. TypeOK'
  <2>1. todo' \in [Clients -> Seq(Tasks)] /\ messages' \in [Clients -> Seq({"flush", "finish"})]
    <3>1. \A d \in Clients : todo[d] \in Seq(Tasks) /\ messages[d] \in Seq({"flush", "finish"})
      BY <1>1 DEF TypeOK
    <3>2. Append(todo[c], cur[c]) \in Seq(Tasks) /\ Append(messages[c], "flush") \in Seq({"flush", "finish"})
      BY <1>3, <3>1, AppendProperties
    <3>3. todo \in [Clients -> Seq(Tasks)] /\ messages \in [Clients -> Seq({"flush", "finish"})]
      BY <1>1 DEF TypeOK
    <3> QED BY <1>1, <1>4, <3>2, <3>3
  <2>2. fpc' \in [Clients -> {"start", "loop", "wait", "recv", "give", "join", "reject", "done"}]
        /\ cur' \in [Clients -> 0..Lines]
    <3>1. 0 \in 0..Lines
      BY ConstantFacts
    <3> QED BY <1>1, <3>1 DEF Give, Feed, TypeOK
  <2>3. jobs_in_finished' \in [Clients -> BOOLEAN]
    BY <1>1 DEF Give, TypeOK
  <2> QED BY <1>1, <1>3, <2>1, <2>2, <2>3 DEF Give, TypeOK, netvars, subvars, recvars
<1>6. Queues'
  BY <1>1, QueuesFrame DEF Give, queues, netvars, subvars, recvars
<1>7. \A d \in Clients \ {c} : UNCHANGED Client(d)
  BY <1>1 DEF Give, Feed, Client, TypeOK
<1>8. CASE child[c] = "down"
  <2>1. todo' = todo /\ jobs_in_finished'[c] = TRUE
    BY <1>1, <1>8 DEF Give, TypeOK
  <2>2. Match(c)'
    BY <1>2, <1>3, <2>1 DEF Match
  <2>3. Phase(c)'
    BY <1>2, <1>3, <1>8, <2>1 DEF Phase, Situation, Unwritten
  <2> QED BY <1>1, <1>5, <1>6, <1>7, <2>2, <2>3, OtherClients, InvIsNext
<1>9. CASE child[c] # "down"
  <2>1. todo'[c] = Append(todo[c], cur[c]) /\ UNCHANGED jobs_in_finished
    BY <1>1, <1>4, <1>9 DEF TypeOK
  <2>2. Phase(c)' /\ Match(c)'
    <3>1. /\ ready[c] \in Seq(Tasks) /\ todo[c] \in Seq(Tasks) /\ jobs_in[c] \in Seq(Message)
          /\ rdpc[c] \in {"read", "done"}
      BY <1>1, Queue
    <3>2. /\ Situation("give", rdpc[c], child[c], jobs_in_finished[c], cur[c], jobs_in[c], todo[c], ready[c])
          /\ Fits(ready[c], todo[c], jobs_in[c])
      BY <1>2, <1>3 DEF Phase, Match
    <3>3. /\ Situation("loop", rdpc[c], child[c], jobs_in_finished[c], cur'[c], jobs_in[c], todo'[c], ready[c])
          /\ Fits(ready[c], todo'[c], jobs_in[c])
      BY <1>9, <2>1, <3>1, <3>2, SituationGive
    <3> QED BY <1>3, <2>1, <3>3 DEF Phase, Match
  <2> QED BY <1>1, <1>5, <1>6, <1>7, <2>2, OtherClients, InvIsNext
<1> QED BY <1>8, <1>9

LEMMA DecodeInv == ASSUME Inv, NEW c \in Clients, Decode(c) PROVE Inv'
<1>1. TypeOK /\ Phases /\ ResultsMatchJobs /\ Queues
  BY InvIs
<1>2. /\ ready[c] \in Seq(Tasks) /\ todo[c] \in Seq(Tasks) /\ jobs_in[c] \in Seq(Message)
  BY <1>1, Queue
<1>3. /\ Situation(fpc[c], rdpc[c], child[c], jobs_in_finished[c], cur[c], jobs_in[c], todo[c], ready[c])
      /\ Fits(ready[c], todo[c], jobs_in[c])
  BY <1>1, MatchIs DEF Phases, Phase, Match
<1>4. child[c] # "down" /\ todo[c] # <<>>
  BY DEF Decode
<1>5. ready'[c] = Append(ready[c], Head(todo[c])) /\ todo'[c] = Tail(todo[c])
  BY <1>1 DEF Decode, TypeOK
<1>6. /\ Situation(fpc[c], rdpc[c], child[c], jobs_in_finished[c], cur[c], jobs_in[c], todo'[c], ready'[c])
      /\ Fits(ready'[c], todo'[c], jobs_in[c])
      /\ todo'[c] \in Seq(Tasks) /\ ready'[c] \in Seq(Tasks)
  BY <1>2, <1>3, <1>4, <1>5, SituationDecode
<1>7. TypeOK'
  <2>1. todo' \in [Clients -> Seq(Tasks)] /\ ready' \in [Clients -> Seq(Tasks)]
    BY <1>1, <1>5, <1>6 DEF Decode, TypeOK
  <2> QED BY <1>1, <2>1 DEF Decode, TypeOK, netvars, subvars, recvars, state
<1>8. Queues'
  BY <1>1, QueuesFrame DEF Decode, queues, netvars, subvars, recvars, state
<1>9. \A d \in Clients \ {c} : UNCHANGED Client(d)
  BY <1>1 DEF Decode, Client, state, TypeOK
<1>10. Phase(c)' /\ Match(c)'
  BY <1>6 DEF Phase, Match, Decode, state
<1> QED BY <1>1, <1>7, <1>8, <1>9, <1>10, OtherClients, InvIsNext

LEMMA CrashInv == ASSUME Inv, NEW c \in Clients, Crash(c) PROVE Inv'
<1>1. TypeOK /\ Phases /\ ResultsMatchJobs /\ Queues
  BY InvIs
<1>2. /\ ready[c] \in Seq(Tasks) /\ todo[c] \in Seq(Tasks) /\ jobs_in[c] \in Seq(Message)
  BY <1>1, Queue
<1>3. /\ Situation(fpc[c], rdpc[c], child[c], jobs_in_finished[c], cur[c], jobs_in[c], todo[c], ready[c])
      /\ Fits(ready[c], todo[c], jobs_in[c])
  BY <1>1, MatchIs DEF Phases, Phase, Match
<1>4. child[c] # "down" /\ child'[c] = "down" /\ todo'[c] = <<>>
  BY <1>1 DEF Crash, TypeOK
<1>5. /\ Situation(fpc[c], rdpc[c], "down", jobs_in_finished[c], cur[c], jobs_in[c], <<>>, ready'[c])
      /\ Fits(ready'[c], <<>>, jobs_in[c]) /\ ready'[c] \in Seq(Tasks)
  <2>1. CASE UNCHANGED ready
    BY <1>2, <1>3, <1>4, <2>1, SituationDead
  <2>2. CASE todo[c] # <<>> /\ ready' = [ready EXCEPT ![c] = Append(@, Head(todo[c]))]
    <3>1. ready'[c] = Append(ready[c], Head(todo[c]))
      BY <1>1, <2>2 DEF TypeOK
    <3>2. /\ Situation(fpc[c], rdpc[c], child[c], jobs_in_finished[c], cur[c], jobs_in[c], Tail(todo[c]), ready'[c])
          /\ Fits(ready'[c], Tail(todo[c]), jobs_in[c])
          /\ Tail(todo[c]) \in Seq(Tasks) /\ ready'[c] \in Seq(Tasks)
      BY <1>2, <1>3, <1>4, <2>2, <3>1, SituationDecode
    <3> QED BY <1>2, <1>4, <3>2, SituationDead
  <2> QED BY <2>1, <2>2 DEF Crash
<1>6. TypeOK'
  <2>1. <<>> \in Seq(Tasks)
    BY EmptySeq
  <2>2. todo' \in [Clients -> Seq(Tasks)] /\ ready' \in [Clients -> Seq(Tasks)]
        /\ child' \in [Clients -> {"up", "eof", "down"}]
    BY <1>1, <1>5, <2>1 DEF Crash, TypeOK
  <2>3. faults' \in Nat /\ faults' + overtakings <= MaxFaults
    BY <1>1, ConstantFacts DEF Crash, MayFault, TypeOK
  <2> QED BY <1>1, <2>2, <2>3 DEF Crash, TypeOK, netvars, subvars, recvars, state
<1>7. Queues'
  BY <1>1, QueuesFrame DEF Crash, queues, netvars, subvars, recvars, state
<1>8. \A d \in Clients \ {c} : UNCHANGED Client(d)
  BY <1>1 DEF Crash, Client, state, TypeOK
<1>9. Phase(c)' /\ Match(c)'
  BY <1>4, <1>5 DEF Phase, Match, Crash, state
<1> QED BY <1>1, <1>6, <1>7, <1>8, <1>9, OtherClients, InvIsNext
-----------------------------------------------------------------------------
(* Actions that move messages. *)

LEMMA NetFacts ==
    ASSUME TypeOK, Forms
    PROVE  /\ DOMAIN net = Ranks /\ DOMAIN jobs_in = Clients /\ DOMAIN sload = Clients /\ DOMAIN rload = Clients
           /\ net[receiver] \in Seq(ToReceiver) /\ net[receiver] \in Seq(Message)
           /\ \A c \in Clients : net[c] \in Seq(ToClient) /\ net[c] \in Seq(Message)
           /\ \A c \in Clients : jobs_in[c] \in Seq(Jobs) /\ jobs_in[c] \in Seq(Message)
           /\ \A c \in Clients : Len(jobs_in[c]) \in Nat /\ In(c) \in Nat /\ Back(c) \in Nat
           /\ Asked \in Nat /\ loads \in Seq([Clients -> Int])
           /\ \A c \in Clients : sload[c] \in Int /\ rload[c] \in Int /\ Reported(c) \in Int
<1>1. /\ DOMAIN net = Ranks /\ DOMAIN jobs_in = Clients /\ DOMAIN sload = Clients /\ DOMAIN rload = Clients
  BY DEF TypeOK, Ranks
<1>2. /\ net[receiver] \in Seq(ToReceiver) /\ net[receiver] \in Seq(Message)
      /\ \A c \in Clients : net[c] \in Seq(ToClient) /\ net[c] \in Seq(Message)
      /\ \A c \in Clients : jobs_in[c] \in Seq(Jobs) /\ jobs_in[c] \in Seq(Message)
  BY DEF TypeOK, Forms
<1>3. \A c \in Clients : Len(jobs_in[c]) \in Nat
  BY <1>2
<1>4. Asked \in Nat /\ \A c \in Clients : In(c) \in Nat /\ Back(c) \in Nat
  BY <1>2, PlacesFinite DEF Asked, In, Back
<1>5. loads \in Seq([Clients -> Int]) /\ \A c \in Clients : sload[c] \in Int /\ rload[c] \in Int
  BY DEF TypeOK
<1>6. ASSUME NEW c \in Clients PROVE Reported(c) \in Int
  <2>1. CASE loads = <<>>
    BY <1>5, <2>1 DEF Reported
  <2>2. CASE loads # <<>>
    <3>1. Head(loads) \in [Clients -> Int]
      BY <1>5, <2>2, HeadTailProperties
    <3>2. Head(loads)[c] \in Int
      BY <3>1
    <3> QED BY <1>5, <2>2, <3>2 DEF Reported
  <2> QED BY <2>1, <2>2
<1> QED BY <1>1, <1>2, <1>3, <1>4, <1>5, <1>6

Numbers ==
    /\ \A c \in Clients : Len(jobs_in[c]) \in Nat /\ In(c) \in Nat /\ Back(c) \in Nat
    /\ Asked \in Nat
    /\ \A c \in Clients : sload[c] \in Int /\ rload[c] \in Int /\ Reported(c) \in Int

LEMMA NumbersFacts == TypeOK /\ Forms => Numbers
BY NetFacts DEF Numbers

LEMMA NetFactsNext ==
    ASSUME TypeOK', Forms'
    PROVE  /\ \A c \in Clients : Len(jobs_in'[c]) \in Nat /\ In(c)' \in Nat /\ Back(c)' \in Nat
           /\ Asked' \in Nat
           /\ \A c \in Clients : sload'[c] \in Int /\ rload'[c] \in Int /\ Reported(c)' \in Int
<1>1. Numbers'
  BY NumbersFacts, PTL
<1> QED BY <1>1 DEF Numbers

LEMMA CountsKept ==
    ASSUME Forms, LoadsAgree, Forms', loads' = loads,
           \A d \in Clients : /\ In(d)' + Len(jobs_in'[d]) + Back(d)' = In(d) + Len(jobs_in[d]) + Back(d)
                              /\ sload'[d] - Reported(d)' = sload[d] - Reported(d)
    PROVE  LoadsAgree'
<1>1. Counts
  BY LoadsIs
<1>2. Counts'
  BY <1>1 DEF Counts
<1> QED BY <1>2, LoadsIsNext

LEMMA SeqWiden ==
    ASSUME NEW S, NEW T, S \subseteq T, NEW s \in Seq(S)
    PROVE  s \in Seq(T)
<1>1. \A i \in 1..Len(s) : s[i] \in T
  OBVIOUS
<1>2. s \in [1..Len(s) -> T] /\ Len(s) \in Nat
  BY <1>1
<1> QED BY <1>2

LEMMA ArrivesFacts ==
    ASSUME TypeOK, NEW r, NEW i, Arrives(r, i)
    PROVE  overtakings' \in Nat /\ faults + overtakings' <= MaxFaults
<1>1. overtakings \in Nat /\ faults \in Nat /\ faults + overtakings <= MaxFaults /\ MaxFaults \in Nat
  BY ConstantFacts DEF TypeOK
<1>2. CASE overtakings' = overtakings
  BY <1>1, <1>2
<1>3. CASE overtakings' = overtakings + 1 /\ faults + overtakings < MaxFaults
  BY <1>1, <1>3
<1> QED BY <1>2, <1>3 DEF Arrives, MayFault

(* Tasks that are put into one queue and were in no other, or are taken from it. *)
LEMMA MoveToNet ==
    ASSUME Apart, NEW h \in Ranks, NEW X,
           Carried(net'[h]) \subseteq Carried(net[h]) \cup X,
           \A r \in Ranks \ {h} : Carried(net'[r]) \subseteq Carried(net[r]) \ X,
           \A c \in Clients : Carried(jobs_in'[c]) \subseteq Carried(jobs_in[c]) \ X,
           \A r \in Ranks : Distinct(net'[r]), \A c \in Clients : Distinct(jobs_in'[c])
    PROVE  Apart'
<1>1. \A r, q \in Ranks : r # q => Carried(net'[r]) \cap Carried(net'[q]) = {}
  <2> SUFFICES ASSUME NEW r \in Ranks, NEW q \in Ranks, r # q
               PROVE  Carried(net'[r]) \cap Carried(net'[q]) = {}
    OBVIOUS
  <2>1. Carried(net[r]) \cap Carried(net[q]) = {}
    BY DEF Apart
  <2>2. CASE r # h /\ q # h
    BY <2>1, <2>2
  <2>3. CASE r = h
    BY <2>1, <2>3
  <2>4. CASE q = h
    BY <2>1, <2>4
  <2> QED BY <2>2, <2>3, <2>4
<1>2. \A c, d \in Clients : c # d => Carried(jobs_in'[c]) \cap Carried(jobs_in'[d]) = {}
  BY DEF Apart
<1>3. \A r \in Ranks, c \in Clients : Carried(net'[r]) \cap Carried(jobs_in'[c]) = {}
  <2> SUFFICES ASSUME NEW r \in Ranks, NEW c \in Clients
               PROVE  Carried(net'[r]) \cap Carried(jobs_in'[c]) = {}
    OBVIOUS
  <2>1. Carried(net[r]) \cap Carried(jobs_in[c]) = {}
    BY DEF Apart
  <2>2. CASE r # h
    BY <2>1, <2>2
  <2>3. CASE r = h
    BY <2>1, <2>3
  <2> QED BY <2>2, <2>3
<1> QED BY <1>1, <1>2, <1>3 DEF Apart

LEMMA MoveNothing ==
    ASSUME Apart, \A r \in Ranks : Carried(net'[r]) \subseteq Carried(net[r]) /\ Distinct(net'[r]),
           \A c \in Clients : Carried(jobs_in'[c]) \subseteq Carried(jobs_in[c]) /\ Distinct(jobs_in'[c])
    PROVE  Apart'
<1>1. \A r, q \in Ranks : r # q => Carried(net'[r]) \cap Carried(net'[q]) = {}
  BY DEF Apart
<1>2. \A c, d \in Clients : c # d => Carried(jobs_in'[c]) \cap Carried(jobs_in'[d]) = {}
  BY DEF Apart
<1>3. \A r \in Ranks, c \in Clients : Carried(net'[r]) \cap Carried(jobs_in'[c]) = {}
  BY DEF Apart
<1> QED BY <1>1, <1>2, <1>3 DEF Apart

LEMMA MoveToJobs ==
    ASSUME Apart, NEW h \in Clients, NEW X,
           Carried(jobs_in'[h]) \subseteq Carried(jobs_in[h]) \cup X,
           \A r \in Ranks : Carried(net'[r]) \subseteq Carried(net[r]) \ X,
           \A c \in Clients \ {h} : Carried(jobs_in'[c]) \subseteq Carried(jobs_in[c]) \ X,
           \A r \in Ranks : Distinct(net'[r]), \A c \in Clients : Distinct(jobs_in'[c])
    PROVE  Apart'
<1>1. \A r, q \in Ranks : r # q => Carried(net'[r]) \cap Carried(net'[q]) = {}
  BY DEF Apart
<1>2. \A c, d \in Clients : c # d => Carried(jobs_in'[c]) \cap Carried(jobs_in'[d]) = {}
  <2> SUFFICES ASSUME NEW r \in Clients, NEW q \in Clients, r # q
               PROVE  Carried(jobs_in'[r]) \cap Carried(jobs_in'[q]) = {}
    OBVIOUS
  <2>1. Carried(jobs_in[r]) \cap Carried(jobs_in[q]) = {}
    BY DEF Apart
  <2>2. CASE r # h /\ q # h
    BY <2>1, <2>2
  <2>3. CASE r = h
    BY <2>1, <2>3
  <2>4. CASE q = h
    BY <2>1, <2>4
  <2> QED BY <2>2, <2>3, <2>4
<1>3. \A r \in Ranks, c \in Clients : Carried(net'[r]) \cap Carried(jobs_in'[c]) = {}
  <2> SUFFICES ASSUME NEW r \in Ranks, NEW c \in Clients
               PROVE  Carried(net'[r]) \cap Carried(jobs_in'[c]) = {}
    OBVIOUS
  <2>1. Carried(net[r]) \cap Carried(jobs_in[c]) = {}
    BY DEF Apart
  <2>2. CASE c # h
    BY <2>1, <2>2
  <2>3. CASE c = h
    BY <2>1, <2>3
  <2> QED BY <2>2, <2>3
<1> QED BY <1>1, <1>2, <1>3 DEF Apart

LEMMA OpenFrame ==
    UNCHANGED <<answers, jobs_out, minrecv, rpc, spc, count>> =>
        Open' = Open /\ (Recorded => Recorded')
BY DEF Open, Recorded

(* One message is taken from the queue of a client. *)
LEMMA TakeFacts ==
    ASSUME TypeOK, Forms, Apart, NEW c \in Clients, NEW i \in DOMAIN net[c],
           net'[c] = RemoveAt(net[c], i)
    PROVE  /\ net'[c] \in Seq(ToClient) /\ net[c][i] \in ToClient
           /\ Carried(net'[c]) = Carried(net[c]) \ {net[c][i].task} /\ Distinct(net'[c])
           /\ net[c][i].task # 0 => net[c][i].task \in Carried(net[c])
           /\ In(c)' = In(c) - (IF net[c][i] \in Jobs THEN 1 ELSE 0)
<1>1. net[c] \in Seq(ToClient) /\ Distinct(net[c])
  BY NetFacts, ConstantFacts DEF Apart
<1>2. i \in 1..Len(net[c]) /\ net[c][i] \in ToClient
  BY <1>1
<1>3. net'[c] \in Seq(ToClient)
  BY <1>1, <1>2, RemoveAtFacts
<1>4. /\ Carried(net'[c]) = Carried(net[c]) \ {net[c][i].task} /\ Distinct(net'[c])
      /\ net[c][i].task # 0 => net[c][i].task \in Carried(net[c])
  BY <1>1, <1>2, CarriedRemove
<1>5. In(c)' = In(c) - (IF net[c][i] \in Jobs THEN 1 ELSE 0)
  BY <1>1, <1>2, CountRemove DEF In
<1> QED BY <1>2, <1>3, <1>4, <1>5

LEMMA RecvInv == ASSUME Inv, NEW c \in Clients, Recv(c) PROVE Inv'
<1>1. TypeOK /\ Phases /\ ResultsMatchJobs /\ Forms /\ Apart /\ OnlyOpen /\ Recorded /\ OneRequest /\ LoadsAgree
  BY DEF Inv
<1>2. PICK i \in DOMAIN net[c] :
        /\ Arrives(c, i) /\ net' = Taken(c, i)
        /\ \/ /\ net[c][i].type \in {"flush", "finish"}
              /\ messages' = [messages EXCEPT ![c] = Append(@, net[c][i].type)]
              /\ jobs_in_finished' = [jobs_in_finished EXCEPT ![c] = TRUE]
              /\ Close(c)
              /\ UNCHANGED <<jobs_in, cur>>
           \/ /\ net[c][i].type = "input"
              /\ jobs_in' = [jobs_in EXCEPT ![c] = Append(@, net[c][i])]
              /\ cur' = [cur EXCEPT ![c] = net[c][i].task]
              /\ Feed(c, "give")
              /\ UNCHANGED <<messages, jobs_in_finished, child>>
  BY DEF Recv
<1>3. /\ fpc[c] = "recv"
      /\ UNCHANGED <<loads, subvars, recvars, rdpc, todo, ready, faults>>
  BY DEF Recv
<1>4. overtakings' \in Nat /\ faults + overtakings' <= MaxFaults
  BY <1>1, <1>2, ArrivesFacts
<1>5. net'[c] = RemoveAt(net[c], i) /\ \A r \in Ranks \ {c} : net'[r] = net[r]
  BY <1>1, <1>2, NetFacts, ConstantFacts DEF Taken
<1>6. DOMAIN net' = Ranks /\ net' = [r \in Ranks |-> net'[r]]
  BY <1>1, <1>2, NetFacts, ConstantFacts DEF Taken
<1> DEFINE m == net[c][i]
<1>7. /\ net'[c] \in Seq(ToClient) /\ m \in ToClient
      /\ Carried(net'[c]) = Carried(net[c]) \ {m.task} /\ Distinct(net'[c])
      /\ m.task # 0 => m.task \in Carried(net[c])
      /\ In(c)' = In(c) - (IF m \in Jobs THEN 1 ELSE 0)
  BY <1>1, <1>5, TakeFacts
<1>8. net'[receiver] = net[receiver] /\ Asked' = Asked
      /\ \A d \in Clients : Back(d)' = Back(d) /\ Reported(d)' = Reported(d)
  BY <1>3, <1>5, ConstantFacts DEF Asked, Back, Reported, recvars
<1>9. \A d \in Clients \ {c} : In(d)' = In(d)
  BY <1>5, ConstantFacts DEF In
<1>10. Recorded' /\ Open' = Open /\ OneRequest'
  BY <1>1, <1>3, <1>8, OpenFrame DEF OneRequest, subvars, recvars
<1>11. net' \in [Ranks -> Seq(Message)]
  <2>1. \A r \in Ranks : net'[r] \in Seq(Message)
    <3>1. net'[c] \in Seq(Message)
      BY <1>7, FormFacts, SeqWiden
    <3>2. \A r \in Ranks : net[r] \in Seq(Message)
      BY <1>1, NetFacts, ConstantFacts
    <3> QED BY <1>5, <3>1, <3>2
  <2> QED BY <1>6, <2>1
<1> HIDE DEF m
<1>12. CASE /\ m.type \in {"flush", "finish"}
            /\ messages' = [messages EXCEPT ![c] = Append(@, m.type)]
            /\ jobs_in_finished' = [jobs_in_finished EXCEPT ![c] = TRUE]
            /\ Close(c)
            /\ UNCHANGED <<jobs_in, cur>>
  <2>1. m \notin Jobs /\ m.task = 0
    BY <1>7, <1>12, FormFacts
  <2>2. TypeOK'
    <3>1. Append(messages[c], m.type) \in Seq({"flush", "finish"})
      BY <1>1, <1>12, Queue, AppendProperties
    <3>2. messages' \in [Clients -> Seq({"flush", "finish"})]
      BY <1>1, <1>12, <3>1 DEF TypeOK
    <3>3. jobs_in_finished' \in [Clients -> BOOLEAN]
      BY <1>1, <1>12 DEF TypeOK
    <3>4. fpc' \in [Clients -> {"start", "loop", "wait", "recv", "give", "join", "reject", "done"}]
          /\ child' \in [Clients -> {"up", "eof", "down"}]
      BY <1>1, <1>12 DEF TypeOK, Close, Feed
    <3> QED BY <1>1, <1>3, <1>4, <1>11, <1>12, <3>2, <3>3, <3>4 DEF TypeOK, subvars, recvars, Ranks
  <2>3. Forms'
    BY <1>1, <1>5, <1>7, <1>8, <1>12, ConstantFacts DEF Forms
  <2>4. \A r \in Ranks : Carried(net'[r]) \subseteq Carried(net[r]) /\ Distinct(net'[r])
    BY <1>1, <1>5, <1>7 DEF Apart
  <2>5. Apart'
    <3>1. \A d \in Clients : Carried(jobs_in'[d]) = Carried(jobs_in[d]) /\ Distinct(jobs_in'[d])
      BY <1>1, <1>12 DEF Apart
    <3> QED BY <1>1, <2>4, <3>1, MoveNothing
  <2>6. OnlyOpen'
    BY <1>1, <1>10, <1>12, <2>4 DEF OnlyOpen
  <2>7. LoadsAgree'
    <3>1. \A d \in Clients : In(d)' = In(d)
      BY <1>1, <1>7, <1>9, <2>1, NetFacts
    <3> QED BY <1>1, <1>3, <1>8, <1>12, <2>3, <3>1, LoadsIs, LoadsIsNext DEF Counts, subvars
  <2>8. \A d \in Clients \ {c} : UNCHANGED Client(d)
    BY <1>1, <1>3, <1>12 DEF Client, TypeOK, Close, Feed
  <2>9. Phase(c)' /\ Match(c)'
    <3>1. /\ ready[c] \in Seq(Tasks) /\ todo[c] \in Seq(Tasks) /\ jobs_in[c] \in Seq(Message)
      BY <1>1, Queue
    <3>2. /\ Situation("recv", rdpc[c], child[c], jobs_in_finished[c], cur[c], jobs_in[c], todo[c], ready[c])
          /\ Fits(ready[c], todo[c], jobs_in[c])
      BY <1>1, <1>3, MatchIs DEF Phases, Phase, Match
    <3>3. fpc'[c] = "join" /\ (child'[c] = "down" <=> child[c] = "down")
      BY <1>1, <1>12 DEF TypeOK, Close, Feed
    <3>4. Situation("join", rdpc[c], child'[c], jobs_in_finished'[c], cur[c], jobs_in[c], todo[c], ready[c])
      BY <3>1, <3>2, <3>3, SituationClose
    <3> QED BY <1>3, <1>12, <3>2, <3>3, <3>4 DEF Phase, Match
  <2>10. Phases' /\ ResultsMatchJobs'
    BY <1>1, <2>2, <2>8, <2>9, OtherClients
  <2> QED BY <1>10, <2>2, <2>3, <2>5, <2>6, <2>7, <2>10 DEF Inv
<1>13. CASE /\ m.type = "input"
            /\ jobs_in' = [jobs_in EXCEPT ![c] = Append(@, m)]
            /\ cur' = [cur EXCEPT ![c] = m.task]
            /\ Feed(c, "give")
            /\ UNCHANGED <<messages, jobs_in_finished, child>>
  <2>1. m \in Jobs /\ m \in Message /\ m.task \in Tasks /\ m.task # 0
    BY <1>7, <1>13, FormFacts, ConstantFacts
  <2>2. jobs_in'[c] = Append(jobs_in[c], m) /\ \A d \in Clients \ {c} : jobs_in'[d] = jobs_in[d]
    BY <1>1, <1>13, NetFacts
  <2>3. jobs_in[c] \in Seq(Jobs) /\ jobs_in[c] \in Seq(Message)
    BY <1>1, NetFacts
  <2>4. jobs_in'[c] \in Seq(Jobs) /\ jobs_in'[c] \in Seq(Message) /\ Len(jobs_in'[c]) = Len(jobs_in[c]) + 1
    BY <2>1, <2>2, <2>3, AppendProperties
  <2>5. /\ Situation("give", rdpc[c], child[c], jobs_in_finished[c], m.task, jobs_in'[c], todo[c], ready[c])
        /\ Fits(ready[c], todo[c], jobs_in'[c]) /\ Len(jobs_in'[c]) <= loadmax
    <3>1. /\ ready[c] \in Seq(Tasks) /\ todo[c] \in Seq(Tasks) /\ rdpc[c] \in {"read", "done"}
      BY <1>1, Queue
    <3>2. /\ Situation("recv", rdpc[c], child[c], jobs_in_finished[c], cur[c], jobs_in[c], todo[c], ready[c])
          /\ Fits(ready[c], todo[c], jobs_in[c])
      BY <1>1, <1>3, MatchIs DEF Phases, Phase, Match
    <3>3. /\ Situation("give", rdpc[c], child[c], jobs_in_finished[c], m.task, Append(jobs_in[c], m), todo[c], ready[c])
          /\ Fits(ready[c], todo[c], Append(jobs_in[c], m)) /\ Len(Append(jobs_in[c], m)) <= loadmax
      BY <2>1, <2>3, <3>1, <3>2, SituationTake
    <3> QED BY <2>2, <3>3
  <2>6. TypeOK'
    <3>1. jobs_in' \in [Clients -> Seq(Message)]
      BY <1>1, <1>13, <2>2, <2>4 DEF TypeOK
    <3>2. \A d \in Clients : Len(jobs_in'[d]) <= loadmax
      BY <1>1, <2>2, <2>5 DEF TypeOK
    <3>3. fpc' \in [Clients -> {"start", "loop", "wait", "recv", "give", "join", "reject", "done"}]
      BY <1>1, <1>13 DEF TypeOK, Feed
    <3>4. cur' \in [Clients -> 0..Lines]
      <4>1. m.task \in 0..Lines
        BY <2>1, ConstantFacts DEF Tasks
      <4> QED BY <1>1, <1>13, <4>1 DEF TypeOK
    <3> QED BY <1>1, <1>3, <1>4, <1>11, <1>13, <3>1, <3>2, <3>3, <3>4 DEF TypeOK, subvars, recvars, Ranks
  <2>7. Forms'
    BY <1>1, <1>5, <1>7, <1>8, <2>2, <2>4, ConstantFacts DEF Forms
  <2>8. /\ Carried(jobs_in'[c]) = Carried(jobs_in[c]) \cup {m.task} /\ Distinct(jobs_in'[c])
    <3>1. Distinct(jobs_in[c]) /\ m.task \notin Carried(jobs_in[c])
      BY <1>1, <1>7, <2>1, ConstantFacts DEF Apart
    <3> QED BY <2>1, <2>2, <2>3, <3>1, CarriedAppend
  <2>9. \A r \in Ranks : Carried(net'[r]) \subseteq Carried(net[r]) \ {m.task} /\ Distinct(net'[r])
    <3>1. \A r \in Ranks \ {c} : m.task \notin Carried(net[r])
      BY <1>1, <1>7, <2>1, ConstantFacts DEF Apart
    <3> QED BY <1>1, <1>5, <1>7, <3>1 DEF Apart
  <2>10. \A d \in Clients \ {c} : Carried(jobs_in'[d]) \subseteq Carried(jobs_in[d]) \ {m.task} /\ Distinct(jobs_in'[d])
    BY <1>1, <1>7, <2>1, <2>2, ConstantFacts DEF Apart
  <2>11. Apart'
    BY <1>1, <2>8, <2>9, <2>10, MoveToJobs
  <2>12. OnlyOpen'
    <3>1. m.task \in Open
      BY <1>1, <1>7, <2>1, ConstantFacts DEF OnlyOpen
    <3>2. \A r \in Ranks : Carried(net'[r]) \subseteq Open
      BY <1>1, <2>9 DEF OnlyOpen
    <3>3. \A d \in Clients : Carried(jobs_in'[d]) \subseteq Open
      BY <1>1, <2>2, <2>8, <3>1 DEF OnlyOpen
    <3> QED BY <1>10, <3>2, <3>3 DEF OnlyOpen
  <2>13. LoadsAgree'
    <3>1. \A d \in Clients : In(d)' + Len(jobs_in'[d]) = In(d) + Len(jobs_in[d])
      <4>1. In(c)' = In(c) - 1 /\ In(c) \in Nat /\ Len(jobs_in[c]) \in Nat
        BY <1>1, <1>7, <2>1, NetFacts
      <4>2. In(c)' + Len(jobs_in'[c]) = In(c) + Len(jobs_in[c])
        BY <2>4, <4>1
      <4> QED BY <1>9, <2>2, <4>2
    <3>2. \A d \in Clients : In(d)' \in Nat /\ Len(jobs_in'[d]) \in Nat
      BY <2>6, <2>7, NetFactsNext
    <3> QED BY <1>1, <1>3, <1>8, <2>7, <3>1, <3>2, LoadsIs, LoadsIsNext, NetFacts DEF Counts, subvars
  <2>14. \A d \in Clients \ {c} : UNCHANGED Client(d)
    BY <1>1, <1>3, <1>13 DEF Client, TypeOK, Feed
  <2>15. Phase(c)' /\ Match(c)'
    <3>1. fpc'[c] = "give" /\ cur'[c] = m.task
      BY <1>1, <1>13 DEF TypeOK, Feed
    <3> QED BY <1>3, <1>13, <2>5, <3>1 DEF Phase, Match
  <2>16. Phases' /\ ResultsMatchJobs'
    BY <1>1, <2>6, <2>14, <2>15, OtherClients
  <2> QED BY <1>10, <2>6, <2>7, <2>11, <2>12, <2>13, <2>16 DEF Inv
<1> QED BY <1>2, <1>12, <1>13 DEF m

(* One message is sent to the receiver. *)
LEMMA SendFacts ==
    ASSUME TypeOK, Forms, Apart, NEW m \in ToReceiver, m.task \notin Carried(net[receiver]),
           net'[receiver] = Append(net[receiver], m)
    PROVE  /\ net'[receiver] \in Seq(ToReceiver)
           /\ Carried(net'[receiver]) = Carried(net[receiver]) \cup ({m.task} \ {0})
           /\ Distinct(net'[receiver])
           /\ \A d \in Clients : Back(d)' = Back(d) + (IF m.src = d THEN 1 ELSE 0)
           /\ Asked' = Asked + (IF m.type = "clientload" THEN 1 ELSE 0)
<1>1. net[receiver] \in Seq(ToReceiver) /\ Distinct(net[receiver]) /\ m \in Message
  BY NetFacts, ConstantFacts, FormFacts DEF Apart
<1>2. net'[receiver] \in Seq(ToReceiver)
  BY <1>1, AppendProperties
<1>3. /\ Carried(net'[receiver]) = Carried(net[receiver]) \cup ({m.task} \ {0})
      /\ Distinct(net'[receiver])
  BY <1>1, CarriedAppend
<1>4. \A d \in Clients : Back(d)' = Back(d) + (IF m.src = d THEN 1 ELSE 0)
  <2> SUFFICES ASSUME NEW d \in Clients PROVE Back(d)' = Back(d) + (IF m.src = d THEN 1 ELSE 0)
    OBVIOUS
  <2>1. m \in From(d) <=> m.src = d
    BY <1>1 DEF From
  <2> QED BY <1>1, <2>1, CountAppend DEF Back
<1>5. Asked' = Asked + (IF m.type = "clientload" THEN 1 ELSE 0)
  <2>1. m \in Requests <=> m.type = "clientload"
    BY <1>1 DEF Requests
  <2> QED BY <1>1, <2>1, CountAppend DEF Asked
<1> QED BY <1>2, <1>3, <1>4, <1>5

LEMMA RejectInv == ASSUME Inv, NEW c \in Clients, Reject(c) PROVE Inv'
<1>1. TypeOK /\ Phases /\ ResultsMatchJobs /\ Forms /\ Apart /\ OnlyOpen /\ Recorded /\ OneRequest /\ LoadsAgree
  BY DEF Inv
<1>2. PICK i \in DOMAIN net[c] :
        /\ Arrives(c, i)
        /\ net' = IF net[c][i].type = "input"
                  THEN [Taken(c, i) EXCEPT ![receiver] = Append(@, [net[c][i] EXCEPT !.src = c])]
                  ELSE Taken(c, i)
        /\ Feed(c, IF net[c][i].type = "finish" THEN "done" ELSE "reject")
  BY DEF Reject
<1>3. fpc[c] = "reject" /\ UNCHANGED <<loads, subvars, recvars, rdpc, cur, state, proc>>
  BY DEF Reject
<1>4. overtakings' \in Nat /\ faults + overtakings' <= MaxFaults
  BY <1>1, <1>2, ArrivesFacts
<1> DEFINE m == net[c][i]
           b == [m EXCEPT !.src = c]
<1>5. /\ net'[c] = RemoveAt(net[c], i) /\ \A r \in Ranks \ {c, receiver} : net'[r] = net[r]
      /\ net'[receiver] = IF m.type = "input" THEN Append(net[receiver], b) ELSE net[receiver]
      /\ DOMAIN net' = Ranks /\ net' = [r \in Ranks |-> net'[r]]
  BY <1>1, <1>2, NetFacts, ConstantFacts DEF Taken
<1>6. /\ net'[c] \in Seq(ToClient) /\ m \in ToClient
      /\ Carried(net'[c]) = Carried(net[c]) \ {m.task} /\ Distinct(net'[c])
      /\ m.task # 0 => m.task \in Carried(net[c])
      /\ In(c)' = In(c) - (IF m \in Jobs THEN 1 ELSE 0)
  BY <1>1, <1>5, TakeFacts
<1>7. m \in Jobs => b \in ToReceiver /\ b.task = m.task /\ b.src = c /\ b.type = "input"
  <2> SUFFICES ASSUME m \in Jobs PROVE b \in ToReceiver /\ b.task = m.task /\ b.src = c /\ b.type = "input"
    OBVIOUS
  <2>1. m \in Message /\ m.type = "input" /\ m.task \in Tasks
    BY FormFacts DEF Jobs
  <2>2. b \in Message /\ b.task = m.task /\ b.src = c /\ b.type = "input"
    BY <2>1 DEF Message
  <2> QED BY <2>1, <2>2 DEF ToReceiver
<1> HIDE DEF m, b
<1>8. \A d \in Clients \ {c} : In(d)' = In(d)
  BY <1>5, ConstantFacts DEF In
<1>9. \A d \in Clients : Reported(d)' = Reported(d)
  BY <1>3 DEF Reported, recvars
<1>10. Recorded' /\ Open' = Open
  BY <1>1, <1>3, OpenFrame DEF subvars, recvars
<1>11. m \in Jobs <=> m.type = "input"
  BY <1>6, FormFacts
<1>12. (m \in Jobs => m.task \in Tasks /\ m.task # 0) /\ (m \notin Jobs => m.task = 0)
  BY <1>6, FormFacts, ConstantFacts
<1>13. /\ net'[receiver] \in Seq(ToReceiver)
       /\ Carried(net'[receiver]) = Carried(net[receiver]) \cup ({m.task} \ {0}) /\ Distinct(net'[receiver])
       /\ \A d \in Clients : Back(d)' = Back(d) + (IF d = c /\ m \in Jobs THEN 1 ELSE 0)
       /\ Asked' = Asked
  <2>1. CASE m \in Jobs
    <3>1. m.task \notin Carried(net[receiver])
      BY <1>1, <1>6, <1>12, <2>1, ConstantFacts DEF Apart
    <3>2. net'[receiver] = Append(net[receiver], b)
      BY <1>5, <1>11, <2>1
    <3>3. /\ net'[receiver] \in Seq(ToReceiver)
          /\ Carried(net'[receiver]) = Carried(net[receiver]) \cup ({b.task} \ {0}) /\ Distinct(net'[receiver])
          /\ \A d \in Clients : Back(d)' = Back(d) + (IF b.src = d THEN 1 ELSE 0)
          /\ Asked' = Asked + (IF b.type = "clientload" THEN 1 ELSE 0)
      BY <1>1, <1>7, <2>1, <3>1, <3>2, SendFacts
    <3>4. Asked' = Asked
      BY <1>1, <1>7, <2>1, <3>3, NetFacts
    <3>5. \A d \in Clients : Back(d)' = Back(d) + (IF d = c /\ m \in Jobs THEN 1 ELSE 0)
      BY <1>7, <2>1, <3>3
    <3> QED BY <1>7, <2>1, <3>3, <3>4, <3>5
  <2>2. CASE m \notin Jobs
    <3>1. net'[receiver] = net[receiver]
      BY <1>5, <1>11, <2>2
    <3>2. Asked' = Asked /\ \A d \in Clients : Back(d)' = Back(d) /\ Back(d) \in Nat
      BY <1>1, <3>1, NetFacts DEF Asked, Back
    <3>3. net[receiver] \in Seq(ToReceiver) /\ Distinct(net[receiver])
      BY <1>1, NetFacts, ConstantFacts DEF Apart
    <3> QED BY <1>12, <2>2, <3>1, <3>2, <3>3
  <2> QED BY <2>1, <2>2
<1>14. OneRequest'
  BY <1>1, <1>3, <1>13 DEF OneRequest, subvars, recvars
<1>15. TypeOK'
  <2>1. \A r \in Ranks : net'[r] \in Seq(Message)
    <3>1. net'[c] \in Seq(Message) /\ net'[receiver] \in Seq(Message)
      BY <1>6, <1>13, FormFacts, SeqWiden
    <3>2. \A r \in Ranks : net[r] \in Seq(Message)
      BY <1>1, NetFacts, ConstantFacts
    <3> QED BY <1>5, <3>1, <3>2
  <2>2. net' \in [Ranks -> Seq(Message)]
    BY <1>5, <2>1
  <2>3. fpc' \in [Clients -> {"start", "loop", "wait", "recv", "give", "join", "reject", "done"}]
    BY <1>1, <1>2 DEF TypeOK, Feed
  <2> QED BY <1>1, <1>3, <1>4, <2>2, <2>3 DEF TypeOK, subvars, recvars, Ranks, state, proc
<1>16. jobs_in' = jobs_in
  BY <1>3 DEF state
<1>17. Forms'
  <2>1. \A d \in Clients : net'[d] \in Seq(ToClient)
    BY <1>1, <1>5, <1>6, ConstantFacts DEF Forms
  <2> QED BY <1>1, <1>13, <1>16, <2>1 DEF Forms
<1>18. Apart'
  <2> DEFINE X == {m.task} \ {0}
  <2>1. X \subseteq Carried(net[c])
    BY <1>6
  <2>2. \A r \in Ranks \ {receiver} : Carried(net'[r]) \subseteq Carried(net[r]) \ X
    <3>1. \A r \in Ranks \ {c} : Carried(net[r]) \cap Carried(net[c]) = {}
      BY <1>1, ConstantFacts DEF Apart
    <3> QED BY <1>5, <1>6, <2>1, <3>1
  <2>3. \A d \in Clients : Carried(jobs_in'[d]) \subseteq Carried(jobs_in[d]) \ X
    <3>1. \A d \in Clients : Carried(net[c]) \cap Carried(jobs_in[d]) = {}
      BY <1>1, ConstantFacts DEF Apart
    <3> QED BY <1>16, <2>1, <3>1
  <2>4. (\A r \in Ranks : Distinct(net'[r])) /\ (\A d \in Clients : Distinct(jobs_in'[d]))
    BY <1>1, <1>5, <1>6, <1>13, <1>16 DEF Apart
  <2>5. Carried(net'[receiver]) \subseteq Carried(net[receiver]) \cup X
    BY <1>13
  <2> HIDE DEF X
  <2> QED BY <1>1, <2>2, <2>3, <2>4, <2>5, ConstantFacts, MoveToNet
<1>19. OnlyOpen'
  <2>1. {m.task} \ {0} \subseteq Open
    BY <1>1, <1>6, ConstantFacts DEF OnlyOpen
  <2>2. \A r \in Ranks : Carried(net'[r]) \subseteq Open
    BY <1>1, <1>5, <1>6, <1>13, <2>1 DEF OnlyOpen
  <2> QED BY <1>1, <1>10, <1>16, <2>2 DEF OnlyOpen
<1>20. LoadsAgree'
  <2>1. \A d \in Clients : In(d)' + Back(d)' = In(d) + Back(d)
    <3>1. In(c)' + Back(c)' = In(c) + Back(c)
      BY <1>1, <1>6, <1>13, NetFacts
    <3>2. \A d \in Clients \ {c} : Back(d)' = Back(d)
      BY <1>1, <1>13, NetFacts
    <3> QED BY <1>8, <3>1, <3>2
  <2>2. \A d \in Clients : In(d)' \in Nat /\ Back(d)' \in Nat
    BY <1>15, <1>17, NetFactsNext
  <2>3. \A d \in Clients : /\ In(d)' + Len(jobs_in'[d]) + Back(d)' = In(d) + Len(jobs_in[d]) + Back(d)
                           /\ sload'[d] - Reported(d)' = sload[d] - Reported(d)
    <3> SUFFICES ASSUME NEW d \in Clients
                 PROVE  /\ In(d)' + Len(jobs_in'[d]) + Back(d)' = In(d) + Len(jobs_in[d]) + Back(d)
                        /\ sload'[d] - Reported(d)' = sload[d] - Reported(d)
      OBVIOUS
    <3>1. sload'[d] - Reported(d)' = sload[d] - Reported(d) /\ Len(jobs_in'[d]) = Len(jobs_in[d])
      BY <1>3, <1>9, <1>16 DEF subvars
    <3>2. In(d) \in Nat /\ Len(jobs_in[d]) \in Nat /\ Back(d) \in Nat
      BY <1>1, NetFacts
    <3>3. In(d)' \in Nat /\ Back(d)' \in Nat /\ In(d)' + Back(d)' = In(d) + Back(d)
      BY <2>1, <2>2
    <3>4. In(d)' + Len(jobs_in[d]) + Back(d)' = In(d) + Len(jobs_in[d]) + Back(d)
      BY <3>2, <3>3
    <3> QED BY <3>1, <3>4
  <2>4. loads' = loads
    BY <1>3
  <2> QED BY <1>1, <1>17, <2>3, <2>4, CountsKept
<1>21. Phases' /\ ResultsMatchJobs'
  <2>1. \A d \in Clients \ {c} : UNCHANGED Client(d)
    BY <1>1, <1>2, <1>3 DEF Client, TypeOK, Feed, state, proc
  <2>2. Phase(c) /\ Match(c)
    BY <1>1, MatchIs DEF Phases
  <2>3. fpc'[c] \in {"done", "reject"}
    BY <1>1, <1>2 DEF TypeOK, Feed
  <2>4. Phase(c)' /\ Match(c)'
    BY <1>3, <2>2, <2>3 DEF Phase, Situation, Unwritten, Match, state, proc
  <2> QED BY <1>1, <1>15, <2>1, <2>4, OtherClients
<1> QED BY <1>10, <1>14, <1>15, <1>17, <1>18, <1>19, <1>20, <1>21 DEF Inv

LEMMA NotifyFacts ==
    ASSUME TypeOK, NEW c \in Clients, Notify(c)
    PROVE  /\ fpc' \in [Clients -> {"start", "loop", "wait", "recv", "give", "join", "reject", "done"}]
           /\ fpc'[c] = IF fpc[c] = "wait" THEN "loop" ELSE fpc[c]
           /\ \A d \in Clients \ {c} : fpc'[d] = fpc[d]
BY DEF TypeOK, Notify

LEMMA ResultInv == ASSUME Inv, NEW c \in Clients, Result(c) PROVE Inv'
<1>1. TypeOK /\ Phases /\ ResultsMatchJobs /\ Forms /\ Apart /\ OnlyOpen /\ Recorded /\ OneRequest /\ LoadsAgree
  BY DEF Inv
<1>2. /\ ready[c] \in Seq(Tasks) /\ todo[c] \in Seq(Tasks) /\ jobs_in[c] \in Seq(Message) /\ jobs_in[c] \in Seq(Jobs)
      /\ fpc[c] \in {"start", "loop", "wait", "recv", "give", "join", "reject", "done"}
  BY <1>1, Queue, NetFacts
<1>3. /\ rdpc[c] = "read" /\ fpc[c] # "recv" /\ ready[c] # <<>>
  BY <1>2 DEF Result, MutexFree
<1> DEFINE q == jobs_in[c]
           b == Msg(c, "output", Head(q).task, 0)
<1>4. /\ ready' = [ready EXCEPT ![c] = Tail(@)] /\ jobs_in' = [jobs_in EXCEPT ![c] = Tail(@)]
      /\ net' = [net EXCEPT ![receiver] = Append(@, b)] /\ Notify(c)
      /\ UNCHANGED <<overtakings, loads, subvars, recvars, rdpc, cur, messages, jobs_in_finished, child, todo, faults>>
  BY DEF Result
<1>5. /\ fpc' \in [Clients -> {"start", "loop", "wait", "recv", "give", "join", "reject", "done"}]
      /\ fpc'[c] = IF fpc[c] = "wait" THEN "loop" ELSE fpc[c]
      /\ \A d \in Clients \ {c} : fpc'[d] = fpc[d]
  BY <1>1, <1>4, NotifyFacts
<1>6. /\ Situation(fpc[c], "read", child[c], jobs_in_finished[c], cur[c], jobs_in[c], todo[c], ready[c])
      /\ Fits(ready[c], todo[c], jobs_in[c])
  BY <1>1, <1>3, MatchIs DEF Phases, Phase, Match
<1>7. /\ Situation(fpc'[c], "read", child[c], jobs_in_finished[c], cur[c], Tail(q), todo[c], Tail(ready[c]))
      /\ Fits(Tail(ready[c]), todo[c], Tail(q)) /\ q # <<>>
  <2>1. fpc[c] \notin {"start", "reject", "done"}
    BY <1>6 DEF Situation
  <2>2. /\ fpc'[c] # "recv" /\ (fpc'[c] = "give" <=> fpc[c] = "give")
        /\ fpc'[c] \notin {"start", "reject", "done"}
    BY <1>3, <1>5, <2>1
  <2>3. PICK g : g = fpc'[c]
    OBVIOUS
  <2>4. g # "recv" /\ (g = "give" <=> fpc[c] = "give") /\ g \notin {"start", "reject", "done"}
    BY <2>2, <2>3
  <2>5. /\ Situation(g, "read", child[c], jobs_in_finished[c], cur[c], Tail(jobs_in[c]), todo[c], Tail(ready[c]))
        /\ Fits(Tail(ready[c]), todo[c], Tail(jobs_in[c])) /\ jobs_in[c] # <<>>
    BY <1>2, <1>3, <1>6, <2>4, SituationResult
  <2> QED BY <2>3, <2>5
<1>8. /\ Tail(q) \in Seq(Jobs) /\ Tail(q) \in Seq(Message) /\ Len(Tail(q)) = Len(q) - 1
      /\ Head(q) \in Jobs /\ Head(q) = q[1] /\ Tail(ready[c]) \in Seq(Tasks)
  BY <1>2, <1>3, <1>7, HeadTailProperties
<1>9. /\ Carried(Tail(q)) = Carried(q) \ {Head(q).task} /\ Distinct(Tail(q))
      /\ Head(q).task \in Carried(q) /\ Head(q).task # 0 /\ Head(q).task \in Tasks
  <2>1. 1 \in 1..Len(q) /\ Tail(q) = RemoveAt(q, 1)
    BY <1>2, <1>7, TailIsRemoveAt
  <2>2. Distinct(q) /\ Head(q).task \in Tasks /\ Head(q).task # 0
    BY <1>1, <1>8, FormFacts, ConstantFacts DEF Apart
  <2> QED BY <1>2, <1>8, <2>1, <2>2, CarriedRemove
<1>10. b \in ToReceiver /\ b.src = c /\ b.task = Head(q).task /\ b.type = "output"
  <2>1. Head(q).task \in 0..Lines + 1 /\ 0 \in 0..max_attempts
    BY <1>9, ConstantFacts DEF Tasks
  <2>2. b \in Message
    BY <2>1 DEF Msg, Message
  <2> QED BY <1>9, <2>2 DEF Msg, ToReceiver
<1>11. /\ jobs_in'[c] = Tail(q) /\ \A d \in Clients \ {c} : jobs_in'[d] = jobs_in[d]
       /\ ready'[c] = Tail(ready[c]) /\ \A d \in Clients \ {c} : ready'[d] = ready[d]
  BY <1>1, <1>4 DEF TypeOK
<1> HIDE DEF b, q
<1>12. /\ net'[receiver] = Append(net[receiver], b) /\ \A d \in Clients : net'[d] = net[d]
       /\ DOMAIN net' = Ranks /\ net' = [r \in Ranks |-> net'[r]]
  BY <1>1, <1>4, NetFacts, ConstantFacts
<1>13. b.task \notin Carried(net[receiver])
  BY <1>1, <1>9, <1>10, ConstantFacts DEF Apart, q
<1>14. /\ net'[receiver] \in Seq(ToReceiver)
       /\ Carried(net'[receiver]) = Carried(net[receiver]) \cup ({b.task} \ {0}) /\ Distinct(net'[receiver])
       /\ \A d \in Clients : Back(d)' = Back(d) + (IF b.src = d THEN 1 ELSE 0)
       /\ Asked' = Asked + (IF b.type = "clientload" THEN 1 ELSE 0)
  BY <1>1, <1>10, <1>12, <1>13, SendFacts
<1>15. \A d \in Clients : Reported(d)' = Reported(d) /\ In(d)' = In(d)
  BY <1>4, <1>12 DEF Reported, recvars, In
<1>16. Recorded' /\ Open' = Open
  BY <1>1, <1>4, OpenFrame DEF subvars, recvars
<1>17. Asked' = Asked
  BY <1>1, <1>10, <1>14, NetFacts
<1>18. OneRequest'
  BY <1>1, <1>4, <1>17 DEF OneRequest, subvars, recvars
<1>19. TypeOK'
  <2>1. \A r \in Ranks : net'[r] \in Seq(Message)
    <3>1. net'[receiver] \in Seq(Message)
      BY <1>14, FormFacts, SeqWiden
    <3> QED BY <1>1, <1>12, <3>1, NetFacts, ConstantFacts
  <2>2. net' \in [Ranks -> Seq(Message)]
    BY <1>12, <2>1
  <2>3. jobs_in' \in [Clients -> Seq(Message)] /\ ready' \in [Clients -> Seq(Tasks)]
    BY <1>1, <1>4, <1>8 DEF TypeOK, q
  <2>4. \A d \in Clients : Len(jobs_in'[d]) <= loadmax
    <3>1. Len(q) <= loadmax /\ Len(q) \in Nat /\ loadmax \in Nat
      BY <1>1, <1>2, ConstantFacts DEF TypeOK, q
    <3>2. Len(jobs_in'[c]) <= loadmax
      BY <1>8, <1>11, <3>1
    <3> QED BY <1>1, <1>11, <3>2 DEF TypeOK
  <2> QED BY <1>1, <1>4, <1>5, <2>2, <2>3, <2>4 DEF TypeOK, subvars, recvars, Ranks
<1>20. Forms'
  <2>1. \A d \in Clients : net'[d] \in Seq(ToClient)
    BY <1>1, <1>12 DEF Forms
  <2>2. \A d \in Clients : jobs_in'[d] \in Seq(Jobs)
    BY <1>1, <1>8, <1>11 DEF Forms
  <2> QED BY <1>14, <2>1, <2>2 DEF Forms
<1>21. Apart'
  <2> DEFINE X == {Head(q).task}
  <2>1. X \subseteq Carried(jobs_in[c])
    BY <1>9 DEF q
  <2>2. \A r \in Ranks \ {receiver} : Carried(net'[r]) \subseteq Carried(net[r]) \ X
    <3>1. \A r \in Ranks : Carried(net[r]) \cap Carried(jobs_in[c]) = {}
      BY <1>1 DEF Apart
    <3> QED BY <1>12, <2>1, <3>1, ConstantFacts
  <2>3. \A d \in Clients : Carried(jobs_in'[d]) \subseteq Carried(jobs_in[d]) \ X
    <3>1. \A d \in Clients \ {c} : Carried(jobs_in[c]) \cap Carried(jobs_in[d]) = {}
      BY <1>1 DEF Apart
    <3>2. Carried(jobs_in'[c]) \subseteq Carried(jobs_in[c]) \ X
      BY <1>9, <1>11 DEF q
    <3> QED BY <1>11, <2>1, <3>1, <3>2
  <2>4. (\A r \in Ranks : Distinct(net'[r])) /\ (\A d \in Clients : Distinct(jobs_in'[d]))
    BY <1>1, <1>9, <1>11, <1>12, <1>14, ConstantFacts DEF Apart
  <2>5. Carried(net'[receiver]) \subseteq Carried(net[receiver]) \cup X
    BY <1>10, <1>14
  <2> HIDE DEF X
  <2> QED BY <1>1, <2>2, <2>3, <2>4, <2>5, ConstantFacts, MoveToNet
<1>22. OnlyOpen'
  <2>1. Head(q).task \in Open
    BY <1>1, <1>9 DEF OnlyOpen, q
  <2>2. \A r \in Ranks : Carried(net'[r]) \subseteq Open
    BY <1>1, <1>10, <1>12, <1>14, <2>1, ConstantFacts DEF OnlyOpen
  <2>3. \A d \in Clients : Carried(jobs_in'[d]) \subseteq Open
    BY <1>1, <1>9, <1>11 DEF OnlyOpen, q
  <2> QED BY <1>16, <2>2, <2>3 DEF OnlyOpen
<1>23. LoadsAgree'
  <2>1. \A d \in Clients : Len(jobs_in'[d]) + Back(d)' = Len(jobs_in[d]) + Back(d)
    <3>1. Len(jobs_in'[c]) = Len(jobs_in[c]) - 1 /\ Back(c)' = Back(c) + 1
      BY <1>8, <1>10, <1>11, <1>14 DEF q
    <3>2. Len(jobs_in'[c]) + Back(c)' = Len(jobs_in[c]) + Back(c)
      BY <1>1, <3>1, NetFacts
    <3>3. \A d \in Clients \ {c} : Back(d)' = Back(d)
      BY <1>1, <1>10, <1>14, NetFacts
    <3> QED BY <1>11, <3>2, <3>3
  <2>2. \A d \in Clients : /\ In(d)' + Len(jobs_in'[d]) + Back(d)' = In(d) + Len(jobs_in[d]) + Back(d)
                           /\ sload'[d] - Reported(d)' = sload[d] - Reported(d)
    <3> SUFFICES ASSUME NEW d \in Clients
                 PROVE  /\ In(d)' + Len(jobs_in'[d]) + Back(d)' = In(d) + Len(jobs_in[d]) + Back(d)
                        /\ sload'[d] - Reported(d)' = sload[d] - Reported(d)
      OBVIOUS
    <3>1. sload'[d] - Reported(d)' = sload[d] - Reported(d) /\ In(d)' = In(d)
      BY <1>4, <1>15 DEF subvars
    <3>2. In(d) \in Nat /\ Len(jobs_in[d]) \in Nat /\ Back(d) \in Nat
      BY <1>1, NetFacts
    <3>3. /\ Len(jobs_in'[d]) \in Nat /\ Back(d)' \in Nat
          /\ Len(jobs_in'[d]) + Back(d)' = Len(jobs_in[d]) + Back(d)
      BY <1>19, <1>20, <2>1, NetFactsNext
    <3>4. In(d) + Len(jobs_in'[d]) + Back(d)' = In(d) + Len(jobs_in[d]) + Back(d)
      BY <3>2, <3>3, SMTT(30)
    <3> QED BY <3>1, <3>4
  <2>3. loads' = loads
    BY <1>4
  <2> QED BY <1>1, <1>20, <2>2, <2>3, CountsKept
<1>24. Phases' /\ ResultsMatchJobs'
  <2>1. \A d \in Clients \ {c} : UNCHANGED Client(d)
    BY <1>4, <1>5, <1>11 DEF Client
  <2>2. Phase(c)' /\ Match(c)'
    BY <1>3, <1>4, <1>7, <1>11 DEF Phase, Match
  <2> QED BY <1>1, <1>19, <2>1, <2>2, OtherClients
<1> QED BY <1>16, <1>18, <1>19, <1>20, <1>21, <1>22, <1>23, <1>24 DEF Inv

LEMMA EndOfOutputInv == ASSUME Inv, NEW c \in Clients, EndOfOutput(c) PROVE Inv'
<1>1. TypeOK /\ Phases /\ ResultsMatchJobs /\ Forms /\ Apart /\ OnlyOpen /\ Recorded /\ OneRequest /\ LoadsAgree
  BY DEF Inv
<1>2. jobs_in[c] \in Seq(Message) /\ jobs_in[c] \in Seq(Jobs) /\ messages[c] \in Seq({"flush", "finish"})
  BY <1>1, Queue, NetFacts
<1>3. /\ rdpc[c] = "read" /\ fpc[c] # "recv" /\ child[c] = "down" /\ ready[c] = <<>>
  BY DEF EndOfOutput, MutexFree
<1> DEFINE q == jobs_in[c]
           t == [i \in DOMAIN q |-> [q[i] EXCEPT !.src = c]]
<1>4. /\ jobs_in_finished' = [jobs_in_finished EXCEPT ![c] = TRUE]
      /\ messages' = [messages EXCEPT ![c] = Append(@, "flush")]
      /\ net' = [net EXCEPT ![receiver] = @ \o t]
      /\ jobs_in' = [jobs_in EXCEPT ![c] = <<>>]
      /\ rdpc' = [rdpc EXCEPT ![c] = "done"] /\ Notify(c)
      /\ UNCHANGED <<overtakings, loads, subvars, recvars, cur, proc>>
  BY DEF EndOfOutput
<1>5. /\ fpc' \in [Clients -> {"start", "loop", "wait", "recv", "give", "join", "reject", "done"}]
      /\ fpc'[c] = IF fpc[c] = "wait" THEN "loop" ELSE fpc[c]
      /\ \A d \in Clients \ {c} : fpc'[d] = fpc[d]
  BY <1>1, <1>4, NotifyFacts
<1>6. /\ DOMAIN q = 1..Len(q) /\ Len(q) \in Nat
      /\ \A i \in 1..Len(q) : t[i] \in ToReceiver /\ t[i].task = q[i].task /\ t[i].src = c /\ t[i].type = "input"
  <2>1. DOMAIN q = 1..Len(q) /\ Len(q) \in Nat
    BY <1>2
  <2>2. ASSUME NEW i \in 1..Len(q)
        PROVE  t[i] \in ToReceiver /\ t[i].task = q[i].task /\ t[i].src = c /\ t[i].type = "input"
    <3>1. q[i] \in Jobs
      BY <1>2
    <3>2. q[i] \in Message /\ q[i].type = "input" /\ q[i].task \in Tasks
      BY <3>1, FormFacts DEF Jobs
    <3>3. t[i] = [q[i] EXCEPT !.src = c]
      BY <2>1
    <3>4. t[i] \in Message /\ t[i].task = q[i].task /\ t[i].src = c /\ t[i].type = "input"
      BY <3>2, <3>3 DEF Message
    <3> QED BY <3>2, <3>4 DEF ToReceiver
  <2> QED BY <2>1, <2>2
<1>7. t \in Seq(ToReceiver) /\ Len(t) = Len(q) /\ t \in Seq(Message)
  <2>1. t \in [1..Len(q) -> ToReceiver]
    BY <1>6
  <2>2. t \in Seq(ToReceiver) /\ Len(t) = Len(q)
    BY <1>6, <2>1
  <2> QED BY <2>2, FormFacts, SeqWiden
<1>8. /\ jobs_in'[c] = <<>> /\ \A d \in Clients \ {c} : jobs_in'[d] = jobs_in[d]
      /\ rdpc'[c] = "done" /\ \A d \in Clients \ {c} : rdpc'[d] = rdpc[d]
      /\ jobs_in_finished'[c] = TRUE
  BY <1>1, <1>4 DEF TypeOK
<1>9. \A d \in Clients \ {c} : jobs_in_finished'[d] = jobs_in_finished[d]
  BY <1>1, <1>4 DEF TypeOK
<1> HIDE DEF q, t
<1>10. /\ net'[receiver] = net[receiver] \o t /\ \A d \in Clients : net'[d] = net[d]
       /\ DOMAIN net' = Ranks /\ net' = [r \in Ranks |-> net'[r]]
  BY <1>1, <1>4, NetFacts, ConstantFacts
<1>11. /\ net[receiver] \in Seq(ToReceiver) /\ Distinct(net[receiver]) /\ Distinct(q)
       /\ Carried(net[receiver]) \cap Carried(q) = {}
  BY <1>1, NetFacts, ConstantFacts DEF Apart, q
<1>12. Carried(t) = Carried(q) /\ Distinct(t)
  <2>1. q \in Seq(Message)
    BY <1>2 DEF q
  <2> QED BY <1>6, <1>7, <1>11, <2>1, CarriedSame
<1>13. /\ net'[receiver] \in Seq(ToReceiver) /\ Distinct(net'[receiver])
       /\ Carried(net'[receiver]) = Carried(net[receiver]) \cup Carried(q)
  <2>1. net'[receiver] \in Seq(ToReceiver)
    BY <1>7, <1>10, <1>11, ConcatProperties
  <2> QED BY <1>7, <1>10, <1>11, <1>12, <2>1, CarriedConcat
<1>14. /\ \A d \in Clients : Back(d)' = Back(d) + (IF d = c THEN Len(q) ELSE 0)
       /\ Asked' = Asked
  <2>1. \A V : Cardinality(Places(net'[receiver], V)) =
               Cardinality(Places(net[receiver], V)) + Cardinality(Places(t, V))
    BY <1>7, <1>10, <1>11, CountConcat
  <2>2. Cardinality(Places(t, From(c))) = Len(q)
    <3>1. \A i \in 1..Len(t) : t[i] \in From(c)
      BY <1>6, <1>7, FormFacts DEF From
    <3> QED BY <1>7, <3>1, CountAll
  <2>3. ASSUME NEW d \in Clients, d # c PROVE Cardinality(Places(t, From(d))) = 0
    <3>1. \A i \in 1..Len(t) : t[i] \notin From(d)
      BY <1>6, <1>7, <2>3 DEF From
    <3> QED BY <1>7, <3>1, CountAll
  <2>4. Cardinality(Places(t, Requests)) = 0
    <3>1. \A i \in 1..Len(t) : t[i] \notin Requests
      BY <1>6, <1>7 DEF Requests
    <3> QED BY <1>7, <3>1, CountAll
  <2>5. Asked' = Asked
    BY <1>1, <2>1, <2>4, NetFacts DEF Asked
  <2>6. ASSUME NEW d \in Clients PROVE Back(d)' = Back(d) + (IF d = c THEN Len(q) ELSE 0)
    BY <2>1, <2>2, <2>3 DEF Back
  <2> QED BY <2>5, <2>6
<1>15. \A d \in Clients : Reported(d)' = Reported(d) /\ In(d)' = In(d)
  BY <1>4, <1>10 DEF Reported, recvars, In
<1>16. Recorded' /\ Open' = Open
  BY <1>1, <1>4, OpenFrame DEF subvars, recvars
<1>17. OneRequest'
  BY <1>1, <1>4, <1>14 DEF OneRequest, subvars, recvars
<1>18. <<>> \in Seq(Message) /\ <<>> \in Seq(Jobs) /\ Len(<<>>) = 0
  BY EmptySeq
<1>19. TypeOK'
  <2>1. \A r \in Ranks : net'[r] \in Seq(Message)
    <3>1. net'[receiver] \in Seq(Message)
      BY <1>13, FormFacts, SeqWiden
    <3> QED BY <1>1, <1>10, <3>1, NetFacts, ConstantFacts
  <2>2. net' \in [Ranks -> Seq(Message)]
    BY <1>10, <2>1
  <2>3. jobs_in' \in [Clients -> Seq(Message)]
    BY <1>1, <1>4, <1>18 DEF TypeOK
  <2>4. \A d \in Clients : Len(jobs_in'[d]) <= loadmax
    <3>1. Len(jobs_in'[c]) <= loadmax
      BY <1>8, <1>18, ConstantFacts
    <3> QED BY <1>1, <1>8, <3>1 DEF TypeOK
  <2>5. messages' \in [Clients -> Seq({"flush", "finish"})]
    <3>1. Append(messages[c], "flush") \in Seq({"flush", "finish"})
      BY <1>2, AppendProperties
    <3> QED BY <1>1, <1>4, <3>1 DEF TypeOK
  <2>6. rdpc' \in [Clients -> {"read", "done"}]
    BY <1>1, <1>4 DEF TypeOK
  <2>7. jobs_in_finished' \in [Clients -> BOOLEAN]
    BY <1>1, <1>4 DEF TypeOK
  <2> QED BY <1>1, <1>4, <1>5, <2>2, <2>3, <2>4, <2>5, <2>6, <2>7 DEF TypeOK, subvars, recvars, Ranks, proc
<1>20. Forms'
  <2>1. \A d \in Clients : net'[d] \in Seq(ToClient)
    BY <1>1, <1>10 DEF Forms
  <2>2. \A d \in Clients : jobs_in'[d] \in Seq(Jobs)
    BY <1>1, <1>8, <1>18 DEF Forms
  <2> QED BY <1>13, <2>1, <2>2 DEF Forms
<1>21. Apart'
  <2> DEFINE X == Carried(jobs_in[c])
  <2>1. \A r \in Ranks \ {receiver} : Carried(net'[r]) \subseteq Carried(net[r]) \ X
    <3>1. \A r \in Ranks : Carried(net[r]) \cap X = {}
      BY <1>1 DEF Apart
    <3> QED BY <1>10, <3>1, ConstantFacts
  <2>2. \A d \in Clients : Carried(jobs_in'[d]) \subseteq Carried(jobs_in[d]) \ X
    <3>1. \A d \in Clients \ {c} : X \cap Carried(jobs_in[d]) = {}
      BY <1>1 DEF Apart
    <3>2. Carried(jobs_in'[c]) = {}
      BY <1>8, CarriedEmpty
    <3> QED BY <1>8, <3>1, <3>2
  <2>3. (\A r \in Ranks : Distinct(net'[r])) /\ (\A d \in Clients : Distinct(jobs_in'[d]))
    BY <1>1, <1>8, <1>10, <1>13, ConstantFacts, CarriedEmpty DEF Apart
  <2>4. Carried(net'[receiver]) \subseteq Carried(net[receiver]) \cup X
    BY <1>13 DEF q
  <2> HIDE DEF X
  <2> QED BY <1>1, <2>1, <2>2, <2>3, <2>4, ConstantFacts, MoveToNet
<1>22. OnlyOpen'
  <2>1. Carried(q) \subseteq Open
    BY <1>1 DEF OnlyOpen, q
  <2>2. \A r \in Ranks : Carried(net'[r]) \subseteq Open
    BY <1>1, <1>10, <1>13, <2>1, ConstantFacts DEF OnlyOpen
  <2>3. \A d \in Clients : Carried(jobs_in'[d]) \subseteq Open
    BY <1>1, <1>8, CarriedEmpty DEF OnlyOpen
  <2> QED BY <1>16, <2>2, <2>3 DEF OnlyOpen
<1>23. LoadsAgree'
  <2>1. \A d \in Clients : Len(jobs_in'[d]) + Back(d)' = Len(jobs_in[d]) + Back(d)
    <3>1. Len(jobs_in'[c]) = 0 /\ Back(c)' = Back(c) + Len(jobs_in[c])
      BY <1>8, <1>14, <1>18 DEF q
    <3>2. Len(jobs_in'[c]) + Back(c)' = Len(jobs_in[c]) + Back(c)
      BY <1>1, <3>1, NetFacts
    <3>3. \A d \in Clients \ {c} : Back(d)' = Back(d)
      BY <1>1, <1>14, NetFacts
    <3> QED BY <1>8, <3>2, <3>3
  <2>2. \A d \in Clients : /\ In(d)' + Len(jobs_in'[d]) + Back(d)' = In(d) + Len(jobs_in[d]) + Back(d)
                           /\ sload'[d] - Reported(d)' = sload[d] - Reported(d)
    <3> SUFFICES ASSUME NEW d \in Clients
                 PROVE  /\ In(d)' + Len(jobs_in'[d]) + Back(d)' = In(d) + Len(jobs_in[d]) + Back(d)
                        /\ sload'[d] - Reported(d)' = sload[d] - Reported(d)
      OBVIOUS
    <3>1. sload'[d] - Reported(d)' = sload[d] - Reported(d) /\ In(d)' = In(d)
      BY <1>4, <1>15 DEF subvars
    <3>2. In(d) \in Nat /\ Len(jobs_in[d]) \in Nat /\ Back(d) \in Nat
      BY <1>1, NetFacts
    <3>3. /\ Len(jobs_in'[d]) \in Nat /\ Back(d)' \in Nat
          /\ Len(jobs_in'[d]) + Back(d)' = Len(jobs_in[d]) + Back(d)
      BY <1>19, <1>20, <2>1, NetFactsNext
    <3>4. In(d) + Len(jobs_in'[d]) + Back(d)' = In(d) + Len(jobs_in[d]) + Back(d)
      BY <3>2, <3>3, SMTT(30)
    <3> QED BY <3>1, <3>4
  <2>3. loads' = loads
    BY <1>4
  <2> QED BY <1>1, <1>20, <2>2, <2>3, CountsKept
<1>24. Phases' /\ ResultsMatchJobs'
  <2>1. \A d \in Clients \ {c} : UNCHANGED Client(d)
    BY <1>4, <1>5, <1>8, <1>9 DEF Client, proc
  <2>2. Situation(fpc[c], "read", "down", jobs_in_finished[c], cur[c], jobs_in[c], todo[c], ready[c])
    BY <1>1, <1>3 DEF Phases, Phase
  <2>3. fpc'[c] \notin {"recv", "wait"} /\ (fpc'[c] = "give" => fpc[c] = "give")
    BY <1>3, <1>5
  <2>4. /\ Situation(fpc'[c], "done", "down", TRUE, cur[c], <<>>, todo[c], ready[c])
        /\ Fits(ready[c], todo[c], <<>>)
    BY <1>3, <2>2, <2>3, SituationEnd
  <2>5. Phase(c)' /\ Match(c)'
    BY <1>3, <1>4, <1>8, <2>4 DEF Phase, Match, proc
  <2> QED BY <1>1, <1>19, <2>1, <2>5, OtherClients
<1> QED BY <1>16, <1>17, <1>19, <1>20, <1>21, <1>22, <1>23, <1>24 DEF Inv
-----------------------------------------------------------------------------
(* The submitter. *)

LEMMA SubmitLineInv == ASSUME Inv, SubmitLine PROVE Inv'
<1>1. TypeOK /\ Phases /\ ResultsMatchJobs /\ Forms /\ Apart /\ OnlyOpen /\ Recorded /\ OneRequest /\ LoadsAgree
  BY DEF Inv
<1> DEFINE b == Msg(submitter, "input", count, 1)
<1>2. PICK id \in Clients :
        /\ net' = [net EXCEPT ![id] = Append(@, b)]
        /\ sload' = [sload EXCEPT ![id] = @ + 1]
  BY DEF SubmitLine, MinLoad
<1>3. /\ spc = "line" /\ count <= Lines /\ count' = count + 1
      /\ UNCHANGED <<overtakings, loads, spc, recvars, clivars>>
  BY DEF SubmitLine
<1>4. count \in Nat /\ count \in Tasks /\ count # 0 /\ count' \in 1..Lines + 1
  BY <1>1, <1>3, ConstantFacts DEF TypeOK, Tasks
<1>5. b \in Jobs /\ b \in ToClient /\ b.task = count
  <2>1. b \in Message
    <3>1. count \in 0..Lines + 1 /\ 1 \in 0..max_attempts
      BY <1>1, ConstantFacts DEF TypeOK
    <3> QED BY <3>1 DEF Msg, Message
  <2> QED BY <1>4, <2>1, FormFacts DEF Msg, Jobs
<1> HIDE DEF b
<1>6. /\ net'[id] = Append(net[id], b) /\ \A r \in Ranks \ {id} : net'[r] = net[r]
      /\ DOMAIN net' = Ranks /\ net' = [r \in Ranks |-> net'[r]]
      /\ sload'[id] = sload[id] + 1 /\ \A d \in Clients \ {id} : sload'[d] = sload[d]
      /\ sload' \in [Clients -> Int]
  <2>1. /\ net'[id] = Append(net[id], b) /\ \A r \in Ranks \ {id} : net'[r] = net[r]
        /\ DOMAIN net' = Ranks /\ net' = [r \in Ranks |-> net'[r]]
    BY <1>1, <1>2, NetFacts, ConstantFacts
  <2>2. sload'[id] = sload[id] + 1 /\ \A d \in Clients \ {id} : sload'[d] = sload[d]
    BY <1>1, <1>2 DEF TypeOK
  <2>3. sload' \in [Clients -> Int]
    <3>1. sload[id] + 1 \in Int
      <4>1. sload[id] \in Int
        BY <1>1 DEF TypeOK
      <4> QED BY <4>1
    <3> QED BY <1>1, <1>2, <3>1 DEF TypeOK
  <2> QED BY <2>1, <2>2, <2>3
<1>7. jobs_in' = jobs_in /\ net'[receiver] = net[receiver]
  BY <1>3, <1>6, ConstantFacts DEF clivars, state
<1>8. count \notin Open /\ Open \subseteq Open' /\ count \in Open'
  <2>1. count \notin Open
    BY <1>3, <1>4 DEF Open
  <2>2. UNCHANGED <<answers, rpc, jobs_out, spc>>
    BY <1>3 DEF recvars
  <2>3. answers[count] = 0
    <3>1. answers[count] # 1
      BY <1>1, <1>4 DEF Recorded
    <3> QED BY <1>1, <1>3, <1>4, <3>1 DEF Recorded
  <2>4. \A t \in Open : t \in Nat /\ t < count + 1
    BY <1>3, <1>4 DEF Open
  <2>5. Open \subseteq Open'
    BY <1>3, <2>2, <2>4 DEF Open
  <2>6. count \in Open'
    <3>1. count \in 1..Lines + 1 /\ count < count' /\ count # Lines + 1
      BY <1>3, <1>4, ConstantFacts DEF Tasks
    <3> QED BY <2>2, <2>3, <3>1 DEF Open
  <2> QED BY <2>1, <2>5, <2>6
<1>9. /\ net[id] \in Seq(ToClient) /\ Distinct(net[id]) /\ count \notin Carried(net[id])
  BY <1>1, <1>8, NetFacts, ConstantFacts DEF Apart, OnlyOpen
<1>10. /\ net'[id] \in Seq(ToClient) /\ Distinct(net'[id])
       /\ Carried(net'[id]) = Carried(net[id]) \cup {count}
       /\ In(id)' = In(id) + 1
  <2>1. net'[id] \in Seq(ToClient)
    BY <1>5, <1>6, <1>9, AppendProperties
  <2>2. Carried(net'[id]) = Carried(net[id]) \cup ({b.task} \ {0}) /\ Distinct(net'[id])
    BY <1>5, <1>6, <1>9, CarriedAppend
  <2>3. In(id)' = In(id) + 1
    BY <1>5, <1>6, <1>9, CountAppend DEF In
  <2> QED BY <1>4, <1>5, <2>1, <2>2, <2>3
<1>11. /\ \A d \in Clients \ {id} : In(d)' = In(d)
       /\ \A d \in Clients : Back(d)' = Back(d) /\ Reported(d)' = Reported(d)
       /\ Asked' = Asked
  BY <1>3, <1>6, <1>7, ConstantFacts DEF In, Back, Reported, Asked, recvars
<1>12. Recorded'
  <2>1. \A t \in Tasks : answers[t] = 1 => t < count + 1
    BY <1>1, <1>4, ConstantFacts DEF Recorded
  <2> QED BY <1>1, <1>3, <2>1 DEF Recorded, recvars
<1>13. OneRequest'
  BY <1>1, <1>3, <1>11 DEF OneRequest, recvars
<1>14. TypeOK'
  <2>1. \A r \in Ranks : net'[r] \in Seq(Message)
    <3>1. net'[id] \in Seq(Message)
      BY <1>10, FormFacts, SeqWiden
    <3> QED BY <1>1, <1>6, <3>1, NetFacts, ConstantFacts
  <2>2. net' \in [Ranks -> Seq(Message)]
    BY <1>6, <2>1
  <2> QED BY <1>1, <1>3, <1>4, <1>6, <2>2 DEF TypeOK, recvars, clivars, state, proc, Ranks
<1>15. Forms'
  <2>1. \A d \in Clients : net'[d] \in Seq(ToClient)
    BY <1>1, <1>6, <1>10, ConstantFacts DEF Forms
  <2> QED BY <1>1, <1>7, <2>1 DEF Forms
<1>16. Apart'
  <2>1. \A r \in Ranks \ {id} : Carried(net'[r]) \subseteq Carried(net[r]) \ {count}
    BY <1>1, <1>6, <1>8 DEF OnlyOpen
  <2>2. \A d \in Clients : Carried(jobs_in'[d]) \subseteq Carried(jobs_in[d]) \ {count}
    BY <1>1, <1>7, <1>8 DEF OnlyOpen
  <2>3. (\A r \in Ranks : Distinct(net'[r])) /\ (\A d \in Clients : Distinct(jobs_in'[d]))
    BY <1>1, <1>6, <1>7, <1>10 DEF Apart
  <2>4. id \in Ranks /\ Carried(net'[id]) \subseteq Carried(net[id]) \cup {count}
    BY <1>10, ConstantFacts
  <2> QED BY <1>1, <2>1, <2>2, <2>3, <2>4, MoveToNet
<1>17. OnlyOpen'
  <2>1. \A r \in Ranks : Carried(net'[r]) \subseteq Open'
    <3>1. \A r \in Ranks : Carried(net[r]) \subseteq Open'
      BY <1>1, <1>8 DEF OnlyOpen
    <3>2. Carried(net'[id]) \subseteq Open'
      BY <1>8, <1>10, <3>1, ConstantFacts
    <3> QED BY <1>6, <3>1, <3>2
  <2>2. \A d \in Clients : Carried(jobs_in'[d]) \subseteq Open'
    BY <1>1, <1>7, <1>8 DEF OnlyOpen
  <2> QED BY <2>1, <2>2 DEF OnlyOpen
<1>18. LoadsAgree'
  <2>1. Counts
    BY <1>1, LoadsIs
  <2>2. ASSUME NEW d \in Clients
        PROVE  sload'[d] - Reported(d)' = In(d)' + Len(jobs_in'[d]) + Back(d)'
    <3>1. /\ sload[d] \in Int /\ Reported(d) \in Int /\ In(d) \in Nat /\ Len(jobs_in[d]) \in Nat /\ Back(d) \in Nat
      BY <1>1, NetFacts
    <3>2. sload[d] - Reported(d) = In(d) + Len(jobs_in[d]) + Back(d)
      BY <2>1 DEF Counts
    <3>3. Reported(d)' = Reported(d) /\ Back(d)' = Back(d) /\ Len(jobs_in'[d]) = Len(jobs_in[d])
      BY <1>7, <1>11
    <3>4. \/ sload'[d] = sload[d] + 1 /\ In(d)' = In(d) + 1
          \/ sload'[d] = sload[d] /\ In(d)' = In(d)
      BY <1>6, <1>10, <1>11
    <3>5. sload'[d] - Reported(d) = In(d)' + Len(jobs_in[d]) + Back(d)
      <4>1. CASE sload'[d] = sload[d] + 1 /\ In(d)' = In(d) + 1
        <5>1. (sload[d] + 1) - Reported(d) = (In(d) + 1) + Len(jobs_in[d]) + Back(d)
          <6>1. PICK a \in Int, e \in Int, i \in Nat, l \in Nat, k \in Nat :
                  a = sload[d] /\ e = Reported(d) /\ i = In(d) /\ l = Len(jobs_in[d]) /\ k = Back(d)
            BY <3>1
          <6>2. a - e = i + l + k
            BY <3>2, <6>1
          <6>3. (a + 1) - e = (i + 1) + l + k
            BY <6>2
          <6> QED BY <6>1, <6>3
        <5> QED BY <4>1, <5>1
      <4>2. CASE sload'[d] = sload[d] /\ In(d)' = In(d)
        BY <3>2, <4>2
      <4> QED BY <3>4, <4>1, <4>2
    <3> QED BY <3>3, <3>5
  <2>3. Len(loads') <= 1
    BY <1>3, <2>1 DEF Counts
  <2> QED BY <1>15, <2>2, <2>3, LoadsIsNext DEF Counts
<1>19. Phases' /\ ResultsMatchJobs'
  BY <1>1, <1>3, <1>14, AllClients DEF clivars, state, proc
<1> QED BY <1>12, <1>13, <1>14, <1>15, <1>16, <1>17, <1>18, <1>19 DEF Inv

(* A message of the submitter to the receiver that carries no task, or one that nobody has. *)
LEMMA SubmitterSends ==
    ASSUME Inv, NEW b \in ToReceiver, b.src = submitter, b.task \notin Open,
           net' = [net EXCEPT ![receiver] = Append(@, b)],
           Open \subseteq Open', b.task # 0 => b.task \in Open',
           UNCHANGED <<overtakings, loads, count, sload, recvars, clivars>>,
           spc' \in {"line", "wait", "done"}, Recorded', OneRequest'
    PROVE  Inv'
<1>1. TypeOK /\ Phases /\ ResultsMatchJobs /\ Forms /\ Apart /\ OnlyOpen /\ LoadsAgree
  BY DEF Inv
<1>2. /\ net'[receiver] = Append(net[receiver], b) /\ \A d \in Clients : net'[d] = net[d]
      /\ DOMAIN net' = Ranks /\ net' = [r \in Ranks |-> net'[r]]
  BY <1>1, NetFacts, ConstantFacts
<1>3. jobs_in' = jobs_in
  BY DEF clivars, state
<1>4. b.task \notin Carried(net[receiver])
  BY <1>1, ConstantFacts DEF OnlyOpen
<1>5. /\ net'[receiver] \in Seq(ToReceiver)
      /\ Carried(net'[receiver]) = Carried(net[receiver]) \cup ({b.task} \ {0}) /\ Distinct(net'[receiver])
      /\ \A d \in Clients : Back(d)' = Back(d) + (IF b.src = d THEN 1 ELSE 0)
  BY <1>1, <1>2, <1>4, SendFacts
<1>6. \A d \in Clients : Back(d)' = Back(d) /\ In(d)' = In(d) /\ Reported(d)' = Reported(d)
  <2>1. \A d \in Clients : Back(d)' = Back(d)
    <3>1. \A d \in Clients : b.src # d /\ Back(d) \in Nat
      BY <1>1, NetFacts, ConstantFacts
    <3> QED BY <1>5, <3>1
  <2> QED BY <1>2, <2>1 DEF In, Reported, recvars
<1>7. TypeOK'
  <2>1. \A r \in Ranks : net'[r] \in Seq(Message)
    <3>1. net'[receiver] \in Seq(Message)
      BY <1>5, FormFacts, SeqWiden
    <3> QED BY <1>1, <1>2, <3>1, NetFacts, ConstantFacts
  <2>2. net' \in [Ranks -> Seq(Message)]
    BY <1>2, <2>1
  <2> QED BY <1>1, <2>2 DEF TypeOK, recvars, clivars, state, proc, Ranks
<1>8. Forms'
  <2>1. \A d \in Clients : net'[d] \in Seq(ToClient)
    BY <1>1, <1>2 DEF Forms
  <2> QED BY <1>1, <1>3, <1>5, <2>1 DEF Forms
<1>9. Apart'
  <2> DEFINE X == {b.task} \ {0}
  <2>1. \A r \in Ranks \ {receiver} : Carried(net'[r]) \subseteq Carried(net[r]) \ X
    BY <1>1, <1>2, ConstantFacts DEF OnlyOpen
  <2>2. \A d \in Clients : Carried(jobs_in'[d]) \subseteq Carried(jobs_in[d]) \ X
    BY <1>1, <1>3 DEF OnlyOpen
  <2>3. (\A r \in Ranks : Distinct(net'[r])) /\ (\A d \in Clients : Distinct(jobs_in'[d]))
    BY <1>1, <1>2, <1>3, <1>5, ConstantFacts DEF Apart
  <2>4. Carried(net'[receiver]) \subseteq Carried(net[receiver]) \cup X
    BY <1>5
  <2> HIDE DEF X
  <2> QED BY <1>1, <2>1, <2>2, <2>3, <2>4, ConstantFacts, MoveToNet
<1>10. OnlyOpen'
  <2>1. \A r \in Ranks : Carried(net'[r]) \subseteq Open'
    BY <1>1, <1>2, <1>5, ConstantFacts DEF OnlyOpen
  <2>2. \A d \in Clients : Carried(jobs_in'[d]) \subseteq Open'
    BY <1>1, <1>3 DEF OnlyOpen
  <2> QED BY <2>1, <2>2 DEF OnlyOpen
<1>11. LoadsAgree'
  BY <1>1, <1>3, <1>6, <1>8, CountsKept
<1>12. Phases' /\ ResultsMatchJobs'
  BY <1>1, <1>7, AllClients DEF clivars, state, proc
<1> QED BY <1>7, <1>8, <1>9, <1>10, <1>11, <1>12 DEF Inv

LEMMA AskLoadInv == ASSUME Inv, AskLoad PROVE Inv'
<1>1. TypeOK /\ Forms /\ Apart /\ Recorded /\ OneRequest
  BY DEF Inv
<1> DEFINE b == Signal(submitter, "clientload")
<1>2. /\ spc = "line" /\ spc' = "wait" /\ net' = [net EXCEPT ![receiver] = Append(@, b)]
      /\ UNCHANGED <<overtakings, loads, count, sload, recvars, clivars>>
  BY DEF AskLoad
<1>3. b \in ToReceiver /\ b.src = submitter /\ b.task = 0 /\ b.type = "clientload"
  <2>1. 0 \in 0..Lines + 1 /\ 0 \in 0..max_attempts
    BY ConstantFacts
  <2> QED BY <2>1 DEF Signal, Msg, ToReceiver, Message
<1> HIDE DEF b
<1>4. Open' = Open /\ Recorded' /\ 0 \notin Open
  BY <1>1, <1>2 DEF Open, Recorded, recvars
<1>5. OneRequest'
  <2>1. net'[receiver] = Append(net[receiver], b)
    BY <1>1, <1>2, NetFacts, ConstantFacts
  <2>2. b.task \notin Carried(net[receiver])
    BY <1>3 DEF Carried
  <2>3. Asked' = Asked + 1 /\ Asked \in Nat /\ Len(loads) \in Nat
    BY <1>1, <1>3, <2>1, <2>2, SendFacts, NetFacts
  <2>4. Asked + (IF recvreq THEN 1 ELSE 0) + Len(loads) = 0
    BY <1>1, <1>2 DEF OneRequest
  <2>5. recvreq' = recvreq /\ loads' = loads
    BY <1>2 DEF recvars
  <2>6. Asked' + (IF recvreq THEN 1 ELSE 0) + Len(loads) = 1
    BY <2>3, <2>4
  <2> QED BY <1>2, <2>5, <2>6 DEF OneRequest
<1> QED BY <1>2, <1>3, <1>4, <1>5, SubmitterSends

LEMMA SubmitFinishInv == ASSUME Inv, SubmitFinish PROVE Inv'
<1>1. TypeOK /\ Forms /\ Apart /\ Recorded /\ OneRequest
  BY DEF Inv
<1> DEFINE b == Msg(submitter, "finish", count, 0)
<1>2. /\ spc = "line" /\ spc' = "done" /\ count = Lines + 1
      /\ net' = [net EXCEPT ![receiver] = Append(@, b)]
      /\ UNCHANGED <<overtakings, loads, count, sload, recvars, clivars>>
  BY DEF SubmitFinish
<1>3. b \in ToReceiver /\ b.src = submitter /\ b.task = Lines + 1 /\ b.type = "finish"
  <2>1. Lines + 1 \in 0..Lines + 1 /\ 0 \in 0..max_attempts
    BY ConstantFacts
  <2> QED BY <1>2, <2>1 DEF Msg, ToReceiver, Message
<1> HIDE DEF b
<1>4. Recorded'
  BY <1>1, <1>2 DEF Recorded, recvars
<1>5. Lines + 1 \notin Open /\ Open \subseteq Open' /\ Lines + 1 \in Open'
  <2>1. Lines + 1 \notin Open
    BY <1>2, ConstantFacts DEF Open
  <2>2. Open \subseteq Open'
    BY <1>2 DEF Open, recvars
  <2>3. Lines + 1 \in Open'
    <3>1. rpc = "recv" /\ Lines + 1 \notin jobs_out /\ Lines + 1 \in 1..Lines + 1 /\ Lines + 1 \notin Tasks
      BY <1>1, <1>2, ConstantFacts DEF Recorded
    <3> QED BY <1>2, <3>1 DEF Open, recvars
  <2> QED BY <2>1, <2>2, <2>3
<1>6. OneRequest'
  <2>1. net'[receiver] = Append(net[receiver], b)
    BY <1>1, <1>2, NetFacts, ConstantFacts
  <2>2. b.task \notin Carried(net[receiver])
    BY <1>3, <1>5, ConstantFacts DEF Inv, OnlyOpen
  <2>3. Asked' = Asked + 0 /\ Asked \in Nat
    BY <1>1, <1>3, <2>1, <2>2, SendFacts, NetFacts
  <2>4. Asked' = Asked
    BY <2>3
  <2> QED BY <1>1, <1>2, <2>4 DEF OneRequest, recvars
<1> QED BY <1>2, <1>3, <1>4, <1>5, <1>6, SubmitterSends

LEMMA GetLoadInv == ASSUME Inv, GetLoad PROVE Inv'
<1>1. TypeOK /\ Phases /\ ResultsMatchJobs /\ Forms /\ Apart /\ OnlyOpen /\ Recorded /\ OneRequest /\ LoadsAgree
  BY DEF Inv
<1>2. /\ spc = "wait" /\ loads # <<>> /\ loads' = Tail(loads) /\ spc' = "line"
      /\ sload' = [c \in Clients |-> sload[c] - Head(loads)[c]]
      /\ UNCHANGED <<net, overtakings, count, recvars, clivars>>
  BY DEF GetLoad
<1>3. loads \in Seq([Clients -> Int]) /\ Asked \in Nat
  BY <1>1, NetFacts
<1>4. /\ Len(loads) \in Nat /\ Len(loads) # 0 /\ Len(Tail(loads)) = Len(loads) - 1
      /\ Tail(loads) \in Seq([Clients -> Int]) /\ Head(loads) \in [Clients -> Int]
  BY <1>2, <1>3, HeadTailProperties
<1>5. Len(loads) = 1 /\ Asked + (IF recvreq THEN 1 ELSE 0) = 0
  BY <1>1, <1>2, <1>3, <1>4 DEF OneRequest
<1>6. loads' = <<>> /\ Len(loads') = 0
  BY <1>2, <1>4, <1>5
<1>7. Asked' = Asked /\ recvreq' = recvreq
  BY <1>2 DEF Asked, recvars
<1>8. OneRequest'
  <2>1. Asked + (IF recvreq THEN 1 ELSE 0) + 0 = 0
    BY <1>3, <1>5
  <2> QED BY <1>2, <1>6, <1>7, <2>1 DEF OneRequest
<1>9. TypeOK'
  <2>1. sload' \in [Clients -> Int]
    <3>1. \A c \in Clients : sload[c] \in Int /\ Head(loads)[c] \in Int
      BY <1>1, <1>4, NetFacts
    <3>2. \A c \in Clients : sload[c] - Head(loads)[c] \in Int
      BY <3>1
    <3> QED BY <1>2, <3>2
  <2>2. loads' \in Seq([Clients -> Int])
    BY <1>2, <1>4
  <2> QED BY <1>1, <1>2, <2>1, <2>2 DEF TypeOK, recvars, clivars, state, proc
<1>10. jobs_in' = jobs_in
  BY <1>2 DEF clivars, state
<1>11. Forms' /\ Apart'
  BY <1>1, <1>2, <1>10 DEF Forms, Apart
<1>12. Open' = Open /\ Recorded'
  BY <1>1, <1>2 DEF Open, Recorded, recvars
<1>13. OnlyOpen'
  BY <1>1, <1>2, <1>10, <1>12 DEF OnlyOpen
<1>14. LoadsAgree'
  <2>1. Counts
    BY <1>1, LoadsIs
  <2>2. ASSUME NEW d \in Clients
        PROVE  sload'[d] - Reported(d)' = In(d)' + Len(jobs_in'[d]) + Back(d)'
    <3>1. /\ sload[d] \in Int /\ rload[d] \in Int /\ Head(loads)[d] \in Int
      BY <1>1, <1>4, NetFacts
    <3>2. sload[d] - Reported(d) = In(d) + Len(jobs_in[d]) + Back(d)
      BY <2>1 DEF Counts
    <3>3. Reported(d) = rload[d] + Head(loads)[d]
      BY <1>2 DEF Reported
    <3>4. rload' = rload
      BY <1>2 DEF recvars
    <3>5. Reported(d)' = rload[d] + 0
      BY <1>6, <3>4 DEF Reported
    <3>6. sload'[d] = sload[d] - Head(loads)[d]
      BY <1>2
    <3>7. (sload[d] - Head(loads)[d]) - (rload[d] + 0) = sload[d] - (rload[d] + Head(loads)[d])
      BY <3>1
    <3>8. In(d)' = In(d) /\ Back(d)' = Back(d) /\ jobs_in' = jobs_in
      BY <1>2, <1>10 DEF In, Back
    <3>9. sload'[d] - Reported(d)' = sload[d] - Reported(d)
      BY <3>3, <3>5, <3>6, <3>7
    <3> QED BY <3>2, <3>8, <3>9
  <2>3. Len(loads') <= 1
    BY <1>6
  <2> QED BY <1>11, <2>2, <2>3, LoadsIsNext DEF Counts
<1>15. Phases' /\ ResultsMatchJobs'
  BY <1>1, <1>2, <1>9, AllClients DEF clivars, state, proc
<1> QED BY <1>8, <1>9, <1>11, <1>12, <1>13, <1>14, <1>15 DEF Inv
-----------------------------------------------------------------------------
(* The receiver. *)

(* It takes one message. *)
LEMMA ReceiveFacts ==
    ASSUME TypeOK, Forms, Apart, NEW i \in DOMAIN net[receiver], NEW m, m = net[receiver][i],
           net'[receiver] = RemoveAt(net[receiver], i)
    PROVE  /\ net'[receiver] \in Seq(ToReceiver) /\ m \in ToReceiver /\ m \in Message
           /\ Carried(net'[receiver]) = Carried(net[receiver]) \ {m.task} /\ Distinct(net'[receiver])
           /\ m.task # 0 => m.task \in Carried(net[receiver])
           /\ \A d \in Clients : Back(d)' = Back(d) - (IF m.src = d THEN 1 ELSE 0)
           /\ Asked' = Asked - (IF m.type = "clientload" THEN 1 ELSE 0)
<1>1. net[receiver] \in Seq(ToReceiver) /\ Distinct(net[receiver])
  BY NetFacts, ConstantFacts DEF Apart
<1>2. i \in 1..Len(net[receiver]) /\ m \in ToReceiver /\ m \in Message
  BY <1>1, FormFacts
<1>3. net'[receiver] \in Seq(ToReceiver)
  BY <1>1, <1>2, RemoveAtFacts
<1>4. /\ Carried(net'[receiver]) = Carried(net[receiver]) \ {m.task} /\ Distinct(net'[receiver])
      /\ m.task # 0 => m.task \in Carried(net[receiver])
  BY <1>1, <1>2, CarriedRemove
<1>5. \A d \in Clients : Back(d)' = Back(d) - (IF m.src = d THEN 1 ELSE 0)
  <2> SUFFICES ASSUME NEW d \in Clients PROVE Back(d)' = Back(d) - (IF m.src = d THEN 1 ELSE 0)
    OBVIOUS
  <2>1. m \in From(d) <=> m.src = d
    BY <1>2 DEF From
  <2> QED BY <1>1, <1>2, <2>1, CountRemove DEF Back
<1>6. Asked' = Asked - (IF m.type = "clientload" THEN 1 ELSE 0)
  <2>1. m \in Requests <=> m.type = "clientload"
    BY <1>2 DEF Requests
  <2> QED BY <1>1, <1>2, <2>1, CountRemove DEF Asked
<1> QED BY <1>2, <1>3, <1>4, <1>5, <1>6

(* What it reports comes to what it has counted. *)
LEMMA ReportFacts ==
    ASSUME TypeOK, Forms, OneRequest, NEW load \in [Clients -> Int],
           \/ recvreq /\ loads' = Append(loads, load) /\ rload' = NoLoad /\ ~recvreq'
           \/ rload' = load /\ loads' = loads /\ (recvreq' <=> recvreq)
    PROVE  /\ loads' \in Seq([Clients -> Int]) /\ rload' \in [Clients -> Int] /\ Len(loads') <= 1
           /\ (IF recvreq' THEN 1 ELSE 0) + Len(loads') = (IF recvreq THEN 1 ELSE 0) + Len(loads)
           /\ \A d \in Clients : Reported(d)' = Reported(d) + (load[d] - rload[d])
<1>1. /\ loads \in Seq([Clients -> Int]) /\ Len(loads) \in Nat /\ Asked \in Nat
      /\ \A d \in Clients : rload[d] \in Int /\ load[d] \in Int /\ Reported(d) \in Int
  BY NetFacts
<1>2. Asked + (IF recvreq THEN 1 ELSE 0) + Len(loads) <= 1
  BY DEF OneRequest
<1>3. CASE recvreq /\ loads' = Append(loads, load) /\ rload' = NoLoad /\ ~recvreq'
  <2>1. Len(loads) = 0 /\ loads = <<>>
    BY <1>1, <1>2, <1>3
  <2>2. /\ loads' \in Seq([Clients -> Int]) /\ Len(loads') = 1 /\ loads'[1] = load /\ loads' # <<>>
    BY <1>1, <1>3, <2>1, AppendProperties
  <2>3. Head(loads') = load
    BY <2>2
  <2>4. rload' \in [Clients -> Int] /\ \A d \in Clients : rload'[d] = 0
    BY <1>3 DEF NoLoad
  <2>5. ASSUME NEW d \in Clients PROVE Reported(d)' = Reported(d) + (load[d] - rload[d])
    <3>1. Reported(d)' = 0 + load[d]
      BY <2>2, <2>3, <2>4 DEF Reported
    <3>2. Reported(d) = rload[d] + 0
      BY <2>1 DEF Reported
    <3>3. rload[d] \in Int /\ load[d] \in Int
      BY <1>1
    <3>4. 0 + load[d] = (rload[d] + 0) + (load[d] - rload[d])
      BY <3>3
    <3> QED BY <3>1, <3>2, <3>4
  <2>6. (IF recvreq' THEN 1 ELSE 0) + Len(loads') = (IF recvreq THEN 1 ELSE 0) + Len(loads)
    BY <1>3, <2>1, <2>2
  <2> QED BY <2>2, <2>4, <2>5, <2>6
<1>4. CASE rload' = load /\ loads' = loads /\ (recvreq' <=> recvreq)
  <2>1. Len(loads) <= 1
    BY <1>1, <1>2
  <2>2. ASSUME NEW d \in Clients PROVE Reported(d)' = Reported(d) + (load[d] - rload[d])
    <3>1. PICK x : x = IF loads = <<>> THEN 0 ELSE Head(loads)[d]
      OBVIOUS
    <3>2. Reported(d) = rload[d] + x /\ Reported(d)' = load[d] + x
      BY <1>4, <3>1 DEF Reported
    <3>3. rload[d] \in Int /\ load[d] \in Int
      BY <1>1
    <3>4. x \in Int
      <4>1. CASE loads = <<>>
        BY <3>1, <4>1
      <4>2. CASE loads # <<>>
        <5>1. Head(loads) \in [Clients -> Int]
          BY <1>1, <4>2, HeadTailProperties
        <5> QED BY <3>1, <4>2, <5>1
      <4> QED BY <4>1, <4>2
    <3>5. load[d] + x = (rload[d] + x) + (load[d] - rload[d])
      BY <3>3, <3>4
    <3> QED BY <3>2, <3>5
  <2> QED BY <1>1, <1>4, <2>1, <2>2
<1> QED BY <1>3, <1>4

LEMMA ReceiverCounts ==
    ASSUME TypeOK, Forms, LoadsAgree, Forms', Len(loads') <= 1, sload' = sload, jobs_in' = jobs_in,
           \A d \in Clients : \E p, s \in Int :
               Reported(d)' = Reported(d) + (s - p) /\ In(d)' = In(d) + p /\ Back(d)' = Back(d) - s
    PROVE  LoadsAgree'
<1>1. Counts
  BY LoadsIs
<1>2. ASSUME NEW d \in Clients
      PROVE  sload'[d] - Reported(d)' = In(d)' + Len(jobs_in'[d]) + Back(d)'
  <2>1. PICK p \in Int, s \in Int :
          Reported(d)' = Reported(d) + (s - p) /\ In(d)' = In(d) + p /\ Back(d)' = Back(d) - s
    OBVIOUS
  <2>2. /\ sload[d] \in Int /\ Reported(d) \in Int /\ In(d) \in Nat /\ Len(jobs_in[d]) \in Nat /\ Back(d) \in Nat
    BY NetFacts
  <2>3. PICK a \in Int, e \in Int, i \in Nat, l \in Nat, k \in Nat :
          a = sload[d] /\ e = Reported(d) /\ i = In(d) /\ l = Len(jobs_in[d]) /\ k = Back(d)
    BY <2>2
  <2>4. a - e = i + l + k
    BY <1>1, <2>3 DEF Counts
  <2>5. a - (e + (s - p)) = (i + p) + l + (k - s)
    BY <2>4
  <2> QED BY <2>1, <2>3, <2>5
<1>3. Counts'
  BY <1>2 DEF Counts
<1> QED BY <1>3, LoadsIsNext

LEMMA ReceiveRequestInv ==
    ASSUME Inv, NEW i \in DOMAIN net[receiver], Arrives(receiver, i), ReceiveRequest(i)
    PROVE  Inv'
<1>1. TypeOK /\ Phases /\ ResultsMatchJobs /\ Forms /\ Apart /\ OnlyOpen /\ Recorded /\ OneRequest /\ LoadsAgree
  BY DEF Inv
<1>2. PICK m : m = net[receiver][i]
  OBVIOUS
<1>3. /\ m.type = "clientload" /\ net' = Taken(receiver, i)
      /\ \/ loads' = Append(loads, rload) /\ rload' = NoLoad /\ recvreq' = FALSE
         \/ recvreq' = TRUE /\ UNCHANGED <<loads, rload>>
      /\ UNCHANGED <<subvars, rpc, ns, finished, minrecv, jobs_out, answers, clivars>>
  BY <1>2 DEF ReceiveRequest, Submit
<1>4. overtakings' \in Nat /\ faults + overtakings' <= MaxFaults
  BY <1>1, ArrivesFacts
<1>5. /\ net'[receiver] = RemoveAt(net[receiver], i) /\ \A d \in Clients : net'[d] = net[d]
      /\ DOMAIN net' = Ranks /\ net' = [r \in Ranks |-> net'[r]]
  BY <1>1, <1>3, NetFacts, ConstantFacts DEF Taken
<1>6. /\ net'[receiver] \in Seq(ToReceiver) /\ m \in ToReceiver /\ m \in Message
      /\ Carried(net'[receiver]) = Carried(net[receiver]) \ {m.task} /\ Distinct(net'[receiver])
      /\ \A d \in Clients : Back(d)' = Back(d) - (IF m.src = d THEN 1 ELSE 0)
      /\ Asked' = Asked - (IF m.type = "clientload" THEN 1 ELSE 0)
  BY <1>1, <1>2, <1>5, ReceiveFacts
<1>7. m.src = submitter
  BY <1>3, <1>6 DEF ToReceiver
<1>8. \A d \in Clients : Back(d)' = Back(d) /\ In(d)' = In(d)
  <2>1. \A d \in Clients : m.src # d /\ Back(d) \in Nat
    BY <1>1, <1>7, NetFacts, ConstantFacts
  <2> QED BY <1>5, <1>6, <2>1 DEF In
<1>9. jobs_in' = jobs_in /\ sload' = sload /\ spc' = spc
  BY <1>3 DEF clivars, state, subvars
<1>10. Asked = 1 /\ Asked' = 0 /\ ~recvreq /\ loads = <<>> /\ spc = "wait"
  <2>1. Asked' \in Nat
    BY <1>6, PlacesFinite DEF Asked
  <2>2. Asked \in Nat /\ Asked' = Asked - 1 /\ loads \in Seq([Clients -> Int]) /\ Len(loads) \in Nat
    BY <1>1, <1>3, <1>6, NetFacts
  <2>3. Asked >= 1
    BY <2>1, <2>2
  <2>4. Asked + (IF recvreq THEN 1 ELSE 0) + Len(loads) = IF spc = "wait" THEN 1 ELSE 0
    BY <1>1 DEF OneRequest
  <2>5. Asked = 1 /\ ~recvreq /\ Len(loads) = 0 /\ spc = "wait"
    BY <2>2, <2>3, <2>4
  <2> QED BY <2>2, <2>5
<1>11. /\ loads' \in Seq([Clients -> Int]) /\ rload' \in [Clients -> Int] /\ recvreq' \in BOOLEAN
       /\ Len(loads') <= 1
       /\ (IF recvreq' THEN 1 ELSE 0) + Len(loads') = 1
       /\ \A d \in Clients : Reported(d)' = Reported(d)
  <2>0. /\ loads \in Seq([Clients -> Int]) /\ rload \in [Clients -> Int]
        /\ \A d \in Clients : rload[d] \in Int
    BY <1>1 DEF TypeOK
  <2>1. CASE loads' = Append(loads, rload) /\ rload' = NoLoad /\ recvreq' = FALSE
    <3>1. /\ loads' \in Seq([Clients -> Int]) /\ Len(loads') = 1 /\ loads'[1] = rload /\ loads' # <<>>
      BY <1>10, <2>0, <2>1, AppendProperties
    <3>2. Head(loads') = rload
      BY <3>1
    <3>3. rload' \in [Clients -> Int] /\ \A d \in Clients : rload'[d] = 0
      BY <2>1 DEF NoLoad
    <3>4. ASSUME NEW d \in Clients PROVE Reported(d)' = Reported(d)
      <4>1. Reported(d)' = 0 + rload[d]
        BY <3>1, <3>2, <3>3 DEF Reported
      <4>2. Reported(d) = rload[d] + 0
        BY <1>10 DEF Reported
      <4>3. 0 + rload[d] = rload[d] + 0
        BY <2>0
      <4> QED BY <4>1, <4>2, <4>3
    <3>0. ~recvreq' /\ recvreq' \in BOOLEAN
      BY <2>1
    <3>5. recvreq' \in BOOLEAN /\ (IF recvreq' THEN 1 ELSE 0) + Len(loads') = 1
      BY <3>0, <3>1
    <3>6. Len(loads') <= 1
      BY <3>1
    <3> QED BY <3>1, <3>3, <3>4, <3>5, <3>6
  <2>2. CASE recvreq' = TRUE /\ UNCHANGED <<loads, rload>>
    <3>1. \A d \in Clients : Reported(d)' = Reported(d)
      BY <2>2 DEF Reported
    <3>2. Len(loads') = 0 /\ loads' = loads /\ rload' = rload
      BY <1>10, <2>2
    <3> QED BY <2>0, <2>2, <3>1, <3>2
  <2> QED BY <1>3, <2>1, <2>2
<1>12. OneRequest'
  <2>1. Asked' + (IF recvreq' THEN 1 ELSE 0) + Len(loads') = 1
    <3>1. Len(loads') \in Nat
      BY <1>11
    <3> QED BY <1>10, <1>11, <3>1
  <2> QED BY <1>9, <1>10, <2>1 DEF OneRequest
<1>13. TypeOK'
  <2>1. \A r \in Ranks : net'[r] \in Seq(Message)
    <3>1. net'[receiver] \in Seq(Message)
      BY <1>6, FormFacts, SeqWiden
    <3> QED BY <1>1, <1>5, <3>1, NetFacts, ConstantFacts
  <2>2. net' \in [Ranks -> Seq(Message)]
    BY <1>5, <2>1
  <2>3. faults' = faults
    BY <1>3 DEF clivars, proc
  <2> QED BY <1>1, <1>3, <1>4, <1>11, <2>2, <2>3 DEF TypeOK, subvars, clivars, state, proc, Ranks
<1>14. Forms'
  <2>1. \A d \in Clients : net'[d] \in Seq(ToClient)
    BY <1>1, <1>5 DEF Forms
  <2> QED BY <1>1, <1>6, <1>9, <2>1 DEF Forms
<1>15. \A r \in Ranks : Carried(net'[r]) \subseteq Carried(net[r]) /\ Distinct(net'[r])
  BY <1>1, <1>5, <1>6, ConstantFacts DEF Apart
<1>16. Apart'
  <2>1. \A d \in Clients : Carried(jobs_in'[d]) \subseteq Carried(jobs_in[d]) /\ Distinct(jobs_in'[d])
    BY <1>1, <1>9 DEF Apart
  <2> QED BY <1>1, <1>15, <2>1, MoveNothing
<1>17. Recorded' /\ Open' = Open
  BY <1>1, <1>3, OpenFrame DEF subvars
<1>18. OnlyOpen'
  BY <1>1, <1>9, <1>15, <1>17 DEF OnlyOpen
<1>19. LoadsAgree'
  <2>1. Counts
    BY <1>1, LoadsIs
  <2>2. Counts'
    BY <1>8, <1>9, <1>11, <2>1 DEF Counts
  <2> QED BY <1>14, <2>2, LoadsIsNext
<1>20. Phases' /\ ResultsMatchJobs'
  BY <1>1, <1>3, <1>13, AllClients DEF clivars, state, proc
<1> QED BY <1>12, <1>13, <1>14, <1>16, <1>17, <1>18, <1>19, <1>20 DEF Inv

(* What the receiver sends to a client. *)
LEMMA FlushFacts ==
    ASSUME NEW type \in {"flush", "finish"}
    PROVE  /\ Signal(receiver, type) \in ToClient /\ Signal(receiver, type).task = 0
           /\ Signal(receiver, type) \notin Jobs
<1>1. 0 \in 0..Lines + 1 /\ 0 \in 0..max_attempts /\ 0 \notin Tasks
  BY ConstantFacts
<1> QED BY <1>1 DEF Signal, Msg, ToClient, Jobs, Message

LEMMA SignalsFacts ==
    ASSUME NEW e \in Seq(ToClient), \A k \in 1..Len(e) : e[k].task = 0 /\ e[k] \notin Jobs,
           NEW s \in Seq(ToClient), Distinct(s)
    PROVE  /\ s \o e \in Seq(ToClient) /\ Carried(s \o e) = Carried(s) /\ Distinct(s \o e)
           /\ Cardinality(Places(s \o e, Jobs)) = Cardinality(Places(s, Jobs))
<1>1. Carried(e) = {} /\ Distinct(e) /\ Cardinality(Places(e, Jobs)) = 0
  BY CarriedNothing, CountAll
<1>2. s \o e \in Seq(ToClient) /\ Carried(s) \cap Carried(e) = {}
  BY <1>1, ConcatProperties
<1>3. Carried(s \o e) = Carried(s) \cup Carried(e) /\ Distinct(s \o e)
  <2>1. Distinct(s) /\ Distinct(e) /\ Carried(s) \cap Carried(e) = {} => Distinct(s \o e)
    BY CarriedConcat
  <2>2. Carried(s \o e) = Carried(s) \cup Carried(e)
    BY CarriedConcat
  <2> QED BY <1>1, <1>2, <2>1, <2>2
<1>4. Cardinality(Places(s \o e, Jobs)) = Cardinality(Places(s, Jobs)) + Cardinality(Places(e, Jobs))
  BY CountConcat
<1>5. Cardinality(Places(s, Jobs)) \in Nat
  BY PlacesFinite
<1> QED BY <1>1, <1>2, <1>3, <1>4, <1>5

LEMMA NoSignals ==
    /\ <<>> \in Seq(ToClient) /\ \A k \in 1..Len(<<>>) : <<>>[k].task = 0 /\ <<>>[k] \notin Jobs
BY EmptySeq

LEMMA OneSignal ==
    ASSUME NEW f \in ToClient, f.task = 0, f \notin Jobs
    PROVE  /\ <<f>> \in Seq(ToClient) /\ Len(<<f>>) = 1
           /\ \A k \in 1..Len(<<f>>) : <<f>>[k].task = 0 /\ <<f>>[k] \notin Jobs
<1> DEFINE e == <<f>>
<1>1. e \in Seq(ToClient) /\ Len(e) = 1 /\ e[1] = f
  OBVIOUS
<1> HIDE DEF e
<1>2. \A k \in 1..Len(e) : k = 1
  BY <1>1
<1> QED BY <1>1, <1>2 DEF e

LEMMA JobFacts ==
    ASSUME NEW f \in ToClient, f.task = 0, f \notin Jobs, NEW j \in Jobs, NEW s \in Seq(ToClient),
           Distinct(s), j.task \notin Carried(s)
    PROVE  /\ s \o <<f, j>> \in Seq(ToClient)
           /\ Carried(s \o <<f, j>>) = Carried(s) \cup {j.task} /\ Distinct(s \o <<f, j>>)
           /\ Cardinality(Places(s \o <<f, j>>, Jobs)) = Cardinality(Places(s, Jobs)) + 1
<1>1. j \in ToClient /\ j.task # 0
  BY FormFacts, ConstantFacts
<1>2. s \o <<f, j>> = Append(Append(s, f), j)
  <2>1. <<f, j>> \in Seq(ToClient) /\ <<f>> \in Seq(ToClient) /\ <<j>> \in Seq(ToClient) /\ <<f, j>> = <<f>> \o <<j>>
    BY <1>1
  <2>2. Append(s, f) = s \o <<f>> /\ Append(s, f) \in Seq(ToClient)
    BY AppendIsConcat, AppendProperties
  <2>3. Append(Append(s, f), j) = Append(s, f) \o <<j>>
    BY <1>1, <2>2, AppendIsConcat
  <2>4. (s \o <<f>>) \o <<j>> = s \o (<<f>> \o <<j>>)
    BY <2>1, ConcatAssociative
  <2> QED BY <2>1, <2>2, <2>3, <2>4
<1> DEFINE u == Append(s, f)
<1>3. u \in Seq(ToClient) /\ Carried(u) = Carried(s) \cup ({f.task} \ {0}) /\ Distinct(u)
  <2>1. f.task \notin Carried(s)
    BY DEF Carried
  <2> QED BY <2>1, AppendProperties, CarriedAppend
<1>4. Cardinality(Places(u, Jobs)) = Cardinality(Places(s, Jobs)) + 0
  BY CountAppend
<1> HIDE DEF u
<1>5. Append(u, j) \in Seq(ToClient)
  BY <1>1, <1>3, AppendProperties
<1>6. Carried(Append(u, j)) = Carried(u) \cup ({j.task} \ {0}) /\ Distinct(Append(u, j))
  BY <1>1, <1>3, CarriedAppend
<1>7. Cardinality(Places(Append(u, j), Jobs)) = Cardinality(Places(u, Jobs)) + 1
  BY <1>1, <1>3, CountAppend
<1>8. Cardinality(Places(s, Jobs)) \in Nat
  BY PlacesFinite
<1>9. Cardinality(Places(Append(u, j), Jobs)) = Cardinality(Places(s, Jobs)) + 1
  BY <1>4, <1>7, <1>8
<1>10. Carried(Append(u, j)) = Carried(s) \cup {j.task}
  BY <1>1, <1>3, <1>6
<1>11. s \o <<f, j>> = Append(u, j)
  BY <1>2 DEF u
<1> QED BY <1>5, <1>6, <1>9, <1>10, <1>11

LEMMA ResendInv ==
    ASSUME Inv, NEW i \in DOMAIN net[receiver], Arrives(receiver, i), Resend(i)
    PROVE  Inv'
<1>1. TypeOK /\ Phases /\ ResultsMatchJobs /\ Forms /\ Apart /\ OnlyOpen /\ Recorded /\ OneRequest /\ LoadsAgree
  BY DEF Inv
<1>2. PICK m : m = net[receiver][i]
  OBVIOUS
<1>3. PICK to : to = ((ns - 2 + 1) % NumClients) + 2
  OBVIOUS
<1> DEFINE f == Signal(receiver, "flush")
           j == Msg(receiver, "input", m.task, m.attempt + 1)
           e == IF finished THEN <<f>> ELSE <<>>
           load == [[rload EXCEPT ![m.src] = @ + 1] EXCEPT ![to] = @ - 1]
<1>4. /\ m.type = "input" /\ m.attempt < max_attempts /\ ns' = to
      /\ net' = [Taken(receiver, i) EXCEPT ![to] = @ \o <<f, j>> \o e]
      /\ SubmitIfAsked(load)
      /\ UNCHANGED <<subvars, rpc, finished, minrecv, jobs_out, answers, clivars>>
  BY <1>2, <1>3 DEF Resend
<1>5. overtakings' \in Nat /\ faults + overtakings' <= MaxFaults
  BY <1>1, ArrivesFacts
<1>6. to \in Clients
  <2>1. ns \in Int /\ NumClients \in Nat \ {0}
    BY <1>1, ConstantFacts DEF TypeOK
  <2>2. (ns - 2 + 1) % NumClients \in 0..NumClients - 1
    BY <2>1
  <2> QED BY <1>3, <2>1, <2>2 DEF Clients
<1>7. /\ net'[receiver] = RemoveAt(net[receiver], i) /\ net'[to] = (net[to] \o <<f, j>>) \o e
      /\ \A r \in Ranks \ {receiver, to} : net'[r] = net[r]
      /\ DOMAIN net' = Ranks /\ net' = [r \in Ranks |-> net'[r]]
  <2> HIDE DEF f, j, e, load
  <2> QED BY <1>1, <1>4, <1>6, NetFacts, ConstantFacts DEF Taken
<1>8. /\ net'[receiver] \in Seq(ToReceiver) /\ m \in ToReceiver /\ m \in Message
      /\ Carried(net'[receiver]) = Carried(net[receiver]) \ {m.task} /\ Distinct(net'[receiver])
      /\ m.task # 0 => m.task \in Carried(net[receiver])
      /\ \A d \in Clients : Back(d)' = Back(d) - (IF m.src = d THEN 1 ELSE 0)
      /\ Asked' = Asked - (IF m.type = "clientload" THEN 1 ELSE 0)
  <2> HIDE DEF f, j, e, load
  <2> QED BY <1>1, <1>2, <1>7, ReceiveFacts
<1>9. m.src \in Clients /\ m.task \in Tasks /\ m.task # 0
  BY <1>4, <1>8, ConstantFacts DEF ToReceiver
<1>10. j \in Jobs /\ j.task = m.task
  <2>1. m.task \in 0..Lines + 1 /\ m.attempt \in 0..max_attempts
    BY <1>8 DEF Message
  <2>2. m.attempt + 1 \in 0..max_attempts
    BY <1>4, <2>1, ConstantFacts
  <2> QED BY <1>9, <2>1, <2>2 DEF Msg, Jobs, Message
<1>11. f \in ToClient /\ f.task = 0 /\ f \notin Jobs
  BY FlushFacts
<1>12. e \in Seq(ToClient) /\ \A k \in 1..Len(e) : e[k].task = 0 /\ e[k] \notin Jobs
  <2> HIDE DEF f, j
  <2>1. CASE finished
    BY <1>11, <2>1, OneSignal
  <2>2. CASE ~finished
    BY <2>2, NoSignals
  <2> QED BY <2>1, <2>2
<1> HIDE DEF f, j, e
<1>13. /\ net[to] \in Seq(ToClient) /\ Distinct(net[to]) /\ m.task \notin Carried(net[to])
  BY <1>1, <1>6, <1>8, <1>9, NetFacts, ConstantFacts DEF Apart
<1>14. /\ net[to] \o <<f, j>> \in Seq(ToClient)
       /\ Carried(net[to] \o <<f, j>>) = Carried(net[to]) \cup {m.task} /\ Distinct(net[to] \o <<f, j>>)
       /\ Cardinality(Places(net[to] \o <<f, j>>, Jobs)) = Cardinality(Places(net[to], Jobs)) + 1
  BY <1>10, <1>11, <1>13, JobFacts
<1>15. /\ net'[to] \in Seq(ToClient)
       /\ Carried(net'[to]) = Carried(net[to]) \cup {m.task} /\ Distinct(net'[to])
       /\ Cardinality(Places(net'[to], Jobs)) = Cardinality(Places(net[to], Jobs)) + 1
  <2> DEFINE u == net[to] \o <<f, j>>
  <2> HIDE DEF u
  <2>1. u \in Seq(ToClient) /\ Distinct(u) /\ net'[to] = u \o e
    BY <1>7, <1>14 DEF u
  <2>2. /\ u \o e \in Seq(ToClient) /\ Carried(u \o e) = Carried(u) /\ Distinct(u \o e)
        /\ Cardinality(Places(u \o e, Jobs)) = Cardinality(Places(u, Jobs))
    BY <1>12, <2>1, SignalsFacts
  <2> QED BY <1>14, <2>1, <2>2 DEF u
<1>16. In(to)' = In(to) + 1 /\ \A d \in Clients \ {to} : In(d)' = In(d)
  BY <1>7, <1>15, ConstantFacts DEF In
<1>17. /\ load \in [Clients -> Int]
       /\ \A d \in Clients : load[d] - rload[d] = (IF m.src = d THEN 1 ELSE 0) - (IF to = d THEN 1 ELSE 0)
  <2>1. rload \in [Clients -> Int] /\ m.src \in Clients /\ to \in Clients
    BY <1>1, <1>6, <1>9 DEF TypeOK
  <2> DEFINE g == [rload EXCEPT ![m.src] = @ + 1]
  <2>2. g \in [Clients -> Int] /\ \A d \in Clients : g[d] = rload[d] + (IF m.src = d THEN 1 ELSE 0)
    <3>1. rload[m.src] + 1 \in Int
      BY <2>1
    <3>2. \A d \in Clients : rload[d] \in Int
      BY <2>1
    <3>3. \A d \in Clients : g[d] = IF d = m.src THEN rload[m.src] + 1 ELSE rload[d]
      BY <2>1
    <3> QED BY <2>1, <3>1, <3>2, <3>3
  <2>3. load = [g EXCEPT ![to] = @ - 1]
    OBVIOUS
  <2> HIDE DEF g, load
  <2>4. \A d \in Clients : load[d] = IF d = to THEN g[to] - 1 ELSE g[d]
    BY <2>1, <2>2, <2>3
  <2>5. g[to] - 1 \in Int /\ \A d \in Clients : g[d] \in Int /\ rload[d] \in Int
    BY <2>1, <2>2
  <2>6. load \in [Clients -> Int]
    BY <2>2, <2>3, <2>5
  <2>7. ASSUME NEW d \in Clients
        PROVE  load[d] - rload[d] = (IF m.src = d THEN 1 ELSE 0) - (IF to = d THEN 1 ELSE 0)
    <3>1. PICK x \in Int : x = rload[d]
      BY <2>5
    <3>2. g[d] = x + (IF m.src = d THEN 1 ELSE 0)
      BY <2>2, <3>1
    <3>3. load[d] = g[d] - (IF to = d THEN 1 ELSE 0)
      BY <2>4, <2>5
    <3> QED BY <3>1, <3>2, <3>3
  <2> QED BY <2>6, <2>7
<1> HIDE DEF load
<1>18. /\ loads' \in Seq([Clients -> Int]) /\ rload' \in [Clients -> Int] /\ Len(loads') <= 1
       /\ (IF recvreq' THEN 1 ELSE 0) + Len(loads') = (IF recvreq THEN 1 ELSE 0) + Len(loads)
       /\ \A d \in Clients : Reported(d)' = Reported(d) + (load[d] - rload[d])
  <2>1. \/ recvreq /\ loads' = Append(loads, load) /\ rload' = NoLoad /\ ~recvreq'
        \/ rload' = load /\ loads' = loads /\ (recvreq' <=> recvreq)
    BY <1>4 DEF SubmitIfAsked, Submit
  <2> QED BY <1>1, <1>17, <2>1, ReportFacts
<1>19. recvreq' \in BOOLEAN
  BY <1>4 DEF SubmitIfAsked
<1>20. jobs_in' = jobs_in /\ sload' = sload /\ spc' = spc
  BY <1>4 DEF clivars, state, subvars
<1>21. OneRequest'
  <2>1. Asked' = Asked /\ Asked \in Nat /\ Len(loads) \in Nat /\ Len(loads') \in Nat
    BY <1>1, <1>4, <1>8, <1>18, NetFacts
  <2>2. Asked' + (IF recvreq' THEN 1 ELSE 0) + Len(loads') = Asked + (IF recvreq THEN 1 ELSE 0) + Len(loads)
    BY <1>18, <2>1
  <2> QED BY <1>1, <1>20, <2>2 DEF OneRequest
<1>22. TypeOK'
  <2>1. \A r \in Ranks : net'[r] \in Seq(Message)
    <3>1. net'[receiver] \in Seq(Message) /\ net'[to] \in Seq(Message)
      BY <1>8, <1>15, FormFacts, SeqWiden
    <3>2. \A r \in Ranks : net[r] \in Seq(Message)
      BY <1>1, NetFacts, ConstantFacts
    <3> QED BY <1>7, <3>1, <3>2
  <2>2. net' \in [Ranks -> Seq(Message)]
    BY <1>7, <2>1
  <2>3. faults' = faults /\ ns' \in Clients
    BY <1>4, <1>6 DEF clivars, proc
  <2> QED BY <1>1, <1>4, <1>5, <1>18, <1>19, <2>2, <2>3 DEF TypeOK, subvars, clivars, state, proc, Ranks
<1>23. Forms'
  <2>1. \A d \in Clients : net'[d] \in Seq(ToClient)
    BY <1>1, <1>7, <1>15, ConstantFacts DEF Forms
  <2> QED BY <1>1, <1>8, <1>20, <2>1 DEF Forms
<1>24. Apart'
  <2> DEFINE X == {m.task}
  <2>1. \A r \in Ranks \ {to} : Carried(net'[r]) \subseteq Carried(net[r]) \ X
    <3>1. \A r \in Ranks \ {receiver} : m.task \notin Carried(net[r])
      BY <1>1, <1>8, <1>9, ConstantFacts DEF Apart
    <3> QED BY <1>7, <1>8, <3>1
  <2>2. \A d \in Clients : Carried(jobs_in'[d]) \subseteq Carried(jobs_in[d]) \ X
    <3>1. \A d \in Clients : m.task \notin Carried(jobs_in[d])
      BY <1>1, <1>8, <1>9, ConstantFacts DEF Apart
    <3> QED BY <1>20, <3>1
  <2>3. (\A r \in Ranks : Distinct(net'[r])) /\ (\A d \in Clients : Distinct(jobs_in'[d]))
    BY <1>1, <1>7, <1>8, <1>15, <1>20 DEF Apart
  <2>4. to \in Ranks /\ Carried(net'[to]) \subseteq Carried(net[to]) \cup X
    BY <1>6, <1>15, ConstantFacts
  <2> HIDE DEF X
  <2> QED BY <1>1, <2>1, <2>2, <2>3, <2>4, MoveToNet
<1>25. Recorded' /\ Open' = Open
  BY <1>1, <1>4, OpenFrame DEF subvars
<1>26. OnlyOpen'
  <2>1. m.task \in Open
    BY <1>1, <1>8, <1>9, ConstantFacts DEF OnlyOpen
  <2>2. \A r \in Ranks : Carried(net'[r]) \subseteq Open
    BY <1>1, <1>7, <1>8, <1>15, <2>1 DEF OnlyOpen
  <2> QED BY <1>1, <1>20, <1>25, <2>2 DEF OnlyOpen
<1>27. LoadsAgree'
  <2>1. ASSUME NEW d \in Clients
        PROVE  \E p, s \in Int :
                 Reported(d)' = Reported(d) + (s - p) /\ In(d)' = In(d) + p /\ Back(d)' = Back(d) - s
    <3> DEFINE p == IF to = d THEN 1 ELSE 0
               s == IF m.src = d THEN 1 ELSE 0
    <3>1. p \in Int /\ s \in Int
      OBVIOUS
    <3>2. Reported(d)' = Reported(d) + (s - p)
      BY <1>17, <1>18
    <3>3. In(d) \in Nat
      BY <1>1, NetFacts
    <3>4. In(d)' = In(d) + p
      BY <1>16, <3>3
    <3>5. Back(d)' = Back(d) - s
      BY <1>8
    <3> HIDE DEF p, s
    <3> QED BY <3>1, <3>2, <3>4, <3>5
  <2> QED BY <1>1, <1>18, <1>20, <1>23, <2>1, ReceiverCounts
<1>28. Phases' /\ ResultsMatchJobs'
  BY <1>1, <1>4, <1>22, AllClients DEF clivars, state, proc
<1> QED BY <1>21, <1>22, <1>23, <1>24, <1>25, <1>26, <1>27, <1>28 DEF Inv

(* The least number from a on that is not in S. *)
LEMMA LeastMissing ==
    ASSUME NEW a \in Nat, NEW b \in Nat, a <= b, NEW S, b \notin S
    PROVE  \E t \in a..b : t \notin S /\ a..t - 1 \subseteq S
<1> DEFINE T == {t \in a..b : t \notin S}
<1>1. T \subseteq Nat /\ T # {}
  OBVIOUS
<1>2. PICK t \in T : \A y \in T : ~(<<y, t>> \in OpToRel(<, Nat))
  <2> HIDE DEF T
  <2> QED BY <1>1, WFMin, NatLessThanWellFounded
<1>3. \A y \in T : ~(y < t)
  BY <1>1, <1>2 DEF OpToRel
<1>4. ASSUME NEW x \in a..t - 1 PROVE x \in S
  BY <1>3
<1> QED BY <1>2, <1>4

(* What is recorded of an open task x, when n is the least task from minrecv on that is *)
(* not done.                                                                            *)
LEMMA RecordFacts ==
    ASSUME TypeOK, Recorded, rpc = "recv", NEW x \in Open, NEW n \in minrecv..Lines + 2,
           n \notin jobs_out \cup {x}, minrecv..n - 1 \subseteq jobs_out \cup {x},
           spc' = spc, count' = count,
           answers' = [t \in Tasks |-> IF t = x THEN answers[t] + 1 ELSE answers[t]],
           jobs_out' = {t \in jobs_out \cup {x} : t >= n},
           minrecv' = (IF n = Lines + 2 THEN Lines + 1 ELSE n),
           rpc' = (IF n = Lines + 2 THEN "done" ELSE "recv")
    PROVE  /\ Recorded' /\ Open \ {x} \subseteq Open'
           /\ answers' \in [Tasks -> Nat] /\ minrecv' \in 1..Lines + 1 /\ jobs_out' \subseteq 1..Lines + 1
<1>1. /\ Lines \in Nat /\ minrecv \in 1..Lines + 1 /\ count \in 1..Lines + 1 /\ n \in Nat
      /\ x \in 1..Lines + 1 /\ jobs_out \subseteq 1..Lines + 1 /\ answers \in [Tasks -> Nat]
  BY ConstantFacts DEF TypeOK, Open
<1>2. /\ \A t \in Tasks : answers[t] = IF t < minrecv \/ t \in jobs_out THEN 1 ELSE 0
      /\ minrecv \notin jobs_out /\ (\A t \in jobs_out : t > minrecv)
      /\ (spc = "done" => count = Lines + 1) /\ (spc # "done" => Lines + 1 \notin jobs_out)
      /\ \A t \in Tasks : answers[t] = 1 => t < count
  BY DEF Recorded
<1>3. x \notin jobs_out /\ x >= minrecv
  <2>1. CASE x \in Tasks
    <3>1. answers[x] = 0
      BY <2>1 DEF Open
    <3>2. ~(x < minrecv \/ x \in jobs_out)
      BY <1>2, <2>1, <3>1
    <3> QED BY <1>1, <3>2
  <2>2. CASE x = Lines + 1
    <3>1. x \notin jobs_out
      BY <2>2 DEF Open
    <3> QED BY <1>1, <2>2, <3>1
  <2> QED BY <1>1, <2>1, <2>2 DEF Tasks
<1>4. x \in Tasks => answers[x] = 0
  BY <1>1 DEF Open
<1>5. answers' \in [Tasks -> Nat]
  <2>1. \A t \in Tasks : answers[t] \in Nat /\ answers[t] + 1 \in Nat
    BY <1>1
  <2> QED BY <2>1
<1>6. ASSUME NEW t \in Tasks
      PROVE  answers'[t] = IF t < n \/ t \in jobs_out' THEN 1 ELSE 0
  <2>0. t \in Nat
    BY ConstantFacts
  <2>1. CASE t = x
    <3>1. answers'[t] = 1
      BY <1>4, <2>1
    <3>2. t < n \/ t \in jobs_out'
      BY <1>1, <2>0, <2>1
    <3> QED BY <3>1, <3>2
  <2>2. CASE t # x
    <3>1. answers'[t] = IF t < minrecv \/ t \in jobs_out THEN 1 ELSE 0
      BY <1>2, <2>2
    <3>2. t < minrecv \/ t \in jobs_out <=> t < n \/ t \in jobs_out'
      <4>1. ASSUME t < minrecv PROVE t < n
        BY <1>1, <2>0, <4>1
      <4>2. ASSUME t \in jobs_out, ~(t < n) PROVE t \in jobs_out'
        BY <1>1, <2>0, <4>2
      <4>3. ASSUME t < n, ~(t < minrecv) PROVE t \in jobs_out
        <5>1. t \in minrecv..n - 1
          BY <1>1, <2>0, <4>3
        <5> QED BY <2>2, <5>1
      <4>4. ASSUME t \in jobs_out' PROVE t \in jobs_out
        BY <2>2, <4>4
      <4> QED BY <4>1, <4>2, <4>3, <4>4
    <3> QED BY <3>1, <3>2
  <2> QED BY <2>1, <2>2
<1>7. jobs_out' \subseteq 1..Lines + 1 /\ n \notin jobs_out' /\ \A t \in jobs_out' : t > n
  <2>1. \A t \in jobs_out' : t \in 1..Lines + 1 /\ t >= n /\ t # n
    BY <1>1
  <2>2. \A t \in jobs_out' : t > n
    BY <1>1, <2>1
  <2> QED BY <2>1, <2>2
<1>8. minrecv' \in 1..Lines + 1
  BY <1>1
<1>9. \A t \in Tasks : answers'[t] = 1 => t < count
  <2> SUFFICES ASSUME NEW t \in Tasks, answers'[t] = 1 PROVE t < count
    OBVIOUS
  <2>1. CASE t = x
    BY <1>1, <1>2, <2>1 DEF Open, Tasks
  <2>2. CASE t # x
    BY <1>2, <2>2
  <2> QED BY <2>1, <2>2
<1>10. spc # "done" => x # Lines + 1 /\ n # Lines + 2 /\ Lines + 1 \notin jobs_out'
  <2> SUFFICES ASSUME spc # "done" PROVE x # Lines + 1 /\ n # Lines + 2 /\ Lines + 1 \notin jobs_out'
    OBVIOUS
  <2>1. x # Lines + 1
    BY <1>1 DEF Open
  <2>2. Lines + 1 \notin jobs_out \cup {x}
    BY <1>2, <2>1
  <2>3. n # Lines + 2
    <3>1. n = Lines + 2 => Lines + 1 \in minrecv..n - 1
      BY <1>1
    <3> QED BY <2>2, <3>1
  <2> QED BY <2>1, <2>2, <2>3
<1>11. Recorded'
  <2>1. CASE n = Lines + 2
    <3>1. rpc' = "done" /\ rpc' # "recv"
      BY <2>1
    <3>2. \A t \in Tasks : answers'[t] = 1
      <4>1. \A t \in Tasks : t < n
        BY <1>1, <2>1 DEF Tasks
      <4> QED BY <1>6, <4>1
    <3> QED BY <1>2, <1>9, <1>10, <2>1, <3>1, <3>2 DEF Recorded
  <2>2. CASE n # Lines + 2
    <3>1. rpc' = "recv" /\ rpc' # "done" /\ minrecv' = n
      BY <2>2
    <3> QED BY <1>2, <1>6, <1>7, <1>9, <1>10, <3>1 DEF Recorded
  <2> QED BY <2>1, <2>2
<1>12. ASSUME NEW t \in Open \ {x} PROVE t \in Open'
  <2>1. /\ t \in 1..Lines + 1 /\ t # x /\ (t < count \/ spc = "done")
        /\ t \in Tasks => answers[t] = 0
        /\ t = Lines + 1 => t \notin jobs_out
    BY <1>12 DEF Open
  <2>2. t \in Tasks => answers'[t] = 0
    BY <2>1
  <2>3. t = Lines + 1 => rpc' = "recv" /\ t \notin jobs_out'
    <3> SUFFICES ASSUME t = Lines + 1 PROVE rpc' = "recv" /\ t \notin jobs_out'
      OBVIOUS
    <3>1. t \notin jobs_out \cup {x}
      BY <2>1
    <3>2. n = Lines + 2 => Lines + 1 \in minrecv..n - 1
      BY <1>1
    <3> QED BY <3>1, <3>2
  <2> QED BY <2>1, <2>2, <2>3 DEF Open
<1> QED BY <1>5, <1>7, <1>8, <1>11, <1>12

LEMMA RecordInv ==
    ASSUME Inv, rpc = "recv", NEW i \in DOMAIN net[receiver], Arrives(receiver, i), Record(i)
    PROVE  Inv'
<1>1. TypeOK /\ Phases /\ ResultsMatchJobs /\ Forms /\ Apart /\ OnlyOpen /\ Recorded /\ OneRequest /\ LoadsAgree
  BY DEF Inv
<1>2. PICK m : m = net[receiver][i]
  OBVIOUS
<1> DEFINE all == jobs_out \cup {m.task}
<1>3. PICK n : n = CHOOSE t \in minrecv..Lines + 2 : t \notin all /\ minrecv..t - 1 \subseteq all
  OBVIOUS
<1> DEFINE flush == IF m.type = "finish" THEN <<Signal(receiver, "flush")>> ELSE <<>>
           finish == IF n = Lines + 2 THEN <<Signal(receiver, "finish")>> ELSE <<>>
           load == IF m.type = "finish" THEN rload ELSE [rload EXCEPT ![m.src] = @ + 1]
<1>4. /\ m.type \in {"output", "finish", "input"}
      /\ answers' = [t \in Tasks |-> IF t = m.task THEN answers[t] + 1 ELSE answers[t]]
      /\ net' = ToAll(Taken(receiver, i), flush \o finish)
      /\ jobs_out' = {t \in all : t >= n}
      /\ minrecv' = (IF n = Lines + 2 THEN Lines + 1 ELSE n)
      /\ rpc' = (IF n = Lines + 2 THEN "done" ELSE "recv")
      /\ (IF n = Lines + 2 THEN rload' = load /\ UNCHANGED <<loads, recvreq>> ELSE SubmitIfAsked(load))
      /\ UNCHANGED <<subvars, ns, clivars>>
  BY <1>2, <1>3 DEF Record
<1>0. finished' \in BOOLEAN
  BY DEF Record
<1>5. overtakings' \in Nat /\ faults + overtakings' <= MaxFaults
  BY <1>1, ArrivesFacts
<1> HIDE DEF all, flush, finish, load
<1>6. /\ net'[receiver] = RemoveAt(net[receiver], i)
      /\ \A d \in Clients : net'[d] = net[d] \o (flush \o finish)
      /\ DOMAIN net' = Ranks /\ net' = [r \in Ranks |-> net'[r]]
  <2>1. DOMAIN Taken(receiver, i) = Ranks
    BY <1>1, NetFacts DEF Taken
  <2>2. Taken(receiver, i)[receiver] = RemoveAt(net[receiver], i) /\ \A d \in Clients : Taken(receiver, i)[d] = net[d]
    BY <1>1, NetFacts, ConstantFacts DEF Taken
  <2> QED BY <1>4, <2>1, <2>2, ConstantFacts DEF ToAll
<1>7. /\ net'[receiver] \in Seq(ToReceiver) /\ m \in ToReceiver /\ m \in Message
      /\ Carried(net'[receiver]) = Carried(net[receiver]) \ {m.task} /\ Distinct(net'[receiver])
      /\ m.task # 0 => m.task \in Carried(net[receiver])
      /\ \A d \in Clients : Back(d)' = Back(d) - (IF m.src = d THEN 1 ELSE 0)
      /\ Asked' = Asked - (IF m.type = "clientload" THEN 1 ELSE 0)
  BY <1>1, <1>2, <1>6, ReceiveFacts
<1>8. /\ m.type = "finish" => m.src = submitter
      /\ m.type # "finish" => m.src \in Clients
      /\ m.task # 0
  BY <1>4, <1>7, ConstantFacts DEF ToReceiver
<1>9. m.task \in Open
  BY <1>1, <1>7, <1>8, ConstantFacts DEF OnlyOpen
<1>10. n \in minrecv..Lines + 2 /\ n \notin all /\ minrecv..n - 1 \subseteq all
  <2>1. /\ minrecv \in Nat /\ Lines + 2 \in Nat /\ minrecv <= Lines + 2
        /\ jobs_out \subseteq 1..Lines + 1 /\ m.task \in 1..Lines + 1
    <3>1. minrecv \in 1..Lines + 1 /\ jobs_out \subseteq 1..Lines + 1
      BY <1>1 DEF TypeOK
    <3>2. m.task \in 1..Lines + 1
      BY <1>9 DEF Open
    <3> QED BY <3>1, <3>2, ConstantFacts
  <2>2. Lines + 2 \notin 1..Lines + 1
    BY ConstantFacts
  <2>3. Lines + 2 \notin all
    BY <2>1, <2>2 DEF all
  <2>4. \E t \in minrecv..Lines + 2 : t \notin all /\ minrecv..t - 1 \subseteq all
    BY <2>1, <2>3, LeastMissing
  <2> QED BY <1>3, <2>4
<1>11. /\ Recorded' /\ Open \ {m.task} \subseteq Open'
       /\ answers' \in [Tasks -> Nat] /\ minrecv' \in 1..Lines + 1 /\ jobs_out' \subseteq 1..Lines + 1
  <2>1. spc' = spc /\ count' = count
    BY <1>4 DEF subvars
  <2> QED BY <1>1, <1>4, <1>9, <1>10, <2>1, RecordFacts DEF all
<1>12. /\ flush \o finish \in Seq(ToClient)
       /\ \A k \in 1..Len(flush \o finish) : (flush \o finish)[k].task = 0 /\ (flush \o finish)[k] \notin Jobs
  <2>1. flush \in Seq(ToClient) /\ \A k \in 1..Len(flush) : flush[k].task = 0 /\ flush[k] \notin Jobs
    <3> DEFINE f == Signal(receiver, "flush")
    <3>1. f \in ToClient /\ f.task = 0 /\ f \notin Jobs
      BY FlushFacts
    <3> HIDE DEF f
    <3>2. <<f>> \in Seq(ToClient) /\ \A k \in 1..Len(<<f>>) : <<f>>[k].task = 0 /\ <<f>>[k] \notin Jobs
      BY <3>1, OneSignal
    <3>3. flush = IF m.type = "finish" THEN <<f>> ELSE <<>>
      BY DEF f, flush
    <3>4. CASE m.type = "finish"
      BY <3>2, <3>3, <3>4
    <3>5. CASE m.type # "finish"
      BY <3>3, <3>5, NoSignals
    <3> QED BY <3>4, <3>5
  <2>2. finish \in Seq(ToClient) /\ \A k \in 1..Len(finish) : finish[k].task = 0 /\ finish[k] \notin Jobs
    <3> DEFINE f == Signal(receiver, "finish")
    <3>1. f \in ToClient /\ f.task = 0 /\ f \notin Jobs
      BY FlushFacts
    <3> HIDE DEF f
    <3>2. <<f>> \in Seq(ToClient) /\ \A k \in 1..Len(<<f>>) : <<f>>[k].task = 0 /\ <<f>>[k] \notin Jobs
      BY <3>1, OneSignal
    <3>3. finish = IF n = Lines + 2 THEN <<f>> ELSE <<>>
      BY DEF f, finish
    <3>4. CASE n = Lines + 2
      BY <3>2, <3>3, <3>4
    <3>5. CASE n # Lines + 2
      BY <3>3, <3>5, NoSignals
    <3> QED BY <3>4, <3>5
  <2> DEFINE u == flush \o finish
  <2>3. /\ u \in Seq(ToClient) /\ Len(u) = Len(flush) + Len(finish)
        /\ \A k \in 1..Len(flush) + Len(finish) : u[k] = IF k <= Len(flush) THEN flush[k] ELSE finish[k - Len(flush)]
    BY <2>1, <2>2, ConcatProperties
  <2>4. Len(flush) \in Nat /\ Len(finish) \in Nat
    BY <2>1, <2>2
  <2> HIDE DEF u
  <2>5. ASSUME NEW k \in 1..Len(u) PROVE u[k].task = 0 /\ u[k] \notin Jobs
    <3>1. CASE k \in 1..Len(flush)
      <4>1. k <= Len(flush) /\ u[k] = flush[k]
        BY <2>3, <2>4, <3>1
      <4> QED BY <2>1, <3>1, <4>1
    <3>2. CASE k - Len(flush) \in 1..Len(finish) /\ ~(k <= Len(flush))
      <4>1. u[k] = finish[k - Len(flush)]
        BY <2>3, <2>4, <3>2
      <4> QED BY <2>2, <3>2, <4>1
    <3> QED BY <2>3, <2>4, <3>1, <3>2
  <2> QED BY <2>3, <2>5 DEF u
<1>13. \A d \in Clients : /\ net'[d] \in Seq(ToClient) /\ Carried(net'[d]) = Carried(net[d])
                          /\ Distinct(net'[d]) /\ In(d)' = In(d)
  <2> SUFFICES ASSUME NEW d \in Clients
               PROVE  /\ net'[d] \in Seq(ToClient) /\ Carried(net'[d]) = Carried(net[d])
                      /\ Distinct(net'[d]) /\ In(d)' = In(d)
    OBVIOUS
  <2> DEFINE u == flush \o finish
  <2> HIDE DEF u
  <2>1. net[d] \in Seq(ToClient) /\ Distinct(net[d])
    BY <1>1, NetFacts, ConstantFacts DEF Apart
  <2>2. net'[d] = net[d] \o u /\ u \in Seq(ToClient) /\ \A k \in 1..Len(u) : u[k].task = 0 /\ u[k] \notin Jobs
    BY <1>6, <1>12 DEF u
  <2>3. /\ net[d] \o u \in Seq(ToClient) /\ Carried(net[d] \o u) = Carried(net[d]) /\ Distinct(net[d] \o u)
        /\ Cardinality(Places(net[d] \o u, Jobs)) = Cardinality(Places(net[d], Jobs))
    BY <2>1, <2>2, SignalsFacts
  <2> QED BY <2>2, <2>3 DEF In
<1>14. /\ load \in [Clients -> Int]
       /\ \A d \in Clients : load[d] - rload[d] = IF m.src = d THEN 1 ELSE 0
  <2>1. rload \in [Clients -> Int] /\ \A d \in Clients : rload[d] \in Int
    BY <1>1 DEF TypeOK
  <2>2. CASE m.type = "finish"
    <3>1. load = rload /\ \A d \in Clients : m.src # d
      BY <1>8, <2>2, ConstantFacts DEF load
    <3> QED BY <2>1, <3>1
  <2>3. CASE m.type # "finish"
    <3>1. load = [rload EXCEPT ![m.src] = @ + 1] /\ m.src \in Clients
      BY <1>8, <2>3 DEF load
    <3>2. rload[m.src] + 1 \in Int
      BY <2>1, <3>1
    <3>3. load \in [Clients -> Int]
      BY <2>1, <3>1, <3>2
    <3>4. \A d \in Clients : load[d] = IF d = m.src THEN rload[d] + 1 ELSE rload[d]
      BY <2>1, <3>1
    <3> QED BY <2>1, <3>3, <3>4
  <2> QED BY <2>2, <2>3
<1>15. /\ loads' \in Seq([Clients -> Int]) /\ rload' \in [Clients -> Int] /\ Len(loads') <= 1
       /\ (IF recvreq' THEN 1 ELSE 0) + Len(loads') = (IF recvreq THEN 1 ELSE 0) + Len(loads)
       /\ \A d \in Clients : Reported(d)' = Reported(d) + (load[d] - rload[d])
  <2>1. \/ recvreq /\ loads' = Append(loads, load) /\ rload' = NoLoad /\ ~recvreq'
        \/ rload' = load /\ loads' = loads /\ (recvreq' <=> recvreq)
    BY <1>4 DEF SubmitIfAsked, Submit
  <2> QED BY <1>1, <1>14, <2>1, ReportFacts
<1>16. recvreq' \in BOOLEAN
  <2>1. recvreq \in BOOLEAN
    BY <1>1 DEF TypeOK
  <2> QED BY <1>4, <2>1 DEF SubmitIfAsked
<1>17. jobs_in' = jobs_in /\ sload' = sload /\ spc' = spc
  BY <1>4 DEF clivars, state, subvars
<1>18. OneRequest'
  <2>1. Asked' = Asked /\ Asked \in Nat /\ Len(loads) \in Nat /\ Len(loads') \in Nat
    BY <1>1, <1>4, <1>7, <1>15, NetFacts
  <2>2. Asked' + (IF recvreq' THEN 1 ELSE 0) + Len(loads') = Asked + (IF recvreq THEN 1 ELSE 0) + Len(loads)
    BY <1>15, <2>1
  <2> QED BY <1>1, <1>17, <2>2 DEF OneRequest
<1>19. TypeOK'
  <2>1. \A r \in Ranks : net'[r] \in Seq(Message)
    <3>1. net'[receiver] \in Seq(Message) /\ \A d \in Clients : net'[d] \in Seq(Message)
      BY <1>7, <1>13, FormFacts, SeqWiden
    <3> QED BY <3>1, ConstantFacts
  <2>2. net' \in [Ranks -> Seq(Message)]
    BY <1>6, <2>1
  <2>3. faults' = faults /\ rpc' \in {"recv", "done"}
    BY <1>4 DEF clivars, proc
  <2> QED BY <1>0, <1>1, <1>4, <1>5, <1>11, <1>15, <1>16, <2>2, <2>3 DEF TypeOK, subvars, clivars, state, proc, Ranks
<1>20. Forms'
  BY <1>1, <1>7, <1>13, <1>17 DEF Forms
<1>21. Apart'
  <2>1. \A r \in Ranks : Carried(net'[r]) \subseteq Carried(net[r]) /\ Distinct(net'[r])
    BY <1>7, <1>13, ConstantFacts
  <2>2. \A d \in Clients : Carried(jobs_in'[d]) \subseteq Carried(jobs_in[d]) /\ Distinct(jobs_in'[d])
    BY <1>1, <1>17 DEF Apart
  <2> QED BY <1>1, <2>1, <2>2, MoveNothing
<1>22. OnlyOpen'
  <2>1. Carried(net'[receiver]) \subseteq Open'
    BY <1>1, <1>7, <1>11, ConstantFacts DEF OnlyOpen
  <2>2. \A d \in Clients : Carried(net'[d]) \subseteq Open'
    <3>1. \A d \in Clients : m.task \notin Carried(net[d]) /\ Carried(net[d]) \subseteq Open
      BY <1>1, <1>7, <1>8, ConstantFacts DEF Apart, OnlyOpen
    <3> QED BY <1>11, <1>13, <3>1
  <2>3. \A d \in Clients : Carried(jobs_in'[d]) \subseteq Open'
    <3>1. \A d \in Clients : m.task \notin Carried(jobs_in[d]) /\ Carried(jobs_in[d]) \subseteq Open
      BY <1>1, <1>7, <1>8, ConstantFacts DEF Apart, OnlyOpen
    <3> QED BY <1>11, <1>17, <3>1
  <2> QED BY <2>1, <2>2, <2>3, ConstantFacts DEF OnlyOpen
<1>23. LoadsAgree'
  <2>1. ASSUME NEW d \in Clients
        PROVE  \E p, s \in Int :
                 Reported(d)' = Reported(d) + (s - p) /\ In(d)' = In(d) + p /\ Back(d)' = Back(d) - s
    <3> DEFINE s == IF m.src = d THEN 1 ELSE 0
    <3>1. s \in Int /\ s - 0 = s
      OBVIOUS
    <3>2. Reported(d)' = Reported(d) + (s - 0)
      BY <1>14, <1>15
    <3>3. In(d)' = In(d) + 0
      BY <1>1, <1>13, NetFacts
    <3>4. Back(d)' = Back(d) - s
      BY <1>7
    <3> HIDE DEF s
    <3> QED BY <3>1, <3>2, <3>3, <3>4
  <2> QED BY <1>1, <1>15, <1>17, <1>20, <2>1, ReceiverCounts
<1>24. Phases' /\ ResultsMatchJobs'
  BY <1>1, <1>4, <1>19, AllClients DEF clivars, state, proc
<1> QED BY <1>11, <1>18, <1>19, <1>20, <1>21, <1>22, <1>23, <1>24 DEF Inv
-----------------------------------------------------------------------------
(* The theorems. *)

LEMMA InitInv == Init => Inv
<1> SUFFICES ASSUME Init PROVE Inv
  OBVIOUS
<1>1. /\ \A S : <<>> \in Seq(S)
      /\ Len(<<>>) = 0
  BY EmptySeq
<1>2. /\ \A r \in Ranks : net[r] = <<>>
      /\ \A c \in Clients : jobs_in[c] = <<>> /\ todo[c] = <<>> /\ ready[c] = <<>> /\ messages[c] = <<>>
      /\ \A c \in Clients : sload[c] = 0 /\ rload[c] = 0 /\ fpc[c] = "start" /\ rdpc[c] = "done" /\ child[c] = "down"
      /\ \A t \in Tasks : answers[t] = 0
      /\ loads = <<>> /\ spc = "line" /\ count = 1 /\ rpc = "recv" /\ minrecv = 1 /\ jobs_out = {} /\ recvreq = FALSE
  BY DEF Init, Ranks, Empty, NoLoad
<1>3. TypeOK
  <2>1. /\ net \in [{receiver} \cup Clients -> Seq(Message)] /\ loads \in Seq([Clients -> Int])
        /\ messages \in [Clients -> Seq({"flush", "finish"})] /\ jobs_in \in [Clients -> Seq(Message)]
        /\ todo \in [Clients -> Seq(Tasks)] /\ ready \in [Clients -> Seq(Tasks)]
    BY <1>1 DEF Init, Empty
  <2>2. /\ sload \in [Clients -> Int] /\ rload \in [Clients -> Int] /\ answers \in [Tasks -> Nat]
        /\ cur \in [Clients -> 0..Lines]
    <3>1. 0 \in 0..Lines
      BY ConstantFacts
    <3> QED BY <3>1 DEF Init, NoLoad
  <2>3. ns \in Clients /\ count \in 1..Lines + 1 /\ minrecv \in 1..Lines + 1
    BY ConstantFacts DEF Init, Clients
  <2>4. \A c \in Clients : Len(jobs_in[c]) <= loadmax
    BY <1>1, <1>2, ConstantFacts
  <2>5. faults \in Nat /\ overtakings \in Nat /\ faults + overtakings <= MaxFaults
    BY ConstantFacts DEF Init
  <2>6. /\ fpc \in [Clients -> {"start", "loop", "wait", "recv", "give", "join", "reject", "done"}]
        /\ rdpc \in [Clients -> {"read", "done"}] /\ child \in [Clients -> {"up", "eof", "down"}]
    BY DEF Init
  <2>7. jobs_in_finished \in [Clients -> BOOLEAN]
    BY DEF Init
  <2> QED BY <2>1, <2>2, <2>3, <2>4, <2>5, <2>6, <2>7 DEF Init, TypeOK
<1>4. Forms
  BY <1>1, <1>2, ConstantFacts DEF Forms
<1>5. /\ \A r \in Ranks : Carried(net[r]) = {} /\ Distinct(net[r])
      /\ \A c \in Clients : Carried(jobs_in[c]) = {} /\ Distinct(jobs_in[c])
  BY <1>2, CarriedEmpty
<1>6. Apart /\ OnlyOpen
  BY <1>5 DEF Apart, OnlyOpen
<1>7. Recorded
  BY <1>2, ConstantFacts DEF Recorded, Tasks
<1>8. \A V : Cardinality(Places(<<>>, V)) = 0
  <2>1. \A V : Places(<<>>, V) = {}
    BY DEF Places
  <2> QED BY <2>1, FS_EmptySet
<1>9. Asked = 0 /\ \A c \in Clients : In(c) = 0 /\ Back(c) = 0 /\ Len(jobs_in[c]) = 0
  BY <1>1, <1>2, <1>8, ConstantFacts DEF Asked, In, Back
<1>10. OneRequest
  BY <1>1, <1>2, <1>9 DEF OneRequest
<1>11. LoadsAgree
  <2>1. \A c \in Clients : Reported(c) = 0
    BY <1>2 DEF Reported
  <2>2. Counts
    BY <1>1, <1>2, <1>9, <2>1 DEF Counts
  <2> QED BY <1>4, <2>2, LoadsIs
<1>12. Phases
  BY <1>1, <1>2 DEF Phases, Phase, Situation, Unwritten
<1>13. ResultsMatchJobs
  <2>1. Fits(<<>>, <<>>, <<>>)
    BY <1>1 DEF Fits
  <2>2. \A c \in Clients : Match(c)
    BY <1>2, <2>1 DEF Match
  <2> QED BY <1>3, <2>2, MatchIs
<1> QED BY <1>3, <1>4, <1>6, <1>7, <1>10, <1>11, <1>12, <1>13 DEF Inv

LEMMA NextInv == Inv /\ [Next]_vars => Inv'
<1> SUFFICES ASSUME Inv, [Next]_vars PROVE Inv'
  OBVIOUS
<1>1. CASE send_to_client
  BY <1>1, SubmitLineInv, AskLoadInv, GetLoadInv, SubmitFinishInv DEF send_to_client
<1>2. CASE receive_from_client
  <2>1. rpc = "recv"
    BY <1>2 DEF receive_from_client
  <2>2. PICK i \in DOMAIN net[receiver] :
          Arrives(receiver, i) /\ (ReceiveRequest(i) \/ Resend(i) \/ Record(i))
    BY <1>2 DEF receive_from_client
  <2>3. CASE ReceiveRequest(i)
    BY <2>2, <2>3, ReceiveRequestInv
  <2>4. CASE Resend(i)
    BY <2>2, <2>4, ResendInv
  <2>5. CASE Record(i)
    BY <2>1, <2>2, <2>5, RecordInv
  <2> QED BY <2>2, <2>3, <2>4, <2>5
<1>3. ASSUME NEW c \in Clients, run_client(c) PROVE Inv'
  BY <1>3, StartInv, RejectInv, LoopInv, RecvInv, GiveInv, JoinInv DEF run_client
<1>4. ASSUME NEW c \in Clients, send_to_server(c) PROVE Inv'
  BY <1>4, ResultInv, EndOfOutputInv DEF send_to_server
<1>5. ASSUME NEW c \in Clients, StartFails(c) \/ Spurious(c) \/ Decode(c) \/ Exit(c) \/ Crash(c) PROVE Inv'
  BY <1>5, StartFailsInv, SpuriousInv, DecodeInv, ExitInv, CrashInv
<1>6. CASE UNCHANGED vars
  <2>1. TypeOK /\ Phases /\ ResultsMatchJobs /\ Queues
    BY InvIs
  <2>2. TypeOK'
    BY <1>6, <2>1 DEF vars, netvars, subvars, recvars, clivars, state, proc, TypeOK
  <2>3. Queues'
    BY <1>6, <2>1, QueuesFrame DEF vars, netvars, subvars, recvars, clivars, state, proc, queues
  <2>4. Phases' /\ ResultsMatchJobs'
    BY <1>6, <2>1, <2>2, AllClients DEF vars, clivars, state, proc
  <2> QED BY <2>2, <2>3, <2>4, InvIsNext
<1> QED BY <1>1, <1>2, <1>3, <1>4, <1>5, <1>6 DEF Next, Terminated

LEMMA InvHolds == Spec => []Inv
BY InitInv, NextInv, PTL DEF Spec

(* Every variable keeps its type; in particular a client never has more than *)
(* loadmax jobs in its queue (receive_from_server waits for room).           *)
THEOREM TypeCorrect == Spec => []TypeOK
<1>1. Inv => TypeOK
  BY DEF Inv
<1> QED BY <1>1, InvHolds, PTL

(* The submitter's table of the load and the differences the receiver reports *)
(* never part: what they leave is the jobs that are with a client, through     *)
(* retries, deaths of a child and rejections (find_min, submit_load).          *)
THEOREM LoadsAlwaysAgree == Spec => []LoadsAgree
<1>1. Inv => LoadsAgree
  BY DEF Inv
<1> QED BY <1>1, InvHolds, PTL

(* No line is answered twice, and the receiver sends finish only when every *)
(* line has been answered (receive_from_client).                            *)
THEOREM EachLineOnce == Spec => []AnsweredOnce
<1>1. Inv => AnsweredOnce
  <2> SUFFICES ASSUME Inv PROVE AnsweredOnce
    OBVIOUS
  <2>1. Recorded /\ rpc \in {"recv", "done"}
    BY DEF Inv, TypeOK
  <2>2. \A t \in Tasks : answers[t] \in {0, 1}
    BY <2>1 DEF Recorded
  <2>3. \A t \in Tasks : answers[t] <= 1
    BY <2>2
  <2> QED BY <2>1, <2>3 DEF Recorded, AnsweredOnce
<1> QED BY <1>1, InvHolds, PTL

(* A result of the child is attributed to the job it is the result of, so that *)
(* the assertion that the queue is not empty holds (send_to_server).            *)
THEOREM ResultsAlwaysMatch == Spec => []ResultsMatchJobs
<1>1. Inv => ResultsMatchJobs
  BY DEF Inv
<1> QED BY <1>1, InvHolds, PTL
=============================================================================
