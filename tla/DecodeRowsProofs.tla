-------------------------- MODULE DecodeRowsProofs --------------------------
(***************************************************************************)
(* Proofs about DecodeRows, for sentences of any length on any number of   *)
(* threads.                                                                *)
(*                                                                         *)
(* Most steps change only where a row is (Quiet).  The six kinds of step   *)
(* that touch the chart or pay a hold are Loud.                            *)
(***************************************************************************)
EXTENDS DecodeRows, Integers, FiniteSetTheorems, TLAPS

Looping == {"throttle", "throttle_asleep", "load", "add"}

(* What the position of a row says about its indices. *)
Position(r) ==
    /\ pc[r] \in {"release_left", "await", "asleep", "woken"} => left[r] > 0
    /\ pc[r] \in {"release_up", "notify_up"} => r < N
    /\ pc[r] \in {"new", "queued"} => left[r] = r - 1
    /\ pc[r] \in {"row_done", "notify_total"} => left[r] = 0

(* Where the main thread and the rows are. *)
Places ==
    /\ pc \in [0..N -> RowPC \cup MainPC]
    /\ pc[0] \in MainPC
    /\ \A r \in Rows : pc[r] \in RowPC

Shape ==
    /\ chrthlds \in [Spans -> Int]
    /\ done \in SUBSET Spans
    /\ active_rows \in Int
    /\ abort \in BOOLEAN
    /\ failed \in BOOLEAN
    /\ right \in 1..N + 1
    /\ Places
    /\ left \in [Rows -> 0..N]
    /\ \A r \in Rows : left[r] < r /\ Position(r)
    /\ \A r \in Rows : pc[r] = "new" <=> r >= right
    /\ pc[0] \in Looping => right <= N

(* The row that send_abort() notifies next. *)
Sending == at \in [0..N -> Rows]

(* send_abort() stays inside the rows. *)
LEMMA SendingInv == Spec => []Sending
  <1> USE RowsAssumption DEF Rows, Sending
  <1>1. Init => Sending
    BY DEF Init
  <1>2. ASSUME Sending, [Next]_vars PROVE Sending'
    <2>1. \/ UNCHANGED at
          \/ \E p \in 0..N : \/ at' = [at EXCEPT ![p] = 1]
                             \/ at' = [at EXCEPT ![p] = IF @ = N THEN @ ELSE @ + 1]
      BY <1>2 DEF vars, Next, PoolTakes, PoolReports, decode_row, Compute, RowDone, ReleaseUp, NotifyUp, ReleaseLeft,
           Await, NotifyTotal, MutexGone, SortLost, PoolClears, decode_range, Throttle, Load, Add, Jobs, PoolWait, Finish,
           JoinPool, LoadThrows, send_abort, AbortSet, AbortRow, AbortLast, Spurious
    <2>2. ASSUME NEW p \in 0..N, at' = [at EXCEPT ![p] = IF @ = N THEN @ ELSE @ + 1] PROVE Sending'
      <3>1. at[p] \in 1..N
        BY <1>2
      <3>2. (IF at[p] = N THEN at[p] ELSE at[p] + 1) \in 1..N
        BY <3>1
      <3> QED
        BY <1>2, <2>2, <3>2
    <2>3. ASSUME NEW p \in 0..N, at' = [at EXCEPT ![p] = 1] PROVE Sending'
      BY <1>2, <2>3
    <2>4. CASE UNCHANGED at
      BY <1>2, <2>4
    <2> HIDE DEF Sending
    <2> QED
      BY <2>1, <2>2, <2>3, <2>4
  <1> QED
    BY <1>1, <1>2, PTL DEF Spec

(* decode_range begins with a well-formed state. *)
LEMMA ShapeInit == Init => Shape
  <1> SUFFICES ASSUME Init PROVE Shape
    OBVIOUS
  <1> USE RowsAssumption DEF Init
  <1>1. chrthlds \in [Spans -> Int]
    BY DEF initial_holds
  <1>2. Places /\ pc[0] = "throttle" /\ \A r \in Rows : pc[r] = "new"
    BY DEF Places, RowPC, MainPC, Rows
  <1>3. left \in [Rows -> 0..N] /\ \A r \in Rows : left[r] = r - 1
    BY DEF Rows
  <1>4. \A r \in Rows : left[r] < r /\ Position(r)
    BY <1>2, <1>3 DEF Position, Rows
  <1>5. right \in 1..N + 1 /\ right <= N /\ \A r \in Rows : r >= right
    BY DEF Rows
  <1>6. done \in SUBSET Spans /\ active_rows \in Int
    OBVIOUS
  <1>7. abort \in BOOLEAN /\ failed \in BOOLEAN
    OBVIOUS
  <1> HIDE DEF Init
  <1> QED
    BY <1>1, <1>2, <1>3, <1>4, <1>5, <1>6, <1>7 DEF Shape

(* Row r moves to c and nobody else moves. *)
RowMoves(r, c) ==
    /\ pc'[r] = c
    /\ pc'[0] = pc[0]
    /\ \A q \in Rows \ {r} : pc'[q] = pc[q]

(* Goto moves one row and nobody else. *)
LEMMA GotoRow ==
    ASSUME Places, NEW r \in Rows, NEW c \in RowPC, Goto(r, c)
    PROVE  Places' /\ RowMoves(r, c)
  <1>1. r \in 0..N /\ 0 \in 0..N /\ r # 0 /\ Rows \subseteq 0..N
    BY RowsAssumption DEF Rows
  <1> QED
    BY <1>1 DEF Goto, Places, RowMoves

(* Goto moves the main thread and no row. *)
LEMMA GotoMain ==
    ASSUME Places, NEW c \in MainPC, Goto(0, c)
    PROVE  Places' /\ pc'[0] = c /\ \A q \in Rows : pc'[q] = pc[q]
  <1>1. 0 \in 0..N /\ 0 \notin Rows /\ Rows \subseteq 0..N
    BY RowsAssumption DEF Rows
  <1> QED
    BY <1>1 DEF Goto, Places

Aborting == {"abort_rows", "abort_last", "threw"}

(* Moves of a row that are of no consequence to the chart. *)
QuietMove(r) ==
    \/ pc'[r] = pc[r]
    \/ /\ pc[r] = "new" /\ right' = right + 1 /\ r = right
       /\ pc'[r] = "queued" \/ (pc'[r] = "dropped" /\ failed)
    \/ pc[r] = "queued" /\ (pc'[r] = "compute" \/ (pc'[r] = "dropped" /\ failed))
    \/ /\ pc[r] \in {"await", "woken"} /\ pc'[r] = "asleep"
       /\ ~abort /\ chrthlds[<<left[r] - 1, r>>] # 0
    \/ pc[r] \in {"await", "woken"} /\ pc'[r] = "ended" /\ abort
    \/ pc[r] = "asleep" /\ pc'[r] = "woken"
    \/ pc[r] = "compute" /\ pc'[r] \in {"abort_set", "sort_lost"}
    \/ pc[r] \in {"row_done", "notify_total", "abort_set", "abort_rows", "abort_last"} /\ pc'[r] \in Aborting
    \/ pc[r] = "threw" /\ pc'[r] = "ended" /\ failed'
    \/ pc[r] = "notify_total" /\ pc'[r] = "ended"

(* Moves of a row inside its loop, except to the next span. *)
LoudMove(r) ==
    \/ pc[r] = "compute" /\ pc'[r] = (IF left[r] = 0 THEN "row_done" ELSE ToUp(r))
    \/ pc[r] = "row_done" /\ pc'[r] = ToUp(r)
    \/ pc[r] = "release_up" /\ pc'[r] \in {"notify_up", ToLeft(r)}
    \/ pc[r] = "notify_up" /\ pc'[r] = ToLeft(r)
    \/ pc[r] = "release_left" /\ pc'[r] = "await"

RowStep(r) ==
    \/ left'[r] = left[r] /\ (QuietMove(r) \/ LoudMove(r))
    \/ /\ pc[r] \in {"release_left", "await", "woken"}
       /\ pc'[r] = "compute"
       /\ left'[r] = left[r] - 1

RowSteps == Places' /\ \A r \in Rows : RowStep(r)

(* The steps that change the chart, a hold or a row's span, and the two that lead to them. *)
Computes(r) ==
    /\ pc[r] = "compute" /\ pc'[r] = (IF left[r] = 0 THEN "row_done" ELSE ToUp(r))
    /\ chrthlds[span(r)] = 0
    /\ done' = done \cup {span(r)}
    /\ UNCHANGED <<chrthlds, left>>

Passes(r) ==
    /\ \/ pc[r] = "row_done" /\ pc'[r] = ToUp(r)
       \/ pc[r] = "notify_up" /\ pc'[r] = ToLeft(r) /\ pc'[r + 1] # "asleep"
    /\ UNCHANGED <<chrthlds, done, left>>

PaysUp(r) ==
    /\ pc[r] = "release_up" /\ pc'[r] \in {"notify_up", ToLeft(r)}
    /\ chrthlds' = [chrthlds EXCEPT ![<<left[r], r + 1>>] = @ - 1]
    /\ chrthlds'[<<left[r], r + 1>>] = 0 => pc'[r] = "notify_up"
    /\ UNCHANGED <<done, left>>

Advances(r) == pc'[r] = "compute" /\ left' = [left EXCEPT ![r] = @ - 1]

PaysLeft(r) ==
    /\ pc[r] = "release_left"
    /\ chrthlds' = [chrthlds EXCEPT ![<<left[r] - 1, r>>] = @ - 1]
    /\ \/ chrthlds'[<<left[r] - 1, r>>] = 0 /\ Advances(r)
       \/ pc'[r] = "await" /\ UNCHANGED left
    /\ UNCHANGED done

GoesOn(r) ==
    /\ pc[r] \in {"await", "woken"}
    /\ chrthlds[<<left[r] - 1, r>>] = 0
    /\ Advances(r)
    /\ UNCHANGED <<chrthlds, done>>

Loud(r) ==
    /\ Computes(r) \/ Passes(r) \/ PaysUp(r) \/ PaysLeft(r) \/ GoesOn(r)
    /\ \A q \in Rows \ {r} : QuietMove(q)

Quiet == UNCHANGED <<chrthlds, done, left>> /\ \A r \in Rows : QuietMove(r)

Steps == Places' /\ (Quiet \/ \E r \in Rows : Loud(r))

(* Every step is quiet or is one of the loud steps of one row. *)
LEMMA AllSteps == Shape /\ Sending /\ [Next]_vars => Steps
  <1> SUFFICES ASSUME Shape, Sending, [Next]_vars PROVE Steps
    OBVIOUS
  <1> USE RowsAssumption
  <1>0. Places /\ left \in [Rows -> 0..N] /\ 0 \in 0..N /\ 0 \notin Rows /\ Rows \subseteq 0..N
    BY DEF Shape, Rows
  <1>1. ASSUME NEW r \in Rows, PoolTakes(r) PROVE Steps
    BY <1>0, <1>1, GotoRow DEF PoolTakes, RowPC, RowMoves, Steps, Quiet, QuietMove, Aborting
  <1>2. ASSUME NEW r \in Rows, PoolReports(r) PROVE Steps
    BY <1>0, <1>2, GotoRow DEF PoolReports, RowPC, RowMoves, Steps, Quiet, QuietMove, Aborting
  <1>3. ASSUME NEW r \in Rows, Compute(r) PROVE Steps
    <2>1. CASE Goto(r, "abort_set") /\ UNCHANGED done
      BY <1>0, <1>3, <2>1, GotoRow DEF Compute, RowPC, RowMoves, Steps, Quiet, QuietMove, Aborting
    <2>2. CASE /\ chrthlds[span(r)] = 0
               /\ done' = done \cup {span(r)}
               /\ Goto(r, IF left[r] = 0 THEN "row_done" ELSE ToUp(r))
      <3>1. (IF left[r] = 0 THEN "row_done" ELSE ToUp(r)) \in RowPC
        BY DEF ToUp, ToLeft, RowPC
      <3>2. Places' /\ RowMoves(r, IF left[r] = 0 THEN "row_done" ELSE ToUp(r))
        BY <1>0, <2>2, <3>1, GotoRow
      <3> QED
        BY <1>3, <2>2, <3>2 DEF Compute, RowMoves, Steps, Loud, Computes, QuietMove, Aborting
    <2> QED
      BY <1>3, <2>1, <2>2 DEF Compute
  <1>4. ASSUME NEW r \in Rows, RowDone(r) PROVE Steps
    <2>1. ToUp(r) \in RowPC
      BY DEF ToUp, ToLeft, RowPC
    <2>2. Notified("throttle_asleep", pc[0]) \in MainPC
      BY <1>0 DEF Places, Notified, Woken, MainPC
    <2>3. Places' /\ pc'[r] = ToUp(r) /\ \A q \in Rows \ {r} : pc'[q] = pc[q]
      BY <1>0, <1>4, <2>1, <2>2 DEF RowDone, Places
    <2> QED
      BY <1>4, <2>3 DEF RowDone, Steps, Loud, Passes, QuietMove, Aborting
  <1>5. ASSUME NEW r \in Rows, ReleaseUp(r) PROVE Steps
    <2>1. PICK c \in {"notify_up", ToLeft(r)} :
              Goto(r, c) /\ (chrthlds'[<<left[r], r + 1>>] = 0 => c = "notify_up")
      BY <1>5 DEF ReleaseUp
    <2>2. c \in RowPC
      BY DEF ToLeft, RowPC
    <2>3. Places' /\ RowMoves(r, c)
      BY <1>0, <2>1, <2>2, GotoRow
    <2> QED
      BY <1>5, <2>1, <2>3 DEF ReleaseUp, RowMoves, Steps, Loud, PaysUp, QuietMove
  <1>6. ASSUME NEW r \in Rows, NotifyUp(r) PROVE Steps
    <2>1. ToLeft(r) \in RowPC /\ r + 1 \in Rows /\ r + 1 # r
      BY <1>6 DEF NotifyUp, ToLeft, RowPC, Shape, Position, Rows
    <2>2. Notified("asleep", pc[r + 1]) \in RowPC
      BY <1>0, <2>1 DEF Places, Notified, Woken, RowPC
    <2>3. /\ Places'
          /\ pc'[r] = ToLeft(r)
          /\ pc'[r + 1] = Notified("asleep", pc[r + 1])
          /\ \A q \in Rows \ {r, r + 1} : pc'[q] = pc[q]
      BY <1>0, <1>6, <2>1, <2>2 DEF NotifyUp, Places
    <2>4. QuietMove(r + 1)
      BY <2>3 DEF QuietMove, Aborting, Notified, Woken
    <2>5. Passes(r)
      BY <1>6, <2>3 DEF NotifyUp, Passes, Notified, Woken
    <2>6. \A q \in Rows \ {r} : QuietMove(q)
      BY <2>3, <2>4 DEF QuietMove, Aborting
    <2> QED
      BY <2>3, <2>5, <2>6 DEF Steps, Loud
  <1>7. ASSUME NEW r \in Rows, ReleaseLeft(r) PROVE Steps
    <2> DEFINE s == <<left[r] - 1, r>>
    <2>1. CASE chrthlds'[s] = 0 /\ NextSpan(r)
      <3>1. Places' /\ RowMoves(r, "compute")
        BY <1>0, <2>1, GotoRow DEF NextSpan, RowPC
      <3> QED
        BY <1>7, <2>1, <3>1 DEF ReleaseLeft, NextSpan, RowMoves, Steps, Loud, PaysLeft, Advances, QuietMove, Aborting
    <2>2. CASE Goto(r, "await") /\ UNCHANGED left
      <3>1. Places' /\ RowMoves(r, "await")
        BY <1>0, <2>2, GotoRow DEF RowPC
      <3> QED
        BY <1>7, <2>2, <3>1 DEF ReleaseLeft, RowMoves, Steps, Loud, PaysLeft, QuietMove, Aborting
    <2> QED
      BY <1>7, <2>1, <2>2 DEF ReleaseLeft
  <1>8. ASSUME NEW r \in Rows, Await(r) PROVE Steps
    <2>1. CASE chrthlds[<<left[r] - 1, r>>] = 0 /\ NextSpan(r)
      <3>1. Places' /\ RowMoves(r, "compute")
        BY <1>0, <2>1, GotoRow DEF NextSpan, RowPC
      <3> QED
        BY <1>8, <2>1, <3>1 DEF Await, NextSpan, RowMoves, Steps, Loud, GoesOn, Advances, QuietMove, Aborting
    <2>2. CASE abort /\ Goto(r, "ended") /\ UNCHANGED left
      BY <1>0, <1>8, <2>2, GotoRow DEF Await, RowPC, RowMoves, Steps, Quiet, QuietMove
    <2>3. CASE ~abort /\ chrthlds[<<left[r] - 1, r>>] # 0 /\ Goto(r, "asleep") /\ UNCHANGED left
      BY <1>0, <1>8, <2>3, GotoRow DEF Await, RowPC, RowMoves, Steps, Quiet, QuietMove
    <2> QED
      BY <1>8, <2>1, <2>2, <2>3 DEF Await
  <1>9. ASSUME NEW r \in Rows, NotifyTotal(r) PROVE Steps
    <2>1. Notified("jobs_asleep", pc[0]) \in MainPC
      BY <1>0 DEF Places, Notified, Woken, MainPC
    <2>2. Places' /\ pc'[r] = "ended" /\ \A q \in Rows \ {r} : pc'[q] = pc[q]
      BY <1>0, <1>9, <2>1 DEF NotifyTotal, Places, RowPC
    <2> QED
      BY <1>9, <2>2 DEF NotifyTotal, Steps, Quiet, QuietMove, Aborting, RowPC
  <1>10. ASSUME NEW r \in Rows, MutexGone(r) \/ SortLost(r) PROVE Steps
    BY <1>0, <1>10, GotoRow DEF MutexGone, SortLost, RowPC, RowMoves, Steps, Quiet, QuietMove, Aborting
  <1>11. CASE PoolClears
    <2>1. Places' /\ \A q \in Rows : pc'[q] = IF pc[q] = "queued" THEN "dropped" ELSE pc[q]
      BY <1>0, <1>11 DEF PoolClears, Places, RowPC
    <2> QED
      BY <1>11, <2>1 DEF PoolClears, Steps, Quiet, QuietMove, Aborting
  <1>12. ASSUME NEW c \in MainPC, Goto(0, c), UNCHANGED <<chrthlds, done, left>> PROVE Steps
    BY <1>0, <1>12, GotoMain DEF Steps, Quiet, QuietMove, Aborting
  <1>13. CASE Throttle \/ Load \/ LoadThrows
    BY <1>12, <1>13 DEF Throttle, Load, LoadThrows, MainPC
  <1>14. CASE Add
    <2>1. right \in Rows /\ pc[right] = "new"
      BY <1>14 DEF Add, Shape, Looping, Rows
    <2>2. PICK c \in {"queued", "dropped"}, d \in {"jobs", "throttle"} :
              pc' = [pc EXCEPT ![right] = c, ![0] = d] /\ (c = "dropped" => failed)
      BY <1>14 DEF Add
    <2>3. Places' /\ pc'[right] = c /\ \A q \in Rows \ {right} : pc'[q] = pc[q]
      BY <1>0, <2>1, <2>2 DEF Places, RowPC, MainPC
    <2> QED
      BY <1>14, <2>1, <2>2, <2>3 DEF Add, Steps, Quiet, QuietMove
  <1>15. CASE Jobs \/ PoolWait \/ Finish \/ JoinPool
    BY <1>12, <1>15 DEF Jobs, PoolWait, Finish, JoinPool, MainPC
  <1>16. ASSUME NEW p \in 0..N, AbortSet(p) PROVE Steps
    <2>1. CASE p = 0
      BY <1>12, <1>16, <2>1 DEF AbortSet, MainPC
    <2>2. CASE p \in Rows
      BY <1>0, <1>16, <2>2, GotoRow DEF AbortSet, RowPC, RowMoves, Steps, Quiet, QuietMove, Aborting
    <2> QED
      BY <2>1, <2>2 DEF Rows
  <1>17. ASSUME NEW p \in 0..N, AbortRow(p) PROVE Steps
    <2> DEFINE q == at[p]
               c == IF q = N THEN "abort_last" ELSE "abort_rows"
    <2>1. q \in Rows /\ pc[p] = "abort_rows"
      BY <1>17 DEF AbortRow, Sending
    <2>2. /\ pc' = [pc EXCEPT ![q] = Notified("asleep", pc[q]), ![p] = c]
          /\ UNCHANGED <<chrthlds, done, left>>
      <3>1. Notified("asleep", pc[p]) = pc[p]
        BY <2>1 DEF Notified
      <3> QED
        BY <1>0, <1>17, <2>1, <3>1 DEF AbortRow, Places
    <2>3. Notified("asleep", pc[q]) \in RowPC /\ c \in RowPC \cap MainPC
      BY <1>0, <2>1 DEF Places, Notified, Woken, RowPC, MainPC
    <2>4. /\ Places'
          /\ pc'[p] = c
          /\ q # p => pc'[q] = Notified("asleep", pc[q])
          /\ \A r \in Rows \ {p, q} : pc'[r] = pc[r]
      <3> HIDE DEF q, c
      <3> QED
        BY <1>0, <2>1, <2>2, <2>3 DEF Places
    <2>5. \A r \in Rows \ {p, q} : QuietMove(r)
      BY <2>4 DEF QuietMove, Aborting
    <2>6. q # p => QuietMove(q)
      BY <2>4 DEF QuietMove, Aborting, Notified, Woken
    <2>7. QuietMove(p)
      BY <2>1, <2>4 DEF QuietMove, Aborting, RowPC
    <2> QED
      BY <2>2, <2>4, <2>5, <2>6, <2>7 DEF Steps, Quiet
  <1>18. ASSUME NEW p \in 0..N, AbortLast(p) PROVE Steps
    <2>1. CASE p = 0
      BY <1>12, <1>18, <2>1 DEF AbortLast, MainPC, Goto
    <2>2. CASE p \in Rows
      <3>1. Woken(pc[0]) \in MainPC
        BY <1>0 DEF Places, Woken, MainPC
      <3>2. Places' /\ pc'[p] = "threw" /\ \A q \in Rows \ {p} : pc'[q] = pc[q]
        BY <1>0, <1>18, <2>2, <3>1 DEF AbortLast, Places, RowPC
      <3> QED
        BY <1>18, <3>2 DEF AbortLast, Steps, Quiet, QuietMove, Aborting, RowPC
    <2> QED
      BY <2>1, <2>2 DEF Rows
  <1>19. ASSUME NEW p \in 0..N, Spurious(p) PROVE Steps
    <2>1. CASE p = 0
      <3>1. Woken(pc[0]) \in MainPC
        BY <1>0 DEF Places, Woken, MainPC
      <3> QED
        BY <1>12, <1>19, <2>1, <3>1 DEF Spurious
    <2>2. CASE p \in Rows
      <3>1. pc[p] = "asleep" /\ Woken(pc[p]) = "woken"
        BY <1>0, <1>19, <2>2 DEF Spurious, Sleeping, Places, RowPC, Woken
      <3> QED
        BY <1>0, <1>19, <2>2, <3>1, GotoRow DEF Spurious, RowPC, RowMoves, Steps, Quiet, QuietMove, Aborting
    <2> QED
      BY <2>1, <2>2 DEF Rows
  <1>20. CASE UNCHANGED vars
    BY <1>0, <1>20 DEF vars, Places, Steps, Quiet, QuietMove, Aborting
  <1> QED
    BY <1>1, <1>2, <1>3, <1>4, <1>5, <1>6, <1>7, <1>8, <1>9, <1>10, <1>11, <1>13, <1>14,
       <1>15, <1>16, <1>17, <1>18, <1>19, <1>20 DEF Next, decode_row, decode_range, send_abort

(* What a step does to each row by itself. *)
LEMMA AllRowSteps == Shape /\ Sending /\ [Next]_vars => RowSteps
  <1> SUFFICES ASSUME Shape, Sending, [Next]_vars PROVE RowSteps
    OBVIOUS
  <1>1. Steps /\ left \in [Rows -> 0..N]
    BY AllSteps DEF Shape
  <1>2. CASE Quiet
    BY <1>1, <1>2 DEF Quiet, Steps, RowSteps, RowStep
  <1>3. ASSUME NEW r \in Rows, Loud(r) PROVE RowSteps
    <2>1. \A q \in Rows \ {r} : RowStep(q)
      BY <1>1, <1>3 DEF Loud, Computes, Passes, PaysUp, PaysLeft, GoesOn, Advances, RowStep
    <2>2. RowStep(r)
      BY <1>1, <1>3 DEF Loud, Computes, Passes, PaysUp, PaysLeft, GoesOn, Advances, RowStep, LoudMove
    <2> QED
      BY <1>1, <2>1, <2>2 DEF Steps, RowSteps
  <1> QED
    BY <1>1, <1>2, <1>3 DEF Steps

Past == {"raised", "abort_set", "abort_rows", "abort_last", "destroyed", "gone"}

(* The rows can only wake the main thread; only an exception and spanpool.wait() end its parse. *)
LEMMA MainActions ==
    ASSUME Shape, Sending, Next
    PROVE  \/ Throttle \/ Load \/ LoadThrows \/ Add \/ Jobs \/ PoolWait
           \/ pc'[0] \in {pc[0], Woken(pc[0])}
           \/ pc[0] \in Past \cup {"returned"} /\ pc'[0] \in Past
  <1> USE RowsAssumption
  <1>0. Places /\ 0 \in 0..N /\ 0 \notin Rows /\ Rows \subseteq 0..N
    BY DEF Shape, Rows
  <1>2. ASSUME NEW r \in Rows, NEW c, Goto(r, c) PROVE pc'[0] = pc[0]
    BY <1>0, <1>2 DEF Goto, Places
  <1>3. ASSUME NEW c, Goto(0, c) PROVE pc'[0] = c
    BY <1>0, <1>3 DEF Goto, Places
  <1>4. ASSUME NEW r \in Rows, PoolTakes(r) \/ PoolReports(r) \/ Compute(r) \/ ReleaseUp(r) \/ ReleaseLeft(r)
                                \/ Await(r) \/ MutexGone(r) \/ SortLost(r)
        PROVE  pc'[0] = pc[0]
    BY <1>2, <1>4 DEF PoolTakes, PoolReports, Compute, ReleaseUp, ReleaseLeft, NextSpan, Await, MutexGone, SortLost
  <1>5. ASSUME NEW r \in Rows, RowDone(r) \/ NotifyTotal(r) PROVE pc'[0] \in {pc[0], Woken(pc[0])}
    BY <1>0, <1>5 DEF RowDone, NotifyTotal, Notified, Places
  <1>6. ASSUME NEW r \in Rows, NotifyUp(r) PROVE pc'[0] = pc[0]
    BY <1>0, <1>6 DEF NotifyUp, Places, Shape, Position, Rows
  <1>7. ASSUME PoolClears PROVE pc'[0] = pc[0]
    BY <1>0, <1>7 DEF PoolClears, Places
  <1>8. ASSUME NEW p \in 0..N, send_abort(p) \/ Spurious(p)
        PROVE  pc'[0] \in {pc[0], Woken(pc[0])} \/ (pc[0] \in Past /\ pc'[0] \in Past)
    <2>1. CASE AbortRow(p)
      <3>1. at[p] \in Rows
        BY DEF Sending
      <3> QED
        BY <1>0, <2>1, <3>1 DEF AbortRow, Places, Past
    <2>2. CASE AbortLast(p)
      BY <1>0, <2>2 DEF AbortLast, Places, Past
    <2>3. CASE AbortSet(p) \/ Spurious(p)
      BY <1>0, <2>3 DEF AbortSet, Spurious, Goto, Places, Past
    <2> QED
      BY <1>8, <2>1, <2>2, <2>3 DEF send_abort
  <1>9. ASSUME Finish \/ JoinPool PROVE pc[0] \in Past \cup {"returned"} /\ pc'[0] \in Past
    BY <1>3, <1>9 DEF Finish, JoinPool, Destroyed, Past
  <1> QED
    <2> DEFINE G == \/ pc'[0] \in {pc[0], Woken(pc[0])}
                    \/ pc[0] \in Past \cup {"returned"} /\ pc'[0] \in Past
    <2>1. \A r \in Rows : PoolTakes(r) \/ PoolReports(r) \/ decode_row(r) \/ MutexGone(r) \/ SortLost(r) => G
      BY <1>4, <1>5, <1>6 DEF decode_row
    <2>2. \A p \in 0..N : send_abort(p) \/ Spurious(p) => G
      BY <1>8
    <2>3. PoolClears \/ Finish \/ JoinPool => G
      BY <1>7, <1>9
    <2> QED
      BY <2>1, <2>2, <2>3 DEF Next, decode_range

(* An exception of the load ends the parse too. *)
LEMMA MainSteps ==
    ASSUME Shape, Sending, Next
    PROVE  Throttle \/ Load \/ Add \/ Jobs \/ PoolWait \/ pc'[0] \in {pc[0], Woken(pc[0])} \cup Past
  <1>1. 0 \in 0..N /\ Places
    BY RowsAssumption DEF Shape
  <1>2. LoadThrows => pc'[0] \in Past
    BY <1>1 DEF LoadThrows, Goto, Places, Past
  <1> QED
    BY <1>2, MainActions

(* A row does not bring the main thread back into its loop. *)
LEMMA MainMoves ==
    ASSUME Shape, Sending, Next
    PROVE  Throttle \/ Load \/ Add \/ pc'[0] \in {pc[0], Woken(pc[0])} \cup (MainPC \ Looping)
  <1>1. 0 \in 0..N /\ Places
    BY RowsAssumption DEF Shape
  <1>2. Jobs \/ PoolWait => pc'[0] \in MainPC \ Looping
    BY <1>1 DEF Jobs, PoolWait, Goto, Places, MainPC, Looping
  <1>3. Past \subseteq MainPC \ Looping
    BY DEF Past, MainPC, Looping
  <1> QED
    BY <1>2, <1>3, MainSteps

(* The main thread stays in its loop only while there are rows left. *)
LEMMA MainLoop ==
    ASSUME Shape, Sending, Next
    PROVE  /\ right' = right \/ Add
           /\ pc'[0] \in Looping => pc[0] \in Looping
  <1>1. right' = right \/ Add
    BY DEF Next, PoolTakes, PoolReports, decode_row, Compute, RowDone, ReleaseUp, NotifyUp, ReleaseLeft, Await,
           NotifyTotal, MutexGone, SortLost, PoolClears, decode_range, Throttle, Load, Jobs, PoolWait, Finish, JoinPool,
           LoadThrows, send_abort, AbortSet, AbortRow, AbortLast, Spurious
  <1>2. Throttle \/ Load \/ Add => pc[0] \in Looping
    BY DEF Throttle, Load, Add, Looping
  <1>3. Woken(pc[0]) \in Looping => pc[0] \in Looping
    BY DEF Shape, Places, Woken, Looping, MainPC
  <1> QED
    BY <1>1, <1>2, <1>3, MainMoves

(* Every step of a row, of the pool and of the main thread keeps the state well formed. *)
LEMMA ShapeNext == Shape /\ Sending /\ [Next]_vars => Shape'
  <1> SUFFICES ASSUME Shape, Sending, [Next]_vars PROVE Shape'
    OBVIOUS
  <1> USE RowsAssumption
  <1>1. CASE UNCHANGED vars
    BY <1>1 DEF vars, Shape, Places, Position
  <1>2. CASE Next
    <2>1. RowSteps
      BY AllRowSteps
    <2>2. /\ chrthlds' \in [Spans -> Int]
          /\ left' \in [Rows -> Int]
      <3>1. \/ UNCHANGED chrthlds
            \/ \E r \in Rows : ReleaseUp(r) \/ ReleaseLeft(r)
        BY <1>2 DEF Next, PoolTakes, PoolReports, decode_row, Compute, RowDone, NotifyUp, Await,
           NotifyTotal, MutexGone, SortLost, PoolClears, decode_range, Throttle, Load, Add, Jobs, PoolWait, Finish, JoinPool,
           LoadThrows, send_abort, AbortSet, AbortRow, AbortLast, Spurious
      <3>2. chrthlds' \in [Spans -> Int]
        <4>1. UNCHANGED chrthlds \/ \E s : chrthlds' = [chrthlds EXCEPT ![s] = @ - 1]
          <5>1. \A r \in Rows : ReleaseUp(r) => chrthlds' = [chrthlds EXCEPT ![<<left[r], r + 1>>] = @ - 1]
            BY DEF ReleaseUp
          <5>2. \A r \in Rows : ReleaseLeft(r) => chrthlds' = [chrthlds EXCEPT ![<<left[r] - 1, r>>] = @ - 1]
            BY DEF ReleaseLeft
          <5> QED
            BY <3>1, <5>1, <5>2, Zenon
        <4>2. chrthlds \in [Spans -> Int]
          BY DEF Shape
        <4> QED
          BY <4>1, <4>2
      <3>3. UNCHANGED left \/ \E r \in Rows : left' = [left EXCEPT ![r] = @ - 1]
        BY <1>2 DEF Next, PoolTakes, PoolReports, decode_row, Compute, RowDone, ReleaseUp, NotifyUp, ReleaseLeft,
           Await, NextSpan, NotifyTotal, MutexGone, SortLost, PoolClears, decode_range, Throttle, Load, Add, Jobs, PoolWait,
           Finish, JoinPool, LoadThrows, send_abort, AbortSet, AbortRow, AbortLast, Spurious
      <3>4. left' \in [Rows -> Int]
        BY <3>3 DEF Shape
      <3> QED
        BY <3>2, <3>4
    <2>3. /\ done' \in SUBSET Spans
          /\ active_rows' \in Int
          /\ abort' \in BOOLEAN
          /\ failed' \in BOOLEAN
      <3>1. \A r \in Rows : span(r) \in Spans
        BY DEF Shape, span, Spans, Rows
      <3>2. UNCHANGED done \/ \E r \in Rows : done' = done \cup {span(r)}
        BY <1>2 DEF Next, PoolTakes, PoolReports, decode_row, Compute, RowDone, ReleaseUp, NotifyUp, ReleaseLeft,
           Await, NotifyTotal, MutexGone, SortLost, PoolClears, decode_range, Throttle, Load, Add, Jobs, PoolWait, Finish,
           JoinPool, LoadThrows, send_abort, AbortSet, AbortRow, AbortLast, Spurious
      <3>3. UNCHANGED active_rows \/ active_rows' = active_rows - 1 \/ active_rows' = active_rows + 1
        BY <1>2 DEF Next, PoolTakes, PoolReports, decode_row, Compute, RowDone, ReleaseUp, NotifyUp, ReleaseLeft,
           Await, NotifyTotal, MutexGone, SortLost, PoolClears, decode_range, Throttle, Load, Add, Jobs, PoolWait, Finish,
           JoinPool, LoadThrows, send_abort, AbortSet, AbortRow, AbortLast, Spurious
      <3>4. UNCHANGED abort \/ abort' = TRUE
        BY <1>2 DEF Next, PoolTakes, PoolReports, decode_row, Compute, RowDone, ReleaseUp, NotifyUp, ReleaseLeft,
           Await, NotifyTotal, MutexGone, SortLost, PoolClears, decode_range, Throttle, Load, Add, Jobs, PoolWait, Finish,
           JoinPool, LoadThrows, send_abort, AbortSet, AbortRow, AbortLast, Spurious
      <3>5. UNCHANGED failed \/ failed' = TRUE \/ failed' = FALSE
        BY <1>2 DEF Next, PoolTakes, PoolReports, decode_row, Compute, RowDone, ReleaseUp, NotifyUp, ReleaseLeft,
           Await, NotifyTotal, MutexGone, SortLost, PoolClears, decode_range, Throttle, Load, Add, Jobs, PoolWait, Finish,
           JoinPool, LoadThrows, send_abort, AbortSet, AbortRow, AbortLast, Spurious
      <3>6. done \in SUBSET Spans /\ active_rows \in Int
        BY DEF Shape
      <3>7. abort \in BOOLEAN /\ failed \in BOOLEAN
        BY DEF Shape
      <3>8. done' \in SUBSET Spans
        BY <3>1, <3>2, <3>6
      <3>9. active_rows' \in Int
        BY <3>3, <3>6
      <3>10. abort' \in BOOLEAN /\ failed' \in BOOLEAN
        BY <3>4, <3>5, <3>7
      <3> QED
        BY <3>8, <3>9, <3>10
    <2>4. \A r \in Rows : left'[r] \in 0..N /\ left'[r] < r /\ Position(r)'
      <3> SUFFICES ASSUME NEW r \in Rows PROVE left'[r] \in 0..N /\ left'[r] < r /\ Position(r)'
        OBVIOUS
      <3>1. RowStep(r) /\ Position(r) /\ left[r] \in 0..N /\ left[r] < r /\ r \in 1..N /\ pc[r] \in RowPC
        BY <2>1 DEF RowSteps, Shape, Places, Rows
      <3>2. CASE left'[r] = left[r] - 1
        BY <3>1, <3>2 DEF RowStep, Position
      <3>3. CASE left'[r] = left[r] /\ QuietMove(r)
        BY <3>1, <3>3 DEF QuietMove, Aborting, Position
      <3>4. CASE left'[r] = left[r] /\ LoudMove(r)
        BY <3>1, <3>4 DEF LoudMove, Position, ToUp, ToLeft
      <3> QED
        BY <3>1, <3>2, <3>3, <3>4 DEF RowStep
    <2>5. CASE Add
      <3>1. /\ right \in Rows
            /\ right' = right + 1
            /\ pc'[right] # "new"
            /\ pc'[0] = IF right = N THEN "jobs" ELSE "throttle"
            /\ \A q \in Rows \ {right} : pc'[q] = pc[q]
        <4>1. right \in Rows /\ 0 \in 0..N /\ Rows \subseteq 0..N /\ 0 \notin Rows
          BY <2>5 DEF Add, Shape, Looping, Rows
        <4> QED
          BY <2>5, <4>1 DEF Add, Shape, Places
      <3>2. right' \in 1..N + 1 /\ (pc'[0] \in Looping => right' <= N)
        BY <3>1 DEF Looping, Rows
      <3>3. \A r \in Rows : pc'[r] = "new" <=> r >= right'
        BY <3>1 DEF Shape, Rows
      <3> QED
        BY <2>1, <2>2, <2>3, <2>4, <3>2, <3>3 DEF Shape, RowSteps
    <2>6. CASE right' = right
      <3>1. right' \in 1..N + 1 /\ (pc'[0] \in Looping => right' <= N)
        BY <1>2, <2>6, MainLoop DEF Shape
      <3>2. \A r \in Rows : pc'[r] = "new" <=> pc[r] = "new"
        <4>1. right # right' + 1 /\ right' # right + 1
          BY <2>6 DEF Shape
        <4> QED
          BY <2>1, <4>1 DEF RowSteps, RowStep, QuietMove, Aborting, LoudMove, ToUp, ToLeft
      <3> QED
        BY <2>1, <2>2, <2>3, <2>4, <2>6, <3>1, <3>2 DEF Shape, RowSteps
    <2> QED
      BY <1>2, <2>5, <2>6, MainLoop
  <1> QED
    BY <1>1, <1>2

(* The state is always well formed. *)
LEMMA ShapeInv == Spec => []Shape
  BY ShapeInit, ShapeNext, SendingInv, PTL DEF Spec
-----------------------------------------------------------------------------
(* The chart of one row: it is final to the right of the row's position.     *)

Before == {"new", "queued", "compute"}
After == {"row_done", "release_up", "notify_up", "release_left", "await", "asleep", "woken", "notify_total"}

Settled(r) ==
    /\ \A l \in 0..N : <<l, r>> \in done => left[r] <= l
    /\ pc[r] \in Before => <<left[r], r>> \notin done
    /\ pc[r] \in After => <<left[r], r>> \in done

AllSettled == \A r \in Rows : Settled(r)

(* A row finishes its spans from right to left. *)
LEMMA SettledNext == Shape /\ Sending /\ AllSettled /\ [Next]_vars => AllSettled'
  <1> SUFFICES ASSUME Shape, Sending, AllSettled, [Next]_vars, NEW q \in Rows PROVE Settled(q)'
    BY DEF AllSettled
  <1> USE RowsAssumption
  <1>1. Steps /\ Settled(q) /\ left \in [Rows -> 0..N]
    BY AllSteps DEF AllSettled, Shape
  <1>2. ASSUME QuietMove(q), UNCHANGED left, \A l \in 0..N : <<l, q>> \in done' <=> <<l, q>> \in done
        PROVE  Settled(q)'
    BY <1>1, <1>2 DEF Settled, QuietMove, Aborting, Before, After
  <1>3. CASE Quiet
    BY <1>2, <1>3 DEF Quiet
  <1>4. ASSUME NEW r \in Rows, Loud(r) PROVE Settled(q)'
    <2>1. CASE q # r
      <3>1. QuietMove(q) /\ left'[q] = left[q] /\ \A l \in 0..N : <<l, q>> \in done' <=> <<l, q>> \in done
        BY <1>1, <1>4, <2>1 DEF Loud, Computes, Passes, PaysUp, PaysLeft, GoesOn, Advances, span
      <3> QED
        BY <1>1, <3>1 DEF Settled, QuietMove, Aborting, Before, After
    <2>2. CASE q = r /\ Computes(r)
      <3>1. pc'[q] \notin Before /\ left'[q] = left[q] /\ left[q] \in Int /\ done' = done \cup {<<left[q], q>>}
        BY <1>1, <2>2 DEF Computes, Before, ToUp, ToLeft, span
      <3> QED
        BY <1>1, <3>1 DEF Settled
    <2>3. CASE q = r /\ (Passes(r) \/ PaysUp(r))
      BY <1>1, <2>3 DEF Settled, Passes, PaysUp, Before, After, ToUp, ToLeft
    <2>4. CASE q = r /\ UNCHANGED done /\ Advances(r) /\ pc[r] \in After
      <3>1. left'[q] = left[q] - 1 /\ left[q] \in Int /\ pc'[q] = "compute" /\ left[q] - 1 \in 0..N \cup {-1}
        BY <1>1, <2>4 DEF Advances
      <3>2. <<left[q] - 1, q>> \notin done
        <4>1. <<left[q] - 1, q>> \in done => left[q] - 1 \in 0..N
          BY DEF Shape, Spans
        <4> QED
          BY <1>1, <3>1, <4>1 DEF Settled
      <3> QED
        BY <1>1, <2>4, <3>1, <3>2 DEF Settled, Before, After
    <2>5. CASE q = r /\ PaysLeft(r) /\ pc'[r] = "await" /\ UNCHANGED left
      BY <1>1, <2>5 DEF Settled, PaysLeft, Before, After
    <2> QED
      BY <1>4, <2>1, <2>2, <2>3, <2>4, <2>5 DEF Loud, PaysLeft, GoesOn, After
  <1> QED
    BY <1>1, <1>3, <1>4 DEF Steps
-----------------------------------------------------------------------------
(* The two holds of a span: who still owes them. *)

UpOwed(l, q) ==
    <<l, q>> \notin done \/ (left[q] = l /\ pc[q] \in {"row_done", "release_up"})

LeftOwed(l, r) ==
    \/ <<l + 1, r>> \notin done
    \/ left[r] = l + 1 /\ pc[r] \in {"row_done", "release_up", "notify_up", "release_left"}

Counted(l, r) ==
    /\ chrthlds[<<l, r>>] >= 0
    /\ UpOwed(l, r - 1) \/ LeftOwed(l, r) => chrthlds[<<l, r>>] >= 1
    /\ UpOwed(l, r - 1) /\ LeftOwed(l, r) => chrthlds[<<l, r>>] >= 2

AllCounted == \A l \in 0..N : \A r \in Rows : l + 1 < r => Counted(l, r)

(* Nobody begins to owe a hold... *)
LEMMA OwedUp ==
    ASSUME Shape, Steps, AllSettled, NEW q \in Rows, NEW l, UpOwed(l, q)'
    PROVE  UpOwed(l, q)
  <1>0. Settled(q) /\ left \in [Rows -> 0..N]
    BY DEF AllSettled, Shape
  <1>1. CASE Quiet
    BY <1>1 DEF Quiet, QuietMove, Aborting, UpOwed
  <1>2. ASSUME NEW r \in Rows, Loud(r) PROVE UpOwed(l, q)
    <2>1. CASE q # r
      <3>1. QuietMove(q) /\ left'[q] = left[q] /\ (<<l, q>> \notin done' => <<l, q>> \notin done)
        BY <1>0, <1>2, <2>1 DEF Loud, Computes, Passes, PaysUp, PaysLeft, GoesOn, Advances
      <3> QED
        BY <3>1 DEF UpOwed, QuietMove, Aborting
    <2>2. CASE q = r
      BY <1>0, <1>2, <2>2 DEF Loud, Computes, Passes, PaysUp, PaysLeft, GoesOn, Advances,
         UpOwed, Settled, Before, ToUp, ToLeft
    <2> QED
      BY <2>1, <2>2
  <1> QED
    BY <1>1, <1>2 DEF Steps

(* The same for the hold that the row releases for its own next span. *)
LEMMA OwedLeft ==
    ASSUME Shape, Steps, AllSettled, NEW q \in Rows, NEW l \in 0..N, LeftOwed(l, q)'
    PROVE  LeftOwed(l, q)
  <1>0. Settled(q) /\ left \in [Rows -> 0..N]
    BY DEF AllSettled, Shape
  <1>1. CASE Quiet
    BY <1>1 DEF Quiet, QuietMove, Aborting, LeftOwed
  <1>2. ASSUME NEW r \in Rows, Loud(r) PROVE LeftOwed(l, q)
    <2>1. CASE q # r
      <3>1. QuietMove(q) /\ left'[q] = left[q] /\ (<<l + 1, q>> \notin done' => <<l + 1, q>> \notin done)
        BY <1>0, <1>2, <2>1 DEF Loud, Computes, Passes, PaysUp, PaysLeft, GoesOn, Advances
      <3> QED
        BY <3>1 DEF LeftOwed, QuietMove, Aborting
    <2>2. CASE q = r
      BY <1>0, <1>2, <2>2 DEF Loud, Computes, Passes, PaysUp, PaysLeft, GoesOn, Advances,
         LeftOwed, Settled, Before, ToUp, ToLeft
    <2> QED
      BY <2>1, <2>2
  <1> QED
    BY <1>1, <1>2 DEF Steps

(* ... and a row that pays one no longer owes it. *)
LEMMA Paid ==
    ASSUME Shape, AllSettled, NEW r \in Rows, NEW l \in 0..N
    PROVE  /\ PaysUp(r) /\ left[r] = l => UpOwed(l, r) /\ ~UpOwed(l, r)'
           /\ PaysLeft(r) /\ left[r] = l + 1 => LeftOwed(l, r) /\ ~LeftOwed(l, r)'
  <1>0. Settled(r) /\ left \in [Rows -> 0..N]
    BY DEF AllSettled, Shape
  <1>1. ASSUME PaysUp(r), left[r] = l PROVE UpOwed(l, r) /\ ~UpOwed(l, r)'
    BY <1>0, <1>1 DEF PaysUp, UpOwed, Settled, After, ToLeft
  <1>2. ASSUME PaysLeft(r), left[r] = l + 1 PROVE LeftOwed(l, r) /\ ~LeftOwed(l, r)'
    <2>1. <<l + 1, r>> \in done /\ <<l + 1, r>> \in done'
      BY <1>0, <1>2 DEF PaysLeft, Settled, After
    <2>2. pc'[r] \notin {"row_done", "release_up", "notify_up", "release_left"}
      BY <1>2 DEF PaysLeft, Advances
    <2> QED
      BY <1>2, <2>1, <2>2 DEF PaysLeft, LeftOwed
  <1> QED
    BY <1>1, <1>2

(* Every span has at least as many holds as are owed. *)
LEMMA CountedNext == Shape /\ Sending /\ AllSettled /\ AllCounted /\ [Next]_vars => AllCounted'
  <1> SUFFICES ASSUME Shape, Sending, AllSettled, AllCounted, [Next]_vars,
                      NEW l \in 0..N, NEW r \in Rows, l + 1 < r
               PROVE  Counted(l, r)'
    BY DEF AllCounted
  <1> USE RowsAssumption
  <1> DEFINE s == <<l, r>>
             q == r - 1
  <1>1. Steps /\ Counted(l, r)
    BY AllSteps DEF AllCounted
  <1>2. q \in Rows /\ s \in Spans /\ q + 1 = r
    BY DEF Rows, Spans
  <1>3. (UpOwed(l, q)' => UpOwed(l, q)) /\ (LeftOwed(l, r)' => LeftOwed(l, r))
    BY <1>1, <1>2, OwedUp, OwedLeft
  <1>4. chrthlds \in [Spans -> Int] /\ chrthlds[s] \in Int /\ left \in [Rows -> 0..N]
    BY <1>2 DEF Shape
  <1>5. CASE chrthlds'[s] = chrthlds[s]
    BY <1>1, <1>3, <1>5 DEF Counted
  <1>6. CASE chrthlds'[s] = chrthlds[s] - 1 /\ UpOwed(l, q) /\ ~UpOwed(l, q)'
    BY <1>1, <1>3, <1>4, <1>6 DEF Counted
  <1>7. CASE chrthlds'[s] = chrthlds[s] - 1 /\ LeftOwed(l, r) /\ ~LeftOwed(l, r)'
    BY <1>1, <1>3, <1>4, <1>7 DEF Counted
  <1>8. ASSUME NEW p \in Rows, PaysUp(p) PROVE Counted(l, r)'
    <2>1. CASE left[p] = l /\ p = q
      <3>1. chrthlds'[s] = chrthlds[s] - 1
        BY <1>2, <1>4, <1>8, <2>1 DEF PaysUp
      <3> QED
        BY <1>6, <1>8, <2>1, <3>1, Paid
    <2>2. CASE ~(left[p] = l /\ p = q)
      <3>1. <<left[p], p + 1>> # s
        BY <1>2, <2>2 DEF Rows
      <3>2. chrthlds'[s] = chrthlds[s]
        BY <1>2, <1>4, <1>8, <3>1 DEF PaysUp
      <3> QED
        BY <1>5, <3>2
    <2> QED
      BY <2>1, <2>2
  <1>9. ASSUME NEW p \in Rows, PaysLeft(p) PROVE Counted(l, r)'
    <2>1. CASE left[p] = l + 1 /\ p = r
      <3>1. chrthlds'[s] = chrthlds[s] - 1
        BY <1>2, <1>4, <1>9, <2>1 DEF PaysLeft
      <3> QED
        BY <1>7, <1>9, <2>1, <3>1, Paid
    <2>2. CASE ~(left[p] = l + 1 /\ p = r)
      <3>1. <<left[p] - 1, p>> # s
        BY <1>4, <2>2
      <3>2. chrthlds'[s] = chrthlds[s]
        BY <1>2, <1>4, <1>9, <3>1 DEF PaysLeft
      <3> QED
        BY <1>5, <3>2
    <2> QED
      BY <2>1, <2>2
  <1>10. CASE UNCHANGED chrthlds
    BY <1>5, <1>10
  <1> QED
    BY <1>1, <1>8, <1>9, <1>10 DEF Steps, Quiet, Loud, Computes, Passes, GoesOn
-----------------------------------------------------------------------------
(* The span a row computes has no hold left, and the chart is closed. *)

Unheld ==
    /\ \A r \in Rows : chrthlds[<<r - 1, r>>] = 0
    /\ \A r \in Rows : pc[r] = "compute" => chrthlds[span(r)] = 0

Closed == \A t \in done : \A s \in Spans : Inside(s, t) => s \in done

(* Holds are only ever released. *)
LEMMA HoldsFall ==
    ASSUME Shape, Steps, NEW s \in Spans
    PROVE  chrthlds'[s] \in Int /\ chrthlds'[s] <= chrthlds[s]
  <1>1. chrthlds \in [Spans -> Int]
    BY DEF Shape
  <1>2. \E t : chrthlds' \in {chrthlds, [chrthlds EXCEPT ![t] = @ - 1]}
    BY DEF Steps, Quiet, Loud, Computes, Passes, PaysUp, PaysLeft, GoesOn
  <1> QED
    BY <1>1, <1>2

(* A row that moves on to a span finds it without holds, and it stays so. *)
LEMMA UnheldNext ==
    Shape /\ Sending /\ AllCounted /\ AllCounted' /\ Unheld /\ [Next]_vars => Unheld'
  <1> SUFFICES ASSUME Shape, Sending, AllCounted, AllCounted', Unheld, [Next]_vars, NEW r \in Rows
               PROVE  /\ chrthlds'[<<r - 1, r>>] = 0
                      /\ pc'[r] = "compute" => chrthlds'[<<left'[r], r>>] = 0
    BY DEF Unheld, span
  <1> USE RowsAssumption
  <1>1. /\ Steps
        /\ chrthlds \in [Spans -> Int]
        /\ left \in [Rows -> 0..N]
        /\ \A p \in Rows : left[p] \in 0..N /\ left[p] < p
    BY AllSteps DEF Shape
  <1>3. chrthlds'[<<r - 1, r>>] = 0
    <2>1. r - 1 \in 0..N /\ <<r - 1, r>> \in Spans /\ chrthlds[<<r - 1, r>>] = 0
      BY DEF Rows, Spans, Unheld
    <2>2. \A p \in Rows : <<left[p], p + 1>> # <<r - 1, r>> /\ <<left[p] - 1, p>> # <<r - 1, r>>
      BY <1>1 DEF Rows
    <2> QED
      BY <1>1, <2>1, <2>2 DEF Steps, Quiet, Loud, Computes, Passes, PaysUp, PaysLeft, GoesOn
  <1>4. ASSUME NEW l \in 0..N, l < r, chrthlds[<<l, r>>] = 0 PROVE chrthlds'[<<l, r>>] = 0
    <2>1. CASE l = r - 1
      BY <1>3, <2>1
    <2>2. CASE l + 1 < r
      <3>1. <<l, r>> \in Spans
        BY <1>4 DEF Spans, Rows
      <3>2. chrthlds'[<<l, r>>] >= 0
        BY <2>2 DEF AllCounted, Counted
      <3> QED
        BY <1>1, <1>4, <3>1, <3>2, HoldsFall
    <2> QED
      BY <1>4, <2>1, <2>2 DEF Rows
  <1>5. ASSUME pc'[r] = "compute" PROVE chrthlds'[<<left'[r], r>>] = 0
    <2>1. RowStep(r) /\ Position(r) /\ left[r] \in 0..N /\ left[r] < r
      BY AllRowSteps DEF RowSteps, Shape
    <2>2. CASE left'[r] = left[r] /\ pc[r] = "compute"
      BY <1>4, <2>1, <2>2 DEF Unheld, span
    <2>3. CASE left'[r] = left[r] /\ pc[r] = "queued"
      BY <1>3, <2>1, <2>3 DEF Position
    <2>4. CASE left'[r] = left[r] - 1 /\ pc[r] \in {"release_left", "await", "woken"}
      <3>1. left[r] - 1 \in 0..N /\ left[r] - 1 < r
        BY <2>1, <2>4 DEF Position, Rows
      <3>2. chrthlds'[<<left[r] - 1, r>>] = 0 \/ chrthlds[<<left[r] - 1, r>>] = 0
        <4>1. left[r] # left[r] - 1
          BY <2>1
        <4> QED
          BY <1>1, <1>5, <2>4, <4>1
             DEF Steps, Quiet, Loud, Computes, Passes, PaysUp, PaysLeft, GoesOn, Advances
      <3> QED
        BY <1>4, <2>4, <3>1, <3>2
    <2> QED
      BY <1>5, <2>1, <2>2, <2>3, <2>4
         DEF RowStep, QuietMove, Aborting, LoudMove, ToUp, ToLeft
  <1> QED
    BY <1>3, <1>5

(* The two neighbours of a span cover everything inside it. *)
LEMMA InsideFinal == Shape /\ AllCounted /\ Unheld /\ Closed => InsideIsFinal
  <1> SUFFICES ASSUME Shape, AllCounted, Unheld, Closed, NEW r \in Rows, pc[r] = "compute"
               PROVE  chrthlds[span(r)] = 0 /\ \A s \in Spans : Inside(s, span(r)) => s \in done
    BY DEF InsideIsFinal
  <1> USE RowsAssumption
  <1>1. chrthlds[span(r)] = 0
    BY DEF Unheld
  <1>2. ASSUME NEW s \in Spans, Inside(s, span(r)) PROVE s \in done
    <2> DEFINE l == left[r]
    <2>1. l \in 0..N /\ l < r /\ r \in 1..N
      BY DEF Shape, Rows
    <2>2. PICK a \in 0..N, b \in 0..N : s = <<a, b>> /\ a < b
      BY DEF Spans
    <2>3. l <= a /\ b <= r /\ (a # l \/ b # r)
      BY <1>2, <2>2 DEF Inside, span
    <2>4. l + 1 < r /\ chrthlds[<<l, r>>] = 0
      BY <1>1, <2>1, <2>2, <2>3 DEF span
    <2>5. <<l, r - 1>> \in done /\ <<l + 1, r>> \in done
      BY <2>1, <2>4 DEF AllCounted, Counted, UpOwed, LeftOwed
    <2>6. CASE b <= r - 1
      <3>1. s = <<l, r - 1>> \/ Inside(s, <<l, r - 1>>)
        BY <2>2, <2>3, <2>6 DEF Inside
      <3> QED
        BY <2>5, <3>1 DEF Closed
    <2>7. CASE b = r
      <3>1. s = <<l + 1, r>> \/ Inside(s, <<l + 1, r>>)
        BY <2>1, <2>2, <2>3, <2>7 DEF Inside
      <3> QED
        BY <2>5, <3>1 DEF Closed
    <2> QED
      BY <2>1, <2>2, <2>3, <2>6, <2>7
  <1> QED
    BY <1>1, <1>2

(* A span that joins the chart has everything inside it there. *)
LEMMA ClosedNext == Shape /\ Sending /\ InsideIsFinal /\ Closed /\ [Next]_vars => Closed'
  <1> SUFFICES ASSUME Shape, Sending, InsideIsFinal, Closed, [Next]_vars PROVE Closed'
    OBVIOUS
  <1>1. Steps
    BY AllSteps
  <1>2. CASE UNCHANGED done
    BY <1>2 DEF Closed
  <1>3. ASSUME NEW r \in Rows, Computes(r) PROVE Closed'
    BY <1>3 DEF Computes, InsideIsFinal, Closed
  <1> QED
    BY <1>1, <1>2, <1>3 DEF Steps, Quiet, Loud, Passes, PaysUp, PaysLeft, GoesOn

Ordered == AllSettled /\ AllCounted /\ Unheld /\ Closed

(* The order of the spans holds when decode_range begins. *)
LEMMA OrderedInit == Init => Ordered
  <1> SUFFICES ASSUME Init PROVE Ordered
    OBVIOUS
  <1> USE RowsAssumption
  <1>1. \A l \in 0..N : \A r \in Rows : l < r => chrthlds[<<l, r>>] = IF l + 1 = r THEN 0 ELSE 2
    BY DEF Init, initial_holds, Spans, Rows
  <1>2. \A r \in Rows : pc[r] = "new"
    BY DEF Init, Rows
  <1>3. done = {}
    BY DEF Init
  <1>4. AllSettled
    BY <1>2, <1>3 DEF AllSettled, Settled, After
  <1>5. AllCounted
    BY <1>1 DEF AllCounted, Counted, Rows
  <1>6. Unheld
    BY <1>1, <1>2 DEF Unheld, Rows
  <1>7. Closed
    BY <1>3 DEF Closed
  <1> QED
    BY <1>4, <1>5, <1>6, <1>7 DEF Ordered

(* The order of the spans always holds. *)
LEMMA OrderedInv == Spec => []Ordered
  <1>1. Shape /\ Sending /\ Ordered /\ [Next]_vars => Ordered'
    BY SettledNext, CountedNext, UnheldNext, InsideFinal, ClosedNext DEF Ordered
  <1> QED
    BY <1>1, OrderedInit, ShapeInv, SendingInv, PTL DEF Spec

(* Whatever the length of the sentence, the number of threads and the spans that *)
(* throw, decode_row never computes a span that is still held or that has a      *)
(* span inside it which another row has not finished.                            *)
THEOREM RowsReadFinalSpans == Spec => []InsideIsFinal
  <1>1. Shape /\ Ordered => InsideIsFinal
    BY InsideFinal DEF Ordered
  <1> QED
    BY <1>1, ShapeInv, OrderedInv, PTL
-----------------------------------------------------------------------------
(* The throttle: every row that is admitted and has not been through RowDone is counted. *)

Owing ==
    {r \in Rows : (pc[r] \notin {"new"} \cup Over /\ <<0, r>> \notin done) \/ pc[r] = "row_done"}

Adding == IF pc[0] = "add" THEN 1 ELSE 0

Throttled ==
    /\ Cardinality(Owing) + Adding <= active_rows
    /\ active_rows <= max_active_rows
    /\ pc[0] = "load" => active_rows < max_active_rows

(* Sets of rows can be counted. *)
LEMMA RowsFinite ==
    ASSUME NEW S \in SUBSET Rows
    PROVE  IsFiniteSet(S) /\ Cardinality(S) \in Nat
  <1>1. IsFiniteSet(Rows)
    BY RowsAssumption, FS_Interval DEF Rows
  <1>2. IsFiniteSet(S)
    BY <1>1, FS_Subset
  <1> QED
    BY <1>2, FS_CardinalityType

(* Only the main thread adds a row to those that owe an active_rows. *)
LEMMA OwingSteps ==
    ASSUME Shape, Sending, AllSettled, [Next]_vars
    PROVE  /\ right' = right => Owing' \subseteq Owing
           /\ Owing' \subseteq Owing \cup {right}
           /\ \A r \in Rows : RowDone(r) => r \in Owing /\ r \notin Owing'
  <1> USE RowsAssumption
  <1>1. done \subseteq done'
    BY AllSteps DEF Steps, Quiet, Loud, Computes, Passes, PaysUp, PaysLeft, GoesOn
  <1>2. ASSUME NEW r \in Rows, r \in Owing', right' = right \/ r # right PROVE r \in Owing
    <2>1. RowStep(r) /\ Settled(r) /\ right \in Int /\ <<left[r], r>> = span(r)
      BY AllRowSteps DEF RowSteps, AllSettled, Shape, span
    <2>2. ~(right' = right + 1 /\ r = right)
      BY <1>2, <2>1
    <2>3. CASE pc'[r] = "row_done"
      <3>1. pc[r] = "row_done" \/ (pc[r] = "compute" /\ left[r] = 0)
        BY <2>1, <2>3 DEF RowStep, QuietMove, Aborting, LoudMove, ToUp, ToLeft
      <3> QED
        BY <2>1, <3>1 DEF Owing, Settled, Before, Over
    <2>4. CASE pc'[r] \notin {"new"} \cup Over /\ <<0, r>> \notin done'
      <3>1. pc[r] \notin {"new"} \cup Over
        BY <2>1, <2>2, <2>4 DEF RowStep, QuietMove, Aborting, LoudMove, Over
      <3> QED
        BY <1>1, <2>4, <3>1 DEF Owing
    <2> QED
      BY <1>2, <2>3, <2>4 DEF Owing
  <1>3. ASSUME NEW r \in Rows, RowDone(r) PROVE r \in Owing /\ r \notin Owing'
    <2>1. pc[r] = "row_done" /\ left[r] = 0 /\ <<0, r>> \in done
      BY <1>3 DEF RowDone, Shape, Position, AllSettled, Settled, After
    <2>2. pc'[r] # "row_done"
      <3>1. r \in 0..N /\ r # 0
        BY DEF Rows
      <3> QED
        BY <1>3, <3>1 DEF RowDone, Shape, Places, ToUp, ToLeft
    <2> QED
      BY <1>1, <2>1, <2>2 DEF Owing
  <1> QED
    BY <1>2, <1>3 DEF Owing

(* RowDone gives back what Load took, once for each row. *)
LEMMA ThrottledNext == Shape /\ Sending /\ AllSettled /\ Throttled /\ [Next]_vars => Throttled'
  <1> SUFFICES ASSUME Shape, Sending, AllSettled, Throttled, [Next]_vars PROVE Throttled'
    OBVIOUS
  <1> USE RowsAssumption
  <1>0. /\ Places /\ 0 \in 0..N /\ 0 \notin Rows /\ active_rows \in Int /\ max_active_rows \in Int
        /\ Adding \in 0..1 /\ Adding' \in 0..1 /\ right \in Int
    BY DEF Shape, Rows, max_active_rows, Adding
  <1>1. IsFiniteSet(Owing) /\ Cardinality(Owing) \in Nat /\ IsFiniteSet(Owing') /\ Cardinality(Owing') \in Nat
    <2>1. Owing \in SUBSET Rows /\ Owing' \in SUBSET Rows
      BY DEF Owing
    <2> QED
      BY <2>1, RowsFinite
  <1>2. Owing' \subseteq Owing => Cardinality(Owing') <= Cardinality(Owing)
    BY <1>1, FS_Subset
  <1>3. ASSUME NEW r \in Rows, RowDone(r) PROVE Throttled'
    <2>1. right' = right /\ active_rows' = active_rows - 1
      BY <1>3 DEF RowDone
    <2>2. Owing' \subseteq Owing \ {r} /\ r \in Owing
      BY <1>3, <2>1, OwingSteps
    <2>3. IsFiniteSet(Owing \ {r}) /\ Cardinality(Owing \ {r}) = Cardinality(Owing) - 1
      BY <1>1, <2>2, FS_RemoveElement
    <2>4. Cardinality(Owing') <= Cardinality(Owing) - 1
      BY <2>2, <2>3, FS_Subset
    <2>5. pc'[0] \in {pc[0], Woken(pc[0])} /\ r # 0
      BY <1>0, <1>3 DEF RowDone, Notified, Places
    <2>6. Adding' <= Adding
      BY <1>0, <2>5 DEF Adding, Woken
    <2> QED
      BY <1>0, <1>1, <2>1, <2>4, <2>6 DEF Throttled
  <1>4. CASE Load
    <2>1. Owing' \subseteq Owing /\ active_rows' = active_rows + 1 /\ pc[0] = "load" /\ pc'[0] = "add"
      BY <1>0, <1>4, OwingSteps DEF Load, Goto, Places
    <2>2. Adding = 0 /\ Adding' = 1
      BY <2>1 DEF Adding
    <2> QED
      BY <1>0, <1>1, <1>2, <2>1, <2>2 DEF Throttled
  <1>5. CASE Add
    <2>1. /\ Owing' \subseteq Owing \cup {right}
          /\ active_rows' = active_rows
          /\ pc[0] = "add"
          /\ right \in Rows
      BY <1>5, OwingSteps DEF Add, Shape, Looping, Rows
    <2>2. pc'[0] \notin {"add", "load"}
      BY <1>0, <1>5, <2>1 DEF Add, Places
    <2>3. /\ IsFiniteSet(Owing \cup {right})
          /\ Cardinality(Owing \cup {right}) <= Cardinality(Owing) + 1
      <3>1. Cardinality(Owing \cup {right}) = IF right \in Owing THEN Cardinality(Owing) ELSE Cardinality(Owing) + 1
        BY <1>1, FS_AddElement
      <3>2. IsFiniteSet(Owing \cup {right})
        BY <1>1, FS_AddElement
      <3> QED
        BY <1>1, <3>1, <3>2
    <2>4. Cardinality(Owing') <= Cardinality(Owing \cup {right}) /\ Cardinality(Owing \cup {right}) \in Nat
      BY <2>1, <2>3, FS_Subset, FS_CardinalityType
    <2>5. Adding = 1 /\ Adding' = 0
      BY <2>1, <2>2 DEF Adding
    <2> QED
      BY <1>0, <1>1, <2>1, <2>2, <2>3, <2>4, <2>5 DEF Throttled
  <1>6. CASE Throttle
    <2>1. /\ Owing' \subseteq Owing /\ active_rows' = active_rows
          /\ pc'[0] # "add"
          /\ pc'[0] = "load" => ~(active_rows >= max_active_rows)
      BY <1>0, <1>6, OwingSteps DEF Throttle, Goto, Places
    <2>2. Adding' = 0
      BY <2>1 DEF Adding
    <2> QED
      BY <1>0, <1>1, <1>2, <2>1, <2>2 DEF Throttled
  <1>7. CASE /\ right' = right /\ active_rows' = active_rows
             /\ pc'[0] \in {pc[0], Woken(pc[0])} \cup (MainPC \ Looping)
    <2>1. pc'[0] \in {"add", "load"} => pc'[0] = pc[0]
      BY <1>7 DEF Woken, Looping
    <2>2. Adding' <= Adding
      BY <2>1 DEF Adding
    <2> QED
      BY <1>0, <1>1, <1>2, <1>7, <2>1, <2>2, OwingSteps DEF Throttled
  <1>8. CASE UNCHANGED vars
    BY <1>7, <1>8 DEF vars
  <1>9. \/ right' = right /\ active_rows' = active_rows
        \/ Load \/ Add \/ UNCHANGED vars
        \/ \E r \in Rows : RowDone(r)
    BY DEF Next, PoolTakes, PoolReports, decode_row, Compute, ReleaseUp, NotifyUp, ReleaseLeft, Await,
           NotifyTotal, MutexGone, SortLost, PoolClears, decode_range, Throttle, Jobs, PoolWait, Finish, JoinPool,
           LoadThrows, send_abort, AbortSet, AbortRow, AbortLast, Spurious
  <1> QED
    BY <1>3, <1>4, <1>5, <1>6, <1>7, <1>8, <1>9, MainMoves

(* The throttle always holds. *)
LEMMA ThrottledInv == Spec => []Throttled
  <1>1. Init => Throttled
    <2> SUFFICES ASSUME Init PROVE Throttled
      OBVIOUS
    <2>1. Owing = {} /\ Adding = 0 /\ pc[0] = "throttle"
      BY RowsAssumption DEF Init, Owing, Adding, Rows, Over
    <2>2. Cardinality(Owing) = 0
      BY <2>1, FS_EmptySet
    <2> QED
      BY <2>1, <2>2, RowsAssumption DEF Init, Throttled, max_active_rows
  <1>2. Shape /\ Sending /\ Ordered /\ Throttled /\ [Next]_vars => Throttled'
    BY ThrottledNext DEF Ordered
  <1> QED
    BY <1>1, <1>2, ShapeInv, SendingInv, OrderedInv, PTL DEF Spec

(* decode_range never has more rows under way than threads, for every length of *)
(* sentence and number of threads: each row that is admitted and not through    *)
(* its last span is counted in active_rows.                                     *)
THEOREM RowsAreThrottled == Spec => []ThrottleHolds
  <1>1. Shape /\ Throttled => ThrottleHolds
    <2> SUFFICES ASSUME Shape, Throttled PROVE ThrottleHolds
      OBVIOUS
    <2> DEFINE Running == {r \in Rows : pc[r] \notin {"new"} \cup Over /\ <<0, r>> \notin done}
    <2>1. Running \subseteq Owing /\ Owing \in SUBSET Rows
      BY DEF Owing
    <2>2. IsFiniteSet(Running) /\ Cardinality(Running) <= Cardinality(Owing)
      BY <2>1, RowsFinite, FS_Subset
    <2>3. Cardinality(Running) \in Nat /\ Cardinality(Owing) \in Nat /\ Adding \in 0..1 /\ active_rows \in Int
      BY <2>1, <2>2, RowsFinite, FS_CardinalityType DEF Adding, Shape
    <2>4. Cardinality(Running) <= active_rows
      BY <2>2, <2>3 DEF Throttled
    <2> QED
      BY <2>4 DEF ThrottleHolds, Throttled
  <1> QED
    BY <1>1, ShapeInv, ThrottledInv, PTL
-----------------------------------------------------------------------------
AtMostTwo == \A s \in Spans : chrthlds[s] <= 2

(* The type invariant holds for every N and NumThreads.  Its two numeric parts are *)
(* not local: a hold count is never decremented below zero because each of the two *)
(* rows that release it does so once, and active_rows never is because each row    *)
(* that decrements it was counted.                                                 *)
THEOREM TypeCorrect == Spec => []TypeOK
  <1> USE RowsAssumption
  <1>1. Init => AtMostTwo
    BY DEF Init, initial_holds, AtMostTwo
  <1>2. Shape /\ Sending /\ AtMostTwo /\ [Next]_vars => AtMostTwo'
    <2> SUFFICES ASSUME Shape, Sending, AtMostTwo, [Next]_vars, NEW s \in Spans PROVE chrthlds'[s] <= 2
      BY DEF AtMostTwo
    <2>1. chrthlds[s] \in Int /\ chrthlds[s] <= 2
      BY DEF Shape, AtMostTwo
    <2> QED
      BY <2>1, AllSteps, HoldsFall
  <1>3. Shape /\ Sending /\ Ordered /\ Throttled /\ AtMostTwo => TypeOK
    <2> SUFFICES ASSUME Shape, Sending, Ordered, Throttled, AtMostTwo PROVE TypeOK
      OBVIOUS
    <2>1. chrthlds \in [Spans -> 0..2]
      <3>1. ASSUME NEW l \in 0..N, NEW r \in Rows, l < r PROVE chrthlds[<<l, r>>] >= 0
        <4>1. CASE l = r - 1
          BY <4>1 DEF Ordered, Unheld
        <4>2. CASE l + 1 < r
          BY <4>2 DEF Ordered, AllCounted, Counted
        <4> QED
          BY <3>1, <4>1, <4>2 DEF Rows
      <3>2. \A s \in Spans : s = <<s[1], s[2]>> /\ s[1] \in 0..N /\ s[2] \in Rows /\ s[1] < s[2]
        BY DEF Spans, Rows
      <3>3. \A s \in Spans : chrthlds[s] >= 0
        BY <3>1, <3>2
      <3> QED
        BY <3>3 DEF Shape, AtMostTwo
    <2>2. active_rows \in Nat
      <3>1. Owing \in SUBSET Rows /\ Adding \in 0..1 /\ active_rows \in Int
        BY DEF Owing, Adding, Shape
      <3>2. Cardinality(Owing) \in Nat
        BY <3>1, RowsFinite
      <3> QED
        BY <3>1, <3>2 DEF Throttled
    <2>3. abort \in BOOLEAN /\ failed \in BOOLEAN
      BY DEF Shape
    <2>4. done \in SUBSET Spans /\ right \in 1..N + 1 /\ left \in [Rows -> 0..N] /\ \A r \in Rows : left[r] < r
      BY DEF Shape
    <2>5. Places
      BY DEF Shape
    <2> QED
      BY <2>1, <2>2, <2>3, <2>4, <2>5 DEF TypeOK, Places, Sending
  <1> QED
    BY <1>1, <1>2, <1>3, ShapeInv, SendingInv, OrderedInv, ThrottledInv, PTL DEF Spec
-----------------------------------------------------------------------------
(* Until spanpool.wait() comes back, a row that did not finish leaves a trace: *)
(* the pool's exception, the abort flag, or a row on its way to the pool.      *)

Waiting == {"jobs", "jobs_asleep", "pool_wait"}
Parsing == pc[0] \in Looping \cup Waiting

Reported ==
    /\ abort => failed \/ \E r \in Rows : pc[r] \in Aborting
    /\ \A r \in Rows : pc[r] = "dropped" => failed
    /\ \A r \in Rows : pc[r] = "ended" => <<0, r>> \in done \/ failed \/ abort
    /\ pc[0] \in Waiting => right = N + 1 \/ abort

(* While the main thread parses, the flags are only ever raised, and abort by a row. *)
LEMMA FlagSteps ==
    ASSUME Shape, Sending, [Next]_vars, Parsing'
    PROVE  /\ Parsing
           /\ failed => failed'
           /\ abort => abort'
           /\ abort' => abort \/ \E r \in Rows : pc'[r] = "abort_rows"
  <1> USE RowsAssumption
  <1>0. Places /\ 0 \in 0..N
    BY DEF Shape
  <1>1. CASE UNCHANGED vars
    <2>1. Parsing
      BY <1>1 DEF vars, Parsing
    <2>2. abort' = abort /\ failed' = failed
      BY <1>1 DEF vars
    <2> QED
      BY <2>1, <2>2
  <1>2. CASE Next
    <2>1. ~PoolWait
      BY <1>0 DEF PoolWait, Goto, Places, Parsing, Looping, Waiting
    <2>2. Parsing
      <3>1. Throttle \/ Load \/ Add \/ Jobs => Parsing
        BY DEF Throttle, Load, Add, Jobs, Parsing, Looping, Waiting
      <3>2. pc'[0] \in {pc[0], Woken(pc[0])} \cup Past => Parsing
        BY DEF Woken, Past, Parsing, Looping, Waiting
      <3> QED
        BY <1>2, <2>1, <3>1, <3>2, MainSteps
    <2>3. failed' = failed \/ failed' = TRUE
      BY <1>2, <2>1 DEF Next, PoolTakes, PoolReports, decode_row, Compute, RowDone, ReleaseUp, NotifyUp,
           ReleaseLeft, Await, NotifyTotal, MutexGone, SortLost, PoolClears, decode_range, Throttle, Load, Add, Jobs, Finish,
           JoinPool, LoadThrows, send_abort, AbortSet, AbortRow, AbortLast, Spurious
    <2>4. abort' = abort \/ \E p \in 0..N : AbortSet(p)
      BY <1>2 DEF Next, PoolTakes, PoolReports, decode_row, Compute, RowDone, ReleaseUp, NotifyUp, ReleaseLeft,
           Await, NotifyTotal, MutexGone, SortLost, PoolClears, decode_range, Throttle, Load, Add, Jobs, PoolWait, Finish,
           JoinPool, LoadThrows, send_abort, AbortRow, AbortLast, Spurious
    <2>5. ASSUME NEW p \in 0..N, AbortSet(p) PROVE abort' = TRUE /\ p \in Rows /\ pc'[p] = "abort_rows"
      <3>1. abort' = TRUE /\ pc'[p] = "abort_rows"
        BY <1>0, <2>5 DEF AbortSet, Goto, Places
      <3>2. p # 0
        BY <3>1 DEF Parsing, Looping, Waiting
      <3> QED
        BY <3>1, <3>2 DEF Rows
    <2>6. (abort => abort') /\ (abort' => abort \/ \E r \in Rows : pc'[r] = "abort_rows")
      <3>1. CASE abort' = abort
        BY <3>1
      <3>2. CASE \E p \in 0..N : AbortSet(p)
        BY <2>5, <3>2
      <3> QED
        BY <2>4, <3>1, <3>2
    <2> QED
      BY <2>2, <2>3, <2>6
  <1> QED
    BY <1>1, <1>2

(* Until spanpool.wait() comes back no trace of an unfinished row is wiped out. *)
LEMMA ReportedNext ==
    ASSUME Shape, Sending, AllSettled, Parsing => Reported, [Next]_vars
    PROVE  Parsing' => Reported'
  <1> SUFFICES ASSUME Parsing' PROVE Reported'
    OBVIOUS
  <1> USE RowsAssumption
  <1>1. /\ Reported
        /\ failed => failed'
        /\ abort => abort'
        /\ abort' => abort \/ \E r \in Rows : pc'[r] = "abort_rows"
    BY FlagSteps
  <1>2. \A r \in Rows : RowStep(r) /\ Settled(r) /\ Position(r)
    BY AllRowSteps DEF RowSteps, AllSettled, Shape
  <1>3. done \subseteq done'
    BY AllSteps DEF Steps, Quiet, Loud, Computes, Passes, PaysUp, PaysLeft, GoesOn
  <1>4. abort' => failed' \/ \E r \in Rows : pc'[r] \in Aborting
    <2>1. ASSUME NEW r \in Rows, pc[r] \in Aborting PROVE failed' \/ pc'[r] \in Aborting
      BY <1>2, <2>1 DEF RowStep, QuietMove, LoudMove, Aborting
    <2> QED
      BY <1>1, <2>1 DEF Reported, Aborting
  <1>5. ASSUME NEW r \in Rows, pc'[r] = "dropped" PROVE failed'
    <2>1. pc[r] = "dropped" \/ failed
      BY <1>2, <1>5 DEF RowStep, QuietMove, LoudMove, Aborting, ToUp, ToLeft
    <2> QED
      BY <1>1, <2>1 DEF Reported
  <1>6. ASSUME NEW r \in Rows, pc'[r] = "ended" PROVE <<0, r>> \in done' \/ failed' \/ abort'
    <2>1. RowStep(r) /\ Position(r) /\ left[r] \in 0..N
      BY <1>2 DEF Shape
    <2>2. \/ pc[r] = "ended"
          \/ abort
          \/ failed'
          \/ pc[r] \in After /\ left[r] = 0
      BY <1>6, <2>1 DEF RowStep, QuietMove, LoudMove, Aborting, ToUp, ToLeft, Position, After
    <2>3. pc[r] \in After /\ left[r] = 0 => <<0, r>> \in done
      BY <1>2 DEF Settled
    <2>4. pc[r] = "ended" => <<0, r>> \in done \/ failed \/ abort
      BY <1>1 DEF Reported
    <2> QED
      BY <1>1, <1>3, <2>2, <2>3, <2>4
  <1>7. ASSUME pc'[0] \in Waiting PROVE right' = N + 1 \/ abort'
    <2>0. Places /\ 0 \in 0..N /\ 0 \notin Rows /\ right \in 1..N + 1
      BY DEF Shape, Rows
    <2>1. CASE UNCHANGED vars
      BY <1>1, <1>7, <2>1 DEF vars, Reported
    <2>2. CASE Throttle
      <3>1. abort
        BY <1>7, <2>0, <2>2 DEF Throttle, Goto, Places, Waiting
      <3> QED
        BY <1>1, <3>1
    <2>3. CASE Add
      <3>1. right \in Rows /\ right' = right + 1 /\ pc'[0] = IF right = N THEN "jobs" ELSE "throttle"
        BY <2>0, <2>3 DEF Add, Shape, Places, Looping, Rows
      <3>2. right = N
        BY <1>7, <3>1 DEF Waiting
      <3> QED
        BY <3>1, <3>2
    <2>4. CASE Next /\ ~Throttle /\ ~Add
      <3>1. ~Load /\ ~PoolWait
        BY <1>7, <2>0 DEF Load, PoolWait, Goto, Places, Waiting
      <3>2. pc[0] \in Waiting
        <4>1. Jobs => pc[0] \in Waiting
          BY DEF Jobs, Waiting
        <4>2. pc'[0] \in {pc[0], Woken(pc[0])} \cup Past => pc[0] \in Waiting
          BY <1>7 DEF Woken, Past, Waiting
        <4> QED
          BY <2>4, <3>1, <4>1, <4>2, MainSteps
      <3>3. right' = right
        BY <2>4, MainLoop
      <3>4. right = N + 1 \/ abort
        BY <1>1, <3>2 DEF Reported
      <3> QED
        BY <1>1, <3>3, <3>4
    <2> QED
      BY <2>1, <2>2, <2>3, <2>4
  <1> QED
    BY <1>4, <1>5, <1>6, <1>7 DEF Reported

(* When spanpool.wait() finds no exception, every row has been through its last span. *)
LEMMA FullAtWait ==
    ASSUME Shape, Closed, Reported, PoolWait, ~failed
    PROVE  done = Spans
  <1> USE RowsAssumption
  <1>1. \A r \in Rows : pc[r] \in {"ended", "dropped", "new"}
    BY DEF PoolWait, Over
  <1>2. ~abort
    BY <1>1 DEF Reported, Aborting
  <1>3. right = N + 1
    BY <1>2 DEF Reported, PoolWait, Waiting
  <1>4. ASSUME NEW r \in Rows PROVE <<0, r>> \in done
    <2>1. pc[r] # "new"
      BY <1>3 DEF Shape, Rows
    <2>2. pc[r] = "ended"
      BY <1>1, <2>1 DEF Reported
    <2> QED
      BY <1>2, <2>2 DEF Reported
  <1>5. ASSUME NEW s \in Spans PROVE s \in done
    <2>1. s = <<s[1], s[2]>> /\ s[1] \in 0..N /\ s[2] \in Rows
      BY DEF Spans, Rows
    <2>2. s = <<0, s[2]>> \/ Inside(s, <<0, s[2]>>)
      BY <2>1 DEF Inside, Rows
    <2> QED
      BY <1>4, <2>1, <2>2 DEF Closed
  <1> QED
    BY <1>5 DEF Shape

(* decode_range returns without an exception only with the whole chart final, however *)
(* exceptions, aborts, the pool's cancelling of queued rows and its refusal of later  *)
(* ones fall together.                                                                *)
THEOREM NothingIsLostSilently == Spec => []NormalReturnMeansChartFull
  <1> DEFINE I == (Parsing => Reported) /\ NormalReturnMeansChartFull
  <1>1. Init => I
    <2> SUFFICES ASSUME Init PROVE I
      OBVIOUS
    <2>1. pc[0] = "throttle" /\ \A r \in Rows : pc[r] = "new"
      BY RowsAssumption DEF Init, Rows
    <2>2. ~abort
      BY DEF Init
    <2> QED
      BY <2>1, <2>2 DEF Reported, NormalReturnMeansChartFull, Waiting
  <1>2. Shape /\ Sending /\ Ordered /\ I /\ [Next]_vars => I'
    <2> SUFFICES ASSUME Shape, Sending, Ordered, I, [Next]_vars PROVE I'
      OBVIOUS
    <2>1. Parsing' => Reported'
      BY ReportedNext DEF Ordered
    <2>2. ASSUME pc'[0] = "returned" PROVE done' = Spans
      <3>0. Places /\ 0 \in 0..N
        BY RowsAssumption DEF Shape
      <3>1. done \subseteq done' /\ done' \subseteq Spans
        BY AllSteps, ShapeNext DEF Steps, Quiet, Loud, Computes, Passes, PaysUp, PaysLeft, GoesOn, Shape
      <3>2. CASE PoolWait
        <4>1. ~failed
          BY <2>2, <3>0, <3>2 DEF PoolWait, Goto, Places
        <4>2. Reported
          BY <3>2 DEF PoolWait, Parsing, Waiting
        <4>3. done = Spans
          BY <3>2, <4>1, <4>2, FullAtWait DEF Ordered
        <4> QED
          BY <3>1, <4>3
      <3>3. CASE pc[0] = "returned"
        BY <3>1, <3>3 DEF NormalReturnMeansChartFull
      <3>4. ~Throttle /\ ~Load /\ ~Add /\ ~Jobs
        BY <2>2, <3>0 DEF Throttle, Load, Add, Jobs, Goto, Places
      <3>5. pc'[0] \in {pc[0], Woken(pc[0])} \cup Past => pc[0] = "returned"
        BY <2>2 DEF Woken, Past
      <3>6. UNCHANGED vars => pc[0] = "returned"
        BY <2>2 DEF vars
      <3> QED
        BY <3>2, <3>3, <3>4, <3>5, <3>6, MainSteps
    <2> QED
      BY <2>1, <2>2 DEF NormalReturnMeansChartFull
  <1>3. I => NormalReturnMeansChartFull
    OBVIOUS
  <1> QED
    BY <1>1, <1>2, <1>3, ShapeInv, SendingInv, OrderedInv, PTL DEF Spec
-----------------------------------------------------------------------------
(* The wakeups of the rows. *)

NotifyComing(r) == pc[r - 1] = "notify_up" /\ left[r - 1] = left[r] - 1

HeldAsleep ==
    \A r \in Rows : pc[r] = "asleep" => chrthlds[<<left[r] - 1, r>>] # 0 \/ NotifyComing(r)

AbortComing(r) == \E p \in 0..N : pc[p] = "abort_rows" /\ at[p] <= r

AbortedAsleep == \A r \in Rows : pc[r] = "asleep" /\ abort => AbortComing(r)

(* A row goes to sleep under its lock, and who takes the last hold notifies it. *)
LEMMA HeldAsleepNext == Shape /\ Sending /\ HeldAsleep /\ [Next]_vars => HeldAsleep'
  <1> SUFFICES ASSUME Shape, Sending, HeldAsleep, [Next]_vars, NEW r \in Rows, pc'[r] = "asleep"
               PROVE  \/ chrthlds'[<<left'[r] - 1, r>>] # 0
                      \/ pc'[r - 1] = "notify_up" /\ left'[r - 1] = left'[r] - 1
    BY DEF HeldAsleep, NotifyComing
  <1> USE RowsAssumption
  <1> DEFINE s == <<left[r] - 1, r>>
             q == r - 1
  <1>1. Steps /\ RowStep(r)
    BY AllSteps, AllRowSteps DEF RowSteps
  <1>2. left'[r] = left[r] /\ QuietMove(r)
    BY <1>1 DEF RowStep, LoudMove, ToUp, ToLeft
  <1>3. chrthlds[s] # 0 \/ NotifyComing(r)
    BY <1>2 DEF QuietMove, Aborting, HeldAsleep
  <1>4. q \in Rows /\ s \in Spans /\ q # r /\ q + 1 = r /\ left[q] \in Int /\ left[r] \in Int
    <2>1. pc[r] \in {"await", "woken", "asleep"}
      BY <1>2 DEF QuietMove, Aborting
    <2>2. left[r] > 0 /\ left[r] < r /\ left[r] \in 0..N
      BY <2>1 DEF Shape, Position
    <2> QED
      BY <2>2 DEF Rows, Spans, Shape
  <1>5. chrthlds \in [Spans -> Int] /\ left \in [Rows -> 0..N]
    BY DEF Shape
  <1>6. CASE Quiet
    <2>1. UNCHANGED <<chrthlds, left>> /\ QuietMove(q)
      BY <1>4, <1>6 DEF Quiet
    <2>2. pc[q] = "notify_up" => pc'[q] = "notify_up"
      BY <2>1 DEF QuietMove
    <2> QED
      BY <1>3, <2>1, <2>2 DEF NotifyComing
  <1>7. ASSUME NEW p \in Rows, Loud(p)
        PROVE  chrthlds'[s] # 0 \/ (pc'[q] = "notify_up" /\ left'[q] = left[r] - 1)
    <2>1. p # r
      BY <1>7 DEF Loud, Computes, Passes, PaysUp, PaysLeft, GoesOn, Advances, ToUp, ToLeft
    <2>2. CASE NotifyComing(r)
      <3>1. p # q
        BY <1>4, <1>7, <2>2 DEF Loud, Computes, Passes, PaysUp, PaysLeft, GoesOn, NotifyComing
      <3>2. pc'[q] = pc[q]
        BY <1>4, <1>7, <2>2, <3>1 DEF Loud, QuietMove, NotifyComing
      <3>3. left'[q] = left[q]
        BY <1>4, <1>5, <1>7, <3>1 DEF Loud, Computes, Passes, PaysUp, PaysLeft, GoesOn, Advances
      <3> QED
        BY <2>2, <3>2, <3>3 DEF NotifyComing
    <2>3. CASE chrthlds[s] # 0 /\ PaysUp(p)
      <3>1. CASE left[p] = left[r] - 1 /\ p = q
        <4>1. s = <<left[p], p + 1>> /\ left' = left
          BY <1>4, <2>3, <3>1 DEF PaysUp
        <4> QED
          BY <2>3, <3>1, <4>1 DEF PaysUp
      <3>2. CASE ~(left[p] = left[r] - 1 /\ p = q)
        <4>1. <<left[p], p + 1>> # s
          BY <1>4, <3>2 DEF Rows
        <4> QED
          BY <1>4, <1>5, <2>3, <4>1 DEF PaysUp
      <3> QED
        BY <3>1, <3>2
    <2>4. CASE chrthlds[s] # 0 /\ PaysLeft(p)
      <3>1. <<left[p] - 1, p>> # s
        BY <2>1
      <3> QED
        BY <1>4, <1>5, <2>4, <3>1 DEF PaysLeft
    <2>5. CASE chrthlds[s] # 0 /\ UNCHANGED chrthlds
      BY <2>5
    <2> QED
      BY <1>3, <1>7, <2>2, <2>3, <2>4, <2>5 DEF Loud, Computes, Passes, GoesOn
  <1> QED
    BY <1>1, <1>2, <1>6, <1>7 DEF Steps

(* send_abort() goes on to the rows it has not notified. *)
LEMMA SenderStays ==
    ASSUME Shape, Sending, Next, NEW p \in 0..N, pc[p] = "abort_rows"
    PROVE  AbortRow(p) \/ (pc'[p] = "abort_rows" /\ at'[p] = at[p])
  <1> USE RowsAssumption
  <1>0. 0 \in 0..N /\ Rows \subseteq 0..N /\ pc \in [0..N -> RowPC \cup MainPC]
    BY DEF Rows, Places, Shape
  <1>1. ASSUME NEW x, NEW c, pc[x] # "abort_rows", Goto(x, c) PROVE pc'[p] = "abort_rows"
    BY <1>0, <1>1 DEF Goto
  <1>2. \A r \in Rows : PoolTakes(r) \/ PoolReports(r) \/ Compute(r) \/ ReleaseUp(r) \/ ReleaseLeft(r)
                         \/ Await(r) \/ MutexGone(r) \/ SortLost(r) => pc'[p] = "abort_rows" /\ at' = at
    BY <1>1 DEF PoolTakes, PoolReports, Compute, ReleaseUp, ReleaseLeft, Await, MutexGone, SortLost, NextSpan
  <1>3. Throttle \/ Load \/ LoadThrows \/ Jobs \/ PoolWait \/ Finish \/ JoinPool
            => pc'[p] = "abort_rows" /\ at' = at
    BY <1>1 DEF Throttle, Load, LoadThrows, Jobs, PoolWait, Finish, JoinPool, Destroyed
  <1>4. \A r \in Rows : RowDone(r) \/ NotifyUp(r) \/ NotifyTotal(r) => pc'[p] = "abort_rows" /\ at' = at
    BY <1>0 DEF RowDone, NotifyUp, NotifyTotal, Notified
  <1>5. PoolClears => pc'[p] = "abort_rows" /\ at' = at
    BY <1>0 DEF PoolClears
  <1>6. Add => pc'[p] = "abort_rows" /\ at' = at
    <2>1. Add => right \in Rows /\ pc[right] = "new"
      BY DEF Add, Shape, Looping, Rows
    <2> QED
      BY <1>0, <2>1 DEF Add
  <1>7. \A x \in 0..N : Spurious(x) => pc'[p] = "abort_rows" /\ at' = at
    BY <1>1 DEF Spurious, Sleeping
  <1>8. \A x \in 0..N : AbortLast(x) => pc'[p] = "abort_rows" /\ at' = at
    BY <1>0 DEF AbortLast, Woken
  <1>9. \A x \in 0..N : AbortSet(x) => pc'[p] = "abort_rows" /\ at'[p] = at[p]
    BY <1>1 DEF AbortSet, Sending
  <1>10. \A x \in 0..N \ {p} : AbortRow(x) => pc'[p] = "abort_rows" /\ at'[p] = at[p]
    BY <1>0 DEF AbortRow, Notified, Sending
  <1> QED
    BY <1>2, <1>3, <1>4, <1>5, <1>6, <1>7, <1>8, <1>9, <1>10 DEF Next, decode_row, decode_range, send_abort

(* A row does not go to sleep after an abort, and send_abort() gets to the sleeping ones. *)
LEMMA AbortedAsleepNext == Shape /\ Sending /\ AbortedAsleep /\ [Next]_vars => AbortedAsleep'
  <1> SUFFICES ASSUME Shape, Sending, AbortedAsleep, [Next]_vars, NEW r \in Rows, pc'[r] = "asleep", abort'
               PROVE  AbortComing(r)'
    BY DEF AbortedAsleep
  <1> USE RowsAssumption
  <1>0. /\ 0 \in 0..N /\ Rows \subseteq 0..N /\ pc \in [0..N -> RowPC \cup MainPC]
        /\ r \in 1..N /\ N \in Int
    BY DEF Rows, Shape, Places
  <1>1. CASE UNCHANGED vars
    BY <1>1 DEF vars, AbortedAsleep, AbortComing
  <1>2. ASSUME NEW p \in 0..N, AbortSet(p) PROVE AbortComing(r)'
    <2>1. pc'[p] = "abort_rows" /\ at'[p] = 1
      BY <1>0, <1>2 DEF AbortSet, Goto, Sending
    <2> QED
      BY <1>0, <2>1 DEF AbortComing
  <1>3. CASE Next /\ abort
    <2>1. RowStep(r)
      BY AllRowSteps DEF RowSteps
    <2>2. pc[r] = "asleep"
      BY <1>3, <2>1 DEF RowStep, QuietMove, LoudMove, Aborting, ToUp, ToLeft
    <2>3. PICK p \in 0..N : pc[p] = "abort_rows" /\ at[p] <= r
      BY <1>3, <2>2 DEF AbortedAsleep, AbortComing
    <2>4. CASE AbortRow(p)
      <3> DEFINE q == at[p]
      <3>1. q \in 1..N /\ p # r
        BY <2>2, <2>3 DEF Sending, Rows
      <3>2. q # r
        <4>1. q = r => pc'[r] = Notified("asleep", pc[r])
          BY <1>0, <2>4, <3>1 DEF AbortRow
        <4> QED
          BY <2>2, <4>1 DEF Notified, Woken
      <3>3. q < r
        BY <1>0, <2>3, <3>1, <3>2
      <3>4. at'[p] = q + 1
        BY <1>0, <2>4, <3>1, <3>3 DEF AbortRow, Sending
      <3>5. pc'[p] = "abort_rows"
        BY <1>0, <2>3, <2>4, <3>1, <3>3 DEF AbortRow, Notified
      <3>6. at'[p] <= r
        BY <1>0, <3>1, <3>3, <3>4
      <3> QED
        BY <3>5, <3>6 DEF AbortComing
    <2>5. CASE pc'[p] = "abort_rows" /\ at'[p] = at[p]
      BY <2>3, <2>5 DEF AbortComing
    <2> QED
      BY <1>3, <2>3, <2>4, <2>5, SenderStays
  <1>4. UNCHANGED vars \/ abort' = abort \/ \E p \in 0..N : AbortSet(p)
    BY DEF Next, PoolTakes, PoolReports, decode_row, Compute, RowDone, ReleaseUp, NotifyUp, ReleaseLeft,
           Await, NotifyTotal, MutexGone, SortLost, PoolClears, decode_range, Throttle, Load, Add, Jobs, PoolWait, Finish,
           JoinPool, LoadThrows, send_abort, AbortRow, AbortLast, Spurious
  <1> QED
    BY <1>1, <1>2, <1>3, <1>4

(* No wakeup of a row is lost, for any number of rows: while decode_row sleeps, its next *)
(* span is held or the row below is about to notify it, and an abort that was sent has   *)
(* not passed it by.                                                                     *)
THEOREM NoLostWakeup == Spec => []RowSleepsForAReason
  <1>1. Init => HeldAsleep /\ AbortedAsleep
    BY RowsAssumption DEF Init, HeldAsleep, AbortedAsleep, Rows
  <1>2. Shape /\ Sending /\ HeldAsleep /\ AbortedAsleep /\ [Next]_vars => (HeldAsleep /\ AbortedAsleep)'
    BY HeldAsleepNext, AbortedAsleepNext
  <1>3. HeldAsleep /\ AbortedAsleep => RowSleepsForAReason
    BY DEF HeldAsleep, AbortedAsleep, NotifyComing, AbortComing, RowSleepsForAReason
  <1> QED
    BY <1>1, <1>2, <1>3, ShapeInv, SendingInv, PTL DEF Spec
-----------------------------------------------------------------------------
(* The destructor's pass over the rows: behind it nobody is asleep. *)

Passed ==
    /\ pc[0] = "abort_rows" => abort /\ \A r \in Rows : r < at[0] => pc[r] # "asleep"
    /\ pc[0] \in {"abort_last", "destroyed", "gone"} => abort /\ \A r \in Rows : pc[r] # "asleep"

(* The main thread comes to the end of its destructor one step at a time. *)
LEMMA EndSteps ==
    ASSUME Shape, Sending, Next, pc'[0] \in {"abort_rows", "abort_last", "destroyed", "gone"}
    PROVE  \/ AbortSet(0) \/ AbortRow(0)
           \/ pc'[0] = pc[0] /\ pc[0] # "abort_rows"
           \/ pc'[0] = pc[0] /\ at'[0] = at[0]
           \/ pc[0] \in {"abort_last", "destroyed"} /\ pc'[0] \in {"destroyed", "gone"}
  <1> USE RowsAssumption
  <1> DEFINE G == \/ AbortSet(0) \/ AbortRow(0)
                  \/ pc'[0] = pc[0]
                  \/ pc[0] \in {"abort_last", "destroyed"} /\ pc'[0] \in {"destroyed", "gone"}
  <1>0. Places /\ 0 \in 0..N /\ 0 \notin Rows /\ Rows \subseteq 0..N
    BY DEF Shape, Rows
  <1>1. pc'[0] \in {pc[0], Woken(pc[0])} => pc'[0] = pc[0]
    BY <1>0 DEF Woken, Places, MainPC
  <1>2. ~Throttle /\ ~Load /\ ~LoadThrows /\ ~Jobs /\ ~PoolWait /\ ~Finish
    BY <1>0 DEF Throttle, Load, LoadThrows, Jobs, PoolWait, Finish, Goto, Places
  <1>3. ~Add
    <2>1. Add => right \in Rows
      BY DEF Add, Shape, Looping, Rows
    <2> QED
      BY <1>0, <2>1 DEF Add, Places
  <1>4. JoinPool => G
    BY <1>0 DEF JoinPool, Goto, Places, Destroyed
  <1>5. \A r \in Rows : PoolTakes(r) \/ PoolReports(r) \/ Compute(r) \/ ReleaseUp(r) \/ ReleaseLeft(r)
                        \/ Await(r) \/ MutexGone(r) \/ SortLost(r) => pc'[0] = pc[0]
    <2>1. ASSUME NEW r \in Rows, NEW c, Goto(r, c) PROVE pc'[0] = pc[0]
      BY <1>0, <2>1 DEF Goto, Places
    <2> QED
      BY <2>1 DEF PoolTakes, PoolReports, Compute, ReleaseUp, ReleaseLeft, NextSpan, Await, MutexGone, SortLost
  <1>6. \A r \in Rows : RowDone(r) \/ NotifyTotal(r) => pc'[0] \in {pc[0], Woken(pc[0])}
    BY <1>0 DEF RowDone, NotifyTotal, Notified, Places
  <1>7. \A r \in Rows : NotifyUp(r) => pc'[0] = pc[0]
    BY <1>0 DEF NotifyUp, Places, Shape, Position, Rows
  <1>8. PoolClears => pc'[0] = pc[0]
    BY <1>0 DEF PoolClears, Places
  <1>9. ASSUME NEW p \in 0..N, send_abort(p) \/ Spurious(p) PROVE G
    <2>1. CASE p = 0
      <3>1. AbortLast(0) => G
        BY <1>0 DEF AbortLast, Places
      <3>2. Spurious(0) => pc'[0] = Woken(pc[0])
        BY <1>0 DEF Spurious, Goto, Places
      <3> QED
        BY <1>1, <1>9, <2>1, <3>1, <3>2 DEF send_abort
    <2>2. CASE p \in Rows
      <3>1. AbortSet(p) \/ Spurious(p) => pc'[0] = pc[0]
        BY <1>0, <2>2 DEF AbortSet, Spurious, Goto, Places
      <3>2. AbortLast(p) => pc'[0] \in {pc[0], Woken(pc[0])}
        BY <1>0, <2>2 DEF AbortLast, Places
      <3>3. AbortRow(p) => pc'[0] = pc[0]
        <4>1. at[p] \in Rows
          BY DEF Sending
        <4> QED
          BY <1>0, <2>2, <4>1 DEF AbortRow, Places
      <3> QED
        BY <1>1, <1>9, <3>1, <3>2, <3>3 DEF send_abort
    <2> QED
      BY <2>1, <2>2 DEF Rows
  <1>10. G
    BY <1>1, <1>2, <1>3, <1>4, <1>5, <1>6, <1>7, <1>8, <1>9 DEF Next, decode_row, decode_range
  <1> QED
    BY <1>0, <1>10, SenderStays

(* Nobody falls asleep behind the destructor's pass, which raised the flag first. *)
LEMMA PassedNext == Shape /\ Sending /\ Passed /\ [Next]_vars => Passed'
  <1> SUFFICES ASSUME Shape, Sending, Passed, [Next]_vars PROVE Passed'
    OBVIOUS
  <1> USE RowsAssumption
  <1>0. Places /\ 0 \in 0..N /\ 0 \notin Rows /\ Rows \subseteq 0..N
    BY DEF Shape, Rows
  <1>1. CASE UNCHANGED vars
    BY <1>1 DEF vars, Passed
  <1>2. CASE Next /\ pc'[0] \notin {"abort_rows", "abort_last", "destroyed", "gone"}
    BY <1>2 DEF Passed
  <1>3. CASE Next /\ pc'[0] \in {"abort_rows", "abort_last", "destroyed", "gone"}
    <2>1. ASSUME NEW r \in Rows, abort, pc[r] # "asleep" PROVE pc'[r] # "asleep"
      <3>1. RowStep(r)
        BY AllRowSteps DEF RowSteps
      <3> QED
        BY <2>1, <3>1 DEF RowStep, QuietMove, LoudMove, Aborting, ToUp, ToLeft
    <2>2. abort => abort'
      <3>1. abort' = abort \/ abort' = TRUE
        BY <1>3 DEF Next, PoolTakes, PoolReports, decode_row, Compute, RowDone, ReleaseUp, NotifyUp, ReleaseLeft,
           Await, NotifyTotal, MutexGone, SortLost, PoolClears, decode_range, Throttle, Load, Add, Jobs, PoolWait,
           Finish, JoinPool, LoadThrows, send_abort, AbortSet, AbortRow, AbortLast, Spurious
      <3> QED
        BY <3>1
    <2>3. CASE AbortSet(0)
      <3>1. pc'[0] = "abort_rows" /\ at'[0] = 1
        BY <1>0, <2>3 DEF AbortSet, Goto, Places, Sending
      <3>2. abort'
        BY <2>3 DEF AbortSet
      <3>3. \A r \in Rows : ~(r < 1)
        BY DEF Rows
      <3> QED
        BY <3>1, <3>2, <3>3 DEF Passed
    <2>4. CASE AbortRow(0)
      <3> DEFINE q == at[0]
      <3>1. q \in Rows /\ pc[0] = "abort_rows"
        BY <2>4 DEF AbortRow, Sending
      <3>2. abort' /\ \A r \in Rows : r < q => pc'[r] # "asleep"
        BY <2>1, <2>2, <3>1 DEF Passed
      <3>3. pc'[q] # "asleep"
        <4>1. pc'[q] = Notified("asleep", pc[q])
          BY <1>0, <2>4, <3>1 DEF AbortRow, Places
        <4> QED
          BY <4>1 DEF Notified, Woken
      <3>4. CASE q = N
        <4>1. pc'[0] = "abort_last" /\ \A r \in Rows : pc'[r] # "asleep"
          <5>1. \A r \in Rows : r < q \/ r = q
            BY <3>4 DEF Rows
          <5>2. pc'[0] = "abort_last"
            BY <1>0, <2>4, <3>4 DEF AbortRow, Places
          <5> QED
            BY <3>2, <3>3, <5>1, <5>2
        <4> QED
          BY <3>2, <4>1 DEF Passed
      <3>5. CASE q # N
        <4>1. at'[0] = q + 1
          BY <1>0, <2>4, <3>5 DEF AbortRow, Sending
        <4>2. pc'[0] = "abort_rows"
          BY <1>0, <2>4, <3>1, <3>5 DEF AbortRow, Places
        <4>3. \A r \in Rows : r < q + 1 => r < q \/ r = q
          BY <3>1 DEF Rows
        <4> QED
          BY <3>2, <3>3, <4>1, <4>2, <4>3 DEF Passed
      <3> QED
        BY <3>4, <3>5
    <2>5. CASE pc'[0] = pc[0] /\ pc[0] # "abort_rows"
      BY <1>3, <2>1, <2>2, <2>5 DEF Passed
    <2>6. CASE pc'[0] = pc[0] /\ at'[0] = at[0]
      BY <1>3, <2>1, <2>2, <2>6 DEF Passed
    <2>7. CASE pc[0] \in {"abort_last", "destroyed"} /\ pc'[0] \in {"destroyed", "gone"}
      BY <2>1, <2>2, <2>7 DEF Passed
    <2> QED
      BY <1>3, <2>3, <2>4, <2>5, <2>6, <2>7, EndSteps
  <1> QED
    BY <1>1, <1>2, <1>3

(* Whatever throws, in a row or in the load of a grammar cluster, and however the rows *)
(* interleave with ~decode_data(): when it goes on from its send_abort() to destroy    *)
(* and join the pools, no row sleeps on its condition, so that the join waits for none *)
(* of them.                                                                            *)
THEOREM DestructorWakesEveryRow == Spec => []NobodySleepsOnDestroyed
  <1>1. Init => Passed
    BY RowsAssumption DEF Init, Passed
  <1>2. Passed => NobodySleepsOnDestroyed
    BY DEF Passed, NobodySleepsOnDestroyed
  <1> QED
    BY <1>1, <1>2, PassedNext, ShapeInv, SendingInv, PTL DEF Spec
=============================================================================
