------------------------------ MODULE JobBatch ------------------------------
(***************************************************************************)
(* What sbmt::thread_pool promises its one controlling thread, without     *)
(* threads, locks or condition variables (the class comments of            *)
(* sbmt/hash/thread_pool.hpp).                                             *)
(*                                                                         *)
(* Jobs are submitted, begin, and end well or with an exception.  Once an  *)
(* exception has been seen (failed) the jobs that have not begun may be    *)
(* cancelled.  wait() and join() return only when nothing is left to do,   *)
(* and return normally only when nothing failed.                           *)
(***************************************************************************)
EXTENDS Naturals

CONSTANT Jobs

VARIABLES
    status,     \* status[j]: how far job j has come
    failed,     \* an exception waits to be raised by wait() or join()
    phase       \* what the last call of wait() or join() did

vars == <<status, failed, phase>>

Status == {"new", "pending", "running", "ok", "threw", "cancelled"}

Phase == {"open", "returned", "raised", "closed"}

TypeOK ==
    /\ status \in [Jobs -> Status]
    /\ failed \in BOOLEAN
    /\ phase \in Phase

(* Nothing is left to do: no job waits and no job runs. *)
Quiet == \A j \in Jobs : status[j] \notin {"pending", "running"}

Init ==
    /\ status = [j \in Jobs |-> "new"]
    /\ failed = FALSE
    /\ phase = "open"

(* A job is accepted, or refused because an exception waits to be raised. *)
Submit(j) ==
    /\ phase # "closed"
    /\ status[j] = "new"
    /\ \/ status' = [status EXCEPT ![j] = "pending"]
       \/ failed /\ status' = [status EXCEPT ![j] = "cancelled"]
    /\ phase' = "open"
    /\ UNCHANGED failed

Begin(j) ==
    /\ status[j] = "pending"
    /\ status' = [status EXCEPT ![j] = "running"]
    /\ UNCHANGED <<failed, phase>>

(* A job ends.  An exception of its own is to be raised; so may be one that  *)
(* an earlier job threw.                                                     *)
End(j) ==
    /\ status[j] = "running"
    /\ \E s \in {"ok", "threw"} : status' = [status EXCEPT ![j] = s]
    /\ failed' \in BOOLEAN
    /\ failed \/ status'[j] = "threw" => failed'
    /\ failed' => \E k \in Jobs : status'[k] = "threw"
    /\ UNCHANGED phase

Cancel ==
    /\ failed
    /\ status' = [j \in Jobs |-> IF status[j] = "pending" THEN "cancelled" ELSE status[j]]
    /\ UNCHANGED <<failed, phase>>

(* The next call of add(), wait() or join() begins. *)
Call ==
    /\ phase \in {"returned", "raised"}
    /\ phase' = "open"
    /\ UNCHANGED <<status, failed>>

(* wait() comes back: with the exception if there is one. *)
Return ==
    /\ phase # "closed"
    /\ Quiet
    /\ phase' = IF failed THEN "raised" ELSE "returned"
    /\ failed' = FALSE
    /\ UNCHANGED status

(* The pool is gone: join(), the destructor, or a constructor that failed. *)
Close ==
    /\ phase # "closed"
    /\ Quiet
    /\ phase' = "closed"
    /\ failed' \in {failed, FALSE}
    /\ UNCHANGED status

Next ==
    \/ \E j \in Jobs : Submit(j) \/ Begin(j) \/ End(j)
    \/ Cancel \/ Call \/ Return \/ Close

Spec == Init /\ [][Next]_vars
=============================================================================
