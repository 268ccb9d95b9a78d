------------------------------ MODULE Trainer -------------------------------
(***************************************************************************)
(* The parallel trainer of mira/trainer.py over mira/parallel.py.  In each *)
(* epoch the master hands the training sentences to the slaves (pmap), the *)
(* slaves learn from what they decode and send what they learned from to   *)
(* each other, the weights of all updates are averaged, and the held-out   *)
(* sentences are decoded with the average (pmap again).  Each process ends *)
(* when it sees the stop file.                                             *)
(*                                                                         *)
(* Learning rates, hypotheses and scores are left out: a vector of weights *)
(* is a fraction <<numerator, denominator>>, and an optimisation over k    *)
(* sentences adds Delta(k).                                                *)
(***************************************************************************)
EXTENDS Integers, Sequences, FiniteSets, FiniteSetsExt, SequencesExt

CONSTANTS
    Slaves,
    Train, Heldout,         \* numbers of sentences
    Iterations,             \* bound on the epochs
    TrainLimit, HeldoutLimit,   \* consecutive decoder errors that are passed on
    MaxFailures,            \* bound on the sentences that are not decoded
    InitialWeights, Delta(_)

ASSUME TrainerAssumption ==
    /\ IsFiniteSet(Slaves) /\ Slaves # {}
    /\ {Train, Heldout, MaxFailures} \subseteq Nat
    /\ {Iterations, TrainLimit, HeldoutLimit} \subseteq Nat \ {0}
    /\ InitialWeights \in Int /\ \A k \in 1..Cardinality(Slaves) * (Train * Iterations) + 1 : Delta(k) \in Int

VARIABLES
    (* The master. *)
    at, phase, epoch,       \* where it is; "train" or "heldout"; the epoch
    order, next, idle, busy, output, flushed, yielded,  \* pmap_master()
    outweights,
    (* The slaves. *)
    pc, job,                \* where a slave is, in which part of which epoch; its sentence
    weights, saveweights, sumweights_helper, nweights, decoder_errors,
    (* Messages: tag 0 to and from the slaves, tag 1 between them, gather and bcast. *)
    tosend, replies, updates, gathered, broadcast,
    stopfile,
    (* For the properties only. *)
    trained,    \* the weights after each update of a slave: their sum and the last of them
    split,      \* the stop file appeared when some process had passed the end of the epoch
    failures

pmap == <<order, next, idle, busy, output, flushed, yielded>>
master == <<at, phase, epoch, outweights>>
learned == <<weights, saveweights, sumweights_helper, nweights, trained>>
messages == <<tosend, replies, updates, gathered, broadcast>>
file == <<stopfile, split>>
vars == <<master, pmap, pc, job, learned, decoder_errors, failures, messages, file>>

nothing == <<>>
Die == 0
Phases == {"train", "heldout"}
Result == [sent : Nat, phase : Phases, epoch : 1..Iterations, weights : Int \X Nat]

TypeOK ==
    /\ at \in {"pmap", "gather", "out"} /\ phase \in Phases /\ epoch \in 1..Iterations
    /\ next \in Nat /\ flushed \in Nat /\ output \subseteq Nat \X Result
    /\ idle \cup DOMAIN busy \subseteq Slaves /\ idle \cap DOMAIN busy = {}
    /\ yielded \in Seq(Result) /\ outweights \in Int \X Nat
    /\ pc \in [Slaves -> {"recv", "work", "gather", "bcast", "end", "out", "raised"}]
    /\ job \in [Slaves -> [sent : Nat, phase : Phases, epoch : 1..Iterations]]
    /\ weights \in [Slaves -> Int \X Nat] /\ saveweights \in [Slaves -> Int \X Nat]
    /\ sumweights_helper \in [Slaves -> Int] /\ nweights \in [Slaves -> Nat]
    /\ decoder_errors \in [Slaves -> Nat]
    /\ {stopfile, split} \subseteq BOOLEAN

StartPmap(o) ==
    /\ order' = o /\ next' = 1 /\ idle' = Slaves /\ busy' = nothing
    /\ output' = {} /\ flushed' = 0 /\ yielded' = nothing

InOrder(n) == [i \in 1..n |-> i]

Shuffles == {o \in [1..Train -> 1..Train] : IsInjective(o)}

Init ==
    /\ at = "pmap" /\ phase = "train" /\ epoch = 1 /\ outweights = <<0, 0>>
    /\ order \in Shuffles /\ next = 1 /\ idle = Slaves /\ busy = nothing
    /\ output = {} /\ flushed = 0 /\ yielded = nothing
    /\ pc = [s \in Slaves |-> "recv"]
    /\ job = [s \in Slaves |-> [sent |-> Die, phase |-> "train", epoch |-> 1]]
    /\ weights = [s \in Slaves |-> <<InitialWeights, 1>>] /\ saveweights = weights
    /\ sumweights_helper = [s \in Slaves |-> 0] /\ nweights = [s \in Slaves |-> 0]
    /\ trained = [s \in Slaves |-> [sum |-> 0, last |-> InitialWeights]]
    /\ decoder_errors = [s \in Slaves |-> 0] /\ failures = 0
    /\ tosend = [s \in Slaves |-> nothing] /\ replies = [s \in Slaves |-> nothing]
    /\ updates = [s \in Slaves |-> {}]
    /\ gathered = [s \in Slaves |-> nothing] /\ broadcast = [s \in Slaves |-> nothing]
    /\ stopfile = FALSE /\ split = FALSE
-----------------------------------------------------------------------------
(* pmap_master(). *)

(* Mutation: a node for which nothing is left is not told. *)
SendForgets(s) ==
    /\ at = "pmap" /\ s \in idle
    /\ idle' = idle \ {s}
    /\ \/ next > Len(order) /\ UNCHANGED <<next, busy, tosend>>
       \/ /\ next <= Len(order)
          /\ tosend' = [tosend EXCEPT ![s] = Append(@, order[next])]
          /\ next' = next + 1
          /\ busy' = [t \in DOMAIN busy \cup {s} |-> IF t = s THEN next ELSE busy[t]]
    /\ UNCHANGED <<order, output, flushed, yielded, master, pc, job, learned, decoder_errors,
                   failures, replies, updates, gathered, broadcast, file>>

Send(s) ==
    /\ at = "pmap" /\ s \in idle
    /\ idle' = idle \ {s}
    /\ \/ /\ next > Len(order)
          /\ tosend' = [tosend EXCEPT ![s] = Append(@, Die)]
          /\ UNCHANGED <<next, busy>>
       \/ /\ next <= Len(order)
          /\ tosend' = [tosend EXCEPT ![s] = Append(@, order[next])]
          /\ next' = next + 1
          /\ busy' = [t \in DOMAIN busy \cup {s} |-> IF t = s THEN next ELSE busy[t]]
    /\ UNCHANGED <<order, output, flushed, yielded, master, pc, job, learned, decoder_errors,
                   failures, replies, updates, gathered, broadcast, file>>

(* The result of input i is put into the heap, from which all results are    *)
(* yielded that follow the one that was yielded last.                        *)
Entry(heap, i) == CHOOSE e \in heap : e[1] = i

(* Mutation: what is in the heap is yielded at once. *)
FlushAll(heap) ==
    /\ output' = {} /\ flushed' = flushed + Cardinality(heap)
    /\ yielded' = yielded \o [k \in 1..Cardinality(heap) |-> (CHOOSE e \in heap : TRUE)[2]]

Flush(heap) ==
    LET Ready(n) == \A i \in flushed + 1..n : \E e \in heap : e[1] = i
        last == Max({n \in flushed..flushed + Cardinality(heap) : Ready(n)})
    IN  /\ output' = {e \in heap : e[1] > last}
        /\ flushed' = last
        /\ yielded' = yielded \o [k \in 1..last - flushed |-> Entry(heap, flushed + k)[2]]

(* Mutation: the node stays busy. *)
RecvKeepsBusy(s) ==
    /\ at = "pmap" /\ idle = {} /\ s \in DOMAIN busy /\ replies[s] # nothing
    /\ Flush(output \cup {<<busy[s], Head(replies[s])>>})
    /\ replies' = [replies EXCEPT ![s] = Tail(@)]
    /\ idle' = {s}
    /\ UNCHANGED <<order, next, busy, master, pc, job, learned, decoder_errors, failures,
                   tosend, updates, gathered, broadcast, file>>

Recv(s) ==
    /\ at = "pmap" /\ idle = {} /\ busy # nothing /\ replies[s] # nothing
    /\ Flush(output \cup {<<busy[s], Head(replies[s])>>})
    /\ replies' = [replies EXCEPT ![s] = Tail(@)]
    /\ busy' = Restrict(busy, DOMAIN busy \ {s})
    /\ idle' = {s}
    /\ UNCHANGED <<order, next, master, pc, job, learned, decoder_errors, failures,
                   tosend, updates, gathered, broadcast, file>>
-----------------------------------------------------------------------------
(* The master's part of an epoch. *)

Mapped == at = "pmap" /\ idle = {} /\ busy = nothing

(* The results are written, sorted into the order of the file. *)
Trained ==
    /\ Mapped /\ phase = "train"
    /\ at' = "gather"
    /\ UNCHANGED <<phase, epoch, outweights, pmap, pc, job, learned, decoder_errors, failures,
                   messages, file>>

SumOver(f) == MapThenSumSet(LAMBDA s : f[s], Slaves)

Average ==
    /\ at = "gather" /\ \A s \in Slaves : gathered[s] # nothing
    /\ outweights' = <<SumOver([s \in Slaves |-> gathered[s][1]]), SumOver([s \in Slaves |-> gathered[s][2]])>>
    /\ gathered' = [s \in Slaves |-> nothing]
    /\ broadcast' = [s \in Slaves |-> outweights']
    /\ at' = "pmap" /\ phase' = "heldout" /\ StartPmap(InOrder(Heldout))
    /\ UNCHANGED <<epoch, pc, job, learned, decoder_errors, failures, tosend, replies, updates, file>>

(* The end of an epoch is the only place where a process looks for the stop   *)
(* file; without one it goes on for ever.  The bound on the epochs: in the    *)
(* last one the process does not look before there is a stop file.            *)
Looks(e) == stopfile \/ e < Iterations

EpochDone ==
    /\ Mapped /\ phase = "heldout" /\ Looks(epoch)
    /\ \/ stopfile /\ at' = "out" /\ UNCHANGED <<phase, epoch, pmap>>
       \/ /\ ~stopfile /\ epoch' = epoch + 1 /\ phase' = "train"
          /\ \E o \in Shuffles : StartPmap(o)
          /\ UNCHANGED at
    /\ UNCHANGED <<outweights, pc, job, learned, decoder_errors, failures, messages, file>>

Master == Trained \/ Average \/ EpochDone \/ \E s \in Slaves : Send(s) \/ Recv(s)
-----------------------------------------------------------------------------
(* A slave. *)

Goto(s, where) == pc' = [pc EXCEPT ![s] = where]

Receive(s) ==
    /\ pc[s] = "recv" /\ tosend[s] # nothing
    /\ tosend' = [tosend EXCEPT ![s] = Tail(@)]
    /\ job' = [job EXCEPT ![s].sent = Head(tosend[s])]
    /\ Goto(s, IF Head(tosend[s]) # Die THEN "work"
               ELSE IF job[s].phase = "train" THEN "gather" ELSE "end")
    /\ UNCHANGED <<master, pmap, learned, decoder_errors, failures, replies, updates, gathered,
                   broadcast, file>>

(* A reply is named by the sentence it answers, also if it is None. *)
Reply(s) ==
    /\ replies' = [replies EXCEPT ![s] = Append(@,
           [sent |-> job[s].sent, phase |-> job[s].phase, epoch |-> job[s].epoch,
            weights |-> weights[s]])]
    /\ Goto(s, "recv")

(* The updates that have arrived, in the order of each sender. *)
Arrived(s) ==
    {u \in SUBSET updates[s] :
        \A x \in u, y \in updates[s] : y.from = x.from /\ y.n < x.n => y \in u}

(* Mutation: the update is counted before it is weighted. *)
OptimizeCountsFirst(s, d) ==
    /\ weights' = [weights EXCEPT ![s][1] = @ + d]
    /\ sumweights_helper' = [sumweights_helper EXCEPT ![s] = @ + (nweights[s] + 1) * d]
    /\ nweights' = [nweights EXCEPT ![s] = @ + 1]

Optimize(s, d) ==
    /\ weights' = [weights EXCEPT ![s][1] = @ + d]
    /\ sumweights_helper' = [sumweights_helper EXCEPT ![s] = @ + nweights[s] * d]
    /\ nweights' = [nweights EXCEPT ![s] = @ + 1]

process(s) ==
    /\ pc[s] = "work" /\ job[s].phase = "train"
    /\ decoder_errors' = [decoder_errors EXCEPT ![s] = 0]
    /\ \E u \in Arrived(s) :
        /\ Optimize(s, Delta(1 + Cardinality(u)))
        /\ trained' = [trained EXCEPT ![s] =
               [sum |-> @.sum + weights'[s][1], last |-> weights'[s][1]]]
        /\ updates' = [t \in Slaves |->
               IF t = s THEN updates[s] \ u ELSE updates[t] \cup {[from |-> s, n |-> nweights[s]]}]
    /\ Reply(s)
    /\ UNCHANGED <<master, pmap, job, saveweights, failures, tosend, gathered, broadcast, file>>

process_heldout(s) ==
    /\ pc[s] = "work" /\ job[s].phase = "heldout"
    /\ decoder_errors' = [decoder_errors EXCEPT ![s] = 0]
    /\ Reply(s)
    /\ UNCHANGED <<master, pmap, job, learned, failures, tosend, updates, gathered, broadcast, file>>

(* The decoder throws, or there is no parse: the latter is found after the   *)
(* count of errors has been reset.                                           *)
Fail(s) ==
    /\ pc[s] = "work" /\ failures < MaxFailures /\ failures' = failures + 1
    /\ \E before \in {decoder_errors[s], 0} :
        decoder_errors' = [decoder_errors EXCEPT ![s] = before + 1]
    /\ LET limit == IF job[s].phase = "train" THEN TrainLimit ELSE HeldoutLimit IN
        \/ decoder_errors'[s] < limit /\ Reply(s)
        \/ decoder_errors'[s] >= limit /\ Goto(s, "raised") /\ UNCHANGED replies
    /\ UNCHANGED <<master, pmap, job, learned, tosend, updates, gathered, broadcast, file>>

Gather(s) ==
    /\ pc[s] = "gather" /\ Goto(s, "bcast")
    /\ gathered' = [gathered EXCEPT ![s] =
           <<nweights[s] * weights[s][1] - sumweights_helper[s], nweights[s]>>]
    /\ UNCHANGED <<master, pmap, job, learned, decoder_errors, failures, tosend, replies, updates,
                   broadcast, file>>

Bcast(s) ==
    /\ pc[s] = "bcast" /\ broadcast[s] # nothing
    /\ saveweights' = [saveweights EXCEPT ![s] = weights[s]]
    /\ weights' = [weights EXCEPT ![s] = broadcast[s]]
    /\ broadcast' = [broadcast EXCEPT ![s] = nothing]
    /\ job' = [job EXCEPT ![s].phase = "heldout"]
    /\ Goto(s, "recv")
    /\ UNCHANGED <<master, pmap, sumweights_helper, nweights, trained, decoder_errors, failures,
                   tosend, replies, updates, gathered, file>>

(* Mutation: training goes on with the average. *)
RestoreNot(s) == UNCHANGED weights

Restore(s) == weights' = [weights EXCEPT ![s] = saveweights[s]]

EndEpoch(s) ==
    /\ pc[s] = "end" /\ Looks(job[s].epoch)
    /\ Restore(s)
    /\ \/ stopfile /\ Goto(s, "out") /\ UNCHANGED job
       \/ /\ ~stopfile /\ Goto(s, "recv")
          /\ job' = [job EXCEPT ![s].epoch = @ + 1, ![s].phase = "train"]
    /\ UNCHANGED <<master, pmap, saveweights, sumweights_helper, nweights, trained, decoder_errors,
                   failures, messages, file>>

Slave(s) ==
    \/ Receive(s) \/ process(s) \/ process_heldout(s) \/ Fail(s)
    \/ Gather(s) \/ Bcast(s) \/ EndEpoch(s)

(* The stop file is made by somebody else. *)
Touch ==
    /\ ~stopfile /\ stopfile' = TRUE
    /\ split' = (\/ \E s \in Slaves : job[s].epoch # epoch
                 \/ at = "out" \/ \E s \in Slaves : pc[s] = "out")
    /\ UNCHANGED <<master, pmap, pc, job, learned, decoder_errors, failures, messages>>

Next == Master \/ (\E s \in Slaves : Slave(s)) \/ Touch

Spec == Init /\ [][Next]_vars

FairSpec == Spec /\ WF_vars(Master) /\ \A s \in Slaves : WF_vars(Slave(s))
-----------------------------------------------------------------------------
(* Properties. *)

(* pmap_master() yields the result of every input once and in the order of   *)
(* the input, although a reply carries no index and the replies come in any  *)
(* order; no reply of another part or another epoch is among them.           *)
ResultsInOrder ==
    /\ \A k \in DOMAIN yielded :
        /\ yielded[k].sent = order[k]
        /\ yielded[k].phase = phase /\ yielded[k].epoch = epoch
    /\ Mapped => Len(yielded) = Len(order)

(* The held-out sentences are all decoded with the average of the weights    *)
(* after every update that any slave has made: n w - sum of i Delta_i is the *)
(* sum of those weights.  (A sum and a count of zero, when nothing was       *)
(* trained, is the empty vector of the code.)                                *)
HeldoutUsesAverage ==
    at = "pmap" /\ phase = "heldout" =>
        /\ outweights =
               <<SumOver([s \in Slaves |-> trained[s].sum]), SumOver(nweights)>>
        /\ \A k \in DOMAIN yielded : yielded[k].weights = outweights

(* A slave trains with the weights that its own last update left, not with   *)
(* those the held-out sentences were decoded with.                           *)
TrainingResumes ==
    \A s \in Slaves : pc[s] = "work" /\ job[s].phase = "train" =>
        weights[s] = <<trained[s].last, 1>>

(* Once there is a stop file every process comes to its end (trainer.py:532),*)
(* through whatever the slaves, pmap, gather and bcast still have to do in   *)
(* the epoch; unless a slave has passed on an exception, or the file was     *)
(* made when one process had already looked for it and another had not: then *)
(* the two wait for each other.                                              *)
TrainingEnds ==
    stopfile ~>
      (\/ at = "out" /\ \A s \in Slaves : pc[s] = "out"
       \/ split \/ \E s \in Slaves : pc[s] = "raised")
=============================================================================
