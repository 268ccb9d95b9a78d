------------------------------ MODULE MpiServ ------------------------------
(***************************************************************************)
(* mpiserv (mpiserv/mpiserv.cpp, rhpipe.cpp): lines of input are farmed    *)
(* out to decoder processes.  Rank 0 submits, rank 1 receives, every other *)
(* rank is a client with a child process, a thread that feeds the child    *)
(* (run_client, receive_from_server) and a thread that reads from it       *)
(* (send_to_server).                                                       *)
(*                                                                         *)
(* One action is one critical section of a client's mtx, or the handling   *)
(* of one message.  The feeding thread holds mtx while it blocks in        *)
(* world.recv (fpc = "recv"): the reading thread then has to wait.         *)
(*                                                                         *)
(* rhpipe groups the lines of the child by sentence and knows that a group *)
(* is complete only from the first line of the next one, or from the end   *)
(* of the output: the last result of a child that waits for input stays in *)
(* the pipe.                                                               *)
(***************************************************************************)
EXTENDS Integers, Sequences, FiniteSets, SequencesExt

CONSTANTS
    NumClients,     \* world.size() - 2
    Lines,          \* lines of input; line t is task t
    loadmax, max_attempts,
    MaxFaults       \* bound on the child processes that die or cannot be started and
                    \* the messages received before an earlier one of another sender

Clients == 2..NumClients + 1
submitter == 0
receiver == 1
Tasks == 1..Lines

ASSUME ServAssumption ==
    /\ {NumClients, loadmax, max_attempts} \subseteq Nat \ {0}
    /\ {Lines, MaxFaults} \subseteq Nat

VARIABLES
    net,                        \* net[rank]: messages under way to it
    overtakings,
    loads,                      \* load_msg messages under way to the submitter
    spc, count, sload,          \* submitter: position, next task, cload
    rpc, ns, finished, minrecv, recvreq, rload, jobs_out,      \* receiver
    answers,                    \* history: how often each task was printed
    fpc, rdpc,                  \* the feeding and the reading thread of a client
    messages, jobs_in, jobs_in_finished,        \* its threadstate
    cur,                        \* the job to be written to the child
    child, todo, ready,         \* the child; inputs it has read; results in the pipe
    faults

netvars == <<net, overtakings, loads>>
subvars == <<spc, count, sload>>
recvars == <<rpc, ns, finished, minrecv, recvreq, rload, jobs_out, answers>>
state == <<messages, jobs_in, jobs_in_finished>>
proc == <<child, todo, ready, faults>>
clivars == <<fpc, rdpc, cur, state, proc>>
vars == <<netvars, subvars, recvars, clivars>>

Message == [src : {submitter, receiver} \cup Clients,
            type : {"clientload", "flush", "finish", "input", "output"},
            task : 0..Lines + 1, attempt : 0..max_attempts]

TypeOK ==
    /\ net \in [{receiver} \cup Clients -> Seq(Message)]
    /\ loads \in Seq([Clients -> Int])
    /\ spc \in {"line", "wait", "done"} /\ count \in 1..Lines + 1
    /\ sload \in [Clients -> Int]
    /\ rpc \in {"recv", "done"} /\ ns \in Clients /\ finished \in BOOLEAN
    /\ minrecv \in 1..Lines + 1 /\ recvreq \in BOOLEAN
    /\ rload \in [Clients -> Int] /\ jobs_out \subseteq 1..Lines + 1
    /\ answers \in [Tasks -> Nat]
    /\ fpc \in [Clients -> {"start", "loop", "wait", "recv", "give", "join", "reject", "done"}]
    /\ rdpc \in [Clients -> {"read", "done"}]
    /\ messages \in [Clients -> Seq({"flush", "finish"})]
    /\ jobs_in \in [Clients -> Seq(Message)] /\ \A c \in Clients : Len(jobs_in[c]) <= loadmax
    /\ jobs_in_finished \in [Clients -> BOOLEAN]
    /\ cur \in [Clients -> 0..Lines]
    /\ child \in [Clients -> {"up", "eof", "down"}]
    /\ todo \in [Clients -> Seq(Tasks)] /\ ready \in [Clients -> Seq(Tasks)]
    /\ faults \in Nat /\ overtakings \in Nat /\ faults + overtakings <= MaxFaults

NoLoad == [c \in Clients |-> 0]
Empty == [c \in Clients |-> <<>>]

Init ==
    /\ net = [r \in {receiver} \cup Clients |-> <<>>] /\ overtakings = 0 /\ loads = <<>>
    /\ spc = "line" /\ count = 1 /\ sload = NoLoad
    /\ rpc = "recv" /\ ns = 2 /\ finished = FALSE /\ minrecv = 1
    /\ recvreq = FALSE /\ rload = NoLoad /\ jobs_out = {}
    /\ answers = [t \in Tasks |-> 0]
    /\ fpc = [c \in Clients |-> "start"] /\ rdpc = [c \in Clients |-> "done"]
    /\ messages = Empty /\ jobs_in = Empty /\ jobs_in_finished = [c \in Clients |-> FALSE]
    /\ cur = [c \in Clients |-> 0]
    /\ child = [c \in Clients |-> "down"] /\ todo = Empty /\ ready = Empty
    /\ faults = 0
-----------------------------------------------------------------------------
(* MPI. *)

Msg(src, type, task, attempt) ==
    [src |-> src, type |-> type, task |-> task, attempt |-> attempt]

Signal(src, type) == Msg(src, type, 0, 0)

MayFault == faults + overtakings < MaxFaults

(* Only the messages of one sender are received in the order of sending. *)
Arrives(r, i) ==
    \/ i = 1 /\ UNCHANGED overtakings
    \/ /\ i > 1 /\ \A j \in 1..i - 1 : net[r][j].src # net[r][i].src
       /\ MayFault /\ overtakings' = overtakings + 1

Taken(r, i) == [net EXCEPT ![r] = RemoveAt(@, i)]
-----------------------------------------------------------------------------
(* The submitter: send_to_client, find_min. *)

MinLoad ==
    {c \in Clients : \A d \in Clients :
        IF d < c THEN sload[c] < sload[d] ELSE sload[c] <= sload[d]}

SubmitLine ==
    /\ spc = "line" /\ count <= Lines
    /\ \E id \in MinLoad :
        /\ sload[id] < loadmax
        /\ net' = [net EXCEPT ![id] = Append(@, Msg(submitter, "input", count, 1))]
        /\ sload' = [sload EXCEPT ![id] = @ + 1]
    /\ count' = count + 1
    /\ UNCHANGED <<overtakings, loads, spc, recvars, clivars>>

(* Mutation: the submitter waits for the load without having asked. *)
AskLoadUnsent ==
    /\ spc = "line" /\ count <= Lines
    /\ \A c \in Clients : sload[c] >= loadmax
    /\ spc' = "wait"
    /\ UNCHANGED <<netvars, count, sload, recvars, clivars>>

AskLoad ==
    /\ spc = "line" /\ count <= Lines
    /\ \A c \in Clients : sload[c] >= loadmax
    /\ net' = [net EXCEPT ![receiver] = Append(@, Signal(submitter, "clientload"))]
    /\ spc' = "wait"
    /\ UNCHANGED <<overtakings, loads, count, sload, recvars, clivars>>

GetLoad ==
    /\ spc = "wait" /\ loads # <<>>
    /\ sload' = [c \in Clients |-> sload[c] - Head(loads)[c]]
    /\ loads' = Tail(loads)
    /\ spc' = "line"
    /\ UNCHANGED <<net, overtakings, count, recvars, clivars>>

SubmitFinish ==
    /\ spc = "line" /\ count = Lines + 1
    /\ net' = [net EXCEPT ![receiver] = Append(@, Msg(submitter, "finish", count, 0))]
    /\ spc' = "done"
    /\ UNCHANGED <<overtakings, loads, count, sload, recvars, clivars>>

send_to_client == SubmitLine \/ AskLoad \/ GetLoad \/ SubmitFinish
-----------------------------------------------------------------------------
(* The receiver: receive_from_client, submit_load. *)

(* A pending request is answered with the load that has built up. *)
Submit(load) == loads' = Append(loads, load) /\ rload' = NoLoad

ReceiveRequest(i) ==
    /\ net[receiver][i].type = "clientload"
    /\ net' = Taken(receiver, i)
    /\ IF \E c \in Clients : rload[c] > 0
       THEN Submit(rload) /\ recvreq' = FALSE
       ELSE recvreq' = TRUE /\ UNCHANGED <<loads, rload>>
    /\ UNCHANGED <<subvars, rpc, ns, finished, minrecv, jobs_out, answers, clivars>>

SubmitIfAsked(load) ==
    /\ IF recvreq THEN Submit(load) ELSE rload' = load /\ UNCHANGED loads
    /\ recvreq' = FALSE

(* Mutation: the new client's load is not corrected. *)
ResendUncounted(i) ==
    LET msg == net[receiver][i]
        to == ((ns - 2 + 1) % NumClients) + 2 IN
    /\ msg.type = "input" /\ msg.attempt < max_attempts
    /\ ns' = to
    /\ net' = [Taken(receiver, i) EXCEPT ![to] = @ \o
                <<Signal(receiver, "flush"), Msg(receiver, "input", msg.task, msg.attempt + 1)>>
                \o IF finished THEN <<Signal(receiver, "flush")>> ELSE <<>>]
    /\ SubmitIfAsked([rload EXCEPT ![msg.src] = @ + 1])
    /\ UNCHANGED <<subvars, rpc, finished, minrecv, jobs_out, answers, clivars>>

(* A job comes back undone: another client is to try. *)
Resend(i) ==
    LET msg == net[receiver][i]
        to == ((ns - 2 + 1) % NumClients) + 2 IN
    /\ msg.type = "input" /\ msg.attempt < max_attempts
    /\ ns' = to
    /\ net' = [Taken(receiver, i) EXCEPT ![to] = @ \o
                <<Signal(receiver, "flush"), Msg(receiver, "input", msg.task, msg.attempt + 1)>>
                \o IF finished THEN <<Signal(receiver, "flush")>> ELSE <<>>]
    /\ SubmitIfAsked([[rload EXCEPT ![msg.src] = @ + 1] EXCEPT ![to] = @ - 1])
    /\ UNCHANGED <<subvars, rpc, finished, minrecv, jobs_out, answers, clivars>>

ToAll(queues, signals) ==
    [r \in DOMAIN queues |-> IF r \in Clients THEN queues[r] \o signals ELSE queues[r]]

(* A result, a job given up, or the end of the input.  Everything is printed *)
(* as it comes; minrecv runs over the tasks that are done, and reaches the   *)
(* end of the input last.                                                    *)
Record(i) ==
    LET msg == net[receiver][i]
        all == jobs_out \cup {msg.task}
        next == CHOOSE t \in minrecv..Lines + 2 : t \notin all /\ minrecv..t - 1 \subseteq all
        flush == IF msg.type = "finish" THEN <<Signal(receiver, "flush")>> ELSE <<>>
        over == next = Lines + 2
        finish == IF over THEN <<Signal(receiver, "finish")>> ELSE <<>> IN
    /\ \/ msg.type \in {"output", "finish"}
       \/ msg.type = "input" /\ msg.attempt >= max_attempts
    /\ answers' = [t \in Tasks |-> IF t = msg.task THEN answers[t] + 1 ELSE answers[t]]
    /\ finished' = (finished \/ msg.type = "finish")
    /\ net' = ToAll(Taken(receiver, i), flush \o finish)
    /\ jobs_out' = {t \in all : t >= next}
    /\ minrecv' = IF over THEN Lines + 1 ELSE next
    /\ rpc' = IF over THEN "done" ELSE "recv"
    /\ LET load == IF msg.type = "finish" THEN rload ELSE [rload EXCEPT ![msg.src] = @ + 1]
       IN IF over THEN rload' = load /\ UNCHANGED <<loads, recvreq>> ELSE SubmitIfAsked(load)
    /\ UNCHANGED <<subvars, ns, clivars>>

receive_from_client ==
    /\ rpc = "recv"
    /\ \E i \in DOMAIN net[receiver] :
        /\ Arrives(receiver, i)
        /\ ReceiveRequest(i) \/ Resend(i) \/ Record(i)
-----------------------------------------------------------------------------
(* The feeding thread of a client: run_client, receive_from_server. *)

Feed(c, pc) == fpc' = [fpc EXCEPT ![c] = pc]

(* A new threadstate, child and reading thread. *)
Start(c) ==
    /\ fpc[c] = "start"
    /\ messages' = [messages EXCEPT ![c] = <<>>]
    /\ jobs_in' = [jobs_in EXCEPT ![c] = <<>>]
    /\ jobs_in_finished' = [jobs_in_finished EXCEPT ![c] = FALSE]
    /\ child' = [child EXCEPT ![c] = "up"]
    /\ rdpc' = [rdpc EXCEPT ![c] = "read"]
    /\ Feed(c, "loop")
    /\ UNCHANGED <<netvars, subvars, recvars, cur, todo, ready, faults>>

StartFails(c) ==
    /\ fpc[c] = "start" /\ MayFault
    /\ faults' = faults + 1
    /\ Feed(c, "reject")
    /\ UNCHANGED <<netvars, subvars, recvars, rdpc, cur, state, child, todo, ready>>

Reject(c) ==
    /\ fpc[c] = "reject"
    /\ \E i \in DOMAIN net[c] :
        LET msg == net[c][i] IN
        /\ Arrives(c, i)
        /\ net' = IF msg.type = "input"
                  THEN [Taken(c, i) EXCEPT ![receiver] = Append(@, [msg EXCEPT !.src = c])]
                  ELSE Taken(c, i)
        /\ Feed(c, IF msg.type = "finish" THEN "done" ELSE "reject")
    /\ UNCHANGED <<loads, subvars, recvars, rdpc, cur, state, proc>>

(* The loop is left: proc.close() ends the child's input. *)
Close(c) ==
    /\ child' = [child EXCEPT ![c] = IF @ = "up" THEN "eof" ELSE @]
    /\ Feed(c, "join")

(* Mutation: one job too many is taken. *)
LoopOneTooMany(c) ==
    /\ fpc[c] = "loop"
    /\ IF jobs_in_finished[c]
       THEN Close(c)
       ELSE /\ Feed(c, IF Len(jobs_in[c]) > loadmax THEN "wait" ELSE "recv")
            /\ UNCHANGED child
    /\ UNCHANGED <<netvars, subvars, recvars, rdpc, cur, state, todo, ready, faults>>

Loop(c) ==
    /\ fpc[c] = "loop"
    /\ IF jobs_in_finished[c]
       THEN Close(c)
       ELSE /\ Feed(c, IF Len(jobs_in[c]) >= loadmax THEN "wait" ELSE "recv")
            /\ UNCHANGED child
    /\ UNCHANGED <<netvars, subvars, recvars, rdpc, cur, state, todo, ready, faults>>

(* world.recv, under mtx. *)
Recv(c) ==
    /\ fpc[c] = "recv"
    /\ \E i \in DOMAIN net[c] :
        LET msg == net[c][i] IN
        /\ Arrives(c, i)
        /\ net' = Taken(c, i)
        /\ \/ /\ msg.type \in {"flush", "finish"}
              /\ messages' = [messages EXCEPT ![c] = Append(@, msg.type)]
              /\ jobs_in_finished' = [jobs_in_finished EXCEPT ![c] = TRUE]
              /\ Close(c)
              /\ UNCHANGED <<jobs_in, cur>>
           \/ /\ msg.type = "input"
              /\ jobs_in' = [jobs_in EXCEPT ![c] = Append(@, msg)]
              /\ cur' = [cur EXCEPT ![c] = msg.task]
              /\ Feed(c, "give")
              /\ UNCHANGED <<messages, jobs_in_finished, child>>
    /\ UNCHANGED <<loads, subvars, recvars, rdpc, todo, ready, faults>>

(* proc.send(); it fails once the child is dead. *)
Give(c) ==
    /\ fpc[c] = "give"
    /\ \/ /\ child[c] # "down"
          /\ todo' = [todo EXCEPT ![c] = Append(@, cur[c])]
          /\ UNCHANGED <<messages, jobs_in_finished>>
       \/ /\ child[c] = "down"
          /\ messages' = [messages EXCEPT ![c] = Append(@, "flush")]
          /\ jobs_in_finished' = [jobs_in_finished EXCEPT ![c] = TRUE]
          /\ UNCHANGED todo
    /\ cur' = [cur EXCEPT ![c] = 0]
    /\ Feed(c, "loop")
    /\ UNCHANGED <<netvars, subvars, recvars, rdpc, jobs_in, child, ready, faults>>

(* proc.close() has waited for the child and the reading thread has ended: the *)
(* first message says how to go on.                                            *)
Join(c) ==
    /\ fpc[c] = "join" /\ child[c] = "down" /\ rdpc[c] = "done"
    /\ messages[c] # <<>>
    /\ Feed(c, IF Head(messages[c]) = "flush" THEN "start" ELSE "done")
    /\ UNCHANGED <<netvars, subvars, recvars, rdpc, cur, state, proc>>

run_client(c) ==
    Start(c) \/ Reject(c) \/ Loop(c) \/ Recv(c) \/ Give(c) \/ Join(c)
-----------------------------------------------------------------------------
(* The reading thread: send_to_server. *)

MutexFree(c) == fpc[c] # "recv"

Notify(c) == fpc' = [fpc EXCEPT ![c] = IF @ = "wait" THEN "loop" ELSE @]

(* Mutations: the job is left in the queue; the result goes to the newest job. *)
ResultKept(c) ==
    /\ rdpc[c] = "read" /\ MutexFree(c)
    /\ Len(ready[c]) >= (IF child[c] = "down" THEN 1 ELSE 2)
    /\ ready' = [ready EXCEPT ![c] = Tail(@)]
    /\ net' = [net EXCEPT ![receiver] = Append(@, Msg(c, "output", Head(jobs_in[c]).task, 0))]
    /\ Notify(c)
    /\ UNCHANGED <<overtakings, loads, subvars, recvars, rdpc, cur, state, child, todo, faults>>

ResultOfNewest(c) ==
    /\ rdpc[c] = "read" /\ MutexFree(c)
    /\ Len(ready[c]) >= (IF child[c] = "down" THEN 1 ELSE 2)
    /\ ready' = [ready EXCEPT ![c] = Tail(@)]
    /\ net' = [net EXCEPT ![receiver] = Append(@, Msg(c, "output", Last(jobs_in[c]).task, 0))]
    /\ jobs_in' = [jobs_in EXCEPT ![c] = Front(@)]
    /\ Notify(c)
    /\ UNCHANGED <<overtakings, loads, subvars, recvars, rdpc, cur, messages, jobs_in_finished, child, todo, faults>>

(* A complete result belongs to the oldest job. *)
Result(c) ==
    /\ rdpc[c] = "read" /\ MutexFree(c)
    /\ Len(ready[c]) >= (IF child[c] = "down" THEN 1 ELSE 2)
    /\ ready' = [ready EXCEPT ![c] = Tail(@)]
    /\ net' = [net EXCEPT ![receiver] = Append(@, Msg(c, "output", Head(jobs_in[c]).task, 0))]
    /\ jobs_in' = [jobs_in EXCEPT ![c] = Tail(@)]
    /\ Notify(c)
    /\ UNCHANGED <<overtakings, loads, subvars, recvars, rdpc, cur, messages, jobs_in_finished, child, todo, faults>>

(* The child is gone: hand its jobs back. *)
EndOfOutput(c) ==
    /\ rdpc[c] = "read" /\ MutexFree(c)
    /\ child[c] = "down" /\ ready[c] = <<>>
    /\ jobs_in_finished' = [jobs_in_finished EXCEPT ![c] = TRUE]
    /\ messages' = [messages EXCEPT ![c] = Append(@, "flush")]
    /\ net' = [net EXCEPT ![receiver] = @ \o
                [i \in DOMAIN jobs_in[c] |-> [jobs_in[c][i] EXCEPT !.src = c]]]
    /\ jobs_in' = [jobs_in EXCEPT ![c] = <<>>]
    /\ rdpc' = [rdpc EXCEPT ![c] = "done"]
    /\ Notify(c)
    /\ UNCHANGED <<overtakings, loads, subvars, recvars, cur, proc>>

send_to_server(c) == Result(c) \/ EndOfOutput(c)

Spurious(c) ==
    /\ fpc[c] = "wait"
    /\ Feed(c, "loop")
    /\ UNCHANGED <<netvars, subvars, recvars, rdpc, cur, state, proc>>
-----------------------------------------------------------------------------
(* The child process. *)

Decode(c) ==
    /\ child[c] # "down" /\ todo[c] # <<>>
    /\ ready' = [ready EXCEPT ![c] = Append(@, Head(todo[c]))]
    /\ todo' = [todo EXCEPT ![c] = Tail(@)]
    /\ UNCHANGED <<netvars, subvars, recvars, fpc, rdpc, cur, state, child, faults>>

Exit(c) ==
    /\ child[c] = "eof" /\ todo[c] = <<>>
    /\ child' = [child EXCEPT ![c] = "down"]
    /\ UNCHANGED <<netvars, subvars, recvars, fpc, rdpc, cur, state, todo, ready, faults>>

(* It dies; what it had written of a result passes for the result. *)
Crash(c) ==
    /\ child[c] # "down" /\ MayFault
    /\ child' = [child EXCEPT ![c] = "down"]
    /\ \/ UNCHANGED ready
       \/ todo[c] # <<>> /\ ready' = [ready EXCEPT ![c] = Append(@, Head(todo[c]))]
    /\ todo' = [todo EXCEPT ![c] = <<>>]
    /\ faults' = faults + 1
    /\ UNCHANGED <<netvars, subvars, recvars, fpc, rdpc, cur, state>>

AllDone == spc = "done" /\ rpc = "done" /\ \A c \in Clients : fpc[c] = "done"

Terminated == AllDone /\ UNCHANGED vars

Next ==
    \/ send_to_client \/ receive_from_client \/ Terminated
    \/ \E c \in Clients :
        \/ run_client(c) \/ StartFails(c) \/ send_to_server(c) \/ Spurious(c)
        \/ Decode(c) \/ Exit(c) \/ Crash(c)

Spec == Init /\ [][Next]_vars

(* Every rank and thread goes on when it can, and a child answers its input. *)
FairSpec ==
    /\ Spec
    /\ WF_vars(send_to_client) /\ WF_vars(receive_from_client)
    /\ \A c \in Clients :
        /\ WF_vars(run_client(c)) /\ WF_vars(send_to_server(c))
        /\ WF_vars(Decode(c)) /\ WF_vars(Exit(c))
-----------------------------------------------------------------------------
(* Properties. *)

InputsTo(c) == {i \in DOMAIN net[c] : net[c][i].type = "input"}
JobsFrom(c) == {i \in DOMAIN net[receiver] : net[receiver][i].src = c}
Reported(c) == rload[c] + (IF loads = <<>> THEN 0 ELSE Head(loads)[c])

(* find_min's comment: it keeps track of "what has been submitted to a        *)
(* client, and what has been completed".  Submitter and receiver each keep a  *)
(* table and exchange differences, one message at a time; through retries,    *)
(* deaths and rejections the difference is exactly the jobs that are on their *)
(* way to a client, in its queue or on their way back: none is lost when a    *)
(* client starts afresh.                                                      *)
LoadsAgree ==
    /\ Len(loads) <= 1
    /\ \A c \in Clients :
        sload[c] - Reported(c) =
            Cardinality(InputsTo(c)) + Len(jobs_in[c]) + Cardinality(JobsFrom(c))

(* Every line is answered once, whatever dies and is tried again, and the     *)
(* receiver sends finish only when every line has been answered.              *)
AnsweredOnce ==
    /\ \A t \in Tasks : answers[t] <= 1
    /\ rpc = "done" => \A t \in Tasks : answers[t] = 1

(* A result is attributed to the oldest job of the queue although two threads *)
(* and a process work on it: the results in the pipe and the inputs of the    *)
(* child are the first jobs of the queue, in their order, so that the front   *)
(* is the job of the next result and assert(not jobs_in.empty()) holds.       *)
ResultsMatchJobs ==
    \A c \in Clients :
        LET given == ready[c] \o todo[c] IN
        /\ Len(given) <= Len(jobs_in[c])
        /\ \A i \in DOMAIN given : given[i] = jobs_in[c][i].task

(* The system comes to an end: nobody waits for ever for a lower load, for a  *)
(* message that does not come while the mutex is held, or for the last result *)
(* of a child, and no client is left without its finish.  When a message has  *)
(* overtaken another sender's this is not so: a client that gets the          *)
(* receiver's flush before the submitter's last task goes on to wait for a    *)
(* message while it holds the mutex that its result needs.                    *)
Ends == <>(AllDone \/ overtakings > 0)
=============================================================================
