--------------------------- MODULE DecoderDriver ----------------------------
(***************************************************************************)
(* The class Decoder of mira/sbmt_decoder.py, with which the trainer       *)
(* drives a decoder process: instructions go through a queue, a thread and *)
(* a pipe to the child, which answers every sentence with one line.        *)
(* Weights are sent as a difference to those sent before.  The child is    *)
(* started afresh when it is old or when something was thrown.             *)
(*                                                                         *)
(* Queue, thread and pipe are one channel, which belongs to the child: the *)
(* thread of a child that is gone fails without anybody noticing.  A       *)
(* vector of weights is a number; its text has few digits, so that sending *)
(* it may round it, while the driver goes on with the exact number.        *)
(*                                                                         *)
(* The child is the decoder of xrsdb/apps/search.cpp, alone or, as the     *)
(* pipeline's script starts it, followed by join_forests: then an answer   *)
(* comes out only when the grammar has been popped (newline-after-pop) or  *)
(* the decoder is gone.                                                    *)
(***************************************************************************)
EXTENDS Integers, Sequences

CONSTANTS
    Sentences,
    Unpopped,       \* sentences whose instruction does not end with "pop-grammar;"
    Weights,        \* a set of numbers; 0 is the empty vector
    Shown(_),       \* the number that the text of a number stands for
    Rounding,       \* how far they may be apart
    MaxAge, MaxRestarts,
    noparse

ASSUME DriverAssumption ==
    /\ Unpopped \subseteq Sentences /\ noparse \notin Sentences
    /\ Weights \subseteq Int /\ 0 \in Weights
    /\ MaxAge \in Nat \ {0} /\ MaxRestarts \in Nat

ASSUME TextAssumption ==
    /\ Rounding \in Nat /\ Shown(0) = 0
    /\ \A v, w \in Weights :
        /\ Shown(v - w) \in Int
        /\ Shown(v - w) - (v - w) \in -Rounding..Rounding

VARIABLES
    pc, sentence, restarts, line,       \* translate()
    weights, oldweights, decoder_age,
    joined,                     \* whether the child's lines pass through join_forests
    alive, inbox, outbox, held, \* the child: instructions, and lines that are out or held
    childweights, grammars      \* its weights and the depth of its grammar stack

child == <<alive, inbox, outbox, held, childweights, grammars>>
vars == <<pc, sentence, restarts, line, weights, oldweights, decoder_age, joined, child>>

Line == [sentence : Sentences \cup {noparse}, kind : {"forest", "bad", "raises", "eof"},
         weights : Int, grammars : Nat]

EndOfFile == [sentence |-> noparse, kind |-> "eof", weights |-> 0, grammars |-> 0]

Instruction ==
    [op : {"weights", "diff"}, arg : Int] \cup [op : {"decode"}, arg : Sentences]
        \cup [op : {"pop"}, arg : {0}]

(* Types; no more grammars are popped than were pushed. *)
TypeOK ==
    /\ pc \in {"idle", "weights", "instruct", "read", "check", "except"}
    /\ sentence \in Sentences \cup {noparse} /\ restarts \in 0..MaxRestarts + 1
    /\ line \in Line
    /\ {weights, oldweights} \subseteq Weights /\ childweights \in Int
    /\ decoder_age \in 0..MaxAge
    /\ {joined, alive} \subseteq BOOLEAN
    /\ inbox \in Seq(Instruction) /\ outbox \in Seq(Line) /\ held \in Seq(Line)
    /\ grammars \in Nat

Init ==
    /\ pc = "idle" /\ sentence = noparse /\ restarts = 0 /\ line = EndOfFile
    /\ weights \in Weights /\ oldweights = 0 /\ decoder_age = 0 /\ joined \in BOOLEAN
    /\ alive = TRUE /\ inbox = <<>> /\ outbox = <<>> /\ held = <<>>
    /\ childweights = 0 /\ grammars = 0
-----------------------------------------------------------------------------
(* Decoder. *)

(* A new child. *)
Fresh ==
    /\ alive' = TRUE /\ inbox' = <<>> /\ outbox' = <<>> /\ held' = <<>>
    /\ childweights' = 0 /\ grammars' = 0

(* Mutation: what was sent to the old child is not forgotten. *)
start_decoder_diff == Fresh /\ decoder_age' = 0 /\ UNCHANGED oldweights

start_decoder == Fresh /\ decoder_age' = 0 /\ oldweights' = 0

(* What is sent to a child that is gone is lost, and no one is told. *)
Sent(instruction) == IF alive THEN Append(inbox, instruction) ELSE inbox

send(instruction) ==
    /\ inbox' = Sent(instruction)
    /\ UNCHANGED <<alive, outbox, held, childweights, grammars>>

(* Between sentences the trainer changes the weights. *)
Update ==
    /\ pc = "idle"
    /\ \E w \in Weights \ {weights} : weights' = w
    /\ UNCHANGED <<pc, sentence, restarts, line, oldweights, decoder_age, joined, child>>

Translate(s) ==
    /\ pc = "idle" /\ pc' = "weights"
    /\ sentence' = s /\ restarts' = 0
    /\ \/ /\ decoder_age >= MaxAge
          /\ Fresh /\ decoder_age' = 1 /\ oldweights' = 0
       \/ /\ decoder_age < MaxAge
          /\ decoder_age' = decoder_age + 1
          /\ UNCHANGED <<oldweights, child>>
    /\ UNCHANGED <<line, weights, joined>>

(* The text of the weights, or of their difference to the exact weights that *)
(* were sent before, goes to the child.                                      *)
send_weights ==
    /\ pc = "weights" /\ pc' = "instruct"
    /\ send(IF oldweights = 0
            THEN [op |-> "weights", arg |-> Shown(weights)]
            ELSE [op |-> "diff", arg |-> Shown(weights - oldweights)])
    /\ oldweights' = weights
    /\ UNCHANGED <<sentence, restarts, line, weights, decoder_age, joined>>

(* Mutation: the instruction is sent whole, and the grammar popped again. *)
instruct_whole ==
    /\ pc = "instruct" /\ pc' = "read"
    /\ inbox' = IF alive
                THEN inbox \o <<[op |-> "decode", arg |-> sentence], [op |-> "pop", arg |-> 0]>>
                ELSE inbox
    /\ UNCHANGED <<sentence, restarts, line, weights, oldweights, decoder_age, joined,
                   alive, outbox, held, childweights, grammars>>

(* Without "pop-grammar;" the instruction is put into a variable that is not *)
(* defined: an exception.                                                    *)
instruct ==
    /\ pc = "instruct"
    /\ \/ /\ sentence \notin Unpopped
          /\ send([op |-> "decode", arg |-> sentence])
          /\ pc' = "read"
       \/ /\ sentence \in Unpopped
          /\ pc' = "except"
          /\ UNCHANGED child
    /\ UNCHANGED <<sentence, restarts, line, weights, oldweights, decoder_age, joined>>

(* Mutation: the grammar is not popped when the line is not a forest. *)
read_pops_forest ==
    /\ pc = "read" /\ pc' = "check"
    /\ \/ outbox # <<>> /\ line' = Head(outbox) /\ outbox' = Tail(outbox)
       \/ outbox = <<>> /\ ~alive /\ line' = EndOfFile /\ UNCHANGED outbox
    /\ inbox' = IF line'.kind = "forest" THEN Sent([op |-> "pop", arg |-> 0]) ELSE inbox
    /\ UNCHANGED <<sentence, restarts, weights, oldweights, decoder_age, joined,
                   alive, held, childweights, grammars>>

(* recvline(), which is "" at the end of the child's output; then the grammar *)
(* is popped.                                                                 *)
read ==
    /\ pc = "read" /\ pc' = "check"
    /\ \/ outbox # <<>> /\ line' = Head(outbox) /\ outbox' = Tail(outbox)
       \/ outbox = <<>> /\ ~alive /\ line' = EndOfFile /\ UNCHANGED outbox
    /\ inbox' = Sent([op |-> "pop", arg |-> 0])
    /\ UNCHANGED <<sentence, restarts, weights, oldweights, decoder_age, joined,
                   alive, held, childweights, grammars>>

(* An answer is accepted, asked for again, or raises an exception. *)
check ==
    /\ pc = "check"
    /\ pc' = CASE line.kind \in {"eof", "bad"} -> "weights"
               [] line.kind = "raises" -> "except"
               [] line.kind = "forest" -> IF alive THEN "idle" ELSE "weights"
    /\ UNCHANGED <<sentence, restarts, line, weights, oldweights, decoder_age, joined, child>>

(* Mutation: a restart is not counted. *)
except_uncounted ==
    /\ pc = "except" /\ pc' = "weights"
    /\ start_decoder
    /\ UNCHANGED <<sentence, restarts, line, weights, joined>>

except ==
    /\ pc = "except"
    /\ restarts' = restarts + 1
    /\ start_decoder
    /\ \/ restarts' <= MaxRestarts /\ pc' = "weights" /\ UNCHANGED line
       \/ /\ restarts' > MaxRestarts /\ pc' = "idle"
          /\ line' = [EndOfFile EXCEPT !.kind = "forest"]
    /\ UNCHANGED <<sentence, weights, joined>>

translate == send_weights \/ instruct \/ read \/ check \/ except
-----------------------------------------------------------------------------
(* The child. *)

(* What the instruction i makes of the weights w. *)
Applied(w, i) == CASE i.op = "weights" -> i.arg [] i.op = "diff" -> w + i.arg [] OTHER -> w

Answer(s, kind) ==
    [sentence |-> s, kind |-> kind, weights |-> childweights, grammars |-> grammars + 1]

(* A sentence's line goes out, or is held until the pop. *)
Work(kind) ==
    /\ alive /\ inbox # <<>>
    /\ LET i == Head(inbox) IN
        /\ childweights' = Applied(childweights, i)
        /\ \/ /\ i.op = "decode" /\ grammars' = grammars + 1
              /\ \/ joined /\ held' = Append(held, Answer(i.arg, kind)) /\ UNCHANGED outbox
                 \/ ~joined /\ outbox' = Append(outbox, Answer(i.arg, kind)) /\ UNCHANGED held
           \/ /\ i.op = "pop" /\ grammars' = grammars - 1
              /\ outbox' = outbox \o held /\ held' = <<>>
           \/ i.op \in {"weights", "diff"} /\ UNCHANGED <<grammars, outbox, held>>
    /\ inbox' = Tail(inbox)
    /\ UNCHANGED <<pc, sentence, restarts, line, weights, oldweights, decoder_age, joined, alive>>

WorkWell == Work("forest")

WorkBadly ==
    /\ inbox # <<>> /\ Head(inbox).op = "decode"
    /\ \E kind \in {"bad", "raises"} : Work(kind)

(* The child is gone; what was held comes out. *)
Die ==
    /\ alive /\ alive' = FALSE /\ inbox' = <<>>
    /\ outbox' = outbox \o held /\ held' = <<>>
    /\ UNCHANGED <<pc, sentence, restarts, line, weights, oldweights, decoder_age, joined,
                   childweights, grammars>>

Next ==
    \/ Update \/ \E s \in Sentences : Translate(s)
    \/ translate \/ WorkWell \/ WorkBadly \/ Die

Spec == Init /\ [][Next]_vars

FairSpec == Spec /\ WF_vars(translate) /\ WF_vars(WorkWell)
-----------------------------------------------------------------------------
(* Properties. *)

(* The weights of a child that had w once it has worked off the instructions. *)
Brought(w, instructions) ==
    LET after[n \in 0..Len(instructions)] ==
            IF n = 0 THEN w ELSE Applied(after[n - 1], instructions[n])
    IN after[Len(instructions)]

(* Two weights differ by no more than one rounding for each sentence that     *)
(* the child was started for or has been given since.                         *)
Near(v, w) ==
    LET drift == (decoder_age + 1) * Rounding
    IN v - w <= drift /\ w - v <= drift

(* The child decodes with the weights that the trainer has, up to the         *)
(* roundings of their text (sbmt_decoder.py:175, 182), which add up because   *)
(* oldweights is exact (185): although weights are sent as differences        *)
(* through a queue, and children die, are asked again any number of times and *)
(* are replaced, the instructions under way always bring the child to within  *)
(* one rounding per sentence of what the trainer believes it has, so that the *)
(* replacement of an old child bounds the drift.                              *)
WeightsArrive == alive => Near(Brought(childweights, inbox), oldweights)

(* What translate() accepts answers the sentence that was asked, was decoded  *)
(* with the present weights up to the drift and with that sentence's grammar  *)
(* only, or is the dummy forest after too many restarts: no line of an        *)
(* earlier request that was given up is taken for the answer.                 *)
AcceptsItsAnswer ==
    [][pc # "idle" /\ pc' = "idle" =>
        \/ /\ line'.sentence = sentence /\ line'.kind = "forest" /\ line'.grammars = 1
           /\ Near(line'.weights, weights)
        \/ line'.sentence = noparse /\ restarts' > MaxRestarts]_vars

(* A translate() whose child lives and gives lines that can be read at least  *)
(* in the end returns: exceptions, restarts and repeated requests do not go   *)
(* on for ever.  Three things the code does not survive are left out: lines   *)
(* that are no forest without end, which are asked again without a count (the *)
(* comment at sbmt_decoder.py:262 says so), a child that died and is never    *)
(* replaced on that same path, and join_forests, which waits for a pop that   *)
(* instruct() sends only once it has read the line.                           *)
TranslateReturns ==
    ~joined /\ <>[]~(pc = "check" /\ line.kind = "bad")
        => (pc # "idle" ~> (pc = "idle" \/ ~alive))
=============================================================================
