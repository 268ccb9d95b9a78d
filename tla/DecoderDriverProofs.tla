------------------------ MODULE DecoderDriverProofs -------------------------
(***************************************************************************)
(* Proofs about DecoderDriver.                                             *)
(*                                                                         *)
(* The inductive invariant says what may be under way to the child in each *)
(* position of translate(): the "pop-grammar;" of the sentence before,     *)
(* then the weights, then the sentence, less what the child has done.      *)
(* Never are two requests under way, whatever died or was asked again.     *)
(***************************************************************************)
EXTENDS DecoderDriver, SequenceTheorems, TLAPS

Pop == [op |-> "pop", arg |-> 0]
Ask == [op |-> "decode", arg |-> sentence]
Setting == [op : {"weights", "diff"}, arg : Int]

(* The child has the weights that were sent, up to the drift. *)
Set == Near(childweights, oldweights)

(* x will give them to it. *)
Sets(x) == x \in Setting /\ Near(Applied(childweights, x), oldweights)

(* Before the weights are sent there is room for one more rounding, unless    *)
(* they are sent again and their difference is nothing.                       *)
Room ==
    \/ oldweights = weights
    \/ /\ childweights - oldweights <= decoder_age * Rounding
       /\ oldweights - childweights <= decoder_age * Rounding

UnderWay ==
    \/ /\ pc \in {"idle", "weights", "check", "except"} /\ outbox = <<>> /\ held = <<>> /\ Set
       /\ \/ inbox = <<>> /\ grammars = 0
          \/ inbox = <<Pop>> /\ grammars = 1
    \/ /\ pc \in {"instruct", "except"} /\ outbox = <<>> /\ held = <<>>
       /\ \/ inbox = <<>> /\ grammars = 0 /\ Set
          \/ \E x \in Setting : inbox = <<x>> /\ grammars = 0 /\ Sets(x)
          \/ \E x \in Setting : inbox = <<Pop, x>> /\ grammars = 1 /\ Sets(x)
    \/ /\ pc = "read" /\ outbox = <<>> /\ held = <<>>
       /\ \/ inbox = <<Ask>> /\ grammars = 0 /\ Set
          \/ \E x \in Setting : inbox = <<x, Ask>> /\ grammars = 0 /\ Sets(x)
          \/ \E x \in Setting : inbox = <<Pop, x, Ask>> /\ grammars = 1 /\ Sets(x)
    \/ pc = "read" /\ (outbox # <<>> \/ held # <<>>) /\ inbox = <<>> /\ grammars = 1 /\ Set

(* The lines that may come as an answer. *)
Answers ==
    {a \in Line : /\ a.sentence = sentence /\ a.kind # "eof" /\ a.grammars = 1
                  /\ Near(a.weights, weights)}

Answered ==
    /\ \/ outbox = <<>>
       \/ pc = "read" /\ held = <<>> /\ \E a \in Answers : outbox = <<a>>
    /\ \/ held = <<>>
       \/ pc = "read" /\ outbox = <<>> /\ \E a \in Answers : held = <<a>>
    /\ pc = "check" => line \in Answers \cup {EndOfFile}

Asked ==
    /\ pc \in {"instruct", "read", "check"} => oldweights = weights
    /\ pc # "idle" => sentence \in Sentences /\ restarts <= MaxRestarts

Inv ==
    /\ TypeOK /\ Answered /\ Asked
    /\ alive => UnderWay
    /\ alive /\ pc = "weights" => Room
    /\ ~alive => inbox = <<>> /\ held = <<>>
-----------------------------------------------------------------------------
(* Facts about sequences and about Brought. *)

LEMMA OneElement ==
    ASSUME NEW a
    PROVE  /\ Append(<<>>, a) = <<a>> /\ Head(<<a>>) = a /\ Tail(<<a>>) = <<>> /\ <<a>> # <<>>
<1>1. <<>> \in Seq({a}) /\ Append(<<>>, a) = <<a>> /\ Head(<<a>>) = a /\ <<a>> # <<>>
  OBVIOUS
<1>2. Tail(<<a>>) = <<>>
  BY <1>1, HeadTailAppend
<1> QED BY <1>1, <1>2

LEMMA TwoElements ==
    ASSUME NEW a, NEW b
    PROVE  /\ Append(<<a>>, b) = <<a, b>>
           /\ Head(<<a, b>>) = a /\ Tail(<<a, b>>) = <<b>> /\ <<a, b>> # <<>>
<1>1. <<a>> \in Seq({a, b}) /\ <<a, b>> \in Seq({a, b}) /\ Append(<<a>>, b) \in Seq({a, b})
  OBVIOUS
<1>2. Len(Append(<<a>>, b)) = Len(<<a, b>>)
  OBVIOUS
<1>3. \A i \in 1..Len(Append(<<a>>, b)) : Append(<<a>>, b)[i] = <<a, b>>[i]
  OBVIOUS
<1>4. Append(<<a>>, b) = <<a, b>>
  BY <1>1, <1>2, <1>3, SeqEqual
<1>5. Head(<<a, b>>) = a /\ <<a, b>> # <<>>
  OBVIOUS
<1>6. Tail(<<a, b>>) = <<b>>
  BY <1>1, <1>4, OneElement, HeadTailAppend
<1> QED BY <1>4, <1>5, <1>6

LEMMA ThreeElements ==
    ASSUME NEW a, NEW b, NEW c
    PROVE  /\ Append(<<a, b>>, c) = <<a, b, c>>
           /\ Head(<<a, b, c>>) = a /\ Tail(<<a, b, c>>) = <<b, c>> /\ <<a, b, c>> # <<>>
<1> DEFINE S == {a, b, c}
<1>1. <<a, b>> \in Seq(S) /\ <<a, b, c>> \in Seq(S) /\ Append(<<a, b>>, c) \in Seq(S)
  OBVIOUS
<1>2. Len(Append(<<a, b>>, c)) = Len(<<a, b, c>>)
  OBVIOUS
<1>3. \A i \in 1..Len(Append(<<a, b>>, c)) : Append(<<a, b>>, c)[i] = <<a, b, c>>[i]
  OBVIOUS
<1> HIDE DEF S
<1>4. Append(<<a, b>>, c) = <<a, b, c>>
  BY <1>1, <1>2, <1>3, SeqEqual
<1>5. Head(<<a, b, c>>) = a /\ <<a, b, c>> # <<>>
  OBVIOUS
<1>6. Tail(<<a, b, c>>) = <<b, c>>
  BY <1>1, <1>4, TwoElements, HeadTailAppend
<1> QED BY <1>4, <1>5, <1>6

(* The recursive function of Brought exists: it is given by its four values. *)
LEMMA BroughtFcn ==
    ASSUME NEW w, NEW S, NEW box \in Seq(S), Len(box) <= 3
    PROVE  \E g : /\ g = [n \in 0..Len(box) |-> IF n = 0 THEN w ELSE Applied(g[n - 1], box[n])]
                  /\ Brought(w, box) = g[Len(box)]
<1> DEFINE a1 == Applied(w, box[1])
           a2 == Applied(a1, box[2])
           a3 == Applied(a2, box[3])
           g == [n \in 0..Len(box) |-> IF n = 0 THEN w ELSE IF n = 1 THEN a1
                                       ELSE IF n = 2 THEN a2 ELSE a3]
           after == CHOOSE h : h = [n \in 0..Len(box) |->
                                       IF n = 0 THEN w ELSE Applied(h[n - 1], box[n])]
<1>1. g = [n \in 0..Len(box) |-> IF n = 0 THEN w ELSE Applied(g[n - 1], box[n])]
  <2> SUFFICES ASSUME NEW n \in 0..Len(box)
               PROVE  g[n] = IF n = 0 THEN w ELSE Applied(g[n - 1], box[n])
    OBVIOUS
  <2> HIDE DEF a1, a2, a3
  <2>1. n = 0 \/ n = 1 \/ n = 2 \/ n = 3
    <3> HIDE DEF g, after
    <3> QED OBVIOUS
  <2> QED BY <2>1 DEF a1, a2, a3
<1>2. \E h : h = [n \in 0..Len(box) |-> IF n = 0 THEN w ELSE Applied(h[n - 1], box[n])]
  BY <1>1
<1>3. after = [n \in 0..Len(box) |-> IF n = 0 THEN w ELSE Applied(after[n - 1], box[n])]
  BY <1>2
<1>4. Brought(w, box) = after[Len(box)]
  BY DEF Brought
<1> QED BY <1>3, <1>4

LEMMA BroughtNone ==
    ASSUME NEW w
    PROVE  Brought(w, <<>>) = w
<1> DEFINE s == <<>>
<1>1. Len(s) = 0
  OBVIOUS
<1>0. s \in Seq({w}) /\ Len(s) <= 3
  OBVIOUS
<1> HIDE DEF s
<1>2. PICK g : /\ g = [n \in 0..Len(s) |-> IF n = 0 THEN w ELSE Applied(g[n - 1], s[n])]
               /\ Brought(w, s) = g[Len(s)]
  BY <1>0, BroughtFcn
<1>3. g[0] = w BY <1>1, <1>2
<1>4. Brought(w, s) = w BY <1>1, <1>2, <1>3
<1> QED BY <1>4 DEF s

LEMMA BroughtOne ==
    ASSUME NEW w, NEW a
    PROVE  Brought(w, <<a>>) = Applied(w, a)
<1> DEFINE s == <<a>>
<1>1. Len(s) = 1 /\ s[1] = a OBVIOUS
<1>0. s \in Seq({a}) /\ Len(s) <= 3
  OBVIOUS
<1> HIDE DEF s
<1>2. PICK g : /\ g = [n \in 0..Len(s) |-> IF n = 0 THEN w ELSE Applied(g[n - 1], s[n])]
               /\ Brought(w, s) = g[Len(s)]
  BY <1>0, BroughtFcn
<1>3. g[0] = w BY <1>1, <1>2
<1>4. g[1] = Applied(w, a) BY <1>1, <1>2, <1>3
<1>5. Brought(w, s) = Applied(w, a) BY <1>1, <1>2, <1>4
<1> QED BY <1>5 DEF s

LEMMA BroughtTwo ==
    ASSUME NEW w, NEW a, NEW b
    PROVE  Brought(w, <<a, b>>) = Applied(Applied(w, a), b)
<1> DEFINE s == <<a, b>>
<1>1. Len(s) = 2 /\ s[1] = a /\ s[2] = b OBVIOUS
<1>0. s \in Seq({a, b}) /\ Len(s) <= 3
  OBVIOUS
<1> HIDE DEF s
<1>2. PICK g : /\ g = [n \in 0..Len(s) |-> IF n = 0 THEN w ELSE Applied(g[n - 1], s[n])]
               /\ Brought(w, s) = g[Len(s)]
  BY <1>0, BroughtFcn
<1>3. g[0] = w BY <1>1, <1>2
<1>4. g[1] = Applied(w, a) BY <1>1, <1>2, <1>3
<1>5. g[2] = Applied(Applied(w, a), b) BY <1>1, <1>2, <1>4
<1>6. Brought(w, s) = Applied(Applied(w, a), b) BY <1>1, <1>2, <1>5
<1> QED BY <1>6 DEF s

LEMMA BroughtThree ==
    ASSUME NEW w, NEW a, NEW b, NEW c
    PROVE  Brought(w, <<a, b, c>>) = Applied(Applied(Applied(w, a), b), c)
<1> DEFINE s == <<a, b, c>>
<1>1. Len(s) = 3 /\ s[1] = a /\ s[2] = b /\ s[3] = c OBVIOUS
<1>0. s \in Seq({a, b, c}) /\ Len(s) <= 3
  OBVIOUS
<1> HIDE DEF s
<1>2. PICK g : /\ g = [n \in 0..Len(s) |-> IF n = 0 THEN w ELSE Applied(g[n - 1], s[n])]
               /\ Brought(w, s) = g[Len(s)]
  BY <1>0, BroughtFcn
<1>3. g[0] = w BY <1>1, <1>2
<1>4. g[1] = Applied(w, a) BY <1>1, <1>2, <1>3
<1>5. g[2] = Applied(Applied(w, a), b) BY <1>1, <1>2, <1>4
<1>6. g[3] = Applied(Applied(Applied(w, a), b), c) BY <1>1, <1>2, <1>5
<1>7. Brought(w, s) = Applied(Applied(Applied(w, a), b), c) BY <1>1, <1>2, <1>6
<1> QED BY <1>7 DEF s
-----------------------------------------------------------------------------
(* The invariant, action by action. *)

LEMMA AgeIsNatural == ASSUME NEW n \in 0..MaxAge PROVE n \in Nat /\ n + 1 \in Nat
<1>1. MaxAge \in Int
  BY DriverAssumption
<1> QED BY <1>1

LEMMA TypeFacts == ASSUME Inv PROVE
    /\ 0 \in Weights /\ oldweights \in Int /\ weights \in Int /\ childweights \in Int
    /\ decoder_age \in Nat /\ Rounding \in Nat
    /\ EndOfFile \in Line
    /\ \A s \in Sentences : \A k \in {"forest", "bad", "raises"}, w \in Int, g \in Nat :
            [sentence |-> s, kind |-> k, weights |-> w, grammars |-> g] \in Line
<1>0. decoder_age \in 0..MaxAge
  BY DEF Inv, TypeOK
<1>1. /\ 0 \in Weights /\ oldweights \in Int /\ weights \in Int /\ childweights \in Int
      /\ decoder_age \in Nat /\ Rounding \in Nat
  BY <1>0, AgeIsNatural, DriverAssumption, TextAssumption DEF Inv, TypeOK
<1>2. /\ EndOfFile \in Line
      /\ \A s \in Sentences : \A k \in {"forest", "bad", "raises"}, w \in Int, g \in Nat :
            [sentence |-> s, kind |-> k, weights |-> w, grammars |-> g] \in Line
  BY DEF Line, EndOfFile
<1> QED BY <1>1, <1>2

(* One rounding more for one sentence more. *)
LEMMA Product ==
    ASSUME NEW a \in Nat
    PROVE  /\ a * Rounding \in Nat /\ (a + 1) * Rounding = a * Rounding + Rounding
           /\ 0 * Rounding = 0
BY TextAssumption

(* The text of a difference of weights. *)
LEMMA TextFacts ==
    ASSUME NEW v \in Weights, NEW w \in Weights
    PROVE  /\ Shown(v - w) \in Int /\ Shown(v) \in Int
           /\ Shown(v - w) - (v - w) <= Rounding /\ (v - w) - Shown(v - w) <= Rounding
           /\ Shown(v) - v <= Rounding /\ v - Shown(v) <= Rounding
<1>1. 0 \in Weights /\ v \in Int /\ w \in Int /\ v - 0 = v
  BY DriverAssumption
<1>2. Shown(v - w) \in Int /\ Shown(v - w) - (v - w) \in -Rounding..Rounding
  BY TextAssumption
<1>3. Shown(v - 0) \in Int /\ Shown(v - 0) - (v - 0) \in -Rounding..Rounding
  BY <1>1, TextAssumption
<1>4. Shown(v) \in Int /\ Shown(v) - v \in -Rounding..Rounding
  BY <1>1, <1>3
<1>5. Rounding \in Nat
  BY TextAssumption
<1> HIDE DEF Near
<1>6. (v - w) - Shown(v - w) = -(Shown(v - w) - (v - w)) /\ v - Shown(v) = -(Shown(v) - v)
  BY <1>1, <1>2, <1>4
<1> QED BY <1>1, <1>2, <1>4, <1>5, <1>6

LEMMA InitInv == Init => Inv
<1> SUFFICES ASSUME Init PROVE Inv
  OBVIOUS
<1>1. TypeOK
  BY DriverAssumption, EmptySeq DEF Init, TypeOK, EndOfFile, Line
<1>2. Set
  BY Product, DriverAssumption DEF Init, Set, Near
<1> QED BY <1>1, <1>2 DEF Init, Inv, Answered, Asked, UnderWay

LEMMA UpdateInv == ASSUME Inv, Update PROVE Inv'
<1>1. /\ pc = "idle" /\ weights' \in Weights
      /\ UNCHANGED <<pc, sentence, restarts, line, oldweights, decoder_age, joined, child>>
  BY DEF Update
<1>2. TypeOK'
  BY <1>1 DEF Inv, TypeOK, child
<1>3. Answered' /\ Asked' /\ (~alive => inbox = <<>> /\ held = <<>>)' /\ (alive /\ pc = "weights" => Room)'
  BY <1>1 DEF Inv, Answered, Asked, child
<1>4. ASSUME alive PROVE UnderWay'
  BY <1>1, <1>4 DEF Inv, UnderWay, Set, Near, child, Pop
<1> QED BY <1>1, <1>2, <1>3, <1>4 DEF Inv, child

(* What holds of a child that was just started. *)
LEMMA FreshFacts ==
    ASSUME Inv, Fresh, oldweights' = 0, decoder_age' \in 0..MaxAge
    PROVE  /\ childweights' \in Int /\ grammars' \in Nat /\ oldweights' \in Weights
           /\ alive' \in BOOLEAN
           /\ inbox' \in Seq(Instruction) /\ outbox' \in Seq(Line) /\ held' \in Seq(Line)
           /\ Set' /\ Room'
<1>1. /\ childweights' = 0 /\ grammars' = 0 /\ alive' = TRUE
      /\ inbox' = <<>> /\ outbox' = <<>> /\ held' = <<>>
  BY DEF Fresh
<1>2. decoder_age' \in Nat /\ decoder_age' * Rounding \in Nat /\ (decoder_age' + 1) * Rounding \in Nat
  <2>1. decoder_age' \in Nat /\ decoder_age' + 1 \in Nat
    BY AgeIsNatural
  <2> QED BY <2>1, Product
<1>3. Set' /\ Room'
  BY <1>1, <1>2 DEF Set, Near, Room
<1> QED BY <1>1, <1>3, EmptySeq, DriverAssumption

LEMMA TranslateInv == ASSUME NEW s \in Sentences, Inv, Translate(s) PROVE Inv'
<1>0. /\ pc = "idle" /\ pc' = "weights"
      /\ sentence' = s /\ restarts' = 0 /\ UNCHANGED <<line, weights, joined>>
  BY DEF Translate
<1>1. CASE /\ decoder_age >= MaxAge /\ decoder_age' = 1 /\ oldweights' = 0 /\ Fresh
  <2>1. decoder_age' \in 0..MaxAge
    BY <1>1, DriverAssumption
  <2>2. /\ childweights' \in Int /\ grammars' \in Nat /\ oldweights' \in Weights
        /\ alive' \in BOOLEAN
        /\ inbox' \in Seq(Instruction) /\ outbox' \in Seq(Line) /\ held' \in Seq(Line)
        /\ Set' /\ Room'
    BY <1>1, <2>1, FreshFacts
  <2>3. TypeOK'
    BY <1>0, <2>1, <2>2, DriverAssumption DEF Inv, TypeOK
  <2> QED BY <1>0, <1>1, <2>2, <2>3, DriverAssumption DEF Fresh, Inv, Answered, Asked, UnderWay
<1>2. CASE /\ decoder_age < MaxAge /\ decoder_age' = decoder_age + 1
           /\ UNCHANGED <<oldweights, child>>
  <2>1. TypeOK'
    BY <1>0, <1>2, DriverAssumption DEF Inv, TypeOK, child
  <2>2. ASSUME alive PROVE Set' /\ Room'
    <3>1. Set
      BY <1>0, <2>2 DEF Inv, UnderWay
    <3>2. decoder_age \in Nat /\ decoder_age' \in Nat /\ Rounding \in Nat
          /\ childweights \in Int /\ oldweights \in Int
      BY <1>2, TypeFacts
    <3>3. /\ (decoder_age' + 1) * Rounding = (decoder_age + 1) * Rounding + Rounding
          /\ decoder_age' * Rounding = (decoder_age + 1) * Rounding
          /\ (decoder_age + 1) * Rounding \in Nat
      BY <1>2, <3>2, Product
    <3> DEFINE d == (decoder_age + 1) * Rounding
    <3>4. childweights - oldweights <= d /\ oldweights - childweights <= d
      BY <3>1 DEF Set, Near
    <3>5. d \in Nat /\ (decoder_age' + 1) * Rounding = d + Rounding /\ decoder_age' * Rounding = d
      BY <3>3
    <3>6. childweights' = childweights /\ oldweights' = oldweights
      BY <1>2 DEF child
    <3> HIDE DEF d
    <3>7. childweights - oldweights <= d + Rounding /\ oldweights - childweights <= d + Rounding
      BY <3>2, <3>4, <3>5
    <3> QED BY <3>4, <3>5, <3>6, <3>7 DEF Set, Near, Room
  <2>3. ASSUME alive PROVE UnderWay'
    BY <1>0, <1>2, <2>2, <2>3 DEF Inv, UnderWay, Pop, child
  <2>4. Answered' /\ Asked' /\ (~alive => inbox = <<>> /\ held = <<>>)'
    BY <1>0, <1>2, DriverAssumption DEF Inv, Answered, Asked, child
  <2> QED BY <1>0, <1>2, <2>1, <2>2, <2>3, <2>4 DEF Inv, child
<1> QED BY <1>1, <1>2 DEF Translate

LEMMA SendWeightsInv == ASSUME Inv, send_weights PROVE Inv'
<1>0. /\ oldweights' = weights /\ pc' = "instruct" /\ pc = "weights"
      /\ UNCHANGED <<sentence, restarts, line, weights, decoder_age, joined,
                     alive, outbox, held, childweights, grammars>>
  BY DEF send_weights, send
<1>2. alive => Set /\ Room
  BY <1>0 DEF Inv, UnderWay
<1>a. weights \in Weights /\ oldweights \in Weights /\ Shown(0) = 0
  BY TextAssumption DEF Inv, TypeOK
<1> DEFINE d == decoder_age * Rounding
           e == (decoder_age + 1) * Rounding
<1>b. d \in Nat /\ e = d + Rounding /\ Rounding \in Nat
  BY Product, TypeFacts
<1>3. PICK x \in Setting :
        /\ inbox' = Sent(x)
        /\ alive => /\ Applied(childweights, x) - weights <= e
                    /\ weights - Applied(childweights, x) <= e
  <2>1. CASE oldweights = 0
    <3> DEFINE t == Shown(weights)
    <3>1. t \in Int /\ t - weights <= Rounding /\ weights - t <= Rounding
      BY <1>a, TextFacts
    <3>2. inbox' = Sent([op |-> "weights", arg |-> t])
      BY <2>1 DEF send_weights, send
    <3> HIDE DEF t, d, e
    <3> DEFINE y == [op |-> "weights", arg |-> t]
    <3>3. y \in Setting /\ Applied(childweights, y) = t
      BY <3>1 DEF Setting, Applied
    <3>4. t - weights <= e /\ weights - t <= e
      BY <1>b, <3>1, TypeFacts
    <3> QED BY <3>2, <3>3, <3>4
  <2>2. CASE oldweights # 0
    <3> DEFINE t == Shown(weights - oldweights)
    <3>1. /\ t \in Int /\ t - (weights - oldweights) <= Rounding
          /\ (weights - oldweights) - t <= Rounding
      BY <1>a, TextFacts
    <3>2. inbox' = Sent([op |-> "diff", arg |-> t])
      BY <2>2 DEF send_weights, send
    <3>3. oldweights = weights => t = 0
      BY <1>a, TypeFacts
    <3>4. alive => childweights - oldweights <= e /\ oldweights - childweights <= e
      BY <1>2 DEF Set, Near
    <3>5. alive => \/ oldweights = weights
                   \/ childweights - oldweights <= d /\ oldweights - childweights <= d
      BY <1>2 DEF Room
    <3> HIDE DEF t, d, e
    <3>6. alive => (childweights + t) - weights <= e /\ weights - (childweights + t) <= e
      <4>1. weights \in Int /\ oldweights \in Int /\ childweights \in Int
        BY TypeFacts
      <4>2. CASE alive /\ oldweights = weights
        BY <1>b, <3>1, <3>3, <3>4, <4>1, <4>2
      <4>3. CASE alive /\ oldweights # weights
        BY <1>b, <3>1, <3>5, <4>1, <4>3
      <4> QED BY <4>2, <4>3
    <3> DEFINE y == [op |-> "diff", arg |-> t]
    <3>7. y \in Setting /\ Applied(childweights, y) = childweights + t
      BY <3>1 DEF Setting, Applied
    <3> QED BY <3>2, <3>6, <3>7
  <2> QED BY <2>1, <2>2
<1>4. inbox' \in Seq(Instruction)
  BY <1>3 DEF Inv, TypeOK, Sent, Instruction, Setting
<1>5. TypeOK'
  BY <1>0, <1>4 DEF Inv, TypeOK
<1>6. (alive => UnderWay)'
  <2> SUFFICES ASSUME alive PROVE UnderWay'
    BY <1>0
  <2>1. /\ outbox = <<>> /\ held = <<>>
        /\ (inbox = <<>> /\ grammars = 0) \/ (inbox = <<Pop>> /\ grammars = 1)
    BY <1>0 DEF Inv, UnderWay
  <2>2. inbox = <<>> => inbox' = <<x>>
    BY <1>3, OneElement DEF Sent
  <2>3. inbox = <<Pop>> => inbox' = <<Pop, x>>
    <3>1. Append(<<Pop>>, x) = <<Pop, x>>
      BY TwoElements
    <3> QED BY <1>3, <3>1 DEF Sent
  <2>4. Sets(x)'
    BY <1>0, <1>3 DEF Sets, Near
  <2> QED BY <1>0, <1>3, <2>1, <2>2, <2>3, <2>4, Zenon DEF UnderWay, Pop
<1>7. Answered' /\ Asked' /\ (~alive => inbox = <<>> /\ held = <<>>)'
  BY <1>0, <1>3 DEF Inv, Answered, Asked, Sent
<1> QED BY <1>0, <1>5, <1>6, <1>7 DEF Inv

LEMMA InstructInv == ASSUME Inv, instruct PROVE Inv'
<1>0. /\ pc = "instruct"
      /\ UNCHANGED <<sentence, restarts, line, weights, oldweights, decoder_age, joined,
                     alive, outbox, held, childweights, grammars>>
  BY DEF instruct, send, child
<1>1. sentence \in Sentences /\ outbox = <<>> /\ held = <<>>
  BY <1>0 DEF Inv, Answered, Asked
<1>2. CASE sentence \notin Unpopped
  <2>1. pc' = "read" /\ inbox' = Sent(Ask) /\ Ask \in Instruction
    BY <1>1, <1>2 DEF instruct, send, Ask, Instruction
  <2>2. inbox' \in Seq(Instruction)
    BY <2>1 DEF Inv, TypeOK, Sent
  <2>3. TypeOK'
    BY <1>0, <2>1, <2>2 DEF Inv, TypeOK
  <2>4. Answered' /\ Asked' /\ (~alive => inbox = <<>> /\ held = <<>>)'
    BY <1>0, <1>1, <2>1 DEF Inv, Answered, Asked, Sent
  <2>5. ASSUME alive PROVE UnderWay'
    <3>1. Ask' = Ask /\ inbox' = Append(inbox, Ask)
      BY <1>0, <2>1, <2>5 DEF Ask, Sent
    <3>2. CASE inbox = <<>> /\ grammars = 0 /\ Set
      <4>1. inbox' = <<Ask>>
        BY <3>1, <3>2, OneElement
      <4> QED BY <1>0, <1>1, <2>1, <3>1, <3>2, <4>1 DEF UnderWay, Set, Near
    <3>3. ASSUME NEW x \in Setting, inbox = <<x>>, grammars = 0, Sets(x) PROVE UnderWay'
      <4>1. inbox' = <<x, Ask>>
        BY <3>1, <3>3, TwoElements
      <4> QED BY <1>0, <1>1, <2>1, <3>1, <3>3, <4>1, Zenon DEF UnderWay, Sets, Near
    <3>4. ASSUME NEW x \in Setting, inbox = <<Pop, x>>, grammars = 1, Sets(x) PROVE UnderWay'
      <4>1. inbox' = <<Pop, x, Ask>>
        BY <3>1, <3>4, ThreeElements
      <4> QED BY <1>0, <1>1, <2>1, <3>1, <3>4, <4>1, Zenon DEF UnderWay, Sets, Near, Pop
    <3> QED BY <1>0, <2>5, <3>2, <3>3, <3>4, Zenon DEF Inv, UnderWay
  <2> QED BY <1>0, <2>1, <2>3, <2>4, <2>5 DEF Inv
<1>3. CASE sentence \in Unpopped
  <2>1. pc' = "except" /\ inbox' = inbox
    BY <1>3 DEF instruct, child
  <2>2. TypeOK' /\ Answered' /\ Asked' /\ (~alive => inbox = <<>> /\ held = <<>>)'
    BY <1>0, <1>1, <2>1 DEF Inv, TypeOK, Answered, Asked
  <2>3. ASSUME alive PROVE UnderWay'
    <3>1. pc \notin {"idle", "weights", "check", "except", "read"}
      BY <1>0
    <3> QED BY <1>0, <2>1, <2>3, <3>1, Zenon DEF Inv, UnderWay, Set, Sets, Near, Pop
  <2> QED BY <1>0, <2>1, <2>2, <2>3 DEF Inv
<1> QED BY <1>2, <1>3

LEMMA ReadInv == ASSUME Inv, read PROVE Inv'
<1>0. /\ pc = "read" /\ pc' = "check" /\ inbox' = Sent(Pop)
      /\ UNCHANGED <<sentence, restarts, weights, oldweights, decoder_age, joined,
                     alive, held, childweights, grammars>>
  BY DEF read, Pop
<1>1. outbox' = <<>> /\ held = <<>> /\ line' \in Answers \cup {EndOfFile}
  <2>1. CASE outbox # <<>>
    <3>1. PICK a \in Answers : outbox = <<a>> /\ held = <<>>
      BY <2>1 DEF Inv, Answered
    <3> QED BY <2>1, <3>1, OneElement DEF read
  <2>2. CASE outbox = <<>>
    BY <2>2 DEF read, Inv
  <2> QED BY <2>1, <2>2
<1>2. (Answers \cup {EndOfFile})' = Answers \cup {EndOfFile}
  BY <1>0 DEF Answers, Near, EndOfFile
<1>3. Answers \cup {EndOfFile} \subseteq Line
  BY TypeFacts DEF Answers
<1>4. Pop \in Instruction /\ inbox' \in Seq(Instruction)
  BY <1>0 DEF Inv, TypeOK, Sent, Pop, Instruction
<1>5. TypeOK'
  BY <1>0, <1>1, <1>3, <1>4 DEF Inv, TypeOK
<1>6. Answered' /\ Asked' /\ (~alive => inbox = <<>> /\ held = <<>>)'
  BY <1>0, <1>1, <1>2 DEF Inv, Answered, Asked, Sent
<1>7. ASSUME alive PROVE UnderWay'
  <2>1. outbox # <<>>
    BY <1>7 DEF read
  <2>2. inbox = <<>> /\ grammars = 1 /\ Set
    BY <1>0, <1>7, <2>1 DEF Inv, UnderWay
  <2>3. inbox' = <<Pop>>
    BY <1>0, <1>7, <2>2, OneElement DEF Sent
  <2> QED BY <1>0, <1>1, <2>2, <2>3 DEF UnderWay, Set, Near, Pop
<1> QED BY <1>0, <1>5, <1>6, <1>7 DEF Inv

LEMMA CheckInv == ASSUME Inv, check PROVE Inv'
<1>0. /\ pc = "check" /\ outbox = <<>> /\ held = <<>> /\ oldweights = weights
      /\ UNCHANGED <<sentence, restarts, line, weights, oldweights, decoder_age, joined,
                     alive, inbox, outbox, held, childweights, grammars>>
  BY DEF check, child, Inv, Answered, Asked
<1>1. line \in Answers \cup {EndOfFile}
  BY <1>0 DEF Inv, Answered
<1>2. pc' \in {"idle", "weights", "except"}
  <2>1. line.kind \in {"eof", "bad", "raises", "forest"}
    BY <1>1 DEF Answers, Line, EndOfFile
  <2> QED BY <2>1 DEF check
<1>3. TypeOK'
  BY <1>0, <1>2 DEF Inv, TypeOK
<1>4. Answered' /\ Asked' /\ (~alive => inbox = <<>> /\ held = <<>>)'
  BY <1>0, <1>2 DEF Inv, Answered, Asked
<1>5. ASSUME alive PROVE UnderWay' /\ Room'
  BY <1>0, <1>2, <1>5 DEF Inv, UnderWay, Set, Near, Room, Pop
<1> QED BY <1>0, <1>3, <1>4, <1>5 DEF Inv

LEMMA ExceptInv == ASSUME Inv, except PROVE Inv'
<1>0. /\ pc = "except" /\ restarts' = restarts + 1 /\ pc' \in {"weights", "idle"}
      /\ (pc' = "weights" => restarts' <= MaxRestarts)
      /\ line' \in {line, [EndOfFile EXCEPT !.kind = "forest"]}
      /\ Fresh /\ decoder_age' = 0 /\ oldweights' = 0
      /\ UNCHANGED <<sentence, weights, joined>>
  BY DEF except, start_decoder
<1>1. restarts <= MaxRestarts /\ sentence \in Sentences
  BY <1>0 DEF Inv, Asked
<1>2. [EndOfFile EXCEPT !.kind = "forest"] \in Line
  BY DEF EndOfFile, Line
<1>3. restarts' \in 0..MaxRestarts + 1 /\ decoder_age' \in 0..MaxAge
  BY <1>0, <1>1, DriverAssumption DEF Inv, TypeOK
<1>4. /\ childweights' \in Int /\ grammars' \in Nat /\ oldweights' \in Weights
      /\ alive' \in BOOLEAN
      /\ inbox' \in Seq(Instruction) /\ outbox' \in Seq(Line) /\ held' \in Seq(Line)
      /\ Set' /\ Room'
  BY <1>0, <1>3, FreshFacts
<1>5. TypeOK'
  BY <1>0, <1>2, <1>3, <1>4, DriverAssumption DEF Inv, TypeOK
<1> QED BY <1>0, <1>1, <1>4, <1>5, DriverAssumption DEF Fresh, Inv, Answered, Asked, UnderWay

(* The answer that is held, if there is one, is the only line. *)
LEMMA FlushFacts ==
    ASSUME Inv
    PROVE  \/ held = <<>> /\ outbox \o held = outbox
           \/ outbox = <<>> /\ outbox \o held = held
<1>1. outbox \in Seq(Line) /\ held \in Seq(Line) /\ (outbox = <<>> \/ held = <<>>)
  BY DEF Inv, TypeOK, Answered
<1> QED BY <1>1, ConcatEmptySeq

LEMMA DieInv == ASSUME Inv, Die PROVE Inv'
<1>0. /\ ~alive' /\ inbox' = <<>> /\ held' = <<>> /\ alive' \in BOOLEAN
      /\ UNCHANGED <<pc, sentence, restarts, line, weights, oldweights, decoder_age, joined,
                     childweights, grammars>>
  BY DEF Die
<1>1. outbox' \in {outbox, held} /\ (outbox' = held => outbox = <<>>)
      /\ (outbox' # held => outbox' = outbox /\ held = <<>>)
  BY FlushFacts DEF Die
<1>2. outbox' \in Seq(Line) /\ held' \in Seq(Line) /\ inbox' \in Seq(Instruction)
  BY <1>0, <1>1, EmptySeq DEF Inv, TypeOK
<1>3. TypeOK'
  BY <1>0, <1>2 DEF Inv, TypeOK
<1>4. Answers' = Answers
  BY <1>0 DEF Answers, Near
<1>5. Answered'
  BY <1>0, <1>1, <1>4 DEF Inv, Answered, EndOfFile
<1> QED BY <1>0, <1>3, <1>5 DEF Inv, Asked

(* One instruction is worked off. *)
LEMMA WorkInv ==
    ASSUME Inv, NEW kind \in {"forest", "bad", "raises"}, Work(kind)
    PROVE  Inv'
<1>0. /\ alive /\ inbox # <<>> /\ inbox' = Tail(inbox)
      /\ UNCHANGED <<pc, sentence, restarts, line, weights, oldweights, decoder_age, joined, alive>>
  BY DEF Work
<1>1. UnderWay
  BY <1>0 DEF Inv
<1>2. Ask' = Ask /\ Answers' = Answers
  BY <1>0 DEF Ask, Answers, Near
<1> DEFINE Goal == /\ outbox' \in Seq(Line) /\ held' \in Seq(Line)
                   /\ childweights' \in Int /\ grammars' \in Nat
                   /\ \/ outbox' = <<>>
                      \/ pc = "read" /\ held' = <<>> /\ \E a \in Answers : outbox' = <<a>>
                   /\ \/ held' = <<>>
                      \/ pc = "read" /\ outbox' = <<>> /\ \E a \in Answers : held' = <<a>>
                   /\ UnderWay'
                   /\ pc = "weights" => Room'
<1>3. /\ childweights \in Int /\ oldweights \in Int /\ outbox \in Seq(Line) /\ held \in Seq(Line)
      /\ <<>> \in Seq(Line)
  BY TypeFacts, EmptySeq DEF Inv, TypeOK
<1>4. inbox' \in Seq(Instruction)
  BY <1>0 DEF Inv, TypeOK
<1>5. ASSUME Head(inbox) = Pop, outbox = <<>>, held = <<>>
      PROVE  childweights' = childweights /\ grammars' = grammars - 1 /\ outbox' = <<>> /\ held' = <<>>
  <2>1. outbox \o held = <<>>
    BY <1>5, FlushFacts
  <2> QED BY <1>5, <2>1 DEF Work, Pop, Applied
<1>6. ASSUME NEW x \in Setting, Head(inbox) = x
      PROVE  /\ childweights' = Applied(childweights, x) /\ grammars' = grammars
             /\ outbox' = outbox /\ held' = held
  BY <1>6 DEF Work, Setting
<1>7. ASSUME Head(inbox) = Ask, outbox = <<>>, held = <<>>
      PROVE  /\ childweights' = childweights /\ grammars' = grammars + 1
             /\ \/ outbox' = <<Answer(sentence, kind)>> /\ held' = <<>>
                \/ held' = <<Answer(sentence, kind)>> /\ outbox' = <<>>
  <2>1. Append(<<>>, Answer(sentence, kind)) = <<Answer(sentence, kind)>>
    BY OneElement
  <2> HIDE DEF Answer
  <2> QED BY <1>7, <2>1 DEF Work, Ask, Applied
<1>a. ASSUME NEW x \in Setting, Sets(x), childweights' = Applied(childweights, x)
      PROVE  childweights' \in Int /\ Set'
  <2>1. Applied(childweights, x) \in Int
    BY <1>3 DEF Setting, Applied
  <2> QED BY <1>0, <1>a, <2>1 DEF Set, Sets, Near
<1>b. ASSUME childweights' = childweights
      PROVE  (Set => Set') /\ (Room => Room') /\ \A x \in Setting : Sets(x) => Sets(x)'
  BY <1>0, <1>b DEF Set, Sets, Near, Room
<1>8. ASSUME pc \in {"idle", "weights", "check", "except"}, outbox = <<>>, held = <<>>, Set,
             inbox = <<Pop>>, grammars = 1
      PROVE  Goal
  <2>1. Head(inbox) = Pop /\ inbox' = <<>>
    BY <1>0, <1>8, OneElement
  <2>2. childweights' = childweights /\ grammars' = 0 /\ outbox' = <<>> /\ held' = <<>>
    BY <1>5, <1>8, <2>1
  <2>3. Set' /\ (pc = "weights" => Room')
    BY <1>0, <1>8, <1>b, <2>2 DEF Inv
  <2> QED BY <1>0, <1>3, <1>8, <2>1, <2>2, <2>3 DEF UnderWay
<1>9. ASSUME NEW x \in Setting, pc \in {"instruct", "except"}, outbox = <<>>, held = <<>>,
             inbox = <<x>>, grammars = 0, Sets(x)
      PROVE  Goal
  <2>1. Head(inbox) = x /\ inbox' = <<>>
    BY <1>0, <1>9, OneElement
  <2>2. grammars' = 0 /\ outbox' = <<>> /\ held' = <<>> /\ childweights' \in Int /\ Set'
    BY <1>6, <1>9, <1>a, <2>1
  <2> QED BY <1>0, <1>3, <1>9, <2>1, <2>2 DEF UnderWay
<1>10. ASSUME NEW x \in Setting, pc \in {"instruct", "except"}, outbox = <<>>, held = <<>>,
              inbox = <<Pop, x>>, grammars = 1, Sets(x)
       PROVE  Goal
  <2>1. Head(inbox) = Pop /\ inbox' = <<x>>
    BY <1>0, <1>10, TwoElements
  <2>2. childweights' = childweights /\ grammars' = 0 /\ outbox' = <<>> /\ held' = <<>>
    BY <1>5, <1>10, <2>1
  <2>3. Sets(x)'
    BY <1>10, <1>b, <2>2
  <2> QED BY <1>0, <1>3, <1>10, <2>1, <2>2, <2>3 DEF UnderWay
<1>11. ASSUME pc = "read", inbox = <<Ask>>, grammars = 0, outbox = <<>>, held = <<>>, Set
       PROVE  Goal
  <2>1. Head(inbox) = Ask /\ inbox' = <<>>
    BY <1>0, <1>11, OneElement
  <2>2. /\ childweights' = childweights /\ grammars' = 1
        /\ \/ outbox' = <<Answer(sentence, kind)>> /\ held' = <<>>
           \/ held' = <<Answer(sentence, kind)>> /\ outbox' = <<>>
    BY <1>7, <1>11, <2>1
  <2>3. Answer(sentence, kind) \in Line
    BY <1>11, TypeFacts DEF Answer, Inv, Asked
  <2>4. Answer(sentence, kind) \in Answers
    BY <1>11, <2>3 DEF Answer, Answers, Set, Inv, Asked
  <2> HIDE DEF Answer
  <2> HIDE DEF Goal
  <2>5. outbox' \in Seq(Line) /\ held' \in Seq(Line) /\ (outbox' # <<>> \/ held' # <<>>)
    <3>1. /\ <<Answer(sentence, kind)>> \in Seq(Line)
          /\ <<Answer(sentence, kind)>> # <<>>
      BY <2>3
    <3>2. CASE outbox' = <<Answer(sentence, kind)>> /\ held' = <<>>
      BY <1>3, <3>1, <3>2
    <3>3. CASE held' = <<Answer(sentence, kind)>> /\ outbox' = <<>>
      BY <1>3, <3>1, <3>3
    <3> QED BY <2>2, <3>2, <3>3
  <2>6. UnderWay'
    BY <1>0, <1>11, <1>b, <2>1, <2>2, <2>5 DEF UnderWay
  <2> QED BY <1>3, <1>11, <2>2, <2>4, <2>5, <2>6 DEF Goal
<1>12. ASSUME NEW x \in Setting, pc = "read", outbox = <<>>, held = <<>>,
              inbox = <<x, Ask>>, grammars = 0, Sets(x)
       PROVE  Goal
  <2>1. Head(inbox) = x /\ inbox' = <<Ask>>
    BY <1>0, <1>12, TwoElements
  <2>2. grammars' = 0 /\ outbox' = <<>> /\ held' = <<>> /\ childweights' \in Int /\ Set'
    BY <1>6, <1>12, <1>a, <2>1
  <2> QED BY <1>0, <1>2, <1>3, <1>12, <2>1, <2>2 DEF UnderWay
<1>13. ASSUME NEW x \in Setting, pc = "read", outbox = <<>>, held = <<>>,
              inbox = <<Pop, x, Ask>>, grammars = 1, Sets(x)
       PROVE  Goal
  <2>1. Head(inbox) = Pop /\ inbox' = <<x, Ask>>
    BY <1>0, <1>13, ThreeElements
  <2>2. childweights' = childweights /\ grammars' = 0 /\ outbox' = <<>> /\ held' = <<>>
    BY <1>5, <1>13, <2>1
  <2>3. Sets(x)'
    BY <1>13, <1>b, <2>2
  <2> QED BY <1>0, <1>2, <1>3, <1>13, <2>1, <2>2, <2>3 DEF UnderWay
<1>14. Goal
  <2> HIDE DEF Goal
  <2> QED BY <1>0, <1>1, <1>8, <1>9, <1>10, <1>11, <1>12, <1>13, Zenon DEF UnderWay
<1>15. TypeOK'
  BY <1>0, <1>4, <1>14 DEF Inv, TypeOK
<1> QED BY <1>0, <1>2, <1>14, <1>15 DEF Inv, Answered, Asked

LEMMA NextInv == Inv /\ [Next]_vars => Inv'
<1> SUFFICES ASSUME Inv, [Next]_vars PROVE Inv'
  OBVIOUS
<1>1. CASE WorkWell \/ WorkBadly
  BY <1>1, WorkInv DEF WorkWell, WorkBadly
<1>2. CASE UNCHANGED vars
  BY <1>2 DEF vars, child, Inv, TypeOK, Answered, Answers, Asked, UnderWay, Set, Sets, Room, Near, Ask, Pop
<1> QED BY <1>1, <1>2, UpdateInv, TranslateInv, SendWeightsInv, InstructInv, ReadInv,
           CheckInv, ExceptInv, DieInv DEF Next, translate

LEMMA InvHolds == Spec => []Inv
BY InitInv, NextInv, PTL DEF Spec
-----------------------------------------------------------------------------
(* The theorems. *)

(* Every variable keeps its type: in particular never are more grammars       *)
(* popped from the child's stack than were pushed, whatever was asked again.  *)
THEOREM TypeCorrect == Spec => []TypeOK
<1>1. Inv => TypeOK
  BY DEF Inv
<1> QED BY <1>1, InvHolds, PTL

LEMMA InvArrive == Inv => WeightsArrive
<1> SUFFICES ASSUME Inv, alive PROVE Near(Brought(childweights, inbox), oldweights)
  BY DEF WeightsArrive
<1>1. ASSUME NEW w PROVE Applied(w, Pop) = w /\ Applied(w, Ask) = w
  BY DEF Applied, Pop, Ask
<1>2. UnderWay
  BY DEF Inv
<1>3. CASE inbox = <<>> /\ Set
  BY <1>3, BroughtNone DEF Set
<1>4. CASE inbox = <<Pop>> /\ Set
  BY <1>1, <1>4, BroughtOne DEF Set
<1>5. CASE inbox = <<Ask>> /\ Set
  BY <1>1, <1>5, BroughtOne DEF Set
<1>6. ASSUME NEW x \in Setting, Sets(x), inbox \in {<<x>>, <<Pop, x>>, <<x, Ask>>, <<Pop, x, Ask>>}
      PROVE  Near(Brought(childweights, inbox), oldweights)
  <2> DEFINE y == Applied(childweights, x)
  <2>1. Near(y, oldweights) /\ Applied(childweights, Pop) = childweights /\ Applied(y, Ask) = y
    BY <1>1, <1>6 DEF Sets
  <2>2. Brought(childweights, <<x>>) = y
    BY BroughtOne
  <2>3. Brought(childweights, <<Pop, x>>) = Applied(Applied(childweights, Pop), x)
    BY BroughtTwo
  <2>4. Brought(childweights, <<x, Ask>>) = Applied(y, Ask)
    BY BroughtTwo
  <2>5. Brought(childweights, <<Pop, x, Ask>>) = Applied(Applied(Applied(childweights, Pop), x), Ask)
    BY BroughtThree
  <2>6. Brought(childweights, inbox) = y
    BY <1>6, <2>1, <2>2, <2>3, <2>4, <2>5
  <2> QED BY <2>1, <2>6
<1> QED BY <1>2, <1>3, <1>4, <1>5, <1>6, Zenon DEF UnderWay

(* send_weights() sends the text of the difference to the exact weights it    *)
(* sent before.  For every child, every number of restarts, deaths and        *)
(* repeated requests, and every text that is off by at most Rounding, the     *)
(* instructions under way bring the child to the weights the trainer believes *)
(* it has, up to one rounding for each sentence the child was given, and one  *)
(* for the sentence it was started for.                                       *)
THEOREM WeightsAlwaysArrive == Spec => []WeightsArrive
BY InvArrive, InvHolds, PTL

LEMMA StepAccepts ==
    Inv /\ [Next]_vars =>
        [pc # "idle" /\ pc' = "idle" =>
            \/ /\ line'.sentence = sentence /\ line'.kind = "forest" /\ line'.grammars = 1
               /\ Near(line'.weights, weights)
            \/ line'.sentence = noparse /\ restarts' > MaxRestarts]_vars
<1> SUFFICES ASSUME Inv, Next, pc # "idle", pc' = "idle"
             PROVE  \/ line' \in Answers /\ line'.kind = "forest"
                    \/ line'.sentence = noparse /\ restarts' > MaxRestarts
  BY DEF Answers
<1>1. CASE check
  <2>1. line \in Answers \cup {EndOfFile}
    BY <1>1 DEF check, Inv, Answered
  <2>2. line' = line /\ line.kind = "forest"
    <3>1. line.kind \in {"eof", "bad", "raises", "forest"}
      BY DEF Inv, TypeOK, Line
    <3> QED BY <1>1, <3>1 DEF check
  <2> QED BY <2>1, <2>2 DEF EndOfFile
<1>2. CASE except
  BY <1>2 DEF except, EndOfFile
<1> QED BY <1>1, <1>2 DEF Next, translate, Update, Translate, send_weights, instruct, read,
           WorkWell, WorkBadly, Work, Die

(* translate() accepts only the answer to the sentence it was called for,     *)
(* decoded with the trainer's present weights up to the drift and with one    *)
(* grammar on the stack, or the dummy forest after too many restarts.         *)
THEOREM OnlyItsAnswer == Spec => AcceptsItsAnswer
BY InvHolds, StepAccepts, PTL DEF Spec, AcceptsItsAnswer
=============================================================================
