-------------------------- MODULE MCDecoderDriver ---------------------------
(* Instances of DecoderDriver for TLC. *)
EXTENDS DecoderDriver

MCWeights == {0, 14, 28, 42}

(* One significant digit of a number of at most two, where %g has six; a *)
(* half is rounded to the even digit.                                    *)
MCShown(v) ==
    LET size == IF v < 0 THEN -v ELSE v
        tens == size \div 10
        up == size % 10 > 5 \/ (size % 10 = 5 /\ tens % 2 = 1)
        text == IF size < 10 THEN size ELSE 10 * (IF up THEN tens + 1 ELSE tens)
    IN IF v < 0 THEN -text ELSE text
=============================================================================
