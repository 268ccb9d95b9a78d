---------------------------- MODULE MCDecodeRows ----------------------------
(* Instances of DecodeRows for TLC. *)
EXTENDS DecodeRows

(* An adjacent span, one in the middle and one that ends a row may throw. *)
SomeSpans == {<<1, 2>>, <<1, 3>>, <<0, 3>>}
=============================================================================
