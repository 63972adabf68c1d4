--------------------------- MODULE MCQwenPipeline ---------------------------
(* QwenPipeline.  Files of two to four blocks of three weights, with a light *)
(* or a heavy head, in BF16 or not, on one to four devices of three, planned  *)
(* or split by hand.  Those that go on to serve have one stage, two stages of *)
(* both kinds of block, or two and three of which the second has no recurrent *)
(* state, so that reset does not wait for it.  Prompts of one token           *)
(* (decoded), of two (two chunks) and of five (two chunks of two tokens and   *)
(* one of one); the longer output is too long for the longest prompt.         *)
EXTENDS QwenPipeline

Both == {"full", "linear"}
MCLayouts == {<<Both>>, <<Both, Both>>, <<Both, {"full"}>>,
              <<Both, {"full"}, {"linear"}>>}
Kinds == {<<"full", "linear">>, <<"linear", "full", "full">>, <<"full", "linear", "full", "linear">>,
          <<"linear", "full", "full", "linear">>}
TensorOf(b, bf16) == [bf16 |-> bf16, elements |-> b * 16, bytes |-> b]
MCFiles ==
  UNION {{[blocks |-> [i \in DOMAIN k |-> [kind |-> k[i], tensors |-> <<TensorOf(1, d), TensorOf(w[i], FALSE)>>]],
           embd |-> TensorOf(h, d), head |-> <<TensorOf(1, FALSE)>>, tied |-> t] :
            w \in [DOMAIN k -> {1, 4, 9}], h \in {1, 20}, t \in BOOLEAN, d \in BOOLEAN} : k \in Kinds}
MCCounts == {<<>>, <<2, 2>>, <<3, 1>>, <<2, 0>>}
MCToken == {"x"}
MCPrompts == {<<"a">>, <<"b", "c">>, <<"d", "e", "f", "g", "h">>}
MCLengths == {1, 2}
=============================================================================
