------------------------------ MODULE MCQwenMtp ------------------------------
(* QwenMtp with three tokens and prompts of one and two tokens.  The picks  *)
(* depend on the length and the last token of the context, so a row that is *)
(* one off shows; some contexts end the text.                               *)
EXTENDS QwenMtp

MCToken == {"a", "b", "eos"}
MCPrompts == {<<"a">>, <<"b", "a">>}
MCLengths == {1, 2, 3, 5}
MCDrafts == 1 .. 3
MCKinds == {"full", "linear"}
MCArgmax(c) == IF Len(c) = 6 \/ (Len(c) = 4 /\ c[1] = "a") THEN "eos"
               ELSE IF c[Len(c)] = "a" /\ Len(c) # 3 THEN "b" ELSE "a"
=============================================================================
