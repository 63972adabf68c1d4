---------------------------- MODULE MCSpecDecode -----------------------------
(* SpecDecode on a three-token vocabulary, two prompts and at most four     *)
(* output tokens; the pick depends on the whole length of the context, so a *)
(* context that is too long, too short or holds a stale row picks           *)
(* differently.                                                             *)
EXTENDS SpecDecode

CONSTANTS a, b, e

MCPrompts == {<<a, b>>, <<b, a, a>>}

MCArgmax(ctx) ==
  IF Len(ctx) % 6 = 0 THEN e
  ELSE IF ctx # <<>> /\ Last(ctx) = a THEN b ELSE a

\* Sampling may also return the token the greedy pick is not.
MCSupport(ctx) == {MCArgmax(ctx), IF Len(ctx) % 2 = 0 THEN a ELSE e}
=============================================================================
