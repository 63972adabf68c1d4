----------------------------- MODULE PlainDecode -----------------------------
(***************************************************************************)
(* What any decode loop of the engine promises: the output is produced one *)
(* token at a time, each token is one the target model may pick when it    *)
(* has seen exactly the prompt and the tokens already output, nothing is   *)
(* ever taken back, and the output stops at the end-of-sequence token or   *)
(* at the requested length.  SpecDecode implements this.                   *)
(*                                                                         *)
(* The model itself is a constant: Argmax(ctx) is the greedy choice on the *)
(* logits that follow ctx and Support(ctx) every token a temperature       *)
(* sample of those logits may return.                                      *)
(***************************************************************************)
EXTENDS Naturals, Sequences

CONSTANTS Token, Eos, Argmax(_), Support(_)

VARIABLES prompt, max_tokens, sampling,  \* the request
          generated,                     \* the output so far
          stopped                        \* the loop has returned

vars == <<prompt, max_tokens, sampling, generated, stopped>>

\* The tokens a pick may return on the logits that follow ctx.
Picks(sample, ctx) == IF sample THEN Support(ctx) ELSE {Argmax(ctx)}

Init == /\ prompt \in Seq(Token)
        /\ max_tokens \in Nat
        /\ sampling \in BOOLEAN
        /\ generated = <<>>
        /\ stopped = FALSE

Emitted == {generated[i] : i \in DOMAIN generated}

\* One more token, picked from what the model says of everything before it.
Emit == /\ ~stopped
        /\ Len(generated) < max_tokens
        /\ Eos \notin Emitted
        /\ \E t \in Picks(sampling, prompt \o generated) :
             generated' = Append(generated, t)
        /\ UNCHANGED <<prompt, max_tokens, sampling>>

Finished == \/ Eos \in Emitted
            \/ Len(generated) >= max_tokens

\* The loop returns only when the output is complete; the last token and the
\* return may be one step of the loop.
Stop == /\ ~stopped
        /\ \/ Emit
           \/ UNCHANGED <<prompt, max_tokens, sampling, generated>>
        /\ stopped' = TRUE
        /\ Finished'

Next == \/ Emit /\ stopped' = FALSE
        \/ Stop

Spec == Init /\ [][Next]_vars
=============================================================================
