------------------------------ MODULE QwenMtp -------------------------------
(***************************************************************************)
(* Greedy generation with the MTP head of a Qwen 3.5 model (qwen35.rs,     *)
(* mtp_spec_generate, as main.rs qwen_mtp_gen_cli calls it).               *)
(*                                                                         *)
(* The GDN blocks overwrite their recurrent state, so a rejected batch     *)
(* cannot be cut off: the whole state is saved before every verify and     *)
(* restored when any draft is wrong.  The KV caches are rolled back by     *)
(* their length only.  The drafter shares the position register and a      *)
(* scratch buffer with the model and may propose anything.                 *)
(***************************************************************************)
EXTENDS QwenStage, FiniteSets

CONSTANTS Token, Eos, Argmax(_),   \* the model: its greedy pick after a row
          Prompts, Lengths,        \* the requests tried
          Drafts,                  \* the values of k tried
          Slack,                   \* 8: positions max_seq has to spare
          MtpSlack,                \* 16: rows the drafter's cache has to spare
          VerifyMax,               \* VERIFY_MAX_TOKENS, 16
          Kinds                    \* the kinds of block the model has

ASSUME MtpAssumption ==
  /\ Eos \in Token /\ Bad \notin Token
  /\ Prompts \subseteq Seq(Token) \ {<<>>} /\ Lengths \subseteq Nat \ {0}
  /\ Drafts \subseteq {k \in Nat : k >= 1 /\ k + 1 <= VerifyMax}
  /\ Slack \in Nat /\ MtpSlack \in Nat
  /\ Kinds \subseteq {"full", "linear"} /\ Kinds # {}

\* The model picks a token after any row the caches of a request can hold.
ASSUME ModelAssumption ==
  \A p \in Prompts, m \in Lengths, d \in Drafts : \A n \in 1 .. Len(p) + m + d + Slack :
    \A c \in [1 .. n -> Token] : Argmax(c) \in Token

VARIABLES prompt, max_tokens, k,   \* the request
          state,                   \* Qwen35GpuState
          d_pos,                   \* the position register on the device
          hidden_a,                \* the hidden state of the last decode
          verify_hidden,           \* the rows of the last verify
          verify_logits,           \* the row the next pick is made after
          prev_hidden,             \* which buffer and row seeds the drafter
          snapshot,                \* Qwen35Snapshot
          mtp_kv, mtp_pos,         \* rows of the drafter's cache; its position
          t, drafts, verify_out,   \* the round
          pushes,                  \* tokens of the round still to be pushed
          generated, phase

vars == <<prompt, max_tokens, k, state, d_pos, hidden_a, verify_hidden,
          verify_logits, prev_hidden, snapshot, mtp_kv, mtp_pos, t, drafts,
          verify_out, pushes, generated, phase>>

request == <<prompt, max_tokens, k>>
None == "none"

\* Mutant: no room for the drafts of the last round.
Max_seqShort == Len(prompt) + max_tokens + Slack
\* qwen_mtp_gen_cli's sizes of the model's caches and of the drafter's.
Max_seq == Len(prompt) + max_tokens + k + Slack
Mtp_cap == k * max_tokens + MtpSlack

InHiddenA == [buf |-> "hidden_a", row |-> 0]
InVerify(r) == [buf |-> "verify_hidden", row |-> r]
Pointee(p) == IF p.buf = "hidden_a" THEN hidden_a ELSE verify_hidden[p.row]

Init ==
  /\ prompt \in Prompts /\ max_tokens \in Lengths /\ k \in Drafts
  /\ state = NewStage(Kinds, Max_seq)
  /\ d_pos = 0 /\ hidden_a = Junk /\ verify_hidden = <<>> /\ verify_logits = Junk
  /\ prev_hidden = InHiddenA
  /\ snapshot = [rec |-> Junk, len |-> 0, pos |-> 0]
  /\ mtp_kv = 0 /\ mtp_pos = 0
  /\ t = None /\ drafts = <<>> /\ verify_out = <<>> /\ pushes = <<>>
  /\ generated = <<>> /\ phase = "prefill"

\* forward_token: stage the position, embed, run the blocks, read the logits.
ForwardToken(st, tok) ==
  LET row == Embedded(st, st.pos, <<tok>>)[1]
  IN /\ state' = [DecodeBody(st, st.pos, row) EXCEPT !.pos = @ + 1]
     /\ d_pos' = st.pos
     /\ hidden_a' = Outputs(st, st.pos, <<row>>)[1]
     /\ verify_logits' = hidden_a'

\* A batch of tokens from the length of the caches on; what it returns.
ForwardBatch(toks) ==
  state' = [Batched(state, Embedded(state, state.len, toks)) EXCEPT !.pos = @ + Len(toks)]
BatchOut(toks) == Outputs(state, state.len, Embedded(state, state.len, toks))

\* A prompt of several tokens is prefilled as a batch, one of a single token by
\* forward_token; the first token is the pick after it.
Prefill ==
  /\ phase = "prefill"
  /\ IF Len(prompt) > 1
       THEN /\ ForwardBatch(prompt)
            /\ verify_logits' = Last(BatchOut(prompt))
            /\ UNCHANGED <<d_pos, hidden_a>>
       ELSE ForwardToken(state, prompt[1])
  /\ phase' = "bootstrap"
  /\ UNCHANGED <<request, verify_hidden, prev_hidden, snapshot, mtp_kv, mtp_pos,
                 t, drafts, verify_out, pushes, generated>>

Bootstrap ==
  /\ phase = "bootstrap"
  /\ LET first == Argmax(verify_logits)
     IN /\ ForwardToken(state, first)
        /\ generated' = <<first>>
        /\ phase' = IF first = Eos \/ max_tokens <= 1 THEN "done" ELSE "round"
  /\ prev_hidden' = InHiddenA
  /\ UNCHANGED <<request, verify_hidden, snapshot, mtp_kv, mtp_pos, t, drafts,
                 verify_out, pushes>>

\* Mutant: the recurrent state is not part of the snapshot.
SavedLengths(old, s) == [rec |-> old.rec, len |-> s.len, pos |-> s.pos]
\* Qwen35Snapshot::save and restore.
Saved(old, s) == [rec |-> s.rec, len |-> s.len, pos |-> s.pos]
Restored(snap, s) == [s EXCEPT !.rec = snap.rec, !.len = snap.len, !.pos = snap.pos]

StartRound ==
  /\ phase = "round"
  /\ t' = Argmax(verify_logits)
  /\ snapshot' = Saved(snapshot, state)
  /\ drafts' = <<>> /\ phase' = "draft"
  /\ UNCHANGED <<request, state, d_pos, hidden_a, verify_hidden, verify_logits,
                 prev_hidden, mtp_kv, mtp_pos, verify_out, pushes, generated>>

\* One link of mtp_draft_chain: it moves the position register and adds a row
\* to the drafter's own cache.
DraftLink ==
  /\ phase = "draft" /\ Len(drafts) < k
  /\ d_pos' = mtp_pos + Len(drafts)
  /\ mtp_kv' = mtp_kv + 1
  /\ \E d \in Token : drafts' = Append(drafts, d)
  /\ mtp_pos' = IF Len(drafts') = k THEN mtp_pos + k ELSE mtp_pos
  /\ phase' = IF Len(drafts') = k THEN "verify" ELSE "draft"
  /\ UNCHANGED <<request, state, hidden_a, verify_hidden, verify_logits,
                 prev_hidden, snapshot, t, verify_out, pushes, generated>>

\* forward_tokens_verify on the token and its drafts.
Verify ==
  /\ phase = "verify"
  /\ ForwardBatch(<<t>> \o drafts)
  /\ verify_hidden' = BatchOut(<<t>> \o drafts)
  /\ verify_out' = verify_hidden'
  /\ phase' = "decide"
  /\ UNCHANGED <<request, d_pos, hidden_a, verify_logits, prev_hidden, snapshot,
                 mtp_kv, mtp_pos, t, drafts, pushes, generated>>

\* Mutant: the last draft is not compared.
AllOkShort == \A i \in 1 .. k - 1 : Argmax(verify_out[i]) = drafts[i]
AllOk == \A i \in 1 .. k : Argmax(verify_out[i]) = drafts[i]

\* Mutant: the drafter is seeded from the row of the first token.
AcceptedRowFirst == InVerify(1)
\* The row of the last accepted draft.
AcceptedRow == InVerify(k + 1)

Accept ==
  /\ phase = "decide" /\ AllOk
  /\ pushes' = <<t>> \o drafts
  /\ verify_logits' = verify_out[k + 1]
  /\ prev_hidden' = AcceptedRow
  /\ phase' = "push"
  /\ UNCHANGED <<request, state, d_pos, hidden_a, verify_hidden, snapshot, mtp_kv,
                 mtp_pos, t, drafts, verify_out, generated>>

\* Mutant: the whole round is taken back, drafter included, and tried again.
RejectRound ==
  /\ phase = "decide" /\ ~AllOk
  /\ state' = Restored(snapshot, state)
  /\ mtp_kv' = mtp_kv - k /\ mtp_pos' = mtp_pos - k
  /\ pushes' = <<>>
  /\ phase' = "push"
  /\ UNCHANGED <<request, d_pos, hidden_a, verify_hidden, verify_logits, prev_hidden,
                 snapshot, t, drafts, verify_out, generated>>

\* Everything the verify did is undone, and t alone is decoded.
Reject ==
  /\ phase = "decide" /\ ~AllOk
  /\ ForwardToken(Restored(snapshot, state), t)
  /\ pushes' = <<t>>
  /\ prev_hidden' = InHiddenA
  /\ phase' = "push"
  /\ UNCHANGED <<request, verify_hidden, snapshot, mtp_kv, mtp_pos, t, drafts,
                 verify_out, generated>>

Push ==
  /\ phase = "push" /\ pushes # <<>>
  /\ generated' = Append(generated, Head(pushes))
  /\ pushes' = Tail(pushes)
  /\ UNCHANGED <<request, state, d_pos, hidden_a, verify_hidden, verify_logits,
                 prev_hidden, snapshot, mtp_kv, mtp_pos, t, drafts, verify_out, phase>>

Places(ts) == {i \in DOMAIN ts : ts[i] = Eos}
Smaller(a, b) == IF a < b THEN a ELSE b
AfterEos(ts) == CHOOSE i \in Places(ts) : \A j \in Places(ts) : i <= j
WithinLimit(ts) == SubSeq(ts, 1, Smaller(Len(ts), max_tokens))

\* Mutant: only the last token is compared with the end-of-sequence token.
CutOffTail(ts) ==
  IF ts # <<>> /\ Last(ts) = Eos THEN ts ELSE WithinLimit(ts)
\* generated.truncate: after the first end-of-sequence token if there is one,
\* else at the limit.
CutOff(ts) ==
  IF Places(ts) # {} THEN SubSeq(ts, 1, AfterEos(ts)) ELSE WithinLimit(ts)

EndRound ==
  /\ phase = "push" /\ pushes = <<>>
  /\ generated' = CutOff(generated)
  /\ phase' = IF Places(generated) # {} \/ Len(generated) >= max_tokens
                THEN "done" ELSE "round"
  /\ UNCHANGED <<request, state, d_pos, hidden_a, verify_hidden, verify_logits,
                 prev_hidden, snapshot, mtp_kv, mtp_pos, t, drafts, verify_out, pushes>>

Returned == phase = "done" /\ UNCHANGED vars

Next == \/ Prefill \/ Bootstrap \/ StartRound \/ DraftLink \/ Verify
        \/ Accept \/ Reject \/ Push \/ EndRound \/ Returned

Spec == Init /\ [][Next]_vars /\ WF_vars(Next)
-----------------------------------------------------------------------------
Phases == {"prefill", "bootstrap", "round", "draft", "verify", "decide", "push", "done"}

\* What is being read is always a row of tokens: no slot that nothing was
\* written to, and no row that follows another one than its own, reaches the
\* logits (forward_token, forward_tokens_verify).
TypeOK ==
  /\ phase \in Phases /\ generated \in Seq(Token)
  /\ phase # "prefill" => verify_logits \in Seq(Token)
  /\ \A i \in DOMAIN verify_out : verify_out[i] \in Seq(Token)
  /\ state.len \in 0 .. Max_seq /\ Len(drafts) <= k

\* Whenever a round starts, however the one before ended, the KV rows, the
\* recurrent state, the lengths and the pending logits all stand for exactly the
\* prompt and the output: a rejected draft has left no trace (snapshot.save and
\* restore, the re-decode of t).
Committed == prompt \o generated
StateIsCommitted ==
  phase = "round" =>
    /\ state.len = Len(Committed) /\ state.pos = state.len
    /\ "linear" \in Kinds => state.rec = Committed
    /\ "full" \in Kinds =>
         \A i \in 1 .. state.len : state.kv[i] = SubSeq(Committed, 1, i)
    /\ verify_logits = Committed

\* The drafter is seeded from the hidden state of the last committed token,
\* which is in one of two buffers; the buffer still holds it while drafting.
SeedFresh == phase \in {"round", "draft"} => Pointee(prev_hidden) = Committed

\* A verify fits the caches and the drafter's rows fit theirs, in the last round
\* too (max_seq and the capacity qwen_mtp_gen_cli computes).
NoOverrun ==
  /\ phase = "verify" => state.len + k + 1 <= Max_seq
  /\ phase \in {"round", "decide"} => state.len <= Max_seq
  /\ phase = "draft" => mtp_kv < Mtp_cap

\* The tokens up to the limit are those plain greedy decoding produces one by
\* one: with all or nothing accepted, drafts show only in the speed.
Plain == INSTANCE PlainDecode
           WITH Support <- LAMBDA c : {Argmax(c)}, sampling <- FALSE,
                generated <- WithinLimit(CutOff(generated)), stopped <- phase = "done"
PlainSpec == Plain!Spec

\* Every round commits a token, so the loop ends.
Terminates == <>(phase = "done")
=============================================================================
