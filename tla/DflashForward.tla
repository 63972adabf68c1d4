---------------------------- MODULE DflashForward ---------------------------
(***************************************************************************)
(* Decoding with the DFlash drafter (dflash_gen_cli in main.rs, dflash.rs)  *)
(* on a Gemma 4 target: the blocks tapped by a forward of the target become *)
(* keys and values in front of those of a block of masked tokens, which one *)
(* pass of the drafter denoises.  The target verifies some of them, the     *)
(* rejected ones are cut off and the taps of the others appended.  The      *)
(* reference is the pass that docs/DFLASH_PORT.md describes.                *)
(***************************************************************************)
EXTENDS GemmaForward

CONSTANTS CtxChunk,            \* CTX_CHUNK
          BlockSize,           \* block_size of the file
          BlockArg, WidthArg   \* --block-size, --verify-width

VARIABLE dflash                \* ctx_k, ctx_v, ctx_len; what the loop holds
loop == <<model, fed, drafted, gpu, answer, wanted, phase, dflash>>

DflashParameters ==
  /\ CtxChunk \in Nat \ {0} /\ {BlockArg, WidthArg} \subseteq Nat /\ BlockSize \in Nat \ {0, 1}
  \* A target with experts verifies token by token and leaves one row of taps;
  \* one with per-layer embeddings or shared caches is not verified.
  /\ \A mo \in Models : mo.dflash # <<>> => ~mo.moe /\ ~mo.ple /\ mo.own = Len(mo.kinds)

Clamp(n, lo, hi) == IF n < lo THEN lo ELSE Least(n, hi)
Denoised == Clamp(BlockArg, 2, BlockSize)          \* bs
VerifyWidth == Clamp(WidthArg, 2, Denoised)        \* vw

Layers == [d \in 1 .. Len(model.dflash) |-> DraftEnds + d]
Ends == DraftEnds + Len(model.dflash) + 1
Sliding(b) == model.dflash[b - DraftEnds] = "sliding"
-----------------------------------------------------------------------------
(* The reference.  A row is a context and a place in the block after it, 0  *)
(* for the last token of the context itself.                                *)

PosOf(r) == Len(r[1]) + r[2] - 1
DflashInput(b, r) == IF b = DraftEnds + 1 THEN V("x", Ends, r) ELSE V("out", b - 1, r)
Mask == <<"mask", Zero>>
TokenAt(r) == IF r[2] = 1 THEN Argmax(Logits(r[1])) ELSE Mask
Span(b, r) ==
  LET n == Len(r[1])
      total == n + r[2]
      lo == IF Sliding(b) /\ total > Window THEN total - Window ELSE 0
      row(i) == IF i <= n THEN <<SubSeq(r[1], 1, i), 0>> ELSE <<r[1], i - n>>
  IN [i \in 1 .. (IF Sliding(b) THEN total ELSE n + Denoised) - lo |-> KvRow(b, row(lo + i))]

RefFused(r) ==
  [fc |-> <<"matvec", W("fc", Ends), TapRow(r[1])>>,
   fused |-> <<"rmsnorm", W("enc_norm", Ends), V("fc", Ends, r)>>]
RefBlockEnds(r) ==
  [x |-> <<"embed", W("token_embd", 0), TokenAt(r)>>,
   final |-> <<"rmsnorm", W("output_norm", Ends), V("out", Ends - 1, r)>>,
   head |-> <<"matvec", W("token_embd", 0), V("final", Ends, r)>>,
   logits |-> <<"softcap", V("head", Ends, r)>>]
RefBlockKv(b, r) ==
  LET source == IF r[2] = 0 THEN V("fused", Ends, r) ELSE V("normed", b, r)
  IN [k_raw |-> <<"matvec", W("attn_k", b), source>>,
      v |-> <<"matvec", W("attn_v", b), source>>,
      k_norm |-> <<"rmsnorm", W("attn_k_norm", b), V("k_raw", b, r)>>,
      k |-> <<"rope", "dflash", PosOf(r), V("k_norm", b, r)>>]
RefBlock(b, r) ==
  [normed |-> <<"rmsnorm", W("attn_norm", b), DflashInput(b, r)>>,
   q_raw |-> <<"matvec", W("attn_q", b), V("normed", b, r)>>,
   q_norm |-> <<"rmsnorm", W("attn_q_norm", b), V("q_raw", b, r)>>,
   q |-> <<"rope", "dflash", PosOf(r), V("q_norm", b, r)>>,
   attn |-> <<"attend", V("q", b, r), Span(b, r)>>,
   attn_out |-> <<"matvec", W("attn_output", b), V("attn", b, r)>>,
   mid |-> <<"add", DflashInput(b, r), V("attn_out", b, r)>>,
   ffn_in |-> <<"rmsnorm", W("ffn_norm", b), V("mid", b, r)>>,
   gate |-> <<"matvec", W("ffn_gate", b), V("ffn_in", b, r)>>,
   up |-> <<"matvec", W("ffn_up", b), V("ffn_in", b, r)>>,
   ffn_mid |-> <<"swiglu", V("gate", b, r), V("up", b, r)>>,
   mlp |-> <<"matvec", W("ffn_down", b), V("ffn_mid", b, r)>>,
   out |-> <<"add", V("mid", b, r), V("mlp", b, r)>>]
DflashReference(b, r) ==
  CASE b = Ends -> {IF r[2] = 0 THEN RefFused(r) ELSE RefBlockEnds(r)}
    [] b # Ends -> {RefBlockKv(b, r)} \cup (IF r[2] = 0 THEN {} ELSE {RefBlock(b, r)})
-----------------------------------------------------------------------------
(* The drafter's launches.                                                  *)

DflashBuffers == {"tap", "ctx_fused", "ctx_norm", "x", "normed", "q", "k", "v", "attn", "proj",
                  "gate", "up", "logits", "xq8"}
Loaded(rows) ==
  Machine(DflashBuffers, dflash.kv,
          [b \in Range(Layers) \cup {Ends} |->
             [i \in DOMAIN rows |-> DflashReference(b, rows[i])] \o <<>>], <<>>, rows)

RopeAt(m, b, base, x) == Launch(m, b, x, LAMBDA i : <<"rope", "dflash", base + i - 1, m.buf[x][i]>>)
Swiglu(m, b, x, y) == Launch(m, b, x, LAMBDA i : <<"swiglu", m.buf[x][i], m.buf[y][i]>>)
ProjectKv(m, b, src, base) ==
  LET put(mm, i) ==
        [mm EXCEPT !.st[b] = PutRow(@, base + i - 1, <<mm.buf["k"][i], mm.buf["v"][i]>>)]
  IN Then(Gemm(Gemm(m, b, "attn_k", src, "k"), b, "attn_v", src, "v"), LAMBDA m1 :
     Then(RopeAt(Rmsnorm(m1, b, "attn_k_norm", "k", "k"), b, base, "k"), LAMBDA m2 :
     FoldLeft(put, m2, [i \in DOMAIN m2.rows |-> i])))

\* attn_prefill_flash.cpp: the causal kernel, and the one without a mask.
FlashAttention(m, b, base) ==
  LET kvLen == base + Len(m.rows)
      causal(i) == LET total == base + i
                       lo == IF total > Window THEN total - Window ELSE 0
                   IN SubSeq(m.st[b], lo + 1, total)
  IN Launch(m, b, "attn", LAMBDA i : <<"attend", m.buf["q"][i],
                                       IF Sliding(b) THEN causal(i) ELSE SubSeq(m.st[b], 1, kvLen)>>)
DenoiseLayer(m, b, start) ==
  Then(Gemm(Rmsnorm(m, b, "attn_norm", "x", "normed"), b, "attn_q", "normed", "q"), LAMBDA m1 :
  Then(RopeAt(Rmsnorm(m1, b, "attn_q_norm", "q", "q"), b, start, "q"), LAMBDA m2 :
  Then(FlashAttention(ProjectKv(m2, b, "normed", start), b, start), LAMBDA m3 :
  Then(AddInplace(Gemm(m3, b, "attn_output", "attn", "proj"), b, "x", "proj"), LAMBDA m4 :
  Then(Gemm(Rmsnorm(m4, b, "ffn_norm", "x", "normed"), b, "ffn_gate", "normed", "gate"), LAMBDA m5 :
  Then(Swiglu(Gemm(m5, b, "ffn_up", "normed", "up"), b, "gate", "up"), LAMBDA m6 :
  AddInplace(Gemm(m6, b, "ffn_down", "gate", "proj"), b, "x", "proj")))))))
-----------------------------------------------------------------------------
(* The loop.  next is the call it makes next; kept, the rows of the last    *)
(* forward of the target that stay.                                         *)

\* The file counts the hidden states it taps from 1, after the embedding; new
\* and enable_target_tap refuse those of blocks the target has not.
DflashLoads(mo) == 0 \notin Range(mo.taps) /\ \A t \in Range(mo.taps) : t <= Len(mo.kinds)
NoDflash == [kv |-> <<>>, len |-> 0, anchor |-> Stale, kept |-> 0, next |-> "none"]
DflashInit ==
  /\ Init /\ DflashLoads(model)
  /\ dflash = IF model.dflash = <<>> THEN NoDflash
              ELSE [NoDflash EXCEPT !.kv = [b \in Range(Layers) |-> <<>>], !.next = "prefill"]
Calls(call) == model.dflash # <<>> /\ phase = "ready" /\ dflash.next = call
RefuseDraft(as) == Refuse(as) /\ UNCHANGED dflash

\* The prompt in one prefill, for the taps of all its rows.
Prompt(n) ==
  /\ Calls("prefill") /\ \E arrival \in Orders : PrefillForward(n, arrival)
  /\ dflash' = IF phase' = "ready"
               THEN [dflash EXCEPT !.next = "append", !.kept = n, !.anchor = Argmax(answer'[1])]
               ELSE dflash

\* append_context of the kept rows, the first at ctx_len.
FuseChunk(s, c) ==
  LET off == (c - 1) * CtxChunk
      rows == [i \in 1 .. Least(CtxChunk, dflash.kept - off) |-> <<Prefix(dflash.len + off + i), 0>>]
      start == [Loaded(rows) EXCEPT !.st = s.kv, !.ok = s.ok]
  IN Then(Fill(start, "tap", [i \in DOMAIN rows |-> gpu.tap[off + i]]), LAMBDA m1 :
     Then(Gemm(m1, Ends, "fc", "tap", "ctx_fused"), LAMBDA m2 :
     Then(Rmsnorm(m2, Ends, "enc_norm", "ctx_fused", "ctx_norm"), LAMBDA m3 :
     Then(FoldLeft(LAMBDA m, b : ProjectKv(m, b, "ctx_norm", dflash.len + off), m3, Layers),
          LAMBDA m4 :
     [kv |-> m4.st, ok |-> m4.ok]))))
AppendContext ==
  /\ Calls("append")
  /\ Then(FoldLeft(FuseChunk, [kv |-> dflash.kv, ok |-> TRUE],
                   [c \in 1 .. Ceil(dflash.kept, CtxChunk) |-> c]), LAMBDA end :
     \/ /\ end.ok
        /\ dflash' = [dflash EXCEPT !.kv = end.kv, !.len = @ + dflash.kept, !.next = "draft"]
        /\ UNCHANGED <<model, fed, drafted, gpu, answer, wanted, phase>>
     \/ ~end.ok /\ RefuseDraft("unfused"))

\* draft_block; the loop goes on while tokens are wanted.
Denoise(rows) ==
  LET ids == [j \in 1 .. Denoised |-> IF j = 1 THEN dflash.anchor ELSE Mask]
  IN Then(Embed(Loaded(rows), Ends, W("token_embd", 0), "x", ids), LAMBDA m1 :
     Then(FoldLeft(LAMBDA m, b : DenoiseLayer(m, b, dflash.len), m1, Layers), LAMBDA m2 :
     Softcap(LmHeadRows(Rmsnorm(m2, Ends, "output_norm", "x", "normed"), Ends), Ends)))
DenoiseBlock ==
  LET rows == [j \in 1 .. Denoised |-> <<fed, j>>]
      head == IF model.softcap THEN "logits" ELSE "head"
  IN /\ Calls("draft") /\ Len(fed) + VerifyWidth <= model.length
     /\ Then(Denoise(rows), LAMBDA m :
        \/ /\ m.ok /\ answer' = m.buf["logits"]
           /\ wanted' = [j \in 1 .. Denoised |-> V(head, Ends, rows[j])]
           /\ dflash' = [dflash EXCEPT !.kv = m.st, !.next = "verify"]
           /\ UNCHANGED <<model, fed, drafted, gpu, phase>>
        \/ ~m.ok /\ RefuseDraft("undrafted"))

\* verify_forward of the anchor and the first drafts.
Verify ==
  /\ Calls("verify") /\ VerifyForward(VerifyWidth)
  /\ dflash' = IF phase' = "ready" THEN [dflash EXCEPT !.next = "accept"] ELSE dflash

\* The target agrees with the first n drafts; the others are cut off, and its
\* next token is the anchor.
Accept(n) ==
  /\ Calls("accept")
  /\ \/ n < VerifyWidth - 1 /\ Truncate(dflash.len + n + 1)
     \/ n = VerifyWidth - 1 /\ UNCHANGED <<model, fed, drafted, gpu, answer, wanted, phase>>
  /\ dflash' = [dflash EXCEPT !.next = "append", !.kept = n + 1, !.anchor = Argmax(answer[n + 1])]

DflashNext ==
  \/ model.dflash = <<>> /\ Next /\ UNCHANGED dflash
  \/ \E n \in 1 .. model.length : Prompt(n)
  \/ AppendContext
  \/ DenoiseBlock
  \/ Verify
  \/ \E n \in 0 .. VerifyWidth - 1 : Accept(n)
DflashSpec == DflashInit /\ [][DflashNext]_loop
-----------------------------------------------------------------------------
(* The context rows of the drafter are those of the tokens the target kept, *)
(* whatever was drafted and rejected before, and so are its predictions     *)
(* (the answer after draft_block) and the token a block starts with.        *)
DflashMatches ==
  /\ MatchesReference
  /\ \A i \in 1 .. dflash.len : \A b \in Range(Layers) : dflash.kv[b][i] = KvRow(b, <<Prefix(i), 0>>)
  /\ dflash.next = "draft" => dflash.len = Len(fed) /\ dflash.anchor = Argmax(Logits(fed))

(* A model whose prompt was prefilled and fused drafts to the end.          *)
DflashPathsAgree ==
  /\ PathsAgree
  /\ phase # "undrafted" /\ (phase = "unfused" => dflash.len = 0)
=============================================================================
