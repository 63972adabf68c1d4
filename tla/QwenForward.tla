----------------------------- MODULE QwenForward ----------------------------
(***************************************************************************)
(* What a Qwen 3.5 forward computes on the GPU, kernel by kernel           *)
(* (qwen35.rs), against the scalar model the tests compare it with         *)
(* (cpu/qwen3_5.rs).                                                       *)
(*                                                                         *)
(* Reference gives every vector of the scalar model a name, its stage,     *)
(* block and row, and the operation on named vectors that defines it.  A   *)
(* launch on the GPU yields the vector whose definition it carried out,    *)
(* and Garbage when it is nobody's: a wrong operand, a buffer overwritten  *)
(* too early, a kernel for another format.  Quantising a vector leaves its *)
(* name alone; what matters is which vector xq8 holds when a kernel reads  *)
(* it.  Scratch buffers are stale at the start of a call.                  *)
(***************************************************************************)
EXTENDS Launches

CONSTANTS Models,              \* the models tried, see ModelType
          Taps,                \* gdn_conv_kernel
          SmallRows,           \* bmm's rows for the batched matvec (4)
          MoeChunk,            \* MOE_PREFILL_CHUNK
          Arrivals,            \* orders in which the atomics of a sort arrive
          ChainK               \* drafts of a chain

Experts == {"gate_exps", "up_exps", "down_exps"}
Roles == {"token_embd", "output", "attn_q", "attn_k", "attn_v", "attn_output",
          "attn_qkv", "attn_gate", "ssm_alpha", "ssm_beta", "ssm_out",
          "ffn_gate", "ffn_up", "ffn_down", "ffn_gate_inp", "gate_shexp", "up_shexp",
          "down_shexp", "eh_proj"} \cup Experts
\* The last two fields bound a run: the tokens fed and the chains drafted.
ModelType == [family : {"qwen35"}, kinds : Seq({"full", "linear"}) \ {<<>>}, moe : BOOLEAN, tied : BOOLEAN,
              dp4a : BOOLEAN, repack : BOOLEAN, file : [Roles -> Dtypes],
              length : Nat, chains : Nat]

QwenParameters ==
  /\ \A mo \in Models : /\ mo \in ModelType
                        /\ MaxSeq >= mo.length /\ MaxSeq >= mo.chains * ChainK
  /\ {Taps, MoeChunk, ChainK} \subseteq Nat \ {0} /\ SmallRows \in Nat

VARIABLES model,
          fed,                 \* rows 1 .. fed were fed
          drafted,             \* the rows of the MTP head's cache
          gpu,                 \* what outlives a call on the device
          answer, wanted,      \* the rows of the last call; the reference's
          phase
vars == <<model, fed, drafted, gpu, answer, wanted, phase>>

Final == Len(model.kinds)      \* the last block
Mtp == Final + 1               \* the block of the MTP head
IsFull(b) == b = Mtp \/ model.kinds[b] = "full"
OutputProj == IF model.tied THEN W("token_embd", 0) ELSE W("output", 0)
-----------------------------------------------------------------------------
(* The reference.  A row of the model is its position, counted from 1; a    *)
(* row of the MTP head is the sequence of its drafts up to it, each the row *)
(* it was drafted after and its place in the chain.                         *)

Pos(b, r) == IF b = Mtp THEN Len(r) - 1 ELSE r - 1
\* The rows a row attends to, itself included, oldest first.
Past(b, r) == IF b = Mtp THEN [i \in 1 .. Len(r) |-> SubSeq(r, 1, i)]
              ELSE [i \in 1 .. r |-> i]
KvRow(b, r) == <<V("k", b, r), V("v", b, r)>>
\* The last Taps rows before and at r, zero before the first.
ConvWindow(b, r) == [i \in 1 .. Taps |-> IF r + i <= Taps THEN Zero
                                     ELSE V("qkv", b, r + i - Taps)]

\* The hidden state a block starts from, the token a row embeds, and the
\* hidden state and token a draft is made from.
Input(b, r) == IF b = Mtp THEN V("mtp_in", Mtp, r)
               ELSE IF b = 1 THEN V("embed", 1, r) ELSE V("hidden", b - 1, r)
Source(r) == IF Last(r)[2] = 1 THEN <<Final, Last(r)[1]>> ELSE <<Mtp, Front(r)>>
PrevHidden(r) == V("hidden", Source(r)[1], Source(r)[2])
Token(b, r) == IF b = Mtp THEN Argmax(V("logits", Source(r)[1], Source(r)[2]))
               ELSE <<"token", r>>

RefFull(b, r) ==
  [normed |-> <<"rmsnorm", W("attn_norm", b), Input(b, r)>>,
   q_raw |-> <<"matvec", W("attn_q", b), V("normed", b, r)>>,
   k_raw |-> <<"matvec", W("attn_k", b), V("normed", b, r)>>,
   v |-> <<"matvec", W("attn_v", b), V("normed", b, r)>>,
   q_half |-> <<"half", 1, V("q_raw", b, r)>>,
   gate |-> <<"half", 2, V("q_raw", b, r)>>,
   q_norm |-> <<"rmsnorm", W("attn_q_norm", b), V("q_half", b, r)>>,
   k_norm |-> <<"rmsnorm", W("attn_k_norm", b), V("k_raw", b, r)>>,
   q |-> <<"rope", Pos(b, r), V("q_norm", b, r)>>,
   k |-> <<"rope", Pos(b, r), V("k_norm", b, r)>>,
   attn |-> <<"attend", V("q", b, r), [i \in 1 .. Len(Past(b, r)) |-> KvRow(b, Past(b, r)[i])]>>,
   gated |-> <<"sigmoid_mul", V("attn", b, r), V("gate", b, r)>>,
   attn_out |-> <<"matvec", W("attn_output", b), V("gated", b, r)>>]

RefLinear(b, r) ==
  [normed |-> <<"rmsnorm", W("attn_norm", b), Input(b, r)>>,
   qkv |-> <<"matvec", W("attn_qkv", b), V("normed", b, r)>>,
   z |-> <<"matvec", W("attn_gate", b), V("normed", b, r)>>,
   alpha |-> <<"matvec", W("ssm_alpha", b), V("normed", b, r)>>,
   beta |-> <<"matvec", W("ssm_beta", b), V("normed", b, r)>>,
   conv |-> <<"conv_silu", W("ssm_conv1d", b), ConvWindow(b, r)>>,
   lq |-> <<"l2norm", 1, V("conv", b, r)>>,
   lk |-> <<"l2norm", 2, V("conv", b, r)>>,
   lv |-> <<"third", 3, V("conv", b, r)>>,
   rec |-> <<"delta", IF r = 1 THEN Zero ELSE V("rec", b, r - 1), V("lk", b, r),
             V("lv", b, r), V("alpha", b, r), V("beta", b, r)>>,
   core |-> <<"recall", V("rec", b, r), V("lq", b, r)>>,
   core_norm |-> <<"rmsnorm_gated", W("ssm_norm", b), V("core", b, r), V("z", b, r)>>,
   attn_out |-> <<"matvec", W("ssm_out", b), V("core_norm", b, r)>>]

RefDense(b, r) ==
  [ffn_gate |-> <<"matvec", W("ffn_gate", b), V("post", b, r)>>,
   ffn_up |-> <<"matvec", W("ffn_up", b), V("post", b, r)>>,
   ffn_mid |-> <<"swiglu", V("ffn_gate", b, r), V("ffn_up", b, r)>>,
   ffn_out |-> <<"matvec", W("ffn_down", b), V("ffn_mid", b, r)>>]

\* The mixture of experts has no scalar model in the repository: what
\* step_moe_ffn's comments say, router, routed experts, gated shared expert.
RefMoe(b, r) ==
  [router |-> <<"matvec", W("ffn_gate_inp", b), V("post", b, r)>>,
   ids |-> <<"topk", V("router", b, r)>>,
   routed |-> <<"combine", [s \in 1 .. Used |-> V("e_out", b, <<r, s>>)], V("ids", b, r)>>,
   sh_gate |-> <<"matvec", W("gate_shexp", b), V("post", b, r)>>,
   sh_up |-> <<"matvec", W("up_shexp", b), V("post", b, r)>>,
   sh_mid |-> <<"swiglu", V("sh_gate", b, r), V("sh_up", b, r)>>,
   sh_out |-> <<"matvec", W("down_shexp", b), V("sh_mid", b, r)>>,
   shared |-> <<"shexp_gate", W("gate_inp_shexp", b), V("sh_out", b, r), V("post", b, r)>>,
   ffn_out |-> <<"add", V("routed", b, r), V("shared", b, r)>>]
RefExpert(b, r, s) ==
  [e_gate |-> <<"expert", W("gate_exps", b), Route(b, r)[s], V("post", b, r)>>,
   e_up |-> <<"expert", W("up_exps", b), Route(b, r)[s], V("post", b, r)>>,
   e_mid |-> <<"swiglu", V("e_gate", b, <<r, s>>), V("e_up", b, <<r, s>>)>>,
   e_out |-> <<"expert", W("down_exps", b), Route(b, r)[s], V("e_mid", b, <<r, s>>)>>]

\* full_attention_block and linear_attention_block around them, the ends of
\* forward_token_traced, and of mtp_draft_forward for its block.
RefEnds(b, r) ==
  [embed |-> <<"embed", Token(b, r)>>,
   enorm |-> <<"rmsnorm", W("enorm", b), V("embed", b, r)>>,
   hnorm |-> <<"rmsnorm", W("hnorm", b), IF b = Mtp THEN PrevHidden(r) ELSE Zero>>,
   mtp_in |-> <<"matvec", W("eh_proj", b), <<V("enorm", b, r), V("hnorm", b, r)>>>>,
   mid |-> <<"add", Input(b, r), V("attn_out", b, r)>>,
   post |-> <<"rmsnorm", W("post_norm", b), V("mid", b, r)>>,
   hidden |-> <<"add", V("mid", b, r), V("ffn_out", b, r)>>,
   final |-> <<"rmsnorm", W(IF b = Mtp THEN "shared_head_norm" ELSE "output_norm", b),
               V("hidden", b, r)>>,
   logits |-> <<"matvec", OutputProj, V("final", b, r)>>]

Reference(b, r) ==
  {RefEnds(b, r), IF IsFull(b) THEN RefFull(b, r) ELSE RefLinear(b, r),
   IF model.moe THEN RefMoe(b, r) ELSE RefDense(b, r)}
-----------------------------------------------------------------------------
(* The weights: how they are loaded, and the kernels there are.             *)

\* The table, the router and every weight of an engine built without
\* repacking keep the layout of the file.
Stored(w) ==
  LET d == model.file[IF w[1] = "ssm_ab" THEN "ssm_alpha" ELSE w[1]]
  IN CASE w[1] \in {"token_embd", "ffn_gate_inp"} -> FromGguf(d)
       [] w[1] \in Experts -> Format(d, TRUE)
       [] w[1] = "output" -> FromGgufMatvec(d)
       [] OTHER -> IF model.repack THEN FromGgufMatvec(d) ELSE FromGguf(d)
\* GpuExpertTensor: experts without kernels are refused at load.
Loads(mo) == mo.moe => \A e \in Experts : mo.file[e] \in ExpertDtypes
\* ssm_alpha and ssm_beta become one weight when they have one type.
FusedAb == model.repack /\ model.file["ssm_alpha"] = model.file["ssm_beta"]

\* The format a kernel reads, None when there is none.
OnDisk == {"Q4_K", "Q5_K", "Q6_K", "Q8_0"}
\* Mutant: a type with no arm of its own gets the Q4_K kernel.
RepackedKernelCatchAll(d) ==
  Format(IF d \in {"Q5_K", "Q6_K", "Q8_0"} THEN d ELSE "Q4_K", TRUE)
RepackedKernel(d) == IF d \in Repacked THEN Format(d, TRUE) ELSE None
Dp4aKernel(d) == Format(IF d \in {"Q4_K", "Q5_K", "Q6_K"} THEN d ELSE "Q8_0", FALSE)
\* Mutant: decode has no kernel for the F16 projections prefill reads as they are.
FallbackKernelNoF16(d) == IF d \in OnDisk \cup {"F32"} THEN Format(d, FALSE) ELSE None
FallbackKernel(d) == IF d \in OnDisk \cup {"F32", "F16"} THEN Format(d, FALSE) ELSE None
DequantKernel(s) ==
  IF s.repacked THEN RepackedKernel(s.dtype)
  ELSE IF s.dtype \in OnDisk \cup {"F32"} THEN s ELSE None
BatchedKernel(d) == Format(IF d \in {"Q5_K", "Q6_K"} THEN d ELSE "Q4_K", TRUE)
MmqKernel(d) == IF d \in Repacked THEN Format(d, TRUE) ELSE None
EmbedKernel(d) == IF d \in {"F32", "Q6_K", "Q4_K", "Q8_0"} THEN Format(d, FALSE) ELSE None
-----------------------------------------------------------------------------
(* The device during a call, on some of the blocks.                          *)

Buffers == {"hidden_a", "hidden_b", "normed", "xq8", "q_raw", "k_raw", "v_raw", "q_buf",
            "gate_buf", "k_norm", "attn_concat", "ffn_a", "ffn_b", "gdn_qkv", "gdn_z", "gdn_a",
            "gdn_b", "gdn_ab", "gdn_ab_part", "gdn_conv_out", "gdn_q", "gdn_k", "gdn_v",
            "gdn_core_out", "moe_logits", "ids", "xq8_in", "xq8_exp", "e_gate", "e_up", "e_out",
            "g_in", "g_out", "sh_gate", "sh_up", "sh_out", "concat_lo", "concat_hi", "concat",
            "mtp_hid", "ba", "bb", "bnorm", "logits"}
Fresh(st, blocks, rows) ==
  LET each(def(_, _)) == [b \in 1 .. Mtp |-> IF b \in blocks
                                             THEN [i \in DOMAIN rows |-> def(b, rows[i])] \o <<>>
                                             ELSE <<>>] \o <<>>
  IN Machine(Buffers, st, each(Reference),
             each(LAMBDA b, r : [j \in 1 .. Used |-> RefExpert(b, r, j)] \o <<>>), rows)

Embed(m, b, y, tokens) ==
  LET w == W("token_embd", 0)
      kernel == EmbedKernel(Stored(w).dtype)
  IN CASE kernel = None -> [m EXCEPT !.ok = FALSE]
       [] kernel # None -> Launch(m, b, y, LAMBDA i : <<"embed", tokens[i]>>)
LaunchSwiglu(m, b, x, y) ==
  Launch(m, b, x, LAMBDA i : <<"swiglu", m.buf[x][i], m.buf[y][i]>>)

\* hidden (+= add); normed and xq8 take its norm.  The pending residual is
\* the end of block ab.
AddRmsnormQ8(m, ab, b, hidden, add, w) ==
  LET m1 == IF add = "none" THEN m ELSE AddInplace(m, ab, hidden, add)
  IN QuantizeQ8(Rmsnorm(m1, b, w, hidden, "normed"), "normed")
SwigluQ8(m, b, x, y) == QuantizeQ8(LaunchSwiglu(m, b, x, y), x)
SigmoidMul(m, b, x, g) ==
  Launch(m, b, x, LAMBDA i : <<"sigmoid_mul", m.buf[x][i], m.buf[g][i]>>)
SigmoidMulQ8(m, b, x, g) == QuantizeQ8(SigmoidMul(m, b, x, g), x)

\* A matvec with the kernel that was picked, on the rows of x.
Matvec(m, b, w, x, y, kernel) ==
  IF kernel = None THEN [m EXCEPT !.ok = FALSE]
  ELSE IF kernel # Stored(w) THEN Fill(m, y, [i \in DOMAIN m.rows |-> Garbage])
  ELSE IF w[1] = "ssm_ab"
    THEN Fill(m, y, [i \in DOMAIN m.rows |->
           <<Op(m, b, i, <<"matvec", W("ssm_alpha", b), m.buf[x][i]>>),
             Op(m, b, i, <<"matvec", W("ssm_beta", b), m.buf[x][i]>>)>>])
    ELSE Launch(m, b, y, LAMBDA i : <<"matvec", w, m.buf[x][i]>>)
RepackedXq8(m, b, w, y) == Matvec(m, b, w, "xq8", y, RepackedKernel(Stored(w).dtype))
MatvecDispatch(m, b, w, x, y) ==
  LET s == Stored(w)
  IN CASE s.repacked /\ ~model.dp4a -> Matvec(m, b, w, x, y, DequantKernel(s))
       [] s.repacked /\ model.dp4a -> RepackedXq8(QuantizeQ8(m, x), b, w, y)
       [] ~s.repacked /\ model.dp4a /\ s.dtype \in OnDisk ->
            Matvec(QuantizeQ8(m, x), b, w, "xq8", y, Dp4aKernel(s.dtype))
       [] OTHER -> Matvec(m, b, w, x, y, FallbackKernel(s.dtype))
MatvecPrequant(m, b, w, x, y) ==
  IF Stored(w).repacked /\ model.dp4a THEN RepackedXq8(m, b, w, y)
  ELSE MatvecDispatch(m, b, w, x, y)
-----------------------------------------------------------------------------
(* Attention and its cache.                                                 *)

Half(m, b, i, x, y) == Launch(m, b, y, LAMBDA j : <<"half", i, m.buf[x][j]>>)
Rope(m, b, base, x) == Launch(m, b, x, LAMBDA i : <<"rope", base + i - 1, m.buf[x][i]>>)
QSplitNormRope(m, b) ==
  Then(Half(Half(m, b, 1, "q_raw", "q_buf"), b, 2, "q_raw", "gate_buf"), LAMBDA m1 :
  Rope(Rmsnorm(m1, b, "attn_q_norm", "q_buf", "q_buf"), b, m.pos, "q_buf"))

KNormRopeKvWrite(m, b) ==
  LET m1 == Rope(Rmsnorm(m, b, "attn_k_norm", "k_raw", "k_norm"), b, m.pos, "k_norm")
  IN [m EXCEPT !.st[b].kv = PutRow(@, m.pos, <<m1.buf["k_norm"][1], m.buf["v_raw"][1]>>)]

AttnStep(m, b) ==
  LET read == SplitRead(m.st[b].kv, 0, m.pos + 1, MaxSeq)
  IN Launch(m, b, "attn_concat", LAMBDA i : <<"attend", m.buf["q_buf"][i], read>>)

StepFull(m, ab, b, input, pending, out) ==
  Then(AddRmsnormQ8(m, ab, b, input, pending, "attn_norm"), LAMBDA m1 :
  Then(MatvecPrequant(m1, b, W("attn_q", b), "normed", "q_raw"), LAMBDA m2 :
  Then(MatvecPrequant(m2, b, W("attn_k", b), "normed", "k_raw"), LAMBDA m3 :
  Then(MatvecPrequant(m3, b, W("attn_v", b), "normed", "v_raw"), LAMBDA m4 :
  Then(AttnStep(KNormRopeKvWrite(QSplitNormRope(m4, b), b), b), LAMBDA m5 :
  Then(SigmoidMulQ8(m5, b, "attn_concat", "gate_buf"), LAMBDA m6 :
  Then(MatvecPrequant(m6, b, W("attn_output", b), "attn_concat", out), LAMBDA m7 :
  [m7 EXCEPT !.st[b].len = @ + 1])))))))
-----------------------------------------------------------------------------
(* The gated delta rule.                                                    *)

\* conv1d and SiLU over the history and the rows; the history moves on.
Conv1d(m, b) ==
  LET in == m.st[b].hist \o m.buf["gdn_qkv"]
      m1 == Launch(m, b, "gdn_conv_out",
                   LAMBDA i : <<"conv_silu", W("ssm_conv1d", b), SubSeq(in, i, i + Taps - 1)>>)
  IN [m1 EXCEPT !.st[b].hist = SubSeq(in, Len(in) - Taps + 2, Len(in))]
L2norm(m, b) ==
  LET part(op, j, y, mm) == Launch(mm, b, y, LAMBDA i : <<op, j, m.buf["gdn_conv_out"][i]>>)
  IN part("third", 3, "gdn_v", part("l2norm", 2, "gdn_k", part("l2norm", 1, "gdn_q", m)))
Conv1dL2norm(m, b) == L2norm(Conv1d(m, b), b)

\* gdn_ab_project, and where the recurrent step then finds alpha and beta.
AbBuffer == LET s == Stored(W("ssm_ab", 0))
            IN IF s.repacked /\ s.dtype = "Q8_0" /\ model.dp4a THEN "gdn_ab_part" ELSE "gdn_ab"
GdnAb(m, b) ==
  IF ~FusedAb
  THEN MatvecPrequant(MatvecPrequant(m, b, W("ssm_alpha", b), "normed", "gdn_a"),
                      b, W("ssm_beta", b), "normed", "gdn_b")
  ELSE IF AbBuffer = "gdn_ab_part"
  THEN Matvec(m, b, W("ssm_ab", b), "xq8", "gdn_ab_part", Format("Q8_0", TRUE))
  ELSE MatvecPrequant(m, b, W("ssm_ab", b), "normed", "gdn_ab")
\* The two of each row, from one buffer or from two.
FusedPair(m) == [i \in DOMAIN m.rows |-> LET ab == m.buf[AbBuffer][i]
                                        IN IF Len(ab) = 2 THEN ab ELSE <<Garbage, Garbage>>]
SplitPair(m) == [i \in DOMAIN m.rows |-> <<m.buf["gdn_a"][i], m.buf["gdn_b"][i]>>]

\* The delta rule, row after row, and each row's read-out.
Recurrent(m, b, ab) ==
  LET step(recs, i) ==
        Append(recs, Op(m, b, i, <<"delta", Last(recs), m.buf["gdn_k"][i],
                                        m.buf["gdn_v"][i], ab[i][1], ab[i][2]>>))
      recs == FoldLeft(step, <<m.st[b].rec>>, [i \in DOMAIN m.rows |-> i])
      m1 == Launch(m, b, "gdn_core_out", LAMBDA i : <<"recall", recs[i + 1], m.buf["gdn_q"][i]>>)
  IN [m1 EXCEPT !.st[b].rec = Last(recs)]
RmsnormGated(m, b) ==
  Launch(m, b, "gdn_core_out",
         LAMBDA i : <<"rmsnorm_gated", W("ssm_norm", b), m.buf["gdn_core_out"][i], m.buf["gdn_z"][i]>>)
RmsnormGatedQ8(m, b) == QuantizeQ8(RmsnormGated(m, b), "gdn_core_out")

StepLinear(m, ab, b, input, pending, out) ==
  Then(AddRmsnormQ8(m, ab, b, input, pending, "attn_norm"), LAMBDA m1 :
  Then(MatvecPrequant(m1, b, W("attn_qkv", b), "normed", "gdn_qkv"), LAMBDA m2 :
  Then(MatvecPrequant(m2, b, W("attn_gate", b), "normed", "gdn_z"), LAMBDA m3 :
  Then(Conv1dL2norm(GdnAb(m3, b), b), LAMBDA m4 :
  Then(Recurrent(m4, b, IF FusedAb THEN FusedPair(m4) ELSE SplitPair(m4)), LAMBDA m5 :
  Then(RmsnormGatedQ8(m5, b), LAMBDA m6 :
  MatvecPrequant(m6, b, W("ssm_out", b), "gdn_core_out", out)))))))
-----------------------------------------------------------------------------
(* The feed-forward of a decode step.                                       *)

StepSwiglu(m, b, input, out, prequant) ==
  Then(IF prequant THEN m ELSE QuantizeQ8(m, input), LAMBDA m1 :
  Then(MatvecPrequant(m1, b, W("ffn_gate", b), input, "ffn_a"), LAMBDA m2 :
  Then(MatvecPrequant(m2, b, W("ffn_up", b), input, "ffn_b"), LAMBDA m3 :
  MatvecPrequant(SwigluQ8(m3, b, "ffn_a", "ffn_b"), b, W("ffn_down", b), "ffn_a", out))))

\* launch_moe_expert_matvec and launch_moe_down: x[n] is an entry's activation.
ExpertRow(m, b, w, e, x) ==
  IF ExpertKernel(model.file[w]) # Stored(W(w, b)) THEN Garbage
  ELSE ExpertOp(m, b, <<"expert", W(w, b), e, x>>)
ExpertMatvec(m, b, w, x, y) ==
  Fill(m, y, [n \in Entries(m) |-> ExpertRow(m, b, w, ExpertOf(m, b, n), x[n])])
\* What the token of every entry left in a buffer.
OfTokens(m, y) == [n \in Entries(m) |-> m.buf[y][TokenOf(n)]]
ExpertSwiglu(m, b) ==
  Fill(m, "e_gate", [n \in Entries(m) |->
                       ExpertOp(m, b, <<"swiglu", m.buf["e_gate"][n], m.buf["e_up"][n]>>)])
\* Both slabs with one kernel when they are Q4_K, which leaves e_up alone.
GateUp(m, b, x) ==
  Then(ExpertMatvec(ExpertMatvec(m, b, "gate_exps", x, "e_gate"), b, "up_exps", x, "e_up"),
       LAMBDA m1 :
  ExpertSwiglu(m1, b))
GateUpSwiglu(m, b, x) ==
  IF {model.file["gate_exps"], model.file["up_exps"]} = {"Q4_K"}
  THEN [GateUp(m, b, x) EXCEPT !.buf["e_up"] = m.buf["e_up"]]
  ELSE GateUp(m, b, x)

ShexpGate(m, b, input) ==
  Launch(m, b, "sh_out", LAMBDA i : <<"shexp_gate", W("gate_inp_shexp", b), m.buf["sh_out"][i],
                                      m.buf[input][i]>>)
\* input may be output: the combine is last.
StepMoe(m, b, input, out) ==
  Then(TopK(MatvecDispatch(m, b, W("ffn_gate_inp", b), input, "moe_logits"), b), LAMBDA m1 :
  Then(QuantizeQ8(m1, input), LAMBDA m2 :
  Then(GateUpSwiglu(m2, b, OfTokens(m2, "xq8")), LAMBDA m3 :
  Then(QuantizeQ8Into(m3, "e_gate", "xq8_exp"), LAMBDA m4 :
  Then(ExpertMatvec(m4, b, "down_exps", m4.buf["xq8_exp"], "e_out"), LAMBDA m5 :
  Then(MatvecDispatch(m5, b, W("gate_shexp", b), input, "sh_gate"), LAMBDA m6 :
  Then(MatvecDispatch(m6, b, W("up_shexp", b), input, "sh_up"), LAMBDA m7 :
  Then(MatvecDispatch(LaunchSwiglu(m7, b, "sh_gate", "sh_up"), b, W("down_shexp", b),
                      "sh_gate", "sh_out"), LAMBDA m8 :
  AddInplace(Combine(ShexpGate(m8, b, input), b, out), b, out, "sh_out")))))))))
StepFfn(m, b, input, out, prequant) ==
  IF model.moe THEN StepMoe(m, b, input, out) ELSE StepSwiglu(m, b, input, out, prequant)
-----------------------------------------------------------------------------
(* Blocks and decode.                                                       *)

StepAttention(m, ab, b, input, pending, out) ==
  IF IsFull(b) THEN StepFull(m, ab, b, input, pending, out)
  ELSE StepLinear(m, ab, b, input, pending, out)
\* scratch holds the previous block's output when pending, this one's after.
BlockPending(m, pending, b, hidden, scratch) ==
  Then(StepAttention(m, b - 1, b, hidden, IF pending THEN scratch ELSE "none", scratch), LAMBDA m1 :
  Then(AddRmsnormQ8(m1, b, b, hidden, scratch, "post_norm"), LAMBDA m2 :
  StepFfn(m2, b, "normed", scratch, TRUE)))
BlockDev(m, b, hidden, scratch) ==
  AddInplace(BlockPending(m, FALSE, b, hidden, scratch), b, hidden, scratch)
OutputHead(m, b, norm, x, scratch) ==
  MatvecDispatch(Rmsnorm(m, b, norm, x, scratch), b, OutputProj, scratch, "logits")

AllBlocks == [b \in 1 .. Final |-> b]
EnqueueDecodeBody(m) ==
  Then(FoldLeft(LAMBDA mm, b : BlockPending(mm, b > 1, b, "hidden_a", "hidden_b"), m, AllBlocks),
       LAMBDA body :
  OutputHead(AddInplace(body, Final, "hidden_a", "hidden_b"), Final, "output_norm",
             "hidden_a", "hidden_b"))
\* forward_token_traced and _traced_block: each block finishes its own sum.
TracedBody(m) ==
  OutputHead(FoldLeft(LAMBDA mm, b : BlockDev(mm, b, "hidden_a", "hidden_b"), m, AllBlocks),
       Final, "output_norm", "hidden_a", "hidden_b")
\* set_pos(state.pos) and the embedding of row r before either.
Staged(g, r) ==
  Embed([Fresh(g.st, 1 .. Final, <<r>>) EXCEPT !.pos = g.pos], 1, "hidden_a", <<<<"token", r>>>>)

\* apply_full_attention_block, apply_linear_attention_block.
ApplyBlock(m, b) ==
  Then(IF IsFull(b) THEN [m EXCEPT !.pos = m.st[b].len] ELSE m, LAMBDA m0 :
  Then(AddInplace(StepAttention(m0, b, b, "hidden_a", "none", "hidden_b"),
                  b, "hidden_a", "hidden_b"), LAMBDA m1 :
  Then(Rmsnorm(m1, b, "post_norm", "hidden_a", "hidden_b"), LAMBDA m2 :
  AddInplace(StepFfn(m2, b, "hidden_b", "hidden_b", FALSE), b, "hidden_a", "hidden_b"))))

\* mtp_draft_forward.
DraftForward(m, prev, token) ==
  Then(Embed(m, Mtp, "hidden_b", <<token>>), LAMBDA m1 :
  Then(Rmsnorm(m1, Mtp, "enorm", "hidden_b", "concat_lo"), LAMBDA m2 :
  Then(Launch(m2, Mtp, "concat_hi", LAMBDA i : <<"rmsnorm", W("hnorm", Mtp), prev>>), LAMBDA m3 :
  Then(Fill(m3, "concat", <<<<m3.buf["concat_lo"][1], m3.buf["concat_hi"][1]>>>>), LAMBDA m4 :
  Then(MatvecDispatch(m4, Mtp, W("eh_proj", Mtp), "concat", "mtp_hid"), LAMBDA m5 :
  OutputHead(BlockDev(m5, Mtp, "mtp_hid", "hidden_b"), Mtp, "shared_head_norm",
       "mtp_hid", "hidden_b"))))))
-----------------------------------------------------------------------------
(* Batches of rows: prefill and verify.                                     *)

\* bmm: the batched matvec for a few rows, the quantised GEMM, or an fp16 one.
Bmm(m, b, w, x, y) ==
  LET s == Stored(w)
      few == Len(m.rows) <= SmallRows /\ s.dtype \in {"Q4_K", "Q5_K", "Q6_K"}
  IN Matvec(m, b, w, x, y,
            CASE s.repacked /\ few -> BatchedKernel(s.dtype)
              [] s.repacked /\ ~few -> MmqKernel(s.dtype)
              [] ~s.repacked /\ s.dtype = "F16" -> s
              [] OTHER -> DequantKernel(s))

GroupedGemm(m, b, w, owners, x, y) ==
  Fill(m, y, [p \in Entries(m) |-> IF owners[p] = ExpertCount THEN Stale
                                   ELSE ExpertRow(m, b, w, owners[p], m.buf[x][p])])
Grouped == /\ {model.file["gate_exps"], model.file["up_exps"]} = {"Q4_K"}
           /\ model.file["down_exps"] \in {"Q5_K", "Q6_K"}

\* The orders in which a sort's entries can arrive, where there is a sort.
Orders == IF model.moe /\ Grouped THEN Arrivals ELSE {<<>>}

RoutedGrouped(m, b, arrival) ==
  Then(Sorted([n \in Entries(m) |-> ExpertOf(m, b, n)], arrival), LAMBDA s :
  Then(GroupedGemm(Gather(m, s.place), b, "gate_exps", s.owners, "g_in", "e_gate"), LAMBDA m1 :
  Then(ExpertSwiglu(GroupedGemm(m1, b, "up_exps", s.owners, "g_in", "e_up"), b), LAMBDA m2 :
  Then(QuantizeQ8Into(m2, "e_gate", "xq8_exp"), LAMBDA m3 :
  Then(GroupedGemm(m3, b, "down_exps", s.owners, "xq8_exp", "g_out"), LAMBDA m4 :
  ScatterRows(m4, s.place))))))
RoutedByEntry(m, b) ==
  Then(GateUp(m, b, OfTokens(m, "xq8_in")), LAMBDA m1 :
  Then(QuantizeQ8Into(m1, "e_gate", "xq8_exp"), LAMBDA m2 :
  ExpertMatvec(m2, b, "down_exps", m2.buf["xq8_exp"], "e_out")))
StepMoeBatched(m, b, input, out, arrival) ==
  Then(TopK(Bmm(m, b, W("ffn_gate_inp", b), input, "moe_logits"), b), LAMBDA m1 :
  Then(QuantizeQ8Into(m1, input, "xq8_in"), LAMBDA m2 :
  Then(IF Grouped THEN RoutedGrouped(m2, b, arrival) ELSE RoutedByEntry(m2, b), LAMBDA m3 :
  Then(Bmm(m3, b, W("gate_shexp", b), input, "sh_gate"), LAMBDA m4 :
  Then(LaunchSwiglu(Bmm(m4, b, W("up_shexp", b), input, "sh_up"), b, "sh_gate", "sh_up"),
       LAMBDA m5 :
  Then(ShexpGate(Bmm(m5, b, W("down_shexp", b), "sh_gate", "sh_out"), b, input), LAMBDA m6 :
  AddInplace(Combine(m6, b, out), b, out, "sh_out")))))))

\* batched_ffn: bnorm to bb, the experts MoeChunk rows at a time.
BatchedFfn(m, b, arrival) ==
  LET n == Len(m.rows)
      start(c) == (c - 1) * MoeChunk + 1
  IN IF model.moe
     THEN FoldLeft(LAMBDA mm, c :
                     Then(StepMoeBatched(View(mm, start(c), Least(c * MoeChunk, n)), b, "bnorm", "bb", arrival),
                          LAMBDA part :
                     Back(mm, part, start(c), "bb")),
                   m, [c \in 1 .. Ceil(n, MoeChunk) |-> c])
     ELSE Then(Bmm(m, b, W("ffn_gate", b), "bnorm", "ffn_a"), LAMBDA m1 :
          Then(Bmm(m1, b, W("ffn_up", b), "bnorm", "ffn_b"), LAMBDA m2 :
          Bmm(LaunchSwiglu(m2, b, "ffn_a", "ffn_b"), b, W("ffn_down", b), "ffn_a", "bb")))

\* The rows' keys and values, copied behind the base rows the cache holds; and
\* their queries, each with the keys before it.
KvCopy(m, b, base) ==
  LET put(kv, i) == PutRow(kv, base + i - 1, <<m.buf["k_norm"][i], m.buf["v_raw"][i]>>)
  IN [m EXCEPT !.st[b].kv = FoldLeft(put, @, [i \in DOMAIN m.rows |-> i])]
AttnStepBatched(m, b, base) ==
  Launch(m, b, "attn_concat",
         LAMBDA i : <<"attend", m.buf["q_buf"][i], SubSeq(m.st[b].kv, 1, base + i)>>)
BatchedFull(m, b) ==
  LET base == m.st[b].len
  IN Then(Rmsnorm(m, b, "attn_norm", "ba", "bnorm"), LAMBDA m1 :
     Then(Bmm(Bmm(Bmm(m1, b, W("attn_q", b), "bnorm", "q_raw"),
                  b, W("attn_k", b), "bnorm", "k_raw"), b, W("attn_v", b), "bnorm", "v_raw"),
          LAMBDA m2 :
     Then(Half(Half(m2, b, 1, "q_raw", "q_buf"), b, 2, "q_raw", "gate_buf"), LAMBDA m3 :
     Then(Rope(Rmsnorm(m3, b, "attn_q_norm", "q_buf", "q_buf"), b, base, "q_buf"), LAMBDA m4 :
     Then(Rope(Rmsnorm(m4, b, "attn_k_norm", "k_raw", "k_norm"), b, base, "k_norm"), LAMBDA m5 :
     Then(AttnStepBatched(KvCopy(m5, b, base), b, base), LAMBDA m6 :
     Then(Bmm(SigmoidMul(m6, b, "attn_concat", "gate_buf"), b, W("attn_output", b),
              "attn_concat", "bb"), LAMBDA m7 :
     [m7 EXCEPT !.st[b].len = base + Len(m.rows)])))))))
BatchedLinear(m, b) ==
  LET proj(mm, w, y) == Bmm(mm, b, W(w, b), "bnorm", y)
  IN Then(Rmsnorm(m, b, "attn_norm", "ba", "bnorm"), LAMBDA m1 :
     Then(proj(proj(m1, "attn_qkv", "gdn_qkv"), "attn_gate", "gdn_z"), LAMBDA m2 :
     Then(proj(proj(m2, "ssm_alpha", "gdn_a"), "ssm_beta", "gdn_b"), LAMBDA m3 :
     Then(L2norm(Conv1d(m3, b), b), LAMBDA m4 :
     Then(RmsnormGated(Recurrent(m4, b, SplitPair(m4)), b), LAMBDA m5 :
     Bmm(m5, b, W("ssm_out", b), "gdn_core_out", "bb"))))))
BatchedBlock(m, b, arrival) ==
  Then(AddInplace(IF IsFull(b) THEN BatchedFull(m, b) ELSE BatchedLinear(m, b), b, "ba", "bb"),
       LAMBDA m1 :
  Then(BatchedFfn(Rmsnorm(m1, b, "post_norm", "ba", "bnorm"), b, arrival), LAMBDA m2 :
  AddInplace(m2, b, "ba", "bb")))
\* The rows fed + 1 .. fed + n, embedded and through every block.
Batched(n, arrival) ==
  FoldLeft(LAMBDA m, b : BatchedBlock(m, b, arrival),
           Embed(Fresh(gpu.st, 1 .. Final, [i \in 1 .. n |-> fed + i]), 1, "ba",
                 [i \in 1 .. n |-> <<"token", fed + i>>]),
           AllBlocks)
-----------------------------------------------------------------------------
(* The calls.                                                               *)

Init ==
  /\ model \in {mo \in Models : Loads(mo)}
  /\ fed = 0 /\ drafted = <<>>
  /\ gpu = [st |-> [b \in 1 .. Mtp |->
                      IF IsFull(b) THEN [kv |-> <<>>, len |-> 0]
                      ELSE [hist |-> [i \in 1 .. Taps - 1 |-> Zero], rec |-> Zero]],
            pos |-> 0, seed |-> Stale]
  /\ answer = <<>> /\ wanted = <<>> /\ phase = "ready"

\* A forward of n rows returns got, leaves the device as g, or is refused.
Return(m, n, g, got, want) ==
  /\ UNCHANGED <<model, drafted>>
  /\ \/ /\ m.ok
        /\ fed' = fed + n /\ gpu' = g /\ answer' = got /\ wanted' = want
        /\ UNCHANGED phase
     \/ ~m.ok /\ phase' = "failed" /\ UNCHANGED <<fed, gpu, answer, wanted>>
Rows(n, stage) == [i \in 1 .. n |-> V(stage, Final, fed + i)]

\* forward_token, forward_token_via_graph; the traced ones.  hidden_a is what
\* a draft starts from.
Decode(m) ==
  /\ phase = "ready" /\ fed < model.length /\ gpu.pos = fed
  /\ Return(m, 1, [st |-> m.st, pos |-> fed + 1, seed |-> m.buf["hidden_a"][1]],
               m.buf["logits"], Rows(1, "logits"))
ForwardToken == Decode(EnqueueDecodeBody(Staged(gpu, fed + 1)))
ForwardTokenTraced == Decode(TracedBody(Staged(gpu, fed + 1)))

\* prefill_stage of a whole model.
PrefillStage(n, arrival) ==
  /\ phase = "ready" /\ fed + n <= model.length /\ gpu.pos = fed
  /\ Then(Batched(n, arrival), LAMBDA m :
     Then(OutputHead(View(m, n, n), Final, "output_norm", "ba", "hidden_b"), LAMBDA last :
     Return(last, n, [st |-> m.st, pos |-> fed + n, seed |-> Stale],
            last.buf["logits"], <<V("logits", Final, fed + n)>>)))

\* forward_tokens_verify: every row is projected, and its hidden state kept.
ForwardTokensVerify(n, arrival) ==
  /\ phase = "ready" /\ fed + n <= model.length /\ gpu.pos = fed
  /\ Then(Batched(n, arrival), LAMBDA m :
     Then(OutputHead(m, Final, "output_norm", "ba", "bnorm"), LAMBDA all :
     Return(all, n, [st |-> m.st, pos |-> fed + n, seed |-> m.buf["ba"][n]],
            all.buf["logits"], Rows(n, "logits"))))

\* The apply_*_block calls, chained from an embedded row; state.pos is the
\* caller's and stays.
ApplyBlocks ==
  /\ phase = "ready" /\ fed < model.length /\ gpu.pos = 0
  /\ Then(Fill(Fresh(gpu.st, 1 .. Final, <<fed + 1>>), "hidden_a", <<V("embed", 1, fed + 1)>>),
          LAMBDA start :
     Then(FoldLeft(ApplyBlock, start, AllBlocks), LAMBDA m :
     Return(m, 1, [gpu EXCEPT !.st = m.st, !.seed = Stale], m.buf["hidden_a"], Rows(1, "hidden"))))

\* What a chain of drafts leaves, or that one was refused.
ReturnDrafts(end) ==
  /\ UNCHANGED <<model, fed>>
  /\ \/ /\ end.m.ok
        /\ drafted' = end.rows
        /\ gpu' = [gpu EXCEPT !.st = end.m.st, !.seed = Stale]
        /\ answer' = end.got
        /\ wanted' = [j \in 1 .. ChainK |->
                        V("logits", Mtp, SubSeq(end.rows, 1, Len(drafted) + j))]
        /\ UNCHANGED phase
     \/ ~end.m.ok /\ phase' = "undraftable" /\ UNCHANGED <<drafted, gpu, answer, wanted>>

\* mtp_draft_chain: each link drafts from the one before, the first from the
\* hidden state and the logits of the last row, at positions after mtp_pos.
DraftLink(c, j) ==
  LET row == Append(c.rows, <<fed, j>>)
      start == [Fresh(c.m.st, {Mtp}, <<row>>) EXCEPT !.pos = Len(c.rows), !.ok = c.m.ok]
  IN Then(DraftForward(start, c.prev, c.token), LAMBDA m :
     [rows |-> row, m |-> m, prev |-> m.buf["mtp_hid"][1],
      token |-> Argmax(m.buf["logits"][1]), got |-> Append(c.got, m.buf["logits"][1])])
MtpDraftChain ==
  LET first == [rows |-> drafted, m |-> Fresh(gpu.st, {}, <<>>), prev |-> gpu.seed,
                token |-> Argmax(V("logits", Final, fed)), got |-> <<>>]
  IN /\ phase = "ready" /\ gpu.seed # Stale /\ Len(drafted) < ChainK * model.chains
     /\ ReturnDrafts(FoldLeft(DraftLink, first, [j \in 1 .. ChainK |-> j]))

Next ==
  \/ ForwardToken
  \/ ForwardTokenTraced
  \/ \E n \in 1 .. model.length, arrival \in Orders : PrefillStage(n, arrival)
  \/ \E n \in 1 .. model.length, arrival \in Orders : ForwardTokensVerify(n, arrival)
  \/ ApplyBlocks
  \/ MtpDraftChain
Spec == Init /\ [][Next]_vars
-----------------------------------------------------------------------------
(* Whatever calls fed the rows, in whatever batches, the answer of the last *)
(* one and everything a block keeps are those of the scalar model: no       *)
(* launch read a buffer another had reused, a residual not yet added, a     *)
(* cache row not yet written, or a weight with another format's kernel.     *)
BlockAsReference(b) ==
  LET past == IF b = Mtp THEN Past(Mtp, drafted) ELSE [i \in 1 .. fed |-> i]
      window == ConvWindow(b, fed + 1)
  IN gpu.st[b] = IF IsFull(b)
                 THEN [kv |-> [i \in DOMAIN past |-> KvRow(b, past[i])], len |-> Len(past)]
                 ELSE [hist |-> SubSeq(window, 1, Taps - 1),
                       rec |-> IF fed = 0 THEN Zero ELSE V("rec", b, fed)]
MatchesReference == answer = wanted /\ \A b \in 1 .. Mtp : BlockAsReference(b)

(* A model one path has no kernel for is refused by every path, and at its  *)
(* first token: none fails halfway into a request, after a prefill whose    *)
(* kernels read a type the decode's do not, or between the drafts of a      *)
(* chain.                                                                   *)
PathsAgree ==
  /\ phase = "failed" => fed = 0 /\ ~EnqueueDecodeBody(Staged(gpu, 1)).ok
  /\ phase = "undraftable" => drafted = <<>>
=============================================================================
