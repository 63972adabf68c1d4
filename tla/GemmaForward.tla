----------------------------- MODULE GemmaForward ----------------------------
(***************************************************************************)
(* What a Gemma 4 forward computes on the GPU, kernel by kernel (gemma4.rs, *)
(* prefill.rs, and gemma4_assistant.rs for the drafter), against the scalar *)
(* model (cpu/gemma4.rs).  As in QwenForward, a launch yields the vector    *)
(* whose definition it carried out.  The context here is cut back and fed   *)
(* again, as the server's prefix cache and the speculative loop do, so a    *)
(* row is named by the tokens up to it: a row left in a cache by a longer   *)
(* context is another vector than the one its place now asks for.           *)
(***************************************************************************)
EXTENDS Launches

CONSTANTS Models,              \* the models tried, see ModelType
          Window,              \* sliding_window
          SmallRows,           \* matmul_into's rows for the batched matvec (4)
          MoeChunk,            \* MOE_PREFILL_CHUNK
          Arrivals,            \* orders in which the atomics of a sort arrive
          MaxVerify,           \* MAX_VERIFY_K
          ChainK               \* drafts of a round

Experts == {"gate_up_exps", "down_exps"}
Roles == {"token_embd", "attn_q", "attn_k", "attn_v", "attn_output", "ffn_gate", "ffn_up",
          "ffn_down", "ffn_gate_inp", "ple_token_embd", "ple_model_proj", "inp_gate", "proj",
          "draft_token_embd", "pre_projection", "post_projection", "fc"} \cup Experts
Kind == {"sliding", "full"}

\* own: the blocks that own their keys and values, n_layer_kv_from_start.
\* full_v: full blocks have an attn_v too.  The blocks of the drafter, of the
\* DFlash drafter, and those it taps.  The last two fields bound a run: the
\* longest context, how often it is cut back.
ModelType == [family : {"gemma4"}, kinds : Seq(Kind) \ {<<>>}, own : Nat, full_v : BOOLEAN,
              moe : BOOLEAN, ple : BOOLEAN, softcap : BOOLEAN, dp4a : BOOLEAN,
              graphs : BOOLEAN, grouped : BOOLEAN, drafter : Seq(Kind), dflash : Seq(Kind),
              taps : Seq(Nat), file : [Roles -> Dtypes],
              length : Nat, cuts : Nat]
TapBuffer == <<"tap_1", "tap_2">>
GemmaParameters ==
  /\ \A mo \in Models : /\ mo \in ModelType /\ mo.own \in 1 .. Len(mo.kinds)
                        /\ mo.own = 1 => Len(mo.kinds) = 1   \* kv_donor takes own - 1
                        /\ MaxSeq >= mo.length /\ ~(mo.moe /\ mo.ple)
                        /\ IsInjective(mo.taps)   \* maybe_tap fills the first slot of a block
                        /\ Len(mo.taps) \in (IF mo.dflash = <<>> THEN {0} ELSE 1 .. Len(TapBuffer))
  /\ {Window, MoeChunk, MaxVerify, ChainK} \subseteq Nat \ {0} /\ SmallRows \in Nat

VARIABLES model,
          fed,                 \* the context, each token the cuts made before it
          drafted,             \* the drafts made after it
          gpu,                 \* what outlives a call on the device
          answer, wanted,      \* what the last call computed; the reference's
          phase
vars == <<model, fed, drafted, gpu, answer, wanted, phase>>

Final == Len(model.kinds)
Blocks == [b \in 1 .. Final |-> b]
DraftBlocks == [d \in 1 .. Len(model.drafter) |-> Final + d]
DraftEnds == Final + Len(model.drafter) + 1
KindOf(b) == IF b > Final THEN model.drafter[b - Final] ELSE model.kinds[b]
Owns(b) == b <= model.own
Sharing == model.own < Final
HasV(b) == KindOf(b) = "sliding" \/ model.full_v
-----------------------------------------------------------------------------
(* The reference.  Block 0 holds the ends of the model.  A row of the       *)
(* drafter is a context and the place of the draft after it.                *)

Context(b, r) == IF b > Final THEN r[1] ELSE r
Pos(b, r) == Len(Context(b, r)) - 1
\* The last block of a kind that owns its cache.
LastOwner(kind) ==
  CHOOSE b \in 1 .. model.own : /\ model.kinds[b] = kind
                                /\ \A c \in b + 1 .. model.own : model.kinds[c] # kind
KvBlock(b) == IF Owns(b) THEN b ELSE LastOwner(KindOf(b))
KvRow(b, r) == <<V("k", b, r), V("v", b, r)>>
\* The rows a row attends to, itself included, oldest first.
Attended(b, r) ==
  LET n == Len(Context(b, r))
      lo == IF KindOf(b) = "sliding" /\ n > Window THEN n - Window ELSE 0
  IN [i \in 1 .. n - lo |-> KvRow(KvBlock(b), SubSeq(Context(b, r), 1, lo + i))]

Input(b, r) == IF b = 1 THEN V("x", 0, r)
               ELSE IF b = Final + 1 THEN V("pre", DraftEnds, r) ELSE V("out", b - 1, r)
Logits(r) == V(IF model.softcap THEN "logits" ELSE "head", 0, r)
DraftToken(r) == IF r[2] = 1 THEN Last(r[1]) ELSE Argmax(V("head", DraftEnds, <<r[1], r[2] - 1>>))
HPrev(r) == IF r[2] = 1 THEN V("final", 0, r[1]) ELSE V("h_next", DraftEnds, <<r[1], r[2] - 1>>)

RefEnds(r) ==
  [embed |-> <<"embed", W("token_embd", 0), Last(r)>>,
   x |-> <<"scale", "sqrt_hidden", V("embed", 0, r)>>,
   final |-> <<"rmsnorm", W("output_norm", 0), V("out", Final, r)>>,
   head |-> <<"matvec", W("token_embd", 0), V("final", 0, r)>>,
   logits |-> <<"softcap", V("head", 0, r)>>]
\* The scalar model has no per-layer embeddings: llama.cpp's, as the comments
\* of enqueue_ple_setup and block_forward give them.
RefPle(r) ==
  [ple_embed |-> <<"embed", W("ple_token_embd", 0), Last(r)>>,
   ple_raw |-> <<"scale", "sqrt_ple", V("ple_embed", 0, r)>>,
   ple_proj |-> <<"matvec", W("ple_model_proj", 0), V("x", 0, r)>>,
   ple_scaled |-> <<"scale", "rsqrt_hidden", V("ple_proj", 0, r)>>,
   ple_norm |-> <<"rmsnorm", W("ple_proj_norm", 0), V("ple_scaled", 0, r)>>,
   ple_sum |-> <<"add", V("ple_raw", 0, r), V("ple_norm", 0, r)>>,
   ple |-> <<"scale", "rsqrt_2", V("ple_sum", 0, r)>>]
RefDraftEnds(r) ==
  [embed |-> <<"embed", W("token_embd", 0), DraftToken(r)>>,
   x |-> <<"scale", "sqrt_hidden", V("embed", DraftEnds, r)>>,
   pre |-> <<"matvec", W("pre_projection", DraftEnds), <<V("x", DraftEnds, r), HPrev(r)>>>>,
   final |-> <<"rmsnorm", W("output_norm", DraftEnds), V("out", DraftEnds - 1, r)>>,
   head |-> <<"matvec", W("draft_token_embd", DraftEnds), V("final", DraftEnds, r)>>,
   h_next |-> <<"matvec", W("post_projection", DraftEnds), V("final", DraftEnds, r)>>]

RefAttention(b, r) ==
  [normed |-> <<"rmsnorm", W("attn_norm", b), Input(b, r)>>,
   q_raw |-> <<"matvec", W("attn_q", b), V("normed", b, r)>>,
   q_norm |-> <<"rmsnorm", W("attn_q_norm", b), V("q_raw", b, r)>>,
   q |-> <<"rope", KindOf(b), Pos(b, r), V("q_norm", b, r)>>,
   attn |-> <<"attend", V("q", b, r), Attended(b, r)>>,
   attn_out |-> <<"matvec", W("attn_output", b), V("attn", b, r)>>,
   attn_post |-> <<"rmsnorm", W("post_attn_norm", b), V("attn_out", b, r)>>,
   mid |-> <<"add", Input(b, r), V("attn_post", b, r)>>]
RefKv(b, r) ==
  [k_raw |-> <<"matvec", W("attn_k", b), V("normed", b, r)>>,
   v_raw |-> <<"matvec", W("attn_v", b), V("normed", b, r)>>,
   k_norm |-> <<"rmsnorm", W("attn_k_norm", b), V("k_raw", b, r)>>,
   k |-> <<"rope", KindOf(b), Pos(b, r), V("k_norm", b, r)>>,
   v |-> <<"rmsnorm", W("ones", 0), V(IF HasV(b) THEN "v_raw" ELSE "k_raw", b, r)>>]

\* The shared MLP, and the end of a block around the result of its FFN.
RefMlp(b, r) ==
  [ffn_in |-> <<"rmsnorm", W("ffn_norm", b), V("mid", b, r)>>,
   ffn_gate |-> <<"matvec", W("ffn_gate", b), V("ffn_in", b, r)>>,
   ffn_up |-> <<"matvec", W("ffn_up", b), V("ffn_in", b, r)>>,
   ffn_mid |-> <<"geglu", V("ffn_gate", b, r), V("ffn_up", b, r)>>,
   mlp |-> <<"matvec", W("ffn_down", b), V("ffn_mid", b, r)>>,
   ffn_post |-> <<"rmsnorm", W("post_ffw_norm", b),
                  V(IF model.moe /\ b <= Final THEN "ffn" ELSE "mlp", b, r)>>,
   sum |-> <<"add", V("mid", b, r), V("ffn_post", b, r)>>,
   out |-> <<"scale", W("layer_output_scale", b),
             V(IF model.ple /\ b <= Final THEN "ple_sum" ELSE "sum", b, r)>>]
RefBlockPle(b, r) ==
  [ple_gate |-> <<"matvec", W("inp_gate", b), V("sum", b, r)>>,
   ple_mid |-> <<"geglu", V("ple_gate", b, r), <<"slice", b, V("ple", 0, r)>>>>,
   ple_up |-> <<"matvec", W("proj", b), V("ple_mid", b, r)>>,
   ple_post |-> <<"rmsnorm", W("post_norm", b), V("ple_up", b, r)>>,
   ple_sum |-> <<"add", V("sum", b, r), V("ple_post", b, r)>>]
RefMoe(b, r) ==
  [mlp_post |-> <<"rmsnorm", W("post_ffw_norm_1", b), V("mlp", b, r)>>,
   router_in |-> <<"rmsnorm", W("ffn_gate_inp.scale / sqrt_hidden", b), V("mid", b, r)>>,
   router |-> <<"matvec", W("ffn_gate_inp", b), V("router_in", b, r)>>,
   ids |-> <<"topk", V("router", b, r)>>,
   moe_in |-> <<"rmsnorm", W("pre_ffw_norm_2", b), V("mid", b, r)>>,
   moe |-> <<"combine", [s \in 1 .. Used |-> V("e_out", b, <<r, s>>)], V("ids", b, r)>>,
   moe_post |-> <<"rmsnorm", W("post_ffw_norm_2", b), V("moe", b, r)>>,
   ffn |-> <<"add", V("mlp_post", b, r), V("moe_post", b, r)>>]
RefExpert(b, r, s) ==
  [e_gu |-> <<"expert", W("gate_up_exps", b), Route(b, r)[s], V("moe_in", b, r)>>,
   e_mid |-> <<"geglu_halves", V("e_gu", b, <<r, s>>)>>,
   e_out |-> <<"expert", W("down_exps", b), Route(b, r)[s], V("e_mid", b, <<r, s>>)>>]

Reference(b, r) ==
  IF b = 0 THEN {RefEnds(r)} \cup (IF model.ple THEN {RefPle(r)} ELSE {})
  ELSE IF b = DraftEnds THEN {RefDraftEnds(r)}
  ELSE {RefAttention(b, r), RefMlp(b, r)}
       \cup (IF Owns(b) THEN {RefKv(b, r)} ELSE {})
       \cup (IF model.moe /\ b <= Final THEN {RefMoe(b, r)} ELSE {})
       \cup (IF model.ple /\ b <= Final THEN {RefBlockPle(b, r)} ELSE {})
-----------------------------------------------------------------------------
(* The weights, and the format each kernel reads, None when there is none.  *)

Tables == {"token_embd", "ple_token_embd"}
Stored(w) ==
  LET d == model.file[w[1]]
  IN CASE w[1] \in Tables -> FromGguf(d)
       [] w[1] \in Experts -> Format(d, TRUE)
       [] w[1] = "ple_model_proj" -> Format("F32", FALSE)
       [] OTHER -> FromGgufMatvec(d)
\* What new() refuses: another type than BF16 for the projection of the
\* per-layer embeddings, experts without kernels.
LoadsPle(mo) == mo.ple => mo.file["ple_model_proj"] = "BF16"
Loads(mo) == /\ mo.moe => \A e \in Experts : mo.file[e] \in ExpertDtypes
             /\ LoadsPle(mo)

OnDisk == {"Q4_0", "Q4_K", "Q5_K", "Q6_K", "Q8_0"}
Xq8Kernel(d) ==
  Format(IF d \in {"Q4_0", "IQ4_XS", "IQ3_S", "Q5_K", "Q6_K", "Q8_0"} THEN d ELSE "Q4_K", TRUE)
RawKernel(d) == IF d \in OnDisk \cup {"F32", "F16"} THEN Format(d, FALSE) ELSE None
\* Mutant: the fp16 kernels take Q5_1, for which decode has none.
DequantKernelQ5_1(d) == IF d \in OnDisk \cup {"F32", "Q5_1"} THEN Format(d, FALSE) ELSE None
DequantKernel(d) == IF d \in OnDisk \cup {"F32"} THEN Format(d, FALSE) ELSE None
BatchedKernel(d) == IF d \in Repacked \ {"Q8_0"} THEN Format(d, TRUE) ELSE None
MmqKernel(d) ==
  Format(IF d \in {"Q4_0", "IQ4_XS", "IQ3_S", "Q5_K", "Q6_K", "Q8_0"} THEN d ELSE "Q4_K", TRUE)
EmbedKernel(d) == IF d \in {"Q4_0", "Q5_K", "Q8_0"} THEN Format(d, FALSE) ELSE None
-----------------------------------------------------------------------------
(* Launches.                                                                *)

Buffers == {"hidden_a", "hidden_b", "normed", "xq8", "q", "k_proj", "v_proj", "k_norm", "v_norm",
            "attn", "attn_out", "gate", "up", "mlp", "x", "ple_raw", "ple_proj", "ple_perm",
            "ple_gate", "ple_out", "cur_mlp", "moe_in", "moe_logits", "ids", "xq8_in", "xq8_exp",
            "e_gu", "e_act", "e_out", "g_in", "g_out", "moe_acc", "donor_swa", "donor_full",
            "logits", "embed_buf", "concat", "block_a", "block_b"} \cup Range(TapBuffer)
\* A call of the blocks bs on some rows.
Fresh(st, bs, rows) ==
  LET each(def(_, _)) == [b \in 0 .. DraftEnds |-> IF b \in bs
                                                   THEN [i \in DOMAIN rows |-> def(b, rows[i])] \o <<>>
                                                   ELSE <<>>]
      experts(b, r) == IF model.moe /\ b \in 1 .. Final
                       THEN [j \in 1 .. Used |-> RefExpert(b, r, j)] \o <<>> ELSE <<>>
  IN Machine(Buffers, st, each(Reference), each(experts), rows)

Embed(m, b, table, y, tokens) ==
  LET kernel == EmbedKernel(Stored(table).dtype)
  IN CASE kernel = None -> [m EXCEPT !.ok = FALSE]
       [] kernel # None -> Launch(m, b, y, LAMBDA i : <<"embed", table, tokens[i]>>)
\* The tokens of the rows.
Tokens(m) == [i \in DOMAIN m.rows |-> Last(m.rows[i])]
Scale(m, b, x, by) == Launch(m, b, x, LAMBDA i : <<"scale", by, m.buf[x][i]>>)
Geglu(m, b, x, y) == Launch(m, b, x, LAMBDA i : <<"geglu", m.buf[x][i], m.buf[y][i]>>)
Softcap(m, b) ==
  IF model.softcap THEN Launch(m, b, "logits", LAMBDA i : <<"softcap", m.buf["logits"][i]>>) ELSE m
\* The i-th row at position base + i - 1; and a decode step's row, at d_pos.
RopeRows(m, b, base, x) ==
  Launch(m, b, x, LAMBDA i : <<"rope", KindOf(b), base + i - 1, m.buf[x][i]>>)
Rope(m, b, x) == RopeRows(m, b, m.pos, x)
RmsnormQ8(m, b, w, x) == Rmsnorm(m, b, w, x, "xq8")
\* hidden += rmsnorm(y), in one launch; and its scale by layer_output_scale.
RmsnormAdd(m, b, y, w, hidden) ==
  Launch(m, b, hidden, LAMBDA i : <<"add", m.buf[hidden][i], Op(m, b, i, <<"rmsnorm", W(w, b), m.buf[y][i]>>)>>)
ScaleOut(m, b, hidden) == Scale(m, b, hidden, W("layer_output_scale", b))
RmsnormAddScale(m, b, y, w, hidden) == ScaleOut(RmsnormAdd(m, b, y, w, hidden), b, hidden)

\* A matrix product with the kernel that was picked, on the rows of x.
Matvec(m, b, w, x, y, kernel) ==
  IF kernel = None THEN [m EXCEPT !.ok = FALSE]
  ELSE IF kernel # Stored(w) THEN Fill(m, y, [i \in DOMAIN m.rows |-> Garbage])
  ELSE Launch(m, b, y, LAMBDA i : <<"matvec", w, m.buf[x][i]>>)
MatvecXq8(m, b, w, y) == Matvec(m, b, w, "xq8", y, Xq8Kernel(Stored(w).dtype))
MatvecRaw(m, b, w, x, y) ==
  LET d == Stored(w).dtype
  IN IF model.dp4a /\ d \in OnDisk THEN Matvec(QuantizeQ8(m, x), b, w, "xq8", y, Format(d, FALSE))
     ELSE Matvec(m, b, w, x, y, RawKernel(d))
LaunchMatvec(m, b, w, x, y) ==
  IF Stored(w).repacked THEN MatvecXq8(QuantizeQ8(m, x), b, w, y) ELSE MatvecRaw(m, b, w, x, y)
MatmulInto(m, b, w, x, y) ==
  LET s == Stored(w)
  IN Matvec(m, b, w, x, y,
            CASE s.repacked /\ s.dtype # "Q8_0" /\ Len(m.rows) <= SmallRows -> BatchedKernel(s.dtype)
              [] s.repacked /\ (s.dtype = "Q8_0" \/ Len(m.rows) > SmallRows) -> MmqKernel(s.dtype)
              [] ~s.repacked -> DequantKernel(s.dtype))
Gemm(m, b, w, x, y) == MatmulInto(m, b, W(w, b), x, y)

\* DFlash's taps: the tapped blocks' hidden states of a row, side by side.
MaybeTap(m, b, x) ==
  LET slots == {s \in DOMAIN model.taps : model.taps[s] = b}
  IN IF slots = {} THEN m ELSE Fill(m, TapBuffer[CHOOSE s \in slots : TRUE], m.buf[x])
Armed == model.taps # <<>>
Tapped(m) == IF Armed THEN [i \in DOMAIN m.buf[TapBuffer[1]] |->
                             [s \in DOMAIN model.taps |-> m.buf[TapBuffer[s]][i]]]
             ELSE <<>>
TapRow(r) == [s \in DOMAIN model.taps |-> V("out", model.taps[s], r)]
-----------------------------------------------------------------------------
(* One decode step.                                                         *)

\* The cache a block attends to; verify and decode use it, and the drafter the
\* last owner's.
Donor(b) == IF Owns(b) THEN b ELSE model.own - (IF KindOf(b) = "sliding" THEN 1 ELSE 0)
LowOf(b, total) == IF KindOf(b) = "sliding" /\ total > Window THEN total - Window ELSE 0
LongestOf(b) == IF KindOf(b) = "sliding" THEN Least(Window, MaxSeq) ELSE MaxSeq
AttnQ8(m, b, donor, y) ==
  LET read == SplitRead(m.st[donor], LowOf(b, m.pos + 1), m.pos + 1, LongestOf(b))
  IN Launch(m, b, y, LAMBDA i : <<"attend", m.buf["q"][i], read>>)

QkvRepacked(b) ==
  /\ Stored(W("attn_q", b)).repacked
  /\ Owns(b) => /\ Stored(W("attn_k", b)).repacked
                /\ HasV(b) => Stored(W("attn_v", b)).repacked
\* v_norm first holds the raw projection of V.  KvRows writes k and v, KvWrite
\* those of a decode step.
KvRows(m, b, base) ==
  LET put(kv, i) == PutRow(kv, base + i - 1, <<m.buf["k_norm"][i], m.buf["v_norm"][i]>>)
  IN [m EXCEPT !.st[b] = FoldLeft(put, @, [i \in DOMAIN m.rows |-> i])]
KvWrite(m, b) == KvRows(m, b, m.pos)
\* Mutant: V is normed from K's projection everywhere.
NormKvFromK(m, b, base, v) ==
  LET m1 == RopeRows(Rmsnorm(m, b, "attn_k_norm", "k_proj", "k_norm"), b, base, "k_norm")
  IN Launch(m1, b, "v_norm", LAMBDA i : <<"rmsnorm", W("ones", 0), m1.buf["k_proj"][i]>>)
NormKv(m, b, base, v) ==
  LET m1 == RopeRows(Rmsnorm(m, b, "attn_k_norm", "k_proj", "k_norm"), b, base, "k_norm")
  IN Launch(m1, b, "v_norm",
            LAMBDA i : <<"rmsnorm", W("ones", 0), m1.buf[IF HasV(b) THEN v ELSE "k_proj"][i]>>)
BlockAttention(m, b) ==
  LET once == QkvRepacked(b)
      proj(mm, w, y) == IF once THEN MatvecXq8(mm, b, W(w, b), y)
                        ELSE LaunchMatvec(mm, b, W(w, b), "normed", y)
      kv(mm) ==
        Then(proj(mm, "attn_k", "k_proj"), LAMBDA m1 :
        Then(IF HasV(b) THEN proj(m1, "attn_v", "v_norm") ELSE m1, LAMBDA m2 :
        KvWrite(NormKv(m2, b, m.pos, "v_norm"), b)))
  IN Then(Rmsnorm(m, b, "attn_norm", "hidden_a", "normed"), LAMBDA m1 :
     Then(proj(IF once THEN QuantizeQ8(m1, "normed") ELSE m1, "attn_q", "q"), LAMBDA m2 :
     Then(Rope(Rmsnorm(m2, b, "attn_q_norm", "q", "q"), b, "q"), LAMBDA m3 :
     Then(IF Owns(b) THEN kv(m3) ELSE m3, LAMBDA m4 :
     Then(LaunchMatvec(AttnQ8(m4, b, Donor(b), "attn"), b, W("attn_output", b), "attn", "hidden_b"),
          LAMBDA m5 :
     RmsnormAdd(m5, b, "hidden_b", "post_attn_norm", "hidden_a"))))))

SharedMlp(m, b) ==
  LET gate == W("ffn_gate", b)
      up == W("ffn_up", b)
  IN Then(Rmsnorm(m, b, "ffn_norm", "hidden_a", "normed"), LAMBDA m1 :
     Then(IF Stored(gate).repacked /\ Stored(up).repacked
          THEN MatvecXq8(MatvecXq8(QuantizeQ8(m1, "normed"), b, gate, "gate"), b, up, "up")
          ELSE LaunchMatvec(LaunchMatvec(m1, b, gate, "normed", "gate"), b, up, "normed", "up"), LAMBDA m2 :
     LaunchMatvec(Geglu(m2, b, "gate", "up"), b, W("ffn_down", b), "gate", "hidden_b")))
\* The sum over the FFN, with the block's scale unless more is added.
FoldScale(m, b, y) ==
  IF model.ple THEN RmsnormAdd(m, b, y, "post_ffw_norm", "hidden_a")
  ELSE RmsnormAddScale(m, b, y, "post_ffw_norm", "hidden_a")

ExpertRow(m, b, w, e, x) ==
  IF ExpertKernel(model.file[w]) # Stored(W(w, b)) THEN Garbage
  ELSE ExpertOp(m, b, <<"expert", W(w, b), e, x>>)
MoeMatvec(m, b, x) ==
  Fill(m, "e_gu", [n \in Entries(m) |-> ExpertRow(m, b, "gate_up_exps", ExpertOf(m, b, n),
                                                  m.buf[x][TokenOf(n)])])
MoeGeglu(m, b, y) ==
  Fill(m, y, [n \in Entries(m) |-> ExpertOp(m, b, <<"geglu_halves", m.buf["e_gu"][n]>>)])
MoeDown(m, b) ==
  Fill(m, "e_out", [n \in Entries(m) |-> ExpertRow(m, b, "down_exps", ExpertOf(m, b, n),
                                                   m.buf["xq8_exp"][n])])
\* geglu and quantisation in one launch.
MoeGegluQ8(m, b) == MoeGeglu(m, b, "xq8_exp")
RouterNorm == "ffn_gate_inp.scale / sqrt_hidden"

MoeFfn(m, b) ==
  Then(Rmsnorm(SharedMlp(m, b), b, "post_ffw_norm_1", "hidden_b", "cur_mlp"), LAMBDA m1 :
  Then(Rmsnorm(m1, b, RouterNorm, "hidden_a", "normed"), LAMBDA m2 :
  Then(TopK(LaunchMatvec(m2, b, W("ffn_gate_inp", b), "normed", "moe_logits"), b), LAMBDA m3 :
  Then(RmsnormQ8(m3, b, "pre_ffw_norm_2", "hidden_a"), LAMBDA m4 :
  Then(MoeDown(MoeGegluQ8(MoeMatvec(m4, b, "xq8"), b), b), LAMBDA m5 :
  Then(RmsnormAdd(Combine(m5, b, "moe_acc"), b, "moe_acc", "post_ffw_norm_2", "cur_mlp"),
       LAMBDA m6 :
  FoldScale(m6, b, "cur_mlp")))))))

PleSlice(m, b, x, y) ==
  Launch(m, b, x, LAMBDA i : <<"geglu", m.buf[x][i], <<"slice", b, m.buf[y][i]>>>>)
BlockPle(m, b) ==
  Then(LaunchMatvec(m, b, W("inp_gate", b), "hidden_a", "ple_gate"), LAMBDA m1 :
  Then(LaunchMatvec(PleSlice(m1, b, "ple_gate", "ple_raw"), b, W("proj", b), "ple_gate", "ple_out"),
       LAMBDA m2 :
  RmsnormAddScale(m2, b, "ple_out", "post_norm", "hidden_a")))
BlockForward(m, b) ==
  Then(BlockAttention(m, b), LAMBDA m1 :
  Then(IF model.moe THEN MoeFfn(m1, b) ELSE FoldScale(SharedMlp(m1, b), b, "hidden_b"), LAMBDA m2 :
  IF model.ple THEN BlockPle(m2, b) ELSE m2))

\* enqueue_ple_setup, x the scaled embedding.
PleSetup(m, x, batched) ==
  LET proj(mm) == IF batched THEN Gemm(mm, 0, "ple_model_proj", x, "ple_proj")
                  ELSE LaunchMatvec(mm, 0, W("ple_model_proj", 0), x, "ple_proj")
  IN Then(Embed(m, 0, W("ple_token_embd", 0), "ple_raw", Tokens(m)), LAMBDA m0 :
     Then(Scale(m0, 0, "ple_raw", "sqrt_ple"), LAMBDA m1 :
     Then(Scale(proj(m1), 0, "ple_proj", "rsqrt_hidden"), LAMBDA m2 :
     Then(Rmsnorm(m2, 0, "ple_proj_norm", "ple_proj", "ple_proj"), LAMBDA m3 :
     Scale(AddInplace(m3, 0, "ple_raw", "ple_proj"), 0, "ple_raw", "rsqrt_2")))))
OutputHead(m, x) ==
  Then(Rmsnorm(m, 0, "output_norm", x, "hidden_b"), LAMBDA m1 :
  Softcap(LaunchMatvec(m1, 0, W("token_embd", 0), "hidden_b", "logits"), 0))
EnqueueForward(m) ==
  Then(Embed(m, 0, W("token_embd", 0), "hidden_a", Tokens(m)), LAMBDA m0 :
  Then(Scale(m0, 0, "hidden_a", "sqrt_hidden"), LAMBDA m1 :
  Then(IF model.ple THEN PleSetup(m1, "hidden_a", FALSE) ELSE m1, LAMBDA m2 :
  Then(FoldLeft(LAMBDA mm, b : IF mm.ok THEN MaybeTap(BlockForward(mm, b), b, "hidden_a") ELSE mm,
                m2, Blocks), LAMBDA m3 :
  OutputHead(m3, "hidden_a")))))
\* set_inputs: the row and its position.
Staged(st, row) == [Fresh(st, 0 .. Final, <<row>>) EXCEPT !.pos = Len(row) - 1]
-----------------------------------------------------------------------------
(* Prefill and verify: batches of rows, base of them before.                *)

BatchedQkv(m, b, base) ==
  LET kv(mm) ==
        Then(Gemm(mm, b, "attn_k", "normed", "k_proj"), LAMBDA m1 :
        Then(IF HasV(b) THEN Gemm(m1, b, "attn_v", "normed", "v_proj") ELSE m1, LAMBDA m2 :
        KvRows(NormKv(m2, b, base, "v_proj"), b, base)))
  IN Then(Gemm(Rmsnorm(m, b, "attn_norm", "x", "normed"), b, "attn_q", "normed", "q"), LAMBDA m1 :
     Then(RopeRows(Rmsnorm(m1, b, "attn_q_norm", "q", "q"), b, base, "q"), LAMBDA m2 :
     IF Owns(b) THEN kv(m2) ELSE m2))

\* A prefill attends to this call's keys and values, its own or its donor's,
\* which the donors hand on after they attended.
DonorSwa == model.own - 1
DonorFull == model.own
AttnPrefill(m, b, kv) ==
  Launch(m, b, "attn", LAMBDA i : <<"attend", m.buf["q"][i], SubSeq(kv, LowOf(b, i) + 1, i)>>)
PrefillAttn(m, b) ==
  LET own == [i \in DOMAIN m.rows |-> <<m.buf["k_norm"][i], m.buf["v_norm"][i]>>]
      kv == IF Owns(b) THEN own ELSE m.buf[IF KindOf(b) = "sliding" THEN "donor_swa" ELSE "donor_full"]
      m1 == AttnPrefill(m, b, kv)
  IN CASE Sharing /\ b = DonorSwa -> Fill(m1, "donor_swa", own)
       [] Sharing /\ b = DonorFull /\ b # DonorSwa -> Fill(m1, "donor_full", own)
       [] OTHER -> m1
\* A verify attends to the cache.
VerifyAttn(m, b, base) ==
  Launch(m, b, "attn", LAMBDA i : <<"attend", m.buf["q"][i],
                                    SubSeq(m.st[b], LowOf(b, base + i) + 1, base + i)>>)
\* The sum over y's norm, by way of normed.
NormAdd(m, b, y, w) == AddInplace(Rmsnorm(m, b, w, y, "normed"), b, "x", "normed")
BatchedMlp(m, b) ==
  Then(NormAdd(Gemm(m, b, "attn_output", "attn", "attn_out"), b, "attn_out", "post_attn_norm"),
       LAMBDA m1 :
  Then(Gemm(Rmsnorm(m1, b, "ffn_norm", "x", "normed"), b, "ffn_gate", "normed", "gate"), LAMBDA m2 :
  Then(Geglu(Gemm(m2, b, "ffn_up", "normed", "up"), b, "gate", "up"), LAMBDA m3 :
  Gemm(m3, b, "ffn_down", "gate", "mlp"))))
BatchedPle(m, b) ==
  LET m1 == PleSlice(Gemm(m, b, "inp_gate", "x", "ple_gate"), b, "ple_gate", "ple_perm")
  IN NormAdd(Gemm(m1, b, "proj", "ple_gate", "ple_out"), b, "ple_out", "post_norm")

\* The rows of each expert against its weights, those no tile covers left alone.
GroupedGemm(m, b, w, owners, x, y) ==
  Fill(m, y, [p \in Entries(m) |-> IF owners[p] = ExpertCount THEN Stale
                                   ELSE ExpertRow(m, b, w, owners[p], m.buf[x][p])])
\* The routed experts of a chunk, whose logits are in moe_logits.
MoeGrouped(m, b, arrival) ==
  Then(Sorted([n \in Entries(m) |-> ExpertOf(m, b, n)], arrival), LAMBDA s :
  Then(MoeGeglu(GroupedGemm(Gather(m, s.place), b, "gate_up_exps", s.owners, "g_in", "e_gu"),
                b, "e_act"), LAMBDA m1 :
  Then(GroupedGemm(QuantizeQ8Into(m1, "e_act", "xq8_exp"), b, "down_exps", s.owners, "xq8_exp", "g_out"),
       LAMBDA m2 :
  ScatterRows(m2, s.place))))
MoeByEntry(m, b) ==
  Then(MoeGeglu(MoeMatvec(m, b, "xq8_in"), b, "e_act"), LAMBDA m1 :
  MoeDown(QuantizeQ8Into(m1, "e_act", "xq8_exp"), b))
MoeChunked(m, b, arrival) ==
  LET n == Len(m.rows)
      start(c) == (c - 1) * MoeChunk + 1
  IN FoldLeft(LAMBDA mm, c :
                Then(TopK(View(mm, start(c), Least(c * MoeChunk, n)), b), LAMBDA part :
                Then(IF model.grouped THEN MoeGrouped(part, b, arrival) ELSE MoeByEntry(part, b),
                     LAMBDA routed :
                Back(mm, Combine(routed, b, "moe_acc"), start(c), "moe_acc"))),
              m, [c \in 1 .. Ceil(n, MoeChunk) |-> c])
Orders == IF model.moe /\ model.grouped THEN Arrivals ELSE {<<>>}
BatchedMoe(m, b, arrival) ==
  Then(Rmsnorm(m, b, "post_ffw_norm_1", "mlp", "cur_mlp"), LAMBDA m1 :
  Then(Rmsnorm(m1, b, "pre_ffw_norm_2", "x", "moe_in"), LAMBDA m2 :
  Then(Rmsnorm(QuantizeQ8Into(m2, "moe_in", "xq8_in"), b, RouterNorm, "x", "normed"), LAMBDA m3 :
  Then(MoeChunked(Gemm(m3, b, "ffn_gate_inp", "normed", "moe_logits"), b, arrival), LAMBDA m4 :
  Then(Rmsnorm(m4, b, "post_ffw_norm_2", "moe_acc", "moe_acc"), LAMBDA m5 :
  NormAdd(AddInplace(m5, b, "cur_mlp", "moe_acc"), b, "cur_mlp", "post_ffw_norm"))))))

BatchedEmbed(m) ==
  Scale(Embed(m, 0, W("token_embd", 0), "x", Tokens(m)), 0, "x", "sqrt_hidden")
\* ple_perm: the slices of a block side by side.
PermutePle(m) == Fill(m, "ple_perm", m.buf["ple_raw"])
PrefillPle(m) == PermutePle(PleSetup(m, "x", TRUE))
PrefillBlock(m, b, arrival) ==
  LET dense(mm) == NormAdd(mm, b, "mlp", "post_ffw_norm")
  IN Then(BatchedMlp(PrefillAttn(BatchedQkv(m, b, 0), b), b), LAMBDA m1 :
     Then(CASE model.moe -> BatchedMoe(m1, b, arrival)
            [] model.ple -> BatchedPle(dense(m1), b)
            [] OTHER -> dense(m1), LAMBDA m2 :
     MaybeTap(ScaleOut(m2, b, "x"), b, "x")))
EnqueuePrefill(m, arrival) ==
  LET n == Len(m.rows)
  IN Then(BatchedEmbed(m), LAMBDA m1 :
     Then(FoldLeft(LAMBDA mm, b : IF mm.ok THEN PrefillBlock(mm, b, arrival) ELSE mm,
                   IF model.ple THEN PrefillPle(m1) ELSE m1, Blocks), LAMBDA m2 :
     [OutputHead(View(m2, n, n), "x") EXCEPT
        !.buf = [y \in DOMAIN @ |-> (IF y \in Range(TapBuffer) THEN m2.buf ELSE @)[y]]]))
VerifyBlock(m, b, base) ==
  Then(BatchedMlp(VerifyAttn(BatchedQkv(m, b, base), b, base), b), LAMBDA m1 :
  Then(NormAdd(m1, b, "mlp", "post_ffw_norm"), LAMBDA m2 :
  IF Owns(b) THEN MaybeTap(ScaleOut(m2, b, "x"), b, "x") ELSE [m EXCEPT !.ok = FALSE]))
\* The head, in one launch for a Q5_K table.
LmHeadQ5k(m, b) ==
  Matvec(QuantizeQ8(m, "normed"), b, W("token_embd", 0), "xq8", "logits", Format("Q5_K", FALSE))
LmHeadRows(m, b) ==
  LET w == W("token_embd", 0)
  IN IF Stored(w).dtype = "Q5_K" /\ Len(m.rows) <= MaxVerify
     THEN LmHeadQ5k(m, b)
     ELSE LaunchMatvec(m, b, w, "normed", "logits")
EnqueueVerify(m, base) ==
  Then(FoldLeft(LAMBDA mm, b : IF mm.ok THEN VerifyBlock(mm, b, base) ELSE mm,
                BatchedEmbed(m), Blocks), LAMBDA m1 :
  Then(Softcap(LmHeadRows(Rmsnorm(m1, 0, "output_norm", "x", "normed"), 0), 0), LAMBDA m2 :
  Fill(Fill(m2, "hidden_a", m2.buf["x"]), "hidden_b", m2.buf["normed"])))
-----------------------------------------------------------------------------
(* The drafter's step: its blocks have queries only, and attend to the cache *)
(* of the target at the position of the last row of the context.            *)

DraftBlock(m, b) ==
  LET mv(mm, w, x, y) == LaunchMatvec(mm, b, W(w, b), x, y)
      post(mm, w) == AddInplace(Rmsnorm(mm, b, w, "block_b", "normed"), b, "block_a", "normed")
  IN Then(mv(Rmsnorm(m, b, "attn_norm", "block_a", "normed"), "attn_q", "normed", "q"), LAMBDA m1 :
     Then(Rope(Rmsnorm(m1, b, "attn_q_norm", "q", "q"), b, "q"), LAMBDA m2 :
     Then(mv(AttnQ8(m2, b, LastOwner(KindOf(b)), "attn"), "attn_output", "attn", "block_b"),
          LAMBDA m3 :
     Then(Rmsnorm(post(m3, "post_attn_norm"), b, "ffn_norm", "block_a", "normed"), LAMBDA m4 :
     Then(Geglu(mv(mv(m4, "ffn_gate", "normed", "gate"), "ffn_up", "normed", "up"), b, "gate", "up"),
          LAMBDA m5 :
     ScaleOut(post(mv(m5, "ffn_down", "gate", "block_b"), "post_ffw_norm"), b, "block_a"))))))
ForwardStep(m, token, h_prev) ==
  LET ends(w) == W(w, DraftEnds)
  IN Then(Embed(m, DraftEnds, W("token_embd", 0), "embed_buf", <<token>>), LAMBDA m1 :
     Then(Scale(m1, DraftEnds, "embed_buf", "sqrt_hidden"), LAMBDA m2 :
     Then(Fill(m2, "concat", <<<<m2.buf["embed_buf"][1], h_prev>>>>), LAMBDA m3 :
     Then(LaunchMatvec(m3, DraftEnds, ends("pre_projection"), "concat", "block_a"), LAMBDA m4 :
     Then(FoldLeft(DraftBlock, m4, DraftBlocks), LAMBDA m5 :
     Then(Rmsnorm(m5, DraftEnds, "output_norm", "block_a", "hidden_b"), LAMBDA m6 :
     Then(LaunchMatvec(m6, DraftEnds, ends("draft_token_embd"), "hidden_b", "logits"), LAMBDA m7 :
     LaunchMatvec(m7, DraftEnds, ends("post_projection"), "hidden_b", "h_prev"))))))))
-----------------------------------------------------------------------------
(* The calls.                                                               *)

Prefix(i) == SubSeq(fed, 1, i)
Token == gpu.cuts
Init ==
  /\ model \in {mo \in Models : Loads(mo)}
  /\ fed = <<>> /\ drafted = 0
  /\ gpu = [st |-> [b \in 1 .. Final |-> <<>>], pos |-> 0, hidden_b |-> Stale, cuts |-> 0,
            tap |-> <<>>, prefilled |-> FALSE, warm |-> {}, graphs |-> {}]
  /\ answer = <<>> /\ wanted = <<>> /\ phase = "ready"

\* What a forward of the rows answers, and should.
Got(m) == m.buf["logits"]
Want(rows) == [i \in DOMAIN rows |-> Logits(rows[i])]
\* The tap rows of m's call, over those of the calls before.
Tap(m) == LET rows == Tapped(m) IN rows \o SubSeq(gpu.tap, Len(rows) + 1, Len(gpu.tap))
Return(context, g, got, want) ==
  /\ fed' = context /\ gpu' = g /\ answer' = got /\ wanted' = want
  /\ drafted' = 0 /\ UNCHANGED <<model, phase>>
Refuse(as) == phase' = as /\ UNCHANGED <<model, fed, drafted, gpu, answer, wanted>>

\* forward_token, forward_via_graph.
ForwardToken ==
  LET row == Append(fed, Token)
  IN /\ phase = "ready" /\ Len(fed) < model.length
     /\ Then(EnqueueForward(Staged(gpu.st, row)), LAMBDA m :
        \/ /\ m.ok
           /\ Return(row, [gpu EXCEPT !.st = m.st, !.pos = @ + 1, !.hidden_b = m.buf["hidden_b"][1],
                                      !.tap = Tap(m)],
                     Got(m), Want(<<row>>))
        \/ ~m.ok /\ Refuse("failed"))

\* prefill_forward of a prompt of n tokens, over whatever the state held.  A
\* replayed graph computes what it captured, the soft cap included.
PrefillForward(n, arrival) ==
  LET again == fed # <<>>
      cuts == IF again THEN gpu.cuts + 1 ELSE gpu.cuts
      prompt == [i \in 1 .. n |-> cuts]
      rows == [i \in 1 .. n |-> SubSeq(prompt, 1, i)]
      replay == n \in gpu.graphs
      capture == model.graphs /\ n \in gpu.warm /\ ~replay
  IN /\ phase = "ready" /\ n <= model.length /\ cuts <= model.cuts
     /\ Then(EnqueuePrefill(Fresh(gpu.st, 0 .. Final, rows), arrival), LAMBDA m :
        \/ /\ m.ok
           /\ Return(prompt,
                     [gpu EXCEPT !.st = m.st, !.pos = n, !.hidden_b = m.buf["hidden_b"][1], !.cuts = cuts,
                                 !.tap = Tap(m), !.prefilled = TRUE,
                                 !.warm = IF model.graphs THEN @ \cup {n} ELSE @,
                                 !.graphs = IF capture THEN @ \cup {n} ELSE @],
                     Got(IF replay THEN Softcap(m, 0) ELSE m), Want(<<prompt>>))
        \/ ~m.ok /\ Refuse("refused"))

\* verify_forward, forward_verify_via_graph: in one batch, or token by token
\* for experts.
VerifyBatch(rows) ==
  Then(EnqueueVerify([Fresh(gpu.st, 0 .. Final, rows) EXCEPT !.ok = ~model.ple], Len(fed)),
       LAMBDA m :
  [m |-> m, logits |-> Got(m)])
VerifyEach(rows) ==
  FoldLeft(LAMBDA s, row :
             Then(EnqueueForward(Staged(s.m.st, row)), LAMBDA m :
             [m |-> [m EXCEPT !.ok = @ /\ s.m.ok], logits |-> Append(s.logits, m.buf["logits"][1])]),
           [m |-> Fresh(gpu.st, {}, <<>>), logits |-> <<>>], rows)
VerifyForward(n) ==
  LET tokens == [i \in 1 .. n |-> Token]
      rows == [i \in 1 .. n |-> fed \o SubSeq(tokens, 1, i)]
      base == Len(fed)
  IN /\ phase = "ready" /\ base > 0 /\ base + n <= model.length /\ n <= MaxVerify
     /\ Then(IF model.moe THEN VerifyEach(rows) ELSE VerifyBatch(rows), LAMBDA end :
        \/ /\ end.m.ok
           /\ Return(Last(rows), [gpu EXCEPT !.st = end.m.st, !.pos = base + n,
                                             !.hidden_b = Last(end.m.buf["hidden_b"]),
                                             !.tap = Tap(end.m)],
                     end.logits, Want(rows))
        \/ ~end.m.ok /\ Refuse("unverified"))

\* truncate, and reset when nothing is kept: the rows stay in the caches.  A
\* row is fed before the drafter is seeded again.
Truncate(n) ==
  /\ phase = "ready" /\ n < Len(fed) /\ gpu.cuts < model.cuts
  /\ Return(Prefix(n), [gpu EXCEPT !.pos = n, !.cuts = @ + 1, !.hidden_b = Stale], <<>>, <<>>)

\* A round of the drafter: set_h_prev_from_target, then forward_step at the
\* position of the last token, each step after the one before.
DraftStep(c, j) ==
  Then([Fresh(gpu.st, Final + 1 .. DraftEnds, <<<<fed, j>>>>) EXCEPT
          !.pos = gpu.pos - 1, !.ok = c.m.ok, !.buf = [y \in {"h_prev"} |-> <<Stale>>] @@ @], LAMBDA start :
  Then(ForwardStep(start, c.token, c.h_prev), LAMBDA m :
  [m |-> m, token |-> Argmax(m.buf["logits"][1]), h_prev |-> m.buf["h_prev"][1],
   got |-> Append(c.got, m.buf["logits"][1])]))
Draft ==
  /\ phase = "ready" /\ model.drafter # <<>> /\ gpu.hidden_b # Stale /\ drafted = 0
  /\ Then(FoldLeft(DraftStep,
                   [m |-> Fresh(gpu.st, {}, <<>>), token |-> Last(fed), h_prev |-> gpu.hidden_b,
                    got |-> <<>>],
                   [j \in 1 .. ChainK |-> j]), LAMBDA end :
     \/ /\ end.m.ok /\ drafted' = ChainK /\ answer' = end.got
        /\ wanted' = [j \in 1 .. ChainK |-> V("head", DraftEnds, <<fed, j>>)]
        /\ UNCHANGED <<model, fed, gpu, phase>>
     \/ ~end.m.ok /\ Refuse("undraftable"))

Next ==
  \/ ForwardToken
  \/ \E n \in 1 .. model.length, arrival \in Orders : PrefillForward(n, arrival)
  \/ \E n \in 1 .. model.length : VerifyForward(n)
  \/ \E n \in 0 .. model.length - 1 : Truncate(n)
  \/ Draft
Spec == Init /\ [][Next]_vars
-----------------------------------------------------------------------------
(* Whatever calls made the context, and whatever longer contexts were cut   *)
(* back before, the answer of the last call and the rows of the context in  *)
(* every cache are those of the scalar model.                               *)
CacheAsReference(b) == /\ Len(gpu.st[b]) >= Len(fed)
                       /\ \A i \in DOMAIN fed : gpu.st[b][i] = KvRow(b, Prefix(i))
MatchesReference ==
  /\ answer = wanted /\ gpu.pos = Len(fed)
  /\ \A b \in 1 .. model.own : CacheAsReference(b)

(* A model whose prompt was prefilled is decoded, and verified unless it has *)
(* per-layer embeddings or shared caches; no draft fails between two steps.  *)
PathsAgree ==
  /\ phase = "failed" => fed = <<>>
  /\ phase = "unverified" => model.ple \/ Sharing \/ ~gpu.prefilled
  /\ phase = "undraftable" => drafted = 0
=============================================================================
