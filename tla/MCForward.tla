------------------------------ MODULE MCForward ------------------------------
(* Qwen: models of one block and of two of either order, dense or of experts, *)
(* with a tied or separate output, with and without int8 dot products, in the *)
(* usual types.  Gemma: two blocks that own their caches and five of which    *)
(* two share one, with or without V, dense, of experts or with per-layer      *)
(* embeddings, with or without soft cap and prefill graphs, and a drafter;    *)
(* not the soft cap with a replayed graph, which applies it again.  Then, in  *)
(* both, models in which one weight has any type a file may hold, or both of  *)
(* ssm_alpha and ssm_beta.  Two or three tokens over two-token batches and    *)
(* chunks, drafts two at a time, windows of three taps and two rows, a cache  *)
(* read in two splits, entries that arrive in two orders; the experts a row   *)
(* goes to change with the row.                                               *)
EXTENDS Forward

\* Roles of either family.
QwenExperts == {"gate_exps", "up_exps", "down_exps"}
QwenRoles == {"token_embd", "output", "attn_q", "attn_k", "attn_v", "attn_output",
              "attn_qkv", "attn_gate", "ssm_alpha", "ssm_beta", "ssm_out",
              "ffn_gate", "ffn_up", "ffn_down", "ffn_gate_inp", "gate_shexp", "up_shexp",
              "down_shexp", "eh_proj"} \cup QwenExperts
GemmaTables == {"token_embd", "ple_token_embd"}
GemmaExperts == {"gate_up_exps", "down_exps"}
GemmaRoles == {"token_embd", "attn_q", "attn_k", "attn_v", "attn_output", "ffn_gate", "ffn_up",
               "ffn_down", "ffn_gate_inp", "ple_token_embd", "ple_model_proj", "inp_gate", "proj",
               "draft_token_embd", "pre_projection", "post_projection", "fc"} \cup GemmaExperts

Sparse == {"ffn_gate_inp", "gate_shexp", "up_shexp", "down_shexp"} \cup QwenExperts
\* Weights every path loads and reads just as it does one of the others.
Alike == {"attn_v", "attn_gate", "ffn_gate", "up_shexp", "up_exps"}
Base == [r \in QwenRoles |-> IF r = "down_exps" THEN "Q6_K" ELSE "Q4_K"]
Qw(kinds, moe, tied, dp4a, repack, file, length) ==
  [family |-> "qwen35", kinds |-> kinds, moe |-> moe, tied |-> tied, dp4a |-> dp4a,
   repack |-> repack, file |-> file, length |-> length, chains |-> length - 1]
LinearFull == <<"linear", "full">>
Uniform == {Qw(k, moe, t, d, TRUE, Base, 3) : k \in {<<"full">>, LinearFull, <<"full", "linear">>},
                                              moe \in BOOLEAN, t \in BOOLEAN, d \in BOOLEAN}
Odd == {Qw(LinearFull, r \in Sparse, FALSE, d, p, [Base EXCEPT ![r] = t], 2) :
          r \in QwenRoles \ Alike, t \in Dtypes, d \in BOOLEAN, p \in BOOLEAN}
SameAb == {Qw(LinearFull, FALSE, FALSE, d, p, [Base EXCEPT !["ssm_alpha"] = t, !["ssm_beta"] = t], 2) :
             t \in Dtypes, d \in BOOLEAN, p \in BOOLEAN}
MCQwen == Uniform \cup Odd \cup SameAb

GemmaAlike == {"attn_v", "ffn_gate", "ffn_down", "proj", "ple_model_proj", "post_projection"}
GemmaBase == [r \in GemmaRoles |-> CASE r \in GemmaTables -> "Q8_0"
                                      [] r = "ple_model_proj" -> "BF16"
                                      [] r = "down_exps" -> "Q6_K"
                                      [] OTHER -> "Q4_K"]
SlidingFull == <<"sliding", "full">>
Shared == <<"sliding", "sliding", "full", "sliding", "full">>
Ge(kinds, fullV, ffn, file) ==
  [family |-> "gemma4", kinds |-> kinds, own |-> IF kinds = Shared THEN 3 ELSE 2, full_v |-> fullV,
   moe |-> ffn \in {"grouped", "by entry"}, grouped |-> ffn = "grouped", ple |-> ffn = "ple",
   softcap |-> TRUE, graphs |-> FALSE, dp4a |-> TRUE, drafter |-> SlidingFull,
   dflash |-> <<>>, taps |-> <<>>, file |-> file, length |-> 3, cuts |-> 1]
GemmaUniform ==
  {Ge(k, v, f, GemmaBase) : k \in {SlidingFull, Shared}, v \in BOOLEAN, f \in {"dense", "ple"}}
  \cup {Ge(SlidingFull, TRUE, f, GemmaBase) : f \in {"grouped", "by entry"}}
GemmaGraphs == {[Ge(SlidingFull, TRUE, "dense", GemmaBase) EXCEPT !.softcap = FALSE, !.graphs = TRUE,
                                                                  !.length = 2, !.cuts = 2]}
FfnWith(r) == CASE r \in {"ffn_gate_inp"} \cup GemmaExperts -> "grouped"
                [] r \in {"ple_token_embd", "inp_gate"} -> "ple" [] OTHER -> "dense"
GemmaOdd == {[Ge(SlidingFull, TRUE, FfnWith(r), [GemmaBase EXCEPT ![r] = t])
                EXCEPT !.softcap = FALSE, !.dp4a = d, !.length = 2, !.cuts = 0] :
               r \in GemmaRoles \ (GemmaAlike \cup {"fc"}), t \in Dtypes, d \in BOOLEAN}
\* A dense target that owns its caches, and the DFlash drafter; two that tap
\* what the target has not do not load.
Denoising(v, s, t, length, file) ==
  [Ge(SlidingFull, v, "dense", file) EXCEPT !.drafter = <<>>, !.dflash = SlidingFull,
                                            !.taps = t, !.softcap = s, !.length = length]
Denoiser ==
  {Denoising(v, s, t, 6, GemmaBase) :
     v \in BOOLEAN, s \in BOOLEAN, t \in {<<1, 2>>, <<0, 1>>, <<1, 3>>}}
  \cup {Denoising(TRUE, FALSE, <<1, 2>>, 4, [GemmaBase EXCEPT !["fc"] = d]) : d \in Dtypes}
MCGemma == GemmaUniform \cup GemmaGraphs \cup GemmaOdd \cup Denoiser

\* Rows are positions or sequences.
MCRoute(b, r) ==
  LET place == IF IsQwen /\ b <= Len(model.kinds) THEN r ELSE Len(r)
      n == b + place
  IN <<n % 3, (n + 1 + ((n \div 2) % 2)) % 3>>
MCArrivals == {<<1, 2, 3, 4>>, <<4, 3, 2, 1>>}
=============================================================================
