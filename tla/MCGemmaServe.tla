---------------------------- MODULE MCGemmaServe -----------------------------
(* GemmaServe with three prompts that share prefixes of different lengths, a *)
(* cache of two snapshots, and draft lengths up to two.                      *)
EXTENDS GemmaServe

CONSTANTS s, u, v

MCPrompts == {<<s, u>>, <<s, v>>, <<s, u, v>>}
=============================================================================
