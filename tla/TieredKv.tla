------------------------------ MODULE TieredKv ------------------------------
(***************************************************************************)
(* The SuperQuant two-tier KV cache under the command line's Gemma 4       *)
(* generation loop (kv_superquant.rs, gemma4.rs, main.rs).                 *)
(*                                                                         *)
(* A prompt is prefilled into the int8 caches, moved into the tiers once,  *)
(* and every later token is written to the warm tier, which first demotes  *)
(* its oldest entry when it is full.  A layer with a donor owns no K and V *)
(* and attends to its donor's tiers.  An entry carries the token it was    *)
(* computed from, its side (K or V) and how it is coded; what attention    *)
(* reads is the sequence of those entries.                                 *)
(***************************************************************************)
EXTENDS TieredAttention, FiniteSets

CONSTANTS Token, Eos, Argmax(_), Support(_),  \* the model, as in PlainDecode
          Layers, Donor,        \* Donor[l] = l on a layer that owns its K and V
          ChatWarm,             \* 8192, the default warm tier
          Slack,                \* 8, the positions max_seq has to spare
          WarmEnv, ColdEnv,     \* the values of the two tier variables
          MaxPrompt, MaxSteps   \* bounds on the request

ASSUME TieredAssumption ==
  /\ AttentionAssumption /\ Eos \in Token
  /\ Donor \in [Layers -> Layers] /\ \A l \in Layers : Donor[Donor[l]] = Donor[l]
  /\ ChatWarm \in Nat /\ Slack \in Nat \ {0}
  /\ Unset \notin Nat /\ WarmEnv \subseteq Nat \cup {Unset}
  /\ ColdEnv \subseteq Nat \cup {Unset}
  /\ MaxPrompt \in Nat \ {0} /\ MaxSteps \in Nat
  /\ Layers # {}

\* Logits give a token.
Contexts == UNION {[1 .. n -> Token] : n \in 1 .. MaxPrompt + MaxSteps}
ASSUME ModelAssumption ==
  \A ctx \in Contexts : Argmax(ctx) \in Token /\ Support(ctx) \subseteq Token

VARIABLES prompt, steps, sampling,   \* the request
          seq_prefill,               \* REINSTINCT_PREFILL_SEQ is set
          kernel,                    \* the attention kernel two more variables choose
          config,                    \* the capacities of the tiers
          q8,                        \* the int8 cache of each layer
          tiers,                     \* the two tiers of each layer
          pos,                       \* state.pos
          seen,                      \* what the last forward attended to
          generated,                 \* the tokens sampled so far
          fed,                       \* every token a forward wrote
          phase

vars == <<prompt, steps, sampling, seq_prefill, kernel, config, q8, tiers, pos, seen,
          generated, fed, phase>>

Less(a, b) == IF a > b THEN a - b ELSE 0          \* saturating_sub
Owner(l) == Donor[l] = l

\* chat_defaults, then the two variables.  The cold default is not computed
\* again when only the warm one is given.
Config(max_seq, warm, cold) ==
  LET w == IF warm = Unset THEN Smaller(ChatWarm, max_seq)
                           ELSE Smaller(warm, max_seq)
  IN [warm |-> w,
      cold |-> IF cold = Unset THEN Less(max_seq, Smaller(ChatWarm, max_seq))
                               ELSE Smaller(cold, Less(max_seq, w))]

\* Both tiers of a layer: each side an array of slots, and the two counts.
EmptyTiers(c) ==
  [warm |-> [s \in Sides |-> [i \in 0 .. c.warm - 1 |-> NoEntry]],
   cold |-> [s \in Sides |-> [i \in 0 .. c.cold - 1 |-> NoEntry]],
   wc |-> 0, cc |-> 0]

\* launch_promote_q8_to_turbo3: n slots of one side's int8 array, coded again
\* under the side's rotation.
Promote(side, dst, at, src, n) ==
  [i \in DOMAIN dst |->
     IF i \in at .. at + n - 1 THEN Rotate([src[i - at] EXCEPT !.code = "turbo3"], side)
                               ELSE dst[i]]

\* Mutant: the entries left are not slid down.
DemoteUnslid(t, n) ==
  [t EXCEPT !.cold = [s \in Sides |-> Promote(s, @[s], t.cc, t.warm[s], n)],
            !.wc = @ - n, !.cc = @ + n]

\* demote_warm_to_cold: promote the n oldest, then slide the rest down.
Demote(t, n) ==
  [warm |-> [s \in Sides |-> [i \in DOMAIN t.warm[s] |->
               IF i < t.wc - n THEN t.warm[s][i + n] ELSE t.warm[s][i]]],
   cold |-> [s \in Sides |-> Promote(s, t.cold[s], t.cc, t.warm[s], n)],
   wc |-> t.wc - n, cc |-> t.cc + n]

\* Mutant: the last cold slot is never used.
DemoteFitsTight(t, n) == n <= t.wc /\ t.cc + n < config.cold

DemoteFits(t, n) == n <= t.wc /\ t.cc + n <= config.cold

\* write_step appends to the warm tier, after making room for one entry.
WriteFits(t) == t.wc >= config.warm => DemoteFits(t, 1)
\* Mutant: an entry is demoted one write too early.
WriteStepEager(t, tok) ==
  LET d == IF t.wc > 0 /\ t.wc + 1 >= config.warm /\ DemoteFits(t, 1)
           THEN Demote(t, 1) ELSE t
  IN [d EXCEPT !.warm = [s \in Sides |-> [@[s] EXCEPT ![d.wc] = Entry(tok, s, "q8")]],
               !.wc = @ + 1]

WriteStep(t, tok) ==
  LET d == IF t.wc >= config.warm THEN Demote(t, 1) ELSE t
  IN [d EXCEPT !.warm = [s \in Sides |-> [@[s] EXCEPT ![d.wc] = Entry(tok, s, "q8")]],
               !.wc = @ + 1]

\* Its entries in the order of their positions.
Entries(t) == [i \in 1 .. t.cc + t.wc |-> [K |-> Key(t, i - 1), V |-> Value(t, i - 1)]]

\* What the tokens ts look like in an int8 prefill, and in nc cold slots
\* followed by warm ones.
Fresh(ts) == [i \in 1 .. Len(ts) |-> [s \in Sides |-> Entry(ts[i], s, "q8")]]
Tiered(ts, nc) ==
  [i \in 1 .. Len(ts) |->
     [s \in Sides |-> IF i <= nc THEN Rotate(Entry(ts[i], s, "turbo3"), s)
                      ELSE Entry(ts[i], s, "q8")]]

\* The logits follow one token sequence when every layer has read it, each
\* position on both sides and under no rotation; anything else is no context.
Torn == <<Unset>>
ContextOf(view) ==
  IF \A l, m \in Layers : \A s \in Sides :
       /\ Len(view[l]) = Len(view[m])
       /\ \A i \in DOMAIN view[l] : /\ view[l][i][s].side = s /\ view[l][i][s].under = "none"
                                    /\ view[l][i][s].tok = view[m][i]["K"].tok
  THEN LET l == CHOOSE l \in Layers : TRUE
       IN [i \in DOMAIN view[l] |-> view[l][i]["K"].tok]
  ELSE Torn

Max_seq == Len(prompt) + steps + Slack

Init ==
  /\ prompt \in UNION {[1 .. n -> Token] : n \in 1 .. MaxPrompt}
  /\ steps \in 0 .. MaxSteps /\ sampling \in BOOLEAN /\ seq_prefill \in BOOLEAN
  /\ kernel \in Kernels
  /\ \E w \in WarmEnv, c \in ColdEnv : config = Config(Max_seq, w, c)
  /\ q8 = [l \in Layers |-> [len |-> 0,
             kv |-> [s \in Sides |-> [i \in 0 .. Max_seq - 1 |-> NoEntry]]]]
  /\ tiers = [l \in Layers |-> EmptyTiers(config)]
  /\ pos = 0 /\ seen = [l \in Layers |-> <<>>]
  /\ generated = <<>> /\ fed = <<>> /\ phase = "prefill"

Request == <<prompt, steps, sampling, seq_prefill, kernel, config>>

\* One forward_token: every owner writes its K and V, then every layer
\* attends to its owner's tiers.  c.len of the int8 caches does not move.
Forward(tok) ==
  /\ tiers' = [l \in Layers |->
                 IF Owner(l) THEN WriteStep(tiers[l], tok) ELSE tiers[l]]
  /\ seen' = [l \in Layers |-> Attention(kernel, tiers'[Donor[l]])]
  /\ pos' = pos + 1
  /\ fed' = Append(fed, tok)

ForwardFits == \A l \in Layers : Owner(l) => WriteFits(tiers[l])

\* The batched prefill writes the int8 caches of the owners and sets c.len on
\* every layer; its attention reads the projections it has just computed.
PrefillBatched ==
  /\ phase = "prefill" /\ ~seq_prefill
  /\ q8' = [l \in Layers |->
       [len |-> Len(prompt),
        kv |-> [s \in Sides |-> [i \in 0 .. Max_seq - 1 |->
                  IF Owner(l) /\ i < Len(prompt)
                  THEN Entry(prompt[i + 1], s, "q8") ELSE q8[l].kv[s][i]]]]]
  /\ seen' = [l \in Layers |-> Fresh(prompt)]
  /\ pos' = Len(prompt) /\ fed' = prompt /\ phase' = "migrate"
  /\ UNCHANGED <<Request, tiers, generated>>

\* REINSTINCT_PREFILL_SEQ feeds the prompt through forward_token instead.
PrefillSequential ==
  /\ phase = "prefill" /\ seq_prefill /\ ForwardFits
  /\ Forward(prompt[pos + 1])
  /\ phase' = IF pos' = Len(prompt) THEN "migrate" ELSE "prefill"
  /\ UNCHANGED <<Request, q8, generated>>

\* Mutant: the prompt is not compared with the tiers.
MigrateFitsAny(l) == q8[l].len = pos

\* migrate_int8_to_superquant of one layer.
MigrateFits(l) == q8[l].len = pos /\ pos <= config.warm + config.cold

Migrated(l) ==
  LET n_cold == Less(pos, config.warm)
      n_warm == pos - n_cold
  IN [warm |-> [s \in Sides |-> [i \in DOMAIN tiers[l].warm[s] |->
                  IF i < n_warm THEN q8[l].kv[s][n_cold + i] ELSE tiers[l].warm[s][i]]],
      cold |-> [s \in Sides |-> Promote(s, tiers[l].cold[s], 0, q8[l].kv[s], n_cold)],
      wc |-> n_warm, cc |-> n_cold]

Migrate ==
  /\ phase = "migrate" /\ \A l \in Layers : MigrateFits(l)
  /\ tiers' = [l \in Layers |-> Migrated(l)]
  /\ phase' = IF steps = 0 THEN "probe" ELSE "decode"
  /\ UNCHANGED <<Request, q8, pos, seen, generated, fed>>

\* The first layer that does not fit ends the command with an error.
MigrateFails ==
  /\ phase = "migrate" /\ \E l \in Layers : ~MigrateFits(l)
  /\ phase' = "error"
  /\ UNCHANGED <<Request, q8, tiers, pos, seen, generated, fed>>

\* An iteration of the decode loop: sample, stop at the end-of-sequence token
\* without feeding it, else forward.
Picks == LET ctx == ContextOf(seen)
         IN IF sampling THEN Support(ctx) ELSE {Argmax(ctx)}

DecodeToken ==
  /\ phase = "decode"
  /\ \E t \in Picks :
       /\ generated' = Append(generated, t)
       /\ \/ /\ t = Eos
             /\ phase' = "probe"
             /\ UNCHANGED <<tiers, seen, pos, fed>>
          \/ /\ t # Eos /\ ForwardFits
             /\ Forward(t)
             /\ phase' = IF Len(generated') = steps THEN "probe" ELSE "decode"
          \/ /\ t # Eos /\ ~ForwardFits
             /\ phase' = "panic"
             /\ UNCHANGED <<tiers, seen, pos, fed>>
  /\ UNCHANGED <<Request, q8>>

\* The traced forward at the end feeds the last token, again if it was fed.
Probe ==
  /\ phase = "probe" /\ ForwardFits
  /\ Forward((prompt \o generated)[Len(prompt \o generated)])
  /\ phase' = "done"
  /\ UNCHANGED <<Request, q8, generated>>

\* demote_warm_to_cold's assertions outside the decode loop; after it the
\* output is complete but is never printed.
OverflowPanic ==
  /\ phase = "probe" \/ (phase = "prefill" /\ seq_prefill)
  /\ ~ForwardFits
  /\ phase' = IF phase = "probe" THEN "late_panic" ELSE "panic"
  /\ UNCHANGED <<Request, q8, tiers, pos, seen, generated, fed>>

Ended == phase \in {"done", "error", "panic", "late_panic"} /\ UNCHANGED vars

Next == \/ PrefillBatched \/ PrefillSequential \/ Migrate \/ MigrateFails
        \/ DecodeToken \/ Probe \/ OverflowPanic \/ Ended

Spec == Init /\ [][Next]_vars
-----------------------------------------------------------------------------
Phases == {"prefill", "migrate", "decode", "probe", "done", "error", "panic",
           "late_panic"}

\* The counts stay inside the capacities the buffers were allocated with, so
\* no slot outside them is ever read or written.
TypeOK ==
  /\ phase \in Phases /\ pos = Len(fed)
  /\ \A l \in Layers : /\ tiers[l].wc \in 0 .. config.warm
                       /\ tiers[l].cc \in 0 .. config.cold
                       /\ q8[l].len \in 0 .. Max_seq

\* While decoding, the tiers of an owner hold every token fed so far once, in
\* order, on both sides: the oldest in the cold tier, coded again exactly
\* once, the rest untouched in the warm tier (demote and slide, migrate).
Serving == phase \in {"decode", "probe", "done"}
TiersHoldContext ==
  Serving => \A l \in Layers : Owner(l) =>
    Entries(tiers[l]) = Tiered(fed, tiers[l].cc)

\* The warm tier is kept full: an entry is demoted only when the tier has no
\* room, so as few tokens as possible lose precision.
WarmFirst ==
  Serving => \A l \in Layers : Owner(l) /\ tiers[l].cc > 0 => tiers[l].wc = config.warm

\* An assertion of demote_warm_to_cold fires, or the migration refuses the
\* prompt, only when the tiers are smaller than what the run has to hold; the
\* default sizes always suffice.  (With REINSTINCT_PREFILL_SEQ the migration
\* refuses every prompt: no int8 cache was written.)
EnoughRoom ==
  /\ config.warm > 0 /\ config.warm + config.cold >= Len(prompt) + steps + 1
     => phase \notin {"panic", "late_panic"}
  /\ config.warm + config.cold >= Len(prompt) /\ ~seq_prefill => phase # "error"

\* The loop over the tiered cache implements plain decoding: every token is
\* picked on the logits of exactly the prompt and the tokens before it.
Plain == INSTANCE PlainDecode
           WITH max_tokens <- steps,
                stopped <- phase \in {"probe", "done", "late_panic"}
PlainSpec == Plain!Spec
=============================================================================
