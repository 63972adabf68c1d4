---------------------------- MODULE TieredAttention --------------------------
(***************************************************************************)
(* What decode attention reads from the two tiers of the SuperQuant cache   *)
(* (attn_partial_superquant*.cpp, rotate_q_rht.cpp, attn_merge.cpp).        *)
(*                                                                         *)
(* A cold entry is kept rotated, keys and values by rotations of their own. *)
(* A dot product is one of the vectors only when both are rotated alike,    *)
(* and a sum of values may be rotated back as a whole.  The positions are   *)
(* cut into slices, a workgroup each; the partial sums are then merged.     *)
(***************************************************************************)
EXTENDS Naturals, Sequences

CONSTANTS SplitLen,             \* 256, the positions a workgroup is given
          MaxSplits,            \* ATTN_MAX_SPLITS
          Waves,                \* N_WAVES of the wave-parallel kernel
          Unset                 \* no token

AttentionAssumption == {SplitLen, MaxSplits, Waves} \subseteq Nat \ {0}

Sides == {"K", "V"}
Smaller(a, b) == IF a < b THEN a ELSE b

\* A vector: the token it comes from, its side, how it is coded, and the side
\* whose rotation it is under.
NoEntry == [tok |-> Unset, side |-> "none", code |-> "none", under |-> "none"]
Entry(t, side, code) == [tok |-> t, side |-> side, code |-> code, under |-> "none"]
Rotate(v, signs) == [v EXCEPT !.under = IF @ = "none" THEN signs ELSE "lost"]
\* irht_group_inplace, and the end of dequant_group_lds.
Unrotate(v, signs) == [v EXCEPT !.under = IF @ = signs THEN "none" ELSE "lost"]
Query == [under |-> "none"]

\* Mutant: the last split stops short when the positions do not divide evenly.
ChunkFloor(total, splits) == IF total < splits THEN 1 ELSE total \div splits

\* The launch: how many slices, and how long they are.
Splits(total) == Smaller((total + SplitLen - 1) \div SplitLen, MaxSplits)
Chunk(total, splits) == (total + splits - 1) \div splits
\* Slice sp, which may be empty; positions count from 0.
Slice(total, sp) ==
  LET splits == Splits(total)
      start == sp * Chunk(total, splits)
  IN start .. Smaller(total, start + Chunk(total, splits)) - 1

Key(t, i) == IF i < t.cc THEN t.cold["K"][i] ELSE t.warm["K"][i - t.cc]
Value(t, i) == IF i < t.cc THEN t.cold["V"][i] ELSE t.warm["V"][i - t.cc]

\* The key a score is about: lost unless the query is rotated as the key is.
Score(q, k) == IF q.under = k.under THEN [k EXCEPT !.under = "none"] ELSE NoEntry

\* An accumulator holds the weighted values of some positions.  Adding one
\* that is there already counts it twice.
Plus(a, b) == [i \in DOMAIN a \cup DOMAIN b |->
                 IF i \in DOMAIN a \cap DOMAIN b THEN NoEntry
                 ELSE IF i \in DOMAIN a THEN a[i] ELSE b[i]]
Accumulate(t, positions) == [i \in positions |-> Value(t, i)]
Back(acc) == [i \in DOMAIN acc |-> Unrotate(acc[i], "V")]
Partial(scores, values) ==
  [i \in DOMAIN values |-> [K |-> scores[i], V |-> values[i]]]
\* The first n of a sequence of sums, added up.
SumOf(parts, n) ==
  LET sum[m \in 0 .. n] == IF m = 0 THEN <<>> ELSE Plus(sum[m - 1], parts[m])
  IN sum[n]

\* attn_partial_superquant: every cold vector is rotated back where it is read.
Naive(t, slice) ==
  LET cold == {i \in slice : i < t.cc}
  IN Partial([i \in slice |-> Score(Query, IF i \in cold THEN Unrotate(Key(t, i), "K") ELSE Key(t, i))],
             Plus(Back(Accumulate(t, cold)), Accumulate(t, slice \ cold)))

\* The two others are given a rotated query too, for the cold keys, add the
\* cold values as they are and rotate their sum back.
RotatedScores(t, slice, q_rot) ==
  [i \in slice |-> Score(IF i < t.cc THEN q_rot ELSE Query, Key(t, i))]
RotatedSpace(t, slice, q_rot) ==
  LET cold == {i \in slice : i < t.cc}
  IN Partial(RotatedScores(t, slice, q_rot),
             Plus(Accumulate(t, slice \ cold), Back(Accumulate(t, cold))))

\* Each wave takes every Waves-th position of the slice; the warm values have
\* a pass of their own, after which the sums of the waves are added up.
WaveParallel(t, slice, q_rot) ==
  LET cold == {i \in slice : i < t.cc}
      first == CHOOSE i \in slice : \A j \in slice : i <= j
      waves == [w \in 1 .. Waves |->
                  Accumulate(t, {i \in cold : (i - first) % Waves = w - 1})]
      reduced == SumOf(waves, Waves)
  IN Partial(RotatedScores(t, slice, q_rot), Plus(Accumulate(t, slice \ cold), Back(reduced)))

\* attn_merge: the partial sums, one a slice; that of an empty slice adds nothing.
Merged(t, partials) ==
  LET total == t.cc + t.wc
      out == SumOf(partials, Splits(total))
  IN [i \in 1 .. total |-> IF i - 1 \in DOMAIN out THEN out[i - 1] ELSE [s \in Sides |-> NoEntry]]

Slices(t) == [n \in 1 .. Splits(t.cc + t.wc) |-> Slice(t.cc + t.wc, n - 1)]
LaunchNaive(t) == Merged(t, [n \in DOMAIN Slices(t) |-> Naive(t, Slices(t)[n])])
LaunchRotated(t) ==
  LET q_rot == Rotate(Query, "K")
  IN Merged(t, [n \in DOMAIN Slices(t) |-> RotatedSpace(t, Slices(t)[n], q_rot)])
LaunchWaves(t) ==
  LET q_rot == Rotate(Query, "K")
  IN Merged(t, [n \in DOMAIN Slices(t) |-> WaveParallel(t, Slices(t)[n], q_rot)])

Kernels == {"naive", "rotated", "waves"}
Attention(kernel, t) ==
  CASE kernel = "naive" -> LaunchNaive(t)
    [] kernel = "rotated" -> LaunchRotated(t)
    [] kernel = "waves" -> LaunchWaves(t)
=============================================================================
