---------------------------- MODULE PipelinePlan -----------------------------
(***************************************************************************)
(* Where a Qwen 3.5 model is cut into stages (Qwen35Pipeline::plan_split    *)
(* and new in pipeline.rs).  A tensor is [bf16, elements, bytes]; a file    *)
(* has its blocks, each of a kind with the tensors named after it, the      *)
(* embedding, and the head: the output norm, the output unless it is tied   *)
(* to the embedding, and the MTP blocks.                                    *)
(***************************************************************************)
EXTENDS Integers, Sequences, SequencesExt, FiniteSetsExt

Tensor == [bf16 : BOOLEAN, elements : Nat, bytes : Nat]
Block == [kind : {"full", "linear"}, tensors : Seq(Tensor)]
File == [blocks : Seq(Block), embd : Tensor, head : Seq(Tensor), tied : BOOLEAN]

\* What a tensor takes on the device: BF16 is requantised to Q8_0.
DeviceBytes(t) == IF t.bf16 THEN (t.elements * 34) \div 32 ELSE t.bytes
\* f[1] + ... + f[n].
Total(f, n) == LET sum[i \in 0 .. n] == IF i = 0 THEN 0 ELSE sum[i - 1] + f[i] IN sum[n]
Bytes(tensors) == Total([i \in DOMAIN tensors |-> DeviceBytes(tensors[i])], Len(tensors))

NBlocks(file) == Len(file.blocks)
BlockBytes(file, i) == Bytes(file.blocks[i].tensors)
EmbdBytes(file) == Bytes(<<file.embd>>)
TailBytes(file) == Bytes(file.head) + (IF file.tied THEN EmbdBytes(file) ELSE 0)
\* cum: the embedding and the first n blocks.
Through(file, n) == EmbdBytes(file) + Total([i \in 1 .. NBlocks(file) |-> BlockBytes(file, i)], n)
Target(file, n, s) == ((Through(file, NBlocks(file)) + TailBytes(file)) * s) \div n

\* The blocks stage s of n may end with, after a stage that ended with `last`.
Ends(file, n, s, last) == last + 1 .. NBlocks(file) - (n - s)
\* Mutant: a block is taken while all of it fits.
ReachedWhole(file, n, s, end) == Through(file, end + 1) >= Target(file, n, s)
Reached(file, n, s, end) == Through(file, end) + (BlockBytes(file, end + 1) \div 2) >= Target(file, n, s)

\* plan_split: the first end that reaches the stage's share, 0 before the first.
PlanSplit(file, n) ==
  LET end[s \in 0 .. n] ==
        IF s = 0 THEN 0 ELSE IF s = n THEN NBlocks(file)
        ELSE LET ends == Ends(file, n, s, end[s - 1])
             IN Min({e \in ends : e = Max(ends) \/ Reached(file, n, s, e)})
  IN end

\* --split: as many blocks as it says.
SplitAccepted(file, n, counts) ==
  Len(counts) = n /\ Total(counts, n) = NBlocks(file) /\ 0 \notin Range(counts)
SplitAt(counts) == [s \in 0 .. Len(counts) |-> Total(counts, s)]

\* The kinds of the blocks of each stage.
KindsOf(file, n, end) ==
  [s \in 1 .. n |-> {file.blocks[i].kind : i \in end[s - 1] + 1 .. end[s]}]

Away(a, b) == IF a > b THEN a - b ELSE b - a
\* Every block is in one stage and every stage has one; and a stage ends as
\* near to its share of the bytes as it may (to the byte the halving drops).
FairSplit(file, n) ==
  LET end == PlanSplit(file, n)
      away(s, e) == Away(Through(file, e), Target(file, n, s))
  IN /\ end[0] = 0 /\ end[n] = NBlocks(file)
     /\ \A s \in 1 .. n : end[s] > end[s - 1]
     /\ \A s \in 1 .. n - 1 : \A e \in Ends(file, n, s, end[s - 1]) :
          away(s, end[s]) <= away(s, e) + 1
=============================================================================
