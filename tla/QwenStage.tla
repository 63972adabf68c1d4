----------------------------- MODULE QwenStage ------------------------------
(***************************************************************************)
(* The state of a range of Qwen 3.5 blocks and what one forward does to it *)
(* (qwen35.rs), as functions.  QwenMtp and QwenPipeline are built on it.   *)
(*                                                                         *)
(* A row (a hidden activation, a slot of the KV caches) is the sequence of *)
(* tokens it was computed from; a row computed from rows that do not       *)
(* follow one another is Junk.  The blocks of a range move together, so    *)
(* one KV cache and one recurrent state stand for all of them.  A GDN      *)
(* block folds a token into its state and keeps nothing else: its state is *)
(* the sequence of the tokens folded in.                                   *)
(***************************************************************************)
EXTENDS Naturals, Sequences, SequencesExt

CONSTANT Bad          \* not a token

Junk == <<Bad>>

\* Qwen35GpuState::new_stage: hipMalloc leaves the KV caches as they are, the
\* recurrent state and the convolution history are zeroed.
NewStage(kinds, max_seq) ==
  [kinds |-> kinds, kv |-> [i \in 1 .. max_seq |-> Junk], len |-> 0,
   rec |-> <<>>, pos |-> 0]

\* Qwen35GpuState::reset forgets the rows by their number only.
ResetStage(s) == [s EXCEPT !.len = 0, !.rec = <<>>, !.pos = 0]

\* The first blocks get tokens: row i is the i-th of them after everything the
\* range has seen, as its caches (the slots below `at`) or its states have it.
Embedded(s, at, toks) ==
  LET past == IF "full" \in s.kinds THEN [i \in 1 .. at |-> Last(s.kv[i])] ELSE s.rec
  IN [i \in DOMAIN toks |-> past \o SubSeq(toks, 1, i)]

\* Row c at position `at` comes right after what the range has seen: attention
\* reads the slots below `at`, a GDN block its state.
Follows(s, at, c) ==
  /\ "linear" \in s.kinds => s.rec = Front(c)
  /\ "full" \in s.kinds => /\ Len(c) = at + 1
                           /\ \A i \in 1 .. at : s.kv[i] = SubSeq(c, 1, i)

\* The blocks on a batch of rows, the first at position `at`: a row is what it
\* says if it and all before it follow one another.
Outputs(s, at, rows) ==
  LET follow(i) == /\ \A j \in DOMAIN rows[i] : rows[i][j] # Bad
                   /\ IF i = 1 THEN Follows(s, at, rows[1]) ELSE Front(rows[i]) = rows[i - 1]
  IN [i \in DOMAIN rows |-> IF \A j \in 1 .. i : follow(j) THEN rows[i] ELSE Junk]

\* Mutant: the rows land one slot after their own.
WrittenShifted(s, at, outs) ==
  [s EXCEPT !.kv = [i \in DOMAIN @ |-> IF i \in at + 2 .. at + 1 + Len(outs)
                                         THEN outs[i - at - 1] ELSE @[i]],
            !.rec = Last(outs)]

\* The KV caches from slot `at` on and the recurrent state, overwritten in place.
Written(s, at, outs) ==
  [s EXCEPT !.kv = [i \in DOMAIN @ |-> IF i \in at + 1 .. at + Len(outs)
                                         THEN outs[i - at] ELSE @[i]],
            !.rec = Last(outs)]

\* enqueue_decode_body writes at the device's position and counts the row on
\* the host; a replayed graph does not count it.
DecodeBody(s, d_pos, row) ==
  [Written(s, d_pos, Outputs(s, d_pos, <<row>>)) EXCEPT !.len = @ + 1]

\* A batch goes to the slots from len on, whatever the position says.
Batched(s, rows) ==
  [Written(s, s.len, Outputs(s, s.len, rows)) EXCEPT !.len = @ + Len(rows)]
=============================================================================
