------------------------------ MODULE Launches -----------------------------
(***************************************************************************)
(* What the two runtimes' kernels have in common.  A vector has a name: its *)
(* stage, block and row in the model a forward is compared with, where the  *)
(* stage's definition is an operation on named vectors.  A launch yields    *)
(* the vector of its block and row whose definition it carried out, and     *)
(* Garbage when it is nobody's.                                             *)
(***************************************************************************)
EXTENDS Integers, Sequences, SequencesExt

CONSTANTS ExpertCount, Used,   \* n_expert, n_used
          Route(_, _),         \* the experts a block's router picks for a row
          TileRows,            \* MOE_GEMM_BN
          SplitLen, MaxSplits, MaxSeq   \* 256, ATTN_MAX_SPLITS, max_seq

LaunchParameters == /\ {TileRows, SplitLen, MaxSplits, MaxSeq} \subseteq Nat \ {0}
                    /\ Used \in 1 .. ExpertCount

V(stage, b, r) == <<stage, b, r>>
W(role, b) == <<role, b>>
Stale == <<"stale", 0, 0>>
Garbage == <<"garbage", 0, 0>>
Zero == <<"zero", 0, 0>>
Argmax(l) == <<"argmax", l>>
Ceil(x, y) == (x + y - 1) \div y
Least(x, y) == IF x < y THEN x ELSE y
-----------------------------------------------------------------------------
(* Weights as the loaders keep them.                                        *)

Dtypes == {"F32", "F16", "BF16", "Q4_0", "Q4_K", "Q5_K", "Q6_K", "Q8_0", "Q5_1",
           "IQ4_XS", "IQ4_NL", "IQ3_S", "Q3_K", "other"}
ExpertDtypes == {"Q4_K", "Q5_K", "Q6_K", "Q8_0", "Q5_1"}

\* from_bytes_matvec: what a matmul weight becomes, and what is repacked.
Repacked == {"Q4_0", "Q4_K", "Q5_K", "Q6_K", "Q8_0", "IQ4_XS", "IQ3_S"}
Relabelled(d) == CASE d = "IQ4_NL" -> "IQ4_XS" [] d = "Q3_K" -> "Q6_K"
                   [] d = "BF16" -> "Q8_0" [] OTHER -> d
Format(d, p) == [dtype |-> d, repacked |-> p]
None == Format("none", FALSE)
\* from_gguf keeps the layout of the file.
FromGguf(d) == Format(IF d = "BF16" THEN "F32" ELSE d, FALSE)
FromGgufMatvec(d) == Format(Relabelled(d), Relabelled(d) \in Repacked)
ExpertKernel(d) == IF d \in ExpertDtypes THEN Format(d, TRUE) ELSE None
-----------------------------------------------------------------------------
(* The device during a call: the rows computed, their buffers, the position *)
(* register, the states of the blocks, and whether a launch was refused;    *)
(* ref and expert hold the definitions of the vectors of its rows.          *)

Machine(buffers, st, ref, expert, rows) ==
  [rows |-> rows, first |-> 1, pos |-> 0, st |-> st, ok |-> TRUE,
   buf |-> [y \in buffers |-> [i \in DOMAIN rows |-> Stale]], ref |-> ref, expert |-> expert]
\* (\o <<>> has TLC compute a sequence once.)
Fill(m, y, content) == [m EXCEPT !.buf[y] = content \o <<>>]

\* What an operation on named vectors yields for the i-th row of block b.
Op(m, b, i, node) ==
  LET named(ref) == {s \in DOMAIN ref : ref[s] = node}
      hits == UNION {named(ref) : ref \in m.ref[b][m.first + i - 1]}
  IN IF hits = {} THEN Garbage ELSE V(CHOOSE s \in hits : TRUE, b, m.rows[i])
\* The same for the routed experts: for any row and slot of the launch.
ExpertOp(m, b, node) ==
  LET row(i, j) == m.expert[b][m.first + i - 1][j]
      hits == {<<s, i, j>> \in {"e_gate", "e_up", "e_gu", "e_mid", "e_out"}
                               \X (DOMAIN m.rows) \X (1 .. Used) :
                 s \in DOMAIN row(i, j) /\ row(i, j)[s] = node}
      hit == CHOOSE h \in hits : TRUE
  IN IF hits = {} THEN Garbage ELSE V(hit[1], b, <<m.rows[hit[2]], hit[3]>>)
\* A launch over the rows.
Launch(m, b, y, node(_)) == Fill(m, y, [i \in DOMAIN m.rows |-> Op(m, b, i, node(i))])

\* Rows lo .. hi of the buffers, and their buffer y put back.
View(m, lo, hi) == [m EXCEPT !.rows = SubSeq(@, lo, hi),
                             !.buf = [y \in DOMAIN @ |-> SubSeq(@[y], lo, hi)],
                             !.first = @ + lo - 1]
Back(m, part, lo, y) ==
  [m EXCEPT !.ok = @ /\ part.ok,
            !.buf[y] = [i \in DOMAIN @ |-> IF i - lo + 1 \in DOMAIN part.rows
                                           THEN part.buf[y][i - lo + 1] ELSE @[i]]]

\* The launches that follow one, on the machine it left.
Then(m, launches(_)) == launches(m)

Rmsnorm(m, b, w, x, y) == Launch(m, b, y, LAMBDA i : <<"rmsnorm", W(w, b), m.buf[x][i]>>)
\* add_inplace: the sum is a vector of block ab.
AddInplace(m, ab, x, y) == Launch(m, ab, x, LAMBDA i : <<"add", m.buf[x][i], m.buf[y][i]>>)
QuantizeQ8Into(m, x, y) == Fill(m, y, m.buf[x])
QuantizeQ8(m, x) == QuantizeQ8Into(m, x, "xq8")
-----------------------------------------------------------------------------
(* The cache of a block, and what a decode step's splits read of it.        *)

\* A cache with a row written at position p.
PutRow(kv, p, row) ==
  IF p < Len(kv) THEN ReplaceAt(kv, p + 1, row)
  ELSE kv \o [i \in 1 .. p - Len(kv) |-> <<Stale, Stale>>] \o <<row>>

\* The slices of rows lo + 1 .. total that the splits read and merge, in LDS
\* sized for a slice of the longest context.
Splits == LET n == Ceil(MaxSeq, SplitLen) IN IF n > MaxSplits THEN MaxSplits ELSE n
Slice(kv, lo, total, longest, sp) ==
  LET chunk == Ceil(total - lo, Splits)
  IN IF chunk > Ceil(longest, Splits) THEN <<>>
     ELSE SubSeq(kv, lo + sp * chunk + 1, Least(lo + (sp + 1) * chunk, total))
SplitRead(kv, lo, total, longest) ==
  FlattenSeq([s \in 1 .. Splits |-> Slice(kv, lo, total, longest, s - 1)])
-----------------------------------------------------------------------------
(* Routed experts.  (token, slot) entries are numbered token by token, as   *)
(* in the code.                                                             *)

Entry(i, s) == (i - 1) * Used + s
TokenOf(n) == (n - 1) \div Used + 1
SlotOf(n) == ((n - 1) % Used) + 1
Entries(m) == 1 .. Len(m.rows) * Used
TopK(m, b) == Launch(m, b, "ids", LAMBDA i : <<"topk", m.buf["moe_logits"][i]>>)
\* The expert an entry goes to; none when the ids are not the router's.
ExpertOf(m, b, n) ==
  LET r == m.rows[TokenOf(n)]
  IN IF m.buf["ids"][TokenOf(n)] = V("ids", b, r) THEN Route(b, r)[SlotOf(n)] ELSE ExpertCount
Combine(m, b, out) ==
  Launch(m, b, out, LAMBDA i : <<"combine", [s \in 1 .. Used |-> m.buf["e_out"][Entry(i, s)]],
                                 m.buf["ids"][i]>>)

\* moe_expert_sort.cpp, on the experts of the entries: the entries of the
\* experts before e, their tiles, and the place of entry n, among those of its
\* expert in order of arrival.
Routed(experts, e) == {n \in DOMAIN experts : experts[n] = e}
Eoff(experts, e) == Cardinality({n \in DOMAIN experts : experts[n] < e})
Toff(experts, e) ==
  MapThenSumSet(LAMBDA f : Ceil(Cardinality(Routed(experts, f)), TileRows), 0 .. e - 1)
\* Mutant: one cursor for all the experts.
PlaceSharedCursor(experts, arrival) ==
  [n \in DOMAIN experts |->
     Eoff(experts, experts[n]) + Cardinality({k \in DOMAIN experts : arrival[k] <= arrival[n]})]
Place(experts, arrival) ==
  [n \in DOMAIN experts |->
     Eoff(experts, experts[n])
     + Cardinality({k \in Routed(experts, experts[n]) : arrival[k] <= arrival[n]})]
\* The expert whose tiles cover a sorted row, ExpertCount if none does; a row
\* no tile covers is not written.
TilesOf(eoff, toff, experts) ==
  LET tiles == 0 .. Ceil(Len(experts), TileRows) + ExpertCount - 1
      base(e, t) == eoff[e] + (t - toff[e]) * TileRows
  IN [p \in DOMAIN experts |->
        {e \in 1 .. ExpertCount :
           \E t \in tiles : /\ toff[e] <= t /\ t < toff[e + 1] /\ base(e, t) < p
                           /\ p <= Least(base(e, t) + TileRows, eoff[e + 1])}] \o <<>>
Owners(experts) ==
  LET offsets(before(_, _)) == [e \in 1 .. ExpertCount + 1 |-> before(experts, e - 1)] \o <<>>
  IN Then(TilesOf(offsets(Eoff), offsets(Toff), experts), LAMBDA owners :
     [p \in DOMAIN experts |-> IF owners[p] = {} THEN ExpertCount
                               ELSE (CHOOSE e \in owners[p] : TRUE) - 1])
\* The sort of a launch's entries.
Sorted(experts, arrival) ==
  [place |-> Place(experts, arrival) \o <<>>, owners |-> Owners(experts) \o <<>>]

Gather(m, place) ==
  Fill(m, "g_in", [p \in Entries(m) |->
         LET from == {n \in Entries(m) : place[n] = p}
         IN IF from = {} THEN Stale ELSE m.buf["xq8_in"][TokenOf(CHOOSE n \in from : TRUE)]])
ScatterRows(m, place) ==
  Fill(m, "e_out", [n \in Entries(m) |-> IF place[n] \in Entries(m) THEN m.buf["g_out"][place[n]]
                                         ELSE Stale])
=============================================================================
