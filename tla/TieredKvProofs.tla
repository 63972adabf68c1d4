--------------------------- MODULE TieredKvProofs ----------------------------
(***************************************************************************)
(* Proofs about the two-tier cache, for every model, layer plan, size of   *)
(* the tiers, request and attention kernel: each kernel, whatever its      *)
(* slices and waves, reads every position of well kept tiers exactly once  *)
(* and unrotated; the tiers are well kept by every step; and so the loop   *)
(* over them implements plain decoding.                                    *)
(***************************************************************************)
EXTENDS TieredKv, SequenceTheorems, WellFoundedInduction, TLAPS

-----------------------------------------------------------------------------
(* What attention is to read                                                *)

\* Position i of tiers that hold the tokens ts, nc of them cold, where it is
\* stored and when it has been read.
Stored(ts, nc, s, i) ==
  [tok |-> ts[i + 1], side |-> s, code |-> IF i < nc THEN "turbo3" ELSE "q8",
   under |-> IF i < nc THEN s ELSE "none"]
Read(ts, nc, s, i) == Entry(ts[i + 1], s, IF i < nc THEN "turbo3" ELSE "q8")
Pair(ts, nc, i) == [K |-> Read(ts, nc, "K", i), V |-> Read(ts, nc, "V", i)]
Pairs(ts, nc) == [i \in 0 .. Len(ts) - 1 |-> Pair(ts, nc, i)]
Values(ts, nc) == [i \in 0 .. Len(ts) - 1 |-> Read(ts, nc, "V", i)]

\* The counts and the slots of well kept tiers.
Holds(t, ts) ==
  /\ t.wc \in Nat /\ t.cc \in Nat /\ t.cc + t.wc = Len(ts)
  /\ \A s \in Sides : \A i \in 0 .. t.cc - 1 : t.cold[s][i] = Stored(ts, t.cc, s, i)
  /\ \A s \in Sides : \A i \in 0 .. t.wc - 1 : t.warm[s][i] = Stored(ts, t.cc, s, t.cc + i)

On(f, S) == [i \in S |-> f[i]]

-----------------------------------------------------------------------------
(* Adding up sums                                                           *)

\* A set of natural numbers that is not empty has a least element.
LEMMA LeastElement ==
  ASSUME NEW S, S \subseteq Nat, S # {}
  PROVE  \E m \in S : \A n \in S : m <= n
<1>1. \E m \in S : \A n \in S : <<n, m>> \notin OpToRel(<, Nat)
  BY NatLessThanWellFounded, WFMin
<1>2. PICK m \in S : \A n \in S : <<n, m>> \notin OpToRel(<, Nat)
  BY <1>1
<1>3. ASSUME NEW n \in S, n < m
      PROVE  <<n, m>> \in OpToRel(<, Nat)
  <2>1. n \in Nat /\ m \in Nat
    OBVIOUS
  <2>2. QED
    BY <1>3, <2>1, Zenon DEF OpToRel
<1>4. ASSUME NEW n \in S
      PROVE  m <= n
  <2>1. n \in Nat /\ m \in Nat
    OBVIOUS
  <2>2. ~(n < m)
    BY <1>2, <1>3
  <2>3. QED
    BY <2>1, <2>2
<1>5. QED
  BY <1>4

\* A set of natural numbers that has 0, and each n up to m if it has the
\* one before, has every number up to m.
LEMMA UpTo ==
  ASSUME NEW m \in Nat, NEW S, 0 \in S, \A n \in 1 .. m : n - 1 \in S => n \in S
  PROVE  \A n \in 0 .. m : n \in S
<1> DEFINE T == {n \in 0 .. m : n \notin S}
<1>1. SUFFICES ASSUME T # {} PROVE FALSE
  OBVIOUS
<1>2. T \subseteq Nat
  OBVIOUS
<1>3. PICK n \in T : \A j \in T : n <= j
  <2> HIDE DEF T
  <2>1. QED
    BY <1>1, <1>2, LeastElement
<1>4. n \in 1 .. m /\ n \notin S
  OBVIOUS
<1>5. n - 1 \in 0 .. m - 1 /\ n - 1 \notin T
  BY <1>3, <1>4
<1>6. QED
  BY <1>4, <1>5

\* g is what the recursion of SumOf defines.
Solves(g, parts, m) ==
  g = [n \in 0 .. m |-> IF n = 0 THEN <<>> ELSE Plus(g[n - 1], parts[n])]

\* The recursion has a solution.
LEMMA SumExists ==
  ASSUME NEW parts, NEW m \in Nat
  PROVE  \E g : Solves(g, parts, m)
<1> DEFINE S == {n \in Nat : \E g : Solves(g, parts, n)}
<1>1. 0 \in S
  <2> DEFINE g == [n \in 0 .. 0 |-> <<>>]
  <2>1. Solves(g, parts, 0)
    BY DEF Solves
  <2>2. QED
    BY <2>1
<1>2. ASSUME NEW n \in 1 .. m, n - 1 \in S
      PROVE  n \in S
  <2>1. PICK g : Solves(g, parts, n - 1)
    BY <1>2
  <2> DEFINE h == [j \in 0 .. n |-> IF j = n THEN Plus(g[n - 1], parts[n]) ELSE g[j]]
  <2>2. ASSUME NEW j \in 0 .. n
        PROVE  h[j] = IF j = 0 THEN <<>> ELSE Plus(h[j - 1], parts[j])
    <3>1. CASE j = n
      BY <3>1
    <3>2. CASE j # n
      <4>1. j \in 0 .. n - 1 /\ h[j] = g[j] /\ (j # 0 => h[j - 1] = g[j - 1])
        BY <3>2
      <4>2. g[j] = IF j = 0 THEN <<>> ELSE Plus(g[j - 1], parts[j])
        BY <2>1, <4>1 DEF Solves
      <4>3. QED
        BY <4>1, <4>2
    <3>3. QED
      BY <3>1, <3>2
  <2>3. Solves(h, parts, n)
    <3>1. h = [j \in 0 .. n |-> h[j]]
      OBVIOUS
    <3> HIDE DEF h
    <3>2. QED
      BY <2>2, <3>1 DEF Solves
  <2>4. QED
    BY <2>3
<1>3. m \in S
  <2> HIDE DEF S
  <2>1. \A n \in 0 .. m : n \in S
    BY <1>1, <1>2, UpTo
  <2>2. QED
    BY <2>1
<1>4. QED
  BY <1>3

\* The parts are those of f on the sets D[1], D[2] and so on, each of which has
\* none of the elements of U[n - 1], those of all before it.
Disjoint(parts, m, f, U, D) ==
  /\ U[0] = {}
  /\ \A n \in 1 .. m : /\ parts[n] = On(f, D[n])
                       /\ D[n] \cap U[n - 1] = {} /\ U[n] = U[n - 1] \cup D[n]

\* Adding up disjoint parts of a function gives the function on all of them.
LEMMA SumOfParts ==
  ASSUME NEW parts, NEW m \in Nat, NEW f, NEW U, NEW D, Disjoint(parts, m, f, U, D)
  PROVE  SumOf(parts, m) = On(f, U[m])
<1> DEFINE g == CHOOSE g : Solves(g, parts, m)
<1>1. Solves(g, parts, m)
  BY SumExists, Zenon
<1>2. SumOf(parts, m) = g[m]
  BY Zenon DEF SumOf, Solves
<1> HIDE DEF g
<1> DEFINE S == {n \in 0 .. m : g[n] = On(f, U[n])}
<1>3. 0 \in S
  BY <1>1 DEF Solves, On, Disjoint
<1>4. ASSUME NEW n \in 1 .. m, n - 1 \in S
      PROVE  n \in S
  <2>1. g[n] = Plus(g[n - 1], parts[n])
    BY <1>1 DEF Solves
  <2>2. g[n - 1] = On(f, U[n - 1]) /\ parts[n] = On(f, D[n])
        /\ D[n] \cap U[n - 1] = {} /\ U[n] = U[n - 1] \cup D[n]
    BY <1>4 DEF Disjoint
  <2>3. Plus(On(f, U[n - 1]), On(f, D[n])) = On(f, U[n])
    BY <2>2 DEF Plus, On
  <2>4. g[n] = On(f, U[n])
    <3> HIDE DEF S
    <3>1. QED
      BY <2>1, <2>2, <2>3, Zenon
  <2>5. QED
    BY <2>4
<1>5. \A n \in 0 .. m : n \in S
  <2> HIDE DEF S
  <2>1. QED
    BY <1>3, <1>4, UpTo
<1>6. QED
  BY <1>2, <1>5

-----------------------------------------------------------------------------
(* The slices                                                               *)

\* Division, for any divisor.
LEMMA Division ==
  ASSUME NEW a \in Nat, NEW b \in Nat \ {0}
  PROVE  /\ a \div b \in Nat /\ a % b \in 0 .. b - 1
         /\ a = b * (a \div b) + (a % b)
<1>1. a \div b \in Nat
  BY SMT
<1>2. a % b \in 0 .. b - 1
  BY SMT
<1>3. a = b * (a \div b) + (a % b)
  BY SMT
<1>4. QED
  BY <1>1, <1>2, <1>3

\* The slices of a launch are long enough to cover every position.
LEMMA SlicesReach ==
  ASSUME AttentionAssumption, NEW total \in Nat \ {0}
  PROVE  /\ Splits(total) \in Nat \ {0} /\ Chunk(total, Splits(total)) \in Nat
         /\ Splits(total) * Chunk(total, Splits(total)) >= total
<1> DEFINE s == Splits(total)
<1>1. SplitLen \in Nat \ {0} /\ MaxSplits \in Nat \ {0}
  BY DEF AttentionAssumption
<1> DEFINE q == (total + SplitLen - 1) \div SplitLen
<1>2. total + SplitLen - 1 \in Nat
  BY <1>1
<1>3. q \in Nat /\ total + SplitLen - 1 = SplitLen * q + ((total + SplitLen - 1) % SplitLen)
      /\ (total + SplitLen - 1) % SplitLen < SplitLen
  BY <1>1, <1>2, Division
<1>4. q # 0
  <2>1. SUFFICES ASSUME q = 0 PROVE FALSE
    OBVIOUS
  <2>2. SplitLen * q = 0
    BY <1>1, <2>1
  <2>3. QED
    BY <1>1, <1>3, <2>2
<1>5. s \in Nat \ {0}
  BY <1>1, <1>3, <1>4 DEF Splits, Smaller
<1> DEFINE c == (total + s - 1) \div s
<1>6. c \in Nat /\ total + s - 1 = s * c + ((total + s - 1) % s) /\ (total + s - 1) % s < s
  <2> HIDE DEF s
  <2>1. total + s - 1 \in Nat
    BY <1>5
  <2>2. QED
    BY <1>5, <2>1, Division
<1>7. s * c >= total
  <2> HIDE DEF c, s
  <2>1. QED
    BY <1>5, <1>6
<1>8. QED
  BY <1>5, <1>6, <1>7 DEF Chunk

\* The positions of the first n slices.
Before(total, n) ==
  0 .. Smaller(total, n * Chunk(total, Splits(total))) - 1

\* The slices are pairwise disjoint and leave no position out.
LEMMA SlicesPartition ==
  ASSUME AttentionAssumption, NEW total \in Nat \ {0}
  PROVE  /\ Before(total, 0) = {}
         /\ Before(total, Splits(total)) = 0 .. total - 1
         /\ \A n \in 1 .. Splits(total) :
              /\ Slice(total, n - 1) \subseteq 0 .. total - 1
              /\ Slice(total, n - 1) \cap Before(total, n - 1) = {}
              /\ Before(total, n) = Before(total, n - 1) \cup Slice(total, n - 1)
<1> DEFINE s == Splits(total)
           c == Chunk(total, s)
<1>1. s \in Nat \ {0} /\ c \in Nat /\ s * c >= total
  BY SlicesReach
<1>2. Before(total, 0) = {}
  <2>1. 0 * c = 0
    BY <1>1
  <2>2. Before(total, 0) = 0 .. Smaller(total, 0) - 1
    BY <2>1, Zenon DEF Before
  <2>3. QED
    BY <2>2 DEF Smaller
<1>3. Before(total, s) = 0 .. total - 1
  <2>1. PICK a \in Nat : a = s * c
    BY <1>1
  <2>2. a >= total
    BY <1>1, <2>1
  <2>3. Before(total, s) = 0 .. Smaller(total, a) - 1
    BY <2>1, Zenon DEF Before
  <2>4. QED
    BY <2>2, <2>3 DEF Smaller
<1>4. ASSUME NEW n \in 1 .. s
      PROVE  /\ Slice(total, n - 1) \subseteq 0 .. total - 1
             /\ Slice(total, n - 1) \cap Before(total, n - 1) = {}
             /\ Before(total, n) = Before(total, n - 1) \cup Slice(total, n - 1)
  <2>1. PICK a \in Nat : a = (n - 1) * c
    BY <1>1
  <2>2. n * c = a + c
    BY <1>1, <2>1
  <2>3. Slice(total, n - 1) = a .. Smaller(total, a + c) - 1
    BY <2>1 DEF Slice
  <2>4. Before(total, n - 1) = 0 .. Smaller(total, a) - 1
    BY <2>1 DEF Before
  <2>5. Before(total, n) = 0 .. Smaller(total, a + c) - 1
    BY <2>2 DEF Before
  <2> HIDE DEF c
  <2>6. QED
    BY <1>1, <2>3, <2>4, <2>5, SMTT(30) DEF Smaller
<1>5. QED
  BY <1>2, <1>3, <1>4

-----------------------------------------------------------------------------
(* The three kernels                                                        *)

\* What is stored at a position of well kept tiers.
LEMMA KeyAndValue ==
  ASSUME NEW ts, NEW t, Holds(t, ts), NEW i \in 0 .. Len(ts) - 1, Len(ts) \in Nat
  PROVE  Key(t, i) = Stored(ts, t.cc, "K", i) /\ Value(t, i) = Stored(ts, t.cc, "V", i)
<1>1. "K" \in Sides /\ "V" \in Sides /\ t.cc \in Nat /\ t.wc \in Nat /\ t.cc + t.wc = Len(ts)
  BY DEF Sides, Holds
<1>2. CASE i < t.cc
  <2>1. i \in 0 .. t.cc - 1
    BY <1>1, <1>2
  <2>2. QED
    BY <1>1, <1>2, <2>1 DEF Holds, Key, Value
<1>3. CASE ~(i < t.cc)
  <2>1. PICK j \in 0 .. t.wc - 1 : j = i - t.cc
    BY <1>1, <1>3
  <2>2. i = t.cc + j
    BY <1>1, <2>1
  <2>3. t.warm["K"][j] = Stored(ts, t.cc, "K", t.cc + j)
        /\ t.warm["V"][j] = Stored(ts, t.cc, "V", t.cc + j)
    BY <1>1 DEF Holds
  <2>4. QED
    BY <1>3, <2>1, <2>2, <2>3 DEF Key, Value
<1>4. QED
  BY <1>2, <1>3

\* A cold vector comes back from its own side's rotation.
LEMMA StoredBack ==
  ASSUME NEW ts, NEW nc \in Nat, NEW i \in Nat, NEW s \in Sides
  PROVE  /\ i < nc => Unrotate(Stored(ts, nc, s, i), s) = Read(ts, nc, s, i)
         /\ ~(i < nc) => Stored(ts, nc, s, i) = Read(ts, nc, s, i)
  BY DEF Stored, Read, Unrotate, Entry, Sides

\* A score is about the key it is of when the query is under its rotation.
LEMMA StoredScore ==
  ASSUME NEW ts, NEW nc \in Nat, NEW i \in Nat
  PROVE  /\ i < nc => Score(Rotate(Query, "K"), Stored(ts, nc, "K", i)) = Read(ts, nc, "K", i)
         /\ ~(i < nc) => Score(Query, Stored(ts, nc, "K", i)) = Read(ts, nc, "K", i)
         /\ Score(Query, Read(ts, nc, "K", i)) = Read(ts, nc, "K", i)
  BY DEF Stored, Read, Score, Rotate, Query, Entry

\* Two parts of a function on disjoint sets add up to the part on both.
LEMMA PlusParts ==
  ASSUME NEW f, NEW A, NEW B, A \cap B = {}
  PROVE  Plus(On(f, A), On(f, B)) = On(f, A \cup B)
  BY DEF Plus, On

\* The same of one slice.
LEMMA SliceIsNew ==
  ASSUME AttentionAssumption, NEW total \in Nat \ {0}, NEW n \in 1 .. Splits(total)
  PROVE  /\ Slice(total, n - 1) \subseteq 0 .. total - 1
         /\ Slice(total, n - 1) \cap Before(total, n - 1) = {}
         /\ Before(total, n) = Before(total, n - 1) \cup Slice(total, n - 1)
  BY SlicesPartition, Zenon

\* What a kernel computes of a slice.
Computed(ts, nc, slice) == On(Pairs(ts, nc), slice)

\* The values of a slice, the cold ones rotated back, in either order.
LEMMA ValuesRead ==
  ASSUME NEW ts, NEW t, Holds(t, ts), Len(ts) \in Nat, NEW slice \in SUBSET (0 .. Len(ts) - 1),
         NEW cold, cold = {i \in slice : i < t.cc}
  PROVE  /\ Plus(Back(Accumulate(t, cold)), Accumulate(t, slice \ cold))
              = On(Values(ts, t.cc), slice)
         /\ Plus(Accumulate(t, slice \ cold), Back(Accumulate(t, cold)))
              = On(Values(ts, t.cc), slice)
<1> DEFINE f == Values(ts, t.cc)
<1>1. t.cc \in Nat /\ "V" \in Sides
  BY DEF Holds, Sides
<1>2. \A i \in slice : f[i] = Read(ts, t.cc, "V", i)
  BY DEF Values
<1>3. Accumulate(t, slice \ cold) = On(f, slice \ cold)
  <2>1. ASSUME NEW i \in slice \ cold PROVE Value(t, i) = f[i]
    BY <1>1, <1>2, KeyAndValue, StoredBack
  <2>2. QED
    BY <2>1 DEF Accumulate, On
<1>4. Back(Accumulate(t, cold)) = On(f, cold)
  <2>1. ASSUME NEW i \in cold PROVE Unrotate(Value(t, i), "V") = f[i]
    BY <1>1, <1>2, KeyAndValue, StoredBack
  <2>2. QED
    BY <2>1 DEF Accumulate, Back, On
<1>5. cold \cap (slice \ cold) = {} /\ cold \cup (slice \ cold) = slice
      /\ (slice \ cold) \cap cold = {} /\ (slice \ cold) \cup cold = slice
  OBVIOUS
<1>6. Plus(On(f, cold), On(f, slice \ cold)) = On(f, slice)
  BY <1>5, PlusParts
<1>7. Plus(On(f, slice \ cold), On(f, cold)) = On(f, slice)
  BY <1>5, PlusParts
<1>8. QED
  BY <1>3, <1>4, <1>6, <1>7

\* The scores and the values of a slice are what it computes.
LEMMA PartialIs ==
  ASSUME NEW ts, NEW nc, Len(ts) \in Nat, NEW slice \in SUBSET (0 .. Len(ts) - 1), NEW scores,
         \A i \in slice : scores[i] = Read(ts, nc, "K", i)
  PROVE  Partial(scores, On(Values(ts, nc), slice)) = Computed(ts, nc, slice)
<1>1. ASSUME NEW i \in slice
      PROVE  /\ On(Values(ts, nc), slice)[i] = Read(ts, nc, "V", i)
             /\ Pairs(ts, nc)[i] = [K |-> scores[i], V |-> Read(ts, nc, "V", i)]
  BY DEF On, Values, Pairs, Pair
<1>2. DOMAIN On(Values(ts, nc), slice) = slice
  BY DEF On
<1>3. QED
  BY <1>1, <1>2 DEF Partial, Computed, On

\* attn_partial_superquant reads a slice exactly.
LEMMA NaiveReads ==
  ASSUME NEW ts, NEW t, Holds(t, ts), Len(ts) \in Nat, NEW slice \in SUBSET (0 .. Len(ts) - 1)
  PROVE  Naive(t, slice) = Computed(ts, t.cc, slice)
<1> DEFINE cold == {i \in slice : i < t.cc}
           scores == [i \in slice |-> Score(Query, IF i \in cold THEN Unrotate(Key(t, i), "K")
                                                   ELSE Key(t, i))]
<1>1. t.cc \in Nat /\ "K" \in Sides
  BY DEF Holds, Sides
<1>2. ASSUME NEW i \in slice PROVE scores[i] = Read(ts, t.cc, "K", i)
  <2>1. Key(t, i) = Stored(ts, t.cc, "K", i) /\ i \in Nat
    BY KeyAndValue
  <2>2. (IF i \in cold THEN Unrotate(Key(t, i), "K") ELSE Key(t, i)) = Read(ts, t.cc, "K", i)
    BY <1>1, <2>1, StoredBack
  <2>3. QED
    BY <1>1, <2>1, <2>2, StoredScore
<1>3. Plus(Back(Accumulate(t, cold)), Accumulate(t, slice \ cold)) = On(Values(ts, t.cc), slice)
  BY ValuesRead
<1>4. Naive(t, slice) = Partial(scores, On(Values(ts, t.cc), slice))
  BY <1>3 DEF Naive
<1> HIDE DEF scores
<1>5. QED
  BY <1>2, <1>4, PartialIs

\* The scores of the two kernels that work on a rotated query.
LEMMA RotatedScoresRead ==
  ASSUME NEW ts, NEW t, Holds(t, ts), Len(ts) \in Nat, NEW slice \in SUBSET (0 .. Len(ts) - 1),
         NEW i \in slice
  PROVE  RotatedScores(t, slice, Rotate(Query, "K"))[i] = Read(ts, t.cc, "K", i)
<1>1. t.cc \in Nat /\ i \in Nat /\ Key(t, i) = Stored(ts, t.cc, "K", i)
  BY KeyAndValue DEF Holds
<1>2. QED
  BY <1>1, StoredScore DEF RotatedScores

\* attn_partial_superquant_rs reads a slice exactly.
LEMMA RotatedSpaceReads ==
  ASSUME NEW ts, NEW t, Holds(t, ts), Len(ts) \in Nat, NEW slice \in SUBSET (0 .. Len(ts) - 1)
  PROVE  RotatedSpace(t, slice, Rotate(Query, "K")) = Computed(ts, t.cc, slice)
<1> DEFINE cold == {i \in slice : i < t.cc}
           scores == RotatedScores(t, slice, Rotate(Query, "K"))
<1>1. \A i \in slice : scores[i] = Read(ts, t.cc, "K", i)
  BY RotatedScoresRead
<1>2. Plus(Accumulate(t, slice \ cold), Back(Accumulate(t, cold))) = On(Values(ts, t.cc), slice)
  BY ValuesRead
<1>3. RotatedSpace(t, slice, Rotate(Query, "K")) = Partial(scores, On(Values(ts, t.cc), slice))
  BY <1>2 DEF RotatedSpace
<1> HIDE DEF scores
<1>4. QED
  BY <1>1, <1>3, PartialIs

\* The waves of a workgroup together take every cold position of the slice once.
LEMMA WavesAddUp ==
  ASSUME AttentionAssumption, NEW t, NEW cold \in SUBSET Nat, NEW first \in Nat,
         \A i \in cold : first <= i
  PROVE  SumOf([w \in 1 .. Waves |-> Accumulate(t, {i \in cold : (i - first) % Waves = w - 1})],
               Waves)
           = Accumulate(t, cold)
<1> DEFINE f == [i \in Nat |-> Value(t, i)]
           U == [n \in Nat |-> {i \in cold : (i - first) % Waves < n}]
           D == [n \in Nat |-> {i \in cold : (i - first) % Waves = n - 1}]
           parts == [w \in 1 .. Waves |-> Accumulate(t, {i \in cold : (i - first) % Waves = w - 1})]
<1>1. Waves \in Nat \ {0}
  BY DEF AttentionAssumption
<1>2. \A i \in cold : (i - first) % Waves \in 0 .. Waves - 1
  <2>1. ASSUME NEW i \in cold PROVE (i - first) % Waves \in 0 .. Waves - 1
    <3>1. PICK a \in Nat : a = i - first
      OBVIOUS
    <3>2. a % Waves \in 0 .. Waves - 1
      BY <1>1, Division
    <3>3. QED
      BY <3>1, <3>2
  <2>2. QED
    BY <2>1
<1>3. PICK r \in [cold -> 0 .. Waves - 1] : \A i \in cold : r[i] = (i - first) % Waves
  <2>1. [i \in cold |-> (i - first) % Waves] \in [cold -> 0 .. Waves - 1]
    BY <1>2
  <2>2. QED
    BY <2>1
<1>4. /\ \A n \in Nat : U[n] = {i \in cold : r[i] < n}
      /\ \A n \in Nat : D[n] = {i \in cold : r[i] = n - 1}
  BY <1>3
<1>5. ASSUME NEW n \in 1 .. Waves PROVE parts[n] = On(f, D[n])
  <2>1. D[n] = {i \in cold : (i - first) % Waves = n - 1}
    OBVIOUS
  <2>2. parts[n] = Accumulate(t, D[n])
    BY <2>1
  <2>3. D[n] \subseteq Nat
    BY <2>1
  <2> HIDE DEF D, parts
  <2>4. QED
    BY <2>2, <2>3 DEF Accumulate, On
<1> HIDE DEF U, D, parts, f
<1>6. U[0] = {} /\ U[Waves] = cold
  <2>1. \A i \in cold : ~(r[i] < 0) /\ r[i] < Waves
    BY <1>1, <1>3
  <2>2. U[0] = {i \in cold : r[i] < 0} /\ U[Waves] = {i \in cold : r[i] < Waves}
    BY <1>1, <1>4
  <2>3. QED
    BY <2>1, <2>2
<1>7. ASSUME NEW n \in 1 .. Waves
      PROVE  D[n] \cap U[n - 1] = {} /\ U[n] = U[n - 1] \cup D[n]
  <2>1. n \in Nat /\ n - 1 \in Nat
    OBVIOUS
  <2>2. D[n] = {i \in cold : r[i] = n - 1} /\ U[n] = {i \in cold : r[i] < n}
        /\ U[n - 1] = {i \in cold : r[i] < n - 1}
    BY <1>4, <2>1
  <2>3. \A i \in cold : r[i] \in Nat
    BY <1>1, <1>3
  <2>4. QED
    <3>1. D[n] \cap U[n - 1] = {}
      BY <2>1, <2>2, <2>3
    <3>2. \A i \in cold : r[i] < n <=> (r[i] < n - 1 \/ r[i] = n - 1)
      BY <2>1, <2>3
    <3>3. U[n] = U[n - 1] \cup D[n]
      <4> HIDE DEF D, U
      <4>1. QED
        BY <2>2, <3>2, ZenonT(30)
    <3>4. QED
      BY <3>1, <3>3
<1>8. SumOf(parts, Waves) = On(f, U[Waves])
  <2>1. Disjoint(parts, Waves, f, U, D)
    BY <1>5, <1>6, <1>7 DEF Disjoint
  <2>2. QED
    BY <1>1, <2>1, SumOfParts
<1>9. On(f, cold) = Accumulate(t, cold)
  BY DEF f, On, Accumulate
<1>10. QED
  BY <1>6, <1>8, <1>9 DEF parts

\* attn_partial_superquant_wp reads a slice exactly, whatever the number of waves.
LEMMA WavesRead ==
  ASSUME AttentionAssumption, NEW ts, NEW t, Holds(t, ts), Len(ts) \in Nat,
         NEW slice \in SUBSET (0 .. Len(ts) - 1)
  PROVE  WaveParallel(t, slice, Rotate(Query, "K")) = Computed(ts, t.cc, slice)
<1> DEFINE cold == {i \in slice : i < t.cc}
           first == CHOOSE i \in slice : \A j \in slice : i <= j
           scores == RotatedScores(t, slice, Rotate(Query, "K"))
           parts == [w \in 1 .. Waves |-> Accumulate(t, {i \in cold : (i - first) % Waves = w - 1})]
<1>1. \A i \in slice : scores[i] = Read(ts, t.cc, "K", i)
  BY RotatedScoresRead
<1>2. Plus(Accumulate(t, slice \ cold), Back(Accumulate(t, cold))) = On(Values(ts, t.cc), slice)
  BY ValuesRead
<1>3. SumOf(parts, Waves) = Accumulate(t, cold)
  <2>1. CASE slice = {}
    <3>1. cold = {} /\ cold \in SUBSET Nat
      BY <2>1
    <3>2. \A i \in cold : (i - 0) % Waves = (i - first) % Waves
      BY <3>1
    <3>3. parts = [w \in 1 .. Waves |-> Accumulate(t, {i \in cold : (i - 0) % Waves = w - 1})]
      BY <3>1
    <3> HIDE DEF cold
    <3>4. QED
      BY <3>1, <3>3, WavesAddUp
  <2>2. CASE slice # {}
    <3>1. slice \subseteq Nat
      OBVIOUS
    <3>2. \E i \in slice : \A j \in slice : i <= j
      BY <2>2, <3>1, LeastElement
    <3>3. first \in slice /\ \A j \in slice : first <= j
      BY <3>2
    <3>4. first \in Nat /\ cold \in SUBSET Nat /\ \A i \in cold : first <= i
      BY <3>1, <3>3
    <3> HIDE DEF cold, first
    <3>5. QED
      BY <3>4, WavesAddUp
  <2>3. QED
    BY <2>1, <2>2
<1>4. WaveParallel(t, slice, Rotate(Query, "K")) = Partial(scores, On(Values(ts, t.cc), slice))
  BY <1>2, <1>3, Zenon DEF WaveParallel
<1> HIDE DEF scores
<1>5. QED
  BY <1>1, <1>4, PartialIs

\* Merging the partial sums of all slices gives every position once, in order.
LEMMA MergedReads ==
  ASSUME AttentionAssumption, NEW ts, NEW t, Holds(t, ts), Len(ts) \in Nat \ {0}, NEW partials,
         \A n \in 1 .. Splits(Len(ts)) :
           partials[n] = Computed(ts, t.cc, Slice(Len(ts), n - 1))
  PROVE  Merged(t, partials) = [i \in 1 .. Len(ts) |-> Pair(ts, t.cc, i - 1)]
<1>1. PICK total \in Nat \ {0} : total = Len(ts)
  OBVIOUS
<1> DEFINE f == Pairs(ts, t.cc)
           U == [n \in 0 .. Splits(total) |-> Before(total, n)]
           D == [n \in 1 .. Splits(total) |-> Slice(total, n - 1)]
<1>2. Splits(total) \in Nat \ {0}
  BY SlicesReach
<1>3. U[0] = {} /\ U[Splits(total)] = 0 .. total - 1
  BY <1>2, SlicesPartition
<1>4. ASSUME NEW n \in 1 .. Splits(total)
      PROVE  /\ partials[n] = On(f, D[n])
             /\ D[n] \cap U[n - 1] = {} /\ U[n] = U[n - 1] \cup D[n]
  <2>1. D[n] = Slice(total, n - 1) /\ U[n] = Before(total, n) /\ U[n - 1] = Before(total, n - 1)
    BY <1>2
  <2>2. partials[n] = On(f, Slice(total, n - 1))
    BY <1>1 DEF Computed
  <2>3. QED
    BY <2>1, <2>2, SliceIsNew, Zenon
<1> HIDE DEF U, D, f
<1>5. SumOf(partials, Splits(total)) = On(f, 0 .. total - 1)
  <2>1. PICK m \in Nat : m = Splits(total)
    BY <1>2
  <2>2. Disjoint(partials, m, f, U, D)
    BY <1>3, <1>4, <2>1 DEF Disjoint
  <2>3. SumOf(partials, m) = On(f, U[m])
    BY <2>2, SumOfParts
  <2>4. QED
    BY <1>3, <2>1, <2>3
<1>6. t.cc + t.wc = total
  BY <1>1 DEF Holds
<1>7. ASSUME NEW i \in 1 .. total
      PROVE  i - 1 \in 0 .. total - 1 /\ On(f, 0 .. total - 1)[i - 1] = Pair(ts, t.cc, i - 1)
  BY <1>1 DEF f, On, Pairs
<1>8. DOMAIN On(f, 0 .. total - 1) = 0 .. total - 1
  BY DEF On
<1>9. QED
  BY <1>1, <1>5, <1>6, <1>7, <1>8 DEF Merged

\* Whatever kernel runs, attention over well kept tiers reads every position
\* they hold once, in order, under no rotation.
LEMMA AttentionReads ==
  ASSUME AttentionAssumption, NEW ts, NEW t, Holds(t, ts), Len(ts) \in Nat \ {0},
         NEW k \in Kernels
  PROVE  Attention(k, t) = [i \in 1 .. Len(ts) |-> Pair(ts, t.cc, i - 1)]
<1>1. PICK total \in Nat \ {0} : total = Len(ts)
  OBVIOUS
<1>2. t.cc + t.wc = total
  BY <1>1 DEF Holds
<1>3. Slices(t) = [n \in 1 .. Splits(total) |-> Slice(total, n - 1)]
  BY <1>2 DEF Slices
<1>4. \A n \in 1 .. Splits(total) :
        Slices(t)[n] = Slice(total, n - 1) /\ Slices(t)[n] \in SUBSET (0 .. Len(ts) - 1)
  BY <1>1, <1>3, SliceIsNew
<1>5. DOMAIN Slices(t) = 1 .. Splits(total)
  BY <1>3
<1>6. CASE k = "naive"
  <2> DEFINE p == [n \in DOMAIN Slices(t) |-> Naive(t, Slices(t)[n])]
  <2>1. \A n \in 1 .. Splits(Len(ts)) : p[n] = Computed(ts, t.cc, Slice(Len(ts), n - 1))
    BY <1>1, <1>4, <1>5, NaiveReads
  <2>2. Attention(k, t) = Merged(t, p)
    BY <1>6, Zenon DEF Attention, LaunchNaive
  <2> HIDE DEF p
  <2>3. QED
    BY <2>1, <2>2, MergedReads
<1>7. CASE k = "rotated"
  <2> DEFINE p == [n \in DOMAIN Slices(t) |-> RotatedSpace(t, Slices(t)[n], Rotate(Query, "K"))]
  <2>1. \A n \in 1 .. Splits(Len(ts)) : p[n] = Computed(ts, t.cc, Slice(Len(ts), n - 1))
    BY <1>1, <1>4, <1>5, RotatedSpaceReads
  <2>2. Attention(k, t) = Merged(t, p)
    BY <1>7 DEF Attention, LaunchRotated
  <2> HIDE DEF p
  <2>3. QED
    BY <2>1, <2>2, MergedReads
<1>8. CASE k = "waves"
  <2> DEFINE p == [n \in DOMAIN Slices(t) |-> WaveParallel(t, Slices(t)[n], Rotate(Query, "K"))]
  <2>1. \A n \in 1 .. Splits(Len(ts)) : p[n] = Computed(ts, t.cc, Slice(Len(ts), n - 1))
    BY <1>1, <1>4, <1>5, WavesRead
  <2>2. Attention(k, t) = Merged(t, p)
    BY <1>8 DEF Attention, LaunchWaves
  <2> HIDE DEF p
  <2>3. QED
    BY <2>1, <2>2, MergedReads
<1>9. QED
  BY <1>6, <1>7, <1>8 DEF Kernels

-----------------------------------------------------------------------------
(* The inductive invariant                                                  *)

\* The arrays of two tiers are as long as they were allocated, and the counts
\* are within them.
Shaped(t) ==
  /\ DOMAIN t = {"warm", "cold", "wc", "cc"}
  /\ t.wc \in 0 .. config.warm /\ t.cc \in 0 .. config.cold
  /\ \A s \in Sides : /\ DOMAIN t.warm[s] = 0 .. config.warm - 1
                      /\ DOMAIN t.cold[s] = 0 .. config.cold - 1

\* Nothing is cold unless the warm tier is full.
WarmFull(t) == t.cc > 0 => t.wc = config.warm

Types ==
  /\ prompt \in Seq(Token) /\ Len(prompt) \in 1 .. MaxPrompt /\ steps \in 0 .. MaxSteps
  /\ sampling \in BOOLEAN /\ seq_prefill \in BOOLEAN /\ kernel \in Kernels
  /\ config.warm \in Nat /\ config.cold \in Nat
  /\ \A l \in Layers : q8[l].len \in 0 .. Max_seq
  /\ \A l \in Layers : Shaped(tiers[l])
  /\ fed \in Seq(Token) /\ pos = Len(fed)
  /\ generated \in Seq(Token) /\ Len(generated) <= steps
  /\ phase \in Phases

\* The tiers that own their entries hold what was fed, except between a
\* batched prefill and the migration.
Kept(ts) == \A l \in Layers : Owner(l) => Holds(tiers[l], ts) /\ WarmFull(tiers[l])
TiersKept == phase \notin {"migrate", "error"} \/ seq_prefill => Kept(fed)

\* The int8 cache of a layer holds the tokens ts.
Cached(c, ts) ==
  \A s \in Sides : \A i \in 0 .. Len(ts) - 1 : c.kv[s][i] = Entry(ts[i + 1], s, "q8")

\* Before the decode loop.
Prefilling ==
  /\ phase = "prefill" => Len(fed) < Len(prompt) /\ (~seq_prefill => fed = <<>>)
  /\ phase \in {"prefill", "migrate", "error"} => generated = <<>>
  /\ phase = "migrate" => Len(fed) = Len(prompt)
  /\ phase = "migrate" /\ ~seq_prefill =>
       /\ fed = prompt /\ seen = [l \in Layers |-> Fresh(prompt)]
       /\ \A l \in Layers : q8[l].len = pos
       /\ \A l \in Layers : Owner(l) => Cached(q8[l], fed)
  /\ seq_prefill => /\ phase \in {"prefill", "migrate", "error", "panic"}
                    /\ \A l \in Layers : q8[l].len = 0

\* In the decode loop and after it.
EosSeen == \E i \in 1 .. Len(generated) : generated[i] = Eos
Decoding ==
  /\ phase = "decode" => /\ fed = prompt \o generated /\ Len(generated) < steps
                         /\ ContextOf(seen) = fed /\ ~EosSeen
  /\ phase = "probe" => Len(fed) <= Len(prompt) + steps
  /\ phase \in {"probe", "done", "late_panic"} => EosSeen \/ Len(generated) >= steps

IInv == Types /\ TiersKept /\ Prefilling /\ Decoding /\ EnoughRoom

-----------------------------------------------------------------------------
(* Writing to the tiers                                                     *)

\* The oldest warm entry, coded again and rotated, is as it is stored cold.
LEMMA StoredDemoted ==
  ASSUME NEW ts, NEW nc \in Nat, NEW n \in Nat, NEW i \in Nat, NEW s \in Sides,
         ~(i < nc), i < n
  PROVE  Rotate([Stored(ts, nc, s, i) EXCEPT !.code = "turbo3"], s) = Stored(ts, n, s, i)
<1> DEFINE v == [Stored(ts, nc, s, i) EXCEPT !.code = "turbo3"]
<1>1. v = [tok |-> ts[i + 1], side |-> s, code |-> "turbo3", under |-> "none"]
  BY DEF Stored
<1> HIDE DEF v
<1>2. Rotate(v, s) = [tok |-> ts[i + 1], side |-> s, code |-> "turbo3", under |-> s]
  BY <1>1 DEF Rotate
<1>3. Stored(ts, n, s, i) = [tok |-> ts[i + 1], side |-> s, code |-> "turbo3", under |-> s]
  BY DEF Stored
<1>4. QED
  BY <1>2, <1>3 DEF v

\* Demoting an entry keeps what the tiers hold: only its code and rotation change.
LEMMA DemoteKeeps ==
  ASSUME config.warm \in Nat, config.cold \in Nat, NEW ts, NEW t,
         Shaped(t), Holds(t, ts), t.wc >= 1, t.cc + 1 <= config.cold
  PROVE  /\ Shaped(Demote(t, 1)) /\ Holds(Demote(t, 1), ts)
         /\ Demote(t, 1).wc = t.wc - 1 /\ Demote(t, 1).cc = t.cc + 1
<1> DEFINE d == Demote(t, 1)
<1>1. DOMAIN d = {"warm", "cold", "wc", "cc"} /\ d.wc = t.wc - 1 /\ d.cc = t.cc + 1
  BY DEF Demote
<1>2. t.wc \in Nat /\ t.cc \in Nat /\ t.wc <= config.warm /\ t.cc + t.wc = Len(ts)
  BY DEF Shaped, Holds
<1>2a. ASSUME NEW s \in Sides
      PROVE  /\ DOMAIN d.warm[s] = 0 .. config.warm - 1
             /\ DOMAIN d.cold[s] = 0 .. config.cold - 1
             /\ \A i \in 0 .. config.warm - 1 :
                  d.warm[s][i] = IF i < t.wc - 1 THEN t.warm[s][i + 1] ELSE t.warm[s][i]
             /\ \A i \in 0 .. config.cold - 1 :
                  d.cold[s][i] = IF i \in t.cc .. t.cc + 1 - 1
                                 THEN Rotate([t.warm[s][i - t.cc] EXCEPT !.code = "turbo3"], s)
                                 ELSE t.cold[s][i]
  <2>1. DOMAIN t.warm[s] = 0 .. config.warm - 1 /\ DOMAIN t.cold[s] = 0 .. config.cold - 1
    BY DEF Shaped
  <2>2. d.warm[s] = [i \in DOMAIN t.warm[s] |->
                       IF i < t.wc - 1 THEN t.warm[s][i + 1] ELSE t.warm[s][i]]
    BY DEF Demote
  <2>3. d.cold[s] = Promote(s, t.cold[s], t.cc, t.warm[s], 1)
    BY DEF Demote
  <2>4. d.cold[s] = [i \in 0 .. config.cold - 1 |->
                       IF i \in t.cc .. t.cc + 1 - 1
                       THEN Rotate([t.warm[s][i - t.cc] EXCEPT !.code = "turbo3"], s)
                       ELSE t.cold[s][i]]
    BY <2>1, <2>3, Zenon DEF Promote
  <2> HIDE DEF d
  <2>5. QED
    BY <2>1, <2>2, <2>4
<1> HIDE DEF d
<1>3. Shaped(d)
  <2>1. d.wc \in 0 .. config.warm /\ d.cc \in 0 .. config.cold
    BY <1>1, <1>2
  <2>2. QED
    BY <1>1, <1>2a, <2>1 DEF Shaped
<1>4. ASSUME NEW s \in Sides, NEW i \in 0 .. d.wc - 1
      PROVE  d.warm[s][i] = Stored(ts, d.cc, s, d.cc + i)
  <2>1. d.warm[s][i] = t.warm[s][i + 1]
    <3>1. i \in 0 .. config.warm - 1 /\ i < t.wc - 1
      BY <1>1, <1>2
    <3>2. QED
      BY <1>2a, <3>1
  <2>2. PICK j \in 0 .. t.wc - 1 : j = i + 1
    BY <1>1, <1>2
  <2>3. t.warm[s][j] = Stored(ts, t.cc, s, t.cc + j)
    BY DEF Holds
  <2>4. t.cc + j = d.cc + i
    BY <1>1, <1>2, <2>2, SMTT(30)
  <2>5. Stored(ts, t.cc, s, t.cc + j) = Stored(ts, d.cc, s, d.cc + i)
    BY <1>1, <1>2, <2>4, SMTT(30) DEF Stored
  <2>6. QED
    BY <2>1, <2>2, <2>3, <2>5
<1>5. ASSUME NEW s \in Sides, NEW i \in 0 .. d.cc - 1
      PROVE  d.cold[s][i] = Stored(ts, d.cc, s, i)
  <2>1. i \in 0 .. config.cold - 1 /\ i \in Nat
    BY <1>1, <1>2
  <2>2. CASE i = t.cc
    <3>1. d.cold[s][i] = Rotate([t.warm[s][i - t.cc] EXCEPT !.code = "turbo3"], s)
      <4>1. i \in t.cc .. t.cc + 1 - 1
        BY <1>2, <2>2
      <4>2. QED
        BY <1>2a, <2>1, <4>1
    <3>2. i - t.cc = 0 /\ 0 \in 0 .. t.wc - 1 /\ t.cc + 0 = i
      BY <1>2, <2>2
    <3>3. t.warm[s][0] = Stored(ts, t.cc, s, i)
      BY <3>2 DEF Holds
    <3>4. Rotate([Stored(ts, t.cc, s, i) EXCEPT !.code = "turbo3"], s) = Stored(ts, d.cc, s, i)
      BY <1>1, <1>2, <2>2, StoredDemoted
    <3>5. QED
      BY <3>1, <3>2, <3>3, <3>4
  <2>3. CASE i # t.cc
    <3>1. i \in 0 .. t.cc - 1
      BY <1>1, <1>2, <2>3
    <3>2. d.cold[s][i] = t.cold[s][i]
      <4>1. i \notin t.cc .. t.cc + 1 - 1
        BY <1>2, <2>1, <2>3
      <4>2. QED
        BY <1>2a, <2>1, <4>1
    <3>3. t.cold[s][i] = Stored(ts, t.cc, s, i)
      BY <3>1 DEF Holds
    <3>4. Stored(ts, t.cc, s, i) = Stored(ts, d.cc, s, i)
      BY <1>1, <1>2, <3>1 DEF Stored
    <3>5. QED
      BY <3>2, <3>3, <3>4
  <2>4. QED
    BY <2>2, <2>3
<1>6. Holds(d, ts)
  BY <1>1, <1>2, <1>4, <1>5, SMTT(30) DEF Holds
<1>7. QED
  BY <1>1, <1>3, <1>6 DEF d

\* write_step when the warm tier has room.
Put(d, tok) ==
  [d EXCEPT !.warm = [s \in Sides |-> [@[s] EXCEPT ![d.wc] = Entry(tok, s, "q8")]],
            !.wc = @ + 1]

\* Appending an entry to a warm tier that has room.
LEMMA PutKeeps ==
  ASSUME config.warm \in Nat, config.cold \in Nat, NEW ts \in Seq(Token), NEW tok \in Token,
         NEW d, Shaped(d), Holds(d, ts), d.wc < config.warm
  PROVE  /\ Shaped(Put(d, tok)) /\ Holds(Put(d, tok), Append(ts, tok))
         /\ Put(d, tok).wc = d.wc + 1 /\ Put(d, tok).cc = d.cc
<1> DEFINE u == Put(d, tok)
           us == Append(ts, tok)
<1>1. /\ DOMAIN u = {"warm", "cold", "wc", "cc"} /\ u.wc = d.wc + 1 /\ u.cc = d.cc
      /\ u.cold = d.cold
      /\ \A s \in Sides : u.warm[s] = [d.warm[s] EXCEPT ![d.wc] = Entry(tok, s, "q8")]
  BY DEF Put, Shaped
<1> HIDE DEF u
<1>2. d.wc \in Nat /\ d.cc \in Nat /\ d.cc + d.wc = Len(ts)
  BY DEF Shaped, Holds
<1>3. Shaped(u)
  <2>1. u.wc \in 0 .. config.warm /\ u.cc \in 0 .. config.cold
    BY <1>1, <1>2 DEF Shaped
  <2>2. ASSUME NEW s \in Sides
        PROVE  /\ DOMAIN u.warm[s] = 0 .. config.warm - 1
               /\ DOMAIN u.cold[s] = 0 .. config.cold - 1
    BY <1>1 DEF Shaped
  <2>3. QED
    BY <1>1, <2>1, <2>2 DEF Shaped
<1>4. Len(us) = Len(ts) + 1 /\ us[Len(ts) + 1] = tok
      /\ \A i \in 0 .. Len(ts) - 1 : us[i + 1] = ts[i + 1]
  OBVIOUS
<1> HIDE DEF us
<1>5. ASSUME NEW s \in Sides, NEW i \in 0 .. u.wc - 1
      PROVE  u.warm[s][i] = Stored(us, u.cc, s, u.cc + i)
  <2>1. i \in DOMAIN d.warm[s] /\ i \in Nat
    BY <1>1, <1>2 DEF Shaped
  <2>2. CASE i = d.wc
    <3>1. u.warm[s][i] = Entry(tok, s, "q8")
      BY <1>1, <2>1, <2>2
    <3>2. u.cc + i = Len(ts) /\ ~(u.cc + i < u.cc)
      BY <1>1, <1>2, <2>2
    <3>3. QED
      BY <1>4, <3>1, <3>2 DEF Stored, Entry
  <2>3. CASE i # d.wc
    <3>1. i \in 0 .. d.wc - 1 /\ d.cc + i \in 0 .. Len(ts) - 1
      BY <1>1, <1>2, <2>3, SMTT(30)
    <3>2. u.warm[s][i] = d.warm[s][i]
      BY <1>1, <2>1, <2>3
    <3>3. d.warm[s][i] = Stored(ts, d.cc, s, d.cc + i)
      BY <3>1 DEF Holds
    <3>4. Stored(ts, d.cc, s, d.cc + i) = Stored(us, u.cc, s, u.cc + i)
      BY <1>1, <1>4, <3>1, SMTT(30) DEF Stored
    <3>5. QED
      BY <3>2, <3>3, <3>4
  <2>4. QED
    BY <2>2, <2>3
<1>6. ASSUME NEW s \in Sides, NEW i \in 0 .. u.cc - 1
      PROVE  u.cold[s][i] = Stored(us, u.cc, s, i)
  <2>1. i \in 0 .. d.cc - 1 /\ i \in 0 .. Len(ts) - 1
    BY <1>1, <1>2
  <2>2. d.cold[s][i] = Stored(ts, d.cc, s, i)
    BY <2>1 DEF Holds
  <2>3. Stored(ts, d.cc, s, i) = Stored(us, u.cc, s, i)
    BY <1>1, <1>4, <2>1 DEF Stored
  <2>4. QED
    BY <1>1, <2>2, <2>3
<1>7. Holds(u, us)
  <2>1. u.wc \in Nat /\ u.cc \in Nat /\ u.cc + u.wc = Len(us)
    BY <1>1, <1>2, <1>4
  <2>2. QED
    BY <1>5, <1>6, <2>1 DEF Holds
<1>8. QED
  BY <1>1, <1>3, <1>7 DEF u, us

\* write_step appends the entry and keeps the warm tier as full as it was.
LEMMA WriteStepKeeps ==
  ASSUME config.warm \in Nat, config.cold \in Nat, NEW ts \in Seq(Token), NEW tok \in Token,
         NEW t, Shaped(t), Holds(t, ts), WarmFull(t), WriteFits(t)
  PROVE  /\ Shaped(WriteStep(t, tok)) /\ Holds(WriteStep(t, tok), Append(ts, tok))
         /\ WarmFull(WriteStep(t, tok))
<1>1. t.wc \in Nat /\ t.cc \in Nat /\ t.wc <= config.warm
  BY DEF Shaped
<1>2. CASE t.wc >= config.warm
  <2> DEFINE d == Demote(t, 1)
  <2>1. t.wc >= 1 /\ t.cc + 1 <= config.cold /\ t.wc = config.warm
    BY <1>1, <1>2 DEF WriteFits, DemoteFits
  <2>2. Shaped(d) /\ Holds(d, ts) /\ d.wc = t.wc - 1 /\ d.cc = t.cc + 1
    BY <2>1, DemoteKeeps
  <2>3. WriteStep(t, tok) = Put(d, tok)
    BY <1>2 DEF WriteStep, Put
  <2> HIDE DEF d
  <2>4. d.wc < config.warm
    BY <1>1, <2>1, <2>2
  <2>5. QED
    BY <1>1, <2>1, <2>2, <2>3, <2>4, PutKeeps DEF WarmFull
<1>3. CASE ~(t.wc >= config.warm)
  <2>1. WriteStep(t, tok) = Put(t, tok)
    BY <1>3 DEF WriteStep, Put
  <2>2. t.wc < config.warm /\ ~(t.cc > 0)
    BY <1>1, <1>3 DEF WarmFull
  <2>3. QED
    BY <1>1, <2>1, <2>2, PutKeeps DEF WarmFull
<1>4. QED
  BY <1>2, <1>3

-----------------------------------------------------------------------------
(* What a forward has read                                                  *)

\* What a layer attended to is the tokens ts, each on both sides, unrotated.
Reads(v, ts) ==
  /\ DOMAIN v = 1 .. Len(ts) /\ Len(v) = Len(ts)
  /\ \A i \in 1 .. Len(ts) : \A s \in Sides :
       v[i][s].tok = ts[i] /\ v[i][s].side = s /\ v[i][s].under = "none"

\* The length of a sequence that is given as a function.
LEMMA LengthOf ==
  ASSUME NEW v, NEW n \in Nat, v = [i \in 1 .. n |-> v[i]]
  PROVE  Len(v) = n
<1>1. v \in [1 .. n -> {v[i] : i \in 1 .. n}]
  OBVIOUS
<1>2. v \in Seq({v[i] : i \in 1 .. n})
  BY <1>1, SeqDef
<1>3. Len(v) \in Nat /\ DOMAIN v = 1 .. Len(v) /\ DOMAIN v = 1 .. n
  BY <1>1, <1>2, LenProperties
<1>4. QED
  BY <1>3

\* Attention over well kept tiers reads the tokens they hold.
LEMMA AttentionReadsTokens ==
  ASSUME AttentionAssumption, NEW ts, NEW t, Holds(t, ts), Len(ts) \in Nat \ {0},
         NEW k \in Kernels
  PROVE  Reads(Attention(k, t), ts)
<1> DEFINE v == Attention(k, t)
<1>1. v = [i \in 1 .. Len(ts) |-> Pair(ts, t.cc, i - 1)]
  BY AttentionReads
<1> HIDE DEF v
<1>2. Len(v) = Len(ts) /\ DOMAIN v = 1 .. Len(ts)
  <2>1. v = [i \in 1 .. Len(ts) |-> v[i]]
    BY <1>1
  <2>2. QED
    BY <2>1, LengthOf
<1>3. ASSUME NEW i \in 1 .. Len(ts), NEW s \in Sides
      PROVE  v[i][s].tok = ts[i] /\ v[i][s].side = s /\ v[i][s].under = "none"
  <2>1. v[i] = Pair(ts, t.cc, i - 1) /\ i - 1 + 1 = i
    BY <1>1
  <2>2. v[i][s] = Read(ts, t.cc, s, i - 1)
    BY <2>1 DEF Pair, Sides
  <2>3. QED
    BY <2>1, <2>2 DEF Read, Entry
<1>4. QED
  BY <1>2, <1>3 DEF Reads, v

\* So does the batched prefill, which reads its own projections.
LEMMA FreshReads ==
  ASSUME NEW ts \in Seq(Token)
  PROVE  Reads(Fresh(ts), ts)
<1> DEFINE v == Fresh(ts)
<1>1. Len(ts) \in Nat
  OBVIOUS
<1>2. v = [i \in 1 .. Len(ts) |-> [s \in Sides |-> Entry(ts[i], s, "q8")]]
  BY DEF Fresh
<1> HIDE DEF v
<1>3. v = [i \in 1 .. Len(ts) |-> v[i]]
  BY <1>2
<1>4. Len(v) = Len(ts) /\ DOMAIN v = 1 .. Len(ts)
  BY <1>1, <1>3, LengthOf
<1>5. ASSUME NEW i \in 1 .. Len(ts), NEW s \in Sides
      PROVE  v[i][s].tok = ts[i] /\ v[i][s].side = s /\ v[i][s].under = "none"
  BY <1>2 DEF Entry
<1>6. QED
  BY <1>4, <1>5 DEF Reads, v

\* Logits of layers that all read the same tokens follow these tokens.
LEMMA ContextIs ==
  ASSUME TieredAssumption, NEW view, NEW ts \in Seq(Token), \A l \in Layers : Reads(view[l], ts)
  PROVE  ContextOf(view) = ts
<1>1. \A l \in Layers : Len(view[l]) = Len(ts) /\ DOMAIN view[l] = 1 .. Len(ts)
  BY DEF Reads
<1>2. "K" \in Sides
  BY DEF Sides
<1>3. ASSUME NEW l \in Layers, NEW s \in Sides, NEW i \in DOMAIN view[l]
      PROVE  view[l][i][s].side = s /\ view[l][i][s].under = "none" /\ view[l][i][s].tok = ts[i]
  BY DEF Reads
<1>4. \A l, m \in Layers : \A s \in Sides :
        /\ Len(view[l]) = Len(view[m])
        /\ \A i \in DOMAIN view[l] : /\ view[l][i][s].side = s /\ view[l][i][s].under = "none"
                                     /\ view[l][i][s].tok = view[m][i]["K"].tok
  BY <1>1, <1>2, <1>3
<1> DEFINE first == CHOOSE l \in Layers : TRUE
<1>5. first \in Layers
  BY DEF TieredAssumption
<1>6. ContextOf(view) = [i \in DOMAIN view[first] |-> view[first][i]["K"].tok]
  BY <1>4, Zenon DEF ContextOf
<1> HIDE DEF first
<1>7. ContextOf(view) = [i \in 1 .. Len(ts) |-> ts[i]]
  BY <1>1, <1>2, <1>3, <1>5, <1>6
<1>8. QED
  BY <1>7

\* A forward keeps every owner's tiers, and its logits follow what was fed.
LEMMA ForwardKeeps ==
  ASSUME TieredAssumption, Types, Kept(fed), ForwardFits, NEW tok \in Token, Forward(tok),
         UNCHANGED config
  PROVE  /\ \A l \in Layers : Shaped(tiers[l])'
         /\ fed' = Append(fed, tok) /\ fed' \in Seq(Token) /\ Len(fed') = Len(fed) + 1
         /\ pos' = Len(fed') /\ Kept(fed)' /\ ContextOf(seen') = fed'
<1>1. fed' = Append(fed, tok) /\ fed' \in Seq(Token) /\ Len(fed') = Len(fed) + 1
      /\ pos' = Len(fed')
  BY DEF Forward, Types
<1>2. config.warm \in Nat /\ config.cold \in Nat /\ fed \in Seq(Token) /\ kernel \in Kernels
  BY DEF Types
<1>3. ASSUME NEW l \in Layers
      PROVE  /\ Shaped(tiers[l])'
             /\ Owner(l) => Holds(tiers'[l], fed') /\ WarmFull(tiers[l])'
  <2>1. CASE Owner(l)
    <3>1. tiers'[l] = WriteStep(tiers[l], tok)
      BY <2>1 DEF Forward
    <3>2. Shaped(tiers[l]) /\ Holds(tiers[l], fed) /\ WarmFull(tiers[l]) /\ WriteFits(tiers[l])
      BY <2>1 DEF Types, Kept, ForwardFits
    <3>3. Shaped(tiers'[l]) /\ Holds(tiers'[l], fed') /\ WarmFull(tiers'[l])
      BY <1>1, <1>2, <3>1, <3>2, WriteStepKeeps
    <3>4. QED
      BY <3>3 DEF Shaped, WarmFull
  <2>2. CASE ~Owner(l)
    <3>1. tiers'[l] = tiers[l] /\ Shaped(tiers[l])
      BY <2>2 DEF Forward, Types
    <3>2. QED
      BY <2>2, <3>1 DEF Shaped
  <2>3. QED
    BY <2>1, <2>2
<1>4. Kept(fed)'
  BY <1>3 DEF Kept, Owner
<1>5. ASSUME NEW l \in Layers
      PROVE  Reads(seen'[l], fed')
  <2>1. Donor[l] \in Layers /\ Owner(Donor[l]) /\ AttentionAssumption
    BY DEF TieredAssumption, Owner
  <2>2. Holds(tiers'[Donor[l]], fed')
    BY <1>3, <2>1
  <2>3. Len(fed') \in Nat \ {0}
    BY <1>1, <1>2
  <2>4. Reads(Attention(kernel, tiers'[Donor[l]]), fed')
    BY <1>2, <2>1, <2>2, <2>3, AttentionReadsTokens
  <2>5. QED
    BY <2>4 DEF Forward
<1>6. ContextOf(seen') = fed'
  BY <1>1, <1>5, ContextIs
<1>7. QED
  BY <1>1, <1>3, <1>4, <1>6

-----------------------------------------------------------------------------
(* The migration                                                            *)

\* The migration of a prompt that fits keeps the shape of a layer's tiers, and
\* puts what its int8 cache holds into them, the warm tier first.
LEMMA MigratedHolds ==
  ASSUME Types, NEW l \in Layers, MigrateFits(l)
  PROVE  /\ Shaped(Migrated(l))
         /\ Cached(q8[l], fed) => Holds(Migrated(l), fed) /\ WarmFull(Migrated(l))
<1> DEFINE n_cold == Less(pos, config.warm)
           n_warm == pos - n_cold
           t == tiers[l]
           u == Migrated(l)
<1>1. config.warm \in Nat /\ config.cold \in Nat /\ pos \in Nat /\ pos = Len(fed)
      /\ pos <= config.warm + config.cold
  BY DEF Types, MigrateFits
<1>2. n_cold \in Nat /\ n_warm \in Nat /\ n_cold + n_warm = pos /\ n_cold <= config.cold
      /\ n_warm <= config.warm /\ (n_cold > 0 => n_warm = config.warm)
  <2>1. CASE pos > config.warm
    <3>1. n_cold = pos - config.warm
      BY <2>1 DEF Less
    <3>2. n_warm = config.warm
      BY <1>1, <3>1
    <3> HIDE DEF n_cold, n_warm
    <3>3. QED
      BY <1>1, <2>1, <3>1, <3>2
  <2>2. CASE ~(pos > config.warm)
    <3>1. n_cold = 0
      BY <2>2 DEF Less
    <3>2. QED
      BY <1>1, <2>2, <3>1
  <2>3. QED
    BY <2>1, <2>2
<1>3. /\ DOMAIN u = {"warm", "cold", "wc", "cc"} /\ u.wc = n_warm /\ u.cc = n_cold
      /\ \A s \in Sides :
           u.warm[s] = [i \in DOMAIN t.warm[s] |->
                          IF i < n_warm THEN q8[l].kv[s][n_cold + i] ELSE t.warm[s][i]]
      /\ \A s \in Sides : u.cold[s] = Promote(s, t.cold[s], 0, q8[l].kv[s], n_cold)
  BY DEF Migrated
<1> HIDE DEF n_cold, n_warm, u
<1>4. ASSUME NEW s \in Sides
      PROVE  /\ DOMAIN u.warm[s] = 0 .. config.warm - 1 /\ DOMAIN u.cold[s] = 0 .. config.cold - 1
             /\ \A i \in 0 .. config.warm - 1 : i < n_warm => u.warm[s][i] = q8[l].kv[s][n_cold + i]
             /\ \A i \in 0 .. config.cold - 1 : i \in 0 .. 0 + n_cold - 1 =>
                  u.cold[s][i] = Rotate([q8[l].kv[s][i - 0] EXCEPT !.code = "turbo3"], s)
  <2>1. DOMAIN t.warm[s] = 0 .. config.warm - 1 /\ DOMAIN t.cold[s] = 0 .. config.cold - 1
    BY DEF Types, Shaped
  <2>2. u.cold[s] = [i \in 0 .. config.cold - 1 |->
                       IF i \in 0 .. 0 + n_cold - 1
                       THEN Rotate([q8[l].kv[s][i - 0] EXCEPT !.code = "turbo3"], s)
                       ELSE t.cold[s][i]]
    BY <1>3, <2>1, Zenon DEF Promote
  <2>3. QED
    BY <1>3, <2>1, <2>2
<1>5. Shaped(u)
  <2>1. u.wc \in 0 .. config.warm /\ u.cc \in 0 .. config.cold
    BY <1>1, <1>2, <1>3
  <2>2. QED
    BY <1>3, <1>4, <2>1 DEF Shaped
<1>6. ASSUME Cached(q8[l], fed)
      PROVE  Holds(u, fed) /\ WarmFull(u)
  <2>1. ASSUME NEW s \in Sides, NEW i \in 0 .. u.wc - 1
        PROVE  u.warm[s][i] = Stored(fed, u.cc, s, u.cc + i)
    <3>1. i \in 0 .. config.warm - 1 /\ i < n_warm /\ n_cold + i \in 0 .. Len(fed) - 1
      BY <1>1, <1>2, <1>3
    <3>2. u.warm[s][i] = q8[l].kv[s][n_cold + i]
      BY <1>4, <3>1
    <3>3. q8[l].kv[s][n_cold + i] = Entry(fed[n_cold + i + 1], s, "q8")
      BY <1>6, <3>1 DEF Cached
    <3>4. ~(n_cold + i < n_cold)
      BY <1>2
    <3>5. QED
      BY <1>3, <3>2, <3>3, <3>4 DEF Stored, Entry
  <2>2. ASSUME NEW s \in Sides, NEW i \in 0 .. u.cc - 1
        PROVE  u.cold[s][i] = Stored(fed, u.cc, s, i)
    <3>1. i \in 0 .. config.cold - 1 /\ i \in 0 .. 0 + n_cold - 1 /\ i \in 0 .. Len(fed) - 1
          /\ i - 0 = i /\ i < n_cold /\ i \in Nat
      BY <1>1, <1>2, <1>3
    <3>2. u.cold[s][i] = Rotate([q8[l].kv[s][i] EXCEPT !.code = "turbo3"], s)
      BY <1>4, <3>1
    <3>3. q8[l].kv[s][i] = Entry(fed[i + 1], s, "q8")
      BY <1>6, <3>1 DEF Cached
    <3>4. Entry(fed[i + 1], s, "q8") = Stored(fed, 0, s, i)
      BY <3>1 DEF Entry, Stored
    <3>5. Rotate([Stored(fed, 0, s, i) EXCEPT !.code = "turbo3"], s) = Stored(fed, n_cold, s, i)
      BY <1>2, <3>1, StoredDemoted
    <3>6. QED
      BY <1>3, <3>2, <3>3, <3>4, <3>5
  <2>3. u.wc \in Nat /\ u.cc \in Nat /\ u.cc + u.wc = Len(fed)
    BY <1>1, <1>2, <1>3
  <2>4. Holds(u, fed)
    BY <2>1, <2>2, <2>3 DEF Holds
  <2>5. QED
    BY <1>2, <1>3, <2>4 DEF WarmFull
<1>7. QED
  BY <1>5, <1>6 DEF u

-----------------------------------------------------------------------------
(* The invariant holds at first and every step keeps it                     *)

\* Every setting of the two tier variables gives two capacities.
LEMMA ConfigIs ==
  ASSUME TieredAssumption, NEW max_seq \in Nat, NEW w \in WarmEnv, NEW c \in ColdEnv
  PROVE  Config(max_seq, w, c).warm \in Nat /\ Config(max_seq, w, c).cold \in Nat
  BY DEF TieredAssumption, Config, Smaller, Less

\* The first state: nothing was fed, and empty tiers hold it.
LEMMA InitHolds ==
  ASSUME TieredAssumption, Init
  PROVE  IInv
<1>1. prompt \in Seq(Token) /\ Len(prompt) \in 1 .. MaxPrompt /\ MaxPrompt \in Nat
  <2>1. PICK n \in 1 .. MaxPrompt : prompt \in [1 .. n -> Token]
    BY DEF Init
  <2>2. MaxPrompt \in Nat
    BY DEF TieredAssumption
  <2>3. prompt \in Seq(Token) /\ Len(prompt) = n
    BY <2>1, <2>2
  <2>4. QED
    BY <2>2, <2>3
<1>2. steps \in Nat /\ Slack \in Nat /\ MaxSteps \in Nat
  BY DEF Init, TieredAssumption
<1>3. Max_seq \in Nat
  BY <1>1, <1>2 DEF Max_seq
<1>4. config.warm \in Nat /\ config.cold \in Nat
  BY <1>3, ConfigIs DEF Init
<1>5. ASSUME NEW l \in Layers
      PROVE  Shaped(tiers[l]) /\ Holds(tiers[l], <<>>) /\ WarmFull(tiers[l]) /\ q8[l].len = 0
  <2>1. tiers[l] = EmptyTiers(config) /\ q8[l].len = 0
    BY DEF Init
  <2>2. Shaped(EmptyTiers(config))
    BY <1>4 DEF Shaped, EmptyTiers
  <2>3. Holds(EmptyTiers(config), <<>>)
    BY DEF Holds, EmptyTiers
  <2>4. WarmFull(EmptyTiers(config))
    BY DEF WarmFull, EmptyTiers
  <2>5. QED
    BY <2>1, <2>2, <2>3, <2>4
<1>6. Types
  BY <1>1, <1>2, <1>3, <1>4, <1>5 DEF Init, Types, Phases
<1>7. TiersKept
  BY <1>5 DEF TiersKept, Kept, Init
<1>8. Prefilling /\ Decoding /\ EnoughRoom
  BY <1>1, <1>5 DEF Prefilling, Decoding, EnoughRoom, Init
<1>9. QED
  BY <1>6, <1>7, <1>8 DEF IInv

\* What a step leaves alone, for the parts of the invariant about it.
LEMMA RequestStays ==
  ASSUME Types, UNCHANGED Request
  PROVE  /\ Max_seq' = Max_seq
         /\ prompt' \in Seq(Token) /\ Len(prompt') \in 1 .. MaxPrompt /\ steps' \in 0 .. MaxSteps
         /\ sampling' \in BOOLEAN /\ seq_prefill' \in BOOLEAN /\ kernel' \in Kernels
         /\ config'.warm \in Nat /\ config'.cold \in Nat
         /\ UNCHANGED <<prompt, steps, sampling, seq_prefill, kernel, config>>
  BY DEF Types, Request, Max_seq

\* The batched prefill fills the int8 caches with the prompt.
LEMMA PrefillBatchedKeeps ==
  ASSUME TieredAssumption, IInv, PrefillBatched
  PROVE  IInv'
<1>1. Types /\ UNCHANGED Request
  BY DEF IInv, PrefillBatched
<1>2. Max_seq' = Max_seq /\ Len(prompt) \in Nat /\ Len(prompt) <= Max_seq /\ Max_seq \in Nat
  <2>1. Len(prompt) \in Nat /\ steps \in Nat /\ Slack \in Nat
    BY <1>1 DEF Types, TieredAssumption
  <2>2. QED
    BY <1>1, <2>1, RequestStays DEF Max_seq
<1>3. ASSUME NEW l \in Layers
      PROVE  /\ q8'[l].len = Len(prompt) /\ q8'[l].len \in 0 .. Max_seq'
             /\ Owner(l) => Cached(q8'[l], prompt)
             /\ Shaped(tiers[l])'
  <2>1. q8'[l] = [len |-> Len(prompt),
                  kv |-> [s \in Sides |-> [i \in 0 .. Max_seq - 1 |->
                            IF Owner(l) /\ i < Len(prompt)
                            THEN Entry(prompt[i + 1], s, "q8") ELSE q8[l].kv[s][i]]]]
    BY DEF PrefillBatched
  <2>2. q8'[l].len = Len(prompt) /\ q8'[l].len \in 0 .. Max_seq'
    BY <1>2, <2>1
  <2>3. ASSUME Owner(l), NEW s \in Sides, NEW i \in 0 .. Len(prompt) - 1
        PROVE  q8'[l].kv[s][i] = Entry(prompt[i + 1], s, "q8")
    <3>1. i \in 0 .. Max_seq - 1 /\ i < Len(prompt)
      BY <1>2
    <3>2. QED
      BY <2>1, <2>3, <3>1
  <2>4. Shaped(tiers[l])'
    BY <1>1, RequestStays DEF Types, Shaped, PrefillBatched
  <2>5. QED
    BY <2>2, <2>3, <2>4 DEF Cached
<1>4. fed' = prompt /\ pos' = Len(prompt) /\ phase' = "migrate" /\ generated' = generated
      /\ phase = "prefill" /\ ~seq_prefill /\ seen' = [l \in Layers |-> Fresh(prompt)]
  BY DEF PrefillBatched
<1>5. Types'
  BY <1>1, <1>3, <1>4, RequestStays DEF Types, Phases
<1>6. TiersKept' /\ Decoding' /\ EnoughRoom'
  BY <1>1, <1>4, RequestStays DEF TiersKept, Decoding, EnoughRoom
<1>7. Prefilling'
  BY <1>1, <1>3, <1>4, RequestStays DEF Prefilling, IInv
<1>8. QED
  BY <1>5, <1>6, <1>7 DEF IInv

\* A token of a sequential prefill.
LEMMA PrefillSequentialKeeps ==
  ASSUME TieredAssumption, IInv, PrefillSequential
  PROVE  IInv'
<1>1. Types /\ UNCHANGED Request /\ Kept(fed) /\ Prefilling /\ phase = "prefill" /\ seq_prefill
  BY DEF IInv, PrefillSequential, TiersKept
<1>2. Len(fed) \in Nat /\ Len(fed) < Len(prompt) /\ Len(prompt) \in Nat /\ pos = Len(fed)
  BY <1>1 DEF Types, Prefilling
<1>3. prompt[pos + 1] \in Token
  BY <1>1, <1>2 DEF Types
<1>4. /\ \A l \in Layers : Shaped(tiers[l])'
      /\ fed' \in Seq(Token) /\ Len(fed') = Len(fed) + 1 /\ pos' = Len(fed') /\ Kept(fed)'
  BY <1>1, <1>3, ForwardKeeps, RequestStays DEF PrefillSequential
<1>5. phase' = (IF pos' = Len(prompt) THEN "migrate" ELSE "prefill")
      /\ generated' = generated /\ q8' = q8
  BY DEF PrefillSequential
<1>6. Types'
  BY <1>1, <1>4, <1>5, RequestStays DEF Types, Phases
<1>7. TiersKept'
  BY <1>4 DEF TiersKept
<1>8. Prefilling'
  BY <1>1, <1>2, <1>4, <1>5, RequestStays DEF Prefilling
<1>9. Decoding' /\ EnoughRoom'
  BY <1>1, <1>5, RequestStays DEF Decoding, EnoughRoom
<1>10. QED
  BY <1>6, <1>7, <1>8, <1>9 DEF IInv

\* The migration hands the tokens over to the tiers.
LEMMA MigrateKeeps ==
  ASSUME TieredAssumption, IInv, Migrate
  PROVE  IInv'
<1>1. Types /\ UNCHANGED Request /\ Prefilling /\ phase = "migrate"
      /\ UNCHANGED <<q8, pos, seen, generated, fed>>
  BY DEF IInv, Migrate
<1>2. ~seq_prefill
  <2>1. SUFFICES ASSUME seq_prefill PROVE FALSE
    OBVIOUS
  <2>2. PICK l \in Layers : TRUE
    BY DEF TieredAssumption
  <2>3. q8[l].len = 0 /\ q8[l].len = pos
    BY <1>1, <2>1 DEF Prefilling, Migrate, MigrateFits
  <2>4. pos = Len(prompt) /\ Len(prompt) \in Nat \ {0}
    BY <1>1 DEF Prefilling, Types
  <2>5. QED
    BY <2>3, <2>4
<1>3. fed = prompt /\ seen = [l \in Layers |-> Fresh(prompt)] /\ generated = <<>>
      /\ \A l \in Layers : Owner(l) => Cached(q8[l], fed)
  BY <1>1, <1>2 DEF Prefilling
<1>4. ASSUME NEW l \in Layers
      PROVE  /\ Shaped(tiers[l])'
             /\ Owner(l) => Holds(tiers'[l], fed') /\ WarmFull(tiers[l])'
  <2>1. tiers'[l] = Migrated(l) /\ MigrateFits(l) /\ config' = config /\ fed' = fed
    BY <1>1, RequestStays DEF Migrate
  <2>2. Shaped(Migrated(l)) /\ (Owner(l) => Holds(Migrated(l), fed) /\ WarmFull(Migrated(l)))
    BY <1>1, <1>3, <2>1, MigratedHolds
  <2>3. QED
    BY <2>1, <2>2 DEF Shaped, WarmFull
<1>5. phase' = IF steps = 0 THEN "probe" ELSE "decode"
  BY DEF Migrate
<1>6. Types'
  BY <1>1, <1>4, <1>5, RequestStays DEF Types, Phases
<1>7. TiersKept'
  BY <1>4 DEF TiersKept, Kept, Owner
<1>8. Prefilling'
  BY <1>1, <1>2, <1>5, RequestStays DEF Prefilling
<1>9. ContextOf(seen) = fed
  <2>1. prompt \in Seq(Token)
    BY <1>1 DEF Types
  <2>2. \A l \in Layers : Reads(seen[l], prompt)
    BY <1>3, <2>1, FreshReads
  <2>3. QED
    BY <1>3, <2>1, <2>2, ContextIs
<1>10. fed = prompt \o generated /\ Len(generated) = 0 /\ ~EosSeen
  BY <1>1, <1>3 DEF Types, EosSeen
<1>11. Decoding'
  <2>1. steps \in Nat /\ Len(prompt) \in Nat
    BY <1>1 DEF Types
  <2>2. CASE steps = 0
    BY <1>1, <1>3, <1>5, <1>10, <2>1, <2>2, RequestStays DEF Decoding
  <2>3. CASE steps # 0
    <3>1. phase' = "decode" /\ ~EosSeen'
      BY <1>1, <1>5, <1>10, <2>3 DEF EosSeen
    <3>2. ContextOf(seen)' = fed'
      BY <1>1, <1>9
    <3>3. QED
      BY <1>1, <1>10, <2>1, <2>3, <3>1, <3>2, RequestStays DEF Decoding
  <2>4. QED
    BY <2>2, <2>3
<1>12. EnoughRoom'
  BY <1>5 DEF EnoughRoom
<1>13. QED
  BY <1>6, <1>7, <1>8, <1>11, <1>12 DEF IInv

\* A prompt that does not fit: the tiers are smaller than it.
LEMMA MigrateFailsKeeps ==
  ASSUME TieredAssumption, IInv, MigrateFails
  PROVE  IInv'
<1>1. Types /\ UNCHANGED Request /\ Prefilling /\ phase = "migrate" /\ phase' = "error"
      /\ UNCHANGED <<q8, tiers, pos, seen, generated, fed>>
  BY DEF IInv, MigrateFails
<1>2. Types'
  BY <1>1, RequestStays DEF Types, Phases, Shaped
<1>3. ASSUME config.warm + config.cold >= Len(prompt), ~seq_prefill
      PROVE  FALSE
  <2>1. PICK l \in Layers : ~MigrateFits(l)
    BY DEF MigrateFails
  <2>2. q8[l].len = pos /\ pos = Len(prompt)
    BY <1>1, <1>3 DEF Prefilling, Types
  <2>3. QED
    BY <1>3, <2>1, <2>2 DEF MigrateFits
<1>4. EnoughRoom'
  BY <1>1, <1>3, RequestStays DEF EnoughRoom
<1>5. TiersKept'
  BY <1>1, RequestStays DEF TiersKept, Kept, WarmFull, IInv
<1>6. Prefilling' /\ Decoding'
  BY <1>1, RequestStays DEF Prefilling, Decoding
<1>7. QED
  BY <1>2, <1>4, <1>5, <1>6 DEF IInv

\* Whatever is picked in the decode loop is a token, picked on the logits of
\* exactly the prompt and the output.
LEMMA PicksAreTokens ==
  ASSUME TieredAssumption, IInv, phase = "decode", NEW t \in Picks
  PROVE  t \in Token /\ t \in (IF sampling THEN Support(prompt \o generated)
                               ELSE {Argmax(prompt \o generated)})
<1>1. ContextOf(seen) = prompt \o generated
  BY DEF IInv, Decoding
<1>2. PICK n \in Nat : n = Len(prompt)
  BY DEF IInv, Types
<1>3. PICK g \in Nat : g = Len(generated)
  BY DEF IInv, Types
<1>4. n \in 1 .. MaxPrompt /\ g < steps /\ steps \in 0 .. MaxSteps
  BY <1>2, <1>3 DEF IInv, Types, Decoding
<1>5. MaxPrompt \in Nat /\ MaxSteps \in Nat
  BY DEF TieredAssumption
<1>6. n + g \in 1 .. MaxPrompt + MaxSteps
  BY <1>4, <1>5
<1>7. prompt \o generated \in [1 .. n + g -> Token]
  <2> DEFINE ctx == prompt \o generated
  <2>1. prompt \in Seq(Token) /\ generated \in Seq(Token)
    BY DEF IInv, Types
  <2>2. ctx \in Seq(Token) /\ Len(ctx) = n + g
    BY <1>2, <1>3, <2>1
  <2> HIDE DEF ctx
  <2>3. ctx \in [1 .. Len(ctx) -> Token]
    BY <2>2, LenProperties
  <2>4. QED
    BY <2>2, <2>3 DEF ctx
<1>8. prompt \o generated \in Contexts
  BY <1>6, <1>7 DEF Contexts
<1>9. Argmax(prompt \o generated) \in Token /\ Support(prompt \o generated) \subseteq Token
  BY <1>8, ModelAssumption
<1>10. QED
  BY <1>1, <1>9 DEF Picks

\* Tiers with room for one token more let every layer write it.
LEMMA RoomToWrite ==
  ASSUME Types, Kept(fed), config.warm > 0, config.warm + config.cold >= Len(fed) + 1
  PROVE  ForwardFits
<1>1. PICK n \in Nat : n = Len(fed)
  BY DEF Types
<1>2. ASSUME NEW l \in Layers, Owner(l), tiers[l].wc >= config.warm
      PROVE  DemoteFits(tiers[l], 1)
  <2>1. tiers[l].wc \in Nat /\ tiers[l].cc \in Nat /\ tiers[l].cc + tiers[l].wc = n
        /\ config.warm \in Nat /\ config.cold \in Nat
    BY <1>1, <1>2 DEF Kept, Holds, Types
  <2>2. config.warm + config.cold >= n + 1
    BY <1>1
  <2>3. 1 <= tiers[l].wc /\ tiers[l].cc + 1 <= config.cold
    BY <1>2, <2>1, <2>2, SMTT(30)
  <2>4. QED
    BY <2>3 DEF DemoteFits
<1>3. QED
  BY <1>2 DEF ForwardFits, WriteFits

\* What a decode iteration starts from.
LEMMA DecodeStart ==
  ASSUME TieredAssumption, IInv, phase = "decode"
  PROVE  /\ Types /\ Kept(fed) /\ ~seq_prefill /\ fed = prompt \o generated
         /\ Len(fed) = Len(prompt) + Len(generated) /\ Len(generated) < steps /\ ~EosSeen
         /\ generated \in Seq(Token) /\ prompt \in Seq(Token) /\ steps \in Nat
  BY DEF IInv, Types, TiersKept, Prefilling, Decoding

\* Appending a token ends the text only if it is the end-of-sequence token.
LEMMA AppendEos ==
  ASSUME NEW g \in Seq(Token), NEW t \in Token
  PROVE  /\ Append(g, t) \in Seq(Token) /\ Len(Append(g, t)) = Len(g) + 1
         /\ (\E i \in 1 .. Len(Append(g, t)) : Append(g, t)[i] = Eos)
              <=> t = Eos \/ \E i \in 1 .. Len(g) : g[i] = Eos
<1> DEFINE h == Append(g, t)
<1>1. h \in Seq(Token) /\ Len(h) = Len(g) + 1 /\ h[Len(g) + 1] = t
      /\ \A i \in 1 .. Len(g) : h[i] = g[i]
  OBVIOUS
<1> HIDE DEF h
<1>2. Len(g) \in Nat
  OBVIOUS
<1>3. QED
  BY <1>1, <1>2 DEF h

\* An iteration of the decode loop.
LEMMA DecodeTokenKeeps ==
  ASSUME TieredAssumption, IInv, DecodeToken
  PROVE  IInv'
<1>1. UNCHANGED Request /\ phase = "decode" /\ q8' = q8 /\ IInv /\ Types
  BY DEF DecodeToken, IInv
<1>2. /\ Kept(fed) /\ ~seq_prefill /\ fed = prompt \o generated
      /\ Len(fed) = Len(prompt) + Len(generated) /\ Len(generated) < steps /\ ~EosSeen
      /\ generated \in Seq(Token) /\ prompt \in Seq(Token) /\ steps \in Nat
  BY <1>1, DecodeStart
<1>3. PICK t \in Picks :
        /\ generated' = Append(generated, t)
        /\ \/ /\ t = Eos
              /\ phase' = "probe"
              /\ UNCHANGED <<tiers, seen, pos, fed>>
           \/ /\ t # Eos /\ ForwardFits
              /\ Forward(t)
              /\ phase' = IF Len(generated') = steps THEN "probe" ELSE "decode"
           \/ /\ t # Eos /\ ~ForwardFits
              /\ phase' = "panic"
              /\ UNCHANGED <<tiers, seen, pos, fed>>
  BY DEF DecodeToken
<1>4. t \in Token
  BY <1>1, <1>3, PicksAreTokens
<1>5. generated' \in Seq(Token) /\ Len(generated') = Len(generated) + 1
      /\ (EosSeen' <=> t = Eos)
  BY <1>2, <1>3, <1>4, AppendEos DEF EosSeen
<1>6. PICK g \in Nat : g = Len(generated)
  BY <1>2
<1>7. PICK n \in Nat : n = Len(prompt)
  BY <1>2
<1>8. Len(fed) = n + g /\ g < steps /\ Len(generated') = g + 1
  BY <1>2, <1>5, <1>6, <1>7
<1>9. Len(generated') <= steps'
  BY <1>1, <1>2, <1>8, RequestStays
<1>10. CASE t = Eos
  <2>1. phase' = "probe" /\ UNCHANGED <<tiers, seen, pos, fed>> /\ EosSeen'
    BY <1>3, <1>5, <1>10
  <2>2. Types'
    BY <1>1, <1>5, <1>9, <2>1, RequestStays DEF Types, Phases, Shaped
  <2>3. TiersKept'
    BY <1>1, <1>2, <2>1, RequestStays DEF TiersKept, Kept, WarmFull
  <2>4. Prefilling'
    BY <1>1, <1>2, <2>1, RequestStays DEF Prefilling
  <2>5. Len(fed)' <= Len(prompt)' + steps'
    BY <1>1, <1>2, <1>7, <1>8, <2>1, RequestStays
  <2>6. Decoding' /\ EnoughRoom'
    BY <2>1, <2>5 DEF Decoding, EnoughRoom
  <2>7. QED
    BY <2>2, <2>3, <2>4, <2>6 DEF IInv
<1>11. CASE t # Eos /\ ForwardFits
  <2>1. Forward(t) /\ phase' = (IF Len(generated') = steps THEN "probe" ELSE "decode") /\ ~EosSeen'
    BY <1>3, <1>5, <1>11
  <2>2. /\ \A l \in Layers : Shaped(tiers[l])'
        /\ fed' = Append(fed, t) /\ fed' \in Seq(Token) /\ Len(fed') = Len(fed) + 1
        /\ pos' = Len(fed') /\ Kept(fed)' /\ ContextOf(seen') = fed'
    BY <1>1, <1>2, <1>4, <1>11, <2>1, ForwardKeeps, RequestStays
  <2>3. Types'
    BY <1>1, <1>5, <1>9, <2>1, <2>2, RequestStays DEF Types, Phases
  <2>4. TiersKept'
    BY <2>2 DEF TiersKept
  <2>5. Prefilling'
    BY <1>1, <1>2, <2>1, RequestStays DEF Prefilling
  <2>6. fed' = prompt' \o generated'
    <3>1. Append(prompt \o generated, t) = prompt \o Append(generated, t)
      <4>1. prompt \in Seq(Token) /\ generated \in Seq(Token)
        BY <1>2
      <4>2. QED
        BY <1>4, <4>1, SMTT(30)
    <3>2. QED
      BY <1>1, <1>2, <1>3, <2>2, <3>1, RequestStays
  <2>7. Len(fed') <= n + steps
    BY <1>2, <1>8, <2>2
  <2>8. Decoding'
    <3>1. Len(generated') = steps \/ Len(generated') < steps
      BY <1>2, <1>8
    <3>2. steps' = steps /\ Len(prompt') = n
      BY <1>1, <1>7, RequestStays
    <3>3. CASE Len(generated') = steps
      <4>1. phase' = "probe"
        BY <2>1, <3>3
      <4>2. Len(generated') >= steps'
        BY <1>2, <3>2, <3>3
      <4>3. QED
        BY <2>7, <3>2, <4>1, <4>2 DEF Decoding
    <3>4. CASE Len(generated') < steps
      <4>1. phase' = "decode"
        BY <1>2, <1>5, <1>6, <2>1, <3>4
      <4>2. QED
        BY <2>1, <2>2, <2>6, <3>2, <3>4, <4>1 DEF Decoding
    <3>5. QED
      BY <3>1, <3>3, <3>4
  <2>9. EnoughRoom'
    BY <2>1 DEF EnoughRoom
  <2>10. QED
    BY <2>3, <2>4, <2>5, <2>8, <2>9 DEF IInv
<1>12. CASE t # Eos /\ ~ForwardFits
  <2>1. phase' = "panic" /\ UNCHANGED <<tiers, seen, pos, fed>>
    BY <1>3, <1>12
  <2>2. Types'
    BY <1>1, <1>5, <1>9, <2>1, RequestStays DEF Types, Phases, Shaped
  <2>3. TiersKept'
    BY <1>1, <1>2, <2>1, RequestStays DEF TiersKept, Kept, WarmFull
  <2>4. Prefilling' /\ Decoding'
    BY <1>1, <1>2, <2>1, RequestStays DEF Prefilling, Decoding
  <2>5. ~(config.warm > 0 /\ config.warm + config.cold >= Len(prompt) + steps + 1)
    <3>1. SUFFICES ASSUME config.warm > 0, config.warm + config.cold >= n + steps + 1
                   PROVE  FALSE
      BY <1>7
    <3>2. config.warm \in Nat /\ config.cold \in Nat
      BY <1>1 DEF Types
    <3>3. config.warm + config.cold >= Len(fed) + 1
      BY <1>2, <1>8, <3>1, <3>2
    <3>4. QED
      BY <1>1, <1>2, <1>12, <3>1, <3>3, RoomToWrite
  <2>6. EnoughRoom'
    BY <1>1, <2>1, <2>5, RequestStays DEF EnoughRoom
  <2>7. QED
    BY <2>2, <2>3, <2>4, <2>6 DEF IInv
<1>13. QED
  BY <1>10, <1>11, <1>12

\* The traced forward at the end.
LEMMA ProbeKeeps ==
  ASSUME TieredAssumption, IInv, Probe
  PROVE  IInv'
<1> DEFINE all == prompt \o generated
<1>1. UNCHANGED Request /\ phase = "probe" /\ phase' = "done" /\ q8' = q8
      /\ generated' = generated /\ Types /\ ForwardFits /\ Forward(all[Len(all)])
  BY DEF Probe, IInv
<1>2. Kept(fed) /\ ~seq_prefill
  BY <1>1 DEF IInv, TiersKept, Prefilling
<1>3. all[Len(all)] \in Token
  <2>1. prompt \in Seq(Token) /\ generated \in Seq(Token) /\ Len(prompt) >= 1
    BY <1>1 DEF Types
  <2>2. all \in Seq(Token) /\ Len(all) >= 1
    BY <2>1
  <2> HIDE DEF all
  <2>3. QED
    BY <2>2
<1> HIDE DEF all
<1>4. /\ \A l \in Layers : Shaped(tiers[l])'
      /\ fed' \in Seq(Token) /\ pos' = Len(fed') /\ Kept(fed)'
  BY <1>1, <1>2, <1>3, ForwardKeeps, RequestStays
<1>5. Types'
  BY <1>1, <1>4, RequestStays DEF Types, Phases
<1>6. TiersKept' /\ EnoughRoom'
  BY <1>1, <1>4 DEF TiersKept, EnoughRoom
<1>7. Prefilling'
  BY <1>1, <1>2, RequestStays DEF Prefilling
<1>8. Decoding'
  BY <1>1, RequestStays DEF Decoding, IInv, EosSeen
<1>9. QED
  BY <1>5, <1>6, <1>7, <1>8 DEF IInv

\* A write without room, outside the decode loop.
LEMMA OverflowPanicKeeps ==
  ASSUME TieredAssumption, IInv, OverflowPanic
  PROVE  IInv'
<1>1. /\ UNCHANGED Request /\ Types /\ ~ForwardFits
      /\ UNCHANGED <<q8, tiers, pos, seen, generated, fed>>
      /\ phase = "probe" \/ (phase = "prefill" /\ seq_prefill)
      /\ phase' = (IF phase = "probe" THEN "late_panic" ELSE "panic")
  BY DEF OverflowPanic, IInv
<1>2. Kept(fed) /\ (seq_prefill => phase = "prefill")
  BY <1>1 DEF IInv, TiersKept, Prefilling
<1>3. Types'
  BY <1>1, RequestStays DEF Types, Phases, Shaped
<1>4. TiersKept'
  BY <1>1, <1>2, RequestStays DEF TiersKept, Kept, WarmFull
<1>5. Prefilling'
  BY <1>1, <1>2, RequestStays DEF Prefilling, IInv
<1>6. Decoding'
  BY <1>1, RequestStays DEF Decoding, IInv, EosSeen
<1>7. PICK n \in Nat : n = Len(prompt)
  BY <1>1 DEF Types
<1>8. PICK f \in Nat : f = Len(fed)
  BY <1>1 DEF Types
<1>9. f <= n + steps /\ steps \in Nat
  BY <1>1, <1>7, <1>8 DEF IInv, Prefilling, Decoding, Types
<1>10. ~(config.warm > 0 /\ config.warm + config.cold >= Len(prompt) + steps + 1)
  <2>1. SUFFICES ASSUME config.warm > 0, config.warm + config.cold >= n + steps + 1
                 PROVE  FALSE
    BY <1>7
  <2>2. config.warm \in Nat /\ config.cold \in Nat
    BY <1>1 DEF Types
  <2>3. config.warm + config.cold >= Len(fed) + 1
    BY <1>8, <1>9, <2>1, <2>2
  <2>4. QED
    BY <1>1, <1>2, <2>1, <2>3, RoomToWrite
<1>11. EnoughRoom'
  BY <1>1, <1>10, RequestStays DEF EnoughRoom
<1>12. QED
  BY <1>3, <1>4, <1>5, <1>6, <1>11 DEF IInv

\* Every step keeps the invariant.
LEMMA StepKeeps ==
  ASSUME TieredAssumption, IInv, [Next]_vars
  PROVE  IInv'
<1>1. CASE UNCHANGED vars
  <2>1. Types' /\ TiersKept'
    BY <1>1 DEF vars, IInv, Types, TiersKept, Kept, WarmFull, Shaped, Max_seq
  <2>2. Prefilling' /\ Decoding' /\ EnoughRoom'
    BY <1>1 DEF vars, IInv, Prefilling, Decoding, EnoughRoom, EosSeen
  <2>3. QED
    BY <2>1, <2>2 DEF IInv
<1>2. CASE Next
  BY <1>1, <1>2, PrefillBatchedKeeps, PrefillSequentialKeeps, MigrateKeeps, MigrateFailsKeeps,
     DecodeTokenKeeps, ProbeKeeps, OverflowPanicKeeps DEF Next, Ended
<1>3. QED
  BY <1>1, <1>2

\* The invariant always holds.
LEMMA Invariance == Spec => []IInv
<1>1. Init => IInv
  BY TieredAssumption, InitHolds
<1>2. IInv /\ [Next]_vars => IInv'
  BY TieredAssumption, StepKeeps
<1>3. QED
  BY <1>1, <1>2, PTL DEF Spec

-----------------------------------------------------------------------------
(* The theorems                                                             *)

\* The counts stay inside the capacities the buffers were allocated with
\* (kv_superquant.rs: new, write_step, demote_warm_to_cold, migrate).
THEOREM TypeCorrect == Spec => []TypeOK
<1>1. IInv => TypeOK
  BY DEF IInv, Types, TypeOK, Shaped
<1>2. QED
  BY <1>1, Invariance, PTL

\* While decoding, the tiers of every owner hold each token fed once, in order,
\* on both sides, coded again at most once.
THEOREM TiersCorrect == Spec => []TiersHoldContext
<1>1. IInv => TiersHoldContext
  <2>1. SUFFICES ASSUME IInv, Serving, NEW l \in Layers, Owner(l)
                 PROVE  Entries(tiers[l]) = Tiered(fed, tiers[l].cc)
    BY DEF TiersHoldContext
  <2> DEFINE t == tiers[l]
  <2>2. Holds(t, fed) /\ fed \in Seq(Token)
    BY <2>1 DEF IInv, Types, TiersKept, Kept, Serving
  <2>3. PICK n \in Nat : n = Len(fed)
    BY <2>2
  <2>4. t.cc \in Nat /\ t.cc + t.wc = n
    BY <2>2, <2>3 DEF Holds
  <2> HIDE DEF t
  <2>5. ASSUME NEW i \in 1 .. n
        PROVE  [K |-> Key(t, i - 1), V |-> Value(t, i - 1)]
                 = [s \in Sides |-> IF i <= t.cc THEN Rotate(Entry(fed[i], s, "turbo3"), s)
                                    ELSE Entry(fed[i], s, "q8")]
    <3>1. PICK j \in 0 .. Len(fed) - 1 : j = i - 1
      BY <2>3
    <3>2. Key(t, j) = Stored(fed, t.cc, "K", j) /\ Value(t, j) = Stored(fed, t.cc, "V", j)
      BY <2>2, <2>3, KeyAndValue
    <3>3. j + 1 = i /\ (j < t.cc <=> i <= t.cc)
      BY <2>4, <3>1
    <3>4. \A s \in Sides :
            Stored(fed, t.cc, s, j) = IF i <= t.cc THEN Rotate(Entry(fed[i], s, "turbo3"), s)
                                      ELSE Entry(fed[i], s, "q8")
      BY <3>3 DEF Stored, Rotate, Entry
    <3>5. QED
      BY <3>1, <3>2, <3>4 DEF Sides
  <2>6. Entries(t) = [i \in 1 .. n |-> [K |-> Key(t, i - 1), V |-> Value(t, i - 1)]]
    BY <2>4 DEF Entries
  <2>7. Tiered(fed, t.cc)
          = [i \in 1 .. n |->
               [s \in Sides |-> IF i <= t.cc THEN Rotate(Entry(fed[i], s, "turbo3"), s)
                                ELSE Entry(fed[i], s, "q8")]]
    BY <2>3 DEF Tiered
  <2>8. QED
    BY <2>5, <2>6, <2>7 DEF t
<1>2. QED
  BY <1>1, Invariance, PTL

\* No entry is demoted before the warm tier is full (write_step, migrate).
THEOREM WarmFirstCorrect == Spec => []WarmFirst
<1>1. IInv => WarmFirst
  BY DEF IInv, TiersKept, Kept, WarmFull, WarmFirst, Serving
<1>2. QED
  BY <1>1, Invariance, PTL

\* An assertion fires, or the migration refuses, only when the tiers are
\* smaller than what the run has to hold (demote_warm_to_cold, migrate).
THEOREM RoomCorrect == Spec => []EnoughRoom
<1>1. IInv => EnoughRoom
  BY DEF IInv
<1>2. QED
  BY <1>1, Invariance, PTL

-----------------------------------------------------------------------------
(* The refinement of plain decoding                                         *)

\* The first state is a first state of plain decoding.
LEMMA InitImplements == Init => Plain!Init
<1>1. SUFFICES ASSUME Init PROVE Plain!Init
  OBVIOUS
<1>2. IInv
  BY <1>1, TieredAssumption, InitHolds
<1>3. prompt \in Seq(Token) /\ steps \in Nat /\ sampling \in BOOLEAN
  BY <1>2, TieredAssumption DEF IInv, Types, TieredAssumption
<1>4. QED
  BY <1>1, <1>3 DEF Plain!Init, Init

\* A decode iteration outputs a token that plain decoding may output, and
\* leaves the loop only when the output is complete.
LEMMA DecodeImplements ==
  ASSUME IInv, DecodeToken
  PROVE  Plain!Next
<1>1. phase = "decode" /\ UNCHANGED <<prompt, steps, sampling>>
  BY DEF DecodeToken, Request
<1>2. fed = prompt \o generated /\ Len(generated) < steps /\ ~EosSeen
      /\ generated \in Seq(Token) /\ steps \in Nat
  BY <1>1, TieredAssumption, DecodeStart
<1>3. PICK t \in Picks :
        /\ generated' = Append(generated, t)
        /\ \/ t = Eos /\ phase' = "probe"
           \/ phase' = IF Len(generated') = steps THEN "probe" ELSE "decode"
           \/ phase' = "panic"
  BY DEF DecodeToken
<1>4. t \in Token /\ t \in Plain!Picks(sampling, prompt \o generated)
  BY <1>1, <1>3, TieredAssumption, PicksAreTokens DEF Plain!Picks
<1>5. Eos \notin Plain!Emitted
  <2>1. DOMAIN generated = 1 .. Len(generated)
    BY <1>2
  <2>2. QED
    BY <1>2, <2>1, Zenon DEF Plain!Emitted, EosSeen
<1>6. Plain!Emit
  BY <1>1, <1>2, <1>3, <1>4, <1>5 DEF Plain!Emit
<1>7. CASE phase' \in {"decode", "panic"}
  BY <1>6, <1>7 DEF Plain!Next
<1>8. CASE phase' = "probe"
  <2>1. EosSeen' \/ Len(generated') >= steps'
    <3>1. CASE t = Eos
      BY <1>2, <1>3, <1>4, <3>1, AppendEos DEF EosSeen
    <3>2. CASE Len(generated') = steps
      BY <1>1, <1>2, <3>2
    <3>3. QED
      BY <1>3, <1>8, <3>1, <3>2
  <2>2. Plain!Finished'
    <3>1. generated' \in Seq(Token)
      BY <1>2, <1>3, <1>4, AppendEos
    <3>2. CASE EosSeen'
      BY <3>1, <3>2 DEF Plain!Finished, Plain!Emitted, EosSeen
    <3>3. CASE Len(generated') >= steps'
      BY <3>3 DEF Plain!Finished
    <3>4. QED
      BY <2>1, <3>2, <3>3
  <2>3. QED
    BY <1>1, <1>6, <1>8, <2>2 DEF Plain!Next, Plain!Stop
<1>9. QED
  BY <1>3, <1>7, <1>8

\* Every step is one of plain decoding, or leaves its variables alone.
LEMMA StepImplements == IInv /\ [Next]_vars => [Plain!Next]_(Plain!vars)
<1>1. SUFFICES ASSUME IInv, [Next]_vars
               PROVE  Plain!Next \/ UNCHANGED Plain!vars
  OBVIOUS
<1>2. CASE DecodeToken
  BY <1>1, <1>2, DecodeImplements
<1>3. CASE Migrate /\ steps = 0
  <2>1. /\ UNCHANGED <<prompt, steps, sampling, generated>>
        /\ phase = "migrate" /\ phase' = "probe"
    BY <1>3 DEF Migrate, Request
  <2>2. Plain!Finished'
    <3>1. generated = <<>>
      BY <1>1, <2>1 DEF IInv, Prefilling
    <3>2. Len(generated') >= steps'
      BY <1>3, <2>1, <3>1
    <3>3. QED
      BY <3>2 DEF Plain!Finished
  <2>3. QED
    BY <2>1, <2>2 DEF Plain!Next, Plain!Stop
<1>4. CASE PrefillBatched \/ PrefillSequential \/ MigrateFails \/ (Migrate /\ steps # 0)
           \/ Probe \/ OverflowPanic \/ Ended \/ UNCHANGED vars
  BY <1>4 DEF PrefillBatched, PrefillSequential, MigrateFails, Migrate, Probe, OverflowPanic,
              Ended, vars, Request, Plain!vars
<1>5. QED
  BY <1>1, <1>2, <1>3, <1>4 DEF Next

\* The loop over the tiered cache implements plain decoding: every token is
\* picked on the logits of exactly the prompt and the tokens before it,
\* whichever attention kernel runs and however its work is cut.
THEOREM Implements == Spec => PlainSpec
<1>1. Init => Plain!Init
  BY InitImplements
<1>2. IInv /\ [Next]_vars => [Plain!Next]_(Plain!vars)
  BY StepImplements
<1>3. QED
  BY <1>1, <1>2, Invariance, PTL DEF Spec, PlainSpec, Plain!Spec
=============================================================================
