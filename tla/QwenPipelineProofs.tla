-------------------------- MODULE QwenPipelineProofs -------------------------
(***************************************************************************)
(* Proofs about a Qwen 3.5 model split over several GPUs: how the blocks   *)
(* are divided, the buffer pools of the stages, the rows they count, and   *)
(* the order of their work.                                                *)
(***************************************************************************)
EXTENDS QwenPipeline, SequenceTheorems, FiniteSetTheorems, WellFoundedInduction, TLAPS

-----------------------------------------------------------------------------
(* The forward of a range of blocks, as in QwenMtpProofs                    *)

\* The first elements of a sequence.
Begin(c, n) == SubSeq(c, 1, n)

\* The caches and the recurrent state are those of a context.
Holds(s, c) ==
  /\ "linear" \in s.kinds => s.rec = c
  /\ "full" \in s.kinds => \A i \in 1 .. Len(c) : s.kv[i] = Begin(c, i)

\* The rows of tokens that come after a context.
RowsAfter(c, toks) == [i \in 1 .. Len(toks) |-> c \o Begin(toks, i)]

-----------------------------------------------------------------------------
(* Beginnings of sequences                                                  *)

\* A beginning of a sequence: its type, its length and its elements.
LEMMA Beginning ==
  ASSUME NEW T, NEW c \in Seq(T), NEW n \in 0 .. Len(c)
  PROVE  /\ Begin(c, n) \in Seq(T) /\ Len(Begin(c, n)) = n
         /\ \A i \in 1 .. n : Begin(c, n)[i] = c[i]
<1>1. \A i \in 1 .. n : c[i] \in T
  BY ElementOfSeq
<1>2. n \in Int /\ n >= 0
  OBVIOUS
<1>3. /\ Begin(c, n) \in Seq(T)
      /\ Len(Begin(c, n)) = IF 1 <= n THEN n - 1 + 1 ELSE 0
      /\ \A i \in 1 .. n - 1 + 1 : Begin(c, n)[i] = c[1 + i - 1]
  BY <1>1, <1>2, SubSeqProperties DEF Begin
<1>4. QED
  BY <1>2, <1>3

\* A beginning of a sequence is a beginning of what it is continued to, and the
\* last beginning is the sequence.
LEMMA BeginningOfConcat ==
  ASSUME NEW T, NEW c \in Seq(T), NEW d \in Seq(T)
  PROVE  /\ c \o d \in Seq(T) /\ Len(c \o d) = Len(c) + Len(d)
         /\ \A n \in 0 .. Len(c) : Begin(c \o d, n) = Begin(c, n)
         /\ \A n \in 0 .. Len(d) : Begin(c \o d, Len(c) + n) = c \o Begin(d, n)
         /\ Begin(c, Len(c)) = c
<1>1. /\ c \o d \in Seq(T) /\ Len(c \o d) = Len(c) + Len(d)
      /\ \A i \in 1 .. Len(c) + Len(d) : (c \o d)[i] = IF i <= Len(c) THEN c[i] ELSE d[i - Len(c)]
  BY ConcatProperties
<1>2. ASSUME NEW n \in 0 .. Len(c)
      PROVE  Begin(c \o d, n) = Begin(c, n)
  <2>1. n \in 0 .. Len(c \o d)
    BY <1>1
  <2>2. /\ Begin(c \o d, n) \in Seq(T) /\ Len(Begin(c \o d, n)) = n
        /\ \A i \in 1 .. n : Begin(c \o d, n)[i] = (c \o d)[i]
    BY <1>1, <2>1, Beginning
  <2>3. /\ Begin(c, n) \in Seq(T) /\ Len(Begin(c, n)) = n
        /\ \A i \in 1 .. n : Begin(c, n)[i] = c[i]
    BY Beginning
  <2>4. \A i \in 1 .. n : (c \o d)[i] = c[i]
    BY <1>1
  <2>5. QED
    BY <2>2, <2>3, <2>4, SeqEqual
<1>3. ASSUME NEW n \in 0 .. Len(d)
      PROVE  Begin(c \o d, Len(c) + n) = c \o Begin(d, n)
  <2>1. Len(c) + n \in 0 .. Len(c \o d)
    BY <1>1
  <2>2. /\ Begin(c \o d, Len(c) + n) \in Seq(T) /\ Len(Begin(c \o d, Len(c) + n)) = Len(c) + n
        /\ \A i \in 1 .. Len(c) + n : Begin(c \o d, Len(c) + n)[i] = (c \o d)[i]
    BY <1>1, <2>1, Beginning
  <2>3. /\ Begin(d, n) \in Seq(T) /\ Len(Begin(d, n)) = n
        /\ \A i \in 1 .. n : Begin(d, n)[i] = d[i]
    BY Beginning
  <2>4. /\ c \o Begin(d, n) \in Seq(T) /\ Len(c \o Begin(d, n)) = Len(c) + n
        /\ \A i \in 1 .. Len(c) + n : (c \o Begin(d, n))[i] =
             IF i <= Len(c) THEN c[i] ELSE Begin(d, n)[i - Len(c)]
    <3> DEFINE e == Begin(d, n)
    <3>1. e \in Seq(T) /\ Len(e) = n
      BY <2>3
    <3> HIDE DEF e
    <3>2. /\ c \o e \in Seq(T) /\ Len(c \o e) = Len(c) + n
          /\ \A i \in 1 .. Len(c) + n : (c \o e)[i] = IF i <= Len(c) THEN c[i] ELSE e[i - Len(c)]
      BY <3>1, ConcatProperties
    <3>3. QED
      BY <3>2 DEF e
  <2>5. \A i \in 1 .. Len(c) + n : (c \o d)[i] = (c \o Begin(d, n))[i]
    BY <1>1, <2>3, <2>4
  <2> DEFINE a == Begin(c \o d, Len(c) + n)
             b == c \o Begin(d, n)
  <2>6. /\ a \in Seq(T) /\ b \in Seq(T) /\ Len(a) = Len(b)
        /\ \A i \in 1 .. Len(a) : a[i] = b[i]
    BY <2>2, <2>4, <2>5
  <2> HIDE DEF a, b
  <2>7. a = b
    BY <2>6, SeqEqual
  <2>8. QED
    BY <2>7 DEF a, b
<1>4. Begin(c, Len(c)) = c
  BY SubSeqFull DEF Begin
<1>5. QED
  BY <1>1, <1>2, <1>3, <1>4

\* A beginning of a beginning.
LEMMA BeginningOfBeginning ==
  ASSUME NEW T, NEW c \in Seq(T), NEW n \in 0 .. Len(c), NEW m \in 0 .. n
  PROVE  Begin(Begin(c, n), m) = Begin(c, m)
<1>1. /\ Begin(c, n) \in Seq(T) /\ Len(Begin(c, n)) = n
      /\ \A i \in 1 .. n : Begin(c, n)[i] = c[i]
  BY Beginning
<1>2. m \in 0 .. Len(Begin(c, n)) /\ m \in 0 .. Len(c)
  BY <1>1
<1>3. /\ Begin(Begin(c, n), m) \in Seq(T) /\ Len(Begin(Begin(c, n), m)) = m
      /\ \A i \in 1 .. m : Begin(Begin(c, n), m)[i] = Begin(c, n)[i]
  BY <1>1, <1>2, Beginning
<1>4. /\ Begin(c, m) \in Seq(T) /\ Len(Begin(c, m)) = m
      /\ \A i \in 1 .. m : Begin(c, m)[i] = c[i]
  BY <1>2, Beginning
<1>5. \A i \in 1 .. m : Begin(Begin(c, n), m)[i] = Begin(c, m)[i]
  BY <1>1, <1>3, <1>4
<1>6. QED
  BY <1>3, <1>4, <1>5, SeqEqual

\* A sequence with one element.
LEMMA OneElement ==
  ASSUME NEW T, NEW c \in Seq(T), NEW n \in Nat, n = Len(c), n >= 1, ~(n > 1)
  PROVE  c[1] \in T /\ c = <<c[1]>>
<1>1. n = 1 /\ 1 \in 1 .. n
  OBVIOUS
<1>2. c[1] \in T
  BY <1>1, ElementOfSeq
<1>3. <<c[1]>> \in Seq(T) /\ Len(<<c[1]>>) = n /\ <<c[1]>>[1] = c[1]
  BY <1>1, <1>2
<1>4. \A i \in 1 .. n : i = 1
  BY <1>1
<1>5. QED
  BY <1>3, <1>4, SeqEqual

\* One more element after two sequences.
LEMMA AppendAfter ==
  ASSUME NEW T, NEW a \in Seq(T), NEW b \in Seq(T), NEW x \in T
  PROVE  a \o Append(b, x) = Append(a \o b, x)
<1> DEFINE y == <<x>>
<1>1. y \in Seq(T) /\ a \o b \in Seq(T)
  OBVIOUS
<1>2. Append(b, x) = b \o y /\ Append(a \o b, x) = (a \o b) \o y
  BY <1>1, AppendIsConcat
<1> HIDE DEF y
<1>3. (a \o b) \o y = a \o (b \o y)
  BY <1>1, ConcatAssociative
<1>4. QED
  BY <1>2, <1>3

\* The row of a token is a beginning of the context the tokens end in, and the
\* row before it with the token.
LEMMA RowAfter ==
  ASSUME NEW T, NEW c \in Seq(T), NEW toks \in Seq(T), NEW i \in 1 .. Len(toks)
  PROVE  /\ RowsAfter(c, toks)[i] \in Seq(T)
         /\ RowsAfter(c, toks)[i] = Begin(c \o toks, Len(c) + i)
         /\ Front(RowsAfter(c, toks)[i]) = IF i = 1 THEN c ELSE RowsAfter(c, toks)[i - 1]
<1> DEFINE all == c \o toks
<1>1. /\ all \in Seq(T) /\ Len(all) = Len(c) + Len(toks)
      /\ \A n \in 0 .. Len(c) : Begin(all, n) = Begin(c, n)
      /\ \A n \in 0 .. Len(toks) : Begin(all, Len(c) + n) = c \o Begin(toks, n)
      /\ Begin(c, Len(c)) = c
  BY BeginningOfConcat
<1>2. Len(c) \in Nat /\ Len(toks) \in Nat
  OBVIOUS
<1> HIDE DEF all
<1>3. \A j \in 1 .. Len(toks) : RowsAfter(c, toks)[j] = Begin(all, Len(c) + j)
  BY <1>1, <1>2 DEF RowsAfter
<1>4. /\ Len(c) + i \in 0 .. Len(all) /\ Len(c) + i - 1 \in 0 .. Len(c) + i
      /\ Len(c) + i - 1 = Len(c) + (i - 1)
  BY <1>1, <1>2
<1>5. RowsAfter(c, toks)[i] \in Seq(T) /\ Len(RowsAfter(c, toks)[i]) = Len(c) + i
  BY <1>1, <1>3, <1>4, Beginning
<1>6. Front(RowsAfter(c, toks)[i]) = Begin(all, Len(c) + (i - 1))
  <2>1. Front(RowsAfter(c, toks)[i]) = Begin(Begin(all, Len(c) + i), Len(c) + i - 1)
    BY <1>3, <1>5 DEF Front, Begin
  <2>2. QED
    BY <1>1, <1>4, <2>1, BeginningOfBeginning
<1>7. CASE i = 1
  <2>1. Len(c) + (i - 1) = Len(c) /\ Len(c) \in 0 .. Len(c)
    BY <1>2, <1>7
  <2>2. QED
    BY <1>1, <1>3, <1>5, <1>6, <1>7, <2>1 DEF all
<1>8. CASE i # 1
  <2>1. i - 1 \in 1 .. Len(toks)
    BY <1>2, <1>8
  <2>2. QED
    BY <1>3, <1>5, <1>6, <1>8, <2>1 DEF all
<1>9. QED
  BY <1>7, <1>8

\* A row is as long as the context with the tokens up to its own.
LEMMA RowLength ==
  ASSUME NEW T, NEW c \in Seq(T), NEW toks \in Seq(T), NEW i \in 1 .. Len(toks)
  PROVE  Len(RowsAfter(c, toks)[i]) = Len(c) + i
<1>1. RowsAfter(c, toks)[i] = Begin(c \o toks, Len(c) + i)
  BY RowAfter
<1>2. c \o toks \in Seq(T) /\ Len(c \o toks) = Len(c) + Len(toks)
  BY BeginningOfConcat
<1>3. PICK all \in Seq(T) : all = c \o toks
  BY <1>2
<1>4. PICK n \in 0 .. Len(all) : n = Len(c) + i
  BY <1>2, <1>3
<1>5. Len(Begin(all, n)) = n
  BY Beginning
<1>6. QED
  BY <1>1, <1>3, <1>4, <1>5

\* The rows of some tokens are as many, and the last is the whole context.
LEMMA RowsAfterFacts ==
  ASSUME NEW T, NEW c \in Seq(T), NEW toks \in Seq(T), toks # <<>>
  PROVE  /\ RowsAfter(c, toks) \in Seq(Seq(T)) /\ Len(RowsAfter(c, toks)) = Len(toks)
         /\ Last(RowsAfter(c, toks)) = c \o toks
<1>1. Len(toks) \in Nat /\ Len(toks) >= 1
  BY EmptySeq
<1>2. \A i \in 1 .. Len(toks) : RowsAfter(c, toks)[i] \in Seq(T)
  BY RowAfter
<1>3. RowsAfter(c, toks) \in Seq(Seq(T)) /\ Len(RowsAfter(c, toks)) = Len(toks)
  BY <1>1, <1>2 DEF RowsAfter
<1>4. Len(toks) \in 1 .. Len(toks)
  BY <1>1
<1>5. RowsAfter(c, toks)[Len(toks)] = Begin(c \o toks, Len(c) + Len(toks))
  BY <1>4, RowAfter
<1>6. c \o toks \in Seq(T) /\ Len(c \o toks) = Len(c) + Len(toks)
  BY BeginningOfConcat
<1>7. Begin(c \o toks, Len(c \o toks)) = c \o toks
  BY <1>6, SubSeqFull DEF Begin
<1>8. QED
  BY <1>3, <1>5, <1>6, <1>7 DEF Last

-----------------------------------------------------------------------------
(* One forward                                                              *)

\* From a state that holds a context, the rows of the next tokens are made and
\* leave the blocks as what they say.
LEMMA ForwardRows ==
  ASSUME NEW T, Bad \notin T, NEW s, s.kinds \in (SUBSET {"full", "linear"}) \ {{}},
         NEW c \in Seq(T), NEW toks \in Seq(T), toks # <<>>, Holds(s, c)
  PROVE  /\ Embedded(s, Len(c), toks) = RowsAfter(c, toks)
         /\ Outputs(s, Len(c), RowsAfter(c, toks)) = RowsAfter(c, toks)
<1> DEFINE rows == RowsAfter(c, toks)
           past == IF "full" \in s.kinds THEN [i \in 1 .. Len(c) |-> Last(s.kv[i])] ELSE s.rec
<1>1. /\ rows \in Seq(Seq(T)) /\ Len(rows) = Len(toks)
      /\ Len(toks) \in Nat /\ Len(toks) >= 1 /\ Len(c) \in Nat
  <2>1. rows \in Seq(Seq(T)) /\ Len(rows) = Len(toks)
    BY RowsAfterFacts, Zenon
  <2>2. QED
    BY <2>1, EmptySeq
<1>2. past = c
  <2>1. CASE "full" \in s.kinds
    <3>1. ASSUME NEW i \in 1 .. Len(c)
          PROVE  Last(s.kv[i]) = c[i]
      <4>1. i \in 0 .. Len(c) /\ i \in 1 .. i
        OBVIOUS
      <4>2. Len(Begin(c, i)) = i /\ Begin(c, i)[i] = c[i]
        BY <4>1, Beginning
      <4>3. s.kv[i] = Begin(c, i)
        BY <2>1 DEF Holds
      <4>4. QED
        BY <4>2, <4>3 DEF Last
    <3>2. c = [i \in 1 .. Len(c) |-> c[i]]
      OBVIOUS
    <3>3. QED
      BY <2>1, <3>1, <3>2
  <2>2. CASE "full" \notin s.kinds
    BY <2>2 DEF Holds
  <2>3. QED
    BY <2>1, <2>2
<1>3. Embedded(s, Len(c), toks) = rows
  <2>1. Embedded(s, Len(c), toks) = [i \in DOMAIN toks |-> past \o Begin(toks, i)]
    BY DEF Embedded, Begin
  <2>2. DOMAIN toks = 1 .. Len(toks)
    OBVIOUS
  <2>3. QED
    BY <1>2, <2>1, <2>2 DEF RowsAfter
<1>4. Follows(s, Len(c), rows[1])
  <2>1. 1 \in 1 .. Len(toks)
    BY <1>1
  <2>2. Len(rows[1]) = Len(c) + 1 /\ rows[1] \in Seq(T) /\ Front(rows[1]) = c
    <3>1. Len(rows[1]) = Len(c) + 1
      BY <2>1, RowLength, Zenon
    <3>2. rows[1] \in Seq(T) /\ Front(rows[1]) = c
      BY <2>1, RowAfter
    <3>3. QED
      BY <3>1, <3>2
  <2>3. "linear" \in s.kinds => s.rec = Front(rows[1])
    BY <2>2 DEF Holds
  <2>4. ASSUME NEW i \in 1 .. Len(c), "full" \in s.kinds
        PROVE  s.kv[i] = Begin(rows[1], i)
    <3>1. Len(c) \in 0 .. Len(rows[1]) /\ i \in 0 .. Len(c)
      BY <1>1, <2>2
    <3>2. c = Begin(rows[1], Len(c))
      BY <1>1, <2>2 DEF Front, Begin
    <3>3. Begin(c, i) = Begin(rows[1], i)
      BY <2>2, <3>1, <3>2, BeginningOfBeginning
    <3>4. QED
      BY <2>4, <3>3 DEF Holds
  <2>5. QED
    BY <2>2, <2>3, <2>4 DEF Follows, Begin
<1>5. \A i \in 1 .. Len(toks) : \A j \in DOMAIN rows[i] : rows[i][j] # Bad
  <2>1. ASSUME NEW i \in 1 .. Len(toks), NEW j \in DOMAIN rows[i]
        PROVE  rows[i][j] # Bad
    <3>1. rows[i] \in Seq(T)
      BY <1>1, ElementOfSeq
    <3>2. QED
      BY <3>1
  <2>2. QED
    BY <2>1
<1>6. Outputs(s, Len(c), rows) = rows
  <2>1. ASSUME NEW i \in 1 .. Len(toks)
        PROVE  IF i = 1 THEN Follows(s, Len(c), rows[1]) ELSE Front(rows[i]) = rows[i - 1]
    BY <1>4, RowAfter
  <2> HIDE DEF rows
  <2>2. DOMAIN rows = 1 .. Len(toks) /\ rows = [i \in 1 .. Len(toks) |-> rows[i]]
    BY <1>1
  <2>3. \A i \in 1 .. Len(toks) : \A j \in 1 .. i : j \in 1 .. Len(toks)
    OBVIOUS
  <2>4. QED
    BY <1>5, <2>1, <2>2, <2>3 DEF Outputs
<1>7. QED
  BY <1>3, <1>6

\* The fields of a state.
Fields(s) == s = [kinds |-> s.kinds, kv |-> s.kv, len |-> s.len, rec |-> s.rec, pos |-> s.pos]

\* w is s with rows written behind a context.
Grown(s, w, c, toks, size) ==
  /\ w = [kinds |-> s.kinds, kv |-> w.kv, len |-> s.len, rec |-> c \o toks, pos |-> s.pos]
  /\ w.kv = [i \in 1 .. size |-> IF i \in Len(c) + 1 .. Len(c) + Len(toks)
                                 THEN RowsAfter(c, toks)[i - Len(c)] ELSE s.kv[i]]
  /\ Holds(w, c \o toks) /\ \A i \in 1 .. Len(c) : w.kv[i] = s.kv[i]

\* Written over, a state that holds a context holds the longer one, and the slots
\* of the context are as they were, whatever the slots behind them hold.
LEMMA WrittenRows ==
  ASSUME NEW T, NEW size \in Nat, NEW s, DOMAIN s.kv = 1 .. size,
         Fields(s), NEW c \in Seq(T), NEW toks \in Seq(T), toks # <<>>,
         Len(c) + Len(toks) <= size, Holds(s, c), NEW w, w = Written(s, Len(c), RowsAfter(c, toks))
  PROVE  Grown(s, w, c, toks, size)
<1> DEFINE rows == RowsAfter(c, toks)
           all == c \o toks
           kv == [i \in 1 .. size |-> IF i \in Len(c) + 1 .. Len(c) + Len(rows)
                                      THEN rows[i - Len(c)] ELSE s.kv[i]]
<1>1. /\ rows \in Seq(Seq(T)) /\ Len(rows) = Len(toks)
      /\ Last(rows) = all
  BY RowsAfterFacts
<1>2. /\ all \in Seq(T) /\ Len(all) = Len(c) + Len(toks)
      /\ \A n \in 0 .. Len(c) : Begin(all, n) = Begin(c, n)
  BY BeginningOfConcat
<1>3. Len(c) \in Nat /\ Len(toks) \in Nat
  OBVIOUS
<1> HIDE DEF rows, all
<1>4. w = [s EXCEPT !.kv = kv, !.rec = all]
  BY <1>1 DEF Written, rows
<1>5. ASSUME NEW i \in 1 .. Len(c)
      PROVE  kv[i] = s.kv[i]
  BY <1>3
<1>6. ASSUME NEW i \in 1 .. Len(all), "full" \in s.kinds
      PROVE  kv[i] = Begin(all, i)
  <2>1. i \in 1 .. size
    BY <1>2, <1>3
  <2>2. CASE i <= Len(c)
    <3>1. i \in 1 .. Len(c) /\ i \in 0 .. Len(c)
      BY <1>2, <1>3, <2>2
    <3>2. QED
      BY <1>2, <1>5, <1>6, <3>1 DEF Holds
  <2>3. CASE i > Len(c)
    <3>1. i - Len(c) \in 1 .. Len(toks) /\ i \in Len(c) + 1 .. Len(c) + Len(rows)
          /\ Len(c) + (i - Len(c)) = i
      BY <1>1, <1>2, <1>3, <2>3
    <3>2. PICK j \in 1 .. Len(toks) : j = i - Len(c) /\ Len(c) + j = i
      BY <3>1
    <3>3. kv[i] = rows[j]
      BY <2>1, <3>1, <3>2
    <3>4. RowsAfter(c, toks)[j] = Begin(c \o toks, Len(c) + j)
      BY RowAfter
    <3>5. QED
      BY <3>2, <3>3, <3>4 DEF rows, all
  <2>4. i <= Len(c) \/ i > Len(c)
    BY <1>2, <1>3
  <2>5. QED
    BY <2>2, <2>3, <2>4
<1>7. kv = [i \in 1 .. size |-> IF i \in Len(c) + 1 .. Len(c) + Len(toks)
                                THEN RowsAfter(c, toks)[i - Len(c)] ELSE s.kv[i]]
  BY <1>1 DEF rows
<1> HIDE DEF kv
<1>8. w = [kinds |-> s.kinds, kv |-> kv, len |-> s.len, rec |-> all, pos |-> s.pos]
  BY <1>4 DEF Fields
<1>9. Holds(w, all) /\ w.kv = kv
  BY <1>6, <1>8 DEF Holds
<1>10. QED
  BY <1>5, <1>7, <1>8, <1>9 DEF all, Grown

-----------------------------------------------------------------------------
(* Numbers and recursion                                                    *)

\* A set of natural numbers that is not empty has a least element.
LEMMA LeastElement ==
  ASSUME NEW S, S \subseteq Nat, S # {}
  PROVE  \E m \in S : \A n \in S : m <= n
<1>1. PICK m \in S : \A n \in S : <<n, m>> \notin OpToRel(<, Nat)
  BY NatLessThanWellFounded, WFMin
<1>2. ASSUME NEW n \in S
      PROVE  m <= n
  <2>1. n \in Nat /\ m \in Nat
    OBVIOUS
  <2>2. ~(n < m)
    BY <1>1, <2>1, Zenon DEF OpToRel
  <2>3. QED
    BY <2>1, <2>2
<1>3. QED
  BY <1>2

\* What holds for 0 and is handed on by every number holds up to m.
LEMMA UpTo ==
  ASSUME NEW m \in Nat, NEW S, 0 \in S, \A n \in 1 .. m : n - 1 \in S => n \in S
  PROVE  \A n \in 0 .. m : n \in S
<1> DEFINE T == {n \in 0 .. m : n \notin S}
<1>1. SUFFICES ASSUME T # {}
               PROVE  FALSE
  OBVIOUS
<1>2. T \subseteq Nat
  OBVIOUS
<1>3. PICK n \in T : \A j \in T : n <= j
  <2> HIDE DEF T
  <2>1. QED
    BY <1>1, <1>2, LeastElement
<1>4. n \in 1 .. m /\ n \notin S
  OBVIOUS
<1>5. n - 1 \in 0 .. m - 1 /\ n - 1 \notin T
  BY <1>3, <1>4
<1>6. QED
  BY <1>4, <1>5

\* A set of numbers with an upper bound has a greatest element.
LEMMA GreatestElement ==
  ASSUME NEW m \in Nat, NEW S, S \subseteq 0 .. m, S # {}
  PROVE  \E x \in S : \A y \in S : x >= y
<1> DEFINE T == {n \in 0 .. m : m - n \in S}
<1>1. T \subseteq Nat /\ T # {}
  <2>1. PICK x \in S : TRUE
    OBVIOUS
  <2>2. x \in Nat /\ x <= m
    BY <2>1
  <2>3. m - x \in 0 .. m /\ m - (m - x) = x
    BY <2>2
  <2>4. m - x \in T
    BY <2>1, <2>3
  <2>5. T \subseteq Nat
    OBVIOUS
  <2>6. QED
    BY <2>4, <2>5
<1>2. PICK n \in T : \A j \in T : n <= j
  <2> HIDE DEF T
  <2>1. QED
    BY <1>1, LeastElement
<1>3. ASSUME NEW y \in S
      PROVE  m - n >= y
  <2>1. y \in Nat /\ y <= m /\ m - y \in 0 .. m /\ m - (m - y) = y
    OBVIOUS
  <2>2. m - y \in T
    BY <2>1
  <2>3. n <= m - y /\ n \in Nat
    BY <1>2, <2>2
  <2>4. QED
    BY <2>1, <2>3
<1>4. QED
  BY <1>2, <1>3

\* Max and Min of a bounded set of numbers.
LEMMA Extremes ==
  ASSUME NEW m \in Nat, NEW S, S \subseteq 0 .. m, S # {}
  PROVE  /\ Max(S) \in S /\ \A y \in S : Max(S) >= y
         /\ Min(S) \in S /\ \A y \in S : Min(S) <= y
<1>1. \E x \in S : \A y \in S : x >= y
  BY GreatestElement
<1>2. \E x \in S : \A y \in S : x <= y
  <2>1. S \subseteq Nat
    OBVIOUS
  <2>2. QED
    BY <2>1, LeastElement
<1>3. QED
  BY <1>1, <1>2 DEF Max, Min

\* g is what Make makes step by step of a first value.
Recurs(g, n, first, Make) == g[0] = first /\ \A i \in 1 .. n : g[i] = Make[i][g[i - 1]]

\* Values can be computed one from the other.
LEMMA RecursionExists ==
  ASSUME NEW D, NEW first \in D, NEW n \in Nat, NEW Make \in [1 .. n -> [D -> D]]
  PROVE  \E g \in [0 .. n -> D] : Recurs(g, n, first, Make)
<1> DEFINE S == {m \in 0 .. n : \E g \in [0 .. m -> D] : Recurs(g, m, first, Make)}
<1>1. 0 \in S
  <2> DEFINE g == [i \in 0 .. 0 |-> first]
  <2>1. g \in [0 .. 0 -> D] /\ Recurs(g, 0, first, Make)
    BY DEF Recurs
  <2>2. QED
    BY <2>1
<1>2. ASSUME NEW m \in 1 .. n, m - 1 \in S
      PROVE  m \in S
  <2>1. PICK g \in [0 .. m - 1 -> D] : Recurs(g, m - 1, first, Make)
    BY <1>2
  <2> DEFINE h == [i \in 0 .. m |-> IF i = m THEN Make[m][g[m - 1]] ELSE g[i]]
  <2>2. m - 1 \in 0 .. m - 1 /\ m \in 1 .. n
    OBVIOUS
  <2>3. Make[m][g[m - 1]] \in D
    BY <2>1, <2>2
  <2>4. h \in [0 .. m -> D]
    BY <2>1, <2>3
  <2>5. h[0] = first
    BY <2>1 DEF Recurs
  <2>6. ASSUME NEW i \in 1 .. m
        PROVE  h[i] = Make[i][h[i - 1]]
    <3>1. i - 1 \in 0 .. m /\ i - 1 # m /\ h[i - 1] = g[i - 1]
      OBVIOUS
    <3>2. CASE i = m
      BY <3>1, <3>2
    <3>3. CASE i # m
      <4>1. i \in 1 .. m - 1 /\ h[i] = g[i]
        BY <3>3
      <4>2. g[i] = Make[i][g[i - 1]]
        BY <2>1, <4>1 DEF Recurs
      <4>3. QED
        BY <3>1, <4>1, <4>2
    <3>4. QED
      BY <3>2, <3>3
  <2> HIDE DEF h
  <2>7. Recurs(h, m, first, Make)
    BY <2>5, <2>6 DEF Recurs
  <2>8. QED
    BY <2>2, <2>4, <2>7
<1>3. n \in S
  <2> HIDE DEF S
  <2>1. \A m \in 0 .. n : m \in S
    BY <1>1, <1>2, UpTo
  <2>2. QED
    BY <2>1
<1>4. QED
  BY <1>3

-----------------------------------------------------------------------------
(* Sums                                                                     *)

SumsUp(g, f, n) == g = [i \in 0 .. n |-> IF i = 0 THEN 0 ELSE g[i - 1] + f[i]]

\* The running sums of natural numbers.
LEMMA RunningSums ==
  ASSUME NEW n \in Nat, NEW f, \A i \in 1 .. n : f[i] \in Nat
  PROVE  \E g \in [0 .. n -> Nat] :
           /\ SumsUp(g, f, n) /\ Total(f, n) = g[n]
           /\ \A h : SumsUp(h, f, n) => h = g
<1> DEFINE Make == [i \in 1 .. n |-> [x \in Nat |-> x + f[i]]]
<1>1. Make \in [1 .. n -> [Nat -> Nat]]
  OBVIOUS
<1>2. PICK g \in [0 .. n -> Nat] : Recurs(g, n, 0, Make)
  <2> HIDE DEF Make
  <2>1. QED
    BY <1>1, RecursionExists
<1>3. g[0] = 0 /\ \A i \in 1 .. n : g[i] = g[i - 1] + f[i]
  <2>1. ASSUME NEW i \in 1 .. n
        PROVE  g[i] = g[i - 1] + f[i]
    <3>1. g[i - 1] \in Nat
      BY <1>2
    <3>2. g[i] = Make[i][g[i - 1]]
      BY <1>2 DEF Recurs
    <3>3. QED
      BY <3>1, <3>2
  <2>2. QED
    BY <1>2, <2>1 DEF Recurs
<1>4. SumsUp(g, f, n)
  BY <1>3 DEF SumsUp
<1>5. ASSUME NEW h, SumsUp(h, f, n)
      PROVE  h = g
  <2> DEFINE S == {i \in 0 .. n : h[i] = g[i]}
  <2>1. h = [i \in 0 .. n |-> IF i = 0 THEN 0 ELSE h[i - 1] + f[i]]
    BY <1>5 DEF SumsUp
  <2>2. h = [i \in 0 .. n |-> h[i]] /\ h[0] = 0 /\ \A i \in 1 .. n : h[i] = h[i - 1] + f[i]
    <3>1. DOMAIN h = 0 .. n
      BY <2>1
    <3>2. h = [i \in 0 .. n |-> h[i]]
      BY <2>1, <3>1
    <3>3. 0 \in 0 .. n
      OBVIOUS
    <3>4. h[0] = 0
      BY <2>1, <3>3
    <3>5. ASSUME NEW i \in 1 .. n
          PROVE  h[i] = h[i - 1] + f[i]
      <4>1. i \in 0 .. n /\ i # 0
        OBVIOUS
      <4>2. QED
        BY <2>1, <4>1
    <3>6. QED
      BY <3>2, <3>4, <3>5
  <2>3. 0 \in S
    BY <1>3, <2>2
  <2>4. ASSUME NEW i \in 1 .. n, i - 1 \in S
        PROVE  i \in S
    <3>1. h[i - 1] = g[i - 1] /\ i \in 0 .. n
      BY <2>4
    <3>2. h[i] = g[i]
      BY <1>3, <2>2, <3>1
    <3>3. QED
      BY <3>1, <3>2
  <2>5. \A i \in 0 .. n : i \in S
    <3> HIDE DEF S
    <3>1. QED
      BY <2>3, <2>4, UpTo
  <2>6. \A i \in 0 .. n : h[i] = g[i]
    BY <2>5
  <2>7. g = [i \in 0 .. n |-> g[i]]
    OBVIOUS
  <2>8. QED
    BY <2>2, <2>6, <2>7
<1> DEFINE c == CHOOSE h : SumsUp(h, f, n)
<1>6. SumsUp(c, f, n)
  BY <1>4, Zenon
<1>7. Total(f, n) = c[n]
  BY Zenon DEF Total, SumsUp
<1>8. QED
  BY <1>4, <1>5, <1>6, <1>7

\* A sum of natural numbers, term by term.
LEMMA TotalIs ==
  ASSUME NEW n \in Nat, NEW f, \A i \in 1 .. n : f[i] \in Nat
  PROVE  /\ \A m \in 0 .. n : Total(f, m) \in Nat
         /\ Total(f, 0) = 0
         /\ \A m \in 1 .. n : Total(f, m) = Total(f, m - 1) + f[m]
<1>1. PICK g \in [0 .. n -> Nat] : SumsUp(g, f, n)
  BY RunningSums
<1>2. ASSUME NEW m \in 0 .. n
      PROVE  Total(f, m) = g[m]
  <2> DEFINE h == [i \in 0 .. m |-> g[i]]
  <2>1. g[0] = 0 /\ \A i \in 1 .. n : g[i] = g[i - 1] + f[i]
    BY <1>1 DEF SumsUp
  <2>2. SumsUp(h, f, m)
    BY <2>1 DEF SumsUp
  <2>3. \A i \in 1 .. m : f[i] \in Nat
    OBVIOUS
  <2>4. PICK k \in [0 .. m -> Nat] : /\ Total(f, m) = k[m]
                                     /\ \A j : SumsUp(j, f, m) => j = k
    <3>1. m \in Nat
      OBVIOUS
    <3>2. QED
      BY <2>3, <3>1, RunningSums
  <2>5. h = k
    BY <2>2, <2>4, Zenon
  <2>6. QED
    BY <2>4, <2>5
<1>3. g[0] = 0 /\ \A m \in 1 .. n : g[m] = g[m - 1] + f[m]
  BY <1>1 DEF SumsUp
<1>4. \A m \in 1 .. n : m \in 0 .. n /\ m - 1 \in 0 .. n
  OBVIOUS
<1>5. 0 \in 0 .. n
  OBVIOUS
<1>6. QED
  BY <1>2, <1>3, <1>4, <1>5

-----------------------------------------------------------------------------
(* Where the model is cut                                                   *)

\* Division, for any divisor.
LEMMA Division ==
  ASSUME NEW a \in Nat, NEW b \in Nat \ {0}
  PROVE  /\ a \div b \in Nat /\ a % b \in 0 .. b - 1
         /\ a = b * (a \div b) + (a % b)
OBVIOUS

\* Tensors, blocks and heads have sizes.
LEMMA SizesAreNumbers ==
  ASSUME NEW file \in File
  PROVE  /\ NBlocks(file) \in Nat
         /\ \A i \in 1 .. NBlocks(file) : BlockBytes(file, i) \in Nat
         /\ EmbdBytes(file) \in Nat /\ TailBytes(file) \in Nat
<1>1. \A t \in Tensor : DeviceBytes(t) \in Nat
  <2>1. ASSUME NEW t \in Tensor
        PROVE  DeviceBytes(t) \in Nat
    <3>1. t.elements \in Nat /\ t.bytes \in Nat
      BY DEF Tensor
    <3>2. (t.elements * 34) \div 32 \in Nat
      BY <3>1
    <3>3. QED
      BY <3>1, <3>2 DEF DeviceBytes
  <2>2. QED
    BY <2>1
<1>2. ASSUME NEW ts \in Seq(Tensor)
      PROVE  Bytes(ts) \in Nat
  <2> DEFINE f == [i \in DOMAIN ts |-> DeviceBytes(ts[i])]
  <2>1. Len(ts) \in Nat /\ DOMAIN ts = 1 .. Len(ts)
    OBVIOUS
  <2>2. \A i \in 1 .. Len(ts) : f[i] \in Nat
    <3>1. \A i \in 1 .. Len(ts) : ts[i] \in Tensor
      BY ElementOfSeq
    <3>2. QED
      BY <1>1, <2>1, <3>1
  <2> HIDE DEF f
  <2>3. PICK n \in Nat : n = Len(ts)
    BY <2>1
  <2>4. Total(f, n) \in Nat
    <3>1. n \in 0 .. n /\ \A i \in 1 .. n : f[i] \in Nat
      BY <2>2, <2>3
    <3>2. QED
      BY <3>1, TotalIs
  <2>5. QED
    BY <2>3, <2>4 DEF Bytes, f
<1>3. /\ file.blocks \in Seq(Block) /\ file.embd \in Tensor /\ file.head \in Seq(Tensor)
  BY DEF File
<1>4. NBlocks(file) \in Nat
  BY <1>3 DEF NBlocks
<1>5. ASSUME NEW i \in 1 .. NBlocks(file)
      PROVE  BlockBytes(file, i) \in Nat
  <2>1. file.blocks[i] \in Block
    BY <1>3, <1>5, ElementOfSeq DEF NBlocks
  <2>2. file.blocks[i].tensors \in Seq(Tensor)
    BY <2>1 DEF Block
  <2>3. QED
    BY <1>2, <2>2 DEF BlockBytes
<1>6. EmbdBytes(file) \in Nat
  <2>1. <<file.embd>> \in Seq(Tensor)
    BY <1>3
  <2>2. QED
    BY <1>2, <2>1 DEF EmbdBytes
<1>7. TailBytes(file) \in Nat
  <2>1. Bytes(file.head) \in Nat
    BY <1>2, <1>3
  <2>2. QED
    BY <1>6, <2>1 DEF TailBytes
<1>8. QED
  BY <1>4, <1>5, <1>6, <1>7

\* What a stage ends with grows block by block.
LEMMA ThroughGrows ==
  ASSUME NEW file \in File
  PROVE  /\ \A e \in 0 .. NBlocks(file) : Through(file, e) \in Nat
         /\ \A e \in 1 .. NBlocks(file) :
              Through(file, e) = Through(file, e - 1) + BlockBytes(file, e)
         /\ \A e \in 0 .. NBlocks(file) : \A d \in 0 .. e :
              Through(file, d) <= Through(file, e)
<1> DEFINE f == [i \in 1 .. NBlocks(file) |-> BlockBytes(file, i)]
<1>1. PICK n \in Nat : n = NBlocks(file)
  BY SizesAreNumbers
<1>2. \A i \in 1 .. n : f[i] \in Nat /\ f[i] = BlockBytes(file, i)
  BY <1>1, SizesAreNumbers
<1> HIDE DEF f
<1>3. /\ \A m \in 0 .. n : Total(f, m) \in Nat
      /\ \A m \in 1 .. n : Total(f, m) = Total(f, m - 1) + f[m]
  BY <1>2, TotalIs
<1>4. EmbdBytes(file) \in Nat
  BY SizesAreNumbers
<1>5. \A e : Through(file, e) = EmbdBytes(file) + Total(f, e)
  BY DEF Through, f
<1>6. \A e \in 0 .. n : Through(file, e) \in Nat
  BY <1>3, <1>4, <1>5
<1>7. ASSUME NEW e \in 1 .. n
      PROVE  Through(file, e) = Through(file, e - 1) + BlockBytes(file, e)
  <2>1. e - 1 \in 0 .. n /\ f[e] \in Nat /\ f[e] = BlockBytes(file, e)
    BY <1>2
  <2>2. Total(f, e - 1) \in Nat /\ Total(f, e) = Total(f, e - 1) + f[e]
    BY <1>3, <2>1
  <2>3. QED
    BY <1>4, <1>5, <2>1, <2>2
<1>8. ASSUME NEW d \in 0 .. n
      PROVE  \A e \in d .. n : Through(file, d) <= Through(file, e)
  <2> DEFINE S == {k \in 0 .. n - d : Through(file, d) <= Through(file, d + k)}
  <2>1. 0 \in S
    <3>1. d + 0 = d /\ Through(file, d) \in Nat /\ 0 \in 0 .. n - d
      BY <1>6
    <3>2. QED
      BY <3>1
  <2>2. ASSUME NEW k \in 1 .. n - d, k - 1 \in S
        PROVE  k \in S
    <3>1. d + k \in 1 .. n /\ (d + k) - 1 = d + (k - 1) /\ d + (k - 1) \in 0 .. n /\ k \in 0 .. n - d
      OBVIOUS
    <3>2. Through(file, d + k) = Through(file, d + (k - 1)) + BlockBytes(file, d + k)
      BY <1>7, <3>1
    <3>3. BlockBytes(file, d + k) \in Nat /\ Through(file, d + (k - 1)) \in Nat
          /\ Through(file, d) \in Nat
      BY <1>1, <1>6, <3>1, SizesAreNumbers
    <3>4. Through(file, d) <= Through(file, d + (k - 1))
      BY <2>2
    <3>5. Through(file, d) <= Through(file, d + k)
      BY <3>2, <3>3, <3>4
    <3>6. QED
      BY <3>1, <3>5
  <2>3. \A k \in 0 .. n - d : k \in S
    <3> HIDE DEF S
    <3>1. n - d \in Nat
      OBVIOUS
    <3>2. QED
      BY <2>1, <2>2, <3>1, UpTo
  <2>4. ASSUME NEW e \in d .. n
        PROVE  Through(file, d) <= Through(file, e)
    <3>1. e - d \in 0 .. n - d /\ d + (e - d) = e
      OBVIOUS
    <3>2. QED
      BY <2>3, <3>1
  <2>5. QED
    BY <2>4
<1>9. ASSUME NEW e \in 0 .. n, NEW d \in 0 .. e
      PROVE  Through(file, d) <= Through(file, e)
  <2>1. d \in 0 .. n /\ e \in d .. n
    OBVIOUS
  <2>2. QED
    BY <1>8, <2>1
<1>10. QED
  BY <1>1, <1>6, <1>7, <1>9

\* How near two amounts are to a third, when one of them was taken because half
\* of the next block b did not or did reach it.
LEMMA Nearer ==
  ASSUME NEW t \in Nat, NEW x \in Nat, NEW y \in Nat, NEW b \in Nat
  PROVE  /\ y <= x /\ x + (b \div 2) < t => Away(x + b, t) <= Away(y, t) + 1
         /\ x + (b \div 2) >= t /\ y >= x + b => Away(x, t) <= Away(y, t) + 1
<1>1. PICK h \in Nat : h = b \div 2 /\ 2 * h <= b /\ b <= 2 * h + 1
  <2>1. b \div 2 \in Nat /\ b % 2 \in 0 .. 1 /\ b = 2 * (b \div 2) + (b % 2)
    BY Division
  <2>2. QED
    BY <2>1
<1>2. QED
  BY <1>1 DEF Away

\* The end plan_split finds for a stage is one it may have, half of its last block
\* is needed and, if it could be later, half of the next one is not.
LEMMA EndFound ==
  ASSUME NEW file \in File, NEW n \in Nat, NEW s \in 1 .. n - 1, NEW last \in Nat,
         last < NBlocks(file) - (n - s)
  PROVE  LET ends == Ends(file, n, s, last)
             end == Min({e \in ends : e = Max(ends) \/ Reached(file, n, s, e)})
         IN  /\ end \in ends
             /\ \A e \in ends : e < end => ~Reached(file, n, s, e)
             /\ (\E e \in ends : e > end) => Reached(file, n, s, end)
<1> DEFINE ends == Ends(file, n, s, last)
           may == {e \in ends : e = Max(ends) \/ Reached(file, n, s, e)}
           end == Min(may)
<1>1. PICK m \in Nat : m = NBlocks(file) - (n - s) /\ last < m
  <2>1. NBlocks(file) \in Nat
    BY SizesAreNumbers
  <2>2. QED
    BY <2>1
<1>2. ends = last + 1 .. m
  BY <1>1 DEF Ends
<1>3. ends \subseteq 0 .. m /\ ends # {}
  BY <1>1, <1>2
<1> HIDE DEF ends
<1>4. Max(ends) \in ends /\ \A e \in ends : Max(ends) >= e
  BY <1>3, Extremes
<1>5. may \subseteq 0 .. m /\ may # {}
  BY <1>3, <1>4
<1>6. end \in may /\ \A e \in may : end <= e
  <2> HIDE DEF may
  <2>1. QED
    BY <1>5, Extremes
<1>7. ASSUME NEW e \in ends, e < end
      PROVE  ~Reached(file, n, s, e)
  <2>1. e \in Nat /\ end \in Nat /\ ~(end <= e)
    BY <1>3, <1>5, <1>6, <1>7
  <2>2. e \notin may
    BY <1>6, <2>1
  <2>3. QED
    BY <1>7, <2>2
<1>8. ASSUME NEW e \in ends, e > end
      PROVE  Reached(file, n, s, end)
  <2>1. e <= Max(ends) /\ e \in Nat /\ Max(ends) \in Nat /\ end \in Nat
    BY <1>3, <1>4, <1>5, <1>6
  <2>2. end # Max(ends)
    BY <1>8, <2>1
  <2>3. QED
    BY <1>6, <2>2
<1>9. QED
  BY <1>6, <1>7, <1>8 DEF ends

\* Every stage gets a block, and plan_split's ends are found one after the other.
LEMMA PlanSplitEnds ==
  ASSUME NEW file \in File, NEW n \in Nat \ {0}, n <= NBlocks(file)
  PROVE  LET end == PlanSplit(file, n)
         IN  /\ end[0] = 0 /\ end[n] = NBlocks(file)
             /\ \A s \in 1 .. n : end[s - 1] \in Nat /\ end[s - 1] < NBlocks(file) - (n - s)
             /\ \A s \in 1 .. n - 1 :
                  LET ends == Ends(file, n, s, end[s - 1])
                  IN end[s] = Min({e \in ends : e = Max(ends) \/ Reached(file, n, s, e)})
<1> DEFINE Found(s, last) ==
             LET ends == Ends(file, n, s, last)
             IN Min({e \in ends : e = Max(ends) \/ Reached(file, n, s, e)})
           Solves(g) == g = [s \in 0 .. n |->
                               IF s = 0 THEN 0 ELSE IF s = n THEN NBlocks(file)
                               ELSE Found(s, g[s - 1])]
<1>1. PICK m \in Nat : m = NBlocks(file) /\ n <= m
  BY SizesAreNumbers
<1>2. ASSUME NEW s \in 1 .. n - 1, NEW last \in 0 .. m, last < m - (n - s)
      PROVE  Found(s, last) \in last + 1 .. m - (n - s)
  <2>1. last \in Nat /\ n \in Nat
    OBVIOUS
  <2>2. Found(s, last) \in Ends(file, n, s, last)
    BY <1>1, <1>2, <2>1, EndFound
  <2>3. QED
    BY <1>1, <2>2 DEF Ends
<1> HIDE DEF Found
<1> DEFINE Make == [s \in 1 .. n |-> [x \in 0 .. m |->
                      IF s < n /\ x < m - (n - s) THEN Found(s, x) ELSE m]]
<1>3. PICK g \in [0 .. n -> 0 .. m] : Recurs(g, n, 0, Make)
  <2>1. ASSUME NEW s \in 1 .. n, NEW x \in 0 .. m
        PROVE  (IF s < n /\ x < m - (n - s) THEN Found(s, x) ELSE m) \in 0 .. m
    <3>1. CASE s < n /\ x < m - (n - s)
      <4>1. s \in 1 .. n - 1
        BY <3>1
      <4>2. Found(s, x) \in x + 1 .. m - (n - s)
        BY <1>2, <3>1, <4>1
      <4>3. QED
        BY <1>1, <3>1, <4>2
    <3>2. CASE ~(s < n /\ x < m - (n - s))
      BY <1>1, <3>2
    <3>3. QED
      BY <3>1, <3>2
  <2>2. Make \in [1 .. n -> [0 .. m -> 0 .. m]]
    BY <2>1
  <2> HIDE DEF Make
  <2>3. 0 \in 0 .. m /\ n \in Nat
    BY <1>1
  <2>4. QED
    BY <2>2, <2>3, RecursionExists
<1>4. /\ g[0] = 0
      /\ \A s \in 1 .. n : g[s] = IF s < n /\ g[s - 1] < m - (n - s) THEN Found(s, g[s - 1]) ELSE m
  <2>1. ASSUME NEW s \in 1 .. n
        PROVE  g[s] = IF s < n /\ g[s - 1] < m - (n - s) THEN Found(s, g[s - 1]) ELSE m
    <3>1. g[s - 1] \in 0 .. m
      BY <1>3
    <3>2. g[s] = Make[s][g[s - 1]]
      BY <1>3 DEF Recurs
    <3>3. QED
      BY <3>1, <3>2
  <2>2. QED
    BY <1>3, <2>1 DEF Recurs
<1> HIDE DEF Make
<1>5. \A s \in 0 .. n - 1 : g[s] <= m - (n - s)
  <2> DEFINE S == {s \in 0 .. n - 1 : g[s] <= m - (n - s)}
  <2>1. 0 \in S
    BY <1>1, <1>4
  <2>2. ASSUME NEW s \in 1 .. n - 1, s - 1 \in S
        PROVE  s \in S
    <3>1. s \in 1 .. n /\ s < n /\ g[s - 1] \in 0 .. m
      BY <1>3
    <3>2. g[s - 1] <= m - (n - (s - 1))
      BY <2>2
    <3>3. g[s - 1] < m - (n - s)
      BY <1>1, <3>1, <3>2
    <3>4. g[s] = Found(s, g[s - 1])
      BY <1>4, <3>1, <3>3
    <3>5. g[s] \in g[s - 1] + 1 .. m - (n - s)
      BY <1>2, <3>1, <3>3, <3>4
    <3>6. QED
      BY <1>1, <3>1, <3>5
  <2>3. \A s \in 0 .. n - 1 : s \in S
    <3> HIDE DEF S
    <3>1. n - 1 \in Nat
      OBVIOUS
    <3>2. QED
      BY <2>1, <2>2, <3>1, UpTo
  <2>4. QED
    BY <2>3
<1>6. \A s \in 1 .. n : g[s - 1] \in 0 .. m /\ g[s - 1] < m - (n - s)
  <2>1. ASSUME NEW s \in 1 .. n
        PROVE  g[s - 1] \in 0 .. m /\ g[s - 1] < m - (n - s)
    <3>1. s - 1 \in 0 .. n - 1 /\ g[s - 1] \in 0 .. m
      BY <1>3
    <3>2. g[s - 1] <= m - (n - (s - 1))
      BY <1>5, <3>1
    <3>3. QED
      BY <1>1, <3>1, <3>2
  <2>2. QED
    BY <2>1
<1>7. /\ \A s \in 1 .. n - 1 : g[s] = Found(s, g[s - 1])
      /\ g[n] = m
  <2>1. ASSUME NEW s \in 1 .. n - 1
        PROVE  g[s] = Found(s, g[s - 1])
    <3>1. s \in 1 .. n /\ s < n
      OBVIOUS
    <3>2. QED
      BY <1>4, <1>6, <3>1
  <2>2. g[n] = m
    <3>1. n \in 1 .. n /\ ~(n < n)
      OBVIOUS
    <3>2. QED
      BY <1>4, <3>1
  <2>3. QED
    BY <2>1, <2>2
<1>8. Solves(g)
  <2>1. ASSUME NEW s \in 0 .. n
        PROVE  g[s] = IF s = 0 THEN 0 ELSE IF s = n THEN NBlocks(file) ELSE Found(s, g[s - 1])
    <3>1. CASE s = 0
      BY <1>4, <3>1
    <3>2. CASE s # 0 /\ s = n
      BY <1>1, <1>7, <3>2
    <3>3. CASE s # 0 /\ s # n
      <4>1. s \in 1 .. n - 1
        BY <3>3
      <4>2. QED
        BY <1>7, <3>3, <4>1
    <3>4. QED
      BY <3>1, <3>2, <3>3
  <2>2. QED
    BY <2>1
<1>9. ASSUME NEW h, Solves(h)
      PROVE  \A s \in 0 .. n : h[s] = g[s]
  <2> DEFINE S == {s \in 0 .. n : h[s] = g[s]}
  <2>1. /\ h[0] = 0 /\ h[n] = m
        /\ \A s \in 1 .. n - 1 : h[s] = Found(s, h[s - 1])
    <3>1. ASSUME NEW s \in 0 .. n
          PROVE  h[s] = IF s = 0 THEN 0 ELSE IF s = n THEN m ELSE Found(s, h[s - 1])
      BY <1>1, <1>9
    <3>2. 0 \in 0 .. n /\ n \in 0 .. n /\ n # 0
      OBVIOUS
    <3>3. \A s \in 1 .. n - 1 : s \in 0 .. n /\ s # 0 /\ s # n
      OBVIOUS
    <3> HIDE DEF Solves
    <3>4. QED
      BY <3>1, <3>2, <3>3
  <2>2. 0 \in S
    BY <1>4, <2>1
  <2>3. ASSUME NEW s \in 1 .. n, s - 1 \in S
        PROVE  s \in S
    <3>1. CASE s = n
      BY <1>7, <2>1, <3>1
    <3>2. CASE s # n
      <4>1. s \in 1 .. n - 1 /\ h[s - 1] = g[s - 1]
        BY <2>3, <3>2
      <4>2. h[s] = g[s]
        BY <1>7, <2>1, <4>1
      <4>3. QED
        BY <4>2
    <3>3. QED
      BY <3>1, <3>2
  <2>4. \A s \in 0 .. n : s \in S
    <3> HIDE DEF S
    <3>1. QED
      BY <2>2, <2>3, UpTo
  <2>5. QED
    BY <2>4
<1> DEFINE c == CHOOSE h : Solves(h)
<1>10. Solves(c)
  <2> HIDE DEF Solves
  <2>1. QED
    BY <1>8, Zenon
<1>11. PlanSplit(file, n) = c
  BY Zenon DEF PlanSplit, Found
<1>12. \A s \in 0 .. n : PlanSplit(file, n)[s] = g[s]
  <2> HIDE DEF Solves, c
  <2>1. QED
    BY <1>9, <1>10, <1>11
<1>13. 0 \in 0 .. n /\ n \in 0 .. n /\ \A s \in 1 .. n : s \in 0 .. n /\ s - 1 \in 0 .. n
  OBVIOUS
<1>14. \A s \in 1 .. n - 1 : s \in 1 .. n
  OBVIOUS
<1>15. \A s \in 1 .. n - 1 : PlanSplit(file, n)[s] = Found(s, PlanSplit(file, n)[s - 1])
  BY <1>7, <1>12, <1>13, <1>14
<1>16. \A s \in 1 .. n : /\ PlanSplit(file, n)[s - 1] \in Nat
                         /\ PlanSplit(file, n)[s - 1] < NBlocks(file) - (n - s)
  BY <1>1, <1>6, <1>12, <1>13
<1>17. PlanSplit(file, n)[0] = 0 /\ PlanSplit(file, n)[n] = NBlocks(file)
  BY <1>1, <1>4, <1>7, <1>12, <1>13
<1>18. QED
  BY <1>15, <1>16, <1>17 DEF Found

\* plan_split: every block is in one stage, every stage has one, and no other end
\* a stage could have is nearer to its share of the bytes.
LEMMA PlanSplitFair ==
  ASSUME NEW file \in File, NEW n \in Nat \ {0}, n <= NBlocks(file)
  PROVE  FairSplit(file, n)
<1> DEFINE end == PlanSplit(file, n)
<1>1. PICK m \in Nat : m = NBlocks(file)
  BY SizesAreNumbers
<1>2. /\ end[0] = 0 /\ end[n] = m
      /\ \A s \in 1 .. n : end[s - 1] \in Nat /\ end[s - 1] < m - (n - s)
      /\ \A s \in 1 .. n - 1 :
           LET ends == Ends(file, n, s, end[s - 1])
           IN end[s] = Min({e \in ends : e = Max(ends) \/ Reached(file, n, s, e)})
  BY <1>1, PlanSplitEnds
<1> HIDE DEF end
<1>3. ASSUME NEW s \in 1 .. n - 1
      PROVE  /\ end[s] \in Ends(file, n, s, end[s - 1])
             /\ \A e \in Ends(file, n, s, end[s - 1]) :
                  /\ e < end[s] => ~Reached(file, n, s, e)
                  /\ e > end[s] => Reached(file, n, s, end[s])
  <2>1. n \in Nat /\ s \in 1 .. n
    OBVIOUS
  <2>2. end[s - 1] \in Nat /\ end[s - 1] < NBlocks(file) - (n - s)
    BY <1>1, <1>2, <2>1
  <2> DEFINE ends == Ends(file, n, s, end[s - 1])
             found == Min({e \in ends : e = Max(ends) \/ Reached(file, n, s, e)})
  <2>3. /\ found \in ends
        /\ \A e \in ends : e < found => ~Reached(file, n, s, e)
        /\ (\E e \in ends : e > found) => Reached(file, n, s, found)
    BY <2>1, <2>2, EndFound
  <2>4. end[s] = found
    BY <1>2
  <2> HIDE DEF found
  <2>5. QED
    BY <2>3, <2>4
<1>4. \A s \in 1 .. n - 1 : Ends(file, n, s, end[s - 1]) = end[s - 1] + 1 .. m - (n - s)
  BY <1>1 DEF Ends
<1>5. \A s \in 1 .. n : end[s] > end[s - 1]
  <2>1. ASSUME NEW s \in 1 .. n
        PROVE  end[s] > end[s - 1]
    <3>1. end[s - 1] \in Nat /\ end[s - 1] < m - (n - s)
      BY <1>2
    <3>2. CASE s = n
      BY <1>2, <3>1, <3>2
    <3>3. CASE s # n
      <4>1. s \in 1 .. n - 1
        BY <3>3
      <4>2. end[s] \in end[s - 1] + 1 .. m - (n - s)
        BY <1>3, <1>4, <4>1
      <4>3. QED
        BY <3>1, <4>2
    <3>4. QED
      BY <3>2, <3>3
  <2>2. QED
    BY <2>1
<1>6. ASSUME NEW s \in 1 .. n - 1, NEW e \in Ends(file, n, s, end[s - 1])
      PROVE  Away(Through(file, end[s]), Target(file, n, s))
               <= Away(Through(file, e), Target(file, n, s)) + 1
  <2>1. end[s - 1] \in Nat /\ s \in Nat
    BY <1>2
  <2>2. PICK x \in Nat : x = end[s] /\ x >= 1 /\ x <= m - (n - s)
    <3>1. end[s] \in end[s - 1] + 1 .. m - (n - s)
      BY <1>3, <1>4
    <3>2. QED
      BY <2>1, <3>1
  <2>3. e \in Nat /\ e >= 1 /\ e <= m - (n - s) /\ m - (n - s) \in 1 .. m - 1
        /\ e > end[s - 1]
    BY <1>4, <2>1, <2>2
  <2>4. PICK t \in Nat : t = Target(file, n, s)
    <3>1. PICK a \in Nat : a = (Through(file, NBlocks(file)) + TailBytes(file)) * s
      <4>1. Through(file, m) \in Nat
        <5>1. m \in 0 .. m
          OBVIOUS
        <5>2. QED
          BY <1>1, <5>1, ThroughGrows
      <4>2. TailBytes(file) \in Nat
        BY SizesAreNumbers
      <4>3. QED
        BY <1>1, <2>1, <4>1, <4>2
    <3>2. a \div n \in Nat
      BY Division
    <3>3. QED
      BY <3>1, <3>2 DEF Target
  <2>5. /\ \A i \in 0 .. m : Through(file, i) \in Nat
        /\ \A i \in 1 .. m : Through(file, i) = Through(file, i - 1) + BlockBytes(file, i)
                             /\ BlockBytes(file, i) \in Nat
        /\ \A i \in 0 .. m : \A d \in 0 .. i : Through(file, d) <= Through(file, i)
    BY <1>1, ThroughGrows, SizesAreNumbers
  <2>6. Through(file, e) \in Nat /\ Through(file, x) \in Nat
    BY <2>2, <2>3, <2>5
  <2>7. CASE e < x
    <3>1. x \in 1 .. m /\ x - 1 \in 0 .. m /\ e \in 0 .. x - 1
      BY <2>2, <2>3, <2>7
    <3>2. Through(file, e) <= Through(file, x - 1) /\ Through(file, x - 1) \in Nat
          /\ BlockBytes(file, x) \in Nat
          /\ Through(file, x) = Through(file, x - 1) + BlockBytes(file, x)
      BY <2>5, <3>1
    <3>3. x - 1 \in Ends(file, n, s, end[s - 1]) /\ x - 1 < x
      BY <1>4, <2>1, <2>2, <2>3, <2>7
    <3>4. ~Reached(file, n, s, x - 1)
      BY <1>3, <2>2, <3>3
    <3>5. (x - 1) + 1 = x
      OBVIOUS
    <3>6. PICK h \in Nat : h = BlockBytes(file, x) \div 2
      <4>1. 2 \in Nat \ {0}
        OBVIOUS
      <4>2. QED
        BY <3>2, <4>1, Division
    <3>7. Through(file, x - 1) + (BlockBytes(file, x) \div 2) < t
      BY <2>4, <3>2, <3>4, <3>5, <3>6 DEF Reached
    <3>8. QED
      BY <2>2, <2>4, <2>6, <3>2, <3>7, Nearer
  <2>8. CASE e > x
    <3>1. x \in 0 .. m /\ x + 1 \in 1 .. m /\ (x + 1) - 1 = x /\ e \in 0 .. m /\ x + 1 \in 0 .. e
      BY <2>2, <2>3, <2>8
    <3>2. Through(file, x + 1) <= Through(file, e) /\ BlockBytes(file, x + 1) \in Nat
          /\ Through(file, x + 1) = Through(file, x) + BlockBytes(file, x + 1)
      BY <2>5, <3>1
    <3>3. Reached(file, n, s, x)
      BY <1>3, <2>2, <2>8
    <3>4. Through(file, x) + (BlockBytes(file, x + 1) \div 2) >= t
      BY <2>4, <3>3 DEF Reached
    <3>5. QED
      BY <2>2, <2>4, <2>6, <3>2, <3>4, Nearer
  <2>9. CASE e = x
    BY <2>2, <2>4, <2>6, <2>9 DEF Away
  <2>10. QED
    BY <2>2, <2>3, <2>7, <2>8, <2>9
<1>7. QED
  BY <1>1, <1>2, <1>5, <1>6 DEF FairSplit, end

\* While the plan is open it is one of those tried.
Planned == pc = "plan" => plan.file \in Files /\ plan.devices \in Devices

\* The split plan_split makes is fair, whatever the file and however many devices:
\* every stage has blocks, every block a stage, and a stage ends where its bytes
\* are nearest to its share (Qwen35Pipeline::plan_split).
THEOREM Plans == Spec => []PlanFair
<1>1. Init => Planned
  BY DEF Init, Planned
<1>2. Planned /\ [Next]_vars => Planned'
  <2>1. SUFFICES ASSUME Planned, [Next]_vars
                 PROVE  Planned'
    OBVIOUS
  <2>2. CASE UNCHANGED vars
    BY <2>1, <2>2 DEF Planned, vars, setup, host
  <2>3. CASE Served
    BY <2>1, <2>3 DEF Planned, Served, vars, setup, host
  <2>4. CASE \E s \in Stages : Exec(s)
    BY <2>1, <2>4 DEF Planned, Exec, setup, host
  <2>5. CASE Host
    <3>1. pc' # "plan"
      BY <2>5 DEF Host, Build, BuildFails, Start, Over, Reset, PrefillStage, Prefilled, Capture,
                  Sample, Finish, Deliver, Disconnect, LaunchStage, DecodeFinish, FailPrefill,
                  FailCapture, FailLaunch, FailStuck
    <3>2. QED
      BY <3>1 DEF Planned
  <2>6. QED
    BY <2>1, <2>2, <2>3, <2>4, <2>5 DEF Next
<1>3. Planned => PlanFair
  <2>1. SUFFICES ASSUME Planned, pc = "plan", plan.devices <= NBlocks(plan.file)
                 PROVE  FairSplit(plan.file, plan.devices)
    BY DEF PlanFair
  <2>2. plan.file \in File /\ plan.devices \in Nat \ {0}
    BY <2>1, PipelineAssumption DEF Planned
  <2>3. QED
    BY <2>1, <2>2, PlanSplitFair
<1>4. QED
  BY <1>1, <1>2, <1>3, PTL DEF Spec

-----------------------------------------------------------------------------
(* Sequences as sets                                                        *)

Distinct(s) == \A i, j \in 1 .. Len(s) : s[i] = s[j] => i = j

\* What a sequence holds.
LEMMA ToSetIs ==
  ASSUME NEW T, NEW s \in Seq(T)
  PROVE  /\ ToSet(s) = {s[i] : i \in 1 .. Len(s)} /\ ToSet(s) \subseteq T
         /\ Len(s) \in Nat /\ \A i \in 1 .. Len(s) : s[i] \in T /\ s[i] \in ToSet(s)
<1>1. DOMAIN s = 1 .. Len(s) /\ Len(s) \in Nat
  OBVIOUS
<1>2. \A i \in 1 .. Len(s) : s[i] \in T
  BY ElementOfSeq
<1>3. QED
  BY <1>1, <1>2 DEF ToSet

\* One element more.
LEMMA Appending ==
  ASSUME NEW T, NEW s \in Seq(T), NEW e \in T
  PROVE  /\ Append(s, e) \in Seq(T) /\ Len(Append(s, e)) = Len(s) + 1
         /\ Append(s, e)[Len(s) + 1] = e
         /\ \A i \in 1 .. Len(s) : Append(s, e)[i] = s[i]
         /\ ToSet(Append(s, e)) = ToSet(s) \cup {e}
         /\ Distinct(s) /\ e \notin ToSet(s) => Distinct(Append(s, e))
<1>1. PICK n \in Nat : n = Len(s)
  OBVIOUS
<1> DEFINE a == Append(s, e)
<1>2. a \in Seq(T) /\ Len(a) = n + 1 /\ a[n + 1] = e /\ \A i \in 1 .. n : a[i] = s[i]
  BY <1>1, AppendProperties
<1> HIDE DEF a
<1>3. \A i \in 1 .. n + 1 : i \in 1 .. n \/ i = n + 1
  OBVIOUS
<1>4. /\ ToSet(s) = {s[i] : i \in 1 .. n} /\ \A i \in 1 .. n : s[i] \in ToSet(s)
  BY <1>1, ToSetIs
<1>5. ToSet(a) = {a[i] : i \in 1 .. n + 1}
  BY <1>2, ToSetIs
<1>6. ToSet(a) = ToSet(s) \cup {e}
  <2>1. n + 1 \in 1 .. n + 1 /\ \A i \in 1 .. n : i \in 1 .. n + 1
    OBVIOUS
  <2>2. QED
    BY <1>2, <1>3, <1>4, <1>5, <2>1, Zenon
<1>7. ASSUME Distinct(s), e \notin ToSet(s)
      PROVE  Distinct(a)
  <2>1. ASSUME NEW i \in 1 .. n + 1, NEW j \in 1 .. n + 1, a[i] = a[j]
        PROVE  i = j
    <3>1. CASE i \in 1 .. n /\ j \in 1 .. n
      BY <1>1, <1>2, <1>7, <2>1, <3>1 DEF Distinct
    <3>2. CASE i \in 1 .. n /\ j = n + 1
      BY <1>2, <1>4, <1>7, <2>1, <3>2
    <3>3. CASE j \in 1 .. n /\ i = n + 1
      BY <1>2, <1>4, <1>7, <2>1, <3>3
    <3>4. QED
      BY <1>3, <3>1, <3>2, <3>3
  <2>2. QED
    BY <1>2, <2>1 DEF Distinct
<1>8. QED
  BY <1>1, <1>2, <1>6, <1>7 DEF a

\* Two sequences, one after the other.
LEMMA Joining ==
  ASSUME NEW T, NEW s \in Seq(T), NEW u \in Seq(T)
  PROVE  /\ s \o u \in Seq(T) /\ Len(s \o u) = Len(s) + Len(u)
         /\ \A i \in 1 .. Len(s) : (s \o u)[i] = s[i]
         /\ \A i \in 1 .. Len(u) : (s \o u)[Len(s) + i] = u[i]
         /\ ToSet(s \o u) = ToSet(s) \cup ToSet(u)
         /\ Distinct(s) /\ Distinct(u) /\ ToSet(s) \cap ToSet(u) = {} => Distinct(s \o u)
<1>1. PICK n \in Nat : n = Len(s)
  OBVIOUS
<1>2. PICK m \in Nat : m = Len(u)
  OBVIOUS
<1> DEFINE a == s \o u
<1>3. /\ a \in Seq(T) /\ Len(a) = n + m
      /\ \A i \in 1 .. n + m : a[i] = IF i <= n THEN s[i] ELSE u[i - n]
  BY <1>1, <1>2, ConcatProperties
<1> HIDE DEF a
<1>4. \A i \in 1 .. n : a[i] = s[i]
  BY <1>3
<1>5. \A i \in 1 .. m : a[n + i] = u[i]
  <2>1. ASSUME NEW i \in 1 .. m
        PROVE  a[n + i] = u[i]
    <3>1. n + i \in 1 .. n + m /\ ~(n + i <= n) /\ (n + i) - n = i
      OBVIOUS
    <3>2. QED
      BY <1>3, <3>1
  <2>2. QED
    BY <2>1
<1>6. /\ ToSet(s) = {s[i] : i \in 1 .. n} /\ ToSet(u) = {u[i] : i \in 1 .. m}
      /\ ToSet(a) = {a[i] : i \in 1 .. n + m}
  BY <1>1, <1>2, <1>3, ToSetIs
<1>7. \A i \in 1 .. n + m : i \in 1 .. n \/ \E j \in 1 .. m : i = n + j
  <2>1. ASSUME NEW i \in 1 .. n + m, i \notin 1 .. n
        PROVE  \E j \in 1 .. m : i = n + j
    <3>1. i - n \in 1 .. m /\ i = n + (i - n)
      BY <2>1
    <3>2. QED
      BY <3>1
  <2>2. QED
    BY <2>1
<1>8. /\ \A i \in 1 .. n : i \in 1 .. n + m
      /\ \A i \in 1 .. m : n + i \in 1 .. n + m
  OBVIOUS
<1>9. ToSet(a) = ToSet(s) \cup ToSet(u)
  <2>1. ASSUME NEW x \in ToSet(a)
        PROVE  x \in ToSet(s) \cup ToSet(u)
    <3>1. PICK i \in 1 .. n + m : x = a[i]
      BY <1>6
    <3>2. QED
      BY <1>4, <1>5, <1>6, <1>7, <3>1
  <2>2. ASSUME NEW x \in ToSet(s)
        PROVE  x \in ToSet(a)
    BY <1>4, <1>6, <1>8
  <2>3. ASSUME NEW x \in ToSet(u)
        PROVE  x \in ToSet(a)
    BY <1>5, <1>6, <1>8
  <2>4. QED
    BY <2>1, <2>2, <2>3
<1>10. ASSUME Distinct(s), Distinct(u), ToSet(s) \cap ToSet(u) = {}
       PROVE  Distinct(a)
  <2>1. ASSUME NEW i \in 1 .. n + m, NEW j \in 1 .. n + m, a[i] = a[j]
        PROVE  i = j
    <3>1. CASE i \in 1 .. n /\ j \in 1 .. n
      BY <1>1, <1>4, <1>10, <2>1, <3>1 DEF Distinct
    <3>2. CASE i \in 1 .. n /\ \E k \in 1 .. m : j = n + k
      <4>1. a[i] \in ToSet(s) /\ a[j] \in ToSet(u)
        BY <1>4, <1>5, <1>6, <3>2
      <4>2. QED
        BY <1>10, <2>1, <4>1
    <3>3. CASE j \in 1 .. n /\ \E k \in 1 .. m : i = n + k
      <4>1. a[j] \in ToSet(s) /\ a[i] \in ToSet(u)
        BY <1>4, <1>5, <1>6, <3>3
      <4>2. QED
        BY <1>10, <2>1, <4>1
    <3>4. CASE (\E k \in 1 .. m : i = n + k) /\ (\E k \in 1 .. m : j = n + k)
      <4>1. PICK k \in 1 .. m : i = n + k
        BY <3>4
      <4>2. PICK l \in 1 .. m : j = n + l
        BY <3>4
      <4>3. u[k] = u[l]
        BY <1>5, <2>1, <4>1, <4>2
      <4>4. k = l
        BY <1>2, <1>10, <4>3 DEF Distinct
      <4>5. QED
        BY <4>1, <4>2, <4>4
    <3>5. QED
      BY <1>7, <3>1, <3>2, <3>3, <3>4
  <2>2. QED
    BY <1>3, <2>1 DEF Distinct
<1>11. QED
  BY <1>1, <1>2, <1>3, <1>4, <1>5, <1>9, <1>10 DEF a

\* Those of a sequence that are in a set.
LEMMA AmongIs ==
  ASSUME NEW T, NEW s \in Seq(T), NEW S
  PROVE  /\ Among(s, S) \in Seq(T) /\ ToSet(Among(s, S)) = ToSet(s) \cap S
         /\ Distinct(s) => Distinct(Among(s, S))
<1>1. PICK n \in Nat : n = Len(s)
  OBVIOUS
<1>2. /\ \A i \in 1 .. n : s[i] \in T
      /\ ToSet(s) = {s[i] : i \in 1 .. n}
  BY <1>1, ToSetIs
<1> DEFINE put(i, x) == IF s[i] \in S THEN Append(x, s[i]) ELSE x
           Make == [i \in 1 .. n |-> [x \in Seq(T) |-> put(i, x)]]
           Solves(f) == f = [i \in 0 .. Len(s) |-> IF i = 0 THEN <<>> ELSE put(i, f[i - 1])]
           c == CHOOSE f : Solves(f)
<1>3. \A i \in 1 .. n : \A x \in Seq(T) : put(i, x) \in Seq(T)
  BY <1>2, AppendProperties
<1>4. PICK g \in [0 .. n -> Seq(T)] : Recurs(g, n, <<>>, Make)
  <2>1. Make \in [1 .. n -> [Seq(T) -> Seq(T)]]
    BY <1>3
  <2>2. <<>> \in Seq(T)
    OBVIOUS
  <2> HIDE DEF Make
  <2>3. QED
    BY <2>1, <2>2, RecursionExists
<1>5. Solves(g)
  <2>1. g[0] = <<>>
    BY <1>4 DEF Recurs
  <2>2. ASSUME NEW i \in 1 .. n
        PROVE  g[i] = put(i, g[i - 1])
    <3>1. g[i - 1] \in Seq(T)
      BY <1>4
    <3>2. g[i] = Make[i][g[i - 1]]
      BY <1>4 DEF Recurs
    <3>3. QED
      BY <3>1, <3>2
  <2> HIDE DEF put
  <2>3. QED
    BY <1>1, <2>1, <2>2
<1>6. Solves(c)
  <2> HIDE DEF Solves
  <2>1. QED
    BY <1>5, Zenon
<1>7. Among(s, S) = c[n]
  BY <1>1, Zenon DEF Among
<1>8. c[0] = <<>> /\ \A i \in 1 .. n : c[i] = put(i, c[i - 1])
  <2>1. 0 \in 0 .. n
    OBVIOUS
  <2>2. \A i \in 1 .. n : i \in 0 .. n /\ i # 0
    OBVIOUS
  <2> HIDE DEF c, put
  <2>3. QED
    BY <1>1, <1>6, <2>1, <2>2
<1> HIDE DEF c, Solves
<1> DEFINE So == {i \in 0 .. n : /\ c[i] \in Seq(T) /\ ToSet(c[i]) = {s[j] : j \in 1 .. i} \cap S
                                 /\ Distinct(s) => Distinct(c[i])}
<1>9. 0 \in So
  <2>1. <<>> \in Seq(T) /\ ToSet(<<>>) = {} /\ Distinct(<<>>)
    BY DEF ToSet, Distinct
  <2>2. {s[j] : j \in 1 .. 0} = {}
    OBVIOUS
  <2>3. /\ c[0] \in Seq(T) /\ ToSet(c[0]) = {s[j] : j \in 1 .. 0} \cap S
        /\ Distinct(c[0]) /\ 0 \in 0 .. n
    BY <1>8, <2>1, <2>2
  <2>4. QED
    BY <2>3
<1>10. ASSUME NEW i \in 1 .. n, i - 1 \in So
       PROVE  i \in So
  <2> DEFINE x == c[i - 1]
  <2>1. /\ x \in Seq(T) /\ ToSet(x) = {s[j] : j \in 1 .. i - 1} \cap S
        /\ Distinct(s) => Distinct(x)
    BY <1>10
  <2>2. c[i] = put(i, x)
    BY <1>8
  <2> HIDE DEF x
  <2>3. \A j \in 1 .. i : j \in 1 .. i - 1 \/ j = i
    OBVIOUS
  <2>4. i \in 1 .. i /\ \A j \in 1 .. i - 1 : j \in 1 .. i
    OBVIOUS
  <2>5. {s[j] : j \in 1 .. i} = {s[j] : j \in 1 .. i - 1} \cup {s[i]}
    BY <2>3, <2>4, Zenon
  <2>6. CASE s[i] \in S
    <3>1. c[i] = Append(x, s[i]) /\ s[i] \in T
      BY <1>2, <2>2, <2>6
    <3>2. ASSUME Distinct(s)
          PROVE  s[i] \notin ToSet(x)
      <4>1. \A j \in 1 .. i - 1 : s[j] # s[i]
        <5>1. \A j \in 1 .. i - 1 : j \in 1 .. Len(s) /\ j # i
          BY <1>1
        <5>2. i \in 1 .. Len(s)
          BY <1>1
        <5>3. QED
          BY <3>2, <5>1, <5>2 DEF Distinct
      <4>2. QED
        BY <2>1, <4>1
    <3>3. /\ c[i] \in Seq(T) /\ ToSet(c[i]) = ToSet(x) \cup {s[i]}
          /\ Distinct(x) /\ s[i] \notin ToSet(x) => Distinct(c[i])
      <4>1. PICK e \in T : e = s[i]
        BY <3>1
      <4>2. /\ Append(x, e) \in Seq(T) /\ ToSet(Append(x, e)) = ToSet(x) \cup {e}
            /\ Distinct(x) /\ e \notin ToSet(x) => Distinct(Append(x, e))
        BY <2>1, Appending
      <4>3. QED
        BY <3>1, <4>1, <4>2
    <3>4. ToSet(c[i]) = {s[j] : j \in 1 .. i} \cap S
      BY <2>1, <2>5, <2>6, <3>3
    <3>5. i \in 0 .. n
      OBVIOUS
    <3>6. QED
      BY <2>1, <3>2, <3>3, <3>4, <3>5
  <2>7. CASE s[i] \notin S
    <3>1. c[i] = x
      BY <2>2, <2>7
    <3>2. ToSet(c[i]) = {s[j] : j \in 1 .. i} \cap S
      BY <2>1, <2>5, <2>7, <3>1
    <3>3. i \in 0 .. n
      OBVIOUS
    <3>4. QED
      BY <2>1, <3>1, <3>2, <3>3
  <2>8. QED
    BY <2>6, <2>7
<1>11. n \in So
  <2> HIDE DEF So
  <2>1. n \in 0 .. n
    OBVIOUS
  <2>2. QED
    BY <1>9, <1>10, <2>1, UpTo
<1>12. QED
  BY <1>2, <1>7, <1>11

\* A sequence that repeats nothing has as many elements as places.
LEMMA DistinctLength ==
  ASSUME NEW T, NEW s \in Seq(T), Distinct(s)
  PROVE  IsFiniteSet(ToSet(s)) /\ Cardinality(ToSet(s)) = Len(s)
<1>1. PICK n \in Nat : n = Len(s)
  OBVIOUS
<1>2. ToSet(s) = {s[i] : i \in 1 .. n} /\ \A i \in 1 .. n : s[i] \in ToSet(s)
  BY <1>1, ToSetIs
<1>3. DOMAIN s = 1 .. n /\ s = [i \in 1 .. n |-> s[i]]
  BY <1>1
<1>4. s \in [1 .. n -> ToSet(s)]
  BY <1>2, <1>3
<1>5. s \in Bijection(1 .. n, ToSet(s))
  <2>1. s \in Injection(1 .. n, ToSet(s))
    BY <1>1, <1>4 DEF Distinct, Injection, IsInjective
  <2>2. s \in Surjection(1 .. n, ToSet(s))
    BY <1>2, <1>4 DEF Surjection
  <2>3. QED
    BY <2>1, <2>2 DEF Bijection
<1>6. ExistsBijection(1 .. n, ToSet(s))
  BY <1>5 DEF ExistsBijection
<1>7. QED
  BY <1>1, <1>6, FS_NatBijection, FS_CountingElements

-----------------------------------------------------------------------------
(* The pools of buffers                                                     *)

Buffer == [id : Nat, size : Nat]

\* The buffers of a pool are numbered from 1, each number once.
Numbered(B, n) ==
  /\ \A a, b \in B : a.id = b.id => a = b
  /\ {b.id : b \in B} = 1 .. n

\* The buffers made for a pool: the free ones and those that are out.
Made(p, out_) == ToSet(p.free) \cup out_

\* A pool and the buffers that are out are all there are, each in one place.
Owned(p, out_) ==
  /\ p \in [free : Seq(Buffer), count : Nat] /\ Distinct(p.free)
  /\ out_ \subseteq Buffer /\ ToSet(p.free) \cap out_ = {}
  /\ Numbered(Made(p, out_), p.count)

\* Buffers of one size.
BufsOf(ids, size) == {[id |-> ids[i], size |-> size] : i \in DOMAIN ids}

OfSize(B, size) == {b \in B : b.size = size}

\* n buffers are taken: they are out and they were not, what is made is what was
\* and, only if none of that size is left, the buffers that were missing.
TakenFrom(p, out_, size, n, t) ==
  /\ t.ids \in Seq(Nat) /\ Len(t.ids) = n /\ Distinct(t.ids)
  /\ BufsOf(t.ids, size) \cap out_ = {}
  /\ Owned(t.pool, out_ \cup BufsOf(t.ids, size))
  /\ Made(p, out_) \subseteq Made(t.pool, out_ \cup BufsOf(t.ids, size))
  /\ p.count <= t.pool.count
  /\ \A b \in Made(t.pool, out_ \cup BufsOf(t.ids, size)) \ Made(p, out_) : b.size = size
  /\ \/ t.pool.count = p.count /\ Made(t.pool, out_ \cup BufsOf(t.ids, size)) = Made(p, out_)
     \/ /\ OfSize(ToSet(t.pool.free), size) = {}
        /\ Cardinality(OfSize(ToSet(p.free), size)) < n

\* DeviceBufPool::take, n times.
LEMMA TakenIs ==
  ASSUME NEW p, NEW out_, Owned(p, out_), NEW size \in Nat, NEW n \in Nat
  PROVE  TakenFrom(p, out_, size, n, Taken(p, size, n))
<1> DEFINE t == Taken(p, size, n)
           fit == Fitting(p, size)
           fits == {b \in ToSet(p.free) : b.size = size}
           ids == t.ids
           new == BufsOf(ids, size)
           made == Made(t.pool, out_ \cup new)
<1>1. /\ p.free \in Seq(Buffer) /\ Distinct(p.free) /\ ToSet(p.free) \subseteq Buffer
      /\ ToSet(p.free) \cap out_ = {} /\ out_ \subseteq Buffer
      /\ Numbered(Made(p, out_), p.count)
  BY ToSetIs DEF Owned
<1>2. PICK count \in Nat : count = p.count
  BY DEF Owned
<1>3. /\ fit \in Seq(Buffer) /\ Distinct(fit) /\ ToSet(fit) = fits
  <2>1. ToSet(p.free) \cap fits = fits
    OBVIOUS
  <2> HIDE DEF fits
  <2>2. /\ Among(p.free, fits) \in Seq(Buffer) /\ ToSet(Among(p.free, fits)) = ToSet(p.free) \cap fits
        /\ Distinct(Among(p.free, fits))
    BY <1>1, AmongIs
  <2>3. fit = Among(p.free, fits)
    BY DEF Fitting, fits
  <2>4. QED
    BY <2>1, <2>2, <2>3
<1>4. PICK m \in Nat : m = Len(fit)
  BY <1>3
<1>5. PICK r \in Nat : r = (IF m < n THEN m ELSE n)
  OBVIOUS
<1> HIDE DEF fit
<1>6. /\ ids = [i \in 1 .. n |-> IF i <= r THEN fit[m + 1 - i].id ELSE count + i - r]
      /\ t.pool.count = count + n - r
      /\ t.pool.free = Among(p.free, {b \in ToSet(p.free) : b.id \notin Range(ids)})
  BY <1>2, <1>4, <1>5 DEF Taken, fit
<1> HIDE DEF t, ids
<1>7. /\ r <= m /\ r <= n /\ (r = m \/ r = n)
  BY <1>5
<1>8. /\ \A i \in 1 .. m : fit[i] \in fits
      /\ \A b \in fits : \E i \in 1 .. m : b = fit[i]
  <2>1. ToSet(fit) = {fit[i] : i \in 1 .. m}
    BY <1>3, <1>4, ToSetIs
  <2>2. QED
    BY <1>3, <2>1
<1>9. \A b \in Made(p, out_) : b \in Buffer /\ b.id \in 1 .. count
  BY <1>1, <1>2 DEF Made, Numbered
<1>10. /\ \A i \in 1 .. n : i <= r =>
            /\ m + 1 - i \in 1 .. m /\ fit[m + 1 - i] \in fits
            /\ ids[i] = fit[m + 1 - i].id /\ ids[i] \in 1 .. count
            /\ [id |-> ids[i], size |-> size] = fit[m + 1 - i]
       /\ \A i \in 1 .. n : i > r => ids[i] = count + i - r /\ ids[i] > count
       /\ \A i \in 1 .. n : ids[i] \in Nat
  <2>1. ASSUME NEW i \in 1 .. n, i <= r
        PROVE  /\ m + 1 - i \in 1 .. m /\ fit[m + 1 - i] \in fits
               /\ ids[i] = fit[m + 1 - i].id /\ ids[i] \in 1 .. count
               /\ [id |-> ids[i], size |-> size] = fit[m + 1 - i]
    <3>1. m + 1 - i \in 1 .. m
      BY <1>7, <2>1
    <3>2. PICK b : b = fit[m + 1 - i] /\ b \in fits
      BY <1>8, <3>1
    <3>3. b \in ToSet(p.free) /\ b.size = size
      BY <3>2
    <3>4. b \in Buffer /\ b.id \in 1 .. count
      BY <1>9, <3>3 DEF Made
    <3>5. ids[i] = b.id
      BY <1>6, <2>1, <3>2
    <3>6. b = [id |-> b.id, size |-> b.size]
      BY <3>4 DEF Buffer
    <3>7. QED
      BY <3>1, <3>2, <3>3, <3>4, <3>5, <3>6
  <2>2. ASSUME NEW i \in 1 .. n, i > r
        PROVE  ids[i] = count + i - r /\ ids[i] > count /\ ids[i] \in Nat
    BY <1>6, <2>2
  <2>3. \A i \in 1 .. n : i <= r \/ i > r
    OBVIOUS
  <2>4. \A i \in 1 .. count : i \in Nat
    OBVIOUS
  <2>5. QED
    BY <2>1, <2>2, <2>3, <2>4
<1>11. /\ ids \in Seq(Nat) /\ Len(ids) = n /\ DOMAIN ids = 1 .. n
  <2>1. \A i \in 1 .. n : ids[i] \in Nat
    BY <1>10
  <2>2. ids = [i \in 1 .. n |-> ids[i]]
    BY <1>6
  <2>3. QED
    BY <2>1, <2>2
<1>12. Distinct(ids)
  <2>1. ASSUME NEW i \in 1 .. n, NEW j \in 1 .. n, ids[i] = ids[j]
        PROVE  i = j
    <3>1. CASE i <= r /\ j <= r
      <4>1. fit[m + 1 - i] = fit[m + 1 - j] /\ m + 1 - i \in 1 .. m /\ m + 1 - j \in 1 .. m
        BY <1>10, <2>1, <3>1
      <4>2. m + 1 - i = m + 1 - j
        BY <1>3, <1>4, <4>1 DEF Distinct
      <4>3. QED
        BY <4>2
    <3>2. CASE i > r /\ j > r
      BY <1>10, <2>1, <3>2
    <3>3. CASE i <= r /\ j > r
      <4>1. ids[i] \in 1 .. count
        BY <1>10, <3>3
      <4>2. ids[j] > count
        BY <1>10, <3>3
      <4>3. QED
        BY <2>1, <4>1, <4>2
    <3>4. CASE i > r /\ j <= r
      <4>1. ids[j] \in 1 .. count
        BY <1>10, <3>4
      <4>2. ids[i] > count
        BY <1>10, <3>4
      <4>3. QED
        BY <2>1, <4>1, <4>2
    <3>5. QED
      BY <3>1, <3>2, <3>3, <3>4
  <2>2. QED
    BY <1>11, <2>1 DEF Distinct
<1>13. new = {[id |-> ids[i], size |-> size] : i \in 1 .. n}
  BY <1>11 DEF BufsOf
<1> HIDE DEF new
<1>14. /\ new \subseteq Buffer
       /\ \A b \in new : b.size = size /\ (b \in fits \/ b.id \in count + 1 .. count + n - r)
       /\ \A b \in new : b.id \in Range(ids)
  <2>1. ASSUME NEW b \in new
        PROVE  /\ b \in Buffer /\ b.size = size /\ b.id \in Range(ids)
               /\ b \in fits \/ b.id \in count + 1 .. count + n - r
    <3>1. PICK i \in 1 .. n : b = [id |-> ids[i], size |-> size]
      BY <1>13
    <3>2. b.id = ids[i] /\ b.size = size
      BY <3>1
    <3>3. ids[i] \in Nat /\ ids[i] \in Range(ids)
      BY <1>10, <1>11 DEF Range
    <3>4. b \in Buffer
      BY <3>1, <3>3 DEF Buffer
    <3>5. b \in fits \/ b.id \in count + 1 .. count + n - r
      <4>1. CASE i <= r
        BY <1>10, <3>1, <4>1
      <4>2. CASE i > r
        <5>1. ids[i] = count + i - r
          BY <1>10, <4>2
        <5>2. QED
          BY <3>2, <4>2, <5>1, <1>7
      <4>3. QED
        BY <4>1, <4>2
    <3>6. QED
      BY <3>2, <3>3, <3>4, <3>5
  <2>2. QED
    BY <2>1
<1>15. /\ t.pool.free \in Seq(Buffer) /\ Distinct(t.pool.free)
       /\ ToSet(t.pool.free) = {b \in ToSet(p.free) : b.id \notin Range(ids)}
  <2> DEFINE S == {b \in ToSet(p.free) : b.id \notin Range(ids)}
  <2>1. ToSet(p.free) \cap S = S
    OBVIOUS
  <2>2. t.pool.free = Among(p.free, S)
    BY <1>6
  <2> HIDE DEF S
  <2>3. /\ Among(p.free, S) \in Seq(Buffer) /\ ToSet(Among(p.free, S)) = ToSet(p.free) \cap S
        /\ Distinct(Among(p.free, S))
    BY <1>1, AmongIs
  <2>4. t.pool.free \in Seq(Buffer) /\ Distinct(t.pool.free) /\ ToSet(t.pool.free) = S
    BY <2>1, <2>2, <2>3
  <2>5. QED
    BY <2>4 DEF S
<1>16. ASSUME NEW b \in ToSet(p.free), b.id \in Range(ids)
       PROVE  b \in new
  <2>1. PICK i \in 1 .. n : b.id = ids[i]
    BY <1>11, <1>16 DEF Range
  <2>2. b.id \in 1 .. count
    BY <1>9 DEF Made
  <2>3. i <= r
    BY <1>10, <2>1, <2>2
  <2>4. fit[m + 1 - i] \in fits /\ fit[m + 1 - i].id = b.id
        /\ [id |-> ids[i], size |-> size] = fit[m + 1 - i]
    BY <1>10, <2>1, <2>3
  <2>5. fit[m + 1 - i] = b
    BY <1>1, <2>4 DEF Numbered, Made
  <2>6. QED
    BY <1>13, <2>4, <2>5
<1>17. Made(p, out_) \subseteq made
  BY <1>15, <1>16 DEF Made
<1>18. \A b \in made : b \in Made(p, out_) \/ (b \in new /\ b.id \in count + 1 .. count + n - r)
  BY <1>14, <1>15 DEF Made
<1>19. new \cap out_ = {}
  <2>1. ASSUME NEW b \in new, b \in out_
        PROVE  FALSE
    <3>1. b.id \in 1 .. count
      BY <1>9, <2>1 DEF Made
    <3>2. b \in fits
      BY <1>14, <3>1
    <3>3. QED
      BY <1>1, <2>1, <3>2
  <2>2. QED
    BY <2>1
<1>20. ToSet(t.pool.free) \cap (out_ \cup new) = {}
  BY <1>1, <1>14, <1>15
<1>21. \A a, b \in made : a.id = b.id => a = b
  <2>1. SUFFICES ASSUME NEW a \in made, NEW b \in made, a.id = b.id
                 PROVE  a = b
    OBVIOUS
  <2>2. CASE a \in Made(p, out_) /\ b \in Made(p, out_)
    BY <1>1, <2>1, <2>2 DEF Numbered
  <2>3. CASE a \in Made(p, out_) /\ b \in new /\ b.id \in count + 1 .. count + n - r
    BY <1>9, <2>1, <2>3
  <2>4. CASE b \in Made(p, out_) /\ a \in new /\ a.id \in count + 1 .. count + n - r
    BY <1>9, <2>1, <2>4
  <2>5. CASE a \in new /\ b \in new
    <3>1. PICK i \in 1 .. n : a = [id |-> ids[i], size |-> size]
      BY <1>13, <2>5
    <3>2. PICK j \in 1 .. n : b = [id |-> ids[j], size |-> size]
      BY <1>13, <2>5
    <3>3. QED
      BY <2>1, <3>1, <3>2
  <2>6. QED
    BY <1>18, <2>2, <2>3, <2>4, <2>5
<1>22. {b.id : b \in made} = 1 .. count + n - r
  <2>1. ASSUME NEW b \in made
        PROVE  b.id \in 1 .. count + n - r
    <3>1. CASE b \in Made(p, out_)
      BY <1>7, <1>9, <3>1
    <3>2. CASE b.id \in count + 1 .. count + n - r
      BY <3>2
    <3>3. QED
      BY <1>18, <3>1, <3>2
  <2>2. ASSUME NEW k \in 1 .. count + n - r
        PROVE  \E b \in made : b.id = k
    <3>1. CASE k <= count
      <4>1. k \in {b.id : b \in Made(p, out_)}
        BY <1>1, <1>2, <3>1 DEF Numbered
      <4>2. QED
        BY <1>17, <4>1
    <3>2. CASE k > count
      <4>1. k - count + r \in 1 .. n /\ k - count + r > r /\ count + (k - count + r) - r = k
        BY <3>2, <1>7
      <4>2. ids[k - count + r] = k
        BY <1>6, <4>1
      <4>3. [id |-> k, size |-> size] \in new
        BY <1>13, <4>1, <4>2
      <4>4. [id |-> k, size |-> size] \in made
        BY <4>3 DEF Made
      <4>5. QED
        BY <4>4
    <3>3. QED
      BY <3>1, <3>2
  <2> HIDE DEF made
  <2>3. QED
    BY <2>1, <2>2
<1>23. t.pool.count = count + n - r /\ count + n - r \in Nat /\ p.count <= t.pool.count
  BY <1>2, <1>6, <1>7
<1>24. Owned(t.pool, out_ \cup new)
  <2>1. t.pool \in [free : Seq(Buffer), count : Nat]
    <3>1. t.pool = [free |-> t.pool.free, count |-> t.pool.count]
      BY DEF t, Taken
    <3>2. QED
      BY <1>15, <1>23, <3>1
  <2>2. Numbered(made, t.pool.count)
    BY <1>21, <1>22, <1>23 DEF Numbered
  <2>3. QED
    BY <1>1, <1>14, <1>15, <1>20, <2>1, <2>2 DEF Owned
<1>25. CASE r = n
  <2>1. t.pool.count = p.count
    BY <1>2, <1>23, <1>25
  <2>2. made = Made(p, out_)
    <3>1. \A b \in made : b \in Made(p, out_)
      BY <1>18, <1>25
    <3>2. QED
      BY <1>17, <3>1
  <2>3. QED
    BY <1>11, <1>12, <1>17, <1>19, <1>23, <1>24, <2>1, <2>2 DEF TakenFrom, new, ids, t
<1>26. CASE r # n
  <2>1. r = m /\ m < n
    BY <1>7, <1>26
  <2>2. OfSize(ToSet(t.pool.free), size) = {}
    <3>1. ASSUME NEW b \in ToSet(t.pool.free), b.size = size
          PROVE  FALSE
      <4>1. b \in fits /\ b.id \notin Range(ids)
        BY <1>15, <3>1
      <4>2. PICK j \in 1 .. m : b = fit[j]
        BY <1>8, <4>1
      <4>3. m + 1 - j \in 1 .. n /\ m + 1 - j <= r /\ m + 1 - (m + 1 - j) = j
        BY <2>1
      <4>4. ids[m + 1 - j] = b.id
        BY <1>6, <4>2, <4>3
      <4>5. QED
        BY <1>11, <4>1, <4>3, <4>4 DEF Range
    <3>2. QED
      BY <3>1 DEF OfSize
  <2>3. Cardinality(OfSize(ToSet(p.free), size)) < n
    <3>1. OfSize(ToSet(p.free), size) = ToSet(fit)
      BY <1>3 DEF OfSize
    <3>2. Cardinality(ToSet(fit)) = m
      BY <1>3, <1>4, DistinctLength
    <3>3. QED
      BY <2>1, <3>1, <3>2
  <2>4. \A b \in made \ Made(p, out_) : b.size = size
    BY <1>14, <1>18
  <2>5. QED
    BY <1>11, <1>12, <1>17, <1>19, <1>23, <1>24, <2>2, <2>3, <2>4 DEF TakenFrom, new, ids, t
<1>27. QED
  BY <1>25, <1>26

\* Buffers come back: those that were out are free, and nothing else changes.
GivenTo(p, out_, new, g) ==
  /\ Owned(g, out_) /\ Made(g, out_) = Made(p, out_ \cup new) /\ g.count = p.count

\* A sequence of buffers that were out is put behind the free ones.
LEMMA PutBack ==
  ASSUME NEW p, NEW out_, NEW s \in Seq(Buffer), Distinct(s),
         ToSet(s) \cap out_ = {}, Owned(p, out_ \cup ToSet(s))
  PROVE  GivenTo(p, out_, ToSet(s), [p EXCEPT !.free = @ \o s])
<1> DEFINE g == [p EXCEPT !.free = @ \o s]
           new == ToSet(s)
<1>1. /\ p \in [free : Seq(Buffer), count : Nat] /\ Distinct(p.free)
      /\ out_ \cup new \subseteq Buffer /\ ToSet(p.free) \cap (out_ \cup new) = {}
      /\ Numbered(Made(p, out_ \cup new), p.count)
  BY DEF Owned
<1>2. g.free = p.free \o s /\ g.count = p.count /\ g = [free |-> g.free, count |-> g.count]
  <2>1. DOMAIN p = {"free", "count"}
    BY <1>1
  <2>2. g = [f \in {"free", "count"} |-> IF f = "free" THEN p.free \o s ELSE p[f]]
    BY <2>1
  <2>3. g.free = p.free \o s /\ g.count = p.count /\ DOMAIN g = {"free", "count"}
    BY <2>2
  <2> HIDE DEF g
  <2>4. g = [f \in {"free", "count"} |-> g[f]]
    BY <2>2
  <2>5. QED
    BY <2>3, <2>4
<1> HIDE DEF g
<1>3. p.free \in Seq(Buffer)
  BY <1>1
<1>4. /\ p.free \o s \in Seq(Buffer) /\ ToSet(p.free \o s) = ToSet(p.free) \cup new
      /\ Distinct(p.free) /\ Distinct(s) /\ ToSet(p.free) \cap new = {} => Distinct(p.free \o s)
  BY <1>3, Joining
<1>5. g.free \in Seq(Buffer) /\ Distinct(g.free) /\ ToSet(g.free) = ToSet(p.free) \cup new
  BY <1>1, <1>2, <1>4
<1>6. Made(g, out_) = Made(p, out_ \cup new)
  BY <1>5 DEF Made
<1>7. g \in [free : Seq(Buffer), count : Nat]
  BY <1>1, <1>2, <1>5
<1>8. ToSet(g.free) \cap out_ = {}
  BY <1>1, <1>5
<1>9. QED
  BY <1>1, <1>2, <1>5, <1>6, <1>7, <1>8 DEF GivenTo, Owned, g

\* PooledBuf's drop, for some buffers of one size.
LEMMA GivenIs ==
  ASSUME NEW p, NEW out_, NEW size \in Nat, NEW ids \in Seq(Nat), Distinct(ids),
         BufsOf(ids, size) \cap out_ = {}, Owned(p, out_ \cup BufsOf(ids, size))
  PROVE  GivenTo(p, out_, BufsOf(ids, size), Given(p, size, ids))
<1> DEFINE s == [i \in DOMAIN ids |-> [id |-> ids[i], size |-> size]]
<1>1. PICK n \in Nat : n = Len(ids) /\ DOMAIN ids = 1 .. n
  OBVIOUS
<1>2. \A i \in 1 .. n : ids[i] \in Nat
  BY <1>1, ElementOfSeq
<1>3. s \in Seq(Buffer) /\ Len(s) = n /\ \A i \in 1 .. n : s[i] = [id |-> ids[i], size |-> size]
  <2>1. \A i \in 1 .. n : [id |-> ids[i], size |-> size] \in Buffer
    BY <1>2 DEF Buffer
  <2>2. s = [i \in 1 .. n |-> [id |-> ids[i], size |-> size]]
    BY <1>1
  <2>3. QED
    BY <2>1, <2>2
<1> HIDE DEF s
<1>4. Distinct(s)
  <2>1. ASSUME NEW i \in 1 .. n, NEW j \in 1 .. n, s[i] = s[j]
        PROVE  i = j
    <3>1. ids[i] = ids[j]
      BY <1>3, <2>1
    <3>2. QED
      BY <1>1, <3>1 DEF Distinct
  <2>2. QED
    BY <1>3, <2>1 DEF Distinct
<1>5. ToSet(s) = BufsOf(ids, size)
  <2>1. ToSet(s) = {s[i] : i \in 1 .. n}
    BY <1>3, ToSetIs
  <2>2. BufsOf(ids, size) = {[id |-> ids[i], size |-> size] : i \in 1 .. n}
    BY <1>1 DEF BufsOf
  <2>3. QED
    BY <1>3, <2>1, <2>2
<1>6. GivenTo(p, out_, ToSet(s), [p EXCEPT !.free = @ \o s])
  BY <1>3, <1>4, <1>5, PutBack
<1>7. QED
  BY <1>5, <1>6 DEF Given, s

\* No more than m buffers of any size.
Bounded(B, m) == \A z \in Nat : Cardinality(OfSize(B, z)) <= m

\* The buffers made are finitely many.
LEMMA MadeFinite ==
  ASSUME NEW p, NEW out_, Owned(p, out_)
  PROVE  /\ IsFiniteSet(Made(p, out_)) /\ Cardinality(Made(p, out_)) = p.count
         /\ IsFiniteSet(out_)
<1> DEFINE B == Made(p, out_)
           f == [b \in B |-> b.id]
<1>1. p.count \in Nat /\ Numbered(B, p.count)
  BY DEF Owned
<1>2. PICK n \in Nat : n = p.count
  BY <1>1
<1>3. /\ \A a, b \in B : a.id = b.id => a = b
      /\ {b.id : b \in B} = 1 .. n
  BY <1>1, <1>2 DEF Numbered
<1> HIDE DEF B
<1>4. f \in Injection(B, 1 .. n)
  BY <1>3 DEF Injection, IsInjective
<1>5. f \in Surjection(B, 1 .. n)
  BY <1>3 DEF Surjection
<1>6. IsFiniteSet(1 .. n) /\ Cardinality(1 .. n) = n
  <2>1. 1 \in Int /\ n \in Int
    OBVIOUS
  <2>2. IsFiniteSet(1 .. n) /\ Cardinality(1 .. n) = IF 1 > n THEN 0 ELSE n - 1 + 1
    BY <2>1, FS_Interval
  <2>3. QED
    BY <2>2
<1>7. IsFiniteSet(B) /\ Cardinality(B) = n
  BY <1>4, <1>5, <1>6, FS_Injection
<1>8. out_ \subseteq B
  BY DEF B, Made
<1>9. QED
  BY <1>2, <1>7, <1>8, FS_Subset DEF B

\* Buffers of n numbers are at most n.
LEMMA BufsCount ==
  ASSUME NEW n \in Nat, NEW ids, DOMAIN ids = 1 .. n, NEW size
  PROVE  IsFiniteSet(BufsOf(ids, size)) /\ Cardinality(BufsOf(ids, size)) <= n
<1> DEFINE f == [i \in 1 .. n |-> [id |-> ids[i], size |-> size]]
<1>1. f \in Surjection(1 .. n, BufsOf(ids, size))
  BY DEF BufsOf, Surjection
<1>2. IsFiniteSet(1 .. n) /\ Cardinality(1 .. n) = n
  <2>1. 1 \in Int /\ n \in Int
    OBVIOUS
  <2>2. IsFiniteSet(1 .. n) /\ Cardinality(1 .. n) = IF 1 > n THEN 0 ELSE n - 1 + 1
    BY <2>1, FS_Interval
  <2>3. QED
    BY <2>2
<1> HIDE DEF f
<1>3. IsFiniteSet(BufsOf(ids, size)) /\ Cardinality(BufsOf(ids, size)) <= Cardinality(1 .. n)
  BY <1>1, <1>2, FS_Surjection
<1>4. QED
  BY <1>2, <1>3

\* Buffers of n different numbers are n.
LEMMA BufsAre ==
  ASSUME NEW n \in Nat, NEW ids \in Seq(Nat), Len(ids) = n, Distinct(ids), NEW size
  PROVE  IsFiniteSet(BufsOf(ids, size)) /\ Cardinality(BufsOf(ids, size)) = n
<1> DEFINE f == [i \in 1 .. n |-> [id |-> ids[i], size |-> size]]
           B == BufsOf(ids, size)
<1>1. f \in Surjection(1 .. n, B)
  BY DEF BufsOf, Surjection
<1>2. f \in Injection(1 .. n, B)
  <2>1. \A i, j \in 1 .. n : f[i] = f[j] => ids[i] = ids[j]
    OBVIOUS
  <2>2. \A i, j \in 1 .. n : ids[i] = ids[j] => i = j
    BY DEF Distinct
  <2>3. f \in [1 .. n -> B]
    BY <1>1 DEF Surjection
  <2> HIDE DEF f
  <2>4. QED
    BY <2>1, <2>2, <2>3 DEF Injection, IsInjective
<1>3. IsFiniteSet(1 .. n) /\ Cardinality(1 .. n) = n
  <2>1. 1 \in Int /\ n \in Int
    OBVIOUS
  <2>2. IsFiniteSet(1 .. n) /\ Cardinality(1 .. n) = IF 1 > n THEN 0 ELSE n - 1 + 1
    BY <2>1, FS_Interval
  <2>3. QED
    BY <2>2
<1> HIDE DEF f, B
<1>4. IsFiniteSet(B) /\ Cardinality(B) <= n
  BY <1>1, <1>3, FS_Surjection
<1>5. n <= Cardinality(B) /\ Cardinality(B) \in Nat
  BY <1>2, <1>3, <1>4, FS_Injection, FS_CardinalityType
<1>6. QED
  BY <1>4, <1>5 DEF B

\* Two finite sets together.
LEMMA Together ==
  ASSUME NEW A, NEW B, IsFiniteSet(A), IsFiniteSet(B)
  PROVE  /\ IsFiniteSet(A \cup B) /\ Cardinality(A \cup B) <= Cardinality(A) + Cardinality(B)
         /\ Cardinality(A) \in Nat /\ Cardinality(B) \in Nat /\ Cardinality(A \cup B) \in Nat
         /\ Cardinality(A) <= Cardinality(A \cup B)
<1>1. /\ IsFiniteSet(A \cup B)
      /\ Cardinality(A \cup B) = Cardinality(A) + Cardinality(B) - Cardinality(A \cap B)
  BY FS_Union
<1>2. IsFiniteSet(A \cap B)
  BY FS_Subset
<1>3. Cardinality(A) \in Nat /\ Cardinality(B) \in Nat /\ Cardinality(A \cap B) \in Nat
      /\ Cardinality(A \cup B) \in Nat
  BY <1>1, <1>2, FS_CardinalityType
<1>4. Cardinality(A) <= Cardinality(A \cup B)
  BY <1>1, FS_Subset
<1>5. QED
  BY <1>1, <1>3, <1>4

\* However often buffers are taken, there are never more of a size than are out
\* with them.
LEMMA TakenBounded ==
  ASSUME NEW p, NEW out_, NEW size \in Nat, NEW n \in Nat, NEW t, Owned(p, out_),
         TakenFrom(p, out_, size, n, t),
         NEW m \in Nat, Bounded(Made(p, out_), m), Cardinality(out_) + n <= m
  PROVE  Bounded(Made(t.pool, out_ \cup BufsOf(t.ids, size)), m)
<1> DEFINE new == BufsOf(t.ids, size)
           now == Made(t.pool, out_ \cup new)
<1>1. SUFFICES ASSUME NEW z \in Nat
               PROVE  Cardinality(OfSize(now, z)) <= m
  BY DEF Bounded
<1>2. Cardinality(OfSize(Made(p, out_), z)) <= m
  BY DEF Bounded
<1>3. CASE now = Made(p, out_)
  BY <1>2, <1>3
<1>4. CASE z # size
  <2>1. /\ \A b \in now \ Made(p, out_) : b.size = size
        /\ Made(p, out_) \subseteq now
    BY DEF TakenFrom
  <2> HIDE DEF now
  <2>2. OfSize(now, z) = OfSize(Made(p, out_), z)
    BY <1>4, <2>1 DEF OfSize
  <2>3. QED
    BY <1>2, <2>2
<1>5. CASE z = size /\ OfSize(ToSet(t.pool.free), size) = {}
  <2>1. OfSize(now, z) \subseteq out_ \cup new
    BY <1>5 DEF Made, OfSize
  <2>2. IsFiniteSet(out_) /\ IsFiniteSet(new) /\ Cardinality(new) <= n
    <3>1. DOMAIN t.ids = 1 .. n
      BY DEF TakenFrom
    <3>2. QED
      BY <3>1, MadeFinite, BufsCount
  <2>3. /\ IsFiniteSet(out_ \cup new) /\ Cardinality(out_ \cup new) <= Cardinality(out_) + Cardinality(new)
        /\ Cardinality(out_) \in Nat /\ Cardinality(new) \in Nat /\ Cardinality(out_ \cup new) \in Nat
    BY <2>2, Together
  <2>4. /\ Cardinality(OfSize(now, z)) <= Cardinality(out_ \cup new)
        /\ Cardinality(OfSize(now, z)) \in Nat
    <3> HIDE DEF now, new
    <3>1. QED
      BY <2>1, <2>3, FS_Subset, FS_CardinalityType
  <2>5. QED
    BY <2>2, <2>3, <2>4
<1>6. QED
  BY <1>3, <1>4, <1>5 DEF TakenFrom

\* Buffers that are out together have different numbers.
LEMMA IdsApart ==
  ASSUME NEW p, NEW A, NEW B, Owned(p, A \cup B), B \cap A = {}
  PROVE  /\ \A a \in A, b \in B : a.id # b.id
         /\ \A a \in A \cup B : a.id \in 1 .. p.count
BY DEF Owned, Numbered, Made

\* What a chunk does to the pool of its stage, on its three buffers of size a and
\* those of its blocks of size b, with the buffers that are out already: its
\* activation stays out (g) or comes back too (f); or it had no more than the three (c).
Chunked(p, out_, a, b, o, w, g, f, c) ==
  LET ba == [id |-> o.ids[1], size |-> a]
      scratch == {o.ids[2], o.ids[3]} \cup {w.ids[i] : i \in 1 .. Inner}
  IN /\ ba \in Buffer /\ ba \notin out_ /\ ba.id \in 1 .. o.pool.count
     /\ Owned(g, out_ \cup {ba}) /\ Owned(f, out_) /\ Owned(c, out_)
     /\ g.count = w.pool.count /\ f.count = g.count /\ c.count = o.pool.count
     /\ p.count <= o.pool.count /\ o.pool.count <= w.pool.count
     /\ scratch \subseteq Nat /\ \A x \in out_ \cup {ba} : x.id \notin scratch
     /\ Made(p, out_) \subseteq Made(c, out_) /\ Made(c, out_) \subseteq Made(f, out_)
     /\ Made(g, out_ \cup {ba}) = Made(f, out_)
     /\ \A m \in Nat : Bounded(Made(p, out_), m) /\ Cardinality(out_) + 3 + Inner <= m =>
          Bounded(Made(c, out_), m) /\ Bounded(Made(f, out_), m)
     /\ Inner + (IF a = b THEN 3 ELSE 0) <= Cardinality(OfSize(Made(f, out_), b))

\* The buffers of a chunk: none is used twice, all but the activation are free
\* when it is enqueued, and no more are made than are needed at once.
LEMMA ChunkBuffers ==
  ASSUME NEW p, NEW out_, Owned(p, out_), NEW a \in Nat, NEW b \in Nat
  PROVE  LET o == Taken(p, a, 3)
             w == Taken(o.pool, b, Inner)
             i == Given(w.pool, b, w.ids)
             g == Given(i, a, <<o.ids[3], o.ids[2]>>)
         IN Chunked(p, out_, a, b, o, w, g, Given(g, a, <<o.ids[1]>>),
                    Given(o.pool, a, <<o.ids[3], o.ids[2], o.ids[1]>>))
<1> DEFINE o == Taken(p, a, 3)
           three == BufsOf(o.ids, a)
           w == Taken(o.pool, b, Inner)
           inner == BufsOf(w.ids, b)
           i == Given(w.pool, b, w.ids)
           back == <<o.ids[3], o.ids[2]>>
           g == Given(i, a, back)
           one == <<o.ids[1]>>
           f == Given(g, a, one)
           both == <<o.ids[3], o.ids[2], o.ids[1]>>
           c == Given(o.pool, a, both)
           ba == [id |-> o.ids[1], size |-> a]
<1>1. Inner \in Nat
  BY PipelineAssumption
<1>2. TakenFrom(p, out_, a, 3, o)
  <2>1. 3 \in Nat
    OBVIOUS
  <2>2. QED
    BY <2>1, TakenIs
<1> HIDE DEF o
<1>3. /\ o.ids \in Seq(Nat) /\ Len(o.ids) = 3 /\ Distinct(o.ids) /\ three \cap out_ = {}
      /\ Owned(o.pool, out_ \cup three) /\ Made(p, out_) \subseteq Made(o.pool, out_ \cup three)
      /\ p.count <= o.pool.count
  BY <1>2 DEF TakenFrom
<1>4. TakenFrom(o.pool, out_ \cup three, b, Inner, w)
  <2> HIDE DEF three
  <2>1. QED
    BY <1>1, <1>3, TakenIs
<1> HIDE DEF w
<1>5. /\ w.ids \in Seq(Nat) /\ Len(w.ids) = Inner /\ Distinct(w.ids)
      /\ inner \cap (out_ \cup three) = {}
      /\ Owned(w.pool, (out_ \cup three) \cup inner)
      /\ Made(o.pool, out_ \cup three) \subseteq Made(w.pool, (out_ \cup three) \cup inner)
      /\ o.pool.count <= w.pool.count
  BY <1>4 DEF TakenFrom
<1>6. /\ o.ids[1] \in Nat /\ o.ids[2] \in Nat /\ o.ids[3] \in Nat
      /\ o.ids[1] # o.ids[2] /\ o.ids[1] # o.ids[3] /\ o.ids[2] # o.ids[3]
      /\ DOMAIN o.ids = {1, 2, 3}
  <2>1. 1 \in 1 .. 3 /\ 2 \in 1 .. 3 /\ 3 \in 1 .. 3 /\ 1 .. 3 = {1, 2, 3}
    OBVIOUS
  <2>2. o.ids[1] \in Nat /\ o.ids[2] \in Nat /\ o.ids[3] \in Nat
    BY <1>3, <2>1, ElementOfSeq
  <2>3. DOMAIN o.ids = 1 .. 3
    BY <1>3
  <2>4. \A j, k \in 1 .. 3 : o.ids[j] = o.ids[k] => j = k
    BY <1>3 DEF Distinct
  <2>5. QED
    BY <2>1, <2>2, <2>3, <2>4
<1>7. /\ back \in Seq(Nat) /\ Distinct(back) /\ one \in Seq(Nat) /\ Distinct(one)
      /\ BufsOf(one, a) = {ba} /\ three = {ba} \cup BufsOf(back, a) /\ ba \notin BufsOf(back, a)
      /\ BufsOf(back, a) = {[id |-> o.ids[3], size |-> a], [id |-> o.ids[2], size |-> a]}
  <2>1. back \in Seq(Nat) /\ one \in Seq(Nat) /\ Len(back) = 2 /\ Len(one) = 1
        /\ back[1] = o.ids[3] /\ back[2] = o.ids[2] /\ one[1] = o.ids[1]
        /\ DOMAIN back = {1, 2} /\ DOMAIN one = {1}
    BY <1>6
  <2>2. Distinct(back) /\ Distinct(one)
    BY <1>6, <2>1 DEF Distinct
  <2> HIDE DEF back, one
  <2>3. BufsOf(one, a) = {ba}
    BY <2>1 DEF BufsOf
  <2>4. BufsOf(back, a) = {[id |-> o.ids[3], size |-> a], [id |-> o.ids[2], size |-> a]}
    BY <2>1 DEF BufsOf
  <2>5. three = {ba, [id |-> o.ids[2], size |-> a], [id |-> o.ids[3], size |-> a]}
    BY <1>6 DEF BufsOf
  <2>6. ba \notin BufsOf(back, a)
    <3>1. \A x, y : [id |-> x, size |-> a] = [id |-> y, size |-> a] => x = y
      OBVIOUS
    <3>2. QED
      BY <1>6, <2>4, <3>1
  <2>7. QED
    BY <2>1, <2>2, <2>3, <2>4, <2>5, <2>6
<1>8. GivenTo(w.pool, out_ \cup three, inner, i)
  <2> HIDE DEF three
  <2>1. QED
    BY <1>5, GivenIs
<1> HIDE DEF i
<1> DEFINE rest == BufsOf(back, a)
<1> HIDE DEF back
<1>9. three = {ba} \cup rest /\ out_ \cup three = (out_ \cup {ba}) \cup rest
      /\ rest \cap (out_ \cup {ba}) = {} /\ ba \notin out_
  BY <1>3, <1>7
<1>10. GivenTo(i, out_ \cup {ba}, rest, g)
  <2>1. Owned(i, (out_ \cup {ba}) \cup rest)
    BY <1>8, <1>9 DEF GivenTo
  <2> HIDE DEF ba
  <2>2. rest \cap (out_ \cup {ba}) = {}
    BY <1>9
  <2>3. QED
    BY <1>7, <2>1, <2>2, GivenIs
<1> HIDE DEF g
<1>11. GivenTo(g, out_, {ba}, f)
  <2>1. Owned(g, out_ \cup {ba}) /\ BufsOf(one, a) = {ba} /\ one \in Seq(Nat) /\ Distinct(one)
        /\ {ba} \cap out_ = {}
    BY <1>7, <1>9, <1>10 DEF GivenTo
  <2> HIDE DEF ba, one
  <2>2. GivenTo(g, out_, BufsOf(one, a), Given(g, a, one))
    BY <2>1, GivenIs
  <2>3. QED
    BY <2>1, <2>2
<1>12. GivenTo(o.pool, out_, three, c)
  <2>1. /\ both \in Seq(Nat) /\ Len(both) = 3 /\ DOMAIN both = {1, 2, 3}
        /\ both[1] = o.ids[3] /\ both[2] = o.ids[2] /\ both[3] = o.ids[1]
    BY <1>6
  <2> HIDE DEF both
  <2>2. Distinct(both)
    BY <1>6, <2>1 DEF Distinct
  <2>3. BufsOf(both, a) = three
    BY <1>6, <2>1 DEF BufsOf
  <2> HIDE DEF three
  <2>4. QED
    BY <1>3, <2>1, <2>2, <2>3, GivenIs
<1> HIDE DEF f, c, one, both
<1> DEFINE all == Made(w.pool, (out_ \cup three) \cup inner)
<1>13. Made(f, out_) = all /\ Made(g, out_ \cup {ba}) = all /\ Made(c, out_) = Made(o.pool, out_ \cup three)
  BY <1>8, <1>9, <1>10, <1>11, <1>12 DEF GivenTo
<1>14. /\ ba \in Buffer /\ ba.id \in 1 .. o.pool.count
  <2>1. ba \in Buffer
    BY <1>6 DEF Buffer
  <2>2. ba \in out_ \cup three /\ ba.id = o.ids[1]
    BY <1>9
  <2>3. QED
    <3>1. \A x \in out_ \cup three : x.id \in 1 .. o.pool.count
      <4> HIDE DEF three
      <4>1. QED
        BY <1>3, IdsApart
    <3>2. QED
      BY <2>1, <2>2, <3>1
<1>15. \A x \in out_ \cup {ba} : x.id \notin {o.ids[2], o.ids[3]} \cup {w.ids[k] : k \in 1 .. Inner}
  <2>1. \A x \in out_ \cup three, y \in inner : x.id # y.id
    <3> HIDE DEF three, inner
    <3>1. QED
      BY <1>5, IdsApart
  <2>2. ASSUME NEW k \in 1 .. Inner
        PROVE  \A x \in out_ \cup {ba} : x.id # w.ids[k]
    <3>1. [id |-> w.ids[k], size |-> b] \in inner
      BY <1>5 DEF BufsOf
    <3>2. \A x \in out_ \cup {ba} : x \in out_ \cup three
      BY <1>9
    <3> HIDE DEF inner, three
    <3>3. [id |-> w.ids[k], size |-> b].id = w.ids[k]
      OBVIOUS
    <3>4. QED
      BY <2>1, <3>1, <3>2, <3>3
  <2>3. \A x \in out_ \cup {ba}, y \in rest : x.id # y.id
    <3>1. Owned(o.pool, (out_ \cup {ba}) \cup rest)
      BY <1>3, <1>9
    <3> HIDE DEF rest, ba
    <3>2. QED
      BY <1>9, <3>1, IdsApart
  <2>4. \A x \in out_ \cup {ba} : x.id # o.ids[2] /\ x.id # o.ids[3]
    <3>1. /\ [id |-> o.ids[2], size |-> a] \in rest /\ [id |-> o.ids[2], size |-> a].id = o.ids[2]
          /\ [id |-> o.ids[3], size |-> a] \in rest /\ [id |-> o.ids[3], size |-> a].id = o.ids[3]
      BY <1>7
    <3> HIDE DEF rest, ba
    <3>2. QED
      BY <2>3, <3>1
  <2>5. QED
    BY <2>2, <2>4
<1>16. ASSUME NEW m \in Nat, Bounded(Made(p, out_), m), Cardinality(out_) + 3 + Inner <= m
       PROVE  Bounded(Made(c, out_), m) /\ Bounded(all, m)
  <2>1. IsFiniteSet(out_) /\ Cardinality(out_) \in Nat
    BY MadeFinite, FS_CardinalityType
  <2>2. Bounded(Made(o.pool, out_ \cup three), m)
    <3>1. Cardinality(out_) + 3 <= m /\ 3 \in Nat
      BY <1>1, <1>16, <2>1
    <3>2. QED
      BY <1>2, <1>16, <3>1, TakenBounded
  <2>3. Cardinality(out_ \cup three) + Inner <= m
    <3>1. IsFiniteSet(three) /\ Cardinality(three) <= 3
      <4>1. DOMAIN o.ids = 1 .. 3 /\ 3 \in Nat
        BY <1>3
      <4>2. QED
        BY <4>1, BufsCount
    <3>2. Cardinality(out_ \cup three) <= Cardinality(out_) + Cardinality(three)
          /\ Cardinality(three) \in Nat /\ Cardinality(out_ \cup three) \in Nat
      BY <2>1, <3>1, Together
    <3>3. QED
      BY <1>1, <1>16, <2>1, <3>1, <3>2
  <2>4. Bounded(all, m)
    <3> HIDE DEF three
    <3>1. QED
      BY <1>1, <1>3, <1>4, <1>16, <2>2, <2>3, TakenBounded
  <2>5. QED
    BY <1>13, <2>2, <2>4
<1>17. Inner + (IF a = b THEN 3 ELSE 0) <= Cardinality(OfSize(all, b))
  <2>1. /\ IsFiniteSet(inner) /\ Cardinality(inner) = Inner
        /\ IsFiniteSet(three) /\ Cardinality(three) = 3
    BY <1>1, <1>3, <1>5, BufsAre
  <2>2. IsFiniteSet(OfSize(all, b)) /\ Cardinality(OfSize(all, b)) \in Nat
    <3>1. IsFiniteSet(all)
      BY <1>5, MadeFinite
    <3>2. OfSize(all, b) \subseteq all
      BY DEF OfSize
    <3> HIDE DEF all
    <3>3. QED
      BY <3>1, <3>2, FS_Subset, FS_CardinalityType
  <2>3. inner \subseteq OfSize(all, b) /\ (a = b => three \subseteq OfSize(all, b))
    BY DEF BufsOf, OfSize, Made
  <2>4. inner \cap three = {}
    BY <1>5
  <2> HIDE DEF inner, three, all
  <2>5. CASE a # b
    <3>1. Cardinality(inner) <= Cardinality(OfSize(all, b))
      BY <2>2, <2>3, FS_Subset
    <3>2. QED
      BY <1>1, <2>1, <2>2, <2>5, <3>1
  <2>6. CASE a = b
    <3>1. /\ IsFiniteSet(inner \cup three)
          /\ Cardinality(inner \cup three) = Cardinality(inner) + Cardinality(three) - Cardinality(inner \cap three)
      BY <2>1, FS_Union
    <3>2. Cardinality(inner \cap three) = 0
      BY <2>4, FS_EmptySet
    <3>3. inner \cup three \subseteq OfSize(all, b)
      BY <2>3, <2>6
    <3>4. Cardinality(inner \cup three) <= Cardinality(OfSize(all, b))
      BY <2>2, <3>3, FS_Subset
    <3>5. QED
      BY <1>1, <2>1, <2>2, <2>6, <3>1, <3>2, <3>4
  <2>7. QED
    BY <2>5, <2>6
<1>18. Made(p, out_) \subseteq Made(c, out_) /\ Made(c, out_) \subseteq Made(f, out_)
  BY <1>3, <1>5, <1>13
<1>19. /\ Owned(g, out_ \cup {ba}) /\ Owned(f, out_) /\ Owned(c, out_)
       /\ g.count = w.pool.count /\ f.count = g.count /\ c.count = o.pool.count
  BY <1>8, <1>10, <1>11, <1>12 DEF GivenTo
<1>20. {o.ids[2], o.ids[3]} \cup {w.ids[k] : k \in 1 .. Inner} \subseteq Nat
  <2>1. \A k \in 1 .. Inner : w.ids[k] \in Nat
    BY <1>5, ElementOfSeq
  <2>2. QED
    BY <1>6, <2>1
<1> HIDE DEF all, three, inner, rest
<1>21. Chunked(p, out_, a, b, o, w, g, f, c)
  BY <1>3, <1>5, <1>9, <1>13, <1>14, <1>15, <1>16, <1>17, <1>18, <1>19, <1>20 DEF Chunked
<1>22. QED
  BY <1>21 DEF o, w, i, g, f, c, back, one, both

\* The activations the prefill keeps on a stage.
HeldOn(s) == {h.buf : h \in {x \in ToSet(held) : x.stage = s}}
Kept == held \in Seq([stage : Nat, buf : Buffer]) /\ Distinct(held)

BufsHeld(s) == LET mine == HeldBy(s) IN [i \in DOMAIN mine |-> mine[i].buf]

\* The activations of one stage, in their order.
LEMMA HeldBufs ==
  ASSUME Kept, NEW s
  PROVE  BufsHeld(s) \in Seq(Buffer) /\ Distinct(BufsHeld(s)) /\ ToSet(BufsHeld(s)) = HeldOn(s)
<1> DEFINE S == {h \in ToSet(held) : h.stage = s}
           Held == [stage : Nat, buf : Buffer]
           bufs == BufsHeld(s)
<1>1. held \in Seq(Held) /\ Distinct(held)
  BY DEF Kept
<1>2. ToSet(held) \cap S = S /\ ToSet(held) \subseteq Held
  BY <1>1, ToSetIs
<1>3. HeldBy(s) \in Seq(Held) /\ ToSet(HeldBy(s)) = S /\ Distinct(HeldBy(s))
  <2>1. HeldBy(s) = Among(held, S)
    BY DEF HeldBy
  <2> HIDE DEF S, Held
  <2>2. /\ Among(held, S) \in Seq(Held) /\ ToSet(Among(held, S)) = ToSet(held) \cap S
        /\ Distinct(held) => Distinct(Among(held, S))
    BY <1>1, AmongIs
  <2>3. QED
    BY <1>1, <1>2, <2>1, <2>2
<1>4. PICK mine \in Seq(Held) : mine = HeldBy(s)
  BY <1>3
<1>5. PICK n \in Nat : n = Len(mine) /\ DOMAIN mine = 1 .. n
  OBVIOUS
<1>6. \A i \in 1 .. n : mine[i] \in S /\ mine[i] \in Held /\ mine[i].stage = s
  <2>1. \A i \in 1 .. n : mine[i] \in S
    BY <1>3, <1>4, <1>5, ToSetIs
  <2>2. QED
    BY <1>2, <2>1
<1>7. bufs = [i \in 1 .. n |-> mine[i].buf]
  BY <1>4, <1>5 DEF BufsHeld
<1> HIDE DEF bufs
<1>8. bufs \in Seq(Buffer) /\ Len(bufs) = n /\ \A i \in 1 .. n : bufs[i] = mine[i].buf
  <2>1. \A i \in 1 .. n : mine[i].buf \in Buffer
    BY <1>6
  <2>2. QED
    BY <1>7, <2>1
<1>9. Distinct(bufs)
  <2>1. ASSUME NEW i \in 1 .. n, NEW j \in 1 .. n, bufs[i] = bufs[j]
        PROVE  i = j
    <3>1. mine[i].buf = mine[j].buf /\ mine[i].stage = mine[j].stage
      BY <1>6, <1>8, <2>1
    <3>2. mine[i] \in Held /\ mine[j] \in Held
      BY <1>6
    <3>3. mine[i] = mine[j]
      BY <3>1, <3>2
    <3>4. QED
      BY <1>3, <1>4, <1>5, <3>3 DEF Distinct
  <2>2. QED
    BY <1>8, <2>1 DEF Distinct
<1>10. ToSet(bufs) = HeldOn(s)
  <2>1. ToSet(bufs) = {bufs[i] : i \in 1 .. n}
    BY <1>8, ToSetIs
  <2>2. S = {mine[i] : i \in 1 .. n}
    BY <1>3, <1>4, <1>5, ToSetIs
  <2>3. HeldOn(s) = {h.buf : h \in S}
    BY DEF HeldOn
  <2> HIDE DEF S
  <2>4. ASSUME NEW b \in ToSet(bufs)
        PROVE  b \in HeldOn(s)
    <3>1. PICK i \in 1 .. n : b = bufs[i]
      BY <2>1
    <3>2. QED
      BY <1>8, <2>2, <2>3, <3>1
  <2>5. ASSUME NEW b \in HeldOn(s)
        PROVE  b \in ToSet(bufs)
    <3>1. PICK h \in S : b = h.buf
      BY <2>3
    <3>2. PICK i \in 1 .. n : h = mine[i]
      BY <2>2, <3>1
    <3>3. QED
      BY <1>8, <2>1, <3>1, <3>2
  <2>6. QED
    BY <2>4, <2>5
<1>11. QED
  BY <1>8, <1>9, <1>10 DEF bufs

\* drop(held) gives a stage its activations back.
LEMMA DroppedIs ==
  ASSUME Kept, NEW q, NEW s \in Stages, Owned(q[s], HeldOn(s))
  PROVE  GivenTo(q[s], {}, HeldOn(s), Dropped(q)[s])
<1>1. BufsHeld(s) \in Seq(Buffer) /\ Distinct(BufsHeld(s)) /\ ToSet(BufsHeld(s)) = HeldOn(s)
  BY HeldBufs
<1>2. Dropped(q)[s] = [q[s] EXCEPT !.free = @ \o BufsHeld(s)]
  BY DEF Dropped, BufsHeld
<1>3. PICK x : x = q[s]
  OBVIOUS
<1>4. PICK b : b = BufsHeld(s)
  OBVIOUS
<1>5. b \in Seq(Buffer) /\ Distinct(b) /\ ToSet(b) \cap {} = {}
  BY <1>1, <1>4
<1>6. {} \cup ToSet(b) = HeldOn(s)
  BY <1>1, <1>4
<1>7. Owned(x, {} \cup ToSet(b))
  BY <1>3, <1>6
<1>8. GivenTo(x, {}, ToSet(b), [x EXCEPT !.free = @ \o b])
  BY <1>5, <1>7, PutBack
<1>9. QED
  BY <1>1, <1>2, <1>3, <1>4, <1>8

\* PoolExact of one stage, in terms of the sets of its buffers.
LEMMA ExactIs ==
  ASSUME Kept, NEW s \in Stages, Owned(pool[s], HeldOn(s)), Bounded(Made(pool[s], HeldOn(s)), Most)
  PROVE  LET mine == HeldBy(s)
             all == pool[s].free \o [i \in DOMAIN mine |-> mine[i].buf]
         IN /\ {all[i].id : i \in DOMAIN all} = 1 .. pool[s].count
            /\ Len(all) = pool[s].count
            /\ \A i \in DOMAIN all :
                 Cardinality({j \in DOMAIN all : all[j].size = all[i].size}) <= Most
<1> DEFINE B == Made(pool[s], HeldOn(s))
           all == pool[s].free \o BufsHeld(s)
<1>1. /\ BufsHeld(s) \in Seq(Buffer) /\ Distinct(BufsHeld(s)) /\ ToSet(BufsHeld(s)) = HeldOn(s)
  BY HeldBufs
<1>2. /\ pool[s].free \in Seq(Buffer) /\ Distinct(pool[s].free)
      /\ ToSet(pool[s].free) \cap ToSet(BufsHeld(s)) = {} /\ pool[s].count \in Nat
      /\ {b.id : b \in B} = 1 .. pool[s].count
  BY <1>1 DEF Owned, Numbered
<1>3. all \in Seq(Buffer) /\ Distinct(all) /\ ToSet(all) = B
  BY <1>1, <1>2, Joining DEF Made
<1>4. IsFiniteSet(B) /\ Cardinality(B) = pool[s].count
  BY MadeFinite
<1> HIDE DEF all, B
<1>5. PICK n \in Nat : n = Len(all) /\ DOMAIN all = 1 .. n
  BY <1>3
<1>6. B = {all[i] : i \in 1 .. n} /\ \A i \in 1 .. n : all[i] \in Buffer /\ all[i] \in B
  BY <1>3, <1>5, ToSetIs
<1>7. Len(all) = pool[s].count
  BY <1>3, <1>4, DistinctLength
<1>8. {all[i].id : i \in DOMAIN all} = 1 .. pool[s].count
  BY <1>2, <1>5, <1>6
<1>9. ASSUME NEW i \in 1 .. n
      PROVE  Cardinality({j \in 1 .. n : all[j].size = all[i].size}) <= Most
  <2> DEFINE z == all[i].size
             J == {j \in 1 .. n : all[j].size = z}
             f == [j \in J |-> all[j]]
  <2>1. z \in Nat
    BY <1>6 DEF Buffer
  <2>2. Cardinality(OfSize(B, z)) <= Most
    BY <2>1 DEF Bounded, B
  <2>3. IsFiniteSet(OfSize(B, z))
    <3>1. OfSize(B, z) \subseteq B
      BY DEF OfSize
    <3>2. QED
      BY <1>4, <3>1, FS_Subset
  <2>4. f \in Bijection(J, OfSize(B, z))
    <3>1. f \in [J -> OfSize(B, z)]
      BY <1>6 DEF OfSize
    <3>2. \A j, k \in J : f[j] = f[k] => j = k
      BY <1>3, <1>5 DEF Distinct
    <3>3. \A b \in OfSize(B, z) : \E j \in J : f[j] = b
      BY <1>6 DEF OfSize
    <3> HIDE DEF f, J
    <3>4. QED
      BY <3>1, <3>2, <3>3 DEF Bijection, Injection, Surjection, IsInjective
  <2>5. Cardinality(J) = Cardinality(OfSize(B, z))
    <3>1. f \in Injection(J, OfSize(B, z)) /\ f \in Surjection(J, OfSize(B, z))
      BY <2>4 DEF Bijection
    <3> HIDE DEF f, J, z
    <3>2. QED
      BY <2>3, <3>1, FS_Injection
  <2>6. QED
    BY <2>2, <2>5
<1>10. QED
  BY <1>5, <1>7, <1>8, <1>9 DEF all, BufsHeld

-----------------------------------------------------------------------------
(* Arrays and chunks                                                        *)

\* f is a function on 1 .. n.
Array(f, n) == f = [i \in 1 .. n |-> f[i]]

\* A function on 1 .. n is a sequence.
LEMMA ArrayIs ==
  ASSUME NEW n \in Nat, NEW f, Array(f, n)
  PROVE  Len(f) = n /\ DOMAIN f = 1 .. n
<1> DEFINE T == {f[i] : i \in 1 .. n}
<1>1. f \in [1 .. n -> T]
  BY DEF Array
<1> HIDE DEF T
<1>2. f \in Seq(T) /\ DOMAIN f = 1 .. n
  BY <1>1
<1>3. QED
  BY <1>2

\* A quotient rounded up.
LEMMA CeilIs ==
  ASSUME NEW a \in Nat \ {0}, NEW b \in Nat \ {0}
  PROVE  Ceil(a, b) \in Nat \ {0} /\ (Ceil(a, b) - 1) * b < a /\ a <= Ceil(a, b) * b
<1>1. PICK c \in Nat : c = a + b - 1
  OBVIOUS
<1>2. PICK q \in Nat, r \in 0 .. b - 1 : q = c \div b /\ c = b * q + r
  BY <1>1, Division
<1>3. q # 0
  BY <1>1, <1>2
<1>4. PICK x \in Nat : x = b * q
  BY <1>2
<1>5. (q - 1) * b = x - b /\ q * b = x
  BY <1>4
<1>6. QED
  BY <1>1, <1>2, <1>3, <1>4, <1>5 DEF Ceil

\* Qwen35Pipeline::prefill_chunks: a chunk has a token at least.
LEMMA ChunkSizeIs ==
  ASSUME NEW n \in Nat \ {0}
  PROVE  ChunkSize(n) \in Nat \ {0}
<1>1. Tile \in Nat \ {0} /\ MaxChunk \in Nat \ {0}
  BY PipelineAssumption
<1>2. Ceil(n, 4) \in Nat \ {0}
  <2>1. 4 \in Nat \ {0}
    OBVIOUS
  <2>2. QED
    BY <2>1, CeilIs
<1>3. PICK d \in Nat \ {0} : d = Ceil(Ceil(n, 4), Tile)
  BY <1>1, <1>2, CeilIs
<1>4. d * Tile \in Nat \ {0}
  BY <1>1, <1>3
<1>5. QED
  BY <1>1, <1>3, <1>4 DEF ChunkSize

\* The positions behind the first t chunks of a prompt.
Behind(p, t) == IF t * ChunkSize(Len(p)) <= Len(p) THEN t * ChunkSize(Len(p)) ELSE Len(p)

\* The chunks of a prompt follow one another and are all of it.
LEMMA ChunksAre ==
  ASSUME NEW T, NEW p \in Seq(T), p # <<>>
  PROVE  /\ Len(ChunksOf(p)) \in Nat \ {0} /\ Len(ChunksOf(p)) <= Len(p)
         /\ ChunksOf(p) = [i \in 1 .. Len(ChunksOf(p)) |-> ChunksOf(p)[i]]
         /\ Behind(p, 0) = 0 /\ Behind(p, Len(ChunksOf(p))) = Len(p)
         /\ \A i \in 1 .. Len(ChunksOf(p)) :
              /\ ChunksOf(p)[i] \in Seq(T)
              /\ Behind(p, i - 1) \in Nat /\ Behind(p, i) \in Nat
              /\ Len(ChunksOf(p)[i]) = Behind(p, i) - Behind(p, i - 1)
              /\ Behind(p, i - 1) < Behind(p, i) /\ Behind(p, i) <= Len(p)
              /\ Behind(p, i - 1) = (i - 1) * ChunkSize(Len(p))
<1>1. PICK n \in Nat \ {0} : n = Len(p)
  OBVIOUS
<1>2. PICK c \in Nat \ {0} : c = ChunkSize(n)
  BY ChunkSizeIs
<1>3. PICK m \in Nat \ {0} : m = Ceil(n, c) /\ (m - 1) * c < n /\ n <= m * c
  BY CeilIs
<1> DEFINE a(i) == (i - 1) * c
           e(i) == IF i * c < n THEN i * c ELSE n
<1>4. ChunksOf(p) = [i \in 1 .. m |-> SubSeq(p, a(i) + 1, e(i))]
  BY <1>1, <1>2, <1>3 DEF ChunksOf
<1>5. Len(ChunksOf(p)) = m
  <2>1. Array(ChunksOf(p), m)
    BY <1>4 DEF Array
  <2>2. QED
    BY <2>1, ArrayIs
<1>6. m <= n
  <2>1. m - 1 <= (m - 1) * c
    <3>1. PICK k \in Nat : k = m - 1
      OBVIOUS
    <3>2. k <= k * c
      OBVIOUS
    <3>3. QED
      BY <3>1, <3>2
  <2>2. (m - 1) * c \in Nat
    OBVIOUS
  <2>3. QED
    BY <1>3, <2>1, <2>2
<1>7. \A t : Behind(p, t) = IF t * c <= n THEN t * c ELSE n
  BY <1>1, <1>2 DEF Behind
<1>8. Behind(p, 0) = 0 /\ Behind(p, m) = n
  <2>1. 0 * c = 0 /\ m * c \in Nat
    OBVIOUS
  <2>2. QED
    BY <1>3, <1>7, <2>1
<1>9. ASSUME NEW i \in 1 .. m
      PROVE  /\ ChunksOf(p)[i] \in Seq(T)
             /\ Behind(p, i - 1) \in Nat /\ Behind(p, i) \in Nat
             /\ Len(ChunksOf(p)[i]) = Behind(p, i) - Behind(p, i - 1)
             /\ Behind(p, i - 1) < Behind(p, i) /\ Behind(p, i) <= n
             /\ Behind(p, i - 1) = (i - 1) * c
  <2>1. PICK k \in Nat : k = a(i) /\ k + c = i * c /\ k < n
    <3>1. PICK j \in Nat : j = i - 1 /\ j <= m - 1
      OBVIOUS
    <3>2. j * c \in Nat /\ j * c + c = (j + 1) * c /\ j * c <= (m - 1) * c
      BY <3>1
    <3>3. j + 1 = i
      BY <3>1
    <3>4. (m - 1) * c \in Nat
      OBVIOUS
    <3>5. QED
      BY <1>3, <3>1, <3>2, <3>3, <3>4
  <2>2. Behind(p, i - 1) = k /\ Behind(p, i) = e(i)
    BY <1>7, <2>1
  <2>3. PICK l \in Nat : l = e(i) /\ k < l /\ l <= n
    BY <2>1
  <2>4. ChunksOf(p)[i] = SubSeq(p, k + 1, l)
    BY <1>4, <2>1, <2>3
  <2>5. SubSeq(p, k + 1, l) \in Seq(T) /\ Len(SubSeq(p, k + 1, l)) = l - k
    <3>1. k + 1 \in 1 .. Len(p) /\ l \in 1 .. Len(p) /\ k + 1 <= l
      BY <1>1, <2>3
    <3>2. SubSeq(p, k + 1, l) \in Seq(T)
      BY <3>1
    <3>3. Len(SubSeq(p, k + 1, l)) = IF k + 1 <= l THEN l - (k + 1) + 1 ELSE 0
      BY <2>3
    <3>4. QED
      BY <2>3, <3>2, <3>3
  <2>6. QED
    BY <2>1, <2>2, <2>3, <2>4, <2>5
<1>10. QED
  BY <1>1, <1>2, <1>4, <1>5, <1>6, <1>8, <1>9

Mark == Token \cup UNION {ToSet(p) : p \in Prompts} \cup {Bad}

\* Prompts are sequences of tokens with one at least.
LEMMA PromptIs ==
  ASSUME NEW p \in Prompts
  PROVE  p \in Seq(Mark) /\ p # <<>> /\ Len(p) \in Nat \ {0}
         /\ \A i \in 1 .. Len(p) : p[i] # Bad
<1>1. p \in Seq(ToSet(p) \ {Bad}) /\ p # <<>>
  BY PipelineAssumption
<1>2. ToSet(p) \ {Bad} \subseteq Mark
  BY DEF Mark
<1>3. PICK S : S = ToSet(p) \ {Bad}
  OBVIOUS
<1>4. p \in Seq(S) /\ S \subseteq Mark
  BY <1>1, <1>2, <1>3
<1>5. \A i \in 1 .. Len(p) : p[i] \in S
  BY <1>4, ElementOfSeq
<1>6. p \in Seq(Mark)
  BY <1>4
<1>7. QED
  BY <1>1, <1>3, <1>5, <1>6

\* Most leaves room for the chunks of every prompt that fits.
LEMMA MostIs ==
  /\ Most \in Nat
  /\ \A p \in Prompts : Len(p) <= MaxSeq => Len(ChunksOf(p)) + 2 + Inner <= Most
<1> DEFINE S == {0} \cup {Len(ChunksOf(p)) : p \in {q \in Prompts : Len(q) <= MaxSeq}}
<1>1. MaxSeq \in Nat /\ Inner \in Nat
  BY PipelineAssumption
<1>2. S \subseteq 0 .. MaxSeq
  <2>1. ASSUME NEW p \in Prompts, Len(p) <= MaxSeq
        PROVE  Len(ChunksOf(p)) \in 0 .. MaxSeq
    <3>1. p \in Seq(Mark) /\ p # <<>> /\ Len(p) \in Nat
      BY PromptIs
    <3>2. Len(ChunksOf(p)) \in Nat /\ Len(ChunksOf(p)) <= Len(p)
      BY <3>1, ChunksAre
    <3>3. QED
      BY <1>1, <2>1, <3>1, <3>2
  <2>2. QED
    BY <1>1, <2>1
<1>3. Max(S) \in S /\ \A y \in S : Max(S) >= y
  <2>1. S # {}
    OBVIOUS
  <2> HIDE DEF S
  <2>2. QED
    BY <1>1, <1>2, <2>1, Extremes
<1>4. \A p \in Prompts : Len(p) <= MaxSeq => Len(ChunksOf(p)) \in S
  OBVIOUS
<1>5. Most = Max(S) + 2 + Inner
  BY DEF Most
<1> HIDE DEF S
<1>6. PICK x \in Nat : x = Max(S)
  <2>1. Max(S) \in 0 .. MaxSeq
    BY <1>2, <1>3
  <2>2. QED
    BY <2>1
<1>7. ASSUME NEW p \in Prompts, Len(p) <= MaxSeq
      PROVE  Len(ChunksOf(p)) + 2 + Inner <= Most
  <2>1. PICK y \in S : y = Len(ChunksOf(p))
    BY <1>4, <1>7
  <2>2. y \in Nat /\ y <= x
    BY <1>1, <1>2, <1>3, <1>6
  <2>3. QED
    BY <1>1, <1>5, <1>6, <2>1, <2>2
<1>8. Most \in Nat
  BY <1>1, <1>5, <1>6
<1>9. QED
  BY <1>7, <1>8

-----------------------------------------------------------------------------
(* The invariant                                                            *)

\* The work a stage of n buffers may have in its queue.
Works(n) ==
  [op : {"copy"}, tag : Nat \X Nat, dst : 0 .. n, src : Seq(Nat), after : Nat \X Nat]
  \cup [op : {"embed"}, tag : Nat \X Nat, token : Mark]
  \cup [op : {"rows"}, tag : Nat \X Nat, buf : 1 .. n, scratch : SUBSET Nat, at : Nat,
        toks : Seq(Mark)]
  \cup [op : {"body"}, tag : Nat \X Nat]

\* The state of a stage is a record, and its rows are counted up to the context.
StageRecord(x) ==
  /\ x = [kinds |-> x.kinds, kv |-> x.kv, len |-> x.len, rec |-> x.rec, pos |-> x.pos]
  /\ x.len \in 0 .. MaxSeq /\ x.pos \in 0 .. MaxSeq

\* A stage with the buffers b, the work q, the pool p and the activations h kept:
\* its buffers are in its pool or kept, at most m of a size, and its work names them.
Fine(x, b, q, p, h, m) ==
  /\ StageRecord(x) /\ Array(b, p.count) /\ q \in Seq(Works(p.count))
  /\ Owned(p, h) /\ Bounded(Made(p, h), m)

Rig ==
  /\ LastStage \in Nat /\ Array(st, LastStage) /\ Array(pool, LastStage)
  /\ Array(buf, LastStage) /\ Array(queue, LastStage)
  /\ \A s \in 1 .. LastStage : Fine(st[s], buf[s], queue[s], pool[s], HeldOn(s), Most)

Serving == {"reset", "prefill", "prefilled", "capture", "sample", "launch", "deliver", "finish"}

\* What the host holds, and the request in hand, which fits the context.
Desk ==
  /\ pc \in Where
  /\ pc = "plan" => plan \in [file : Files, devices : Devices, split : Counts] /\ stage = 1
  /\ pc \notin {"plan", "refused"} => stage \in 1 .. LastStage
  /\ pc \in {"plan", "refused"} => LastStage = 0
  /\ graph \in BOOLEAN /\ served \in Nat /\ step \in Nat /\ prev \in Seq(Nat)
  /\ Kept /\ (pc \notin {"prefill", "prefilled"} => held = <<>>)
  /\ pc \notin {"reset", "prefill", "launch"} => stage = 1
  /\ pc \in Serving =>
       /\ prompt \in Prompts /\ max_tokens \in Nat /\ max_tokens + Slack > 0
       /\ Len(prompt) + max_tokens + Slack <= MaxSeq
       /\ out \in Seq(Token) /\ Len(out) <= max_tokens
  /\ pc \in {"reset", "prefill", "prefilled", "capture"} => out = <<>>
  /\ pc = "deliver" => out # <<>>
  /\ pc = "reset" => step = 0
  /\ pc = "prefill" =>
       /\ step < Len(ChunksOf(prompt))
       /\ chunks = [i \in 1 .. Len(ChunksOf(prompt)) - step |-> ChunksOf(prompt)[step + i]]

\* The steps a stage has been given.
Enq(s) == IF s < stage THEN step + 1 ELSE step

\* How far a stage has come, as the host counts it.
CountedAt(s, len, pos) ==
  /\ pc = "reset" /\ s < stage => pos = 0 /\ len = 0
  /\ pc = "prefill" =>
       pos = Behind(prompt, Enq(s)) /\ len = pos /\ Cardinality(HeldOn(s)) <= Enq(s)
  /\ pc \in {"prefilled", "capture", "sample", "finish"} => pos = Len(prompt) + Len(out)
  /\ pc = "launch" => pos = Len(prompt) + Len(out) - (IF s < stage THEN 0 ELSE 1)
  /\ pc = "deliver" => pos = Len(prompt) + Len(out) - (IF graph THEN 0 ELSE 1)
  /\ pc \in {"prefilled", "capture", "sample", "launch", "deliver", "finish"} =>
       IF graph /\ (pc = "sample" \/ out # <<>>) THEN len <= Len(prompt) + 1 ELSE len = pos
Counted == \A s \in 1 .. LastStage : CountedAt(s, st[s].len, st[s].pos)

Accounts == Rig /\ Desk /\ Counted

\* Nothing in the devices or the pools has changed.
LEMMA RigKept ==
  ASSUME Rig, st' = st, pool' = pool, buf' = buf, queue' = queue, held' = held
  PROVE  Rig' /\ LastStage' = LastStage
<1>1. LastStage' = LastStage /\ Most' = Most
  BY DEF LastStage, Most, ChunksOf, ChunkSize
<1>2. \A s : HeldOn(s)' = HeldOn(s)
  BY DEF HeldOn
<1>3. QED
  BY <1>1, <1>2 DEF Rig

\* There are as many stages as there were, and each is still fine.
LEMMA RigFrom ==
  ASSUME Rig, NEW n \in Nat, n = LastStage,
         Array(st', n), Array(pool', n), Array(buf', n), Array(queue', n),
         \A s \in 1 .. n : Fine(st'[s], buf'[s], queue'[s], pool'[s], HeldOn(s)', Most)
  PROVE  Rig' /\ LastStage' = LastStage
<1>1. LastStage' = n
  BY ArrayIs DEF LastStage
<1>2. Most' = Most
  <2>1. \A p_ : ChunksOf(p_)' = ChunksOf(p_)
    BY <1>1 DEF ChunksOf, ChunkSize
  <2>2. QED
    BY <2>1 DEF Most
<1>3. QED
  BY <1>1, <1>2 DEF Rig

\* An array of which one place was overwritten.
Changed(f, g, n, s, v) ==
  Array(g, n) /\ g[s] = v /\ \A t \in 1 .. n : t # s => g[t] = f[t]

LEMMA ChangedIs ==
  ASSUME NEW n \in Nat, NEW f, Array(f, n), NEW s \in 1 .. n
  PROVE  /\ \A v, g : g = [f EXCEPT ![s] = v] => Changed(f, g, n, s, v)
         /\ Changed(f, f, n, s, f[s])
<1>1. DOMAIN f = 1 .. n
  BY ArrayIs
<1>2. ASSUME NEW v, NEW g, g = [f EXCEPT ![s] = v]
      PROVE  Changed(f, g, n, s, v)
  <2>1. g = [t \in 1 .. n |-> IF t = s THEN v ELSE f[t]]
    BY <1>1, <1>2
  <2>2. QED
    BY <2>1 DEF Array, Changed
<1>3. QED
  BY <1>2 DEF Changed

\* The stages are what they were, but for one, which is still fine.
LEMMA RigOf ==
  ASSUME Rig, NEW n \in Nat, n = LastStage, NEW s \in 1 .. n, NEW x, NEW b, NEW q, NEW p,
         Changed(st, st', n, s, x), Changed(buf, buf', n, s, b),
         Changed(queue, queue', n, s, q), Changed(pool, pool', n, s, p),
         \A t \in 1 .. n : t # s => HeldOn(t)' = HeldOn(t),
         Fine(x, b, q, p, HeldOn(s)', Most)
  PROVE  Rig' /\ LastStage' = LastStage
<1>1. ASSUME NEW t \in 1 .. n
      PROVE  Fine(st'[t], buf'[t], queue'[t], pool'[t], HeldOn(t)', Most)
  <2>1. CASE t = s
    BY <2>1 DEF Changed
  <2>2. CASE t # s
    <3>1. Fine(st[t], buf[t], queue[t], pool[t], HeldOn(t), Most)
      BY DEF Rig
    <3>2. HeldOn(t)' = HeldOn(t)
      BY <2>2
    <3>3. QED
      BY <2>2, <3>1, <3>2 DEF Changed
  <2>3. QED
    BY <2>1, <2>2
<1>2. QED
  BY <1>1, RigFrom DEF Changed

\* The counters of a stage are moved.
LEMMA MovedIs ==
  ASSUME NEW x, StageRecord(x), NEW a, NEW b, x.len + a \in 0 .. MaxSeq, x.pos + b \in 0 .. MaxSeq
  PROVE  /\ StageRecord(Moved(x, a, b))
         /\ Moved(x, a, b) = [kinds |-> x.kinds, kv |-> x.kv, len |-> x.len + a, rec |-> x.rec,
                              pos |-> x.pos + b]
         /\ Moved(x, a, b).len = x.len + a /\ Moved(x, a, b).pos = x.pos + b
<1>1. x = [kinds |-> x.kinds, kv |-> x.kv, len |-> x.len, rec |-> x.rec, pos |-> x.pos]
  BY DEF StageRecord
<1> DEFINE y == Moved(x, a, b)
<1>2. y = [x EXCEPT !.len = x.len + a, !.pos = x.pos + b]
  BY DEF Moved
<1> HIDE DEF y
<1>3. y = [kinds |-> x.kinds, kv |-> x.kv, len |-> x.len + a, rec |-> x.rec, pos |-> x.pos + b]
  BY <1>1, <1>2
<1>4. StageRecord(y) /\ y.len = x.len + a /\ y.pos = x.pos + b
  BY <1>3 DEF StageRecord
<1>5. QED
  BY <1>3, <1>4 DEF y

-----------------------------------------------------------------------------
(* The host's steps between those on the stages                             *)

\* The activations kept are what they were.
LEMMA KeptOn ==
  ASSUME held' = held
  PROVE  (Kept => Kept') /\ \A s : HeldOn(s)' = HeldOn(s)
BY DEF Kept, HeldOn

\* Where a request is over nothing is kept.
LEMMA NothingKept ==
  ASSUME held' = <<>>
  PROVE  Kept' /\ \A s : HeldOn(s)' = {}
<1>1. ToSet(<<>>) = {} /\ <<>> \in Seq([stage : Nat, buf : Buffer]) /\ Distinct(<<>>)
  BY DEF ToSet, Distinct
<1>2. QED
  BY <1>1 DEF Kept, HeldOn

\* After Over the host is ready for the next request.
LEMMA OverDesk ==
  ASSUME Desk, Over, pc # "plan", pc # "refused", LastStage' = LastStage, LastStage \in Nat,
         graph' = graph, served' = served
  PROVE  Desk' /\ Counted'
<1>1. Kept'
  BY NothingKept DEF Over
<1>2. 1 \in 1 .. LastStage
  BY DEF Desk
<1>3. Desk'
  <2>1. <<>> \in Seq(Nat)
    OBVIOUS
  <2>2. QED
    BY <1>1, <1>2, <2>1 DEF Desk, Over, Where, Serving, None
<1>4. Counted'
  BY DEF Over, Counted, CountedAt
<1>5. QED
  BY <1>3, <1>4

\* A request is taken in.
LEMMA StartCounts ==
  ASSUME Accounts, Start
  PROVE  Accounts'
<1>1. Rig' /\ LastStage' = LastStage
  BY RigKept DEF Accounts, Start, device
<1>2. PICK p \in Prompts, n \in Lengths : Admitted(p, n) /\ prompt' = p /\ max_tokens' = n
  BY DEF Start
<1>3. /\ prompt' \in Prompts /\ max_tokens' \in Nat /\ max_tokens' + Slack > 0
      /\ Len(prompt') + max_tokens' + Slack <= MaxSeq
  BY <1>2, PipelineAssumption DEF Admitted
<1>4. Kept' /\ held' = <<>>
  BY KeptOn DEF Accounts, Desk, Start
<1>5. <<>> \in Seq(Token) /\ <<>> \in Seq(Nat) /\ Len(<<>>) = 0 /\ 1 \in 1 .. LastStage
  BY DEF Accounts, Desk, Rig, Start
<1>6. Desk'
  BY <1>1, <1>3, <1>4, <1>5 DEF Accounts, Desk, Start, Where, Serving, None
<1>7. Counted'
  BY <1>1 DEF Accounts, Start, Counted, CountedAt, Rig
<1>8. QED
  BY <1>1, <1>6, <1>7 DEF Accounts

\* A token is picked.
LEMMA SampleCounts ==
  ASSUME Accounts, Sample
  PROVE  Accounts'
<1>1. Rig' /\ LastStage' = LastStage
  BY RigKept DEF Accounts, Sample, device
<1>2. PICK t \in Token : out' = Append(out, t)
  BY DEF Sample
<1>3. PICK n \in Nat : n = Len(out) /\ n < max_tokens /\ out \in Seq(Token)
  BY DEF Accounts, Desk, Serving, Sample
<1>4. out' \in Seq(Token) /\ Len(out') = n + 1 /\ out' # <<>>
  BY <1>2, <1>3, AppendProperties
<1>5. Kept' /\ held' = <<>>
  BY KeptOn DEF Accounts, Desk, Sample
<1>6. PICK m \in Nat : m = Len(prompt)
  BY PromptIs DEF Accounts, Desk, Sample, Serving
<1>7. max_tokens \in Nat /\ n + 1 <= max_tokens
  BY <1>3 DEF Accounts, Desk, Sample, Serving
<1>8. Desk'
  BY <1>1, <1>3, <1>4, <1>5, <1>7 DEF Accounts, Desk, Sample, Where, Serving, setup
<1>9. ASSUME NEW s \in 1 .. LastStage
      PROVE  CountedAt(s, st[s].len, st[s].pos)'
  <2>1. CountedAt(s, st[s].len, st[s].pos) /\ st' = st /\ stage = 1 /\ stage' = 1 /\ s \in Nat /\ ~(s < stage)
    BY DEF Accounts, Counted, Sample, device, Desk, Rig
  <2>2. graph \in BOOLEAN
    BY DEF Accounts, Desk
  <2>3. QED
    BY <1>3, <1>4, <1>6, <2>1, <2>2 DEF Sample, CountedAt
<1>10. Counted'
  BY <1>1, <1>9 DEF Counted
<1>11. QED
  BY <1>1, <1>8, <1>10 DEF Accounts

\* The text of a token goes out.
LEMMA DeliverCounts ==
  ASSUME Accounts, Deliver
  PROVE  Accounts'
<1>1. Rig' /\ LastStage' = LastStage
  BY RigKept DEF Accounts, Deliver, device
<1>2. Kept' /\ held' = <<>>
  BY KeptOn DEF Accounts, Desk, Deliver
<1>3. graph \in BOOLEAN
  BY DEF Accounts, Desk
<1>4. Desk'
  BY <1>1, <1>2, <1>3 DEF Accounts, Desk, Deliver, Where, Serving, setup
<1>5. ASSUME NEW s \in 1 .. LastStage
      PROVE  CountedAt(s, st[s].len, st[s].pos)'
  <2>1. CountedAt(s, st[s].len, st[s].pos) /\ st' = st /\ stage = 1 /\ stage' = 1 /\ s \in Nat /\ ~(s < stage)
        /\ out # <<>>
    BY DEF Accounts, Counted, Deliver, device, Desk, Rig
  <2>2. QED
    BY <1>3, <2>1 DEF Deliver, CountedAt
<1>6. Counted'
  BY <1>1, <1>5 DEF Counted
<1>7. QED
  BY <1>1, <1>4, <1>6 DEF Accounts

\* The logits of a step are there.
LEMMA DecodeFinishCounts ==
  ASSUME Accounts, DecodeFinish
  PROVE  Accounts'
<1>1. Rig' /\ LastStage' = LastStage
  BY RigKept DEF Accounts, DecodeFinish, device
<1>2. Kept' /\ held' = <<>>
  BY KeptOn DEF Accounts, Desk, DecodeFinish
<1>3. graph \in BOOLEAN /\ None \in Seq(Nat)
  BY DEF Accounts, Desk, None
<1>4. Desk'
  BY <1>1, <1>2, <1>3 DEF Accounts, Desk, DecodeFinish, Where, Serving, setup
<1>5. ASSUME NEW s \in 1 .. LastStage
      PROVE  CountedAt(s, st[s].len, st[s].pos)'
  <2>1. CountedAt(s, st[s].len, st[s].pos) /\ st' = st
    BY DEF Accounts, Counted, DecodeFinish, device
  <2>2. QED
    BY <1>3, <2>1 DEF DecodeFinish, CountedAt
<1>6. Counted'
  BY <1>1, <1>5 DEF Counted
<1>7. QED
  BY <1>1, <1>4, <1>6 DEF Accounts

\* A request ends where its last token would have been picked, or its text sent.
LEMMA FinishCounts ==
  ASSUME Accounts, Finish \/ Disconnect
  PROVE  Accounts'
<1>1. Over /\ pc \in {"sample", "deliver"} /\ graph' = graph /\ pool' = pool /\ served' = served
      /\ UNCHANGED device
  BY DEF Finish, Disconnect
<1>2. held' = held
  BY <1>1 DEF Over, Accounts, Desk
<1>3. Rig' /\ LastStage' = LastStage /\ LastStage \in Nat
  BY <1>1, <1>2, RigKept DEF Accounts, device, Rig
<1>4. Desk' /\ Counted'
  BY <1>1, <1>3, OverDesk DEF Accounts
<1>5. QED
  BY <1>3, <1>4 DEF Accounts

\* Nothing changes.
LEMMA StutterCounts ==
  ASSUME Accounts, UNCHANGED vars
  PROVE  Accounts'
<1>1. Rig' /\ LastStage' = LastStage
  BY RigKept DEF Accounts, vars, host, device
<1>2. Kept' /\ \A s : HeldOn(s)' = HeldOn(s)
  BY KeptOn DEF Accounts, Desk, vars, host
<1>3. Desk'
  <2>1. ChunksOf(prompt)' = ChunksOf(prompt)
    BY <1>1 DEF ChunksOf, ChunkSize, vars, host
  <2>2. QED
    BY <1>1, <1>2, <2>1 DEF Accounts, Desk, vars, host, setup
<1>4. Counted'
  <2>1. \A t : Behind(prompt, t)' = Behind(prompt, t)
    BY <1>1 DEF Behind, ChunkSize, vars, host
  <2>2. \A s : Enq(s)' = Enq(s)
    BY DEF Enq, vars, host
  <2>3. QED
    BY <1>1, <1>2, <2>1, <2>2 DEF Accounts, Counted, CountedAt, vars, host, device
<1>5. QED
  BY <1>1, <1>3, <1>4 DEF Accounts

-----------------------------------------------------------------------------
(* The host's steps on the stages                                           *)

\* Most is a number whatever the stages are.
LEMMA MostAlways == [](Most \in Nat)
<1>1. Most \in Nat
  BY MostIs
<1>2. QED
  BY <1>1, PTL

\* A pool with nothing in it.
LEMMA EmptyPool ==
  ASSUME NEW m \in Nat
  PROVE  Owned([free |-> <<>>, count |-> 0], {}) /\ Bounded(Made([free |-> <<>>, count |-> 0], {}), m)
<1> DEFINE p == [free |-> <<>>, count |-> 0]
<1>1. ToSet(<<>>) = {} /\ <<>> \in Seq(Buffer) /\ Distinct(<<>>) /\ 1 .. 0 = {}
  BY DEF ToSet, Distinct
<1>2. Made(p, {}) = {} /\ \A z : OfSize({}, z) = {}
  BY <1>1 DEF Made, OfSize
<1>3. Owned(p, {})
  BY <1>1, <1>2 DEF Owned, Numbered
<1>4. Bounded(Made(p, {}), m)
  <2>1. \A z : Cardinality(OfSize({}, z)) = 0
    BY <1>2, FS_EmptySet
  <2> HIDE DEF p
  <2>2. QED
    BY <1>2, <2>1 DEF Bounded
<1>5. QED
  BY <1>3, <1>4

\* At first there are no stages.
LEMMA InitCounts == Init => Accounts
<1>1. SUFFICES ASSUME Init
               PROVE  Accounts
  OBVIOUS
<1>2. Array(<<>>, 0) /\ Len(<<>>) = 0 /\ <<>> \in Seq(Nat) /\ <<>> \in Seq([stage : Nat, buf : Buffer])
      /\ Distinct(<<>>)
  BY DEF Array, Distinct
<1>3. Rig /\ LastStage = 0
  BY <1>1, <1>2 DEF Init, Rig, LastStage, None
<1>4. Desk
  <2>1. plan \in [file : Files, devices : Devices, split : Counts]
    BY <1>1 DEF Init
  <2>2. Kept /\ prev \in Seq(Nat)
    BY <1>1, <1>2 DEF Init, Kept, None
  <2>3. QED
    BY <1>1, <1>3, <2>1, <2>2 DEF Init, Desk, Where, Serving
<1>5. Counted
  BY <1>3 DEF Counted
<1>6. QED
  BY <1>3, <1>4, <1>5 DEF Accounts

\* The model is loaded.
LEMMA BuildCounts ==
  ASSUME Accounts, Build
  PROVE  Accounts'
<1>1. PICK n \in Nat \ {0} : n = plan.devices
  BY PipelineAssumption DEF Accounts, Desk, Build
<1>2. DOMAIN Layout = 1 .. n
  BY <1>1 DEF Layout, KindsOf
<1>3. held = <<>> /\ held' = <<>>
  BY DEF Accounts, Desk, Build
<1>4. Kept' /\ \A s : HeldOn(s)' = {}
  BY <1>3, NothingKept
<1>5. /\ Array(st', n) /\ Array(pool', n) /\ Array(buf', n) /\ Array(queue', n)
  BY <1>2 DEF Build, Array
<1>6. LastStage' = n
  BY <1>5, ArrayIs DEF LastStage
<1>7. (Most \in Nat)'
  BY MostAlways, PTL
<1>8. ASSUME NEW s \in 1 .. n
      PROVE  Fine(st'[s], buf'[s], queue'[s], pool'[s], HeldOn(s)', Most')
  <2>1. /\ st'[s] = NewStage(Layout[s], MaxSeq) /\ pool'[s] = [free |-> <<>>, count |-> 0]
        /\ buf'[s] = <<>> /\ queue'[s] = <<>>
    BY <1>2 DEF Build
  <2>2. StageRecord(st'[s])
    BY <2>1, PipelineAssumption DEF NewStage, StageRecord
  <2>3. Array(<<>>, 0) /\ <<>> \in Seq(Works(0))
    BY DEF Array
  <2>4. PICK m \in Nat : m = Most'
    BY <1>7
  <2>5. Owned([free |-> <<>>, count |-> 0], {}) /\ Bounded(Made([free |-> <<>>, count |-> 0], {}), m)
    BY EmptyPool
  <2>6. HeldOn(s)' = {} /\ pool'[s].count = 0
    BY <1>4, <2>1
  <2>7. QED
    BY <2>1, <2>2, <2>3, <2>4, <2>5, <2>6 DEF Fine
<1>9. Rig'
  BY <1>5, <1>6, <1>8 DEF Rig
<1>10. Desk'
  BY <1>1, <1>4, <1>6 DEF Accounts, Desk, Build, Where, Serving
<1>11. Counted'
  BY DEF Build, Counted, CountedAt
<1>12. QED
  BY <1>9, <1>10, <1>11 DEF Accounts

\* The command line is refused.
LEMMA BuildFailsCounts ==
  ASSUME Accounts, BuildFails
  PROVE  Accounts'
<1>1. Rig' /\ LastStage' = LastStage
  BY RigKept DEF Accounts, BuildFails, device
<1>2. Kept' /\ held' = held
  BY KeptOn DEF Accounts, Desk, BuildFails
<1>3. Desk'
  BY <1>1, <1>2 DEF Accounts, Desk, BuildFails, Where, Serving
<1>4. Counted'
  BY DEF BuildFails, Counted, CountedAt
<1>5. QED
  BY <1>1, <1>3, <1>4 DEF Accounts

\* A stage is reset.
LEMMA ResetCounts ==
  ASSUME Accounts, Reset
  PROVE  Accounts'
<1>1. PICK n \in Nat : n = LastStage /\ stage \in 1 .. n
  BY DEF Accounts, Rig, Desk, Reset
<1>2. /\ Array(st, n) /\ Array(pool, n) /\ Array(buf, n) /\ Array(queue, n)
      /\ \A s \in 1 .. n : Fine(st[s], buf[s], queue[s], pool[s], HeldOn(s), Most)
  BY <1>1 DEF Accounts, Rig
<1>3. Kept' /\ held' = <<>> /\ (\A s : HeldOn(s)' = HeldOn(s)) /\ \A s : HeldOn(s)' = {}
  BY KeptOn, NothingKept DEF Accounts, Desk, Reset
<1> DEFINE x == ResetStage(st[stage])
<1>4. Changed(st, st', n, stage, x) /\ LastStage = n
  BY <1>1, <1>2, ChangedIs DEF Reset
<1>5. StageRecord(x) /\ x.len = 0 /\ x.pos = 0
  <2>1. StageRecord(st[stage]) /\ 0 \in 0 .. MaxSeq
    BY <1>1, <1>2, PipelineAssumption DEF Fine
  <2>2. x = [st[stage] EXCEPT !.len = 0, !.rec = <<>>, !.pos = 0]
    BY DEF ResetStage
  <2> HIDE DEF x
  <2>3. PICK r : r = st[stage]
    OBVIOUS
  <2>4. PICK y : y = [r EXCEPT !.len = 0, !.rec = <<>>, !.pos = 0]
    OBVIOUS
  <2>5. StageRecord(y) /\ y.len = 0 /\ y.pos = 0
    <3>1. r = [kinds |-> r.kinds, kv |-> r.kv, len |-> r.len, rec |-> r.rec, pos |-> r.pos]
      BY <2>1, <2>3 DEF StageRecord
    <3>2. y = [kinds |-> r.kinds, kv |-> r.kv, len |-> 0, rec |-> <<>>, pos |-> 0]
      BY <2>4, <3>1
    <3>3. QED
      BY <2>1, <3>2 DEF StageRecord
  <2>6. QED
    BY <2>2, <2>3, <2>4, <2>5
<1>6. /\ Changed(buf, buf', n, stage, buf[stage]) /\ Changed(queue, queue', n, stage, queue[stage])
      /\ Changed(pool, pool', n, stage, pool[stage])
  BY <1>1, <1>2, ChangedIs DEF Reset
<1>7. Fine(x, buf[stage], queue[stage], pool[stage], HeldOn(stage)', Most)
  BY <1>1, <1>2, <1>3, <1>5 DEF Fine
<1>8. Rig' /\ LastStage' = n
  <2> HIDE DEF x
  <2>1. QED
    BY <1>1, <1>3, <1>4, <1>6, <1>7, RigOf DEF Accounts
<1>9. prompt \in Prompts /\ prompt \in Seq(Mark) /\ prompt # <<>> /\ Len(prompt) \in Nat \ {0}
      /\ out = <<>> /\ Len(out) = 0
  BY PromptIs DEF Accounts, Desk, Serving, Reset
<1>10. /\ Len(ChunksOf(prompt)) \in Nat \ {0} /\ Behind(prompt, 0) = 0
       /\ ChunksOf(prompt) = [i \in 1 .. Len(ChunksOf(prompt)) |-> ChunksOf(prompt)[i]]
  BY <1>9, ChunksAre
<1>11. ChunksOf(prompt)' = ChunksOf(prompt) /\ Behind(prompt, 0)' = Behind(prompt, 0)
  BY <1>1, <1>8 DEF ChunksOf, ChunkSize, Behind, Reset
<1>12. Desk'
  <2>1. step = 0 /\ step' = 0
    BY DEF Accounts, Desk, Reset
  <2>2. ChunksOf(prompt) = [i \in 1 .. Len(ChunksOf(prompt)) - 0 |-> ChunksOf(prompt)[0 + i]]
    <3>1. PICK m \in Nat : m = Len(ChunksOf(prompt))
      BY <1>10
    <3>2. m - 0 = m /\ \A i \in 1 .. m : 0 + i = i
      OBVIOUS
    <3>3. QED
      BY <1>10, <3>1, <3>2
  <2>3. CASE pc' = "reset"
    BY <1>1, <1>3, <1>8, <2>1, <2>3 DEF Accounts, Desk, Reset, Where, Serving
  <2>4. CASE pc' = "launch"
    BY <1>1, <1>3, <1>8, <2>1, <2>4 DEF Accounts, Desk, Reset, Where, Serving
  <2>5. CASE pc' = "prefill"
    <3>1. chunks' = ChunksOf(prompt)
      BY <2>5 DEF Reset
    <3>2. (chunks = [i \in 1 .. Len(ChunksOf(prompt)) - step |-> ChunksOf(prompt)[step + i]])'
      BY <1>11, <2>1, <2>2, <3>1
    <3>3. (step < Len(ChunksOf(prompt)))'
      BY <1>10, <1>11, <2>1
    <3>4. QED
      BY <1>1, <1>3, <1>8, <2>1, <2>5, <3>2, <3>3 DEF Accounts, Desk, Reset, Where, Serving
  <2>6. QED
    BY <2>3, <2>4, <2>5 DEF Reset
<1>13. ASSUME NEW s \in 1 .. n
       PROVE  CountedAt(s, st[s].len, st[s].pos)'
  <2>1. s <= stage => st'[s].len = 0 /\ st'[s].pos = 0
    <3>1. CASE s = stage
      BY <1>4, <1>5, <3>1 DEF Changed
    <3>2. CASE s # stage
      <4>1. CountedAt(s, st[s].len, st[s].pos)
        BY <1>1 DEF Accounts, Counted
      <4>2. QED
        BY <1>1, <1>4, <3>2, <4>1 DEF Changed, CountedAt, Reset
    <3>3. QED
      BY <3>1, <3>2
  <2> HIDE DEF x
  <2>2. CASE pc' = "reset"
    BY <1>1, <2>1, <2>2 DEF Reset, CountedAt
  <2>3. CASE pc' = "launch"
    <3>1. stage' = 1 /\ ~(stage < LastStage) /\ ~(Len(prompt) > 1) /\ out' = out /\ prompt' = prompt
      BY <1>1, <2>3 DEF Reset
    <3>2. s <= stage
      BY <1>1, <3>1
    <3>3. Len(prompt) = 1 /\ ~(s < 1)
      <4>1. PICK m \in Nat \ {0} : m = Len(prompt)
        BY <1>9
      <4>2. QED
        BY <3>1, <4>1
    <3>4. QED
      BY <1>9, <2>1, <2>3, <3>1, <3>2, <3>3 DEF CountedAt
  <2>4. CASE pc' = "prefill"
    <3>1. stage' = 1 /\ st'[s].len = 0 /\ st'[s].pos = 0 /\ step' = 0 /\ ~(s < 1) /\ out' = <<>>
      BY <1>1, <1>9, <2>1, <2>4 DEF Reset, Accounts, Desk
    <3>2. Enq(s)' = 0 /\ Cardinality(HeldOn(s)') = 0
      BY <1>3, <3>1, FS_EmptySet DEF Enq
    <3>3. Behind(prompt, Enq(s))' = 0
      BY <1>10, <1>11, <3>2 DEF Behind, Reset
    <3>4. QED
      BY <2>4, <3>1, <3>2, <3>3 DEF CountedAt
  <2>5. QED
    BY <2>2, <2>3, <2>4 DEF Reset
<1>14. Counted'
  BY <1>8, <1>13 DEF Counted
<1>15. QED
  BY <1>8, <1>12, <1>14 DEF Accounts

\* A stage whose activations are dropped.
LEMMA DroppedFine ==
  ASSUME Kept, NEW x, NEW b, NEW q, NEW m, NEW p, NEW s \in Stages,
         Fine(x, b, q, p[s], HeldOn(s), m)
  PROVE  Fine(x, b, q, Dropped(p)[s], {}, m)
<1>1. GivenTo(p[s], {}, HeldOn(s), Dropped(p)[s])
  BY DroppedIs DEF Fine
<1>2. PICK g : g = Dropped(p)[s]
  OBVIOUS
<1>3. Owned(g, {}) /\ Made(g, {}) = Made(p[s], HeldOn(s)) /\ g.count = p[s].count
  <2>1. {} \cup HeldOn(s) = HeldOn(s)
    OBVIOUS
  <2>2. QED
    BY <1>1, <1>2, <2>1 DEF GivenTo
<1>4. QED
  BY <1>2, <1>3 DEF Fine

\* Every stage's activations are dropped.
LEMMA DropRig ==
  ASSUME Rig, Kept, pool' = Dropped(pool), held' = <<>>, UNCHANGED <<st, buf, queue>>
  PROVE  Rig' /\ LastStage' = LastStage
<1>1. PICK n \in Nat : n = LastStage
  BY DEF Rig
<1>2. /\ Array(st, n) /\ Array(pool, n) /\ Array(buf, n) /\ Array(queue, n)
      /\ \A s \in 1 .. n : Fine(st[s], buf[s], queue[s], pool[s], HeldOn(s), Most)
  BY <1>1 DEF Rig
<1>3. Stages = 1 .. n
  BY <1>2, ArrayIs DEF Stages
<1>4. \A s : HeldOn(s)' = {}
  BY NothingKept
<1>5. Array(Dropped(pool), n)
  BY <1>3 DEF Array, Dropped
<1>6. ASSUME NEW s \in 1 .. n
      PROVE  Fine(st'[s], buf'[s], queue'[s], pool'[s], HeldOn(s)', Most)
  <2>1. Fine(st[s], buf[s], queue[s], Dropped(pool)[s], {}, Most)
    BY <1>2, <1>3, DroppedFine
  <2>2. QED
    BY <1>4, <2>1
<1>7. QED
  BY <1>1, <1>2, <1>5, <1>6, RigFrom

\* The prompt is in: its activations are dropped.
LEMMA PrefilledCounts ==
  ASSUME Accounts, Prefilled
  PROVE  Accounts'
<1>1. Rig' /\ LastStage' = LastStage
  BY DropRig DEF Accounts, Desk, Prefilled, device
<1>2. Kept' /\ held' = <<>> /\ None \in Seq(Nat)
  BY NothingKept DEF Prefilled, None
<1>3. Desk'
  BY <1>1, <1>2 DEF Accounts, Desk, Prefilled, Where, Serving
<1>4. ASSUME NEW s \in 1 .. LastStage
      PROVE  CountedAt(s, st[s].len, st[s].pos)'
  <2>1. CountedAt(s, st[s].len, st[s].pos) /\ st' = st /\ out = <<>>
    BY DEF Accounts, Counted, Prefilled, device, Desk
  <2>2. QED
    BY <2>1 DEF Prefilled, CountedAt
<1>5. Counted'
  BY <1>1, <1>4 DEF Counted
<1>6. QED
  BY <1>1, <1>3, <1>5 DEF Accounts

\* A call on a stage left in a capture fails.
LEMMA FailStuckCounts ==
  ASSUME Accounts, FailStuck
  PROVE  Accounts'
<1>1. /\ Over /\ pool' = Dropped(pool) /\ UNCHANGED <<st, buf, queue>>
      /\ graph' = graph /\ served' = served /\ pc # "plan" /\ pc # "refused"
  BY DEF FailStuck, device
<1>2. Rig' /\ LastStage' = LastStage /\ LastStage \in Nat
  BY <1>1, DropRig DEF Accounts, Desk, Over, Rig
<1>3. Desk' /\ Counted'
  BY <1>1, <1>2, OverDesk DEF Accounts
<1>4. QED
  BY <1>2, <1>3 DEF Accounts

\* Only the counts of the stages change, within the context.
LEMMA RecountRig ==
  ASSUME Rig, NEW n \in Nat, n = LastStage, NEW l, st' = [s \in Stages |-> Moved(st[s], l[s], 0)],
         \A s \in 1 .. n : st[s].len + l[s] \in 0 .. MaxSeq,
         UNCHANGED <<pool, buf, queue>>, held' = held
  PROVE  /\ Rig' /\ LastStage' = LastStage
         /\ \A s \in 1 .. n : st'[s].len = st[s].len + l[s] /\ st'[s].pos = st[s].pos
<1>1. /\ Array(st, n) /\ Array(pool, n) /\ Array(buf, n) /\ Array(queue, n)
      /\ \A s \in 1 .. n : Fine(st[s], buf[s], queue[s], pool[s], HeldOn(s), Most)
  BY DEF Rig
<1>2. Stages = 1 .. n
  BY <1>1, ArrayIs DEF Stages
<1>3. Array(st', n)
  BY <1>2 DEF Array
<1>4. ASSUME NEW s \in 1 .. n
      PROVE  StageRecord(st'[s]) /\ st'[s].len = st[s].len + l[s] /\ st'[s].pos = st[s].pos
  <2>1. StageRecord(st[s])
    BY <1>1 DEF Fine
  <2>2. st[s].pos + 0 = st[s].pos /\ st[s].pos \in 0 .. MaxSeq /\ st'[s] = Moved(st[s], l[s], 0)
    BY <1>2, <2>1 DEF StageRecord
  <2>3. QED
    BY <2>1, <2>2, MovedIs
<1>5. \A s : HeldOn(s)' = HeldOn(s)
  BY KeptOn
<1>6. ASSUME NEW s \in 1 .. n
      PROVE  Fine(st'[s], buf'[s], queue'[s], pool'[s], HeldOn(s)', Most)
  BY <1>1, <1>4, <1>5 DEF Fine
<1>7. Rig' /\ LastStage' = LastStage
  BY <1>1, <1>3, <1>6, RigFrom
<1>8. QED
  BY <1>4, <1>7

\* Where a prompt is in, every stage has its rows and room for one more.
LEMMA AfterPrompt ==
  ASSUME Accounts, pc = "capture"
  PROVE  /\ \A s \in 1 .. LastStage : st[s].len = Len(prompt) /\ st[s].pos = Len(prompt)
         /\ Len(prompt) \in Nat /\ Len(prompt) + 1 <= MaxSeq /\ out = <<>>
<1>1. out = <<>> /\ Len(out) = 0
  BY DEF Accounts, Desk
<1>2. /\ prompt \in Prompts /\ max_tokens \in Nat /\ max_tokens + Slack > 0
      /\ Len(prompt) + max_tokens + Slack <= MaxSeq /\ Slack \in Nat /\ MaxSeq \in Nat
  BY PipelineAssumption DEF Accounts, Desk, Serving
<1>3. PICK m \in Nat : m = Len(prompt)
  BY <1>2, PromptIs
<1>4. m + 1 <= MaxSeq
  BY <1>2, <1>3
<1>5. ASSUME NEW s \in 1 .. LastStage
      PROVE  st[s].len = m /\ st[s].pos = m
  <2>1. CountedAt(s, st[s].len, st[s].pos)
    BY DEF Accounts, Counted
  <2>2. st[s].pos = Len(prompt) + Len(out) /\ st[s].len = st[s].pos
    BY <1>1, <2>1 DEF CountedAt
  <2>3. QED
    BY <1>1, <1>3, <2>2
<1>6. QED
  BY <1>1, <1>3, <1>4, <1>5

\* The decode graph is captured, or not.
LEMMA CaptureCounts ==
  ASSUME Accounts, Capture
  PROVE  Accounts'
<1>1. PICK n \in Nat : n = LastStage
  BY DEF Accounts, Rig
<1>2. /\ \A s \in 1 .. n : st[s].len = Len(prompt) /\ st[s].pos = Len(prompt)
      /\ Len(prompt) \in Nat /\ Len(prompt) + 1 <= MaxSeq /\ out = <<>>
  BY <1>1, AfterPrompt DEF Capture
<1>3. held' = held /\ held = <<>> /\ UNCHANGED <<pool, buf, queue>>
  BY DEF Capture, Accounts, Desk
<1>4. PICK m \in Nat : m = Len(prompt)
  BY <1>2
<1>5. /\ Rig' /\ LastStage' = LastStage /\ graph' \in BOOLEAN
      /\ \A s \in 1 .. n : /\ st'[s].pos = m /\ st'[s].len <= m + 1
                           /\ ~graph' => st'[s].len = m
  <2>1. CASE graphs /\ ~graph
    <3> DEFINE l == [s \in 1 .. n |-> 1]
    <3>1. Stages = 1 .. n
      BY <1>1, ArrayIs DEF Stages, Accounts, Rig
    <3>2. st' = [s \in Stages |-> Moved(st[s], l[s], 0)] /\ graph' = TRUE
      <4>1. st' = [s \in Stages |-> Moved(st[s], 1, 0)] /\ graph' = TRUE
        BY <2>1 DEF Capture
      <4>2. \A s \in Stages : l[s] = 1
        BY <3>1
      <4> HIDE DEF l
      <4>3. QED
        BY <4>1, <4>2
    <3>3. \A s \in 1 .. n : st[s].len + l[s] = m + 1 /\ st[s].len + l[s] \in 0 .. MaxSeq
      <4>1. MaxSeq \in Nat
        BY PipelineAssumption
      <4>2. \A s \in 1 .. n : st[s].len + l[s] = m + 1
        BY <1>2, <1>4
      <4> HIDE DEF l
      <4>3. QED
        BY <1>2, <1>4, <4>1, <4>2
    <3> HIDE DEF l
    <3>4. /\ Rig' /\ LastStage' = LastStage
          /\ \A s \in 1 .. n : st'[s].len = st[s].len + l[s] /\ st'[s].pos = st[s].pos
      BY <1>1, <1>3, <3>2, <3>3, RecountRig DEF Accounts
    <3>5. ASSUME NEW s \in 1 .. n
          PROVE  st'[s].pos = m /\ st'[s].len = m + 1
      BY <1>2, <1>4, <3>3, <3>4
    <3>6. \A s \in 1 .. n : st'[s].pos = m /\ st'[s].len <= m + 1
      BY <1>4, <3>5
    <3>7. graph' \in BOOLEAN /\ graph'
      BY <3>2
    <3>8. QED
      BY <3>4, <3>6, <3>7
  <2>2. CASE ~(graphs /\ ~graph)
    <3>1. st' = st /\ graph' = graph
      BY <2>2 DEF Capture
    <3>2. Rig' /\ LastStage' = LastStage
      BY <1>3, <3>1, RigKept DEF Accounts
    <3>3. QED
      BY <1>2, <1>4, <3>1, <3>2 DEF Accounts, Desk
  <2>3. QED
    BY <2>1, <2>2
<1>6. Kept'
  BY <1>3, KeptOn DEF Accounts, Desk
<1>7. Desk'
  BY <1>3, <1>5, <1>6 DEF Accounts, Desk, Capture, Where, Serving
<1>8. ASSUME NEW s \in 1 .. n
      PROVE  CountedAt(s, st[s].len, st[s].pos)'
  BY <1>2, <1>4, <1>5 DEF Capture, CountedAt
<1>9. Counted'
  BY <1>1, <1>5, <1>8 DEF Counted
<1>10. QED
  BY <1>5, <1>7, <1>9 DEF Accounts

\* The capture fails on a stage.
LEMMA FailCaptureCounts ==
  ASSUME Accounts, FailCapture
  PROVE  Accounts'
<1>1. PICK n \in Nat : n = LastStage
  BY DEF Accounts, Rig
<1>2. /\ \A s \in 1 .. n : st[s].len = Len(prompt)
      /\ Len(prompt) \in Nat /\ Len(prompt) + 1 <= MaxSeq
  BY <1>1, AfterPrompt DEF FailCapture
<1>3. /\ Over /\ held' = held /\ UNCHANGED <<pool, buf, queue>>
      /\ graph' = graph /\ served' = served /\ pc # "plan" /\ pc # "refused"
  BY DEF FailCapture, Accounts, Desk, Over
<1>4. PICK ran : st' = [s \in Stages |-> Moved(st[s], IF s <= ran THEN 1 ELSE 0, 0)]
  BY DEF FailCapture
<1> DEFINE l == [s \in 1 .. n |-> IF s <= ran THEN 1 ELSE 0]
<1>5. st' = [s \in Stages |-> Moved(st[s], l[s], 0)]
  <2>1. Stages = 1 .. n
    BY <1>1, ArrayIs DEF Stages, Accounts, Rig
  <2>2. \A s \in Stages : l[s] = IF s <= ran THEN 1 ELSE 0
    BY <2>1
  <2> HIDE DEF l
  <2>3. QED
    BY <1>4, <2>2
<1>6. \A s \in 1 .. n : st[s].len + l[s] \in 0 .. MaxSeq
  <2>1. MaxSeq \in Nat
    BY PipelineAssumption
  <2>2. PICK m \in Nat : m = Len(prompt)
    BY <1>2
  <2>3. QED
    BY <1>2, <2>1, <2>2
<1> HIDE DEF l
<1>7. Rig' /\ LastStage' = LastStage
  BY <1>1, <1>3, <1>5, <1>6, RecountRig DEF Accounts
<1>8. Desk' /\ Counted'
  BY <1>1, <1>3, <1>7, OverDesk DEF Accounts
<1>9. QED
  BY <1>7, <1>8 DEF Accounts

\* A stage that has more buffers may still have its work.
LEMMA WorksGrow ==
  ASSUME NEW m \in Nat, NEW n \in Nat, m <= n
  PROVE  Works(m) \subseteq Works(n) /\ Seq(Works(m)) \subseteq Seq(Works(n))
<1>1. 0 .. m \subseteq 0 .. n /\ 1 .. m \subseteq 1 .. n
  OBVIOUS
<1>2. Works(m) \subseteq Works(n)
  BY <1>1 DEF Works
<1>3. QED
  BY <1>2

\* What a launch puts into the queue of its stage.
LEMMA LaunchWork ==
  ASSUME Accounts, pc = "launch", NEW n \in Nat
  PROVE  StepInput \in Seq(Works(n)) /\ <<Body>> \in Seq(Works(n))
<1>1. Tag \in Nat \X Nat /\ prev \in Seq(Nat)
  BY DEF Accounts, Desk, Tag
<1>2. Body \in Works(n)
  BY <1>1 DEF Body, Works
<1>3. Copy(HiddenA) \in Works(n)
  <2>1. 0 \in 0 .. n
    OBVIOUS
  <2>2. QED
    BY <1>1, <2>1 DEF Copy, Works, HiddenA
<1>4. Embed(Decoded) \in Works(n)
  <2>1. prompt \in Seq(Mark) /\ prompt # <<>> /\ out \in Seq(Token)
    BY PromptIs DEF Accounts, Desk, Serving
  <2>2. prompt[1] \in Mark
    BY <2>1
  <2>3. ASSUME out # <<>>
        PROVE  Last(out) \in Mark
    <3>1. Len(out) \in 1 .. Len(out)
      BY <2>1, <2>3
    <3>2. out[Len(out)] \in Token
      BY <2>1, <3>1, ElementOfSeq
    <3>3. QED
      BY <3>2 DEF Last, Mark
  <2>4. Decoded \in Mark
    BY <2>2, <2>3 DEF Decoded
  <2>5. QED
    BY <1>1, <2>4 DEF Embed, Works
<1>5. QED
  BY <1>2, <1>3, <1>4 DEF StepInput

\* A stage's share of a step is launched.
LEMMA LaunchStageCounts ==
  ASSUME Accounts, LaunchStage
  PROVE  Accounts'
<1>1. PICK n \in Nat : n = LastStage /\ stage \in 1 .. n
  BY DEF Accounts, Rig, Desk, LaunchStage
<1>2. PICK e \in 1 .. n : e = stage
  BY <1>1
<1>3. /\ Array(st, n) /\ Array(pool, n) /\ Array(buf, n) /\ Array(queue, n)
      /\ \A s \in 1 .. n : Fine(st[s], buf[s], queue[s], pool[s], HeldOn(s), Most)
  BY <1>1 DEF Accounts, Rig
<1>4. Kept' /\ held' = <<>> /\ (\A s : HeldOn(s)' = HeldOn(s))
  BY KeptOn DEF Accounts, Desk, LaunchStage
<1>5. /\ prompt \in Prompts /\ max_tokens \in Nat /\ Slack \in Nat /\ MaxSeq \in Nat
      /\ Len(prompt) + max_tokens + Slack <= MaxSeq /\ out \in Seq(Token) /\ Len(out) <= max_tokens
      /\ Len(prompt) \in Nat \ {0} /\ graph \in BOOLEAN
  BY PipelineAssumption, PromptIs DEF Accounts, Desk, Serving, LaunchStage
<1>6. PICK l \in Nat : l = Len(prompt) + Len(out) /\ l <= MaxSeq
  <2>1. PICK a \in Nat : a = Len(prompt)
    BY <1>5
  <2>2. PICK b \in Nat : b = Len(out)
    BY <1>5
  <2>3. QED
    BY <1>5, <2>1, <2>2
<1>7. \A s \in 1 .. n : /\ st[s].pos = l - (IF s < stage THEN 0 ELSE 1)
                        /\ IF graph /\ out # <<>> THEN st[s].len <= Len(prompt) + 1
                                                  ELSE st[s].len = st[s].pos
  BY <1>1, <1>6 DEF Accounts, Counted, CountedAt, LaunchStage
<1> DEFINE r == st[stage]
           z == IF Replays THEN r.len ELSE r.len + 1
           a == IF Replays THEN 0 ELSE 1
           x == Moved(r, a, 1)
           q == (queue[stage] \o StepInput) \o <<Body>>
<1>8. StageRecord(r) /\ queue[stage] \in Seq(Works(pool[stage].count)) /\ pool[stage].count \in Nat
  BY <1>1, <1>3 DEF Fine, Owned
<1>9. r.pos = l - 1 /\ r.pos + 1 = l /\ z \in 0 .. MaxSeq
  <2>1. r.pos = l - 1 /\ r.len \in 0 .. MaxSeq /\ (~Replays => r.len = r.pos)
    BY <1>1, <1>7, <1>8 DEF Replays, StageRecord
  <2> HIDE DEF r
  <2>2. QED
    BY <1>5, <1>6, <2>1
<1>10. StageRecord(x) /\ x.pos = l /\ x.len = z
  <2>1. r.len + a = z
    BY <1>8 DEF StageRecord
  <2>2. r.len + a \in 0 .. MaxSeq /\ r.pos + 1 \in 0 .. MaxSeq
    BY <1>5, <1>6, <1>9, <2>1
  <2> HIDE DEF r, a, z
  <2>3. QED
    BY <1>8, <1>9, <2>1, <2>2, MovedIs
<1>11. q \in Seq(Works(pool[stage].count))
  <2>1. StepInput \in Seq(Works(pool[stage].count)) /\ <<Body>> \in Seq(Works(pool[stage].count))
    BY <1>8, LaunchWork DEF LaunchStage
  <2>2. QED
    BY <1>8, <2>1, ConcatProperties
<1>12. /\ Changed(st, st', n, e, x) /\ Changed(queue, queue', n, e, q)
       /\ Changed(buf, buf', n, e, buf[e]) /\ Changed(pool, pool', n, e, pool[e])
  <2>1. st' = [st EXCEPT ![e] = x]
    BY <1>2 DEF LaunchStage
  <2>2. queue' = [queue EXCEPT ![e] = q]
    BY <1>2 DEF LaunchStage
  <2> HIDE DEF x, q, r, z, a
  <2>3. QED
    BY <1>3, <2>1, <2>2, ChangedIs DEF LaunchStage
<1>13. Fine(x, buf[e], q, pool[e], HeldOn(e)', Most)
  <2> HIDE DEF x, q, r, z
  <2>1. QED
    BY <1>2, <1>3, <1>4, <1>10, <1>11 DEF Fine
<1> HIDE DEF x, q
<1>14. Rig' /\ LastStage' = n
  BY <1>1, <1>4, <1>12, <1>13, RigOf DEF Accounts
<1>15. Desk'
  <2>1. <<HiddenA>> \in Seq(Nat)
    BY DEF HiddenA
  <2>2. Replays => out # <<>>
    BY DEF Replays
  <2>3. QED
    BY <1>1, <1>4, <1>14, <2>1, <2>2 DEF Accounts, Desk, LaunchStage, Where, Serving
<1>16. ASSUME NEW s \in 1 .. n
       PROVE  CountedAt(s, st[s].len, st[s].pos)'
  <2>1. s # stage => st'[s] = st[s]
    BY <1>2, <1>12 DEF Changed
  <2>2. s = stage => st'[s].pos = l /\ st'[s].len = z
    BY <1>2, <1>10, <1>12 DEF Changed
  <2>3. CASE stage < LastStage
    <3>1. pc' = "launch" /\ stage' = stage + 1 /\ out' = out /\ prompt' = prompt /\ graph' = graph
      BY <2>3 DEF LaunchStage
    <3>2. st'[s].pos = l - (IF s < stage + 1 THEN 0 ELSE 1)
      BY <1>1, <1>6, <1>7, <2>1, <2>2
    <3>3. IF graph /\ out # <<>> THEN st'[s].len <= Len(prompt) + 1 ELSE st'[s].len = st'[s].pos
      BY <1>1, <1>6, <1>7, <1>9, <2>1, <2>2 DEF Replays
    <3>4. QED
      BY <1>6, <3>1, <3>2, <3>3 DEF CountedAt
  <2>4. CASE ~(stage < LastStage)
    <3>1. /\ pc' = (IF Replays THEN "deliver" ELSE "finish") /\ stage' = 1
          /\ out' = out /\ prompt' = prompt /\ graph' = graph
      BY <2>4 DEF LaunchStage
    <3>2. st'[s].pos = l
      BY <1>1, <1>6, <1>7, <2>1, <2>2, <2>4
    <3>3. IF graph /\ out # <<>> THEN st'[s].len <= Len(prompt) + 1 ELSE st'[s].len = st'[s].pos
      BY <1>1, <1>6, <1>7, <1>9, <2>1, <2>2, <2>4 DEF Replays
    <3>4. QED
      BY <1>5, <1>6, <3>1, <3>2, <3>3 DEF CountedAt, Replays
  <2>5. QED
    BY <2>3, <2>4
<1>17. Counted'
  BY <1>14, <1>16 DEF Counted
<1>18. QED
  BY <1>14, <1>15, <1>17 DEF Accounts

\* A launch fails.
LEMMA FailLaunchCounts ==
  ASSUME Accounts, FailLaunch
  PROVE  Accounts'
<1>1. PICK n \in Nat : n = LastStage /\ stage \in 1 .. n
  BY DEF Accounts, Rig, Desk, FailLaunch
<1>2. PICK e \in 1 .. n : e = stage
  BY <1>1
<1>3. /\ Array(st, n) /\ Array(pool, n) /\ Array(buf, n) /\ Array(queue, n)
      /\ \A s \in 1 .. n : Fine(st[s], buf[s], queue[s], pool[s], HeldOn(s), Most)
  BY <1>1 DEF Accounts, Rig
<1>4. held' = held /\ \A s : HeldOn(s)' = HeldOn(s)
  BY KeptOn DEF Accounts, Desk, FailLaunch, Over
<1>5. PICK work \in {<<>>, StepInput, StepInput \o <<Body>>} :
        queue' = [queue EXCEPT ![stage] = @ \o work]
  BY DEF FailLaunch
<1>6. queue[stage] \in Seq(Works(pool[stage].count)) /\ pool[stage].count \in Nat
  BY <1>1, <1>3 DEF Fine, Owned
<1>7. queue[stage] \o work \in Seq(Works(pool[stage].count))
  <2>1. StepInput \in Seq(Works(pool[stage].count)) /\ <<Body>> \in Seq(Works(pool[stage].count))
    BY <1>6, LaunchWork DEF FailLaunch
  <2>2. <<>> \in Seq(Works(pool[stage].count)) /\ StepInput \o <<Body>> \in Seq(Works(pool[stage].count))
    BY <2>1, ConcatProperties
  <2>3. work \in Seq(Works(pool[stage].count))
    BY <1>5, <2>1, <2>2
  <2>4. QED
    BY <1>6, <2>3, ConcatProperties
<1> DEFINE q == queue[stage] \o work
<1>8. queue' = [queue EXCEPT ![e] = q]
  BY <1>2, <1>5
<1> HIDE DEF q
<1>9. /\ Changed(st, st', n, e, st[e]) /\ Changed(queue, queue', n, e, q)
      /\ Changed(buf, buf', n, e, buf[e]) /\ Changed(pool, pool', n, e, pool[e])
  BY <1>3, <1>8, ChangedIs DEF FailLaunch
<1>10. Fine(st[e], buf[e], q, pool[e], HeldOn(e)', Most)
  <2>1. q \in Seq(Works(pool[e].count))
    BY <1>2, <1>7 DEF q
  <2>2. QED
    BY <1>3, <1>4, <2>1 DEF Fine
<1>11. Rig' /\ LastStage' = LastStage /\ LastStage \in Nat
  BY <1>1, <1>4, <1>9, <1>10, RigOf DEF Accounts
<1>12. Desk' /\ Counted'
  BY <1>1, <1>11, OverDesk DEF Accounts, FailLaunch
<1>13. QED
  BY <1>11, <1>12 DEF Accounts

\* Two arrays, one after the other.
LEMMA ArrayJoin ==
  ASSUME NEW m \in Nat, NEW n \in Nat, NEW f, NEW g, Array(f, m), Array(g, n)
  PROVE  Array(f \o g, m + n)
<1> DEFINE T == {f[i] : i \in 1 .. m} \cup {g[i] : i \in 1 .. n}
<1>1. f \in [1 .. m -> T] /\ g \in [1 .. n -> T]
  BY DEF Array
<1> HIDE DEF T
<1>2. f \in Seq(T) /\ g \in Seq(T) /\ Len(f) = m /\ Len(g) = n
  BY <1>1
<1>3. f \o g \in Seq(T) /\ Len(f \o g) = m + n
  BY <1>2, ConcatProperties
<1>4. QED
  BY <1>3 DEF Array

\* A chunk about to be enqueued is the one due and there is room for it.
LEMMA ChunkDue ==
  ASSUME Accounts, pc = "prefill"
  PROVE  /\ chunks[1] \in Seq(Mark) /\ Len(chunks[1]) \in Nat \ {0}
         /\ Len(chunks) = Len(ChunksOf(prompt)) - step /\ Len(chunks) \in Nat \ {0}
         /\ Tail(chunks) = [i \in 1 .. Len(ChunksOf(prompt)) - (step + 1) |-> ChunksOf(prompt)[step + 1 + i]]
         /\ st[stage].len = Behind(prompt, step) /\ st[stage].pos = Behind(prompt, step)
         /\ Behind(prompt, step) \in Nat /\ Behind(prompt, step + 1) \in Nat
         /\ Behind(prompt, step) + Len(chunks[1]) = Behind(prompt, step + 1)
         /\ Behind(prompt, step + 1) <= Len(prompt) /\ Len(prompt) <= MaxSeq
         /\ Behind(prompt, Len(ChunksOf(prompt))) = Len(prompt)
         /\ Cardinality(HeldOn(stage)) <= step /\ step + 3 + Inner <= Most
<1>1. PICK m \in Nat : m = Len(ChunksOf(prompt)) /\ step < m /\ step \in Nat
                       /\ chunks = [i \in 1 .. m - step |-> ChunksOf(prompt)[step + i]]
  <2>1. prompt \in Seq(Mark) /\ prompt # <<>>
    BY PromptIs DEF Accounts, Desk, Serving
  <2>2. Len(ChunksOf(prompt)) \in Nat
    BY <2>1, ChunksAre
  <2>3. QED
    BY <2>2 DEF Accounts, Desk
<1>2. prompt \in Seq(Mark) /\ prompt # <<>> /\ prompt \in Prompts /\ Len(prompt) \in Nat
  BY PromptIs DEF Accounts, Desk, Serving
<1>3. Len(prompt) <= MaxSeq
  <2>1. /\ max_tokens \in Nat /\ Slack \in Nat /\ MaxSeq \in Nat
        /\ Len(prompt) + max_tokens + Slack <= MaxSeq
    BY PipelineAssumption DEF Accounts, Desk, Serving
  <2>2. PICK l \in Nat : l = Len(prompt)
    BY <1>2
  <2>3. QED
    BY <2>1, <2>2
<1>4. step + 1 \in 1 .. m /\ (step + 1) - 1 = step /\ 1 \in 1 .. m - step /\ m - step \in Nat \ {0}
  BY <1>1
<1>5. chunks[1] = ChunksOf(prompt)[step + 1]
  BY <1>1, <1>4
<1>6. /\ Behind(prompt, m) = Len(prompt)
      /\ chunks[1] \in Seq(Mark) /\ Behind(prompt, step) \in Nat /\ Behind(prompt, step + 1) \in Nat
      /\ Len(chunks[1]) = Behind(prompt, step + 1) - Behind(prompt, step)
      /\ Behind(prompt, step) < Behind(prompt, step + 1) /\ Behind(prompt, step + 1) <= Len(prompt)
  <2>1. /\ Behind(prompt, m) = Len(prompt)
        /\ \A i \in 1 .. m :
             /\ ChunksOf(prompt)[i] \in Seq(Mark)
             /\ Behind(prompt, i - 1) \in Nat /\ Behind(prompt, i) \in Nat
             /\ Len(ChunksOf(prompt)[i]) = Behind(prompt, i) - Behind(prompt, i - 1)
             /\ Behind(prompt, i - 1) < Behind(prompt, i) /\ Behind(prompt, i) <= Len(prompt)
    BY <1>1, <1>2, ChunksAre
  <2>2. PICK i \in 1 .. m : i = step + 1 /\ i - 1 = step
    BY <1>4
  <2>3. QED
    BY <1>5, <2>1, <2>2
<1>7. Len(chunks[1]) \in Nat \ {0} /\ Behind(prompt, step) + Len(chunks[1]) = Behind(prompt, step + 1)
  <2>1. PICK a \in Nat : a = Behind(prompt, step)
    BY <1>6
  <2>2. PICK b \in Nat : b = Behind(prompt, step + 1)
    BY <1>6
  <2>3. QED
    BY <1>6, <2>1, <2>2
<1>8. Len(chunks) = m - step
  <2>1. Array(chunks, m - step)
    BY <1>1 DEF Array
  <2>2. QED
    BY <1>4, <2>1, ArrayIs
<1>9. Tail(chunks) = [i \in 1 .. m - (step + 1) |-> ChunksOf(prompt)[step + 1 + i]]
  <2>1. PICK k \in Nat : k = m - step /\ m - (step + 1) = k - 1 /\ k # 0
    BY <1>4
  <2> DEFINE T == {chunks[i] : i \in 1 .. k}
  <2>2. chunks \in [1 .. k -> T]
    BY <1>1, <2>1
  <2> HIDE DEF T
  <2>3. chunks \in Seq(T) /\ Len(chunks) = k
    BY <2>2
  <2>4. Tail(chunks) = [i \in 1 .. k - 1 |-> chunks[i + 1]]
    <3>1. chunks # <<>>
      BY <2>1, <2>3
    <3>2. /\ Tail(chunks) \in Seq(T) /\ Len(Tail(chunks)) = k - 1
          /\ \A i \in 1 .. Len(Tail(chunks)) : Tail(chunks)[i] = chunks[i + 1]
      BY <2>3, <3>1, HeadTailProperties
    <3>3. PICK t \in Seq(T) : t = Tail(chunks)
      BY <3>2
    <3>4. t = [i \in 1 .. Len(t) |-> t[i]]
      OBVIOUS
    <3>5. QED
      BY <2>1, <3>2, <3>3, <3>4
  <2>5. \A i \in 1 .. k - 1 : chunks[i + 1] = ChunksOf(prompt)[step + 1 + i]
    <3>1. \A i \in 1 .. k - 1 : i + 1 \in 1 .. m - step /\ step + (i + 1) = step + 1 + i
      BY <1>1, <2>1
    <3>2. QED
      BY <1>1, <3>1
  <2>6. QED
    BY <2>1, <2>4, <2>5
<1>10. st[stage].len = Behind(prompt, step) /\ st[stage].pos = Behind(prompt, step)
       /\ Cardinality(HeldOn(stage)) <= step
  <2>1. CountedAt(stage, st[stage].len, st[stage].pos) /\ stage \in Nat
    BY DEF Accounts, Desk, Counted, Rig
  <2>2. Enq(stage) = step
    BY <2>1 DEF Enq
  <2>3. QED
    BY <2>1, <2>2 DEF CountedAt
<1>11. step + 3 + Inner <= Most
  <2>1. m + 2 + Inner <= Most /\ Most \in Nat /\ Inner \in Nat
    BY <1>1, <1>2, <1>3, MostIs, PipelineAssumption
  <2>2. QED
    BY <1>1, <2>1
<1>12. QED
  BY <1>1, <1>3, <1>4, <1>6, <1>7, <1>8, <1>9, <1>10, <1>11

\* The buffers and the work of a chunk, which are all back when it has failed.
LEMMA ChunkTaken ==
  ASSUME Accounts, pc = "prefill"
  PROVE  /\ Chunked(pool[stage], HeldOn(stage), Len(chunks[1]) * H, Len(chunks[1]) * K,
                    Outer, Within, GivenBack, AllBack, OuterBack)
         /\ Bounded(Made(OuterBack, HeldOn(stage)), Most) /\ Bounded(Made(AllBack, HeldOn(stage)), Most)
         /\ pool[stage].count \in Nat /\ Outer.pool.count \in Nat /\ Within.pool.count \in Nat
         /\ IsFiniteSet(HeldOn(stage))
         /\ Input(Outer.ids[1]) \in Seq(Works(Outer.pool.count))
         /\ <<ChunkRows>> \in Seq(Works(Within.pool.count))
<1> DEFINE p == pool[stage]
           u == HeldOn(stage)
           a == Len(chunks[1]) * H
           b == Len(chunks[1]) * K
<1>1. Fine(st[stage], buf[stage], queue[stage], p, u, Most)
  BY DEF Accounts, Rig, Desk
<1>2. /\ Owned(p, u) /\ Bounded(Made(p, u), Most) /\ StageRecord(st[stage])
      /\ IsFiniteSet(u) /\ p.count \in Nat
  BY <1>1, MadeFinite DEF Fine, Owned
<1>3. /\ Len(chunks[1]) \in Nat /\ chunks[1] \in Seq(Mark)
      /\ Cardinality(u) <= step /\ step + 3 + Inner <= Most
  BY ChunkDue
<1>4. a \in Nat /\ b \in Nat
  <2>1. H \in Nat /\ K \in Nat
    BY PipelineAssumption
  <2>2. QED
    BY <1>3, <2>1
<1>5. Chunked(p, u, a, b, Outer, Within, GivenBack, AllBack, OuterBack)
  <2>1. \A x, y : x = Len(chunks[1]) * H /\ y = Len(chunks[1]) * K =>
          LET o == Taken(p, x, 3)
              w == Taken(o.pool, y, Inner)
              i == Given(w.pool, y, w.ids)
              g == Given(i, x, <<o.ids[3], o.ids[2]>>)
          IN  Outer = o /\ Within = w /\ GivenBack = g
              /\ AllBack = Given(g, x, <<o.ids[1]>>) /\ OuterBack = Given(o.pool, x, <<o.ids[3], o.ids[2], o.ids[1]>>)
    BY DEF Outer, Within, InnerGiven, GivenBack, AllBack, OuterBack
  <2>2. PICK x \in Nat : x = a
    BY <1>4
  <2>3. PICK y \in Nat : y = b
    BY <1>4
  <2> HIDE DEF p, u
  <2>4. LET o == Taken(p, x, 3)
            w == Taken(o.pool, y, Inner)
            i == Given(w.pool, y, w.ids)
            g == Given(i, x, <<o.ids[3], o.ids[2]>>)
        IN  Chunked(p, u, x, y, o, w, g, Given(g, x, <<o.ids[1]>>),
                    Given(o.pool, x, <<o.ids[3], o.ids[2], o.ids[1]>>))
    BY <1>2, ChunkBuffers
  <2>5. QED
    BY <2>1, <2>2, <2>3, <2>4
<1>6. Bounded(Made(OuterBack, u), Most) /\ Bounded(Made(AllBack, u), Most)
  <2>1. Most \in Nat /\ Inner \in Nat /\ step \in Nat /\ Cardinality(u) \in Nat
    BY <1>2, MostIs, PipelineAssumption, FS_CardinalityType DEF Accounts, Desk
  <2>2. Cardinality(u) + 3 + Inner <= Most
    BY <1>3, <2>1
  <2>3. QED
    BY <1>2, <1>5, <2>1, <2>2 DEF Chunked
<1> DEFINE ba == [id |-> Outer.ids[1], size |-> a]
           scratch == {Outer.ids[2], Outer.ids[3]} \cup {Within.ids[i] : i \in 1 .. Inner}
<1>7. /\ Outer.pool.count \in Nat /\ Within.pool.count \in Nat
      /\ Outer.ids[1] \in 1 .. Outer.pool.count /\ Outer.ids[1] \in 1 .. Within.pool.count
      /\ scratch \subseteq Nat
  <2>1. /\ Owned(OuterBack, u) /\ Owned(AllBack, u) /\ AllBack.count = Within.pool.count /\ OuterBack.count = Outer.pool.count
        /\ Outer.pool.count <= Within.pool.count /\ ba.id \in 1 .. Outer.pool.count
        /\ scratch \subseteq Nat
    BY <1>5 DEF Chunked
  <2>2. Outer.pool.count \in Nat /\ Within.pool.count \in Nat
    BY <2>1 DEF Owned
  <2>3. QED
    BY <2>1, <2>2
<1>8. Tag \in Nat \X Nat /\ prev \in Seq(Nat)
  BY DEF Accounts, Desk, Tag
<1>9. Input(Outer.ids[1]) \in Seq(Works(Outer.pool.count))
  <2>1. Outer.ids[1] \in 0 .. Outer.pool.count
    BY <1>7
  <2>2. Copy(Outer.ids[1]) \in Works(Outer.pool.count)
    BY <1>8, <2>1 DEF Copy, Works
  <2>3. PICK c, S : c = Copy(Outer.ids[1]) /\ S = Works(Outer.pool.count)
    OBVIOUS
  <2>4. <<c>> \in Seq(S) /\ <<>> \in Seq(S)
    BY <2>2, <2>3
  <2>5. Input(Outer.ids[1]) = IF stage = 1 THEN <<>> ELSE <<c>>
    BY <2>3 DEF Input
  <2>6. QED
    BY <2>3, <2>4, <2>5
<1>10. ChunkRows \in Works(Within.pool.count)
  <2>1. st[stage].len \in Nat
    BY <1>2 DEF StageRecord
  <2>2. <<>> \in Seq(Mark)
    OBVIOUS
  <2>3. QED
    BY <1>3, <1>7, <1>8, <2>1, <2>2 DEF ChunkRows, Rows, Works
<1>11. QED
  BY <1>2, <1>5, <1>6, <1>7, <1>9, <1>10

\* Buffers are added to those of the stage in hand.
LEMMA FreshIs ==
  ASSUME NEW p, NEW n \in Nat, n = pool[stage].count, Array(buf[stage], n),
         p.count \in Nat, n <= p.count
  PROVE  Array(Fresh(p), p.count)
<1>1. PICK k \in Nat : k = p.count - n /\ n + k = p.count
  OBVIOUS
<1> DEFINE new == [i \in 1 .. k |-> <<Junk>>]
<1>2. Array(new, k)
  BY DEF Array
<1>3. Fresh(p) = buf[stage] \o new
  BY <1>1 DEF Fresh
<1> HIDE DEF new
<1>4. QED
  BY <1>1, <1>2, <1>3, ArrayJoin

\* A chunk's activation is kept.
LEMMA KeepsOne ==
  ASSUME Kept, NEW s \in Nat, NEW b \in Buffer, b \notin HeldOn(s), IsFiniteSet(HeldOn(s)),
         held' = Append(held, [stage |-> s, buf |-> b])
  PROVE  /\ Kept' /\ HeldOn(s)' = HeldOn(s) \cup {b} /\ \A t : t # s => HeldOn(t)' = HeldOn(t)
         /\ \A n \in Nat : Cardinality(HeldOn(s)) <= n => Cardinality(HeldOn(s)') <= n + 1
<1> DEFINE Held == [stage : Nat, buf : Buffer]
           h == [stage |-> s, buf |-> b]
<1>1. held \in Seq(Held) /\ Distinct(held) /\ h \in Held /\ h.stage = s /\ h.buf = b
  BY DEF Kept
<1>2. h \notin ToSet(held)
  BY <1>1 DEF HeldOn
<1> HIDE DEF Held, h
<1>3. /\ Append(held, h) \in Seq(Held) /\ ToSet(Append(held, h)) = ToSet(held) \cup {h}
      /\ Distinct(held) /\ h \notin ToSet(held) => Distinct(Append(held, h))
  BY <1>1, Appending
<1>4. held' \in Seq(Held) /\ ToSet(held') = ToSet(held) \cup {h} /\ Distinct(held')
  BY <1>1, <1>2, <1>3 DEF h
<1>5. Kept'
  BY <1>4 DEF Kept, Held
<1>6. \A t : HeldOn(t) = {x.buf : x \in {y \in ToSet(held) : y.stage = t}}
             /\ HeldOn(t)' = {x.buf : x \in {y \in ToSet(held) \cup {h} : y.stage = t}}
  BY <1>4 DEF HeldOn
<1>7. HeldOn(s)' = HeldOn(s) \cup {b}
  BY <1>1, <1>6
<1>8. \A t : t # s => HeldOn(t)' = HeldOn(t)
  BY <1>1, <1>6
<1>9. ASSUME NEW n \in Nat, Cardinality(HeldOn(s)) <= n
      PROVE  Cardinality(HeldOn(s)') <= n + 1
  <2>1. IsFiniteSet({b}) /\ Cardinality({b}) = 1
    BY FS_Singleton
  <2>2. PICK A : A = HeldOn(s)
    OBVIOUS
  <2>3. PICK B : B = {b}
    OBVIOUS
  <2>4. /\ Cardinality(A \cup B) <= Cardinality(A) + Cardinality(B)
        /\ Cardinality(A) \in Nat /\ Cardinality(A \cup B) \in Nat
    BY <2>1, <2>2, <2>3, Together
  <2>5. HeldOn(s)' = A \cup B
    BY <1>7, <2>2, <2>3
  <2>6. QED
    BY <1>9, <2>1, <2>2, <2>3, <2>4, <2>5
<1>10. QED
  BY <1>5, <1>7, <1>8, <1>9

\* A chunk is enqueued on a stage.
LEMMA PrefillStageCounts ==
  ASSUME Accounts, PrefillStage
  PROVE  Accounts'
<1>1. PICK n \in Nat : n = LastStage /\ stage \in 1 .. n /\ pc = "prefill"
  BY DEF Accounts, Rig, Desk, PrefillStage
<1>2. PICK e \in 1 .. n : e = stage
  BY <1>1
<1>3. /\ Array(st, n) /\ Array(pool, n) /\ Array(buf, n) /\ Array(queue, n)
      /\ \A s \in 1 .. n : Fine(st[s], buf[s], queue[s], pool[s], HeldOn(s), Most)
  BY <1>1 DEF Accounts, Rig
<1>4. PICK m \in Nat : m = Len(chunks[1])
  BY <1>1, ChunkDue
<1> DEFINE ba == [id |-> Outer.ids[1], size |-> m * H]
           q == (queue[stage] \o Input(Outer.ids[1])) \o <<ChunkRows>>
           b == Fresh(Within.pool)
           x == Moved(st[stage], m, m)
           u == HeldOn(stage)
<1>5. /\ queue' = [queue EXCEPT ![e] = q] /\ buf' = [buf EXCEPT ![e] = b]
      /\ pool' = [pool EXCEPT ![e] = GivenBack] /\ st' = [st EXCEPT ![e] = x]
      /\ held' = Append(held, [stage |-> stage, buf |-> ba]) /\ prev' = <<Outer.ids[1]>>
  BY <1>2, <1>4 DEF PrefillStage
<1>6. /\ Chunked(pool[stage], u, m * H, m * K, Outer, Within, GivenBack, AllBack, OuterBack)
      /\ Bounded(Made(AllBack, u), Most)
      /\ pool[stage].count \in Nat /\ Outer.pool.count \in Nat /\ Within.pool.count \in Nat
      /\ IsFiniteSet(u)
      /\ Input(Outer.ids[1]) \in Seq(Works(Outer.pool.count))
      /\ <<ChunkRows>> \in Seq(Works(Within.pool.count))
  BY <1>1, <1>4, ChunkTaken
<1>7. PICK d \in Nat : d = Behind(prompt, step)
  BY <1>1, ChunkDue
<1>8. /\ Len(chunks) = Len(ChunksOf(prompt)) - step /\ Len(chunks) \in Nat \ {0}
      /\ Tail(chunks) = [i \in 1 .. Len(ChunksOf(prompt)) - (step + 1) |-> ChunksOf(prompt)[step + 1 + i]]
      /\ st[stage].len = d /\ st[stage].pos = d
      /\ Behind(prompt, step + 1) = d + m
      /\ d + m <= Len(prompt) /\ Len(prompt) <= MaxSeq
      /\ Behind(prompt, Len(ChunksOf(prompt))) = Len(prompt)
      /\ Cardinality(u) <= step
  BY <1>1, <1>4, <1>7, ChunkDue
<1> HIDE DEF q, b, x
<1>9. /\ Changed(st, st', n, e, x) /\ Changed(queue, queue', n, e, q)
      /\ Changed(buf, buf', n, e, b) /\ Changed(pool, pool', n, e, GivenBack)
  BY <1>3, <1>5, ChangedIs
<1>10. prompt \in Prompts /\ prompt \in Seq(Mark) /\ Len(prompt) \in Nat /\ out = <<>> /\ Len(out) = 0
       /\ step \in Nat /\ MaxSeq \in Nat
  BY <1>1, PromptIs, PipelineAssumption DEF Accounts, Desk, Serving
<1>11. StageRecord(x) /\ x.len = d + m /\ x.pos = d + m
  <2>1. StageRecord(st[stage])
    BY <1>1, <1>3 DEF Fine
  <2>2. d + m \in 0 .. MaxSeq
    BY <1>8, <1>10
  <2>3. QED
    BY <1>8, <2>1, <2>2, MovedIs DEF x
<1>12. /\ ba \in Buffer /\ ba \notin u /\ ba.id \in 1 .. Outer.pool.count
       /\ Owned(GivenBack, u \cup {ba}) /\ GivenBack.count = Within.pool.count
       /\ pool[stage].count <= Outer.pool.count /\ Outer.pool.count <= Within.pool.count
       /\ Made(GivenBack, u \cup {ba}) = Made(AllBack, u)
  BY <1>6 DEF Chunked
<1>13. Array(b, GivenBack.count)
  <2>1. Array(buf[stage], pool[stage].count)
    BY <1>1, <1>3 DEF Fine
  <2>2. pool[stage].count <= Within.pool.count
    BY <1>6, <1>12
  <2>3. QED
    BY <1>6, <1>12, <2>1, <2>2, FreshIs DEF b
<1>14. q \in Seq(Works(GivenBack.count))
  <2>1. queue[stage] \in Seq(Works(pool[stage].count))
    BY <1>1, <1>3 DEF Fine
  <2>2. /\ Seq(Works(pool[stage].count)) \subseteq Seq(Works(Within.pool.count))
        /\ Seq(Works(Outer.pool.count)) \subseteq Seq(Works(Within.pool.count))
    <3>1. pool[stage].count <= Within.pool.count
      BY <1>6, <1>12
    <3>2. QED
      BY <1>6, <1>12, <3>1, WorksGrow
  <2>3. PICK S : S = Works(Within.pool.count)
    OBVIOUS
  <2>4. queue[stage] \in Seq(S) /\ Input(Outer.ids[1]) \in Seq(S) /\ <<ChunkRows>> \in Seq(S)
    BY <1>6, <2>1, <2>2, <2>3
  <2>5. q \in Seq(S)
    BY <2>4, ConcatProperties DEF q
  <2>6. QED
    BY <1>12, <2>3, <2>5
<1>15. /\ Kept' /\ HeldOn(e)' = u \cup {ba} /\ (\A t : t # e => HeldOn(t)' = HeldOn(t))
       /\ Cardinality(HeldOn(e)') <= step + 1
  <2>1. Kept /\ e \in Nat
    BY DEF Accounts, Desk
  <2> HIDE DEF ba
  <2>2. held' = Append(held, [stage |-> e, buf |-> ba])
    BY <1>2, <1>5
  <2>3. ba \in Buffer /\ ba \notin HeldOn(e) /\ IsFiniteSet(HeldOn(e)) /\ Cardinality(HeldOn(e)) <= step
    BY <1>2, <1>6, <1>8, <1>12
  <2>4. /\ Kept' /\ HeldOn(e)' = HeldOn(e) \cup {ba} /\ \A t : t # e => HeldOn(t)' = HeldOn(t)
        /\ \A k \in Nat : Cardinality(HeldOn(e)) <= k => Cardinality(HeldOn(e)') <= k + 1
    BY <2>1, <2>2, <2>3, KeepsOne
  <2>5. QED
    BY <1>2, <1>10, <2>3, <2>4
<1>16. Fine(x, b, q, GivenBack, HeldOn(e)', Most)
  BY <1>6, <1>11, <1>12, <1>13, <1>14, <1>15 DEF Fine
<1>17. Rig' /\ LastStage' = n
  BY <1>1, <1>9, <1>15, <1>16, RigOf DEF Accounts
<1>18. /\ prompt' = prompt /\ out' = out /\ max_tokens' = max_tokens /\ graph' = graph /\ served' = served
       /\ plan' = plan
  BY DEF PrefillStage, setup
<1>19. ChunksOf(prompt)' = ChunksOf(prompt) /\ \A t : Behind(prompt, t)' = Behind(prompt, t)
  BY <1>1, <1>17, <1>18 DEF ChunksOf, ChunkSize, Behind
<1>20. PICK l \in Nat : l = Len(ChunksOf(prompt)) /\ step + 1 <= l /\ Len(chunks) = l - step
  <2>1. PICK k \in Nat : k = Len(ChunksOf(prompt))
    BY <1>10, ChunksAre, <1>8
  <2>2. QED
    BY <1>8, <1>10, <2>1
<1>21. <<Outer.ids[1]>> \in Seq(Nat)
  BY <1>12 DEF Buffer
<1>22. CASE stage < LastStage
  <2>1. pc' = "prefill" /\ stage' = stage + 1 /\ chunks' = chunks /\ step' = step
    BY <1>1, <1>22 DEF PrefillStage
  <2>2. Desk'
    BY <1>1, <1>5, <1>15, <1>17, <1>18, <1>19, <1>21, <1>22, <2>1
       DEF Accounts, Desk, Where, Serving
  <2>3. ASSUME NEW s \in 1 .. n
        PROVE  CountedAt(s, st[s].len, st[s].pos)'
    <3>1. CASE s = e
      <4>1. Enq(s)' = step + 1
        BY <1>1, <1>2, <2>1, <3>1 DEF Enq
      <4>2. Behind(prompt, Enq(s))' = d + m
        BY <1>8, <1>19, <4>1 DEF Behind
      <4>3. st'[s].len = d + m /\ st'[s].pos = d + m
        BY <1>9, <1>11, <3>1 DEF Changed
      <4>4. Cardinality(HeldOn(s)') <= step + 1
        BY <1>15, <3>1
      <4>5. QED
        BY <2>1, <4>1, <4>2, <4>3, <4>4 DEF CountedAt
    <3>2. CASE s # e
      <4>1. CountedAt(s, st[s].len, st[s].pos)
        BY <1>1 DEF Accounts, Counted
      <4>2. Enq(s)' = Enq(s)
        BY <1>1, <1>2, <2>1, <3>2 DEF Enq
      <4>3. Behind(prompt, Enq(s))' = Behind(prompt, Enq(s))
        BY <1>19, <4>2 DEF Behind
      <4>4. st'[s] = st[s] /\ HeldOn(s)' = HeldOn(s)
        BY <1>9, <1>15, <3>2 DEF Changed
      <4>5. QED
        BY <1>1, <2>1, <4>1, <4>2, <4>3, <4>4 DEF CountedAt
    <3>3. QED
      BY <3>1, <3>2
  <2>4. QED
    BY <1>17, <2>2, <2>3 DEF Accounts, Counted
<1>23. CASE ~(stage < LastStage)
  <2>1. /\ stage' = 1 /\ chunks' = Tail(chunks) /\ step' = step + 1
        /\ pc' = IF Len(chunks) = 1 THEN "prefilled" ELSE "prefill"
    BY <1>1, <1>23 DEF PrefillStage
  <2>2. ASSUME NEW s \in 1 .. n
        PROVE  /\ st'[s].len = d + m /\ st'[s].pos = d + m
               /\ Cardinality(HeldOn(s)') <= step + 1
    <3>1. CASE s = e
      BY <1>9, <1>11, <1>15, <3>1 DEF Changed
    <3>2. CASE s # e
      <4>1. CountedAt(s, st[s].len, st[s].pos)
        BY <1>1 DEF Accounts, Counted
      <4>2. Enq(s) = step + 1
        BY <1>1, <1>2, <1>23, <3>2 DEF Enq
      <4>3. st'[s] = st[s] /\ HeldOn(s)' = HeldOn(s)
        BY <1>9, <1>15, <3>2 DEF Changed
      <4>4. QED
        BY <1>1, <1>8, <4>1, <4>2, <4>3 DEF CountedAt
    <3>3. QED
      BY <3>1, <3>2
  <2>3. CASE Len(chunks) = 1
    <3>1. pc' = "prefilled"
      BY <2>1, <2>3
    <3>2. pc' = "prefilled" /\ step + 1 = l /\ 1 \in 1 .. n
      <4>1. l - step = 1
        BY <1>20, <2>3
      <4>2. QED
        BY <1>1, <1>10, <3>1, <4>1
    <3>3. Desk'
      BY <1>1, <1>5, <1>10, <1>15, <1>17, <1>18, <1>21, <2>1, <3>2
         DEF Accounts, Desk, Where, Serving
    <3>4. d + m = Len(prompt)
      BY <1>8, <1>20, <3>2
    <3>5. \A s \in 1 .. n : CountedAt(s, st[s].len, st[s].pos)'
      BY <1>10, <1>18, <2>2, <3>2, <3>4 DEF CountedAt
    <3>6. QED
      BY <1>17, <3>3, <3>5 DEF Accounts, Counted
  <2>4. CASE Len(chunks) # 1
    <3>1. pc' = "prefill" /\ step + 1 < l /\ 1 \in 1 .. n
      BY <1>1, <1>8, <1>10, <1>20, <2>1, <2>4
    <3>2. Desk'
      <4>1. (step < Len(ChunksOf(prompt)))'
        BY <1>19, <1>20, <2>1, <3>1
      <4>2. (chunks = [i \in 1 .. Len(ChunksOf(prompt)) - step |-> ChunksOf(prompt)[step + i]])'
        BY <1>8, <1>19, <2>1
      <4>3. /\ graph \in BOOLEAN /\ served \in Nat /\ max_tokens \in Nat /\ max_tokens + Slack > 0
            /\ Len(prompt) + max_tokens + Slack <= MaxSeq
            /\ out \in Seq(Token) /\ Len(out) <= max_tokens
        BY <1>1 DEF Accounts, Desk, Serving
      <4>4. /\ prev' \in Seq(Nat) /\ step' \in Nat /\ Kept' /\ pc' = "prefill" /\ stage' \in 1 .. LastStage'
        BY <1>5, <1>10, <1>15, <1>17, <1>21, <2>1, <3>1
      <4>5. (prompt \in Prompts /\ out = <<>>)'
        BY <1>10, <1>18
      <4>6. (/\ graph \in BOOLEAN /\ served \in Nat /\ max_tokens \in Nat /\ max_tokens + Slack > 0
             /\ Len(prompt) + max_tokens + Slack <= MaxSeq
             /\ out \in Seq(Token) /\ Len(out) <= max_tokens)'
        BY <1>18, <4>3
      <4>7. QED
        BY <4>1, <4>2, <4>4, <4>5, <4>6 DEF Desk, Where, Serving
    <3>3. ASSUME NEW s \in 1 .. n
          PROVE  CountedAt(s, st[s].len, st[s].pos)'
      <4>1. Enq(s)' = step + 1
        BY <2>1 DEF Enq
      <4>2. Behind(prompt, Enq(s))' = d + m
        BY <1>8, <1>19, <4>1 DEF Behind
      <4>3. QED
        BY <2>2, <3>1, <4>1, <4>2 DEF CountedAt
    <3>4. QED
      BY <1>17, <3>2, <3>3 DEF Accounts, Counted
  <2>5. QED
    BY <2>3, <2>4
<1>24. QED
  BY <1>22, <1>23

\* What a chunk that fails leaves of its stage: its pool, the lengths it is newly warm
\* for, and the work enqueued, which names only buffers that were made.
Failing(given, warmed, work, m) ==
  \/ /\ given = OuterBack
     /\ warmed = {}
     /\ work = <<>> \/ work = Input(Outer.ids[1])
  \/ /\ given = AllBack
     /\ warmed = {} \/ warmed = {m}
     /\ work = Input(Outer.ids[1]) \/ work = Input(Outer.ids[1]) \o <<ChunkRows>>

LEMMA FailPrefillIs ==
  ASSUME FailPrefill, NEW m, m = Len(chunks[1])
  PROVE  \E given, open, warmed, work : \E rows \in {0, m} :
           PrefillLeft(given, open, warmed, rows, work) /\ Failing(given, warmed, work, m)
<1>1. PICK i, w : i = Input(Outer.ids[1]) /\ w = i \o <<ChunkRows>>
  OBVIOUS
<1>2. \/ \E x \in {<<>>, i} : PrefillLeft(OuterBack, FALSE, {}, 0, x)
      \/ \E r \in {0, m} : PrefillLeft(OuterBack, TRUE, {}, r, i)
      \/ PrefillLeft(AllBack, FALSE, {}, IF Captures(stage, m) THEN m ELSE 0, i)
      \/ \E v \in {{}, {m}} : PrefillLeft(AllBack, FALSE, v, m, w)
  BY <1>1 DEF FailPrefill
<1>3. CASE \E x \in {<<>>, i} : PrefillLeft(OuterBack, FALSE, {}, 0, x)
  BY <1>1, <1>3 DEF Failing
<1>4. CASE \E r \in {0, m} : PrefillLeft(OuterBack, TRUE, {}, r, i)
  BY <1>1, <1>4 DEF Failing
<1>5. CASE PrefillLeft(AllBack, FALSE, {}, IF Captures(stage, m) THEN m ELSE 0, i)
  <2>1. PICK r \in {0, m} : r = IF Captures(stage, m) THEN m ELSE 0
    OBVIOUS
  <2>2. PrefillLeft(AllBack, FALSE, {}, r, i) /\ Failing(AllBack, {}, i, m)
    BY <1>1, <1>5, <2>1 DEF Failing
  <2>3. QED
    BY <2>2
<1>6. CASE \E v \in {{}, {m}} : PrefillLeft(AllBack, FALSE, v, m, w)
  BY <1>1, <1>6 DEF Failing
<1>7. QED
  BY <1>2, <1>3, <1>4, <1>5, <1>6

\* A chunk fails on a stage.
LEMMA FailPrefillCounts ==
  ASSUME Accounts, FailPrefill
  PROVE  Accounts'
<1>1. PICK n \in Nat : n = LastStage /\ stage \in 1 .. n /\ pc = "prefill"
  BY DEF Accounts, Rig, Desk, FailPrefill
<1>2. PICK e \in 1 .. n : e = stage
  BY <1>1
<1>3. /\ Array(st, n) /\ Array(pool, n) /\ Array(buf, n) /\ Array(queue, n)
      /\ \A s \in 1 .. n : Fine(st[s], buf[s], queue[s], pool[s], HeldOn(s), Most)
  BY <1>1 DEF Accounts, Rig
<1>4. Stages = 1 .. n
  BY <1>3, ArrayIs DEF Stages
<1>5. PICK m \in Nat : m = Len(chunks[1])
  BY <1>1, ChunkDue
<1> DEFINE u == HeldOn(stage)
<1>6. PICK given, open, warmed, work : \E rows \in {0, m} :
        PrefillLeft(given, open, warmed, rows, work) /\ Failing(given, warmed, work, m)
  BY <1>5, FailPrefillIs
<1>7. PICK ran \in {0, m} :
        /\ pool' = Dropped([pool EXCEPT ![stage] = given]) /\ buf' = [buf EXCEPT ![stage] = Fresh(given)]
        /\ st' = [st EXCEPT ![stage] = Moved(@, ran, 0)]
        /\ queue' = [queue EXCEPT ![stage] = @ \o work]
  BY <1>6 DEF PrefillLeft
<1> DEFINE p == [pool EXCEPT ![stage] = given]
           q == queue[stage] \o work
           x == Moved(st[stage], ran, 0)
           b == Fresh(given)
<1>8. /\ st' = [st EXCEPT ![e] = x] /\ queue' = [queue EXCEPT ![e] = q] /\ buf' = [buf EXCEPT ![e] = b]
      /\ p = [pool EXCEPT ![e] = given] /\ pool' = Dropped(p)
  BY <1>2, <1>7
<1>9. /\ Chunked(pool[stage], u, m * H, m * K, Outer, Within, GivenBack, AllBack, OuterBack)
      /\ Bounded(Made(AllBack, u), Most) /\ Bounded(Made(OuterBack, u), Most)
      /\ pool[stage].count \in Nat /\ Outer.pool.count \in Nat /\ Within.pool.count \in Nat
      /\ Input(Outer.ids[1]) \in Seq(Works(Outer.pool.count))
      /\ <<ChunkRows>> \in Seq(Works(Within.pool.count))
  BY <1>1, <1>5, ChunkTaken
<1>10. /\ Owned(given, u) /\ Bounded(Made(given, u), Most) /\ given.count \in Nat
       /\ pool[stage].count <= Outer.pool.count /\ Outer.pool.count <= given.count
       /\ given = AllBack => Within.pool.count = given.count
  <2>1. /\ Owned(AllBack, u) /\ Owned(OuterBack, u)
        /\ AllBack.count = Within.pool.count /\ OuterBack.count = Outer.pool.count
        /\ pool[stage].count <= Outer.pool.count /\ Outer.pool.count <= Within.pool.count
    BY <1>9 DEF Chunked
  <2>2. given = OuterBack \/ given = AllBack
    BY <1>6 DEF Failing
  <2>3. QED
    BY <1>9, <2>1, <2>2
<1>11. StageRecord(x)
  <2>1. PICK d \in Nat : d = Behind(prompt, step)
    BY <1>1, ChunkDue
  <2>2. /\ st[stage].len = d /\ st[stage].pos = d /\ Behind(prompt, step + 1) = d + m
        /\ d + m <= Len(prompt) /\ Len(prompt) <= MaxSeq
    BY <1>1, <1>5, <2>1, ChunkDue
  <2>3. MaxSeq \in Nat /\ Len(prompt) \in Nat
    BY <1>1, PromptIs, PipelineAssumption DEF Accounts, Desk, Serving
  <2>4. st[stage].len + ran \in 0 .. MaxSeq /\ st[stage].pos + 0 \in 0 .. MaxSeq
    BY <1>7, <2>2, <2>3
  <2>5. StageRecord(st[stage])
    BY <1>1, <1>3 DEF Fine
  <2>6. QED
    BY <2>4, <2>5, MovedIs
<1>12. Array(b, given.count)
  <2>1. Array(buf[stage], pool[stage].count)
    BY <1>1, <1>3 DEF Fine
  <2>2. pool[stage].count <= given.count
    BY <1>9, <1>10
  <2>3. QED
    BY <1>9, <1>10, <2>1, <2>2, FreshIs
<1>13. q \in Seq(Works(given.count))
  <2>1. queue[stage] \in Seq(Works(pool[stage].count))
    BY <1>1, <1>3 DEF Fine
  <2>2. /\ Seq(Works(pool[stage].count)) \subseteq Seq(Works(given.count))
        /\ Seq(Works(Outer.pool.count)) \subseteq Seq(Works(given.count))
    <3>1. pool[stage].count <= given.count
      BY <1>9, <1>10
    <3>2. QED
      BY <1>9, <1>10, <3>1, WorksGrow
  <2>3. PICK S : S = Works(given.count)
    OBVIOUS
  <2>4. work \in Seq(S)
    <3>1. Input(Outer.ids[1]) \in Seq(S) /\ <<>> \in Seq(S)
      BY <1>9, <2>2, <2>3
    <3>2. CASE given = AllBack
      <4>1. <<ChunkRows>> \in Seq(S)
        BY <1>9, <1>10, <2>3, <3>2
      <4>2. Input(Outer.ids[1]) \o <<ChunkRows>> \in Seq(S)
        BY <3>1, <4>1, ConcatProperties
      <4>3. QED
        BY <1>6, <3>1, <4>2 DEF Failing
    <3>3. CASE given # AllBack
      BY <1>6, <3>1, <3>3 DEF Failing
    <3>4. QED
      BY <3>2, <3>3
  <2>5. queue[stage] \in Seq(S)
    BY <2>1, <2>2, <2>3
  <2>6. q \in Seq(S)
    BY <2>4, <2>5, ConcatProperties
  <2>7. QED
    BY <2>3, <2>6
<1> HIDE DEF q, x, b, p
<1>14. /\ Changed(st, st', n, e, x) /\ Changed(queue, queue', n, e, q)
       /\ Changed(buf, buf', n, e, b) /\ Changed(pool, p, n, e, given)
  BY <1>3, <1>8, ChangedIs
<1>15. ASSUME NEW s \in 1 .. n
       PROVE  Fine(st'[s], buf'[s], queue'[s], p[s], HeldOn(s), Most)
  <2>1. CASE s = e
    BY <1>2, <1>10, <1>11, <1>12, <1>13, <1>14, <2>1 DEF Changed, Fine
  <2>2. CASE s # e
    BY <1>3, <1>14, <2>2 DEF Changed
  <2>3. QED
    BY <2>1, <2>2
<1>16. held' = <<>> /\ Over /\ graph' = graph /\ served' = served
  BY DEF FailPrefill, Over
<1>17. ASSUME NEW s \in 1 .. n
       PROVE  Fine(st'[s], buf'[s], queue'[s], pool'[s], HeldOn(s)', Most)
  <2>1. HeldOn(s)' = {}
    BY <1>16, NothingKept
  <2>2. Kept /\ s \in Stages
    BY <1>4 DEF Accounts, Desk
  <2>3. Fine(st'[s], buf'[s], queue'[s], Dropped(p)[s], {}, Most)
    BY <1>15, <2>2, DroppedFine
  <2>4. QED
    BY <1>8, <2>1, <2>3
<1>18. Array(pool', n)
  BY <1>4, <1>8 DEF Array, Dropped
<1>19. Rig' /\ LastStage' = LastStage
  BY <1>1, <1>14, <1>17, <1>18, RigFrom DEF Accounts, Changed
<1>20. Desk' /\ Counted'
  BY <1>1, <1>16, <1>19, OverDesk DEF Accounts
<1>21. QED
  BY <1>19, <1>20 DEF Accounts

-----------------------------------------------------------------------------
(* The devices' steps                                                       *)

\* The host has done nothing, and no stage has come further or counts more rows.
LEMMA HostKept ==
  ASSUME Accounts, UNCHANGED <<setup, host>>, Rig', LastStage' = LastStage,
         \A s \in 1 .. LastStage : st'[s].len = st[s].len /\ st'[s].pos = st[s].pos
  PROVE  Accounts'
<1>1. Kept' /\ \A s : HeldOn(s)' = HeldOn(s)
  BY KeptOn DEF Accounts, Desk, host
<1>2. Desk'
  <2>1. ChunksOf(prompt)' = ChunksOf(prompt)
    BY DEF ChunksOf, ChunkSize, host
  <2>2. QED
    BY <1>1, <2>1 DEF Accounts, Desk, host, setup
<1>3. Counted'
  <2>1. \A t : Behind(prompt, t)' = Behind(prompt, t)
    BY DEF Behind, ChunkSize, host
  <2>2. \A s : Enq(s)' = Enq(s)
    BY DEF Enq, host
  <2>3. ASSUME NEW s \in 1 .. LastStage
        PROVE  CountedAt(s, st[s].len, st[s].pos)'
    <3>1. CountedAt(s, st[s].len, st[s].pos) /\ st'[s].len = st[s].len /\ st'[s].pos = st[s].pos
      BY DEF Accounts, Counted
    <3>2. Behind(prompt, Enq(s))' = Behind(prompt, Enq(s))
      BY <2>1, <2>2 DEF Behind
    <3>3. QED
      BY <1>1, <2>2, <3>1, <3>2 DEF CountedAt, host
  <2>4. QED
    BY <2>3 DEF Counted
<1>4. QED
  BY <1>2, <1>3 DEF Accounts

\* Rows that are written move no counter.
LEMMA WrittenIs ==
  ASSUME NEW x, StageRecord(x), NEW at, NEW outs
  PROVE  /\ StageRecord(Written(x, at, outs))
         /\ Written(x, at, outs).len = x.len /\ Written(x, at, outs).pos = x.pos
<1>1. x = [kinds |-> x.kinds, kv |-> x.kv, len |-> x.len, rec |-> x.rec, pos |-> x.pos]
  BY DEF StageRecord
<1> DEFINE y == Written(x, at, outs)
           kv == [i \in DOMAIN x.kv |-> IF i \in at + 1 .. at + Len(outs)
                                         THEN outs[i - at] ELSE x.kv[i]]
           r == Last(outs)
<1>2. y = [x EXCEPT !.kv = kv, !.rec = r]
  BY DEF Written
<1> HIDE DEF y, kv, r
<1>3. y = [kinds |-> x.kinds, kv |-> kv, len |-> x.len, rec |-> r, pos |-> x.pos]
  BY <1>1, <1>2
<1>4. StageRecord(y) /\ y.len = x.len /\ y.pos = x.pos
  BY <1>3 DEF StageRecord
<1>5. QED
  BY <1>4 DEF y

\* A device does the oldest work in its queue.
LEMMA ExecCounts ==
  ASSUME Accounts, NEW s \in Stages, Exec(s)
  PROVE  Accounts'
<1>1. PICK n \in Nat : n = LastStage
  BY DEF Accounts, Rig
<1>2. /\ Array(st, n) /\ Array(pool, n) /\ Array(buf, n) /\ Array(queue, n)
      /\ \A t \in 1 .. n : Fine(st[t], buf[t], queue[t], pool[t], HeldOn(t), Most)
  BY <1>1 DEF Accounts, Rig
<1>3. s \in 1 .. n
  BY <1>2, ArrayIs DEF Stages
<1>4. PICK k \in Nat : k = pool[s].count
  BY <1>2, <1>3 DEF Fine, Owned
<1>5. /\ StageRecord(st[s]) /\ Array(buf[s], k) /\ queue[s] \in Seq(Works(k))
      /\ Owned(pool[s], HeldOn(s)) /\ Bounded(Made(pool[s], HeldOn(s)), Most)
  BY <1>2, <1>3, <1>4 DEF Fine
<1> DEFINE op == Head(queue[s])
           q == Tail(queue[s])
<1>6. op \in Works(k) /\ q \in Seq(Works(k))
  BY <1>5 DEF Exec
<1>7. queue' = [queue EXCEPT ![s] = q] /\ UNCHANGED <<setup, host>>
  BY DEF Exec
<1>8. pool' = pool /\ \A t : HeldOn(t)' = HeldOn(t)
  BY <1>7, KeptOn DEF host
<1>9. \/ op.op = "copy" /\ op.dst \in 0 .. k
      \/ op.op = "embed"
      \/ op.op = "rows"
      \/ op.op = "body"
  BY <1>6 DEF Works
<1>10. PICK x, b : /\ StageRecord(x) /\ x.len = st[s].len /\ x.pos = st[s].pos /\ Array(b, k)
                   /\ Changed(st, st', n, s, x) /\ Changed(buf, buf', n, s, b)
  <2>1. /\ \A v : st' = [st EXCEPT ![s] = v] => Changed(st, st', n, s, v)
        /\ \A v : buf' = [buf EXCEPT ![s] = v] => Changed(buf, buf', n, s, v)
        /\ Changed(st, st, n, s, st[s]) /\ Changed(buf, buf, n, s, buf[s])
    BY <1>2, <1>3, ChangedIs
  <2>2. CASE op.op = "copy" /\ op.dst \in 0 .. k
    <3>1. st' = st
      BY <2>2 DEF Exec
    <3>2. CASE op.dst = HiddenA
      <4>1. buf' = buf
        BY <2>2, <3>2 DEF Exec
      <4>2. QED
        BY <1>5, <2>1, <3>1, <4>1
    <3>3. CASE op.dst # HiddenA
      <4> DEFINE c == Content(s - 1, op.src)
                 b == [buf[s] EXCEPT ![op.dst] = c]
      <4>1. buf' = [buf EXCEPT ![s][op.dst] = c]
        BY <2>2, <3>3 DEF Exec
      <4> HIDE DEF c
      <4>2. buf' = [buf EXCEPT ![s] = b]
        BY <4>1
      <4>3. Array(b, k)
        BY <1>5, ArrayIs DEF Array
      <4> HIDE DEF b
      <4>4. QED
        BY <1>5, <2>1, <3>1, <4>2, <4>3
    <3>4. QED
      BY <3>2, <3>3
  <2>3. CASE op.op = "embed"
    <3>1. st' = st /\ buf' = buf
      BY <2>3 DEF Exec
    <3>2. QED
      BY <1>5, <2>1, <3>1
  <2>4. CASE op.op = "rows"
    <3> DEFINE rows == IF s = 1 THEN Embedded(st[s], op.at, op.toks) ELSE buf[s][op.buf]
               outs == Outputs(st[s], op.at, rows)
               x == Written(st[s], op.at, outs)
               b == [i \in DOMAIN buf[s] |-> IF i = op.buf THEN outs
                               ELSE IF i \in op.scratch THEN <<Junk>> ELSE buf[s][i]]
    <3>1. st' = [st EXCEPT ![s] = x] /\ buf' = [buf EXCEPT ![s] = b]
      BY <2>4 DEF Exec
    <3> HIDE DEF outs
    <3>2. StageRecord(x) /\ x.len = st[s].len /\ x.pos = st[s].pos
      BY <1>5, WrittenIs
    <3>3. Array(b, k)
      BY <1>5, ArrayIs DEF Array
    <3> HIDE DEF x, b
    <3>4. QED
      BY <2>1, <3>1, <3>2, <3>3
  <2>5. CASE op.op = "body"
    <3> DEFINE row == Outputs(st[s], d_pos[s], <<hidden_a[s]>>)
               x == Written(st[s], d_pos[s], row)
    <3>1. st' = [st EXCEPT ![s] = x] /\ buf' = buf
      BY <2>5 DEF Exec
    <3> HIDE DEF row
    <3>2. StageRecord(x) /\ x.len = st[s].len /\ x.pos = st[s].pos
      BY <1>5, WrittenIs
    <3> HIDE DEF x
    <3>3. QED
      BY <1>5, <2>1, <3>1, <3>2
  <2>6. QED
    BY <1>9, <2>2, <2>3, <2>4, <2>5
<1> HIDE DEF op, q
<1>11. Changed(queue, queue', n, s, q) /\ Changed(pool, pool', n, s, pool[s])
  BY <1>2, <1>3, <1>7, <1>8, ChangedIs
<1>12. Fine(x, b, q, pool[s], HeldOn(s)', Most)
  BY <1>4, <1>5, <1>6, <1>8, <1>10 DEF Fine
<1>13. Rig' /\ LastStage' = n
  BY <1>1, <1>3, <1>8, <1>10, <1>11, <1>12, RigOf DEF Accounts
<1>14. ASSUME NEW t \in 1 .. n
       PROVE  st'[t].len = st[t].len /\ st'[t].pos = st[t].pos
  <2>1. CASE t = s
    BY <1>10, <2>1 DEF Changed
  <2>2. CASE t # s
    BY <1>10, <2>2 DEF Changed
  <2>3. QED
    BY <2>1, <2>2
<1>15. QED
  BY <1>1, <1>7, <1>13, <1>14, HostKept

-----------------------------------------------------------------------------
(* What the stages have seen                                                *)

\* The tokens of the request so far, and those before the last.
Whole == prompt \o out
Before == Begin(Whole, Len(Whole) - 1)

\* What a stage that serves is, whatever its rows hold.
Shape(x) ==
  /\ x.kinds \in (SUBSET {"full", "linear"}) \ {{}}
  /\ Array(x.kv, MaxSeq)
Shaped ==
  pc \notin {"plan", "refused", "built"} =>
    /\ \A s \in 1 .. LastStage : Shape(st[s])
    /\ Array(hidden_a, LastStage) /\ Array(d_pos, LastStage)

\* A stage with nothing to do that has seen a context; one that was reset and may
\* have work of an earlier request before it.
Rested(s, c) == Holds(st[s], c) /\ queue[s] = <<>>
Clear(s) == Holds(st[s], <<>>) /\ (queue[s] # <<>> => "linear" \notin st[s].kinds)

\* The context before chunk k, counted from 0, the chunk, and its rows.
Past(k) == Begin(prompt, Behind(prompt, k))
Piece(k) == ChunksOf(prompt)[k + 1]
RowsOf(k) == RowsAfter(Past(k), Piece(k))

\* The work of chunk k on stage s, which keeps its activations in the buffers a,
\* and on the stage after it, which keeps them in b.
RowsDue(x, s, k, a) ==
  /\ x.op = "rows" /\ x.tag = <<served, k>> /\ x.buf = a[k + 1] /\ x.at = Behind(prompt, k)
  /\ s = 1 => x.toks = Piece(k)
  /\ \A j \in 1 .. k + 1 : a[j] \notin x.scratch
CopyDue(x, k, a, b) ==
  /\ x.op = "copy" /\ x.after = <<served, k>> /\ x.dst = b[k + 1] /\ x.src = <<a[k + 1]>>

\* Where a stage is in its queue: first `old` pieces of work of earlier requests, then
\* what is left of the chunks 0 .. e - 1: `done` of them are done, and the next
\* one's activation has arrived if `in` is 1.
RowsAt(s, r, k) == r.old + (IF s = 1 THEN (k - r.done) + 1 ELSE 2 * (k - r.done) + 2 - r.in)
CopyAt(r, k) == r.old + 2 * (k - r.done) + 1 - r.in
Lined(s, r, e) ==
  /\ r.old \in Nat /\ r.done \in 0 .. e /\ r.in \in 0 .. 1
  /\ s = 1 \/ r.done = e => r.in = 0
  /\ r.old > 0 => r.done = 0 /\ r.in = 0 /\ "linear" \notin st[s].kinds
  /\ r.acts \in Seq(Nat \ {0}) /\ Len(r.acts) = e /\ Distinct(r.acts)
  /\ \A k \in 1 .. e : \E h \in HeldOn(s) : h.id = r.acts[k]
  /\ Len(queue[s]) = r.old + (IF s = 1 THEN e - r.done ELSE 2 * (e - r.done) - r.in)
  /\ \A k \in r.done .. e - 1 : RowsDue(queue[s][RowsAt(s, r, k)], s, k, r.acts)
  /\ Holds(st[s], Past(r.done))
  /\ \A k \in 0 .. r.done + r.in - 1 : buf[s][r.acts[k + 1]] = RowsOf(k)
  /\ s = LastStage /\ r.done > 0 => d_logits = Past(r.done)
\* A stage and the one before it.
Linked(s, p, r, e) ==
  /\ \A k \in r.done + r.in .. e - 1 : CopyDue(queue[s][CopyAt(r, k)], k, p.acts, r.acts)
  /\ r.done + r.in <= p.done
Queued(r) ==
  /\ \A s \in 1 .. LastStage : Lined(s, r[s], Enq(s))
  /\ \A s \in 2 .. LastStage : Linked(s, r[s - 1], r[s], Enq(s))
  /\ pc = "prefill" /\ stage > 1 => prev = <<r[stage - 1].acts[step + 1]>>

\* The step in flight.
InputOf(s, g) ==
  IF s = 1 THEN [op |-> "embed", tag |-> g, token |-> Last(Whole)]
  ELSE [op |-> "copy", tag |-> g, dst |-> HiddenA, src |-> <<HiddenA>>, after |-> g]
BodyOf(g) == [op |-> "body", tag |-> g]
InFlight(s, g) ==
  /\ d_pos[s] = Len(Whole) - 1
  /\ \/ queue[s] = <<InputOf(s, g), BodyOf(g)>> /\ Holds(st[s], Before)
     \/ queue[s] = <<BodyOf(g)>> /\ Holds(st[s], Before) /\ hidden_a[s] = Whole
     \/ Rested(s, Whole) /\ hidden_a[s] = Whole /\ (s = LastStage => d_logits = Whole)
  /\ s > 1 /\ Len(queue[s]) < 2 => queue[s - 1] = <<>>
\* A stage the step has not reached.
Due(s) == Holds(st[s], Before) /\ (queue[s] = <<>> \/ (Before = <<>> /\ "linear" \notin st[s].kinds))

Queues ==
  /\ pc = "reset" => \A s \in 1 .. stage - 1 : Clear(s)
  /\ pc = "prefill" => \E r : Queued(r)
  /\ pc = "prefilled" => step = Len(ChunksOf(prompt)) /\ \E r : Queued(r)
  /\ pc \in {"capture", "sample"} => logits = Whole /\ \A s \in 1 .. LastStage : Rested(s, Whole)
  /\ pc = "deliver" /\ ~graph => \A s \in 1 .. LastStage : Rested(s, Before)
  /\ pc = "launch" =>
       /\ out = <<>> => Len(prompt) = 1
       /\ stage > 1 => prev = <<HiddenA>>
       /\ \A s \in 1 .. LastStage : IF s < stage THEN InFlight(s, Tag) ELSE Due(s)
  /\ (pc = "deliver" /\ graph) \/ pc = "finish" =>
       \E g : \A s \in 1 .. LastStage : InFlight(s, g)

Exact == Accounts /\ Shaped /\ Queues

\* The tokens that can be told from junk.
Word == Mark \ {Bad}

\* Where the host has nothing out, there is nothing to say of the queues.
LEMMA NoQueues ==
  ASSUME pc' \in {"idle", "built", "refused"} \/ (pc' = "reset" /\ stage' = 1)
  PROVE  Queues'
BY DEF Queues

\* The tokens of a request.
LEMMA WholeIs ==
  ASSUME Accounts, pc \in Serving
  PROVE  /\ prompt \in Seq(Word) /\ prompt # <<>> /\ out \in Seq(Word) /\ Whole \in Seq(Word)
         /\ Len(prompt) \in Nat \ {0} /\ Len(out) \in Nat /\ Len(Whole) = Len(prompt) + Len(out)
         /\ Len(Whole) <= MaxSeq
         /\ Before \in Seq(Word) /\ Len(Before) = Len(Whole) - 1
         /\ Last(Whole) \in Word /\ Whole = Before \o <<Last(Whole)>>
<1>1. prompt \in Seq(Word)
  <2>1. prompt \in Prompts
    BY DEF Accounts, Desk
  <2>2. prompt \in Seq(ToSet(prompt) \ {Bad})
    BY <2>1, PipelineAssumption
  <2>3. ToSet(prompt) \ {Bad} \subseteq Word
    BY <2>1 DEF Word, Mark
  <2>4. PICK S : S = ToSet(prompt) \ {Bad}
    OBVIOUS
  <2>5. prompt \in Seq(S) /\ S \subseteq Word
    BY <2>2, <2>3, <2>4
  <2>6. QED
    BY <2>5
<1>2. /\ prompt # <<>> /\ Len(prompt) \in Nat \ {0}
  BY PromptIs DEF Accounts, Desk
<1>3. /\ out \in Seq(Token) /\ Len(out) <= max_tokens /\ max_tokens \in Nat
      /\ Len(prompt) + max_tokens + Slack <= MaxSeq
  BY DEF Accounts, Desk
<1>4. out \in Seq(Word) /\ Len(out) \in Nat
  <2>1. Token \subseteq Word
    BY PipelineAssumption DEF Word, Mark
  <2>2. QED
    BY <1>3, <2>1
<1>5. Whole \in Seq(Word) /\ Len(Whole) = Len(prompt) + Len(out)
  BY <1>1, <1>4, ConcatProperties DEF Whole
<1>6. PICK p \in Nat \ {0}, o \in Nat, m \in Nat : p = Len(prompt) /\ o = Len(out) /\ m = max_tokens
  BY <1>2, <1>3, <1>4
<1>7. Slack \in Nat /\ MaxSeq \in Nat
  BY PipelineAssumption
<1>8. Len(Whole) <= MaxSeq
  BY <1>3, <1>5, <1>6, <1>7
<1>9. PICK w \in Seq(Word), n \in Nat : w = Whole /\ n = Len(w) /\ n >= 1
  BY <1>5, <1>6
<1>10. Before = Begin(w, n - 1)
  BY <1>9 DEF Before
<1>11. /\ Begin(w, n - 1) \in Seq(Word) /\ Len(Begin(w, n - 1)) = n - 1
       /\ \A i \in 1 .. n - 1 : Begin(w, n - 1)[i] = w[i]
  <2>1. n - 1 \in 0 .. Len(w)
    BY <1>9
  <2>2. PICK m_ \in 0 .. Len(w) : m_ = n - 1
    BY <2>1
  <2>3. QED
    BY <2>2, Beginning
<1>12. Last(w) \in Word /\ Last(w) = w[n]
  BY <1>9, ElementOfSeq DEF Last
<1>13. PICK b \in Seq(Word), x \in Word : b = Begin(w, n - 1) /\ x = Last(w)
  BY <1>11, <1>12
<1>14. w = b \o <<x>>
  <2>1. <<x>> \in Seq(Word) /\ Len(<<x>>) = 1 /\ <<x>>[1] = x
    OBVIOUS
  <2>2. /\ b \o <<x>> \in Seq(Word) /\ Len(b \o <<x>>) = Len(b) + 1
        /\ \A i \in 1 .. Len(b) + 1 : (b \o <<x>>)[i] = IF i <= Len(b) THEN b[i] ELSE x
    BY ConcatProperties
  <2>3. Len(b \o <<x>>) = Len(w)
    BY <1>9, <1>11, <1>13, <2>2
  <2>4. \A i \in 1 .. Len(w) : w[i] = (b \o <<x>>)[i]
    BY <1>9, <1>11, <1>12, <1>13, <2>2
  <2>5. QED
    BY <1>9, <2>2, <2>3, <2>4, SeqEqual
<1>15. QED
  BY <1>1, <1>2, <1>4, <1>5, <1>8, <1>9, <1>10, <1>11, <1>13, <1>14

\* A prompt is its chunks, one after another.
LEMMA PieceIs ==
  ASSUME Accounts, pc \in Serving, NEW k \in 0 .. Len(ChunksOf(prompt)) - 1
  PROVE  /\ Past(k) \in Seq(Word) /\ Len(Past(k)) = Behind(prompt, k) /\ Behind(prompt, k) \in Nat
         /\ Piece(k) \in Seq(Word) /\ Piece(k) # <<>>
         /\ Len(Past(k)) + Len(Piece(k)) <= MaxSeq
         /\ Past(k) \o Piece(k) = Past(k + 1)
<1>1. /\ prompt \in Seq(Word) /\ prompt # <<>> /\ Len(prompt) \in Nat \ {0} /\ Len(prompt) <= MaxSeq
  <2>1. /\ prompt \in Seq(Word) /\ prompt # <<>> /\ Len(prompt) \in Nat \ {0} /\ Len(out) \in Nat
        /\ Len(prompt) + Len(out) <= MaxSeq
    BY WholeIs
  <2>2. MaxSeq \in Nat
    BY PipelineAssumption
  <2>3. QED
    BY <2>1, <2>2
<1>2. PICK m \in Nat : m = Len(ChunksOf(prompt))
  BY <1>1, ChunksAre
<1>3. PICK i \in 1 .. m : i = k + 1 /\ i - 1 = k
  BY <1>2
<1>4. PICK a \in Nat, b \in Nat :
        /\ a = Behind(prompt, k) /\ b = Behind(prompt, k + 1) /\ a < b /\ b <= Len(prompt)
        /\ a = k * ChunkSize(Len(prompt))
        /\ Len(ChunksOf(prompt)[i]) = b - a /\ ChunksOf(prompt)[i] \in Seq(Word)
  BY <1>1, <1>2, <1>3, ChunksAre
<1>5. PICK c \in Nat \ {0} : c = ChunkSize(Len(prompt))
  BY <1>1, ChunkSizeIs
<1>6. ChunksOf(prompt)[i] = SubSeq(prompt, a + 1, b)
  <2>1. /\ ChunksOf(prompt) = [j \in 1 .. Ceil(Len(prompt), c) |->
             SubSeq(prompt, (j - 1) * c + 1, IF j * c < Len(prompt) THEN j * c ELSE Len(prompt))]
        /\ Ceil(Len(prompt), c) = m
    <3>1. ChunksOf(prompt) = [j \in 1 .. Ceil(Len(prompt), c) |->
             SubSeq(prompt, (j - 1) * c + 1, IF j * c < Len(prompt) THEN j * c ELSE Len(prompt))]
      BY <1>5 DEF ChunksOf
    <3>2. Ceil(Len(prompt), c) \in Nat
      BY <1>1, CeilIs
    <3>3. Array(ChunksOf(prompt), Ceil(Len(prompt), c))
      BY <3>1 DEF Array
    <3>4. QED
      BY <1>2, <3>1, <3>2, <3>3, ArrayIs
  <2>2. ChunksOf(prompt)[i] =
          SubSeq(prompt, (i - 1) * c + 1, IF i * c < Len(prompt) THEN i * c ELSE Len(prompt))
    BY <2>1
  <2>3. (i - 1) * c = a
    BY <1>3, <1>4, <1>5
  <2>4. b = IF i * c <= Len(prompt) THEN i * c ELSE Len(prompt)
    BY <1>3, <1>4, <1>5 DEF Behind
  <2>5. PICK d \in Nat : d = i * c
    OBVIOUS
  <2>6. b = IF i * c < Len(prompt) THEN i * c ELSE Len(prompt)
    BY <1>1, <2>4, <2>5
  <2>7. QED
    BY <2>2, <2>3, <2>6
<1>7. PICK y \in Seq(Word) : y = Piece(k) /\ y = SubSeq(prompt, a + 1, b) /\ Len(y) = b - a
  BY <1>3, <1>4, <1>6 DEF Piece
<1>8. PICK x \in Seq(Word) : /\ x = Past(k) /\ Len(x) = a /\ x = Begin(prompt, a)
                             /\ \A j \in 1 .. a : x[j] = prompt[j]
  <2>1. a \in 0 .. Len(prompt)
    BY <1>1, <1>4
  <2>2. /\ Begin(prompt, a) \in Seq(Word) /\ Len(Begin(prompt, a)) = a
        /\ \A j \in 1 .. a : Begin(prompt, a)[j] = prompt[j]
    BY <1>1, <2>1, Beginning
  <2>3. Past(k) = Begin(prompt, a)
    BY <1>4 DEF Past
  <2>4. QED
    BY <2>2, <2>3
<1>9. PICK z \in Seq(Word) : /\ z = Past(k + 1) /\ Len(z) = b
                             /\ \A j \in 1 .. b : z[j] = prompt[j]
  <2>1. b \in 0 .. Len(prompt)
    BY <1>1, <1>4
  <2>2. /\ Begin(prompt, b) \in Seq(Word) /\ Len(Begin(prompt, b)) = b
        /\ \A j \in 1 .. b : Begin(prompt, b)[j] = prompt[j]
    BY <1>1, <2>1, Beginning
  <2>3. Past(k + 1) = Begin(prompt, b)
    BY <1>4 DEF Past
  <2>4. QED
    BY <2>2, <2>3
<1>10. /\ a \in Nat /\ b \in Nat /\ a < b /\ b <= Len(prompt)
       /\ Len(x) = a /\ Len(y) = b - a /\ Len(z) = b
  BY <1>4, <1>7, <1>8, <1>9
<1>11. x \o y = z
  <2>1. PICK u \in Seq(Word) :
          /\ u = x \o y /\ Len(u) = b
          /\ \A j \in 1 .. b : u[j] = IF j <= a THEN x[j] ELSE y[j - a]
    <3>1. /\ x \o y \in Seq(Word) /\ Len(x \o y) = Len(x) + Len(y)
          /\ \A j \in 1 .. Len(x) + Len(y) : (x \o y)[j] = IF j <= Len(x) THEN x[j] ELSE y[j - Len(x)]
      BY ConcatProperties
    <3>2. Len(x) + Len(y) = b
      BY <1>10
    <3>3. QED
      BY <1>10, <3>1, <3>2
  <2>2. ASSUME NEW h \in 1 .. b - a
        PROVE  y[h] = prompt[a + h]
    <3>1. SubSeq(prompt, a + 1, b) = [l \in 1 .. (b - (a + 1)) + 1 |-> prompt[(a + 1) + l - 1]]
      BY <1>10
    <3>2. h \in 1 .. (b - (a + 1)) + 1 /\ (a + 1) + h - 1 = a + h
      BY <1>10
    <3>3. QED
      BY <1>7, <3>1, <3>2
  <2>3. ASSUME NEW j \in 1 .. b
        PROVE  u[j] = z[j]
    <3>1. z[j] = prompt[j]
      BY <1>9
    <3>2. CASE j <= a
      <4>1. j \in 1 .. a
        BY <1>10, <3>2
      <4>2. QED
        BY <1>8, <2>1, <3>1, <3>2, <4>1
    <3>3. CASE ~(j <= a)
      <4>1. PICK h \in 1 .. b - a : h = j - a /\ a + h = j
        BY <1>10, <3>3
      <4>2. QED
        BY <2>1, <2>2, <3>1, <3>3, <4>1
    <3>4. QED
      BY <3>2, <3>3
  <2>4. Len(u) = Len(z) /\ \A j \in 1 .. Len(u) : u[j] = z[j]
    BY <1>10, <2>1, <2>3
  <2>5. QED
    BY <2>1, <2>4, SeqEqual
<1>12. Len(x) + Len(y) <= MaxSeq
  <2>1. MaxSeq \in Nat
    BY PipelineAssumption
  <2>2. QED
    BY <1>1, <1>10, <2>1
<1>13. y # <<>>
  <2>1. Len(<<>>) = 0 /\ b - a > 0
    BY <1>10
  <2>2. QED
    BY <1>10, <2>1
<1>14. QED
  BY <1>4, <1>7, <1>8, <1>9, <1>11, <1>12, <1>13

\* Before the first chunk nothing was seen, after the last one all of the prompt.
LEMMA PastEnds ==
  ASSUME Accounts, pc \in Serving
  PROVE  /\ Past(0) = <<>> /\ Past(Len(ChunksOf(prompt))) = prompt
         /\ Len(ChunksOf(prompt)) \in Nat \ {0}
<1>1. prompt \in Seq(Word) /\ prompt # <<>>
  BY WholeIs
<1>2. /\ Behind(prompt, 0) = 0 /\ Behind(prompt, Len(ChunksOf(prompt))) = Len(prompt)
      /\ Len(ChunksOf(prompt)) \in Nat \ {0}
  BY <1>1, ChunksAre
<1>3. Begin(prompt, 0) = <<>> /\ Begin(prompt, Len(prompt)) = prompt
  BY <1>1, SubSeqFull DEF Begin
<1>4. QED
  BY <1>2, <1>3 DEF Past

\* A stage that has seen a context, on the tokens that come next.
LEMMA StageRows ==
  ASSUME NEW x, Shape(x), StageRecord(x), NEW c \in Seq(Word), NEW toks \in Seq(Word),
         toks # <<>>, Len(c) + Len(toks) <= MaxSeq, Holds(x, c)
  PROVE  /\ Embedded(x, Len(c), toks) = RowsAfter(c, toks)
         /\ Outputs(x, Len(c), RowsAfter(c, toks)) = RowsAfter(c, toks)
         /\ Holds(Written(x, Len(c), RowsAfter(c, toks)), c \o toks)
         /\ Last(RowsAfter(c, toks)) = c \o toks
<1>1. /\ x.kinds \in (SUBSET {"full", "linear"}) \ {{}} /\ Bad \notin Word /\ MaxSeq \in Nat
      /\ Fields(x)
  BY PipelineAssumption DEF Shape, StageRecord, Word, Fields
<1>2. DOMAIN x.kv = 1 .. MaxSeq
  BY <1>1, ArrayIs DEF Shape
<1>3. PICK w : w = Written(x, Len(c), RowsAfter(c, toks))
  OBVIOUS
<1>4. Grown(x, w, c, toks, MaxSeq)
  BY <1>1, <1>2, <1>3, WrittenRows
<1>5. /\ Embedded(x, Len(c), toks) = RowsAfter(c, toks)
      /\ Outputs(x, Len(c), RowsAfter(c, toks)) = RowsAfter(c, toks)
  BY <1>1, ForwardRows
<1>6. Last(RowsAfter(c, toks)) = c \o toks
  BY RowsAfterFacts
<1>7. Holds(w, c \o toks)
  BY <1>4 DEF Grown
<1>8. QED
  BY <1>3, <1>5, <1>6, <1>7

\* What a stage is does not change where rows are written or counted.
LEMMA ShapeKept ==
  ASSUME NEW x, Shape(x), StageRecord(x)
  PROVE  /\ \A at, outs : Shape(Written(x, at, outs)) /\ Written(x, at, outs).kinds = x.kinds
         /\ Shape(ResetStage(x)) /\ ResetStage(x).kinds = x.kinds /\ Holds(ResetStage(x), <<>>)
         /\ \A a, b : Shape(Moved(x, a, b)) /\ Moved(x, a, b).kinds = x.kinds
                      /\ \A c : Holds(Moved(x, a, b), c) <=> Holds(x, c)
<1>1. /\ x = [kinds |-> x.kinds, kv |-> x.kv, len |-> x.len, rec |-> x.rec, pos |-> x.pos]
      /\ DOMAIN x.kv = 1 .. MaxSeq
  BY ArrayIs, PipelineAssumption DEF Shape, StageRecord
<1>2. ASSUME NEW at, NEW outs
      PROVE  Shape(Written(x, at, outs)) /\ Written(x, at, outs).kinds = x.kinds
  <2> DEFINE y == Written(x, at, outs)
             kv == [i \in 1 .. MaxSeq |-> IF i \in at + 1 .. at + Len(outs)
                                           THEN outs[i - at] ELSE x.kv[i]]
             r == Last(outs)
  <2>1. y = [x EXCEPT !.kv = kv, !.rec = r]
    BY <1>1 DEF Written
  <2>2. Array(kv, MaxSeq)
    BY DEF Array
  <2> HIDE DEF y, kv, r
  <2>3. y.kinds = x.kinds /\ y.kv = kv
    BY <1>1, <2>1
  <2>4. Shape(y) /\ y.kinds = x.kinds
    BY <2>2, <2>3 DEF Shape
  <2>5. QED
    BY <2>4 DEF y
<1>3. Shape(ResetStage(x)) /\ ResetStage(x).kinds = x.kinds /\ Holds(ResetStage(x), <<>>)
  <2>1. /\ ResetStage(x).kinds = x.kinds /\ ResetStage(x).kv = x.kv /\ ResetStage(x).rec = <<>>
    BY <1>1 DEF ResetStage
  <2>2. QED
    BY <2>1 DEF Shape, Holds
<1>4. ASSUME NEW a, NEW b
      PROVE  /\ Shape(Moved(x, a, b)) /\ Moved(x, a, b).kinds = x.kinds
             /\ \A c : Holds(Moved(x, a, b), c) <=> Holds(x, c)
  <2> DEFINE y == Moved(x, a, b)
  <2>1. y = [x EXCEPT !.len = x.len + a, !.pos = x.pos + b]
    BY DEF Moved
  <2> HIDE DEF y
  <2>2. y.kinds = x.kinds /\ y.kv = x.kv /\ y.rec = x.rec
    BY <1>1, <2>1
  <2>3. Shape(y) /\ y.kinds = x.kinds /\ \A c : Holds(y, c) <=> Holds(x, c)
    BY <2>2 DEF Shape, Holds
  <2>4. QED
    BY <2>3 DEF y
<1>5. QED
  BY <1>2, <1>3, <1>4

-----------------------------------------------------------------------------
(* The stages keep their shape                                             *)

\* The stages, as the accounts have them.
LEMMA RigIs ==
  ASSUME Accounts
  PROVE  /\ LastStage \in Nat /\ Stages = 1 .. LastStage
         /\ Array(st, LastStage) /\ Array(pool, LastStage) /\ Array(buf, LastStage)
         /\ Array(queue, LastStage)
         /\ \A s \in 1 .. LastStage :
              /\ StageRecord(st[s]) /\ pool[s].count \in Nat /\ Array(buf[s], pool[s].count)
              /\ queue[s] \in Seq(Works(pool[s].count)) /\ Owned(pool[s], HeldOn(s))
BY ArrayIs DEF Accounts, Rig, Fine, Owned, Stages

\* A stage is overwritten, and there are as many as before.
LEMMA StageChanged ==
  ASSUME Accounts, NEW e \in 1 .. LastStage, NEW x, st' = [st EXCEPT ![e] = x]
  PROVE  LastStage' = LastStage /\ Changed(st, st', LastStage, e, x)
<1>1. PICK n \in Nat : n = LastStage /\ Array(st, n)
  BY RigIs
<1>2. Changed(st, st', n, e, x)
  BY <1>1, ChangedIs
<1>3. LastStage' = n
  BY <1>2, ArrayIs DEF Changed, LastStage
<1>4. QED
  BY <1>1, <1>2, <1>3

\* A stage keeps what it is.
LEMMA ShapedOne ==
  ASSUME Accounts, Shaped, pc \notin {"plan", "refused", "built"},
         NEW e \in 1 .. LastStage, NEW x, st' = [st EXCEPT ![e] = x], Shape(x),
         \/ hidden_a' = hidden_a
         \/ \E v : hidden_a' = [hidden_a EXCEPT ![e] = v],
         \/ d_pos' = d_pos
         \/ \E v : d_pos' = [d_pos EXCEPT ![e] = v]
  PROVE  Shaped'
<1>1. PICK n \in Nat : n = LastStage
  BY RigIs
<1>2. LastStage' = n /\ Changed(st, st', n, e, x)
  BY <1>1, StageChanged
<1>3. \A s \in 1 .. n : Shape(st'[s])
  BY <1>1, <1>2 DEF Changed, Shaped
<1>4. Array(hidden_a, n) /\ Array(d_pos, n)
  BY <1>1 DEF Shaped
<1>5. Array(hidden_a', n)
  BY <1>1, <1>4, ChangedIs DEF Changed
<1>6. Array(d_pos', n)
  BY <1>1, <1>4, ChangedIs DEF Changed
<1>7. QED
  BY <1>2, <1>3, <1>5, <1>6 DEF Shaped

\* No step of the host changes what a stage is.
LEMMA ShapedHost ==
  ASSUME Accounts, Shaped, Host
  PROVE  Shaped'
<1>1. PICK n \in Nat : n = LastStage /\ Stages = 1 .. n
  BY RigIs
<1>2. \A s \in 1 .. n : StageRecord(st[s])
  BY <1>1, RigIs
<1>3. CASE Build
  <2>1. SUFFICES ASSUME pc' \notin {"plan", "refused", "built"}
                 PROVE  Shaped'
    BY DEF Shaped
  <2>2. Layout \in Layouts
    BY <1>3, <2>1 DEF Build
  <2>3. Layout \in Seq({{"full"}, {"linear"}, {"full", "linear"}})
    BY <2>2, PipelineAssumption
  <2>4. PICK m \in Nat : m = Len(Layout) /\ DOMAIN Layout = 1 .. m
    BY <2>3
  <2>5. \A s \in 1 .. m : Layout[s] \in (SUBSET {"full", "linear"}) \ {{}}
    <3>1. PICK l : l = Layout
      OBVIOUS
    <3>2. \A s \in 1 .. m : l[s] \in {{"full"}, {"linear"}, {"full", "linear"}}
      BY <2>3, <2>4, <3>1, ElementOfSeq
    <3>3. \A k \in {{"full"}, {"linear"}, {"full", "linear"}} : k \in (SUBSET {"full", "linear"}) \ {{}}
      OBVIOUS
    <3>4. QED
      BY <3>1, <3>2, <3>3
  <2>6. /\ st' = [s \in 1 .. m |-> NewStage(Layout[s], MaxSeq)]
        /\ hidden_a' = [s \in 1 .. m |-> Junk] /\ d_pos' = [s \in 1 .. m |-> 0]
    BY <1>3, <2>4 DEF Build
  <2>7. Array(st', m) /\ Array(hidden_a', m) /\ Array(d_pos', m)
    BY <2>6 DEF Array
  <2>8. LastStage' = m
    BY <2>7, ArrayIs DEF LastStage
  <2>9. \A s \in 1 .. m : Shape(st'[s])
    BY <2>5, <2>6 DEF Shape, NewStage, Array
  <2>10. QED
    BY <2>7, <2>8, <2>9 DEF Shaped
<1>4. CASE BuildFails
  BY <1>4 DEF BuildFails, Shaped
<1>5. CASE \/ Start \/ Prefilled \/ Sample \/ Finish \/ Deliver \/ Disconnect \/ DecodeFinish
           \/ FailStuck
  <2>1. UNCHANGED <<st, hidden_a, d_pos>> /\ pc \notin {"plan", "refused", "built"}
    BY <1>5 DEF Start, Prefilled, Sample, Finish, Deliver, Disconnect, DecodeFinish, FailStuck, device
  <2>2. LastStage' = LastStage
    BY <2>1 DEF LastStage
  <2>3. QED
    BY <2>1, <2>2 DEF Shaped
<1>6. CASE Reset \/ PrefillStage \/ LaunchStage \/ FailPrefill
  <2>1. pc \in {"reset", "prefill", "launch"} /\ hidden_a' = hidden_a
    BY <1>6 DEF Reset, PrefillStage, LaunchStage, FailPrefill
  <2>2. stage \in 1 .. n
    BY <1>1, <2>1 DEF Accounts, Desk
  <2>3. Shape(st[stage]) /\ StageRecord(st[stage])
    BY <1>1, <1>2, <2>1, <2>2 DEF Shaped
  <2>4. PICK x : st' = [st EXCEPT ![stage] = x] /\ Shape(x)
    <3>1. CASE Reset
      BY <2>3, <3>1, ShapeKept DEF Reset
    <3>2. CASE PrefillStage
      <4>1. st' = [st EXCEPT ![stage] = Moved(st[stage], Len(chunks[1]), Len(chunks[1]))]
        BY <3>2 DEF PrefillStage
      <4>2. QED
        BY <2>3, <4>1, ShapeKept
    <3>3. CASE LaunchStage
      <4>1. st' = [st EXCEPT ![stage] = Moved(st[stage], IF Replays THEN 0 ELSE 1, 1)]
        BY <3>3 DEF LaunchStage
      <4>2. QED
        BY <2>3, <4>1, ShapeKept
    <3>4. CASE FailPrefill
      <4>1. \E ran : st' = [st EXCEPT ![stage] = Moved(st[stage], ran, 0)]
        BY <3>4, FailPrefillIs DEF PrefillLeft
      <4>2. QED
        BY <2>3, <4>1, ShapeKept
    <3>5. QED
      BY <1>6, <3>1, <3>2, <3>3, <3>4
  <2>5. d_pos' = d_pos \/ \E v : d_pos' = [d_pos EXCEPT ![stage] = v]
    BY <1>6 DEF Reset, PrefillStage, LaunchStage, FailPrefill
  <2>6. PICK e \in 1 .. LastStage : e = stage
    BY <1>1, <2>2
  <2>7. QED
    BY <2>1, <2>4, <2>5, <2>6, ShapedOne
<1>7. CASE Capture \/ FailCapture
  <2>1. pc = "capture" /\ UNCHANGED <<hidden_a, d_pos>>
    BY <1>7 DEF Capture, FailCapture
  <2>2. \A s \in 1 .. n : Shape(st[s]) /\ StageRecord(st[s])
    BY <1>1, <1>2, <2>1 DEF Shaped
  <2>3. \/ st' = st
        \/ \E f : st' = [s \in 1 .. n |-> Moved(st[s], f[s], 0)]
    <3>1. CASE Capture
      <4>1. st' = st \/ st' = [s \in 1 .. n |-> Moved(st[s], 1, 0)]
        BY <1>1, <3>1 DEF Capture
      <4>2. \A s \in 1 .. n : [t \in 1 .. n |-> 1][s] = 1
        OBVIOUS
      <4>3. QED
        BY <4>1, <4>2
    <3>2. CASE FailCapture
      <4>1. PICK ran : st' = [s \in 1 .. n |-> Moved(st[s], IF s <= ran THEN 1 ELSE 0, 0)]
        BY <1>1, <3>2 DEF FailCapture
      <4> DEFINE f == [s \in 1 .. n |-> IF s <= ran THEN 1 ELSE 0]
      <4>2. \A s \in 1 .. n : f[s] = IF s <= ran THEN 1 ELSE 0
        OBVIOUS
      <4> HIDE DEF f
      <4>3. st' = [s \in 1 .. n |-> Moved(st[s], f[s], 0)]
        BY <4>1, <4>2
      <4>4. QED
        BY <4>3
    <3>3. QED
      BY <1>7, <3>1, <3>2
  <2>4. LastStage' = n /\ \A s \in 1 .. n : Shape(st'[s])
    <3>1. CASE st' = st
      BY <1>1, <2>2, <3>1 DEF LastStage
    <3>2. CASE \E f : st' = [s \in 1 .. n |-> Moved(st[s], f[s], 0)]
      <4>1. PICK f : st' = [s \in 1 .. n |-> Moved(st[s], f[s], 0)]
        BY <3>2
      <4>2. Array(st', n)
        BY <4>1 DEF Array
      <4>3. LastStage' = n
        BY <4>2, ArrayIs DEF LastStage
      <4>4. \A s \in 1 .. n : st'[s] = Moved(st[s], f[s], 0)
        BY <4>1
      <4>5. QED
        BY <2>2, <4>3, <4>4, ShapeKept
    <3>3. QED
      BY <2>3, <3>1, <3>2
  <2>5. QED
    BY <1>1, <2>1, <2>4 DEF Shaped
<1>8. CASE FailLaunch
  <2>1. /\ pc = "launch" /\ st' = st /\ hidden_a' = hidden_a
        /\ d_pos' = [d_pos EXCEPT ![stage] = st[stage].pos]
    BY <1>8 DEF FailLaunch
  <2>2. stage \in 1 .. n /\ Array(d_pos, n)
    BY <1>1, <2>1 DEF Accounts, Desk, Shaped
  <2>3. PICK e \in 1 .. n : e = stage
    BY <2>2
  <2>4. Array(d_pos', n)
    BY <2>1, <2>2, <2>3, ChangedIs DEF Changed
  <2>5. LastStage' = n
    BY <1>1, <2>1 DEF LastStage
  <2>6. QED
    BY <1>1, <2>1, <2>4, <2>5 DEF Shaped
<1>9. QED
  BY <1>3, <1>4, <1>5, <1>6, <1>7, <1>8 DEF Host

\* What the oldest work of a stage does: the stage becomes x, its buffers b, its
\* hidden_a v.
EffectOf(s, op, x, b, v) ==
  /\ op.op = "copy" =>
       /\ Awaited(s, op) = {} /\ x = st[s] /\ d_logits' = d_logits
       /\ IF op.dst = HiddenA
            THEN v = Content(s - 1, op.src)[1] /\ b = buf[s]
            ELSE v = hidden_a[s] /\ b = [buf[s] EXCEPT ![op.dst] = Content(s - 1, op.src)]
  /\ op.op = "embed" =>
       /\ x = st[s] /\ b = buf[s] /\ d_logits' = d_logits
       /\ v = Embedded(st[s], d_pos[s], <<op.token>>)[1]
  /\ op.op = "rows" => \E rows, outs :
       /\ rows = IF s = 1 THEN Embedded(st[s], op.at, op.toks) ELSE buf[s][op.buf]
       /\ outs = Outputs(st[s], op.at, rows)
       /\ x = Written(st[s], op.at, outs) /\ v = hidden_a[s]
       /\ b = [i \in DOMAIN buf[s] |-> IF i = op.buf THEN outs
                                       ELSE IF i \in op.scratch THEN <<Junk>> ELSE buf[s][i]]
       /\ d_logits' = IF s = LastStage THEN Last(outs) ELSE d_logits
  /\ op.op = "body" => \E row :
       /\ row = Outputs(st[s], d_pos[s], <<hidden_a[s]>>)
       /\ x = Written(st[s], d_pos[s], row) /\ b = buf[s] /\ v = row[1]
       /\ d_logits' = IF s = LastStage THEN row[1] ELSE d_logits
Effect(s, x, b, v) ==
  /\ Changed(st, st', LastStage, s, x) /\ Changed(buf, buf', LastStage, s, b)
  /\ Changed(hidden_a, hidden_a', LastStage, s, v)
  /\ Changed(queue, queue', LastStage, s, Tail(queue[s]))
  /\ Shape(x) /\ x.kinds = st[s].kinds
  /\ s # LastStage => d_logits' = d_logits
  /\ UNCHANGED <<setup, host, d_pos>> /\ LastStage' = LastStage
  /\ queue[s] # <<>> /\ EffectOf(s, Head(queue[s]), x, b, v)

\* A device's step changes its own stage and no other.
LEMMA ExecIs ==
  ASSUME Accounts, Shaped, pc \notin {"plan", "refused", "built"}, NEW s \in 1 .. LastStage, Exec(s)
  PROVE  \E x, b, v : Effect(s, x, b, v)
<1>1. PICK n \in Nat : n = LastStage
  BY RigIs
<1>2. /\ Array(st, n) /\ Array(buf, n) /\ Array(queue, n) /\ Array(hidden_a, n)
      /\ StageRecord(st[s]) /\ Shape(st[s]) /\ pool[s].count \in Nat
      /\ queue[s] \in Seq(Works(pool[s].count)) /\ s \in 1 .. n
  BY <1>1, RigIs DEF Shaped
<1>3. /\ \A v : st' = [st EXCEPT ![s] = v] => Changed(st, st', n, s, v)
      /\ \A v : buf' = [buf EXCEPT ![s] = v] => Changed(buf, buf', n, s, v)
      /\ \A v : hidden_a' = [hidden_a EXCEPT ![s] = v] => Changed(hidden_a, hidden_a', n, s, v)
      /\ \A v : queue' = [queue EXCEPT ![s] = v] => Changed(queue, queue', n, s, v)
      /\ Changed(st, st, n, s, st[s]) /\ Changed(buf, buf, n, s, buf[s])
      /\ Changed(hidden_a, hidden_a, n, s, hidden_a[s])
  BY <1>2, ChangedIs
<1>4. /\ queue[s] # <<>> /\ Ready(s, Head(queue[s])) /\ UNCHANGED <<setup, host, d_pos>>
      /\ queue' = [queue EXCEPT ![s] = Tail(queue[s])]
  BY DEF Exec
<1>5. PICK op : op = Head(queue[s])
  OBVIOUS
<1>6. op.op \in {"copy", "embed", "rows", "body"}
  <2>1. op \in Works(pool[s].count)
    BY <1>2, <1>4, <1>5
  <2>2. QED
    BY <2>1 DEF Works
<1>7. PICK x, b, v :
        /\ Changed(st, st', n, s, x) /\ Changed(buf, buf', n, s, b)
        /\ Changed(hidden_a, hidden_a', n, s, v)
        /\ Shape(x) /\ x.kinds = st[s].kinds /\ EffectOf(s, op, x, b, v)
        /\ s # n => d_logits' = d_logits
  <2>1. CASE op.op = "copy"
    <3>1. st' = st /\ d_logits' = d_logits /\ Awaited(s, op) = {}
      BY <1>4, <1>5, <2>1 DEF Exec, Ready
    <3>2. PICK c : c = Content(s - 1, op.src)
      OBVIOUS
    <3>3. CASE op.dst = HiddenA
      <4>1. buf' = buf /\ hidden_a' = [hidden_a EXCEPT ![s] = c[1]]
        BY <1>5, <2>1, <3>2, <3>3 DEF Exec
      <4>2. EffectOf(s, op, st[s], buf[s], c[1])
        BY <2>1, <3>1, <3>2, <3>3 DEF EffectOf
      <4>3. QED
        BY <1>2, <1>3, <3>1, <4>1, <4>2
    <3>4. CASE op.dst # HiddenA
      <4>1. hidden_a' = hidden_a /\ buf' = [buf EXCEPT ![s][op.dst] = c]
        BY <1>5, <2>1, <3>2, <3>4 DEF Exec
      <4>2. PICK d : d = [buf[s] EXCEPT ![op.dst] = c]
        OBVIOUS
      <4>3. buf' = [buf EXCEPT ![s] = d]
        BY <4>1, <4>2
      <4>4. EffectOf(s, op, st[s], d, hidden_a[s])
        BY <2>1, <3>1, <3>2, <3>4, <4>2 DEF EffectOf
      <4>5. QED
        BY <1>2, <1>3, <3>1, <4>1, <4>3, <4>4
    <3>5. QED
      BY <3>3, <3>4
  <2>2. CASE op.op = "embed"
    <3>1. PICK e : e = Embedded(st[s], d_pos[s], <<op.token>>)[1]
      OBVIOUS
    <3>2. st' = st /\ buf' = buf /\ d_logits' = d_logits /\ hidden_a' = [hidden_a EXCEPT ![s] = e]
      BY <1>5, <2>2, <3>1 DEF Exec
    <3>3. EffectOf(s, op, st[s], buf[s], e)
      BY <2>2, <3>1, <3>2 DEF EffectOf
    <3>4. QED
      BY <1>2, <1>3, <3>2, <3>3
  <2>3. CASE op.op = "rows"
    <3>1. PICK rows : rows = IF s = 1 THEN Embedded(st[s], op.at, op.toks) ELSE buf[s][op.buf]
      OBVIOUS
    <3>2. PICK outs : outs = Outputs(st[s], op.at, rows)
      OBVIOUS
    <3>3. PICK y : y = Written(st[s], op.at, outs)
      OBVIOUS
    <3>4. PICK d : d = [i \in DOMAIN buf[s] |-> IF i = op.buf THEN outs
                               ELSE IF i \in op.scratch THEN <<Junk>> ELSE buf[s][i]]
      OBVIOUS
    <3>5. /\ st' = [st EXCEPT ![s] = y] /\ buf' = [buf EXCEPT ![s] = d] /\ hidden_a' = hidden_a
          /\ d_logits' = IF s = LastStage THEN Last(outs) ELSE d_logits
      BY <1>5, <2>3, <3>1, <3>2, <3>3, <3>4 DEF Exec
    <3>6. EffectOf(s, op, y, d, hidden_a[s])
      BY <2>3, <3>1, <3>2, <3>3, <3>4, <3>5 DEF EffectOf
    <3>7. Shape(y) /\ y.kinds = st[s].kinds
      BY <1>2, <3>3, ShapeKept
    <3>8. Changed(st, st', n, s, y) /\ Changed(buf, buf', n, s, d) /\ Changed(hidden_a, hidden_a', n, s, hidden_a[s])
      BY <1>3, <3>5
    <3>9. s # n => d_logits' = d_logits
      BY <1>1, <3>5
    <3>10. QED
      BY <3>6, <3>7, <3>8, <3>9
  <2>4. CASE op.op = "body"
    <3>1. PICK row : row = Outputs(st[s], d_pos[s], <<hidden_a[s]>>)
      OBVIOUS
    <3>2. PICK y : y = Written(st[s], d_pos[s], row)
      OBVIOUS
    <3>3. /\ st' = [st EXCEPT ![s] = y] /\ buf' = buf /\ hidden_a' = [hidden_a EXCEPT ![s] = row[1]]
          /\ d_logits' = IF s = LastStage THEN row[1] ELSE d_logits
      BY <1>5, <2>4, <3>1, <3>2 DEF Exec
    <3>4. EffectOf(s, op, y, buf[s], row[1])
      BY <2>4, <3>1, <3>2, <3>3 DEF EffectOf
    <3>5. Shape(y) /\ y.kinds = st[s].kinds
      BY <1>2, <3>2, ShapeKept
    <3>6. Changed(st, st', n, s, y) /\ Changed(buf, buf', n, s, buf[s]) /\ Changed(hidden_a, hidden_a', n, s, row[1])
      BY <1>3, <3>3
    <3>7. s # n => d_logits' = d_logits
      BY <1>1, <3>3
    <3>8. QED
      BY <3>4, <3>5, <3>6, <3>7
  <2>5. QED
    BY <1>6, <2>1, <2>2, <2>3, <2>4
<1>8. Changed(queue, queue', n, s, Tail(queue[s]))
  BY <1>3, <1>4
<1>9. LastStage' = n
  BY <1>1, <1>7, ArrayIs DEF Changed, LastStage
<1>10. QED
  BY <1>1, <1>4, <1>5, <1>7, <1>8, <1>9 DEF Effect

\* A step of a device keeps what the stages are.
LEMMA ShapedExec ==
  ASSUME Accounts, Shaped, NEW s \in 1 .. LastStage, Exec(s)
  PROVE  Shaped'
<1>1. SUFFICES ASSUME pc' \notin {"plan", "refused", "built"}
               PROVE  Shaped'
  BY DEF Shaped
<1>2. pc \notin {"plan", "refused", "built"}
  BY <1>1 DEF Exec, host
<1>3. PICK x, b, v : Effect(s, x, b, v)
  BY <1>2, ExecIs
<1>4. PICK n \in Nat : n = LastStage /\ LastStage' = n
  BY <1>3, RigIs DEF Effect
<1>5. /\ \A t \in 1 .. n : Shape(st[t])
      /\ Array(d_pos, n) /\ d_pos' = d_pos /\ Array(hidden_a', n)
      /\ Shape(x) /\ Changed(st, st', n, s, x)
  BY <1>2, <1>3, <1>4 DEF Shaped, Effect, Changed
<1>6. \A t \in 1 .. n : Shape(st'[t])
  BY <1>5 DEF Changed
<1>7. QED
  BY <1>4, <1>5, <1>6 DEF Shaped

-----------------------------------------------------------------------------
(* The step in flight                                                      *)

\* The step's one row.
LEMMA OneRow ==
  ASSUME Accounts, pc \in Serving
  PROVE  RowsAfter(Before, <<Last(Whole)>>) = <<Whole>>
<1>1. Before \in Seq(Word) /\ Last(Whole) \in Word /\ Whole = Before \o <<Last(Whole)>>
  BY WholeIs
<1>2. PICK c \in Seq(Word), x \in Word : c = Before /\ x = Last(Whole)
  BY <1>1
<1>3. <<x>> \in Seq(Word) /\ <<x>> # <<>> /\ Len(<<x>>) = 1
  OBVIOUS
<1>4. /\ RowsAfter(c, <<x>>) \in Seq(Seq(Word)) /\ Len(RowsAfter(c, <<x>>)) = 1
      /\ Last(RowsAfter(c, <<x>>)) = c \o <<x>>
  BY <1>3, RowsAfterFacts
<1>5. PICK r \in Seq(Seq(Word)) : r = RowsAfter(c, <<x>>)
  BY <1>4
<1>6. r = <<r[1]>> /\ Last(r) = r[1]
  BY <1>4, <1>5, OneElement DEF Last
<1>7. QED
  BY <1>1, <1>2, <1>4, <1>5, <1>6

\* The tokens of the request do not change with the devices.
LEMMA WholeKept ==
  ASSUME prompt' = prompt, out' = out
  PROVE  Whole' = Whole /\ Before' = Before
<1>1. Whole' = Whole
  BY DEF Whole
<1>2. QED
  BY <1>1 DEF Before

\* A step in flight on a stage is not disturbed from elsewhere.
LEMMA InFlightKept ==
  ASSUME prompt' = prompt, out' = out, LastStage' = LastStage, NEW s, NEW g, InFlight(s, g),
         st'[s] = st[s], queue'[s] = queue[s], hidden_a'[s] = hidden_a[s], d_pos'[s] = d_pos[s],
         s = LastStage => d_logits' = d_logits,
         s > 1 /\ queue[s - 1] = <<>> => queue'[s - 1] = <<>>
  PROVE  InFlight(s, g)'
<1>1. Whole' = Whole /\ Before' = Before
  BY WholeKept
<1>2. InputOf(s, g)' = InputOf(s, g) /\ BodyOf(g)' = BodyOf(g)
  BY <1>1 DEF InputOf, BodyOf
<1>3. d_pos[s]' = Len(Whole)' - 1
  BY <1>1 DEF InFlight
<1>4. \/ queue'[s] = <<InputOf(s, g), BodyOf(g)>> /\ Holds(st'[s], Before)
      \/ queue'[s] = <<BodyOf(g)>> /\ Holds(st'[s], Before) /\ hidden_a'[s] = Whole
      \/ /\ Holds(st'[s], Whole) /\ queue'[s] = <<>> /\ hidden_a'[s] = Whole
         /\ s = LastStage => d_logits' = Whole
  BY DEF InFlight, Rested
<1>5. s > 1 /\ Len(queue'[s]) < 2 => queue'[s - 1] = <<>>
  BY DEF InFlight
<1>6. QED
  BY <1>1, <1>2, <1>3, <1>4, <1>5 DEF InFlight, Rested

\* What is in the queue of a step in flight.
LEMMA InFlightQueue ==
  ASSUME NEW s, NEW g, InFlight(s, g)
  PROVE  /\ queue[s] # <<>> => \E i \in DOMAIN queue[s] : queue[s][i].tag = g
         /\ queue[s] = <<>> => /\ Rested(s, Whole) /\ hidden_a[s] = Whole
                               /\ (s = LastStage => d_logits = Whole)
<1>1. CASE queue[s] = <<InputOf(s, g), BodyOf(g)>>
  <2>1. DOMAIN queue[s] = 1 .. 2 /\ queue[s][2] = BodyOf(g) /\ queue[s] # <<>>
    BY <1>1
  <2>2. QED
    BY <2>1 DEF BodyOf
<1>2. CASE queue[s] = <<BodyOf(g)>>
  <2>1. DOMAIN queue[s] = 1 .. 1 /\ queue[s][1] = BodyOf(g) /\ queue[s] # <<>>
    BY <1>2
  <2>2. QED
    BY <2>1 DEF BodyOf
<1>3. CASE /\ Rested(s, Whole) /\ hidden_a[s] = Whole /\ (s = LastStage => d_logits = Whole)
  BY <1>3 DEF Rested
<1>4. QED
  BY <1>1, <1>2, <1>3 DEF InFlight

\* A stage does its share of the step: it takes the activation only when the stage
\* before it is done.
LEMMA InFlightExec ==
  ASSUME Accounts, Shaped, pc \in Serving, NEW s \in 1 .. LastStage, NEW g, InFlight(s, g),
         s > 1 => InFlight(s - 1, g), NEW x, NEW b, NEW v, Effect(s, x, b, v)
  PROVE  InFlight(s, g)'
<1>1. PICK n \in Nat : n = LastStage /\ LastStage' = n /\ s \in 1 .. n
  BY RigIs DEF Effect
<1>2. /\ st'[s] = x /\ hidden_a'[s] = v /\ queue'[s] = Tail(queue[s]) /\ d_pos' = d_pos
      /\ \A t \in 1 .. n : t # s => queue'[t] = queue[t]
      /\ prompt' = prompt /\ out' = out
      /\ s # n => d_logits' = d_logits
      /\ queue[s] # <<>> /\ EffectOf(s, Head(queue[s]), x, b, v)
  BY <1>1 DEF Effect, Changed, host
<1>3. Whole' = Whole /\ Before' = Before
  BY <1>2, WholeKept
<1>4. /\ StageRecord(st[s]) /\ Shape(st[s])
  BY <1>1, RigIs DEF Shaped, Serving
<1>5. /\ Before \in Seq(Word) /\ Len(Before) = Len(Whole) - 1 /\ Last(Whole) \in Word
      /\ Whole = Before \o <<Last(Whole)>> /\ Len(Whole) <= MaxSeq /\ Len(Whole) \in Nat
  <2>1. /\ Before \in Seq(Word) /\ Len(Before) = Len(Whole) - 1 /\ Last(Whole) \in Word
        /\ Whole = Before \o <<Last(Whole)>> /\ Len(Whole) <= MaxSeq /\ Whole \in Seq(Word)
    BY WholeIs
  <2>2. Len(Whole) \in Nat
    BY <2>1
  <2>3. QED
    BY <2>1, <2>2
<1>6. PICK c \in Seq(Word), k \in Word : c = Before /\ k = Last(Whole)
  BY <1>5
<1>7. /\ RowsAfter(c, <<k>>) = <<Whole>> /\ <<Whole>>[1] = Whole /\ Whole = c \o <<k>>
      /\ Len(c) = Len(Whole) - 1
  BY <1>5, <1>6, OneRow
<1>8. Len(c) + Len(<<k>>) <= MaxSeq /\ <<k>> \in Seq(Word) /\ <<k>> # <<>>
  <2>1. MaxSeq \in Nat
    BY PipelineAssumption
  <2>2. QED
    BY <1>5, <1>7, <2>1
<1>9. d_pos[s] = Len(c)
  BY <1>7 DEF InFlight
<1>10. d_pos'[s] = Len(Whole) - 1
  BY <1>2 DEF InFlight
<1>11. CASE queue[s] = <<InputOf(s, g), BodyOf(g)>> /\ Holds(st[s], Before)
  <2>1. Head(queue[s]) = InputOf(s, g) /\ Tail(queue[s]) = <<BodyOf(g)>>
    BY <1>11
  <2>2. /\ x = st[s] /\ v = Whole /\ (s > 1 => queue[s - 1] = <<>>)
    <3>1. CASE s = 1
      <4>1. InputOf(s, g).op = "embed" /\ InputOf(s, g).token = k
        BY <1>6, <3>1 DEF InputOf
      <4>2. x = st[s] /\ v = Embedded(st[s], d_pos[s], <<k>>)[1]
        BY <1>2, <2>1, <4>1 DEF EffectOf
      <4>3. Embedded(st[s], Len(c), <<k>>) = RowsAfter(c, <<k>>)
        BY <1>4, <1>6, <1>8, <1>11, StageRows
      <4>4. QED
        BY <1>7, <1>9, <3>1, <4>2, <4>3
    <3>2. CASE s # 1
      <4>1. s > 1 /\ s - 1 \in 1 .. n
        BY <1>1, <3>2
      <4>2. /\ InputOf(s, g).op = "copy" /\ InputOf(s, g).dst = HiddenA
            /\ InputOf(s, g).src = <<HiddenA>> /\ InputOf(s, g).after = g
        BY <3>2 DEF InputOf
      <4>3. /\ Awaited(s, InputOf(s, g)) = {} /\ x = st[s]
            /\ v = Content(s - 1, <<HiddenA>>)[1]
        BY <1>2, <2>1, <4>2 DEF EffectOf
      <4>4. queue[s - 1] = <<>>
        <5>1. \A i \in DOMAIN queue[s - 1] : queue[s - 1][i].tag # g
          BY <4>2, <4>3 DEF Awaited
        <5>2. PICK t : t = s - 1 /\ InFlight(t, g)
          BY <4>1
        <5>3. queue[t] # <<>> => \E i \in DOMAIN queue[t] : queue[t][i].tag = g
          BY <5>2, InFlightQueue
        <5>4. QED
          BY <5>1, <5>2, <5>3
      <4>5. hidden_a[s - 1] = Whole
        <5>1. PICK t : t = s - 1 /\ InFlight(t, g)
          BY <4>1
        <5>2. hidden_a[t] = Whole
          BY <4>4, <5>1, InFlightQueue
        <5>3. QED
          BY <5>1, <5>2
      <4>6. v = Whole
        BY <4>3, <4>5 DEF Content
      <4>7. QED
        BY <4>3, <4>4, <4>6
    <3>3. QED
      BY <3>1, <3>2
  <2>3. queue'[s] = <<BodyOf(g)>> /\ hidden_a'[s] = Whole /\ Holds(st'[s], Before)
    BY <1>2, <1>11, <2>1, <2>2
  <2>4. s > 1 => queue'[s - 1] = <<>>
    <3>1. ASSUME s > 1
          PROVE  queue'[s - 1] = <<>>
      <4>1. s - 1 \in 1 .. n /\ s - 1 # s
        BY <1>1, <3>1
      <4>2. QED
        BY <1>2, <2>2, <3>1, <4>1
    <3>2. QED
      BY <3>1
  <2>5. BodyOf(g)' = BodyOf(g)
    BY DEF BodyOf
  <2>6. QED
    BY <1>3, <1>10, <2>3, <2>4, <2>5 DEF InFlight
<1>12. CASE queue[s] = <<BodyOf(g)>> /\ Holds(st[s], Before) /\ hidden_a[s] = Whole
  <2>1. Head(queue[s]) = BodyOf(g) /\ BodyOf(g).op = "body" /\ Tail(queue[s]) = <<>> /\ Len(queue[s]) = 1
    BY <1>12 DEF BodyOf
  <2>2. PICK row : /\ row = Outputs(st[s], d_pos[s], <<hidden_a[s]>>)
                   /\ x = Written(st[s], d_pos[s], row) /\ v = row[1]
                   /\ d_logits' = IF s = LastStage THEN row[1] ELSE d_logits
    BY <1>2, <2>1 DEF EffectOf
  <2>3. /\ Outputs(st[s], Len(c), RowsAfter(c, <<k>>)) = RowsAfter(c, <<k>>)
        /\ Holds(Written(st[s], Len(c), RowsAfter(c, <<k>>)), c \o <<k>>)
    BY <1>4, <1>6, <1>8, <1>12, StageRows
  <2>4. row = <<Whole>> /\ Holds(x, Whole) /\ v = Whole
    BY <1>7, <1>9, <1>12, <2>2, <2>3
  <2>5. s = LastStage => d_logits' = Whole
    BY <1>7, <2>2, <2>4
  <2>6. s > 1 => queue'[s - 1] = <<>>
    <3>1. ASSUME s > 1
          PROVE  queue'[s - 1] = <<>>
      <4>1. s - 1 \in 1 .. n /\ s - 1 # s
        BY <1>1, <3>1
      <4>2. queue[s - 1] = <<>>
        BY <2>1, <3>1 DEF InFlight
      <4>3. QED
        BY <1>2, <4>1, <4>2
    <3>2. QED
      BY <3>1
  <2>7. queue'[s] = <<>> /\ hidden_a'[s] = Whole /\ Holds(st'[s], Whole)
    BY <1>2, <2>1, <2>4
  <2>8. QED
    BY <1>1, <1>3, <1>10, <2>5, <2>6, <2>7 DEF InFlight, Rested
<1>13. QED
  BY <1>2, <1>11, <1>12 DEF InFlight, Rested

\* A stage that was reset, or that the step has not reached, may still do work of
\* an earlier request if it has no recurrent state.
LEMMA DueExec ==
  ASSUME prompt' = prompt, out' = out, NEW s \in 1 .. LastStage, NEW x, NEW b, NEW v,
         Effect(s, x, b, v)
  PROVE  (Clear(s) => Clear(s)') /\ (Due(s) => Due(s)')
<1>1. /\ st'[s] = x /\ x.kinds = st[s].kinds /\ queue[s] # <<>>
  BY DEF Effect, Changed
<1>2. Before' = Before
  BY WholeKept
<1>3. "linear" \notin x.kinds => Holds(x, <<>>)
  BY DEF Holds
<1>4. QED
  BY <1>1, <1>2, <1>3 DEF Clear, Due

-----------------------------------------------------------------------------
(* The chunks in the queues                                                *)

\* The chunks do not change while a request is served.
LEMMA ChunksKept ==
  ASSUME prompt' = prompt, LastStage' = LastStage
  PROVE  /\ ChunksOf(prompt)' = ChunksOf(prompt)
         /\ \A k : /\ Past(k)' = Past(k) /\ Piece(k)' = Piece(k) /\ RowsOf(k)' = RowsOf(k)
                   /\ Behind(prompt, k)' = Behind(prompt, k)
<1>1. ChunksOf(prompt)' = ChunksOf(prompt)
  BY DEF ChunksOf, ChunkSize
<1>2. ASSUME NEW k
      PROVE  Behind(prompt, k)' = Behind(prompt, k) /\ Piece(k)' = Piece(k)
  BY <1>1 DEF Behind, ChunkSize, Piece
<1>3. ASSUME NEW k
      PROVE  Past(k)' = Past(k) /\ RowsOf(k)' = RowsOf(k)
  BY <1>2 DEF Past, RowsOf
<1>4. QED
  BY <1>1, <1>2, <1>3

\* How many chunks the host has handed to a stage.
LEMMA EnqIs ==
  ASSUME Accounts, pc = "prefill" \/ (pc = "prefilled" /\ step = Len(ChunksOf(prompt))),
         NEW s \in 1 .. LastStage
  PROVE  /\ Len(ChunksOf(prompt)) \in Nat \ {0}
         /\ Enq(s) \in 0 .. Len(ChunksOf(prompt)) /\ (s > 1 => Enq(s) <= Enq(s - 1))
<1>1. /\ Len(ChunksOf(prompt)) \in Nat \ {0} /\ step \in Nat /\ LastStage \in Nat
      /\ stage \in 1 .. LastStage /\ (pc = "prefilled" => stage = 1)
  BY PastEnds, RigIs DEF Accounts, Desk, Serving
<1>2. CASE pc = "prefill"
  <2>1. Len(chunks) = Len(ChunksOf(prompt)) - step /\ Len(chunks) \in Nat \ {0}
    BY <1>2, ChunkDue
  <2>2. QED
    BY <1>1, <2>1 DEF Enq
<1>3. CASE pc = "prefilled" /\ step = Len(ChunksOf(prompt))
  BY <1>1, <1>3 DEF Enq
<1>4. QED
  BY <1>2, <1>3

\* The work of a stage is not disturbed from elsewhere.
LEMMA LinedKept ==
  ASSUME prompt' = prompt, served' = served, LastStage' = LastStage, NEW s, NEW r, NEW e,
         st'[s] = st[s], queue'[s] = queue[s], buf'[s] = buf[s], HeldOn(s)' = HeldOn(s),
         s = LastStage => d_logits' = d_logits
  PROVE  /\ Lined(s, r, e) => Lined(s, r, e)'
         /\ \A p : Linked(s, p, r, e) => Linked(s, p, r, e)'
<1>1. \A k : /\ Past(k)' = Past(k) /\ Piece(k)' = Piece(k) /\ RowsOf(k)' = RowsOf(k)
             /\ Behind(prompt, k)' = Behind(prompt, k)
  BY ChunksKept
<1>2. \A x, k, a : RowsDue(x, s, k, a) => RowsDue(x, s, k, a)'
  BY <1>1 DEF RowsDue
<1>3. \A x, k, a, b : CopyDue(x, k, a, b) => CopyDue(x, k, a, b)'
  BY DEF CopyDue
<1>4. ASSUME Lined(s, r, e)
      PROVE  Lined(s, r, e)'
  <2>1. ASSUME NEW k \in r.done .. e - 1
        PROVE  RowsDue(queue[s][RowsAt(s, r, k)], s, k, r.acts)'
    <3>1. PICK w : w = queue[s][RowsAt(s, r, k)] /\ RowsDue(w, s, k, r.acts)
      BY <1>4 DEF Lined
    <3>2. RowsDue(w, s, k, r.acts)'
      BY <1>1, <3>1 DEF RowsDue
    <3>3. (queue[s][RowsAt(s, r, k)])' = w
      BY <3>1 DEF RowsAt
    <3>4. QED
      BY <3>2, <3>3
  <2>2. /\ r.old \in Nat /\ r.done \in 0 .. e /\ r.in \in 0 .. 1
        /\ s = 1 \/ r.done = e => r.in = 0
        /\ r.old > 0 => r.done = 0 /\ r.in = 0 /\ "linear" \notin st'[s].kinds
        /\ r.acts \in Seq(Nat \ {0}) /\ Len(r.acts) = e /\ Distinct(r.acts)
        /\ \A k \in 1 .. e : \E h \in HeldOn(s)' : h.id = r.acts[k]
        /\ Len(queue'[s]) = r.old + (IF s = 1 THEN e - r.done ELSE 2 * (e - r.done) - r.in)
    BY <1>4 DEF Lined
  <2>3. /\ Holds(st'[s], Past(r.done)')
        /\ \A k \in 0 .. r.done + r.in - 1 : buf'[s][r.acts[k + 1]] = RowsOf(k)'
        /\ s = LastStage' /\ r.done > 0 => d_logits' = Past(r.done)'
    BY <1>1, <1>4 DEF Lined
  <2>4. QED
    BY <2>1, <2>2, <2>3 DEF Lined
<1>5. ASSUME NEW p, Linked(s, p, r, e)
      PROVE  Linked(s, p, r, e)'
  BY <1>5 DEF Linked, CopyDue, CopyAt
<1>6. QED
  BY <1>4, <1>5

\* The work a stage has before it.
Ahead(s, r, e) == r.old + (IF s = 1 THEN e - r.done ELSE 2 * (e - r.done) - r.in)
Further(s, r, y, e) ==
  /\ y.old \in Nat /\ y.done \in 0 .. e /\ y.in \in 0 .. 1 /\ y.acts = r.acts
  /\ s = 1 \/ y.done = e => y.in = 0
  /\ y.old > 0 => y.done = 0 /\ y.in = 0 /\ r.old > 0
  /\ Ahead(s, y, e) = Ahead(s, r, e) - 1
  /\ r.done <= y.done /\ r.done + r.in <= y.done + y.in
MovedUp(q, s, r, y, e) ==
  /\ Len(Tail(q)) = Ahead(s, y, e)
  /\ \A k \in y.done .. e - 1 : k \in r.done .. e - 1 /\ Tail(q)[RowsAt(s, y, k)] = q[RowsAt(s, r, k)]
  /\ s > 1 => \A k \in y.done + y.in .. e - 1 :
       k \in r.done + r.in .. e - 1 /\ Tail(q)[CopyAt(y, k)] = q[CopyAt(r, k)]

\* The oldest work is done, everything else moves up by one.
LEMMA Advance ==
  ASSUME NEW s \in Nat \ {0}, NEW r, NEW e \in Nat, NEW y, Further(s, r, y, e), NEW T, NEW q \in Seq(T), q # <<>>,
         r.old \in Nat, r.done \in 0 .. e, r.in \in 0 .. 1, Len(q) = Ahead(s, r, e)
  PROVE  MovedUp(q, s, r, y, e)
<1>1. PICK o \in Nat, d \in 0 .. e, i \in 0 .. 1, p \in Nat, f \in 0 .. e, j \in 0 .. 1 :
        o = r.old /\ d = r.done /\ i = r.in /\ p = y.old /\ f = y.done /\ j = y.in
  BY DEF Further
<1>2. PICK n \in Nat : n = Len(q) /\ n >= 1
  OBVIOUS
<1>3. /\ Len(Tail(q)) = n - 1 /\ \A a \in 1 .. n - 1 : Tail(q)[a] = q[a + 1]
  BY <1>2
<1>4. /\ n = o + (IF s = 1 THEN e - d ELSE 2 * (e - d) - i)
      /\ p + (IF s = 1 THEN e - f ELSE 2 * (e - f) - j) = o + (IF s = 1 THEN e - d ELSE 2 * (e - d) - i) - 1
      /\ d <= f /\ d + i <= f + j
  <2>1. /\ Ahead(s, r, e) = o + (IF s = 1 THEN e - d ELSE 2 * (e - d) - i)
        /\ Ahead(s, y, e) = p + (IF s = 1 THEN e - f ELSE 2 * (e - f) - j)
    BY <1>1 DEF Ahead
  <2>2. Ahead(s, y, e) = Ahead(s, r, e) - 1 /\ d <= f /\ d + i <= f + j
    BY <1>1 DEF Further
  <2>3. QED
    BY <1>2, <2>1, <2>2
<1>5. ASSUME NEW k \in f .. e - 1
      PROVE  k \in d .. e - 1 /\ Tail(q)[RowsAt(s, y, k)] = q[RowsAt(s, r, k)]
  <2>1. PICK a \in 1 .. n - 1 : a = RowsAt(s, y, k) /\ a + 1 = RowsAt(s, r, k)
    <3>1. /\ RowsAt(s, y, k) = p + (IF s = 1 THEN (k - f) + 1 ELSE 2 * (k - f) + 2 - j)
          /\ RowsAt(s, r, k) = o + (IF s = 1 THEN (k - d) + 1 ELSE 2 * (k - d) + 2 - i)
      BY <1>1 DEF RowsAt
    <3>2. QED
      BY <1>4, <3>1
  <2>2. QED
    BY <1>3, <1>4, <2>1
<1>6. ASSUME s > 1, NEW k \in f + j .. e - 1
      PROVE  k \in d + i .. e - 1 /\ Tail(q)[CopyAt(y, k)] = q[CopyAt(r, k)]
  <2>1. PICK a \in 1 .. n - 1 : a = CopyAt(y, k) /\ a + 1 = CopyAt(r, k)
    <3>1. /\ CopyAt(y, k) = p + 2 * (k - f) + 1 - j
          /\ CopyAt(r, k) = o + 2 * (k - d) + 1 - i
      BY <1>1 DEF CopyAt
    <3>2. QED
      BY <1>4, <1>6, <3>1
  <2>2. QED
    BY <1>3, <1>4, <2>1
<1>7. Len(Tail(q)) = Ahead(s, y, e)
  BY <1>2, <1>3 DEF Further
<1>8. QED
  BY <1>1, <1>5, <1>6, <1>7 DEF MovedUp

\* A stage that did its oldest work is where the chunks done say.
LEMMA LinedStep ==
  ASSUME Accounts, NEW s \in 1 .. LastStage, NEW r, NEW e \in Nat, Lined(s, r, e),
         NEW x, NEW b, NEW v, Effect(s, x, b, v), NEW y, Further(s, r, y, e),
         Holds(x, Past(y.done)),
         \A k \in 0 .. y.done + y.in - 1 : b[r.acts[k + 1]] = RowsOf(k),
         s = LastStage /\ y.done > 0 => d_logits' = Past(y.done)
  PROVE  /\ Lined(s, y, e)'
         /\ \A p : s > 1 /\ Linked(s, p, r, e) /\ y.done + y.in <= p.done => Linked(s, p, y, e)'
<1>1. /\ prompt' = prompt /\ served' = served /\ LastStage' = LastStage /\ held' = held
      /\ st'[s] = x /\ buf'[s] = b /\ queue'[s] = Tail(queue[s]) /\ queue[s] # <<>>
      /\ x.kinds = st[s].kinds
  BY DEF Effect, Changed, host
<1>2. /\ \A k : /\ Past(k)' = Past(k) /\ Piece(k)' = Piece(k) /\ RowsOf(k)' = RowsOf(k)
                /\ Behind(prompt, k)' = Behind(prompt, k)
      /\ HeldOn(s)' = HeldOn(s)
  BY <1>1, ChunksKept, KeptOn
<1>3. s \in Nat \ {0}
  BY RigIs
<1>4. PICK T : queue[s] \in Seq(T)
  BY RigIs
<1>5. PICK q \in Seq(T) : q = queue[s] /\ q # <<>>
  BY <1>1, <1>4
<1>6. r.old \in Nat /\ r.done \in 0 .. e /\ r.in \in 0 .. 1 /\ Len(q) = Ahead(s, r, e)
  BY <1>5 DEF Lined, Ahead
<1>7. /\ Len(Tail(q)) = Ahead(s, y, e)
      /\ \A k \in y.done .. e - 1 : k \in r.done .. e - 1 /\ Tail(q)[RowsAt(s, y, k)] = q[RowsAt(s, r, k)]
      /\ s > 1 => \A k \in y.done + y.in .. e - 1 :
           k \in r.done + r.in .. e - 1 /\ Tail(q)[CopyAt(y, k)] = q[CopyAt(r, k)]
  <2>1. MovedUp(q, s, r, y, e)
    BY <1>3, <1>5, <1>6, Advance
  <2>2. QED
    BY <2>1 DEF MovedUp
<1>8. queue'[s] = Tail(q)
  BY <1>1, <1>5
<1>9. Lined(s, y, e)'
  <2>1. ASSUME NEW k \in y.done .. e - 1
        PROVE  RowsDue(queue[s][RowsAt(s, y, k)], s, k, y.acts)'
    <3>1. k \in r.done .. e - 1 /\ Tail(q)[RowsAt(s, y, k)] = q[RowsAt(s, r, k)]
      BY <1>7
    <3>2. PICK w : w = queue[s][RowsAt(s, r, k)] /\ RowsDue(w, s, k, r.acts)
      BY <3>1 DEF Lined
    <3>3. RowsDue(w, s, k, r.acts)'
      BY <1>1, <1>2, <3>2 DEF RowsDue
    <3>4. (queue[s][RowsAt(s, y, k)])' = w
      <4>1. (queue[s][RowsAt(s, y, k)])' = queue'[s][RowsAt(s, y, k)]
        BY DEF RowsAt
      <4>2. QED
        BY <1>5, <1>8, <3>1, <3>2, <4>1
    <3>5. y.acts = r.acts
      BY DEF Further
    <3>6. QED
      BY <3>3, <3>4, <3>5
  <2>2. /\ y.old \in Nat /\ y.done \in 0 .. e /\ y.in \in 0 .. 1
        /\ s = 1 \/ y.done = e => y.in = 0
        /\ y.acts = r.acts
        /\ y.old > 0 => y.done = 0 /\ y.in = 0 /\ "linear" \notin st'[s].kinds
    BY <1>1 DEF Further, Lined
  <2>3. /\ y.acts \in Seq(Nat \ {0}) /\ Len(y.acts) = e /\ Distinct(y.acts)
        /\ \A k \in 1 .. e : \E h \in HeldOn(s)' : h.id = y.acts[k]
    BY <1>2, <2>2 DEF Lined
  <2>4. Len(queue'[s]) = y.old + (IF s = 1 THEN e - y.done ELSE 2 * (e - y.done) - y.in)
    BY <1>7, <1>8 DEF Ahead
  <2>5. /\ Holds(st'[s], Past(y.done)')
        /\ \A k \in 0 .. y.done + y.in - 1 : buf'[s][y.acts[k + 1]] = RowsOf(k)'
        /\ s = LastStage' /\ y.done > 0 => d_logits' = Past(y.done)'
    BY <1>1, <1>2, <2>2
  <2>6. QED
    BY <2>1, <2>2, <2>3, <2>4, <2>5 DEF Lined
<1>10. ASSUME NEW p, s > 1, Linked(s, p, r, e), y.done + y.in <= p.done
       PROVE  Linked(s, p, y, e)'
  <2>1. ASSUME NEW k \in y.done + y.in .. e - 1
        PROVE  CopyDue(queue[s][CopyAt(y, k)], k, p.acts, y.acts)'
    <3>1. k \in r.done + r.in .. e - 1 /\ Tail(q)[CopyAt(y, k)] = q[CopyAt(r, k)]
      BY <1>7, <1>10
    <3>2. PICK w : w = queue[s][CopyAt(r, k)] /\ CopyDue(w, k, p.acts, r.acts)
      BY <1>10, <3>1 DEF Linked
    <3>3. CopyDue(w, k, p.acts, r.acts)'
      BY <1>1, <3>2 DEF CopyDue
    <3>4. (queue[s][CopyAt(y, k)])' = w
      <4>1. (queue[s][CopyAt(y, k)])' = queue'[s][CopyAt(y, k)]
        BY DEF CopyAt
      <4>2. QED
        BY <1>5, <1>8, <3>1, <3>2, <4>1
    <3>5. y.acts = r.acts
      BY DEF Further
    <3>6. QED
      BY <3>3, <3>4, <3>5
  <2>2. QED
    BY <1>10, <2>1 DEF Linked
<1>11. QED
  BY <1>9, <1>10

Pos(o, d, i, a) == [old |-> o, done |-> d, in |-> i, acts |-> a]
Moves(s, p, r, y, e) ==
  /\ Lined(s, y, e)' /\ y.acts = r.acts /\ r.done <= y.done
  /\ s > 1 => Linked(s, p, y, e)'

\* An activation the host keeps is in a buffer of its stage.
LEMMA ActIs ==
  ASSUME Accounts, NEW s \in 1 .. LastStage, NEW r, NEW e \in Nat, Lined(s, r, e), NEW k \in 1 .. e
  PROVE  r.acts[k] \in Nat \ {0} /\ r.acts[k] \in DOMAIN buf[s]
<1>1. /\ pool[s].count \in Nat /\ Array(buf[s], pool[s].count) /\ Owned(pool[s], HeldOn(s))
  BY RigIs
<1>2. DOMAIN buf[s] = 1 .. pool[s].count
  BY <1>1, ArrayIs
<1>3. PICK h \in HeldOn(s) : h.id = r.acts[k]
  BY DEF Lined
<1>4. h.id \in 1 .. pool[s].count
  BY <1>1, <1>3 DEF Owned, Numbered, Made
<1>5. QED
  BY <1>1, <1>2, <1>3, <1>4

\* The oldest work, where there is none of an earlier request.
LEMMA OldestIs ==
  ASSUME NEW s \in Nat \ {0}, NEW r, NEW e \in Nat, Lined(s, r, e), NEW T, queue[s] \in Seq(T),
         queue[s] # <<>>, ~(r.old > 0)
  PROVE  /\ r.old = 0 /\ r.done \in 0 .. e - 1 /\ r.in \in 0 .. 1
         /\ s > 1 /\ r.in = 0 => Head(queue[s]) = queue[s][CopyAt(r, r.done)]
         /\ s = 1 \/ r.in = 1 => RowsDue(Head(queue[s]), s, r.done, r.acts)
<1>1. /\ r.old \in Nat /\ r.done \in 0 .. e /\ r.in \in 0 .. 1
      /\ s = 1 \/ r.done = e => r.in = 0
      /\ Len(queue[s]) = r.old + (IF s = 1 THEN e - r.done ELSE 2 * (e - r.done) - r.in)
      /\ \A k \in r.done .. e - 1 : RowsDue(queue[s][RowsAt(s, r, k)], s, k, r.acts)
  BY DEF Lined
<1>2. PICK q \in Seq(T) : q = queue[s] /\ q # <<>>
  OBVIOUS
<1>3. PICK n \in Nat : n = Len(q) /\ n >= 1 /\ Head(q) = q[1]
  BY <1>2
<1>4. PICK d \in 0 .. e, i \in 0 .. 1 : d = r.done /\ i = r.in
  BY <1>1
<1>5. r.old = 0
  BY <1>1
<1>6. d \in 0 .. e - 1
  BY <1>1, <1>2, <1>3, <1>4, <1>5
<1>7. /\ RowsAt(s, r, d) = 0 + (IF s = 1 THEN (d - d) + 1 ELSE 2 * (d - d) + 2 - i)
      /\ CopyAt(r, d) = 0 + 2 * (d - d) + 1 - i
  BY <1>4, <1>5 DEF RowsAt, CopyAt
<1>8. /\ s > 1 /\ i = 0 => CopyAt(r, d) = 1
      /\ s = 1 \/ i = 1 => RowsAt(s, r, d) = 1
  BY <1>7
<1>9. s = 1 \/ i = 1 => RowsDue(q[1], s, d, r.acts)
  BY <1>1, <1>2, <1>4, <1>6, <1>8
<1>10. QED
  BY <1>2, <1>3, <1>4, <1>5, <1>6, <1>8, <1>9

Waits(s, k) == \E i \in DOMAIN queue[s] : queue[s][i].tag = <<served, k>>

\* A chunk whose rows are still to come is in the queue.
LEMMA RowsWaiting ==
  ASSUME NEW s \in Nat \ {0}, NEW r, NEW e \in Nat, Lined(s, r, e), NEW k \in Nat,
         ~(k < r.done), k < e, NEW T, queue[s] \in Seq(T)
  PROVE  Waits(s, k)
<1>1. /\ r.old \in Nat /\ r.done \in 0 .. e /\ r.in \in 0 .. 1
      /\ Len(queue[s]) = r.old + (IF s = 1 THEN e - r.done ELSE 2 * (e - r.done) - r.in)
  BY DEF Lined
<1>2. k \in r.done .. e - 1
  BY <1>1
<1>3. queue[s][RowsAt(s, r, k)].tag = <<served, k>>
  BY <1>2 DEF Lined, RowsDue
<1>4. PICK o \in Nat, d \in 0 .. e, i \in 0 .. 1 : o = r.old /\ d = r.done /\ i = r.in
  BY <1>1
<1>5. RowsAt(s, r, k) = o + (IF s = 1 THEN (k - d) + 1 ELSE 2 * (k - d) + 2 - i)
  BY <1>4 DEF RowsAt
<1>6. Len(queue[s]) = o + (IF s = 1 THEN e - d ELSE 2 * (e - d) - i)
  BY <1>1, <1>4
<1>7. k \in d .. e - 1
  BY <1>2, <1>4
<1>8. RowsAt(s, r, k) \in 1 .. Len(queue[s])
  BY <1>5, <1>6, <1>7
<1>9. DOMAIN queue[s] = 1 .. Len(queue[s])
  OBVIOUS
<1>10. QED
  BY <1>3, <1>8, <1>9 DEF Waits

\* Work of an earlier request is done.
LEMMA OldExec ==
  ASSUME Accounts, pc \in Serving, NEW s \in 1 .. LastStage, NEW p, NEW r, NEW e \in Nat, Lined(s, r, e),
         s > 1 => Linked(s, p, r, e) /\ p.done \in Nat,
         NEW x, NEW b, NEW v, Effect(s, x, b, v), r.old > 0
  PROVE  \E y : Moves(s, p, r, y, e)
<1>1. /\ r.old \in Nat /\ r.done = 0 /\ r.in = 0 /\ "linear" \notin st[s].kinds
  BY DEF Lined
<1>2. PICK o \in Nat : o = r.old - 1
  BY <1>1
<1>3. PICK y : y = Pos(o, 0, 0, r.acts)
  OBVIOUS
<1>4. y.old = o /\ y.done = 0 /\ y.in = 0 /\ y.acts = r.acts
  BY <1>3 DEF Pos
<1>5. Further(s, r, y, e)
  <2>1. Ahead(s, y, e) = Ahead(s, r, e) - 1
    <3>1. /\ Ahead(s, y, e) = o + (IF s = 1 THEN e - 0 ELSE 2 * (e - 0) - 0)
          /\ Ahead(s, r, e) = r.old + (IF s = 1 THEN e - 0 ELSE 2 * (e - 0) - 0)
      BY <1>1, <1>4 DEF Ahead
    <3>2. QED
      BY <1>1, <1>2, <3>1
  <2>2. QED
    BY <1>1, <1>4, <2>1 DEF Further
<1>6. Holds(x, Past(y.done))
  <2>1. "linear" \notin x.kinds
    BY <1>1 DEF Effect
  <2>2. Past(0) = <<>>
    BY PastEnds
  <2>3. QED
    BY <1>4, <2>1, <2>2 DEF Holds
<1>7. \A k \in 0 .. y.done + y.in - 1 : b[r.acts[k + 1]] = RowsOf(k)
  BY <1>4
<1>8. ~(s = LastStage /\ y.done > 0)
  BY <1>4
<1>9. /\ Lined(s, y, e)'
      /\ \A p_ : s > 1 /\ Linked(s, p_, r, e) /\ y.done + y.in <= p_.done => Linked(s, p_, y, e)'
  BY <1>5, <1>6, <1>7, <1>8, LinedStep
<1>10. s > 1 => Linked(s, p, y, e)'
  BY <1>4, <1>9
<1>11. QED
  BY <1>1, <1>4, <1>9, <1>10 DEF Moves

\* An activation is taken over.
LEMMA CopyExec ==
  ASSUME Accounts, pc \in Serving, NEW s \in 1 .. LastStage, s > 1, NEW p, NEW r, NEW e \in Nat, Lined(s, r, e),
         Linked(s, p, r, e), NEW f \in Nat, e <= f, Lined(s - 1, p, f),
         NEW x, NEW b, NEW v, Effect(s, x, b, v), ~(r.old > 0), r.in = 0
  PROVE  \E y : Moves(s, p, r, y, e)
<1>1. /\ queue[s] \in Seq(Works(pool[s].count)) /\ LastStage \in Nat /\ s \in Nat \ {0}
      /\ queue[s] # <<>> /\ EffectOf(s, Head(queue[s]), x, b, v)
  BY RigIs DEF Effect
<1>2. PICK t : t = s - 1 /\ t \in 1 .. LastStage /\ t \in Nat \ {0}
  BY <1>1
<1>3. queue[t] \in Seq(Works(pool[t].count))
  BY <1>2, RigIs
<1>4. /\ r.old = 0 /\ r.done \in 0 .. e - 1
      /\ Head(queue[s]) = queue[s][CopyAt(r, r.done)]
  BY <1>1, OldestIs
<1>5. PICK d \in Nat : d = r.done /\ d \in 0 .. e - 1
  BY <1>4
<1>6. PICK op : op = Head(queue[s]) /\ CopyDue(op, d, p.acts, r.acts)
  <2>1. r.done \in r.done + r.in .. e - 1
    BY <1>4
  <2>2. QED
    BY <1>4, <1>5, <2>1 DEF Linked
<1>7. Lined(t, p, f)
  BY <1>2
<1>8. d < p.done
  <2>1. ASSUME ~(d < p.done)
        PROVE  FALSE
    <3>1. d < f
      BY <1>5
    <3>2. Waits(t, d)
      <4>1. PICK T : queue[t] \in Seq(T)
        BY <1>3
      <4>2. QED
        BY <1>2, <1>5, <1>7, <2>1, <3>1, <4>1, RowsWaiting
    <3>3. Awaited(s, op) = {} /\ op.after = <<served, d>>
      BY <1>1, <1>6 DEF EffectOf, CopyDue
    <3>4. QED
      BY <1>2, <3>2, <3>3 DEF Awaited, Waits
  <2>2. QED
    BY <2>1
<1>9. p.done \in 0 .. f /\ p.in \in 0 .. 1
  BY <1>7 DEF Lined
<1>10. d + 1 \in 1 .. f /\ d + 1 \in 1 .. e /\ d \in 0 .. p.done + p.in - 1
  BY <1>5, <1>8, <1>9
<1>11. buf[t][p.acts[d + 1]] = RowsOf(d) /\ p.acts[d + 1] # HiddenA
  <2>1. p.acts[d + 1] \in Nat \ {0}
    BY <1>2, <1>7, <1>10, ActIs
  <2>2. QED
    BY <1>7, <1>10, <2>1 DEF Lined, HiddenA
<1>12. r.acts[d + 1] \in Nat \ {0} /\ r.acts[d + 1] \in DOMAIN buf[s]
  BY <1>10, ActIs
<1>13. x = st[s] /\ b = [buf[s] EXCEPT ![r.acts[d + 1]] = RowsOf(d)] /\ d_logits' = d_logits
  <2>1. /\ op.op = "copy" /\ op.dst = r.acts[d + 1] /\ op.src = <<p.acts[d + 1]>>
    BY <1>6 DEF CopyDue
  <2>2. op.dst # HiddenA
    BY <1>12, <2>1 DEF HiddenA
  <2>3. x = st[s] /\ b = [buf[s] EXCEPT ![op.dst] = Content(t, op.src)] /\ d_logits' = d_logits
    BY <1>1, <1>2, <1>6, <2>1, <2>2 DEF EffectOf
  <2>4. Content(t, op.src) = RowsOf(d)
    BY <1>11, <2>1 DEF Content
  <2>5. QED
    BY <2>1, <2>3, <2>4
<1>14. PICK y : y = Pos(0, d, 1, r.acts)
  OBVIOUS
<1>15. y.old = 0 /\ y.done = d /\ y.in = 1 /\ y.acts = r.acts
  BY <1>14 DEF Pos
<1>16. Further(s, r, y, e)
  <2>1. /\ Ahead(s, y, e) = 0 + (2 * (e - d) - 1)
        /\ Ahead(s, r, e) = 0 + (2 * (e - d) - 0)
    BY <1>4, <1>5, <1>15 DEF Ahead
  <2>2. QED
    BY <1>5, <1>15, <2>1 DEF Further
<1>17. Holds(x, Past(y.done)) /\ (s = LastStage /\ y.done > 0 => d_logits' = Past(y.done))
  BY <1>5, <1>13, <1>15 DEF Lined
<1>18. ASSUME NEW k \in 0 .. y.done + y.in - 1
       PROVE  b[r.acts[k + 1]] = RowsOf(k)
  <2>1. k \in 0 .. d
    BY <1>5, <1>15, <1>18
  <2>2. CASE k = d
    BY <1>12, <1>13, <2>2
  <2>3. CASE k # d
    <3>1. k \in 0 .. r.done + r.in - 1 /\ k + 1 \in 1 .. e /\ k + 1 # d + 1
      BY <1>5, <2>1, <2>3
    <3>2. buf[s][r.acts[k + 1]] = RowsOf(k)
      BY <3>1 DEF Lined
    <3>3. r.acts[k + 1] # r.acts[d + 1]
      BY <1>10, <3>1 DEF Lined, Distinct
    <3>4. r.acts[k + 1] \in DOMAIN buf[s]
      BY <3>1, ActIs
    <3>5. PICK a, c : a = r.acts[k + 1] /\ c = r.acts[d + 1]
      OBVIOUS
    <3>6. b[a] = buf[s][a]
      BY <1>13, <3>3, <3>4, <3>5
    <3>7. QED
      BY <3>2, <3>5, <3>6
  <2>4. QED
    BY <2>2, <2>3
<1>19. /\ Lined(s, y, e)'
       /\ \A p_ : s > 1 /\ Linked(s, p_, r, e) /\ y.done + y.in <= p_.done => Linked(s, p_, y, e)'
  BY <1>16, <1>17, <1>18, LinedStep
<1>20. y.done + y.in <= p.done /\ r.done <= y.done
  BY <1>5, <1>8, <1>9, <1>15
<1>21. Linked(s, p, y, e)'
  BY <1>19, <1>20
<1>22. QED
  BY <1>15, <1>19, <1>20, <1>21 DEF Moves

\* A chunk goes through a stage.
LEMMA RowsExec ==
  ASSUME Accounts, Shaped, pc \in Serving, NEW s \in 1 .. LastStage, NEW p, NEW r, NEW e \in Nat,
         e <= Len(ChunksOf(prompt)), Lined(s, r, e),
         s > 1 => Linked(s, p, r, e) /\ p.done \in Nat,
         NEW x, NEW b, NEW v, Effect(s, x, b, v), ~(r.old > 0), s = 1 \/ r.in = 1
  PROVE  \E y : Moves(s, p, r, y, e)
<1>1. /\ queue[s] \in Seq(Works(pool[s].count)) /\ LastStage \in Nat /\ s \in Nat \ {0}
      /\ queue[s] # <<>> /\ EffectOf(s, Head(queue[s]), x, b, v)
      /\ StageRecord(st[s]) /\ Shape(st[s])
  BY RigIs DEF Effect, Shaped, Serving
<1>2. /\ r.old = 0 /\ r.done \in 0 .. e - 1 /\ r.in \in 0 .. 1
      /\ RowsDue(Head(queue[s]), s, r.done, r.acts)
  BY <1>1, OldestIs
<1>3. PICK d \in Nat : d = r.done /\ d \in 0 .. e - 1
  BY <1>2
<1>4. PICK op : op = Head(queue[s]) /\ RowsDue(op, s, d, r.acts)
  BY <1>2, <1>3
<1>5. /\ op.op = "rows" /\ op.buf = r.acts[d + 1] /\ op.at = Behind(prompt, d)
      /\ s = 1 => op.toks = Piece(d)
      /\ \A j \in 1 .. d + 1 : r.acts[j] \notin op.scratch
  BY <1>4 DEF RowsDue
<1>6. PICK rows, outs :
       /\ rows = IF s = 1 THEN Embedded(st[s], op.at, op.toks) ELSE buf[s][op.buf]
       /\ outs = Outputs(st[s], op.at, rows)
       /\ x = Written(st[s], op.at, outs) /\ v = hidden_a[s]
       /\ b = [i \in DOMAIN buf[s] |-> IF i = op.buf THEN outs
                                       ELSE IF i \in op.scratch THEN <<Junk>> ELSE buf[s][i]]
       /\ d_logits' = IF s = LastStage THEN Last(outs) ELSE d_logits
  BY <1>1, <1>4, <1>5 DEF EffectOf
<1>7. d \in 0 .. Len(ChunksOf(prompt)) - 1
  <2>1. Len(ChunksOf(prompt)) \in Nat
    BY PastEnds
  <2>2. QED
    BY <1>3, <2>1
<1>8. /\ Past(d) \in Seq(Word) /\ Len(Past(d)) = Behind(prompt, d) /\ Behind(prompt, d) \in Nat
      /\ Piece(d) \in Seq(Word) /\ Piece(d) # <<>>
      /\ Len(Past(d)) + Len(Piece(d)) <= MaxSeq
      /\ Past(d) \o Piece(d) = Past(d + 1)
  BY <1>7, PieceIs
<1>9. PICK c \in Seq(Word), z \in Seq(Word) : c = Past(d) /\ z = Piece(d)
  BY <1>8
<1>10. Holds(st[s], c)
  BY <1>3, <1>9 DEF Lined
<1>11. /\ Embedded(st[s], Len(c), z) = RowsAfter(c, z)
       /\ Outputs(st[s], Len(c), RowsAfter(c, z)) = RowsAfter(c, z)
       /\ Holds(Written(st[s], Len(c), RowsAfter(c, z)), c \o z)
       /\ Last(RowsAfter(c, z)) = c \o z
  <2>1. z # <<>> /\ Len(c) + Len(z) <= MaxSeq
    BY <1>8, <1>9
  <2>2. QED
    BY <1>1, <1>10, <2>1, StageRows
<1>12. RowsOf(d) = RowsAfter(c, z) /\ op.at = Len(c) /\ c \o z = Past(d + 1)
  BY <1>5, <1>8, <1>9 DEF RowsOf
<1>13. rows = RowsOf(d)
  <2>1. CASE s = 1
    BY <1>5, <1>6, <1>9, <1>11, <1>12, <2>1
  <2>2. CASE s # 1
    <3>1. r.in = 1 /\ d \in 0 .. r.done + r.in - 1
      BY <1>3, <2>2
    <3>2. buf[s][r.acts[d + 1]] = RowsOf(d)
      BY <3>1 DEF Lined
    <3>3. QED
      BY <1>5, <1>6, <2>2, <3>2
  <2>3. QED
    BY <2>1, <2>2
<1>14. outs = RowsOf(d) /\ Holds(x, Past(d + 1)) /\ Last(outs) = Past(d + 1)
  BY <1>6, <1>11, <1>12, <1>13
<1>15. PICK y : y = Pos(0, d + 1, 0, r.acts)
  OBVIOUS
<1>16. y.old = 0 /\ y.done = d + 1 /\ y.in = 0 /\ y.acts = r.acts
  BY <1>15 DEF Pos
<1>17. PICK i \in 0 .. 1 : i = r.in
  BY <1>2
<1>18. Further(s, r, y, e)
  <2>1. /\ Ahead(s, y, e) = 0 + (IF s = 1 THEN e - (d + 1) ELSE 2 * (e - (d + 1)) - 0)
        /\ Ahead(s, r, e) = 0 + (IF s = 1 THEN e - d ELSE 2 * (e - d) - i)
    BY <1>2, <1>3, <1>16, <1>17 DEF Ahead
  <2>2. Ahead(s, y, e) = Ahead(s, r, e) - 1
    <3>1. CASE s = 1
      <4>1. Ahead(s, y, e) = 0 + (e - (d + 1)) /\ Ahead(s, r, e) = 0 + (e - d)
        BY <2>1, <3>1
      <4>2. QED
        BY <1>3, <4>1
    <3>2. CASE s # 1
      <4>1. Ahead(s, y, e) = 0 + (2 * (e - (d + 1)) - 0) /\ Ahead(s, r, e) = 0 + (2 * (e - d) - 1)
        BY <1>17, <2>1, <3>2
      <4>2. PICK m \in Nat : m = e - (d + 1) /\ e - d = m + 1
        BY <1>3
      <4>3. Ahead(s, y, e) = 0 + (2 * m - 0) /\ Ahead(s, r, e) = 0 + (2 * (m + 1) - 1)
        BY <4>1, <4>2
      <4>4. QED
        BY <4>3
    <3>3. QED
      BY <3>1, <3>2
  <2>3. QED
    BY <1>3, <1>16, <1>17, <2>2 DEF Further
<1>19. Holds(x, Past(y.done)) /\ (s = LastStage /\ y.done > 0 => d_logits' = Past(y.done))
  BY <1>6, <1>14, <1>16
<1>20. ASSUME NEW k \in 0 .. y.done + y.in - 1
       PROVE  b[r.acts[k + 1]] = RowsOf(k)
  <2>1. k \in 0 .. d /\ k + 1 \in 1 .. d + 1 /\ k + 1 \in 1 .. e /\ d + 1 \in 1 .. e
    BY <1>3, <1>16, <1>20
  <2>2. PICK a : a = r.acts[k + 1] /\ a \in DOMAIN buf[s] /\ a \notin op.scratch
    BY <1>5, <2>1, ActIs
  <2>3. b[a] = IF a = op.buf THEN outs ELSE buf[s][a]
    BY <1>6, <2>2
  <2>4. CASE k = d
    BY <1>5, <1>14, <2>2, <2>3, <2>4
  <2>5. CASE k # d
    <3>1. k \in 0 .. r.done + r.in - 1 /\ k + 1 # d + 1
      <4>1. k \in 0 .. d + i - 1 /\ k + 1 # d + 1
        <5>1. k \in 0 .. d /\ k # d /\ d \in Nat /\ i \in 0 .. 1
          BY <1>3, <1>17, <2>1, <2>5
        <5>2. QED
          BY <5>1
      <4>2. QED
        BY <1>3, <1>17, <4>1
    <3>2. buf[s][r.acts[k + 1]] = RowsOf(k)
      BY <3>1 DEF Lined
    <3>3. r.acts[k + 1] # r.acts[d + 1]
      <4>1. Distinct(r.acts) /\ Len(r.acts) = e
        BY DEF Lined
      <4>2. QED
        BY <2>1, <3>1, <4>1 DEF Distinct
    <3>4. QED
      BY <1>5, <2>2, <2>3, <3>2, <3>3
  <2>6. QED
    BY <2>4, <2>5
<1>21. /\ Lined(s, y, e)'
       /\ \A p_ : s > 1 /\ Linked(s, p_, r, e) /\ y.done + y.in <= p_.done => Linked(s, p_, y, e)'
  BY <1>18, <1>19, <1>20, LinedStep
<1>22. s > 1 => Linked(s, p, y, e)'
  <2>1. ASSUME s > 1
        PROVE  Linked(s, p, y, e)'
    <3>1. Linked(s, p, r, e) /\ r.done + r.in <= p.done
      BY <2>1 DEF Linked
    <3>2. y.done + y.in <= p.done
      <4>1. r.in = 1
        BY <2>1
      <4>2. QED
        BY <1>3, <1>16, <3>1, <4>1
    <3>3. QED
      BY <1>21, <2>1, <3>1, <3>2
  <2>2. QED
    BY <2>1
<1>23. r.done <= y.done
  BY <1>3, <1>16
<1>24. QED
  BY <1>16, <1>21, <1>22, <1>23 DEF Moves

\* The chunks in the queues stay in order whatever a device does.
LEMMA QueuedExec ==
  ASSUME Accounts, Shaped, pc = "prefill" \/ (pc = "prefilled" /\ step = Len(ChunksOf(prompt))),
         NEW s \in 1 .. LastStage, NEW x, NEW b, NEW v, Effect(s, x, b, v), NEW r, Queued(r)
  PROVE  \E w : Queued(w)'
<1>1. PICK n \in Nat : n = LastStage /\ LastStage' = n /\ s \in 1 .. n
  BY RigIs DEF Effect
<1>2. /\ prompt' = prompt /\ served' = served /\ held' = held /\ stage' = stage /\ step' = step
      /\ pc' = pc /\ prev' = prev
      /\ \A t \in 1 .. n : t # s => st'[t] = st[t] /\ queue'[t] = queue[t] /\ buf'[t] = buf[t]
      /\ s # n => d_logits' = d_logits
  BY <1>1 DEF Effect, Changed, host
<1>3. \A t \in 1 .. n : /\ Enq(t) \in Nat /\ Enq(t) <= Len(ChunksOf(prompt))
                        /\ (t > 1 => Enq(t) <= Enq(t - 1)) /\ Enq(t)' = Enq(t)
  <2>1. \A t : Enq(t)' = Enq(t)
    BY <1>2 DEF Enq
  <2>2. QED
    BY <1>1, <2>1, EnqIs
<1>4. PICK e \in Nat : e = Enq(s) /\ e <= Len(ChunksOf(prompt))
  BY <1>1, <1>3
<1>5. Lined(s, r[s], e) /\ (s > 1 => Linked(s, r[s - 1], r[s], e))
  BY <1>1, <1>4 DEF Queued
<1>6. ASSUME s > 1
      PROVE  Lined(s - 1, r[s - 1], Enq(s - 1)) /\ Enq(s - 1) \in Nat /\ e <= Enq(s - 1)
  <2>1. s - 1 \in 1 .. n
    BY <1>1, <1>6
  <2>2. QED
    BY <1>1, <1>3, <1>4, <1>6, <2>1 DEF Queued
<1>7. s > 1 => r[s - 1].done \in Nat
  BY <1>6 DEF Lined
<1>8. PICK p, c : p = r[s - 1] /\ c = r[s]
  OBVIOUS
<1>9. PICK y : Moves(s, p, c, y, e)
  <2>1. pc \in Serving /\ Lined(s, c, e)
    BY <1>5, <1>8 DEF Serving
  <2>2. CASE c.old > 0
    BY <1>5, <1>7, <1>8, <2>1, <2>2, OldExec
  <2>3. CASE ~(c.old > 0) /\ (s = 1 \/ c.in = 1)
    BY <1>4, <1>5, <1>7, <1>8, <2>1, <2>3, RowsExec
  <2>4. CASE ~(c.old > 0) /\ ~(s = 1 \/ c.in = 1)
    <3>1. s > 1 /\ c.in = 0
      BY <1>1, <2>1, <2>4 DEF Lined
    <3>2. PICK f \in Nat : f = Enq(s - 1) /\ e <= f /\ Lined(s - 1, p, f)
      BY <1>6, <1>8, <3>1
    <3>3. QED
      BY <1>5, <1>8, <2>1, <2>4, <3>1, <3>2, CopyExec
  <2>5. QED
    BY <2>2, <2>3, <2>4
<1>10. PICK w : w = [t \in 1 .. n |-> IF t = s THEN y ELSE r[t]]
  OBVIOUS
<1>11. w[s] = y /\ \A t \in 1 .. n : t # s => w[t] = r[t]
  BY <1>1, <1>10
<1>12. /\ Lined(s, y, e)' /\ y.acts = r[s].acts /\ r[s].done <= y.done
       /\ s > 1 => Linked(s, r[s - 1], y, e)'
  BY <1>8, <1>9 DEF Moves
<1>13. y.done \in Nat /\ r[s].done \in Nat
  BY <1>5, <1>12 DEF Lined
<1>14. ASSUME NEW t \in 1 .. n, t # s
       PROVE  /\ Lined(t, r[t], Enq(t))'
              /\ \A p_ : Linked(t, p_, r[t], Enq(t)) => Linked(t, p_, r[t], Enq(t))'
  <2>1. PICK g : g = Enq(t)
    OBVIOUS
  <2>2. Lined(t, r[t], g) /\ Enq(t)' = g
    BY <1>1, <1>3, <2>1 DEF Queued
  <2>3. /\ st'[t] = st[t] /\ queue'[t] = queue[t] /\ buf'[t] = buf[t] /\ HeldOn(t)' = HeldOn(t)
        /\ t = LastStage => d_logits' = d_logits
    BY <1>1, <1>2, <1>14, KeptOn
  <2>4. PICK z : z = r[t]
    OBVIOUS
  <2>5. /\ Lined(t, z, g) => Lined(t, z, g)'
        /\ \A p_ : Linked(t, p_, z, g) => Linked(t, p_, z, g)'
    BY <1>1, <1>2, <2>3, LinedKept
  <2>6. QED
    BY <2>1, <2>2, <2>4, <2>5
<1>15. ASSUME NEW t \in 1 .. n
       PROVE  Lined(t, w[t], Enq(t))'
  <2>1. CASE t = s
    BY <1>3, <1>4, <1>11, <1>12, <2>1
  <2>2. CASE t # s
    BY <1>11, <1>14, <2>2
  <2>3. QED
    BY <2>1, <2>2
<1>16. ASSUME NEW t \in 2 .. n
       PROVE  Linked(t, w[t - 1], w[t], Enq(t))'
  <2>1. t \in 1 .. n /\ t - 1 \in 1 .. n /\ t > 1 /\ t - 1 # t /\ Linked(t, r[t - 1], r[t], Enq(t))
    BY <1>1 DEF Queued
  <2>2. CASE t = s
    <3>1. Linked(s, r[s - 1], y, e)' /\ w[s - 1] = r[s - 1]
      BY <1>11, <1>12, <2>1, <2>2
    <3>2. QED
      BY <1>3, <1>4, <1>11, <2>1, <2>2, <3>1
  <2>3. CASE t # s /\ t - 1 # s
    BY <1>11, <1>14, <2>1, <2>3
  <2>4. CASE t # s /\ t - 1 = s
    <3>1. Linked(t, r[s], r[t], Enq(t))' /\ w[t] = r[t] /\ w[t - 1] = y
      BY <1>11, <1>14, <2>1, <2>4
    <3>2. PICK z, u : z = r[s] /\ u = r[t]
      OBVIOUS
    <3>3. Linked(t, z, u, Enq(t))' /\ y.acts = z.acts /\ z.done <= y.done /\ z.done \in Nat /\ y.done \in Nat
      BY <1>12, <1>13, <3>1, <3>2
    <3>4. u.done \in Nat /\ u.in \in 0 .. 1
      <4>1. Lined(t, r[t], Enq(t))
        BY <1>1, <2>1 DEF Queued
      <4>2. QED
        BY <3>2, <4>1 DEF Lined
    <3>5. Linked(t, y, u, Enq(t))'
      <4>1. /\ \A k \in u.done + u.in .. Enq(t)' - 1 : CopyDue(queue[t][CopyAt(u, k)], k, z.acts, u.acts)'
            /\ u.done + u.in <= z.done
        BY <3>3 DEF Linked
      <4>2. u.done + u.in <= y.done
        BY <3>3, <3>4, <4>1
      <4>3. QED
        BY <3>3, <4>1, <4>2 DEF Linked
    <3>6. QED
      BY <3>1, <3>2, <3>5
  <2>5. QED
    BY <2>2, <2>3, <2>4
<1>17. pc' = "prefill" /\ stage' > 1 => prev' = <<w[stage - 1].acts[step + 1]>>
  <2>1. ASSUME pc' = "prefill", stage' > 1
        PROVE  prev' = <<w[stage - 1].acts[step + 1]>>
    <3>1. prev = <<r[stage - 1].acts[step + 1]>> /\ stage \in 1 .. n /\ stage > 1
      BY <1>1, <1>2, <2>1 DEF Queued, Accounts, Desk
    <3>2. stage - 1 \in 1 .. n
      BY <3>1
    <3>3. w[stage - 1].acts = r[stage - 1].acts
      BY <1>11, <1>12, <3>2
    <3>4. QED
      BY <1>2, <3>1, <3>3
  <2>2. QED
    BY <2>1
<1>18. Queued(w)'
  BY <1>1, <1>2, <1>15, <1>16, <1>17 DEF Queued
<1>19. QED
  BY <1>18

\* The step in flight goes on, on the first m stages.
LEMMA FlightExec ==
  ASSUME Accounts, Shaped, pc \in Serving, NEW m \in 0 .. LastStage, NEW g,
         \A t \in 1 .. m : InFlight(t, g),
         NEW s \in 1 .. LastStage, NEW x, NEW b, NEW v, Effect(s, x, b, v)
  PROVE  \A t \in 1 .. m : InFlight(t, g)'
<1>1. PICK n \in Nat : n = LastStage /\ LastStage' = n /\ s \in 1 .. n
  BY RigIs DEF Effect
<1>2. /\ prompt' = prompt /\ out' = out /\ d_pos' = d_pos /\ queue[s] # <<>>
      /\ \A t \in 1 .. n : t # s => st'[t] = st[t] /\ queue'[t] = queue[t] /\ hidden_a'[t] = hidden_a[t]
      /\ s # n => d_logits' = d_logits
  BY <1>1 DEF Effect, Changed, host
<1>3. ASSUME NEW t \in 1 .. m
      PROVE  InFlight(t, g)'
  <2>1. t \in 1 .. n /\ InFlight(t, g) /\ (t > 1 => t - 1 \in 1 .. n /\ t - 1 \in 1 .. m)
    BY <1>1
  <2>2. CASE t = s
    <3>1. s > 1 => InFlight(s - 1, g)
      BY <2>1, <2>2
    <3>2. InFlight(s, g)
      BY <2>1, <2>2
    <3>3. QED
      BY <2>2, <3>1, <3>2, InFlightExec
  <2>3. CASE t # s
    <3>1. st'[t] = st[t] /\ queue'[t] = queue[t] /\ hidden_a'[t] = hidden_a[t] /\ d_pos'[t] = d_pos[t]
      BY <1>2, <2>1, <2>3
    <3>2. t = LastStage => d_logits' = d_logits
      BY <1>1, <1>2, <2>3
    <3>3. t > 1 /\ queue[t - 1] = <<>> => queue'[t - 1] = <<>>
      BY <1>2, <2>1
    <3>4. LastStage' = LastStage
      BY <1>1
    <3>5. QED
      BY <1>2, <2>1, <3>1, <3>2, <3>3, <3>4, InFlightKept
  <2>4. QED
    BY <2>2, <2>3
<1>4. QED
  BY <1>3

\* Whatever a device does, the queues stay in order.
LEMMA QueuesExec ==
  ASSUME Accounts, Shaped, Queues, NEW s \in 1 .. LastStage, Exec(s)
  PROVE  Queues'
<1>1. UNCHANGED <<setup, host>> /\ queue[s] # <<>>
  BY DEF Exec
<1>2. CASE pc \notin Serving
  <2>1. pc' \notin Serving
    BY <1>1, <1>2 DEF host
  <2>2. QED
    BY <2>1 DEF Queues, Serving
<1>3. CASE pc \in Serving
  <2>1. PICK x, b, v : Effect(s, x, b, v)
    BY <1>3, ExecIs DEF Serving
  <2>2. PICK n \in Nat : n = LastStage /\ LastStage' = n /\ s \in 1 .. n
    BY <2>1, RigIs DEF Effect
  <2>3. /\ pc' = pc /\ stage' = stage /\ step' = step /\ prompt' = prompt /\ out' = out /\ logits' = logits
        /\ graph' = graph /\ prev' = prev /\ served' = served
        /\ \A t \in 1 .. n : t # s => st'[t] = st[t] /\ queue'[t] = queue[t]
    BY <2>1, <2>2 DEF Effect, Changed, host
  <2>4. stage \in 1 .. n
    BY <1>3, <2>2 DEF Accounts, Desk, Serving
  <2>5. Whole' = Whole /\ Before' = Before
    BY <2>3, WholeKept
  <2>6. \A t \in 1 .. n : (Clear(t) => Clear(t)') /\ (Due(t) => Due(t)')
    <3>1. (Clear(s) => Clear(s)') /\ (Due(s) => Due(s)')
      BY <2>1, <2>3, DueExec
    <3>2. ASSUME NEW t \in 1 .. n, t # s
          PROVE  (Clear(t) => Clear(t)') /\ (Due(t) => Due(t)')
      BY <2>3, <2>5, <3>2 DEF Clear, Due
    <3>3. QED
      BY <2>2, <3>1, <3>2
  <2>7. CASE pc = "reset"
    <3>1. ASSUME NEW t \in 1 .. stage - 1
          PROVE  Clear(t)'
      <4>1. t \in 1 .. n /\ Clear(t)
        BY <2>4, <2>7 DEF Queues
      <4>2. QED
        BY <2>6, <4>1
    <3>2. pc' = "reset" /\ stage' = stage
      BY <2>3, <2>7
    <3>3. QED
      BY <3>1, <3>2 DEF Queues
  <2>8. CASE pc \in {"prefill", "prefilled"}
    <3>1. pc = "prefilled" => step = Len(ChunksOf(prompt))
      BY DEF Queues
    <3>2. PICK r : Queued(r)
      BY <2>8 DEF Queues
    <3>3. pc = "prefill" \/ (pc = "prefilled" /\ step = Len(ChunksOf(prompt)))
      BY <2>8, <3>1
    <3>4. \E w : Queued(w)'
      BY <2>1, <3>2, <3>3, QueuedExec
    <3>5. pc' = "prefilled" => step' = Len(ChunksOf(prompt)')
      BY <2>2, <2>3, <3>1, ChunksKept
    <3>6. QED
      BY <2>3, <2>8, <3>4, <3>5 DEF Queues
  <2>9. CASE pc \in {"capture", "sample"} \/ (pc = "deliver" /\ ~graph)
    <3>1. queue[s] = <<>>
      BY <2>2, <2>9 DEF Queues, Rested
    <3>2. QED
      BY <1>1, <3>1
  <2>10. CASE pc = "launch"
    <3>1. /\ out = <<>> => Len(prompt) = 1
          /\ stage > 1 => prev = <<HiddenA>>
          /\ \A t \in 1 .. n : IF t < stage THEN InFlight(t, Tag) ELSE Due(t)
      BY <2>2, <2>10 DEF Queues
    <3>2. PICK m \in 0 .. n : m = stage - 1
      BY <2>4
    <3>3. PICK g : g = Tag
      OBVIOUS
    <3>4. ASSUME NEW t \in 1 .. m
          PROVE  InFlight(t, g)
      <4>1. t \in 1 .. n /\ t < stage
        BY <2>4, <3>2
      <4>2. QED
        BY <3>1, <3>3, <4>1
    <3>5. \A t \in 1 .. m : InFlight(t, g)'
      BY <1>3, <2>1, <2>2, <3>4, FlightExec
    <3>6. Tag' = g
      BY <2>3, <3>3 DEF Tag
    <3>7. ASSUME NEW t \in 1 .. n
          PROVE  IF t < stage THEN InFlight(t, Tag)' ELSE Due(t)'
      <4>1. CASE t < stage
        <5>1. t \in 1 .. m
          BY <2>4, <3>2, <4>1
        <5>2. InFlight(t, g)'
          BY <3>5, <5>1
        <5>3. InFlight(t, Tag)'
          BY <3>6, <5>2
        <5>4. QED
          BY <4>1, <5>3
      <4>2. CASE ~(t < stage)
        BY <2>6, <3>1, <4>2
      <4>3. QED
        BY <4>1, <4>2
    <3>8. HiddenA' = HiddenA
      BY DEF HiddenA
    <3>9. QED
      BY <2>2, <2>3, <2>10, <3>1, <3>7, <3>8 DEF Queues
  <2>11. CASE (pc = "deliver" /\ graph) \/ pc = "finish"
    <3>1. PICK g : \A t \in 1 .. n : InFlight(t, g)
      BY <2>2, <2>11 DEF Queues
    <3>2. PICK m \in 0 .. n : m = n
      BY <2>2
    <3>3. \A t \in 1 .. m : InFlight(t, g)'
      BY <1>3, <2>1, <2>2, <3>1, <3>2, FlightExec
    <3>4. \A t \in 1 .. LastStage' : InFlight(t, g)'
      BY <2>2, <3>2, <3>3
    <3>5. QED
      BY <2>3, <2>11, <3>4 DEF Queues
  <2>12. QED
    BY <1>3, <2>7, <2>8, <2>9, <2>10, <2>11 DEF Serving
<1>4. QED
  BY <1>2, <1>3

-----------------------------------------------------------------------------
(* The host's steps, on the queues                                         *)

\* A request of one token has nothing before its last token.
LEMMA FirstToken ==
  ASSUME Accounts, pc \in Serving, out = <<>>
  PROVE  Whole = prompt /\ (Len(prompt) = 1 => Before = <<>>) /\ Len(prompt) \in Nat \ {0}
<1>1. /\ prompt \in Seq(Word) /\ Before \in Seq(Word) /\ Len(Before) = Len(Whole) - 1
      /\ Len(prompt) \in Nat \ {0}
  BY WholeIs
<1>2. Whole = prompt
  BY <1>1 DEF Whole
<1>3. Len(prompt) = 1 => Before = <<>>
  <2>1. ASSUME Len(prompt) = 1
        PROVE  Before = <<>>
    <3>1. Len(Before) = 0
      BY <1>1, <1>2, <2>1
    <3>2. PICK b \in Seq(Word) : b = Before
      BY <1>1
    <3>3. QED
      BY <3>1, <3>2
  <2>2. QED
    BY <2>1
<1>4. QED
  BY <1>1, <1>2, <1>3

\* reset leaves every stage without a context, and those that may still have work
\* without a recurrent state.
LEMMA ResetQueues ==
  ASSUME Accounts, Shaped, Queues, Reset
  PROVE  Queues'
<1>1. /\ pc = "reset" /\ pc \in Serving
      /\ "linear" \in st[stage].kinds => queue[stage] = <<>>
      /\ st' = [st EXCEPT ![stage] = ResetStage(st[stage])]
      /\ prompt' = prompt /\ out' = out /\ step' = step /\ queue' = queue
  BY DEF Reset, Idle, Serving
<1>2. PICK n \in Nat : n = LastStage /\ Array(queue, n) /\ \A s \in 1 .. n : Len(queue[s]) \in Nat
  <2>1. LastStage \in Nat /\ Array(queue, LastStage)
    BY RigIs
  <2>2. \A s \in 1 .. LastStage : Len(queue[s]) \in Nat
    <3>1. \A s \in 1 .. LastStage : queue[s] \in Seq(Works(pool[s].count))
      BY RigIs
    <3>2. QED
      BY <3>1
  <2>3. QED
    BY <2>1, <2>2
<1>3. out = <<>> /\ step = 0 /\ stage \in 1 .. n
  BY <1>1, <1>2 DEF Accounts, Desk
<1>4. PICK e \in 1 .. n : e = stage
  BY <1>3
<1>5. PICK y : y = ResetStage(st[e])
  OBVIOUS
<1>6. y.kinds = st[e].kinds /\ Holds(y, <<>>)
  <2>1. Shape(st[e]) /\ StageRecord(st[e])
    BY <1>1, <1>2, <1>4, <1>5, RigIs DEF Shaped
  <2>2. QED
    BY <1>4, <1>5, <2>1, ShapeKept
<1>7. LastStage' = n /\ Changed(st, st', n, e, y)
  <2>1. st' = [st EXCEPT ![e] = y]
    BY <1>1, <1>4, <1>5
  <2>2. QED
    BY <1>2, <1>4, <1>5, <2>1, StageChanged
<1>8. \A s \in 1 .. e : Clear(s)'
  <2>1. Clear(e)'
    BY <1>1, <1>4, <1>5, <1>6, <1>7 DEF Changed, Clear
  <2>2. ASSUME NEW s \in 1 .. e - 1
        PROVE  Clear(s)'
    <3>1. s \in 1 .. n /\ s # e /\ Clear(s)
      BY <1>1, <1>2, <1>4, <1>5, <2>2 DEF Queues
    <3>2. QED
      BY <1>1, <1>7, <3>1 DEF Changed, Clear
  <2>3. QED
    BY <1>4, <1>5, <2>1, <2>2
<1>9. CASE stage < LastStage
  <2>1. pc' = "reset" /\ stage' = e + 1
    BY <1>1, <1>4, <1>5, <1>9 DEF Reset
  <2>2. \A s \in 1 .. stage' - 1 : Clear(s)'
    BY <1>4, <1>5, <1>8, <2>1
  <2>3. QED
    BY <2>1, <2>2 DEF Queues
<1>10. CASE ~(stage < LastStage)
  <2>1. e = n /\ stage' = 1
    BY <1>2, <1>3, <1>4, <1>5, <1>10 DEF Reset
  <2>2. \A s \in 1 .. n : Clear(s)'
    BY <1>8, <2>1
  <2>3. CASE Len(prompt) > 1
    <3>1. pc' = "prefill"
      BY <1>10, <2>3 DEF Reset
    <3>2. PICK r : r = [s \in 1 .. n |-> Pos(Len(queue[s]), 0, 0, <<>>)]
      OBVIOUS
    <3>3. \A s \in 1 .. n : /\ r[s].old = Len(queue[s]) /\ r[s].done = 0 /\ r[s].in = 0
                            /\ r[s].acts = <<>>
      BY <3>2 DEF Pos
    <3>4. Past(0)' = <<>>
      <4>1. Past(0) = <<>>
        BY <1>1, PastEnds
      <4>2. QED
        BY <1>1, <1>2, <1>7, <4>1, ChunksKept
    <3>5. ASSUME NEW s \in 1 .. n
          PROVE  Lined(s, r[s], 0)'
      <4>1. Clear(s)' /\ Len(queue[s]) \in Nat /\ queue' = queue
        BY <1>1, <1>2, <2>2
      <4>2. PICK w : w = r[s] /\ w.old = Len(queue[s]) /\ w.done = 0 /\ w.in = 0 /\ w.acts = <<>>
        BY <3>3
      <4>3. Holds(st'[s], <<>>) /\ (queue[s] # <<>> => "linear" \notin st'[s].kinds)
        BY <4>1 DEF Clear
      <4>4. Len(queue[s]) > 0 => queue[s] # <<>>
        OBVIOUS
      <4>5. w.acts \in Seq(Nat \ {0}) /\ Len(w.acts) = 0 /\ Distinct(w.acts)
        BY <4>2 DEF Distinct
      <4>6. Lined(s, w, 0)'
        BY <3>4, <4>1, <4>2, <4>3, <4>4, <4>5 DEF Lined
      <4>7. QED
        BY <4>2, <4>6
    <3>6. ASSUME NEW s \in 2 .. n
          PROVE  Linked(s, r[s - 1], r[s], 0)'
      <4>1. s \in 1 .. n /\ s - 1 \in 1 .. n
        OBVIOUS
      <4>2. r[s].done = 0 /\ r[s].in = 0 /\ r[s - 1].done = 0
        BY <3>3, <4>1
      <4>3. QED
        BY <4>2 DEF Linked
    <3>7. \A s \in 1 .. n : Enq(s)' = 0
      BY <1>1, <1>3, <2>1 DEF Enq
    <3>8. Queued(r)'
      BY <1>7, <2>1, <3>5, <3>6, <3>7 DEF Queued
    <3>9. QED
      BY <3>1, <3>8 DEF Queues
  <2>4. CASE ~(Len(prompt) > 1)
    <3>1. pc' = "launch"
      BY <1>10, <2>4 DEF Reset
    <3>2. Len(prompt) = 1 /\ Before = <<>>
      <4>1. Len(prompt) \in Nat \ {0} /\ (Len(prompt) = 1 => Before = <<>>)
        BY <1>1, <1>3, FirstToken
      <4>2. Len(prompt) = 1
        <5>1. PICK k \in Nat \ {0} : k = Len(prompt)
          BY <4>1
        <5>2. ~(k > 1)
          BY <2>4, <5>1
        <5>3. QED
          BY <5>1, <5>2
      <4>3. QED
        BY <4>1, <4>2
    <3>3. Before' = <<>> /\ Len(prompt') = 1
      BY <1>1, <3>2, WholeKept
    <3>4. \A s \in 1 .. n : Due(s)'
      BY <2>2, <3>3 DEF Due, Clear
    <3>5. \A s \in 1 .. n : ~(s < stage')
      BY <2>1
    <3>6. QED
      BY <1>7, <2>1, <3>1, <3>3, <3>4, <3>5 DEF Queues
  <2>5. QED
    BY <2>3, <2>4
<1>11. QED
  BY <1>9, <1>10

\* From the last stage back: where one is done, so is the one before it.
LEMMA Backwards ==
  ASSUME NEW n \in Nat, NEW S, n \in S, \A s \in 2 .. n : s \in S => s - 1 \in S
  PROVE  \A s \in 1 .. n : s \in S
<1> DEFINE D == {d \in 0 .. n - 1 : n - d \in S}
<1>1. CASE n = 0
  BY <1>1
<1>2. CASE n # 0
  <2>1. PICK m \in Nat : m = n - 1
    BY <1>2
  <2>2. 0 \in D
    BY <1>2
  <2>3. ASSUME NEW d \in 1 .. m, d - 1 \in D
        PROVE  d \in D
    <3>1. n - (d - 1) \in S /\ n - (d - 1) \in 2 .. n /\ n - (d - 1) - 1 = n - d
      BY <2>1, <2>3
    <3>2. PICK a \in 2 .. n : a = n - (d - 1) /\ a - 1 = n - d
      BY <3>1
    <3>3. n - d \in S
      BY <3>1, <3>2
    <3>4. QED
      BY <2>1, <3>3
  <2> HIDE DEF D
  <2>4. \A d \in 0 .. m : d \in D
    BY <2>2, <2>3, UpTo
  <2> USE DEF D
  <2>5. ASSUME NEW s \in 1 .. n
        PROVE  s \in S
    <3>1. PICK d \in 0 .. m : d = n - s /\ n - d = s
      BY <2>1
    <3>2. QED
      BY <2>4, <3>1
  <2>6. QED
    BY <2>5
<1>3. QED
  BY <1>1, <1>2

\* A stage whose queue is empty has done all its chunks.
LEMMA LinedDone ==
  ASSUME NEW s \in Nat \ {0}, NEW r, NEW e \in Nat \ {0}, Lined(s, r, e), NEW T, queue[s] \in Seq(T)
  PROVE  queue[s] = <<>> <=> r.done = e
<1>1. /\ r.old \in Nat /\ r.done \in 0 .. e /\ r.in \in 0 .. 1
      /\ s = 1 \/ r.done = e => r.in = 0
      /\ r.old > 0 => r.done = 0
      /\ Len(queue[s]) = r.old + (IF s = 1 THEN e - r.done ELSE 2 * (e - r.done) - r.in)
  BY DEF Lined
<1>2. PICK o \in Nat, d \in 0 .. e, i \in 0 .. 1, q \in Seq(T) :
        o = r.old /\ d = r.done /\ i = r.in /\ q = queue[s]
  BY <1>1
<1>3. PICK n \in Nat : n = Len(q) /\ (q = <<>> <=> n = 0)
  BY <1>2
<1>4. n = o + (IF s = 1 THEN e - d ELSE 2 * (e - d) - i) /\ (o > 0 => d = 0) /\ (s = 1 \/ d = e => i = 0)
  BY <1>1, <1>2, <1>3
<1>5. CASE d = e
  BY <1>2, <1>3, <1>4, <1>5
<1>6. CASE d # e
  <2>1. PICK m \in Nat \ {0} : m = e - d
    BY <1>6
  <2>2. n = o + m \/ n = o + (2 * m - i)
    BY <1>4, <2>1
  <2>3. n # 0
    <3>1. m >= 1 /\ i <= 1 /\ m \in Nat /\ i \in Nat /\ o \in Nat
      BY <1>2, <2>1
    <3>2. QED
      BY <2>2, <3>1
  <2>4. QED
    BY <1>2, <1>3, <1>6, <2>3
<1>7. QED
  BY <1>5, <1>6

\* The prompt has gone through every stage when the last one is done.
LEMMA PrefilledQueues ==
  ASSUME Accounts, Shaped, Queues, Prefilled
  PROVE  Queues'
<1>1. /\ pc = "prefilled" /\ pc \in Serving /\ queue[LastStage] = <<>> /\ logits' = d_logits
      /\ pc' = "capture" /\ prompt' = prompt /\ out' = out /\ st' = st /\ queue' = queue
  BY DEF Prefilled, Idle, Serving, device
<1>2. PICK n \in Nat : n = LastStage /\ LastStage' = n /\ n >= 1
  <2>1. LastStage \in Nat /\ LastStage' = LastStage /\ stage \in 1 .. LastStage
    BY <1>1, RigIs DEF Accounts, Desk, LastStage
  <2>2. QED
    BY <2>1
<1>3. PICK r : Queued(r)
  BY <1>1 DEF Queues
<1>4. /\ step = Len(ChunksOf(prompt)) /\ out = <<>> /\ stage = 1
  BY <1>1 DEF Queues, Accounts, Desk
<1>5. PICK e \in Nat \ {0} : e = step
  BY <1>1, <1>4, PastEnds
<1>6. ASSUME NEW s \in 1 .. n
      PROVE  Lined(s, r[s], e) /\ (s > 1 => Linked(s, r[s - 1], r[s], e))
             /\ (queue[s] = <<>> <=> r[s].done = e)
  <2>1. Enq(s) = e
    BY <1>4, <1>5, <1>6 DEF Enq
  <2>2. Lined(s, r[s], e) /\ (s > 1 => Linked(s, r[s - 1], r[s], e))
    BY <1>2, <1>3, <2>1 DEF Queued
  <2>3. PICK t, T, w : t = s /\ t \in Nat \ {0} /\ w = r[t] /\ queue[t] \in Seq(T)
    <3>1. queue[s] \in Seq(Works(pool[s].count)) /\ s \in Nat \ {0}
      BY <1>2, RigIs
    <3>2. QED
      BY <3>1
  <2>4. Lined(t, w, e)
    BY <2>2, <2>3
  <2>5. queue[t] = <<>> <=> w.done = e
    BY <2>3, <2>4, LinedDone
  <2>6. QED
    BY <2>2, <2>3, <2>5
<1>7. \A s \in 1 .. n : queue[s] = <<>>
  <2> DEFINE S == {s \in 1 .. n : queue[s] = <<>>}
  <2>1. n \in S
    BY <1>1, <1>2
  <2>2. ASSUME NEW s \in 2 .. n, s \in S
        PROVE  s - 1 \in S
    <3>1. PICK t \in 1 .. n : t = s - 1
      OBVIOUS
    <3>2. s \in 1 .. n /\ s > 1 /\ queue[s] = <<>>
      BY <2>2
    <3>3. r[s].done = e /\ Linked(s, r[t], r[s], e) /\ Lined(t, r[t], e) /\ Lined(s, r[s], e)
      BY <1>6, <3>1, <3>2
    <3>4. PICK d \in 0 .. e, i \in 0 .. 1 : d = r[t].done /\ i = r[s].in
      BY <3>3 DEF Lined
    <3>5. e + i <= d
      BY <3>3, <3>4 DEF Linked
    <3>6. d = e
      BY <3>4, <3>5
    <3>7. QED
      BY <1>6, <3>1, <3>4, <3>6
  <2> HIDE DEF S
  <2>3. \A s \in 1 .. n : s \in S
    BY <2>1, <2>2, Backwards
  <2> USE DEF S
  <2>4. QED
    BY <2>3
<1>8. Past(e) = prompt /\ Whole = prompt
  BY <1>1, <1>4, <1>5, PastEnds, FirstToken
<1>9. \A s \in 1 .. n : Holds(st[s], Whole)
  BY <1>6, <1>7, <1>8 DEF Lined
<1>10. d_logits = Whole
  BY <1>2, <1>6, <1>7, <1>8 DEF Lined
<1>11. Whole' = Whole
  BY <1>1, WholeKept
<1>12. logits' = Whole' /\ \A s \in 1 .. n : Rested(s, Whole)'
  BY <1>1, <1>7, <1>9, <1>10, <1>11 DEF Rested
<1>13. QED
  BY <1>1, <1>2, <1>12 DEF Queues

\* The capture leaves the contexts as they are.
LEMMA CaptureQueues ==
  ASSUME Accounts, Shaped, Queues, Capture
  PROVE  Queues'
<1>1. /\ pc = "capture" /\ pc' = "sample" /\ logits' = logits /\ prompt' = prompt /\ out' = out
      /\ queue' = queue
  BY DEF Capture
<1>2. PICK n \in Nat : n = LastStage /\ Stages = 1 .. n
  BY RigIs
<1>3. logits = Whole /\ \A s \in 1 .. n : Rested(s, Whole)
  BY <1>1, <1>2 DEF Queues
<1>4. LastStage' = n /\ \A s \in 1 .. n : Holds(st'[s], Whole)
  <2>1. CASE st' = st
    BY <1>2, <1>3, <2>1 DEF LastStage, Rested
  <2>2. CASE st' # st
    <3>1. st' = [s \in 1 .. n |-> Moved(st[s], 1, 0)]
      BY <1>2, <2>2 DEF Capture
    <3>2. Array(st', n)
      BY <3>1 DEF Array
    <3>3. LastStage' = n
      BY <3>2, ArrayIs DEF LastStage
    <3>4. ASSUME NEW s \in 1 .. n
          PROVE  Holds(st'[s], Whole)
      <4>1. Shape(st[s]) /\ StageRecord(st[s]) /\ Holds(st[s], Whole)
        BY <1>1, <1>2, <1>3, RigIs DEF Shaped, Rested
      <4>2. Holds(Moved(st[s], 1, 0), Whole)
        BY <4>1, ShapeKept
      <4>3. QED
        BY <3>1, <4>2
    <3>5. QED
      BY <3>3, <3>4
  <2>3. QED
    BY <2>1, <2>2
<1>5. Whole' = Whole
  BY <1>1, WholeKept
<1>6. logits' = Whole' /\ \A s \in 1 .. n : Rested(s, Whole)'
  BY <1>1, <1>3, <1>4, <1>5 DEF Rested
<1>7. QED
  BY <1>1, <1>4, <1>6 DEF Queues

\* The token picked is the next one due.
LEMMA SampleQueues ==
  ASSUME Accounts, Shaped, Queues, Sample
  PROVE  Queues'
<1>1. /\ pc = "sample" /\ pc \in Serving /\ pc' = IF graph THEN "launch" ELSE "deliver"
      /\ prompt' = prompt /\ graph' = graph /\ stage' = stage /\ st' = st /\ queue' = queue
  BY DEF Sample, Serving, device
<1>2. PICK t \in Token : out' = Append(out, t)
  BY DEF Sample
<1>3. PICK n \in Nat : n = LastStage /\ LastStage' = n
  BY <1>1, RigIs DEF LastStage
<1>4. graph \in BOOLEAN /\ stage = 1
  BY <1>1 DEF Accounts, Desk
<1>5. PICK w \in Seq(Word) : w = Whole /\ prompt \in Seq(Word) /\ out \in Seq(Word)
  BY <1>1, WholeIs
<1>6. t \in Word
  BY PipelineAssumption DEF Word, Mark
<1>7. Whole' = Append(w, t)
  <2>1. PICK p \in Seq(Word), o \in Seq(Word) : p = prompt /\ o = out
    BY <1>5
  <2>2. p \o Append(o, t) = Append(p \o o, t)
    BY <1>6, AppendAfter
  <2>3. QED
    BY <1>1, <1>2, <1>5, <2>1, <2>2 DEF Whole
<1>8. Before' = w
  <2>1. /\ Append(w, t) = w \o <<t>> /\ Len(Append(w, t)) - 1 = Len(w) /\ <<t>> \in Seq(Word)
        /\ Len(w) \in 0 .. Len(w)
    BY <1>6
  <2>2. Begin(w \o <<t>>, Len(w)) = Begin(w, Len(w)) /\ Begin(w, Len(w)) = w
    BY <2>1, BeginningOfConcat
  <2>3. QED
    BY <1>7, <2>1, <2>2 DEF Before
<1>9. out' # <<>>
  <2>1. PICK o \in Seq(Word) : o = out
    BY <1>5
  <2>2. Append(o, t) # <<>>
    OBVIOUS
  <2>3. QED
    BY <1>2, <2>1, <2>2
<1>10. \A s \in 1 .. n : Holds(st'[s], Before') /\ queue'[s] = <<>>
  BY <1>1, <1>3, <1>5, <1>8 DEF Queues, Rested
<1>11. \A s \in 1 .. n : Rested(s, Before)' /\ Due(s)'
  BY <1>10 DEF Rested, Due
<1>12. CASE graph
  <2>1. pc' = "launch" /\ graph' /\ stage' = 1
    BY <1>1, <1>4, <1>12
  <2>2. \A s \in 1 .. n : ~(s < stage')
    BY <2>1
  <2>3. QED
    BY <1>3, <1>9, <1>11, <2>1, <2>2 DEF Queues
<1>13. CASE ~graph
  <2>1. pc' = "deliver" /\ ~graph'
    BY <1>1, <1>13
  <2>2. QED
    BY <1>3, <1>11, <2>1 DEF Queues
<1>14. QED
  BY <1>12, <1>13

\* Delivery changes nothing.
LEMMA DeliverQueues ==
  ASSUME Accounts, Shaped, Queues, Deliver
  PROVE  Queues'
<1>1. /\ pc = "deliver" /\ pc \in Serving /\ pc' = IF graph THEN "finish" ELSE "launch"
      /\ prompt' = prompt /\ out' = out /\ graph' = graph /\ stage' = stage
      /\ UNCHANGED <<st, d_pos, hidden_a, d_logits, queue>>
  BY DEF Deliver, Serving, device
<1>2. PICK n \in Nat : n = LastStage /\ LastStage' = n
  BY <1>1, RigIs DEF LastStage
<1>3. stage = 1 /\ out # <<>>
  BY <1>1 DEF Accounts, Desk
<1>4. Whole' = Whole /\ Before' = Before
  BY <1>1, WholeKept
<1>5. CASE graph
  <2>1. PICK g : \A s \in 1 .. n : InFlight(s, g)
    BY <1>1, <1>2, <1>5 DEF Queues
  <2>2. \A s \in 1 .. n : InFlight(s, g)'
    <3>1. ASSUME NEW s \in 1 .. n
          PROVE  InFlight(s, g)'
      <4>1. LastStage' = LastStage /\ InFlight(s, g)
        BY <1>2, <2>1
      <4>2. QED
        BY <1>1, <4>1, InFlightKept
    <3>2. QED
      BY <3>1
  <2>3. pc' = "finish"
    BY <1>1, <1>5
  <2>4. QED
    BY <1>2, <2>2, <2>3 DEF Queues
<1>6. CASE ~graph
  <2>1. \A s \in 1 .. n : Rested(s, Before)
    BY <1>1, <1>2, <1>6 DEF Queues
  <2>2. \A s \in 1 .. n : Due(s)' /\ ~(s < stage')
    BY <1>1, <1>3, <1>4, <2>1 DEF Rested, Due
  <2>3. pc' = "launch" /\ stage' = 1 /\ out' # <<>>
    BY <1>1, <1>3, <1>6
  <2>4. QED
    BY <1>2, <2>2, <2>3 DEF Queues
<1>7. QED
  BY <1>5, <1>6

\* The step has gone through every stage when the last one is done.
LEMMA DecodeFinishQueues ==
  ASSUME Accounts, Shaped, Queues, DecodeFinish
  PROVE  Queues'
<1>1. /\ pc = "finish" /\ queue[LastStage] = <<>> /\ logits' = d_logits
      /\ pc' \in {"capture", "sample"} /\ prompt' = prompt /\ out' = out /\ st' = st /\ queue' = queue
  BY DEF DecodeFinish, Idle, device
<1>2. PICK n \in Nat : n = LastStage /\ LastStage' = n /\ n >= 1
  <2>1. LastStage \in Nat /\ LastStage' = LastStage /\ stage \in 1 .. LastStage
    BY <1>1, RigIs DEF Accounts, Desk, LastStage
  <2>2. QED
    BY <2>1
<1>3. PICK g : \A s \in 1 .. n : InFlight(s, g)
  BY <1>1, <1>2 DEF Queues
<1>4. \A s \in 1 .. n : queue[s] = <<>>
  <2> DEFINE S == {s \in 1 .. n : queue[s] = <<>>}
  <2>1. n \in S
    BY <1>1, <1>2
  <2>2. ASSUME NEW s \in 2 .. n, s \in S
        PROVE  s - 1 \in S
    <3>1. s \in 1 .. n /\ s > 1 /\ s - 1 \in 1 .. n /\ Len(queue[s]) < 2 /\ InFlight(s, g)
      BY <1>3, <2>2
    <3>2. queue[s - 1] = <<>>
      BY <3>1 DEF InFlight
    <3>3. QED
      BY <3>1, <3>2
  <2> HIDE DEF S
  <2>3. \A s \in 1 .. n : s \in S
    BY <2>1, <2>2, Backwards
  <2> USE DEF S
  <2>4. QED
    BY <2>3
<1>5. ASSUME NEW s \in 1 .. n
      PROVE  Rested(s, Whole) /\ (s = LastStage => d_logits = Whole)
  <2>1. InFlight(s, g) /\ queue[s] = <<>>
    BY <1>3, <1>4
  <2>2. QED
    BY <2>1, InFlightQueue
<1>6. d_logits = Whole
  BY <1>2, <1>5
<1>7. Whole' = Whole
  BY <1>1, WholeKept
<1>8. logits' = Whole' /\ \A s \in 1 .. n : Rested(s, Whole)'
  BY <1>1, <1>5, <1>6, <1>7 DEF Rested
<1>9. QED
  BY <1>1, <1>2, <1>8 DEF Queues

\* One after the other.
LEMMA Pair ==
  ASSUME NEW a, NEW b
  PROVE  <<>> \o <<a>> \o <<b>> = <<a, b>>
<1>1. /\ <<a>> \in Seq({a, b}) /\ Len(<<a>>) = 1 /\ <<a>>[1] = a
      /\ <<b>> \in Seq({a, b}) /\ Len(<<b>>) = 1 /\ <<b>>[1] = b
      /\ <<a, b>> \in Seq({a, b}) /\ Len(<<a, b>>) = 2 /\ <<a, b>>[1] = a /\ <<a, b>>[2] = b
  OBVIOUS
<1>2. PICK T, u, z, w :
        /\ u \in Seq(T) /\ u = <<a>> /\ Len(u) = 1 /\ u[1] = a
        /\ z \in Seq(T) /\ z = <<b>> /\ Len(z) = 1 /\ z[1] = b
        /\ w \in Seq(T) /\ w = <<a, b>> /\ Len(w) = 2 /\ w[1] = a /\ w[2] = b
  BY <1>1
<1>3. <<>> \o u = u
  BY <1>2, ConcatEmptySeq
<1>4. u \o z = w
  <2>1. /\ u \o z \in Seq(T) /\ Len(u \o z) = Len(u) + Len(z)
        /\ \A i \in 1 .. Len(u) : (u \o z)[i] = u[i]
        /\ \A i \in 1 .. Len(z) : (u \o z)[Len(u) + i] = z[i]
    BY <1>2, Joining
  <2>2. PICK q \in Seq(T) : q = u \o z
    BY <2>1
  <2>3. Len(q) = 2 /\ q[1] = a /\ q[2] = b
    BY <1>2, <2>1, <2>2
  <2>4. \A i \in 1 .. Len(q) : q[i] = w[i]
    BY <1>2, <2>3
  <2>5. QED
    BY <1>2, <2>2, <2>3, <2>4, SeqEqual
<1>5. QED
  BY <1>2, <1>3, <1>4

\* The token that is decoded is the last one.
LEMMA DecodedIs ==
  ASSUME Accounts, pc = "launch", out = <<>> => Len(prompt) = 1
  PROVE  Decoded = Last(Whole)
<1>1. prompt \in Seq(Word) /\ out \in Seq(Word) /\ prompt # <<>> /\ pc \in Serving
  BY WholeIs DEF Serving
<1>2. CASE out = <<>>
  <2>1. Whole = prompt /\ Len(prompt) = 1
    BY <1>1, <1>2, FirstToken
  <2>2. QED
    BY <1>2, <2>1 DEF Decoded, Last
<1>3. CASE out # <<>>
  <2>1. PICK p \in Seq(Word), o \in Seq(Word) : p = prompt /\ o = out /\ o # <<>>
    BY <1>1, <1>3
  <2>2. PICK a \in Nat, b \in Nat : a = Len(p) /\ b = Len(o) /\ b >= 1
    BY <2>1
  <2>3. Len(p \o o) = a + b /\ (p \o o)[a + b] = o[b]
    <3>1. /\ Len(p \o o) = Len(p) + Len(o) /\ p \o o \in Seq(Word)
          /\ \A i \in 1 .. Len(o) : (p \o o)[Len(p) + i] = o[i]
      BY Joining
    <3>2. QED
      BY <2>2, <3>1
  <2>4. QED
    BY <1>3, <2>1, <2>2, <2>3 DEF Decoded, Last, Whole
<1>4. QED
  BY <1>2, <1>3

\* A share of a step is enqueued behind nothing.
LEMMA LaunchQueues ==
  ASSUME Accounts, Shaped, Queues, LaunchStage
  PROVE  Queues'
<1>1. /\ pc = "launch" /\ pc \in Serving /\ queue[stage] = <<>>
      /\ d_pos' = [d_pos EXCEPT ![stage] = st[stage].pos]
      /\ queue' = [queue EXCEPT ![stage] = queue[stage] \o StepInput \o <<Body>>]
      /\ st' = [st EXCEPT ![stage] = Moved(st[stage], IF Replays THEN 0 ELSE 1, 1)]
      /\ prev' = <<HiddenA>> /\ prompt' = prompt /\ out' = out /\ graph' = graph /\ served' = served
      /\ hidden_a' = hidden_a /\ d_logits' = d_logits
  BY DEF LaunchStage, Idle, Serving
<1>2. PICK n \in Nat : n = LastStage
  BY RigIs
<1>3. stage \in 1 .. n
  BY <1>1, <1>2 DEF Accounts, Desk
<1>4. PICK e \in 1 .. n : e = stage
  BY <1>3
<1>5. PICK g : g = Tag
  OBVIOUS
<1>6. /\ out = <<>> => Len(prompt) = 1
      /\ e > 1 => prev = <<HiddenA>>
      /\ \A s \in 1 .. n : IF s < e THEN InFlight(s, g) ELSE Due(s)
  BY <1>1, <1>2, <1>4, <1>5 DEF Queues
<1>7. PICK y : y = Moved(st[e], IF Replays THEN 0 ELSE 1, 1)
  OBVIOUS
<1>8. /\ LastStage' = n /\ Changed(st, st', n, e, y)
  <2>1. st' = [st EXCEPT ![e] = y]
    BY <1>1, <1>4, <1>5, <1>7
  <2>2. QED
    BY <1>2, <1>4, <1>5, <2>1, StageChanged
<1>9. PICK w : w = queue[e] \o StepInput \o <<Body>>
  OBVIOUS
<1>10. Changed(queue, queue', n, e, w) /\ Changed(d_pos, d_pos', n, e, st[e].pos)
  <2>1. Array(queue, n) /\ Array(d_pos, n)
    BY <1>1, <1>2, RigIs DEF Shaped
  <2>2. queue' = [queue EXCEPT ![e] = w] /\ d_pos' = [d_pos EXCEPT ![e] = st[e].pos]
    BY <1>1, <1>4, <1>5, <1>9
  <2>3. QED
    BY <1>4, <1>5, <2>1, <2>2, ChangedIs
<1>11. w = <<InputOf(e, g), BodyOf(g)>>
  <2>1. StepInput = <<InputOf(e, g)>>
    <3>1. CASE e = 1
      <4>1. Decoded = Last(Whole)
        BY <1>1, <1>6, DecodedIs
      <4>2. QED
        BY <1>4, <1>5, <3>1, <4>1 DEF StepInput, Embed, InputOf
    <3>2. CASE e # 1
      <4>1. prev = <<HiddenA>>
        BY <1>4, <1>5, <1>6, <3>2
      <4>2. QED
        BY <1>4, <1>5, <3>2, <4>1 DEF StepInput, Copy, InputOf
    <3>3. QED
      BY <3>1, <3>2
  <2>2. Body = BodyOf(g)
    BY <1>4, <1>5 DEF Body, BodyOf
  <2>3. PICK a, b : a = InputOf(e, g) /\ b = BodyOf(g)
    OBVIOUS
  <2>4. w = <<>> \o <<a>> \o <<b>>
    BY <1>1, <1>4, <1>5, <1>9, <2>1, <2>2, <2>3
  <2>5. QED
    BY <2>3, <2>4, Pair
<1>12. Whole' = Whole /\ Before' = Before
  BY <1>1, WholeKept
<1>13. st[e].pos = Len(Whole) - 1
  <2>1. Len(Whole) = Len(prompt) + Len(out)
    BY <1>1, WholeIs
  <2>2. CountedAt(e, st[e].len, st[e].pos)
    BY <1>2 DEF Accounts, Counted
  <2>3. st[e].pos = Len(prompt) + Len(out) - 1
    BY <1>1, <1>4, <1>5, <2>2 DEF CountedAt
  <2>4. QED
    BY <2>1, <2>3
<1>14. InFlight(e, g)'
  <2>1. Holds(y, Before)
    <3>1. Holds(st[e], Before) /\ Shape(st[e]) /\ StageRecord(st[e])
      BY <1>1, <1>2, <1>6, RigIs DEF Shaped, Due
    <3>2. QED
      BY <1>7, <3>1, ShapeKept
  <2>2. queue'[e] = <<InputOf(e, g), BodyOf(g)>> /\ d_pos'[e] = Len(Whole) - 1 /\ st'[e] = y
    BY <1>8, <1>10, <1>11, <1>13 DEF Changed
  <2>3. InputOf(e, g)' = InputOf(e, g) /\ BodyOf(g)' = BodyOf(g)
    BY <1>12 DEF InputOf, BodyOf
  <2>4. Len(queue'[e]) = 2
    BY <2>2
  <2>5. QED
    BY <1>12, <2>1, <2>2, <2>3, <2>4 DEF InFlight
<1>15. ASSUME NEW s \in 1 .. n, s < e
       PROVE  InFlight(s, g)'
  <2>1. /\ st'[s] = st[s] /\ queue'[s] = queue[s] /\ d_pos'[s] = d_pos[s] /\ hidden_a'[s] = hidden_a[s]
        /\ InFlight(s, g) /\ LastStage' = LastStage
    BY <1>1, <1>2, <1>6, <1>8, <1>10, <1>15 DEF Changed
  <2>2. s > 1 /\ queue[s - 1] = <<>> => queue'[s - 1] = <<>>
    <3>1. ASSUME s > 1, queue[s - 1] = <<>>
          PROVE  queue'[s - 1] = <<>>
      <4>1. s - 1 \in 1 .. n /\ s - 1 # e
        BY <1>15, <3>1
      <4>2. QED
        BY <1>10, <3>1, <4>1 DEF Changed
    <3>2. QED
      BY <3>1
  <2>3. QED
    BY <1>1, <2>1, <2>2, InFlightKept
<1>16. ASSUME NEW s \in 1 .. n, ~(s <= e)
       PROVE  Due(s)'
  <2>1. st'[s] = st[s] /\ queue'[s] = queue[s] /\ Due(s)
    BY <1>6, <1>8, <1>10, <1>16 DEF Changed
  <2>2. QED
    BY <1>12, <2>1 DEF Due
<1>17. CASE stage < LastStage
  <2>1. pc' = "launch" /\ stage' = e + 1 /\ step' = step
    BY <1>1, <1>4, <1>5, <1>17 DEF LaunchStage
  <2>2. Tag' = g
    BY <1>1, <1>4, <1>5, <2>1 DEF Tag
  <2>3. ASSUME NEW s \in 1 .. n
        PROVE  IF s < stage' THEN InFlight(s, Tag)' ELSE Due(s)'
    <3>1. CASE s = e
      <4>1. s < stage'
        BY <2>1, <3>1
      <4>2. InFlight(s, g)'
        BY <1>14, <3>1
      <4>3. InFlight(s, Tag)'
        BY <2>2, <4>2
      <4>4. QED
        BY <4>1, <4>3
    <3>2. CASE s < e
      <4>1. s < stage'
        BY <2>1, <3>2
      <4>2. InFlight(s, g)'
        BY <1>15, <3>2
      <4>3. InFlight(s, Tag)'
        BY <2>2, <4>2
      <4>4. QED
        BY <4>1, <4>3
    <3>3. CASE ~(s <= e)
      <4>1. ~(s < stage')
        BY <2>1, <3>3
      <4>2. QED
        BY <1>16, <3>3, <4>1
    <3>4. QED
      BY <3>1, <3>2, <3>3
  <2>4. HiddenA' = HiddenA
    BY DEF HiddenA
  <2>5. QED
    BY <1>1, <1>6, <1>8, <2>1, <2>3, <2>4 DEF Queues
<1>18. CASE ~(stage < LastStage)
  <2>1. e = n
    BY <1>2, <1>4, <1>5, <1>18
  <2>2. \A s \in 1 .. n : InFlight(s, g)'
    <3>1. ASSUME NEW s \in 1 .. n
          PROVE  InFlight(s, g)'
      <4>1. s = e \/ s < e
        BY <2>1
      <4>2. QED
        BY <1>14, <1>15, <4>1
    <3>2. QED
      BY <3>1
  <2>3. (pc' = "deliver" /\ graph') \/ pc' = "finish"
    BY <1>1, <1>4, <1>5, <1>18 DEF LaunchStage, Replays
  <2>4. QED
    BY <1>8, <2>2, <2>3 DEF Queues
<1>19. QED
  BY <1>17, <1>18

\* The queue q with one piece of work behind it, or two.
Behindhand(q, p, first, last, two) ==
  /\ Len(p) = Len(q) + (IF two THEN 2 ELSE 1) /\ \A i \in 1 .. Len(q) : p[i] = q[i]
  /\ p[Len(p)] = last /\ (two => p[Len(q) + 1] = first)

LEMMA PutBehind ==
  ASSUME NEW T, NEW q \in Seq(T), NEW a \in T, NEW z \in T
  PROVE  /\ Behindhand(q, q \o <<a>> \o <<z>>, a, z, TRUE)
         /\ Behindhand(q, q \o <<>> \o <<z>>, a, z, FALSE)
<1>1. PICK n \in Nat : n = Len(q)
  OBVIOUS
<1>2. PICK u : u \in Seq(T) /\ u = <<a>> /\ Len(u) = 1 /\ u[1] = a
  <2>1. <<a>> \in Seq(T) /\ Len(<<a>>) = 1 /\ <<a>>[1] = a
    OBVIOUS
  <2>2. QED
    BY <2>1
<1>3. PICK v : v \in Seq(T) /\ v = <<z>> /\ Len(v) = 1 /\ v[1] = z
  <2>1. <<z>> \in Seq(T) /\ Len(<<z>>) = 1 /\ <<z>>[1] = z
    OBVIOUS
  <2>2. QED
    BY <2>1
<1>4. PICK p \in Seq(T) : /\ p = q \o u /\ Len(p) = n + 1 /\ p[n + 1] = a
                          /\ \A i \in 1 .. n : p[i] = q[i]
  <2>1. /\ q \o u \in Seq(T) /\ Len(q \o u) = Len(q) + Len(u)
        /\ \A i \in 1 .. Len(q) : (q \o u)[i] = q[i]
        /\ \A i \in 1 .. Len(u) : (q \o u)[Len(q) + i] = u[i]
    BY <1>2, Joining
  <2>2. PICK p : p = q \o u
    OBVIOUS
  <2>3. p \in Seq(T) /\ Len(p) = n + 1 /\ \A i \in 1 .. n : p[i] = q[i]
    BY <1>1, <1>2, <2>1, <2>2
  <2>4. p[n + 1] = a
    <3>1. 1 \in 1 .. Len(u)
      BY <1>2
    <3>2. (q \o u)[Len(q) + 1] = u[1]
      BY <2>1, <3>1
    <3>3. QED
      BY <1>1, <1>2, <2>2, <3>2
  <2>5. QED
    BY <2>2, <2>3, <2>4
<1>5. ASSUME NEW x \in Seq(T)
      PROVE  /\ Len(x \o v) = Len(x) + 1 /\ (x \o v)[Len(x) + 1] = z
             /\ \A i \in 1 .. Len(x) : (x \o v)[i] = x[i]
  <2>1. /\ Len(x \o v) = Len(x) + Len(v)
        /\ \A i \in 1 .. Len(x) : (x \o v)[i] = x[i]
        /\ \A i \in 1 .. Len(v) : (x \o v)[Len(x) + i] = v[i]
    BY <1>3, Joining
  <2>2. 1 \in 1 .. Len(v)
    BY <1>3
  <2>3. (x \o v)[Len(x) + 1] = v[1]
    BY <2>1, <2>2
  <2>4. QED
    BY <1>3, <2>1, <2>3
<1>6. Behindhand(q, p \o v, a, z, TRUE)
  <2>1. PICK w : w = p \o v
    OBVIOUS
  <2>2. Len(w) = n + 1 + 1 /\ w[n + 1 + 1] = z /\ \A i \in 1 .. n + 1 : w[i] = p[i]
    BY <1>4, <1>5, <2>1
  <2>3. Len(w) = n + 2 /\ w[n + 1] = a /\ \A i \in 1 .. n : w[i] = q[i]
    <3>1. n + 1 \in 1 .. n + 1 /\ \A i \in 1 .. n : i \in 1 .. n + 1
      OBVIOUS
    <3>2. w[n + 1] = p[n + 1] /\ \A i \in 1 .. n : w[i] = p[i]
      BY <2>2, <3>1
    <3>3. Len(w) = n + 2
      BY <2>2
    <3>4. QED
      BY <1>4, <3>2, <3>3
  <2>4. QED
    BY <1>1, <2>1, <2>2, <2>3 DEF Behindhand
<1>7. Behindhand(q, q \o v, a, z, FALSE)
  <2>1. PICK w : w = q \o v
    OBVIOUS
  <2>2. Len(w) = n + 1 /\ w[n + 1] = z /\ \A i \in 1 .. n : w[i] = q[i]
    BY <1>1, <1>5, <2>1
  <2>3. QED
    BY <1>1, <2>1, <2>2 DEF Behindhand
<1>8. q \o <<>> = q
  BY ConcatEmptySeq
<1>9. QED
  BY <1>2, <1>3, <1>4, <1>6, <1>7, <1>8

\* What prefill_stage does to the stage e with chunk k: its activation is in h.
Sent(e, k, h, x, b, q, w) ==
  /\ e = stage /\ k = step /\ LastStage' = LastStage
  /\ UNCHANGED <<prompt, out, served, d_logits>>
  /\ Changed(st, st', LastStage, e, x) /\ Changed(buf, buf', LastStage, e, b)
  /\ Changed(queue, queue', LastStage, e, q)
  /\ x.kinds = st[e].kinds /\ (\A c : Holds(st[e], c) => Holds(x, c))
  /\ \A i \in DOMAIN buf[e] : b[i] = buf[e][i]
  /\ Behindhand(queue[e], q, Copy(h.id), w, e # 1)
  /\ w.op = "rows" /\ w.tag = <<served, k>> /\ w.buf = h.id /\ w.at = Behind(prompt, k)
  /\ e = 1 => w.toks = Piece(k)
  /\ \A z \in HeldOn(e) \cup {h} : z.id \notin w.scratch
  /\ h.id \in Nat \ {0} /\ (\A z \in HeldOn(e) : z.id # h.id)
  /\ HeldOn(e)' = HeldOn(e) \cup {h} /\ (\A t : t # e => HeldOn(t)' = HeldOn(t))
  /\ prev' = <<h.id>>

LEMMA ChunkSent ==
  ASSUME Accounts, Shaped, PrefillStage
  PROVE  \E e, k, h, x, b, q, w : Sent(e, k, h, x, b, q, w)
<1>1. PICK n \in Nat : n = LastStage /\ stage \in 1 .. n /\ pc = "prefill"
  BY DEF Accounts, Rig, Desk, PrefillStage
<1>2. PICK e \in 1 .. n : e = stage
  BY <1>1
<1>3. PICK k : k = step
  OBVIOUS
<1>4. /\ Array(st, n) /\ Array(buf, n) /\ Array(queue, n) /\ Array(buf[e], pool[e].count)
      /\ StageRecord(st[e]) /\ Shape(st[e]) /\ queue[e] \in Seq(Works(pool[e].count))
  BY <1>1, RigIs DEF Shaped
<1>5. PICK m \in Nat : m = Len(chunks[1])
  BY <1>1, ChunkDue
<1>6. PICK h : h = [id |-> Outer.ids[1], size |-> m * H]
  OBVIOUS
<1>7. PICK w : w = ChunkRows
  OBVIOUS
<1>8. PICK b : b = Fresh(Within.pool)
  OBVIOUS
<1>9. PICK x : x = Moved(st[e], m, m)
  OBVIOUS
<1>10. PICK q : q = queue[e] \o Input(h.id) \o <<w>>
  OBVIOUS
<1>11. /\ queue' = [queue EXCEPT ![e] = q] /\ buf' = [buf EXCEPT ![e] = b]
       /\ st' = [st EXCEPT ![e] = x]
       /\ held' = Append(held, [stage |-> e, buf |-> h]) /\ prev' = <<h.id>>
  BY <1>2, <1>3, <1>5, <1>6, <1>7, <1>8, <1>9, <1>10 DEF PrefillStage
<1>12. Changed(st, st', n, e, x) /\ Changed(queue, queue', n, e, q) /\ Changed(buf, buf', n, e, b)
  BY <1>4, <1>11, ChangedIs
<1>13. LastStage' = n /\ UNCHANGED <<prompt, out, served, d_logits>>
  BY <1>12, ArrayIs DEF Changed, LastStage, PrefillStage
<1>14. x.kinds = st[e].kinds /\ \A c : Holds(st[e], c) => Holds(x, c)
  BY <1>4, <1>9, ShapeKept
<1>15. /\ Chunked(pool[e], HeldOn(e), m * H, m * K, Outer, Within, GivenBack, AllBack, OuterBack)
       /\ pool[e].count \in Nat /\ Outer.pool.count \in Nat /\ Within.pool.count \in Nat
       /\ IsFiniteSet(HeldOn(e))
       /\ Input(Outer.ids[1]) \in Seq(Works(Outer.pool.count))
       /\ <<ChunkRows>> \in Seq(Works(Within.pool.count))
  BY <1>1, <1>2, <1>3, <1>5, ChunkTaken
<1>16. /\ h \in Buffer /\ h \notin HeldOn(e) /\ h.id \in 1 .. Outer.pool.count
       /\ Owned(GivenBack, HeldOn(e) \cup {h})
       /\ pool[e].count <= Outer.pool.count /\ Outer.pool.count <= Within.pool.count
       /\ \A z \in HeldOn(e) \cup {h} :
            z.id \notin {Outer.ids[2], Outer.ids[3]} \cup {Within.ids[i] : i \in 1 .. Inner}
  BY <1>6, <1>15 DEF Chunked
<1>17. h.id \in Nat \ {0} /\ \A z \in HeldOn(e) : z.id # h.id
  <2>1. h.id \in Nat \ {0}
    BY <1>15, <1>16
  <2>2. Numbered(Made(GivenBack, HeldOn(e) \cup {h}), GivenBack.count)
    BY <1>16 DEF Owned
  <2>3. QED
    BY <1>16, <2>1, <2>2 DEF Numbered, Made
<1>18. HeldOn(e)' = HeldOn(e) \cup {h} /\ \A t : t # e => HeldOn(t)' = HeldOn(t)
  <2>1. Kept /\ e \in Nat
    BY DEF Accounts, Desk
  <2>2. QED
    BY <1>11, <1>15, <1>16, <2>1, KeepsOne
<1>19. /\ w.op = "rows" /\ w.tag = <<served, k>> /\ w.buf = h.id /\ w.at = Behind(prompt, k)
       /\ e = 1 => w.toks = Piece(k)
       /\ w.scratch = {Outer.ids[2], Outer.ids[3]} \cup {Within.ids[i] : i \in 1 .. Inner}
  <2>1. st[stage].len = Behind(prompt, step)
    BY <1>1, ChunkDue
  <2>2. chunks[1] = Piece(step)
    <3>1. /\ step < Len(ChunksOf(prompt)) /\ step \in Nat
          /\ chunks = [i \in 1 .. Len(ChunksOf(prompt)) - step |-> ChunksOf(prompt)[step + i]]
      BY <1>1 DEF Accounts, Desk
    <3>2. PICK l \in Nat : l = Len(ChunksOf(prompt))
      BY <1>1, PastEnds DEF Serving
    <3>3. 1 \in 1 .. l - step
      BY <3>1, <3>2
    <3>4. QED
      BY <3>1, <3>2, <3>3 DEF Piece
  <2>3. w = [op |-> "rows", tag |-> <<served, step>>, buf |-> Outer.ids[1],
             scratch |-> {Outer.ids[2], Outer.ids[3]} \cup {Within.ids[i] : i \in 1 .. Inner},
             at |-> st[stage].len, toks |-> IF stage = 1 THEN chunks[1] ELSE <<>>]
    BY <1>7 DEF ChunkRows, Rows, Tag
  <2>4. QED
    BY <1>2, <1>3, <1>6, <2>1, <2>2, <2>3
<1>20. \A i \in DOMAIN buf[e] : b[i] = buf[e][i]
  <2>1. PICK l \in Nat : l = pool[e].count /\ Array(buf[e], l)
    BY <1>4, <1>15
  <2>2. PICK j \in Nat : j = Within.pool.count - l
    BY <1>15, <1>16, <2>1
  <2>3. PICK new : new = [i \in 1 .. j |-> <<Junk>>] /\ Array(new, j)
    BY DEF Array
  <2>4. b = buf[e] \o new
    BY <1>2, <1>3, <1>8, <2>1, <2>2, <2>3 DEF Fresh
  <2>5. PICK T : T = {buf[e][i] : i \in 1 .. l} \cup {new[i] : i \in 1 .. j}
    OBVIOUS
  <2>6. buf[e] \in [1 .. l -> T] /\ new \in [1 .. j -> T]
    BY <2>1, <2>3, <2>5 DEF Array
  <2>7. buf[e] \in Seq(T) /\ new \in Seq(T) /\ DOMAIN buf[e] = 1 .. Len(buf[e])
    BY <2>6
  <2>8. \A i \in 1 .. Len(buf[e]) : (buf[e] \o new)[i] = buf[e][i]
    BY <2>7, Joining
  <2>9. QED
    BY <2>4, <2>7, <2>8
<1>21. Behindhand(queue[e], q, Copy(h.id), w, e # 1)
  <2>1. PICK S : S = Works(Within.pool.count) \cup {Copy(h.id)}
    OBVIOUS
  <2>2. queue[e] \in Seq(S) /\ w \in S /\ Copy(h.id) \in S
    <3>1. pool[e].count <= Within.pool.count
      BY <1>15, <1>16
    <3>2. Works(pool[e].count) \subseteq S
      BY <1>15, <2>1, <3>1, WorksGrow
    <3>3. queue[e] \in Seq(S)
      BY <1>4, <3>2
    <3>4. w \in Works(Within.pool.count)
      <4>1. PICK V : V = Works(Within.pool.count) /\ <<w>> \in Seq(V)
        BY <1>7, <1>15
      <4>2. w = <<w>>[1] /\ 1 \in 1 .. Len(<<w>>)
        OBVIOUS
      <4>3. QED
        BY <4>1, <4>2, ElementOfSeq
    <3>5. QED
      BY <2>1, <3>3, <3>4
  <2>3. PICK qe \in Seq(S), a \in S, z \in S : qe = queue[e] /\ a = Copy(h.id) /\ z = w
    BY <2>2
  <2>4. Behindhand(qe, qe \o <<a>> \o <<z>>, a, z, TRUE) /\ Behindhand(qe, qe \o <<>> \o <<z>>, a, z, FALSE)
    BY PutBehind
  <2>5. CASE e = 1
    <3>1. q = qe \o <<>> \o <<z>> /\ ~(e # 1)
      BY <1>2, <1>3, <1>10, <2>3, <2>5 DEF Input
    <3>2. QED
      BY <2>3, <2>4, <3>1 DEF Behindhand
  <2>6. CASE e # 1
    <3>1. q = qe \o <<a>> \o <<z>>
      BY <1>2, <1>3, <1>10, <2>3, <2>6 DEF Input
    <3>2. QED
      BY <2>3, <2>4, <2>6, <3>1 DEF Behindhand
  <2>7. QED
    BY <2>5, <2>6
<1>22. \A z \in HeldOn(e) \cup {h} : z.id \notin w.scratch
  BY <1>16, <1>19
<1>23. Sent(e, k, h, x, b, q, w)
  BY <1>1, <1>2, <1>3, <1>11, <1>12, <1>13, <1>14, <1>17, <1>18, <1>19, <1>20, <1>21, <1>22 DEF Sent
<1>24. QED
  BY <1>23

\* Where the work of the chunks is in a queue of length n, and where that of one
\* chunk more goes.
Places(s, r, k, n) ==
  /\ \A j \in r.done .. k - 1 : RowsAt(s, r, j) \in 1 .. n
  /\ RowsAt(s, r, k) = n + (IF s # 1 THEN 2 ELSE 1)
  /\ s > 1 => /\ \A j \in r.done + r.in .. k - 1 : CopyAt(r, j) \in 1 .. n
              /\ CopyAt(r, k) = n + 1
  /\ r.old + (IF s = 1 THEN (k + 1) - r.done ELSE 2 * ((k + 1) - r.done) - r.in)
       = n + (IF s # 1 THEN 2 ELSE 1)

LEMMA PlacesAre ==
  ASSUME NEW s \in Nat \ {0}, NEW r, NEW k \in Nat, r.old \in Nat, r.done \in 0 .. k, r.in \in 0 .. 1,
         s = 1 \/ r.done = k => r.in = 0,
         NEW n, n = r.old + (IF s = 1 THEN k - r.done ELSE 2 * (k - r.done) - r.in)
  PROVE  Places(s, r, k, n)
<1>1. PICK o \in Nat, d \in 0 .. k, i \in 0 .. 1 : o = r.old /\ d = r.done /\ i = r.in
  OBVIOUS
<1>2. PICK m \in Nat : m = k - d
  OBVIOUS
<1>3. CASE s = 1
  <2>1. n = o + m
    BY <1>1, <1>2, <1>3
  <2>2. \A j \in d .. k : RowsAt(s, r, j) = o + ((j - d) + 1)
    BY <1>1, <1>3 DEF RowsAt
  <2>3. \A j \in d .. k - 1 : RowsAt(s, r, j) \in 1 .. n
    BY <1>2, <2>1, <2>2
  <2>4. RowsAt(s, r, k) = n + 1
    BY <1>2, <2>1, <2>2
  <2>5. o + ((k + 1) - d) = n + 1
    <3>1. (k + 1) - d = m + 1
      BY <1>1, <1>2
    <3>2. QED
      BY <1>1, <1>2, <2>1, <3>1
  <2>6. QED
    BY <1>1, <1>3, <2>3, <2>4, <2>5 DEF Places
<1>4. CASE s # 1
  <2>1. n = o + (2 * m - i) /\ (d = k => i = 0)
    BY <1>1, <1>2, <1>4
  <2>2. /\ \A j \in d .. k : RowsAt(s, r, j) = o + (2 * (j - d) + 2 - i)
        /\ \A j \in d .. k : CopyAt(r, j) = o + 2 * (j - d) + 1 - i
    BY <1>1, <1>4 DEF RowsAt, CopyAt
  <2>3. ASSUME NEW j \in d .. k - 1
        PROVE  RowsAt(s, r, j) \in 1 .. n
    <3>1. PICK l \in 0 .. m - 1 : l = j - d
      BY <1>2
    <3>2. RowsAt(s, r, j) = o + (2 * l + 2 - i)
      BY <2>2, <3>1
    <3>3. QED
      BY <2>1, <3>2
  <2>4. ASSUME NEW j \in d + i .. k - 1
        PROVE  CopyAt(r, j) \in 1 .. n
    <3>1. PICK l \in i .. m - 1 : l = j - d
      BY <1>2
    <3>2. j \in d .. k
      OBVIOUS
    <3>3. CopyAt(r, j) = o + 2 * l + 1 - i
      BY <2>2, <3>1, <3>2
    <3>4. QED
      BY <2>1, <3>3
  <2>5. RowsAt(s, r, k) = n + 2 /\ CopyAt(r, k) = n + 1
    <3>1. RowsAt(s, r, k) = o + (2 * m + 2 - i) /\ CopyAt(r, k) = o + 2 * m + 1 - i
      BY <1>2, <2>2
    <3>2. QED
      BY <2>1, <3>1
  <2>6. o + (2 * ((k + 1) - d) - i) = n + 2
    <3>1. (k + 1) - d = m + 1
      BY <1>2
    <3>2. QED
      BY <2>1, <3>1
  <2>7. QED
    BY <1>1, <1>4, <2>3, <2>4, <2>5, <2>6 DEF Places
<1>5. QED
  BY <1>3, <1>4

\* A chunk more is enqueued on its stage, behind what is there.
OneMore(s, r, y, k, id) ==
  /\ y = Pos(r.old, r.done, r.in, Append(r.acts, id))
  /\ y.old = r.old /\ y.done = r.done /\ y.in = r.in
  /\ y.acts \in Seq(Nat \ {0}) /\ Len(y.acts) = k + 1 /\ Distinct(y.acts)
  /\ y.acts[k + 1] = id /\ \A i \in 1 .. k : y.acts[i] = r.acts[i]
  /\ \A j : RowsAt(s, y, j) = RowsAt(s, r, j) /\ CopyAt(y, j) = CopyAt(r, j)

LEMMA OneMoreIs ==
  ASSUME NEW s, NEW r, NEW k \in Nat, Lined(s, r, k), NEW id \in Nat \ {0},
         \A z \in HeldOn(s) : z.id # id
  PROVE  \E y : OneMore(s, r, y, k, id)
<1>1. PICK a \in Seq(Nat \ {0}) : a = r.acts /\ Len(a) = k /\ Distinct(a)
  BY DEF Lined
<1>2. PICK u : u = Append(a, id)
  OBVIOUS
<1>3. id \notin ToSet(a)
  <2>1. ToSet(a) = {a[i] : i \in 1 .. Len(a)}
    BY ToSetIs
  <2>2. \A i \in 1 .. k : a[i] # id
    BY <1>1 DEF Lined
  <2>3. QED
    BY <1>1, <2>1, <2>2
<1>4. /\ u \in Seq(Nat \ {0}) /\ Len(u) = Len(a) + 1 /\ u[Len(a) + 1] = id
      /\ \A i \in 1 .. Len(a) : u[i] = a[i]
      /\ (Distinct(a) /\ id \notin ToSet(a) => Distinct(u))
  <2>1. PICK T : T = Nat \ {0} /\ a \in Seq(T) /\ id \in T
    BY <1>1
  <2>2. /\ u \in Seq(T) /\ Len(u) = Len(a) + 1 /\ u[Len(a) + 1] = id
        /\ \A i \in 1 .. Len(a) : u[i] = a[i]
        /\ (Distinct(a) /\ id \notin ToSet(a) => Distinct(u))
    BY <1>2, <2>1, Appending
  <2>3. QED
    BY <2>1, <2>2
<1>5. PICK y : y = Pos(r.old, r.done, r.in, u)
  OBVIOUS
<1>6. y.old = r.old /\ y.done = r.done /\ y.in = r.in /\ y.acts = u
  BY <1>5 DEF Pos
<1>7. \A j : RowsAt(s, y, j) = RowsAt(s, r, j) /\ CopyAt(y, j) = CopyAt(r, j)
  BY <1>6 DEF RowsAt, CopyAt
<1>8. OneMore(s, r, y, k, id)
  BY <1>1, <1>2, <1>3, <1>4, <1>5, <1>6, <1>7 DEF OneMore
<1>9. QED
  BY <1>8

LEMMA SentLined ==
  ASSUME Accounts, NEW e \in 1 .. LastStage, NEW k \in Nat, NEW h, NEW x, NEW b, NEW q, NEW w,
         Sent(e, k, h, x, b, q, w), NEW r, Lined(e, r, k), NEW y, OneMore(e, r, y, k, h.id)
  PROVE  /\ Lined(e, y, k + 1)'
         /\ \A p : e > 1 /\ Linked(e, p, r, k) /\ prev = <<p.acts[k + 1]>> => Linked(e, p, y, k + 1)'
<1>1. /\ prompt' = prompt /\ served' = served /\ LastStage' = LastStage /\ d_logits' = d_logits
      /\ st'[e] = x /\ buf'[e] = b /\ queue'[e] = q
      /\ x.kinds = st[e].kinds /\ (\A c : Holds(st[e], c) => Holds(x, c))
      /\ (\A i \in DOMAIN buf[e] : b[i] = buf[e][i])
      /\ HeldOn(e)' = HeldOn(e) \cup {h} /\ k = step
  BY DEF Sent, Changed
<1>2. \A j : /\ Past(j)' = Past(j) /\ Piece(j)' = Piece(j) /\ RowsOf(j)' = RowsOf(j)
             /\ Behind(prompt, j)' = Behind(prompt, j)
  BY <1>1, ChunksKept
<1>3. e \in Nat \ {0} /\ queue[e] \in Seq(Works(pool[e].count))
  BY RigIs
<1>4. PICK n \in Nat : n = Len(queue[e])
  BY <1>3
<1>5. /\ r.old \in Nat /\ r.done \in 0 .. k /\ r.in \in 0 .. 1
      /\ (e = 1 \/ r.done = k => r.in = 0)
      /\ r.old > 0 => r.done = 0 /\ r.in = 0 /\ "linear" \notin st[e].kinds
      /\ \A i \in 1 .. k : \E z \in HeldOn(e) : z.id = r.acts[i]
      /\ n = r.old + (IF e = 1 THEN k - r.done ELSE 2 * (k - r.done) - r.in)
      /\ \A j \in r.done .. k - 1 : RowsDue(queue[e][RowsAt(e, r, j)], e, j, r.acts)
      /\ Holds(st[e], Past(r.done))
      /\ \A j \in 0 .. r.done + r.in - 1 : buf[e][r.acts[j + 1]] = RowsOf(j)
      /\ e = LastStage /\ r.done > 0 => d_logits = Past(r.done)
  BY <1>4 DEF Lined
<1>6. Places(e, r, k, n)
  BY <1>3, <1>5, PlacesAre
<1>7. /\ Len(q) = n + (IF e # 1 THEN 2 ELSE 1) /\ \A i \in 1 .. n : q[i] = queue[e][i]
      /\ q[n + (IF e # 1 THEN 2 ELSE 1)] = w /\ (e # 1 => q[n + 1] = Copy(h.id))
  BY <1>4 DEF Sent, Behindhand
<1>8. /\ y.old = r.old /\ y.done = r.done /\ y.in = r.in
      /\ y.acts \in Seq(Nat \ {0}) /\ Len(y.acts) = k + 1 /\ Distinct(y.acts)
      /\ y.acts[k + 1] = h.id /\ (\A i \in 1 .. k : y.acts[i] = r.acts[i])
      /\ \A j : RowsAt(e, y, j) = RowsAt(e, r, j) /\ CopyAt(y, j) = CopyAt(r, j)
  BY DEF OneMore
<1>9. ASSUME NEW j \in r.done .. k - 1
      PROVE  RowsDue(q[RowsAt(e, y, j)], e, j, y.acts)'
  <2>1. PICK z : z = queue[e][RowsAt(e, r, j)] /\ RowsDue(z, e, j, r.acts)
    BY <1>5
  <2>2. (q[RowsAt(e, y, j)])' = z
    <3>1. (q[RowsAt(e, y, j)])' = q[RowsAt(e, y, j)]
      BY DEF RowsAt
    <3>2. RowsAt(e, r, j) \in 1 .. n
      BY <1>6 DEF Places
    <3>3. QED
      BY <1>7, <1>8, <2>1, <3>1, <3>2
  <2>3. j \in Nat /\ j + 1 \in 1 .. k /\ \A i \in 1 .. j + 1 : i \in 1 .. k
    BY <1>5
  <2>4. RowsDue(z, e, j, y.acts)
    BY <1>8, <2>1, <2>3 DEF RowsDue
  <2>5. RowsDue(z, e, j, y.acts)'
    BY <1>1, <1>2, <2>4 DEF RowsDue
  <2>6. QED
    BY <2>2, <2>5
<1>10. RowsDue(q[RowsAt(e, y, k)], e, k, y.acts)'
  <2>1. (q[RowsAt(e, y, k)])' = w
    <3>1. (q[RowsAt(e, y, k)])' = q[RowsAt(e, y, k)]
      BY DEF RowsAt
    <3>2. RowsAt(e, y, k) = n + (IF e # 1 THEN 2 ELSE 1)
      BY <1>6, <1>8 DEF Places
    <3>3. QED
      BY <1>7, <3>1, <3>2
  <2>2. ASSUME NEW i \in 1 .. k + 1
        PROVE  y.acts[i] \notin w.scratch
    <3>1. CASE i = k + 1
      BY <1>8, <3>1 DEF Sent
    <3>2. CASE i # k + 1
      <4>1. i \in 1 .. k
        BY <3>2
      <4>2. PICK z \in HeldOn(e) : z.id = y.acts[i]
        BY <1>5, <1>8, <4>1
      <4>3. z \in HeldOn(e) \cup {h}
        BY <4>2
      <4>4. QED
        BY <4>2, <4>3 DEF Sent
    <3>3. QED
      BY <3>1, <3>2
  <2>3. /\ w.op = "rows" /\ w.tag = <<served, k>> /\ w.buf = y.acts[k + 1]
        /\ w.at = Behind(prompt, k) /\ (e = 1 => w.toks = Piece(k))
    BY <1>8 DEF Sent
  <2>4. RowsDue(w, e, k, y.acts)'
    BY <1>1, <1>2, <2>2, <2>3 DEF RowsDue
  <2>5. QED
    BY <2>1, <2>4
<1>11. Lined(e, y, k + 1)'
  <2>1. ASSUME NEW j \in y.done .. k
        PROVE  RowsDue(queue[e][RowsAt(e, y, j)], e, j, y.acts)'
    <3>1. j = k \/ j \in r.done .. k - 1
      BY <1>5, <1>8, <2>1
    <3>2. RowsDue(q[RowsAt(e, y, j)], e, j, y.acts)'
      BY <1>9, <1>10, <3>1
    <3>3. (queue[e][RowsAt(e, y, j)])' = (q[RowsAt(e, y, j)])'
      BY <1>1 DEF RowsAt
    <3>4. QED
      BY <3>2, <3>3
  <2>2. /\ y.old \in Nat /\ y.done \in 0 .. k + 1 /\ y.in \in 0 .. 1
        /\ (e = 1 \/ y.done = k + 1 => y.in = 0)
        /\ y.old > 0 => y.done = 0 /\ y.in = 0 /\ "linear" \notin st'[e].kinds
    BY <1>1, <1>5, <1>8
  <2>3. \A i \in 1 .. k + 1 : \E z \in HeldOn(e)' : z.id = y.acts[i]
    <3>1. ASSUME NEW i \in 1 .. k + 1
          PROVE  \E z \in HeldOn(e)' : z.id = y.acts[i]
      <4>1. i = k + 1 \/ i \in 1 .. k
        OBVIOUS
      <4>2. QED
        BY <1>1, <1>5, <1>8, <4>1
    <3>2. QED
      BY <3>1
  <2>4. Len(queue'[e]) = y.old + (IF e = 1 THEN (k + 1) - y.done ELSE 2 * ((k + 1) - y.done) - y.in)
    BY <1>1, <1>6, <1>7, <1>8 DEF Places
  <2>5. Holds(st'[e], Past(y.done)')
    BY <1>1, <1>2, <1>5, <1>8
  <2>6. ASSUME NEW j \in 0 .. y.done + y.in - 1
        PROVE  buf'[e][y.acts[j + 1]] = RowsOf(j)'
    <3>1. PICK d \in 0 .. k, i \in 0 .. 1 :
            d = r.done /\ i = r.in /\ (d = k => i = 0) /\ j \in 0 .. d + i - 1
      BY <1>5, <1>8
    <3>2. j \in 0 .. r.done + r.in - 1 /\ j + 1 \in 1 .. k
      BY <3>1
    <3>3. PICK a : a = r.acts[j + 1] /\ a \in DOMAIN buf[e] /\ buf[e][a] = RowsOf(j)
      BY <1>5, <3>2, ActIs
    <3>4. QED
      BY <1>1, <1>2, <1>8, <3>2, <3>3
  <2>7. e = LastStage' /\ y.done > 0 => d_logits' = Past(y.done)'
    BY <1>1, <1>2, <1>5, <1>8
  <2>8. (k + 1) - 1 = k
    OBVIOUS
  <2>9. QED
    BY <1>8, <2>1, <2>2, <2>3, <2>4, <2>5, <2>6, <2>7, <2>8 DEF Lined
<1>12. ASSUME NEW p, e > 1, Linked(e, p, r, k), prev = <<p.acts[k + 1]>>
       PROVE  Linked(e, p, y, k + 1)'
  <2>1. /\ \A j \in r.done + r.in .. k - 1 : CopyDue(queue[e][CopyAt(r, j)], j, p.acts, r.acts)
        /\ r.done + r.in <= p.done
    BY <1>12 DEF Linked
  <2>2. ASSUME NEW j \in y.done + y.in .. k
        PROVE  CopyDue(queue[e][CopyAt(y, j)], j, p.acts, y.acts)'
    <3>1. (queue[e][CopyAt(y, j)])' = q[CopyAt(r, j)]
      BY <1>1, <1>8 DEF CopyAt
    <3>2. CASE j = k
      <4>1. CopyAt(r, k) = n + 1 /\ e # 1
        BY <1>6, <1>12 DEF Places
      <4>2. q[CopyAt(r, k)] = Copy(h.id)
        BY <1>7, <4>1
      <4>3. PICK z : z = Copy(h.id) /\ (queue[e][CopyAt(y, j)])' = z
        BY <3>1, <3>2, <4>2
      <4>4. CopyDue(z, k, p.acts, y.acts)
        BY <1>1, <1>8, <1>12, <4>3 DEF CopyDue, Copy, Tag
      <4>5. CopyDue(z, k, p.acts, y.acts)'
        BY <1>1, <4>4 DEF CopyDue
      <4>6. QED
        BY <3>2, <4>3, <4>5
    <3>3. CASE j # k
      <4>1. j \in r.done + r.in .. k - 1 /\ j + 1 \in 1 .. k
        BY <1>5, <1>8, <2>2, <3>3
      <4>2. CopyAt(r, j) \in 1 .. n
        BY <1>6, <1>12, <4>1 DEF Places
      <4>3. PICK z : /\ z = queue[e][CopyAt(r, j)] /\ CopyDue(z, j, p.acts, r.acts)
                     /\ (queue[e][CopyAt(y, j)])' = z
        BY <1>7, <2>1, <3>1, <4>1, <4>2
      <4>4. CopyDue(z, j, p.acts, y.acts)
        BY <1>8, <4>1, <4>3 DEF CopyDue
      <4>5. CopyDue(z, j, p.acts, y.acts)'
        BY <1>1, <4>4 DEF CopyDue
      <4>6. QED
        BY <4>3, <4>5
    <3>4. QED
      BY <3>2, <3>3
  <2>3. y.done + y.in <= p.done /\ (k + 1) - 1 = k
    BY <1>8, <2>1
  <2>4. QED
    BY <2>2, <2>3 DEF Linked
<1>13. QED
  BY <1>11, <1>12

\* A chunk is enqueued behind what the stage has to do, and behind the same chunk on
\* the stage before.
LEMMA PrefillQueues ==
  ASSUME Accounts, Shaped, Queues, PrefillStage
  PROVE  Queues'
<1>1. PICK n \in Nat : n = LastStage /\ stage \in 1 .. n
  BY RigIs DEF Accounts, Desk, PrefillStage
<1>2. /\ pc = "prefill" /\ step \in Nat
      /\ Len(chunks) = Len(ChunksOf(prompt)) - step /\ Len(chunks) \in Nat \ {0}
      /\ Len(ChunksOf(prompt)) \in Nat
  BY ChunkDue, PastEnds DEF Accounts, Desk, PrefillStage, Serving
<1>3. PICK e, k, h, x, b, q, w : Sent(e, k, h, x, b, q, w)
  BY ChunkSent
<1>4. /\ e = stage /\ e \in 1 .. n /\ k = step /\ k \in Nat /\ LastStage' = n
      /\ prompt' = prompt /\ served' = served /\ d_logits' = d_logits
      /\ \A t \in 1 .. n : t # e => /\ st'[t] = st[t] /\ queue'[t] = queue[t] /\ buf'[t] = buf[t]
                                    /\ HeldOn(t)' = HeldOn(t)
      /\ prev' = <<h.id>> /\ h.id \in Nat \ {0} /\ \A z \in HeldOn(e) : z.id # h.id
  BY <1>1, <1>2, <1>3 DEF Sent, Changed
<1>5. PICK r : Queued(r)
  BY <1>2 DEF Queues
<1>6. \A t \in 1 .. n : Enq(t) \in Nat /\ Enq(t)' = IF t = e THEN k + 1 ELSE Enq(t)
  <2>1. CASE stage < LastStage
    <3>1. stage' = e + 1 /\ step' = k
      BY <1>4, <2>1 DEF PrefillStage
    <3>2. \A t \in 1 .. n : t < e + 1 <=> (t = e \/ t < e)
      BY <1>4
    <3>3. QED
      BY <1>4, <3>1, <3>2 DEF Enq
  <2>2. CASE ~(stage < LastStage)
    <3>1. stage' = 1 /\ step' = k + 1 /\ e = n
      BY <1>1, <1>4, <2>2 DEF PrefillStage
    <3>2. \A t \in 1 .. n : ~(t < 1) /\ (t # e => t < e)
      BY <3>1
    <3>3. QED
      BY <1>4, <3>1, <3>2 DEF Enq
  <2>3. QED
    BY <2>1, <2>2
<1>7. Enq(e) = k
  BY <1>4 DEF Enq
<1>8. PICK c, p : c = r[e] /\ p = r[e - 1]
  OBVIOUS
<1>9. Lined(e, c, k) /\ (e > 1 => Linked(e, p, c, k) /\ prev = <<p.acts[k + 1]>>)
  <2>1. e > 1 => e \in 2 .. n
    BY <1>4
  <2>2. QED
    BY <1>1, <1>2, <1>4, <1>5, <1>7, <1>8, <2>1 DEF Queued
<1>10. PICK y : OneMore(e, c, y, k, h.id)
  <2>1. PICK i \in Nat \ {0} : i = h.id
    BY <1>4
  <2>2. \E y : OneMore(e, c, y, k, i)
    BY <1>4, <1>9, <2>1, OneMoreIs
  <2>3. QED
    BY <2>1, <2>2
<1>11. Lined(e, y, k + 1)' /\ (e > 1 => Linked(e, p, y, k + 1)')
  <2>1. /\ Lined(e, y, k + 1)'
        /\ \A p_ : e > 1 /\ Linked(e, p_, c, k) /\ prev = <<p_.acts[k + 1]>> => Linked(e, p_, y, k + 1)'
    BY <1>1, <1>3, <1>4, <1>9, <1>10, SentLined
  <2>2. QED
    BY <1>9, <2>1
<1>12. PICK v : v = [t \in 1 .. n |-> IF t = e THEN y ELSE r[t]]
  OBVIOUS
<1>13. v[e] = y /\ \A t \in 1 .. n : t # e => v[t] = r[t]
  BY <1>4, <1>12
<1>14. ASSUME NEW t \in 1 .. n, t # e
       PROVE  /\ Lined(t, r[t], Enq(t))'
              /\ \A p_ : Linked(t, p_, r[t], Enq(t)) => Linked(t, p_, r[t], Enq(t))'
  <2>1. PICK g, z : g = Enq(t) /\ z = r[t]
    OBVIOUS
  <2>2. Lined(t, z, g) /\ Enq(t)' = g
    BY <1>1, <1>5, <1>6, <1>14, <2>1 DEF Queued
  <2>3. /\ st'[t] = st[t] /\ queue'[t] = queue[t] /\ buf'[t] = buf[t] /\ HeldOn(t)' = HeldOn(t)
        /\ (t = LastStage => d_logits' = d_logits) /\ LastStage' = LastStage
    BY <1>1, <1>4, <1>14
  <2>4. /\ Lined(t, z, g) => Lined(t, z, g)'
        /\ \A p_ : Linked(t, p_, z, g) => Linked(t, p_, z, g)'
    BY <1>4, <2>3, LinedKept
  <2>5. QED
    BY <2>1, <2>2, <2>4
<1>15. ASSUME NEW t \in 1 .. n
       PROVE  Lined(t, v[t], Enq(t))'
  <2>1. CASE t = e
    BY <1>6, <1>11, <1>13, <2>1
  <2>2. CASE t # e
    BY <1>13, <1>14, <2>2
  <2>3. QED
    BY <2>1, <2>2
<1>16. ASSUME NEW t \in 2 .. n
       PROVE  Linked(t, v[t - 1], v[t], Enq(t))'
  <2>1. t \in 1 .. n /\ t - 1 \in 1 .. n /\ t > 1 /\ t - 1 # t /\ Linked(t, r[t - 1], r[t], Enq(t))
    BY <1>1, <1>5 DEF Queued
  <2>2. CASE t = e
    <3>1. Linked(e, p, y, k + 1)' /\ v[t - 1] = p /\ v[t] = y /\ Enq(t)' = k + 1
      BY <1>6, <1>8, <1>11, <1>13, <2>1, <2>2
    <3>2. QED
      BY <2>2, <3>1
  <2>3. CASE t # e /\ t - 1 # e
    BY <1>13, <1>14, <2>1, <2>3
  <2>4. CASE t # e /\ t - 1 = e
    <3>1. PICK u, g : u = r[t] /\ g = Enq(t) /\ g \in Nat
      BY <1>6, <2>1
    <3>2. Linked(t, c, u, g)' /\ v[t] = u /\ v[t - 1] = y /\ Enq(t)' = g
      BY <1>6, <1>8, <1>13, <1>14, <2>1, <2>4, <3>1
    <3>3. g <= k
      <4>1. ~(t < e)
        BY <1>4, <2>1, <2>4
      <4>2. QED
        BY <1>4, <3>1, <4>1 DEF Enq
    <3>4. u.done \in Nat /\ u.in \in Nat
      <4>1. Lined(t, u, g)
        BY <1>1, <1>5, <2>1, <3>1 DEF Queued
      <4>2. QED
        BY <3>1, <4>1 DEF Lined
    <3>5. y.done = c.done /\ \A i \in 1 .. k : y.acts[i] = c.acts[i]
      BY <1>10 DEF OneMore
    <3>6. Linked(t, y, u, g)'
      <4>1. /\ \A j \in u.done + u.in .. g - 1 : CopyDue(queue[t][CopyAt(u, j)], j, c.acts, u.acts)'
            /\ u.done + u.in <= c.done
        BY <3>2 DEF Linked
      <4>2. ASSUME NEW j \in u.done + u.in .. g - 1
            PROVE  CopyDue(queue[t][CopyAt(u, j)], j, y.acts, u.acts)'
        <5>1. j + 1 \in 1 .. k
          BY <1>4, <3>1, <3>3, <3>4
        <5>2. CopyDue(queue[t][CopyAt(u, j)], j, c.acts, u.acts)' /\ y.acts[j + 1] = c.acts[j + 1]
          BY <3>5, <4>1, <5>1
        <5>3. QED
          BY <5>2 DEF CopyDue
      <4>3. QED
        BY <3>5, <4>1, <4>2 DEF Linked
    <3>7. QED
      BY <3>2, <3>6
  <2>5. QED
    BY <2>2, <2>3, <2>4
<1>17. CASE stage < LastStage
  <2>1. pc' = "prefill" /\ stage' = e + 1 /\ step' = k
    BY <1>2, <1>4, <1>17 DEF PrefillStage
  <2>2. prev' = <<v[stage' - 1].acts[step' + 1]>>
    <3>1. stage' - 1 = e
      BY <1>4, <2>1
    <3>2. y.acts[k + 1] = h.id
      BY <1>10 DEF OneMore
    <3>3. QED
      BY <1>4, <1>13, <2>1, <3>1, <3>2
  <2>3. Queued(v)'
    BY <1>4, <1>15, <1>16, <2>2 DEF Queued
  <2>4. QED
    BY <2>1, <2>3 DEF Queues
<1>18. CASE ~(stage < LastStage)
  <2>1. /\ pc' = (IF Len(chunks) = 1 THEN "prefilled" ELSE "prefill") /\ stage' = 1
        /\ step' = k + 1
    BY <1>4, <1>18 DEF PrefillStage
  <2>2. Queued(v)'
    <3>1. ~(stage' > 1)
      BY <2>1
    <3>2. QED
      BY <1>4, <1>15, <1>16, <3>1 DEF Queued
  <2>3. ChunksOf(prompt)' = ChunksOf(prompt)
    BY <1>1, <1>4, ChunksKept
  <2>4. CASE Len(chunks) = 1
    <3>1. pc' = "prefilled" /\ step' = Len(ChunksOf(prompt))
      <4>1. pc' = "prefilled" /\ step' = step + 1
        BY <1>4, <2>1, <2>4
      <4>2. PICK l \in Nat, a \in Nat : l = Len(ChunksOf(prompt)) /\ a = step
        BY <1>2
      <4>3. l - a = 1
        BY <1>2, <2>4, <4>2
      <4>4. l = a + 1
        BY <4>2, <4>3
      <4>5. QED
        BY <4>1, <4>2, <4>4
    <3>2. QED
      BY <2>2, <2>3, <3>1 DEF Queues
  <2>5. CASE Len(chunks) # 1
    <3>1. pc' = "prefill"
      BY <2>1, <2>5
    <3>2. QED
      BY <2>2, <3>1 DEF Queues
  <2>6. QED
    BY <2>4, <2>5
<1>19. QED
  BY <1>17, <1>18

\* Where nothing happens, the queues stay in order.
LEMMA StutterQueues ==
  ASSUME Accounts, Shaped, Queues, UNCHANGED vars
  PROVE  Shaped' /\ Queues'
<1>1. /\ LastStage' = LastStage /\ prompt' = prompt /\ out' = out /\ served' = served /\ step' = step
      /\ pc' = pc /\ stage' = stage /\ logits' = logits /\ graph' = graph /\ prev' = prev
      /\ st' = st /\ queue' = queue /\ buf' = buf /\ hidden_a' = hidden_a /\ d_pos' = d_pos
      /\ d_logits' = d_logits /\ \A s : HeldOn(s)' = HeldOn(s)
  BY KeptOn DEF vars, host, device, LastStage
<1>2. Shaped'
  BY <1>1 DEF Shaped
<1>3. /\ Whole' = Whole /\ Before' = Before /\ Tag' = Tag /\ ChunksOf(prompt)' = ChunksOf(prompt)
      /\ \A s : Enq(s)' = Enq(s)
  <2>1. Whole' = Whole /\ Before' = Before
    BY <1>1, WholeKept
  <2>2. ChunksOf(prompt)' = ChunksOf(prompt)
    BY <1>1, ChunksKept
  <2>3. Tag' = Tag /\ \A s : Enq(s)' = Enq(s)
    BY <1>1 DEF Tag, Enq
  <2>4. QED
    BY <2>1, <2>2, <2>3
<1>4. \A s, g : InFlight(s, g) => InFlight(s, g)'
  BY <1>1, InFlightKept
<1>5. \A s, r, e : /\ Lined(s, r, e) => Lined(s, r, e)'
                   /\ \A p : Linked(s, p, r, e) => Linked(s, p, r, e)'
  BY <1>1, LinedKept
<1>6. \A r : Queued(r) => Queued(r)'
  <2>1. ASSUME NEW r, Queued(r)
        PROVE  Queued(r)'
    <3>1. ASSUME NEW s \in 1 .. LastStage
          PROVE  Lined(s, r[s], Enq(s))'
      <4>1. PICK c, e : c = r[s] /\ e = Enq(s)
        OBVIOUS
      <4>2. Lined(s, c, e)
        BY <2>1, <4>1 DEF Queued
      <4>3. Lined(s, c, e)'
        BY <1>5, <4>2
      <4>4. QED
        BY <1>3, <4>1, <4>3
    <3>2. ASSUME NEW s \in 2 .. LastStage
          PROVE  Linked(s, r[s - 1], r[s], Enq(s))'
      <4>1. PICK c, e, p : c = r[s] /\ e = Enq(s) /\ p = r[s - 1]
        OBVIOUS
      <4>2. Linked(s, p, c, e)
        BY <2>1, <4>1 DEF Queued
      <4>3. Linked(s, p, c, e)'
        BY <1>5, <4>2
      <4>4. QED
        BY <1>3, <4>1, <4>3
    <3>3. QED
      BY <1>1, <2>1, <3>1, <3>2 DEF Queued
  <2>2. QED
    BY <2>1
<1>7. \A s : /\ Clear(s)' = Clear(s) /\ Due(s)' = Due(s)
             /\ Rested(s, Whole)' = Rested(s, Whole) /\ Rested(s, Before)' = Rested(s, Before)
  BY <1>1, <1>3 DEF Clear, Due, Rested
<1>8. CASE pc \in {"plan", "built", "refused", "idle"}
  <2>1. pc' \in {"plan", "built", "refused", "idle"}
    BY <1>1, <1>8
  <2>2. QED
    BY <1>2, <2>1 DEF Queues
<1>9. CASE pc \in {"prefill", "prefilled"}
  <2>1. PICK r : Queued(r)
    BY <1>9 DEF Queues
  <2>2. Queued(r)'
    BY <1>6, <2>1
  <2>3. pc = "prefilled" => step' = Len(ChunksOf(prompt))'
    BY <1>1, <1>3 DEF Queues
  <2>4. pc' \in {"prefill", "prefilled"} /\ (pc' = "prefilled" => step' = Len(ChunksOf(prompt))')
    BY <1>1, <1>9, <2>3
  <2>5. QED
    BY <1>2, <2>2, <2>4 DEF Queues
<1>10. CASE pc \in {"reset", "capture", "sample"} \/ (pc = "deliver" /\ ~graph)
  <2>1. CASE pc = "reset"
    <3>1. \A s \in 1 .. stage - 1 : Clear(s)'
      BY <1>7, <2>1 DEF Queues
    <3>2. pc' = "reset" /\ stage' = stage
      BY <1>1, <2>1
    <3>3. QED
      BY <1>2, <3>1, <3>2 DEF Queues
  <2>2. CASE pc \in {"capture", "sample"}
    <3>1. logits = Whole /\ \A s \in 1 .. LastStage : Rested(s, Whole)'
      BY <1>7, <2>2 DEF Queues
    <3>2. pc' \in {"capture", "sample"} /\ logits' = Whole' /\ LastStage' = LastStage
      BY <1>1, <1>3, <2>2, <3>1
    <3>3. QED
      BY <1>2, <3>1, <3>2 DEF Queues
  <2>3. CASE pc = "deliver" /\ ~graph
    <3>1. \A s \in 1 .. LastStage : Rested(s, Before)'
      BY <1>7, <2>3 DEF Queues
    <3>2. pc' = "deliver" /\ ~graph' /\ LastStage' = LastStage
      BY <1>1, <2>3
    <3>3. QED
      BY <1>2, <3>1, <3>2 DEF Queues
  <2>4. QED
    BY <1>10, <2>1, <2>2, <2>3
<1>11. CASE pc = "launch"
  <2>1. \A s \in 1 .. LastStage : IF s < stage THEN InFlight(s, Tag)' ELSE Due(s)'
    <3>1. ASSUME NEW s \in 1 .. LastStage
          PROVE  IF s < stage THEN InFlight(s, Tag)' ELSE Due(s)'
      <4>1. CASE s < stage
        <5>1. PICK g : g = Tag
          OBVIOUS
        <5>2. InFlight(s, g)
          BY <1>11, <4>1, <5>1 DEF Queues
        <5>3. InFlight(s, g)'
          BY <1>4, <5>2
        <5>4. QED
          BY <1>3, <4>1, <5>1, <5>3
      <4>2. CASE ~(s < stage)
        BY <1>7, <1>11, <4>2 DEF Queues
      <4>3. QED
        BY <4>1, <4>2
    <3>2. QED
      BY <3>1
  <2>2. (out' = <<>> => Len(prompt') = 1) /\ (stage' > 1 => prev' = <<HiddenA>>)
    BY <1>1, <1>11 DEF Queues
  <2>3. HiddenA' = HiddenA
    BY DEF HiddenA
  <2>4. pc' = "launch" /\ stage' = stage /\ LastStage' = LastStage
    BY <1>1, <1>11
  <2>5. QED
    BY <1>2, <2>1, <2>2, <2>3, <2>4 DEF Queues
<1>12. CASE (pc = "deliver" /\ graph) \/ pc = "finish"
  <2>1. PICK g : \A s \in 1 .. LastStage : InFlight(s, g)
    BY <1>12 DEF Queues
  <2>2. \A s \in 1 .. LastStage : InFlight(s, g)'
    BY <1>4, <2>1
  <2>3. ((pc' = "deliver" /\ graph') \/ pc' = "finish") /\ LastStage' = LastStage
    BY <1>1, <1>12
  <2>4. QED
    BY <1>2, <2>2, <2>3 DEF Queues
<1>13. pc \in Where
  BY DEF Accounts, Desk
<1>14. QED
  BY <1>2, <1>8, <1>9, <1>10, <1>11, <1>12, <1>13 DEF Where

-----------------------------------------------------------------------------
(* The theorems                                                             *)

\* The invariant holds whatever is done.
LEMMA Invariance == Spec => []Accounts
<1>1. Accounts /\ [Next]_vars => Accounts'
  <2>1. SUFFICES ASSUME Accounts, [Next]_vars
                 PROVE  Accounts'
    OBVIOUS
  <2>2. CASE UNCHANGED vars
    BY <2>1, <2>2, StutterCounts
  <2>3. CASE Served
    BY <2>1, <2>3, StutterCounts DEF Served
  <2>4. CASE \E s \in Stages : Exec(s)
    BY <2>1, <2>4, ExecCounts
  <2>5. CASE Host
    <3>1. CASE Build \/ BuildFails \/ Start \/ Reset
      BY <2>1, <3>1, BuildCounts, BuildFailsCounts, StartCounts, ResetCounts
    <3>2. CASE PrefillStage \/ Prefilled \/ FailPrefill
      BY <2>1, <3>2, PrefillStageCounts, PrefilledCounts, FailPrefillCounts
    <3>3. CASE Capture \/ FailCapture \/ FailStuck
      BY <2>1, <3>3, CaptureCounts, FailCaptureCounts, FailStuckCounts
    <3>4. CASE Sample \/ Finish \/ Deliver \/ Disconnect
      BY <2>1, <3>4, SampleCounts, FinishCounts, DeliverCounts
    <3>5. CASE LaunchStage \/ DecodeFinish \/ FailLaunch
      BY <2>1, <3>5, LaunchStageCounts, DecodeFinishCounts, FailLaunchCounts
    <3>6. QED
      BY <2>5, <3>1, <3>2, <3>3, <3>4, <3>5 DEF Host
  <2>6. QED
    BY <2>1, <2>2, <2>3, <2>4, <2>5 DEF Next
<1>2. QED
  BY <1>1, InitCounts, PTL DEF Spec

\* No stage runs past the end of its caches, even where its rows and its positions
\* are counted apart, and its work names only buffers it has.
THEOREM WithinCaches == Spec => []TypeOK
<1>1. ASSUME Accounts
      PROVE  TypeOK
  <2>1. PICK n \in Nat : n = LastStage
    BY <1>1 DEF Accounts, Rig
  <2>2. /\ Array(st, n) /\ Array(buf, n) /\ Array(queue, n)
        /\ \A s \in 1 .. n : Fine(st[s], buf[s], queue[s], pool[s], HeldOn(s), Most)
    BY <1>1, <2>1 DEF Accounts, Rig
  <2>3. Stages = 1 .. n
    BY <2>2, ArrayIs DEF Stages
  <2>4. pc \in Where /\ (pc \notin {"plan", "refused"} => stage \in Stages)
    BY <1>1, <2>1, <2>3 DEF Accounts, Desk
  <2>5. ASSUME NEW s \in 1 .. n
        PROVE  /\ st[s].len <= MaxSeq /\ st[s].pos <= MaxSeq
               /\ pool[s].count = Len(buf[s])
               /\ \A i \in DOMAIN queue[s] :
                    /\ queue[s][i].op = "rows" => queue[s][i].buf \in DOMAIN buf[s]
                    /\ queue[s][i].op = "copy" => queue[s][i].dst \in {HiddenA} \cup DOMAIN buf[s]
    <3>1. PICK k \in Nat : k = pool[s].count
      BY <2>2 DEF Fine, Owned
    <3>2. StageRecord(st[s]) /\ Array(buf[s], k) /\ queue[s] \in Seq(Works(k))
      BY <2>2, <3>1 DEF Fine
    <3>3. st[s].len <= MaxSeq /\ st[s].pos <= MaxSeq
      BY <3>2, PipelineAssumption DEF StageRecord
    <3>4. Len(buf[s]) = k /\ DOMAIN buf[s] = 1 .. k
      BY <3>2, ArrayIs
    <3>5. ASSUME NEW i \in DOMAIN queue[s]
          PROVE  /\ queue[s][i].op = "rows" => queue[s][i].buf \in DOMAIN buf[s]
                 /\ queue[s][i].op = "copy" => queue[s][i].dst \in {HiddenA} \cup DOMAIN buf[s]
      <4>1. queue[s][i] \in Works(k)
        BY <3>2
      <4>2. /\ queue[s][i].op = "rows" => queue[s][i].buf \in 1 .. k
            /\ queue[s][i].op = "copy" => queue[s][i].dst \in 0 .. k
        BY <4>1 DEF Works
      <4>3. 0 .. k = {0} \cup 1 .. k
        OBVIOUS
      <4>4. QED
        BY <3>4, <4>2, <4>3 DEF HiddenA
    <3>6. QED
      BY <3>1, <3>3, <3>4, <3>5
  <2>6. QED
    BY <2>3, <2>4, <2>5 DEF TypeOK
<1>2. QED
  BY <1>1, Invariance, PTL

\* DeviceBufPool: whatever was served and whatever failed, every buffer of a stage is
\* free or kept for a prefill, never both and never lost, and there are no more of a
\* size than one prompt's chunks and one chunk's work hold.
THEOREM NoneLost == Spec => []PoolExact
<1>1. ASSUME Accounts
      PROVE  PoolExact
  <2>1. PICK n \in Nat : n = LastStage /\ Stages = 1 .. n
    BY <1>1, ArrayIs DEF Accounts, Rig, Stages
  <2>2. ASSUME NEW s \in Stages
        PROVE  Kept /\ Owned(pool[s], HeldOn(s)) /\ Bounded(Made(pool[s], HeldOn(s)), Most)
    BY <1>1, <2>1 DEF Accounts, Rig, Desk, Fine
  <2>3. QED
    BY <2>2, ExactIs DEF PoolExact
<1>2. QED
  BY <1>1, Invariance, PTL

\* What the stages have seen, and what waits for them, whatever is done.
LEMMA InOrder == Spec => [](Accounts /\ Shaped /\ Queues)
<1>1. Init => Shaped /\ Queues
  BY DEF Init, Shaped, Queues
<1>2. Accounts /\ Shaped /\ Queues /\ [Next]_vars => Shaped' /\ Queues'
  <2>1. SUFFICES ASSUME Accounts, Shaped, Queues, [Next]_vars
                 PROVE  Shaped' /\ Queues'
    OBVIOUS
  <2>2. CASE UNCHANGED vars
    BY <2>1, <2>2, StutterQueues
  <2>3. CASE Served
    BY <2>1, <2>3, StutterQueues DEF Served
  <2>4. CASE \E s \in Stages : Exec(s)
    <3>1. PICK s \in 1 .. LastStage : Exec(s)
      BY <2>1, <2>4, RigIs
    <3>2. QED
      BY <2>1, <3>1, ShapedExec, QueuesExec
  <2>5. CASE Host
    <3>1. CASE \/ Build \/ BuildFails \/ Start \/ Finish \/ Disconnect
               \/ FailPrefill \/ FailCapture \/ FailLaunch \/ FailStuck
      <4>1. pc' \in {"idle", "built", "refused"} \/ (pc' = "reset" /\ stage' = 1)
        BY <3>1 DEF Build, BuildFails, Start, Finish, Disconnect, FailPrefill, FailCapture,
                    FailLaunch, FailStuck, Over
      <4>2. QED
        BY <2>1, <2>5, <4>1, NoQueues, ShapedHost
    <3>2. CASE Reset \/ PrefillStage \/ Prefilled \/ Capture
      BY <2>1, <2>5, <3>2, ShapedHost, ResetQueues, PrefillQueues, PrefilledQueues, CaptureQueues
    <3>3. CASE Sample \/ Deliver \/ LaunchStage \/ DecodeFinish
      BY <2>1, <2>5, <3>3, ShapedHost, SampleQueues, DeliverQueues, LaunchQueues, DecodeFinishQueues
    <3>4. QED
      BY <2>5, <3>1, <3>2, <3>3 DEF Host
  <2>6. QED
    BY <2>1, <2>2, <2>3, <2>4, <2>5 DEF Next
<1>3. QED
  BY <1>1, <1>2, Invariance, PTL DEF Spec

\* The logits a token is picked from come from exactly the prompt and the output so
\* far, for every split, every prompt and every length, whatever the devices had left
\* of requests that failed or were abandoned and in whatever order the stages work.
THEOREM OwnContext == Spec => []ContextExact
<1>1. ASSUME Accounts, Shaped, Queues
      PROVE  ContextExact
  BY <1>1 DEF ContextExact, Queues, Whole
<1>2. QED
  BY <1>1, InOrder, PTL
-----------------------------------------------------------------------------
(* The buffers of a capture                                                 *)

\* The buffers of the working size that a first, uncaptured chunk leaves behind.
Need == Inner + (IF H = K THEN 3 ELSE 0)
Enough(w, p, h) == \A n \in w : n * K \in Nat /\ Need <= Cardinality(OfSize(Made(p, h), n * K))
Stocked ==
  /\ Array(warm, LastStage)
  /\ \A s \in 1 .. LastStage : Enough(warm[s], pool[s], HeldOn(s))

\* Some of finitely many buffers.
LEMMA SizeFinite ==
  ASSUME NEW A, IsFiniteSet(A), NEW size
  PROVE  IsFiniteSet(OfSize(A, size)) /\ Cardinality(OfSize(A, size)) \in Nat
<1>1. OfSize(A, size) \subseteq A
  BY DEF OfSize
<1>2. QED
  BY <1>1, FS_Subset, FS_CardinalityType

\* Buffers that have been made stay: there is still enough.
LEMMA EnoughStays ==
  ASSUME NEW w, NEW p, NEW h, Enough(w, p, h), NEW q, NEW g, Owned(p, h), Owned(q, g),
         Made(p, h) \subseteq Made(q, g)
  PROVE  Enough(w, q, g)
<1>1. ASSUME NEW n \in w
      PROVE  Need <= Cardinality(OfSize(Made(q, g), n * K))
  <2>1. PICK A : A = Made(p, h) /\ IsFiniteSet(A)
    BY MadeFinite
  <2>2. PICK B : B = Made(q, g) /\ IsFiniteSet(B)
    BY MadeFinite
  <2>3. PICK z : z = n * K
    OBVIOUS
  <2>4. OfSize(A, z) \subseteq OfSize(B, z)
    BY <2>1, <2>2 DEF OfSize
  <2>5. /\ IsFiniteSet(OfSize(B, z)) /\ Cardinality(OfSize(B, z)) \in Nat
        /\ Cardinality(OfSize(A, z)) \in Nat
    BY <2>1, <2>2, SizeFinite
  <2>6. Cardinality(OfSize(A, z)) <= Cardinality(OfSize(B, z))
    BY <2>4, <2>5, FS_Subset
  <2>7. Need <= Cardinality(OfSize(A, z))
    BY <2>1, <2>3 DEF Enough
  <2>8. Need \in Nat
    BY PipelineAssumption DEF Need
  <2>9. QED
    BY <2>2, <2>3, <2>5, <2>6, <2>7, <2>8
<1>2. QED
  BY <1>1 DEF Enough

\* Nothing in the pools has changed.
LEMMA StockKept ==
  ASSUME Stocked, pool' = pool, warm' = warm, LastStage' = LastStage,
         \A s \in 1 .. LastStage : HeldOn(s)' = HeldOn(s)
  PROVE  Stocked'
BY DEF Stocked

\* drop(held): what was kept is free, and still there.
LEMMA DroppedStock ==
  ASSUME Kept, NEW q, NEW n \in Nat, n = LastStage, LastStage' = n, Stages = 1 .. n,
         Array(warm', n),
         \A s \in 1 .. n : Owned(q[s], HeldOn(s)) /\ Enough(warm'[s], q[s], HeldOn(s)),
         pool' = Dropped(q), held' = <<>>
  PROVE  Stocked'
<1>1. ASSUME NEW s \in 1 .. n
      PROVE  Enough(warm'[s], pool'[s], HeldOn(s)')
  <2>1. GivenTo(q[s], {}, HeldOn(s), Dropped(q)[s])
    BY DroppedIs
  <2>2. PICK p, h, d, w : p = q[s] /\ h = HeldOn(s) /\ d = Dropped(q)[s] /\ w = warm'[s]
    OBVIOUS
  <2>3. Owned(d, {}) /\ Made(d, {}) = Made(p, {} \cup h)
    BY <2>1, <2>2 DEF GivenTo
  <2>4. {} \cup h = h
    OBVIOUS
  <2>5. HeldOn(s)' = {} /\ pool'[s] = d
    BY <2>2, NothingKept
  <2>6. Owned(p, h) /\ Enough(w, p, h)
    BY <2>2
  <2>7. Enough(w, d, {})
    BY <2>3, <2>4, <2>6, EnoughStays
  <2>8. QED
    BY <2>2, <2>5, <2>7
<1>2. QED
  BY <1>1 DEF Stocked

\* A chunk is enqueued: its stage is warm for its length, with the buffers for it.
LEMMA PrefillStock ==
  ASSUME Accounts, Stocked, PrefillStage, Accounts'
  PROVE  Stocked'
<1>1. PICK n \in Nat : n = LastStage /\ stage \in 1 .. n /\ pc = "prefill"
  BY DEF Accounts, Rig, Desk, PrefillStage
<1>2. PICK e \in 1 .. n : e = stage
  BY <1>1
<1>3. PICK m \in Nat : m = Len(chunks[1]) /\ m # 0
  BY <1>1, ChunkDue
<1> DEFINE ba == [id |-> Outer.ids[1], size |-> m * H]
           u == HeldOn(e)
<1>4. Chunked(pool[e], u, m * H, m * K, Outer, Within, GivenBack, AllBack, OuterBack) /\ IsFiniteSet(u)
  BY <1>1, <1>2, <1>3, ChunkTaken
<1>5. /\ ba \in Buffer /\ ba \notin u /\ Made(GivenBack, u \cup {ba}) = Made(AllBack, u)
      /\ Made(pool[e], u) \subseteq Made(AllBack, u)
      /\ Inner + (IF m * H = m * K THEN 3 ELSE 0) <= Cardinality(OfSize(Made(AllBack, u), m * K))
  BY <1>4 DEF Chunked
<1>6. /\ pool' = [pool EXCEPT ![e] = GivenBack] /\ warm' = [warm EXCEPT ![e] = @ \cup {m}]
      /\ held' = Append(held, [stage |-> e, buf |-> ba])
  BY <1>2, <1>3 DEF PrefillStage
<1>7. Array(pool, n) /\ Array(warm, n) /\ Kept
      /\ \A s \in 1 .. n : Owned(pool[s], HeldOn(s)) /\ Enough(warm[s], pool[s], HeldOn(s))
  BY <1>1 DEF Accounts, Rig, Desk, Fine, Stocked
<1>8. HeldOn(e)' = u \cup {ba} /\ \A t : t # e => HeldOn(t)' = HeldOn(t)
  <2>1. PICK b \in Buffer : b = ba /\ b \notin u /\ held' = Append(held, [stage |-> e, buf |-> b])
    BY <1>5, <1>6
  <2>2. e \in Nat
    BY <1>2
  <2>3. HeldOn(e)' = HeldOn(e) \cup {b} /\ \A t : t # e => HeldOn(t)' = HeldOn(t)
    BY <1>4, <1>7, <2>1, <2>2, KeepsOne
  <2>4. QED
    BY <2>1, <2>3
<1>9. PICK k, w : k = GivenBack /\ w = warm[e] \cup {m}
  OBVIOUS
<1>10. Changed(pool, pool', n, e, k) /\ Changed(warm, warm', n, e, w)
  BY <1>6, <1>7, <1>9, ChangedIs
<1>11. n = LastStage' /\ \A s \in 1 .. n : Owned(pool'[s], HeldOn(s)')
  <2>1. LastStage' = LastStage
    <3>1. Array(st, n) /\ st' = [st EXCEPT ![e] = Moved(@, m, m)]
      BY <1>1, <1>2, <1>3 DEF Accounts, Rig, PrefillStage
    <3>2. PICK x : x = Moved(st[e], m, m)
      OBVIOUS
    <3>3. Changed(st, st', n, e, x)
      BY <3>1, <3>2, ChangedIs
    <3>4. QED
      BY <1>1, <3>1, <3>3, ArrayIs DEF Changed, LastStage
  <2>2. QED
    BY <1>1, <2>1 DEF Accounts, Rig, Fine
<1>12. ASSUME NEW s \in 1 .. n
       PROVE  Enough(warm'[s], pool'[s], HeldOn(s)')
  <2>1. CASE s # e
    BY <1>7, <1>8, <1>10, <2>1 DEF Changed
  <2>2. CASE s = e
    <3>1. PICK p, q, g, v : p = pool[e] /\ q = GivenBack /\ g = HeldOn(e)' /\ v = warm[e]
      OBVIOUS
    <3>2. /\ Enough(v, p, u) /\ Owned(p, u) /\ Owned(q, g) /\ Made(q, g) = Made(AllBack, u)
          /\ Made(p, u) \subseteq Made(q, g)
      BY <1>5, <1>7, <1>8, <1>9, <1>10, <1>11, <3>1 DEF Changed
    <3>3. Enough(v, q, g)
      BY <3>2, EnoughStays
    <3>4. m * K \in Nat /\ m * H \in Nat /\ (H = K => m * H = m * K)
      BY <1>3, PipelineAssumption
    <3>5. Need <= Cardinality(OfSize(Made(q, g), m * K))
      <4>1. PICK c \in Nat : c = Cardinality(OfSize(Made(q, g), m * K))
        BY <3>2, MadeFinite, SizeFinite
      <4>2. Inner + (IF m * H = m * K THEN 3 ELSE 0) <= c
        BY <1>5, <3>2, <4>1
      <4>3. Inner \in Nat
        BY PipelineAssumption
      <4>4. Need <= c
        BY <3>4, <4>2, <4>3 DEF Need
      <4>5. QED
        BY <4>1, <4>4
    <3>6. Enough(v \cup {m}, q, g)
      BY <3>3, <3>4, <3>5 DEF Enough
    <3>7. QED
      BY <1>9, <1>10, <2>2, <3>1, <3>6 DEF Changed
  <2>3. QED
    BY <2>1, <2>2
<1>13. QED
  BY <1>10, <1>11, <1>12 DEF Stocked, Changed

\* A call of a prefill fails: the buffers it had made are free.
LEMMA FailPrefillStock ==
  ASSUME Accounts, Stocked, FailPrefill, Accounts'
  PROVE  Stocked'
<1>1. PICK n \in Nat : n = LastStage /\ stage \in 1 .. n /\ pc = "prefill"
  BY DEF Accounts, Rig, Desk, FailPrefill
<1>2. PICK e \in 1 .. n : e = stage
  BY <1>1
<1>3. PICK m \in Nat : m = Len(chunks[1])
  BY <1>1, ChunkDue
<1> DEFINE u == HeldOn(e)
<1>4. Chunked(pool[e], u, m * H, m * K, Outer, Within, GivenBack, AllBack, OuterBack)
  BY <1>1, <1>2, <1>3, ChunkTaken
<1>5. PICK given, warmed, work :
        /\ Failing(given, warmed, work, m)
        /\ pool' = Dropped([pool EXCEPT ![e] = given]) /\ warm' = [warm EXCEPT ![e] = @ \cup warmed]
  <2>1. PICK given, open, warmed, work : \E rows \in {0, m} :
          PrefillLeft(given, open, warmed, rows, work) /\ Failing(given, warmed, work, m)
    BY <1>3, FailPrefillIs
  <2>2. QED
    BY <1>2, <2>1 DEF PrefillLeft
<1>6. /\ Owned(given, u) /\ Made(pool[e], u) \subseteq Made(given, u)
      /\ held' = <<>> /\ (given = OuterBack \/ given = AllBack)
  <2>1. /\ Owned(AllBack, u) /\ Owned(OuterBack, u) /\ Made(pool[e], u) \subseteq Made(OuterBack, u)
        /\ Made(OuterBack, u) \subseteq Made(AllBack, u)
    BY <1>4 DEF Chunked
  <2>2. given = OuterBack \/ given = AllBack
    BY <1>5 DEF Failing
  <2>3. QED
    BY <2>1, <2>2 DEF FailPrefill, Over
<1>7. /\ Array(pool, n) /\ Array(warm, n) /\ Kept /\ Rig
      /\ \A s \in 1 .. n : Owned(pool[s], HeldOn(s)) /\ Enough(warm[s], pool[s], HeldOn(s))
  BY <1>1 DEF Accounts, Rig, Desk, Fine, Stocked
<1> DEFINE q == [pool EXCEPT ![e] = given]
<1>8. PICK v : v = warm[e] \cup warmed
  OBVIOUS
<1>9. Changed(pool, q, n, e, given) /\ Changed(warm, warm', n, e, v)
  BY <1>5, <1>7, <1>8, ChangedIs
<1>10. Enough(v, given, u)
  <2>1. PICK p, w : p = pool[e] /\ w = warm[e]
    OBVIOUS
  <2>2. Enough(w, given, u)
    BY <1>6, <1>7, <2>1, EnoughStays
  <2>3. CASE warmed = {}
    BY <1>8, <2>1, <2>2, <2>3
  <2>4. CASE warmed # {}
    <3>1. given = AllBack /\ warmed = {m}
      BY <1>5, <2>4 DEF Failing
    <3>2. m * K \in Nat /\ m * H \in Nat /\ (H = K => m * H = m * K) /\ Inner \in Nat
      BY <1>3, PipelineAssumption
    <3>3. PICK c \in Nat : c = Cardinality(OfSize(Made(given, u), m * K))
      BY <1>6, MadeFinite, SizeFinite
    <3>4. Inner + (IF m * H = m * K THEN 3 ELSE 0) <= c
      BY <1>4, <3>1, <3>3 DEF Chunked
    <3>5. Need <= c
      BY <3>2, <3>4 DEF Need
    <3>6. QED
      BY <1>8, <2>1, <2>2, <3>1, <3>2, <3>3, <3>5 DEF Enough
  <2>5. QED
    BY <2>3, <2>4
<1> HIDE DEF q
<1>11. \A s \in 1 .. n : Owned(q[s], HeldOn(s)) /\ Enough(warm'[s], q[s], HeldOn(s))
  BY <1>6, <1>7, <1>9, <1>10 DEF Changed
<1>12. LastStage' = n
  <2>1. Array(st, n) /\ stage \in 1 .. n
    BY <1>1 DEF Accounts, Rig
  <2>2. PICK x : st' = [st EXCEPT ![stage] = x]
    BY FailPrefillIs DEF PrefillLeft
  <2>3. Changed(st, st', n, stage, x)
    BY <2>1, <2>2, ChangedIs
  <2>4. QED
    BY <2>3, ArrayIs DEF Changed, LastStage
<1>13. pool' = Dropped(q) /\ Stages = 1 .. n
  BY <1>1, <1>5, <1>7, ArrayIs DEF q, Rig, Stages
<1>14. QED
  BY <1>1, <1>6, <1>7, <1>9, <1>11, <1>12, <1>13, DroppedStock DEF Changed

\* A stage that has just been built is warm for nothing.
LEMMA BuildStock ==
  ASSUME Accounts, Build
  PROVE  Stocked'
<1>1. PICK n \in Nat \ {0} : n = plan.devices
  BY PipelineAssumption DEF Accounts, Desk, Build
<1>2. DOMAIN Layout = 1 .. n
  BY <1>1 DEF Layout, KindsOf
<1>3. Array(st', n) /\ Array(warm', n) /\ \A s \in 1 .. n : warm'[s] = {}
  BY <1>2 DEF Build, Array
<1>4. LastStage' = n
  BY <1>3, ArrayIs DEF LastStage
<1>5. QED
  BY <1>3, <1>4 DEF Stocked, Enough

\* The prompt is in, or a stage is left in a capture: what was kept is free.
LEMMA DropStock ==
  ASSUME Accounts, Stocked, Prefilled \/ FailStuck
  PROVE  Stocked'
<1>1. PICK n \in Nat : n = LastStage
  BY DEF Accounts, Rig
<1>2. pool' = Dropped(pool) /\ held' = <<>> /\ warm' = warm /\ st' = st
  BY DEF Prefilled, FailStuck, Over, device
<1>3. /\ Kept /\ LastStage' = n /\ Array(st, n) /\ Array(warm, n)
      /\ \A s \in 1 .. n : Owned(pool[s], HeldOn(s)) /\ Enough(warm[s], pool[s], HeldOn(s))
  BY <1>1, <1>2 DEF Accounts, Rig, Desk, Fine, LastStage, Stocked
<1>4. PICK q : q = pool
  OBVIOUS
<1>5. \A s \in 1 .. n : Owned(q[s], HeldOn(s)) /\ Enough(warm'[s], q[s], HeldOn(s))
  BY <1>2, <1>3, <1>4
<1>6. Stages = 1 .. n
  BY <1>3, ArrayIs DEF Stages
<1>7. QED
  BY <1>1, <1>2, <1>3, <1>4, <1>5, <1>6, DroppedStock

\* Everything else leaves the pools alone, and what is kept.
LEMMA OtherStock ==
  ASSUME Accounts, Stocked, Accounts',
         \/ BuildFails \/ Start \/ Reset \/ Capture \/ Sample \/ Finish \/ Deliver \/ Disconnect
         \/ LaunchStage \/ DecodeFinish \/ FailCapture \/ FailLaunch
         \/ UNCHANGED vars \/ \E s \in Stages : Exec(s)
  PROVE  Stocked'
<1>1. pool' = pool /\ warm' = warm /\ held' = held
  <2>1. CASE Finish \/ Disconnect \/ FailCapture \/ FailLaunch
    <3>1. held = <<>> /\ held' = <<>>
      BY <2>1 DEF Finish, Disconnect, FailCapture, FailLaunch, Over, Accounts, Desk
    <3>2. QED
      BY <2>1, <3>1 DEF Finish, Disconnect, FailCapture, FailLaunch
  <2>2. CASE BuildFails \/ Start \/ Reset \/ Capture \/ Sample \/ Deliver \/ LaunchStage \/ DecodeFinish
    BY <2>2 DEF BuildFails, Start, Reset, Capture, Sample, Deliver, LaunchStage, DecodeFinish, device
  <2>3. CASE UNCHANGED vars \/ \E s \in Stages : Exec(s)
    BY <2>3 DEF vars, host, Exec
  <2>4. QED
    BY <2>1, <2>2, <2>3
<1>2. PICK n, k \in Nat : n = LastStage /\ k = LastStage'
  BY DEF Accounts, Rig
<1>3. Array(pool, n) /\ Array(pool', k)
  BY <1>2 DEF Accounts, Rig
<1>4. n = k
  BY <1>1, <1>3, ArrayIs
<1>5. QED
  BY <1>1, <1>2, <1>4, KeptOn, StockKept

\* There are buffers enough for every length a stage is warm for.
LEMMA Stocks == Spec => [](Accounts /\ Stocked)
<1>1. Init => Stocked
  <2>1. SUFFICES ASSUME Init
                 PROVE  Stocked
    OBVIOUS
  <2>2. LastStage = 0 /\ warm = <<>>
    BY <2>1 DEF Init, LastStage, None
  <2>3. QED
    BY <2>2 DEF Stocked, Array
<1>2. Accounts /\ Stocked /\ Accounts' /\ [Next]_vars => Stocked'
  <2>1. SUFFICES ASSUME Accounts, Stocked, Accounts', [Next]_vars
                 PROVE  Stocked'
    OBVIOUS
  <2>2. CASE Build
    BY <2>1, <2>2, BuildStock
  <2>3. CASE Prefilled \/ FailStuck
    BY <2>1, <2>3, DropStock
  <2>4. CASE PrefillStage \/ FailPrefill
    BY <2>1, <2>4, PrefillStock, FailPrefillStock
  <2>5. CASE \/ BuildFails \/ Start \/ Reset \/ Capture \/ Sample \/ Finish \/ Deliver \/ Disconnect
             \/ LaunchStage \/ DecodeFinish \/ FailCapture \/ FailLaunch
             \/ UNCHANGED vars \/ \E s \in Stages : Exec(s)
    BY <2>1, <2>5, OtherStock
  <2>6. CASE Served
    BY <2>1, <2>6, OtherStock DEF Served
  <2>7. QED
    BY <2>1, <2>2, <2>3, <2>4, <2>5, <2>6 DEF Next, Host
<1>3. QED
  BY <1>1, <1>2, Invariance, PTL DEF Spec

\* Against the same factor, equal products have equal other factors.
LEMMA Cancels ==
  ASSUME NEW m \in Nat, m # 0, NEW x \in Nat, NEW y \in Nat, m * x = m * y
  PROVE  x = y
OBVIOUS

\* A chunk that runs as a capture finds the buffers it works in, unless the earlier
\* chunks of the prompt keep their activations in buffers of that very size.
LEMMA CaptureFinds ==
  ASSUME Accounts, Stocked, pc = "prefill", Captures(stage, Len(chunks[1])),
         ~LentOut(stage, Len(chunks[1]) * K)
  PROVE  ~AllocatesWithin
<1>1. PICK e \in 1 .. LastStage : e = stage
  BY DEF Accounts, Desk
<1>2. PICK m \in Nat : m = Len(chunks[1]) /\ m # 0
  BY ChunkDue
<1>3. PICK a, b \in Nat : a = m * H /\ b = m * K
  <2>1. PICK x, y \in Nat : x = H /\ y = K
    BY PipelineAssumption
  <2>2. m * x \in Nat /\ m * y \in Nat
    BY <1>2
  <2>3. QED
    BY <2>1, <2>2
<1>4. PICK p, u : /\ p = pool[e] /\ u = HeldOn(e) /\ Owned(p, u)
                  /\ Need <= Cardinality(OfSize(Made(p, u), b))
  <2>1. Owned(pool[e], HeldOn(e)) /\ Enough(warm[e], pool[e], HeldOn(e))
    BY <1>1 DEF Accounts, Rig, Fine, Stocked
  <2>2. m \in warm[e]
    BY <1>1, <1>2 DEF Captures
  <2>3. QED
    BY <1>3, <2>1, <2>2 DEF Enough
<1>5. Inner \in Nat /\ 3 \in Nat
  BY PipelineAssumption
<1>6. PICK o : o = Outer /\ TakenFrom(p, u, a, 3, o)
  <2>1. TakenFrom(p, u, a, 3, Taken(p, a, 3))
    BY <1>4, <1>5, TakenIs
  <2>2. Outer = Taken(p, a, 3)
    BY <1>1, <1>2, <1>3, <1>4 DEF Outer
  <2>3. QED
    BY <2>1, <2>2
<1> DEFINE three == BufsOf(o.ids, a)
<1>7. /\ o.ids \in Seq(Nat) /\ Len(o.ids) = 3 /\ Distinct(o.ids) /\ Owned(o.pool, u \cup three)
      /\ Made(p, u) \subseteq Made(o.pool, u \cup three)
  BY <1>6 DEF TakenFrom
<1>8. PICK w : w = Within /\ TakenFrom(o.pool, u \cup three, b, Inner, w)
  <2>1. TakenFrom(o.pool, u \cup three, b, Inner, Taken(o.pool, b, Inner))
    <3> HIDE DEF three
    <3>1. QED
      BY <1>5, <1>7, TakenIs
  <2>2. Within = Taken(o.pool, b, Inner)
    BY <1>2, <1>3, <1>6 DEF Within
  <2>3. QED
    BY <2>1, <2>2
<1>9. o.pool.count \in Nat
  BY <1>7 DEF Owned
<1>10. SUFFICES w.pool.count = o.pool.count
  BY <1>6, <1>8, <1>9 DEF AllocatesWithin
<1> DEFINE F == OfSize(ToSet(o.pool.free), b)
<1>11. SUFFICES ASSUME Cardinality(F) < Inner
                PROVE  FALSE
  BY <1>8 DEF TakenFrom
<1>12. OfSize(u, b) = {}
  <2>1. \A h \in ToSet(held) : h.stage = e => h.buf.size # b
    BY <1>1, <1>2, <1>3 DEF LentOut
  <2>2. QED
    BY <1>4, <2>1 DEF HeldOn, OfSize
<1>13. OfSize(Made(p, u), b) \subseteq F \cup OfSize(three, b)
  <2> HIDE DEF three
  <2>1. Made(o.pool, u \cup three) = ToSet(o.pool.free) \cup u \cup three
    BY DEF Made
  <2>2. QED
    BY <1>7, <1>12, <2>1 DEF OfSize
<1>14. IsFiniteSet(F) /\ Cardinality(F) \in Nat
  <2>1. IsFiniteSet(Made(o.pool, u \cup three))
    <3> HIDE DEF three
    <3>1. QED
      BY <1>7, MadeFinite
  <2>2. F \subseteq Made(o.pool, u \cup three)
    BY DEF Made, OfSize
  <2> HIDE DEF F, three
  <2>3. QED
    BY <2>1, <2>2, FS_Subset, FS_CardinalityType
<1>15. IsFiniteSet(three) /\ Cardinality(three) = 3
  BY <1>5, <1>7, BufsAre
<1>16. PICK c \in Nat : c = Cardinality(OfSize(Made(p, u), b)) /\ Need <= c
  BY <1>4, MadeFinite, SizeFinite
<1> HIDE DEF F
<1>17. CASE a # b
  <2>1. OfSize(three, b) = {}
    BY <1>17 DEF OfSize, BufsOf
  <2> HIDE DEF three
  <2>2. OfSize(Made(p, u), b) \subseteq F
    BY <1>13, <2>1
  <2>3. c <= Cardinality(F)
    BY <1>14, <1>16, <2>2, FS_Subset
  <2>4. QED
    BY <1>5, <1>11, <1>14, <1>16, <2>3 DEF Need
<1>18. CASE a = b
  <2>1. H = K
    <3>1. PICK x, y \in Nat : x = H /\ y = K
      BY PipelineAssumption
    <3>2. m * x = m * y
      BY <1>3, <1>18, <3>1
    <3>3. QED
      BY <1>2, <3>1, <3>2, Cancels
  <2>2. OfSize(three, b) \subseteq three
    BY DEF OfSize
  <2> HIDE DEF three
  <2>3. OfSize(Made(p, u), b) \subseteq F \cup three
    BY <1>13, <2>2
  <2>4. /\ IsFiniteSet(F \cup three) /\ Cardinality(F \cup three) \in Nat
        /\ Cardinality(F \cup three) <= Cardinality(F) + Cardinality(three)
    BY <1>14, <1>15, Together
  <2>5. c <= Cardinality(F \cup three)
    BY <1>16, <2>3, <2>4, FS_Subset
  <2>6. Need = Inner + 3
    BY <2>1 DEF Need
  <2>7. QED
    BY <1>5, <1>11, <1>14, <1>15, <1>16, <2>4, <2>5, <2>6
<1>19. QED
  BY <1>17, <1>18

\* prefill_stage: a captured chunk allocates only where the one pool has lent the
\* buffers it worked in to the activations of the chunks before it.
THEOREM CapturesFind == Spec => []NoAllocInCapture
<1>1. ASSUME Accounts, Stocked
      PROVE  NoAllocInCapture
  BY <1>1, CaptureFinds DEF NoAllocInCapture
<1>2. QED
  BY <1>1, Stocks, PTL
=============================================================================
