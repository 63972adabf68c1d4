--------------------------- MODULE QwenMtpProofs ----------------------------
(***************************************************************************)
(* Proofs about generation with the MTP head, for every vocabulary, model, *)
(* prompt, length, draft length and kinds of block the assumptions of      *)
(* QwenMtp allow.                                                          *)
(***************************************************************************)
EXTENDS QwenMtp, SequenceTheorems, WellFoundedInduction, TLAPS

-----------------------------------------------------------------------------
(* The forward of a range of blocks: what it stands for                     *)

\* The states of a range of some kinds of block with caches of `size` slots.
Stage(size, R) ==
  [kinds : (SUBSET {"full", "linear"}) \ {{}}, kv : [1 .. size -> Seq(R)], len : Nat,
   rec : Seq(R), pos : Nat]

\* The first elements of a sequence.
Begin(c, n) == SubSeq(c, 1, n)

\* The caches and the recurrent state are those of a context.
Holds(s, c) ==
  /\ "linear" \in s.kinds => s.rec = c
  /\ "full" \in s.kinds => \A i \in 1 .. Len(c) : s.kv[i] = Begin(c, i)

\* The range has seen exactly a context.
Stands(s, c) == s.len = Len(c) /\ s.pos = Len(c) /\ Holds(s, c)

\* The rows of tokens that come after a context.
RowsAfter(c, toks) == [i \in 1 .. Len(toks) |-> c \o Begin(toks, i)]

-----------------------------------------------------------------------------
(* Beginnings of sequences                                                  *)

\* A beginning of a sequence: its type, its length and its elements.
LEMMA Beginning ==
  ASSUME NEW T, NEW c \in Seq(T), NEW n \in 0 .. Len(c)
  PROVE  /\ Begin(c, n) \in Seq(T) /\ Len(Begin(c, n)) = n
         /\ \A i \in 1 .. n : Begin(c, n)[i] = c[i]
<1>1. \A i \in 1 .. n : c[i] \in T
  BY ElementOfSeq
<1>2. n \in Int /\ n >= 0
  OBVIOUS
<1>3. /\ Begin(c, n) \in Seq(T)
      /\ Len(Begin(c, n)) = IF 1 <= n THEN n - 1 + 1 ELSE 0
      /\ \A i \in 1 .. n - 1 + 1 : Begin(c, n)[i] = c[1 + i - 1]
  BY <1>1, <1>2, SubSeqProperties DEF Begin
<1>4. QED
  BY <1>2, <1>3

\* A beginning of a sequence is a beginning of what it is continued to, and the
\* last beginning is the sequence.
LEMMA BeginningOfConcat ==
  ASSUME NEW T, NEW c \in Seq(T), NEW d \in Seq(T)
  PROVE  /\ c \o d \in Seq(T) /\ Len(c \o d) = Len(c) + Len(d)
         /\ \A n \in 0 .. Len(c) : Begin(c \o d, n) = Begin(c, n)
         /\ \A n \in 0 .. Len(d) : Begin(c \o d, Len(c) + n) = c \o Begin(d, n)
         /\ Begin(c, Len(c)) = c
<1>1. /\ c \o d \in Seq(T) /\ Len(c \o d) = Len(c) + Len(d)
      /\ \A i \in 1 .. Len(c) + Len(d) : (c \o d)[i] = IF i <= Len(c) THEN c[i] ELSE d[i - Len(c)]
  BY ConcatProperties
<1>2. ASSUME NEW n \in 0 .. Len(c)
      PROVE  Begin(c \o d, n) = Begin(c, n)
  <2>1. n \in 0 .. Len(c \o d)
    BY <1>1
  <2>2. /\ Begin(c \o d, n) \in Seq(T) /\ Len(Begin(c \o d, n)) = n
        /\ \A i \in 1 .. n : Begin(c \o d, n)[i] = (c \o d)[i]
    BY <1>1, <2>1, Beginning
  <2>3. /\ Begin(c, n) \in Seq(T) /\ Len(Begin(c, n)) = n
        /\ \A i \in 1 .. n : Begin(c, n)[i] = c[i]
    BY Beginning
  <2>4. \A i \in 1 .. n : (c \o d)[i] = c[i]
    BY <1>1
  <2>5. QED
    BY <2>2, <2>3, <2>4, SeqEqual
<1>3. ASSUME NEW n \in 0 .. Len(d)
      PROVE  Begin(c \o d, Len(c) + n) = c \o Begin(d, n)
  <2>1. Len(c) + n \in 0 .. Len(c \o d)
    BY <1>1
  <2>2. /\ Begin(c \o d, Len(c) + n) \in Seq(T) /\ Len(Begin(c \o d, Len(c) + n)) = Len(c) + n
        /\ \A i \in 1 .. Len(c) + n : Begin(c \o d, Len(c) + n)[i] = (c \o d)[i]
    BY <1>1, <2>1, Beginning
  <2>3. /\ Begin(d, n) \in Seq(T) /\ Len(Begin(d, n)) = n
        /\ \A i \in 1 .. n : Begin(d, n)[i] = d[i]
    BY Beginning
  <2>4. /\ c \o Begin(d, n) \in Seq(T) /\ Len(c \o Begin(d, n)) = Len(c) + n
        /\ \A i \in 1 .. Len(c) + n : (c \o Begin(d, n))[i] =
             IF i <= Len(c) THEN c[i] ELSE Begin(d, n)[i - Len(c)]
    <3> DEFINE e == Begin(d, n)
    <3>1. e \in Seq(T) /\ Len(e) = n
      BY <2>3
    <3> HIDE DEF e
    <3>2. /\ c \o e \in Seq(T) /\ Len(c \o e) = Len(c) + n
          /\ \A i \in 1 .. Len(c) + n : (c \o e)[i] = IF i <= Len(c) THEN c[i] ELSE e[i - Len(c)]
      BY <3>1, ConcatProperties
    <3>3. QED
      BY <3>2 DEF e
  <2>5. \A i \in 1 .. Len(c) + n : (c \o d)[i] = (c \o Begin(d, n))[i]
    BY <1>1, <2>3, <2>4
  <2> DEFINE a == Begin(c \o d, Len(c) + n)
             b == c \o Begin(d, n)
  <2>6. /\ a \in Seq(T) /\ b \in Seq(T) /\ Len(a) = Len(b)
        /\ \A i \in 1 .. Len(a) : a[i] = b[i]
    BY <2>2, <2>4, <2>5
  <2> HIDE DEF a, b
  <2>7. a = b
    BY <2>6, SeqEqual
  <2>8. QED
    BY <2>7 DEF a, b
<1>4. Begin(c, Len(c)) = c
  BY SubSeqFull DEF Begin
<1>5. QED
  BY <1>1, <1>2, <1>3, <1>4

\* A beginning of a beginning.
LEMMA BeginningOfBeginning ==
  ASSUME NEW T, NEW c \in Seq(T), NEW n \in 0 .. Len(c), NEW m \in 0 .. n
  PROVE  Begin(Begin(c, n), m) = Begin(c, m)
<1>1. /\ Begin(c, n) \in Seq(T) /\ Len(Begin(c, n)) = n
      /\ \A i \in 1 .. n : Begin(c, n)[i] = c[i]
  BY Beginning
<1>2. m \in 0 .. Len(Begin(c, n)) /\ m \in 0 .. Len(c)
  BY <1>1
<1>3. /\ Begin(Begin(c, n), m) \in Seq(T) /\ Len(Begin(Begin(c, n), m)) = m
      /\ \A i \in 1 .. m : Begin(Begin(c, n), m)[i] = Begin(c, n)[i]
  BY <1>1, <1>2, Beginning
<1>4. /\ Begin(c, m) \in Seq(T) /\ Len(Begin(c, m)) = m
      /\ \A i \in 1 .. m : Begin(c, m)[i] = c[i]
  BY <1>2, Beginning
<1>5. \A i \in 1 .. m : Begin(Begin(c, n), m)[i] = Begin(c, m)[i]
  BY <1>1, <1>3, <1>4
<1>6. QED
  BY <1>3, <1>4, <1>5, SeqEqual

\* A sequence with one element.
LEMMA OneElement ==
  ASSUME NEW T, NEW c \in Seq(T), NEW n \in Nat, n = Len(c), n >= 1, ~(n > 1)
  PROVE  c[1] \in T /\ c = <<c[1]>>
<1>1. n = 1 /\ 1 \in 1 .. n
  OBVIOUS
<1>2. c[1] \in T
  BY <1>1, ElementOfSeq
<1>3. <<c[1]>> \in Seq(T) /\ Len(<<c[1]>>) = n /\ <<c[1]>>[1] = c[1]
  BY <1>1, <1>2
<1>4. \A i \in 1 .. n : i = 1
  BY <1>1
<1>5. QED
  BY <1>3, <1>4, SeqEqual

\* Moving the first of what is to be pushed over to what has been.
LEMMA MoveHead ==
  ASSUME NEW T, NEW a \in Seq(T), NEW b \in Seq(T), b # <<>>
  PROVE  /\ Head(b) \in T /\ Tail(b) \in Seq(T) /\ Len(Tail(b)) = Len(b) - 1
         /\ Append(a, Head(b)) \in Seq(T) /\ Len(Append(a, Head(b))) = Len(a) + 1
         /\ Append(a, Head(b)) \o Tail(b) = a \o b
         /\ \A i \in 1 .. Len(b) - 1 : Append(a, Head(b)) \o Begin(Tail(b), i - 1) = a \o Begin(b, i)
<1> DEFINE h == Head(b)
           r == Tail(b)
           ah == Append(a, h)
<1>1. /\ h \in T /\ r \in Seq(T) /\ Len(r) = Len(b) - 1 /\ h = b[1]
      /\ \A i \in 1 .. Len(r) : r[i] = b[i + 1]
  BY HeadTailProperties
<1>2. Len(a) \in Nat /\ Len(b) \in Nat /\ Len(b) >= 1
  BY EmptySeq
<1> HIDE DEF h, r
<1>3. /\ ah \in Seq(T) /\ Len(ah) = Len(a) + 1
      /\ \A i \in 1 .. Len(a) : ah[i] = a[i]
      /\ ah[Len(a) + 1] = h
  BY <1>1, AppendProperties
<1> HIDE DEF ah
<1>4. ASSUME NEW n \in 1 .. Len(b)
      PROVE  ah \o Begin(r, n - 1) = a \o Begin(b, n)
  <2> DEFINE x == Begin(r, n - 1)
             y == Begin(b, n)
  <2>1. n - 1 \in 0 .. Len(r) /\ n \in 0 .. Len(b)
    BY <1>1, <1>2
  <2>2. /\ x \in Seq(T) /\ Len(x) = n - 1
        /\ \A i \in 1 .. n - 1 : x[i] = r[i]
    BY <1>1, <2>1, Beginning
  <2>3. /\ y \in Seq(T) /\ Len(y) = n
        /\ \A i \in 1 .. n : y[i] = b[i]
    BY <2>1, Beginning
  <2> HIDE DEF x, y
  <2>4. /\ ah \o x \in Seq(T) /\ Len(ah \o x) = Len(a) + n
        /\ \A i \in 1 .. Len(a) + n : (ah \o x)[i] = IF i <= Len(a) + 1 THEN ah[i]
                                                     ELSE x[i - (Len(a) + 1)]
    <3>1. /\ ah \o x \in Seq(T) /\ Len(ah \o x) = Len(ah) + Len(x)
          /\ \A i \in 1 .. Len(ah) + Len(x) : (ah \o x)[i] = IF i <= Len(ah) THEN ah[i]
                                                             ELSE x[i - Len(ah)]
      BY <1>3, <2>2, ConcatProperties
    <3>2. Len(ah) + Len(x) = Len(a) + n
      BY <1>2, <1>3, <2>2
    <3>3. QED
      BY <1>3, <3>1, <3>2
  <2>5. /\ a \o y \in Seq(T) /\ Len(a \o y) = Len(a) + n
        /\ \A i \in 1 .. Len(a) + n : (a \o y)[i] = IF i <= Len(a) THEN a[i]
                                                    ELSE y[i - Len(a)]
    BY <2>3, ConcatProperties
  <2>6. ASSUME NEW i \in 1 .. Len(a) + n
        PROVE  (ah \o x)[i] = (a \o y)[i]
    <3>1. i \in Nat /\ n \in Nat /\ i >= 1 /\ i <= Len(a) + n
      BY <1>2
    <3>2. CASE i <= Len(a)
      BY <1>2, <1>3, <2>4, <2>5, <3>2
    <3>3. CASE i = Len(a) + 1
      <4>1. (a \o y)[i] = y[1]
        BY <1>2, <2>5, <3>3
      <4>2. y[1] = b[1]
        BY <2>3
      <4>3. (ah \o x)[i] = ah[i]
        BY <1>2, <2>4, <3>3
      <4>4. QED
        BY <1>1, <1>3, <3>3, <4>1, <4>2, <4>3
    <3>4. CASE i > Len(a) + 1
      <4>1. i - (Len(a) + 1) \in 1 .. n - 1
        BY <1>2, <3>1, <3>4
      <4>2. PICK j \in 1 .. n - 1 : j = i - (Len(a) + 1)
        BY <4>1
      <4>3. i - Len(a) = j + 1 /\ j + 1 \in 1 .. n /\ j \in 1 .. Len(r)
        BY <1>1, <1>2, <4>2
      <4>4. (ah \o x)[i] = x[j]
        BY <1>2, <2>4, <3>4, <4>2
      <4>5. (a \o y)[i] = y[j + 1]
        BY <1>2, <2>5, <3>4, <4>3
      <4>6. x[j] = b[j + 1]
        BY <1>1, <2>2, <4>3
      <4>7. QED
        BY <2>3, <4>3, <4>4, <4>5, <4>6
    <3>5. i <= Len(a) \/ i = Len(a) + 1 \/ i > Len(a) + 1
      BY <1>2, <3>1
    <3>6. QED
      BY <3>2, <3>3, <3>4, <3>5
  <2>7. QED
    BY <2>4, <2>5, <2>6, SeqEqual DEF x, y
<1>5. ah \o r = a \o b
  <2>1. Begin(r, Len(b) - 1) = r
    BY <1>1, SubSeqFull DEF Begin
  <2>2. Begin(b, Len(b)) = b
    BY SubSeqFull DEF Begin
  <2>3. Len(b) \in 1 .. Len(b)
    BY <1>2
  <2>4. ah \o Begin(r, Len(b) - 1) = a \o Begin(b, Len(b))
    BY <1>4, <2>3
  <2>5. QED
    BY <2>1, <2>2, <2>4
<1>6. \A i \in 1 .. Len(b) - 1 : i \in 1 .. Len(b)
  BY <1>2
<1>7. QED
  BY <1>1, <1>3, <1>4, <1>5, <1>6 DEF ah, h, r

\* What is before the one moved over and some of those after it.
LEMMA MoveHeadPart ==
  ASSUME NEW T, NEW a \in Seq(T), NEW b \in Seq(T), b # <<>>, NEW i \in 1 .. Len(b) - 1
  PROVE  Append(a, Head(b)) \o Begin(Tail(b), i - 1) = a \o Begin(b, i)
BY MoveHead, SMTT(30)

\* One more element after two sequences.
LEMMA AppendAfter ==
  ASSUME NEW T, NEW a \in Seq(T), NEW b \in Seq(T), NEW x \in T
  PROVE  a \o Append(b, x) = Append(a \o b, x)
<1> DEFINE y == <<x>>
<1>1. y \in Seq(T) /\ a \o b \in Seq(T)
  OBVIOUS
<1>2. Append(b, x) = b \o y /\ Append(a \o b, x) = (a \o b) \o y
  BY <1>1, AppendIsConcat
<1> HIDE DEF y
<1>3. (a \o b) \o y = a \o (b \o y)
  BY <1>1, ConcatAssociative
<1>4. QED
  BY <1>2, <1>3

\* The row of a token is a beginning of the context the tokens end in, and the
\* row before it with the token.
LEMMA RowAfter ==
  ASSUME NEW T, NEW c \in Seq(T), NEW toks \in Seq(T), NEW i \in 1 .. Len(toks)
  PROVE  /\ RowsAfter(c, toks)[i] \in Seq(T)
         /\ RowsAfter(c, toks)[i] = Begin(c \o toks, Len(c) + i)
         /\ Front(RowsAfter(c, toks)[i]) = IF i = 1 THEN c ELSE RowsAfter(c, toks)[i - 1]
<1> DEFINE all == c \o toks
<1>1. /\ all \in Seq(T) /\ Len(all) = Len(c) + Len(toks)
      /\ \A n \in 0 .. Len(c) : Begin(all, n) = Begin(c, n)
      /\ \A n \in 0 .. Len(toks) : Begin(all, Len(c) + n) = c \o Begin(toks, n)
      /\ Begin(c, Len(c)) = c
  BY BeginningOfConcat
<1>2. Len(c) \in Nat /\ Len(toks) \in Nat
  OBVIOUS
<1> HIDE DEF all
<1>3. \A j \in 1 .. Len(toks) : RowsAfter(c, toks)[j] = Begin(all, Len(c) + j)
  BY <1>1, <1>2 DEF RowsAfter
<1>4. /\ Len(c) + i \in 0 .. Len(all) /\ Len(c) + i - 1 \in 0 .. Len(c) + i
      /\ Len(c) + i - 1 = Len(c) + (i - 1)
  BY <1>1, <1>2
<1>5. RowsAfter(c, toks)[i] \in Seq(T) /\ Len(RowsAfter(c, toks)[i]) = Len(c) + i
  BY <1>1, <1>3, <1>4, Beginning
<1>6. Front(RowsAfter(c, toks)[i]) = Begin(all, Len(c) + (i - 1))
  <2>1. Front(RowsAfter(c, toks)[i]) = Begin(Begin(all, Len(c) + i), Len(c) + i - 1)
    BY <1>3, <1>5 DEF Front, Begin
  <2>2. QED
    BY <1>1, <1>4, <2>1, BeginningOfBeginning
<1>7. CASE i = 1
  <2>1. Len(c) + (i - 1) = Len(c) /\ Len(c) \in 0 .. Len(c)
    BY <1>2, <1>7
  <2>2. QED
    BY <1>1, <1>3, <1>5, <1>6, <1>7, <2>1 DEF all
<1>8. CASE i # 1
  <2>1. i - 1 \in 1 .. Len(toks)
    BY <1>2, <1>8
  <2>2. QED
    BY <1>3, <1>5, <1>6, <1>8, <2>1 DEF all
<1>9. QED
  BY <1>7, <1>8

\* A row is as long as the context with the tokens up to its own.
LEMMA RowLength ==
  ASSUME NEW T, NEW c \in Seq(T), NEW toks \in Seq(T), NEW i \in 1 .. Len(toks)
  PROVE  Len(RowsAfter(c, toks)[i]) = Len(c) + i
<1>1. RowsAfter(c, toks)[i] = Begin(c \o toks, Len(c) + i)
  BY RowAfter
<1>2. c \o toks \in Seq(T) /\ Len(c \o toks) = Len(c) + Len(toks)
  BY BeginningOfConcat
<1>3. PICK all \in Seq(T) : all = c \o toks
  BY <1>2
<1>4. PICK n \in 0 .. Len(all) : n = Len(c) + i
  BY <1>2, <1>3
<1>5. Len(Begin(all, n)) = n
  BY Beginning
<1>6. QED
  BY <1>1, <1>3, <1>4, <1>5

\* The rows of some tokens are as many, and the last is the whole context.
LEMMA RowsAfterFacts ==
  ASSUME NEW T, NEW c \in Seq(T), NEW toks \in Seq(T), toks # <<>>
  PROVE  /\ RowsAfter(c, toks) \in Seq(Seq(T)) /\ Len(RowsAfter(c, toks)) = Len(toks)
         /\ Last(RowsAfter(c, toks)) = c \o toks
<1>1. Len(toks) \in Nat /\ Len(toks) >= 1
  BY EmptySeq
<1>2. \A i \in 1 .. Len(toks) : RowsAfter(c, toks)[i] \in Seq(T)
  BY RowAfter
<1>3. RowsAfter(c, toks) \in Seq(Seq(T)) /\ Len(RowsAfter(c, toks)) = Len(toks)
  BY <1>1, <1>2 DEF RowsAfter
<1>4. Len(toks) \in 1 .. Len(toks)
  BY <1>1
<1>5. RowsAfter(c, toks)[Len(toks)] = Begin(c \o toks, Len(c) + Len(toks))
  BY <1>4, RowAfter
<1>6. c \o toks \in Seq(T) /\ Len(c \o toks) = Len(c) + Len(toks)
  BY BeginningOfConcat
<1>7. Begin(c \o toks, Len(c \o toks)) = c \o toks
  BY <1>6, SubSeqFull DEF Begin
<1>8. QED
  BY <1>3, <1>5, <1>6, <1>7 DEF Last

-----------------------------------------------------------------------------
(* One forward                                                              *)

\* From a state that holds a context, the rows of the next tokens are made and
\* leave the blocks as what they say.
LEMMA ForwardRows ==
  ASSUME NEW T, Bad \notin T, NEW s, s.kinds \in (SUBSET {"full", "linear"}) \ {{}},
         NEW c \in Seq(T), NEW toks \in Seq(T), toks # <<>>, Holds(s, c)
  PROVE  /\ Embedded(s, Len(c), toks) = RowsAfter(c, toks)
         /\ Outputs(s, Len(c), RowsAfter(c, toks)) = RowsAfter(c, toks)
<1> DEFINE rows == RowsAfter(c, toks)
           past == IF "full" \in s.kinds THEN [i \in 1 .. Len(c) |-> Last(s.kv[i])] ELSE s.rec
<1>1. /\ rows \in Seq(Seq(T)) /\ Len(rows) = Len(toks)
      /\ Len(toks) \in Nat /\ Len(toks) >= 1 /\ Len(c) \in Nat
  <2>1. rows \in Seq(Seq(T)) /\ Len(rows) = Len(toks)
    BY RowsAfterFacts, Zenon
  <2>2. QED
    BY <2>1, EmptySeq
<1>2. past = c
  <2>1. CASE "full" \in s.kinds
    <3>1. ASSUME NEW i \in 1 .. Len(c)
          PROVE  Last(s.kv[i]) = c[i]
      <4>1. i \in 0 .. Len(c) /\ i \in 1 .. i
        OBVIOUS
      <4>2. Len(Begin(c, i)) = i /\ Begin(c, i)[i] = c[i]
        BY <4>1, Beginning
      <4>3. s.kv[i] = Begin(c, i)
        BY <2>1 DEF Holds
      <4>4. QED
        BY <4>2, <4>3 DEF Last
    <3>2. c = [i \in 1 .. Len(c) |-> c[i]]
      OBVIOUS
    <3>3. QED
      BY <2>1, <3>1, <3>2
  <2>2. CASE "full" \notin s.kinds
    BY <2>2 DEF Holds
  <2>3. QED
    BY <2>1, <2>2
<1>3. Embedded(s, Len(c), toks) = rows
  <2>1. Embedded(s, Len(c), toks) = [i \in DOMAIN toks |-> past \o Begin(toks, i)]
    BY DEF Embedded, Begin
  <2>2. DOMAIN toks = 1 .. Len(toks)
    OBVIOUS
  <2>3. QED
    BY <1>2, <2>1, <2>2 DEF RowsAfter
<1>4. Follows(s, Len(c), rows[1])
  <2>1. 1 \in 1 .. Len(toks)
    BY <1>1
  <2>2. Len(rows[1]) = Len(c) + 1 /\ rows[1] \in Seq(T) /\ Front(rows[1]) = c
    <3>1. Len(rows[1]) = Len(c) + 1
      BY <2>1, RowLength, Zenon
    <3>2. rows[1] \in Seq(T) /\ Front(rows[1]) = c
      BY <2>1, RowAfter
    <3>3. QED
      BY <3>1, <3>2
  <2>3. "linear" \in s.kinds => s.rec = Front(rows[1])
    BY <2>2 DEF Holds
  <2>4. ASSUME NEW i \in 1 .. Len(c), "full" \in s.kinds
        PROVE  s.kv[i] = Begin(rows[1], i)
    <3>1. Len(c) \in 0 .. Len(rows[1]) /\ i \in 0 .. Len(c)
      BY <1>1, <2>2
    <3>2. c = Begin(rows[1], Len(c))
      BY <1>1, <2>2 DEF Front, Begin
    <3>3. Begin(c, i) = Begin(rows[1], i)
      BY <2>2, <3>1, <3>2, BeginningOfBeginning
    <3>4. QED
      BY <2>4, <3>3 DEF Holds
  <2>5. QED
    BY <2>2, <2>3, <2>4 DEF Follows, Begin
<1>5. \A i \in 1 .. Len(toks) : \A j \in DOMAIN rows[i] : rows[i][j] # Bad
  <2>1. ASSUME NEW i \in 1 .. Len(toks), NEW j \in DOMAIN rows[i]
        PROVE  rows[i][j] # Bad
    <3>1. rows[i] \in Seq(T)
      BY <1>1, ElementOfSeq
    <3>2. QED
      BY <3>1
  <2>2. QED
    BY <2>1
<1>6. Outputs(s, Len(c), rows) = rows
  <2>1. ASSUME NEW i \in 1 .. Len(toks)
        PROVE  IF i = 1 THEN Follows(s, Len(c), rows[1]) ELSE Front(rows[i]) = rows[i - 1]
    BY <1>4, RowAfter
  <2> HIDE DEF rows
  <2>2. DOMAIN rows = 1 .. Len(toks) /\ rows = [i \in 1 .. Len(toks) |-> rows[i]]
    BY <1>1
  <2>3. \A i \in 1 .. Len(toks) : \A j \in 1 .. i : j \in 1 .. Len(toks)
    OBVIOUS
  <2>4. QED
    BY <1>5, <2>1, <2>2, <2>3 DEF Outputs
<1>7. QED
  BY <1>3, <1>6

\* The fields of a state.
Fields(s) == s = [kinds |-> s.kinds, kv |-> s.kv, len |-> s.len, rec |-> s.rec, pos |-> s.pos]

\* w is s with rows written behind a context.
Grown(s, w, c, toks, size) ==
  /\ w = [kinds |-> s.kinds, kv |-> w.kv, len |-> s.len, rec |-> c \o toks, pos |-> s.pos]
  /\ w.kv = [i \in 1 .. size |-> IF i \in Len(c) + 1 .. Len(c) + Len(toks)
                                 THEN RowsAfter(c, toks)[i - Len(c)] ELSE s.kv[i]]
  /\ Holds(w, c \o toks) /\ \A i \in 1 .. Len(c) : w.kv[i] = s.kv[i]

\* Written over, a state that holds a context holds the longer one, and the slots
\* of the context are as they were, whatever the slots behind them hold.
LEMMA WrittenRows ==
  ASSUME NEW T, NEW size \in Nat, NEW s, DOMAIN s.kv = 1 .. size,
         Fields(s), NEW c \in Seq(T), NEW toks \in Seq(T), toks # <<>>,
         Len(c) + Len(toks) <= size, Holds(s, c), NEW w, w = Written(s, Len(c), RowsAfter(c, toks))
  PROVE  Grown(s, w, c, toks, size)
<1> DEFINE rows == RowsAfter(c, toks)
           all == c \o toks
           kv == [i \in 1 .. size |-> IF i \in Len(c) + 1 .. Len(c) + Len(rows)
                                      THEN rows[i - Len(c)] ELSE s.kv[i]]
<1>1. /\ rows \in Seq(Seq(T)) /\ Len(rows) = Len(toks)
      /\ Last(rows) = all
  BY RowsAfterFacts
<1>2. /\ all \in Seq(T) /\ Len(all) = Len(c) + Len(toks)
      /\ \A n \in 0 .. Len(c) : Begin(all, n) = Begin(c, n)
  BY BeginningOfConcat
<1>3. Len(c) \in Nat /\ Len(toks) \in Nat
  OBVIOUS
<1> HIDE DEF rows, all
<1>4. w = [s EXCEPT !.kv = kv, !.rec = all]
  BY <1>1 DEF Written, rows
<1>5. ASSUME NEW i \in 1 .. Len(c)
      PROVE  kv[i] = s.kv[i]
  BY <1>3
<1>6. ASSUME NEW i \in 1 .. Len(all), "full" \in s.kinds
      PROVE  kv[i] = Begin(all, i)
  <2>1. i \in 1 .. size
    BY <1>2, <1>3
  <2>2. CASE i <= Len(c)
    <3>1. i \in 1 .. Len(c) /\ i \in 0 .. Len(c)
      BY <1>2, <1>3, <2>2
    <3>2. QED
      BY <1>2, <1>5, <1>6, <3>1 DEF Holds
  <2>3. CASE i > Len(c)
    <3>1. i - Len(c) \in 1 .. Len(toks) /\ i \in Len(c) + 1 .. Len(c) + Len(rows)
          /\ Len(c) + (i - Len(c)) = i
      BY <1>1, <1>2, <1>3, <2>3
    <3>2. PICK j \in 1 .. Len(toks) : j = i - Len(c) /\ Len(c) + j = i
      BY <3>1
    <3>3. kv[i] = rows[j]
      BY <2>1, <3>1, <3>2
    <3>4. RowsAfter(c, toks)[j] = Begin(c \o toks, Len(c) + j)
      BY RowAfter
    <3>5. QED
      BY <3>2, <3>3, <3>4 DEF rows, all
  <2>4. i <= Len(c) \/ i > Len(c)
    BY <1>2, <1>3
  <2>5. QED
    BY <2>2, <2>3, <2>4
<1>7. kv = [i \in 1 .. size |-> IF i \in Len(c) + 1 .. Len(c) + Len(toks)
                                THEN RowsAfter(c, toks)[i - Len(c)] ELSE s.kv[i]]
  BY <1>1 DEF rows
<1> HIDE DEF kv
<1>8. w = [kinds |-> s.kinds, kv |-> kv, len |-> s.len, rec |-> all, pos |-> s.pos]
  BY <1>4 DEF Fields
<1>9. Holds(w, all) /\ w.kv = kv
  BY <1>6, <1>8 DEF Holds
<1>10. QED
  BY <1>5, <1>7, <1>8, <1>9 DEF all, Grown

\* w is s with the slots after a context written over: it holds what they bring,
\* and counts n slots.
Longer(s, w, n, c, toks, size, R) ==
  /\ w \in Stage(size, R) /\ w.kinds = s.kinds /\ w.len = n /\ w.pos = s.pos
  /\ Holds(w, c \o toks)
  /\ \A i \in 1 .. Len(c) : w.kv[i] = s.kv[i]

\* The same of a typed state, which stays one.
LEMMA WrittenHolds ==
  ASSUME NEW T, NEW R, T \subseteq R, NEW size \in Nat, NEW s \in Stage(size, R),
         NEW c \in Seq(T), NEW toks \in Seq(T), toks # <<>>,
         Len(c) + Len(toks) <= size, Holds(s, c)
  PROVE  Longer(s, Written(s, Len(c), RowsAfter(c, toks)), s.len, c, toks, size, R)
<1> DEFINE rows == RowsAfter(c, toks)
<1>1. PICK w : w = Written(s, Len(c), RowsAfter(c, toks))
  OBVIOUS
<1>2. /\ rows \in Seq(Seq(T)) /\ Len(rows) = Len(toks) /\ c \o toks \in Seq(T)
      /\ Len(c) \in Nat /\ Len(toks) \in Nat
  BY RowsAfterFacts
<1>3. /\ DOMAIN s.kv = 1 .. size /\ s.kv \in [1 .. size -> Seq(R)] /\ Fields(s)
      /\ s.kinds \in (SUBSET {"full", "linear"}) \ {{}} /\ s.len \in Nat /\ s.pos \in Nat
  BY DEF Stage, Fields
<1>4. Grown(s, w, c, toks, size)
  BY <1>1, <1>3, WrittenRows
<1>5. w.kv = [i \in 1 .. size |-> IF i \in Len(c) + 1 .. Len(c) + Len(toks)
                                 THEN rows[i - Len(c)] ELSE s.kv[i]]
  BY <1>4 DEF Grown
<1>6. ASSUME NEW i \in 1 .. size
      PROVE  w.kv[i] \in Seq(R)
  <2>1. CASE i \in Len(c) + 1 .. Len(c) + Len(toks)
    <3>1. i - Len(c) \in 1 .. Len(rows)
      BY <1>2, <2>1
    <3>2. rows[i - Len(c)] \in Seq(T)
      BY <1>2, <3>1, ElementOfSeq
    <3>3. QED
      BY <1>5, <2>1, <3>2, SeqMonotonic
  <2>2. CASE i \notin Len(c) + 1 .. Len(c) + Len(toks)
    BY <1>3, <1>5, <2>2
  <2>3. QED
    BY <2>1, <2>2
<1>7. w.kv \in [1 .. size -> Seq(R)] /\ c \o toks \in Seq(R)
  BY <1>2, <1>6, <1>5, SeqMonotonic
<1>8. /\ w = [kinds |-> s.kinds, kv |-> w.kv, len |-> s.len, rec |-> c \o toks, pos |-> s.pos]
      /\ Holds(w, c \o toks) /\ \A i \in 1 .. Len(c) : w.kv[i] = s.kv[i]
  BY <1>4 DEF Grown
<1>9. w \in Stage(size, R)
  <2>1. PICK kv \in [1 .. size -> Seq(R)], x \in Seq(R) : kv = w.kv /\ x = c \o toks
    BY <1>7
  <2>2. w = [kinds |-> s.kinds, kv |-> kv, len |-> s.len, rec |-> x, pos |-> s.pos]
    BY <1>8, <2>1
  <2>3. QED
    BY <1>3, <2>2 DEF Stage
<1>10. QED
  BY <1>1, <1>8, <1>9 DEF Longer

\* A batch on a range that stands at a context: what it gives, what it leaves and
\* what it does not touch.
LEMMA BatchForward ==
  ASSUME NEW T, Bad \notin T, NEW size \in Nat, NEW s \in Stage(size, T \cup {Bad}),
         NEW c \in Seq(T), NEW toks \in Seq(T), toks # <<>>,
         Len(c) + Len(toks) <= size, Stands(s, c)
  PROVE  /\ Outputs(s, s.len, Embedded(s, s.len, toks)) = RowsAfter(c, toks)
         /\ Longer(s, Batched(s, Embedded(s, s.len, toks)), Len(c) + Len(toks), c, toks,
                   size, T \cup {Bad})
<1> DEFINE rows == RowsAfter(c, toks)
           w == Written(s, Len(c), rows)
           b == Batched(s, Embedded(s, s.len, toks))
<1>1. s.len = Len(c) /\ Holds(s, c) /\ Len(c) \in Nat /\ Len(toks) \in Nat
  BY DEF Stands
<1>2. Embedded(s, s.len, toks) = rows /\ Outputs(s, s.len, rows) = rows
  <2>1. Len(c) <= size
    BY <1>1
  <2>2. s.kinds \in (SUBSET {"full", "linear"}) \ {{}}
    BY DEF Stage
  <2> HIDE DEF rows, w, b
  <2>3. /\ Embedded(s, Len(c), toks) = RowsAfter(c, toks)
        /\ Outputs(s, Len(c), RowsAfter(c, toks)) = RowsAfter(c, toks)
    BY <1>1, <2>2, ForwardRows
  <2>4. QED
    BY <1>1, <2>3 DEF rows
<1>3. Len(rows) = Len(toks)
  BY RowsAfterFacts, Zenon
<1>4. /\ w \in Stage(size, T \cup {Bad}) /\ w.kinds = s.kinds /\ w.len = s.len /\ w.pos = s.pos
      /\ Holds(w, c \o toks)
      /\ \A i \in 1 .. Len(c) : w.kv[i] = s.kv[i]
  <2> DEFINE R == T \cup {Bad}
  <2>1. T \subseteq R /\ s \in Stage(size, R)
    OBVIOUS
  <2> HIDE DEF R
  <2>2. Longer(s, w, s.len, c, toks, size, R)
    BY <1>1, <2>1, WrittenHolds
  <2>3. QED
    BY <2>2 DEF R, Longer
<1> HIDE DEF rows, w
<1>5. b = [w EXCEPT !.len = s.len + Len(rows)]
  BY <1>1, <1>2, <1>4 DEF Batched, w
<1> HIDE DEF b
<1>6. /\ b \in Stage(size, T \cup {Bad}) /\ b.kinds = w.kinds /\ b.kv = w.kv /\ b.rec = w.rec
      /\ b.pos = w.pos /\ b.len = Len(c) + Len(toks)
  <2>1. s.len + Len(rows) = Len(c) + Len(toks) /\ Len(c) + Len(toks) \in Nat
    BY <1>1, <1>3
  <2>2. QED
    BY <1>4, <1>5, <2>1 DEF Stage
<1>7. QED
  BY <1>2, <1>4, <1>6 DEF Holds, Longer, rows, b

\* One token is decoded in place: its row, and where the range stands after it.
LEMMA DecodeForward ==
  ASSUME NEW T, Bad \notin T, NEW size \in Nat, NEW s \in Stage(size, T \cup {Bad}),
         NEW c \in Seq(T), NEW tok \in T, Len(c) + 1 <= size, Stands(s, c)
  PROVE  LET row == Embedded(s, s.pos, <<tok>>)[1]
         IN  /\ Outputs(s, s.pos, <<row>>)[1] = c \o <<tok>>
             /\ Longer(s, DecodeBody(s, s.pos, row), Len(c) + 1, c, <<tok>>, size, T \cup {Bad})
<1> DEFINE row == Embedded(s, s.pos, <<tok>>)[1]
           toks == <<tok>>
           rows == RowsAfter(c, toks)
           w == Written(s, Len(c), rows)
           b == DecodeBody(s, s.pos, row)
<1>1. /\ s.len = Len(c) /\ s.pos = Len(c) /\ Holds(s, c) /\ Len(c) \in Nat
      /\ toks \in Seq(T) /\ toks # <<>> /\ Len(toks) = 1
  BY DEF Stands
<1>2. row = Embedded(s, s.pos, toks)[1]
  OBVIOUS
<1> HIDE DEF toks, row
<1>3. Embedded(s, s.pos, toks) = rows /\ Outputs(s, s.pos, rows) = rows
  <2>1. Len(c) <= size
    BY <1>1
  <2>2. s.kinds \in (SUBSET {"full", "linear"}) \ {{}}
    BY DEF Stage
  <2> HIDE DEF rows, w, b
  <2>3. /\ Embedded(s, Len(c), toks) = RowsAfter(c, toks)
        /\ Outputs(s, Len(c), RowsAfter(c, toks)) = RowsAfter(c, toks)
    BY <1>1, <2>2, ForwardRows
  <2>4. QED
    BY <1>1, <2>3 DEF rows
<1>4. rows \in Seq(Seq(T)) /\ Len(rows) = 1 /\ Last(rows) = c \o toks
  BY <1>1, RowsAfterFacts, Zenon
<1>5. /\ w \in Stage(size, T \cup {Bad}) /\ w.kinds = s.kinds /\ w.len = s.len /\ w.pos = s.pos
      /\ Holds(w, c \o toks)
      /\ \A i \in 1 .. Len(c) : w.kv[i] = s.kv[i]
  <2> DEFINE R == T \cup {Bad}
  <2>1. T \subseteq R /\ s \in Stage(size, R) /\ Len(c) + Len(toks) <= size
    BY <1>1
  <2> HIDE DEF R
  <2>2. Longer(s, w, s.len, c, toks, size, R)
    BY <1>1, <2>1, WrittenHolds
  <2>3. QED
    BY <2>2 DEF R, Longer
<1> HIDE DEF rows, w
<1>6. row = rows[1] /\ rows[1] = c \o toks /\ <<row>> = rows
  BY <1>2, <1>3, <1>4 DEF Last
<1>7. b = [w EXCEPT !.len = s.len + 1]
  BY <1>1, <1>3, <1>5, <1>6 DEF DecodeBody, w
<1> HIDE DEF b
<1>8. /\ b \in Stage(size, T \cup {Bad}) /\ b.kinds = w.kinds /\ b.kv = w.kv /\ b.rec = w.rec
      /\ b.pos = w.pos /\ b.len = Len(c) + 1
  <2>1. s.len + 1 = Len(c) + 1 /\ Len(c) + 1 \in Nat
    BY <1>1
  <2>2. QED
    BY <1>5, <1>7, <2>1 DEF Stage
<1>9. Outputs(s, s.pos, <<row>>)[1] = c \o toks
  BY <1>3, <1>6
<1>10. Longer(s, b, Len(c) + 1, c, toks, size, T \cup {Bad})
  BY <1>5, <1>8 DEF Holds, Longer
<1>11. QED
  BY <1>9, <1>10 DEF b, toks, row

\* A new range stands at the empty context.
LEMMA NewStageStands ==
  ASSUME NEW T, NEW size \in Nat, NEW kinds \in (SUBSET {"full", "linear"}) \ {{}}
  PROVE  /\ NewStage(kinds, size) \in Stage(size, T \cup {Bad})
         /\ NewStage(kinds, size).kinds = kinds
         /\ Stands(NewStage(kinds, size), <<>>)
BY DEF NewStage, Stage, Stands, Holds, Junk

-----------------------------------------------------------------------------
(* The inductive invariant                                                  *)

Rows == Stage(Max_seq, Token \cup {Bad})

\* The plain types of the variables.
Types ==
  /\ prompt \in Prompts /\ max_tokens \in Lengths /\ k \in Drafts
  /\ state \in Rows /\ state.kinds = Kinds
  /\ generated \in Seq(Token) /\ drafts \in Seq(Token) /\ pushes \in Seq(Token)
  /\ verify_out \in Seq(Seq(Token))
  /\ mtp_kv \in Nat /\ phase \in Phases /\ Len(drafts) <= k
  /\ phase # "prefill" => verify_logits \in Seq(Token)
  /\ state.len \in 0 .. Max_seq

\* Everything that has been decided on, what is still to be pushed included.
Decided == Committed \o pushes

\* There is more to generate.
Open == /\ \A i \in 1 .. Len(generated) : generated[i] # Eos
        /\ Len(generated) >= 1 /\ Len(generated) < max_tokens

\* The next pick is made after a context, and the drafter is seeded from it.
Seeded(c) == verify_logits = c /\ Pointee(prev_hidden) = c

\* What a rejected round goes back to.
Back == Restored(snapshot, state)

\* A round is under way.
InRound ==
  /\ Open /\ t \in Token /\ t = Argmax(Committed)
  /\ Back \in Rows /\ Stands(Back, Committed)

Batch == <<t>> \o drafts

\* Every token still to be pushed is the model's pick after all before it.
Greedy ==
  \A i \in 1 .. Len(pushes) : pushes[i] = Argmax(Committed \o Begin(pushes, i - 1))

Phase ==
  /\ phase = "prefill" => generated = <<>> /\ Stands(state, <<>>) /\ mtp_kv = 0
  /\ phase = "bootstrap" =>
       /\ generated = <<>> /\ Stands(state, prompt) /\ verify_logits = prompt /\ mtp_kv = 0
  /\ phase = "round" =>
       /\ Open /\ Stands(state, Committed) /\ Seeded(Committed)
       /\ mtp_kv <= k * (Len(generated) - 1)
  /\ phase = "draft" =>
       /\ InRound /\ Stands(state, Committed) /\ Seeded(Committed)
       /\ Len(drafts) < k /\ mtp_kv <= k * (Len(generated) - 1) + Len(drafts)
  /\ phase = "verify" =>
       /\ InRound /\ Stands(state, Committed)
       /\ Len(drafts) = k /\ mtp_kv <= k * Len(generated)
  /\ phase = "decide" =>
       /\ InRound /\ Stands(state, Committed \o Batch)
       /\ verify_out = RowsAfter(Committed, Batch) /\ verify_hidden = verify_out
       /\ Len(drafts) = k /\ mtp_kv <= k * Len(generated)
  /\ phase = "push" =>
       /\ Stands(state, Decided) /\ Seeded(Decided) /\ Greedy
       /\ Len(generated) >= 1 /\ mtp_kv <= k * (Len(generated) + Len(pushes) - 1)

IInv == Types /\ Phase

-----------------------------------------------------------------------------
(* Sequences and numbers                                                    *)

\* Any set of numbers that is not empty has a smallest element.
LEMMA LeastElement ==
  ASSUME NEW S, S \subseteq Nat, S # {}
  PROVE  \E m \in S : \A n \in S : m <= n
<1>1. \E m \in S : \A n \in S : <<n, m>> \notin OpToRel(<, Nat)
  BY NatLessThanWellFounded, WFMin
<1>2. PICK m \in S : \A n \in S : <<n, m>> \notin OpToRel(<, Nat)
  BY <1>1
<1>3. ASSUME NEW n \in S, n < m
      PROVE  <<n, m>> \in OpToRel(<, Nat)
  <2>1. n \in Nat /\ m \in Nat
    OBVIOUS
  <2>2. QED
    BY <1>3, <2>1, Zenon DEF OpToRel
<1>4. ASSUME NEW n \in S
      PROVE  m <= n
  <2>1. n \in Nat /\ m \in Nat
    OBVIOUS
  <2>2. ~(n < m)
    BY <1>2, <1>3
  <2>3. QED
    BY <2>1, <2>2
<1>5. QED
  BY <1>4

\* The rows of the drafter's cache over one round more.
LEMMA Times ==
  ASSUME NEW a \in Nat, NEW b \in Nat, NEW c \in Nat
  PROVE  /\ a * b \in Nat /\ a * (b - 1) \in Int /\ a * (b - 1) + a = a * b
         /\ a * b <= a * (b + c)
<1>1. a * b \in Nat /\ a * c \in Nat /\ a * (b - 1) \in Int
  OBVIOUS
<1>2. a * (b - 1) + a = a * b
  OBVIOUS
<1>3. a * (b + c) = a * b + a * c
  OBVIOUS
<1>4. QED
  BY <1>1, <1>2, <1>3

-----------------------------------------------------------------------------
(* What the assumptions say of the sizes                                    *)

\* What the types and the assumptions give of the request and of what is decided.
LEMMA Sizes ==
  ASSUME Types
  PROVE  /\ prompt \in Seq(Token) /\ Len(prompt) \in Nat /\ Len(prompt) >= 1
         /\ max_tokens \in Nat /\ max_tokens >= 1 /\ k \in Nat /\ k >= 1
         /\ Max_seq \in Nat /\ Max_seq = Len(prompt) + max_tokens + k + Slack /\ Slack \in Nat
         /\ Committed \in Seq(Token) /\ Len(Committed) = Len(prompt) + Len(generated)
         /\ Decided \in Seq(Token) /\ Len(Decided) = Len(prompt) + Len(generated) + Len(pushes)
         /\ Len(generated) \in Nat /\ Len(pushes) \in Nat /\ Len(drafts) \in Nat
<1>1. prompt \in Seq(Token) /\ prompt # <<>>
  BY MtpAssumption DEF Types
<1>2. Len(prompt) \in Nat /\ Len(prompt) >= 1
  BY <1>1, EmptySeq
<1>3. /\ max_tokens \in Nat /\ max_tokens >= 1 /\ k \in Nat /\ k >= 1 /\ Slack \in Nat
  BY MtpAssumption DEF Types
<1>4. Max_seq \in Nat /\ Max_seq = Len(prompt) + max_tokens + k + Slack
  BY <1>2, <1>3 DEF Max_seq
<1>5. /\ generated \in Seq(Token) /\ pushes \in Seq(Token) /\ drafts \in Seq(Token)
      /\ Len(generated) \in Nat /\ Len(pushes) \in Nat /\ Len(drafts) \in Nat
  BY DEF Types
<1>6. Committed \in Seq(Token) /\ Len(Committed) = Len(prompt) + Len(generated)
  BY <1>1, <1>5, BeginningOfConcat DEF Committed
<1>7. Decided \in Seq(Token) /\ Len(Decided) = Len(Committed) + Len(pushes)
  BY <1>5, <1>6, BeginningOfConcat DEF Decided
<1>8. QED
  BY <1>1, <1>2, <1>3, <1>4, <1>5, <1>6, <1>7

\* What is picked after any context that fits the caches is a token.
LEMMA PickIsToken ==
  ASSUME Types, NEW c \in Seq(Token), 1 <= Len(c), Len(c) <= Max_seq
  PROVE  Argmax(c) \in Token
<1>1. Len(c) \in 1 .. Len(prompt) + max_tokens + k + Slack
  BY Sizes
<1>2. c \in [1 .. Len(c) -> Token]
  OBVIOUS
<1>3. QED
  BY <1>1, <1>2, ModelAssumption DEF Types

-----------------------------------------------------------------------------
(* One forward                                                              *)

\* forward_token on a state that stands at a context.
LEMMA ForwardTokenStands ==
  ASSUME Types, NEW st \in Rows, st.kinds = Kinds, NEW c \in Seq(Token), Stands(st, c),
         NEW tok \in Token, Len(c) + 1 <= Max_seq, ForwardToken(st, tok)
  PROVE  /\ state' \in Rows /\ state'.kinds = Kinds /\ Stands(state', c \o <<tok>>)
         /\ hidden_a' = c \o <<tok>> /\ verify_logits' = c \o <<tok>>
<1> DEFINE row == Embedded(st, st.pos, <<tok>>)[1]
           b == DecodeBody(st, st.pos, row)
<1>1. Bad \notin Token /\ Max_seq \in Nat /\ st \in Stage(Max_seq, Token \cup {Bad})
  BY MtpAssumption, Sizes DEF Rows
<1>2. /\ Outputs(st, st.pos, <<row>>)[1] = c \o <<tok>>
      /\ Longer(st, b, Len(c) + 1, c, <<tok>>, Max_seq, Token \cup {Bad})
  BY <1>1, DecodeForward
<1>3. /\ state' = [b EXCEPT !.pos = @ + 1]
      /\ hidden_a' = Outputs(st, st.pos, <<row>>)[1] /\ verify_logits' = hidden_a'
  BY DEF ForwardToken
<1> HIDE DEF b, row
<1>4. st.pos = Len(c) /\ Len(c) \in Nat /\ Len(c \o <<tok>>) = Len(c) + 1
  BY DEF Stands
<1>5. /\ state' \in Stage(Max_seq, Token \cup {Bad}) /\ state'.kinds = b.kinds
      /\ state'.kv = b.kv /\ state'.rec = b.rec /\ state'.len = b.len
      /\ state'.pos = Len(c) + 1
  BY <1>2, <1>3, <1>4 DEF Stage, Longer
<1>6. QED
  BY <1>2, <1>3, <1>4, <1>5 DEF Rows, Stands, Holds, Longer

\* A batch of tokens on the model's state, and what it leaves to go back to.
LEMMA ForwardBatchStands ==
  ASSUME Types, NEW c \in Seq(Token), Stands(state, c),
         NEW toks \in Seq(Token), toks # <<>>, Len(c) + Len(toks) <= Max_seq,
         ForwardBatch(toks)
  PROVE  /\ state' \in Rows /\ state'.kinds = Kinds /\ Stands(state', c \o toks)
         /\ BatchOut(toks) = RowsAfter(c, toks)
         /\ \A i \in 1 .. Len(c) : state'.kv[i] = state.kv[i]
<1> DEFINE b == Batched(state, Embedded(state, state.len, toks))
<1>1. /\ Bad \notin Token /\ Max_seq \in Nat /\ state \in Stage(Max_seq, Token \cup {Bad})
      /\ state.kinds = Kinds
  BY MtpAssumption, Sizes DEF Rows, Types
<1>2. /\ Outputs(state, state.len, Embedded(state, state.len, toks)) = RowsAfter(c, toks)
      /\ Longer(state, b, Len(c) + Len(toks), c, toks, Max_seq, Token \cup {Bad})
  BY <1>1, BatchForward
<1>3. state' = [b EXCEPT !.pos = @ + Len(toks)]
  BY DEF ForwardBatch
<1> HIDE DEF b
<1>4. state.pos = Len(c) /\ Len(c) \in Nat /\ Len(toks) \in Nat /\ Len(c \o toks) = Len(c) + Len(toks)
  BY BeginningOfConcat DEF Stands
<1>5. /\ state' \in Stage(Max_seq, Token \cup {Bad}) /\ state'.kinds = b.kinds
      /\ state'.kv = b.kv /\ state'.rec = b.rec /\ state'.len = b.len
      /\ state'.pos = Len(c) + Len(toks)
  BY <1>2, <1>3, <1>4 DEF Stage, Longer
<1>6. QED
  BY <1>1, <1>2, <1>4, <1>5 DEF Rows, Stands, Holds, BatchOut, Longer

-----------------------------------------------------------------------------
(* The steps of the loop                                                    *)

\* The request and the sizes it gives do not change.
SameRequest == UNCHANGED request

\* The sizes depend on the request only.
LEMMA SameSizes == SameRequest => Max_seq' = Max_seq /\ Rows' = Rows
BY DEF SameRequest, request, Max_seq, Rows

\* A prefill leaves the state and the pending logits at the prompt.
LEMMA PrefillStep == IInv /\ Prefill => IInv'
<1> SUFFICES ASSUME IInv, Prefill
             PROVE  IInv'
  OBVIOUS
<1>1. /\ Types /\ phase = "prefill" /\ generated = <<>> /\ Stands(state, <<>>) /\ mtp_kv = 0
      /\ state \in Rows /\ state.kinds = Kinds
  BY DEF IInv, Phase, Prefill, Types
<1>2. /\ prompt \in Seq(Token) /\ prompt # <<>> /\ Len(prompt) \in Nat /\ Len(prompt) >= 1
      /\ Len(prompt) <= Max_seq /\ Max_seq \in Nat
  <2>1. /\ prompt \in Seq(Token) /\ Len(prompt) \in Nat /\ Len(prompt) >= 1
        /\ max_tokens \in Nat /\ k \in Nat
        /\ Max_seq \in Nat /\ Max_seq = Len(prompt) + max_tokens + k + Slack /\ Slack \in Nat
    BY <1>1, Sizes
  <2>2. prompt # <<>>
    BY <2>1
  <2>3. QED
    BY <2>1, <2>2
<1>3. Max_seq' = Max_seq /\ Rows' = Rows
  BY SameSizes DEF Prefill, SameRequest
<1>4. <<>> \in Seq(Token) /\ Len(<<>>) = 0 /\ <<>> \o prompt = prompt
  BY <1>2, EmptySeq, ConcatEmptySeq
<1>5. /\ state' \in Rows /\ state'.kinds = Kinds /\ Stands(state', prompt)
      /\ verify_logits' = prompt
  <2>1. CASE Len(prompt) > 1
    <3>1. ForwardBatch(prompt) /\ verify_logits' = Last(BatchOut(prompt))
      BY <2>1 DEF Prefill
    <3>2. Len(<<>>) + Len(prompt) <= Max_seq
      BY <1>2, <1>4
    <3>3. /\ state' \in Rows /\ state'.kinds = Kinds /\ Stands(state', <<>> \o prompt)
          /\ BatchOut(prompt) = RowsAfter(<<>>, prompt)
      BY <1>1, <1>2, <1>4, <3>1, <3>2, ForwardBatchStands
    <3>4. Last(RowsAfter(<<>>, prompt)) = <<>> \o prompt
      BY <1>2, <1>4, RowsAfterFacts
    <3>5. QED
      BY <1>4, <3>1, <3>3, <3>4
  <2>2. CASE ~(Len(prompt) > 1)
    <3>1. ForwardToken(state, prompt[1])
      BY <2>2 DEF Prefill
    <3>2. prompt[1] \in Token /\ prompt = <<prompt[1]>>
      <4>1. PICK n \in Nat : n = Len(prompt)
        BY <1>2
      <4>2. n >= 1 /\ ~(n > 1)
        BY <1>2, <2>2, <4>1
      <4>3. QED
        BY <1>2, <4>1, <4>2, OneElement
    <3>3. Len(<<>>) + 1 <= Max_seq
      BY <1>2, <1>4
    <3>4. /\ state' \in Rows /\ state'.kinds = Kinds /\ Stands(state', <<>> \o <<prompt[1]>>)
          /\ verify_logits' = <<>> \o <<prompt[1]>>
      BY <1>1, <1>4, <3>1, <3>2, <3>3, ForwardTokenStands
    <3>5. QED
      BY <1>4, <3>2, <3>4
  <2>3. QED
    BY <2>1, <2>2
<1>6. state'.len \in 0 .. Max_seq
  BY <1>2, <1>5 DEF Stands
<1>7. Types'
  BY <1>1, <1>2, <1>3, <1>5, <1>6 DEF Types, Prefill, request, Phases
<1>8. Phase'
  BY <1>1, <1>5 DEF Phase, Prefill, request
<1>9. QED
  BY <1>7, <1>8 DEF IInv

\* The first token is decided and decoded.
LEMMA BootstrapStep == IInv /\ Bootstrap => IInv'
<1> SUFFICES ASSUME IInv, Bootstrap
             PROVE  IInv'
  OBVIOUS
<1> DEFINE first == Argmax(prompt)
<1>1. /\ Types /\ phase = "bootstrap" /\ generated = <<>> /\ Stands(state, prompt)
      /\ verify_logits = prompt /\ mtp_kv = 0 /\ state \in Rows /\ state.kinds = Kinds
  BY DEF IInv, Phase, Bootstrap, Types
<1>2. /\ prompt \in Seq(Token) /\ Len(prompt) \in Nat /\ Len(prompt) >= 1
      /\ max_tokens \in Nat /\ max_tokens >= 1 /\ k \in Nat /\ k >= 1
      /\ Max_seq \in Nat /\ Max_seq = Len(prompt) + max_tokens + k + Slack /\ Slack \in Nat
  BY <1>1, Sizes
<1>3. Max_seq' = Max_seq /\ Rows' = Rows
  BY SameSizes DEF Bootstrap, SameRequest
<1>4. first \in Token
  <2>1. 1 <= Len(prompt) /\ Len(prompt) <= Max_seq
    BY <1>2
  <2>2. QED
    BY <1>1, <1>2, <2>1, PickIsToken
<1>5. /\ ForwardToken(state, first) /\ generated' = <<first>>
      /\ phase' = IF first = Eos \/ max_tokens <= 1 THEN "done" ELSE "round"
      /\ prev_hidden' = InHiddenA /\ mtp_kv' = 0 /\ prompt' = prompt /\ k' = k
      /\ max_tokens' = max_tokens
  BY <1>1 DEF Bootstrap, request
<1> HIDE DEF first
<1>6. /\ state' \in Rows /\ state'.kinds = Kinds /\ Stands(state', prompt \o <<first>>)
      /\ hidden_a' = prompt \o <<first>> /\ verify_logits' = prompt \o <<first>>
  <2>1. Len(prompt) + 1 <= Max_seq
    BY <1>2
  <2>2. QED
    BY <1>1, <1>2, <1>4, <1>5, <2>1, ForwardTokenStands
<1>7. state'.len \in 0 .. Max_seq /\ prompt \o <<first>> \in Seq(Token)
  <2>1. Len(prompt \o <<first>>) = Len(prompt) + 1 /\ prompt \o <<first>> \in Seq(Token)
    BY <1>2, <1>4
  <2>2. QED
    BY <1>2, <1>6, <2>1 DEF Stands
<1>8. Types'
  BY <1>1, <1>3, <1>4, <1>5, <1>6, <1>7 DEF Types, Bootstrap, request, Phases
<1>9. Phase'
  <2>1. Committed' = prompt \o <<first>>
    BY <1>5 DEF Committed
  <2>2. CASE phase' = "done"
    BY <2>2 DEF Phase
  <2>3. CASE phase' # "done"
    <3>1. phase' = "round" /\ first # Eos /\ max_tokens > 1
      BY <1>2, <1>5, <2>3
    <3>2. Open'
      BY <1>2, <1>5, <3>1 DEF Open
    <3>3. Stands(state', Committed') /\ Seeded(Committed)'
      BY <1>5, <1>6, <2>1 DEF Seeded, Pointee, InHiddenA
    <3>4. mtp_kv' <= (k * (Len(generated) - 1))'
      <4>1. Len(generated') - 1 = 0 /\ k * 0 = 0
        BY <1>2, <1>5
      <4>2. QED
        BY <1>5, <4>1
    <3>5. QED
      BY <3>1, <3>2, <3>3, <3>4 DEF Phase
  <2>4. QED
    BY <2>2, <2>3
<1>10. QED
  BY <1>8, <1>9 DEF IInv

\* A round starts with the pick after everything committed and a snapshot of it.
LEMMA StartRoundStep == IInv /\ StartRound => IInv'
<1> SUFFICES ASSUME IInv, StartRound
             PROVE  IInv'
  OBVIOUS
<1>1. /\ Types /\ phase = "round" /\ Open /\ Stands(state, Committed) /\ Seeded(Committed)
      /\ mtp_kv <= k * (Len(generated) - 1) /\ state \in Rows
  BY DEF IInv, Phase, StartRound, Types
<1>2. /\ Committed \in Seq(Token) /\ Len(Committed) = Len(prompt) + Len(generated)
      /\ Len(prompt) \in Nat /\ Len(prompt) >= 1 /\ Len(generated) \in Nat
      /\ max_tokens \in Nat /\ k \in Nat /\ k >= 1
      /\ Max_seq \in Nat /\ Max_seq = Len(prompt) + max_tokens + k + Slack /\ Slack \in Nat
  BY <1>1, Sizes
<1>3. t' = Argmax(Committed) /\ Argmax(Committed) \in Token
  <2>1. 1 <= Len(Committed) /\ Len(Committed) <= Max_seq
    BY <1>1, <1>2 DEF Open
  <2>2. Argmax(Committed) \in Token
    BY <1>1, <1>2, <2>1, PickIsToken
  <2>3. QED
    BY <1>1, <2>2 DEF StartRound, Seeded
<1>4. Back' = state
  BY <1>1 DEF Back, Restored, Saved, StartRound, Rows, Stage
<1>5. UNCHANGED <<request, prompt, max_tokens, k, state, hidden_a, verify_hidden, verify_logits,
                  prev_hidden, mtp_kv, verify_out, pushes, generated>>
      /\ drafts' = <<>> /\ phase' = "draft"
  BY DEF StartRound, request
<1>6. Max_seq' = Max_seq /\ Rows' = Rows /\ Committed' = Committed
  BY <1>5, SameSizes DEF SameRequest, Committed
<1>7. Types'
  BY <1>1, <1>2, <1>5, <1>6 DEF Types, Phases
<1>8. Phase'
  <2>1. InRound'
    BY <1>1, <1>3, <1>4, <1>5, <1>6 DEF InRound, Open
  <2>2. Seeded(Committed)'
    BY <1>1, <1>5, <1>6 DEF Seeded, Pointee
  <2>3. (Len(drafts) < k /\ mtp_kv <= k * (Len(generated) - 1) + Len(drafts))'
    <3>1. k * (Len(generated) - 1) \in Int
      BY <1>2, Times
    <3>2. Len(drafts') = 0
      BY <1>5
    <3>3. QED
      BY <1>1, <1>2, <1>5, <3>1, <3>2
  <2>4. QED
    BY <1>1, <1>5, <1>6, <2>1, <2>2, <2>3 DEF Phase
<1>9. QED
  BY <1>7, <1>8 DEF IInv

\* A link of the draft chain touches nothing of the model's.
LEMMA DraftLinkStep == IInv /\ DraftLink => IInv'
<1> SUFFICES ASSUME IInv, DraftLink
             PROVE  IInv'
  OBVIOUS
<1>1. /\ Types /\ phase = "draft" /\ InRound /\ Stands(state, Committed) /\ Seeded(Committed)
      /\ Len(drafts) < k /\ mtp_kv <= k * (Len(generated) - 1) + Len(drafts)
      /\ drafts \in Seq(Token) /\ mtp_kv \in Nat
  BY DEF IInv, Phase, DraftLink, Types
<1>2. k \in Nat /\ Len(generated) \in Nat /\ Len(drafts) \in Nat
  BY <1>1, Sizes
<1>3. UNCHANGED <<request, prompt, max_tokens, k, state, hidden_a, verify_hidden, verify_logits,
                  prev_hidden, snapshot, t, verify_out, pushes, generated>>
      /\ mtp_kv' = mtp_kv + 1 /\ phase' = IF Len(drafts') = k THEN "verify" ELSE "draft"
  BY DEF DraftLink, request
<1>4. drafts' \in Seq(Token) /\ Len(drafts') = Len(drafts) + 1
  <2>1. PICK d \in Token : drafts' = Append(drafts, d)
    BY DEF DraftLink
  <2>2. QED
    BY <1>1, <2>1, AppendProperties
<1>5. Max_seq' = Max_seq /\ Rows' = Rows /\ Committed' = Committed
  BY <1>3, SameSizes DEF SameRequest, Committed
<1>6. Types'
  BY <1>1, <1>2, <1>3, <1>4, <1>5 DEF Types, Phases
<1>7. Phase'
  <2>1. InRound' /\ Stands(state', Committed')
    BY <1>1, <1>3, <1>5 DEF InRound, Open, Back
  <2>2. Seeded(Committed)'
    BY <1>1, <1>3, <1>5 DEF Seeded, Pointee
  <2>3. /\ mtp_kv' <= (k * (Len(generated) - 1))' + Len(drafts')
        /\ Len(drafts') <= k' /\ (Len(drafts') = k' => mtp_kv' <= (k * Len(generated))')
    <3>1. k * (Len(generated) - 1) \in Int /\ k * (Len(generated) - 1) + k = k * Len(generated)
      BY <1>2, Times
    <3>2. QED
      BY <1>1, <1>2, <1>3, <1>4, <3>1
  <2>4. CASE Len(drafts') = k
    <3>1. phase' = "verify" /\ Len(drafts') = k'
      BY <1>3, <2>4
    <3>2. QED
      BY <2>1, <2>3, <3>1 DEF Phase
  <2>5. CASE Len(drafts') # k
    <3>1. phase' = "draft" /\ Len(drafts') < k'
      BY <1>2, <1>3, <1>4, <2>3, <2>5
    <3>2. QED
      BY <2>1, <2>2, <2>3, <3>1 DEF Phase
  <2>6. QED
    BY <2>4, <2>5
<1>8. QED
  BY <1>6, <1>7 DEF IInv

\* A verify runs the token and its drafts after the context, and what it leaves can
\* be taken back: the slots of the context are as they were.
LEMMA VerifyStep == IInv /\ Verify => IInv'
<1> SUFFICES ASSUME IInv, Verify
             PROVE  IInv'
  OBVIOUS
<1>1. /\ Types /\ phase = "verify" /\ InRound /\ Stands(state, Committed)
      /\ Len(drafts) = k /\ mtp_kv <= k * Len(generated)
      /\ drafts \in Seq(Token) /\ state \in Rows /\ t \in Token
      /\ Back \in Rows /\ Stands(Back, Committed)
  BY DEF IInv, Phase, Verify, Types, InRound
<1>2. /\ Committed \in Seq(Token) /\ Len(Committed) = Len(prompt) + Len(generated)
      /\ Len(prompt) \in Nat /\ Len(generated) \in Nat /\ Len(drafts) \in Nat
      /\ max_tokens \in Nat /\ k \in Nat /\ k >= 1
      /\ Max_seq \in Nat /\ Max_seq = Len(prompt) + max_tokens + k + Slack /\ Slack \in Nat
  BY <1>1, Sizes
<1>3. Batch \in Seq(Token) /\ Len(Batch) = k + 1 /\ Batch # <<>>
  <2>1. <<t>> \in Seq(Token) /\ Len(<<t>>) = 1
    BY <1>1
  <2>2. Batch \in Seq(Token) /\ Len(Batch) = 1 + Len(drafts)
    BY <1>1, <2>1, ConcatProperties DEF Batch
  <2>3. Len(Batch) = k + 1
    BY <1>1, <1>2, <2>2
  <2>4. Batch # <<>>
    BY <1>2, <2>3, EmptySeq
  <2>5. QED
    BY <2>2, <2>3, <2>4
<1>4. /\ state' \in Rows /\ state'.kinds = Kinds /\ Stands(state', Committed \o Batch)
      /\ BatchOut(Batch) = RowsAfter(Committed, Batch)
      /\ \A i \in 1 .. Len(Committed) : state'.kv[i] = state.kv[i]
  <2>1. Len(Committed) + Len(Batch) <= Max_seq
    BY <1>1, <1>2, <1>3 DEF InRound, Open
  <2>2. ForwardBatch(Batch)
    BY DEF Verify, Batch
  <2>3. QED
    BY <1>1, <1>2, <1>3, <2>1, <2>2, ForwardBatchStands
<1>5. UNCHANGED <<request, prompt, max_tokens, k, verify_logits, prev_hidden, snapshot,
                  mtp_kv, t, drafts, pushes, generated>>
      /\ verify_hidden' = RowsAfter(Committed, Batch) /\ verify_out' = verify_hidden'
      /\ phase' = "decide"
  BY <1>4 DEF Verify, request, Batch
<1>6. Max_seq' = Max_seq /\ Rows' = Rows /\ Committed' = Committed /\ Batch' = Batch
  BY <1>5, SameSizes DEF SameRequest, Committed, Batch
<1>7. Types'
  <2>1. state'.len \in 0 .. Max_seq
    <3>1. Len(Committed \o Batch) = Len(Committed) + Len(Batch)
      BY <1>2, <1>3, ConcatProperties
    <3>2. QED
      BY <1>1, <1>2, <1>3, <1>4, <3>1, SMTT(30) DEF Stands, InRound, Open
  <2>2. verify_out' \in Seq(Seq(Token))
    BY <1>2, <1>3, <1>5, RowsAfterFacts, Zenon
  <2>3. QED
    BY <1>1, <1>4, <1>5, <1>6, <2>1, <2>2 DEF Types, Phases
<1>8. Back' \in Rows /\ Stands(Back', Committed)
  <2>1. /\ Back.rec = snapshot.rec /\ Back.len = snapshot.len /\ Back.pos = snapshot.pos
        /\ Back.kinds = state.kinds /\ Back.kv = state.kv /\ state.kinds = Kinds
    BY <1>1 DEF Back, Restored, Rows, Stage, Types
  <2>2. /\ Back'.rec = snapshot.rec /\ Back'.len = snapshot.len /\ Back'.pos = snapshot.pos
        /\ Back'.kinds = Kinds /\ Back'.kv = state'.kv
    BY <1>4, <1>5 DEF Back, Restored, Rows, Stage
  <2>3. Back' \in Rows
    <3>1. Back' = [state' EXCEPT !.rec = Back.rec, !.len = Back.len, !.pos = Back.pos]
      BY <1>5, <2>1 DEF Back, Restored
    <3>2. QED
      BY <1>1, <1>4, <3>1 DEF Rows, Stage
  <2>4. QED
    BY <1>1, <1>4, <2>1, <2>2, <2>3 DEF Stands, Holds
<1>9. Phase'
  <2>1. InRound'
    BY <1>1, <1>5, <1>6, <1>8 DEF InRound, Open
  <2>2. QED
    BY <1>1, <1>4, <1>5, <1>6, <2>1 DEF Phase
<1>10. QED
  BY <1>7, <1>9 DEF IInv

\* With every draft right, the round's tokens are the model's picks and the state
\* after the verify is that of the context with them.
LEMMA AcceptStep == IInv /\ Accept => IInv'
<1> SUFFICES ASSUME IInv, Accept
             PROVE  IInv'
  OBVIOUS
<1>1. /\ Types /\ phase = "decide" /\ InRound /\ Stands(state, Committed \o Batch)
      /\ verify_out = RowsAfter(Committed, Batch) /\ verify_hidden = verify_out
      /\ Len(drafts) = k /\ mtp_kv <= k * Len(generated)
      /\ drafts \in Seq(Token) /\ t \in Token /\ t = Argmax(Committed)
  BY DEF IInv, Phase, Accept, Types, InRound
<1>2. /\ Committed \in Seq(Token) /\ Len(generated) \in Nat /\ Len(drafts) \in Nat
      /\ k \in Nat /\ k >= 1 /\ Len(generated) >= 1
  BY <1>1, Sizes DEF InRound, Open
<1>3. /\ Batch \in Seq(Token) /\ Len(Batch) = k + 1 /\ Batch # <<>>
      /\ Batch[1] = t /\ \A i \in 1 .. k : Batch[i + 1] = drafts[i]
  <2>1. <<t>> \in Seq(Token) /\ Len(<<t>>) = 1
    BY <1>1
  <2>2. /\ Batch \in Seq(Token) /\ Len(Batch) = 1 + Len(drafts)
        /\ \A i \in 1 .. 1 + Len(drafts) : Batch[i] = IF i <= 1 THEN <<t>>[i] ELSE drafts[i - 1]
    BY <1>1, <2>1, ConcatProperties DEF Batch
  <2>3. Len(Batch) = k + 1
    BY <1>1, <1>2, <2>2
  <2>4. Batch # <<>>
    BY <1>2, <2>3, EmptySeq
  <2>5. Batch[1] = t /\ \A i \in 1 .. k : Batch[i + 1] = drafts[i]
    BY <1>1, <1>2, <2>2
  <2>6. QED
    BY <2>2, <2>3, <2>4, <2>5
<1>4. /\ UNCHANGED <<request, prompt, max_tokens, k, state, verify_hidden, snapshot,
                     mtp_kv, t, drafts, verify_out, generated>>
      /\ pushes' = Batch /\ verify_logits' = verify_out[k + 1] /\ prev_hidden' = InVerify(k + 1)
      /\ phase' = "push" /\ AllOk
  BY DEF Accept, request, Batch, AcceptedRow
<1>5. verify_out[k + 1] = Committed \o Batch /\ Committed \o Batch \in Seq(Token)
  <2>1. Len(verify_out) = Len(Batch) /\ Last(verify_out) = Committed \o Batch
    BY <1>1, <1>2, <1>3, RowsAfterFacts, Zenon
  <2>2. Committed \o Batch \in Seq(Token)
    BY <1>2, <1>3
  <2>3. QED
    BY <1>3, <2>1, <2>2 DEF Last
<1>6. Max_seq' = Max_seq /\ Rows' = Rows /\ Committed' = Committed /\ Decided' = Committed \o Batch
  BY <1>4, SameSizes DEF SameRequest, Committed, Decided
<1>7. Types'
  BY <1>1, <1>3, <1>4, <1>5, <1>6 DEF Types, Phases
<1>8. Seeded(Decided)'
  BY <1>1, <1>4, <1>5, <1>6 DEF Seeded, Pointee, InVerify
<1>9. Greedy'
  <2>1. ASSUME NEW i \in 1 .. k + 1
        PROVE  Batch[i] = Argmax(Committed \o Begin(Batch, i - 1))
    <3>1. CASE i = 1
      <4>1. Begin(Batch, i - 1) = <<>>
        BY <3>1, SubSeqEmpty DEF Begin
      <4>2. QED
        BY <1>1, <1>2, <1>3, <3>1, <4>1, ConcatEmptySeq
    <3>2. CASE i # 1
      <4>1. PICK j \in 1 .. k : i = j + 1
        <5>1. i - 1 \in 1 .. k /\ i = (i - 1) + 1
          BY <1>2, <3>2
        <5>2. QED
          BY <5>1
      <4>2. Batch[i] = drafts[j] /\ drafts[j] = Argmax(verify_out[j]) /\ i - 1 = j
        BY <1>2, <1>3, <1>4, <4>1 DEF AllOk
      <4>3. verify_out[j] = Committed \o Begin(Batch, j)
        <5>1. j \in 1 .. Len(Batch)
          BY <1>2, <1>3
        <5>2. QED
          BY <1>1, <5>1 DEF RowsAfter
      <4>4. QED
        BY <4>2, <4>3
    <3>3. QED
      BY <3>1, <3>2
  <2>2. QED
    BY <1>3, <1>4, <1>6, <2>1 DEF Greedy
<1>10. mtp_kv' <= (k * (Len(generated) + Len(pushes) - 1))'
  <2>1. k * Len(generated) <= k * (Len(generated) + k)
    BY <1>2, Times
  <2>2. Len(generated) + Len(Batch) - 1 = Len(generated) + k
    BY <1>2, <1>3
  <2>3. k * Len(generated) \in Nat /\ k * (Len(generated) + k) \in Nat /\ mtp_kv \in Nat
    BY <1>1, <1>2 DEF Types
  <2>4. mtp_kv <= k * (Len(generated) + k)
    BY <1>1, <2>1, <2>3
  <2>5. QED
    BY <1>4, <2>2, <2>4
<1>11. Phase'
  BY <1>1, <1>2, <1>4, <1>6, <1>8, <1>9, <1>10 DEF Phase
<1>12. QED
  BY <1>7, <1>11 DEF IInv

\* With a draft wrong, the model's token is decoded on what the round started from.
LEMMA RejectStep == IInv /\ Reject => IInv'
<1> SUFFICES ASSUME IInv, Reject
             PROVE  IInv'
  OBVIOUS
<1>1. /\ Types /\ phase = "decide" /\ InRound /\ Len(drafts) = k /\ mtp_kv <= k * Len(generated)
      /\ t \in Token /\ t = Argmax(Committed) /\ Back \in Rows /\ Stands(Back, Committed)
      /\ state.kinds = Kinds /\ state \in Rows
  BY DEF IInv, Phase, Reject, Types, InRound
<1>2. /\ Committed \in Seq(Token) /\ Len(Committed) = Len(prompt) + Len(generated)
      /\ Len(prompt) \in Nat /\ Len(generated) \in Nat /\ Len(generated) >= 1
      /\ max_tokens \in Nat /\ k \in Nat /\ k >= 1 /\ Len(generated) < max_tokens
      /\ Max_seq \in Nat /\ Max_seq = Len(prompt) + max_tokens + k + Slack /\ Slack \in Nat
  BY <1>1, Sizes DEF InRound, Open
<1>3. /\ UNCHANGED <<request, prompt, max_tokens, k, verify_hidden, snapshot, mtp_kv, t, drafts,
                     verify_out, generated>>
      /\ ForwardToken(Back, t) /\ pushes' = <<t>> /\ prev_hidden' = InHiddenA /\ phase' = "push"
  BY DEF Reject, request, Back
<1>4. /\ state' \in Rows /\ state'.kinds = Kinds /\ Stands(state', Committed \o <<t>>)
      /\ hidden_a' = Committed \o <<t>> /\ verify_logits' = Committed \o <<t>>
  <2>1. Back.kinds = Kinds
    BY <1>1 DEF Back, Restored, Rows, Stage
  <2>2. Len(Committed) + 1 <= Max_seq
    BY <1>2
  <2>3. QED
    BY <1>1, <1>2, <1>3, <2>1, <2>2, ForwardTokenStands
<1>5. Max_seq' = Max_seq /\ Rows' = Rows /\ Committed' = Committed /\ Decided' = Committed \o <<t>>
  BY <1>3, SameSizes DEF SameRequest, Committed, Decided
<1>6. <<t>> \in Seq(Token) /\ Len(<<t>>) = 1 /\ Committed \o <<t>> \in Seq(Token)
      /\ Len(Committed \o <<t>>) = Len(Committed) + 1
  BY <1>1, <1>2
<1>7. Types'
  <2>1. state'.len \in 0 .. Max_seq
    BY <1>2, <1>4, <1>6 DEF Stands
  <2>2. QED
    BY <1>1, <1>3, <1>4, <1>5, <1>6, <2>1 DEF Types, Phases
<1>8. Seeded(Decided)'
  BY <1>3, <1>4, <1>5 DEF Seeded, Pointee, InHiddenA
<1>9. Greedy'
  <2>1. Begin(<<t>>, 0) = <<>>
    BY SubSeqEmpty DEF Begin
  <2>2. <<t>>[1] = Argmax(Committed \o Begin(<<t>>, 0))
    BY <1>1, <1>2, <2>1, ConcatEmptySeq
  <2>3. \A i \in 1 .. 1 : i = 1 /\ i - 1 = 0
    OBVIOUS
  <2>4. QED
    BY <1>3, <1>5, <1>6, <2>2, <2>3 DEF Greedy
<1>10. mtp_kv' <= (k * (Len(generated) + Len(pushes) - 1))'
  <2>1. Len(generated) + Len(<<t>>) - 1 = Len(generated)
    BY <1>2, <1>6
  <2>2. QED
    BY <1>1, <1>3, <2>1
<1>11. Phase'
  BY <1>2, <1>3, <1>4, <1>5, <1>8, <1>9, <1>10 DEF Phase
<1>12. QED
  BY <1>7, <1>11 DEF IInv

\* A push moves one token over; what has been decided stays as it is.
LEMMA PushStep == IInv /\ Push => IInv'
<1> SUFFICES ASSUME IInv, Push
             PROVE  IInv'
  OBVIOUS
<1> DEFINE h == Head(pushes)
           r == Tail(pushes)
<1>1. /\ Types /\ phase = "push" /\ pushes # <<>> /\ Stands(state, Decided) /\ Seeded(Decided)
      /\ Greedy /\ Len(generated) >= 1 /\ mtp_kv <= k * (Len(generated) + Len(pushes) - 1)
      /\ generated \in Seq(Token) /\ pushes \in Seq(Token)
  BY DEF IInv, Phase, Push, Types
<1>2. /\ prompt \in Seq(Token) /\ Committed \in Seq(Token)
      /\ Len(generated) \in Nat /\ Len(pushes) \in Nat
  BY <1>1, Sizes
<1>3. /\ UNCHANGED <<request, prompt, max_tokens, k, state, hidden_a, verify_hidden, verify_logits,
                     prev_hidden, snapshot, mtp_kv, t, drafts, verify_out, phase>>
      /\ generated' = Append(generated, h) /\ pushes' = r
  BY DEF Push, request
<1>4. /\ h \in Token /\ r \in Seq(Token) /\ Len(r) = Len(pushes) - 1
      /\ Append(generated, h) \in Seq(Token) /\ Len(Append(generated, h)) = Len(generated) + 1
  BY <1>1, MoveHead
<1>5. /\ Append(Committed, h) \o r = Committed \o pushes
      /\ \A i \in 1 .. Len(pushes) - 1 :
           Append(Committed, h) \o Begin(r, i - 1) = Committed \o Begin(pushes, i)
  <2> HIDE DEF Committed
  <2>1. Append(Committed, h) \o r = Committed \o pushes
    BY <1>1, <1>2, MoveHead, SMTT(30)
  <2>2. ASSUME NEW i \in 1 .. Len(pushes) - 1
        PROVE  Append(Committed, h) \o Begin(r, i - 1) = Committed \o Begin(pushes, i)
    BY <1>1, <1>2, MoveHeadPart
  <2>3. QED
    BY <2>1, <2>2
<1>6. \A i \in 1 .. Len(r) : r[i] = pushes[i + 1]
  BY <1>1, HeadTailProperties
<1> HIDE DEF h, r
<1>7. Committed' = Append(Committed, h)
  <2>1. prompt \o Append(generated, h) = Append(prompt \o generated, h)
    BY <1>1, <1>2, <1>4, AppendAfter, SMTT(30)
  <2>2. QED
    BY <1>3, <2>1 DEF Committed
<1>8. Max_seq' = Max_seq /\ Rows' = Rows /\ Decided' = Decided
  BY <1>3, <1>5, <1>7, SameSizes DEF SameRequest, Decided
<1>9. Types'
  BY <1>1, <1>3, <1>4, <1>8 DEF Types
<1>10. Greedy'
  <2>1. ASSUME NEW i \in 1 .. Len(r)
        PROVE  r[i] = Argmax(Append(Committed, h) \o Begin(r, i - 1))
    <3>1. PICK j \in 1 .. Len(pushes) : j = i + 1 /\ j - 1 = i
      BY <1>2, <1>4
    <3>2. r[i] = pushes[j]
      BY <1>6, <3>1
    <3>3. pushes[j] = Argmax(Committed \o Begin(pushes, j - 1))
      BY <1>1 DEF Greedy
    <3>4. i \in 1 .. Len(pushes) - 1
      BY <1>4
    <3>5. Append(Committed, h) \o Begin(r, i - 1) = Committed \o Begin(pushes, i)
      BY <1>5, <3>4
    <3>6. QED
      BY <3>1, <3>2, <3>3, <3>5
  <2>2. QED
    BY <1>3, <1>7, <2>1 DEF Greedy
<1>11. Phase'
  <2>1. Stands(state', Decided') /\ Seeded(Decided)'
    BY <1>1, <1>3, <1>8 DEF Seeded, Pointee
  <2>2. Len(generated') + Len(pushes') - 1 = Len(generated) + Len(pushes) - 1 /\ Len(generated') >= 1
    BY <1>1, <1>2, <1>3, <1>4
  <2>3. mtp_kv' <= (k * (Len(generated) + Len(pushes) - 1))'
    BY <1>1, <1>3, <2>2
  <2>4. QED
    BY <1>1, <1>3, <1>10, <2>1, <2>2, <2>3 DEF Phase
<1>12. QED
  BY <1>9, <1>11 DEF IInv

-----------------------------------------------------------------------------
(* Cutting the output off                                                   *)

\* How much of an output is kept, and what: up to its first end-of-sequence token
\* if it has one, else up to a limit.
Kept(ts, mx) == IF Places(ts) # {} THEN AfterEos(ts) ELSE Smaller(Len(ts), mx)
Cut(ts, mx) == Begin(ts, Kept(ts, mx))

\* What of it is within the limit.
Within(ts, mx) == Begin(ts, Smaller(Len(ts), mx))

\* The smaller of two numbers.
LEMMA SmallerIs ==
  ASSUME NEW a \in Nat, NEW b \in Nat
  PROVE  /\ Smaller(a, b) \in Nat /\ Smaller(a, b) <= a /\ Smaller(a, b) <= b
         /\ (a <= b => Smaller(a, b) = a) /\ (b <= a => Smaller(a, b) = b)
BY DEF Smaller

\* CutOff as a beginning of the output.
LEMMA CutOffIsCut == CutOff(generated) = Cut(generated, max_tokens)
BY DEF CutOff, Cut, Kept, WithinLimit, Begin

\* The place of the first end-of-sequence token, and that there is only one such.
LEMMA FirstEos ==
  ASSUME NEW ts \in Seq(Token), Places(ts) # {}
  PROVE  /\ AfterEos(ts) \in 1 .. Len(ts) /\ ts[AfterEos(ts)] = Eos
         /\ \A j \in 1 .. Len(ts) : ts[j] = Eos => AfterEos(ts) <= j
<1>1. Places(ts) \subseteq Nat
  BY DEF Places
<1>2. \E i \in Places(ts) : \A j \in Places(ts) : i <= j
  BY <1>1, LeastElement
<1>3. AfterEos(ts) \in Places(ts) /\ \A j \in Places(ts) : AfterEos(ts) <= j
  BY <1>2 DEF AfterEos
<1>4. QED
  BY <1>3 DEF Places

\* A place that has no end-of-sequence token before it is the first.
LEMMA FirstEosIs ==
  ASSUME NEW ts \in Seq(Token), NEW i \in 1 .. Len(ts), ts[i] = Eos,
         \A j \in 1 .. Len(ts) : ts[j] = Eos => i <= j
  PROVE  Places(ts) # {} /\ AfterEos(ts) = i
<1>1. i \in Places(ts)
  BY DEF Places
<1>2. AfterEos(ts) \in 1 .. Len(ts) /\ ts[AfterEos(ts)] = Eos
      /\ \A j \in 1 .. Len(ts) : ts[j] = Eos => AfterEos(ts) <= j
  BY <1>1, FirstEos
<1>3. AfterEos(ts) <= i /\ i <= AfterEos(ts)
  BY <1>2
<1> DEFINE e == AfterEos(ts)
<1>4. e \in Int /\ i \in Int
  BY <1>2
<1> HIDE DEF e
<1>5. e = i
  BY <1>3, <1>4 DEF e
<1>6. QED
  BY <1>1, <1>5 DEF e

\* What is cut off is a beginning.
LEMMA CutFacts ==
  ASSUME NEW ts \in Seq(Token), NEW mx \in Nat
  PROVE  /\ Kept(ts, mx) \in 0 .. Len(ts)
         /\ Cut(ts, mx) \in Seq(Token) /\ Len(Cut(ts, mx)) = Kept(ts, mx)
         /\ Places(ts) = {} /\ Len(ts) <= mx => Cut(ts, mx) = ts
<1>1. Len(ts) \in Nat
  OBVIOUS
<1>2. Kept(ts, mx) \in 0 .. Len(ts)
  <2>1. CASE Places(ts) # {}
    BY <1>1, <2>1, FirstEos DEF Kept
  <2>2. CASE Places(ts) = {}
    BY <1>1, <2>2, SmallerIs DEF Kept
  <2>3. QED
    BY <2>1, <2>2
<1>3. Cut(ts, mx) \in Seq(Token) /\ Len(Cut(ts, mx)) = Kept(ts, mx)
  BY <1>2, Beginning DEF Cut
<1>4. ASSUME Places(ts) = {}, Len(ts) <= mx
      PROVE  Cut(ts, mx) = ts
  <2>1. Kept(ts, mx) = Len(ts)
    BY <1>1, <1>4, SmallerIs DEF Kept
  <2>2. QED
    BY <2>1, SubSeqFull DEF Cut, Begin
<1>5. QED
  BY <1>2, <1>3, <1>4

\* A round's end cuts the output off and goes on only if nothing was to be cut.
LEMMA EndRoundStep == IInv /\ EndRound => IInv'
<1> SUFFICES ASSUME IInv, EndRound
             PROVE  IInv'
  OBVIOUS
<1>1. /\ Types /\ phase = "push" /\ pushes = <<>> /\ Stands(state, Decided) /\ Seeded(Decided)
      /\ Len(generated) >= 1 /\ mtp_kv <= k * (Len(generated) + Len(pushes) - 1)
      /\ generated \in Seq(Token) /\ max_tokens \in Nat
  BY Sizes DEF IInv, Phase, EndRound, Types
<1>2. Committed \in Seq(Token) /\ Len(generated) \in Nat /\ Len(pushes) = 0
  BY <1>1, Sizes
<1>3. /\ UNCHANGED <<request, prompt, max_tokens, k, state, hidden_a, verify_hidden, verify_logits,
                     prev_hidden, mtp_kv, drafts, verify_out, pushes>>
      /\ generated' = Cut(generated, max_tokens)
      /\ phase' = IF Places(generated) # {} \/ Len(generated) >= max_tokens
                    THEN "done" ELSE "round"
  BY CutOffIsCut DEF EndRound, request
<1>4. generated' \in Seq(Token)
  BY <1>1, <1>3, CutFacts
<1>5. Max_seq' = Max_seq /\ Rows' = Rows
  BY <1>3, SameSizes DEF SameRequest
<1>6. Types'
  BY <1>1, <1>3, <1>4, <1>5 DEF Types, Phases
<1>7. Phase'
  <2>1. CASE phase' = "done"
    BY <2>1 DEF Phase
  <2>2. CASE phase' # "done"
    <3>1. phase' = "round" /\ Places(generated) = {} /\ Len(generated) < max_tokens
      BY <1>1, <1>2, <1>3, <2>2
    <3>2. generated' = generated
      <4>1. Len(generated) <= max_tokens
        BY <1>1, <1>2, <3>1
      <4>2. QED
        BY <1>1, <1>3, <3>1, <4>1, CutFacts
    <3>3. Open'
      BY <1>1, <1>3, <3>1, <3>2 DEF Open, Places
    <3>4. Committed' = Committed /\ Decided = Committed
      BY <1>1, <1>2, <1>3, <3>2, ConcatEmptySeq DEF Committed, Decided
    <3>5. Stands(state', Committed') /\ Seeded(Committed)'
      BY <1>1, <1>3, <3>4 DEF Seeded, Pointee
    <3>6. mtp_kv' <= (k * (Len(generated) - 1))'
      <4>1. Len(generated) + Len(pushes) - 1 = Len(generated) - 1
        BY <1>2
      <4>2. QED
        BY <1>1, <1>3, <3>2, <4>1
    <3>7. QED
      BY <3>1, <3>3, <3>5, <3>6 DEF Phase
  <2>3. QED
    BY <2>1, <2>2
<1>8. QED
  BY <1>6, <1>7 DEF IInv

-----------------------------------------------------------------------------
(* The invariant                                                            *)

\* A request that starts satisfies the invariant.
LEMMA InitInvariant == Init => IInv
<1> SUFFICES ASSUME Init
             PROVE  IInv
  OBVIOUS
<1>1. prompt \in Prompts /\ max_tokens \in Lengths /\ k \in Drafts
  BY DEF Init
<1>2. Max_seq \in Nat
  <2>1. prompt \in Seq(Token) /\ max_tokens \in Nat /\ k \in Nat /\ Slack \in Nat
    BY <1>1, MtpAssumption
  <2>2. QED
    BY <2>1 DEF Max_seq
<1>3. /\ state \in Stage(Max_seq, Token \cup {Bad}) /\ state.kinds = Kinds
      /\ Stands(state, <<>>)
  <2>1. Kinds \in (SUBSET {"full", "linear"}) \ {{}}
    BY MtpAssumption
  <2>2. state = NewStage(Kinds, Max_seq)
    BY DEF Init
  <2>3. QED
    BY <1>2, <2>1, <2>2, NewStageStands
<1>4. <<>> \in Seq(Token) /\ Len(<<>>) = 0 /\ <<>> \in Seq(Seq(Token))
  BY EmptySeq
<1>5. state.len \in 0 .. Max_seq
  BY <1>2, <1>3, <1>4 DEF Stands
<1>6. k \in Nat
  BY <1>1, MtpAssumption
<1>7. Types
  BY <1>1, <1>3, <1>4, <1>5, <1>6 DEF Types, Init, Rows, Phases
<1>8. Phase
  BY <1>3 DEF Phase, Init
<1>9. QED
  BY <1>7, <1>8 DEF IInv

\* A step that changes nothing.
LEMMA StutterStep == IInv /\ UNCHANGED vars => IInv'
<1> SUFFICES ASSUME IInv, UNCHANGED vars
             PROVE  IInv'
  OBVIOUS
<1>1. UNCHANGED <<prompt, max_tokens, k, state, d_pos, hidden_a, verify_hidden, verify_logits,
                  prev_hidden, snapshot, mtp_kv, mtp_pos, t, drafts, verify_out, pushes,
                  generated, phase>>
  BY DEF vars
<1>2. /\ Max_seq' = Max_seq /\ Rows' = Rows /\ Committed' = Committed /\ Decided' = Decided
      /\ Back' = Back /\ Batch' = Batch
  BY <1>1 DEF Max_seq, Rows, Committed, Decided, Back, Batch
<1>3. Types'
  BY <1>1, <1>2 DEF IInv, Types
<1>4. InRound' = InRound /\ Greedy' = Greedy /\ Open' = Open
  BY <1>1, <1>2 DEF InRound, Open, Greedy
<1>5. Seeded(Committed)' = Seeded(Committed) /\ Seeded(Decided)' = Seeded(Decided)
  BY <1>1, <1>2 DEF Seeded, Pointee
<1>6. Phase'
  BY <1>1, <1>2, <1>4, <1>5 DEF IInv, Phase
<1>7. QED
  BY <1>3, <1>6 DEF IInv

\* Every step keeps the invariant.
LEMMA StepInvariant == IInv /\ [Next]_vars => IInv'
<1> SUFFICES ASSUME IInv, [Next]_vars
             PROVE  IInv'
  OBVIOUS
<1>1. CASE Next
  BY <1>1, PrefillStep, BootstrapStep, StartRoundStep, DraftLinkStep, VerifyStep,
     AcceptStep, RejectStep, PushStep, EndRoundStep, StutterStep DEF Next, Returned
<1>2. CASE UNCHANGED vars
  BY <1>2, StutterStep
<1>3. QED
  BY <1>1, <1>2

\* The invariant holds in every state of every behaviour.
LEMMA Invariance == Spec => []IInv
BY InitInvariant, StepInvariant, PTL DEF Spec

-----------------------------------------------------------------------------
(* What it implies                                                          *)

\* Types are kept; in particular only rows made of tokens, each after its own
\* predecessor, ever reach the pending logits and the verify's output.
THEOREM TypeCorrect == Spec => []TypeOK
<1>1. ASSUME IInv
      PROVE  TypeOK
  <2>1. \A i \in DOMAIN verify_out : verify_out[i] \in Seq(Token)
    <3>1. verify_out \in Seq(Seq(Token))
      BY <1>1 DEF IInv, Types
    <3>2. DOMAIN verify_out = 1 .. Len(verify_out)
      BY <3>1
    <3>3. QED
      BY <3>1, <3>2, ElementOfSeq
  <2>2. QED
    BY <1>1, <2>1 DEF IInv, Types, TypeOK
<1>2. QED
  BY <1>1, Invariance, PTL

\* Whenever a round starts, the caches, the recurrent state, the lengths and the
\* pending logits stand for exactly the prompt and the output (snapshot.save and
\* restore, the re-decode of t), whatever was drafted and rejected before.
THEOREM StateCorrect == Spec => []StateIsCommitted
<1>1. ASSUME IInv
      PROVE  StateIsCommitted
  <2>1. SUFFICES ASSUME phase = "round"
                 PROVE  /\ state.len = Len(Committed) /\ state.pos = state.len
                        /\ "linear" \in Kinds => state.rec = Committed
                        /\ "full" \in Kinds =>
                             \A i \in 1 .. state.len : state.kv[i] = SubSeq(Committed, 1, i)
                        /\ verify_logits = Committed
    BY DEF StateIsCommitted
  <2>2. Stands(state, Committed) /\ Seeded(Committed) /\ state.kinds = Kinds
    BY <1>1, <2>1 DEF IInv, Phase, Types
  <2>3. QED
    BY <2>2 DEF Stands, Holds, Seeded, Begin
<1>2. QED
  BY <1>1, Invariance, PTL

\* While a round is being drafted, the buffer prev_hidden points at still holds the
\* hidden state of the last committed token.
THEOREM SeedCorrect == Spec => []SeedFresh
<1>1. ASSUME IInv
      PROVE  SeedFresh
  BY <1>1 DEF IInv, Phase, Seeded, SeedFresh
<1>2. QED
  BY <1>1, Invariance, PTL

\* No verify runs over the caches and no draft over the drafter's: the sizes
\* qwen_mtp_gen_cli computes are enough for every prompt, length and k.
THEOREM NeverOverruns == Spec => []NoOverrun
<1>1. ASSUME IInv
      PROVE  NoOverrun
  <2>1. /\ Len(prompt) \in Nat /\ max_tokens \in Nat /\ k \in Nat /\ k >= 1
        /\ Max_seq \in Nat /\ Max_seq = Len(prompt) + max_tokens + k + Slack /\ Slack \in Nat
        /\ Len(Committed) = Len(prompt) + Len(generated)
        /\ Len(generated) \in Nat /\ Len(drafts) \in Nat
    BY <1>1, Sizes DEF IInv
  <2>2. state.len \in 0 .. Max_seq /\ mtp_kv \in Nat
    BY <1>1 DEF IInv, Types
  <2>3. ASSUME phase = "verify"
        PROVE  state.len + k + 1 <= Max_seq
    <3>1. Stands(state, Committed) /\ Len(generated) < max_tokens
      BY <1>1, <2>3 DEF IInv, Phase, InRound, Open
    <3>2. QED
      BY <2>1, <3>1 DEF Stands
  <2>4. ASSUME phase = "draft"
        PROVE  mtp_kv < Mtp_cap
    <3>1. /\ Len(drafts) < k /\ mtp_kv <= k * (Len(generated) - 1) + Len(drafts)
          /\ Len(generated) < max_tokens
      BY <1>1, <2>4 DEF IInv, Phase, InRound, Open
    <3>2. PICK d \in Nat : max_tokens = Len(generated) + d
      <4>1. max_tokens - Len(generated) \in Nat
            /\ max_tokens = Len(generated) + (max_tokens - Len(generated))
        BY <2>1, <3>1
      <4>2. QED
        BY <4>1
    <3>3. /\ k * (Len(generated) - 1) \in Int /\ k * Len(generated) \in Nat
          /\ k * (Len(generated) - 1) + k = k * Len(generated)
          /\ k * Len(generated) <= k * max_tokens
      BY <2>1, <3>2, Times
    <3>4. k * max_tokens \in Nat /\ MtpSlack \in Nat
      BY <2>1, MtpAssumption, Times
    <3>5. QED
      BY <2>1, <2>2, <3>1, <3>3, <3>4 DEF Mtp_cap
  <2>5. QED
    BY <2>2, <2>3, <2>4 DEF NoOverrun
<1>2. QED
  BY <1>1, Invariance, PTL

-----------------------------------------------------------------------------
(* The output is the one of plain decoding                                  *)

\* Output that is within the limit and has nothing to cut off, and the same with a
\* token more.
LEMMA CutGrows ==
  ASSUME NEW ts \in Seq(Token), NEW mx \in Nat, NEW x \in Token,
         Places(ts) = {}, Len(ts) < mx
  PROVE  /\ Within(Cut(ts, mx), mx) = ts
         /\ Within(Cut(Append(ts, x), mx), mx) = Append(ts, x)
<1> DEFINE tx == Append(ts, x)
<1>1. /\ Len(ts) \in Nat /\ tx \in Seq(Token) /\ Len(tx) = Len(ts) + 1
      /\ \A i \in 1 .. Len(ts) : tx[i] = ts[i]
  BY AppendProperties
<1> HIDE DEF tx
<1>2. ASSUME NEW c \in Seq(Token), Len(c) <= mx
      PROVE  Within(c, mx) = c
  <2>1. Len(c) \in Nat
    OBVIOUS
  <2>2. Smaller(Len(c), mx) = Len(c)
    BY <1>2, <2>1, SmallerIs
  <2>3. QED
    BY <2>2, SubSeqFull DEF Within, Begin
<1>3. Cut(ts, mx) = ts
  <2>1. Len(ts) <= mx
    BY <1>1
  <2>2. QED
    BY <2>1, CutFacts, Zenon
<1>4. Cut(tx, mx) = tx
  <2>1. CASE Places(tx) = {}
    <3>1. Len(tx) <= mx
      BY <1>1
    <3>2. QED
      BY <1>1, <2>1, <3>1, CutFacts, Zenon
  <2>2. CASE Places(tx) # {}
    <3>1. AfterEos(tx) \in 1 .. Len(tx) /\ tx[AfterEos(tx)] = Eos
      BY <1>1, <2>2, FirstEos
    <3>2. \A i \in 1 .. Len(ts) : tx[i] # Eos
      BY <1>1 DEF Places
    <3>3. AfterEos(tx) = Len(tx)
      <4>1. PICK e \in Nat : e = AfterEos(tx)
        BY <1>1, <3>1
      <4>2. e = Len(ts) + 1
        BY <1>1, <3>1, <3>2, <4>1
      <4>3. QED
        BY <1>1, <4>1, <4>2
    <3>4. QED
      BY <1>1, <2>2, <3>3, SubSeqFull DEF Cut, Kept, Begin
  <2>3. QED
    BY <2>1, <2>2
<1>5. Within(ts, mx) = ts /\ Within(tx, mx) = tx
  BY <1>1, <1>2
<1>6. QED
  BY <1>3, <1>4, <1>5 DEF tx

\* A token more after output that is complete changes nothing that is kept.
LEMMA CutStays ==
  ASSUME NEW ts \in Seq(Token), NEW mx \in Nat, NEW x \in Token,
         Places(ts) # {} \/ Len(ts) >= mx
  PROVE  Within(Cut(Append(ts, x), mx), mx) = Within(Cut(ts, mx), mx)
<1> DEFINE tx == Append(ts, x)
<1>1. /\ Len(ts) \in Nat /\ tx \in Seq(Token) /\ Len(tx) = Len(ts) + 1
      /\ \A i \in 1 .. Len(ts) : tx[i] = ts[i]
  BY AppendProperties
<1>2. ASSUME NEW n \in 0 .. Len(ts)
      PROVE  Begin(tx, n) = Begin(ts, n)
  <2> DEFINE y == <<x>>
  <2>1. y \in Seq(Token)
    OBVIOUS
  <2>2. tx = ts \o y
    BY AppendIsConcat
  <2> HIDE DEF tx, y
  <2>3. Begin(ts \o y, n) = Begin(ts, n)
    BY <2>1, BeginningOfConcat
  <2>4. QED
    BY <2>2, <2>3
<1> HIDE DEF tx
<1>3. ASSUME NEW c \in Seq(Token)
      PROVE  /\ Kept(c, mx) \in 0 .. Len(c) /\ Smaller(Kept(c, mx), mx) \in 0 .. Kept(c, mx)
             /\ Smaller(Kept(c, mx), mx) \in 0 .. Len(c)
             /\ Within(Cut(c, mx), mx) = Begin(c, Smaller(Kept(c, mx), mx))
  <2>1. Kept(c, mx) \in 0 .. Len(c) /\ Len(Cut(c, mx)) = Kept(c, mx)
    BY CutFacts
  <2>2. PICK n \in 0 .. Len(c) : n = Kept(c, mx)
    BY <2>1
  <2>3. n \in Nat /\ Len(c) \in Nat
    OBVIOUS
  <2>4. Smaller(n, mx) \in 0 .. n /\ Smaller(n, mx) \in 0 .. Len(c)
    BY <2>2, <2>3, SmallerIs, SMTT(30)
  <2>5. Begin(Begin(c, n), Smaller(n, mx)) = Begin(c, Smaller(n, mx))
    BY <2>4, BeginningOfBeginning
  <2>6. QED
    BY <2>1, <2>2, <2>4, <2>5 DEF Within, Cut
<1>4. Smaller(Kept(tx, mx), mx) = Smaller(Kept(ts, mx), mx)
  <2>1. CASE Places(ts) # {}
    <3>1. PICK e \in 1 .. Len(ts) : e = AfterEos(ts) /\ ts[e] = Eos
                                    /\ \A j \in 1 .. Len(ts) : ts[j] = Eos => e <= j
      BY <2>1, FirstEos
    <3>2. /\ e \in 1 .. Len(tx) /\ tx[e] = Eos
          /\ \A j \in 1 .. Len(tx) : tx[j] = Eos => e <= j
      BY <1>1, <3>1
    <3>3. Places(tx) # {} /\ AfterEos(tx) = e
      BY <1>1, <3>2, FirstEosIs
    <3>4. QED
      BY <2>1, <3>1, <3>3 DEF Kept
  <2>2. CASE Places(ts) = {}
    <3>1. Len(ts) >= mx /\ Kept(ts, mx) = mx
      BY <1>1, <2>2, SmallerIs DEF Kept
    <3>2. Smaller(Kept(ts, mx), mx) = mx
      BY <3>1, SmallerIs
    <3>3. CASE Places(tx) = {}
      <4>1. mx <= Len(tx) /\ Len(tx) \in Nat
        BY <1>1, <3>1
      <4>2. Kept(tx, mx) = mx
        BY <3>3, <4>1, SmallerIs DEF Kept
      <4>3. QED
        BY <3>1, <3>2, <4>2
    <3>4. CASE Places(tx) # {}
      <4>1. PICK e \in 1 .. Len(tx) : e = AfterEos(tx) /\ tx[e] = Eos
        BY <1>1, <3>4, FirstEos
      <4>2. \A i \in 1 .. Len(ts) : tx[i] # Eos
        BY <1>1, <2>2 DEF Places
      <4>3. e = Len(ts) + 1
        BY <1>1, <4>1, <4>2
      <4>4. e \in Nat /\ mx <= e
        BY <1>1, <3>1, <4>3
      <4>5. Smaller(e, mx) = mx
        BY <4>4, SmallerIs
      <4>6. QED
        BY <3>2, <3>4, <4>1, <4>5 DEF Kept
    <3>5. QED
      BY <3>3, <3>4
  <2>3. QED
    BY <2>1, <2>2
<1>5. Begin(tx, Smaller(Kept(ts, mx), mx)) = Begin(ts, Smaller(Kept(ts, mx), mx))
  BY <1>2, <1>3
<1>6. QED
  BY <1>1, <1>3, <1>4, <1>5 DEF tx

\* Cutting off twice is cutting off once.
LEMMA CutTwice ==
  ASSUME NEW ts \in Seq(Token), NEW mx \in Nat
  PROVE  Cut(Cut(ts, mx), mx) = Cut(ts, mx)
<1> DEFINE c == Cut(ts, mx)
<1>1. Len(ts) \in Nat /\ Kept(ts, mx) \in 0 .. Len(ts) /\ c \in Seq(Token) /\ Len(c) = Kept(ts, mx)
  <2>1. Kept(ts, mx) \in 0 .. Len(ts) /\ c \in Seq(Token) /\ Len(c) = Kept(ts, mx)
    BY CutFacts, Zenon
  <2>2. QED
    BY <2>1
<1>2. \A i \in 1 .. Kept(ts, mx) : c[i] = ts[i]
  BY <1>1, Beginning DEF Cut
<1> HIDE DEF c
<1>3. CASE Places(ts) # {}
  <2>1. PICK e \in 1 .. Len(ts) : e = AfterEos(ts) /\ ts[e] = Eos
                                  /\ \A j \in 1 .. Len(ts) : ts[j] = Eos => e <= j
    BY <1>3, FirstEos
  <2>2. Kept(ts, mx) = e
    BY <1>3, <2>1 DEF Kept
  <2>3. /\ e \in 1 .. Len(c) /\ c[e] = Eos
        /\ \A j \in 1 .. Len(c) : c[j] = Eos => e <= j
    BY <1>1, <1>2, <2>1, <2>2
  <2>4. Places(c) # {} /\ AfterEos(c) = e
    BY <1>1, <2>3, FirstEosIs
  <2>5. Kept(c, mx) = Len(c)
    BY <1>1, <2>2, <2>4 DEF Kept
  <2>6. QED
    BY <1>1, <2>5, SubSeqFull DEF Cut, Begin, c
<1>4. CASE Places(ts) = {}
  <2>1. Kept(ts, mx) <= mx
    BY <1>1, <1>4, SmallerIs DEF Kept
  <2>2. Places(c) = {}
    BY <1>1, <1>2, <1>4 DEF Places
  <2>3. Cut(c, mx) = c
    BY <1>1, <2>1, <2>2, CutFacts
  <2>4. QED
    BY <2>3 DEF c
<1>5. QED
  BY <1>3, <1>4

\* Output with an end-of-sequence token or of the length asked for is complete.
Complete(out, mx) == (\E i \in 1 .. Len(out) : out[i] = Eos) \/ Len(out) >= mx

\* Output that has an end or the length asked for is still complete when cut off.
LEMMA CutComplete ==
  ASSUME NEW ts \in Seq(Token), NEW mx \in Nat, Places(ts) # {} \/ Len(ts) >= mx
  PROVE  Complete(Within(Cut(ts, mx), mx), mx)
<1> DEFINE c == Cut(ts, mx)
           w == Within(c, mx)
<1>1. Kept(ts, mx) \in 0 .. Len(ts) /\ c \in Seq(Token) /\ Len(c) = Kept(ts, mx)
  BY CutFacts, Zenon
<1>2. \A i \in 1 .. Kept(ts, mx) : c[i] = ts[i]
  BY <1>1, Beginning DEF Cut
<1> HIDE DEF c
<1>3. PICK n \in 0 .. Len(ts) : n = Kept(ts, mx)
  BY <1>1
<1>4. n \in Nat /\ Smaller(n, mx) \in 0 .. n
  <2>1. n \in Nat
    OBVIOUS
  <2>2. Smaller(n, mx) \in Nat /\ Smaller(n, mx) <= n
    BY <2>1, SmallerIs
  <2>3. QED
    BY <2>1, <2>2
<1>5. /\ w \in Seq(Token) /\ Len(w) = Smaller(n, mx)
      /\ \A i \in 1 .. Smaller(n, mx) : w[i] = c[i]
  <2>1. c \in Seq(Token) /\ Len(c) = n
    BY <1>1, <1>3
  <2>2. PICK m \in 0 .. Len(c) : m = Smaller(n, mx)
    BY <1>4, <2>1
  <2>3. w = Begin(c, m)
    BY <1>1, <1>3, <2>2 DEF Within
  <2> HIDE DEF w
  <2>4. w \in Seq(Token) /\ Len(w) = m /\ \A i \in 1 .. m : w[i] = c[i]
    BY <2>1, <2>3, Beginning
  <2>5. QED
    BY <2>2, <2>4
<1> HIDE DEF w
<1>6. CASE mx <= n
  <2>1. Len(w) = mx
    BY <1>4, <1>5, <1>6, SmallerIs
  <2>2. QED
    BY <2>1 DEF Complete, w, c
<1>7. CASE ~(mx <= n)
  <2>1. Smaller(n, mx) = n
    BY <1>4, <1>7, SmallerIs
  <2>2. Places(ts) # {}
    <3>1. SUFFICES ASSUME Places(ts) = {}
                   PROVE  FALSE
      OBVIOUS
    <3>2. Len(ts) \in Nat /\ mx <= Len(ts)
      BY <3>1
    <3>3. Smaller(Len(ts), mx) = mx /\ Kept(ts, mx) = Smaller(Len(ts), mx)
      BY <3>1, <3>2, SmallerIs DEF Kept
    <3>4. QED
      BY <1>3, <1>7, <3>3
  <2>3. PICK e \in 1 .. Len(ts) : e = AfterEos(ts) /\ ts[e] = Eos
    BY <2>2, FirstEos
  <2>4. n = e
    BY <1>3, <2>2, <2>3 DEF Kept
  <2>5. e \in 1 .. Len(w) /\ w[e] = Eos
    BY <1>2, <1>3, <1>4, <1>5, <2>1, <2>3, <2>4
  <2>6. QED
    BY <2>5 DEF Complete, w, c
<1>8. QED
  BY <1>6, <1>7

\* The output as plain decoding sees it.
Output == Within(Cut(generated, max_tokens), max_tokens)

\* The refinement mapping's output, now and after a step.
LEMMA OutputIs ==
  /\ WithinLimit(CutOff(generated)) = Output
  /\ WithinLimit(CutOff(generated))' = Output'
BY DEF Output, WithinLimit, CutOff, Within, Cut, Kept, Begin

\* A request that starts is one of plain decoding.
LEMMA InitImplements == Init => Plain!Init
<1> SUFFICES ASSUME Init
             PROVE  Plain!Init
  OBVIOUS
<1>1. prompt \in Seq(Token) /\ max_tokens \in Nat /\ generated = <<>> /\ phase # "done"
  BY MtpAssumption DEF Init
<1>2. generated \in Seq(Token) /\ Len(generated) = 0 /\ Places(generated) = {}
  BY <1>1, EmptySeq DEF Places
<1>3. Output = <<>>
  <2>1. Kept(generated, max_tokens) \in 0 .. Len(generated)
        /\ Cut(generated, max_tokens) \in Seq(Token)
        /\ Len(Cut(generated, max_tokens)) = Kept(generated, max_tokens)
    BY <1>1, <1>2, CutFacts, Zenon
  <2>2. Len(Cut(generated, max_tokens)) = 0
    BY <1>2, <2>1
  <2>3. Smaller(0, max_tokens) = 0
    BY <1>1 DEF Smaller
  <2>4. QED
    BY <2>2, <2>3, SubSeqEmpty DEF Output, Within, Begin
<1>4. QED
  BY <1>1, <1>3, OutputIs DEF Plain!Init

\* A token that is pushed within the limit is one step of plain decoding.
LEMMA EmitIsPlain ==
  ASSUME Types, phase # "done", Places(generated) = {}, Len(generated) < max_tokens,
         generated' = Append(generated, Argmax(Committed)), Argmax(Committed) \in Token,
         UNCHANGED <<prompt, max_tokens>>
  PROVE  Plain!Emit
<1>1. generated \in Seq(Token) /\ max_tokens \in Nat
  BY Sizes DEF Types
<1>2. Output = generated /\ Output' = Append(generated, Argmax(Committed))
  BY <1>1, CutGrows DEF Output
<1>3. Eos \notin Plain!Emitted
  BY <1>1, <1>2, OutputIs DEF Plain!Emitted, Places
<1>4. Argmax(Committed) \in Plain!Picks(FALSE, prompt \o Output)
  BY <1>2 DEF Plain!Picks, Committed
<1>5. QED
  BY <1>2, <1>3, <1>4, OutputIs DEF Plain!Emit

\* A step that leaves the request and the output as they are, and does not return,
\* is none of plain decoding.
LEMMA QuietIsPlain ==
  ASSUME UNCHANGED <<prompt, max_tokens>>, Output' = Output, phase # "done", phase' # "done"
  PROVE  UNCHANGED Plain!vars
BY OutputIs DEF Plain!vars

\* Complete output is what plain decoding stops at.
LEMMA CompleteIsFinished ==
  ASSUME Output' \in Seq(Token), Complete(Output', max_tokens')
  PROVE  Plain!Finished'
BY OutputIs DEF Complete, Plain!Finished, Plain!Emitted

\* The output as plain decoding sees it is a sequence of tokens.
LEMMA OutputType == Types => Output \in Seq(Token)
<1> SUFFICES ASSUME Types
             PROVE  Output \in Seq(Token)
  OBVIOUS
<1> DEFINE c == Cut(generated, max_tokens)
<1>1. max_tokens \in Nat /\ generated \in Seq(Token)
  BY Sizes DEF Types
<1>2. c \in Seq(Token)
  BY <1>1, CutFacts, Zenon
<1> HIDE DEF c
<1>3. Smaller(Len(c), max_tokens) \in 0 .. Len(c)
  <2>1. PICK n \in Nat : n = Len(c)
    BY <1>2
  <2>2. Smaller(n, max_tokens) \in 0 .. n
    BY <1>1, SmallerIs
  <2>3. QED
    BY <2>1, <2>2
<1>4. QED
  BY <1>2, <1>3, Beginning DEF Output, Within, c

\* The first token is a step of plain decoding, and its last if the loop ends.
LEMMA BootstrapImplements == IInv /\ Bootstrap => Plain!Next
<1> SUFFICES ASSUME IInv, Bootstrap
             PROVE  Plain!Next
  OBVIOUS
<1>1. /\ Types /\ Types' /\ phase = "bootstrap" /\ generated = <<>> /\ verify_logits = prompt
  BY BootstrapStep DEF IInv, Phase, Bootstrap
<1>2. /\ prompt \in Seq(Token) /\ 1 <= Len(prompt) /\ Len(prompt) <= Max_seq
      /\ max_tokens \in Nat /\ max_tokens >= 1
  BY <1>1, Sizes
<1> DEFINE first == Argmax(prompt)
<1>3. Committed = prompt /\ Argmax(Committed) = first /\ first \in Token
  <2>1. Committed = prompt
    BY <1>1, <1>2, ConcatEmptySeq DEF Committed
  <2>2. QED
    BY <1>1, <1>2, <2>1, PickIsToken
<1>4. /\ generated' = <<first>> /\ UNCHANGED <<prompt, max_tokens>>
      /\ phase' = IF first = Eos \/ max_tokens <= 1 THEN "done" ELSE "round"
  BY <1>1 DEF Bootstrap, request
<1> HIDE DEF first
<1>5. Places(generated) = {} /\ Len(generated) = 0
  BY <1>1 DEF Places
<1>6. Plain!Emit
  <2>1. generated' = Append(generated, Argmax(Committed)) /\ Argmax(Committed) \in Token
    BY <1>1, <1>3, <1>4
  <2>2. phase # "done" /\ Len(generated) < max_tokens
    BY <1>1, <1>2, <1>5
  <2>3. QED
    BY <1>1, <1>3, <1>4, <1>5, <2>1, <2>2, EmitIsPlain
<1>7. CASE phase' = "round"
  BY <1>6, <1>7 DEF Plain!Next
<1>8. CASE phase' = "done"
  <2>1. Places(generated') # {} \/ Len(generated') >= max_tokens
    <3>1. <<first>>[1] = first /\ Len(<<first>>) = 1
          /\ 1 \in DOMAIN <<first>>
      OBVIOUS
    <3>2. CASE first = Eos
      BY <1>4, <3>1, <3>2 DEF Places
    <3>3. CASE max_tokens <= 1
      BY <1>2, <1>4, <3>1, <3>3
    <3>4. QED
      BY <1>4, <1>8, <3>2, <3>3
  <2>2. generated' \in Seq(Token)
    BY <1>1 DEF Types
  <2>3. Complete(Output', max_tokens')
    BY <1>2, <1>4, <2>1, <2>2, CutComplete DEF Output
  <2>4. Output' \in Seq(Token)
    <3>1. (Types => Output \in Seq(Token))'
      BY OutputType, PTL
    <3>2. QED
      BY <1>1, <3>1
  <2>5. Plain!Finished'
    BY <2>3, <2>4, CompleteIsFinished
  <2>6. QED
    BY <1>1, <1>6, <1>8, <2>5 DEF Plain!Next, Plain!Stop
<1>9. QED
  BY <1>4, <1>7, <1>8

\* A push is one token of plain decoding, or comes after its last.
LEMMA PushImplements == IInv /\ Push => Plain!Next \/ UNCHANGED Plain!vars
<1> SUFFICES ASSUME IInv, Push
             PROVE  Plain!Next \/ UNCHANGED Plain!vars
  OBVIOUS
<1>1. /\ Types /\ phase = "push" /\ phase' = "push" /\ pushes # <<>> /\ Greedy
      /\ generated \in Seq(Token) /\ pushes \in Seq(Token)
      /\ generated' = Append(generated, Head(pushes)) /\ UNCHANGED <<prompt, max_tokens>>
  BY DEF IInv, Phase, Push, Types, request
<1>2. max_tokens \in Nat /\ Committed \in Seq(Token) /\ Len(generated) \in Nat
  BY <1>1, Sizes
<1>3. Head(pushes) \in Token /\ Head(pushes) = Argmax(Committed)
  <2>1. Head(pushes) = pushes[1] /\ Head(pushes) \in Token /\ 1 \in 1 .. Len(pushes)
    BY <1>1, HeadTailProperties, EmptySeq
  <2>2. pushes[1] = Argmax(Committed \o Begin(pushes, 1 - 1))
    BY <1>1, <2>1 DEF Greedy
  <2>3. Begin(pushes, 1 - 1) = <<>>
    BY SubSeqEmpty DEF Begin
  <2>4. QED
    BY <1>2, <2>1, <2>2, <2>3, ConcatEmptySeq
<1>4. CASE Places(generated) = {} /\ Len(generated) < max_tokens
  <2>1. Plain!Emit
    BY <1>1, <1>3, <1>4, EmitIsPlain
  <2>2. QED
    BY <1>1, <2>1 DEF Plain!Next
<1>5. CASE ~(Places(generated) = {} /\ Len(generated) < max_tokens)
  <2>1. Places(generated) # {} \/ Len(generated) >= max_tokens
    BY <1>2, <1>5
  <2>2. Output' = Output
    BY <1>1, <1>2, <1>3, <2>1, CutStays DEF Output
  <2>3. QED
    BY <1>1, <2>2, QuietIsPlain
<1>6. QED
  BY <1>4, <1>5

\* The cut-off takes back nothing that plain decoding has given, and stops when it does.
LEMMA EndRoundImplements == IInv /\ EndRound => Plain!Next \/ UNCHANGED Plain!vars
<1> SUFFICES ASSUME IInv, EndRound
             PROVE  Plain!Next \/ UNCHANGED Plain!vars
  OBVIOUS
<1>1. /\ Types /\ phase = "push" /\ generated \in Seq(Token) /\ UNCHANGED <<prompt, max_tokens>>
      /\ generated' = Cut(generated, max_tokens)
      /\ phase' = IF Places(generated) # {} \/ Len(generated) >= max_tokens
                    THEN "done" ELSE "round"
  BY CutOffIsCut DEF IInv, Phase, EndRound, Types, request
<1>2. max_tokens \in Nat
  BY <1>1, Sizes
<1>3. Output' = Output
  BY <1>1, <1>2, CutTwice DEF Output
<1>4. CASE phase' = "round"
  BY <1>1, <1>3, <1>4, QuietIsPlain
<1>5. CASE phase' = "done"
  <2>1. Places(generated) # {} \/ Len(generated) >= max_tokens
    BY <1>1, <1>5
  <2>2. Complete(Output, max_tokens)
    BY <1>1, <1>2, <2>1, CutComplete DEF Output
  <2>3. Output' \in Seq(Token) /\ Complete(Output', max_tokens')
    BY <1>1, <1>3, <2>2, OutputType
  <2>4. Plain!Finished'
    BY <2>3, CompleteIsFinished
  <2>5. WithinLimit(CutOff(generated))' = WithinLimit(CutOff(generated))
    BY <1>3, OutputIs
  <2>6. QED
    BY <1>1, <1>5, <2>4, <2>5 DEF Plain!Next, Plain!Stop
<1>6. QED
  BY <1>1, <1>4, <1>5

\* Every step is one of plain decoding or changes nothing of it.
LEMMA StepImplements == IInv /\ [Next]_vars => [Plain!Next]_(Plain!vars)
<1> SUFFICES ASSUME IInv, [Next]_vars
             PROVE  Plain!Next \/ UNCHANGED Plain!vars
  OBVIOUS
<1>1. CASE Prefill \/ StartRound \/ DraftLink \/ Verify \/ Accept \/ Reject
  <2>1. UNCHANGED <<prompt, max_tokens, generated>> /\ phase # "done" /\ phase' # "done"
    BY <1>1 DEF Prefill, StartRound, DraftLink, Verify, Accept, Reject, request
  <2>2. Output' = Output
    BY <2>1 DEF Output
  <2>3. QED
    BY <2>1, <2>2, QuietIsPlain
<1>2. CASE UNCHANGED vars
  <2>1. UNCHANGED <<prompt, max_tokens, generated, phase>>
    BY <1>2 DEF vars
  <2>2. Output' = Output
    BY <2>1 DEF Output
  <2>3. QED
    BY <2>1, <2>2, OutputIs DEF Plain!vars
<1>3. QED
  BY <1>1, <1>2, BootstrapImplements, PushImplements, EndRoundImplements DEF Next, Returned

\* Drafting with the MTP head and accepting all or nothing gives, within the limit,
\* exactly the tokens plain greedy decoding gives, one by one.
THEOREM Implements == Spec => PlainSpec
<1>1. Init => Plain!Init
  BY InitImplements
<1>2. IInv /\ [Next]_vars => [Plain!Next]_(Plain!vars)
  BY StepImplements
<1>3. QED
  BY <1>1, <1>2, Invariance, PTL DEF Spec, PlainSpec, Plain!Spec
=============================================================================
