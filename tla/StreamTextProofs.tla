-------------------------- MODULE StreamTextProofs ---------------------------
(***************************************************************************)
(* Proofs about the text of a stream, for every vocabulary and every size  *)
(* of the stripper's buffer: as long as each token ends with a whole glyph *)
(* nothing is lost or shown twice, a preamble that shows itself in time is *)
(* never seen, and the stream shows what the unary answer would.           *)
(***************************************************************************)
EXTENDS StreamText, SequenceTheorems, FiniteSetTheorems, WellFoundedInduction, TLAPS

-----------------------------------------------------------------------------
(* Numbers                                                                  *)

\* A set of natural numbers that is not empty has a least element.
LEMMA LeastElement ==
  ASSUME NEW S, S \subseteq Nat, S # {}
  PROVE  \E m \in S : \A n \in S : m <= n
<1>1. PICK m \in S : \A n \in S : <<n, m>> \notin OpToRel(<, Nat)
  BY NatLessThanWellFounded, WFMin
<1>2. ASSUME NEW n \in S
      PROVE  m <= n
  <2>1. n \in Nat /\ m \in Nat
    OBVIOUS
  <2>2. ~(n < m)
    BY <1>1, <2>1, Zenon DEF OpToRel
  <2>3. QED
    BY <2>1, <2>2
<1>3. QED
  BY <1>2

\* What holds for 0 and is handed on by every number holds up to m.
LEMMA UpTo ==
  ASSUME NEW m \in Nat, NEW S, 0 \in S, \A n \in 1 .. m : n - 1 \in S => n \in S
  PROVE  \A n \in 0 .. m : n \in S
<1> DEFINE T == {n \in 0 .. m : n \notin S}
<1>1. SUFFICES ASSUME T # {}
               PROVE  FALSE
  OBVIOUS
<1>2. T \subseteq Nat
  OBVIOUS
<1>3. PICK n \in T : \A j \in T : n <= j
  <2> HIDE DEF T
  <2>1. QED
    BY <1>1, <1>2, LeastElement
<1>4. n \in 1 .. m /\ n \notin S
  OBVIOUS
<1>5. n - 1 \in 0 .. m - 1 /\ n - 1 \notin T
  BY <1>3, <1>4
<1>6. QED
  BY <1>4, <1>5

\* A set of numbers with an upper bound has a greatest element.
LEMMA GreatestElement ==
  ASSUME NEW m \in Nat, NEW S, S \subseteq 0 .. m, S # {}
  PROVE  \E x \in S : \A y \in S : x >= y
<1> DEFINE T == {n \in 0 .. m : m - n \in S}
<1>1. T \subseteq Nat /\ T # {}
  <2>1. PICK x \in S : TRUE
    OBVIOUS
  <2>2. x \in Nat /\ x <= m
    BY <2>1
  <2>3. m - x \in 0 .. m /\ m - (m - x) = x
    BY <2>2
  <2>4. m - x \in T
    BY <2>1, <2>3
  <2>5. T \subseteq Nat
    OBVIOUS
  <2>6. QED
    BY <2>4, <2>5
<1>2. PICK n \in T : \A j \in T : n <= j
  <2> HIDE DEF T
  <2>1. QED
    BY <1>1, LeastElement
<1>3. ASSUME NEW y \in S
      PROVE  m - n >= y
  <2>1. y \in Nat /\ y <= m /\ m - y \in 0 .. m /\ m - (m - y) = y
    OBVIOUS
  <2>2. m - y \in T
    BY <2>1
  <2>3. n <= m - y /\ n \in Nat
    BY <1>2, <2>2
  <2>4. QED
    BY <2>1, <2>3
<1>4. QED
  BY <1>2, <1>3

-----------------------------------------------------------------------------
(* Parts of a text                                                          *)

Kinds == Ascii \cup {"lead2", "lead4", "bad"}

\* What is at a place of a text.
LEMMA AtPlace ==
  ASSUME NEW x \in Seq(Char)
  PROVE  /\ Len(x) \in Nat /\ DOMAIN x = 1 .. Len(x)
         /\ \A i \in 1 .. Len(x) : x[i] \in Char /\ x[i][1] \in Kinds
<1>1. Len(x) \in Nat /\ DOMAIN x = 1 .. Len(x)
  BY LenProperties
<1>2. ASSUME NEW i \in 1 .. Len(x)
      PROVE  x[i] \in Char /\ x[i][1] \in Kinds
  <2>1. x[i] \in Char
    BY ElementOfSeq
  <2>2. QED
    BY <2>1 DEF Char, Kinds
<1>3. QED
  BY <1>1, <1>2

\* A text with something behind it.
LEMMA Joined ==
  ASSUME NEW T, NEW x \in Seq(T), NEW y \in Seq(T)
  PROVE  /\ Len(x) \in Nat /\ Len(y) \in Nat
         /\ x \o y \in Seq(T) /\ Len(x \o y) = Len(x) + Len(y)
         /\ \A i \in 1 .. Len(x) : (x \o y)[i] = x[i]
         /\ \A i \in 1 .. Len(y) : (x \o y)[Len(x) + i] = y[i]
<1>1. /\ x \o y \in Seq(T) /\ Len(x \o y) = Len(x) + Len(y)
      /\ \A i \in 1 .. Len(x) + Len(y) : (x \o y)[i] = IF i <= Len(x) THEN x[i] ELSE y[i - Len(x)]
  BY ConcatProperties
<1>2. Len(x) \in Nat /\ Len(y) \in Nat
  BY LenProperties
<1>3. ASSUME NEW i \in 1 .. Len(x)
      PROVE  (x \o y)[i] = x[i]
  BY <1>1, <1>2
<1>4. ASSUME NEW i \in 1 .. Len(y)
      PROVE  (x \o y)[Len(x) + i] = y[i]
  <2>1. Len(x) + i \in 1 .. Len(x) + Len(y) /\ ~(Len(x) + i <= Len(x)) /\ (Len(x) + i) - Len(x) = i
    BY <1>2
  <2>2. QED
    BY <1>1, <2>1
<1>5. QED
  BY <1>1, <1>2, <1>3, <1>4

\* Three texts one after the other.
LEMMA Regrouped ==
  ASSUME NEW T, NEW x \in Seq(T), NEW y \in Seq(T), NEW z \in Seq(T)
  PROVE  x \o (y \o z) = (x \o y) \o z
BY ConcatAssociative

\* A text cut in two.
LEMMA Parted ==
  ASSUME NEW T, NEW x \in Seq(T), NEW n \in 0 .. Len(x)
  PROVE  /\ SubSeq(x, 1, n) \in Seq(T) /\ Len(SubSeq(x, 1, n)) = n
         /\ \A i \in 1 .. n : SubSeq(x, 1, n)[i] = x[i]
         /\ Rest(x, n) \in Seq(T) /\ Len(Rest(x, n)) = Len(x) - n
         /\ \A i \in 1 .. Len(x) - n : Rest(x, n)[i] = x[n + i]
         /\ SubSeq(x, 1, n) \o Rest(x, n) = x
<1> DEFINE a == SubSeq(x, 1, n)
           b == Rest(x, n)
<1>1. PICK m \in Nat : m = Len(x) /\ n \in 0 .. m
  BY LenProperties
<1>2. \A i \in 1 .. m : x[i] \in T
  BY <1>1, ElementOfSeq
<1>3. a \in Seq(T) /\ Len(a) = n /\ \A i \in 1 .. n : a[i] = x[i]
  <2>1. \A i \in 1 .. n : x[i] \in T
    BY <1>1, <1>2
  <2>2. n \in Int /\ n >= 0
    BY <1>1
  <2>3. /\ a \in Seq(T) /\ Len(a) = IF 1 <= n THEN n - 1 + 1 ELSE 0
        /\ \A i \in 1 .. n - 1 + 1 : a[i] = x[1 + i - 1]
    BY <2>1, <2>2, SubSeqProperties
  <2> HIDE DEF a
  <2>4. QED
    BY <2>2, <2>3
<1>4. b \in Seq(T) /\ Len(b) = m - n /\ \A i \in 1 .. m - n : b[i] = x[n + i]
  <2>1. \A i \in n + 1 .. m : x[i] \in T
    BY <1>1, <1>2
  <2>2. n + 1 \in Int /\ m \in Int /\ n \in Nat /\ n <= m
    BY <1>1
  <2> DEFINE k == n + 1
  <2>3. /\ SubSeq(x, k, m) \in Seq(T) /\ Len(SubSeq(x, k, m)) = IF k <= m THEN m - k + 1 ELSE 0
        /\ \A i \in 1 .. m - k + 1 : SubSeq(x, k, m)[i] = x[k + i - 1]
    BY <2>1, <2>2, SubSeqProperties
  <2>4. b = SubSeq(x, k, m)
    BY <1>1 DEF Rest
  <2> HIDE DEF b
  <2>5. b \in Seq(T) /\ Len(b) = m - n
    BY <2>2, <2>3, <2>4
  <2>6. ASSUME NEW i \in 1 .. m - n
        PROVE  b[i] = x[n + i]
    <3>1. i \in 1 .. m - k + 1 /\ k + i - 1 = n + i
      BY <2>2
    <3>2. QED
      BY <2>3, <2>4, <3>1
  <2>7. QED
    BY <2>5, <2>6
<1>5. a \o b = x
  <2> HIDE DEF a, b
  <2>1. /\ a \o b \in Seq(T) /\ Len(a \o b) = Len(a) + Len(b)
        /\ \A i \in 1 .. Len(a) + Len(b) : (a \o b)[i] = IF i <= Len(a) THEN a[i] ELSE b[i - Len(a)]
    BY <1>3, <1>4, ConcatProperties
  <2>2. Len(a \o b) = m
    BY <1>1, <1>3, <1>4, <2>1
  <2>3. ASSUME NEW i \in 1 .. m
        PROVE  (a \o b)[i] = x[i]
    <3>1. i \in 1 .. Len(a) + Len(b)
      BY <1>1, <1>3, <1>4
    <3>2. CASE i <= n
      BY <1>1, <1>3, <2>1, <3>1, <3>2
    <3>3. CASE ~(i <= n)
      <4>1. i - n \in 1 .. m - n /\ n + (i - n) = i
        BY <1>1, <3>3
      <4>2. QED
        BY <1>1, <1>3, <1>4, <2>1, <3>1, <3>3, <4>1
    <3>4. QED
      BY <3>2, <3>3
  <2>4. QED
    BY <1>1, <2>1, <2>2, <2>3, SeqEqual
<1>6. QED
  BY <1>1, <1>3, <1>4, <1>5

\* What is in a text that was joined is in one of its parts.
LEMMA HasJoined ==
  ASSUME NEW x \in Seq(Char), NEW y \in Seq(Char), NEW kind
  PROVE  Has(x \o y, kind) <=> Has(x, kind) \/ Has(y, kind)
<1>1. /\ Len(x) \in Nat /\ Len(y) \in Nat
      /\ x \o y \in Seq(Char) /\ Len(x \o y) = Len(x) + Len(y)
      /\ \A i \in 1 .. Len(x) : (x \o y)[i] = x[i]
      /\ \A i \in 1 .. Len(y) : (x \o y)[Len(x) + i] = y[i]
  BY Joined
<1>2. DOMAIN x = 1 .. Len(x) /\ DOMAIN y = 1 .. Len(y) /\ DOMAIN (x \o y) = 1 .. Len(x) + Len(y)
  BY <1>1, LenProperties
<1>3. ASSUME NEW i \in 1 .. Len(x), x[i][1] = kind
      PROVE  Has(x \o y, kind)
  BY <1>1, <1>2, <1>3 DEF Has
<1>4. ASSUME NEW i \in 1 .. Len(y), y[i][1] = kind
      PROVE  Has(x \o y, kind)
  <2>1. Len(x) + i \in 1 .. Len(x) + Len(y)
    BY <1>1
  <2>2. QED
    BY <1>1, <1>2, <1>4, <2>1 DEF Has
<1>5. ASSUME NEW i \in 1 .. Len(x) + Len(y), (x \o y)[i][1] = kind
      PROVE  Has(x, kind) \/ Has(y, kind)
  <2>1. CASE i <= Len(x)
    <3>1. i \in 1 .. Len(x)
      BY <1>1, <2>1
    <3>2. QED
      BY <1>1, <1>2, <1>5, <3>1 DEF Has
  <2>2. CASE ~(i <= Len(x))
    <3>1. i - Len(x) \in 1 .. Len(y) /\ Len(x) + (i - Len(x)) = i
      BY <1>1, <2>2
    <3>2. QED
      BY <1>1, <1>2, <1>5, <3>1 DEF Has
  <2>3. QED
    BY <2>1, <2>2
<1>6. QED
  BY <1>2, <1>3, <1>4, <1>5 DEF Has

\* The first byte of a kind.
LEMMA FirstIs ==
  ASSUME NEW x \in Seq(Char), NEW kind, Has(x, kind)
  PROVE  /\ FirstOf(x, kind) \in 1 .. Len(x) /\ x[FirstOf(x, kind)][1] = kind
         /\ \A i \in 1 .. Len(x) : x[i][1] = kind => FirstOf(x, kind) <= i
<1> DEFINE S == {i \in 1 .. Len(x) : x[i][1] = kind}
<1>1. Len(x) \in Nat /\ DOMAIN x = 1 .. Len(x)
  BY AtPlace
<1>2. S \subseteq Nat /\ S # {}
  BY <1>1 DEF Has
<1>3. PICK i \in S : \A j \in S : i <= j
  <2> HIDE DEF S
  <2>1. QED
    BY <1>2, LeastElement
<1>4. i \in DOMAIN x /\ x[i][1] = kind
  BY <1>1
<1>5. ASSUME NEW j \in 1 .. i - 1
      PROVE  x[j][1] # kind
  <2>1. j \in 1 .. Len(x) /\ ~(i <= j)
    BY <1>1
  <2>2. QED
    BY <1>3, <2>1
<1> DEFINE c == FirstOf(x, kind)
<1>6. c \in DOMAIN x /\ x[c][1] = kind /\ \A j \in 1 .. c - 1 : x[j][1] # kind
  BY <1>4, <1>5, Zenon DEF FirstOf
<1> HIDE DEF c
<1>7. ASSUME NEW j \in 1 .. Len(x), x[j][1] = kind
      PROVE  c <= j
  <2>1. j \notin 1 .. c - 1
    BY <1>6, <1>7
  <2>2. QED
    BY <1>1, <1>6, <2>1
<1>8. QED
  BY <1>1, <1>6, <1>7 DEF c

\* The last closing marker.
LEMMA ClosedIs ==
  ASSUME NEW x \in Seq(Char), Has(x, "closer")
  PROVE  /\ ClosedAt(x) \in 1 .. Len(x) /\ x[ClosedAt(x)][1] = "closer"
         /\ \A i \in 1 .. Len(x) : x[i][1] = "closer" => i <= ClosedAt(x)
<1> DEFINE S == {i \in 1 .. Len(x) : x[i][1] = "closer"}
<1>1. Len(x) \in Nat /\ DOMAIN x = 1 .. Len(x)
  BY AtPlace
<1>2. S \subseteq 0 .. Len(x) /\ S # {}
  BY <1>1 DEF Has
<1>3. PICK i \in S : \A j \in S : i >= j
  <2> HIDE DEF S
  <2>1. QED
    BY <1>1, <1>2, GreatestElement
<1>4. i \in DOMAIN x /\ x[i][1] = "closer"
  BY <1>1
<1>5. ASSUME NEW j \in DOMAIN x, x[j][1] = "closer"
      PROVE  j <= i
  <2>1. j \in S
    BY <1>1, <1>5
  <2>2. QED
    BY <1>1, <1>3, <2>1
<1> DEFINE c == ClosedAt(x)
<1>6. c \in DOMAIN x /\ x[c][1] = "closer" /\ \A j \in DOMAIN x : x[j][1] = "closer" => j <= c
  BY <1>4, <1>5, Zenon DEF ClosedAt
<1>7. QED
  BY <1>1, <1>6

\* Blanks are skipped up to a place.
Skipped(x, i, n) ==
  /\ \A j \in i + 1 .. n : x[j][1] = "blank"
  /\ n < Len(x) => x[n + 1][1] # "blank"

\* There is such a place, and only one.
LEMMA SkipIs ==
  ASSUME NEW x \in Seq(Char), NEW i \in 0 .. Len(x)
  PROVE  /\ SkipBlanks(x, i) \in i .. Len(x) /\ Skipped(x, i, SkipBlanks(x, i))
         /\ \A n \in i .. Len(x) : Skipped(x, i, n) => n = SkipBlanks(x, i)
<1> DEFINE S == {n \in i .. Len(x) : n < Len(x) => x[n + 1][1] # "blank"}
<1>1. Len(x) \in Nat
  BY AtPlace
<1>2. S \subseteq Nat /\ S # {}
  <2>1. Len(x) \in S
    BY <1>1
  <2>2. S \subseteq Nat
    BY <1>1
  <2>3. QED
    BY <2>1, <2>2
<1>3. PICK n \in S : \A j \in S : n <= j
  <2> HIDE DEF S
  <2>1. QED
    BY <1>2, LeastElement
<1>4. n \in i .. Len(x) /\ Skipped(x, i, n)
  <2>1. ASSUME NEW j \in i + 1 .. n
        PROVE  x[j][1] = "blank"
    <3>1. j - 1 \in i .. Len(x) /\ j - 1 < Len(x) /\ (j - 1) + 1 = j /\ ~(n <= j - 1)
      BY <1>1
    <3>2. j - 1 \notin S
      BY <1>3, <3>1
    <3>3. QED
      BY <3>1, <3>2
  <2>2. QED
    BY <2>1 DEF Skipped
<1> DEFINE c == SkipBlanks(x, i)
<1>5. c \in i .. Len(x) /\ Skipped(x, i, c)
  BY <1>4, Zenon DEF SkipBlanks, Skipped
<1> HIDE DEF c
<1>6. ASSUME NEW a \in i .. Len(x), NEW b \in i .. Len(x), Skipped(x, i, a), Skipped(x, i, b)
      PROVE  ~(a < b)
  <2>1. SUFFICES ASSUME a < b
                 PROVE  FALSE
    OBVIOUS
  <2>2. a + 1 \in i + 1 .. b /\ a < Len(x)
    BY <1>1, <2>1
  <2>3. QED
    BY <1>6, <2>2 DEF Skipped
<1>7. ASSUME NEW a \in i .. Len(x), Skipped(x, i, a)
      PROVE  a = c
  <2>1. ~(a < c) /\ ~(c < a)
    BY <1>5, <1>6, <1>7
  <2>2. QED
    BY <1>1, <1>5, <2>1
<1>8. QED
  BY <1>5, <1>7 DEF c

-----------------------------------------------------------------------------
(* Decoding                                                                 *)

\* n continuation bytes follow byte i, as many as it asks for or as there are.
Follow(bytes, i, n) ==
  /\ i + n <= Len(bytes) /\ \A j \in i + 1 .. i + n : bytes[j] = "cont"
  /\ n < Wanted(bytes[i]) => i + n = Len(bytes) \/ bytes[i + n + 1] # "cont"

\* What a lead byte asks for is what it gets, if it is there.
LEMMA GotIs ==
  ASSUME NEW bytes \in Seq(Byte), NEW i \in 1 .. Len(bytes)
  PROVE  /\ Wanted(bytes[i]) \in {0, 1, 3}
         /\ Got(bytes, i) \in 0 .. Wanted(bytes[i]) /\ Follow(bytes, i, Got(bytes, i))
         /\ Follow(bytes, i, Wanted(bytes[i])) => Got(bytes, i) = Wanted(bytes[i])
<1>1. PICK w \in {0, 1, 3} : w = Wanted(bytes[i])
  BY DEF Wanted
<1>2. PICK m \in Nat : m = Len(bytes) /\ i \in 1 .. m
  BY LenProperties
<1> DEFINE S == {n \in 0 .. w : n = w \/ i + n = m \/ bytes[i + n + 1] # "cont"}
<1>3. S \subseteq Nat /\ S # {}
  <2>1. w \in S
    BY <1>1
  <2>2. S \subseteq Nat
    BY <1>1
  <2>3. QED
    BY <2>1, <2>2
<1>4. PICK n \in S : \A j \in S : n <= j
  <2> HIDE DEF S
  <2>1. QED
    BY <1>3, LeastElement
<1>5. n \in 0 .. w /\ \A k \in 0 .. n - 1 : i + k # m /\ bytes[i + k + 1] = "cont"
  <2>1. n \in 0 .. w
    OBVIOUS
  <2>2. ASSUME NEW k \in 0 .. n - 1
        PROVE  i + k # m /\ bytes[i + k + 1] = "cont"
    <3>1. k \in 0 .. w /\ k # w /\ ~(n <= k)
      BY <1>1, <2>1
    <3>2. k \notin S
      BY <1>4, <3>1
    <3>3. QED
      BY <3>1, <3>2
  <2>3. QED
    BY <2>1, <2>2
<1>6. Follow(bytes, i, n)
  <2>1. i + n <= m
    <3>1. SUFFICES ASSUME ~(i + n <= m)
                   PROVE  FALSE
      OBVIOUS
    <3>2. m - i \in 0 .. n - 1 /\ i + (m - i) = m
      BY <1>1, <1>2, <1>5, <3>1
    <3>3. QED
      BY <1>5, <3>2
  <2>2. ASSUME NEW j \in i + 1 .. i + n
        PROVE  bytes[j] = "cont"
    <3>1. j - (i + 1) \in 0 .. n - 1 /\ i + (j - (i + 1)) + 1 = j
      BY <1>1, <1>2, <1>5
    <3>2. QED
      BY <1>5, <3>1
  <2>3. n < w => i + n = m \/ bytes[i + n + 1] # "cont"
    BY <1>1
  <2>4. QED
    BY <1>1, <1>2, <2>1, <2>2, <2>3 DEF Follow
<1> DEFINE c == Got(bytes, i)
<1>7. c \in 0 .. Wanted(bytes[i]) /\ Follow(bytes, i, c)
  BY <1>1, <1>5, <1>6, Zenon DEF Got, Follow
<1> HIDE DEF c
<1>8. ASSUME Follow(bytes, i, w)
      PROVE  c = w
  <2>1. SUFFICES ASSUME c < w
                 PROVE  FALSE
    BY <1>1, <1>7
  <2>2. i + c # m /\ i + c + 1 \in i + 1 .. i + w
    <3>1. i + w <= m
      BY <1>2, <1>8 DEF Follow
    <3>2. QED
      BY <1>1, <1>2, <1>7, <2>1, <3>1
  <2>3. bytes[i + c + 1] = "cont"
    BY <1>8, <2>2 DEF Follow
  <2>4. QED
    BY <1>1, <1>2, <1>7, <2>1, <2>2, <2>3 DEF Follow
<1>9. QED
  BY <1>1, <1>7, <1>8 DEF c

\* The bytes of a character of one kind.
Wide(kind, w) == [o \in 1 .. w |-> <<kind, o - 1>>]

\* A character of one to four bytes.
LEMMA WideIs ==
  ASSUME NEW kind \in Kinds, NEW w \in 1 .. 4
  PROVE  /\ Wide(kind, w) \in Seq(Char) /\ Len(Wide(kind, w)) = w
         /\ Wide(kind, w) # <<>>
         /\ Wide(kind, w)[1] = <<kind, 0>> /\ DOMAIN Wide(kind, w) = 1 .. w
<1>1. \A o \in 1 .. w : <<kind, o - 1>> \in Char
  BY DEF Char, Kinds
<1>2. Wide(kind, w) \in [1 .. w -> Char] /\ w \in Nat
  BY <1>1 DEF Wide
<1>3. Wide(kind, w) \in Seq(Char) /\ Len(Wide(kind, w)) = w
  BY <1>2
<1>4. Wide(kind, w)[1] = <<kind, 1 - 1>> /\ DOMAIN Wide(kind, w) = 1 .. w
  BY DEF Wide
<1>5. Wide(kind, w) # <<>>
  BY <1>2, <1>3, EmptySeq
<1>6. QED
  BY <1>3, <1>4, <1>5

\* A glyph begins a character, and is a whole one unless it is garbage.
LEMMA GlyphIs ==
  ASSUME NEW bytes \in Seq(Byte), NEW i \in 1 .. Len(bytes)
  PROVE  /\ Glyph(bytes, i) \in Seq(Char) /\ Glyph(bytes, i) # <<>> /\ Glyph(bytes, i)[1][2] = 0
         /\ ~Has(Glyph(bytes, i), "bad") =>
              bytes[i] # "cont" /\ Got(bytes, i) = Wanted(bytes[i])
         /\ bytes[i] # "cont" /\ Got(bytes, i) = Wanted(bytes[i]) =>
              Glyph(bytes, i) = Wide(bytes[i], Wanted(bytes[i]) + 1)
<1>1. PICK b \in Byte : b = bytes[i]
  BY ElementOfSeq
<1>2. PICK w \in {0, 1, 3} : w = Wanted(b) /\ (b \in Ascii => w = 0)
  BY <1>1 DEF Wanted, Ascii
<1>3. PICK g \in 0 .. w : g = Got(bytes, i)
  BY <1>1, <1>2, GotIs
<1>4. CASE b \in Ascii
  <2>1. Glyph(bytes, i) = Wide(b, 1) /\ b \in Kinds /\ b # "cont" /\ b # "bad"
    BY <1>1, <1>4 DEF Glyph, Wide, Kinds, Ascii
  <2>2. QED
    BY <1>1, <1>2, <1>3, <1>4, <2>1, WideIs DEF Has
<1>5. CASE b \notin Ascii /\ (b = "cont" \/ g < w)
  <2>1. Glyph(bytes, i) = Wide("bad", 3)
    BY <1>1, <1>2, <1>3, <1>5 DEF Glyph, Wide
  <2>2. "bad" \in Kinds
    BY DEF Kinds
  <2>3. Has(Wide("bad", 3), "bad")
    BY <2>2, WideIs DEF Has
  <2>4. ~(b # "cont" /\ g = w)
    BY <1>2, <1>5
  <2>5. QED
    BY <1>1, <1>2, <1>3, <2>1, <2>2, <2>3, <2>4, WideIs
<1>6. CASE b \notin Ascii /\ b # "cont" /\ ~(g < w)
  <2>1. Glyph(bytes, i) = Wide(b, w + 1)
    BY <1>1, <1>2, <1>3, <1>6 DEF Glyph, Wide
  <2>2. b \in Kinds /\ w + 1 \in 1 .. 4 /\ g = w
    BY <1>2, <1>6 DEF Byte, Kinds
  <2>3. QED
    BY <1>1, <1>2, <1>3, <1>6, <2>1, <2>2, WideIs
<1>7. QED
  BY <1>4, <1>5, <1>6

\* f decodes what is left of the bytes at every place.
After(bytes, i) == i + Got(bytes, i) + 1
Decodes(f, bytes) ==
  f = [i \in 1 .. Len(bytes) + 1 |->
         IF i > Len(bytes) THEN <<>> ELSE Glyph(bytes, i) \o f[After(bytes, i)]]
\* The same from a place on.
Partly(f, bytes, m) ==
  /\ DOMAIN f = m .. Len(bytes) + 1 /\ f[Len(bytes) + 1] = <<>>
  /\ \A i \in m .. Len(bytes) : f[i] = Glyph(bytes, i) \o f[After(bytes, i)]

\* The next character is further on.
LEMMA AfterIs ==
  ASSUME NEW bytes \in Seq(Byte), NEW i \in 1 .. Len(bytes)
  PROVE  After(bytes, i) \in i + 1 .. Len(bytes) + 1
<1>1. PICK m \in Nat : m = Len(bytes) /\ i \in 1 .. m
  BY LenProperties
<1>2. PICK w \in {0, 1, 3} : w = Wanted(bytes[i])
  BY GotIs
<1>3. Got(bytes, i) \in 0 .. w /\ i + Got(bytes, i) <= m
  BY <1>1, <1>2, GotIs DEF Follow
<1>4. QED
  BY <1>1, <1>2, <1>3 DEF After

\* The recursion is well-founded: there is a function that satisfies it.
LEMMA DecodingExists ==
  ASSUME NEW bytes \in Seq(Byte)
  PROVE  \E f : Decodes(f, bytes)
<1>1. PICK n \in Nat : n = Len(bytes)
  BY LenProperties
<1> DEFINE S == {k \in 0 .. n : \E f : Partly(f, bytes, n + 1 - k)}
<1>2. 0 \in S
  <2> DEFINE f == [i \in n + 1 .. n + 1 |-> <<>>]
  <2>1. Partly(f, bytes, n + 1)
    BY <1>1 DEF Partly
  <2> HIDE DEF f
  <2>2. n + 1 - 0 = n + 1 /\ 0 \in 0 .. n
    OBVIOUS
  <2>3. QED
    BY <2>1, <2>2
<1>3. ASSUME NEW k \in 1 .. n, k - 1 \in S
      PROVE  k \in S
  <2>1. PICK m \in 1 .. n : m = n + 1 - k
    OBVIOUS
  <2>2. n + 1 - (k - 1) = m + 1
    BY <2>1
  <2>3. PICK f : Partly(f, bytes, m + 1)
    BY <1>3, <2>2
  <2>4. PICK first : first = Glyph(bytes, m) \o f[After(bytes, m)]
    OBVIOUS
  <2> DEFINE g == [i \in m .. n + 1 |-> IF i = m THEN first ELSE f[i]]
  <2>5. DOMAIN g = m .. n + 1 /\ g[n + 1] = <<>>
    BY <1>1, <2>1, <2>3 DEF Partly
  <2>6. ASSUME NEW i \in m .. n
        PROVE  g[i] = Glyph(bytes, i) \o g[After(bytes, i)]
    <3>1. After(bytes, i) \in i + 1 .. n + 1
      BY <1>1, <2>1, AfterIs
    <3>2. g[After(bytes, i)] = f[After(bytes, i)]
      BY <2>1, <3>1
    <3>3. CASE i = m
      <4>1. g[i] = first
        BY <3>3
      <4>2. QED
        BY <2>4, <3>2, <3>3, <4>1
    <3>4. CASE i # m
      <4>1. i \in m + 1 .. n /\ g[i] = f[i]
        BY <2>1, <3>4
      <4>2. f[i] = Glyph(bytes, i) \o f[After(bytes, i)]
        BY <1>1, <2>3, <4>1 DEF Partly
      <4>3. QED
        BY <3>2, <4>1, <4>2
    <3>5. QED
      BY <3>3, <3>4
  <2> HIDE DEF g
  <2>7. Partly(g, bytes, m)
    BY <1>1, <2>5, <2>6 DEF Partly
  <2>8. QED
    BY <2>1, <2>7
<1>4. PICK f : Partly(f, bytes, 1)
  <2> HIDE DEF S
  <2>1. \A k \in 0 .. n : k \in S
    BY <1>1, <1>2, <1>3, UpTo
  <2>2. n \in S
    BY <2>1
  <2>3. n + 1 - n = 1
    OBVIOUS
  <2>4. QED
    BY <2>2, <2>3 DEF S
<1> DEFINE g == [i \in 1 .. n + 1 |-> f[i]]
<1>5. Decodes(g, bytes)
  <2>1. ASSUME NEW i \in 1 .. n + 1
        PROVE  g[i] = IF i > n THEN <<>> ELSE Glyph(bytes, i) \o g[After(bytes, i)]
    <3>1. CASE i > n
      <4>1. i = n + 1
        BY <3>1
      <4>2. QED
        BY <1>1, <1>4, <3>1, <4>1 DEF Partly
    <3>2. CASE ~(i > n)
      <4>1. i \in 1 .. n
        BY <3>2
      <4>2. After(bytes, i) \in 1 .. n + 1
        BY <1>1, <4>1, AfterIs
      <4>3. f[i] = Glyph(bytes, i) \o f[After(bytes, i)]
        BY <1>1, <1>4, <4>1 DEF Partly
      <4>4. QED
        BY <3>2, <4>2, <4>3
    <3>3. QED
      BY <3>1, <3>2
  <2>2. g = [i \in 1 .. n + 1 |-> g[i]]
    OBVIOUS
  <2> HIDE DEF g
  <2>3. QED
    BY <1>1, <2>1, <2>2 DEF Decodes
<1>6. QED
  BY <1>5

\* What is left of the text at each place of the bytes.
Decoding(f, bytes) ==
  /\ Decode(bytes) = f[1] /\ f[Len(bytes) + 1] = <<>>
  /\ \A i \in 1 .. Len(bytes) + 1 : f[i] \in Seq(Char)
  /\ \A i \in 1 .. Len(bytes) :
       /\ After(bytes, i) \in i + 1 .. Len(bytes) + 1
       /\ f[i] = Glyph(bytes, i) \o f[After(bytes, i)]

LEMMA DecodeIs ==
  ASSUME NEW bytes \in Seq(Byte)
  PROVE  \E f : Decoding(f, bytes)
<1> DEFINE c == CHOOSE f : Decodes(f, bytes)
<1>1. Decodes(c, bytes)
  BY DecodingExists, Zenon
<1>2. Decode(bytes) = c[1]
  BY Zenon DEF Decode, Decodes, After
<1> HIDE DEF c
<1>3. PICK n \in Nat : n = Len(bytes)
  BY LenProperties
<1>4. c[n + 1] = <<>>
  <2>1. n + 1 \in 1 .. n + 1 /\ n + 1 > n
    OBVIOUS
  <2>2. QED
    BY <1>1, <1>3, <2>1 DEF Decodes
<1>5. ASSUME NEW i \in 1 .. n
      PROVE  /\ After(bytes, i) \in i + 1 .. n + 1
             /\ c[i] = Glyph(bytes, i) \o c[After(bytes, i)]
  <2>1. i \in 1 .. n + 1 /\ ~(i > n)
    OBVIOUS
  <2>2. c[i] = Glyph(bytes, i) \o c[After(bytes, i)]
    BY <1>1, <1>3, <2>1 DEF Decodes
  <2>3. QED
    BY <1>3, <2>2, AfterIs
<1> DEFINE S == {k \in 0 .. n : \A i \in n + 1 - k .. n + 1 : c[i] \in Seq(Char)}
<1>6. 0 \in S
  <2>1. <<>> \in Seq(Char)
    BY EmptySeq
  <2>2. \A i \in n + 1 - 0 .. n + 1 : i = n + 1
    OBVIOUS
  <2>3. \A i \in n + 1 - 0 .. n + 1 : c[i] \in Seq(Char)
    BY <1>4, <2>1, <2>2
  <2>4. 0 \in 0 .. n
    OBVIOUS
  <2>5. QED
    BY <2>3, <2>4
<1>7. ASSUME NEW k \in 1 .. n, k - 1 \in S
      PROVE  k \in S
  <2>1. PICK m \in 1 .. n : m = n + 1 - k /\ n + 1 - (k - 1) = m + 1
    OBVIOUS
  <2>2. \A i \in m + 1 .. n + 1 : c[i] \in Seq(Char)
    BY <1>7, <2>1
  <2>3. After(bytes, m) \in m + 1 .. n + 1 /\ c[m] = Glyph(bytes, m) \o c[After(bytes, m)]
    BY <1>5, <2>1
  <2>4. Glyph(bytes, m) \in Seq(Char) /\ c[After(bytes, m)] \in Seq(Char)
    BY <1>3, <2>2, <2>3, GlyphIs
  <2>5. c[m] \in Seq(Char)
    BY <2>3, <2>4, ConcatProperties
  <2>6. \A i \in m .. n + 1 : i = m \/ i \in m + 1 .. n + 1
    OBVIOUS
  <2>7. QED
    BY <2>1, <2>2, <2>5, <2>6
<1>8. \A i \in 1 .. n + 1 : c[i] \in Seq(Char)
  <2> HIDE DEF S
  <2>1. \A k \in 0 .. n : k \in S
    BY <1>6, <1>7, UpTo
  <2>2. n \in S
    BY <2>1
  <2>3. n + 1 - n = 1
    OBVIOUS
  <2>4. QED
    BY <2>2, <2>3 DEF S
<1>9. Decoding(c, bytes)
  BY <1>2, <1>3, <1>4, <1>5, <1>8 DEF Decoding
<1>10. QED
  BY <1>9

\* A text without garbage is continued by what is appended to its bytes: a new
\* character begins where it ended.
LEMMA DecodeContinues ==
  ASSUME NEW a \in Seq(Byte), NEW t \in Seq(Byte), t # <<>>, ~Has(Decode(a), "bad")
  PROVE  /\ Decode(a) \in Seq(Char)
         /\ \E d \in Seq(Char) : Decode(a \o t) = Decode(a) \o d /\ d # <<>> /\ d[1][2] = 0
<1> DEFINE b == a \o t
<1>1. PICK n \in Nat : n = Len(a)
  BY LenProperties
<1>2. PICK m \in Nat : m = Len(t) /\ m # 0
  BY LenProperties, EmptySeq
<1>3. b \in Seq(Byte) /\ Len(b) = n + m /\ \A i \in 1 .. n : b[i] = a[i]
  BY <1>1, <1>2, Joined
<1> HIDE DEF b
<1>4. PICK f : Decoding(f, a)
  BY DecodeIs
<1>5. PICK g : Decoding(g, b)
  BY <1>3, DecodeIs
<1>6. n + 1 \in 1 .. n + m /\ n + 1 \in 1 .. Len(b) + 1
  BY <1>2, <1>3
<1>7. PICK d \in Seq(Char) : d = g[n + 1]
  BY <1>3, <1>5, <1>6 DEF Decoding
<1> DEFINE S == {k \in 0 .. n : \A i \in n + 1 - k .. n + 1 : ~Has(f[i], "bad") => g[i] = f[i] \o d}
<1>8. 0 \in S
  <2>1. f[n + 1] = <<>> /\ g[n + 1] = <<>> \o d
    BY <1>1, <1>4, <1>7, ConcatEmptySeq DEF Decoding
  <2>2. \A i \in n + 1 - 0 .. n + 1 : i = n + 1
    OBVIOUS
  <2>3. QED
    BY <2>1, <2>2
<1>9. ASSUME NEW k \in 1 .. n, k - 1 \in S
      PROVE  k \in S
  <2>1. PICK i \in 1 .. n : i = n + 1 - k /\ n + 1 - (k - 1) = i + 1
    OBVIOUS
  <2>2. \A j \in i + 1 .. n + 1 : ~Has(f[j], "bad") => g[j] = f[j] \o d
    BY <1>9, <2>1
  <2>3. ASSUME ~Has(f[i], "bad")
        PROVE  g[i] = f[i] \o d
    <3>1. PICK j \in i + 1 .. n + 1 : j = After(a, i)
      BY <1>1, <1>4 DEF Decoding
    <3>2. PICK e \in Seq(Char) : e = f[j] /\ f[i] = Glyph(a, i) \o e
      <4>1. j \in 1 .. n + 1
        OBVIOUS
      <4>2. f[j] \in Seq(Char) /\ f[i] = Glyph(a, i) \o f[j]
        BY <1>1, <1>4, <3>1, <4>1 DEF Decoding
      <4>3. QED
        BY <4>2
    <3>3. PICK h \in Seq(Char) : h = Glyph(a, i)
      BY <1>1, GlyphIs
    <3>4. ~Has(h, "bad") /\ ~Has(e, "bad")
      BY <2>3, <3>2, <3>3, HasJoined
    <3>5. a[i] # "cont" /\ Got(a, i) = Wanted(a[i])
      BY <1>1, <3>3, <3>4, GlyphIs
    <3>6. i \in 1 .. Len(b) /\ b[i] = a[i]
      BY <1>3
    <3>7. Got(b, i) = Wanted(b[i])
      <4>1. PICK w \in {0, 1, 3} : w = Wanted(a[i])
        BY <1>1, GotIs
      <4>2. i + w <= n /\ \A l \in i + 1 .. i + w : a[l] = "cont"
        BY <1>1, <3>5, <4>1, GotIs DEF Follow
      <4>3. i + w <= Len(b) /\ \A l \in i + 1 .. i + w : b[l] = "cont"
        <5>1. ASSUME NEW l \in i + 1 .. i + w
              PROVE  b[l] = "cont"
          <6>1. l \in 1 .. n
            BY <4>1, <4>2
          <6>2. QED
            BY <1>3, <4>2, <6>1
        <5>2. i + w <= n + m
          BY <1>2, <4>1, <4>2
        <5>3. QED
          BY <1>3, <5>1, <5>2
      <4>4. Follow(b, i, Wanted(b[i]))
        BY <3>6, <4>1, <4>3 DEF Follow
      <4>5. QED
        BY <1>3, <3>6, <4>4, GotIs
    <3>8. Glyph(b, i) = h
      <4>1. Glyph(a, i) = Wide(a[i], Wanted(a[i]) + 1)
        BY <1>1, <3>5, GlyphIs
      <4>2. Glyph(b, i) = Wide(b[i], Wanted(b[i]) + 1)
        BY <1>3, <3>5, <3>6, <3>7, GlyphIs
      <4>3. QED
        BY <3>3, <3>6, <4>1, <4>2
    <3>9. After(b, i) = j
      BY <3>1, <3>5, <3>6, <3>7 DEF After
    <3>10. g[i] = h \o g[j]
      BY <1>5, <3>6, <3>8, <3>9 DEF Decoding
    <3>11. g[j] = e \o d
      BY <2>2, <3>2, <3>4
    <3>12. h \o (e \o d) = (h \o e) \o d
      BY Regrouped, SMTT(30)
    <3>13. QED
      BY <3>2, <3>3, <3>10, <3>11, <3>12
  <2>4. \A j \in i .. n + 1 : j = i \/ j \in i + 1 .. n + 1
    OBVIOUS
  <2>5. \A j \in i .. n + 1 : ~Has(f[j], "bad") => g[j] = f[j] \o d
    BY <2>2, <2>3, <2>4
  <2>6. k \in 0 .. n
    OBVIOUS
  <2>7. QED
    BY <2>1, <2>5, <2>6
<1>10. ~Has(f[1], "bad") => g[1] = f[1] \o d
  <2> HIDE DEF S
  <2>1. \A k \in 0 .. n : k \in S
    BY <1>8, <1>9, UpTo
  <2>2. n \in S
    BY <2>1
  <2>3. n + 1 - n = 1 /\ 1 \in 1 .. n + 1
    OBVIOUS
  <2>4. QED
    BY <2>2, <2>3 DEF S
<1>11. d # <<>> /\ d[1][2] = 0
  <2>1. PICK i \in 1 .. n + m : i = n + 1
    BY <1>6
  <2>2. PICK h \in Seq(Char) : h = Glyph(b, i) /\ h # <<>> /\ h[1][2] = 0
    BY <1>3, <2>1, GlyphIs
  <2>3. PICK e \in Seq(Char) : d = h \o e
    <3>1. PICK j \in i + 1 .. n + m + 1 : j = After(b, i)
      BY <1>3, <1>5, <2>1 DEF Decoding
    <3>2. j \in 1 .. n + m + 1
      BY <2>1
    <3>3. g[j] \in Seq(Char)
      BY <1>3, <1>5, <3>2 DEF Decoding
    <3>4. g[i] = Glyph(b, i) \o g[j]
      BY <1>3, <1>5, <2>1, <3>1 DEF Decoding
    <3>5. QED
      BY <1>7, <2>1, <2>2, <3>3, <3>4
  <2>4. 1 \in 1 .. Len(h)
    BY <2>2, EmptySeq
  <2>5. d[1] = h[1] /\ Len(d) >= 1
    <3>1. /\ Len(h) \in Nat /\ Len(e) \in Nat /\ Len(h \o e) = Len(h) + Len(e)
          /\ \A o \in 1 .. Len(h) : (h \o e)[o] = h[o]
      BY Joined
    <3>2. Len(d) >= 1
      BY <2>3, <2>4, <3>1
    <3>3. QED
      BY <2>3, <2>4, <3>1, <3>2
  <2>6. QED
    BY <2>2, <2>5, EmptySeq
<1>12. Decode(a) = f[1] /\ Decode(b) = g[1] /\ f[1] \in Seq(Char)
  <2>1. 1 \in 1 .. Len(a) + 1
    BY <1>1
  <2>2. QED
    BY <1>4, <1>5, <2>1 DEF Decoding
<1>13. QED
  BY <1>10, <1>11, <1>12 DEF b

\* What is decoded is a text; of nothing, nothing.
LEMMA DecodeText ==
  /\ Decode(<<>>) = <<>>
  /\ \A a \in Seq(Byte) : Decode(a) \in Seq(Char)
<1>1. ASSUME NEW a \in Seq(Byte)
      PROVE  Decode(a) \in Seq(Char)
  <2>1. PICK f : Decoding(f, a)
    BY DecodeIs
  <2>2. 1 \in 1 .. Len(a) + 1
    BY LenProperties
  <2>3. QED
    BY <2>1, <2>2 DEF Decoding
<1>2. Decode(<<>>) = <<>>
  <2>1. <<>> \in Seq(Byte) /\ Len(<<>>) = 0
    BY EmptySeq
  <2>2. PICK f : Decoding(f, <<>>)
    BY <2>1, DecodeIs
  <2>3. f[0 + 1] = <<>> /\ 0 + 1 = 1
    BY <2>1, <2>2 DEF Decoding
  <2>4. QED
    BY <2>2, <2>3 DEF Decoding
<1>3. QED
  BY <1>1, <1>2

-----------------------------------------------------------------------------
(* The inductive invariant                                                  *)

\* What was cut away ends with a closing marker and blanks.
Cut(x) == \E c \in 1 .. Len(x) : x[c][1] = "closer" /\ \A j \in c + 1 .. Len(x) : x[j][1] = "blank"

\* A text the stripper gave up on: no marker within the buffer's size.
Plain(x) == Len(x) > MaxBuffer /\ \A i \in 1 .. MaxBuffer : x[i][1] \notin {"opener", "closer"}

\* Where the text is, as long as each token ended with a whole glyph.
Placed ==
  /\ ~Has(full_text, "bad") /\ pc # "panic"
  /\ dropped \o shown \o buf = full_text
  /\ passthrough => buf = <<>>
  /\ pc = "done" => passthrough
  /\ ~passthrough => dropped = <<>> /\ shown = <<>> /\ ~Has(buf, "closer")
  /\ dropped # <<>> => Cut(dropped)
  /\ passthrough /\ dropped = <<>> =>
       Plain(full_text) \/ (pc = "done" /\ ~Has(full_text, "closer"))

IInv == TypeOK /\ full_text = Decode(out) /\ (~torn => Placed)

LEMMA IInvInit == Init => IInv
<1>1. SUFFICES ASSUME Init
               PROVE  IInv
  OBVIOUS
<1>2. <<>> \in Seq(Byte) /\ <<>> \in Seq(Char) /\ Len(<<>>) = 0
  BY EmptySeq
<1>3. ~Has(<<>>, "bad") /\ ~Has(<<>>, "closer")
  BY DEF Has
<1>4. <<>> \o <<>> \o <<>> = <<>>
  BY <1>2, ConcatEmptySeq
<1>5. TypeOK
  <2>1. 0 \in 0 .. MaxTokens
    BY TextAssumption
  <2>2. prev_text_len = Len(full_text)
    BY <1>1, <1>2 DEF Init
  <2>3. out \in Seq(Byte) /\ full_text \in Seq(Char) /\ buf \in Seq(Char)
        /\ shown \in Seq(Char) /\ dropped \in Seq(Char)
    BY <1>1, <1>2, Zenon DEF Init
  <2>4. count \in 0 .. MaxTokens /\ prev_text_len \in Nat
    BY <1>1, <2>1 DEF Init
  <2>5. passthrough \in BOOLEAN /\ torn \in BOOLEAN /\ pc \in {"decode", "done", "panic"}
    BY <1>1 DEF Init
  <2>6. QED
    BY <2>2, <2>3, <2>4, <2>5 DEF TypeOK
<1>6. full_text = Decode(out)
  BY <1>1, DecodeText DEF Init
<1>7. Placed
  BY <1>1, <1>3, <1>4 DEF Init, Placed
<1>8. QED
  BY <1>5, <1>6, <1>7 DEF IInv

\* The next token's part of the text.
Grown(d) ==
  /\ d \in Seq(Char) /\ full_text' = full_text \o d /\ Delta = d
  /\ Len(full_text') > prev_text_len /\ full_text'[prev_text_len + 1][2] = 0

\* A token that ends with a whole glyph, behind others that do, adds to the text.
LEMMA Grows ==
  ASSUME IInv, Decoded
  PROVE  /\ out' \in Seq(Byte) /\ count' \in 0 .. MaxTokens /\ full_text' \in Seq(Char)
         /\ torn' \in BOOLEAN /\ full_text' = Decode(out')
         /\ ~torn' => ~torn /\ ~Has(full_text', "bad") /\ \E d : Grown(d)
<1>1. PICK t \in Tokens : out' = out \o t
  BY DEF Decoded
<1>2. t \in Seq(Byte) /\ t # <<>> /\ out \in Seq(Byte)
  BY <1>1, TextAssumption DEF IInv, TypeOK
<1>3. out' \in Seq(Byte)
  BY <1>1, <1>2, ConcatProperties
<1>4. full_text' = Decode(out') /\ full_text' \in Seq(Char)
  BY <1>3, DecodeText DEF Decoded
<1>5. count' \in 0 .. MaxTokens /\ torn' \in BOOLEAN
  <2>1. count' \in 0 .. MaxTokens
    BY TextAssumption DEF IInv, TypeOK, Decoded
  <2>2. torn' \in BOOLEAN
    BY DEF IInv, TypeOK, Decoded
  <2>3. QED
    BY <2>1, <2>2
<1>6. ASSUME ~torn'
      PROVE  ~torn /\ ~Has(full_text', "bad") /\ \E d : Grown(d)
  <2>1. ~torn /\ ~Has(full_text', "bad") /\ pc = "decode"
    BY <1>6, Zenon DEF Decoded
  <2>2. full_text = Decode(out) /\ ~Has(full_text, "bad") /\ prev_text_len = Len(full_text)
    BY <2>1 DEF IInv, TypeOK, Placed
  <2>3. PICK d \in Seq(Char) : Decode(out \o t) = Decode(out) \o d /\ d # <<>> /\ d[1][2] = 0
    BY <1>2, <2>2, DecodeContinues
  <2>4. full_text' = full_text \o d /\ full_text \in Seq(Char)
    BY <1>1, <1>4, <2>2, <2>3, DecodeText, <1>2
  <2>5. PICK m \in Nat, k \in Nat \ {0} : m = Len(full_text) /\ k = Len(d)
    BY <2>3, <2>4, LenProperties, EmptySeq
  <2>6. /\ Len(full_text') = m + k
        /\ \A i \in 1 .. k : full_text'[m + i] = d[i]
    BY <2>4, <2>5, Joined
  <2>7. full_text'[m + 1] = d[1]
    BY <2>5, <2>6
  <2>8. Delta = d
    <3>1. m \in 0 .. Len(full_text')
      BY <2>5, <2>6
    <3>2. PICK x \in Seq(Char) : x = full_text'
      BY <1>4
    <3>3. PICK y : y = Rest(x, m)
      OBVIOUS
    <3>4. y \in Seq(Char) /\ Len(y) = Len(x) - m /\ \A i \in 1 .. Len(x) - m : y[i] = x[m + i]
      BY <3>1, <3>2, <3>3, Parted
    <3>5. Len(x) - m = k
      BY <2>5, <2>6, <3>2
    <3>6. y = d
      BY <2>5, <2>6, <3>2, <3>4, <3>5, SeqEqual
    <3>7. QED
      BY <2>2, <2>5, <3>2, <3>3, <3>6 DEF Delta
  <2>9. Grown(d)
    BY <2>2, <2>3, <2>4, <2>5, <2>6, <2>7, <2>8 DEF Grown
  <2>10. QED
    BY <2>1, <2>9
<1>7. QED
  BY <1>3, <1>4, <1>5, <1>6

\* What is handed to the stripper is text, whatever was torn.
LEMMA DeltaIs ==
  ASSUME IInv, Delivers
  PROVE  Delta \in Seq(Char) /\ prev_text_len' = Len(full_text') /\ prev_text_len' \in Nat
<1>1. full_text' \in Seq(Char)
  BY Grows DEF Delivers
<1>2. prev_text_len \in 0 .. Len(full_text')
  BY <1>1, LenProperties DEF Delivers, IInv, TypeOK
<1>3. QED
  BY <1>1, <1>2, Parted, LenProperties DEF Delta, Delivers, Delivered

\* A token with nothing new, or with a part of a character, tore a glyph.
LEMMA TornKeeps ==
  ASSUME IInv, NoDelta \/ SlicePanics
  PROVE  IInv'
<1>1. Decoded /\ (Len(full_text') <= prev_text_len \/ full_text'[prev_text_len + 1][2] # 0)
  BY DEF NoDelta, SlicePanics
<1>2. PICK n : n = Len(full_text')
  OBVIOUS
<1>3. torn'
  <2>1. SUFFICES ASSUME ~torn'
                 PROVE  FALSE
    OBVIOUS
  <2>2. PICK d : Grown(d)
    BY <1>1, <2>1, Grows
  <2>3. Len(full_text') \in Nat /\ prev_text_len \in Nat
    BY <1>1, Grows, LenProperties DEF IInv, TypeOK
  <2>4. QED
    BY <1>1, <2>2, <2>3 DEF Grown
<1>4. UNCHANGED <<prev_text_len, passthrough, buf, shown, dropped>>
  BY DEF NoDelta, SlicePanics, stripper
<1>5. pc' \in {"decode", "panic"}
  BY DEF NoDelta, SlicePanics, Decoded
<1>6. TypeOK'
  BY <1>1, <1>3, <1>4, <1>5, Grows DEF IInv, TypeOK
<1>7. QED
  BY <1>1, <1>3, <1>6, Grows DEF IInv

\* A text that was given up on stays so.
LEMMA StaysPlain ==
  ASSUME NEW x \in Seq(Char), NEW d \in Seq(Char), Plain(x)
  PROVE  Plain(x \o d)
<1>1. /\ Len(x) \in Nat /\ Len(d) \in Nat /\ Len(x \o d) = Len(x) + Len(d)
      /\ \A i \in 1 .. Len(x) : (x \o d)[i] = x[i]
  BY Joined
<1>2. MaxBuffer \in Nat /\ MaxBuffer < Len(x)
  BY <1>1, TextAssumption DEF Plain
<1>3. \A i \in 1 .. MaxBuffer : (x \o d)[i] = x[i]
  BY <1>1, <1>2
<1>4. Len(x \o d) > MaxBuffer
  BY <1>1, <1>2
<1>5. QED
  BY <1>3, <1>4 DEF Plain

LEMMA PassKeeps ==
  ASSUME IInv, PassThrough
  PROVE  IInv'
<1>1. Decoded /\ Delivers /\ passthrough /\ shown' = shown \o Delta /\ pc = "decode" /\ pc' = pc
      /\ UNCHANGED <<passthrough, buf, dropped>>
  BY DEF PassThrough, Delivers, Decoded
<1>2. Delta \in Seq(Char) /\ prev_text_len' = Len(full_text') /\ prev_text_len' \in Nat
  BY <1>1, DeltaIs
<1>3. shown \in Seq(Char) /\ dropped \in Seq(Char) /\ buf \in Seq(Char) /\ full_text \in Seq(Char)
  BY DEF IInv, TypeOK
<1>4. shown' \in Seq(Char)
  BY <1>1, <1>2, <1>3, ConcatProperties
<1>5. TypeOK'
  BY <1>1, <1>2, <1>3, <1>4, Grows DEF IInv, TypeOK
<1>6. ASSUME ~torn'
      PROVE  Placed'
  <2>1. ~torn /\ ~Has(full_text', "bad")
    BY <1>1, <1>6, Grows
  <2>2. PICK d : Grown(d)
    BY <1>1, <1>6, Grows
  <2>3. Placed
    BY <2>1 DEF IInv
  <2>4. d \in Seq(Char) /\ full_text' = full_text \o d /\ shown' = shown \o d
    BY <1>1, <2>2 DEF Grown
  <2>5. full_text = dropped \o shown /\ buf = <<>> /\ buf' = <<>>
    <3>1. dropped \o shown \in Seq(Char)
      BY <1>3, ConcatProperties
    <3>2. (dropped \o shown) \o <<>> = dropped \o shown
      BY <3>1, ConcatEmptySeq
    <3>3. QED
      BY <1>1, <2>3, <3>2 DEF Placed
  <2>6. dropped' \o shown' \o buf' = full_text'
    <3>1. dropped \o (shown \o d) = (dropped \o shown) \o d
      <4>1. d \in Seq(Char)
        BY <2>4
      <4>2. QED
        BY <1>3, <4>1, Regrouped, SMTT(30)
    <3>2. dropped \o (shown \o d) \in Seq(Char)
      BY <1>3, <1>4, <2>4, ConcatProperties
    <3>3. (dropped \o (shown \o d)) \o <<>> = dropped \o (shown \o d)
      BY <3>2, ConcatEmptySeq
    <3>4. QED
      BY <1>1, <2>4, <2>5, <3>1, <3>3
  <2>7. dropped' = <<>> => Plain(full_text')
    BY <1>1, <1>3, <2>3, <2>4, StaysPlain DEF Placed
  <2>8. dropped' # <<>> => Cut(dropped')
    BY <1>1, <2>3 DEF Placed
  <2>9. QED
    BY <1>1, <2>1, <2>5, <2>6, <2>7, <2>8 DEF Placed
<1>7. QED
  BY <1>1, <1>5, <1>6, Grows DEF IInv

\* What the stripper looks at is the whole text so far.
LEMMA WholeText ==
  ASSUME IInv, Delivers, ~passthrough
  PROVE  /\ buf \o Delta \in Seq(Char)
         /\ ~torn' => ~torn /\ ~Has(full_text', "bad") /\ buf \o Delta = full_text'
                      /\ dropped = <<>> /\ shown = <<>>
<1>1. Delta \in Seq(Char) /\ buf \in Seq(Char)
  BY DeltaIs DEF IInv, TypeOK
<1>2. buf \o Delta \in Seq(Char)
  BY <1>1, ConcatProperties
<1>3. ASSUME ~torn'
      PROVE  /\ ~torn /\ ~Has(full_text', "bad") /\ buf \o Delta = full_text'
             /\ dropped = <<>> /\ shown = <<>>
  <2>1. Decoded
    BY DEF Delivers
  <2>2. ~torn /\ ~Has(full_text', "bad")
    BY <1>3, <2>1, Grows
  <2>3. PICK d : Grown(d)
    BY <1>3, <2>1, Grows
  <2>4. Placed
    BY <2>2 DEF IInv
  <2>5. dropped = <<>> /\ shown = <<>> /\ <<>> \o <<>> \o buf = full_text
    BY <2>4 DEF Placed
  <2>6. <<>> \o <<>> \o buf = buf
    BY <1>1, EmptySeq, ConcatEmptySeq
  <2>7. buf \o Delta = full_text'
    BY <2>3, <2>5, <2>6 DEF Grown
  <2>8. QED
    BY <2>2, <2>5, <2>7
<1>4. QED
  BY <1>2, <1>3

LEMMA EndKeeps ==
  ASSUME IInv, EndPreamble
  PROVE  IInv'
<1>1. PICK all : all = buf \o Delta
  OBVIOUS
<1>2. PICK end : end = PreambleEnd(all)
  OBVIOUS
<1>3. /\ Decoded /\ Delivers /\ ~passthrough /\ pc = "decode" /\ pc' = pc /\ Has(all, "closer")
      /\ dropped' = SubSeq(all, 1, end) /\ shown' = shown \o Rest(all, end)
      /\ buf' = <<>> /\ passthrough' = TRUE
  BY <1>1, <1>2 DEF EndPreamble, Delivers, Decoded
<1>4. all \in Seq(Char)
  BY <1>1, <1>3, WholeText
<1>5. PICK c \in 1 .. Len(all) : c = ClosedAt(all) /\ all[c][1] = "closer"
  BY <1>3, <1>4, ClosedIs
<1>6. Len(all) \in Nat /\ c \in 0 .. Len(all)
  BY <1>4, <1>5, LenProperties
<1>7. end \in c .. Len(all) /\ \A j \in c + 1 .. end : all[j][1] = "blank"
  BY <1>2, <1>4, <1>5, <1>6, SkipIs DEF PreambleEnd, Skipped
<1>8. end \in 0 .. Len(all) /\ c \in 1 .. end
  BY <1>5, <1>6, <1>7
<1>9. /\ dropped' \in Seq(Char) /\ Len(dropped') = end /\ \A i \in 1 .. end : dropped'[i] = all[i]
      /\ Rest(all, end) \in Seq(Char) /\ dropped' \o Rest(all, end) = all
  BY <1>3, <1>4, <1>8, Parted
<1>10. shown' \in Seq(Char)
  BY <1>3, <1>9, ConcatProperties DEF IInv, TypeOK
<1>11. TypeOK'
  <2>1. prev_text_len' = Len(full_text') /\ prev_text_len' \in Nat
    BY <1>3, DeltaIs
  <2>2. <<>> \in Seq(Char)
    BY EmptySeq
  <2>3. QED
    BY <1>3, <1>9, <1>10, <2>1, <2>2, Grows DEF TypeOK
<1>12. ASSUME ~torn'
       PROVE  Placed'
  <2>1. ~Has(full_text', "bad") /\ all = full_text' /\ shown = <<>>
    BY <1>1, <1>3, <1>12, WholeText
  <2>2. shown' = Rest(all, end)
    BY <1>3, <1>9, <2>1, ConcatEmptySeq
  <2>3. dropped' \o shown' \o buf' = full_text'
    BY <1>3, <1>4, <1>9, <2>1, <2>2, ConcatEmptySeq
  <2>4. Cut(dropped')
    <3>1. \A j \in c + 1 .. end : dropped'[j][1] = "blank"
      BY <1>6, <1>7, <1>8, <1>9
    <3>2. QED
      BY <1>5, <1>8, <1>9, <3>1 DEF Cut
  <2>5. dropped' # <<>>
    BY <1>8, <1>9, EmptySeq
  <2>6. QED
    BY <1>3, <2>1, <2>3, <2>4, <2>5 DEF Placed
<1>13. QED
  BY <1>3, <1>11, <1>12, Grows DEF IInv

LEMMA GiveUpKeeps ==
  ASSUME IInv, GiveUp
  PROVE  IInv'
<1>1. PICK all : all = buf \o Delta
  OBVIOUS
<1>2. /\ Decoded /\ Delivers /\ ~passthrough /\ pc = "decode" /\ pc' = pc
      /\ ~Has(all, "closer") /\ Overfull(all) /\ ~Opened(all)
      /\ shown' = shown \o all /\ dropped' = dropped
      /\ buf' = <<>> /\ passthrough' = TRUE
  BY <1>1 DEF GiveUp, Delivers, Decoded
<1>3. all \in Seq(Char)
  BY <1>1, <1>2, WholeText
<1>4. shown' \in Seq(Char) /\ dropped' \in Seq(Char)
  BY <1>2, <1>3, ConcatProperties DEF IInv, TypeOK
<1>5. TypeOK'
  <2>1. prev_text_len' = Len(full_text') /\ prev_text_len' \in Nat
    BY <1>2, DeltaIs
  <2>2. <<>> \in Seq(Char)
    BY EmptySeq
  <2>3. QED
    BY <1>2, <1>4, <2>1, <2>2, Grows DEF TypeOK
<1>6. ASSUME ~torn'
      PROVE  Placed'
  <2>1. ~Has(full_text', "bad") /\ all = full_text' /\ shown = <<>> /\ dropped = <<>>
    BY <1>1, <1>2, <1>6, WholeText
  <2>2. shown' = all
    BY <1>2, <1>3, <2>1, ConcatEmptySeq
  <2>3. dropped' \o shown' \o buf' = full_text'
    BY <1>2, <1>3, <2>1, <2>2, ConcatEmptySeq
  <2>4. Plain(all)
    <3>1. Len(all) \in Nat /\ DOMAIN all = 1 .. Len(all)
      BY <1>3, LenProperties
    <3>2. MaxBuffer \in Nat /\ MaxBuffer < Len(all)
      BY <1>2, <3>1, TextAssumption DEF Overfull
    <3>3. \A i \in 1 .. MaxBuffer : i \in DOMAIN all
      BY <3>1, <3>2
    <3>4. QED
      BY <1>2, <3>1, <3>2, <3>3 DEF Plain, Has, Opened
  <2>5. QED
    BY <1>2, <2>1, <2>3, <2>4 DEF Placed
<1>7. QED
  BY <1>2, <1>5, <1>6, Grows DEF IInv

LEMMA HoldKeeps ==
  ASSUME IInv, HoldBack
  PROVE  IInv'
<1>1. /\ Decoded /\ Delivers /\ ~passthrough /\ pc = "decode" /\ pc' = pc
      /\ buf' = buf \o Delta /\ ~Has(buf', "closer")
      /\ UNCHANGED <<passthrough, shown, dropped>>
  BY DEF HoldBack, Delivers, Decoded
<1>2. buf' \in Seq(Char)
  BY <1>1, WholeText
<1>3. TypeOK'
  <2>1. prev_text_len' = Len(full_text') /\ prev_text_len' \in Nat
    BY <1>1, DeltaIs
  <2>2. QED
    BY <1>1, <1>2, <2>1, Grows DEF IInv, TypeOK
<1>4. ASSUME ~torn'
      PROVE  Placed'
  <2>1. ~Has(full_text', "bad") /\ buf' = full_text' /\ shown = <<>> /\ dropped = <<>>
    BY <1>1, <1>4, WholeText
  <2>2. dropped' \o shown' \o buf' = full_text'
    BY <1>1, <1>2, <2>1, EmptySeq, ConcatEmptySeq
  <2>3. QED
    BY <1>1, <2>1, <2>2 DEF Placed
<1>5. QED
  BY <1>1, <1>3, <1>4, Grows DEF IInv

LEMMA StopKeeps ==
  ASSUME IInv, Stop
  PROVE  IInv'
<1>1. /\ pc = "decode" /\ pc' = "done" /\ shown' = shown \o buf /\ buf' = <<>>
      /\ passthrough' = TRUE
      /\ UNCHANGED <<out, count, full_text, prev_text_len, dropped, torn>>
  BY DEF Stop, Flushed
<1>2. shown \in Seq(Char) /\ dropped \in Seq(Char) /\ buf \in Seq(Char) /\ <<>> \in Seq(Char)
  BY EmptySeq DEF IInv, TypeOK
<1>3. shown' \in Seq(Char)
  BY <1>1, <1>2, ConcatProperties
<1>4. TypeOK'
  BY <1>1, <1>2, <1>3 DEF IInv, TypeOK
<1>5. ASSUME ~torn'
      PROVE  Placed'
  <2>1. Placed
    BY <1>1, <1>5 DEF IInv
  <2>2. dropped' \o shown' \o buf' = full_text'
    <3>1. dropped \o (shown \o buf) = (dropped \o shown) \o buf
      BY <1>2, Regrouped
    <3>2. dropped \o (shown \o buf) \in Seq(Char)
      BY <1>1, <1>2, <1>3, ConcatProperties
    <3>3. (dropped \o (shown \o buf)) \o <<>> = dropped \o (shown \o buf)
      BY <3>2, ConcatEmptySeq
    <3>4. QED
      BY <1>1, <2>1, <3>1, <3>3 DEF Placed
  <2>3. ~passthrough => ~Has(full_text, "closer")
    <3>1. <<>> \o <<>> \o buf = buf
      BY <1>2, ConcatEmptySeq
    <3>2. QED
      BY <2>1, <3>1 DEF Placed
  <2>4. QED
    BY <1>1, <2>1, <2>2, <2>3 DEF Placed
<1>6. QED
  BY <1>1, <1>4, <1>5 DEF IInv

LEMMA IInvNext == IInv /\ [Next]_vars => IInv'
<1>1. SUFFICES ASSUME IInv, [Next]_vars
               PROVE  IInv'
  OBVIOUS
<1>2. CASE UNCHANGED vars
  BY <1>1, <1>2 DEF vars, stripper, IInv, TypeOK, Placed
<1>3. CASE Next
  <2>1. CASE Ended
    BY <1>1, <2>1 DEF Ended, vars, stripper, IInv, TypeOK, Placed
  <2>2. CASE NoDelta \/ SlicePanics
    BY <1>1, <2>2, TornKeeps
  <2>3. CASE PassThrough \/ EndPreamble \/ GiveUp \/ HoldBack \/ Stop
    BY <1>1, <2>3, PassKeeps, EndKeeps, GiveUpKeeps, HoldKeeps, StopKeeps
  <2>4. QED
    BY <1>3, <2>1, <2>2, <2>3 DEF Next
<1>4. QED
  BY <1>1, <1>2, <1>3

LEMMA Invariance == Spec => []IInv
BY IInvInit, IInvNext, PTL DEF Spec

-----------------------------------------------------------------------------
(* The theorems                                                             *)

\* Every variable has its type, and up to a glyph that was torn the position up to
\* which text was delivered is the end of the text.
THEOREM TypeCorrect == Spec => []TypeOK
<1>1. IInv => TypeOK
  BY DEF IInv
<1>2. QED
  BY <1>1, Invariance, PTL

\* Of tokens that end with whole glyphs no part of the text is lost or shown twice,
\* and slicing it never panics.
THEOREM NothingLostCorrect == Spec => []NothingLost
<1>1. IInv => NothingLost
  BY DEF IInv, Placed, NothingLost
<1>2. QED
  BY <1>1, Invariance, PTL

\* The parts of the text on either side of what was cut away.
LEMMA Sides ==
  ASSUME IInv, ~torn, passthrough
  PROVE  /\ dropped \in Seq(Char) /\ shown \in Seq(Char) /\ full_text \in Seq(Char)
         /\ full_text = dropped \o shown
         /\ Len(dropped) \in Nat /\ Len(shown) \in Nat /\ Len(full_text) = Len(dropped) + Len(shown)
         /\ \A i \in 1 .. Len(dropped) : full_text[i] = dropped[i]
         /\ \A i \in 1 .. Len(shown) : full_text[Len(dropped) + i] = shown[i]
<1>1. dropped \in Seq(Char) /\ shown \in Seq(Char) /\ full_text \in Seq(Char)
  BY DEF IInv, TypeOK
<1>2. full_text = dropped \o shown
  <2>1. dropped \o shown \in Seq(Char)
    BY <1>1, ConcatProperties
  <2>2. (dropped \o shown) \o <<>> = dropped \o shown
    BY <2>1, ConcatEmptySeq
  <2>3. QED
    BY <2>2 DEF IInv, Placed
<1>3. QED
  BY <1>1, <1>2, Joined

\* What was cut away ends with a closing marker of the text, and blanks.
LEMMA CutAt ==
  ASSUME IInv, ~torn, passthrough, dropped # <<>>
  PROVE  \E c \in 1 .. Len(dropped) :
           /\ full_text[c][1] = "closer" /\ c \in 1 .. Len(full_text)
           /\ \A j \in c + 1 .. Len(dropped) : full_text[j][1] = "blank"
<1>1. PICK c \in 1 .. Len(dropped) :
        dropped[c][1] = "closer" /\ \A j \in c + 1 .. Len(dropped) : dropped[j][1] = "blank"
  BY DEF IInv, Placed, Cut
<1>2. /\ Len(dropped) \in Nat /\ Len(shown) \in Nat /\ Len(full_text) = Len(dropped) + Len(shown)
      /\ \A i \in 1 .. Len(dropped) : full_text[i] = dropped[i]
  BY Sides
<1>3. c \in 1 .. Len(full_text)
  BY <1>2
<1>4. \A j \in c + 1 .. Len(dropped) : j \in 1 .. Len(dropped)
  BY <1>2
<1>5. QED
  BY <1>1, <1>2, <1>3, <1>4

\* A text that was given up on shows no marker in time.
LEMMA PlainIsLate ==
  ASSUME NEW x \in Seq(Char), Plain(x), NEW kind \in {"opener", "closer"}
  PROVE  ~Early(x, kind)
<1>1. SUFFICES ASSUME Has(x, kind), FirstOf(x, kind) <= MaxBuffer
               PROVE  FALSE
  BY DEF Early
<1>2. FirstOf(x, kind) \in 1 .. Len(x) /\ x[FirstOf(x, kind)][1] = kind
  BY <1>1, FirstIs
<1>3. FirstOf(x, kind) \in 1 .. MaxBuffer
  BY <1>1, <1>2, TextAssumption, LenProperties
<1>4. QED
  BY <1>2, <1>3 DEF Plain

\* A preamble that shows itself before the buffer is full is never seen, however it
\* is spread over tokens.
THEOREM PreambleCorrect == Spec => []PreambleHidden
<1>1. ASSUME IInv
      PROVE  PreambleHidden
  <2>1. SUFFICES ASSUME ~torn, pc = "decode", Early(full_text, "opener")
                 PROVE  IF Has(full_text, "closer") THEN Len(dropped) >= FirstOf(full_text, "closer")
                                                    ELSE shown = <<>>
    BY DEF PreambleHidden
  <2>2. Placed /\ full_text \in Seq(Char) /\ buf \in Seq(Char)
    BY <1>1, <2>1 DEF IInv, TypeOK
  <2>3. CASE ~passthrough
    <3>1. <<>> \o <<>> \o buf = buf
      BY <2>2, EmptySeq, ConcatEmptySeq
    <3>2. shown = <<>> /\ ~Has(full_text, "closer")
      BY <2>2, <2>3, <3>1 DEF Placed
    <3>3. QED
      BY <3>2
  <2>4. CASE passthrough /\ dropped = <<>>
    <3>1. Plain(full_text)
      BY <2>1, <2>2, <2>4 DEF Placed
    <3>2. QED
      BY <2>1, <2>2, <3>1, PlainIsLate
  <2>5. CASE passthrough /\ dropped # <<>>
    <3>1. PICK c \in 1 .. Len(dropped) : full_text[c][1] = "closer" /\ c \in 1 .. Len(full_text)
      BY <1>1, <2>1, <2>5, CutAt
    <3>2. Has(full_text, "closer")
      BY <2>2, <3>1, LenProperties DEF Has
    <3>3. FirstOf(full_text, "closer") <= c /\ FirstOf(full_text, "closer") \in 1 .. Len(full_text)
      BY <2>2, <3>1, <3>2, FirstIs
    <3>4. Len(dropped) \in Nat
      BY <1>1, <2>1, <2>5, Sides
    <3>5. Len(dropped) >= FirstOf(full_text, "closer")
      BY <3>1, <3>3, <3>4
    <3>6. QED
      BY <3>2, <3>5
  <2>6. QED
    BY <2>3, <2>4, <2>5
<1>2. QED
  BY <1>1, Invariance, PTL

\* Blanks behind a cut are skipped as behind the marker the cut was made at.
LEMMA SkipThroughCut ==
  ASSUME NEW a \in Seq(Char), NEW b \in Seq(Char), NEW c \in 1 .. Len(a),
         \A j \in c + 1 .. Len(a) : a[j][1] = "blank"
  PROVE  Rest(a \o b, SkipBlanks(a \o b, c)) = Rest(b, SkipBlanks(b, 0))
<1> DEFINE x == a \o b
<1>1. PICK m, n \in Nat : m = Len(a) /\ n = Len(b)
  BY LenProperties
<1>2. /\ x \in Seq(Char) /\ Len(x) = m + n
      /\ \A i \in 1 .. m : x[i] = a[i]
      /\ \A i \in 1 .. n : x[m + i] = b[i]
  BY <1>1, Joined
<1> HIDE DEF x
<1>3. PICK k \in 0 .. n : k = SkipBlanks(b, 0) /\ Skipped(b, 0, k)
  <2>1. 0 \in 0 .. Len(b)
    BY <1>1
  <2>2. QED
    BY <1>1, <2>1, SkipIs
<1>4. m + k = SkipBlanks(x, c)
  <2>1. c \in 0 .. Len(x) /\ m + k \in c .. Len(x)
    BY <1>1, <1>2
  <2>2. ASSUME NEW j \in c + 1 .. m + k
        PROVE  x[j][1] = "blank"
    <3>1. CASE j <= m
      <4>1. j \in c + 1 .. m /\ j \in 1 .. m
        BY <1>1, <3>1
      <4>2. QED
        BY <1>1, <1>2, <4>1
    <3>2. CASE ~(j <= m)
      <4>1. j - m \in 0 + 1 .. k /\ j - m \in 1 .. n /\ m + (j - m) = j
        BY <1>1, <3>2
      <4>2. b[j - m][1] = "blank"
        BY <1>3, <4>1 DEF Skipped
      <4>3. x[m + (j - m)] = b[j - m]
        BY <1>2, <4>1
      <4>4. QED
        BY <4>1, <4>2, <4>3
    <3>3. QED
      BY <3>1, <3>2
  <2>3. ASSUME m + k < Len(x)
        PROVE  x[m + k + 1][1] # "blank"
    <3>1. k < n /\ k + 1 \in 1 .. n /\ m + (k + 1) = m + k + 1
      BY <1>2, <2>3
    <3>2. b[k + 1][1] # "blank"
      BY <1>1, <1>3, <3>1 DEF Skipped
    <3>3. x[m + (k + 1)] = b[k + 1]
      BY <1>2, <3>1
    <3>4. QED
      BY <3>1, <3>2, <3>3
  <2>4. Skipped(x, c, m + k)
    BY <2>2, <2>3 DEF Skipped
  <2>5. QED
    BY <1>2, <2>1, <2>4, SkipIs
<1>5. Rest(x, m + k) = Rest(b, k)
  <2>1. m + k \in 0 .. Len(x) /\ k \in 0 .. Len(b) /\ Len(x) - (m + k) = n - k
    BY <1>1, <1>2
  <2>2. /\ Rest(x, m + k) \in Seq(Char) /\ Len(Rest(x, m + k)) = n - k
        /\ \A i \in 1 .. n - k : Rest(x, m + k)[i] = x[m + k + i]
    <3>1. PICK l \in 0 .. Len(x) : l = m + k /\ Len(x) - l = n - k
      BY <2>1
    <3>2. /\ Rest(x, l) \in Seq(Char) /\ Len(Rest(x, l)) = Len(x) - l
          /\ \A i \in 1 .. Len(x) - l : Rest(x, l)[i] = x[l + i]
      BY <1>2, Parted
    <3>3. QED
      BY <3>1, <3>2
  <2>3. /\ Rest(b, k) \in Seq(Char) /\ Len(Rest(b, k)) = n - k
        /\ \A i \in 1 .. n - k : Rest(b, k)[i] = b[k + i]
    BY <1>1, <2>1, Parted
  <2>4. ASSUME NEW i \in 1 .. n - k
        PROVE  x[m + k + i] = b[k + i]
    <3>1. k + i \in 1 .. n /\ m + (k + i) = m + k + i
      BY <2>1
    <3>2. x[m + (k + i)] = b[k + i]
      BY <1>2, <3>1
    <3>3. QED
      BY <3>1, <3>2
  <2>5. QED
    BY <2>2, <2>3, <2>4, SeqEqual
<1>6. QED
  BY <1>3, <1>4, <1>5 DEF x

\* Only one of them is a closing marker.
LEMMA OneCloserIs ==
  ASSUME NEW x \in Seq(Char), OneCloser(x), NEW i \in 1 .. Len(x), x[i][1] = "closer"
  PROVE  Has(x, "closer") /\ i = ClosedAt(x)
<1> DEFINE S == {j \in DOMAIN x : x[j][1] = "closer"}
<1>1. Len(x) \in Nat /\ DOMAIN x = 1 .. Len(x)
  BY AtPlace
<1>2. IsFiniteSet(S)
  <2>1. IsFiniteSet(1 .. Len(x))
    BY <1>1, FS_Interval
  <2>2. S \subseteq 1 .. Len(x)
    BY <1>1
  <2> HIDE DEF S
  <2>3. QED
    BY <2>1, <2>2, FS_Subset
<1>3. PICK e : S = {e}
  <2>1. Cardinality(S) = 1
    BY DEF OneCloser
  <2> HIDE DEF S
  <2>2. QED
    BY <1>2, <2>1, FS_Singleton
<1>4. Has(x, "closer")
  BY <1>1 DEF Has
<1>5. i \in S /\ ClosedAt(x) \in S
  BY <1>1, <1>4, ClosedIs
<1>6. QED
  BY <1>3, <1>4, <1>5

\* A stream shows what the unary answer would, up to blanks that arrive after the
\* marker: of a text without a closing marker, and of one with a single marker whose
\* preamble shows itself in time.
THEOREM AgreesCorrect == Spec => []AgreesWithStrip
<1>1. ASSUME IInv
      PROVE  AgreesWithStrip
  <2>1. SUFFICES ASSUME ~torn, pc = "done"
                 PROVE  /\ ~Has(full_text, "closer") => shown = Strip(full_text)
                        /\ OneCloser(full_text)
                             /\ (Early(full_text, "opener") \/ Early(full_text, "closer")) =>
                             Rest(shown, SkipBlanks(shown, 0)) = Strip(full_text)
    BY DEF AgreesWithStrip
  <2>2. Placed /\ passthrough
    BY <1>1, <2>1 DEF IInv, Placed
  <2>3. /\ dropped \in Seq(Char) /\ shown \in Seq(Char) /\ full_text \in Seq(Char)
        /\ full_text = dropped \o shown
    BY <1>1, <2>1, <2>2, Sides
  <2>4. DOMAIN full_text = 1 .. Len(full_text)
    BY <2>3, LenProperties
  <2>5. CASE dropped = <<>>
    <3>1. shown = full_text
      BY <2>3, <2>5, ConcatEmptySeq
    <3>2. Plain(full_text) \/ ~Has(full_text, "closer")
      BY <2>2, <2>5 DEF Placed
    <3>3. ~Has(full_text, "closer") => shown = Strip(full_text)
      BY <3>1 DEF Strip
    <3>4. ASSUME OneCloser(full_text), Early(full_text, "opener") \/ Early(full_text, "closer")
          PROVE  FALSE
      <4>1. Has(full_text, "closer")
        <5> DEFINE S == {j \in DOMAIN full_text : full_text[j][1] = "closer"}
        <5>1. Cardinality(S) = 1
          BY <3>4 DEF OneCloser
        <5>2. S # {}
          <6> HIDE DEF S
          <6>1. QED
            BY <5>1, FS_EmptySet
        <5>3. QED
          BY <5>2 DEF Has
      <4>2. QED
        BY <2>3, <3>2, <3>4, <4>1, PlainIsLate
    <3>5. QED
      BY <3>3, <3>4
  <2>6. CASE dropped # <<>>
    <3>1. PICK c \in 1 .. Len(dropped) :
            /\ full_text[c][1] = "closer" /\ c \in 1 .. Len(full_text)
            /\ \A j \in c + 1 .. Len(dropped) : full_text[j][1] = "blank"
      BY <1>1, <2>1, <2>2, <2>6, CutAt
    <3>2. Has(full_text, "closer")
      BY <2>4, <3>1 DEF Has
    <3>3. ASSUME OneCloser(full_text)
          PROVE  Rest(shown, SkipBlanks(shown, 0)) = Strip(full_text)
      <4>1. c = ClosedAt(full_text)
        BY <2>3, <3>1, <3>3, OneCloserIs
      <4>2. Strip(full_text) = Rest(full_text, SkipBlanks(full_text, c))
        BY <3>2, <4>1 DEF Strip
      <4>3. \A j \in c + 1 .. Len(dropped) : dropped[j][1] = "blank"
        <5>1. /\ Len(dropped) \in Nat
              /\ \A i \in 1 .. Len(dropped) : full_text[i] = dropped[i]
          BY <1>1, <2>1, <2>2, Sides
        <5>2. \A j \in c + 1 .. Len(dropped) : j \in 1 .. Len(dropped)
          BY <5>1
        <5>3. QED
          BY <3>1, <5>1, <5>2
      <4>4. Rest(full_text, SkipBlanks(full_text, c)) = Rest(shown, SkipBlanks(shown, 0))
        BY <2>3, <4>3, SkipThroughCut
      <4>5. QED
        BY <4>2, <4>4
    <3>4. QED
      BY <3>2, <3>3
  <2>7. QED
    BY <2>5, <2>6
<1>2. QED
  BY <1>1, Invariance, PTL
=============================================================================
