----------------------------- MODULE ServerProofs ----------------------------
(***************************************************************************)
(* Proofs about the HTTP server: connection threads, job queue, worker and *)
(* reply channels, for every number of connections and whatever is posted  *)
(* on them.                                                                *)
(***************************************************************************)
EXTENDS Server, SequenceTheorems, FiniteSetTheorems, WellFoundedInduction, TLAPS

-----------------------------------------------------------------------------
(* The inductive invariant                                                  *)

Busy == worker \in {"decode", "close", "reply"}
Queued(c) == \E i \in DOMAIN jobs : jobs[i] = c

ChunkKinds == {"role", "text", "final", "usage"}

\* Types that bind no two variables.
Types ==
  /\ conn \in [Conn -> {"away", "read", "first", "stream", "closed"}]
  /\ left \in [Conn -> BOOLEAN] /\ req \in [Conn -> Request]
  /\ jobs \in Seq(Conn)
  /\ replies \in [Conn -> Seq(Frames)] /\ wire \in [Conn -> Seq(Frames)]
  /\ worker \in {"loading", "failed", "dead", "idle", "decode", "close", "reply"}
  /\ cur \in Conn \cup {NoConn}
  /\ status \in {0, 200, 400, 503, 500} /\ passthrough \in BOOLEAN /\ buf \in Nat
  /\ overdue \in BOOLEAN
  /\ metrics \in [Counters -> Nat]
  /\ made \in [Conn -> Nat] /\ cut \in [Conn -> Nat]

\* The queue and the worker.
Shared ==
  /\ \A i, j \in DOMAIN jobs : jobs[i] = jobs[j] => i = j
  /\ Busy <=> cur \in Conn
  /\ ~Busy => buf = 0
  /\ worker = "close" => status = 200
  /\ worker = "dead" => jobs = <<>>

\* Where a connection can be, and what it can have by then.
Where(c) ==
  /\ conn[c] \in {"away", "read"} =>
       ~Queued(c) /\ c # cur /\ replies[c] = <<>> /\ made[c] = 0 /\ cut[c] = 0
  /\ conn[c] \in {"away", "read", "first"} => wire[c] = <<>>
  /\ conn[c] = "closed" => replies[c] = <<>>
  /\ Queued(c) => conn[c] = "first" /\ replies[c] = <<>> /\ c # cur /\ made[c] = 0 /\ cut[c] = 0
  /\ worker \in {"loading", "dead"} => replies[c] = <<>> /\ conn[c] # "stream"
  /\ worker = "loading" /\ conn[c] = "first" => Queued(c)
  /\ c = cur /\ worker \in {"decode", "close"} => req[c].kind = "generate"
  /\ c = cur /\ worker = "close" => req[c].stream

\* The order of the frames.
Rank(f) == CASE f.kind = "header" -> 1 [] f.kind = "role" -> 2 [] f.kind = "text" -> 3
             [] f.kind = "final" -> 4 [] f.kind = "usage" -> 5
             [] f.kind \in {"[DONE]", "done"} -> 6 [] OTHER -> 7

Before(f, g) == Rank(f) < Rank(g) \/ (f.kind = "text" /\ g.kind = "text")
Ordered(s) == \A i, j \in DOMAIN s : i < j => Before(s[i], s[j])
Follows(s, t) == \A f \in ToSet(s), g \in ToSet(t) : Before(f, g)
AtMost(s, r) == \A f \in ToSet(s) : Rank(f) <= r

\* The stream of the request opens with the role chunk.
Chats(c) == req[c].kind = "generate" /\ req[c].stream /\ req[c].chat

\* What can be on the wire of a connection: nothing, one plain answer, or a
\* stream, begun or ended.
Silent(w) == w = <<>>
Plain(w) == Len(w) = 1 /\ w[1].kind \in {"reply", "get"}
Streamed(c) ==
  /\ Len(wire[c]) >= 2 /\ wire[c][1].kind = "header" /\ req[c].stream
  /\ wire[c][2].kind = "role" <=> Chats(c)
  /\ req[c].kind = "generate"
  /\ \A f \in ToSet(wire[c]) : f.kind \in ChunkKinds \cup {"header", "[DONE]"}

Order(c) ==
  /\ Silent(wire[c]) \/ Plain(wire[c]) \/ Streamed(c)
  /\ conn[c] = "stream" => Streamed(c)
  /\ \A f \in ToSet(replies[c]) :
       \/ f.kind = "done"
       \/ f.kind \in ChunkKinds /\ req[c].kind = "generate" /\ req[c].stream
  /\ Ordered(wire[c]) /\ Ordered(replies[c]) /\ Follows(wire[c], replies[c])
  /\ conn[c] = "first" /\ replies[c] # <<>> /\ replies[c][1].kind # "done" =>
       (replies[c][1].kind = "role" <=> Chats(c))
  /\ c = cur /\ worker \in {"decode", "close"} /\ conn[c] = "first" /\ Chats(c) => replies[c] # <<>>
  /\ c = cur /\ worker \in {"decode", "close"} => AtMost(wire[c], 3) /\ AtMost(replies[c], 3)
  /\ c = cur /\ worker = "reply" => AtMost(wire[c], 5) /\ AtMost(replies[c], 5)

\* Where the tokens of an answer are.
Open(c) == conn[c] \in {"first", "stream"}

Tokens(c) ==
  /\ c = cur /\ worker \in {"decode", "close"} /\ Open(c) /\ req[c].stream /\ ~req[c].spec =>
       Sent(wire[c]) + Sent(replies[c]) + cut[c] + buf = made[c]
  /\ c = cur /\ worker = "decode" /\ ~passthrough => cut[c] = 0
  /\ ~req[c].spec /\ Open(c) /\ (Has(wire[c], "final") \/ Has(replies[c], "final")) =>
       Sent(wire[c]) + Sent(replies[c]) + cut[c] = made[c]
  /\ ~req[c].spec /\ Has(wire[c], "final") => Sent(wire[c]) + cut[c] = made[c]

\* Requests still to be counted, and answers there is evidence of.
Pending == {c \in Conn : \/ conn[c] = "read" \/ Queued(c)
                         \/ worker = "decode" /\ c = cur
                         \/ worker = "dead" /\ conn[c] = "first"}

Holds(s, kind, codes) == \E f \in ToSet(s) : f.kind = kind /\ f.n \in codes

Evidence(codes) == {c \in Conn : \/ /\ wire[c] # <<>> /\ wire[c][1].kind = "reply"
                                    /\ wire[c][1].n \in codes
                                 \/ Holds(replies[c], "done", codes)
                                 \/ c = cur /\ worker = "reply" /\ status \in codes}

Done200 == {c \in Conn : \/ Has(wire[c], "final") \/ Has(replies[c], "final")
                         \/ c = cur /\ worker = "close"} \cup Evidence({200})

Counted ==
  /\ metrics["ok"] + metrics["e4"] + metrics["e5"] + Cardinality(Pending) <= metrics["total"]
  /\ metrics["ok"] = metrics["eos"] + metrics["length"] /\ metrics["panics"] <= metrics["e5"]
  /\ metrics["ok"] >= Cardinality(Done200)
  /\ metrics["e4"] >= Cardinality(Evidence({400}))
  /\ worker # "failed" => metrics["e5"] >= Cardinality(Evidence({500, 503}))

Story(c) == Where(c) /\ Order(c) /\ Tokens(c)

Stories == \A c \in Conn : Story(c)

IInv == Types /\ Shared /\ Stories /\ Counted
-----------------------------------------------------------------------------
(* Lemmas about frames in a row                                             *)

\* What holds for 0 and is handed on by every number holds up to m.
LEMMA UpTo ==
  ASSUME NEW m \in Nat, NEW S, 0 \in S, \A n \in 1..m : n - 1 \in S => n \in S
  PROVE  \A n \in 0..m : n \in S
<1> DEFINE T == {n \in 0..m : n \notin S}
<1>1. SUFFICES ASSUME T # {}
               PROVE  FALSE
  OBVIOUS
<1>2. \E n \in T : \A j \in T : n <= j
  <2>1. T \subseteq Nat
    OBVIOUS
  <2> HIDE DEF T
  <2>2. PICK n \in T : \A j \in T : <<j, n>> \notin OpToRel(<, Nat)
    BY <1>1, <2>1, NatLessThanWellFounded, WFMin
  <2>3. ASSUME NEW j \in T
        PROVE  n <= j
    <3>1. n \in Nat /\ j \in Nat
      BY <2>1
    <3>2. ~(j < n)
      BY <2>2, <3>1, Zenon DEF OpToRel
    <3>3. QED
      BY <3>1, <3>2
  <2>4. QED
    BY <2>3
<1>3. PICK n \in T : \A j \in T : n <= j
  BY <1>2
<1>4. n \in 1..m /\ n \notin S
  OBVIOUS
<1>5. n - 1 \in 0..m - 1 /\ n - 1 \notin T
  BY <1>3, <1>4
<1>6. QED
  BY <1>4, <1>5

\* The elements of a concatenation, place by place.
LEMMA ConcatIs ==
  ASSUME NEW S, NEW s \in Seq(S), NEW t \in Seq(S)
  PROVE  /\ s \o t \in Seq(S) /\ Len(s \o t) = Len(s) + Len(t)
         /\ \A i \in 1..Len(s) : (s \o t)[i] = s[i]
         /\ \A j \in 1..Len(t) : (s \o t)[Len(s) + j] = t[j]
<1>1. PICK n \in Nat : n = Len(s)
  OBVIOUS
<1>2. PICK m \in Nat : m = Len(t)
  OBVIOUS
<1> DEFINE c == s \o t
<1>3. c \in Seq(S) /\ Len(c) = n + m
  BY <1>1, <1>2
<1>4. \A i \in 1..n + m : c[i] = IF i <= n THEN s[i] ELSE t[i - n]
  BY <1>1, <1>2, ConcatProperties
<1> HIDE DEF c
<1>5. \A i \in 1..n : c[i] = s[i]
  BY <1>4
<1>6. \A j \in 1..m : c[n + j] = t[j]
  <2>1. \A j \in 1..m : n + j \in 1..n + m /\ ~(n + j <= n) /\ (n + j) - n = j
    OBVIOUS
  <2>2. QED
    BY <1>4, <2>1
<1>7. QED
  BY <1>1, <1>2, <1>3, <1>5, <1>6 DEF c

\* The elements of a sequence, by its places.
LEMMA ToSetIs ==
  ASSUME NEW S, NEW s \in Seq(S)
  PROVE  /\ ToSet(s) \subseteq S /\ (ToSet(s) = {} <=> s = <<>>)
         /\ \A f : f \in ToSet(s) <=> \E i \in 1..Len(s) : s[i] = f
<1>1. DOMAIN s = 1..Len(s) /\ Len(s) \in Nat
  OBVIOUS
<1>2. \A f : f \in ToSet(s) <=> \E i \in 1..Len(s) : s[i] = f
  BY <1>1, Zenon DEF ToSet
<1>3. ToSet(s) \subseteq S
  BY <1>2
<1>4. s # <<>> => s[1] \in ToSet(s)
  <2>1. s # <<>> => 1 \in 1..Len(s)
    BY <1>1
  <2>2. QED
    BY <1>2, <2>1
<1>5. s = <<>> => ToSet(s) = {}
  <2>1. s = <<>> => 1..Len(s) = {}
    OBVIOUS
  <2>2. QED
    BY <1>2, <2>1
<1>6. QED
  BY <1>2, <1>3, <1>4, <1>5

\* A concatenation has the elements of both parts.
LEMMA ToSetConcat ==
  ASSUME NEW S, NEW s \in Seq(S), NEW t \in Seq(S)
  PROVE  ToSet(s \o t) = ToSet(s) \cup ToSet(t)
<1>1. PICK n \in Nat : n = Len(s)
  OBVIOUS
<1>2. PICK m \in Nat : m = Len(t)
  OBVIOUS
<1> DEFINE c == s \o t
<1>3. /\ c \in Seq(S) /\ Len(c) = n + m /\ (\A i \in 1..n : c[i] = s[i])
      /\ \A j \in 1..m : c[n + j] = t[j]
  BY <1>1, <1>2, ConcatIs
<1> HIDE DEF c
<1>4. ASSUME NEW f \in ToSet(c)
      PROVE  f \in ToSet(s) \cup ToSet(t)
  <2>1. PICK i \in 1..n + m : c[i] = f
    BY <1>3, ToSetIs
  <2>2. CASE i <= n
    <3>1. i \in 1..n /\ s[i] = f
      BY <1>3, <2>1, <2>2
    <3>2. QED
      BY <1>1, <3>1, ToSetIs
  <2>3. CASE ~(i <= n)
    <3>1. PICK j \in 1..m : i = n + j
      <4>1. i - n \in 1..m /\ i = n + (i - n)
        BY <2>3
      <4>2. QED
        BY <4>1
    <3>2. t[j] = f
      BY <1>3, <2>1, <3>1
    <3>3. QED
      BY <1>2, <3>2, ToSetIs
  <2>4. QED
    BY <2>2, <2>3
<1>5. ASSUME NEW f \in ToSet(s)
      PROVE  f \in ToSet(c)
  <2>1. PICK i \in 1..n : s[i] = f
    BY <1>1, ToSetIs
  <2>2. i \in 1..n + m /\ c[i] = f
    BY <1>3, <2>1
  <2>3. QED
    BY <1>3, <2>2, ToSetIs
<1>6. ASSUME NEW f \in ToSet(t)
      PROVE  f \in ToSet(c)
  <2>1. PICK j \in 1..m : t[j] = f
    BY <1>2, ToSetIs
  <2>2. n + j \in 1..n + m /\ c[n + j] = f
    BY <1>3, <2>1
  <2>3. QED
    BY <1>3, <2>2, ToSetIs
<1>7. QED
  BY <1>4, <1>5, <1>6 DEF c

\* Single frames and none.
LEMMA ToSetOne ==
  ASSUME NEW S, NEW f \in S
  PROVE  /\ <<f>> \in Seq(S) /\ ToSet(<<f>>) = {f} /\ Ordered(<<f>>)
         /\ <<>> \in Seq(S) /\ ToSet(<<>>) = {} /\ Ordered(<<>>)
<1>1. <<f>> \in Seq(S) /\ <<>> \in Seq(S)
  OBVIOUS
<1>2. DOMAIN <<f>> = {1} /\ <<f>>[1] = f
  OBVIOUS
<1>3. ToSet(<<f>>) = {f}
  <2>1. ToSet(<<f>>) = {<<f>>[i] : i \in {1}}
    BY <1>2 DEF ToSet
  <2>2. QED
    BY <1>2, <2>1
<1>4. Ordered(<<f>>)
  <2>1. \A i, j \in {1} : ~(i < j)
    OBVIOUS
  <2>2. QED
    BY <1>2, <2>1 DEF Ordered
<1>5. DOMAIN <<>> = {}
  OBVIOUS
<1>6. ToSet(<<>>) = {} /\ Ordered(<<>>)
  BY <1>5 DEF ToSet, Ordered
<1>7. QED
  BY <1>1, <1>3, <1>4, <1>6

\* A concatenation is in order exactly if both parts are and the second follows
\* the first.
LEMMA OrderedConcat ==
  ASSUME NEW S, NEW s \in Seq(S), NEW t \in Seq(S)
  PROVE  Ordered(s \o t) <=> Ordered(s) /\ Ordered(t) /\ Follows(s, t)
<1>1. PICK n \in Nat : n = Len(s)
  OBVIOUS
<1>2. PICK m \in Nat : m = Len(t)
  OBVIOUS
<1> DEFINE c == s \o t
<1>3. /\ c \in Seq(S) /\ Len(c) = n + m /\ (\A i \in 1..n : c[i] = s[i])
      /\ \A j \in 1..m : c[n + j] = t[j]
  BY <1>1, <1>2, ConcatIs
<1> HIDE DEF c
<1>4. DOMAIN c = 1..n + m /\ DOMAIN s = 1..n /\ DOMAIN t = 1..m
  BY <1>1, <1>2, <1>3
<1>5. ASSUME Ordered(c)
      PROVE  Ordered(s) /\ Ordered(t) /\ Follows(s, t)
  <2>1. Ordered(s)
    <3>1. SUFFICES ASSUME NEW i \in 1..n, NEW j \in 1..n, i < j
                   PROVE  Before(s[i], s[j])
      BY <1>4 DEF Ordered
    <3>2. i \in 1..n + m /\ j \in 1..n + m /\ c[i] = s[i] /\ c[j] = s[j]
      BY <1>3
    <3>3. QED
      BY <1>4, <1>5, <3>1, <3>2 DEF Ordered
  <2>2. Ordered(t)
    <3>1. SUFFICES ASSUME NEW i \in 1..m, NEW j \in 1..m, i < j
                   PROVE  Before(t[i], t[j])
      BY <1>4 DEF Ordered
    <3>2. n + i \in 1..n + m /\ n + j \in 1..n + m /\ n + i < n + j
      BY <3>1
    <3>3. Before(c[n + i], c[n + j])
      BY <1>4, <1>5, <3>2 DEF Ordered
    <3>4. QED
      BY <1>3, <3>3
  <2>3. Follows(s, t)
    <3>1. SUFFICES ASSUME NEW f \in ToSet(s), NEW g \in ToSet(t)
                   PROVE  Before(f, g)
      BY DEF Follows
    <3>2. PICK i \in 1..n : s[i] = f
      BY <1>1, ToSetIs
    <3>3. PICK j \in 1..m : t[j] = g
      BY <1>2, ToSetIs
    <3>4. i \in 1..n + m /\ n + j \in 1..n + m /\ i < n + j
      OBVIOUS
    <3>5. Before(c[i], c[n + j])
      BY <1>4, <1>5, <3>4 DEF Ordered
    <3>6. QED
      BY <1>3, <3>2, <3>3, <3>5
  <2>4. QED
    BY <2>1, <2>2, <2>3
<1>6. ASSUME Ordered(s), Ordered(t), Follows(s, t)
      PROVE  Ordered(c)
  <2>1. SUFFICES ASSUME NEW i \in 1..n + m, NEW j \in 1..n + m, i < j
                 PROVE  Before(c[i], c[j])
    BY <1>4 DEF Ordered
  <2>2. CASE j <= n
    <3>1. i \in 1..n /\ j \in 1..n /\ c[i] = s[i] /\ c[j] = s[j]
      BY <1>3, <2>1, <2>2
    <3>2. QED
      BY <1>4, <1>6, <2>1, <3>1 DEF Ordered
  <2>3. CASE ~(j <= n)
    <3>1. PICK y \in 1..m : j = n + y
      <4>1. j - n \in 1..m /\ j = n + (j - n)
        BY <2>3
      <4>2. QED
        BY <4>1
    <3>2. c[j] = t[y]
      BY <1>3, <3>1
    <3>3. CASE i <= n
      <4>1. i \in 1..n /\ c[i] = s[i]
        BY <1>3, <3>3
      <4>2. s[i] \in ToSet(s) /\ t[y] \in ToSet(t)
        BY <1>1, <1>2, <4>1, ToSetIs
      <4>3. QED
        BY <1>6, <3>2, <4>1, <4>2 DEF Follows
    <3>4. CASE ~(i <= n)
      <4>1. PICK x \in 1..m : i = n + x
        <5>1. i - n \in 1..m /\ i = n + (i - n)
          BY <3>4
        <5>2. QED
          BY <5>1
      <4>2. c[i] = t[x] /\ x < y
        BY <1>3, <2>1, <3>1, <4>1
      <4>3. QED
        BY <1>4, <1>6, <3>2, <4>2 DEF Ordered
    <3>5. QED
      BY <3>3, <3>4
  <2>4. QED
    BY <2>2, <2>3
<1>7. QED
  BY <1>5, <1>6 DEF c

\* A channel that is not empty is its first message and the rest.
LEMMA HeadAndTail ==
  ASSUME NEW S, NEW s \in Seq(S), s # <<>>
  PROVE  /\ Head(s) \in S /\ Tail(s) \in Seq(S) /\ s = <<Head(s)>> \o Tail(s)
         /\ ToSet(s) = {Head(s)} \cup ToSet(Tail(s)) /\ Head(s) = s[1]
         /\ Ordered(s) => Ordered(Tail(s)) /\ Follows(<<Head(s)>>, Tail(s))
<1>1. PICK n \in Nat : n = Len(s) /\ n >= 1
  OBVIOUS
<1>2. Head(s) = s[1] /\ Head(s) \in S
  OBVIOUS
<1> DEFINE h == <<Head(s)>>
           t == Tail(s)
<1>3. t \in Seq(S) /\ Len(t) = n - 1 /\ \A i \in 1..n - 1 : t[i] = s[i + 1]
  <2>1. t \in Seq(S) /\ Len(t) = Len(s) - 1 /\ \A i \in 1..Len(s) - 1 : t[i] = s[i + 1]
    BY HeadTailProperties
  <2> HIDE DEF t
  <2>2. QED
    BY <1>1, <2>1
<1>4. h \in Seq(S) /\ Len(h) = 1 /\ h[1] = s[1] /\ ToSet(h) = {Head(s)}
  BY <1>2, ToSetOne
<1> HIDE DEF h, t
<1> DEFINE c == h \o t
<1>5. /\ c \in Seq(S) /\ Len(c) = Len(h) + Len(t) /\ (\A i \in 1..Len(h) : c[i] = h[i])
      /\ \A j \in 1..Len(t) : c[Len(h) + j] = t[j]
  <2>1. h \in Seq(S) /\ t \in Seq(S)
    BY <1>3, <1>4
  <2>2. QED
    BY <2>1, ConcatIs
<1> HIDE DEF c
<1>6. /\ c \in Seq(S) /\ Len(c) = 1 + (n - 1) /\ (\A i \in 1..1 : c[i] = h[i])
      /\ \A j \in 1..n - 1 : c[1 + j] = t[j]
  BY <1>3, <1>4, <1>5, Zenon
<1>7. ASSUME NEW i \in 1..n
      PROVE  c[i] = s[i]
  <2>1. CASE i = 1
    BY <1>4, <1>6, <2>1
  <2>2. CASE i # 1
    <3>1. i - 1 \in 1..n - 1 /\ 1 + (i - 1) = i /\ (i - 1) + 1 = i
      BY <2>2
    <3>2. QED
      BY <1>3, <1>6, <3>1
  <2>3. QED
    BY <2>1, <2>2
<1>8. s = c
  <2>1. Len(c) = n
    BY <1>1, <1>6
  <2>2. QED
    BY <1>1, <1>6, <1>7, <2>1
<1>9. ToSet(s) = ToSet(h) \cup ToSet(t)
  BY <1>3, <1>4, <1>8, ToSetConcat DEF c
<1>10. Ordered(s) => Ordered(t) /\ Follows(h, t)
  BY <1>3, <1>4, <1>8, OrderedConcat DEF c
<1>11. QED
  BY <1>2, <1>3, <1>4, <1>8, <1>9, <1>10 DEF c, h, t

\* g is what the recursion of Sent defines.
Worth(f) == IF f.kind = "text" THEN f.n ELSE 0
Adds(g, w) == g = [i \in 0..Len(w) |-> IF i = 0 THEN 0 ELSE g[i - 1] + Worth(w[i])]

\* The recursion has a solution.
LEMMA AddsExists ==
  ASSUME NEW w \in Seq(Frames)
  PROVE  \E g : Adds(g, w)
<1> DEFINE Upto(g, m) == g = [i \in 0..m |-> IF i = 0 THEN 0 ELSE g[i - 1] + Worth(w[i])]
           S == {m \in Nat : \E g : Upto(g, m)}
<1>1. 0 \in S
  <2> DEFINE g == [i \in 0..0 |-> 0]
  <2>1. Upto(g, 0)
    OBVIOUS
  <2>2. QED
    BY <2>1
<1>2. ASSUME NEW m \in 1..Len(w), m - 1 \in S
      PROVE  m \in S
  <2>1. PICK g : Upto(g, m - 1)
    BY <1>2
  <2> DEFINE h == [i \in 0..m |-> IF i = m THEN g[m - 1] + Worth(w[m]) ELSE g[i]]
  <2>2. ASSUME NEW i \in 0..m
        PROVE  h[i] = IF i = 0 THEN 0 ELSE h[i - 1] + Worth(w[i])
    <3>1. CASE i = m
      BY <3>1
    <3>2. CASE i # m
      <4>1. i \in 0..m - 1 /\ h[i] = g[i] /\ (i # 0 => h[i - 1] = g[i - 1])
        BY <3>2
      <4>2. g[i] = IF i = 0 THEN 0 ELSE g[i - 1] + Worth(w[i])
        BY <2>1, <4>1
      <4>3. QED
        BY <4>1, <4>2
    <3>3. QED
      BY <3>1, <3>2
  <2>3. Upto(h, m)
    <3>1. h = [i \in 0..m |-> h[i]]
      OBVIOUS
    <3> HIDE DEF h
    <3>2. QED
      BY <2>2, <3>1
  <2>4. m \in Nat
    OBVIOUS
  <2>5. QED
    BY <2>3, <2>4
<1>3. Len(w) \in S
  <2> HIDE DEF S
  <2>1. \A m \in 1..Len(w) : m - 1 \in S => m \in S
    BY <1>2
  <2>2. Len(w) \in Nat
    OBVIOUS
  <2>3. \A m \in 0..Len(w) : m \in S
    BY <1>1, <2>1, <2>2, UpTo
  <2>4. QED
    BY <2>2, <2>3
<1>4. QED
  BY <1>3 DEF Adds

\* The tokens sent, added up frame by frame.
LEMMA SentIs ==
  ASSUME NEW w \in Seq(Frames)
  PROVE  \E g \in [0..Len(w) -> Nat] :
           /\ Sent(w) = g[Len(w)] /\ g[0] = 0
           /\ \A i \in 1..Len(w) : g[i] = g[i - 1] + Worth(w[i])
<1> DEFINE g == CHOOSE g : Adds(g, w)
<1>1. Adds(g, w)
  BY AddsExists, Zenon
<1>2. Sent(w) = g[Len(w)]
  BY Zenon DEF Sent, Adds, Worth
<1> HIDE DEF g
<1>3. PICK n \in Nat : n = Len(w)
  OBVIOUS
<1>4. DOMAIN g = 0..n /\ g = [i \in 0..n |-> g[i]]
  BY <1>1, <1>3 DEF Adds
<1>5. g[0] = 0 /\ \A i \in 1..n : g[i] = g[i - 1] + Worth(w[i])
  BY <1>1, <1>3 DEF Adds
<1> DEFINE S == {i \in 0..n : g[i] \in Nat}
<1>6. 0 \in S
  BY <1>5
<1>7. ASSUME NEW i \in 1..n, i - 1 \in S
      PROVE  i \in S
  <2>1. w[i] \in Frames
    BY <1>3
  <2>2. Worth(w[i]) \in Nat
    BY <2>1 DEF Worth, Frames
  <2>3. QED
    BY <1>5, <1>7, <2>2
<1>8. \A i \in 0..n : g[i] \in Nat
  <2> HIDE DEF S
  <2>1. \A i \in 0..n : i \in S
    BY <1>6, <1>7, UpTo
  <2>2. QED
    BY <2>1 DEF S
<1>9. g \in [0..n -> Nat]
  BY <1>4, <1>8
<1>10. QED
  BY <1>2, <1>3, <1>5, <1>9

\* What is sent in two parts is sent.
LEMMA SentConcat ==
  ASSUME NEW s \in Seq(Frames), NEW t \in Seq(Frames)
  PROVE  Sent(s \o t) = Sent(s) + Sent(t) /\ Sent(s) \in Nat /\ Sent(t) \in Nat
<1>1. PICK n \in Nat : n = Len(s)
  OBVIOUS
<1>2. PICK m \in Nat : m = Len(t)
  OBVIOUS
<1> DEFINE c == s \o t
<1>3. /\ c \in Seq(Frames) /\ Len(c) = n + m /\ (\A i \in 1..n : c[i] = s[i])
      /\ \A j \in 1..m : c[n + j] = t[j]
  BY <1>1, <1>2, ConcatIs
<1> HIDE DEF c
<1>4. PICK g \in [0..n -> Nat] :
        Sent(s) = g[n] /\ g[0] = 0 /\ \A i \in 1..n : g[i] = g[i - 1] + Worth(s[i])
  BY <1>1, SentIs
<1>5. PICK h \in [0..m -> Nat] :
        Sent(t) = h[m] /\ h[0] = 0 /\ \A i \in 1..m : h[i] = h[i - 1] + Worth(t[i])
  BY <1>2, SentIs
<1>6. PICK k \in [0..n + m -> Nat] :
        Sent(c) = k[n + m] /\ k[0] = 0 /\ \A i \in 1..n + m : k[i] = k[i - 1] + Worth(c[i])
  <2>1. \E k \in [0..Len(c) -> Nat] :
          /\ Sent(c) = k[Len(c)] /\ k[0] = 0
          /\ \A i \in 1..Len(c) : k[i] = k[i - 1] + Worth(c[i])
    BY <1>3, SentIs
  <2>2. QED
    BY <1>3, <2>1, Zenon
<1> DEFINE S == {i \in 0..n : k[i] = g[i]}
           T == {j \in 0..m : k[n + j] = g[n] + h[j]}
<1>7. \A i \in 0..n : i \in S
  <2>1. 0 \in S
    BY <1>4, <1>6
  <2>2. ASSUME NEW i \in 1..n, i - 1 \in S
        PROVE  i \in S
    <3>1. k[i] = k[i - 1] + Worth(c[i]) /\ c[i] = s[i]
      <4>1. i \in 1..n + m
        OBVIOUS
      <4>2. QED
        BY <1>3, <1>6, <4>1
    <3>2. g[i] = g[i - 1] + Worth(s[i]) /\ k[i - 1] = g[i - 1]
      BY <1>4, <2>2
    <3>3. QED
      BY <3>1, <3>2
  <2> HIDE DEF S
  <2>3. QED
    BY <2>1, <2>2, UpTo
<1>8. \A j \in 0..m : j \in T
  <2>1. 0 \in T
    <3>1. k[n] = g[n] /\ g[n] \in Nat
      BY <1>7
    <3>2. QED
      BY <1>5, <3>1
  <2>2. ASSUME NEW j \in 1..m, j - 1 \in T
        PROVE  j \in T
    <3>1. n + j \in 1..n + m /\ (n + j) - 1 = n + (j - 1)
      OBVIOUS
    <3>2. k[n + j] = k[n + (j - 1)] + Worth(c[n + j]) /\ c[n + j] = t[j]
      BY <1>3, <1>6, <3>1
    <3>3. h[j] = h[j - 1] + Worth(t[j]) /\ k[n + (j - 1)] = g[n] + h[j - 1]
      BY <1>5, <2>2
    <3>4. Worth(t[j]) \in Nat /\ g[n] \in Nat /\ h[j - 1] \in Nat
      <4>1. t[j] \in Frames
        BY <1>2
      <4>2. Worth(t[j]) \in Nat
        BY <4>1 DEF Worth, Frames
      <4>3. QED
        BY <1>4, <1>5, <4>2
    <3>5. (g[n] + h[j - 1]) + Worth(t[j]) = g[n] + (h[j - 1] + Worth(t[j]))
      BY <3>4, SMTT(30)
    <3>6. k[n + j] = g[n] + h[j]
      BY <3>2, <3>3, <3>5, Zenon
    <3>7. QED
      BY <3>6
  <2> HIDE DEF T
  <2>3. QED
    BY <2>1, <2>2, UpTo
<1>9. Sent(c) = g[n] + h[m] /\ g[n] \in Nat /\ h[m] \in Nat
  BY <1>6, <1>8
<1>10. QED
  BY <1>4, <1>5, <1>9 DEF c

\* What a frame carries.
LEMMA SentOne ==
  ASSUME NEW f \in Frames
  PROVE  Sent(<<f>>) = Worth(f) /\ Sent(<<>>) = 0 /\ Worth(f) \in Nat
<1>1. Worth(f) \in Nat
  BY DEF Worth, Frames
<1>2. <<f>> \in Seq(Frames) /\ Len(<<f>>) = 1 /\ <<f>>[1] = f
  OBVIOUS
<1>3. Sent(<<f>>) = Worth(f)
  <2> DEFINE w == <<f>>
  <2>1. w \in Seq(Frames) /\ Len(w) = 1 /\ w[1] = f
    BY <1>2
  <2> HIDE DEF w
  <2>2. PICK g \in [0..1 -> Nat] :
          Sent(w) = g[1] /\ g[0] = 0 /\ \A i \in 1..1 : g[i] = g[i - 1] + Worth(w[i])
    BY <2>1, SentIs
  <2>3. g[1] = g[0] + Worth(f)
    BY <2>1, <2>2
  <2>4. Sent(w) = Worth(f)
    BY <1>1, <2>2, <2>3
  <2>5. QED
    BY <2>4 DEF w
<1>4. Sent(<<>>) = 0
  <2> DEFINE e == <<>>
  <2>1. e \in Seq(Frames) /\ Len(e) = 0
    OBVIOUS
  <2> HIDE DEF e
  <2>2. Sent(e) = 0
    BY <2>1, SentIs
  <2>3. QED
    BY <2>2 DEF e
<1>5. QED
  BY <1>1, <1>3, <1>4

\* Frames without a text carry nothing.
LEMMA SentNothing ==
  ASSUME NEW s \in Seq(Frames), \A f \in ToSet(s) : f.kind # "text"
  PROVE  Sent(s) = 0
<1>1. PICK n \in Nat : n = Len(s)
  OBVIOUS
<1>2. PICK g \in [0..n -> Nat] :
        Sent(s) = g[n] /\ g[0] = 0 /\ \A i \in 1..n : g[i] = g[i - 1] + Worth(s[i])
  BY <1>1, SentIs
<1> DEFINE S == {i \in 0..n : g[i] = 0}
<1>3. 0 \in S
  BY <1>2
<1>4. ASSUME NEW i \in 1..n, i - 1 \in S
      PROVE  i \in S
  <2>1. s[i] \in ToSet(s)
    BY <1>1, ToSetIs
  <2>2. Worth(s[i]) = 0
    BY <2>1 DEF Worth
  <2>3. QED
    BY <1>2, <1>4, <2>2
<1>5. \A i \in 0..n : i \in S
  <2> HIDE DEF S
  <2>1. QED
    BY <1>3, <1>4, UpTo
<1>6. QED
  BY <1>2, <1>5

\* A kind of frame is in a sequence or not.
LEMMA HasIs ==
  ASSUME NEW s \in Seq(Frames), NEW kind
  PROVE  Has(s, kind) <=> \E f \in ToSet(s) : f.kind = kind
<1>1. DOMAIN s = 1..Len(s)
  OBVIOUS
<1>2. \A f : f \in ToSet(s) <=> \E i \in 1..Len(s) : s[i] = f
  BY ToSetIs
<1>3. QED
  BY <1>1, <1>2 DEF Has

-----------------------------------------------------------------------------
(* What a step leaves alone                                                 *)

\* A step does nothing to the connection d.
Same(d) ==
  /\ conn'[d] = conn[d] /\ req'[d] = req[d] /\ replies'[d] = replies[d] /\ wire'[d] = wire[d]
  /\ made'[d] = made[d] /\ cut'[d] = cut[d]
  /\ Queued(d)' <=> Queued(d)
  /\ d = cur' <=> d = cur
  /\ d = cur => worker' = worker /\ passthrough' = passthrough /\ buf' = buf /\ status' = status
  /\ worker' \in {"loading", "dead"} => worker' = worker

\* Its part of the invariant stays, and so does what it counts for.
LEMMA Elsewhere ==
  ASSUME NEW d \in Conn, Same(d), Story(d)
  PROVE  Story(d)'
<1>1. Where(d)'
  BY DEF Same, Story, Where
<1>2. Streamed(d)' <=> Streamed(d)
  BY DEF Same, Streamed, Chats
<1>3. Order(d)'
  BY <1>2 DEF Same, Story, Order, Chats
<1>4. Tokens(d)'
  BY DEF Same, Story, Tokens, Open
<1>5. QED
  BY <1>1, <1>3, <1>4 DEF Story

\* A connection the step leaves alone counts for nothing it did not count for.
LEMMA ElsewhereCounts ==
  ASSUME NEW d \in Conn, Same(d), NEW codes
  PROVE  /\ d \in Pending' => d \in Pending
         /\ d \in Done200' => d \in Done200
         /\ d \in Evidence(codes)' => d \in Evidence(codes)
<1>1. d \in Pending' => d \in Pending
  BY DEF Same, Pending
<1>2. \A k : d \in Evidence(k)' => d \in Evidence(k)
  BY DEF Same, Evidence
<1>3. d \in Done200' => d \in Done200
  BY <1>2 DEF Same, Done200
<1>4. QED
  BY <1>1, <1>2, <1>3

-----------------------------------------------------------------------------
(* Counting                                                                 *)

One(b) == IF b THEN 1 ELSE 0

\* A set of connections gains at most c, or loses it.
LEMMA CardStep ==
  ASSUME ConnAssumption, NEW A \in SUBSET Conn, NEW B \in SUBSET Conn, NEW c \in Conn,
         \A d \in Conn \ {c} : d \in A => d \in B
  PROVE  /\ Cardinality(A) \in Nat /\ Cardinality(B) \in Nat
         /\ Cardinality(A) + One(c \in B) <= Cardinality(B) + One(c \in A)
<1>1. IsFiniteSet(A) /\ IsFiniteSet(B) /\ IsFiniteSet(A \ {c}) /\ IsFiniteSet(B \ {c})
  BY FS_Subset DEF ConnAssumption
<1>2. /\ Cardinality(A) \in Nat /\ Cardinality(B) \in Nat
      /\ Cardinality(A \ {c}) \in Nat /\ Cardinality(B \ {c}) \in Nat
  BY <1>1, FS_CardinalityType
<1>3. Cardinality(A \ {c}) <= Cardinality(B \ {c})
  <2>1. A \ {c} \subseteq B \ {c}
    OBVIOUS
  <2>2. QED
    BY <1>1, <2>1, FS_Subset
<1>4. Cardinality(A \ {c}) = (IF c \in A THEN Cardinality(A) - 1 ELSE Cardinality(A))
  BY <1>1, FS_RemoveElement
<1>5. Cardinality(B \ {c}) = (IF c \in B THEN Cardinality(B) - 1 ELSE Cardinality(B))
  BY <1>1, FS_RemoveElement
<1>6. QED
  BY <1>2, <1>3, <1>4, <1>5 DEF One

\* A smaller set of connections.
LEMMA CardSubset ==
  ASSUME ConnAssumption, NEW B \in SUBSET Conn, NEW A \in SUBSET B
  PROVE  /\ Cardinality(A) \in Nat /\ Cardinality(B) \in Nat
         /\ Cardinality(A) <= Cardinality(B)
<1>1. IsFiniteSet(A) /\ IsFiniteSet(B)
  BY FS_Subset DEF ConnAssumption
<1>2. QED
  BY <1>1, FS_Subset, FS_CardinalityType

\* The counters move by this much.
Tally(t, o, a, b) ==
  /\ metrics'["total"] = metrics["total"] + t /\ metrics'["ok"] = metrics["ok"] + o
  /\ metrics'["eos"] + metrics'["length"] = metrics["eos"] + metrics["length"] + o
  /\ metrics'["e4"] = metrics["e4"] + a /\ metrics'["e5"] = metrics["e5"] + b
  /\ metrics'["panics"] <= metrics["panics"] + b

\* Counting one more in some of the counters.
LEMMA CountIs ==
  ASSUME Types, NEW names, Count(names)
  PROVE  /\ metrics' \in [Counters -> Nat]
         /\ \A m \in Counters : metrics'[m] = metrics[m] + One(m \in names)
<1>1. metrics \in [Counters -> Nat]
  BY DEF Types
<1>2. metrics' = [m \in Counters |-> IF m \in names THEN metrics[m] + 1 ELSE metrics[m]]
  BY DEF Count
<1>3. \A m \in Counters : metrics[m] \in Nat /\ metrics'[m] = metrics[m] + One(m \in names)
  BY <1>1, <1>2 DEF One
<1>4. QED
  BY <1>1, <1>2, <1>3

\* The counters a step can count in.
LEMMA TallyIs ==
  ASSUME Types
  PROVE  /\ UNCHANGED metrics => Tally(0, 0, 0, 0)
         /\ Count({"total"}) => Tally(1, 0, 0, 0)
         /\ Count({"e4"}) => Tally(0, 0, 1, 0)
         /\ Count({"e5"}) => Tally(0, 0, 0, 1)
         /\ Count({"e5", "panics"}) => Tally(0, 0, 0, 1)
         /\ Count({"ok", "eos"}) => Tally(0, 1, 0, 0)
         /\ Count({"ok", "length"}) => Tally(0, 1, 0, 0)
<1>1. \A m \in Counters : metrics[m] \in Nat
  BY DEF Types
<1>2. UNCHANGED metrics => Tally(0, 0, 0, 0)
  BY <1>1 DEF Tally, Counters
<1>3. ASSUME NEW names, Count(names)
      PROVE  \A m \in Counters : metrics'[m] = metrics[m] + One(m \in names)
  BY <1>3, CountIs
<1>4. Count({"total"}) => Tally(1, 0, 0, 0)
  BY <1>1, <1>3 DEF Tally, Counters, One
<1>5. Count({"e4"}) => Tally(0, 0, 1, 0)
  BY <1>1, <1>3 DEF Tally, Counters, One
<1>6. Count({"e5"}) => Tally(0, 0, 0, 1)
  BY <1>1, <1>3 DEF Tally, Counters, One
<1>7. Count({"e5", "panics"}) => Tally(0, 0, 0, 1)
  BY <1>1, <1>3 DEF Tally, Counters, One
<1>8. Count({"ok", "eos"}) => Tally(0, 1, 0, 0)
  BY <1>1, <1>3 DEF Tally, Counters, One
<1>9. Count({"ok", "length"}) => Tally(0, 1, 0, 0)
  BY <1>1, <1>3 DEF Tally, Counters, One
<1>10. QED
  BY <1>2, <1>4, <1>5, <1>6, <1>7, <1>8, <1>9

\* The sets that are counted are finite.
Sized == /\ Cardinality(Pending) \in Nat /\ Cardinality(Done200) \in Nat
         /\ Cardinality(Evidence({400})) \in Nat /\ Cardinality(Evidence({500, 503})) \in Nat

\* The balance is kept if what is counted was pending and what there is new
\* evidence of is counted.
LEMMA Balance ==
  ASSUME Types, Types', Counted,
         NEW t \in 0..1, NEW o \in 0..1, NEW a \in 0..1, NEW b \in 0..1, Tally(t, o, a, b),
         Sized, Sized',
         Cardinality(Pending') + o + a + b <= Cardinality(Pending) + t,
         Cardinality(Done200') <= Cardinality(Done200) + o,
         Cardinality(Evidence({400})') <= Cardinality(Evidence({400})) + a,
         worker' # "failed" =>
           /\ worker # "failed"
           /\ Cardinality(Evidence({500, 503})') <= Cardinality(Evidence({500, 503})) + b
  PROVE  Counted'
<1> DEFINE p == Cardinality(Pending)              p1 == Cardinality(Pending')
           d == Cardinality(Done200)              d1 == Cardinality(Done200')
           x == Cardinality(Evidence({400}))      x1 == Cardinality(Evidence({400})')
           y == Cardinality(Evidence({500, 503})) y1 == Cardinality(Evidence({500, 503})')
<1>1. /\ p \in Nat /\ d \in Nat /\ x \in Nat /\ y \in Nat
      /\ p1 \in Nat /\ d1 \in Nat /\ x1 \in Nat /\ y1 \in Nat
  BY DEF Sized
<1>2. /\ p1 + o + a + b <= p + t /\ d1 <= d + o /\ x1 <= x + a
      /\ worker' # "failed" => worker # "failed" /\ y1 <= y + b
  OBVIOUS
<1>3. \A m \in Counters : metrics[m] \in Nat /\ metrics'[m] \in Nat
  BY DEF Types
<1>4. /\ metrics["total"] \in Nat /\ metrics["ok"] \in Nat /\ metrics["e4"] \in Nat
      /\ metrics["e5"] \in Nat /\ metrics["eos"] \in Nat /\ metrics["length"] \in Nat
      /\ metrics["panics"] \in Nat
      /\ metrics'["total"] \in Nat /\ metrics'["ok"] \in Nat /\ metrics'["e4"] \in Nat
      /\ metrics'["e5"] \in Nat /\ metrics'["eos"] \in Nat /\ metrics'["length"] \in Nat
      /\ metrics'["panics"] \in Nat
  BY <1>3 DEF Counters
<1>5. /\ metrics["ok"] + metrics["e4"] + metrics["e5"] + p <= metrics["total"]
      /\ metrics["ok"] = metrics["eos"] + metrics["length"] /\ metrics["panics"] <= metrics["e5"]
      /\ metrics["ok"] >= d /\ metrics["e4"] >= x
      /\ worker # "failed" => metrics["e5"] >= y
  BY DEF Counted
<1> HIDE DEF p, d, x, y, p1, d1, x1, y1
<1>6. metrics'["ok"] + metrics'["e4"] + metrics'["e5"] + p1 <= metrics'["total"]
  BY <1>4, <1>5, <1>1, <1>2 DEF Tally
<1>7. metrics'["ok"] = metrics'["eos"] + metrics'["length"] /\ metrics'["panics"] <= metrics'["e5"]
  BY <1>4, <1>5 DEF Tally
<1>8. metrics'["ok"] >= d1 /\ metrics'["e4"] >= x1
  BY <1>4, <1>5, <1>1, <1>2 DEF Tally
<1>9. worker' # "failed" => metrics'["e5"] >= y1
  BY <1>4, <1>5, <1>1, <1>2 DEF Tally
<1>10. QED
  BY <1>6, <1>7, <1>8, <1>9 DEF Counted, p1, d1, x1, y1

\* A step on one connection: it is enough to look at that one.
LEMMA StepOn ==
  ASSUME ConnAssumption, IInv, Types', Shared', NEW c \in Conn,
         \A e \in Conn \ {c} : Same(e), Story(c)',
         NEW t \in 0..1, NEW o \in 0..1, NEW a \in 0..1, NEW b \in 0..1, Tally(t, o, a, b),
         One(c \in Pending') + o + a + b <= One(c \in Pending) + t,
         c \in Done200' => c \in Done200 \/ o = 1,
         c \in Evidence({400})' => c \in Evidence({400}) \/ a = 1,
         worker' # "failed" => worker # "failed",
         worker' # "failed" /\ c \in Evidence({500, 503})' => c \in Evidence({500, 503}) \/ b = 1
  PROVE  IInv'
<1>1. Stories'
  <2>1. ASSUME NEW d \in Conn, d # c
        PROVE  Story(d)'
    BY <2>1, Elsewhere DEF IInv, Stories
  <2>2. QED
    BY <2>1 DEF Stories
<1>2. /\ Pending \in SUBSET Conn /\ Pending' \in SUBSET Conn
      /\ Done200 \in SUBSET Conn /\ Done200' \in SUBSET Conn
      /\ \A k : Evidence(k) \in SUBSET Conn /\ Evidence(k)' \in SUBSET Conn
  BY DEF Pending, Done200, Evidence
<1>3. \A e \in Conn \ {c} : /\ e \in Pending' => e \in Pending
                            /\ e \in Done200' => e \in Done200
                            /\ e \in Evidence({400})' => e \in Evidence({400})
                            /\ e \in Evidence({500, 503})' => e \in Evidence({500, 503})
  BY ElsewhereCounts
<1>4. /\ Cardinality(Pending) \in Nat /\ Cardinality(Pending') \in Nat
      /\ Cardinality(Pending') + One(c \in Pending) <= Cardinality(Pending) + One(c \in Pending')
  BY <1>2, <1>3, CardStep
<1>5. /\ Cardinality(Done200) \in Nat /\ Cardinality(Done200') \in Nat
      /\ Cardinality(Done200') + One(c \in Done200) <= Cardinality(Done200) + One(c \in Done200')
  BY <1>2, <1>3, CardStep
<1>6. /\ Cardinality(Evidence({400})) \in Nat /\ Cardinality(Evidence({400})') \in Nat
      /\ Cardinality(Evidence({400})') + One(c \in Evidence({400}))
           <= Cardinality(Evidence({400})) + One(c \in Evidence({400})')
  BY <1>2, <1>3, CardStep
<1>7. /\ Cardinality(Evidence({500, 503})) \in Nat /\ Cardinality(Evidence({500, 503})') \in Nat
      /\ Cardinality(Evidence({500, 503})') + One(c \in Evidence({500, 503}))
           <= Cardinality(Evidence({500, 503})) + One(c \in Evidence({500, 503})')
  BY <1>2, <1>3, CardStep
<1>8. Cardinality(Pending') + o + a + b <= Cardinality(Pending) + t
  BY <1>4 DEF One
<1>9. Cardinality(Done200') <= Cardinality(Done200) + o
  BY <1>5 DEF One
<1>10. Cardinality(Evidence({400})') <= Cardinality(Evidence({400})) + a
  BY <1>6 DEF One
<1>11. worker' # "failed" =>
         /\ worker # "failed"
         /\ Cardinality(Evidence({500, 503})') <= Cardinality(Evidence({500, 503})) + b
  BY <1>7 DEF One
<1>12. Sized /\ Sized' /\ Types /\ Counted
  BY <1>4, <1>5, <1>6, <1>7 DEF Sized, IInv
<1>13. Counted'
  BY <1>8, <1>9, <1>10, <1>11, <1>12, Balance
<1>14. QED
  BY <1>1, <1>13 DEF IInv

\* A step that concerns no connection.
LEMMA StepAside ==
  ASSUME ConnAssumption, IInv, Types', Shared', \A d \in Conn : Same(d), UNCHANGED metrics,
         worker' # "failed" => worker # "failed"
  PROVE  IInv'
<1>1. CASE \E c \in Conn : TRUE
  <2>1. PICK c \in Conn : TRUE
    BY <1>1
  <2>2. Story(c)'
    BY Elsewhere DEF IInv, Stories
  <2>3. Tally(0, 0, 0, 0)
    BY TallyIs DEF IInv
  <2>4. /\ c \in Pending' => c \in Pending
        /\ c \in Done200' => c \in Done200
        /\ c \in Evidence({400})' => c \in Evidence({400})
        /\ c \in Evidence({500, 503})' => c \in Evidence({500, 503})
    BY ElsewhereCounts
  <2>5. One(c \in Pending') + 0 + 0 + 0 <= One(c \in Pending) + 0
    BY <2>4 DEF One
  <2>6. 0 \in 0..1
    OBVIOUS
  <2>7. QED
    BY <2>2, <2>3, <2>4, <2>5, <2>6, StepOn
<1>2. CASE ~\E c \in Conn : TRUE
  <2>1. /\ Pending = {} /\ Pending' = {} /\ Done200 = {} /\ Done200' = {}
        /\ \A k : Evidence(k) = {} /\ Evidence(k)' = {}
    BY <1>2 DEF Pending, Done200, Evidence
  <2>2. Counted'
    BY <2>1 DEF IInv, Counted
  <2>3. Stories'
    BY <1>2 DEF Stories
  <2>4. QED
    BY <2>2, <2>3 DEF IInv
<1>3. QED
  BY <1>1, <1>2


\* An empty channel.
LEMMA Nothing ==
  /\ <<>> \in Seq(Frames) /\ ToSet(<<>>) = {} /\ Ordered(<<>>)
  /\ Sent(<<>>) = 0 /\ \A k : ~Has(<<>>, k)
<1>1. PICK f \in Frames : f = Frame("text", 0)
  BY DEF Frame, Frames, FrameKinds
<1>2. <<>> \in Seq(Frames) /\ ToSet(<<>>) = {} /\ Ordered(<<>>)
  BY <1>1, ToSetOne
<1>3. Sent(<<>>) = 0
  BY <1>1, SentOne
<1>4. \A k : ~Has(<<>>, k)
  BY DEF Has
<1>5. QED
  BY <1>2, <1>3, <1>4

-----------------------------------------------------------------------------
(* The initial states                                                       *)

\* Nothing is on its way and nothing is to be counted.
LEMMA InitHolds ==
  ASSUME ConnAssumption, Init
  PROVE  IInv
<1>1. Types
  <2>1. NoRequest \in Request
    BY DEF NoRequest, Request
  <2>2. /\ conn \in [Conn -> {"away", "read", "first", "stream", "closed"}]
        /\ left \in [Conn -> BOOLEAN] /\ req \in [Conn -> Request]
        /\ made \in [Conn -> Nat] /\ cut \in [Conn -> Nat] /\ metrics \in [Counters -> Nat]
    BY <2>1 DEF Init
  <2>3. jobs \in Seq(Conn)
    BY DEF Init
  <2>4. replies \in [Conn -> Seq(Frames)] /\ wire \in [Conn -> Seq(Frames)]
    BY DEF Init
  <2>5. QED
    BY <2>2, <2>3, <2>4 DEF Init, Types
<1>2. Shared
  BY DEF Init, Shared, Busy, ConnAssumption
<1>3. Stories
  <2>1. SUFFICES ASSUME NEW c \in Conn PROVE Story(c)
    BY DEF Stories
  <2>2. /\ conn[c] = "away" /\ wire[c] = <<>> /\ replies[c] = <<>> /\ made[c] = 0 /\ cut[c] = 0
        /\ jobs = <<>> /\ c # cur /\ worker = "loading"
    BY DEF Init, ConnAssumption
  <2>3. Where(c)
    BY <2>2 DEF Where, Queued
  <2>4. ToSet(<<>>) = {} /\ Ordered(<<>>)
    BY ToSetOne
  <2>5. Order(c)
    BY <2>2, <2>4 DEF Order, Silent, Follows
  <2>6. Tokens(c)
    BY <2>2 DEF Tokens, Open, Has
  <2>7. QED
    BY <2>3, <2>5, <2>6 DEF Story
<1>4. Counted
  <2>1. \A c \in Conn : /\ conn[c] = "away" /\ wire[c] = <<>> /\ replies[c] = <<>>
                        /\ jobs = <<>> /\ c # cur /\ worker = "loading"
    BY DEF Init, ConnAssumption
  <2>2. ToSet(<<>>) = {}
    BY ToSetOne
  <2>3. Pending = {}
    BY <2>1 DEF Pending, Queued
  <2>4. \A k : Evidence(k) = {}
    BY <2>1, <2>2 DEF Evidence, Holds
  <2>5. Done200 = {}
    BY <2>1, <2>4 DEF Done200, Has
  <2>6. Cardinality({}) = 0
    BY FS_EmptySet
  <2>7. \A m \in Counters : metrics[m] = 0
    BY DEF Init
  <2>8. QED
    BY <2>3, <2>4, <2>5, <2>6, <2>7, SMTT(30) DEF Counted, Counters
<1>5. QED
  BY <1>1, <1>2, <1>3, <1>4 DEF IInv

-----------------------------------------------------------------------------
(* The channels                                                             *)

\* A job is sent.
LEMMA QueueGrows ==
  ASSUME NEW c \in Conn, jobs \in Seq(Conn), jobs' = Append(jobs, c)
  PROVE  /\ jobs' \in Seq(Conn)
         /\ \A d : Queued(d)' <=> Queued(d) \/ d = c
         /\ (\A i, j \in DOMAIN jobs : jobs[i] = jobs[j] => i = j) /\ ~Queued(c) =>
              \A i, j \in DOMAIN jobs' : jobs'[i] = jobs'[j] => i = j
<1>1. PICK n \in Nat : n = Len(jobs)
  OBVIOUS
<1>2. /\ DOMAIN jobs = 1..n /\ DOMAIN jobs' = 1..(n + 1) /\ jobs' \in Seq(Conn)
      /\ \A i \in 1..n : jobs'[i] = jobs[i]
      /\ jobs'[n + 1] = c
  BY <1>1
<1>3. \A i : i \in 1..(n + 1) <=> i \in 1..n \/ i = n + 1
  OBVIOUS
<1>4. \A d : Queued(d)' <=> Queued(d) \/ d = c
  BY <1>2, <1>3 DEF Queued
<1>5. ASSUME \A i, j \in DOMAIN jobs : jobs[i] = jobs[j] => i = j, ~Queued(c)
      PROVE  \A i, j \in DOMAIN jobs' : jobs'[i] = jobs'[j] => i = j
  BY <1>2, <1>3, <1>5 DEF Queued
<1>6. QED
  BY <1>2, <1>4, <1>5

\* A job is received.
LEMMA QueueShrinks ==
  ASSUME jobs \in Seq(Conn), jobs # <<>>, jobs' = Tail(jobs),
         \A i, j \in DOMAIN jobs : jobs[i] = jobs[j] => i = j
  PROVE  /\ Head(jobs) \in Conn /\ Queued(Head(jobs)) /\ jobs' \in Seq(Conn)
         /\ \A d : Queued(d)' <=> Queued(d) /\ d # Head(jobs)
         /\ \A i, j \in DOMAIN jobs' : jobs'[i] = jobs'[j] => i = j
<1>1. PICK n \in Nat : n = Len(jobs)
  OBVIOUS
<1>2. /\ n > 0 /\ DOMAIN jobs = 1..n /\ DOMAIN jobs' = 1..(n - 1) /\ jobs' \in Seq(Conn)
      /\ \A i \in 1..(n - 1) : jobs'[i] = jobs[i + 1]
      /\ Head(jobs) = jobs[1] /\ Head(jobs) \in Conn
  BY <1>1
<1>3. 1 \in 1..n
  BY <1>2
<1>4. Queued(Head(jobs))
  BY <1>2, <1>3 DEF Queued
<1>5. \A i \in 1..(n - 1) : i + 1 \in 1..n /\ i + 1 # 1
  OBVIOUS
<1>6. \A i \in 1..n : i # 1 => i - 1 \in 1..(n - 1) /\ jobs'[i - 1] = jobs[i]
  <2>1. TAKE i \in 1..n
  <2>2. HAVE i # 1
  <2>3. i - 1 \in 1..(n - 1) /\ (i - 1) + 1 = i
    BY <2>2
  <2>4. QED
    BY <1>2, <2>3
<1>7. ASSUME NEW d
      PROVE  Queued(d)' <=> Queued(d) /\ d # Head(jobs)
  <2>1. ASSUME Queued(d)'
        PROVE  Queued(d) /\ d # Head(jobs)
    <3>1. PICK i \in 1..(n - 1) : jobs'[i] = d
      BY <1>2, <2>1 DEF Queued
    <3>2. jobs[i + 1] = d
      BY <1>2, <3>1
    <3>3. QED
      BY <1>2, <1>3, <1>5, <3>2 DEF Queued
  <2>2. ASSUME Queued(d), d # Head(jobs)
        PROVE  Queued(d)'
    <3>1. PICK i \in 1..n : jobs[i] = d
      BY <1>2, <2>2 DEF Queued
    <3>2. i # 1
      BY <1>2, <2>2, <3>1
    <3>3. i - 1 \in DOMAIN jobs' /\ jobs'[i - 1] = d
      BY <1>2, <1>6, <3>1, <3>2
    <3>4. QED
      BY <3>3 DEF Queued
  <2>3. QED
    BY <2>1, <2>2
<1>8. ASSUME NEW i \in 1..(n - 1), NEW j \in 1..(n - 1), jobs'[i] = jobs'[j]
      PROVE  i = j
  <2>1. jobs[i + 1] = jobs[j + 1]
    BY <1>2, <1>8
  <2>2. i + 1 = j + 1
    BY <1>2, <1>5, <2>1
  <2>3. QED
    BY <2>2
<1>9. QED
  BY <1>2, <1>4, <1>7, <1>8

\* What a send does to the reply channels.
LEMMA SendIs ==
  ASSUME Types, NEW c \in Conn, NEW x \in Seq(Frames), Send(c, x)
  PROVE  /\ replies' \in [Conn -> Seq(Frames)]
         /\ \A e \in Conn \ {c} : replies'[e] = replies[e]
         /\ conn[c] = "closed" => replies'[c] = replies[c]
         /\ conn[c] # "closed" => replies'[c] = replies[c] \o x
<1>1. replies \in [Conn -> Seq(Frames)] /\ replies[c] \o x \in Seq(Frames)
  <2>1. replies \in [Conn -> Seq(Frames)]
    BY DEF Types
  <2>2. replies[c] \in Seq(Frames)
    BY <2>1
  <2>3. QED
    BY <2>1, <2>2, ConcatIs
<1>2. replies' = [replies EXCEPT ![c] = IF conn[c] = "closed" THEN replies[c] ELSE replies[c] \o x]
  BY DEF Send
<1>3. QED
  BY <1>1, <1>2

\* Every frame of x may come after frames of rank r.
After(x, r) == \A f \in ToSet(x) : \A g \in Frames : Rank(g) <= r => Before(g, f)

\* Frames of a higher rank are sent after what is in the channel and on the wire.
LEMMA Appends ==
  ASSUME NEW w \in Seq(Frames), NEW q \in Seq(Frames), NEW x \in Seq(Frames), NEW r \in Nat,
         AtMost(w, r), AtMost(q, r), Ordered(q), Ordered(x), Follows(w, q), After(x, r)
  PROVE  /\ q \o x \in Seq(Frames) /\ Ordered(q \o x) /\ Follows(w, q \o x)
         /\ ToSet(q \o x) = ToSet(q) \cup ToSet(x)
         /\ Sent(q \o x) = Sent(q) + Sent(x) /\ Sent(q) \in Nat /\ Sent(x) \in Nat
         /\ \A k : Has(q \o x, k) <=> Has(q, k) \/ Has(x, k)
         /\ q # <<>> => q \o x # <<>> /\ (q \o x)[1] = q[1]
         /\ q = <<>> => q \o x = x
<1>1. /\ q \o x \in Seq(Frames) /\ ToSet(q \o x) = ToSet(q) \cup ToSet(x)
      /\ ToSet(w) \subseteq Frames /\ ToSet(q) \subseteq Frames
  BY ConcatIs, ToSetConcat, ToSetIs
<1>2. Follows(q, x) /\ Follows(w, x)
  BY <1>1 DEF Follows, After, AtMost
<1>3. Ordered(q \o x)
  BY <1>2, OrderedConcat
<1>4. Follows(w, q \o x)
  BY <1>1, <1>2 DEF Follows
<1>5. Sent(q \o x) = Sent(q) + Sent(x) /\ Sent(q) \in Nat /\ Sent(x) \in Nat
  BY SentConcat
<1>6. ASSUME NEW k
      PROVE  Has(q \o x, k) <=> Has(q, k) \/ Has(x, k)
  <2>1. /\ Has(q \o x, k) <=> \E f \in ToSet(q \o x) : f.kind = k
        /\ Has(q, k) <=> \E f \in ToSet(q) : f.kind = k
        /\ Has(x, k) <=> \E f \in ToSet(x) : f.kind = k
    BY <1>1, HasIs
  <2>2. QED
    BY <1>1, <2>1, Zenon
<1>7. q # <<>> => q \o x # <<>> /\ (q \o x)[1] = q[1]
  <2>1. q # <<>> => 1 \in 1..Len(q)
    OBVIOUS
  <2>2. q # <<>> => ToSet(q) # {}
    BY ToSetIs
  <2>3. q # <<>> => ToSet(q \o x) # {}
    BY <1>1, <2>2
  <2>4. q # <<>> => q \o x # <<>>
    BY <1>1, <2>3, ToSetIs
  <2>5. QED
    BY <2>1, <2>4, ConcatIs
<1>8. q = <<>> => q \o x = x
  OBVIOUS
<1>9. QED
  BY <1>1, <1>3, <1>4, <1>5, <1>6, <1>7, <1>8

-----------------------------------------------------------------------------
(* Connection threads                                                       *)

\* The thread writes one frame and returns, or cannot write it.
Answers(c, f) == Write(c, <<f>>, "closed") \/ WriteFails(c)

\* A thread that got nothing from the worker answers itself, or cannot.
LEMMA Closes ==
  ASSUME ConnAssumption, IInv, NEW c \in Conn, NEW f \in Frames,
         NEW a \in 0..1, NEW b \in 0..1, a + b <= 1, Tally(0, 0, a, b),
         metrics' \in [Counters -> Nat],
         \/ conn[c] = "read"
         \/ conn[c] = "first" /\ worker = "dead" /\ replies[c] = <<>>,
         Answers(c, f),
         f.kind \in {"reply", "get"},
         f.kind = "reply" => \/ f.n = 400 /\ a = 1
                             \/ f.n \in {500, 503} /\ b = 1,
         UNCHANGED <<req, jobs, replies, worker, cur, status, strip, clock, history>>
  PROVE  IInv'
<1>1. Types /\ Shared /\ Where(c) /\ Order(c) /\ Tokens(c)
  BY DEF IInv, Stories, Story
<1>2. /\ wire[c] = <<>> /\ replies[c] = <<>> /\ c # cur /\ ~Queued(c) /\ c \in Pending
  BY <1>1 DEF Where, Shared, Busy, Pending, Queued
<1>3. <<f>> \in Seq(Frames) /\ ToSet(<<f>>) = {f} /\ Ordered(<<f>>)
      /\ ToSet(<<>>) = {} /\ Ordered(<<>>) /\ <<>> \o <<f>> = <<f>>
  BY ToSetOne
<1>4. /\ conn' = [conn EXCEPT ![c] = "closed"] /\ left' \in [Conn -> BOOLEAN]
      /\ wire' = wire \/ wire' = [wire EXCEPT ![c] = <<f>>]
  <2>1. left \in [Conn -> BOOLEAN]
    BY <1>1 DEF Types
  <2>2. CASE Write(c, <<f>>, "closed")
    <3>1. wire' = [wire EXCEPT ![c] = wire[c] \o <<f>>]
      BY <2>2 DEF Write
    <3>2. wire' = [wire EXCEPT ![c] = <<f>>]
      BY <1>2, <1>3, <3>1
    <3>3. QED
      BY <2>1, <2>2, <3>2 DEF Write
  <2>3. CASE WriteFails(c)
    BY <2>1, <2>3 DEF WriteFails
  <2>4. Write(c, <<f>>, "closed") \/ WriteFails(c)
    BY DEF Answers
  <2>5. QED
    BY <2>2, <2>3, <2>4
<1>5. wire' \in [Conn -> Seq(Frames)] /\ (wire'[c] = <<>> \/ wire'[c] = <<f>>)
      /\ \A e \in Conn \ {c} : wire'[e] = wire[e]
  <2>1. wire \in [Conn -> Seq(Frames)] /\ wire[c] = <<>> /\ <<f>> \in Seq(Frames)
    BY <1>1, <1>2, <1>3 DEF Types
  <2>2. CASE wire' = wire
    BY <2>1, <2>2
  <2>3. CASE wire' = [wire EXCEPT ![c] = <<f>>]
    BY <2>1, <2>3
  <2>4. QED
    BY <1>4, <2>2, <2>3
<1>6. /\ conn' \in [Conn -> {"away", "read", "first", "stream", "closed"}]
      /\ conn'[c] = "closed" /\ \A e \in Conn \ {c} : conn'[e] = conn[e]
  BY <1>1, <1>4 DEF Types
<1>7. Types' /\ Shared'
  <2>1. Types'
    BY <1>1, <1>4, <1>5, <1>6 DEF Types, strip, clock, history
  <2>2. Shared'
    BY <1>1 DEF Shared, Busy, strip
  <2>3. QED
    BY <2>1, <2>2
<1>8. \A e : Queued(e)' <=> Queued(e)
  BY DEF Queued
<1>9. \A e \in Conn \ {c} : Same(e)
  BY <1>5, <1>6, <1>8 DEF Same, strip, clock, history
<1>10. Story(c)'
  <2>1. Where(c)'
    BY <1>2, <1>6, <1>8 DEF Where
  <2>2. Silent(wire'[c]) \/ Plain(wire'[c])
    <3>1. Len(<<f>>) = 1 /\ <<f>>[1] = f
      OBVIOUS
    <3>2. Plain(<<f>>)
      BY <3>1 DEF Plain
    <3>3. Silent(<<>>)
      BY DEF Silent
    <3>4. QED
      BY <1>5, <3>2, <3>3
  <2>3. Ordered(wire'[c]) /\ ToSet(replies'[c]) = {} /\ Ordered(replies'[c])
    BY <1>2, <1>3, <1>5
  <2>4. Order(c)'
    BY <1>2, <1>6, <2>2, <2>3 DEF Order, Follows
  <2>5. ~Has(wire'[c], "final")
    BY <1>5 DEF Has
  <2>6. Tokens(c)'
    BY <1>2, <1>6, <2>5 DEF Tokens, Open
  <2>7. QED
    BY <2>1, <2>4, <2>6 DEF Story
<1>11. c \notin Pending'
  BY <1>2, <1>6, <1>8 DEF Pending
<1>12. ASSUME NEW k, c \in Evidence(k)'
       PROVE  f.kind = "reply" /\ f.n \in k
  <2>1. ~Holds(replies'[c], "done", k)
    BY <1>2, <1>3 DEF Holds
  <2>2. wire'[c] # <<>> /\ wire'[c][1].kind = "reply" /\ wire'[c][1].n \in k
    BY <1>2, <1>12, <2>1 DEF Evidence
  <2>3. QED
    BY <1>5, <2>2
<1>13. c \notin Done200'
  <2>1. ~Has(wire'[c], "final") /\ ~Has(replies'[c], "final")
    BY <1>2, <1>5 DEF Has
  <2>2. c \notin Evidence({200})'
    BY <1>12
  <2>3. QED
    BY <1>2, <2>1, <2>2 DEF Done200
<1>14. /\ c \in Evidence({400})' => a = 1
       /\ c \in Evidence({500, 503})' => b = 1
  BY <1>12
<1>15. One(c \in Pending') + 0 + a + b <= One(c \in Pending) + 0
  BY <1>2, <1>11 DEF One
<1>16. 0 \in 0..1 /\ worker' = worker
  OBVIOUS
<1>17. QED
  BY <1>7, <1>9, <1>10, <1>13, <1>14, <1>15, <1>16, StepOn

\* A new connection is counted once.
LEMMA AcceptKeeps ==
  ASSUME ConnAssumption, IInv, NEW c \in Conn, Accept(c)
  PROVE  IInv'
<1>1. Types /\ Shared /\ Where(c) /\ Order(c) /\ Tokens(c) /\ Story(c)
  BY DEF IInv, Stories, Story
<1>2. conn[c] = "away" /\ ~Queued(c) /\ c # cur /\ wire[c] = <<>> /\ replies[c] = <<>>
  BY <1>1 DEF Accept, Where
<1>3. Tally(1, 0, 0, 0) /\ metrics' \in [Counters -> Nat]
  BY <1>1, TallyIs, CountIs DEF Accept
<1>4. /\ conn' \in [Conn -> {"away", "read", "first", "stream", "closed"}]
      /\ conn'[c] = "read" /\ \A e \in Conn \ {c} : conn'[e] = conn[e]
  BY <1>1 DEF Types, Accept
<1>5. Types' /\ Shared'
  <2>1. Types'
    BY <1>1, <1>3, <1>4 DEF Types, Accept, strip, clock, history
  <2>2. Shared'
    BY <1>1 DEF Shared, Busy, Accept, strip
  <2>3. QED
    BY <2>1, <2>2
<1>6. \A e : Queued(e)' <=> Queued(e)
  BY DEF Queued, Accept
<1>7. \A e \in Conn \ {c} : Same(e)
  BY <1>4, <1>6 DEF Same, Accept, strip, clock, history
<1>8. Story(c)'
  <2>1. Where(c)'
    BY <1>1, <1>2, <1>4, <1>6 DEF Where, Accept, history
  <2>2. Order(c)'
    BY <1>1, <1>2, <1>4 DEF Order, Accept, Chats, Streamed
  <2>3. Tokens(c)'
    BY <1>1, <1>2, <1>4 DEF Tokens, Accept, Open, history
  <2>4. QED
    BY <2>1, <2>2, <2>3 DEF Story
<1>9. c \notin Pending
  BY <1>2 DEF Pending
<1>10. \A k : c \in Evidence(k)' => c \in Evidence(k)
  BY <1>2 DEF Evidence, Accept
<1>11. c \in Done200' => c \in Done200
  BY <1>2, <1>10 DEF Done200, Accept
<1>12. One(c \in Pending') + 0 + 0 + 0 <= One(c \in Pending) + 1
  BY DEF One
<1>13. 0 \in 0..1 /\ 1 \in 0..1 /\ worker' = worker
  BY DEF Accept
<1>14. QED
  BY <1>3, <1>5, <1>7, <1>8, <1>10, <1>11, <1>12, <1>13, StepOn

\* A client that leaves changes nothing yet.
LEMMA ClientLeavesKeeps ==
  ASSUME ConnAssumption, IInv, NEW c \in Conn, ClientLeaves(c)
  PROVE  IInv'
<1>1. Types /\ Shared
  BY DEF IInv
<1>2. Types' /\ Shared'
  <2>1. Types'
    BY <1>1 DEF Types, ClientLeaves, handlers, strip, clock, history
  <2>2. Shared'
    BY <1>1 DEF Shared, Busy, ClientLeaves, strip
  <2>3. QED
    BY <2>1, <2>2
<1>3. \A d \in Conn : Same(d)
  BY DEF Same, Queued, ClientLeaves, handlers, strip, clock, history
<1>4. UNCHANGED metrics /\ worker' = worker
  BY DEF ClientLeaves
<1>5. QED
  BY <1>2, <1>3, <1>4, StepAside

\* The request becomes a job; it is still to be counted.
LEMMA SubmitKeeps ==
  ASSUME ConnAssumption, RequestsAssumption, IInv, NEW c \in Conn, Submit(c)
  PROVE  IInv'
<1>1. Types /\ Shared /\ Where(c) /\ Order(c) /\ Tokens(c)
  BY DEF IInv, Stories, Story
<1>2. /\ conn[c] = "read" /\ ~Queued(c) /\ c # cur /\ wire[c] = <<>> /\ replies[c] = <<>>
      /\ made[c] = 0 /\ cut[c] = 0 /\ worker # "dead"
  BY <1>1 DEF Submit, Where
<1>3. PICK q \in Request : req' = [req EXCEPT ![c] = q]
  BY DEF Submit, RequestsAssumption
<1>4. /\ jobs' \in Seq(Conn)
      /\ \A d : Queued(d)' <=> Queued(d) \/ d = c
      /\ \A i, j \in DOMAIN jobs' : jobs'[i] = jobs'[j] => i = j
  <2>1. /\ jobs \in Seq(Conn) /\ jobs' = Append(jobs, c)
        /\ \A i, j \in DOMAIN jobs : jobs[i] = jobs[j] => i = j
    BY <1>1 DEF Submit, Types, Shared
  <2>2. QED
    BY <1>2, <2>1, QueueGrows
<1>5. /\ conn' \in [Conn -> {"away", "read", "first", "stream", "closed"}]
      /\ conn'[c] = "first" /\ \A e \in Conn \ {c} : conn'[e] = conn[e]
      /\ req' \in [Conn -> Request] /\ \A e \in Conn \ {c} : req'[e] = req[e]
  BY <1>1, <1>3 DEF Types, Submit
<1>6. Types' /\ Shared'
  <2>1. Types'
    BY <1>1, <1>4, <1>5, SMTT(30) DEF Types, Submit, strip, clock, history
  <2>2. Shared'
    BY <1>1, <1>2, <1>4 DEF Shared, Busy, Submit, strip
  <2>3. QED
    BY <2>1, <2>2
<1>7. \A e \in Conn \ {c} : Same(e)
  BY <1>4, <1>5 DEF Same, Submit, strip, clock, history
<1>8. Story(c)'
  <2>1. Where(c)'
    BY <1>1, <1>2, <1>4, <1>5 DEF Where, Submit, history
  <2>2. ToSet(<<>>) = {} /\ Ordered(<<>>)
    BY ToSetOne
  <2>3. Order(c)'
    BY <1>1, <1>2, <1>5, <2>2 DEF Order, Submit, Silent, Follows
  <2>4. Tokens(c)'
    BY <1>1, <1>2, <1>5 DEF Tokens, Submit, Has, history
  <2>5. QED
    BY <2>1, <2>3, <2>4 DEF Story
<1>9. c \in Pending
  BY <1>2 DEF Pending
<1>10. \A k : c \in Evidence(k)' => c \in Evidence(k)
  BY <1>2 DEF Evidence, Submit
<1>11. c \in Done200' => c \in Done200
  BY <1>2, <1>10 DEF Done200, Submit
<1>12. One(c \in Pending') + 0 + 0 + 0 <= One(c \in Pending) + 0
  BY <1>9 DEF One
<1>13. 0 \in 0..1 /\ worker' = worker /\ Tally(0, 0, 0, 0)
  BY <1>1, TallyIs DEF Submit
<1>14. QED
  BY <1>6, <1>7, <1>8, <1>10, <1>11, <1>12, <1>13, StepOn

\* The answers of the connection threads themselves.
LEMMA AnswerKeeps ==
  ASSUME ConnAssumption, IInv, NEW c \in Conn,
         ReadFails(c) \/ AnswerGet(c) \/ SubmitFails(c) \/ Dropped(c)
  PROVE  IInv'
<1>1. Types
  BY DEF IInv
<1>2. \A k \in FrameKinds, n \in Nat : /\ Frame(k, n) \in Frames
                                       /\ Frame(k, n).kind = k /\ Frame(k, n).n = n
  BY DEF Frames, Frame
<1>3. 0 \in 0..1 /\ 1 \in 0..1 /\ 0 + 1 <= 1 /\ 1 + 0 <= 1 /\ 0 + 0 <= 1
  OBVIOUS
<1>4. "reply" \in FrameKinds /\ "get" \in FrameKinds
  BY DEF FrameKinds
<1>5. CASE ReadFails(c)
  <2>1. Tally(0, 0, 1, 0) /\ metrics' \in [Counters -> Nat]
    BY <1>1, <1>5, TallyIs, CountIs DEF ReadFails
  <2>2. Frame("reply", 400) \in Frames /\ Frame("reply", 400).kind = "reply"
        /\ Frame("reply", 400).n = 400
        /\ (Frame("reply", 400).kind = "reply" =>
              \/ Frame("reply", 400).n = 400 /\ 1 = 1
              \/ Frame("reply", 400).n \in {500, 503} /\ 0 = 1)
    BY <1>2, <1>4
  <2>3. /\ Answers(c, Frame("reply", 400)) /\ conn[c] = "read"
        /\ UNCHANGED <<req, jobs, replies, worker, cur, status, strip, clock, history>>
    BY <1>5 DEF ReadFails, Answers
  <2>4. QED
    BY <1>3, <2>1, <2>2, <2>3, Closes
<1>6. CASE AnswerGet(c)
  <2>1. Tally(0, 0, 0, 0) /\ metrics' \in [Counters -> Nat]
    BY <1>1, <1>6, TallyIs DEF AnswerGet, Types
  <2>2. Frame("get", 200) \in Frames /\ Frame("get", 200).kind = "get"
    BY <1>2, <1>4
  <2>3. /\ Answers(c, Frame("get", 200)) /\ conn[c] = "read"
        /\ UNCHANGED <<req, jobs, replies, worker, cur, status, strip, clock, history>>
    BY <1>6 DEF AnswerGet, Answers
  <2>4. QED
    BY <1>3, <2>1, <2>2, <2>3, Closes
<1>7. CASE SubmitFails(c)
  <2>1. Tally(0, 0, 0, 1) /\ metrics' \in [Counters -> Nat]
    BY <1>1, <1>7, TallyIs, CountIs DEF SubmitFails
  <2>2. Frame("reply", 503) \in Frames /\ Frame("reply", 503).kind = "reply"
        /\ Frame("reply", 503).n = 503
    BY <1>2, <1>4
  <2>3. /\ Answers(c, Frame("reply", 503)) /\ conn[c] = "read"
        /\ UNCHANGED <<req, jobs, replies, worker, cur, status, strip, clock, history>>
    BY <1>7 DEF SubmitFails, Answers
  <2>4. QED
    BY <1>3, <2>1, <2>2, <2>3, Closes
<1>8. CASE Dropped(c)
  <2>1. Tally(0, 0, 0, 1) /\ metrics' \in [Counters -> Nat]
    BY <1>1, <1>8, TallyIs, CountIs DEF Dropped
  <2>2. Frame("reply", 500) \in Frames /\ Frame("reply", 500).kind = "reply"
        /\ Frame("reply", 500).n = 500
    BY <1>2, <1>4
  <2>3. /\ Answers(c, Frame("reply", 500)) 
        /\ conn[c] = "first" /\ worker = "dead" /\ replies[c] = <<>>
        /\ UNCHANGED <<req, jobs, replies, worker, cur, status, strip, clock, history>>
    BY <1>8 DEF Dropped, Answers
  <2>4. QED
    BY <1>3, <2>1, <2>2, <2>3, Closes
<1>9. QED
  BY <1>5, <1>6, <1>7, <1>8

\* What a connection's thread does with the frame at the head of its channel
\* does nothing to the other connections.
LEMMA ForwardsOne ==
  ASSUME IInv, NEW c \in Conn, Received(c),
         NEW next \in {"stream", "closed"}, NEW w \in Seq(Frames),
         conn' = [conn EXCEPT ![c] = next], wire' = [wire EXCEPT ![c] = w],
         left' \in [Conn -> BOOLEAN], replies[c] # <<>>,
         UNCHANGED <<req, jobs, worker, cur, status, strip, clock, metrics, history>>
  PROVE  /\ Types' /\ Shared' /\ \A e \in Conn \ {c} : Same(e)
         /\ conn'[c] = next /\ wire'[c] = w
         /\ replies'[c] = IF next = "closed" THEN <<>> ELSE Tail(replies[c])
<1>1. Types /\ Shared
  BY DEF IInv
<1>2. replies \in [Conn -> Seq(Frames)] /\ Tail(replies[c]) \in Seq(Frames)
  BY <1>1 DEF Types
<1>3. /\ conn' \in [Conn -> {"away", "read", "first", "stream", "closed"}]
      /\ conn'[c] = next /\ \A e \in Conn \ {c} : conn'[e] = conn[e]
  BY <1>1 DEF Types
<1>4. /\ wire' \in [Conn -> Seq(Frames)]
      /\ wire'[c] = w /\ \A e \in Conn \ {c} : wire'[e] = wire[e]
  BY <1>1 DEF Types
<1>5. PICK t \in Seq(Frames) : t = IF next = "closed" THEN <<>> ELSE Tail(replies[c])
  <2>1. <<>> \in Seq(Frames)
    OBVIOUS
  <2>2. QED
    BY <1>2, <2>1, Zenon
<1>6. replies' = [replies EXCEPT ![c] = t]
  BY <1>3, <1>5 DEF Received
<1>7. /\ replies' \in [Conn -> Seq(Frames)]
      /\ replies'[c] = t /\ \A e \in Conn \ {c} : replies'[e] = replies[e]
  BY <1>2, <1>6
<1>8. Types'
  BY <1>1, <1>3, <1>4, <1>7, SMTT(30) DEF Types, strip, clock, history
<1>9. Shared'
  BY <1>1 DEF Shared, Busy, strip
<1>10. \A e : Queued(e)' <=> Queued(e)
  BY DEF Queued
<1>11. \A e \in Conn \ {c} : Same(e)
  BY <1>3, <1>4, <1>7, <1>10 DEF Same, strip, clock, history
<1>12. QED
  BY <1>3, <1>4, <1>5, <1>7, <1>8, <1>9, <1>11

\* The client has left: the thread returns.
LEMMA ForwardFails ==
  ASSUME ConnAssumption, IInv, NEW c \in Conn, Received(c), WriteFails(c),
         conn[c] \in {"first", "stream"}, replies[c] # <<>>,
         UNCHANGED <<req, jobs, worker, cur, status, strip, clock, metrics, history>>
  PROVE  IInv'
<1>1. Types /\ Shared /\ Where(c) /\ Order(c) /\ Tokens(c)
  BY DEF IInv, Stories, Story
<1>2. PICK w \in Seq(Frames) : w = wire[c]
  BY <1>1 DEF Types
<1>3. /\ conn' = [conn EXCEPT ![c] = "closed"] /\ wire' = [wire EXCEPT ![c] = w]
      /\ left' \in [Conn -> BOOLEAN]
  BY <1>1, <1>2 DEF WriteFails, Types
<1>4. /\ Types' /\ Shared' /\ \A e \in Conn \ {c} : Same(e)
      /\ conn'[c] = "closed" /\ wire'[c] = w /\ replies'[c] = <<>>
  BY <1>3, ForwardsOne
<1>5. ToSet(<<>>) = {} /\ Ordered(<<>>) /\ ~Has(<<>>, "final") /\ Sent(<<>>) = 0
  BY Nothing
<1>6. ~Queued(c) /\ worker # "dead" /\ (Queued(c)' <=> Queued(c))
  BY <1>1 DEF Where, Queued
<1>7. Story(c)'
  <2>1. Where(c)'
    BY <1>1, <1>4, <1>6 DEF Where, history
  <2>2. Streamed(c)' <=> Streamed(c)
    BY <1>2, <1>4 DEF Streamed, Chats
  <2>3. Order(c)'
    BY <1>1, <1>2, <1>4, <1>5, <2>2 DEF Order, Follows, AtMost
  <2>4. Tokens(c)'
    BY <1>1, <1>2, <1>4, <1>5 DEF Tokens, Open, strip, history
  <2>5. QED
    BY <2>1, <2>3, <2>4 DEF Story
<1>8. \A k : c \in Evidence(k)' => c \in Evidence(k)
  BY <1>2, <1>4, <1>5 DEF Evidence, Holds
<1>9. c \in Done200' => c \in Done200
  BY <1>2, <1>4, <1>5, <1>8 DEF Done200
<1>10. c \in Pending' => c \in Pending
  BY <1>4, <1>6 DEF Pending
<1>11. One(c \in Pending') + 0 + 0 + 0 <= One(c \in Pending) + 0
  BY <1>10 DEF One
<1>12. 0 \in 0..1 /\ worker' = worker /\ Tally(0, 0, 0, 0)
  BY <1>1, TallyIs
<1>13. QED
  BY <1>4, <1>7, <1>8, <1>9, <1>11, <1>12, StepOn

\* A frame goes from the channel to the end of a stream o, which is the wire,
\* or the header that opens it.
LEMMA Extends ==
  ASSUME NEW o \in Seq(Frames), NEW f \in Frames, NEW t \in Seq(Frames),
         Len(o) >= 1, o[1].kind = "header",
         Ordered(o), Follows(o, <<f>>), Follows(o, t), Follows(<<f>>, t)
  PROVE  \E w \in Seq(Frames) :
           /\ w = o \o <<f>> /\ Len(w) = Len(o) + 1 /\ w[1] = o[1]
           /\ Len(o) >= 2 => w[2] = o[2]
           /\ Len(o) = 1 => w[2] = f
           /\ ToSet(w) = ToSet(o) \cup {f} /\ Ordered(w) /\ Follows(w, t)
           /\ Sent(w) = Sent(o) + Worth(f)
           /\ \A k : Has(w, k) <=> Has(o, k) \/ f.kind = k
<1>1. <<f>> \in Seq(Frames) /\ ToSet(<<f>>) = {f} /\ Ordered(<<f>>) /\ Len(<<f>>) = 1
      /\ <<f>>[1] = f
  BY ToSetOne
<1>2. PICK w \in Seq(Frames) : w = o \o <<f>>
  BY <1>1, ConcatIs
<1>3. /\ Len(w) = Len(o) + 1 /\ w[Len(o) + 1] = f
      /\ \A i \in 1..Len(o) : w[i] = o[i]
  BY <1>1, <1>2, ConcatIs
<1>4. /\ w[1] = o[1] /\ (Len(o) >= 2 => w[2] = o[2]) /\ (Len(o) = 1 => w[2] = f)
  <2>1. PICK n \in Nat : n = Len(o)
    OBVIOUS
  <2>2. 1 \in 1..n /\ (n >= 2 => 2 \in 1..n) /\ (n = 1 => n + 1 = 2)
    BY <2>1, SMTT(30)
  <2>3. QED
    BY <1>3, <2>1, <2>2
<1>5. ToSet(w) = ToSet(o) \cup {f}
  <2>1. PICK x \in Seq(Frames) : x = <<f>>
    BY <1>1
  <2>2. ToSet(o \o x) = ToSet(o) \cup ToSet(x)
    BY ToSetConcat
  <2>3. QED
    BY <1>1, <1>2, <2>1, <2>2
<1>6. Ordered(w)
  BY <1>1, <1>2, OrderedConcat
<1>7. Follows(w, t)
  BY <1>1, <1>5 DEF Follows
<1>8. Sent(w) = Sent(o) + Worth(f)
  <2>1. Sent(w) = Sent(o) + Sent(<<f>>)
    BY <1>1, <1>2, SentConcat
  <2>2. QED
    BY <2>1, SentOne
<1>9. ASSUME NEW k
      PROVE  Has(w, k) <=> Has(o, k) \/ f.kind = k
  <2>1. /\ Has(w, k) <=> \E g \in ToSet(w) : g.kind = k
        /\ Has(o, k) <=> \E g \in ToSet(o) : g.kind = k
    BY HasIs
  <2>2. QED
    BY <1>5, <2>1
<1>10. QED
  BY <1>2, <1>3, <1>4, <1>5, <1>6, <1>7, <1>8, <1>9

\* The head of the reply channel and the rest of it.
LEMMA TakesHead ==
  ASSUME NEW q \in Seq(Frames), q # <<>>
  PROVE  \E f \in Frames, t \in Seq(Frames) :
           /\ f = Head(q) /\ t = Tail(q) /\ f = q[1] /\ f \in ToSet(q)
           /\ ToSet(q) = {f} \cup ToSet(t)
           /\ Ordered(q) => Ordered(t) /\ Follows(<<f>>, t)
           /\ Sent(q) = Worth(f) + Sent(t) /\ Sent(t) \in Nat /\ Worth(f) \in Nat
           /\ \A k : Has(q, k) <=> Has(t, k) \/ f.kind = k
<1>1. PICK f \in Frames, t \in Seq(Frames) :
        /\ f = Head(q) /\ t = Tail(q) /\ q = <<f>> \o t
        /\ ToSet(q) = {f} \cup ToSet(t) /\ f = q[1]
        /\ Ordered(q) => Ordered(t) /\ Follows(<<f>>, t)
  BY HeadAndTail
<1>2. Sent(q) = Worth(f) + Sent(t) /\ Sent(t) \in Nat /\ Worth(f) \in Nat
  <2>1. PICK x \in Seq(Frames) : x = <<f>>
    BY ToSetOne
  <2>2. Sent(x \o t) = Sent(x) + Sent(t) /\ Sent(t) \in Nat
    BY SentConcat
  <2>3. Sent(<<f>>) = Worth(f) /\ Worth(f) \in Nat
    BY SentOne
  <2>4. QED
    BY <1>1, <2>1, <2>2, <2>3, Zenon
<1>3. ASSUME NEW k
      PROVE  Has(q, k) <=> Has(t, k) \/ f.kind = k
  <2>1. /\ Has(q, k) <=> \E g \in ToSet(q) : g.kind = k
        /\ Has(t, k) <=> \E g \in ToSet(t) : g.kind = k
    BY HasIs
  <2>2. QED
    BY <1>1, <2>1
<1>4. QED
  BY <1>1, <1>2, <1>3

\* A chunk goes to the client, after the header if it is the first.
LEMMA ForwardChunkKeeps ==
  ASSUME ConnAssumption, IInv, NEW c \in Conn, ForwardChunk(c)
  PROVE  IInv'
<1>1. Types /\ Shared /\ Where(c) /\ Order(c) /\ Tokens(c)
  BY DEF IInv, Stories, Story
<1>2. /\ conn[c] \in {"first", "stream"} /\ replies[c] # <<>> /\ Received(c)
      /\ Head(replies[c]).kind # "done"
      /\ UNCHANGED <<req, jobs, worker, cur, status, strip, clock, metrics, history>>
  BY DEF ForwardChunk
<1>3. PICK q \in Seq(Frames), v \in Seq(Frames) : q = replies[c] /\ v = wire[c]
  BY <1>1 DEF Types
<1>4. PICK f \in Frames, t \in Seq(Frames) :
        /\ f = Head(q) /\ t = Tail(q) /\ f = q[1] /\ f \in ToSet(q)
        /\ ToSet(q) = {f} \cup ToSet(t)
        /\ Ordered(q) => Ordered(t) /\ Follows(<<f>>, t)
        /\ Sent(q) = Worth(f) + Sent(t) /\ Sent(t) \in Nat /\ Worth(f) \in Nat
        /\ \A k : Has(q, k) <=> Has(t, k) \/ f.kind = k
  BY <1>2, <1>3, TakesHead
<1>5. f.kind \in ChunkKinds /\ req[c].kind = "generate" /\ req[c].stream
  BY <1>1, <1>2, <1>3, <1>4 DEF Order
<1>6. /\ ~Queued(c) /\ worker \notin {"loading", "dead"} 
      /\ Ordered(q) /\ Follows(v, q) /\ Ordered(v)
      /\ (Queued(c)' <=> Queued(c)) /\ Ordered(t) /\ Follows(<<f>>, t)
  BY <1>1, <1>2, <1>3, <1>4 DEF Where, Order, Queued
<1>7. CASE WriteFails(c)
  BY <1>2, <1>7, ForwardFails
<1>8. CASE Write(c, Opening(c) \o <<Head(replies[c])>>, "stream")
  <2>1. PICK o \in Seq(Frames) :
          /\ v \o (Opening(c) \o <<f>>) = o \o <<f>>
          /\ Len(o) >= 1 /\ o[1].kind = "header" /\ Ordered(o) /\ Follows(o, q)
          /\ Sent(o) = Sent(v) /\ Sent(v) \in Nat
          /\ \A k : k # "header" => (Has(o, k) <=> Has(v, k))
          /\ \A g \in ToSet(o) : \/ g.kind = "header"
                                 \/ g \in ToSet(v) /\ g.kind \in ChunkKinds \cup {"[DONE]"}
          /\ \/ Len(o) = 1 /\ (f.kind = "role" <=> Chats(c))
             \/ Len(o) >= 2 /\ (o[2].kind = "role" <=> Chats(c))
    <3>1. CASE conn[c] = "stream"
      <4>1. v \o (Opening(c) \o <<f>>) = v \o <<f>>
        BY <3>1 DEF Opening
      <4>2. /\ Len(v) >= 2 /\ v[1].kind = "header" /\ (v[2].kind = "role" <=> Chats(c))
            /\ \A g \in ToSet(v) : g.kind \in ChunkKinds \cup {"header", "[DONE]"}
        BY <1>1, <1>3, <3>1 DEF Order, Streamed
      <4>3. Len(v) >= 1
        BY <4>2
      <4>4. Sent(v) \in Nat
        BY SentConcat
      <4>5. WITNESS v \in Seq(Frames)
      <4>6. QED
        BY <1>6, <4>1, <4>2, <4>3, <4>4
    <3>2. CASE conn[c] = "first"
      <4>1. PICK h \in Frames : h = Mark("header") /\ h.kind = "header"
        <5>1. Mark("header") \in Frames /\ Mark("header").kind = "header"
          BY DEF Mark, Frame, Frames, FrameKinds
        <5>2. QED
          BY <5>1
      <4>2. h = Mark("header") /\ h.kind = "header" /\ Rank(h) = 1
        BY <4>1 DEF Rank
      <4>3. PICK o \in Seq(Frames) : o = <<h>>
        BY ToSetOne
      <4>4. v = <<>>
        BY <1>1, <1>3, <3>2 DEF Where
      <4>5. v \o (Opening(c) \o <<f>>) = o \o <<f>>
        BY <3>2, <4>2, <4>3, <4>4 DEF Opening
      <4>6. Len(o) = 1 /\ o[1] = h /\ ToSet(o) = {h} /\ Ordered(o)
        BY <4>3, ToSetOne
      <4>7. Follows(o, q)
        <5>1. \A g \in ToSet(q) : g.kind = "done" \/ g.kind \in ChunkKinds
          BY <1>1, <1>3 DEF Order
        <5>2. \A g \in ToSet(q) : Rank(g) \in 2..6
          BY <5>1 DEF Rank, ChunkKinds
        <5>3. \A g \in ToSet(q) : Rank(h) < Rank(g)
          BY <4>2, <5>2, SMTT(30)
        <5>4. QED
          BY <4>6, <5>3 DEF Follows, Before
      <4>8. Sent(o) = Sent(v) /\ Sent(v) \in Nat
        <5>1. Sent(<<h>>) = Worth(h) /\ Sent(<<>>) = 0
          BY SentOne
        <5>2. Worth(h) = 0
          BY <4>2 DEF Worth
        <5>3. QED
          BY <4>3, <4>4, <5>1, <5>2
      <4>9. ASSUME NEW k, k # "header"
            PROVE  Has(o, k) <=> Has(v, k)
        <5>1. Has(o, k) <=> \E g \in ToSet(o) : g.kind = k
          BY HasIs
        <5>2. ~Has(v, k)
          BY <4>4, Nothing
        <5>3. QED
          BY <4>2, <4>6, <4>9, <5>1, <5>2
      <4>10. f.kind = "role" <=> Chats(c)
        BY <1>1, <1>2, <1>3, <1>4, <3>2 DEF Order
      <4>11. \A g \in ToSet(o) : g.kind = "header"
        BY <4>2, <4>6
      <4>12. Len(o) >= 1 /\ o[1].kind = "header"
        BY <4>2, <4>6
      <4>13. WITNESS o \in Seq(Frames)
      <4>14. QED
        BY <4>5, <4>6, <4>7, <4>8, <4>9, <4>10, <4>11, <4>12
    <3>3. QED
      BY <1>2, <3>1, <3>2
  <2>2. Follows(o, <<f>>) /\ Follows(o, t)
    <3>1. ToSet(<<f>>) = {f}
      BY ToSetOne
    <3>2. QED
      BY <1>4, <2>1, <3>1 DEF Follows
  <2>3. PICK w \in Seq(Frames) :
          /\ w = o \o <<f>> /\ Len(w) = Len(o) + 1 /\ w[1] = o[1]
          /\ Len(o) >= 2 => w[2] = o[2]
          /\ Len(o) = 1 => w[2] = f
          /\ ToSet(w) = ToSet(o) \cup {f} /\ Ordered(w) /\ Follows(w, t)
          /\ Sent(w) = Sent(o) + Worth(f)
          /\ \A k : Has(w, k) <=> Has(o, k) \/ f.kind = k
    <3>1. /\ Len(o) >= 1 /\ o[1].kind = "header" /\ Ordered(o) /\ Follows(<<f>>, t)
      BY <1>6, <2>1
    <3>2. QED
      BY <2>2, <3>1, Extends, ZenonT(30)
  <2>4. /\ conn' = [conn EXCEPT ![c] = "stream"] /\ wire' = [wire EXCEPT ![c] = w]
        /\ left' \in [Conn -> BOOLEAN]
    <3>1. wire' = [wire EXCEPT ![c] = v \o (Opening(c) \o <<f>>)]
      BY <1>3, <1>4, <1>8 DEF Write
    <3>2. left' \in [Conn -> BOOLEAN]
      BY <1>1, <1>8 DEF Write, Types
    <3>3. QED
      BY <1>8, <2>1, <2>3, <3>1, <3>2 DEF Write
  <2>5. /\ Types' /\ Shared' /\ \A e \in Conn \ {c} : Same(e)
        /\ conn'[c] = "stream" /\ wire'[c] = w /\ replies'[c] = t
    BY <1>2, <1>3, <1>4, <2>4, ForwardsOne
  <2>6. Where(c)'
    BY <1>1, <1>2, <1>6, <2>5 DEF Where, history
  <2>7. Streamed(c)'
    <3>1. Len(w) >= 2 /\ w[1].kind = "header" /\ (w[2].kind = "role" <=> Chats(c))
      <4>1. PICK n \in Nat : n = Len(o)
        OBVIOUS
      <4>2. QED
        BY <2>1, <2>3, <4>1
    <3>2. \A g \in ToSet(w) : g.kind \in ChunkKinds \cup {"header", "[DONE]"}
      BY <1>5, <2>1, <2>3
    <3>3. req'[c] = req[c]
      BY <1>2
    <3>4. QED
      BY <1>5, <2>5, <3>1, <3>2, <3>3 DEF Streamed, Chats
  <2>8. Order(c)'
    <3>1. ASSUME NEW r \in {3, 5}, AtMost(v, r), AtMost(q, r)
          PROVE  AtMost(w, r) /\ AtMost(t, r)
      <4>1. \A g : g.kind = "header" => Rank(g) <= r
        BY DEF Rank
      <4>2. QED
        BY <1>4, <2>1, <2>3, <3>1, <4>1 DEF AtMost
    <3>2. \A g \in ToSet(t) : g \in ToSet(q)
      BY <1>4
    <3>3. QED
      BY <1>1, <1>2, <1>3, <1>6, <2>3, <2>5, <2>7, <3>1, <3>2 DEF Order, Chats
  <2>9. Tokens(c)'
    <3>1. Sent(w) + Sent(t) = Sent(v) + Sent(q) /\ Sent(w) \in Nat /\ Sent(q) \in Nat
      <4>1. /\ Sent(q) = Worth(f) + Sent(t) /\ Sent(t) \in Nat /\ Worth(f) \in Nat
            /\ Sent(w) = Sent(o) + Worth(f) /\ Sent(o) = Sent(v) /\ Sent(v) \in Nat
        BY <1>4, <2>1, <2>3
      <4>2. QED
        BY <4>1
    <3>2. Has(w, "final") \/ Has(t, "final") <=> Has(v, "final") \/ Has(q, "final")
      BY <1>4, <2>1, <2>3
    <3>3. Has(w, "final") => Sent(t) = 0
      <4>1. CASE Has(w, "final")
        <5>1. ASSUME NEW g \in ToSet(t)
              PROVE  g.kind # "text"
          <6>1. PICK d \in ToSet(w) : d.kind = "final"
            BY <4>1, HasIs
          <6>2. Before(d, g)
            BY <2>3, <6>1 DEF Follows
          <6>3. QED
            BY <6>1, <6>2 DEF Before, Rank
        <5>2. QED
          BY <5>1, SentNothing
      <4>2. QED
        BY <4>1
    <3>4. Open(c) /\ Open(c)'
      BY <1>2, <2>5 DEF Open
    <3>5. made[c] \in Nat /\ cut[c] \in Nat /\ buf \in Nat
      BY <1>1 DEF Types
    <3>6. /\ made' = made /\ cut' = cut /\ req' = req /\ buf' = buf /\ cur' = cur
          /\ worker' = worker /\ passthrough' = passthrough
      BY <1>2 DEF strip, history
    <3>7. Sent(v) + Sent(q) = Sent(w) + Sent(t)
      BY <3>1
    <3>8. ~req[c].spec /\ (Has(v, "final") \/ Has(q, "final")) =>
            Sent(w) + Sent(t) + cut[c] = made[c]
      BY <1>1, <1>3, <3>4, <3>7 DEF Tokens
    <3>9. ~req[c].spec /\ Has(w, "final") => Sent(w) + cut[c] = made[c]
      BY <1>4, <3>1, <3>2, <3>3, <3>5, <3>8
    <3>10. QED
      BY <1>1, <1>3, <2>5, <3>2, <3>4, <3>6, <3>7, <3>8, <3>9 DEF Tokens
  <2>10. Story(c)'
    BY <2>6, <2>8, <2>9 DEF Story
  <2>11. \A k : c \in Evidence(k)' => c \in Evidence(k)
    <3>1. wire'[c][1].kind # "reply"
      BY <2>1, <2>3, <2>5
    <3>2. ASSUME NEW k, Holds(t, "done", k)
          PROVE  Holds(q, "done", k)
      BY <1>4, <3>2 DEF Holds
    <3>3. QED
      BY <1>2, <1>3, <2>5, <3>1, <3>2 DEF Evidence
  <2>12. c \in Done200' => c \in Done200
    <3>1. Has(w, "final") \/ Has(t, "final") => Has(v, "final") \/ Has(q, "final")
      BY <1>4, <2>1, <2>3
    <3>2. cur' = cur /\ worker' = worker
      BY <1>2
    <3>3. QED
      BY <1>3, <2>5, <2>11, <3>1, <3>2 DEF Done200
  <2>13. c \in Pending' => c \in Pending
    BY <1>2, <1>6, <2>5 DEF Pending
  <2>14. One(c \in Pending') + 0 + 0 + 0 <= One(c \in Pending) + 0
    BY <2>13 DEF One
  <2>15. 0 \in 0..1 /\ worker' = worker /\ Tally(0, 0, 0, 0)
    BY <1>1, <1>2, TallyIs
  <2>16. QED
    BY <2>5, <2>10, <2>11, <2>12, <2>14, <2>15, StepOn, SMTT(30)
<1>9. QED
  BY <1>7, <1>8 DEF ForwardChunk

\* A Done is the whole answer, or ends the stream.
LEMMA ForwardDoneKeeps ==
  ASSUME ConnAssumption, IInv, NEW c \in Conn, ForwardDone(c)
  PROVE  IInv'
<1>1. Types /\ Shared /\ Where(c) /\ Order(c) /\ Tokens(c)
  BY DEF IInv, Stories, Story
<1>2. /\ conn[c] \in {"first", "stream"} /\ replies[c] # <<>> /\ Received(c)
      /\ Head(replies[c]).kind = "done"
      /\ UNCHANGED <<req, jobs, worker, cur, status, strip, clock, metrics, history>>
  BY DEF ForwardDone
<1>3. PICK q \in Seq(Frames), v \in Seq(Frames) : q = replies[c] /\ v = wire[c]
  BY <1>1 DEF Types
<1>4. PICK f \in Frames :
        f = Head(q) /\ f = q[1] /\ f \in ToSet(q) /\ f.kind = "done" /\ Rank(f) = 6
  <2>1. PICK f \in Frames : f = Head(q) /\ f = q[1] /\ f \in ToSet(q)
    BY <1>2, <1>3, TakesHead
  <2>2. f.kind = "done"
    BY <1>2, <1>3, <2>1
  <2>3. Rank(f) = 6
    BY <2>2 DEF Rank
  <2>4. QED
    BY <2>1, <2>2, <2>3
<1>5. /\ ~Queued(c) /\ worker \notin {"loading", "dead"} /\ Follows(v, q) /\ Ordered(v)
      /\ (Queued(c)' <=> Queued(c))
  BY <1>1, <1>2, <1>3, <1>4 DEF Where, Order, Queued
<1>6. c # cur \/ worker \notin {"decode", "close", "reply"}
  BY <1>1, <1>3, <1>4 DEF Order, AtMost
<1>7. CASE WriteFails(c)
  BY <1>2, <1>7, ForwardFails
<1>8. CASE Write(c, <<IF conn[c] = "first" THEN Frame("reply", Head(replies[c]).n)
                                          ELSE Mark("[DONE]")>>, "closed")
  <2>1. PICK g \in Frames : g = IF conn[c] = "first" THEN Frame("reply", f.n) ELSE Mark("[DONE]")
    <3>1. f.n \in Nat
      BY DEF Frames
    <3>2. Frame("reply", f.n) \in Frames /\ Mark("[DONE]") \in Frames
      BY <3>1 DEF Frames, FrameKinds, Frame, Mark
    <3>3. QED
      BY <3>2
  <2>2. /\ conn[c] = "first" => g.kind = "reply" /\ g.n = f.n
        /\ conn[c] # "first" => g.kind = "[DONE]"
    BY <2>1 DEF Frame, Mark
  <2>3. PICK x \in Seq(Frames) : x = <<g>> /\ ToSet(x) = {g} /\ Ordered(x) /\ Len(x) = 1 /\ x[1] = g
    <3>1. <<g>> \in Seq(Frames) /\ ToSet(<<g>>) = {g} /\ Ordered(<<g>>)
      BY ToSetOne
    <3>2. Len(<<g>>) = 1 /\ <<g>>[1] = g
      OBVIOUS
    <3>3. QED
      BY <3>1, <3>2, Zenon
  <2>4. PICK w \in Seq(Frames) :
          /\ w = v \o x /\ Len(w) = Len(v) + 1 /\ \A i \in 1..Len(v) : w[i] = v[i]
    <3>1. /\ v \o x \in Seq(Frames) /\ Len(v \o x) = Len(v) + Len(x)
          /\ \A i \in 1..Len(v) : (v \o x)[i] = v[i]
      BY ConcatIs
    <3>2. QED
      BY <2>3, <3>1, Zenon
  <2>5. ToSet(w) = ToSet(v) \cup {g}
    <3>1. ToSet(v \o x) = ToSet(v) \cup ToSet(x)
      BY ToSetConcat
    <3>2. QED
      BY <2>3, <2>4, <3>1
  <2>6. Sent(w) = Sent(v)
    <3>1. Sent(v \o x) = Sent(v) + Sent(x) /\ Sent(v) \in Nat
      BY SentConcat
    <3>2. Sent(<<g>>) = Worth(g)
      BY SentOne
    <3>3. Worth(g) = 0
      BY <1>2, <2>2 DEF Worth
    <3>4. QED
      BY <2>3, <2>4, <3>1, <3>2, <3>3
  <2>7. Has(w, "final") <=> Has(v, "final")
    <3>1. /\ Has(w, "final") <=> \E d \in ToSet(w) : d.kind = "final"
          /\ Has(v, "final") <=> \E d \in ToSet(v) : d.kind = "final"
      BY HasIs
    <3>2. g.kind # "final"
      BY <1>2, <2>2
    <3>3. QED
      BY <2>5, <3>1, <3>2
  <2>8. /\ conn' = [conn EXCEPT ![c] = "closed"] /\ wire' = [wire EXCEPT ![c] = w]
        /\ left' \in [Conn -> BOOLEAN]
    <3>1. wire' = [wire EXCEPT ![c] = v \o <<g>>]
      BY <1>3, <1>4, <1>8, <2>1 DEF Write
    <3>2. left' \in [Conn -> BOOLEAN]
      BY <1>1, <1>8 DEF Write, Types
    <3>3. QED
      BY <1>8, <2>3, <2>4, <3>1, <3>2 DEF Write
  <2>9. /\ Types' /\ Shared' /\ \A e \in Conn \ {c} : Same(e)
        /\ conn'[c] = "closed" /\ wire'[c] = w /\ replies'[c] = <<>>
    BY <1>2, <2>8, ForwardsOne
  <2>10. Where(c)'
    BY <1>1, <1>2, <1>5, <1>6, <2>9 DEF Where, history
  <2>11. ASSUME conn[c] = "first"
         PROVE  Order(c)' /\ Tokens(c)' /\ \A k : c \in Evidence(k)' => c \in Evidence(k)
    <3>1. v = <<>>
      BY <1>1, <1>3, <2>11 DEF Where
    <3>2. w = <<g>> /\ g.kind = "reply" /\ g.n = f.n
      BY <2>2, <2>3, <2>4, <2>11, <3>1
    <3>3. Len(w) = 1 /\ w[1] = g
      BY <2>3, <3>2
    <3>4. Plain(w)
      BY <3>2, <3>3 DEF Plain
    <3>5. Ordered(w)
      BY <2>3, <3>2
    <3>6. Order(c)'
      BY <1>2, <1>6, <2>9, <3>4, <3>5, Nothing DEF Order, Follows
    <3>7. ~Has(w, "final")
      BY <2>7, <3>1, Nothing
    <3>8. Tokens(c)'
      BY <1>2, <1>6, <2>9, <3>7 DEF Tokens, Open
    <3>9. \A k : c \in Evidence(k)' => c \in Evidence(k)
      <4>1. ASSUME NEW k, c \in Evidence(k)'
            PROVE  f.n \in k
        <5>1. ~Holds(<<>>, "done", k)
          BY Nothing DEF Holds
        <5>2. wire'[c] # <<>> /\ wire'[c][1].kind = "reply" /\ wire'[c][1].n \in k
          BY <1>2, <1>6, <2>9, <4>1, <5>1 DEF Evidence
        <5>3. QED
          BY <2>9, <3>2, <3>3, <5>2
      <4>2. ASSUME NEW k, f.n \in k
            PROVE  c \in Evidence(k)
        <5>1. Holds(replies[c], "done", k)
          BY <1>3, <1>4, <4>2 DEF Holds
        <5>2. QED
          BY <5>1 DEF Evidence
      <4>3. QED
        BY <4>1, <4>2
    <3>10. QED
      BY <2>9, <3>6, <3>8, <3>9
  <2>12. ASSUME conn[c] = "stream"
         PROVE  Order(c)' /\ Tokens(c)' /\ \A k : c \in Evidence(k)' => c \in Evidence(k)
    <3>1. /\ Len(v) >= 2 /\ v[1].kind = "header" /\ (v[2].kind = "role" <=> Chats(c))
          /\ req[c].stream /\ req[c].kind = "generate"
          /\ \A d \in ToSet(v) : d.kind \in ChunkKinds \cup {"header", "[DONE]"}
      BY <1>1, <1>3, <2>12 DEF Order, Streamed
    <3>2. Len(w) >= 2 /\ w[1] = v[1] /\ w[2] = v[2]
      <4>1. PICK n \in Nat : n = Len(v)
        OBVIOUS
      <4>2. 1 \in 1..n /\ 2 \in 1..n
        BY <3>1, <4>1
      <4>3. QED
        BY <2>4, <3>1, <4>1, <4>2
    <3>3. g.kind = "[DONE]"
      BY <2>2, <2>12
    <3>4. Streamed(c)'
      BY <1>2, <2>5, <2>9, <3>1, <3>2, <3>3 DEF Streamed, Chats
    <3>5. Ordered(w)
      <4>1. Rank(g) = 6
        BY <3>3 DEF Rank
      <4>2. \A d \in ToSet(v) : Before(d, f)
        BY <1>4, <1>5 DEF Follows
      <4>3. \A d \in ToSet(v) : Before(d, g)
        BY <1>4, <4>1, <4>2 DEF Before
      <4>4. Follows(v, x)
        BY <2>3, <4>3 DEF Follows
      <4>5. QED
        BY <1>5, <2>3, <2>4, <4>4, OrderedConcat
    <3>6. Order(c)'
      BY <1>2, <1>6, <2>9, <3>4, <3>5, Nothing DEF Order, Follows
    <3>7. Tokens(c)'
      <4>1. ~req[c].spec /\ Has(v, "final") => Sent(v) + cut[c] = made[c]
        BY <1>1, <1>3 DEF Tokens
      <4>2. ~Open(c)'
        BY <2>9 DEF Open
      <4>3. made' = made /\ cut' = cut /\ req' = req /\ cur' = cur /\ worker' = worker
        BY <1>2 DEF history
      <4>4. QED
        BY <1>6, <2>6, <2>7, <2>9, <4>1, <4>2, <4>3 DEF Tokens
    <3>8. \A k : c \in Evidence(k)' => c \in Evidence(k)
      <4>1. wire'[c][1].kind # "reply"
        BY <2>9, <3>1, <3>2
      <4>2. \A k : ~Holds(<<>>, "done", k)
        BY Nothing DEF Holds
      <4>3. QED
        BY <1>2, <1>6, <2>9, <4>1, <4>2 DEF Evidence
    <3>9. QED
      BY <2>9, <3>6, <3>7, <3>8
  <2>13. /\ Order(c)' /\ Tokens(c)' /\ \A k : c \in Evidence(k)' => c \in Evidence(k)
    BY <1>2, <2>11, <2>12
  <2>14. Story(c)'
    BY <2>10, <2>13 DEF Story
  <2>15. c \in Done200' => c \in Done200
    <3>1. ~Has(<<>>, "final")
      BY Nothing
    <3>2. cur' = cur /\ worker' = worker
      BY <1>2
    <3>3. QED
      BY <1>3, <2>7, <2>9, <2>13, <3>1, <3>2 DEF Done200
  <2>16. c \in Pending' => c \in Pending
    BY <1>2, <1>5, <2>9 DEF Pending
  <2>17. One(c \in Pending') + 0 + 0 + 0 <= One(c \in Pending) + 0
    BY <2>16 DEF One
  <2>18. 0 \in 0..1 /\ worker' = worker /\ Tally(0, 0, 0, 0)
    BY <1>1, <1>2, TallyIs
  <2>19. QED
    BY <2>9, <2>13, <2>14, <2>15, <2>17, <2>18, StepOn
<1>9. QED
  BY <1>7, <1>8 DEF ForwardDone

-----------------------------------------------------------------------------
(* The worker: loading, dying and taking jobs                               *)

\* A step of the whole process that counts nothing and leaves less to count.
LEMMA StepAll ==
  ASSUME ConnAssumption, IInv, Types', Shared', \A d \in Conn : Story(d)', UNCHANGED metrics,
         worker' # "failed" => worker # "failed",
         Pending' \subseteq Pending, Done200' \subseteq Done200,
         \A k : Evidence(k)' \subseteq Evidence(k)
  PROVE  IInv'
<1>1. /\ Pending \in SUBSET Conn /\ Done200 \in SUBSET Conn
      /\ \A k : Evidence(k) \in SUBSET Conn
  BY DEF Pending, Done200, Evidence
<1>2. /\ Cardinality(Pending) \in Nat /\ Cardinality(Pending') \in Nat
      /\ Cardinality(Pending') <= Cardinality(Pending)
  BY <1>1, CardSubset
<1>3. /\ Cardinality(Done200) \in Nat /\ Cardinality(Done200') \in Nat
      /\ Cardinality(Done200') <= Cardinality(Done200)
  BY <1>1, CardSubset
<1>4. /\ Cardinality(Evidence({400})) \in Nat /\ Cardinality(Evidence({400})') \in Nat
      /\ Cardinality(Evidence({400})') <= Cardinality(Evidence({400}))
  BY <1>1, CardSubset
<1>5. /\ Cardinality(Evidence({500, 503})) \in Nat /\ Cardinality(Evidence({500, 503})') \in Nat
      /\ Cardinality(Evidence({500, 503})') <= Cardinality(Evidence({500, 503}))
  BY <1>1, CardSubset
<1>6. Sized /\ Sized' /\ Types /\ Counted /\ Tally(0, 0, 0, 0) /\ 0 \in 0..1
  BY <1>2, <1>3, <1>4, <1>5, TallyIs DEF Sized, IInv
<1>7. /\ Cardinality(Pending') + 0 + 0 + 0 <= Cardinality(Pending) + 0
      /\ Cardinality(Done200') <= Cardinality(Done200) + 0
      /\ Cardinality(Evidence({400})') <= Cardinality(Evidence({400})) + 0
      /\ Cardinality(Evidence({500, 503})') <= Cardinality(Evidence({500, 503})) + 0
  BY <1>2, <1>3, <1>4, <1>5
<1>8. Counted'
  BY <1>6, <1>7, Balance
<1>9. QED
  BY <1>8 DEF IInv, Stories

\* The models are loaded, or are not.
LEMMA LoadModelsKeeps ==
  ASSUME ConnAssumption, IInv, LoadModels
  PROVE  IInv'
<1>1. Types /\ Shared /\ worker = "loading" /\ cur \notin Conn
  BY DEF IInv, Shared, Busy, LoadModels
<1>2. Types'
  BY <1>1 DEF Types, LoadModels, handlers, strip, clock, history
<1>3. Shared'
  BY <1>1 DEF Shared, Busy, LoadModels, strip
<1>4. \A d \in Conn : Same(d)
  BY <1>1 DEF Same, Queued, LoadModels, handlers, strip, clock, history
<1>5. UNCHANGED metrics /\ worker # "failed"
  BY <1>1 DEF LoadModels
<1>6. QED
  BY <1>2, <1>3, <1>4, <1>5, StepAside

\* The jobs go away with the worker, uncounted.
LEMMA LoadPanicsKeeps ==
  ASSUME ConnAssumption, IInv, LoadPanics
  PROVE  IInv'
<1>1. Types /\ Shared /\ worker = "loading" /\ cur \notin Conn /\ jobs' = <<>> /\ worker' = "dead"
  BY DEF IInv, Shared, Busy, LoadPanics
<1>2. UNCHANGED <<conn, req, wire, left, replies, cur, status, passthrough, buf, overdue, metrics,
                  made, cut>>
  BY DEF LoadPanics, handlers, strip, clock, history
<1>3. Types'
  BY <1>1, <1>2 DEF Types
<1>4. Shared'
  BY <1>1, <1>2 DEF Shared, Busy
<1>5. \A d : ~Queued(d)'
  BY <1>1 DEF Queued
<1>6. ASSUME NEW d \in Conn
      PROVE  Story(d)'
  <2>1. Where(d) /\ Order(d) /\ Tokens(d) /\ d # cur
    BY <1>1 DEF IInv, Stories, Story
  <2>2. Where(d)'
    BY <1>1, <1>2, <1>5, <2>1 DEF Where
  <2>3. Streamed(d)' <=> Streamed(d)
    BY <1>2 DEF Streamed, Chats
  <2>4. Order(d)'
    BY <1>2, <2>1, <2>3 DEF Order, Chats
  <2>5. Tokens(d)'
    BY <1>2, <2>1 DEF Tokens, Open
  <2>6. QED
    BY <2>2, <2>4, <2>5 DEF Story
<1>7. Pending' \subseteq Pending
  <2>1. \A d \in Conn : conn[d] = "first" => Queued(d)
    BY <1>1 DEF IInv, Stories, Story, Where
  <2>2. QED
    BY <1>1, <1>2, <1>5, <2>1 DEF Pending
<1>8. \A k : Evidence(k)' \subseteq Evidence(k)
  BY <1>1, <1>2 DEF Evidence
<1>9. Done200' \subseteq Done200
  BY <1>1, <1>2, <1>8 DEF Done200
<1>10. QED
  BY <1>1, <1>2, <1>3, <1>4, <1>6, <1>7, <1>8, <1>9, StepAll

\* The process ends under the open connections.
LEMMA ProcessExitsKeeps ==
  ASSUME ConnAssumption, IInv, ProcessExits
  PROVE  IInv'
<1>1. Types /\ Shared /\ worker = "dead" /\ cur \notin Conn /\ jobs = <<>>
  BY DEF IInv, Shared, Busy, ProcessExits
<1>2. /\ conn' = [c \in Conn |-> "closed"]
      /\ UNCHANGED <<left, req, wire, jobs, replies, worker, cur, status, passthrough, buf, overdue,
                     metrics, made, cut>>
  BY DEF ProcessExits, strip, clock, history
<1>3. Types'
  BY <1>1, <1>2 DEF Types
<1>4. Shared'
  BY <1>1, <1>2 DEF Shared, Busy
<1>5. \A d : ~Queued(d)'
  BY <1>1, <1>2 DEF Queued
<1>6. ASSUME NEW d \in Conn
      PROVE  Story(d)'
  <2>1. Where(d) /\ Order(d) /\ Tokens(d) /\ d # cur /\ conn'[d] = "closed"
    BY <1>1, <1>2 DEF IInv, Stories, Story
  <2>2. Where(d)'
    BY <1>1, <1>2, <1>5, <2>1 DEF Where
  <2>3. Streamed(d)' <=> Streamed(d)
    BY <1>2 DEF Streamed, Chats
  <2>4. Order(d)'
    BY <1>2, <2>1, <2>3 DEF Order, Chats
  <2>5. Tokens(d)'
    BY <1>2, <2>1 DEF Tokens, Open
  <2>6. QED
    BY <2>2, <2>4, <2>5 DEF Story
<1>7. Pending' \subseteq Pending
  BY <1>1, <1>2, <1>5 DEF Pending
<1>8. \A k : Evidence(k)' \subseteq Evidence(k)
  BY <1>1, <1>2 DEF Evidence
<1>9. Done200' \subseteq Done200
  BY <1>1, <1>2, <1>8 DEF Done200
<1>10. QED
  BY <1>1, <1>2, <1>3, <1>4, <1>6, <1>7, <1>8, <1>9, StepAll

\* The clock runs out.
LEMMA TimeIsUpKeeps ==
  ASSUME ConnAssumption, IInv, TimeIsUp
  PROVE  IInv'
<1>1. Types /\ Shared
  BY DEF IInv
<1>2. Types'
  BY <1>1 DEF Types, TimeIsUp, handlers, strip, history
<1>3. Shared'
  BY <1>1 DEF Shared, Busy, TimeIsUp, strip
<1>4. \A d \in Conn : Same(d)
  BY DEF Same, Queued, TimeIsUp, handlers, strip, history
<1>5. UNCHANGED metrics /\ worker' = worker
  BY DEF TimeIsUp
<1>6. QED
  BY <1>2, <1>3, <1>4, <1>5, StepAside

\* The job at the head of the queue: nothing has been done for it yet.
LEMMA NextJob ==
  ASSUME IInv, jobs # <<>>, jobs' = Tail(jobs)
  PROVE  \E c \in Conn :
           /\ c = Head(jobs) /\ Queued(c) /\ c \in Pending /\ jobs' \in Seq(Conn)
           /\ conn[c] = "first" /\ replies[c] = <<>> /\ wire[c] = <<>> /\ c # cur
           /\ made[c] = 0 /\ cut[c] = 0
           /\ ~Queued(c)' /\ \A d \in Conn \ {c} : Queued(d)' <=> Queued(d)
           /\ \A i, j \in DOMAIN jobs' : jobs'[i] = jobs'[j] => i = j
<1>1. Types /\ Shared
  BY DEF IInv
<1>2. jobs \in Seq(Conn) /\ \A i, j \in DOMAIN jobs : jobs[i] = jobs[j] => i = j
  BY <1>1 DEF Types, Shared
<1>3. /\ Head(jobs) \in Conn /\ Queued(Head(jobs)) /\ jobs' \in Seq(Conn)
      /\ \A d : Queued(d)' <=> Queued(d) /\ d # Head(jobs)
      /\ \A i, j \in DOMAIN jobs' : jobs'[i] = jobs'[j] => i = j
  BY <1>2, QueueShrinks
<1>4. PICK c \in Conn : c = Head(jobs)
  BY <1>3
<1>5. Where(c) /\ Queued(c)
  BY <1>3, <1>4 DEF IInv, Stories, Story
<1>6. /\ conn[c] = "first" /\ replies[c] = <<>> /\ wire[c] = <<>> /\ c # cur
      /\ made[c] = 0 /\ cut[c] = 0
  BY <1>5 DEF Where
<1>7. c \in Pending
  BY <1>5 DEF Pending
<1>8. QED
  BY <1>3, <1>4, <1>5, <1>6, <1>7

\* A job that could not be served is answered with a 503; it is not counted.
LEMMA DrainKeeps ==
  ASSUME ConnAssumption, IInv, Drain
  PROVE  IInv'
<1>1. Types /\ Shared /\ worker = "failed" /\ jobs # <<>> /\ jobs' = Tail(jobs) /\ cur \notin Conn
  BY DEF IInv, Shared, Busy, Drain
<1>2. PICK c \in Conn :
        /\ c = Head(jobs) /\ Queued(c) /\ c \in Pending /\ jobs' \in Seq(Conn)
        /\ conn[c] = "first" /\ replies[c] = <<>> /\ wire[c] = <<>> /\ c # cur
        /\ made[c] = 0 /\ cut[c] = 0
        /\ ~Queued(c)' /\ \A d \in Conn \ {c} : Queued(d)' <=> Queued(d)
        /\ \A i, j \in DOMAIN jobs' : jobs'[i] = jobs'[j] => i = j
  BY <1>1, NextJob
<1>3. PICK f \in Frames : f = Frame("done", 503) /\ f.kind = "done" /\ f.n = 503
  <2>1. Frame("done", 503) \in Frames
    BY DEF Frame, Frames, FrameKinds
  <2>2. Frame("done", 503).kind = "done" /\ Frame("done", 503).n = 503
    BY DEF Frame
  <2>3. QED
    BY <2>1, <2>2
<1>4. PICK x \in Seq(Frames) : x = <<f>> /\ ToSet(x) = {f} /\ Ordered(x) /\ x # <<>> /\ x[1] = f
  <2>1. <<f>> \in Seq(Frames) /\ ToSet(<<f>>) = {f} /\ Ordered(<<f>>)
    BY ToSetOne
  <2>2. <<f>> # <<>> /\ <<f>>[1] = f
    OBVIOUS
  <2>3. QED
    BY <2>1, <2>2, Zenon
<1>5. Send(c, x)
  BY <1>2, <1>3, <1>4 DEF Drain
<1>6. /\ replies' \in [Conn -> Seq(Frames)]
      /\ \A e \in Conn \ {c} : replies'[e] = replies[e]
      /\ replies'[c] = x
  <2>1. <<>> \o x = x
    OBVIOUS
  <2>2. /\ replies' \in [Conn -> Seq(Frames)]
        /\ \A e \in Conn \ {c} : replies'[e] = replies[e]
        /\ conn[c] # "closed" => replies'[c] = replies[c] \o x
    BY <1>1, <1>5, SendIs
  <2>3. QED
    BY <1>2, <2>1, <2>2
<1>7. UNCHANGED <<conn, req, wire, left, worker, cur, status, passthrough, buf, overdue, metrics,
                  made, cut>>
  BY DEF Drain, handlers, strip, clock, history
<1>8. Types'
  BY <1>1, <1>2, <1>6, <1>7, ZenonT(30) DEF Types
<1>9. Shared'
  BY <1>1, <1>2, <1>7 DEF Shared, Busy
<1>10. \A e \in Conn \ {c} : Same(e)
  BY <1>2, <1>6, <1>7 DEF Same
<1>11. Story(c)'
  <2>1. Where(c)'
    BY <1>1, <1>2, <1>7 DEF Where
  <2>2. Silent(wire'[c])
    BY <1>2, <1>7 DEF Silent
  <2>3. Ordered(wire'[c]) /\ Follows(wire'[c], x)
    BY <1>2, <1>7, Nothing DEF Follows
  <2>4. Order(c)'
    BY <1>2, <1>3, <1>4, <1>6, <1>7, <2>2, <2>3 DEF Order
  <2>5. ~Has(wire'[c], "final")
    BY <1>2, <1>7, Nothing
  <2>6. ~Has(x, "final")
    <3>1. ~\E g \in ToSet(x) : g.kind = "final"
      BY <1>3, <1>4
    <3>2. QED
      BY <3>1, HasIs
  <2>7. Tokens(c)'
    BY <1>2, <1>6, <1>7, <2>5, <2>6 DEF Tokens
  <2>8. QED
    BY <2>1, <2>4, <2>7 DEF Story
<1>12. c \notin Done200' /\ c \notin Evidence({400})'
  <2>1. ASSUME NEW k, 503 \notin k
        PROVE  c \notin Evidence(k)'
    <3>1. ~Holds(x, "done", k)
      BY <1>3, <1>4, <2>1 DEF Holds
    <3>2. wire'[c] = <<>> /\ c # cur' /\ replies'[c] = x
      BY <1>2, <1>6, <1>7
    <3>3. QED
      BY <3>1, <3>2 DEF Evidence
  <2>2. c \notin Evidence({400})' /\ c \notin Evidence({200})'
    BY <2>1
  <2>3. ~Has(wire'[c], "final") /\ ~Has(x, "final")
    <3>1. ~\E g \in ToSet(x) : g.kind = "final"
      BY <1>3, <1>4
    <3>2. QED
      BY <1>2, <1>7, <3>1, Nothing, HasIs
  <2>4. QED
    BY <1>2, <1>6, <1>7, <2>2, <2>3 DEF Done200
<1>13. c \notin Pending'
  BY <1>1, <1>2, <1>7 DEF Pending
<1>14. One(c \in Pending') + 0 + 0 + 0 <= One(c \in Pending) + 0
  BY <1>2, <1>13 DEF One
<1>15. 0 \in 0..1 /\ worker' = worker /\ Tally(0, 0, 0, 0) /\ worker' = "failed"
  BY <1>1, <1>7, TallyIs
<1>16. QED
  BY <1>8, <1>9, <1>10, <1>11, <1>12, <1>14, <1>15, StepOn

\* A job the worker refuses is counted as it is taken.
LEMMA TakeRejectedKeeps ==
  ASSUME ConnAssumption, IInv, TakeRejected
  PROVE  IInv'
<1>1. /\ Types /\ Shared /\ worker = "idle" /\ jobs # <<>> /\ jobs' = Tail(jobs) /\ cur \notin Conn
      /\ cur' = Head(jobs) /\ worker' = "reply" /\ buf = 0
  BY DEF IInv, Shared, Busy, TakeRejected
<1>2. PICK c \in Conn :
        /\ c = Head(jobs) /\ Queued(c) /\ c \in Pending /\ jobs' \in Seq(Conn)
        /\ conn[c] = "first" /\ replies[c] = <<>> /\ wire[c] = <<>> /\ c # cur
        /\ made[c] = 0 /\ cut[c] = 0
        /\ ~Queued(c)' /\ \A d \in Conn \ {c} : Queued(d)' <=> Queued(d)
        /\ \A i, j \in DOMAIN jobs' : jobs'[i] = jobs'[j] => i = j
  BY <1>1, NextJob
<1>3. UNCHANGED <<conn, req, wire, left, replies, passthrough, buf, overdue, made, cut>>
  BY DEF TakeRejected, handlers, strip, clock, history
<1>4. PICK a \in 0..1, b \in 0..1 :
        /\ a + b = 1 /\ Tally(0, 0, a, b)
        /\ \/ status' = 400 /\ a = 1
           \/ status' = 503 /\ b = 1
  <2>1. CASE status' = 400 /\ Count({"e4"})
    <3>1. Tally(0, 0, 1, 0) /\ 0 \in 0..1 /\ 1 \in 0..1 /\ 1 + 0 = 1
      BY <1>1, <2>1, TallyIs
    <3>2. QED
      BY <2>1, <3>1
  <2>2. CASE status' = 503 /\ Count({"e5"})
    <3>1. Tally(0, 0, 0, 1) /\ 0 \in 0..1 /\ 1 \in 0..1 /\ 0 + 1 = 1
      BY <1>1, <2>2, TallyIs
    <3>2. QED
      BY <2>2, <3>1
  <2>3. QED
    BY <2>1, <2>2 DEF TakeRejected
<1>5. metrics' \in [Counters -> Nat] /\ status' \in {400, 503}
  BY <1>1, CountIs DEF TakeRejected
<1>6. Types'
  <2>1. cur' \in Conn /\ jobs' \in Seq(Conn) /\ worker' = "reply"
    BY <1>1, <1>2
  <2>2. /\ worker' \in {"loading", "failed", "dead", "idle", "decode", "close", "reply"}
        /\ status' \in {0, 200, 400, 503, 500} /\ cur' \in Conn \cup {NoConn}
    BY <1>5, <2>1
  <2>3. /\ conn' = conn /\ req' = req /\ wire' = wire /\ left' = left /\ replies' = replies
        /\ passthrough' = passthrough /\ buf' = buf /\ overdue' = overdue
        /\ made' = made /\ cut' = cut
    BY <1>3
  <2>4. Types
    BY <1>1
  <2>5. /\ conn' \in [Conn -> {"away", "read", "first", "stream", "closed"}]
        /\ left' \in [Conn -> BOOLEAN] /\ req' \in [Conn -> Request]
        /\ replies' \in [Conn -> Seq(Frames)] /\ wire' \in [Conn -> Seq(Frames)]
        /\ passthrough' \in BOOLEAN /\ buf' \in Nat /\ overdue' \in BOOLEAN
        /\ made' \in [Conn -> Nat] /\ cut' \in [Conn -> Nat]
    BY <2>3, <2>4 DEF Types
  <2>6. QED
    BY <1>5, <2>1, <2>2, <2>5, ZenonT(30) DEF Types
<1>7. Shared'
  BY <1>1, <1>2, <1>3 DEF Shared, Busy
<1>8. \A e \in Conn \ {c} : Same(e)
  BY <1>1, <1>2, <1>3 DEF Same
<1>9. Story(c)'
  <2>1. Where(c)'
    BY <1>1, <1>2, <1>3 DEF Where
  <2>2. Silent(wire'[c])
    BY <1>2, <1>3 DEF Silent
  <2>3. Order(c)'
    BY <1>1, <1>2, <1>3, <2>2, Nothing DEF Order, Follows, AtMost
  <2>4. ~Has(wire'[c], "final") /\ ~Has(replies'[c], "final")
    BY <1>2, <1>3, Nothing
  <2>5. Tokens(c)'
    BY <1>1, <2>4 DEF Tokens
  <2>6. QED
    BY <2>1, <2>3, <2>5 DEF Story
<1>10. \A k : c \in Evidence(k)' => status' \in k
  BY <1>1, <1>2, <1>3, Nothing DEF Evidence, Holds
<1>11. c \notin Done200'
  <2>1. c \notin Evidence({200})'
    BY <1>5, <1>10
  <2>2. ~Has(wire'[c], "final") /\ ~Has(replies'[c], "final")
    BY <1>2, <1>3, Nothing
  <2>3. QED
    BY <1>1, <2>1, <2>2 DEF Done200
<1>12. c \notin Pending'
  BY <1>1, <1>2, <1>3 DEF Pending
<1>13. One(c \in Pending') + 0 + a + b <= One(c \in Pending) + 0
  BY <1>2, <1>4, <1>12 DEF One
<1>14. /\ c \in Evidence({400})' => a = 1
       /\ c \in Evidence({500, 503})' => b = 1
  BY <1>4, <1>10
<1>15. 0 \in 0..1 /\ worker # "failed"
  BY <1>1
<1>16. QED
  BY <1>4, <1>6, <1>7, <1>8, <1>9, <1>11, <1>13, <1>14, <1>15, StepOn

\* A chat stream begins with its role chunk.
LEMMA TakeGenerateKeeps ==
  ASSUME ConnAssumption, IInv, TakeGenerate
  PROVE  IInv'
<1>1. /\ Types /\ Shared /\ worker = "idle" /\ jobs # <<>> /\ jobs' = Tail(jobs) /\ cur \notin Conn
      /\ cur' = Head(jobs) /\ worker' = "decode" /\ buf = 0
  BY DEF IInv, Shared, Busy, TakeGenerate
<1>2. PICK c \in Conn :
        /\ c = Head(jobs) /\ Queued(c) /\ c \in Pending /\ jobs' \in Seq(Conn)
        /\ conn[c] = "first" /\ replies[c] = <<>> /\ wire[c] = <<>> /\ c # cur
        /\ made[c] = 0 /\ cut[c] = 0
        /\ ~Queued(c)' /\ \A d \in Conn \ {c} : Queued(d)' <=> Queued(d)
        /\ \A i, j \in DOMAIN jobs' : jobs'[i] = jobs'[j] => i = j
  BY <1>1, NextJob
<1>3. /\ UNCHANGED <<conn, req, wire, left, status, passthrough, buf, overdue, metrics, made, cut>>
      /\ req[c].kind = "generate"
  BY <1>2 DEF TakeGenerate, handlers, strip, clock, history
<1>4. PICK f \in Frames : f = Mark("role") /\ f.kind = "role"
  <2>1. Mark("role") \in Frames /\ Mark("role").kind = "role"
    BY DEF Mark, Frame, Frames, FrameKinds
  <2>2. QED
    BY <2>1
<1>5. PICK x \in Seq(Frames) :
        /\ x = IF req[c].stream /\ req[c].chat THEN <<f>> ELSE <<>>
        /\ Chats(c) => ToSet(x) = {f} /\ x # <<>> /\ x[1] = f
        /\ ~Chats(c) => x = <<>>
        /\ Ordered(x) /\ \A g \in ToSet(x) : g = f /\ Chats(c)
  <2>1. CASE Chats(c)
    <3>1. <<f>> \in Seq(Frames) /\ ToSet(<<f>>) = {f} /\ Ordered(<<f>>)
      BY ToSetOne
    <3>2. <<f>> # <<>> /\ <<f>>[1] = f
      OBVIOUS
    <3>3. QED
      BY <2>1, <3>1, <3>2 DEF Chats
  <2>2. CASE ~Chats(c)
    <3>1. ~(req[c].stream /\ req[c].chat)
      BY <1>3, <2>2 DEF Chats
    <3>2. QED
      BY <2>2, <3>1, Nothing
  <2>3. QED
    BY <2>1, <2>2
<1>6. Send(c, x)
  BY <1>1, <1>2, <1>3, <1>4, <1>5 DEF TakeGenerate
<1>7. /\ replies' \in [Conn -> Seq(Frames)]
      /\ \A e \in Conn \ {c} : replies'[e] = replies[e]
      /\ replies'[c] = x
  <2>1. <<>> \o x = x
    OBVIOUS
  <2>2. /\ replies' \in [Conn -> Seq(Frames)]
        /\ \A e \in Conn \ {c} : replies'[e] = replies[e]
        /\ conn[c] # "closed" => replies'[c] = replies[c] \o x
    BY <1>1, <1>6, SendIs
  <2>3. QED
    BY <1>2, <2>1, <2>2
<1>8. Types'
  BY <1>1, <1>2, <1>3, <1>7, ZenonT(30) DEF Types
<1>9. Shared'
  BY <1>1, <1>2, <1>3 DEF Shared, Busy
<1>10. \A e \in Conn \ {c} : Same(e)
  BY <1>1, <1>2, <1>3, <1>7 DEF Same
<1>11. Sent(x) = 0 /\ ~Has(x, "final")
  <2>1. \A g \in ToSet(x) : g.kind = "role"
    BY <1>4, <1>5
  <2>2. QED
    BY <2>1, SentNothing, HasIs
<1>12. Story(c)'
  <2>1. Where(c)'
    BY <1>1, <1>2, <1>3 DEF Where
  <2>2. Silent(wire'[c]) /\ Ordered(wire'[c]) /\ Follows(wire'[c], x)
    BY <1>2, <1>3, Nothing DEF Silent, Follows
  <2>3. AtMost(wire'[c], 3) /\ AtMost(x, 3)
    BY <1>2, <1>3, <1>4, <1>5, Nothing DEF AtMost, Rank
  <2>4. Chats(c)' <=> Chats(c)
    BY <1>3 DEF Chats
  <2>5. \A g \in ToSet(x) : g.kind \in ChunkKinds /\ req[c].stream
    BY <1>4, <1>5 DEF ChunkKinds, Chats
  <2>6. Order(c)'
    BY <1>1, <1>2, <1>3, <1>4, <1>5, <1>7, <2>2, <2>3, <2>4, <2>5 DEF Order
  <2>7. ~Has(wire'[c], "final") /\ Sent(wire'[c]) = 0
    BY <1>2, <1>3, Nothing
  <2>8. Tokens(c)'
    BY <1>1, <1>2, <1>3, <1>7, <1>11, <2>7 DEF Tokens
  <2>9. QED
    BY <2>1, <2>6, <2>8 DEF Story
<1>13. \A k : c \notin Evidence(k)'
  <2>1. ASSUME NEW k
        PROVE  ~Holds(x, "done", k)
    BY <1>4, <1>5 DEF Holds
  <2>2. QED
    BY <1>1, <1>2, <1>3, <1>7, <2>1 DEF Evidence
<1>14. c \notin Done200'
  <2>1. ~Has(wire'[c], "final")
    BY <1>2, <1>3, Nothing
  <2>2. QED
    BY <1>1, <1>7, <1>11, <1>13, <2>1 DEF Done200
<1>15. One(c \in Pending') + 0 + 0 + 0 <= One(c \in Pending) + 0
  BY <1>2 DEF One
<1>16. 0 \in 0..1 /\ worker # "failed" /\ Tally(0, 0, 0, 0)
  BY <1>1, <1>3, TallyIs
<1>17. QED
  BY <1>8, <1>9, <1>10, <1>12, <1>13, <1>14, <1>15, <1>16, StepOn

-----------------------------------------------------------------------------
(* The worker: an answer                                                    *)

\* The job at hand.
LEMMA AtWork ==
  ASSUME IInv, worker \in {"decode", "close", "reply"}
  PROVE  \E c \in Conn :
           /\ c = cur /\ Where(c) /\ Order(c) /\ Tokens(c) /\ ~Queued(c)
           /\ conn[c] \in {"first", "stream", "closed"}
           /\ worker \in {"decode", "close"} =>
                /\ req[c].kind = "generate" /\ ~Has(wire[c], "final") /\ ~Has(replies[c], "final")
                /\ AtMost(wire[c], 3) /\ AtMost(replies[c], 3)
<1>1. Types /\ Shared
  BY DEF IInv
<1>2. PICK c \in Conn : c = cur
  BY <1>1 DEF Shared, Busy
<1>3. Where(c) /\ Order(c) /\ Tokens(c)
  BY DEF IInv, Stories, Story
<1>4. ~Queued(c) /\ conn[c] \in {"first", "stream", "closed"}
  BY <1>1, <1>2, <1>3 DEF Where, Types
<1>5. ASSUME worker \in {"decode", "close"}
      PROVE  /\ req[c].kind = "generate" /\ ~Has(wire[c], "final") /\ ~Has(replies[c], "final")
             /\ AtMost(wire[c], 3) /\ AtMost(replies[c], 3)
  <2>1. AtMost(wire[c], 3) /\ AtMost(replies[c], 3) /\ req[c].kind = "generate"
    BY <1>2, <1>3, <1>5 DEF Order, Where
  <2>2. PICK w \in Seq(Frames), q \in Seq(Frames) : w = wire[c] /\ q = replies[c]
    BY <1>1 DEF Types
  <2>3. \A f : f.kind = "final" => Rank(f) = 4
    BY DEF Rank
  <2>4. /\ ~\E f \in ToSet(w) : f.kind = "final"
        /\ ~\E f \in ToSet(q) : f.kind = "final"
    BY <2>1, <2>2, <2>3 DEF AtMost
  <2>5. ~Has(w, "final") /\ ~Has(q, "final")
    BY <2>4, HasIs
  <2>6. QED
    BY <2>1, <2>2, <2>5
<1>6. QED
  BY <1>2, <1>3, <1>4, <1>5

\* A step of the generation that sends nothing: one more token, in the buffer,
\* in the preamble, or in an answer that is not streamed by the plain loop.
LEMMA QuietKeeps ==
  ASSUME ConnAssumption, IInv, worker = "decode", NEW c \in Conn, c = cur,
         made' = [made EXCEPT ![c] = @ + 1], cut' \in [Conn -> Nat], buf' \in Nat,
         passthrough' \in BOOLEAN,
         \A e \in Conn \ {c} : cut'[e] = cut[e],
         req[c].stream /\ ~req[c].spec => cut'[c] + buf' = cut[c] + buf + 1,
         ~passthrough' => cut'[c] = 0,
         UNCHANGED <<handlers, left, jobs, replies, worker, cur, status, overdue, metrics>>
  PROVE  IInv'
<1>1. Types /\ Shared
  BY DEF IInv
<1>2. /\ Where(c) /\ Order(c) /\ Tokens(c) /\ ~Queued(c)
      /\ conn[c] \in {"first", "stream", "closed"}
      /\ ~Has(wire[c], "final") /\ ~Has(replies[c], "final")
  BY AtWork
<1>3. UNCHANGED <<conn, req, wire, left, jobs, replies, worker, cur, status, overdue, metrics>>
  BY DEF handlers
<1>4. /\ made' \in [Conn -> Nat] /\ made'[c] = made[c] + 1
      /\ \A e \in Conn \ {c} : made'[e] = made[e]
      /\ made[c] \in Nat /\ cut[c] \in Nat /\ buf \in Nat /\ cut'[c] \in Nat
  BY <1>1 DEF Types
<1>5. Types'
  BY <1>1, <1>3, <1>4 DEF Types
<1>6. Shared'
  BY <1>1, <1>3 DEF Shared, Busy
<1>7. \A e : Queued(e)' <=> Queued(e)
  BY <1>3 DEF Queued
<1>8. \A e \in Conn \ {c} : Same(e)
  BY <1>3, <1>4, <1>7 DEF Same
<1>9. Story(c)'
  <2>1. Where(c)'
    BY <1>2, <1>3, <1>7 DEF Where
  <2>2. (Streamed(c)' <=> Streamed(c)) /\ (Chats(c)' <=> Chats(c))
    BY <1>3 DEF Streamed, Chats
  <2>3. Order(c)'
    BY <1>2, <1>3, <2>2 DEF Order
  <2>4. Sent(wire[c]) \in Nat /\ Sent(replies[c]) \in Nat
    BY <1>1, SentConcat DEF Types
  <2>5. Open(c)' <=> Open(c)
    BY <1>3 DEF Open
  <2>6. Open(c) /\ req[c].stream /\ ~req[c].spec =>
          Sent(wire[c]) + Sent(replies[c]) + cut[c] + buf = made[c]
    BY <1>2 DEF Tokens
  <2>7. Open(c) /\ req[c].stream /\ ~req[c].spec =>
          Sent(wire[c]) + Sent(replies[c]) + cut'[c] + buf' = made'[c]
    BY <1>4, <2>4, <2>6
  <2>8. Tokens(c)'
    BY <1>2, <1>3, <2>5, <2>7 DEF Tokens
  <2>9. QED
    BY <2>1, <2>3, <2>8 DEF Story
<1>10. \A k : c \in Evidence(k)' => c \in Evidence(k)
  BY <1>3 DEF Evidence
<1>11. c \in Done200' => c \in Done200
  BY <1>3, <1>10 DEF Done200
<1>12. c \in Pending
  BY DEF Pending
<1>13. One(c \in Pending') + 0 + 0 + 0 <= One(c \in Pending) + 0
  BY <1>12 DEF One
<1>14. 0 \in 0..1 /\ worker # "failed" /\ Tally(0, 0, 0, 0)
  BY <1>1, <1>3, TallyIs
<1>15. QED
  BY <1>5, <1>6, <1>8, <1>9, <1>10, <1>11, <1>13, <1>14, StepOn

\* The three steps that make a token and send nothing.
LEMMA DecodingKeeps ==
  ASSUME ConnAssumption, IInv, DecodeQuietly \/ HoldBack \/ EndPreamble
  PROVE  IInv'
<1>1. worker = "decode"
  BY DEF DecodeQuietly, HoldBack, EndPreamble, DecodesToken
<1>2. PICK c \in Conn : c = cur /\ Tokens(c)
  BY <1>1, AtWork
<1>3. made \in [Conn -> Nat] /\ cut \in [Conn -> Nat] /\ buf \in Nat /\ passthrough \in BOOLEAN
  BY DEF IInv, Types
<1>4. ~passthrough => cut[c] = 0
  BY <1>1, <1>2 DEF Tokens
<1>5. made' = [made EXCEPT ![c] = @ + 1]
  BY <1>2 DEF DecodeQuietly, HoldBack, EndPreamble, DecodesToken
<1>6. UNCHANGED <<handlers, left, jobs, replies, worker, cur, status, overdue, metrics>>
  BY DEF DecodeQuietly, HoldBack, EndPreamble
<1>7. CASE DecodeQuietly
  <2>1. cut' = cut /\ buf' = buf /\ passthrough' = passthrough /\ ~(req[c].stream /\ ~req[c].spec)
    BY <1>2, <1>7 DEF DecodeQuietly, strip
  <2>2. QED
    BY <1>1, <1>2, <1>3, <1>4, <1>5, <1>6, <2>1, QuietKeeps
<1>8. CASE HoldBack
  <2>1. cut' = cut /\ buf' = buf + 1 /\ passthrough' = passthrough
    BY <1>8 DEF HoldBack
  <2>2. buf' \in Nat /\ cut'[c] + buf' = cut[c] + buf + 1
    BY <1>3, <2>1
  <2>3. QED
    BY <1>1, <1>2, <1>3, <1>4, <1>5, <1>6, <2>1, <2>2, QuietKeeps
<1>9. CASE EndPreamble
  <2>1. cut' = [cut EXCEPT ![c] = buf + 1] /\ buf' = 0 /\ passthrough' /\ ~passthrough
        /\ passthrough' = TRUE
    BY <1>2, <1>9 DEF EndPreamble
  <2>2. cut' \in [Conn -> Nat] /\ cut'[c] = buf + 1 /\ \A e \in Conn \ {c} : cut'[e] = cut[e]
    BY <1>3, <2>1
  <2>3. cut'[c] + buf' = cut[c] + buf + 1 /\ buf' \in Nat /\ passthrough' \in BOOLEAN
    BY <1>3, <1>4, <2>1, <2>2
  <2>4. QED
    BY <1>1, <1>2, <1>5, <1>6, <2>1, <2>2, <2>3, QuietKeeps
<1>10. QED
  BY <1>7, <1>8, <1>9

\* A text is sent, or nobody listens any more and the generation stops.
LEMMA EmitTextKeeps ==
  ASSUME ConnAssumption, IInv, EmitText
  PROVE  IInv'
<1>1. Types /\ Shared /\ worker = "decode"
  BY DEF IInv, EmitText, DecodesToken
<1>2. PICK c \in Conn :
        /\ c = cur /\ Where(c) /\ Order(c) /\ Tokens(c) /\ ~Queued(c)
        /\ conn[c] \in {"first", "stream", "closed"}
        /\ req[c].kind = "generate" /\ ~Has(wire[c], "final") /\ ~Has(replies[c], "final")
        /\ AtMost(wire[c], 3) /\ AtMost(replies[c], 3)
  BY <1>1, AtWork
<1>3. PICK w \in Seq(Frames), q \in Seq(Frames) : w = wire[c] /\ q = replies[c]
  BY <1>1 DEF Types
<1>4. PICK f \in Frames : f = Text(buf + 1) /\ f.kind = "text" /\ Rank(f) = 3 /\ Worth(f) = buf + 1
  <2>1. buf + 1 \in Nat
    BY <1>1 DEF Types
  <2>2. /\ Text(buf + 1) \in Frames
        /\ Text(buf + 1).kind = "text" /\ Text(buf + 1).n = buf + 1
    BY <2>1 DEF Text, Frame, Frames, FrameKinds
  <2>3. Rank(Text(buf + 1)) = 3 /\ Worth(Text(buf + 1)) = buf + 1
    BY <2>2 DEF Rank, Worth
  <2>4. QED
    BY <2>2, <2>3
<1>5. PICK x \in Seq(Frames) : x = <<f>> /\ ToSet(x) = {f} /\ Ordered(x) /\ x # <<>> /\ x[1] = f
  <2>1. <<f>> \in Seq(Frames) /\ ToSet(<<f>>) = {f} /\ Ordered(<<f>>)
    BY ToSetOne
  <2>2. <<f>> # <<>> /\ <<f>>[1] = f
    OBVIOUS
  <2>3. QED
    BY <2>1, <2>2, Zenon
<1>6. /\ UNCHANGED <<conn, req, wire, left, jobs, cur, overdue, cut>>
      /\ made' = [made EXCEPT ![c] = @ + 1]
      /\ buf' = 0 /\ passthrough' = TRUE /\ Send(c, x)
      /\ req[c].stream /\ ~req[c].spec
  BY <1>2, <1>4, <1>5 DEF EmitText, DecodesToken, Streaming, handlers
<1>7. /\ replies' \in [Conn -> Seq(Frames)]
      /\ \A e \in Conn \ {c} : replies'[e] = replies[e]
      /\ conn[c] = "closed" => replies'[c] = replies[c]
      /\ conn[c] # "closed" => replies'[c] = replies[c] \o x
  BY <1>1, <1>6, SendIs
<1>8. /\ made' \in [Conn -> Nat] /\ made'[c] = made[c] + 1
      /\ \A e \in Conn \ {c} : made'[e] = made[e]
      /\ made[c] \in Nat /\ cut[c] \in Nat /\ buf \in Nat
  BY <1>1, <1>6, SMTT(30) DEF Types
<1>9. PICK o \in 0..1 :
        /\ conn[c] = "closed" => worker' = "close" /\ status' = 200 /\ o = 1
        /\ conn[c] # "closed" => worker' = worker /\ status' = status /\ o = 0
        /\ Tally(0, o, 0, 0) /\ metrics' \in [Counters -> Nat]
  <2>1. CASE conn[c] = "closed"
    <3>1. worker' = "close" /\ status' = 200 /\ Count({"ok", "length"})
      BY <1>2, <2>1 DEF EmitText
    <3>2. Tally(0, 1, 0, 0) /\ metrics' \in [Counters -> Nat] /\ 1 \in 0..1
      BY <1>1, <3>1, TallyIs, CountIs
    <3>3. QED
      BY <2>1, <3>1, <3>2
  <2>2. CASE conn[c] # "closed"
    <3>1. worker' = worker /\ status' = status /\ metrics' = metrics
      BY <1>2, <2>2 DEF EmitText
    <3>2. Tally(0, 0, 0, 0) /\ metrics' \in [Counters -> Nat] /\ 0 \in 0..1
      BY <1>1, <3>1, TallyIs DEF Types
    <3>3. QED
      BY <2>2, <3>1, <3>2
  <2>3. QED
    BY <2>1, <2>2
<1>10. worker' \in {"decode", "close"} /\ status' \in {0, 200, 400, 503, 500}
  BY <1>1, <1>9 DEF Types
<1>11. Types'
  BY <1>1, <1>6, <1>7, <1>8, <1>9, <1>10, SMTT(30) DEF Types
<1>12. Shared'
  <2>1. worker' = "close" => status' = 200
    BY <1>1, <1>9
  <2>2. QED
    BY <1>1, <1>6, <1>10, <2>1 DEF Shared, Busy
<1>13. \A e : Queued(e)' <=> Queued(e)
  BY <1>6 DEF Queued
<1>14. \A e \in Conn \ {c} : Same(e)
  <2>1. \A e \in Conn \ {c} : e # cur /\ e # cur'
    BY <1>2, <1>6
  <2>2. worker' \notin {"loading", "dead"}
    BY <1>10
  <2>3. QED
    BY <1>6, <1>7, <1>8, <1>13, <2>1, <2>2 DEF Same
<1>15. (Streamed(c)' <=> Streamed(c)) /\ (Chats(c)' <=> Chats(c))
  BY <1>6 DEF Streamed, Chats
<1>16. ASSUME conn[c] = "closed"
       PROVE  Story(c)'
  <2>1. replies'[c] = replies[c] /\ worker' = "close"
    BY <1>7, <1>9, <1>16
  <2>2. Where(c)'
    BY <1>2, <1>6, <1>13, <1>16, <2>1 DEF Where
  <2>3. Order(c)'
    BY <1>2, <1>6, <1>15, <1>16, <2>1 DEF Order
  <2>4. ~Open(c)'
    BY <1>6, <1>16 DEF Open
  <2>5. Tokens(c)'
    BY <1>2, <1>6, <2>1, <2>4 DEF Tokens
  <2>6. QED
    BY <2>2, <2>3, <2>5 DEF Story
<1>17. PICK r \in Seq(Frames) :
         /\ r = q \o x /\ Ordered(r) /\ Follows(w, r) /\ ToSet(r) = ToSet(q) \cup {f}
         /\ Sent(r) = Sent(q) + buf + 1 /\ Sent(q) \in Nat
         /\ ~Has(r, "final")
         /\ q # <<>> => r # <<>> /\ r[1] = q[1]
         /\ q = <<>> => r = x
  <2>1. AtMost(w, 3) /\ AtMost(q, 3) /\ Ordered(q) /\ Follows(w, q)
    BY <1>2, <1>3 DEF Order
  <2>2. After(x, 3)
    <3>1. ASSUME NEW g \in Frames, Rank(g) <= 3
          PROVE  Before(g, f)
      <4>1. g.kind = "text" \/ Rank(g) < 3
        BY <3>1 DEF Rank, Frames, FrameKinds
      <4>2. QED
        BY <1>4, <4>1 DEF Before
    <3>2. QED
      BY <1>5, <3>1 DEF After
  <2>3. Ordered(x) /\ 3 \in Nat
    BY <1>5
  <2>4. /\ q \o x \in Seq(Frames) /\ Ordered(q \o x) /\ Follows(w, q \o x)
        /\ ToSet(q \o x) = ToSet(q) \cup ToSet(x)
        /\ Sent(q \o x) = Sent(q) + Sent(x) /\ Sent(q) \in Nat /\ Sent(x) \in Nat
        /\ \A k : Has(q \o x, k) <=> Has(q, k) \/ Has(x, k)
        /\ q # <<>> => q \o x # <<>> /\ (q \o x)[1] = q[1]
        /\ q = <<>> => q \o x = x
    BY <2>1, <2>2, <2>3, Appends
  <2>5. Sent(x) = buf + 1
    BY <1>4, <1>5, SentOne
  <2>6. ~Has(x, "final")
    <3>1. ~\E g \in ToSet(x) : g.kind = "final"
      BY <1>4, <1>5
    <3>2. QED
      BY <3>1, HasIs
  <2>7. Sent(q \o x) = Sent(q) + buf + 1
    BY <1>8, <2>4, <2>5
  <2>8. QED
    BY <1>2, <1>3, <1>5, <2>4, <2>6, <2>7
<1>18. ASSUME conn[c] # "closed"
       PROVE  Story(c)'
  <2>1. replies'[c] = r /\ worker' = "decode" /\ wire'[c] = w /\ conn'[c] = conn[c] /\ cur' = cur
    BY <1>1, <1>3, <1>6, <1>7, <1>9, <1>17, <1>18
  <2>2. Where(c)'
    BY <1>2, <1>6, <1>13, <1>18, <2>1 DEF Where
  <2>3. AtMost(w, 3) /\ AtMost(r, 3)
    BY <1>2, <1>3, <1>4, <1>17 DEF AtMost
  <2>4. r # <<>> /\ (q = <<>> => r[1].kind = "text")
    BY <1>4, <1>5, <1>17
  <2>5. \A g \in ToSet(r) : \/ g.kind = "done"
                            \/ g.kind \in ChunkKinds /\ req[c].kind = "generate" /\ req[c].stream
    BY <1>2, <1>3, <1>4, <1>6, <1>17 DEF Order, ChunkKinds
  <2>6. conn[c] = "first" /\ r[1].kind # "done" => (r[1].kind = "role" <=> Chats(c))
    <3>1. CASE q = <<>>
      <4>1. conn[c] = "first" => ~Chats(c)
        BY <1>1, <1>2, <1>3, <3>1 DEF Order
      <4>2. r[1].kind # "role"
        BY <2>4, <3>1
      <4>3. QED
        BY <4>1, <4>2
    <3>2. CASE q # <<>>
      BY <1>2, <1>3, <1>17, <3>2 DEF Order
    <3>3. QED
      BY <3>1, <3>2
  <2>7. Order(c)'
    BY <1>2, <1>3, <1>6, <1>15, <1>17, <2>1, <2>3, <2>4, <2>5, <2>6 DEF Order
  <2>8. Sent(w) + Sent(r) + cut[c] = made[c] + 1
    <3>1. Sent(w) + Sent(q) + cut[c] + buf = made[c]
      BY <1>1, <1>2, <1>3, <1>6, <1>18 DEF Tokens, Open
    <3>2. Sent(w) \in Nat /\ Sent(q) \in Nat /\ Sent(r) = Sent(q) + buf + 1
      BY <1>17, SentConcat
    <3>3. QED
      BY <1>8, <3>1, <3>2, SMTT(30)
  <2>9. Sent(w) + Sent(r) + cut[c] + 0 = made[c] + 1
    BY <1>8, <2>8
  <2>10. Tokens(c)'
    BY <1>2, <1>3, <1>6, <1>8, <1>17, <2>1, <2>9 DEF Tokens
  <2>11. QED
    BY <2>2, <2>7, <2>10 DEF Story
<1>19. Story(c)'
  BY <1>16, <1>18
<1>20. \A k : c \in Evidence(k)' => c \in Evidence(k)
  <2>1. ASSUME NEW k, Holds(r, "done", k)
        PROVE  Holds(q, "done", k)
    BY <1>4, <1>17, <2>1 DEF Holds
  <2>2. replies'[c] = q \/ replies'[c] = r
    BY <1>3, <1>7, <1>17
  <2>3. \A k : Holds(replies'[c], "done", k) => Holds(replies[c], "done", k)
    BY <1>3, <2>1, <2>2
  <2>4. QED
    BY <1>6, <1>10, <2>3 DEF Evidence
<1>21. c \in Done200' => c \in Done200 \/ o = 1
  <2>1. ~Has(wire'[c], "final") /\ ~Has(replies'[c], "final")
    BY <1>2, <1>3, <1>6, <1>7, <1>17
  <2>2. worker' = "close" => o = 1
    BY <1>1, <1>9
  <2>3. QED
    BY <1>20, <2>1, <2>2 DEF Done200
<1>22. One(c \in Pending') + o + 0 + 0 <= One(c \in Pending) + 0
  <2>1. c \in Pending
    BY <1>1, <1>2 DEF Pending
  <2>2. CASE conn[c] = "closed"
    <3>1. c \notin Pending'
      BY <1>2, <1>6, <1>9, <1>13, <2>2 DEF Pending
    <3>2. QED
      BY <1>9, <2>1, <2>2, <3>1 DEF One
  <2>3. CASE conn[c] # "closed"
    BY <1>9, <2>1, <2>3 DEF One
  <2>4. QED
    BY <2>2, <2>3
<1>23. 0 \in 0..1 /\ worker # "failed"
  BY <1>1
<1>24. QED
  BY <1>9, <1>11, <1>12, <1>14, <1>19, <1>20, <1>21, <1>22, <1>23, StepOn

\* The generation ends, well or not, and is counted; nothing is sent.
LEMMA EndsKeeps ==
  ASSUME ConnAssumption, IInv, worker = "decode", NEW c \in Conn, c = cur,
         NEW o \in 0..1, NEW a \in 0..1, NEW b \in 0..1, o + a + b = 1, Tally(0, o, a, b),
         metrics' \in [Counters -> Nat],
         worker' \in {"close", "reply"}, worker' = "close" => req[c].stream /\ o = 1,
         \/ status' = 200 /\ o = 1
         \/ status' = 400 /\ a = 1
         \/ status' = 500 /\ b = 1,
         UNCHANGED <<handlers, left, jobs, replies, cur, strip, clock, history>>
  PROVE  IInv'
<1>1. Types /\ Shared
  BY DEF IInv
<1>2. /\ Where(c) /\ Order(c) /\ Tokens(c) /\ ~Queued(c)
      /\ conn[c] \in {"first", "stream", "closed"} /\ req[c].kind = "generate"
      /\ ~Has(wire[c], "final") /\ ~Has(replies[c], "final")
      /\ AtMost(wire[c], 3) /\ AtMost(replies[c], 3)
  BY AtWork
<1>3. UNCHANGED <<conn, req, wire, left, jobs, replies, cur, passthrough, buf, overdue, made, cut>>
  BY DEF handlers, strip, clock, history
<1>4. status' \in {0, 200, 400, 503, 500} /\ (worker' = "close" => status' = 200)
  <2>1. ASSUME worker' = "close"
        PROVE  status' = 200
    <3>1. o = 1 /\ a = 0 /\ b = 0
      BY <2>1
    <3>2. QED
      BY <3>1
  <2>2. QED
    BY <2>1
<1>5. Types'
  BY <1>1, <1>3, <1>4 DEF Types
<1>6. Shared'
  BY <1>1, <1>3, <1>4 DEF Shared, Busy
<1>7. \A e : Queued(e)' <=> Queued(e)
  BY <1>3 DEF Queued
<1>8. \A e \in Conn \ {c} : Same(e)
  BY <1>3, <1>7 DEF Same
<1>9. Story(c)'
  <2>1. Where(c)'
    BY <1>2, <1>3, <1>7 DEF Where
  <2>2. (Streamed(c)' <=> Streamed(c)) /\ (Chats(c)' <=> Chats(c))
    BY <1>3 DEF Streamed, Chats
  <2>3. AtMost(wire[c], 5) /\ AtMost(replies[c], 5)
    <3>1. PICK w \in Seq(Frames), q \in Seq(Frames) : w = wire[c] /\ q = replies[c]
      BY <1>1 DEF Types
    <3>2. \A g \in Frames : Rank(g) \in Nat
      BY DEF Rank
    <3>3. ToSet(w) \subseteq Frames /\ ToSet(q) \subseteq Frames
      BY ToSetIs
    <3>4. QED
      BY <1>2, <3>1, <3>2, <3>3 DEF AtMost
  <2>4. Order(c)'
    BY <1>2, <1>3, <2>2, <2>3 DEF Order
  <2>5. Tokens(c)'
    BY <1>2, <1>3 DEF Tokens, Open
  <2>6. QED
    BY <2>1, <2>4, <2>5 DEF Story
<1>10. \A k : c \in Evidence(k)' => c \in Evidence(k) \/ status' \in k
  BY <1>3 DEF Evidence
<1>11. /\ c \in Evidence({200})' => c \in Evidence({200}) \/ o = 1
       /\ c \in Evidence({400})' => c \in Evidence({400}) \/ a = 1
       /\ c \in Evidence({500, 503})' => c \in Evidence({500, 503}) \/ b = 1
  BY <1>10
<1>12. c \in Done200' => c \in Done200 \/ o = 1
  BY <1>2, <1>3, <1>11 DEF Done200
<1>13. One(c \in Pending') + o + a + b <= One(c \in Pending) + 0
  <2>1. c \in Pending
    BY DEF Pending
  <2>2. c \notin Pending'
    BY <1>2, <1>3, <1>7 DEF Pending
  <2>3. QED
    BY <2>1, <2>2 DEF One
<1>14. 0 \in 0..1 /\ worker # "failed"
  OBVIOUS
<1>15. QED
  BY <1>5, <1>6, <1>8, <1>9, <1>11, <1>12, <1>13, <1>14, StepOn

\* generate returns a text, an error, or panics.
LEMMA AnswerEndsKeeps ==
  ASSUME ConnAssumption, IInv, FinishAnswer \/ FailAnswer
  PROVE  IInv'
<1>1. worker = "decode" /\ Types
  BY DEF FinishAnswer, FailAnswer, IInv
<1>2. PICK c \in Conn : c = cur
  BY <1>1, AtWork
<1>3. UNCHANGED <<handlers, left, jobs, replies, cur, strip, clock, history>>
  BY DEF FinishAnswer, FailAnswer
<1>4. 0 \in 0..1 /\ 1 \in 0..1 /\ 1 + 0 + 0 = 1 /\ 0 + 1 + 0 = 1 /\ 0 + 0 + 1 = 1
  OBVIOUS
<1>5. CASE FinishAnswer
  <2>1. Tally(0, 1, 0, 0) /\ metrics' \in [Counters -> Nat]
    <3>1. Count({"ok", "eos"}) \/ Count({"ok", "length"})
      BY <1>5 DEF FinishAnswer, Completed
    <3>2. QED
      BY <1>1, <3>1, TallyIs, CountIs
  <2>2. worker' \in {"close", "reply"} /\ (worker' = "close" => req[c].stream) /\ status' = 200
    BY <1>2, <1>5 DEF FinishAnswer
  <2>3. QED
    BY <1>1, <1>2, <1>3, <1>4, <2>1, <2>2, EndsKeeps
<1>6. CASE FailAnswer
  <2>1. worker' = "reply"
    BY <1>6 DEF FailAnswer
  <2>2. CASE status' = 400 /\ Count({"e4"})
    <3>1. Tally(0, 0, 1, 0) /\ metrics' \in [Counters -> Nat]
      BY <1>1, <2>2, TallyIs, CountIs
    <3>2. QED
      BY <1>1, <1>2, <1>3, <1>4, <2>1, <2>2, <3>1, EndsKeeps
  <2>3. CASE status' = 500 /\ Count({"e5", "panics"})
    <3>1. Tally(0, 0, 0, 1) /\ metrics' \in [Counters -> Nat]
      BY <1>1, <2>3, TallyIs, CountIs
    <3>2. QED
      BY <1>1, <1>2, <1>3, <1>4, <2>1, <2>3, <3>1, EndsKeeps
  <2>4. QED
    BY <1>6, <2>2, <2>3 DEF FailAnswer
<1>7. QED
  BY <1>5, <1>6

\* What ends a stream: the text that was held back, the finish reason, the usage.
LEMMA Closing ==
  ASSUME Types
  PROVE  \E x \in Seq(Frames) :
           /\ x = Flushed \o <<Mark("final")>>
                          \o (IF req[cur].usage THEN <<Mark("usage")>> ELSE <<>>)
           /\ Ordered(x) /\ After(x, 3) /\ x # <<>> /\ Sent(x) = buf
           /\ \A f \in ToSet(x) : f.kind \in {"text", "final", "usage"} /\ Rank(f) <= 5
<1>1. buf \in Nat
  BY DEF Types
<1>2. PICK t \in Frames, f \in Frames, u \in Frames :
        /\ t = Text(buf) /\ t.kind = "text" /\ t.n = buf
        /\ f = Mark("final") /\ f.kind = "final" /\ f.n = 0
        /\ u = Mark("usage") /\ u.kind = "usage" /\ u.n = 0
  <2>1. /\ Text(buf) \in Frames /\ Mark("final") \in Frames /\ Mark("usage") \in Frames
        /\ Text(buf).kind = "text" /\ Mark("final").kind = "final" /\ Mark("usage").kind = "usage"
        /\ Text(buf).n = buf /\ Mark("final").n = 0 /\ Mark("usage").n = 0
    BY <1>1 DEF Text, Mark, Frame, Frames, FrameKinds
  <2>2. QED
    BY <2>1
<1>3. Rank(t) = 3 /\ Rank(f) = 4 /\ Rank(u) = 5
  BY <1>2 DEF Rank
<1>4. Worth(t) = buf /\ Worth(f) = 0 /\ Worth(u) = 0
  BY <1>2 DEF Worth
<1>5. PICK a \in Seq(Frames) :
        /\ a = Flushed /\ Ordered(a) /\ Sent(a) = buf /\ \A g \in ToSet(a) : g = t
  <2>1. CASE buf > 0
    <3>1. <<t>> \in Seq(Frames) /\ ToSet(<<t>>) = {t} /\ Ordered(<<t>>)
      BY ToSetOne
    <3>2. Sent(<<t>>) = buf
      BY <1>4, SentOne
    <3>3. Flushed = <<t>>
      BY <1>2, <2>1 DEF Flushed
    <3>4. QED
      BY <3>1, <3>2, <3>3
  <2>2. CASE ~(buf > 0)
    <3>1. Flushed = <<>> /\ buf = 0
      BY <1>1, <2>2 DEF Flushed
    <3>2. QED
      BY <3>1, Nothing
  <2>3. QED
    BY <2>1, <2>2
<1>6. PICK b \in Seq(Frames) :
        b = <<f>> /\ Ordered(b) /\ Sent(b) = 0 /\ ToSet(b) = {f}
  <2>1. <<f>> \in Seq(Frames) /\ ToSet(<<f>>) = {f} /\ Ordered(<<f>>)
    BY ToSetOne
  <2>2. Sent(<<f>>) = 0
    BY <1>4, SentOne
  <2>3. QED
    BY <2>1, <2>2
<1>7. PICK d \in Seq(Frames) :
        /\ d = (IF req[cur].usage THEN <<Mark("usage")>> ELSE <<>>)
        /\ Ordered(d) /\ Sent(d) = 0 /\ \A g \in ToSet(d) : g = u
  <2>1. <<u>> \in Seq(Frames) /\ ToSet(<<u>>) = {u} /\ Ordered(<<u>>)
    BY ToSetOne
  <2>2. Sent(<<u>>) = 0
    BY <1>4, SentOne
  <2>3. CASE req[cur].usage
    BY <1>2, <2>1, <2>2, <2>3
  <2>4. CASE ~req[cur].usage
    BY <2>4, Nothing
  <2>5. QED
    BY <2>3, <2>4
<1>8. PICK ab \in Seq(Frames) :
        /\ ab = a \o b /\ Ordered(ab) /\ Sent(ab) = buf /\ f \in ToSet(ab)
        /\ \A g \in ToSet(ab) : g = t \/ g = f
  <2>1. a \o b \in Seq(Frames) /\ ToSet(a \o b) = ToSet(a) \cup ToSet(b)
    BY ConcatIs, ToSetConcat
  <2>2. Follows(a, b)
    BY <1>3, <1>5, <1>6 DEF Follows, Before
  <2>3. Ordered(a \o b)
    BY <1>5, <1>6, <2>2, OrderedConcat
  <2>4. Sent(a \o b) = Sent(a) + Sent(b)
    BY SentConcat
  <2>5. Sent(a \o b) = buf
    BY <1>1, <1>5, <1>6, <2>4
  <2>6. f \in ToSet(a \o b) /\ \A g \in ToSet(a \o b) : g = t \/ g = f
    BY <1>5, <1>6, <2>1
  <2>7. QED
    BY <2>1, <2>3, <2>5, <2>6
<1>9. PICK x \in Seq(Frames) :
        /\ x = ab \o d /\ Ordered(x) /\ Sent(x) = buf /\ f \in ToSet(x)
        /\ \A g \in ToSet(x) : g \in {t, f, u}
  <2>1. ab \o d \in Seq(Frames) /\ ToSet(ab \o d) = ToSet(ab) \cup ToSet(d)
    BY ConcatIs, ToSetConcat
  <2>2. Follows(ab, d)
    <3>1. Before(t, u) /\ Before(f, u)
      BY <1>3 DEF Before
    <3>2. QED
      BY <1>7, <1>8, <3>1 DEF Follows
  <2>3. Ordered(ab \o d)
    BY <1>7, <1>8, <2>2, OrderedConcat
  <2>4. Sent(ab \o d) = Sent(ab) + Sent(d)
    BY SentConcat
  <2>5. Sent(ab \o d) = buf
    BY <1>1, <1>7, <1>8, <2>4
  <2>6. f \in ToSet(ab \o d) /\ \A g \in ToSet(ab \o d) : g \in {t, f, u}
    BY <1>7, <1>8, <2>1
  <2>7. QED
    BY <2>1, <2>3, <2>5, <2>6
<1>10. x = Flushed \o <<Mark("final")>> \o (IF req[cur].usage THEN <<Mark("usage")>> ELSE <<>>)
  <2>1. b = <<Mark("final")>>
    BY <1>2, <1>6
  <2>2. QED
    BY <1>5, <1>7, <1>8, <1>9, <2>1, Zenon
<1>11. After(x, 3)
  <2>1. ASSUME NEW g \in Frames, Rank(g) <= 3
        PROVE  g.kind = "text" \/ Rank(g) < 3
    BY <2>1 DEF Rank, Frames, FrameKinds
  <2>2. ASSUME NEW g \in Frames, Rank(g) <= 3
        PROVE  Before(g, t) /\ Before(g, f) /\ Before(g, u)
    <3>1. Rank(g) \in Nat
      BY DEF Rank
    <3>2. QED
      BY <1>2, <1>3, <2>1, <2>2, <3>1 DEF Before
  <2>3. QED
    BY <1>9, <2>2 DEF After
<1>12. x # <<>>
  BY <1>9, Nothing
<1>13. \A g \in ToSet(x) : g.kind \in {"text", "final", "usage"} /\ Rank(g) <= 5
  <2>1. \A g \in {t, f, u} : g.kind \in {"text", "final", "usage"} /\ Rank(g) <= 5
    BY <1>2, <1>3
  <2>2. QED
    BY <1>9, <2>1
<1>14. QED
  BY <1>9, <1>10, <1>11, <1>12, <1>13

\* The stream gets its end, or nobody listens.
LEMMA CloseStreamKeeps ==
  ASSUME ConnAssumption, IInv, CloseStream
  PROVE  IInv'
<1>1. Types /\ Shared /\ worker = "close" /\ status = 200 /\ worker' = "reply"
  BY DEF IInv, Shared, CloseStream
<1>2. PICK c \in Conn :
        /\ c = cur /\ Where(c) /\ Order(c) /\ Tokens(c) /\ ~Queued(c)
        /\ conn[c] \in {"first", "stream", "closed"}
        /\ req[c].kind = "generate" /\ ~Has(wire[c], "final") /\ ~Has(replies[c], "final")
        /\ AtMost(wire[c], 3) /\ AtMost(replies[c], 3)
  BY <1>1, AtWork
<1>3. PICK w \in Seq(Frames), q \in Seq(Frames) : w = wire[c] /\ q = replies[c]
  BY <1>1 DEF Types
<1>4. PICK x \in Seq(Frames) :
        /\ x = Flushed \o <<Mark("final")>>
                       \o (IF req[cur].usage THEN <<Mark("usage")>> ELSE <<>>)
        /\ Ordered(x) /\ After(x, 3) /\ x # <<>> /\ Sent(x) = buf
        /\ \A f \in ToSet(x) : f.kind \in {"text", "final", "usage"} /\ Rank(f) <= 5
  BY <1>1, Closing
<1>5. /\ UNCHANGED <<conn, req, wire, left, jobs, cur, status, overdue, metrics, made, cut>>
      /\ buf' = 0 /\ passthrough' = TRUE /\ Send(c, x) /\ req[c].stream
  <2>1. req[c].stream
    BY <1>1, <1>2 DEF Where
  <2>2. QED
    BY <1>2, <1>4, <2>1 DEF CloseStream, handlers, clock, history
<1>6. /\ replies' \in [Conn -> Seq(Frames)]
      /\ \A e \in Conn \ {c} : replies'[e] = replies[e]
      /\ conn[c] = "closed" => replies'[c] = replies[c]
      /\ conn[c] # "closed" => replies'[c] = replies[c] \o x
  BY <1>1, <1>5, SendIs
<1>7. Types'
  BY <1>1, <1>5, <1>6 DEF Types
<1>8. Shared'
  BY <1>1, <1>5 DEF Shared, Busy
<1>9. \A e : Queued(e)' <=> Queued(e)
  BY <1>5 DEF Queued
<1>10. \A e \in Conn \ {c} : Same(e)
  BY <1>1, <1>2, <1>5, <1>6, <1>9 DEF Same
<1>11. (Streamed(c)' <=> Streamed(c)) /\ (Chats(c)' <=> Chats(c))
  BY <1>5 DEF Streamed, Chats
<1>12. \A s \in Seq(Frames) : AtMost(s, 3) => AtMost(s, 5)
  <2>1. TAKE s \in Seq(Frames)
  <2>2. ToSet(s) \subseteq Frames
    BY ToSetIs
  <2>3. \A g \in Frames : Rank(g) \in Nat
    BY DEF Rank
  <2>4. QED
    BY <2>2, <2>3 DEF AtMost
<1>13. ASSUME conn[c] = "closed"
       PROVE  Story(c)'
  <2>1. replies'[c] = q /\ wire'[c] = w
    BY <1>3, <1>5, <1>6, <1>13
  <2>2. Where(c)'
    BY <1>1, <1>2, <1>3, <1>5, <1>9, <1>13, <2>1 DEF Where
  <2>3. AtMost(w, 5) /\ AtMost(q, 5)
    BY <1>2, <1>3, <1>12
  <2>4. Order(c)'
    BY <1>1, <1>2, <1>3, <1>5, <1>11, <1>13, <2>1, <2>3 DEF Order
  <2>5. Tokens(c)'
    BY <1>1, <1>2, <1>3, <1>5, <1>13, <2>1 DEF Tokens, Open
  <2>6. QED
    BY <2>2, <2>4, <2>5 DEF Story
<1>14. PICK r \in Seq(Frames) :
         /\ r = q \o x /\ Ordered(r) /\ Follows(w, r) /\ ToSet(r) = ToSet(q) \cup ToSet(x)
         /\ Sent(r) = Sent(q) + buf /\ Sent(q) \in Nat
         /\ q # <<>> => r # <<>> /\ r[1] = q[1]
         /\ q = <<>> => r = x
  <2>1. AtMost(w, 3) /\ AtMost(q, 3) /\ Ordered(q) /\ Follows(w, q)
    BY <1>2, <1>3 DEF Order
  <2>2. Ordered(x) /\ After(x, 3) /\ 3 \in Nat
    BY <1>4
  <2>3. /\ q \o x \in Seq(Frames) /\ Ordered(q \o x) /\ Follows(w, q \o x)
        /\ ToSet(q \o x) = ToSet(q) \cup ToSet(x)
        /\ Sent(q \o x) = Sent(q) + Sent(x) /\ Sent(q) \in Nat /\ Sent(x) \in Nat
        /\ q # <<>> => q \o x # <<>> /\ (q \o x)[1] = q[1]
        /\ q = <<>> => q \o x = x
    BY <2>1, <2>2, Appends
  <2>4. Sent(q \o x) = Sent(q) + buf
    BY <1>4, <2>3
  <2>5. QED
    BY <2>3, <2>4
<1>15. ASSUME conn[c] # "closed"
       PROVE  Story(c)'
  <2>1. replies'[c] = r /\ wire'[c] = w /\ conn'[c] = conn[c] /\ cur' = cur /\ worker' = "reply"
    BY <1>1, <1>3, <1>5, <1>6, <1>14, <1>15
  <2>2. Where(c)'
    BY <1>2, <1>5, <1>9, <1>15, <2>1 DEF Where
  <2>3. AtMost(w, 5) /\ AtMost(r, 5)
    <3>1. AtMost(w, 5) /\ AtMost(q, 5)
      BY <1>2, <1>3, <1>12
    <3>2. QED
      BY <1>4, <1>14, <3>1 DEF AtMost
  <2>4. r # <<>> /\ (q = <<>> => r[1].kind # "role")
    <3>1. CASE q = <<>>
      <4>1. r = x /\ x[1] \in ToSet(x)
        <5>1. PICK f \in Frames : f = x[1] /\ f \in ToSet(x)
          BY <1>4, TakesHead
        <5>2. QED
          BY <1>14, <3>1, <5>1
      <4>2. QED
        BY <1>4, <3>1, <4>1
    <3>2. CASE q # <<>>
      BY <1>14, <3>2
    <3>3. QED
      BY <3>1, <3>2
  <2>5. \A g \in ToSet(r) : \/ g.kind = "done"
                            \/ g.kind \in ChunkKinds /\ req[c].kind = "generate" /\ req[c].stream
    BY <1>2, <1>3, <1>4, <1>5, <1>14 DEF Order, ChunkKinds
  <2>6. conn[c] = "first" /\ r[1].kind # "done" => (r[1].kind = "role" <=> Chats(c))
    <3>1. CASE q = <<>>
      <4>1. conn[c] = "first" => ~Chats(c)
        BY <1>1, <1>2, <1>3, <3>1 DEF Order
      <4>2. QED
        BY <2>4, <3>1, <4>1
    <3>2. CASE q # <<>>
      BY <1>2, <1>3, <1>14, <3>2 DEF Order
    <3>3. QED
      BY <3>1, <3>2
  <2>7. Order(c)'
    BY <1>2, <1>3, <1>5, <1>11, <1>14, <2>1, <2>3, <2>5, <2>6 DEF Order
  <2>8. ~req[c].spec => Sent(w) + Sent(r) + cut[c] = made[c]
    <3>1. ~req[c].spec => Sent(w) + Sent(q) + cut[c] + buf = made[c]
      BY <1>1, <1>2, <1>3, <1>5, <1>15 DEF Tokens, Open
    <3>2. Sent(w) \in Nat /\ Sent(q) \in Nat /\ Sent(r) = Sent(q) + buf
      BY <1>14, SentConcat
    <3>3. buf \in Nat /\ cut[c] \in Nat /\ made[c] \in Nat
      BY <1>1 DEF Types
    <3>4. QED
      BY <3>1, <3>2, <3>3
  <2>9. Tokens(c)'
    BY <1>2, <1>3, <1>5, <2>1, <2>8 DEF Tokens
  <2>10. QED
    BY <2>2, <2>7, <2>9 DEF Story
<1>16. Story(c)'
  BY <1>13, <1>15
<1>17. \A k : c \in Evidence(k)' => c \in Evidence(k) \/ 200 \in k
  <2>1. ASSUME NEW k, Holds(r, "done", k)
        PROVE  Holds(q, "done", k)
    BY <1>4, <1>14, <2>1 DEF Holds
  <2>2. replies'[c] = q \/ replies'[c] = r
    BY <1>3, <1>6, <1>14
  <2>3. \A k : Holds(replies'[c], "done", k) => Holds(replies[c], "done", k)
    BY <1>3, <2>1, <2>2
  <2>4. QED
    BY <1>1, <1>5, <2>3 DEF Evidence
<1>18. /\ c \in Evidence({400})' => c \in Evidence({400})
       /\ c \in Evidence({500, 503})' => c \in Evidence({500, 503})
  BY <1>17
<1>19. c \in Done200
  BY <1>1, <1>2 DEF Done200
<1>20. c \notin Pending'
  BY <1>1, <1>2, <1>5, <1>9 DEF Pending
<1>21. One(c \in Pending') + 0 + 0 + 0 <= One(c \in Pending) + 0
  BY <1>20 DEF One
<1>22. 0 \in 0..1 /\ worker # "failed" /\ Tally(0, 0, 0, 0)
  BY <1>1, <1>5, TallyIs
<1>23. QED
  BY <1>7, <1>8, <1>10, <1>16, <1>18, <1>19, <1>21, <1>22, StepOn

\* The Done closes the answer; the locals of the job end with it.
LEMMA ReplyKeeps ==
  ASSUME ConnAssumption, IInv, Reply
  PROVE  IInv'
<1>1. Types /\ Shared /\ worker = "reply" /\ worker' = "idle" /\ cur' = NoConn
  BY DEF IInv, Reply
<1>2. PICK c \in Conn :
        /\ c = cur /\ Where(c) /\ Order(c) /\ Tokens(c) /\ ~Queued(c)
        /\ conn[c] \in {"first", "stream", "closed"}
  BY <1>1, AtWork
<1>3. PICK w \in Seq(Frames), q \in Seq(Frames) : w = wire[c] /\ q = replies[c]
  BY <1>1 DEF Types
<1>4. PICK f \in Frames : f = Frame("done", status) /\ f.kind = "done" /\ f.n = status
  <2>1. status \in Nat
    BY <1>1 DEF Types
  <2>2. Frame("done", status) \in Frames
    BY <2>1 DEF Frame, Frames, FrameKinds
  <2>3. Frame("done", status).kind = "done" /\ Frame("done", status).n = status
    BY DEF Frame
  <2>4. QED
    BY <2>2, <2>3
<1>5. Rank(f) = 6 /\ Worth(f) = 0
  BY <1>4 DEF Rank, Worth
<1>6. PICK x \in Seq(Frames) : x = <<f>> /\ ToSet(x) = {f} /\ Ordered(x) /\ x # <<>> /\ x[1] = f
  <2>1. <<f>> \in Seq(Frames) /\ ToSet(<<f>>) = {f} /\ Ordered(<<f>>)
    BY ToSetOne
  <2>2. <<f>> # <<>> /\ <<f>>[1] = f
    OBVIOUS
  <2>3. QED
    BY <2>1, <2>2, Zenon
<1>7. /\ UNCHANGED <<conn, req, wire, left, jobs, metrics, made, cut>>
      /\ status' = 0 /\ passthrough' = FALSE /\ buf' = 0 /\ overdue' = FALSE /\ Send(c, x)
  BY <1>2, <1>4, <1>6 DEF Reply, handlers, history
<1>8. /\ replies' \in [Conn -> Seq(Frames)]
      /\ \A e \in Conn \ {c} : replies'[e] = replies[e]
      /\ conn[c] = "closed" => replies'[c] = replies[c]
      /\ conn[c] # "closed" => replies'[c] = replies[c] \o x
  BY <1>1, <1>7, SendIs
<1>9. Types'
  BY <1>1, <1>7, <1>8 DEF Types
<1>10. Shared'
  BY <1>1, <1>7 DEF Shared, Busy, ConnAssumption
<1>11. \A e : Queued(e)' <=> Queued(e)
  BY <1>7 DEF Queued
<1>12. c # cur' /\ \A e \in Conn \ {c} : e # cur /\ e # cur'
  BY <1>1, <1>2 DEF ConnAssumption
<1>13. \A e \in Conn \ {c} : Same(e)
  BY <1>1, <1>7, <1>8, <1>11, <1>12 DEF Same
<1>14. (Streamed(c)' <=> Streamed(c)) /\ (Chats(c)' <=> Chats(c))
  BY <1>7 DEF Streamed, Chats
<1>15. ASSUME conn[c] = "closed"
       PROVE  Story(c)'
  <2>1. replies'[c] = q /\ wire'[c] = w
    BY <1>3, <1>7, <1>8, <1>15
  <2>2. Where(c)'
    BY <1>1, <1>2, <1>3, <1>7, <1>11, <1>12, <1>15, <2>1 DEF Where
  <2>3. Order(c)'
    BY <1>1, <1>2, <1>3, <1>7, <1>12, <1>14, <1>15, <2>1 DEF Order
  <2>4. Tokens(c)'
    BY <1>1, <1>2, <1>3, <1>7, <1>12, <1>15, <2>1 DEF Tokens, Open
  <2>5. QED
    BY <2>2, <2>3, <2>4 DEF Story
<1>16. PICK r \in Seq(Frames) :
         /\ r = q \o x /\ Ordered(r) /\ Follows(w, r) /\ ToSet(r) = ToSet(q) \cup {f}
         /\ Sent(r) = Sent(q) /\ Sent(q) \in Nat
         /\ Has(r, "final") <=> Has(q, "final")
         /\ q # <<>> => r # <<>> /\ r[1] = q[1]
         /\ q = <<>> => r = x
  <2>1. AtMost(w, 5) /\ AtMost(q, 5) /\ Ordered(q) /\ Follows(w, q)
    BY <1>1, <1>2, <1>3 DEF Order
  <2>2. After(x, 5)
    <3>1. ASSUME NEW g \in Frames, Rank(g) <= 5
          PROVE  Before(g, f)
      <4>1. Rank(g) \in Nat
        BY DEF Rank
      <4>2. QED
        BY <1>5, <3>1, <4>1 DEF Before
    <3>2. QED
      BY <1>6, <3>1 DEF After
  <2>3. Ordered(x) /\ 5 \in Nat
    BY <1>6
  <2>4. /\ q \o x \in Seq(Frames) /\ Ordered(q \o x) /\ Follows(w, q \o x)
        /\ ToSet(q \o x) = ToSet(q) \cup ToSet(x)
        /\ Sent(q \o x) = Sent(q) + Sent(x) /\ Sent(q) \in Nat /\ Sent(x) \in Nat
        /\ \A k : Has(q \o x, k) <=> Has(q, k) \/ Has(x, k)
        /\ q # <<>> => q \o x # <<>> /\ (q \o x)[1] = q[1]
        /\ q = <<>> => q \o x = x
    BY <2>1, <2>2, <2>3, Appends
  <2>5. Sent(x) = 0
    BY <1>5, <1>6, SentOne
  <2>6. ~Has(x, "final")
    <3>1. ~\E g \in ToSet(x) : g.kind = "final"
      BY <1>4, <1>6
    <3>2. QED
      BY <3>1, HasIs
  <2>7. Sent(q \o x) = Sent(q)
    BY <2>4, <2>5
  <2>8. QED
    BY <1>6, <2>4, <2>6, <2>7
<1>17. ASSUME conn[c] # "closed"
       PROVE  Story(c)'
  <2>1. replies'[c] = r /\ wire'[c] = w /\ conn'[c] = conn[c]
    BY <1>3, <1>7, <1>8, <1>16, <1>17
  <2>2. Where(c)'
    BY <1>1, <1>2, <1>7, <1>11, <1>12, <1>17, <2>1 DEF Where
  <2>3. \A g \in ToSet(r) : \/ g.kind = "done"
                            \/ g.kind \in ChunkKinds /\ req[c].kind = "generate" /\ req[c].stream
    BY <1>2, <1>3, <1>4, <1>16 DEF Order
  <2>4. conn[c] = "first" /\ r[1].kind # "done" => (r[1].kind = "role" <=> Chats(c))
    <3>1. CASE q = <<>>
      BY <1>4, <1>6, <1>16, <3>1
    <3>2. CASE q # <<>>
      BY <1>2, <1>3, <1>16, <3>2 DEF Order
    <3>3. QED
      BY <3>1, <3>2
  <2>5. Order(c)'
    BY <1>2, <1>3, <1>7, <1>12, <1>14, <1>16, <2>1, <2>3, <2>4 DEF Order
  <2>6. Tokens(c)'
    <3>1. ~req[c].spec /\ Open(c) /\ (Has(w, "final") \/ Has(q, "final")) =>
            Sent(w) + Sent(q) + cut[c] = made[c]
      BY <1>2, <1>3 DEF Tokens
    <3>2. ~req[c].spec /\ Has(w, "final") => Sent(w) + cut[c] = made[c]
      BY <1>2, <1>3 DEF Tokens
    <3>3. Open(c)' <=> Open(c)
      BY <1>7 DEF Open
    <3>4. QED
      BY <1>7, <1>12, <1>16, <2>1, <3>1, <3>2, <3>3 DEF Tokens
  <2>7. QED
    BY <2>2, <2>5, <2>6 DEF Story
<1>18. Story(c)'
  BY <1>15, <1>17
<1>19. \A k : c \in Evidence(k)' => c \in Evidence(k)
  <2>1. ASSUME NEW k, Holds(r, "done", k)
        PROVE  Holds(q, "done", k) \/ status \in k
    BY <1>4, <1>16, <2>1 DEF Holds
  <2>2. replies'[c] = q \/ replies'[c] = r
    BY <1>3, <1>8, <1>16
  <2>3. \A k : Holds(replies'[c], "done", k) => Holds(replies[c], "done", k) \/ status \in k
    BY <1>3, <2>1, <2>2
  <2>4. QED
    BY <1>1, <1>2, <1>7, <1>12, <2>3 DEF Evidence
<1>20. c \in Done200' => c \in Done200
  <2>1. Has(replies'[c], "final") => Has(replies[c], "final")
    BY <1>3, <1>8, <1>16
  <2>2. QED
    BY <1>1, <1>7, <1>19, <2>1 DEF Done200
<1>21. c \notin Pending'
  BY <1>1, <1>2, <1>7, <1>11 DEF Pending
<1>22. One(c \in Pending') + 0 + 0 + 0 <= One(c \in Pending) + 0
  BY <1>21 DEF One
<1>23. 0 \in 0..1 /\ worker # "failed" /\ Tally(0, 0, 0, 0)
  BY <1>1, <1>7, TallyIs
<1>24. QED
  BY <1>9, <1>10, <1>13, <1>18, <1>19, <1>20, <1>22, <1>23, StepOn

-----------------------------------------------------------------------------
(* The theorems                                                             *)

\* A step of the system.
LEMMA StepKeeps ==
  ASSUME ConnAssumption, RequestsAssumption, IInv, [Next]_vars
  PROVE  IInv'
<1>1. ASSUME NEW c \in Conn, Accept(c) \/ ClientLeaves(c) \/ HandlerStep(c)
      PROVE  IInv'
  <2>1. CASE Accept(c)
    BY <2>1, AcceptKeeps
  <2>2. CASE ClientLeaves(c)
    BY <2>2, ClientLeavesKeeps
  <2>3. CASE ReadFails(c) \/ AnswerGet(c) \/ SubmitFails(c) \/ Dropped(c)
    BY <2>3, AnswerKeeps
  <2>4. CASE Submit(c)
    BY <2>4, SubmitKeeps
  <2>5. CASE ForwardChunk(c)
    BY <2>5, ForwardChunkKeeps
  <2>6. CASE ForwardDone(c)
    BY <2>6, ForwardDoneKeeps
  <2>7. QED
    BY <1>1, <2>1, <2>2, <2>3, <2>4, <2>5, <2>6 DEF HandlerStep
<1>2. CASE WorkerStep
  <2>1. CASE LoadModels
    BY <2>1, LoadModelsKeeps
  <2>2. CASE LoadPanics
    BY <2>2, LoadPanicsKeeps
  <2>3. CASE Drain
    BY <2>3, DrainKeeps
  <2>4. CASE TakeRejected
    BY <2>4, TakeRejectedKeeps
  <2>5. CASE TakeGenerate
    BY <2>5, TakeGenerateKeeps
  <2>6. CASE DecodeQuietly \/ HoldBack \/ EndPreamble
    BY <2>6, DecodingKeeps
  <2>7. CASE EmitText
    BY <2>7, EmitTextKeeps
  <2>8. CASE FinishAnswer \/ FailAnswer
    BY <2>8, AnswerEndsKeeps
  <2>9. CASE CloseStream
    BY <2>9, CloseStreamKeeps
  <2>10. CASE Reply
    BY <2>10, ReplyKeeps
  <2>11. QED
    BY <1>2, <2>1, <2>2, <2>3, <2>4, <2>5, <2>6, <2>7, <2>8, <2>9, <2>10 DEF WorkerStep
<1>3. CASE TimeIsUp
  BY <1>3, TimeIsUpKeeps
<1>4. CASE ProcessExits
  BY <1>4, ProcessExitsKeeps
<1>5. CASE UNCHANGED vars
  <2>1. UNCHANGED <<conn, left, req, jobs, replies, wire, worker, cur, status, passthrough, buf,
                    overdue, metrics, made, cut>>
    BY <1>5 DEF vars, handlers, strip, clock, history
  <2>2. Types'
    BY <2>1 DEF IInv, Types
  <2>3. Shared'
    BY <2>1 DEF IInv, Shared, Busy
  <2>4. \A d \in Conn : Same(d)
    BY <2>1 DEF Same, Queued
  <2>5. UNCHANGED metrics /\ worker' = worker
    BY <2>1
  <2>6. QED
    BY <2>2, <2>3, <2>4, <2>5, StepAside
<1>6. QED
  BY <1>1, <1>2, <1>3, <1>4, <1>5 DEF Next, AllClosed

\* The conjunction of the parts holds in every reachable state.
LEMMA Invariance == Spec => []IInv
<1>1. Init => IInv
  BY InitHolds, ConnAssumption
<1>2. IInv /\ [Next]_vars => IInv'
  BY StepKeeps, ConnAssumption, RequestsAssumption
<1>3. QED
  BY <1>1, <1>2, PTL DEF Spec

\* Every variable of the server keeps its type, the worker holds a job exactly
\* while it works on one, and a closed connection leaves nothing in its reply
\* channel: what is sent to it later is dropped, not kept (mpsc send after the
\* receiver is gone).
THEOREM TypeCorrect == Spec => []TypeOK
<1>1. IInv => TypeOK
  <2>1. SUFFICES ASSUME IInv PROVE TypeOK
    OBVIOUS
  <2>2. Types /\ Shared
    BY <2>1 DEF IInv
  <2>3. \A c \in Conn : conn[c] = "closed" => replies[c] = <<>>
    BY <2>1 DEF IInv, Stories, Story, Where
  <2>4. worker \in {"decode", "close", "reply"} <=> cur \in Conn
    BY <2>2 DEF Shared, Busy
  <2>5. QED
    BY <2>2, <2>3, <2>4 DEF Types, TypeOK
<1>2. QED
  BY <1>1, Invariance, PTL

\* No connection is sent two answers, and the frames of a stream come in their
\* order, whatever the interleaving of the worker with the connection's thread
\* and wherever the generation fails.
THEOREM OneAnswerCorrect == Spec => []OneAnswer
<1>1. IInv => OneAnswer
  <2> DEFINE order == <<"header", "role", "text", "final", "usage", "[DONE]">>
             Place(f) == CHOOSE i \in DOMAIN order : order[i] = f.kind
             Good(c) == LET w == wire[c] IN
               \/ w = <<>>
               \/ Len(w) = 1 /\ w[1].kind \in {"reply", "get"}
               \/ /\ req[c].stream /\ w[1].kind = "header"
                  /\ \A i \in DOMAIN w : w[i].kind \in ToSet(order)
                  /\ \A i, j \in DOMAIN w :
                       i < j => \/ Place(w[i]) < Place(w[j])
                                \/ w[i].kind = "text" /\ w[j].kind = "text"
                  /\ Len(w) > 1 => (w[2].kind = "role" <=> req[c].chat)
  <2>1. SUFFICES ASSUME IInv, NEW c \in Conn PROVE Good(c)
    BY Zenon DEF OneAnswer
  <2>2. Order(c) /\ Types
    BY <2>1 DEF IInv, Stories, Story
  <2>3. PICK w \in Seq(Frames) : w = wire[c]
    BY <2>2 DEF Types
  <2>4. CASE Silent(w)
    BY <2>3, <2>4 DEF Silent
  <2>5. CASE Plain(w)
    BY <2>3, <2>5 DEF Plain
  <2>6. CASE Streamed(c)
    <3>1. DOMAIN order = 1..6 /\ \A i \in 1..6 : \A j \in 1..6 : order[i] = order[j] => i = j
      OBVIOUS
    <3>2. ToSet(order) = {"header", "role", "text", "final", "usage", "[DONE]"}
      BY <3>1 DEF ToSet
    <3>3. ASSUME NEW f, f.kind \in ToSet(order)
          PROVE  Place(f) = Rank(f)
      <4>1. \E i \in DOMAIN order : order[i] = f.kind
        BY <3>1, <3>2, <3>3
      <4>2. Place(f) \in 1..6 /\ order[Place(f)] = f.kind
        BY <3>1, <4>1
      <4>3. Rank(f) \in 1..6 /\ order[Rank(f)] = f.kind
        BY <3>2, <3>3 DEF Rank
      <4>4. QED
        BY <3>1, <4>2, <4>3
    <3>4. /\ Len(w) >= 2 /\ w[1].kind = "header" /\ req[c].stream
          /\ w[2].kind = "role" <=> Chats(c)
          /\ req[c].kind = "generate"
          /\ \A f \in ToSet(w) : f.kind \in ChunkKinds \cup {"header", "[DONE]"}
      BY <2>3, <2>6 DEF Streamed
    <3>5. w[2].kind = "role" <=> req[c].chat
      BY <3>4 DEF Chats
    <3>6. \A i \in DOMAIN w : w[i].kind \in ToSet(order)
      <4>1. \A i \in DOMAIN w : w[i] \in ToSet(w)
        BY ToSetIs
      <4>2. QED
        BY <3>2, <3>4, <4>1 DEF ChunkKinds
    <3>7. ASSUME NEW i \in DOMAIN w, NEW j \in DOMAIN w, i < j
          PROVE  \/ Place(w[i]) < Place(w[j])
                 \/ w[i].kind = "text" /\ w[j].kind = "text"
      <4>1. Before(w[i], w[j])
        BY <2>2, <2>3, <3>7 DEF Order, Ordered
      <4>2. Place(w[i]) = Rank(w[i]) /\ Place(w[j]) = Rank(w[j])
        BY <3>3, <3>6
      <4>3. QED
        BY <4>1, <4>2 DEF Before
    <3>8. QED
      BY <2>3, <3>4, <3>5, <3>6, <3>7
  <2>7. QED
    BY <2>2, <2>3, <2>4, <2>5, <2>6 DEF Order
<1>2. QED
  BY <1>1, Invariance, PTL

\* When a stream of the plain loop names its finish reason, every token that was
\* generated has been written or belongs to the thinking preamble
\* (ThinkingStripStream holds back, drops and flushes).
THEOREM StreamCorrect == Spec => []StreamComplete
<1>1. IInv => StreamComplete
  BY DEF IInv, Stories, Story, Tokens, StreamComplete
<1>2. QED
  BY <1>1, Invariance, PTL

\* Every request is counted at most once, in one of ok, 4xx and 5xx, and whoever
\* holds an answer of the worker finds it counted: the worker counts before it
\* sends, and sends one Done for a job.
THEOREM CountedCorrect == Spec => []CountedBeforeSeen
<1>1. ConnAssumption /\ IInv => CountedBeforeSeen
  <2>1. SUFFICES ASSUME ConnAssumption, IInv PROVE CountedBeforeSeen
    OBVIOUS
  <2>2. Types /\ Counted
    BY <2>1 DEF IInv
  <2> DEFINE A == {c \in Conn : /\ wire[c] # <<>>
                                /\ wire[c][1] = Frame("reply", 200) \/ Has(wire[c], "final")}
             B == {c \in Conn : wire[c] # <<>> /\ wire[c][1] = Frame("reply", 400)}
             D == {c \in Conn : /\ wire[c] # <<>>
                                /\ wire[c][1] \in {Frame("reply", 500), Frame("reply", 503)}}
  <2>3. \A n : Frame("reply", n).kind = "reply" /\ Frame("reply", n).n = n
    BY DEF Frame
  <2>4. A \subseteq Done200 /\ B \subseteq Evidence({400}) /\ D \subseteq Evidence({500, 503})
    <3>1. A \subseteq Done200
      BY <2>3 DEF Done200, Evidence
    <3>2. B \subseteq Evidence({400})
      BY <2>3 DEF Evidence
    <3>3. D \subseteq Evidence({500, 503})
      BY <2>3 DEF Evidence
    <3>4. QED
      BY <3>1, <3>2, <3>3
  <2>5. /\ Seen(LAMBDA w : w[1] = Frame("reply", 200) \/ Has(w, "final")) = Cardinality(A)
        /\ Seen(LAMBDA w : w[1] = Frame("reply", 400)) = Cardinality(B)
        /\ Seen(LAMBDA w : w[1] \in {Frame("reply", 500), Frame("reply", 503)}) = Cardinality(D)
    BY Zenon DEF Seen
  <2> HIDE DEF A, B, D
  <2>6. /\ Pending \in SUBSET Conn /\ Done200 \in SUBSET Conn
        /\ \A k : Evidence(k) \in SUBSET Conn
    BY DEF Pending, Done200, Evidence
  <2>7. /\ Cardinality(A) \in Nat /\ Cardinality(Done200) \in Nat
        /\ Cardinality(A) <= Cardinality(Done200)
    BY <2>1, <2>4, <2>6, CardSubset
  <2>8. /\ Cardinality(B) \in Nat /\ Cardinality(Evidence({400})) \in Nat
        /\ Cardinality(B) <= Cardinality(Evidence({400}))
    BY <2>1, <2>4, <2>6, CardSubset
  <2>9. /\ Cardinality(D) \in Nat /\ Cardinality(Evidence({500, 503})) \in Nat
        /\ Cardinality(D) <= Cardinality(Evidence({500, 503}))
    BY <2>1, <2>4, <2>6, CardSubset
  <2>10. Cardinality(Pending) \in Nat
    <3>1. Pending \in SUBSET Pending
      OBVIOUS
    <3>2. QED
      BY <2>1, <2>6, <3>1, CardSubset
  <2>11. \A m \in Counters : metrics[m] \in Nat
    BY <2>2 DEF Types
  <2>12. /\ metrics["total"] \in Nat /\ metrics["ok"] \in Nat /\ metrics["e4"] \in Nat
         /\ metrics["e5"] \in Nat
    BY <2>11 DEF Counters
  <2>13. /\ metrics["ok"] + metrics["e4"] + metrics["e5"] + Cardinality(Pending) <= metrics["total"]
         /\ metrics["ok"] = metrics["eos"] + metrics["length"] /\ metrics["panics"] <= metrics["e5"]
         /\ metrics["ok"] >= Cardinality(Done200)
         /\ metrics["e4"] >= Cardinality(Evidence({400}))
         /\ worker # "failed" => metrics["e5"] >= Cardinality(Evidence({500, 503}))
    BY <2>2 DEF Counted
  <2>14. metrics["ok"] + metrics["e4"] + metrics["e5"] <= metrics["total"]
    BY <2>10, <2>12, <2>13
  <2>15. metrics["ok"] >= Cardinality(A) /\ metrics["e4"] >= Cardinality(B)
    BY <2>7, <2>8, <2>12, <2>13
  <2>16. worker # "failed" => metrics["e5"] >= Cardinality(D)
    BY <2>9, <2>12, <2>13
  <2>17. QED
    BY <2>5, <2>13, <2>14, <2>15, <2>16, Zenon DEF CountedBeforeSeen
<1>2. QED
  BY <1>1, ConnAssumption, Invariance, PTL
=============================================================================
