-------------------------- MODULE GemmaServeProofs ---------------------------
(***************************************************************************)
(* Proofs about the Gemma branch of the serve worker, for every set of     *)
(* prompts, limits, cache size and draft length, and any number of         *)
(* requests one after another, aborted, abandoned or answered.             *)
(***************************************************************************)
EXTENDS GemmaServe, SequenceTheorems, WellFoundedInduction, TLAPS

-----------------------------------------------------------------------------
(* The inductive invariant                                                  *)

Snap == [tokens : Prompts, rows : Seq(Rows)]

\* The plain types of the variables.
Types ==
  /\ kv \in [1..MaxSeq -> Rows] /\ pos \in 0..MaxSeq /\ inflight \in 0..MaxSeq
  /\ logits \in Seq(Rows)
  /\ slots \in Seq(Snap) /\ Len(slots) <= CacheSlots /\ recency \in Seq(Prompts)
  /\ warm_p \subseteq 1..MaxSeq /\ prefill_graphs \subseteq 1..MaxSeq
  /\ verify_graphs \in [1..MaxK -> 0..MaxSeq] /\ decode_graph \in BOOLEAN
  /\ req \in Request /\ restored \in BOOLEAN /\ generated \in Nat
  /\ pc \in {"idle", "lookup", "prefill", "snapshot", "decode", "deliver", "rounds"}

\* What the request has come to at each place: its rows fit, and the position
\* is not behind what a cold request would have, nor past it.
Places ==
  /\ pc \in {"idle", "lookup"} => ~restored
  /\ pc \in {"idle", "lookup", "prefill", "snapshot"} => generated = 0
  /\ pc # "idle" => Admitted(req) /\ generated <= req.max_tokens
  /\ pc \in {"snapshot", "decode", "deliver"} => ~req.spec
  /\ pc = "rounds" => req.spec
  /\ pc = "prefill" /\ restored => pos < Len(req.prompt)
  /\ pc \in {"snapshot", "decode"} => inflight = 0 /\ pos <= Len(req.prompt) + generated
  /\ pc = "rounds" => inflight = 0 /\ pos = Len(req.prompt) + generated
  /\ pc = "deliver" /\ decode_graph =>
       /\ inflight \in {0, pos} /\ pos >= 1 /\ pos <= Len(req.prompt) + generated
  /\ pc = "deliver" /\ ~decode_graph =>
       /\ inflight = 0 /\ pos + 1 <= Len(req.prompt) + generated

\* The first n rows of `cache` are the prompt p and g tokens of output.
Stands(cache, n, p, g) ==
  /\ n = Len(p) + g
  /\ \A i \in 1..Len(p) : cache[i] = p[i]
  /\ \A i \in Len(p) + 1..n : cache[i] = Answer

\* They are those of the request.
Standing(cache, n) == Stands(cache, n, req.prompt, generated)

\* The rows and the position once the decode step has run.
Stepped == IF decode_graph THEN Drained ELSE ForwardAfter(kv, pos, Answer)
SteppedPos == IF decode_graph THEN pos ELSE pos + 1

Exact ==
  /\ Answering /\ (req.spec \/ ~restored) => Standing(kv, pos) /\ logits = Committed
  /\ pc = "deliver" /\ ~restored => Standing(Stepped, SteppedPos)

Distinct(s) == \A i, j \in 1..Len(s) : s[i] = s[j] => i = j

\* The history names every prompt once; the slots are its latest ones.
Latest == Distinct(recency) /\ LruExact

IInv == Types /\ Places /\ Exact /\ Latest
-----------------------------------------------------------------------------
(* Lemmas about sequences                                                   *)

\* A set of natural numbers that is not empty has a least element.
LEMMA LeastElement ==
  ASSUME NEW S, S \subseteq Nat, S # {}
  PROVE  \E m \in S : \A n \in S : m <= n
<1>1. \E m \in S : \A n \in S : <<n, m>> \notin OpToRel(<, Nat)
  BY NatLessThanWellFounded, WFMin
<1>2. PICK m \in S : \A n \in S : <<n, m>> \notin OpToRel(<, Nat)
  BY <1>1
<1>3. ASSUME NEW n \in S, n < m
      PROVE  <<n, m>> \in OpToRel(<, Nat)
  <2>1. n \in Nat /\ m \in Nat
    OBVIOUS
  <2>2. QED
    BY <1>3, <2>1, Zenon DEF OpToRel
<1>4. ASSUME NEW n \in S
      PROVE  m <= n
  <2>1. n \in Nat /\ m \in Nat
    OBVIOUS
  <2>2. ~(n < m)
    BY <1>2, <1>3
  <2>3. QED
    BY <2>1, <2>2
<1>5. QED
  BY <1>4

\* The first of some places is one of them.
LEMMA FirstIs ==
  ASSUME NEW I, I \subseteq Nat, I # {}
  PROVE  First(I) \in I
<1>1. \E i \in I : \A j \in I : i <= j
  BY LeastElement
<1>2. QED
  BY <1>1 DEF First

\* What is left of a sequence when a place is removed from it.
Removed(s, i, r) ==
  /\ Len(r) = Len(s) - 1
  /\ \A j \in 1..Len(s) - 1 : r[j] = IF j < i THEN s[j] ELSE s[j + 1]

\* RemoveAt removes the place.
LEMMA RemoveAtIs ==
  ASSUME NEW S, NEW s \in Seq(S), NEW i \in 1..Len(s)
  PROVE  RemoveAt(s, i) \in Seq(S) /\ Removed(s, i, RemoveAt(s, i))
<1> DEFINE a == SubSeq(s, 1, i - 1)
           b == SubSeq(s, i + 1, Len(s))
<1>1. PICK n \in Nat : n = Len(s)
  OBVIOUS
<1>2. a \in Seq(S) /\ Len(a) = i - 1 /\ \A j \in 1..i - 1 : a[j] = s[j]
  BY <1>1
<1>3. b \in Seq(S) /\ Len(b) = n - i /\ \A j \in 1..n - i : b[j] = s[i + j]
  BY <1>1
<1>4. RemoveAt(s, i) = a \o b
  BY DEF RemoveAt
<1> HIDE DEF a, b
<1>5. a \o b \in Seq(S) /\ Len(a \o b) = n - 1
  BY <1>1, <1>2, <1>3
<1>6. ASSUME NEW j \in 1..n - 1
      PROVE  (a \o b)[j] = IF j < i THEN s[j] ELSE s[j + 1]
  <2>1. CASE j < i
    <3>1. (a \o b)[j] = a[j]
      BY <1>1, <1>2, <1>3, <2>1
    <3>2. QED
      BY <1>1, <1>2, <2>1, <3>1
  <2>2. CASE ~(j < i)
    <3>1. PICK m \in 1..n - i : m = j - (i - 1)
      BY <1>1, <2>2
    <3>2. (a \o b)[j] = b[m]
      <4>1. j \in 1..Len(a) + Len(b) /\ ~(j <= Len(a)) /\ j - Len(a) = m
        BY <1>1, <1>2, <1>3, <2>2, <3>1
      <4>2. (a \o b)[j] = IF j <= Len(a) THEN a[j] ELSE b[j - Len(a)]
        BY <1>2, <1>3, <4>1, ConcatProperties
      <4>3. QED
        BY <4>1, <4>2
    <3>3. i + m = j + 1
      BY <3>1
    <3>4. QED
      BY <1>3, <2>2, <3>2, <3>3
  <2>3. QED
    BY <2>1, <2>2
<1>7. QED
  BY <1>1, <1>4, <1>5, <1>6 DEF Removed

\* The common prefix of two sequences is no longer than either.
LEMMA CommonPrefixIs ==
  ASSUME NEW S, NEW s \in Seq(S), NEW t \in Seq(S)
  PROVE  CommonPrefix(s, t) \in Nat
<1> DEFINE Same(n) == n <= Len(t) /\ SubSeq(s, 1, n) = SubSeq(t, 1, n)
           Ok(n) == Same(n) /\ (n < Len(s) /\ n < Len(t) => s[n + 1] # t[n + 1])
           Bad == {n \in 0..Len(s) : ~Same(n)}
<1>1. PICK ls \in Nat : ls = Len(s)
  OBVIOUS
<1>2. PICK lt \in Nat : lt = Len(t)
  OBVIOUS
<1>3. Same(0)
  <2>1. SubSeq(s, 1, 0) = <<>> /\ SubSeq(t, 1, 0) = <<>>
    OBVIOUS
  <2>2. QED
    BY <1>2, <2>1
<1>4. ASSUME NEW n \in 0..ls - 1, Same(n), n < lt, s[n + 1] = t[n + 1]
      PROVE  Same(n + 1)
  <2> DEFINE a == SubSeq(s, 1, n)
             b == SubSeq(s, 1, n + 1)
             c == SubSeq(t, 1, n + 1)
  <2>1. b \in Seq(S) /\ Len(b) = n + 1 /\ \A i \in 1..n + 1 : b[i] = s[i]
    BY <1>1
  <2>2. c \in Seq(S) /\ Len(c) = n + 1 /\ \A i \in 1..n + 1 : c[i] = t[i]
    BY <1>2, <1>4
  <2>3. \A i \in 1..n : s[i] = a[i]
    BY <1>1
  <2>4. \A i \in 1..n : t[i] = a[i]
    <3>1. a = SubSeq(t, 1, n)
      BY <1>4
    <3>2. \A i \in 1..n : SubSeq(t, 1, n)[i] = t[i]
      BY <1>2, <1>4
    <3> HIDE DEF a
    <3>3. QED
      BY <3>1, <3>2
  <2> HIDE DEF a, b, c
  <2>5. \A i \in 1..n + 1 : b[i] = c[i]
    BY <1>4, <2>1, <2>2, <2>3, <2>4
  <2>6. b = c
    BY <2>1, <2>2, <2>5
  <2>7. QED
    BY <1>2, <1>4, <2>6 DEF b, c
<1>5. \E n \in 0..Len(s) : Ok(n)
  <2>1. CASE Bad = {}
    <3>1. ls \in 0..ls /\ ls \notin Bad
      BY <2>1
    <3>2. Same(ls)
      BY <1>1, <3>1
    <3>3. ~(ls < Len(s))
      BY <1>1
    <3>4. QED
      BY <1>1, <3>1, <3>2, <3>3
  <2>2. CASE Bad # {}
    <3>1. PICK n \in Bad : \A j \in Bad : n <= j
      <4>1. Bad \subseteq Nat
        OBVIOUS
      <4> HIDE DEF Bad
      <4>2. QED
        BY <2>2, <4>1, LeastElement
    <3>2. n \in 1..ls /\ ~Same(n)
      BY <1>1, <1>3, <3>1
    <3>3. n - 1 \in 0..ls - 1 /\ Same(n - 1)
      BY <1>1, <3>1, <3>2
    <3>4. n - 1 < lt => s[n - 1 + 1] # t[n - 1 + 1]
      <4>1. n - 1 + 1 = n
        BY <3>2
      <4> HIDE DEF Same
      <4>2. QED
        BY <1>4, <3>2, <3>3, <4>1
    <3>5. Ok(n - 1) /\ n - 1 \in 0..Len(s)
      <4>1. n - 1 \in 0..ls
        BY <3>3
      <4> HIDE DEF Same
      <4>2. QED
        BY <1>1, <1>2, <3>3, <3>4, <4>1
    <3> HIDE DEF Ok
    <3>6. QED
      BY <3>5
  <2>3. QED
    BY <2>1, <2>2
<1>6. CommonPrefix(s, t) = CHOOSE n \in 0..Len(s) : Ok(n)
  BY DEF CommonPrefix
<1> HIDE DEF Ok
<1>7. CommonPrefix(s, t) \in 0..Len(s)
  BY <1>5, <1>6
<1>8. QED
  BY <1>7

-----------------------------------------------------------------------------
(* Lemmas about the request and the rows                                    *)

\* What an admitted request gives: its prompt is long enough and it fits.
LEMMA RequestIs ==
  ASSUME ServeAssumption, req \in Request
  PROVE  /\ req.prompt \in Prompts /\ req.prompt \in Seq(Token) /\ Len(req.prompt) \in Nat
         /\ Len(req.prompt) >= 2 /\ req.max_tokens \in Nat /\ req.k \in 1..MaxK
         /\ req.spec \in BOOLEAN
         /\ Admitted(req) =>
              /\ Len(req.prompt) + req.max_tokens + req.k <= MaxSeq
              /\ Len(req.prompt) + req.max_tokens + 1 <= MaxSeq
<1>1. req.prompt \in Prompts /\ req.prompt \in Seq(Token) /\ Len(req.prompt) >= 2
      /\ req.max_tokens \in Nat /\ req.k \in 1..MaxK /\ req.spec \in BOOLEAN
  BY DEF ServeAssumption, Request
<1>2. PICK n \in Nat : n = Len(req.prompt)
  BY <1>1
<1>3. MaxSeq \in Nat /\ Headroom \in Nat /\ MaxK \in Nat /\ MaxK <= Headroom
  BY DEF ServeAssumption
<1>4. ASSUME Admitted(req)
      PROVE  n + req.max_tokens + req.k <= MaxSeq /\ n + req.max_tokens + 1 <= MaxSeq
  <2>1. n + req.max_tokens + Headroom <= MaxSeq
    BY <1>2, <1>4 DEF Admitted
  <2>2. PICK m \in Nat : m = req.max_tokens
    BY <1>1
  <2>3. PICK d \in Nat : d = req.k /\ d >= 1 /\ d <= Headroom
    BY <1>1, <1>3
  <2>4. n + m + Headroom <= MaxSeq
    BY <2>1, <2>2
  <2>5. n + m + d <= MaxSeq /\ n + m + 1 <= MaxSeq
    BY <1>3, <2>3, <2>4
  <2>6. QED
    BY <2>2, <2>3, <2>5
<1>5. QED
  BY <1>1, <1>2, <1>4

\* Draining the step in flight writes one token.
LEMMA DrainedIs ==
  ASSUME ServeAssumption, Types
  PROVE  /\ Drained \in [1..MaxSeq -> Rows]
         /\ \A i \in 1..MaxSeq : Drained[i] = IF inflight # 0 /\ i = inflight THEN Answer ELSE kv[i]
  BY DEF ServeAssumption, Types, Drained, Rows

\* A part of the rows is a sequence of rows.
LEMMA ContextIs ==
  ASSUME ServeAssumption, NEW cache \in [1..MaxSeq -> Rows], NEW n \in 0..MaxSeq
  PROVE  Context(cache, n) \in Seq(Rows) /\ Len(Context(cache, n)) = n
<1>1. n \in Nat /\ MaxSeq \in Nat
  BY DEF ServeAssumption
<1>2. Context(cache, n) \in [1..n -> Rows]
  BY <1>1 DEF Context
<1>3. QED
  BY <1>1, <1>2

\* What is committed, token by token.
LEMMA CommittedIs ==
  ASSUME ServeAssumption, req \in Request, generated \in Nat
  PROVE  Committed = [i \in 1..Len(req.prompt) + generated |->
                        IF i <= Len(req.prompt) THEN req.prompt[i] ELSE Answer]
<1> DEFINE p == req.prompt
           a == [i \in 1..generated |-> Answer]
<1>1. p \in Seq(Token) /\ Answer \in Token
  BY RequestIs DEF ServeAssumption
<1>2. a \in Seq(Token) /\ Len(a) = generated /\ \A i \in 1..generated : a[i] = Answer
  <2>1. a \in [1..generated -> Token]
    BY <1>1
  <2>2. QED
    BY <2>1
<1> HIDE DEF p, a
<1>3. PICK n \in Nat : n = Len(p)
  BY <1>1
<1>4. p \o a \in Seq(Token) /\ Len(p \o a) = n + generated
  BY <1>1, <1>2, <1>3, SMTT(30)
<1>5. ASSUME NEW i \in 1..n + generated
      PROVE  (p \o a)[i] = IF i <= n THEN p[i] ELSE Answer
  <2>1. (p \o a)[i] = IF i <= Len(p) THEN p[i] ELSE a[i - Len(p)]
    BY <1>1, <1>2, <1>3, ConcatProperties
  <2>2. ~(i <= n) => i - n \in 1..generated
    BY <1>3
  <2>3. QED
    BY <1>2, <1>3, <2>1, <2>2
<1>6. p \o a = [i \in 1..n + generated |-> (p \o a)[i]]
  <2> DEFINE c == p \o a
  <2>1. c \in Seq(Token) /\ Len(c) = n + generated
    BY <1>4
  <2> HIDE DEF c
  <2>2. c = [i \in 1..Len(c) |-> c[i]]
    BY <2>1
  <2>3. QED
    BY <2>1, <2>2 DEF c
<1>7. QED
  BY <1>3, <1>5, <1>6 DEF p, a, Committed

\* Rows at which the prompt and the output stand are what is committed.
LEMMA StandingIs ==
  ASSUME ServeAssumption, req \in Request, generated \in Nat, NEW cache, NEW n,
         Standing(cache, n)
  PROVE  Context(cache, n) = Committed
<1>1. PICK m \in Nat : m = Len(req.prompt)
  BY RequestIs
<1>2. n = m + generated /\ (\A i \in 1..m : cache[i] = req.prompt[i])
      /\ \A i \in m + 1..n : cache[i] = Answer
  BY <1>1 DEF Standing, Stands
<1>3. \A i \in 1..n : cache[i] = IF i <= m THEN req.prompt[i] ELSE Answer
  BY <1>1, <1>2
<1>4. Committed = [i \in 1..n |-> IF i <= m THEN req.prompt[i] ELSE Answer]
  BY <1>1, <1>2, CommittedIs
<1>5. QED
  BY <1>3, <1>4 DEF Context

\* Writing the answer's token behind rows at which the prompt and the output
\* stand makes it part of the output.
LEMMA StandsMore ==
  ASSUME MaxSeq \in Nat, NEW p \in Seq(Token), NEW g \in Nat,
         NEW cache \in [1..MaxSeq -> Rows], NEW n \in Nat, n < MaxSeq, Stands(cache, n, p, g)
  PROVE  Stands(ForwardAfter(cache, n, Answer), n + 1, p, g + 1)
<1> DEFINE after == ForwardAfter(cache, n, Answer)
<1>1. PICK m \in Nat : m = Len(p)
  OBVIOUS
<1>2. n = m + g /\ (\A i \in 1..m : cache[i] = p[i]) /\ \A i \in m + 1..n : cache[i] = Answer
  BY <1>1 DEF Stands
<1>3. \A i \in 1..MaxSeq : after[i] = IF i = n + 1 THEN Answer ELSE cache[i]
  BY DEF ForwardAfter
<1> HIDE DEF after
<1>4. (\A i \in 1..m : after[i] = p[i]) /\ \A i \in m + 1..n + 1 : after[i] = Answer
  BY <1>2, <1>3
<1>5. n + 1 = m + (g + 1)
  BY <1>2
<1>6. QED
  BY <1>1, <1>4, <1>5 DEF Stands, after

-----------------------------------------------------------------------------
(* The invariant holds at first and steps of the worker keep it             *)

\* The first state.
LEMMA InitHolds ==
  ASSUME ServeAssumption, Init
  PROVE  IInv
<1>1. NoRequest \in Request
  <2>1. \E r \in Request : TRUE
    <3>1. PICK p \in Prompts, m \in Limits : TRUE
      BY DEF ServeAssumption
    <3>2. 1 \in 1..MaxK
      BY DEF ServeAssumption
    <3>3. [prompt |-> p, max_tokens |-> m, spec |-> FALSE, k |-> 1] \in Request
      BY <3>2 DEF Request
    <3>4. QED
      BY <3>3
  <2>2. QED
    BY <2>1 DEF NoRequest
<1>2. MaxSeq \in Nat /\ MaxK \in Nat /\ CacheSlots \in Nat
  BY DEF ServeAssumption
<1>3. Types
  <2>1. logits \in Seq(Rows) /\ slots \in Seq(Snap) /\ Len(slots) = 0 /\ recency \in Seq(Prompts)
    BY DEF Init, NoLogits
  <2>2. kv \in [1..MaxSeq -> Rows] /\ verify_graphs \in [1..MaxK -> 0..MaxSeq]
    BY <1>2 DEF Init, Rows
  <2>3. Len(slots) <= CacheSlots
    BY <1>2, <2>1
  <2>4. pos \in 0..MaxSeq /\ inflight \in 0..MaxSeq
    BY <1>2 DEF Init
  <2>5. QED
    BY <1>1, <2>1, <2>2, <2>3, <2>4 DEF Init, Types
<1>4. Places /\ Exact
  BY DEF Init, Places, Exact, Answering
<1>5. Latest
  BY <1>2 DEF Init, Latest, LruExact, Distinct
<1>6. QED
  BY <1>3, <1>4, <1>5 DEF IInv

\* A request is admitted.
LEMMA ReceiveKeeps ==
  ASSUME ServeAssumption, IInv, Receive
  PROVE  IInv'
<1>1. Types'
  BY DEF IInv, Types, Receive, state, lru, graphs
<1>2. Admitted(req)' /\ req' \in Request
  BY DEF Receive, Admitted
<1>3. Places'
  <2>1. generated' = 0 /\ ~restored' /\ pc' = "lookup"
    BY DEF IInv, Places, Receive
  <2>2. 0 <= req'.max_tokens
    <3>1. req'.max_tokens \in Nat
      BY <1>2 DEF ServeAssumption, Request
    <3>2. QED
      BY <3>1
  <2>3. QED
    BY <1>2, <2>1, <2>2 DEF Places
<1>4. Exact'
  BY DEF Receive, Exact, Answering
<1>5. Latest'
  BY DEF IInv, Latest, LruExact, Distinct, Receive, lru
<1>6. QED
  BY <1>1, <1>3, <1>4, <1>5 DEF IInv

\* The request ends, wherever it was: only its own variables go.
LEMMA ReturnKeeps ==
  ASSUME ServeAssumption, IInv, Return
  PROVE  IInv'
<1>1. NoRequest \in Request
  <2>1. req \in Request
    BY DEF IInv, Types
  <2>2. QED
    BY <2>1 DEF NoRequest
<1>2. Types'
  <2>1. logits' \in Seq(Rows)
    BY DEF Return, NoLogits
  <2>2. QED
    BY <1>1, <2>1 DEF IInv, Types, Return, state, lru, graphs
<1>3. Places' /\ Exact'
  BY DEF Return, Places, Exact, Answering
<1>4. Latest'
  BY DEF IInv, Latest, LruExact, Distinct, Return, lru
<1>5. QED
  BY <1>2, <1>3, <1>4 DEF IInv

\* A miss puts the position back.
LEMMA ResetKeeps ==
  ASSUME ServeAssumption, IInv, Reset
  PROVE  IInv'
<1>1. MaxSeq \in Nat
  BY DEF ServeAssumption
<1>2. Types'
  BY <1>1 DEF IInv, Types, Reset, lru, graphs, call
<1>3. Places' /\ Exact'
  BY DEF IInv, Reset, Places, Exact, Answering, call, Admitted
<1>4. Latest'
  BY DEF IInv, Latest, LruExact, Distinct, Reset, lru
<1>5. QED
  BY <1>2, <1>3, <1>4 DEF IInv

-----------------------------------------------------------------------------
(* The prefix cache                                                         *)

\* A prompt of the history that is used again moves to its end.
LEMMA UsedAgain ==
  ASSUME Types, Distinct(recency), NEW h \in 1..Len(recency),
         NEW p, p = recency[h], NEW r, r = UsedLast(p)
  PROVE  /\ r \in Seq(Prompts) /\ Len(r) = Len(recency) /\ Distinct(r) /\ r[Len(recency)] = p
         /\ \A j \in 1..Len(recency) - 1 : r[j] = IF j < h THEN recency[j] ELSE recency[j + 1]
<1> DEFINE held == {j \in DOMAIN recency : recency[j] = p}
           rr == RemoveAt(recency, h)
<1>1. recency \in Seq(Prompts)
  BY DEF Types
<1>2. PICK m \in Nat : m = Len(recency)
  BY <1>1
<1>3. \A x, y \in 1..m : recency[x] = recency[y] => x = y
  BY <1>2 DEF Distinct
<1>4. held = {h}
  BY <1>1, <1>2, <1>3
<1>5. First(held) = h
  <2>1. {h} \subseteq Nat /\ {h} # {}
    OBVIOUS
  <2>2. First({h}) \in {h}
    BY <2>1, FirstIs
  <2>3. QED
    BY <1>4, <2>2
<1>6. rr \in Seq(Prompts) /\ Removed(recency, h, rr)
  BY <1>1, RemoveAtIs
<1>7. r = Append(rr, p)
  BY <1>4, <1>5 DEF UsedLast, Without
<1> HIDE DEF held, rr
<1>8. Len(rr) = m - 1 /\ \A j \in 1..m - 1 : rr[j] = IF j < h THEN recency[j] ELSE recency[j + 1]
  BY <1>2, <1>6 DEF Removed
<1>9. p \in Prompts
  BY <1>1
<1>10. r \in Seq(Prompts) /\ Len(r) = m /\ r[m] = p /\ \A j \in 1..m - 1 : r[j] = rr[j]
  BY <1>2, <1>6, <1>7, <1>8, <1>9
<1>11. ASSUME NEW x \in 1..m
       PROVE  \E z \in 1..m : /\ r[x] = recency[z]
                              /\ z = IF x = m THEN h ELSE IF x < h THEN x ELSE x + 1
  <2>1. CASE x = m
    BY <1>2, <1>10, <2>1
  <2>2. CASE x # m /\ x < h
    <3>1. x \in 1..m - 1 /\ r[x] = recency[x]
      BY <1>8, <1>10, <2>2
    <3>2. QED
      BY <2>2, <3>1
  <2>3. CASE x # m /\ ~(x < h)
    <3>1. x \in 1..m - 1 /\ r[x] = recency[x + 1] /\ x + 1 \in 1..m
      BY <1>8, <1>10, <2>3
    <3>2. QED
      BY <2>3, <3>1
  <2>4. QED
    BY <2>1, <2>2, <2>3
<1>12. ASSUME NEW x \in 1..m, NEW y \in 1..m, r[x] = r[y]
       PROVE  x = y
  <2>1. PICK zx \in 1..m : /\ r[x] = recency[zx]
                           /\ zx = IF x = m THEN h ELSE IF x < h THEN x ELSE x + 1
    BY <1>11
  <2>2. PICK zy \in 1..m : /\ r[y] = recency[zy]
                           /\ zy = IF y = m THEN h ELSE IF y < h THEN y ELSE y + 1
    BY <1>11
  <2>3. zx = zy
    BY <1>3, <1>12, <2>1, <2>2
  <2>4. QED
    BY <1>2, <2>1, <2>2, <2>3
<1>13. Distinct(r)
  BY <1>10, <1>12 DEF Distinct
<1>14. QED
  BY <1>2, <1>8, <1>10, <1>13

\* A prompt the history does not name yet is appended.
LEMMA UsedFirst ==
  ASSUME Types, Distinct(recency), NEW p \in Prompts,
         \A j \in 1..Len(recency) : recency[j] # p, NEW r, r = UsedLast(p)
  PROVE  /\ r \in Seq(Prompts) /\ Len(r) = Len(recency) + 1 /\ Distinct(r)
         /\ r[Len(recency) + 1] = p /\ \A j \in 1..Len(recency) : r[j] = recency[j]
<1>1. recency \in Seq(Prompts)
  BY DEF Types
<1>2. PICK m \in Nat : m = Len(recency)
  BY <1>1
<1>3. {j \in DOMAIN recency : recency[j] = p} = {}
  BY <1>1
<1>4. r = Append(recency, p)
  BY <1>3 DEF UsedLast, Without
<1>5. r \in Seq(Prompts) /\ Len(r) = m + 1 /\ r[m + 1] = p /\ \A j \in 1..m : r[j] = recency[j]
  BY <1>1, <1>2, <1>4
<1>6. \A x, y \in 1..m : recency[x] = recency[y] => x = y
  BY <1>2 DEF Distinct
<1>7. ASSUME NEW x \in 1..m + 1, NEW y \in 1..m + 1, r[x] = r[y]
      PROVE  x = y
  <2>1. CASE x \in 1..m /\ y \in 1..m
    BY <1>5, <1>6, <1>7, <2>1
  <2>2. CASE x = m + 1 /\ y \in 1..m
    BY <1>2, <1>5, <1>7, <2>2
  <2>3. CASE x \in 1..m /\ y = m + 1
    BY <1>2, <1>5, <1>7, <2>3
  <2>4. QED
    BY <2>1, <2>2, <2>3
<1>8. Distinct(r)
  BY <1>5, <1>7 DEF Distinct
<1>9. QED
  BY <1>2, <1>5, <1>8

\* Moving the entry of a prompt to the end moves the prompt to the end of the
\* history: the two stay in step.
LEMMA MoveToEnd ==
  ASSUME Types, Latest, NEW i \in 1..Len(slots), NEW e \in Snap, e.tokens = slots[i].tokens,
         slots' = Append(RemoveAt(slots, i), e), recency' = UsedLast(e.tokens)
  PROVE  /\ slots' \in Seq(Snap) /\ Len(slots') <= CacheSlots /\ recency' \in Seq(Prompts)
         /\ Latest'
<1> DEFINE ss == RemoveAt(slots, i)
<1>1. PICK n \in Nat : n = Len(slots)
  <2>1. slots \in Seq(Snap)
    BY DEF Types
  <2>2. QED
    BY <2>1
<1>2. PICK m \in Nat : m = Len(recency)
  BY DEF Types
<1>3. slots \in Seq(Snap) /\ recency \in Seq(Prompts) /\ n <= CacheSlots
  BY <1>1 DEF Types
<1>4. /\ Distinct(recency)
      /\ n = (IF m < CacheSlots THEN m ELSE CacheSlots)
      /\ \A j \in 1..n : slots[j].tokens = recency[m - n + j]
  BY <1>1, <1>2, <1>3 DEF Latest, LruExact
<1>5. n <= m
  BY <1>3, <1>4
<1>6. PICK h \in 1..m : h = m - n + i
  BY <1>1, <1>5
<1>7. e.tokens = recency[h]
  BY <1>1, <1>4, <1>6
<1>8. /\ recency' \in Seq(Prompts) /\ Len(recency') = m /\ Distinct(recency')
      /\ recency'[m] = e.tokens
      /\ \A j \in 1..m - 1 : recency'[j] = IF j < h THEN recency[j] ELSE recency[j + 1]
  BY <1>2, <1>4, <1>7, UsedAgain
<1>9. ss \in Seq(Snap) /\ Removed(slots, i, ss)
  BY <1>3, RemoveAtIs
<1> HIDE DEF ss
<1>10. Len(ss) = n - 1 /\ \A j \in 1..n - 1 : ss[j] = IF j < i THEN slots[j] ELSE slots[j + 1]
  BY <1>1, <1>9 DEF Removed
<1>11. slots' \in Seq(Snap) /\ Len(slots') = n /\ slots'[n] = e
       /\ \A j \in 1..n - 1 : slots'[j] = ss[j]
  BY <1>1, <1>9, <1>10 DEF ss
<1>12. ASSUME NEW j \in 1..n
       PROVE  slots'[j].tokens = recency'[m - n + j]
  <2>1. CASE j = n
    BY <1>8, <1>11, <2>1, <1>5
  <2>2. CASE j # n
    <3>1. slots'[j] = IF j < i THEN slots[j] ELSE slots[j + 1]
      BY <1>10, <1>11, <2>2
    <3>2. PICK x \in 1..m - 1 : x = m - n + j
      BY <1>5, <2>2
    <3>3. recency'[x] = IF x < h THEN recency[x] ELSE recency[x + 1]
      BY <1>8
    <3>4. x < h <=> j < i
      BY <1>1, <1>6, <3>2
    <3>5. slots[j].tokens = recency[x]
      BY <1>4, <3>2
    <3>6. slots[j + 1].tokens = recency[x + 1]
      <4>1. j + 1 \in 1..n /\ m - n + (j + 1) = x + 1
        BY <2>2, <3>2
      <4>2. QED
        BY <1>4, <4>1
    <3>7. QED
      BY <3>1, <3>2, <3>3, <3>4, <3>5, <3>6
  <2>3. QED
    BY <2>1, <2>2
<1>13. Latest'
  <2>1. DOMAIN slots' = 1..n
    BY <1>11
  <2>2. QED
    BY <1>4, <1>8, <1>11, <1>12, <2>1 DEF Latest, LruExact
<1>14. QED
  BY <1>3, <1>8, <1>11, <1>13

\* The oldest entry makes room for one whose prompt no slot holds: what is left
\* are the latest prompts of the history, which gained this one.
LEMMA Replaced ==
  ASSUME Types, Latest, NEW e \in Snap, \A i \in 1..Len(slots) : slots[i].tokens # e.tokens,
         CacheSlots \in Nat \ {0}, Len(slots) >= CacheSlots,
         slots' = Append(Tail(slots), e), recency' = UsedLast(e.tokens)
  PROVE  /\ slots' \in Seq(Snap) /\ Len(slots') <= CacheSlots /\ recency' \in Seq(Prompts)
         /\ Latest'
<1>1. slots \in Seq(Snap)
  BY DEF Types
<1>2. PICK n \in Nat : n = Len(slots)
  BY <1>1
<1>3. PICK m \in Nat : m = Len(recency)
  BY DEF Types
<1>4. /\ Distinct(recency) /\ n = CacheSlots /\ n <= m /\ n >= 1
      /\ \A j \in 1..n : slots[j].tokens = recency[m - n + j]
  <2>1. n <= CacheSlots
    BY <1>2 DEF Types
  <2>2. Distinct(recency) /\ n = (IF m < CacheSlots THEN m ELSE CacheSlots)
        /\ \A j \in 1..n : slots[j].tokens = recency[m - n + j]
    BY <1>1, <1>2, <1>3 DEF Latest, LruExact
  <2>3. QED
    BY <1>2, <2>1, <2>2
<1>5. slots' \in Seq(Snap) /\ Len(slots') = n /\ slots'[n] = e
      /\ \A j \in 1..n - 1 : slots'[j] = slots[j + 1]
  <2> DEFINE t == Tail(slots)
  <2>1. t \in Seq(Snap) /\ Len(t) = n - 1 /\ \A j \in 1..n - 1 : t[j] = slots[j + 1]
    <3>1. slots # <<>>
      BY <1>2, <1>4
    <3>2. t \in Seq(Snap) /\ Len(t) = Len(slots) - 1 /\ \A j \in 1..Len(slots) - 1 : t[j] = slots[j + 1]
      BY <1>1, <3>1, HeadTailProperties
    <3> HIDE DEF t
    <3>3. QED
      BY <1>2, <3>2
  <2> HIDE DEF t
  <2>2. QED
    BY <1>4, <2>1 DEF t
<1>6. e.tokens \in Prompts
  BY DEF Snap
<1>7. \E q \in Nat : /\ recency' \in Seq(Prompts) /\ Len(recency') = q /\ q >= m
                     /\ Distinct(recency') /\ recency'[q] = e.tokens
                     /\ \A j \in 1..n - 1 : recency'[q - n + j] = recency[m - n + j + 1]
  <2>1. CASE \E h \in 1..m : recency[h] = e.tokens
    <3>1. PICK h \in 1..m : recency[h] = e.tokens
      BY <2>1
    <3>2. /\ recency' \in Seq(Prompts) /\ Len(recency') = m /\ Distinct(recency')
          /\ recency'[m] = e.tokens
          /\ \A j \in 1..m - 1 : recency'[j] = IF j < h THEN recency[j] ELSE recency[j + 1]
      BY <1>3, <1>4, <3>1, UsedAgain
    <3>3. h <= m - n
      <4>1. SUFFICES ASSUME h > m - n
                     PROVE  FALSE
        BY <1>4
      <4>2. PICK j \in 1..n : m - n + j = h
        <5>1. h - (m - n) \in 1..n /\ m - n + (h - (m - n)) = h
          BY <1>4, <4>1
        <5>2. QED
          BY <5>1
      <4>3. slots[j].tokens = e.tokens
        BY <1>4, <3>1, <4>2
      <4>4. QED
        BY <1>2, <4>3
    <3>4. ASSUME NEW j \in 1..n - 1
          PROVE  recency'[m - n + j] = recency[m - n + j + 1]
      <4>1. m - n + j \in 1..m - 1 /\ ~(m - n + j < h)
        BY <1>4, <3>3
      <4>2. QED
        BY <3>2, <4>1
    <3>5. m >= m
      OBVIOUS
    <3>6. QED
      BY <3>2, <3>4, <3>5
  <2>2. CASE \A h \in 1..m : recency[h] # e.tokens
    <3>1. /\ recency' \in Seq(Prompts) /\ Len(recency') = m + 1 /\ Distinct(recency')
          /\ recency'[m + 1] = e.tokens /\ \A j \in 1..m : recency'[j] = recency[j]
      BY <1>3, <1>4, <1>6, <2>2, UsedFirst
    <3>2. PICK q \in Nat : q = m + 1
      OBVIOUS
    <3>3. ASSUME NEW j \in 1..n - 1
          PROVE  recency'[q - n + j] = recency[m - n + j + 1]
      <4>1. q - n + j = m - n + j + 1 /\ m - n + j + 1 \in 1..m
        BY <1>4, <3>2
      <4>2. QED
        BY <3>1, <4>1
    <3>4. q >= m /\ Len(recency') = q /\ recency'[q] = e.tokens
      BY <3>1, <3>2
    <3>5. QED
      BY <3>1, <3>3, <3>4
  <2>3. QED
    BY <2>1, <2>2
<1>8. PICK q \in Nat : /\ recency' \in Seq(Prompts) /\ Len(recency') = q /\ q >= m
                       /\ Distinct(recency') /\ recency'[q] = e.tokens
                       /\ \A j \in 1..n - 1 : recency'[q - n + j] = recency[m - n + j + 1]
  BY <1>7
<1>9. ASSUME NEW j \in 1..n
      PROVE  slots'[j].tokens = recency'[q - n + j]
  <2>1. CASE j = n
    BY <1>4, <1>5, <1>8, <2>1
  <2>2. CASE j # n
    <3>1. PICK i \in 1..n : i = j + 1
      BY <2>2
    <3>2. slots'[j] = slots[i] /\ recency'[q - n + j] = recency[m - n + j + 1]
      <4>1. j \in 1..n - 1
        BY <2>2
      <4>2. QED
        BY <1>5, <1>8, <3>1, <4>1
    <3>3. slots[i].tokens = recency[m - n + i] /\ m - n + i = m - n + j + 1
      BY <1>4, <3>1
    <3>4. QED
      BY <3>2, <3>3
  <2>3. QED
    BY <2>1, <2>2
<1>10. Latest'
  <2>1. DOMAIN slots' = 1..n /\ ~(q < CacheSlots)
    BY <1>4, <1>5, <1>8
  <2>2. QED
    BY <1>4, <1>5, <1>8, <1>9, <2>1 DEF Latest, LruExact
<1>11. QED
  BY <1>4, <1>5, <1>8, <1>10

\* With room left the entry of a new prompt is added.
LEMMA Added ==
  ASSUME Types, Latest, NEW e \in Snap, \A i \in 1..Len(slots) : slots[i].tokens # e.tokens,
         CacheSlots \in Nat \ {0}, Len(slots) < CacheSlots,
         slots' = Append(slots, e), recency' = UsedLast(e.tokens)
  PROVE  /\ slots' \in Seq(Snap) /\ Len(slots') <= CacheSlots /\ recency' \in Seq(Prompts)
         /\ Latest'
<1>1. slots \in Seq(Snap)
  BY DEF Types
<1>2. PICK n \in Nat : n = Len(slots)
  BY <1>1
<1>3. Len(recency) = n /\ Distinct(recency) /\ \A j \in 1..n : slots[j].tokens = recency[j]
  <2>1. PICK m \in Nat : m = Len(recency)
    BY DEF Types
  <2>2. Distinct(recency) /\ n = (IF m < CacheSlots THEN m ELSE CacheSlots)
        /\ \A j \in 1..n : slots[j].tokens = recency[m - n + j]
    BY <1>1, <1>2, <2>1 DEF Latest, LruExact
  <2>3. n = m
    BY <1>2, <2>2
  <2>4. \A j \in 1..n : m - n + j = j
    BY <2>3
  <2>5. QED
    BY <2>1, <2>2, <2>3, <2>4
<1>4. slots' \in Seq(Snap) /\ Len(slots') = n + 1 /\ slots'[n + 1] = e
      /\ \A j \in 1..n : slots'[j] = slots[j]
  BY <1>1, <1>2
<1>5. e.tokens \in Prompts /\ \A j \in 1..Len(recency) : recency[j] # e.tokens
  BY <1>2, <1>3 DEF Snap
<1>6. /\ recency' \in Seq(Prompts) /\ Len(recency') = n + 1 /\ Distinct(recency')
      /\ recency'[n + 1] = e.tokens /\ \A j \in 1..n : recency'[j] = recency[j]
  BY <1>3, <1>5, UsedFirst
<1>7. ASSUME NEW j \in 1..n + 1
      PROVE  slots'[j].tokens = recency'[n + 1 - (n + 1) + j]
  <2>1. n + 1 - (n + 1) + j = j
    OBVIOUS
  <2>2. slots'[j].tokens = recency'[j]
    <3>1. CASE j = n + 1
      BY <1>4, <1>6, <3>1
    <3>2. CASE j \in 1..n
      BY <1>3, <1>4, <1>6, <3>2
    <3>3. j = n + 1 \/ j \in 1..n
      OBVIOUS
    <3>4. QED
      BY <3>1, <3>2, <3>3
  <2>3. QED
    BY <2>1, <2>2
<1>8. n + 1 <= CacheSlots
  BY <1>2
<1>9. Latest'
  <2>1. DOMAIN slots' = 1..n + 1
    BY <1>4
  <2>2. n + 1 = IF n + 1 < CacheSlots THEN n + 1 ELSE CacheSlots
    BY <1>8
  <2>3. QED
    BY <1>4, <1>6, <1>7, <2>1, <2>2 DEF Latest, LruExact
<1>10. QED
  BY <1>4, <1>6, <1>8, <1>9

\* The match is a slot worth restoring: it is as long as it has to be, and
\* leaves a token to prefill.
LEMMA BestMatchIs ==
  ASSUME ServeAssumption, Types, Candidates # {}
  PROVE  /\ BestMatch \in 1..Len(slots)
         /\ Overlap(BestMatch) \in Nat /\ Overlap(BestMatch) < Len(req.prompt)
<1> DEFINE gap(i) == Len(req.prompt) - Overlap(i)
           gaps == {gap(i) : i \in Candidates}
           nearest(g) == {i \in Candidates : gap(i) = g}
<1>1. slots \in Seq(Snap) /\ req \in Request
  BY DEF Types
<1>2. req.prompt \in Seq(Token)
  BY <1>1, RequestIs
<1>3. PICK n \in Nat : n = Len(req.prompt)
  BY <1>2
<1>4. ASSUME NEW i \in Candidates
      PROVE  i \in 1..Len(slots) /\ Overlap(i) \in Nat /\ Overlap(i) < n
  <2>1. i \in 1..Len(slots)
    BY <1>1 DEF Candidates
  <2>2. slots[i].tokens \in Seq(Token)
    <3>1. slots[i] \in Snap
      BY <1>1, <2>1
    <3>2. slots[i].tokens \in Prompts
      BY <3>1 DEF Snap
    <3>3. QED
      BY <3>2 DEF ServeAssumption
  <2>3. Overlap(i) \in Nat
    BY <1>2, <2>2, CommonPrefixIs DEF Overlap
  <2>4. QED
    BY <1>3, <2>1, <2>3 DEF Candidates
<1>5. gaps \subseteq Nat /\ gaps # {}
  BY <1>3, <1>4
<1>6. PICK g \in gaps : \A x \in gaps : g <= x
  <2> HIDE DEF gaps
  <2>1. QED
    BY <1>5, LeastElement
<1>7. nearest(g) \subseteq Nat /\ nearest(g) # {}
  BY <1>4
<1>8. PICK b \in nearest(g) : \A x \in nearest(g) : b <= x
  <2> DEFINE near == nearest(g)
  <2>1. near \subseteq Nat /\ near # {}
    BY <1>7
  <2> HIDE DEF near
  <2>2. \E x \in near : \A y \in near : x <= y
    BY <2>1, LeastElement
  <2>3. QED
    BY <2>2 DEF near
<1>9. b \in Candidates /\ gap(b) = g
  BY <1>8
<1>10. ASSUME NEW j \in Candidates
       PROVE  Overlap(j) < Overlap(b) \/ (Overlap(j) = Overlap(b) /\ b <= j)
  <2>1. PICK x \in Nat : x = Overlap(j) /\ x < n
    BY <1>4
  <2>2. PICK y \in Nat : y = Overlap(b) /\ y < n
    BY <1>4, <1>9
  <2>3. n - y <= n - x
    <3>1. gap(j) \in gaps
      OBVIOUS
    <3>2. g <= gap(j)
      BY <1>6, <3>1
    <3>3. QED
      BY <1>3, <1>9, <2>1, <2>2, <3>2
  <2>4. x = y => b <= j
    <3>1. x = y => j \in nearest(g)
      BY <1>9, <2>1, <2>2
    <3>2. QED
      BY <1>8, <3>1
  <2>5. QED
    BY <2>1, <2>2, <2>3, <2>4
<1>11. BestMatch \in Candidates
  BY <1>9, <1>10 DEF BestMatch
<1>12. QED
  BY <1>3, <1>4, <1>11

\* Storing the request's prompt keeps cache and history in step.
LEMMA Inserted ==
  ASSUME ServeAssumption, Types, Latest, NEW e \in Snap, e.tokens = req.prompt,
         slots' = Insert(slots, e), recency' = UsedLast(req.prompt)
  PROVE  /\ slots' \in Seq(Snap) /\ Len(slots') <= CacheSlots /\ recency' \in Seq(Prompts)
         /\ Latest'
<1> DEFINE same == {i \in DOMAIN slots : slots[i].tokens = req.prompt}
<1>1. slots \in Seq(Snap) /\ CacheSlots \in Nat \ {0} /\ recency' = UsedLast(e.tokens)
  BY DEF Types, ServeAssumption
<1>2. PICK n \in Nat : n = Len(slots)
  BY <1>1
<1>3. slots' = Append(IF same = {} /\ Len(slots) >= CacheSlots THEN Tail(slots)
                                                              ELSE Without(slots, same), e)
  BY DEF Insert
<1>4. CASE same # {}
  <2>1. same \subseteq Nat /\ same \subseteq 1..Len(slots)
    BY <1>1
  <2>2. First(same) \in same
    <3> HIDE DEF same
    <3>1. QED
      BY <1>4, <2>1, FirstIs
  <2>3. PICK i \in 1..Len(slots) : i = First(same) /\ slots[i].tokens = e.tokens
    BY <2>1, <2>2
  <2>4. slots' = Append(RemoveAt(slots, i), e)
    <3> HIDE DEF same
    <3>1. QED
      BY <1>3, <1>4, <2>3 DEF Without
  <2>5. QED
    BY <1>1, <2>3, <2>4, MoveToEnd
<1>5. CASE same = {}
  <2>1. \A i \in 1..Len(slots) : slots[i].tokens # e.tokens
    BY <1>1, <1>5
  <2>2. CASE Len(slots) >= CacheSlots
    <3>1. slots' = Append(Tail(slots), e)
      <4> HIDE DEF same
      <4>1. QED
        BY <1>3, <1>5, <2>2
    <3>2. QED
      BY <1>1, <2>1, <2>2, <3>1, Replaced
  <2>3. CASE ~(Len(slots) >= CacheSlots)
    <3>1. slots' = Append(slots, e)
      <4> HIDE DEF same
      <4>1. QED
        BY <1>3, <1>5, <2>3 DEF Without
    <3>2. Len(slots) < CacheSlots
      BY <1>1, <1>2, <2>3
    <3>3. QED
      BY <1>1, <2>1, <3>1, <3>2, Added
  <2>4. QED
    BY <2>2, <2>3
<1>6. QED
  BY <1>4, <1>5

\* A hit restores a slot and refreshes it.
LEMMA RestoreKeeps ==
  ASSUME ServeAssumption, IInv, Restore
  PROVE  IInv'
<1>1. Types /\ Places /\ Latest /\ pc = "lookup"
  BY DEF IInv, Restore
<1>2. /\ BestMatch \in 1..Len(slots) /\ Overlap(BestMatch) \in Nat
      /\ Overlap(BestMatch) < Len(req.prompt)
  BY <1>1, BestMatchIs DEF Restore
<1>3. PICK b \in 1..Len(slots) : b = BestMatch
  BY <1>2
<1>4. slots \in Seq(Snap)
  BY <1>1 DEF Types
<1>5. slots[b] \in Snap
  BY <1>4
<1>6. slots[b].tokens \in Prompts /\ slots[b].rows \in Seq(Rows)
  BY <1>5 DEF Snap
<1>7. /\ kv' = [j \in 1..MaxSeq |-> IF j <= Len(slots[b].rows) THEN slots[b].rows[j] ELSE Drained[j]]
      /\ pos' = Overlap(b) /\ inflight' = 0 /\ restored' = TRUE /\ pc' = "prefill"
      /\ slots' = Append(RemoveAt(slots, b), slots[b]) /\ recency' = UsedLast(slots[b].tokens)
      /\ UNCHANGED <<graphs, req, generated, logits>>
  BY <1>3 DEF Restore, Touch
<1>8. slots' \in Seq(Snap) /\ Len(slots') <= CacheSlots /\ recency' \in Seq(Prompts) /\ Latest'
  BY <1>1, <1>5, <1>7, MoveToEnd
<1>9. kv' \in [1..MaxSeq -> Rows]
  <2>1. PICK m \in Nat : m = Len(slots[b].rows)
    BY <1>6
  <2>2. ASSUME NEW j \in 1..MaxSeq
        PROVE  (IF j <= m THEN slots[b].rows[j] ELSE Drained[j]) \in Rows
    <3>1. j \in 1..MaxSeq /\ j \in Nat /\ j >= 1
      BY DEF ServeAssumption
    <3>2. j <= m => slots[b].rows[j] \in Rows
      BY <1>6, <2>1, <3>1
    <3>3. Drained[j] \in Rows
      BY <1>1, DrainedIs
    <3>4. QED
      BY <3>2, <3>3
  <2>3. QED
    BY <1>7, <2>1, <2>2
<1>10. req \in Request /\ Admitted(req) /\ generated = 0
  BY <1>1 DEF Types, Places
<1>11. pos' \in Nat /\ pos' < Len(req.prompt) /\ Len(req.prompt) <= MaxSeq
  <2>1. /\ Len(req.prompt) \in Nat /\ req.max_tokens \in Nat
        /\ Len(req.prompt) + req.max_tokens + 1 <= MaxSeq
    BY <1>10, RequestIs
  <2>2. MaxSeq \in Nat
    BY DEF ServeAssumption
  <2>3. Len(req.prompt) <= MaxSeq
    BY <2>1, <2>2
  <2>4. QED
    BY <1>2, <1>3, <1>7, <2>3
<1>12. pos' \in 0..MaxSeq /\ inflight' \in 0..MaxSeq
  <2>1. MaxSeq \in Nat /\ Len(req.prompt) \in Nat
    BY <1>10, RequestIs DEF ServeAssumption
  <2>2. QED
    BY <1>7, <1>11, <2>1
<1>13. Types'
  BY <1>1, <1>7, <1>8, <1>9, <1>12 DEF Types, graphs
<1>14. Places'
  <2>1. 0 <= req.max_tokens
    <3>1. req.max_tokens \in Nat
      BY <1>10, RequestIs
    <3>2. QED
      BY <3>1
  <2>2. QED
    BY <1>7, <1>10, <1>11, <2>1 DEF Places, Admitted
<1>15. Exact'
  BY <1>7 DEF Exact, Answering
<1>16. QED
  BY <1>8, <1>13, <1>14, <1>15 DEF IInv

-----------------------------------------------------------------------------
(* Prefill, decode and rounds                                               *)

\* What StandingIs says, of the next state.
LEMMA StandingThen ==
  ASSUME ServeAssumption
  PROVE  (Types /\ Standing(kv, pos) => Context(kv, pos) = Committed)'
<1>1. Types /\ Standing(kv, pos) => Context(kv, pos) = Committed
  BY StandingIs DEF Types
<1>2. QED
  BY <1>1, PTL

\* The request as every place past admission has it, with numbers for what the
\* bounds are about: the position's end and the limit.
LEMMA RoomIs ==
  ASSUME ServeAssumption, Types, Places, pc # "idle"
  PROVE  \E p \in Nat, m \in Nat :
           /\ p = Len(req.prompt) /\ m = req.max_tokens /\ p >= 2 /\ generated <= m
           /\ p + m + req.k <= MaxSeq /\ p + m + 1 <= MaxSeq
<1>1. Admitted(req) /\ generated <= req.max_tokens /\ req \in Request
  BY DEF Types, Places
<1>2. /\ Len(req.prompt) \in Nat /\ Len(req.prompt) >= 2 /\ req.max_tokens \in Nat
      /\ Len(req.prompt) + req.max_tokens + req.k <= MaxSeq
      /\ Len(req.prompt) + req.max_tokens + 1 <= MaxSeq
  BY <1>1, RequestIs
<1>3. QED
  BY <1>1, <1>2

\* The rows of a prefill.
LEMMA PrefillRowsIs ==
  ASSUME ServeAssumption, Types, NEW t \in Seq(Token), Len(t) <= MaxSeq
  PROVE  /\ PrefillRows(t) \in [1..MaxSeq -> Rows]
         /\ \A i \in 1..Len(t) : PrefillRows(t)[i] = t[i]
<1>1. PICK m \in Nat : m = Len(t)
  OBVIOUS
<1>2. MaxSeq \in Nat
  BY DEF ServeAssumption
<1>3. ASSUME NEW j \in 1..MaxSeq
      PROVE  (IF j <= m THEN t[j] ELSE Drained[j]) \in Rows
  <2>1. j <= m => t[j] \in Rows
    BY <1>1, <1>2 DEF Rows
  <2>2. Drained[j] \in Rows
    BY DrainedIs
  <2>3. QED
    BY <2>1, <2>2
<1>4. PrefillRows(t) = [j \in 1..MaxSeq |-> IF j <= m THEN t[j] ELSE Drained[j]]
  BY <1>1 DEF PrefillRows
<1>5. PrefillRows(t) \in [1..MaxSeq -> Rows]
  BY <1>3, <1>4
<1>6. \A i \in 1..m : PrefillRows(t)[i] = t[i]
  BY <1>1, <1>2, <1>4
<1>7. QED
  BY <1>1, <1>5, <1>6

\* A prefill of a length that fits keeps the graph cache's types.
LEMMA GraphsKept ==
  ASSUME Types, NEW p \in 1..MaxSeq, PrefillGraphs(p)
  PROVE  warm_p' \subseteq 1..MaxSeq /\ prefill_graphs' \subseteq 1..MaxSeq
  BY DEF Types, PrefillGraphs

\* What the plain path prefills: a tail of the prompt that is not empty.
LEMMA ToPrefillIs ==
  ASSUME ServeAssumption, Types, Places, pc = "prefill"
  PROVE  /\ ToPrefill \in Seq(Token) /\ Len(ToPrefill) >= 1
         /\ Len(ToPrefill) <= Len(req.prompt)
<1>1. req.prompt \in Seq(Token) /\ Len(req.prompt) >= 2
  BY RequestIs DEF Types
<1>2. PICK n \in Nat : n = Len(req.prompt)
  BY <1>1
<1>3. CASE restored
  <2>1. pos \in Nat /\ pos < n
    BY <1>2, <1>3 DEF Types, Places, ServeAssumption
  <2>2. ToPrefill = SubSeq(req.prompt, pos + 1, n)
    BY <1>2, <1>3 DEF ToPrefill
  <2>3. SubSeq(req.prompt, pos + 1, n) \in Seq(Token)
        /\ Len(SubSeq(req.prompt, pos + 1, n)) = n - pos
    BY <1>1, <1>2, <2>1
  <2>4. n - pos >= 1 /\ n - pos <= n
    BY <2>1
  <2>5. QED
    BY <1>2, <2>2, <2>3, <2>4
<1>4. CASE ~restored
  BY <1>1, <1>2, <1>4 DEF ToPrefill
<1>5. QED
  BY <1>3, <1>4

\* The plain path prefills.
LEMMA PlainPrefillKeeps ==
  ASSUME ServeAssumption, IInv, PlainPrefill
  PROVE  IInv'
<1>1. Types /\ Places /\ Latest /\ pc = "prefill" /\ ~req.spec /\ generated = 0
  BY DEF IInv, PlainPrefill, Places
<1>2. PICK p \in Nat, m \in Nat :
        /\ p = Len(req.prompt) /\ m = req.max_tokens /\ p >= 2 /\ generated <= m
        /\ p + m + req.k <= MaxSeq /\ p + m + 1 <= MaxSeq
  BY <1>1, RoomIs
<1>3. MaxSeq \in Nat /\ p <= MaxSeq
  <2>1. MaxSeq \in Nat
    BY DEF ServeAssumption
  <2>2. QED
    BY <1>2, <2>1
<1>4. ToPrefill \in Seq(Token)
  BY <1>1, ToPrefillIs
<1>5. PICK n \in Nat : n = Len(ToPrefill) /\ n >= 1 /\ n <= p
  <2>1. Len(ToPrefill) >= 1 /\ Len(ToPrefill) <= p
    BY <1>1, <1>2, ToPrefillIs
  <2>2. QED
    BY <1>4, <2>1
<1>6. n \in 1..MaxSeq
  BY <1>3, <1>5
<1>7. /\ kv' = PrefillRows(ToPrefill) /\ pos' = n /\ inflight' = 0 /\ logits' = ToPrefill
      /\ PrefillGraphs(n) /\ pc' = "snapshot"
      /\ UNCHANGED <<lru, verify_graphs, decode_graph, req, restored, generated>>
  BY <1>5 DEF PlainPrefill, PrefillPos
<1>8. kv' \in [1..MaxSeq -> Rows] /\ \A i \in 1..n : kv'[i] = ToPrefill[i]
  BY <1>1, <1>3, <1>4, <1>5, <1>6, <1>7, PrefillRowsIs
<1>9. warm_p' \subseteq 1..MaxSeq /\ prefill_graphs' \subseteq 1..MaxSeq
  BY <1>1, <1>6, <1>7, GraphsKept
<1>10. logits' \in Seq(Rows)
  <2>1. Seq(Token) \subseteq Seq(Rows)
    BY DEF Rows
  <2>2. QED
    BY <1>4, <1>7, <2>1
<1>11. Types'
  <2>1. pos' \in 0..MaxSeq /\ inflight' \in 0..MaxSeq
    BY <1>3, <1>6, <1>7
  <2>2. QED
    BY <1>1, <1>7, <1>8, <1>9, <1>10, <2>1 DEF Types, lru
<1>12. Places'
  <2>1. Admitted(req) /\ generated <= req.max_tokens
    BY <1>1 DEF Places
  <2>2. pos' <= Len(req.prompt) + generated
    BY <1>1, <1>2, <1>5, <1>7
  <2>3. QED
    BY <1>1, <1>7, <2>1, <2>2 DEF Places, Admitted
<1>13. Exact'
  <2>1. ASSUME ~restored
        PROVE  Standing(kv, pos)' /\ logits' = Committed'
    <3>1. ToPrefill = req.prompt /\ n = p
      BY <1>2, <1>5, <2>1 DEF ToPrefill
    <3>2. Standing(kv', p)
      <4>1. p = Len(req.prompt) + generated /\ \A i \in p + 1..p : kv'[i] = Answer
        BY <1>1, <1>2
      <4>2. \A i \in 1..p : kv'[i] = req.prompt[i]
        BY <1>8, <3>1
      <4>3. QED
        BY <1>2, <4>1, <4>2 DEF Standing, Stands
    <3>3. Standing(kv, pos)'
      BY <1>7, <3>1, <3>2 DEF Standing, Stands
    <3>4. Context(kv', p) = req.prompt
      <4>1. Context(kv', p) = [i \in 1..p |-> req.prompt[i]]
        BY <1>8, <3>1 DEF Context
      <4>2. req.prompt \in Seq(Token)
        BY <1>1, RequestIs DEF Types
      <4>3. req.prompt = [i \in 1..p |-> req.prompt[i]]
        BY <1>2, <4>2
      <4>4. QED
        BY <4>1, <4>3
    <3>5. Context(kv', p) = Committed
      BY <1>1, <3>2, StandingIs DEF Types
    <3>6. Committed' = Committed
      BY <1>7 DEF Committed
    <3>7. QED
      BY <1>7, <3>1, <3>3, <3>4, <3>5, <3>6
  <2>2. QED
    BY <1>1, <1>7, <2>1 DEF Exact, Answering
<1>14. Latest'
  BY <1>1, <1>7 DEF Latest, LruExact, Distinct, lru
<1>15. QED
  BY <1>11, <1>12, <1>13, <1>14 DEF IInv

\* The state after the prompt goes into the cache, or not.
LEMMA SnapshotKeeps ==
  ASSUME ServeAssumption, IInv, Snapshot
  PROVE  IInv'
<1>1. Types /\ Places /\ Exact /\ Latest /\ pc = "snapshot"
  BY DEF IInv, Snapshot
<1>2. /\ pc' = "decode" /\ decode_graph' \in {decode_graph, TRUE}
      /\ UNCHANGED <<state, warm_p, prefill_graphs, verify_graphs, call>>
  BY DEF Snapshot
<1>3. slots' \in Seq(Snap) /\ Len(slots') <= CacheSlots /\ recency' \in Seq(Prompts) /\ Latest'
  <2>1. CASE UNCHANGED lru
    BY <1>1, <2>1 DEF lru, Types, Latest, LruExact, Distinct
  <2>2. CASE /\ slots' = Insert(slots, [tokens |-> req.prompt, rows |-> Context(kv, pos)])
             /\ recency' = UsedLast(req.prompt)
    <3> DEFINE e == [tokens |-> req.prompt, rows |-> Context(kv, pos)]
    <3>1. req.prompt \in Prompts
      BY <1>1, RequestIs DEF Types
    <3>2. Context(kv, pos) \in Seq(Rows)
      BY <1>1, ContextIs DEF Types
    <3>3. e \in Snap /\ e.tokens = req.prompt
      BY <3>1, <3>2 DEF Snap
    <3>4. slots' = Insert(slots, e)
      BY <2>2
    <3> HIDE DEF e
    <3>5. QED
      BY <1>1, <2>2, <3>3, <3>4, Inserted
  <2>3. QED
    BY <2>1, <2>2 DEF Snapshot
<1>4. Types'
  BY <1>1, <1>2, <1>3 DEF Types, state, call
<1>5. Places'
  BY <1>1, <1>2 DEF Places, Admitted, state, call
<1>6. Exact'
  BY <1>1, <1>2 DEF Exact, Answering, Standing, Stands, Committed, state, call
<1>7. QED
  BY <1>3, <1>4, <1>5, <1>6 DEF IInv

\* The speculative path prefills everything, whatever was restored.
LEMMA SpecPrefillKeeps ==
  ASSUME ServeAssumption, IInv, SpecPrefill
  PROVE  IInv'
<1> DEFINE head == Front(req.prompt)
           rows == ForwardAfter(PrefillRows(head), PrefillPos(head), Last(req.prompt))
<1>1. Types /\ Places /\ Latest /\ pc = "prefill" /\ req.spec /\ generated = 0
  BY DEF IInv, SpecPrefill, Places
<1>2. PICK p \in Nat, m \in Nat :
        /\ p = Len(req.prompt) /\ m = req.max_tokens /\ p >= 2 /\ generated <= m
        /\ p + m + req.k <= MaxSeq /\ p + m + 1 <= MaxSeq
  BY <1>1, RoomIs
<1>3. MaxSeq \in Nat /\ p <= MaxSeq
  <2>1. MaxSeq \in Nat
    BY DEF ServeAssumption
  <2>2. QED
    BY <1>2, <2>1
<1>4. req.prompt \in Seq(Token)
  BY <1>1, RequestIs DEF Types
<1>5. head \in Seq(Token) /\ Len(head) = p - 1 /\ \A i \in 1..p - 1 : head[i] = req.prompt[i]
  <2>1. head = SubSeq(req.prompt, 1, p - 1)
    BY <1>2 DEF Front
  <2>2. QED
    BY <1>2, <1>4, <2>1
<1>6. Last(req.prompt) = req.prompt[p] /\ req.prompt[p] \in Rows
  BY <1>2, <1>4 DEF Last, Rows
<1>7. /\ kv' = rows /\ pos' = PrefillPos(head) + 1 /\ logits' = Context(rows, PrefillPos(head) + 1)
      /\ PrefillGraphs(Len(head)) /\ inflight' = 0 /\ pc' = "rounds"
      /\ verify_graphs' = [verify_graphs EXCEPT ![req.k] = IF @ = 0 THEN PrefillPos(head) + 1 ELSE @]
      /\ UNCHANGED <<lru, decode_graph, req, restored, generated>>
  BY DEF SpecPrefill
<1> HIDE DEF head
<1>8. PrefillPos(head) = p - 1 /\ PrefillPos(head) + 1 = p
  <2>1. PrefillPos(head) = p - 1
    BY <1>5 DEF PrefillPos
  <2>2. QED
    BY <1>2, <2>1
<1>9. p - 1 \in 1..MaxSeq /\ p \in 1..MaxSeq
  BY <1>2, <1>3
<1>10. PrefillRows(head) \in [1..MaxSeq -> Rows]
       /\ \A i \in 1..p - 1 : PrefillRows(head)[i] = req.prompt[i]
  <2>1. Len(head) <= MaxSeq
    BY <1>3, <1>5
  <2>2. /\ PrefillRows(head) \in [1..MaxSeq -> Rows]
        /\ \A i \in 1..Len(head) : PrefillRows(head)[i] = head[i]
    BY <1>1, <1>5, <2>1, PrefillRowsIs
  <2>3. QED
    BY <1>5, <2>2
<1>11. rows = [PrefillRows(head) EXCEPT ![p] = req.prompt[p]]
  BY <1>6, <1>8 DEF ForwardAfter
<1> HIDE DEF rows
<1>12. rows \in [1..MaxSeq -> Rows] /\ \A i \in 1..p : rows[i] = req.prompt[i]
  BY <1>6, <1>9, <1>10, <1>11
<1>13. Standing(rows, p)
  <2>1. p = Len(req.prompt) + generated /\ \A i \in p + 1..p : rows[i] = Answer
    BY <1>1, <1>2
  <2>2. QED
    BY <1>2, <1>12, <2>1 DEF Standing, Stands
<1>14. Types'
  <2>1. pos' \in 0..MaxSeq /\ inflight' \in 0..MaxSeq
    BY <1>3, <1>7, <1>8, <1>9
  <2>2. logits' \in Seq(Rows)
    <3>1. p \in 0..MaxSeq
      BY <1>9
    <3>2. QED
      BY <1>7, <1>8, <1>12, <3>1, ContextIs
  <2>3. warm_p' \subseteq 1..MaxSeq /\ prefill_graphs' \subseteq 1..MaxSeq
    BY <1>1, <1>5, <1>7, <1>9, GraphsKept
  <2>4. verify_graphs' \in [1..MaxK -> 0..MaxSeq]
    <3>1. p \in 0..MaxSeq /\ verify_graphs \in [1..MaxK -> 0..MaxSeq]
      BY <1>1, <1>9 DEF Types
    <3>2. verify_graphs' = [verify_graphs EXCEPT ![req.k] = IF @ = 0 THEN p ELSE @]
      BY <1>7, <1>8
    <3>3. QED
      BY <3>1, <3>2
  <2>5. kv' \in [1..MaxSeq -> Rows]
    BY <1>7, <1>12
  <2>6. QED
    BY <1>1, <1>7, <2>1, <2>2, <2>3, <2>4, <2>5 DEF Types, lru
<1>15. Places'
  <2>1. Admitted(req) /\ generated <= req.max_tokens
    BY <1>1 DEF Places
  <2>2. pos' = Len(req.prompt) + generated
    BY <1>1, <1>2, <1>7, <1>8
  <2>3. QED
    BY <1>1, <1>7, <2>1, <2>2 DEF Places, Admitted
<1>16. Exact'
  <2>1. Context(rows, p) = Committed
    BY <1>1, <1>13, StandingIs DEF Types
  <2>2. Committed' = Committed
    BY <1>7 DEF Committed
  <2>3. logits' = Committed'
    BY <1>7, <1>8, <2>1, <2>2
  <2>4. Standing(kv, pos)'
    BY <1>7, <1>8, <1>13 DEF Standing, Stands
  <2>5. QED
    BY <1>7, <2>3, <2>4 DEF Exact
<1>17. Latest'
  BY <1>1, <1>7 DEF Latest, LruExact, Distinct, lru
<1>18. QED
  BY <1>14, <1>15, <1>16, <1>17 DEF IInv

\* A token is picked and its step launched, or left to be run.
LEMMA LaunchKeeps ==
  ASSUME ServeAssumption, IInv, Launch
  PROVE  IInv'
<1>1. Types /\ Places /\ Exact /\ Latest /\ pc = "decode" /\ ~req.spec /\ inflight = 0
  BY DEF IInv, Launch, Places
<1>2. PICK p \in Nat, m \in Nat :
        /\ p = Len(req.prompt) /\ m = req.max_tokens /\ p >= 2 /\ generated <= m
        /\ p + m + req.k <= MaxSeq /\ p + m + 1 <= MaxSeq
  BY <1>1, RoomIs
<1>3. PICK g \in Nat : g = generated /\ g < m
  BY <1>1, <1>2 DEF Types, Launch
<1>4. PICK n \in Nat : n = pos /\ n <= p + g /\ n + 1 <= MaxSeq
  <2>1. pos \in Nat /\ MaxSeq \in Nat
    BY <1>1 DEF Types, ServeAssumption
  <2>2. pos <= p + g
    BY <1>1, <1>2, <1>3 DEF Places
  <2>3. pos + 1 <= MaxSeq
    BY <1>2, <1>3, <2>1, <2>2
  <2>4. QED
    BY <2>1, <2>2, <2>3
<1>5. /\ generated' = g + 1 /\ pc' = "deliver"
      /\ IF decode_graph THEN pos' = n + 1 /\ inflight' = n + 1 ELSE pos' = n /\ inflight' = 0
      /\ UNCHANGED <<kv, lru, graphs, req, restored, logits>>
  BY <1>1, <1>3, <1>4 DEF Launch
<1>6. MaxSeq \in Nat
  BY DEF ServeAssumption
<1>7. Types'
  <2>1. pos' \in 0..MaxSeq /\ inflight' \in 0..MaxSeq
    BY <1>4, <1>5, <1>6
  <2>2. generated' \in Nat
    BY <1>5
  <2>3. QED
    BY <1>1, <1>5, <2>1, <2>2 DEF Types, lru, graphs
<1>8. Places'
  <2>1. Admitted(req) /\ generated' <= req.max_tokens
    BY <1>1, <1>2, <1>3, <1>5 DEF Places
  <2>2. decode_graph => inflight' = pos' /\ pos' >= 1 /\ pos' <= Len(req.prompt) + generated'
    <3>1. decode_graph => inflight' = n + 1 /\ pos' = n + 1
      BY <1>5
    <3>2. n + 1 >= 1 /\ n + 1 <= p + (g + 1)
      BY <1>4
    <3>3. QED
      BY <1>2, <1>5, <3>1, <3>2, Zenon
  <2>3. ~decode_graph => inflight' = 0 /\ pos' + 1 <= Len(req.prompt) + generated'
    <3>1. ~decode_graph => inflight' = 0 /\ pos' = n
      BY <1>5
    <3>2. n + 1 <= p + (g + 1)
      BY <1>4
    <3>3. QED
      BY <1>2, <1>5, <3>1, <3>2, Zenon
  <2>4. decode_graph' = decode_graph /\ req' = req
    BY <1>5 DEF graphs
  <2>5. QED
    BY <1>1, <1>5, <2>1, <2>2, <2>3, <2>4 DEF Places, Admitted
<1>9. Exact'
  <2>1. ASSUME ~restored
        PROVE  Standing(Stepped, SteppedPos)'
    <3>1. Standing(kv, n)
      BY <1>1, <1>4, <2>1 DEF Exact, Answering
    <3>2. Stepped' = ForwardAfter(kv, n, Answer) /\ SteppedPos' = n + 1
      <4>1. CASE decode_graph
        <5>1. inflight' = n + 1 /\ inflight' # 0 /\ kv' = kv /\ decode_graph' /\ pos' = n + 1
          BY <1>5, <4>1 DEF graphs
        <5>2. QED
          BY <5>1 DEF Stepped, SteppedPos, Drained, ForwardAfter
      <4>2. CASE ~decode_graph
        <5>1. kv' = kv /\ ~decode_graph' /\ pos' = n
          BY <1>5, <4>2 DEF graphs
        <5>2. QED
          BY <5>1 DEF Stepped, SteppedPos
      <4>3. QED
        BY <4>1, <4>2
    <3>3. n < MaxSeq /\ kv \in [1..MaxSeq -> Rows] /\ req.prompt \in Seq(Token)
          /\ Stands(kv, n, req.prompt, g)
      BY <1>1, <1>3, <1>4, <1>6, <3>1, RequestIs DEF Types, Standing
    <3>4. Stands(ForwardAfter(kv, n, Answer), n + 1, req.prompt, g + 1)
      BY <1>6, <3>3, StandsMore
    <3>5. req' = req /\ generated' = g + 1
      BY <1>5
    <3>6. QED
      BY <3>2, <3>4, <3>5 DEF Standing
  <2>2. QED
    BY <1>5, <2>1 DEF Exact, Answering
<1>10. Latest'
  BY <1>1, <1>5 DEF Latest, LruExact, Distinct, lru
<1>11. QED
  BY <1>7, <1>8, <1>9, <1>10 DEF IInv

\* The step is waited for, or run.
LEMMA CollectKeeps ==
  ASSUME ServeAssumption, IInv, Collect
  PROVE  IInv'
<1>1. Types /\ Places /\ Exact /\ Latest /\ pc = "deliver" /\ ~req.spec
  BY DEF IInv, Collect, Places
<1>2. PICK p \in Nat, m \in Nat :
        /\ p = Len(req.prompt) /\ m = req.max_tokens /\ p >= 2 /\ generated <= m
        /\ p + m + req.k <= MaxSeq /\ p + m + 1 <= MaxSeq
  BY <1>1, RoomIs
<1>3. PICK g \in Nat : g = generated
  BY <1>1 DEF Types
<1>4. /\ kv' = Stepped /\ pos' = SteppedPos /\ logits' = Context(Stepped, SteppedPos)
      /\ inflight' = 0 /\ pc' = "decode"
      /\ UNCHANGED <<lru, graphs, req, restored, generated>>
  BY DEF Collect, Stepped, SteppedPos
<1>5. MaxSeq \in Nat /\ pos \in Nat
  BY <1>1 DEF Types, ServeAssumption
<1>6. SteppedPos \in 0..MaxSeq /\ SteppedPos <= p + g
  <2>1. SteppedPos <= p + g /\ SteppedPos \in Nat
    <3>1. CASE decode_graph
      BY <1>1, <1>2, <1>3, <1>5, <3>1 DEF Places, SteppedPos
    <3>2. CASE ~decode_graph
      BY <1>1, <1>2, <1>3, <1>5, <3>2 DEF Places, SteppedPos
    <3>3. QED
      BY <3>1, <3>2
  <2>2. p + g <= MaxSeq
    BY <1>2, <1>3, <1>5
  <2>3. QED
    BY <1>5, <2>1, <2>2
<1>7. Stepped \in [1..MaxSeq -> Rows]
  <2>1. Drained \in [1..MaxSeq -> Rows]
    BY <1>1, DrainedIs
  <2>2. ForwardAfter(kv, pos, Answer) \in [1..MaxSeq -> Rows]
    BY <1>1 DEF Types, ForwardAfter, Rows, ServeAssumption
  <2>3. QED
    BY <2>1, <2>2 DEF Stepped
<1>8. Types'
  <2>1. logits' \in Seq(Rows)
    BY <1>4, <1>6, <1>7, ContextIs
  <2>2. pos' \in 0..MaxSeq /\ inflight' \in 0..MaxSeq /\ kv' \in [1..MaxSeq -> Rows]
    BY <1>4, <1>5, <1>6, <1>7
  <2>3. QED
    BY <1>1, <1>4, <2>1, <2>2 DEF Types, lru, graphs
<1>9. Places'
  <2>1. pos' <= Len(req.prompt) + generated
    BY <1>2, <1>3, <1>4, <1>6
  <2>2. QED
    BY <1>1, <1>4, <2>1 DEF Places, Admitted, graphs
<1>10. Exact'
  <2>1. ASSUME ~restored
        PROVE  Standing(kv, pos)' /\ logits' = Committed'
    <3>1. Standing(Stepped, SteppedPos)
      BY <1>1, <2>1 DEF Exact
    <3>2. Context(Stepped, SteppedPos) = Committed
      BY <1>1, <3>1, StandingIs DEF Types
    <3>3. Committed' = Committed
      BY <1>4 DEF Committed
    <3>4. Standing(kv, pos)'
      BY <1>4, <3>1 DEF Standing, Stands
    <3>5. QED
      BY <1>4, <3>2, <3>3, <3>4
  <2>2. QED
    BY <1>1, <1>4, <2>1 DEF Exact, Answering
<1>11. Latest'
  BY <1>1, <1>4 DEF Latest, LruExact, Distinct, lru
<1>12. QED
  BY <1>8, <1>9, <1>10, <1>11 DEF IInv

\* A speculative round commits some tokens and leaves rows behind them.
LEMMA SpecRoundKeeps ==
  ASSUME ServeAssumption, IInv, SpecRound
  PROVE  IInv'
<1>1. Types /\ Places /\ Exact /\ Latest /\ pc = "rounds" /\ req.spec /\ inflight = 0
  BY DEF IInv, SpecRound, Places
<1>2. PICK p \in Nat, m \in Nat :
        /\ p = Len(req.prompt) /\ m = req.max_tokens /\ p >= 2 /\ generated <= m
        /\ p + m + req.k <= MaxSeq /\ p + m + 1 <= MaxSeq
  BY <1>1, RoomIs
<1>3. PICK g \in Nat : g = generated
  BY <1>1 DEF Types
<1>4. PICK k \in Nat : k = req.k /\ k >= 1
  <2>1. req.k \in 1..MaxK /\ MaxK \in Nat
    BY <1>1, RequestIs DEF Types, ServeAssumption
  <2>2. QED
    BY <2>1
<1>5. pos = p + g
  BY <1>1, <1>2, <1>3 DEF Places
<1>6. PICK n \in 1..k + 1 :
        /\ g + n <= m /\ generated' = g + n
        /\ kv' = [j \in 1..MaxSeq |-> IF j \in pos + 1..pos + req.k \/ j = pos + n THEN Answer ELSE kv[j]]
        /\ pos' = pos + n /\ logits' = Context(kv', pos + n)
        /\ UNCHANGED <<inflight, lru, graphs, req, restored, pc>>
  BY <1>2, <1>3, <1>4 DEF SpecRound
<1>7. MaxSeq \in Nat /\ pos' = p + g + n /\ p + g + n \in 0..MaxSeq
  <2>1. MaxSeq \in Nat /\ pos' = p + g + n
    BY <1>5, <1>6 DEF ServeAssumption
  <2>2. QED
    BY <1>2, <1>6, <2>1, SMTT(30)
<1>8. kv' \in [1..MaxSeq -> Rows]
      /\ \A j \in 1..MaxSeq : kv'[j] = IF j \in p + g + 1..p + g + k \/ j = p + g + n THEN Answer ELSE kv[j]
  BY <1>1, <1>4, <1>5, <1>6 DEF Types, Rows, ServeAssumption
<1>9. Types'
  <2>1. logits' \in Seq(Rows)
    BY <1>5, <1>6, <1>7, <1>8, ContextIs
  <2>2. pos' \in 0..MaxSeq /\ generated' \in Nat
    BY <1>6, <1>7
  <2>3. QED
    BY <1>1, <1>6, <1>8, <2>1, <2>2 DEF Types, lru, graphs
<1>10. Places'
  <2>1. generated' <= req.max_tokens /\ pos' = Len(req.prompt) + generated'
    <3>1. p + g + n = p + (g + n)
      OBVIOUS
    <3>2. QED
      BY <1>2, <1>6, <1>7, <3>1, Zenon
  <2>2. QED
    BY <1>1, <1>6, <2>1 DEF Places, Admitted
<1>11. Standing(kv, pos)'
  <2>1. (\A i \in 1..p : kv[i] = req.prompt[i]) /\ \A i \in p + 1..p + g : kv[i] = Answer
    BY <1>1, <1>2, <1>3, <1>5 DEF Exact, Answering, Standing, Stands
  <2>2. ASSUME NEW i \in 1..p
        PROVE  kv'[i] = req.prompt[i]
    <3>1. i \in 1..MaxSeq /\ ~(i \in p + g + 1..p + g + k \/ i = p + g + n)
      BY <1>6, <1>7
    <3>2. QED
      BY <1>8, <2>1, <3>1
  <2>3. ASSUME NEW i \in p + 1..p + g + n
        PROVE  kv'[i] = Answer
    <3>1. i \in 1..MaxSeq
      BY <1>7
    <3>2. i \in p + 1..p + g \/ i \in p + g + 1..p + g + k \/ i = p + g + n
      BY <1>6
    <3>3. QED
      BY <1>8, <2>1, <3>1, <3>2
  <2>4. req' = req /\ pos' = p + g + n /\ pos' = Len(req.prompt) + generated'
    <3>1. p + g + n = p + (g + n)
      OBVIOUS
    <3>2. QED
      BY <1>2, <1>6, <1>7, <3>1, Zenon
  <2>5. QED
    BY <1>2, <2>2, <2>3, <2>4 DEF Standing, Stands
<1>12. logits' = Committed'
  <2>1. logits' = Context(kv', pos')
    BY <1>6
  <2>2. Context(kv, pos)' = Committed'
    BY <1>9, <1>11, StandingThen
  <2>3. QED
    BY <2>1, <2>2 DEF Context
<1>13. Exact'
  BY <1>1, <1>6, <1>11, <1>12 DEF Exact
<1>14. Latest'
  BY <1>1, <1>6 DEF Latest, LruExact, Distinct, lru
<1>15. QED
  BY <1>9, <1>10, <1>13, <1>14 DEF IInv

\* The device finishes the step in flight: nothing a later step sees changes.
LEMMA ProgressKeeps ==
  ASSUME ServeAssumption, IInv, StreamProgress
  PROVE  IInv'
<1>1. Types /\ Places /\ Exact /\ Latest /\ inflight # 0
  BY DEF IInv, StreamProgress
<1>2. kv' = Drained /\ inflight' = 0 /\ UNCHANGED <<pos, lru, graphs, call, pc>>
  BY DEF StreamProgress
<1>3. MaxSeq \in Nat
  BY DEF ServeAssumption
<1>4. Types'
  <2>1. kv' \in [1..MaxSeq -> Rows] /\ inflight' \in 0..MaxSeq
    BY <1>1, <1>2, <1>3, DrainedIs
  <2>2. QED
    BY <1>1, <1>2, <2>1 DEF Types, lru, graphs, call
<1>5. Places'
  BY <1>1, <1>2 DEF Places, Admitted, graphs, call
<1>6. Exact'
  <2>1. pc # "snapshot" /\ pc # "decode" /\ pc # "rounds" /\ (pc = "deliver" => decode_graph)
    BY <1>1 DEF Places
  <2>2. ASSUME pc = "deliver", ~restored
        PROVE  Standing(Stepped, SteppedPos)'
    <3>1. Standing(Stepped, SteppedPos)
      BY <1>1, <2>2 DEF Exact
    <3>2. Stepped' = Stepped /\ SteppedPos' = SteppedPos
      BY <1>2, <2>1, <2>2 DEF Stepped, SteppedPos, Drained, graphs
    <3>3. QED
      BY <1>2, <3>1, <3>2 DEF Standing, Stands, call
  <2>3. QED
    BY <1>2, <2>1, <2>2 DEF Exact, Answering, call
<1>7. Latest'
  BY <1>1, <1>2 DEF Latest, LruExact, Distinct, lru
<1>8. QED
  BY <1>4, <1>5, <1>6, <1>7 DEF IInv

\* A step of the system keeps the invariant.
LEMMA StepKeeps ==
  ASSUME ServeAssumption, IInv, [Next]_vars
  PROVE  IInv'
<1>1. CASE Receive
  BY <1>1, ReceiveKeeps
<1>2. CASE Reset
  BY <1>2, ResetKeeps
<1>3. CASE Restore
  BY <1>3, RestoreKeeps
<1>4. CASE PlainPrefill
  BY <1>4, PlainPrefillKeeps
<1>5. CASE Snapshot
  BY <1>5, SnapshotKeeps
<1>6. CASE SpecPrefill
  BY <1>6, SpecPrefillKeeps
<1>7. CASE Launch
  BY <1>7, LaunchKeeps
<1>8. CASE Collect
  BY <1>8, CollectKeeps
<1>9. CASE SpecRound
  BY <1>9, SpecRoundKeeps
<1>10. CASE Finish \/ Abort
  BY <1>10, ReturnKeeps DEF Finish, Abort
<1>11. CASE StreamProgress
  BY <1>11, ProgressKeeps
<1>12. CASE UNCHANGED vars
  <2>1. Types'
    BY <1>12 DEF IInv, Types, vars, state, graphs, call, lru
  <2>2. Places'
    BY <1>12 DEF IInv, Places, Admitted, vars, state, graphs, call, lru
  <2>3. Exact'
    BY <1>12 DEF IInv, Exact, Answering, Standing, Stands, Committed, Stepped, SteppedPos, Drained,
                 ForwardAfter, vars, state, graphs, call, lru
  <2>4. Latest'
    BY <1>12 DEF IInv, Latest, LruExact, Distinct, vars, lru
  <2>5. QED
    BY <2>1, <2>2, <2>3, <2>4 DEF IInv
<1>13. QED
  BY <1>1, <1>2, <1>3, <1>4, <1>5, <1>6, <1>7, <1>8, <1>9, <1>10, <1>11, <1>12 DEF Next

\* The invariant holds in every reachable state.
LEMMA Invariance ==
  ASSUME ServeAssumption
  PROVE  Spec => []IInv
<1>1. Init => IInv
  BY InitHolds
<1>2. IInv /\ [Next]_vars => IInv'
  BY StepKeeps
<1>3. QED
  BY <1>1, <1>2, PTL DEF Spec

-----------------------------------------------------------------------------
(* The theorems                                                             *)

\* Type correctness: every variable keeps the type the code gives it, and the
\* prefix cache never holds more than CacheSlots snapshots.
THEOREM TypeCorrect ==
  ASSUME ServeAssumption
  PROVE  Spec => []TypeOK
<1>1. IInv => TypeOK
  <2>1. SUFFICES ASSUME IInv
                 PROVE  TypeOK
    OBVIOUS
  <2>2. pos \in Nat
    BY <2>1 DEF IInv, Types, ServeAssumption
  <2>3. ASSUME NEW i \in DOMAIN slots
        PROVE  slots[i].tokens \in Prompts /\ slots[i].rows \in Seq(Rows)
    <3>1. slots[i] \in Snap
      BY <2>1 DEF IInv, Types
    <3>2. QED
      BY <3>1 DEF Snap
  <2>4. QED
    BY <2>1, <2>2, <2>3 DEF IInv, Types, TypeOK
<1>2. QED
  BY <1>1, Invariance, PTL

\* A request that reused no snapshot, and every speculative one, is answered from
\* its own prompt and output, whatever earlier requests left in the rows, the
\* position, the graphs or in flight.
THEOREM ColdCorrect ==
  ASSUME ServeAssumption
  PROVE  Spec => []ColdContextExact
<1>1. IInv => ColdContextExact
  <2>1. SUFFICES ASSUME IInv, Answering, req.spec \/ ~restored
                 PROVE  Context(kv, pos) = Committed /\ logits = Committed
    BY DEF ColdContextExact
  <2>2. Standing(kv, pos) /\ logits = Committed
    BY <2>1 DEF IInv, Exact
  <2>3. QED
    BY <2>1, <2>2, StandingIs DEF IInv, Types
<1>2. QED
  BY <1>1, Invariance, PTL

\* The slots of the prefix cache are the most recently used prompts, in order.
THEOREM LruCorrect ==
  ASSUME ServeAssumption
  PROVE  Spec => []LruExact
<1>1. IInv => LruExact
  BY DEF IInv, Latest
<1>2. QED
  BY <1>1, Invariance, PTL

\* Nothing an admitted request runs writes past the end of the cache, and every
\* prefill has a token to process.
THEOREM NeverOverruns ==
  ASSUME ServeAssumption
  PROVE  Spec => []NoOverrun
<1>1. IInv => NoOverrun
  <2>1. SUFFICES ASSUME IInv
                 PROVE  NoOverrun
    OBVIOUS
  <2>2. Types /\ Places /\ MaxSeq \in Nat
    BY <2>1 DEF IInv, ServeAssumption
  <2>3. pos <= MaxSeq
    BY <2>2 DEF Types
  <2>4. pc = "prefill" => ToPrefill # <<>>
    <3>1. SUFFICES ASSUME pc = "prefill"
                   PROVE  ToPrefill # <<>>
      OBVIOUS
    <3>2. Len(ToPrefill) >= 1
      BY <2>2, <3>1, ToPrefillIs
    <3>3. Len(<<>>) = 0
      OBVIOUS
    <3>4. QED
      BY <3>2, <3>3
  <2>5. ASSUME pc = "rounds", generated < req.max_tokens
        PROVE  pos + req.k <= MaxSeq
    <3>1. PICK p \in Nat, m \in Nat :
            /\ p = Len(req.prompt) /\ m = req.max_tokens /\ p >= 2 /\ generated <= m
            /\ p + m + req.k <= MaxSeq /\ p + m + 1 <= MaxSeq
      BY <2>2, <2>5, RoomIs
    <3>2. PICK g \in Nat : g = generated /\ pos = p + g /\ g < m
      BY <2>2, <2>5, <3>1 DEF Places, Types
    <3>3. req.k \in 1..MaxK /\ MaxK \in Nat
      BY <2>2, RequestIs DEF Types, ServeAssumption
    <3>4. PICK k \in Nat : k = req.k
      BY <3>3
    <3>5. p + m + k <= MaxSeq
      BY <3>1, <3>4
    <3>6. p + g + k <= MaxSeq
      BY <2>2, <3>2, <3>5
    <3>7. QED
      BY <3>2, <3>4, <3>6, Zenon
  <2>6. QED
    BY <2>3, <2>4, <2>5 DEF NoOverrun
<1>2. QED
  BY <1>1, Invariance, PTL
=============================================================================
