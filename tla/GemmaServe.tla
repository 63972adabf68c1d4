----------------------------- MODULE GemmaServe ------------------------------
(***************************************************************************)
(* The Gemma branch of the serve worker (serve/mod.rs, ServerModel::Gemma) *)
(* answering one request after another on ONE decode state: admission, the *)
(* prefix cache (PrefixCache), the three-state batched prefill of          *)
(* GpuGemma4 with its graph cache, the plain decode loop with its captured *)
(* graph, and the rounds of the speculative loop as far as they touch what *)
(* outlives a request: the KV slots and the verify graphs.                 *)
(*                                                                         *)
(* As in SpecDecode a KV slot is modelled by the token whose row it holds  *)
(* and logits by the context the kernels read.                             *)
(***************************************************************************)
EXTENDS Naturals, SequencesExt

CONSTANTS
  Token,        \* tokens of prompts
  Answer,       \* the token every answer is made of
  Blank,        \* a KV slot nothing was written to
  Prompts,      \* encoded prompts
  Limits,       \* max_tokens of the requests
  MaxK,         \* speculative_k is clamped to 1..MaxK (4)
  MaxSeq,       \* context window
  Headroom,     \* slack of the admission check (8)
  MinOverlap,   \* PREFIX_CACHE_MIN_OVERLAP (32)
  CacheSlots    \* PREFIX_CACHE_SLOTS (4)

ASSUME ServeAssumption ==
  /\ MaxSeq \in Nat /\ Headroom \in Nat /\ MaxK \in Nat \ {0} /\ MaxK <= Headroom
  /\ MinOverlap \in Nat \ {0} /\ CacheSlots \in Nat \ {0}
  /\ Limits \subseteq Nat
  /\ Answer \in Token /\ Blank \notin Token
  /\ \A p \in Prompts : p \in Seq(Token) /\ Len(p) >= 2
  /\ Prompts # {} /\ Limits # {}

VARIABLES
  kv, pos,          \* Gemma4GpuState
  inflight,         \* a decode step launched and not yet waited for: the slot it writes
  slots,            \* PrefixCache: entries, least recently used first
  warm_p,           \* prefill_warm_p: lengths whose scratch is pooled
  prefill_graphs,   \* lengths with a captured prefill graph
  verify_graphs,    \* k -> base_pos the verify graph was captured at, 0: none
  decode_graph,     \* the decode step has been captured
  req, restored, generated,
  logits,           \* the context of what the last forward of this request left
  recency,          \* history: prompts stored in the cache, by last use
  pc

state == <<kv, pos, inflight>>
graphs == <<warm_p, prefill_graphs, verify_graphs, decode_graph>>
call  == <<req, restored, generated, logits>>
lru   == <<slots, recency>>
vars  == <<state, lru, graphs, call, pc>>

Request == [prompt : Prompts, max_tokens : Limits, spec : BOOLEAN, k : 1..MaxK]

NoRequest == CHOOSE r \in Request : TRUE
NoLogits == <<>>

Rows == Token \cup {Blank}

\* Mutant: the slack for a whole verify round is forgotten.
AdmittedTight(r) == Len(r.prompt) + r.max_tokens <= MaxSeq + 1

\* The context-window check.
Admitted(r) == Len(r.prompt) + r.max_tokens + Headroom <= MaxSeq

-----------------------------------------------------------------------------
(* The decode state                                                         *)

Context(cache, n) == [i \in 1..n |-> cache[i]]

\* Rows after everything launched has run.  The stream executes in order, and
\* synchronous copies wait for it, so every later use of the state sees these.
Drained == IF inflight = 0 THEN kv ELSE [kv EXCEPT ![inflight] = Answer]

\* The rows of a prefill: always at positions 0..P-1 (rope_prefill,
\* kv_quant_prefill, attention base 0).
PrefillRows(tokens) ==
  [j \in 1..MaxSeq |-> IF j <= Len(tokens) THEN tokens[j] ELSE Drained[j]]

\* Mutant: the early return of the replay branch forgets state.pos.
PrefillPosKept(tokens) == IF Len(tokens) \in prefill_graphs THEN pos ELSE Len(tokens)

\* Every branch of the prefill leaves the position at P.
PrefillPos(tokens) == Len(tokens)

\* The graph cache after a prefill of length p: first call warms the scratch
\* pool, second captures, later ones replay.
PrefillGraphs(p) ==
  /\ warm_p' = warm_p \cup {p}
  /\ prefill_graphs' = IF p \in warm_p THEN prefill_graphs \cup {p} ELSE prefill_graphs

\* forward_token after n rows of `cache`.
ForwardAfter(cache, n, t) == [cache EXCEPT ![n + 1] = t]

-----------------------------------------------------------------------------
(* The prefix cache                                                         *)

CommonPrefix(s, t) ==
  CHOOSE n \in 0..Len(s) :
    /\ n <= Len(t) /\ SubSeq(s, 1, n) = SubSeq(t, 1, n)
    /\ n < Len(s) /\ n < Len(t) => s[n + 1] # t[n + 1]

Overlap(i) == CommonPrefix(slots[i].tokens, req.prompt)

\* Slots worth restoring: long enough, and a suffix is left to prefill.
Candidates ==
  {i \in DOMAIN slots : Overlap(i) >= MinOverlap /\ Overlap(i) < Len(req.prompt)}

\* best_match: the first slot with the longest overlap.
BestMatch ==
  CHOOSE i \in Candidates :
    \A j \in Candidates : Overlap(j) < Overlap(i) \/ (Overlap(j) = Overlap(i) /\ i <= j)

\* Mutant: a hit does not refresh the slot.
TouchNot(s, i) == s

\* touch: the slot becomes the most recently used one.
Touch(s, i) == Append(RemoveAt(s, i), s[i])

First(I) == CHOOSE i \in I : \A j \in I : i <= j
Without(s, I) == IF I = {} THEN s ELSE RemoveAt(s, First(I))

\* insert: an entry for the same prompt is replaced, else the oldest makes room.
Insert(s, e) ==
  LET same == {i \in DOMAIN s : s[i].tokens = req.prompt}
  IN Append(IF same = {} /\ Len(s) >= CacheSlots THEN Tail(s) ELSE Without(s, same), e)

\* The history: p is now the prompt used last.
UsedLast(p) == Append(Without(recency, {i \in DOMAIN recency : recency[i] = p}), p)

-----------------------------------------------------------------------------
(* One request                                                              *)

Init ==
  /\ kv = [j \in 1..MaxSeq |-> Blank] /\ pos = 0 /\ inflight = 0
  /\ slots = <<>> /\ recency = <<>>
  /\ warm_p = {} /\ prefill_graphs = {}
  /\ verify_graphs = [k \in 1..MaxK |-> 0] /\ decode_graph = FALSE
  /\ req = NoRequest /\ restored = FALSE /\ generated = 0 /\ logits = NoLogits
  /\ pc = "idle"

\* A request reaches the worker; one that does not fit is refused and leaves no
\* trace.
Receive ==
  /\ pc = "idle"
  /\ req' \in {r \in Request : Admitted(r)}
  /\ pc' = "lookup"
  /\ UNCHANGED <<state, lru, graphs, restored, generated, logits>>

\* Miss: the position goes back to 0, rows stay where they are.
Reset ==
  /\ pc = "lookup" /\ Candidates = {}
  /\ pos' = 0
  /\ pc' = "prefill"
  /\ UNCHANGED <<kv, inflight, lru, graphs, call>>

\* Hit: the slot's rows are copied back and cut at the common prefix.
Restore ==
  /\ pc = "lookup" /\ Candidates # {}
  /\ LET e == slots[BestMatch] IN
       /\ kv' = [j \in 1..MaxSeq |-> IF j <= Len(e.rows) THEN e.rows[j] ELSE Drained[j]]
       /\ pos' = Overlap(BestMatch)
  /\ inflight' = 0
  /\ slots' = Touch(slots, BestMatch)
  /\ recency' = UsedLast(slots[BestMatch].tokens)
  /\ restored' = TRUE
  /\ pc' = "prefill"
  /\ UNCHANGED <<graphs, req, generated, logits>>

\* The plain path prefills the suffix after a hit, the whole prompt otherwise.
ToPrefill == IF restored THEN SubSeq(req.prompt, pos + 1, Len(req.prompt)) ELSE req.prompt

PlainPrefill ==
  /\ pc = "prefill" /\ ~req.spec /\ ToPrefill # <<>>
  /\ kv' = PrefillRows(ToPrefill)
  /\ pos' = PrefillPos(ToPrefill)
  /\ inflight' = 0
  /\ logits' = ToPrefill
  /\ PrefillGraphs(Len(ToPrefill))
  /\ pc' = "snapshot"
  /\ UNCHANGED <<lru, verify_graphs, decode_graph, req, restored, generated>>

\* The post-prompt state goes into the prefix cache under the prompt, unless the
\* device has no memory left for it; the decode step is captured the first time.
Snapshot ==
  /\ pc = "snapshot"
  /\ \/ /\ slots' = Insert(slots, [tokens |-> req.prompt, rows |-> Context(kv, pos)])
        /\ recency' = UsedLast(req.prompt)
     \/ UNCHANGED lru
  /\ decode_graph' \in {decode_graph, TRUE}
  /\ pc' = "decode"
  /\ UNCHANGED <<state, warm_p, prefill_graphs, verify_graphs, call>>

\* The speculative path prefills all but the last token, whatever was restored,
\* forwards the last one, and captures the verify graph of this k if it is new.
SpecPrefill ==
  /\ pc = "prefill" /\ req.spec
  /\ LET head == Front(req.prompt)
         rows == ForwardAfter(PrefillRows(head), PrefillPos(head), Last(req.prompt))
         n    == PrefillPos(head) + 1
     IN /\ kv' = rows
        /\ pos' = n
        /\ logits' = Context(rows, n)
        /\ PrefillGraphs(Len(head))
        /\ verify_graphs' = [verify_graphs EXCEPT ![req.k] = IF @ = 0 THEN n ELSE @]
  /\ inflight' = 0
  /\ pc' = "rounds"
  /\ UNCHANGED <<lru, decode_graph, req, restored, generated>>

\* Plain decode: a token is picked and its step enqueued on the captured graph
\* (or run at once without one), before its text goes to the client.
Launch ==
  /\ pc = "decode" /\ generated < req.max_tokens
  /\ generated' = generated + 1
  /\ IF decode_graph THEN pos' = pos + 1 /\ inflight' = pos + 1
                     ELSE UNCHANGED <<pos, inflight>>
  /\ pc' = "deliver"
  /\ UNCHANGED <<kv, lru, graphs, req, restored, logits>>

\* The client took the text: the step is waited for (or run now) and its logits
\* are read.
Collect ==
  /\ pc = "deliver"
  /\ LET rows == IF decode_graph THEN Drained ELSE ForwardAfter(kv, pos, Answer)
         n    == IF decode_graph THEN pos ELSE pos + 1
     IN /\ kv' = rows /\ pos' = n
        /\ logits' = Context(rows, n)
  /\ inflight' = 0
  /\ pc' = "decode"
  /\ UNCHANGED <<lru, graphs, req, restored, generated>>

\* One speculative round: k rows are verified at pos, n tokens are committed,
\* the rows after them are left behind.  SpecDecode has the details.
SpecRound ==
  /\ pc = "rounds" /\ generated < req.max_tokens
  /\ \E n \in 1..req.k + 1 :
       /\ generated + n <= req.max_tokens
       /\ generated' = generated + n
       /\ kv' = [j \in 1..MaxSeq |-> IF j \in pos + 1..pos + req.k \/ j = pos + n THEN Answer ELSE kv[j]]
       /\ pos' = pos + n
       /\ logits' = Context(kv', pos + n)
  /\ UNCHANGED <<inflight, lru, graphs, req, restored, pc>>

\* generate returns: its locals are gone, state, cache and graphs stay.
Return ==
  /\ pc' = "idle"
  /\ req' = NoRequest /\ restored' = FALSE /\ generated' = 0 /\ logits' = NoLogits
  /\ UNCHANGED <<state, lru, graphs>>

\* The answer ends: end of sequence, limit, deadline or, with a step still in
\* flight, a client that went away.
Finish ==
  /\ pc \in {"decode", "deliver", "rounds"}
  /\ Return

\* An allocation, copy or launch fails, or an assertion panics, before the answer
\* has begun; the worker goes on with the state as it is.  Later failures look
\* like Finish.
Abort ==
  /\ pc \in {"lookup", "prefill", "snapshot"}
  /\ Return

\* The device finishes the step in flight.
StreamProgress ==
  /\ inflight # 0
  /\ kv' = Drained /\ inflight' = 0
  /\ UNCHANGED <<pos, lru, graphs, call, pc>>

Next == \/ Receive \/ Reset \/ Restore \/ PlainPrefill \/ Snapshot \/ SpecPrefill
        \/ Launch \/ Collect \/ SpecRound \/ Finish \/ Abort \/ StreamProgress

Spec == Init /\ [][Next]_vars
-----------------------------------------------------------------------------
(* Properties                                                               *)

\* Types; the prefix cache never holds more than CacheSlots snapshots.
TypeOK ==
  /\ kv \in [1..MaxSeq -> Rows] /\ pos \in Nat /\ inflight \in 0..MaxSeq
  /\ logits \in Seq(Rows)
  /\ Len(slots) <= CacheSlots
  /\ \A i \in DOMAIN slots : slots[i].tokens \in Prompts /\ slots[i].rows \in Seq(Rows)
  /\ warm_p \subseteq 1..MaxSeq /\ prefill_graphs \subseteq 1..MaxSeq
  /\ verify_graphs \in [1..MaxK -> 0..MaxSeq] /\ decode_graph \in BOOLEAN
  /\ req \in Request /\ restored \in BOOLEAN /\ generated \in Nat
  /\ pc \in {"idle", "lookup", "prefill", "snapshot", "decode", "deliver", "rounds"}

Committed == req.prompt \o [i \in 1..generated |-> Answer]

\* The places where the next token is about to be picked.
Answering == pc \in {"snapshot", "decode", "rounds"}

\* A request served without reusing a snapshot, and every speculative one, is
\* answered from exactly its own prompt and output: no row, graph, step in flight
\* or position that an earlier, aborted or abandoned request left behind is ever
\* attended to.  On the speculative path this is what SpecDecode starts from.
ColdContextExact ==
  Answering /\ (req.spec \/ ~restored) =>
    Context(kv, pos) = Committed /\ logits = Committed

\* The slots are the CacheSlots most recently used prompts, in order: hits and
\* re-insertions refresh, evictions take the oldest, nothing is held twice.
LruExact ==
  /\ Len(slots) = IF Len(recency) < CacheSlots THEN Len(recency) ELSE CacheSlots
  /\ \A i \in DOMAIN slots :
       slots[i].tokens = recency[Len(recency) - Len(slots) + i]

\* Neither a decode step nor a verify batch of an admitted request writes past
\* the end of the cache (forward_token itself checks nothing), and a prefill
\* after a hit always has a token to process, as it asserts.
NoOverrun ==
  /\ pos <= MaxSeq
  /\ pc = "prefill" /\ ~req.spec => ToPrefill # <<>>
  /\ pc = "rounds" /\ generated < req.max_tokens => pos + req.k <= MaxSeq

\* What the comment on the dispatch says: after a hit the common prefix is in the
\* cache and the suffix is prefilled behind it.
HitContextExact ==
  Answering /\ restored /\ ~req.spec =>
    Context(kv, pos) = Committed /\ logits = Committed

\* What the comments on the verify graph say: one capture is good for every later
\* round, because the position it sized its scratch for is an upper bound.
ReplayFitsCapture ==
  pc = "rounds" /\ generated < req.max_tokens => pos <= verify_graphs[req.k]
=============================================================================
