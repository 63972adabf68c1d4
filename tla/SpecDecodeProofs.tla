-------------------------- MODULE SpecDecodeProofs ---------------------------
(***************************************************************************)
(* Proofs about the speculative-decode loop, for every vocabulary, target  *)
(* model, prompt, draft length and cache size the assumptions of           *)
(* SpecDecode allow.                                                       *)
(***************************************************************************)
EXTENDS SpecDecode, SequenceTheorems, TLAPS

-----------------------------------------------------------------------------
(* The inductive invariant                                                  *)

\* The plain types of the variables.
Types ==
  /\ req \in Request /\ req.prompt \in Prompts /\ req.max_tokens \in Limits
  /\ Admitted(req.prompt, req.max_tokens)
  /\ kv \in [1..MaxSeq -> Token \cup {Blank}] /\ pos \in 0..MaxSeq
  /\ hidden \in Seq(Token) /\ verify_logits \in Seq(Token)
  /\ drafted \in Seq(Token) /\ low \in BOOLEAN
  /\ verify_batch \in Seq(Seq(Token))
  /\ pre_verify_pos \in Nat /\ accepted \in Nat
  /\ generated \in Seq(Token) /\ last_tok \in Token /\ hit_eos \in BOOLEAN
  /\ accept_window \in Seq(Nat) /\ mtp_off \in BOOLEAN /\ rounds \in Seq(Nat)
  /\ pc \in {"loop", "draft", "accept", "bonus", "account", "done"}
  /\ pc \in {"accept", "bonus", "account"} => Len(drafted) >= 1
  /\ Len(generated) <= req.max_tokens

\* The cache, the pending logits, the drafter's seed and the last token all
\* stand at the last committed token.
Synced ==
  /\ pos = Len(Committed)
  /\ \A j \in 1..pos : kv[j] = Committed[j]
  /\ verify_logits = Committed
  /\ hidden = Committed
  /\ last_tok = Committed[Len(Committed)]

\* A batch has been verified and `accepted` of its drafts are committed.
Verified ==
  /\ Len(drafted) <= req.k
  /\ Len(verify_batch) = Len(drafted)
  /\ pos = pre_verify_pos + Len(drafted)
  /\ Len(Committed) = pre_verify_pos + accepted
  /\ accepted <= Len(drafted)
  /\ \A j \in 1..pre_verify_pos + accepted : kv[j] = Committed[j]
  /\ \A i \in 1..Len(drafted) : kv[pre_verify_pos + i] = drafted[i]
  /\ \A i \in 1..Len(drafted) : verify_batch[i] = Context(kv, pre_verify_pos + i)
  /\ hidden = Context(kv, pos)
  /\ accepted = 0 => verify_logits = Committed
  /\ last_tok = Committed[Len(Committed)]

EosSeen == \E i \in 1..Len(generated) : generated[i] = Eos

Phase ==
  /\ pc = "loop" => ~EosSeen /\ (More => Synced)
  /\ pc = "draft" => ~EosSeen /\ More /\ Synced /\ Len(drafted) <= req.k
                     /\ (low => Len(drafted) >= 1)
  /\ pc = "accept" => ~EosSeen /\ More /\ Verified /\ accepted < Len(drafted)
  /\ pc = "bonus" => ~EosSeen /\ ~hit_eos /\ More /\ Verified /\ accepted = Len(drafted)
  /\ pc = "account" => /\ hit_eos <=> EosSeen
                       /\ ~hit_eos /\ More => Synced
  /\ pc = "done" => EosSeen \/ ~More

IInv == Types /\ Phase

-----------------------------------------------------------------------------
(* Lemmas about contexts and the output                                     *)

\* The contexts the model is asked about fit the cache, so what it picks is a
\* token.
LEMMA PicksAreTokens ==
  ASSUME NEW c \in Seq(Token), Len(c) <= MaxSeq, req \in Request
  PROVE  /\ Picks(c) \subseteq Token
         /\ Argmax(c) \in Picks(c)
<1>1. c \in Contexts
  BY SizeAssumption DEF Contexts
<1>2. QED
  BY <1>1, ModelAssumption DEF Picks, Request

\* Appending to the second part of a concatenation appends to the whole.
LEMMA AppendInside ==
  ASSUME NEW S, NEW s \in Seq(S), NEW g \in Seq(S), NEW t \in S
  PROVE  s \o Append(g, t) = Append(s \o g, t)
OBVIOUS

\* What appending one element does.
LEMMA AppendFacts ==
  ASSUME NEW S, NEW s \in Seq(S), NEW t \in S
  PROVE  /\ Append(s, t) \in Seq(S)
         /\ Len(Append(s, t)) = Len(s) + 1
         /\ Append(s, t)[Len(Append(s, t))] = t
         /\ \A j \in 1..Len(s) : Append(s, t)[j] = s[j]
OBVIOUS

\* Committing a token appends it to what the cache has to hold.
LEMMA CommitAppends ==
  ASSUME req \in Request, generated \in Seq(Token), NEW t \in Token,
         Commit(t), req' = req
  PROVE  /\ generated' \in Seq(Token)
         /\ Len(generated') = Len(generated) + 1
         /\ Committed \in Seq(Token)
         /\ Len(Committed) = Len(req.prompt) + Len(generated)
         /\ Committed' = Append(Committed, t)
         /\ Len(Committed') = Len(Committed) + 1
         /\ Committed'[Len(Committed')] = t
         /\ \A j \in 1..Len(Committed) : Committed'[j] = Committed[j]
         /\ EosSeen' <=> EosSeen \/ t = Eos
<1>0. req.prompt \in Seq(Token)
  BY DEF Request
<1>1. generated' = Append(generated, t)
  BY DEF Commit
<1>2. Committed' = Append(Committed, t)
  <2>1. Committed' = req.prompt \o generated'
    BY DEF Committed
  <2> DEFINE p == req.prompt
  <2>2. p \in Seq(Token)
    BY <1>0
  <2> HIDE DEF p
  <2>3. p \o Append(generated, t) = Append(p \o generated, t)
    BY <2>2, AppendInside
  <2>4. QED
    BY <1>1, <2>1, <2>3 DEF Committed, p
<1>3. /\ Committed \in Seq(Token)
      /\ Len(Committed) = Len(req.prompt) + Len(generated)
  BY <1>0 DEF Committed
<1>4. EosSeen' <=> EosSeen \/ t = Eos
  <2>1. ASSUME EosSeen' PROVE EosSeen \/ t = Eos
    BY <1>1, <2>1 DEF EosSeen
  <2>2. ASSUME EosSeen PROVE EosSeen'
    BY <1>1, <2>2 DEF EosSeen
  <2>3. ASSUME t = Eos PROVE EosSeen'
    <3>1. generated'[Len(generated) + 1] = Eos /\ Len(generated') = Len(generated) + 1
      BY <1>1, <2>3
    <3>2. QED
      BY <3>1 DEF EosSeen
  <2>4. QED
    BY <2>1, <2>2, <2>3
<1>5. /\ Committed' \in Seq(Token)
      /\ Len(Committed') = Len(Committed) + 1
      /\ Committed'[Len(Committed')] = t
      /\ \A j \in 1..Len(Committed) : Committed'[j] = Committed[j]
  BY <1>2, <1>3, AppendFacts
<1>6. generated' \in Seq(Token) /\ Len(generated') = Len(generated) + 1
  BY <1>1
<1>7. QED
  BY <1>2, <1>3, <1>4, <1>5, <1>6

\* The cache rows of the committed tokens, read as a context, are those tokens.
LEMMA ContextOfRows ==
  ASSUME NEW c \in Seq(Token), NEW cache, \A j \in 1..Len(c) : cache[j] = c[j]
  PROVE  Context(cache, Len(c)) = c
BY DEF Context

\* Forwarding a token after n rows that hold c gives the context c plus t.
LEMMA ForwardContext ==
  ASSUME NEW c \in Seq(Token), NEW t \in Token, Len(c) + 1 <= MaxSeq,
         kv \in [1..MaxSeq -> Token \cup {Blank}],
         \A j \in 1..Len(c) : kv[j] = c[j],
         Forward(Len(c), t)
  PROVE  /\ kv' \in [1..MaxSeq -> Token \cup {Blank}]
         /\ pos' = Len(c) + 1 /\ pos' \in 0..MaxSeq
         /\ hidden' = Append(c, t)
         /\ \A j \in 1..pos' : kv'[j] = Append(c, t)[j]
<1>1. \A j \in 1..Len(c) + 1 : kv'[j] = Append(c, t)[j]
  BY SizeAssumption DEF Forward
<1>2. Append(c, t) \in Seq(Token) /\ Len(Append(c, t)) = Len(c) + 1
  OBVIOUS
<1>3. Context(kv', Len(c) + 1) = Append(c, t)
  BY <1>1, <1>2, ContextOfRows
<1>4. kv' \in [1..MaxSeq -> Token \cup {Blank}]
  BY DEF Forward
<1>5. pos' = Len(c) + 1 /\ pos' \in 0..MaxSeq
  BY SizeAssumption DEF Forward
<1>6. hidden' = Append(c, t)
  BY <1>3 DEF Forward
<1>7. QED
  BY <1>1, <1>4, <1>5, <1>6
-----------------------------------------------------------------------------
(* Every action preserves the invariant                                     *)

\* What the types and the admission check say about sizes.
LEMMA Sizes ==
  ASSUME Types
  PROVE  /\ req.prompt \in Seq(Token) /\ Len(req.prompt) >= 2
         /\ req.max_tokens \in Nat /\ req.k \in 1..MaxK
         /\ Len(req.prompt) + req.max_tokens + Headroom <= MaxSeq
         /\ Committed \in Seq(Token)
         /\ Len(Committed) = Len(req.prompt) + Len(generated)
         /\ Len(Committed) + Headroom <= MaxSeq
         /\ Len(Committed) \in Nat /\ Len(Committed) >= 2
         /\ Committed[Len(Committed)] \in Token
<1>1. /\ req.prompt \in Seq(Token) /\ Len(req.prompt) >= 2
      /\ req.max_tokens \in Nat /\ req.k \in 1..MaxK
      /\ Len(req.prompt) + req.max_tokens + Headroom <= MaxSeq
  BY RequestAssumption DEF Types, Request, Admitted
<1> DEFINE p == req.prompt
<1>2. p \in Seq(Token) /\ Len(p) >= 2
  BY <1>1
<1>3. generated \in Seq(Token) /\ Len(generated) <= req.max_tokens
  BY DEF Types
<1> HIDE DEF p
<1>4. p \o generated \in Seq(Token) /\ Len(p \o generated) = Len(p) + Len(generated)
  BY <1>2, <1>3
<1>5. Committed \in Seq(Token) /\ Len(Committed) = Len(req.prompt) + Len(generated)
  BY <1>4 DEF Committed, p
<1>6. Len(Committed) \in Nat /\ Len(Committed) >= 2 /\ Len(Committed) + Headroom <= MaxSeq
  BY <1>1, <1>3, <1>5, SizeAssumption, SMTT(30)
<1>7. QED
  BY <1>1, <1>5, <1>6

\* The call starts synced: the prompt is in the cache.
LEMMA InitIInv == Init => IInv
<1> SUFFICES ASSUME Init PROVE IInv
  OBVIOUS
<1>1. /\ req.prompt \in Prompts /\ req.max_tokens \in Limits
      /\ req.sampling \in BOOLEAN /\ req.k \in 1..MaxK
      /\ req.p_min \in BOOLEAN /\ req.no_bonus \in BOOLEAN
      /\ req = [prompt |-> req.prompt, max_tokens |-> req.max_tokens, sampling |-> req.sampling,
                k |-> req.k, p_min |-> req.p_min, no_bonus |-> req.no_bonus]
  BY DEF Init
<1> DEFINE p == req.prompt
<1>2. p \in Seq(Token) /\ Len(p) >= 2 /\ Len(p) <= MaxSeq
  <2>1. p \in Seq(Token) /\ Len(p) >= 2 /\ req.max_tokens \in Nat
    BY <1>1, RequestAssumption
  <2>2. Len(p) + req.max_tokens + Headroom <= MaxSeq
    BY DEF Init, Admitted
  <2> HIDE DEF p
  <2>3. QED
    BY <2>1, <2>2, SizeAssumption
<1>3. req \in Request
  <2>1. req.prompt \in Seq(Token) /\ req.max_tokens \in Nat
    BY <1>1, RequestAssumption
  <2>2. QED
    BY <1>1, <2>1 DEF Request
<1>4. pos = Len(p) /\ kv = [j \in 1..MaxSeq |-> IF j <= pos THEN p[j] ELSE Blank]
      /\ hidden = Context(kv, pos) /\ verify_logits = hidden /\ last_tok = p[pos]
      /\ generated = <<>>
  BY DEF Init
<1>5. Committed = p
  BY <1>2, <1>4 DEF Committed
<1> HIDE DEF p
<1>6. \A j \in 1..Len(p) : kv[j] = p[j]
  BY <1>2, <1>4, SizeAssumption
<1>7. hidden = p
  BY <1>2, <1>4, <1>6, ContextOfRows
<1>8. Synced
  BY <1>2, <1>4, <1>5, <1>6, <1>7 DEF Synced
<1>9. Types
  <2>1. kv \in [1..MaxSeq -> Token \cup {Blank}] /\ pos \in 0..MaxSeq /\ last_tok \in Token
    BY <1>2, <1>4, SizeAssumption
  <2>2. pre_verify_pos \in Nat
    BY <1>2, <1>4 DEF Init
  <2>3. Len(generated) <= req.max_tokens
    BY <1>1, <1>4, RequestAssumption
  <2>4. Admitted(req.prompt, req.max_tokens) /\ drafted = <<>> /\ low = FALSE /\ verify_batch = <<>>
        /\ accepted = 0 /\ hit_eos = FALSE /\ accept_window = <<>> /\ mtp_off = FALSE
        /\ rounds = <<>> /\ pc = "loop"
    BY DEF Init
  <2>5. /\ drafted \in Seq(Token) /\ verify_batch \in Seq(Seq(Token)) /\ generated \in Seq(Token)
        /\ accept_window \in Seq(Nat) /\ rounds \in Seq(Nat)
        /\ hidden \in Seq(Token) /\ verify_logits \in Seq(Token)
    BY <1>2, <1>4, <1>7, <2>4
  <2>6. QED
    BY <1>1, <1>3, <2>1, <2>2, <2>3, <2>4, <2>5 DEF Types
<1>10. ~EosSeen /\ pc = "loop"
  BY <1>4 DEF EosSeen, Init
<1>11. QED
  BY <1>8, <1>9, <1>10 DEF IInv, Phase

\* What depends on the output only is unchanged when the output is.
LEMMA OutputFrame ==
  ASSUME req' = req, generated' = generated
  PROVE  Committed' = Committed /\ (EosSeen' <=> EosSeen) /\ (More' <=> More)
BY DEF Committed, EosSeen, More

\* Forwarding a token over the committed rows and committing it leaves cache,
\* logits, seed and output in step: the common half of plain decode, rejection
\* and bonus.
LEMMA ForwardCommitSyncs ==
  ASSUME Types, NEW t \in Token, req' = req,
         \A j \in 1..Len(Committed) : kv[j] = Committed[j],
         Forward(Len(Committed), t), verify_logits' = hidden', Commit(t)
  PROVE  /\ Synced'
         /\ kv' \in [1..MaxSeq -> Token \cup {Blank}] /\ pos' \in 0..MaxSeq
         /\ hidden' \in Seq(Token) /\ verify_logits' \in Seq(Token)
<1>1. /\ Committed \in Seq(Token) /\ Len(Committed) + 1 <= MaxSeq
      /\ req \in Request /\ generated \in Seq(Token)
      /\ kv \in [1..MaxSeq -> Token \cup {Blank}]
  <2>1. Len(Committed) + Headroom <= MaxSeq /\ Committed \in Seq(Token) /\ Len(Committed) \in Nat
    BY Sizes
  <2>2. QED
    BY <2>1, SizeAssumption DEF Types
<1>2. /\ kv' \in [1..MaxSeq -> Token \cup {Blank}]
      /\ pos' = Len(Committed) + 1 /\ pos' \in 0..MaxSeq
      /\ hidden' = Append(Committed, t)
      /\ \A j \in 1..pos' : kv'[j] = Append(Committed, t)[j]
  BY <1>1, ForwardContext
<1>3. /\ Committed' = Append(Committed, t)
      /\ Len(Committed') = Len(Committed) + 1
      /\ Committed'[Len(Committed')] = t
  BY <1>1, CommitAppends
<1>4. last_tok' = t
  BY DEF Commit
<1>5. Synced'
  BY <1>2, <1>3, <1>4 DEF Synced
<1>6. hidden' \in Seq(Token)
  BY <1>1, <1>2
<1>7. QED
  BY <1>2, <1>5, <1>6

\* Committing a token while there is room keeps the output well typed and
\* within its limit.
LEMMA CommitTypes ==
  ASSUME Types, More, NEW t \in Token, req' = req, Commit(t)
  PROVE  /\ generated' \in Seq(Token) /\ last_tok' \in Token /\ hit_eos' \in BOOLEAN
         /\ Len(generated') <= req.max_tokens
         /\ (hit_eos' <=> t = Eos)
         /\ (EosSeen' <=> EosSeen \/ t = Eos)
<1>1. req \in Request /\ generated \in Seq(Token) /\ req.max_tokens \in Nat
  BY Sizes DEF Types
<1>2. generated' \in Seq(Token) /\ Len(generated') = Len(generated) + 1
  BY <1>1, CommitAppends
<1>3. EosSeen' <=> EosSeen \/ t = Eos
  BY <1>1, CommitAppends
<1>4. last_tok' = t /\ (hit_eos' <=> t = Eos) /\ hit_eos' \in BOOLEAN
  BY DEF Commit
<1>5. Len(generated') <= req.max_tokens
  BY <1>1, <1>2 DEF More
<1>6. QED
  BY <1>2, <1>3, <1>4, <1>5

LEMMA LoopExitIInv == IInv /\ LoopExit => IInv'
<1> SUFFICES ASSUME IInv, LoopExit PROVE IInv'
  OBVIOUS
<1>1. Types'
  BY DEF IInv, Types, LoopExit, target, draft, verify, output, adapt
<1>2. pc' = "done" /\ ~More /\ (More' <=> More)
  BY OutputFrame DEF LoopExit, output
<1>3. QED
  BY <1>1, <1>2 DEF IInv, Phase

LEMMA StartRoundIInv == IInv /\ StartRound => IInv'
<1> SUFFICES ASSUME IInv, StartRound PROVE IInv'
  OBVIOUS
<1>1. Types'
  <2>1. drafted' = <<>> /\ low' = FALSE /\ pc' = "draft"
    BY DEF StartRound
  <2>2. UNCHANGED <<req, target, verify_logits, verify, output, adapt>>
    BY DEF StartRound
  <2>3. drafted' \in Seq(Token)
    BY <2>1
  <2>4. low' \in BOOLEAN
    BY <2>1
  <2>5. QED
    BY <2>1, <2>2, <2>3, <2>4 DEF IInv, Types, target, verify, output, adapt
<1>2. /\ ~EosSeen /\ More /\ Synced
      /\ Committed' = Committed /\ (EosSeen' <=> EosSeen) /\ (More' <=> More)
  <2>1. ~EosSeen /\ More /\ Synced
    BY DEF IInv, Phase, StartRound
  <2>2. req' = req /\ generated' = generated
    BY DEF StartRound, output
  <2>3. QED
    BY <2>1, <2>2, OutputFrame
<1>3. Synced'
  <2>1. UNCHANGED <<pos, kv, hidden, verify_logits, last_tok>>
    BY DEF StartRound, target, output
  <2>2. QED
    BY <1>2, <2>1 DEF Synced
<1>4. pc' = "draft" /\ Len(drafted') = 0 /\ low' = FALSE /\ req.k \in 1..MaxK /\ req' = req
  BY Sizes DEF StartRound, IInv
<1>5. QED
  <2>1. Len(drafted') <= req'.k
    BY <1>4, SizeAssumption
  <2>2. QED
    BY <1>1, <1>2, <1>3, <1>4, <2>1 DEF IInv, Phase

LEMMA DraftStepIInv == IInv /\ DraftStep => IInv'
<1> SUFFICES ASSUME IInv, DraftStep PROVE IInv'
  OBVIOUS
<1>1. PICK d \in Token : drafted' = Append(drafted, d)
  BY DEF DraftStep, Drafts
<1>2. /\ drafted \in Seq(Token) /\ drafted' \in Seq(Token) /\ Len(drafted') = Len(drafted) + 1
      /\ low' \in BOOLEAN
  <2>1. drafted \in Seq(Token) /\ req.p_min \in BOOLEAN
    BY DEF IInv, Types, Request
  <2>2. low' \in BOOLEAN
    BY <2>1 DEF DraftStep
  <2>3. QED
    BY <1>1, <2>1, <2>2
<1>3. pc = "draft" /\ pc' = "draft" /\ req' = req
  BY DEF DraftStep
<1>4. Types'
  BY <1>2, <1>3 DEF IInv, Types, DraftStep, target, draft, verify, output, adapt
<1>5. /\ ~EosSeen /\ More /\ Synced /\ Len(drafted) <= req.k
      /\ Committed' = Committed /\ (EosSeen' <=> EosSeen) /\ (More' <=> More)
  <2>1. ~EosSeen /\ More /\ Synced /\ Len(drafted) <= req.k
    BY <1>3 DEF IInv, Phase
  <2>2. req' = req /\ generated' = generated
    BY DEF DraftStep, output
  <2>3. QED
    BY <2>1, <2>2, OutputFrame
<1>6. Synced'
  <2>1. UNCHANGED <<pos, kv, hidden, verify_logits, last_tok>>
    BY DEF DraftStep, target, output
  <2>2. QED
    BY <1>5, <2>1 DEF Synced
<1>7. Len(drafted') <= req.k /\ Len(drafted') >= 1
  <2>1. Len(drafted) # req.k /\ req.k \in 1..MaxK
    BY Sizes DEF DraftStep, RoundDrafted, IInv
  <2>2. QED
    BY <1>2, <1>5, <2>1, SizeAssumption
<1>8. QED
  BY <1>3, <1>4, <1>5, <1>6, <1>7 DEF IInv, Phase

LEMMA PlainStepIInv == IInv /\ PlainStep => IInv'
<1> SUFFICES ASSUME IInv, PlainStep PROVE IInv'
  OBVIOUS
<1>1. pc = "loop" /\ More /\ ~EosSeen /\ Synced /\ Types
  BY DEF PlainStep, IInv, Phase
<1>2. /\ Committed \in Seq(Token) /\ Len(Committed) <= MaxSeq /\ Len(Committed) \in Nat
      /\ req \in Request
  BY <1>1, Sizes, SizeAssumption DEF Types
<1>3. req' = req /\ UNCHANGED <<draft, verify, adapt>>
  BY DEF PlainStep
<1>4. PICK pick \in Picks(verify_logits) :
        /\ Commit(pick)
        /\ IF pick = Eos \/ Len(generated') >= req.max_tokens
             THEN pc' = "done" /\ UNCHANGED <<target, verify_logits>>
             ELSE Forward(pos, pick) /\ verify_logits' = hidden' /\ UNCHANGED pc
  BY DEF PlainStep
<1>5. pick \in Token
  BY <1>1, <1>2, PicksAreTokens DEF Synced
<1>6. /\ generated' \in Seq(Token) /\ last_tok' \in Token /\ hit_eos' \in BOOLEAN
      /\ Len(generated') <= req.max_tokens
      /\ (EosSeen' <=> EosSeen \/ pick = Eos)
  BY <1>1, <1>3, <1>4, <1>5, CommitTypes
<1>7. CASE pick = Eos \/ Len(generated') >= req.max_tokens
  <2>1. pc' = "done" /\ UNCHANGED <<target, verify_logits>>
    BY <1>4, <1>7
  <2>2. Types'
    BY <1>1, <1>3, <1>6, <2>1 DEF Types, target, draft, verify, adapt
  <2>3. CASE pick = Eos
    BY <1>6, <2>1, <2>2, <2>3 DEF IInv, Phase
  <2>4. CASE Len(generated') >= req.max_tokens
    <3>1. Len(generated') \in Nat /\ req.max_tokens \in Nat
      BY <1>1, <1>6, Sizes
    <3>2. ~More'
      BY <1>3, <2>4, <3>1 DEF More
    <3>3. QED
      BY <2>1, <2>2, <3>2 DEF IInv, Phase
  <2>5. QED
    BY <1>7, <2>3, <2>4
<1>8. CASE ~(pick = Eos \/ Len(generated') >= req.max_tokens)
  <2>1. Forward(pos, pick) /\ verify_logits' = hidden' /\ pc' = pc
    BY <1>4, <1>8
  <2>2. Forward(Len(Committed), pick) /\ \A j \in 1..Len(Committed) : kv[j] = Committed[j]
    BY <1>1, <2>1 DEF Synced
  <2>3. /\ Synced'
        /\ kv' \in [1..MaxSeq -> Token \cup {Blank}] /\ pos' \in 0..MaxSeq
        /\ hidden' \in Seq(Token) /\ verify_logits' \in Seq(Token)
    BY <1>1, <1>3, <1>4, <1>5, <2>1, <2>2, ForwardCommitSyncs
  <2>4. Types'
    BY <1>1, <1>3, <1>6, <2>1, <2>3 DEF Types, draft, verify, adapt
  <2>5. ~EosSeen'
    BY <1>1, <1>6, <1>8
  <2>6. QED
    BY <1>1, <2>1, <2>3, <2>4, <2>5 DEF IInv, Phase
<1>9. QED
  BY <1>7, <1>8

LEMMA VerifyIInv == IInv /\ Verify => IInv'
<1> SUFFICES ASSUME IInv, Verify PROVE IInv'
  OBVIOUS
<1> DEFINE n == Len(drafted)
<1>1. /\ pc = "draft" /\ More /\ ~EosSeen /\ Synced /\ Types /\ n <= req.k
      /\ (low => n >= 1) /\ RoundDrafted
  BY DEF Verify, IInv, Phase
<1>2. /\ Committed \in Seq(Token) /\ Len(Committed) + Headroom <= MaxSeq /\ Len(Committed) \in Nat
      /\ req.k \in 1..MaxK /\ drafted \in Seq(Token) /\ n \in Nat
      /\ kv \in [1..MaxSeq -> Token \cup {Blank}]
  BY <1>1, Sizes DEF Types
<1>3. pos = Len(Committed) /\ \A j \in 1..pos : kv[j] = Committed[j]
  BY <1>1 DEF Synced
<1>4. n >= 1
  BY <1>1, <1>2, SizeAssumption DEF RoundDrafted
<1>5. n <= MaxVerifyK /\ pos + n <= MaxSeq
  BY <1>1, <1>2, <1>3, SizeAssumption
<1>6. /\ VerifyForward(drafted) /\ pre_verify_pos' = pos /\ accepted' = 0 /\ pc' = "accept"
      /\ UNCHANGED <<req, verify_logits, draft, output, adapt>>
  BY <1>5 DEF Verify, VerifyFits
<1>7. /\ kv' = WriteRows(drafted) /\ pos' = pos + n
      /\ verify_batch' = [i \in 1..n |-> Context(kv', pos + i)]
      /\ hidden' = Context(kv', pos + n)
  BY <1>6 DEF VerifyForward
<1> HIDE DEF n
<1>8. /\ \A j \in 1..pos : kv'[j] = Committed[j]
      /\ \A i \in 1..n : kv'[pos + i] = drafted[i]
      /\ kv' \in [1..MaxSeq -> Token \cup {Blank}]
  <2>1. kv' = [j \in 1..MaxSeq |-> IF j \in pos + 1..pos + n THEN drafted[j - pos] ELSE kv[j]]
    BY <1>7 DEF WriteRows, n
  <2>2. \A i \in 1..n : drafted[i] \in Token
    BY <1>2 DEF n
  <2>3. pos \in Nat
    BY <1>2, <1>3
  <2>4. \A j \in 1..pos : kv'[j] = Committed[j]
    BY <1>2, <1>3, <1>5, <2>1, <2>3, SizeAssumption
  <2>5. \A i \in 1..n : kv'[pos + i] = drafted[i]
    BY <1>2, <1>5, <2>1, <2>3, SizeAssumption
  <2>6. \A j \in pos + 1..pos + n : drafted[j - pos] \in Token
    BY <1>2, <2>2, <2>3
  <2>7. kv' \in [1..MaxSeq -> Token \cup {Blank}]
    BY <1>2, <2>1, <2>6
  <2>8. QED
    BY <2>4, <2>5, <2>7
<1>9. \A i \in 0..n : Context(kv', pos + i) \in Seq(Token)
  <2> SUFFICES ASSUME NEW i \in 0..n PROVE Context(kv', pos + i) \in Seq(Token)
    OBVIOUS
  <2>1. pos + i \in Nat /\ pos \in Nat
    BY <1>2, <1>3
  <2>2. \A j \in 1..pos : kv'[j] \in Token
    BY <1>2, <1>3, <1>8
  <2>3. \A j \in 1..n : kv'[pos + j] \in Token
    BY <1>2, <1>8 DEF n
  <2>4. \A j \in 1..pos + i : kv'[j] \in Token
    <3> SUFFICES ASSUME NEW j \in 1..pos + i PROVE kv'[j] \in Token
      OBVIOUS
    <3>1. CASE j <= pos
      BY <2>1, <2>2, <3>1
    <3>2. CASE j > pos
      <4>1. j - pos \in 1..n /\ pos + (j - pos) = j
        BY <1>2, <2>1, <3>2
      <4>2. QED
        BY <2>3, <4>1
    <3>3. QED
      BY <2>1, <3>1, <3>2
  <2>5. QED
    BY <2>1, <2>4 DEF Context
<1>10. hidden' \in Seq(Token) /\ verify_batch' \in Seq(Seq(Token)) /\ Len(verify_batch') = n
  BY <1>2, <1>4, <1>7, <1>9
<1>11. pos' \in 0..MaxSeq /\ pre_verify_pos' \in Nat
  BY <1>2, <1>3, <1>5, <1>6, <1>7
<1>12. Types'
  <2>1. /\ UNCHANGED <<req, verify_logits, drafted, low, generated, last_tok, hit_eos>>
        /\ UNCHANGED <<accept_window, mtp_off, rounds>>
    BY <1>6 DEF draft, output, adapt
  <2>2. QED
    BY <1>1, <1>4, <1>6, <1>8, <1>10, <1>11, <2>1 DEF Types, n
<1>13. /\ Committed' = Committed /\ (EosSeen' <=> EosSeen) /\ (More' <=> More)
       /\ drafted' = drafted /\ req' = req /\ verify_logits' = verify_logits /\ last_tok' = last_tok
  BY <1>6, OutputFrame DEF draft, output
<1>14. Verified'
  <2>1. verify_logits = Committed /\ last_tok = Committed[Len(Committed)]
    BY <1>1 DEF Synced
  <2>2. Len(drafted') <= req'.k /\ Len(verify_batch') = Len(drafted') /\ pos' = pre_verify_pos' + Len(drafted')
    BY <1>1, <1>6, <1>7, <1>10, <1>13 DEF n
  <2>3. Len(Committed') = pre_verify_pos' + accepted' /\ accepted' <= Len(drafted')
    BY <1>2, <1>3, <1>4, <1>6, <1>13 DEF n
  <2>4. \A j \in 1..pre_verify_pos' + accepted' : kv'[j] = Committed'[j]
    BY <1>2, <1>3, <1>6, <1>8, <1>13
  <2>5. \A i \in 1..Len(drafted') : kv'[pre_verify_pos' + i] = drafted'[i]
    BY <1>6, <1>8, <1>13 DEF n
  <2>6. \A i \in 1..Len(drafted') : verify_batch'[i] = Context(kv', pre_verify_pos' + i)
    BY <1>6, <1>7, <1>13 DEF n
  <2>7. hidden' = Context(kv', pos')
    BY <1>7
  <2>8. QED
    BY <1>13, <2>1, <2>2, <2>3, <2>4, <2>5, <2>6, <2>7 DEF Verified
<1>15. accepted' < Len(drafted')
  BY <1>2, <1>4, <1>6, <1>13 DEF n
<1>16. QED
  BY <1>1, <1>6, <1>12, <1>13, <1>14, <1>15 DEF IInv, Phase

\* The draft under test is tested against the logits of the committed context.
LEMMA PredictingIsCommitted ==
  ASSUME Types, Verified, accepted < Len(drafted)
  PROVE  Predicting = Committed
<1>1. /\ Committed \in Seq(Token) /\ Len(Committed) = pre_verify_pos + accepted
      /\ accepted \in Nat /\ pre_verify_pos \in Nat /\ drafted \in Seq(Token)
  BY Sizes DEF Types, Verified
<1>2. CASE accepted = 0
  BY <1>2 DEF Predicting, Verified
<1>3. CASE accepted # 0
  <2>1. accepted \in 1..Len(drafted)
    BY <1>1, <1>3
  <2>2. Predicting = Context(kv, Len(Committed))
    BY <1>1, <1>3, <2>1 DEF Predicting, Verified
  <2>3. \A j \in 1..Len(Committed) : kv[j] = Committed[j]
    BY <1>1 DEF Verified
  <2>4. QED
    BY <1>1, <2>2, <2>3, ContextOfRows
<1>4. QED
  BY <1>2, <1>3

LEMMA AcceptDraftIInv == IInv /\ AcceptDraft => IInv'
<1> SUFFICES ASSUME IInv, AcceptDraft PROVE IInv'
  OBVIOUS
<1> DEFINE d == drafted[accepted + 1]
<1>1. pc = "accept" /\ ~EosSeen /\ More /\ Verified /\ accepted < Len(drafted) /\ Types
  BY DEF AcceptDraft, IInv, Phase
<1>2. /\ Committed \in Seq(Token) /\ Len(Committed) = pre_verify_pos + accepted
      /\ Len(Committed) = Len(req.prompt) + Len(generated)
      /\ accepted \in Nat /\ pre_verify_pos \in Nat /\ drafted \in Seq(Token)
      /\ Len(drafted) \in Nat /\ accepted + 1 \in 1..Len(drafted)
      /\ req \in Request /\ generated \in Seq(Token)
  BY <1>1, Sizes, SMTT(30) DEF Types, Verified
<1>3. d \in Token
  BY <1>2
<1>4. /\ Commit(d) /\ accepted' = accepted + 1
      /\ pc' = IF d = Eos \/ Len(generated') >= req.max_tokens THEN "account"
               ELSE IF accepted' = Len(drafted) THEN "bonus" ELSE "accept"
      /\ UNCHANGED <<req, target, verify_logits, draft, verify_batch, pre_verify_pos, adapt>>
  BY DEF AcceptDraft
<1> HIDE DEF d
<1>5. /\ generated' \in Seq(Token) /\ last_tok' \in Token /\ hit_eos' \in BOOLEAN
      /\ Len(generated') <= req.max_tokens
      /\ (hit_eos' <=> d = Eos) /\ (EosSeen' <=> EosSeen \/ d = Eos)
  BY <1>1, <1>3, <1>4, CommitTypes
<1>6. /\ Committed' = Append(Committed, d) /\ Len(Committed') = Len(Committed) + 1
      /\ Committed'[Len(Committed')] = d
      /\ \A j \in 1..Len(Committed) : Committed'[j] = Committed[j]
  BY <1>2, <1>3, <1>4, CommitAppends
<1>7. /\ UNCHANGED <<kv, pos, hidden, drafted, low, verify_batch, pre_verify_pos, verify_logits>>
      /\ UNCHANGED <<req, accept_window, mtp_off, rounds>>
  BY <1>4 DEF target, draft, adapt
<1>8. Types'
  <2>1. accepted' \in Nat /\ pc' \in {"account", "bonus", "accept"}
    BY <1>2, <1>4
  <2>2. QED
    BY <1>1, <1>5, <1>7, <2>1 DEF Types
<1>9. Verified'
  <2>1. kv[Len(Committed) + 1] = d
    <3>1. kv[pre_verify_pos + (accepted + 1)] = drafted[accepted + 1]
      BY <1>1, <1>2 DEF Verified
    <3>2. pre_verify_pos + (accepted + 1) = Len(Committed) + 1
      BY <1>2
    <3>3. QED
      BY <3>1, <3>2 DEF d
  <2>2. \A j \in 1..Len(Committed) + 1 : kv[j] = Committed'[j]
    <3>1. \A j \in 1..Len(Committed) : kv[j] = Committed[j]
      BY <1>1, <1>2 DEF Verified
    <3>2. \A j \in 1..Len(Committed) + 1 : j \in 1..Len(Committed) \/ j = Len(Committed) + 1
      BY <1>2
    <3>3. QED
      BY <1>6, <2>1, <3>1, <3>2
  <2>3. /\ pre_verify_pos' + accepted' = Len(Committed) + 1 /\ Len(Committed') = pre_verify_pos' + accepted'
        /\ accepted' <= Len(drafted') /\ accepted' # 0
    BY <1>2, <1>4, <1>6, <1>7
  <2>4. last_tok' = Committed'[Len(Committed')]
    BY <1>4, <1>6 DEF Commit
  <2>5. QED
    BY <1>1, <1>7, <2>2, <2>3, <2>4 DEF Verified
<1>10. CASE pc' = "account" /\ d = Eos
  BY <1>5, <1>8, <1>10 DEF IInv, Phase
<1>11. CASE pc' = "account" /\ Len(generated') >= req.max_tokens
  <2>1. Len(generated') \in Nat /\ req.max_tokens \in Nat
    BY <1>1, <1>5, Sizes
  <2>2. ~More'
    BY <1>7, <1>11, <2>1 DEF More
  <2>3. QED
    BY <1>1, <1>5, <1>8, <1>11, <2>2 DEF IInv, Phase
<1>12. CASE pc' # "account"
  <2>1. d # Eos /\ ~(Len(generated') >= req.max_tokens)
        /\ pc' = IF accepted' = Len(drafted) THEN "bonus" ELSE "accept"
    BY <1>4, <1>12
  <2>2. Len(generated') \in Nat /\ req.max_tokens \in Nat
    BY <1>1, <1>5, Sizes
  <2>3. More'
    BY <1>7, <2>1, <2>2 DEF More
  <2>4. ~EosSeen' /\ ~hit_eos'
    BY <1>1, <1>5, <2>1
  <2>5. pc' = "accept" => accepted' < Len(drafted')
    BY <1>2, <1>4, <1>7, <2>1
  <2>6. pc' = "bonus" => accepted' = Len(drafted')
    BY <1>7, <2>1
  <2>7. pc' \in {"accept", "bonus"}
    BY <2>1
  <2>8. QED
    BY <1>8, <1>9, <2>3, <2>4, <2>5, <2>6, <2>7 DEF IInv, Phase
<1>13. QED
  BY <1>4, <1>10, <1>11, <1>12

LEMMA RejectDraftIInv == IInv /\ RejectDraft => IInv'
<1> SUFFICES ASSUME IInv, RejectDraft PROVE IInv'
  OBVIOUS
<1>1. pc = "accept" /\ ~EosSeen /\ More /\ Verified /\ accepted < Len(drafted) /\ Types
  BY DEF RejectDraft, IInv, Phase
<1>2. PICK replacement \in Picks(Predicting) : Replace(replacement)
  BY DEF RejectDraft
<1>3. /\ Committed \in Seq(Token) /\ Len(Committed) <= MaxSeq /\ req \in Request
      /\ Len(Committed) = CutBack
      /\ \A j \in 1..Len(Committed) : kv[j] = Committed[j]
  BY <1>1, Sizes, SizeAssumption DEF Types, Verified, CutBack
<1>4. replacement \in Token
  BY <1>1, <1>3, PredictingIsCommitted, PicksAreTokens
<1>5. /\ Forward(Len(Committed), replacement) /\ verify_logits' = hidden' /\ Commit(replacement)
      /\ pc' = "account" /\ UNCHANGED <<req, draft, verify, adapt>>
  BY <1>2, <1>3 DEF Replace, RejectDraft
<1>6. /\ Synced'
      /\ kv' \in [1..MaxSeq -> Token \cup {Blank}] /\ pos' \in 0..MaxSeq
      /\ hidden' \in Seq(Token) /\ verify_logits' \in Seq(Token)
  BY <1>1, <1>3, <1>4, <1>5, ForwardCommitSyncs
<1>7. /\ generated' \in Seq(Token) /\ last_tok' \in Token /\ hit_eos' \in BOOLEAN
      /\ Len(generated') <= req.max_tokens
      /\ (hit_eos' <=> replacement = Eos) /\ (EosSeen' <=> EosSeen \/ replacement = Eos)
  BY <1>1, <1>4, <1>5, CommitTypes
<1>8. Types'
  BY <1>1, <1>5, <1>6, <1>7 DEF Types, draft, verify, adapt
<1>9. hit_eos' <=> EosSeen'
  BY <1>1, <1>7
<1>10. QED
  BY <1>5, <1>6, <1>8, <1>9 DEF IInv, Phase

\* Once the whole batch is accepted its last row holds the committed tokens.
LEMMA LastRowIsCommitted ==
  ASSUME Types, Verified, accepted = Len(drafted), Len(drafted) >= 1
  PROVE  /\ Last(verify_batch) = Committed /\ hidden = Committed
         /\ pos = Len(Committed)
         /\ \A j \in 1..Len(Committed) : kv[j] = Committed[j]
<1>1. /\ Committed \in Seq(Token) /\ Len(Committed) = pre_verify_pos + Len(drafted)
      /\ pos = Len(Committed) /\ Len(verify_batch) = Len(drafted) /\ Len(drafted) \in 1..Len(drafted)
  BY Sizes DEF Types, Verified
<1>2. \A j \in 1..Len(Committed) : kv[j] = Committed[j]
  BY <1>1 DEF Verified
<1>3. Context(kv, Len(Committed)) = Committed
  BY <1>1, <1>2, ContextOfRows
<1>4. verify_batch[Len(drafted)] = Context(kv, Len(Committed)) /\ hidden = Context(kv, Len(Committed))
  BY <1>1 DEF Verified
<1>5. QED
  BY <1>1, <1>2, <1>3, <1>4 DEF Last

LEMMA BonusIInv == IInv /\ Bonus => IInv'
<1> SUFFICES ASSUME IInv, Bonus PROVE IInv'
  OBVIOUS
<1>1. /\ pc = "bonus" /\ ~EosSeen /\ ~hit_eos /\ More /\ Verified /\ accepted = Len(drafted)
      /\ Types /\ Len(drafted) >= 1
  BY DEF Bonus, IInv, Phase, Types
<1>2. /\ Last(verify_batch) = Committed /\ hidden = Committed /\ pos = Len(Committed)
      /\ \A j \in 1..Len(Committed) : kv[j] = Committed[j]
  BY <1>1, LastRowIsCommitted
<1>3. /\ Committed \in Seq(Token) /\ Len(Committed) <= MaxSeq /\ req \in Request
  BY <1>1, Sizes, SizeAssumption DEF Types
<1>4. pc' = "account" /\ UNCHANGED <<req, draft, verify, adapt>>
  BY DEF Bonus
<1>5. CASE req.no_bonus
  <2>1. verify_logits' = Committed /\ UNCHANGED <<target, output>>
    BY <1>2, <1>5 DEF Bonus
  <2>2. Committed' = Committed /\ (EosSeen' <=> EosSeen)
    BY <1>4, <2>1, OutputFrame DEF output
  <2>3. last_tok = Committed[Len(Committed)]
    BY <1>1 DEF Verified
  <2>4. Synced'
    BY <1>2, <2>1, <2>2, <2>3 DEF Synced, target, output
  <2>5. Types'
    BY <1>1, <1>3, <1>4, <2>1 DEF Types, target, draft, verify, output, adapt
  <2>6. ~EosSeen' /\ ~hit_eos'
    BY <1>1, <2>1, <2>2 DEF output
  <2>7. QED
    BY <1>4, <2>4, <2>5, <2>6 DEF IInv, Phase
<1>6. CASE ~req.no_bonus
  <2> DEFINE bonus == Argmax(Last(verify_batch))
  <2>1. Forward(Len(Committed), bonus) /\ verify_logits' = hidden' /\ Commit(bonus)
    BY <1>2, <1>6 DEF Bonus
  <2>2. bonus \in Token
    BY <1>2, <1>3, PicksAreTokens
  <2> HIDE DEF bonus
  <2>3. /\ Synced'
        /\ kv' \in [1..MaxSeq -> Token \cup {Blank}] /\ pos' \in 0..MaxSeq
        /\ hidden' \in Seq(Token) /\ verify_logits' \in Seq(Token)
    BY <1>1, <1>2, <1>4, <2>1, <2>2, ForwardCommitSyncs
  <2>4. /\ generated' \in Seq(Token) /\ last_tok' \in Token /\ hit_eos' \in BOOLEAN
        /\ Len(generated') <= req.max_tokens
        /\ (hit_eos' <=> bonus = Eos) /\ (EosSeen' <=> EosSeen \/ bonus = Eos)
    BY <1>1, <1>4, <2>1, <2>2, CommitTypes
  <2>5. Types'
    BY <1>1, <1>4, <2>3, <2>4 DEF Types, draft, verify, adapt
  <2>6. hit_eos' <=> EosSeen'
    BY <1>1, <2>4
  <2>7. QED
    BY <1>4, <2>3, <2>5, <2>6 DEF IInv, Phase
<1>7. QED
  BY <1>5, <1>6

LEMMA AccountIInv == IInv /\ Account => IInv'
<1> SUFFICES ASSUME IInv, Account PROVE IInv'
  OBVIOUS
<1>1. pc = "account" /\ (hit_eos <=> EosSeen) /\ (~hit_eos /\ More => Synced) /\ Types
  BY DEF Account, IInv, Phase
<1>2. /\ UNCHANGED <<req, target, verify_logits, draft, verify, output>>
      /\ rounds' = Append(rounds, Rate) /\ pc' = IF hit_eos THEN "done" ELSE "loop"
  BY DEF Account
<1>3. Rate \in Nat
  <2>1. accepted \in Nat /\ Len(drafted) \in Nat /\ Len(drafted) >= 1
    BY <1>1 DEF Types
  <2>2. QED
    BY <2>1 DEF Rate
<1>4. rounds' \in Seq(Nat)
  BY <1>1, <1>2, <1>3 DEF Types
<1>5. accept_window' \in Seq(Nat) /\ mtp_off' \in BOOLEAN
  <2>1. accept_window \in Seq(Nat) /\ mtp_off \in BOOLEAN
    BY <1>1 DEF Types
  <2> DEFINE window == Append(accept_window, Rate)
             full == Len(window) >= AdaptiveWindow
  <2>2. window \in Seq(Nat) /\ window # <<>>
    BY <1>3, <2>1
  <2>3. Slide(window) \in Seq(Nat)
    BY <2>2 DEF Slide
  <2>4. CASE AlphaPct > 0
    <3>1. /\ mtp_off' = (mtp_off \/ (full /\ BelowAlpha(window)))
          /\ accept_window' = IF full THEN Slide(window) ELSE window
      BY <2>4 DEF Account
    <3> HIDE DEF window, full
    <3>2. mtp_off' \in BOOLEAN
      BY <2>1, <3>1
    <3>3. accept_window' \in Seq(Nat)
      BY <2>2, <2>3, <3>1
    <3>4. QED
      BY <3>2, <3>3
  <2>5. CASE ~(AlphaPct > 0)
    BY <2>1, <2>5 DEF Account
  <2>6. QED
    BY <2>4, <2>5
<1>6. Types'
  <2>1. pc' \in {"loop", "done"}
    BY <1>2
  <2>2. QED
    BY <1>1, <1>2, <1>4, <1>5, <2>1 DEF Types, target, draft, verify, output
<1>7. Committed' = Committed /\ (EosSeen' <=> EosSeen) /\ (More' <=> More)
  BY <1>2, OutputFrame DEF output
<1>8. CASE hit_eos
  BY <1>1, <1>2, <1>6, <1>7, <1>8 DEF IInv, Phase
<1>9. CASE ~hit_eos
  <2>1. Synced => Synced'
    BY <1>2, <1>7 DEF Synced, target, output
  <2>2. QED
    BY <1>1, <1>2, <1>6, <1>7, <1>9, <2>1 DEF IInv, Phase
<1>10. QED
  BY <1>8, <1>9

LEMMA StutterIInv == IInv /\ UNCHANGED vars => IInv'
<1> SUFFICES ASSUME IInv, UNCHANGED vars PROVE IInv'
  OBVIOUS
<1>1. /\ UNCHANGED <<req, kv, pos, hidden, verify_logits, drafted, low, verify_batch, pre_verify_pos>>
      /\ UNCHANGED <<accepted, generated, last_tok, hit_eos, accept_window, mtp_off, rounds, pc>>
  BY DEF vars, target, draft, verify, output, adapt
<1>2. Types'
  BY <1>1 DEF IInv, Types
<1>3. Committed' = Committed /\ (EosSeen' <=> EosSeen) /\ (More' <=> More)
  BY <1>1, OutputFrame
<1>4. (Synced => Synced') /\ (Verified => Verified')
  BY <1>1, <1>3 DEF Synced, Verified
<1>5. QED
  BY <1>1, <1>2, <1>3, <1>4 DEF IInv, Phase

LEMMA NextIInv == IInv /\ [Next]_vars => IInv'
<1> SUFFICES ASSUME IInv, [Next]_vars PROVE IInv'
  OBVIOUS
<1>1. CASE Next
  BY <1>1, LoopExitIInv, PlainStepIInv, StartRoundIInv, DraftStepIInv, VerifyIInv, AcceptDraftIInv,
     RejectDraftIInv, BonusIInv, AccountIInv, StutterIInv DEF Next, Returned
<1>2. CASE UNCHANGED vars
  BY <1>2, StutterIInv
<1>3. QED
  BY <1>1, <1>2

LEMMA Invariance == Spec => []IInv
BY InitIInv, NextIInv, PTL DEF Spec
-----------------------------------------------------------------------------
(* The theorems                                                             *)

\* Every variable keeps its type, and no logits, hidden state or verify row is
\* ever computed over a cache slot that was not written.
THEOREM TypeCorrect == Spec => []TypeOK
<1>1. IInv => TypeOK
  BY DEF IInv, Types, TypeOK
<1>2. QED
  BY <1>1, Invariance, PTL

\* At the head of every iteration the cache and the pending logits stand at
\* exactly the committed tokens: rejected drafts leave nothing behind.
THEOREM CacheCorrect == Spec => []CacheHoldsCommitted
<1>1. IInv => CacheHoldsCommitted
  <2> SUFFICES ASSUME IInv, pc = "loop", More
               PROVE  Context(kv, pos) = Committed /\ verify_logits = Committed
    BY DEF CacheHoldsCommitted
  <2>1. Synced /\ Types
    BY DEF IInv, Phase
  <2>2. Committed \in Seq(Token) /\ \A j \in 1..Len(Committed) : kv[j] = Committed[j]
    BY <2>1, Sizes DEF Synced
  <2>3. QED
    BY <2>1, <2>2, ContextOfRows DEF Synced
<1>2. QED
  BY <1>1, Invariance, PTL

\* The drafter is always seeded with the last committed token and its state.
THEOREM SeedCorrect == Spec => []DraftSeedFresh
<1>1. IInv => DraftSeedFresh
  <2>1. ASSUME IInv, pc = "draft" PROVE Synced
    BY <2>1 DEF IInv, Phase
  <2>2. QED
    BY <2>1 DEF DraftSeedFresh, Synced, Last
<1>2. QED
  BY <1>1, Invariance, PTL

\* An admitted request never runs into the verify bound or the end of the cache.
THEOREM NeverOverruns == Spec => []NoOverrun
<1>1. IInv => NoOverrun
  BY SizeAssumption DEF IInv, Types, NoOverrun
<1>2. QED
  BY <1>1, Invariance, PTL

-----------------------------------------------------------------------------
(* The adaptive window                                                      *)

\* With adaptive-K on, accept_window holds the rates of the latest rounds, one
\* less than a full window of them once there are so many.
Rolls ==
  AlphaPct > 0 =>
    /\ Len(accept_window) =
         IF Len(rounds) < AdaptiveWindow - 1 THEN Len(rounds) ELSE AdaptiveWindow - 1
    /\ \A i \in 1..Len(accept_window) :
         accept_window[i] = rounds[Len(rounds) - Len(accept_window) + i]

\* The drafter is off exactly when some full window was below the threshold.
TurnedOff ==
  mtp_off <=> AlphaPct > 0 /\ \E i \in AdaptiveWindow..Len(rounds) : BelowAlpha(LastWindow(i))

AInv == IInv /\ Rolls /\ TurnedOff

\* The numbers of a sequence from one place to another.
LEMMA Slice ==
  ASSUME NEW s \in Seq(Nat), NEW a \in 1..Len(s), NEW b \in 1..Len(s), a <= b
  PROVE  /\ SubSeq(s, a, b) \in Seq(Nat) /\ Len(SubSeq(s, a, b)) = b - a + 1
         /\ \A j \in 1..b - a + 1 : SubSeq(s, a, b)[j] = s[a - 1 + j]
OBVIOUS

\* Only the end of a round touches the window.
LEMMA OnlyAccount == [Next]_vars => Account \/ UNCHANGED adapt
BY DEF Next, vars, LoopExit, PlainStep, StartRound, DraftStep, Verify, AcceptDraft, RejectDraft,
       Bonus, Returned

\* At the end of a round the window takes the round's rate and, once full, is
\* exactly the latest AdaptiveWindow rates; then it gives up the oldest.
LEMMA AccountRolls ==
  ASSUME IInv, Rolls, TurnedOff, Account
  PROVE  Rolls' /\ TurnedOff'
<1> DEFINE W == AdaptiveWindow
           window == Append(accept_window, Rate)
<1>1. W \in Nat /\ W >= 1 /\ AlphaPct \in Nat
  BY SizeAssumption
<1>2. accept_window \in Seq(Nat) /\ rounds \in Seq(Nat) /\ mtp_off \in BOOLEAN
  BY DEF IInv, Types
<1>3. Rate \in Nat
  <2>1. accepted \in Nat /\ Len(drafted) \in Nat /\ Len(drafted) >= 1
    BY DEF IInv, Types, Account
  <2>2. QED
    BY <2>1 DEF Rate
<1>4. PICK n \in Nat : n = Len(rounds)
  BY <1>2
<1>5. PICK a \in Nat : a = Len(accept_window)
  BY <1>2
<1>6. rounds' = Append(rounds, Rate)
  BY DEF Account
<1>7. rounds' \in Seq(Nat) /\ Len(rounds') = n + 1 /\ rounds'[n + 1] = Rate
      /\ \A i \in 1..n : rounds'[i] = rounds[i]
  BY <1>2, <1>3, <1>4, <1>6
<1>8. window \in Seq(Nat) /\ Len(window) = a + 1 /\ window[a + 1] = Rate
      /\ \A i \in 1..a : window[i] = accept_window[i]
  BY <1>2, <1>3, <1>5
<1> HIDE DEF window
<1>9. CASE ~(AlphaPct > 0)
  BY <1>9 DEF Rolls, TurnedOff, Account
<1>10. CASE AlphaPct > 0
  <2>1. /\ mtp_off' = (mtp_off \/ (Len(window) >= W /\ BelowAlpha(window)))
        /\ accept_window' = IF Len(window) >= W THEN Slide(window) ELSE window
    BY <1>10 DEF Account, window
  <2>2. /\ a = (IF n < W - 1 THEN n ELSE W - 1)
        /\ \A i \in 1..a : accept_window[i] = rounds[n - a + i]
    BY <1>4, <1>5, <1>10 DEF Rolls
  <2>3. a <= n
    BY <1>1, <2>2
  <2>4. ASSUME NEW i \in 1..a + 1
        PROVE  window[i] = rounds'[n - a + i]
    <3>1. CASE i = a + 1
      <4>1. n - a + i = n + 1
        BY <2>3, <3>1
      <4>2. QED
        BY <1>7, <1>8, <3>1, <4>1
    <3>2. CASE i # a + 1
      <4>1. i \in 1..a /\ n - a + i \in 1..n
        BY <2>3, <3>2
      <4>2. QED
        BY <1>7, <1>8, <2>2, <4>1
    <3>3. QED
      BY <3>1, <3>2
  <2>5. Rolls'
    <3>1. CASE Len(window) >= W
      <4>1. a = W - 1 /\ ~(n + 1 < W - 1)
        BY <1>1, <1>8, <2>2, <3>1
      <4>2. window # <<>>
        BY <1>8
      <4>3. /\ Tail(window) \in Seq(Nat) /\ Len(Tail(window)) = Len(window) - 1
            /\ \A i \in 1..Len(window) - 1 : Tail(window)[i] = window[i + 1]
        BY <1>8, <4>2, HeadTailProperties
      <4>4. Len(accept_window') = a /\ \A i \in 1..a : accept_window'[i] = window[i + 1]
        BY <1>8, <2>1, <3>1, <4>3 DEF Slide
      <4>5. ASSUME NEW i \in 1..a
            PROVE  accept_window'[i] = rounds'[n + 1 - a + i]
        <5>1. i + 1 \in 1..a + 1 /\ n - a + (i + 1) = n + 1 - a + i
          BY <2>3
        <5>2. QED
          BY <2>4, <4>4, <5>1
      <4>6. QED
        BY <1>1, <1>7, <4>1, <4>4, <4>5 DEF Rolls
    <3>2. CASE ~(Len(window) >= W)
      <4>1. a = n /\ accept_window' = window /\ n + 1 <= W - 1
        BY <1>1, <1>8, <2>1, <2>2, <3>2
      <4>2. ASSUME NEW i \in 1..n + 1
            PROVE  accept_window'[i] = rounds'[n + 1 - (n + 1) + i]
        <5>1. n - a + i = i /\ n + 1 - (n + 1) + i = i
          BY <4>1
        <5>2. QED
          BY <2>4, <4>1, <5>1
      <4>3. Len(accept_window') = n + 1
            /\ Len(accept_window') = IF n + 1 < W - 1 THEN n + 1 ELSE W - 1
        BY <1>1, <1>8, <4>1
      <4>4. QED
        BY <1>7, <4>2, <4>3 DEF Rolls
    <3>3. QED
      BY <3>1, <3>2
  <2>6. \A i \in W..n : LastWindow(i)' = LastWindow(i)
    <3>1. SUFFICES ASSUME NEW i \in W..n
                   PROVE  LastWindow(i)' = LastWindow(i)
      OBVIOUS
    <3>2. SubSeq(rounds', i - W + 1, i) = SubSeq(rounds, i - W + 1, i)
      <4> DEFINE old == SubSeq(rounds, i - W + 1, i)
                 new == SubSeq(rounds', i - W + 1, i)
      <4>1. i - W + 1 \in 1..n /\ i \in 1..n /\ i - (i - W + 1) + 1 = W
        BY <1>1
      <4>2. old \in Seq(Nat) /\ Len(old) = W /\ \A j \in 1..W : old[j] = rounds[i - W + j]
        BY <1>1, <1>2, <1>4, <4>1
      <4>3. new \in Seq(Nat) /\ Len(new) = W /\ \A j \in 1..W : new[j] = rounds'[i - W + j]
        <5>1. PICK s \in Seq(Nat) : s = rounds'
          BY <1>7
        <5>2. PICK p \in 1..Len(s) : p = i - W + 1
          BY <1>7, <4>1, <5>1
        <5>3. i \in 1..Len(s) /\ p <= i /\ i - p + 1 = W /\ \A j \in 1..W : p - 1 + j = i - W + j
          BY <1>1, <1>7, <4>1, <5>1, <5>2
        <5>4. /\ SubSeq(s, p, i) \in Seq(Nat) /\ Len(SubSeq(s, p, i)) = W
              /\ \A j \in 1..W : SubSeq(s, p, i)[j] = s[p - 1 + j]
          BY <5>3, Slice
        <5>5. QED
          BY <5>1, <5>2, <5>3, <5>4
      <4> HIDE DEF old, new
      <4>4. \A j \in 1..W : old[j] = new[j]
        <5>1. \A j \in 1..W : i - W + j \in 1..n
          BY <1>1, <4>1
        <5>2. QED
          BY <1>7, <4>2, <4>3, <5>1
      <4>5. old = new
        BY <1>1, <4>2, <4>3, <4>4
      <4>6. QED
        BY <4>5 DEF old, new
    <3>3. QED
      BY <3>2 DEF LastWindow
  <2>7. Len(window) >= W => n + 1 >= W /\ window = LastWindow(n + 1)'
    <3>1. SUFFICES ASSUME Len(window) >= W
                   PROVE  n + 1 >= W /\ window = LastWindow(n + 1)'
      OBVIOUS
    <3>2. a + 1 = W /\ n + 1 >= W
      BY <1>1, <1>8, <2>2, <2>3, <3>1
    <3> DEFINE latest == SubSeq(rounds', (n + 1) - W + 1, n + 1)
    <3>3. latest \in Seq(Nat) /\ Len(latest) = W /\ \A i \in 1..W : latest[i] = rounds'[n + 1 - W + i]
      <4>1. n + 1 - W + 1 \in 1..n + 1
        BY <1>1, <3>2
      <4>2. QED
        BY <1>1, <1>7, <3>2, <4>1
    <3> HIDE DEF latest
    <3>4. \A i \in 1..W : window[i] = latest[i]
      <4>1. n + 1 - W = n - a
        BY <1>1, <3>2, <2>3
      <4>2. QED
        BY <2>4, <3>2, <3>3, <4>1
    <3>5. window = latest
      <4>1. window \in Seq(Nat) /\ Len(window) = W
        BY <1>8, <3>2
      <4>2. QED
        BY <1>1, <3>3, <3>4, <4>1
    <3>6. latest = LastWindow(n + 1)'
      BY DEF latest, LastWindow
    <3>7. QED
      BY <3>2, <3>5, <3>6
  <2>8. n + 1 >= W => Len(window) >= W
    BY <1>1, <1>8, <2>2
  <2> DEFINE below(i) == BelowAlpha(LastWindow(i))
  <2>9. mtp_off' <=> \E i \in W..n + 1 : BelowAlpha(LastWindow(i)')
    <3>1. mtp_off <=> \E i \in W..n : BelowAlpha(LastWindow(i))
      BY <1>4, <1>10 DEF TurnedOff
    <3>2. mtp_off' <=> mtp_off \/ (n + 1 >= W /\ BelowAlpha(LastWindow(n + 1)'))
      BY <2>1, <2>7, <2>8
    <3>3. \A i \in W..n : BelowAlpha(LastWindow(i)') <=> BelowAlpha(LastWindow(i))
      BY <2>6
    <3>4. \A i : i \in W..n + 1 <=> i \in W..n \/ (i = n + 1 /\ n + 1 >= W)
      BY <1>1
    <3>5. QED
      BY <3>1, <3>2, <3>3, <3>4, Zenon
  <2>10. TurnedOff'
    BY <1>7, <1>10, <2>9 DEF TurnedOff
  <2>11. QED
    BY <2>5, <2>10
<1>11. QED
  BY <1>9, <1>10

\* Adaptive-K turns the drafter off exactly when some AdaptiveWindow consecutive
\* rounds were below the threshold, for every window length and threshold.
THEOREM AdaptiveCorrect == Spec => []AdaptiveExact
<1>1. Init => Rolls /\ TurnedOff
  <2>1. SUFFICES ASSUME Init
                 PROVE  Rolls /\ TurnedOff
    OBVIOUS
  <2>2. accept_window = <<>> /\ rounds = <<>> /\ mtp_off = FALSE /\ Len(<<>>) = 0
    BY <2>1 DEF Init
  <2>3. AdaptiveWindow \in Nat /\ AdaptiveWindow >= 1
    BY SizeAssumption
  <2>4. AdaptiveWindow..0 = {} /\ ~(AdaptiveWindow - 1 < 0)
    BY <2>3
  <2>5. QED
    BY <2>2, <2>3, <2>4 DEF Rolls, TurnedOff
<1>2. IInv /\ Rolls /\ TurnedOff /\ [Next]_vars => Rolls' /\ TurnedOff'
  <2>1. SUFFICES ASSUME IInv, Rolls, TurnedOff, [Next]_vars
                 PROVE  Rolls' /\ TurnedOff'
    OBVIOUS
  <2>2. CASE Account
    BY <2>1, <2>2, AccountRolls
  <2>3. CASE UNCHANGED adapt
    BY <2>1, <2>3 DEF Rolls, TurnedOff, LastWindow, adapt
  <2>4. QED
    BY <2>1, <2>2, <2>3, OnlyAccount
<1>3. TurnedOff => AdaptiveExact
  BY DEF TurnedOff, AdaptiveExact
<1>4. QED
  BY <1>1, <1>2, <1>3, Invariance, PTL DEF Spec

-----------------------------------------------------------------------------
(* Speculative decoding implements plain decoding                           *)

\* The end-of-sequence test of the abstract loop.
LEMMA EosIsEmitted == Types => (EosSeen <=> Eos \in Plain!Emitted)
BY DEF Types, EosSeen, Plain!Emitted

LEMMA InitImplements == Init => Plain!Init
<1> SUFFICES ASSUME Init PROVE Plain!Init
  OBVIOUS
<1>1. Types
  BY InitIInv DEF IInv
<1>2. req.prompt \in Seq(Token) /\ req.max_tokens \in Nat
  BY <1>1, Sizes
<1>3. req.sampling \in BOOLEAN
  BY <1>1 DEF Types, Request
<1>4. generated = <<>> /\ pc = "loop"
  BY DEF Init
<1>5. (pc = "done") = FALSE
  BY <1>4
<1>6. QED
  BY <1>2, <1>3, <1>4, <1>5 DEF Plain!Init

\* A step that commits a token picked from the committed context, while there
\* is room and no end of sequence, is a step of plain decode.
LEMMA CommitImplements ==
  ASSUME Types, More, ~EosSeen, NEW t \in Picks(Committed), Commit(t), req' = req,
         pc # "done", pc' # "done"
  PROVE  Plain!Next
<1>1. Eos \notin Plain!Emitted
  BY EosIsEmitted
<1>2. t \in Plain!Picks(req.sampling, req.prompt \o generated)
  BY DEF Plain!Picks, Picks, Committed
<1>3. generated' = Append(generated, t)
  BY DEF Commit
<1>4. Plain!Emit
  BY <1>1, <1>2, <1>3 DEF Plain!Emit, More
<1>5. QED
  BY <1>4 DEF Plain!Next

\* The loop returns with a complete output, with or without a last token.
LEMMA ReturnImplements ==
  ASSUME IInv, Types', pc # "done", pc' = "done", req' = req,
         EosSeen' \/ ~More',
         \/ generated' = generated
         \/ More /\ ~EosSeen /\ \E t \in Picks(Committed) : Commit(t)
  PROVE  Plain!Next
<1>1. Types
  BY DEF IInv
<1>2. Plain!Finished'
  <2>1. CASE EosSeen'
    <3>1. \E i \in 1..Len(generated') : generated'[i] = Eos
      BY <2>1 DEF EosSeen
    <3>2. generated' \in Seq(Token)
      BY DEF Types
    <3>3. QED
      BY <3>1, <3>2 DEF Plain!Finished, Plain!Emitted
  <2>2. CASE ~More'
    <3>1. generated' \in Seq(Token) /\ req'.max_tokens \in Nat
      BY <1>1, Sizes DEF Types
    <3>2. Len(generated') >= req'.max_tokens
      BY <2>2, <3>1 DEF More
    <3>3. QED
      BY <3>2 DEF Plain!Finished
  <2>3. QED
    BY <2>1, <2>2
<1>3. CASE generated' = generated
  <2>1. UNCHANGED <<req.prompt, req.max_tokens, req.sampling, generated>>
    BY <1>3
  <2>2. QED
    BY <1>2, <2>1 DEF Plain!Next, Plain!Stop
<1>4. CASE More /\ ~EosSeen /\ \E t \in Picks(Committed) : Commit(t)
  <2>1. PICK t \in Picks(Committed) : Commit(t)
    BY <1>4
  <2>2. Eos \notin Plain!Emitted
    BY <1>1, <1>4, EosIsEmitted
  <2>3. t \in Plain!Picks(req.sampling, req.prompt \o generated)
    BY DEF Plain!Picks, Picks, Committed
  <2>4. generated' = Append(generated, t)
    BY <2>1 DEF Commit
  <2>5. Plain!Emit
    BY <1>4, <2>2, <2>3, <2>4 DEF Plain!Emit, More
  <2>6. QED
    BY <1>2, <2>5 DEF Plain!Next, Plain!Stop
<1>5. QED
  BY <1>3, <1>4

\* A step that leaves request and output alone and does not return is a stutter.
LEMMA SilentImplements ==
  ASSUME req' = req, generated' = generated, pc # "done", pc' # "done"
  PROVE  UNCHANGED Plain!vars
BY DEF Plain!vars

\* Every step of the loop is a step of plain decode or leaves it unchanged.
LEMMA StepImplements ==
  IInv /\ IInv' /\ [Next]_vars => [Plain!Next]_(Plain!vars)
<1> SUFFICES ASSUME IInv, IInv', [Next]_vars PROVE Plain!Next \/ UNCHANGED Plain!vars
  OBVIOUS
<1>0. Types /\ Types'
  BY DEF IInv
<1>1. CASE LoopExit
  <2>1. /\ req' = req /\ generated' = generated /\ pc # "done" /\ pc' = "done" /\ ~More'
    BY <1>1, OutputFrame DEF LoopExit, output
  <2>2. QED
    BY <1>0, <2>1, ReturnImplements
<1>2. CASE PlainStep
  <2>1. pc = "loop" /\ More /\ ~EosSeen /\ verify_logits = Committed /\ req' = req
    BY <1>2 DEF PlainStep, IInv, Phase, Synced
  <2>2. PICK t \in Picks(Committed) : Commit(t)
    BY <1>2, <2>1 DEF PlainStep
  <2>3. CASE pc' = "done"
    <3>1. EosSeen' \/ ~More'
      BY <2>3 DEF IInv, Phase
    <3>2. QED
      BY <1>0, <2>1, <2>2, <2>3, <3>1, ReturnImplements
  <2>4. CASE pc' # "done"
    BY <1>0, <2>1, <2>2, <2>4, CommitImplements
  <2>5. QED
    BY <2>3, <2>4
<1>3. CASE StartRound \/ DraftStep \/ Verify
  <2>1. req' = req /\ generated' = generated /\ pc # "done"
    BY <1>3 DEF StartRound, DraftStep, Verify, output
  <2>2. pc' # "done"
    BY <1>3 DEF StartRound, DraftStep, Verify
  <2>3. QED
    BY <2>1, <2>2, SilentImplements
<1>4. CASE AcceptDraft \/ RejectDraft
  <2>1. pc = "accept" /\ More /\ ~EosSeen /\ Verified /\ accepted < Len(drafted)
    BY <1>4 DEF AcceptDraft, RejectDraft, IInv, Phase
  <2>2. Predicting = Committed
    BY <1>0, <2>1, PredictingIsCommitted
  <2>3. (\E t \in Picks(Committed) : Commit(t)) /\ req' = req
    BY <1>4, <2>2 DEF AcceptDraft, RejectDraft, Replace
  <2>4. pc' # "done"
    BY <1>4 DEF AcceptDraft, RejectDraft
  <2>5. QED
    BY <1>0, <2>1, <2>3, <2>4, CommitImplements
<1>5. CASE Bonus
  <2>1. /\ pc = "bonus" /\ More /\ ~EosSeen /\ Verified /\ accepted = Len(drafted)
        /\ Len(drafted) >= 1 /\ req' = req /\ pc' # "done"
    BY <1>0, <1>5 DEF Bonus, IInv, Phase, Types
  <2>2. CASE req.no_bonus
    <3>1. generated' = generated
      BY <1>5, <2>2 DEF Bonus, output
    <3>2. QED
      BY <2>1, <3>1, SilentImplements
  <2>3. CASE ~req.no_bonus
    <3>1. Last(verify_batch) = Committed
      BY <1>0, <2>1, LastRowIsCommitted
    <3>2. Commit(Argmax(Committed))
      <4>1. Commit(Argmax(Last(verify_batch)))
        BY <1>5, <2>3 DEF Bonus
      <4>2. QED
        BY <3>1, <4>1 DEF Commit
    <3>3. Committed \in Seq(Token) /\ Len(Committed) <= MaxSeq /\ req \in Request
      <4>1. /\ Committed \in Seq(Token) /\ Len(Committed) \in Nat
            /\ Len(Committed) + Headroom <= MaxSeq
        BY <1>0, Sizes
      <4>2. QED
        BY <1>0, <4>1, SizeAssumption DEF Types
    <3>4. Argmax(Committed) \in Picks(Committed)
      BY <3>3, PicksAreTokens
    <3>5. QED
      BY <1>0, <2>1, <3>2, <3>4, CommitImplements
  <2>4. QED
    BY <2>2, <2>3
<1>6. CASE Account
  <2>1. req' = req /\ generated' = generated /\ pc # "done"
    BY <1>6 DEF Account, output
  <2>2. CASE pc' = "done"
    <3>1. EosSeen' \/ ~More'
      BY <2>2 DEF IInv, Phase
    <3>2. QED
      BY <1>0, <2>1, <2>2, <3>1, ReturnImplements
  <2>3. CASE pc' # "done"
    BY <2>1, <2>3, SilentImplements
  <2>4. QED
    BY <2>2, <2>3
<1>7. CASE UNCHANGED vars
  <2>1. req' = req /\ generated' = generated /\ pc' = pc
    BY <1>7 DEF vars, output
  <2>2. QED
    BY <2>1 DEF Plain!vars
<1>8. QED
  BY <1>1, <1>2, <1>3, <1>4, <1>5, <1>6, <1>7 DEF Next, Returned

\* Whatever the drafter proposes and however rounds end, the output is one plain
\* decoding could have produced: token by token from the target's own logits.
THEOREM ImplementsPlainDecode == Spec => PlainSpec
BY InitImplements, StepImplements, Invariance, PTL DEF Spec, PlainSpec, Plain!Spec
=============================================================================
