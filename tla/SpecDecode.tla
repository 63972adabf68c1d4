----------------------------- MODULE SpecDecode ------------------------------
(***************************************************************************)
(* The speculative-decode loop (runtime/spec_decode.rs) together with the  *)
(* target-model operations it drives (runtime/gemma4.rs): forward_token,   *)
(* verify_forward and truncate over one KV cache.                          *)
(*                                                                         *)
(* The KV cache is modelled by the token whose key/value row sits in each  *)
(* slot, rows left behind by rejected drafts included.  Logits and hidden  *)
(* states are modelled by the context the kernels read to compute them:    *)
(* the rows of the first pos slots.  A row that is wrong or stale is then  *)
(* visible as a wrong context.  The drafter is a black box: it may propose *)
(* any token.                                                              *)
(***************************************************************************)
EXTENDS Naturals, SequencesExt

CONSTANTS
  Token,          \* the vocabulary
  Eos,            \* the end-of-sequence token
  Blank,          \* a KV slot nothing was written to
  Argmax(_),      \* Argmax(ctx): the greedy pick on the logits after ctx
  Support(_),     \* Support(ctx): what temperature sampling may return there
  Prompts,        \* encoded prompts of the requests
  Limits,         \* max_tokens of the requests
  MaxSeq,         \* context window the KV cache is allocated for
  Headroom,       \* slack the admission check keeps (8 in the code)
  MaxK,           \* largest draft length a request may ask for (4)
  MaxVerifyK,     \* MAX_VERIFY_K: rows of the verify scratch buffers
  AlphaPct,       \* adaptive_min_alpha in percent (55), 0: adaptive-K off
  AdaptiveWindow  \* rounds in the adaptive window (8)

Contexts == UNION {[1..n -> Token] : n \in 0..MaxSeq}

ASSUME TokenAssumption == Eos \in Token /\ Blank \notin Token

ASSUME ModelAssumption ==
  \A ctx \in Contexts : Argmax(ctx) \in Support(ctx) /\ Support(ctx) \subseteq Token

\* The rounds verify at most MaxK rows, the scratch holds them, and the
\* admission check leaves room for a whole round past the last token.
ASSUME SizeAssumption ==
  /\ MaxSeq \in Nat /\ MaxVerifyK \in Nat /\ AdaptiveWindow \in Nat \ {0}
  /\ Headroom \in Nat /\ MaxK \in Nat \ {0} /\ AlphaPct \in Nat
  /\ MaxK <= MaxVerifyK /\ MaxK <= Headroom

\* The serve path prefills prompt[..n-1] and forwards the last token apart, so
\* a prompt has at least two tokens.
ASSUME RequestAssumption ==
  /\ Limits \subseteq Nat
  /\ \A p \in Prompts : p \in Seq(Token) /\ Len(p) >= 2

VARIABLES
  req,            \* arguments of the call
  kv, pos,        \* Gemma4GpuState: cache slots and decode position
  hidden,         \* context behind hidden_b, the drafter's h_prev seed
  verify_logits,  \* context behind the logits of the next position
  drafted, low,   \* this round's drafts; the last one was below p_min
  verify_batch,   \* contexts behind the K verify logit rows
  pre_verify_pos,
  accepted,       \* accepted_this_round
  generated, last_tok, hit_eos,
  accept_window, mtp_off,
  rounds,         \* history: every round's acceptance rate
  pc

target == <<kv, pos, hidden>>
draft  == <<drafted, low>>
verify == <<verify_batch, pre_verify_pos, accepted>>
output == <<generated, last_tok, hit_eos>>
adapt  == <<accept_window, mtp_off, rounds>>
vars   == <<req, target, verify_logits, draft, verify, output, adapt, pc>>

Request == [prompt : Seq(Token), max_tokens : Nat, sampling : BOOLEAN,
            k : 1..MaxK, p_min : BOOLEAN, no_bonus : BOOLEAN]

\* Mutant: the slack for a whole round is forgotten.
AdmittedTight(p, m) == Len(p) + m <= MaxSeq

\* The admission check of the serve worker.
Admitted(p, m) == Len(p) + m + Headroom <= MaxSeq

-----------------------------------------------------------------------------
(* The target model                                                         *)

\* What a kernel that attends to the first n slots reads.
Context(cache, n) == [i \in 1..n |-> cache[i]]

\* A pick from logits computed on ctx: greedy, or a temperature sample.
Picks(ctx) == IF req.sampling THEN Support(ctx) ELSE {Argmax(ctx)}

\* Mutant: the row lands one slot too far.
ForwardShifted(at, t) ==
  /\ kv' = [kv EXCEPT ![at + 2] = t]
  /\ pos' = at + 1
  /\ hidden' = Context(kv', at + 1)

\* forward_token on a cache whose position is `at`: writes the token's row,
\* attends to all rows up to it, leaves the position one further.
Forward(at, t) ==
  /\ kv' = [kv EXCEPT ![at + 1] = t]
  /\ pos' = at + 1
  /\ hidden' = Context(kv', at + 1)

\* The rows of the drafts, written after the first pos slots.
WriteRows(tokens) ==
  [j \in 1..MaxSeq |-> IF j \in pos + 1..pos + Len(tokens) THEN tokens[j - pos] ELSE kv[j]]

\* Mutant: hidden_b keeps the first row of the batch.
VerifyForwardFirstRow(tokens) ==
  LET n == Len(tokens) IN
  /\ kv' = WriteRows(tokens)
  /\ pos' = pos + n
  /\ verify_batch' = [i \in 1..n |-> Context(kv', pos + i)]
  /\ hidden' = Context(kv', pos + 1)

\* verify_forward: the rows of every draft are written at once, row i attends
\* to the rows up to itself, hidden_b is left at the last row.
VerifyForward(tokens) ==
  LET n == Len(tokens) IN
  /\ kv' = WriteRows(tokens)
  /\ pos' = pos + n
  /\ verify_batch' = [i \in 1..n |-> Context(kv', pos + i)]
  /\ hidden' = Context(kv', pos + n)

\* The argument checks of verify_forward.
VerifyFits(tokens) ==
  Len(tokens) <= MaxVerifyK /\ pos + Len(tokens) <= MaxSeq

-----------------------------------------------------------------------------
(* The loop                                                                 *)

\* The call of the serve worker: the prompt is in the cache, the last prompt
\* token has just been forwarded.
Init ==
  /\ req \in [prompt : Prompts, max_tokens : Limits, sampling : BOOLEAN,
              k : 1..MaxK, p_min : BOOLEAN, no_bonus : BOOLEAN]
  /\ Admitted(req.prompt, req.max_tokens)
  /\ pos = Len(req.prompt)
  /\ kv = [j \in 1..MaxSeq |-> IF j <= pos THEN req.prompt[j] ELSE Blank]
  /\ hidden = Context(kv, pos)
  /\ verify_logits = hidden
  /\ last_tok = req.prompt[pos]
  /\ drafted = <<>> /\ low = FALSE
  /\ verify_batch = <<>> /\ pre_verify_pos = pos /\ accepted = 0
  /\ generated = <<>> /\ hit_eos = FALSE
  /\ accept_window = <<>> /\ mtp_off = FALSE /\ rounds = <<>>
  /\ pc = "loop"

More == Len(generated) < req.max_tokens

\* A token is added to the output.
Commit(t) ==
  /\ generated' = Append(generated, t)
  /\ last_tok' = t
  /\ hit_eos' = (t = Eos)

LoopExit ==
  /\ pc = "loop" /\ ~More
  /\ pc' = "done"
  /\ UNCHANGED <<req, target, verify_logits, draft, verify, output, adapt>>

\* Adaptive-K has turned the drafter off: one token of plain decode.
PlainStep ==
  /\ pc = "loop" /\ More /\ mtp_off
  /\ \E pick \in Picks(verify_logits) :
       /\ Commit(pick)
       /\ IF pick = Eos \/ Len(generated') >= req.max_tokens
            THEN pc' = "done" /\ UNCHANGED <<target, verify_logits>>
            ELSE Forward(pos, pick) /\ verify_logits' = hidden' /\ UNCHANGED pc
  /\ UNCHANGED <<req, draft, verify, adapt>>

StartRound ==
  /\ pc = "loop" /\ More /\ ~mtp_off
  /\ drafted' = <<>> /\ low' = FALSE
  /\ pc' = "draft"
  /\ UNCHANGED <<req, target, verify_logits, verify, output, adapt>>

\* What the drafter may propose.  Its step reads the target's cache and hidden
\* state and writes neither.
Drafts == Token

RoundDrafted == Len(drafted) = req.k \/ low

\* One drafter step.  With p_min set, a draft below the threshold ends the
\* phase, after it has been pushed.
DraftStep ==
  /\ pc = "draft" /\ ~RoundDrafted
  /\ \E d \in Drafts : drafted' = Append(drafted, d)
  /\ low' \in {FALSE, req.p_min}
  /\ UNCHANGED <<req, target, verify_logits, verify, output, adapt, pc>>

Verify ==
  /\ pc = "draft" /\ RoundDrafted
  /\ IF VerifyFits(drafted)
       THEN /\ VerifyForward(drafted)
            /\ pre_verify_pos' = pos
            /\ accepted' = 0
            /\ pc' = "accept"
       ELSE pc' = "err" /\ UNCHANGED <<target, verify>>
  /\ UNCHANGED <<req, verify_logits, draft, output, adapt>>

\* Mutant: every draft is tested against the logits before the first one.
PredictingFirst == verify_logits

\* The logits that predict the draft under test.
Predicting == IF accepted = 0 THEN verify_logits ELSE verify_batch[accepted]

\* A draft is accepted if it is the target's greedy pick or, when sampling,
\* possibly if the target gives it any probability.
AcceptDraft ==
  /\ pc = "accept"
  /\ LET d == drafted[accepted + 1] IN
       /\ d \in Picks(Predicting)
       /\ Commit(d)
       /\ accepted' = accepted + 1
       /\ pc' = IF d = Eos \/ Len(generated') >= req.max_tokens THEN "account"
                ELSE IF accepted' = Len(drafted) THEN "bonus" ELSE "accept"
  /\ UNCHANGED <<req, target, verify_logits, draft, verify_batch, pre_verify_pos, adapt>>

\* Mutant: the rejected rows stay in the cache.
CutBackNot == pos

\* truncate: the position the cache is cut back to on a rejection.
CutBack == pre_verify_pos + accepted

\* Mutant: the replacement is forwarded but not output.
ReplaceUnpushed(t) ==
  /\ Forward(CutBack, t)
  /\ verify_logits' = hidden'
  /\ UNCHANGED output

\* The target's pick takes the place of the rejected draft.
Replace(t) ==
  /\ Forward(CutBack, t)
  /\ verify_logits' = hidden'
  /\ Commit(t)

\* The first rejected draft: the cache is cut back to the accepted rows and the
\* target's own pick is forwarded in its place.
RejectDraft ==
  /\ pc = "accept"
  /\ \E replacement \in Picks(Predicting) :
       /\ ~req.sampling => replacement # drafted[accepted + 1]
       /\ Replace(replacement)
  /\ pc' = "account"
  /\ UNCHANGED <<req, draft, verify, adapt>>

\* Every draft was accepted: the last verify row gives one more token.
Bonus ==
  /\ pc = "bonus"
  /\ IF req.no_bonus
       THEN /\ verify_logits' = Last(verify_batch)
            /\ UNCHANGED <<target, output>>
       ELSE LET bonus == Argmax(Last(verify_batch)) IN
            /\ Forward(pos, bonus)
            /\ verify_logits' = hidden'
            /\ Commit(bonus)
  /\ pc' = "account"
  /\ UNCHANGED <<req, draft, verify, adapt>>

\* A round's acceptance in twelfths, exact for 1 to 4 drafts.
Rate == (12 * accepted) \div Len(drafted)

\* Mutant: the oldest rate is never dropped.
SlideNot(window) == window

\* What stays of a full window.
Slide(window) == Tail(window)

BelowAlpha(rates) == 100 * FoldSeq(+, 0, rates) < 12 * AlphaPct * Len(rates)

\* End of the round: the adaptive window, then the end-of-sequence test.
Account ==
  /\ pc = "account"
  /\ rounds' = Append(rounds, Rate)
  /\ IF AlphaPct > 0
       THEN LET window == Append(accept_window, Rate)
                full   == Len(window) >= AdaptiveWindow
            IN /\ mtp_off' = (mtp_off \/ (full /\ BelowAlpha(window)))
               /\ accept_window' = IF full THEN Slide(window) ELSE window
       ELSE UNCHANGED <<accept_window, mtp_off>>
  /\ pc' = IF hit_eos THEN "done" ELSE "loop"
  /\ UNCHANGED <<req, target, verify_logits, draft, verify, output>>

\* The call has returned.
Returned == pc \in {"done", "err"} /\ UNCHANGED vars

Next == \/ LoopExit \/ PlainStep \/ StartRound \/ DraftStep \/ Verify
        \/ AcceptDraft \/ RejectDraft \/ Bonus \/ Account \/ Returned

Spec == Init /\ [][Next]_vars /\ WF_vars(Next)
-----------------------------------------------------------------------------
(* Properties                                                               *)

Committed == req.prompt \o generated

\* Everything has its type; in particular no kernel ever attends to a slot that
\* was not written (hidden, logits and verify rows are contexts of tokens).
TypeOK ==
  /\ req \in Request
  /\ kv \in [1..MaxSeq -> Token \cup {Blank}] /\ pos \in Nat
  /\ hidden \in Seq(Token) /\ verify_logits \in Seq(Token)
  /\ drafted \in Seq(Token) /\ low \in BOOLEAN
  /\ verify_batch \in Seq(Seq(Token))
  /\ pre_verify_pos \in Nat /\ accepted \in Nat
  /\ generated \in Seq(Token) /\ last_tok \in Token /\ hit_eos \in BOOLEAN
  /\ accept_window \in Seq(Nat) /\ mtp_off \in BOOLEAN /\ rounds \in Seq(Nat)
  /\ pc \in {"loop", "draft", "accept", "bonus", "account", "done", "err"}

\* At the head of every iteration the cache holds exactly the committed tokens
\* and the pending logits were computed on exactly those: no row of a rejected
\* draft is ever attended to, whatever was accepted or cut back before
\* (truncate + forward_token of the reject branch, bonus, no-bonus).
CacheHoldsCommitted ==
  pc = "loop" /\ More =>
    /\ Context(kv, pos) = Committed
    /\ verify_logits = Committed

\* When the drafter is seeded, hidden_b is the state of the last committed
\* token and last_tok is that token: the seed is never one of a rejected row or
\* of an earlier round (hidden_b sync at the end of verify_forward).
DraftSeedFresh ==
  pc = "draft" /\ drafted = <<>> =>
    /\ hidden = Committed
    /\ last_tok = Last(Committed)
    /\ pos = Len(Committed)

\* Neither the verify bound nor the end of the cache is ever hit: an admitted
\* request never fails in the middle of its answer.
NoOverrun == pos <= MaxSeq /\ pc # "err"

\* The rates of the AdaptiveWindow rounds that end with round i.
LastWindow(i) == SubSeq(rounds, i - AdaptiveWindow + 1, i)

\* Adaptive-K turns the drafter off exactly when some AdaptiveWindow
\* consecutive rounds were below the threshold, and no round is ever drafted
\* after that (the window really rolls: one stale rate would move the point).
AdaptiveExact ==
  pc = "loop" =>
    (mtp_off <=> AlphaPct > 0
                 /\ \E i \in AdaptiveWindow..Len(rounds) : BelowAlpha(LastWindow(i)))

\* The call returns, whatever the drafter proposes: every round commits at
\* least one token.
Terminates == <>(pc = "done")

\* Speculation is invisible in the output: the loop is a plain decode loop.
Plain == INSTANCE PlainDecode WITH
  prompt <- req.prompt, max_tokens <- req.max_tokens, sampling <- req.sampling,
  stopped <- (pc = "done")
PlainSpec == Plain!Spec
=============================================================================
