# Formal models of the inference engine

TLA+ models, TLC configurations and TLAPS proofs about this repository: a Rust engine that
serves Gemma 4 and Qwen 3.5 models on AMD gfx906 GPUs, with an OpenAI-compatible HTTP
server, speculative decoding, prefix caching and captured GPU graphs. Paths below are
relative to the repository root.

The engine is one process. Its kernels are numeric and out of reach of a model checker; the
*protocol* around them is not: which cache row a kernel may read, which graph may be
replayed, who may reuse a state another request left behind, who answers whom. That is what
is modelled.

## 1. Inventory

| Component | Source | State | Operations | What makes it correct |
|---|---|---|---|---|
| Speculative loop | `src/runtime/spec_decode.rs` | output, last token, pending logits, draft batch, rolling acceptance window, adaptive switch | draft, verify, accept, reject + replace, bonus, adaptive-K, plain step | output is one the target alone could have produced; the cache never keeps a rejected row in view; always ends |
| Gemma decode state | `src/runtime/gemma4.rs` | KV rows, `pos`, `hidden_b`, `step_buf` | `forward_token`, `verify_forward`, `prefill_forward`, `reset`, `truncate`, `snapshot`, `restore` | rows `0..pos` are exactly the tokens of the current request |
| Gemma graphs | `src/runtime/gemma4.rs` | prefill graphs per length, verify graphs per K, decode graph, warm scratch pool | warm, capture, replay, launch / collect | a replay does what the direct path does, at every position |
| Prefix cache | `src/serve/mod.rs` 724-824 | at most 4 snapshots, LRU order | `best_match`, `touch`, `insert` | bounded, exact LRU, a hit gives the context a cold run gives |
| HTTP server | `src/serve/mod.rs`, `src/serve/http.rs` | connections, job channel, reply channels, metrics, thinking stripper | read, route, submit, forward chunks, load, drain, answer, catch panics | one well-formed answer per request, no text lost, counters consistent, nobody waits for ever |
| SuperQuant KV cache | `src/runtime/kv_superquant.rs` | warm tier (int8), cold tier (turbo3, about 3.5 bits a value) | write, demote, migrate | every entry in exactly one tier, in order |
| Qwen runtime | `src/runtime/qwen35.rs` | attention KV, recurrent states, MTP cache, buffer pools | forward, snapshot, restore, MTP loop, pooled prefill | a rejected draft leaves no trace in the recurrent state; no buffer is reused while a kernel reads it |
| Qwen pipeline | `src/runtime/pipeline.rs` | layer split, one stream per device, hand-over buffers, events | plan the split, prefill in chunks, launch, finish | a stage reads a buffer only after the one before wrote it and before it is overwritten |
| Kernel cache | `src/runtime/mod.rs` | `.hsaco` files named by digest | compile, write to a temporary, rename, load | a reader never loads a partial or stale object |
| Sampling | `src/sampling.rs` | token history, RNG | penalties, top-k, top-p, min-p, draw | the drawn token is in the support the parameters define |
| Tokenizer, chat templates, JSON | `src/tokenizer.rs`, `src/chat.rs`, `src/serve/json.rs` | none that lasts | encode, decode, render, parse | round trips; decoding token by token gives the text decoded at once |
| GGUF reader, model configuration | `src/gguf/`, `src/model/` | one mapped file | parse at start-up | bounds |
| CPU reference, quantisation, GPU kernels, HIP bindings | `src/cpu/`, `src/quant/`, `kernels/`, `src/hip/` | numeric | — | numeric agreement, tested in the repository |
| Command line, benchmarks | `src/main.rs`, `tests/`, `scripts/` | none | drives the above | — |

### Interactions

* An acceptor thread takes connections and gives each a thread (`serve/mod.rs` 1702-1741). The
  thread parses one request; GETs are answered there, everything else becomes a job on ONE
  mpsc channel, with a fresh reply channel in it (1606-1652).
* ONE worker thread owns every model and answers jobs in order (1227-1536). It sends
  `Chunk`s while it generates and one `Done`. The connection thread decides by the *first*
  message between a plain reply and an event stream.
* Text generation calls `ServerModel::generate` (1033-1215), which looks in the prefix
  cache, prefills, snapshots and either runs the plain loop (decode step launched on a
  captured graph *before* the text is delivered, collected after) or calls
  `spec_decode_generate`.
* Decode states, graphs and the prefix cache outlive a request; a request may end in an
  error, a panic (caught around the request) or with a GPU step still in flight.
* Metrics are atomics written by all threads and read by `GET /metrics`.

### Hard behaviour

Rows of rejected drafts stay in the cache behind `truncate`; a row written by one forward
is read by a later one after any mixture of accepts, rejects, bonus and plain steps. Graphs
captured under one request are replayed under another. A client may leave while a step is in
flight. Loading may fail or panic with jobs in the queue. A stripper holds text back that
must come out however the stream ends. A glyph may be spread over several tokens. `PROJECT.json` lists each hazard at its line.

## 2. Modules

| Module | Role |
|---|---|
| `PlainDecode` | abstract: what any decode loop promises |
| `SpecDecode` | the speculative loop over a Gemma KV cache; implements `PlainDecode` |
| `SpecDecodeProofs` | TLAPS proofs about `SpecDecode` |
| `QwenStage` | what the kernels of a run of Qwen blocks read and write: KV rows and recurrent state |
| `QwenMtp` | the MTP loop over a recurrent state, with save and restore; implements `PlainDecode` |
| `QwenMtpProofs` | TLAPS lemmas about the forward of a run of blocks (`QwenStage`), and proofs about `QwenMtp` |
| `PipelinePlan` | the split of a model over devices, as functions |
| `QwenPipeline` | one queue per device, events, buffer pools, prefill graphs, requests one after another; extends `QwenStage` and `PipelinePlan` |
| `QwenPipelineProofs` | TLAPS proofs about `PipelinePlan` and `QwenPipeline` |
| `TieredAttention` | what the three SuperQuant attention kernels read of two tiers |
| `TieredKv` | the two-tier cache under the command line's loop; implements `PlainDecode` |
| `TieredKvProofs` | TLAPS proofs about `TieredAttention` and `TieredKv` |
| `Launches` | named vectors, weight formats, routed experts, split attention: what both runtimes' kernels share |
| `QwenForward`, `GemmaForward` | the loaders and forwards of each runtime, launch by launch, against a reference model |
| `DflashForward` | the DFlash drafter and its loop, over `GemmaForward` |
| `Forward` | the forwards of both families under one specification |
| `GemmaServe` | one request after another on one state: prefix cache, prefill graphs, overlapped decode, verify graphs |
| `GemmaServeProofs` | TLAPS proofs about `GemmaServe` |
| `Server` | threads, channels, streaming, metrics |
| `ServerProofs` | TLAPS proofs about `Server` |
| `StreamText` | from tokens to the text of a stream: incremental decoding and the thinking stripper |
| `StreamTextProofs` | TLAPS proofs about `StreamText` |
| `KernelCache` | processes that share a directory of compiled kernels and may be killed |
| `KernelCacheProofs` | TLAPS proofs about `KernelCache` |
| `MC...` | constants for TLC |

Definitions whose comment begins with "Mutant" are plausible mistakes; no specification uses
them. `PROJECT.json` says which property each of them breaks.

### SpecDecode and PlainDecode

Data abstraction. A KV slot is the token whose key/value row sits in it (a row depends
on more than its token, but a row is only ever read together with all rows before it). The
hidden state and a row of logits are the *context* a kernel read to compute them, that is the
rows of the first n slots at that time. A stale or missing row then shows as a wrong context.
The target model is the pair of constants `Argmax` and `Support`; the drafter may propose any
token, so nothing depends on how good it is.

State: `kv`, `pos`, `hidden` are `Gemma4GpuState` and `hidden_b`; `verify_logits` the pending
logits; the rest are the locals of `spec_decode_generate` under their own names. `rounds` is a
history variable. Actions follow the loop: `LoopExit`, `PlainStep` (the drafter is off),
`StartRound`, `DraftStep`, `Verify` (with its argument checks and error return), `AcceptDraft`,
`RejectDraft` (truncate, pick, forward), `Bonus` (both settings of `SPEC_NO_BONUS`), `Account`
(adaptive window and end-of-sequence test). `Init` is the state the serve path calls it in,
with the admission check of `generate`.

Acceptance with temperature is a choice inside `Support`: a draft the target gives
probability zero is never accepted, anything else may go either way. Rates are counted
in twelfths, exact for draft lengths 1 to 4, where the code adds `f32`s.

The MoE target verifies by single forwards (`verify_via_decode`); it writes the same rows and
reads the same contexts, and is not a separate action.

### GemmaServe

The worker's point of view: `Receive` (admission), `Reset` / `Restore` (miss / hit),
`PlainPrefill` (with the warm / capture / replay states), `Snapshot` (which may be skipped
when the device has no memory), `Launch` / `Collect` (the overlapped decode),
`SpecPrefill` / `SpecRound`, `Finish` (any end of the answer, also one that leaves a step in
flight), `Abort` (error or panic before the answer began), `StreamProgress` (the device
finishes a step on its own). `inflight` is the slot an enqueued step will write; the stream
executes in order and synchronous copies wait for it, so every later operation reads
`Drained`. `recency` is a history variable, against which the LRU is checked. Answers are
made of one token: what is picked is `SpecDecode`'s subject; here it matters what is read.

`SpecRound` is a whole round: it writes `k` rows at `pos`, commits `n <= k + 1` tokens and
leaves the other rows behind.

### Server

Connection threads: `Accept`, `ReadFails`, `AnswerGet`, `Submit`, `SubmitFails`,
`ForwardChunk`, `ForwardDone`, `Dropped`; clients: `ClientLeaves`, and any write to a client
that left may fail (`WriteFails`), which drops the receiver. Worker: `LoadModels`,
`LoadPanics`, `Drain`, `TakeRejected`, `TakeGenerate`, one token at a time by `DecodeQuietly`,
`HoldBack`, `EndPreamble` or `EmitText`, then `FinishAnswer` or `FailAnswer`, `CloseStream`,
`Reply`; `ProcessExits` is the end of `run`; `TimeIsUp` is the clock.

The thinking stripper is modelled by how many tokens it holds and whether it has given up
waiting: at any token it may go on holding, drop a preamble, or release. Chunk contents are
counts of tokens; `made` and `cut` are history. A token that adds no text (part of a glyph)
is not told apart from one that does: `StreamText` has that detail. A client that stays but does not read is one that leaves: the socket has a 60
second timeout.

### StreamText

Pure functions (`Decode`, the lossy decoding of a byte sequence; `Strip`, the stripper of
answers that are not streamed) and the loop around them: a token is decoded (`Decoded`), the
text has not grown (`NoDelta`), the slice begins inside a character (`SlicePanics`), or the new
part is delivered to the stripper, which passes it on, drops a preamble, gives up waiting or
holds it back (`PassThrough`, `EndPreamble`, `GiveUp`, `HoldBack`); `Stop` flushes. A text is the
sequence of its bytes, each a pair of its character's kind and its offset in the character.
Markers arrive whole, as the special tokens they are. `torn` and `dropped` are history.

### QwenStage and QwenMtp

A KV row or a recurrent state is the sequence of tokens it was computed from: a row written
after the wrong rows, or a state advanced by a rejected draft, is another sequence, and what
follows no sequence at all is `Bad`. `QwenStage` gives a decode step (`DecodeBody`, which takes
the position from a register) and a batch (`Batched`, from the length of the caches on).

`QwenMtp` is `mtp_spec_generate` as `qwen_mtp_gen_cli` calls it: `Prefill` (batched, or a single
`forward_token`), `Bootstrap`, `StartRound` (the snapshot is saved), `DraftLink`, `Verify`,
`Accept` or `Reject` (restore, then decode the first token alone), `Push`, `EndRound`.
`prev_hidden` is a pointer into one of two buffers, as in the code; the drafter may propose any
token. The loop may return more than `max_tokens` when an end-of-sequence token follows the
limit inside a round, so the refinement is of the output cut at the limit.

### PipelinePlan and QwenPipeline

`PlanSplit` is `plan_split`, its running sum a function (`Through`); `BuildFails`
and `Build` are `Qwen35Pipeline::new` with all its errors. A stage has a queue of work, done in
order by its device at any time (`Exec`); the host enqueues and waits only where the code
copies synchronously. Buffers are taken from a pool by size and given back while work that
names them may still be queued; a buffer's contents are rows, overwritten when the work runs.
Prefill goes chunk by chunk through the stages, with an uncaptured first prefill per length, a
capture, and replays. A request may fail at an enqueue or be left by its client; the next one
starts on what is left. A prefill call that fails (`FailPrefill`) fails before its blocks, in an open
capture, which the code never ends so that the stage is lost (`stuck`), or in uncaptured blocks or
after them, when the stage stays usable. The decode step is launched before the text is delivered and collected
after it.

### TieredAttention and TieredKv

An entry carries its token, its side, its coding and the rotation it is under. `TieredKv` has the
capacities (`Config`: the defaults and the two variables), the batched and the sequential prefill,
`Migrate`, `WriteStep` with `Demote`, the decode loop and the traced forward after it.
`TieredAttention` says which positions the launch cuts into which slices, what a workgroup of
each kernel reads of each tier, under which rotation a score is taken, which sums are rotated
back, and what the merge adds up. A score across rotations, a position read twice or not at
all, or values rotated back twice, is an entry nobody wrote, and the context is lost.

### Launches, QwenForward, GemmaForward, DflashForward, Forward

Every vector of the reference model has a name, its stage, block and row, and its definition is
an operation on named vectors: `q_norm` of a row is the RMS norm, with a given weight, of its
`q_raw`. A launch on the GPU is an operation on what its buffers hold; if that is the definition of
a vector of its block and row, the output buffer now holds this vector, and otherwise
`Garbage`. A buffer overwritten too early, a residual added twice, the wrong norm weight, a row
of the cache at another position, or a kernel for another weight format all end as `Garbage`
or as the wrong name. Quantising to 8 bits keeps the name; which vector the shared `xq8` buffer
holds at a launch does matter. Scratch buffers are stale at the start of a call. `Then(A, LAMBDA m : B)`
is launch B on the machine A left.

Weights go through the loaders: relabelled, repacked or kept, and every path has its table of
kernels. A format without a kernel refuses the call. Routed experts go through the sort by
expert, tiles, gather and scatter of the grouped kernels, or entry by entry.

A state of `Forward` is one loaded model and the calls made on it: decode steps, batched
prefill, verify, cutting the context back, drafts of the MTP head or of the assistant, and, for
DFlash, taps, `append_context`, `draft_block`, verify and accept. Qwen's reference is
`cpu/qwen3_5.rs`, operation by operation; experts are absent there and follow the comments of the
runtime. The scalar Gemma model has neither shared caches nor per-layer embeddings, so these
follow `model/gemma4.rs` 243-272 and the comments of `enqueue_ple_setup` and `block_forward`; the
reference of DFlash is `docs/DFLASH_PORT.md`.

### KernelCache

`ReadHeader`, `TruncateHeader`, `WriteHeader` (`fs::write` is not atomic), `ProbeVersion`, `Lookup`,
`WriteSource`, `HipccReads`, `HipccEnds`, `Cleanup`, `Publish`; `Crash` at any of them and `Start`
again, with the same or another build; `Upgrade` of the compiler. An entry records what it was
really compiled from. `Mixed` lets builds change while other processes run; the code does not
stand that (below), so the run has it `FALSE`.

## 3. Runs

| Run | Constants | States | Shows |
|---|---|---|---|
| `spec_decode` | 3 tokens, 2 prompts (2 and 3 tokens), limits 1, 2, 4, 5, window of 9, drafts up to 3, adaptive window 2 | about 105 000 | `TypeOK`, `CacheHoldsCommitted`, `DraftSeedFresh`, `NoOverrun`, `AdaptiveExact`, refinement of `PlainDecode`, termination |
| `gemma_serve` | 3 prompts, `<s,u>`, `<s,v>`, `<s,u,v>`, limits 2 and 4, window of 6, K = 1, 2 snapshots | about 499 000 | `ColdContextExact`, `LruExact`, `NoOverrun` |
| `server` | 2 connections; one chat stream with usage, the other a rejected request, an embedding, a unary answer or a speculative stream | about 120 000 | `OneAnswer`, `StreamComplete`, `CountedBeforeSeen`, `Answered`, `TypeOK` |
| `stream_text` | 10 tokens: letter, blank, markers, one with two closing markers, glyphs of 2 and 4 bytes in pieces and whole; 5 tokens, buffer of 3 bytes | about 197 000 | `NothingLost`, `PreambleHidden`, `AgreesWithStrip` |
| `tiered_kv` | 3 layers, two of them sharing a cache, prompts up to 3, up to 3 steps, warm tier 3 by default, both variables unset, smaller and larger than needed; slices of 1 to 2 positions, 2 waves, 3 kernels | about 29 600 | `TypeOK`, `TiersHoldContext`, `WarmFirst`, `EnoughRoom`, refinement of `PlainDecode` |
| `qwen_mtp` | 3 tokens, prompts of 1 and 2, limits 1, 2, 3, 5, drafts 1 to 3, attention and recurrent blocks | about 10 700 | `TypeOK`, `StateIsCommitted`, `SeedFresh`, `NoOverrun`, refinement of `PlainDecode`, termination |
| `qwen_pipeline` | files of 2 to 4 blocks of three weights, a light or a heavy head; 1 to 4 devices of 3 visible, planned or split by hand; served on 1, 2, 2 and 3 stages; prompts of 1, 2 and 5 tokens, chunks of 2, context of 6; activations of width 1, inner buffers of width 2; 2 requests, 1 fault | about 338 000 | `TypeOK`, `PlanFair`, `ContextExact`, `NoAllocInCapture`, `PoolExact` |
| `kernel_cache` | 2 processes, 1 kernel, 2 builds, 2 compilers, 3 starts, 1 upgrade | about 235 000 | `TypeOK`, `LoadsOwn`, `EntriesStay`, `Settles` |
| `forward` | about 1 200 models, Qwen and Gemma, see `MCForward`; 2 to 6 tokens, batches of 2, window 2, drafts 2 at a time | about 12 000 | `MatchesReference`, `PathsAgree` |
| `gemma_hit`, `gemma_verify_graph`, `stream_glyphs` | as above | stop at the violation | the findings below |

What the less obvious properties say:

* `PlainSpec`: as seen through `generated`, the speculative loop only ever appends tokens the
  target may pick on exactly the prompt and the output so far, and returns when the output is
  complete. This is the promise that speculation is invisible.
* `DraftSeedFresh`: the drafter's `h_prev` and `last_tok` belong to the last *committed* token
  at the start of every round, whichever of five ways the last round ended.
* `AdaptiveExact`: the drafter is off iff some window of consecutive rounds was below the
  threshold; compared with the full history of rates.
* `ColdContextExact`: a request that reused no snapshot is answered from its own tokens only,
  after any sequence of hits, aborts, abandoned steps and graph replays before it. Hits are left
  to `HitContextExact`, which the code violates (finding 1).
* `TiersHoldContext`: the cold tier holds the oldest tokens, coded again exactly once, and the warm
  tier the rest untouched, each token once and in order, after migration, demotion and slide.
* `WarmFirst`: nothing is demoted while the warm tier has room.
* `EnoughRoom`: an assertion of the cascade fires only when the tiers are smaller than the
  request; the sizes computed by default never are. The caller relies on it: the
  assertion would end the process.
* `StateIsCommitted`: at every round of the MTP loop KV rows, recurrent state, lengths and pending
  logits stand for the prompt and the output, however the round before ended.
* `SeedFresh`: the pointer the drafter is seeded through still points at the last committed
  token's hidden state while it drafts.
* `ContextExact`: whatever order the devices' queues run in, and whatever a failed or abandoned
  request left in them, a pick is made from the logits of its own prompt and output.
* `NoAllocInCapture`: no buffer is allocated while a graph is captured, unless the prompt's earlier
  chunks keep activations in buffers of just the size the captured chunk works in. The comment at
  `runtime/qwen35.rs:4287` claims it without the exception ("The first prefill at each `n` runs
  uncaptured so the inner-block buffer pools fill with the right sizes"). Without it TLC refutes the claim
  with the constants of this run, where a chunk of two has activations as large as the inner
  buffers of a chunk of one: `pool_f32` is keyed by length alone, and on two stages the activations of
  earlier chunks are kept (`pipeline.rs:262`). So it goes for a hidden size of 1024 and inner
  widths of 2048: a prompt of 64 tokens, then one of 448 in chunks of 128, 128, 128 and 64. Where
  no two of the sizes `n * hidden` and `n * inner` meet, the exception is empty.
* `PoolExact`: every buffer is in one place and their number stays bounded by one prompt's needs.
* `PlanFair`: contiguous, no stage empty, and no other end of a stage would be nearer to its share.
* `LoadsOwn`: what a process loads was compiled from its own kernel, headers and compiler.
* `EntriesStay`: a published entry is never missing and never becomes another.
* `MatchesReference`: answers, cache rows and states after any sequence of calls are the
  reference's; `PathsAgree`: what one path runs the others run, but for the cases each module names.
* `LruExact`: the snapshots are the most recently used prompts, in order, without duplicates.
* `OneAnswer`: the frames on one socket are one plain reply, or one event stream in protocol
  order with no part twice.
* `StreamComplete`: text written + preamble dropped = tokens generated, at the finish frame.
* `CountedBeforeSeen`: whoever has an answer in hand finds it in the metrics; nothing is
  counted twice. The 503s after a failed load are excluded: the code does not count them.
* `NothingLost`: while tokens end with whole glyphs, dropped + shown + held back is the text.
* `PreambleHidden`: a preamble whose opening marker comes before the buffer is full is never
  seen by a client of a stream.
* `AgreesWithStrip`: the streaming and the plain stripper give the same answer, up to blanks
  that arrive in a later chunk than the marker. They do not where an answer has several closing
  markers or a marker that comes too late; the property leaves those out by name.
* `Answered`: a client that stays gets a complete answer, or the process ends.

Bounds and why they are enough. In `spec_decode`, prompts of two lengths and limits up to 5
give up to five rounds, so a round of every ending follows a round of every ending; the limit is
reached on every draft position; with `Headroom = MaxK` and a window of 9 the longest admitted
request just fits, which is why `AdmittedTight` breaks `NoOverrun`. `Argmax` depends on the
length of the context, so a context that is one row off gives a different pick. In
`gemma_serve` the three prompts overlap in one and in two tokens, one is a prefix of another,
and there is one prompt more than snapshots; a length is prefilled three times, so all three
graph states occur. `K = 1` keeps the product small: longer drafts are in `SpecDecode`. In
`server` two connections are the least at which one queues while the other is served; the
stream is two tokens long, so text can be held, cut and released at different tokens. A request
posts once per connection, as in the code (`Connection: close`). In `stream_text` the buffer
overflows after four of five tokens with and without markers inside, and every glyph is
followed by something. In `tiered_kv` the default warm tier of three is smaller than the longest
context of seven, so a run can migrate with and without a cold part and demote at every later
token; two layers that own their tiers show a cascade done for one only; with four splits at
most, a context of five or more gives slices of two positions, an uneven last slice and an
empty one, and slices across the two tiers. In `qwen_mtp` the limits let a round follow a round
of either ending, end in the middle of a round, and end on an end-of-sequence token inside
and beyond the limit. In `qwen_pipeline` two requests are the least at which one meets what
another left; the longest prompt makes two chunks of one size, so that the second is captured
while the first may still be queued; K, H and the number of inner buffers differ, so the two
pools do. The halving in `plan_split` matters from blocks of odd weight on: 1, 4 and 9. In
`kernel_cache` one kernel is enough, since nothing but the directory listing relates two; three
starts let a killed process come back while the other runs. In `forward` a model is fed two or
three tokens (six with DFlash): more than a batch, a chunk or a window, so every launch runs with
rows before it; every weight takes every format in turn, with and without int8 dot products.
Nothing needs a state constraint.

Deadlock is checked in every passing run but two; `Returned`, `AllClosed`, `Ended` and `Served` are the
only stuttering steps and are enabled only where the code has nothing left to do. `kernel_cache`
stops when its starts are used up, `forward` when its tokens are, so these two allow it.

Fairness. `SpecDecode`: weak fairness of `Next`, a sequential loop that is always able to take
its next step (`hipDeviceSynchronize` returning is assumed). `Server`: weak fairness of the
worker and of every connection thread separately, as operating system threads get; reading
ends by the 60 second timeout. Nothing is assumed of clients, of the clock or of
`ProcessExits`. `QwenMtp`: weak fairness of `Next`, as in `SpecDecode`. `KernelCache`: weak fairness of
each process's own steps, not of starts, crashes or upgrades; a killed process owes nothing. The
other modules state no fairness: their properties are invariants or refinements of safety.

## 4. Findings

1. `gemma_hit`: after a prefix-cache hit the suffix is prefilled at position 0, over the
   restored prefix (`src/serve/mod.rs` 1108, `src/runtime/gemma4.rs` 3024 and 3272).
2. `gemma_verify_graph`: the verify graph sizes its shared memory for the position at capture
   and is replayed at larger ones (`src/runtime/gemma4.rs` 3492 and 3761).
3. `stream_glyphs`: `from_utf8_lossy` counts an incomplete glyph as three bytes of text, so
   completing a four-byte glyph slices inside it and panics, and completing a two-byte one
   loses it and the byte after it (`src/serve/mod.rs` 1026, `src/tokenizer.rs` 396).

Noticed while modelling; no run is devoted to these, and the passing runs leave them out where
their constants or a comment says so:

* Speculative loop. A draft below `p_min` is pushed and verified (`spec_decode.rs` 154), although the
  comments at 59 and 150 say it is not. The output includes the end-of-sequence token, the plain
  loop's does not. Verification at a temperature ignores top-k, top-p and penalties.
* Serve path. The deadline is not passed to the speculative loop (`serve/mod.rs` 1200, `MANUAL.md`
  762), nor is the callback: a streaming client gets a finish reason and no text (1200, 1489).
  A generation that fails after its first chunk ends with `[DONE]` under status 200 (`MANUAL.md`
  496 says 500). The 503s of a drained queue are not counted. The stripper's buffer is bounded by
  `MAX_BUFFER` only while no opening marker is in it (580). Several closing markers are stripped
  differently when streamed. Text completions are stripped when streamed and not otherwise.
* Gemma. A replayed prefill graph already contains the soft cap that the replay branch applies
  again (`gemma4.rs` 2883 and 3252): `MCForward` does not combine the two. A refused prefill may
  leave rows in the caches. Batched prefill refuses F16 weights decode has a kernel for; verify
  refuses models with per-layer embeddings or shared caches. The MoE arm of prefill leaves
  out the per-layer residual that decode adds; no known model has both.
* DFlash. With an MoE target, verify runs token by token and the taps keep one row, so
  `append_context` reads stale ones for the others (`main.rs` 2439, `gemma4.rs` 3296-3330). Of a layer
  listed twice in `target_layers` only the first slot is filled (1969). `MCForward` has neither. The
  loop may print more than `steps` tokens, and tokens after the end of the sequence. An `fc`
  weight of a type without a kernel loads and fails at the first `append_context`.
* SuperQuant. `REINSTINCT_PREFILL_SEQ` leaves the int8 caches empty, so migration refuses every
  prompt. The cold default is not computed again when only the warm size is given. Sliding windows
  are not applied.
* Qwen. `mtp_spec_generate` looks for the end of the sequence before it cuts at `max_tokens`, so it
  may return more (`qwen35.rs` 3515-3522, against 3452), and returns a token for `max_tokens = 0`.
  Some weight types pass the loader and fail at the first forward (`PathsAgree` allows this for the
  first call only). `xq8_max_in` leaves out the width of `eh_proj`.
* Pipeline. Where inner buffers of one chunk length are as large as the activations of another that
  the prompt keeps (hidden 1024, inner 2048: chunks of 64 and 128 tokens), both come from one list of
  free buffers, and a captured chunk may find too few and allocate inside its capture, against
  `qwen35.rs` 4287. `prefill_stage` has no guard that ends a failed capture, unlike
  `gemma4.rs` 2903-2910. The run's constants contain the case; `NoAllocInCapture` says it is the only one.
* Kernel cache. With builds changing while others run (`Mixed`), a peer may overwrite the shared
  header between key and compile: an entry of one build is published under the key of another.
  `LoadsOwn` and `EntriesStay` are checked and proved without it. `REINSTINCT_HIPCC_VERSION`, which
  replaces the probed version in the key, is not modelled.
  A peer's half-written header fails a compile. If `hipcc` cannot be started the `.cpp` stays.

## 5. Proofs

TLC shows a property on the instance of section 3; the theorems show it for every value of the
constants that satisfies the named assumptions of the module. Every safety invariant but those of
`Forward` is proved through an invariant that the steps keep, called `IInv` in each module, with one lemma for each
action that does more than leave its parts alone. What the assumptions add to the types of the
constants:

* `SpecDecode`: the greedy pick is in the support; `MaxK <= MaxVerifyK`, `MaxK <= Headroom` (4, 8
  and 8 in the code); prompts have at least two tokens.
* `QwenMtp`, `TieredKv`: the model picks a token after any context a request can have; drafts fit
  a verify (`k + 1 <= VerifyMax`, 16); a layer's donor owns its entries.
* `GemmaServe`: as `SpecDecode`, and there is at least one prompt and one limit.
* `Server`: finitely many connections, so that requests can be counted.
* `QwenPipeline`: a file has blocks; prompts are not empty, and their tokens are not the model value
  that marks junk; every request fits its slack (`n + Slack > 0`); `MaxChunk` is a multiple
  of `Tile`, which `prefill_chunks` makes it.
* `StreamText`: a token has bytes.
* `KernelCache`: there are kernels, builds and compilers; a torn header is not a whole one.

| Module | Theorem | Establishes |
|---|---|---|
| `SpecDecodeProofs` | `TypeCorrect` | `[]TypeOK`: no kernel attends to a slot nothing was written to |
| | `CacheCorrect`, `SeedCorrect` | `[]CacheHoldsCommitted`, `[]DraftSeedFresh` |
| | `NeverOverruns` | `[]NoOverrun`, in particular the error return of `verify_forward` is never taken |
| | `AdaptiveCorrect` | `[]AdaptiveExact` |
| | `ImplementsPlainDecode` | `PlainSpec`, the refinement |
| `QwenMtpProofs` | `TypeCorrect`, `StateCorrect`, `SeedCorrect`, `NeverOverruns` | `[]TypeOK`, `[]StateIsCommitted`, `[]SeedFresh`, `[]NoOverrun` |
| | `Implements` | `PlainSpec`, the refinement |
| `TieredKvProofs` | `TypeCorrect`, `TiersCorrect`, `WarmFirstCorrect`, `RoomCorrect` | `[]TypeOK`, `[]TiersHoldContext`, `[]WarmFirst`, `[]EnoughRoom` |
| | `Implements` | `PlainSpec`, the refinement |
| `GemmaServeProofs` | `TypeCorrect` | the types of the variables, the bound on the number of snapshots |
| | `ColdCorrect`, `LruCorrect`, `NeverOverruns` | `[]ColdContextExact`, `[]LruExact`, `[]NoOverrun` |
| `ServerProofs` | `TypeCorrect`, `OneAnswerCorrect`, `StreamCorrect`, `CountedCorrect` | `[]TypeOK`, `[]OneAnswer`, `[]StreamComplete`, `[]CountedBeforeSeen` |
| `QwenPipelineProofs` | `Plans`, `WithinCaches`, `NoneLost` | `[]PlanFair`, `[]TypeOK`, `[]PoolExact` |
| | `OwnContext`, `CapturesFind` | `[]ContextExact`, `[]NoAllocInCapture` |
| `StreamTextProofs` | `TypeCorrect`, `NothingLostCorrect`, `PreambleCorrect`, `AgreesCorrect` | `[]TypeOK`, `[]NothingLost`, `[]PreambleHidden`, `[]AgreesWithStrip` |
| `KernelCacheProofs` | `TypeCorrect` | `[]TypeOK`, whatever builds are mixed |
| | `LoadsCorrect`, `EntriesCorrect` | `[]LoadsOwn`, and the action property `EntriesStay`, where builds are not mixed |

`SpecDecode`. `IInv == Types /\ Phase`; the adaptive switch has an invariant of its own: the rolling
window is the latest rates, and the drafter is off if some full window was below the threshold.
`CacheHoldsCommitted` alone is not inductive: it
speaks of the loop head only, and says nothing about the rows a verify wrote ahead. `Phase`
gives each control point its own: at the loop head and while drafting everything is
`Synced` with the committed tokens; while accepting, `Verified` says the cache holds the
committed tokens, the drafts of the batch sit behind `pre_verify_pos`, and row i of the batch
was computed on exactly the rows up to draft i. An accepted draft equals the row written for it,
so accepting keeps `Verified`; rejecting or the bonus step overwrites the first uncommitted
slot and gives `Synced` back. `Types` carries the admission bound from which every index is
shown to be inside the cache. The refinement
theorem maps every committing action to `Emit` or `Stop` and the others to stuttering, using
`Verified` to know that the logits a pick is taken from belong to the committed context.

`QwenMtp`. The lemmas about `QwenStage` say what one forward does (`QwenPipelineProofs` repeats those
it needs, under the same names): from a range that stands at
a context, a batch or a single decode gives the row of every token, leaves a range that stands
at the longer context, and does not touch the slots before. `Phase` again has a conjunct for each
control point. In a round, `InRound` adds that the *saved* state, put back over whatever the caches
hold then, stands at the committed context (`Back`): verify overwrites slots only behind it, which
is why the snapshot need not copy the KV rows. While tokens are pushed, those still to come are
`Greedy`. The bound on the drafter's rows is `k` a round. The refinement is of the output cut at
the limit and the first end of sequence, so lemmas about `Cut` say that it grows with the
output and stays once it is complete.

`TieredKv`. Two layers. First the kernels, whatever tiers they are given: the slices partition the
positions, the waves partition a slice, a score is taken under one rotation, each value is rotated
back once, and so the merge adds up each position exactly once (`AttentionReads`, for all three
kernels). Then the tiers: `Holds` says that entry i is token i, of its side, at its coding and under
its rotation, cold before warm; a demotion, a write, a batch of either prefill and the migration
keep it. Together: what a forward attends to is the context, and the refinement follows.

`GemmaServe`. `Places` bounds the position at each control point, `Exact` says what rows and logits
stand for when a request reused no snapshot, also while a decode step is in flight (`Stepped`
is what the cache will be when it has run), and `Latest` says that the history names each prompt
once and the slots are its last ones. Rows of earlier requests stay in the cache; nothing is said
of them, which is the point: nothing read depends on them.

`Server`. `Where` says what a connection can have at each place of its life, `Order` ranks
frames and says those on the wire and those still in the channel are in order *together*, `Tokens`
adds up where the tokens of an answer are: written, in the channel, dropped with the preamble, or held
back. `Counted` is an inequality over the whole server: what has been counted and what has still
to be (`Pending`) is at most the total, and the answers there is evidence of (on a wire, in a
channel, in the worker's hands) are at most those counted. `CountedBeforeSeen` itself is not
inductive, since it does not speak of the requests in the queue.

`StreamText`. The heart is `DecodeContinues`: a text without garbage is only ever *continued* by the
bytes that follow it, and a new character begins at its end. It is false once a glyph is torn, which is
finding 3 and why the properties say `~torn`. `Decode` is a recursive function, so the proof first shows that
a function with its equations exists (`DecodingExists`, from the last byte backwards), then compares two
such functions place by place. `Placed` adds what the properties do not say and need: what was cut away ends
with a closing marker and blanks, and a stripper that passes text on without a cut either gave up on a text
whose first `MaxBuffer` bytes hold no marker (`Plain`), or has ended a text without a closing marker.

`KernelCache`. `Types` and `TmpWhole` (what is about to be published is whole) hold whatever is mixed.
Where builds are not, `Own` says why a name can be trusted: those who run are of one build, so the
header is theirs or torn while a peer writes the same again, the compiler is the one asked for its
version, and a temporary or a published file is what its name says.

`QwenPipeline`. `PlanFair` is about the functions of `PipelinePlan`: the running sum is monotone, so
the first end that reaches a share by half a block is nearest to it, and the range of ends is
never empty because each stage leaves a block to everyone after it. The rest rests on `Accounts`,
of three parts. `Rig`: every stage has a well-formed state, work in its queue that names
buffers of its own, and a pool in which the free buffers and those kept for the prefill are together
`1 .. count`, each once (`Owned`), at most `Most` of a size (`Bounded`). `Desk`: what the host holds at each place,
and that the request in hand fits the context. `Counted`: how far each stage has come, from what the host
has enqueued (`Enq`): a stage the loop has passed is a chunk, or a step, ahead of the
others. `PoolExact` is not inductive by itself, since the bound on a size needs the number of
activations kept, which is the number of chunks enqueued; and `TypeOK` is not, since the rows counted are not the positions
once a graph is replayed. The lemmas under `Rig` say what taking and giving back do to the *set*
of buffers (`TakenFrom`, `GivenTo`, `Chunked`): a buffer is made only if no free one of the size is left.

`OwnContext` needs two more parts, since `ContextExact` speaks of the last stage and the moment of a pick
only. `Shaped` says what a serving stage is made of; `Queues` says what is in the queues at each
place of the host. While a prompt is read a stage's queue is the left-over work of earlier requests,
on a stage that keeps no recurrent state only, and then what is left of the chunks enqueued: those done,
the activation that has arrived and those waiting add up, and each works on its own rows of the prompt in
a buffer no scratch of its own shares (`Lined`, `Linked`). In a decode step each stage passed has
done none, some or all of its one step (`InFlight`). A copy that has not arrived keeps its stage waiting, which is why no stage reads
an activation of another request although the buffers are handed out again. `CapturesFind`
rests on `Stocked`: a stage that has run a length once owns as many buffers of its sizes as the
chunk works in, because a buffer that was made is never given up (`Chunked`, the free and the kept
together only grow), so a shortage in a later capture means one of them is kept.

Proofs needed a change of form in their modules and none of content: `Total` and `Among` are functions
where a fold and `SelectSeq` were, `Moved` names what three actions do to the counters, and the sum over waves (`SumOf`) and
the tokens of a row of frames (`Sent`) are recursive functions, unfolded in the proofs, as `Decode` is, by an
induction on the least counterexample; `First` and `Without` name what the prefix cache's scan and
removal compute.

Only model-checked:

* `Terminates`, `Answered`, `Settles`: liveness needs `ENABLED`, which the prover does not have.
* `MatchesReference` and `PathsAgree` of `Forward` compare data structures built by folds over the
  launches of a model: what such a fold computes for every model is an induction over data.

## 6. Not modelled

* The plain-path branch of the worker for a small model without a generation port: no port is
  opened for it, so no request reaches it.
* SuperQuant states in the serve path: `serve` always allocates f16 or q8 caches.
* Arithmetic inside a launch: a launch either carries out its operation or it does not. Bit layouts
  of the quantised formats, tiling and shared memory of the matrix kernels.
* The sampling filters: sequential float arithmetic, unit-tested; a pick is a member of the set
  they can return.
* Formats: GGUF parsing, JSON, templates, tokenizer (but for decoding token by token).
* Prompts of one token on the speculative path (an assertion in `prefill_forward`); a chat
  prompt is always longer.
* Profiling, tracing, and the environment variables that only choose between kernels of the same
  contract, but for those named above.
* Command line parsing, benchmarks.

## 7. Plan

Done: all modules of section 2 and the proofs of section 5. Next:

1. The sampling filters against reference definitions.
