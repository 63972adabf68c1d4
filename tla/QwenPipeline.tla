---------------------------- MODULE QwenPipeline ----------------------------
(***************************************************************************)
(* A Qwen 3.5 model split over several GPUs and the server's loop that     *)
(* drives it (pipeline.rs, the stage entry points of qwen35.rs, the Qwen   *)
(* branch of ServerModel::generate in serve/mod.rs).                       *)
(*                                                                         *)
(* One host thread enqueues; every stage has one stream, a queue of work   *)
(* its device does in order.  The host waits for a stream only where it    *)
(* copies something synchronously.  What orders the stages is the event a  *)
(* stage records after its share of a step, on which the next one waits    *)
(* before it copies the activation over.                                   *)
(***************************************************************************)
EXTENDS QwenStage, PipelinePlan, FiniteSets

CONSTANTS Token,                   \* the tokens but the one that ends a text
          Files, Devices, Counts,  \* the files, numbers of devices and --split
                                   \* tried (<<>> when there is none)
          Visible,                 \* devices HIP sees
          Layouts,                 \* those that serve: each stage's block kinds
          Prompts, Lengths,        \* the requests tried
          MaxSeq, Slack,           \* the context; the 4 positions kept free
          Tile, MaxChunk,          \* 64 and REINSTINCT_PREFILL_CHUNK
          H, K, Inner,             \* floats a token of the hidden state; of the
                                   \* widest inner activation; how many of those
          Requests, MaxFaults      \* bounds

ASSUME PipelineAssumption ==
  /\ Bad \notin Token
  /\ Layouts \subseteq Seq({{"full"}, {"linear"}, {"full", "linear"}}) \ {<<>>}
  /\ Files \subseteq File /\ \A f \in Files : NBlocks(f) > 0
  /\ Devices \subseteq Nat \ {0} /\ Visible \in Nat /\ Counts \subseteq Seq(Nat)
  /\ \A p \in Prompts : p \in Seq(ToSet(p) \ {Bad}) \ {<<>>}
  /\ Lengths \subseteq Nat /\ \A n \in Lengths : n + Slack > 0
  /\ {MaxSeq, Tile, MaxChunk, H, K} \subseteq Nat \ {0}
  /\ {Slack, Inner, Requests, MaxFaults} \subseteq Nat
  /\ MaxChunk % Tile = 0          \* prefill_chunks rounds it up

VARIABLES plan,                    \* the file and the command line, until it is built
          graphs,                  \* decode_graphs_enabled
          \* the host
          pc, stage,               \* what is next, and on which stage
          prompt, max_tokens, out, logits,
          chunks, step,            \* prefill chunks to come; launches so far
          held,                    \* activations the prefill keeps
          prev,                    \* StageOutput of the stage before
          graph,                   \* the decode graph is captured
          pool, warm, stuck,       \* by stage: free buffers, prefill_warm_p, a
                                   \* capture that was begun and not ended
          served, faults,
          \* the devices
          st, d_pos, hidden_a, buf, d_logits, queue

host == <<pc, stage, prompt, max_tokens, out, logits, chunks, step, held, prev,
          graph, pool, warm, stuck, served, faults>>
device == <<st, d_pos, hidden_a, buf, d_logits, queue>>
setup == <<plan, graphs>>
vars == <<setup, host, device>>

Stages == DOMAIN st
LastStage == Len(st)
None == <<>>
Ceil(a, b) == (a + b - 1) \div b

NoPlan == [file |-> None, devices |-> 0, split |-> <<>>]

Init ==
  /\ graphs \in BOOLEAN
  /\ \E f \in Files, n \in Devices, c \in Counts : plan = [file |-> f, devices |-> n, split |-> c]
  /\ st = None /\ pool = None /\ warm = None /\ stuck = None /\ d_pos = None
  /\ hidden_a = None /\ buf = None /\ queue = None
  /\ pc = "plan" /\ stage = 1
  /\ prompt = <<>> /\ max_tokens = 0 /\ out = <<>> /\ logits = Junk
  /\ chunks = <<>> /\ step = 0 /\ held = <<>> /\ prev = None
  /\ graph = FALSE /\ d_logits = Junk /\ served = 0 /\ faults = 0
-----------------------------------------------------------------------------
\* plan_split asserts that every stage has a block; new refuses the other two.
Refused == \/ plan.split = <<>> /\ plan.devices > NBlocks(plan.file)
           \/ plan.split # <<>> /\ ~SplitAccepted(plan.file, plan.devices, plan.split)
           \/ plan.devices > Visible
Layout ==
  KindsOf(plan.file, plan.devices,
          IF plan.split = <<>> THEN PlanSplit(plan.file, plan.devices) ELSE SplitAt(plan.split))

\* Qwen35Pipeline::new and new_state.
Build ==
  /\ pc = "plan" /\ ~Refused
  /\ st' = [s \in DOMAIN Layout |-> NewStage(Layout[s], MaxSeq)]
  /\ pool' = [s \in DOMAIN Layout |-> [free |-> <<>>, count |-> 0]]
  /\ warm' = [s \in DOMAIN Layout |-> {}]
  /\ stuck' = [s \in DOMAIN Layout |-> FALSE]
  /\ d_pos' = [s \in DOMAIN Layout |-> 0]
  /\ hidden_a' = [s \in DOMAIN Layout |-> Junk]
  /\ buf' = [s \in DOMAIN Layout |-> <<>>]
  /\ queue' = [s \in DOMAIN Layout |-> <<>>]
  /\ pc' = IF Layout \in Layouts THEN "idle" ELSE "built"
  /\ plan' = NoPlan
  /\ UNCHANGED <<graphs, stage, prompt, max_tokens, out, logits, chunks, step, held, prev,
                 graph, served, faults, d_logits>>
BuildFails == /\ pc = "plan" /\ Refused /\ pc' = "refused" /\ plan' = NoPlan
              /\ UNCHANGED <<graphs, stage, prompt, max_tokens, out, logits, chunks, step, held,
                             prev, graph, pool, warm, stuck, served, faults, device>>
-----------------------------------------------------------------------------
\* The elements of s that are in S, in their order.
Among(s, S) ==
  LET got[i \in 0 .. Len(s)] ==
        IF i = 0 THEN <<>> ELSE IF s[i] \in S THEN Append(got[i - 1], s[i]) ELSE got[i - 1]
  IN got[Len(s)]

\* DeviceBufPool: the free buffers in the order they came back, each with the
\* number of floats it was made for; the last one that fits is taken.
Fitting(p, size) == Among(p.free, {b \in ToSet(p.free) : b.size = size})
\* Mutant: a buffer is made for every call.
TakenFresh(p, size, n) ==
  [ids |-> [i \in 1 .. n |-> p.count + i], pool |-> [p EXCEPT !.count = @ + n]]
\* n buffers of `size`, and the pool they leave behind.
Taken(p, size, n) ==
  LET fit == Fitting(p, size)
      reused == IF Len(fit) < n THEN Len(fit) ELSE n
      ids == [i \in 1 .. n |-> IF i <= reused THEN fit[Len(fit) + 1 - i].id
                               ELSE p.count + i - reused]
  IN [ids |-> ids,
      pool |-> [free |-> Among(p.free, {b \in ToSet(p.free) : b.id \notin Range(ids)}),
                count |-> p.count + n - reused]]
Given(p, size, ids) ==
  [p EXCEPT !.free = @ \o [i \in DOMAIN ids |-> [id |-> ids[i], size |-> size]]]

HeldBy(s) == Among(held, {h \in ToSet(held) : h.stage = s})
\* drop(held): every stage has its activations back.
Dropped(p) ==
  [s \in Stages |->
     LET mine == HeldBy(s)
     IN [p[s] EXCEPT !.free = @ \o [i \in DOMAIN mine |-> mine[i].buf]]]

\* Qwen35Pipeline::prefill_chunks: four chunks or more, of whole tiles but the last.
ChunkSize(n) ==
  LET c == Ceil(Ceil(n, 4), Tile) * Tile
  IN IF LastStage = 1 \/ n < 2 * Tile THEN n ELSE IF c > MaxChunk THEN MaxChunk ELSE c
ChunksOf(p) ==
  LET c == ChunkSize(Len(p))
  IN [i \in 1 .. Ceil(Len(p), c) |->
        SubSeq(p, (i - 1) * c + 1, IF i * c < Len(p) THEN i * c ELSE Len(p))]
-----------------------------------------------------------------------------
\* Mutant: the output is not counted in.
AdmittedPrompt(p, n) == Len(p) + Slack <= MaxSeq
\* generate's check of the context window.
Admitted(p, n) == Len(p) + n + Slack <= MaxSeq

Start ==
  /\ pc = "idle" /\ served < Requests
  /\ \E p \in Prompts, n \in Lengths :
       /\ Admitted(p, n)
       /\ prompt' = p /\ max_tokens' = n
  /\ out' = <<>> /\ logits' = Junk /\ step' = 0 /\ prev' = None
  /\ stage' = 1 /\ pc' = "reset" /\ served' = served + 1
  /\ UNCHANGED <<setup, chunks, held, graph, pool, warm, stuck, faults, device>>

\* The request is over: `held` and everything else it had is dropped.
Over == /\ pc' = "idle" /\ stage' = 1
        /\ prompt' = <<>> /\ max_tokens' = 0 /\ out' = <<>> /\ logits' = Junk
        /\ chunks' = <<>> /\ step' = 0 /\ held' = <<>> /\ prev' = None

\* A synchronous copy goes over the null stream, which waits for the stage's.
Idle(s) == queue[s] = <<>> /\ ~stuck[s]

\* Qwen35PipelineState::reset, one stage: only a recurrent state is copied to.
Reset ==
  /\ pc = "reset"
  /\ "linear" \in st[stage].kinds => Idle(stage)
  /\ st' = [st EXCEPT ![stage] = ResetStage(@)]
  /\ IF stage < LastStage
       THEN stage' = stage + 1 /\ UNCHANGED <<pc, chunks>>
       ELSE /\ stage' = 1
            /\ IF Len(prompt) > 1
                 THEN pc' = "prefill" /\ chunks' = ChunksOf(prompt)
                 ELSE pc' = "launch" /\ UNCHANGED chunks
  /\ UNCHANGED <<setup, prompt, max_tokens, out, logits, step, held, prev, graph,
                 pool, warm, stuck, served, faults, d_pos, hidden_a, buf, d_logits, queue>>

\* A stage has come n positions further and counts so many more rows.
Moved(x, rows, n) == [x EXCEPT !.len = @ + rows, !.pos = @ + n]

\* The event of a launch on a stage is done when none of its work is left.
Tag == <<served, step>>
Awaited(s, op) == {i \in DOMAIN queue[s - 1] : queue[s - 1][i].tag = op.after}

Copy(dst) == [op |-> "copy", tag |-> Tag, dst |-> dst, src |-> prev, after |-> Tag]
Embed(token) == [op |-> "embed", tag |-> Tag, token |-> token]
Rows(id, scratch, toks) ==
  [op |-> "rows", tag |-> Tag, buf |-> id, scratch |-> scratch, at |-> st[stage].len,
   toks |-> toks]
Body == [op |-> "body", tag |-> Tag]
HiddenA == 0                       \* names hidden_a among the buffers

\* Mutant: the first chunk of a size is captured too.
CapturesAlways(s, n) == TRUE
\* A chunk whose size this stage has prefilled before runs as a captured graph.
Captures(s, n) == n \in warm[s]

\* The buffers a chunk takes on its stage, before the capture and inside it.
Outer == Taken(pool[stage], Len(chunks[1]) * H, 3)
Within == Taken(Outer.pool, Len(chunks[1]) * K, Inner)
\* Buffers come back in the order opposite to their declaration, the activation not.
InnerGiven == LET w == Within IN Given(w.pool, Len(chunks[1]) * K, w.ids)
\* Mutant: the activation comes back as well.
GivenBackAll ==
  Given(InnerGiven, Len(chunks[1]) * H, <<Outer.ids[3], Outer.ids[2], Outer.ids[1]>>)
GivenBack == Given(InnerGiven, Len(chunks[1]) * H, <<Outer.ids[3], Outer.ids[2]>>)
AllocatesWithin == Within.pool.count > Outer.pool.count
Fresh(p) == buf[stage] \o [i \in 1 .. p.count - pool[stage].count |-> <<Junk>>]

Input(dst) == IF stage = 1 THEN <<>> ELSE <<Copy(dst)>>

ChunkRows ==
  LET o == Outer.ids
      w == Within.ids
  IN Rows(o[1], {o[2], o[3]} \cup {w[i] : i \in 1 .. Inner}, IF stage = 1 THEN chunks[1] ELSE <<>>)

\* prefill_stage: this stage's share of a chunk is enqueued.
PrefillStage ==
  /\ pc = "prefill" /\ ~stuck[stage]
  /\ ~(Captures(stage, Len(chunks[1])) /\ AllocatesWithin)
  /\ LET n == Len(chunks[1])
         ba == Outer.ids[1]
     IN /\ queue' = [queue EXCEPT ![stage] = @ \o Input(ba)
                        \o <<ChunkRows>>]
        /\ buf' = [buf EXCEPT ![stage] = Fresh(Within.pool)]
        /\ pool' = [pool EXCEPT ![stage] = GivenBack]
        /\ held' = Append(held, [stage |-> stage, buf |-> [id |-> ba, size |-> n * H]])
        /\ warm' = [warm EXCEPT ![stage] = @ \cup {n}]
        /\ prev' = <<ba>>
        /\ st' = [st EXCEPT ![stage] = Moved(@, n, n)]
  /\ IF stage < LastStage
       THEN stage' = stage + 1 /\ UNCHANGED <<pc, chunks, step>>
       ELSE /\ stage' = 1 /\ step' = step + 1
            /\ chunks' = Tail(chunks)
            /\ pc' = IF Len(chunks) = 1 THEN "prefilled" ELSE "prefill"
  /\ UNCHANGED <<setup, prompt, max_tokens, out, logits, graph, stuck, served, faults,
                 d_pos, hidden_a, d_logits>>

\* The last chunk's logits: the last stage is waited for, the activations dropped.
Prefilled ==
  /\ pc = "prefilled" /\ Idle(LastStage)
  /\ logits' = d_logits
  /\ pool' = Dropped(pool) /\ held' = <<>>
  /\ prev' = None
  /\ pc' = "capture"
  /\ UNCHANGED <<setup, stage, prompt, max_tokens, out, chunks, step, graph, warm,
                 stuck, served, faults, device>>

\* capture_forward_graph, once: every stage's blocks are run through on the host,
\* which counts a row that is never written.
Capture ==
  /\ pc = "capture"
  /\ IF graphs /\ ~graph
       THEN /\ \A s \in Stages : ~stuck[s]
            /\ graph' = TRUE
            /\ st' = [s \in Stages |-> Moved(st[s], 1, 0)]
       ELSE UNCHANGED <<graph, st>>
  /\ pc' = "sample"
  /\ UNCHANGED <<setup, stage, prompt, max_tokens, out, logits, chunks, step, held, prev,
                 pool, warm, stuck, served, faults, d_pos, hidden_a, buf, d_logits, queue>>

\* A token is picked; with a graph its step is launched before its text goes out.
Sample ==
  /\ pc = "sample" /\ Len(out) < max_tokens
  /\ \E t \in Token : out' = Append(out, t)
  /\ pc' = IF graph THEN "launch" ELSE "deliver"
  /\ logits' = Junk
  /\ UNCHANGED <<setup, stage, prompt, max_tokens, chunks, step, held, prev, graph,
                 pool, warm, stuck, served, faults, device>>

\* The limit is reached, the token picked ends the text, or the time is up.
Finish ==
  /\ pc = "sample"
  /\ Over
  /\ UNCHANGED <<setup, graph, pool, warm, stuck, served, faults, device>>

Deliver ==
  /\ pc = "deliver"
  /\ pc' = IF graph THEN "finish" ELSE "launch"
  /\ UNCHANGED <<setup, stage, prompt, max_tokens, out, logits, chunks, step, held, prev,
                 graph, pool, warm, stuck, served, faults, device>>

\* The client has left: the step launched for it is left to itself.
Disconnect ==
  /\ pc = "deliver"
  /\ Over
  /\ UNCHANGED <<setup, graph, pool, warm, stuck, served, faults, device>>

\* A prompt of one token is forwarded like a token of the output, without a graph.
Decoded == IF out = <<>> THEN prompt[1] ELSE Last(out)
Replays == graph /\ out # <<>>
StepInput == IF stage = 1 THEN <<Embed(Decoded)>> ELSE <<Copy(HiddenA)>>

\* decode_stage: this stage's share of a step is enqueued.
LaunchStage ==
  /\ pc = "launch" /\ Idle(stage)
  /\ d_pos' = [d_pos EXCEPT ![stage] = st[stage].pos]
  /\ queue' = [queue EXCEPT ![stage] = @ \o StepInput \o <<Body>>]
  /\ st' = [st EXCEPT ![stage] = Moved(@, IF Replays THEN 0 ELSE 1, 1)]
  /\ prev' = <<HiddenA>>
  /\ IF stage < LastStage
       THEN stage' = stage + 1 /\ UNCHANGED <<pc, step>>
       ELSE /\ stage' = 1 /\ step' = step + 1
            /\ pc' = IF Replays THEN "deliver" ELSE "finish"
  /\ UNCHANGED <<setup, prompt, max_tokens, out, logits, chunks, held, graph, pool, warm,
                 stuck, served, faults, hidden_a, buf, d_logits>>

\* decode_finish.
DecodeFinish ==
  /\ pc = "finish" /\ Idle(LastStage)
  /\ logits' = d_logits /\ prev' = None
  /\ pc' = IF out = <<>> THEN "capture" ELSE "sample"
  /\ UNCHANGED <<setup, stage, prompt, max_tokens, out, chunks, step, held, graph, pool,
                 warm, stuck, served, faults, device>>
-----------------------------------------------------------------------------
\* A call on the stage in hand returns an error (`?`): the stage is left with this
\* pool, in a capture or not, warm for these lengths too, so many rows further, and
\* what had been enqueued is left to its device.
PrefillLeft(given, open, warmed, rows, work) ==
  /\ pool' = Dropped([pool EXCEPT ![stage] = given])
  /\ buf' = [buf EXCEPT ![stage] = Fresh(given)]
  /\ stuck' = [stuck EXCEPT ![stage] = open]
  /\ warm' = [warm EXCEPT ![stage] = @ \cup warmed]
  /\ st' = [st EXCEPT ![stage] = Moved(@, rows, 0)]
  /\ queue' = [queue EXCEPT ![stage] = @ \o work]

\* The pool when the call has worked in its three buffers only, and in all of them.
OuterBack == Given(Outer.pool, Len(chunks[1]) * H, <<Outer.ids[3], Outer.ids[2], Outer.ids[1]>>)
AllBack == Given(GivenBack, Len(chunks[1]) * H, <<Outer.ids[1]>>)

\* Before the blocks; in a capture, which prefill_stage then never ends, and where a
\* hipMalloc is an error that needs no fault; in uncaptured blocks, or after the
\* last, when a capture has counted all rows and may not have been launched yet.
FailPrefill ==
  /\ pc = "prefill" /\ ~stuck[stage]
  /\ Over
  /\ LET n == Len(chunks[1])
         captured == Captures(stage, n)
         open == captured /\ AllocatesWithin
         input == Input(Outer.ids[1])
         outer == OuterBack
     IN \/ /\ faults < MaxFaults /\ faults' = faults + 1
           /\ \E work \in {<<>>, input} : PrefillLeft(outer, FALSE, {}, 0, work)
        \/ /\ captured /\ faults' = IF open THEN faults ELSE faults + 1
           /\ faults' <= MaxFaults
           /\ \E rows \in {0, n} : PrefillLeft(outer, TRUE, {}, rows, input)
        \/ /\ ~open /\ faults < MaxFaults /\ faults' = faults + 1
           /\ LET all == AllBack
              IN \/ PrefillLeft(all, FALSE, {}, IF captured THEN n ELSE 0, input)
                 \/ \E warmed \in {{}, {n}} :
                      PrefillLeft(all, FALSE, warmed, n, input \o <<ChunkRows>>)
  /\ UNCHANGED <<setup, graph, served, d_pos, hidden_a, d_logits>>

FailCapture ==
  /\ pc = "capture" /\ graphs /\ ~graph /\ faults < MaxFaults /\ faults' = faults + 1
  /\ Over
  /\ \E ran \in 0 .. LastStage :
       st' = [s \in Stages |-> Moved(st[s], IF s <= ran THEN 1 ELSE 0, 0)]
  /\ UNCHANGED <<setup, graph, pool, warm, stuck, served, d_pos, hidden_a, buf, d_logits, queue>>

FailLaunch ==
  /\ pc = "launch" /\ Idle(stage) /\ faults < MaxFaults /\ faults' = faults + 1
  /\ Over
  /\ d_pos' = [d_pos EXCEPT ![stage] = st[stage].pos]
  /\ \E work \in {<<>>, StepInput, StepInput \o <<Body>>} :
       queue' = [queue EXCEPT ![stage] = @ \o work]
  /\ UNCHANGED <<setup, graph, pool, warm, stuck, served, st, hidden_a, buf, d_logits>>

\* Every call on a stage left in a capture fails.
FailStuck ==
  /\ \/ pc = "reset" /\ "linear" \in st[stage].kinds /\ stuck[stage]
     \/ pc \in {"prefill", "launch"} /\ stuck[stage]
     \/ pc \in {"prefilled", "finish"} /\ stuck[LastStage]
     \/ pc = "capture" /\ graphs /\ ~graph /\ \E s \in Stages : stuck[s]
  /\ Over /\ pool' = Dropped(pool)
  /\ UNCHANGED <<setup, graph, warm, stuck, served, faults, device>>
-----------------------------------------------------------------------------
Ready(s, op) == op.op = "copy" => Awaited(s, op) = {}

Content(s, src) == IF src[1] = HiddenA THEN <<hidden_a[s]>> ELSE buf[s][src[1]]

\* What the device of a stage does with the oldest work in its queue.
Exec(s) ==
  /\ queue[s] # <<>> /\ Ready(s, Head(queue[s]))
  /\ queue' = [queue EXCEPT ![s] = Tail(@)]
  /\ LET op == Head(queue[s])
     IN CASE op.op = "copy" ->
               /\ IF op.dst = HiddenA
                    THEN /\ hidden_a' = [hidden_a EXCEPT ![s] = Content(s - 1, op.src)[1]]
                         /\ UNCHANGED buf
                    ELSE /\ buf' = [buf EXCEPT ![s][op.dst] = Content(s - 1, op.src)]
                         /\ UNCHANGED hidden_a
               /\ UNCHANGED <<st, d_logits>>
          [] op.op = "embed" ->
               /\ hidden_a' = [hidden_a EXCEPT ![s] = Embedded(st[s], d_pos[s], <<op.token>>)[1]]
               /\ UNCHANGED <<st, buf, d_logits>>
          [] op.op = "rows" ->
               LET rows == IF s = 1 THEN Embedded(st[s], op.at, op.toks) ELSE buf[s][op.buf]
                   outs == Outputs(st[s], op.at, rows)
               IN /\ st' = [st EXCEPT ![s] = Written(@, op.at, outs)]
                  /\ buf' = [buf EXCEPT ![s] = [b \in DOMAIN @ |->
                               IF b = op.buf THEN outs
                               ELSE IF b \in op.scratch THEN <<Junk>> ELSE @[b]]]
                  /\ d_logits' = IF s = LastStage THEN Last(outs) ELSE d_logits
                  /\ UNCHANGED hidden_a
          [] op.op = "body" ->
               LET row == Outputs(st[s], d_pos[s], <<hidden_a[s]>>)
               IN /\ st' = [st EXCEPT ![s] = Written(@, d_pos[s], row)]
                  /\ hidden_a' = [hidden_a EXCEPT ![s] = row[1]]
                  /\ d_logits' = IF s = LastStage THEN row[1] ELSE d_logits
                  /\ UNCHANGED buf
  /\ UNCHANGED <<setup, host, d_pos>>

\* The run ends here: everywhere else the host or a device can go on.
Served == /\ \/ pc = "idle" /\ served = Requests /\ \A s \in Stages : queue[s] = <<>>
             \/ pc \in {"built", "refused"}
          /\ UNCHANGED vars

Host == \/ Build \/ BuildFails \/ Start \/ Reset \/ PrefillStage \/ Prefilled \/ Capture \/ Sample \/ Finish
        \/ Deliver \/ Disconnect \/ LaunchStage \/ DecodeFinish
        \/ FailPrefill \/ FailCapture \/ FailLaunch \/ FailStuck

Next == Host \/ (\E s \in Stages : Exec(s)) \/ Served

Spec == Init /\ [][Next]_vars
-----------------------------------------------------------------------------
Where == {"plan", "built", "refused", "idle", "reset", "prefill", "prefilled", "capture", "sample", "launch",
          "deliver", "finish"}

\* No stage runs past the end of its caches, whatever the decode graph did to the
\* lengths (the check of the context window in generate, the assertion of
\* batched_full_block), and every piece of work names a buffer of its stage.
TypeOK ==
  /\ pc \in Where /\ pc \notin {"plan", "refused"} => stage \in Stages
  /\ \A s \in Stages :
       /\ st[s].len <= MaxSeq /\ st[s].pos <= MaxSeq
       /\ pool[s].count = Len(buf[s])
       /\ \A i \in DOMAIN queue[s] :
            /\ queue[s][i].op = "rows" => queue[s][i].buf \in DOMAIN buf[s]
            /\ queue[s][i].op = "copy" => queue[s][i].dst \in {HiddenA} \cup DOMAIN buf[s]

\* plan_split: "contiguous ranges of roughly equal weight bytes", one for every
\* stage and none without a block.
PlanFair ==
  pc = "plan" /\ plan.devices <= NBlocks(plan.file) => FairSplit(plan.file, plan.devices)

\* The logits a token is picked from come from exactly the prompt and the output
\* so far: whatever the devices had left over from a request that failed or was
\* abandoned, and whatever order the stages' work was done in (reset, the events
\* and `held` of forward_tokens_batched, hidden_a in decode_stage).
ContextExact == pc = "sample" => logits = prompt \o out

\* prefill_stage: "the inner-block buffer pools fill with the right sizes
\* (hipMalloc is forbidden during capture)", so a chunk that is captured makes no
\* buffer; unless the prompt's earlier chunks keep activations in buffers of just
\* the size it works in, since one pool serves both.
LentOut(s, size) == \E h \in ToSet(held) : h.stage = s /\ h.buf.size = size
NoAllocInCapture ==
  pc = "prefill" /\ Captures(stage, Len(chunks[1])) /\ AllocatesWithin =>
    LentOut(stage, Len(chunks[1]) * K)

\* Every buffer of a stage is in one place, free or held, and however many requests
\* came and failed there are no more of a size than one prompt's chunks hold and
\* one chunk works with (DeviceBufPool, drop(held)).
Most == Max({0} \cup {Len(ChunksOf(p)) : p \in {q \in Prompts : Len(q) <= MaxSeq}}) + 2 + Inner
PoolExact ==
  LET most == Most
  IN \A s \in Stages :
       LET mine == HeldBy(s)
           all == pool[s].free \o [i \in DOMAIN mine |-> mine[i].buf]
       IN /\ {all[i].id : i \in DOMAIN all} = 1 .. pool[s].count
          /\ Len(all) = pool[s].count
          /\ \A size \in {all[i].size : i \in DOMAIN all} :
               Cardinality({j \in DOMAIN all : all[j].size = size}) <= most
=============================================================================
