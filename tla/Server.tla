-------------------------------- MODULE Server -------------------------------
(***************************************************************************)
(* The HTTP server (serve/mod.rs, serve/http.rs): one thread per           *)
(* connection, one FIFO channel of jobs, one worker thread that owns the   *)
(* models, and one reply channel per job back to the connection's thread.  *)
(* A non-streaming job is answered by one Done message, a streaming one by *)
(* Chunk messages and a Done.                                              *)
(*                                                                         *)
(* A frame is [kind, n]: n counts the tokens of a text frame and is the    *)
(* status of a reply.  Tokens, prompts and bodies are left out; what a     *)
(* generation does to the models is in SpecDecode and GemmaServe.          *)
(***************************************************************************)
EXTENDS Naturals, FiniteSets, SequencesExt

CONSTANTS
  Conn,       \* connections
  Requests(_),  \* what may be posted on a connection, its port decides
  NoConn      \* the worker holds no job

ASSUME ConnAssumption == NoConn \notin Conn /\ IsFiniteSet(Conn)

\* A parsed POST: a client error, an embedding, or a text to generate.
Request == [kind : {"bad", "embed", "generate"}, stream : BOOLEAN, chat : BOOLEAN,
            usage : BOOLEAN, spec : BOOLEAN, max_tokens : Nat]

ASSUME RequestsAssumption == \A c \in Conn : Requests(c) \subseteq Request

VARIABLES
  conn,       \* Conn -> where the connection's thread is
  left,       \* Conn -> the client has closed its end
  req,        \* Conn -> the job's request
  jobs,       \* the mpsc channel of jobs
  replies,    \* Conn -> the reply channel
  wire,       \* Conn -> frames written to the socket
  worker,     \* where the worker thread is
  cur,        \* the connection whose job the worker holds
  status,     \* the status of the Done it will send
  passthrough, buf,   \* ThinkingStripStream: state, tokens held back
  overdue,    \* the deadline of the current request has passed
  metrics,
  made, cut   \* history, Conn -> tokens generated; tokens of the thinking preamble

handlers == <<conn, req, wire>>
strip    == <<passthrough, buf>>
clock    == <<overdue>>
history  == <<made, cut>>
vars     == <<handlers, left, jobs, replies, worker, cur, status, strip, clock, metrics, history>>

Frame(kind, n) == [kind |-> kind, n |-> n]
Text(n)        == Frame("text", n)
Mark(kind)     == Frame(kind, 0)

\* Nothing has been parsed yet.
NoRequest == [kind |-> "bad", stream |-> FALSE, chat |-> FALSE, usage |-> FALSE,
              spec |-> FALSE, max_tokens |-> 0]

Counters == {"total", "ok", "e4", "e5", "eos", "length", "panics"}

\* fetch_add(1) on each of the counters.
Count(names) == metrics' = [m \in Counters |-> IF m \in names THEN metrics[m] + 1 ELSE metrics[m]]

Init ==
  /\ conn = [c \in Conn |-> "away"] /\ left = [c \in Conn |-> FALSE]
  /\ req = [c \in Conn |-> NoRequest]
  /\ jobs = <<>> /\ replies = [c \in Conn |-> <<>>] /\ wire = [c \in Conn |-> <<>>]
  /\ worker = "loading" /\ cur = NoConn /\ status = 0
  /\ passthrough = FALSE /\ buf = 0 /\ overdue = FALSE
  /\ metrics = [m \in Counters |-> 0]
  /\ made = [c \in Conn |-> 0] /\ cut = [c \in Conn |-> 0]

-----------------------------------------------------------------------------
(* Connection threads                                                       *)

\* The socket takes the frames; the thread goes on to `next`.
Write(c, frames, next) ==
  /\ wire' = [wire EXCEPT ![c] = @ \o frames]
  /\ conn' = [conn EXCEPT ![c] = next]
  /\ UNCHANGED left

\* A write to a client that has left may fail; then the thread returns and its
\* receiver is dropped.  (Before the request is sent on, nothing but this write
\* shows whether the client is still there.)
WriteFails(c) ==
  /\ left[c] \/ conn[c] = "read"
  /\ left' = [left EXCEPT ![c] = TRUE]
  /\ conn' = [conn EXCEPT ![c] = "closed"]
  /\ UNCHANGED wire

Accept(c) ==
  /\ conn[c] = "away"
  /\ conn' = [conn EXCEPT ![c] = "read"]
  /\ Count({"total"})
  /\ UNCHANGED <<left, req, jobs, replies, wire, worker, cur, status, strip, clock, history>>

ClientLeaves(c) ==
  /\ conn[c] \in {"first", "stream"} /\ ~left[c]
  /\ left' = [left EXCEPT ![c] = TRUE]
  /\ UNCHANGED <<handlers, jobs, replies, worker, cur, status, strip, clock, metrics, history>>

\* Malformed, too large, cut short, or silent for 60 seconds.
ReadFails(c) ==
  /\ conn[c] = "read"
  /\ Write(c, <<Frame("reply", 400)>>, "closed") \/ WriteFails(c)
  /\ Count({"e4"})
  /\ UNCHANGED <<req, jobs, replies, worker, cur, status, strip, clock, history>>

\* GET /metrics, /healthz and /v1/models never reach the worker.
AnswerGet(c) ==
  /\ conn[c] = "read"
  /\ Write(c, <<Frame("get", 200)>>, "closed") \/ WriteFails(c)
  /\ UNCHANGED <<req, jobs, replies, worker, cur, status, strip, clock, metrics, history>>

\* Every other request becomes a job, the rejected ones too.
Submit(c) ==
  /\ conn[c] = "read" /\ worker # "dead"
  /\ \E r \in Requests(c) : req' = [req EXCEPT ![c] = r]
  /\ jobs' = Append(jobs, c)
  /\ conn' = [conn EXCEPT ![c] = "first"]
  /\ UNCHANGED <<left, replies, wire, worker, cur, status, strip, clock, metrics, history>>

\* The job channel is closed.
SubmitFails(c) ==
  /\ conn[c] = "read" /\ worker = "dead"
  /\ Write(c, <<Frame("reply", 503)>>, "closed") \/ WriteFails(c)
  /\ Count({"e5"})
  /\ UNCHANGED <<req, jobs, replies, worker, cur, status, strip, clock, history>>

\* recv took a message; the rest goes away with the receiver.
Received(c) ==
  replies' = [replies EXCEPT ![c] = IF conn'[c] = "closed" THEN <<>> ELSE Tail(@)]

\* Mutant: the header goes out with every chunk.
OpeningAlways(c) == <<Mark("header")>>

\* What precedes a chunk on the wire.
Opening(c) == IF conn[c] = "first" THEN <<Mark("header")>> ELSE <<>>

ForwardChunk(c) ==
  /\ conn[c] \in {"first", "stream"}
  /\ replies[c] # <<>> /\ Head(replies[c]).kind # "done"
  /\ \/ Write(c, Opening(c) \o <<Head(replies[c])>>, "stream")
     \/ WriteFails(c)
  /\ Received(c)
  /\ UNCHANGED <<req, jobs, worker, cur, status, strip, clock, metrics, history>>

\* A Done that comes first is the whole answer; after chunks it only ends the
\* stream, and its status is dropped.
ForwardDone(c) ==
  /\ conn[c] \in {"first", "stream"}
  /\ replies[c] # <<>> /\ Head(replies[c]).kind = "done"
  /\ \/ Write(c, <<IF conn[c] = "first" THEN Frame("reply", Head(replies[c]).n)
                                        ELSE Mark("[DONE]")>>, "closed")
     \/ WriteFails(c)
  /\ Received(c)
  /\ UNCHANGED <<req, jobs, worker, cur, status, strip, clock, metrics, history>>

\* The worker died with the job: the reply channel has no sender any more.
Dropped(c) ==
  /\ conn[c] = "first" /\ worker = "dead" /\ replies[c] = <<>>
  /\ Write(c, <<Frame("reply", 500)>>, "closed") \/ WriteFails(c)
  /\ Count({"e5"})
  /\ UNCHANGED <<req, jobs, replies, worker, cur, status, strip, clock, history>>

-----------------------------------------------------------------------------
(* The worker                                                               *)

\* Mutant: messages pile up for a receiver that is gone.
SendAnyway(c, frames) == replies' = [replies EXCEPT ![c] = @ \o frames]

\* A send on a reply channel; it fails when the receiver is gone.
Send(c, frames) ==
  replies' = [replies EXCEPT ![c] = IF conn[c] = "closed" THEN @ ELSE @ \o frames]

LoadModels ==
  /\ worker = "loading"
  /\ worker' \in {"idle", "failed"}
  /\ UNCHANGED <<handlers, left, jobs, replies, cur, status, strip, clock, metrics, history>>

\* Loading panics: nothing catches it, both ends of the job channel go away.
LoadPanics ==
  /\ worker = "loading"
  /\ worker' = "dead"
  /\ jobs' = <<>>
  /\ UNCHANGED <<handlers, left, replies, cur, status, strip, clock, metrics, history>>

\* run() joins the dead worker and the process ends under the open connections.
ProcessExits ==
  /\ worker = "dead"
  /\ conn' = [c \in Conn |-> "closed"]
  /\ UNCHANGED <<left, req, wire, jobs, replies, worker, cur, status, strip, clock, metrics, history>>

\* Mutant: after a failed load the jobs stay in the queue.
DrainNot == FALSE

\* After a failed load every job is answered with a 503.
Drain ==
  /\ worker = "failed" /\ jobs # <<>>
  /\ Send(Head(jobs), <<Frame("done", 503)>>)
  /\ jobs' = Tail(jobs)
  /\ UNCHANGED <<handlers, left, worker, cur, status, strip, clock, metrics, history>>

\* Where the job at the head of the queue leads.
TakeRejected ==
  /\ worker = "idle" /\ jobs # <<>>
  /\ cur' = Head(jobs) /\ jobs' = Tail(jobs)
  /\ \/ req[cur'].kind = "bad"   /\ status' = 400 /\ Count({"e4"})
     \/ req[cur'].kind = "embed" /\ status' = 503 /\ Count({"e5"})
  /\ worker' = "reply"
  /\ UNCHANGED <<handlers, left, replies, strip, clock, history>>

\* A chat stream opens with the role chunk, before generate is called.
TakeGenerate ==
  /\ worker = "idle" /\ jobs # <<>>
  /\ req[Head(jobs)].kind = "generate"
  /\ cur' = Head(jobs) /\ jobs' = Tail(jobs)
  /\ Send(cur', IF req[cur'].stream /\ req[cur'].chat THEN <<Mark("role")>> ELSE <<>>)
  /\ worker' = "decode"
  /\ UNCHANGED <<handlers, left, status, strip, clock, metrics, history>>

TimeIsUp ==
  /\ worker = "decode" /\ ~overdue
  /\ overdue' = TRUE
  /\ UNCHANGED <<handlers, left, jobs, replies, worker, cur, status, strip, metrics, history>>

\* One token; the plain loops look at the clock first.
DecodesToken ==
  /\ worker = "decode" /\ made[cur] < req[cur].max_tokens
  /\ overdue => req[cur].spec
  /\ made' = [made EXCEPT ![cur] = @ + 1]

\* A token of the speculative loop, or of an answer that is not streamed:
\* on_token is not called, or does nothing.
DecodeQuietly ==
  /\ DecodesToken
  /\ req[cur].spec \/ ~req[cur].stream
  /\ UNCHANGED <<handlers, left, jobs, replies, worker, cur, status, strip, overdue, metrics, cut>>

Streaming == req[cur].stream /\ ~req[cur].spec

\* The stripper still waits for the end of a thinking preamble.
HoldBack ==
  /\ DecodesToken /\ Streaming /\ ~passthrough
  /\ buf' = buf + 1
  /\ UNCHANGED <<handlers, left, jobs, replies, worker, cur, status, passthrough, overdue, metrics, cut>>

\* The preamble ends with this token: it is dropped.
EndPreamble ==
  /\ DecodesToken /\ Streaming /\ ~passthrough
  /\ cut' = [cut EXCEPT ![cur] = buf + 1]
  /\ buf' = 0 /\ passthrough' = TRUE
  /\ UNCHANGED <<handlers, left, jobs, replies, worker, cur, status, overdue, metrics>>

\* Text goes out: what was held back when there proves to be no preamble, or the
\* token alone.  When nobody listens any more, generate stops at this token.
EmitText ==
  /\ DecodesToken /\ Streaming
  /\ Send(cur, <<Text(buf + 1)>>)
  /\ buf' = 0 /\ passthrough' = TRUE
  /\ IF conn[cur] = "closed"
       THEN worker' = "close" /\ status' = 200 /\ Count({"ok", "length"})
       ELSE UNCHANGED <<worker, status, metrics>>
  /\ UNCHANGED <<handlers, left, jobs, cur, overdue, cut>>

\* Mutant: the counters are bumped after the reply has been sent.
CompletedUncounted(finish) == UNCHANGED metrics

\* What a finished generation is counted as.
Completed(finish) == Count({"ok", finish})

\* generate returns a text.
FinishAnswer ==
  /\ worker = "decode"
  /\ \/ (overdue => req[cur].spec) /\ made[cur] < req[cur].max_tokens /\ Completed("eos")
     \/ made[cur] = req[cur].max_tokens /\ Completed("length")
     \/ overdue /\ ~req[cur].spec /\ Completed("length")
  /\ status' = 200
  /\ worker' = IF req[cur].stream THEN "close" ELSE "reply"
  /\ UNCHANGED <<handlers, left, jobs, replies, cur, strip, clock, history>>

\* generate returns an error, or panics and is caught.
FailAnswer ==
  /\ worker = "decode"
  /\ \/ status' = 400 /\ Count({"e4"})
     \/ status' = 500 /\ Count({"e5", "panics"})
  /\ worker' = "reply"
  /\ UNCHANGED <<handlers, left, jobs, replies, cur, strip, clock, history>>

\* Mutant: what the stripper held back is forgotten.
FlushedNot == <<>>

\* flush: what the stripper still holds.
Flushed == IF buf > 0 THEN <<Text(buf)>> ELSE <<>>

\* The end of a stream: held-back text, the finish reason, the usage.
CloseStream ==
  /\ worker = "close"
  /\ Send(cur, Flushed \o <<Mark("final")>>
               \o (IF req[cur].usage THEN <<Mark("usage")>> ELSE <<>>))
  /\ buf' = 0 /\ passthrough' = TRUE
  /\ worker' = "reply"
  /\ UNCHANGED <<handlers, left, jobs, cur, status, clock, metrics, history>>

\* The answer is complete; the locals of the job end with it.
Reply ==
  /\ worker = "reply"
  /\ Send(cur, <<Frame("done", status)>>)
  /\ cur' = NoConn /\ status' = 0
  /\ passthrough' = FALSE /\ buf' = 0 /\ overdue' = FALSE
  /\ worker' = "idle"
  /\ UNCHANGED <<handlers, left, jobs, metrics, history>>

WorkerStep == \/ LoadModels \/ LoadPanics \/ Drain \/ TakeRejected \/ TakeGenerate
              \/ DecodeQuietly \/ HoldBack \/ EndPreamble \/ EmitText
              \/ FinishAnswer \/ FailAnswer \/ CloseStream \/ Reply

\* Once the request has arrived or the read timeout has run out.
HandlerStep(c) == \/ ReadFails(c) \/ AnswerGet(c) \/ Submit(c) \/ SubmitFails(c)
                  \/ ForwardChunk(c) \/ ForwardDone(c) \/ Dropped(c)

\* Nothing is left to do on these connections.
AllClosed == (\A c \in Conn : conn[c] = "closed") /\ UNCHANGED vars

Next == \/ \E c \in Conn : Accept(c) \/ ClientLeaves(c) \/ HandlerStep(c)
        \/ WorkerStep \/ TimeIsUp \/ ProcessExits \/ AllClosed

\* Every thread that can run runs; nothing is assumed of clients, of the clock
\* or of the end of the process.
Spec == /\ Init /\ [][Next]_vars
        /\ WF_vars(WorkerStep) /\ \A c \in Conn : WF_vars(HandlerStep(c))
-----------------------------------------------------------------------------
(* Properties                                                               *)

FrameKinds == {"header", "role", "text", "final", "usage", "[DONE]", "reply", "get", "done"}

Frames == [kind : FrameKinds, n : Nat]

\* Types; a connection that is closed leaves nothing behind in its channel.
TypeOK ==
  /\ conn \in [Conn -> {"away", "read", "first", "stream", "closed"}]
  /\ left \in [Conn -> BOOLEAN] /\ req \in [Conn -> Request]
  /\ jobs \in Seq(Conn)
  /\ replies \in [Conn -> Seq(Frames)] /\ wire \in [Conn -> Seq(Frames)]
  /\ \A c \in Conn : conn[c] = "closed" => replies[c] = <<>>
  /\ worker \in {"loading", "failed", "dead", "idle", "decode", "close", "reply"}
  /\ (worker \in {"decode", "close", "reply"} <=> cur \in Conn) /\ cur \in Conn \cup {NoConn}
  /\ status \in {0, 200, 400, 503, 500} /\ passthrough \in BOOLEAN /\ buf \in Nat
  /\ overdue \in BOOLEAN
  /\ metrics \in [Counters -> Nat]
  /\ made \in [Conn -> Nat] /\ cut \in [Conn -> Nat]

\* One connection never gets two answers: what is on the wire is one plain reply
\* or one event stream in the order header, role, texts, finish reason, usage,
\* [DONE], each at most once but the texts, the role exactly on chat streams.
OneAnswer ==
  LET order == <<"header", "role", "text", "final", "usage", "[DONE]">>
      Place(f) == CHOOSE i \in DOMAIN order : order[i] = f.kind
  IN \A c \in Conn : LET w == wire[c] IN
       \/ w = <<>>
       \/ Len(w) = 1 /\ w[1].kind \in {"reply", "get"}
       \/ /\ req[c].stream /\ w[1].kind = "header"
          /\ \A i \in DOMAIN w : w[i].kind \in ToSet(order)
          /\ \A i, j \in DOMAIN w :
               i < j => \/ Place(w[i]) < Place(w[j])
                        \/ w[i].kind = "text" /\ w[j].kind = "text"
          /\ Len(w) > 1 => (w[2].kind = "role" <=> req[c].chat)

\* The tokens of the texts among the frames.
Sent(w) ==
  LET tokens[i \in 0..Len(w)] ==
        IF i = 0 THEN 0 ELSE tokens[i - 1] + (IF w[i].kind = "text" THEN w[i].n ELSE 0)
  IN tokens[Len(w)]

Has(w, kind) == \E i \in DOMAIN w : w[i].kind = kind

\* When a stream of the plain loop says why it finished, every token generated
\* has been written, or belongs to the thinking preamble: what the stripper held
\* back is never lost, whenever it gives up waiting.
StreamComplete ==
  \A c \in Conn :
    Has(wire[c], "final") /\ ~req[c].spec => Sent(wire[c]) + cut[c] = made[c]

Seen(A(_)) == Cardinality({c \in Conn : wire[c] # <<>> /\ A(wire[c])})

\* No request is counted twice, and whoever holds an answer of the worker and
\* asks for the metrics finds it counted (503s after a failed load are not).
CountedBeforeSeen ==
  /\ metrics["ok"] + metrics["e4"] + metrics["e5"] <= metrics["total"]
  /\ metrics["ok"] = metrics["eos"] + metrics["length"] /\ metrics["panics"] <= metrics["e5"]
  /\ metrics["ok"] >= Seen(LAMBDA w : w[1] = Frame("reply", 200) \/ Has(w, "final"))
  /\ metrics["e4"] >= Seen(LAMBDA w : w[1] = Frame("reply", 400))
  /\ worker # "failed" =>
       metrics["e5"] >= Seen(LAMBDA w : w[1] \in {Frame("reply", 500), Frame("reply", 503)})

\* No client waits for ever: a connection whose client stays gets a whole answer
\* and is closed, also when the models could not be loaded or the worker died,
\* unless the process ends.
Answered ==
  \A c \in Conn :
    conn[c] = "read" ~>
      /\ conn[c] = "closed"
      /\ \/ left[c] \/ worker = "dead"
         \/ Last(wire[c]).kind \in {"reply", "get", "[DONE]"}
=============================================================================
