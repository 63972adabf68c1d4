------------------------------- MODULE MCServer ------------------------------
(* Server with two connections: while one is served or streamed to, the other *)
(* arrives, queues, leaves or asks for something that needs no worker.        *)
EXTENDS Server

CONSTANTS c1, c2

Post(kind, stream, chat, usage, spec, n) ==
  [kind |-> kind, stream |-> stream, chat |-> chat, usage |-> usage, spec |-> spec,
   max_tokens |-> n]

\* A chat stream on c1; an unstreamed answer, a speculative stream, an embedding
\* or a rejected request on c2.
MCRequests(c) ==
  IF c = c1 THEN { Post("generate", TRUE, TRUE, TRUE, FALSE, 2) }
  ELSE { Post("bad", FALSE, FALSE, FALSE, FALSE, 0),
         Post("embed", FALSE, FALSE, FALSE, FALSE, 0),
         Post("generate", FALSE, TRUE, FALSE, FALSE, 1),
         Post("generate", TRUE, FALSE, FALSE, TRUE, 1) }

\* For the deadline: answers long enough to run past it.
MCLongRequests(c) ==
  { Post("generate", FALSE, TRUE, FALSE, spec, 3) : spec \in BOOLEAN }
=============================================================================
