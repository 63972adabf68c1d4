----------------------------- MODULE StreamText ------------------------------
(***************************************************************************)
(* From tokens to the text of a stream: the decode loops of                *)
(* serve/mod.rs re-decode the whole output after each token and hand the   *)
(* new part of the text to ThinkingStripStream, which holds it back until  *)
(* it knows whether the answer opens with a thinking preamble.  Server has *)
(* the same stripper counted in tokens, with any token doing anything.     *)
(*                                                                         *)
(* A token is a sequence of bytes.  A byte is told apart only as far as    *)
(* UTF-8 and the stripper do: letters, blanks, the lead byte of a two-byte *)
(* or four-byte glyph, a continuation byte; a marker stands for its bytes  *)
(* and arrives whole.  A text is the sequence of its bytes, each knowing   *)
(* its offset in its character, as str slicing cares about that.           *)
(***************************************************************************)
EXTENDS Naturals, FiniteSets, SequencesExt

CONSTANTS
  Tokens,      \* byte sequences of the vocabulary
  MaxTokens,   \* max_tokens
  MaxBuffer    \* MAX_BUFFER (256), in bytes of text

Ascii == {"letter", "blank", "opener", "closer"}
Byte == Ascii \cup {"lead2", "lead4", "cont"}

ASSUME TextAssumption ==
  /\ \A t \in Tokens : t \in Seq(Byte) /\ t # <<>>
  /\ MaxTokens \in Nat /\ MaxBuffer \in Nat

VARIABLES
  out,            \* bytes of the tokens so far
  count,          \* number of tokens
  full_text, prev_text_len,
  passthrough, buf,   \* ThinkingStripStream
  shown,          \* text of the chunks sent
  dropped,        \* history: the preamble that was cut away
  torn,           \* history: some decode ended inside a glyph or found garbage
  pc

stripper == <<passthrough, buf, shown, dropped>>
vars == <<out, count, full_text, prev_text_len, stripper, torn, pc>>

-----------------------------------------------------------------------------
(* from_utf8_lossy                                                          *)

\* Continuation bytes a lead byte asks for, and those it gets.
Wanted(b) == CASE b = "lead2" -> 1 [] b = "lead4" -> 3 [] OTHER -> 0

Got(bytes, i) ==
  CHOOSE n \in 0..Wanted(bytes[i]) :
    /\ i + n <= Len(bytes) /\ \A j \in i + 1..i + n : bytes[j] = "cont"
    /\ n < Wanted(bytes[i]) => i + n = Len(bytes) \/ bytes[i + n + 1] # "cont"

\* The character that starts at byte i: complete, or one U+FFFD of three bytes
\* for all that is there of it.
Glyph(bytes, i) ==
  LET b == bytes[i]
      Wide(kind, w) == [o \in 1..w |-> <<kind, o - 1>>]
  IN IF b \in Ascii THEN Wide(b, 1)
     ELSE IF b = "cont" \/ Got(bytes, i) < Wanted(b) THEN Wide("bad", 3)
     ELSE Wide(b, Wanted(b) + 1)

Decode(bytes) ==
  LET from[i \in 1..Len(bytes) + 1] ==
        IF i > Len(bytes) THEN <<>>
        ELSE Glyph(bytes, i) \o from[i + Got(bytes, i) + 1]
  IN from[1]

-----------------------------------------------------------------------------
(* Texts                                                                    *)

Has(text, kind) == \E i \in DOMAIN text : text[i][1] = kind

\* rfind: the last closing marker.
ClosedAt(text) ==
  CHOOSE i \in DOMAIN text :
    /\ text[i][1] = "closer"
    /\ \A j \in DOMAIN text : text[j][1] = "closer" => j <= i

\* Where the text goes on after blanks that follow position i.
SkipBlanks(text, i) ==
  CHOOSE n \in i..Len(text) :
    /\ \A j \in i + 1..n : text[j][1] = "blank"
    /\ n < Len(text) => text[n + 1][1] # "blank"

Rest(text, i) == SubSeq(text, i + 1, Len(text))

\* strip_thinking_channels: what an answer that is not streamed shows.
Strip(text) ==
  IF Has(text, "closer") THEN Rest(text, SkipBlanks(text, ClosedAt(text))) ELSE text

-----------------------------------------------------------------------------
Init ==
  /\ out = <<>> /\ count = 0 /\ full_text = <<>> /\ prev_text_len = 0
  /\ passthrough = FALSE /\ buf = <<>> /\ shown = <<>> /\ dropped = <<>>
  /\ torn = FALSE /\ pc = "decode"

\* The next token's bytes are appended and everything is decoded again.
Decoded ==
  /\ pc = "decode" /\ count < MaxTokens
  /\ count' = count + 1
  /\ \E t \in Tokens : out' = out \o t
  /\ full_text' = Decode(out')
  /\ torn' = (torn \/ Has(full_text', "bad"))

\* The text has not grown: nothing is sent.
NoDelta ==
  /\ Decoded
  /\ Len(full_text') <= prev_text_len
  /\ UNCHANGED <<prev_text_len, stripper, pc>>

\* The slice would begin inside a character: str indexing panics.
SlicePanics ==
  /\ Decoded
  /\ Len(full_text') > prev_text_len
  /\ full_text'[prev_text_len + 1][2] # 0
  /\ pc' = "panic"
  /\ UNCHANGED <<prev_text_len, stripper>>

\* The new part of the text.
Delta == Rest(full_text', prev_text_len)

Delivered == Len(full_text')

Delivers ==
  /\ Decoded
  /\ Len(full_text') > prev_text_len
  /\ full_text'[prev_text_len + 1][2] = 0
  /\ prev_text_len' = Delivered
  /\ UNCHANGED pc

PassThrough ==
  /\ Delivers /\ passthrough
  /\ shown' = shown \o Delta
  /\ UNCHANGED <<passthrough, buf, dropped>>

\* Mutant: the cut is at the marker, not behind it.
PreambleEndsBefore(text) == ClosedAt(text) - 1

PreambleEnd(text) == SkipBlanks(text, ClosedAt(text))

\* A closing marker: everything up to the last one in the buffer goes, and the
\* blanks after it as far as they have arrived.
EndPreamble ==
  /\ Delivers /\ ~passthrough
  /\ LET all == buf \o Delta
     IN /\ Has(all, "closer")
        /\ LET end == PreambleEnd(all)
           IN /\ dropped' = SubSeq(all, 1, end)
              /\ shown' = shown \o Rest(all, end)
  /\ buf' = <<>> /\ passthrough' = TRUE

\* More text than a preamble would need to show itself.
Overfull(text) == Len(text) > MaxBuffer

\* Mutant: opening markers are not looked for.
OpenedNever(text) == FALSE

Opened(text) == Has(text, "opener")

\* No preamble after all: what was held back goes out.
GiveUp ==
  /\ Delivers /\ ~passthrough
  /\ LET all == buf \o Delta
     IN /\ ~Has(all, "closer") /\ Overfull(all) /\ ~Opened(all)
        /\ shown' = shown \o all
  /\ buf' = <<>> /\ passthrough' = TRUE
  /\ UNCHANGED dropped

HoldBack ==
  /\ Delivers /\ ~passthrough
  /\ buf' = buf \o Delta
  /\ ~Has(buf', "closer") /\ (Overfull(buf') => Opened(buf'))
  /\ UNCHANGED <<passthrough, shown, dropped>>

\* Mutant: a stream that ends while it waits shows nothing.
FlushedNot == <<>>

Flushed == buf

\* End of sequence, limit or deadline: flush.
Stop ==
  /\ pc = "decode"
  /\ shown' = shown \o Flushed
  /\ buf' = <<>> /\ passthrough' = TRUE
  /\ pc' = "done"
  /\ UNCHANGED <<out, count, full_text, prev_text_len, dropped, torn>>

Ended == pc \in {"done", "panic"} /\ UNCHANGED vars

Next == \/ NoDelta \/ SlicePanics \/ PassThrough \/ EndPreamble \/ GiveUp \/ HoldBack
        \/ Stop \/ Ended

Spec == Init /\ [][Next]_vars
-----------------------------------------------------------------------------
(* Properties                                                               *)

Char == (Ascii \cup {"lead2", "lead4", "bad"}) \X (0..3)

\* Types; the position up to which text was delivered lies in the text, unless
\* a glyph that was torn has shrunk since.
TypeOK ==
  /\ out \in Seq(Byte) /\ count \in 0..MaxTokens
  /\ full_text \in Seq(Char) /\ prev_text_len \in Nat
  /\ (~torn /\ pc = "decode" => prev_text_len = Len(full_text))
  /\ passthrough \in BOOLEAN /\ buf \in Seq(Char)
  /\ shown \in Seq(Char) /\ dropped \in Seq(Char)
  /\ torn \in BOOLEAN /\ pc \in {"decode", "done", "panic"}

\* As long as every token ends with a whole glyph, each byte of the text is, in
\* order, dropped with the preamble, shown, or held back, and a stream that has
\* ended holds nothing back: prev_text_len and the buffer never lose or repeat
\* a part.
NothingLost ==
  ~torn => /\ pc # "panic"
           /\ dropped \o shown \o buf = full_text
           /\ pc = "done" => buf = <<>>

FirstOf(text, kind) ==
  CHOOSE i \in DOMAIN text :
    text[i][1] = kind /\ \A j \in 1..i - 1 : text[j][1] # kind

Early(text, kind) == Has(text, kind) /\ FirstOf(text, kind) <= MaxBuffer

\* A preamble that shows itself before the buffer is full is never seen: while it
\* is open nothing is sent, and once closed nothing up to the first closing
\* marker has been.
PreambleHidden ==
  ~torn /\ pc = "decode" /\ Early(full_text, "opener") =>
    IF Has(full_text, "closer") THEN Len(dropped) >= FirstOf(full_text, "closer")
                                ELSE shown = <<>>

OneCloser(text) == Cardinality({i \in DOMAIN text : text[i][1] = "closer"}) = 1

\* Both strippers agree, up to blanks that arrive after the marker, on an answer
\* without a closing marker, and on one with a single marker if the preamble shows
\* itself in time.  (With more markers the stream goes on after the first.)
AgreesWithStrip ==
  ~torn /\ pc = "done" =>
    /\ ~Has(full_text, "closer") => shown = Strip(full_text)
    /\ OneCloser(full_text) /\ (Early(full_text, "opener") \/ Early(full_text, "closer")) =>
         Rest(shown, SkipBlanks(shown, 0)) = Strip(full_text)

\* What the comment on the delta says: a glyph of several tokens is sent once its
\* last token completes it, so that the stream of a well-formed text is that text.
GlyphsIntact ==
  ~Has(full_text, "bad") =>
    /\ pc # "panic"
    /\ pc = "done" => dropped \o shown = full_text
=============================================================================
