---------------------------- MODULE ByteStreams ----------------------------
(***************************************************************************)
(* The three readers of a byte stream that cut it at borders it does not   *)
(* have: the frame decoder of the protocol, the --until watcher and the    *)
(* chunked ANSI stripper.  Each gets the stream in arbitrary chunks and    *)
(* carries what a chunk leaves open into the next; each is compared with   *)
(* its definition on the whole stream.                                     *)
(***************************************************************************)
EXTENDS Naturals, Sequences, SequencesExt, FiniteSetsExt

CONSTANTS
  Readers,       \* subset of {"frames", "until", "strip"}
  MaxStream,     \* bound: bytes of a stream, for each reader
  HeaderLen,     \* SIZE_HEADER_LEN, and
  Base,          \* the number of byte values of a header (256)
  MaxFrameSize,  \* MAX_FRAME_SIZE
  Needles,       \* what --until may look for
  MaxCarry       \* StripAnsiCarry::MAX_CARRY

VARIABLES
  reader,
  needle,
  sent,          \* the stream so far
  buf, pos,      \* FrameDecoder; buf is also the carry of the other two
  out,           \* frames decoded, bytes left by the stripper
  ended,         \* the decoder failed, the needle was found
  dropped        \* a carry longer than MaxCarry was dropped

vars == <<reader, needle, sent, buf, pos, out, ended, dropped>>

\* Byte classes that the readers tell apart; "m" stands for the letters, "3" for
\* 0x30-0x3f, " " for 0x20-0x2f.
Alphabet ==
  [frames |-> 0 .. Base - 1, until |-> {"a", "b"},
   strip |-> {"ESC", "[", "]", "P", "3", " ", "m", "BEL", "\\"}]

Init ==
  /\ reader \in Readers
  /\ needle \in IF reader = "until" THEN Needles ELSE {<<>>}
  /\ sent = <<>> /\ buf = <<>> /\ pos = 0 /\ out = <<>>
  /\ ended = FALSE /\ dropped = FALSE

From(s, i) == SubSeq(s, i, Len(s))

\* The first index from i on that satisfies the test; the length + 1 if there is none.
First(s, i, Test(_)) == Min({j \in i .. Len(s) : Test(s[j])} \cup {Len(s) + 1})

-----------------------------------------------------------------------------
(* FrameDecoder.                                                           *)

\* u32::from_le_bytes
SizeOf(bytes) == FoldRight(LAMBDA b, acc : b + Base * acc, bytes, 0)

SizeOk(size) == 1 <= size /\ size <= MaxFrameSize

\* TYPE_RAW_DATA, TYPE_CBOR_CONTROL, TYPE_RAW_ACK
TypeOk(ty) == ty \in 0 .. 2

\* complete_frame_len: an error, more bytes needed (0), or the length of the frame.
CompleteFrameLen(avail) ==
  LET size == SizeOf(SubSeq(avail, 1, HeaderLen))
      bad == \/ Len(avail) >= HeaderLen /\ ~SizeOk(size)
             \/ Len(avail) > HeaderLen /\ ~TypeOk(avail[HeaderLen + 1])
  IN [err |-> bad,
      len |-> IF ~bad /\ Len(avail) > HeaderLen /\ Len(avail) >= HeaderLen + size
              THEN HeaderLen + size ELSE 0]

\* push: consumed bytes are drained first.
DecoderPush(chunk) ==
  /\ buf' = From(buf, pos + 1) \o chunk /\ pos' = 0
  /\ UNCHANGED <<out, ended, dropped>>

\* is_ready
Ready ==
  reader = "frames" /\ ~ended /\ CompleteFrameLen(From(buf, pos + 1)) # [err |-> FALSE, len |-> 0]

\* next_frame: a large allocation is given back, an emptied buffer is cleared, or
\* only the position moves.
NextFrame ==
  /\ Ready
  /\ LET avail == From(buf, pos + 1)
         frame == CompleteFrameLen(avail)
     IN IF frame.err THEN ended' = TRUE /\ UNCHANGED <<buf, pos, out>>
        ELSE /\ out' = Append(out, [ty |-> avail[HeaderLen + 1],
                                    body |-> SubSeq(avail, HeaderLen + 2, frame.len)])
             /\ \/ buf' = From(avail, frame.len + 1) /\ pos' = 0
                \/ Len(avail) > frame.len /\ buf' = buf /\ pos' = pos + frame.len
             /\ UNCHANGED ended
  /\ UNCHANGED <<reader, needle, sent, dropped>>

\* encode_to
Encode(frame) ==
  LET size == Len(frame.body) + 1
  IN [i \in 1 .. HeaderLen |-> (size \div Base^(i - 1)) % Base] \o <<frame.ty>> \o frame.body

\* decode_from on the whole stream: frame after frame until one is not complete or
\* not valid.
RECURSIVE DecodeAll(_)
DecodeAll(s) ==
  LET frame == CompleteFrameLen(s) IN
    IF frame.len = 0 THEN [frames |-> <<>>, rest |-> s, err |-> frame.err]
    ELSE LET after == DecodeAll(From(s, frame.len + 1)) IN
           [after EXCEPT !.frames =
              <<[ty |-> s[HeaderLen + 1], body |-> SubSeq(s, HeaderLen + 2, frame.len)]>> \o @]

-----------------------------------------------------------------------------
(* UntilWatcher.                                                           *)

Occurs(n, s) == \E i \in 0 .. Len(s) - Len(n) : SubSeq(s, i + 1, i + Len(n)) = n

\* Mutant of Feed: the carry is one byte short.
FeedMutant(chunk) ==
  LET window == buf \o chunk
      keep == IF Len(needle) > 1 THEN Len(needle) - 2 ELSE 0
  IN /\ IF needle # <<>> /\ Occurs(needle, window) THEN ended' = TRUE /\ UNCHANGED buf
        ELSE buf' = (IF needle = <<>> THEN buf ELSE From(window, Max({1, Len(window) - keep + 1})))
             /\ UNCHANGED ended
     /\ UNCHANGED <<pos, out, dropped>>

\* feed: an empty needle never matches; what may begin a match is kept.
Feed(chunk) ==
  LET window == buf \o chunk
      keep == Len(needle) - 1
  IN /\ IF needle # <<>> /\ Occurs(needle, window) THEN ended' = TRUE /\ UNCHANGED buf
        ELSE buf' = (IF needle = <<>> THEN buf ELSE From(window, Max({1, Len(window) - keep + 1})))
             /\ UNCHANGED ended
     /\ UNCHANGED <<pos, out, dropped>>

-----------------------------------------------------------------------------
(* strip_ansi and StripAnsiCarry.                                          *)

Param(b) == b = "3"
Final(b) == b \in {"[", "]", "P", "m", "\\"}
Terminates(s, j) == s[j] = "ESC" /\ j < Len(s) /\ s[j + 1] = "\\"

\* The end of the parameters and intermediates of a CSI sequence at i.
CsiEnd(s, i) ==
  LET j == First(s, i + 2, LAMBDA b : ~Param(b)) IN First(s, j, LAMBDA b : b # " ")

\* The end of an OSC (a BEL or ESC \) or DCS (ESC \ only) sequence.
StringEnd(s, i) ==
  LET bel == s[i + 1] = "]"
      ends == {j \in i + 2 .. Len(s) : (bel /\ s[j] = "BEL") \/ Terminates(s, j)}
  IN IF ends = {} THEN Len(s) + 1
     ELSE IF s[Min(ends)] = "BEL" THEN Min(ends) + 1 ELSE Min(ends) + 2

\* strip_ansi: where it goes on after the escape sequence at i.
Skip(s, i) ==
  IF i = Len(s) THEN i + 1
  ELSE CASE s[i + 1] = "[" ->
              LET k == CsiEnd(s, i) IN IF k <= Len(s) /\ Final(s[k]) THEN k + 1 ELSE k
         [] s[i + 1] \in {"]", "P"} -> StringEnd(s, i)
         [] OTHER -> i + 2

\* Whether StripAnsiCarry waits for more: the end of the buffer, or within a string
\* an ESC that no backslash follows.
Open(s, i) ==
  \/ i = Len(s)
  \/ s[i + 1] = "[" /\ CsiEnd(s, i) > Len(s)
  \/ /\ s[i + 1] \in {"]", "P"}
     /\ LET j == First(s, i + 2, LAMBDA b : b = "ESC" \/ (b = "BEL" /\ s[i + 1] = "]"))
        IN j > Len(s) \/ (s[j] = "ESC" /\ ~Terminates(s, j))

RECURSIVE StripFrom(_, _)
StripFrom(s, i) ==
  IF i > Len(s) THEN <<>>
  ELSE IF s[i] # "ESC" THEN <<s[i]>> \o StripFrom(s, i + 1)
  ELSE StripFrom(s, Skip(s, i))

StripAnsi(s) == StripFrom(s, 1)

\* The index of the first escape sequence that is still open; length + 1 if none is.
RECURSIVE OpenFrom(_, _)
OpenFrom(s, i) ==
  IF i > Len(s) THEN i
  ELSE IF s[i] # "ESC" THEN OpenFrom(s, i + 1)
  ELSE IF Open(s, i) THEN i ELSE OpenFrom(s, Skip(s, i))

\* StripAnsiCarry::push and stash_carry: an open sequence that is too long is dropped.
StripPush(chunk) ==
  LET s == buf \o chunk
      k == OpenFrom(s, 1)
      carry == From(s, k)
  IN /\ out' = out \o StripAnsi(SubSeq(s, 1, k - 1))
     /\ buf' = IF Len(carry) > MaxCarry THEN <<>> ELSE carry
     /\ dropped' = (dropped \/ Len(carry) > MaxCarry)
     /\ UNCHANGED <<pos, ended>>

-----------------------------------------------------------------------------
\* The next chunk; the daemon asks for all frames before it reads again.
Chunk ==
  /\ Len(sent) < MaxStream[reader] /\ ~ended /\ ~Ready
  /\ \E n \in 1 .. MaxStream[reader] - Len(sent) : \E chunk \in [1 .. n -> Alphabet[reader]] :
       /\ sent' = sent \o chunk
       /\ \/ reader = "frames" /\ DecoderPush(chunk)
          \/ reader = "until" /\ Feed(chunk)
          \/ reader = "strip" /\ StripPush(chunk)
  /\ UNCHANGED <<reader, needle>>

Next == Chunk \/ NextFrame

-----------------------------------------------------------------------------
(* Properties.                                                             *)

\* However the stream is cut into reads, the reader's result is that for the whole
\* stream.  The frame decoder returns the frames that decode_from reads, fails
\* exactly where it fails, keeps exactly the rest, and encoding its frames gives
\* back the bytes it consumed.  --until fires in the chunk that completes the first
\* occurrence of its string, also across borders, and never without one.  The
\* chunked stripper returns what strip_ansi returns; what is missing is stripped
\* from its carry (unless a carry over its limit was dropped).
ChunksInvisible ==
  /\ reader = "frames" /\ ~Ready =>
       LET all == DecodeAll(sent) IN
         /\ out = all.frames /\ ended = all.err
         /\ From(buf, pos + 1) = all.rest
         /\ FlattenSeq([i \in DOMAIN out |-> Encode(out[i])]) \o all.rest = sent
  /\ reader = "until" => (ended <=> needle # <<>> /\ Occurs(needle, sent))
  /\ reader = "strip" /\ ~dropped => out \o StripAnsi(buf) = StripAnsi(sent)

=============================================================================
