--------------------------- MODULE RealtimeAudio ---------------------------
(***************************************************************************)
(* The buffer of one audio connection, which cuts the stream into pieces   *)
(* for the recognizer, and the merge that makes the segments of the fast   *)
(* draft from the pieces with text. Pure functions: the stream is a        *)
(* sequence of frames, and all lengths and times are in one unit of audio. *)
(***************************************************************************)
EXTENDS Enumeration, Integers, SequencesExt

CONSTANTS
  Requests,    \* what a conversation asks for: [mode, chunk], NoChunk for no chunk_ms
  NoChunk,
  Limits,      \* limits.yaml: [modes, default, min, max, window, overlap]
  ByteFloor,   \* the least step and advance of the buffer: 256 bytes
  TimeFloor,   \* the least advance of the merge: 0.05 s
  FrameSizes,  \* the lengths of a frame
  MaxFrames,   \* bound on the messages of a stream
  MaxLength    \* bound on its length

ASSUME FloorsArePositive == {ByteFloor, TimeFloor} \subseteq Nat \ {0}
ASSUME RealtimeBounds == FrameSizes \subseteq Nat /\ {MaxFrames, MaxLength} \subseteq Nat
ASSUME ChunksAreNumbers == \A r \in Requests : r.chunk \in Nat \cup {NoChunk}
ASSUME LimitsInOrder ==    \* chunk_ms_min is 500
  \A l \in Limits : /\ {l.min, l.max, l.window, l.overlap} \subseteq Nat
                    /\ TimeFloor <= l.min /\ l.min <= l.max

Larger(a, b) == IF a >= b THEN a ELSE b

-----------------------------------------------------------------------------
\* The settings of a connection

\* resolve_realtime_mode, clamp_chunk_ms. The overlap is not looked at.
Mode(r, l) == IF r.mode \in Range(l.modes) THEN r.mode ELSE
              IF l.default \in Range(l.modes) THEN l.default ELSE l.modes[1]
ChunkLength(r, l) == IF r.chunk = NoChunk THEN (l.min + l.max) \div 2
                  ELSE Larger(l.min, IF r.chunk < l.max THEN r.chunk ELSE l.max)

\* _build_buffer
Settings == {[mode |-> Mode(r, l), chunk |-> ChunkLength(r, l), window |-> l.window,
              overlap |-> l.overlap] : r \in Requests, l \in Limits}

-----------------------------------------------------------------------------
\* RealtimeAudioBuffer

\* chunk: blocks that follow each other. windowed: the last window of the buffer.
Step(c) == Larger(ByteFloor, c.chunk)
Build(c) == [mode    |-> c.mode,
             step    |-> Step(c),
             win     |-> Larger(Step(c), c.window),
             advance |-> IF c.mode = "windowed" THEN Larger(ByteFloor, Step(c) - c.overlap)
                                                ELSE Step(c)]
Cap(b) == 8 * b.win

\* fed: the stream so far; base: the place in it at which the buffer begins
Empty == [fed |-> 0, base |-> 0, pieces |-> <<>>]

\* The pieces a buffer of this length is cut into
Count(b, length) == IF length < b.step THEN 0 ELSE (length - b.step) \div b.advance + 1

\* A piece, and the end of the stream when it is cut, from which its times are taken
Piece(b, base, end) ==
  IF b.mode = "windowed" THEN [from |-> Larger(base, end - b.win), to |-> end, at |-> end]
                         ELSE [from |-> base, to |-> base + b.step, at |-> end]

CutTo(b, base, end) == Larger(base, end - Cap(b))

Feed(b, s, frame) ==
  LET end  == s.fed + frame
      base == CutTo(b, s.base, end)
      cuts == Count(b, end - base)
  IN [fed    |-> end,
      base   |-> base + cuts * b.advance,
      pieces |-> s.pieces \o [i \in 1 .. cuts |-> Piece(b, base + (i - 1) * b.advance, end)]]

FeedAll(b, frames) ==
  LET after[i \in 0 .. Len(frames)] == IF i = 0 THEN Empty ELSE Feed(b, after[i - 1], frames[i])
  IN after[Len(frames)]

\* _flush_tail_asr: the last frame comes from the decoder. No piece of it, and what is
\* left in the buffer is one, though not in mode chunk.
\* Flush, mutated: what is left is forgotten.
ForgetTail(b, s, frame) == Feed(b, s, frame)
Flush(b, s, frame) ==
  LET t == Feed(b, s, frame) IN
  IF t.pieces = s.pieces /\ b.mode = "windowed" /\ t.fed > t.base
  THEN [t EXCEPT !.pieces = Append(@, [from |-> t.base, to |-> t.fed, at |-> t.fed])]
  ELSE t

-----------------------------------------------------------------------------
\* The merge

\* _piece_time_bounds
Bounds(p) == [start |-> Larger(0, p.at - (p.to - p.from)), end |-> p.at]

\* The elements of a sequence whose index is in a set
At(seq, S) ==
  LET index == Ascending(S) IN
  [k \in DOMAIN index |-> seq[index[k]]]

\* Only pieces with text are appended.
Entries(pieces, texted) == At([i \in DOMAIN pieces |-> Bounds(pieces[i])], texted)

\* Advance, mutated: the overlap is not taken off.
WholeStep(c) == Larger(c.chunk, TimeFloor)
Advance(c) == Larger(c.chunk - c.overlap, TimeFloor)

\* The k-th entry, counted from 0, is dropped when it ends before k steps.
Dropped(c, entries, i) == i > 1 /\ entries[i].end <= (i - 1) * Advance(c)
Segment(c, entries, i) ==
  LET start == IF i > 1 THEN Larger(entries[i].start, (i - 1) * Advance(c)) ELSE entries[i].start IN
  [start |-> start, end |-> Larger(entries[i].end, start + TimeFloor)]

\* merge_realtime_partials
Merge(c, entries) ==
  At([i \in DOMAIN entries |-> Segment(c, entries, i)],
     {i \in DOMAIN entries : ~Dropped(c, entries, i)})

-----------------------------------------------------------------------------
\* What is heard and what is kept

\* The audio of m messages, and what the decoder has left at the end
Streams(m) == {stream \in [1 .. m + 1 -> FrameSizes] :
                 FoldLeft(LAMBDA sum, frame : sum + frame, 0, stream) <= MaxLength}
Session(c, stream) ==
  Flush(Build(c), FeedAll(Build(c), Front(stream)), Last(stream))

\* Frames that leave room for a step in the window; a recorder makes one a second or so.
Fits(c, stream) == \A i \in DOMAIN stream : stream[i] <= Build(c).win - Build(c).step + 1

Heard(c, s) ==
  LET In(x) == {i \in DOMAIN s.pieces : s.pieces[i].from <= x /\ x < s.pieces[i].to} IN
  IF c.mode = "windowed" THEN \A x \in 0 .. s.fed - 1 : In(x) # {}
  ELSE /\ s.fed - s.base < Build(c).step
       /\ \A x \in 0 .. s.base - 1 : \E i \in In(x) : In(x) = {i}

Kept(c, entries) ==
  LET segments == Merge(c, entries) IN
  /\ Len(segments) = Len(entries)
  /\ \A i \in DOMAIN segments : i > 1 => segments[i - 1].start <= segments[i].start

\* Settings whose overlap leaves at least TimeFloor of a step
RoomToStep(c) == c.mode = "windowed" => c.chunk - c.overlap >= TimeFloor

\* What goes wrong with m messages: tables, to be looked up in every state
Unheard == [m \in 0 .. MaxFrames |->
  {stream \in Streams(m) : \E c \in Settings :
     Fits(c, stream) /\ ~Heard(c, Session(c, stream))}]
Lossy == [m \in 0 .. MaxFrames |->
  {stream \in Streams(m) : \E c \in Settings :
     RoomToStep(c) /\ LET pieces == Session(c, stream).pieces IN
       \E texted \in SUBSET DOMAIN pieces : ~Kept(c, Entries(pieces, texted))}]
=============================================================================
