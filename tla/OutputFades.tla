---------------------------- MODULE OutputFades ----------------------------
(***************************************************************************)
(* The output side of one player (output.c): how _output_frames finds, in  *)
(* the ring outputbuf, the start of a track and the frames to fade or to   *)
(* mix by comparing readp with pointers that decode_thread left behind,    *)
(* while LMS pauses, skips and flushes.  Every step is one acquisition of  *)
(* outputbuf's mutex, but for _output_frames, which is cut at each turn of *)
(* its loop: turn.pc = "loop" is the mutex held by it.                     *)
(*                                                                         *)
(* A cell of the ring is a frame, known by its number: frames are numbered *)
(* as they are decoded.  What is heard is the last piece given to          *)
(* write_cb, with its gain.  OUTPUT_BUFFER is OUTPUT_RUNNING here:         *)
(* _output_frames does the same in both (TrackPipeline tells them apart).  *)
(***************************************************************************)
EXTENDS Integers, Sequences, SequencesExt

CONSTANTS
  Size,       \* frames of outputbuf
  Block,      \* FRAMES_PER_BLOCK
  FadeLen,    \* frames of fade_secs
  Modes,      \* transitions a user configures
  Orders,     \* strm commands LMS uses
  Intervals,  \* frames of a pause or of a skip
  NTracks,    \* bound: tracks LMS asks for
  MaxLen,     \* bound: frames of a track
  MaxOrders   \* bound: orders of LMS

ASSUME FadesAssumption ==
  /\ Size \in Nat \ {0, 1} /\ Block \in Nat \ {0} /\ FadeLen \in Nat \ {0}
  /\ Modes \subseteq {"NONE", "CROSS", "IN", "OUT", "INOUT"}
  /\ Orders \subseteq {"q", "f", "p", "u", "a"} /\ Intervals \subseteq Nat
  /\ NTracks \in Nat /\ MaxLen \in Nat /\ MaxOrders \in Nat

VARIABLES
  ring,    \* outputbuf
  output,  \* state; count: pause_frames or skip_frames; mark: track_start
  fade,    \* fade, fade_dir, fade_start, fade_end, fade_mode
  turn,    \* _output_frames: size and silence of the call under way
  heard,   \* the piece just written, if any
  source,  \* the codec and LMS: track, frames of it, what LMS may still do
  hist,    \* history: frames due, frames to fade, and what went wrong
  owed     \* history: the account of the frames, kept without the ring

vars == <<ring, output, fade, turn, heard, source, hist, owed>>

None == -1
Full == [dir |-> "none", at |-> 0, of |-> 0]
Nothing == [frames |-> << >>, with |-> << >>, gain |-> Full, due |-> << >>]
NoWindow == [dir |-> "none", tail |-> << >>, head |-> << >>]

LesserOf(a, b) == IF a < b THEN a ELSE b
Least(S) == CHOOSE a \in S : \A b \in S : a <= b
(* The part of an increasing sequence that comes before x. *)
Before(seq, x) ==
  SubSeq(seq, 1, CHOOSE n \in 0..Len(seq) : \A i \in DOMAIN seq : seq[i] < x <=> i <= n)
LastN(seq, n) == SubSeq(seq, Len(seq) + 1 - n, Len(seq))
Dropped(seq, n) == SubSeq(seq, n + 1, Len(seq))

Forward(p, n) == (p + n) % Size
Back(p, n) == (p - n) % Size
Distance(from, to) == (to - from) % Size
Used == Distance(ring.r, ring.w)
ContRead == IF ring.w >= ring.r THEN ring.w - ring.r ELSE Size - ring.r

(* The user has chosen a transition; LMS uses it or, between tracks that   *)
(* belong together, none.                                                  *)
Init ==
  /\ ring = [mem |-> [c \in 0..Size - 1 |-> 0], r |-> 0, w |-> 0]
  /\ output = [state |-> "STOPPED", count |-> 0, mark |-> None]
  /\ fade = [state |-> "INACTIVE", dir |-> "none", from |-> 0, to |-> 0, mode |-> "NONE"]
  /\ turn = [pc |-> "look", size |-> 0, silence |-> FALSE]
  /\ heard = Nothing
  /\ \E mode \in Modes :
       source = [chosen |-> mode, track |-> 0, frames |-> 0, phase |-> "idle",
                 orders |-> MaxOrders]
  /\ hist = [due |-> << >>, last |-> 0, first |-> 0, window |-> NoWindow,
             lost |-> FALSE, passed |-> FALSE, moved |-> FALSE, broken |-> FALSE]
  /\ owed = [frames |-> {}, cut |-> FALSE]

Unlocked == turn.pc = "look"
-----------------------------------------------------------------------------
(* The decode thread.                                                      *)

(* The first n frames to come, decoded or not. *)
Coming(n) ==
  [i \in 1..n |-> IF i <= Len(hist.due) THEN hist.due[i]
                  ELSE hist.last + i - Len(hist.due)]
Fresh(n) == [i \in 1..n |-> hist.last + i]

(* strm 's' sets the transition of the track asked for, and of any fade    *)
(* under way; with autostart a player that stands still plays.             *)
Ask(mode) ==
  /\ Unlocked /\ source.phase \in {"idle", "complete"} /\ source.track < NTracks
  /\ source' = [source EXCEPT !.track = @ + 1, !.frames = 0, !.phase = "asked"]
  /\ fade' = [fade EXCEPT !.mode = mode]
  /\ output' = [output EXCEPT !.state = IF @ = "STOPPED" THEN "RUNNING" ELSE @]
  /\ heard' = Nothing
  /\ UNCHANGED <<ring, turn, hist, owed>>

Duration == IF fade.mode = "INOUT" THEN FadeLen \div 2 ELSE FadeLen

Due(dir, from, to) ==
  [fade EXCEPT !.state = "DUE", !.dir = dir, !.from = from, !.to = to]
Faded(dir, tail, head) ==
  [hist EXCEPT !.window = [dir |-> dir, tail |-> tail, head |-> head], !.lost = FALSE]

(* A crossfade is under way.  When another fade takes its place, what it   *)
(* has mixed in is still in outputbuf and is owed again.                   *)
Mixing == fade.state = "ACTIVE" /\ fade.dir = "CROSS"
Resumed == IF Mixing THEN [frames |-> ToSet(hist.due), cut |-> FALSE] ELSE owed

(* _checkfade(true): a fade in from the first frame of the track on ...    *)
FadeIn ==
  LET n == LesserOf(Duration, Size - 1) IN
  /\ fade' = Due("UP", ring.w, Forward(ring.w, n))
  /\ hist' = [Faded("UP", << >>, Fresh(n)) EXCEPT !.first = hist.last + 1,
                !.passed = FALSE, !.moved = FALSE]
  /\ output' = [output EXCEPT !.mark = ring.w]
  /\ owed' = Resumed

(* ... or a crossfade from what is left of the track before, which moves   *)
(* the start of the new track to where the crossfade starts ...            *)
CrossFade ==
  LET n    == Least({Duration, Used, (Size * 9) \div 10})
      from == Back(ring.w, n) IN
  /\ fade' = Due("CROSS", from, ring.w)
  /\ hist' = [Faded("CROSS", LastN(hist.due, n), Fresh(n)) EXCEPT !.first = hist.last + 1,
                !.passed = FALSE, !.moved = TRUE]
  /\ output' = [output EXCEPT !.mark = from]
  /\ owed' = Resumed

(* Mutant: a start that was not met yet stays marked. *)
NoFadeFirstMark ==
  /\ output' = [output EXCEPT !.mark = IF @ = None THEN ring.w ELSE @]
  /\ hist' = [hist EXCEPT !.first = hist.last + 1, !.passed = FALSE, !.moved = FALSE]
  /\ UNCHANGED <<fade, owed>>

(* ... or nothing.  A fade that is due or under way stays. *)
NoFade ==
  /\ output' = [output EXCEPT !.mark = ring.w]
  /\ hist' = [hist EXCEPT !.first = hist.last + 1, !.passed = FALSE, !.moved = FALSE]
  /\ UNCHANGED <<fade, owed>>

FadesIn == fade.mode = "IN" \/ (fade.mode = "INOUT" /\ Used = 0)
Crosses == fade.mode = "CROSS" /\ Used # 0

(* The codec meets a new stream. *)
Begin ==
  /\ Unlocked /\ source.phase = "asked"
  /\ source' = [source EXCEPT !.phase = "decoding"]
  /\ \/ FadesIn /\ FadeIn
     \/ Crosses /\ CrossFade
     \/ ~FadesIn /\ ~Crosses /\ NoFade
  /\ heard' = Nothing
  /\ UNCHANGED <<ring, turn>>

Decode ==
  /\ Unlocked /\ source.phase = "decoding" /\ source.frames < MaxLen
  /\ Used < Size - 1
  /\ ring' = [ring EXCEPT !.mem[ring.w] = hist.last + 1, !.w = Forward(@, 1)]
  /\ hist' = [hist EXCEPT !.last = @ + 1, !.due = Append(@, hist.last + 1)]
  /\ owed' = [owed EXCEPT !.frames = @ \cup {hist.last + 1}]
  /\ source' = [source EXCEPT !.frames = @ + 1]
  /\ heard' = Nothing
  /\ UNCHANGED <<output, fade, turn>>

(* DECODE_COMPLETE and _checkfade(false): a fade out of what is left.      *)
Complete ==
  /\ Unlocked /\ source.phase = "decoding" /\ source.frames > 0
  /\ source' = [source EXCEPT !.phase = "complete"]
  /\ IF fade.mode \in {"OUT", "INOUT"}
       THEN LET n == LesserOf(Used, Duration) IN
            /\ fade' = Due("DOWN", Back(ring.w, n), ring.w)
            /\ hist' = Faded("DOWN", LastN(hist.due, n), << >>)
            /\ owed' = Resumed
       ELSE UNCHANGED <<fade, hist, owed>>
  /\ heard' = Nothing
  /\ UNCHANGED <<ring, output, turn>>
-----------------------------------------------------------------------------
(* The slimproto thread: strm.                                             *)

Order(name) ==
  /\ Unlocked /\ name \in Orders /\ source.orders > 0
  /\ heard' = Nothing
Spent == [source EXCEPT !.orders = @ - 1]

(* strm 'u' *)
Unpause ==
  /\ Order("u")
  /\ source' = Spent
  /\ output' = [output EXCEPT !.state = "RUNNING"]
  /\ UNCHANGED <<ring, fade, turn, hist, owed>>

(* strm 'p', with an interval or for good. *)
Pause(n) ==
  /\ Order("p")
  /\ source' = Spent
  /\ output' = [output EXCEPT !.count = n, !.state = IF n > 0 THEN "PAUSE" ELSE "STOPPED"]
  /\ UNCHANGED <<ring, fade, turn, hist, owed>>

(* strm 'a' *)
SkipAhead(n) ==
  /\ Order("a")
  /\ source' = Spent
  /\ output' = [output EXCEPT !.count = n, !.state = "SKIP"]
  /\ UNCHANGED <<ring, fade, turn, hist, owed>>

(* Mutant: a fade outlives the frames it was for. *)
FlushKeepsFade ==
  /\ Order("q")
  /\ source' = [Spent EXCEPT !.phase = "idle"]
  /\ ring' = [ring EXCEPT !.r = 0, !.w = 0]
  /\ output' = [output EXCEPT !.state = "STOPPED", !.mark = None]
  /\ hist' = [hist EXCEPT !.due = << >>, !.window = NoWindow, !.lost = FALSE, !.passed = FALSE]
  /\ owed' = [frames |-> {}, cut |-> FALSE]
  /\ UNCHANGED <<fade, turn>>

(* strm 'q': output_flush.  (It takes the mutex twice; nothing happens to  *)
(* an empty buffer in between, decode_flush came before.)                  *)
Flush ==
  /\ Order("q")
  /\ source' = [Spent EXCEPT !.phase = "idle"]
  /\ ring' = [ring EXCEPT !.r = 0, !.w = 0]
  /\ output' = [output EXCEPT !.state = "STOPPED", !.mark = None]
  /\ fade' = [fade EXCEPT !.state = "INACTIVE"]
  /\ hist' = [hist EXCEPT !.due = << >>, !.window = NoWindow, !.lost = FALSE, !.passed = FALSE]
  /\ owed' = [frames |-> {}, cut |-> FALSE]
  /\ UNCHANGED turn

(* strm 'f': output_flush_streaming.  What is cut is a track whose start   *)
(* was not met, unless the mark was left behind or moved.  A fade set      *)
(* stays where it was.                                                     *)
FlushStreaming ==
  /\ Order("f")
  /\ source' = [Spent EXCEPT !.phase = "idle"]
  /\ LET kept == Before(hist.due, hist.first)
         cut  == fade.state # "INACTIVE"
                 /\ \E x \in ToSet(hist.window.tail \o hist.window.head) : x >= hist.first
     IN IF output.mark = None THEN UNCHANGED <<ring, hist, owed>>
        ELSE /\ ring' = [ring EXCEPT !.w = output.mark]
             /\ hist' = [hist EXCEPT !.due = kept, !.lost = @ \/ cut,
                           !.broken = hist.passed \/ hist.moved]
             /\ owed' = [frames |-> {x \in owed.frames : x < hist.first},
                         cut |-> owed.cut \/ Mixing]
  /\ output' = [output EXCEPT !.mark = None]
  /\ UNCHANGED <<fade, turn>>
-----------------------------------------------------------------------------
(* The output thread: _output_frames, called when the player accepts a     *)
(* block.  First the state is looked at ...                                *)
Called == Unlocked /\ output.state # "STOPPED"

Loop(size, silence) ==
  turn' = [pc |-> IF size > 0 THEN "loop" ELSE "look", size |-> size, silence |-> silence]

Frames ==
  /\ Called /\ output.state = "RUNNING"
  /\ Loop(LesserOf(Used, Block), FALSE)
  /\ heard' = Nothing
  /\ UNCHANGED <<ring, output, fade, source, hist, owed>>

(* What is skipped is not searched for marks: they may be left behind. *)
Skip ==
  /\ Called /\ output.state = "SKIP"
  /\ LET n == LesserOf(Used, output.count)
         over(p) == Distance(ring.r, p) < n IN
     /\ ring' = [ring EXCEPT !.r = Forward(@, n)]
     /\ Loop(LesserOf(Used - n, Block), FALSE)
     /\ hist' = [hist EXCEPT !.due = Dropped(@, n),
          !.passed = @ \/ (output.mark # None /\ over(output.mark)),
          !.lost = \/ @
                   \/ fade.state = "DUE" /\ over(fade.from)
                   \/ fade.state = "ACTIVE" /\ Distance(fade.from, ring.r) + n >= Size]
     /\ owed' = [frames |-> owed.frames \ ToSet(SubSeq(hist.due, 1, n)),
                 cut |-> owed.cut \/ (Mixing /\ n > 0)]
  /\ output' = [output EXCEPT !.state = "RUNNING"]
  /\ heard' = Nothing
  /\ UNCHANGED <<fade, source>>

Silence ==
  /\ Called /\ output.state = "PAUSE"
  /\ IF output.count = 0
       THEN output' = [output EXCEPT !.state = "RUNNING"] /\ Loop(LesserOf(Used, Block), FALSE)
       ELSE LET n == LesserOf(Block, output.count) IN
            output' = [output EXCEPT !.count = @ - n] /\ Loop(n, TRUE)
  /\ heard' = Nothing
  /\ UNCHANGED <<ring, fade, source, hist, owed>>

Looping == turn.pc = "loop"
Leave == turn' = [turn EXCEPT !.pc = "look", !.size = 0]

(* ... then comes a piece of silence, ... *)
Silent ==
  /\ Looping /\ turn.silence
  /\ Leave
  /\ heard' = Nothing
  /\ UNCHANGED <<ring, output, fade, source, hist, owed>>

(* ... or the start of a track, which ends the block, ... *)
AtStart ==
  /\ Looping /\ ~turn.silence /\ output.mark = ring.r
  /\ output' = [output EXCEPT !.mark = None]
  /\ Leave
  /\ heard' = Nothing
  /\ UNCHANGED <<ring, fade, source, hist, owed>>

(* ... or the next piece.  cont_frames goes up to the next mark: *)
UpTo(n, p) == IF p > ring.r THEN LesserOf(n, p - ring.r) ELSE n
ToMark == IF output.mark = None THEN ContRead ELSE UpTo(ContRead, output.mark)

Inactive == [fade EXCEPT !.state = "INACTIVE"]

(* The piece written: n frames from readp on, with a gain, mixed with the  *)
(* n frames from `mix` on.  Behind the last cell nothing is known (0).     *)
(* When nothing could be written, the block ends.                          *)
Cell(p) == IF p < Size THEN ring.mem[p] ELSE 0
Mixed(p) == IF p <= Size THEN Cell(p) ELSE ring.mem[p - Size]
Written(n, skipped, gain, mix) ==
  LET r == Forward(ring.r, skipped) IN
  /\ heard' = [frames |-> [k \in 1..n |-> Cell(r + k - 1)],
               with   |-> IF mix = None THEN << >>
                          ELSE [k \in 1..n |-> Mixed(mix + k - 1)],
               gain   |-> gain,
               due    |-> SubSeq(hist.due, skipped + 1, LesserOf(skipped + n, Len(hist.due)))]
  /\ ring' = [ring EXCEPT !.r = Forward(r, n)]
  /\ Loop(IF n = 0 THEN 0 ELSE turn.size - n, FALSE)
  /\ UNCHANGED <<output, source>>

Piece(n) == LesserOf(turn.size, n)
Heard(n) == [hist EXCEPT !.due = Dropped(@, n)]
Given == ToSet(heard'.frames)

Met == fade.state = "DUE" /\ fade.from = ring.r
Active == fade.state = "ACTIVE" \/ Met
Position == Distance(fade.from, ring.r)
Extent == Distance(fade.from, fade.to)

Plain ==
  /\ ~Active
  /\ LET n == Piece(IF fade.state = "DUE" THEN UpTo(ToMark, fade.from) ELSE ToMark) IN
       Written(n, 0, Full, None) /\ hist' = Heard(n)
  /\ owed' = [owed EXCEPT !.frames = @ \ Given]
  /\ UNCHANGED fade

(* A fade out or in: the gain is that of the first frame of the piece. *)
Fading ==
  /\ Active /\ Position < Extent /\ fade.dir \in {"UP", "DOWN"}
  /\ LET n  == Piece(UpTo(ToMark, fade.to))
         at == IF fade.dir = "DOWN" THEN Extent - Position ELSE Position
     IN Written(n, 0, [dir |-> fade.dir, at |-> at, of |-> Extent], None)
        /\ hist' = Heard(n)
  /\ owed' = [owed EXCEPT !.frames = @ \ Given]
  /\ fade' = [fade EXCEPT !.state = "ACTIVE"]

Turned == fade.mode = "INOUT" /\ fade.dir = "DOWN"

(* A fade out is over and the same length of fade in begins, at silence. *)
TurnsUp ==
  /\ Active /\ Position >= Extent /\ Turned
  /\ LET to == Forward(ring.r, Extent)
         n  == Piece(UpTo(ToMark, to))
         up == [Faded("UP", << >>, Coming(Extent)) EXCEPT !.lost = hist.lost] IN
     /\ fade' = [fade EXCEPT !.state = "ACTIVE", !.dir = "UP", !.from = ring.r, !.to = to]
     /\ Written(n, 0, [dir |-> "UP", at |-> 0, of |-> Extent], None)
     /\ hist' = [up EXCEPT !.due = Dropped(@, n)]
  /\ owed' = [owed EXCEPT !.frames = @ \ Given]

(* A crossfade goes on as long as there is enough of the new track; the    *)
(* frames that lie its length ahead are heard with those of the old.       *)
Enough == Used > Extent + turn.size
MixedIn(n) == {ring.mem[Forward(fade.to, Position + k - 1)] : k \in 1..n}

Crossing ==
  /\ Active /\ Position < Extent /\ fade.dir = "CROSS" /\ Enough
  /\ LET n == Piece(UpTo(ToMark, fade.to)) IN
     /\ Written(n, 0, [dir |-> "CROSS", at |-> Position, of |-> Extent], fade.to + Position)
     /\ hist' = Heard(n)
     /\ owed' = [owed EXCEPT !.frames = @ \ (Given \cup MixedIn(n))]
  /\ fade' = [fade EXCEPT !.state = "ACTIVE"]

CrossFails ==
  /\ Active /\ Position < Extent /\ fade.dir = "CROSS" /\ ~Enough
  /\ LET n == Piece(UpTo(ToMark, fade.to)) IN
     Written(n, 0, Full, None) /\ hist' = [Heard(n) EXCEPT !.window = NoWindow, !.lost = FALSE]
  /\ owed' = [Resumed EXCEPT !.frames = @ \ Given]
  /\ fade' = Inactive

(* The end of a fade.  In crossfade mode as much of the new track as was   *)
(* mixed in is skipped, but neither the size of the block nor the run up   *)
(* to wrap and to the next mark are reckoned again: they may be more than  *)
(* there is (broken), and the mark of a track after it may be left behind. *)
(* A crossfade that ends in another mode, or was cut, does not skip what   *)
(* it mixed in: all that outputbuf still holds is owed again.              *)
Over == Active /\ Position >= Extent /\ ~Turned
Skips == fade.mode = "CROSS" /\ Used >= Extent
Spoilt == Over /\ (owed.cut \/ (fade.dir = "CROSS") # Skips)

(* Mutant: what is skipped is one frame short of what was mixed in. *)
FadeEndsShort ==
  /\ Over
  /\ LET skipped == IF Skips THEN Extent - 1 ELSE 0
         n       == Piece(ToMark)
     IN /\ Written(n, skipped, Full, None)
        /\ hist' = [Heard(skipped + n) EXCEPT !.window = NoWindow, !.lost = FALSE]
        /\ owed' = [frames |-> (IF Spoilt THEN ToSet(Dropped(hist.due, skipped))
                                ELSE owed.frames) \ Given, cut |-> FALSE]
  /\ fade' = Inactive

FadeEnds ==
  /\ Over
  /\ LET skipped == IF Skips THEN Extent ELSE 0
         n       == Piece(ToMark)
     IN /\ Written(n, skipped, Full, None)
        /\ hist' = [Heard(skipped + n) EXCEPT !.window = NoWindow, !.lost = FALSE,
             !.passed = @ \/ /\ skipped > 0 /\ output.mark # None
                             /\ Distance(ring.r, output.mark) < skipped + n,
             !.broken = skipped > 0 /\ (n > Used - skipped
                                        \/ Forward(ring.r, skipped) + n > Size)]
        /\ owed' = [frames |-> (IF Spoilt THEN ToSet(Dropped(hist.due, skipped))
                                ELSE owed.frames) \ Given, cut |-> FALSE]
  /\ fade' = Inactive

Turn ==
  /\ Looping /\ ~turn.silence /\ output.mark # ring.r
  /\ Plain \/ Fading \/ TurnsUp \/ Crossing \/ CrossFails \/ FadeEnds
-----------------------------------------------------------------------------
DecodeThread == Begin \/ Decode \/ Complete
OutputThread == Frames \/ Skip \/ Silence \/ Silent \/ AtStart \/ Turn

(* What follows once the player is broken is left out. *)
Next ==
  /\ ~hist.broken
  /\ \/ DecodeThread \/ OutputThread
     \/ \E mode \in {source.chosen, "NONE"} : Ask(mode)
     \/ Unpause \/ Flush \/ FlushStreaming
     \/ \E n \in Intervals : SkipAhead(n) \/ Pause(n)

Spec == Init /\ [][Next]_vars
-----------------------------------------------------------------------------
Serials == 0..NTracks * MaxLen

Rings == [mem : [0..Size - 1 -> Serials], r : 0..Size - 1, w : 0..Size - 1]

Outputs ==
  [state : {"STOPPED", "RUNNING", "PAUSE", "SKIP"},
   count : {0} \cup UNION {0..n : n \in Intervals}, mark : None..Size - 1]

Fades ==
  [state : {"INACTIVE", "DUE", "ACTIVE"}, dir : {"none", "UP", "DOWN", "CROSS"},
   from : 0..Size - 1, to : 0..Size - 1, mode : Modes \cup {"NONE"}]

Turns == [pc : {"look", "loop"}, size : 0..Block, silence : BOOLEAN]

Sources ==
  [chosen : Modes, track : 0..NTracks, frames : 0..MaxLen,
   phase : {"idle", "asked", "decoding", "complete"}, orders : 0..MaxOrders]

(* Type invariant.  Whatever LMS orders, outputbuf holds exactly what is   *)
(* due, until the player is broken.                                        *)
TypeOK ==
  /\ ring \in Rings
  /\ output \in Outputs
  /\ fade \in Fades
  /\ turn \in Turns /\ (turn.pc = "loop" => turn.size > 0)
  /\ source \in Sources
  /\ ~hist.broken => Used = Len(hist.due)

(* Every frame decoded is heard once, in clear or mixed into a crossfade,  *)
(* in its order, unless strm skips or flushes it: what write_cb is given   *)
(* next comes from readp on and is the first that is owed still, through   *)
(* marks, wraps, fades, pauses, skips and flushes.  It is left open while  *)
(* a crossfade that was skipped or flushed into lasts, and for the piece   *)
(* at the end of one that does not skip what it mixed in; HeardOnce says   *)
(* what goes wrong there.                                                  *)
NextInLine(frames, due) ==
  \A k \in DOMAIN frames :
    /\ frames[k] \in due
    /\ \A x \in due : x < frames[k] => \E i \in 1..k - 1 : frames[i] = x

InOrder ==
  ~hist'.broken =>
    /\ heard'.frames = heard'.due
    /\ owed.cut \/ Spoilt \/ NextInLine(heard'.frames, owed.frames)

HeardInOrder == [][InOrder]_vars

(* A fade out of no frames that turns up leaves the gain 0/0. *)
Undefined(gain) == gain # Full /\ gain.of = 0

(* A piece is faded if and only if its frames are among those that were to *)
(* be faded when the fade was set up, with the gain of their place in it,  *)
(* and a crossfade mixes the frames that lie as far from the start of the  *)
(* old end as of the new track.                                            *)
At(seq, j, n) == SubSeq(seq, j + 1, LesserOf(j + n, Len(seq)))

FadesInPlace ==
  LET window == hist.window
      region == IF window.dir = "UP" THEN window.head ELSE window.tail
      n      == Len(heard.frames)
      frames == ToSet(heard.frames)
      within(j) ==
        /\ heard.frames = At(region, j, n) /\ heard.gain.of = Len(region)
        /\ heard.gain.at = IF window.dir = "DOWN" THEN Len(region) - j ELSE j
        /\ window.dir = "CROSS" =>
             \A k \in 1..n : heard.with[k] \in {window.head[j + k], 0}
  IN  n = 0 \/ hist.lost \/ hist.broken \/ Undefined(heard.gain) \/
      IF heard.gain = Full THEN frames \cap ToSet(region) = {}
      ELSE heard.gain.dir = window.dir /\ \E j \in 0..Len(region) : within(j)
-----------------------------------------------------------------------------
(* What the code does not ensure.                                          *)

(* What was heard, or mixed in, is not heard again.  A crossfade that runs *)
(* short of the new track (output.c:185-187), that another fade replaces,  *)
(* or whose mode strm s of the next track sets to none before it ends      *)
(* (slimproto.c:320) leaves what it mixed in to be played in clear.        *)
HeardOnce == [][owed'.frames \subseteq owed.frames \cup {hist.last + 1}]_vars

(* Nothing is read that outputbuf does not hold, and strm 'f' leaves what  *)
(* is playing.                                                             *)
NeverBroken == ~hist.broken

(* Fades end where their frames do: a fade is never left over for others.  *)
NeverLost == ~hist.lost

(* The gain of a fade is a number. *)
GainDefined == ~Undefined(heard.gain)

(* Every frame mixed in is one of the new track.                           *)
MixesFrames == \A k \in DOMAIN heard.with : heard.with[k] # 0
=============================================================================
