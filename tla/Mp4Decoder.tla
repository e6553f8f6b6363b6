----------------------------- MODULE Mp4Decoder -----------------------------
(***************************************************************************)
(* The two decoders of mp4 files, faad.c (aac) and alac.c: reading the     *)
(* boxes of the header out of streambuf while the file is still arriving,  *)
(* then the samples chunk by chunk, then trimming the frames the encoder   *)
(* added.  The sources are nearly the same text twice; what differs is     *)
(* under a test of the codec.                                              *)
(*                                                                         *)
(* A cell of streambuf is 4 bytes, so that the header of a box, a length   *)
(* and a type, is HDR = 2 cells.  What a cell holds is known from its      *)
(* place in the file: rd is the place of readp, arrived that of writep.    *)
(* The box at a place and what its body says are records of the file, and  *)
(* one sample decodes into PerSample frames.                               *)
(*                                                                         *)
(* Everything decode() does between LOCK_S and UNLOCK_S excludes           *)
(* stream_thread: pc is not "idle" meanwhile and nothing arrives.          *)
(***************************************************************************)
EXTENDS Integers, Sequences

CONSTANTS
  Files,       \* the files LMS has the player fetch
  BufSize,     \* cells of streambuf
  MinRead,     \* min_read_bytes of the codecs
  WrapLen,     \* WRAPBUF_LEN
  PerSample,   \* frames of a sample
  Word,        \* 2^32, scaled down
  MaxTurns     \* bound: tracks one after the other

(* boxes: the header, box after box as they lie in the file, mdat last.    *)
(* at, sizes: where the samples are and how long.  lead: the first sample  *)
(* yields no frames (aac).  wanted: the frames to hear.  cut: how much of  *)
(* the file the server sends before it closes.                             *)
Run == [first : Nat, samples : Nat]

(* What the body of a box says; the parser needs a table of chunks to list *)
(* at least one.                                                           *)
BoxOK(b) ==
  /\ b.len \in Nat \ {0}
  /\ b.type \in {"esds", "alac"} => b.playable \in BOOLEAN
  /\ b.type = "stsz" => b.default \in Nat /\ b.sizes \in Seq(Nat)
  /\ b.type = "stts" => b.frames \in Nat
  /\ b.type = "stsc" => b.runs \in Seq(Run)
  /\ b.type = "stco" => b.offsets \in Seq(Nat) \ {<< >>}
  /\ b.type = "----" => b.start \in 0..Word - 1 /\ b.end \in Nat /\ b.frames \in 0..Word - 1

FileOK(f) ==
  /\ f.codec \in {"aac", "alac"} /\ f.cut \in Nat /\ f.lead \in BOOLEAN
  /\ Len(f.boxes) \in Nat /\ DOMAIN f.boxes = 1..Len(f.boxes)
  /\ \A i \in DOMAIN f.boxes : BoxOK(f.boxes[i])
  /\ f.at \in Seq(Nat) /\ f.sizes \in Seq(Nat \ {0}) /\ Len(f.at) = Len(f.sizes)
  /\ \A j, k \in DOMAIN f.at : j < k => f.at[j] + f.sizes[j] <= f.at[k]
  /\ f.wanted \in Seq(Nat)

ASSUME Mp4Assumption ==
  /\ BufSize \in Nat \ {0, 1} /\ MinRead \in Nat /\ WrapLen \in Nat
  /\ PerSample \in Nat \ {0} /\ Word \in Nat \ {0} /\ MaxTurns \in Nat \ {0}
  /\ \A f \in Files : FileOK(f)

VARIABLES
  file,      \* the file being fetched
  arrived,   \* cells of it stored in streambuf so far
  closed,    \* stream.state <= DISCONNECT
  rd,        \* place in the file of readp
  ring,      \* place in streambuf of readp
  dec,       \* ctx->decode: state, new_stream; pc and `bytes` of the call
  h,         \* ctx->decode.handle
  out,       \* frames of this track in outputbuf
  turn,      \* tracks opened so far
  damage     \* history: how the header was spoilt

vars == <<file, arrived, closed, rd, ring, dec, h, out, turn, damage>>

HDR == 2
LesserOf(a, b) == IF a < b THEN a ELSE b

Used == arrived - rd
Cont == LesserOf(Used, BufSize - ring)   \* min(_buf_used, _buf_cont_read)

NoTable == << >>     \* a NULL chunkinfo, stsc or block_size

(* faad_open, alac_open: everything of the last track goes, except that    *)
(* faad keeps trak and play, or has there what malloc left.                *)
Opened(trak, play) ==
  [trak |-> trak, play |-> play, config |-> FALSE, stsc |-> NoTable,
   chunks |-> NoTable, stts |-> 0, default |-> 0, table |-> NoTable, block |-> 0,
   skip |-> 0, samples |-> 0, empty |-> FALSE,
   pos |-> 0, consume |-> 0, sample |-> 0, nextchunk |-> 0]

NewHandles(codec) ==
  IF codec = "alac" THEN {Opened(0, 0)} ELSE {Opened(0, 0), Opened(0, 1)}

Fresh == [state |-> "running", new |-> TRUE, pc |-> "idle", bytes |-> 0]

Init ==
  /\ file \in Files
  /\ h \in NewHandles(file.codec)
  /\ arrived = 0 /\ closed = FALSE /\ rd = 0 /\ ring = 0
  /\ dec = Fresh /\ out = << >> /\ turn = 1 /\ damage = {}

-----------------------------------------------------------------------------
(* stream_thread.                                                          *)

Feed ==
  /\ dec.pc = "idle"
  /\ \E n \in 1..LesserOf(BufSize - 1 - Used, file.cut - arrived) :
       arrived' = arrived + n
  /\ UNCHANGED <<file, closed, rd, ring, dec, h, out, turn, damage>>

(* The server has sent the file, or breaks off. *)
Close ==
  /\ dec.pc = "idle"
  /\ arrived = file.cut /\ ~closed
  /\ closed' = TRUE
  /\ UNCHANGED <<file, arrived, rd, ring, dec, h, out, turn, damage>>

(* Where box i starts, and where the samples are. *)
Own(b) ==
  CASE b.type \in {"moov", "trak", "stbl", "udta"} -> HDR
    [] b.type = "stsd" -> HDR + 2       \* and so mp4a, meta
    [] OTHER -> b.len

BoxAt(f, i) ==
  LET upTo[j \in 0..Len(f.boxes)] ==
        IF j = 0 THEN 0 ELSE upTo[j - 1] + Own(f.boxes[j])
  IN  upTo[i - 1]

Start(i) == BoxAt(file, i)

(* _buf_inc_readp, and pos which counts with it. *)
Advance(n, handle) ==
  /\ rd' = rd + n
  /\ ring' = (ring + n) % BufSize
  /\ h' = [handle EXCEPT !.pos = @ + n]

Stay(handle) == UNCHANGED <<rd, ring>> /\ h' = handle

Returns(state) == dec' = [dec EXCEPT !.state = state, !.pc = "idle"]

-----------------------------------------------------------------------------
(* read_mp4_header.                                                        *)

ConfigBox(codec) == IF codec = "aac" THEN "esds" ELSE "alac"

(* Init2 or alac_create_decoder accepts the configuration; alac.c plays the *)
(* track even if it does not.                                              *)
ReadConfig(codec, handle, b) ==
  [handle EXCEPT !.play = IF b.playable \/ codec = "alac" THEN handle.trak ELSE @,
                 !.config = @ \/ b.playable]

(* stsz, in alac.c only: a zero ends the table. *)
ReadSizes(handle, b) ==
  IF b.default > 0 THEN [handle EXCEPT !.default = b.default]
  ELSE [handle EXCEPT !.default = 0, !.table = Append(b.sizes, 0)]

ReadTimes(handle, b) == [handle EXCEPT !.stts = @ + b.frames]

StashChunkRuns(handle, b) ==
  IF handle.chunks = NoTable THEN [handle EXCEPT !.stsc = b.runs] ELSE handle

(* The number of the first sample of chunk i: the runs of stsc say how     *)
(* many samples each chunk before it has.                                  *)
FirstSample(runs, i) ==
  LET run(c) == {k \in DOMAIN runs : runs[k].first <= c
                   /\ \A m \in DOMAIN runs : runs[m].first <= c => m <= k}
      first[c \in 1..i] ==
        IF c = 1 \/ run(c - 1) = {} THEN 0
        ELSE first[c - 1] + runs[CHOOSE k \in run(c - 1) : TRUE].samples
  IN  first[i]

(* The offset 0 of the entry behind the last chunk ends the table. *)
ReadChunks(handle, b) ==
  IF handle.play # handle.trak THEN handle
  ELSE [handle EXCEPT !.chunks = [i \in 1..Len(b.offsets) |->
                           [offset |-> b.offsets[i], sample |-> FirstSample(handle.stsc, i)]]
                         \o <<[offset |-> 0, sample |-> 0]>>,
                      !.stsc = NoTable]

(* The iTunSMPB entry: frames to skip, frames of padding, frames to play. *)
ReadGapless(handle, b) ==
  LET limited == handle.stts > 0 /\ handle.stts < b.start + b.end + b.frames IN
  [handle EXCEPT !.skip = b.start,
                 !.samples = IF limited THEN (handle.stts - (b.start + b.end)) % Word
                             ELSE b.frames]

Read(codec, handle, b) ==
  CASE b.type = "moov" -> [handle EXCEPT !.trak = 0, !.play = 0]
    [] b.type = "trak" -> [handle EXCEPT !.trak = @ + 1]
    [] b.type = ConfigBox(codec) -> ReadConfig(codec, handle, b)
    [] b.type = "stsz" /\ codec = "alac" -> ReadSizes(handle, b)
    [] b.type = "stts" -> ReadTimes(handle, b)
    [] b.type = "stsc" -> StashChunkRuns(handle, b)
    [] b.type = "stco" -> ReadChunks(handle, b)
    [] b.type = "----" -> ReadGapless(handle, b)
    [] OTHER -> handle

Whole(b) == dec.bytes > b.len

Parsed(b) ==
  IF b.type \in {"moov", "trak"} \/ Whole(b) THEN Read(file.codec, h, b) ELSE h

(* What the decoder cannot do without, and what it takes care to have      *)
(* whole: in alac.c the list names esds, not alac.                         *)
Wanted(b) ==
  b.type \in {ConfigBox(file.codec), "stts", "stsc", "stco", "----"}
             \cup (IF file.codec = "alac" THEN {"stsz"} ELSE {})

Awaited(codec) ==
  {"esds", "stts", "stsc", "stco", "----"} \cup (IF codec = "alac" THEN {"stsz"} ELSE {})

WaitsFor(b) == b.type \in Awaited(file.codec)

(* A box is left behind although it was not read. *)
Missed(b) == IF Wanted(b) /\ ~Whole(b) THEN {"missed"} ELSE {}

Reading(i) ==
  /\ dec.pc = "header"
  /\ dec.bytes >= HDR
  /\ rd = Start(i)

(* mdat: on to the first chunk, then decoding starts in the same call: too *)
(* early if the way there is longer than what has arrived, or if faad.c is *)
(* left with less than decode_thread would have called it for.             *)
MediaFound(i) ==
  LET far   == IF h.chunks # NoTable THEN h.chunks[1].offset - (h.pos + HDR) ELSE 0
      there == far <= dec.bytes - HDR
      left  == Used - HDR - IF far > 0 THEN far ELSE 0
      early == ~there \/ (file.codec = "aac" /\ ~closed /\ left <= MinRead)
      started == [h EXCEPT !.sample = 1, !.nextchunk = 1, !.block = 0]
  IN
  /\ Reading(i) /\ file.boxes[i].type = "mdat"
  /\ h.play > 0
  /\ IF far > 0 /\ there THEN Advance(HDR + far, started)
     ELSE Advance(HDR, [started EXCEPT !.consume = IF far > 0 THEN far ELSE 0])
  /\ dec' = [dec EXCEPT !.new = FALSE, !.pc = "frame"]
  /\ damage' = IF early THEN damage \cup {"early"} ELSE damage
  /\ UNCHANGED <<file, arrived, closed, out, turn>>

NotPlayable(i) ==
  /\ Reading(i) /\ file.boxes[i].type = "mdat"
  /\ h.play = 0
  /\ Advance(HDR, h)
  /\ Returns("error")
  /\ UNCHANGED <<file, arrived, closed, out, turn, damage>>

ConsumeBox(i) ==
  LET b == file.boxes[i] IN
  /\ Reading(i) /\ b.type # "mdat"
  /\ dec.bytes >= Own(b)
  /\ Advance(Own(b), Parsed(b))
  /\ dec' = [dec EXCEPT !.bytes = @ - Own(b)]
  /\ damage' = damage \cup Missed(b)
  /\ UNCHANGED <<file, arrived, closed, out, turn>>

(* Of a box nobody waits for what is there is dropped, and the rest later. *)
ConsumePart(i) ==
  LET b == file.boxes[i] IN
  /\ Reading(i) /\ b.type # "mdat"
  /\ dec.bytes < Own(b) /\ ~WaitsFor(b)
  /\ Advance(dec.bytes, [Parsed(b) EXCEPT !.consume = Own(b) - dec.bytes])
  /\ Returns("running")
  /\ damage' = damage \cup Missed(b)
  /\ UNCHANGED <<file, arrived, closed, out, turn>>

(* The rest of the box is still to come, or lies behind the wrap. *)
Lacking(i) ==
  LET b == file.boxes[i] IN
  Reading(i) /\ b.type # "mdat" /\ dec.bytes < Own(b) /\ WaitsFor(b)

(* faad.c moves the box to the start of streambuf but not readp, so that   *)
(* its first part is there twice; what follows is not modelled.            *)
Linearize(i) ==
  /\ Lacking(i) /\ file.codec = "aac"
  /\ file.boxes[i].len <= Used
  /\ Returns("running")
  /\ damage' = damage \cup {"mangled"}
  /\ UNCHANGED <<file, arrived, closed, rd, ring, h, out, turn>>

TooLarge(i) ==
  /\ Lacking(i)
  /\ file.codec = "aac" => file.boxes[i].len > Used
  /\ file.boxes[i].len >= BufSize
  /\ Returns("error")
  /\ UNCHANGED <<file, arrived, closed, rd, ring, h, out, turn, damage>>

Wait(i) ==
  /\ Lacking(i) /\ file.codec = "aac"
  /\ file.boxes[i].len > Used /\ file.boxes[i].len < BufSize
  /\ Returns("running")
  /\ UNCHANGED <<file, arrived, closed, rd, ring, h, out, turn, damage>>

(* alac.c calls _buf_unwrap: see StreamBuffer and StreamBufferUnwrap. by   *)
(* is the shortage, room what is free, and len the part behind the wrap,   *)
(* which, moved up in front of it, can leave writep on wrap.               *)
Unwrap(i) ==
  LET by   == file.boxes[i].len - (BufSize - ring)
      room == BufSize - Used
      len  == Used - (BufSize - ring)
      up   == \/ len < 0
              \/ by = room
              \/ by > room /\ len >= by + (by - room)
  IN
  /\ Lacking(i) /\ file.codec = "alac" /\ file.boxes[i].len < BufSize
  /\ ring' = IF by > 0 /\ up THEN ring - by ELSE ring
  /\ damage' = IF (by > room /\ ~up) \/ (by = room /\ len = by)
                THEN damage \cup {"mangled"} ELSE damage
  /\ Returns("running")
  /\ UNCHANGED <<file, arrived, closed, rd, h, out, turn>>

(* Less than the header of a box is left to look at. *)
HeaderEnds ==
  /\ dec.pc = "header" /\ dec.bytes < HDR
  /\ Returns("running")
  /\ UNCHANGED <<file, arrived, closed, rd, ring, h, out, turn, damage>>

Box(i) ==
  \/ MediaFound(i) \/ NotPlayable(i) \/ ConsumeBox(i) \/ ConsumePart(i)
  \/ Linearize(i) \/ TooLarge(i) \/ Wait(i) \/ Unwrap(i)

ReadHeader == HeaderEnds \/ \E i \in DOMAIN file.boxes : Box(i)

-----------------------------------------------------------------------------
(* Decoding a sample.                                                      *)

FramesOf(k) ==
  IF k = 1 /\ file.lead THEN << >>
  ELSE [j \in 1..PerSample |-> (k - 1) * PerSample + j]

Noise == << 0 >>

(* The library: the sample that starts at readp, if the decoder knows the  *)
(* configuration and is given all of it, an error if it is given a part,   *)
(* and an error or noise anywhere else.                                    *)
Error(n) == [consumed |-> n, frames |-> << >>]

Decodes(avail) ==
  LET here == {k \in DOMAIN file.at : file.at[k] = rd} IN
  IF h.config /\ \E k \in here : file.sizes[k] <= avail
    THEN {[consumed |-> file.sizes[k], frames |-> FramesOf(k)] : k \in here}
    ELSE {Error(n) : n \in 0..LesserOf(avail, 1)} \cup
         (IF here = {} /\ avail > 0 THEN {[consumed |-> 1, frames |-> Noise]} ELSE {})

(* The next sample opens a chunk.  The count of samples only moves while   *)
(* there is another chunk.                                                 *)
AnotherChunk == h.chunks # NoTable /\ h.chunks[h.nextchunk + 1].offset > 0
ChunkEnds == AnotherChunk /\ h.sample = h.chunks[h.nextchunk + 1].sample
Counted(handle) == [handle EXCEPT !.sample = IF AnotherChunk THEN @ + 1 ELSE @]

ChunkGap == h.chunks[h.nextchunk + 1].offset - h.pos

(* Mutant: the part of the gap that is still to come is forgotten. *)
NextChunkHere(handle) ==
  Advance(LesserOf(ChunkGap, Used), [Counted(handle) EXCEPT !.nextchunk = @ + 1])

(* On to the next chunk, at once or when it has arrived. *)
NextChunk(handle) ==
  LET next == [Counted(handle) EXCEPT !.nextchunk = @ + 1] IN
  IF ChunkGap <= Used THEN Advance(ChunkGap, next)
  ELSE Stay([next EXCEPT !.consume = ChunkGap])

(* Mutant: the empty first sample is not counted. *)
SkipLeftPlain(frames) == h.skip

(* Gapless: frames are taken off the start, one empty sample counting as   *)
(* PerSample of them, then the rest is cut to the announced number, if it  *)
(* is not 0.                                                               *)
SkipLeft(frames) ==
  IF h.skip > 0 /\ h.empty THEN (h.skip - Len(frames)) % Word ELSE h.skip

Trimmed(frames) ==
  LET rest == SubSeq(frames, LesserOf(Len(frames), SkipLeft(frames)) + 1, Len(frames)) IN
  IF h.samples > 0 THEN SubSeq(rest, 1, LesserOf(Len(rest), h.samples)) ELSE rest

AfterTrim(frames) ==
  [h EXCEPT !.empty = IF h.skip > 0 THEN FALSE ELSE @,
            !.skip = SkipLeft(frames) - LesserOf(Len(frames), SkipLeft(frames)),
            !.samples = @ - LesserOf(@, Len(Trimmed(frames)))]

(* faad.c decodes what lies in one run, or a copy of both parts of at most *)
(* WrapLen if that run is short.                                           *)
Offered ==
  IF Cont < WrapLen /\ Cont # Used THEN LesserOf(Used, WrapLen) ELSE Cont

AacFrame ==
  /\ dec.pc = "frame" /\ file.codec = "aac"
  /\ \E d \in Decodes(Offered) :
       LET backwards == ChunkEnds /\ ChunkGap <= 0
           stuck == ~ChunkEnds /\ d.consumed = 0
           handle == IF backwards \/ stuck THEN h
                     ELSE IF d.frames = << >> THEN [h EXCEPT !.empty = TRUE]
                     ELSE AfterTrim(d.frames)
       IN
       /\ IF backwards THEN Stay(Counted(handle))
          ELSE IF ChunkEnds THEN NextChunk(handle)
          ELSE Advance(d.consumed, Counted(handle))
       /\ Returns(IF backwards \/ stuck THEN "error" ELSE "running")
       /\ out' = IF backwards \/ stuck THEN out ELSE out \o Trimmed(d.frames)
  /\ UNCHANGED <<file, arrived, closed, turn, damage>>

BlockSize == IF h.default > 0 THEN h.default ELSE h.table[h.block + 1]

(* A track without stsz: block_size is a NULL pointer. *)
NoSizes ==
  /\ dec.pc = "frame" /\ file.codec = "alac"
  /\ h.default = 0 /\ h.table = NoTable
  /\ Returns("crash")
  /\ UNCHANGED <<file, arrived, closed, rd, ring, h, out, turn, damage>>

Sized ==
  dec.pc = "frame" /\ file.codec = "alac" /\ (h.default > 0 \/ h.table # NoTable)

(* Mutant: only a table that ends is the end. *)
AlacCompleteTable ==
  /\ Sized
  /\ closed /\ Used = 0 /\ BlockSize = 0
  /\ Returns("complete")
  /\ UNCHANGED <<file, arrived, closed, rd, ring, h, out, turn, damage>>

AlacComplete ==
  /\ Sized
  /\ closed /\ (Used = 0 \/ BlockSize = 0)
  /\ Returns("complete")
  /\ UNCHANGED <<file, arrived, closed, rd, ring, h, out, turn, damage>>

AlacWait ==
  /\ Sized
  /\ ~(closed /\ Used = 0)
  /\ Used < BlockSize
  /\ Returns("running")
  /\ UNCHANGED <<file, arrived, closed, rd, ring, h, out, turn, damage>>

(* alac_to_pcm is given one block; if it fails the track is over.  (Blocks *)
(* without frames are not modelled.)                                       *)
AlacFrame ==
  /\ Sized
  /\ ~(closed /\ (Used = 0 \/ BlockSize = 0))
  /\ Used >= BlockSize
  /\ \E d \in Decodes(BlockSize) :
       LET failed == d.frames = << >>
           backwards == ~failed /\ ChunkEnds /\ ChunkGap <= 0
           next == [AfterTrim(d.frames) EXCEPT
                      !.block = IF BlockSize # h.default THEN @ + 1 ELSE @]
       IN
       /\ IF failed \/ backwards THEN Stay(h)
          ELSE IF ChunkEnds THEN NextChunk(next)
          ELSE Advance(BlockSize, Counted(next))
       /\ Returns(IF failed \/ backwards THEN "error" ELSE "running")
       /\ out' = IF failed \/ backwards THEN out ELSE out \o Trimmed(d.frames)
  /\ UNCHANGED <<file, arrived, closed, turn, damage>>

-----------------------------------------------------------------------------
(* decode_thread calls the codec when there is enough to read, or nothing  *)
(* more to come.  outputbuf is emptied in time.                            *)
Called ==
  /\ dec.state = "running" /\ dec.pc = "idle"
  /\ "mangled" \notin damage
  /\ Used > MinRead \/ closed

(* faad.c looks for the end of the stream first. *)
AacComplete ==
  /\ Called /\ file.codec = "aac"
  /\ closed /\ Used = 0
  /\ Returns("complete")
  /\ UNCHANGED <<file, arrived, closed, rd, ring, h, out, turn, damage>>

Ended == file.codec = "aac" /\ closed /\ Used = 0

(* Mutant: more is consumed than has arrived. *)
ConsumeAtOnce ==
  /\ Called /\ ~Ended
  /\ h.consume > 0
  /\ Advance(h.consume, [h EXCEPT !.consume = 0])
  /\ Returns("running")
  /\ UNCHANGED <<file, arrived, closed, out, turn, damage>>

(* What is in the way is dropped as far as it has arrived. *)
Consume ==
  LET n == LesserOf(h.consume, IF file.codec = "aac" THEN Cont ELSE Used) IN
  /\ Called /\ ~Ended
  /\ h.consume > 0
  /\ Advance(n, [h EXCEPT !.consume = @ - n])
  /\ Returns("running")
  /\ UNCHANGED <<file, arrived, closed, out, turn, damage>>

DecodeBegins ==
  /\ Called /\ ~Ended
  /\ h.consume = 0
  /\ dec' = [dec EXCEPT !.pc = IF dec.new THEN "header" ELSE "frame", !.bytes = Cont]
  /\ UNCHANGED <<file, arrived, closed, rd, ring, h, out, turn, damage>>

Frame == AacFrame \/ AlacFrame \/ AlacWait \/ AlacComplete \/ NoSizes

Decode == AacComplete \/ Consume \/ DecodeBegins \/ ReadHeader \/ Frame

(* The next track, whatever became of this one: strm q or the end, then    *)
(* strm s; codec_open closes the handle only of another codec.             *)
Reopen ==
  /\ dec.pc = "idle" /\ turn < MaxTurns
  /\ \E f \in Files :
       /\ file' = f
       /\ h' \in IF f.codec = "aac" /\ file.codec = "aac"
                  THEN {Opened(h.trak, h.play)} ELSE NewHandles(f.codec)
  /\ arrived' = 0 /\ closed' = FALSE /\ rd' = 0 /\ ring' = 0
  /\ dec' = Fresh /\ out' = << >> /\ turn' = turn + 1 /\ damage' = {}

Next == Feed \/ Close \/ Decode \/ Reopen

Spec == Init /\ [][Next]_vars

(* The decode thread keeps running, and the server sends on and closes. *)
FairSpec == Spec /\ WF_vars(Decode) /\ WF_vars(Feed) /\ WF_vars(Close)
-----------------------------------------------------------------------------
Handle ==
  [trak : Nat, play : Nat, config : BOOLEAN,
   stsc : Seq(Run),
   chunks : Seq([offset : Nat, sample : Nat]),
   stts : Nat, default : Nat, table : Seq(Nat), block : Nat,
   skip : 0..Word - 1, samples : 0..Word - 1, empty : BOOLEAN,
   pos : Nat, consume : Nat, sample : Nat, nextchunk : Nat]

Calls ==
  [state : {"running", "complete", "error", "crash"}, new : BOOLEAN,
   pc : {"idle", "header", "frame"}, bytes : 0..BufSize]

(* Type invariant.  Of a file that was read right no more is consumed than *)
(* has arrived, readp is the place `pos` counts to, and what is buffered   *)
(* fits, wherever header parsing and _buf_unwrap have moved it.            *)
TypeOK ==
  /\ file \in Files /\ turn \in 1..MaxTurns
  /\ arrived \in 0..file.cut /\ closed \in BOOLEAN
  /\ rd \in 0..arrived /\ Used < BufSize /\ ring \in 0..BufSize - 1
  /\ dec \in Calls
  /\ h \in Handle /\ h.pos = rd
  /\ out \in Seq(Nat)
  /\ damage \subseteq {"missed", "early", "mangled"}

-----------------------------------------------------------------------------
(* Files whose header tells where the samples are.                         *)

(* The handle after each box, if all boxes are read.                       *)
Heads(f, x) ==
  LET head[j \in 0..Len(f.boxes)] ==
        IF j = 0 THEN x ELSE Read(f.codec, head[j - 1], f.boxes[j])
  IN  head

(* The samples after which a chunk ends. *)
ChunkEndsAt(x) == {x.chunks[c].sample : c \in 2..Len(x.chunks) - 1}

(* Samples lie one behind the other but between chunks, where the table    *)
(* says; blocks have the sizes the table says, and what faad.c is offered  *)
(* is enough for a sample.                                                 *)
Laid(f, x) ==
  /\ f.at # << >> /\ f.cut <= f.at[Len(f.at)] + f.sizes[Len(f.at)]
  /\ \A k \in 1..Len(f.at) - 1 :
       k \in ChunkEndsAt(x) \/ f.at[k] + f.sizes[k] = f.at[k + 1]
  /\ \A c \in 1..Len(x.chunks) - 1 :
       /\ x.chunks[c].sample < Len(f.at)
       /\ x.chunks[c].offset = f.at[x.chunks[c].sample + 1]
       /\ IF c = 1 THEN x.chunks[c].sample = 0
          ELSE x.chunks[c - 1].sample < x.chunks[c].sample
  /\ f.codec = "aac" =>
       x.config /\ \A k \in DOMAIN f.at : f.sizes[k] <= WrapLen /\ f.sizes[k] <= MinRead + 1
  /\ f.codec = "alac" =>
       IF x.default > 0 THEN \A k \in DOMAIN f.at : f.sizes[k] = x.default
       ELSE x.table # NoTable => x.table = Append(f.sizes, 0)

(* The first sample follows the header of mdat, or a gap the table tells.  *)
Leads(f, x, i) ==
  IF x.chunks = NoTable THEN f.at[1] = BoxAt(f, i) + HDR ELSE f.at[1] >= BoxAt(f, i) + HDR

Proper(f, x) ==
  \A i \in DOMAIN f.boxes :
    LET before == Heads(f, x)[i - 1] IN
    /\ f.boxes[i].type = "mdat" /\ \A j \in 1..i - 1 : f.boxes[j].type # "mdat"
    /\ before.play > 0
    => Laid(f, before) /\ Leads(f, before, i)

(* What is to be heard of a track, if skip frames go off the start and     *)
(* samples frames are left, or all if that is 0: those behind number       *)
(* Begin, of the m samples the server sends whole.  A lead that yields no  *)
(* frames has numbers too.                                                 *)
Begin(f, skip) == IF f.lead /\ skip = 0 THEN PerSample ELSE skip

Finish(f, skip, samples, m) ==
  IF samples > 0 THEN LesserOf(m * PerSample, Begin(f, skip) + samples) ELSE m * PerSample

Between(a, b) == [i \in 1..b - a |-> a + i]

(* m samples are sent whole, and of the next at most one cell to faad.c:    *)
(* it would take more of it for a sample of its own.                       *)
Sent(f, m) ==
  /\ m \in 0..Len(f.at)
  /\ m > 0 => f.at[m] + f.sizes[m] <= f.cut
  /\ m < Len(f.at) => /\ f.cut < f.at[m + 1] + f.sizes[m + 1]
                      /\ f.codec = "aac" => f.cut <= f.at[m + 1] + 1

(* The lead is part of what is skipped, if anything is, and the padding    *)
(* behind is less than a sample: behind the last frame wanted `samples` is *)
(* 0, and says no more that frames are to be left out.                     *)
Plan(f, skip, samples, m) ==
  /\ Sent(f, m)
  /\ f.lead => f.codec = "aac" /\ (skip = 0 \/ skip >= PerSample)
  /\ samples > 0 => (Len(f.at) - 1) * PerSample < Begin(f, skip) + samples
  /\ f.wanted = Between(Begin(f, skip), Finish(f, skip, samples, m))

(* A track without a configuration or block sizes, or behind a box that    *)
(* streambuf has no room for, is not heard.                                *)
Decodable(f, x) == f.codec = "alac" => x.config /\ (x.default > 0 \/ x.table # NoTable)
HasRoom(f, b) == b.type \in Awaited(f.codec) => b.len < BufSize

Padded(f, x) ==
  /\ (\A i \in DOMAIN f.boxes : f.boxes[i].type # "mdat") => f.wanted = << >>
  /\ \A i \in DOMAIN f.boxes :
       f.boxes[i].type = "mdat" /\ (\A j \in 1..i - 1 : f.boxes[j].type # "mdat") =>
         LET before == Heads(f, x)[i - 1] IN
         IF before.play > 0 /\ Decodable(f, before) /\ \A j \in 1..i - 1 : HasRoom(f, f.boxes[j])
         THEN \E m \in 0..Len(f.at) : Plan(f, before.skip, before.samples, m)
         ELSE f.wanted = << >>

(* Nothing of the header was spoilt by the pieces it arrived in: no box    *)
(* left behind unread because it ends with the data at hand (BoxesRead     *)
(* says so of all arrivals, and the code does not keep it), none moved to  *)
(* the wrong place, and the media not met before there was enough of it.   *)
Sound == damage = {}

(* Between two calls readp is at a sample of the file, or what is left to  *)
(* consume leads to one, or it is behind the last or in one that was cut   *)
(* off: chunk table, sample count, gaps, pending skips and block sizes     *)
(* agree, whatever the pieces the samples came in (faad.c:425-448,         *)
(* alac.c:378-398), unless the pieces of the header spoilt it (Sound).     *)
Places ==
  {file.at[k] : k \in DOMAIN file.at}
    \cup {file.at[k] + file.sizes[k] : k \in {Len(file.at)}}
    \cup {p \in 0..file.cut : \E k \in DOMAIN file.at :
            file.at[k] < p /\ file.cut < file.at[k] + file.sizes[k]}

SampleAligned ==
  Sound /\ ~dec.new /\ dec.state = "running" /\ dec.pc = "idle"
    => rd + h.consume \in Places

(* What is handed on are the frames of the track without the padding, in   *)
(* order, each once, and all of them at the end, for a header read whole   *)
(* (Sound): whatever the number of blocks the delay and the padding take.  *)
Track == INSTANCE GaplessTrack WITH
  wanted <- file.wanted, heard <- out, over <- dec.state # "running", sound <- Sound
PlaysWanted == Track!Spec

(* Decoding comes to its end, unless the header was spoilt or has a box    *)
(* that lies across the end of streambuf: the decoder is never left        *)
(* waiting for what streambuf has no room for, or consuming what is gone.  *)
HeaderSplit == dec.new /\ BufSize - ring < HDR
DecodeEnds == dec.state = "running" ~> (dec.state # "running" \/ ~Sound \/ HeaderSplit)

(* A stream that terminated ends the decoding, wherever it broke off       *)
(* ("stream terminated", alac.c:344).                                      *)
TerminatedEnds == closed ~> dec.state # "running"

(* Every box the decoder needs is read before it is left behind: boxes are *)
(* consumed "if it has been parsed (all in the buffer) or is not one we    *)
(* want to parse" (faad.c:291, alac.c:264).                                *)
BoxesRead == "missed" \notin damage
=============================================================================
