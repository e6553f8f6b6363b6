--------------------------- MODULE MC_Mp4Decoder ---------------------------
(***************************************************************************)
(* Small files for Mp4Decoder.  Places are given relative to the first     *)
(* cell behind the header of mdat.                                         *)
(***************************************************************************)
EXTENDS Mp4Decoder

Plain(type) == [type |-> type, len |-> 9]
Free(len) == [type |-> "free", len |-> len]
Media == [type |-> "mdat", len |-> 9]
Esds(playable) == [type |-> "esds", len |-> 3, playable |-> playable]
Alac(playable) == [type |-> "alac", len |-> 4, playable |-> playable]
Stts(frames) == [type |-> "stts", len |-> 3, frames |-> frames]
Stsc(runs) == [type |-> "stsc", len |-> 3, runs |-> runs]
Chunks(first, samples) == [first |-> first, samples |-> samples]
Stsz(default, sizes) ==
  [type |-> "stsz", len |-> 3, default |-> default, sizes |-> sizes]
Stco(offsets) == [type |-> "stco", len |-> 3, offsets |-> offsets]
Padding(start, end, frames) ==
  [type |-> "----", len |-> 3, start |-> start, end |-> end, frames |-> frames]

Track1(config, tables) ==
  <<Plain("moov"), Plain("trak"), Plain("stsd"), config>> \o tables

OwnLen(b) == IF b.type = "mdat" THEN HDR ELSE Own(b)
MediaStart(boxes) ==
  LET upTo[i \in 0..Len(boxes)] == IF i = 0 THEN 0 ELSE upTo[i - 1] + OwnLen(boxes[i])
  IN  upTo[Len(boxes)]

(* The frames from..to are wanted; the server breaks off `short` early and *)
(* `tail` cells follow the last sample.                                    *)
Movie(codec, boxes, at, sizes, lead, from, to, tail, short) ==
  LET start == MediaStart(boxes)
      last  == IF at = << >> THEN start ELSE start + at[Len(at)] + sizes[Len(at)] - 1
  IN
  [codec |-> codec,
   boxes |-> [i \in DOMAIN boxes |->
                IF boxes[i].type = "stco"
                  THEN [boxes[i] EXCEPT !.offsets = [j \in DOMAIN @ |-> @[j] + start - 1]]
                  ELSE boxes[i]],
   at |-> [k \in DOMAIN at |-> start + at[k] - 1], sizes |-> sizes, lead |-> lead,
   wanted |-> [j \in 1..(to + 1 - from) |-> from + j - 1],
   cut |-> last + tail - short]

(* Three samples in two chunks, one frame of padding at both ends, the     *)
(* first sample empty.                                                     *)
TwoChunks ==
  Movie("aac",
        Track1(Esds(TRUE), <<Stts(6), Stsc(<<Chunks(1, 2), Chunks(2, 1)>>), Stco(<<1, 6>>),
                             Padding(3, 1, 2), Media>>),
        <<1, 3, 6>>, <<2, 2, 2>>, TRUE, 4, 5, 0, 0)

(* Another track in front, a gap in front of the first chunk, fewer frames *)
(* than the padding makes believe.                                         *)
SecondTrack ==
  Movie("aac",
        <<Plain("moov"), Plain("trak"), Stts(1), Stsc(<<Chunks(1, 3)>>), Stco(<<1>>),
          Plain("trak"), Esds(TRUE), Stts(5), Stsc(<<Chunks(1, 1)>>), Stco(<<3, 5, 9>>),
          Padding(1, 1, 9), Media>>,
        <<3, 5, 9>>, <<2, 1, 1>>, FALSE, 2, 5, 0, 0)

(* No tables at all, cut off within the last sample. *)
CutOff ==
  Movie("aac", Track1(Esds(TRUE), <<Free(4), Media>>),
        <<1, 3>>, <<2, 2>>, FALSE, 1, 2, 0, 1)

(* Blocks of their own sizes in two chunks. *)
Blocks ==
  Movie("alac",
        Track1(Alac(TRUE), <<Stts(6), Stsc(<<Chunks(1, 1), Chunks(2, 2)>>), Stsz(0, <<2, 3, 1>>),
                             Stco(<<1, 5>>), Padding(1, 0, 5), Media>>),
        <<1, 5, 8>>, <<2, 3, 1>>, FALSE, 2, 6, 0, 0)

(* Blocks of one size. *)
EvenBlocks ==
  Movie("alac", Track1(Alac(TRUE), <<Stsz(2, << >>), Stsc(<<Chunks(1, 1)>>), Stco(<<2, 4>>), Media>>),
        <<2, 4>>, <<2, 2>>, FALSE, 1, 4, 0, 0)

NoTrack == Movie("alac", <<Media, Plain("moov"), Plain("trak")>>, << >>, << >>, FALSE, 1, 0, 0, 0)
NoAudio == Movie("aac", Track1(Esds(FALSE), <<Media>>), <<1>>, <<1>>, FALSE, 1, 0, 0, 0)

(* Headers longer than streambuf, with a box or the header of one across   *)
(* its end, and one with a box that never fits.                            *)
LongHeader(part) ==
  Movie("aac", <<Free(BufSize - part)>> \o Track1(Esds(TRUE), <<Stts(2), Media>>),
        <<1>>, <<2>>, FALSE, 1, 2, 0, 0)
LongBlocks ==
  Movie("alac", <<Free(BufSize - 12)>> \o Track1(Alac(TRUE), <<Stsz(1, << >>), Media>>),
        <<1>>, <<1>>, FALSE, 1, 2, 0, 0)
TooLargeBox ==
  Movie("aac", <<Plain("moov"), Plain("trak"), [Stts(2) EXCEPT !.len = BufSize], Media>>,
        <<1>>, <<1>>, FALSE, 1, 0, 0, 0)

(* The server breaks off in the last block. *)
CutBlocks ==
  Movie("alac", Track1(Alac(TRUE), <<Stsz(2, << >>), Media>>),
        <<1, 3>>, <<2, 2>>, FALSE, 1, 4, 0, 1)

MCFiles ==
  {TwoChunks, SecondTrack, CutOff, Blocks, EvenBlocks, NoTrack, NoAudio,
   LongHeader(9), LongHeader(10), LongBlocks, TooLargeBox}

(* These files are what the theorems on SampleAligned and PlaysWanted are  *)
(* about.                                                                  *)
ASSUME AllProper ==
  \A f \in MCFiles : \A t, p \in 0..IF f.codec = "alac" THEN 0 ELSE 2 :
    Proper(f, Opened(t, p)) /\ Padded(f, Opened(t, p))

(* A file with which TerminatedEnds fails, and one with which BoxesRead does. *)
MCCutFiles == {CutBlocks}
MCHeaderFiles == {TwoChunks}
=============================================================================
