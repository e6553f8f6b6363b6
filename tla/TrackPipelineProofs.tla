------------------------ MODULE TrackPipelineProofs ------------------------
(***************************************************************************)
(* Proofs about TrackPipeline, for every number and length of tracks and   *)
(* every size of the buffers.                                              *)
(***************************************************************************)
EXTENDS TrackPipeline, SequenceTheorems, TLAPS

(* What the provers are given for a leaf, in seconds. *)
USE SMTT(20), ZenonT(40)

(* What TypeOK needs to be inductive: a chunk is polled for only when there *)
(* is room, a stream is no longer than announced, and the numbers passed   *)
(* from thread to thread are those of tracks, once there is one.           *)
Asked == lms.track \in Tracks
Typed ==
  /\ stream.polled => Len(sbuf) < StreamSize
  /\ stream.bytes + stream.left <= MaxLen
  /\ stream.open \/ slim.pc \in {"connect", "open"} => Asked
  /\ decode.track = lms.track
  /\ decode.state # "STOPPED" => Asked
  /\ output.start # None => output.next \in Tracks
  /\ output.started => output.mark \in Tracks

TypeInv == TypeOK /\ Typed

(* The flushes stop the threads one after the other: what a step of them   *)
(* has emptied stays so up to the end.                                     *)
Passing == {"passOutput", "passDecode", "passDisconnect"}
Quitting == {"qBuffer", "qOutput", "qDisconnect", "qStream"}
Flushing == {"fOutput", "fDisconnect", "fStream"}

Emptied ==
  /\ sbuf = << >> /\ out = << >>
  /\ ~stream.open /\ stream.state = "STOPPED"
  /\ decode.state = "STOPPED"
  /\ output.start = None /\ output.state = "STOPPED"

FlushInv ==
  /\ slim.pc \in Quitting \cup Flushing \cup {"passDisconnect"} => decode.state = "STOPPED"
  /\ slim.pc \in Quitting \ {"qBuffer"} => out = << >>
  /\ slim.pc \in {"qDisconnect", "qStream"} => output.start = None /\ output.state = "STOPPED"
  /\ slim.pc \in {"qStream", "fStream"} => ~stream.open /\ stream.state = "STOPPED"
  /\ slim.pc \in Passing \cup {"idle"} /\ slim.last = "q" => Emptied

(* The tracks follow one another from streambuf to LMS: whatever is behind *)
(* the codec is of the track asked for last or before, and of an earlier   *)
(* one as long as the codec has not marked the start of its own.           *)
OrderInv ==
  /\ \A i \in 1..Len(out) : out[i] <= lms.track
  /\ output.mark <= lms.track
  /\ decode.fresh => \A i \in 1..Len(out) : out[i] < lms.track
  /\ decode.fresh /\ Asked => output.mark < lms.track
  /\ output.start # None =>
       /\ output.mark < output.next
       /\ IF decode.fresh THEN output.next < lms.track ELSE output.next = lms.track
  /\ \A i \in 1..Len(lms.announced) :
       lms.announced[i] <= output.mark /\ (output.started => lms.announced[i] < output.mark)
  /\ AnnouncedOnce

(* A session of the stream thread: the socket is closed whenever LMS may   *)
(* ask for a track, so that what streambuf holds is of that track, unless  *)
(* its server could not be reached; then the codec never gets to run.      *)
Closing == Quitting \cup Flushing \cup {"passDisconnect"}
Mine == \A i \in 1..Len(sbuf) : sbuf[i] = lms.track
Unreached ==
  /\ ~stream.ok /\ stream.state \in Ended
  /\ decode.state \in {"READY", "STOPPED"}
  /\ slim.pc \in {"passOutput", "passDecode"} => slim.snap \in Ended

StreamInv ==
  /\ stream.open => stream.ok /\ stream.state \notin Ended
  /\ lms.phase # "streaming" /\ slim.pc \notin Closing => ~stream.open
  /\ slim.pc \in {"connect", "open"} =>
       ~stream.open /\ decode.state = "READY" /\ decode.fresh /\ lms.phase = "streaming"
  /\ slim.pc = "open" => sbuf = << >>
  /\ decode.state \in {"RUNNING", "COMPLETE", "ERROR"} =>
       stream.state \in Ended \cup {"HTTP"}
  /\ slim.pc \in {"passOutput", "passDecode"} =>
       /\ decode.state \in {"RUNNING", "COMPLETE", "ERROR"} => slim.snap \in Ended \cup {"HTTP"}
       /\ slim.snap \in Ended => stream.state \in Ended
       /\ slim.snap = "HTTP" => stream.state \in Ended \cup {"HTTP"}
  /\ slim.pc = "connect" \/ Mine \/ Unreached

(* What is decoded and what is left of the stream add up to the track.     *)
AccountInv ==
  /\ decode.state \in {"READY", "RUNNING", "COMPLETE"} /\ stream.ok
     /\ slim.pc \notin {"connect", "open"} =>
       /\ stream.bytes + stream.left = lms.len
       /\ hist.frames + Len(sbuf) = stream.bytes
       /\ stream.state \in Ended => stream.left = 0
  /\ slim.pc \in {"connect", "open"} => hist.frames = 0
  /\ NothingLost

(* When LMS is patient the start of a track was met, or cut, before that   *)
(* of the next one is marked.                                              *)
HeardInv ==
  /\ \A i \in 1..Len(out) :
       out[i] \in hist.begun \/ (output.start # None /\ i > output.start)
  /\ HeardBegun
  /\ decode.fresh => output.start = None
  /\ decode.state = "READY" => decode.fresh
  /\ decode.state = "RUNNING" /\ ~decode.fresh =>
       output.start # None \/ lms.track \in hist.begun
  /\ lms.phase = "free" =>
       /\ decode.state = "STOPPED"
       /\ slim.pc \notin {"qBuffer", "qOutput", "fOutput"} => output.start = None
-----------------------------------------------------------------------------
(* Sequences: a prefix, and what is left without it.                       *)
LEMMA FrontAndRest ==
  ASSUME NEW S, NEW seq \in Seq(S), NEW n \in 0..Len(seq)
  PROVE  /\ SubSeq(seq, 1, n) \in Seq(S) /\ Len(SubSeq(seq, 1, n)) = n
         /\ \A i \in 1..n : SubSeq(seq, 1, n)[i] = seq[i]
         /\ Dropped(seq, n) \in Seq(S) /\ Len(Dropped(seq, n)) = Len(seq) - n
         /\ \A i \in 1..Len(seq) - n : Dropped(seq, n)[i] = seq[i + n]
<1>1. Len(seq) \in Nat /\ \A i \in 1..Len(seq) : seq[i] \in S
  OBVIOUS
<1>2. /\ SubSeq(seq, 1, n) \in Seq(S) /\ Len(SubSeq(seq, 1, n)) = n
      /\ \A i \in 1..n : SubSeq(seq, 1, n)[i] = seq[i]
  <2>1. \A i \in 1..n : seq[i] \in S
    BY <1>1
  <2>2. QED
    BY <1>1, <2>1, SubSeqProperties
<1>3. /\ SubSeq(seq, n + 1, Len(seq)) \in Seq(S)
      /\ Len(SubSeq(seq, n + 1, Len(seq))) = Len(seq) - n
      /\ \A i \in 1..Len(seq) - n : SubSeq(seq, n + 1, Len(seq))[i] = seq[i + n]
  <2>1. \A i \in n + 1..Len(seq) : seq[i] \in S
    BY <1>1
  <2>2. QED
    BY <1>1, <2>1, SubSeqProperties
<1>4. QED
  BY <1>2, <1>3 DEF Dropped

(* The numbers of tracks and of frames are numbers. *)
LEMMA Numbered ==
  ASSUME TypeOK
  PROVE  /\ lms.track \in Nat /\ output.mark \in Nat
         /\ output.next \in Nat /\ output.start \in Int
         /\ \A i \in 1..Len(out) : out[i] \in Nat
<1>1. /\ 0..NTracks \subseteq Nat /\ Tracks \subseteq Nat
  BY PipelineAssumption DEF Tracks
<1>2. None..OutSize \subseteq Int
  BY PipelineAssumption DEF None
<1>3. lms.track \in 0..NTracks
  BY DEF TypeOK, Servers
<1>4. output \in Outputs
  BY DEF TypeOK
<1>5. output.mark \in 0..NTracks /\ output.next \in 0..NTracks
  BY <1>4 DEF Outputs
<1>6. output.start \in None..OutSize
  BY <1>4 DEF Outputs
<1>7. \A i \in 1..Len(out) : out[i] \in Tracks
  BY DEF TypeOK
<1>8. QED
  BY <1>1, <1>2, <1>3, <1>5, <1>6, <1>7

(* At first everything is empty and no track has been asked for. *)
LEMMA InitTyped == Init => TypeInv
BY PipelineAssumption DEF Init, TypeInv, TypeOK, Typed, Tracks, None, Never, Ended,
   StreamStates, SlimSteps, Asked, Streams, Decoders, Outputs, Slims, Servers, Histories

(* The stream thread stores a chunk only where it has seen room. *)
LEMMA StreamTyped == TypeInv /\ StreamThread => TypeInv'
<1> SUFFICES ASSUME TypeInv, StreamThread PROVE TypeInv'
  OBVIOUS
<1> USE DEF TypeInv, TypeOK
<1>1. CASE StreamLook
  <2>1. stream' \in Streams
    BY <1>1 DEF StreamLook, Streams
  <2>2. QED
    BY <1>1, <2>1 DEF StreamLook, Streams, Typed, Asked
<1>2. CASE StreamClosed
  <2>1. stream' \in Streams
    BY <1>2 DEF StreamClosed, Streams
  <2>2. QED
    BY <1>2, <2>1 DEF StreamClosed, Streams, Typed, Asked
<1>3. CASE StreamHeaders
  <2>1. stream' \in Streams
    BY <1>3 DEF StreamHeaders, Unplugged, Streams, StreamStates, Ended
  <2>2. QED
    BY <1>3, <2>1 DEF StreamHeaders, Unplugged, Streams, Typed, Asked
<1>4. CASE StreamBody
  <2>1. stream' \in Streams
    <3>1. stream.bytes + 1 \in 0..MaxLen /\ stream.left - 1 \in 0..MaxLen
      BY <1>4, PipelineAssumption DEF StreamBody, Streams, Typed
    <3>2. QED
      BY <1>4, <3>1 DEF StreamBody, Streams, StreamStates
  <2>2. lms.track \in Tracks
    BY <1>4 DEF StreamBody, Typed, Asked
  <2>3. sbuf' \in Seq(Tracks) /\ Len(sbuf') = Len(sbuf) + 1
    BY <1>4, <2>2 DEF StreamBody
  <2>4. Len(sbuf') <= StreamSize
    BY <1>4, <2>3, PipelineAssumption DEF StreamBody, Polled, Typed
  <2>5. QED
    BY <1>4, <2>1, <2>3, <2>4 DEF StreamBody, Streams, Typed, Asked
<1>5. CASE StreamEnd \/ StreamMeta
  <2>1. stream' \in Streams
    BY <1>5 DEF StreamEnd, StreamMeta, Unplugged, Streams, StreamStates, Ended
  <2>2. QED
    BY <1>5, <2>1 DEF StreamEnd, StreamMeta, Unplugged, Streams, Typed, Asked
<1>6. QED
  BY <1>1, <1>2, <1>3, <1>4, <1>5 DEF StreamThread

(* What the codec moves: n chunks, n frames, as many as there is room for. *)
LEMMA Moved ==
  ASSUME TypeInv, NEW n \in (IF LesserOf(Len(sbuf), OutSize - Len(out)) > 0 THEN 1 ELSE 0)
                            ..LesserOf(Len(sbuf), OutSize - Len(out))
  PROVE  /\ n \in 0..Len(sbuf) /\ Len(out) + n <= OutSize
         /\ SubSeq(sbuf, 1, n) \in Seq(Tracks) /\ Len(SubSeq(sbuf, 1, n)) = n
         /\ \A i \in 1..n : SubSeq(sbuf, 1, n)[i] = sbuf[i]
         /\ out \o SubSeq(sbuf, 1, n) \in Seq(Tracks)
         /\ Len(out \o SubSeq(sbuf, 1, n)) = Len(out) + n
         /\ \A i \in 1..Len(out) : (out \o SubSeq(sbuf, 1, n))[i] = out[i]
         /\ \A i \in Len(out) + 1..Len(out) + n :
              (out \o SubSeq(sbuf, 1, n))[i] = sbuf[i - Len(out)]
         /\ Dropped(sbuf, n) \in Seq(Tracks) /\ Len(Dropped(sbuf, n)) = Len(sbuf) - n
         /\ \A i \in 1..Len(sbuf) - n : Dropped(sbuf, n)[i] = sbuf[i + n]
<1>1. /\ sbuf \in Seq(Tracks) /\ out \in Seq(Tracks)
      /\ Len(sbuf) \in Nat /\ Len(out) \in Nat /\ Len(out) <= OutSize
  BY DEF TypeInv, TypeOK
<1>2. n \in 0..Len(sbuf) /\ Len(out) + n <= OutSize
  BY <1>1, PipelineAssumption DEF LesserOf
<1>3. /\ SubSeq(sbuf, 1, n) \in Seq(Tracks) /\ Len(SubSeq(sbuf, 1, n)) = n
      /\ \A i \in 1..n : SubSeq(sbuf, 1, n)[i] = sbuf[i]
      /\ Dropped(sbuf, n) \in Seq(Tracks) /\ Len(Dropped(sbuf, n)) = Len(sbuf) - n
      /\ \A i \in 1..Len(sbuf) - n : Dropped(sbuf, n)[i] = sbuf[i + n]
  BY <1>1, <1>2, FrontAndRest
<1> DEFINE moved == SubSeq(sbuf, 1, n)
<1> HIDE DEF moved
<1>4. /\ out \o moved \in Seq(Tracks)
      /\ Len(out \o moved) = Len(out) + n
      /\ \A i \in 1..Len(out) + n : (out \o moved)[i] = IF i <= Len(out) THEN out[i]
                                                          ELSE moved[i - Len(out)]
  <2>1. moved \in Seq(Tracks) /\ Len(moved) = n
    BY <1>3 DEF moved
  <2>2. QED
    BY <1>1, <2>1, ConcatProperties
<1>5. \A i \in Len(out) + 1..Len(out) + n : (out \o moved)[i] = sbuf[i - Len(out)]
  BY <1>1, <1>2, <1>3, <1>4 DEF moved
<1>6. QED
  BY <1>1, <1>2, <1>3, <1>4, <1>5 DEF moved

(* The codec moves no more than outputbuf has room for, and marks its end. *)
LEMMA DecodeTyped == TypeInv /\ DecodeThread => TypeInv'
<1> SUFFICES ASSUME TypeInv, DecodeThread PROVE TypeInv'
  OBVIOUS
<1>1. CASE DecodeFrames
  <2>1. PICK n \in (IF LesserOf(Len(sbuf), OutSize - Len(out)) > 0 THEN 1 ELSE 0)
                  ..LesserOf(Len(sbuf), OutSize - Len(out)) :
          /\ out' = out \o SubSeq(sbuf, 1, n)
          /\ sbuf' = Dropped(sbuf, n)
          /\ hist' = [hist EXCEPT !.frames = @ + n]
    BY <1>1 DEF DecodeFrames
  <2>2. /\ n \in Nat /\ Len(out) \in Nat /\ Len(sbuf) \in Nat
        /\ out' \in Seq(Tracks) /\ Len(out') = Len(out) + n /\ Len(out') <= OutSize
        /\ sbuf' \in Seq(Tracks) /\ Len(sbuf') = Len(sbuf) - n
    BY <2>1, Moved DEF TypeInv, TypeOK
  <2>3. hist' \in Histories
    <3>1. hist \in Histories /\ hist' = [hist EXCEPT !.frames = @ + n] /\ n \in Nat
      BY <2>1, <2>2 DEF TypeInv, TypeOK
    <3>2. QED
      BY <3>1 DEF Histories
  <2>4. decode' \in Decoders /\ decode'.track = decode.track /\ decode'.state = decode.state
    BY <1>1 DEF DecodeFrames, Rested, Decoders, TypeInv, TypeOK
  <2>5. decode.track \in Tracks
    BY <1>1 DEF DecodeFrames, Decoding, TypeInv, Typed, Asked
  <2>6. \/ output' = output
        \/ output' = [output EXCEPT !.start = Len(out), !.next = decode.track]
    BY <1>1 DEF DecodeFrames
  <2>7. /\ output' \in Outputs
        /\ output'.started = output.started /\ output'.mark = output.mark
        /\ output'.start # None => output'.next \in Tracks
        /\ slim.pc # "qOutput" => output'.start <= Len(out')
    <3>1. CASE output' = output
      <4>1. output.start \in Int /\ output \in Outputs
        BY PipelineAssumption DEF TypeInv, TypeOK, Outputs, None
      <4>2. QED
        BY <2>2, <3>1, <4>1 DEF TypeInv, TypeOK, Typed
    <3>2. CASE output' = [output EXCEPT !.start = Len(out), !.next = decode.track]
      <4>1. Len(out) \in None..OutSize /\ decode.track \in 0..NTracks /\ output \in Outputs
        BY <2>2, <2>5, PipelineAssumption DEF TypeInv, TypeOK, Decoders, None
      <4>2. output' \in Outputs
        BY <3>2, <4>1 DEF Outputs
      <4>3. output'.start = Len(out) /\ output'.next = decode.track
            /\ output'.started = output.started /\ output'.mark = output.mark
        BY <3>2, <4>1 DEF Outputs
      <4>4. QED
        BY <2>2, <2>5, <4>2, <4>3
    <3>3. QED
      BY <2>6, <3>1, <3>2
  <2>8. UNCHANGED <<stream, slim, lms>>
    BY <1>1 DEF DecodeFrames
  <2>9. QED
    BY <2>2, <2>3, <2>4, <2>7, <2>8, PipelineAssumption DEF TypeInv, TypeOK, Typed, Asked
<1>2. CASE DecodeLook \/ DecodeSpace \/ DecodeRest \/ DecodeComplete \/ DecodeError
  <2>1. decode \in Decoders
    BY DEF TypeInv, TypeOK
  <2>2. /\ decode' \in Decoders /\ decode'.track = decode.track
        /\ decode'.state # "STOPPED" => decode.state # "STOPPED"
    <3>1. CASE DecodeLook \/ DecodeSpace
      <4> DEFINE some == (sbuf # << >> \/ stream.state \in Ended)
                 free == (Len(out) < OutSize)
      <4>1. some \in BOOLEAN /\ free \in BOOLEAN
        OBVIOUS
      <4>2. \/ decode' = [decode EXCEPT !.pc = "space", !.ready = some]
            \/ decode' = [decode EXCEPT !.pc = "run", !.room = free]
        BY <3>1, Zenon DEF DecodeLook, DecodeSpace
      <4> HIDE DEF some, free
      <4>3. QED
        BY <2>1, <4>1, <4>2 DEF Decoders
    <3>2. CASE DecodeRest
      BY <2>1, <3>2 DEF DecodeRest, Rested, Decoders
    <3>3. CASE DecodeComplete \/ DecodeError
      BY <2>1, <3>3 DEF DecodeComplete, DecodeError, Rested, Decoding, Decoders
    <3>4. QED
      BY <1>2, <3>1, <3>2, <3>3
  <2>3. QED
    BY <1>2, <2>2 DEF DecodeLook, DecodeSpace, DecodeRest, DecodeComplete, DecodeError,
                      TypeInv, TypeOK, Typed, Asked
<1>3. QED
  BY <1>1, <1>2 DEF DecodeThread

(* A block is either cut at the start of a track, which is then met, or    *)
(* ends before it.                                                         *)
LEMMA BlockTaken ==
  ASSUME TypeInv, OutputFrames
  PROVE  \E taken \in 0..Len(out) :
           /\ out' = Dropped(out, taken) /\ output'.block = SubSeq(out, 1, taken)
           /\ \/ /\ output.start # None /\ taken = output.start
                 /\ output'.start = None /\ output'.started /\ output'.mark = output.next
                 /\ hist' = [hist EXCEPT !.begun = @ \cup {output.next}]
              \/ /\ output.start = None \/ taken <= output.start
                 /\ output'.start = IF output.start = None THEN None ELSE output.start - taken
                 /\ output'.started = output.started /\ output'.mark = output.mark
                 /\ hist' = hist
           /\ output' \in Outputs
           /\ output'.next = output.next /\ output'.startTime = output.startTime
           /\ output.state = "STOPPED" => output'.state = "STOPPED"
<1> DEFINE most == LesserOf(Len(out), Block)
           hit == (output.start # None /\ output.start < most)
           taken == IF hit THEN output.start ELSE most
           begins == (output.state = "BUFFER" /\ Len(out) > StartFrames)
<1>1. /\ out \in Seq(Tracks) /\ Len(out) \in Nat /\ Len(out) <= OutSize
      /\ output \in Outputs /\ output.start \in None..OutSize
  BY DEF TypeInv, TypeOK, Outputs
<1>2. most \in 0..Len(out)
  BY <1>1, PipelineAssumption DEF LesserOf
<1>3. /\ out' = Dropped(out, taken)
      /\ output' = [output EXCEPT
           !.pc = "send",
           !.state = IF begins THEN "RUNNING" ELSE @,
           !.block = SubSeq(out, 1, taken),
           !.start = IF hit \/ @ = None THEN None ELSE @ - taken,
           !.started = hit \/ @,
           !.detect = hit \/ @,
           !.mark = IF hit THEN output.next ELSE @]
      /\ hist' = IF hit THEN [hist EXCEPT !.begun = @ \cup {output.next}] ELSE hist
  BY DEF OutputFrames
<1> HIDE DEF most, begins
<1>4. hit \in BOOLEAN /\ (begins => output.state # "STOPPED")
  BY DEF begins
<1>5. taken \in 0..Len(out)
  BY <1>1, <1>2, PipelineAssumption DEF None
<1>6. SubSeq(out, 1, taken) \in Seq(Tracks)
  BY <1>1, <1>5, FrontAndRest
<1>7. CASE hit
  <2>1. /\ output'.start = None /\ output'.started /\ output'.mark = output.next
        /\ output'.block = SubSeq(out, 1, taken)
        /\ output'.next = output.next /\ output'.startTime = output.startTime
        /\ output.state = "STOPPED" => output'.state = "STOPPED"
    BY <1>1, <1>3, <1>4, <1>7 DEF Outputs
  <2>2. output' \in Outputs
    <3> DEFINE state == IF begins THEN "RUNNING" ELSE output.state
               block == SubSeq(out, 1, taken)
    <3>1. output' = [output EXCEPT !.pc = "send", !.state = state, !.block = block,
                       !.start = None, !.started = TRUE, !.detect = TRUE,
                       !.mark = output.next]
      BY <1>1, <1>3, <1>7 DEF Outputs
    <3>2. /\ state \in {"STOPPED", "BUFFER", "RUNNING"} /\ block \in Seq(Tracks)
          /\ None \in None..OutSize
      BY <1>1, <1>6, PipelineAssumption DEF Outputs, None
    <3> HIDE DEF state, block, hit, taken
    <3>3. QED
      BY <1>1, <3>1, <3>2 DEF Outputs
  <2>3. QED
    BY <1>3, <1>5, <1>7, <2>1, <2>2
<1>8. CASE ~hit
  <2>1. output.start = None \/ (taken <= output.start /\ output.start - taken \in None..OutSize)
    BY <1>1, <1>2, <1>5, <1>8, PipelineAssumption DEF None
  <2>2. /\ output'.start = IF output.start = None THEN None ELSE output.start - taken
        /\ output'.started = output.started /\ output'.mark = output.mark
        /\ output'.block = SubSeq(out, 1, taken)
        /\ output'.next = output.next /\ output'.startTime = output.startTime
        /\ output.state = "STOPPED" => output'.state = "STOPPED"
    BY <1>1, <1>3, <1>4, <1>8 DEF Outputs
  <2>3. output' \in Outputs
    <3> DEFINE state == IF begins THEN "RUNNING" ELSE output.state
               block == SubSeq(out, 1, taken)
               start == IF output.start = None THEN None ELSE output.start - taken
    <3>1. output' = [output EXCEPT !.pc = "send", !.state = state, !.block = block,
                       !.start = start]
      BY <1>1, <1>3, <1>8 DEF Outputs
    <3>2. /\ state \in {"STOPPED", "BUFFER", "RUNNING"} /\ block \in Seq(Tracks)
          /\ start \in None..OutSize
      BY <1>1, <1>6, <2>1, PipelineAssumption DEF Outputs, None
    <3> HIDE DEF state, block, start, hit, taken
    <3>3. QED
      BY <1>1, <3>1, <3>2 DEF Outputs
  <2>4. QED
    BY <1>3, <1>5, <1>8, <2>1, <2>2, <2>3
<1>9. QED
  BY <1>7, <1>8

(* The output thread takes from the front and moves the mark with it. *)
LEMMA OutputTyped == TypeInv /\ OutputThread => TypeInv'
<1> SUFFICES ASSUME TypeInv, OutputThread PROVE TypeInv'
  OBVIOUS
<1>1. CASE OutputLook
  <2>1. output' \in Outputs
    BY <1>1 DEF OutputLook, Outputs, TypeInv, TypeOK
  <2>2. QED
    BY <1>1, <2>1 DEF OutputLook, Outputs, TypeInv, TypeOK, Typed, Asked
<1>2. CASE OutputFrames
  <2>1. PICK taken \in 0..Len(out) :
          /\ out' = Dropped(out, taken)
          /\ \/ /\ output.start # None /\ taken = output.start
                /\ output'.start = None /\ output'.started /\ output'.mark = output.next
                /\ hist' = [hist EXCEPT !.begun = @ \cup {output.next}]
             \/ /\ output.start = None \/ taken <= output.start
                /\ output'.start = IF output.start = None THEN None ELSE output.start - taken
                /\ output'.started = output.started /\ output'.mark = output.mark
                /\ hist' = hist
          /\ output' \in Outputs /\ output'.next = output.next
    BY <1>2, BlockTaken
  <2>2. /\ Len(out) \in Nat /\ out' \in Seq(Tracks) /\ Len(out') = Len(out) - taken
    BY <2>1, FrontAndRest DEF TypeInv, TypeOK
  <2>3. hist' \in Histories
    <3>1. hist \in Histories /\ (output.start # None => output.next \in Tracks)
      BY DEF TypeInv, TypeOK, Typed
    <3>2. QED
      BY <2>1, <3>1 DEF Histories
  <2>4. output.start \in Int /\ Len(out') \in Nat /\ Len(out') <= OutSize
    BY <2>2, PipelineAssumption DEF TypeInv, TypeOK, Outputs, None
  <2>5. slim.pc # "qOutput" => output'.start <= Len(out')
    BY <2>1, <2>2, <2>4 DEF TypeInv, TypeOK, None
  <2>6. /\ output'.start # None => output'.next \in Tracks
        /\ output'.started => output'.mark \in Tracks
    BY <2>1 DEF TypeInv, Typed
  <2>7. UNCHANGED <<stream, sbuf, decode, slim, lms>>
    BY <1>2 DEF OutputFrames
  <2>8. QED
    BY <2>1, <2>2, <2>3, <2>4, <2>5, <2>6, <2>7 DEF TypeInv, TypeOK, Typed, Asked
<1>3. CASE OutputSend
  <2>1. output \in Outputs /\ hist \in Histories
    BY DEF TypeInv, TypeOK
  <2>2. /\ output' \in Outputs /\ output'.start = output.start /\ output'.next = output.next
        /\ output'.started = output.started /\ output'.mark = output.mark
    <3> DEFINE kept == (output.detect /\ output.block = << >>)
               time == IF output.detect /\ output.block # << >>
                         THEN output.mark ELSE output.startTime
    <3>1. kept \in BOOLEAN /\ time \in 0..NTracks /\ << >> \in Seq(Tracks)
      BY <2>1 DEF Outputs
    <3>2. output' = [output EXCEPT !.pc = "look", !.block = << >>, !.detect = kept,
                       !.startTime = time]
      BY <1>3 DEF OutputSend
    <3> HIDE DEF kept, time
    <3>3. QED
      BY <2>1, <3>1, <3>2 DEF Outputs
  <2>3. hist' \in Histories
    <3>1. CASE output.block = << >>
      BY <1>3, <2>1, <3>1 DEF OutputSend
    <3>2. CASE output.block # << >>
      <4>1. /\ output.block[1] \in Tracks
            /\ output.block[Len(output.block)] \in Tracks
        BY <2>1, <3>2 DEF Outputs
      <4>2. <<output.block[1], output.block[Len(output.block)]>> \in Seq(Tracks)
        BY <4>1
      <4>3. QED
        BY <1>3, <2>1, <3>2, <4>2 DEF OutputSend, Histories
    <3>3. QED
      BY <3>1, <3>2
  <2>4. QED
    BY <1>3, <2>2, <2>3 DEF OutputSend, TypeInv, TypeOK, Typed, Asked
<1>4. QED
  BY <1>1, <1>2, <1>3 DEF OutputThread

(* The slimproto thread at the orders of LMS ... *)
LEMMA OrderTyped ==
  ASSUME TypeInv,
         Requests \/ Stops \/ Pause \/ Unpause \/ Cont
  PROVE  TypeInv'
<1> USE DEF TypeInv, TypeOK
<1>0. lms.orders > 0 => lms.orders - 1 \in 0..MaxOrders
  BY PipelineAssumption DEF Servers
<1>1. ASSUME NEW len \in 1..MaxLen, NEW auto \in Autostarts, Strm_s(len, auto)
      PROVE  TypeInv'
  <2>1. lms.track + 1 \in Tracks /\ lms.track + 1 \in 0..NTracks
    BY <1>1, PipelineAssumption DEF Strm_s, Servers, Tracks
  <2>2. len \in 0..MaxLen /\ auto \in 0..3
    BY PipelineAssumption
  <2>3. /\ lms' \in Servers /\ lms'.track = lms.track + 1
        /\ decode' \in Decoders /\ decode'.track = lms.track + 1
        /\ slim' \in Slims /\ slim'.pc = "connect"
    BY <1>1, <2>1, <2>2 DEF Strm_s, CodecOpened, Servers, Decoders, Slims, SlimSteps
  <2>4. hist' \in Histories
    BY <1>1 DEF Strm_s, Histories
  <2>5. slim.pc # "qOutput" /\ UNCHANGED <<stream, sbuf, out, output>>
    BY <1>1 DEF Strm_s, Idle
  <2>6. QED
    BY <2>1, <2>3, <2>4, <2>5 DEF Typed, Asked
<1>2. ASSUME NEW name, DecodeFlush(name) PROVE TypeInv'
  <2>1. lms' \in Servers /\ lms'.track = lms.track
    BY <1>2, <1>0 DEF DecodeFlush, Order, Spent, Servers
  <2>2. decode' \in Decoders /\ decode'.track = decode.track /\ decode'.state = "STOPPED"
    BY <1>2 DEF DecodeFlush, Decoders
  <2>3. slim' \in Slims /\ slim'.pc \in {"qBuffer", "fOutput"} /\ slim.pc = "idle"
    BY <1>2 DEF DecodeFlush, Order, Idle, Goto, Slims, SlimSteps
  <2>4. QED
    BY <1>2, <2>1, <2>2, <2>3 DEF DecodeFlush, Typed, Asked
<1>3. CASE Pause \/ Unpause
  <2>1. lms' \in Servers /\ lms'.track = lms.track
    BY <1>3, <1>0 DEF Pause, Unpause, Order, Spent, Servers
  <2>2. /\ output' \in Outputs /\ output'.start = output.start /\ output'.next = output.next
        /\ output'.started = output.started /\ output'.mark = output.mark
    BY <1>3 DEF Pause, Unpause, Outputs
  <2>3. slim' \in Slims /\ slim'.pc = slim.pc
    BY <1>3 DEF Pause, Unpause, Slims
  <2>4. QED
    BY <1>3, <2>1, <2>2, <2>3 DEF Pause, Unpause, Typed, Asked
<1>4. CASE Cont
  <2>1. slim' \in Slims /\ slim'.pc = slim.pc
    <3>1. slim.autostart - 2 \in 0..3
      BY <1>4 DEF Cont, Slims
    <3>2. QED
      BY <1>4, <3>1 DEF Cont, Slims
  <2>2. /\ stream' \in Streams /\ stream'.polled = stream.polled /\ stream'.open = stream.open
        /\ stream'.bytes = stream.bytes /\ stream'.left = stream.left
    BY <1>4 DEF Cont, Streams, StreamStates
  <2>3. QED
    BY <1>4, <2>1, <2>2 DEF Cont, Typed, Asked
<1>5. QED
  BY <1>1, <1>2, <1>3, <1>4 DEF Requests, Stops

(* ... and what follows from them, ... *)
LEMMA ObeyTyped ==
  ASSUME TypeInv,
         \/ StreamUnreachable \/ StreamFlush \/ StreamOpen
         \/ OutputFlushBuffer \/ OutputFlush \/ OutputFlushStreaming
         \/ StreamDisconnect \/ StreambufFlush
  PROVE  TypeInv'
<1> USE DEF TypeInv, TypeOK
<1>1. CASE StreamUnreachable
  <2>1. /\ stream' \in Streams /\ stream'.polled = stream.polled /\ stream'.open = stream.open
        /\ stream'.bytes = stream.bytes /\ stream'.left = stream.left
    BY <1>1 DEF StreamUnreachable, Streams, StreamStates, Ended
  <2>2. slim' \in Slims /\ slim'.pc = "idle" /\ slim.pc = "connect"
    BY <1>1 DEF StreamUnreachable, StreamStarted, Slims, SlimSteps
  <2>3. QED
    BY <1>1, <2>1, <2>2 DEF StreamUnreachable, Typed, Asked
<1>2. CASE StreamFlush
  <2>1. slim' \in Slims /\ slim'.pc = "open" /\ slim.pc = "connect"
    BY <1>2 DEF StreamFlush, Goto, Slims, SlimSteps
  <2>2. sbuf' \in Seq(Tracks) /\ Len(sbuf') = 0
    BY <1>2 DEF StreamFlush
  <2>3. QED
    BY <1>2, <2>1, <2>2, PipelineAssumption DEF StreamFlush, Typed, Asked
<1>3. CASE StreamOpen
  <2>1. slim' \in Slims /\ slim'.pc = "idle" /\ slim.pc = "open"
    BY <1>3 DEF StreamOpen, StreamStarted, Slims, SlimSteps
  <2>2. lms.len \in 0..MaxLen /\ (slim.autostart >= 2) \in BOOLEAN /\ 0 \in 0..MaxLen
    BY PipelineAssumption DEF Servers
  <2>3. /\ stream' \in Streams /\ stream'.polled = stream.polled
        /\ stream'.bytes = 0 /\ stream'.left = lms.len
    <3> DEFINE waits == (slim.autostart >= 2)
    <3>1. stream' = [stream EXCEPT !.state = "HEADERS", !.ok = TRUE, !.open = TRUE,
                       !.wait = waits, !.bytes = 0, !.left = lms.len]
      BY <1>3 DEF StreamOpen
    <3> HIDE DEF waits
    <3>2. waits \in BOOLEAN
      BY <2>2 DEF waits
    <3>3. QED
      BY <2>2, <3>1, <3>2 DEF Streams, StreamStates
  <2>4. QED
    BY <1>3, <2>1, <2>2, <2>3 DEF StreamOpen, Typed, Asked
<1>4. CASE OutputFlushBuffer
  <2>1. slim' \in Slims /\ slim'.pc = "qOutput"
    BY <1>4 DEF OutputFlushBuffer, Goto, Slims, SlimSteps
  <2>2. out' \in Seq(Tracks) /\ Len(out') = 0
    BY <1>4 DEF OutputFlushBuffer
  <2>3. QED
    BY <1>4, <2>1, <2>2, PipelineAssumption DEF OutputFlushBuffer, Typed, Asked
<1>5. CASE OutputFlush \/ OutputFlushStreaming
  <2>1. /\ output' \in Outputs /\ output'.start = None
        /\ output'.started = output.started /\ output'.mark = output.mark
    <3>1. None \in None..OutSize /\ Never \in 0..NTracks
      BY PipelineAssumption DEF None, Never
    <3>2. QED
      BY <1>5, <3>1 DEF OutputFlush, OutputFlushStreaming, Outputs
  <2>2. out' \in Seq(Tracks) /\ Len(out') \in 0..Len(out)
    <3>1. CASE out' = out
      BY <3>1
    <3>2. CASE ~(out' = out)
      <4>1. /\ OutputFlushStreaming /\ output.start # None /\ slim.pc # "qOutput"
            /\ out' = SubSeq(out, 1, output.start)
        BY <1>5, <3>2 DEF OutputFlush, OutputFlushStreaming
      <4>2. output.start \in 0..Len(out)
        BY <4>1 DEF Outputs, None
      <4>3. QED
        BY <4>1, <4>2, FrontAndRest
    <3>3. QED
      BY <3>1, <3>2
  <2>3. slim' \in Slims /\ slim'.pc \in {"qDisconnect", "fDisconnect"}
    BY <1>5 DEF OutputFlush, OutputFlushStreaming, Goto, Slims, SlimSteps
  <2>4. UNCHANGED <<stream, sbuf, decode, lms, hist>>
    BY <1>5 DEF OutputFlush, OutputFlushStreaming
  <2>5. QED
    BY <2>1, <2>2, <2>3, <2>4, PipelineAssumption DEF Typed, Asked, None
<1>6. CASE StreamDisconnect
  <2>1. /\ stream' \in Streams /\ stream'.polled = stream.polled /\ ~stream'.open
        /\ stream'.bytes = stream.bytes /\ stream'.left = stream.left
    BY <1>6 DEF StreamDisconnect, Streams, StreamStates, Ended
  <2>2. slim' \in Slims /\ slim'.pc \in {"qStream", "fStream", "idle"} /\ slim.pc # "qOutput"
    BY <1>6 DEF StreamDisconnect, Goto, Slims, SlimSteps
  <2>3. QED
    BY <1>6, <2>1, <2>2 DEF StreamDisconnect, Typed, Asked
<1>7. CASE StreambufFlush
  <2>1. slim' \in Slims /\ slim'.pc = "idle" /\ slim.pc # "qOutput"
    BY <1>7 DEF StreambufFlush, Slims, SlimSteps
  <2>2. sbuf' \in Seq(Tracks) /\ Len(sbuf') = 0
    BY <1>7 DEF StreambufFlush
  <2>3. QED
    BY <1>7, <2>1, <2>2, PipelineAssumption DEF StreambufFlush, Typed, Asked
<1>8. QED
  BY <1>1, <1>2, <1>3, <1>4, <1>5, <1>6, <1>7

(* ... and when it looks around. *)
LEMMA PassTyped ==
  ASSUME TypeInv,
         PassStream \/ PassOutput \/ PassStart \/ PassOver \/ PassNothing
  PROVE  TypeInv'
<1> USE DEF TypeInv, TypeOK
<1>1. CASE PassStream
  <2>1. /\ stream' \in Streams /\ stream'.polled = stream.polled /\ stream'.open = stream.open
        /\ stream'.bytes = stream.bytes /\ stream'.left = stream.left
    BY <1>1 DEF PassStream, Streams, StreamStates, Ended
  <2>2. slim' \in Slims /\ slim'.pc = "passOutput" /\ slim.pc = "idle"
    BY <1>1 DEF PassStream, Idle, Streams, Slims, SlimSteps
  <2>3. QED
    BY <1>1, <2>1, <2>2 DEF PassStream, Typed, Asked
<1>2. CASE PassOutput
  <2>1. slim' \in Slims /\ slim'.pc = "passDecode" /\ slim.pc = "passOutput"
    <3> DEFINE ended == \/ /\ output.state = "RUNNING" /\ ~slim.sentSTMu
                           /\ out = << >> /\ slim.snap \in Ended
                        \/ slim.sentSTMu
               time == IF output.started THEN output.startTime ELSE slim.streamStart
    <3>1. ended \in BOOLEAN /\ time \in 0..NTracks
      BY DEF Slims, Outputs
    <3>2. slim' = [slim EXCEPT !.pc = "passDecode", !.sentSTMu = ended, !.streamStart = time]
      BY <1>2 DEF PassOutput
    <3> HIDE DEF ended, time
    <3>3. QED
      BY <1>2, <3>1, <3>2 DEF PassOutput, Slims, SlimSteps
  <2>2. /\ output' \in Outputs /\ output'.start = output.start /\ output'.next = output.next
        /\ ~output'.started
    BY <1>2 DEF PassOutput, Outputs
  <2>3. lms' \in Servers /\ lms'.track = lms.track
    <3>1. output.started => Append(lms.announced, output.mark) \in Seq(Tracks)
      BY DEF Typed, Servers
    <3>2. QED
      BY <1>2, <3>1 DEF PassOutput, Servers
  <2>4. QED
    BY <1>2, <2>1, <2>2, <2>3 DEF PassOutput, Typed, Asked
<1>3. CASE PassStart
  <2>1. /\ decode' \in Decoders /\ decode'.track = decode.track
        /\ decode.state # "STOPPED"
    BY <1>3 DEF PassStart, Starting, Decoders
  <2>2. slim' \in Slims /\ slim'.pc = "idle" /\ slim.pc = "passDecode"
    <3> DEFINE sent == (slim.autostart = 0 \/ slim.sentSTMl)
    <3>1. sent \in BOOLEAN
      OBVIOUS
    <3>2. slim' = [slim EXCEPT !.pc = "idle", !.sentSTMl = sent]
      BY <1>3 DEF PassStart
    <3> HIDE DEF sent
    <3>3. QED
      BY <1>3, <3>1, <3>2 DEF PassStart, Slims, SlimSteps
  <2>3. lms' \in Servers /\ lms'.track = lms.track
    <3> DEFINE due == (slim.autostart = 0 \/ lms.unpause)
    <3>1. due \in BOOLEAN
      OBVIOUS
    <3>2. lms' = [lms EXCEPT !.unpause = due]
      BY <1>3 DEF PassStart
    <3> HIDE DEF due
    <3>3. QED
      BY <3>1, <3>2 DEF Servers
  <2>4. /\ output' \in Outputs /\ output'.start = output.start /\ output'.next = output.next
        /\ output'.started = output.started /\ output'.mark = output.mark
    BY <1>3 DEF PassStart, Outputs
  <2>5. QED
    BY <1>3, <2>1, <2>2, <2>3, <2>4 DEF PassStart, Typed, Asked
<1>4. CASE PassOver
  <2>1. decode' \in Decoders /\ decode'.track = decode.track /\ decode'.state = "STOPPED"
    BY <1>4 DEF PassOver, Decoders
  <2>2. lms' \in Servers /\ lms'.track = lms.track
    BY <1>4 DEF PassOver, Servers
  <2>3. /\ slim' \in Slims /\ slim'.pc \in {"idle", "passDisconnect"}
        /\ slim.pc = "passDecode"
    BY <1>4 DEF PassOver, Goto, Slims, SlimSteps
  <2>4. QED
    BY <1>4, <2>1, <2>2, <2>3 DEF PassOver, Typed, Asked
<1>5. CASE PassNothing
  <2>1. slim' \in Slims /\ slim'.pc = "idle" /\ slim.pc = "passDecode"
    BY <1>5 DEF PassNothing, Goto, Slims, SlimSteps
  <2>2. QED
    BY <1>5, <2>1 DEF PassNothing, Typed, Asked
<1>6. QED
  BY <1>1, <1>2, <1>3, <1>4, <1>5

(* Every step of every thread keeps to the types. *)
LEMMA TypedStep == TypeInv /\ [Next]_vars => TypeInv'
<1> SUFFICES ASSUME TypeInv, [Next]_vars PROVE TypeInv'
  OBVIOUS
<1>1. CASE UNCHANGED vars
  BY <1>1 DEF vars, TypeInv, TypeOK, Typed, Asked
<1>2. CASE StreamThread \/ DecodeThread \/ OutputThread
  BY <1>2, StreamTyped, DecodeTyped, OutputTyped
<1>3. CASE SlimThread \/ PassStream
  BY <1>3, ObeyTyped, PassTyped DEF SlimThread
<1>4. CASE Requests \/ Stops \/ Pause \/ Unpause \/ Cont
  BY <1>4, OrderTyped
<1>5. QED
  BY <1>1, <1>2, <1>3, <1>4 DEF Next

(* Neither buffer is ever overfull and every number that goes from thread  *)
(* to thread is that of a track.                                           *)
THEOREM PipelineTyping == Spec => []TypeOK
<1>1. TypeInv => TypeOK
  BY DEF TypeInv
<1>2. QED
  BY <1>1, InitTyped, TypedStep, PTL DEF Spec

-----------------------------------------------------------------------------
(* Obeying strm 'q' empties the player for good. *)
LEMMA InitFlushed == Init => FlushInv
BY DEF Init, FlushInv, Quitting, Flushing, Passing, None

(* Nothing comes back from the threads, at whatever point they were. *)
LEMMA ThreadsFlushed ==
  ASSUME TypeInv, FlushInv, StreamThread \/ DecodeThread \/ OutputThread
  PROVE  FlushInv'
<1> USE DEF FlushInv, Quitting, Flushing, Passing, Emptied
<1>1. stream \in Streams /\ decode \in Decoders /\ output \in Outputs
  BY DEF TypeInv, TypeOK
<1>2. CASE StreamThread
  <2>1. /\ UNCHANGED <<decode, out, output, slim>>
        /\ ~stream.open => ~stream'.open /\ stream'.state = stream.state /\ sbuf' = sbuf
    BY <1>1, <1>2 DEF StreamThread, StreamLook, StreamClosed, StreamHeaders, StreamBody,
                      StreamEnd, StreamMeta, Streams
  <2>2. QED
    BY <2>1
<1>3. CASE DecodeThread
  <2>1. /\ UNCHANGED <<stream, slim>>
        /\ decode.state = "STOPPED" =>
             decode'.state = "STOPPED" /\ UNCHANGED <<sbuf, out, output>>
    BY <1>1, <1>3 DEF DecodeThread, DecodeLook, DecodeSpace, DecodeRest, DecodeComplete,
                      DecodeFrames, DecodeError, Decoding, Rested, Decoders
  <2>2. QED
    BY <2>1
<1>4. CASE OutputLook \/ OutputSend
  BY <1>1, <1>4 DEF OutputLook, OutputSend, Outputs
<1>5. CASE OutputFrames
  <2>1. /\ out = << >> => out' = << >>
        /\ output.start = None => output'.start = None
        /\ output.state = "STOPPED" => output'.state = "STOPPED"
    <3>1. PICK taken \in 0..Len(out) :
            /\ out' = Dropped(out, taken)
            /\ output.start = None => output'.start = None
            /\ output.state = "STOPPED" => output'.state = "STOPPED"
      BY <1>5, BlockTaken
    <3>2. out' \in Seq(Tracks) /\ Len(out') = Len(out) - taken
      BY <3>1, FrontAndRest DEF TypeInv, TypeOK
    <3>3. QED
      BY <3>1, <3>2
  <2>2. UNCHANGED <<stream, sbuf, decode, slim>>
    BY <1>5 DEF OutputFrames
  <2>3. QED
    BY <2>1, <2>2
<1>6. QED
  BY <1>2, <1>3, <1>4, <1>5 DEF OutputThread

(* An order of LMS is the only thing that ends the silence after 'q'. *)
LEMMA OrdersFlushed ==
  ASSUME TypeInv, FlushInv, Requests \/ Stops \/ Pause \/ Unpause \/ Cont
  PROVE  FlushInv'
<1> USE DEF FlushInv, Quitting, Flushing, Passing, Emptied
<1>1. stream \in Streams /\ decode \in Decoders /\ output \in Outputs /\ slim \in Slims
  BY DEF TypeInv, TypeOK
<1>2. CASE Requests
  <2>1. slim'.pc = "connect"
    BY <1>1, <1>2 DEF Requests, Strm_s, Slims
  <2>2. QED
    BY <2>1
<1>3. CASE Stops
  <2>1. slim'.pc \in {"qBuffer", "fOutput"} /\ decode'.state = "STOPPED"
    BY <1>1, <1>3 DEF Stops, DecodeFlush, Goto, Slims, Decoders
  <2>2. QED
    BY <2>1
<1>4. CASE Pause \/ Unpause
  <2>1. slim.pc = "idle" /\ slim'.pc = "idle" /\ slim'.last # "q"
    BY <1>1, <1>4 DEF Pause, Unpause, Order, Idle, Slims
  <2>2. QED
    BY <2>1
<1>5. CASE Cont
  <2>1. slim.pc = "idle" /\ slim'.pc = "idle" /\ slim'.last = slim.last
    BY <1>1, <1>5 DEF Cont, Idle, Slims
  <2>2. stream.state # "STOPPED"
    BY <1>5 DEF Cont
  <2>3. QED
    BY <2>1, <2>2
<1>6. QED
  BY <1>2, <1>3, <1>4, <1>5

(* Each step of a flush hands over to the next what it has emptied. *)
LEMMA SlimFlushed ==
  ASSUME TypeInv, FlushInv, SlimThread \/ PassStream
  PROVE  FlushInv'
<1> USE DEF FlushInv, Quitting, Flushing, Passing, Emptied
<1>1. stream \in Streams /\ decode \in Decoders /\ output \in Outputs /\ slim \in Slims
  BY DEF TypeInv, TypeOK
<1>2. CASE StreamUnreachable \/ StreamFlush \/ StreamOpen
  <2>1. /\ slim.pc \in {"connect", "open"}
        /\ slim'.pc = "open" \/ (slim'.pc = "idle" /\ slim'.last = "s")
    BY <1>1, <1>2 DEF StreamUnreachable, StreamFlush, StreamOpen, StreamStarted, Goto, Slims
  <2>2. QED
    BY <2>1
<1>3. CASE OutputFlushBuffer
  <2>1. slim.pc = "qBuffer" /\ slim'.pc = "qOutput" /\ out' = << >> /\ decode' = decode
    BY <1>1, <1>3 DEF OutputFlushBuffer, Goto, Slims
  <2>2. QED
    BY <2>1
<1>4. CASE OutputFlush \/ OutputFlushStreaming
  <2>1. /\ decode' = decode
        /\ \/ /\ slim.pc = "qOutput" /\ slim'.pc = "qDisconnect" /\ out' = out
              /\ output'.start = None /\ output'.state = "STOPPED"
           \/ slim.pc = "fOutput" /\ slim'.pc = "fDisconnect"
    <3>1. CASE OutputFlush
      BY <1>1, <3>1 DEF OutputFlush, Goto, Slims, Outputs
    <3>2. CASE OutputFlushStreaming
      BY <1>1, <3>2 DEF OutputFlushStreaming, Goto, Slims
    <3>3. QED
      BY <1>4, <3>1, <3>2
  <2>2. QED
    BY <2>1
<1>5. CASE StreamDisconnect
  <2>1. /\ UNCHANGED <<sbuf, decode, out, output>>
        /\ ~stream'.open /\ stream'.state = "STOPPED" /\ slim'.last = slim.last
        /\ \/ slim.pc = "qDisconnect" /\ slim'.pc = "qStream"
           \/ slim.pc = "fDisconnect" /\ slim'.pc = "fStream"
           \/ slim.pc = "passDisconnect" /\ slim'.pc = "idle"
    BY <1>1, <1>5 DEF StreamDisconnect, Goto, Slims, Streams
  <2>2. QED
    BY <2>1
<1>6. CASE StreambufFlush
  <2>1. /\ UNCHANGED <<stream, decode, out, output>> /\ sbuf' = << >>
        /\ slim'.pc = "idle"
        /\ slim.pc = "qStream" \/ (slim.pc = "fStream" /\ slim'.last # "q")
    BY <1>1, <1>6 DEF StreambufFlush, Slims
  <2>2. QED
    BY <2>1
<1>7. CASE PassStream
  <2>1. /\ UNCHANGED <<sbuf, decode, out, output>>
        /\ stream'.open = stream.open
        /\ stream.state = "STOPPED" => stream'.state = "STOPPED"
        /\ slim.pc = "idle" /\ slim'.pc = "passOutput" /\ slim'.last = slim.last
    BY <1>1, <1>7 DEF PassStream, Idle, Slims, Streams
  <2>2. QED
    BY <2>1
<1>8. CASE PassOutput
  <2>1. /\ UNCHANGED <<stream, sbuf, decode, out>>
        /\ output'.start = output.start /\ output'.state = output.state
        /\ slim.pc = "passOutput" /\ slim'.pc = "passDecode" /\ slim'.last = slim.last
    BY <1>1, <1>8 DEF PassOutput, Slims, Outputs
  <2>2. QED
    BY <2>1
<1>9. CASE PassStart \/ PassOver \/ PassNothing
  <2>1. /\ UNCHANGED <<stream, sbuf, out>>
        /\ slim.pc = "passDecode" /\ slim'.pc \in {"idle", "passDisconnect"}
        /\ slim'.last = slim.last
        /\ slim'.pc = "passDisconnect" => decode'.state = "STOPPED"
        /\ UNCHANGED <<decode, output>> \/ decode.state # "STOPPED"
    <3>1. CASE PassStart
      BY <1>1, <3>1 DEF PassStart, Starting, Slims
    <3>2. CASE PassOver
      BY <1>1, <3>2 DEF PassOver, Over, Goto, Slims, Decoders
    <3>3. CASE PassNothing
      BY <1>1, <3>3 DEF PassNothing, Goto, Slims
    <3>4. QED
      BY <1>9, <3>1, <3>2, <3>3
  <2>2. QED
    BY <2>1
<1>10. QED
  BY <1>2, <1>3, <1>4, <1>5, <1>6, <1>7, <1>8, <1>9 DEF SlimThread

(* So no step undoes what a flush has done. *)
LEMMA FlushedStep == TypeInv /\ FlushInv /\ [Next]_vars => FlushInv'
<1> SUFFICES ASSUME TypeInv, FlushInv, [Next]_vars PROVE FlushInv'
  OBVIOUS
<1>1. CASE UNCHANGED vars
  BY <1>1 DEF vars, FlushInv, Emptied
<1>2. QED
  BY <1>1, ThreadsFlushed, OrdersFlushed, SlimFlushed DEF Next

(* However strm 'q' finds the threads at work on the track, once it is     *)
(* obeyed nothing of that track is left, and nothing comes back.           *)
THEOREM PipelineStops == Spec => []StoppedIsEmpty
<1>1. FlushInv => StoppedIsEmpty
  BY DEF FlushInv, StoppedIsEmpty, Emptied
<1>2. QED
  BY <1>1, InitTyped, TypedStep, InitFlushed, FlushedStep, PTL DEF Spec

-----------------------------------------------------------------------------
(* Most steps touch neither outputbuf nor the marks in it. *)
MarksKept ==
  /\ out' = out
  /\ output'.start = output.start /\ output'.next = output.next
  /\ output'.mark = output.mark /\ output'.started = output.started
  /\ decode'.fresh = decode.fresh
  /\ lms'.track = lms.track /\ lms'.announced = lms.announced

Marking ==
  \/ DecodeFrames \/ OutputFrames \/ Requests
  \/ OutputFlushBuffer \/ OutputFlush \/ OutputFlushStreaming \/ PassOutput

(* All but the seven steps of Marking keep outputbuf and its marks. *)
LEMMA OthersKeepMarks == TypeInv /\ [Next]_vars => Marking \/ MarksKept
<1> SUFFICES ASSUME TypeInv, [Next]_vars, ~Marking PROVE MarksKept
  OBVIOUS
<1> USE DEF MarksKept
<1>1. decode \in Decoders /\ output \in Outputs /\ lms \in Servers
  BY DEF TypeInv, TypeOK
<1>2. CASE UNCHANGED vars
  BY <1>2 DEF vars
<1>3. CASE StreamThread
  BY <1>3 DEF StreamThread, StreamLook, StreamClosed, StreamHeaders, StreamBody, StreamEnd,
              StreamMeta
<1>4. CASE DecodeThread
  BY <1>1, <1>4 DEF DecodeThread, DecodeLook, DecodeSpace, DecodeRest, DecodeComplete,
                    DecodeError, Rested, Decoders, Marking
<1>5. CASE OutputThread
  BY <1>1, <1>5 DEF OutputThread, OutputLook, OutputSend, Outputs, Marking
<1>6. CASE Stops \/ Cont
  BY <1>1, <1>6 DEF Stops, DecodeFlush, Spent, Cont, Decoders, Servers
<1>7. CASE Pause \/ Unpause
  BY <1>1, <1>7 DEF Pause, Unpause, Spent, Outputs, Servers
<1>8. CASE SlimThread \/ PassStream
  <2>1. CASE \/ StreamFlush \/ StreamOpen \/ StreamUnreachable \/ StreamDisconnect
             \/ StreambufFlush \/ PassNothing \/ PassStream
    BY <2>1 DEF StreamFlush, StreamOpen, StreamUnreachable, StreamDisconnect,
                StreambufFlush, PassNothing, PassStream
  <2>2. CASE PassStart
    BY <1>1, <2>2 DEF PassStart, Decoders, Outputs, Servers
  <2>3. CASE PassOver
    BY <1>1, <2>3 DEF PassOver, Decoders, Servers
  <2>4. QED
    BY <1>8, <2>1, <2>2, <2>3 DEF SlimThread, Marking
<1>9. QED
  BY <1>2, <1>3, <1>4, <1>5, <1>6, <1>7, <1>8 DEF Next, Marking

(* The codec's step, spelled out. *)
LEMMA FramesDecoded ==
  ASSUME TypeInv, DecodeFrames
  PROVE  \E n \in 0..Len(sbuf) :
           /\ Len(out') = Len(out) + n /\ out' \in Seq(Tracks)
           /\ \A i \in 1..Len(out) : out'[i] = out[i]
           /\ \A i \in Len(out) + 1..Len(out') : i - Len(out) \in 1..n
                                                 /\ out'[i] = sbuf[i - Len(out)]
           /\ Len(sbuf') = Len(sbuf) - n
           /\ \A i \in 1..Len(sbuf') : i + n \in 1..Len(sbuf) /\ sbuf'[i] = sbuf[i + n]
           /\ hist'.frames = hist.frames + n /\ hist'.begun = hist.begun
           /\ output'.mark = output.mark /\ output'.started = output.started
           /\ output'.block = output.block
           /\ ~decode.fresh => output' = output
           /\ decode.fresh => output'.start = Len(out) /\ output'.next = lms.track
           /\ decode.state = "RUNNING" /\ Asked
           /\ decode'.state = decode.state /\ ~decode'.fresh
           /\ UNCHANGED <<stream, slim, lms>>
<1>1. PICK n \in (IF LesserOf(Len(sbuf), OutSize - Len(out)) > 0 THEN 1 ELSE 0)
                ..LesserOf(Len(sbuf), OutSize - Len(out)) :
        /\ out' = out \o SubSeq(sbuf, 1, n)
        /\ sbuf' = Dropped(sbuf, n)
        /\ hist' = [hist EXCEPT !.frames = @ + n]
  BY DEF DecodeFrames
<1>2. /\ n \in 0..Len(sbuf) /\ Len(out) \in Nat /\ Len(sbuf) \in Nat
      /\ Len(out') = Len(out) + n /\ out' \in Seq(Tracks)
      /\ \A i \in 1..Len(out) : out'[i] = out[i]
      /\ \A i \in Len(out) + 1..Len(out) + n : out'[i] = sbuf[i - Len(out)]
      /\ Len(sbuf') = Len(sbuf) - n
      /\ \A i \in 1..Len(sbuf) - n : sbuf'[i] = sbuf[i + n]
  BY <1>1, Moved DEF TypeInv, TypeOK
<1>3. hist'.frames = hist.frames + n /\ hist'.begun = hist.begun
  BY <1>1 DEF TypeInv, TypeOK, Histories
<1>4. /\ output'.mark = output.mark /\ output'.started = output.started
      /\ output'.block = output.block
      /\ ~decode.fresh => output' = output
      /\ decode.fresh => output'.start = Len(out) /\ output'.next = decode.track
  BY DEF DecodeFrames, TypeInv, TypeOK, Outputs
<1>5. /\ decode.state = "RUNNING" /\ decode'.state = decode.state /\ ~decode'.fresh
      /\ UNCHANGED <<stream, slim, lms>>
  BY DEF DecodeFrames, Decoding, Rested, TypeInv, TypeOK, Decoders
<1>6. decode.track = lms.track /\ Asked
  BY <1>5 DEF TypeInv, Typed
<1>7. /\ \A i \in Len(out) + 1..Len(out') : i - Len(out) \in 1..n
                                            /\ out'[i] = sbuf[i - Len(out)]
      /\ \A i \in 1..Len(sbuf') : i + n \in 1..Len(sbuf) /\ sbuf'[i] = sbuf[i + n]
  BY <1>2
<1>8. WITNESS n \in 0..Len(sbuf)
<1>9. QED
  BY <1>2, <1>3, <1>4, <1>5, <1>6, <1>7

(* At first the socket is closed. *)
LEMMA InitStreams == Init => StreamInv
BY DEF Init, StreamInv, Mine, Ended, Closing

(* The stream thread stores only chunks of the track LMS asked for last. *)
LEMMA StreamStreams ==
  ASSUME TypeInv, StreamInv, StreamThread
  PROVE  StreamInv'
<1>1. stream \in Streams /\ sbuf \in Seq(Tracks)
  BY DEF TypeInv, TypeOK
<1>2. UNCHANGED <<decode, out, output, slim, lms, hist>>
  BY DEF StreamThread, StreamLook, StreamClosed, StreamHeaders, StreamBody, StreamEnd, StreamMeta
<1>3. /\ stream'.open => stream.open /\ stream'.ok = stream.ok /\ stream'.state \notin Ended
      /\ ~stream.open => stream'.state = stream.state /\ stream'.ok = stream.ok
      /\ stream.state \in Ended \cup {"HTTP"} => stream'.state \in Ended \cup {"HTTP"}
  <2> USE DEF StreamInv, Streams, Ended
  <2>1. CASE StreamLook \/ StreamClosed
    BY <1>1, <2>1 DEF StreamLook, StreamClosed
  <2>2. CASE StreamHeaders
    BY <1>1, <2>2 DEF StreamHeaders, Unplugged
  <2>3. CASE StreamBody
    BY <1>1, <2>3 DEF StreamBody
  <2>4. CASE StreamEnd \/ StreamMeta
    BY <1>1, <2>4 DEF StreamEnd, StreamMeta, Unplugged
  <2>5. QED
    BY <2>1, <2>2, <2>3, <2>4 DEF StreamThread
<1>4. /\ Mine => Mine'
      /\ ~stream.open => sbuf' = sbuf
  <2>1. CASE sbuf' = sbuf
    BY <1>2, <2>1 DEF Mine
  <2>2. CASE sbuf' # sbuf
    <3>1. StreamBody /\ stream.open
      BY <2>2 DEF StreamThread, StreamLook, StreamClosed, StreamHeaders, StreamBody,
                  StreamEnd, StreamMeta
    <3>2. lms.track \in Tracks /\ sbuf' = Append(sbuf, lms.track)
      BY <3>1 DEF StreamBody, TypeInv, Typed, Asked
    <3>3. Mine => Mine'
      BY <1>1, <1>2, <3>2 DEF Mine
    <3>4. QED
      BY <3>1, <3>3
  <2>3. QED
    BY <2>1, <2>2
<1>5. CASE stream.open
  <2>1. slim.pc = "connect" \/ Mine
    BY <1>5 DEF StreamInv, Unreached
  <2>2. stream.ok /\ stream.state \notin Ended
    BY <1>5 DEF StreamInv
  <2>3. QED
    BY <1>2, <1>3, <1>4, <1>5, <2>1, <2>2 DEF StreamInv
<1>6. CASE ~stream.open
  <2>1. ~stream'.open
    BY <1>3, <1>6
  <2>2. QED
    BY <1>2, <1>3, <1>4, <1>6, <2>1 DEF StreamInv, Unreached
<1>7. QED
  BY <1>5, <1>6

(* The codec runs only on a stream that is past its headers. *)
LEMMA DecodeStreams ==
  ASSUME TypeInv, StreamInv, DecodeThread
  PROVE  StreamInv'
<1>1. decode \in Decoders
  BY DEF TypeInv, TypeOK
<1>2. CASE DecodeFrames
  <2>1. PICK n \in 0..Len(sbuf) :
          /\ Len(sbuf') = Len(sbuf) - n
          /\ \A i \in 1..Len(sbuf') : i + n \in 1..Len(sbuf) /\ sbuf'[i] = sbuf[i + n]
          /\ decode.state = "RUNNING" /\ decode'.state = decode.state
          /\ UNCHANGED <<stream, slim, lms>>
    BY <1>2, FramesDecoded
  <2>2. Mine => Mine'
    BY <2>1 DEF Mine
  <2>3. slim.pc \notin {"connect", "open"} /\ ~Unreached
    BY <2>1 DEF StreamInv, Unreached
  <2>4. QED
    BY <2>1, <2>2, <2>3 DEF StreamInv
<1>3. CASE DecodeLook \/ DecodeSpace \/ DecodeRest \/ DecodeComplete \/ DecodeError
  <2>1. /\ UNCHANGED <<stream, sbuf, slim, lms>>
        /\ decode'.fresh = decode.fresh
        /\ \/ decode'.state = decode.state
           \/ decode.state = "RUNNING" /\ decode'.state \in {"COMPLETE", "ERROR"}
    BY <1>1, <1>3 DEF DecodeLook, DecodeSpace, DecodeRest, DecodeComplete, DecodeError,
                      Decoding, Rested, Decoders
  <2>2. QED
    BY <2>1 DEF StreamInv, Unreached, Mine
<1>4. QED
  BY <1>2, <1>3 DEF DecodeThread

(* LMS asks for a track only once the socket of the one before is closed. *)
LEMMA OrderStreams ==
  ASSUME TypeInv, StreamInv, Requests \/ Stops \/ Pause \/ Unpause \/ Cont
  PROVE  StreamInv'
<1>1. /\ stream \in Streams /\ decode \in Decoders /\ slim \in Slims /\ lms \in Servers
  BY DEF TypeInv, TypeOK
<1>2. slim.pc = "idle"
  BY DEF Requests, Strm_s, Stops, DecodeFlush, Pause, Unpause, Cont, Order, Idle
<1>3. CASE Requests
  <2>1. /\ UNCHANGED <<stream, sbuf>> /\ slim'.pc = "connect"
        /\ decode'.state = "READY" /\ decode'.fresh
        /\ lms'.phase = "streaming" /\ lms.phase # "streaming"
    <3>1. PICK len \in 1..MaxLen, auto \in Autostarts : Strm_s(len, auto)
      BY <1>3 DEF Requests
    <3>2. UNCHANGED <<stream, sbuf>> /\ slim'.pc = "connect"
      BY <1>1, <3>1 DEF Strm_s, Slims
    <3>3. decode'.state = "READY" /\ decode'.fresh
      BY <1>1, <3>1 DEF Strm_s, CodecOpened, Decoders
    <3>4. lms'.phase = "streaming" /\ lms.phase # "streaming"
      BY <1>1, <3>1 DEF Strm_s, Servers
    <3>5. QED
      BY <3>2, <3>3, <3>4
  <2>2. ~stream.open
    BY <1>2, <2>1 DEF StreamInv, Closing, Quitting, Flushing
  <2>3. QED
    BY <2>1, <2>2 DEF StreamInv
<1>4. CASE Stops
  <2>1. /\ UNCHANGED <<stream, sbuf>> /\ slim'.pc \in {"qBuffer", "fOutput"}
        /\ decode'.state = "STOPPED" /\ lms'.track = lms.track
    BY <1>1, <1>4 DEF Stops, DecodeFlush, Spent, Goto, Decoders, Slims, Servers
  <2>2. QED
    BY <1>2, <2>1 DEF StreamInv, Unreached, Mine, Closing, Quitting, Flushing
<1>5. CASE Pause \/ Unpause
  <2>1. /\ UNCHANGED <<stream, sbuf, decode>> /\ slim'.pc = slim.pc
        /\ lms'.phase = lms.phase /\ lms'.track = lms.track
    BY <1>1, <1>5 DEF Pause, Unpause, Spent, Slims, Servers
  <2>2. QED
    BY <1>2, <2>1 DEF StreamInv, Unreached, Mine, Closing
<1>6. CASE Cont
  <2>1. /\ UNCHANGED <<sbuf, decode, lms>> /\ slim'.pc = slim.pc
        /\ stream.state = "WAIT" /\ stream'.state = "BUFFERING"
        /\ stream'.open = stream.open /\ stream'.ok = stream.ok
    BY <1>1, <1>6 DEF Cont, Slims, Streams
  <2>2. decode.state \in {"READY", "STOPPED"} /\ ~Unreached
    BY <1>1, <2>1 DEF StreamInv, Unreached, Decoders, Ended
  <2>3. QED
    BY <1>2, <2>1, <2>2 DEF StreamInv, Mine, Closing, Ended
<1>7. QED
  BY <1>3, <1>4, <1>5, <1>6

(* streambuf is emptied before a new stream is opened, and decoding starts *)
(* only on what the pass saw of that stream.                               *)
LEMMA SlimStreams ==
  ASSUME TypeInv, FlushInv, StreamInv, SlimThread \/ PassStream
  PROVE  StreamInv'
<1>1. /\ stream \in Streams /\ decode \in Decoders /\ slim \in Slims /\ lms \in Servers
  BY DEF TypeInv, TypeOK
<1>2. CASE StreamUnreachable
  <2>1. /\ UNCHANGED <<sbuf, decode, lms>> /\ slim.pc = "connect" /\ slim'.pc = "idle"
        /\ stream'.state = "DISCONNECT" /\ ~stream'.ok /\ stream'.open = stream.open
    BY <1>1, <1>2 DEF StreamUnreachable, StreamStarted, Slims, Streams
  <2>2. QED
    BY <2>1 DEF StreamInv, Unreached, Ended
<1>3. CASE StreamFlush
  <2>1. /\ UNCHANGED <<stream, decode, lms>> /\ slim.pc = "connect" /\ slim'.pc = "open"
        /\ sbuf' = << >>
    BY <1>1, <1>3 DEF StreamFlush, Goto, Slims
  <2>2. QED
    BY <2>1 DEF StreamInv, Mine
<1>4. CASE StreamOpen
  <2>1. /\ UNCHANGED <<sbuf, decode, lms>> /\ slim.pc = "open" /\ slim'.pc = "idle"
        /\ stream'.state = "HEADERS" /\ stream'.ok /\ stream'.open
    BY <1>1, <1>4 DEF StreamOpen, StreamStarted, Slims, Streams
  <2>2. QED
    BY <2>1 DEF StreamInv, Mine, Ended
<1>5. CASE OutputFlushBuffer \/ OutputFlush \/ OutputFlushStreaming
  <2>1. /\ UNCHANGED <<stream, sbuf, decode, lms>>
        /\ slim.pc \in Closing /\ slim'.pc \in Closing
        /\ slim'.pc \in {"qOutput", "qDisconnect", "fDisconnect"}
    BY <1>1, <1>5 DEF OutputFlushBuffer, OutputFlush, OutputFlushStreaming, Goto, Slims,
                      Closing, Quitting, Flushing
  <2>2. QED
    BY <2>1 DEF StreamInv, Unreached, Mine, Closing, Quitting, Flushing
<1>6. CASE StreamDisconnect
  <2>1. /\ UNCHANGED <<sbuf, decode, lms>>
        /\ ~stream'.open /\ stream'.state = "STOPPED" /\ stream'.ok = stream.ok
        /\ slim.pc \in Closing /\ slim'.pc \in {"qStream", "fStream", "idle"}
    BY <1>1, <1>6 DEF StreamDisconnect, Goto, Slims, Streams, Closing, Quitting, Flushing
  <2>2. QED
    BY <2>1 DEF StreamInv, Unreached, Mine, Ended, Closing, Quitting, Flushing
<1>7. CASE StreambufFlush
  <2>1. /\ UNCHANGED <<stream, decode, lms>> /\ sbuf' = << >> /\ slim'.pc = "idle"
        /\ ~stream.open
    BY <1>1, <1>7 DEF StreambufFlush, Slims, FlushInv
  <2>2. QED
    BY <2>1 DEF StreamInv, Mine
<1>8. CASE PassStream
  <2>1. /\ UNCHANGED <<sbuf, decode, lms>> /\ slim.pc = "idle" /\ slim'.pc = "passOutput"
        /\ slim'.snap = stream.state
        /\ stream'.open = stream.open /\ stream'.ok = stream.ok
        /\ \/ stream'.state = stream.state
           \/ stream.state = "DISCONNECT" /\ stream'.state = "STOPPED"
    BY <1>1, <1>8 DEF PassStream, Idle, Slims, Streams
  <2>2. QED
    BY <2>1 DEF StreamInv, Unreached, Mine, Ended, Closing, Quitting, Flushing
<1>9. CASE PassOutput
  <2>1. /\ UNCHANGED <<stream, sbuf, decode>>
        /\ slim.pc = "passOutput" /\ slim'.pc = "passDecode" /\ slim'.snap = slim.snap
        /\ lms'.phase = lms.phase /\ lms'.track = lms.track
    BY <1>1, <1>9 DEF PassOutput, Slims, Servers
  <2>2. QED
    BY <2>1 DEF StreamInv, Unreached, Mine, Closing, Quitting, Flushing
<1>10. CASE PassStart
  <2>1. /\ UNCHANGED <<stream, sbuf>> /\ slim.pc = "passDecode" /\ slim'.pc = "idle"
        /\ decode'.state = "RUNNING"
        /\ lms'.phase = lms.phase /\ lms'.track = lms.track
        /\ slim.snap = "HTTP" \/ (slim.snap = "DISCONNECT" /\ stream.ok)
    BY <1>1, <1>10 DEF PassStart, Starting, Loaded, Slims, Servers, Decoders
  <2>2. Mine /\ stream.state \in Ended \cup {"HTTP"}
    BY <2>1 DEF StreamInv, Unreached, Ended
  <2>3. QED
    BY <2>1, <2>2 DEF StreamInv, Mine, Closing, Quitting, Flushing
<1>11. CASE PassOver
  <2>1. /\ UNCHANGED <<stream, sbuf>> /\ slim.pc = "passDecode"
        /\ slim'.pc = IF slim.snap = "HTTP" THEN "passDisconnect" ELSE "idle"
        /\ decode.state \in {"COMPLETE", "ERROR"} /\ decode'.state = "STOPPED"
        /\ lms'.track = lms.track
    BY <1>1, <1>11 DEF PassOver, Over, Goto, Slims, Servers, Decoders
  <2>2. slim.snap # "HTTP" => ~stream.open
    BY <2>1 DEF StreamInv
  <2>3. QED
    BY <2>1, <2>2 DEF StreamInv, Unreached, Mine, Closing, Quitting, Flushing
<1>12. CASE PassNothing
  <2>1. /\ UNCHANGED <<stream, sbuf, decode, lms>>
        /\ slim.pc = "passDecode" /\ slim'.pc = "idle"
    BY <1>1, <1>12 DEF PassNothing, Goto, Slims
  <2>2. QED
    BY <2>1 DEF StreamInv, Unreached, Mine, Closing, Quitting, Flushing
<1>13. QED
  BY <1>2, <1>3, <1>4, <1>5, <1>6, <1>7, <1>8, <1>9, <1>10, <1>11, <1>12 DEF SlimThread

(* A session of the stream thread stays that of one track. *)
LEMMA StreamsStep == TypeInv /\ FlushInv /\ StreamInv /\ [Next]_vars => StreamInv'
<1> SUFFICES ASSUME TypeInv, FlushInv, StreamInv, [Next]_vars PROVE StreamInv'
  OBVIOUS
<1>1. CASE UNCHANGED vars
  BY <1>1 DEF vars, StreamInv, Unreached, Mine
<1>2. CASE OutputThread
  <2>1. UNCHANGED <<stream, sbuf, decode, slim, lms>>
    BY <1>2 DEF OutputThread, OutputLook, OutputFrames, OutputSend
  <2>2. QED
    BY <2>1 DEF StreamInv, Unreached, Mine
<1>3. QED
  BY <1>1, <1>2, StreamStreams, DecodeStreams, OrderStreams, SlimStreams DEF Next

(* At first no track is on its way. *)
LEMMA InitOrdered == Init => OrderInv
BY DEF Init, OrderInv, Asked, Tracks, None, AnnouncedOnce

(* The tracks keep their order from the codec to the announcements. *)
LEMMA OrderedStep ==
  ASSUME TypeInv, FlushInv, StreamInv, OrderInv, [Next]_vars
  PROVE  OrderInv'
<1>1. /\ decode \in Decoders /\ output \in Outputs /\ lms \in Servers /\ slim \in Slims
      /\ out \in Seq(Tracks) /\ Len(out) \in Nat
  BY DEF TypeInv, TypeOK
<1>2. /\ lms.track \in Nat /\ output.mark \in Nat /\ output.next \in Nat /\ output.start \in Int
      /\ \A i \in 1..Len(out) : out[i] \in Nat
  BY Numbered DEF TypeInv
<1>3. CASE MarksKept
  BY <1>3 DEF MarksKept, OrderInv, Asked, AnnouncedOnce
<1>4. CASE DecodeFrames
  <2>1. PICK n \in 0..Len(sbuf) :
          /\ Len(out') = Len(out) + n
          /\ \A i \in 1..Len(out) : out'[i] = out[i]
          /\ \A i \in Len(out) + 1..Len(out') : i - Len(out) \in 1..n
                                                /\ out'[i] = sbuf[i - Len(out)]
          /\ output'.mark = output.mark /\ output'.started = output.started
          /\ ~decode.fresh => output' = output
          /\ decode.fresh => output'.start = Len(out) /\ output'.next = lms.track
          /\ decode.state = "RUNNING" /\ Asked /\ ~decode'.fresh /\ lms' = lms
    BY <1>4, FramesDecoded
  <2>2. Mine
    BY <2>1 DEF StreamInv, Unreached
  <2>3. \A i \in 1..Len(out') : out'[i] <= lms.track
    <3> SUFFICES ASSUME NEW i \in 1..Len(out') PROVE out'[i] <= lms.track
      OBVIOUS
    <3>1. CASE i \in 1..Len(out)
      BY <2>1, <3>1 DEF OrderInv
    <3>2. CASE i \notin 1..Len(out)
      <4>1. i \in Len(out) + 1..Len(out') /\ n \in Nat /\ Len(sbuf) \in Nat
        BY <1>1, <2>1, <3>2 DEF TypeInv, TypeOK
      <4>2. i - Len(out) \in 1..Len(sbuf) /\ out'[i] = sbuf[i - Len(out)]
        BY <2>1, <4>1
      <4>3. QED
        BY <1>2, <2>2, <4>2 DEF Mine
    <3>3. QED
      BY <3>1, <3>2
  <2>4. QED
    BY <1>2, <2>1, <2>3 DEF OrderInv, AnnouncedOnce, Asked
<1>5. CASE OutputFrames
  <2>1. PICK taken \in 0..Len(out) :
          /\ out' = Dropped(out, taken)
          /\ \/ /\ output.start # None /\ taken = output.start
                /\ output'.start = None /\ output'.started /\ output'.mark = output.next
             \/ /\ output.start = None \/ taken <= output.start
                /\ output'.start = IF output.start = None THEN None ELSE output.start - taken
                /\ output'.started = output.started /\ output'.mark = output.mark
          /\ output'.next = output.next
    BY <1>5, BlockTaken
  <2>2. /\ Len(out') = Len(out) - taken
        /\ \A i \in 1..Len(out') : i + taken \in 1..Len(out) /\ out'[i] = out[i + taken]
    <3>1. /\ Len(Dropped(out, taken)) = Len(out) - taken
          /\ \A i \in 1..Len(out) - taken : Dropped(out, taken)[i] = out[i + taken]
      BY <1>1, <2>1, FrontAndRest
    <3>2. QED
      BY <1>1, <2>1, <3>1
  <2>3. UNCHANGED <<decode, lms>>
    BY <1>5 DEF OutputFrames
  <2>4. \A i \in 1..Len(out') : out'[i] <= lms.track /\ (decode.fresh => out'[i] < lms.track)
    BY <2>2 DEF OrderInv
  <2>5. \A i \in 1..Len(lms.announced) : lms.announced[i] \in Nat
    <3>1. lms.announced \in Seq(Tracks)
      BY <1>1 DEF Servers
    <3>2. QED
      BY <3>1, PipelineAssumption DEF Tracks
  <2>6. CASE output'.mark = output.mark
    BY <1>2, <2>1, <2>3, <2>4, <2>6 DEF OrderInv, AnnouncedOnce, Asked
  <2>7. CASE output.start # None /\ output'.start = None /\ output'.mark = output.next
    BY <1>2, <2>3, <2>4, <2>5, <2>7 DEF OrderInv, AnnouncedOnce, Asked
  <2>8. QED
    BY <2>1, <2>6, <2>7
<1>6. CASE Requests
  <2>1. /\ lms'.track = lms.track + 1 /\ lms'.announced = lms.announced
        /\ decode'.fresh /\ UNCHANGED <<out, output>>
    BY <1>1, <1>6 DEF Requests, Strm_s, CodecOpened, Decoders, Servers
  <2>2. QED
    BY <1>2, <2>1 DEF OrderInv, AnnouncedOnce, Asked, Tracks
<1>7. CASE OutputFlushBuffer
  BY <1>2, <1>7 DEF OutputFlushBuffer, OrderInv, AnnouncedOnce, Asked
<1>8. CASE OutputFlush \/ OutputFlushStreaming
  <2>1. /\ output'.start = None /\ output'.mark = output.mark
        /\ output'.started = output.started
        /\ UNCHANGED <<decode, lms>>
    BY <1>1, <1>8 DEF OutputFlush, OutputFlushStreaming, Outputs
  <2>2. Len(out') \in 0..Len(out) /\ \A i \in 1..Len(out') : out'[i] = out[i]
    <3>1. CASE out' = out
      BY <1>1, <3>1
    <3>2. CASE out' # out
      <4>1. /\ output.start # None /\ slim.pc # "qOutput"
            /\ out' = SubSeq(out, 1, output.start)
        BY <1>8, <3>2 DEF OutputFlush, OutputFlushStreaming
      <4>2. output.start \in 0..Len(out)
        BY <1>1, <4>1 DEF TypeInv, TypeOK, Outputs, None
      <4>3. QED
        BY <1>1, <4>1, <4>2, FrontAndRest
    <3>3. QED
      BY <3>1, <3>2
  <2>3. QED
    BY <1>1, <2>1, <2>2 DEF OrderInv, AnnouncedOnce, Asked
<1>9. CASE PassOutput
  <2>1. /\ output'.start = output.start /\ output'.next = output.next
        /\ output'.mark = output.mark /\ ~output'.started
        /\ lms'.track = lms.track
        /\ lms'.announced = IF output.started THEN Append(lms.announced, output.mark)
                                              ELSE lms.announced
        /\ UNCHANGED <<out, decode>>
    BY <1>1, <1>9 DEF PassOutput, Outputs, Servers
  <2>2. /\ \A i \in 1..Len(lms'.announced) : lms'.announced[i] <= output.mark
        /\ AnnouncedOnce'
    <3>1. CASE output.started
      <4>1. /\ lms.announced \in Seq(Tracks) /\ output.mark \in Tracks
            /\ \A i \in 1..Len(lms.announced) : lms.announced[i] < output.mark
        BY <1>1, <3>1 DEF Servers, TypeInv, Typed, OrderInv
      <4>2. /\ Len(lms'.announced) = Len(lms.announced) + 1
            /\ lms'.announced[Len(lms.announced) + 1] = output.mark
            /\ \A i \in 1..Len(lms.announced) : lms'.announced[i] = lms.announced[i]
            /\ Len(lms.announced) \in Nat
        BY <2>1, <3>1, <4>1
      <4>3. \A i \in 1..Len(lms'.announced) :
              lms'.announced[i] <= output.mark
        BY <1>2, <4>1, <4>2 DEF OrderInv
      <4>4. AnnouncedOnce'
        <5> SUFFICES ASSUME NEW i \in 1..Len(lms'.announced), NEW j \in 1..Len(lms'.announced),
                            i < j
                     PROVE  lms'.announced[i] < lms'.announced[j]
          BY DEF AnnouncedOnce
        <5>1. i \in 1..Len(lms.announced)
          BY <4>2
        <5>2. CASE j \in 1..Len(lms.announced)
          BY <4>2, <5>1, <5>2 DEF OrderInv, AnnouncedOnce
        <5>3. CASE j = Len(lms.announced) + 1
          BY <4>1, <4>2, <5>1, <5>3
        <5>4. QED
          BY <4>2, <5>2, <5>3
      <4>5. QED
        BY <1>2, <4>3, <4>4
    <3>2. CASE ~output.started
      BY <2>1, <3>2 DEF OrderInv, AnnouncedOnce
    <3>3. QED
      BY <3>1, <3>2
  <2>3. QED
    BY <2>1, <2>2 DEF OrderInv, Asked
<1>10. QED
  BY <1>3, <1>4, <1>5, <1>6, <1>7, <1>8, <1>9, OthersKeepMarks DEF Marking

(* LMS hears of the start of a track once, in the order it asked for them, *)
(* whatever it stops or flushes on the way.                                *)
THEOREM PipelineAnnounces == Spec => []AnnouncedOnce
<1> DEFINE IInv == TypeInv /\ FlushInv /\ StreamInv /\ OrderInv
<1>1. Init => IInv
  BY InitTyped, InitFlushed, InitStreams, InitOrdered
<1>2. IInv /\ [Next]_vars => IInv'
  BY TypedStep, FlushedStep, StreamsStep, OrderedStep
<1>3. IInv => AnnouncedOnce
  BY DEF OrderInv
<1>4. QED
  BY <1>1, <1>2, <1>3, PTL DEF Spec

-----------------------------------------------------------------------------
(* The mark stays on the first frame of its track through every step. *)
LEMMA StartStep ==
  ASSUME TypeInv, FlushInv, StreamInv, OrderInv, StartMark, [Next]_vars
  PROVE  StartMark'
<1>1. /\ decode \in Decoders /\ output \in Outputs /\ lms \in Servers /\ slim \in Slims
      /\ out \in Seq(Tracks) /\ Len(out) \in Nat
  BY DEF TypeInv, TypeOK
<1>2. /\ lms.track \in Nat /\ output.next \in Nat /\ output.start \in Int
      /\ \A i \in 1..Len(out) : out[i] \in Nat
  BY Numbered DEF TypeInv
<1>3. CASE MarksKept
  BY <1>3 DEF MarksKept, StartMark
<1>4. CASE DecodeFrames
  <2>1. PICK n \in 0..Len(sbuf) :
          /\ Len(out') = Len(out) + n
          /\ \A i \in 1..Len(out) : out'[i] = out[i]
          /\ \A i \in Len(out) + 1..Len(out') : i - Len(out) \in 1..n
                                                /\ out'[i] = sbuf[i - Len(out)]
          /\ ~decode.fresh => output' = output
          /\ decode.fresh => output'.start = Len(out) /\ output'.next = lms.track
          /\ decode.state = "RUNNING"
    BY <1>4, FramesDecoded
  <2>2. Mine /\ slim.pc # "qOutput"
    BY <2>1 DEF StreamInv, Unreached, FlushInv, Quitting
  <2>3. n \in Nat /\ Len(sbuf) \in Nat /\ Len(out') \in Nat
    BY <1>1, <2>1 DEF TypeInv, TypeOK
  <2>4. \A i \in 1..Len(out') :
          \/ i \in 1..Len(out) /\ out'[i] = out[i]
          \/ i \in Len(out) + 1..Len(out') /\ out'[i] = lms.track
    <3> SUFFICES ASSUME NEW i \in 1..Len(out'), i \notin 1..Len(out)
                 PROVE  i \in Len(out) + 1..Len(out') /\ out'[i] = lms.track
      BY <2>1
    <3>1. i \in Len(out) + 1..Len(out')
      BY <1>1, <2>3
    <3>2. i - Len(out) \in 1..Len(sbuf) /\ out'[i] = sbuf[i - Len(out)]
      BY <2>1, <2>3, <3>1
    <3>3. QED
      BY <2>2, <3>1, <3>2 DEF Mine
  <2>5. CASE decode.fresh
    <3>1. \A i \in 1..Len(out) : out[i] < lms.track
      BY <2>5 DEF OrderInv
    <3>2. QED
      BY <1>1, <2>1, <2>4, <2>5, <3>1 DEF StartMark
  <2>6. CASE ~decode.fresh
    <3>1. output.start # None => output.next = lms.track /\ output.start <= Len(out)
      BY <2>2, <2>6 DEF OrderInv, TypeInv, TypeOK
    <3>2. QED
      BY <1>1, <1>2, <2>1, <2>4, <2>6, <3>1 DEF StartMark
  <2>7. QED
    BY <2>5, <2>6
<1>5. CASE OutputFrames
  <2>1. PICK taken \in 0..Len(out) :
          /\ out' = Dropped(out, taken)
          /\ \/ output'.start = None
             \/ output.start # None /\ output'.start = output.start - taken
          /\ output'.next = output.next
    BY <1>5, BlockTaken
  <2>2. /\ Len(Dropped(out, taken)) = Len(out) - taken
        /\ \A i \in 1..Len(out) - taken : Dropped(out, taken)[i] = out[i + taken]
    BY <1>1, <2>1, FrontAndRest
  <2>3. /\ Len(out') = Len(out) - taken
        /\ \A i \in 1..Len(out') : i + taken \in 1..Len(out) /\ out'[i] = out[i + taken]
    BY <1>1, <2>1, <2>2
  <2>4. \/ output.start # None /\ output'.start = output.start - taken
        \/ output'.start = None
    BY <2>1
  <2>5. CASE output'.start = None
    BY <2>5 DEF StartMark
  <2>6. CASE output.start # None /\ output'.start = output.start - taken
    <3>1. ASSUME NEW i \in 1..Len(out')
          PROVE  IF i > output'.start THEN out'[i] = output'.next ELSE out'[i] < output'.next
      <4>1. i + taken \in 1..Len(out) /\ out'[i] = out[i + taken]
        BY <2>3
      <4>2. i > output'.start <=> i + taken > output.start
        BY <1>2, <2>1, <2>6
      <4>3. IF i + taken > output.start THEN out[i + taken] = output.next
                                        ELSE out[i + taken] < output.next
        BY <2>6, <4>1 DEF StartMark
      <4>4. QED
        BY <2>1, <4>1, <4>2, <4>3
    <3>2. QED
      BY <3>1 DEF StartMark
  <2>7. QED
    BY <2>4, <2>5, <2>6
<1>6. CASE Requests \/ PassOutput
  <2>1. out' = out /\ output'.start = output.start /\ output'.next = output.next
    BY <1>1, <1>6 DEF Requests, Strm_s, PassOutput, Outputs
  <2>2. QED
    BY <2>1 DEF StartMark
<1>7. CASE OutputFlushBuffer \/ OutputFlush \/ OutputFlushStreaming
  <2>1. out' = << >> \/ output'.start = None
    BY <1>1, <1>7 DEF OutputFlushBuffer, OutputFlush, OutputFlushStreaming, Outputs
  <2>2. QED
    BY <2>1 DEF StartMark
<1>8. QED
  BY <1>3, <1>4, <1>5, <1>6, <1>7, OthersKeepMarks DEF Marking

(* Where track_start points the new track begins, however the codec, the   *)
(* output thread and the flushes interleave.                               *)
THEOREM PipelineStartMark == Spec => []StartMark
<1> DEFINE IInv == TypeInv /\ FlushInv /\ StreamInv /\ OrderInv /\ StartMark
<1>1. Init => IInv
  <2>1. Init => StartMark
    BY DEF Init, StartMark
  <2>2. QED
    BY <2>1, InitTyped, InitFlushed, InitStreams, InitOrdered
<1>2. IInv /\ [Next]_vars => IInv'
  BY TypedStep, FlushedStep, StreamsStep, OrderedStep, StartStep
<1>3. QED
  BY <1>1, <1>2, PTL DEF Spec

-----------------------------------------------------------------------------
(* The account of a track: most steps neither fetch nor decode of it. *)
Accounted == {"READY", "RUNNING", "COMPLETE"}
AccountKept ==
  /\ stream'.ok = stream.ok /\ stream'.bytes = stream.bytes /\ stream'.left = stream.left
  /\ stream'.state \in Ended => stream.state \in Ended
  /\ Len(sbuf') = Len(sbuf) /\ lms'.len = lms.len /\ hist'.frames = hist.frames
  /\ decode'.state \in Accounted => decode.state \in Accounted
  /\ decode'.state = "COMPLETE" => decode.state = "COMPLETE"
  /\ slim'.pc \in {"connect", "open"} <=> slim.pc \in {"connect", "open"}

Accounting ==
  \/ StreamHeaders \/ StreamBody \/ StreamEnd \/ StreamMeta \/ DecodeFrames \/ DecodeComplete
  \/ Requests \/ StreamUnreachable \/ StreamFlush \/ StreamOpen \/ StreamDisconnect
  \/ StreambufFlush

(* Every other step leaves the account of the track as it is. *)
LEMMA OthersKeepAccount == TypeInv /\ [Next]_vars => Accounting \/ AccountKept
<1> SUFFICES ASSUME TypeInv, [Next]_vars, ~Accounting PROVE AccountKept
  OBVIOUS
<1> USE DEF AccountKept, Accounted
<1>1. /\ stream \in Streams /\ decode \in Decoders /\ slim \in Slims /\ lms \in Servers
      /\ hist \in Histories
  BY DEF TypeInv, TypeOK
<1>2. CASE UNCHANGED vars
  BY <1>2 DEF vars
<1>3. CASE StreamThread
  BY <1>1, <1>3 DEF StreamThread, StreamLook, StreamClosed, Streams, Accounting
<1>4. CASE DecodeThread
  BY <1>1, <1>4 DEF DecodeThread, DecodeLook, DecodeSpace, DecodeRest, DecodeError, Rested,
                    Decoders, Accounting
<1>5. CASE OutputThread
  BY <1>1, <1>5 DEF OutputThread, OutputLook, OutputFrames, OutputSend, Histories
<1>6. CASE Stops
  BY <1>1, <1>6 DEF Stops, DecodeFlush, Order, Idle, Spent, Goto, Decoders, Servers, Slims
<1>7. CASE Cont
  BY <1>1, <1>7 DEF Cont, Idle, Streams, Slims, Ended
<1>8. CASE Pause \/ Unpause
  BY <1>1, <1>8 DEF Pause, Unpause, Spent, Servers, Slims
<1>9. CASE PassStream
  BY <1>1, <1>9 DEF PassStream, Idle, Streams, Slims, Ended
<1>10. CASE SlimThread
  <2>1. CASE OutputFlushBuffer \/ OutputFlush \/ OutputFlushStreaming
    BY <1>1, <2>1 DEF OutputFlushBuffer, OutputFlush, OutputFlushStreaming, Goto, Slims
  <2>2. CASE PassOutput
    BY <1>1, <2>2 DEF PassOutput, Slims, Servers
  <2>3. CASE PassStart
    BY <1>1, <2>3 DEF PassStart, Starting, Slims, Servers, Decoders
  <2>4. CASE PassOver
    BY <1>1, <2>4 DEF PassOver, Goto, Slims, Servers, Decoders
  <2>5. CASE PassNothing
    BY <1>1, <2>5 DEF PassNothing, Goto, Slims
  <2>6. QED
    BY <1>10, <2>1, <2>2, <2>3, <2>4, <2>5 DEF SlimThread, Accounting
<1>11. QED
  BY <1>2, <1>3, <1>4, <1>5, <1>6, <1>7, <1>8, <1>9, <1>10 DEF Next, Accounting

(* At first nothing is asked for and nothing decoded. *)
LEMMA InitAccount == Init => AccountInv
BY DEF Init, AccountInv, NothingLost

(* What the stream thread fetches and what the codec moves is entered. *)
LEMMA AccountStep ==
  ASSUME TypeInv, FlushInv, StreamInv, AccountInv, [Next]_vars
  PROVE  AccountInv'
<1>1. /\ stream \in Streams /\ decode \in Decoders /\ slim \in Slims /\ lms \in Servers
      /\ hist \in Histories /\ sbuf \in Seq(Tracks) /\ Len(sbuf) \in Nat
  BY DEF TypeInv, TypeOK
<1>2. stream.bytes \in Nat /\ stream.left \in Nat /\ lms.len \in Nat /\ hist.frames \in Nat
  BY <1>1, PipelineAssumption DEF Streams, Servers, Histories
<1>3. CASE AccountKept
  BY <1>3 DEF AccountKept, Accounted, AccountInv, NothingLost
<1>4. CASE StreamHeaders \/ StreamEnd \/ StreamMeta
  <2>1. /\ UNCHANGED <<sbuf, decode, slim, lms, hist>>
        /\ stream'.bytes = stream.bytes /\ stream'.left = stream.left
        /\ stream.open
        /\ stream'.ok => stream'.ok = stream.ok /\ (stream'.state \in Ended => stream.left = 0)
    <3>1. stream.open /\ stream.ok
      BY <1>4 DEF StreamHeaders, StreamEnd, StreamMeta, StreamInv
    <3>2. QED
      BY <1>1, <1>4, <3>1 DEF StreamHeaders, StreamEnd, StreamMeta, Unplugged, Streams, Ended
  <2>2. QED
    BY <2>1 DEF AccountInv, NothingLost
<1>5. CASE StreamBody
  <2>1. /\ UNCHANGED <<decode, slim, lms, hist>> /\ stream.open
        /\ stream'.bytes = stream.bytes + 1 /\ stream'.left = stream.left - 1
        /\ stream'.ok = stream.ok
        /\ sbuf' = Append(sbuf, lms.track)
        /\ stream'.state \in {stream.state, "HTTP"}
    BY <1>1, <1>5 DEF StreamBody, Streams
  <2>2. lms.track \in Tracks /\ stream.state \notin Ended
    BY <2>1 DEF TypeInv, Typed, Asked, StreamInv
  <2>3. Len(sbuf') = Len(sbuf) + 1 /\ stream'.state \notin Ended
    BY <1>1, <2>1, <2>2 DEF Ended
  <2>4. ASSUME decode.state \in {"READY", "RUNNING", "COMPLETE"}, stream.ok,
               slim.pc \notin {"connect", "open"}
        PROVE  /\ stream'.bytes + stream'.left = lms.len
               /\ hist.frames + Len(sbuf') = stream'.bytes
    <3>1. /\ stream.bytes + stream.left = lms.len
          /\ hist.frames + Len(sbuf) = stream.bytes
      BY <2>4 DEF AccountInv
    <3>2. Len(sbuf) \in Nat /\ Len(sbuf') = Len(sbuf) + 1
      BY <1>1, <2>3
    <3>3. stream'.bytes = stream.bytes + 1 /\ stream'.left = stream.left - 1
      BY <2>1
    <3>4. \A m, b, l, s, f \in Int :
            b + l = m /\ f + s = b => (b + 1) + (l - 1) = m /\ f + (s + 1) = b + 1
      OBVIOUS
    <3>5. /\ lms.len \in Int /\ stream.bytes \in Int /\ stream.left \in Int
          /\ Len(sbuf) \in Int /\ hist.frames \in Int
      BY <1>2, <3>2
    <3>6. /\ (stream.bytes + 1) + (stream.left - 1) = lms.len
          /\ hist.frames + (Len(sbuf) + 1) = stream.bytes + 1
      BY <3>1, <3>4, <3>5
    <3>7. QED
      BY <3>2, <3>3, <3>6
  <2>5. NothingLost'
    BY <2>1 DEF AccountInv, NothingLost
  <2>6. QED
    BY <2>1, <2>3, <2>4, <2>5 DEF AccountInv
<1>6. CASE DecodeFrames
  <2>1. PICK n \in 0..Len(sbuf) :
          /\ Len(sbuf') = Len(sbuf) - n /\ hist'.frames = hist.frames + n
          /\ decode.state = "RUNNING" /\ decode'.state = decode.state
          /\ UNCHANGED <<stream, slim, lms>>
    BY <1>6, FramesDecoded
  <2>2. slim.pc \notin {"connect", "open"}
    BY <2>1 DEF StreamInv
  <2>3. NothingLost'
    BY <2>1 DEF NothingLost
  <2>4. stream.ok =>
          /\ stream.bytes + stream.left = lms.len
          /\ hist.frames + Len(sbuf) = stream.bytes
          /\ stream.state \in Ended => stream.left = 0
    BY <2>1, <2>2 DEF AccountInv
  <2>5. Len(sbuf) \in Nat
    BY <1>1
  <2>6. stream.ok => hist'.frames + Len(sbuf') = stream.bytes
    BY <1>2, <2>1, <2>4, <2>5
  <2>7. QED
    BY <2>1, <2>2, <2>3, <2>4, <2>6 DEF AccountInv
<1>7. CASE DecodeComplete
  <2>1. /\ UNCHANGED <<stream, sbuf, slim, lms, hist>>
        /\ decode.state = "RUNNING" /\ decode'.state = "COMPLETE"
        /\ stream.state \in Ended /\ Len(sbuf) = 0
    BY <1>1, <1>7 DEF DecodeComplete, Decoding, Rested, Decoders
  <2>2. slim.pc \notin {"connect", "open"}
    BY <2>1 DEF StreamInv
  <2>3. QED
    BY <1>2, <2>1, <2>2 DEF AccountInv, NothingLost
<1>8. CASE Requests
  <2>1. slim'.pc = "connect" /\ decode'.state = "READY" /\ hist'.frames = 0
    BY <1>1, <1>8 DEF Requests, Strm_s, CodecOpened, Decoders, Slims, Histories
  <2>2. QED
    BY <2>1 DEF AccountInv, NothingLost
<1>9. CASE StreamUnreachable \/ StreamFlush
  <2>1. /\ UNCHANGED <<decode, lms, hist>> /\ slim.pc = "connect"
        /\ slim'.pc = "open" \/ ~stream'.ok
    BY <1>1, <1>9 DEF StreamUnreachable, StreamStarted, StreamFlush, Goto, Slims, Streams
  <2>2. decode.state = "READY"
    BY <2>1 DEF StreamInv
  <2>3. QED
    BY <2>1, <2>2 DEF AccountInv, NothingLost
<1>10. CASE StreamOpen
  <2>1. /\ UNCHANGED <<sbuf, decode, lms, hist>> /\ slim.pc = "open" /\ slim'.pc = "idle"
        /\ stream'.bytes = 0 /\ stream'.left = lms.len /\ stream'.state \notin Ended
    <3>1. lms.len \in 0..MaxLen /\ (slim.autostart >= 2) \in BOOLEAN
      BY <1>1 DEF Servers
    <3>2. QED
      BY <1>1, <1>10, <3>1 DEF StreamOpen, StreamStarted, Slims, Streams, Ended
  <2>2. Len(sbuf) = 0 /\ hist.frames = 0 /\ decode.state = "READY"
    BY <2>1 DEF StreamInv, AccountInv
  <2>3. QED
    BY <1>2, <2>1, <2>2 DEF AccountInv, NothingLost
<1>11. CASE StreamDisconnect \/ StreambufFlush
  <2>1. /\ decode' = decode /\ decode.state = "STOPPED"
        /\ slim'.pc \in {"qStream", "fStream", "idle"}
    BY <1>1, <1>11 DEF StreamDisconnect, StreambufFlush, Goto, Slims, FlushInv, Quitting,
                       Flushing
  <2>2. QED
    BY <2>1 DEF AccountInv, NothingLost
<1>12. QED
  BY <1>3, <1>4, <1>5, <1>6, <1>7, <1>8, <1>9, <1>10, <1>11, OthersKeepAccount DEF Accounting

(* A track the codec calls complete was decoded to its last chunk, unless  *)
(* its stream broke off.                                                   *)
THEOREM PipelineLosesNothing == Spec => []NothingLost
<1> DEFINE IInv == TypeInv /\ FlushInv /\ StreamInv /\ AccountInv
<1>1. Init => IInv
  BY InitTyped, InitFlushed, InitStreams, InitAccount
<1>2. IInv /\ [Next]_vars => IInv'
  BY TypedStep, FlushedStep, StreamsStep, AccountStep
<1>3. IInv => NothingLost
  BY DEF AccountInv
<1>4. QED
  BY <1>1, <1>2, <1>3, PTL DEF Spec

-----------------------------------------------------------------------------
(* The tracks that have begun: most steps leave what is held of them. *)
HeardKept ==
  /\ MarksKept
  /\ hist'.begun = hist.begun /\ lms'.phase = lms.phase
  /\ output'.block = output.block \/ output'.block = << >>
  /\ decode'.state = decode.state \/ decode'.state \in {"COMPLETE", "ERROR"}
  /\ decode.state = "STOPPED" => decode'.state = "STOPPED"
  /\ slim'.pc \in {"qBuffer", "qOutput", "fOutput"}
       <=> slim.pc \in {"qBuffer", "qOutput", "fOutput"}

Hearing == Marking \/ Stops \/ PassStart \/ PassOver

(* Every other step leaves what is heard of as it is. *)
LEMMA OthersHear == TypeInv /\ [Next]_vars => Hearing \/ HeardKept
<1> SUFFICES ASSUME TypeInv, [Next]_vars, ~Hearing PROVE HeardKept
  OBVIOUS
<1>0. MarksKept
  BY OthersKeepMarks DEF Hearing
<1> USE DEF HeardKept
<1>1. /\ decode \in Decoders /\ slim \in Slims /\ lms \in Servers /\ output \in Outputs
      /\ hist \in Histories
  BY DEF TypeInv, TypeOK
<1>2. CASE UNCHANGED vars
  BY <1>0, <1>2 DEF vars
<1>3. CASE StreamThread
  BY <1>0, <1>3 DEF StreamThread, StreamLook, StreamClosed, StreamHeaders, StreamBody,
                    StreamEnd, StreamMeta
<1>4. CASE DecodeThread
  BY <1>0, <1>1, <1>4 DEF DecodeThread, DecodeLook, DecodeSpace, DecodeRest, DecodeComplete,
                          DecodeError, Decoding, Rested, Decoders, Hearing, Marking
<1>5. CASE OutputThread
  BY <1>0, <1>1, <1>5 DEF OutputThread, OutputLook, OutputSend, Outputs, Histories, Hearing,
                          Marking
<1>6. CASE Cont
  BY <1>0, <1>1, <1>6 DEF Cont, Idle, Slims
<1>7. CASE Pause \/ Unpause
  BY <1>0, <1>1, <1>7 DEF Pause, Unpause, Spent, Servers, Slims, Outputs
<1>8. CASE PassStream
  BY <1>0, <1>1, <1>8 DEF PassStream, Idle, Slims
<1>9. CASE SlimThread
  <2>1. CASE StreamUnreachable \/ StreamFlush \/ StreamOpen
    BY <1>0, <1>1, <2>1 DEF StreamUnreachable, StreamFlush, StreamOpen, StreamStarted, Goto,
                            Slims
  <2>2. CASE StreamDisconnect \/ StreambufFlush \/ PassNothing
    BY <1>0, <1>1, <2>2 DEF StreamDisconnect, StreambufFlush, PassNothing, Goto, Slims
  <2>3. QED
    BY <1>9, <2>1, <2>2 DEF SlimThread, Hearing, Marking
<1>10. QED
  BY <1>2, <1>3, <1>4, <1>5, <1>6, <1>7, <1>8, <1>9 DEF Next, Hearing, Marking

(* At first nothing has begun and nothing is held. *)
LEMMA InitHeard == Init => HeardInv
BY DEF Init, HeardInv, HeardBegun

(* When LMS asks for a track no start is marked: it stopped the one before *)
(* or heard it begin.                                                      *)
LEMMA NoneMarked ==
  ASSUME TypeInv, FlushInv, OrderInv, HeardInv, Patient, Requests
  PROVE  output.start = None
<1>1. /\ output \in Outputs /\ lms \in Servers /\ lms.announced \in Seq(Tracks)
  BY DEF TypeInv, TypeOK, Servers
<1>2. output.mark \in Nat /\ output.next \in Nat /\ lms.track \in Nat
  BY <1>1, PipelineAssumption DEF Outputs, Servers
<1>3. slim.pc = "idle" /\ (lms.phase = "free" \/ Contains(lms.announced, lms.track))
  BY DEF Requests, Strm_s, Idle
<1>4. CASE lms.phase = "free"
  BY <1>3, <1>4 DEF HeardInv
<1>5. CASE Contains(lms.announced, lms.track)
  <2>1. PICK i \in 1..Len(lms.announced) : lms.announced[i] = lms.track
    BY <1>5 DEF Contains
  <2>2. lms.track <= output.mark
    BY <2>1 DEF OrderInv
  <2>3. output.start # None => output.mark < output.next /\ output.next <= lms.track
    BY <1>2 DEF OrderInv
  <2>4. QED
    BY <1>2, <2>2, <2>3
<1>6. QED
  BY <1>3, <1>4, <1>5

(* A track is in outputbuf, or in the hands of the output thread, only     *)
(* behind its mark or once the mark was met.                               *)
LEMMA HeardStep ==
  ASSUME TypeInv, FlushInv, StreamInv, OrderInv, StartMark, HeardInv, Patient, [Next]_vars
  PROVE  HeardInv'
<1>1. /\ decode \in Decoders /\ output \in Outputs /\ lms \in Servers /\ slim \in Slims
      /\ hist \in Histories
      /\ out \in Seq(Tracks) /\ Len(out) \in Nat
  BY DEF TypeInv, TypeOK
<1>2. output.start \in Int /\ None \in Int
  BY <1>1, PipelineAssumption DEF Outputs, None
<1>3. CASE HeardKept
  BY <1>3 DEF HeardKept, MarksKept, HeardInv, HeardBegun
<1>4. CASE DecodeFrames
  <2>1. PICK n \in 0..Len(sbuf) :
          /\ Len(out') = Len(out) + n
          /\ \A i \in 1..Len(out) : out'[i] = out[i]
          /\ \A i \in Len(out) + 1..Len(out') : i - Len(out) \in 1..n
                                                /\ out'[i] = sbuf[i - Len(out)]
          /\ ~decode.fresh => output' = output
          /\ decode.fresh => output'.start = Len(out)
          /\ output'.block = output.block /\ hist'.begun = hist.begun
          /\ decode.state = "RUNNING" /\ decode'.state = decode.state /\ ~decode'.fresh
          /\ UNCHANGED <<slim, lms>>
    BY <1>4, FramesDecoded
  <2>2. Mine /\ slim.pc # "qOutput" /\ lms.phase # "free"
    BY <2>1 DEF StreamInv, Unreached, FlushInv, Quitting, HeardInv
  <2>3. n \in Nat /\ Len(sbuf) \in Nat /\ Len(out') \in Nat
    BY <1>1, <2>1 DEF TypeInv, TypeOK
  <2>4. \A i \in 1..Len(out') :
          \/ i \in 1..Len(out) /\ out'[i] = out[i]
          \/ i > Len(out) /\ out'[i] = lms.track
    <3> SUFFICES ASSUME NEW i \in 1..Len(out'), i \notin 1..Len(out)
                 PROVE  i > Len(out) /\ out'[i] = lms.track
      BY <2>1
    <3>1. i \in Len(out) + 1..Len(out')
      BY <1>1, <2>3
    <3>2. i - Len(out) \in 1..Len(sbuf) /\ out'[i] = sbuf[i - Len(out)]
      BY <2>1, <2>3, <3>1
    <3>3. QED
      BY <1>1, <2>2, <3>1, <3>2 DEF Mine
  <2>5. \A i \in 1..Len(out') :
          out'[i] \in hist.begun \/ (output'.start # None /\ i > output'.start)
    <3>1. CASE decode.fresh
      <4>1. \A i \in 1..Len(out) : out[i] \in hist.begun
        BY <3>1 DEF HeardInv
      <4>2. QED
        BY <1>1, <2>1, <2>4, <3>1, <4>1 DEF None
    <3>2. CASE ~decode.fresh
      <4>1. output.start # None \/ lms.track \in hist.begun
        BY <2>1, <3>2 DEF HeardInv
      <4>2. output.start <= Len(out) /\ output' = output
        BY <2>1, <2>2, <3>2 DEF TypeInv, TypeOK
      <4>3. QED
        BY <1>1, <1>2, <2>3, <2>4, <4>1, <4>2 DEF HeardInv
    <3>3. QED
      BY <3>1, <3>2
  <2>6. output'.start # None \/ lms.track \in hist.begun
    BY <1>1, <2>1 DEF HeardInv, None
  <2>7. QED
    BY <2>1, <2>2, <2>5, <2>6 DEF HeardInv, HeardBegun
<1>5. CASE OutputFrames
  <2>1. PICK taken \in 0..Len(out) :
          /\ out' = Dropped(out, taken) /\ output'.block = SubSeq(out, 1, taken)
          /\ \/ /\ output.start # None /\ taken = output.start
                /\ output'.start = None
                /\ hist' = [hist EXCEPT !.begun = @ \cup {output.next}]
             \/ /\ output.start = None \/ taken <= output.start
                /\ output'.start = IF output.start = None THEN None ELSE output.start - taken
                /\ hist' = hist
    BY <1>5, BlockTaken
  <2>2. /\ Len(SubSeq(out, 1, taken)) = taken
        /\ \A i \in 1..taken : SubSeq(out, 1, taken)[i] = out[i]
        /\ Len(Dropped(out, taken)) = Len(out) - taken
        /\ \A i \in 1..Len(out) - taken : Dropped(out, taken)[i] = out[i + taken]
    BY <1>1, <2>1, FrontAndRest
  <2>3. /\ Len(out') = Len(out) - taken
        /\ \A i \in 1..Len(out') : i + taken \in 1..Len(out) /\ out'[i] = out[i + taken]
        /\ Len(output'.block) = taken
        /\ \A i \in 1..taken : i \in 1..Len(out) /\ output'.block[i] = out[i]
    BY <1>1, <2>1, <2>2
  <2>4. UNCHANGED <<decode, slim, lms>>
    BY <1>5 DEF OutputFrames
  <2>5. CASE output.start # None /\ taken = output.start /\ output'.start = None
             /\ hist' = [hist EXCEPT !.begun = @ \cup {output.next}]
    <3>1. hist'.begun = hist.begun \cup {output.next}
      BY <1>1, <2>5 DEF Histories
    <3>2. \A i \in 1..Len(out) : i > taken => out[i] = output.next
      BY <2>5 DEF StartMark
    <3>3. \A i \in 1..Len(out) : i <= taken => out[i] \in hist.begun
      BY <1>2, <2>5 DEF HeardInv
    <3>4. \A i \in 1..Len(out') : out'[i] = output.next
      BY <1>1, <2>3, <3>2
    <3>5. \A i \in 1..taken : output'.block[i] \in hist.begun
      BY <1>1, <2>3, <3>3
    <3>6. ~decode.fresh => lms.track \in hist'.begun
      BY <2>5, <3>1 DEF OrderInv
    <3>7. ~decode.fresh /\ (lms.phase = "free" => decode.state = "STOPPED")
      BY <2>5 DEF HeardInv
    <3>8. QED
      BY <2>3, <2>4, <2>5, <3>1, <3>4, <3>5, <3>6, <3>7 DEF HeardInv, HeardBegun
  <2>6. CASE /\ output.start = None \/ taken <= output.start
             /\ output'.start = IF output.start = None THEN None ELSE output.start - taken
             /\ hist' = hist
    <3>1. \A i \in 1..taken : output'.block[i] \in hist.begun
      BY <1>1, <1>2, <2>3, <2>6 DEF HeardInv
    <3>2. \A i \in 1..Len(out') :
            out'[i] \in hist.begun \/ (output.start # None /\ i + taken > output.start)
      BY <1>1, <1>2, <2>3, <2>6 DEF HeardInv
    <3>3. output'.start = None <=> output.start = None
      BY <1>2, <2>6 DEF None
    <3>4. \A i \in 1..Len(out') :
            out'[i] \in hist.begun \/ (output'.start # None /\ i > output'.start)
      BY <1>1, <1>2, <2>3, <2>6, <3>2, <3>3
    <3>5. QED
      BY <2>3, <2>4, <2>6, <3>1, <3>3, <3>4 DEF HeardInv, HeardBegun
  <2>7. QED
    BY <2>1, <2>5, <2>6
<1>6. CASE Requests
  <2>1. output.start = None
    BY <1>6, NoneMarked
  <2>2. /\ UNCHANGED <<out, output>> /\ hist'.begun = hist.begun
        /\ decode'.state = "READY" /\ decode'.fresh /\ lms'.phase = "streaming"
    BY <1>1, <1>6 DEF Requests, Strm_s, CodecOpened, Decoders, Servers, Histories
  <2>3. QED
    BY <2>1, <2>2 DEF HeardInv, HeardBegun
<1>7. CASE Stops
  <2>1. /\ UNCHANGED <<out, output, hist>> /\ slim'.pc \in {"qBuffer", "fOutput"}
        /\ decode'.state = "STOPPED" /\ decode'.fresh = decode.fresh
    BY <1>1, <1>7 DEF Stops, DecodeFlush, Goto, Decoders, Slims
  <2>2. QED
    BY <2>1 DEF HeardInv, HeardBegun
<1>8. CASE OutputFlushBuffer
  <2>1. /\ UNCHANGED <<decode, output, lms, hist>> /\ out' = << >>
        /\ slim'.pc = "qOutput" /\ slim.pc = "qBuffer"
    BY <1>1, <1>8 DEF OutputFlushBuffer, Goto, Slims
  <2>2. QED
    BY <2>1 DEF HeardInv, HeardBegun
<1>9. CASE OutputFlush \/ OutputFlushStreaming
  <2>1. /\ UNCHANGED <<decode, lms, hist>>
        /\ output'.start = None /\ output'.block = output.block
        /\ decode.state = "STOPPED"
        /\ out' = << >> \/ OutputFlushStreaming
    BY <1>1, <1>9 DEF OutputFlush, OutputFlushStreaming, Outputs, FlushInv, Quitting, Flushing
  <2>2. \A i \in 1..Len(out') : out'[i] \in hist.begun
    <3>1. CASE out' = << >>
      BY <3>1
    <3>2. CASE OutputFlushStreaming /\ output.start = None
      BY <3>2 DEF OutputFlushStreaming, HeardInv
    <3>3. CASE OutputFlushStreaming /\ output.start # None
      <4>1. out' = SubSeq(out, 1, output.start) /\ output.start \in 0..Len(out)
        BY <1>1, <3>3 DEF OutputFlushStreaming, TypeInv, TypeOK, Outputs, None
      <4>2. Len(out') = output.start /\ \A i \in 1..output.start : out'[i] = out[i]
        BY <1>1, <4>1, FrontAndRest
      <4>3. QED
        BY <1>1, <4>1, <4>2 DEF HeardInv
    <3>4. QED
      BY <2>1, <3>1, <3>2, <3>3
  <2>3. QED
    BY <2>1, <2>2 DEF HeardInv, HeardBegun
<1>10. CASE PassOutput
  <2>1. /\ UNCHANGED <<out, decode, hist>>
        /\ output'.start = output.start /\ output'.block = output.block
        /\ lms'.track = lms.track /\ lms'.phase = lms.phase
        /\ slim.pc = "passOutput" /\ slim'.pc = "passDecode"
    BY <1>1, <1>10 DEF PassOutput, Outputs, Servers, Slims
  <2>2. QED
    BY <2>1 DEF HeardInv, HeardBegun
<1>11. CASE PassStart \/ PassOver
  <2>1. /\ UNCHANGED <<out, hist>>
        /\ output'.start = output.start /\ output'.block = output.block
        /\ lms'.track = lms.track
        /\ decode'.fresh = decode.fresh
        /\ \/ decode.state = "READY" /\ lms'.phase = lms.phase
           \/ decode'.state = "STOPPED" /\ lms'.phase = "decoded"
    BY <1>1, <1>11 DEF PassStart, PassOver, Starting, Outputs, Servers, Decoders
  <2>2. decode.state = "READY" => decode.fresh /\ lms.phase # "free"
    BY DEF HeardInv
  <2>3. decode'.state \in {"RUNNING", "STOPPED"}
    BY <1>1, <1>11 DEF PassStart, PassOver, Decoders
  <2>4. QED
    BY <2>1, <2>2, <2>3 DEF HeardInv, HeardBegun
<1>12. QED
  BY <1>3, <1>4, <1>5, <1>6, <1>7, <1>8, <1>9, <1>10, <1>11, OthersHear DEF Hearing, Marking

(* When LMS waits for a track to begin before it asks for the next, it     *)
(* hears of every track that is played.                                    *)
THEOREM PipelineHeard ==
  ASSUME Patient
  PROVE  Spec => []HeardBegun
<1> DEFINE IInv == TypeInv /\ FlushInv /\ StreamInv /\ OrderInv /\ StartMark /\ HeardInv
<1>1. Init => IInv
  <2>1. Init => StartMark
    BY DEF Init, StartMark
  <2>2. QED
    BY <2>1, InitTyped, InitFlushed, InitStreams, InitOrdered, InitHeard
<1>2. IInv /\ [Next]_vars => IInv'
  BY TypedStep, FlushedStep, StreamsStep, OrderedStep, StartStep, HeardStep
<1>3. IInv => HeardBegun
  BY DEF HeardInv
<1>4. QED
  BY <1>1, <1>2, <1>3, PTL DEF Spec

-----------------------------------------------------------------------------
(* No track has begun after the one the output thread met last ... *)
BegunInv == \A t \in hist.begun : t <= output.mark

(* ... since the only step that lets one begin is the one that meets it. *)
LEMMA BegunStep ==
  ASSUME TypeInv, OrderInv, BegunInv, [Next]_vars
  PROVE  BegunInv'
<1>1. /\ output \in Outputs /\ hist \in Histories
      /\ output.mark \in Nat /\ output.next \in Nat
      /\ \A t \in hist.begun : t \in Nat
  BY PipelineAssumption DEF TypeInv, TypeOK, Outputs, Histories, Tracks
<1>2. CASE OutputFrames
  <2>1. \/ /\ output.start # None /\ output'.mark = output.next
           /\ hist' = [hist EXCEPT !.begun = @ \cup {output.next}]
        \/ output'.mark = output.mark /\ hist' = hist
    BY <1>2, BlockTaken
  <2>2. output.start # None => output.mark < output.next
    BY DEF OrderInv
  <2>3. CASE output'.mark = output.mark /\ hist' = hist
    BY <2>3 DEF BegunInv
  <2>4. CASE /\ output.start # None /\ output'.mark = output.next
             /\ hist' = [hist EXCEPT !.begun = @ \cup {output.next}]
    <3>1. hist'.begun = hist.begun \cup {output.next}
      BY <1>1, <2>4 DEF Histories
    <3>2. QED
      BY <1>1, <2>2, <2>4, <3>1 DEF BegunInv
  <2>5. QED
    BY <2>1, <2>3, <2>4
<1>3. CASE HeardKept
  BY <1>3 DEF HeardKept, MarksKept, BegunInv
<1>4. CASE DecodeFrames
  <2>1. hist'.begun = hist.begun /\ output'.mark = output.mark
    BY <1>4, FramesDecoded
  <2>2. QED
    BY <2>1 DEF BegunInv
<1>5. CASE \/ Requests \/ Stops \/ OutputFlushBuffer \/ OutputFlush \/ OutputFlushStreaming
           \/ PassOutput \/ PassStart \/ PassOver
  <2>1. hist'.begun = hist.begun /\ output'.mark = output.mark
    BY <1>1, <1>5 DEF Requests, Strm_s, Stops, DecodeFlush, OutputFlushBuffer, OutputFlush,
       OutputFlushStreaming, PassOutput, PassStart, PassOver, Outputs, Histories
  <2>2. QED
    BY <2>1 DEF BegunInv
<1>6. QED
  BY <1>2, <1>3, <1>4, <1>5, OthersHear DEF Hearing, Marking

(* The step of strm 'f' on outputbuf cuts it at the mark, if there is one. *)
LEMMA CutAtMark ==
  ASSUME TypeInv, StartMark, HeardInv, OrderInv, BegunInv, [Next]_vars,
         slim.pc = "fOutput", slim'.pc = "fDisconnect"
  PROVE  \E n \in 0..Len(out) :
           /\ out' = SubSeq(out, 1, n)
           /\ \A i \in 1..Len(out) : out[i] \in hist.begun <=> i <= n
<1>1. /\ output \in Outputs /\ slim \in Slims
      /\ out \in Seq(Tracks) /\ Len(out) \in Nat
  BY DEF TypeInv, TypeOK
<1>2. OutputFlushStreaming
  <2>1. slim' # slim
    OBVIOUS
  <2>2. ~(StreamThread \/ DecodeThread \/ OutputThread)
    BY <2>1 DEF StreamThread, StreamLook, StreamClosed, StreamHeaders, StreamBody, StreamEnd,
       StreamMeta, DecodeThread, DecodeLook, DecodeSpace, DecodeRest, DecodeComplete,
       DecodeFrames, DecodeError, OutputThread, OutputLook, OutputFrames, OutputSend
  <2>3. ~(PassStream \/ Requests \/ Stops \/ Pause \/ Unpause \/ Cont)
    <3>1. ~Idle
      BY DEF Idle
    <3>2. ~(PassStream \/ Requests \/ Stops \/ Pause \/ Cont)
      BY <3>1 DEF PassStream, Requests, Strm_s, Stops, DecodeFlush, Pause, Cont, Order
    <3>3. ~Unpause
      BY <3>1 DEF Unpause, Order
    <3>4. QED
      BY <3>2, <3>3
  <2>4. SlimThread
    BY <2>1, <2>2, <2>3 DEF Next, vars
  <2>5. QED
    BY <2>4 DEF SlimThread, StreamFlush, StreamOpen, StreamUnreachable, OutputFlushBuffer,
       OutputFlush, StreamDisconnect, StreambufFlush, PassOutput, PassStart, PassOver,
       PassNothing
<1>3. CASE output.start = None
  <2>1. out' = out /\ \A i \in 1..Len(out) : out[i] \in hist.begun
    BY <1>2, <1>3 DEF OutputFlushStreaming, HeardInv
  <2>2. out = SubSeq(out, 1, Len(out))
    BY <1>1
  <2>3. Len(out) \in 0..Len(out) /\ \A i \in 1..Len(out) : i <= Len(out)
    BY <1>1
  <2>4. QED
    BY <2>1, <2>2, <2>3
<1>4. CASE output.start # None
  <2>1. output.start \in 0..Len(out) /\ out' = SubSeq(out, 1, output.start)
    BY <1>1, <1>2, <1>4 DEF OutputFlushStreaming, TypeInv, TypeOK, Outputs, None
  <2>2. output.next \notin hist.begun
    <3>1. output.mark < output.next /\ output.mark \in Int /\ output.next \in Int
      BY <1>1, <1>4, PipelineAssumption DEF OrderInv, Outputs
    <3>2. QED
      BY <3>1 DEF BegunInv
  <2>3. \A i \in 1..Len(out) : out[i] \in hist.begun <=> i <= output.start
    <3> SUFFICES ASSUME NEW i \in 1..Len(out)
                 PROVE  out[i] \in hist.begun <=> i <= output.start
      OBVIOUS
    <3>1. CASE i > output.start
      BY <1>4, <2>1, <2>2, <3>1 DEF StartMark
    <3>2. CASE i <= output.start
      BY <2>1, <3>2 DEF HeardInv
    <3>3. QED
      BY <2>1, <3>1, <3>2
  <2>4. QED
    BY <2>1, <2>3
<1>5. QED
  BY <1>3, <1>4

(* strm 'f' leaves of outputbuf the tracks that have begun and nothing     *)
(* else, wherever the codec and the output thread are.                     *)
THEOREM PipelineFlush ==
  ASSUME Patient
  PROVE  Spec => FlushKeepsPlaying
<1> DEFINE IInv == /\ TypeInv /\ FlushInv /\ StreamInv /\ OrderInv
                   /\ StartMark /\ HeardInv /\ BegunInv
<1>1. Init => IInv
  <2>1. Init => StartMark /\ BegunInv
    BY DEF Init, StartMark, BegunInv
  <2>2. QED
    BY <2>1, InitTyped, InitFlushed, InitStreams, InitOrdered, InitHeard
<1>2. IInv /\ [Next]_vars => IInv'
  BY TypedStep, FlushedStep, StreamsStep, OrderedStep, StartStep, HeardStep, BegunStep
<1>3. IInv /\ [Next]_vars =>
        [slim.pc = "fOutput" /\ slim'.pc = "fDisconnect"
           => \E n \in 0..Len(out) :
                /\ out' = SubSeq(out, 1, n)
                /\ \A i \in 1..Len(out) : out[i] \in hist.begun <=> i <= n]_vars
  BY CutAtMark
<1>4. QED
  BY <1>1, <1>2, <1>3, PTL DEF Spec, FlushKeepsPlaying

-----------------------------------------------------------------------------
(* What a patient LMS is told.  output.track_started is one flag for every *)
(* start that is not told of yet: when a start is marked, or may be, LMS   *)
(* was told of the one before, so that the flag never stands for two.      *)
FlagInv ==
  /\ output.start # None => ~output.started
  /\ decode.fresh /\ (decode.state = "RUNNING" \/ slim.pc = "passDecode") => ~output.started

(* The tracks that have begun are those LMS was told of, or is to be. *)
ListInv == hist.begun = {Begun[i] : i \in 1..Len(Begun)}

(* outputbuf holds one track up to the mark and one behind it, a block is  *)
(* of one track, and neither goes back to a track before what was sent.    *)
Beside(i, j) == output.start = None \/ (i > output.start <=> j > output.start)
SideInv ==
  /\ \A i, j \in 1..Len(out) : Beside(i, j) => out[i] = out[j]
  /\ decode.state = "RUNNING" /\ ~decode.fresh /\ output.start = None =>
       \A i \in 1..Len(out) : out[i] = lms.track

HandInv ==
  /\ \A i, j \in 1..Len(output.block) : output.block[i] = output.block[j]
  /\ \A i \in 1..Len(output.block) :
       output.block[i] <= lms.track /\ \A j \in 1..Len(out) : output.block[i] <= out[j]

SentInv ==
  hist.sent # << >> =>
    /\ Len(hist.sent) = 2 /\ hist.sent[2] <= lms.track
    /\ \A i \in 1..Len(output.block) : hist.sent[2] <= output.block[i]
    /\ \A i \in 1..Len(out) : hist.sent[2] <= out[i]

(* At first nothing has begun and nothing was sent. *)
LEMMA InitReports == Init => FlagInv /\ ListInv /\ SideInv /\ HandInv /\ SentInv
BY DEF Init, FlagInv, ListInv, SideInv, HandInv, SentInv, Begun

(* Only the pass under O leads to the pass under D. *)
LEMMA OthersStart ==
  TypeInv /\ [Next]_vars =>
    \/ Hearing
    \/ HeardKept /\ (slim'.pc = "passDecode" => slim.pc = "passDecode")
<1> SUFFICES ASSUME TypeInv, [Next]_vars, ~Hearing, slim'.pc = "passDecode"
             PROVE  slim.pc = "passDecode"
  BY OthersHear
<1>1. slim \in Slims
  BY DEF TypeInv, TypeOK
<1>2. CASE UNCHANGED slim
  BY <1>2
<1>3. CASE StreamThread \/ DecodeThread \/ OutputThread
  BY <1>2, <1>3 DEF StreamThread, StreamLook, StreamClosed, StreamHeaders, StreamBody, StreamEnd,
     StreamMeta, DecodeThread, DecodeLook, DecodeSpace, DecodeRest, DecodeComplete,
     DecodeFrames, DecodeError, OutputThread, OutputLook, OutputFrames, OutputSend
<1>4. CASE Pause \/ Unpause \/ Cont
  BY <1>1, <1>4 DEF Pause, Unpause, Cont, Slims
<1>5. CASE PassStream
  BY <1>1, <1>5 DEF PassStream, Slims
<1>6. CASE SlimThread
  <2>1. CASE StreamUnreachable \/ StreamFlush \/ StreamOpen
    BY <1>1, <2>1 DEF StreamUnreachable, StreamFlush, StreamOpen, StreamStarted, Goto, Slims
  <2>2. CASE StreamDisconnect \/ StreambufFlush \/ PassNothing
    BY <1>1, <2>2 DEF StreamDisconnect, StreambufFlush, PassNothing, Goto, Slims
  <2>3. QED
    BY <1>6, <2>1, <2>2 DEF SlimThread, Hearing, Marking
<1>7. CASE UNCHANGED vars
  BY <1>7 DEF vars
<1>8. QED
  BY <1>3, <1>4, <1>5, <1>6, <1>7 DEF Next, Hearing, Marking

(* Only the output thread takes a block or sends it. *)
LEMMA OthersSend ==
  TypeInv /\ [Next]_vars =>
    \/ OutputFrames \/ OutputSend
    \/ output'.block = output.block /\ hist'.sent = hist.sent
<1> SUFFICES ASSUME TypeInv, [Next]_vars, ~OutputFrames, ~OutputSend
             PROVE  output'.block = output.block /\ hist'.sent = hist.sent
  OBVIOUS
<1>1. output \in Outputs /\ hist \in Histories
  BY DEF TypeInv, TypeOK
<1>2. CASE UNCHANGED <<output, hist>>
  BY <1>2
<1>3. CASE StreamThread
  BY <1>2, <1>3 DEF StreamThread, StreamLook, StreamClosed, StreamHeaders, StreamBody,
     StreamEnd, StreamMeta
<1>4. CASE DecodeThread
  <2>1. CASE DecodeFrames
    BY <1>1, <2>1 DEF DecodeFrames, Outputs, Histories
  <2>2. QED
    BY <1>2, <1>4, <2>1 DEF DecodeThread, DecodeLook, DecodeSpace, DecodeRest,
       DecodeComplete, DecodeError
<1>5. CASE OutputThread
  BY <1>1, <1>5 DEF OutputThread, OutputLook, Outputs
<1>6. CASE Requests
  BY <1>1, <1>6 DEF Requests, Strm_s, Histories
<1>7. CASE Stops \/ Cont \/ PassStream
  BY <1>2, <1>7 DEF Stops, DecodeFlush, Cont, PassStream
<1>8. CASE Pause \/ Unpause
  BY <1>1, <1>8 DEF Pause, Unpause, Outputs
<1>9. CASE SlimThread
  <2>1. CASE OutputFlush \/ OutputFlushStreaming
    BY <1>1, <2>1 DEF OutputFlush, OutputFlushStreaming, Outputs
  <2>2. CASE PassOutput \/ PassStart
    BY <1>1, <2>2 DEF PassOutput, PassStart, Outputs
  <2>3. QED
    BY <1>2, <1>9, <2>1, <2>2 DEF SlimThread, StreamFlush, StreamOpen, StreamUnreachable,
       OutputFlushBuffer, StreamDisconnect, StreambufFlush, PassOver, PassNothing
<1>10. CASE UNCHANGED vars
  BY <1>2, <1>10 DEF vars
<1>11. QED
  BY <1>3, <1>4, <1>5, <1>6, <1>7, <1>8, <1>9, <1>10 DEF Next

(* The flag is down whenever a start is marked: LMS was told of the last   *)
(* one before it asked for the track, or its stop of the last one makes    *)
(* the pass that starts the codec tell it first.                           *)
LEMMA FlagStep ==
  ASSUME TypeInv, HeardInv, FlagInv, [Next]_vars
  PROVE  FlagInv'
<1>1. /\ decode \in Decoders /\ output \in Outputs /\ slim \in Slims
  BY DEF TypeInv, TypeOK
<1>2. CASE HeardKept /\ (slim'.pc = "passDecode" => slim.pc = "passDecode")
  BY <1>2 DEF HeardKept, MarksKept, FlagInv
<1>3. CASE DecodeFrames
  <2>1. /\ output'.started = output.started /\ ~decode'.fresh
        /\ ~decode.fresh => output' = output
        /\ decode.state = "RUNNING"
    BY <1>3, FramesDecoded
  <2>2. QED
    BY <2>1 DEF FlagInv
<1>4. CASE OutputFrames
  <2>1. \/ output.start # None /\ output'.start = None
        \/ /\ output'.start = None <=> output.start = None
           /\ output'.started = output.started
    <3>1. PICK taken \in 0..Len(out) :
            \/ output.start # None /\ output'.start = None
            \/ /\ output.start = None \/ taken <= output.start
               /\ output'.start = IF output.start = None THEN None ELSE output.start - taken
               /\ output'.started = output.started
      BY <1>4, BlockTaken
    <3>2. output.start \in Int /\ taken \in Int
      BY <1>1, PipelineAssumption DEF TypeInv, TypeOK, Outputs, None
    <3>3. QED
      BY <3>1, <3>2 DEF None
  <2>2. UNCHANGED <<decode, slim>>
    BY <1>4 DEF OutputFrames
  <2>3. decode.fresh => output.start = None
    BY DEF HeardInv
  <2>4. QED
    BY <2>1, <2>2, <2>3 DEF FlagInv
<1>5. CASE Requests
  <2>1. output' = output /\ decode'.state = "READY" /\ slim'.pc = "connect"
    BY <1>1, <1>5 DEF Requests, Strm_s, CodecOpened, Decoders, Slims
  <2>2. QED
    BY <2>1 DEF FlagInv
<1>6. CASE Stops
  <2>1. output' = output /\ decode'.state = "STOPPED" /\ slim'.pc \in {"qBuffer", "fOutput"}
    BY <1>1, <1>6 DEF Stops, DecodeFlush, Goto, Decoders, Slims
  <2>2. QED
    BY <2>1 DEF FlagInv
<1>7. CASE OutputFlushBuffer
  <2>1. UNCHANGED <<output, decode>> /\ slim'.pc = "qOutput"
    BY <1>1, <1>7 DEF OutputFlushBuffer, Goto, Slims
  <2>2. QED
    BY <2>1 DEF FlagInv
<1>8. CASE OutputFlush \/ OutputFlushStreaming
  <2>1. /\ decode' = decode /\ output'.start = None /\ output'.started = output.started
        /\ slim'.pc \in {"qDisconnect", "fDisconnect"}
    BY <1>1, <1>8 DEF OutputFlush, OutputFlushStreaming, Goto, Outputs, Slims
  <2>2. QED
    BY <2>1 DEF FlagInv
<1>9. CASE PassOutput
  <2>1. ~output'.started
    BY <1>1, <1>9 DEF PassOutput, Outputs
  <2>2. QED
    BY <2>1 DEF FlagInv
<1>10. CASE PassStart
  <2>1. /\ slim.pc = "passDecode" /\ slim'.pc = "idle" /\ decode'.fresh = decode.fresh
        /\ output'.start = output.start /\ output'.started = output.started
    BY <1>1, <1>10 DEF PassStart, Decoders, Slims, Outputs
  <2>2. QED
    BY <2>1 DEF FlagInv
<1>11. CASE PassOver
  <2>1. output' = output /\ decode'.state = "STOPPED" /\ slim'.pc \in {"passDisconnect", "idle"}
    BY <1>1, <1>11 DEF PassOver, Goto, Decoders, Slims
  <2>2. QED
    BY <2>1 DEF FlagInv
<1>12. QED
  BY <1>2, <1>3, <1>4, <1>5, <1>6, <1>7, <1>8, <1>9, <1>10, <1>11, OthersStart
     DEF Hearing, Marking

(* The elements of a sequence with one more. *)
LEMMA OneMore ==
  ASSUME NEW S, NEW seq \in Seq(S), NEW x \in S
  PROVE  {Append(seq, x)[i] : i \in 1..Len(Append(seq, x))}
           = {seq[i] : i \in 1..Len(seq)} \cup {x}
<1>1. /\ Len(seq) \in Nat /\ Len(Append(seq, x)) = Len(seq) + 1
      /\ \A i \in 1..Len(seq) : Append(seq, x)[i] = seq[i]
      /\ Append(seq, x)[Len(seq) + 1] = x
  OBVIOUS
<1>2. 1..Len(Append(seq, x)) = 1..Len(seq) \cup {Len(seq) + 1}
  BY <1>1
<1> DEFINE more == Append(seq, x)
           len == Len(seq)
<1>3. {more[i] : i \in 1..len \cup {len + 1}} = {more[i] : i \in 1..len} \cup {more[len + 1]}
  OBVIOUS
<1>4. {more[i] : i \in 1..len} = {seq[i] : i \in 1..len}
  BY <1>1
<1>5. QED
  BY <1>1, <1>2, <1>3, <1>4

(* A track begins when the output thread meets its mark, and then LMS was  *)
(* told of all the others; to be told of changes nothing of that.          *)
LEMMA BegunMoves ==
  ASSUME TypeInv, FlagInv, [Next]_vars
  PROVE  \/ Begun' = Begun /\ hist'.begun = hist.begun
         \/ /\ OutputFrames /\ output.start # None
            /\ Begun = lms.announced /\ lms' = lms
            /\ Begun' = Append(Begun, output.next)
            /\ hist'.begun = hist.begun \cup {output.next}
            /\ hist'.sent = hist.sent
<1>1. /\ output \in Outputs /\ lms \in Servers /\ hist \in Histories
  BY DEF TypeInv, TypeOK
<1>2. CASE /\ lms'.announced = lms.announced /\ output'.started = output.started
           /\ output'.mark = output.mark /\ hist'.begun = hist.begun
  BY <1>2 DEF Begun
<1>3. CASE HeardKept
  BY <1>2, <1>3 DEF HeardKept, MarksKept
<1>4. CASE DecodeFrames
  <2>1. /\ lms' = lms /\ output'.started = output.started
        /\ output'.mark = output.mark /\ hist'.begun = hist.begun
    BY <1>4, FramesDecoded
  <2>2. QED
    BY <1>2, <2>1
<1>5. CASE OutputFrames
  <2>1. lms' = lms
    BY <1>5 DEF OutputFrames
  <2>2. \/ /\ output.start # None
           /\ output'.started /\ output'.mark = output.next
           /\ hist' = [hist EXCEPT !.begun = @ \cup {output.next}]
        \/ output'.started = output.started /\ output'.mark = output.mark /\ hist' = hist
    BY <1>5, BlockTaken
  <2>3. CASE output'.started = output.started /\ output'.mark = output.mark /\ hist' = hist
    BY <1>2, <2>1, <2>3
  <2>4. CASE /\ output.start # None
             /\ output'.started /\ output'.mark = output.next
             /\ hist' = [hist EXCEPT !.begun = @ \cup {output.next}]
    <3>1. ~output.started
      BY <2>4 DEF FlagInv
    <3>2. Begun = lms.announced /\ Begun' = Append(lms.announced, output.next)
      BY <2>1, <2>4, <3>1 DEF Begun
    <3>3. hist'.begun = hist.begun \cup {output.next} /\ hist'.sent = hist.sent
      BY <1>1, <2>4 DEF Histories
    <3>4. QED
      BY <1>5, <2>1, <2>4, <3>2, <3>3
  <2>5. QED
    BY <2>2, <2>3, <2>4
<1>6. CASE PassOutput
  <2>1. hist' = hist /\ output'.mark = output.mark /\ ~output'.started
    BY <1>1, <1>6 DEF PassOutput, Outputs
  <2>2. lms'.announced = Begun
    BY <1>1, <1>6 DEF PassOutput, Begun, Servers
  <2>3. QED
    BY <2>1, <2>2 DEF Begun
<1>7. CASE Requests \/ Stops
  <2>1. output' = output /\ lms'.announced = lms.announced /\ hist'.begun = hist.begun
    BY <1>1, <1>7 DEF Requests, Strm_s, Stops, DecodeFlush, Spent, Servers, Histories
  <2>2. QED
    BY <1>2, <2>1
<1>8. CASE OutputFlushBuffer \/ OutputFlush \/ OutputFlushStreaming
  <2>1. /\ UNCHANGED <<lms, hist>>
        /\ output'.started = output.started /\ output'.mark = output.mark
    BY <1>1, <1>8 DEF OutputFlushBuffer, OutputFlush, OutputFlushStreaming, Outputs
  <2>2. QED
    BY <1>2, <2>1
<1>9. CASE PassStart \/ PassOver
  <2>1. /\ hist' = hist /\ lms'.announced = lms.announced
        /\ output'.started = output.started /\ output'.mark = output.mark
    BY <1>1, <1>9 DEF PassStart, PassOver, Outputs, Servers
  <2>2. QED
    BY <1>2, <2>1
<1>10. QED
  BY <1>3, <1>4, <1>5, <1>6, <1>7, <1>8, <1>9, OthersHear DEF Hearing, Marking

(* The history of the tracks that have begun is the list behind Begun. *)
LEMMA ListStep ==
  ASSUME TypeInv, FlagInv, ListInv, [Next]_vars
  PROVE  ListInv'
<1>1. CASE Begun' = Begun /\ hist'.begun = hist.begun
  BY <1>1 DEF ListInv
<1>2. CASE /\ output.start # None
           /\ Begun = lms.announced
           /\ Begun' = Append(Begun, output.next)
           /\ hist'.begun = hist.begun \cup {output.next}
  <2>1. Begun \in Seq(Tracks) /\ output.next \in Tracks
    BY <1>2 DEF TypeInv, TypeOK, Typed, Servers
  <2>2. QED
    BY <1>2, <2>1, OneMore DEF ListInv
<1>3. QED
  BY <1>1, <1>2, BegunMoves

(* What the codec adds to outputbuf is of the track LMS asked for last. *)
LEMMA FramesOfTrack ==
  ASSUME TypeInv, StreamInv, DecodeFrames
  PROVE  \A i \in 1..Len(out') :
           \/ i \in 1..Len(out) /\ out'[i] = out[i]
           \/ i > Len(out) /\ out'[i] = lms.track
<1>1. PICK n \in 0..Len(sbuf) :
        /\ Len(out') = Len(out) + n
        /\ \A i \in 1..Len(out) : out'[i] = out[i]
        /\ \A i \in Len(out) + 1..Len(out') : i - Len(out) \in 1..n
                                              /\ out'[i] = sbuf[i - Len(out)]
        /\ decode.state = "RUNNING"
  BY FramesDecoded
<1>2. Mine
  BY <1>1 DEF StreamInv, Unreached
<1>3. Len(out) \in Nat /\ Len(sbuf) \in Nat /\ Len(out') \in Nat
  BY <1>1 DEF TypeInv, TypeOK
<1> SUFFICES ASSUME NEW i \in 1..Len(out'), i \notin 1..Len(out)
             PROVE  i > Len(out) /\ out'[i] = lms.track
  BY <1>1
<1>4. i \in Len(out) + 1..Len(out')
  BY <1>3
<1>5. i - Len(out) \in 1..Len(sbuf) /\ out'[i] = sbuf[i - Len(out)]
  BY <1>1, <1>3, <1>4
<1>6. QED
  BY <1>2, <1>3, <1>4, <1>5 DEF Mine

(* Every step but those of the codec and of the output thread keeps a      *)
(* front part of outputbuf.                                                *)
LEMMA FrontKept ==
  TypeInv /\ [Next]_vars =>
    \/ DecodeFrames \/ OutputFrames
    \/ /\ lms'.track \in {lms.track, lms.track + 1}
       /\ Len(out') \in Nat
       /\ \A i \in 1..Len(out') : i \in 1..Len(out) /\ out'[i] = out[i]
<1> SUFFICES ASSUME TypeInv, [Next]_vars, ~DecodeFrames, ~OutputFrames
             PROVE  /\ lms'.track \in {lms.track, lms.track + 1}
                    /\ Len(out') \in Nat
                    /\ \A i \in 1..Len(out') : i \in 1..Len(out) /\ out'[i] = out[i]
  OBVIOUS
<1>1. /\ lms \in Servers /\ out \in Seq(Tracks) /\ Len(out) \in Nat
  BY DEF TypeInv, TypeOK
<1>2. CASE lms'.track = lms.track /\ out' = out
  BY <1>1, <1>2
<1>3. CASE MarksKept
  BY <1>2, <1>3 DEF MarksKept
<1>4. CASE Requests
  BY <1>1, <1>4 DEF Requests, Strm_s, Servers
<1>5. CASE OutputFlushBuffer
  BY <1>1, <1>5 DEF OutputFlushBuffer
<1>6. CASE OutputFlush \/ PassOutput
  <2>1. out' = out /\ lms'.track = lms.track
    BY <1>1, <1>6 DEF OutputFlush, PassOutput, Servers
  <2>2. QED
    BY <1>2, <2>1
<1>7. CASE OutputFlushStreaming
  <2>1. lms' = lms
    BY <1>7 DEF OutputFlushStreaming
  <2>2. CASE output.start = None
    BY <1>2, <1>7, <2>1, <2>2 DEF OutputFlushStreaming
  <2>3. CASE output.start # None
    <3>1. output.start \in 0..Len(out)
      BY <1>1, <1>7, <2>3 DEF OutputFlushStreaming, TypeInv, TypeOK, Outputs, None
    <3>2. out' = SubSeq(out, 1, output.start)
      BY <1>7, <2>3 DEF OutputFlushStreaming
    <3>3. Len(out') = output.start /\ \A i \in 1..output.start : out'[i] = out[i]
      BY <1>1, <3>1, <3>2, FrontAndRest
    <3>4. QED
      BY <1>1, <2>1, <3>1, <3>3
  <2>4. QED
    BY <2>2, <2>3
<1>8. QED
  BY <1>3, <1>4, <1>5, <1>6, <1>7, OthersKeepMarks DEF Marking

(* The output thread takes a front part of outputbuf that is on one side   *)
(* of the mark, if there is one.                                           *)
LEMMA FrontTaken ==
  ASSUME TypeInv, OutputFrames
  PROVE  \E taken \in 0..Len(out) :
           /\ Len(out') = Len(out) - taken
           /\ \A i \in 1..Len(out') : i + taken \in 1..Len(out) /\ out'[i] = out[i + taken]
           /\ Len(output'.block) = taken
           /\ \A i \in 1..taken : i \in 1..Len(out) /\ output'.block[i] = out[i]
           /\ \/ /\ output.start # None /\ taken = output.start /\ output'.start = None
              \/ /\ output.start # None /\ taken <= output.start
                 /\ output'.start = output.start - taken
              \/ output.start = None /\ output'.start = None
           /\ output'.next = output.next
           /\ UNCHANGED <<decode, slim, lms>> /\ hist'.sent = hist.sent
<1>1. /\ out \in Seq(Tracks) /\ Len(out) \in Nat /\ hist \in Histories
  BY DEF TypeInv, TypeOK
<1>2. PICK taken \in 0..Len(out) :
        /\ out' = Dropped(out, taken) /\ output'.block = SubSeq(out, 1, taken)
        /\ \/ /\ output.start # None /\ taken = output.start /\ output'.start = None
              /\ hist' = [hist EXCEPT !.begun = @ \cup {output.next}]
           \/ /\ output.start = None \/ taken <= output.start
              /\ output'.start = IF output.start = None THEN None ELSE output.start - taken
              /\ hist' = hist
        /\ output'.next = output.next
  BY BlockTaken
<1>3. /\ Len(SubSeq(out, 1, taken)) = taken
      /\ \A i \in 1..taken : SubSeq(out, 1, taken)[i] = out[i]
      /\ Len(Dropped(out, taken)) = Len(out) - taken
      /\ \A i \in 1..Len(out) - taken : Dropped(out, taken)[i] = out[i + taken]
  BY <1>1, <1>2, FrontAndRest
<1>4. /\ Len(out') = Len(out) - taken
      /\ \A i \in 1..Len(out') : i + taken \in 1..Len(out) /\ out'[i] = out[i + taken]
      /\ Len(output'.block) = taken
      /\ \A i \in 1..taken : i \in 1..Len(out) /\ output'.block[i] = out[i]
  BY <1>1, <1>2, <1>3
<1>5. hist'.sent = hist.sent
  BY <1>1, <1>2 DEF Histories
<1>6. UNCHANGED <<decode, slim, lms>>
  BY DEF OutputFrames
<1>7. \/ /\ output.start # None /\ taken = output.start /\ output'.start = None
      \/ /\ output.start # None /\ taken <= output.start
         /\ output'.start = output.start - taken
      \/ output.start = None /\ output'.start = None
  BY <1>2
<1>8. WITNESS taken \in 0..Len(out)
<1>9. QED
  BY <1>2, <1>4, <1>5, <1>6, <1>7

(* outputbuf holds no more than two tracks, one on each side of the mark.  *)
LEMMA SideStep ==
  ASSUME TypeInv, FlushInv, StreamInv, OrderInv, StartMark, HeardInv, SideInv, [Next]_vars
  PROVE  SideInv'
<1>1. /\ decode \in Decoders /\ output \in Outputs /\ slim \in Slims
      /\ out \in Seq(Tracks) /\ Len(out) \in Nat
  BY DEF TypeInv, TypeOK
<1>2. /\ output.start \in Int /\ None \in Int /\ None < 0 /\ lms.track \in Nat
      /\ \A i \in 1..Len(out) : out[i] \in Nat
  BY Numbered DEF TypeInv, None
<1>3. CASE HeardKept
  BY <1>3 DEF HeardKept, MarksKept, SideInv, Beside
<1>4. CASE DecodeFrames
  <2>1. /\ Len(out') \in Nat
        /\ ~decode.fresh => output' = output
        /\ decode.fresh => output'.start = Len(out) /\ output'.next = lms.track
        /\ decode.state = "RUNNING" /\ lms' = lms
    BY <1>4, FramesDecoded DEF TypeInv, TypeOK
  <2>2. \A i \in 1..Len(out') :
          \/ i \in 1..Len(out) /\ out'[i] = out[i]
          \/ i > Len(out) /\ out'[i] = lms.track
    BY <1>4, FramesOfTrack
  <2>3. CASE decode.fresh
    <3>1. \A i, j \in 1..Len(out) : out[i] = out[j]
      BY <2>3 DEF HeardInv, SideInv, Beside
    <3>2. output'.start = Len(out) /\ output'.start # None
      BY <1>1, <1>2, <2>1, <2>3
    <3>3. \A i, j \in 1..Len(out') : Beside(i, j)' => out'[i] = out'[j]
      BY <1>1, <2>2, <3>1, <3>2 DEF Beside
    <3>4. QED
      BY <3>2, <3>3 DEF SideInv
  <2>4. CASE ~decode.fresh /\ output.start = None
    <3>1. \A i \in 1..Len(out) : out[i] = lms.track
      BY <2>1, <2>4 DEF SideInv
    <3>2. \A i \in 1..Len(out') : out'[i] = lms'.track
      BY <2>1, <2>2, <3>1
    <3>3. QED
      BY <3>2 DEF SideInv
  <2>5. CASE ~decode.fresh /\ output.start # None
    <3>1. output.start <= Len(out) /\ output' = output
      BY <2>1, <2>5 DEF TypeInv, TypeOK, FlushInv, Quitting
    <3>2. output.next = lms.track
      BY <2>5 DEF OrderInv
    <3>3. \A i \in 1..Len(out) : i > output.start => out[i] = lms.track
      BY <2>5, <3>2 DEF StartMark
    <3>4. \A i, j \in 1..Len(out) : (i > output.start <=> j > output.start) => out[i] = out[j]
      BY DEF SideInv, Beside
    <3>5. ASSUME NEW i \in 1..Len(out'), NEW j \in 1..Len(out'),
                 i > output.start <=> j > output.start
          PROVE  out'[i] = out'[j]
      <4>1. CASE i > output.start
        BY <2>2, <3>3, <3>5, <4>1
      <4>2. CASE ~(i > output.start)
        <5>1. i \in 1..Len(out) /\ j \in 1..Len(out)
          BY <1>1, <1>2, <2>1, <3>1, <3>5, <4>2
        <5>2. out'[i] = out[i] /\ out'[j] = out[j]
          BY <1>1, <2>2, <5>1
        <5>3. QED
          BY <3>4, <3>5, <5>1, <5>2
      <4>3. QED
        BY <4>1, <4>2
    <3>6. QED
      BY <2>5, <3>1, <3>5 DEF SideInv, Beside
  <2>6. QED
    BY <2>3, <2>4, <2>5
<1>5. CASE OutputFrames
  <2>1. PICK taken \in 0..Len(out) :
          /\ Len(out') = Len(out) - taken
          /\ \A i \in 1..Len(out') : i + taken \in 1..Len(out) /\ out'[i] = out[i + taken]
          /\ \/ /\ output.start # None /\ taken = output.start /\ output'.start = None
             \/ /\ output.start # None /\ taken <= output.start
                /\ output'.start = output.start - taken
             \/ output.start = None /\ output'.start = None
          /\ UNCHANGED <<decode, slim, lms>>
    BY <1>5, FrontTaken
  <2>2. CASE output.start # None /\ taken = output.start /\ output'.start = None
    <3>1. \A i \in 1..Len(out) : i > taken => out[i] = output.next
      BY <2>2 DEF StartMark
    <3>2. ASSUME NEW i \in 1..Len(out') PROVE out'[i] = output.next
      <4>1. i + taken \in 1..Len(out) /\ out'[i] = out[i + taken]
        BY <2>1
      <4>2. i + taken > taken
        OBVIOUS
      <4>3. QED
        BY <3>1, <4>1, <4>2
    <3>3. ~decode.fresh => output.next = lms.track
      BY <2>2 DEF OrderInv
    <3>4. QED
      BY <2>1, <3>2, <3>3 DEF SideInv
  <2>3. CASE output.start # None /\ taken <= output.start /\ output'.start = output.start - taken
    <3>1. output'.start # None
      BY <1>2, <2>1, <2>3
    <3>2. ASSUME NEW i \in 1..Len(out'), NEW j \in 1..Len(out'), Beside(i, j)'
          PROVE  out'[i] = out'[j]
      <4>1. i + taken \in 1..Len(out) /\ j + taken \in 1..Len(out)
        BY <2>1
      <4>2. i + taken > output.start <=> j + taken > output.start
        BY <1>2, <2>1, <2>3, <3>1, <3>2 DEF Beside
      <4>3. out[i + taken] = out[j + taken]
        BY <4>1, <4>2 DEF SideInv, Beside
      <4>4. QED
        BY <2>1, <4>3
    <3>3. QED
      BY <3>1, <3>2 DEF SideInv
  <2>4. CASE output.start = None /\ output'.start = None
    <3>1. \A i, j \in 1..Len(out) : out[i] = out[j]
      BY <2>4 DEF SideInv, Beside
    <3>2. \A i, j \in 1..Len(out') : out'[i] = out'[j]
      BY <2>1, <3>1
    <3>3. decode.state = "RUNNING" /\ ~decode.fresh => \A i \in 1..Len(out) : out[i] = lms.track
      BY <2>4 DEF SideInv
    <3>4. decode.state = "RUNNING" /\ ~decode.fresh => \A i \in 1..Len(out') : out'[i] = lms.track
      BY <2>1, <3>3
    <3>5. QED
      BY <2>1, <3>2, <3>4 DEF SideInv
  <2>5. QED
    BY <2>1, <2>2, <2>3, <2>4
<1>6. CASE Requests \/ Stops
  <2>1. UNCHANGED <<out, output>> /\ decode'.state # "RUNNING"
    BY <1>1, <1>6 DEF Requests, Strm_s, Stops, DecodeFlush, CodecOpened, Decoders
  <2>2. QED
    BY <2>1 DEF SideInv, Beside
<1>7. CASE OutputFlushBuffer \/ OutputFlush
  <2>1. out' = << >>
    BY <1>7 DEF OutputFlushBuffer, OutputFlush, FlushInv, Quitting
  <2>2. QED
    BY <2>1 DEF SideInv
<1>8. CASE OutputFlushStreaming
  <2>1. decode.state = "STOPPED" /\ decode' = decode
    BY <1>8 DEF OutputFlushStreaming, FlushInv, Flushing
  <2>2. \A i, j \in 1..Len(out') : out'[i] = out'[j]
    <3>1. CASE output.start = None
      BY <1>8, <3>1 DEF OutputFlushStreaming, SideInv, Beside
    <3>2. CASE output.start # None
      <4>1. output.start \in 0..Len(out) /\ out' = SubSeq(out, 1, output.start)
        BY <1>1, <1>8, <3>2 DEF OutputFlushStreaming, TypeInv, TypeOK, Outputs, None
      <4>2. Len(out') = output.start /\ \A i \in 1..output.start : out'[i] = out[i]
        BY <1>1, <4>1, FrontAndRest
      <4>3. \A i, j \in 1..output.start : out[i] = out[j]
        <5>1. \A i \in 1..output.start : i \in 1..Len(out) /\ ~(i > output.start)
          BY <1>1, <4>1
        <5>2. QED
          BY <5>1 DEF SideInv, Beside
      <4>4. QED
        BY <4>2, <4>3
    <3>3. QED
      BY <3>1, <3>2
  <2>3. QED
    BY <2>1, <2>2 DEF SideInv
<1>9. CASE PassOutput
  <2>1. UNCHANGED <<out, decode>> /\ output'.start = output.start /\ lms'.track = lms.track
    BY <1>1, <1>9 DEF PassOutput, Outputs, TypeInv, TypeOK, Servers
  <2>2. QED
    BY <2>1 DEF SideInv, Beside
<1>10. CASE PassStart \/ PassOver
  <2>1. /\ out' = out /\ output'.start = output.start
        /\ decode'.fresh = decode.fresh
        /\ decode'.state = "RUNNING" => decode.state = "READY"
    BY <1>1, <1>10 DEF PassStart, PassOver, Starting, Decoders, Outputs
  <2>2. decode.state = "READY" => decode.fresh
    BY DEF HeardInv
  <2>3. QED
    BY <2>1, <2>2 DEF SideInv, Beside
<1>11. QED
  BY <1>3, <1>4, <1>5, <1>6, <1>7, <1>8, <1>9, <1>10, OthersHear DEF Hearing, Marking

(* The output thread holds one track, which outputbuf does not go back on. *)
LEMMA HandStep ==
  ASSUME TypeInv, StreamInv, OrderInv, StartMark, SideInv, HandInv, [Next]_vars
  PROVE  HandInv'
<1>1. /\ output \in Outputs /\ hist \in Histories /\ out \in Seq(Tracks) /\ Len(out) \in Nat
      /\ output.block \in Seq(Tracks) /\ Tracks \subseteq Nat
  BY PipelineAssumption DEF TypeInv, TypeOK, Outputs, Tracks
<1>2. /\ output.start \in Int /\ lms.track \in Nat
      /\ \A i \in 1..Len(out) : out[i] \in Nat
      /\ \A i \in 1..Len(output.block) : output.block[i] \in Nat
  <2>1. \A i \in 1..Len(output.block) : output.block[i] \in Tracks
    BY <1>1
  <2>2. QED
    BY <1>1, <2>1, Numbered DEF TypeInv
<1>3. CASE OutputFrames
  <2>1. PICK taken \in 0..Len(out) :
          /\ Len(out') = Len(out) - taken
          /\ \A i \in 1..Len(out') : i + taken \in 1..Len(out) /\ out'[i] = out[i + taken]
          /\ Len(output'.block) = taken
          /\ \A i \in 1..taken : i \in 1..Len(out) /\ output'.block[i] = out[i]
          /\ output.start = None \/ taken <= output.start
          /\ UNCHANGED <<decode, slim, lms>>
    BY <1>1, <1>3, FrontTaken
  <2>2. \A i \in 1..taken : output.start = None \/ ~(i > output.start)
    BY <1>2, <2>1
  <2>3. \A i, j \in 1..taken : out[i] = out[j]
    BY <2>1, <2>2 DEF SideInv, Beside
  <2>4. \A i \in 1..taken : out[i] <= lms.track
    BY <2>1 DEF OrderInv
  <2>5. ASSUME NEW i \in 1..taken, NEW j \in 1..Len(out')
        PROVE  out[i] <= out[j + taken]
    <3>1. i \in 1..Len(out) /\ j + taken \in 1..Len(out)
      BY <2>1
    <3>2. CASE output.start = None \/ ~(j + taken > output.start)
      <4>1. out[i] = out[j + taken]
        BY <2>2, <3>1, <3>2 DEF SideInv, Beside
      <4>2. QED
        BY <1>2, <3>1, <4>1
    <3>3. CASE output.start # None /\ j + taken > output.start
      <4>1. out[j + taken] = output.next
        BY <3>1, <3>3 DEF StartMark
      <4>2. out[i] < output.next
        BY <2>2, <3>1, <3>3 DEF StartMark
      <4>3. out[i] \in Nat /\ output.next \in Nat
        BY <1>2, <3>1, Numbered DEF TypeInv
      <4>4. QED
        BY <4>1, <4>2, <4>3
    <3>4. QED
      BY <3>2, <3>3
  <2>6. \A i, j \in 1..taken : output'.block[i] = output'.block[j]
    BY <2>1, <2>3
  <2>7. \A i \in 1..taken : output'.block[i] <= lms.track
    BY <2>1, <2>4
  <2>8. \A i \in 1..taken : \A j \in 1..Len(out') : output'.block[i] <= out'[j]
    BY <2>1, <2>5
  <2>9. QED
    BY <2>1, <2>6, <2>7, <2>8 DEF HandInv
<1>4. CASE OutputSend
  <2>1. output'.block = << >>
    BY <1>1, <1>4 DEF OutputSend, Outputs
  <2>2. QED
    BY <2>1 DEF HandInv
<1>5. CASE DecodeFrames
  <2>1. output'.block = output.block /\ lms' = lms
    BY <1>5, FramesDecoded
  <2>2. \A j \in 1..Len(out') :
          \/ j \in 1..Len(out) /\ out'[j] = out[j]
          \/ j > Len(out) /\ out'[j] = lms.track
    BY <1>5, FramesOfTrack
  <2>3. QED
    BY <2>1, <2>2 DEF HandInv
<1>6. CASE /\ output'.block = output.block /\ lms'.track \in {lms.track, lms.track + 1}
           /\ \A i \in 1..Len(out') : i \in 1..Len(out) /\ out'[i] = out[i]
  <2>1. \A i \in 1..Len(output.block) : output.block[i] <= lms'.track
    BY <1>2, <1>6 DEF HandInv
  <2>2. QED
    BY <1>6, <2>1 DEF HandInv
<1>7. QED
  BY <1>3, <1>4, <1>5, <1>6, FrontKept, OthersSend

(* What is sent is not of an earlier track than what was sent before. *)
LEMMA SentStep ==
  ASSUME TypeInv, StreamInv, HandInv, SentInv, [Next]_vars
  PROVE  SentInv'
<1>1. /\ output \in Outputs /\ hist \in Histories /\ lms \in Servers
      /\ out \in Seq(Tracks) /\ Len(out) \in Nat
      /\ output.block \in Seq(Tracks) /\ hist.sent \in Seq(Tracks) /\ Tracks \subseteq Nat
      /\ lms.track \in Nat
  BY PipelineAssumption, Numbered DEF TypeInv, TypeOK, Outputs, Histories, Tracks
<1>2. hist.sent # << >> => hist.sent[2] \in Nat
  <2> SUFFICES ASSUME hist.sent # << >> PROVE hist.sent[2] \in Nat
    OBVIOUS
  <2>1. 2 \in 1..Len(hist.sent)
    BY DEF SentInv
  <2>2. hist.sent \in Seq(Tracks) /\ Tracks \subseteq Nat
    BY <1>1
  <2>3. \A i \in 1..Len(hist.sent) : hist.sent[i] \in Tracks
    BY <2>2
  <2>4. hist.sent[2] \in Tracks
    BY <2>1, <2>3
  <2>5. QED
    BY <2>2, <2>4
<1>3. CASE OutputFrames
  <2>1. PICK taken \in 0..Len(out) :
          /\ \A i \in 1..Len(out') : i + taken \in 1..Len(out) /\ out'[i] = out[i + taken]
          /\ Len(output'.block) = taken
          /\ \A i \in 1..taken : i \in 1..Len(out) /\ output'.block[i] = out[i]
          /\ UNCHANGED <<decode, slim, lms>> /\ hist'.sent = hist.sent
    BY <1>3, FrontTaken
  <2>2. QED
    BY <2>1 DEF SentInv
<1>4. CASE OutputSend
  <2>1. UNCHANGED <<out, lms>> /\ output'.block = << >>
    BY <1>1, <1>4 DEF OutputSend, Outputs
  <2>2. CASE output.block = << >>
    <3>1. hist' = hist
      BY <1>4, <2>2 DEF OutputSend
    <3>2. QED
      BY <2>1, <3>1 DEF SentInv
  <2>3. CASE output.block # << >>
    <3>1. hist'.sent = <<output.block[1], output.block[Len(output.block)]>>
      BY <1>1, <1>4, <2>3 DEF OutputSend, Histories
    <3>2. Len(output.block) \in 1..Len(output.block)
      BY <1>1, <2>3
    <3>3. Len(hist'.sent) = 2 /\ hist'.sent[2] = output.block[Len(output.block)]
      BY <3>1
    <3>4. /\ output.block[Len(output.block)] <= lms.track
          /\ \A i \in 1..Len(out) : output.block[Len(output.block)] <= out[i]
      BY <3>2 DEF HandInv
    <3>5. QED
      BY <2>1, <3>3, <3>4 DEF SentInv
  <2>4. QED
    BY <2>2, <2>3
<1>5. CASE DecodeFrames
  <2>1. output'.block = output.block /\ lms' = lms
    BY <1>5, FramesDecoded
  <2>2. hist'.sent = hist.sent
    BY <1>1, <1>5 DEF DecodeFrames, Histories
  <2>3. \A j \in 1..Len(out') :
          \/ j \in 1..Len(out) /\ out'[j] = out[j]
          \/ j > Len(out) /\ out'[j] = lms.track
    BY <1>5, FramesOfTrack
  <2>4. QED
    BY <2>1, <2>2, <2>3 DEF SentInv
<1>6. CASE /\ output'.block = output.block /\ hist'.sent = hist.sent
           /\ lms'.track \in {lms.track, lms.track + 1}
           /\ \A i \in 1..Len(out') : i \in 1..Len(out) /\ out'[i] = out[i]
  <2>1. hist.sent # << >> => hist.sent[2] <= lms'.track
    BY <1>1, <1>2, <1>6 DEF SentInv
  <2>2. QED
    BY <1>6, <2>1 DEF SentInv
<1>7. QED
  BY <1>3, <1>4, <1>5, <1>6, FrontKept, OthersSend

(* Every step of the four threads is one LMS sees: it asks for a track, a  *)
(* track begins, LMS is told, a block is heard, or none of these.          *)
LEMMA StepReported ==
  ASSUME TypeInv, StreamInv, OrderInv, HeardInv, FlagInv, ListInv, HandInv, SentInv,
         [Next]_vars
  PROVE  [Reports!Next]_(Reports!vars)
<1>1. /\ output \in Outputs /\ lms \in Servers /\ hist \in Histories
      /\ output.block \in Seq(Tracks)
  BY DEF TypeInv, TypeOK, Outputs
<1>2. lms.track \in Nat /\ output.mark \in Nat /\ output.next \in Nat
  BY Numbered DEF TypeInv
<1>3. CASE Requests
  <2>1. lms'.track = lms.track + 1 /\ lms'.announced = lms.announced /\ hist'.sent = hist.sent
    BY <1>1, <1>3 DEF Requests, Strm_s, Servers, Histories
  <2>2. Begun' = Begun
    BY <1>1, <1>3, <2>1 DEF Requests, Strm_s, Begun
  <2>3. Reports!Ask
    BY <2>1, <2>2 DEF Reports!Ask
  <2>4. QED
    BY <2>3 DEF Reports!Next
<1>4. CASE PassOutput
  <2>1. lms'.announced = Begun /\ lms'.track = lms.track /\ hist' = hist
    BY <1>1, <1>4 DEF PassOutput, Begun, Servers
  <2>2. Begun' = Begun
    BY <1>1, <1>4, <2>1 DEF PassOutput, Begun, Outputs
  <2>3. Reports!Tell
    BY <2>1, <2>2 DEF Reports!Tell
  <2>4. QED
    BY <2>3 DEF Reports!Next
<1>5. CASE OutputFrames
  <2>1. lms' = lms /\ hist'.sent = hist.sent
    BY <1>5, FrontTaken
  <2>2. CASE Begun' = Begun
    BY <2>1, <2>2 DEF Reports!vars
  <2>3. CASE /\ output.start # None /\ Begun = lms.announced
             /\ Begun' = Append(Begun, output.next)
    <3>1. output.next \in 1..lms.track
      BY <1>2, <2>3 DEF OrderInv
    <3>2. \A i \in 1..Len(Begun) : Begun[i] < output.next
      <4>1. \A i \in 1..Len(Begun) : Begun[i] <= output.mark /\ Begun[i] \in Nat
        <5>1. \A i \in 1..Len(lms.announced) : lms.announced[i] \in Tracks
          BY <1>1 DEF Servers
        <5>2. Tracks \subseteq Nat
          BY PipelineAssumption DEF Tracks
        <5>3. QED
          BY <2>3, <5>1, <5>2 DEF OrderInv
      <4>2. output.mark < output.next
        BY <2>3 DEF OrderInv
      <4>3. QED
        BY <1>2, <4>1, <4>2
    <3>3. Reports!Begin(output.next)
      BY <2>1, <2>3, <3>2 DEF Reports!Begin
    <3>4. QED
      BY <3>1, <3>3 DEF Reports!Next
  <2>4. QED
    BY <2>2, <2>3, BegunMoves
<1>6. CASE OutputSend
  <2>1. lms' = lms /\ output'.started = output.started /\ output'.mark = output.mark
    BY <1>1, <1>6 DEF OutputSend, Outputs
  <2>2. Begun' = Begun
    BY <2>1 DEF Begun
  <2>3. CASE output.block = << >>
    <3>1. hist' = hist
      BY <1>6, <2>3 DEF OutputSend
    <3>2. QED
      BY <2>1, <2>2, <3>1 DEF Reports!vars
  <2>4. CASE output.block # << >>
    <3>1. hist'.sent = <<output.block[1], output.block[Len(output.block)]>>
      BY <1>1, <1>6, <2>4 DEF OutputSend, Histories
    <3>2. 1 \in 1..Len(output.block) /\ Len(output.block) \in 1..Len(output.block)
      BY <1>1, <2>4
    <3>3. hist'.sent = <<output.block[1], output.block[1]>>
      BY <3>1, <3>2 DEF HandInv
    <3>4. output.block[1] \in hist.begun
      BY <3>2 DEF HeardInv, HeardBegun
    <3>5. PICK i \in 1..Len(Begun) : Begun[i] = output.block[1]
      BY <3>4 DEF ListInv
    <3>6. hist.sent # << >> => hist.sent[2] <= Begun[i]
      BY <3>2, <3>5 DEF SentInv
    <3>7. Reports!Hear(i)
      BY <2>1, <2>2, <3>3, <3>5, <3>6 DEF Reports!Hear
    <3>8. QED
      BY <3>7 DEF Reports!Next
  <2>5. QED
    BY <2>3, <2>4
<1>7. CASE ~Requests /\ ~PassOutput /\ ~OutputFrames /\ ~OutputSend
  <2>1. hist'.sent = hist.sent
    BY <1>7, OthersSend
  <2>2. Begun' = Begun
    BY <1>7, BegunMoves
  <2>3. lms'.track = lms.track /\ lms'.announced = lms.announced
    <3>1. CASE MarksKept
      BY <3>1 DEF MarksKept
    <3>2. CASE DecodeFrames \/ OutputFlushBuffer \/ OutputFlush \/ OutputFlushStreaming
      BY <3>2 DEF DecodeFrames, OutputFlushBuffer, OutputFlush, OutputFlushStreaming
    <3>3. QED
      BY <1>7, <3>1, <3>2, OthersKeepMarks DEF Marking
  <2>4. QED
    BY <2>1, <2>2, <2>3 DEF Reports!vars
<1>8. QED
  BY <1>3, <1>4, <1>5, <1>6, <1>7

(* A patient LMS gets the reports it was promised: the tracks begin in the *)
(* order it asked for them, it is told of each before the next one begins, *)
(* and blocks of one track each are heard, of begun tracks and in their    *)
(* order, whatever it stops or flushes on the way.                         *)
THEOREM PipelineReports ==
  ASSUME Patient
  PROVE  Spec => StartsReported
<1> DEFINE IInv == /\ TypeInv /\ FlushInv /\ StreamInv /\ OrderInv /\ StartMark /\ HeardInv
                   /\ FlagInv /\ ListInv /\ SideInv /\ HandInv /\ SentInv
<1>1. Init => IInv
  <2>1. Init => StartMark
    BY DEF Init, StartMark
  <2>2. QED
    BY <2>1, InitTyped, InitFlushed, InitStreams, InitOrdered, InitHeard, InitReports
<1>2. IInv /\ [Next]_vars => IInv'
  BY TypedStep, FlushedStep, StreamsStep, OrderedStep, StartStep, HeardStep, FlagStep,
     ListStep, SideStep, HandStep, SentStep
<1>3. Init => Reports!Init
  BY DEF Init, Reports!Init, Begun
<1>4. IInv /\ [Next]_vars => [Reports!Next]_(Reports!vars)
  BY StepReported
<1>5. QED
  BY <1>1, <1>2, <1>3, <1>4, PTL DEF Spec, StartsReported, Reports!Spec
=============================================================================
