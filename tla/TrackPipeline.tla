--------------------------- MODULE TrackPipeline ---------------------------
(***************************************************************************)
(* The path of a track through one player: the stream thread fetches it    *)
(* into streambuf, the decode thread turns it into frames of outputbuf,    *)
(* the output thread hands these to the RAOP client, and the slimproto     *)
(* thread obeys LMS (strm, cont) and reports back what it sees (STMs, STMd,*)
(* STMu ...).  The four threads share state under three mutexes, S of      *)
(* streambuf, O of outputbuf and D of the decoder: what is done under one  *)
(* acquisition of a mutex is one action.                                   *)
(*                                                                         *)
(* A chunk of streambuf or a frame of outputbuf is the number of its       *)
(* track, one frame comes of one chunk, and bounds count them.             *)
(***************************************************************************)
EXTENDS Integers, Sequences, SequencesExt

CONSTANTS
  NTracks,      \* tracks LMS asks for
  MaxLen,       \* longest track
  StreamSize,   \* room of streambuf
  OutSize,      \* room of outputbuf
  Threshold,    \* strm->threshold: chunks fetched before decoding starts
  StartFrames,  \* frames wanted in outputbuf before it leaves OUTPUT_BUFFER
  Block,        \* FRAMES_PER_BLOCK
  Autostarts,   \* values of strm->autostart LMS uses
  Orders,       \* other strm commands LMS uses: "q", "f", "p", "u"
  MaxOrders,    \* bound: how many of them
  Patient,      \* LMS asks for a track only once the previous one started
  Breakable,    \* the HTTP server may be unreachable or break off
  CodecErrors   \* the codec may give up

ASSUME PipelineAssumption ==
  /\ NTracks \in Nat /\ MaxLen \in Nat \ {0}
  /\ StreamSize \in Nat \ {0} /\ OutSize \in Nat \ {0} /\ Block \in Nat \ {0}
  /\ Threshold \in Nat /\ StartFrames \in Nat /\ MaxOrders \in Nat
  /\ Autostarts \subseteq 0..3
  /\ Orders \subseteq {"q", "f", "p", "u"}
  /\ Patient \in BOOLEAN /\ Breakable \in BOOLEAN /\ CodecErrors \in BOOLEAN

VARIABLES
  stream,  \* ctx->stream, the socket (open) and the thread's poll (polled)
  sbuf,    \* streambuf
  decode,  \* ctx->decode and what the thread saw before it took D
  out,     \* outputbuf
  output,  \* ctx->output, and the block the thread holds
  slim,    \* slimproto: the step it is at, its flags, what it saw under S
  lms,     \* the server (external)
  hist     \* history: tracks begun, sent to the player, frames decoded

vars == <<stream, sbuf, decode, out, output, slim, lms, hist>>

Tracks == 1..NTracks
Never == 0      \* a track_start_time of -1
None == -1      \* a NULL track_start

Ended == {"STOPPED", "DISCONNECT"}   \* stream.state <= DISCONNECT

Init ==
  /\ stream = [state |-> "STOPPED", ok |-> TRUE, open |-> FALSE, wait |-> FALSE,
               bytes |-> 0, left |-> 0, polled |-> FALSE]
  /\ sbuf = << >>
  /\ decode = [state |-> "STOPPED", fresh |-> TRUE, track |-> 0,
               ready |-> FALSE, room |-> FALSE, pc |-> "look"]
  /\ out = << >>
  /\ output = [state |-> "STOPPED", start |-> None, next |-> 0, started |-> FALSE,
               detect |-> FALSE, mark |-> 0, startTime |-> Never,
               block |-> << >>, pc |-> "look"]
  /\ slim = [pc |-> "idle", last |-> "none", autostart |-> 0, snap |-> "STOPPED",
             sentSTMu |-> FALSE, sentSTMl |-> FALSE, streamStart |-> Never]
  /\ lms = [track |-> 0, len |-> 0, phase |-> "free", unpause |-> FALSE,
            announced |-> << >>, orders |-> MaxOrders]
  /\ hist = [begun |-> {}, sent |-> << >>, frames |-> 0]

LesserOf(a, b) == IF a < b THEN a ELSE b
Dropped(seq, n) == SubSeq(seq, n + 1, Len(seq))

-----------------------------------------------------------------------------
(* stream_thread.                                                          *)

(* Under S: is there anything to poll for? *)
StreamLook ==
  /\ ~stream.polled
  /\ stream.open
  /\ Len(sbuf) < StreamSize
  /\ stream.state \notin Ended \cup {"WAIT"}
  /\ stream' = [stream EXCEPT !.polled = TRUE]
  /\ UNCHANGED <<sbuf, decode, out, output, slim, lms, hist>>

Polled == stream.polled
Unplugged(state, ok) ==
  [stream EXCEPT !.polled = FALSE, !.state = state, !.ok = ok, !.open = FALSE]

(* The socket was closed while it was polled. *)
StreamClosed ==
  /\ Polled /\ ~stream.open
  /\ stream' = [stream EXCEPT !.polled = FALSE]
  /\ UNCHANGED <<sbuf, decode, out, output, slim, lms, hist>>

(* SEND_HEADERS and RECV_HEADERS in one go.  A server that hangs up leaves *)
(* STOPPED, a request that cannot be sent or too long an answer DISCONNECT *)
(* (the socket of the former is kept, and nobody polls it any more).       *)
StreamHeaders ==
  /\ Polled /\ stream.open /\ stream.state = "HEADERS"
  /\ \/ stream' = [stream EXCEPT !.polled = FALSE,
                     !.state = IF stream.wait THEN "WAIT" ELSE "BUFFERING"]
     \/ Breakable /\ \E state \in Ended : stream' = Unplugged(state, FALSE)
  /\ UNCHANGED <<sbuf, decode, out, output, slim, lms, hist>>

(* Mutant: the body is stored without checking for a closed socket. *)
StreamBodyUnchecked ==
  /\ Polled /\ stream.state # "HEADERS"
  /\ stream.left > 0
  /\ sbuf' = Append(sbuf, lms.track)
  /\ stream' = [stream EXCEPT !.polled = FALSE, !.bytes = @ + 1, !.left = @ - 1,
                  !.state = IF @ = "BUFFERING" /\ stream.bytes + 1 > Threshold
                              THEN "HTTP" ELSE @]
  /\ UNCHANGED <<decode, out, output, slim, lms, hist>>

StreamBody ==
  /\ Polled /\ stream.open /\ stream.state # "HEADERS"
  /\ stream.left > 0
  /\ sbuf' = Append(sbuf, lms.track)
  /\ stream' = [stream EXCEPT !.polled = FALSE, !.bytes = @ + 1, !.left = @ - 1,
                  !.state = IF @ = "BUFFERING" /\ stream.bytes + 1 > Threshold
                              THEN "HTTP" ELSE @]
  /\ UNCHANGED <<decode, out, output, slim, lms, hist>>

StreamEnd ==
  /\ Polled /\ stream.open /\ stream.state # "HEADERS"
  /\ \/ stream.left = 0 /\ stream' = Unplugged("DISCONNECT", TRUE)
     \/ Breakable /\ stream' = Unplugged("DISCONNECT", FALSE)
  /\ UNCHANGED <<sbuf, decode, out, output, slim, lms, hist>>

(* A web radio (LMS sent cont) breaks off in the middle of a title: the    *)
(* title itself is left out.                                               *)
StreamMeta ==
  /\ Breakable
  /\ Polled /\ stream.open /\ stream.state # "HEADERS" /\ stream.wait
  /\ stream' = Unplugged("STOPPED", FALSE)
  /\ UNCHANGED <<sbuf, decode, out, output, slim, lms, hist>>

StreamThread ==
  \/ StreamLook \/ StreamClosed \/ StreamHeaders
  \/ StreamBody \/ StreamEnd \/ StreamMeta

-----------------------------------------------------------------------------
(* decode_thread.                                                          *)

DecodeLook ==
  /\ decode.pc = "look"
  /\ decode' = [decode EXCEPT !.pc = "space",
                  !.ready = sbuf # << >> \/ stream.state \in Ended]
  /\ UNCHANGED <<stream, sbuf, out, output, slim, lms, hist>>

DecodeSpace ==
  /\ decode.pc = "space"
  /\ decode' = [decode EXCEPT !.pc = "run", !.room = Len(out) < OutSize]
  /\ UNCHANGED <<stream, sbuf, out, output, slim, lms, hist>>

Rested(d) == [d EXCEPT !.pc = "look", !.ready = FALSE, !.room = FALSE]
Decoding == decode.state = "RUNNING" /\ decode.ready /\ decode.room

DecodeRest ==
  /\ decode.pc = "run" /\ ~Decoding
  /\ decode' = Rested(decode)
  /\ UNCHANGED <<stream, sbuf, out, output, slim, lms, hist>>

(* Mutant: what was seen before D was taken decides that the track is over. *)
DecodeCompleteStale ==
  /\ decode.pc = "run" /\ Decoding
  /\ stream.state \in Ended
  /\ decode' = [Rested(decode) EXCEPT !.state = "COMPLETE"]
  /\ UNCHANGED <<stream, sbuf, out, output, slim, lms, hist>>

(* The codec finds the stream over and nothing left of it. *)
DecodeComplete ==
  /\ decode.pc = "run" /\ Decoding
  /\ stream.state \in Ended /\ sbuf = << >>
  /\ decode' = [Rested(decode) EXCEPT !.state = "COMPLETE"]
  /\ UNCHANGED <<stream, sbuf, out, output, slim, lms, hist>>

(* Mutant: only a codec that has frames marks the start of the track, and  *)
(* the mark is set after them.                                             *)
DecodeFramesMarkLate ==
  /\ decode.pc = "run" /\ Decoding
  /\ ~(stream.state \in Ended /\ sbuf = << >>)
  /\ LET most == LesserOf(Len(sbuf), OutSize - Len(out)) IN
     \E n \in (IF most > 0 THEN 1 ELSE 0)..most :
       /\ out' = out \o SubSeq(sbuf, 1, n)
       /\ sbuf' = Dropped(sbuf, n)
       /\ hist' = [hist EXCEPT !.frames = @ + n]
       /\ output' = IF decode.fresh
                      THEN [output EXCEPT !.start = Len(out) + n, !.next = decode.track]
                      ELSE output
  /\ decode' = [Rested(decode) EXCEPT !.fresh = FALSE]
  /\ UNCHANGED <<stream, slim, lms>>

(* The codec marks where a new track starts and moves what it can. *)
DecodeFrames ==
  /\ decode.pc = "run" /\ Decoding
  /\ ~(stream.state \in Ended /\ sbuf = << >>)
  /\ output' = IF decode.fresh
                 THEN [output EXCEPT !.start = Len(out), !.next = decode.track]
                 ELSE output
  /\ LET most == LesserOf(Len(sbuf), OutSize - Len(out)) IN
     \E n \in (IF most > 0 THEN 1 ELSE 0)..most :
       /\ out' = out \o SubSeq(sbuf, 1, n)
       /\ sbuf' = Dropped(sbuf, n)
       /\ hist' = [hist EXCEPT !.frames = @ + n]
  /\ decode' = [Rested(decode) EXCEPT !.fresh = FALSE]
  /\ UNCHANGED <<stream, slim, lms>>

DecodeError ==
  /\ CodecErrors
  /\ decode.pc = "run" /\ Decoding
  /\ decode' = [Rested(decode) EXCEPT !.state = "ERROR"]
  /\ UNCHANGED <<stream, sbuf, out, output, slim, lms, hist>>

DecodeThread ==
  \/ DecodeLook \/ DecodeSpace \/ DecodeRest
  \/ DecodeComplete \/ DecodeFrames \/ DecodeError

-----------------------------------------------------------------------------
(* output_raop_thread.                                                     *)

(* The state is read without O. *)
OutputLook ==
  /\ output.pc = "look"
  /\ output.state \in {"BUFFER", "RUNNING"}
  /\ output' = [output EXCEPT !.pc = "frames"]
  /\ UNCHANGED <<stream, sbuf, decode, out, slim, lms, hist>>

(* _output_frames: a block goes up to the start of a track, where the      *)
(* start is noted.                                                         *)
OutputFrames ==
  /\ output.pc = "frames"
  /\ LET most == LesserOf(Len(out), Block)
         hit == output.start # None /\ output.start < most
         taken == IF hit THEN output.start ELSE most
     IN
     /\ out' = Dropped(out, taken)
     /\ output' = [output EXCEPT
          !.pc = "send",
          !.state = IF @ = "BUFFER" /\ Len(out) > StartFrames THEN "RUNNING" ELSE @,
          !.block = SubSeq(out, 1, taken),
          !.start = IF hit \/ @ = None THEN None ELSE @ - taken,
          !.started = hit \/ @,
          !.detect = hit \/ @,
          !.mark = IF hit THEN output.next ELSE @]
     /\ hist' = IF hit THEN [hist EXCEPT !.begun = @ \cup {output.next}] ELSE hist
  /\ UNCHANGED <<stream, sbuf, decode, slim, lms>>

(* raopcl_send_chunk, without a lock, gives the time a track starts.       *)
OutputSend ==
  /\ output.pc = "send"
  /\ output' = [output EXCEPT
       !.pc = "look", !.block = << >>,
       !.detect = @ /\ output.block = << >>,
       !.startTime = IF output.detect /\ output.block # << >> THEN output.mark ELSE @]
  /\ hist' = IF output.block = << >> THEN hist
             ELSE [hist EXCEPT !.sent = <<output.block[1],
                                          output.block[Len(output.block)]>>]
  /\ UNCHANGED <<stream, sbuf, decode, out, slim, lms>>

OutputThread == OutputLook \/ OutputFrames \/ OutputSend

-----------------------------------------------------------------------------
(* The slimproto thread obeys LMS: process_strm and process_cont.          *)

Idle == slim.pc = "idle"
Order(name) ==
  /\ Idle /\ name \in Orders
  /\ lms.orders > 0
Spent == [lms EXCEPT !.orders = @ - 1]
Goto(pc) == slim' = [slim EXCEPT !.pc = pc]

(* Mutant: the codec is not told that a new stream begins. *)
CodecOpenedStale(track) == [decode EXCEPT !.state = "READY", !.track = track]

(* codec_open *)
CodecOpened(track) ==
  [decode EXCEPT !.state = "READY", !.track = track, !.fresh = TRUE]

(* strm 's': LMS asks for a track when it is free to, or when the previous *)
(* one is decoded (and, if LMS is patient, was heard to start).            *)
Strm_s(len, auto) ==
  /\ Idle /\ lms.track < NTracks
  /\ \/ lms.phase = "free"
     \/ lms.phase = "decoded" /\ (Patient => Contains(lms.announced, lms.track))
  /\ lms' = [lms EXCEPT !.track = @ + 1, !.len = len, !.phase = "streaming",
                        !.unpause = FALSE]
  /\ decode' = CodecOpened(lms.track + 1)
  /\ slim' = [slim EXCEPT !.pc = "connect", !.autostart = auto]
  /\ hist' = [hist EXCEPT !.frames = 0]
  /\ UNCHANGED <<stream, sbuf, out, output>>

StreamStarted == slim' = [slim EXCEPT !.pc = "idle", !.last = "s",
                                      !.sentSTMu = FALSE, !.sentSTMl = FALSE]

(* stream_sock: the server is unreachable ... *)
StreamUnreachable ==
  /\ slim.pc = "connect" /\ Breakable
  /\ stream' = [stream EXCEPT !.state = "DISCONNECT", !.ok = FALSE]
  /\ StreamStarted
  /\ UNCHANGED <<sbuf, decode, out, output, lms, hist>>

(* ... or, connected, empties streambuf ... *)
StreamFlush ==
  /\ slim.pc = "connect"
  /\ sbuf' = << >>
  /\ Goto("open")
  /\ UNCHANGED <<stream, decode, out, output, lms, hist>>

(* ... and lets the stream thread send the headers. *)
StreamOpen ==
  /\ slim.pc = "open"
  /\ stream' = [stream EXCEPT !.state = "HEADERS", !.ok = TRUE, !.open = TRUE,
                  !.wait = slim.autostart >= 2, !.bytes = 0, !.left = lms.len]
  /\ StreamStarted
  /\ UNCHANGED <<sbuf, decode, out, output, lms, hist>>

(* strm 'q' and 'f': decode_flush ... *)
DecodeFlush(name) ==
  /\ Order(name)
  /\ decode' = [decode EXCEPT !.state = "STOPPED"]
  /\ lms' = [Spent EXCEPT !.phase = "free", !.unpause = FALSE]
  /\ Goto(IF name = "q" THEN "qBuffer" ELSE "fOutput")
  /\ UNCHANGED <<stream, sbuf, out, output, hist>>

(* ... output_flush in two acquisitions of O ... *)
OutputFlushBuffer ==
  /\ slim.pc = "qBuffer"
  /\ out' = << >>
  /\ Goto("qOutput")
  /\ UNCHANGED <<stream, sbuf, decode, output, lms, hist>>

(* Mutant: the start of a track is left where it was. *)
OutputFlushKeepsStart ==
  /\ slim.pc = "qOutput"
  /\ output' = [output EXCEPT !.state = "STOPPED", !.startTime = Never]
  /\ Goto("qDisconnect")
  /\ UNCHANGED <<stream, sbuf, decode, out, lms, hist>>

OutputFlush ==
  /\ slim.pc = "qOutput"
  /\ output' = [output EXCEPT !.state = "STOPPED", !.startTime = Never, !.start = None]
  /\ Goto("qDisconnect")
  /\ UNCHANGED <<stream, sbuf, decode, out, lms, hist>>

(* Mutant: everything that is not played yet goes. *)
OutputFlushStreamingAll ==
  /\ slim.pc = "fOutput"
  /\ out' = << >>
  /\ output' = [output EXCEPT !.start = None]
  /\ Goto("fDisconnect")
  /\ UNCHANGED <<stream, sbuf, decode, lms, hist>>

(* ... or output_flush_streaming: a track that has not started goes ... *)
OutputFlushStreaming ==
  /\ slim.pc = "fOutput"
  /\ out' = IF output.start = None THEN out ELSE SubSeq(out, 1, output.start)
  /\ output' = [output EXCEPT !.start = None]
  /\ Goto("fDisconnect")
  /\ UNCHANGED <<stream, sbuf, decode, lms, hist>>

(* ... stream_disconnect ... *)
StreamDisconnect ==
  /\ slim.pc \in {"qDisconnect", "fDisconnect", "passDisconnect"}
  /\ stream' = [stream EXCEPT !.open = FALSE, !.state = "STOPPED"]
  /\ Goto(CASE slim.pc = "qDisconnect" -> "qStream"
             [] slim.pc = "fDisconnect" -> "fStream"
             [] OTHER -> "idle")
  /\ UNCHANGED <<sbuf, decode, out, output, lms, hist>>

(* ... and the flush of streambuf. *)
StreambufFlush ==
  /\ slim.pc \in {"qStream", "fStream"}
  /\ sbuf' = << >>
  /\ slim' = [slim EXCEPT !.pc = "idle", !.last = IF slim.pc = "qStream" THEN "q" ELSE "f"]
  /\ UNCHANGED <<stream, decode, out, output, lms, hist>>

(* strm 'p', without an interval. *)
Pause ==
  /\ Order("p")
  /\ output' = [output EXCEPT !.state = "STOPPED"]
  /\ lms' = Spent
  /\ slim' = [slim EXCEPT !.last = "p"]
  /\ UNCHANGED <<stream, sbuf, decode, out, hist>>

(* strm 'u': the user resumes, or LMS starts a track that is loaded. *)
Unpause ==
  /\ \/ Order("u") /\ lms' = Spent
     \/ Idle /\ lms.unpause /\ lms' = [lms EXCEPT !.unpause = FALSE]
  /\ output' = [output EXCEPT !.state = "RUNNING"]
  /\ slim' = [slim EXCEPT !.last = "u"]
  /\ UNCHANGED <<stream, sbuf, decode, out, hist>>

(* cont, the answer of LMS to the headers of the stream. *)
Cont ==
  /\ Idle /\ slim.autostart > 1 /\ stream.state = "WAIT"
  /\ slim' = [slim EXCEPT !.autostart = @ - 2]
  /\ stream' = [stream EXCEPT !.state = "BUFFERING"]
  /\ UNCHANGED <<sbuf, decode, out, output, lms, hist>>

-----------------------------------------------------------------------------
(* The slimproto thread looks around: slimproto_run, when it is woken up   *)
(* or every 100 ms.  Under S ...                                           *)

PassStream ==
  /\ Idle
  /\ stream' = [stream EXCEPT !.state = IF @ = "DISCONNECT" THEN "STOPPED" ELSE @]
  /\ slim' = [slim EXCEPT !.pc = "passOutput", !.snap = stream.state]
  /\ UNCHANGED <<sbuf, decode, out, output, lms, hist>>

(* Mutant: only a pass that sees the stream end tells LMS of the underrun. *)
PassOutputOnce ==
  /\ slim.pc = "passOutput"
  /\ LET ended == /\ output.state = "RUNNING" /\ ~slim.sentSTMu
                  /\ out = << >> /\ slim.snap = "DISCONNECT"
     IN slim' = [slim EXCEPT !.pc = "passDecode", !.sentSTMu = ended \/ @,
                   !.streamStart = IF output.started THEN output.startTime ELSE @]
  /\ output' = [output EXCEPT !.started = FALSE]
  /\ lms' = IF output.started
              THEN [lms EXCEPT !.announced = Append(@, output.mark)] ELSE lms
  /\ UNCHANGED <<stream, sbuf, decode, out, hist>>

(* Mutant: the start of the track remains to be told. *)
PassOutputRepeats ==
  /\ slim.pc = "passOutput"
  /\ slim' = [slim EXCEPT !.pc = "passDecode",
                !.streamStart = IF output.started THEN output.startTime ELSE @]
  /\ lms' = IF output.started /\ Len(lms.announced) < 2 * NTracks
              THEN [lms EXCEPT !.announced = Append(@, output.mark)] ELSE lms
  /\ UNCHANGED <<stream, sbuf, decode, out, output, hist>>

(* ... under O: STMs and STMu ... *)
PassOutput ==
  /\ slim.pc = "passOutput"
  /\ LET ended == /\ output.state = "RUNNING" /\ ~slim.sentSTMu
                  /\ out = << >> /\ slim.snap \in Ended
     IN slim' = [slim EXCEPT !.pc = "passDecode", !.sentSTMu = ended \/ @,
                   !.streamStart = IF output.started THEN output.startTime ELSE @]
  /\ output' = [output EXCEPT !.started = FALSE]
  /\ lms' = IF output.started
              THEN [lms EXCEPT !.announced = Append(@, output.mark)] ELSE lms
  /\ UNCHANGED <<stream, sbuf, decode, out, hist>>

(* Mutant: a stream that ends before the threshold is met is forgotten. *)
LoadedLong == slim.snap = "HTTP"

(* A stream worth decoding, as the pass saw it under S. *)
Loaded == \/ slim.snap = "HTTP"
          \/ slim.snap = "DISCONNECT" /\ stream.ok
Starting == Loaded /\ ~slim.sentSTMl /\ decode.state = "READY"
Over == decode.state \in {"COMPLETE", "ERROR"}

(* ... and under D: STMl, or decoding starts ... *)
PassStart ==
  /\ slim.pc = "passDecode" /\ Starting /\ slim.autostart <= 1
  /\ decode' = [decode EXCEPT !.state = "RUNNING"]
  /\ slim' = [slim EXCEPT !.pc = "idle", !.sentSTMl = slim.autostart = 0 \/ @]
  /\ lms' = [lms EXCEPT !.unpause = slim.autostart = 0 \/ @]
  /\ output' = [output EXCEPT !.state =
       IF slim.autostart = 1 /\ @ = "STOPPED" THEN "BUFFER" ELSE @]
  /\ UNCHANGED <<stream, sbuf, out, hist>>

(* ... or STMd, STMn: decoding is over. *)
PassOver ==
  /\ slim.pc = "passDecode" /\ Over
  /\ decode' = [decode EXCEPT !.state = "STOPPED"]
  /\ lms' = [lms EXCEPT !.phase = "decoded"]
  /\ Goto(IF slim.snap = "HTTP" THEN "passDisconnect" ELSE "idle")
  /\ UNCHANGED <<stream, sbuf, out, output, hist>>

PassNothing ==
  /\ slim.pc = "passDecode" /\ ~(Starting /\ slim.autostart <= 1) /\ ~Over
  /\ Goto("idle")
  /\ UNCHANGED <<stream, sbuf, decode, out, output, lms, hist>>

-----------------------------------------------------------------------------
Requests == \E len \in 1..MaxLen, auto \in Autostarts : Strm_s(len, auto)
Stops == DecodeFlush("q") \/ DecodeFlush("f")

(* What the slimproto thread does on its own once it was told. *)
SlimThread ==
  \/ StreamFlush \/ StreamOpen \/ StreamUnreachable
  \/ OutputFlushBuffer \/ OutputFlush \/ OutputFlushStreaming
  \/ StreamDisconnect \/ StreambufFlush
  \/ PassOutput \/ PassStart \/ PassOver \/ PassNothing

Next ==
  \/ StreamThread \/ DecodeThread \/ OutputThread
  \/ SlimThread \/ PassStream
  \/ Requests \/ Stops \/ Pause \/ Unpause \/ Cont

Spec == Init /\ [][Next]_vars

(* Every thread goes on looping, the slimproto thread wakes up every 100   *)
(* ms whatever messages it gets, and gets those LMS owes it.               *)
FairSpec ==
  /\ Spec
  /\ WF_vars(StreamThread) /\ WF_vars(DecodeThread) /\ WF_vars(OutputThread)
  /\ WF_vars(SlimThread) /\ SF_vars(PassStream)
  /\ SF_vars(Cont) /\ SF_vars(Idle /\ lms.unpause /\ Unpause)
-----------------------------------------------------------------------------
(* Properties.                                                             *)

StreamStates == Ended \cup {"WAIT", "BUFFERING", "HTTP", "HEADERS"}
SlimSteps == {"idle", "connect", "open", "qBuffer", "qOutput", "qDisconnect", "qStream",
              "fOutput", "fDisconnect", "fStream",
              "passOutput", "passDecode", "passDisconnect"}

Streams == [state: StreamStates, ok: BOOLEAN, open: BOOLEAN, wait: BOOLEAN,
            bytes: 0..MaxLen, left: 0..MaxLen, polled: BOOLEAN]
Decoders == [state: {"STOPPED", "READY", "RUNNING", "COMPLETE", "ERROR"},
             fresh: BOOLEAN, track: 0..NTracks, ready: BOOLEAN, room: BOOLEAN,
             pc: {"look", "space", "run"}]
Outputs == [state: {"STOPPED", "BUFFER", "RUNNING"}, start: None..OutSize,
            next: 0..NTracks, started: BOOLEAN, detect: BOOLEAN,
            mark: 0..NTracks, startTime: 0..NTracks, block: Seq(Tracks),
            pc: {"look", "frames", "send"}]
Slims == [pc: SlimSteps, last: {"none", "s", "q", "f", "p", "u"}, autostart: 0..3,
          snap: StreamStates, sentSTMu: BOOLEAN, sentSTMl: BOOLEAN,
          streamStart: 0..NTracks]
Servers == [track: 0..NTracks, len: 0..MaxLen, phase: {"free", "streaming", "decoded"},
            unpause: BOOLEAN, announced: Seq(Tracks), orders: 0..MaxOrders]
Histories == [begun: SUBSET Tracks, sent: Seq(Tracks), frames: Nat]

(* Neither buffer holds more than its room, and a track starts inside      *)
(* outputbuf (but between the two halves of output_flush).                 *)
TypeOK ==
  /\ stream \in Streams
  /\ sbuf \in Seq(Tracks) /\ Len(sbuf) <= StreamSize
  /\ decode \in Decoders
  /\ out \in Seq(Tracks) /\ Len(out) <= OutSize
  /\ output \in Outputs
  /\ slim.pc # "qOutput" => output.start <= Len(out)
  /\ slim \in Slims
  /\ lms \in Servers
  /\ hist \in Histories

(* Where track_start points, the new track begins and nothing of an        *)
(* earlier one follows, however the codec, the output thread and the       *)
(* flushes interleave.                                                     *)
StartMark ==
  output.start # None =>
    \A i \in 1..Len(out) :
      IF i > output.start THEN out[i] = output.next ELSE out[i] < output.next

(* What the output thread holds for the player is of tracks whose start it *)
(* has noted: LMS, if it waits for a track to start before it asks for the *)
(* next, hears of every track that is played.                              *)
HeardBegun == \A i \in 1..Len(output.block) : output.block[i] \in hist.begun

(* A track the codec calls complete was decoded to its last chunk, unless  *)
(* its stream broke off: decode_thread looks at the stream before it takes *)
(* the lock, and must not conclude from that.                              *)
NothingLost == decode.state = "COMPLETE" /\ stream.ok => hist.frames = lms.len

(* Once strm 'q' is obeyed, and until LMS says more, nothing of the track  *)
(* comes back from the threads that were at work on it.                    *)
StoppedIsEmpty ==
  slim.pc = "idle" /\ slim.last = "q" =>
    /\ sbuf = << >> /\ out = << >>
    /\ ~stream.open /\ stream.state = "STOPPED"
    /\ decode.state = "STOPPED"
    /\ output.start = None /\ output.state = "STOPPED"

(* LMS hears of the start of a track (STMs) once, and in order.            *)
AnnouncedOnce ==
  \A i, j \in 1..Len(lms.announced) :
    i < j => lms.announced[i] < lms.announced[j]

(* strm 'f' leaves of outputbuf what belongs to tracks that have started   *)
(* playing, and nothing else.                                              *)
FlushKeepsPlaying ==
  [][slim.pc = "fOutput" /\ slim'.pc = "fDisconnect"
       => \E n \in 0..Len(out) :
            /\ out' = SubSeq(out, 1, n)
            /\ \A i \in 1..Len(out) : out[i] \in hist.begun <=> i <= n]_vars

(* Every track LMS asks for is announced, or given up by LMS: no order of  *)
(* the threads leaves it in a buffer, were it shorter than the threshold.  *)
TrackAnnounced ==
  \A t \in Tracks :
    (lms.track = t /\ lms.phase = "streaming")
      ~> (Contains(lms.announced, t) \/ lms.phase = "free")

(* When the last track was decoded and outputbuf has held enough to leave  *)
(* OUTPUT_BUFFER, LMS is told that it ended (STMu), however late the last  *)
(* frames are taken.  It may be told too early: PassOutput does not ask    *)
(* whether the codec has begun.                                            *)
EndReported ==
  (lms.track = NTracks /\ lms.phase = "decoded" /\ output.state = "RUNNING")
     ~> (slim.sentSTMu \/ lms.phase = "free")

(* What is promised to an LMS that is patient: no start of a track is      *)
(* forgotten, although output.track_started is one flag for all of them,   *)
(* and no block handed to the player mixes tracks or goes back to one.     *)
Begun == IF output.started THEN Append(lms.announced, output.mark) ELSE lms.announced
Reports == INSTANCE StartReports WITH
  asked <- lms.track, begun <- Begun, told <- lms.announced, heard <- hist.sent
StartsReported == Reports!Spec

(* The start time kept with an announced track is never that of another.   *)
(* (It is not: the output thread sets it after it let go of outputbuf.)    *)
ElapsedOfTrack ==
  lms.announced # << >> => slim.streamStart \in {Never, Last(lms.announced)}
=============================================================================
