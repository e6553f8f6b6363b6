# LMS-Raop in TLA+

LMS-Raop makes AirPlay (RAOP) speakers look like Squeezebox players. One process,
`squeeze2raop`, discovers the speakers, runs a *squeezelite* player for each of
them against Lyrion Music Server (LMS), and hands the audio to a RAOP client.
This directory models the parts of it in which several threads, or two programs,
share state, checks the models with TLC on small instances, and proves some of
the results with TLAPS for every value of the constants.

    tlc -config MC_DeviceSession.cfg RaopDevice.tla      one check
    tlapm RaopDeviceProofs.tla                           one set of proofs

`PROJECT.json` lists the runs, the lines every definition translates, the mutants
that show that each property can fail, the hazards and the theorems.

## 1. The system

### Components

| component | state | operations | threads |
|---|---|---|---|
| LMS (external) | what plays, the mode, volumes | `strm`, `cont`, `aude`, `audg`, CLI answers | another program |
| slimproto session, `slimproto.c` | socket, `autostart`, `sentSTM*`, `ctx->status` | `process_strm`, `process_cont`, periodic pass, `sendSTAT` | one per player |
| stream, `stream.c` | `stream.state`, socket, `streambuf` | fetch headers, body, titles; open, disconnect | one per player |
| codecs and decoder, `decode.c`, `pcm.c`, ... | `decode.state`, codec state | decode a block, flush, open | one per player |
| output, `output.c`, `output_raop.c` | `output.state`, `track_start`, `outputbuf` | take a block, fade, send it to the client; flush | one per player |
| circular buffers, `buffer.c` | `readp`, `writep` | space, contiguous runs, move, unwrap, flush | under the buffer's mutex |
| squeezelite contexts and CLI, `main.c` | `thread_ctx[]`, CLI socket | reserve, run, end; `sq_notify`, `sq_get_mode`, metadata | callers' |
| bridged device, `squeeze2raop.c` | `struct sMR`, request queue | `sq_callback`, `PlayerThread`, artwork threads, removal | one, plus one per picture |
| remote control, `squeeze2raop.c` | last remote, its volume | `ActiveRemoteThread` (DMCP commands) | one |
| discovery, `squeeze2raop.c` | `glMRDevices[]`, `Expired` | `mDNSsearchCallback`, `UpdateDevices`, `AddRaopDevice`, `MainThread` | two |
| configuration, `config_raop.c` | XML document | load, save, merge, volume mapping | callers' |
| RAOP client, mDNS, codec libraries | - | submodules, not in the repository | - |
| LMS plugin, `src/plugin` | preferences, the helper's process | settings pages, watchdog | LMS |

### How they interact

    LMS  --strm/cont-->  slimproto thread  --S/O/D mutexes-->  stream, decode, output threads
         <--STMx------        |  sq_callback (ON, OFF, CONNECT, STARTED, STOP, VOLUME, ...)
                              v
                        bridged device  --queue-->  PlayerThread  -->  RAOP client --> speaker
                              ^     ^                                                    |
              artwork threads-+     +---- ActiveRemoteThread  <---- DACP commands -------+
                              ^
             mDNS thread, MainThread (table of devices)

The slimproto thread is the only one LMS talks to. It changes the state of the
three audio threads under the mutexes of `streambuf` (S), `outputbuf` (O) and the
decoder (D), and looks at them in a pass of three critical sections at least every
100 ms. What it learns it tells LMS (`STMs`: a track started, `STMd`: it is decoded,
`STMu`: it ended, `STMl`: it is loaded) and the bridge, through `sq_callback`. The
bridge answers nothing: it stores, and queues requests for `PlayerThread`, which
makes the slow calls of the RAOP client. The speaker talks back through a third
door, DACP, in a thread of its own. All of them share `struct sMR`, but
`PlayerThread` reads and writes most of it without `Device->Mutex`.

### What is hard, and what makes each part correct

* **Circular buffers.** Full and empty are told apart by one unused byte; a
  pointer never rests on `wrap`; moving data to make it contiguous must lose
  nothing. *Correct* when a buffer is a bounded queue.
* **Track pipeline.** A stop or a flush goes through five critical sections while
  three threads go on; what a thread has seen before it takes a lock may be of the
  previous track; the start of a track is a single pointer into `outputbuf`.
  *Correct* when nothing of a stopped track comes back, what was fetched is
  decoded, each start is announced once, in order, and never lost, and the end is
  told.
* **Bridged device.** Requests are queued, put back, overtaken and dropped while
  their sender goes on; timers compare unsigned times; pictures come late, for
  the wrong track or after the device went. *Correct* when the speaker ends in
  the state asked for last, shows what belongs together, is released when it is not
  needed, and a removal ends and leaves nothing behind.
* **Discovery.** A device is found, lost, found again and removed by two threads
  under a global and a device mutex, while its player calls back. *Correct* when a
  present device stays, an absent one goes once, and nobody waits for ever.
* **Fades and skips.** Where a fade or a track begins is a pointer into `outputbuf`,
  compared with `readp` block by block, while skips, pauses and flushes move `readp` and
  `writep`. *Correct* when every frame is heard once, in clear or mixed into a crossfade, in
  order, and those are faded that were meant to be.
* **mp4 decoders.** Boxes, tables and samples are read out of a ring while the file is
  still arriving, in pieces of any size. *Correct* when the decoder stays on sample
  boundaries, hands on the frames without the encoder's padding, and ends.
* **Session and CLI.** Reconnection, redirection to another server, questions
  answered late, on a socket another thread closes. *Correct* when an answer belongs to its
  question, nobody waits for ever, and the player gets back to a server.

## 2. The modules

| module | models | source |
|---|---|---|
| `ByteQueue` | what a buffer promises: a bounded queue that can be emptied | `squeezelite.h` |
| `StreamBuffer` | the pointers and bytes of `struct buffer`; refines `ByteQueue` | `buffer.c` |
| `MC_StreamBuffer` | `StreamBuffer` for TLC | |
| `StreamBufferUnwrap` | `_buf_unwrap` on data that wraps, as the mp4 parser calls it | `buffer.c`, `alac.c` |
| `StreamBufferProofs` | proofs about `StreamBuffer`, with its refinement, and `StreamBufferUnwrap` | |
| `TrackPipeline` | four threads and three mutexes between `strm` and the RAOP client; refines `StartReports` | `slimproto.c`, `stream.c`, `decode.c`, `pcm.c`, `output.c`, `output_raop.c` |
| `TrackPipelineProofs` | proofs about `TrackPipeline` | |
| `OutputFades` | marks, fades, crossfades, pauses and skips in the ring `outputbuf` | `output.c`, `output_raop.c`, `output_pack.c`, `pcm.c`, `slimproto.c` |
| `OutputFadesProofs` | proofs about `OutputFades` | |
| `StartReports` | what a player promises an LMS that waits for starts: each is told before the next track begins | |
| `GaplessTrack` | what a decoder promises: the wanted frames, in order, then the end | |
| `Mp4Decoder` | parser, chunk and block tables and trimming of aac and alac files; refines `GaplessTrack` | `faad.c`, `alac.c`, `decode.c` |
| `MC_Mp4Decoder` | small files for `Mp4Decoder` | |
| `Mp4DecoderProofs`, `Mp4PlaysProofs` | proofs about `Mp4Decoder`: types, tables, samples; the refinement | |
| `ServerSession` | discovery, connection and redirection, and the questions put to the CLI | `slimproto.c`, `main.c` |
| `MC_ServerSession` | `ServerSession` for TLC | |
| `ServerSessionProofs` | proofs about `ServerSession` | |
| `RaopDevice` | one bridged device, its threads, LMS and the speaker | `squeeze2raop.c` |
| `RaopDeviceProofs` | proofs about `RaopDevice` | |
| `DeviceTable` | discovery, the table of devices, and the contexts and threads behind it | `squeeze2raop.c`, `main.c`, `slimproto.c`, `stream.c`, `decode.c`, `output.c` |
| `MC_DeviceTable` | `DeviceTable` for TLC | |
| `DeviceTableProofs` | proofs about `DeviceTable` | |

### StreamBuffer

`readp` and `writep` are offsets (`0` is `buf->buf`, `BufSize` is `buf->wrap`), `mem`
the bytes. Every operation runs under the mutex of its buffer and is one action:
`Fill` (a producer stores a contiguous run and moves `writep`), `Drain`, `Flush`,
and `UnwrapLinear`, the part of `_buf_unwrap` that moves data that does not wrap.
`StreamBufferUnwrap` adds the part for data that wraps; it is kept apart because
what that part does is not what its comment says (section 6).
`buf_adjust`, `_buf_resize`, `_buf_reset`, `_buf_read` and `_buf_write` are called by
nothing in this program.

### TrackPipeline

A chunk of `streambuf` and a frame of `outputbuf` are the number of their track;
decoding moves chunks to frames one to one. Each thread is a program counter and
what it holds between two locks:

* *stream*: `StreamLook` decides under S to poll a socket; then the poll and what
  was received, again under S: headers, body, the end, a closed socket.
* *decode*: `DecodeLook` (under S: is there anything?), `DecodeSpace` (under O: is
  there room?), then one step of the codec under D, with S and O taken as `pcm.c`
  takes them. What the first two saw may be out of date by then.
* *output*: `OutputLook` (the state, without a lock), `OutputFrames` (a block, up to
  the start of a track, under O), `OutputSend` (the call of the client, without a
  lock, after which the start time is stored).
* *slimproto*: one order of LMS at a time, an action for each acquisition of a
  mutex (`Strm_s`, `StreamFlush`, `StreamOpen`; `DecodeFlush`, `OutputFlushBuffer`,
  `OutputFlush`, `StreamDisconnect`, `StreambufFlush`; `Pause`, `Unpause`, `Cont`),
  and the pass (`PassStream`, `PassOutput`, then one of `PassStart`, `PassOver`,
  `PassNothing`).

LMS is external: it asks for a track when none plays or when the previous one is
decoded and, if it is `Patient`, was announced; it answers a stream that waits for
it with `cont`, and starts a loaded track if it said it would (`autostart` 0). `hist`
is history only. Fades and crossfades, strm `a` and `p` with an interval are in
`OutputFades`. When headers cannot be sent or are too long (`stream.c:130-139`, `444-445`) the code leaves
the socket open with nobody polling it until the next stop or track; it is closed at once in
the model. A codec that is not found (`decode.c:255-259`) is left out: LMS asks for those of `HELO` only.
Left out: replay gain, `codc`, titles inside Ogg and ICY streams (but ICY's
disconnection is there), `STMo`, the count of frames played, and resampling.

### OutputFades

`TrackPipeline` follows the threads and gives a frame only its track; this module follows the
pointers of `output.c` and gives every frame its number. `ring` is `outputbuf` with `readp` and
`writep`; `output.mark` is `track_start`; `fade` is the only record there is of a fade, its two
pointers included. `Begin` is what a codec does with a new stream (`track_start`, then
`_checkfade(true)`), `Complete` is `_checkfade(false)`. `_output_frames` is cut at each turn of
its loop, with the mutex held: `Frames`, `Skip` or `Silence` decide the size of the block, then
each turn is `Silent`, `AtStart`, or a piece written: `Plain`, `Fading`, `TurnsUp`, `Crossing`,
`CrossFails`, `FadeEnds`. `heard` is the piece given to `write_cb` with its gain, and the frames
`_apply_cross` mixes in.

`hist` and `owed` are history. `owed.frames` are the frames decoded that were neither handed on nor
mixed into a crossfade, skipped or flushed: an account that does not look at `readp`. It is left unused
(`owed.cut`) while a crossfade lasts that was skipped or flushed into; when a crossfade runs short, gives way to
another fade, or ends in a mode that does not skip what it mixed in (`Spoilt`), that is
owed again (section 7). `hist` has the frames due, numbered; the frames the fade now set up was for
(`window`); `lost`, that a skip or a flush has passed over a pointer of the fade, so that it
applies to whatever comes there next; `passed`, that the same happened to the mark; `moved`, that
a crossfade moved the mark; `broken`, that `readp` or `writep` is no longer where the code
takes it to be. `Next` stops at `broken`: section 7 says how it comes about. The transition a user
has configured stays the same in a behaviour; LMS uses it or none for each track.

### Mp4Decoder

A cell of `streambuf` is four bytes; a file is a record of its boxes, its samples and the
frames to be heard. What a cell holds follows from its place in the file: `rd` is the place
of `readp`, `ring` that place in the buffer, so that `_buf_unwrap`, which parsing depends on,
is there with what it does to data that wraps. `ReadHeader` is one call of
`read_mp4_header`, box by box with its waits; `Consume` drops what is in the way; `AacFrame` and
`AlacFrame` decode a sample, follow the table of chunks, and trim (`Trimmed`) by unsigned counts
of frames, modulo `Word`. `Feed` and `Close` are the stream thread: it stores any number of cells
between two calls. `Reopen` is the next track; faad keeps two fields of its handle across it.
The libraries are external: one sample gives `PerSample` frames, or an error where the bytes are
no sample. `damage` is history: how the header was spoilt by the pieces it came in: `missed`, a box left
behind unread because it ends with the data at hand; `mangled`, moved in two parts, or so that `writep` is left on
`wrap`; `early`, the media met before there was enough of it. The properties excuse such arrivals (`Sound`), so that
they say nothing of that hazard; `BoxesRead` does, and fails (section 7). The ADTS branch of `faad.c` is left
out.

### ServerSession

`slim` is the slimproto thread: `discover_server` (at the start, to the address of `serv`, and after too
many failures), `Connect`, `ConnectFails`, `Retry`, then `slimproto_run` with `Message`, `Wake`, `Silence`,
`HangUp` and `Switch` (`process_serv`), and `Close`, which takes the CLI socket with it. `asker`
are the threads inside `cli_send_cmd`: `Lock`, `Send` (with `cli_open_socket`) or `NotOpened`,
`Receive`, `GiveUp`. `cli.wire` holds half lines, as `recv` cuts lines anywhere; an answer holds
the text of its question, and perhaps that of another (`Covers`). Servers go down, come
back, fall silent, or close a socket whenever they like. `cli.lost` is history: the questions that ended,
unanswered, on this socket, whose answers may still come. `CloseIdleCli` is the closing of a CLI socket unused
for 15 minutes, which every turn of `slimproto_run` that was woken may do. `cli_open_socket` reads `slimproto_ip` and connects
in one step, where the code takes up to 250 ms; `slimproto_ip` read as 0, which would be this host, is
a socket that is not opened. That a CLI socket leads to the server of the session is said of those opened
during a session (`inSession`): one opened while the slimproto thread moves on may be kept.

### RaopDevice

`dev` is `struct sMR`; `queue` its request queue; `player` what `PlayerThread` has in
its hands and where it is; `raop` the client and the speaker; `lms` the server, as
far as it reacts to what it is told; `fetching` the artwork threads; `session` is
history. A callback, a DACP command, a queue access hold `Device->Mutex` and are
one action each. `PlayerThread` is cut wherever another thread can come between two
of its accesses: after it took a request, before it puts it back, between the idle
test and the disconnection, around the metadata query, around `raopcl_connect`.

Time runs in ticks of one second, which is what `GetRequest` waits. Of a time stamp
the model keeps its age up to the largest delay it is compared with; the idle test
is made modulo `ClockRange`, as `uint32_t` differences are. Some guards deserve a
word:

* `PowerOff` is the user's or the one LMS sends when it was asked to by `sq_notify`
  (`askedOff`); `sq_notify` does nothing for a player that is off.
* `GiveUp` forgets the request `PlayerThread` has in its hand (`session.dropped`).
* `ArtworkFetched` tests that the device runs and that its hash is still that of
  the picture, but the request can wait in the queue: `ExecuteArtwork` tests again.
* `EarlyDelete` says whether a removal can come before `PlayerThread` has set
  `Running`; see section 7.

`SQ_SETNAME`, `SQ_SETSERVER`, DACP commands that only ask something of LMS, and
the progress bar are left out.

### DeviceTable

`slot` is `glMRDevices`, `ctx` is `thread_ctx`; of each only what decides about life and
death is kept, so that the module is the frame in which `RaopDevice` (one slot) and
`TrackPipeline` (one context) live. Two workers, the mDNS thread and `MainThread`, are
program counters. The mDNS thread takes an announcement (`Listen`: known, unknown, no
room, or a new device), decides about a player said to be gone (`Judge`), reserves a
context (`Reserve`) and starts its threads (`Run`); after a list of announcements it
calls `UpdateDevices`, as `MainThread` does every 30 s (`Update`, `Scan` slot after slot,
`Updated`, all with `glMainMutex` held). Both remove a device with the same steps:
`Wipe` gives up the context, then each close tells a thread to end, waits for it, and
destroys what belonged to it (`Join`), then `StopPlayer` and `JoinPlayer`.
A slimproto thread reads its callback (`SlimCall`), waits for `Device->Mutex`
(`SlimCallback`), and in `SQ_SETNAME` waits for `glMainMutex` with the former held
(`SlimSave`).

Time since a player went missing is "none", "new" or "due". The network sends one
announcement per change, in order; the RAOP client may be connected or not whenever
it is asked. Nothing locks the table or the contexts, so that `MainThread` removing
one device disturbs the mDNS thread adding another. `Overlap = FALSE` keeps the two
apart, as they are nearly always (an update that removes nobody takes no time); what
happens otherwise is in section 7. With no free slot `Listen` goes on with the next announcement, where
the code leaves the rest of the list (`squeeze2raop.c:719`); the run has a slot for each player. Left out: excluded or disabled players, changes of address,
failures to create a client or a buffer, the saving of the configuration after an
addition, the discovery mode, the shutdown.

## 3. The runs

All bounds are constants of the cfg. Deadlock is checked in `buffer` and of the device, the
pipeline and the table, which cannot come to a stop, as time, the periodic pass and the periodic
check go on. It is not checked in `unwrap_contiguous`, where a copy of negative length ends the
process, in `table_saving`, which is about one, nor in `mp4`, `session` and `fades`, which really may
stop: the last track is over, the player is gone, LMS orders nothing more.

| run | bounds | what it shows |
|---|---|---|
| `buffer` | 5 bytes of 2 values | all fills, drains, flushes and moves: the pointers stay inside (`TypeOK`) and the buffer implements the queue (`QueueSpec`) |
| `device_session` | 5 orders among on, off, pause, unpause, connect, removal, prevent, volume feedback | the player ends up as LMS asked last (`SessionApplied`) |
| `device_halt` | 4 orders, volumes 0 to 2, removal, idle time 2 ticks | the player ends at the volume LMS set last while it was on, unless that was a mute which is not wanted (`VolumeApplied`), a removed device stays quiet (`QuietOnceGone`), a halted one is released (`HaltedReleased`), a removal ends (`DeleteReturns`) |
| `device_remote` | 3 orders or breakages, 2 tracks | refusal and breakdown lead to a switch off (`PreventedSwitchesOff`, `BrokenSwitchesOff`), which releases the speaker (`OffReleases`); titles get there (`MetadataShown`) and pictures match them (`ArtworkMatchesText`) |
| `pipeline_orders` | 2 tracks of 1 or 2 chunks, buffers of 2 and 3, one of `q`, `f`, `p`, a server that breaks off, a codec that fails | nothing of a stopped track comes back (`StoppedIsEmpty`), what completes was decoded whole (`NothingLost`), the mark separates the tracks (`StartMark`), only begun tracks are heard (`HeardBegun`), strm `f` keeps the one that plays (`FlushKeepsPlaying`), and the pipeline implements `StartReports` (`StartsReported`) |
| `pipeline_play` | 2 tracks, threshold of one chunk, `OUTPUT_BUFFER` left at 2 frames, no orders | every track is announced (`TrackAnnounced`) and the end is reported, once the player has left `OUTPUT_BUFFER` (`EndReported`) |
| `table` | 2 players, 2 slots, 2 contexts, 4 announcements; timeouts 0 and 1 without, 0 with automatic saving | one owner per context and one `PlayerThread` per slot (`ContextOwned`, `TypeOK`), buffers outlive their users (`BuffersOutlive`), removals end (`RemovalEnds`), a player that stays is bridged (`PresentFound`), one that stays away is removed (`AbsentRemoved`; not with a remove timeout and automatic saving, which is `table_saving`) |
| `fades` | ring of 7, blocks of 2, fades of 4 frames, every transition; 3 tracks of 1 to 4 frames, 2 orders of LMS, intervals of 0 and 3 frames | the ring holds what is due (`TypeOK`), what is written is the first that is owed: neither written, mixed in, skipped nor flushed yet (`HeardInOrder`), a piece is faded if and only if its frames were meant to be, with the gain of their place (`FadesInPlace`) |
| `mp4` | 11 files of 1 to 4 samples, two of them in turn, 30 cells | `TypeOK` (nothing is consumed that has not come), and for headers the pieces did not spoil: calls begin at a sample (`SampleAligned`), the wanted frames are heard (`PlaysWanted`: it implements `GaplessTrack`), decoding ends (`DecodeEnds`) |
| `session` | 2 servers, one configured or none; 2 callers, 2 questions of which one answer holds the other | a CLI socket opened during a session leads to its server (`CliOfSession`), an answer is the asker's own, or a late one that holds its text (`AnswersOwn`), every question ends (`AskingEnds`), the player gets back to a server (`SessionComesBack`) |
| `unwrap_contiguous`, `table_saving` | as small as shows it | section 6 |

Why these bounds are enough to be interesting: five bytes are the smallest buffer in which
data wraps with a tail and a head of different lengths and room between them. Three
to five orders suffice to put back one request, have it overtaken by the next and
change one's mind; all delays are longer than one tick where it matters that
something else happens during the delay (`IdleTimeout` 2) and one tick where only their expiry
matters. Two tracks are needed for one to be taken for the other, lengths 1 and 2 put
a track below, at and above the threshold and the block; `outputbuf` of 3 holds
the end of one track with the beginning of the next, so that a start is met
inside a block, at its edge, and in an empty buffer. One order is
enough to have it at any point of the four threads; the second track comes after it.
Two players and four announcements let one come, go and come back while
the other takes its slot or its context.
A ring of 7 with fades of 4 is smaller than two fades, so that fades wrap, meet,
overwrite each other and are longer than their track. The files have boxes and
headers of boxes across the end of the buffer, gaps, one chunk and several, padding shorter and longer
than a sample, another track in front, no table at all, and an end in the middle of a sample. With two
servers one can be left for the other, which is gone by then; a time-out of one second is
one silent second after another; three half lines hold a late answer and the start of the next.
Each property comes with a mutant of the code (in the module, before the
definition it changes) that violates it under the same bounds.

## 4. Fairness

* `RaopDevice!FairSpec`: weak fairness of `PlayerThread` (it loops, and waits for at
  most a second), of `Tick`, of the end of a removal (`pthread_join`), and of LMS
  switching a player off when asked. `AnsweringSpec` adds that LMS answers some of
  infinitely many metadata queries (strong fairness, since each may time out).
  Nothing is assumed of users, of the speaker or of the artwork servers.
* `TrackPipeline!FairSpec`: weak fairness of each thread, since they all poll, and of
  the slimproto thread's own steps; strong fairness of `PassStream`, as the code
  makes a pass after 100 ms whatever messages it receives in between; strong fairness
  of `Cont` and of the unpause LMS owes, as these messages wait in the socket until the
  thread is idle. LMS need not ask for anything.
* `DeviceTable!Spec`: weak fairness of both workers, of every thread of a device and of
  time; strong fairness of a slimproto thread that waits for a mutex, as `glMainMutex` is
  taken every 30 s and held for moments. Nothing is assumed of the network: players
  stay, or stay away, if the property says so.
* `Mp4Decoder!FairSpec`: weak fairness of the decode thread, which polls, and of a server that
  sends its file and closes.
* `ServerSession!FairSpec`: weak fairness of the slimproto thread and of each thread inside
  a question (its receives time out); strong fairness of `Close`, which waits for `cli_mutex`, as the
  others ask every few seconds and hold it for half a second. Nothing is assumed of the
  servers.
* `OutputFades`: safety only.

## 5. Proofs

Assumptions are the `ASSUME`s of the modules (`BufferAssumption`, `DeviceAssumption`,
`PipelineAssumption`, `TableAssumption`, `SessionAssumption`, `FadesAssumption`, `Mp4Assumption`): constants are
numbers, booleans and sets of the right kind, and files are such that their samples do not overlap; nothing else. TLC evaluates them in the runs. Where a
theorem needs more, it is a hypothesis in its statement, and named below. No module that is proved
about declares a `RECURSIVE` operator.

| theorem | property | hypothesis | inductive invariant |
|---|---|---|---|
| `BufferTyping`, `BufferRoom` | `TypeOK`, `NoFalseStall` | | `TypeOK` |
| `BufferIsQueue` | `QueueSpec` (refinement) | | `TypeOK` |
| `BufferGathers` | `UnwrapGathers` (of `StreamBufferUnwrap`, not in a run) | | `ParserTyped` |
| `DeviceTyping` | `TypeOK` | | `TypeInv` |
| `DeviceArtwork` | `ArtworkMatchesText` | | `MetaInv` |
| `DeviceSession` | `SessionApplied` | | `SessionInv` |
| `DeviceQuiet` | `QuietOnceGone` | | `QuietInv` |
| `DeviceVolume` | `VolumeApplied` | no `OFF` among `Orders`, `Commands` at most `BUSY` | `VolumeInv`, `SessionInv` |
| `TableTyping`, `TableOwned`, `TableBuffers` | `TypeOK`, `ContextOwned`, `BuffersOutlive` | `~Overlap` | `TableInv`, `Locked` |
| `PipelineTyping` | `TypeOK` | | `TypeInv` |
| `PipelineStops` | `StoppedIsEmpty` | | `FlushInv` |
| `PipelineAnnounces`, `PipelineStartMark` | `AnnouncedOnce` (not in a run), `StartMark` | | `FlushInv`, `StreamInv`, `OrderInv` |
| `PipelineLosesNothing` | `NothingLost` | | `FlushInv`, `StreamInv`, `AccountInv` |
| `PipelineHeard` | `HeardBegun` | `Patient` | the above and `HeardInv` |
| `PipelineFlush` | `FlushKeepsPlaying` (action) | `Patient` | the above and `BegunInv` |
| `PipelineReports` | `StartsReported` (refinement) | `Patient` | `OrderInv`, `HeardInv`, `FlagInv`, `ListInv`, `SideInv`, `HandInv`, `SentInv` |
| `SessionTyping`, `SessionCli` | `TypeOK`, `CliOfSession` | | `TypeInv`, `SessionInv` |
| `SessionAnswers` | `AnswersOwn` (action) | | `OwnInv`, `LateInv` |
| `FadesTyping` | `TypeOK` | | `StoreInv` |
| `FadesInOrder` | `HeardInOrder` (action) | | `StoreInv`, `PieceInv`, `OwedInv` |
| `FadesFound` | `FadesInPlace` | | `StoreInv`, `FadeInv` |
| `Mp4Typing`, `InsideTables` | `TypeOK` | | `TypeInv` |
| `Mp4Aligned` | `SampleAligned` | `ProperFiles` | `HeaderInv`, `SampleInv`, `AllSent` |
| `Mp4Plays` | `PlaysWanted` (refinement) | `ProperFiles`, `PaddedFiles` | the above, `RoomInv` and `PlayInv` |

Each invariant comes with the module's type invariant.

* *StreamBuffer.* `TypeOK` is inductive, and implies that space and bytes can always be reached by a
  contiguous access. The abstract queue is `Contents`, the bytes from `readp` on; lemmas say what it
  becomes when bytes are stored behind it, dropped from its front, or moved down; each action then maps
  to `Put`, `Take`, `Clear` or a stutter. `BufferGathers` is about `_buf_unwrap` on data that wraps: `MovedCell` says
  of each byte where it lands, by whether it was in the tail, among the first bytes that follow the tail, or behind
  them. `TypeOK` is not invariant there (section 7): `ParserTyped` allows `writep` on `wrap`.
* *RaopDevice.* `TypeOK` needs `FetchedOK` (between the answer of LMS and the end of the
  refresh, `PlayerThread` holds a real track), as a picture of "no track" would not be a
  request. A picture is shown only under its title: `MetaInv` says that the hash of the device, unless
  reset, is that of the title on show, or the thread stands between sending the title and storing its
  hash; the step from the check in `ExecuteArtwork` follows. `SessionApplied` says nothing while requests
  are pending, so that it is not inductive: `SessionInv` says that the *last* plain request of what
  is in hand followed by the queue is the last one LMS asked for (`LastAsked`), and that
  the hand is empty where the thread does not hold a request (`HandOK`); lemmas say what the last
  request of a kind becomes when one is appended, taken, put back in front, or served. `VolumeInv`
  is the same for volumes. It needs a device nothing hinders (`Unhindered`): a refused
  player drops the request in hand (`GiveUp`), and a switch off empties the queue, each with the volume that
  was in it (TLC shows the latter in four steps); the run `device_halt` has such orders and commands only.
  `QuietInv` ties the end of the thread to `Running` and to the end of a removal.
* *DeviceTable.* With `Overlap = TRUE` the three theorems do not hold (section 7). None of the
  properties is inductive. `TableInv` adds: one worker at a time is at work (`Excl`); each has a
  slot, and the slot and its context are at the worker's stage, with the threads already
  waited for ended (`Placed`, `Staged`); a running device has its `PlayerThread` and its
  context, unless a worker is taking them from it (`Kept`); a live context is that of its
  device (`Owned`). `Locked` says that `MainThread` works with `glMainMutex` held, which decides
  where a removal goes on. `ContextOwned` follows from `Owned` (there is a device) and `Kept`
  (there is no other). That `Least` picks a member of a set of numbers is `LeastIn`,
  from the well-foundedness of `<`.
* *TrackPipeline.* `Typed` adds to the types what one thread has seen and another relies on: a socket
  is polled only when there was room. `FlushInv` follows the steps of a flush and keeps what each has
  emptied empty until the last. `StreamInv` is about sessions of the stream: whenever LMS may ask for a
  track the socket is closed, so that `streambuf` holds chunks of one track, unless its server was never
  reached, and then the codec never runs. Only with it does `OrderInv` hold, that frames and marks come
  in the order of the tracks with the codec's own ahead of all others. `AccountInv` adds
  up what was decoded, what lies in `streambuf` and what the server has still to send. `HeardInv`
  needs a patient LMS: an impatient one asks for a track while the start before it was not met,
  and `track_start`, a single pointer, is overwritten. (`TrackAnnounced` and the runs are about a patient LMS too.)
  `PipelineReports` maps the pipeline to `StartReports`: the tracks that have begun are those LMS was told of, and the one
  at the mark if `track_started` is set. That flag is one for all starts: `FlagInv` says that when a mark is set or may be,
  LMS was told of the start before, because a patient LMS asked only then. `ListInv` equates the list with the set of tracks
  begun. `SideInv` says that `outputbuf` holds one track on each side of the mark, `HandInv` and `SentInv` that a block is of one
  track, none before what was sent. Setting the flag is `Begin`, `PassOutput` is `Tell`, the call of the client is
  `Hear`, and everything else, stops and flushes included, a stutter. Without `Patient` TLC refutes it: the mark of the
  first track is overwritten by that of the second before it is met, and the start of the first is never told.
* *ServerSession.* `SessionInv`: between two sessions no CLI socket of the last one is left, and the
  two copies of the address agree outside `discover_server`. `OwnInv`: unless a question ended unanswered, what
  is on the wire and in the hands of the caller is the half or the whole of the line that answers it. `LateInv`: every half
  line on the wire or in hand is the caller's own, or of a question in `cli.lost`.
* *OutputFades.* Offsets go round the ring, so that everything about `readp`, `writep`, the mark and
  the fade is said by distances; the first lemmas (`Around`, `Apart`, `Ahead`, `Behind`) do
  the arithmetic modulo `Size` once. `RingInv`: from `readp` on the ring holds the frames due, in order.
  `MarkInv`: the mark, unless a crossfade moved it or a jump passed it, lies right in front of the frames of the
  track that began last, which is what strm `f` relies on. `FadeInv`: counted from `readp`, the frames at the
  distance of the fade are those it was set up for, or will be when they are decoded
  (`Upcoming`). `OwedInv` ties the account to the ring: what is due and not owed are the frames a crossfade has mixed
  in so far, those up to its length ahead of `readp` (`MixedPlaces`); when it is over these are the frames next to
  `readp`, which it skips, and the one behind them is the first owed. `PieceInv`: what was written is what the ring held. Nothing is claimed of a player that is `broken`, of
  a fade that is `lost`, or of the order under a crossfade that was cut (section 7).

* *Mp4Decoder.* A call in the header works on bytes that have arrived, and the tables of chunks and blocks end with
  a zero that the counters never pass (`CallInv`); that is what makes each access to them one inside. The numbers
  of samples in the table of chunks come from a recursive function; the lemmas `Induct`, `Recurrence` and `Along`
  (from the well-foundedness of `<`) say that it has a value and that the value is a number.
  `SampleAligned` is about files whose header tells the truth: `Proper` says of a file that the tables which a
  parser that reads every box ends up with (`Heads`) give the places and sizes of its samples. TLC evaluates it
  for the files of the run (`AllProper`). `HeaderInv` says that the decoder is such a parser: while nothing was
  spoilt, `readp`, or what is left to consume, leads to a box, and the handle is what the boxes before that one
  tell. `SampleInv` says that place, chunk number, sample count, block number and what is left to consume
  are those of one and the same sample; the sample count stands still in the last chunk, and faad.c, given the
  part of a sample the server broke off in, may advance in it byte by byte (`InTorn`). The step from a sample to the
  next needs that chunks are numbered upwards (`ChunksGrow`), so that a sample in the middle of one ends none.
  `PlaysWanted` needs to know what a file wants heard. `Padded` says that it is what the counts in its header leave:
  the frames from `Begin` to `Finish`, of the samples that are sent whole. It also says what the code takes for granted:
  the lead of an aac track is part of what is skipped, the padding behind is less than a sample, and of a
  sample that is cut off faad.c gets too little to decode anything from. A track without a configuration or block
  sizes, or behind a box that `streambuf` cannot hold, has nothing to be heard. TLC evaluates `Padded` for
  the files of the run too. `RoomInv` says that nothing was handed on in the header and that `streambuf` had room
  for the boxes so far, so that a decoder which gives up there misses nothing. `PlayInv` ties three counts to the
  number of the next sample: the frames handed on, those still to skip and those left (`Progress`).
  `TrimStep` is the step from one sample to the next, whichever end of the padding falls into it. The three abstract steps
  are `PlayStep`, `EndStep` and the next track; all else is a stutter.

Two of these proofs changed their module. `FadesTyping` could not be proved as `FadeEnds` stood: the jump of
`readp` at the end of a crossfade can leave the mark of the track after it behind, which needs four
tracks, one more than the run has; strm `f` then cuts at a place behind `readp`. TLC confirmed it with four
tracks, and `FadeEnds` records it (`passed`) as a skip does. And `FlushKeepsPlaying`, stated with
`SelectSeq`, is now the stronger statement that a prefix is kept.

Each leaf has 20 s of SMT and 40 s of Zenon (`USE SMTT(20), ZenonT(40)` at the head of each module); none needs
half of it.

Model-checked only: all liveness (fairness and `ENABLED` are not within the prover's
reach); `DeviceTable` with `Overlap = TRUE`. The refinements `QueueSpec`, `StartsReported` and `PlaysWanted` are proved, so
that every safety invariant, action property and refinement the runs check has its theorem, under the hypotheses above.

## 6. Where code and documentation disagree

* `unwrap_contiguous` - `_buf_unwrap` makes wrapped data contiguous if the room equals the
  shortage, or is less than it and the scratch zone can help; with more room, the easy case, `size` (a
  `size_t`) is huge, `malloc` fails and the data stays in two parts, although `alac.c:278-283` counts on it.
* `table_saving` - `UpdateDevices` joins a slimproto thread with `glMainMutex` held, while that
  thread, renaming its player, waits for it: no player is removed, or added, any more.

## 7. What the models showed that no run reports

Those named `Module!Definition` are stated in their module and refuted by TLC when they are put in place
of the properties of a run; the properties of section 3 are what holds instead.

* `RaopDevice!HeldWhileIdle` (`device_session`): the idle test is true right after the flush and false near the
  timeout; a stopped player gives the speaker back at the first idle tick, where
  `strings.txt:271-273` promises to hold it. `RaopDevice!FeedbackForwarded` (`device_session`): a volume turned on the
  speaker is compared with the last one LMS set, so turning it back is not forwarded.
* `TrackPipeline!ElapsedOfTrack` (`pipeline_play`): the start time is stored after the lock under which the start
  was noted; LMS can be told the start of a track with the time of the previous one.
* `ServerSession!CapabilityTold` (`session` with `Caps = {TRUE, FALSE}`): the capability that came with `serv` is freed at the end of the same
  turn, before the new server is greeted, although `slimproto.c:870` means to send it.
* A player sent by `serv` to a server that is gone asks that one for ever (`discover_server` has an
  address), and a configured player sent to a server that dies later never searches another (`slimproto.c:858`):
  `SessionComesBack` leaves both out.
* A late answer to a question given up passes for the answer to the same question asked again, or to one whose text it
  holds; `AnswersOwn` says that this is all, but for a line that is ended too early, which crashes.
* `OutputFades!NeverBroken` (`fades`, like the three that follow): when a crossfade ends `readp` jumps over what was mixed in, but the
  size of the block and the run up to `wrap` were reckoned before (`output.c:143`): the piece that
  follows can reach behind `writep` or `wrap` (17 steps, no order of LMS needed). And strm `f` before a
  crossfade starts moves `writep` back into the track that plays, because the mark was moved
  there (8 steps); after a skip over the mark, to a place behind `readp` (7 steps), and likewise after the jump
  at the end of a crossfade (with four tracks).
* `OutputFades!HeardOnce` (18 steps): what a crossfade has mixed in is skipped when it ends in mode `CROSS`; it is played
  again, in clear, when strm `s` of the next track has set the mode to none meanwhile (`slimproto.c:320`,
  `output.c:140`), when there are too few frames of the new track to go on (`output.c:185-187`), or when another
  fade was set up in its place.
* `OutputFades!NeverLost`: a skip over the start of a fade, or strm `f` under one, leaves it to
  frames it was not for. `OutputFades!GainDefined`: a fade out of no frames that turns up divides
  0 by 0 (`output.c:166`, 15 steps). `OutputFades!MixesFrames`: `_apply_cross` wraps one sample late
  (`> wrap`, `output_pack.c:93`) and mixes in what lies behind the buffer.
* `Mp4Decoder!TerminatedEnds` (`mp4` with the files `MCCutFiles`): `alac_decode` ends when no byte is left (or the table
  says so); cut off within a block it waits for the rest for ever. `Mp4Decoder!BoxesRead` (with `MCHeaderFiles`): a box that ends
  exactly with the data at hand is stepped over without being read. A box header across the end of `streambuf` is never
  read (`HeaderSplit` in `DecodeEnds`).

* With `EarlyDelete = TRUE`, `DeleteReturns` fails: `PlayerThread` sets `Running` after
  `DelRaopDevice` has cleared it, and never ends. A device would have to be removed within
  the start of its thread.
* A refused player's `OFF` in hand is dropped by `GiveUp`, and the speaker stays
  connected: `OffReleases` and `SessionApplied` say "unless dropped".
* `EndReported` is about a player that has left `OUTPUT_BUFFER`: when `outputbuf` wants more frames for that than
  a whole track has, nothing is reported. And `STMu` can come too early, as `PassOutput` does not ask whether the
  codec has begun; that satisfies `EndReported` too.
* `StreamBufferUnwrap!PointersInside` (`unwrap_contiguous`): where the second part of the data exactly fits in front of
  `wrap`, `buf->writep += buf->size - by` (`buffer.c:136`) leaves `writep` on `wrap` (5 steps): the stream thread is offered no room,
  and when `readp` has wrapped the empty buffer counts as full. `Mp4Decoder` calls a header `mangled` after that.
* `_buf_unwrap` copies a negative length when asked for more than the buffer holds
  (`crashed` in `StreamBufferUnwrap`).
* With `Overlap = TRUE`, `ReservedFree` of `DeviceTable` fails (15 steps): `sq_wipe_device` gives
  the context up before its threads have ended, and the mDNS thread, which calls
  `sq_reserve_device` without the lock its comment asks for (`main.c:565`), clears the context under
  them. Likewise a slot is free for `AddRaopDevice` while `DelRaopDevice` waits for its
  `PlayerThread`, which then never ends.
* A remove timeout with automatic saving can lock the whole program up: run `table_saving`, and the reason why
  `table` has one or the other.
* `OutputbufOutlives` fails (13 steps): `output_close` comes before `decode_close`, so that the decode
  thread takes a mutex that was destroyed. `BuffersOutlive` is what does hold.

## 8. Not modelled, and the plan

Done, checked and proved: `StreamBuffer`, `RaopDevice`, `DeviceTable`, `TrackPipeline`, `OutputFades`,
`ServerSession`, `Mp4Decoder`. In this order:

1. The ends of tracks in the contract of a player towards LMS (`StartReports` has the starts), and the
   composition of `TrackPipeline` with `RaopDevice`: `SQ_FINISHED` in the middle of a track, `SQ_STARTED`
   after `SQ_STOP`, a server that is not patient.
2. `DeviceTable`: failed creations, changes of address, and the shutdown (`sq_end`, `Stop`) as a third
   worker; `SQ_SETSERVER`, whose pointer is read as an address (`squeeze2raop.c:387`, `slimproto.c:499`).
3. Smaller parts: volume mapping and configuration merging as functions with a
   reference definition; the gapless count of `mad.c`; the ADTS branch of `faad.c`; the plugin's
   watchdog.

Not planned: sample conversion and resampling (arithmetic on samples and an optional
library), codec formats, socket and byte-order helpers, settings pages, and the
submodules, whose sources are not in the repository (the RAOP client is external in
`RaopDevice`).
