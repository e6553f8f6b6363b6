----------------------------- MODULE RaopDevice -----------------------------
(***************************************************************************)
(* One bridged AirPlay device (struct sMR): the callbacks the slimproto    *)
(* thread makes for LMS (sq_callback), the PlayerThread that turns the     *)
(* queued requests into calls of the RAOP client, the remote control       *)
(* commands of the player (ActiveRemoteThread), the detached threads that  *)
(* fetch artwork, and the removal of the device.                           *)
(*                                                                         *)
(* Callbacks, remote commands and queue accesses hold Device->Mutex and    *)
(* are one action each; PlayerThread reads and writes most of the device   *)
(* without it and is cut at every point where the others can get in.       *)
(*                                                                         *)
(* Time runs in ticks of a second.  What matters of a time stamp is its    *)
(* age, kept up to the largest delay it is compared with.                  *)
(***************************************************************************)
EXTENDS Integers, Sequences

CONSTANTS
  Tracks,          \* what metadata can describe (title and artwork)
  MaxLevel,        \* volumes are 0..MaxLevel, 0 is mute
  Orders,          \* the LMS orders that are sent
  Commands,        \* the remote control commands that are sent
  MaxOrders,       \* bound: orders, remote commands and breakages in a run
  IdleTimeout,     \* Config.IdleTimeout
  PreventTimeout,  \* ticks PlayerThread puts up with "prevent playback" (5)
  StartWait,       \* MetadataWait after a track starts (2)
  RefreshWait,     \* MetadataWait otherwise (5)
  ClockRange,      \* times are uint32_t: differences are taken modulo this
  AutoPlay,        \* Config.AutoPlay
  MuteOnPause,     \* Config.MuteOnPause
  VolumeFilter,    \* ticks LMS volumes are ignored after a feedback (1)
  EarlyDelete      \* removal may come before PlayerThread runs

NoTrack == "none"

ASSUME DeviceAssumption ==
  /\ NoTrack \notin Tracks
  /\ Tracks # {}
  /\ MaxLevel \in Nat
  /\ MaxOrders \in Nat
  /\ IdleTimeout \in Nat /\ PreventTimeout \in Nat /\ VolumeFilter \in Nat
  /\ StartWait \in Nat \ {0} /\ RefreshWait \in Nat \ {0}
  /\ ClockRange \in Nat \ {0}
  /\ AutoPlay \in BOOLEAN /\ MuteOnPause \in BOOLEAN /\ EarlyDelete \in BOOLEAN

VARIABLES
  dev,      \* struct sMR
  queue,    \* Device->Queue
  player,   \* PlayerThread: pc, request in hand, metadata, age of Last
  raop,     \* the RAOP client and the player behind it (external)
  lms,      \* the server: what it plays and what it was asked to do (external)
  fetching, \* artwork being fetched by detached threads
  session   \* history: last session request accepted, and last one carried out

vars == <<dev, queue, player, raop, lms, fetching, session>>

Levels == 0..MaxLevel
Modes == {"STOP", "PLAY", "PAUSE"}

(* A request: its type and, where there is one, its argument. *)
Req(type, arg) == [type |-> type, arg |-> arg]
Plain == {Req(type, 0) : type \in {"CONNECT", "FLUSH", "OFF"}}
Requests == Plain \cup {Req("VOLUME", v) : v \in Levels}
                  \cup {Req("ARTWORK", t) : t \in Tracks}
NoReq == Req("none", 0)

Aged(age, limit) == IF age < limit THEN age + 1 ELSE age
FlushLimit == IdleTimeout + 1
VolumeLimit == VolumeFilter + 1
PreventLimit == PreventTimeout + 1

(* AddRaopDevice, up to the creation of PlayerThread. *)
Init ==
  /\ dev = [running |-> TRUE, deleted |-> "no", on |-> FALSE,
            prevent |-> FALSE, busy |-> FALSE, sqState |-> "STOP",
            trackRunning |-> FALSE, discWait |-> FALSE, flushAge |-> FlushLimit,
            sane |-> 1, metaWait |-> 0, metaHash |-> NoTrack,
            volume |-> MaxLevel, volAge |-> VolumeLimit]
  /\ queue = << >>
  /\ player = [pc |-> "start", hand |-> NoReq, fetched |-> NoTrack,
               lastAge |-> PreventLimit]
  /\ raop = [connected |-> FALSE, healthy |-> TRUE, volume |-> MaxLevel,
             text |-> NoTrack, art |-> NoTrack]
  /\ lms = [track |-> NoTrack, mode |-> "STOP", volume |-> MaxLevel,
            askedOff |-> FALSE, askedPlay |-> FALSE, askedVolume |-> << >>,
            orders |-> MaxOrders]
  /\ fetching = {}
  /\ session = [wanted |-> "none", done |-> "none", dropped |-> FALSE]

(* One of the orders, commands and breakages of a run is spent. *)
Counted == [lms EXCEPT !.orders = @ - 1]

(* sq_notify does nothing once the player is off (main.c:468). *)
AskOff(l) == IF dev.on THEN [l EXCEPT !.askedOff = TRUE] ELSE l

-----------------------------------------------------------------------------
(* sq_callback.  Orders the device is not on for are dropped.              *)

Order(name) ==
  /\ name \in Orders
  /\ lms.orders > 0
  /\ dev.running

Push(req) == queue' = Append(queue, req)

Want(what) == session' = [session EXCEPT !.wanted = what, !.dropped = FALSE]

PowerOn ==
  /\ Order("ON")
  /\ dev' = [dev EXCEPT !.on = TRUE, !.prevent = ~AutoPlay /\ @,
                        !.busy = ~AutoPlay /\ @]
  /\ lms' = [Counted EXCEPT !.askedPlay = AutoPlay]
  /\ UNCHANGED <<queue, player, raop, fetching, session>>

(* Mutant: OFF is queued first and flushed with the rest. *)
PowerOffFlushedLast ==
  /\ dev.running
  /\ dev' = [dev EXCEPT !.on = FALSE]
  /\ \/ Order("OFF") /\ lms' = [Counted EXCEPT !.askedOff = FALSE]
     \/ lms.askedOff /\ lms' = [lms EXCEPT !.askedOff = FALSE]
  /\ queue' = << >>
  /\ Want("OFF")
  /\ UNCHANGED <<player, raop, fetching>>

(* The user switches the player off, or LMS does as it was asked. *)
PowerOff ==
  /\ dev.running
  /\ dev' = [dev EXCEPT !.on = FALSE]
  /\ \/ Order("OFF") /\ lms' = [Counted EXCEPT !.askedOff = FALSE]
     \/ lms.askedOff /\ lms' = [lms EXCEPT !.askedOff = FALSE]
  /\ queue' = << Req("OFF", 0) >>
  /\ Want("OFF")
  /\ UNCHANGED <<player, raop, fetching>>

Finished ==
  /\ Order("FINISHED") /\ dev.on
  /\ dev' = [dev EXCEPT !.flushAge = 0, !.discWait = TRUE, !.trackRunning = FALSE]
  /\ lms' = Counted
  /\ UNCHANGED <<queue, player, raop, fetching, session>>

(* SQ_STOP and SQ_PAUSE. *)
Halt(mode) ==
  /\ Order(mode) /\ dev.on
  /\ dev' = [dev EXCEPT !.trackRunning = FALSE, !.sqState = mode]
  /\ lms' = Counted
  /\ Push(Req("FLUSH", 0))
  /\ Want("FLUSH")
  /\ UNCHANGED <<player, raop, fetching>>

Unpause ==
  /\ Order("UNPAUSE") /\ dev.on
  /\ dev' = [dev EXCEPT !.trackRunning = TRUE, !.sqState = "PLAY"]
  /\ lms' = Counted
  /\ Push(Req("CONNECT", 0))
  /\ Want("CONNECT")
  /\ UNCHANGED <<player, raop, fetching>>

Connect ==
  /\ Order("CONNECT") /\ dev.on
  /\ dev' = [dev EXCEPT !.sqState = "PLAY"]
  /\ lms' = [Counted EXCEPT !.askedPlay = FALSE]
  /\ Push(Req("CONNECT", 0))
  /\ Want("CONNECT")
  /\ UNCHANGED <<player, raop, fetching>>

(* Mutant: a new track does not ask for its metadata. *)
StartedUnannounced(track) ==
  /\ Order("STARTED") /\ dev.on
  /\ dev' = [dev EXCEPT !.trackRunning = TRUE, !.metaHash = NoTrack]
  /\ lms' = [Counted EXCEPT !.track = track]
  /\ UNCHANGED <<queue, player, raop, fetching, session>>

(* LMS moves on to the track when it is told that it started. *)
Started(track) ==
  /\ Order("STARTED") /\ dev.on
  /\ dev' = [dev EXCEPT !.trackRunning = TRUE, !.metaWait = StartWait,
                        !.metaHash = NoTrack]
  /\ lms' = [Counted EXCEPT !.track = track]
  /\ UNCHANGED <<queue, player, raop, fetching, session>>

(* A live stream announces another title. *)
MetaSend(track) ==
  /\ Order("METASEND") /\ dev.on
  /\ dev' = [dev EXCEPT !.metaWait = RefreshWait]
  /\ lms' = [Counted EXCEPT !.track = track]
  /\ UNCHANGED <<queue, player, raop, fetching, session>>

(* A volume is taken unless it may be the echo of a feedback, or the mute  *)
(* LMS sends around a pause it has not told us about yet.                  *)
TakesVolume(level) ==
  /\ dev.volAge > VolumeFilter
  /\ level # 0 \/ MuteOnPause \/ lms.mode = dev.sqState

(* Mutant: the volume is recorded before it is known to be taken. *)
SetVolumeRecordedFirst(level) ==
  /\ dev' = [dev EXCEPT !.volume = level]
  /\ IF TakesVolume(level) THEN Push(Req("VOLUME", level)) ELSE UNCHANGED queue
  /\ UNCHANGED <<player, raop, fetching, session>>

SetVolume(level) ==
  /\ IF TakesVolume(level)
       THEN /\ dev' = [dev EXCEPT !.volume = level]
            /\ Push(Req("VOLUME", level))
       ELSE UNCHANGED <<dev, queue>>
  /\ UNCHANGED <<player, raop, fetching, session>>

(* A volume set in LMS, or LMS echoing what it was told. *)
LmsVolume ==
  /\ dev.running /\ dev.on
  /\ \/ \E level \in Levels :
          /\ Order("VOLUME")
          /\ SetVolume(level)
          /\ lms' = [Counted EXCEPT !.volume = level]
     \/ /\ lms.askedVolume # << >>
        /\ SetVolume(Head(lms.askedVolume))
        /\ lms' = [lms EXCEPT !.volume = Head(lms.askedVolume),
                              !.askedVolume = Tail(@)]

Callback ==
  \/ PowerOn \/ PowerOff \/ Finished \/ Unpause \/ Connect \/ LmsVolume
  \/ \E mode \in {"STOP", "PAUSE"} : Halt(mode)
  \/ \E track \in Tracks : Started(track) \/ MetaSend(track)

-----------------------------------------------------------------------------
(* ActiveRemoteThread.  Commands that only ask something of LMS (pause,    *)
(* next, ...) leave the device alone and are left out.                     *)

Command(name) ==
  /\ name \in Commands
  /\ lms.orders > 0
  /\ dev.running

(* The player will not play: it was switched to another input, or again.   *)
PreventPlayback(prevent) ==
  /\ Command("PREVENT")
  /\ dev' = [dev EXCEPT !.prevent = prevent]
  /\ lms' = Counted
  /\ UNCHANGED <<queue, player, raop, fetching, session>>

Busy(busy) ==
  /\ Command("BUSY")
  /\ dev' = [dev EXCEPT !.busy = busy]
  /\ lms' = IF busy /\ dev.prevent THEN AskOff(Counted) ELSE Counted
  /\ UNCHANGED <<queue, player, raop, fetching, session>>

(* The volume was changed on the player, which reports it: LMS is told and *)
(* the player is confirmed in its choice.                                  *)
Feedback(level) ==
  /\ Command("FEEDBACK")
  /\ raop' = [raop EXCEPT !.volume = level]
  /\ IF level # dev.volume
       THEN /\ dev' = [dev EXCEPT !.volAge = 0]
            /\ lms' = IF dev.on THEN [Counted EXCEPT !.askedVolume = Append(@, level)]
                                ELSE Counted
            /\ Push(Req("VOLUME", level))
       ELSE lms' = Counted /\ UNCHANGED <<dev, queue>>
  /\ UNCHANGED <<player, fetching, session>>

Remote ==
  \/ \E b \in BOOLEAN : PreventPlayback(b) \/ Busy(b)
  \/ \E level \in Levels : Feedback(level)

-----------------------------------------------------------------------------
(* PlayerThread.                                                           *)

At(label) == player.pc = label
Goto(label) == player' = [player EXCEPT !.pc = label]

ThreadStart ==
  /\ At("start")
  /\ dev' = [dev EXCEPT !.running = TRUE]
  /\ Goto("get")
  /\ UNCHANGED <<queue, raop, lms, fetching, session>>

(* The head of the loop and GetRequest. *)
GetRequest ==
  /\ At("get")
  /\ IF ~dev.running THEN Goto("exit") /\ UNCHANGED queue
     ELSE IF queue # << >>
       THEN /\ player' = [player EXCEPT !.pc = "got", !.hand = Head(queue)]
            /\ queue' = Tail(queue)
       ELSE Goto("wait") /\ UNCHANGED queue
  /\ UNCHANGED <<dev, raop, lms, fetching, session>>

(* Woken by a signal or after a second, in both cases without a request.   *)
Wake ==
  /\ At("wait")
  /\ player' = [player EXCEPT !.pc = "got", !.hand = NoReq]
  /\ UNCHANGED <<dev, queue, raop, lms, fetching, session>>

(* Mutant: Last is refreshed before the status is looked at. *)
LookAtStatusRefreshed ==
  /\ At("got")
  /\ player' = [player EXCEPT !.lastAge = 0,
                  !.pc = IF dev.prevent THEN "putBack"
                         ELSE IF player.hand = NoReq THEN "idle" ELSE "execute"]
  /\ UNCHANGED <<dev, queue, raop, lms, fetching, session>>

(* PlayerStatus is looked at without the mutex. *)
LookAtStatus ==
  /\ At("got")
  /\ player' =
       IF dev.prevent
         THEN [player EXCEPT !.pc = IF player.lastAge > PreventTimeout
                                      THEN "giveUp" ELSE "putBack"]
         ELSE [player EXCEPT !.lastAge = 0,
                             !.pc = IF player.hand = NoReq THEN "idle" ELSE "execute"]
  /\ UNCHANGED <<dev, queue, raop, lms, fetching, session>>

(* Mutant: queue_insert for queue_insert_first. *)
PutBackLast ==
  /\ At("putBack")
  /\ queue' = IF player.hand = NoReq THEN queue ELSE Append(queue, player.hand)
  /\ player' = [player EXCEPT !.pc = "get", !.hand = NoReq]
  /\ UNCHANGED <<dev, raop, lms, fetching, session>>

PutBack ==
  /\ At("putBack")
  /\ queue' = IF player.hand = NoReq THEN queue ELSE <<player.hand>> \o queue
  /\ player' = [player EXCEPT !.pc = "get", !.hand = NoReq]
  /\ UNCHANGED <<dev, raop, lms, fetching, session>>

(* Prevented for too long: the player is switched off, and the request in  *)
(* hand is neither kept nor freed.                                         *)
GiveUp ==
  /\ At("giveUp")
  /\ lms' = AskOff(lms)
  /\ player' = [player EXCEPT !.pc = "get", !.hand = NoReq]
  /\ session' = [session EXCEPT !.dropped = @ \/ player.hand \in Plain]
  /\ UNCHANGED <<dev, queue, raop, fetching>>

(* LastFlush + IdleTimeout * 1000 - now > 1000, in unsigned arithmetic. *)
IdleOver == (IdleTimeout - dev.flushAge) % ClockRange > 1

IdleTick ==
  /\ At("idle")
  /\ Goto(IF dev.discWait /\ IdleOver THEN "release" ELSE "sane")
  /\ UNCHANGED <<dev, queue, raop, lms, fetching, session>>

Release ==
  /\ At("release")
  /\ raop' = [raop EXCEPT !.connected = FALSE]
  /\ dev' = [dev EXCEPT !.discWait = FALSE]
  /\ Goto("sane")
  /\ UNCHANGED <<queue, lms, fetching, session>>

(* Mutant: broken ticks are not counted, only seen. *)
CheckSaneForgetful ==
  /\ At("sane")
  /\ dev' = [dev EXCEPT !.sane = IF raop.healthy THEN 0 ELSE 1]
  /\ Goto(IF dev.trackRunning THEN "meta" ELSE "get")
  /\ UNCHANGED <<queue, raop, lms, fetching, session>>

CheckSane ==
  /\ At("sane")
  /\ LET count == IF raop.healthy THEN 0 ELSE IF dev.sane > 3 THEN 4 ELSE dev.sane + 1 IN
     /\ dev' = [dev EXCEPT !.sane = count]
     /\ lms' = IF count > 3 THEN AskOff(lms) ELSE lms
  /\ Goto(IF dev.trackRunning THEN "meta" ELSE "get")
  /\ UNCHANGED <<queue, raop, fetching, session>>

(* Mutant: the counter is not tested before it is decremented. *)
CountDownUntested ==
  /\ At("meta")
  /\ dev' = [dev EXCEPT !.metaWait = @ - 1]
  /\ Goto(IF dev.metaWait = 1 THEN "fetch" ELSE "get")
  /\ UNCHANGED <<queue, raop, lms, fetching, session>>

CountDown ==
  /\ At("meta")
  /\ dev' = [dev EXCEPT !.metaWait = IF @ > 0 THEN @ - 1 ELSE 0]
  /\ Goto(IF dev.metaWait = 1 THEN "fetch" ELSE "get")
  /\ UNCHANGED <<queue, raop, lms, fetching, session>>

(* LMS tells what it plays, or does not answer in time. *)
FetchMetadata ==
  /\ At("fetch")
  /\ \/ /\ lms.track # NoTrack
        /\ player' = [player EXCEPT !.pc = "compare", !.fetched = lms.track]
        /\ UNCHANGED dev
     \/ /\ dev' = [dev EXCEPT !.metaWait = RefreshWait]
        /\ Goto("get")
  /\ UNCHANGED <<queue, raop, lms, fetching, session>>

CompareHash ==
  /\ At("compare")
  /\ IF dev.metaHash # player.fetched
       THEN /\ raop' = [raop EXCEPT !.text = player.fetched]
            /\ Goto("store")
            /\ UNCHANGED dev
       ELSE /\ dev' = [dev EXCEPT !.metaWait = RefreshWait]
            /\ Goto("get")
            /\ UNCHANGED raop
  /\ UNCHANGED <<queue, lms, fetching, session>>

(* A remote stream is looked at again, another track only once it starts.  *)
StoreHash ==
  /\ At("store")
  /\ \E remote, artwork \in BOOLEAN :
       /\ dev' = [dev EXCEPT !.metaHash = player.fetched,
                             !.metaWait = IF remote THEN RefreshWait ELSE @]
       /\ fetching' = IF artwork THEN fetching \cup {player.fetched} ELSE fetching
  /\ player' = [player EXCEPT !.pc = "get", !.fetched = NoTrack]
  /\ UNCHANGED <<queue, raop, lms, session>>

Holding(type) == At("execute") /\ player.hand.type = type

Served == player' = [player EXCEPT !.pc = "get", !.hand = NoReq]
Done(what) == session' = [session EXCEPT !.done = what]

ExecuteConnect ==
  /\ Holding("CONNECT")
  /\ \/ raop' = [raop EXCEPT !.connected = TRUE] /\ Goto("connected")
     \/ UNCHANGED raop /\ Served
  /\ Done("CONNECT")
  /\ UNCHANGED <<dev, queue, lms, fetching>>

Connected ==
  /\ At("connected")
  /\ dev' = [dev EXCEPT !.discWait = FALSE]
  /\ Served
  /\ UNCHANGED <<queue, raop, lms, fetching, session>>

(* Mutant: a flush does not arm the idle disconnection. *)
ExecuteFlushUnarmed ==
  /\ Holding("FLUSH")
  /\ dev' = [dev EXCEPT !.flushAge = 0]
  /\ Done("FLUSH")
  /\ Served
  /\ UNCHANGED <<queue, raop, lms, fetching>>

ExecuteFlush ==
  /\ Holding("FLUSH")
  /\ dev' = [dev EXCEPT !.flushAge = 0, !.discWait = TRUE]
  /\ Done("FLUSH")
  /\ Served
  /\ UNCHANGED <<queue, raop, lms, fetching>>

ExecuteOff ==
  /\ Holding("OFF")
  /\ raop' = [raop EXCEPT !.connected = FALSE, !.healthy = TRUE]
  /\ Done("OFF")
  /\ Served
  /\ UNCHANGED <<dev, queue, lms, fetching>>

ExecuteVolume ==
  /\ Holding("VOLUME")
  /\ raop' = [raop EXCEPT !.volume = player.hand.arg]
  /\ Served
  /\ UNCHANGED <<dev, queue, lms, fetching, session>>

(* Mutant: the hash is only checked when the picture is queued. *)
ExecuteArtworkUnchecked ==
  /\ Holding("ARTWORK")
  /\ raop' = [raop EXCEPT !.art = player.hand.arg]
  /\ Served
  /\ UNCHANGED <<dev, queue, lms, fetching, session>>

ExecuteArtwork ==
  /\ Holding("ARTWORK")
  /\ raop' = IF dev.metaHash = player.hand.arg
               THEN [raop EXCEPT !.art = player.hand.arg] ELSE raop
  /\ Served
  /\ UNCHANGED <<dev, queue, lms, fetching, session>>

PlayerThread ==
  \/ ThreadStart \/ GetRequest \/ Wake \/ LookAtStatus \/ PutBack \/ GiveUp
  \/ IdleTick \/ Release \/ CheckSane
  \/ CountDown \/ FetchMetadata \/ CompareHash \/ StoreHash
  \/ ExecuteConnect \/ Connected \/ ExecuteFlush \/ ExecuteOff
  \/ ExecuteVolume \/ ExecuteArtwork

-----------------------------------------------------------------------------
(* Mutant: a removed device is not recognised. *)
ArtworkFetchedAnyway ==
  \E track \in fetching :
    /\ fetching' = fetching \ {track}
    /\ \/ dev.metaHash = track /\ Push(Req("ARTWORK", track))
       \/ UNCHANGED queue
    /\ UNCHANGED <<dev, player, raop, lms, session>>

(* GetArtworkThread: the picture comes late, or not at all. *)
ArtworkFetched ==
  \E track \in fetching :
    /\ fetching' = fetching \ {track}
    /\ \/ /\ dev.running /\ dev.metaHash = track
          /\ Push(Req("ARTWORK", track))
       \/ UNCHANGED queue
    /\ UNCHANGED <<dev, player, raop, lms, session>>

(* Mutant: the thread is signalled but not told to end. *)
DeleteSignalOnly ==
  /\ Order("DELETE")
  /\ dev.deleted = "no"
  /\ EarlyDelete \/ ~At("start")
  /\ dev' = [dev EXCEPT !.deleted = "joining"]
  /\ UNCHANGED <<queue, player, raop, lms, fetching, session>>

(* DelRaopDevice: tell the thread, then join it and clean up. *)
Delete ==
  /\ Order("DELETE")
  /\ dev.deleted = "no"
  /\ EarlyDelete \/ ~At("start")
  /\ dev' = [dev EXCEPT !.running = FALSE, !.deleted = "joining"]
  /\ UNCHANGED <<queue, player, raop, lms, fetching, session>>

Deleted ==
  /\ dev.deleted = "joining"
  /\ At("exit")
  /\ dev' = [dev EXCEPT !.deleted = "gone"]
  /\ raop' = [raop EXCEPT !.connected = FALSE]
  /\ queue' = << >>
  /\ UNCHANGED <<player, lms, fetching, session>>

(* LMS changes mode before its orders say so, or while they are under way. *)
LmsMode ==
  /\ "MODE" \in Orders
  /\ \E mode \in Modes \ {lms.mode} : lms' = [lms EXCEPT !.mode = mode]
  /\ UNCHANGED <<dev, queue, player, raop, fetching, session>>

(* The connection breaks down (raopcl_is_sane). *)
Break ==
  /\ "BREAK" \in Commands
  /\ lms.orders > 0
  /\ raop.healthy
  /\ raop' = [raop EXCEPT !.healthy = FALSE]
  /\ lms' = Counted
  /\ UNCHANGED <<dev, queue, player, fetching, session>>

Tick ==
  /\ dev' = [dev EXCEPT !.flushAge = Aged(@, FlushLimit),
                        !.volAge = Aged(@, VolumeLimit)]
  /\ player' = [player EXCEPT !.lastAge = Aged(@, PreventLimit)]
  /\ UNCHANGED <<queue, raop, lms, fetching, session>>

Next ==
  \/ Callback \/ Remote \/ PlayerThread \/ ArtworkFetched
  \/ Delete \/ Deleted \/ LmsMode \/ Break \/ Tick

Spec == Init /\ [][Next]_vars

(* PlayerThread keeps running, time passes, a removal goes on once the     *)
(* thread is gone, and LMS switches a player off when it is asked to.      *)
Fairness ==
  /\ WF_vars(PlayerThread)
  /\ WF_vars(Tick)
  /\ WF_vars(Deleted)
  /\ WF_vars(PowerOff /\ lms.askedOff)

FairSpec == Spec /\ Fairness
-----------------------------------------------------------------------------
Devices ==
  [running : BOOLEAN, deleted : {"no", "joining", "gone"}, on : BOOLEAN,
   prevent : BOOLEAN, busy : BOOLEAN, sqState : Modes, trackRunning : BOOLEAN,
   discWait : BOOLEAN, flushAge : 0..FlushLimit, sane : 0..4, metaWait : Nat,
   metaHash : Tracks \cup {NoTrack}, volume : Levels, volAge : 0..VolumeLimit]

Players ==
  [pc : {"start", "get", "wait", "got", "putBack", "giveUp", "idle", "release",
         "sane", "meta", "fetch", "compare", "store", "execute", "connected",
         "exit"},
   hand : Requests \cup {NoReq}, fetched : Tracks \cup {NoTrack},
   lastAge : 0..PreventLimit]

Clients ==
  [connected : BOOLEAN, healthy : BOOLEAN, volume : Levels,
   text : Tracks \cup {NoTrack}, art : Tracks \cup {NoTrack}]

Servers ==
  [track : Tracks \cup {NoTrack}, mode : Modes, volume : Levels,
   askedOff : BOOLEAN, askedPlay : BOOLEAN, askedVolume : Seq(Levels),
   orders : 0..MaxOrders]

Sessions ==
  [wanted : {"none", "CONNECT", "FLUSH", "OFF"},
   done : {"none", "CONNECT", "FLUSH", "OFF"}, dropped : BOOLEAN]

(* Type invariant. *)
TypeOK ==
  /\ dev \in Devices
  /\ queue \in Seq(Requests)
  /\ player \in Players
  /\ raop \in Clients
  /\ lms \in Servers
  /\ fetching \subseteq Tracks
  /\ session \in Sessions

(***************************************************************************)
(* Requests of one kind that PlayerThread has still to carry out.          *)
(***************************************************************************)
Pending(reqs) ==
  player.hand \in reqs \/ \E i \in DOMAIN queue : queue[i] \in reqs

(* Once nothing is left to do the player is in the state LMS asked for     *)
(* last: a request put back by "prevent playback" keeps its turn, a switch *)
(* off overtakes what it makes pointless, nothing overtakes a switch off   *)
(* or a flush.  Only a request dropped by GiveUp is excused.               *)
SessionApplied ==
  dev.deleted = "no" /\ ~Pending(Plain) =>
    session.dropped \/ session.done = session.wanted

(* Without feedback and breakdowns the player ends up at the volume LMS    *)
(* set last while the device was on.  Only a mute may be left out, unless  *)
(* mutes are wanted (MuteOnPause): then the player stays at the last       *)
(* volume that was taken.                                                  *)
VolumeApplied ==
  dev.deleted = "no" /\ ~Pending({Req("VOLUME", v) : v \in Levels}) =>
    \/ raop.volume = lms.volume
    \/ lms.volume = 0 /\ ~MuteOnPause /\ raop.volume = dev.volume

(* A picture is only ever shown under the title it belongs to, however     *)
(* late its thread delivers it and whatever started in between.            *)
ArtworkMatchesText ==
  [][raop'.art # raop.art => raop'.art = raop.text]_vars

(* What outlives a removed device (artwork threads, remote commands) never *)
(* queues anything for it again.                                           *)
QuietOnceGone ==
  dev.deleted = "gone" => queue = << >> /\ ~raop.connected

(* A player that was stopped or paused gives the device back to others     *)
(* some day, unless it plays again.                                        *)
HaltedReleased ==
  raop.connected /\ session.done = "FLUSH"
    ~> ~raop.connected \/ session.wanted = "CONNECT"

(* Switching the player off gives the device back, unless GiveUp had the   *)
(* switch off in hand.                                                     *)
OffReleases ==
  session.wanted = "OFF"
    ~> ~raop.connected \/ session.wanted # "OFF" \/ session.dropped

(* A player on another input is given up: LMS is made to switch it off     *)
(* unless the player comes back.                                           *)
PreventedSwitchesOff == dev.prevent /\ dev.on ~> ~dev.prevent \/ ~dev.on

(* So is a player whose connection stays broken. *)
BrokenSwitchesOff == dev.on /\ ~raop.healthy ~> ~dev.on \/ raop.healthy

(* The title of every track that keeps playing gets to the player, however *)
(* the start of the track and a refresh that is under way interleave.      *)
MetadataShown ==
  \A track \in Tracks :
    dev.on /\ dev.trackRunning /\ lms.track = track
      ~> raop.text = track \/ lms.track # track \/ ~dev.trackRunning \/ ~dev.on

(* LMS answers some of the metadata queries. *)
AnsweringSpec == FairSpec /\ SF_vars(FetchMetadata /\ player'.pc = "compare")

(* DelRaopDevice returns. *)
DeleteReturns == dev.deleted = "joining" ~> dev.deleted = "gone"
-----------------------------------------------------------------------------
(* A halted player keeps the connection for IdleTimeout, "so that restart  *)
(* can be quick" (strings.txt:271-273).                                    *)
HeldWhileIdle ==
  [][raop.connected /\ ~raop'.connected /\ session'.done = "FLUSH"
       => dev.flushAge >= IdleTimeout]_vars

(* A volume changed on the player is forwarded to LMS (userguide, 4.4).    *)
FeedbackForwarded ==
  [][\A level \in Levels :
       Feedback(level) /\ dev.on /\ lms.askedVolume = << >> /\ level # lms.volume
         => lms'.askedVolume # << >>]_vars
=============================================================================
