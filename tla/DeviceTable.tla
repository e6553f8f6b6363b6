---------------------------- MODULE DeviceTable ----------------------------
(***************************************************************************)
(* The table of bridged players: discovery (mDNSsearchCallback), the       *)
(* periodic check (MainThread, UpdateDevices) and the life of the          *)
(* squeezelite context behind each slot (sq_reserve_device, sq_run_device, *)
(* sq_wipe_device).                                                        *)
(*                                                                         *)
(* Two threads change the table: "mdns" and "main". They share glMainMutex *)
(* with the slimproto threads, whose SQ_SETNAME saves the configuration;   *)
(* the contexts and the slots themselves have no lock.                     *)
(*                                                                         *)
(* Left out: excluded or disabled players, changes of address, failures of *)
(* raopcl_create and of the allocations of sq_run_device, the saving of    *)
(* the configuration by the mDNS thread, the discovery mode, the shutdown. *)
(***************************************************************************)
EXTENDS Integers, FiniteSets, Sequences

CONSTANTS
    Names,      \* the players of the network (UDN)
    NSlots,     \* MAX_RENDERERS
    NCtx,       \* MAX_PLAYER
    Setups,     \* the configurations: the values RemoveTimeout may have (-1, 0, or 1
                \* for any number of seconds) and glAutoSaveConfigFile
    Overlap,    \* whether an announcement may come in while MainThread updates the table
    MaxNews     \* bound: announcements of the network

ASSUME TableAssumption ==
    /\ NSlots \in Nat \ {0} /\ NCtx \in Nat \ {0} /\ MaxNews \in Nat
    /\ Setups \subseteq [timeouts : SUBSET {-1, 0, 1}, save : BOOLEAN]
    /\ Overlap \in BOOLEAN
    /\ IsFiniteSet(Names)

None == "none"
Slots == 1..NSlots
Ctxs == 1..NCtx
Workers == {"mdns", "main"}
Threads == {"slim", "output", "decode", "stream"}
Removing == {"wipe", "slim", "output", "decode", "stream", "player", "join"}
Adding == {"reserve", "run"}
Stages == {"idle", "list", "judge", "scan"} \cup Adding \cup Removing

VARIABLES
    autoSave,       \* glAutoSaveConfigFile
    removeTimeout,  \* Config.RemoveTimeout of each player
    net,            \* "up"; "mute": no longer announced, answers pings; "down"
    news,           \* announcements not yet handled
    sent,           \* announcements made
    slot,           \* glMRDevices
    ctx,            \* thread_ctx
    slim,           \* where each slimproto thread is, and the device it calls
    mainMutex,      \* holder of glMainMutex
    work            \* what each worker is doing, on which slot

vars == <<autoSave, removeTimeout, net, news, sent, slot, ctx, slim, mainMutex, work>>

Slot == [running : BOOLEAN,
         name    : Names \cup {None},
         expired : {"no", "new", "due"},   \* Expired: 0, since less or more than the timeout
         handle  : 0..NCtx,
         players : 0..1,                   \* PlayerThreads alive
         lock    : 0..NCtx]                \* the context whose callback holds Mutex

Ctx == [inUse     : BOOLEAN,
        dev       : 0..NSlots,             \* MR
        forwards  : BOOLEAN,               \* callback is sq_callback, not lambda
        run       : SUBSET Threads,        \* the *_running flags
        alive     : SUBSET Threads,        \* the threads not yet ended
        outputbuf : BOOLEAN,
        streambuf : BOOLEAN]

\* Every thread and variable ranges over its values.
TypeOK ==
    /\ autoSave \in BOOLEAN
    /\ removeTimeout \in [Names -> {-1, 0, 1}]
    /\ net \in [Names -> {"up", "mute", "down"}]
    /\ news \in Seq([name : Names, expired : BOOLEAN])
    /\ sent \in 0..MaxNews
    /\ slot \in [Slots -> Slot]
    /\ ctx \in [Ctxs -> Ctx]
    /\ slim \in [Ctxs -> [at : {"loop", "call", "save"}, dev : 0..NSlots]]
    /\ mainMutex \in Workers \cup {None}
    /\ work \in [Workers -> [at : Stages, slot : 0..NSlots + 1]]

Init ==
    /\ \E setup \in Setups : /\ autoSave = setup.save
                            /\ removeTimeout \in [Names -> setup.timeouts]
    /\ net = [n \in Names |-> "down"]
    /\ news = << >> /\ sent = 0
    /\ slot = [s \in Slots |-> [running |-> FALSE, name |-> None, expired |-> "no",
                                handle |-> 0, players |-> 0, lock |-> 0]]
    /\ ctx = [c \in Ctxs |-> [inUse |-> FALSE, dev |-> 0, forwards |-> FALSE, run |-> {},
                              alive |-> {}, outputbuf |-> FALSE, streambuf |-> FALSE]]
    /\ slim = [c \in Ctxs |-> [at |-> "loop", dev |-> 0]]
    /\ mainMutex = None
    /\ work = [t \in Workers |-> [at |-> "idle", slot |-> 0]]

Least(S) == CHOOSE x \in S : \A y \in S : x <= y

\* Mutant: a slot is found by the name its last player left there.
KnownEver(n) == {s \in Slots : slot[s].name = n}

Known(n) == {s \in Slots : slot[s].running /\ slot[s].name = n}    \* SearchUDN
FreeSlots == {s \in Slots : ~slot[s].running}
FreeCtxs == {c \in Ctxs : ~ctx[c].inUse}
Pings(n) == net[n] # "down"                                        \* ping_host
Due(i) == {s \in i..NSlots : /\ slot[s].running
                             /\ removeTimeout[slot[s].name] > 0
                             /\ slot[s].expired = "due"}

Goto(t, at, s) == work' = [work EXCEPT ![t] = [at |-> at, slot |-> s]]

\* Mutant: the squeezelite instance is not deleted.
StartRemovalBridgeOnly(t, s) == Goto(t, "player", s)

StartRemoval(t, s) == Goto(t, IF slot[s].handle = 0 THEN "player" ELSE "wipe", s)

-----------------------------------------------------------------------------
(* The network and the clock *)

Announce(n, state, expired) ==
    /\ sent < MaxNews /\ sent' = sent + 1
    /\ net' = [net EXCEPT ![n] = state]
    /\ news' = Append(news, [name |-> n, expired |-> expired])

\* A player comes (back), falls silent while it can still be reached, or leaves.
Network ==
    /\ \E n \in Names :
          \/ net[n] # "up" /\ Announce(n, "up", FALSE)
          \/ net[n] = "up" /\ \E state \in {"mute", "down"} : Announce(n, state, TRUE)
          \/ net[n] = "mute" /\ net' = [net EXCEPT ![n] = "down"] /\ UNCHANGED <<news, sent>>
    /\ UNCHANGED <<autoSave, removeTimeout, slot, ctx, slim, mainMutex, work>>

\* The remove timeout of a missing player runs out.
Tick(s) ==
    /\ slot[s].running /\ slot[s].expired = "new" /\ removeTimeout[slot[s].name] > 0
    /\ slot' = [slot EXCEPT ![s].expired = "due"]
    /\ UNCHANGED <<autoSave, removeTimeout, net, news, sent, ctx, slim, mainMutex, work>>

-----------------------------------------------------------------------------
(* mDNSsearchCallback: one announcement after the other, then UpdateDevices *)

\* Set up of a slot by AddRaopDevice, which starts a PlayerThread.
Occupied(s, n) == [slot[s] EXCEPT !.running = TRUE, !.name = n, !.expired = "no",
                                  !.handle = 0, !.players = @ + 1]

\* (When no slot is free the code leaves the rest of the list, squeeze2raop.c:719,
\* where the model goes on; the runs have a slot for every player.)
Listen ==
    /\ work["mdns"].at \in {"idle", "list"} /\ news # << >>
    /\ Overlap \/ work["main"].at = "idle"
    /\ news' = Tail(news)
    /\ LET n == Head(news).name
           known == Known(n)
       IN  \/ /\ known # {}
              /\ slot' = [slot EXCEPT ![Least(known)].expired = "no"]
              /\ Goto("mdns", IF Head(news).expired THEN "judge" ELSE "list", Least(known))
           \/ /\ known = {} /\ (Head(news).expired \/ FreeSlots = {})
              /\ Goto("mdns", "list", 0)
              /\ UNCHANGED slot
           \/ /\ known = {} /\ ~Head(news).expired /\ FreeSlots # {}
              /\ slot' = [slot EXCEPT ![Least(FreeSlots)] = Occupied(Least(FreeSlots), n)]
              /\ Goto("mdns", "reserve", Least(FreeSlots))
    /\ UNCHANGED <<autoSave, removeTimeout, net, sent, ctx, slim, mainMutex>>

\* Mutant: the time a kept player went missing is not noted.
JudgeUnstamped ==
    /\ work["mdns"].at = "judge"
    /\ LET s == work["mdns"].slot
           n == slot[s].name
       IN  \E connected \in BOOLEAN :
             IF ~connected /\ removeTimeout[n] = 0 /\ ~Pings(n)
               THEN StartRemoval("mdns", s)
               ELSE Goto("mdns", "list", 0)
    /\ UNCHANGED <<autoSave, removeTimeout, net, news, sent, slot, ctx, slim, mainMutex>>

\* A player said to be gone: removed at once, or kept with the time it went missing.
Judge ==
    /\ work["mdns"].at = "judge"
    /\ LET s == work["mdns"].slot
           n == slot[s].name
       IN  \E connected \in BOOLEAN :
             IF ~connected /\ removeTimeout[n] = 0 /\ ~Pings(n)
               THEN StartRemoval("mdns", s) /\ UNCHANGED slot
               ELSE /\ slot' = [slot EXCEPT ![s].expired = "new"]
                    /\ Goto("mdns", "list", 0)
    /\ UNCHANGED <<autoSave, removeTimeout, net, news, sent, ctx, slim, mainMutex>>

\* sq_reserve_device clears the first context not in use; the threads an earlier
\* owner may have left are not ended by that. Without a context the device goes.
Reserve ==
    /\ work["mdns"].at = "reserve"
    /\ LET s == work["mdns"].slot
           c == Least(FreeCtxs)
       IN  IF FreeCtxs = {}
             THEN Goto("mdns", "player", s) /\ UNCHANGED <<slot, ctx>>
             ELSE /\ ctx' = [ctx EXCEPT ![c] =
                        [inUse |-> TRUE, dev |-> s, forwards |-> TRUE, run |-> {},
                         alive |-> @.alive, outputbuf |-> FALSE, streambuf |-> FALSE]]
                  /\ slot' = [slot EXCEPT ![s].handle = c]
                  /\ Goto("mdns", "run", s)
    /\ UNCHANGED <<autoSave, removeTimeout, net, news, sent, slim, mainMutex>>

\* sq_run_device creates the buffers and starts the threads that use them.
Run ==
    /\ work["mdns"].at = "run"
    /\ ctx' = [ctx EXCEPT ![slot[work["mdns"].slot].handle] =
                  [@ EXCEPT !.run = Threads, !.alive = Threads,
                            !.outputbuf = TRUE, !.streambuf = TRUE]]
    /\ Goto("mdns", "list", 0)
    /\ UNCHANGED <<autoSave, removeTimeout, net, news, sent, slot, slim, mainMutex>>

-----------------------------------------------------------------------------
(* UpdateDevices, called by both workers *)

Update(t) ==
    /\ work[t].at = (IF t = "mdns" THEN "list" ELSE "idle")
    /\ Overlap \/ t = "mdns" \/ (work["mdns"].at = "idle" /\ news = << >>)
    /\ mainMutex = None /\ mainMutex' = t
    /\ Goto(t, "scan", 1)
    /\ UNCHANGED <<autoSave, removeTimeout, net, news, sent, slot, ctx, slim>>

\* A player missing for too long is removed, or gets a new period if it answers.
Scan(t) ==
    /\ work[t].at = "scan" /\ Due(work[t].slot) # {}
    /\ LET s == Least(Due(work[t].slot))
       IN  IF Pings(slot[s].name)
             THEN slot' = [slot EXCEPT ![s].expired = "new"] /\ Goto(t, "scan", s + 1)
             ELSE StartRemoval(t, s) /\ UNCHANGED slot
    /\ UNCHANGED <<autoSave, removeTimeout, net, news, sent, ctx, slim, mainMutex>>

Updated(t) ==
    /\ work[t].at = "scan" /\ Due(work[t].slot) = {}
    /\ mainMutex' = None
    /\ Goto(t, "idle", 0)
    /\ UNCHANGED <<autoSave, removeTimeout, net, news, sent, slot, ctx, slim>>

-----------------------------------------------------------------------------
(* The removal: sq_delete_device, then DelRaopDevice *)

Alive(t) == ctx[slot[work[t].slot].handle].alive
SetCtx(t, new) == ctx' = [ctx EXCEPT ![slot[work[t].slot].handle] = new]
GetCtx(t) == ctx[slot[work[t].slot].handle]

\* Mutant: the context is given up without stopping slimproto, which calls on.
WipeUnstopped(t) ==
    /\ work[t].at = "wipe"
    /\ SetCtx(t, [GetCtx(t) EXCEPT !.inUse = FALSE])
    /\ Goto(t, "slim", work[t].slot)
    /\ UNCHANGED <<autoSave, removeTimeout, net, news, sent, slot, slim, mainMutex>>

\* sq_wipe_device silences the context and gives it up, then stops slimproto.
Wipe(t) ==
    /\ work[t].at = "wipe"
    /\ SetCtx(t, [GetCtx(t) EXCEPT !.forwards = FALSE, !.inUse = FALSE, !.run = @ \ {"slim"}])
    /\ Goto(t, "slim", work[t].slot)
    /\ UNCHANGED <<autoSave, removeTimeout, net, news, sent, slot, slim, mainMutex>>

\* slimproto_close, output_close, decode_close and stream_close each wait for a
\* thread; the next one is then told to stop, and a buffer goes with its thread.
JoinSlim(t) ==
    /\ work[t].at = "slim" /\ "slim" \notin Alive(t)
    /\ SetCtx(t, [GetCtx(t) EXCEPT !.run = @ \ {"output"}])
    /\ Goto(t, "output", work[t].slot)

JoinOutput(t) ==
    /\ work[t].at = "output" /\ "output" \notin Alive(t)
    /\ SetCtx(t, [GetCtx(t) EXCEPT !.outputbuf = FALSE, !.run = @ \ {"decode"}])
    /\ Goto(t, "decode", work[t].slot)

\* Mutant: decode_close does not wait for its thread.
JoinDecodeEarly(t) ==
    /\ work[t].at = "decode"
    /\ SetCtx(t, [GetCtx(t) EXCEPT !.run = @ \ {"stream"}])
    /\ Goto(t, "stream", work[t].slot)

JoinDecode(t) ==
    /\ work[t].at = "decode" /\ "decode" \notin Alive(t)
    /\ SetCtx(t, [GetCtx(t) EXCEPT !.run = @ \ {"stream"}])
    /\ Goto(t, "stream", work[t].slot)

JoinStream(t) ==
    /\ work[t].at = "stream" /\ "stream" \notin Alive(t)
    /\ SetCtx(t, [GetCtx(t) EXCEPT !.streambuf = FALSE])
    /\ Goto(t, "player", work[t].slot)

Join(t) ==
    /\ JoinSlim(t) \/ JoinOutput(t) \/ JoinDecode(t) \/ JoinStream(t)
    /\ UNCHANGED <<autoSave, removeTimeout, net, news, sent, slot, slim, mainMutex>>

\* DelRaopDevice: Running is cleared under Mutex, which frees the slot before
\* PlayerThread has ended.
StopPlayer(t) ==
    /\ work[t].at = "player" /\ slot[work[t].slot].lock = 0
    /\ slot' = [slot EXCEPT ![work[t].slot].running = FALSE]
    /\ Goto(t, "join", work[t].slot)
    /\ UNCHANGED <<autoSave, removeTimeout, net, news, sent, ctx, slim, mainMutex>>

\* Mutant: DelRaopDevice does not wait for PlayerThread.
JoinPlayerDetached(t) ==
    /\ work[t].at = "join"
    /\ IF mainMutex = t THEN Goto(t, "scan", work[t].slot + 1) ELSE Goto(t, "list", 0)
    /\ UNCHANGED <<autoSave, removeTimeout, net, news, sent, slot, ctx, slim, mainMutex>>

JoinPlayer(t) ==
    /\ work[t].at = "join" /\ slot[work[t].slot].players = 0
    /\ IF mainMutex = t THEN Goto(t, "scan", work[t].slot + 1) ELSE Goto(t, "list", 0)
    /\ UNCHANGED <<autoSave, removeTimeout, net, news, sent, slot, ctx, slim, mainMutex>>

Remove(t) == Wipe(t) \/ Join(t) \/ StopPlayer(t) \/ JoinPlayer(t)

-----------------------------------------------------------------------------
(* The threads of the devices *)

\* PlayerThread and the threads of a context end once their flag is cleared.
PlayerEnds(s) ==
    /\ slot[s].players > 0 /\ ~slot[s].running
    /\ slot' = [slot EXCEPT ![s].players = @ - 1]
    /\ UNCHANGED <<autoSave, removeTimeout, net, news, sent, ctx, slim, mainMutex, work>>

ThreadEnds(c, th) ==
    /\ th \in ctx[c].alive \ ctx[c].run
    /\ th = "slim" => slim[c].at = "loop"
    /\ ctx' = [ctx EXCEPT ![c].alive = @ \ {th}]
    /\ UNCHANGED <<autoSave, removeTimeout, net, news, sent, slot, slim, mainMutex, work>>

\* The slimproto thread reads the callback, then waits for the device's Mutex.
SlimCall(c) ==
    /\ slim[c].at = "loop" /\ "slim" \in ctx[c].alive \cap ctx[c].run
    /\ ctx[c].forwards
    /\ slim' = [slim EXCEPT ![c] = [at |-> "call", dev |-> ctx[c].dev]]
    /\ UNCHANGED <<autoSave, removeTimeout, net, news, sent, slot, ctx, mainMutex, work>>

\* sq_callback: what it does to a running device is the module RaopDevice's;
\* here only SQ_SETNAME matters, which keeps Mutex to save the configuration.
SlimCallback(c) ==
    /\ slim[c].at = "call" /\ slot[slim[c].dev].lock = 0
    /\ \/ slim' = [slim EXCEPT ![c].at = "loop"] /\ UNCHANGED slot
       \/ /\ slot[slim[c].dev].running /\ autoSave
          /\ slim' = [slim EXCEPT ![c].at = "save"]
          /\ slot' = [slot EXCEPT ![slim[c].dev].lock = c]
    /\ UNCHANGED <<autoSave, removeTimeout, net, news, sent, ctx, mainMutex, work>>

SlimSave(c) ==
    /\ slim[c].at = "save" /\ mainMutex = None
    /\ slim' = [slim EXCEPT ![c].at = "loop"]
    /\ slot' = [slot EXCEPT ![slim[c].dev].lock = 0]
    /\ UNCHANGED <<autoSave, removeTimeout, net, news, sent, ctx, mainMutex, work>>

-----------------------------------------------------------------------------
MdnsThread == Listen \/ Judge \/ Reserve \/ Run
Worker(t) == Update(t) \/ Scan(t) \/ Updated(t) \/ Remove(t)

Next ==
    \/ Network
    \/ MdnsThread
    \/ \E t \in Workers : Worker(t)
    \/ \E s \in Slots : Tick(s) \/ PlayerEnds(s)
    \/ \E c \in Ctxs : \/ SlimCall(c) \/ SlimCallback(c) \/ SlimSave(c)
                       \/ \E th \in Threads : ThreadEnds(c, th)

(* Every thread goes on; glMainMutex is held for moments every 30 s, so that   *)
(* a thread that waits for it gets it in the end. Nothing is asked of the      *)
(* network, nor of LMS, whose orders make the slimproto thread call.           *)
Fairness ==
    /\ WF_vars(MdnsThread)
    /\ \A t \in Workers : WF_vars(Worker(t))
    /\ \A s \in Slots : WF_vars(Tick(s)) /\ WF_vars(PlayerEnds(s))
    /\ \A c \in Ctxs : /\ SF_vars(SlimCallback(c)) /\ SF_vars(SlimSave(c))
                       /\ \A th \in Threads : WF_vars(ThreadEnds(c, th))

Spec == Init /\ [][Next]_vars /\ Fairness

-----------------------------------------------------------------------------
(* Properties *)

\* As long as a thread of a context is alive, the context belongs to one running
\* device, which calls back for it (sq_delete_device before DelRaopDevice).
ContextOwned ==
    \A c \in Ctxs : ctx[c].alive # {} =>
        \E s \in Slots : /\ slot[s].running /\ slot[s].handle = c /\ ctx[c].dev = s
                         /\ \A r \in Slots \ {s} : ~(slot[r].running /\ slot[r].handle = c)

\* A buffer is destroyed after the threads that use it have ended
\* (the order of the closes in sq_wipe_device); decode_thread and outputbuf, for
\* which the order is wrong, are OutputbufOutlives.
BuffersOutlive ==
    \A c \in Ctxs :
        /\ ctx[c].alive \cap {"slim", "decode", "stream"} # {} => ctx[c].streambuf
        /\ ctx[c].alive \cap {"slim", "output"} # {} => ctx[c].outputbuf

OutputbufOutlives == \A c \in Ctxs : "decode" \in ctx[c].alive => ctx[c].outputbuf

\* sq_reserve_device hands out a context nothing of its last owner runs in.
ReservedFree ==
    work["mdns"].at = "run" => ctx[slot[work["mdns"].slot].handle].alive = {}

\* A removal that has begun ends, whatever the slimproto thread is doing.
RemovalEnds ==
    \A t \in Workers : work[t].at \in Removing ~> work[t].at \notin Removing

\* A player that stays away is removed, if it has a remove timeout.  (With automatic
\* saving as well the code can lock up and does not: run table_saving.)
AbsentRemoved ==
    \A n \in Names : <>[](net[n] = "down" /\ removeTimeout[n] > 0) => <>[](Known(n) = {})

Bridged(n) == \E s \in Known(n) : slot[s].handle # 0 /\ ctx[slot[s].handle].alive = Threads

\* A player that comes to stay gets its bridge and keeps it.
PresentFound == \A n \in Names : <>[](net[n] = "up") => <>[]Bridged(n)

=============================================================================
