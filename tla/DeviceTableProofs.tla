------------------------- MODULE DeviceTableProofs -------------------------
(***************************************************************************)
(* Proofs about DeviceTable, for any number of players, slots and contexts *)
(* and any configuration, as long as MainThread does not update the table  *)
(* while an announcement is handled (Overlap = FALSE).                     *)
(***************************************************************************)
EXTENDS DeviceTable, WellFoundedInduction, TLAPS

(* What the provers are given for a leaf, in seconds. *)
USE SMTT(20), ZenonT(40)

Closing == {"slim", "output", "decode", "stream"}

\* Only one worker is at work.
Excl == work["mdns"].at = "idle" \/ work["main"].at = "idle"

\* A worker that deals with a slot has one, and MainThread adds nothing.
Placed ==
    /\ \A t \in Workers :
          /\ work[t].at \in {"judge"} \cup Adding \cup Removing => work[t].slot \in Slots
          /\ work[t].at = "scan" => work[t].slot \in 1..NSlots + 1
    /\ work["main"].at \in {"idle", "scan"} \cup Removing

\* The threads that have ended once a removal is at a given stage.
Ended(at) == CASE at = "output" -> {"slim"}
               [] at = "decode" -> {"slim", "output"}
               [] at = "stream" -> {"slim", "output", "decode"}
               [] OTHER -> {}

\* The slot a worker deals with, and its context, are at the worker's stage.
Held(t, s) ==
    /\ work[t].at \in {"judge"} \cup Adding \cup (Removing \ {"join"}) => slot[s].running
    /\ work[t].at = "join" => ~slot[s].running
    /\ work[t].at = "reserve" => slot[s].handle = 0
    /\ work[t].at = "run" => /\ slot[s].handle # 0
                             /\ ctx[slot[s].handle].inUse
                             /\ ctx[slot[s].handle].alive = {}
    /\ work[t].at = "wipe" => slot[s].handle # 0
    /\ work[t].at \in Closing =>
          /\ slot[s].handle # 0
          /\ Ended(work[t].at) \cap ctx[slot[s].handle].alive = {}
    /\ work[t].at = "player" /\ slot[s].handle # 0 => ctx[slot[s].handle].alive = {}

Staged == \A t \in Workers :
             work[t].at \in {"judge"} \cup Adding \cup Removing => Held(t, work[t].slot)

\* The worker that takes a context from slot s.
Closes(t, s) == work[t].slot = s /\ work[t].at \in Closing \cup {"player"}

\* A running device has its PlayerThread and its context, until they are taken from it.
Kept ==
    \A s \in Slots :
       /\ slot[s].running => slot[s].players = 1
       /\ ~slot[s].running /\ slot[s].players # 0 =>
             \E t \in Workers : work[t].at = "join" /\ work[t].slot = s
       /\ slot[s].running /\ slot[s].handle # 0 =>
             /\ ctx[slot[s].handle].dev = s
             /\ ctx[slot[s].handle].inUse \/ \E t \in Workers : Closes(t, s)

\* A context with live threads is the context of its device.
Owned ==
    \A c \in Ctxs :
       /\ ctx[c].alive # {} => /\ ctx[c].dev \in Slots
                               /\ slot[ctx[c].dev].running
                               /\ slot[ctx[c].dev].handle = c
       /\ ctx[c].forwards => ctx[c].dev \in Slots
       /\ slim[c].at # "loop" => slim[c].dev \in Slots

\* MainThread works under glMainMutex.
Locked == work["main"].at # "idle" => mainMutex = "main"

TableInv == TypeOK /\ Excl /\ Placed /\ Staged /\ Kept /\ Owned /\ BuffersOutlive

-----------------------------------------------------------------------------
(* A non-empty set of numbers has a least element. *)
LEMMA LeastIn ==
  ASSUME NEW S, S \subseteq Nat, S # {}
  PROVE  Least(S) \in S
<1> DEFINE R == {p \in Nat \X Nat : p[1] < p[2]}
<1>1. IsWellFoundedOn(R, Nat)
  BY NatLessThanWellFounded DEF OpToRel
<1>2. PICK x \in S : \A y \in S : <<y, x>> \notin R
  BY <1>1, WFMin
<1>3. \A y \in S : x <= y
  <2>1. ASSUME NEW y \in S PROVE x <= y
    <3>1. <<y, x>> \in Nat \X Nat /\ ~(y < x)
      BY <1>2 DEF R
    <3>2. QED
      BY <3>1
  <2>2. QED
    BY <2>1
<1>4. QED
  BY <1>3 DEF Least

LEMMA Front ==
  ASSUME NEW T, NEW q \in Seq(T), q # << >>
  PROVE  Head(q) \in T /\ Tail(q) \in Seq(T)
OBVIOUS

LEMMA InitTable == Init => TableInv
BY TableAssumption
DEF Init, TableInv, TypeOK, Excl, Placed, Staged, Held, Kept, Owned, BuffersOutlive,
    Slots, Ctxs, Workers, Slot, Ctx, Stages, Adding, Removing, None, Closes, Closing, Threads

(* Neither the network nor the clock touches the bridges. *)
LEMMA NetworkTable == TableInv /\ Network => TableInv'
<1> SUFFICES ASSUME TableInv, Network PROVE TableInv'
  OBVIOUS
<1>1. UNCHANGED <<autoSave, removeTimeout, slot, ctx, slim, mainMutex, work>>
  BY DEF Network
<1>2. TypeOK'
  <2>1. ASSUME NEW n \in Names, NEW state \in {"up", "mute", "down"}, NEW expired \in BOOLEAN,
               Announce(n, state, expired)
        PROVE  TypeOK'
    <3>1. [name |-> n, expired |-> expired] \in [name : Names, expired : BOOLEAN]
      OBVIOUS
    <3>2. news' \in Seq([name : Names, expired : BOOLEAN])
      BY <2>1, <3>1 DEF Announce, TableInv, TypeOK
    <3>3. sent' \in 0..MaxNews /\ net' \in [Names -> {"up", "mute", "down"}]
      BY <2>1, TableAssumption DEF Announce, TableInv, TypeOK
    <3>4. QED
      BY <1>1, <3>2, <3>3 DEF TableInv, TypeOK
  <2>2. ASSUME NEW n \in Names, net' = [net EXCEPT ![n] = "down"], UNCHANGED <<news, sent>>
        PROVE  TypeOK'
    <3>1. net' \in [Names -> {"up", "mute", "down"}]
      BY <2>2 DEF TableInv, TypeOK
    <3>2. QED
      BY <1>1, <2>2, <3>1 DEF TableInv, TypeOK
  <2>3. QED
    BY <2>1, <2>2 DEF Network
<1>3. Excl' /\ Placed' /\ BuffersOutlive'
  BY <1>1 DEF TableInv, Excl, Placed, BuffersOutlive
<1>4. Staged'
  BY <1>1 DEF TableInv, Staged, Held
<1>5. Kept' /\ Owned'
  BY <1>1 DEF TableInv, Kept, Closes, Owned
<1>6. QED
  BY <1>2, <1>3, <1>4, <1>5 DEF TableInv

(* The only part of a slot that the clock and the callbacks change. *)
LEMMA SlotsAlike ==
  ASSUME TableInv,
         slot' \in [Slots -> Slot],
         \A s \in Slots : /\ slot'[s].running = slot[s].running
                          /\ slot'[s].handle = slot[s].handle
                          /\ slot'[s].players = slot[s].players,
         UNCHANGED <<ctx, work>>,
         \A c \in Ctxs : slim'[c].at # "loop" => slim'[c].dev \in Slots
  PROVE  Excl' /\ Placed' /\ Staged' /\ Kept' /\ Owned' /\ BuffersOutlive'
<1> USE DEF TableInv
<1>1. Excl' /\ Placed' /\ BuffersOutlive'
  BY DEF Excl, Placed, BuffersOutlive
<1>2. Staged'
  <2>1. ASSUME NEW t \in Workers, work[t].at \in {"judge"} \cup Adding \cup Removing
        PROVE  Held(t, work[t].slot)'
    <3>1. work[t].slot \in Slots /\ Held(t, work[t].slot)
      BY <2>1 DEF Placed, Staged
    <3>2. QED
      BY <3>1 DEF Held
  <2>2. QED
    BY <2>1 DEF Staged
<1>3. Kept'
  BY DEF Kept, Closes
<1>4. Owned'
  BY DEF Owned
<1>5. QED
  BY <1>1, <1>2, <1>3, <1>4

LEMMA TickTable == ASSUME TableInv, NEW s \in Slots, Tick(s) PROVE TableInv'
<1>1. slot' \in [Slots -> Slot]
  <2>1. slot \in [Slots -> Slot]
    BY DEF TableInv, TypeOK
  <2>2. [slot[s] EXCEPT !.expired = "due"] \in Slot
    BY <2>1 DEF Slot
  <2>3. slot' = [slot EXCEPT ![s].expired = "due"]
    BY DEF Tick
  <2>4. QED
    BY <2>1, <2>2, <2>3
<1>2. TypeOK'
  BY <1>1 DEF TableInv, TypeOK, Tick
<1>3. \A r \in Slots : /\ slot'[r].running = slot[r].running
                       /\ slot'[r].handle = slot[r].handle
                       /\ slot'[r].players = slot[r].players
  BY DEF TableInv, TypeOK, Slot, Tick
<1>4. QED
  BY <1>1, <1>2, <1>3, SlotsAlike DEF TableInv, Tick, Owned

LEMMA SlimTable ==
  ASSUME TableInv, NEW c \in Ctxs, SlimCall(c) \/ SlimCallback(c) \/ SlimSave(c)
  PROVE  TableInv'
<1>1. CASE SlimCall(c)
  <2>1. ctx[c].dev \in Slots
    BY <1>1 DEF SlimCall, TableInv, Owned
  <2>2. /\ slim' \in [Ctxs -> [at : {"loop", "call", "save"}, dev : 0..NSlots]]
        /\ \A d \in Ctxs : slim'[d].at # "loop" => slim'[d].dev \in Slots
    BY <1>1, <2>1, TableAssumption DEF SlimCall, TableInv, TypeOK, Owned, Slots
  <2>3. TypeOK'
    BY <1>1, <2>2 DEF SlimCall, TableInv, TypeOK
  <2>4. QED
    BY <1>1, <2>2, <2>3, SlotsAlike DEF SlimCall, TableInv, TypeOK
<1>2. CASE SlimCallback(c) \/ SlimSave(c)
  <2>1. PICK d \in Slots : d = slim[c].dev
    BY <1>2 DEF SlimCallback, SlimSave, TableInv, Owned
  <2>2. PICK lock \in 0..NCtx : slot' = slot \/ slot' = [slot EXCEPT ![d].lock = lock]
    BY <1>2, <2>1, TableAssumption DEF SlimCallback, SlimSave, Ctxs
  <2>3. slot[d] \in Slot
    BY DEF TableInv, TypeOK
  <2>4. [slot[d] EXCEPT !.lock = lock] \in Slot
    BY <2>3 DEF Slot
  <2>5. slot' \in [Slots -> Slot]
    <3>1. slot \in [Slots -> Slot]
      BY DEF TableInv, TypeOK
    <3>2. QED
      BY <2>2, <2>4, <3>1
  <2>6. \A s \in Slots : /\ slot'[s].running = slot[s].running
                         /\ slot'[s].handle = slot[s].handle
                         /\ slot'[s].players = slot[s].players
    <3>1. /\ [slot[d] EXCEPT !.lock = lock].running = slot[d].running
          /\ [slot[d] EXCEPT !.lock = lock].handle = slot[d].handle
          /\ [slot[d] EXCEPT !.lock = lock].players = slot[d].players
      BY <2>3 DEF Slot
    <3>2. \A s \in Slots : slot'[s] = slot[s] \/ (s = d /\ slot'[s] = [slot[d] EXCEPT !.lock = lock])
      BY <2>2 DEF TableInv, TypeOK
    <3>3. QED
      BY <3>1, <3>2
  <2>7. slim' = [slim EXCEPT ![c].at = "loop"] \/ slim' = [slim EXCEPT ![c].at = "save"]
    BY <1>2 DEF SlimCallback, SlimSave
  <2>8. slim[c].dev \in Slots
    BY <2>1
  <2>9. slim' \in [Ctxs -> [at : {"loop", "call", "save"}, dev : 0..NSlots]]
    <3>1. slim \in [Ctxs -> [at : {"loop", "call", "save"}, dev : 0..NSlots]]
      BY DEF TableInv, TypeOK
    <3>2. QED
      BY <2>7, <3>1
  <2>10. \A e \in Ctxs : slim'[e].at # "loop" => slim'[e].dev \in Slots
    <3>1. \A e \in Ctxs : slim'[e] = slim[e] \/ (e = c /\ slim'[e].dev = slim[c].dev)
      BY <2>7 DEF TableInv, TypeOK
    <3>2. QED
      BY <3>1, <2>8 DEF TableInv, Owned
  <2>11. TypeOK'
    BY <1>2, <2>5, <2>9 DEF SlimCallback, SlimSave, TableInv, TypeOK
  <2>12. QED
    BY <1>2, <2>5, <2>6, <2>10, <2>11, SlotsAlike DEF SlimCallback, SlimSave, TableInv
<1>3. QED
  BY <1>1, <1>2

(* A context in which threads end, flags are cleared and nothing else *)
(* changes stays with its device.                                     *)
LEMMA CtxsShrink ==
  ASSUME TableInv,
         \A c \in Ctxs : /\ ctx'[c].alive \subseteq ctx[c].alive
                         /\ ctx'[c].dev = ctx[c].dev
                         /\ ctx'[c].inUse = ctx[c].inUse
                         /\ ctx'[c].forwards => ctx[c].forwards,
         UNCHANGED <<slot, slim>>
  PROVE  /\ Owned'
         /\ (UNCHANGED work => Kept')
         /\ \A t \in Workers, s \in Slots : Held(t, s) /\ UNCHANGED work => Held(t, s)'
<1>1. Owned'
  BY DEF TableInv, Owned
<1>2. UNCHANGED work => Kept'
  BY DEF TableInv, TypeOK, Slot, Kept, Closes, Ctxs
<1>3. ASSUME NEW t \in Workers, NEW s \in Slots, Held(t, s), UNCHANGED work
      PROVE  Held(t, s)'
  <2>1. slot[s].handle = 0 \/ slot[s].handle \in Ctxs
    BY DEF TableInv, TypeOK, Slot, Ctxs
  <2>2. UNCHANGED <<slot[s], work[t]>>
    BY <1>3
  <2>3. QED
    BY <1>3, <2>1, <2>2 DEF Held
<1>4. QED
  BY <1>1, <1>2, <1>3

LEMMA ThreadEndsTable ==
  ASSUME TableInv, NEW c \in Ctxs, NEW th \in Threads, ThreadEnds(c, th)
  PROVE  TableInv'
<1>1. [ctx[c] EXCEPT !.alive = ctx[c].alive \ {th}] \in Ctx
  <2>1. ctx[c] \in Ctx
    BY DEF TableInv, TypeOK
  <2>2. ctx[c].alive \ {th} \in SUBSET Threads
    BY <2>1 DEF Ctx
  <2>3. QED
    BY <2>1, <2>2 DEF Ctx
<1>2. ctx' \in [Ctxs -> Ctx]
  BY <1>1 DEF ThreadEnds, TableInv, TypeOK
<1>3. TypeOK'
  BY <1>2 DEF ThreadEnds, TableInv, TypeOK
<1>4. \A d \in Ctxs : /\ ctx'[d].alive \subseteq ctx[d].alive
                      /\ ctx'[d].dev = ctx[d].dev
                      /\ ctx'[d].inUse = ctx[d].inUse
                      /\ ctx'[d].forwards => ctx[d].forwards
                      /\ ctx'[d].outputbuf = ctx[d].outputbuf
                      /\ ctx'[d].streambuf = ctx[d].streambuf
  BY DEF ThreadEnds, TableInv, TypeOK, Ctx
<1>5. Excl' /\ Placed'
  BY DEF ThreadEnds, TableInv, Excl, Placed
<1>6. Owned' /\ Kept'
  BY <1>4, CtxsShrink DEF ThreadEnds
<1>7. Staged'
  <2>1. ASSUME NEW t \in Workers, work[t].at \in {"judge"} \cup Adding \cup Removing
        PROVE  Held(t, work[t].slot)'
    <3>1. work[t].slot \in Slots /\ Held(t, work[t].slot)
      BY <2>1 DEF TableInv, Placed, Staged
    <3>2. UNCHANGED <<slot, slim, work>>
      BY DEF ThreadEnds
    <3>3. QED
      BY <3>1, <3>2, <1>4, CtxsShrink
  <2>2. QED
    BY <2>1 DEF Staged, ThreadEnds
<1>8. BuffersOutlive'
  BY <1>4 DEF TableInv, BuffersOutlive
<1>9. QED
  BY <1>3, <1>5, <1>6, <1>7, <1>8 DEF TableInv

LEMMA PlayerEndsTable == ASSUME TableInv, NEW s \in Slots, PlayerEnds(s) PROVE TableInv'
<1>1. slot[s] \in Slot /\ slot[s].players = 1 /\ ~slot[s].running
  BY DEF PlayerEnds, TableInv, TypeOK, Slot
<1>2. /\ slot' = [slot EXCEPT ![s] = [slot[s] EXCEPT !.players = 0]]
      /\ [slot[s] EXCEPT !.players = 0] \in Slot
  <2>1. slot[s].players - 1 = 0
    BY <1>1
  <2>2. slot' = [slot EXCEPT ![s] = [slot[s] EXCEPT !.players = slot[s].players - 1]]
    BY DEF PlayerEnds
  <2>3. [slot[s] EXCEPT !.players = 0] \in Slot
    BY <1>1 DEF Slot
  <2>4. QED
    BY <2>1, <2>2, <2>3
<1>3. slot' \in [Slots -> Slot] /\ TypeOK'
  BY <1>2 DEF PlayerEnds, TableInv, TypeOK
<1>4. \A r \in Slots : /\ slot'[r].running = slot[r].running
                       /\ slot'[r].handle = slot[r].handle
                       /\ r # s => slot'[r].players = slot[r].players
  BY <1>1, <1>2 DEF TableInv, TypeOK, Slot
<1>5. slot'[s].players = 0
  BY <1>1, <1>2 DEF TableInv, TypeOK, Slot
<1>6. UNCHANGED <<ctx, slim, work>>
  BY DEF PlayerEnds
<1>7. Excl' /\ Placed' /\ BuffersOutlive'
  BY <1>6 DEF TableInv, Excl, Placed, BuffersOutlive
<1>8. Staged'
  <2>1. ASSUME NEW t \in Workers, work[t].at \in {"judge"} \cup Adding \cup Removing
        PROVE  Held(t, work[t].slot)'
    <3>1. work[t].slot \in Slots /\ Held(t, work[t].slot)
      BY <2>1 DEF TableInv, Placed, Staged
    <3>2. QED
      BY <3>1, <1>4, <1>6 DEF Held
  <2>2. QED
    BY <2>1, <1>6 DEF Staged
<1>9. Kept'
  BY <1>1, <1>4, <1>5, <1>6 DEF TableInv, Kept, Closes
<1>10. Owned'
  BY <1>4, <1>6 DEF TableInv, Owned
<1>11. QED
  BY <1>3, <1>7, <1>8, <1>9, <1>10 DEF TableInv

(* While one worker is at work the other one waits. *)
LEMMA Alone ==
  ASSUME TableInv, NEW t \in Workers, work[t].at # "idle"
  PROVE  \A u \in Workers \ {t} : work[u].at = "idle"
BY DEF TableInv, Excl, Workers

(* A worker goes on to stage "at" with slot s. *)
LEMMA Moves ==
  ASSUME TableInv, NEW t \in Workers, NEW at \in Stages, NEW s \in 0..NSlots + 1,
         Goto(t, at, s),
         \A u \in Workers \ {t} : work[u].at = "idle",
         at \in {"judge"} \cup Adding \cup Removing => s \in Slots,
         at = "scan" => s \in 1..NSlots + 1,
         t = "main" => at \in {"idle", "scan"} \cup Removing,
         at \in {"judge"} \cup Adding \cup Removing => Held(t, s)'
  PROVE  /\ work' \in [Workers -> [at : Stages, slot : 0..NSlots + 1]]
         /\ Excl' /\ Placed' /\ Staged'
         /\ work'[t].at = at /\ work'[t].slot = s
         /\ \A u \in Workers \ {t} : work'[u] = work[u]
<1>1. /\ work' \in [Workers -> [at : Stages, slot : 0..NSlots + 1]]
      /\ work'[t].at = at /\ work'[t].slot = s
      /\ \A u \in Workers \ {t} : work'[u] = work[u]
  BY DEF TableInv, TypeOK, Goto
<1>2. \A u \in Workers \ {t} : work'[u].at = "idle"
  BY <1>1
<1>3. Excl'
  BY <1>2 DEF Excl, Workers
<1>4. Placed'
  BY <1>1, <1>2 DEF TableInv, Placed, Adding, Removing, Workers
<1>5. Staged'
  BY <1>1, <1>2 DEF Staged, Adding, Removing
<1>6. QED
  BY <1>1, <1>3, <1>4, <1>5

(* A worker at one of these stages takes no context from a slot, and will not soon. *)
Aside == {"idle", "list", "scan", "judge"} \cup Adding \cup {"wipe"}

LEMMA MovesAside ==
  ASSUME TableInv, NEW t \in Workers, work[t].at \in Aside,
         \A u \in Workers \ {t} : work'[u] = work[u],
         UNCHANGED <<ctx, slim>>,
         \A s \in Slots : /\ slot'[s].running = slot[s].running
                          /\ slot'[s].handle = slot[s].handle
                          /\ slot'[s].players = slot[s].players
  PROVE  Kept' /\ Owned' /\ BuffersOutlive'
<1>1. \A s \in Slots : ~Closes(t, s) /\ ~(work[t].at = "join")
  BY DEF Aside, Adding, Closes, Closing
<1>2. \A s \in Slots, u \in Workers \ {t} : Closes(u, s) => Closes(u, s)'
  BY DEF Closes
<1>3. Kept'
  BY <1>1, <1>2 DEF TableInv, Kept
<1>4. QED
  BY <1>3 DEF TableInv, Owned, BuffersOutlive

LEMMA UpdateTable ==
  ASSUME TableInv, ~Overlap, NEW t \in Workers, Update(t)
  PROVE  TableInv'
<1>1. work[t].at \in Aside /\ \A u \in Workers \ {t} : work[u].at = "idle"
  BY DEF Update, Aside, TableInv, Excl, Workers
<1>2. 1 \in 0..NSlots + 1 /\ 1 \in 1..NSlots + 1 /\ "scan" \in Stages
      /\ "scan" \notin {"judge"} \cup Adding \cup Removing
  BY TableAssumption DEF Stages, Adding, Removing
<1>3. Goto(t, "scan", 1)
  BY DEF Update
<1>4. /\ work' \in [Workers -> [at : Stages, slot : 0..NSlots + 1]]
      /\ Excl' /\ Placed' /\ Staged'
      /\ \A u \in Workers \ {t} : work'[u] = work[u]
  BY <1>1, <1>2, <1>3, Moves
<1>5. TypeOK'
  BY <1>4 DEF Update, TableInv, TypeOK
<1>6. Kept' /\ Owned' /\ BuffersOutlive'
  BY <1>1, <1>4, MovesAside DEF Update
<1>7. QED
  BY <1>4, <1>5, <1>6 DEF TableInv

LEMMA UpdatedTable ==
  ASSUME TableInv, NEW t \in Workers, Updated(t)
  PROVE  TableInv'
<1>1. work[t].at \in Aside /\ \A u \in Workers \ {t} : work[u].at = "idle"
  BY Alone DEF Updated, Aside
<1>2. 0 \in 0..NSlots + 1 /\ "idle" \in Stages /\ "idle" # "scan"
      /\ "idle" \notin {"judge"} \cup Adding \cup Removing
  BY TableAssumption DEF Stages, Adding, Removing
<1>3. Goto(t, "idle", 0)
  BY DEF Updated
<1>4. /\ work' \in [Workers -> [at : Stages, slot : 0..NSlots + 1]]
      /\ Excl' /\ Placed' /\ Staged'
      /\ \A u \in Workers \ {t} : work'[u] = work[u]
  BY <1>1, <1>2, <1>3, Moves
<1>5. TypeOK'
  BY <1>4 DEF Updated, TableInv, TypeOK
<1>6. Kept' /\ Owned' /\ BuffersOutlive'
  BY <1>1, <1>4, MovesAside DEF Updated
<1>7. QED
  BY <1>4, <1>5, <1>6 DEF TableInv

(* A removal begins: at sq_delete_device, or at DelRaopDevice without a context. *)
LEMMA StartsRemoval ==
  ASSUME TableInv, NEW t \in Workers, NEW s \in Slots, slot[s].running,
         work[t].at \in Aside, \A u \in Workers \ {t} : work[u].at = "idle",
         StartRemoval(t, s), UNCHANGED <<slot, ctx, slim>>
  PROVE  /\ work' \in [Workers -> [at : Stages, slot : 0..NSlots + 1]]
         /\ Excl' /\ Placed' /\ Staged' /\ Kept' /\ Owned' /\ BuffersOutlive'
<1>1. PICK at \in {"player", "wipe"} :
         Goto(t, at, s) /\ (at = "player" <=> slot[s].handle = 0)
  BY DEF StartRemoval
<1>2. Held(t, s)'
  BY <1>1 DEF Held, Goto, TableInv, TypeOK, Adding, Removing, Closing
<1>3. /\ s \in 0..NSlots + 1 /\ at \in Stages
      /\ at \in {"idle", "scan"} \cup Removing /\ at # "scan"
  BY <1>1, TableAssumption DEF Stages, Removing, Slots
<1>4. /\ work' \in [Workers -> [at : Stages, slot : 0..NSlots + 1]]
      /\ Excl' /\ Placed' /\ Staged'
      /\ \A u \in Workers \ {t} : work'[u] = work[u]
  BY <1>1, <1>2, <1>3, Moves
<1>5. QED
  BY <1>4, MovesAside

(* A missing device that answers gets a new period, another one goes. *)
LEMMA ScanTable ==
  ASSUME TableInv, NEW t \in Workers, Scan(t)
  PROVE  TableInv'
<1>1. work[t].at \in Aside /\ \A u \in Workers \ {t} : work[u].at = "idle"
  BY Alone DEF Scan, Aside
<1>2. work[t].slot \in 1..NSlots + 1
  BY DEF Scan, TableInv, Placed
<1>3. PICK s \in Due(work[t].slot) : s = Least(Due(work[t].slot))
  <2>1. Due(work[t].slot) \subseteq Nat
    BY <1>2, TableAssumption DEF Due
  <2>2. Due(work[t].slot) # {}
    BY DEF Scan
  <2>3. QED
    BY <2>1, <2>2, LeastIn
<1>4. s \in Slots /\ slot[s].running /\ slot[s] \in Slot
  BY <1>2, <1>3, TableAssumption DEF Due, Slots, TableInv, TypeOK
<1>5. CASE Pings(slot[s].name)
  <2>1. slot' = [slot EXCEPT ![s].expired = "new"] /\ Goto(t, "scan", s + 1)
    BY <1>3, <1>5 DEF Scan
  <2>2. [slot[s] EXCEPT !.expired = "new"] \in Slot
    BY <1>4 DEF Slot
  <2>3. slot' \in [Slots -> Slot]
    BY <2>1, <2>2 DEF TableInv, TypeOK
  <2>4. \A r \in Slots : /\ slot'[r].running = slot[r].running
                         /\ slot'[r].handle = slot[r].handle
                         /\ slot'[r].players = slot[r].players
    BY <2>1, <1>4 DEF TableInv, TypeOK, Slot
  <2>5. /\ s + 1 \in 0..NSlots + 1 /\ s + 1 \in 1..NSlots + 1 /\ "scan" \in Stages
        /\ "scan" \notin {"judge"} \cup Adding \cup Removing
    BY <1>4, TableAssumption DEF Stages, Adding, Removing, Slots
  <2>6. /\ work' \in [Workers -> [at : Stages, slot : 0..NSlots + 1]]
        /\ Excl' /\ Placed' /\ Staged'
        /\ \A u \in Workers \ {t} : work'[u] = work[u]
    BY <1>1, <2>1, <2>5, Moves
  <2>7. TypeOK'
    BY <2>3, <2>6 DEF Scan, TableInv, TypeOK
  <2>8. Kept' /\ Owned' /\ BuffersOutlive'
    BY <1>1, <2>4, <2>6, MovesAside DEF Scan
  <2>9. QED
    BY <2>6, <2>7, <2>8 DEF TableInv
<1>6. CASE ~Pings(slot[s].name)
  <2>1. StartRemoval(t, s) /\ UNCHANGED <<slot, ctx, slim>>
    BY <1>3, <1>6 DEF Scan
  <2>2. /\ work' \in [Workers -> [at : Stages, slot : 0..NSlots + 1]]
        /\ Excl' /\ Placed' /\ Staged' /\ Kept' /\ Owned' /\ BuffersOutlive'
    BY <1>1, <1>4, <2>1, StartsRemoval
  <2>3. TypeOK'
    BY <2>1, <2>2 DEF Scan, TableInv, TypeOK
  <2>4. QED
    BY <2>2, <2>3 DEF TableInv
<1>7. QED
  BY <1>5, <1>6

LEMMA JudgeTable == ASSUME TableInv, Judge PROVE TableInv'
<1> DEFINE t == "mdns"
           s == work["mdns"].slot
<1>1. /\ t \in Workers /\ work[t].at \in Aside
      /\ \A u \in Workers \ {t} : work[u].at = "idle"
  BY Alone DEF Judge, Aside, Workers
<1>2. s \in Slots /\ slot[s].running /\ slot[s] \in Slot
  BY <1>1 DEF Judge, TableInv, TypeOK, Placed, Staged, Held
<1>3. UNCHANGED <<autoSave, removeTimeout, net, news, sent, ctx, slim, mainMutex>>
  BY DEF Judge
<1>4. CASE StartRemoval(t, s) /\ UNCHANGED slot
  <2>1. /\ work' \in [Workers -> [at : Stages, slot : 0..NSlots + 1]]
        /\ Excl' /\ Placed' /\ Staged' /\ Kept' /\ Owned' /\ BuffersOutlive'
    BY <1>1, <1>2, <1>3, <1>4, StartsRemoval
  <2>2. TypeOK'
    BY <1>3, <1>4, <2>1 DEF TableInv, TypeOK
  <2>3. QED
    BY <2>1, <2>2 DEF TableInv
<1>5. CASE slot' = [slot EXCEPT ![s].expired = "new"] /\ Goto(t, "list", 0)
  <2>1. [slot[s] EXCEPT !.expired = "new"] \in Slot
    BY <1>2 DEF Slot
  <2>2. slot' \in [Slots -> Slot]
    BY <1>5, <2>1 DEF TableInv, TypeOK
  <2>3. \A r \in Slots : /\ slot'[r].running = slot[r].running
                         /\ slot'[r].handle = slot[r].handle
                         /\ slot'[r].players = slot[r].players
    BY <1>5, <1>2 DEF TableInv, TypeOK, Slot
  <2>4. /\ 0 \in 0..NSlots + 1 /\ "list" \in Stages /\ "list" # "scan" /\ t # "main"
        /\ "list" \notin {"judge"} \cup Adding \cup Removing
    BY TableAssumption DEF Stages, Adding, Removing
  <2>5. /\ work' \in [Workers -> [at : Stages, slot : 0..NSlots + 1]]
        /\ Excl' /\ Placed' /\ Staged'
        /\ \A u \in Workers \ {t} : work'[u] = work[u]
    BY <1>1, <1>5, <2>4, Moves
  <2>6. TypeOK'
    BY <1>3, <2>2, <2>5 DEF TableInv, TypeOK
  <2>7. Kept' /\ Owned' /\ BuffersOutlive'
    BY <1>1, <1>3, <2>3, <2>5, MovesAside
  <2>8. QED
    BY <2>5, <2>6, <2>7 DEF TableInv
<1>6. QED
  BY <1>4, <1>5 DEF Judge

LEMMA OccupiedTyped ==
  ASSUME NEW name \in Names, NEW lock \in 0..NCtx
  PROVE  [running |-> TRUE, name |-> name, expired |-> "no", handle |-> 0,
          players |-> 1, lock |-> lock] \in Slot
BY TableAssumption DEF Slot

(* An announcement is only handled while MainThread waits. *)
LEMMA ListenTable == ASSUME TableInv, ~Overlap, Listen PROVE TableInv'
<1> DEFINE t == "mdns"
           n == Head(news).name
<1>1. /\ t \in Workers /\ t # "main" /\ work[t].at \in {"idle", "list"} /\ work[t].at \in Aside
      /\ \A u \in Workers \ {t} : work[u].at = "idle"
  BY DEF Listen, Aside, Workers
<1>2. /\ news' \in Seq([name : Names, expired : BOOLEAN])
      /\ n \in Names
  <2>1. news \in Seq([name : Names, expired : BOOLEAN]) /\ news # << >> /\ news' = Tail(news)
    BY DEF Listen, TableInv, TypeOK
  <2>2. Head(news) \in [name : Names, expired : BOOLEAN]
    BY <2>1, Front
  <2>3. QED
    BY <2>1, <2>2, Front
<1>3. UNCHANGED <<autoSave, removeTimeout, net, sent, ctx, slim, mainMutex>>
  BY DEF Listen
<1>4. /\ 0 \in 0..NSlots + 1 /\ {"list", "judge", "reserve"} \subseteq Stages
      /\ "list" # "scan" /\ "list" \notin {"judge"} \cup Adding \cup Removing
      /\ \A s \in Slots : s \in 0..NSlots + 1
  BY TableAssumption DEF Stages, Adding, Removing, Slots
<1>5. ASSUME NEW s \in Slots, slot[s].running, NEW at \in {"judge", "list"},
             slot' = [slot EXCEPT ![s].expired = "no"], Goto(t, at, s)
      PROVE  TableInv'
  <2>0. slot \in [Slots -> Slot]
    BY DEF TableInv, TypeOK
  <2>1. slot[s] \in Slot /\ [slot[s] EXCEPT !.expired = "no"] \in Slot
    BY <2>0 DEF Slot
  <2>2. slot' \in [Slots -> Slot]
    BY <1>5, <2>0, <2>1
  <2>3. \A r \in Slots : /\ slot'[r].running = slot[r].running
                         /\ slot'[r].handle = slot[r].handle
                         /\ slot'[r].players = slot[r].players
    BY <1>5, <2>0, <2>1 DEF Slot
  <2>4. Held(t, s)'
    BY <1>5, <2>3, <1>1 DEF Held, Goto, TableInv, TypeOK, Adding, Removing, Closing
  <2>5. /\ work' \in [Workers -> [at : Stages, slot : 0..NSlots + 1]]
        /\ Excl' /\ Placed' /\ Staged'
        /\ \A u \in Workers \ {t} : work'[u] = work[u]
    BY <1>1, <1>4, <1>5, <2>4, Moves
  <2>6. TypeOK'
    BY <1>2, <1>3, <2>2, <2>5 DEF TableInv, TypeOK
  <2>7. Kept' /\ Owned' /\ BuffersOutlive'
    BY <1>1, <1>3, <2>3, <2>5, MovesAside
  <2>8. QED
    BY <2>5, <2>6, <2>7 DEF TableInv
<1>6. ASSUME UNCHANGED slot, Goto(t, "list", 0) PROVE TableInv'
  <2>1. /\ work' \in [Workers -> [at : Stages, slot : 0..NSlots + 1]]
        /\ Excl' /\ Placed' /\ Staged'
        /\ \A u \in Workers \ {t} : work'[u] = work[u]
    BY <1>1, <1>4, <1>6, Moves
  <2>2. TypeOK'
    BY <1>2, <1>3, <1>6, <2>1 DEF TableInv, TypeOK
  <2>3. Kept' /\ Owned' /\ BuffersOutlive'
    BY <1>1, <1>3, <1>6, <2>1, MovesAside
  <2>4. QED
    BY <2>1, <2>2, <2>3 DEF TableInv
<1>7. ASSUME NEW s \in FreeSlots, slot' = [slot EXCEPT ![s] = Occupied(s, n)],
             Goto(t, "reserve", s)
      PROVE  TableInv'
  <2>1. s \in Slots /\ slot[s] \in Slot /\ ~slot[s].running
    BY DEF FreeSlots, TableInv, TypeOK
  <2>2. \A r \in Slots : ~slot[r].running => slot[r].players = 0
    BY <1>1 DEF TableInv, Kept, Workers
  <2>3. /\ Occupied(s, n) \in Slot
        /\ Occupied(s, n).running /\ Occupied(s, n).handle = 0
        /\ Occupied(s, n).players = 1
    <3>1. slot[s].players + 1 = 1
      BY <2>1, <2>2
    <3>2. Occupied(s, n) = [slot[s] EXCEPT !.running = TRUE, !.name = n, !.expired = "no",
                                           !.handle = 0, !.players = 1]
      BY <3>1 DEF Occupied
    <3>3. 0 \in 0..NCtx
      BY TableAssumption
    <3>4. Occupied(s, n) = [running |-> TRUE, name |-> n, expired |-> "no", handle |-> 0,
                            players |-> 1, lock |-> slot[s].lock]
      BY <2>1, <3>2 DEF Slot
    <3>5. slot[s].lock \in 0..NCtx
      BY <2>1 DEF Slot
    <3>6. Occupied(s, n) \in Slot
      BY <1>2, <3>4, <3>5, OccupiedTyped
    <3>7. QED
      BY <3>4, <3>6
  <2>4. slot' \in [Slots -> Slot]
    BY <1>7, <2>1, <2>3 DEF TableInv, TypeOK
  <2>5. slot'[s] = Occupied(s, n) /\ \A r \in Slots \ {s} : slot'[r] = slot[r]
    BY <1>7, <2>1 DEF TableInv, TypeOK
  <2>6. Held(t, s)'
    BY <1>1, <1>7, <2>3, <2>5 DEF Held, Goto, TableInv, TypeOK, Adding, Removing, Closing
  <2>7. /\ work' \in [Workers -> [at : Stages, slot : 0..NSlots + 1]]
        /\ Excl' /\ Placed' /\ Staged'
        /\ \A u \in Workers \ {t} : work'[u] = work[u]
    BY <1>1, <1>4, <1>7, <2>1, <2>6, Moves
  <2>8. TypeOK'
    BY <1>2, <1>3, <2>4, <2>7 DEF TableInv, TypeOK
  <2>9. Kept'
    <3>1. \A u \in Workers, r \in Slots : ~Closes(u, r)
      BY <1>1 DEF Closes, Closing
    <3>2. QED
      BY <1>3, <2>2, <2>3, <2>5, <3>1 DEF TableInv, Kept
  <2>10. Owned'
    BY <1>3, <2>1, <2>5 DEF TableInv, Owned
  <2>11. BuffersOutlive'
    BY <1>3 DEF TableInv, BuffersOutlive
  <2>12. QED
    BY <2>7, <2>8, <2>9, <2>10, <2>11 DEF TableInv
<1>8. CASE Known(n) # {}
  <2>1. Least(Known(n)) \in Known(n)
    <3>1. Known(n) \subseteq Nat
      BY TableAssumption DEF Known, Slots
    <3>2. QED
      BY <1>8, <3>1, LeastIn
  <2>2. Least(Known(n)) \in Slots /\ slot[Least(Known(n))].running
    BY <2>1 DEF Known
  <2>3. QED
    BY <1>5, <1>6, <1>8, <2>2 DEF Listen
<1>9. CASE Known(n) = {}
  <2>1. CASE UNCHANGED slot /\ Goto(t, "list", 0)
    BY <1>6, <2>1
  <2>2. CASE /\ FreeSlots # {}
             /\ slot' = [slot EXCEPT ![Least(FreeSlots)] = Occupied(Least(FreeSlots), n)]
             /\ Goto(t, "reserve", Least(FreeSlots))
    <3>1. FreeSlots \subseteq Nat
      BY TableAssumption DEF FreeSlots, Slots
    <3>2. Least(FreeSlots) \in FreeSlots
      BY <2>2, <3>1, LeastIn
    <3>3. QED
      BY <1>7, <2>2, <3>2
  <2>3. QED
    BY <1>9, <2>1, <2>2 DEF Listen
<1>10. QED
  BY <1>8, <1>9

LEMMA Handles ==
  ASSUME TypeOK, NEW s \in Slots
  PROVE  /\ slot[s].handle # 0 => slot[s].handle \in Ctxs
         /\ 0 \notin Ctxs /\ s \in 0..NSlots + 1
<1>1. slot[s].handle \in 0..NCtx
  BY DEF TypeOK, Slot
<1>2. QED
  BY <1>1, TableAssumption DEF Ctxs, Slots

\* The context a worker closes is at stage "at".
Spent(at, r) == Ended(at) \cap r.alive = {} /\ (at = "player" => r.alive = {})

\* BuffersOutlive for one context.
Backed(r) ==
    /\ r.alive \cap {"slim", "decode", "stream"} # {} => r.streambuf
    /\ r.alive \cap {"slim", "output"} # {} => r.outputbuf

(* A worker takes a context from its slot, stage by stage. *)
LEMMA Closed ==
  ASSUME TableInv, NEW t \in Workers, work[t].at \in Closing \cup {"wipe"},
         NEW s \in Slots, s = work[t].slot,
         NEW c \in Ctxs, c = slot[s].handle,
         NEW new \in Ctx, new.alive = ctx[c].alive, new.dev = ctx[c].dev,
         new.forwards => ctx[c].forwards,
         ctx' = [ctx EXCEPT ![c] = new],
         Backed(new),
         NEW next \in Closing \cup {"player"}, Goto(t, next, s),
         Spent(next, ctx[c]),
         UNCHANGED <<autoSave, removeTimeout, net, news, sent, slot, slim, mainMutex>>
  PROVE  TableInv'
<1>1. \A u \in Workers \ {t} : work[u].at = "idle"
  BY Alone DEF Closing
<1>2. slot[s].running /\ ctx[c].dev = s
  <2>1. Held(t, s)
    BY DEF TableInv, Staged, Removing, Closing
  <2>2. slot[s].running
    BY <2>1 DEF Held, Removing, Closing
  <2>3. c # 0
    BY Handles DEF TableInv
  <2>4. QED
    BY <2>2, <2>3 DEF TableInv, Kept
<1>3. ctx' \in [Ctxs -> Ctx] /\ ctx'[c] = new /\ \A d \in Ctxs \ {c} : ctx'[d] = ctx[d]
  BY DEF TableInv, TypeOK
<1>4. Held(t, s)'
  <2>1. work'[t].at = next
    BY DEF Goto, TableInv, TypeOK
  <2>2. next \notin {"judge", "join", "run", "reserve", "wipe"}
    BY DEF Closing
  <2>3. c # 0
    BY Handles DEF TableInv
  <2>4. next \in Closing => Ended(next) \cap ctx'[slot'[s].handle].alive = {}
    BY <1>3 DEF Spent
  <2>5. next = "player" => ctx'[slot'[s].handle].alive = {}
    BY <1>3 DEF Spent
  <2>6. QED
    BY <2>1, <2>2, <2>3, <2>4, <2>5, <1>2 DEF Held, Adding
<1>5. /\ work' \in [Workers -> [at : Stages, slot : 0..NSlots + 1]]
      /\ Excl' /\ Placed' /\ Staged'
      /\ work'[t].at = next /\ work'[t].slot = s
      /\ \A u \in Workers \ {t} : work'[u] = work[u]
  <2>1. /\ next \in Stages /\ s \in 0..NSlots + 1 /\ next # "scan"
        /\ next \in {"idle", "scan"} \cup Removing
    BY Handles DEF TableInv, Stages, Removing, Closing
  <2>2. QED
    BY <1>1, <1>4, <2>1, Moves
<1>6. TypeOK'
  BY <1>3, <1>5 DEF TableInv, TypeOK
<1>7. Kept'
  <2>1. ASSUME NEW r \in Slots, slot[r].running, slot[r].handle # 0
        PROVE  /\ ctx'[slot[r].handle].dev = r
               /\ ctx'[slot[r].handle].inUse \/ \E u \in Workers : Closes(u, r)'
    <3>1. slot[r].handle \in Ctxs /\ ctx[slot[r].handle].dev = r
      BY <2>1, Handles DEF TableInv, Kept
    <3>2. CASE r = s
      BY <1>2, <1>3, <1>5, <3>2 DEF Closes
    <3>3. CASE r # s
      <4>1. slot[r].handle # c
        BY <1>2, <3>1, <3>3
      <4>2. \A u \in Workers : ~Closes(u, r)
        BY <1>1, <3>3 DEF Closes, Closing
      <4>3. QED
        BY <1>3, <2>1, <3>1, <4>1, <4>2 DEF TableInv, Kept
    <3>4. QED
      BY <3>2, <3>3
  <2>2. \A u \in Workers : work[u].at # "join"
    BY <1>1 DEF Closing
  <2>3. \A r \in Slots : /\ slot[r].running => slot[r].players = 1
                         /\ ~slot[r].running => slot[r].players = 0
    BY <2>2 DEF TableInv, Kept
  <2>4. QED
    BY <2>1, <2>3 DEF Kept
<1>8. Owned'
  <2>1. \A d \in Ctxs : /\ ctx'[d].alive = ctx[d].alive
                        /\ ctx'[d].dev = ctx[d].dev
                        /\ ctx'[d].forwards => ctx[d].forwards
    BY <1>3
  <2>2. QED
    BY <2>1 DEF TableInv, Owned
<1>9. BuffersOutlive'
  BY <1>3 DEF TableInv, BuffersOutlive, Backed
<1>10. QED
  BY <1>5, <1>6, <1>7, <1>8, <1>9 DEF TableInv

(* What a worker that closes a context deals with. *)
LEMMA ClosingFacts ==
  ASSUME TableInv, NEW t \in Workers, work[t].at \in Closing \cup {"wipe"}
  PROVE  /\ work[t].slot \in Slots
         /\ slot[work[t].slot].handle \in Ctxs
         /\ GetCtx(t) \in Ctx
         /\ Ended(work[t].at) \cap GetCtx(t).alive = {}
         /\ Backed(GetCtx(t))
<1> DEFINE s == work[t].slot
<1>1. s \in Slots /\ Held(t, s)
  BY DEF TableInv, Placed, Staged, Removing, Closing
<1>2. slot[s].handle \in Ctxs
  BY <1>1 DEF Held, Closing, TableInv, TypeOK, Slot, Ctxs
<1>3. Ended(work[t].at) \cap GetCtx(t).alive = {}
  BY <1>1 DEF Held, Closing, GetCtx, Ended
<1>4. QED
  BY <1>1, <1>2, <1>3 DEF GetCtx, TableInv, TypeOK, BuffersOutlive, Backed

(* The context's record after a close. *)
LEMMA Updates ==
  ASSUME NEW r \in Ctx, NEW th
  PROVE  /\ [r EXCEPT !.forwards = FALSE, !.inUse = FALSE, !.run = r.run \ {th}] \in Ctx
         /\ [r EXCEPT !.run = r.run \ {th}] \in Ctx
         /\ [r EXCEPT !.outputbuf = FALSE, !.run = r.run \ {th}] \in Ctx
         /\ [r EXCEPT !.streambuf = FALSE] \in Ctx
<1>1. r.run \ {th} \in SUBSET Threads
  BY DEF Ctx
<1>2. QED
  BY <1>1 DEF Ctx

LEMMA WipeTable == ASSUME TableInv, NEW t \in Workers, Wipe(t) PROVE TableInv'
<1> DEFINE new == [GetCtx(t) EXCEPT !.forwards = FALSE, !.inUse = FALSE,
                                    !.run = GetCtx(t).run \ {"slim"}]
<1>1. work[t].at \in Closing \cup {"wipe"}
  BY DEF Wipe
<1>2. /\ new \in Ctx /\ new.alive = GetCtx(t).alive /\ new.dev = GetCtx(t).dev
      /\ new.streambuf = GetCtx(t).streambuf /\ new.outputbuf = GetCtx(t).outputbuf
      /\ ~new.forwards /\ Backed(new)
  <2>1. GetCtx(t) \in Ctx /\ Backed(GetCtx(t))
    BY <1>1, ClosingFacts
  <2>2. new \in Ctx
    BY <2>1, Updates
  <2>3. /\ new.alive = GetCtx(t).alive /\ new.dev = GetCtx(t).dev
        /\ new.streambuf = GetCtx(t).streambuf /\ new.outputbuf = GetCtx(t).outputbuf
        /\ ~new.forwards
    BY <2>1 DEF Ctx
  <2> HIDE DEF new
  <2>4. QED
    BY <2>1, <2>2, <2>3 DEF Backed
<1>3. ctx' = [ctx EXCEPT ![slot[work[t].slot].handle] = new] /\ Goto(t, "slim", work[t].slot)
  BY DEF Wipe, SetCtx
<1>4. Spent("slim", GetCtx(t)) /\ "slim" \in Closing \cup {"player"}
  BY DEF Ended, Spent, Closing
<1>5. UNCHANGED <<autoSave, removeTimeout, net, news, sent, slot, slim, mainMutex>>
  BY DEF Wipe
<1> HIDE DEF new
<1>6. QED
  BY <1>1, <1>2, <1>3, <1>4, <1>5, ClosingFacts, Closed DEF GetCtx

LEMMA JoinTable == ASSUME TableInv, NEW t \in Workers, Join(t) PROVE TableInv'
<1>1. UNCHANGED <<autoSave, removeTimeout, net, news, sent, slot, slim, mainMutex>>
  BY DEF Join
<1>2. CASE JoinSlim(t)
  <2> DEFINE new == [GetCtx(t) EXCEPT !.run = GetCtx(t).run \ {"output"}]
  <2>1. work[t].at = "slim" /\ "slim" \in Closing
    BY <1>2 DEF JoinSlim, Closing
  <2>2. /\ new \in Ctx /\ new.alive = GetCtx(t).alive /\ new.dev = GetCtx(t).dev
        /\ new.streambuf = GetCtx(t).streambuf /\ new.outputbuf = GetCtx(t).outputbuf
        /\ new.forwards = GetCtx(t).forwards /\ Backed(new)
    <3>1. GetCtx(t) \in Ctx /\ Backed(GetCtx(t))
      BY <2>1, ClosingFacts
    <3>2. new \in Ctx
      BY <3>1, Updates
    <3>3. /\ new.alive = GetCtx(t).alive /\ new.dev = GetCtx(t).dev
          /\ new.streambuf = GetCtx(t).streambuf /\ new.outputbuf = GetCtx(t).outputbuf
          /\ new.forwards = GetCtx(t).forwards
      BY <3>1 DEF Ctx
    <3> HIDE DEF new
    <3>4. QED
      BY <3>1, <3>2, <3>3 DEF Backed
  <2>3. ctx' = [ctx EXCEPT ![slot[work[t].slot].handle] = new] /\ Goto(t, "output", work[t].slot)
    BY <1>2 DEF JoinSlim, SetCtx
  <2>4. Spent("output", GetCtx(t)) /\ "output" \in Closing \cup {"player"}
    BY <1>2 DEF JoinSlim, Ended, Spent, Closing, Alive, GetCtx
  <2> HIDE DEF new
  <2>5. QED
    BY <1>1, <2>1, <2>2, <2>3, <2>4, ClosingFacts, Closed DEF GetCtx
<1>3. CASE JoinOutput(t)
  <2> DEFINE new == [GetCtx(t) EXCEPT !.outputbuf = FALSE, !.run = GetCtx(t).run \ {"decode"}]
  <2>1. work[t].at = "output" /\ "output" \in Closing
    BY <1>3 DEF JoinOutput, Closing
  <2>2. /\ new \in Ctx /\ new.alive = GetCtx(t).alive /\ new.dev = GetCtx(t).dev
        /\ new.streambuf = GetCtx(t).streambuf
        /\ new.forwards = GetCtx(t).forwards
    BY <2>1, ClosingFacts, Updates DEF Ctx
  <2>3. ctx' = [ctx EXCEPT ![slot[work[t].slot].handle] = new] /\ Goto(t, "decode", work[t].slot)
    BY <1>3 DEF JoinOutput, SetCtx
  <2>4. "slim" \notin GetCtx(t).alive /\ "output" \notin GetCtx(t).alive
    <3>1. Ended("output") \cap GetCtx(t).alive = {}
      BY <2>1, ClosingFacts
    <3>2. QED
      BY <1>3, <3>1 DEF JoinOutput, Ended, Alive, GetCtx
  <2>5. Spent("decode", GetCtx(t)) /\ Backed(new) /\ "decode" \in Closing \cup {"player"}
    BY <2>1, <2>2, <2>4, ClosingFacts DEF Ended, Spent, Backed, Closing
  <2> HIDE DEF new
  <2>6. QED
    BY <1>1, <2>1, <2>2, <2>3, <2>5, ClosingFacts, Closed DEF GetCtx
<1>4. CASE JoinDecode(t)
  <2> DEFINE new == [GetCtx(t) EXCEPT !.run = GetCtx(t).run \ {"stream"}]
  <2>1. work[t].at = "decode" /\ "decode" \in Closing
    BY <1>4 DEF JoinDecode, Closing
  <2>2. /\ new \in Ctx /\ new.alive = GetCtx(t).alive /\ new.dev = GetCtx(t).dev
        /\ new.streambuf = GetCtx(t).streambuf /\ new.outputbuf = GetCtx(t).outputbuf
        /\ new.forwards = GetCtx(t).forwards /\ Backed(new)
    <3>1. GetCtx(t) \in Ctx /\ Backed(GetCtx(t))
      BY <2>1, ClosingFacts
    <3>2. new \in Ctx
      BY <3>1, Updates
    <3>3. /\ new.alive = GetCtx(t).alive /\ new.dev = GetCtx(t).dev
          /\ new.streambuf = GetCtx(t).streambuf /\ new.outputbuf = GetCtx(t).outputbuf
          /\ new.forwards = GetCtx(t).forwards
      BY <3>1 DEF Ctx
    <3> HIDE DEF new
    <3>4. QED
      BY <3>1, <3>2, <3>3 DEF Backed
  <2>3. ctx' = [ctx EXCEPT ![slot[work[t].slot].handle] = new] /\ Goto(t, "stream", work[t].slot)
    BY <1>4 DEF JoinDecode, SetCtx
  <2>4. Spent("stream", GetCtx(t)) /\ "stream" \in Closing \cup {"player"}
    <3>1. Ended("decode") \cap GetCtx(t).alive = {}
      BY <2>1, ClosingFacts
    <3>2. QED
      BY <1>4, <3>1 DEF JoinDecode, Ended, Spent, Alive, GetCtx, Closing
  <2> HIDE DEF new
  <2>5. QED
    BY <1>1, <2>1, <2>2, <2>3, <2>4, ClosingFacts, Closed DEF GetCtx
<1>5. CASE JoinStream(t)
  <2> DEFINE new == [GetCtx(t) EXCEPT !.streambuf = FALSE]
  <2>1. work[t].at = "stream" /\ "stream" \in Closing
    BY <1>5 DEF JoinStream, Closing
  <2>2. /\ new \in Ctx /\ new.alive = GetCtx(t).alive /\ new.dev = GetCtx(t).dev
        /\ new.outputbuf = GetCtx(t).outputbuf
        /\ new.forwards = GetCtx(t).forwards
    BY <2>1, ClosingFacts, Updates DEF Ctx
  <2>3. ctx' = [ctx EXCEPT ![slot[work[t].slot].handle] = new] /\ Goto(t, "player", work[t].slot)
    BY <1>5 DEF JoinStream, SetCtx
  <2>4. GetCtx(t).alive = {}
    <3>1. Ended("stream") \cap GetCtx(t).alive = {} /\ GetCtx(t).alive \subseteq Threads
      BY <2>1, ClosingFacts DEF Ctx
    <3>2. QED
      BY <1>5, <3>1 DEF JoinStream, Ended, Alive, GetCtx, Threads
  <2>5. Spent("player", GetCtx(t)) /\ Backed(new) /\ "player" \in Closing \cup {"player"}
    BY <2>2, <2>4 DEF Spent, Backed
  <2> HIDE DEF new
  <2>6. QED
    BY <1>1, <2>1, <2>2, <2>3, <2>5, ClosingFacts, Closed DEF GetCtx
<1>6. QED
  BY <1>2, <1>3, <1>4, <1>5 DEF Join

LEMMA StopPlayerTable == ASSUME TableInv, NEW t \in Workers, StopPlayer(t) PROVE TableInv'
<1>s. PICK s \in Slots : s = work[t].slot
  BY DEF StopPlayer, TableInv, Placed, Removing
<1>1. work[t].at = "player" /\ \A u \in Workers \ {t} : work[u].at = "idle"
  BY Alone DEF StopPlayer
<1>2. s \in Slots /\ Held(t, s)
  BY <1>s, <1>1 DEF TableInv, Placed, Staged, Removing
<1>3. /\ slot[s] \in Slot /\ slot[s].running
      /\ slot[s].handle # 0 => ctx[slot[s].handle].alive = {}
  BY <1>1, <1>2 DEF Held, Removing, TableInv, TypeOK
<1>4. slot' = [slot EXCEPT ![s] = [slot[s] EXCEPT !.running = FALSE]] /\ Goto(t, "join", s)
  BY <1>s DEF StopPlayer
<1>5. /\ [slot[s] EXCEPT !.running = FALSE] \in Slot
      /\ ~[slot[s] EXCEPT !.running = FALSE].running
  BY <1>3 DEF Slot
<1>6. /\ slot' \in [Slots -> Slot] /\ ~slot'[s].running
      /\ \A r \in Slots \ {s} : slot'[r] = slot[r]
  BY <1>2, <1>4, <1>5 DEF TableInv, TypeOK
<1>7. UNCHANGED <<autoSave, removeTimeout, net, news, sent, ctx, slim, mainMutex>>
  BY DEF StopPlayer
<1>8. /\ work' \in [Workers -> [at : Stages, slot : 0..NSlots + 1]]
      /\ Excl' /\ Placed' /\ Staged'
      /\ work'[t].at = "join" /\ work'[t].slot = s
      /\ \A u \in Workers \ {t} : work'[u] = work[u]
  <2>1. /\ "join" \in Stages /\ s \in 0..NSlots + 1 /\ "join" # "scan"
        /\ "join" \in {"idle", "scan"} \cup Removing
    BY <1>2, Handles DEF TableInv, Stages, Removing
  <2>2. Held(t, s)'
    BY <1>4, <1>6 DEF Held, Goto, TableInv, TypeOK, Adding, Removing, Closing
  <2>3. QED
    BY <1>1, <1>2, <1>4, <2>1, <2>2, Moves
<1>9. TypeOK'
  BY <1>6, <1>7, <1>8 DEF TableInv, TypeOK
<1>10. Kept'
  <2>1. \A r \in Slots \ {s}, u \in Workers : ~Closes(u, r)
    BY <1>s, <1>1 DEF Closes, Closing
  <2>2. \A r \in Slots \ {s} : ~slot[r].running => slot[r].players = 0
    BY <1>s, <1>1 DEF TableInv, Kept
  <2>3. QED
    BY <1>6, <1>7, <1>8, <2>1, <2>2 DEF TableInv, Kept
<1>11. Owned'
  <2>1. ASSUME NEW c \in Ctxs, ctx[c].alive # {}
        PROVE  /\ ctx[c].dev \in Slots /\ slot'[ctx[c].dev].running
               /\ slot'[ctx[c].dev].handle = c
    <3>1. /\ ctx[c].dev \in Slots /\ slot[ctx[c].dev].running
          /\ slot[ctx[c].dev].handle = c
      BY <2>1 DEF TableInv, Owned
    <3>2. c # 0
      BY Handles, <1>2 DEF TableInv
    <3>3. ctx[c].dev # s
      BY <1>3, <2>1, <3>1, <3>2
    <3>4. QED
      BY <1>6, <3>1, <3>3
  <2>2. QED
    BY <1>7, <2>1 DEF TableInv, Owned
<1>12. BuffersOutlive'
  BY <1>7 DEF TableInv, BuffersOutlive
<1>13. QED
  BY <1>8, <1>9, <1>10, <1>11, <1>12 DEF TableInv

LEMMA JoinPlayerTable ==
  ASSUME TableInv, Locked, NEW t \in Workers, JoinPlayer(t)
  PROVE  TableInv'
<1> DEFINE s == work[t].slot
<1>1. work[t].at = "join" /\ \A u \in Workers \ {t} : work[u].at = "idle"
  BY Alone DEF JoinPlayer
<1>2. s \in Slots /\ slot[s].players = 0
  BY <1>1 DEF JoinPlayer, TableInv, Placed, Removing
<1>3. UNCHANGED <<autoSave, removeTimeout, net, news, sent, slot, ctx, slim, mainMutex>>
  BY DEF JoinPlayer
<1>4. /\ 0 \in 0..NSlots + 1 /\ s + 1 \in 0..NSlots + 1 /\ s + 1 \in 1..NSlots + 1
      /\ {"list", "scan"} \subseteq Stages /\ "list" # "scan"
      /\ "list" \notin {"judge"} \cup Adding \cup Removing
      /\ "scan" \notin {"judge"} \cup Adding \cup Removing
      /\ "scan" \in {"idle", "scan"} \cup Removing
  BY <1>2, TableAssumption DEF Slots, Stages, Adding, Removing
<1>5. Goto(t, "scan", s + 1) \/ (t # "main" /\ Goto(t, "list", 0))
  BY <1>1 DEF JoinPlayer, Locked
<1>6. /\ work' \in [Workers -> [at : Stages, slot : 0..NSlots + 1]]
      /\ Excl' /\ Placed' /\ Staged'
      /\ \A u \in Workers \ {t} : work'[u] = work[u]
  <2>1. CASE Goto(t, "scan", s + 1)
    <3>1. "scan" \in Stages /\ s + 1 \in 0..NSlots + 1 /\ "scan" # "idle"
      BY <1>4
    <3>2. QED
      BY <1>1, <1>4, <2>1, <3>1, Moves
  <2>2. CASE t # "main" /\ Goto(t, "list", 0)
    BY <1>1, <1>4, <2>2, Moves
  <2>3. QED
    BY <1>5, <2>1, <2>2
<1>7. TypeOK'
  BY <1>3, <1>6 DEF TableInv, TypeOK
<1>8. Kept'
  <2>1. \A r \in Slots, u \in Workers : ~Closes(u, r)
    BY <1>1 DEF Closes, Closing
  <2>2. \A r \in Slots : ~slot[r].running => slot[r].players = 0
    BY <1>1, <1>2 DEF TableInv, Kept
  <2>3. QED
    BY <1>3, <2>1, <2>2 DEF TableInv, Kept
<1>9. Owned' /\ BuffersOutlive'
  BY <1>3 DEF TableInv, Owned, BuffersOutlive
<1>10. QED
  BY <1>6, <1>7, <1>8, <1>9 DEF TableInv

(* The context handed out belongs to nobody, and nothing runs in it: the mDNS *)
(* thread takes a context and gives one back, never both at a time.           *)
LEMMA ReserveTable == ASSUME TableInv, Reserve PROVE TableInv'
<1> DEFINE t == "mdns"
           c == Least(FreeCtxs)
<1>1. /\ t \in Workers /\ t # "main" /\ work[t].at = "reserve" /\ work[t].at \in Aside
      /\ \A u \in Workers \ {t} : work[u].at = "idle"
  BY Alone DEF Reserve, Aside, Adding, Workers
<1>s. PICK s \in Slots : s = work["mdns"].slot
  BY <1>1 DEF TableInv, Placed, Adding
<1>2. /\ s \in Slots /\ slot[s] \in Slot /\ slot[s].running /\ slot[s].handle = 0
      /\ s \in 0..NSlots + 1
  <2>1. s \in Slots /\ Held(t, s)
    BY <1>s, <1>1 DEF TableInv, Placed, Staged, Adding
  <2>2. slot[s].running /\ slot[s].handle = 0
    BY <1>1, <2>1 DEF Held, Adding
  <2>3. QED
    BY <2>1, <2>2, Handles DEF TableInv, TypeOK
<1>3. UNCHANGED <<autoSave, removeTimeout, net, news, sent, slim, mainMutex>>
  BY DEF Reserve
<1>4. \A u \in Workers, r \in Slots : ~Closes(u, r) /\ work[u].at # "join"
  BY <1>1 DEF Closes, Closing
<1>5. CASE FreeCtxs = {}
  <2>1. Goto(t, "player", s) /\ UNCHANGED <<slot, ctx>>
    BY <1>s, <1>5 DEF Reserve
  <2>2. Held(t, s)'
    BY <1>1, <1>2, <2>1 DEF Held, Goto, TableInv, TypeOK, Adding, Removing, Closing
  <2>3. "player" \in Stages /\ "player" # "scan"
    BY DEF Stages, Removing
  <2>4. /\ work' \in [Workers -> [at : Stages, slot : 0..NSlots + 1]]
        /\ Excl' /\ Placed' /\ Staged'
        /\ \A u \in Workers \ {t} : work'[u] = work[u]
    BY <1>1, <1>2, <2>1, <2>2, <2>3, Moves
  <2>5. TypeOK'
    BY <1>3, <2>1, <2>4 DEF TableInv, TypeOK
  <2>6. Kept' /\ Owned' /\ BuffersOutlive'
    BY <1>1, <1>3, <2>1, <2>4, MovesAside
  <2>7. QED
    BY <2>4, <2>5, <2>6 DEF TableInv
<1>6. CASE FreeCtxs # {}
  <2> DEFINE new == [inUse |-> TRUE, dev |-> s, forwards |-> TRUE, run |-> {},
                     alive |-> ctx[c].alive, outputbuf |-> FALSE, streambuf |-> FALSE]
  <2>1. c \in Ctxs /\ ~ctx[c].inUse /\ c # 0 /\ c \in 0..NCtx
    <3>1. FreeCtxs \subseteq Nat
      BY TableAssumption DEF FreeCtxs, Ctxs
    <3>2. c \in FreeCtxs
      BY <1>6, <3>1, LeastIn
    <3>3. QED
      BY <3>2, TableAssumption DEF FreeCtxs, Ctxs
  <2>2. \A r \in Slots : ~(slot[r].running /\ slot[r].handle = c)
    BY <1>4, <2>1 DEF TableInv, Kept
  <2>3. ctx[c].alive = {}
    BY <2>1, <2>2 DEF TableInv, Owned
  <2>4. /\ ctx' = [ctx EXCEPT ![c] = new]
        /\ slot' = [slot EXCEPT ![s] = [slot[s] EXCEPT !.handle = c]]
        /\ Goto(t, "run", s)
    BY <1>s, <1>6 DEF Reserve
  <2>5. new \in Ctx
    <3>1. {} \in SUBSET Threads /\ s \in 0..NSlots
      BY <1>2, TableAssumption DEF Slots
    <3>2. QED
      BY <2>3, <3>1 DEF Ctx
  <2>6. /\ ctx' \in [Ctxs -> Ctx] /\ ctx'[c] = new
        /\ \A d \in Ctxs \ {c} : ctx'[d] = ctx[d]
    BY <2>1, <2>4, <2>5 DEF TableInv, TypeOK
  <2>7. /\ [slot[s] EXCEPT !.handle = c] \in Slot
        /\ [slot[s] EXCEPT !.handle = c].handle = c
        /\ [slot[s] EXCEPT !.handle = c].running
        /\ [slot[s] EXCEPT !.handle = c].players = slot[s].players
    BY <1>2, <2>1 DEF Slot
  <2>8. /\ slot' \in [Slots -> Slot]
        /\ slot'[s].handle = c /\ slot'[s].running
        /\ slot'[s].players = slot[s].players
        /\ \A r \in Slots \ {s} : slot'[r] = slot[r]
    BY <1>2, <2>4, <2>7 DEF TableInv, TypeOK
  <2>9. Held(t, s)'
    <3>1. work'[t].at = "run"
      BY <1>1, <2>4 DEF Goto, TableInv, TypeOK
    <3>2. QED
      BY <2>1, <2>3, <2>6, <2>8, <3>1 DEF Held, Closing
  <2>10. "run" \in Stages /\ "run" # "scan"
    BY DEF Stages, Adding
  <2>11. /\ work' \in [Workers -> [at : Stages, slot : 0..NSlots + 1]]
         /\ Excl' /\ Placed' /\ Staged'
         /\ \A u \in Workers \ {t} : work'[u] = work[u]
    BY <1>1, <1>2, <2>4, <2>9, <2>10, Moves
  <2>12. TypeOK'
    BY <1>3, <2>6, <2>8, <2>11 DEF TableInv, TypeOK
  <2>13. Kept'
    <3>1. ASSUME NEW r \in Slots, slot'[r].running, slot'[r].handle # 0
          PROVE  ctx'[slot'[r].handle].dev = r /\ ctx'[slot'[r].handle].inUse
      <4>1. CASE r = s
        BY <2>6, <2>8, <4>1
      <4>2. CASE r # s
        <5>1. slot'[r] = slot[r] /\ slot[r].handle \in Ctxs \ {c}
          BY <2>2, <2>8, <3>1, <4>2, Handles DEF TableInv
        <5>2. QED
          BY <1>4, <2>6, <3>1, <5>1 DEF TableInv, Kept
      <4>3. QED
        BY <4>1, <4>2
    <3>2. \A r \in Slots : /\ slot'[r].running <=> slot[r].running
                           /\ slot'[r].players = slot[r].players
      BY <1>2, <2>8
    <3>3. \A r \in Slots : /\ slot[r].running => slot[r].players = 1
                           /\ ~slot[r].running => slot[r].players = 0
      BY <1>4 DEF TableInv, Kept
    <3>4. \A r \in Slots : /\ slot'[r].running => slot'[r].players = 1
                           /\ ~slot'[r].running => slot'[r].players = 0
      BY <3>2, <3>3
    <3>5. QED
      BY <3>1, <3>4 DEF Kept
  <2>14. Owned'
    <3>1. ASSUME NEW d \in Ctxs, ctx'[d].alive # {}
          PROVE  /\ ctx'[d].dev \in Slots /\ slot'[ctx'[d].dev].running
                 /\ slot'[ctx'[d].dev].handle = d
      <4>1. d # c /\ ctx'[d] = ctx[d]
        BY <2>3, <2>6, <3>1
      <4>2. /\ ctx[d].dev \in Slots /\ slot[ctx[d].dev].running
            /\ slot[ctx[d].dev].handle = d
        BY <3>1, <4>1 DEF TableInv, Owned
      <4>3. ctx[d].dev # s
        BY <1>2, <4>2, Handles DEF TableInv
      <4>4. QED
        BY <2>8, <4>1, <4>2, <4>3
    <3>2. \A d \in Ctxs : ctx'[d].forwards => ctx'[d].dev \in Slots
      BY <1>2, <2>6 DEF TableInv, Owned
    <3>3. QED
      BY <1>3, <3>1, <3>2 DEF TableInv, Owned
  <2>15. BuffersOutlive'
    BY <2>3, <2>6 DEF TableInv, BuffersOutlive
  <2>16. QED
    BY <2>11, <2>12, <2>13, <2>14, <2>15 DEF TableInv
<1>7. QED
  BY <1>5, <1>6

(* The threads start in the context of the device being added. *)
LEMMA RunTable == ASSUME TableInv, Run PROVE TableInv'
<1> DEFINE t == "mdns"
           s == work["mdns"].slot
           c == slot[s].handle
           new == [ctx[c] EXCEPT !.run = Threads, !.alive = Threads,
                                 !.outputbuf = TRUE, !.streambuf = TRUE]
<1>1. /\ t \in Workers /\ t # "main" /\ work[t].at = "run" /\ work[t].at \in Aside
      /\ \A u \in Workers \ {t} : work[u].at = "idle"
  BY Alone DEF Run, Aside, Adding, Workers
<1>2. s \in Slots /\ slot[s].running /\ c # 0 /\ ctx[c].inUse
  <2>1. s \in Slots /\ Held(t, s)
    BY <1>1 DEF TableInv, Placed, Staged, Adding
  <2>2. QED
    BY <1>1, <2>1 DEF Held, Adding
<1>3. c \in Ctxs /\ ctx[c] \in Ctx /\ ctx[c].dev = s
  BY <1>2, Handles DEF TableInv, TypeOK, Kept
<1>4. UNCHANGED <<autoSave, removeTimeout, net, news, sent, slot, slim, mainMutex>>
  BY DEF Run
<1>5. /\ new \in Ctx /\ new.dev = s /\ new.inUse /\ new.streambuf /\ new.outputbuf
  BY <1>2, <1>3 DEF Ctx
<1>6. ctx' = [ctx EXCEPT ![c] = new] /\ Goto(t, "list", 0)
  BY DEF Run
<1>7. /\ ctx' \in [Ctxs -> Ctx] /\ ctx'[c] = new
      /\ \A d \in Ctxs \ {c} : ctx'[d] = ctx[d]
  BY <1>3, <1>5, <1>6 DEF TableInv, TypeOK
<1>8. /\ 0 \in 0..NSlots + 1 /\ "list" \in Stages /\ "list" # "scan"
      /\ "list" \notin {"judge"} \cup Adding \cup Removing
  BY TableAssumption DEF Stages, Adding, Removing
<1>9. /\ work' \in [Workers -> [at : Stages, slot : 0..NSlots + 1]]
      /\ Excl' /\ Placed' /\ Staged'
      /\ \A u \in Workers \ {t} : work'[u] = work[u]
  BY <1>1, <1>6, <1>8, Moves
<1>10. TypeOK'
  BY <1>4, <1>7, <1>9 DEF TableInv, TypeOK
<1>11. Kept'
  <2>1. \A u \in Workers, r \in Slots : ~Closes(u, r) /\ work[u].at # "join"
    BY <1>1 DEF Closes, Closing
  <2>2. \A d \in Ctxs : ctx'[d].dev = ctx[d].dev /\ (ctx[d].inUse => ctx'[d].inUse)
    BY <1>3, <1>5, <1>7
  <2>3. \A r \in Slots : slot[r].running /\ slot[r].handle # 0 =>
                            /\ ctx[slot[r].handle].dev = r /\ ctx[slot[r].handle].inUse
                            /\ slot[r].handle \in Ctxs
    BY <2>1, Handles DEF TableInv, Kept
  <2>4. \A r \in Slots : /\ slot[r].running => slot[r].players = 1
                         /\ ~slot[r].running => slot[r].players = 0
    BY <2>1 DEF TableInv, Kept
  <2>5. QED
    BY <1>4, <2>2, <2>3, <2>4 DEF Kept
<1>12. Owned'
  <2>1. ctx'[c].dev = s /\ slot'[s].running /\ slot'[s].handle = c
    BY <1>2, <1>4, <1>5, <1>7
  <2>2. ASSUME NEW d \in Ctxs
        PROVE  /\ ctx'[d].alive # {} => /\ ctx'[d].dev \in Slots
                                        /\ slot'[ctx'[d].dev].running
                                        /\ slot'[ctx'[d].dev].handle = d
               /\ ctx'[d].forwards => ctx'[d].dev \in Slots
    <3>1. CASE d = c
      BY <1>2, <2>1, <3>1
    <3>2. CASE d # c
      BY <1>4, <1>7, <3>2 DEF TableInv, Owned
    <3>3. QED
      BY <3>1, <3>2
  <2>3. QED
    BY <1>4, <2>2 DEF TableInv, Owned
<1>13. BuffersOutlive'
  BY <1>5, <1>7 DEF TableInv, BuffersOutlive
<1>14. QED
  BY <1>9, <1>10, <1>11, <1>12, <1>13 DEF TableInv

-----------------------------------------------------------------------------
(* What a worker does to the other one, and to the lock. *)
LEMMA WorkerLocked ==
  ASSUME TableInv, Locked, NEW t \in Workers, Worker(t)
  PROVE  Locked'
<1>1. \A u \in Workers \ {t} : work[u].at # "idle" => work[t].at = "idle"
  BY DEF TableInv, Excl, Workers
<1>2. \/ \E at, s : Goto(t, at, s)
      \/ UNCHANGED work
  BY DEF Worker, Update, Scan, StartRemoval, Updated, Remove, Wipe, Join, JoinSlim, JoinOutput,
         JoinDecode, JoinStream, StopPlayer, JoinPlayer
<1>3. \A u \in Workers \ {t} : work'[u] = work[u]
  BY <1>2 DEF Goto, TableInv, TypeOK
<1>4. CASE Update(t)
  BY <1>3, <1>4 DEF Update, Locked, Workers, None
<1>5. CASE Updated(t)
  <2>1. work'[t].at = "idle"
    BY <1>5 DEF Updated, Goto, TableInv, TypeOK
  <2>2. \A u \in Workers \ {t} : work'[u].at = "idle"
    BY <1>1, <1>3, <1>5 DEF Updated
  <2>3. QED
    BY <2>1, <2>2 DEF Locked, Workers
<1>6. CASE Scan(t) \/ Remove(t)
  <2>1. UNCHANGED mainMutex /\ work[t].at # "idle"
    BY <1>6 DEF Scan, Remove, Wipe, Join, JoinSlim, JoinOutput, JoinDecode, JoinStream,
                StopPlayer, JoinPlayer
  <2>2. CASE t = "main"
    BY <2>1, <2>2 DEF Locked
  <2>3. CASE t # "main"
    BY <1>3, <2>1, <2>3 DEF Locked, Workers
  <2>4. QED
    BY <2>2, <2>3
<1>7. QED
  BY <1>4, <1>5, <1>6 DEF Worker

LEMMA OthersLocked ==
  ASSUME TableInv, Locked, [Next]_vars
  PROVE  Locked' \/ \E t \in Workers : Worker(t)
<1>1. CASE Network
  BY <1>1 DEF Network, Locked
<1>2. CASE MdnsThread
  <2>1. \E at, s : Goto("mdns", at, s)
    BY <1>2 DEF MdnsThread, Listen, Judge, StartRemoval, Reserve, Run
  <2>2. work'["main"] = work["main"]
    BY <2>1 DEF Goto, TableInv, TypeOK, Workers
  <2>3. UNCHANGED mainMutex
    BY <1>2 DEF MdnsThread, Listen, Judge, Reserve, Run
  <2>4. QED
    BY <2>2, <2>3 DEF Locked
<1>3. CASE \E s \in Slots : Tick(s) \/ PlayerEnds(s)
  BY <1>3 DEF Tick, PlayerEnds, Locked
<1>4. CASE \E c \in Ctxs : \/ SlimCall(c) \/ SlimCallback(c) \/ SlimSave(c)
                          \/ \E th \in Threads : ThreadEnds(c, th)
  BY <1>4 DEF SlimCall, SlimCallback, SlimSave, ThreadEnds, Locked
<1>5. CASE UNCHANGED vars
  BY <1>5 DEF vars, Locked
<1>6. QED
  BY <1>1, <1>2, <1>3, <1>4, <1>5 DEF Next

(* Every step of every thread keeps the invariant. *)
LEMMA StepTable ==
  ASSUME TableInv, Locked, ~Overlap, [Next]_vars
  PROVE  TableInv' /\ Locked'
<1>1. SUFFICES TableInv'
  <2>1. Locked'
    BY OthersLocked, WorkerLocked
  <2>2. QED
    BY <2>1
<1>2. CASE Network
  BY <1>2, NetworkTable
<1>3. CASE MdnsThread
  BY <1>3, ListenTable, JudgeTable, ReserveTable, RunTable DEF MdnsThread
<1>4. ASSUME NEW t \in Workers, Worker(t) PROVE TableInv'
  <2>1. CASE Update(t)
    BY <2>1, UpdateTable
  <2>2. CASE Scan(t)
    BY <2>2, ScanTable
  <2>3. CASE Updated(t)
    BY <2>3, UpdatedTable
  <2>4. CASE Wipe(t)
    BY <2>4, WipeTable
  <2>5. CASE Join(t)
    BY <2>5, JoinTable
  <2>6. CASE StopPlayer(t)
    BY <2>6, StopPlayerTable
  <2>7. CASE JoinPlayer(t)
    BY <2>7, JoinPlayerTable
  <2>8. QED
    BY <1>4, <2>1, <2>2, <2>3, <2>4, <2>5, <2>6, <2>7 DEF Worker, Remove
<1>5. ASSUME NEW s \in Slots, Tick(s) \/ PlayerEnds(s) PROVE TableInv'
  BY <1>5, TickTable, PlayerEndsTable
<1>6. ASSUME NEW c \in Ctxs,
             \/ SlimCall(c) \/ SlimCallback(c) \/ SlimSave(c)
             \/ \E th \in Threads : ThreadEnds(c, th)
      PROVE  TableInv'
  BY <1>6, SlimTable, ThreadEndsTable
<1>7. CASE UNCHANGED vars
  <2>1. TypeOK' /\ Excl' /\ Placed' /\ BuffersOutlive'
    BY <1>7 DEF vars, TableInv, TypeOK, Excl, Placed, BuffersOutlive
  <2>2. Staged' /\ Kept' /\ Owned'
    BY <1>7 DEF vars, TableInv, Staged, Held, Kept, Closes, Owned
  <2>3. QED
    BY <2>1, <2>2 DEF TableInv
<1>8. QED
  BY <1>2, <1>3, <1>4, <1>5, <1>6, <1>7 DEF Next

LEMMA TableInvariant == ASSUME ~Overlap PROVE Spec => [](TableInv /\ Locked)
<1>1. Init => TableInv /\ Locked
  <2>1. Init => Locked
    BY DEF Init, Locked, Workers
  <2>2. QED
    BY <2>1, InitTable
<1>2. TableInv /\ Locked /\ [Next]_vars => (TableInv /\ Locked)'
  BY StepTable
<1>3. QED
  BY <1>1, <1>2, PTL DEF Spec

\* Every thread and variable of the table keeps its type: no slot or context
\* number out of range, one PlayerThread a slot, whatever the configuration.
THEOREM TableTyping == ASSUME ~Overlap PROVE Spec => []TypeOK
<1>1. TableInv => TypeOK
  BY DEF TableInv
<1>2. QED
  BY <1>1, TableInvariant, PTL

\* A context in which a thread lives is the context of one running device, and
\* of no other: sq_reserve_device never hands out a context that is being
\* closed, and sq_delete_device ends its threads before the slot is given up.
THEOREM TableOwned == ASSUME ~Overlap PROVE Spec => []ContextOwned
<1>1. ASSUME TableInv PROVE ContextOwned
  <2>1. ASSUME NEW c \in Ctxs, ctx[c].alive # {}
        PROVE  \E s \in Slots :
                  /\ slot[s].running /\ slot[s].handle = c /\ ctx[c].dev = s
                  /\ \A r \in Slots \ {s} : ~(slot[r].running /\ slot[r].handle = c)
    <3>1. PICK s \in Slots : s = ctx[c].dev /\ slot[s].running /\ slot[s].handle = c
      BY <1>1, <2>1 DEF TableInv, Owned
    <3>2. c # 0
      BY <3>1, <1>1, Handles DEF TableInv
    <3>3. \A r \in Slots : slot[r].running /\ slot[r].handle = c => r = s
      BY <1>1, <3>1, <3>2 DEF TableInv, Kept
    <3>4. QED
      BY <3>1, <3>3
  <2>2. QED
    BY <2>1 DEF ContextOwned
<1>2. QED
  BY <1>1, TableInvariant, PTL

\* sq_wipe_device destroys a buffer after the threads that use it, as far as
\* BuffersOutlive says which: the closes wait for their threads in that order.
THEOREM TableBuffers == ASSUME ~Overlap PROVE Spec => []BuffersOutlive
<1>1. TableInv => BuffersOutlive
  BY DEF TableInv
<1>2. QED
  BY <1>1, TableInvariant, PTL

=============================================================================
