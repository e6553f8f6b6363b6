-------------------------- MODULE RaopDeviceProofs --------------------------
(***************************************************************************)
(* Theorems about RaopDevice, for any tracks, volumes, delays, settings    *)
(* and number of orders.                                                   *)
(***************************************************************************)
EXTENDS RaopDevice, TLAPS

(* What the provers are given for a leaf, in seconds. *)
USE SMTT(20), ZenonT(40)

(***************************************************************************)
(* The metadata in the hands of PlayerThread describe a track from the     *)
(* moment LMS has answered until the hash is stored.                       *)
(***************************************************************************)
FetchedOK == player.pc \in {"compare", "store"} => player.fetched \in Tracks

TypeInv == TypeOK /\ FetchedOK

LEMMA RequestArgs ==
  ASSUME NEW r \in Requests
  PROVE  /\ r.type = "VOLUME" => r.arg \in Levels
         /\ r.type = "ARTWORK" => r.arg \in Tracks
         /\ r # NoReq
BY DEF Requests, Plain, Req, NoReq

LEMMA RequestKinds ==
  /\ Req("CONNECT", 0) \in Plain
  /\ Req("FLUSH", 0) \in Plain
  /\ Req("OFF", 0) \in Plain
  /\ Plain \subseteq Requests
  /\ \A v \in Levels : Req("VOLUME", v) \in Requests \ Plain
  /\ \A t \in Tracks : Req("ARTWORK", t) \in Requests \ Plain
  /\ NoReq \notin Requests
BY DEF Requests, Plain, Req, NoReq

LEMMA Limits ==
  /\ FlushLimit \in Nat /\ VolumeLimit \in Nat /\ PreventLimit \in Nat
  /\ \A limit \in Nat : /\ 0 \in 0..limit
                         /\ \A age \in 0..limit : Aged(age, limit) \in 0..limit
BY DeviceAssumption DEF FlushLimit, VolumeLimit, PreventLimit, Aged

LEMMA CountedTyped ==
  ASSUME lms \in Servers, lms.orders > 0
  PROVE  Counted \in Servers
<1>1. lms.orders \in 0..MaxOrders
  BY DEF Servers
<1>2. lms.orders - 1 \in 0..MaxOrders
  BY <1>1, DeviceAssumption
<1>3. QED
  BY <1>2 DEF Counted, Servers

(* The state is typed when PlayerThread is created. *)
LEMMA InitTyped == Init => TypeInv
BY DeviceAssumption, RequestKinds
DEF Init, TypeInv, TypeOK, FetchedOK, Levels, Modes, NoReq, Req, FlushLimit,
    VolumeLimit, PreventLimit, Devices, Players, Clients, Servers, Sessions

LEMMA CallbackTyped == TypeInv /\ Callback => TypeInv'
<1> SUFFICES ASSUME TypeInv, Callback PROVE TypeInv'
  OBVIOUS
<1> USE DEF TypeInv, TypeOK
<1>1. CASE PowerOn
  <2>1. dev' \in Devices
    <3> DEFINE prevent == ~AutoPlay /\ dev.prevent
               busy == ~AutoPlay /\ dev.busy
    <3>1. prevent \in BOOLEAN /\ busy \in BOOLEAN
      OBVIOUS
    <3>2. dev' = [dev EXCEPT !.on = TRUE, !.prevent = prevent, !.busy = busy]
      BY <1>1 DEF PowerOn
    <3> HIDE DEF prevent, busy
    <3>3. QED
      BY <3>1, <3>2 DEF Devices
  <2>2. lms' \in Servers
    BY <1>1, CountedTyped, DeviceAssumption DEF PowerOn, Order, Servers
  <2>3. QED
    BY <1>1, <2>1, <2>2 DEF PowerOn, FetchedOK
<1>2. CASE PowerOff
  <2>1. dev' \in Devices
    BY <1>2 DEF PowerOff, Devices
  <2>2. lms' \in Servers
    BY <1>2, CountedTyped DEF PowerOff, Order, Servers
  <2>3. queue' \in Seq(Requests)
    BY <1>2, RequestKinds DEF PowerOff
  <2>4. session' \in Sessions
    BY <1>2 DEF PowerOff, Want, Sessions
  <2>5. QED
    BY <1>2, <2>1, <2>2, <2>3, <2>4 DEF PowerOff, FetchedOK
<1>3. CASE Finished
  <2>1. dev' \in Devices
    BY <1>3, Limits, DeviceAssumption DEF Finished, Devices
  <2>2. lms' \in Servers
    BY <1>3, CountedTyped DEF Finished, Order, Servers
  <2>3. QED
    BY <1>3, <2>1, <2>2 DEF Finished, FetchedOK
<1>4. CASE Unpause
  <2>1. dev' \in Devices
    BY <1>4 DEF Unpause, Modes, Devices
  <2>2. lms' \in Servers
    BY <1>4, CountedTyped DEF Unpause, Order, Servers
  <2>3. queue' \in Seq(Requests)
    BY <1>4, RequestKinds DEF Unpause, Push
  <2>4. session' \in Sessions
    BY <1>4 DEF Unpause, Want, Sessions
  <2>5. QED
    BY <1>4, <2>1, <2>2, <2>3, <2>4 DEF Unpause, FetchedOK
<1>5. CASE Connect
  <2>1. dev' \in Devices
    BY <1>5 DEF Connect, Modes, Devices
  <2>2. lms' \in Servers
    BY <1>5, CountedTyped DEF Connect, Order, Servers
  <2>3. queue' \in Seq(Requests)
    BY <1>5, RequestKinds DEF Connect, Push
  <2>4. session' \in Sessions
    BY <1>5 DEF Connect, Want, Sessions
  <2>5. QED
    BY <1>5, <2>1, <2>2, <2>3, <2>4 DEF Connect, FetchedOK
<1>6. CASE LmsVolume
  <2>1. ASSUME NEW level \in Levels, SetVolume(level)
        PROVE  /\ dev' \in Devices /\ queue' \in Seq(Requests)
               /\ UNCHANGED <<player, raop, fetching, session>>
    <3>1. CASE TakesVolume(level)
      <4>1. dev' \in Devices
        BY <2>1, <3>1 DEF SetVolume, Devices
      <4>2. queue' \in Seq(Requests)
        BY <2>1, <3>1, RequestKinds DEF SetVolume, Push
      <4>3. QED
        BY <2>1, <4>1, <4>2 DEF SetVolume
    <3>2. CASE ~TakesVolume(level)
      BY <2>1, <3>2 DEF SetVolume
    <3>3. QED
      BY <3>1, <3>2
  <2>2. CASE \E level \in Levels :
               Order("VOLUME") /\ SetVolume(level) /\ lms' = [Counted EXCEPT !.volume = level]
    <3>1. lms' \in Servers
      BY <2>2, CountedTyped DEF Order, Servers
    <3>2. QED
      BY <2>1, <2>2, <3>1 DEF FetchedOK
  <2>3. CASE /\ lms.askedVolume # << >>
             /\ SetVolume(Head(lms.askedVolume))
             /\ lms' = [lms EXCEPT !.volume = Head(lms.askedVolume),
                                   !.askedVolume = Tail(@)]
    <3>1. lms.askedVolume \in Seq(Levels)
      BY DEF Servers
    <3>2. Head(lms.askedVolume) \in Levels /\ Tail(lms.askedVolume) \in Seq(Levels)
      BY <2>3, <3>1
    <3>3. lms' \in Servers
      BY <2>3, <3>2 DEF Servers
    <3>4. QED
      BY <2>1, <2>3, <3>2, <3>3 DEF FetchedOK
  <2>4. QED
    BY <1>6, <2>2, <2>3 DEF LmsVolume
<1>7. ASSUME NEW mode \in {"STOP", "PAUSE"}, Halt(mode) PROVE TypeInv'
  <2>1. dev' \in Devices
    BY <1>7 DEF Halt, Modes, Devices
  <2>2. lms' \in Servers
    BY <1>7, CountedTyped DEF Halt, Order, Servers
  <2>3. queue' \in Seq(Requests)
    BY <1>7, RequestKinds DEF Halt, Push
  <2>4. session' \in Sessions
    BY <1>7 DEF Halt, Want, Sessions
  <2>5. QED
    BY <1>7, <2>1, <2>2, <2>3, <2>4 DEF Halt, FetchedOK
<1>8. ASSUME NEW track \in Tracks, Started(track) PROVE TypeInv'
  <2>1. dev' \in Devices
    BY <1>8, Limits, DeviceAssumption DEF Started, Devices
  <2>2. lms' \in Servers
    BY <1>8, CountedTyped DEF Started, Order, Servers
  <2>3. QED
    BY <1>8, <2>1, <2>2 DEF Started, FetchedOK
<1>9. ASSUME NEW track \in Tracks, MetaSend(track) PROVE TypeInv'
  <2>1. dev' \in Devices
    BY <1>9, Limits, DeviceAssumption DEF MetaSend, Devices
  <2>2. lms' \in Servers
    BY <1>9, CountedTyped DEF MetaSend, Order, Servers
  <2>3. QED
    BY <1>9, <2>1, <2>2 DEF MetaSend, FetchedOK
<1>10. QED
  BY <1>1, <1>2, <1>3, <1>4, <1>5, <1>6, <1>7, <1>8, <1>9 DEF Callback

LEMMA RemoteTyped == TypeInv /\ Remote => TypeInv'
<1> SUFFICES ASSUME TypeInv, Remote PROVE TypeInv'
  OBVIOUS
<1> USE DEF TypeInv, TypeOK
<1>1. ASSUME NEW b \in BOOLEAN, PreventPlayback(b) PROVE TypeInv'
  <2>1. dev' \in Devices
    BY <1>1 DEF PreventPlayback, Devices
  <2>2. lms' \in Servers
    BY <1>1, CountedTyped DEF PreventPlayback, Command, Servers
  <2>3. QED
    BY <1>1, <2>1, <2>2 DEF PreventPlayback, FetchedOK
<1>2. ASSUME NEW b \in BOOLEAN, Busy(b) PROVE TypeInv'
  <2>1. dev' \in Devices
    BY <1>2 DEF Busy, Devices
  <2>2. lms' \in Servers
    BY <1>2, CountedTyped DEF Busy, Command, AskOff, Servers
  <2>3. QED
    BY <1>2, <2>1, <2>2 DEF Busy, FetchedOK
<1>3. ASSUME NEW level \in Levels, Feedback(level) PROVE TypeInv'
  <2>1. Counted \in Servers /\ lms.askedVolume \in Seq(Levels)
    BY <1>3, CountedTyped DEF Feedback, Command, Servers
  <2>2. raop' \in Clients
    BY <1>3 DEF Feedback, Clients
  <2>3. CASE level # dev.volume
    <3>1. dev' \in Devices
      BY <1>3, <2>3, Limits DEF Feedback, Devices
    <3>2. queue' \in Seq(Requests)
      BY <1>3, <2>3, RequestKinds DEF Feedback, Push
    <3>3. Counted.askedVolume = lms.askedVolume
      BY DEF Counted, Servers
    <3>4. Append(Counted.askedVolume, level) \in Seq(Levels)
      BY <2>1, <3>3
    <3>5. lms' \in Servers
      BY <1>3, <2>1, <2>3, <3>4 DEF Feedback, Servers
    <3>6. QED
      BY <1>3, <2>2, <3>1, <3>2, <3>5 DEF Feedback, FetchedOK
  <2>4. CASE level = dev.volume
    BY <1>3, <2>1, <2>2, <2>4 DEF Feedback, FetchedOK
  <2>5. QED
    BY <2>3, <2>4
<1>4. QED
  BY <1>1, <1>2, <1>3 DEF Remote

LEMMA PlayerTyped == TypeInv /\ PlayerThread => TypeInv'
<1> SUFFICES ASSUME TypeInv, PlayerThread PROVE TypeInv'
  OBVIOUS
<1> USE DEF TypeInv, TypeOK
<1>1. CASE ThreadStart
  <2>1. dev' \in Devices
    BY <1>1 DEF ThreadStart, Devices
  <2>2. player' \in Players
    BY <1>1 DEF ThreadStart, Goto, Players
  <2>3. QED
    BY <1>1, <2>1, <2>2 DEF ThreadStart, FetchedOK, Goto, Players
<1>2. CASE GetRequest
  <2>1. queue # << >> => Head(queue) \in Requests /\ Tail(queue) \in Seq(Requests)
    OBVIOUS
  <2>2. player' \in Players
    BY <1>2, <2>1 DEF GetRequest, Goto, Players
  <2>3. queue' \in Seq(Requests)
    BY <1>2, <2>1 DEF GetRequest
  <2>4. QED
    BY <1>2, <2>2, <2>3 DEF GetRequest, FetchedOK, Goto, Players
<1>3. CASE Wake
  <2>1. player' \in Players
    BY <1>3 DEF Wake, Players
  <2>2. QED
    BY <1>3, <2>1 DEF Wake, FetchedOK, Players
<1>4. CASE LookAtStatus
  <2>1. player' \in Players
    BY <1>4, Limits DEF LookAtStatus, Players
  <2>2. QED
    BY <1>4, <2>1 DEF LookAtStatus, FetchedOK, Players
<1>5. CASE PutBack
  <2>1. player' \in Players
    BY <1>5 DEF PutBack, Players
  <2>2. queue' \in Seq(Requests)
    BY <1>5 DEF PutBack, Players
  <2>3. QED
    BY <1>5, <2>1, <2>2 DEF PutBack, FetchedOK, Players
<1>6. CASE GiveUp
  <2>1. lms' \in Servers
    BY <1>6 DEF GiveUp, AskOff, Servers
  <2>2. player' \in Players
    BY <1>6 DEF GiveUp, Players
  <2>3. session' \in Sessions
    BY <1>6 DEF GiveUp, Sessions
  <2>4. QED
    BY <1>6, <2>1, <2>2, <2>3 DEF GiveUp, FetchedOK, Players
<1>7. CASE IdleTick
  <2>1. player' \in Players
    BY <1>7 DEF IdleTick, Goto, Players
  <2>2. QED
    BY <1>7, <2>1 DEF IdleTick, FetchedOK, Goto, Players
<1>8. CASE Release
  <2>1. raop' \in Clients
    BY <1>8 DEF Release, Clients
  <2>2. dev' \in Devices
    BY <1>8 DEF Release, Devices
  <2>3. player' \in Players
    BY <1>8 DEF Release, Goto, Players
  <2>4. QED
    BY <1>8, <2>1, <2>2, <2>3 DEF Release, FetchedOK, Goto, Players
<1>9. CASE CheckSane
  <2>1. dev' \in Devices
    BY <1>9 DEF CheckSane, Devices
  <2>2. lms' \in Servers
    BY <1>9 DEF CheckSane, AskOff, Servers
  <2>3. player' \in Players
    BY <1>9 DEF CheckSane, Goto, Players
  <2>4. QED
    BY <1>9, <2>1, <2>2, <2>3 DEF CheckSane, FetchedOK, Goto, Players
<1>10. CASE CountDown
  <2>1. dev' \in Devices
    <3> DEFINE wait == IF dev.metaWait > 0 THEN dev.metaWait - 1 ELSE 0
    <3>1. wait \in Nat
      BY DEF Devices
    <3>2. dev' = [dev EXCEPT !.metaWait = wait]
      BY <1>10 DEF CountDown
    <3> HIDE DEF wait
    <3>3. QED
      BY <3>1, <3>2 DEF Devices
  <2>2. player' \in Players
    BY <1>10 DEF CountDown, Goto, Players
  <2>3. QED
    BY <1>10, <2>1, <2>2 DEF CountDown, FetchedOK, Goto, Players
<1>11. CASE FetchMetadata
  <2>1. dev' \in Devices
    BY <1>11, Limits, DeviceAssumption DEF FetchMetadata, Devices
  <2>2. player' \in Players
    BY <1>11 DEF FetchMetadata, Goto, Servers, Players
  <2>3. QED
    BY <1>11, <2>1, <2>2 DEF FetchMetadata, FetchedOK, Goto, Players, Servers
<1>12. CASE CompareHash
  <2>1. player.fetched \in Tracks
    BY <1>12 DEF CompareHash, At, FetchedOK
  <2>2. CASE dev.metaHash # player.fetched
    <3>1. raop' \in Clients /\ player' \in Players
      BY <1>12, <2>1, <2>2 DEF CompareHash, Goto, Clients, Players
    <3>2. QED
      BY <1>12, <2>1, <2>2, <3>1 DEF CompareHash, Goto, FetchedOK, Players
  <2>3. CASE dev.metaHash = player.fetched
    <3>1. dev' \in Devices
      BY <1>12, <2>3, DeviceAssumption DEF CompareHash, Devices
    <3>2. player' \in Players
      BY <1>12, <2>3 DEF CompareHash, Goto, Players
    <3>3. QED
      BY <1>12, <2>3, <3>1, <3>2 DEF CompareHash, Goto, FetchedOK, Players
  <2>4. QED
    BY <2>2, <2>3
<1>13. CASE StoreHash
  <2>1. dev' \in Devices
    BY <1>13, Limits, DeviceAssumption DEF StoreHash, Players, Devices
  <2>2. fetching' \subseteq Tracks
    BY <1>13 DEF StoreHash, At, FetchedOK
  <2>3. player' \in Players
    BY <1>13 DEF StoreHash, Players
  <2>4. QED
    BY <1>13, <2>1, <2>2, <2>3 DEF StoreHash, FetchedOK, Players
<1>14. CASE ExecuteConnect
  <2>1. raop' \in Clients
    BY <1>14 DEF ExecuteConnect, Clients
  <2>2. player' \in Players
    BY <1>14 DEF ExecuteConnect, Goto, Served, Players
  <2>3. session' \in Sessions
    BY <1>14 DEF ExecuteConnect, Done, Sessions
  <2>4. QED
    BY <1>14, <2>1, <2>2, <2>3 DEF ExecuteConnect, FetchedOK, Goto, Served, Players
<1>15. CASE Connected
  <2>1. dev' \in Devices
    BY <1>15 DEF Connected, Devices
  <2>2. player' \in Players
    BY <1>15 DEF Connected, Served, Players
  <2>3. QED
    BY <1>15, <2>1, <2>2 DEF Connected, FetchedOK, Served, Players
<1>16. CASE ExecuteFlush
  <2>1. dev' \in Devices
    BY <1>16, Limits, DeviceAssumption DEF ExecuteFlush, Devices
  <2>2. player' \in Players
    BY <1>16 DEF ExecuteFlush, Served, Players
  <2>3. session' \in Sessions
    BY <1>16 DEF ExecuteFlush, Done, Sessions
  <2>4. QED
    BY <1>16, <2>1, <2>2, <2>3 DEF ExecuteFlush, FetchedOK, Served, Players
<1>17. CASE ExecuteOff
  <2>1. raop' \in Clients
    BY <1>17 DEF ExecuteOff, Clients
  <2>2. player' \in Players
    BY <1>17 DEF ExecuteOff, Served, Players
  <2>3. session' \in Sessions
    BY <1>17 DEF ExecuteOff, Done, Sessions
  <2>4. QED
    BY <1>17, <2>1, <2>2, <2>3 DEF ExecuteOff, FetchedOK, Served, Players
<1>18. CASE ExecuteVolume
  <2>1. raop' \in Clients
    BY <1>18, RequestArgs DEF ExecuteVolume, Holding, Players, NoReq, Req, Clients
  <2>2. player' \in Players
    BY <1>18 DEF ExecuteVolume, Served, Players
  <2>3. QED
    BY <1>18, <2>1, <2>2 DEF ExecuteVolume, FetchedOK, Served, Players
<1>19. CASE ExecuteArtwork
  <2>1. raop' \in Clients
    BY <1>19, RequestArgs DEF ExecuteArtwork, Holding, Players, NoReq, Req, Clients
  <2>2. player' \in Players
    BY <1>19 DEF ExecuteArtwork, Served, Players
  <2>3. QED
    BY <1>19, <2>1, <2>2 DEF ExecuteArtwork, FetchedOK, Served, Players
<1>20. QED
  BY <1>1, <1>2, <1>3, <1>4, <1>5, <1>6, <1>7, <1>8, <1>9, <1>10, <1>11, <1>12, <1>13, <1>14, <1>15, <1>16, <1>17, <1>18, <1>19
  DEF PlayerThread

LEMMA TypedStep == TypeInv /\ [Next]_vars => TypeInv'
<1> SUFFICES ASSUME TypeInv, [Next]_vars PROVE TypeInv'
  OBVIOUS
<1> USE DEF TypeInv, TypeOK
<1>1. CASE ArtworkFetched
  <2>1. queue' \in Seq(Requests)
    BY <1>1, RequestKinds DEF ArtworkFetched, Push
  <2>2. fetching' \subseteq Tracks
    BY <1>1 DEF ArtworkFetched
  <2>3. QED
    BY <1>1, <2>1, <2>2 DEF ArtworkFetched, FetchedOK
<1>2. CASE Delete
  <2>1. dev' \in Devices
    BY <1>2 DEF Delete, Devices
  <2>2. QED
    BY <1>2, <2>1 DEF Delete, FetchedOK
<1>3. CASE Deleted
  <2>1. dev' \in Devices
    BY <1>3 DEF Deleted, Devices
  <2>2. raop' \in Clients
    BY <1>3 DEF Deleted, Clients
  <2>3. queue' \in Seq(Requests)
    BY <1>3 DEF Deleted
  <2>4. QED
    BY <1>3, <2>1, <2>2, <2>3 DEF Deleted, FetchedOK
<1>4. CASE LmsMode
  <2>1. lms' \in Servers
    BY <1>4 DEF LmsMode, Servers
  <2>2. QED
    BY <1>4, <2>1 DEF LmsMode, FetchedOK
<1>5. CASE Break
  <2>1. raop' \in Clients
    BY <1>5 DEF Break, Clients
  <2>2. lms' \in Servers
    BY <1>5, CountedTyped DEF Break, Servers
  <2>3. QED
    BY <1>5, <2>1, <2>2 DEF Break, FetchedOK
<1>6. CASE Tick
  <2>1. dev' \in Devices
    BY <1>6, Limits, DeviceAssumption DEF Tick, Devices
  <2>2. player' \in Players
    BY <1>6, Limits DEF Tick, Players
  <2>3. QED
    BY <1>6, <2>1, <2>2 DEF Tick, FetchedOK, Players
<1>7. CASE UNCHANGED vars
  BY <1>7 DEF vars, FetchedOK
<1>8. QED
  BY <1>1, <1>2, <1>3, <1>4, <1>5, <1>6, <1>7,
     CallbackTyped, RemoteTyped, PlayerTyped DEF Next

(* Whatever the orders, remote commands and delays, every variable of the  *)
(* device keeps its type: no counter leaves its range, no request without  *)
(* its argument reaches PlayerThread, and only artwork of a known track is *)
(* ever fetched.                                                           *)
THEOREM DeviceTyping == Spec => []TypeOK
<1>1. TypeInv => TypeOK
  BY DEF TypeInv
<1>2. QED
  BY <1>1, InitTyped, TypedStep, PTL DEF Spec

-----------------------------------------------------------------------------
(***************************************************************************)
(* Titles and pictures.  MetaInv: a stored hash is the hash of the title   *)
(* shown.  It is broken between the two assignments of PlayerThread (title *)
(* sent, hash not stored yet), where the title is that of the metadata in  *)
(* hand; no picture is shown in between because PlayerThread does both.    *)
(***************************************************************************)
MetaInv ==
  /\ dev.metaHash # NoTrack /\ player.pc # "store" => raop.text = dev.metaHash
  /\ player.pc = "store" => raop.text = player.fetched

LEMMA InitMeta == Init => MetaInv
BY DEF Init, MetaInv

LEMMA MetaStep == TypeInv /\ MetaInv /\ [Next]_vars => MetaInv'
<1> SUFFICES ASSUME TypeInv, MetaInv, [Next]_vars PROVE MetaInv'
  OBVIOUS
<1> USE DEF MetaInv, TypeInv, TypeOK
<1>1. CASE Callback
  <2>1. UNCHANGED <<player, raop>> /\ dev'.metaHash \in {dev.metaHash, NoTrack}
    <3>1. CASE LmsVolume
      BY <3>1 DEF LmsVolume, SetVolume, Devices
    <3>2. CASE PowerOn \/ PowerOff \/ Finished \/ Unpause \/ Connect
      BY <3>2 DEF PowerOn, PowerOff, Finished, Unpause, Connect, Devices
    <3>3. ASSUME NEW mode \in {"STOP", "PAUSE"}, Halt(mode)
          PROVE  UNCHANGED <<player, raop>> /\ dev'.metaHash \in {dev.metaHash, NoTrack}
      BY <3>3 DEF Halt, Devices
    <3>4. ASSUME NEW track \in Tracks, Started(track) \/ MetaSend(track)
          PROVE  UNCHANGED <<player, raop>> /\ dev'.metaHash \in {dev.metaHash, NoTrack}
      BY <3>4 DEF Started, MetaSend, Devices
    <3>5. QED
      BY <1>1, <3>1, <3>2, <3>3, <3>4 DEF Callback
  <2>2. QED
    BY <2>1
<1>2. CASE Remote
  <2>1. player' = player /\ dev'.metaHash = dev.metaHash /\ raop'.text = raop.text
    <3>1. ASSUME NEW b \in BOOLEAN, PreventPlayback(b) \/ Busy(b)
          PROVE  player' = player /\ dev'.metaHash = dev.metaHash /\ raop'.text = raop.text
      BY <3>1 DEF PreventPlayback, Busy, Devices
    <3>2. ASSUME NEW level \in Levels, Feedback(level)
          PROVE  player' = player /\ dev'.metaHash = dev.metaHash /\ raop'.text = raop.text
      BY <3>2 DEF Feedback, Devices, Clients
    <3>3. QED
      BY <1>2, <3>1, <3>2 DEF Remote
  <2>2. QED
    BY <2>1
<1>3. CASE CompareHash
  BY <1>3 DEF CompareHash, At, Goto, Players, Clients, Devices
<1>4. CASE StoreHash
  BY <1>4 DEF StoreHash, At, Players, Devices
<1>5. CASE PlayerThread /\ ~CompareHash /\ ~StoreHash
  <2>1. /\ dev'.metaHash = dev.metaHash /\ raop'.text = raop.text
        /\ player.pc # "store" /\ player'.pc # "store"
    <3> USE DEF At, Goto, Players, Devices, Clients
    <3>1. CASE ThreadStart \/ GetRequest \/ Wake
      BY <3>1 DEF ThreadStart, GetRequest, Wake
    <3>2. CASE LookAtStatus \/ PutBack \/ GiveUp
      BY <3>2 DEF LookAtStatus, PutBack, GiveUp
    <3>6. CASE IdleTick \/ Release
      BY <3>6 DEF IdleTick, Release
    <3>7. CASE CheckSane \/ CountDown \/ FetchMetadata
      BY <3>7 DEF CheckSane, CountDown, FetchMetadata
    <3>3. CASE ExecuteConnect \/ Connected \/ ExecuteFlush \/ ExecuteOff
      BY <3>3 DEF ExecuteConnect, Connected, ExecuteFlush, ExecuteOff, Holding, Served
    <3>4. CASE ExecuteVolume \/ ExecuteArtwork
      BY <3>4 DEF ExecuteVolume, ExecuteArtwork, Holding, Served
    <3>5. QED
      BY <1>5, <3>1, <3>2, <3>3, <3>4, <3>6, <3>7 DEF PlayerThread
  <2>2. QED
    BY <2>1
<1>6. CASE ArtworkFetched \/ LmsMode
  BY <1>6 DEF ArtworkFetched, LmsMode
<1>7. CASE Delete \/ Deleted \/ Break \/ Tick
  <2>1. player'.pc = player.pc /\ player'.fetched = player.fetched
    BY <1>7 DEF Delete, Deleted, Break, Tick, Players
  <2>2. raop'.text = raop.text
    BY <1>7 DEF Delete, Deleted, Break, Tick, Clients
  <2>3. dev'.metaHash = dev.metaHash
    BY <1>7 DEF Delete, Deleted, Break, Tick, Devices
  <2>4. QED
    BY <2>1, <2>2, <2>3
<1>8. CASE UNCHANGED vars
  BY <1>8 DEF vars
<1>9. QED
  BY <1>1, <1>2, <1>3, <1>4, <1>5, <1>6, <1>7, <1>8 DEF Next

(* The picture on the player is never that of another track than the title *)
(* shown with it: for any number of tracks, however late artwork threads   *)
(* deliver, and whatever starts while a picture waits in the queue.        *)
THEOREM DeviceArtwork == Spec => ArtworkMatchesText
<1>1. TypeInv /\ MetaInv /\ [Next]_vars
        => [raop'.art # raop.art => raop'.art = raop.text]_vars
  <2> SUFFICES ASSUME TypeInv, MetaInv, Next, raop'.art # raop.art
               PROVE  raop'.art = raop.text
    BY DEF vars
  <2> USE DEF TypeInv, TypeOK
  <2>1. CASE ExecuteArtwork
    <3>1. /\ player.pc = "execute" /\ dev.metaHash = player.hand.arg
          /\ raop'.art = player.hand.arg
      BY <2>1 DEF ExecuteArtwork, Holding, At, Clients
    <3>2. player.hand.arg \in Tracks
      BY <2>1, RequestArgs DEF ExecuteArtwork, Holding, Players, NoReq, Req
    <3>3. QED
      BY <3>1, <3>2, DeviceAssumption DEF MetaInv
  <2>2. CASE ~ExecuteArtwork
    <3>1. raop'.art = raop.art
      <4> USE DEF Clients
      <4>1. CASE Callback
        BY <4>1 DEF Callback, PowerOn, PowerOff, Finished, Halt, Unpause, Connect,
                    Started, MetaSend, LmsVolume, SetVolume
      <4>2. CASE Remote
        BY <4>2 DEF Remote, PreventPlayback, Busy, Feedback
      <4>3. CASE PlayerThread
        BY <2>2, <4>3
        DEF PlayerThread, ThreadStart, GetRequest, Wake, LookAtStatus, PutBack,
            GiveUp, IdleTick, Release, CheckSane, CountDown, FetchMetadata,
            CompareHash, StoreHash, ExecuteConnect, Connected, ExecuteFlush,
            ExecuteOff, ExecuteVolume
      <4>4. CASE ArtworkFetched \/ Delete \/ Deleted \/ LmsMode \/ Break \/ Tick
        BY <4>4 DEF ArtworkFetched, Delete, Deleted, LmsMode, Break, Tick
      <4>5. QED
        BY <4>1, <4>2, <4>3, <4>4 DEF Next
    <3>2. QED
      BY <3>1
  <2>3. QED
    BY <2>1, <2>2
<1>2. QED
  BY <1>1, InitTyped, TypedStep, InitMeta, MetaStep, PTL DEF Spec, ArtworkMatchesText

-----------------------------------------------------------------------------
(***************************************************************************)
(* The last request of a kind.  LastOf: the last request of the kind still *)
(* queued is the one that is wanted; with none queued it is the one in     *)
(* hand, and with none in hand it has been done.                           *)
(***************************************************************************)
LastOf(kind, q, hand, wanted, done) ==
  /\ \A i \in DOMAIN q :
       q[i] \in kind /\ (\A j \in DOMAIN q : j > i => q[j] \notin kind)
         => q[i] = wanted
  /\ (\A i \in DOMAIN q : q[i] \notin kind) =>
       IF hand \in kind THEN hand = wanted ELSE done = wanted

(* A request of the kind goes to the end of the queue and is the last. *)
LEMMA LastQueued ==
  ASSUME NEW kind \in SUBSET Requests,
         NEW q \in Seq(Requests), NEW req \in kind, NEW hand, NEW done
  PROVE  LastOf(kind, Append(q, req), hand, req, done)
<1> DEFINE q2 == Append(q, req)
<1>1. q2[Len(q) + 1] = req /\ DOMAIN q2 = 1..Len(q) + 1 /\ Len(q) \in Nat
  BY RequestKinds
<1>2. ASSUME NEW i \in DOMAIN q2, q2[i] \in kind,
             \A j \in DOMAIN q2 : j > i => q2[j] \notin kind
      PROVE  q2[i] = req
  <2>1. i = Len(q) + 1
    BY <1>1, <1>2
  <2>2. QED
    BY <1>1, <2>1
<1>3. ~(\A i \in DOMAIN q2 : q2[i] \notin kind)
  BY <1>1
<1>4. QED
  BY <1>2, <1>3 DEF LastOf

(* Any other request at the end of the queue changes nothing. *)
LEMMA LastAside ==
  ASSUME NEW kind \in SUBSET Requests,
         NEW q \in Seq(Requests), NEW req \in Requests \ kind,
         NEW hand, NEW wanted, NEW done, LastOf(kind, q, hand, wanted, done)
  PROVE  LastOf(kind, Append(q, req), hand, wanted, done)
<1> DEFINE q2 == Append(q, req)
<1>1. /\ q2[Len(q) + 1] = req /\ DOMAIN q2 = 1..Len(q) + 1 /\ Len(q) \in Nat
      /\ DOMAIN q = 1..Len(q)
      /\ \A i \in 1..Len(q) : q2[i] = q[i]
  OBVIOUS
<1> HIDE DEF q2
<1>2. ASSUME NEW i \in DOMAIN q2, q2[i] \in kind,
             \A j \in DOMAIN q2 : j > i => q2[j] \notin kind
      PROVE  q2[i] = wanted
  <2>1. i \in DOMAIN q /\ q2[i] = q[i]
    BY <1>1, <1>2
  <2>2. \A j \in DOMAIN q : j > i => q[j] \notin kind
    BY <1>1, <1>2
  <2>3. QED
    BY <1>2, <2>1, <2>2 DEF LastOf
<1>3. ASSUME \A i \in DOMAIN q2 : q2[i] \notin kind
      PROVE  IF hand \in kind THEN hand = wanted ELSE done = wanted
  <2>1. \A i \in DOMAIN q : q[i] \notin kind
    BY <1>1, <1>3
  <2>2. QED
    BY <2>1 DEF LastOf
<1>4. QED
  BY <1>2, <1>3 DEF LastOf, q2

(* Taking the head of the queue in an empty hand. *)
LEMMA LastTaken ==
  ASSUME NEW kind \in SUBSET Requests,
         NEW q \in Seq(Requests), q # << >>, NEW wanted, NEW done,
         LastOf(kind, q, NoReq, wanted, done)
  PROVE  LastOf(kind, Tail(q), Head(q), wanted, done)
<1> DEFINE q2 == Tail(q)
<1>1. /\ Len(q) \in Nat \ {0} /\ DOMAIN q = 1..Len(q)
      /\ DOMAIN q2 = 1..Len(q) - 1
      /\ \A i \in DOMAIN q2 : q2[i] = q[i + 1]
      /\ Head(q) = q[1]
  OBVIOUS
<1>2. NoReq \notin kind
  BY RequestKinds
<1> HIDE DEF q2
<1>3. ASSUME NEW i \in DOMAIN q2, q2[i] \in kind,
             \A j \in DOMAIN q2 : j > i => q2[j] \notin kind
      PROVE  q2[i] = wanted
  <2>1. i + 1 \in DOMAIN q /\ q[i + 1] = q2[i]
    BY <1>1, <1>3
  <2>2. ASSUME NEW j \in DOMAIN q, j > i + 1 PROVE q[j] \notin kind
    <3>1. j - 1 \in DOMAIN q2 /\ j - 1 > i
      BY <1>1, <1>3, <2>2
    <3>2. q2[j - 1] = q[j]
      BY <1>1, <3>1
    <3>3. QED
      BY <1>3, <3>1, <3>2
  <2>3. QED
    BY <1>3, <2>1, <2>2 DEF LastOf
<1>4. ASSUME \A i \in DOMAIN q2 : q2[i] \notin kind
      PROVE  IF Head(q) \in kind THEN Head(q) = wanted ELSE done = wanted
  <2>1. \A j \in DOMAIN q : j > 1 => q[j] \notin kind
    <3>1. ASSUME NEW j \in DOMAIN q, j > 1 PROVE q[j] \notin kind
      <4>1. j - 1 \in DOMAIN q2 /\ q2[j - 1] = q[j]
        BY <1>1, <3>1
      <4>2. QED
        BY <1>4, <4>1
    <3>2. QED
      BY <3>1
  <2>2. 1 \in DOMAIN q
    BY <1>1
  <2>3. CASE Head(q) \in kind
    BY <1>1, <2>1, <2>2, <2>3 DEF LastOf
  <2>4. CASE Head(q) \notin kind
    <3>1. \A j \in DOMAIN q : q[j] \notin kind
      BY <1>1, <2>1, <2>4
    <3>2. QED
      BY <1>2, <2>4, <3>1 DEF LastOf
  <2>5. QED
    BY <2>3, <2>4
<1>5. QED
  BY <1>3, <1>4 DEF LastOf, q2

(* Putting the request in hand back at the head of the queue. *)
LEMMA LastPutBack ==
  ASSUME NEW kind \in SUBSET Requests,
         NEW q \in Seq(Requests), NEW hand \in Requests, NEW wanted, NEW done,
         LastOf(kind, q, hand, wanted, done)
  PROVE  LastOf(kind, <<hand>> \o q, NoReq, wanted, done)
<1> DEFINE q2 == <<hand>> \o q
<1>1. /\ Len(q) \in Nat /\ DOMAIN q = 1..Len(q)
      /\ DOMAIN q2 = 1..Len(q) + 1
      /\ q2[1] = hand
      /\ \A i \in DOMAIN q : q2[i + 1] = q[i]
  OBVIOUS
<1>2. NoReq \notin kind
  BY RequestKinds
<1> HIDE DEF q2
<1>3. ASSUME NEW i \in DOMAIN q2, q2[i] \in kind,
             \A j \in DOMAIN q2 : j > i => q2[j] \notin kind
      PROVE  q2[i] = wanted
  <2>1. CASE i = 1
    <3>1. \A j \in DOMAIN q : q[j] \notin kind
      <4>1. ASSUME NEW j \in DOMAIN q PROVE q[j] \notin kind
        <5>1. j + 1 \in DOMAIN q2 /\ j + 1 > i /\ q2[j + 1] = q[j]
          BY <1>1, <2>1
        <5>2. QED
          BY <1>3, <5>1
      <4>2. QED
        BY <4>1
    <3>2. QED
      BY <1>1, <1>3, <2>1, <3>1 DEF LastOf
  <2>2. CASE i # 1
    <3>1. i - 1 \in DOMAIN q /\ q2[i] = q[i - 1]
      BY <1>1, <2>2
    <3>2. ASSUME NEW j \in DOMAIN q, j > i - 1 PROVE q[j] \notin kind
      <4>1. j + 1 \in DOMAIN q2 /\ j + 1 > i /\ q2[j + 1] = q[j]
        BY <1>1, <3>2
      <4>2. QED
        BY <1>3, <4>1
    <3>3. QED
      BY <1>3, <3>1, <3>2 DEF LastOf
  <2>3. QED
    BY <2>1, <2>2
<1>4. ASSUME \A i \in DOMAIN q2 : q2[i] \notin kind
      PROVE  done = wanted
  <2>1. \A j \in DOMAIN q : q[j] \notin kind
    <3>1. ASSUME NEW j \in DOMAIN q PROVE q[j] \notin kind
      <4>1. j + 1 \in DOMAIN q2 /\ q2[j + 1] = q[j]
        BY <1>1
      <4>2. QED
        BY <1>4, <4>1
    <3>2. QED
      BY <3>1
  <2>2. hand \notin kind
    BY <1>1, <1>4
  <2>3. QED
    BY <2>1, <2>2 DEF LastOf
<1>5. QED
  BY <1>2, <1>3, <1>4 DEF LastOf, q2

(* Carrying out the request in hand, of the kind or not. *)
LEMMA LastServed ==
  ASSUME NEW kind \in SUBSET Requests,
         NEW q, NEW hand, NEW wanted, NEW done, LastOf(kind, q, hand, wanted, done)
  PROVE  /\ hand \in kind => LastOf(kind, q, NoReq, wanted, hand)
         /\ hand \notin kind => LastOf(kind, q, NoReq, wanted, done)
BY RequestKinds DEF LastOf

-----------------------------------------------------------------------------
(***************************************************************************)
(* Session requests.  LastAsked: the last one LMS made is the last one in  *)
(* the queue, in hand, or carried out.  HandOK says where PlayerThread     *)
(* holds a request, so that taking one never overwrites another.           *)
(***************************************************************************)
LastAsked ==
  LastOf(Plain, queue, player.hand, Req(session.wanted, 0), Req(session.done, 0))

HandOK ==
  /\ player.hand # NoReq =>
       player.pc \in {"got", "putBack", "giveUp", "execute", "connected"}
  /\ player.pc = "connected" =>
       player.hand = Req("CONNECT", 0) /\ session.done = "CONNECT"

SessionInv ==
  HandOK /\ (dev.deleted = "no" /\ ~session.dropped => LastAsked)

(* A session request is its type. *)
LEMMA PlainReq == \A r \in Plain : r = Req(r.type, 0)
BY DEF Plain, Req

LEMMA InitSession == Init => SessionInv
BY RequestKinds DEF Init, SessionInv, HandOK, LastAsked, LastOf

(* What LMS, the player and the artwork threads do.                        *)
Asides ==
  /\ UNCHANGED <<player, session>>
  /\ dev'.deleted = "no" => dev.deleted = "no"
  /\ \/ queue' = queue
     \/ \E req \in Requests \ Plain : queue' = Append(queue, req)

LEMMA AsideKeeps == TypeInv /\ SessionInv /\ Asides => SessionInv'
<1> SUFFICES ASSUME TypeInv, SessionInv, Asides PROVE SessionInv'
  OBVIOUS
<1> USE DEF SessionInv, Asides
<1>1. HandOK'
  BY DEF HandOK
<1>2. ASSUME dev'.deleted = "no", ~session'.dropped PROVE LastAsked'
  <2>1. LastAsked
    BY <1>2
  <2>2. CASE queue' = queue
    BY <2>1, <2>2 DEF LastAsked
  <2>3. ASSUME NEW req \in Requests \ Plain, queue' = Append(queue, req)
        PROVE  LastAsked'
    BY <2>1, <2>3, LastAside, RequestKinds DEF LastAsked, TypeInv, TypeOK
  <2>4. QED
    BY <2>2, <2>3
<1>3. QED
  BY <1>1, <1>2

(* A session request is made: it is queued last, or alone.                 *)
Asks ==
  \E req \in Plain, q \in Seq(Requests) :
    /\ queue' = Append(q, req)
    /\ session' = [session EXCEPT !.wanted = req.type, !.dropped = FALSE]
    /\ UNCHANGED player

LEMMA AskKeeps == TypeInv /\ SessionInv /\ Asks => SessionInv'
<1> SUFFICES ASSUME TypeInv, SessionInv, Asks PROVE SessionInv'
  OBVIOUS
<1>1. PICK req \in Plain, q \in Seq(Requests) :
        /\ queue' = Append(q, req)
        /\ session' = [session EXCEPT !.wanted = req.type, !.dropped = FALSE]
        /\ UNCHANGED player
  BY DEF Asks
<1>2. session'.wanted = req.type /\ session'.done = session.done
  BY <1>1 DEF TypeInv, TypeOK, Sessions
<1>3. LastAsked'
  BY <1>1, <1>2, LastQueued, PlainReq, RequestKinds DEF LastAsked
<1>4. HandOK'
  BY <1>1, <1>2 DEF SessionInv, HandOK
<1>5. QED
  BY <1>3, <1>4 DEF SessionInv

LEMMA CallbackKeeps == TypeInv /\ SessionInv /\ Callback => Asides \/ Asks
<1> SUFFICES ASSUME TypeInv, SessionInv, Callback PROVE Asides \/ Asks
  OBVIOUS
<1> USE RequestKinds DEF TypeInv, TypeOK
<1>1. CASE PowerOn \/ Finished
  BY <1>1 DEF PowerOn, Finished, Asides, Devices
<1>2. CASE PowerOff
  <2>1. queue' = Append(<< >>, Req("OFF", 0)) /\ << >> \in Seq(Requests)
    BY <1>2 DEF PowerOff
  <2>2. QED
    BY <1>2, <2>1 DEF PowerOff, Want, Asks, Req
<1>3. CASE Unpause \/ Connect
  BY <1>3 DEF Unpause, Connect, Want, Push, Asks, Req
<1>4. ASSUME NEW mode \in {"STOP", "PAUSE"}, Halt(mode) PROVE Asks
  BY <1>4 DEF Halt, Want, Push, Asks, Req
<1>5. ASSUME NEW track \in Tracks, Started(track) \/ MetaSend(track) PROVE Asides
  BY <1>5 DEF Started, MetaSend, Asides, Devices
<1>6. ASSUME NEW level \in Levels, SetVolume(level) PROVE Asides
  <2>1. dev'.deleted = dev.deleted
    BY <1>6 DEF SetVolume, Devices
  <2>2. queue' = queue \/ queue' = Append(queue, Req("VOLUME", level))
    BY <1>6 DEF SetVolume, Push
  <2>3. QED
    BY <1>6, <2>1, <2>2 DEF Asides, SetVolume
<1>7. CASE LmsVolume
  <2>1. lms.askedVolume # << >> => Head(lms.askedVolume) \in Levels
    <3>1. lms.askedVolume \in Seq(Levels)
      BY DEF Servers
    <3>2. QED
      BY <3>1
  <2>2. QED
    BY <1>6, <1>7, <2>1 DEF LmsVolume
<1>8. QED
  BY <1>1, <1>2, <1>3, <1>4, <1>5, <1>7 DEF Callback

LEMMA RemoteKeeps == TypeInv /\ SessionInv /\ Remote => Asides
<1> SUFFICES ASSUME TypeInv, SessionInv, Remote PROVE Asides
  OBVIOUS
<1> USE DEF TypeInv, TypeOK, Asides
<1>1. ASSUME NEW b \in BOOLEAN, PreventPlayback(b) \/ Busy(b) PROVE Asides
  BY <1>1 DEF PreventPlayback, Busy, Devices
<1>2. ASSUME NEW level \in Levels, Feedback(level) PROVE Asides
  <2>1. dev'.deleted = dev.deleted
    BY <1>2 DEF Feedback, Devices
  <2>2. queue' = queue \/ queue' = Append(queue, Req("VOLUME", level))
    BY <1>2 DEF Feedback, Push
  <2>3. QED
    BY <1>2, <2>1, <2>2, RequestKinds DEF Feedback
<1>3. QED
  BY <1>1, <1>2 DEF Remote

(* Steps of PlayerThread without a request: the hand is empty before and   *)
(* after.                                                                  *)
LEMMA IdleKeeps ==
  ASSUME TypeInv, SessionInv, queue' = queue, session' = session,
         player.hand = NoReq, player'.hand = NoReq, player'.pc # "connected",
         dev'.deleted = dev.deleted
  PROVE  SessionInv'
BY DEF SessionInv, HandOK, LastAsked

LEMMA PlayerKeeps == TypeInv /\ SessionInv /\ PlayerThread => SessionInv'
<1> SUFFICES ASSUME TypeInv, SessionInv, PlayerThread PROVE SessionInv'
  OBVIOUS
<1> USE DEF TypeInv, TypeOK, At, Goto, Players, Devices
<1>1. CASE ThreadStart \/ Wake \/ IdleTick \/ Release \/ CheckSane \/ CountDown
           \/ FetchMetadata \/ CompareHash \/ StoreHash
  <2>1. /\ queue' = queue /\ session' = session /\ dev'.deleted = dev.deleted
        /\ player.pc \in {"start", "wait", "idle", "release", "sane", "meta", "fetch",
                          "compare", "store"}
        /\ player'.pc # "connected"
        /\ player'.hand \in {player.hand, NoReq}
    <3>1. CASE ThreadStart \/ Wake
      BY <3>1 DEF ThreadStart, Wake
    <3>2. CASE IdleTick \/ Release
      BY <3>2 DEF IdleTick, Release
    <3>3. CASE CheckSane \/ CountDown
      BY <3>3 DEF CheckSane, CountDown
    <3>4. CASE FetchMetadata
      BY <3>4 DEF FetchMetadata
    <3>5. CASE CompareHash \/ StoreHash
      BY <3>5 DEF CompareHash, StoreHash
    <3>6. QED
      BY <1>1, <3>1, <3>2, <3>3, <3>4, <3>5
  <2>2. player.hand = NoReq
    BY <2>1 DEF SessionInv, HandOK
  <2>3. QED
    BY <2>1, <2>2, IdleKeeps
<1>2. CASE GetRequest
  <2>1. player.hand = NoReq
    BY <1>2 DEF GetRequest, SessionInv, HandOK
  <2>2. CASE dev.running /\ queue # << >>
    <3>1. /\ player'.hand = Head(queue) /\ player'.pc = "got"
          /\ queue' = Tail(queue) /\ UNCHANGED <<dev, session>>
      BY <1>2, <2>2 DEF GetRequest
    <3>2. QED
      BY <2>1, <2>2, <3>1, LastTaken, RequestKinds DEF SessionInv, HandOK, LastAsked
  <2>3. CASE ~(dev.running /\ queue # << >>)
    <3>1. /\ queue' = queue /\ UNCHANGED <<dev, session>>
          /\ player'.hand = player.hand /\ player'.pc # "connected"
      BY <1>2, <2>3 DEF GetRequest
    <3>2. QED
      BY <2>1, <3>1, IdleKeeps
  <2>4. QED
    BY <2>2, <2>3
<1>3. CASE LookAtStatus
  <2>1. /\ UNCHANGED <<dev, queue, session>> /\ player'.hand = player.hand
        /\ player'.pc \in {"giveUp", "putBack", "idle", "execute"}
        /\ player'.pc = "idle" => player.hand = NoReq
    BY <1>3 DEF LookAtStatus
  <2>2. QED
    BY <2>1 DEF SessionInv, HandOK, LastAsked
<1>4. CASE PutBack
  <2>1. /\ UNCHANGED <<dev, session>> /\ player'.hand = NoReq /\ player'.pc = "get"
        /\ queue' = IF player.hand = NoReq THEN queue ELSE <<player.hand>> \o queue
    BY <1>4 DEF PutBack
  <2>2. CASE player.hand = NoReq
    BY <2>1, <2>2, IdleKeeps
  <2>3. CASE player.hand \in Requests /\ player.hand # NoReq
    <3>1. ASSUME LastAsked PROVE LastAsked'
      BY <2>1, <2>3, <3>1, LastPutBack, RequestKinds DEF LastAsked
    <3>2. QED
      BY <2>1, <3>1 DEF SessionInv, HandOK
  <2>4. QED
    BY <2>2, <2>3
<1>5. CASE GiveUp
  <2>1. /\ UNCHANGED <<dev, queue>> /\ player'.hand = NoReq /\ player'.pc = "get"
        /\ session'.dropped = (session.dropped \/ player.hand \in Plain)
        /\ session'.wanted = session.wanted /\ session'.done = session.done
    BY <1>5 DEF GiveUp, Sessions
  <2>2. ASSUME ~session'.dropped, LastAsked PROVE LastAsked'
    BY <2>1, <2>2, LastServed, PlainReq, RequestKinds DEF LastAsked
  <2>3. QED
    BY <2>1, <2>2 DEF SessionInv, HandOK
<1>6. CASE ExecuteConnect
  <2>1. player.hand = Req("CONNECT", 0)
    BY <1>6 DEF ExecuteConnect, Holding, Requests, Plain, Req, NoReq
  <2>2. /\ UNCHANGED <<dev, queue>> /\ session'.done = "CONNECT"
        /\ session'.wanted = session.wanted /\ session'.dropped = session.dropped
        /\ \/ player'.hand = player.hand /\ player'.pc = "connected"
           \/ player'.hand = NoReq /\ player'.pc = "get"
    BY <1>6 DEF ExecuteConnect, Done, Served, Sessions
  <2>3. player.hand \in Plain /\ player.hand.type = "CONNECT"
    BY <2>1, RequestKinds DEF Req
  <2>4. ASSUME LastAsked PROVE LastAsked'
    <3>1. CASE player'.hand = NoReq
      BY <2>2, <2>3, <2>4, <3>1, LastServed, PlainReq, RequestKinds DEF LastAsked
    <3>2. CASE player'.hand = player.hand
      BY <2>2, <2>3, <2>4, <3>2, PlainReq DEF LastAsked, LastOf
    <3>3. QED
      BY <2>2, <3>1, <3>2
  <2>5. QED
    BY <2>1, <2>2, <2>4 DEF SessionInv, HandOK
<1>7. CASE Connected
  <2>1. player.hand = Req("CONNECT", 0) /\ session.done = "CONNECT"
    BY <1>7 DEF Connected, SessionInv, HandOK
  <2>2. player.hand \in Plain /\ player.hand.type = session.done
    BY <2>1, RequestKinds DEF Req
  <2>3. /\ UNCHANGED <<queue, session>> /\ dev'.deleted = dev.deleted
        /\ player'.hand = NoReq /\ player'.pc = "get"
    BY <1>7 DEF Connected, Served
  <2>4. ASSUME LastAsked PROVE LastAsked'
    BY <2>2, <2>3, <2>4, LastServed, PlainReq, RequestKinds DEF LastAsked
  <2>5. QED
    BY <2>3, <2>4 DEF SessionInv, HandOK
<1>8. CASE ExecuteFlush \/ ExecuteOff
  <2>1. player.hand \in Plain
    BY <1>8 DEF ExecuteFlush, ExecuteOff, Holding, Requests, Plain, Req, NoReq
  <2>2. /\ queue' = queue /\ dev'.deleted = dev.deleted
        /\ session'.done = player.hand.type
        /\ session'.wanted = session.wanted /\ session'.dropped = session.dropped
        /\ player'.hand = NoReq /\ player'.pc = "get"
    BY <1>8 DEF ExecuteFlush, ExecuteOff, Holding, Done, Served, Sessions
  <2>3. ASSUME LastAsked PROVE LastAsked'
    BY <2>1, <2>2, <2>3, LastServed, PlainReq, RequestKinds DEF LastAsked
  <2>4. QED
    BY <2>2, <2>3 DEF SessionInv, HandOK
<1>9. CASE ExecuteVolume \/ ExecuteArtwork
  <2>1. player.hand \notin Plain
    BY <1>9 DEF ExecuteVolume, ExecuteArtwork, Holding, Plain, Req
  <2>2. /\ UNCHANGED <<dev, queue, session>>
        /\ player'.hand = NoReq /\ player'.pc = "get"
    BY <1>9 DEF ExecuteVolume, ExecuteArtwork, Served
  <2>3. ASSUME LastAsked PROVE LastAsked'
    BY <2>1, <2>2, <2>3, LastServed, PlainReq, RequestKinds DEF LastAsked
  <2>4. QED
    BY <2>2, <2>3 DEF SessionInv, HandOK
<1>10. QED
  BY <1>1, <1>2, <1>3, <1>4, <1>5, <1>6, <1>7, <1>8, <1>9 DEF PlayerThread

LEMMA SessionStep == TypeInv /\ SessionInv /\ [Next]_vars => SessionInv'
<1> SUFFICES ASSUME TypeInv, SessionInv, [Next]_vars PROVE SessionInv'
  OBVIOUS
<1>1. CASE Callback \/ Remote
  BY <1>1, CallbackKeeps, RemoteKeeps, AsideKeeps, AskKeeps
<1>2. CASE PlayerThread
  BY <1>2, PlayerKeeps
<1>3. CASE ArtworkFetched
  <2>1. Asides
    BY <1>3, RequestKinds DEF ArtworkFetched, Push, Asides, TypeInv, TypeOK
  <2>2. QED
    BY <2>1, AsideKeeps
<1>4. CASE LmsMode \/ Break \/ UNCHANGED vars
  <2>1. Asides
    BY <1>4 DEF LmsMode, Break, vars, Asides
  <2>2. QED
    BY <2>1, AsideKeeps
<1>5. CASE Delete \/ Deleted
  BY <1>5 DEF Delete, Deleted, SessionInv, HandOK, TypeInv, TypeOK, Devices
<1>6. CASE Tick
  <2>1. /\ UNCHANGED <<queue, session>> /\ dev'.deleted = dev.deleted
        /\ player'.pc = player.pc /\ player'.hand = player.hand
    BY <1>6 DEF Tick, TypeInv, TypeOK, Devices, Players
  <2>2. QED
    BY <2>1 DEF SessionInv, HandOK, LastAsked
<1>7. QED
  BY <1>1, <1>2, <1>3, <1>4, <1>5, <1>6 DEF Next

(* Whatever the interleaving of LMS orders with PlayerThread, and however  *)
(* often "prevent playback" makes it put a request back, a device with     *)
(* nothing left to do has carried out the last session request of LMS,     *)
(* unless that one was dropped by GiveUp.                                  *)
THEOREM DeviceSession == Spec => []SessionApplied
<1>1. SessionInv => SessionApplied
  <2> SUFFICES ASSUME SessionInv, dev.deleted = "no", ~session.dropped, ~Pending(Plain)
               PROVE  session.done = session.wanted
    BY DEF SessionApplied
  <2>1. player.hand \notin Plain /\ \A i \in DOMAIN queue : queue[i] \notin Plain
    BY DEF Pending
  <2>2. Req(session.done, 0) = Req(session.wanted, 0)
    BY <2>1 DEF SessionInv, LastAsked, LastOf
  <2>3. QED
    BY <2>2 DEF Req
<1>2. QED
  BY <1>1, InitTyped, TypedStep, InitSession, SessionStep, PTL DEF Spec
-----------------------------------------------------------------------------
(***************************************************************************)
(* Removal.  QuietInv: PlayerThread only ends once the device is no longer *)
(* running, and a device that is gone has an ended thread, nothing queued  *)
(* and no connection.                                                      *)
(***************************************************************************)
QuietInv ==
  /\ player.pc = "exit" => ~dev.running
  /\ dev.deleted = "gone" => player.pc = "exit" /\ queue = << >> /\ ~raop.connected

(* Nothing reaches a device that is gone, or ends a thread of one that     *)
(* runs.                                                                   *)
LEMMA QuietStep == TypeInv /\ QuietInv /\ [Next]_vars => QuietInv'
<1> SUFFICES ASSUME TypeInv, QuietInv, [Next]_vars PROVE QuietInv'
  OBVIOUS
<1>1. /\ dev \in Devices /\ player \in Players /\ raop \in Clients
      /\ queue \in Seq(Requests)
  BY DEF TypeInv, TypeOK
(* A callback or a remote command comes to a device that runs, which is    *)
(* therefore not gone, and only ever leaves it running.                    *)
<1>2. CASE Callback \/ Remote
  <2>1. dev.running /\ player' = player /\ dev'.deleted = dev.deleted
    <3> USE <1>1 DEF Order, Command, Devices
    <3>1. CASE PowerOn \/ PowerOff \/ Finished \/ Unpause \/ Connect
      BY <3>1 DEF PowerOn, PowerOff, Finished, Unpause, Connect
    <3>2. CASE LmsVolume
      BY <3>2 DEF LmsVolume, SetVolume
    <3>3. CASE \E mode \in {"STOP", "PAUSE"} : Halt(mode)
      BY <3>3 DEF Halt
    <3>4. CASE \E track \in Tracks : Started(track) \/ MetaSend(track)
      BY <3>4 DEF Started, MetaSend
    <3>5. CASE \E b \in BOOLEAN : PreventPlayback(b) \/ Busy(b)
      BY <3>5 DEF PreventPlayback, Busy
    <3>6. CASE \E level \in Levels : Feedback(level)
      BY <3>6 DEF Feedback
    <3>7. QED
      BY <1>2, <3>1, <3>2, <3>3, <3>4, <3>5, <3>6 DEF Callback, Remote
  <2>2. QED
    BY <2>1 DEF QuietInv
<1>3. CASE PlayerThread
  <2>1. player.pc # "exit" /\ dev'.deleted = dev.deleted
    <3> USE <1>1 DEF At, Devices, Players
    <3>1. CASE ThreadStart \/ GetRequest \/ Wake \/ LookAtStatus \/ PutBack \/ GiveUp
      BY <3>1 DEF ThreadStart, GetRequest, Wake, LookAtStatus, PutBack, GiveUp
    <3>2. CASE IdleTick \/ Release \/ CheckSane \/ CountDown \/ FetchMetadata
               \/ CompareHash \/ StoreHash
      BY <3>2 DEF IdleTick, Release, CheckSane, CountDown, FetchMetadata,
                  CompareHash, StoreHash
    <3>3. CASE ExecuteConnect \/ Connected \/ ExecuteFlush \/ ExecuteOff
               \/ ExecuteVolume \/ ExecuteArtwork
      BY <3>3 DEF ExecuteConnect, Connected, ExecuteFlush, ExecuteOff,
                  ExecuteVolume, ExecuteArtwork, Holding
    <3>4. QED
      BY <1>3, <3>1, <3>2, <3>3 DEF PlayerThread
  <2>2. CASE GetRequest
    <3>1. dev' = dev
      BY <2>2 DEF GetRequest
    <3>2. CASE ~dev.running
      BY <2>1, <3>1, <3>2 DEF QuietInv
    <3>3. CASE dev.running
      <4>1. player'.pc # "exit"
        BY <1>1, <2>2, <3>3 DEF GetRequest, At, Goto, Players, Devices
      <4>2. QED
        BY <2>1, <3>1, <4>1 DEF QuietInv
    <3>4. QED
      BY <3>2, <3>3
  <2>3. CASE ~GetRequest
    <3>1. player'.pc # "exit"
      <4> USE <1>1 DEF At, Goto, Players
      <4>1. CASE ThreadStart \/ Wake \/ LookAtStatus \/ PutBack \/ GiveUp
        BY <4>1 DEF ThreadStart, Wake, LookAtStatus, PutBack, GiveUp
      <4>2. CASE IdleTick \/ Release \/ CheckSane \/ CountDown
        BY <4>2 DEF IdleTick, Release, CheckSane, CountDown
      <4>3. CASE FetchMetadata \/ CompareHash \/ StoreHash
        BY <4>3 DEF FetchMetadata, CompareHash, StoreHash
      <4>4. CASE ExecuteConnect \/ Connected \/ ExecuteFlush \/ ExecuteOff
                 \/ ExecuteVolume \/ ExecuteArtwork
        BY <4>4 DEF ExecuteConnect, Connected, ExecuteFlush, ExecuteOff,
                    ExecuteVolume, ExecuteArtwork, Served, Holding
      <4>5. QED
        BY <1>3, <2>3, <4>1, <4>2, <4>3, <4>4 DEF PlayerThread
    <3>2. QED
      BY <2>1, <3>1 DEF QuietInv
  <2>4. QED
    BY <2>2, <2>3
(* An artwork thread looks whether the device still runs. *)
<1>4. CASE ArtworkFetched
  <2>1. UNCHANGED <<dev, player, raop>> /\ (queue' = queue \/ dev.running)
    BY <1>4 DEF ArtworkFetched
  <2>2. QED
    BY <2>1 DEF QuietInv
<1>5. CASE Delete
  <2>1. /\ UNCHANGED <<queue, player, raop>>
        /\ ~dev'.running /\ dev'.deleted = "joining"
    BY <1>1, <1>5 DEF Delete, Devices
  <2>2. QED
    BY <2>1 DEF QuietInv
<1>6. CASE Deleted
  <2>1. /\ player' = player /\ player.pc = "exit"
        /\ dev'.running = dev.running /\ queue' = << >> /\ ~raop'.connected
    BY <1>1, <1>6 DEF Deleted, At, Devices, Clients
  <2>2. QED
    BY <2>1 DEF QuietInv
<1>7. CASE LmsMode \/ Break \/ Tick \/ UNCHANGED vars
  <2>1. /\ queue' = queue /\ player'.pc = player.pc /\ dev'.running = dev.running
        /\ dev'.deleted = dev.deleted /\ raop'.connected = raop.connected
    BY <1>1, <1>7 DEF LmsMode, Break, Tick, vars, Devices, Players, Clients
  <2>2. QED
    BY <2>1 DEF QuietInv
<1>8. QED
  BY <1>2, <1>3, <1>4, <1>5, <1>6, <1>7 DEF Next

(* Whatever still runs when DelRaopDevice joins PlayerThread and cleans up *)
(* (callbacks, remote commands, artwork threads), and even if the removal  *)
(* comes before PlayerThread has started: once the device is gone nothing  *)
(* is queued for it and its connection is not opened again.                *)
THEOREM DeviceQuiet == Spec => []QuietOnceGone
<1>1. Init => QuietInv
  BY DEF Init, QuietInv
<1>2. QuietInv => QuietOnceGone
  BY DEF QuietInv, QuietOnceGone
<1>3. QED
  BY <1>1, <1>2, InitTyped, TypedStep, QuietStep, PTL DEF Spec

-----------------------------------------------------------------------------
(***************************************************************************)
(* Volumes.  Unhindered: without remote commands but "busy", without a     *)
(* breakdown and without a switch off from LMS nothing makes PlayerThread  *)
(* put a request back, drop one, or ask LMS to switch the player off.      *)
(***************************************************************************)
Volumes == {Req("VOLUME", v) : v \in Levels}

Unhindered ==
  /\ ~dev.prevent /\ raop.healthy /\ dev.sane \in {0, 1}
  /\ ~lms.askedOff /\ lms.askedVolume = << >>
  /\ player.pc \notin {"putBack", "giveUp"}

(* The last volume taken from LMS is the last one in the queue, in hand,   *)
(* or the volume of the player.                                            *)
LastVolume ==
  LastOf(Volumes, queue, player.hand, Req("VOLUME", dev.volume), Req("VOLUME", raop.volume))

VolumeInv == Unhindered /\ (dev.deleted = "no" => LastVolume)

(* Volumes are requests of a kind of their own. *)
LEMMA VolumeReq ==
  /\ Volumes \subseteq Requests
  /\ \A v \in Levels : Req("VOLUME", v) \in Volumes
  /\ \A r \in Volumes : r.type = "VOLUME" /\ r = Req("VOLUME", r.arg)
  /\ \A r \in Plain : r \notin Volumes
  /\ \A t \in Tracks : Req("ARTWORK", t) \in Requests \ Volumes
  /\ NoReq \notin Volumes
<1>1. Volumes \subseteq Requests /\ \A v \in Levels : Req("VOLUME", v) \in Volumes
  BY DEF Volumes, Requests
<1>2. \A r \in Volumes : r.type = "VOLUME" /\ r = Req("VOLUME", r.arg)
  BY DEF Volumes, Req
<1>3. \A r \in Plain : r.type # "VOLUME"
  BY DEF Plain, Req
<1>4. \A t \in Tracks : Req("ARTWORK", t) \in Requests /\ Req("ARTWORK", t).type # "VOLUME"
  BY DEF Requests, Req
<1>5. NoReq.type # "VOLUME"
  BY DEF NoReq, Req
<1>6. QED
  BY <1>1, <1>2, <1>3, <1>4, <1>5

(* Steps that leave the volumes alone: what they queue is for something    *)
(* else.                                                                   *)
VolumeAside ==
  /\ player' = player
  /\ dev'.volume = dev.volume /\ raop'.volume = raop.volume
  /\ dev'.deleted = "no" => dev.deleted = "no"
  /\ \/ queue' = queue
     \/ \E req \in Requests \ Volumes : queue' = Append(queue, req)

(* A volume taken from LMS: recorded and queued. *)
VolumeTaken ==
  /\ player' = player
  /\ dev'.volume \in Levels /\ queue' = Append(queue, Req("VOLUME", dev'.volume))

(* Such a step leaves the last volume the last one. *)
LEMMA VolumeAsideKeeps ==
  ASSUME TypeInv, dev.deleted = "no" => LastVolume, VolumeAside
  PROVE  dev'.deleted = "no" => LastVolume'
<1> SUFFICES ASSUME dev'.deleted = "no" PROVE LastVolume'
  OBVIOUS
<1> USE DEF VolumeAside
<1>1. LastVolume
  OBVIOUS
<1>2. CASE queue' = queue
  BY <1>1, <1>2 DEF LastVolume
<1>3. ASSUME NEW req \in Requests \ Volumes, queue' = Append(queue, req)
      PROVE  LastVolume'
  BY <1>1, <1>3, LastAside, VolumeReq DEF LastVolume, TypeInv, TypeOK
<1>4. QED
  BY <1>2, <1>3

(* A volume taken becomes the last one. *)
LEMMA VolumeTakenKeeps == TypeInv /\ VolumeTaken => LastVolume'
<1> SUFFICES ASSUME TypeInv, VolumeTaken PROVE LastVolume'
  OBVIOUS
<1>1. Req("VOLUME", dev'.volume) \in Volumes
  BY VolumeReq DEF VolumeTaken
<1>2. LastOf(Volumes, queue', player.hand, Req("VOLUME", dev'.volume), Req("VOLUME", raop'.volume))
  BY <1>1, LastQueued, VolumeReq DEF VolumeTaken, TypeInv, TypeOK
<1>3. QED
  BY <1>2 DEF LastVolume, VolumeTaken

(* A callback other than a switch off, ... *)
LEMMA CallbackUnhindered ==
  ASSUME TypeInv, Unhindered, Callback, "OFF" \notin Orders
  PROVE  Unhindered' /\ (VolumeAside \/ VolumeTaken)
<1>1. /\ dev \in Devices /\ lms \in Servers /\ queue \in Seq(Requests)
      /\ dev.prevent \in BOOLEAN /\ lms.askedOff = FALSE
  BY DEF TypeInv, TypeOK, Unhindered, Servers, Devices
<1> USE RequestKinds, VolumeReq
<1>2. CASE PowerOn \/ Finished
  <2>1. /\ UNCHANGED <<queue, player, raop>>
        /\ dev'.deleted = dev.deleted /\ dev'.volume = dev.volume /\ dev'.sane = dev.sane
    BY <1>1, <1>2 DEF PowerOn, Finished, Devices
  <2>2. ~dev'.prevent
    BY <1>1, <1>2 DEF PowerOn, Finished, Devices, Unhindered
  <2>3. lms'.askedOff = lms.askedOff /\ lms'.askedVolume = lms.askedVolume
    BY <1>1, <1>2 DEF PowerOn, Finished, Counted, Servers
  <2>4. QED
    BY <2>1, <2>2, <2>3 DEF Unhindered, VolumeAside
<1>3. CASE PowerOff
  BY <1>1, <1>3 DEF PowerOff, Order
<1>4. CASE Unpause \/ Connect \/ \E mode \in {"STOP", "PAUSE"} : Halt(mode)
  <2>1. /\ UNCHANGED <<player, raop>>
        /\ dev'.deleted = dev.deleted /\ dev'.volume = dev.volume /\ dev'.sane = dev.sane
        /\ dev'.prevent = dev.prevent
    BY <1>1, <1>4 DEF Unpause, Connect, Halt, Devices
  <2>2. lms'.askedOff = lms.askedOff /\ lms'.askedVolume = lms.askedVolume
    BY <1>1, <1>4 DEF Unpause, Connect, Halt, Counted, Servers
  <2>3. queue' = Append(queue, Req("CONNECT", 0)) \/ queue' = Append(queue, Req("FLUSH", 0))
    BY <1>4 DEF Unpause, Connect, Halt, Push
  <2>4. Req("CONNECT", 0) \in Requests \ Volumes /\ Req("FLUSH", 0) \in Requests \ Volumes
    OBVIOUS
  <2>5. QED
    BY <2>1, <2>2, <2>3, <2>4 DEF Unhindered, VolumeAside
<1>5. CASE \E track \in Tracks : Started(track) \/ MetaSend(track)
  <2>1. /\ UNCHANGED <<queue, player, raop>>
        /\ dev'.deleted = dev.deleted /\ dev'.volume = dev.volume /\ dev'.sane = dev.sane
        /\ dev'.prevent = dev.prevent
    BY <1>1, <1>5 DEF Started, MetaSend, Devices
  <2>2. lms'.askedOff = lms.askedOff /\ lms'.askedVolume = lms.askedVolume
    BY <1>1, <1>5 DEF Started, MetaSend, Counted, Servers
  <2>3. QED
    BY <2>1, <2>2 DEF Unhindered, VolumeAside
<1>6. CASE LmsVolume
  <2>1. PICK level \in Levels :
          Order("VOLUME") /\ SetVolume(level) /\ lms' = [Counted EXCEPT !.volume = level]
    BY <1>6 DEF LmsVolume, Unhindered
  <2>2. lms'.askedOff = lms.askedOff /\ lms'.askedVolume = lms.askedVolume
    BY <1>1, <2>1 DEF Counted, Servers
  <2>3. /\ UNCHANGED <<player, raop>>
        /\ dev'.deleted = dev.deleted /\ dev'.sane = dev.sane /\ dev'.prevent = dev.prevent
    BY <1>1, <2>1 DEF SetVolume, Devices
  <2>4. \/ queue' = queue /\ dev'.volume = dev.volume
        \/ queue' = Append(queue, Req("VOLUME", level)) /\ dev'.volume = level
    BY <1>1, <2>1 DEF SetVolume, Push, Devices
  <2>5. QED
    BY <2>2, <2>3, <2>4 DEF Unhindered, VolumeAside, VolumeTaken
<1>7. QED
  BY <1>2, <1>3, <1>4, <1>5, <1>6 DEF Callback

(* ... a "busy" report, ... *)
LEMMA RemoteUnhindered ==
  ASSUME TypeInv, Unhindered, Remote, Commands \subseteq {"BUSY"}
  PROVE  Unhindered' /\ VolumeAside
<1>1. dev \in Devices /\ lms \in Servers
  BY DEF TypeInv, TypeOK
<1>2. PICK b \in BOOLEAN : Busy(b)
  BY DEF Remote, PreventPlayback, Feedback, Command
<1>3. /\ UNCHANGED <<queue, player, raop>>
      /\ dev'.deleted = dev.deleted /\ dev'.volume = dev.volume /\ dev'.sane = dev.sane
      /\ dev'.prevent = dev.prevent
  BY <1>1, <1>2 DEF Busy, Devices
<1>4. lms'.askedOff = lms.askedOff /\ lms'.askedVolume = lms.askedVolume
  BY <1>1, <1>2 DEF Busy, Counted, Servers, Unhindered
<1>5. QED
  BY <1>3, <1>4 DEF Unhindered, VolumeAside

(* ... PlayerThread, ... *)
LEMMA PlayerUnhindered ==
  ASSUME TypeInv, SessionInv, VolumeInv, PlayerThread
  PROVE  VolumeInv'
<1>1. /\ dev \in Devices /\ player \in Players /\ raop \in Clients /\ lms \in Servers
      /\ queue \in Seq(Requests) /\ player.hand \in Requests \cup {NoReq}
  BY DEF TypeInv, TypeOK, Players
<1> USE <1>1 DEF At, Goto, Players, Devices, Clients
(* Nothing in hand, nothing queued or taken. *)
<1>2. ASSUME /\ queue' = queue /\ lms' = lms
             /\ dev'.deleted = dev.deleted /\ dev'.volume = dev.volume
             /\ dev'.prevent = dev.prevent /\ dev'.sane \in {0, 1}
             /\ raop'.volume = raop.volume /\ raop'.healthy = TRUE
             /\ player'.hand = player.hand \/ (player.hand \notin Volumes /\ player'.hand = NoReq)
             /\ player'.pc \notin {"putBack", "giveUp"}
      PROVE  VolumeInv'
  <2>1. Unhindered'
    BY <1>2 DEF VolumeInv, Unhindered
  <2>2. ASSUME LastVolume PROVE LastVolume'
    BY <1>2, <2>2, LastServed, VolumeReq DEF LastVolume
  <2>3. QED
    BY <1>2, <2>1, <2>2 DEF VolumeInv
<1>3. Unhindered
  BY DEF VolumeInv
<1>4. CASE ThreadStart \/ Wake \/ IdleTick \/ Release \/ CountDown
           \/ FetchMetadata \/ CompareHash \/ StoreHash
  <2>1. /\ queue' = queue /\ lms' = lms
        /\ dev'.deleted = dev.deleted /\ dev'.volume = dev.volume
        /\ dev'.prevent = dev.prevent /\ dev'.sane = dev.sane
        /\ raop'.volume = raop.volume /\ raop'.healthy = raop.healthy
        /\ player'.hand \in {player.hand, NoReq}
        /\ player.pc \in {"start", "wait", "idle", "release", "meta", "fetch",
                          "compare", "store"}
        /\ player'.pc \notin {"putBack", "giveUp"}
    <3>1. CASE ThreadStart
      BY <3>1 DEF ThreadStart
    <3>2. CASE Wake \/ IdleTick
      BY <3>2 DEF Wake, IdleTick
    <3>3. CASE Release
      BY <3>3 DEF Release
    <3>4. CASE CountDown
      BY <3>4 DEF CountDown
    <3>5. CASE FetchMetadata
      BY <3>5 DEF FetchMetadata
    <3>6. CASE CompareHash
      BY <3>6 DEF CompareHash
    <3>7. CASE StoreHash
      BY <3>7 DEF StoreHash
    <3>8. QED
      BY <1>4, <3>1, <3>2, <3>3, <3>4, <3>5, <3>6, <3>7
  <2>2. player.hand = NoReq
    BY <2>1 DEF SessionInv, HandOK
  <2>3. QED
    BY <1>2, <1>3, <2>1, <2>2, VolumeReq DEF Unhindered
<1>5. CASE CheckSane
  <2>1. /\ queue' = queue /\ raop' = raop
        /\ dev'.deleted = dev.deleted /\ dev'.volume = dev.volume
        /\ dev'.prevent = dev.prevent /\ player'.hand = player.hand
        /\ player'.pc \notin {"putBack", "giveUp"}
    BY <1>5 DEF CheckSane
  <2>2. dev'.sane = 0 /\ lms' = lms
    BY <1>3, <1>5 DEF CheckSane, Unhindered
  <2>3. QED
    BY <1>2, <1>3, <2>1, <2>2 DEF Unhindered
<1>6. CASE GetRequest
  <2>1. /\ UNCHANGED <<dev, raop, lms>> /\ player'.pc \notin {"putBack", "giveUp"}
    BY <1>6 DEF GetRequest
  <2>2. player.hand = NoReq
    BY <1>6 DEF GetRequest, SessionInv, HandOK
  <2>3. CASE queue' = queue /\ player'.hand = player.hand
    BY <1>2, <1>3, <2>1, <2>3 DEF Unhindered
  <2>4. CASE queue # << >> /\ queue' = Tail(queue) /\ player'.hand = Head(queue)
    <3>1. ASSUME LastVolume PROVE LastVolume'
      BY <2>1, <2>2, <2>4, <3>1, LastTaken, VolumeReq DEF LastVolume
    <3>2. QED
      BY <2>1, <3>1 DEF VolumeInv, Unhindered
  <2>5. QED
    BY <1>6, <2>3, <2>4 DEF GetRequest
<1>7. CASE LookAtStatus
  <2>1. /\ UNCHANGED <<dev, queue, raop, lms>> /\ player'.hand = player.hand
        /\ player'.pc \notin {"putBack", "giveUp"}
    BY <1>3, <1>7 DEF LookAtStatus, Unhindered
  <2>2. QED
    BY <1>2, <1>3, <2>1 DEF Unhindered
<1>8. CASE PutBack \/ GiveUp
  BY <1>3, <1>8 DEF PutBack, GiveUp, Unhindered
<1>9. CASE ExecuteConnect \/ Connected \/ ExecuteFlush \/ ExecuteOff \/ ExecuteArtwork
  <2>1. /\ queue' = queue /\ lms' = lms
        /\ dev'.deleted = dev.deleted /\ dev'.volume = dev.volume
        /\ dev'.prevent = dev.prevent /\ dev'.sane = dev.sane
        /\ raop'.volume = raop.volume /\ raop'.healthy \in {raop.healthy, TRUE}
        /\ player'.hand \in {player.hand, NoReq}
        /\ player'.pc \notin {"putBack", "giveUp"}
    <3>1. CASE ExecuteConnect
      BY <3>1 DEF ExecuteConnect, Served
    <3>2. CASE Connected
      BY <3>2 DEF Connected, Served
    <3>3. CASE ExecuteFlush
      BY <3>3 DEF ExecuteFlush, Served
    <3>4. CASE ExecuteOff
      BY <3>4 DEF ExecuteOff, Served
    <3>5. CASE ExecuteArtwork
      BY <3>5 DEF ExecuteArtwork, Served
    <3>6. QED
      BY <1>9, <3>1, <3>2, <3>3, <3>4, <3>5
  <2>2. player.hand.type # "VOLUME"
    BY <1>9 DEF ExecuteConnect, Connected, ExecuteFlush, ExecuteOff, ExecuteArtwork,
                Holding, SessionInv, HandOK, Req
  <2>3. player.hand \notin Volumes
    BY <2>2, VolumeReq
  <2>4. QED
    BY <1>2, <1>3, <2>1, <2>3 DEF Unhindered
<1>10. CASE ExecuteVolume
  <2>1. /\ UNCHANGED <<dev, queue, lms>> /\ raop'.healthy = raop.healthy
        /\ raop'.volume = player.hand.arg
        /\ player'.hand = NoReq /\ player'.pc = "get"
    BY <1>10 DEF ExecuteVolume, Served
  <2>2. player.hand \in Volumes
    BY <1>10 DEF ExecuteVolume, Holding, Requests, Plain, Volumes, Req, NoReq
  <2>3. Req("VOLUME", raop'.volume) = player.hand
    BY <2>1, <2>2, VolumeReq
  <2>4. ASSUME LastVolume PROVE LastVolume'
    BY <2>1, <2>2, <2>3, <2>4, LastServed, VolumeReq DEF LastVolume
  <2>5. QED
    BY <2>1, <2>4 DEF VolumeInv, Unhindered
<1>11. QED
  BY <1>4, <1>5, <1>6, <1>7, <1>8, <1>9, <1>10 DEF PlayerThread

(* ... and any step of the device keep the last volume. *)
LEMMA VolumeStep ==
  ASSUME "OFF" \notin Orders, Commands \subseteq {"BUSY"},
         TypeInv, SessionInv, VolumeInv, [Next]_vars
  PROVE  VolumeInv'
<1>1. /\ dev \in Devices /\ player \in Players /\ raop \in Clients /\ lms \in Servers
      /\ Unhindered
  BY DEF TypeInv, TypeOK, VolumeInv
<1>2. CASE Callback
  <2>1. Unhindered' /\ (VolumeAside \/ VolumeTaken)
    BY <1>1, <1>2, CallbackUnhindered
  <2>2. QED
    BY <2>1, VolumeAsideKeeps, VolumeTakenKeeps DEF VolumeInv
<1>3. CASE Remote
  <2>1. Unhindered' /\ VolumeAside
    BY <1>1, <1>3, RemoteUnhindered
  <2>2. QED
    BY <2>1, VolumeAsideKeeps DEF VolumeInv
<1>4. CASE PlayerThread
  BY <1>4, PlayerUnhindered
<1>5. CASE ArtworkFetched
  <2>1. VolumeAside /\ UNCHANGED <<dev, player, raop, lms>>
    BY <1>5, VolumeReq DEF ArtworkFetched, Push, VolumeAside, TypeInv, TypeOK
  <2>2. QED
    BY <1>1, <2>1, VolumeAsideKeeps DEF VolumeInv, Unhindered
<1>6. CASE Delete \/ Deleted
  <2>1. /\ dev'.deleted # "no"
        /\ dev'.prevent = dev.prevent /\ dev'.sane = dev.sane
    BY <1>1, <1>6 DEF Delete, Deleted, Devices
  <2>2. player' = player /\ lms' = lms /\ raop'.healthy = raop.healthy
    BY <1>1, <1>6 DEF Delete, Deleted, Clients
  <2>3. QED
    BY <1>1, <2>1, <2>2 DEF VolumeInv, Unhindered
<1>7. CASE LmsMode \/ Tick \/ UNCHANGED vars
  <2>1. /\ UNCHANGED <<queue, raop>>
        /\ player'.hand = player.hand /\ player'.pc = player.pc
        /\ dev'.deleted = dev.deleted /\ dev'.volume = dev.volume
        /\ dev'.prevent = dev.prevent /\ dev'.sane = dev.sane
        /\ lms'.askedOff = lms.askedOff /\ lms'.askedVolume = lms.askedVolume
    <3>1. CASE LmsMode
      BY <1>1, <3>1 DEF LmsMode, Servers
    <3>2. CASE Tick
      BY <1>1, <3>2 DEF Tick, Devices, Players
    <3>3. CASE UNCHANGED vars
      BY <3>3 DEF vars
    <3>4. QED
      BY <1>7, <3>1, <3>2, <3>3
  <2>2. QED
    BY <2>1 DEF VolumeInv, Unhindered, LastVolume
<1>8. CASE Break
  BY <1>8 DEF Break
<1>9. QED
  BY <1>2, <1>3, <1>4, <1>5, <1>6, <1>7, <1>8 DEF Next

(* The volume LMS set last was taken, or is a mute the filter may drop:    *)
(* without feedback no volume comes too early to be taken.                 *)
SetTaken ==
  /\ dev.volAge = VolumeLimit
  /\ lms.volume = dev.volume \/ (lms.volume = 0 /\ ~MuteOnPause)

LEMMA SetTakenStep ==
  ASSUME Commands \subseteq {"BUSY"}, TypeInv, Unhindered, SetTaken, [Next]_vars
  PROVE  SetTaken'
<1>1. dev \in Devices /\ lms \in Servers
  BY DEF TypeInv, TypeOK
<1>2. ASSUME dev'.volAge = dev.volAge, dev'.volume = dev.volume, lms'.volume = lms.volume
      PROVE  SetTaken'
  BY <1>2 DEF SetTaken
<1> USE <1>1 DEF Devices, Servers
<1>3. CASE LmsVolume
  <2>1. PICK level \in Levels :
          SetVolume(level) /\ lms' = [Counted EXCEPT !.volume = level]
    BY <1>3 DEF LmsVolume, Unhindered
  <2>2. lms'.volume = level
    BY <2>1 DEF Counted
  <2>3. CASE TakesVolume(level)
    <3>1. dev'.volume = level /\ dev'.volAge = dev.volAge
      BY <2>1, <2>3 DEF SetVolume
    <3>2. QED
      BY <2>2, <3>1 DEF SetTaken
  <2>4. CASE ~TakesVolume(level)
    <3>1. dev' = dev /\ level = 0 /\ ~MuteOnPause
      BY <2>1, <2>4, DeviceAssumption DEF SetVolume, TakesVolume, SetTaken, VolumeLimit
    <3>2. QED
      BY <2>2, <3>1 DEF SetTaken
  <2>5. QED
    BY <2>3, <2>4
<1>4. CASE PowerOn \/ PowerOff \/ Finished \/ Unpause \/ Connect
  <2>1. lms'.volume = lms.volume
    BY <1>4 DEF PowerOn, PowerOff, Finished, Unpause, Connect, Counted
  <2>2. dev'.volAge = dev.volAge /\ dev'.volume = dev.volume
    BY <1>4 DEF PowerOn, PowerOff, Finished, Unpause, Connect
  <2>3. QED
    BY <1>2, <2>1, <2>2
<1>5. CASE \/ \E mode \in {"STOP", "PAUSE"} : Halt(mode)
           \/ \E track \in Tracks : Started(track) \/ MetaSend(track)
  <2>1. lms'.volume = lms.volume
    BY <1>5 DEF Halt, Started, MetaSend, Counted
  <2>2. dev'.volAge = dev.volAge /\ dev'.volume = dev.volume
    BY <1>5 DEF Halt, Started, MetaSend
  <2>3. QED
    BY <1>2, <2>1, <2>2
<1>6. CASE Remote
  <2>1. PICK b \in BOOLEAN : Busy(b)
    BY <1>6 DEF Remote, PreventPlayback, Feedback, Command
  <2>2. lms'.volume = lms.volume /\ dev'.volAge = dev.volAge /\ dev'.volume = dev.volume
    BY <2>1 DEF Busy, AskOff, Counted
  <2>3. QED
    BY <1>2, <2>2
<1>7. CASE PlayerThread
  <2>1. lms'.volume = lms.volume /\ dev'.volAge = dev.volAge /\ dev'.volume = dev.volume
    <3>1. CASE ThreadStart \/ GetRequest \/ Wake \/ LookAtStatus \/ PutBack \/ GiveUp
      BY <3>1 DEF ThreadStart, GetRequest, Wake, LookAtStatus, PutBack, GiveUp, AskOff
    <3>2. CASE IdleTick \/ Release \/ CheckSane \/ CountDown \/ FetchMetadata
               \/ CompareHash \/ StoreHash
      BY <3>2 DEF IdleTick, Release, CheckSane, CountDown, FetchMetadata, CompareHash,
                  StoreHash, AskOff
    <3>3. CASE ExecuteConnect \/ Connected \/ ExecuteFlush \/ ExecuteOff \/ ExecuteVolume
               \/ ExecuteArtwork
      BY <3>3 DEF ExecuteConnect, Connected, ExecuteFlush, ExecuteOff, ExecuteVolume,
                  ExecuteArtwork, Served
    <3>4. QED
      BY <1>7, <3>1, <3>2, <3>3 DEF PlayerThread
  <2>2. QED
    BY <1>2, <2>1
<1>8. CASE Tick
  <2>1. Aged(VolumeLimit, VolumeLimit) = VolumeLimit
    BY Limits DEF Aged
  <2>2. dev'.volAge = Aged(dev.volAge, VolumeLimit) /\ dev'.volume = dev.volume /\ lms' = lms
    BY <1>8 DEF Tick
  <2>3. QED
    BY <2>1, <2>2 DEF SetTaken
<1>9. CASE ArtworkFetched \/ Delete \/ Deleted \/ LmsMode \/ Break \/ UNCHANGED vars
  <2>1. lms'.volume = lms.volume
    BY <1>9 DEF ArtworkFetched, Delete, Deleted, LmsMode, Break, vars, Counted
  <2>2. dev'.volAge = dev.volAge /\ dev'.volume = dev.volume
    BY <1>9 DEF ArtworkFetched, Delete, Deleted, LmsMode, Break, vars
  <2>3. QED
    BY <1>2, <2>1, <2>2
<1>10. QED
  BY <1>3, <1>4, <1>5, <1>6, <1>7, <1>8, <1>9 DEF Next, Callback

(* As long as LMS does not switch the device off and nothing happens on    *)
(* the player itself (but its "busy" reports), a device with no volume     *)
(* left to apply is at the volume LMS set last (squeeze2raop.c:339-358),   *)
(* whatever session requests, pictures and dropped orders came in between; *)
(* only a mute may have been dropped, if mutes are not wanted.             *)
THEOREM DeviceVolume ==
  ASSUME "OFF" \notin Orders, Commands \subseteq {"BUSY"}
  PROVE  Spec => []VolumeApplied
<1>1. Init => VolumeInv /\ SetTaken
  BY VolumeReq DEF Init, VolumeInv, Unhindered, LastVolume, LastOf, SetTaken
<1>2. TypeInv /\ SessionInv /\ VolumeInv /\ SetTaken /\ [Next]_vars => VolumeInv' /\ SetTaken'
  BY VolumeStep, SetTakenStep DEF VolumeInv
<1>3. VolumeInv /\ SetTaken => VolumeApplied
  <2> SUFFICES ASSUME VolumeInv, SetTaken, dev.deleted = "no", ~Pending(Volumes)
               PROVE  \/ raop.volume = lms.volume
                      \/ lms.volume = 0 /\ ~MuteOnPause /\ raop.volume = dev.volume
    BY DEF VolumeApplied, Volumes
  <2>1. player.hand \notin Volumes /\ \A i \in DOMAIN queue : queue[i] \notin Volumes
    BY DEF Pending
  <2>2. Req("VOLUME", raop.volume) = Req("VOLUME", dev.volume)
    BY <2>1 DEF VolumeInv, LastVolume, LastOf
  <2>3. raop.volume = dev.volume
    BY <2>2 DEF Req
  <2>4. QED
    BY <2>3 DEF SetTaken
<1>4. QED
  BY <1>1, <1>2, <1>3, InitTyped, TypedStep, InitSession, SessionStep, PTL DEF Spec
=============================================================================
