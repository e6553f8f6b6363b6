------------------------ MODULE ServerSessionProofs ------------------------
(***************************************************************************)
(* Proofs about ServerSession, for all servers, callers and questions.     *)
(***************************************************************************)
EXTENDS ServerSession, SequenceTheorems, WellFoundedInduction, TLAPS

(* What the provers are given for a leaf, in seconds. *)
USE SMTT(20), ZenonT(40)

(* A thread that asks has a question, and the history is a history. *)
AskInv ==
  /\ \A c \in Callers : asker[c].pc # "idle" => asker[c].q \in Questions
  /\ hist \in [capDue : BOOLEAN, crashed : BOOLEAN]

TypeInv == TypeOK /\ AskInv

(* Between two sessions no CLI socket is left from the last one, and once  *)
(* a server is found the two addresses of it agree.                        *)
SessionInv ==
  /\ slim.pc \notin {"run", "close"} => ~cli.inSession
  /\ slim.pc \notin DOMAIN NextOf => slim.ip = slim.addr
  /\ CliOfSession

(* A half line is of the question being asked, or of one that ended        *)
(* without its answer on this socket.  Nothing else is under way.          *)
Mine(line, c) ==
  \/ line.by = c /\ line.q = asker[c].q
  \/ line.q \in cli.lost

LateInv ==
  /\ (\A c \in Callers : asker[c].pc # "wait") => Asked(cli.wire) \subseteq cli.lost
  /\ \A c \in Callers :
       asker[c].pc = "wait" =>
         /\ \A i \in DOMAIN asker[c].got : Mine(asker[c].got[i], c)
         /\ \A i \in DOMAIN cli.wire : Mine(cli.wire[i], c)

(* Unless a question ended so on the socket, what is under way on it       *)
(* and what was received is at most the one line that answers the question *)
(* being asked.                                                            *)
Halved(c) ==
  LET line == Line(c, asker[c].q)
      got  == asker[c].got
      wire == cli.wire
  IN \/ Len(got) = 0 /\ (Len(wire) = 0 \/ (Len(wire) = 2 /\ wire[1] = line[1] /\ wire[2] = line[2]))
     \/ Len(got) = 1 /\ got[1] = line[1] /\ (Len(wire) = 0 \/ (Len(wire) = 1 /\ wire[1] = line[2]))

OwnInv ==
  /\ \A c \in Callers : asker[c].pc = "open" => Len(asker[c].got) = 0
  /\ cli.lost = {} =>
       /\ (\A c \in Callers : asker[c].pc # "wait") => Len(cli.wire) = 0
       /\ \A c \in Callers : asker[c].pc = "wait" => Halved(c)
-----------------------------------------------------------------------------
(* At first the player discovers and nobody asks. *)
LEMMA InitTyped == Init => TypeInv
BY SessionAssumption DEF Init, TypeInv, TypeOK, AskInv, Sessions, Steps, Sockets, Askings,
   NoSocket, Idle, Slim

(* The slimproto thread keeps its fields in their range. *)
LEMMA SlimTyped ==
  ASSUME TypeInv, SlimThread \/ Close
  PROVE  TypeInv'
<1> USE DEF Slim
<1>0. /\ slim \in Sessions /\ hist \in [capDue : BOOLEAN, crashed : BOOLEAN]
      /\ 0 \in 0..MaxFailed + 1 /\ 0 \in 0..DeadAfter /\ 0 \in 0..MaxWakes
      /\ slim.newServer \in Servers \cup {Nobody}
      /\ slim.timeouts + 1 <= DeadAfter => slim.timeouts + 1 \in 0..DeadAfter
      /\ slim.timeouts \in Int
  <2>1. slim \in Sessions /\ hist \in [capDue : BOOLEAN, crashed : BOOLEAN]
    BY DEF TypeInv, TypeOK, AskInv
  <2>2. slim.newServer \in Servers \cup {Nobody} /\ slim.timeouts \in 0..DeadAfter
    BY <2>1 DEF Sessions
  <2>3. QED
    BY <2>1, <2>2, SessionAssumption
<1>1. DOMAIN NextOf = {"discover", "switch", "rediscover"}
      /\ \A pc \in DOMAIN NextOf : NextOf[pc] \in {"top", "connect", "close"}
  BY DEF NextOf
<1>2. ASSUME NEW server \in Servers, Discovered(server) PROVE TypeInv'
  <2>1. slim' \in Sessions /\ slim'.pc # "run" /\ slim.pc \notin {"run", "close"}
    <3>1. NextOf[slim.pc] \in {"top", "connect", "close"}
      BY <1>1, <1>2 DEF Discovered
    <3>2. QED
      BY <1>0, <1>1, <1>2, <3>1 DEF Discovered, Sessions, Steps
  <2>2. QED
    BY <1>2, <2>1 DEF Discovered, TypeInv, TypeOK, AskInv
<1>3. CASE NotDiscovered
  <2>1. slim' \in Sessions /\ slim'.pc # "run" /\ slim.pc \notin {"run", "close"}
    <3>1. NextOf[slim.pc] \in {"top", "connect", "close"}
      BY <1>1, <1>3 DEF NotDiscovered
    <3>2. QED
      BY <1>0, <1>1, <1>3, <3>1 DEF NotDiscovered, Sessions, Steps
  <2>2. QED
    BY <1>3, <2>1 DEF NotDiscovered, TypeInv, TypeOK, AskInv
<1>4. CASE Loop
  <2>1. slim' \in Sessions /\ slim'.pc \in {"ended", "connect", "switch"} /\ slim.pc = "top"
    <3>1. \/ slim' = [slim EXCEPT !.pc = "ended"]
          \/ slim' = [slim EXCEPT !.pc = "connect"]
          \/ slim' = [slim EXCEPT !.pc = "switch", !.ip = slim.newServer,
                        !.newServer = Nobody, !.reconnect = FALSE]
      BY <1>4 DEF Loop, Goes
    <3>2. slim.pc = "top"
      BY <1>4 DEF Loop
    <3>3. CASE slim' = [slim EXCEPT !.pc = "ended"]
      BY <1>0, <3>2, <3>3 DEF Sessions, Steps
    <3>4. CASE slim' = [slim EXCEPT !.pc = "connect"]
      BY <1>0, <3>2, <3>4 DEF Sessions, Steps
    <3>5. CASE slim' = [slim EXCEPT !.pc = "switch", !.ip = slim.newServer,
                          !.newServer = Nobody, !.reconnect = FALSE]
      <4>1. slim.newServer \in Servers \cup {Nobody}
        BY <1>0 DEF Sessions
      <4>2. QED
        BY <1>0, <3>2, <3>5, <4>1 DEF Sessions, Steps
    <3>6. QED
      BY <3>1, <3>3, <3>4, <3>5
  <2>2. QED
    BY <1>4, <2>1 DEF Loop, TypeInv, TypeOK, AskInv
<1>5. CASE Connect
  <2>1. slim' \in Sessions /\ slim'.pc = "run"
    <3>1. slim' = [slim EXCEPT !.pc = "run", !.failed = 0, !.newCap = FALSE]
      BY <1>5 DEF Connect
    <3>2. QED
      BY <1>0, <3>1 DEF Sessions, Steps
  <2>2. hist' \in [capDue : BOOLEAN, crashed : BOOLEAN]
    BY <1>0, <1>5 DEF Connect
  <2>3. QED
    BY <1>5, <2>1, <2>2 DEF Connect, TypeInv, TypeOK, AskInv
<1>6. CASE ConnectFails
  <2>1. slim' \in Sessions /\ slim'.pc = "sleep" /\ slim.pc = "connect"
    BY <1>0, <1>6 DEF ConnectFails, Goes, Sessions, Steps
  <2>2. QED
    BY <1>6, <2>1 DEF ConnectFails, TypeInv, TypeOK, AskInv
<1>7. CASE Retry
  <2> DEFINE failed == IF slim.failed > MaxFailed THEN slim.failed ELSE slim.failed + 1
  <2>1. failed \in 0..MaxFailed + 1
    BY <1>0, SessionAssumption DEF Sessions
  <2>2. \/ slim' = [slim EXCEPT !.pc = "close"]
        \/ slim' = [slim EXCEPT !.pc = "rediscover", !.failed = failed, !.ip = Nobody]
        \/ slim' = [slim EXCEPT !.pc = "close", !.failed = failed]
    BY <1>7 DEF Retry, Goes
  <2> HIDE DEF failed
  <2>3. slim' \in Sessions /\ slim'.pc # "run" /\ slim.pc = "sleep"
    <3>1. slim.pc = "sleep"
      BY <1>7 DEF Retry
    <3>2. CASE slim' = [slim EXCEPT !.pc = "close"]
      BY <1>0, <3>1, <3>2 DEF Sessions, Steps
    <3>3. CASE slim' = [slim EXCEPT !.pc = "rediscover", !.failed = failed, !.ip = Nobody]
      BY <1>0, <2>1, <3>1, <3>3 DEF Sessions, Steps
    <3>4. CASE slim' = [slim EXCEPT !.pc = "close", !.failed = failed]
      BY <1>0, <2>1, <3>1, <3>4 DEF Sessions, Steps
    <3>5. QED
      BY <2>2, <3>2, <3>3, <3>4
  <2>4. QED
    BY <1>7, <2>3 DEF Retry, TypeInv, TypeOK, AskInv
<1>8. CASE Close
  <2>1. slim' \in Sessions /\ slim'.pc = "top"
    BY <1>0, <1>8 DEF Close, Sessions, Steps
  <2>2. cli' \in Sockets
    BY <1>8 DEF Close, NoSocket, Sockets
  <2>3. QED
    BY <1>8, <2>1, <2>2 DEF Close, TypeInv, TypeOK, AskInv
<1>9. CASE Silence \/ HangUp
  <2>1. slim' \in Sessions /\ slim'.pc \in {"run", "close"} /\ slim.pc = "run"
    <3>1. \/ slim' = Leaves
          \/ /\ slim.timeouts + 1 <= DeadAfter
             /\ slim' = [slim EXCEPT !.timeouts = @ + 1]
      BY <1>0, <1>9, SessionAssumption DEF Silence, HangUp
    <3>2. slim.pc = "run"
      BY <1>9 DEF Silence, HangUp, Attends
    <3>3. CASE slim' = Leaves
      <4>1. 0 \in 0..DeadAfter /\ 0 \in 0..MaxWakes
        BY SessionAssumption
      <4>2. QED
        BY <1>0, <3>2, <3>3, <4>1 DEF Leaves, Sessions, Steps
    <3>4. CASE /\ slim.timeouts + 1 <= DeadAfter
               /\ slim' = [slim EXCEPT !.timeouts = @ + 1]
      <4>1. slim.timeouts + 1 \in 0..DeadAfter
        BY <1>0, <3>4, SessionAssumption DEF Sessions
      <4>2. QED
        BY <1>0, <3>2, <3>4, <4>1 DEF Sessions, Steps
    <3>5. QED
      BY <3>1, <3>3, <3>4
  <2>2. QED
    BY <1>9, <2>1 DEF Silence, HangUp, TypeInv, TypeOK, AskInv
<1>10. QED
  BY <1>2, <1>3, <1>4, <1>5, <1>6, <1>7, <1>8, <1>9 DEF SlimThread

(* So do the messages it gets, and the end it is told of. *)
LEMMA MessageTyped ==
  ASSUME TypeInv,
         \/ Message \/ Wake \/ Stop
         \/ \E server \in Servers, cap \in Caps : Switch(server, cap)
  PROVE  TypeInv'
<1> USE DEF TypeInv, TypeOK, AskInv, Slim
<1>0. /\ 0 \in 0..DeadAfter /\ 0 \in 0..MaxWakes
      /\ slim.wakes < MaxWakes => slim.wakes + 1 \in 0..MaxWakes
  BY SessionAssumption DEF Sessions
<1>1. CASE Message \/ Wake
  <2>1. slim' \in Sessions /\ slim'.pc = "run" /\ slim.pc = "run"
    <3>1. \/ slim' = [slim EXCEPT !.timeouts = 0]
          \/ /\ slim.wakes < MaxWakes
             /\ slim' = [slim EXCEPT !.timeouts = 0, !.wakes = @ + 1]
      BY <1>1 DEF Message, Wake
    <3>2. slim \in Sessions /\ slim.pc = "run"
      BY <1>1 DEF Message, Wake, Attends
    <3>3. slim' \in Sessions
      <4>1. CASE slim' = [slim EXCEPT !.timeouts = 0]
        BY <1>0, <3>2, <4>1 DEF Sessions
      <4>2. CASE /\ slim.wakes < MaxWakes
                 /\ slim' = [slim EXCEPT !.timeouts = 0, !.wakes = @ + 1]
        BY <1>0, <3>2, <4>2 DEF Sessions
      <4>3. QED
        BY <3>1, <4>1, <4>2
    <3>4. slim'.pc = "run"
      BY <3>1, <3>2 DEF Sessions
    <3>5. QED
      BY <3>2, <3>3, <3>4
  <2>2. cli' \in Sockets
    <3>1. cli' = cli \/ cli' = NoSocket
      BY <1>1 DEF Message, Wake, CloseIdleCli
    <3>2. NoSocket \in Sockets
      BY DEF NoSocket, Sockets
    <3>3. QED
      BY <3>1, <3>2
  <2>3. UNCHANGED <<up, running, link, mutex, asker, hist>>
    BY <1>1 DEF Message, Wake
  <2>4. QED
    BY <2>1, <2>2, <2>3
<1>3. CASE Stop
  BY <1>3 DEF Stop
<1>4. ASSUME NEW server \in Servers, NEW cap \in Caps, Switch(server, cap) PROVE TypeInv'
  <2>1. cap \in BOOLEAN
    BY SessionAssumption
  <2>2. slim' \in Sessions /\ slim'.pc = "close" /\ slim.pc = "run"
    <3>1. slim' = [slim EXCEPT !.pc = "close", !.reconnect = TRUE, !.timeouts = 0,
                     !.wakes = 0, !.newServer = server, !.newCap = cap]
      BY <1>4 DEF Switch, Leaves
    <3>2. slim \in Sessions /\ slim.pc = "run"
      BY <1>4 DEF Switch, Attends
    <3>3. QED
      BY <1>0, <2>1, <3>1, <3>2 DEF Sessions, Steps
  <2>3. hist' \in [capDue : BOOLEAN, crashed : BOOLEAN]
    BY <1>4, <2>1 DEF Switch
  <2>4. QED
    BY <1>4, <2>2, <2>3 DEF Switch
<1>5. QED
  BY <1>1, <1>3, <1>4

(* The answer to a question is one line, in two halves. *)
LEMMA LineTyped ==
  ASSUME NEW c \in Callers, NEW q \in Questions
  PROVE  Line(c, q) \in Seq(HalfLines)
BY DEF Line, HalfLines

LEMMA AskedTyped ==
  ASSUME NEW lines \in Seq(HalfLines)
  PROVE  Asked(lines) \subseteq Questions
<1>1. \A i \in DOMAIN lines : lines[i] \in HalfLines
  OBVIOUS
<1>2. \A i \in DOMAIN lines : lines[i].q \in Questions
  BY <1>1 DEF HalfLines
<1>3. QED
  BY <1>2 DEF Asked

(* One thread at a time is inside cli_send_cmd. *)
LEMMA CallerTyped ==
  ASSUME TypeInv, NEW c \in Callers, Caller(c) \/ \E q \in Questions : Lock(c, q)
  PROVE  TypeInv'
<1> USE DEF TypeInv, TypeOK, AskInv
<1>1. ASSUME NEW q \in Questions, Lock(c, q) PROVE TypeInv'
  <2> DEFINE asking == [Idle EXCEPT !.pc = "open", !.q = q]
  <2>1. asking \in Askings /\ asking.pc = "open" /\ asking.q = q
    <3>1. << >> \in Seq(HalfLines)
      OBVIOUS
    <3>2. QED
      BY <3>1 DEF Idle, Askings
  <2>2. asker' = [asker EXCEPT ![c] = asking]
    BY <1>1 DEF Lock
  <2> HIDE DEF asking
  <2>3. /\ asker' \in [Callers -> Askings]
        /\ \A d \in Callers : asker'[d] = IF d = c THEN asking ELSE asker[d]
    BY <2>1, <2>2
  <2>4. mutex' = c /\ mutex = Nobody /\ UNCHANGED <<up, running, slim, link, cli, hist>>
    BY <1>1 DEF Lock
  <2>5. \A d \in Callers : (asker'[d].pc # "idle") = (mutex' = d)
    BY <2>1, <2>3, <2>4, SessionAssumption
  <2>6. QED
    BY <2>1, <2>3, <2>4, <2>5 DEF Slim
<1>2. ASSUME Returns(c), mutex = c
      PROVE  /\ asker' \in [Callers -> Askings] /\ mutex' = Nobody
             /\ \A d \in Callers : (asker'[d].pc # "idle") = (mutex' = d)
             /\ \A d \in Callers : asker'[d].pc # "idle" => asker'[d].q \in Questions
  <2>1. Idle \in Askings /\ Idle.pc = "idle"
    BY DEF Idle, Askings
  <2>2. asker' = [asker EXCEPT ![c] = Idle] /\ mutex' = Nobody
    BY <1>2 DEF Returns
  <2>3. asker' \in [Callers -> Askings]
    BY <2>1, <2>2
  <2>4. \A d \in Callers : asker'[d] = IF d = c THEN Idle ELSE asker[d]
    BY <2>2
  <2>5. \A d \in Callers : asker'[d].pc = "idle"
    BY <1>2, <2>1, <2>4
  <2>6. QED
    BY <2>2, <2>3, <2>5, SessionAssumption
<1>3. CASE Send(c)
  <2>1. asker[c].q \in Questions
    BY <1>3 DEF Send
  <2>2. cli' \in Sockets
    <3> DEFINE runs   == Slim("run")
               fresh  == [NoSocket EXCEPT !.to = slim.ip, !.peer = "up", !.inSession = runs]
               socket == IF cli.to # Nobody THEN cli ELSE fresh
               sent   == socket.wire \o Line(c, asker[c].q)
    <3>1. runs \in BOOLEAN /\ slim.ip \in Servers \cup {Nobody} /\ << >> \in Seq(HalfLines)
      BY DEF Slim, Sessions
    <3>0. cli' = IF socket.peer = "up" THEN [socket EXCEPT !.wire = sent] ELSE socket
      BY <1>3 DEF Send
    <3> HIDE DEF runs
    <3>2. fresh \in Sockets /\ socket \in Sockets
      BY <3>1 DEF NoSocket, Sockets
    <3> HIDE DEF fresh, socket
    <3>4. sent \in Seq(HalfLines)
      <4>1. socket.wire \in Seq(HalfLines)
        BY <3>2 DEF Sockets
      <4>2. QED
        BY <2>1, <4>1, LineTyped, ConcatProperties
    <3> HIDE DEF sent
    <3>5. QED
      BY <3>0, <3>2, <3>4 DEF Sockets
  <2>3. asker' = [asker EXCEPT ![c].pc = "wait"] /\ asker[c].pc = "open"
        /\ UNCHANGED <<up, running, slim, link, mutex, hist>>
    BY <1>3 DEF Send
  <2> DEFINE waiting == [asker[c] EXCEPT !.pc = "wait"]
  <2>4. waiting \in Askings /\ waiting.pc = "wait" /\ waiting.q = asker[c].q
    BY DEF Askings
  <2>5. asker' = [asker EXCEPT ![c] = waiting]
    BY <2>3
  <2> HIDE DEF waiting
  <2>6. /\ asker' \in [Callers -> Askings]
        /\ \A d \in Callers : asker'[d] = IF d = c THEN waiting ELSE asker[d]
    BY <2>4, <2>5
  <2>7. QED
    BY <2>2, <2>3, <2>4, <2>6 DEF Slim
<1>4. CASE NotOpened(c)
  <2>1. Returns(c) /\ mutex = c /\ UNCHANGED <<up, running, slim, link, cli, hist>>
    BY <1>4 DEF NotOpened
  <2>2. QED
    BY <1>2, <2>1 DEF Slim
<1>5. CASE GiveUp(c)
  <2>1. Returns(c) /\ mutex = c /\ UNCHANGED <<up, running, slim, link, hist>>
    BY <1>5 DEF GiveUp
  <2>2. cli' \in Sockets
    <3>1. asker[c].q \in Questions /\ cli' = [cli EXCEPT !.lost = @ \cup {asker[c].q}]
      BY <1>5 DEF GiveUp
    <3>2. cli.lost \cup {asker[c].q} \in SUBSET Questions
      BY <3>1 DEF Sockets
    <3>3. QED
      BY <3>1, <3>2 DEF Sockets
  <2>3. QED
    BY <1>2, <2>1, <2>2 DEF Slim
<1>6. CASE Receive(c)
  <2>1. PICK n \in 1..Len(cli.wire) :
          LET packet == asker[c].got \o SubSeq(cli.wire, 1, n)
              rest   == SubSeq(cli.wire, n + 1, Len(cli.wire))
              q      == asker[c].q
          IN IF Complete(packet, q)
               THEN /\ cli' = [cli EXCEPT !.wire = rest, !.lost = @ \cup Asked(rest)]
                    /\ hist' = [hist EXCEPT !.crashed = ~Ended(packet, q)]
                    /\ Returns(c)
               ELSE /\ cli' = [cli EXCEPT !.wire = rest]
                    /\ asker' = [asker EXCEPT ![c].got = packet]
                    /\ UNCHANGED <<mutex, hist>>
    BY <1>6 DEF Receive
  <2> DEFINE packet == asker[c].got \o SubSeq(cli.wire, 1, n)
             rest   == SubSeq(cli.wire, n + 1, Len(cli.wire))
             crash  == ~Ended(packet, asker[c].q)
  <2>2. /\ cli.wire \in Seq(HalfLines) /\ asker[c].got \in Seq(HalfLines)
        /\ asker[c].pc = "wait" /\ mutex = c
        /\ UNCHANGED <<up, running, slim, link>>
    BY <1>6 DEF Receive, Sockets, Askings
  <2>3. packet \in Seq(HalfLines) /\ rest \in Seq(HalfLines)
    <3>1. \A i \in 1..Len(cli.wire) : cli.wire[i] \in HalfLines
      BY <2>2
    <3>2. SubSeq(cli.wire, 1, n) \in Seq(HalfLines)
      BY <2>2, <3>1, SubSeqProperties
    <3>3. rest \in Seq(HalfLines)
      BY <2>2, <3>1, SubSeqProperties
    <3>4. QED
      BY <2>2, <3>2, <3>3, ConcatProperties
  <2>4. crash \in BOOLEAN
    BY DEF Ended
  <2> DEFINE late == Asked(rest)
  <2>5. /\ \/ cli' = [cli EXCEPT !.wire = rest, !.lost = @ \cup late]
           \/ cli' = [cli EXCEPT !.wire = rest]
        /\ \/ Returns(c) /\ hist' = [hist EXCEPT !.crashed = crash]
           \/ asker' = [asker EXCEPT ![c].got = packet] /\ UNCHANGED <<mutex, hist>>
    <3>1. CASE Complete(packet, asker[c].q)
      BY <2>1, <3>1
    <3>2. CASE ~Complete(packet, asker[c].q)
      BY <2>1, <3>2
    <3>3. QED
      BY <3>1, <3>2
  <2> HIDE DEF packet, rest, crash
  <2>10. late \subseteq Questions
    BY <2>3, AskedTyped
  <2> HIDE DEF late
  <2>6. cli' \in Sockets
    <3>1. cli \in Sockets /\ cli.lost \cup late \in SUBSET Questions
      BY <2>10 DEF Sockets
    <3>2. CASE cli' = [cli EXCEPT !.wire = rest]
      BY <2>3, <3>1, <3>2 DEF Sockets
    <3>3. CASE cli' = [cli EXCEPT !.wire = rest, !.lost = @ \cup late]
      BY <2>3, <3>1, <3>3 DEF Sockets
    <3>4. QED
      BY <2>5, <3>2, <3>3
  <2>7. CASE Returns(c) /\ hist' = [hist EXCEPT !.crashed = crash]
    <3>1. hist' \in [capDue : BOOLEAN, crashed : BOOLEAN]
      BY <2>4, <2>7
    <3>2. QED
      BY <1>2, <2>2, <2>6, <2>7, <3>1 DEF Slim
  <2>8. CASE asker' = [asker EXCEPT ![c].got = packet] /\ UNCHANGED <<mutex, hist>>
    <3> DEFINE more == [asker[c] EXCEPT !.got = packet]
    <3>1. more \in Askings /\ more.pc = asker[c].pc /\ more.q = asker[c].q
      <4>1. asker[c] \in Askings
        BY DEF TypeInv, TypeOK
      <4>2. more \in Askings
        BY <2>3, <4>1 DEF Askings
      <4>3. more.pc = asker[c].pc /\ more.q = asker[c].q
        BY <4>1 DEF Askings
      <4>4. QED
        BY <4>2, <4>3
    <3>2. asker' = [asker EXCEPT ![c] = more]
      BY <2>8
    <3> HIDE DEF more
    <3>3. /\ asker' \in [Callers -> Askings]
          /\ \A d \in Callers : asker'[d] = IF d = c THEN more ELSE asker[d]
      BY <3>1, <3>2
    <3>4. QED
      BY <2>2, <2>6, <2>8, <3>1, <3>3 DEF Slim
  <2>9. QED
    BY <2>5, <2>7, <2>8
<1>7. QED
  BY <1>1, <1>3, <1>4, <1>5, <1>6 DEF Caller

(* Whatever the servers do, they do to what they are connected to. *)
LEMMA ServerTyped ==
  ASSUME TypeInv,
         \/ \E server \in Servers :
              Up(server) \/ \E how \in {"reset", "silent"} : Down(server, how)
         \/ Drops
  PROVE  TypeInv'
<1> USE DEF TypeInv, TypeOK, AskInv, Slim
<1>1. Gone \in Sockets
  <2>1. cli \in Sockets /\ << >> \in Seq(HalfLines)
    OBVIOUS
  <2>2. QED
    BY <2>1 DEF Gone, Sockets
<1>2. CASE Drops
  BY <1>1, <1>2 DEF Drops
<1>3. ASSUME NEW server \in Servers, Up(server) PROVE TypeInv'
  BY <1>3 DEF Up
<1>4. ASSUME NEW server \in Servers, NEW how \in {"reset", "silent"}, Down(server, how)
      PROVE  TypeInv'
  BY <1>1, <1>4 DEF Down
<1>5. QED
  BY <1>2, <1>3, <1>4

(* Every step keeps to the types. *)
LEMMA TypedStep == TypeInv /\ [Next]_vars => TypeInv'
<1> SUFFICES ASSUME TypeInv, [Next]_vars PROVE TypeInv'
  OBVIOUS
<1>1. CASE UNCHANGED vars
  BY <1>1 DEF vars, TypeInv, TypeOK, AskInv, Slim
<1>2. CASE Next
  <2>1. CASE SlimThread \/ Close
    BY <2>1, SlimTyped
  <2>2. CASE \/ Message \/ Wake \/ Stop
             \/ \E server \in Servers, cap \in Caps : Switch(server, cap)
    BY <2>2, MessageTyped
  <2>3. CASE \E c \in Callers : Caller(c) \/ \E q \in Questions : Lock(c, q)
    BY <2>3, CallerTyped
  <2>4. CASE \/ \E server \in Servers :
                  Up(server) \/ \E how \in {"reset", "silent"} : Down(server, how)
             \/ Drops
    BY <2>4, ServerTyped
  <2>5. QED
    BY <1>2, <2>1, <2>2, <2>3, <2>4 DEF Next
<1>3. QED
  BY <1>1, <1>2

(* One thread at a time asks, it is the one that holds cli_mutex, and the  *)
(* connection exists exactly as long as a session does.                    *)
THEOREM SessionTyping == Spec => []TypeOK
<1>1. TypeInv => TypeOK
  BY DEF TypeInv
<1>2. QED
  BY <1>1, InitTyped, TypedStep, PTL DEF Spec

-----------------------------------------------------------------------------
(* At first there is no socket, and the player discovers. *)
LEMMA InitSession == Init => SessionInv
BY DEF Init, SessionInv, CliOfSession, NoSocket, Slim, NextOf

(* A socket opened during a session is one to its server, and closed with  *)
(* the session.                                                            *)
LEMMA SessionStep ==
  ASSUME TypeInv, SessionInv, [Next]_vars
  PROVE  SessionInv'
<1>1. slim \in Sessions /\ cli \in Sockets
  BY DEF TypeInv, TypeOK
<1>2. DOMAIN NextOf = {"discover", "switch", "rediscover"}
      /\ \A pc \in DOMAIN NextOf : NextOf[pc] \in {"top", "connect", "close"}
  BY DEF NextOf
<1>3. CASE UNCHANGED <<slim, cli>>
  BY <1>3 DEF SessionInv, CliOfSession, Slim
<1>4. CASE (\E server \in Servers : Discovered(server)) \/ NotDiscovered
  <2>1. /\ slim.pc \in DOMAIN NextOf /\ cli' = cli
        /\ slim'.ip = slim'.addr /\ slim'.pc = NextOf[slim.pc]
    BY <1>1, <1>4 DEF Discovered, NotDiscovered, Sessions
  <2>2. slim.pc \notin {"run", "close"} /\ slim'.pc # "run"
    BY <1>2, <2>1
  <2>3. QED
    BY <2>1, <2>2 DEF SessionInv, CliOfSession, Slim
<1>5. CASE Loop
  <2>1. /\ slim.pc = "top" /\ cli' = cli
        /\ \/ /\ slim'.pc \in {"ended", "connect"}
              /\ slim'.ip = slim.ip /\ slim'.addr = slim.addr
           \/ slim'.pc = "switch"
    BY <1>1, <1>5 DEF Loop, Goes, Slim, Sessions
  <2>2. QED
    BY <1>2, <2>1 DEF SessionInv, CliOfSession, Slim
<1>6. CASE Connect \/ ConnectFails
  <2>1. /\ slim.pc = "connect" /\ cli' = cli /\ slim'.pc \in {"run", "sleep"}
        /\ slim'.ip = slim.ip /\ slim'.addr = slim.addr
    BY <1>1, <1>6 DEF Connect, ConnectFails, Goes, Slim, Sessions
  <2>2. QED
    BY <1>2, <2>1 DEF SessionInv, CliOfSession, Slim
<1>7. CASE Retry
  <2>1. /\ slim.pc = "sleep" /\ cli' = cli
        /\ \/ slim'.pc = "close" /\ slim'.ip = slim.ip /\ slim'.addr = slim.addr
           \/ slim'.pc = "rediscover"
    <3> DEFINE failed == IF slim.failed > MaxFailed THEN slim.failed ELSE slim.failed + 1
    <3>1. \/ slim' = [slim EXCEPT !.pc = "close"]
          \/ slim' = [slim EXCEPT !.pc = "rediscover", !.failed = failed, !.ip = Nobody]
          \/ slim' = [slim EXCEPT !.pc = "close", !.failed = failed]
      BY <1>7 DEF Retry, Goes
    <3> HIDE DEF failed
    <3>2. slim.pc = "sleep" /\ cli' = cli
      BY <1>7 DEF Retry, Slim
    <3>3. QED
      BY <1>1, <3>1, <3>2 DEF Sessions
  <2>2. QED
    BY <1>2, <2>1 DEF SessionInv, CliOfSession, Slim
<1>8. CASE Close
  <2>1. /\ slim.pc = "close" /\ ~cli'.inSession /\ slim'.pc = "top"
        /\ slim'.ip = slim.ip /\ slim'.addr = slim.addr
    BY <1>1, <1>8 DEF Close, Slim, NoSocket, Sessions
  <2>2. QED
    BY <1>2, <2>1 DEF SessionInv, CliOfSession, Slim
<1>9. CASE \/ Message \/ Wake \/ Silence \/ HangUp
           \/ \E server \in Servers, cap \in Caps : Switch(server, cap)
  <2>1. /\ slim.pc = "run" /\ (cli' = cli \/ ~cli'.inSession)
        /\ slim'.pc \in {"run", "close"}
        /\ slim'.ip = slim.ip /\ slim'.addr = slim.addr
    <3>1. slim.pc = "run" /\ (cli' = cli \/ cli' = NoSocket)
      BY <1>9 DEF Message, Wake, Silence, HangUp, Switch, Attends, Slim, CloseIdleCli
    <3>2. ~NoSocket.inSession
      BY DEF NoSocket
    <3>3. slim'.pc \in {"run", "close"} /\ slim'.ip = slim.ip /\ slim'.addr = slim.addr
      BY <1>1, <1>9, <3>1 DEF Message, Wake, Silence, HangUp, Switch, Leaves, Sessions
    <3>4. QED
      BY <3>1, <3>2, <3>3
  <2>2. QED
    BY <1>2, <2>1 DEF SessionInv, CliOfSession, Slim
<1>10. CASE \E c \in Callers : Send(c)
  <2>1. PICK c \in Callers : Send(c)
    BY <1>10
  <2> DEFINE runs   == Slim("run")
             fresh  == [NoSocket EXCEPT !.to = slim.ip, !.peer = "up", !.inSession = runs]
             socket == IF cli.to # Nobody THEN cli ELSE fresh
             sent   == socket.wire \o Line(c, asker[c].q)
  <2>2. /\ cli' = IF socket.peer = "up" THEN [socket EXCEPT !.wire = sent] ELSE socket
        /\ slim' = slim
    BY <2>1 DEF Send
  <2>3. runs \in BOOLEAN /\ (runs <=> slim.pc = "run")
    BY DEF Slim
  <2> HIDE DEF runs, sent
  <2>4. /\ socket = cli \/ (socket.to = slim.ip /\ socket.inSession = runs)
        /\ cli'.to = socket.to /\ cli'.inSession = socket.inSession
    BY <1>1, <2>2, <2>3 DEF NoSocket, Sockets
  <2> HIDE DEF socket
  <2>5. QED
    BY <1>2, <2>2, <2>3, <2>4 DEF SessionInv, CliOfSession, Slim
<1>11. CASE \/ Drops
            \/ \E c \in Callers : NotOpened(c) \/ Receive(c) \/ GiveUp(c)
            \/ \E server \in Servers, how \in {"reset", "silent"} : Down(server, how)
  <2>1. /\ slim' = slim
        /\ \/ cli'.inSession = FALSE
           \/ cli'.to = cli.to /\ cli'.inSession = cli.inSession
    <3>1. CASE \E c \in Callers : Receive(c)
      BY <1>1, <3>1 DEF Receive, Sockets
    <3>2. CASE \E c \in Callers : NotOpened(c) \/ GiveUp(c)
      BY <1>1, <3>2 DEF NotOpened, GiveUp, Sockets
    <3>4. CASE Drops \/ \E server \in Servers, how \in {"reset", "silent"} : Down(server, how)
      BY <1>1, <3>4 DEF Drops, Down, Gone, Sockets
    <3>5. QED
      BY <1>11, <3>1, <3>2, <3>4
  <2>2. QED
    BY <2>1 DEF SessionInv, CliOfSession, Slim
<1>12. CASE \/ Stop \/ \E server \in Servers : Up(server)
            \/ \E c \in Callers, q \in Questions : Lock(c, q)
  BY <1>3, <1>12 DEF Stop, Up, Lock
<1>13. QED
  BY <1>3, <1>4, <1>5, <1>6, <1>7, <1>8, <1>9, <1>10, <1>11, <1>12
     DEF Next, vars, SlimThread, Caller

(* As long as a session runs no question goes to a server the player has   *)
(* left, on a socket opened in that session or in an earlier one.          *)
THEOREM SessionCli == Spec => []CliOfSession
<1>1. SessionInv => CliOfSession
  BY DEF SessionInv
<1>2. QED
  BY <1>1, InitTyped, TypedStep, InitSession, SessionStep, PTL DEF Spec

-----------------------------------------------------------------------------
(* A line received whole is its own answer, and complete. *)
LEMMA LineWhole ==
  ASSUME NEW c, NEW q, NEW packet \in Seq(HalfLines),
         Len(packet) = 2, packet[1] = Line(c, q)[1], packet[2] = Line(c, q)[2]
  PROVE  /\ Complete(packet, q) /\ Ended(packet, q)
         /\ packet[Answer(packet, q)].by = c /\ packet[Answer(packet, q)].q = q
<1>1. /\ DOMAIN packet = {1, 2}
      /\ packet[1].q = q /\ packet[1].by = c /\ ~packet[1].end /\ packet[2].end
  BY DEF Line
<1>2. Found(packet, q) = {1}
  BY <1>1 DEF Found, Holds
<1>3. Answer(packet, q) = 1
  BY <1>2 DEF Answer
<1>4. QED
  BY <1>1, <1>2, <1>3 DEF Complete, Ended

(* Half a line is not an answer yet. *)
LEMMA LineHalf ==
  ASSUME NEW c, NEW q, NEW packet \in Seq(HalfLines),
         Len(packet) = 1, packet[1] = Line(c, q)[1]
  PROVE  ~Complete(packet, q)
BY DEF Line, Complete

(* What is received, and what is left of the line. *)
LEMMA Received ==
  ASSUME TypeInv, NEW c \in Callers, NEW n \in 1..Len(cli.wire), Halved(c)
  PROVE  LET packet == asker[c].got \o SubSeq(cli.wire, 1, n)
             rest   == SubSeq(cli.wire, n + 1, Len(cli.wire))
             line   == Line(c, asker[c].q)
         IN /\ packet \in Seq(HalfLines) /\ packet[1] = line[1]
            /\ \/ Len(packet) = 1 /\ Len(rest) = 1 /\ rest[1] = line[2]
               \/ Len(packet) = 2 /\ packet[2] = line[2] /\ Len(rest) = 0
<1> DEFINE front  == SubSeq(cli.wire, 1, n)
           packet == asker[c].got \o front
           rest   == SubSeq(cli.wire, n + 1, Len(cli.wire))
<1>1. /\ cli.wire \in Seq(HalfLines) /\ asker[c].got \in Seq(HalfLines)
      /\ \A i \in 1..Len(cli.wire) : cli.wire[i] \in HalfLines
      /\ Len(cli.wire) \in Nat /\ Len(asker[c].got) \in Nat
  <2>1. cli.wire \in Seq(HalfLines) /\ asker[c].got \in Seq(HalfLines)
    BY DEF TypeInv, TypeOK, Sockets, Askings
  <2>2. QED
    BY <2>1
<1>2. /\ front \in Seq(HalfLines) /\ Len(front) = n
      /\ \A i \in 1..n : front[i] = cli.wire[i]
  BY <1>1, SubSeqProperties
<1>3. /\ Len(rest) = Len(cli.wire) - n
      /\ \A i \in 1..Len(cli.wire) - n : rest[i] = cli.wire[n + i]
  BY <1>1, SubSeqProperties
<1> HIDE DEF front
<1>4. /\ packet \in Seq(HalfLines) /\ Len(packet) = Len(asker[c].got) + n
      /\ \A i \in 1..Len(asker[c].got) + n : packet[i] = IF i <= Len(asker[c].got) THEN asker[c].got[i]
                                                     ELSE front[i - Len(asker[c].got)]
  <2> DEFINE got == asker[c].got
  <2>1. got \in Seq(HalfLines) /\ front \in Seq(HalfLines) /\ Len(front) = n
    BY <1>1, <1>2
  <2> HIDE DEF got
  <2>2. /\ got \o front \in Seq(HalfLines) /\ Len(got \o front) = Len(got) + Len(front)
        /\ \A i \in 1..Len(got) + Len(front) :
             (got \o front)[i] = IF i <= Len(got) THEN got[i] ELSE front[i - Len(got)]
    BY <2>1, ConcatProperties, Zenon
  <2>3. QED
    BY <2>1, <2>2 DEF got
<1> HIDE DEF packet, rest
<1>5. CASE /\ Len(asker[c].got) = 0 /\ Len(cli.wire) = 2
           /\ cli.wire[1] = Line(c, asker[c].q)[1] /\ cli.wire[2] = Line(c, asker[c].q)[2]
  <2>1. n \in {1, 2}
    BY <1>5
  <2>2. packet[1] = Line(c, asker[c].q)[1]
    BY <1>2, <1>4, <1>5, <2>1
  <2>3. CASE n = 1
    BY <1>3, <1>4, <1>5, <2>2, <2>3 DEF packet, rest, front
  <2>4. CASE n = 2
    <3>1. packet[2] = Line(c, asker[c].q)[2] /\ Len(packet) = 2 /\ Len(rest) = 0
      BY <1>2, <1>3, <1>4, <1>5, <2>4
    <3>2. QED
      BY <1>4, <2>2, <3>1 DEF packet, rest, front
  <2>5. QED
    BY <2>1, <2>3, <2>4
<1>6. CASE /\ Len(asker[c].got) = 1 /\ asker[c].got[1] = Line(c, asker[c].q)[1]
           /\ Len(cli.wire) = 1 /\ cli.wire[1] = Line(c, asker[c].q)[2]
  <2>1. n = 1
    BY <1>6
  <2>2. /\ packet[1] = Line(c, asker[c].q)[1] /\ packet[2] = Line(c, asker[c].q)[2]
        /\ Len(packet) = 2 /\ Len(rest) = 0
    BY <1>2, <1>3, <1>4, <1>6, <2>1
  <2>3. QED
    BY <1>4, <2>2 DEF packet, rest, front
<1>7. QED
  BY <1>1, <1>5, <1>6 DEF Halved

(* At first nothing is under way. *)
LEMMA InitOwn == Init => OwnInv
BY DEF Init, OwnInv, NoSocket, Idle

(* Nothing but the line of the question being asked is under way, until a  *)
(* question is given up.                                                   *)
LEMMA OwnStep ==
  ASSUME TypeInv, OwnInv, [Next]_vars
  PROVE  OwnInv'
<1>1. cli \in Sockets /\ asker \in [Callers -> Askings] /\ Len(cli.wire) \in Nat
  BY DEF TypeInv, TypeOK, Sockets
<1>2. CASE UNCHANGED <<cli, asker>>
  BY <1>2 DEF OwnInv, Halved
<1>3. ASSUME mutex = Nobody, cli' = NoSocket, asker' = asker PROVE OwnInv'
  <2>1. /\ mutex = Nobody /\ cli' = NoSocket /\ asker' = asker
    BY <1>3
  <2>2. \A c \in Callers : asker'[c].pc \notin {"open", "wait"}
    BY <2>1, SessionAssumption DEF TypeInv, TypeOK
  <2>3. Len(cli'.wire) = 0
    BY <2>1 DEF NoSocket
  <2>4. QED
    BY <2>2, <2>3 DEF OwnInv
<1>4. CASE Drops \/ \E server \in Servers, how \in {"reset", "silent"} : Down(server, how)
  <2>1. /\ asker' = asker
        /\ cli' = cli \/ (cli'.lost = cli.lost /\ cli'.wire = << >>)
    BY <1>1, <1>4 DEF Drops, Down, Gone, Sockets
  <2>2. CASE cli' = cli
    BY <1>2, <2>1, <2>2
  <2>3. CASE cli'.lost = cli.lost /\ cli'.wire = << >>
    <3>1. Len(cli'.wire) = 0
      BY <2>3
    <3>2. QED
      BY <2>1, <2>3, <3>1 DEF OwnInv, Halved
  <2>4. QED
    BY <2>1, <2>2, <2>3
<1>5. ASSUME NEW c \in Callers, NEW q \in Questions, Lock(c, q) PROVE OwnInv'
  <2> DEFINE asking == [Idle EXCEPT !.pc = "open", !.q = q]
  <2>1. /\ cli' = cli /\ mutex = Nobody
        /\ asker' = [asker EXCEPT ![c] = asking]
    BY <1>5 DEF Lock
  <2>2. asking.pc = "open" /\ Len(asking.got) = 0
    BY DEF Idle
  <2> HIDE DEF asking
  <2>3. \A d \in Callers : asker'[d] = IF d = c THEN asking ELSE asker[d]
    BY <1>1, <2>1
  <2>4. \A d \in Callers : asker[d].pc # "wait" /\ asker'[d].pc # "wait"
    BY <2>1, <2>2, <2>3, SessionAssumption DEF TypeInv, TypeOK
  <2>5. QED
    BY <2>1, <2>2, <2>3, <2>4 DEF OwnInv
<1>6. ASSUME NEW c \in Callers, Returns(c), mutex = c, Len(cli'.wire) = 0 \/ cli'.lost # {}
      PROVE  OwnInv'
  <2>1. \A d \in Callers : asker'[d].pc = "idle"
    BY <1>1, <1>6 DEF Returns, Idle, TypeInv, TypeOK
  <2>2. QED
    BY <1>6, <2>1 DEF OwnInv
<1>7. ASSUME NEW c \in Callers, Send(c) PROVE OwnInv'
  <2>1. /\ asker[c].q \in Questions /\ asker[c].pc = "open" /\ mutex = c
        /\ asker' = [asker EXCEPT ![c].pc = "wait"]
    BY <1>7 DEF Send, TypeInv, TypeOK, AskInv
  <2>2. /\ Len(asker[c].got) = 0
        /\ cli.lost = {} => Len(cli.wire) = 0
    BY <2>1 DEF OwnInv, TypeInv, TypeOK
  <2>3. /\ \A d \in Callers : d # c => asker'[d] = asker[d] /\ asker'[d].pc = "idle"
        /\ asker'[c].q = asker[c].q /\ asker'[c].got = asker[c].got /\ asker'[c].pc = "wait"
    BY <1>1, <2>1 DEF TypeInv, TypeOK, Askings
  <2> DEFINE runs   == Slim("run")
             fresh  == [NoSocket EXCEPT !.to = slim.ip, !.peer = "up", !.inSession = runs]
             socket == IF cli.to # Nobody THEN cli ELSE fresh
             sent   == socket.wire \o Line(c, asker[c].q)
  <2>4. cli' = IF socket.peer = "up" THEN [socket EXCEPT !.wire = sent] ELSE socket
    BY <1>7 DEF Send
  <2> HIDE DEF runs
  <2>5. /\ socket.wire \in Seq(HalfLines)
        /\ socket.lost = {} => Len(socket.wire) = 0
        /\ DOMAIN socket = {"to", "peer", "inSession", "lost", "wire"}
    <3>1. CASE cli.to # Nobody
      BY <1>1, <2>2, <3>1 DEF Sockets
    <3>2. CASE cli.to = Nobody
      <4>1. socket = fresh
        BY <3>2
      <4>2. << >> \in Seq(HalfLines) /\ Len(<< >>) = 0
        OBVIOUS
      <4>3. fresh.wire = << >> /\ DOMAIN fresh = {"to", "peer", "inSession", "lost", "wire"}
        BY DEF NoSocket
      <4> HIDE DEF socket, fresh
      <4>4. QED
        BY <4>1, <4>2, <4>3
    <3>3. QED
      BY <3>1, <3>2
  <2> HIDE DEF fresh, socket
  <2>6. /\ sent \in Seq(HalfLines) /\ Len(sent) = Len(socket.wire) + 2
        /\ Len(socket.wire) = 0 => /\ sent[1] = Line(c, asker[c].q)[1]
                                   /\ sent[2] = Line(c, asker[c].q)[2]
    <3> DEFINE line == Line(c, asker[c].q)
    <3>1. line \in Seq(HalfLines) /\ Len(line) = 2
      <4>1. line \in Seq(HalfLines)
        BY <2>1, LineTyped
      <4>2. QED
        BY <4>1 DEF Line
    <3> HIDE DEF line
    <3> DEFINE before == socket.wire
    <3>2. before \in Seq(HalfLines) /\ Len(before) \in Nat
      BY <2>5
    <3> HIDE DEF before
    <3>3. /\ before \o line \in Seq(HalfLines) /\ Len(before \o line) = Len(before) + 2
          /\ \A i \in 1..Len(before) + 2 :
               (before \o line)[i] = IF i <= Len(before) THEN before[i]
                                     ELSE line[i - Len(before)]
      <4>1. /\ before \o line \in Seq(HalfLines)
            /\ Len(before \o line) = Len(before) + Len(line)
            /\ \A i \in 1..Len(before) + Len(line) :
                 (before \o line)[i] = IF i <= Len(before) THEN before[i]
                                       ELSE line[i - Len(before)]
        BY <3>1, <3>2, ConcatProperties
      <4>2. QED
        BY <3>1, <4>1
    <3>4. /\ socket.wire \o line \in Seq(HalfLines)
          /\ Len(socket.wire \o line) = Len(socket.wire) + 2
          /\ \A i \in 1..Len(socket.wire) + 2 :
               (socket.wire \o line)[i] = IF i <= Len(socket.wire) THEN socket.wire[i]
                                          ELSE line[i - Len(socket.wire)]
      BY <3>3 DEF before
    <3>5. Len(socket.wire) = 0 => (socket.wire \o line)[1] = line[1]
                                  /\ (socket.wire \o line)[2] = line[2]
      BY <3>4
    <3>6. QED
      BY <3>4, <3>5 DEF line
  <2> HIDE DEF sent
  <2>7. /\ cli'.lost = socket.lost
        /\ cli'.wire = sent \/ cli'.wire = socket.wire
    BY <2>4, <2>5
  <2>8. cli'.lost = {} => Halved(c)'
    <3> SUFFICES ASSUME cli'.lost = {} PROVE Halved(c)'
      OBVIOUS
    <3>1. Len(socket.wire) = 0 /\ Len(asker'[c].got) = 0
      BY <2>2, <2>3, <2>5, <2>7
    <3>2. \/ Len(cli'.wire) = 0
          \/ /\ Len(cli'.wire) = 2
             /\ cli'.wire[1] = Line(c, asker'[c].q)[1]
             /\ cli'.wire[2] = Line(c, asker'[c].q)[2]
      BY <2>3, <2>6, <2>7, <3>1
    <3>3. QED
      BY <3>1, <3>2 DEF Halved
  <2>9. QED
    BY <2>3, <2>8 DEF OwnInv
<1>8. ASSUME NEW c \in Callers, Receive(c) PROVE OwnInv'
  <2>1. PICK n \in 1..Len(cli.wire) :
          LET packet == asker[c].got \o SubSeq(cli.wire, 1, n)
              rest   == SubSeq(cli.wire, n + 1, Len(cli.wire))
              q      == asker[c].q
          IN IF Complete(packet, q)
               THEN /\ cli' = [cli EXCEPT !.wire = rest, !.lost = @ \cup Asked(rest)]
                    /\ hist' = [hist EXCEPT !.crashed = ~Ended(packet, q)]
                    /\ Returns(c)
               ELSE /\ cli' = [cli EXCEPT !.wire = rest]
                    /\ asker' = [asker EXCEPT ![c].got = packet]
                    /\ UNCHANGED <<mutex, hist>>
    BY <1>8 DEF Receive
  <2> DEFINE packet == asker[c].got \o SubSeq(cli.wire, 1, n)
             rest   == SubSeq(cli.wire, n + 1, Len(cli.wire))
             line   == Line(c, asker[c].q)
  <2>2. asker[c].pc = "wait" /\ mutex = c
    BY <1>8 DEF Receive, TypeInv, TypeOK
  <2>3. cli'.wire = rest /\ cli.lost \subseteq cli'.lost
    <3>1. \/ cli' = [cli EXCEPT !.wire = rest, !.lost = @ \cup Asked(rest)]
          \/ cli' = [cli EXCEPT !.wire = rest]
      BY <2>1
    <3>2. QED
      BY <1>1, <3>1 DEF Sockets
  <2>4. cli.lost = {} => /\ packet \in Seq(HalfLines) /\ packet[1] = line[1]
                     /\ \/ Len(packet) = 1 /\ Len(rest) = 1 /\ rest[1] = line[2]
                        \/ Len(packet) = 2 /\ packet[2] = line[2] /\ Len(rest) = 0
    BY <2>2, Received DEF OwnInv
  <2>5. CASE Complete(packet, asker[c].q)
    <3>1. Returns(c)
      BY <2>1, <2>5
    <3>2. cli.lost = {} => Len(packet) # 1
      BY <2>4, <2>5, LineHalf
    <3>3. Len(cli'.wire) = 0 \/ cli'.lost # {}
      BY <2>3, <2>4, <3>2
    <3>4. QED
      BY <1>6, <2>2, <3>1, <3>3
  <2>6. CASE ~Complete(packet, asker[c].q)
    <3>1. asker' = [asker EXCEPT ![c].got = packet]
      BY <2>1, <2>6
    <3>2. cli.lost = {} => Len(packet) # 2
      <4> SUFFICES ASSUME cli.lost = {}, Len(packet) = 2 PROVE FALSE
        OBVIOUS
      <4>1. packet \in Seq(HalfLines) /\ packet[1] = line[1] /\ packet[2] = line[2]
        BY <2>4
      <4> HIDE DEF packet
      <4>2. Complete(packet, asker[c].q)
        BY <4>1, LineWhole
      <4>3. QED
        BY <2>6, <4>2
    <3> HIDE DEF packet, rest
    <3>3. /\ \A d \in Callers : d # c => asker'[d] = asker[d] /\ asker'[d].pc = "idle"
          /\ asker'[c].q = asker[c].q /\ asker'[c].got = packet /\ asker'[c].pc = "wait"
      BY <1>1, <2>2, <3>1 DEF TypeInv, TypeOK, Askings
    <3>4. cli'.lost = {} => Halved(c)'
      BY <2>3, <2>4, <3>2, <3>3 DEF Halved
    <3>5. QED
      BY <3>3, <3>4 DEF OwnInv
  <2>7. QED
    BY <2>5, <2>6
<1>9. ASSUME NEW c \in Callers, NotOpened(c) \/ GiveUp(c) PROVE OwnInv'
  <2>1. Returns(c) /\ mutex = c
    BY <1>9 DEF NotOpened, GiveUp, TypeInv, TypeOK
  <2>2. CASE GiveUp(c)
    <3>1. cli'.lost # {}
      BY <1>1, <2>2 DEF GiveUp, Sockets
    <3>2. QED
      BY <1>6, <2>1, <3>1
  <2>3. CASE NotOpened(c)
    <3>1. cli' = cli /\ \A d \in Callers : asker[d].pc # "wait"
      BY <2>3 DEF NotOpened, TypeInv, TypeOK
    <3>2. Len(cli'.wire) = 0 \/ cli'.lost # {}
      BY <3>1 DEF OwnInv
    <3>3. QED
      BY <1>6, <2>1, <3>2
  <2>4. QED
    BY <1>9, <2>2, <2>3
<1>10. CASE SlimThread \/ Stop
            \/ (\E server \in Servers, cap \in Caps : Switch(server, cap))
            \/ (\E server \in Servers : Up(server))
  <2>1. UNCHANGED <<cli, asker>>
    BY <1>10 DEF SlimThread, Discovered, NotDiscovered, Loop, Connect, ConnectFails, Retry,
       Silence, HangUp, Stop, Switch, Up
  <2>2. QED
    BY <1>2, <2>1
<1>14. CASE Close \/ Message \/ Wake
  <2>1. /\ asker' = asker
        /\ cli' = cli \/ (mutex = Nobody /\ cli' = NoSocket)
    BY <1>14 DEF Close, Message, Wake, CloseIdleCli
  <2>2. QED
    BY <1>2, <1>3, <2>1
<1>11. CASE UNCHANGED vars
  BY <1>2, <1>11 DEF vars
<1>12. CASE Next
  <2>1. CASE \E c \in Callers : Caller(c) \/ \E q \in Questions : Lock(c, q)
    BY <1>5, <1>7, <1>8, <1>9, <2>1 DEF Caller
  <2>2. CASE Drops \/ \E server \in Servers, how \in {"reset", "silent"} : Down(server, how)
    BY <1>4, <2>2
  <2>3. QED
    BY <1>10, <1>12, <1>14, <2>1, <2>2 DEF Next
<1>13. QED
  BY <1>11, <1>12

-----------------------------------------------------------------------------
(* What was received holds the text of the question in a first place.      *)
LEMMA AnswerFound ==
  ASSUME NEW packet \in Seq(HalfLines), NEW q, Found(packet, q) # {}
  PROVE  Answer(packet, q) \in Found(packet, q)
<1> DEFINE R == {p \in Nat \X Nat : p[1] < p[2]}
           S == Found(packet, q)
<1>1. IsWellFoundedOn(R, Nat)
  BY NatLessThanWellFounded DEF OpToRel
<1>2. S \subseteq Nat /\ S # {}
  BY DEF Found
<1>3. PICK i \in S : \A j \in S : <<j, i>> \notin R
  <2> HIDE DEF R, S
  <2>1. QED
    BY <1>1, <1>2, WFMin
<1> HIDE DEF S
<1>4. \A j \in S : i <= j
  <2>1. ASSUME NEW j \in S PROVE i <= j
    <3>1. <<j, i>> \in Nat \X Nat /\ ~(j < i)
      BY <1>2, <1>3 DEF R
    <3>2. QED
      BY <3>1
  <2>2. QED
    BY <2>1
<1> USE DEF S
<1>5. QED
  BY <1>4 DEF Answer

(* What a thread receives, and what it leaves, is its own or late. *)
LEMMA ReceivedMine ==
  ASSUME TypeInv, LateInv, NEW c \in Callers, asker[c].pc = "wait",
         NEW n \in 1..Len(cli.wire)
  PROVE  LET packet == asker[c].got \o SubSeq(cli.wire, 1, n)
             rest   == SubSeq(cli.wire, n + 1, Len(cli.wire))
         IN /\ packet \in Seq(HalfLines) /\ Len(rest) = Len(cli.wire) - n
            /\ \A i \in DOMAIN packet : Mine(packet[i], c)
            /\ \A i \in DOMAIN rest : Mine(rest[i], c)
<1> DEFINE got   == asker[c].got
           wire  == cli.wire
           front == SubSeq(wire, 1, n)
           rest  == SubSeq(wire, n + 1, Len(wire))
<1>1. /\ got \in Seq(HalfLines) /\ wire \in Seq(HalfLines)
      /\ \A i \in 1..Len(wire) : wire[i] \in HalfLines
  <2>1. got \in Seq(HalfLines) /\ wire \in Seq(HalfLines)
    BY DEF TypeInv, TypeOK, Sockets, Askings
  <2> HIDE DEF wire, got
  <2>2. QED
    BY <2>1
<1>2. /\ \A i \in DOMAIN got : Mine(got[i], c)
      /\ \A i \in DOMAIN wire : Mine(wire[i], c)
  BY DEF LateInv
<1>0. n \in 1..Len(wire)
  OBVIOUS
<1> HIDE DEF got, wire
<1>3. /\ front \in Seq(HalfLines) /\ Len(front) = n
      /\ \A i \in 1..n : front[i] = wire[i]
  BY <1>0, <1>1, SubSeqProperties
<1>4. /\ rest \in Seq(HalfLines) /\ Len(rest) = Len(wire) - n
      /\ \A i \in 1..Len(wire) - n : rest[i] = wire[n + i]
  BY <1>0, <1>1, SubSeqProperties
<1> HIDE DEF front, rest
<1>5. /\ got \o front \in Seq(HalfLines) /\ Len(got \o front) = Len(got) + Len(front)
      /\ \A i \in 1..Len(got) + Len(front) :
           (got \o front)[i] = IF i <= Len(got) THEN got[i] ELSE front[i - Len(got)]
  BY <1>1, <1>3, ConcatProperties, Zenon
<1> DEFINE packet == got \o front
<1> HIDE DEF packet
<1>6. ASSUME NEW i \in DOMAIN packet PROVE Mine(packet[i], c)
  <2>1. /\ i \in 1..Len(got) + n /\ Len(got) \in Nat /\ n \in Nat
        /\ packet[i] = IF i <= Len(got) THEN got[i] ELSE front[i - Len(got)]
    BY <1>0, <1>1, <1>3, <1>5, <1>6 DEF packet
  <2>2. CASE i <= Len(got)
    BY <1>1, <1>2, <2>1, <2>2
  <2>3. CASE ~(i <= Len(got))
    <3>1. i - Len(got) \in 1..n /\ packet[i] = wire[i - Len(got)]
      BY <1>3, <2>1, <2>3
    <3>2. i - Len(got) \in DOMAIN wire
      BY <1>0, <1>1, <3>1
    <3>3. QED
      BY <1>2, <3>1, <3>2
  <2>4. QED
    BY <2>2, <2>3
<1>7. ASSUME NEW i \in DOMAIN rest PROVE Mine(rest[i], c)
  <2>1. i \in 1..Len(wire) - n /\ rest[i] = wire[n + i]
    BY <1>4, <1>7
  <2>2. n + i \in DOMAIN wire
    BY <1>0, <1>1, <2>1
  <2>3. QED
    BY <1>2, <2>1, <2>2
<1>8. /\ packet \in Seq(HalfLines) /\ Len(rest) = Len(wire) - n
      /\ \A i \in DOMAIN packet : Mine(packet[i], c)
      /\ \A i \in DOMAIN rest : Mine(rest[i], c)
  BY <1>4, <1>5, <1>6, <1>7 DEF packet
<1>9. QED
  BY <1>8 DEF packet, got, front, rest, wire

(* At first nothing is late. *)
LEMMA InitLate == Init => LateInv
BY DEF Init, LateInv, NoSocket, Idle, Asked

(* Whatever comes late on a socket, its question is remembered. *)
LEMMA LateStep ==
  ASSUME TypeInv, OwnInv, LateInv, [Next]_vars
  PROVE  LateInv'
<1>1. cli \in Sockets /\ asker \in [Callers -> Askings] /\ cli.wire \in Seq(HalfLines)
  BY DEF TypeInv, TypeOK, Sockets
<1>2. CASE UNCHANGED <<cli, asker>>
  BY <1>2 DEF LateInv, Mine
<1>3. ASSUME mutex = Nobody, cli' = NoSocket, asker' = asker PROVE LateInv'
  <2>1. \A c \in Callers : asker'[c].pc # "wait"
    BY <1>3, SessionAssumption DEF TypeInv, TypeOK
  <2>2. Asked(cli'.wire) = {}
    BY <1>3 DEF NoSocket, Asked
  <2>3. QED
    BY <2>1, <2>2 DEF LateInv
<1>4. CASE Drops \/ \E server \in Servers, how \in {"reset", "silent"} : Down(server, how)
  <2>1. /\ asker' = asker
        /\ cli' = cli \/ (cli'.lost = cli.lost /\ cli'.wire = << >>)
    BY <1>1, <1>4 DEF Drops, Down, Gone, Sockets
  <2>2. CASE cli' = cli
    BY <1>2, <2>1, <2>2
  <2>3. CASE cli'.lost = cli.lost /\ cli'.wire = << >>
    <3>1. Asked(cli'.wire) = {} /\ DOMAIN cli'.wire = {}
      BY <2>3 DEF Asked
    <3>2. QED
      BY <2>1, <2>3, <3>1 DEF LateInv, Mine
  <2>4. QED
    BY <2>1, <2>2, <2>3
<1>5. ASSUME NEW c \in Callers, NEW q \in Questions, Lock(c, q) PROVE LateInv'
  <2>1. /\ cli' = cli /\ mutex = Nobody
        /\ asker' = [asker EXCEPT ![c] = [Idle EXCEPT !.pc = "open", !.q = q]]
    BY <1>5 DEF Lock
  <2>2. \A d \in Callers : asker[d].pc # "wait" /\ asker'[d].pc # "wait"
    BY <1>1, <2>1, SessionAssumption DEF TypeInv, TypeOK, Idle
  <2>3. QED
    BY <2>1, <2>2 DEF LateInv
<1>6. ASSUME NEW c \in Callers, Returns(c), mutex = c, Asked(cli'.wire) \subseteq cli'.lost
      PROVE  LateInv'
  <2>1. \A d \in Callers : asker'[d].pc = "idle"
    BY <1>1, <1>6 DEF Returns, Idle, TypeInv, TypeOK
  <2>2. QED
    BY <1>6, <2>1 DEF LateInv
<1>7. ASSUME NEW c \in Callers, Send(c) PROVE LateInv'
  <2>1. /\ asker[c].q \in Questions /\ asker[c].pc = "open" /\ mutex = c
        /\ asker' = [asker EXCEPT ![c].pc = "wait"]
    BY <1>7 DEF Send, TypeInv, TypeOK, AskInv
  <2>2. /\ Len(asker[c].got) = 0 /\ asker[c].got \in Seq(HalfLines)
        /\ Asked(cli.wire) \subseteq cli.lost
    BY <1>1, <2>1 DEF OwnInv, LateInv, TypeInv, TypeOK, Askings
  <2>3. /\ \A d \in Callers : d # c => asker'[d].pc = "idle"
        /\ asker'[c].q = asker[c].q /\ asker'[c].got = asker[c].got /\ asker'[c].pc = "wait"
    BY <1>1, <2>1 DEF TypeInv, TypeOK, Askings
  <2> DEFINE runs   == Slim("run")
             fresh  == [NoSocket EXCEPT !.to = slim.ip, !.peer = "up", !.inSession = runs]
             socket == IF cli.to # Nobody THEN cli ELSE fresh
             line   == Line(c, asker[c].q)
             sent   == socket.wire \o line
  <2>4. cli' = IF socket.peer = "up" THEN [socket EXCEPT !.wire = sent] ELSE socket
    BY <1>7 DEF Send
  <2> HIDE DEF runs
  <2>5. /\ socket.wire \in Seq(HalfLines)
        /\ Asked(socket.wire) \subseteq socket.lost
        /\ DOMAIN socket = {"to", "peer", "inSession", "lost", "wire"}
    <3>1. CASE cli.to # Nobody
      BY <1>1, <2>2, <3>1 DEF Sockets
    <3>2. CASE cli.to = Nobody
      <4>1. socket = fresh
        BY <3>2
      <4>2. << >> \in Seq(HalfLines) /\ Asked(<< >>) = {}
        BY DEF Asked
      <4>3. fresh.wire = << >> /\ DOMAIN fresh = {"to", "peer", "inSession", "lost", "wire"}
        BY DEF NoSocket
      <4> HIDE DEF socket, fresh
      <4>4. QED
        BY <4>1, <4>2, <4>3
    <3>3. QED
      BY <3>1, <3>2
  <2> HIDE DEF fresh, socket
  <2>6. /\ \A i \in DOMAIN line : line[i].by = c /\ line[i].q = asker[c].q
        /\ line \in Seq(HalfLines)
    <3>1. line \in Seq(HalfLines)
      BY <2>1, LineTyped
    <3>2. QED
      BY <3>1 DEF Line
  <2> HIDE DEF line
  <2>7. \A i \in DOMAIN sent : \/ sent[i].q \in socket.lost
                               \/ sent[i].by = c /\ sent[i].q = asker[c].q
    <3> DEFINE before == socket.wire
    <3>1. before \in Seq(HalfLines)
      BY <2>5
    <3>2. \A i \in DOMAIN before : before[i].q \in socket.lost
      BY <2>5 DEF Asked
    <3> HIDE DEF before
    <3>3. /\ before \o line \in Seq(HalfLines)
          /\ Len(before \o line) = Len(before) + Len(line)
          /\ \A i \in 1..Len(before) + Len(line) :
               (before \o line)[i] = IF i <= Len(before) THEN before[i]
                                     ELSE line[i - Len(before)]
      BY <2>6, <3>1, ConcatProperties
    <3>4. ASSUME NEW i \in DOMAIN (before \o line)
          PROVE  \/ (before \o line)[i].q \in socket.lost
                 \/ (before \o line)[i].by = c /\ (before \o line)[i].q = asker[c].q
      <4>1. i \in 1..Len(before) + Len(line)
        BY <3>3, <3>4
      <4>2. CASE i <= Len(before)
        BY <3>1, <3>2, <3>3, <4>1, <4>2
      <4>3. CASE ~(i <= Len(before))
        <5>1. i - Len(before) \in DOMAIN line
          BY <2>6, <3>1, <4>1, <4>3
        <5>2. QED
          BY <2>6, <3>3, <4>1, <4>3, <5>1
      <4>4. QED
        BY <4>2, <4>3
    <3>5. QED
      BY <3>4 DEF before
  <2> HIDE DEF sent
  <2>8. /\ cli'.lost = socket.lost
        /\ cli'.wire = sent \/ cli'.wire = socket.wire
    BY <2>4, <2>5
  <2>9. \A i \in DOMAIN cli'.wire :
          \/ cli'.wire[i].by = c /\ cli'.wire[i].q = asker'[c].q
          \/ cli'.wire[i].q \in cli'.lost
    <3>1. \A i \in DOMAIN socket.wire : socket.wire[i].q \in socket.lost
      BY <2>5 DEF Asked
    <3>2. QED
      BY <2>3, <2>7, <2>8, <3>1
  <2>10. DOMAIN asker'[c].got = {}
    BY <2>2, <2>3
  <2>11. QED
    BY <2>3, <2>9, <2>10 DEF LateInv, Mine
<1>8. ASSUME NEW c \in Callers, Receive(c) PROVE LateInv'
  <2>1. PICK n \in 1..Len(cli.wire) :
          LET packet == asker[c].got \o SubSeq(cli.wire, 1, n)
              rest   == SubSeq(cli.wire, n + 1, Len(cli.wire))
              q      == asker[c].q
          IN IF Complete(packet, q)
               THEN /\ cli' = [cli EXCEPT !.wire = rest, !.lost = @ \cup Asked(rest)]
                    /\ hist' = [hist EXCEPT !.crashed = ~Ended(packet, q)]
                    /\ Returns(c)
               ELSE /\ cli' = [cli EXCEPT !.wire = rest]
                    /\ asker' = [asker EXCEPT ![c].got = packet]
                    /\ UNCHANGED <<mutex, hist>>
    BY <1>8 DEF Receive
  <2> DEFINE packet == asker[c].got \o SubSeq(cli.wire, 1, n)
             rest   == SubSeq(cli.wire, n + 1, Len(cli.wire))
  <2>2. asker[c].pc = "wait" /\ mutex = c
    BY <1>8 DEF Receive, TypeInv, TypeOK
  <2>3. /\ \A i \in DOMAIN packet : Mine(packet[i], c)
        /\ \A i \in DOMAIN rest : Mine(rest[i], c)
    BY <2>2, ReceivedMine
  <2>4. CASE Complete(packet, asker[c].q)
    <3>1. Returns(c) /\ cli' = [cli EXCEPT !.wire = rest, !.lost = @ \cup Asked(rest)]
      BY <2>1, <2>4
    <3> HIDE DEF packet, rest
    <3>2. Asked(cli'.wire) \subseteq cli'.lost
      BY <1>1, <3>1 DEF Sockets
    <3>3. QED
      BY <1>6, <2>2, <3>1, <3>2
  <2>5. CASE ~Complete(packet, asker[c].q)
    <3>1. /\ asker' = [asker EXCEPT ![c].got = packet]
          /\ cli' = [cli EXCEPT !.wire = rest]
      BY <2>1, <2>5
    <3> HIDE DEF packet, rest
    <3>2. /\ \A d \in Callers : d # c => asker'[d].pc = "idle"
          /\ asker'[c].q = asker[c].q /\ asker'[c].got = packet /\ asker'[c].pc = "wait"
      BY <1>1, <2>2, <3>1 DEF TypeInv, TypeOK, Askings
    <3>3. cli'.wire = rest /\ cli'.lost = cli.lost
      BY <1>1, <3>1 DEF Sockets
    <3>4. QED
      BY <2>3, <3>2, <3>3 DEF LateInv, Mine
  <2>6. QED
    BY <2>4, <2>5
<1>9. ASSUME NEW c \in Callers, NotOpened(c) \/ GiveUp(c) PROVE LateInv'
  <2>1. Returns(c) /\ mutex = c
    BY <1>9 DEF NotOpened, GiveUp, TypeInv, TypeOK
  <2>2. CASE GiveUp(c)
    <3>1. /\ asker[c].pc = "wait"
          /\ cli'.wire = cli.wire /\ cli'.lost = cli.lost \cup {asker[c].q}
      BY <1>1, <2>2 DEF GiveUp, Sockets
    <3>2. \A i \in DOMAIN cli.wire : Mine(cli.wire[i], c)
      BY <3>1 DEF LateInv
    <3>3. Asked(cli'.wire) \subseteq cli'.lost
      BY <3>1, <3>2 DEF Asked, Mine
    <3>4. QED
      BY <1>6, <2>1, <3>3
  <2>3. CASE NotOpened(c)
    <3>1. cli' = cli /\ \A d \in Callers : asker[d].pc # "wait"
      BY <2>3 DEF NotOpened, TypeInv, TypeOK
    <3>2. Asked(cli'.wire) \subseteq cli'.lost
      BY <3>1 DEF LateInv
    <3>3. QED
      BY <1>6, <2>1, <3>2
  <2>4. QED
    BY <1>9, <2>2, <2>3
<1>10. CASE SlimThread \/ Stop
            \/ (\E server \in Servers, cap \in Caps : Switch(server, cap))
            \/ (\E server \in Servers : Up(server))
  <2>1. UNCHANGED <<cli, asker>>
    BY <1>10 DEF SlimThread, Discovered, NotDiscovered, Loop, Connect, ConnectFails, Retry,
       Silence, HangUp, Stop, Switch, Up
  <2>2. QED
    BY <1>2, <2>1
<1>11. CASE Close \/ Message \/ Wake
  <2>1. /\ asker' = asker
        /\ cli' = cli \/ (mutex = Nobody /\ cli' = NoSocket)
    BY <1>11 DEF Close, Message, Wake, CloseIdleCli
  <2>2. QED
    BY <1>2, <1>3, <2>1
<1>12. CASE UNCHANGED vars
  BY <1>2, <1>12 DEF vars
<1>13. CASE \E c \in Callers : Caller(c) \/ \E q \in Questions : Lock(c, q)
  BY <1>5, <1>7, <1>8, <1>9, <1>13 DEF Caller
<1>14. QED
  BY <1>4, <1>10, <1>11, <1>12, <1>13 DEF Next

(* An answer is of the question asked, and whole, or late and of one that  *)
(* holds its text.                                                         *)
LEMMA AnswerStep ==
  ASSUME TypeInv, OwnInv, LateInv, Next
  PROVE  AnswerOwn
<1>1. /\ cli \in Sockets /\ asker \in [Callers -> Askings] /\ ~hist.crashed
      /\ hist \in [capDue : BOOLEAN, crashed : BOOLEAN] /\ Len(cli.wire) \in Nat
  BY DEF TypeInv, TypeOK, AskInv, Next, Sockets
<1>2. ASSUME NEW d \in Callers, Receive(d) PROVE AnswerOwn
  <2>1. PICK n \in 1..Len(cli.wire) :
          LET packet == asker[d].got \o SubSeq(cli.wire, 1, n)
              rest   == SubSeq(cli.wire, n + 1, Len(cli.wire))
              q      == asker[d].q
          IN IF Complete(packet, q)
               THEN /\ cli' = [cli EXCEPT !.wire = rest, !.lost = @ \cup Asked(rest)]
                    /\ hist' = [hist EXCEPT !.crashed = ~Ended(packet, q)]
                    /\ Returns(d)
               ELSE /\ cli' = [cli EXCEPT !.wire = rest]
                    /\ asker' = [asker EXCEPT ![d].got = packet]
                    /\ UNCHANGED <<mutex, hist>>
    BY <1>2 DEF Receive
  <2> DEFINE packet == asker[d].got \o SubSeq(cli.wire, 1, n)
             rest   == SubSeq(cli.wire, n + 1, Len(cli.wire))
             line   == Line(d, asker[d].q)
  <2>2. asker[d].pc = "wait" /\ mutex = d
    BY <1>2 DEF Receive, TypeInv, TypeOK
  <2>3. cli'.wire = rest
    <3>1. \/ cli' = [cli EXCEPT !.wire = rest, !.lost = @ \cup Asked(rest)]
          \/ cli' = [cli EXCEPT !.wire = rest]
      BY <2>1
    <3>2. QED
      BY <1>1, <3>1 DEF Sockets
  <2>4. Len(rest) = Len(cli.wire) - n
    <3>1. cli.wire \in Seq(HalfLines)
      BY <1>1 DEF Sockets
    <3>2. \A i \in 1..Len(cli.wire) : cli.wire[i] \in HalfLines
      BY <3>1
    <3>3. QED
      BY <1>1, <3>2, SubSeqProperties
  <2>5. Len(cli.wire) - Len(cli'.wire) = n
    BY <1>1, <2>3, <2>4
  <2>6. \A c \in Callers : asker[c].pc = "wait" => c = d
    BY <2>2 DEF TypeInv, TypeOK
  <2>7. CASE cli.lost # {}
    <3>1. /\ packet \in Seq(HalfLines)
          /\ \A i \in DOMAIN packet : Mine(packet[i], d)
      BY <2>2, ReceivedMine
    <3>2. CASE Complete(packet, asker[d].q)
      <4> DEFINE first == packet[Answer(packet, asker[d].q)]
      <4> HIDE DEF packet
      <4>1. Answer(packet, asker[d].q) \in Found(packet, asker[d].q)
        BY <3>1, <3>2, AnswerFound DEF Complete
      <4>2. Mine(first, d) /\ Holds(first.q, asker[d].q)
        BY <3>1, <4>1 DEF Found
      <4> HIDE DEF first
      <4>3. \/ first.by = d /\ first.q = asker[d].q
            \/ first.q \in cli.lost /\ (first.q = asker[d].q \/ <<first.q, asker[d].q>> \in Covers)
        BY <4>2 DEF Mine, Holds
      <4> USE DEF packet, first
      <4>4. QED
        BY <2>5, <2>6, <2>7, <4>3 DEF AnswerOwn
    <3>3. CASE ~Complete(packet, asker[d].q)
      <4>1. asker' = [asker EXCEPT ![d].got = packet]
        BY <2>1, <3>3
      <4> HIDE DEF packet
      <4>2. asker'[d].pc = "wait"
        BY <1>1, <2>2, <4>1 DEF Askings
      <4>3. QED
        BY <2>6, <2>7, <4>2 DEF AnswerOwn
    <3>4. QED
      BY <3>2, <3>3
  <2>8. CASE cli.lost = {}
    <3>1. /\ packet \in Seq(HalfLines) /\ packet[1] = line[1]
          /\ \/ Len(packet) = 1
             \/ Len(packet) = 2 /\ packet[2] = line[2]
      BY <2>2, <2>8, Received DEF OwnInv
    <3>2. CASE Len(packet) = 1
      <4>1. ~Complete(packet, asker[d].q)
        BY <3>1, <3>2, LineHalf
      <4>2. /\ asker' = [asker EXCEPT ![d].got = packet] /\ hist' = hist
        BY <2>1, <4>1
      <4> HIDE DEF packet
      <4>3. asker'[d].pc = "wait"
        BY <1>1, <2>2, <4>2 DEF Askings
      <4>4. QED
        BY <1>1, <2>6, <4>2, <4>3 DEF AnswerOwn
    <3>3. CASE Len(packet) = 2
      <4>1. packet[2] = line[2]
        BY <3>1, <3>3
      <4> HIDE DEF packet
      <4>2. /\ Complete(packet, asker[d].q) /\ Ended(packet, asker[d].q)
            /\ packet[Answer(packet, asker[d].q)].by = d
            /\ packet[Answer(packet, asker[d].q)].q = asker[d].q
        BY <3>1, <3>3, <4>1, LineWhole
      <4> USE DEF packet
      <4>3. hist' = [hist EXCEPT !.crashed = ~Ended(packet, asker[d].q)]
        BY <2>1, <4>2
      <4>4. ~hist'.crashed
        BY <1>1, <4>2, <4>3
      <4>5. QED
        BY <2>5, <2>6, <4>2, <4>4 DEF AnswerOwn
    <3>4. QED
      BY <3>1, <3>2, <3>3
  <2>9. QED
    BY <2>7, <2>8
<1>3. ASSUME ~\E d \in Callers : Receive(d) PROVE AnswerOwn
  <2>1. ~hist'.crashed
    BY <1>1, <1>3 DEF Next, SlimThread, Discovered, NotDiscovered, Loop, Connect, ConnectFails,
       Retry, Silence, HangUp, Close, Message, Wake, Switch, Stop, Caller, Send,
       NotOpened, GiveUp, Lock, Up, Down, Drops
  <2>2. ASSUME NEW c \in Callers, asker[c].pc = "wait", asker'[c].pc = "idle"
        PROVE  cli'.wire = cli.wire
    <3>1. asker' # asker
      BY <2>2
    <3>2. PICK d \in Callers : \/ Send(d) \/ NotOpened(d) \/ GiveUp(d)
                               \/ \E q \in Questions : Lock(d, q)
      BY <1>3, <3>1 DEF Next, SlimThread, Discovered, NotDiscovered, Loop, Connect,
         ConnectFails, Retry, Silence, HangUp, Close, Message, Wake, Switch, Stop,
         Caller, Up, Down, Drops
    <3>3. mutex = c
      BY <2>2 DEF TypeInv, TypeOK
    <3>4. CASE GiveUp(d)
      BY <1>1, <3>4 DEF GiveUp, Sockets
    <3>5. CASE Send(d) \/ NotOpened(d) \/ \E q \in Questions : Lock(d, q)
      <4>1. asker[d].pc # "wait"
        BY <3>5 DEF Send, NotOpened, Lock
      <4>2. d # c
        BY <2>2, <4>1
      <4>3. asker'[c] = asker[c]
        BY <1>1, <3>5, <4>2 DEF Send, NotOpened, Lock, Returns
      <4>4. QED
        BY <2>2, <4>3
    <3>6. QED
      BY <3>2, <3>4, <3>5
  <2>3. QED
    BY <2>1, <2>2 DEF AnswerOwn
<1>4. QED
  BY <1>2, <1>3

(* An answer is the answer to the question its thread asked, and whole.  A *)
(* late one to a question that ended without it on the same socket passes  *)
(* for it only if it holds the text of the question asked.                 *)
THEOREM SessionAnswers == Spec => AnswersOwn
<1> DEFINE AllInv == TypeInv /\ OwnInv /\ LateInv
<1>1. Init => AllInv
  BY InitTyped, InitOwn, InitLate
<1>2. AllInv /\ [Next]_vars => AllInv'
  BY TypedStep, OwnStep, LateStep
<1>3. AllInv /\ [Next]_vars => [AnswerOwn]_vars
  BY AnswerStep
<1>4. QED
  BY <1>1, <1>2, <1>3, PTL DEF Spec, AnswersOwn
=============================================================================
