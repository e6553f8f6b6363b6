--------------------------- MODULE ServerSession ---------------------------
(***************************************************************************)
(* The session of one player with its LMS (slimproto.c) and the questions  *)
(* its threads put to the command line of the same server (main.c).  The   *)
(* slimproto thread discovers a server, greets it (HELO), stays with it    *)
(* until the connection is dead or the server sends the player elsewhere   *)
(* (serv), and starts again.  Meanwhile any thread may ask a question      *)
(* under cli_mutex, on a socket that the slimproto thread closes; a late   *)
(* answer stays in that socket.                                            *)
(***************************************************************************)
EXTENDS Integers, Sequences

CONSTANTS
  Servers,    \* the LMS of the network
  Configured, \* values of config.server; Nobody is "?"
  Caps,       \* whether serv names a synchronisation group
  Callers,    \* threads that ask; "slim" is the slimproto thread itself
  Questions,  \* commands of the CLI
  Covers,     \* <<r, q>>: the answer to r holds the text of q
  DeadAfter,  \* seconds without a message before a connection is dead (35)
  MaxFailed,  \* failed connections before the server is searched again (5)
  MaxWire,    \* bound: half lines under way on the CLI socket
  MaxWakes    \* bound: wakes after the server fell silent

Nobody == "nobody"   \* address 0, no socket, a free mutex

ASSUME SessionAssumption ==
  /\ Nobody \notin Servers \cup Callers
  /\ Configured \subseteq Servers \cup {Nobody}
  /\ Caps \subseteq BOOLEAN
  /\ DeadAfter \in Nat /\ MaxFailed \in Nat
  /\ MaxWire \in Nat /\ MaxWakes \in Nat
  /\ "slim" \in Callers
  /\ Covers \subseteq Questions \X Questions

VARIABLES
  up,       \* the servers that answer (external)
  running,  \* ctx->running
  slim,     \* the slimproto thread and the fields it owns
  link,     \* its connection: "none", "up", "reset", "silent" (peer gone)
  mutex,    \* who holds cli_mutex
  cli,      \* the CLI socket and the half lines the server sends on it
  asker,    \* the threads inside cli_send_cmd
  hist      \* history: capability promised, crash

vars == <<up, running, slim, link, mutex, cli, asker, hist>>

NoSocket == [to |-> Nobody, peer |-> "none", inSession |-> FALSE,
             lost |-> {}, wire |-> << >>]
Idle == [pc |-> "idle", q |-> Nobody, got |-> << >>]

(* slimproto_thread_init: the server is configured, or "?". *)
Init ==
  /\ up = Servers
  /\ running = TRUE
  /\ \E server \in Configured :
       slim = [pc |-> "discover", server |-> server, ip |-> server,
               addr |-> Nobody, newServer |-> Nobody, newCap |-> FALSE,
               reconnect |-> FALSE, failed |-> 0, timeouts |-> 0, wakes |-> 0]
  /\ link = "none"
  /\ mutex = Nobody
  /\ cli = NoSocket
  /\ asker = [c \in Callers |-> Idle]
  /\ hist = [capDue |-> FALSE, crashed |-> FALSE]

Slim(pc) == slim.pc = pc
Goes(pc) == slim' = [slim EXCEPT !.pc = pc]
-----------------------------------------------------------------------------
(* slimproto.                                                              *)

(* discover_server: to the address known, or to all; asked every 5 s until *)
(* there is an answer, which sets the address of the session.              *)
NextOf == [discover |-> "top", switch |-> "connect", rediscover |-> "close"]

Discovered(server) ==
  /\ slim.pc \in DOMAIN NextOf
  /\ server \in up
  /\ slim.ip \in {Nobody, server}
  /\ slim' = [slim EXCEPT !.ip = server, !.addr = server, !.pc = NextOf[slim.pc]]
  /\ UNCHANGED <<up, running, link, mutex, cli, asker, hist>>

NotDiscovered ==
  /\ slim.pc \in DOMAIN NextOf
  /\ ~running
  /\ slim' = [slim EXCEPT !.ip = Nobody, !.addr = Nobody, !.pc = NextOf[slim.pc]]
  /\ UNCHANGED <<up, running, link, mutex, cli, asker, hist>>

Loop ==
  /\ Slim("top")
  /\ IF ~running THEN Goes("ended")
     ELSE IF slim.newServer = Nobody THEN Goes("connect")
     ELSE slim' = [slim EXCEPT !.pc = "switch", !.ip = slim.newServer,
                     !.newServer = Nobody, !.reconnect = FALSE]
  /\ UNCHANGED <<up, running, link, mutex, cli, asker, hist>>

(* The connection is made and HELO sent: it says whether this is a         *)
(* reconnection, and carries the capability of serv.                       *)
Connect ==
  /\ Slim("connect")
  /\ slim.addr \in up
  /\ slim' = [slim EXCEPT !.pc = "run", !.failed = 0, !.newCap = FALSE]
  /\ link' = "up"
  /\ hist' = [hist EXCEPT !.capDue = FALSE]
  /\ UNCHANGED <<up, running, mutex, cli, asker>>

ConnectFails ==
  /\ Slim("connect")
  /\ slim.addr \notin up
  /\ Goes("sleep")
  /\ UNCHANGED <<up, running, link, mutex, cli, asker, hist>>

(* Mutant: a server that is gone is searched at its old address. *)
RetrySame ==
  /\ Slim("sleep")
  /\ Goes("rediscover")
  /\ UNCHANGED <<up, running, link, mutex, cli, asker, hist>>

(* After 5 s: a server that was not configured is searched again when it   *)
(* was missing too often.                                                  *)
Retry ==
  /\ Slim("sleep")
  /\ LET failed == IF slim.failed > MaxFailed THEN slim.failed ELSE slim.failed + 1 IN
       IF slim.server # Nobody THEN Goes("close")
       ELSE IF failed > MaxFailed
         THEN slim' = [slim EXCEPT !.pc = "rediscover", !.failed = failed, !.ip = Nobody]
         ELSE slim' = [slim EXCEPT !.pc = "close", !.failed = failed]
  /\ UNCHANGED <<up, running, link, mutex, cli, asker, hist>>

(* Mutant: the CLI socket outlives the session. *)
CloseSession ==
  /\ Slim("close")
  /\ link' = "none"
  /\ slim' = [slim EXCEPT !.pc = "top", !.newCap = FALSE]
  /\ UNCHANGED <<up, running, mutex, cli, asker, hist>>

(* slimproto_run has returned: the CLI socket goes with the session, and   *)
(* so does a capability that was not used.                                 *)
Close ==
  /\ Slim("close")
  /\ mutex = Nobody
  /\ cli' = NoSocket
  /\ link' = "none"
  /\ slim' = [slim EXCEPT !.pc = "top", !.newCap = FALSE]
  /\ UNCHANGED <<up, running, mutex, asker, hist>>
-----------------------------------------------------------------------------
(* slimproto_run: the thread may itself be inside a question (SQ_VOLUME).  *)
Attends == Slim("run") /\ asker["slim"].pc = "idle"

Leaves == [slim EXCEPT !.pc = "close", !.reconnect = TRUE, !.timeouts = 0, !.wakes = 0]

(* An event closes a CLI socket unused for 15 minutes, if nobody uses it.  *)
CloseIdleCli ==
  \/ UNCHANGED cli
  \/ mutex = Nobody /\ cli.to # Nobody /\ cli' = NoSocket

(* wait_readwake has something to read: any message proves life. *)
Message ==
  /\ Attends /\ link = "up"
  /\ slim' = [slim EXCEPT !.timeouts = 0]
  /\ CloseIdleCli
  /\ UNCHANGED <<up, running, link, mutex, asker, hist>>

(* process_serv: the server sends the player away, with a synchronisation  *)
(* group to be told to the next one or without.                            *)
Switch(server, cap) ==
  /\ Attends /\ link = "up"
  /\ slim' = [Leaves EXCEPT !.newServer = server, !.newCap = cap]
  /\ hist' = [hist EXCEPT !.capDue = cap]
  /\ UNCHANGED <<up, running, link, mutex, cli, asker>>

(* wake_controller by another thread: for the count of silent seconds it   *)
(* is as good as a message.                                                *)
Wake ==
  /\ Attends /\ link # "up" /\ slim.wakes < MaxWakes
  /\ slim' = [slim EXCEPT !.timeouts = 0, !.wakes = @ + 1]
  /\ CloseIdleCli
  /\ UNCHANGED <<up, running, link, mutex, asker, hist>>

(* A second without anything. *)
Silence ==
  /\ Attends
  /\ slim' = IF slim.timeouts + 1 > DeadAfter THEN Leaves
             ELSE [slim EXCEPT !.timeouts = @ + 1]
  /\ UNCHANGED <<up, running, link, mutex, cli, asker, hist>>

HangUp ==
  /\ Attends
  /\ link = "reset" \/ ~running
  /\ slim' = Leaves
  /\ UNCHANGED <<up, running, link, mutex, cli, asker, hist>>

(* slimproto_close asks the thread to end (sq_wipe_device).                *)
Stop ==
  /\ running
  /\ running' = FALSE
  /\ UNCHANGED <<up, slim, link, mutex, cli, asker, hist>>
-----------------------------------------------------------------------------
(* Mutant: any number of threads use the socket. *)
LockShared(c, q) ==
  /\ running /\ Len(cli.wire) < MaxWire
  /\ asker[c].pc = "idle"
  /\ c = "slim" => Slim("run") /\ link = "up"
  /\ mutex' = c
  /\ asker' = [asker EXCEPT ![c] = [Idle EXCEPT !.pc = "open", !.q = q]]
  /\ UNCHANGED <<up, running, slim, link, cli, hist>>

(* cli_send_cmd.  The slimproto thread asks while it obeys a message, and  *)
(* nobody once the context is no longer in use.                            *)
Lock(c, q) ==
  /\ running /\ Len(cli.wire) < MaxWire
  /\ asker[c].pc = "idle" /\ mutex = Nobody
  /\ c = "slim" => Slim("run") /\ link = "up"
  /\ mutex' = c
  /\ asker' = [asker EXCEPT ![c] = [Idle EXCEPT !.pc = "open", !.q = q]]
  /\ UNCHANGED <<up, running, slim, link, cli, hist>>

Line(c, q) ==
  <<[q |-> q, by |-> c, end |-> FALSE],
    [q |-> q, by |-> c, end |-> TRUE]>>

(* The socket is kept, or opened to whatever slimproto_ip is now, and the  *)
(* command is sent; a peer that is alive will answer.  Reading the address *)
(* and connecting to it (250 ms) are one step, and address 0, which is     *)
(* this host, is one where no LMS answers.                                 *)
Send(c) ==
  /\ asker[c].pc = "open"
  /\ LET fresh  == [NoSocket EXCEPT !.to = slim.ip, !.peer = "up",
                                    !.inSession = Slim("run")]
         socket == IF cli.to # Nobody THEN cli ELSE fresh
     IN /\ cli.to # Nobody \/ slim.ip \in up
        /\ cli' = IF socket.peer = "up"
                    THEN [socket EXCEPT !.wire = @ \o Line(c, asker[c].q)]
                    ELSE socket
  /\ asker' = [asker EXCEPT ![c].pc = "wait"]
  /\ UNCHANGED <<up, running, slim, link, mutex, hist>>

(* Mutant: the early return forgets the mutex. *)
NotOpenedLocked(c) ==
  /\ asker[c].pc = "open"
  /\ cli.to = Nobody /\ slim.ip \notin up
  /\ asker' = [asker EXCEPT ![c] = Idle]
  /\ UNCHANGED <<up, running, slim, link, mutex, cli, hist>>

(* The question ends, with an answer or with none. *)
Returns(c) ==
  /\ asker' = [asker EXCEPT ![c] = Idle]
  /\ mutex' = Nobody

NotOpened(c) ==
  /\ asker[c].pc = "open"
  /\ cli.to = Nobody /\ slim.ip \notin up
  /\ Returns(c)
  /\ UNCHANGED <<up, running, slim, link, cli, hist>>

(* What was received is searched for the text of the question as soon as   *)
(* it holds the end of any line; the answer is what follows the text, up   *)
(* to the last end of line: there must be one behind the text.             *)
Holds(r, q) == r = q \/ <<r, q>> \in Covers

(* Mutant: any line is the answer. *)
FoundAny(packet, q) == {i \in DOMAIN packet : ~packet[i].end}

Found(packet, q) == {i \in DOMAIN packet : ~packet[i].end /\ Holds(packet[i].q, q)}
Complete(packet, q) ==
  (\E i \in DOMAIN packet : packet[i].end) /\ Found(packet, q) # {}
Answer(packet, q) == CHOOSE i \in Found(packet, q) : \A j \in Found(packet, q) : i <= j
Ended(packet, q) == \E i \in DOMAIN packet : i > Answer(packet, q) /\ packet[i].end

(* The questions that half lines answer.  Those whose answers are still    *)
(* under way when a question ends are remembered in cli.lost.              *)
Asked(lines) == {lines[i].q : i \in DOMAIN lines}

Receive(c) ==
  /\ asker[c].pc = "wait"
  /\ \E n \in 1..Len(cli.wire) :
       LET packet == asker[c].got \o SubSeq(cli.wire, 1, n)
           rest   == SubSeq(cli.wire, n + 1, Len(cli.wire))
           q      == asker[c].q
       IN IF Complete(packet, q)
            THEN /\ cli' = [cli EXCEPT !.wire = rest, !.lost = @ \cup Asked(rest)]
                 /\ hist' = [hist EXCEPT !.crashed = ~Ended(packet, q)]
                 /\ Returns(c)
            ELSE /\ cli' = [cli EXCEPT !.wire = rest]
                 /\ asker' = [asker EXCEPT ![c].got = packet]
                 /\ UNCHANGED <<mutex, hist>>
  /\ UNCHANGED <<up, running, slim, link>>

(* Half a second without an answer, or the peer has closed: what comes     *)
(* later stays in the socket.                                              *)
GiveUp(c) ==
  /\ asker[c].pc = "wait"
  /\ cli' = [cli EXCEPT !.lost = @ \cup {asker[c].q}]
  /\ Returns(c)
  /\ UNCHANGED <<up, running, slim, link, hist>>
-----------------------------------------------------------------------------
(* The servers (external): one goes down, and its connections are reset or *)
(* fall silent; it comes back; it closes one of the connections, or sends   *)
(* a packet that makes the player close it.                                *)
Gone == [cli EXCEPT !.peer = "none", !.wire = << >>]

Down(server, how) ==
  /\ server \in up
  /\ up' = up \ {server}
  /\ link' = IF link = "up" /\ slim.addr = server THEN how ELSE link
  /\ cli' = IF cli.to = server /\ cli.peer = "up" THEN Gone ELSE cli
  /\ UNCHANGED <<running, slim, mutex, asker, hist>>

Up(server) ==
  /\ server \notin up
  /\ up' = up \cup {server}
  /\ UNCHANGED <<running, slim, link, mutex, cli, asker, hist>>

Drops ==
  /\ \/ cli.peer = "up" /\ cli' = Gone /\ UNCHANGED link
     \/ link = "up" /\ link' = "reset" /\ UNCHANGED cli
  /\ UNCHANGED <<up, running, slim, mutex, asker, hist>>
-----------------------------------------------------------------------------
SlimThread ==
  \/ \E server \in Servers : Discovered(server)
  \/ NotDiscovered \/ Loop \/ Connect \/ ConnectFails \/ Retry
  \/ Silence \/ HangUp

Caller(c) == Send(c) \/ NotOpened(c) \/ Receive(c) \/ GiveUp(c)

Next ==
  /\ ~hist.crashed
  /\ \/ SlimThread \/ Close
     \/ Message \/ Wake
     \/ \E server \in Servers, cap \in Caps : Switch(server, cap)
     \/ Stop
     \/ \E c \in Callers : Caller(c) \/ \E q \in Questions : Lock(c, q)
     \/ \E server \in Servers :
          Up(server) \/ \E how \in {"reset", "silent"} : Down(server, how)
     \/ Drops

Spec == Init /\ [][Next]_vars

(* Each thread goes on, and the slimproto thread gets cli_mutex some day:  *)
(* the others ask at most every few seconds.                               *)
FairSpec ==
  /\ Spec
  /\ WF_vars(~hist.crashed /\ SlimThread)
  /\ SF_vars(~hist.crashed /\ Close)
  /\ \A c \in Callers : WF_vars(~hist.crashed /\ Caller(c))
-----------------------------------------------------------------------------
(* Type invariant. *)
HalfLines == [q : Questions, by : Callers, end : BOOLEAN]
Steps == {"discover", "switch", "rediscover", "top", "connect", "sleep", "run", "close", "ended"}
Sessions == [pc : Steps, server : Configured, ip : Servers \cup {Nobody},
             addr : Servers \cup {Nobody}, newServer : Servers \cup {Nobody},
             newCap : BOOLEAN, reconnect : BOOLEAN, failed : 0..MaxFailed + 1,
             timeouts : 0..DeadAfter, wakes : 0..MaxWakes]
Sockets == [to : Servers \cup {Nobody}, peer : {"none", "up"}, inSession : BOOLEAN,
            lost : SUBSET Questions, wire : Seq(HalfLines)]
Askings == [pc : {"idle", "open", "wait"}, q : Questions \cup {Nobody}, got : Seq(HalfLines)]

TypeOK ==
  /\ up \subseteq Servers /\ running \in BOOLEAN
  /\ slim \in Sessions
  /\ link \in {"none", "up", "reset", "silent"}
  /\ (link = "none" => ~Slim("run")) /\ (link # "none" => slim.pc \in {"run", "close"})
  /\ mutex \in Callers \cup {Nobody}
  /\ cli \in Sockets
  /\ asker \in [Callers -> Askings]
  /\ hist.capDue \in BOOLEAN
  /\ \A c \in Callers : (asker[c].pc # "idle") = (mutex = c)

(* As long as a session runs, a CLI socket opened during a session is one  *)
(* to its server: no question goes to a server the player has left.  (One  *)
(* opened between two sessions may be: cli_open_socket reads slimproto_ip  *)
(* while the slimproto thread moves on, and the socket stays.)             *)
CliOfSession == Slim("run") /\ cli.inSession => cli.to = slim.addr

(* An answer is the answer to the question its thread asked, and complete. *)
(* A late answer to a question that ended without it on the same socket    *)
(* passes for this one only if it holds the text of this one (a line it    *)
(* ends too early is the other thing it can do): the next question that    *)
(* has nothing in common with the one given up gets its own answer.        *)
AnswerOwn ==
  /\ \A c \in Callers :
       asker[c].pc = "wait" /\ asker'[c].pc = "idle" /\ cli'.wire # cli.wire =>
         LET n      == Len(cli.wire) - Len(cli'.wire)
             packet == asker[c].got \o SubSeq(cli.wire, 1, n)
             q      == asker[c].q
             line   == packet[Answer(packet, q)]
         IN \/ line.by = c /\ line.q = q
            \/ line.q \in cli.lost /\ (line.q = q \/ <<line.q, q>> \in Covers)
  /\ hist'.crashed => cli.lost # {}
AnswersOwn == [][AnswerOwn]_vars

(* Every question ends, and with it the hold on cli_mutex that the session *)
(* needs to close, whatever the server does.                               *)
AskingEnds ==
  \A c \in Callers : mutex = c ~> mutex # c \/ hist.crashed

(* Once some servers stay up and the others stay down, a player without a  *)
(* configured server always gets back to one, however its connection died, *)
(* and a configured player does if the server it was last sent to stays    *)
(* up.  Two cases are left out because the player is lost in them: serv    *)
(* named a server that is gone, which discover_server then asks for ever;  *)
(* and a configured player was sent to a server that died later, which is  *)
(* never searched again (slimproto.c:858).                                 *)
SessionComesBack ==
  \A standing \in SUBSET Servers \ {{}} :
    <>[](/\ running /\ up = standing /\ ~Slim("switch")
         /\ slim.server = Nobody \/ slim.ip \in standing)
      => []<>(hist.crashed \/ (Slim("run") /\ link = "up"))
-----------------------------------------------------------------------------
Greets == link = "none" /\ link' = "up"

(* The capability that came with serv is told to the new server ("add on   *)
(* any capablity to be sent to the new server", slimproto.c:870).          *)
CapabilityTold == [][Greets => slim.newCap = hist.capDue]_vars
=============================================================================
