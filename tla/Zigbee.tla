------------------------------- MODULE Zigbee -------------------------------
(***************************************************************************)
(* internal/zigbee/zigbee.go and pkg/serial: TCP access to the Zigbee chip. *)
(* tcpWorker serves one client after the other: it kills Z3 (module Z3),   *)
(* finds out the speed of the chip, opens the serial port, and copies      *)
(* bytes both ways, from the chip to the client in a goroutine of its own. *)
(*                                                                         *)
(* A Serial is no more than a descriptor number: after Close the kernel    *)
(* gives the number to whatever is opened next, by any goroutine of the    *)
(* agent.  Sessions are numbered; Rest stands for the sockets of the    *)
(* rest of the agent.  What the bytes say is left out, whose they are not. *)
(***************************************************************************)
EXTENDS Z3

CONSTANTS
    MaxSession, \* bound on the clients that connect
    Fds,        \* descriptor numbers, the lowest free one is given out
    MGW,        \* app.Model is the Multimode Gateway
    BaudArg,    \* --zigbee.baud, 0 when it is absent
    ChipBaud,   \* the speed the chip runs at
    Others      \* the rest of the agent opens and closes sockets

Speeds == {38400, 115200}
Probed == IF MGW THEN Speeds ELSE {115200}
Sessions == 1..MaxSession
Rest == 0
Owners == Sessions \cup {Rest}

ASSUME ZigbeeAssumption ==
    /\ MaxSession \in Nat \ {0} /\ Fds \subseteq Nat /\ MGW \in BOOLEAN
    /\ BaudArg \in Nat /\ ChipBaud \in Speeds /\ Others \in BOOLEAN

VARIABLES
    pc,         \* tcpWorker
    n,          \* the session it serves, or served last
    client,     \* each session's client: new, up, left (it closed), closed (by the agent)
    table,      \* descriptor -> who holds it
    fd,         \* each session's Serial
    reader,     \* each session's reading goroutine: where it is, and which
                \* file a read it is in belongs to
    baudRate,
    took        \* reads that returned bytes: the reader, and whose bytes

tcpVars == <<pc, n, client, table, fd, reader, baudRate, took>>
vars == <<z3Vars, tcpVars>>

Init ==
    /\ Z3Init
    /\ pc = "accept" /\ n = 0
    /\ client = [s \in Sessions |-> "new"]
    /\ table = [f \in {} |-> Rest]
    /\ fd = [s \in Sessions |-> 0]
    /\ reader = [s \in Sessions |-> [at |-> "none", of |-> Rest]]
    /\ baudRate = BaudArg
    /\ took = {}

Free == Fds \ DOMAIN table
Lowest == CHOOSE f \in Free : \A g \in Free : f <= g
Opened(owner) == [f \in DOMAIN table \cup {Lowest} |-> IF f \in DOMAIN table THEN table[f] ELSE owner]
Closed(f) == [g \in DOMAIN table \ {f} |-> table[g]]

\* A process that was sent SIGKILL may still have the port open.
Z3HasPort == proc \in {"alive", "killed"}

Fatal ==
    /\ agent' = "exited"
    /\ UNCHANGED <<z3, z3stop, starts, proc, lineVars, pc, n, client, table, fd, reader, baudRate, took>>
-----------------------------------------------------------------------------
Accept ==
    /\ pc = "accept" /\ n < MaxSession
    /\ n' = n + 1
    /\ client' = [client EXCEPT ![n + 1] = "up"]
    /\ Z3Kill
    /\ pc' = "open"
    /\ UNCHANGED <<agent, z3, starts, lineVars, table, fd, reader, baudRate, took>>

AcceptFails == pc = "accept" /\ Fatal

\* open with no speed known: zigbeeResetON, a probe at 115200, and on MGW one at
\* 38400; each opens and closes the port.  The chip answers a reset sent at its own
\* speed, if nothing goes wrong; when neither is answered log.Fatal follows.
Probe ==
    /\ pc = "open" /\ baudRate = 0
    /\ \/ /\ ChipBaud \in Probed /\ baudRate' = ChipBaud
          /\ UNCHANGED <<z3Vars, pc, n, client, table, fd, reader, took>>
       \/ Fatal

\* Fault: only the first session opens the port.
OpenOnce ==
    /\ pc = "open" /\ baudRate \in Speeds /\ Free # {}
    /\ IF n = 1
       THEN table' = Opened(n) /\ fd' = [fd EXCEPT ![n] = Lowest]
       ELSE fd' = [fd EXCEPT ![n] = fd[n - 1]] /\ UNCHANGED table
    /\ reader' = [reader EXCEPT ![n].at = "next"]
    /\ pc' = "serve"
    /\ UNCHANGED <<z3Vars, n, client, baudRate, took>>

\* serial.Open, which knows two speeds, and the goroutine that reads.
Open ==
    /\ pc = "open" /\ baudRate # 0
    /\ \/ /\ baudRate \in Speeds /\ Free # {}
          /\ table' = Opened(n)
          /\ fd' = [fd EXCEPT ![n] = Lowest]
          /\ reader' = [reader EXCEPT ![n].at = "next"]
          /\ pc' = "serve"
          /\ UNCHANGED <<z3Vars, n, client, baudRate, took>>
       \/ Fatal

\* The loop from client to chip ends when the client has left, or a write to the
\* port failed.
Serve ==
    /\ pc = "serve" /\ client[n] = "left"
    /\ pc' = "close tcp"
    /\ UNCHANGED <<z3Vars, n, client, table, fd, reader, baudRate, took>>

WriteSerialFails ==
    /\ pc = "serve" /\ client[n] = "up"
    /\ pc' = "close tcp"
    /\ UNCHANGED <<z3Vars, n, client, table, fd, reader, baudRate, took>>

CloseTcp ==
    /\ pc = "close tcp"
    /\ client' = [client EXCEPT ![n] = "closed"]
    /\ pc' = "close serial"
    /\ UNCHANGED <<z3Vars, n, table, fd, reader, baudRate, took>>

\* Fault: the serial port is left open.
CloseSerialForgotten ==
    /\ pc = "close serial"
    /\ pc' = "join"
    /\ UNCHANGED <<z3Vars, n, client, table, fd, reader, baudRate, took>>

CloseSerial ==
    /\ pc = "close serial"
    /\ table' = Closed(fd[n])
    /\ pc' = "join"
    /\ UNCHANGED <<z3Vars, n, client, fd, reader, baudRate, took>>

\* Fault: no wg.Wait.
JoinSkipped ==
    /\ pc = "join"
    /\ pc' = "accept"
    /\ UNCHANGED <<z3Vars, n, client, table, fd, reader, baudRate, took>>

\* wg.Wait
Join ==
    /\ pc = "join" /\ reader[n].at = "done"
    /\ pc' = "accept"
    /\ UNCHANGED <<z3Vars, n, client, table, fd, reader, baudRate, took>>

tcpWorker ==
    \/ Accept \/ AcceptFails \/ Probe \/ Open
    \/ Serve \/ WriteSerialFails
    \/ CloseTcp \/ CloseSerial \/ Join
-----------------------------------------------------------------------------
(***************************************************************************)
(* The goroutine that reads the port for session s.                        *)
(***************************************************************************)
Goes(s, at) == reader' = [reader EXCEPT ![s].at = at]

\* Fault: it goes on after an error.
CallReadAnyway(s) ==
    /\ reader[s].at = "next" /\ fd[s] \in DOMAIN table
    /\ reader' = [reader EXCEPT ![s] = [at |-> "in", of |-> table[fd[s]]]]
    /\ UNCHANGED took

\* read(fd): a number that is not in use fails, one that is reads its file.
CallRead(s) ==
    /\ reader[s].at = "next"
    /\ IF fd[s] \in DOMAIN table
       THEN reader' = [reader EXCEPT ![s] = [at |-> "in", of |-> table[fd[s]]]]
       ELSE Goes(s, "done")
    /\ UNCHANGED took

\* It returns bytes, an error, or nothing, which is passed over: the port is
\* silent for 3 seconds (VTIME), or a socket was left by its peer.
ReadReturns(s) ==
    /\ reader[s].at = "in"
    /\ \/ Goes(s, "write") /\ took' = took \cup {[by |-> s, of |-> reader[s].of]}
       \/ Goes(s, "next") /\ UNCHANGED took
       \/ Goes(s, "done") /\ UNCHANGED took

\* tcp.Write: a peer that has left is noticed at once or at the next write.
WriteTcp(s) ==
    /\ reader[s].at = "write"
    /\ \/ client[s] \in {"up", "left"} /\ Goes(s, "next")
       \/ client[s] \in {"left", "closed"} /\ Goes(s, "done")
    /\ UNCHANGED took

Reader(s) ==
    /\ agent = "up"
    /\ CallRead(s) \/ ReadReturns(s) \/ WriteTcp(s)
    /\ UNCHANGED <<z3Vars, pc, n, client, table, fd, baudRate>>
-----------------------------------------------------------------------------
ClientLeaves(s) ==
    /\ client[s] = "up"
    /\ client' = [client EXCEPT ![s] = "left"]
    /\ UNCHANGED <<z3Vars, pc, n, table, fd, reader, baudRate, took>>

\* The rest of the agent: an accepted app, a redialled broker.
OtherOpens ==
    /\ Others /\ agent = "up" /\ Free # {} /\ Rest \notin {table[f] : f \in DOMAIN table}
    /\ table' = Opened(Rest)
    /\ UNCHANGED <<z3Vars, pc, n, client, fd, reader, baudRate, took>>

OtherCloses ==
    /\ agent = "up"
    /\ \E f \in DOMAIN table : table[f] = Rest /\ table' = Closed(f)
    /\ UNCHANGED <<z3Vars, pc, n, client, fd, reader, baudRate, took>>

TcpSystem == agent = "up" /\ tcpWorker

Next ==
    \/ TcpSystem
    \/ \E s \in Sessions : Reader(s) \/ ClientLeaves(s)
    \/ OtherOpens \/ OtherCloses
    \/ Z3Next /\ UNCHANGED tcpVars

Spec == Init /\ [][Next]_vars

\* The readers run, and tcpWorker but for Accept, which waits for a client, and
\* for errors; the chip takes what is written to it.
Fairness ==
    /\ Z3Fairness
    /\ WF_vars(agent = "up" /\ (Probe \/ Open \/ Serve \/ CloseTcp \/ CloseSerial \/ Join))
    /\ \A s \in Sessions : WF_vars(Reader(s))

FairSpec == Spec /\ Fairness
-----------------------------------------------------------------------------
TypeOK ==
    /\ Z3TypeOK
    /\ pc \in {"accept", "open", "serve", "close tcp", "close serial", "join"}
    /\ n \in 0..MaxSession
    /\ client \in [Sessions -> {"new", "up", "left", "closed"}]
    /\ DOMAIN table \subseteq Fds /\ table \in [DOMAIN table -> Owners]
    /\ fd \in [Sessions -> Fds \cup {0}]
    /\ reader \in [Sessions -> [at : {"none", "next", "in", "write", "done"}, of : Owners]]
    /\ baudRate \in Speeds \cup {0, BaudArg}
    /\ took \subseteq [by : Sessions, of : Owners]
    /\ pc = "serve" => fd[n] \in DOMAIN table /\ table[fd[n]] = n

\* Bytes that the chip sends during one session never reach the goroutine that
\* serves another, though all of them read under numbers the kernel reuses
\* (zigbee.go:160-164).
OwnSession == \A t \in took : t.of \in Sessions => t.of = t.by

\* When the next client is accepted nothing is left of the last: its connection
\* and the port are closed, its goroutine is gone (zigbee.go:160-164).
NothingLeft ==
    pc = "accept" =>
       /\ \A f \in DOMAIN table : table[f] = Rest
       /\ \A s \in 1..n : client[s] = "closed" /\ reader[s].at = "done"

\* No client gets the port before Z3 was told to go, and Z3 is never told and
\* then started (zigbee.go:103, z3.go:36).
ServedWithoutZ3 == pc = "serve" => proc # "alive"

\* A client that leaves makes way for the next, for its goroutine sees the port
\* closed whatever it was doing (zigbee.go:163-164); unless it goes on reading a
\* socket that was given its number, again and again without an end.
MakesWay(s) == client[s] = "left" ~> ((pc = "accept" /\ n = s) \/ agent = "exited")
ReadsSocket(s) == reader[s].at = "in" /\ reader[s].of = Rest
ClientsTakeTurns == \A s \in Sessions : MakesWay(s) \/ []<>ReadsSocket(s)

\* The same without the exception: "wait until serial port will stop reading"
\* (zigbee.go:163) comes to an end.
ClientsAlwaysTakeTurns == \A s \in Sessions : MakesWay(s)

\* "Zigbee devices can't work simultaniously with MiHome and ZHA/zigbee2mqtt"
\* (README.md:84): the port is opened for a client when Z3 is "stopped" (82).
PortNotShared == pc = "serve" => ~Z3HasPort

\* "wait until serial port will stop reading" (zigbee.go:163): the goroutine
\* reads the serial port and nothing else.
ReadsSerialOnly == \A t \in took : t.of # Rest
=============================================================================
