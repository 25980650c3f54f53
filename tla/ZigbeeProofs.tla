---------------------------- MODULE ZigbeeProofs ----------------------------
(***************************************************************************)
(* Theorems about module Zigbee, for any number of sessions, starts of Z3, *)
(* lines, descriptor numbers and speeds: the types of its state, that no   *)
(* byte of one session is read for another, that nothing of a session is   *)
(* left when the next client is accepted, and that no client is served     *)
(* while a Z3 that was not told to go is running.                          *)
(*                                                                         *)
(* The argument: only the session that is being served has a goroutine and *)
(* an entry in the descriptor table.  While the port is open its number is *)
(* the session's own; after the port is closed no entry of any session is  *)
(* left, so what the goroutine may still read under that number is a       *)
(* socket of the rest of the agent.                                        *)
(***************************************************************************)
EXTENDS Zigbee, TLAPS, WellFoundedInduction

Buffers == [slot : [1..Slots -> 0..MaxLine], rd : 0..Slots, wr : 0..Slots]
Slices == [start : 1..MaxStart, slot : 1..Slots, line : 1..MaxLine]

\* The bufio.Reader holds lines up to wr and has handed out those up to rd.
Holds(b) == b.rd <= b.wr /\ (\A i \in 1..b.wr : b.slot[i] > 0)

ProcessType ==
    /\ agent \in {"up", "exited"} /\ z3 \in {"check", "read", "publish", "off"}
    /\ z3stop \in BOOLEAN /\ starts \in 0..MaxStart
    /\ proc \in {"none", "alive", "killed", "gone"}
    /\ z3 \in {"read", "publish"} => proc \in {"alive", "killed", "gone"}
    /\ proc # "none" => starts > 0

LineType ==
    /\ printed \in 0..MaxLine /\ pipe \in 0..printed
    /\ buffer \in [1..MaxStart -> Buffers]
    /\ \A k \in 1..MaxStart : Holds(buffer[k])
    /\ online \in BOOLEAN
    /\ z3 = "publish" => buffer[starts].rd > 0

OutType == out \in Seq(Slices) /\ Len(out) <= QueueLen

\* Once told to go, Z3 is not alive: it was signalled, and is not started again
\* (z3.go:16-29, 34-54).
Told == z3stop => proc # "alive"

Z3Inv == ProcessType /\ LineType /\ OutType /\ Told

Readers == [at : {"none", "next", "in", "write", "done"}, of : Owners]

WorkerType ==
    /\ pc \in {"accept", "open", "serve", "close tcp", "close serial", "join"}
    /\ n \in 0..MaxSession
    /\ pc # "accept" => n > 0
    /\ baudRate \in Speeds \cup {0, BaudArg}
    /\ n > 0 => z3stop

ClientType == client \in [Sessions -> {"new", "up", "left", "closed"}]
FdType == fd \in [Sessions -> Fds \cup {0}]
ReaderType == reader \in [Sessions -> Readers]
TookType == took \subseteq [by : Sessions, of : Owners]

\* The entries of the descriptor table (zigbee.go:127-164): the served session's
\* port under its own number, and sockets.
Serving == {"serve", "close tcp", "close serial"}
Port ==
    /\ DOMAIN table \subseteq Fds /\ table \in [DOMAIN table -> Owners]
    /\ pc \in Serving => fd[n] \in DOMAIN table /\ table[fd[n]] = n
    /\ \A f \in DOMAIN table : table[f] # Rest => pc \in Serving /\ f = fd[n]

\* One session after the other.
Waiting(s) == s > n \/ (s = n /\ pc = "open")
Over(s) == s < n \/ (s = n /\ pc = "accept")
Turns ==
    \A s \in Sessions :
       /\ Waiting(s) => reader[s].at = "none"
       /\ Over(s) => client[s] = "closed" /\ reader[s].at = "done"
       /\ s = n /\ pc \in {"close serial", "join"} => client[s] = "closed"

\* A read that goes on is a read of the session's own port, or of a socket.
OwnRead == \A s \in Sessions :
    reader[s].at = "in" /\ reader[s].of \in Sessions => reader[s].of = s

IInv ==
    /\ Z3Inv
    /\ WorkerType /\ ClientType /\ FdType /\ ReaderType /\ TookType
    /\ Port /\ Turns /\ OwnRead /\ OwnSession
-----------------------------------------------------------------------------
LEMMA Constants ==
    /\ MaxSession \in Nat \ {0} /\ Fds \subseteq Nat /\ MaxStart \in Nat /\ MaxLine \in Nat
    /\ Slots \in Nat \ {0} /\ QueueLen \in Nat \ {0} /\ BaudArg \in Nat /\ ChipBaud \in Speeds
  BY ZigbeeAssumption, Z3Assumption

LEMMA Z3Types == Z3Inv => Z3TypeOK
  BY DEF Z3Inv, ProcessType, LineType, OutType, Z3TypeOK, Buffers, Slices

LEMMA Implies == IInv => TypeOK /\ OwnSession /\ NothingLeft /\ ServedWithoutZ3
  <1> SUFFICES ASSUME IInv PROVE TypeOK /\ OwnSession /\ NothingLeft /\ ServedWithoutZ3
    OBVIOUS
  <1>1. TypeOK
    BY Z3Types DEF IInv, WorkerType, ClientType, FdType, ReaderType, TookType, Port, Serving, Readers, TypeOK
  <1>2. NothingLeft
    <2> SUFFICES ASSUME pc = "accept"
                 PROVE  /\ \A f \in DOMAIN table : table[f] = Rest
                        /\ \A s \in 1..n : client[s] = "closed" /\ reader[s].at = "done"
      BY DEF NothingLeft
    <2>1. \A f \in DOMAIN table : table[f] = Rest
      BY DEF IInv, Port, Serving
    <2>2. ASSUME NEW s \in 1..n PROVE s \in Sessions /\ Over(s)
      BY <2>2, Constants DEF IInv, WorkerType, Sessions, Over
    <2> QED
      BY <2>1, <2>2 DEF IInv, Turns
  <1>3. ServedWithoutZ3
    BY DEF IInv, Z3Inv, Told, WorkerType, ServedWithoutZ3
  <1> QED
    BY <1>1, <1>2, <1>3 DEF IInv

LEMMA InvInit == Init => IInv
  <1> SUFFICES ASSUME Init PROVE IInv
    OBVIOUS
  <1>1. EmptyBuffer \in Buffers /\ Holds(EmptyBuffer)
    BY Constants DEF EmptyBuffer, Buffers, Holds
  <1>2. Z3Inv
    <2>1. agent = "up" /\ z3 \in {"check", "off"} /\ z3stop = FALSE /\ starts = 0 /\ proc = "none"
      BY DEF Init, Z3Init
    <2>2. 0 \in 0..MaxStart
      BY Constants
    <2>3. ProcessType /\ Told
      BY <2>1, <2>2, Zenon DEF ProcessType, Told
    <2>4. LineType
      BY <1>1, Constants DEF Init, Z3Init, LineType
    <2>5. OutType
      BY Constants DEF Init, Z3Init, OutType
    <2> QED
      BY <2>3, <2>4, <2>5 DEF Z3Inv
  <1>3. WorkerType /\ ClientType /\ FdType /\ TookType /\ OwnSession
    BY Constants DEF Init, WorkerType, ClientType, FdType, TookType, OwnSession, Speeds
  <1>4. [at |-> "none", of |-> Rest] \in Readers
    BY DEF Readers, Owners
  <1>5. ReaderType
    BY <1>4 DEF Init, ReaderType
  <1>6. Turns /\ OwnRead
    BY DEF Init, Turns, OwnRead, Waiting, Over, Sessions
  <1>7. Port
    BY DEF Init, Port, Serving
  <1> QED
    BY <1>2, <1>3, <1>5, <1>6, <1>7 DEF IInv
-----------------------------------------------------------------------------
(***************************************************************************)
(* Z3.                                                                     *)
(***************************************************************************)
LEMMA Advances ==
    ASSUME NEW b \in Buffers, Holds(b), b.rd < b.wr,
           NEW a, a = [b EXCEPT !.rd = @ + 1]
    PROVE  a \in Buffers /\ a.rd > 0 /\ Holds(a)
  <1>1. a.rd = b.rd + 1 /\ a.wr = b.wr /\ a.slot = b.slot
    BY DEF Buffers
  <1>2. b.rd \in 0..Slots /\ b.wr \in 0..Slots
    BY DEF Buffers
  <1>3. a.rd \in 0..Slots
    BY <1>1, <1>2, Constants
  <1>4. a \in Buffers
    BY <1>1, <1>3 DEF Buffers
  <1> QED
    BY <1>1, <1>2, <1>4 DEF Holds

LEMMA ReadsLine ==
    ASSUME Z3Inv, ReadLine
    PROVE  LineType'
  <1>1. starts \in 1..MaxStart /\ z3' = "publish" /\ starts' = starts
    BY Constants DEF Z3Inv, ProcessType, ReadLine
  <1>2. /\ printed \in Nat /\ printed <= MaxLine /\ pipe \in Nat /\ pipe <= printed
        /\ printed' = printed /\ online' = online /\ online \in BOOLEAN
    BY Constants DEF Z3Inv, LineType, ReadLine
  <1>3. buffer \in [1..MaxStart -> Buffers] /\ (\A k \in 1..MaxStart : Holds(buffer[k]))
    BY DEF Z3Inv, LineType
  <1>4. buffer[starts] \in Buffers /\ Holds(buffer[starts])
    BY <1>1, <1>3
  <1>5. ASSUME NEW b \in Buffers, Holds(b), b.rd > 0, buffer' = [buffer EXCEPT ![starts] = b], pipe' \in 0..printed
        PROVE  LineType'
    BY <1>1, <1>2, <1>3, <1>5, Constants DEF LineType
  <1>6. PICK k \in 0..Slots :
          /\ k <= pipe /\ (k = 0 <=> buffer[starts].rd < buffer[starts].wr)
          /\ pipe' = pipe - k
          /\ buffer' = IF k = 0 THEN [buffer EXCEPT ![starts].rd = @ + 1]
                                ELSE [buffer EXCEPT ![starts] = Fill(k)]
    BY DEF ReadLine
  <1>7. pipe' \in 0..printed /\ k \in Nat
    BY <1>2, <1>6, Constants
  <1>8. CASE k = 0
    <2> DEFINE b == [buffer[starts] EXCEPT !.rd = @ + 1]
    <2>1. buffer[starts].rd < buffer[starts].wr
      BY <1>6, <1>8
    <2>2. b \in Buffers /\ b.rd > 0 /\ Holds(b)
      BY <1>4, <2>1, Advances
    <2>3. buffer' = [buffer EXCEPT ![starts] = b]
      BY <1>6, <1>8
    <2> HIDE DEF b
    <2> QED
      BY <1>5, <1>7, <2>2, <2>3
  <1>9. CASE k # 0
    <2>1. ASSUME NEW i \in 1..Slots
          PROVE  (IF i <= k THEN printed - pipe + i ELSE buffer[starts].slot[i]) \in 0..MaxLine
      <3>1. CASE i <= k
        BY <3>1, <1>2, <1>6, <1>7, Constants
      <3>2. CASE ~(i <= k)
        BY <3>2, <1>4 DEF Buffers
      <3> QED
        BY <3>1, <3>2
    <2>2. Fill(k) = [slot |-> [i \in 1..Slots |-> IF i <= k THEN printed - pipe + i ELSE buffer[starts].slot[i]],
                     rd |-> 1, wr |-> k]
      BY DEF Fill
    <2>3. Fill(k) \in Buffers /\ Fill(k).rd = 1
      BY <2>1, <2>2, <1>6, <1>9, Constants DEF Buffers
    <2>4. Holds(Fill(k))
      BY <1>2, <1>6, <1>7, <1>9, <2>2, Constants DEF Holds
    <2>5. buffer' = [buffer EXCEPT ![starts] = Fill(k)]
      BY <1>6, <1>9
    <2>6. Fill(k).rd > 0
      BY <2>3
    <2> QED
      BY <1>5, <1>7, <2>3, <2>4, <2>5, <2>6
  <1> QED
    BY <1>8, <1>9

LEMMA PublishesLine ==
    ASSUME Z3Inv, PublishLine
    PROVE  OutType'
  <1> DEFINE at == buffer[starts].rd
             slice == [start |-> starts, slot |-> at, line |-> buffer[starts].slot[at]]
  <1>1. starts \in 1..MaxStart /\ z3 = "publish"
    BY Constants DEF Z3Inv, ProcessType, PublishLine
  <1>2. buffer[starts] \in Buffers /\ Holds(buffer[starts]) /\ at > 0
    BY <1>1 DEF Z3Inv, LineType
  <1>3. at \in 1..Slots /\ buffer[starts].slot[at] \in 1..MaxLine
    BY <1>2, Constants DEF Buffers, Holds
  <1>4. slice \in Slices
    BY <1>1, <1>3 DEF Slices
  <1>5. CASE online
    <2>1. Len(out) < QueueLen /\ out' = Append(out, slice)
      BY <1>5 DEF PublishLine
    <2>2. out \in Seq(Slices)
      BY DEF Z3Inv, OutType
    <2>3. out' \in Seq(Slices) /\ Len(out') = Len(out) + 1 /\ Len(out) \in Nat
      BY <1>4, <2>1, <2>2
    <2> QED
      BY <2>1, <2>3, Constants DEF OutType
  <1>6. CASE ~online
    BY <1>6 DEF PublishLine, Z3Inv, OutType
  <1> QED
    BY <1>5, <1>6

\* What leaves the lines alone, keeps their types.
LEMMA LinesStay ==
    ASSUME Z3Inv, UNCHANGED lineVars, starts' = starts \/ z3' # "publish", z3' = "publish" => z3 = "publish"
    PROVE  LineType' /\ OutType'
  BY DEF Z3Inv, LineType, OutType, lineVars

LEMMA Z3Step ==
    ASSUME Z3Inv, Z3Next
    PROVE  Z3Inv' /\ z3stop' = z3stop
  <1>1. CASE Z3Start
    <2>1. LineType' /\ OutType' /\ z3stop' = z3stop
      BY <1>1, LinesStay DEF Z3Start
    <2>2. ProcessType' /\ Told'
      BY <1>1, Constants DEF Z3Start, Z3Inv, ProcessType, Told
    <2> QED
      BY <2>1, <2>2 DEF Z3Inv
  <1>2. CASE Z3Stop \/ Z3Wait
    <2>1. LineType' /\ OutType' /\ z3stop' = z3stop
      BY <1>2, LinesStay DEF Z3Stop, Z3Wait
    <2>2. ProcessType' /\ Told'
      BY <1>2 DEF Z3Stop, Z3Wait, Z3Inv, ProcessType, Told
    <2> QED
      BY <2>1, <2>2 DEF Z3Inv
  <1>3. CASE ReadLine
    <2>1. ProcessType' /\ Told' /\ OutType' /\ z3stop' = z3stop
      BY <1>3 DEF ReadLine, Z3Inv, ProcessType, Told, OutType
    <2> QED
      BY <1>3, <2>1, ReadsLine DEF Z3Inv
  <1>4. CASE PublishLine
    <2>1. ProcessType' /\ Told' /\ LineType' /\ z3stop' = z3stop
      BY <1>4 DEF PublishLine, Z3Inv, ProcessType, Told, LineType
    <2> QED
      BY <1>4, <2>1, PublishesLine DEF Z3Inv
  <1>5. CASE Encode
    <2>1. ProcessType' /\ Told' /\ LineType' /\ z3stop' = z3stop
      BY <1>5 DEF Encode, Z3Inv, ProcessType, Told, LineType
    <2>2. out \in Seq(Slices) /\ Len(out) <= QueueLen /\ out # <<>> /\ out' = Tail(out)
      BY <1>5 DEF Encode, Z3Inv, OutType
    <2>3. Tail(out) \in Seq(Slices) /\ Len(Tail(out)) = Len(out) - 1 /\ Len(out) \in Nat
      BY <2>2
    <2>4. OutType'
      BY <2>2, <2>3, Constants DEF OutType
    <2> QED
      BY <2>1, <2>4 DEF Z3Inv
  <1>6. CASE Prints
    <2>1. ProcessType' /\ Told' /\ OutType' /\ z3stop' = z3stop
      BY <1>6 DEF Prints, Z3Inv, ProcessType, Told, OutType
    <2>2. LineType'
      BY <1>6, Constants DEF Prints, Z3Inv, LineType
    <2> QED
      BY <2>1, <2>2 DEF Z3Inv
  <1>7. CASE Exit("alive") \/ Exit("killed")
    <2>1. LineType' /\ OutType' /\ z3stop' = z3stop
      BY <1>7, LinesStay DEF Exit
    <2>2. ProcessType' /\ Told'
      BY <1>7 DEF Exit, Z3Inv, ProcessType, Told
    <2> QED
      BY <2>1, <2>2 DEF Z3Inv
  <1> QED
    BY <1>1, <1>2, <1>3, <1>4, <1>5, <1>6, <1>7 DEF Z3Next, Z3System, z3Worker

\* Whatever leaves Z3's state alone, keeps its invariant.
LEMMA Z3Stays == Z3Inv /\ UNCHANGED z3Vars => Z3Inv' /\ z3stop' = z3stop
  BY DEF Z3Inv, z3Vars, lineVars, ProcessType, LineType, OutType, Told, Holds

LEMMA Kills ==
    ASSUME Z3Inv, Z3Kill, UNCHANGED <<agent, z3, starts, lineVars>>
    PROVE  Z3Inv' /\ z3stop'
  <1>1. LineType' /\ OutType'
    BY LinesStay
  <1>2. ProcessType' /\ Told' /\ z3stop'
    BY DEF Z3Kill, Z3Inv, ProcessType, Told
  <1> QED
    BY <1>1, <1>2 DEF Z3Inv
-----------------------------------------------------------------------------
(***************************************************************************)
(* The descriptor table: the lowest free number is free, for the numbers   *)
(* are natural and so have a least one among them.                         *)
(***************************************************************************)
LEMMA LowestFree == Free # {} => Lowest \in Free
  <1> SUFFICES ASSUME Free # {} PROVE Lowest \in Free
    OBVIOUS
  <1>1. Free \subseteq Nat
    BY Constants DEF Free
  <1>2. \E f \in Free : \A g \in Free : ~ (<<g, f>> \in OpToRel(<, Nat))
    BY <1>1, WFMin, NatLessThanWellFounded, Zenon
  <1>3. PICK f \in Free : \A g \in Free : ~ (<<g, f>> \in OpToRel(<, Nat))
    BY <1>2
  <1>4. ASSUME NEW g \in Free PROVE f <= g
    <2>1. f \in Nat /\ g \in Nat
      BY <1>1
    <2>2. ~ (g < f)
      BY <1>3, <2>1, Zenon DEF OpToRel
    <2> QED
      BY <2>1, <2>2
  <1> QED
    BY <1>4 DEF Lowest

LEMMA OpensPort ==
    ASSUME Port, Free # {}, pc = "open", n \in Sessions, FdType,
           table' = Opened(n), fd' = [fd EXCEPT ![n] = Lowest], pc' = "serve", n' = n
    PROVE  Port'
  <1>1. Lowest \in Fds /\ Lowest \notin DOMAIN table
    BY LowestFree DEF Free
  <1>2. DOMAIN table' = DOMAIN table \cup {Lowest}
    BY DEF Opened
  <1>3. \A f \in DOMAIN table : table'[f] = table[f] /\ table[f] = Rest
    BY <1>2 DEF Opened, Port, Serving
  <1>4. table'[Lowest] = n /\ n \in Owners
    BY <1>1 DEF Opened, Owners
  <1>5. fd'[n] = Lowest
    BY DEF FdType
  <1>6. table' \in [DOMAIN table' -> Owners]
    BY <1>2, <1>3, <1>4 DEF Opened, Owners
  <1> QED
    BY <1>1, <1>2, <1>3, <1>4, <1>5, <1>6 DEF Port, Serving

\* A socket of the rest of the agent comes, or goes.
LEMMA SocketOpens ==
    ASSUME Port, n \in Nat, table' = Opened(Rest), Free # {}, UNCHANGED <<fd, pc, n>>
    PROVE  Port'
  <1>1. Lowest \in Fds
    BY LowestFree DEF Free
  <1>2. DOMAIN table' = DOMAIN table \cup {Lowest}
    BY DEF Opened
  <1>3. \A f \in DOMAIN table' : table'[f] = IF f \in DOMAIN table THEN table[f] ELSE Rest
    BY <1>2 DEF Opened
  <1>4. table' \in [DOMAIN table' -> Owners]
    BY <1>2, <1>3 DEF Opened, Owners, Port
  <1> QED
    BY <1>1, <1>2, <1>3, <1>4 DEF Port

LEMMA SocketCloses ==
    ASSUME Port, pc \in Serving => n # Rest, NEW f \in DOMAIN table, table[f] = Rest,
           table' = Closed(f), UNCHANGED <<fd, pc, n>>
    PROVE  Port'
  <1>1. DOMAIN table' = DOMAIN table \ {f} /\ (\A g \in DOMAIN table' : table'[g] = table[g])
    BY DEF Closed
  <1>2. table' \in [DOMAIN table' -> Owners]
    BY <1>1 DEF Closed, Port
  <1> QED
    BY <1>1, <1>2 DEF Port

LEMMA PortCloses ==
    ASSUME Port, pc = "close serial", pc' = "join", table' = Closed(fd[n]), UNCHANGED <<fd, n>>
    PROVE  Port'
  <1>1. DOMAIN table' = DOMAIN table \ {fd[n]} /\ (\A g \in DOMAIN table' : table'[g] = table[g])
    BY DEF Closed
  <1>2. table' \in [DOMAIN table' -> Owners]
    BY <1>1 DEF Closed, Port
  <1>3. \A g \in DOMAIN table' : table'[g] = Rest
    BY <1>1 DEF Port
  <1> QED
    BY <1>1, <1>2, <1>3 DEF Port, Serving
-----------------------------------------------------------------------------
(***************************************************************************)
(* tcpWorker.                                                              *)
(***************************************************************************)
LEMMA Now ==
    ASSUME IInv
    PROVE  n \in Nat /\ (pc # "accept" => n \in Sessions /\ n > 0)
  <1>1. n \in 0..MaxSession /\ (pc # "accept" => n > 0)
    BY DEF IInv, WorkerType
  <1>2. MaxSession \in Nat
    BY Constants
  <1> QED
    BY <1>1, <1>2 DEF Sessions

LEMMA AcceptStep ==
    ASSUME IInv, Accept
    PROVE  IInv'
  <1>1. n \in Nat /\ n < MaxSession /\ n' = n + 1 /\ n + 1 \in Sessions /\ pc = "accept" /\ pc' = "open"
    BY Constants DEF Accept, IInv, WorkerType, Sessions
  <1>2. Z3Inv' /\ z3stop'
    BY Kills DEF Accept, IInv
  <1>3. WorkerType'
    BY <1>1, <1>2, Constants DEF Accept, IInv, WorkerType
  <1>4. ClientType' /\ FdType' /\ ReaderType' /\ TookType' /\ OwnRead' /\ OwnSession'
    BY DEF Accept, IInv, ClientType, FdType, ReaderType, TookType, OwnRead, OwnSession
  <1>5. Port'
    BY <1>1 DEF Accept, IInv, Port, Serving
  <1>6. Turns'
    <2> SUFFICES ASSUME NEW s \in Sessions
                 PROVE  /\ Waiting(s)' => reader[s].at = "none"
                        /\ Over(s)' => client'[s] = "closed" /\ reader[s].at = "done"
                        /\ s = n' /\ pc' \in {"close serial", "join"} => client'[s] = "closed"
      BY DEF Turns, Accept
    <2>1. s \in Nat
      BY Constants DEF Sessions
    <2>2. CASE s > n
      BY <1>1, <2>1, <2>2 DEF Accept, IInv, Turns, Waiting, Over
    <2>3. CASE s <= n
      <3>1. Over(s) /\ s # n + 1
        BY <1>1, <2>1, <2>3 DEF Over
      <3>2. client'[s] = client[s]
        BY <3>1 DEF Accept, IInv, ClientType
      <3> QED
        BY <1>1, <2>1, <2>3, <3>1, <3>2 DEF IInv, Turns, Waiting
    <2> QED
      BY <1>1, <2>1, <2>2, <2>3
  <1> QED
    BY <1>2, <1>3, <1>4, <1>5, <1>6 DEF IInv

\* log.Fatal changes nothing else.
LEMMA FatalStep ==
    ASSUME IInv, Fatal
    PROVE  IInv'
  <1>1. LineType' /\ OutType'
    BY LinesStay DEF Fatal, IInv
  <1>2. Z3Inv'
    BY <1>1 DEF Fatal, IInv, Z3Inv, ProcessType, Told
  <1>3. WorkerType' /\ ClientType' /\ FdType' /\ ReaderType' /\ TookType' /\ OwnRead' /\ OwnSession'
    BY DEF Fatal, IInv, WorkerType, ClientType, FdType, ReaderType, TookType, OwnRead, OwnSession
  <1>4. Port' /\ Turns'
    BY DEF Fatal, IInv, Port, Turns, Waiting, Over
  <1> QED
    BY <1>2, <1>3, <1>4 DEF IInv

LEMMA ProbeStep ==
    ASSUME IInv, Probe
    PROVE  IInv'
  <1>1. CASE Fatal
    BY <1>1, FatalStep
  <1>2. CASE baudRate' = ChipBaud /\ UNCHANGED <<z3Vars, pc, n, client, table, fd, reader, took>>
    <2>1. Z3Inv' /\ z3stop' = z3stop
      BY <1>2, Z3Stays DEF IInv
    <2>2. WorkerType' /\ ClientType' /\ FdType' /\ ReaderType' /\ TookType' /\ OwnRead' /\ OwnSession'
      BY <1>2, <2>1, Constants DEF IInv, WorkerType, ClientType, FdType, ReaderType, TookType, OwnRead, OwnSession
    <2>3. Port' /\ Turns'
      BY <1>2 DEF IInv, Port, Turns, Waiting, Over
    <2> QED
      BY <2>1, <2>2, <2>3 DEF IInv
  <1> QED
    BY <1>1, <1>2 DEF Probe

LEMMA OpenStep ==
    ASSUME IInv, Open
    PROVE  IInv'
  <1>1. n \in Sessions /\ n \in Nat /\ n > 0 /\ pc = "open"
    BY Now DEF Open
  <1>2. CASE Fatal
    BY <1>2, FatalStep
  <1>3. CASE ~Fatal
    <2>1. /\ baudRate \in Speeds /\ Free # {} /\ table' = Opened(n) /\ fd' = [fd EXCEPT ![n] = Lowest]
          /\ reader' = [reader EXCEPT ![n].at = "next"] /\ pc' = "serve"
          /\ UNCHANGED <<z3Vars, n, client, baudRate, took>>
      BY <1>3 DEF Open
    <2>2. Z3Inv' /\ z3stop' = z3stop
      BY <2>1, Z3Stays DEF IInv
    <2>3. Port'
      BY <1>1, <2>1, OpensPort DEF IInv
    <2>4. WorkerType' /\ ClientType' /\ TookType' /\ OwnSession'
      BY <1>1, <2>1, <2>2 DEF IInv, WorkerType, ClientType, TookType, OwnSession
    <2>5. Lowest \in Fds
      BY <2>1, LowestFree DEF Free
    <2>6. FdType'
      BY <2>1, <2>5 DEF IInv, FdType
    <2>7. reader'[n].at = "next" /\ (\A s \in Sessions \ {n} : reader'[s] = reader[s])
      BY <1>1, <2>1 DEF IInv, ReaderType, Readers
    <2>8. [reader[n] EXCEPT !.at = "next"] \in Readers
      BY <1>1 DEF IInv, ReaderType, Readers
    <2>9. ReaderType'
      BY <1>1, <2>1, <2>8 DEF IInv, ReaderType
    <2>10. OwnRead'
      BY <2>7 DEF IInv, OwnRead
    <2>11. Turns'
      BY <1>1, <2>1, <2>7 DEF IInv, Turns, Waiting, Over, Sessions
    <2> QED
      BY <2>2, <2>3, <2>4, <2>6, <2>9, <2>10, <2>11 DEF IInv
  <1> QED
    BY <1>2, <1>3

\* The worker's steps that change nothing but where it is and its client.
LEMMA WorkerMoves ==
    ASSUME IInv, pc # "accept", pc' \in {"serve", "close tcp", "close serial", "join"} \/ pc' = "accept",
           pc' # "open", ClientType', UNCHANGED <<z3Vars, n, fd, reader, baudRate, took>>,
           Port', Turns'
    PROVE  IInv'
  <1>1. Z3Inv' /\ z3stop' = z3stop
    BY Z3Stays DEF IInv
  <1>2. WorkerType' /\ FdType' /\ ReaderType' /\ TookType' /\ OwnRead' /\ OwnSession'
    BY <1>1 DEF IInv, WorkerType, FdType, ReaderType, TookType, OwnRead, OwnSession
  <1> QED
    BY <1>1, <1>2 DEF IInv

LEMMA EndStep ==
    ASSUME IInv, Serve \/ WriteSerialFails \/ CloseTcp \/ CloseSerial \/ Join
    PROVE  IInv'
  <1>1. n \in Sessions /\ n \in Nat /\ n > 0
    BY Now DEF Serve, WriteSerialFails, CloseTcp, CloseSerial, Join
  <1>2. CASE Serve \/ WriteSerialFails
    <2>1. /\ pc = "serve" /\ pc' = "close tcp"
          /\ UNCHANGED <<z3Vars, n, client, table, fd, reader, baudRate, took>>
      BY <1>2 DEF Serve, WriteSerialFails
    <2>2. ClientType' /\ Port' /\ Turns'
      BY <2>1 DEF IInv, ClientType, Port, Serving, Turns, Waiting, Over
    <2> QED
      BY <2>1, <2>2, WorkerMoves
  <1>3. CASE CloseTcp
    <2>1. ClientType' /\ client'[n] = "closed" /\ (\A s \in Sessions \ {n} : client'[s] = client[s])
      BY <1>1, <1>3 DEF CloseTcp, IInv, ClientType
    <2>2. Port'
      BY <1>3 DEF CloseTcp, IInv, Port, Serving
    <2>3. Turns'
      BY <1>1, <1>3, <2>1 DEF CloseTcp, IInv, Turns, Waiting, Over, Sessions
    <2> QED
      BY <1>3, <2>1, <2>2, <2>3, WorkerMoves DEF CloseTcp
  <1>4. CASE CloseSerial
    <2>1. Port'
      BY <1>4, PortCloses DEF CloseSerial, IInv
    <2>2. ClientType' /\ Turns'
      BY <1>4 DEF CloseSerial, IInv, ClientType, Turns, Waiting, Over
    <2> QED
      BY <1>4, <2>1, <2>2, WorkerMoves DEF CloseSerial
  <1>5. CASE Join
    <2>1. ClientType' /\ Port'
      BY <1>5 DEF Join, IInv, ClientType, Port, Serving
    <2>2. Turns'
      BY <1>1, <1>5 DEF Join, IInv, Turns, Waiting, Over
    <2> QED
      BY <1>5, <2>1, <2>2, WorkerMoves DEF Join
  <1> QED
    BY <1>2, <1>3, <1>4, <1>5
-----------------------------------------------------------------------------
(***************************************************************************)
(* The goroutine that reads, the clients and the rest of the agent.        *)
(***************************************************************************)
\* A goroutine that is running is the served session's.
LEMMA Runs ==
    ASSUME IInv, NEW s \in Sessions, reader[s].at \notin {"none", "done"}
    PROVE  s = n /\ pc \in Serving \cup {"join"}
  <1>1. s \in Nat /\ n \in Nat
    BY Now, Constants DEF Sessions
  <1>2. ~Waiting(s) /\ ~Over(s)
    BY DEF IInv, Turns
  <1>3. s = n
    BY <1>1, <1>2 DEF Waiting, Over
  <1> QED
    BY <1>2, <1>3 DEF Waiting, Over, IInv, WorkerType, Serving

\* One goroutine moves on, and takes the bytes of what it was reading.
LEMMA ReaderMoves ==
    ASSUME IInv, NEW s \in Sessions, NEW r \in Readers,
           reader[s].at \notin {"none", "done"}, r.at # "none",
           r.at = "in" /\ r.of \in Sessions => r.of = s,
           reader' = [reader EXCEPT ![s] = r],
           took' \subseteq [by : Sessions, of : Owners], OwnSession',
           UNCHANGED <<z3Vars, pc, n, client, table, fd, baudRate>>
    PROVE  IInv'
  <1>1. s = n /\ pc \in Serving \cup {"join"}
    BY Runs
  <1>2. Z3Inv' /\ z3stop' = z3stop
    BY Z3Stays DEF IInv
  <1>3. WorkerType' /\ ClientType' /\ FdType' /\ TookType' /\ Port'
    BY <1>2 DEF IInv, WorkerType, ClientType, FdType, TookType, Port
  <1>4. reader'[s] = r /\ (\A t \in Sessions \ {s} : reader'[t] = reader[t]) /\ ReaderType'
    BY DEF IInv, ReaderType
  <1>5. OwnRead'
    BY <1>4 DEF IInv, OwnRead
  <1>6. n \in Nat
    BY Now
  <1>7. Turns'
    BY <1>1, <1>4, <1>6 DEF IInv, Turns, Waiting, Over, Serving
  <1> QED
    BY <1>2, <1>3, <1>4, <1>5, <1>7 DEF IInv

LEMMA Going ==
    ASSUME IInv, NEW s \in Sessions, NEW at \in {"next", "write", "done"}, Goes(s, at)
    PROVE  \E r \in Readers : r.at = at /\ reader' = [reader EXCEPT ![s] = r]
  <1> DEFINE r == [reader[s] EXCEPT !.at = at]
  <1>1. r \in Readers /\ r.at = at
    BY DEF IInv, ReaderType, Readers
  <1>2. reader' = [reader EXCEPT ![s] = r]
    BY DEF Goes
  <1> QED
    BY <1>1, <1>2

\* It goes on without a read, or with nothing read.
LEMMA JustGoes ==
    ASSUME IInv, NEW s \in Sessions, NEW at \in {"next", "write", "done"}, Goes(s, at),
           reader[s].at \notin {"none", "done"}, UNCHANGED took,
           UNCHANGED <<z3Vars, pc, n, client, table, fd, baudRate>>
    PROVE  IInv'
  <1>1. PICK r \in Readers : r.at = at /\ reader' = [reader EXCEPT ![s] = r]
    BY Going
  <1>2. took' \subseteq [by : Sessions, of : Owners] /\ OwnSession'
    BY DEF IInv, TookType, OwnSession
  <1> QED
    BY <1>1, <1>2, ReaderMoves

LEMMA ReaderStep ==
    ASSUME IInv, NEW s \in Sessions, Reader(s)
    PROVE  IInv'
  <1>1. UNCHANGED <<z3Vars, pc, n, client, table, fd, baudRate>>
    BY DEF Reader
  <1>2. CASE CallRead(s)
    <2>1. reader[s].at = "next" /\ took' = took
      BY <1>2 DEF CallRead
    <2>2. s = n /\ pc \in Serving \cup {"join"}
      BY <2>1, Runs
    <2>3. CASE fd[s] \in DOMAIN table
      <3> DEFINE r == [at |-> "in", of |-> table[fd[s]]]
      <3>1. table[fd[s]] \in Owners
        BY <2>3 DEF IInv, Port
      <3>2. r \in Readers /\ r.at = "in" /\ r.of = table[fd[s]]
        BY <3>1 DEF Readers
      <3>3. table[fd[s]] = s \/ table[fd[s]] = Rest
        BY <2>2, <2>3 DEF IInv, Port, Serving
      <3>4. Rest \notin Sessions
        BY Constants DEF Sessions, Rest
      <3>5. reader' = [reader EXCEPT ![s] = r]
        BY <1>2, <2>3 DEF CallRead
      <3>6. took' \subseteq [by : Sessions, of : Owners] /\ OwnSession'
        BY <2>1 DEF IInv, TookType, OwnSession
      <3> HIDE DEF r
      <3> QED
        BY <1>1, <2>1, <3>2, <3>3, <3>4, <3>5, <3>6, ReaderMoves
    <2>4. CASE fd[s] \notin DOMAIN table
      <3>1. Goes(s, "done")
        BY <1>2, <2>4 DEF CallRead
      <3> QED
        BY <1>1, <2>1, <3>1, JustGoes
    <2> QED
      BY <2>3, <2>4
  <1>3. CASE ReadReturns(s)
    <2>1. reader[s].at = "in"
      BY <1>3 DEF ReadReturns
    <2>2. CASE Goes(s, "write") /\ took' = took \cup {[by |-> s, of |-> reader[s].of]}
      <3>1. PICK r \in Readers : r.at = "write" /\ reader' = [reader EXCEPT ![s] = r]
        BY <2>2, Going
      <3>2. reader[s].of \in Owners
        BY DEF IInv, ReaderType, Readers
      <3>3. took' \subseteq [by : Sessions, of : Owners]
        BY <2>2, <3>2 DEF IInv, TookType
      <3>4. reader[s].of \in Sessions => reader[s].of = s
        BY <2>1 DEF IInv, OwnRead
      <3>5. OwnSession'
        BY <2>2, <3>4 DEF IInv, OwnSession
      <3> QED
        BY <1>1, <2>1, <3>1, <3>3, <3>5, ReaderMoves
    <2>3. CASE (Goes(s, "next") \/ Goes(s, "done")) /\ UNCHANGED took
      BY <1>1, <2>1, <2>3, JustGoes
    <2> QED
      BY <1>3, <2>2, <2>3 DEF ReadReturns
  <1>4. CASE WriteTcp(s)
    <2>1. reader[s].at = "write" /\ UNCHANGED took /\ (Goes(s, "next") \/ Goes(s, "done"))
      BY <1>4 DEF WriteTcp
    <2> QED
      BY <1>1, <2>1, JustGoes
  <1> QED
    BY <1>2, <1>3, <1>4 DEF Reader

LEMMA LeavesStep ==
    ASSUME IInv, NEW s \in Sessions, ClientLeaves(s)
    PROVE  IInv'
  <1>1. Z3Inv' /\ z3stop' = z3stop
    BY Z3Stays DEF ClientLeaves, IInv
  <1>2. WorkerType' /\ FdType' /\ ReaderType' /\ TookType' /\ Port' /\ OwnRead' /\ OwnSession'
    BY <1>1 DEF ClientLeaves, IInv, WorkerType, FdType, ReaderType, TookType, Port, OwnRead, OwnSession
  <1>3. ClientType' /\ (\A t \in Sessions \ {s} : client'[t] = client[t]) /\ client[s] = "up"
    BY DEF ClientLeaves, IInv, ClientType
  <1>4. Turns'
    BY <1>3 DEF ClientLeaves, IInv, Turns, Waiting, Over
  <1> QED
    BY <1>1, <1>2, <1>3, <1>4 DEF IInv

LEMMA OthersStep ==
    ASSUME IInv, OtherOpens \/ OtherCloses
    PROVE  IInv'
  <1>1. UNCHANGED <<z3Vars, pc, n, client, fd, reader, baudRate, took>>
    BY DEF OtherOpens, OtherCloses
  <1>2. Z3Inv' /\ z3stop' = z3stop
    BY <1>1, Z3Stays DEF IInv
  <1>3. WorkerType' /\ ClientType' /\ FdType' /\ ReaderType' /\ TookType' /\ Turns' /\ OwnRead' /\ OwnSession'
    BY <1>1, <1>2
       DEF IInv, WorkerType, ClientType, FdType, ReaderType, TookType, Turns, Waiting, Over, OwnRead, OwnSession
  <1>4. n \in Nat /\ (pc \in Serving => n # Rest)
    <2>1. pc \in Serving => pc # "accept"
      BY DEF Serving
    <2>2. n \in Nat /\ (pc # "accept" => n > 0)
      BY Now
    <2> QED
      BY <2>1, <2>2 DEF Rest
  <1>5. Port'
    BY <1>1, <1>4, SocketOpens, SocketCloses DEF OtherOpens, OtherCloses, IInv
  <1> QED
    BY <1>2, <1>3, <1>5 DEF IInv

LEMMA Z3sStep ==
    ASSUME IInv, Z3Inv', z3stop' = z3stop, UNCHANGED tcpVars
    PROVE  IInv'
  <1>1. WorkerType' /\ ClientType' /\ FdType' /\ ReaderType' /\ TookType' /\ OwnRead' /\ OwnSession'
    BY DEF tcpVars, IInv, WorkerType, ClientType, FdType, ReaderType, TookType, OwnRead, OwnSession
  <1>2. Port' /\ Turns'
    BY DEF tcpVars, IInv, Port, Turns, Waiting, Over
  <1> QED
    BY <1>1, <1>2 DEF IInv

LEMMA InvNext == IInv /\ [Next]_vars => IInv'
  <1> SUFFICES ASSUME IInv, [Next]_vars PROVE IInv'
    OBVIOUS
  <1>1. CASE TcpSystem
    BY <1>1, AcceptStep, FatalStep, ProbeStep, OpenStep, EndStep DEF TcpSystem, tcpWorker, AcceptFails
  <1>2. CASE \E s \in Sessions : Reader(s) \/ ClientLeaves(s)
    BY <1>2, ReaderStep, LeavesStep
  <1>3. CASE OtherOpens \/ OtherCloses
    BY <1>3, OthersStep
  <1>4. CASE Z3Next /\ UNCHANGED tcpVars
    BY <1>4, Z3Step, Z3sStep DEF IInv
  <1>5. CASE UNCHANGED vars
    <2>1. UNCHANGED z3Vars /\ UNCHANGED tcpVars
      BY <1>5 DEF vars
    <2> QED
      BY <2>1, Z3Stays, Z3sStep DEF IInv
  <1> QED
    BY <1>1, <1>2, <1>3, <1>4, <1>5 DEF Next

\* The types of Z3's and tcpWorker's state; while a client is served, the number
\* its goroutine reads is that of its own port.
THEOREM ZigbeeType == Spec => []TypeOK
  BY InvInit, InvNext, Implies, PTL DEF Spec

\* No goroutine ever returns from a read with bytes of another session, whatever
\* numbers the kernel reuses and whenever a read returns (zigbee.go:160-164).
THEOREM BytesStayHome == Spec => []OwnSession
  BY InvInit, InvNext, Implies, PTL DEF Spec

\* When a client is accepted nothing of an earlier session is left: no entry in
\* the descriptor table, no open connection, no goroutine (zigbee.go:160-164).
THEOREM SessionsEndWhole == Spec => []NothingLeft
  BY InvInit, InvNext, Implies, PTL DEF Spec

\* No client is served while a Z3 that was not told to go is running
\* (zigbee.go:103, z3.go:16-29, 34-54).
THEOREM ClientsAfterZ3 == Spec => []ServedWithoutZ3
  BY InvInit, InvNext, Implies, PTL DEF Spec
=============================================================================
