----------------------------- MODULE MqttProofs -----------------------------
(***************************************************************************)
(* Theorems about module MqttClient, for any publishers, channel sizes and *)
(* losses: the types of its state, that nothing but CONNECT is queued on a *)
(* connection that the broker has not acknowledged, and that the worker is *)
(* online only on one that it has.                                         *)
(*                                                                         *)
(* The argument: what the broker has acknowledged stays acknowledged, an   *)
(* acknowledgement that is on its way says so already, and whoever is      *)
(* somewhere in Publish got there on a connection that was acknowledged -  *)
(* the next is not dialled before those that have checked online have read *)
(* conn.                                                                   *)
(***************************************************************************)
EXTENDS MqttClient, TLAPS

ClientConns ==
    [out : Seq(Jobs), incoming : 0..QueueLen, closed : BOOLEAN,
     reader : {"read", "gone"} \cup Packets, writer : {"run", "gone"}, wire : Seq(Packets),
     broker : {"new", "connecting", "connected", "refused", "subscribing", "subscribed"},
     lost : BOOLEAN]

Acknowledged(c) == c.broker \in {"connected", "subscribing", "subscribed"}

\* A ClientConn in order (pkg/mqtt/mqtt.go:707-812): its channels are closed by its
\* reader, a CONNACK on its way comes from a broker that has acknowledged, and
\* before that nothing but CONNECT is queued.
Sound(c) ==
    /\ c \in ClientConns /\ Len(c.out) <= QueueLen
    /\ c.closed <=> c.reader = "gone"
    /\ c.reader = "connack" \/ (\E i \in DOMAIN c.wire : c.wire[i] = "connack") => Acknowledged(c)
    /\ ~Acknowledged(c) => \A i \in DOMAIN c.out : c.out[i] = "connect"

ConnsSound == cc \in [1..conn -> ClientConns] /\ \A g \in 1..conn : Sound(cc[g])

\* Where the worker is online, and on what (internal/mqtt/mqtt.go:117-142).
OnlineAt == {"subscribe", "subscribe sent", "suback", "report", "range", "handler", "offline", "unset"}

OnlineThere ==
    /\ online <=> pc \in OnlineAt
    /\ pc # "dial" => conn > 0
    /\ online => conn > 0 /\ Acknowledged(cc[conn])

\* A place in Publish says that the connection was acknowledged
\* (internal/mqtt/mqtt.go:154-180).
PublishersMay ==
    \A p \in Publishers :
       /\ pub[p].at = "checked" => conn > 0 /\ Acknowledged(cc[conn])
       /\ pub[p].at = "sending" => pub[p].on \in 1..conn /\ Acknowledged(cc[pub[p].on])

PubType == pub \in [Publishers -> [at : {"idle", "checked", "sending"}, on : 0..MaxConn]]

OtherTypes ==
    /\ conn \in 0..MaxConn
    /\ online \in BOOLEAN /\ receipt \in BOOLEAN /\ panicked \in BOOLEAN
    /\ info \in Infos /\ replies \in Replies
    /\ pc \in Labels

IInv == ConnsSound /\ OnlineThere /\ PublishersMay /\ PubType /\ OtherTypes

LEMMA Constants == QueueLen \in Nat \ {0} /\ MaxConn \in Nat \ {0} /\ Retained \in Nat
  BY MqttAssumption

LEMMA Implies == IInv => TypeOK /\ ConnectFirst /\ OnlineAcknowledged
  <1> SUFFICES ASSUME IInv PROVE TypeOK /\ ConnectFirst /\ OnlineAcknowledged
    OBVIOUS
  <1>1. DOMAIN cc = 1..conn /\ \A g \in DOMAIN cc : Sound(cc[g])
    BY DEF IInv, ConnsSound
  <1>2. ASSUME NEW c, Sound(c)
        PROVE  /\ c.out \in Seq(Jobs) /\ Len(c.out) <= QueueLen
               /\ c.incoming \in 0..QueueLen
               /\ c.wire \in Seq(Packets)
               /\ c.reader \in {"read", "gone"} \cup Packets
               /\ c.writer \in {"run", "gone"}
               /\ c.broker \in {"new", "connecting", "connected", "refused", "subscribing", "subscribed"}
               /\ c.closed \in BOOLEAN /\ c.lost \in BOOLEAN
               /\ c.closed <=> c.reader = "gone"
    BY <1>2 DEF Sound, ClientConns
  <1>3. TypeOK
    BY <1>1, <1>2 DEF IInv, OtherTypes, PubType, TypeOK
  <1>4. ConnectFirst
    BY <1>1 DEF ConnectFirst, Sound, Acknowledged
  <1>5. OnlineAcknowledged
    BY DEF IInv, OnlineThere, Acknowledged, OnlineAcknowledged
  <1> QED
    BY <1>3, <1>4, <1>5

LEMMA InvInit == Init => IInv
  <1> SUFFICES ASSUME Init PROVE IInv
    OBVIOUS
  <1>1. conn = 0 /\ 1..conn = {} /\ cc \in [{} -> ClientConns]
    BY DEF Init
  <1>2. ConnsSound
    BY <1>1 DEF ConnsSound
  <1>3. OtherTypes
    <2>1. 0 \in 0..MaxConn
      BY Constants
    <2>2. "dial" \in Labels
      BY DEF Labels
    <2> QED
      BY <2>1, <2>2, Zenon DEF Init, OtherTypes
  <1>4. PubType
    <2>1. [at |-> "idle", on |-> 0] \in [at : {"idle", "checked", "sending"}, on : 0..MaxConn]
      BY Constants
    <2> QED
      BY <2>1 DEF Init, PubType
  <1>5. OnlineThere /\ PublishersMay
    BY DEF Init, OnlineThere, OnlineAt, PublishersMay
  <1> QED
    BY <1>2, <1>3, <1>4, <1>5 DEF IInv
-----------------------------------------------------------------------------
(***************************************************************************)
(* What happens to one ClientConn.                                         *)
(***************************************************************************)
LEMMA SoundNew == Sound(NewClientConn)
  <1>1. NewClientConn \in ClientConns
    BY Constants DEF NewClientConn, ClientConns
  <1>2. NewClientConn.out = <<>> /\ NewClientConn.wire = <<>> /\ NewClientConn.reader = "read"
        /\ ~NewClientConn.closed
    BY DEF NewClientConn
  <1> QED
    BY <1>1, <1>2, Constants DEF Sound

LEMMA SoundPut ==
    ASSUME NEW c, Sound(c), NEW job \in Jobs, Len(c.out) < QueueLen, Acknowledged(c) \/ job = "connect"
    PROVE  Sound([c EXCEPT !.out = Append(@, job)])
  <1> DEFINE d == [c EXCEPT !.out = Append(@, job)]
  <1>1. c.out \in Seq(Jobs) /\ Append(c.out, job) \in Seq(Jobs) /\ Len(Append(c.out, job)) = Len(c.out) + 1
    BY DEF Sound, ClientConns
  <1>2. d \in ClientConns
    BY <1>1 DEF Sound, ClientConns
  <1>3. /\ d.out = Append(c.out, job) /\ d.closed = c.closed /\ d.reader = c.reader
        /\ d.wire = c.wire /\ d.broker = c.broker
    BY DEF Sound, ClientConns
  <1>4. ~Acknowledged(d) => \A i \in DOMAIN d.out : d.out[i] = "connect"
    <2>1. ASSUME ~Acknowledged(d), NEW i \in DOMAIN d.out PROVE d.out[i] = "connect"
      <3>1. job = "connect" /\ \A j \in DOMAIN c.out : c.out[j] = "connect"
        BY <1>3, <2>1 DEF Acknowledged, Sound
      <3> QED
        BY <1>1, <1>3, <3>1
    <2> QED
      BY <2>1
  <1>5. Len(d.out) <= QueueLen
    BY <1>1, <1>3, Constants
  <1> QED
    BY <1>2, <1>3, <1>4, <1>5 DEF Sound, Acknowledged

LEMMA SoundRead ==
    ASSUME NEW c, Sound(c), c.reader = "read", c.wire # <<>>
    PROVE  Sound([c EXCEPT !.wire = Tail(@), !.reader = Head(c.wire)])
  <1> DEFINE d == [c EXCEPT !.wire = Tail(@), !.reader = Head(c.wire)]
  <1>1. c.wire \in Seq(Packets)
    BY DEF Sound, ClientConns
  <1>2. /\ Head(c.wire) \in Packets /\ Tail(c.wire) \in Seq(Packets)
        /\ Head(c.wire) = c.wire[1] /\ 1 \in DOMAIN c.wire
        /\ \A i \in DOMAIN Tail(c.wire) : Tail(c.wire)[i] = c.wire[i + 1] /\ i + 1 \in DOMAIN c.wire
    BY <1>1
  <1>3. d \in ClientConns
    BY <1>2 DEF Sound, ClientConns
  <1>4. /\ d.out = c.out /\ d.closed = c.closed /\ d.reader = Head(c.wire)
        /\ d.wire = Tail(c.wire) /\ d.broker = c.broker
    BY DEF Sound, ClientConns
  <1>5. d.closed <=> d.reader = "gone"
    BY <1>2, <1>4 DEF Sound, Packets
  <1>6. d.reader = "connack" \/ (\E i \in DOMAIN d.wire : d.wire[i] = "connack") => Acknowledged(d)
    BY <1>2, <1>4 DEF Sound, Acknowledged
  <1> QED
    BY <1>3, <1>4, <1>5, <1>6 DEF Sound, Acknowledged

\* The reader, or the worker that it waited for, goes on.
LEMMA SoundGoesOn ==
    ASSUME NEW c, Sound(c), c.reader \in Packets, NEW n \in 0..QueueLen
    PROVE  /\ Sound([c EXCEPT !.reader = "read"])
           /\ Sound([c EXCEPT !.incoming = n, !.reader = "read"])
  BY DEF Sound, ClientConns, Acknowledged, Packets

LEMMA SoundOthers ==
    ASSUME NEW c, Sound(c)
    PROVE  /\ \A n \in 0..QueueLen : Sound([c EXCEPT !.incoming = n])
           /\ Sound([c EXCEPT !.reader = "gone", !.closed = TRUE])
           /\ Sound([c EXCEPT !.writer = "gone"])
           /\ Sound([c EXCEPT !.lost = TRUE])
  <1>1. ASSUME NEW n \in 0..QueueLen PROVE Sound([c EXCEPT !.incoming = n])
    BY DEF Sound, ClientConns, Acknowledged
  <1>2. Sound([c EXCEPT !.reader = "gone", !.closed = TRUE])
    BY DEF Sound, ClientConns, Acknowledged
  <1>3. Sound([c EXCEPT !.writer = "gone"])
    BY DEF Sound, ClientConns, Acknowledged
  <1>4. Sound([c EXCEPT !.lost = TRUE])
    BY DEF Sound, ClientConns, Acknowledged
  <1> QED
    BY <1>1, <1>2, <1>3, <1>4

\* The broker does not go back on what it has acknowledged.
LEMMA TookKeeps ==
    ASSUME NEW c, Sound(c), NEW job \in Jobs
    PROVE  /\ Took(c.broker, job) \in {"new", "connecting", "connected", "refused", "subscribing", "subscribed"}
           /\ Took(c.broker, job) \in {"connected", "subscribing", "subscribed"} <=> Acknowledged(c)
  BY DEF Took, Jobs, Acknowledged, Sound, ClientConns

LEMMA SoundWrite ==
    ASSUME NEW c, Sound(c), c.out # <<>>, NEW state \in {c.broker, Took(c.broker, Head(c.out))},
           NEW w \in {"run", "gone"}
    PROVE  /\ Sound([c EXCEPT !.out = Tail(@), !.broker = state, !.writer = w])
           /\ Acknowledged(c) => state \in {"connected", "subscribing", "subscribed"}
  <1> DEFINE d == [c EXCEPT !.out = Tail(@), !.broker = state, !.writer = w]
  <1>1. c.out \in Seq(Jobs)
    BY DEF Sound, ClientConns
  <1>2. /\ Head(c.out) \in Jobs /\ Tail(c.out) \in Seq(Jobs) /\ Len(Tail(c.out)) <= Len(c.out)
        /\ \A i \in DOMAIN Tail(c.out) : Tail(c.out)[i] = c.out[i + 1] /\ i + 1 \in DOMAIN c.out
    BY <1>1
  <1>3. /\ state \in {"new", "connecting", "connected", "refused", "subscribing", "subscribed"}
        /\ state \in {"connected", "subscribing", "subscribed"} <=> Acknowledged(c)
    BY <1>2, TookKeeps DEF Acknowledged, Sound, ClientConns
  <1>4. d \in ClientConns
    BY <1>2, <1>3 DEF Sound, ClientConns
  <1>5. /\ d.out = Tail(c.out) /\ d.closed = c.closed /\ d.reader = c.reader
        /\ d.wire = c.wire /\ d.broker = state
    BY DEF Sound, ClientConns
  <1>6. Len(d.out) <= QueueLen
    BY <1>1, <1>2, <1>5, Constants DEF Sound
  <1>7. ~Acknowledged(d) => \A i \in DOMAIN d.out : d.out[i] = "connect"
    BY <1>2, <1>3, <1>5 DEF Sound, Acknowledged
  <1>8. d.reader = "connack" \/ (\E i \in DOMAIN d.wire : d.wire[i] = "connack") => Acknowledged(d)
    BY <1>3, <1>5 DEF Sound, Acknowledged
  <1> QED
    BY <1>3, <1>4, <1>5, <1>6, <1>7, <1>8 DEF Sound

\* What the broker sends: CONNACK when it acknowledges, nothing like it unless it
\* has acknowledged.
LEMMA SoundSends ==
    ASSUME NEW c, Sound(c), NEW packets \in Seq(Packets),
           NEW state \in {"connected", "refused", "subscribed"},
           state = "refused" => c.broker = "connecting" /\ \A i \in DOMAIN packets : packets[i] # "connack"
    PROVE  /\ Sound([c EXCEPT !.wire = @ \o packets, !.broker = state])
           /\ Acknowledged(c) => state \in {"connected", "subscribing", "subscribed"}
  <1> DEFINE d == [c EXCEPT !.wire = @ \o packets, !.broker = state]
  <1>1. c.wire \in Seq(Packets)
    BY DEF Sound, ClientConns
  <1>2. /\ c.wire \o packets \in Seq(Packets)
        /\ \A i \in DOMAIN (c.wire \o packets) :
              \/ i \in DOMAIN c.wire /\ (c.wire \o packets)[i] = c.wire[i]
              \/ i - Len(c.wire) \in DOMAIN packets /\ (c.wire \o packets)[i] = packets[i - Len(c.wire)]
    BY <1>1
  <1>3. d \in ClientConns
    BY <1>2 DEF Sound, ClientConns
  <1>4. /\ d.out = c.out /\ d.closed = c.closed /\ d.reader = c.reader
        /\ d.wire = c.wire \o packets /\ d.broker = state
    BY DEF Sound, ClientConns
  <1>5. Acknowledged(c) => state # "refused"
    BY DEF Acknowledged
  <1>6. d.reader = "connack" \/ (\E i \in DOMAIN d.wire : d.wire[i] = "connack") => Acknowledged(d)
    <2>1. CASE state = "refused"
      BY <1>2, <1>4, <1>5, <2>1 DEF Sound
    <2>2. CASE state # "refused"
      BY <1>4, <2>2 DEF Acknowledged
    <2> QED
      BY <2>1, <2>2
  <1>7. ~Acknowledged(d) => ~Acknowledged(c)
    BY <1>4, <1>5 DEF Acknowledged
  <1> QED
    BY <1>3, <1>4, <1>5, <1>6, <1>7 DEF Sound
-----------------------------------------------------------------------------
(***************************************************************************)
(* Among the connections.                                                  *)
(***************************************************************************)
\* Connections stay, and stay acknowledged.
AcksKept == \A h \in 1..conn : h \in 1..conn' /\ (Acknowledged(cc[h]) => Acknowledged(cc'[h]))

LEMMA OneMoves ==
    ASSUME IInv, NEW g \in 1..conn, NEW c, Sound(c), Acknowledged(cc[g]) => Acknowledged(c),
           cc' = [cc EXCEPT ![g] = c], UNCHANGED conn
    PROVE  ConnsSound' /\ AcksKept
  BY DEF IInv, ConnsSound, AcksKept, Sound

LEMMA NoneMoves ==
    ASSUME IInv, UNCHANGED <<cc, conn>>
    PROVE  ConnsSound' /\ AcksKept
  BY DEF IInv, ConnsSound, AcksKept

LEMMA OnlineStays ==
    ASSUME IInv, AcksKept, UNCHANGED <<conn, online, pc>>
    PROVE  OnlineThere'
  <1>1. conn \in Nat
    BY DEF IInv, OtherTypes
  <1> QED
    BY <1>1 DEF IInv, OnlineThere, AcksKept

LEMMA PublishersStay ==
    ASSUME IInv, AcksKept, UNCHANGED <<conn, pub>>
    PROVE  PublishersMay' /\ PubType'
  <1>1. conn \in Nat
    BY DEF IInv, OtherTypes
  <1> QED
    BY <1>1 DEF IInv, PublishersMay, PubType, AcksKept

\* A step of a connection's own goroutines or of the broker.
LEMMA OnlyOneMoves ==
    ASSUME IInv, NEW g \in 1..conn, NEW c, Sound(c), Acknowledged(cc[g]) => Acknowledged(c),
           cc' = [cc EXCEPT ![g] = c], UNCHANGED <<conn, online, pc, pub, panicked, modes>>,
           receipt' \in BOOLEAN
    PROVE  IInv'
  <1>1. ConnsSound' /\ AcksKept
    BY OneMoves
  <1>2. OnlineThere' /\ PublishersMay' /\ PubType'
    BY <1>1, OnlineStays, PublishersStay
  <1>3. OtherTypes'
    BY DEF IInv, OtherTypes, modes
  <1> QED
    BY <1>1, <1>2, <1>3 DEF IInv

LEMMA PanicStep ==
    ASSUME IInv, NEW g, Panic(g)
    PROVE  IInv'
  <1>1. UNCHANGED <<cc, conn, online, pc, receipt, pub, modes>> /\ panicked'
    BY DEF Panic
  <1>2. ConnsSound' /\ AcksKept
    BY <1>1, NoneMoves
  <1>3. OnlineThere' /\ PublishersMay' /\ PubType'
    BY <1>1, <1>2, OnlineStays, PublishersStay
  <1>4. OtherTypes'
    BY <1>1 DEF IInv, OtherTypes, modes
  <1> QED
    BY <1>2, <1>3, <1>4 DEF IInv

LEMMA ConnThere == ASSUME IInv, NEW g \in 1..conn
                   PROVE  Sound(cc[g]) /\ DOMAIN cc = 1..conn
  BY DEF IInv, ConnsSound
-----------------------------------------------------------------------------
LEMMA ReaderStep ==
    ASSUME IInv, NEW g \in DOMAIN cc, Reader(g)
    PROVE  IInv'
  <1> DEFINE c == cc[g]
  <1>1. g \in 1..conn /\ Sound(c)
    BY DEF IInv, ConnsSound
  <1>2. receipt \in BOOLEAN
    BY DEF IInv, OtherTypes
  <1>3. CASE Read(g)
    <2>1. Sound([c EXCEPT !.wire = Tail(@), !.reader = Head(c.wire)])
      BY <1>1, <1>3, SoundRead DEF Read
    <2>2. cc' = [cc EXCEPT ![g] = [c EXCEPT !.wire = Tail(@), !.reader = Head(c.wire)]]
      BY <1>3 DEF Read
    <2>3. Acknowledged(c) => Acknowledged([c EXCEPT !.wire = Tail(@), !.reader = Head(c.wire)])
      BY <1>1 DEF Acknowledged, Sound, ClientConns
    <2> QED
      BY <1>1, <1>2, <1>3, <2>1, <2>2, <2>3, OnlyOneMoves DEF Read
  <1>4. CASE Deliver(g)
    <2>1. c.incoming + 1 \in 0..QueueLen /\ c.reader \in Packets
      BY <1>1, <1>4, Constants DEF Deliver, Sound, ClientConns, Packets
    <2>2. Sound([c EXCEPT !.incoming = c.incoming + 1, !.reader = "read"])
      BY <1>1, <2>1, SoundGoesOn
    <2>3. cc' = [cc EXCEPT ![g] = [c EXCEPT !.incoming = c.incoming + 1, !.reader = "read"]]
      BY <1>4 DEF Deliver
    <2>4. Acknowledged(c) => Acknowledged([c EXCEPT !.incoming = c.incoming + 1, !.reader = "read"])
      BY <1>1 DEF Acknowledged, Sound, ClientConns
    <2> QED
      BY <1>1, <1>2, <1>4, <2>2, <2>3, <2>4, OnlyOneMoves DEF Deliver
  <1>5. CASE ReaderExit(g)
    <2>1. Sound([c EXCEPT !.reader = "gone", !.closed = TRUE])
      BY <1>1, SoundOthers
    <2>2. cc' = [cc EXCEPT ![g] = [c EXCEPT !.reader = "gone", !.closed = TRUE]]
      BY <1>5 DEF ReaderExit
    <2>3. Acknowledged(c) => Acknowledged([c EXCEPT !.reader = "gone", !.closed = TRUE])
      BY <1>1 DEF Acknowledged, Sound, ClientConns
    <2> QED
      BY <1>1, <1>2, <1>5, <2>1, <2>2, <2>3, OnlyOneMoves DEF ReaderExit
  <1> QED
    BY <1>3, <1>4, <1>5 DEF Reader

LEMMA WriterStep ==
    ASSUME IInv, NEW g \in DOMAIN cc, Writer(g)
    PROVE  IInv'
  <1> DEFINE c == cc[g]
  <1>1. g \in 1..conn /\ Sound(c) /\ c \in ClientConns
    BY DEF IInv, ConnsSound, Sound
  <1>2. receipt \in BOOLEAN
    BY DEF IInv, OtherTypes
  <1>3. CASE Write(g)
    <2> DEFINE d(state, w) == [c EXCEPT !.out = Tail(@), !.broker = state, !.writer = w]
    <2>1. PICK state \in {c.broker, Took(c.broker, Head(c.out))}, w \in {"run", "gone"} :
             cc' = [cc EXCEPT ![g] = d(state, w)]
      <3>1. CASE cc' = [cc EXCEPT ![g].out = Tail(@),
                         ![g].broker = IF cc[g].lost THEN @ ELSE Took(@, Head(cc[g].out))]
        <4>1. c.writer \in {"run", "gone"}
          BY <1>1 DEF ClientConns
        <4>2. CASE c.lost
          <5>1. cc' = [cc EXCEPT ![g] = d(c.broker, c.writer)]
            BY <1>1, <3>1, <4>2 DEF ClientConns
          <5> QED
            BY <4>1, <5>1
        <4>3. CASE ~c.lost
          <5>1. cc' = [cc EXCEPT ![g] = d(Took(c.broker, Head(c.out)), c.writer)]
            BY <1>1, <3>1, <4>3 DEF ClientConns
          <5> QED
            BY <4>1, <5>1
        <4> QED
          BY <4>2, <4>3
      <3>2. CASE cc' = [cc EXCEPT ![g].out = Tail(@), ![g].writer = "gone"]
        <4>1. cc' = [cc EXCEPT ![g] = d(c.broker, "gone")]
          BY <1>1, <3>2 DEF ClientConns
        <4> QED
          BY <4>1
      <3> QED
        BY <1>3, <3>1, <3>2 DEF Write
    <2>2. Sound(d(state, w)) /\ (Acknowledged(c) => state \in {"connected", "subscribing", "subscribed"})
      BY <1>1, <1>3, <2>1, SoundWrite DEF Write
    <2>3. d(state, w).broker = state
      BY <1>1 DEF ClientConns
    <2>4. Acknowledged(c) => Acknowledged(d(state, w))
      BY <2>2, <2>3 DEF Acknowledged
    <2>5. receipt' \in BOOLEAN
      BY <1>2, <1>3 DEF Write
    <2> QED
      BY <1>1, <1>3, <2>1, <2>2, <2>4, <2>5, OnlyOneMoves DEF Write
  <1>4. CASE WriterExit(g)
    <2>1. Sound([c EXCEPT !.writer = "gone"])
      BY <1>1, SoundOthers
    <2>2. cc' = [cc EXCEPT ![g] = [c EXCEPT !.writer = "gone"]]
      BY <1>4 DEF WriterExit
    <2>3. Acknowledged(c) => Acknowledged([c EXCEPT !.writer = "gone"])
      BY <1>1 DEF Acknowledged, ClientConns
    <2> QED
      BY <1>1, <1>2, <1>4, <2>1, <2>2, <2>3, OnlyOneMoves DEF WriterExit
  <1> QED
    BY <1>3, <1>4 DEF Writer

LEMMA BrokerStep ==
    ASSUME IInv, NEW g \in DOMAIN cc, Broker(g) \/ Traffic(g) \/ Loss(g)
    PROVE  IInv'
  <1> DEFINE c == cc[g]
  <1>1. g \in 1..conn /\ Sound(c) /\ c \in ClientConns
    BY DEF IInv, ConnsSound, Sound
  <1>2. receipt \in BOOLEAN
    BY DEF IInv, OtherTypes
  <1>3. ASSUME NEW packets \in Seq(Packets), NEW state \in {"connected", "refused", "subscribed"},
               state = "refused" => c.broker = "connecting" /\ \A i \in DOMAIN packets : packets[i] # "connack",
               Sends(g, packets, state), UNCHANGED <<conn, online, pc, receipt, pub, panicked, modes>>
        PROVE  IInv'
    <2> DEFINE d == [c EXCEPT !.wire = @ \o packets, !.broker = state]
    <2>1. Sound(d) /\ (Acknowledged(c) => state \in {"connected", "subscribing", "subscribed"})
      BY <1>1, <1>3, SoundSends
    <2>2. d.broker = state
      BY <1>1 DEF ClientConns
    <2>3. cc' = [cc EXCEPT ![g] = d]
      BY <1>3 DEF Sends
    <2>4. Acknowledged(c) => Acknowledged(d)
      BY <2>1, <2>2 DEF Acknowledged
    <2> QED
      BY <1>1, <1>2, <1>3, <2>1, <2>3, <2>4, OnlyOneMoves
  <1>4. CASE AckConnect(g)
    <2>1. <<"connack">> \in Seq(Packets) /\ <<"refused">> \in Seq(Packets)
      BY DEF Packets
    <2>2. \A i \in DOMAIN <<"refused">> : <<"refused">>[i] # "connack"
      OBVIOUS
    <2>3. CASE Sends(g, <<"connack">>, "connected")
      BY <1>3, <1>4, <2>1, <2>3 DEF AckConnect
    <2>4. CASE Sends(g, <<"refused">>, "refused")
      BY <1>3, <1>4, <2>1, <2>2, <2>4 DEF AckConnect
    <2> QED
      BY <1>4, <2>3, <2>4 DEF AckConnect
  <1>5. CASE AckSubscribe(g)
    <2>1. PICK n \in 0..Retained : Sends(g, Append([i \in 1..n |-> "publish"], "suback"), "subscribed")
      BY <1>5 DEF AckSubscribe
    <2>2. [i \in 1..n |-> "publish"] \in Seq(Packets)
      BY Constants DEF Packets
    <2>3. Append([i \in 1..n |-> "publish"], "suback") \in Seq(Packets)
      BY <2>2 DEF Packets
    <2> QED
      BY <1>3, <1>5, <2>1, <2>3 DEF AckSubscribe
  <1>6. CASE Traffic(g)
    <2>1. <<"publish">> \in Seq(Packets)
      BY DEF Packets
    <2> QED
      BY <1>3, <1>6, <2>1 DEF Traffic
  <1>7. CASE Loss(g)
    <2>1. Sound([c EXCEPT !.lost = TRUE])
      BY <1>1, SoundOthers
    <2>2. cc' = [cc EXCEPT ![g] = [c EXCEPT !.lost = TRUE]]
      BY <1>7 DEF Loss
    <2>3. Acknowledged(c) => Acknowledged([c EXCEPT !.lost = TRUE])
      BY <1>1 DEF Acknowledged, ClientConns
    <2> QED
      BY <1>1, <1>2, <1>7, <2>1, <2>2, <2>3, OnlyOneMoves DEF Loss
  <1> QED
    BY <1>4, <1>5, <1>6, <1>7 DEF Broker

\* A message or a job is queued on a connection.
LEMMA PutStep ==
    ASSUME IInv, NEW g \in 1..conn, NEW job \in Jobs, Room(g), Put(g, job),
           Acknowledged(cc[g]) \/ job = "connect", UNCHANGED conn
    PROVE  ConnsSound' /\ AcksKept
  <1> DEFINE c == cc[g]
             d == [c EXCEPT !.out = Append(@, job)]
  <1>1. Sound(c) /\ c \in ClientConns
    BY DEF IInv, ConnsSound, Sound
  <1>2. Sound(d)
    BY <1>1, SoundPut DEF Room
  <1>3. Acknowledged(c) => Acknowledged(d)
    BY <1>1 DEF Acknowledged, ClientConns
  <1>4. cc' = [cc EXCEPT ![g] = d]
    BY DEF Put
  <1> QED
    BY <1>2, <1>3, <1>4, OneMoves

LEMMA PublisherStep ==
    ASSUME IInv, NEW p \in Publishers, Check(p) \/ Grab(p) \/ Publish(p)
    PROVE  IInv'
  <1>1. conn \in 0..MaxConn
    BY DEF IInv, OtherTypes
  <1>2. CASE Check(p)
    <2>1. ConnsSound' /\ AcksKept
      BY <1>2, NoneMoves DEF Check
    <2>2. OnlineThere'
      BY <1>2, <2>1, OnlineStays DEF Check
    <2>3. PublishersMay'
      BY <1>2 DEF Check, IInv, PublishersMay, PubType, OnlineThere
    <2>4. PubType'
      BY <1>2 DEF Check, IInv, PubType
    <2>5. OtherTypes'
      BY <1>2 DEF Check, IInv, OtherTypes, modes
    <2> QED
      BY <2>1, <2>2, <2>3, <2>4, <2>5 DEF IInv
  <1>3. CASE Grab(p)
    <2>1. ConnsSound' /\ AcksKept
      BY <1>3, NoneMoves DEF Grab
    <2>2. OnlineThere'
      BY <1>3, <2>1, OnlineStays DEF Grab
    <2>3. PublishersMay'
      BY <1>1, <1>3, Constants DEF Grab, IInv, PublishersMay, PubType
    <2>4. PubType'
      BY <1>1, <1>3 DEF Grab, IInv, PubType
    <2>5. OtherTypes'
      BY <1>3 DEF Grab, IInv, OtherTypes, modes
    <2> QED
      BY <2>1, <2>2, <2>3, <2>4, <2>5 DEF IInv
  <1>4. CASE Publish(p)
    <2> DEFINE g == pub[p].on
    <2>1. g \in 1..conn /\ Acknowledged(cc[g])
      BY <1>4 DEF Publish, IInv, PublishersMay
    <2>2. CASE Panic(g)
      BY <2>2, PanicStep
    <2>3. CASE ~Panic(g)
      <3>1. /\ Room(g) /\ Put(g, "publish")
            /\ pub' = [pub EXCEPT ![p] = [at |-> "idle", on |-> 0]]
            /\ UNCHANGED <<conn, online, pc, receipt, panicked, modes>>
        BY <1>4, <2>3 DEF Publish
      <3>2. ConnsSound' /\ AcksKept
        BY <2>1, <3>1, PutStep DEF Jobs
      <3>3. OnlineThere'
        BY <3>1, <3>2, OnlineStays
      <3>4. PublishersMay'
        BY <1>1, <3>1, <3>2, Constants DEF IInv, PublishersMay, PubType, AcksKept
      <3>5. PubType'
        <4>1. [at |-> "idle", on |-> 0] \in [at : {"idle", "checked", "sending"}, on : 0..MaxConn]
          BY Constants
        <4> QED
          BY <3>1, <4>1 DEF IInv, PubType
      <3>6. OtherTypes'
        BY <3>1 DEF IInv, OtherTypes, modes
      <3> QED
        BY <3>2, <3>3, <3>4, <3>5, <3>6 DEF IInv
    <2> QED
      BY <2>2, <2>3
  <1> QED
    BY <1>2, <1>3, <1>4
-----------------------------------------------------------------------------
(***************************************************************************)
(* The worker.                                                             *)
(***************************************************************************)
\* From one label to the next, with nothing else that matters.
LEMMA WorkerMoves ==
    ASSUME IInv, ConnsSound', AcksKept, UNCHANGED <<conn, online, pub, panicked, modes>>,
           receipt' \in BOOLEAN, pc' \in Labels, pc # "dial",
           pc' \in OnlineAt <=> pc \in OnlineAt
    PROVE  IInv'
  <1>1. conn \in Nat
    BY DEF IInv, OtherTypes
  <1>2. OnlineThere'
    BY <1>1 DEF IInv, OnlineThere, AcksKept
  <1>3. PublishersMay' /\ PubType'
    BY PublishersStay
  <1>4. OtherTypes'
    BY DEF IInv, OtherTypes, modes
  <1> QED
    BY <1>2, <1>3, <1>4 DEF IInv

LEMMA DialStep ==
    ASSUME IInv, Dial
    PROVE  IInv'
  <1>1. conn \in 0..MaxConn /\ conn' = conn + 1 /\ conn' \in 1..MaxConn
    BY Constants DEF Dial, IInv, OtherTypes
  <1>2. /\ DOMAIN cc' = 1..conn' /\ cc'[conn'] = NewClientConn
        /\ \A g \in 1..conn : g \in 1..conn' /\ cc'[g] = cc[g]
    BY <1>1 DEF Dial
  <1>3. ConnsSound'
    <2>1. ASSUME NEW g \in 1..conn' PROVE Sound(cc'[g])
      <3>1. g \in 1..conn \/ g = conn'
        BY <1>1
      <3> QED
        BY <1>2, <3>1, SoundNew DEF IInv, ConnsSound
    <2>2. \A g \in 1..conn' : cc'[g] \in ClientConns
      BY <2>1 DEF Sound
    <2>3. cc' = [g \in 1..conn' |-> IF g <= conn THEN cc[g] ELSE NewClientConn]
      BY <1>1 DEF Dial
    <2> QED
      BY <2>1, <2>2, <2>3 DEF ConnsSound
  <1>4. pc = "dial" /\ ~online /\ UNCHANGED <<online, pub>>
    BY DEF Dial, IInv, OnlineThere, OnlineAt
  <1>5. OnlineThere'
    BY <1>1, <1>4 DEF Dial, OnlineThere, OnlineAt
  <1>6. PublishersMay' /\ PubType'
    BY <1>1, <1>2, <1>4 DEF Dial, IInv, PublishersMay, PubType
  <1>7. OtherTypes'
    BY <1>1 DEF Dial, IInv, OtherTypes, Labels, modes
  <1> QED
    BY <1>3, <1>5, <1>6, <1>7 DEF IInv

LEMMA WorkerPutStep ==
    ASSUME IInv, NEW job \in Jobs, NEW next \in Labels, pc # "dial",
           next \in OnlineAt <=> pc \in OnlineAt, online \/ job = "connect",
           Room(conn), Put(conn, job), pc' = next, receipt' \in BOOLEAN,
           UNCHANGED <<conn, online, pub, panicked, modes>>
    PROVE  IInv'
  <1>1. conn \in 1..conn
    BY DEF IInv, OnlineThere, OtherTypes
  <1>2. Acknowledged(cc[conn]) \/ job = "connect"
    BY DEF IInv, OnlineThere
  <1>3. ConnsSound' /\ AcksKept
    BY <1>1, <1>2, PutStep
  <1> QED
    BY <1>3, WorkerMoves

LEMMA SyncStep ==
    ASSUME IInv,
           \/ Sync("connect", "connect", "connect sent")
           \/ Sync("subscribe", "subscribe", "subscribe sent")
    PROVE  IInv'
  <1>1. CASE Panic(conn)
    BY <1>1, PanicStep
  <1>2. CASE ~Panic(conn)
    <2>1. PICK job \in {"connect", "subscribe"} :
             /\ pc = job /\ Room(conn) /\ Put(conn, job) /\ receipt' = FALSE
             /\ pc' = IF job = "connect" THEN "connect sent" ELSE "subscribe sent"
             /\ UNCHANGED <<conn, online, pub, panicked, modes>>
      BY <1>2 DEF Sync
    <2>2. online \/ job = "connect"
      BY <2>1 DEF IInv, OnlineThere, OnlineAt
    <2>3. pc' \in Labels /\ pc # "dial" /\ (pc' \in OnlineAt <=> pc \in OnlineAt) /\ job \in Jobs
      BY <2>1 DEF Labels, OnlineAt, Jobs
    <2> QED
      BY <2>1, <2>2, <2>3, WorkerPutStep
  <1> QED
    BY <1>1, <1>2

LEMMA WorkerPublishStep ==
    ASSUME IInv,
           \/ WorkerPublish("report", "range")
           \/ WorkerPublish("handler", "range")
           \/ WorkerPublish("offline", "unset")
    PROVE  IInv'
  <1>1. CASE Panic(conn)
    BY <1>1, PanicStep
  <1>2. CASE ~Panic(conn)
    <2>1. /\ pc \in {"report", "handler", "offline"} /\ pc' \in {"range", "unset"}
          /\ Room(conn) /\ Put(conn, "publish")
          /\ UNCHANGED <<conn, online, receipt, pub, panicked, modes>>
      BY <1>2 DEF WorkerPublish
    <2>2. online /\ receipt \in BOOLEAN
      BY <2>1 DEF IInv, OnlineThere, OnlineAt, OtherTypes
    <2>3. pc' \in Labels /\ pc # "dial" /\ (pc' \in OnlineAt <=> pc \in OnlineAt) /\ "publish" \in Jobs
      BY <2>1 DEF Labels, OnlineAt, Jobs
    <2> QED
      BY <2>1, <2>2, <2>3, WorkerPutStep
  <1> QED
    BY <1>1, <1>2

\* The reader that handed over an acknowledgement goes on.
LEMMA TakesAck ==
    ASSUME IInv, NEW g \in 1..conn, cc[g].reader \in Packets,
           cc' = [cc EXCEPT ![g].reader = "read"], UNCHANGED conn
    PROVE  ConnsSound' /\ AcksKept
  <1> DEFINE c == cc[g]
             d == [c EXCEPT !.reader = "read"]
  <1>1. Sound(c) /\ c \in ClientConns
    BY DEF IInv, ConnsSound, Sound
  <1>2. 0 \in 0..QueueLen
    BY Constants
  <1>3. Sound(d)
    BY <1>1, <1>2, SoundGoesOn
  <1>4. Acknowledged(c) => Acknowledged(d)
    BY <1>1 DEF Acknowledged, ClientConns
  <1> QED
    BY <1>3, <1>4, OneMoves

LEMMA ConnackStep ==
    ASSUME IInv, Connack
    PROVE  IInv'
  <1>1. conn \in 1..conn /\ conn \in Nat /\ pc = "connack" /\ ~online
    BY DEF Connack, IInv, OnlineThere, OnlineAt, OtherTypes
  <1>2. ConnsSound' /\ AcksKept
    BY <1>1, TakesAck DEF Connack, Packets
  <1>3. PublishersMay' /\ PubType'
    BY <1>2, PublishersStay DEF Connack
  <1>4. OtherTypes'
    BY DEF Connack, IInv, OtherTypes, Labels, modes
  <1>5. CASE cc[conn].reader = "connack"
    <2>1. Acknowledged(cc[conn])
      BY <1>1, <1>5 DEF IInv, ConnsSound, Sound
    <2>2. Acknowledged(cc'[conn])
      BY <1>1, <1>2, <2>1 DEF AcksKept
    <2>3. OnlineThere'
      BY <1>1, <1>5, <2>2 DEF Connack, OnlineThere, OnlineAt
    <2> QED
      BY <1>2, <1>3, <1>4, <2>3 DEF IInv
  <1>6. CASE cc[conn].reader # "connack"
    <2>1. OnlineThere'
      BY <1>1, <1>6 DEF Connack, OnlineThere, OnlineAt
    <2> QED
      BY <1>2, <1>3, <1>4, <2>1 DEF IInv
  <1> QED
    BY <1>5, <1>6

LEMMA SubackStep ==
    ASSUME IInv, Suback
    PROVE  IInv'
  <1>1. conn \in 1..conn /\ receipt \in BOOLEAN
    BY DEF Suback, IInv, OnlineThere, OtherTypes
  <1>2. ConnsSound' /\ AcksKept
    BY <1>1, TakesAck DEF Suback, Packets
  <1>3. pc' \in Labels /\ pc # "dial" /\ (pc' \in OnlineAt <=> pc \in OnlineAt)
    BY DEF Suback, Labels, OnlineAt
  <1> QED
    BY <1>1, <1>2, <1>3, WorkerMoves DEF Suback

LEMMA RangeStep ==
    ASSUME IInv, Range
    PROVE  IInv'
  <1>1. conn \in 1..conn /\ receipt \in BOOLEAN
    BY DEF Range, IInv, OnlineThere, OtherTypes
  <1>2. pc' \in Labels /\ pc # "dial" /\ (pc' \in OnlineAt <=> pc \in OnlineAt)
    BY DEF Range, Labels, OnlineAt
  <1>3. ConnsSound' /\ AcksKept
    <2> DEFINE c == cc[conn]
               d == [c EXCEPT !.incoming = c.incoming - 1]
    <2>1. CASE c.incoming > 0
      <3>1. Sound(c) /\ c \in ClientConns
        BY <1>1 DEF IInv, ConnsSound, Sound
      <3>2. c.incoming - 1 \in 0..QueueLen
        BY <2>1, <3>1, Constants DEF ClientConns
      <3>3. Sound(d)
        BY <3>1, <3>2, SoundOthers
      <3>4. Acknowledged(c) => Acknowledged(d)
        BY <3>1 DEF Acknowledged, ClientConns
      <3>5. cc' = [cc EXCEPT ![conn] = d] /\ UNCHANGED conn
        BY <2>1 DEF Range
      <3> QED
        BY <1>1, <3>3, <3>4, <3>5, OneMoves
    <2>2. CASE ~(c.incoming > 0)
      BY <2>2, NoneMoves DEF Range
    <2> QED
      BY <2>1, <2>2
  <1> QED
    BY <1>1, <1>2, <1>3, WorkerMoves DEF Range

LEMMA WorkerStep ==
    ASSUME IInv, Worker
    PROVE  IInv'
  <1>1. ASSUME Receipt("connect sent", "connack") \/ Receipt("subscribe sent", "suback")
        PROVE  IInv'
    <2>1. ConnsSound' /\ AcksKept
      BY <1>1, NoneMoves DEF Receipt
    <2>2. pc' \in Labels /\ pc # "dial" /\ (pc' \in OnlineAt <=> pc \in OnlineAt) /\ receipt \in BOOLEAN
      BY <1>1 DEF Receipt, Labels, OnlineAt, IInv, OtherTypes
    <2> QED
      BY <1>1, <2>1, <2>2, WorkerMoves DEF Receipt
  <1>2. CASE Unset
    <2>1. ConnsSound' /\ AcksKept
      BY <1>2, NoneMoves DEF Unset
    <2>2. OnlineThere'
      BY <1>2 DEF Unset, OnlineThere, OnlineAt
    <2>3. PublishersMay' /\ PubType'
      BY <1>2, <2>1, PublishersStay DEF Unset
    <2>4. OtherTypes'
      BY <1>2 DEF Unset, IInv, OtherTypes, Labels, modes
    <2> QED
      BY <2>1, <2>2, <2>3, <2>4 DEF IInv
  <1> QED
    BY <1>1, <1>2, DialStep, SyncStep, ConnackStep, SubackStep, WorkerPublishStep, RangeStep DEF Worker

LEMMA InvNext == IInv /\ [Next]_vars => IInv'
  <1> SUFFICES ASSUME IInv, [Next]_vars PROVE IInv'
    OBVIOUS
  <1>1. CASE UNCHANGED vars
    <2>1. ConnsSound' /\ AcksKept
      BY <1>1, NoneMoves DEF vars
    <2>2. OnlineThere' /\ PublishersMay' /\ PubType'
      BY <1>1, <2>1, OnlineStays, PublishersStay DEF vars
    <2>3. OtherTypes'
      BY <1>1 DEF vars, modes, IInv, OtherTypes
    <2> QED
      BY <2>1, <2>2, <2>3 DEF IInv
  <1> QED
    BY <1>1, WorkerStep, ReaderStep, WriterStep, BrokerStep, PublisherStep DEF Next

\* The types of the MQTT client's state.
THEOREM MqttType == Spec => []TypeOK
  BY InvInit, InvNext, Implies, PTL DEF Spec

\* Nothing but CONNECT is queued on a connection that the broker has not
\* acknowledged, whoever publishes and however often connections are lost
\* (internal/mqtt/mqtt.go:117-125, 142, 154-180).
THEOREM ConnectComesFirst == Spec => []ConnectFirst
  BY InvInit, InvNext, Implies, PTL DEF Spec

\* While the worker is online, the broker has acknowledged the connection on which
\* the others publish (internal/mqtt/mqtt.go:117-142).
THEOREM OnlineIsAcknowledged == Spec => []OnlineAcknowledged
  BY InvInit, InvNext, Implies, PTL DEF Spec
=============================================================================
