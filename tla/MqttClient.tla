----------------------------- MODULE MqttClient -----------------------------
(***************************************************************************)
(* The agent's MQTT connection: the worker of internal/mqtt that dials the *)
(* broker, connects, subscribes and handles what arrives, over and over;   *)
(* the reader and writer goroutines of pkg/mqtt's ClientConn; and the      *)
(* goroutines that call mqtt.Publish whenever they like (the 30 second     *)
(* report, miio, zigbee, the Lua script).  A ClientConn's channels out and *)
(* Incoming are bounded, connack and suback are rendezvous; the reader     *)
(* closes out and Incoming when the connection ends, and sending on a      *)
(* closed channel panics, which ends the process.                          *)
(***************************************************************************)
EXTENDS Naturals, Sequences

CONSTANTS
    Publishers, \* goroutines that call mqtt.Publish, besides the worker itself
    QueueLen,   \* clientQueueLength (100 in the code)
    Retained,   \* messages the broker may send before the SUBACK
    MaxConn,    \* bound on the connections made
    MaxWire,    \* bound on the packets in flight from the broker
    Replies,    \* do handlers of what arrives publish (miio/command_ack)?
    Infos,      \* does the log level let [mqtt] offline through to openmiio/log?
    LossAt      \* labels of the worker at which the broker may go away

ASSUME MqttAssumption ==
    /\ QueueLen \in Nat \ {0} /\ Retained \in Nat
    /\ MaxConn \in Nat \ {0} /\ MaxWire \in Nat \ {0} /\ Replies \subseteq BOOLEAN /\ Infos \subseteq BOOLEAN

Dials == 1..MaxConn
Jobs == {"connect", "subscribe", "publish"}
Packets == {"connack", "refused", "suback", "publish"}

\* Where the worker is, in the order it gets there.
Labels == {"dial", "connect", "connect sent", "connack", "subscribe", "subscribe sent",
           "suback", "report", "range", "handler", "offline", "unset"}

VARIABLES
    cc,         \* the ClientConns, by the order they were made
    conn,       \* the current one (0: none yet)
    online,
    pc,         \* the worker
    receipt,    \* the receipt of the worker's last sync is closed
    pub,        \* each publisher: where it is in Publish, with which ClientConn
    panicked,   \* somebody sent on a closed channel
    info,       \* one of Infos, and
    replies     \* one of Replies; they do not change

modes == <<info, replies>>
vars == <<cc, conn, online, pc, receipt, pub, panicked, modes>>

\* out and incoming (a count: payloads do not matter) with closed for both;
\* reader: reading, handing over a packet, or gone; what the broker has sent
\* and not been read; what the broker takes this client for.
NewClientConn ==
    [out |-> <<>>, incoming |-> 0, closed |-> FALSE, reader |-> "read", writer |-> "run",
     wire |-> <<>>, broker |-> "new", lost |-> FALSE]

Init ==
    /\ cc = [g \in {} |-> NewClientConn]
    /\ conn = 0
    /\ online = FALSE
    /\ pc = "dial"
    /\ receipt = TRUE
    /\ pub = [p \in Publishers |-> [at |-> "idle", on |-> 0]]
    /\ panicked = FALSE
    /\ info \in Infos /\ replies \in Replies

Room(g) == ~cc[g].closed /\ Len(cc[g].out) < QueueLen

Put(g, job) == cc' = [cc EXCEPT ![g].out = Append(@, job)]

\* c.out <- job, as the last thing a goroutine does in a step: it panics on a
\* closed channel and waits on a full one.
Panic(g) ==
    /\ cc[g].closed
    /\ panicked' = TRUE
    /\ UNCHANGED <<cc, conn, online, pc, receipt, pub, modes>>
-----------------------------------------------------------------------------
(***************************************************************************)
(* The worker.                                                             *)
(***************************************************************************)

\* The loop sleeps 10 seconds before it dials again: whoever saw the old value
\* of online has come to its send by then.
Dial ==
    /\ pc = "dial" /\ conn < MaxConn
    /\ \A p \in Publishers : pub[p].at # "checked"
    /\ conn' = conn + 1
    /\ cc' = [g \in 1..(conn + 1) |-> IF g <= conn THEN cc[g] ELSE NewClientConn]
    /\ pc' = "connect"
    /\ UNCHANGED <<online, receipt, pub, panicked, modes>>

\* sync: the job goes into out, its receipt is awaited.
Sync(at, job, next) ==
    /\ pc = at
    /\ \/ /\ Room(conn)
          /\ Put(conn, job)
          /\ pc' = next
          /\ receipt' = FALSE
          /\ UNCHANGED <<conn, online, pub, panicked, modes>>
       \/ Panic(conn)

Receipt(at, next) ==
    /\ pc = at /\ receipt
    /\ pc' = next
    /\ UNCHANGED <<cc, conn, online, receipt, pub, panicked, modes>>

\* Fault: the worker goes online whatever the return code.
ConnackUnread ==
    /\ pc = "connack" /\ cc[conn].reader \in {"connack", "refused"}
    /\ online' = TRUE
    /\ pc' = IF cc[conn].reader = "connack" THEN "subscribe" ELSE "dial"
    /\ cc' = [cc EXCEPT ![conn].reader = "read"]
    /\ UNCHANGED <<conn, receipt, pub, panicked, modes>>

\* The acknowledgement of Connect: on success the worker is online, otherwise it
\* gives up this ClientConn as it is and dials again.
Connack ==
    /\ pc = "connack" /\ cc[conn].reader \in {"connack", "refused"}
    /\ IF cc[conn].reader = "connack"
       THEN online' = TRUE /\ pc' = "subscribe"
       ELSE pc' = "dial" /\ UNCHANGED online
    /\ cc' = [cc EXCEPT ![conn].reader = "read"]
    /\ UNCHANGED <<conn, receipt, pub, panicked, modes>>

Suback ==
    /\ pc = "suback" /\ cc[conn].reader = "suback"
    /\ cc' = [cc EXCEPT ![conn].reader = "read"]
    /\ pc' = "report"
    /\ UNCHANGED <<conn, online, receipt, pub, panicked, modes>>

\* The worker's own calls of Publish: SendReport, a handler, the log line
\* [mqtt] offline.  It does them while online is TRUE.
WorkerPublish(at, next) ==
    /\ pc = at
    /\ \/ /\ Room(conn)
          /\ Put(conn, "publish")
          /\ pc' = next
          /\ UNCHANGED <<conn, online, receipt, pub, panicked, modes>>
       \/ Panic(conn)

\* for m := range conn.Incoming
Range ==
    /\ pc = "range"
    /\ \/ /\ cc[conn].incoming > 0
          /\ cc' = [cc EXCEPT ![conn].incoming = @ - 1]
          /\ pc' \in {"range"} \cup (IF replies THEN {"handler"} ELSE {})
       \/ /\ cc[conn].incoming = 0 /\ cc[conn].closed
          /\ pc' = IF info THEN "offline" ELSE "unset"
          /\ UNCHANGED cc
    /\ UNCHANGED <<conn, online, receipt, pub, panicked, modes>>

\* Fault: online stays as it was.
UnsetForgotten ==
    /\ pc = "unset"
    /\ pc' = "dial"
    /\ UNCHANGED <<cc, conn, online, receipt, pub, panicked, modes>>

Unset ==
    /\ pc = "unset"
    /\ online' = FALSE
    /\ pc' = "dial"
    /\ UNCHANGED <<cc, conn, receipt, pub, panicked, modes>>

Worker ==
    \/ Dial
    \/ Sync("connect", "connect", "connect sent") \/ Receipt("connect sent", "connack")
    \/ Connack
    \/ Sync("subscribe", "subscribe", "subscribe sent") \/ Receipt("subscribe sent", "suback")
    \/ Suback
    \/ WorkerPublish("report", "range")
    \/ Range
    \/ WorkerPublish("handler", "range")
    \/ WorkerPublish("offline", "unset")
    \/ Unset
-----------------------------------------------------------------------------
(***************************************************************************)
(* The goroutines of a ClientConn.                                         *)
(***************************************************************************)
\* Fault: a SUBACK is dropped like the messages nobody waits for.
ReadDropsSuback(g) ==
    /\ cc[g].reader = "read" /\ cc[g].wire # <<>>
    /\ cc' = [cc EXCEPT ![g].wire = Tail(@),
                        ![g].reader = IF Head(cc[g].wire) = "suback" THEN "read" ELSE Head(cc[g].wire)]
    /\ UNCHANGED <<conn, online, pc, receipt, pub, panicked, modes>>

Read(g) ==
    /\ cc[g].reader = "read" /\ cc[g].wire # <<>>
    /\ cc' = [cc EXCEPT ![g].wire = Tail(@), ![g].reader = Head(cc[g].wire)]
    /\ UNCHANGED <<conn, online, pc, receipt, pub, panicked, modes>>

\* c.Incoming <- m waits while the channel is full; the acknowledgements are
\* taken by the worker (Connack, Suback).
Deliver(g) ==
    /\ cc[g].reader = "publish" /\ cc[g].incoming < QueueLen
    /\ cc' = [cc EXCEPT ![g].incoming = @ + 1, ![g].reader = "read"]
    /\ UNCHANGED <<conn, online, pc, receipt, pub, panicked, modes>>

\* Fault: the channels are not closed.
ReaderExitQuiet(g) ==
    /\ cc[g].reader = "read" /\ cc[g].lost
    /\ cc' = [cc EXCEPT ![g].reader = "gone"]
    /\ UNCHANGED <<conn, online, pc, receipt, pub, panicked, modes>>

\* The deferred function: close(c.out), close(c.Incoming), c.conn.Close().  A
\* reset connection loses what was on the wire.
ReaderExit(g) ==
    /\ cc[g].reader = "read" /\ cc[g].lost
    /\ cc' = [cc EXCEPT ![g].reader = "gone", ![g].closed = TRUE]
    /\ UNCHANGED <<conn, online, pc, receipt, pub, panicked, modes>>

\* What the broker makes of a packet.
Took(state, job) ==
    CASE job = "connect" /\ state = "new" -> "connecting"
      [] job = "subscribe" /\ state = "connected" -> "subscribing"
      [] OTHER -> state

\* Fault: the writer takes SUBSCRIBE for the last message.
WriteEndsEarly(g) ==
    /\ cc[g].writer = "run" /\ cc[g].out # <<>>
    /\ LET job == Head(cc[g].out)
       IN /\ receipt' = (receipt \/ (g = conn /\ job # "publish"))
          /\ cc' = [cc EXCEPT ![g].out = Tail(@), ![g].broker = Took(@, job),
                     ![g].writer = IF job = "subscribe" THEN "gone" ELSE "run"]
    /\ UNCHANGED <<conn, online, pc, pub, panicked, modes>>

\* One round of the writer: the receipt is closed whether or not Encode failed,
\* and a failure ends the writer, with out and the connection left as they are.
Write(g) ==
    /\ cc[g].writer = "run" /\ cc[g].out # <<>>
    /\ LET job == Head(cc[g].out)
       IN /\ receipt' = (receipt \/ (g = conn /\ job # "publish"))
          /\ \/ cc' = [cc EXCEPT ![g].out = Tail(@),
                         ![g].broker = IF cc[g].lost THEN @ ELSE Took(@, job)]
             \/ /\ cc[g].lost
                /\ cc' = [cc EXCEPT ![g].out = Tail(@), ![g].writer = "gone"]
    /\ UNCHANGED <<conn, online, pc, pub, panicked, modes>>

WriterExit(g) ==
    /\ cc[g].writer = "run" /\ cc[g].out = <<>> /\ cc[g].closed
    /\ cc' = [cc EXCEPT ![g].writer = "gone"]
    /\ UNCHANGED <<conn, online, pc, receipt, pub, panicked, modes>>

-----------------------------------------------------------------------------
(***************************************************************************)
(* mqtt.Publish, called by any goroutine: the check of online, the read of *)
(* conn, and the send are three steps.                                     *)
(***************************************************************************)
Check(p) ==
    /\ pub[p].at = "idle" /\ online
    /\ pub' = [pub EXCEPT ![p].at = "checked"]
    /\ UNCHANGED <<cc, conn, online, pc, receipt, panicked, modes>>

Grab(p) ==
    /\ pub[p].at = "checked"
    /\ pub' = [pub EXCEPT ![p] = [at |-> "sending", on |-> conn]]
    /\ UNCHANGED <<cc, conn, online, pc, receipt, panicked, modes>>

Publish(p) ==
    /\ pub[p].at = "sending"
    /\ \/ /\ Room(pub[p].on)
          /\ Put(pub[p].on, "publish")
          /\ pub' = [pub EXCEPT ![p] = [at |-> "idle", on |-> 0]]
          /\ UNCHANGED <<conn, online, pc, receipt, panicked, modes>>
       \/ Panic(pub[p].on)

-----------------------------------------------------------------------------
(***************************************************************************)
(* The broker.  Retained messages of the topics subscribed to may come     *)
(* before the SUBACK; what follows is the traffic on those topics.         *)
(***************************************************************************)
Sends(g, packets, state) ==
    cc' = [cc EXCEPT ![g].wire = @ \o packets, ![g].broker = state]

AckConnect(g) ==
    /\ cc[g].broker = "connecting" /\ ~cc[g].lost
    /\ \/ Sends(g, <<"connack">>, "connected")
       \/ Sends(g, <<"refused">>, "refused")
    /\ UNCHANGED <<conn, online, pc, receipt, pub, panicked, modes>>

AckSubscribe(g) ==
    /\ cc[g].broker = "subscribing" /\ ~cc[g].lost
    /\ \E n \in 0..Retained : Sends(g, Append([i \in 1..n |-> "publish"], "suback"), "subscribed")
    /\ UNCHANGED <<conn, online, pc, receipt, pub, panicked, modes>>

Traffic(g) ==
    /\ cc[g].broker = "subscribed" /\ ~cc[g].lost /\ Len(cc[g].wire) < MaxWire
    /\ Sends(g, <<"publish">>, "subscribed")
    /\ UNCHANGED <<conn, online, pc, receipt, pub, panicked, modes>>

Loss(g) ==
    /\ ~cc[g].lost
    /\ IF g = conn THEN pc \in LossAt ELSE LossAt # {}
    /\ cc' = [cc EXCEPT ![g].lost = TRUE]
    /\ UNCHANGED <<conn, online, pc, receipt, pub, panicked, modes>>
-----------------------------------------------------------------------------
\* What the goroutines and the broker do; a panic ends them all.
Reader(g) == g \in DOMAIN cc /\ ~panicked /\ (Read(g) \/ Deliver(g) \/ ReaderExit(g))

Writer(g) == g \in DOMAIN cc /\ ~panicked /\ (Write(g) \/ WriterExit(g))

Broker(g) == g \in DOMAIN cc /\ ~panicked /\ (AckConnect(g) \/ AckSubscribe(g))

Next ==
    \/ ~panicked /\ Worker
    \/ \E g \in DOMAIN cc : Reader(g) \/ Writer(g) \/ Broker(g)
    \/ \E g \in DOMAIN cc : ~panicked /\ (Traffic(g) \/ Loss(g))
    \/ \E p \in Publishers : ~panicked /\ (Check(p) \/ Grab(p) \/ Publish(p))

Spec == Init /\ [][Next]_vars

\* Goroutines are scheduled, senders that wait on a full channel are served in
\* order, and the broker acknowledges what it was sent.
Fairness ==
    /\ WF_vars(~panicked /\ Worker)
    /\ \A g \in Dials : WF_vars(Reader(g)) /\ WF_vars(Writer(g)) /\ WF_vars(Broker(g))
    /\ \A p \in Publishers : WF_vars(~panicked /\ Grab(p)) /\ SF_vars(~panicked /\ Publish(p))

FairSpec == Spec /\ Fairness
-----------------------------------------------------------------------------
TypeOK ==
    /\ conn \in 0..MaxConn /\ online \in BOOLEAN /\ receipt \in BOOLEAN /\ panicked \in BOOLEAN /\ info \in Infos /\ replies \in Replies
    /\ pc \in Labels
    /\ pub \in [Publishers -> [at : {"idle", "checked", "sending"}, on : 0..MaxConn]]
    /\ DOMAIN cc = 1..conn
    /\ \A g \in DOMAIN cc :
          /\ cc[g].out \in Seq(Jobs) /\ Len(cc[g].out) <= QueueLen
          /\ cc[g].incoming \in 0..QueueLen
          /\ cc[g].wire \in Seq(Packets)
          /\ cc[g].reader \in {"read", "gone"} \cup Packets
          /\ cc[g].writer \in {"run", "gone"}
          /\ cc[g].broker \in {"new", "connecting", "connected", "refused", "subscribing", "subscribed"}
          /\ cc[g].closed \in BOOLEAN /\ cc[g].lost \in BOOLEAN
          /\ cc[g].closed <=> cc[g].reader = "gone"

\* Nothing but CONNECT is queued on a connection that the broker has not
\* acknowledged, whoever publishes and whatever became of the connection
\* before (internal/mqtt/mqtt.go:117-125, 142, 155).
ConnectFirst ==
    \A g \in DOMAIN cc : cc[g].broker \in {"new", "connecting", "refused"} =>
       \A i \in DOMAIN cc[g].out : cc[g].out[i] = "connect"

\* The connection is given up only for a new one: while the worker is online, the
\* connection others publish on is the one it reads from, and the broker
\* acknowledged it.
OnlineAcknowledged ==
    online => conn > 0 /\ cc[conn].broker \in {"connected", "subscribing", "subscribed"}

\* A goroutine in Publish gets its message into the queue, as long as the broker
\* stays (mqtt.go:878-884).
PublishReturns == \A p \in Publishers, g \in Dials :
    pub[p] = [at |-> "sending", on |-> g] ~> (pub[p].at = "idle" \/ (g <= conn /\ cc[g].lost))

\* Subscribe comes back: messages "will be delivered on the Incoming channel"
\* (pkg/mqtt/mqtt.go:864-865), also when retained ones come first, and while a
\* sender on an old connection may take the process down.
SubscribeReturns == pc = "suback" ~> (pc # "suback" \/ panicked)

\* When the connection is lost the worker dials again, as its loop is there for
\* (internal/mqtt/mqtt.go:33-37), or the process is gone.
Reconnects == \A g \in 1..(MaxConn - 1) :
    (g \in DOMAIN cc /\ cc[g].lost) ~> (conn > g \/ panicked)

\* Losing the broker never takes the agent down: the worker dials again every
\* 10 seconds, and Publish drops what is published while it is offline
\* (internal/mqtt/mqtt.go:33-37, 155-157).
NoPanic == ~panicked
=============================================================================
