------------------------------- MODULE Router -------------------------------
(***************************************************************************)
(* internal/miio: the agent that stands between the local apps, the cloud  *)
(* process (miio_client) and the users of MQTT.  Every accepted connection *)
(* has a goroutine (localClientWorker), the cloud connection has one       *)
(* (cloudWorker), and MQTT commands run on the goroutine of the MQTT       *)
(* worker.  Each reads a message, routes it (miioRequest) and, for a       *)
(* response, answers the caller (miioResponse); they share the marks table *)
(* (module Mangle), the connections and the methods (under mu) and conn0.  *)
(*                                                                         *)
(* A goroutine takes three steps per message, between which the others     *)
(* run: read and route it, patch and mark it, write it.  The last two are  *)
(* Patch and Send for a request, Respond for a response.                   *)
(*                                                                         *)
(* Sending while conn0 is being replaced, and the MQTT connection itself,  *)
(* are not split further here: sendToCloud is atomic, MQTT always online.  *)
(***************************************************************************)
EXTENDS Mangle, FiniteSets, Sequences

CONSTANTS
    Conns,      \* connections the apps may open on /tmp/miio_agent.socket
    Addr,       \* addresses of the apps (2, 4, 8, 16, 32: miio.go:12-21)
    Cloud,      \* AddrCloud, and its goroutine
    Mqtt,       \* AddrMQQT, and its goroutine
    None,       \* no value
    Methods,    \* methods an app may register
    Local,      \* methods with the prefix "local." , answered by miio_client
    Ids,        \* ids that callers choose
    Masks,      \* the _to keys an app may put on a request, as sets of addresses
    MqttMasks,  \* the _to keys of commands from MQTT
    MaxCall,    \* bound on the requests made
    MaxMark,    \* bound on markID
    MaxKey,     \* bound on the addresses registered for one method
    May         \* what may happen: "hangup", "sweep"; and what the Lua script
                \* may do: "prevent", "answer", "rewrite", "replace"

Workers == Conns \cup {Cloud, Mqtt}
Endpoints == Conns \cup {Cloud}         \* where requests are delivered
Callers == Addr \cup {Cloud, Mqtt}
AnyMethod == Methods \cup Local
Copies == 1..MaxKey

ASSUME RouterAssumption ==
    /\ Cloud \notin Conns /\ Mqtt \notin Conns /\ Cloud # Mqtt
    /\ Cloud \notin Addr /\ Mqtt \notin Addr /\ None \notin Callers
    /\ None \notin AnyMethod /\ Ids \subseteq Nat
    /\ Masks \subseteq SUBSET Addr /\ MqttMasks \subseteq SUBSET Addr
    /\ MaxCall \in Nat /\ MaxMark \in Nat /\ MaxKey \in Nat \ {0}

(***************************************************************************)
(* A message: a request, or the reply to one; uid tells which call it      *)
(* belongs to and is not part of the wire format.  hasTo and to are the    *)
(* key _to (present, and the mask; to = {} is the value 0), from is _from. *)
(***************************************************************************)
Message == [kind : {"req", "res"}, uid : 1..MaxCall, id : Ids \cup 1..MaxMark,
            hasTo : BOOLEAN, to : SUBSET Addr, from : Callers \cup {None},
            method : AnyMethod \cup {None}]

\* A matched response on its way: miioResponse(to, req, res).
Matched == [to : Callers, req : Message, res : Message]

VARIABLES
    sock,       \* each connection: new or down, up, hung (the peer has left), closed
    addr,       \* from, the address bound by the connection
    conns,      \* address -> connection
    methods,    \* method -> addresses in the order registered
    pc, item,   \* each goroutine: the step it is at, and its message
    calls,      \* every request made: caller, original id, and its _to
    inbox,      \* requests delivered to an endpoint and not yet replied to
    answers,    \* responses delivered to callers
    published   \* what was published on miio/report and miio/report_ack

\* History, which only the properties read: how many responses each call has had,
\* and the calls whose own message was taken for a response to another.
VARIABLES delivered, mistaken

localVars == <<sock, addr, conns, methods>>
workVars == <<pc, item>>
historyVars == <<delivered, mistaken>>
wireVars == <<calls, inbox, answers, published, historyVars>>
vars == <<mangleVars, localVars, workVars, wireVars>>

Init ==
    /\ MangleInit
    /\ sock = [c \in Endpoints |-> "down"]
    /\ addr = [c \in Conns |-> None]
    /\ conns = [a \in {} |-> None]
    /\ methods = [k \in Methods |-> <<>>]
    /\ pc = [w \in Workers |-> "idle"]
    /\ item = [w \in Workers |-> None]
    /\ calls = <<>>
    /\ inbox = [e \in Endpoints |-> {}]
    /\ answers = {}
    /\ published = {}
    /\ delivered = [u \in 1..MaxCall |-> 0]
    /\ mistaken = {}

\* The address a goroutine passes as from.
From(w) == IF w \in Conns THEN addr[w] ELSE w

\* A goroutine that can read: its connection is there, and bound.  What a peer
\* wrote before it hung up can still be read.
Reads(w) ==
    /\ pc[w] = "idle"
    /\ w \in Endpoints => sock[w] \in {"up", "hung"}
    /\ From(w) # None

Enter(w, label, x) ==
    /\ pc' = [pc EXCEPT ![w] = label]
    /\ item' = [item EXCEPT ![w] = x]

Leave(w) == Enter(w, "idle", None)
-----------------------------------------------------------------------------
(***************************************************************************)
(* Connections.                                                            *)
(***************************************************************************)
Accept(c) ==
    /\ sock[c] = "down"
    /\ sock' = [sock EXCEPT ![c] = "up"]
    /\ UNCHANGED <<mangleVars, addr, conns, methods, workVars, wireVars>>

\* The first message that counts on a connection; others are ignored till then.
Bind(c, a) ==
    /\ sock[c] \in {"up", "hung"} /\ addr[c] = None
    /\ addr' = [addr EXCEPT ![c] = a]
    /\ conns' = [b \in DOMAIN conns \cup {a} |-> IF b = a THEN c ELSE conns[b]]
    /\ UNCHANGED <<mangleVars, sock, methods, workVars, wireVars>>

Register(c, k) ==
    /\ c \in Conns /\ Reads(c)
    /\ Len(methods[k]) < MaxKey
    /\ methods' = [methods EXCEPT ![k] = Append(@, addr[c])]
    /\ UNCHANGED <<mangleVars, sock, addr, conns, workVars, wireVars>>

\* The peer hangs up; the goroutine will notice at its next read.
Hangup(e) ==
    /\ "hangup" \in May /\ sock[e] = "up"
    /\ sock' = [sock EXCEPT ![e] = "hung"]
    /\ UNCHANGED <<mangleVars, addr, conns, methods, workVars, wireVars>>

\* Fault: the address is left in conns.
CloseKeeps(c) ==
    /\ sock[c] = "hung" /\ pc[c] = "idle"
    /\ sock' = [sock EXCEPT ![c] = "closed"]
    /\ UNCHANGED <<mangleVars, addr, conns, methods, workVars, wireVars>>

Close(c) ==
    /\ sock[c] = "hung" /\ pc[c] = "idle"
    /\ sock' = [sock EXCEPT ![c] = "closed"]
    /\ conns' = Restrict(conns, DOMAIN conns \ {addr[c]})
    /\ UNCHANGED <<mangleVars, addr, methods, workVars, wireVars>>

CloudDial ==
    /\ sock[Cloud] = "down"
    /\ sock' = [sock EXCEPT ![Cloud] = "up"]
    /\ UNCHANGED <<mangleVars, addr, conns, methods, workVars, wireVars>>

CloudLost ==
    /\ sock[Cloud] = "hung" /\ pc[Cloud] = "idle"
    /\ sock' = [sock EXCEPT ![Cloud] = "down"]
    /\ UNCHANGED <<mangleVars, addr, conns, methods, workVars, wireVars>>
-----------------------------------------------------------------------------
(***************************************************************************)
(* The first part of miioRequest: where a message that was just read goes. *)
(***************************************************************************)

\* Fault: _from is not set.
RouteAnonymous(w, m) ==
    /\ m.to # {}
    /\ IF m.to = {From(w)} THEN UNCHANGED workVars ELSE Enter(w, "patch", m)
    /\ UNCHANGED <<mangleVars, published, mistaken>>

\* _to names apps; a message an app sends to itself is dropped (basic_gw bug).
RouteToApps(w, m) ==
    /\ m.to # {}
    /\ IF m.to = {From(w)}
       THEN UNCHANGED workVars
       ELSE Enter(w, "patch", [m EXCEPT !.from = From(w)])
    /\ UNCHANGED <<mangleVars, published, mistaken>>

\* The id of m is the one its caller chose: m is a request, or the reply to one
\* that went by _to.  The id of any other reply was given out by the agent.
OwnId(m) == m.kind = "req" \/ m.hasTo

\* Fault: the responses of miio_client to local. requests are published too.
RouteResponseLoud(w, m) ==
    /\ m.to = {} /\ Marked(m)
    /\ LET mark == marks[m.id]
           acked == w = Cloud /\ mark.addr \in Addr
       IN  /\ Enter(w, "respond", [to |-> mark.addr, req |-> mark.msg, res |-> Restored(m)])
           /\ published' = published \cup
                (IF acked THEN {[topic |-> "report_ack", kind |-> m.kind, uid |-> m.uid]} ELSE {})
    /\ mistaken' = IF OwnId(m) THEN mistaken \cup {m.uid} ELSE mistaken
    /\ FindMessage(m)

\* The id is that of an outstanding mark: a response, whoever chose that id.
RouteResponse(w, m) ==
    /\ m.to = {} /\ Marked(m)
    /\ LET mark == marks[m.id]
           acked == w = Cloud /\ mark.addr \in Addr /\ mark.msg.method \notin Local
       IN  /\ Enter(w, "respond", [to |-> mark.addr, req |-> mark.msg, res |-> Restored(m)])
           /\ published' = published \cup
                (IF acked THEN {[topic |-> "report_ack", kind |-> m.kind, uid |-> m.uid]} ELSE {})
    /\ mistaken' = IF OwnId(m) THEN mistaken \cup {m.uid} ELSE mistaken
    /\ FindMessage(m)

\* Anything else is taken for a request.
RouteRequest(w, m) ==
    /\ m.to = {} /\ ~Marked(m)
    /\ Enter(w, "patch", m)
    /\ published' = published \cup
         (IF w \in Conns /\ m.method \notin Local
          THEN {[topic |-> "report", kind |-> m.kind, uid |-> m.uid]} ELSE {})
    /\ UNCHANGED <<mangleVars, mistaken>>

Route(w, m) == RouteToApps(w, m) \/ RouteResponse(w, m) \/ RouteRequest(w, m)

\* Somebody makes a request.
Request(w) ==
    /\ Reads(w) /\ Len(calls) < MaxCall
    /\ \E id \in Ids, k \in AnyMethod,
          to \in {None} \cup (IF w \in Conns THEN Masks ELSE IF w = Mqtt THEN MqttMasks ELSE {}) :
          LET mask == IF to = None THEN {} ELSE to
          IN  /\ calls' = Append(calls, [by |-> From(w), id |-> id, to |-> mask])
              /\ Route(w, [kind |-> "req", uid |-> Len(calls) + 1, id |-> id,
                           hasTo |-> to # None, to |-> mask, from |-> None, method |-> k])
    /\ UNCHANGED <<localVars, inbox, answers, delivered>>

\* The reply an app or the cloud makes to a request: same id, _to from _from.
ReplyTo(m) ==
    [m EXCEPT !.kind = "res", !.hasTo = m.from # None, !.to = {m.from} \cap Addr,
              !.from = None, !.method = None]

Reply(w) ==
    /\ w \in Endpoints /\ Reads(w)
    /\ \E x \in inbox[w] :
          /\ inbox' = [inbox EXCEPT ![w] = @ \ {x}]
          /\ Route(w, ReplyTo(x.msg))
    /\ UNCHANGED <<localVars, calls, answers, delivered>>
-----------------------------------------------------------------------------
(***************************************************************************)
(* Writing.  A write to a connection whose peer has left is lost.          *)
(***************************************************************************)
Live(a) == a \in DOMAIN conns /\ sock[conns[a]] = "up"

Unanswered == UNCHANGED <<answers, delivered>>

\* miio.Send for a response by goroutine w: to the cloud, to MQTT or to one app.
Answered(w, to, m) ==
    IF (to = Cloud /\ sock[Cloud] = "up") \/ to = Mqtt \/ Live(to)
    THEN /\ answers' = answers \cup {[uid |-> m.uid, to |-> to, id |-> m.id, by |-> w]}
         /\ delivered' = [delivered EXCEPT ![m.uid] = @ + 1]
    ELSE Unanswered

\* The places of the list of method k at which address a stands.
Places(k, a) == {i \in Copies : i \in DOMAIN methods[k] /\ methods[k][i] = a}

\* Where the switch at the end of miioRequest writes a message: a set of
\* endpoints with the copy each one gets.
Targets(w, m) ==
    IF m.to # {} THEN {[at |-> conns[a], copy |-> 1] : a \in {b \in m.to : Live(b)}}
    ELSE IF w \in Conns \/ m.hasTo THEN {[at |-> Cloud, copy |-> 1] : c \in {d \in {Cloud} : sock[d] = "up"}}
    ELSE IF m.method \in Methods
         THEN UNION {{[at |-> conns[a], copy |-> i] : i \in Places(m.method, a)} :
                       a \in {b \in Addr : Live(b)}}
         ELSE {}

\* Fault: only what apps send is marked.
ForwardUnmarked(w, m) ==
    IF m.to = {} /\ w \in Conns
    THEN /\ markID < MaxMark
         /\ Enter(w, "send", Swapped(m))
         /\ MarkMessage(m, From(w))
    ELSE /\ Enter(w, "send", m)
         /\ UNCHANGED mangleVars

\* Fault: the mark remembers to (0, the cloud) in place of from.
ForwardForgets(w, m) ==
    IF m.to = {}
    THEN /\ markID < MaxMark
         /\ Enter(w, "send", Swapped(m))
         /\ MarkMessage(m, Cloud)
    ELSE /\ Enter(w, "send", m)
         /\ UNCHANGED mangleVars

(***************************************************************************)
(* The rest of miioRequest.  The Lua script may prevent a request, rewrite *)
(* it, or answer it itself (miio_send) and prevent it; then a message that *)
(* is not for apps is marked.                                              *)
(***************************************************************************)
Forward(w, m) ==
    IF m.to = {}
    THEN /\ markID < MaxMark
         /\ Enter(w, "send", Swapped(m))
         /\ MarkMessage(m, From(w))
    ELSE /\ Enter(w, "send", m)
         /\ UNCHANGED mangleVars

Patch(w) ==
    /\ pc[w] = "patch"
    /\ \/ /\ Forward(w, item[w])
          /\ Unanswered
       \/ /\ "rewrite" \in May
          /\ \E k \in AnyMethod : Forward(w, [item[w] EXCEPT !.method = k])
          /\ Unanswered
       \/ /\ "prevent" \in May
          /\ Leave(w)
          /\ Unanswered
          /\ UNCHANGED mangleVars
       \/ /\ "answer" \in May /\ item[w].kind = "req"
          /\ Answered(w, From(w), item[w])
          /\ Leave(w)
          /\ UNCHANGED mangleVars
    /\ UNCHANGED <<localVars, calls, inbox, published, mistaken>>

\* The message on the wire has no _to any more.  A reply to a request that went by
\* _to reaches its caller here: its own _to names nobody else.
Send(w) ==
    /\ pc[w] = "send"
    /\ Leave(w)
    /\ LET m == item[w]
           sent == [m EXCEPT !.hasTo = FALSE, !.to = {}]
           targets == Targets(w, m)
       IN IF m.kind = "req"
          THEN /\ inbox' = [e \in Endpoints |-> inbox[e] \cup
                              {[msg |-> sent, copy |-> t.copy] : t \in {u \in targets : u.at = e}}]
               /\ Unanswered
          ELSE /\ answers' = answers \cup
                     {[uid |-> m.uid, to |-> addr[t.at], id |-> m.id, by |-> w] :
                        t \in {u \in targets : m.to # {}}}
               /\ delivered' = IF m.to # {} /\ targets # {}
                               THEN [delivered EXCEPT ![m.uid] = @ + 1] ELSE delivered
               /\ UNCHANGED inbox
    /\ UNCHANGED <<mangleVars, localVars, calls, published, mistaken>>

\* miioResponse.  A script that builds its response from req.id, as the README
\* shows, finds there the swapped id.
Respond(w) ==
    /\ pc[w] = "respond"
    /\ Leave(w)
    /\ LET x == item[w]
       IN \/ Answered(w, x.to, x.res)
          \/ "replace" \in May /\ Answered(w, x.to, [x.res EXCEPT !.id = x.req.id])
          \/ "prevent" \in May /\ Unanswered
    /\ UNCHANGED <<mangleVars, localVars, calls, inbox, published, mistaken>>

MarksWorker ==
    /\ "sweep" \in May
    /\ Sweep
    /\ UNCHANGED <<localVars, workVars, wireVars>>
-----------------------------------------------------------------------------
Worker(w) == Request(w) \/ Reply(w) \/ Patch(w) \/ Send(w) \/ Respond(w)

LocalConn(c) ==
    \/ Accept(c) \/ Close(c)
    \/ \E a \in Addr : Bind(c, a)
    \/ \E k \in Methods : Register(c, k)

Next ==
    \/ \E w \in Workers : Worker(w)
    \/ \E c \in Conns : LocalConn(c)
    \/ \E e \in Endpoints : Hangup(e)
    \/ CloudDial \/ CloudLost
    \/ MarksWorker

Spec == Init /\ [][Next]_vars

\* Goroutines are scheduled, and an endpoint that has a request replies to it.
Fairness == \A w \in Workers : WF_vars(Reply(w)) /\ WF_vars(Patch(w)) /\ WF_vars(Send(w)) /\ WF_vars(Respond(w))

FairSpec == Spec /\ Fairness
-----------------------------------------------------------------------------
LocalType ==
    /\ sock \in [Endpoints -> {"down", "up", "hung", "closed"}]
    /\ addr \in [Conns -> Addr \cup {None}]
    /\ DOMAIN conns \subseteq Addr /\ conns \in [DOMAIN conns -> Conns]
    /\ methods \in [Methods -> Seq(Addr)]

\* A goroutine at work holds a message and serves a bound connection.
WorkType ==
    /\ pc \in [Workers -> {"idle", "patch", "send", "respond"}]
    /\ DOMAIN item = Workers
    /\ \A w \in Workers :
          /\ pc[w] \in {"patch", "send"} => item[w] \in Message
          /\ pc[w] = "respond" => item[w] \in Matched
          /\ pc[w] # "idle" => From(w) # None

WireType ==
    /\ calls \in Seq([by : Callers, id : Ids, to : SUBSET Addr]) /\ Len(calls) <= MaxCall
    /\ inbox \in [Endpoints -> SUBSET [msg : Message, copy : Copies]]
    /\ answers \subseteq [uid : 1..MaxCall, to : Callers, id : Ids \cup 1..MaxMark, by : Workers]
    /\ published \subseteq [topic : {"report", "report_ack"}, kind : {"req", "res"}, uid : 1..MaxCall]
    /\ delivered \in [1..MaxCall -> Nat] /\ mistaken \subseteq 1..MaxCall

TableType ==
    /\ markID \in 0..MaxMark /\ stackTop \in 0..markID
    /\ DOMAIN marks \subseteq 1..markID
    /\ marks \in [DOMAIN marks -> [msg : Message, addr : Callers, id : Ids \cup 1..MaxMark]]

TypeOK == LocalType /\ WorkType /\ WireType /\ TableType

\* The connections registered under an address belong to a goroutine that still
\* serves that address: whatever the order of rebinding and late closes, nothing
\* is ever written to a connection that was given up (local.go:57-59, 82-84).
ConnsServed ==
    \A a \in DOMAIN conns : addr[conns[a]] = a /\ sock[conns[a]] \in {"up", "hung"}

\* Every response is given to the one whose request it belongs to, through any
\* interleaving of goroutines, hang-ups, rebinding, sweeps and late or repeated
\* replies (miio.go:105-114, 141-144).  The one exception is a message under the
\* id its caller chose, that was taken for a response because a mark with this
\* id was outstanding.
AnswersGoHome ==
    \A r \in answers :
       r.uid \in DOMAIN calls /\ (r.uid \notin mistaken => r.to = calls[r.uid].by)

\* And it carries the id the caller chose for that request (mangle.go:10, 27).
TrueIds ==
    \A r \in answers :
       r.uid \in DOMAIN calls /\ r.uid \notin mistaken => r.id = calls[r.uid].id

\* A call that names no apps is answered at most once, however many apps were
\* given it, on however many lists an app stands, and whichever ids the callers
\* chose: the mark is consumed (mangle.go:26).
AnsweredOnce ==
    \A u \in DOMAIN calls : calls[u].to = {} => delivered[u] <= 1

\* Two different calls that wait at one endpoint through the marks table never
\* carry the same id, though their callers may have chosen the same one: that
\* is what the swap is for (miio.go:142).
PendingIdsDiffer ==
    \A e \in Endpoints : \A x, y \in inbox[e] :
       x.msg.from = None /\ y.msg.from = None /\ x.msg.id = y.msg.id => x.msg.uid = y.msg.uid

\* Whatever MQTT sees acknowledged on miio/report_ack it has seen reported on
\* miio/report before (miio.go:109-111, 121-123), but for what was mistaken.
AckReported ==
    \A p \in published : p.topic = "report_ack" /\ p.uid \notin mistaken =>
       [topic |-> "report", kind |-> "req", uid |-> p.uid] \in published

\* With no exception: a caller may choose any id ("You can add optional `id` key",
\* README.md:69).
AllAnswersGoHome ==
    \A r \in answers : r.uid \in DOMAIN calls /\ r.to = calls[r.uid].by

\* No reply ends up on miio/report, which is for "updates from gateway to
\* cloud" (README.md:185).
NoStrayReport == \A p \in published : p.topic = "report" => p.kind = "req"

\* An app that bound an address and is still connected can be reached under it.
BoundReachable ==
    \A c \in Conns : sock[c] = "up" /\ addr[c] # None => addr[c] \in DOMAIN conns

\* A call that was delivered to somebody else than its caller is answered:
\* when nobody hangs up and no sweep interferes, no interleaving of the
\* goroutines loses a reply (README.md:184, miio/README.md:17-31), as long as no
\* caller's id is that of an outstanding mark.
DeliveredAnswered ==
    \A u \in 1..MaxCall :
       (\E e \in Endpoints : \E x \in inbox[e] : x.msg.uid = u /\ From(e) # calls[u].by)
          ~> (\E r \in answers : r.uid = u)
=============================================================================
