------------------------------ MODULE Central ------------------------------
(***************************************************************************)
(* internal/central: the agent puts itself between the gateway's apps and  *)
(* the firmware's central service.  It moves the service's socket file to  *)
(* another name and listens under the original one; the files outlive the  *)
(* agent, which is killed and started again, and the service may restart   *)
(* too.  Each accepted connection is joined to one of its own to the       *)
(* service by two goroutines, proxy; the one for requests also publishes   *)
(* what passes.                                                            *)
(***************************************************************************)
EXTENDS Naturals, Sequences

CONSTANTS
    Conns,      \* connections of the apps
    MaxAsk,     \* bound on the requests sent on each
    Quiet,      \* those that are local.get_gateway_role queries
    QueueLen,   \* capacity of the MQTT client's channel out
    CrashAt,    \* steps of the agent at which it may be killed
    RestartAt   \* steps of the agent at which the service may end or start

ASSUME CentralAssumption == MaxAsk \in Nat /\ QueueLen \in Nat \ {0} /\ Quiet \subseteq 1..MaxAsk

VARIABLES
    pc,         \* the agent: down, or where it is in Init
    service,    \* the central service runs
    node,       \* the two socket files: absent, dead, or who listens there
    open,       \* each connection: the sockets of its pair that the agent has open
    gone,       \* and the peers that have left it, while the agent runs
    asked,      \* requests the app has sent on it
    up,         \* the goroutine for requests: where it is, and the request in its buffer
    down,       \* the goroutine for responses: none, read, write, done
    online,     \* MQTT is online; it does not change here
    out,        \* requests handed to mqtt.Publish and not yet encoded
    heard       \* what was encoded: the request meant, the bytes found

pairVars == <<open, gone, asked, up, down>>
queueVars == <<online, out, heard>>
vars == <<pc, service, node, pairVars, queueVars>>

Init ==
    /\ pc = "stat"
    /\ service = TRUE
    /\ node = [Original |-> "service", Proxy |-> "absent"]
    /\ open = [k \in Conns |-> {}]
    /\ gone = [k \in Conns |-> {}]
    /\ asked = [k \in Conns |-> 0]
    /\ up = [k \in Conns |-> [at |-> "none", buf |-> 0]]
    /\ down = [k \in Conns |-> "none"]
    /\ online \in BOOLEAN /\ out = <<>> /\ heard = {}

socketActive(name) == node[name] \in {"service", "agent"}

\* Those whose listener or peer ends leave their files behind.
Orphaned(who) == [f \in DOMAIN node |-> IF node[f] = who THEN "dead" ELSE node[f]]
-----------------------------------------------------------------------------
(***************************************************************************)
(* Init.                                                                   *)
(***************************************************************************)
Goto(from, to) == pc = from /\ pc' = to

Stat ==
    /\ IF node.Original = "absent" THEN Goto("stat", "unsupported") ELSE Goto("stat", "probe")
    /\ UNCHANGED <<service, node, pairVars, queueVars>>

\* Fault: an original socket that is there is taken for an active one.
ProbeExists ==
    /\ Goto("probe", "rename")
    /\ UNCHANGED <<service, node, pairVars, queueVars>>

ProbeOriginal ==
    /\ IF socketActive("Original") THEN Goto("probe", "rename") ELSE Goto("probe", "probe proxy")
    /\ UNCHANGED <<service, node, pairVars, queueVars>>

Rename ==
    /\ Goto("rename", "listen")
    /\ node' = [Original |-> "absent", Proxy |-> node.Original]
    /\ UNCHANGED <<service, pairVars, queueVars>>

\* Fault: the proxy socket of an earlier run is not looked for.
ProbeProxyForgotten ==
    /\ Goto("probe proxy", "no socket")
    /\ UNCHANGED <<service, node, pairVars, queueVars>>

ProbeProxy ==
    /\ IF socketActive("Proxy") THEN Goto("probe proxy", "remove") ELSE Goto("probe proxy", "no socket")
    /\ UNCHANGED <<service, node, pairVars, queueVars>>

Remove ==
    /\ Goto("remove", "listen")
    /\ node' = [node EXCEPT !.Original = "absent"]
    /\ UNCHANGED <<service, pairVars, queueVars>>

\* Binding a name that exists fails, which is fatal.
Listen ==
    /\ IF node.Original = "absent"
       THEN Goto("listen", "accept") /\ node' = [node EXCEPT !.Original = "agent"]
       ELSE Goto("listen", "down") /\ UNCHANGED node
    /\ UNCHANGED <<service, pairVars, queueVars>>

\* The agent ends: the kernel closes its sockets.
Ends ==
    /\ pc' = "down"
    /\ node' = Orphaned("agent")
    /\ open' = [k \in Conns |-> {}] /\ gone' = [k \in Conns |-> {}]
    /\ up' = [k \in Conns |-> IF up[k].at = "none" THEN up[k] ELSE [at |-> "done", buf |-> 0]]
    /\ down' = [k \in Conns |-> IF down[k] = "none" THEN "none" ELSE "done"]
    /\ out' = <<>>
    /\ UNCHANGED <<service, asked, online, heard>>

\* An app connects; no connection to the service is fatal.
Accept(k) ==
    /\ pc = "accept" /\ node.Original = "agent" /\ up[k].at = "none"
    /\ IF socketActive("Proxy")
       THEN /\ open' = [open EXCEPT ![k] = {"app", "service"}]
            /\ up' = [up EXCEPT ![k].at = "read"]
            /\ down' = [down EXCEPT ![k] = "read"]
            /\ UNCHANGED <<pc, service, node, gone, asked, queueVars>>
       ELSE Ends

Crash == pc \in CrashAt /\ Ends

Restart ==
    /\ Goto("down", "stat")
    /\ UNCHANGED <<service, node, pairVars, queueVars>>
-----------------------------------------------------------------------------
(***************************************************************************)
(* proxy, for requests (up) and for responses (down).                      *)
(***************************************************************************)
Cut(k, end) == end \notin open[k] \/ end \in gone[k]

\* Fault: a goroutine closes only the connection it reads.
CloseOwn(k, end) == open' = [open EXCEPT ![k] = @ \ {end}]

\* A goroutine that leaves its loop closes both connections.
ClosePair(k, end) == open' = [open EXCEPT ![k] = {}]

\* Fault: the queries for the gateway role are published too.
UpReadLoud(k) ==
    /\ up[k].at = "read" /\ "app" \in open[k] /\ up[k].buf < asked[k]
    /\ up' = [up EXCEPT ![k] = [at |-> "publish", buf |-> @.buf + 1]]
    /\ UNCHANGED <<pc, service, node, open, gone, asked, down, queueVars>>

\* buf holds the number of the last request read.
UpRead(k) ==
    /\ up[k].at = "read"
    /\ IF "app" \in open[k] /\ up[k].buf < asked[k]
       THEN /\ up' = [up EXCEPT ![k] = [at |-> IF up[k].buf + 1 \in Quiet THEN "write" ELSE "publish",
                                        buf |-> up[k].buf + 1]]
            /\ UNCHANGED open
       ELSE /\ Cut(k, "app")
            /\ up' = [up EXCEPT ![k].at = "done"]
            /\ ClosePair(k, "app")
    /\ UNCHANGED <<pc, service, node, gone, asked, down, queueVars>>

\* A copy of the request is queued, which waits for room; without MQTT it is
\* dropped.
UpPublish(k) ==
    /\ up[k].at = "publish"
    /\ IF online
       THEN Len(out) < QueueLen /\ out' = Append(out, [conn |-> k, msg |-> up[k].buf])
       ELSE UNCHANGED out
    /\ up' = [up EXCEPT ![k].at = "write"]
    /\ UNCHANGED <<pc, service, node, open, gone, asked, down, online, heard>>

\* A write waits for room in the peer's socket, which a peer that does not read
\* may never make; to a peer that has left it may still seem to succeed.
UpWrite(k) ==
    /\ up[k].at = "write" /\ "service" \in open[k]
    /\ up' = [up EXCEPT ![k].at = "read"]
    /\ UNCHANGED <<pc, service, node, open, gone, asked, down, queueVars>>

UpWriteFails(k) ==
    /\ up[k].at = "write" /\ Cut(k, "service")
    /\ up' = [up EXCEPT ![k].at = "done"]
    /\ ClosePair(k, "app")
    /\ UNCHANGED <<pc, service, node, gone, asked, down, queueVars>>

\* Responses pass unchanged, and nobody counts them.
DownMoves(k, from, to) ==
    /\ down[k] = from /\ down' = [down EXCEPT ![k] = to]
    /\ UNCHANGED <<pc, service, node, gone, asked, up, queueVars>>

DownRead(k) == "service" \in open[k] /\ DownMoves(k, "read", "write") /\ UNCHANGED open
DownWrite(k) == "app" \in open[k] /\ DownMoves(k, "write", "read") /\ UNCHANGED open
DownReadFails(k) == Cut(k, "service") /\ DownMoves(k, "read", "done") /\ ClosePair(k, "service")
DownWriteFails(k) == Cut(k, "app") /\ DownMoves(k, "write", "done") /\ ClosePair(k, "service")

\* Fault: the buffer itself is published, not a copy.
EncodeBuffer ==
    /\ out # <<>>
    /\ LET m == Head(out)
       IN heard' = heard \cup {[conn |-> m.conn, msg |-> m.msg, got |-> up[m.conn].buf]}
    /\ out' = Tail(out)
    /\ UNCHANGED <<pc, service, node, pairVars, online>>

\* The MQTT writer encodes the copy made for it (init.go:95-98).
Encode ==
    /\ out # <<>>
    /\ LET m == Head(out)
       IN heard' = heard \cup {[conn |-> m.conn, msg |-> m.msg, got |-> m.msg]}
    /\ out' = Tail(out)
    /\ UNCHANGED <<pc, service, node, pairVars, online>>
-----------------------------------------------------------------------------
Ask(k) ==
    /\ open[k] # {} /\ "app" \notin gone[k] /\ asked[k] < MaxAsk
    /\ asked' = [asked EXCEPT ![k] = @ + 1]
    /\ UNCHANGED <<pc, service, node, open, gone, up, down, queueVars>>

Leaves(k) ==
    /\ open[k] # {} /\ "app" \notin gone[k]
    /\ gone' = [gone EXCEPT ![k] = @ \cup {"app"}]
    /\ UNCHANGED <<pc, service, node, open, asked, up, down, queueVars>>

ServiceEnds ==
    /\ service /\ pc \in RestartAt
    /\ service' = FALSE
    /\ node' = Orphaned("service")
    /\ gone' = [k \in Conns |-> IF open[k] = {} THEN gone[k] ELSE gone[k] \cup {"service"}]
    /\ UNCHANGED <<pc, open, asked, up, down, queueVars>>

\* A new service binds the original name, whatever is there.
ServiceStarts ==
    /\ ~service /\ pc \in RestartAt
    /\ service' = TRUE
    /\ node' = [node EXCEPT !.Original = "service"]
    /\ UNCHANGED <<pc, pairVars, queueVars>>

InitSteps == Stat \/ ProbeOriginal \/ Rename \/ ProbeProxy \/ Remove \/ Listen

proxy(k) ==
    \/ UpRead(k) \/ UpPublish(k) \/ UpWrite(k) \/ UpWriteFails(k)
    \/ DownRead(k) \/ DownWrite(k) \/ DownReadFails(k) \/ DownWriteFails(k)

Next ==
    \/ InitSteps
    \/ \E k \in Conns : Accept(k) \/ proxy(k) \/ Ask(k) \/ Leaves(k)
    \/ Encode
    \/ Crash \/ Restart
    \/ ServiceEnds \/ ServiceStarts

Spec == Init /\ [][Next]_vars

\* The goroutines run, those that wait on the channel in their order; a peer
\* that has left had sent no more than its socket holds.
Goroutines ==
    /\ \A k \in Conns :
          /\ WF_vars(UpRead(k) \/ UpWriteFails(k)) /\ SF_vars(UpPublish(k))
          /\ SF_vars(DownReadFails(k) \/ DownWriteFails(k))
    /\ WF_vars(Encode)

\* An assumption about the apps and the service, not about this code: they read
\* what is sent to them.
PeersRead == \A k \in Conns : WF_vars(UpWrite(k)) /\ WF_vars(DownWrite(k))

RunningSpec == Spec /\ Goroutines
FairSpec == RunningSpec /\ PeersRead
-----------------------------------------------------------------------------
TypeOK ==
    /\ pc \in {"stat", "unsupported", "probe", "rename", "probe proxy", "no socket", "remove",
               "listen", "accept", "down"}
    /\ service \in BOOLEAN
    /\ node \in [{"Original", "Proxy"} -> {"absent", "dead", "service", "agent"}]
    /\ open \in [Conns -> SUBSET {"app", "service"}] /\ gone \in [Conns -> SUBSET {"app", "service"}]
    /\ asked \in [Conns -> 0..MaxAsk]
    /\ up \in [Conns -> [at : {"none", "read", "publish", "write", "done"}, buf : 0..MaxAsk]]
    /\ down \in [Conns -> {"none", "read", "write", "done"}]
    /\ online \in BOOLEAN /\ out \in Seq([conn : Conns, msg : 1..MaxAsk \ Quiet]) /\ Len(out) <= QueueLen
    /\ heard \subseteq [conn : Conns, msg : 1..MaxAsk, got : 0..MaxAsk]

\* Whoever can reach the agent reaches the service: the agent never sits before
\* a dead socket or before itself (init.go:29-44), through kills at any step and
\* restarts of the service at any step but "remove": a service that binds the
\* original name between the last probe and os.Remove (40) loses it.
ProxyLeads ==
    pc = "accept" /\ node.Original = "agent" /\ service => node.Proxy = "service"

\* The agent leaves central alone only where no service listens: "check if
\* firmware works with central socket" (init.go:24), "can't open socket" (42);
\* unless it was killed at "listen", or the service restarted between the probes.
GivesUpRightly ==
    [][pc' \in {"unsupported", "no socket"} /\ pc' # pc =>
         "service" \notin {node.Original, node.Proxy}]_vars

\* What is published of a connection are requests that its app has made, each as
\* it was made and not as the buffer reads by now, each once and in their order,
\* and none of the queries for the role (init.go:83-99).
PublishedIntact ==
    /\ \A h \in heard : h.got = h.msg /\ h.msg \in 1..asked[h.conn] \ Quiet
    /\ \A i \in DOMAIN out :
          /\ \A j \in DOMAIN out : i < j /\ out[i].conn = out[j].conn => out[i].msg < out[j].msg
          /\ \A h \in heard : h.conn = out[i].conn => h.msg < out[i].msg

\* When either peer has left, the other soon sees its connection closed, as
\* long as both read while they are there (init.go:104-114).  Under RunningSpec a
\* goroutine may stay in its write to a peer that does not read, and the one that
\* reads that peer in its read: nobody is left to notice.
PairEnds == \A k \in Conns : (gone[k] # {} /\ open[k] # {}) ~> open[k] = {}
=============================================================================
