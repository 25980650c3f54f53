--------------------------- MODULE CentralProofs ----------------------------
(***************************************************************************)
(* Theorems about module Central, for any connections, requests and queue, *)
(* and for kills and restarts of the service at any step but those that    *)
(* the theorems name: the types of its state, that the proxy leads to the  *)
(* service, that the agent gives up only where there is none, and that     *)
(* what is published is what was asked.                                    *)
(***************************************************************************)
EXTENDS Central, TLAPS

\* What is published, is queued by a goroutine that has just read it
\* (init.go:83-99).
ReadsFirst == \A k \in Conns : up[k].at = "publish" => up[k].buf \in 1..MaxAsk \ Quiet

\* Where the service is to be found while the agent takes its place
\* (init.go:29-48): a running service has a socket, the agent's is the original one
\* and goes with it; what is renamed is the service's, and what is removed is not
\* its only one.
Sockets ==
    /\ \A f \in {"Original", "Proxy"} : node[f] = "service" => service
    /\ service => node.Original = "service" \/ node.Proxy = "service"
    /\ node.Proxy # "agent"
    /\ node.Original = "agent" => pc = "accept"
    /\ pc = "rename" /\ service => node.Original = "service"
    /\ pc = "remove" /\ service => node.Proxy = "service"

\* What the agent leaves to its next start (init.go:24-44): no service under the
\* proxy's name alone.
LeftBehind ==
    /\ pc \in {"probe", "rename", "probe proxy", "remove", "accept", "no socket"} =>
          node.Original # "absent"
    /\ pc \in {"stat", "unsupported", "down"} =>
          (node.Original = "absent" => node.Proxy # "service")
    /\ pc = "probe proxy" => node.Original # "service"
-----------------------------------------------------------------------------
(***************************************************************************)
(* Types, one variable or a few at a time.                                 *)
(***************************************************************************)
Ups == [at : {"none", "read", "publish", "write", "done"}, buf : 0..MaxAsk]
Requests == [conn : Conns, msg : 1..MaxAsk \ Quiet]
Encoded == [conn : Conns, msg : 1..MaxAsk, got : 0..MaxAsk]

NodeType == node \in [{"Original", "Proxy"} -> {"absent", "dead", "service", "agent"}]
UpType == up \in [Conns -> Ups] /\ ReadsFirst
OutType == out \in Seq(Requests) /\ Len(out) <= QueueLen
HeardType == heard \subseteq Encoded
AskedType == asked \in [Conns -> 0..MaxAsk]
OtherTypes ==
    /\ pc \in {"stat", "unsupported", "probe", "rename", "probe proxy", "no socket", "remove",
               "listen", "accept", "down"}
    /\ service \in BOOLEAN /\ online \in BOOLEAN
    /\ open \in [Conns -> SUBSET {"app", "service"}] /\ gone \in [Conns -> SUBSET {"app", "service"}]
    /\ down \in [Conns -> {"none", "read", "write", "done"}]

TypeInv == NodeType /\ UpType /\ OutType /\ HeardType /\ AskedType /\ OtherTypes

LEMMA TypeInvType == TypeInv => TypeOK
  BY DEF TypeInv, NodeType, UpType, OutType, HeardType, AskedType, OtherTypes, TypeOK, Ups, Requests, Encoded

LEMMA Constants == MaxAsk \in Nat /\ QueueLen \in Nat \ {0} /\ Quiet \subseteq 1..MaxAsk
  BY CentralAssumption

LEMMA TypeInit == Init => TypeInv
  <1> SUFFICES ASSUME Init PROVE TypeInv
    OBVIOUS
  <1>1. NodeType
    BY DEF Init, NodeType
  <1>2. UpType
    <2>1. [at |-> "none", buf |-> 0] \in Ups
      BY Constants DEF Ups
    <2> QED
      BY <2>1 DEF Init, UpType, ReadsFirst
  <1>3. OutType
    <2>1. <<>> \in Seq(Requests) /\ Len(<<>>) = 0
      OBVIOUS
    <2> QED
      BY <2>1, Constants DEF Init, OutType
  <1>4. HeardType /\ AskedType
    BY Constants DEF Init, HeardType, AskedType
  <1>5. OtherTypes
    BY DEF Init, OtherTypes
  <1> QED
    BY <1>1, <1>2, <1>3, <1>4, <1>5 DEF TypeInv

\* A step of one goroutine for requests.
LEMMA UpMoves ==
    ASSUME UpType, NEW k \in Conns, NEW u \in Ups,
           u.at = "publish" => u.buf \in 1..MaxAsk \ Quiet,
           up' = [up EXCEPT ![k] = u]
    PROVE  UpType'
  BY DEF UpType, ReadsFirst

LEMMA EndsType ==
    ASSUME TypeInv, Ends
    PROVE  TypeInv'
  <1> USE DEF TypeInv
  <1>1. NodeType'
    BY DEF Ends, Orphaned, NodeType
  <1>2. UpType'
    <2>1. [at |-> "done", buf |-> 0] \in Ups
      BY Constants DEF Ups
    <2>2. up' = [k \in Conns |-> IF up[k].at = "none" THEN up[k] ELSE [at |-> "done", buf |-> 0]]
      BY DEF Ends
    <2> QED
      BY <2>1, <2>2 DEF UpType, ReadsFirst
  <1>3. OutType'
    <2>1. <<>> \in Seq(Requests) /\ Len(<<>>) = 0 /\ out' = <<>>
      BY DEF Ends
    <2> QED
      BY <2>1, Constants DEF OutType
  <1>4. HeardType' /\ AskedType'
    BY DEF Ends, HeardType, AskedType
  <1>5. OtherTypes'
    <2>1. /\ down' \in [Conns -> {"none", "read", "write", "done"}]
          /\ open' \in [Conns -> SUBSET {"app", "service"}] /\ gone' \in [Conns -> SUBSET {"app", "service"}]
      BY DEF Ends, OtherTypes
    <2> QED
      BY <2>1 DEF Ends, OtherTypes
  <1> QED
    BY <1>1, <1>2, <1>3, <1>4, <1>5

\* The steps of a goroutine for responses.
DownStep(k) == DownRead(k) \/ DownWrite(k) \/ DownReadFails(k) \/ DownWriteFails(k)

LEMMA TypeNext == TypeInv /\ [Next]_vars => TypeInv'
  <1> SUFFICES ASSUME TypeInv, [Next]_vars PROVE TypeInv'
    OBVIOUS
  <1> USE DEF TypeInv, pairVars, queueVars
  <1>k. UNCHANGED node => NodeType'
    BY DEF NodeType
  <1>u. UNCHANGED up => UpType'
    BY DEF UpType, ReadsFirst
  <1>q. UNCHANGED out => OutType'
    BY DEF OutType
  <1>h. UNCHANGED heard => HeardType'
    BY DEF HeardType
  <1>a. UNCHANGED asked => AskedType'
    BY DEF AskedType
  <1>o. \A k \in Conns : up[k] \in Ups
    BY DEF UpType
  <1>2. ASSUME InitSteps PROVE TypeInv'
    <2>1. NodeType'
      <3>1. CASE Stat \/ ProbeOriginal \/ ProbeProxy
        BY <1>k, <3>1 DEF Stat, ProbeOriginal, ProbeProxy
      <3>2. CASE Rename
        BY <3>2 DEF Rename, NodeType
      <3>3. CASE Remove
        BY <3>3 DEF Remove, NodeType
      <3>4. CASE Listen
        BY <1>k, <3>4 DEF Listen, NodeType
      <3> QED
        BY <1>2, <3>1, <3>2, <3>3, <3>4 DEF InitSteps
    <2>2. pc' \in {"unsupported", "probe", "rename", "probe proxy", "no socket", "remove",
                   "listen", "accept", "down"}
      BY <1>2 DEF InitSteps, Stat, ProbeOriginal, Rename, ProbeProxy, Remove, Listen, Goto
    <2>3. UNCHANGED <<service, pairVars, queueVars>>
      BY <1>2 DEF InitSteps, Stat, ProbeOriginal, Rename, ProbeProxy, Remove, Listen
    <2>4. OtherTypes'
      BY <2>2, <2>3 DEF OtherTypes
    <2> QED
      BY <1>u, <1>q, <1>h, <1>a, <2>1, <2>3, <2>4
  <1>3. ASSUME NEW k \in Conns, Accept(k) PROVE TypeInv'
    <2>1. CASE Ends
      BY <2>1, EndsType
    <2>2. CASE socketActive("Proxy")
      <3>1. [up[k] EXCEPT !.at = "read"] \in Ups /\ up' = [up EXCEPT ![k] = [up[k] EXCEPT !.at = "read"]]
        BY <1>3, <1>o, <2>2 DEF Accept, Ups
      <3>2. UpType'
        BY <1>o, <3>1, UpMoves DEF Ups
      <3>3. OtherTypes'
        BY <1>3, <2>2 DEF Accept, OtherTypes
      <3> QED
        BY <1>3, <1>k, <1>q, <1>h, <1>a, <2>2, <3>2, <3>3 DEF Accept
    <2> QED
      BY <1>3, <2>1, <2>2 DEF Accept
  <1>4. ASSUME NEW k \in Conns, UpRead(k) PROVE TypeInv'
    <2>1. UpType'
      <3>1. CASE "app" \in open[k] /\ up[k].buf < asked[k]
        <4>1. asked[k] \in 0..MaxAsk /\ up[k].buf \in 0..MaxAsk
          BY <1>o DEF AskedType, Ups
        <4>2. up[k].buf + 1 \in 1..MaxAsk
          BY <3>1, <4>1, Constants
        <4> DEFINE u == [at |-> IF up[k].buf + 1 \in Quiet THEN "write" ELSE "publish", buf |-> up[k].buf + 1]
        <4>3. u \in Ups /\ (u.at = "publish" => u.buf \in 1..MaxAsk \ Quiet)
          BY <4>2 DEF Ups
        <4>4. up' = [up EXCEPT ![k] = u]
          BY <1>4, <3>1 DEF UpRead
        <4> QED
          BY <4>3, <4>4, UpMoves
      <3>2. CASE ~("app" \in open[k] /\ up[k].buf < asked[k])
        <4>1. [up[k] EXCEPT !.at = "done"] \in Ups /\ [up[k] EXCEPT !.at = "done"].at = "done"
          BY <1>o DEF Ups
        <4>2. up' = [up EXCEPT ![k] = [up[k] EXCEPT !.at = "done"]]
          BY <1>4, <3>2 DEF UpRead
        <4> QED
          BY <4>1, <4>2, UpMoves
      <3> QED
        BY <3>1, <3>2
    <2>2. OtherTypes'
      BY <1>4 DEF UpRead, ClosePair, OtherTypes
    <2> QED
      BY <1>4, <1>k, <1>q, <1>h, <1>a, <2>1, <2>2 DEF UpRead
  <1>5. ASSUME NEW k \in Conns, UpPublish(k) PROVE TypeInv'
    <2>1. UpType'
      <3>1. [up[k] EXCEPT !.at = "write"] \in Ups /\ [up[k] EXCEPT !.at = "write"].at = "write"
        BY <1>o DEF Ups
      <3>2. up' = [up EXCEPT ![k] = [up[k] EXCEPT !.at = "write"]]
        BY <1>5 DEF UpPublish
      <3> QED
        BY <3>1, <3>2, UpMoves
    <2>2. OutType'
      <3>1. [conn |-> k, msg |-> up[k].buf] \in Requests
        BY <1>5 DEF UpPublish, UpType, ReadsFirst, Requests
      <3>2. CASE online
        BY <1>5, <3>1, <3>2, Constants DEF UpPublish, OutType
      <3>3. CASE ~online
        BY <1>5, <1>q, <3>3 DEF UpPublish
      <3> QED
        BY <3>2, <3>3
    <2>3. OtherTypes'
      BY <1>5 DEF UpPublish, OtherTypes
    <2> QED
      BY <1>5, <1>k, <1>h, <1>a, <2>1, <2>2, <2>3 DEF UpPublish
  <1>6. ASSUME NEW k \in Conns, UpWrite(k) \/ UpWriteFails(k) PROVE TypeInv'
    <2>1. ASSUME NEW at \in {"read", "done"}, up' = [up EXCEPT ![k].at = at] PROVE UpType'
      <3>1. [up[k] EXCEPT !.at = at] \in Ups /\ [up[k] EXCEPT !.at = at].at = at
        BY <1>o DEF Ups
      <3> QED
        BY <2>1, <3>1, UpMoves
    <2>2. UpType'
      BY <1>6, <2>1 DEF UpWrite, UpWriteFails
    <2>3. OtherTypes'
      BY <1>6 DEF UpWrite, UpWriteFails, ClosePair, OtherTypes
    <2> QED
      BY <1>6, <1>k, <1>q, <1>h, <1>a, <2>2, <2>3 DEF UpWrite, UpWriteFails
  <1>7. ASSUME NEW k \in Conns, DownStep(k) PROVE TypeInv'
    <2>1. UNCHANGED <<pc, service, node, gone, asked, up, queueVars>>
      BY <1>7 DEF DownStep, DownRead, DownWrite, DownReadFails, DownWriteFails, DownMoves
    <2>2. down' \in [Conns -> {"none", "read", "write", "done"}]
      BY <1>7 DEF DownStep, DownRead, DownWrite, DownReadFails, DownWriteFails, DownMoves, OtherTypes
    <2>3. open' \in [Conns -> SUBSET {"app", "service"}]
      BY <1>7 DEF DownStep, DownRead, DownWrite, DownReadFails, DownWriteFails, ClosePair, OtherTypes
    <2>4. OtherTypes'
      BY <2>1, <2>2, <2>3 DEF OtherTypes
    <2> QED
      BY <1>k, <1>u, <1>q, <1>h, <1>a, <2>1, <2>4
  <1>8. ASSUME NEW k \in Conns, Ask(k) \/ Leaves(k) PROVE TypeInv'
    <2>1. AskedType'
      BY <1>8, Constants DEF Ask, Leaves, AskedType
    <2>2. OtherTypes'
      BY <1>8 DEF Ask, Leaves, OtherTypes
    <2> QED
      BY <1>8, <1>k, <1>u, <1>q, <1>h, <2>1, <2>2 DEF Ask, Leaves
  <1>9. ASSUME Encode PROVE TypeInv'
    <2>1. Head(out) \in Requests
      BY <1>9 DEF Encode, OutType
    <2>2. OutType'
      BY <1>9, Constants DEF Encode, OutType
    <2>3. [conn |-> Head(out).conn, msg |-> Head(out).msg, got |-> Head(out).msg] \in Encoded
      BY <2>1, Constants DEF Requests, Encoded
    <2>4. HeardType'
      BY <1>9, <2>3 DEF Encode, HeardType
    <2>5. OtherTypes'
      BY <1>9 DEF Encode, OtherTypes
    <2> QED
      BY <1>9, <1>k, <1>u, <1>a, <2>2, <2>4, <2>5 DEF Encode
  <1>10. ASSUME Crash PROVE TypeInv'
    BY <1>10, EndsType DEF Crash
  <1>11. ASSUME Restart \/ ServiceEnds \/ ServiceStarts PROVE TypeInv'
    <2>1. NodeType'
      BY <1>11 DEF Restart, ServiceEnds, ServiceStarts, Orphaned, NodeType
    <2>2. gone' \in [Conns -> SUBSET {"app", "service"}]
      <3>1. \A k \in Conns : gone[k] \cup {"service"} \in SUBSET {"app", "service"}
        BY DEF OtherTypes
      <3>2. CASE ServiceEnds
        BY <3>1, <3>2 DEF ServiceEnds, OtherTypes
      <3> QED
        BY <1>11, <3>2 DEF Restart, ServiceStarts, OtherTypes
    <2>3. OtherTypes'
      BY <1>11, <2>2 DEF Restart, ServiceEnds, ServiceStarts, Goto, OtherTypes
    <2> QED
      BY <1>11, <1>u, <1>q, <1>h, <1>a, <2>1, <2>3 DEF Restart, ServiceEnds, ServiceStarts
  <1>12. CASE UNCHANGED vars
    <2>1. OtherTypes'
      BY <1>12 DEF vars, OtherTypes
    <2> QED
      BY <1>12, <1>k, <1>u, <1>q, <1>h, <1>a, <2>1 DEF vars
  <1> QED
    BY <1>2, <1>3, <1>4, <1>5, <1>6, <1>7, <1>8, <1>9, <1>10, <1>11, <1>12 DEF Next, proxy, DownStep

\* The types of the proxy's state, for any number of connections and requests.
THEOREM CentralType == Spec => []TypeOK
  BY TypeInit, TypeNext, TypeInvType, PTL DEF Spec
-----------------------------------------------------------------------------
(***************************************************************************)
(* Where the sockets are after each step.                                  *)
(***************************************************************************)
LEMMA Orphans ==
    ASSUME NodeType, NEW who, node' = Orphaned(who)
    PROVE  /\ node'.Original = IF node.Original = who THEN "dead" ELSE node.Original
           /\ node'.Proxy = IF node.Proxy = who THEN "dead" ELSE node.Proxy
  BY DEF NodeType, Orphaned

LEMMA NewOriginal ==
    ASSUME NodeType, NEW who, node' = [node EXCEPT !.Original = who]
    PROVE  node'.Original = who /\ node'.Proxy = node.Proxy
  BY DEF NodeType

LEMMA Renamed ==
    ASSUME Rename
    PROVE  node'.Original = "absent" /\ node'.Proxy = node.Original
  BY DEF Rename

\* Neither the goroutines of the proxy nor the apps touch the sockets.
LEMMA OnlyThese ==
    ASSUME [Next]_vars
    PROVE  \/ InitSteps \/ Crash \/ Restart \/ ServiceEnds \/ ServiceStarts
           \/ pc = "accept" /\ Ends
           \/ UNCHANGED <<pc, service, node>>
  <1>1. ASSUME NEW k \in Conns, Accept(k)
        PROVE  (pc = "accept" /\ Ends) \/ UNCHANGED <<pc, service, node>>
    BY <1>1 DEF Accept
  <1>2. ASSUME NEW k \in Conns, proxy(k) \/ Ask(k) \/ Leaves(k)
        PROVE  UNCHANGED <<pc, service, node>>
    BY <1>2 DEF proxy, UpRead, UpPublish, UpWrite, UpWriteFails, DownRead, DownWrite,
                DownReadFails, DownWriteFails, DownMoves, Ask, Leaves
  <1>3. Encode \/ UNCHANGED vars => UNCHANGED <<pc, service, node>>
    BY DEF Encode, vars
  <1> QED
    BY <1>1, <1>2, <1>3 DEF Next
-----------------------------------------------------------------------------
(***************************************************************************)
(* The proxy leads to the service.                                         *)
(***************************************************************************)
LEMMA SocketsInit == Init => Sockets
  BY DEF Init, Sockets

\* The steps of Init keep to a running service.
LEMMA SocketsSteps ==
    ASSUME TypeInv, Sockets, InitSteps
    PROVE  Sockets'
  <1> USE DEF TypeInv, Sockets
  <1>1. UNCHANGED service
    BY DEF InitSteps, Stat, ProbeOriginal, Rename, ProbeProxy, Remove, Listen
  <1>2. CASE Stat
    BY <1>2 DEF Stat, Goto
  <1>3. CASE ProbeOriginal
    BY <1>3 DEF ProbeOriginal, Goto, socketActive
  <1>4. CASE Rename
    BY <1>1, <1>4, Renamed DEF Rename, Goto
  <1>5. CASE ProbeProxy
    BY <1>5 DEF ProbeProxy, Goto, socketActive
  <1>6. CASE Remove
    BY <1>1, <1>6, NewOriginal DEF Remove, Goto
  <1>7. CASE Listen
    <2>1. CASE node.Original = "absent"
      BY <1>1, <1>7, <2>1, NewOriginal DEF Listen, Goto
    <2>2. CASE node.Original # "absent"
      BY <1>1, <1>7, <2>2 DEF Listen, Goto
    <2> QED
      BY <2>1, <2>2
  <1> QED
    BY <1>2, <1>3, <1>4, <1>5, <1>6, <1>7 DEF InitSteps

LEMMA SocketsNext ==
    ASSUME "remove" \notin RestartAt, TypeInv, Sockets, [Next]_vars
    PROVE  Sockets'
  <1> USE DEF TypeInv, Sockets
  <1>1. CASE InitSteps
    BY <1>1, SocketsSteps
  <1>2. CASE Ends
    <2>1. node' = Orphaned("agent") /\ UNCHANGED service /\ pc' = "down"
      BY <1>2 DEF Ends
    <2> QED
      BY <2>1, Orphans
  <1>3. CASE Restart
    BY <1>3 DEF Restart, Goto
  <1>4. CASE ServiceEnds
    <2>1. node' = Orphaned("service") /\ ~service' /\ UNCHANGED pc
      BY <1>4 DEF ServiceEnds
    <2> QED
      BY <2>1, Orphans
  <1>5. CASE ServiceStarts
    <2>1. node' = [node EXCEPT !.Original = "service"] /\ service' /\ UNCHANGED pc /\ pc # "remove"
      BY <1>5 DEF ServiceStarts
    <2> QED
      BY <2>1, NewOriginal
  <1>6. CASE UNCHANGED <<pc, service, node>>
    BY <1>6
  <1> QED
    BY <1>1, <1>2, <1>3, <1>4, <1>5, <1>6, OnlyThese DEF Crash

\* Whoever reaches the agent reaches the service (init.go:29-53), wherever the agent
\* is killed and the service restarted, unless that happens between the probe of
\* the proxy's name and the removal of the original one.
THEOREM AgentLeadsOn ==
    ASSUME "remove" \notin RestartAt
    PROVE  Spec => []ProxyLeads
  <1>1. Sockets => ProxyLeads
    BY DEF Sockets, ProxyLeads
  <1>2. Init => TypeInv /\ Sockets
    BY TypeInit, SocketsInit
  <1>3. TypeInv /\ Sockets /\ [Next]_vars => (TypeInv /\ Sockets)'
    BY TypeNext, SocketsNext
  <1> QED
    BY <1>1, <1>2, <1>3, PTL DEF Spec
-----------------------------------------------------------------------------
(***************************************************************************)
(* The agent gives up only where there is no service.                      *)
(***************************************************************************)
LEMMA LeftInit == Init => LeftBehind
  BY DEF Init, LeftBehind

LEMMA LeftSteps ==
    ASSUME TypeInv, LeftBehind, InitSteps
    PROVE  LeftBehind'
  <1> USE DEF TypeInv, LeftBehind
  <1>1. CASE Stat
    BY <1>1 DEF Stat, Goto
  <1>2. CASE ProbeOriginal
    BY <1>2 DEF ProbeOriginal, Goto, socketActive
  <1>3. CASE ProbeProxy
    BY <1>3 DEF ProbeProxy, Goto
  <1>4. CASE Rename \/ Remove
    BY <1>4 DEF Rename, Remove, Goto
  <1>5. CASE Listen
    <2>1. CASE node.Original = "absent"
      BY <1>5, <2>1, NewOriginal DEF Listen, Goto
    <2>2. CASE node.Original # "absent"
      BY <1>5, <2>2 DEF Listen, Goto
    <2> QED
      BY <2>1, <2>2
  <1> QED
    BY <1>1, <1>2, <1>3, <1>4, <1>5 DEF InitSteps

LEMMA LeftNext ==
    ASSUME "listen" \notin CrashAt, "probe proxy" \notin RestartAt, TypeInv, LeftBehind, [Next]_vars
    PROVE  LeftBehind'
  <1> USE DEF TypeInv, LeftBehind
  <1>1. CASE InitSteps
    BY <1>1, LeftSteps
  <1>2. ASSUME Ends, pc # "listen" PROVE LeftBehind'
    <2>1. node' = Orphaned("agent") /\ pc' = "down"
      BY <1>2 DEF Ends
    <2>2. node.Original = "absent" => node.Proxy # "service"
      BY <1>2 DEF OtherTypes
    <2> QED
      BY <2>1, <2>2, Orphans
  <1>3. CASE Restart
    BY <1>3 DEF Restart, Goto
  <1>4. CASE ServiceEnds
    <2>1. node' = Orphaned("service") /\ UNCHANGED pc
      BY <1>4 DEF ServiceEnds
    <2> QED
      BY <2>1, Orphans
  <1>5. CASE ServiceStarts
    <2>1. node' = [node EXCEPT !.Original = "service"] /\ UNCHANGED pc /\ pc # "probe proxy"
      BY <1>5 DEF ServiceStarts
    <2> QED
      BY <2>1, NewOriginal
  <1>6. CASE UNCHANGED <<pc, service, node>>
    BY <1>6
  <1> QED
    BY <1>1, <1>2, <1>3, <1>4, <1>5, <1>6, OnlyThese DEF Crash

LEMMA GivesUpStep ==
    ASSUME TypeInv, LeftBehind, [Next]_vars, pc' \in {"unsupported", "no socket"}, pc' # pc
    PROVE  "service" \notin {node.Original, node.Proxy}
  <1> USE DEF LeftBehind
  <1>1. Stat \/ ProbeProxy
    BY OnlyThese DEF InitSteps, ProbeOriginal, Rename, Remove, Listen, Crash, Ends, Restart,
                     ServiceEnds, ServiceStarts, Goto
  <1>2. CASE Stat
    BY <1>2 DEF Stat, Goto
  <1>3. CASE ProbeProxy
    BY <1>3 DEF ProbeProxy, Goto, socketActive
  <1> QED
    BY <1>1, <1>2, <1>3

\* The agent leaves central alone only where no service listens (init.go:24-44), for
\* any kills but one between Rename and Listen, and any restarts of the service but
\* one between the two probes.
THEOREM GivesUpWhereNobodyListens ==
    ASSUME "listen" \notin CrashAt, "probe proxy" \notin RestartAt
    PROVE  Spec => GivesUpRightly
  <1>1. Init => TypeInv /\ LeftBehind
    BY TypeInit, LeftInit
  <1>2. TypeInv /\ LeftBehind /\ [Next]_vars => (TypeInv /\ LeftBehind)'
    BY TypeNext, LeftNext
  <1>3. TypeInv /\ LeftBehind /\ [Next]_vars =>
          [pc' \in {"unsupported", "no socket"} /\ pc' # pc =>
              "service" \notin {node.Original, node.Proxy}]_vars
    BY GivesUpStep
  <1> QED
    BY <1>1, <1>2, <1>3, PTL DEF Spec, GivesUpRightly
-----------------------------------------------------------------------------
(***************************************************************************)
(* What is published.                                                      *)
(***************************************************************************)

\* No request of k later than n has been published.
UpTo(k, n) ==
    /\ \A h \in heard : h.conn = k => h.msg <= n
    /\ \A i \in DOMAIN out : out[i].conn = k => out[i].msg <= n

\* A goroutine has published no request that it has not read, and publishes the one
\* in its buffer once (init.go:83-99).
Reads(k) ==
    /\ up[k].buf <= asked[k] /\ UpTo(k, asked[k])
    /\ up[k].at \in {"none", "read", "write"} => UpTo(k, up[k].buf)
    /\ up[k].at = "publish" => UpTo(k, up[k].buf - 1)

Orderly ==
    /\ \A h \in heard : h.got = h.msg /\ h.msg \notin Quiet
    /\ \A i \in DOMAIN out :
          /\ \A j \in DOMAIN out : i < j /\ out[i].conn = out[j].conn => out[i].msg < out[j].msg
          /\ \A h \in heard : h.conn = out[i].conn => h.msg < out[i].msg

PublishInv == Orderly /\ \A k \in Conns : Reads(k)

LEMMA PublishTypes ==
    TypeInv => /\ MaxAsk \in Nat
               /\ \A h \in heard : h.conn \in Conns /\ h.msg \in 1..MaxAsk
               /\ Len(out) \in Nat /\ DOMAIN out = 1..Len(out)
               /\ \A i \in 1..Len(out) : out[i].conn \in Conns /\ out[i].msg \in 1..MaxAsk \ Quiet
               /\ \A k \in Conns : asked[k] \in 0..MaxAsk /\ up[k].buf \in 0..MaxAsk
  <1> SUFFICES ASSUME TypeInv
               PROVE  /\ MaxAsk \in Nat
                      /\ \A h \in heard : h.conn \in Conns /\ h.msg \in 1..MaxAsk
                      /\ Len(out) \in Nat /\ DOMAIN out = 1..Len(out)
                      /\ \A i \in 1..Len(out) : out[i].conn \in Conns /\ out[i].msg \in 1..MaxAsk \ Quiet
                      /\ \A k \in Conns : asked[k] \in 0..MaxAsk /\ up[k].buf \in 0..MaxAsk
    OBVIOUS
  <1>1. \A h \in heard : h.conn \in Conns /\ h.msg \in 1..MaxAsk
    BY DEF TypeInv, HeardType, Encoded
  <1>2. out \in Seq(Requests)
    BY DEF TypeInv, OutType
  <1>3. \A i \in 1..Len(out) : out[i] \in Requests
    BY <1>2
  <1>4. \A i \in 1..Len(out) : out[i].conn \in Conns /\ out[i].msg \in 1..MaxAsk \ Quiet
    BY <1>3 DEF Requests
  <1>5. \A k \in Conns : asked[k] \in 0..MaxAsk
    BY DEF TypeInv, AskedType
  <1>6. \A k \in Conns : up[k].buf \in 0..MaxAsk
    BY DEF TypeInv, UpType, Ups
  <1> QED
    BY <1>1, <1>2, <1>4, <1>5, <1>6, Constants

LEMMA PublishInit == Init => PublishInv
  <1> SUFFICES ASSUME Init PROVE PublishInv
    OBVIOUS
  <1>1. heard = {} /\ DOMAIN out = {} /\ \A k \in Conns : up[k].buf = 0 /\ asked[k] = 0
    BY DEF Init
  <1> QED
    BY <1>1 DEF PublishInv, Orderly, Reads, UpTo

\* Steps that publish nothing.
LEMMA NothingPublished ==
    ASSUME PublishInv, UNCHANGED <<out, heard, asked>>,
           \A k \in Conns : UNCHANGED up[k] \/ Reads(k)'
    PROVE  PublishInv'
  <1>1. Orderly'
    BY DEF PublishInv, Orderly
  <1>2. \A k \in Conns : UNCHANGED up[k] => Reads(k)'
    BY DEF PublishInv, Reads, UpTo
  <1> QED
    BY <1>1, <1>2 DEF PublishInv

LEMMA PublishEnds ==
    ASSUME TypeInv, PublishInv, Ends
    PROVE  PublishInv'
  <1>1. DOMAIN out' = {} /\ UNCHANGED <<heard, asked>>
    BY DEF Ends
  <1>2. Orderly'
    BY <1>1 DEF PublishInv, Orderly
  <1>3. ASSUME NEW k \in Conns PROVE Reads(k)'
    <2>1. up'[k] = IF up[k].at = "none" THEN up[k] ELSE [at |-> "done", buf |-> 0]
      BY DEF Ends
    <2>2. Reads(k)
      BY DEF PublishInv
    <2>3. CASE up[k].at = "none"
      BY <1>1, <2>1, <2>2, <2>3 DEF Reads, UpTo
    <2>4. CASE up[k].at # "none"
      <3>1. up'[k].at = "done" /\ up'[k].buf = 0
        BY <2>1, <2>4
      <3>2. 0 <= asked[k] /\ UpTo(k, asked[k])
        BY <2>2, PublishTypes DEF Reads
      <3>3. UpTo(k, asked[k])'
        BY <1>1, <3>2 DEF UpTo
      <3>4. (up[k].buf <= asked[k])' /\ (up[k].at = "done")'
        BY <1>1, <3>1, <3>2
      <3> QED
        BY <3>3, <3>4 DEF Reads
    <2> QED
      BY <2>3, <2>4
  <1> QED
    BY <1>2, <1>3 DEF PublishInv

LEMMA ReadsThen ==
    ASSUME NEW k \in Conns, NEW a \in Nat, NEW b \in Nat, asked'[k] = a, up'[k].buf = b, b <= a,
           UpTo(k, a)',
           up'[k].at \in {"none", "read", "write"} => UpTo(k, b)',
           up'[k].at = "publish" => UpTo(k, b - 1)'
    PROVE  Reads(k)'
  BY DEF Reads, UpTo

LEMMA PublishReads ==
    ASSUME TypeInv, PublishInv, NEW k \in Conns, UpRead(k)
    PROVE  PublishInv'
  <1>1. UNCHANGED <<out, heard, asked>> /\ \A q \in Conns \ {k} : UNCHANGED up[q]
    BY DEF UpRead, queueVars, TypeInv, UpType
  <1>2. Reads(k) /\ up[k].buf \in Nat /\ asked[k] \in Nat
    BY PublishTypes DEF PublishInv
  <1>3. up[k].at = "read" /\ UpTo(k, up[k].buf) /\ UpTo(k, asked[k])
    BY <1>2 DEF UpRead, Reads
  <1>4. Reads(k)'
    <2>1. CASE "app" \in open[k] /\ up[k].buf < asked[k]
      <3>1. /\ up'[k].buf = up[k].buf + 1 /\ up'[k].at \in {"write", "publish"}
        BY <2>1 DEF UpRead, TypeInv, UpType
      <3>2. UpTo(k, up[k].buf + 1)
        BY <1>2, <1>3, PublishTypes DEF UpTo
      <3>3. (up[k].buf + 1) - 1 = up[k].buf /\ up[k].buf + 1 <= asked[k]
        BY <1>2, <2>1
      <3>4. PICK a \in Nat, b \in Nat : a = asked[k] /\ b = up[k].buf + 1
        BY <1>2
      <3>5. UpTo(k, a)' /\ UpTo(k, b)' /\ UpTo(k, b - 1)'
        BY <1>1, <1>3, <3>2, <3>3, <3>4 DEF UpTo
      <3> QED
        BY <1>1, <3>1, <3>3, <3>4, <3>5, ReadsThen
    <2>2. CASE ~("app" \in open[k] /\ up[k].buf < asked[k])
      <3>1. up'[k].buf = up[k].buf /\ up'[k].at = "done"
        BY <2>2 DEF UpRead, TypeInv, UpType, Ups
      <3> QED
        BY <1>1, <1>2, <3>1 DEF Reads, UpTo
    <2> QED
      BY <2>1, <2>2
  <1> QED
    BY <1>1, <1>4, NothingPublished

LEMMA PublishWrites ==
    ASSUME TypeInv, PublishInv, NEW k \in Conns, UpWrite(k) \/ UpWriteFails(k)
    PROVE  PublishInv'
  <1>1. UNCHANGED <<out, heard, asked>> /\ \A q \in Conns \ {k} : UNCHANGED up[q]
    BY DEF UpWrite, UpWriteFails, queueVars, TypeInv, UpType
  <1>2. Reads(k) /\ up[k].at = "write"
    BY DEF PublishInv, UpWrite, UpWriteFails
  <1>3. up'[k].buf = up[k].buf /\ up'[k].at \in {"read", "done"}
    BY DEF UpWrite, UpWriteFails, TypeInv, UpType, Ups
  <1>4. Reads(k)'
    BY <1>1, <1>2, <1>3 DEF Reads, UpTo
  <1> QED
    BY <1>1, <1>4, NothingPublished

LEMMA PublishPublishes ==
    ASSUME TypeInv, PublishInv, NEW k \in Conns, UpPublish(k)
    PROVE  PublishInv'
  <1>1. UNCHANGED <<heard, asked>> /\ \A q \in Conns \ {k} : UNCHANGED up[q]
    BY DEF UpPublish, TypeInv, UpType
  <1>2. PICK n \in 1..MaxAsk \ Quiet : n = up[k].buf
    BY DEF UpPublish, TypeInv, UpType, ReadsFirst
  <1>3. Reads(k) /\ UpTo(k, n - 1) /\ n <= asked[k] /\ UpTo(k, asked[k]) /\ n \in Nat /\ asked[k] \in Nat
    BY <1>2, PublishTypes DEF PublishInv, Reads, UpPublish
  <1>4. up'[k].buf = n /\ up'[k].at = "write"
    BY <1>2 DEF UpPublish, TypeInv, UpType, Ups
  <1>5. CASE ~online
    <2>1. UNCHANGED out
      BY <1>5 DEF UpPublish
    <2>2. UpTo(k, n)
      BY <1>2, <1>3, PublishTypes DEF UpTo
    <2>3. Reads(k)'
      BY <1>1, <1>3, <1>4, <2>1, <2>2 DEF Reads, UpTo
    <2> QED
      BY <1>1, <2>1, <2>3, NothingPublished
  <1>6. CASE online
    <2>1. PICK l \in Nat : l = Len(out) /\ DOMAIN out = 1..l
      BY PublishTypes
    <2>2. PICK new : new = out'
      OBVIOUS
    <2>3. /\ DOMAIN new = 1..l + 1 /\ new[l + 1] = [conn |-> k, msg |-> n]
          /\ \A i \in 1..l : new[i] = out[i]
      <3>1. new = Append(out, [conn |-> k, msg |-> n])
        BY <1>2, <1>6, <2>2 DEF UpPublish
      <3>2. out \in Seq(Requests) /\ [conn |-> k, msg |-> n] \in Requests
        BY <1>2 DEF TypeInv, OutType, Requests
      <3> QED
        BY <2>1, <3>1, <3>2
    <2>4. \A i \in 1..l + 1 : i \in 1..l \/ i = l + 1
      OBVIOUS
    <2>5. /\ \A h \in heard : h.conn = k => h.msg < n
          /\ \A i \in 1..l : out[i].conn = k => out[i].msg < n
      BY <1>3, <2>1, PublishTypes DEF UpTo
    <2>6. Orderly'
      <3>1. /\ \A h \in heard : h.got = h.msg /\ h.msg \notin Quiet
            /\ \A i, j \in 1..l : i < j /\ out[i].conn = out[j].conn => out[i].msg < out[j].msg
            /\ \A i \in 1..l : \A h \in heard : h.conn = out[i].conn => h.msg < out[i].msg
        BY <2>1 DEF PublishInv, Orderly
      <3>2. ASSUME NEW i \in 1..l + 1, NEW j \in 1..l + 1, i < j, new[i].conn = new[j].conn
            PROVE  new[i].msg < new[j].msg
        <4>1. i \in 1..l
          BY <3>2
        <4>2. CASE j \in 1..l
          BY <2>3, <3>1, <3>2, <4>1, <4>2
        <4>3. CASE j = l + 1
          <5>1. new[j].conn = k /\ new[j].msg = n /\ new[i] = out[i]
            BY <2>3, <4>1, <4>3
          <5> QED
            BY <2>5, <3>2, <4>1, <5>1
        <4> QED
          BY <2>4, <4>2, <4>3
      <3>3. ASSUME NEW i \in 1..l + 1, NEW h \in heard, h.conn = new[i].conn PROVE h.msg < new[i].msg
        <4>1. CASE i \in 1..l
          BY <2>3, <3>1, <3>3, <4>1
        <4>2. CASE i = l + 1
          <5>1. new[i].conn = k /\ new[i].msg = n
            BY <2>3, <4>2
          <5> QED
            BY <2>5, <3>3, <5>1
        <4> QED
          BY <2>4, <4>1, <4>2
      <3> QED
        BY <1>1, <2>2, <2>3, <3>1, <3>2, <3>3 DEF Orderly
    <2>7. ASSUME NEW q \in Conns, NEW m \in Nat, UpTo(q, m), q = k => n <= m PROVE UpTo(q, m)'
      <3>1. ASSUME NEW i \in 1..l + 1, new[i].conn = q PROVE new[i].msg <= m
        <4>1. CASE i \in 1..l
          BY <2>1, <2>3, <2>7, <3>1, <4>1 DEF UpTo
        <4>2. CASE i = l + 1
          <5>1. new[i].conn = k /\ new[i].msg = n
            BY <2>3, <4>2
          <5> QED
            BY <2>7, <3>1, <5>1
        <4> QED
          BY <2>4, <4>1, <4>2
      <3> QED
        BY <1>1, <2>2, <2>3, <2>7, <3>1 DEF UpTo
    <2>8. Reads(k)'
      <3>1. UpTo(k, n)
        BY <1>2, <1>3, PublishTypes DEF UpTo
      <3>2. UpTo(k, n)' /\ UpTo(k, asked[k])'
        BY <1>1, <1>3, <2>7, <3>1
      <3> QED
        BY <1>1, <1>3, <1>4, <3>2 DEF Reads
    <2>9. ASSUME NEW q \in Conns \ {k} PROVE Reads(q)'
      <3>1. Reads(q) /\ up'[q] = up[q] /\ asked'[q] = asked[q]
        BY <1>1 DEF PublishInv
      <3>2. asked[q] \in Nat /\ up[q].buf \in Nat
        BY PublishTypes
      <3>3. PICK a \in Nat, b \in Nat : a = asked[q] /\ b = up[q].buf
        BY <3>2
      <3>4. /\ b <= a /\ UpTo(q, a)
            /\ up[q].at \in {"none", "read", "write"} => UpTo(q, b)
            /\ up[q].at = "publish" => b - 1 \in Nat /\ UpTo(q, b - 1)
        <4>1. up[q].at = "publish" => b - 1 \in Nat
          BY <3>3, Constants DEF TypeInv, UpType, ReadsFirst
        <4> QED
          BY <3>1, <3>3, <4>1 DEF Reads
      <3>5. /\ UpTo(q, a)'
            /\ up[q].at \in {"none", "read", "write"} => UpTo(q, b)'
            /\ up[q].at = "publish" => UpTo(q, b - 1)'
        BY <2>7, <3>4
      <3> QED
        BY <3>1, <3>3, <3>4, <3>5, ReadsThen
    <2> QED
      BY <2>6, <2>8, <2>9 DEF PublishInv
  <1> QED
    BY <1>5, <1>6

LEMMA PublishEncodes ==
    ASSUME TypeInv, PublishInv, Encode
    PROVE  PublishInv'
  <1>1. UNCHANGED <<asked, up>> /\ out # <<>> /\ out' = Tail(out)
    BY DEF Encode, pairVars
  <1>2. PICK l \in Nat : l + 1 = Len(out) /\ DOMAIN out = 1..l + 1
    <2>1. out \in Seq(Requests)
      BY DEF TypeInv, OutType
    <2>2. PICK n \in Nat \ {0} : n = Len(out) /\ DOMAIN out = 1..n
      BY <1>1, <2>1
    <2>3. n - 1 \in Nat /\ (n - 1) + 1 = n
      OBVIOUS
    <2> QED
      BY <2>2, <2>3
  <1>3. PICK rest : rest = out'
    OBVIOUS
  <1>4. DOMAIN rest = 1..l /\ \A i \in 1..l : rest[i] = out[i + 1] /\ i + 1 \in 1..l + 1
    BY <1>1, <1>2, <1>3 DEF TypeInv, OutType
  <1>5. PICK g : g = [conn |-> out[1].conn, msg |-> out[1].msg, got |-> out[1].msg]
    OBVIOUS
  <1>6. heard' = heard \cup {g} /\ g.conn = out[1].conn /\ g.msg = out[1].msg /\ g.got = g.msg /\ 1 \in 1..l + 1
    BY <1>1, <1>2, <1>5 DEF Encode, TypeInv, OutType
  <1>7. /\ \A h \in heard : h.got = h.msg /\ h.msg \notin Quiet
        /\ \A i, j \in 1..l + 1 : i < j /\ out[i].conn = out[j].conn => out[i].msg < out[j].msg
        /\ \A i \in 1..l + 1 : \A h \in heard : h.conn = out[i].conn => h.msg < out[i].msg
    BY <1>2 DEF PublishInv, Orderly
  <1>8. Orderly'
    <2>1. \A h \in heard \cup {g} : h.got = h.msg /\ h.msg \notin Quiet
      BY <1>2, <1>6, <1>7, PublishTypes
    <2>2. \A i, j \in 1..l : i < j /\ rest[i].conn = rest[j].conn => rest[i].msg < rest[j].msg
      BY <1>4, <1>7
    <2>3. ASSUME NEW i \in 1..l, NEW h \in heard \cup {g}, h.conn = rest[i].conn PROVE h.msg < rest[i].msg
      <3>1. rest[i] = out[i + 1] /\ i + 1 \in 1..l + 1 /\ 1 < i + 1
        BY <1>4
      <3>2. CASE h \in heard
        BY <1>7, <2>3, <3>1, <3>2
      <3>3. CASE h = g
        BY <1>6, <1>7, <2>3, <3>1, <3>3
      <3> QED
        BY <3>2, <3>3
    <2> QED
      BY <1>3, <1>4, <1>6, <2>1, <2>2, <2>3 DEF Orderly
  <1>9. ASSUME NEW k \in Conns PROVE Reads(k)'
    <2>1. ASSUME NEW n, UpTo(k, n) PROVE UpTo(k, n)'
      <3>1. \A h \in heard \cup {g} : h.conn = k => h.msg <= n
        BY <1>2, <1>6, <2>1 DEF UpTo
      <3>2. \A i \in 1..l : rest[i].conn = k => rest[i].msg <= n
        BY <1>2, <1>4, <2>1 DEF UpTo
      <3> QED
        BY <1>3, <1>4, <1>6, <3>1, <3>2 DEF UpTo
    <2>2. PICK a \in Nat, b \in Nat : a = asked[k] /\ b = up[k].buf
      BY PublishTypes
    <2>3. Reads(k) /\ asked'[k] = a /\ up'[k] = up[k]
      BY <1>1, <2>2 DEF PublishInv
    <2>4. /\ b <= a /\ UpTo(k, a)
          /\ up[k].at \in {"none", "read", "write"} => UpTo(k, b)
          /\ up[k].at = "publish" => UpTo(k, b - 1)
      BY <2>2, <2>3 DEF Reads
    <2>5. /\ UpTo(k, a)'
          /\ up[k].at \in {"none", "read", "write"} => UpTo(k, b)'
          /\ up[k].at = "publish" => UpTo(k, b - 1)'
      BY <2>1, <2>4
    <2> QED
      BY <2>2, <2>3, <2>4, <2>5, ReadsThen
  <1> QED
    BY <1>8, <1>9 DEF PublishInv

LEMMA PublishAsks ==
    ASSUME TypeInv, PublishInv, NEW k \in Conns, Ask(k)
    PROVE  PublishInv'
  <1>1. UNCHANGED <<up, out, heard>> /\ \A q \in Conns \ {k} : asked'[q] = asked[q]
    BY DEF Ask, queueVars, TypeInv, AskedType
  <1>2. asked'[k] = asked[k] + 1
    BY DEF Ask, TypeInv, AskedType
  <1>3. Orderly'
    BY <1>1 DEF PublishInv, Orderly
  <1>4. ASSUME NEW q \in Conns PROVE Reads(q)'
    <2>1. PICK a \in Nat, b \in Nat : a = asked'[q] /\ b = up[q].buf
      BY <1>1, <1>2, PublishTypes
    <2>2. Reads(q) /\ asked[q] <= a
      BY <1>1, <1>2, <2>1, PublishTypes DEF PublishInv
    <2>3. b <= a /\ UpTo(q, a)
      BY <2>1, <2>2, PublishTypes DEF Reads, UpTo
    <2>4. UpTo(q, a)'
      BY <1>1, <2>3 DEF UpTo
    <2>5. /\ up[q].at \in {"none", "read", "write"} => UpTo(q, b)
          /\ up[q].at = "publish" => UpTo(q, b - 1)
      BY <2>1, <2>2 DEF Reads
    <2>6. /\ up[q].at \in {"none", "read", "write"} => UpTo(q, b)'
          /\ up[q].at = "publish" => UpTo(q, b - 1)'
      BY <1>1, <2>5 DEF UpTo
    <2> QED
      BY <1>1, <2>1, <2>3, <2>4, <2>6, ReadsThen
  <1> QED
    BY <1>3, <1>4 DEF PublishInv

LEMMA PublishAccepts ==
    ASSUME TypeInv, PublishInv, NEW k \in Conns, Accept(k)
    PROVE  PublishInv'
  <1>1. CASE Ends
    BY <1>1, PublishEnds
  <1>2. CASE socketActive("Proxy")
    <2>1. UNCHANGED <<out, heard, asked>> /\ \A q \in Conns \ {k} : UNCHANGED up[q]
      BY <1>2 DEF Accept, queueVars, TypeInv, UpType
    <2>2. Reads(k) /\ up[k].at = "none" /\ up'[k].at = "read" /\ up'[k].buf = up[k].buf
      BY <1>2 DEF PublishInv, Accept, TypeInv, UpType, Ups
    <2>3. Reads(k)'
      BY <2>1, <2>2 DEF Reads, UpTo
    <2> QED
      BY <2>1, <2>3, NothingPublished
  <1> QED
    BY <1>1, <1>2 DEF Accept

LEMMA PublishNext == TypeInv /\ PublishInv /\ [Next]_vars => PublishInv'
  <1> SUFFICES ASSUME TypeInv, PublishInv, [Next]_vars PROVE PublishInv'
    OBVIOUS
  <1>1. UNCHANGED <<up, out, heard, asked>> => PublishInv'
    BY NothingPublished
  <1>2. InitSteps \/ Restart \/ ServiceEnds \/ ServiceStarts \/ UNCHANGED vars
           => UNCHANGED <<up, out, heard, asked>>
    BY DEF InitSteps, Stat, ProbeOriginal, Rename, ProbeProxy, Remove, Listen, Restart, ServiceEnds,
           ServiceStarts, vars, pairVars, queueVars
  <1>3. ASSUME NEW k \in Conns, DownStep(k) \/ Leaves(k)
        PROVE  UNCHANGED <<up, out, heard, asked>>
    BY <1>3 DEF DownStep, DownRead, DownWrite, DownReadFails, DownWriteFails, DownMoves, Leaves, queueVars
  <1>4. Crash => PublishInv'
    BY PublishEnds DEF Crash
  <1>5. Encode => PublishInv'
    BY PublishEncodes
  <1>6. ASSUME NEW k \in Conns, Accept(k) \/ proxy(k) \/ Ask(k) \/ Leaves(k)
        PROVE  PublishInv'
    BY <1>1, <1>3, <1>6, PublishAccepts, PublishReads, PublishPublishes, PublishWrites, PublishAsks
       DEF proxy, DownStep
  <1> QED
    BY <1>1, <1>2, <1>4, <1>5, <1>6 DEF Next

\* Of every connection the requests are published as they were made, once and in
\* their order, and none of the queries for the role (init.go:83-99), through any
\* kills of the agent and for any queue.
THEOREM RequestsIntact == Spec => []PublishedIntact
  <1>1. TypeInv /\ PublishInv => PublishedIntact
    <2> SUFFICES ASSUME TypeInv, PublishInv PROVE PublishedIntact
      OBVIOUS
    <2>1. ASSUME NEW h \in heard PROVE h.msg \in 1..asked[h.conn] \ Quiet
      <3>1. PICK k \in Conns : k = h.conn
        BY PublishTypes
      <3>2. h.msg \in Nat /\ h.msg >= 1 /\ asked[k] \in Nat
        BY PublishTypes
      <3>3. h.msg <= asked[k]
        BY <3>1 DEF PublishInv, Reads, UpTo
      <3> QED
        BY <3>1, <3>2, <3>3 DEF PublishInv, Orderly
    <2> QED
      BY <2>1 DEF PublishInv, Orderly, PublishedIntact
  <1> QED
    BY <1>1, TypeInit, TypeNext, PublishInit, PublishNext, PTL DEF Spec
=============================================================================
