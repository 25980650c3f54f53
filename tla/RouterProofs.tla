---------------------------- MODULE RouterProofs ----------------------------
(***************************************************************************)
(* The router (module Router) is type correct, every response goes to the  *)
(* caller of its request with the caller's id, a call that names no apps   *)
(* is answered at most once, calls that wait at one endpoint differ in     *)
(* their ids, and what is acknowledged on MQTT was reported there, for any *)
(* connections, addresses, methods, masks, bounds and ids of callers, the  *)
(* agent's own included (such calls are then marked as mistaken).          *)
(***************************************************************************)
EXTENDS RouterInv, TLAPS

\* Where the address comes from that a goroutine passes as from.
LEMMA FromType ==
    ASSUME LocalType, NEW w \in Workers, From(w) # None
    PROVE  From(w) \in Callers
BY RouterAssumption DEF LocalType, From, Workers, Callers

\* Leaving and entering a step keeps the work type.
LEMMA EnterType ==
    ASSUME RouterAssumption, WorkType, addr' = addr, NEW w \in Workers, From(w) # None,
           NEW label, NEW x, Enter(w, label, x),
           \/ label = "idle"
           \/ label \in {"patch", "send"} /\ x \in Message
           \/ label = "respond" /\ x \in Matched
    PROVE  WorkType'
<1>1. \A v \in Workers : From(v)' = From(v)
  BY DEF From
<1>2. pc' \in [Workers -> {"idle", "patch", "send", "respond"}] /\ DOMAIN item' = Workers
  BY DEF WorkType, Enter
<1>3. \A v \in Workers : v # w => pc'[v] = pc[v] /\ item'[v] = item[v]
  BY DEF WorkType, Enter
<1>4. pc'[w] = label /\ item'[w] = x
  BY DEF WorkType, Enter
<1> QED
  BY <1>1, <1>2, <1>3, <1>4 DEF WorkType

\* MarkMessage keeps the table's type.
LEMMA MarkType ==
    ASSUME RouterAssumption, TableType, NEW m \in Message, NEW a \in Callers,
           markID < MaxMark, MarkMessage(m, a)
    PROVE  TableType' /\ Swapped(m) \in Message
<1>1. markID \in Nat /\ markID' = markID + 1 /\ markID' \in 1..MaxMark
  BY DEF RouterAssumption, TableType, MarkMessage
<1>2. Swapped(m) \in Message /\ m.id \in Ids \cup 1..MaxMark
  BY <1>1 DEF Swapped, Message
<1>3. marks' \in [DOMAIN marks' -> [msg : Message, addr : Callers, id : Ids \cup 1..MaxMark]]
  BY <1>2 DEF TableType, MarkMessage
<1> QED
  BY <1>1, <1>2, <1>3 DEF TableType, MarkMessage

\* FindMessage keeps it, and yields a matched response.
LEMMA FindType ==
    ASSUME RouterAssumption, TableType, NEW m \in Message, FindMessage(m)
    PROVE  /\ TableType'
           /\ marks[m.id] \in [msg : Message, addr : Callers, id : Ids \cup 1..MaxMark]
           /\ Restored(m) \in Message
<1>1. marks[m.id] \in [msg : Message, addr : Callers, id : Ids \cup 1..MaxMark]
  BY DEF TableType, FindMessage, Marked
<1>2. Restored(m) \in Message
  BY <1>1 DEF Restored, Message
<1>3. TableType'
  BY DEF TableType, FindMessage, Restrict
<1> QED
  BY <1>1, <1>2, <1>3

\* Routing a message keeps the types of what it changes.
LEMMA RouteType ==
    ASSUME RouterAssumption, LocalType, WorkType, TableType, WireType, addr' = addr,
           NEW w \in Workers, Reads(w), NEW m \in Message, Route(w, m)
    PROVE  /\ WorkType' /\ TableType'
           /\ published' \subseteq [topic : {"report", "report_ack"}, kind : {"req", "res"}, uid : 1..MaxCall]
           /\ mistaken' \subseteq 1..MaxCall
<1>1. From(w) # None /\ From(w) \in Callers
  BY FromType DEF Reads
<1>2. CASE RouteToApps(w, m)
  <2>1. [m EXCEPT !.from = From(w)] \in Message
    BY <1>1 DEF Message
  <2>2. published' = published /\ mistaken' = mistaken /\ TableType'
    BY <1>2 DEF RouteToApps, mangleVars, TableType
  <2>3. CASE Enter(w, "patch", [m EXCEPT !.from = From(w)])
    BY <1>1, <2>1, <2>2, <2>3, EnterType DEF WireType
  <2>4. CASE UNCHANGED workVars
    BY <2>2, <2>4 DEF WireType, WorkType, workVars, From
  <2> QED
    BY <1>2, <2>3, <2>4 DEF RouteToApps
<1>3. CASE RouteResponse(w, m)
  <2> DEFINE x == [to |-> marks[m.id].addr, req |-> marks[m.id].msg, res |-> Restored(m)]
  <2>1. TableType' /\ x \in Matched
    BY <1>3, FindType DEF RouteResponse, Matched
  <2>2. Enter(w, "respond", x)
    BY <1>3 DEF RouteResponse
  <2>3. WorkType'
    BY <1>1, <2>1, <2>2, EnterType
  <2>4. m.kind \in {"req", "res"} /\ m.uid \in 1..MaxCall
    BY DEF Message
  <2>5. published' \subseteq [topic : {"report", "report_ack"}, kind : {"req", "res"}, uid : 1..MaxCall]
    BY <1>3, <2>4 DEF RouteResponse, WireType
  <2>6. mistaken' \subseteq 1..MaxCall
    BY <1>3, <2>4 DEF RouteResponse, WireType
  <2> QED
    BY <2>1, <2>3, <2>5, <2>6
<1>4. CASE RouteRequest(w, m)
  <2>1. m.kind \in {"req", "res"} /\ m.uid \in 1..MaxCall
    BY DEF Message
  <2>2. WorkType'
    BY <1>1, <1>4, EnterType DEF RouteRequest
  <2>3. published' \subseteq [topic : {"report", "report_ack"}, kind : {"req", "res"}, uid : 1..MaxCall]
    BY <1>4, <2>1 DEF RouteRequest, WireType
  <2>4. TableType'
    BY <1>4 DEF RouteRequest, mangleVars, TableType
  <2>5. mistaken' \subseteq 1..MaxCall
    BY <1>4 DEF RouteRequest, WireType
  <2> QED
    BY <2>2, <2>3, <2>4, <2>5
<1> QED
  BY <1>2, <1>3, <1>4 DEF Route
-----------------------------------------------------------------------------
LEMMA RequestType ==
    ASSUME RouterAssumption, TypeOK, NEW w \in Workers, Request(w)
    PROVE  TypeOK'
<1>1. PICK id \in Ids, k \in AnyMethod,
           to \in {None} \cup (IF w \in Conns THEN Masks ELSE IF w = Mqtt THEN MqttMasks ELSE {}) :
         LET mask == IF to = None THEN {} ELSE to
         IN  /\ calls' = Append(calls, [by |-> From(w), id |-> id, to |-> mask])
             /\ Route(w, [kind |-> "req", uid |-> Len(calls) + 1, id |-> id,
                          hasTo |-> to # None, to |-> mask, from |-> None, method |-> k])
  BY DEF Request
<1> DEFINE mask == IF to = None THEN {} ELSE to
           m == [kind |-> "req", uid |-> Len(calls) + 1, id |-> id,
                 hasTo |-> to # None, to |-> mask, from |-> None, method |-> k]
<1>2. mask \in SUBSET Addr
  BY DEF RouterAssumption
<1>3. Len(calls) \in Nat /\ Len(calls) + 1 \in 1..MaxCall
  BY DEF Request, TypeOK, WireType, RouterAssumption
<1>4. m \in Message
  BY <1>2, <1>3 DEF Message
<1>5. Reads(w) /\ Route(w, m) /\ UNCHANGED <<localVars, inbox, answers, delivered>>
  BY <1>1 DEF Request
<1>6. From(w) \in Callers
  BY <1>5, FromType DEF TypeOK, Reads
<1> HIDE DEF m
<1>7. /\ WorkType' /\ TableType'
      /\ published' \subseteq [topic : {"report", "report_ack"}, kind : {"req", "res"}, uid : 1..MaxCall]
      /\ mistaken' \subseteq 1..MaxCall
  BY <1>4, <1>5, RouteType DEF TypeOK, localVars
<1>8. calls' \in Seq([by : Callers, id : Ids, to : SUBSET Addr]) /\ Len(calls') <= MaxCall
  <2> HIDE DEF mask
  <2>1. calls' = Append(calls, [by |-> From(w), id |-> id, to |-> mask])
    BY <1>1 DEF mask
  <2>2. [by |-> From(w), id |-> id, to |-> mask] \in [by : Callers, id : Ids, to : SUBSET Addr]
    BY <1>2, <1>6
  <2> QED
    BY <1>3, <2>1, <2>2 DEF TypeOK, WireType
<1> QED
  BY <1>5, <1>7, <1>8 DEF TypeOK, LocalType, WireType, localVars

\* The reply to a message is a message.
LEMMA ReplyToType ==
    ASSUME NEW m \in Message PROVE ReplyTo(m) \in Message
BY DEF ReplyTo, Message

LEMMA ReplyType ==
    ASSUME RouterAssumption, TypeOK, NEW w \in Workers, Reply(w)
    PROVE  TypeOK'
<1>1. PICK x \in inbox[w] : /\ inbox' = [inbox EXCEPT ![w] = @ \ {x}]
                            /\ Route(w, ReplyTo(x.msg))
  BY DEF Reply
<1>2. w \in Endpoints /\ Reads(w) /\ UNCHANGED <<localVars, calls, answers, delivered>>
  BY DEF Reply
<1>3. x.msg \in Message
  BY <1>2 DEF TypeOK, WireType
<1>4. /\ WorkType' /\ TableType'
      /\ published' \subseteq [topic : {"report", "report_ack"}, kind : {"req", "res"}, uid : 1..MaxCall]
      /\ mistaken' \subseteq 1..MaxCall
  BY <1>1, <1>2, <1>3, ReplyToType, RouteType DEF TypeOK, localVars
<1>5. inbox' \in [Endpoints -> SUBSET [msg : Message, copy : Copies]]
  BY <1>1, <1>2 DEF TypeOK, WireType
<1> QED
  BY <1>2, <1>4, <1>5 DEF TypeOK, LocalType, WireType, localVars

\* What is answered keeps the type of answers and of their count.
AnswersType ==
    /\ answers \subseteq [uid : 1..MaxCall, to : Callers, id : Ids \cup 1..MaxMark, by : Workers]
    /\ delivered \in [1..MaxCall -> Nat]

LEMMA AnsweredType ==
    ASSUME WireType, NEW w \in Workers, NEW to \in Callers, NEW m \in Message, Answered(w, to, m)
    PROVE  AnswersType'
BY DEF Answered, Unanswered, AnswersType, WireType, Message

LEMMA ForwardType ==
    ASSUME RouterAssumption, TypeOK, NEW w \in Workers, NEW m \in Message,
           From(w) # None, addr' = addr, Forward(w, m)
    PROVE  WorkType' /\ TableType'
<1>1. From(w) \in Callers
  BY FromType DEF TypeOK
<1>2. CASE m.to = {}
  <2>1. TableType' /\ Swapped(m) \in Message
    BY <1>1, <1>2, MarkType DEF Forward, TypeOK
  <2> QED
    BY <1>2, <2>1, EnterType DEF Forward, TypeOK
<1>3. CASE m.to # {}
  <2>1. TableType'
    BY <1>3 DEF Forward, mangleVars, TypeOK, TableType
  <2> QED
    BY <1>3, <2>1, EnterType DEF Forward, TypeOK
<1> QED
  BY <1>2, <1>3

LEMMA PatchType ==
    ASSUME RouterAssumption, TypeOK, NEW w \in Workers, Patch(w)
    PROVE  TypeOK'
<1>1. item[w] \in Message /\ From(w) # None /\ From(w) \in Callers
  BY FromType DEF Patch, TypeOK, WorkType
<1>2. UNCHANGED <<localVars, calls, inbox, published, mistaken>> /\ addr' = addr
  BY DEF Patch, localVars
<1>3. CASE Forward(w, item[w]) /\ Unanswered
  BY <1>1, <1>2, <1>3, ForwardType DEF TypeOK, LocalType, WireType, Unanswered, localVars
<1>4. ASSUME NEW k \in AnyMethod, Forward(w, [item[w] EXCEPT !.method = k]), Unanswered
      PROVE  TypeOK'
  <2>1. [item[w] EXCEPT !.method = k] \in Message
    BY <1>1 DEF Message
  <2> QED
    <3>1. WorkType' /\ TableType'
      BY <1>1, <1>2, <1>4, <2>1, ForwardType
    <3> QED
      BY <1>2, <1>4, <3>1 DEF TypeOK, LocalType, WireType, Unanswered, localVars
<1>5. CASE Leave(w) /\ Unanswered /\ UNCHANGED mangleVars
  <2>1. WorkType'
    BY <1>1, <1>2, <1>5, EnterType DEF Leave, TypeOK
  <2> QED
    BY <1>2, <1>5, <2>1 DEF TypeOK, LocalType, WireType, TableType, Unanswered, localVars, mangleVars
<1>6. CASE Answered(w, From(w), item[w]) /\ Leave(w) /\ UNCHANGED mangleVars
  <2>1. WorkType'
    BY <1>1, <1>2, <1>6, EnterType DEF Leave, TypeOK
  <2>2. AnswersType'
    BY <1>1, <1>6, AnsweredType DEF TypeOK
  <2> QED
    BY <1>2, <1>6, <2>1, <2>2 DEF TypeOK, LocalType, WireType, TableType, AnswersType, localVars, mangleVars
<1> QED
  BY <1>3, <1>4, <1>5, <1>6 DEF Patch

\* A message goes to endpoints, in copies that fit the lists of methods, and
\* one sent by address to connections that serve one of its addresses.
LEMMA TargetsType ==
    ASSUME RouterAssumption, LocalType, ConnsServed, NEW w \in Workers, NEW m \in Message
    PROVE  /\ Targets(w, m) \subseteq [at : Endpoints, copy : Copies]
           /\ m.to # {} => \A t \in Targets(w, m) : t.at \in Conns /\ addr[t.at] \in m.to
<1>1. \A a : Live(a) => conns[a] \in Conns /\ addr[conns[a]] = a
  BY DEF Live, LocalType, ConnsServed
<1>2. 1 \in Copies /\ Conns \subseteq Endpoints /\ Cloud \in Endpoints
  BY DEF RouterAssumption, Copies, Endpoints
<1>3. CASE m.to # {}
  BY <1>1, <1>2, <1>3 DEF Targets
<1>4. CASE m.to = {} /\ (w \in Conns \/ m.hasTo)
  BY <1>2, <1>4 DEF Targets
<1>5. CASE m.to = {} /\ ~(w \in Conns \/ m.hasTo)
  BY <1>1, <1>2, <1>5 DEF Targets, Places
<1> QED
  BY <1>3, <1>4, <1>5

\* A message without its _to is a message.
LEMMA SentType ==
    ASSUME NEW m \in Message PROVE [m EXCEPT !.hasTo = FALSE, !.to = {}] \in Message
BY DEF Message

LEMMA SendType ==
    ASSUME RouterAssumption, TypeOK, ConnsServed, NEW w \in Workers, Send(w)
    PROVE  TypeOK'
<1> DEFINE m == item[w]
           sent == [m EXCEPT !.hasTo = FALSE, !.to = {}]
           targets == Targets(w, m)
<1>1. m \in Message /\ sent \in Message /\ From(w) # None
  <2>1. m \in Message /\ From(w) # None
    BY DEF Send, TypeOK, WorkType
  <2> QED
    BY <2>1, SentType, Zenon
<1>2. UNCHANGED <<mangleVars, localVars, calls, published, mistaken>> /\ Leave(w)
  BY DEF Send
<1>3. WorkType'
  BY <1>1, <1>2, EnterType DEF Leave, TypeOK, localVars
<1>4. targets \subseteq [at : Endpoints, copy : Copies]
  BY <1>1, TargetsType DEF TypeOK
<1>5. inbox' \in [Endpoints -> SUBSET [msg : Message, copy : Copies]]
  <2>1. CASE m.kind = "req"
    <3>1. inbox' = [e \in Endpoints |-> inbox[e] \cup
                      {[msg |-> sent, copy |-> t.copy] : t \in {u \in targets : u.at = e}}]
      BY <2>1 DEF Send
    <3> HIDE DEF sent, targets
    <3> QED
      BY <1>1, <1>4, <3>1 DEF TypeOK, WireType
  <2>2. CASE m.kind # "req"
    BY <2>2 DEF Send, TypeOK, WireType
  <2> QED
    BY <2>1, <2>2
<1>6. AnswersType'
  <2>1. CASE m.kind = "req"
    BY <2>1 DEF Send, Unanswered, TypeOK, WireType, AnswersType
  <2>2. CASE m.kind # "req"
    <3>1. \A t \in {u \in targets : m.to # {}} : addr[t.at] \in Callers
      BY <1>1, TargetsType DEF TypeOK, Callers, Message
    <3>2. answers' = answers \cup
            {[uid |-> m.uid, to |-> addr[t.at], id |-> m.id, by |-> w] :
               t \in {u \in targets : m.to # {}}}
      BY <2>2 DEF Send
    <3>3. delivered' = delivered \/ delivered' = [delivered EXCEPT ![m.uid] = @ + 1]
      BY <2>2 DEF Send
    <3>4. m.uid \in 1..MaxCall /\ m.id \in Ids \cup 1..MaxMark
      BY <1>1 DEF Message
    <3> HIDE DEF m, targets
    <3>5. answers' \subseteq [uid : 1..MaxCall, to : Callers, id : Ids \cup 1..MaxMark, by : Workers]
      BY <3>1, <3>2, <3>4 DEF TypeOK, WireType
    <3>6. delivered' \in [1..MaxCall -> Nat]
      <4>1. delivered \in [1..MaxCall -> Nat]
        BY DEF TypeOK, WireType
      <4> QED
        BY <3>3, <3>4, <4>1
    <3> QED
      BY <3>5, <3>6 DEF AnswersType
  <2> QED
    BY <2>1, <2>2
<1> QED
  BY <1>2, <1>3, <1>5, <1>6 DEF TypeOK, LocalType, WireType, TableType, AnswersType, localVars, mangleVars

LEMMA RespondType ==
    ASSUME RouterAssumption, TypeOK, NEW w \in Workers, Respond(w)
    PROVE  TypeOK'
<1> DEFINE x == item[w]
<1>1. x \in Matched /\ From(w) # None
  BY DEF Respond, TypeOK, WorkType
<1>2. UNCHANGED <<mangleVars, localVars, calls, inbox, published, mistaken>> /\ Leave(w)
  BY DEF Respond
<1>3. WorkType'
  BY <1>1, <1>2, EnterType DEF Leave, TypeOK, localVars
<1>4. x.res \in Message /\ x.req \in Message /\ x.to \in Callers
  BY <1>1 DEF Matched
<1>5. AnswersType'
  <2>1. CASE Answered(w, x.to, x.res)
    BY <1>4, <2>1, AnsweredType DEF TypeOK
  <2>2. CASE Answered(w, x.to, [x.res EXCEPT !.id = x.req.id])
    <3>1. [x.res EXCEPT !.id = x.req.id] \in Message
      BY <1>4 DEF Message
    <3> QED
      BY <1>4, <2>2, <3>1, AnsweredType DEF TypeOK
  <2>3. CASE Unanswered
    BY <2>3 DEF Unanswered, TypeOK, WireType, AnswersType
  <2> QED
    BY <2>1, <2>2, <2>3 DEF Respond
<1> QED
  BY <1>2, <1>3, <1>5 DEF TypeOK, LocalType, WireType, TableType, AnswersType, localVars, mangleVars

\* The connections' own steps: what they leave alone, and the local type.
LEMMA LocalStepType ==
    ASSUME RouterAssumption, TypeOK,
           \/ \E c \in Conns : LocalConn(c)
           \/ \E e \in Endpoints : Hangup(e)
           \/ CloudDial \/ CloudLost
    PROVE  TypeOK' /\ UNCHANGED <<mangleVars, workVars, wireVars>>
<1>1. Conns \subseteq Endpoints /\ Cloud \in Endpoints /\ None \notin Addr
  BY DEF Endpoints, RouterAssumption, Callers
<1>2. ASSUME NEW c \in Conns, Accept(c)
      PROVE  LocalType' /\ addr' = addr /\ UNCHANGED <<mangleVars, workVars, wireVars>>
  BY <1>1, <1>2 DEF Accept, TypeOK, LocalType
<1>3. ASSUME NEW c \in Conns, Close(c)
      PROVE  LocalType' /\ addr' = addr /\ UNCHANGED <<mangleVars, workVars, wireVars>>
  BY <1>1, <1>3 DEF Close, TypeOK, LocalType, Restrict
<1>4. ASSUME NEW c \in Conns, NEW k \in Methods, Register(c, k)
      PROVE  LocalType' /\ addr' = addr /\ UNCHANGED <<mangleVars, workVars, wireVars>>
  <2>1. addr[c] \in Addr
    BY <1>4 DEF Register, Reads, From, TypeOK, LocalType
  <2>2. methods' \in [Methods -> Seq(Addr)]
    BY <1>4, <2>1 DEF Register, TypeOK, LocalType
  <2> QED
    BY <1>4, <2>2 DEF Register, TypeOK, LocalType
<1>5. ASSUME NEW e \in Endpoints, Hangup(e)
      PROVE  LocalType' /\ addr' = addr /\ UNCHANGED <<mangleVars, workVars, wireVars>>
  BY <1>5 DEF Hangup, TypeOK, LocalType
<1>6. CASE CloudDial \/ CloudLost
  <2>1. LocalType' /\ addr' = addr /\ UNCHANGED <<mangleVars, workVars, wireVars>>
    BY <1>1, <1>6 DEF CloudDial, CloudLost, TypeOK, LocalType
  <2> QED
    BY <2>1 DEF TypeOK, WorkType, WireType, TableType, From, mangleVars, workVars, wireVars, historyVars
<1>7. ASSUME NEW c \in Conns, NEW a \in Addr, Bind(c, a)
      PROVE  TypeOK' /\ UNCHANGED <<mangleVars, workVars, wireVars>>
  <2>1. LocalType' /\ UNCHANGED <<mangleVars, workVars, wireVars>>
    BY <1>1, <1>7 DEF Bind, TypeOK, LocalType
  <2>2. \A w \in Workers : From(w) # None => From(w)' # None
    BY <1>1, <1>7 DEF Bind, From, TypeOK, LocalType
  <2>3. WorkType'
    BY <2>1, <2>2 DEF TypeOK, WorkType, workVars
  <2> QED
    BY <2>1, <2>3 DEF TypeOK, WireType, TableType, mangleVars, workVars, wireVars, historyVars
<1>8. ASSUME LocalType', addr' = addr, UNCHANGED <<mangleVars, workVars, wireVars>>
      PROVE  TypeOK'
  BY <1>8 DEF TypeOK, WorkType, WireType, TableType, From, mangleVars, workVars, wireVars, historyVars
<1> QED
  BY <1>2, <1>3, <1>4, <1>5, <1>6, <1>7, <1>8 DEF LocalConn

LEMMA SweepType ==
    ASSUME RouterAssumption, TypeOK, MarksWorker
    PROVE  TypeOK'
<1>1. TableType'
  BY DEF MarksWorker, Sweep, Restrict, TypeOK, TableType
<1> QED
  BY <1>1 DEF MarksWorker, TypeOK, LocalType, WorkType, WireType, From, localVars, workVars, wireVars, historyVars

\* Registered connections stay with goroutines that serve them: a close removes
\* the address, a bind replaces it, and nobody else writes conns.
LEMMA ConnsServedStep ==
    ASSUME RouterAssumption, TypeOK, ConnsServed, [Next]_vars
    PROVE  ConnsServed'
<1>1. Conns \subseteq Endpoints /\ Cloud \in Endpoints /\ Cloud \notin Conns /\ None \notin Addr
  BY DEF Endpoints, RouterAssumption, Callers
<1>2. CASE UNCHANGED localVars
  BY <1>2 DEF ConnsServed, localVars
<1>3. ASSUME NEW c \in Conns, Accept(c)
      PROVE  ConnsServed'
  BY <1>1, <1>3 DEF Accept, ConnsServed, TypeOK, LocalType
<1>4. ASSUME NEW c \in Conns, Close(c)
      PROVE  ConnsServed'
  BY <1>1, <1>4 DEF Close, ConnsServed, TypeOK, LocalType, Restrict
<1>5. ASSUME NEW c \in Conns, NEW a \in Addr, Bind(c, a)
      PROVE  ConnsServed'
  BY <1>1, <1>5 DEF Bind, ConnsServed, TypeOK, LocalType
<1>6. ASSUME NEW e \in Endpoints, Hangup(e)
      PROVE  ConnsServed'
  BY <1>6 DEF Hangup, ConnsServed, TypeOK, LocalType
<1>7. CASE CloudDial \/ CloudLost
  BY <1>1, <1>7 DEF CloudDial, CloudLost, ConnsServed, TypeOK, LocalType
<1>8. ASSUME NEW c \in Conns, NEW k \in Methods, Register(c, k)
      PROVE  ConnsServed'
  BY <1>8 DEF Register, ConnsServed
<1>9. ASSUME NEW w \in Workers, Worker(w)
      PROVE  UNCHANGED localVars
  BY <1>9 DEF Worker, Request, Reply, Patch, Send, Respond
<1>10. CASE MarksWorker
  BY <1>2, <1>10 DEF MarksWorker
<1> QED
  BY <1>2, <1>3, <1>4, <1>5, <1>6, <1>7, <1>8, <1>9, <1>10 DEF Next, LocalConn, vars

LEMMA TypeStep ==
    ASSUME RouterAssumption, TypeOK, ConnsServed, [Next]_vars
    PROVE  TypeOK'
<1>1. ASSUME NEW w \in Workers, Worker(w)
      PROVE  TypeOK'
  BY <1>1, RequestType, ReplyType, PatchType, SendType, RespondType DEF Worker
<1>2. CASE UNCHANGED vars
  BY <1>2 DEF TypeOK, LocalType, WorkType, WireType, TableType, From,
              vars, mangleVars, localVars, workVars, wireVars, historyVars
<1> QED
  BY <1>1, <1>2, LocalStepType, SweepType DEF Next

LEMMA InitType ==
    ASSUME RouterAssumption, Init
    PROVE  TypeOK /\ ConnsServed
BY DEF Init, MangleInit, TypeOK, LocalType, WorkType, WireType, TableType, ConnsServed,
       RouterAssumption, Callers

\* Type correctness of the router, and no connection is written to that its
\* goroutine gave up (local.go:36-129).
THEOREM RouterType == Spec => [](TypeOK /\ ConnsServed)
<1>1. Init => TypeOK /\ ConnsServed
  BY InitType, RouterAssumption
<1>2. TypeOK /\ ConnsServed /\ [Next]_vars => (TypeOK /\ ConnsServed)'
  BY TypeStep, ConnsServedStep, RouterAssumption
<1> QED
  BY <1>1, <1>2, PTL DEF Spec
-----------------------------------------------------------------------------
(***************************************************************************)
(* Every response goes home.                                               *)
(***************************************************************************)

\* What no step undoes: calls stay, and stay mistaken, outstanding marks stay what
\* they are, and a bound connection keeps its address.
CallsGrow ==
    /\ \A u \in DOMAIN calls : u \in DOMAIN calls' /\ calls'[u] = calls[u]
    /\ mistaken \subseteq mistaken'

MarksKept ==
    /\ markID \in Nat /\ markID' \in Nat /\ markID <= markID'
    /\ \A n \in DOMAIN marks' : n \in 1..markID => n \in DOMAIN marks /\ marks'[n] = marks[n]

FromKept == \A w \in Workers : From(w) # None => From(w)' = From(w)

LEMMA MangleKeeps ==
    ASSUME RouterAssumption, TableType,
           \/ UNCHANGED mangleVars
           \/ Sweep
           \/ \E m, a : MarkMessage(m, a)
           \/ \E m : FindMessage(m)
    PROVE  MarksKept
<1>1. markID \in Nat /\ DOMAIN marks \subseteq 1..markID
  BY DEF TableType, RouterAssumption
<1>2. CASE UNCHANGED mangleVars
  BY <1>1, <1>2 DEF mangleVars, MarksKept
<1>3. CASE Sweep
  BY <1>1, <1>3 DEF Sweep, MarksKept, Restrict
<1>4. ASSUME NEW m, NEW a, MarkMessage(m, a)
      PROVE  MarksKept
  BY <1>1, <1>4 DEF MarkMessage, MarksKept
<1>5. ASSUME NEW m, FindMessage(m)
      PROVE  MarksKept
  BY <1>1, <1>5 DEF FindMessage, MarksKept, Restrict
<1> QED
  BY <1>2, <1>3, <1>4, <1>5

LEMMA RouteKeeps ==
    ASSUME NEW w, NEW m, Route(w, m)
    PROVE  (UNCHANGED mangleVars \/ \E n : FindMessage(n)) /\ mistaken \subseteq mistaken'
BY DEF Route, RouteToApps, RouteResponse, RouteRequest

LEMMA StepKeeps ==
    ASSUME RouterAssumption, TypeOK, [Next]_vars
    PROVE  CallsGrow /\ MarksKept /\ FromKept
<1>1. CASE UNCHANGED <<mangleVars, localVars, calls, mistaken>>
  BY <1>1, MangleKeeps DEF TypeOK, CallsGrow, FromKept, From, localVars
<1>2. ASSUME NEW w \in Workers, Request(w)
      PROVE  CallsGrow /\ MarksKept /\ FromKept
  <2>1. \E x : calls' = Append(calls, x)
    BY <1>2 DEF Request
  <2>2. (UNCHANGED mangleVars \/ \E n : FindMessage(n)) /\ mistaken \subseteq mistaken'
    BY <1>2, RouteKeeps DEF Request
  <2>3. CallsGrow
    BY <2>1, <2>2 DEF CallsGrow, TypeOK, WireType
  <2> QED
    BY <1>2, <2>2, <2>3, MangleKeeps DEF Request, TypeOK, FromKept, From, localVars
<1>3. ASSUME NEW w \in Workers, Reply(w)
      PROVE  CallsGrow /\ MarksKept /\ FromKept
  <2>1. (UNCHANGED mangleVars \/ \E n : FindMessage(n)) /\ mistaken \subseteq mistaken'
    BY <1>3, RouteKeeps DEF Reply
  <2> QED
    BY <1>3, <2>1, MangleKeeps DEF Reply, TypeOK, CallsGrow, FromKept, From, localVars
<1>4. ASSUME NEW w \in Workers, Patch(w)
      PROVE  CallsGrow /\ MarksKept /\ FromKept
  <2>1. UNCHANGED mangleVars \/ \E m, a : MarkMessage(m, a)
    BY <1>4 DEF Patch, Forward
  <2> QED
    BY <1>4, <2>1, MangleKeeps DEF Patch, TypeOK, CallsGrow, FromKept, From, localVars
<1>5. ASSUME NEW w \in Workers, Send(w) \/ Respond(w)
      PROVE  UNCHANGED <<mangleVars, localVars, calls, mistaken>>
  BY <1>5 DEF Send, Respond
<1>6. CASE MarksWorker
  BY <1>6, MangleKeeps DEF MarksWorker, TypeOK, CallsGrow, FromKept, From, localVars, wireVars, historyVars
<1>7. CASE \/ \E c \in Conns : LocalConn(c)
           \/ \E e \in Endpoints : Hangup(e)
           \/ CloudDial \/ CloudLost
  <2>1. UNCHANGED <<mangleVars, wireVars>>
    BY <1>7, LocalStepType
  <2>2. FromKept
    <3>1. ASSUME NEW c \in Conns, NEW a \in Addr, Bind(c, a)
          PROVE  FromKept
      BY <3>1 DEF Bind, FromKept, From, TypeOK, LocalType
    <3>2. CASE UNCHANGED addr
      BY <3>2 DEF FromKept, From
    <3> QED
      BY <1>7, <3>1, <3>2 DEF LocalConn, Accept, Close, Register, Hangup, CloudDial, CloudLost
  <2> QED
    BY <2>1, <2>2, MangleKeeps DEF TypeOK, CallsGrow, wireVars, historyVars
<1>8. CASE UNCHANGED vars
  BY <1>1, <1>8 DEF vars, wireVars, historyVars
<1> QED
  BY <1>1, <1>2, <1>3, <1>4, <1>5, <1>6, <1>7, <1>8 DEF Next, Worker

\* So what links a message to its call survives every step.
LEMMA LinksKept ==
    ASSUME CallsGrow, MarksKept, NEW m
    PROVE  /\ OriginalId(m) => OriginalId(m)' /\ calls'[m.uid] = calls[m.uid]
           /\ SwappedId(m) => SwappedId(m)'
           /\ SentToApps(m) => SentToApps(m)'
           /\ ReplyToCaller(m) => ReplyToCaller(m)'
BY DEF CallsGrow, MarksKept, OriginalId, SwappedId, SentToApps, ReplyToCaller

\* A goroutine that does not move keeps its links.
LEMMA ItemKept ==
    ASSUME CallsGrow, MarksKept, FromKept, WorkType, NEW v \in Workers, ItemLinked(v),
           pc'[v] = pc[v], item'[v] = item[v]
    PROVE  ItemLinked(v)'
<1>1. pc[v] # "idle" => From(v)' = From(v)
  BY DEF WorkType, FromKept
<1>2. PatchLinked(v)'
  BY <1>1, LinksKept DEF ItemLinked, PatchLinked, OriginalId
<1>3. SendLinked(v)'
  BY LinksKept DEF ItemLinked, SendLinked
<1>4. RespondLinked(v)'
  BY LinksKept DEF ItemLinked, RespondLinked, OriginalId, CallsGrow
<1> QED
  BY <1>2, <1>3, <1>4 DEF ItemLinked

\* One goroutine moves: only its own links have to be shown again.
LEMMA EnterLinked ==
    ASSUME CallsGrow, MarksKept, FromKept, WorkType, \A v \in Workers : ItemLinked(v),
           NEW w \in Workers, NEW label, NEW x, Enter(w, label, x), ItemLinked(w)'
    PROVE  \A v \in Workers : ItemLinked(v)'
<1>1. ASSUME NEW v \in Workers, v # w
      PROVE  pc'[v] = pc[v] /\ item'[v] = item[v]
  BY <1>1 DEF Enter, WorkType
<1> QED
  BY <1>1, ItemKept

LEMMA LeaveLinked ==
    ASSUME CallsGrow, MarksKept, FromKept, WorkType, \A v \in Workers : ItemLinked(v),
           NEW w \in Workers, Leave(w)
    PROVE  \A v \in Workers : ItemLinked(v)'
<1>1. pc'[w] = "idle"
  BY DEF Leave, Enter, WorkType
<1>2. ItemLinked(w)'
  BY <1>1 DEF ItemLinked, PatchLinked, SendLinked, RespondLinked
<1> QED
  BY <1>2, EnterLinked DEF Leave

LEMMA InboxKept ==
    ASSUME CallsGrow, MarksKept, InboxLinked, \A e \in Endpoints : inbox'[e] \subseteq inbox[e]
    PROVE  InboxLinked'
BY LinksKept DEF InboxLinked

\* An answer that is linked to its call.
TrueAnswer(r) ==
    /\ r.uid \in DOMAIN calls
    /\ r.uid \notin mistaken =>
         /\ r.to = calls[r.uid].by
         /\ "replace" \notin May => r.id = calls[r.uid].id

AnswersLinked == AnswersGoHome /\ ("replace" \notin May => TrueIds)

LEMMA AnswersGrow ==
    ASSUME CallsGrow, AnswersLinked, \A r \in answers' : r \in answers \/ TrueAnswer(r)'
    PROVE  AnswersLinked'
BY DEF CallsGrow, AnswersLinked, AnswersGoHome, TrueIds, TrueAnswer

\* What may be read: a request as its caller made it, or a reply to one that
\* was delivered by address ...
ReadsOriginal(w, m) ==
    /\ OriginalId(m) /\ OwnId(m)
    /\ m.kind = "req" => calls[m.uid].by = From(w) /\ m.from = None
    /\ m.kind = "res" /\ m.to # {} => ReplyToCaller(m)

\* ... or a reply to one that was delivered under a swapped id.
ReadsSwapped(m) == ~OwnId(m) /\ m.kind = "res" /\ m.to = {} /\ SwappedId(m)

\* What was mistaken had an id of the agent, and so has what is mistaken now.
LEMMA MistakenKept ==
    ASSUME MistakenIds, CallsGrow, MarksKept,
           \A u \in mistaken' : u \in mistaken \/ (u \in DOMAIN calls' /\ calls'[u].id \in 1..markID)
    PROVE  MistakenIds'
BY DEF MistakenIds, CallsGrow, MarksKept

\* Routing links the message the goroutine goes on with, or notes that it was
\* mistaken: this is where an id of a caller may be one of the agent's.
LEMMA RouteLinked ==
    ASSUME RouterAssumption, TypeOK, CallsGrow, MarksKept, FromKept, MistakenIds,
           \A v \in Workers : ItemLinked(v),
           NEW w \in Workers, Reads(w), NEW m \in Message, Route(w, m),
           ReadsOriginal(w, m)' \/ ReadsSwapped(m)
    PROVE  (\A v \in Workers : ItemLinked(v)') /\ MistakenIds'
<1>1. From(w) # None /\ From(w)' = From(w) /\ WorkType /\ w \in DOMAIN pc /\ w \in DOMAIN item
  BY DEF Reads, TypeOK, FromKept, WorkType
<1>2. m.kind \in {"req", "res"}
  BY DEF Message
<1>3. ASSUME UNCHANGED mistaken PROVE MistakenIds'
  BY <1>3, MistakenKept
<1>4. CASE RouteToApps(w, m)
  <2>1. m.to # {} /\ ReadsOriginal(w, m)' /\ MistakenIds'
    BY <1>3, <1>4 DEF RouteToApps, ReadsSwapped
  <2> DEFINE x == [m EXCEPT !.from = From(w)]
  <2>2. CASE Enter(w, "patch", x)
    <3>1. x.kind = m.kind /\ x.uid = m.uid /\ x.id = m.id /\ x.to = m.to /\ x.from = From(w)
      BY DEF Message
    <3>2. pc'[w] = "patch" /\ item'[w] = x
      BY <1>1, <2>2 DEF Enter
    <3> HIDE DEF x
    <3>3. ItemLinked(w)'
      BY <1>1, <1>2, <2>1, <3>1, <3>2
         DEF ItemLinked, PatchLinked, SendLinked, RespondLinked, ReadsOriginal, OriginalId, ReplyToCaller
    <3> QED
      BY <1>1, <2>1, <2>2, <3>3, EnterLinked
  <2>3. CASE UNCHANGED workVars
    BY <1>1, <2>1, <2>3, ItemKept DEF workVars
  <2> QED
    BY <1>4, <2>2, <2>3 DEF RouteToApps
<1>5. CASE RouteResponse(w, m)
  <2>1. m.id \in DOMAIN marks /\ m.id \in 1..markID
    BY <1>5 DEF RouteResponse, Marked, TypeOK, TableType
  <2>2. PICK x : x = [to |-> marks[m.id].addr, req |-> marks[m.id].msg, res |-> Restored(m)]
    OBVIOUS
  <2>3. x.res.uid = m.uid /\ x.res.id = marks[m.id].id /\ x.to = marks[m.id].addr
    BY <2>2 DEF Restored, Message
  <2>4. Enter(w, "respond", x)
    BY <1>5, <2>2 DEF RouteResponse
  <2>5. pc'[w] = "respond" /\ item'[w] = x
    BY <1>1, <2>4 DEF Enter
  <2>6. CASE ReadsOriginal(w, m)'
    <3>1. OwnId(m) /\ m.uid \in DOMAIN calls' /\ calls'[m.uid].id = m.id
      BY <2>6 DEF ReadsOriginal, OriginalId, OwnId
    <3>2. mistaken' = mistaken \cup {m.uid}
      BY <1>5, <3>1 DEF RouteResponse
    <3>3. MistakenIds'
      BY <2>1, <3>1, <3>2, MistakenKept
    <3>4. ItemLinked(w)'
      BY <2>3, <2>5, <3>1, <3>2 DEF ItemLinked, PatchLinked, SendLinked, RespondLinked
    <3> QED
      BY <1>1, <2>4, <3>3, <3>4, EnterLinked
  <2>7. CASE ReadsSwapped(m)
    <3>1. UNCHANGED mistaken
      BY <1>5, <2>7 DEF RouteResponse, ReadsSwapped
    <3>2. /\ x.res.uid \in DOMAIN calls /\ x.res.id = calls[x.res.uid].id
          /\ x.to = calls[x.res.uid].by
      BY <2>1, <2>3, <2>7 DEF ReadsSwapped, SwappedId
    <3>3. ItemLinked(w)'
      BY <2>5, <3>2 DEF ItemLinked, PatchLinked, SendLinked, RespondLinked, OriginalId, CallsGrow
    <3> QED
      BY <1>1, <1>3, <2>4, <3>1, <3>3, EnterLinked
  <2> QED
    BY <2>6, <2>7
<1>6. CASE RouteRequest(w, m)
  <2>1. m.to = {} /\ Enter(w, "patch", m) /\ MistakenIds'
    BY <1>3, <1>6 DEF RouteRequest
  <2>2. pc'[w] = "patch" /\ item'[w] = m
    BY <1>1, <2>1 DEF Enter
  <2>3. ItemLinked(w)'
    BY <2>1, <2>2
       DEF ItemLinked, PatchLinked, SendLinked, RespondLinked, ReadsOriginal, ReadsSwapped
  <2> QED
    BY <1>1, <2>1, <2>3, EnterLinked
<1> QED
  BY <1>4, <1>5, <1>6 DEF Route

LEMMA CallsType ==
    ASSUME WireType, NEW u \in DOMAIN calls
    PROVE  calls[u].id \in Ids /\ calls[u].by \in Callers
<1> DEFINE Call == [by : Callers, id : Ids, to : SUBSET Addr]
<1>1. calls \in Seq(Call)
  BY DEF WireType
<1>2. calls[u] \in Call
  <2> HIDE DEF Call
  <2> QED
    BY <1>1
<1> QED
  BY <1>2

LEMMA RequestLinked ==
    ASSUME RouterAssumption, TypeOK, Linked, CallsGrow, MarksKept, FromKept,
           NEW w \in Workers, Request(w)
    PROVE  Linked'
<1>1. PICK id \in Ids, k \in AnyMethod,
           to \in {None} \cup (IF w \in Conns THEN Masks ELSE IF w = Mqtt THEN MqttMasks ELSE {}) :
         LET mask == IF to = None THEN {} ELSE to
         IN  /\ calls' = Append(calls, [by |-> From(w), id |-> id, to |-> mask])
             /\ Route(w, [kind |-> "req", uid |-> Len(calls) + 1, id |-> id,
                          hasTo |-> to # None, to |-> mask, from |-> None, method |-> k])
  BY DEF Request
<1> DEFINE mask == IF to = None THEN {} ELSE to
<1>2. PICK m : m = [kind |-> "req", uid |-> Len(calls) + 1, id |-> id,
                     hasTo |-> to # None, to |-> mask, from |-> None, method |-> k]
  OBVIOUS
<1>3. Reads(w) /\ Route(w, m) /\ UNCHANGED <<localVars, inbox, answers>>
  BY <1>1, <1>2 DEF Request
<1>4. mask \in SUBSET Addr
  BY DEF RouterAssumption
<1>5. Len(calls) \in Nat /\ Len(calls) + 1 \in 1..MaxCall
  BY DEF Request, TypeOK, WireType, RouterAssumption
<1>6. m \in Message
  BY <1>4, <1>5, <1>2 DEF Message
<1>7. m.uid \in DOMAIN calls' /\ calls'[m.uid] = [by |-> From(w), id |-> id, to |-> mask]
  <2> HIDE DEF mask
  <2>1. calls' = Append(calls, [by |-> From(w), id |-> id, to |-> mask])
    BY <1>1 DEF mask
  <2> QED
    BY <1>5, <1>2, <2>1 DEF TypeOK, WireType
<1>8. From(w)' = From(w)
  BY <1>3 DEF Reads, FromKept
<1>9. ReadsOriginal(w, m)'
  BY <1>7, <1>8, <1>2 DEF ReadsOriginal, OriginalId, OwnId
<1>10. (\A v \in Workers : ItemLinked(v)') /\ MistakenIds'
  BY <1>3, <1>6, <1>9, RouteLinked DEF Linked
<1>11. InboxLinked'
  BY <1>3, InboxKept DEF Linked
<1>12. AnswersLinked'
  BY <1>3, AnswersGrow DEF Linked, AnswersLinked
<1> QED
  BY <1>10, <1>11, <1>12 DEF Linked, AnswersLinked

LEMMA ReplyLinked ==
    ASSUME RouterAssumption, TypeOK, Linked, CallsGrow, MarksKept, FromKept,
           NEW w \in Workers, Reply(w)
    PROVE  Linked'
<1>1. PICK x \in inbox[w] : /\ inbox' = [inbox EXCEPT ![w] = @ \ {x}]
                            /\ Route(w, ReplyTo(x.msg))
  BY DEF Reply
<1>2. w \in Endpoints /\ Reads(w) /\ UNCHANGED <<localVars, calls, answers>>
  BY DEF Reply
<1> DEFINE m == ReplyTo(x.msg)
<1>3. x.msg \in Message /\ m \in Message
  BY <1>2, ReplyToType DEF TypeOK, WireType
<1>4. /\ m.kind = "res" /\ m.uid = x.msg.uid /\ m.id = x.msg.id
      /\ m.to = {x.msg.from} \cap Addr /\ m.hasTo = (x.msg.from # None)
  BY <1>3 DEF ReplyTo, Message
<1>5. IF x.msg.from = None THEN SwappedId(x.msg) ELSE SentToApps(x.msg)
  BY <1>2 DEF Linked, InboxLinked
<1> HIDE DEF m
<1>6. ASSUME x.msg.from = None PROVE ReadsSwapped(m)
  <2>1. m.to = {}
    BY <1>4, <1>6 DEF RouterAssumption, Callers
  <2> QED
    BY <1>4, <1>5, <1>6, <2>1 DEF ReadsSwapped, SwappedId, OwnId
<1>7. ASSUME x.msg.from # None PROVE ReadsOriginal(w, m)'
  <2>1. OriginalId(m) /\ x.msg.from = calls[m.uid].by
    BY <1>4, <1>5, <1>7 DEF SentToApps, OriginalId
  <2>2. OwnId(m)
    BY <1>4, <1>7 DEF OwnId
  <2>3. m.to # {} => ReplyToCaller(m)
    BY <1>4, <2>1 DEF ReplyToCaller
  <2> QED
    BY <1>2, <1>4, <2>1, <2>2, <2>3, LinksKept DEF ReadsOriginal, OwnId
<1>8. ReadsOriginal(w, m)' \/ ReadsSwapped(m)
  BY <1>6, <1>7
<1>9. (\A v \in Workers : ItemLinked(v)') /\ MistakenIds'
  BY <1>1, <1>2, <1>3, <1>8, RouteLinked DEF Linked, m
<1>10. InboxLinked'
  BY <1>1, <1>2, InboxKept DEF Linked, TypeOK, WireType
<1>11. AnswersLinked'
  BY <1>2, AnswersGrow DEF Linked, AnswersLinked
<1> QED
  BY <1>9, <1>10, <1>11 DEF Linked, AnswersLinked

\* Marking a message under a fresh id links it; a message for apps goes as it is.
LEMMA ForwardLinked ==
    ASSUME RouterAssumption, TypeOK, CallsGrow, MarksKept, FromKept,
           \A v \in Workers : ItemLinked(v), UNCHANGED calls,
           NEW w \in Workers, pc[w] = "patch", NEW m \in Message, Forward(w, m),
           m.kind = item[w].kind, m.uid = item[w].uid, m.id = item[w].id,
           m.to = item[w].to, m.from = item[w].from
    PROVE  \A v \in Workers : ItemLinked(v)'
<1>1. WorkType /\ w \in DOMAIN pc /\ w \in DOMAIN item /\ From(w) # None
  BY DEF TypeOK, WorkType
<1>2. PatchLinked(w)
  BY DEF ItemLinked
<1>3. CASE m.to = {}
  <2>1. PICK x : x = Swapped(m)
    OBVIOUS
  <2>2. Enter(w, "send", x) /\ MarkMessage(m, From(w))
    BY <1>3, <2>1 DEF Forward
  <2>3. pc'[w] = "send" /\ item'[w] = x
    BY <1>1, <2>2 DEF Enter
  <2>4. /\ x.kind = m.kind /\ x.to = m.to /\ x.from = m.from
        /\ x.uid = m.uid /\ x.id = markID + 1
    BY <2>1 DEF Swapped, Message
  <2>5. markID \in Nat /\ markID' = markID + 1 /\ markID + 1 \notin DOMAIN marks
    BY <2>2 DEF MarkMessage, TypeOK, TableType, RouterAssumption
  <2>6. /\ markID + 1 \in DOMAIN marks'
        /\ marks'[markID + 1] = [msg |-> x, addr |-> From(w), id |-> m.id]
    BY <2>1, <2>2, <2>5 DEF MarkMessage
  <2>7. ASSUME m.kind = "req"
        PROVE  x.from = None /\ SwappedId(x)'
    <3>1. /\ m.uid \in DOMAIN calls /\ m.id = calls[m.uid].id
          /\ calls[m.uid].by = From(w) /\ m.from = None
      BY <1>2, <1>3, <2>7 DEF PatchLinked, OriginalId
    <3> QED
      BY <2>4, <2>5, <2>6, <3>1 DEF SwappedId
  <2>8. ItemLinked(w)'
    BY <1>3, <2>3, <2>4, <2>7 DEF ItemLinked, PatchLinked, SendLinked, RespondLinked
  <2> QED
    BY <1>1, <2>2, <2>8, EnterLinked
<1>4. CASE m.to # {}
  <2>1. Enter(w, "send", m)
    BY <1>4 DEF Forward
  <2>2. pc'[w] = "send" /\ item'[w] = m
    BY <1>1, <2>1 DEF Enter
  <2>3. m.kind = "req" => SentToApps(m)
    BY <1>2, <1>4 DEF PatchLinked, SentToApps, OriginalId
  <2>4. m.kind # "req" => ReplyToCaller(m)
    BY <1>2, <1>4 DEF PatchLinked, ReplyToCaller, OriginalId
  <2>5. ItemLinked(w)'
    BY <1>4, <2>2, <2>3, <2>4, LinksKept DEF ItemLinked, PatchLinked, SendLinked, RespondLinked
  <2> QED
    BY <1>1, <2>1, <2>5, EnterLinked
<1> QED
  BY <1>3, <1>4

\* An answer that carries the id and address of its call adds a true answer.
LEMMA AnsweredLinked ==
    ASSUME CallsGrow, UNCHANGED calls, AnswersLinked, NEW w, NEW to, NEW m, Answered(w, to, m),
           m.uid \in DOMAIN calls,
           m.uid \notin mistaken =>
              to = calls[m.uid].by /\ ("replace" \notin May => m.id = calls[m.uid].id)
    PROVE  AnswersLinked'
<1>1. \A r \in answers' : r \in answers \/ TrueAnswer(r)'
  BY DEF Answered, Unanswered, TrueAnswer, CallsGrow
<1> QED
  BY <1>1, AnswersGrow

LEMMA PatchStepLinked ==
    ASSUME RouterAssumption, TypeOK, Linked, CallsGrow, MarksKept, FromKept,
           NEW w \in Workers, Patch(w)
    PROVE  Linked'
<1>1. /\ item[w] \in Message /\ pc[w] = "patch" /\ WorkType
      /\ UNCHANGED calls /\ UNCHANGED inbox /\ AnswersLinked
      /\ UNCHANGED mistaken
  BY DEF Patch, TypeOK, WorkType, Linked, AnswersLinked
<1>2. InboxLinked' /\ MistakenIds'
  BY <1>1, InboxKept, MistakenKept DEF Linked
<1>3. CASE Forward(w, item[w]) /\ UNCHANGED answers
  <2>1. \A v \in Workers : ItemLinked(v)'
    BY <1>1, <1>3, ForwardLinked DEF Linked
  <2> QED
    BY <1>1, <1>2, <1>3, <2>1, AnswersGrow DEF Linked, AnswersLinked
<1>4. ASSUME NEW k \in AnyMethod, Forward(w, [item[w] EXCEPT !.method = k]), UNCHANGED answers
      PROVE  Linked'
  <2>1. PICK m : m = [item[w] EXCEPT !.method = k]
    OBVIOUS
  <2>2. /\ m \in Message /\ m.kind = item[w].kind /\ m.uid = item[w].uid /\ m.id = item[w].id
        /\ m.to = item[w].to /\ m.from = item[w].from
    BY <1>1, <2>1 DEF Message
  <2>3. \A v \in Workers : ItemLinked(v)'
    BY <1>1, <1>4, <2>1, <2>2, ForwardLinked DEF Linked
  <2> QED
    BY <1>1, <1>2, <1>4, <2>3, AnswersGrow DEF Linked, AnswersLinked
<1>5. CASE Leave(w) /\ UNCHANGED <<answers, mangleVars>>
  <2>1. \A v \in Workers : ItemLinked(v)'
    BY <1>1, <1>5, LeaveLinked DEF Linked
  <2> QED
    BY <1>1, <1>2, <1>5, <2>1, AnswersGrow DEF Linked, AnswersLinked
<1>6. CASE item[w].kind = "req" /\ Answered(w, From(w), item[w]) /\ Leave(w)
  <2>1. \A v \in Workers : ItemLinked(v)'
    BY <1>1, <1>6, LeaveLinked DEF Linked
  <2>2. OriginalId(item[w]) /\ calls[item[w].uid].by = From(w)
    BY <1>1, <1>6 DEF Linked, ItemLinked, PatchLinked
  <2>3. AnswersLinked'
    BY <1>1, <1>6, <2>2, AnsweredLinked DEF OriginalId
  <2> QED
    BY <1>2, <2>1, <2>3 DEF Linked, AnswersLinked
<1> QED
  BY <1>3, <1>4, <1>5, <1>6 DEF Patch, Unanswered

LEMMA SendStepLinked ==
    ASSUME RouterAssumption, TypeOK, ConnsServed, Linked, CallsGrow, MarksKept, FromKept,
           NEW w \in Workers, Send(w)
    PROVE  Linked'
<1>1. /\ item[w] \in Message /\ pc[w] = "send" /\ WorkType /\ Leave(w)
      /\ UNCHANGED calls /\ AnswersLinked /\ UNCHANGED mangleVars
      /\ UNCHANGED mistaken
  BY DEF Send, TypeOK, WorkType, Linked, AnswersLinked
<1>2. (\A v \in Workers : ItemLinked(v)') /\ MistakenIds'
  BY <1>1, LeaveLinked, MistakenKept DEF Linked
<1>3. PICK m : m = item[w]
  OBVIOUS
<1>4. m \in Message /\ SendLinked(w)
  BY <1>1, <1>3 DEF Linked, ItemLinked
<1>5. CASE m.kind = "req"
  <2>1. PICK sent : sent = [m EXCEPT !.hasTo = FALSE, !.to = {}]
    OBVIOUS
  <2>2. sent.kind = "req" /\ sent.uid = m.uid /\ sent.id = m.id /\ sent.from = m.from
    BY <1>4, <1>5, <2>1 DEF Message
  <2>3. IF sent.from = None THEN SwappedId(sent) ELSE SentToApps(sent)
    <3>1. CASE m.to = {}
      BY <1>1, <1>3, <1>4, <1>5, <2>2, <3>1 DEF SendLinked, SwappedId
    <3>2. CASE m.to # {}
      <4>1. SentToApps(m)
        BY <1>1, <1>3, <1>4, <1>5, <3>2 DEF SendLinked
      <4>2. calls[m.uid].by \in Callers
        BY <4>1, CallsType DEF SentToApps, OriginalId, TypeOK
      <4> QED
        BY <2>2, <4>1, <4>2 DEF SentToApps, OriginalId, RouterAssumption
    <3> QED
      BY <3>1, <3>2
  <2>4. \A e \in Endpoints : \A y \in inbox'[e] : y \in inbox[e] \/ y.msg = sent
    BY <1>3, <1>5, <2>1 DEF Send
  <2>5. UNCHANGED answers
    BY <1>3, <1>5 DEF Send, Unanswered
  <2>6. InboxLinked'
    BY <2>2, <2>3, <2>4, LinksKept DEF Linked, InboxLinked
  <2>7. AnswersLinked'
    BY <1>1, <2>5, AnswersGrow
  <2> QED
    BY <1>2, <2>6, <2>7 DEF Linked, AnswersLinked
<1>6. CASE m.kind # "req"
  <2>1. UNCHANGED inbox
    BY <1>3, <1>6 DEF Send
  <2>2. InboxLinked'
    BY <2>1, InboxKept DEF Linked
  <2>3. answers' = answers \cup
          {[uid |-> m.uid, to |-> addr[t.at], id |-> m.id, by |-> w] :
             t \in {u \in Targets(w, m) : m.to # {}}}
    BY <1>3, <1>6 DEF Send
  <2>4. m.to # {} => ReplyToCaller(m)
    BY <1>1, <1>3, <1>4, <1>6 DEF SendLinked
  <2>5. \A t \in {u \in Targets(w, m) : m.to # {}} : addr[t.at] = calls[m.uid].by
    BY <1>4, <2>4, TargetsType DEF ReplyToCaller, TypeOK
  <2>6. \A r \in answers' : r \in answers \/ TrueAnswer(r)'
    BY <1>1, <2>3, <2>4, <2>5 DEF TrueAnswer, ReplyToCaller, OriginalId
  <2>7. AnswersLinked'
    BY <1>1, <2>6, AnswersGrow
  <2> QED
    BY <1>2, <2>2, <2>7 DEF Linked, AnswersLinked
<1> QED
  BY <1>5, <1>6

LEMMA RespondStepLinked ==
    ASSUME RouterAssumption, TypeOK, Linked, CallsGrow, MarksKept, FromKept,
           NEW w \in Workers, Respond(w)
    PROVE  Linked'
<1>1. /\ item[w] \in Matched /\ pc[w] = "respond" /\ WorkType /\ Leave(w)
      /\ UNCHANGED calls /\ UNCHANGED inbox /\ AnswersLinked
      /\ UNCHANGED mistaken
  BY DEF Respond, TypeOK, WorkType, Linked, AnswersLinked
<1>2. \A v \in Workers : ItemLinked(v)'
  BY <1>1, LeaveLinked DEF Linked
<1>3. InboxLinked' /\ MistakenIds'
  BY <1>1, InboxKept, MistakenKept DEF Linked
<1>4. /\ item[w].res.uid \in DOMAIN calls
      /\ item[w].res.uid \notin mistaken =>
            OriginalId(item[w].res) /\ item[w].to = calls[item[w].res.uid].by
  BY <1>1 DEF Linked, ItemLinked, RespondLinked
<1>5. CASE Answered(w, item[w].to, item[w].res)
  <2>1. AnswersLinked'
    BY <1>1, <1>4, <1>5, AnsweredLinked DEF OriginalId
  <2> QED
    BY <1>2, <1>3, <2>1 DEF Linked, AnswersLinked
<1>6. CASE "replace" \in May /\ Answered(w, item[w].to, [item[w].res EXCEPT !.id = item[w].req.id])
  <2>1. PICK m : m = [item[w].res EXCEPT !.id = item[w].req.id]
    OBVIOUS
  <2>2. m.uid = item[w].res.uid
    BY <1>1, <2>1 DEF Matched, Message
  <2>3. Answered(w, item[w].to, m) /\ "replace" \in May
    BY <1>6, <2>1
  <2>4. m.uid \in DOMAIN calls /\ (m.uid \notin mistaken => item[w].to = calls[m.uid].by)
    BY <1>4, <2>2 DEF OriginalId
  <2>5. AnswersLinked'
    BY <1>1, <2>3, <2>4, AnsweredLinked
  <2> QED
    BY <1>2, <1>3, <2>5 DEF Linked, AnswersLinked
<1>7. CASE UNCHANGED answers
  BY <1>1, <1>2, <1>3, <1>7, AnswersGrow DEF Linked, AnswersLinked
<1> QED
  BY <1>5, <1>6, <1>7 DEF Respond, Unanswered

\* The sweep, the connections' steps and stuttering touch no message.
LEMMA OtherStepLinked ==
    ASSUME RouterAssumption, TypeOK, Linked, CallsGrow, MarksKept, FromKept,
           UNCHANGED <<workVars, wireVars>>
    PROVE  Linked'
<1>1. \A v \in Workers : ItemLinked(v)'
  BY ItemKept DEF Linked, TypeOK, workVars
<1>2. InboxLinked' /\ MistakenIds'
  BY InboxKept, MistakenKept DEF Linked, wireVars, historyVars
<1>3. AnswersLinked'
  BY AnswersGrow DEF Linked, AnswersLinked, wireVars
<1> QED
  BY <1>1, <1>2, <1>3 DEF Linked, AnswersLinked

LEMMA LinkedStep ==
    ASSUME RouterAssumption, TypeOK, ConnsServed, Linked, [Next]_vars
    PROVE  Linked'
<1>1. CallsGrow /\ MarksKept /\ FromKept
  BY StepKeeps
<1>2. ASSUME NEW w \in Workers, Worker(w)
      PROVE  Linked'
  BY <1>1, <1>2, RequestLinked, ReplyLinked, PatchStepLinked, SendStepLinked, RespondStepLinked
     DEF Worker
<1>3. CASE \/ \E c \in Conns : LocalConn(c)
           \/ \E e \in Endpoints : Hangup(e)
           \/ CloudDial \/ CloudLost
  BY <1>1, <1>3, LocalStepType, OtherStepLinked
<1>4. CASE MarksWorker
  BY <1>1, <1>4, OtherStepLinked DEF MarksWorker
<1>5. CASE UNCHANGED vars
  BY <1>1, <1>5, OtherStepLinked DEF vars
<1> QED
  BY <1>2, <1>3, <1>4, <1>5 DEF Next

LEMMA InitLinked == Init => Linked
BY DEF Init, Linked, InboxLinked, ItemLinked, PatchLinked, SendLinked, RespondLinked,
       AnswersGoHome, TrueIds, MistakenIds

\* Every message in flight stays linked to its call, whichever ids the callers
\* choose; only a call taken for a response to another is not, and only an id
\* that the agent has given out too can be taken so (miio.go:92-184).
THEOREM RouterLinked == Spec => []Linked
<1>1. Init => Linked
  BY InitLinked
<1>2. TypeOK /\ ConnsServed /\ Linked /\ [Next]_vars => Linked'
  BY LinkedStep, RouterAssumption
<1> QED
  BY <1>1, <1>2, RouterType, PTL DEF Spec

\* Every response goes to the one who made its request, through any interleaving
\* of goroutines, hang-ups, rebinding, sweeps and late or repeated replies, and
\* whatever the Lua script does, but for what was mistaken (miio.go:105-114, 141-144).
THEOREM ResponsesGoHome == Spec => []AnswersGoHome
<1>1. Linked => AnswersGoHome
  BY DEF Linked
<1> QED
  BY <1>1, RouterLinked, PTL

\* And it carries the id the caller chose, unless a script replaces responses
\* (mangle.go:10, 27).
THEOREM ResponsesKeepIds ==
    ASSUME "replace" \notin May
    PROVE  Spec => []TrueIds
<1>1. Linked => TrueIds
  BY DEF Linked
<1> QED
  BY <1>1, RouterLinked, PTL
-----------------------------------------------------------------------------
(***************************************************************************)
(* Answers come once, and acknowledgements after reports.                  *)
(*                                                                         *)
(* The argument: the right to answer a call is with one holder at a time.  *)
(* It passes from the goroutine that has the request to the mark made for  *)
(* it, from the mark to the goroutine that has the response, and ends as   *)
(* the answer.  A sweep or a script may lose it; a stray reply that is     *)
(* taken for a request gets a mark too, but one under an id that no        *)
(* request in flight carries.                                              *)
(***************************************************************************)

\* A request under an id that the agent gave out: about to be sent, or delivered
\* and not replied to.
Flying(id, uid) ==
    \/ \E e \in Endpoints : \E x \in inbox[e] :
          x.msg.from = None /\ x.msg.id = id /\ x.msg.uid = uid
    \/ \E w \in Workers :
          /\ pc[w] = "send" /\ item[w].kind = "req" /\ item[w].to = {}
          /\ item[w].id = id /\ item[w].uid = uid

\* Such an id stands for one call, and its mark, if it is still there, was made
\* for the request and not for a stray reply (miio.go:141-144).
IdsTell ==
    /\ \A id \in 1..markID : \A u, v \in 1..MaxCall : Flying(id, u) /\ Flying(id, v) => u = v
    /\ \A id \in DOMAIN marks : \A u \in 1..MaxCall : Flying(id, u) => marks[id].msg.kind = "req"

\* What goes by _to belongs to a call that was made with _to (miio.go:94-102).
ByTo ==
    /\ \A e \in Endpoints : \A x \in inbox[e] : x.msg.from # None => calls[x.msg.uid].to # {}
    /\ \A w \in Workers : pc[w] \in {"patch", "send"} /\ item[w].to # {} => calls[item[w].uid].to # {}

\* Who may still answer call u, or did: a goroutine that has its request, a mark
\* made for it, a goroutine that has the response, an answer.
Holders(u) ==
    {<<"patch", w>> : w \in {v \in Workers : pc[v] = "patch" /\ item[v].kind = "req" /\ item[v].uid = u}}
    \cup {<<"mark", i>> : i \in {j \in DOMAIN marks : marks[j].msg.kind = "req" /\ marks[j].msg.uid = u}}
    \cup {<<"respond", w>> : w \in {v \in Workers : pc[v] = "respond" /\ item[v].res.uid = u}}
    \cup {<<"answer", r>> : r \in {s \in answers : s.uid = u}}

\* There is never more than one, and none before the call is made.
Tokens ==
    /\ \A u \in DOMAIN calls : calls[u].to = {} => \A s, t \in Holders(u) : s = t
    /\ \A i \in DOMAIN marks : marks[i].msg.kind = "req" => marks[i].msg.uid \in DOMAIN calls

Once == IdsTell /\ ByTo /\ Tokens

\* What the count of a call that names no apps says: nothing yet, or one answer.
Counted == \A u \in 1..MaxCall : (u \in DOMAIN calls => calls[u].to = {}) =>
    delivered[u] = 0 \/ (delivered[u] = 1 /\ \E r \in answers : r.uid = u)

\* What an acknowledgement would name has been reported (miio.go:109-123).
Reported(u, log) == [topic |-> "report", kind |-> "req", uid |-> u] \in log

ReportsFirst ==
    /\ \A w \in Conns :
          pc[w] = "patch" /\ item[w].kind = "req" /\ item[w].to = {} /\ item[w].method \notin Local =>
             Reported(item[w].uid, published)
    /\ \A i \in DOMAIN marks :
          marks[i].msg.kind = "req" /\ marks[i].addr \in Addr /\ marks[i].msg.method \notin Local =>
             Reported(marks[i].msg.uid, published)
    /\ AckReported
-----------------------------------------------------------------------------
\* What Linked says of a request in flight.
LEMMA FlyingSwapped ==
    ASSUME TypeOK, Linked, NEW id, NEW u, Flying(id, u)
    PROVE  /\ id \in 1..markID /\ u \in DOMAIN calls
           /\ id \in DOMAIN marks => marks[id].msg.uid = u
  BY DEF Flying, Linked, InboxLinked, ItemLinked, SendLinked, SwappedId

\* As long as no request takes off, the ids tell what they told.
LEMMA IdsTellKept ==
    ASSUME TypeOK, Linked, IdsTell, MarksKept, \A id, u : Flying(id, u)' => Flying(id, u)
    PROVE  IdsTell'
  <1>1. ASSUME NEW id \in 1..markID', NEW u \in 1..MaxCall, NEW v \in 1..MaxCall,
               Flying(id, u)', Flying(id, v)'
        PROVE  u = v
    BY <1>1, FlyingSwapped DEF IdsTell
  <1>2. ASSUME NEW id \in DOMAIN marks', NEW u \in 1..MaxCall, Flying(id, u)'
        PROVE  marks'[id].msg.kind = "req"
    <2>1. Flying(id, u) /\ id \in 1..markID
      BY <1>2, FlyingSwapped
    <2>2. id \in DOMAIN marks /\ marks'[id] = marks[id]
      BY <2>1 DEF MarksKept
    <2> QED
      BY <2>1, <2>2 DEF IdsTell
  <1> QED
    BY <1>1, <1>2 DEF IdsTell

\* Goroutine w moves, and no other.
Moves(w) == \A v \in Workers : v # w => pc'[v] = pc[v] /\ item'[v] = item[v]

LEMMA EnterMoves ==
    ASSUME WorkType, NEW w \in Workers, NEW label, NEW x, Enter(w, label, x)
    PROVE  Moves(w) /\ pc'[w] = label /\ item'[w] = x
  BY DEF WorkType, Enter, Moves

\* A message lands when it is sent; with that exception what is delivered was.
LEMMA FlyingLess ==
    ASSUME NEW w \in Workers, Moves(w), pc'[w] # "send",
           \A e \in Endpoints : \A x \in inbox'[e] :
              \/ x \in inbox[e]
              \/ x.msg.from # None
              \/ /\ pc[w] = "send" /\ item[w].kind = "req" /\ item[w].to = {}
                 /\ item[w].id = x.msg.id /\ item[w].uid = x.msg.uid
    PROVE  \A id, u : Flying(id, u)' => Flying(id, u)
  <1> SUFFICES ASSUME NEW id, NEW u, Flying(id, u)' PROVE Flying(id, u)
    OBVIOUS
  <1>1. ASSUME NEW e \in Endpoints, NEW x \in inbox'[e], x.msg.from = None, x.msg.id = id, x.msg.uid = u
        PROVE  Flying(id, u)
    BY <1>1 DEF Flying
  <1>2. ASSUME NEW v \in Workers, pc'[v] = "send", item'[v].kind = "req", item'[v].to = {},
               item'[v].id = id, item'[v].uid = u
        PROVE  Flying(id, u)
    BY <1>2 DEF Flying, Moves
  <1> QED
    BY <1>1, <1>2 DEF Flying

\* One holder at a time: nothing is added, or one takes over from another, or the
\* first one comes.
LEMMA OneHolder ==
    ASSUME NEW S, NEW T, \A s, t \in S : s = t, NEW a, NEW b,
           T \subseteq S \/ (a \in S /\ T \subseteq (S \ {a}) \cup {b}) \/ (S = {} /\ T \subseteq {b})
    PROVE  \A s, t \in T : s = t
  OBVIOUS

\* Before a call is made nobody holds it.
LEMMA NobodyYet ==
    ASSUME Linked, Tokens, NEW u, u \notin DOMAIN calls
    PROVE  Holders(u) = {}
  <1>1. \A w \in Workers : pc[w] = "patch" /\ item[w].kind = "req" => item[w].uid \in DOMAIN calls
    BY DEF Linked, ItemLinked, PatchLinked, OriginalId
  <1>2. \A w \in Workers : pc[w] = "respond" => item[w].res.uid \in DOMAIN calls
    BY DEF Linked, ItemLinked, RespondLinked, OriginalId
  <1>3. \A r \in answers : r.uid \in DOMAIN calls
    BY DEF Linked, AnswersGoHome
  <1>4. \A i \in DOMAIN marks : marks[i].msg.kind = "req" => marks[i].msg.uid \in DOMAIN calls
    BY DEF Tokens
  <1> QED
    BY <1>1, <1>2, <1>3, <1>4 DEF Holders

LEMMA ByToKept ==
    ASSUME TypeOK, Linked, ByTo, CallsGrow, NEW w \in Workers, Moves(w),
           pc'[w] \in {"patch", "send"} /\ item'[w].to # {} =>
              item'[w].uid \in DOMAIN calls' /\ calls'[item'[w].uid].to # {},
           \A e \in Endpoints : \A x \in inbox'[e] :
              x \in inbox[e] \/ (x.msg.from # None =>
                 x.msg.uid \in DOMAIN calls /\ calls[x.msg.uid].to # {})
    PROVE  ByTo'
  <1>1. ASSUME NEW e \in Endpoints, NEW x \in inbox'[e], x.msg.from # None
        PROVE  calls'[x.msg.uid].to # {}
    <2>1. CASE x \in inbox[e]
      <3>1. x.msg.uid \in DOMAIN calls
        BY <1>1, <2>1 DEF Linked, InboxLinked, SentToApps, OriginalId
      <3> QED
        BY <1>1, <2>1, <3>1 DEF ByTo, CallsGrow
    <2>2. CASE x \notin inbox[e]
      BY <1>1, <2>2 DEF CallsGrow
    <2> QED
      BY <2>1, <2>2
  <1>2. ASSUME NEW v \in Workers, pc'[v] \in {"patch", "send"}, item'[v].to # {}
        PROVE  calls'[item'[v].uid].to # {}
    <2>1. CASE v = w
      BY <1>2, <2>1
    <2>2. CASE v # w
      <3>1. pc[v] \in {"patch", "send"} /\ item[v].to # {} /\ item'[v] = item[v]
        BY <1>2, <2>2 DEF Moves
      <3>2. item[v] \in Message
        BY <3>1 DEF TypeOK, WorkType
      <3>3. item[v].uid \in DOMAIN calls
        BY <3>1, <3>2 DEF Linked, ItemLinked, PatchLinked, SendLinked, SentToApps, ReplyToCaller, OriginalId, Message
      <3> QED
        BY <3>1, <3>3 DEF ByTo, CallsGrow
    <2> QED
      BY <2>1, <2>2
  <1> QED
    BY <1>1, <1>2 DEF ByTo
-----------------------------------------------------------------------------
(***************************************************************************)
(* One lemma per action.                                                   *)
(***************************************************************************)
\* No mark is made: those that stay are what they were.
NoNewMark == \A i \in DOMAIN marks' : i \in DOMAIN marks /\ marks'[i] = marks[i]

LEMMA TokensKept ==
    ASSUME Linked, Tokens, CallsGrow, NoNewMark, NEW uid, NEW a, NEW b,
           \A u \in DOMAIN calls' \ {uid} : u \in DOMAIN calls,
           \A u \in DOMAIN calls' \ {uid} : calls'[u].to = {} => Holders(u)' \subseteq Holders(u),
           uid \in DOMAIN calls' /\ calls'[uid].to = {} =>
              \/ Holders(uid)' \subseteq Holders(uid)
              \/ a \in Holders(uid) /\ Holders(uid)' \subseteq (Holders(uid) \ {a}) \cup {b}
              \/ Holders(uid) = {} /\ Holders(uid)' \subseteq {b}
    PROVE  Tokens'
  <1>1. ASSUME NEW u \in DOMAIN calls', calls'[u].to = {}
        PROVE  (\A s, t \in Holders(u) : s = t)'
    <2>1. \A s, t \in Holders(u) : s = t
      <3>1. CASE u \in DOMAIN calls
        BY <1>1, <3>1 DEF CallsGrow, Tokens
      <3>2. CASE u \notin DOMAIN calls
        BY <3>2, NobodyYet
      <3> QED
        BY <3>1, <3>2
    <2>2. CASE u # uid
      BY <1>1, <2>1, <2>2
    <2>3. CASE u = uid
      BY <1>1, <2>1, <2>3, OneHolder
    <2> QED
      BY <2>2, <2>3
  <1>2. \A i \in DOMAIN marks' : marks'[i].msg.kind = "req" => marks'[i].msg.uid \in DOMAIN calls'
    BY DEF NoNewMark, Tokens, CallsGrow
  <1> QED
    BY <1>1, <1>2 DEF Tokens

\* Nothing changes hands: goroutine w takes up nothing, and there are no new answers.
LEMMA HoldersLess ==
    ASSUME NEW w \in Workers, Moves(w), NoNewMark, NEW u,
           \A r \in answers' : r.uid = u => r \in answers,
           ~(pc'[w] = "patch" /\ item'[w].kind = "req" /\ item'[w].uid = u),
           ~(pc'[w] = "respond" /\ item'[w].res.uid = u)
    PROVE  Holders(u)' \subseteq Holders(u)
  <1> SUFFICES ASSUME NEW t \in Holders(u)' PROVE t \in Holders(u)
    OBVIOUS
  <1>1. ASSUME NEW v \in Workers, pc'[v] = "patch", item'[v].kind = "req", item'[v].uid = u, t = <<"patch", v>>
        PROVE  t \in Holders(u)
    BY <1>1 DEF Moves, Holders
  <1>2. ASSUME NEW v \in Workers, pc'[v] = "respond", item'[v].res.uid = u, t = <<"respond", v>>
        PROVE  t \in Holders(u)
    BY <1>2 DEF Moves, Holders
  <1>3. ASSUME NEW i \in DOMAIN marks', marks'[i].msg.kind = "req", marks'[i].msg.uid = u, t = <<"mark", i>>
        PROVE  t \in Holders(u)
    BY <1>3 DEF NoNewMark, Holders
  <1>4. ASSUME NEW r \in answers', r.uid = u, t = <<"answer", r>>
        PROVE  t \in Holders(u)
    BY <1>4 DEF Holders
  <1> QED
    BY <1>1, <1>2, <1>3, <1>4 DEF Holders

\* What may be routed: a request that was just made, or a reply.
JustMade(m) ==
    /\ m.kind = "req"
    /\ m.uid \notin DOMAIN calls /\ DOMAIN calls' \subseteq DOMAIN calls \cup {m.uid}
    /\ m.uid \in DOMAIN calls' /\ calls'[m.uid].to = m.to

ReplyMade(m) ==
    /\ m.kind = "res" /\ calls' = calls /\ m.uid \in DOMAIN calls
    /\ m.to # {} => calls[m.uid].to # {}
    /\ (m.hasTo /\ calls[m.uid].to # {}) \/ Flying(m.id, m.uid)

LEMMA RouteOnce ==
    ASSUME RouterAssumption, TypeOK, Linked, Once, CallsGrow, MarksKept,
           NEW w \in Workers, Reads(w), NEW m \in Message, Route(w, m), UNCHANGED answers,
           \A e \in Endpoints : inbox'[e] \subseteq inbox[e],
           JustMade(m) \/ ReplyMade(m)
    PROVE  Once'
  <1>1. pc[w] = "idle" /\ WorkType /\ IdsTell /\ ByTo /\ Tokens
    BY DEF Reads, TypeOK, Once
  <1>2. m.uid \in DOMAIN calls' /\ (m.to # {} => calls'[m.uid].to # {})
        /\ (\A u \in DOMAIN calls' : u # m.uid => u \in DOMAIN calls)
    BY DEF JustMade, ReplyMade
  <1>3. ASSUME NEW x, Enter(w, "patch", x), x.kind = m.kind, x.uid = m.uid, x.to = m.to, UNCHANGED mangleVars
        PROVE  Once'
    <2>1. Moves(w) /\ pc'[w] = "patch" /\ item'[w] = x
      BY <1>1, <1>3, EnterMoves
    <2>2. IdsTell'
      BY <1>1, <2>1, FlyingLess, IdsTellKept
    <2>3. ByTo'
      BY <1>1, <1>2, <1>3, <2>1, ByToKept
    <2>4. NoNewMark
      BY <1>3 DEF NoNewMark, mangleVars
    <2>5. \A u : u # m.uid => Holders(u)' \subseteq Holders(u)
      BY <1>3, <2>1, <2>4, HoldersLess
    <2>6. CASE ReplyMade(m)
      <3>1. Holders(m.uid)' \subseteq Holders(m.uid)
        BY <1>3, <2>1, <2>4, <2>6, HoldersLess DEF ReplyMade
      <3>2. Tokens'
        BY <1>1, <1>2, <2>4, <2>5, <3>1, TokensKept
      <3> QED
        BY <2>2, <2>3, <3>2 DEF Once
    <2>7. CASE JustMade(m)
      <3>1. Holders(m.uid) = {}
        BY <1>1, <2>7, NobodyYet DEF JustMade
      <3>2. Holders(m.uid)' \subseteq {<<"patch", w>>}
        BY <3>1, <2>1, <2>4 DEF Holders, Moves, NoNewMark
      <3>3. Tokens'
        BY <1>1, <1>2, <2>4, <2>5, <3>1, <3>2, TokensKept
      <3> QED
        BY <2>2, <2>3, <3>3 DEF Once
    <2> QED
      BY <2>6, <2>7
  <1>4. CASE RouteToApps(w, m)
    <2>1. CASE Enter(w, "patch", [m EXCEPT !.from = From(w)])
      <3>1. PICK x : x = [m EXCEPT !.from = From(w)]
        OBVIOUS
      <3>2. x.kind = m.kind /\ x.uid = m.uid /\ x.to = m.to
        BY <3>1 DEF Message
      <3> QED
        BY <1>3, <1>4, <2>1, <3>1, <3>2 DEF RouteToApps
    <2>2. CASE UNCHANGED workVars
      <3>1. Moves(w) /\ pc' = pc /\ item' = item /\ UNCHANGED mangleVars
        BY <1>4, <2>2 DEF Moves, workVars, RouteToApps
      <3>2. IdsTell'
        BY <1>1, <3>1, FlyingLess, IdsTellKept
      <3>3. ByTo'
        BY <1>1, <3>1, ByToKept
      <3>4. NoNewMark
        BY <3>1 DEF NoNewMark, mangleVars
      <3>5. \A u : Holders(u)' \subseteq Holders(u)
        BY <1>1, <3>1, <3>4, HoldersLess
      <3>6. Tokens'
        BY <1>1, <1>2, <3>4, <3>5, TokensKept
      <3> QED
        BY <3>2, <3>3, <3>6 DEF Once
    <2> QED
      BY <1>4, <2>1, <2>2 DEF RouteToApps
  <1>5. CASE RouteRequest(w, m)
    BY <1>3, <1>5 DEF RouteRequest
  <1>6. CASE RouteResponse(w, m)
    <2>1. m.id \in DOMAIN marks /\ FindMessage(m)
      BY <1>6 DEF RouteResponse, Marked
    <2>2. PICK x : x = [to |-> marks[m.id].addr, req |-> marks[m.id].msg, res |-> Restored(m)]
      OBVIOUS
    <2>3. x.res.uid = m.uid
      BY <2>2 DEF Restored, Message
    <2>4. Moves(w) /\ pc'[w] = "respond" /\ item'[w] = x
      BY <1>1, <1>6, <2>2, EnterMoves DEF RouteResponse
    <2>5. IdsTell'
      BY <1>1, <2>4, FlyingLess, IdsTellKept
    <2>6. ByTo'
      BY <1>1, <2>4, ByToKept
    <2>7. NoNewMark /\ m.id \notin DOMAIN marks'
      BY <2>1 DEF NoNewMark, FindMessage, Restrict
    <2>8. \A u : u # m.uid => Holders(u)' \subseteq Holders(u)
      BY <2>3, <2>4, <2>7, HoldersLess
    <2>9. Holders(m.uid)' \subseteq (Holders(m.uid) \ {<<"mark", m.id>>}) \cup {<<"respond", w>>}
      <3> SUFFICES ASSUME NEW t \in Holders(m.uid)', t # <<"respond", w>>
                   PROVE  t \in Holders(m.uid) /\ t # <<"mark", m.id>>
        OBVIOUS
      <3> QED
        BY <2>4, <2>7 DEF Holders, Moves, NoNewMark
    <2>10. CASE JustMade(m)
      <3>1. Holders(m.uid) = {}
        BY <1>1, <2>10, NobodyYet DEF JustMade
      <3>2. Holders(m.uid)' \subseteq {<<"respond", w>>}
        BY <2>9, <3>1
      <3>3. Tokens'
        BY <1>1, <1>2, <2>7, <2>8, <3>1, <3>2, TokensKept
      <3> QED
        BY <2>5, <2>6, <3>3 DEF Once
    <2>11. CASE ReplyMade(m) /\ calls[m.uid].to # {}
      <3>1. calls'[m.uid].to # {}
        BY <2>11 DEF ReplyMade
      <3>2. Tokens'
        BY <1>1, <1>2, <2>7, <2>8, <3>1, TokensKept
      <3> QED
        BY <2>5, <2>6, <3>2 DEF Once
    <2>12. CASE ReplyMade(m) /\ Flying(m.id, m.uid)
      <3>1. marks[m.id].msg.kind = "req" /\ marks[m.id].msg.uid = m.uid
        BY <1>1, <2>1, <2>12, FlyingSwapped DEF IdsTell, Message
      <3>2. <<"mark", m.id>> \in Holders(m.uid)
        BY <2>1, <3>1 DEF Holders
      <3>3. PICK a : a = <<"mark", m.id>>
        OBVIOUS
      <3>4. PICK b : b = <<"respond", w>>
        OBVIOUS
      <3>5. a \in Holders(m.uid) /\ Holders(m.uid)' \subseteq (Holders(m.uid) \ {a}) \cup {b}
        BY <2>9, <3>2, <3>3, <3>4
      <3>6. Tokens'
        BY <1>1, <1>2, <2>7, <2>8, <3>5, TokensKept
      <3> QED
        BY <2>5, <2>6, <3>6 DEF Once
    <2> QED
      BY <2>10, <2>11, <2>12 DEF ReplyMade
  <1> QED
    BY <1>4, <1>5, <1>6 DEF Route

LEMMA RequestOnce ==
    ASSUME RouterAssumption, TypeOK, Linked, Once, CallsGrow, MarksKept,
           NEW w \in Workers, Request(w)
    PROVE  Once'
  <1>1. PICK id \in Ids, k \in AnyMethod,
             to \in {None} \cup (IF w \in Conns THEN Masks ELSE IF w = Mqtt THEN MqttMasks ELSE {}) :
           LET mask == IF to = None THEN {} ELSE to
           IN  /\ calls' = Append(calls, [by |-> From(w), id |-> id, to |-> mask])
               /\ Route(w, [kind |-> "req", uid |-> Len(calls) + 1, id |-> id,
                            hasTo |-> to # None, to |-> mask, from |-> None, method |-> k])
    BY DEF Request
  <1>2. PICK mask : mask = IF to = None THEN {} ELSE to
    OBVIOUS
  <1>3. PICK m : m = [kind |-> "req", uid |-> Len(calls) + 1, id |-> id,
                      hasTo |-> to # None, to |-> mask, from |-> None, method |-> k]
    OBVIOUS
  <1>4. Reads(w) /\ Route(w, m) /\ UNCHANGED <<inbox, answers>>
    BY <1>1, <1>2, <1>3 DEF Request
  <1>5. mask \in SUBSET Addr
    BY <1>2 DEF RouterAssumption
  <1>6. Len(calls) \in Nat /\ Len(calls) + 1 \in 1..MaxCall /\ DOMAIN calls = 1..Len(calls)
    BY DEF Request, TypeOK, WireType, RouterAssumption
  <1>7. m \in Message
    BY <1>3, <1>5, <1>6 DEF Message
  <1>8. calls' = Append(calls, [by |-> From(w), id |-> id, to |-> mask])
    BY <1>1, <1>2
  <1>9. JustMade(m)
    BY <1>3, <1>6, <1>8 DEF JustMade
  <1> QED
    BY <1>4, <1>7, <1>9, RouteOnce

LEMMA ReplyOnce ==
    ASSUME RouterAssumption, TypeOK, Linked, Once, CallsGrow, MarksKept,
           NEW w \in Workers, Reply(w)
    PROVE  Once'
  <1>1. PICK x \in inbox[w] : /\ inbox' = [inbox EXCEPT ![w] = @ \ {x}]
                              /\ Route(w, ReplyTo(x.msg))
    BY DEF Reply
  <1>2. w \in Endpoints /\ Reads(w) /\ UNCHANGED <<calls, answers>>
    BY DEF Reply
  <1>3. PICK m : m = ReplyTo(x.msg)
    OBVIOUS
  <1>4. x.msg \in Message /\ m \in Message
    BY <1>2, <1>3, ReplyToType DEF TypeOK, WireType
  <1>5. /\ m.kind = "res" /\ m.uid = x.msg.uid /\ m.id = x.msg.id /\ m.to = {x.msg.from} \cap Addr
        /\ m.hasTo = (x.msg.from # None)
    BY <1>3, <1>4 DEF ReplyTo, Message
  <1>6. IF x.msg.from = None THEN SwappedId(x.msg) ELSE SentToApps(x.msg)
    BY <1>2 DEF Linked, InboxLinked
  <1>7. ReplyMade(m)
    <2>1. CASE x.msg.from = None
      <3>1. m.to = {}
        BY <1>5, <2>1 DEF RouterAssumption, Callers
      <3>2. Flying(m.id, m.uid)
        BY <1>2, <1>5, <2>1 DEF Flying
      <3> QED
        BY <1>2, <1>5, <1>6, <2>1, <3>1, <3>2 DEF ReplyMade, SwappedId
    <2>2. CASE x.msg.from # None
      <3>1. m.uid \in DOMAIN calls /\ calls[m.uid].to # {}
        BY <1>2, <1>5, <1>6, <2>2 DEF SentToApps, OriginalId, Once, ByTo
      <3> QED
        BY <1>2, <1>5, <2>2, <3>1 DEF ReplyMade
    <2> QED
      BY <2>1, <2>2
  <1>8. \A e \in Endpoints : inbox'[e] \subseteq inbox[e]
    BY <1>1, <1>2 DEF TypeOK, WireType
  <1> QED
    BY <1>1, <1>2, <1>3, <1>4, <1>7, <1>8, RouteOnce

\* The request passes to its mark, a fresh one; or it takes the way of _to.
LEMMA ForwardOnce ==
    ASSUME RouterAssumption, TypeOK, Linked, Once, CallsGrow, MarksKept,
           UNCHANGED <<calls, inbox, answers>>,
           NEW w \in Workers, pc[w] = "patch", NEW m \in Message, Forward(w, m),
           m.kind = item[w].kind, m.uid = item[w].uid, m.to = item[w].to
    PROVE  Once'
  <1>1. WorkType /\ IdsTell /\ ByTo /\ Tokens /\ (m.kind = "req" => m.uid \in DOMAIN calls)
    BY DEF TypeOK, Once, Linked, ItemLinked, PatchLinked, OriginalId
  <1>2. m.to # {} => m.uid \in DOMAIN calls /\ calls[m.uid].to # {}
    BY <1>1 DEF Message, Linked, ItemLinked, PatchLinked, ReplyToCaller, OriginalId, ByTo
  <1>3. CASE m.to = {}
    <2>1. PICK x : x = Swapped(m)
      OBVIOUS
    <2>2. Enter(w, "send", x) /\ MarkMessage(m, From(w))
      BY <1>3, <2>1 DEF Forward
    <2>3. Moves(w) /\ pc'[w] = "send" /\ item'[w] = x
      BY <1>1, <2>2, EnterMoves
    <2>4. x.kind = m.kind /\ x.to = m.to /\ x.uid = m.uid /\ x.id = markID + 1
      BY <2>1 DEF Swapped, Message
    <2>5. markID \in Nat /\ markID' = markID + 1 /\ markID + 1 \notin DOMAIN marks /\ DOMAIN marks \subseteq 1..markID
      BY <2>2 DEF MarkMessage, TypeOK, TableType, RouterAssumption
    <2>6. /\ DOMAIN marks' = DOMAIN marks \cup {markID + 1}
          /\ marks'[markID + 1].msg = x
          /\ \A i \in DOMAIN marks : marks'[i] = marks[i]
      BY <2>1, <2>2, <2>5 DEF MarkMessage
    <2>7. \A id, u : Flying(id, u)' => Flying(id, u) \/ (id = markID + 1 /\ u = m.uid /\ m.kind = "req")
      <3> SUFFICES ASSUME NEW id, NEW u, Flying(id, u)', ~Flying(id, u)
                   PROVE  id = markID + 1 /\ u = m.uid /\ m.kind = "req"
        OBVIOUS
      <3>1. ~(\E e \in Endpoints : \E y \in inbox'[e] : y.msg.from = None /\ y.msg.id = id /\ y.msg.uid = u)
        BY DEF Flying
      <3>2. PICK v \in Workers : pc'[v] = "send" /\ item'[v].kind = "req" /\ item'[v].to = {}
                                 /\ item'[v].id = id /\ item'[v].uid = u
        BY <3>1 DEF Flying
      <3>3. v = w
        BY <2>3, <3>2 DEF Moves, Flying
      <3> QED
        BY <2>3, <2>4, <3>2, <3>3
    <2>8. IdsTell'
      <3>1. ASSUME NEW id \in 1..markID', NEW u \in 1..MaxCall, NEW v \in 1..MaxCall,
                   Flying(id, u)', Flying(id, v)'
            PROVE  u = v
        <4>1. CASE id = markID + 1
          <5>1. ~Flying(id, u) /\ ~Flying(id, v)
            BY <2>5, <4>1, FlyingSwapped
          <5> QED
            BY <2>7, <3>1, <5>1
        <4>2. CASE id # markID + 1
          BY <1>1, <2>5, <2>7, <3>1, <4>2 DEF IdsTell
        <4> QED
          BY <4>1, <4>2
      <3>2. ASSUME NEW id \in DOMAIN marks', NEW u \in 1..MaxCall, Flying(id, u)'
            PROVE  marks'[id].msg.kind = "req"
        <4>1. CASE id = markID + 1
          <5>1. ~Flying(id, u)
            BY <2>5, <4>1, FlyingSwapped
          <5> QED
            BY <2>4, <2>6, <2>7, <3>2, <4>1, <5>1
        <4>2. CASE id # markID + 1
          BY <1>1, <2>6, <2>7, <3>2, <4>2 DEF IdsTell
        <4> QED
          BY <4>1, <4>2
      <3> QED
        BY <3>1, <3>2 DEF IdsTell
    <2>9. ByTo'
      BY <1>1, <1>3, <2>3, <2>4, ByToKept
    <2>10. ASSUME NEW u, NEW t \in Holders(u)'
           PROVE  \/ t \in Holders(u) /\ t # <<"patch", w>>
                  \/ t = <<"mark", markID + 1>> /\ m.kind = "req" /\ u = m.uid
      <3>1. ASSUME NEW i \in DOMAIN marks', marks'[i].msg.kind = "req", marks'[i].msg.uid = u, t = <<"mark", i>>
            PROVE  \/ t \in Holders(u) /\ t # <<"patch", w>>
                   \/ t = <<"mark", markID + 1>> /\ m.kind = "req" /\ u = m.uid
        BY <2>4, <2>6, <3>1 DEF Holders
      <3>2. ASSUME NEW v \in Workers, pc'[v] = "patch", item'[v].kind = "req", item'[v].uid = u, t = <<"patch", v>>
            PROVE  t \in Holders(u) /\ t # <<"patch", w>>
        BY <2>3, <3>2 DEF Moves, Holders
      <3>3. ASSUME NEW v \in Workers, pc'[v] = "respond", item'[v].res.uid = u, t = <<"respond", v>>
            PROVE  t \in Holders(u) /\ t # <<"patch", w>>
        BY <2>3, <3>3 DEF Moves, Holders
      <3>4. ASSUME NEW r \in answers', r.uid = u, t = <<"answer", r>>
            PROVE  t \in Holders(u) /\ t # <<"patch", w>>
        BY <3>4 DEF Holders
      <3> QED
        BY <2>10, <3>1, <3>2, <3>3, <3>4 DEF Holders
    <2>11. m.kind = "req" => <<"patch", w>> \in Holders(m.uid)
      BY DEF Holders
    <2>12. Tokens'
      <3>1. ASSUME NEW u \in DOMAIN calls', calls'[u].to = {}
            PROVE  (\A s, t \in Holders(u) : s = t)'
        <4>1. \A s, t \in Holders(u) : s = t
          BY <1>1, <3>1 DEF Tokens
        <4>2. Holders(u)' \subseteq Holders(u) \/
                 (<<"patch", w>> \in Holders(u) /\
                  Holders(u)' \subseteq (Holders(u) \ {<<"patch", w>>}) \cup {<<"mark", markID + 1>>})
          BY <2>10, <2>11
        <4> QED
          BY <4>1, <4>2, OneHolder
      <3>2. \A i \in DOMAIN marks' : marks'[i].msg.kind = "req" => marks'[i].msg.uid \in DOMAIN calls'
        BY <1>1, <2>4, <2>6 DEF Tokens
      <3> QED
        BY <3>1, <3>2 DEF Tokens
    <2> QED
      BY <2>8, <2>9, <2>12 DEF Once
  <1>4. CASE m.to # {}
    <2>1. Enter(w, "send", m) /\ UNCHANGED mangleVars
      BY <1>4 DEF Forward
    <2>2. Moves(w) /\ pc'[w] = "send" /\ item'[w] = m
      BY <1>1, <2>1, EnterMoves
    <2>3. \A id, u : Flying(id, u)' => Flying(id, u)
      <3> SUFFICES ASSUME NEW id, NEW u, Flying(id, u)' PROVE Flying(id, u)
        OBVIOUS
      <3>1. ASSUME NEW v \in Workers, pc'[v] = "send", item'[v].kind = "req", item'[v].to = {},
                   item'[v].id = id, item'[v].uid = u
            PROVE  Flying(id, u)
        BY <1>4, <2>2, <3>1 DEF Moves, Flying
      <3> QED
        BY <3>1 DEF Flying
    <2>4. IdsTell'
      BY <1>1, <2>3, IdsTellKept
    <2>5. ByTo'
      BY <1>1, <1>2, <1>4, <2>2, ByToKept
    <2>6. NoNewMark
      BY <2>1 DEF NoNewMark, mangleVars
    <2>7. \A u : Holders(u)' \subseteq Holders(u)
      BY <2>2, <2>6, HoldersLess
    <2>8. Tokens'
      BY <1>1, <2>6, <2>7, TokensKept
    <2> QED
      BY <2>4, <2>5, <2>8 DEF Once
  <1> QED
    BY <1>3, <1>4

\* A goroutine that goes idle has lost its message, or has answered with it.
LEMMA LeaveOnce ==
    ASSUME RouterAssumption, TypeOK, Linked, Once, CallsGrow, MarksKept, UNCHANGED <<calls, inbox, mangleVars>>,
           NEW w \in Workers, Leave(w), NEW uid, NEW to, NEW id, NEW label \in {"patch", "respond"},
           \/ answers' = answers
           \/ /\ answers' \subseteq answers \cup {[uid |-> uid, to |-> to, id |-> id, by |-> w]}
              /\ <<label, w>> \in Holders(uid)
    PROVE  Once'
  <1>1. WorkType /\ IdsTell /\ ByTo /\ Tokens
    BY DEF TypeOK, Once
  <1>2. Moves(w) /\ pc'[w] = "idle"
    BY <1>1, EnterMoves DEF Leave
  <1>3. IdsTell'
    BY <1>1, <1>2, FlyingLess, IdsTellKept
  <1>4. ByTo'
    BY <1>1, <1>2, ByToKept
  <1>5. NoNewMark
    BY DEF NoNewMark, mangleVars
  <1>6. CASE answers' = answers
    <2>1. \A u : Holders(u)' \subseteq Holders(u)
      BY <1>2, <1>5, <1>6, HoldersLess
    <2>2. Tokens'
      BY <1>1, <1>5, <2>1, TokensKept
    <2> QED
      BY <1>3, <1>4, <2>2 DEF Once
  <1>7. CASE /\ answers' \subseteq answers \cup {[uid |-> uid, to |-> to, id |-> id, by |-> w]}
             /\ <<label, w>> \in Holders(uid)
    <2>1. PICK r : r = [uid |-> uid, to |-> to, id |-> id, by |-> w]
      OBVIOUS
    <2>2. answers' \subseteq answers \cup {r} /\ r.uid = uid
      BY <1>7, <2>1
    <2>3. \A u : u # uid => Holders(u)' \subseteq Holders(u)
      BY <1>2, <1>5, <2>2, HoldersLess
    <2>4. Holders(uid)' \subseteq (Holders(uid) \ {<<label, w>>}) \cup {<<"answer", r>>}
      <3> SUFFICES ASSUME NEW t \in Holders(uid)', t # <<"answer", r>>
                   PROVE  t \in Holders(uid) /\ t # <<label, w>>
        OBVIOUS
      <3> QED
        BY <1>2, <1>5, <2>2 DEF Holders, Moves, NoNewMark
    <2>5. Tokens'
      BY <1>1, <1>5, <1>7, <2>3, <2>4, TokensKept, SMTT(40)
    <2> QED
      BY <1>3, <1>4, <2>5 DEF Once
  <1> QED
    BY <1>6, <1>7

LEMMA PatchOnce ==
    ASSUME RouterAssumption, TypeOK, Linked, Once, CallsGrow, MarksKept, NEW w \in Workers, Patch(w)
    PROVE  Once'
  <1>1. item[w] \in Message /\ pc[w] = "patch" /\ UNCHANGED <<calls, inbox>>
    BY DEF Patch, TypeOK, WorkType
  <1>2. CASE Forward(w, item[w]) /\ UNCHANGED answers
    BY <1>1, <1>2, ForwardOnce
  <1>3. ASSUME NEW k \in AnyMethod, Forward(w, [item[w] EXCEPT !.method = k]), UNCHANGED answers
        PROVE  Once'
    <2>1. PICK m : m = [item[w] EXCEPT !.method = k]
      OBVIOUS
    <2>2. m \in Message /\ m.kind = item[w].kind /\ m.uid = item[w].uid /\ m.to = item[w].to
      BY <1>1, <2>1 DEF Message
    <2> QED
      BY <1>1, <1>3, <2>1, <2>2, ForwardOnce
  <1>4. CASE Leave(w) /\ UNCHANGED <<answers, mangleVars>>
    BY <1>1, <1>4, LeaveOnce DEF mangleVars
  <1>5. CASE item[w].kind = "req" /\ Answered(w, From(w), item[w]) /\ Leave(w) /\ UNCHANGED mangleVars
    <2>1. <<"patch", w>> \in Holders(item[w].uid)
      BY <1>1, <1>5 DEF Holders
    <2>2. answers' \subseteq answers \cup
             {[uid |-> item[w].uid, to |-> From(w), id |-> item[w].id, by |-> w]}
      BY <1>5 DEF Answered, Unanswered
    <2> QED
      BY <1>1, <1>5, <2>1, <2>2, LeaveOnce DEF mangleVars
  <1> QED
    BY <1>2, <1>3, <1>4, <1>5 DEF Patch, Unanswered

LEMMA SendOnce ==
    ASSUME RouterAssumption, TypeOK, Linked, Once, CallsGrow, MarksKept, NEW w \in Workers, Send(w)
    PROVE  Once'
  <1>1. PICK m : m = item[w]
    OBVIOUS
  <1>2. /\ m \in Message /\ pc[w] = "send" /\ Leave(w) /\ UNCHANGED calls /\ UNCHANGED mangleVars
        /\ WorkType /\ IdsTell /\ ByTo /\ Tokens
    BY <1>1 DEF Send, TypeOK, WorkType, Once
  <1>3. Moves(w) /\ pc'[w] = "idle"
    BY <1>2, EnterMoves DEF Leave
  <1>4. NoNewMark
    BY <1>2 DEF NoNewMark, mangleVars
  <1>5. SendLinked(w)
    BY DEF Linked, ItemLinked
  <1>6. CASE m.kind = "req"
    <2>1. PICK sent : sent = [m EXCEPT !.hasTo = FALSE, !.to = {}]
      OBVIOUS
    <2>2. sent.uid = m.uid /\ sent.id = m.id /\ sent.from = m.from
      BY <1>2, <2>1 DEF Message
    <2>3. UNCHANGED answers /\ \A e \in Endpoints : \A x \in inbox'[e] : x \in inbox[e] \/ x.msg = sent
      BY <1>1, <1>6, <2>1 DEF Send, Unanswered
    <2>4. m.from = None <=> m.to = {}
      <3>1. CASE m.to = {}
        BY <1>1, <1>2, <1>5, <1>6, <3>1 DEF SendLinked
      <3>2. CASE m.to # {}
        <4>1. SentToApps(m)
          BY <1>1, <1>2, <1>5, <1>6, <3>2 DEF SendLinked
        <4>2. m.from \in Callers
          BY <4>1, CallsType DEF SentToApps, OriginalId, TypeOK
        <4> QED
          BY <3>2, <4>2 DEF RouterAssumption
      <3> QED
        BY <3>1, <3>2
    <2>5. m.to # {} => m.uid \in DOMAIN calls /\ calls[m.uid].to # {}
      BY <1>1, <1>2, <1>5, <1>6 DEF SendLinked, SentToApps, OriginalId, ByTo
    <2>6. IdsTell'
      BY <1>1, <1>2, <1>3, <1>6, <2>2, <2>3, <2>4, FlyingLess, IdsTellKept
    <2>7. ByTo'
      BY <1>2, <1>3, <2>2, <2>3, <2>4, <2>5, ByToKept
    <2>8. \A u : Holders(u)' \subseteq Holders(u)
      BY <1>3, <1>4, <2>3, HoldersLess
    <2>9. Tokens'
      BY <1>2, <1>4, <2>8, TokensKept
    <2> QED
      BY <2>6, <2>7, <2>9 DEF Once
  <1>7. CASE m.kind # "req"
    <2>1. UNCHANGED inbox
      BY <1>1, <1>7 DEF Send
    <2>2. \A r \in answers' : r \in answers \/ (m.to # {} /\ r.uid = m.uid)
      BY <1>1, <1>7 DEF Send
    <2>3. m.to # {} => calls[m.uid].to # {}
      BY <1>1, <1>2 DEF ByTo
    <2>4. IdsTell'
      BY <1>2, <1>3, <2>1, FlyingLess, IdsTellKept
    <2>5. ByTo'
      BY <1>2, <1>3, <2>1, ByToKept
    <2>6. ASSUME NEW u \in DOMAIN calls', calls'[u].to = {}
          PROVE  Holders(u)' \subseteq Holders(u)
      <3>1. \A r \in answers' : r.uid = u => r \in answers
        BY <1>2, <2>2, <2>3, <2>6
      <3> QED
        BY <1>3, <1>4, <3>1, HoldersLess
    <2>7. Tokens'
      BY <1>2, <1>4, <2>6, TokensKept
    <2> QED
      BY <2>4, <2>5, <2>7 DEF Once
  <1> QED
    BY <1>6, <1>7

LEMMA RespondOnce ==
    ASSUME RouterAssumption, TypeOK, Linked, Once, CallsGrow, MarksKept, NEW w \in Workers, Respond(w)
    PROVE  Once'
  <1>1. PICK x : x = item[w]
    OBVIOUS
  <1>2. x.res \in Message /\ pc[w] = "respond" /\ Leave(w) /\ UNCHANGED <<calls, inbox, mangleVars>>
    BY <1>1 DEF Respond, TypeOK, WorkType, Matched, mangleVars
  <1>3. <<"respond", w>> \in Holders(x.res.uid)
    BY <1>1, <1>2 DEF Holders
  <1>4. ASSUME NEW m, m.uid = x.res.uid, Answered(w, x.to, m)
        PROVE  Once'
    <2>1. answers' \subseteq answers \cup {[uid |-> x.res.uid, to |-> x.to, id |-> m.id, by |-> w]}
      BY <1>4 DEF Answered, Unanswered
    <2> QED
      BY <1>2, <1>3, <2>1, LeaveOnce
  <1>5. CASE Answered(w, x.to, x.res)
    BY <1>4, <1>5
  <1>6. CASE Answered(w, x.to, [x.res EXCEPT !.id = x.req.id])
    <2>1. [x.res EXCEPT !.id = x.req.id].uid = x.res.uid
      BY <1>2 DEF Message
    <2> QED
      BY <1>4, <1>6, <2>1
  <1>7. CASE UNCHANGED answers
    BY <1>2, <1>7, LeaveOnce
  <1> QED
    BY <1>1, <1>5, <1>6, <1>7 DEF Respond, Unanswered

\* The sweep, the connections' steps and stuttering: marks may go.
LEMMA OtherOnce ==
    ASSUME RouterAssumption, TypeOK, Linked, Once, CallsGrow, MarksKept, NoNewMark,
           UNCHANGED <<workVars, wireVars>>
    PROVE  Once'
  <1>1. UNCHANGED <<pc, item, calls, inbox, answers>> /\ IdsTell /\ ByTo /\ Tokens
    BY DEF workVars, wireVars, Once
  <1>2. \A id, u : Flying(id, u)' => Flying(id, u)
    BY <1>1 DEF Flying
  <1>3. IdsTell'
    BY <1>1, <1>2, IdsTellKept
  <1>4. ByTo'
    BY <1>1 DEF ByTo
  <1>5. \A u : Holders(u)' \subseteq Holders(u)
    BY <1>1 DEF Holders, NoNewMark
  <1>6. Tokens'
    BY <1>1, <1>5, TokensKept
  <1> QED
    BY <1>3, <1>4, <1>6 DEF Once

LEMMA OnceStep ==
    ASSUME RouterAssumption, TypeOK, Linked, Once, [Next]_vars
    PROVE  Once'
  <1>1. CallsGrow /\ MarksKept
    BY StepKeeps
  <1>2. ASSUME NEW w \in Workers, Worker(w)
        PROVE  Once'
    BY <1>1, <1>2, RequestOnce, ReplyOnce, PatchOnce, SendOnce, RespondOnce DEF Worker
  <1>3. CASE \/ \E c \in Conns : LocalConn(c)
             \/ \E e \in Endpoints : Hangup(e)
             \/ CloudDial \/ CloudLost
    <2>1. UNCHANGED <<mangleVars, workVars, wireVars>>
      BY <1>3, LocalStepType
    <2> QED
      BY <1>1, <2>1, OtherOnce DEF NoNewMark, mangleVars
  <1>4. CASE MarksWorker
    <2>1. NoNewMark
      BY <1>4 DEF MarksWorker, Sweep, Restrict, NoNewMark
    <2> QED
      BY <1>1, <1>4, <2>1, OtherOnce DEF MarksWorker
  <1>5. CASE UNCHANGED vars
    BY <1>1, <1>5, OtherOnce DEF vars, NoNewMark, mangleVars
  <1> QED
    BY <1>2, <1>3, <1>4, <1>5 DEF Next

LEMMA InitOnce == Init => Once
  <1> SUFFICES ASSUME Init PROVE Once
    OBVIOUS
  <1>1. /\ marks = [m \in {} |-> {}] /\ calls = <<>> /\ answers = {}
        /\ inbox = [e \in Endpoints |-> {}] /\ pc = [w \in Workers |-> "idle"]
    BY DEF Init, MangleInit
  <1> QED
    BY <1>1 DEF Once, IdsTell, ByTo, Tokens, Flying

\* The holder of a call that names no apps answers it: that is the first answer,
\* for where there is one already nobody else is a holder.
LEMMA FirstAnswer ==
    ASSUME TypeOK, Once, Counted, UNCHANGED calls, NEW w, NEW to, NEW m, Answered(w, to, m),
           m.uid \in DOMAIN calls, NEW label \in {"patch", "respond"}, <<label, w>> \in Holders(m.uid)
    PROVE  Counted'
  <1>1. CASE Unanswered
    BY <1>1 DEF Counted, Unanswered
  <1>2. CASE ~Unanswered
    <2>1. PICK r : r = [uid |-> m.uid, to |-> to, id |-> m.id, by |-> w]
      OBVIOUS
    <2>2. /\ answers' = answers \cup {r} /\ r.uid = m.uid
          /\ delivered' = [delivered EXCEPT ![m.uid] = @ + 1]
          /\ DOMAIN delivered = 1..MaxCall
      BY <1>2, <2>1 DEF Answered, TypeOK, WireType
    <2>3. ASSUME calls[m.uid].to = {}, NEW s \in answers, s.uid = m.uid
          PROVE  FALSE
      <3>1. <<"answer", s>> \in Holders(m.uid)
        BY <2>3 DEF Holders
      <3>2. <<"answer", s>> = <<label, w>>
        BY <2>3, <3>1 DEF Once, Tokens
      <3> QED
        BY <3>2
    <2>4. ASSUME NEW u \in 1..MaxCall, u \in DOMAIN calls => calls[u].to = {}
          PROVE  delivered'[u] = 0 \/ (delivered'[u] = 1 /\ \E s \in answers' : s.uid = u)
      <3>1. delivered[u] = 0 \/ (delivered[u] = 1 /\ \E s \in answers : s.uid = u)
        BY <2>4 DEF Counted
      <3>2. CASE u = m.uid
        BY <2>2, <2>3, <2>4, <3>1, <3>2
      <3>3. CASE u # m.uid
        BY <2>2, <3>1, <3>3
      <3> QED
        BY <3>2, <3>3
    <2> QED
      BY <2>4 DEF Counted
  <1> QED
    BY <1>1, <1>2

LEMMA CountedStep ==
    ASSUME RouterAssumption, TypeOK, Linked, Once, Counted, [Next]_vars
    PROVE  Counted'
  <1>1. CallsGrow
    BY StepKeeps
  <1>2. CASE Unanswered
    BY <1>1, <1>2 DEF Unanswered, CallsGrow, Counted
  <1>3. ASSUME NEW w \in Workers, Request(w) \/ Reply(w)
        PROVE  Unanswered
    BY <1>3 DEF Request, Reply, Unanswered
  <1>4. ASSUME NEW w \in Workers, Patch(w)
        PROVE  Counted'
    <2>1. CASE item[w].kind = "req" /\ Answered(w, From(w), item[w])
      <3>1. item[w].uid \in DOMAIN calls
        BY <1>4, <2>1 DEF Patch, Linked, ItemLinked, PatchLinked, OriginalId
      <3>2. <<"patch", w>> \in Holders(item[w].uid)
        BY <1>4, <2>1 DEF Patch, Holders
      <3> QED
        BY <1>4, <2>1, <3>1, <3>2, FirstAnswer DEF Patch
    <2> QED
      BY <1>2, <1>4, <2>1 DEF Patch
  <1>5. ASSUME NEW w \in Workers, Send(w)
        PROVE  Counted'
    <2>1. PICK m : m = item[w]
      OBVIOUS
    <2>2. m \in Message /\ pc[w] = "send" /\ UNCHANGED calls
      BY <1>5, <2>1 DEF Send, TypeOK, WorkType
    <2>3. CASE m.kind = "req"
      BY <1>2, <1>5, <2>1, <2>3 DEF Send
    <2>4. CASE m.kind # "req" /\ m.to = {}
      <3>1. answers' = answers
        <4>1. PICK targets : targets = Targets(w, m)
          OBVIOUS
        <4>2. answers' = answers \cup
                {[uid |-> m.uid, to |-> addr[t.at], id |-> m.id, by |-> w] :
                   t \in {u \in targets : m.to # {}}}
          BY <1>5, <2>1, <2>4, <4>1 DEF Send
        <4>3. {u \in targets : m.to # {}} = {}
          BY <2>4
        <4> QED
          BY <4>2, <4>3
      <3>2. delivered' = delivered
        BY <1>5, <2>1, <2>4 DEF Send
      <3> QED
        BY <1>2, <3>1, <3>2 DEF Unanswered
    <2>5. CASE m.kind # "req" /\ m.to # {}
      <3>1. m.uid \in DOMAIN calls /\ calls[m.uid].to # {}
        BY <2>1, <2>2, <2>5 DEF Linked, ItemLinked, SendLinked, ReplyToCaller, OriginalId, Once, ByTo
      <3>2. answers \subseteq answers'
        BY <1>5, <2>1, <2>5 DEF Send
      <3>3. delivered' = delivered \/ delivered' = [delivered EXCEPT ![m.uid] = @ + 1]
        BY <1>5, <2>1, <2>5 DEF Send
      <3>4. DOMAIN delivered = 1..MaxCall
        BY DEF TypeOK, WireType
      <3> QED
        BY <2>2, <3>1, <3>2, <3>3, <3>4 DEF Counted
    <2> QED
      BY <2>3, <2>4, <2>5
  <1>6. ASSUME NEW w \in Workers, Respond(w)
        PROVE  Counted'
    <2>1. PICK x : x = item[w]
      OBVIOUS
    <2>2. x.res \in Message /\ pc[w] = "respond" /\ UNCHANGED calls
      BY <1>6, <2>1 DEF Respond, TypeOK, WorkType, Matched
    <2>3. x.res.uid \in DOMAIN calls
      BY <2>1, <2>2 DEF Linked, ItemLinked, RespondLinked
    <2>4. <<"respond", w>> \in Holders(x.res.uid)
      BY <2>1, <2>2 DEF Holders
    <2>5. ASSUME NEW m, m.uid = x.res.uid, Answered(w, x.to, m)
          PROVE  Counted'
      BY <2>2, <2>3, <2>4, <2>5, FirstAnswer
    <2>6. [x.res EXCEPT !.id = x.req.id].uid = x.res.uid
      BY <2>2 DEF Message
    <2> QED
      BY <1>2, <1>6, <2>1, <2>5, <2>6 DEF Respond
  <1>7. CASE \/ \E c \in Conns : LocalConn(c)
             \/ \E e \in Endpoints : Hangup(e)
             \/ CloudDial \/ CloudLost
    <2>1. UNCHANGED wireVars
      BY <1>7, LocalStepType
    <2> QED
      BY <1>2, <2>1 DEF wireVars, historyVars, Unanswered
  <1>8. CASE MarksWorker
    BY <1>2, <1>8 DEF MarksWorker, wireVars, historyVars, Unanswered
  <1>9. CASE UNCHANGED vars
    BY <1>2, <1>9 DEF vars, wireVars, historyVars, Unanswered
  <1> QED
    BY <1>2, <1>3, <1>4, <1>5, <1>6, <1>7, <1>8, <1>9 DEF Next, Worker

LEMMA InitCounted == Init => Counted
BY DEF Init, Counted

LEMMA OncePending == TypeOK /\ Linked /\ Once => PendingIdsDiffer
  <1> SUFFICES ASSUME TypeOK, Linked, Once PROVE PendingIdsDiffer
    OBVIOUS
  <1>1. ASSUME NEW e \in Endpoints, NEW x \in inbox[e], NEW y \in inbox[e],
               x.msg.from = None, y.msg.from = None, x.msg.id = y.msg.id
        PROVE  x.msg.uid = y.msg.uid
    <2>1. Flying(x.msg.id, x.msg.uid) /\ Flying(x.msg.id, y.msg.uid)
      BY <1>1 DEF Flying
    <2>2. x.msg.id \in 1..markID
      BY <2>1, FlyingSwapped
    <2>3. x.msg.uid \in 1..MaxCall /\ y.msg.uid \in 1..MaxCall
      BY DEF TypeOK, WireType, Message
    <2> QED
      BY <2>1, <2>2, <2>3 DEF Once, IdsTell
  <1> QED
    BY <1>1 DEF PendingIdsDiffer

LEMMA RouterOnce == Spec => []Once
  <1>1. Init => Once
    BY InitOnce
  <1>2. TypeOK /\ ConnsServed /\ Linked /\ Once /\ [Next]_vars => Once'
    BY OnceStep, RouterAssumption
  <1> QED
    BY <1>1, <1>2, RouterType, RouterLinked, PTL DEF Spec

\* A call that names no apps is answered at most once, however many apps were given
\* it and reply, whatever is swept, whatever the Lua script does and whichever ids
\* the callers choose (mangle.go:26).
THEOREM CallsAnsweredOnce == Spec => []AnsweredOnce
  <1>1. Init => Counted
    BY InitCounted
  <1>2. TypeOK /\ ConnsServed /\ Linked /\ Once /\ Counted /\ [Next]_vars => Counted'
    BY CountedStep, RouterAssumption
  <1>3. TypeOK /\ Counted => AnsweredOnce
    <2> SUFFICES ASSUME TypeOK, Counted, NEW u \in DOMAIN calls, calls[u].to = {}
                 PROVE  delivered[u] <= 1
      BY DEF AnsweredOnce
    <2>1. DOMAIN calls = 1..Len(calls) /\ Len(calls) \in Nat /\ Len(calls) <= MaxCall
      BY DEF TypeOK, WireType
    <2>2. u \in 1..MaxCall
      BY <2>1, RouterAssumption DEF RouterAssumption
    <2> QED
      BY <2>2 DEF Counted
  <1> QED
    BY <1>1, <1>2, <1>3, RouterOnce, RouterType, RouterLinked, PTL DEF Spec

\* Calls that wait at one endpoint through the marks table differ in their ids,
\* whichever ids their callers have chosen (miio.go:142).
THEOREM WaitingIdsDiffer == Spec => []PendingIdsDiffer
  BY OncePending, RouterOnce, RouterType, RouterLinked, PTL
-----------------------------------------------------------------------------
(***************************************************************************)
(* What is acknowledged was reported.                                      *)
(***************************************************************************)
\* Where goroutine w is, and what was marked, no new acknowledgement comes from.
LEMMA ReportsKept ==
    ASSUME ReportsFirst, published \subseteq published', mistaken \subseteq mistaken', NEW w \in Workers, Moves(w),
           \/ pc'[w] # "patch" \/ item'[w].to # {} \/ w \notin Conns
           \/ item'[w].kind # "req" \/ item'[w].method \in Local
           \/ Reported(item'[w].uid, published'),
           \A i \in DOMAIN marks' :
              \/ i \in DOMAIN marks /\ marks'[i] = marks[i]
              \/ marks'[i].msg.kind = "req" /\ marks'[i].addr \in Addr /\ marks'[i].msg.method \notin Local =>
                    Reported(marks'[i].msg.uid, published),
           \A p \in published' : p.topic = "report_ack" =>
              p \in published \/ p.uid \in mistaken' \/ Reported(p.uid, published)
    PROVE  ReportsFirst'
  <1>1. \A u : Reported(u, published) => Reported(u, published')
    BY DEF Reported
  <1>2. ASSUME NEW v \in Conns, pc'[v] = "patch", item'[v].kind = "req", item'[v].to = {},
               item'[v].method \notin Local
        PROVE  Reported(item'[v].uid, published')
    <2>1. CASE v = w
      BY <1>2, <2>1
    <2>2. CASE v # w
      <3>1. v \in Workers
        BY DEF Workers
      <3>2. pc[v] = "patch" /\ item'[v] = item[v]
        BY <1>2, <2>2, <3>1 DEF Moves
      <3>3. Reported(item[v].uid, published)
        BY <1>2, <3>2 DEF ReportsFirst
      <3> QED
        BY <1>1, <3>2, <3>3
    <2> QED
      BY <2>1, <2>2
  <1>3. ASSUME NEW i \in DOMAIN marks', marks'[i].msg.kind = "req", marks'[i].addr \in Addr,
               marks'[i].msg.method \notin Local
        PROVE  Reported(marks'[i].msg.uid, published')
    <2>1. i \in DOMAIN marks /\ marks'[i] = marks[i] => Reported(marks'[i].msg.uid, published)
      BY <1>3 DEF ReportsFirst
    <2> QED
      BY <1>1, <1>3, <2>1
  <1>4. ASSUME NEW p \in published', p.topic = "report_ack", p.uid \notin mistaken'
        PROVE  Reported(p.uid, published')
    <2>1. p \in published => Reported(p.uid, published)
      BY <1>4 DEF ReportsFirst, AckReported, Reported
    <2> QED
      BY <1>1, <1>4, <2>1
  <1>5. AckReported'
    BY <1>4 DEF AckReported, Reported
  <1> QED
    BY <1>2, <1>3, <1>5 DEF ReportsFirst

LEMMA RouteReports ==
    ASSUME RouterAssumption, TypeOK, Linked, Once, ReportsFirst,
           NEW w \in Workers, Reads(w), NEW m \in Message, Route(w, m),
           OwnId(m) \/ Flying(m.id, m.uid)
    PROVE  ReportsFirst'
  <1>1. WorkType /\ w \in DOMAIN pc /\ w \in DOMAIN item
    BY DEF TypeOK, WorkType
  <1>2. CASE RouteToApps(w, m)
    <2>1. published' = published /\ marks' = marks /\ m.to # {} /\ mistaken' = mistaken
      BY <1>2 DEF RouteToApps, mangleVars
    <2>2. CASE UNCHANGED workVars
      <3>1. Moves(w) /\ pc'[w] # "patch"
        BY <2>2 DEF workVars, Moves, Reads
      <3> QED
        BY <2>1, <3>1, ReportsKept
    <2>3. CASE Enter(w, "patch", [m EXCEPT !.from = From(w)])
      <3>1. PICK x : x = [m EXCEPT !.from = From(w)]
        OBVIOUS
      <3>2. x.to # {}
        BY <2>1, <3>1 DEF Message
      <3>3. Moves(w) /\ item'[w] = x
        BY <1>1, <2>3, <3>1, EnterMoves
      <3> QED
        BY <2>1, <3>2, <3>3, ReportsKept
    <2> QED
      BY <1>2, <2>2, <2>3 DEF RouteToApps
  <1>3. CASE RouteRequest(w, m)
    <2>1. Moves(w) /\ item'[w] = m /\ marks' = marks /\ mistaken' = mistaken
      BY <1>1, <1>3, EnterMoves DEF RouteRequest, mangleVars
    <2>2. published \subseteq published'
      BY <1>3 DEF RouteRequest
    <2>3. w \in Conns /\ m.method \notin Local /\ m.kind = "req" => Reported(m.uid, published')
      BY <1>3 DEF RouteRequest, Reported
    <2>4. \A p \in published' : p.topic = "report_ack" => p \in published
      BY <1>3 DEF RouteRequest
    <2> QED
      BY <2>1, <2>2, <2>3, <2>4, ReportsKept
  <1>4. CASE RouteResponse(w, m)
    <2>1. m.id \in DOMAIN marks /\ FindMessage(m)
      BY <1>4 DEF RouteResponse, Marked
    <2>2. ASSUME ~OwnId(m)
          PROVE  marks[m.id].msg.kind = "req" /\ marks[m.id].msg.uid = m.uid
      <3>1. Flying(m.id, m.uid) /\ m.uid \in 1..MaxCall
        BY <2>2 DEF Message
      <3> QED
        BY <2>1, <3>1, FlyingSwapped DEF Once, IdsTell
    <2>3. mistaken \subseteq mistaken' /\ (OwnId(m) => m.uid \in mistaken')
      BY <1>4 DEF RouteResponse
    <2>4. Moves(w) /\ pc'[w] = "respond"
      BY <1>1, <1>4, EnterMoves DEF RouteResponse
    <2>5. \A i \in DOMAIN marks' : i \in DOMAIN marks /\ marks'[i] = marks[i]
      BY <2>1 DEF FindMessage, Restrict
    <2>6. published \subseteq published'
      BY <1>4 DEF RouteResponse
    <2>7. ASSUME NEW p \in published', p.topic = "report_ack", p \notin published
          PROVE  p.uid \in mistaken' \/ Reported(p.uid, published)
      <3>1. p.uid = m.uid /\ marks[m.id].addr \in Addr /\ marks[m.id].msg.method \notin Local
        BY <1>4, <2>7 DEF RouteResponse
      <3> QED
        BY <2>1, <2>2, <2>3, <3>1 DEF ReportsFirst
    <2> QED
      BY <2>3, <2>4, <2>5, <2>6, <2>7, ReportsKept
  <1> QED
    BY <1>2, <1>3, <1>4 DEF Route

\* The mark that a request gets names the app that has been reported.
LEMMA PatchReports ==
    ASSUME RouterAssumption, TypeOK, ReportsFirst, "rewrite" \notin May, NEW w \in Workers, Patch(w)
    PROVE  ReportsFirst'
  <1>1. PICK m : m = item[w]
    OBVIOUS
  <1>2. m \in Message /\ pc[w] = "patch" /\ UNCHANGED <<published, mistaken>> /\ WorkType
    BY <1>1 DEF Patch, TypeOK, WorkType
  <1>3. CASE Leave(w) /\ UNCHANGED mangleVars
    <2>1. Moves(w) /\ pc'[w] = "idle" /\ marks' = marks
      BY <1>2, <1>3, EnterMoves DEF Leave, mangleVars
    <2> QED
      BY <1>2, <2>1, ReportsKept
  <1>4. CASE Forward(w, m)
    <2>1. CASE m.to # {}
      <3>1. Moves(w) /\ pc'[w] = "send" /\ marks' = marks
        BY <1>2, <1>4, <2>1, EnterMoves DEF Forward, mangleVars
      <3> QED
        BY <1>2, <3>1, ReportsKept
    <2>2. CASE m.to = {}
      <3>1. PICK x : x = Swapped(m)
        OBVIOUS
      <3>2. x.kind = m.kind /\ x.uid = m.uid /\ x.method = m.method
        BY <1>2, <3>1 DEF Swapped, Message
      <3>3. Moves(w) /\ pc'[w] = "send" /\ MarkMessage(m, From(w))
        BY <1>2, <1>4, <2>2, EnterMoves DEF Forward
      <3>4. \A i \in DOMAIN marks' :
               \/ i \in DOMAIN marks /\ marks'[i] = marks[i]
               \/ marks'[i].msg = x /\ marks'[i].addr = From(w)
        BY <3>1, <3>3 DEF MarkMessage
      <3>5. From(w) \in Addr => w \in Conns
        BY DEF From, Workers, RouterAssumption
      <3>6. m.kind = "req" /\ From(w) \in Addr /\ m.method \notin Local => Reported(m.uid, published)
        BY <1>1, <1>2, <2>2, <3>5 DEF ReportsFirst
      <3>7. \A i \in DOMAIN marks' :
               \/ i \in DOMAIN marks /\ marks'[i] = marks[i]
               \/ marks'[i].msg.kind = "req" /\ marks'[i].addr \in Addr /\ marks'[i].msg.method \notin Local =>
                     Reported(marks'[i].msg.uid, published)
        BY <3>2, <3>4, <3>6
      <3> QED
        BY <1>2, <3>3, <3>7, ReportsKept
    <2> QED
      BY <2>1, <2>2
  <1> QED
    BY <1>1, <1>3, <1>4 DEF Patch

LEMMA ReportsStep ==
    ASSUME RouterAssumption, "rewrite" \notin May,
           TypeOK, Linked, Once, ReportsFirst, [Next]_vars
    PROVE  ReportsFirst'
  <1>1. ASSUME NEW w \in Workers, Request(w)
        PROVE  ReportsFirst'
    <2>1. PICK m : Route(w, m) /\ Reads(w) /\ m \in Message /\ OwnId(m)
      <3>1. PICK id \in Ids, k \in AnyMethod,
                 to \in {None} \cup (IF w \in Conns THEN Masks ELSE IF w = Mqtt THEN MqttMasks ELSE {}) :
              LET mask == IF to = None THEN {} ELSE to
              IN  /\ calls' = Append(calls, [by |-> From(w), id |-> id, to |-> mask])
                  /\ Route(w, [kind |-> "req", uid |-> Len(calls) + 1, id |-> id,
                               hasTo |-> to # None, to |-> mask, from |-> None, method |-> k])
        BY <1>1 DEF Request
      <3>2. PICK mask : mask = IF to = None THEN {} ELSE to
        OBVIOUS
      <3>3. PICK m : m = [kind |-> "req", uid |-> Len(calls) + 1, id |-> id,
                          hasTo |-> to # None, to |-> mask, from |-> None, method |-> k]
        OBVIOUS
      <3>4. mask \in SUBSET Addr
        BY <3>2 DEF RouterAssumption
      <3>5. Len(calls) + 1 \in 1..MaxCall
        BY <1>1 DEF Request, TypeOK, WireType, RouterAssumption
      <3>6. m \in Message /\ OwnId(m)
        BY <3>3, <3>4, <3>5 DEF Message, OwnId
      <3>7. Route(w, m) /\ Reads(w)
        BY <1>1, <3>1, <3>2, <3>3 DEF Request
      <3> QED
        BY <3>6, <3>7
    <2> QED
      BY <2>1, RouteReports
  <1>2. ASSUME NEW w \in Workers, Reply(w)
        PROVE  ReportsFirst'
    <2>1. PICK x \in inbox[w] : Route(w, ReplyTo(x.msg))
      BY <1>2 DEF Reply
    <2>2. PICK m : m = ReplyTo(x.msg)
      OBVIOUS
    <2>3. w \in Endpoints /\ Reads(w) /\ x.msg \in Message
      BY <1>2 DEF Reply, TypeOK, WireType
    <2>4. m \in Message /\ m.id = x.msg.id /\ m.uid = x.msg.uid /\ m.hasTo = (x.msg.from # None)
      <3>1. m \in Message
        BY <2>2, <2>3, ReplyToType
      <3> QED
        BY <2>2, <2>3, <3>1 DEF ReplyTo, Message
    <2>5. OwnId(m) \/ Flying(m.id, m.uid)
      <3>1. CASE x.msg.from = None
        BY <2>3, <2>4, <3>1 DEF Flying
      <3>2. CASE x.msg.from # None
        BY <2>4, <3>2 DEF OwnId
      <3> QED
        BY <3>1, <3>2
    <2>6. Route(w, m)
      BY <2>1, <2>2
    <2> QED
      BY <2>3, <2>4, <2>5, <2>6, RouteReports
  <1>3. ASSUME NEW w \in Workers, Send(w) \/ Respond(w)
        PROVE  ReportsFirst'
    <2>1. Leave(w) /\ UNCHANGED <<published, marks, mistaken>> /\ WorkType
      BY <1>3 DEF Send, Respond, mangleVars, TypeOK
    <2>2. Moves(w) /\ pc'[w] = "idle"
      BY <2>1, EnterMoves DEF Leave
    <2> QED
      BY <2>1, <2>2, ReportsKept
  <1>4. ASSUME NoNewMark, UNCHANGED <<workVars, wireVars>>
        PROVE  ReportsFirst'
    BY <1>4 DEF NoNewMark, workVars, wireVars, historyVars, ReportsFirst, AckReported, Reported
  <1>5. CASE \/ \E c \in Conns : LocalConn(c)
             \/ \E e \in Endpoints : Hangup(e)
             \/ CloudDial \/ CloudLost
    <2>1. UNCHANGED <<mangleVars, workVars, wireVars>>
      BY <1>5, LocalStepType
    <2> QED
      BY <1>4, <2>1 DEF NoNewMark, mangleVars
  <1>6. CASE MarksWorker
    <2>1. NoNewMark
      BY <1>6 DEF MarksWorker, Sweep, Restrict, NoNewMark
    <2> QED
      BY <1>4, <1>6, <2>1 DEF MarksWorker
  <1>7. CASE UNCHANGED vars
    BY <1>4, <1>7 DEF vars, NoNewMark, mangleVars
  <1> QED
    BY <1>1, <1>2, <1>3, <1>5, <1>6, <1>7, PatchReports DEF Next, Worker

LEMMA InitReports == Init => ReportsFirst
  <1> SUFFICES ASSUME Init PROVE ReportsFirst
    OBVIOUS
  <1>1. DOMAIN marks = {} /\ published = {} /\ \A w \in Conns : pc[w] = "idle"
    BY DEF Init, MangleInit, Workers
  <1> QED
    BY <1>1 DEF ReportsFirst, AckReported

\* Whatever MQTT sees acknowledged on miio/report_ack it has seen reported before,
\* but for what was mistaken, unless a script makes another request of a local. one
\* (miio.go:109-111, 121-123).
THEOREM AcksAreReported ==
    ASSUME "rewrite" \notin May
    PROVE  Spec => []AckReported
  <1>1. Init => ReportsFirst
    BY InitReports
  <1>2. TypeOK /\ ConnsServed /\ Linked /\ Once /\ ReportsFirst /\ [Next]_vars => ReportsFirst'
    BY ReportsStep, RouterAssumption
  <1>3. ReportsFirst => AckReported
    BY DEF ReportsFirst
  <1> QED
    BY <1>1, <1>2, <1>3, RouterType, RouterLinked, RouterOnce, PTL DEF Spec
=============================================================================
