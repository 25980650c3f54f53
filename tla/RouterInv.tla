------------------------------ MODULE RouterInv ------------------------------
(***************************************************************************)
(* Why every response goes home: the inductive invariant behind            *)
(* AnswersGoHome and TrueIds of module Router.  It follows a call's        *)
(* request and replies through every place where they can be.              *)
(***************************************************************************)
EXTENDS Router

\* Message m belongs to a call, and carries its original id.
OriginalId(m) == m.uid \in DOMAIN calls /\ m.id = calls[m.uid].id

\* Message m went, or is about to go, through the marks table: its id is one
\* the agent gave out, and if that mark is still there it leads back to the
\* call of m.
SwappedId(m) ==
    /\ m.uid \in DOMAIN calls
    /\ m.id \in 1..markID
    /\ m.id \in DOMAIN marks =>
         /\ marks[m.id].msg.uid = m.uid
         /\ marks[m.id].addr = calls[m.uid].by
         /\ marks[m.id].id = calls[m.uid].id

\* A request on its way to apps (_to) or delivered to them carries the
\* caller's id and address.
SentToApps(m) == OriginalId(m) /\ m.from = calls[m.uid].by

\* Requests that wait for a reply.
InboxLinked ==
    \A e \in Endpoints : \A x \in inbox[e] :
       /\ x.msg.kind = "req"
       /\ IF x.msg.from = None THEN SwappedId(x.msg) ELSE SentToApps(x.msg)

\* A reply that goes back by its _to is on its way to the caller.
ReplyToCaller(m) == OriginalId(m) /\ m.to = {calls[m.uid].by}

PatchLinked(w) == pc[w] = "patch" =>
    LET m == item[w]
    IN IF m.kind = "req"
       THEN /\ OriginalId(m) /\ calls[m.uid].by = From(w)
            /\ m.from = IF m.to = {} THEN None ELSE From(w)
       ELSE m.to # {} => ReplyToCaller(m)

SendLinked(w) == pc[w] = "send" =>
    LET m == item[w]
    IN IF m.kind = "req"
       THEN IF m.to = {} THEN m.from = None /\ SwappedId(m) ELSE SentToApps(m)
       ELSE m.to # {} => ReplyToCaller(m)

\* A matched response leads to the caller of the very call it belongs to, unless
\* it was matched by an id that its own caller had chosen.
RespondLinked(w) == pc[w] = "respond" =>
    LET m == item[w].res
    IN  /\ m.uid \in DOMAIN calls
        /\ m.uid \notin mistaken => OriginalId(m) /\ item[w].to = calls[m.uid].by

ItemLinked(w) == PatchLinked(w) /\ SendLinked(w) /\ RespondLinked(w)

\* A call is mistaken only under an id that the agent has given out too.
MistakenIds == \A u \in mistaken : u \in DOMAIN calls /\ calls[u].id \in 1..markID

\* Every request in flight, every reply in flight and every answer given is
\* linked to its call: who made it, and with which id (miio.go:92-184,
\* mangle.go:9-32).  The script may spoil the id only at the very end.
Linked ==
    /\ InboxLinked
    /\ \A w \in Workers : ItemLinked(w)
    /\ MistakenIds
    /\ AnswersGoHome
    /\ "replace" \notin May => TrueIds
=============================================================================
