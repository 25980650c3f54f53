------------------------------- MODULE Links --------------------------------
(***************************************************************************)
(* The goroutines of internal/miio that share the connections: one per     *)
(* connection of an app (localClientWorker) and the cloud's (cloudWorker). *)
(* The table conns is under mu, a sync.RWMutex: bind, register and close   *)
(* take it to write, and the three ways to send hold it to read WHILE they *)
(* write to the sockets, which hold Cap messages.  The link to the cloud,  *)
(* conn0, is under no lock at all.                                         *)
(*                                                                         *)
(* Module Router says where a message goes; here it may go anywhere.  The  *)
(* MQTT worker sends as these do, and is left out.                         *)
(***************************************************************************)
EXTENDS Naturals

CONSTANTS
    Conns,      \* connections that apps make, each once
    Addr,       \* addresses that apps bind
    Patient,    \* those of Conns whose app goes on reading
    Cap,        \* messages that a socket holds
    None        \* no connection, no address, no writer

Cloud == "cloud"
Workers == Conns \cup {Cloud}

ASSUME LinksAssumption ==
    /\ Patient \subseteq Conns /\ Cap \in Nat \ {0}
    /\ None \notin Conns \cup Addr \cup Workers

VARIABLES
    sock,       \* each connection: new, open, or closed by the app
    from,       \* the address each connection bound, or None
    conns,      \* conns[a]: the connection that stands for a, or None
    readers,    \* mu: who holds it to read
    writer,     \* mu: who waits for the readers to leave; nobody enters meanwhile
    pc,         \* where each worker is
    want,       \* the addresses it sends to
    todo, now,  \* the connections it has yet to write to, and the one it writes to
    down,       \* messages in each socket that the app has not read
    conn0,      \* the link to the cloud: up, or nil
    lost,       \* the link that was dialled last is lost
    panicked

lock == <<readers, writer>>
work == <<pc, want, todo, now>>
cloud == <<conn0, lost>>
vars == <<sock, from, conns, lock, work, down, cloud, panicked>>

Registered == {conns[a] : a \in Addr} \ {None}
At(w, at) == pc' = [pc EXCEPT ![w] = at]

Init ==
    /\ sock = [c \in Conns |-> "new"]
    /\ from = [c \in Conns |-> None]
    /\ conns = [a \in Addr |-> None]
    /\ readers = {} /\ writer = None
    /\ pc = [w \in Workers |-> IF w = Cloud THEN "dial" ELSE "new"]
    /\ want = [w \in Workers |-> {}]
    /\ todo = [w \in Workers |-> {}]
    /\ now = [w \in Workers |-> None]
    /\ down = [c \in Conns |-> 0]
    /\ conn0 = "nil" /\ lost = FALSE
    /\ panicked = FALSE
-----------------------------------------------------------------------------
(***************************************************************************)
(* A message comes in.                                                     *)
(***************************************************************************)
Accept(c) ==
    /\ sock[c] = "new" /\ pc[c] = "new"
    /\ sock' = [sock EXCEPT ![c] = "open"]
    /\ At(c, "read")
    /\ UNCHANGED <<from, conns, lock, want, todo, now, down, cloud, panicked>>

Reads(w) == pc[w] = "read" /\ (w = Cloud => ~lost) /\ (w \in Conns => sock[w] = "open")

\* The first message that counts is a bind; from is set before the lock is taken.
TakeBind(c, a) ==
    /\ Reads(c) /\ from[c] = None
    /\ from' = [from EXCEPT ![c] = a]
    /\ At(c, "bind")
    /\ UNCHANGED <<sock, conns, lock, want, todo, now, down, cloud, panicked>>

TakeRegister(c) ==
    /\ Reads(c) /\ from[c] # None
    /\ At(c, "register")
    /\ UNCHANGED <<sock, from, conns, lock, want, todo, now, down, cloud, panicked>>

\* sendToMulticast, sendToMethod, sendToUnicast: to the apps at some addresses.
TakeForApps(w, to) ==
    /\ Reads(w) /\ (w \in Conns => from[w] # None)
    /\ want' = [want EXCEPT ![w] = to]
    /\ At(w, "rlock")
    /\ UNCHANGED <<sock, from, conns, lock, todo, now, down, cloud, panicked>>

TakeForCloud(w) ==
    /\ Reads(w) /\ (w \in Conns => from[w] # None)
    /\ At(w, "check")
    /\ UNCHANGED <<sock, from, conns, lock, want, todo, now, down, cloud, panicked>>

\* Fault: the goroutine returns at the error.
ReadEndsAtOnce(c) ==
    /\ pc[c] = "read" /\ sock[c] = "closed"
    /\ At(c, "done")
    /\ UNCHANGED <<sock, from, conns, lock, want, todo, now, down, cloud, panicked>>

ReadEnds(c) ==
    /\ pc[c] = "read" /\ sock[c] = "closed"
    /\ At(c, IF from[c] = None THEN "done" ELSE "delete")
    /\ UNCHANGED <<sock, from, conns, lock, want, todo, now, down, cloud, panicked>>
-----------------------------------------------------------------------------
(***************************************************************************)
(* mu.Lock and mu.Unlock.  Lock first keeps out new readers, then waits    *)
(* for those inside; Unlock lets in all readers that wait before the next  *)
(* writer.                                                                 *)
(***************************************************************************)
Announce(c) ==
    /\ pc[c] \in {"bind", "register", "delete"} /\ writer = None
    /\ writer' = c
    /\ UNCHANGED <<sock, from, conns, readers, work, down, cloud, panicked>>

Waiting == {w \in Workers : pc[w] = "rlock"}

\* Those in S are inside, with the connections they find.
Enter(S, after) ==
    /\ readers' = readers \cup S
    /\ todo' = [w \in Workers |-> IF w \in S THEN {after[a] : a \in want[w]} \ {None} ELSE todo[w]]
    /\ want' = [w \in Workers |-> IF w \in S THEN {} ELSE want[w]]

Written(c) ==
    CASE pc[c] = "bind" -> [conns EXCEPT ![from[c]] = c]
      [] pc[c] = "delete" -> [conns EXCEPT ![from[c]] = None]
      [] OTHER -> conns

Update(c) ==
    /\ conns' = Written(c)
    /\ writer' = None
    /\ Enter(Waiting, Written(c))
    /\ pc' = [w \in Workers |->
                 IF w \in Waiting THEN "send"
                 ELSE IF w # c THEN pc[w]
                 ELSE IF pc[c] = "delete" THEN "done" ELSE "read"]
    /\ UNCHANGED <<sock, from, now, down, cloud, panicked>>

\* Fault: the senders do not take the lock that the writers wait for.
UnderLockAlone(c) == writer = c /\ Update(c)

UnderLock(c) == writer = c /\ readers = {} /\ Update(c)
-----------------------------------------------------------------------------
(***************************************************************************)
(* Sending to apps: RLock, the writes in any order, RUnlock.               *)
(***************************************************************************)
RLock(w) ==
    /\ pc[w] = "rlock" /\ writer = None
    /\ Enter({w}, conns)
    /\ At(w, "send")
    /\ UNCHANGED <<sock, from, conns, writer, now, down, cloud, panicked>>

Picks(w, c) ==
    /\ pc[w] = "send" /\ c \in todo[w]
    /\ now' = [now EXCEPT ![w] = c]
    /\ todo' = [todo EXCEPT ![w] = @ \ {c}]
    /\ At(w, "write")
    /\ UNCHANGED <<sock, from, conns, lock, want, down, cloud, panicked>>

Written1(w) == now' = [now EXCEPT ![w] = None]

\* Fault: an error is a reason to return, with the lock held.
WriteReturns(w) ==
    /\ pc[w] = "write"
    /\ Written1(w)
    /\ IF sock[now[w]] = "closed"
         THEN At(w, "read") /\ todo' = [todo EXCEPT ![w] = {}] /\ UNCHANGED down
         ELSE /\ down[now[w]] < Cap /\ down' = [down EXCEPT ![now[w]] = @ + 1]
              /\ At(w, "send") /\ UNCHANGED todo
    /\ UNCHANGED <<sock, from, conns, lock, want, cloud, panicked>>

\* conn.Write waits for room, or fails, which is logged.
Write(w) ==
    /\ pc[w] = "write"
    /\ Written1(w)
    /\ \/ sock[now[w]] = "closed" /\ UNCHANGED down
       \/ sock[now[w]] = "open" /\ down[now[w]] < Cap /\ down' = [down EXCEPT ![now[w]] = @ + 1]
    /\ At(w, "send")
    /\ UNCHANGED <<sock, from, conns, lock, want, todo, cloud, panicked>>

RUnlock(w) ==
    /\ pc[w] = "send" /\ todo[w] = {}
    /\ readers' = readers \ {w}
    /\ At(w, "read")
    /\ UNCHANGED <<sock, from, conns, writer, want, todo, now, down, cloud, panicked>>
-----------------------------------------------------------------------------
(***************************************************************************)
(* The link to the cloud.  A write to it holds no lock: it is taken to     *)
(* find room, or to fail.                                                  *)
(***************************************************************************)
Dial ==
    /\ pc[Cloud] = "dial"
    /\ conn0' = "up"
    /\ lost' = FALSE
    /\ At(Cloud, "read")
    /\ UNCHANGED <<sock, from, conns, lock, want, todo, now, down, panicked>>

CloudReadFails ==
    /\ pc[Cloud] = "read" /\ lost
    /\ conn0' = "nil"
    /\ At(Cloud, "dial")
    /\ UNCHANGED <<sock, from, conns, lock, want, todo, now, down, lost, panicked>>

\* if conn0 != nil
CloudCheck(w) ==
    /\ pc[w] = "check"
    /\ At(w, IF conn0 = "nil" THEN "read" ELSE "load")
    /\ UNCHANGED <<sock, from, conns, lock, want, todo, now, down, cloud, panicked>>

\* conn0.Write reads the variable once more.
CloudWrite(w) ==
    /\ pc[w] = "load"
    /\ panicked' = (conn0 = "nil")
    /\ At(w, "read")
    /\ UNCHANGED <<sock, from, conns, lock, want, todo, now, down, cloud>>
-----------------------------------------------------------------------------
(***************************************************************************)
(* The other ends.                                                         *)
(***************************************************************************)
AppReads(c) ==
    /\ sock[c] = "open" /\ down[c] > 0
    /\ down' = [down EXCEPT ![c] = @ - 1]
    /\ UNCHANGED <<sock, from, conns, lock, work, cloud, panicked>>

Hangup(c) ==
    /\ sock[c] = "open"
    /\ sock' = [sock EXCEPT ![c] = "closed"]
    /\ down' = [down EXCEPT ![c] = 0]
    /\ UNCHANGED <<from, conns, lock, work, cloud, panicked>>

CloudLost ==
    /\ conn0 = "up" /\ ~lost
    /\ lost' = TRUE
    /\ UNCHANGED <<sock, from, conns, lock, work, down, conn0, panicked>>
-----------------------------------------------------------------------------
Takes(w) ==
    \/ \E to \in SUBSET Addr : TakeForApps(w, to)
    \/ TakeForCloud(w)

Sends(w) ==
    \/ RLock(w) \/ Write(w) \/ RUnlock(w)
    \/ \E c \in Conns : Picks(w, c)
    \/ CloudCheck(w) \/ CloudWrite(w)

localClientWorker(c) ==
    \/ Accept(c) \/ TakeRegister(c) \/ ReadEnds(c) \/ Announce(c) \/ UnderLock(c)
    \/ \E a \in Addr : TakeBind(c, a)

Next ==
    /\ ~panicked
    /\ \/ \E w \in Workers : Takes(w) \/ Sends(w)
       \/ \E c \in Conns : localClientWorker(c) \/ AppReads(c) \/ Hangup(c)
       \/ Dial \/ CloudReadFails \/ CloudLost

\* Goroutines run on.  A Lock that waits for another writer gets its turn (the
\* mutex between writers is handed over to who waited a millisecond), and so do
\* writes to one socket (a queue in the runtime's descriptor).  Patient
\* apps read on.  Nobody has to send, bind, hang up or be lost.
Fairness ==
    /\ \A w \in Workers : SF_vars(~panicked /\ Sends(w))
    /\ \A c \in Conns :
          /\ SF_vars(~panicked /\ Announce(c))
          /\ WF_vars(~panicked /\ UnderLock(c))
          /\ WF_vars(~panicked /\ ReadEnds(c))
    /\ \A c \in Patient : WF_vars(~panicked /\ AppReads(c))
    /\ WF_vars(~panicked /\ CloudReadFails)

Spec == Init /\ [][Next]_vars /\ Fairness
-----------------------------------------------------------------------------
TypeOK ==
    /\ sock \in [Conns -> {"new", "open", "closed"}]
    /\ from \in [Conns -> Addr \cup {None}]
    /\ conns \in [Addr -> Conns \cup {None}]
    /\ readers \subseteq Workers
    /\ writer \in Conns \cup {None}
    /\ pc \in [Workers -> {"new", "dial", "read", "done", "bind", "register", "delete",
                           "rlock", "send", "write", "check", "load"}]
    /\ want \in [Workers -> SUBSET Addr]
    /\ todo \in [Workers -> SUBSET Conns]
    /\ now \in [Workers -> Conns \cup {None}]
    /\ down \in [Conns -> 0..Cap]
    /\ conn0 \in {"nil", "up"} /\ lost \in BOOLEAN
    /\ panicked \in BOOLEAN

\* What a sender has yet to write goes to connections that stand in the table at
\* that moment: none of them is removed or replaced under its hands, though the
\* writes may wait for as long as an app likes (local.go:92-129, under mu.RLock).
WritesRegistered == \A w \in readers : todo[w] \cup ({now[w]} \ {None}) \subseteq Registered

\* Whoever has taken a message is done with it in the end, whatever binds, closes
\* and losses come in between, or the process is gone: no waiting for a full
\* socket with mu held closes a circle as long as every app reads on
\* (local.go:57-59, 68-71, 82-84, 92-129, cloud.go:50-56).
HandlersReturn ==
    \A w \in Workers : pc[w] \notin {"new", "dial", "read", "done"} ~>
                          (pc[w] \in {"dial", "read", "done"} \/ panicked)

\* A connection that its app has closed is not in the table in the end, although
\* its goroutine may be waiting, to bind it, behind others (local.go:79-86).
ClosedForgotten ==
    \A c \in Conns : sock[c] = "closed" ~> ((pc[c] = "done" /\ c \notin Registered) \/ panicked)

\* sendToCloud survives whatever cloudWorker does with conn0 (cloud.go:50-53).
NoPanic == ~panicked
=============================================================================
