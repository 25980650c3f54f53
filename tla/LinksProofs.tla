---------------------------- MODULE LinksProofs -----------------------------
(***************************************************************************)
(* Theorems about module Links, for any connections, addresses and socket  *)
(* sizes: the types of its state, and that nobody writes to a connection   *)
(* that has left the table meanwhile.  The argument: whoever is inside mu  *)
(* to read is sending, what it has left to write was taken from the table  *)
(* when it entered, and the table changes only when nobody is inside.      *)
(***************************************************************************)
EXTENDS Links, TLAPS

\* Who holds mu to read is between RLock and RUnlock, and only who is writing has
\* picked a connection (local.go:92-129).
InsideSends ==
    /\ \A w \in Workers : w \in readers <=> pc[w] \in {"send", "write"}
    /\ \A w \in Workers : pc[w] # "write" => now[w] = None

IInv == TypeOK /\ InsideSends /\ WritesRegistered

\* The table of a bind or a close is a table again.
LEMMA WrittenType ==
    ASSUME TypeOK, NEW c \in Conns
    PROVE  Written(c) \in [Addr -> Conns \cup {None}]
  BY DEF TypeOK, Written

LEMMA InvInit == Init => IInv
  <1> SUFFICES ASSUME Init PROVE IInv
    OBVIOUS
  <1>1. TypeOK
    <2>1. Cap \in Nat /\ 0 \in 0..Cap
      BY LinksAssumption
    <2>2. down \in [Conns -> 0..Cap]
      BY <2>1 DEF Init
    <2>3. /\ sock \in [Conns -> {"new", "open", "closed"}]
          /\ from \in [Conns -> Addr \cup {None}]
          /\ conns \in [Addr -> Conns \cup {None}]
          /\ readers \subseteq Workers /\ writer \in Conns \cup {None}
          /\ conn0 \in {"nil", "up"} /\ lost \in BOOLEAN /\ panicked \in BOOLEAN
      BY DEF Init
    <2>4. /\ pc \in [Workers -> {"new", "dial"}]
          /\ want \in [Workers -> SUBSET Addr]
          /\ todo \in [Workers -> SUBSET Conns]
          /\ now \in [Workers -> Conns \cup {None}]
      BY DEF Init
    <2> QED
      BY <2>2, <2>3, <2>4 DEF TypeOK
  <1>2. InsideSends
    BY DEF Init, InsideSends
  <1>3. WritesRegistered
    BY DEF Init, WritesRegistered
  <1> QED
    BY <1>1, <1>2, <1>3 DEF IInv

-----------------------------------------------------------------------------
(***************************************************************************)
(* Types.                                                                  *)
(***************************************************************************)
LEMMA TypeNext == TypeOK /\ [Next]_vars => TypeOK'
  <1> SUFFICES ASSUME TypeOK, [Next]_vars PROVE TypeOK'
    OBVIOUS
  <1> USE DEF TypeOK, lock, work, cloud, At
  <1>1. ASSUME NEW w \in Workers, Takes(w) PROVE TypeOK'
    BY <1>1 DEF Takes, TakeForApps, TakeForCloud
  <1>2. ASSUME NEW w \in Workers, Sends(w) PROVE TypeOK'
    <2>1. CASE RLock(w)
      <3>1. \A v \in Workers : {conns[a] : a \in want[v]} \ {None} \in SUBSET Conns
        OBVIOUS
      <3>2. /\ todo' \in [Workers -> SUBSET Conns]
            /\ want' \in [Workers -> SUBSET Addr]
            /\ readers' \subseteq Workers
        BY <2>1, <3>1 DEF RLock, Enter
      <3>3. pc' \in [Workers -> {"new", "dial", "read", "done", "bind", "register", "delete",
                                 "rlock", "send", "write", "check", "load"}]
        BY <2>1 DEF RLock
      <3> QED
        BY <2>1, <3>2, <3>3 DEF RLock
    <2>2. CASE Write(w)
      <3>1. Cap \in Nat
        BY LinksAssumption
      <3>2. down' \in [Conns -> 0..Cap]
        BY <2>2, <3>1 DEF Write
      <3>3. now' \in [Workers -> Conns \cup {None}]
        BY <2>2 DEF Write, Written1
      <3>4. pc' \in [Workers -> {"new", "dial", "read", "done", "bind", "register", "delete",
                                 "rlock", "send", "write", "check", "load"}]
        BY <2>2 DEF Write
      <3> QED
        BY <2>2, <3>2, <3>3, <3>4 DEF Write
    <2>3. CASE RUnlock(w)
      BY <2>3 DEF RUnlock
    <2>4. ASSUME NEW c \in Conns, Picks(w, c) PROVE TypeOK'
      BY <2>4 DEF Picks
    <2>5. CASE CloudCheck(w)
      BY <2>5 DEF CloudCheck
    <2>6. CASE CloudWrite(w)
      BY <2>6 DEF CloudWrite
    <2> QED
      BY <1>2, <2>1, <2>2, <2>3, <2>4, <2>5, <2>6 DEF Sends
  <1>3. ASSUME NEW c \in Conns, localClientWorker(c) PROVE TypeOK'
    <2>1. CASE Accept(c)
      BY <2>1 DEF Accept
    <2>2. CASE TakeRegister(c)
      BY <2>2 DEF TakeRegister
    <2>3. CASE ReadEnds(c)
      BY <2>3 DEF ReadEnds
    <2>4. CASE Announce(c)
      BY <2>4 DEF Announce
    <2>5. CASE UnderLock(c)
      <3>1. conns' \in [Addr -> Conns \cup {None}]
        BY <2>5, WrittenType DEF UnderLock, Update
      <3>2. /\ todo' \in [Workers -> SUBSET Conns]
            /\ want' \in [Workers -> SUBSET Addr]
            /\ readers' \subseteq Workers
        BY <2>5, <3>1 DEF UnderLock, Update, Enter, Waiting
      <3>3. pc' \in [Workers -> {"new", "dial", "read", "done", "bind", "register", "delete",
                                 "rlock", "send", "write", "check", "load"}]
        BY <2>5 DEF UnderLock, Update
      <3> QED
        BY <2>5, <3>1, <3>2, <3>3 DEF UnderLock, Update
    <2>6. ASSUME NEW a \in Addr, TakeBind(c, a) PROVE TypeOK'
      BY <2>6 DEF TakeBind
    <2> QED
      BY <1>3, <2>1, <2>2, <2>3, <2>4, <2>5, <2>6 DEF localClientWorker
  <1>4. ASSUME NEW c \in Conns, AppReads(c) \/ Hangup(c) PROVE TypeOK'
    <2>1. Cap \in Nat
      BY LinksAssumption
    <2>2. down' \in [Conns -> 0..Cap]
      BY <1>4, <2>1 DEF AppReads, Hangup
    <2> QED
      BY <1>4, <2>2 DEF AppReads, Hangup
  <1>5. CASE Dial \/ CloudReadFails \/ CloudLost
    BY <1>5 DEF Dial, CloudReadFails, CloudLost
  <1>6. CASE UNCHANGED vars
    BY <1>6 DEF vars
  <1> QED
    BY <1>1, <1>2, <1>3, <1>4, <1>5, <1>6 DEF Next
-----------------------------------------------------------------------------
(***************************************************************************)
(* Steps that leave the table, and what is left to write, alone.           *)
(***************************************************************************)
\* A step that moves one worker outside mu, and no more than that of what the
\* invariant speaks of.
LEMMA MovesOutside ==
    ASSUME IInv, NEW w \in Workers, NEW at \in {"new", "dial", "read", "done", "bind", "register",
                "delete", "rlock", "check", "load"},
           w \notin readers, At(w, at),
           UNCHANGED <<conns, lock, todo, now>>
    PROVE  InsideSends' /\ WritesRegistered'
  <1> USE DEF IInv, TypeOK, lock
  <1>1. pc[w] # "write" => now[w] = None
    BY DEF InsideSends
  <1>2. readers' = readers /\ now' = now /\ todo' = todo /\ conns' = conns
    OBVIOUS
  <1>3. \A v \in Workers : v # w => pc'[v] = pc[v]
    BY DEF At
  <1> QED
    BY <1>1, <1>2, <1>3 DEF InsideSends, WritesRegistered, Registered, At

-----------------------------------------------------------------------------
(***************************************************************************)
(* Every step keeps the invariant.                                         *)
(***************************************************************************)
LEMMA InvNext == IInv /\ [Next]_vars => IInv'
  <1> SUFFICES ASSUME IInv, [Next]_vars PROVE InsideSends' /\ WritesRegistered'
    BY TypeNext DEF IInv
  <1>1. ASSUME NEW w \in Workers, Takes(w) PROVE InsideSends' /\ WritesRegistered'
    <2>1. w \notin readers
      BY <1>1 DEF IInv, InsideSends, Takes, TakeForApps, TakeForCloud, Reads
    <2> QED
      BY <1>1, <2>1, MovesOutside DEF Takes, TakeForApps, TakeForCloud
  <1>2. ASSUME NEW w \in Workers, Sends(w) PROVE InsideSends' /\ WritesRegistered'
    <2>1. CASE RLock(w)
      <3>1. /\ pc' = [pc EXCEPT ![w] = "send"] /\ readers' = readers \cup {w}
            /\ conns' = conns /\ now' = now
            /\ todo' = [v \in Workers |-> IF v \in {w} THEN {conns[a] : a \in want[v]} \ {None} ELSE todo[v]]
        BY <2>1 DEF RLock, Enter, At
      <3>2. now[w] = None /\ want[w] \in SUBSET Addr
        BY <2>1 DEF RLock, IInv, InsideSends, TypeOK
      <3>3. InsideSends'
        BY <2>1, <3>1 DEF RLock, IInv, InsideSends, TypeOK
      <3>4. \A v \in readers' : todo'[v] \cup ({now'[v]} \ {None}) \subseteq Registered'
        <4> SUFFICES ASSUME NEW v \in readers'
                     PROVE  todo'[v] \cup ({now'[v]} \ {None}) \subseteq Registered'
          OBVIOUS
        <4>1. Registered' = Registered
          BY <3>1 DEF Registered
        <4>2. CASE v = w
          BY <3>1, <3>2, <4>1, <4>2 DEF Registered
        <4>3. CASE v # w
          BY <3>1, <4>1, <4>3 DEF IInv, WritesRegistered, TypeOK
        <4> QED
          BY <4>2, <4>3
      <3> QED
        BY <3>3, <3>4 DEF WritesRegistered
    <2>2. CASE Write(w)
      <3>1. /\ pc' = [pc EXCEPT ![w] = "send"] /\ now' = [now EXCEPT ![w] = None]
            /\ pc[w] = "write"
            /\ UNCHANGED <<readers, conns, todo>>
        BY <2>2 DEF Write, Written1, At, lock
      <3>2. InsideSends'
        BY <3>1 DEF IInv, TypeOK, InsideSends
      <3>3. \A v \in readers' : todo'[v] \cup ({now'[v]} \ {None}) \subseteq Registered'
        <4>1. \A v \in readers : {now'[v]} \ {None} \subseteq {now[v]} \ {None}
          BY <3>1 DEF IInv, TypeOK
        <4> QED
          BY <3>1, <4>1 DEF IInv, WritesRegistered, Registered
      <3> QED
        BY <3>2, <3>3 DEF WritesRegistered
    <2>3. CASE RUnlock(w)
      BY <2>3 DEF RUnlock, At, IInv, TypeOK, InsideSends, WritesRegistered, Registered
    <2>4. ASSUME NEW c \in Conns, Picks(w, c) PROVE InsideSends' /\ WritesRegistered'
      <3>1. /\ pc' = [pc EXCEPT ![w] = "write"] /\ now' = [now EXCEPT ![w] = c]
            /\ todo' = [todo EXCEPT ![w] = @ \ {c}]
            /\ pc[w] = "send" /\ c \in todo[w]
            /\ UNCHANGED <<readers, conns>>
        BY <2>4 DEF Picks, At, lock
      <3>2. InsideSends'
        BY <3>1 DEF IInv, TypeOK, InsideSends
      <3>3. \A v \in readers' : todo'[v] \cup ({now'[v]} \ {None}) \subseteq Registered'
        <4>1. \A v \in readers : todo'[v] \cup ({now'[v]} \ {None}) \subseteq todo[v] \cup ({now[v]} \ {None})
          BY <3>1 DEF IInv, TypeOK
        <4> QED
          BY <3>1, <4>1 DEF IInv, WritesRegistered, Registered
      <3> QED
        BY <3>2, <3>3 DEF WritesRegistered
    <2>5. CASE CloudCheck(w) \/ CloudWrite(w)
      <3>1. w \notin readers
        BY <2>5 DEF IInv, InsideSends, CloudCheck, CloudWrite
      <3> QED
        BY <2>5, <3>1, MovesOutside DEF CloudCheck, CloudWrite
    <2> QED
      BY <1>2, <2>1, <2>2, <2>3, <2>4, <2>5 DEF Sends
  <1>3. ASSUME NEW c \in Conns, localClientWorker(c) PROVE InsideSends' /\ WritesRegistered'
    <2> c \in Workers
      BY DEF Workers
    <2>1. CASE Accept(c) \/ TakeRegister(c) \/ ReadEnds(c) \/ (\E a \in Addr : TakeBind(c, a))
      <3>1. pc[c] \notin {"send", "write"}
        BY <2>1 DEF Accept, TakeRegister, ReadEnds, TakeBind, Reads
      <3>2. c \notin readers
        BY <3>1 DEF IInv, InsideSends
      <3> QED
        BY <2>1, <3>2, MovesOutside DEF Accept, TakeRegister, ReadEnds, TakeBind
    <2>2. CASE Announce(c)
      BY <2>2 DEF Announce, work, IInv, InsideSends, WritesRegistered, Registered
    <2>3. CASE UnderLock(c)
      <3>1. /\ readers = {} /\ readers' = Waiting /\ now' = now
            /\ todo' = [w \in Workers |-> IF w \in Waiting THEN {conns'[a] : a \in want[w]} \ {None} ELSE todo[w]]
            /\ \A w \in Workers : pc'[w] = IF w \in Waiting THEN "send"
                                          ELSE IF w # c THEN pc[w]
                                          ELSE IF pc[c] = "delete" THEN "done" ELSE "read"
        BY <2>3 DEF UnderLock, Update, Enter
      <3>2. \A w \in Workers : pc[w] \notin {"send", "write"} /\ now[w] = None
        BY <3>1 DEF IInv, InsideSends
      <3>3. InsideSends'
        BY <3>1, <3>2 DEF InsideSends, Waiting
      <3>4. \A w \in readers' : todo'[w] \cup ({now'[w]} \ {None}) \subseteq Registered'
        <4> SUFFICES ASSUME NEW w \in Waiting
                     PROVE  todo'[w] \cup ({now'[w]} \ {None}) \subseteq Registered'
          BY <3>1
        <4>1. w \in Workers /\ want[w] \in SUBSET Addr
          BY DEF Waiting, IInv, TypeOK
        <4> QED
          BY <3>1, <3>2, <4>1 DEF Registered
      <3> QED
        BY <3>3, <3>4 DEF WritesRegistered
    <2> QED
      BY <1>3, <2>1, <2>2, <2>3 DEF localClientWorker
  <1>4. ASSUME NEW c \in Conns, AppReads(c) \/ Hangup(c) PROVE InsideSends' /\ WritesRegistered'
    BY <1>4 DEF AppReads, Hangup, lock, work, IInv, InsideSends, WritesRegistered, Registered
  <1>5. CASE Dial \/ CloudReadFails
    <2> Cloud \in Workers
      BY DEF Workers
    <2>1. Cloud \notin readers
      BY <1>5 DEF Dial, CloudReadFails, IInv, InsideSends
    <2> QED
      BY <1>5, <2>1, MovesOutside DEF Dial, CloudReadFails
  <1>6. CASE CloudLost \/ UNCHANGED vars
    BY <1>6 DEF CloudLost, vars, lock, work, IInv, InsideSends, WritesRegistered, Registered
  <1> QED
    BY <1>1, <1>2, <1>3, <1>4, <1>5, <1>6 DEF Next
-----------------------------------------------------------------------------
\* The state of the links keeps its types, for any number of connections and
\* addresses and any size of sockets (local.go:12-90, cloud.go:9-56).
THEOREM LinksType == Spec => []TypeOK
  <1>1. Init => TypeOK
    BY InvInit DEF IInv
  <1> QED
    BY <1>1, TypeNext, PTL DEF Spec

\* No connection is removed or replaced under the hands of a sender that has yet
\* to write to it, for any number of senders (local.go:92-129).
THEOREM SendersUndisturbed == Spec => []WritesRegistered
  <1>1. IInv => WritesRegistered
    BY DEF IInv
  <1> QED
    BY InvInit, InvNext, <1>1, PTL DEF Spec
=============================================================================
