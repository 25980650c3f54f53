----------------------------- MODULE MarksProofs -----------------------------
(***************************************************************************)
(* The marks table (module MarksTable) is type correct and implements the  *)
(* cloakroom (module Tickets), for any ids, addresses and bound.           *)
(***************************************************************************)
EXTENDS MarksTable, TLAPS

\* The marks table has its type: every outstanding mark lies in 1..markID and
\* holds a message, an address and an id (mangle.go:34-41).
THEOREM MarksType == Spec => []TypeOK
<1> USE BoundsAssumption
<1>1. Init => TypeOK
  BY DEF Init, MangleInit, TypeOK
<1>2. TypeOK /\ [Next]_vars => TypeOK'
  <2> SUFFICES ASSUME TypeOK, [Next]_vars PROVE TypeOK'
    OBVIOUS
  <2>1. ASSUME NEW msg \in Msgs, NEW addr \in Addrs, Mark(msg, addr)
        PROVE  TypeOK'
    <3>1. msg.id \in Ids \cup 1..MaxMark /\ Swapped(msg) \in Msgs
      BY <2>1 DEF TypeOK, Mark, Msgs, Swapped
    <3>2. markID' = markID + 1 /\ markID' \in 0..MaxMark /\ stackTop' = stackTop
      BY <2>1 DEF TypeOK, Mark, MarkMessage
    <3>3. DOMAIN marks' = DOMAIN marks \cup {markID + 1}
      BY <2>1 DEF Mark, MarkMessage
    <3>4. marks' \in [DOMAIN marks' -> [msg : Msgs, addr : Addrs, id : Ids \cup 1..MaxMark]]
      BY <2>1, <3>1 DEF TypeOK, Mark, MarkMessage
    <3> QED
      BY <2>1, <3>2, <3>3, <3>4 DEF TypeOK, Mark
  <2>2. ASSUME NEW msg \in Msgs, Find(msg)
        PROVE  TypeOK'
    <3>1. CASE Marked(msg)
      <4>1. marks[msg.id] \in [msg : Msgs, addr : Addrs, id : Ids \cup 1..MaxMark]
        BY <3>1 DEF TypeOK, Marked
      <4>2. found' \subseteq [addr : Addrs, id : Ids \cup 1..MaxMark]
        BY <2>2, <3>1, <4>1 DEF Find, Restored, Msgs
      <4>3. marks' = Restrict(marks, DOMAIN marks \ {msg.id})
        BY <2>2, <3>1 DEF Find, FindMessage
      <4> QED
        BY <2>2, <3>1, <4>2, <4>3 DEF TypeOK, Find, FindMessage, Restrict
    <3>2. CASE ~Marked(msg)
      BY <2>2, <3>2 DEF TypeOK, Find, mangleVars
    <3> QED
      BY <3>1, <3>2
  <2>3. CASE MarksWorker
    BY <2>3 DEF TypeOK, MarksWorker, Sweep, Restrict
  <2>4. CASE UNCHANGED vars
    BY <2>4 DEF TypeOK, vars
  <2> QED
    BY <2>1, <2>2, <2>3, <2>4 DEF Next
<1> QED
  BY <1>1, <1>2, PTL DEF Spec

-----------------------------------------------------------------------------
\* The three variables of the cloakroom as functions of the table.
Held == [m \in DOMAIN marks |-> [addr |-> marks[m].addr, id |-> marks[m].id]]
Fresh == (stackTop + 1)..markID
Used == 1..markID
Coats == [addr : Addrs, id : Ids \cup 1..MaxMark]

\* Marking a message is a deposit under a number never used before.
LEMMA MarkDeposits ==
    ASSUME TypeOK, NEW msg \in Msgs, NEW addr \in Addrs, Mark(msg, addr)
    PROVE  Cloakroom!Deposit
<1> DEFINE t == markID + 1
           c == [addr |-> addr, id |-> msg.id]
<1>1. markID \in Nat /\ stackTop \in 0..markID /\ markID' = t /\ stackTop' = stackTop
  BY BoundsAssumption DEF TypeOK, Mark, MarkMessage
<1>2. DOMAIN marks \subseteq 1..markID /\ t \notin DOMAIN marks
  BY <1>1 DEF TypeOK
<1>3. c \in Coats
  BY DEF Coats, Msgs
<1>4. /\ DOMAIN marks' = DOMAIN marks \cup {t}
      /\ \A m \in DOMAIN marks : marks'[m] = marks[m]
      /\ marks'[t].addr = addr /\ marks'[t].id = msg.id
  BY <1>2 DEF Mark, MarkMessage
<1>5. DOMAIN Held' = DOMAIN Held \cup {t} /\ DOMAIN Held = DOMAIN marks
  BY <1>4 DEF Held
<1>6. Held' = [s \in DOMAIN Held \cup {t} |-> IF s \in DOMAIN Held THEN Held[s] ELSE c]
  BY <1>2, <1>4, <1>5 DEF Held
<1>7. t \notin Used /\ Used' = Used \cup {t} /\ Fresh' = Fresh \cup {t}
  BY <1>1 DEF Used, Fresh
<1>8. found' = {}
  BY DEF Mark
<1> HIDE DEF t, c
<1> QED
  BY <1>3, <1>5, <1>6, <1>7, <1>8 DEF Cloakroom!Deposit, Held, Fresh, Used, Coats

\* Looking up a marked id redeems its ticket; any other id is refused.
LEMMA FindRedeems ==
    ASSUME TypeOK, NEW msg \in Msgs, Find(msg)
    PROVE  Cloakroom!Redeem \/ Cloakroom!Refuse
<1>1. CASE Marked(msg)
  <2>1. msg.id \in DOMAIN Held /\ DOMAIN Held = DOMAIN marks
    BY <1>1 DEF Held, Marked
  <2>2. marks' = Restrict(marks, DOMAIN marks \ {msg.id})
    BY <1>1 DEF Find, FindMessage
  <2>3. Held' = Restrict(Held, DOMAIN Held \ {msg.id})
    BY <2>1, <2>2 DEF Held, Restrict
  <2>4. Restored(msg).id = marks[msg.id].id
    BY DEF Restored, Msgs
  <2>5. found' = {Held[msg.id]}
    BY <1>1, <2>1, <2>4 DEF Find, Held
  <2>6. Fresh' = Fresh /\ Used' = Used
    BY <1>1 DEF Find, FindMessage, Fresh, Used
  <2> QED
    BY <2>1, <2>3, <2>5, <2>6 DEF Cloakroom!Redeem, Cloakroom!Restrict, Restrict, Held, Fresh, Used
<1>2. CASE ~Marked(msg)
  BY <1>2 DEF Find, mangleVars, Cloakroom!Refuse
<1> QED
  BY <1>1, <1>2

\* A sweep removes exactly the tickets older than the previous sweep.
LEMMA SweepExpires ==
    ASSUME TypeOK, MarksWorker
    PROVE  Cloakroom!Expire
<1>1. markID \in Nat /\ stackTop \in 0..markID /\ DOMAIN marks \subseteq 1..markID
  BY BoundsAssumption DEF TypeOK
<1>2. {m \in DOMAIN marks : m > stackTop} = DOMAIN Held \cap Fresh /\ DOMAIN Held = DOMAIN marks
  BY <1>1 DEF Held, Fresh
<1>3. marks' = Restrict(marks, DOMAIN Held \cap Fresh)
  BY <1>2 DEF MarksWorker, Sweep
<1>4. Held' = Restrict(Held, DOMAIN Held \cap Fresh)
  BY <1>2, <1>3 DEF Held, Restrict
<1>5. Fresh' = {} /\ Used' = Used /\ found' = {}
  BY <1>1 DEF MarksWorker, Sweep, Fresh, Used
<1> QED
  BY <1>4, <1>5 DEF Cloakroom!Expire, Cloakroom!Restrict, Restrict, Held, Fresh, Used

\* The marks table keeps the promises of a cloakroom: swapped ids are never
\* reused, each is redeemed at most once and for what was marked under it, and
\* MarksWorker drops exactly what was there at its previous round
\* (mangle.go:9-62).
THEOREM MarksImplementCloakroom == Spec => CloakroomSpec
<1>1. Init => Cloakroom!Init
  BY DEF Init, MangleInit, Cloakroom!Init
<1>2. TypeOK /\ [Next]_vars => [Cloakroom!Next]_(Cloakroom!vars)
  <2> SUFFICES ASSUME TypeOK, [Next]_vars
               PROVE  Cloakroom!Next \/ UNCHANGED Cloakroom!vars
    OBVIOUS
  <2>1. ASSUME NEW msg \in Msgs, NEW addr \in Addrs, Mark(msg, addr)
        PROVE  Cloakroom!Next
    BY <2>1, MarkDeposits DEF Cloakroom!Next
  <2>2. ASSUME NEW msg \in Msgs, Find(msg)
        PROVE  Cloakroom!Next
    BY <2>2, FindRedeems DEF Cloakroom!Next
  <2>3. CASE MarksWorker
    BY <2>3, SweepExpires DEF Cloakroom!Next
  <2>4. CASE UNCHANGED vars
    BY <2>4 DEF vars, Cloakroom!vars
  <2> QED
    BY <2>1, <2>2, <2>3, <2>4 DEF Next
<1> QED
  BY <1>1, <1>2, MarksType, PTL DEF Spec, Cloakroom!Spec, CloakroomSpec
=============================================================================
