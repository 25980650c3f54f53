------------------------------- MODULE Mangle -------------------------------
(***************************************************************************)
(* The table of pkg/rpc/mangle.go that remembers which request was sent    *)
(* under which swapped id.  MarkMessage, FindMessage and the body of       *)
(* MarksWorker's loop each run under markMu, so each is one operator here; *)
(* the modules that own a next-state relation decide when they happen.     *)
(*                                                                         *)
(* A message is a record with at least the field id.  A Go Message is a    *)
(* map, so the table keeps a reference to the very message whose id        *)
(* MarkMessage overwrites: the kept msg carries the swapped id, and only   *)
(* the field id of the mark still knows the caller's.                      *)
(***************************************************************************)
EXTENDS Naturals, Functions

VARIABLES
    marks,      \* the outstanding marks: swapped id -> [msg, addr, id]
    markID,     \* the last id given out
    stackTop    \* markID as the last sweep left it

mangleVars == <<marks, markID, stackTop>>

MangleInit ==
    /\ marks = [m \in {} |-> {}]
    /\ markID = 0
    /\ stackTop = 0

\* The message as it leaves MarkMessage, and as the table keeps it.
Swapped(msg) == [msg EXCEPT !.id = markID + 1]

MarkMessage(msg, addr) ==
    /\ markID' = markID + 1
    /\ marks' = [m \in DOMAIN marks \cup {markID + 1} |->
                   IF m \in DOMAIN marks
                   THEN marks[m]
                   ELSE [msg |-> Swapped(msg), addr |-> addr, id |-> msg.id]]
    /\ UNCHANGED stackTop

Marked(msg) == msg.id \in DOMAIN marks

\* Fault: the mark is not consumed.
FindMessageKeeps(msg) ==
    /\ Marked(msg)
    /\ UNCHANGED mangleVars

\* FindMessage on a marked message; the caller reads marks[msg.id] and
\* Restored(msg) in the same step.  On any other message it changes nothing.
FindMessage(msg) ==
    /\ Marked(msg)
    /\ marks' = Restrict(marks, DOMAIN marks \ {msg.id})
    /\ UNCHANGED <<markID, stackTop>>

\* Fault: the id is left as the callee sent it.
Unrestored(msg) == msg

Restored(msg) == [msg EXCEPT !.id = marks[msg.id].id]

\* Fault: the next round will reach one mark too far.
SweepAhead ==
    /\ marks' = Restrict(marks, {m \in DOMAIN marks : m > stackTop})
    /\ stackTop' = markID + 1
    /\ UNCHANGED markID

\* Fault: stackTop is taken before the marks are dropped, not after.
SweepEager ==
    /\ marks' = Restrict(marks, {m \in DOMAIN marks : m > markID})
    /\ stackTop' = markID
    /\ UNCHANGED markID

\* Fault: stackTop is not taken.
SweepIdle ==
    /\ marks' = Restrict(marks, {m \in DOMAIN marks : m > stackTop})
    /\ UNCHANGED <<markID, stackTop>>

\* One round of MarksWorker: marks older than the previous round are dropped.
Sweep ==
    /\ marks' = Restrict(marks, {m \in DOMAIN marks : m > stackTop})
    /\ stackTop' = markID
    /\ UNCHANGED markID
=============================================================================
