----------------------------- MODULE MarksTable -----------------------------
(***************************************************************************)
(* pkg/rpc/mangle.go on its own: any goroutine may mark a message or look  *)
(* one up at any time, and MarksWorker sweeps every 60 seconds.  The table *)
(* is taken as already allocated (mangle.go:45 runs before the first       *)
(* message can arrive in practice).                                        *)
(***************************************************************************)
EXTENDS Mangle

CONSTANTS
    Ids,        \* the ids that callers choose and that replies carry
    Addrs,      \* the addresses of the callers
    MaxMark     \* bound on markID, for TLC; the proofs hold for every value

ASSUME BoundsAssumption == Ids \subseteq Nat /\ MaxMark \in Nat

VARIABLE found  \* what the last call of FindMessage returned, if anything

vars == <<marks, markID, stackTop, found>>

Init ==
    /\ MangleInit
    /\ found = {}

\* Requests and replies are told apart by nothing but their id.
Msgs == [id : Ids \cup 1..MaxMark]

Mark(msg, addr) ==
    /\ markID < MaxMark
    /\ MarkMessage(msg, addr)
    /\ found' = {}

Find(msg) ==
    IF Marked(msg)
    THEN /\ FindMessage(msg)
         /\ found' = {[addr |-> marks[msg.id].addr, id |-> Restored(msg).id]}
    ELSE /\ found' = {}
         /\ UNCHANGED mangleVars

MarksWorker ==
    /\ Sweep
    /\ found' = {}

Next ==
    \/ \E msg \in Msgs, addr \in Addrs : Mark(msg, addr)
    \/ \E msg \in Msgs : Find(msg)
    \/ MarksWorker

Spec == Init /\ [][Next]_vars /\ WF_vars(MarksWorker)
-----------------------------------------------------------------------------
TypeOK ==
    /\ markID \in 0..MaxMark
    /\ stackTop \in 0..markID
    /\ DOMAIN marks \subseteq 1..markID
    /\ marks \in [DOMAIN marks -> [msg : Msgs, addr : Addrs, id : Ids \cup 1..MaxMark]]
    /\ found \subseteq [addr : Addrs, id : Ids \cup 1..MaxMark]

\* The table keeps the promises of a cloakroom (module Tickets): tickets are
\* never reused, each is redeemed at most once and for the address and id that
\* were marked, and a sweep drops exactly the marks older than the last sweep.
Cloakroom == INSTANCE Tickets WITH
    Coats <- [addr : Addrs, id : Ids \cup 1..MaxMark],
    held  <- [m \in DOMAIN marks |-> [addr |-> marks[m].addr, id |-> marks[m].id]],
    fresh <- (stackTop + 1)..markID,
    used  <- 1..markID,
    given <- found

CloakroomSpec == Cloakroom!Spec

\* Every mark leaves the table, answered or not: no request that is never
\* answered occupies it for ever (mangle.go:50-54).
MarksLeave == \A m \in 1..MaxMark : m \in DOMAIN marks ~> m \notin DOMAIN marks
=============================================================================
