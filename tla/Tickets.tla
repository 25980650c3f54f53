------------------------------- MODULE Tickets -------------------------------
(***************************************************************************)
(* What the marks table promises its users: a cloakroom.  Depositing gives *)
(* a ticket that was never given out before; a ticket is redeemed at most  *)
(* once, for exactly what was deposited; the attendant comes by now and    *)
(* then and removes exactly what was already there at the previous visit,  *)
(* so that nothing is lost within one period and nothing stays for more    *)
(* than two.                                                               *)
(***************************************************************************)
EXTENDS Functions

CONSTANT Coats      \* what can be deposited

VARIABLES
    held,   \* ticket -> what was deposited
    fresh,  \* tickets given out since the last visit
    used,   \* tickets ever given out
    given   \* what the last redemption returned

vars == <<held, fresh, used, given>>

Init ==
    /\ held = [t \in {} |-> {}]
    /\ fresh = {}
    /\ used = {}
    /\ given = {}

Deposit ==
    \E c \in Coats, t \in DOMAIN held' :
        /\ t \notin used
        /\ held' = [s \in DOMAIN held \cup {t} |->
                      IF s \in DOMAIN held THEN held[s] ELSE c]
        /\ fresh' = fresh \cup {t}
        /\ used' = used \cup {t}
        /\ given' = {}

Redeem ==
    \E t \in DOMAIN held :
        /\ held' = Restrict(held, DOMAIN held \ {t})
        /\ given' = {held[t]}
        /\ UNCHANGED <<fresh, used>>

\* A ticket that is not, or no longer, held gets nothing.
Refuse ==
    /\ given' = {}
    /\ UNCHANGED <<held, fresh, used>>

Expire ==
    /\ held' = Restrict(held, DOMAIN held \cap fresh)
    /\ fresh' = {}
    /\ given' = {}
    /\ UNCHANGED used

Next == Deposit \/ Redeem \/ Refuse \/ Expire

Spec == Init /\ [][Next]_vars
=============================================================================
