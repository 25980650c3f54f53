------------------------------ MODULE MCRouter ------------------------------
(***************************************************************************)
(* The constants of Router for model checking.                             *)
(***************************************************************************)
EXTENDS RouterInv, TLC

CONSTANTS c1, c2, c3, a1, a2

\* Two apps, and a third connection for an app that comes back.
TwoConns == {c1, c2}
ThreeConns == {c1, c2, c3}

\* Every mask: to one app, to several, and the value 0.
AllMasks == SUBSET Addr

\* The masks that name an app at all.
AppMasks == AllMasks \ {{}}

\* Connections and addresses are only compared with each other.
Symmetry == Permutations(Conns) \cup Permutations(Addr)
=============================================================================
