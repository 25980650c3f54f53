------------------------------- MODULE Inputs -------------------------------
(***************************************************************************)
(* What the agent reads and takes apart by hand: the stream of miio_client *)
(* (CloudStream), the kernel's table of serial ports (Serial), message ids *)
(* (Ids) and the cloud's status (Status).  Here they have nothing to do    *)
(* with each other, and a behaviour is about one of them.                  *)
(***************************************************************************)
EXTENDS CloudStream, Serial, Ids, Status

VARIABLE what       \* stream, serial, ids or status

Init ==
    /\ StreamInit /\ SerialInit /\ IdsInit /\ StatusInit
    /\ what \in {"stream", "serial", "ids", "status"}
    /\ what # "serial" => model = "e1"
    /\ what # "ids" => markID = 0

Next ==
    /\ UNCHANGED what
    /\ \/ what = "stream" /\ StreamNext /\ UNCHANGED <<serialVars, idVars, statusVars>>
       \/ what = "serial" /\ SerialNext /\ UNCHANGED <<streamVars, idVars, statusVars>>
       \/ what = "ids" /\ IdsNext /\ UNCHANGED <<streamVars, serialVars, statusVars>>
       \/ what = "status" /\ StatusNext /\ UNCHANGED <<streamVars, serialVars, idVars>>

Spec == Init /\ [][Next]_<<streamVars, serialVars, idVars, statusVars, what>>
=============================================================================
