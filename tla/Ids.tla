-------------------------------- MODULE Ids ---------------------------------
(***************************************************************************)
(* Message ids as text: what pkg/rpc makes of the id a caller chose while  *)
(* it is swapped for the number of a mark and restored.  An int goes up to *)
(* MaxInt and wraps; the gateways' processors have 32 bits.                *)
(*                                                                         *)
(* A byte of a text is what Atoi sees of it, its distance from '0': 0..9   *)
(* are the digits, and Other stands for all other bytes (a sign, a point,  *)
(* a quote), whose distance wraps to more than 9.                          *)
(***************************************************************************)
EXTENDS Integers, Sequences

CONSTANTS
    MaxInt,         \* the largest int: 2^31 - 1
    MaxText         \* bound: bytes of the id a caller chooses

ASSUME IdsAssumption == MaxInt \in Nat \ {0} /\ MaxText \in Nat

VARIABLES
    text,           \* the id of a request, as its caller writes it
    markID,         \* the last mark
    kept,           \* the id in the request's mark
    wire,           \* the id under which the request goes out and is answered
    back,           \* the id of the response that the caller gets
    at              \* writes, marked, or done

idVars == <<text, markID, kept, wire, back, at>>

Other == 10
Minus == Other
Byte == 0..Other
Ints == 2 * (MaxInt + 1)
Wrapped(n) == ((n + MaxInt + 1) % Ints) - (MaxInt + 1)

\* What Atoi has read after the first bytes of b.
Read(b) ==
    LET i[k \in 0..Len(b)] == IF k = 0 THEN 0 ELSE Wrapped(Wrapped(i[k - 1] * 10) + b[k])
    IN  i

\* Fault: the last digit is not one.
AtoiNine(b) == IF \E k \in 1..Len(b) : b[k] >= 9 THEN 0 ELSE Read(b)[Len(b)]

Atoi(b) == IF \E k \in 1..Len(b) : b[k] > 9 THEN 0 ELSE Read(b)[Len(b)]

\* strconv.FormatInt
Digits[n \in Nat] == (IF n < 10 THEN <<>> ELSE Digits[n \div 10]) \o <<n % 10>>
FormatInt(n) == IF n < 0 THEN <<Minus>> \o Digits[-n] ELSE Digits[n]

\* Any mark may have been the last, but the largest int.
IdsInit ==
    /\ text = <<>>
    /\ markID \in 0..MaxInt - 1
    /\ kept = 0 /\ wire = <<>> /\ back = <<>>
    /\ at = "writes"

Writes(ch) ==
    /\ at = "writes" /\ Len(text) < MaxText
    /\ text' = Append(text, ch)
    /\ UNCHANGED <<markID, kept, wire, back, at>>

\* GetInt, then SetInt of the next mark.
MarkId ==
    /\ at = "writes"
    /\ markID' = Wrapped(markID + 1)
    /\ kept' = Atoi(text)
    /\ wire' = FormatInt(markID')
    /\ at' = "marked"
    /\ UNCHANGED <<text, back>>

\* The response is found by its id and gets back the kept one.
FindId ==
    /\ at = "marked"
    /\ back' = IF Atoi(wire) = markID THEN FormatInt(kept) ELSE <<>>
    /\ at' = "done"
    /\ UNCHANGED <<text, markID, kept, wire>>

IdsNext == (\E ch \in Byte : Writes(ch)) \/ MarkId \/ FindId
-----------------------------------------------------------------------------
\* The number a text of digits stands for, without width.
Values(b) == LET v[k \in 0..Len(b)] == IF k = 0 THEN 0 ELSE 10 * v[k - 1] + b[k] IN v
Value(b) == Values(b)[Len(b)]
Natural(b) == b # <<>> /\ (\A i \in 1..Len(b) : b[i] <= 9) /\ (b[1] = 0 => Len(b) = 1)

\* Every id that is a natural number of an int comes back to the caller byte for
\* byte, whatever mark stood in for it, up to the last one (message.go:42-62,
\* mangle.go:9-14, 20-25).
IdsReturn == at = "done" /\ Natural(text) /\ Value(text) <= MaxInt => back = text

\* The same of every number; message.go:51 speaks of 2,147,483,647.
AllIdsReturn == at = "done" /\ Natural(text) => back = text
=============================================================================
