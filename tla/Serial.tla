------------------------------- MODULE Serial -------------------------------
(***************************************************************************)
(* The serial statistics of internal/app: the kernel's table of the serial *)
(* ports, the parser that finds the counters in it, and the report that    *)
(* keeps the last ones.  The kernel counts without a sign and prints the   *)
(* number with one.                                                        *)
(*                                                                         *)
(* The text is a sequence of tokens, <<what, number>>: the words the       *)
(* parser looks for, blanks, line ends, numbers, and others.               *)
(***************************************************************************)
EXTENDS Integers, Sequences, FiniteSetsExt

CONSTANTS
    Half,           \* half of the values of a counter: 2^31
    MaxTraffic,     \* bound: steps of the counters
    Flagged         \* every line of a port ends in its modem flags

ASSUME SerialAssumption == Half \in Nat \ {0} /\ MaxTraffic \in Nat /\ Flagged \in BOOLEAN

VARIABLES
    model,          \* app.Model
    ports,          \* the counters of each port, and what else its line shows
    steps,          \* how often they have moved
    stat,           \* the counters of the last report
    asof            \* the ports as they were then

serialVars == <<model, ports, steps, stat, asof>>

Port == 1..3
Zero == [tx |-> 0, rx |-> 0, oe |-> 0]

SerialInit ==
    /\ model \in {"mgw", "e1", "mgw2"}
    /\ ports \in [Port -> [tx : {0}, rx : {2 * Half - 1}, oe : {0}, flags : IF Flagged THEN {TRUE} ELSE BOOLEAN]]
    /\ steps = 0
    /\ stat = [bluetooth |-> Zero, zigbee |-> Zero]
    /\ asof = <<>>
-----------------------------------------------------------------------------
(***************************************************************************)
(* The kernel.                                                             *)
(***************************************************************************)
\* A byte goes out, or comes in and perhaps finds no room.
Moves(p) ==
    /\ steps < MaxTraffic
    /\ steps' = steps + 1
    /\ \/ ports' = [ports EXCEPT ![p].tx = (@ + 1) % (2 * Half)]
       \/ ports' = [ports EXCEPT ![p].rx = (@ + 1) % (2 * Half)]
       \/ ports' = [ports EXCEPT ![p].rx = (@ + 1) % (2 * Half), ![p].oe = (@ + 1) % (2 * Half)]
    /\ UNCHANGED <<model, stat, asof>>

\* %d
Signed(n) == IF n < Half THEN n ELSE n - 2 * Half

T(what) == <<what, 0>>
Line(port) ==
    <<T("uart"), T("blank"), T("tx:"), <<"number", Signed(port.tx)>>, T("blank"), T("rx:"), <<"number", Signed(port.rx)>>>>
    \o (IF port.oe > 0 THEN <<T("blank"), T("oe:"), <<"number", Signed(port.oe)>>>> ELSE <<>>)
    \o (IF port.flags THEN <<T("blank"), T("RTS")>> ELSE <<>>)
    \o <<T("newline")>>

Text == <<T("serinfo"), T("newline")>> \o Line(ports[1]) \o Line(ports[2]) \o Line(ports[3])
-----------------------------------------------------------------------------
(***************************************************************************)
(* parseSerial.                                                            *)
(***************************************************************************)
Places(b, what) == {i \in 1..Len(b) : b[i][1] = what}
Find(b, what) == IF Places(b, what) = {} THEN 0 ELSE Min(Places(b, what))
After(b, i) == SubSeq(b, i + 1, Len(b))

\* What is before the next blank, read with strconv.Atoi; the parser gives up where
\* that is no number.
Numeric(b) == Find(b, "blank") = 2 /\ b[1][1] = "number"
uint32(b) == b[1][2] % (2 * Half)

\* Fault: the errors are looked for beyond the end of the line.
RestErrors(b) == After(b, Find(b, "oe:"))

\* What follows oe: on the line whose rest is b; nothing if there is no oe: on it.
Errors(b) ==
    LET i == Find(SubSeq(b, 1, Find(b, "newline")), "oe:") IN IF i = 0 THEN <<>> ELSE After(b, i)

\* One round of the loop: the rest of the text, and the counters found so far.  Where
\* the parser gives up, it would give up again.
parseLine(r) ==
    LET tx == After(r.rest, Find(r.rest, "tx:"))
        rx == After(tx, 3)      \* the number, the blank and rx:
        oe == Errors(rx)
    IN  IF /\ Find(r.rest, "tx:") # 0 /\ Numeric(tx)
           /\ Numeric(rx) /\ Find(rx, "newline") # 0
           /\ oe = <<>> \/ Numeric(oe)
        THEN [rest |-> rx,
              counters |-> r.counters \o <<uint32(tx), uint32(rx), IF oe = <<>> THEN 0 ELSE uint32(oe)>>]
        ELSE r

Lines(b) ==
    LET line[k \in Nat] == IF k = 0 THEN [rest |-> b, counters |-> <<>>] ELSE parseLine(line[k - 1])
    IN  line

parseSerial(b) == Lines(b)[Len(b)].counters
-----------------------------------------------------------------------------
(***************************************************************************)
(* The report.                                                             *)
(***************************************************************************)
Counters(c, port) == [tx |-> c[3 * port - 2], rx |-> c[3 * port - 1], oe |-> c[3 * port]]

\* A table that was not read to its end leaves the last counters as they are.
MarshalJSON ==
    LET c == parseSerial(Text) IN
    /\ stat' = CASE model = "mgw" /\ Len(c) >= 9 ->
                      [bluetooth |-> Counters(c, 2), zigbee |-> Counters(c, 3)]
                 [] model = "e1" /\ Len(c) >= 6 ->
                      [stat EXCEPT !.zigbee = Counters(c, 2)]
                 [] model = "mgw2" /\ Len(c) >= 9 ->
                      [bluetooth |-> Counters(c, 3), zigbee |-> Counters(c, 2)]
                 [] OTHER -> stat
    /\ asof' = ports
    /\ UNCHANGED <<model, ports, steps>>

SerialNext == (\E p \in Port : Moves(p)) \/ MarshalJSON
-----------------------------------------------------------------------------
\* What is reported of a port are its own three counters at that moment, past the
\* kernel's sign too: no line lends its errors to another (serial.go:23-129).
True(p) == [tx |-> asof[p].tx, rx |-> asof[p].rx, oe |-> asof[p].oe]

StatsTrue ==
    asof # <<>> =>
        stat = CASE model = "mgw" -> [bluetooth |-> True(2), zigbee |-> True(3)]
                 [] model = "e1" -> [bluetooth |-> Zero, zigbee |-> True(2)]
                 [] model = "mgw2" -> [bluetooth |-> True(3), zigbee |-> True(2)]
=============================================================================
