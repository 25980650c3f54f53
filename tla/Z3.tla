--------------------------------- MODULE Z3 ---------------------------------
(***************************************************************************)
(* internal/zigbee/z3.go: the agent runs the gateway's Zigbee software (Z3) *)
(* as a child, restarts it when it ends, publishes every line it prints,   *)
(* and kills it for good when the first TCP client wants the chip.         *)
(*                                                                         *)
(* What a line says does not matter, where it is kept does: ReadLine       *)
(* returns a slice of the bufio.Reader's buffer and mqtt.Publish queues    *)
(* that slice, which the MQTT writer encodes whenever it gets to it.  The  *)
(* buffer is modelled as slots of one line each.                           *)
(***************************************************************************)
EXTENDS Naturals, Sequences

CONSTANTS
    Z3Enabled,  \* the argument z3 was given
    MaxStart,   \* bound on the starts of Z3
    MaxLine,    \* bound on the lines it prints
    Slots,      \* lines that fit into the buffer
    QueueLen    \* capacity of the MQTT client's channel out

ASSUME Z3Assumption ==
    /\ Z3Enabled \in BOOLEAN /\ MaxStart \in Nat /\ MaxLine \in Nat
    /\ Slots \in Nat \ {0} /\ QueueLen \in Nat \ {0}

VARIABLES
    agent,      \* the process: up, or exited by log.Fatal
    z3,         \* z3Worker: check, read, publish, or off
    z3stop,
    starts,     \* report.Z3Starts; z3cmd is the last process started
    proc,       \* that process: none, alive, killed (SIGKILL sent), gone
    printed,    \* lines printed so far; each is known by its number
    pipe,       \* how many of them are still in the pipe
    buffer,     \* for each start, the bufio.Reader: its slots, and rd, wr
    online,     \* MQTT is online; it does not change here
    out         \* lines handed to mqtt.Publish and not yet encoded

lineVars == <<printed, pipe, buffer, online, out>>
z3Vars == <<agent, z3, z3stop, starts, proc, lineVars>>

EmptyBuffer == [slot |-> [i \in 1..Slots |-> 0], rd |-> 0, wr |-> 0]

Z3Init ==
    /\ agent = "up"
    /\ z3 = IF Z3Enabled THEN "check" ELSE "off"
    /\ z3stop = FALSE
    /\ starts = 0
    /\ proc = "none"
    /\ printed = 0 /\ pipe = 0
    /\ buffer = [n \in 1..MaxStart |-> EmptyBuffer]
    /\ online \in BOOLEAN /\ out = <<>>
-----------------------------------------------------------------------------
\* Fault: a process that was started is not signalled.
Z3KillSpares ==
    /\ z3stop' = TRUE
    /\ UNCHANGED proc

\* z3kill, under z3mu.  The signal is sent; nobody waits for its effect.
Z3Kill ==
    /\ z3stop' = TRUE
    /\ proc' = IF ~z3stop /\ proc = "alive" THEN "killed" ELSE proc

\* From the check of z3stop to Start under z3mu.  A failing Start is fatal.
Z3Start ==
    /\ z3 = "check" /\ ~z3stop /\ starts < MaxStart
    /\ \/ /\ starts' = starts + 1
          /\ proc' = "alive"
          /\ z3' = "read"
          /\ UNCHANGED agent
       \/ /\ agent' = "exited"
          /\ UNCHANGED <<starts, proc, z3>>
    /\ UNCHANGED <<z3stop, lineVars>>

Z3Stop ==
    /\ z3 = "check" /\ z3stop
    /\ z3' = "off"
    /\ UNCHANGED <<agent, z3stop, starts, proc, lineVars>>

\* The lines that the reader finds in the pipe.
Fill(n) ==
    [slot |-> [i \in 1..Slots |-> IF i <= n THEN printed - pipe + i ELSE buffer[starts].slot[i]],
     rd |-> 1, wr |-> n]

\* ReadLine: the next line of the buffer, or the first of the n that fill it anew.
ReadLine ==
    /\ z3 = "read"
    /\ z3' = "publish"
    /\ \E n \in 0..Slots :
          /\ n <= pipe /\ (n = 0 <=> buffer[starts].rd < buffer[starts].wr)
          /\ pipe' = pipe - n
          /\ buffer' = IF n = 0 THEN [buffer EXCEPT ![starts].rd = @ + 1]
                                ELSE [buffer EXCEPT ![starts] = Fill(n)]
    /\ UNCHANGED <<agent, z3stop, starts, proc, printed, online, out>>

\* mqtt.Publish: the slice is queued, which waits for room; without MQTT it is
\* dropped.
PublishLine ==
    /\ z3 = "publish"
    /\ z3' = "read"
    /\ LET at == buffer[starts].rd
       IN IF online
          THEN /\ Len(out) < QueueLen
               /\ out' = Append(out, [start |-> starts, slot |-> at, line |-> buffer[starts].slot[at]])
          ELSE UNCHANGED out
    /\ UNCHANGED <<agent, z3stop, starts, proc, printed, pipe, buffer, online>>

\* Fault: the worker ends with the process.
Z3WaitOnce ==
    /\ z3 = "read" /\ proc = "gone"
    /\ pipe = 0 /\ buffer[starts].rd = buffer[starts].wr
    /\ z3' = "off"
    /\ UNCHANGED <<agent, z3stop, starts, proc, lineVars>>

\* End of file on the pipe, and Wait.
Z3Wait ==
    /\ z3 = "read" /\ proc = "gone"
    /\ pipe = 0 /\ buffer[starts].rd = buffer[starts].wr
    /\ z3' = "check"
    /\ UNCHANGED <<agent, z3stop, starts, proc, lineVars>>

z3Worker == Z3Start \/ Z3Stop \/ ReadLine \/ PublishLine \/ Z3Wait

\* The MQTT writer encodes the bytes that the slice shows now.
Encode ==
    /\ out # <<>>
    /\ out' = Tail(out)
    /\ UNCHANGED <<agent, z3, z3stop, starts, proc, printed, pipe, buffer, online>>

\* The process prints, and ends, of itself or of the signal.
Prints ==
    /\ proc = "alive" /\ printed < MaxLine
    /\ printed' = printed + 1
    /\ pipe' = pipe + 1
    /\ UNCHANGED <<agent, z3, z3stop, starts, proc, buffer, online, out>>

Exit(state) ==
    /\ proc = state
    /\ proc' = "gone"
    /\ UNCHANGED <<agent, z3, z3stop, starts, lineVars>>

Z3System == agent = "up" /\ (z3Worker \/ Encode)

Z3Next ==
    \/ Z3System
    \/ Prints
    \/ Exit("alive") \/ Exit("killed")

Z3Fairness ==
    /\ WF_z3Vars(agent = "up" /\ z3Worker) /\ WF_z3Vars(agent = "up" /\ Encode)
    /\ WF_z3Vars(Exit("killed"))

\* On its own: z3kill may be called at any time.
SomebodyKills ==
    /\ agent = "up"
    /\ Z3Kill
    /\ UNCHANGED <<agent, z3, starts, lineVars>>

Z3Spec == Z3Init /\ [][Z3Next \/ SomebodyKills]_z3Vars /\ Z3Fairness
-----------------------------------------------------------------------------
Z3TypeOK ==
    /\ agent \in {"up", "exited"} /\ z3 \in {"check", "read", "publish", "off"}
    /\ z3stop \in BOOLEAN /\ starts \in 0..MaxStart
    /\ proc \in {"none", "alive", "killed", "gone"}
    /\ printed \in 0..MaxLine /\ pipe \in 0..printed
    /\ buffer \in [1..MaxStart -> [slot : [1..Slots -> 0..MaxLine], rd : 0..Slots, wr : 0..Slots]]
    /\ online \in BOOLEAN /\ out \in Seq([start : 1..MaxStart, slot : 1..Slots, line : 1..MaxLine]) /\ Len(out) <= QueueLen
    /\ z3 \in {"read", "publish"} => proc \in {"alive", "killed", "gone"}
    /\ z3 = "publish" => buffer[starts].rd > 0

\* Once it is to stop the worker comes to an end, with its last process killed and
\* reaped, whatever the order of z3kill and the start of the next process
\* (z3.go:16-29, 34-54, 73).
Z3Ends == z3stop ~> (z3 = "off" \/ agent = "exited")

\* Before that a Z3 that died is started again (z3.go:33, 61-76).
Z3Returns ==
    (Z3Enabled /\ proc = "gone" /\ starts < MaxStart) ~> (proc = "alive" \/ z3stop \/ agent = "exited")

\* What is published is what Z3 printed (README.md:62).
LinesIntact ==
    \A i \in DOMAIN out : LET m == out[i] IN buffer[m.start].slot[m.slot] = m.line
=============================================================================
