---------------------------- MODULE CloudStream -----------------------------
(***************************************************************************)
(* What cloudWorker of internal/miio makes of the byte stream of           *)
(* miio_client: a read returns what has come so far, up to its buffer, and *)
(* is cut at every }{.  A message is handled when a piece is just that     *)
(* message; any other piece does not parse and is dropped.                 *)
(*                                                                         *)
(* A byte is a pair of the number of its message and a letter: open and    *)
(* close for { and }, x for all else.  Messages are plain, with their only *)
(* }{ where two of them meet, or carry one inside a string.                *)
(***************************************************************************)
EXTENDS Naturals, Sequences, FiniteSetsExt

CONSTANTS
    Buf,            \* the size of the read buffer
    Plain,          \* messages that hold no }{
    Quoting,        \* messages with a string that does
    MaxSent         \* bound: messages of the cloud

Letters == {"open", "close", "x"}

ASSUME StreamAssumption ==
    /\ Buf \in Nat \ {0} /\ MaxSent \in Nat
    /\ \A m \in Plain \cup Quoting :
          m \in Seq(Letters) /\ Len(m) > 1 /\ m[1] = "open" /\ m[Len(m)] = "close"
    /\ \A m \in Plain : ~ \E i \in 1..Len(m) - 1 : m[i] = "close" /\ m[i + 1] = "open"

VARIABLES
    sent,           \* the messages sent on this connection, by their letters
    coming,         \* the bytes that have not been read
    last,           \* the bytes of the last read
    handled,        \* the numbers of the messages handled in it
    total           \* and before it, on this connection

streamVars == <<sent, coming, last, handled, total>>

Bytes(n, letters) == [i \in DOMAIN letters |-> <<n, letters[i]>>]

StreamInit ==
    /\ sent = <<>>
    /\ coming = <<>> /\ last = <<>>
    /\ handled = <<>> /\ total = <<>>

CloudSends(letters) ==
    /\ Len(sent) < MaxSent
    /\ sent' = Append(sent, letters)
    /\ coming' = coming \o Bytes(Len(sent) + 1, letters)
    /\ UNCHANGED <<last, handled, total>>
-----------------------------------------------------------------------------
Sep(b, i) == b[i][2] = "close" /\ b[i + 1][2] = "open"
Seps(b) == {i \in 1..Len(b) - 1 : Sep(b, i)}

\* Where the first }{ stands, 0 if nowhere: one more than bytes.Index says.
Index(b) == IF Seps(b) = {} THEN 0 ELSE Min(Seps(b))

\* Where the next piece ends.  The code asks for i > 0: a read that begins with }{
\* is not cut at all.
Cut(b) == IF Index(b) > 1 THEN Index(b) ELSE Len(b)

\* json.Unmarshal takes a piece that is one whole message.
Parses(piece) ==
    LET n == piece[1][1] IN piece = Bytes(n, sent[n])

Handle(piece, done) == IF Parses(piece) THEN Append(done, piece[1][1]) ELSE done

\* Fault: no continue, so what follows the cut is handled as well, and cut again.
RoundOn(r) ==
    LET c == Cut(r.rest)
        rest == SubSeq(r.rest, c + 1, Len(r.rest))
        done == Handle(SubSeq(r.rest, 1, c), r.done)
    IN  IF r.rest = <<>> THEN r
        ELSE [rest |-> rest, done |-> IF rest = <<>> THEN done ELSE Handle(rest, done)]

\* One round of the loop: what is left of the read, and what has been handled.
Round(r) ==
    LET c == Cut(r.rest)
    IN  IF r.rest = <<>> THEN r
        ELSE [rest |-> SubSeq(r.rest, c + 1, Len(r.rest)), done |-> Handle(SubSeq(r.rest, 1, c), r.done)]

Rounds(b) ==
    LET round[k \in Nat] == IF k = 0 THEN [rest |-> b, done |-> <<>>] ELSE Round(round[k - 1])
    IN  round

\* Fault: no loop, so what follows the first cut is dropped.
HandledOnce(b) == Rounds(b)[1].done

\* A round takes a byte at least.
Handled(b) == Rounds(b)[Len(b)].done

CloudReads(n) ==
    /\ n \in 1..Len(coming) /\ n <= Buf
    /\ LET b == SubSeq(coming, 1, n)
       IN  last' = b /\ handled' = Handled(b)
    /\ total' = total \o handled
    /\ coming' = SubSeq(coming, n + 1, Len(coming))
    /\ UNCHANGED sent

\* The connection is lost; the next one starts from nothing.
CloudRedialled ==
    /\ sent # <<>>
    /\ sent' = <<>> /\ coming' = <<>> /\ last' = <<>> /\ handled' = <<>> /\ total' = <<>>

StreamNext ==
    \/ \E letters \in Plain \cup Quoting : CloudSends(letters)
    \/ \E n \in 1..Buf : CloudReads(n)
    \/ CloudRedialled
-----------------------------------------------------------------------------
\* A message of the cloud is handled at most once, and in the order in which they
\* were sent, wherever TCP cuts the stream (cloud.go:34-44).
OnceInOrder ==
    LET all == total \o handled IN \A i, j \in DOMAIN all : i < j => all[i] < all[j]

\* The messages that a read holds whole are handled in it, however many there are,
\* whatever remains of torn ones before and behind them, and whatever strings
\* others carry, unless the read begins with }{ (cloud.go:33-44).
Within(n) == \E i \in 0..Len(last) - Len(sent[n]) : SubSeq(last, i + 1, i + Len(sent[n])) = Bytes(n, sent[n])

WholeHandled ==
    Index(last) # 1 =>
        \A n \in DOMAIN sent : sent[n] \in Plain /\ Within(n) => \E i \in DOMAIN handled : handled[i] = n

\* The same of every read (cloud.go:33: "split multiple JSON in one packet").
SplitsPackets ==
    \A n \in DOMAIN sent : sent[n] \in Plain /\ Within(n) => \E i \in DOMAIN handled : handled[i] = n
=============================================================================
