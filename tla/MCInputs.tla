------------------------------ MODULE MCInputs ------------------------------
(***************************************************************************)
(* The constants of Inputs for model checking.                             *)
(***************************************************************************)
EXTENDS Inputs

\* {x}, the empty {}, and a message that fills the buffer.
PlainMessages ==
    {<<"open", "x", "close">>, <<"open", "close">>,
     [i \in 1..Buf |-> IF i = 1 THEN "open" ELSE IF i = Buf THEN "close" ELSE "x"]}

\* A message with a string that holds }{.
QuotingMessages == {<<"open", "close", "open", "close">>}
=============================================================================
