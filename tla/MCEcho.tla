------------------------------- MODULE MCEcho -------------------------------
EXTENDS EchoAccord

CONSTANTS a, b, c

\* Three pieces without an end of line fill the buffer.
Envois == [x \in {a, b, c} |-> CASE x = a -> 3 [] x = b -> 2 [] x = c -> 1]
=============================================================================
