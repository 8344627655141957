--------------------------- MODULE MCUnlockClient ---------------------------
\* UnlockClient with two connections: the first may retry, the phone of the
\* second is silent.
EXTENDS UnlockClient

CONSTANTS c1, c2

MCClients == {c1, c2}
MCRetries == [c \in MCClients |-> IF c = c1 THEN 1 ELSE 0]
MCAnswers == [c \in MCClients |-> IF c = c1 THEN Kinds \cup {"close"} ELSE {}]
=============================================================================
