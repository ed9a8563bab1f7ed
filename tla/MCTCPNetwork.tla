---- MODULE MCTCPNetwork ----
EXTENDS TCPNetwork

\* A sends one byte or two, B only its SYN and FIN.
OneByte == [e \in Endpoint |-> IF e = "A" THEN 1 ELSE 0]
TwoBytes == [e \in Endpoint |-> IF e = "A" THEN 2 ELSE 0]

\* A's sequence numbers wrap during the connection.
Isns == [e \in Endpoint |-> IF e = "A" THEN Mod32 - 2 ELSE 3]
====
