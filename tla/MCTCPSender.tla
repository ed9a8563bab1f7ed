---- MODULE MCTCPSender ----
EXTENDS TCPSenderSpec
====
