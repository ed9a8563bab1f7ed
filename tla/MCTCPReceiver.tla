---- MODULE MCTCPReceiver ----
EXTENDS TCPReceiverSpec
====
