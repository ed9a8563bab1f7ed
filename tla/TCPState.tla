------------------------------ MODULE TCPState ------------------------------
(***************************************************************************)
(* The names of the TCP specification for the states of a connection       *)
(* (libsponge/tcp_helpers/tcp_state.cc): what the receiver's and the       *)
(* sender's summaries, active and linger are in each of them.              *)
(***************************************************************************)
EXTENDS TCPConnection

State(c) ==
  <<ReceiverSummary(c.receiver), SenderSummary(c.sender), c.active, c.active /\ c.linger>>

Official ==
  [LISTEN      |-> <<"LISTEN",   "CLOSED",    TRUE,  TRUE>>,
   SYN_RCVD    |-> <<"SYN_RECV", "SYN_SENT",  TRUE,  TRUE>>,
   SYN_SENT    |-> <<"LISTEN",   "SYN_SENT",  TRUE,  TRUE>>,
   ESTABLISHED |-> <<"SYN_RECV", "SYN_ACKED", TRUE,  TRUE>>,
   CLOSE_WAIT  |-> <<"FIN_RECV", "SYN_ACKED", TRUE,  FALSE>>,
   LAST_ACK    |-> <<"FIN_RECV", "FIN_SENT",  TRUE,  FALSE>>,
   CLOSING     |-> <<"FIN_RECV", "FIN_SENT",  TRUE,  TRUE>>,
   FIN_WAIT_1  |-> <<"SYN_RECV", "FIN_SENT",  TRUE,  TRUE>>,
   FIN_WAIT_2  |-> <<"SYN_RECV", "FIN_ACKED", TRUE,  TRUE>>,
   TIME_WAIT   |-> <<"FIN_RECV", "FIN_ACKED", TRUE,  TRUE>>,
   RESET       |-> <<"ERROR",    "ERROR",     FALSE, FALSE>>,
   CLOSED      |-> <<"FIN_RECV", "FIN_ACKED", FALSE, FALSE>>]

In(c, name) == State(c) = Official[name]
=============================================================================
