-------------------------- MODULE MCSocketProgram ---------------------------
(* SocketProgram for TLC. *)
EXTENDS SocketProgram

MCToType == <<1>>
MCToSend == <<3, 4>>
=============================================================================
