------------------------------- MODULE MCLab7 -------------------------------
(* Lab7 on three-bit addresses: 00. is the client's network, 10. lies between the routers, *)
(* 11. is the server's network.                                                             *)
EXTENDS Lab7

MCClientIp == <<0, 0, 1>>
MCClientGate == <<0, 0, 0>>
MCClientRouter == <<1, 0, 0>>
MCServerRouter == <<1, 0, 1>>
MCServerGate == <<1, 1, 0>>
MCServerIp == <<1, 1, 1>>
=============================================================================
