---- MODULE MCNetworkInterface ----
EXTENDS NetworkInterfaceSpec
====
