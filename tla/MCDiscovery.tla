---------------------------- MODULE MCDiscovery ----------------------------
(* The gateway and two devices, with the limits of the code made small.              *)
EXTENDS Discovery
=============================================================================
