--------------------------- MODULE MCPropertyPool ---------------------------
(* Five elements, the gateway and two devices, three property ids.        *)
EXTENDS PropertyPool
=============================================================================
