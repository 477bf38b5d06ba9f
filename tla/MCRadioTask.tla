---------------------------- MODULE MCRadioTask ----------------------------
(* The gateway and two nodes, one message, two commands and one answer to a chirp. *)
EXTENDS RadioTask
=============================================================================
