---------------------------- MODULE MCDumpQueue ----------------------------
(* The gateway (object 0) and two devices, with messages of three deltas:  *)
(* the gateway has a full message, which is sent with the mutex held, and  *)
(* one delta more.                                                         *)
EXTENDS DumpQueue, TLC

Properties == 0 :> 4 @@ 1 :> 1 @@ 2 :> 0
============================================================================
