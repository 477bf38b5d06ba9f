-------------------------- MODULE MCStoFileSystem --------------------------
(* A flash of two file areas: two records beside the header, so that power *)
(* can fail between them, a third in the next sector, and behind it room   *)
(* for the first bytes of a fourth.                                        *)
EXTENDS StoFileSystem
============================================================================
