-------------------------- MODULE MCPendingEvents --------------------------
(* A device that can say everything, one that reports at once, and a pool so  *)
(* small that it runs out.                                                    *)
EXTENDS PendingEvents

CONSTANTS d1, d2

Fault(device, faulty, battery) ==
  [type |-> "fault", id |-> device, faulty |-> faulty, battery |-> battery]

MCTraffic ==
  {Fault(d1, faulty, battery) : faulty, battery \in BOOLEAN}
  \cup {Fault(d2, flag, flag) : flag \in BOOLEAN}
  \cup {[type |-> "alarm", id |-> device] : device \in {d1, d2}}
  \cup {[type |-> "other"]}
=============================================================================
