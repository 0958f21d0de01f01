------------------------------ MODULE MCSinks ------------------------------
(* Sinks for TLC: which endpoint each caller attaches its channel to. *)
EXTENDS Sinks

CONSTANTS t1, t2, t3, g1

\* Two callers share a port and a multicast group.
MCPortOf == [t \in Threads |-> IF t = t2 THEN 8 ELSE 7]
MCGroupOf == [t \in Threads |-> IF t = t2 THEN NoGroup ELSE g1]
=============================================================================
