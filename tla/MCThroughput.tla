---------------------------- MODULE MCThroughput ----------------------------
(* Throughput for TLC: the constants are given by the configurations. *)
EXTENDS Throughput
=============================================================================
