------------------------------ MODULE MCJobs ------------------------------
(* Jobs for TLC: one lcore with three jobs, one with a single job. *)
EXTENDS Jobs

CONSTANTS c1, c2, j1, j2, j3, j4

MCJobsOf == [c \in Cores |-> IF c = c1 THEN <<j1, j2, j3>> ELSE <<j4>>]
=============================================================================
