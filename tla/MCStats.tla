------------------------------ MODULE MCStats ------------------------------
(* Stats for TLC: beside the packets of the test, one of the queue after the *)
(* last one and one of a queue beyond.                                       *)
EXTENDS Stats

MCStrays == [queue : {TxqN, TxqN + 1}, seqn : {Min(Seqns)}]
=============================================================================
