---------------------------- MODULE MCRxDispatch ----------------------------
(* RxDispatch for TLC: the buffers of the pool are interchangeable. *)
EXTENDS RxDispatch, TLC

MbufSymmetry == Permutations(Mbufs)
=============================================================================
