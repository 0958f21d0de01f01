------------------------------ MODULE SrcPort ------------------------------
(***************************************************************************)
(* device::next_src_port: an atomic counter of 16 bits that hands out UDP  *)
(* ports from a configured one on.  Where it has wrapped around below that *)
(* port, the caller tries to set it back with compare_exchange_weak.  The  *)
(* exchange compares the counter with the value just taken from it, which  *)
(* it no longer has unless all the ports were taken in between, and then   *)
(* stores what it finds in the result.                                     *)
(***************************************************************************)
EXTENDS Integers

CONSTANTS
  Callers,   \* threads
  PortWrap   \* number of ports (2^16)

VARIABLES
  first,  \* config_.next_src_port
  next,   \* next_src_port_
  at,     \* of each caller: "idle", "fetch", "exchange" or "returned"
  res     \* the result, of each caller

vars == <<first, next, at, res>>

Init(f) ==
  /\ first = f /\ next = f
  /\ at = [c \in Callers |-> "idle"] /\ res = [c \in Callers |-> 0]

Call(c) ==
  /\ at[c] = "idle" /\ at' = [at EXCEPT ![c] = "fetch"]
  /\ UNCHANGED <<first, next, res>>

Incremented(n) == (n + 1) % PortWrap

\* (res = next_src_port_++) < config_.next_src_port
FetchAdd(c) ==
  /\ at[c] = "fetch"
  /\ res' = [res EXCEPT ![c] = next] /\ next' = Incremented(next)
  /\ at' = [at EXCEPT ![c] = IF next < first THEN "exchange" ELSE "returned"]
  /\ UNCHANGED first

\* && compare_exchange_weak(res, config_.next_src_port), which also may fail
\* although the values are equal: set back, and another turn of the loop, or
\* the counter becomes the result.
Exchange(c) ==
  /\ at[c] = "exchange" /\ UNCHANGED first
  /\ \/ /\ next = res[c] /\ next' = first
        /\ at' = [at EXCEPT ![c] = "fetch"] /\ UNCHANGED res
     \/ /\ res' = [res EXCEPT ![c] = next]
        /\ at' = [at EXCEPT ![c] = "returned"] /\ UNCHANGED next

Step(c) == FetchAdd(c) \/ Exchange(c)

Return(c) == at[c] = "returned" /\ at' = [at EXCEPT ![c] = "idle"] /\ UNCHANGED <<first, next, res>>

TypeOK ==
  /\ first \in 0..(PortWrap - 1) /\ next \in 0..(PortWrap - 1)
  /\ at \in [Callers -> {"idle", "fetch", "exchange", "returned"}] /\ res \in [Callers -> 0..(PortWrap - 1)]
=============================================================================
