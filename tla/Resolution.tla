----------------------------- MODULE Resolution -----------------------------
(***************************************************************************)
(* What device::ether_address promises its callers, without the table, the *)
(* ring, the network and the polling loop (Arp implements it): a call      *)
(* returns once; it succeeds only with the device's own address, for a     *)
(* loopback address, or with the one its host has announced before; what   *)
(* was announced is never forgotten.                                       *)
(***************************************************************************)
CONSTANTS Resolvers, Ips, LocalIps, Target, Mac, OwnMac, Unset

Failures == {"not_supported", "connection_aborted", "operation_canceled", "timed_out"}

VARIABLES
  known,   \* addresses whose hosts were heard of
  answer   \* of each call: its error code and the output parameter

vars == <<known, answer>>

Pending == [code |-> "none", mac |-> Unset]

Init == known = {} /\ answer = [r \in Resolvers |-> Pending]

Announce(a) == known' = known \cup {a} /\ UNCHANGED answer

Answer(r, code, mac) ==
  /\ answer[r] = Pending
  /\ answer' = [answer EXCEPT ![r] = [code |-> code, mac |-> mac]]
  /\ UNCHANGED known

Succeed(r) ==
  \/ Target[r] \in LocalIps /\ Answer(r, "ok", OwnMac)
  \/ Target[r] \in known /\ Answer(r, "ok", Mac[Target[r]])

Fail(r) == \E code \in Failures : Answer(r, code, Unset)

Next == (\E a \in Ips : Announce(a)) \/ (\E r \in Resolvers : Succeed(r) \/ Fail(r))

Spec == Init /\ [][Next]_vars
=============================================================================
