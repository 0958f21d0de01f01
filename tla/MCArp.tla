------------------------------- MODULE MCArp -------------------------------
\* Arp for TLC: two resolvers of one address one of another and one
\* of a loopback address.
EXTENDS Arp, TLC

CONSTANTS r1, r2, r3, r4, a1, a2, local, m1, m2

MCTargetLocal == (r1 :> a1) @@ (r2 :> a1) @@ (r3 :> a2) @@ (r4 :> local)
MCMac == (a1 :> m1) @@ (a2 :> m2)
=============================================================================
