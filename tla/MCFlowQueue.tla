---------------------------- MODULE MCFlowQueue ----------------------------
\* FlowQueue for TLC: a channel with both endpoints and two with one each.
EXTENDS FlowQueue

CONSTANTS c1, c2, c3, e1, g1

MCCalls == {<<c1, e1>>, <<c1, g1>>, <<c2, e1>>, <<c3, g1>>}
=============================================================================
