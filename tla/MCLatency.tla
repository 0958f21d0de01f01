----------------------------- MODULE MCLatency -----------------------------
\* Small instances of Latency.
EXTENDS Latency
=============================================================================
