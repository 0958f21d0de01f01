------------------------------ MODULE Latency ------------------------------
(***************************************************************************)
(* The warm-up (tx_job::warmup) and the latency test                       *)
(* (latency_test_job::process) of sockperf_cli.  Both send numbered        *)
(* packets marked as warm-up and look at last_warmup_message, where the    *)
(* receiving core (sockperf_channel::enqueue) leaves the newest reply.     *)
(* The two tests use the same numbers, so a reply also says here which of  *)
(* them its packet belonged to.  The network may lose, duplicate, reorder  *)
(* or delay.                                                               *)
(***************************************************************************)
EXTENDS Integers, Sequences, SequencesExt

CONSTANTS
  WarmupCount,   \* 16
  Period,        \* rounds of the warm-up loop per packet (16)
  MaxWarmup,     \* bound: packets of the warm-up before its timeout
  Packets,       \* packets2send_
  Retries,       \* of retry(500ms)
  Cap,           \* size of latencies_us (1024)
  MaxNet         \* bound: replies under way

ASSUME LatencyAssumption ==
  /\ WarmupCount \in Nat /\ Period \in Nat \ {0} /\ MaxWarmup \in Nat /\ WarmupCount <= MaxWarmup
  /\ Packets \in Nat /\ Retries \in Nat /\ Cap \in Nat \ {0} /\ MaxNet \in Nat

VARIABLES
  pc,         \* "warm", "tail", "drain", "send", "wait", "done" or "error"
  seqn,       \* number of the last (warm-up) or next (test) packet
  round,      \* i of the warm-up loop
  buffer,     \* a prepared packet waits to be enqueued
  jobs,       \* the caller's jobs are not empty
  left,       \* i of the wait loop
  samples,    \* what each latency was computed from
  ix,         \* latencies in the array
  reported,   \* latencies dumped
  net,        \* packets and replies under way
  last,       \* last_warmup_message_
  suspended,  \* jobs_suspended()
  calm        \* history: so far nothing was lost, duplicated, reordered or late

vars == <<pc, seqn, round, buffer, jobs, left, samples, ix, reported, net, last, suspended, calm>>
warmVars == <<round, buffer, jobs>>
testVars == <<left, samples, ix, reported>>

Message(n, test) == [seqn |-> n, test |-> test]
Null == Message(0, "none")

\* run() makes a warm-up unless no-warmup was given.
Init ==
  /\ \/ pc = "warm" /\ seqn = 0
     \/ pc = "send" /\ seqn = 1
  /\ round = 0 /\ buffer = FALSE /\ jobs \in BOOLEAN
  /\ left = 0 /\ samples = <<>> /\ ix = 0 /\ reported = 0
  /\ net = <<>> /\ last = Null /\ suspended = FALSE /\ calm = TRUE

WarmedUp == last # Null /\ seqn >= WarmupCount

\* A packet is prepared if none waits (or the pool is empty), and enqueued
\* (or the ring is full).
WarmupSend ==
  /\ pc = "warm" /\ ~WarmedUp /\ ~suspended /\ pc' = "tail"
  /\ IF round = 0
     THEN \/ /\ buffer \/ seqn < MaxWarmup
             /\ seqn' = IF buffer THEN seqn ELSE seqn + 1
             /\ \/ net' = Append(net, Message(seqn', "warmup")) /\ buffer' = FALSE
                \/ buffer' = TRUE /\ UNCHANGED net
          \/ ~buffer /\ UNCHANGED <<seqn, buffer, net>>
     ELSE UNCHANGED <<seqn, buffer, net>>
  /\ UNCHANGED <<round, jobs, testVars, last, suspended, calm>>

\* No jobs: owner_dead; too late: timed_out; otherwise they run once.
WarmupTail ==
  /\ pc = "tail"
  /\ \/ pc' = "error" /\ UNCHANGED round
     \/ jobs /\ pc' = "warm" /\ round' = (round + 1) % Period
  /\ UNCHANGED <<seqn, buffer, jobs, testVars, net, last, suspended, calm>>

WarmupEnds ==
  /\ pc = "warm" /\ (WarmedUp \/ suspended) /\ pc' = "drain" /\ buffer' = FALSE
  /\ UNCHANGED <<seqn, round, jobs, testVars, net, last, suspended, calm>>

\* Mutant: the reply is not waited for.
NotDrained == TRUE
Drained == suspended \/ last.seqn = seqn

\* The reply to the last packet has come, or its timeout is over (and what the
\* network still holds is late).
Drain ==
  /\ pc = "drain" /\ pc' = "send" /\ seqn' = 1
  /\ calm' = (calm /\ (Drained \/ net = <<>>))
  /\ UNCHANGED <<warmVars, testVars, net, last, suspended>>

Sending == pc = "send" /\ seqn < Packets + 1 /\ ~suspended

\* The pool is empty, or the NIC takes nothing and the packet is freed: the loop
\* begins again.
TestRetry == Sending /\ UNCHANGED vars

TestSend ==
  /\ Sending
  /\ net' = Append(net, Message(seqn, "latency")) /\ left' = Retries /\ pc' = "wait"
  /\ UNCHANGED <<seqn, warmVars, samples, ix, reported, last, suspended, calm>>

Matches == last # Null /\ last.seqn = seqn

\* Mutant: the number of the packet stays.
SameSeqn == seqn
NextSeqn == seqn + 1

\* Mutant: a full array is not emptied.
NeverFull == FALSE
Full == ix = Cap

TestReply ==
  /\ pc = "wait" /\ ~suspended /\ Matches
  /\ samples' = Append(samples, last)
  /\ reported' = IF Full THEN reported + ix ELSE reported
  /\ ix' = IF Full THEN 1 ELSE ix + 1
  /\ pc' = "send" /\ seqn' = NextSeqn
  /\ UNCHANGED <<warmVars, left, net, last, suspended, calm>>

OutOfTries == left = 0

\* Mutant: the tries are not counted.
TestDelayOnly == pc = "wait" /\ ~suspended /\ ~Matches /\ UNCHANGED vars

\* No reply yet: a delay, or no more tries.
TestDelay ==
  /\ pc = "wait" /\ ~suspended /\ ~Matches
  /\ IF OutOfTries
     THEN pc' = "send" /\ seqn' = NextSeqn /\ UNCHANGED left
     ELSE left' = left - 1 /\ UNCHANGED <<pc, seqn>>
  /\ calm' = (calm /\ (left = 0 => net = <<>>))
  /\ UNCHANGED <<warmVars, samples, ix, reported, net, last, suspended>>

TestSuspended ==
  /\ pc = "wait" /\ suspended /\ pc' = "send" /\ seqn' = NextSeqn
  /\ UNCHANGED <<warmVars, testVars, net, last, suspended, calm>>

DumpRest == reported + ix

TestEnds ==
  /\ pc = "send" /\ (seqn >= Packets + 1 \/ suspended)
  /\ pc' = "done" /\ reported' = DumpRest
  /\ UNCHANGED <<seqn, warmVars, left, samples, ix, net, last, suspended, calm>>

\* The receiving core: the message becomes last_warmup_message_.
Enqueue ==
  /\ \E k \in DOMAIN net :
       /\ calm' = (calm /\ k = 1)
       /\ last' = net[k] /\ net' = RemoveAt(net, k)
  /\ UNCHANGED <<pc, seqn, warmVars, testVars, suspended>>

Lose ==
  /\ net # <<>> /\ net' = Tail(net) /\ calm' = FALSE
  /\ UNCHANGED <<pc, seqn, warmVars, testVars, last, suspended>>

Duplicate ==
  /\ net # <<>> /\ Len(net) < MaxNet /\ net' = Append(net, Head(net)) /\ calm' = FALSE
  /\ UNCHANGED <<pc, seqn, warmVars, testVars, last, suspended>>

\* stop_jobs, from a signal or from another job.
Suspend ==
  /\ ~suspended /\ suspended' = TRUE
  /\ UNCHANGED <<pc, seqn, warmVars, testVars, net, last, calm>>

Ended == pc \in {"done", "error"} /\ UNCHANGED vars

Warmup == WarmupSend \/ WarmupTail \/ WarmupEnds \/ Drain
Test == TestRetry \/ TestSend \/ TestReply \/ TestDelay \/ TestSuspended \/ TestEnds
Net == Enqueue \/ Lose \/ Duplicate

Next == Warmup \/ Test \/ Net \/ Suspend \/ Ended

\* The core that tests keeps running, its timeouts pass (the warm-up does not
\* go round for ever), and the receiving core delivers.  A packet that is tried
\* again and again is sent in the end: the pool has a buffer left when the NIC
\* queue is full, and a NIC whose link is up empties that.
Spec ==
  /\ Init /\ [][Next]_vars
  /\ WF_vars(Warmup \/ Test) /\ SF_vars(WarmupTail /\ pc' = "error")
  /\ WF_vars(TestSend) /\ WF_vars(Enqueue)

-----------------------------------------------------------------------------
TypeOK ==
  /\ pc \in {"warm", "tail", "drain", "send", "wait", "done", "error"}
  /\ seqn \in 0..(MaxWarmup + Packets + 1) /\ round \in 0..(Period - 1)
  /\ {buffer, jobs, suspended, calm} \subseteq BOOLEAN
  /\ left \in 0..Retries /\ ix \in 0..Cap /\ reported \in 0..Len(samples)

\* The second loop of warmup reads the number in last_warmup_message, which
\* is null until a reply has come: it gets there only with a reply, or when
\* jobs are suspended and the message is not read.
NoNullMessage == pc = "drain" /\ ~suspended => last # Null

\* A latency is computed from a number the test has sent and at most one for
\* each: the numbers increase, whatever the network does with the replies.
SamplesIncrease ==
  \A j, k \in DOMAIN samples :
    samples[j].seqn \in 1..Packets /\ (j < k => samples[j].seqn < samples[k].seqn)

\* Each latency is reported once, however often the array fills up.
SamplesReported == pc = "done" => reported = Len(samples)

\* Whatever the network does, the latency test reads no null message, measures
\* each number at most once and reports what it measured.
SamplesSound == NoNullMessage /\ SamplesIncrease /\ SamplesReported

\* Where replies come in order and none is lost or late, a reply to a packet
\* of the warm-up, which has the same number, is never taken for the reply of
\* the latency test.
SampleIsOwn == calm => \A k \in DOMAIN samples : samples[k].test = "latency"

\* There no packet of the test remains without a latency.
EveryPacketSampled == calm /\ pc = "done" /\ ~suspended => Len(samples) = Packets

\* Where replies come in order and none is lost or late, every packet of the
\* test is measured, by its own reply.
CalmIsMeasured == SampleIsOwn /\ EveryPacketSampled

\* The warm-up and the test end, whatever is lost, as long as packets can be sent.
TestReturns == <>(pc \in {"done", "error"})
=============================================================================
