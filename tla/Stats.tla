-------------------------------- MODULE Stats --------------------------------
(***************************************************************************)
(* The receiver of the throughput test: sockperf_channel::enqueue records  *)
(* the packets that come back (statistics::slot) and stops the jobs at the *)
(* first packet beyond the expected number; statistics::process then walks *)
(* the records and counts, per tx queue, packets missing and packets out   *)
(* of sequence.  The network may lose, reorder and duplicate packets, and  *)
(* packets of no sender of this test may reach the channel.                *)
(* A step of the report is one iteration of its loop.  An access outside a *)
(* vector leads to the phase "undefined" where its value or its effect may *)
(* matter.                                                                 *)
(***************************************************************************)
EXTENDS Integers, Sequences, FiniteSets, FiniteSetsExt, SequencesExt

CONSTANTS
  TxqN,         \* txq_n_: tx queues, numbered from 0
  PerQueue,     \* packets2send of each queue
  Seqns,        \* sequence numbers the senders use
  Strays,       \* other packets that may arrive, with the queue in their number
  MaxDuplicates, \* bound: packets that arrive again
  SizeWrap,     \* number of values of size_type (2^64)
  SeqWrap       \* numbers that split_seqn tells apart (2^28)

Queues == 0..(TxqN - 1)
Packet == [queue : Queues, seqn : Seqns] \cup Strays

ASSUME StatsAssumption ==
  /\ TxqN \in Nat \ {0} /\ Seqns \subseteq Nat
  /\ Strays \subseteq [queue : Nat, seqn : Seqns] /\ \A p \in Strays : p.queue >= TxqN
  /\ PerQueue \in Nat \ {0} /\ MaxDuplicates \in Nat
  /\ SizeWrap \in Nat /\ \A s \in Seqns : s < SizeWrap

\* make_seqn leaves 56 bits for the number, split_seqn keeps 28 of them.
ASSUME SeqnAssumption == SeqWrap \in Nat /\ \A s \in Seqns : s < SeqWrap

VARIABLES
  detailed, \* the option detailed-stats
  phase,    \* "receive", "report", "reported" or "undefined"
  running,  \* cleared by stop_jobs()
  data,     \* memory_: the packets recorded
  slots,    \* next_slot_ (requested_slots())
  arrived,  \* every packet that arrived, in order
  warm,     \* last_warmup_message_ is set
  i,        \* records the report has done
  prev,     \* per queue: the record it expects the successor of, 0 = not_set
  missing, outOfSequence

report == <<i, prev, missing, outOfSequence>>
vars == <<detailed, phase, running, data, slots, arrived, warm, report>>

\* sockperf_channel::sockperf_channel and statistics::statistics
Expected == PerQueue * TxqN
Size == (IF detailed THEN Expected ELSE 2) * TxqN
Collected == Min({slots, Size})

Init ==
  /\ detailed \in BOOLEAN
  /\ phase = "receive" /\ running = TRUE
  /\ data = <<>> /\ slots = 0 /\ arrived = <<>> /\ warm = FALSE
  /\ i = 0 /\ prev = [q \in Queues |-> 0]
  /\ missing = [q \in Queues |-> 0] /\ outOfSequence = [q \in Queues |-> 0]

\* Packets that arrived more than once.
Duplicates == Len(arrived) - Cardinality(ToSet(arrived))

\* What the network may deliver next.
Arrives(p) == p \in ToSet(arrived) => Duplicates < MaxDuplicates

\* size_ > next_slot_ ? next_slot_ : size_ - 1
SlotIndex == IF Size > slots THEN slots + 1 ELSE Size

\* statistics::slot: when all slots are used the last one is used again.
Record(p) ==
  /\ data' = [j \in 1..Max({Len(data), SlotIndex}) |-> IF j = SlotIndex THEN p ELSE data[j]]
  /\ slots' = slots + 1

Complete == slots = Expected

\* enqueue of a ping or pong of the test: recorded, or one too many.
EnqueueMessage(p) ==
  /\ phase = "receive" /\ Arrives(p)
  /\ IF Complete
     THEN running' = FALSE /\ UNCHANGED <<data, slots, arrived>>
     ELSE Record(p) /\ arrived' = Append(arrived, p) /\ UNCHANGED running
  /\ UNCHANGED <<detailed, phase, warm, report>>

\* enqueue of a warmup message: remembered, never counted.
EnqueueWarmup ==
  /\ phase = "receive"
  /\ warm' = TRUE
  /\ UNCHANGED <<detailed, phase, running, data, slots, arrived, report>>

\* The user or the timeout of the test stops the jobs.
Stop ==
  /\ phase = "receive" /\ running
  /\ running' = FALSE
  /\ UNCHANGED <<detailed, phase, data, slots, arrived, warm, report>>

\* The default branch of the switch over collected_packets.
MoreThanTwo == Collected > 2

\* run() calls process() once the rx lcore has returned; until then it may
\* still deliver packets although the jobs were stopped.
StartReport ==
  /\ phase = "receive" /\ ~running
  /\ phase' = IF MoreThanTwo THEN "report" ELSE "reported"
  /\ UNCHANGED <<detailed, running, data, slots, arrived, warm, report>>

SplitSeqn(p) == p.seqn % SeqWrap

\* A packet out of sequence was counted as missing, and prev stays.
\* Mutant: it stays missing.
StillMissing(m) == m
NoLongerMissing(m) == (m - 1) % SizeWrap
PrevAfterLate(q) == prev[q]

Current == data[i + 1].queue

\* One iteration of the loop over the collected packets.
ProcessRecord ==
  /\ phase = "report" /\ i < Collected /\ Current \in Queues
  /\ LET q == Current
         s == SplitSeqn(data[i + 1])
         expected == SplitSeqn(data[prev[q]]) + 1
     IN IF prev[q] = 0 \/ s = expected
        THEN /\ prev' = [prev EXCEPT ![q] = i + 1]
             /\ UNCHANGED <<missing, outOfSequence>>
        ELSE IF expected < s
        THEN /\ missing' = [missing EXCEPT ![q] = (@ + s - expected) % SizeWrap]
             /\ prev' = [prev EXCEPT ![q] = i + 1]
             /\ UNCHANGED outOfSequence
        ELSE /\ outOfSequence' = [outOfSequence EXCEPT ![q] = @ + 1]
             /\ missing' = [missing EXCEPT ![q] = NoLongerMissing(@)]
             /\ prev' = [prev EXCEPT ![q] = PrevAfterLate(q)]
  /\ i' = i + 1
  /\ UNCHANGED <<detailed, phase, running, data, slots, arrived, warm>>

\* The iteration for a queue that does not exist: it skips the record.  The
\* comparison, stats.size() < queue, lets the queue after the last one through,
\* which is then used as an index into two vectors that do not have it.
SkipRecord ==
  /\ phase = "report" /\ i < Collected /\ Current \notin Queues
  /\ \/ TxqN < Current /\ i' = i + 1 /\ UNCHANGED phase
     \/ ~(TxqN < Current) /\ phase' = "undefined" /\ UNCHANGED i
  /\ UNCHANGED <<detailed, running, data, slots, arrived, warm, prev, missing, outOfSequence>>

\* The loop over the queues reads data()[prev] of each of them, which for a queue
\* without a record lies outside memory_; what it reads there is not used, so
\* that the report goes on unless the read itself ends the process.
NothingReceived == {q \in Queues : prev[q] = 0}
DumpHistograms ==
  /\ phase = "report" /\ i = Collected
  /\ \/ phase' = "reported"
     \/ NothingReceived # {} /\ phase' = "undefined"
  /\ UNCHANGED <<detailed, running, data, slots, arrived, warm, report>>

Reported == phase \in {"reported", "undefined"} /\ UNCHANGED vars

Next ==
  \/ \E p \in Packet : EnqueueMessage(p)
  \/ EnqueueWarmup \/ Stop \/ StartReport \/ ProcessRecord \/ SkipRecord \/ DumpHistograms \/ Reported

Spec == Init /\ [][Next]_vars

-----------------------------------------------------------------------------
TypeOK ==
  /\ detailed \in BOOLEAN /\ phase \in {"receive", "report", "reported", "undefined"} /\ running \in BOOLEAN
  /\ data \in Seq(Packet) /\ slots \in 0..Expected /\ arrived \in Seq(Packet)
  /\ i \in 0..Collected /\ prev \in [Queues -> 0..Size]
  /\ missing \in [Queues -> 0..(SizeWrap - 1)] /\ outOfSequence \in [Queues -> Nat]
  /\ warm \in BOOLEAN

\* The records are the packets received, in order, as far as there are slots;
\* the last slot always holds the packet received last, so the interval
\* between the first and the last record spans the whole test even with two
\* slots, and no record lies outside memory_.
RecordsSpanTest ==
  /\ Len(data) = Collected
  /\ \A j \in 1..(Collected - 1) : data[j] = arrived[j]
  /\ Collected > 0 => data[Collected] = arrived[slots]

\* Sequence numbers of queue q among the records processed so far, in order.
Done(q) == {j \in 1..i : data[j].queue = q}
DoneSeqns(q) == {data[j].seqn : j \in Done(q)}
FirstIsLowest(q) == Done(q) # {} => \A s \in DoneSeqns(q) : data[Min(Done(q))].seqn <= s

\* If nothing was duplicated, every packet was recorded and no packet overtook
\* the first one of its queue, "missing" is the number of gaps between the
\* lowest and the highest number received, in whatever order they came, and
\* "out_of_sequence" counts the packets that came after a higher one.
MissingIsExact ==
  Duplicates = 0 /\ slots <= Size => \A q \in Queues : FirstIsLowest(q) =>
    /\ missing[q] = IF Done(q) = {} THEN 0
                    ELSE Max(DoneSeqns(q)) - Min(DoneSeqns(q)) + 1 - Cardinality(Done(q))
    /\ outOfSequence[q] = Cardinality({j \in Done(q) :
                            \E e \in Done(q) : e < j /\ data[e].seqn > data[j].seqn})

\* The record a queue continues from is its highest one so far.
PrevIsHighest ==
  \A q \in Queues : prev[q] # 0 =>
    /\ prev[q] \in Done(q)
    /\ \A s \in DoneSeqns(q) : s <= data[prev[q]].seqn

\* The report leaves its vectors only where a queue has no record at all, or
\* where a packet of another test names the queue after the last one.
DefinedUnless ==
  phase = "undefined" => \/ \E q \in Queues : Done(q) = {}
                         \/ \E j \in 1..Collected : data[j].queue = TxqN

\* The report is made of what was received: the records span the test, the loop
\* of statistics::process counts missing and late packets exactly, whatever other
\* packets came between them, and both loops stay within their vectors but for
\* two cases.
ReportIsExact == RecordsSpanTest /\ PrevIsHighest /\ MissingIsExact /\ DefinedUnless
=============================================================================
