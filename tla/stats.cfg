\* Two queues, a network that loses and reorders packets, duplicates one and
\* brings two of no sender;
\* with and without detailed-stats.
CONSTANTS
  TxqN = 2
  Strays <- MCStrays
  PerQueue = 3
  Seqns = {2, 3, 5}
  MaxDuplicates = 1
  SizeWrap = 64
  SeqWrap = 16
SPECIFICATION Spec
INVARIANTS
  ReportIsExact
