CONSTANTS
  QueueSize = 1
  MaxEvents = 2

SPECIFICATION FairSpec
INVARIANT PendingCounts
INVARIANT OneSweep
INVARIANT SweepKept
INVARIANT NoLostNotice
PROPERTY NoticesServed
