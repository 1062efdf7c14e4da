\* Three partitions of up to two batches, with panics, runtime shutdown and a
\* dropped parent, under the fairness of the task scheduler.
CONSTANTS
  N = 3
  MaxBatches = 2
  MayPanic = TRUE
  MayShutdown = TRUE
  MayDrop = TRUE
SPECIFICATION FairSpec
INVARIANTS
  ReturnedMeansFinalized
  OutcomeFaithful
  PartitionOrderRestored
  ProgressComplete
PROPERTIES
  Finalizes
CHECK_DEADLOCK FALSE
