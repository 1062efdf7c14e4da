SPECIFICATION FairSpec
CONSTANTS
  r1 = r1
  r2 = r2
  r3 = r3
  t1 = t1
  t2 = t2
  b1 = b1
  Bases = {b1}
  AuxBase <- MCAuxBase
  Pre = Pre
  NoTable = NoTable
  NoName = NoName
  NoRun = NoRun
  Runs = {r1, r2, r3}
  Tables = {t1}
  MaxAttempts = 1
  Plans <- ReplacePlans
  BatchSizes = {1}
  MaxBatches = 0
  MayLoseRows = FALSE
  InitialNames <- SwapInitialNames
  InitialRows = {1}
  Outcomes = {"ok", "error"}
  SwapOutcomes = {"ok", "error", "lost"}
INVARIANTS
  FailedReplaceUnpublished
PROPERTIES
  RunsReturn
  ImplementsPublication
