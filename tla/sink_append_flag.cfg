SPECIFICATION Spec
CONSTANTS
  r1 = r1
  r2 = r2
  r3 = r3
  t1 = t1
  t2 = t2
  b1 = b1
  Bases = {b1}
  AuxBase <- MCAuxBase
  Pre = Pre
  NoTable = NoTable
  NoName = NoName
  NoRun = NoRun
  Runs = {r1, r2}
  Tables = {t1}
  MaxAttempts = 1
  Plans <- AppendPlans
  BatchSizes = {1}
  MaxBatches = 1
  MayLoseRows = FALSE
  InitialNames <- FewInitialNames
  InitialRows = {1}
  Outcomes = {"ok", "error"}
  SwapOutcomes = {"ok", "error"}
INVARIANTS
  PartialFlagHonest
