CONSTANTS
  Restart = 2
  Probes <- MCProbes
  IdSet <- MCIdSet
  Inputs <- MCInputs
  Requests <- MCRequests
  Batch = 2
  MaxWrites = 3
  MaxParts = 3
  MaxDuring = 1
  Budgets <- MCBudgets
  AutoCompactAt = 3
  BatchRows = 2
  BatchBytes = 2
  Spelling <- MCSpelling
  Queries <- MCQueries
SPECIFICATION Spec
INVARIANTS
  ReadersAgree
  PruningSound
  MergeIsBuild
  PagesExact
  CompactionsFit
  QueriesExact
CHECK_DEADLOCK FALSE
