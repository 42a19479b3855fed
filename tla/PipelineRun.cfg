SPECIFICATION PipeSpec
CONSTANTS
  MaxPipelineTroubles = 2
  RetryMax = 2
INVARIANTS SummaryHasMinutes
CHECK_DEADLOCK FALSE
