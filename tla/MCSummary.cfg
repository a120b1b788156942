SPECIFICATION FairSpec
CONSTANTS
  CHUNK_WORDS = 6
  CHUNK_OVERLAP = 1
  MIN_SUMMARY_WORDS = 2
  FOLDS = 3
  MaxWords = 21
  MaxAnswer = 7
INVARIANTS
  NothingLeftOut
  CallsFit
PROPERTIES
  SummaryComes
CHECK_DEADLOCK FALSE
