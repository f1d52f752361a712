CONSTANTS
  Tools <- MCTools
  Args <- MCArgs
  Own = "own"
  InScope <- MCInScope
  Manifest <- MCManifest
  Facts <- MCFacts
  Optional <- MCOptional
  MaxCalls = 5
  MaxRounds = 3
  MaxAttempts = 2
  NoCall = NoCall
SPECIFICATION FairSpec
CHECK_DEADLOCK FALSE
INVARIANT TypeOK
INVARIANT MandatoryIsRead
INVARIANT CompletedTraceIsWhole
PROPERTY GoodResponsesStay
PROPERTY CollectionEnds
