\* The delays of the README.
SPECIFICATION FairSpec
CONSTANTS
  MinDelay = 100
  MaxDelay = 30000
  MaxEvents = 3
INVARIANTS TypeOK DelayDoubles
PROPERTIES ImplementsFeed CancelEnds Reopens
