SPECIFICATION FairSpec
CONSTANTS
  Handlers = {h1, h2}
  Jobs <- MCJobs
  Start <- MCStart
  Low = 1
  High = 2
  RetryMax = 2
  MaxEvents = 2
INVARIANTS DoneInEffect NeverRefused ExpirySurvived
 
CHECK_DEADLOCK FALSE
