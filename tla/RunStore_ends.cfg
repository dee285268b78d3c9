\* Drops and crashes, a buffer of three frames, with fairness: streams end.
CONSTANTS
  MaxRuns = 1
  MaxSteps = 1
  MaxResumes = 1
  BufferedEvents = 3
  BufferedRuns = 1
  Drops = TRUE
  Crashes = TRUE
  MaxRequests = 2
  Others = FALSE
SPECIFICATION FairStoreSpec
INVARIANTS NothingMissed
PROPERTIES StreamsEnd
