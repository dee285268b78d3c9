\* Two requests in flight and other tabs, one run buffered: answers out of order.
CONSTANTS
  MaxRuns = 2
  MaxSteps = 1
  MaxResumes = 1
  BufferedEvents = 9
  BufferedRuns = 1
  Drops = FALSE
  Crashes = FALSE
  MaxRequests = 2
  Others = TRUE
SPECIFICATION StoreSpec
INVARIANTS RunningIsFollowed AtRestTheViewIsTrue
