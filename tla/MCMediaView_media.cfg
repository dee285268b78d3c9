\* Two requests in flight, answered in any order or lost; every source of up to
\* five tokens, every answer of two instances; four edits, runs, answers or builds of the rows.
CONSTANTS
  everything = everything
  small = small
  listed = listed
  unreadable = unreadable
  hd = hd
  uhd = uhd
  Filters <- MCFilters
  Everything = everything
  Unreadable <- MCUnreadable
  Titles <- MCTitles
  Matches <- MCMatches
  Undecided <- MCUndecided
  Silences <- MCSilences
  PageSize = 2
  MaxRequests = 2
SPECIFICATION ViewSpec
CHECK_DEADLOCK FALSE
INVARIANTS AtRestTheTableIsAsAsked ParserFollowsTheGrammar
PROPERTIES WholeMatchDiesWithItsFilter VerdictsStand NoCopyIsLost
