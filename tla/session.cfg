\* A session of a host with two shares, on every platform.
CONSTANTS
  s1 = s1  s2 = s2  nil = nil
  Nil = nil
  Share <- Shares
  Fallbacks <- Everywhere
SPECIFICATION LiveSpec
INVARIANTS TypeOK HandlesMatch CleanedStaysClean UnlockedWhileWaiting AnswersAboutTask NothingKept
PROPERTIES ForcedCallEnds ImplementsLink
