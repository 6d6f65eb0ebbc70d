\* Every combination of sources, and the failure of each.
CONSTANTS
  Width = 4
  Options <- MCOptions
SPECIFICATION Spec
INVARIANTS TypeOK NothingLost OthersStillUsed OnlyWhatWasAskedFor
