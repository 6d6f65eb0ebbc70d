\* Sizes that are no code of a character.
CONSTANTS
  MaxRune = 12  Surrogate = {8, 9}  Replacement = 11  Modulus = 32
  Lower <- MCLower
  Token <- MCToken
  Fold <- MCFold
  NumberOf <- MCNumberOf
  Recode <- MCRecode
  Compiles <- MCCompiles
  Matches <- MCMatches
  CommandLines <- LargeCommandLines
  Shares <- MCShares
  Files <- MCFiles
  Dirs <- MCDirs
  Depths <- MCDepths
SPECIFICATION Spec
INVARIANTS MeansWhatItSays
