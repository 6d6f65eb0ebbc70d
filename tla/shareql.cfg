\* Every condition of up to three comparisons, every object, and lines at fault.
CONSTANTS
  MaxRune = 12  Surrogate = {8, 9}  Replacement = 11  Modulus = 32
  Lower <- MCLower
  Token <- MCToken
  Fold <- MCFold
  NumberOf <- MCNumberOf
  Recode <- MCRecode
  Compiles <- MCCompiles
  Matches <- MCMatches
  CommandLines <- MCCommandLines
  Shares <- MCShares
  Files <- MCFiles
  Dirs <- MCDirs
  Depths <- MCDepths
SPECIFICATION Spec
INVARIANTS TypeOK MeansWhatItSays NoRuleMissing
