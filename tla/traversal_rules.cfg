\* A rule about large files.
CONSTANTS
  host = host  share = share  a = a  b = b  c = c  cellar = cellar
  lost = lost  deep = deep  inner = inner  other = other  top = top
  nil = nil
  Principal = {"user", "group"}
  Host = host  Root = share  Nil = nil
  Entry <- MCEntry
  Dir <- MCDir
  Parent <- MCParent
  Descriptor <- MCDescriptor
  ShareDescriptor <- MCShareDescriptor
  RuleLists <- LargeFileRules
  maxDepth = 3
  effectiveAccessOnly = FALSE
SPECIFICATION Spec
INVARIANTS DirectoriesDoNotVanish
