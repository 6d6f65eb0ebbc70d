\* One share of three levels under seven lists of rules, listings that fail, and
\* a timeout at any point.
CONSTANTS
  host = host  share = share  a = a  b = b  c = c  cellar = cellar
  lost = lost  deep = deep  inner = inner  other = other  top = top
  nil = nil
  Principal = {"user", "group"}
  Host = host  Root = share  Nil = nil
  Entry <- MCEntry
  Dir <- MCDir
  Parent <- MCParent
  Descriptor <- MCDescriptor
  ShareDescriptor <- MCShareDescriptor
  RuleLists <- MCRuleLists
  maxDepth = 3
  effectiveAccessOnly = FALSE
SPECIFICATION Spec
INVARIANTS TypeOK EdgesFollowNodes EmittedOnce RightsAreNearest EffectiveIsBoth ExploresAll CountsAreExact
