----------------------------- MODULE MCTraversal -----------------------------
(***************************************************************************)
(* An instance of Traversal for TLC: two directories side by side, and one *)
(* of them three levels deep.                                              *)
(*                                                                         *)
(*   share -- a -- b -- cellar -- lost                                     *)
(*       |    |    +--- deep                                               *)
(*       |    +- inner                                                     *)
(*       +--- c -- other                                                   *)
(*       +--- top                                                          *)
(*                                                                         *)
(* deep, other, c and top grant nothing: deep inherits from b rather than  *)
(* a, and other and top from the root.  A depth of 3 cuts off lost.        *)
(***************************************************************************)
EXTENDS Traversal

CONSTANTS host, share, a, b, c, cellar, lost, deep, inner, other, top, nil

MCEntry  == {a, b, c, cellar, lost, deep, inner, other, top}
MCDir    == {a, b, c, cellar}
MCParent == a :> share @@ c :> share @@ top :> share @@ b :> a @@ inner :> a
            @@ cellar :> b @@ deep :> b @@ lost :> cellar @@ other :> c

\* The lists: deep cannot be read and other has none; those of c and top grant
\* nothing; two entries of a name one right, and what follows a cut entry is lost.
Allow(sid, mask)  == Ace("allowed", sid, mask)
MCDescriptor ==
     deep :> Unreadable @@ other :> NoDacl
  @@ c :> Dacl(<<Ace("denied", "group", {"genericAll"}), Ace("audit", "user", {"delete"}),
                 Ace("callback", "user", {"readData"}), Allow(NoSid, {"genericAll"})>>)
  @@ top :> Dacl(<<CutAce, Allow("user", {"readData"})>>)
  @@ share :> Dacl(<<Allow("user", {"readData", "synchronize"}), Allow("group", {"genericAll"})>>)
  @@ a :> Dacl(<<Allow("user", {"writeData"}), Allow("user", {"writeData", "readData"})>>)
  @@ b :> Dacl(<<Allow("group", {"readData", "execute"})>>)
  @@ cellar :> Dacl(<<Allow("user", {"genericWrite"}), CutAce, Allow("group", {"delete"})>>)
  @@ lost :> Dacl(<<Allow("group", {"delete"})>>)
  @@ inner :> Dacl(<<Allow("user", {"genericRead"}), Allow("group", {"writeData"})>>)
MCShareDescriptor ==
  Dacl(<<Allow("group", {"genericAll"}), Allow("user", {"readData", "genericExecute"})>>)

DenyExploration(field, values) == Rule(FALSE, "EXPLORATION", {Compare(field, values)})
DenyProcessing(field, values)  == Rule(FALSE, "PROCESSING", {Compare(field, values)})

\* The default rules; rules/max_depth_1.shareql; of Go/README.md "Skip temp
\* directories", "Skip large files" and "Only process certain file types" (with
\* its two rules in the order that lets the second apply); a share that is
\* excluded; the upper levels left out of the graph; below the first level, one
\* directory only.
DefaultRules  == <<Default(TRUE), DenyExploration("SHARE", {}), Rule(TRUE, "EXPLORATION", {})>>
MaxDepthRules == <<DenyExploration("DEPTH", {2, 3, 4})>>
SkipDirRules  == <<DenyExploration("DIR", {b})>>
LargeFiles    == <<DenyProcessing("FILE", {top})>>
OnlySomeFiles == <<Rule(TRUE, "PROCESSING", {Compare("FILE", {deep, inner})}),
                   Rule(FALSE, "PROCESSING", {})>>
HiddenShare   == <<DenyExploration("SHARE", {share})>>
UpperLevels   == <<DenyProcessing("DEPTH", {0, 1})>>
OnlyOneBelow  == <<Rule(FALSE, "EXPLORATION",
                        {Compare("DEPTH", {1, 2, 3}), CompareNot("DIR", {b})})>>

MCRuleLists == {DefaultRules, MaxDepthRules, SkipDirRules, LargeFiles,
                OnlySomeFiles, HiddenShare, UpperLevels, OnlyOneBelow}
LargeFileRules == {LargeFiles}
=============================================================================
