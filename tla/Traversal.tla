------------------------------ MODULE Traversal ------------------------------
(***************************************************************************)
(* The exploration of one share: processShare (Go/internal/worker/         *)
(* worker.go) from its rules on, collectContentsAtDepth (collector/        *)
(* contents.go) and OpenGraphContext (graph/context.go), by the goroutine  *)
(* that in HostScan is "working".                                          *)
(*                                                                         *)
(* The recursion is a stack of activations.  A directory is listed, all of *)
(* its entries are visited in the order in which Go iterates over a map,   *)
(* and then the directories among them are entered one after the other.    *)
(* The context outlives an activation: the path, what has been emitted and *)
(* the objects the rules look at.  A timeout strikes at any point and is   *)
(* seen at the next check of its flag; any listing may fail.               *)
(*                                                                         *)
(* emitted is the sequence of records the context adds to the graph.  In   *)
(* Scan each is an Emit, and a save may fall between any two of them: what *)
(* holds of emitted must hold of each of its prefixes.                     *)
(***************************************************************************)
EXTENDS Rules, Rights, Integers, FiniteSets

CONSTANTS
  Host, Root,           \* the host and the share
  Entry,                \* what the share holds
  Dir,                  \* those of Entry that are directories
  Parent,               \* [Entry -> Dir \cup {Root}]
  Descriptor,           \* the descriptor of each entry and of the root directory
  ShareDescriptor,      \* the descriptor of the share
  RuleLists,            \* the rules the user may have given
  maxDepth,             \* 0: unlimited
  effectiveAccessOnly

\* The directories above an entry and the root: what every set holds that holds the
\* parent of the entry and the parents of its own members.
Ancestors ==
  [e \in Entry \cup {Root} |->
     {a \in Dir \cup {Root} :
        \A S \in SUBSET (Dir \cup {Root}) :
          /\ e # Root => Parent[e] \in S
          /\ \A d \in S \ {Root} : Parent[d] \in S
          => a \in S}]

\* The entries of the share are a tree.
ASSUME TraversalAssumption ==
  /\ IsFiniteSet(Entry) /\ Dir \subseteq Entry
  /\ Host # Root /\ Host # Nil /\ Root # Nil /\ Entry \cap {Host, Root, Nil} = {}
  /\ Parent \in [Entry -> Dir \cup {Root}]
  /\ \A e \in Entry : e \notin Ancestors[e]
  /\ Descriptor \in [Entry \cup {Root} -> DescriptorType]
  /\ ShareDescriptor \in DescriptorType
  /\ \A list \in RuleLists : \A i \in DOMAIN list :
       \A c \in list[i].condition : c.field \in Field
  /\ maxDepth \in Nat /\ effectiveAccessOnly \in BOOLEAN

VARIABLES
  rules,
  shareList,         \* the descriptor that CollectShareRights gets
  pc,
  stack,             \* activations of collectContentsAtDepth, outermost first
  path,              \* OpenGraphContext.path
  emitted,
  hostShareEmitted,
  emittedPathNodes,
  context,           \* EvaluationContext
  timeoutFlag,
  unlisted,          \* history: the directories that could not be listed
  outcome,           \* history: what the visit of each entry decided
  results            \* the counters of WorkerResults for files and directories

vars == <<rules, shareList, pc, stack, path, emitted, hostShareEmitted,
          emittedPathNodes, context, timeoutFlag, unlisted, outcome, results>>

graphVars == <<emitted, hostShareEmitted, emittedPathNodes>>

Children(d) == {e \in Entry : Parent[e] = d}

\* The directory at the end of the path, and the one above the i-th of it.
Above(i) == IF i = 1 THEN Root ELSE path[i - 1].node
Here     == Above(Len(path) + 1)

\* What CollectNTFSRights finds, element by element.
Ntfs == [e \in DOMAIN Descriptor |-> CollectNTFSRights(Descriptor[e])]

shareRights == CollectShareRights(shareList)

PathEntry == [node : Dir, rights : Range(Ntfs)]

\* TraversalCounts.
CountField == {"totalFiles", "skippedFiles", "processedFiles",
               "totalDirs", "skippedDirs", "processedDirs"}
NoCounts   == [f \in CountField |-> 0]
\* Mutant: the skipped directories of the calls are not added up.
AddWithoutSkipped(c, d) ==
  [f \in CountField |-> IF f = "skippedDirs" THEN c[f] ELSE c[f] + d[f]]
Add(c, d)  == [f \in CountField |-> c[f] + d[f]]
Bump(c, fields) == [f \in CountField |-> IF f \in fields THEN c[f] + 1 ELSE c[f]]

Outcome == {"unseen", "skipped", "explored", "processed"}

\* An activation: the entries it has not visited, dirsToExplore, its counts.
Frame == [todo : SUBSET Entry, dirs : Seq(PathEntry), counts : [CountField -> Nat]]
Top   == stack[Len(stack)]
Depth == Len(stack) - 1

-----------------------------------------------------------------------------
(* Records, and AddPathToGraph. *)

Record(kind, from, to) == [kind |-> kind, from |-> from, to |-> to]

NodeRecord(n)     == Record("node", Nil, n)
RightEdges(rs, n) == [i \in DOMAIN rs |-> Record("right", rs[i], n)]

\* Mutant: the edge is added with its parent, before the node.
ItemRecordsEdgeFirst(parent, item, rights) ==
  <<Record("contains", parent, item), NodeRecord(item)>>

EffectiveEdges(rights, n) ==
  SetToSeq({Record("effective", r, n) : r \in ComputeEffectiveRights(shareRights, rights)})

\* A file or directory: its node, its rights, its effective rights and the edge
\* from its parent.
ItemRecords(parent, item, rights) ==
     <<NodeRecord(item)>>
  \o (IF effectiveAccessOnly THEN <<>> ELSE RightEdges(rights, item))
  \o EffectiveEdges(rights, item)
  \o <<Record("contains", parent, item)>>

\* HostsNetworkShare starts at a Computer node that is not in this graph.
HostShareRecords ==
     <<NodeRecord(Host), Record("hosts", Nil, Host), NodeRecord(Root)>>
  \o RightEdges(shareRights, Root)
  \o <<Record("contains", Host, Root)>>

PathRecords ==
  FlattenSeq([i \in 1..Len(path) |->
    IF path[i].node \in emittedPathNodes THEN <<>>
    ELSE ItemRecords(Above(i), path[i].node, path[i].rights)])

PathNodes == {path[i].node : i \in 1..Len(path)}

\* Mutant: a directory is not remembered when it is emitted as the element.
AddPathToGraphForgetful(element, rights) ==
  /\ emitted' = emitted
       \o (IF hostShareEmitted THEN <<>> ELSE HostShareRecords)
       \o PathRecords
       \o (IF element = Nil THEN <<>> ELSE ItemRecords(Here, element, rights))
  /\ hostShareEmitted' = TRUE
  /\ emittedPathNodes' = emittedPathNodes \cup PathNodes

\* element is the current element, or Nil when the share alone is added.
AddPathToGraph(element, rights) ==
  LET seen == emittedPathNodes \cup PathNodes IN
  /\ emitted' = emitted
       \o (IF hostShareEmitted THEN <<>> ELSE HostShareRecords)
       \o PathRecords
       \o (IF element = Nil \/ element \in seen THEN <<>>
           ELSE ItemRecords(Here, element, rights))
  /\ hostShareEmitted' = TRUE
  /\ emittedPathNodes' = seen \cup ({element} \cap Dir)

-----------------------------------------------------------------------------
Lists == {Descriptor[e] : e \in DOMAIN Descriptor} \cup {ShareDescriptor}
Right == Principal \X UNION {DOMAIN ShareRightsMapping, DOMAIN NTFSRightsMapping, DOMAIN Needed}

RecordType == [kind : {"node", "hosts", "contains", "right", "effective"},
               from : Entry \cup Right \cup {Host, Root, Nil},
               to   : Entry \cup {Host, Root}]

TypeOK ==
  /\ rules \in RuleLists /\ shareList \in Lists \cup {Unreadable}
  /\ pc \in {"start", "enter", "entries", "dirs", "leave", "finish", "done"}
  /\ stack \in Seq(Frame) /\ path \in Seq(PathEntry)
  /\ emitted \in Seq(RecordType)
  /\ hostShareEmitted \in BOOLEAN /\ emittedPathNodes \in SUBSET Dir
  /\ context["SHARE"] \in {Root, Nil} /\ context["FILE"] \in Entry \cup {Nil}
  /\ context["DIR"] \in Entry \cup {Nil} /\ context["DEPTH"] \in Nat
  /\ timeoutFlag \in BOOLEAN
  /\ unlisted \in SUBSET (Dir \cup {Root})
  /\ outcome \in [Entry -> Outcome]
  /\ results \in [CountField \cup {"pendingDirs"} -> Int]
  \* The path is where the innermost activation is.
  /\ pc \in {"enter", "entries", "dirs", "leave"} => Len(path) = Depth

\* The server may not tell the descriptor of the share, or that of its root either.
Init ==
  /\ rules \in RuleLists
  /\ shareList \in {ShareDescriptor, Descriptor[Root], Unreadable}
  /\ pc = "start" /\ stack = <<>> /\ path = <<>>
  /\ emitted = <<>> /\ hostShareEmitted = FALSE /\ emittedPathNodes = {}
  /\ context = EmptyContext
  /\ timeoutFlag = FALSE /\ unlisted = {} /\ outcome = [e \in Entry |-> "unseen"]
  /\ results = [f \in CountField \cup {"pendingDirs"} |-> 0]

NewFrame == [todo |-> {}, dirs |-> <<>>, counts |-> NoCounts]

\* processShare: the rules decide on the share, whose node may then be added,
\* unless the timeout or SetShare ends it before.
Start ==
  /\ pc = "start"
  /\ context' = [context EXCEPT !["SHARE"] = Root]
  /\ stack' = <<NewFrame>>
  /\ LET explored  == Evaluate(rules, context', "EXPLORATION")
         processed == Evaluate(rules, context', "PROCESSING")
     IN \/ /\ pc' = "finish" /\ UNCHANGED graphVars
           /\ \/ ~explored /\ UNCHANGED unlisted
              \/ unlisted' = {Root}
        \/ /\ ~timeoutFlag /\ explored
           /\ pc' = "enter" /\ UNCHANGED unlisted
           /\ IF processed THEN AddPathToGraph(Nil, <<>>) ELSE UNCHANGED graphVars
  /\ UNCHANGED <<rules, shareList, path, timeoutFlag, outcome, results>>

\* The early returns of collectContentsAtDepth.  When the listing itself fails
\* the depth has been set.
Enter ==
  /\ pc = "enter"
  /\ \/ /\ timeoutFlag \/ (maxDepth > 0 /\ Depth >= maxDepth)
        /\ pc' = "leave" /\ UNCHANGED <<stack, context, unlisted>>
     \/ /\ ~timeoutFlag /\ ~(maxDepth > 0 /\ Depth >= maxDepth)
        /\ \/ /\ pc' = "leave" /\ unlisted' = unlisted \cup {Here}
              /\ context' \in {context, [context EXCEPT !["DEPTH"] = Depth]}
              /\ UNCHANGED stack
           \/ /\ pc' = "entries" /\ UNCHANGED unlisted
              /\ context' = [context EXCEPT !["DEPTH"] = Depth]
              /\ stack' = [stack EXCEPT ![Len(stack)].todo = Children(Here)]
  /\ UNCHANGED <<rules, shareList, path, graphVars, timeoutFlag, outcome, results>>

Visited(e, counts, dirs) ==
  stack' = [stack EXCEPT ![Len(stack)] =
              [todo |-> @.todo \ {e}, dirs |-> dirs, counts |-> counts]]

Decided(e, how) == outcome' = [outcome EXCEPT ![e] = how]

\* Mutant: a directory that is not processed is not entered either.
VisitDirectoryProcessed(d) ==
  /\ pc = "entries" /\ d \in Top.todo \cap Dir /\ ~timeoutFlag
  /\ context' = [context EXCEPT !["DIR"] = d]
  /\ IF Evaluate(rules, context', "EXPLORATION") /\ Evaluate(rules, context', "PROCESSING")
     THEN /\ AddPathToGraph(d, Ntfs[d]) /\ Decided(d, "processed")
          /\ Visited(d, Bump(Top.counts, {"totalDirs", "processedDirs"}),
                     Append(Top.dirs, [node |-> d, rights |-> Ntfs[d]]))
     ELSE /\ Visited(d, Bump(Top.counts, {"skippedDirs"}), Top.dirs)
          /\ Decided(d, "skipped") /\ UNCHANGED graphVars
  /\ UNCHANGED <<rules, shareList, pc, path, timeoutFlag, unlisted, results>>

VisitDirectory(d) ==
  /\ pc = "entries" /\ d \in Top.todo \cap Dir /\ ~timeoutFlag
  /\ context' = [context EXCEPT !["DIR"] = d]
  /\ LET explored  == Evaluate(rules, context', "EXPLORATION")
         processed == Evaluate(rules, context', "PROCESSING")
         counted   == IF processed THEN {"totalDirs", "processedDirs"} ELSE {"totalDirs"}
     IN \/ /\ ~explored /\ Decided(d, "skipped")
           /\ Visited(d, Bump(Top.counts, {"skippedDirs"}), Top.dirs)
           /\ UNCHANGED <<graphVars, results>>
        \/ /\ explored /\ Decided(d, IF processed THEN "processed" ELSE "explored")
           /\ Visited(d, Bump(Top.counts, counted),
                      Append(Top.dirs, [node |-> d, rights |-> Ntfs[d]]))
           /\ IF processed
              THEN AddPathToGraph(d, Ntfs[d]) /\ UNCHANGED results
              ELSE /\ results' = [results EXCEPT !["pendingDirs"] = @ + 1]
                   /\ UNCHANGED graphVars
  /\ UNCHANGED <<rules, shareList, pc, path, timeoutFlag, unlisted>>

\* Mutant: the search for rights starts at the top of the path.
InheritedFromTop ==
  LET granting == {i \in 1..Len(path) : path[i].rights # <<>>}
  IN  IF granting = {} THEN Ntfs[Root]
      ELSE path[CHOOSE i \in granting : \A j \in granting : i <= j].rights

\* The rights of the nearest directory of the path that has any.
Inherited ==
  LET granting == {i \in 1..Len(path) : path[i].rights # <<>>}
  IN  IF granting = {} THEN Ntfs[Root]
      ELSE path[CHOOSE i \in granting : \A j \in granting : j <= i].rights

\* CanProcess is asked twice, and answers the same, so FilesPending, which is raised
\* after the first, is lowered again.
VisitFile(f) ==
  /\ pc = "entries" /\ f \in Top.todo \ Dir /\ ~timeoutFlag
  /\ context' = [context EXCEPT !["FILE"] = f]
  /\ \/ /\ ~ Evaluate(rules, context', "PROCESSING")
        /\ Visited(f, Bump(Top.counts, {"skippedFiles"}), Top.dirs)
        /\ Decided(f, "skipped") /\ UNCHANGED graphVars
     \/ /\ Evaluate(rules, context', "PROCESSING")
        /\ Visited(f, Bump(Top.counts, {"totalFiles", "processedFiles"}), Top.dirs)
        /\ Decided(f, "processed")
        /\ AddPathToGraph(f, IF Ntfs[f] = <<>> THEN Inherited ELSE Ntfs[f])
  /\ UNCHANGED <<rules, shareList, pc, path, timeoutFlag, unlisted, results>>

\* All entries are visited, or the rest is left because of the timeout.
EndEntries ==
  /\ pc = "entries" /\ (Top.todo = {} \/ timeoutFlag)
  /\ pc' = "dirs"
  /\ stack' = [stack EXCEPT ![Len(stack)].todo = {}]
  /\ UNCHANGED <<rules, shareList, path, graphVars, context, timeoutFlag, unlisted, outcome,
                 results>>

\* PushPath and the recursive call.
Descend ==
  /\ pc = "dirs" /\ Top.dirs # <<>> /\ ~timeoutFlag
  /\ path' = Append(path, Head(Top.dirs))
  /\ stack' = Append([stack EXCEPT ![Len(stack)].dirs = Tail(@)], NewFrame)
  /\ pc' = "enter"
  /\ UNCHANGED <<rules, shareList, graphVars, context, timeoutFlag, unlisted, outcome, results>>

EndDirs ==
  /\ pc = "dirs" /\ (Top.dirs = <<>> \/ timeoutFlag)
  /\ pc' = "leave"
  /\ UNCHANGED <<rules, shareList, stack, path, graphVars, context, timeoutFlag, unlisted,
                 outcome, results>>

\* Mutant: PopPath is not called after a timeout.
LeaveKeepsPath ==
  /\ pc = "leave"
  /\ IF Depth = 0
     THEN pc' = "finish" /\ UNCHANGED <<stack, path, results>>
     ELSE /\ pc' = "dirs"
          /\ path' = IF timeoutFlag THEN path ELSE SubSeq(path, 1, Len(path) - 1)
          /\ stack' = [SubSeq(stack, 1, Len(stack) - 1) EXCEPT
                         ![Len(stack) - 1].counts = Add(@, Top.counts)]
          /\ UNCHANGED results
  /\ UNCHANGED <<rules, shareList, graphVars, context, timeoutFlag, unlisted, outcome>>

\* The call returns: its counts are added to the caller's and to the results,
\* and PopPath.
Leave ==
  /\ pc = "leave"
  /\ IF Depth = 0
     THEN pc' = "finish" /\ UNCHANGED <<stack, path, results>>
     ELSE /\ pc' = "dirs"
          /\ path' = SubSeq(path, 1, Len(path) - 1)
          /\ stack' = [SubSeq(stack, 1, Len(stack) - 1) EXCEPT
                         ![Len(stack) - 1].counts = Add(@, Top.counts)]
          /\ results' = [f \in DOMAIN results |->
                           IF f = "pendingDirs" THEN results[f] - 1
                           ELSE results[f] + Top.counts[f]]
  /\ UNCHANGED <<rules, shareList, graphVars, context, timeoutFlag, unlisted, outcome>>

\* ProcessTarget adds what processShare returned; its total counts the skipped.
Finish ==
  /\ pc = "finish"
  /\ pc' = "done"
  /\ results' = [f \in DOMAIN results |->
       CASE f = "pendingDirs" -> results[f]
         [] f = "totalFiles"  -> results[f] + Top.counts[f] + Top.counts["skippedFiles"]
         [] f = "totalDirs"   -> results[f] + Top.counts[f] + Top.counts["skippedDirs"]
         [] OTHER             -> results[f] + Top.counts[f]]
  /\ UNCHANGED <<rules, shareList, stack, path, graphVars, context, timeoutFlag, unlisted, outcome>>

\* The host timeout.
Timeout ==
  /\ ~timeoutFlag /\ pc # "done"
  /\ timeoutFlag' = TRUE
  /\ UNCHANGED <<rules, shareList, pc, stack, path, graphVars, context, unlisted, outcome,
                 results>>

Terminated == pc = "done" /\ UNCHANGED vars

Next ==
  \/ Start \/ Enter
  \/ \E d \in Dir : VisitDirectory(d)
  \/ \E f \in Entry : VisitFile(f)
  \/ EndEntries \/ Descend \/ EndDirs \/ Leave \/ Finish
  \/ Timeout \/ Terminated

Spec == Init /\ [][Next]_vars

-----------------------------------------------------------------------------
(* What the tree and the rules say should be emitted, whatever the order in  *)
(* which it is explored.                                                     *)

Level[e \in Entry] == Cardinality(Ancestors[e] \cap Dir)

\* The context a user means: the object itself and where it is.
OwnContext(e) ==
  [SHARE |-> Root, FILE |-> IF e \in Dir THEN Nil ELSE e,
   DIR |-> IF e \in Dir THEN e ELSE Nil, DEPTH |-> Level[e]]

Explored(e)  == Evaluate(rules, OwnContext(e), "EXPLORATION")
Processed(e) == Evaluate(rules, OwnContext(e), "PROCESSING")

ShareExplored == Evaluate(rules, [EmptyContext EXCEPT !["SHARE"] = Root], "EXPLORATION")

\* Nothing on the way to it is hidden by the rules, the depth or a failure.
Reached(e) ==
  /\ ShareExplored
  /\ maxDepth = 0 \/ Level[e] < maxDepth
  /\ \A a \in Ancestors[e] \cap Dir : Explored(a)
  /\ Ancestors[e] \cap unlisted = {}

Wanted == {e \in Entry : Reached(e) /\ Processed(e) /\ (e \in Dir => Explored(e))}

Expected == Wanted \cup UNION {Ancestors[e] \cap Dir : e \in Wanted}

\* Rules that look at files only to process files, and at directories only to
\* explore directories, are not affected by what the context retains.
OwnRules ==
  \A i \in DOMAIN rules : \A c \in rules[i].condition :
    /\ c.field # "FILE"
    /\ c.field = "DIR" => rules[i].scope = "EXPLORATION"

EmittedNodes == {emitted[i].to : i \in {j \in DOMAIN emitted : emitted[j].kind = "node"}}

-----------------------------------------------------------------------------
(* Properties. *)

\* Every edge joins what is really parent and child, or host and share, and is
\* added after the nodes it joins, whatever directories were left out, skipped
\* or abandoned before: Scan takes this of Emit, and with it no checkpoint or
\* export holds an edge without its nodes.
EdgesFollowNodes ==
  \A i \in DOMAIN emitted : emitted[i].kind # "node" =>
    LET e      == emitted[i]
        before == {emitted[j].to : j \in {k \in 1..(i - 1) : emitted[k].kind = "node"}}
    IN  /\ e.to \in before
        /\ e.kind = "contains" =>
             /\ e.from \in before
             /\ e.from = IF e.to = Root THEN Host ELSE Parent[e.to]

\* context.go: "This prevents duplicate edges for directories that appear in the
\* path of multiple files": one context adds no node and no Contains edge twice.
EmittedOnce ==
  \A i, j \in DOMAIN emitted :
    emitted[i] = emitted[j] /\ emitted[i].kind # "right" => i = j

\* The list grants the principal one of the bits: an entry that is read says so.
Grants(list, p, bits) ==
  \E i \in DOMAIN list.aces :
    /\ list.aces[i].type = "allowed" /\ list.aces[i].sid = p
    /\ list.aces[i].mask \cap bits # {}
    /\ \A j \in 1..i : ~ list.aces[j].cut

\* The list that says who has rights on an entry: its own if that grants any, or
\* for a file the nearest above it that does, up to the root directory.
NearestList ==
  [e \in Entry |->
     LET up       == {e} \cup (IF e \in Dir THEN {} ELSE Ancestors[e])
         granting == {x \in up : \E r \in Right : Grants(Descriptor[x], r[1], Bit)}
     IN  IF granting = {} THEN Unreadable
         ELSE Descriptor[CHOOSE x \in granting : granting \subseteq {x} \cup Ancestors[x]]]

Edges(kind, e) ==
  {emitted[i].from : i \in {j \in DOMAIN emitted : emitted[j].kind = kind /\ emitted[j].to = e}}

\* A file whose own list grants nothing bears the rights of the nearest directory
\* above it, of the root directory if none has any: each a bit of an entry there.
NearestRights ==
  [e \in Entry |-> {r \in Right :
     /\ r[2] \in DOMAIN NTFSRightsMapping
     /\ Grants(NearestList[e], r[1], {NTFSRightsMapping[r[2]]})}]

RightsAreNearest ==
  effectiveAccessOnly \/ \A e \in EmittedNodes \cap Entry : Edges("right", e) = NearestRights[e]

\* access_mask.go: "A principal needs permission at both layers": an effective edge
\* says that the list of the share and the nearest list both let the principal do
\* it, by a generic right or by that of the data.
BothGrant ==
  LET Bits == [CanEffectiveRead    |-> {"genericAll", "genericRead", "readData"},
               CanEffectiveWrite   |-> {"genericAll", "genericWrite", "writeData"},
               CanEffectiveExecute |-> {"genericAll", "genericExecute", "execute"}]
  IN  [l \in Lists \cup {Unreadable} |-> [e \in Entry |->
         {r \in Right : /\ r[2] \in DOMAIN Bits
                        /\ Grants(l, r[1], Bits[r[2]])
                        /\ Grants(NearestList[e], r[1], Bits[r[2]])}]]

EffectiveIsBoth ==
  \A e \in EmittedNodes \cap Entry : Edges("effective", e) = BothGrant[shareList][e]

\* A share is explored completely: every entry within the depth that the rules
\* allow is emitted and no other, but for what lies under a directory that could
\* not be listed; after a timeout, nothing else than that.
ExploresAll ==
  OwnRules =>
    /\ EmittedNodes \cap Entry \subseteq Expected
    /\ pc = "done" /\ ~timeoutFlag => EmittedNodes \cap Entry = Expected

\* What each count is the number of, by what the visits decided: a skipped file or
\* directory is not in a total.
Tallied ==
  LET Visits(type, how) == {e \in type : outcome[e] \in how}
  IN  [totalFiles     |-> Visits(Entry \ Dir, {"processed"}),
       skippedFiles   |-> Visits(Entry \ Dir, {"skipped"}),
       processedFiles |-> Visits(Entry \ Dir, {"processed"}),
       totalDirs      |-> Visits(Dir, {"explored", "processed"}),
       skippedDirs    |-> Visits(Dir, {"skipped"}),
       processedDirs  |-> Visits(Dir, {"processed"})]

\* What processShare returns counts each file and directory that was visited once,
\* under what was decided of it, however deep it lies and wherever a timeout or a
\* failed listing ended the calls; the files counted as processed are those in the
\* graph, and the directories counted as processed are among those in it, where the
\* path of a file may have put others.
CountsAreExact ==
  pc = "done" =>
    /\ \A f \in CountField : Top.counts[f] = Cardinality(Tallied[f])
    /\ Tallied["processedFiles"] = EmittedNodes \cap (Entry \ Dir)
    /\ Tallied["processedDirs"] \subseteq EmittedNodes

\* contents.go: "Emit directory to the graph immediately upon discovery" (so that
\* it does not vanish): one the rules allow to process, judged by itself, is in
\* the graph once its listing has been visited.
DirectoriesDoNotVanish ==
  pc = "done" /\ ~timeoutFlag =>
    {d \in Dir : Reached(d) /\ Explored(d) /\ Processed(d)} \subseteq EmittedNodes
=============================================================================
