----------------------------- MODULE ScanProofs ------------------------------
(***************************************************************************)
(* Theorems about Scan, for every set of targets, records and events.      *)
(*                                                                         *)
(* CheckpointSound and ExportComplete are not inductive: that a checkpoint *)
(* on disk is sound rests on what the saver held at each step of the save, *)
(* and that rests on a marked target emitting nothing more.  ScanInv says  *)
(* both; the two properties are conjuncts or consequences of it.  What a   *)
(* failed read took away is excepted by trusted and by the field whole.    *)
(***************************************************************************)
EXTENDS Scan, FiniteSetTheorems, TLAPS

Lost == {"boot", "exited"}          \* memory is not (or no longer) meaningful
Draining == {"stopping", "export", "streaming", "cleanup", "done", "exited"}

\* The dispatch loop and the goroutines: every target of the plan is either
\* still to be reached or has a goroutine; only a target that is not processed
\* is scanned; after wg.Wait nothing runs.
DispatchInv ==
  /\ pc = "boot" => saver = "off" /\ todo = {} /\ plan = {}
  /\ pc \notin {"boot", "check", "spawn"} => todo = {}
  /\ \A t \in todo : worker[t] = "none" /\ t \notin processedTargets
  /\ \A t \in Target :
       /\ worker[t] # "none" => t \in plan \ todo
       /\ t \in plan => t \in todo \/ worker[t] # "none"
       /\ worker[t] \in {"running", "returned"} => t \notin processedTargets
       /\ worker[t] \in {"marked", "finished"} => t \in processedTargets
  /\ pc \notin Lost => \A t \in Loaded : t \in plan \/ t \in processedTargets
  /\ pc \in Draining \cup {"boot"} =>
       \A t \in Target : worker[t] \in {"none", "finished"}

\* What the store of this start answers for.
Kept(t) == trusted \/ t \in plan

\* What has been emitted is in the store, and at the export in the files.
StoreInv ==
  /\ pc \notin Lost =>
       \A t \in Target : Kept(t) => found[t] \subseteq nodeIDs \cup edgeKeys
  /\ pc = "streaming" => nodeBuf = {} /\ edgeBuf = {}

\* Step by step, what the saver has copied of the targets it has copied.
Saving == {"copied", "flushed", "nodesRead", "edgesRead", "writing", "written"}

SaveInv ==
  /\ saver \in Saving => cp.processed \subseteq processedTargets
  /\ saver = "flushed" /\ trusted =>
       \A t \in cp.processed : found[t] \subseteq nodeFile \cup edgeFile
  /\ saver = "nodesRead" /\ trusted /\ cp.whole =>
       \A t \in cp.processed : found[t] \subseteq cp.nodes \cup edgeFile
  /\ saver \in {"edgesRead", "writing", "written"} /\ trusted /\ cp.whole =>
       \A t \in cp.processed : found[t] \subseteq Records(cp)
  /\ saver = "written" => tmpFile = cp

\* The disk: a checkpoint, never a torn one, that names no target which this
\* process still has to scan.
DiskInv ==
  /\ ckptFile \in CheckpointRecord \cup {NoFile}
  /\ ckptFile # NoFile =>
       /\ trusted /\ ckptFile.whole =>
            \A t \in ckptFile.processed : found[t] \subseteq Records(ckptFile)
       /\ pc \notin Lost => ckptFile.processed \subseteq processedTargets

ExportInv ==
  pc \in {"cleanup", "done"} =>
    \A t \in processedTargets : Kept(t) => found[t] \subseteq Records(output)

ScanInv == TypeOK /\ DispatchInv /\ StoreInv /\ SaveInv /\ DiskInv /\ ExportInv

-----------------------------------------------------------------------------
(* Type correctness. *)

LEMMA InitTypeOK == Init => TypeOK
<1> SUFFICES ASSUME Init PROVE TypeOK  OBVIOUS
<1> USE GraphAssumption, CheckpointAssumption, ScanAssumption
<1>1. EarlierYield \cap Node \subseteq Node /\ EarlierYield \cap Edge \subseteq Edge
  OBVIOUS
<1>2. StoreTypeOK
  BY DEF Init, StoreInit, StoreTypeOK
<1>3. CkptTypeOK
  BY <1>1 DEF Init, ManagerInit, CkptTypeOK, SaverState, EmptyRecord,
              CheckpointRecord, Earlier
<1>4. found \in [Target -> SUBSET (Node \cup Edge)]
  BY DEF Init
<1>5. plan \in SUBSET Loaded /\ todo \in SUBSET plan /\ crashes \in 0..MaxCrashes
  BY DEF Init
<1>6. worker \in [Target -> WorkerState]
  BY DEF Init, WorkerState
<1>7. pc \in MainState /\ sig \in SigState /\ stopSeen \in BOOLEAN
  BY DEF Init, MainState, SigState
<1>8. output \in OutputRecord \cup {NoFile, Torn} /\ trusted \in BOOLEAN
  BY DEF Init
<1> QED
  BY <1>2, <1>3, <1>4, <1>5, <1>6, <1>7, <1>8 DEF TypeOK

\* What the two reads of a save leave in it.
LEMMA ReadFacts ==
  ASSUME StoreTypeOK, CkptTypeOK
  PROVE  /\ ReadNodes =>
              /\ cp' \in CheckpointRecord
              /\ cp'.processed = cp.processed /\ cp'.nodes \subseteq nodeFile
              /\ cp'.whole => cp'.nodes = nodeFile
         /\ ReadEdges =>
              /\ cp' \in CheckpointRecord
              /\ cp'.processed = cp.processed /\ cp'.nodes = cp.nodes
              /\ cp'.edges \subseteq edgeFile
              /\ cp'.whole => cp.whole /\ cp'.edges = edgeFile
<1> USE DEF CheckpointRecord, StoreTypeOK, CkptTypeOK
<1>1. ASSUME NEW file, NEW part \in ReadOf(file) PROVE part \subseteq file
  BY <1>1 DEF ReadOf
<1>2. ASSUME ReadNodes
      PROVE  /\ cp' \in CheckpointRecord
             /\ cp'.processed = cp.processed /\ cp'.nodes \subseteq nodeFile
             /\ cp'.whole => cp'.nodes = nodeFile
  <2>1. PICK nodes \in ReadOf(nodeFile) :
          cp' = [cp EXCEPT !.nodes = nodes, !.whole = (nodes = nodeFile)]
    BY <1>2 DEF ReadNodes
  <2>2. nodes \subseteq nodeFile
    BY <1>1
  <2> QED
    BY <2>1, <2>2
<1>3. ASSUME ReadEdges
      PROVE  /\ cp' \in CheckpointRecord
             /\ cp'.processed = cp.processed /\ cp'.nodes = cp.nodes
             /\ cp'.edges \subseteq edgeFile
             /\ cp'.whole => cp.whole /\ cp'.edges = edgeFile
  <2>1. PICK edges \in ReadOf(edgeFile) :
          cp' = [cp EXCEPT !.edges = edges, !.whole = @ /\ edges = edgeFile]
    BY <1>3 DEF ReadEdges
  <2>2. edges \subseteq edgeFile
    BY <1>1
  <2> QED
    BY <2>1, <2>2
<1> QED
  BY <1>2, <1>3

\* The saver's steps keep the types of the manager, the files and the store.
LEMMA SaverTypeOK ==
  ASSUME StoreTypeOK, CkptTypeOK, SaverStep
  PROVE  StoreTypeOK' /\ CkptTypeOK'
<1> USE DEF CkptTypeOK, StoreTypeOK, SaverState
<1>1. CASE WakeOnStop \/ WakeOnTick \/ WakeOnTrigger
  BY <1>1 DEF WakeOnStop, WakeOnTick, WakeOnTrigger, storeVars, fileVars
<1>2. CASE CopyProcessed
  BY <1>2 DEF CopyProcessed, storeVars, fileVars, EmptyRecord, CheckpointRecord
<1>3. CASE FlushStore
  BY <1>3 DEF FlushStore, FlushBoth, fileVars
<1>4. CASE ReadNodes \/ ReadEdges
  <2>1. cp' \in CheckpointRecord
    BY <1>4, ReadFacts
  <2> QED
    BY <1>4, <2>1 DEF ReadNodes, ReadEdges, storeVars, fileVars
<1>5. CASE BeginWrite \/ EndWrite
  BY <1>5 DEF BeginWrite, EndWrite, storeVars
<1>6. CASE RenameTemp \/ WriteFails \/ RenameFails
  <2>1. EmptyRecord \in CheckpointRecord
    BY DEF EmptyRecord, CheckpointRecord
  <2> QED
    BY <1>6, <2>1 DEF RenameTemp, WriteFails, RenameFails, SaveReturns, storeVars, fileVars
<1> QED
  BY <1>1, <1>2, <1>3, <1>4, <1>5, <1>6 DEF SaverStep, SaveStep

LEMMA MainTypeOK ==
  ASSUME TypeOK, MainStep
  PROVE  TypeOK'
<1> USE ScanAssumption
    DEF TypeOK, MainState, WorkerState, SigState
<1>1. CASE Resume
  <2> USE <1>1 DEF Resume
  <2>1. processedTargets' \in SUBSET Target
    BY DEF CkptTypeOK, CheckpointRecord
  <2>2. StoreTypeOK'
    <3>1. CASE ckptFile = NoFile
      BY <3>1 DEF StoreTypeOK, storeVars
    <3>2. CASE ckptFile # NoFile
      <4>1. ckptFile.nodes \subseteq Node /\ ckptFile.edges \subseteq Edge
        BY <3>2 DEF CkptTypeOK, CheckpointRecord
      <4> QED
        BY <3>2, <4>1 DEF RestoreNodesAndEdges, StoreTypeOK
    <3> QED  BY <3>1, <3>2
  <2>3. CkptTypeOK'
    BY <2>1 DEF CkptTypeOK, SaverState, fileVars
  <2>4. plan' \in SUBSET Loaded /\ todo' \in SUBSET plan'
    OBVIOUS
  <2>5. found' \in [Target -> SUBSET (Node \cup Edge)]
    OBVIOUS
  <2>6. /\ pc' \in MainState /\ worker' \in [Target -> WorkerState] /\ sig' \in SigState
        /\ stopSeen' \in BOOLEAN /\ output' \in OutputRecord \cup {NoFile, Torn}
        /\ crashes' \in 0..MaxCrashes /\ trusted' \in BOOLEAN
    OBVIOUS
  <2> QED  BY ONLY <2>2, <2>3, <2>4, <2>5, <2>6 DEF TypeOK
<1>2. CASE LoadFails \/ CheckStop \/ DispatchEnds \/ ManagerStopped \/ ExportFails
  <2>1. CASE LoadFails \/ CheckStop
    BY <2>1 DEF LoadFails, CheckStop, ckptVars, managerVars, fileVars, storeVars,
                CkptTypeOK, StoreTypeOK
  <2>2. CASE DispatchEnds \/ ManagerStopped
    BY <2>2 DEF DispatchEnds, ManagerStopped, ckptVars, managerVars, fileVars, storeVars,
                CkptTypeOK, StoreTypeOK
  <2>3. CASE ExportFails
    BY <2>3 DEF ExportFails, ckptVars, managerVars, fileVars, storeVars, CkptTypeOK,
                StoreTypeOK
  <2> QED
    BY ONLY <1>2, <2>1, <2>2, <2>3
<1>3. CASE \E t \in Loaded : Spawn(t)
  BY <1>3 DEF Spawn, ckptVars, managerVars, fileVars, storeVars, CkptTypeOK,
              StoreTypeOK
<1>4. CASE StopManager
  BY <1>4 DEF StopManager, CloseStopChan, fileVars, storeVars, CkptTypeOK,
              StoreTypeOK
<1>5. CASE BeginExport
  BY <1>5 DEF BeginExport, FlushBoth, ckptVars, managerVars, fileVars,
              CkptTypeOK, StoreTypeOK
<1>6. CASE EndExport
  BY <1>6 DEF EndExport, OutputRecord, ckptVars, managerVars, fileVars,
              storeVars, CkptTypeOK, StoreTypeOK
<1>7. CASE Cleanup
  BY <1>7 DEF Cleanup, managerVars, storeVars, CkptTypeOK, StoreTypeOK
<1> QED
  BY <1>1, <1>2, <1>3, <1>4, <1>5, <1>6, <1>7 DEF MainStep

LEMMA WorkerTypeOK ==
  ASSUME TypeOK, NEW t \in Loaded, WorkerStep(t)
  PROVE  TypeOK'
<1> USE ScanAssumption
    DEF TypeOK, MainState, WorkerState, SigState
<1>1. CASE \E r \in Yield[t] : Emit(t, r)
  <2> PICK r \in Yield[t] : Emit(t, r)
    BY <1>1
  <2>1. r \in Node \cup Edge
    OBVIOUS
  <2>2. StoreTypeOK'
    BY DEF Emit, AddNode, AddEdge, StoreTypeOK
  <2>3. found' \in [Target -> SUBSET (Node \cup Edge)]
    BY <2>1 DEF Emit
  <2>4. CkptTypeOK'
    BY DEF Emit, ckptVars, managerVars, fileVars, CkptTypeOK
  <2>5. /\ pc' \in MainState /\ plan' \in SUBSET Loaded /\ todo' \in SUBSET plan'
        /\ worker' \in [Target -> WorkerState] /\ sig' \in SigState
        /\ stopSeen' \in BOOLEAN /\ output' \in OutputRecord \cup {NoFile, Torn}
        /\ crashes' \in 0..MaxCrashes /\ trusted' \in BOOLEAN
    BY DEF Emit
  <2> QED
    BY ONLY <2>2, <2>3, <2>4, <2>5 DEF TypeOK
<1>2. CASE Return(t) \/ Finish(t)
  BY <1>2 DEF Return, Finish, ckptVars, managerVars, fileVars, storeVars,
              CkptTypeOK, StoreTypeOK
<1>3. CASE Mark(t)
  BY <1>3 DEF Mark, MarkTargetProcessed, fileVars, storeVars, CkptTypeOK,
              StoreTypeOK
<1> QED
  BY <1>1, <1>2, <1>3 DEF WorkerStep

LEMMA OtherTypeOK ==
  ASSUME TypeOK, Signal \/ SignalStep \/ Crash \/ UNCHANGED vars
  PROVE  TypeOK'
<1> USE ScanAssumption
    DEF TypeOK, MainState, WorkerState, SigState
<1>1. CASE Signal \/ SignalStep
  <2>1. CASE Signal
    BY <2>1 DEF Signal, ckptVars, managerVars, fileVars, storeVars, CkptTypeOK, StoreTypeOK
  <2>2. CASE SignalTrigger
    BY <2>2 DEF SignalTrigger, TriggerSave, ckptVars, managerVars, fileVars, storeVars,
                CkptTypeOK, StoreTypeOK
  <2>3. CASE SignalClose
    BY <2>3 DEF SignalClose, ckptVars, managerVars, fileVars, storeVars, CkptTypeOK,
                StoreTypeOK
  <2> QED
    BY <1>1, <2>1, <2>2, <2>3 DEF SignalStep
<1>2. CASE Crash
  <2> USE <1>2 DEF Crash
  <2>1. EmptyRecord \in CheckpointRecord
    BY DEF EmptyRecord, CheckpointRecord
  <2>2. StoreTypeOK' /\ CkptTypeOK'
    BY <2>1 DEF fileVars, SaverState, CkptTypeOK, StoreTypeOK
  <2>3. crashes' \in 0..MaxCrashes /\ trusted' \in BOOLEAN
    OBVIOUS
  <2>4. worker' \in [Target -> WorkerState]
    OBVIOUS
  <2> QED
    BY <2>2, <2>3, <2>4
<1>3. CASE UNCHANGED vars
  <2>1. UNCHANGED vars
    BY <1>3
  <2>2. StoreTypeOK' /\ CkptTypeOK'
    BY <2>1 DEF vars, ckptVars, managerVars, fileVars, storeVars, CkptTypeOK,
                StoreTypeOK
  <2> QED
    BY <2>1, <2>2 DEF vars, mainVars
<1> QED
  BY <1>1, <1>2, <1>3

LEMMA NextTypeOK == TypeOK /\ [Next]_vars => TypeOK'
<1> SUFFICES ASSUME TypeOK, [Next]_vars PROVE TypeOK'
  OBVIOUS
<1>1. CASE MainStep
  BY <1>1, MainTypeOK
<1>2. CASE \E t \in Loaded : WorkerStep(t)
  BY <1>2, WorkerTypeOK
<1>3. CASE Saver
  BY <1>3, SaverTypeOK DEF Saver, mainVars, TypeOK
<1>4. CASE Signal \/ SignalStep \/ Crash \/ Terminated \/ UNCHANGED vars
  BY <1>4, OtherTypeOK DEF Terminated
<1> QED
  BY <1>1, <1>2, <1>3, <1>4 DEF Next

\* Every variable of the scan keeps its type: in particular the dispatch loop
\* never reaches outside its plan, and the files hold a checkpoint or nothing.
THEOREM TypeCorrect == Spec => []TypeOK
<1> QED
  BY InitTypeOK, NextTypeOK, PTL DEF Spec

-----------------------------------------------------------------------------
(* The inductive invariant. *)

LEMMA InitInv == Init => ScanInv
<1> SUFFICES ASSUME Init PROVE ScanInv
  OBVIOUS
<1> USE InitTypeOK, GraphAssumption, CheckpointAssumption, ScanAssumption
<1>1. DispatchInv
  BY DEF Init, ManagerInit, DispatchInv, Lost, Draining, TypeOK
<1>2. StoreInv /\ SaveInv /\ ExportInv
  BY DEF Init, ManagerInit, StoreInv, SaveInv, ExportInv, Lost, Saving
<1>3. DiskInv
  <2>1. CASE Earlier = {}
    BY <2>1 DEF Init, DiskInv
  <2>2. CASE Earlier # {}
    <3>1. ckptFile = [processed |-> Earlier,
                      nodes |-> EarlierYield \cap Node,
                      edges |-> EarlierYield \cap Edge,
                      whole |-> TRUE]
      BY <2>2 DEF Init
    <3>2. ckptFile \in CheckpointRecord
      BY <3>1 DEF CheckpointRecord, Earlier
    <3>3. ASSUME NEW t \in Earlier PROVE found[t] \subseteq Records(ckptFile)
      <4>1. found[t] = Yield[t]
        BY <3>3 DEF Init, Earlier
      <4>2. Yield[t] \subseteq EarlierYield /\ Yield[t] \subseteq Node \cup Edge
        BY <3>3 DEF EarlierYield, Earlier
      <4> QED
        BY <3>1, <4>1, <4>2 DEF Records
    <3> QED
      <4>1. ckptFile.processed = Earlier
        BY <3>1
      <4>2. pc \in Lost
        BY DEF Init, Lost
      <4> QED
        BY <3>2, <3>3, <4>1, <4>2 DEF DiskInv
  <2> QED  BY <2>1, <2>2
<1> QED
  BY <1>1, <1>2, <1>3 DEF ScanInv

\* The saver changes neither the dispatch loop nor what has been emitted.  What
\* it has copied stays true because a processed target emits nothing more.
LEMMA SaverInv ==
  ASSUME ScanInv, TypeOK', Saver
  PROVE  ScanInv'
<1> USE DEF ScanInv, Saver
<1>0. /\ UNCHANGED <<pc, plan, todo, worker, found, output, trusted>>
      /\ pc \notin Lost /\ processedTargets' = processedTargets
  BY DEF mainVars, Alive, Lost, SaverStep, SaveStep, WakeOnStop, WakeOnTick,
         WakeOnTrigger, CopyProcessed, FlushStore, ReadNodes, ReadEdges,
         BeginWrite, EndWrite, RenameTemp, WriteFails, RenameFails, SaveReturns
<1>1. DispatchInv'
  BY <1>0 DEF DispatchInv, Lost
<1>2. ExportInv'
  BY <1>0 DEF ExportInv, Kept
<1>3. CASE WakeOnStop \/ WakeOnTick \/ WakeOnTrigger
  <2>1. UNCHANGED <<cp, fileVars, storeVars>> /\ saver' = "woken"
    BY <1>3 DEF WakeOnStop, WakeOnTick, WakeOnTrigger
  <2>2. StoreInv' /\ DiskInv'
    BY <1>0, <2>1 DEF StoreInv, Kept, DiskInv, nodeIDs, edgeKeys, storeVars, fileVars
  <2>3. SaveInv'
    BY <2>1 DEF SaveInv, Saving
  <2> QED
    BY <1>1, <1>2, <2>2, <2>3
<1>4. CASE CopyProcessed
  BY <1>0, <1>1, <1>2, <1>4
  DEF CopyProcessed, StoreInv, Kept, SaveInv, DiskInv, Saving, nodeIDs, edgeKeys,
      storeVars, fileVars, EmptyRecord
<1>5. CASE FlushStore
  <2> USE <1>5 DEF FlushStore, FlushBoth
  <2>1. StoreInv'
    BY <1>0 DEF StoreInv, Kept, nodeIDs, edgeKeys
  <2>2. SaveInv'
    BY <1>0 DEF SaveInv, Saving, StoreInv, Kept, nodeIDs, edgeKeys, TypeOK, CkptTypeOK,
                fileVars
  <2>3. DiskInv'
    BY <1>0 DEF DiskInv, fileVars
  <2> QED  BY <1>1, <1>2, <2>1, <2>2, <2>3
<1>6. CASE ReadNodes
  <2> USE <1>6 DEF ReadNodes
  <2>1. StoreInv' /\ DiskInv'
    BY <1>0 DEF StoreInv, Kept, DiskInv, nodeIDs, edgeKeys, storeVars, fileVars
  <2>2. cp'.processed = cp.processed /\ (cp'.whole => cp'.nodes = nodeFile)
    BY ReadFacts DEF TypeOK
  <2>3. SaveInv'
    BY <1>0, <2>2 DEF SaveInv, Saving, storeVars, fileVars
  <2> QED  BY <1>1, <1>2, <2>1, <2>3
<1>7. CASE ReadEdges
  <2> USE <1>7 DEF ReadEdges
  <2>1. StoreInv' /\ DiskInv'
    BY <1>0 DEF StoreInv, Kept, DiskInv, nodeIDs, edgeKeys, storeVars, fileVars
  <2>2. /\ cp'.processed = cp.processed /\ cp'.nodes = cp.nodes
        /\ cp'.whole => cp.whole /\ cp'.edges = edgeFile
    BY ReadFacts DEF TypeOK
  <2>3. SaveInv'
    BY <1>0, <2>2 DEF SaveInv, Saving, Records, storeVars, fileVars
  <2> QED  BY <1>1, <1>2, <2>1, <2>3
<1>8. CASE BeginWrite \/ EndWrite
  BY <1>0, <1>1, <1>2, <1>8
  DEF BeginWrite, EndWrite, StoreInv, Kept, SaveInv, DiskInv, Saving, nodeIDs,
      edgeKeys, storeVars, Records
<1>9. CASE WriteFails \/ RenameFails
  BY <1>0, <1>1, <1>2, <1>9
  DEF WriteFails, RenameFails, SaveReturns, StoreInv, Kept, SaveInv, DiskInv, Saving,
      nodeIDs, edgeKeys, storeVars, fileVars
<1>10. CASE RenameTemp
  <2> USE <1>10 DEF RenameTemp, SaveReturns
  <2>1. StoreInv' /\ SaveInv'
    BY <1>0 DEF StoreInv, Kept, SaveInv, Saving, nodeIDs, edgeKeys, storeVars
  <2>2. ckptFile' = cp /\ cp \in CheckpointRecord
    BY DEF SaveInv, TypeOK, CkptTypeOK
  <2>3. DiskInv'
    BY <1>0, <2>2 DEF DiskInv, SaveInv, Saving, Records
  <2> QED  BY <1>1, <1>2, <2>1, <2>3
<1> QED
  BY <1>3, <1>4, <1>5, <1>6, <1>7, <1>8, <1>9, <1>10 DEF SaverStep, SaveStep

\* Resume starts from the disk: the targets it will not scan are those whose
\* records the checkpoint holds, and the store is filled with them.
LEMMA ResumeInv ==
  ASSUME ScanInv, TypeOK', Resume
  PROVE  ScanInv'
<1> USE CheckpointAssumption DEF ScanInv, Resume
<1>1. \A t \in Target : worker'[t] = "none"
  BY DEF DispatchInv
<1>2. DispatchInv'
  <2>1. /\ pc' = "check" /\ todo' = plan'
        /\ plan' = {t \in Loaded : t \notin processedTargets'}
    OBVIOUS
  <2> QED
    BY <1>1, <2>1, ScanAssumption DEF DispatchInv, Lost, Draining
<1>3. \A t \in processedTargets' :
         /\ ckptFile # NoFile /\ t \in ckptFile.processed
         /\ found'[t] = found[t]
         /\ trusted' => found[t] \subseteq Records(ckptFile)
  BY DEF DiskInv, TypeOK, CkptTypeOK
<1>4. StoreInv'
  <2>1. ASSUME NEW t \in Target, Kept(t)'
        PROVE  found'[t] \subseteq (nodeIDs \cup edgeKeys)'
    <3>1. CASE t \in processedTargets'
      <4>1. ckptFile # NoFile /\ found'[t] \subseteq Records(ckptFile)
        BY <1>3, <2>1, <3>1 DEF Kept
      <4>2. nodeIDs' = ckptFile.nodes /\ edgeKeys' = ckptFile.edges
        BY <4>1 DEF RestoreNodesAndEdges, nodeIDs, edgeKeys
      <4> QED
        BY <4>1, <4>2 DEF Records
    <3>2. CASE t \notin processedTargets'
      BY <3>2
    <3> QED  BY <3>1, <3>2
  <2> QED
    BY <2>1 DEF StoreInv, Kept
<1>5. SaveInv' /\ ExportInv'
  BY DEF SaveInv, ExportInv, Saving
<1>6. DiskInv'
  <2>1. ckptFile' = ckptFile
    BY DEF fileVars
  <2>2. ASSUME ckptFile # NoFile
        PROVE  /\ processedTargets' = ckptFile.processed
               /\ trusted' =>
                    \A t \in ckptFile.processed : found'[t] \subseteq Records(ckptFile)
    BY <1>3, <2>2
  <2> QED
    BY <2>1, <2>2 DEF DiskInv
<1> QED
  BY <1>2, <1>4, <1>5, <1>6

\* The other steps of the main goroutine.
LEMMA MainInv ==
  ASSUME ScanInv, TypeOK', MainStep
  PROVE  ScanInv'
<1> USE DEF ScanInv
<1>1. CASE Resume
  BY <1>1, ResumeInv
<1>2. CASE LoadFails \/ CheckStop \/ DispatchEnds \/ ManagerStopped \/ ExportFails
  <2> USE <1>2 DEF LoadFails, CheckStop, DispatchEnds, ManagerStopped, ExportFails
  <2>1. UNCHANGED <<plan, todo, worker, found, output, trusted, ckptVars, storeVars>>
    OBVIOUS
  <2>2. DispatchInv'
    BY <2>1 DEF DispatchInv, Lost, Draining, ckptVars, managerVars, TypeOK, MainState
  <2>3. StoreInv' /\ ExportInv'
    BY <2>1 DEF StoreInv, ExportInv, Kept, Lost, nodeIDs, edgeKeys, storeVars,
                ckptVars, managerVars
  <2>4. SaveInv' /\ DiskInv'
    BY <2>1 DEF SaveInv, DiskInv, Lost, Saving, ckptVars, managerVars, fileVars,
                storeVars
  <2> QED  BY <2>2, <2>3, <2>4
<1>3. ASSUME NEW t \in Loaded, Spawn(t) PROVE ScanInv'
  <2> USE <1>3 DEF Spawn
  <2>1. DispatchInv'
    BY ScanAssumption
    DEF DispatchInv, Lost, Draining, ckptVars, managerVars, TypeOK, WorkerState
  <2>2. StoreInv' /\ ExportInv'
    BY DEF StoreInv, ExportInv, Kept, Lost, nodeIDs, edgeKeys, storeVars,
           ckptVars, managerVars
  <2>3. SaveInv' /\ DiskInv'
    BY DEF SaveInv, DiskInv, Lost, Saving, ckptVars, managerVars, fileVars,
           storeVars
  <2> QED  BY <2>1, <2>2, <2>3
<1>4. CASE StopManager
  <2> USE <1>4 DEF StopManager, CloseStopChan
  <2>1. DispatchInv'
    BY DEF DispatchInv, Lost, Draining, TypeOK
  <2>2. StoreInv' /\ ExportInv'
    BY DEF StoreInv, ExportInv, Kept, Lost, nodeIDs, edgeKeys, storeVars
  <2>3. SaveInv' /\ DiskInv'
    BY DEF SaveInv, DiskInv, Lost, Saving, fileVars, storeVars
  <2> QED  BY <2>1, <2>2, <2>3
<1>5. CASE BeginExport
  <2> USE <1>5 DEF BeginExport, FlushBoth
  <2>1. DispatchInv'
    BY DEF DispatchInv, Lost, Draining, ckptVars, managerVars
  <2>2. StoreInv' /\ ExportInv'
    BY DEF StoreInv, ExportInv, Kept, Lost, nodeIDs, edgeKeys
  <2>3. SaveInv' /\ DiskInv'
    BY DEF SaveInv, DiskInv, Lost, Saving, ckptVars, managerVars, fileVars
  <2> QED  BY <2>1, <2>2, <2>3
<1>6. CASE EndExport
  <2> USE <1>6 DEF EndExport
  <2>1. DispatchInv'
    BY DEF DispatchInv, Lost, Draining, ckptVars, managerVars
  <2>2. StoreInv'
    BY DEF StoreInv, Kept, Lost, nodeIDs, edgeKeys, storeVars
  <2>3. ExportInv'
    BY DEF ExportInv, Kept, StoreInv, Lost, nodeIDs, edgeKeys, storeVars, Records,
           ckptVars, managerVars, TypeOK, CkptTypeOK
  <2>4. SaveInv' /\ DiskInv'
    BY DEF SaveInv, DiskInv, Lost, Saving, ckptVars, managerVars, fileVars,
           storeVars
  <2> QED  BY <2>1, <2>2, <2>3, <2>4
<1>7. CASE Cleanup
  <2> USE <1>7 DEF Cleanup
  <2>1. DispatchInv'
    BY DEF DispatchInv, Lost, Draining, managerVars
  <2>2. StoreInv' /\ ExportInv'
    BY DEF StoreInv, ExportInv, Kept, Lost, nodeIDs, edgeKeys, storeVars, managerVars
  <2>3. SaveInv'
    BY DEF SaveInv, Saving, managerVars, storeVars
  <2>4. DiskInv'
    BY DEF DiskInv, Lost, managerVars
  <2> QED  BY <2>1, <2>2, <2>3, <2>4
<1> QED
  BY <1>1, <1>2, <1>3, <1>4, <1>5, <1>6, <1>7 DEF MainStep

\* A worker emits only for a target that is not processed, so nothing that the
\* saver or the checkpoint relies on moves; its mark comes after its last record.
LEMMA WorkerInv ==
  ASSUME ScanInv, TypeOK', NEW t \in Loaded, WorkerStep(t)
  PROVE  ScanInv'
<1> USE ScanAssumption DEF ScanInv
<1>1. ASSUME NEW r \in Yield[t], Emit(t, r) PROVE ScanInv'
  <2> USE <1>1 DEF Emit
  <2>1. /\ UNCHANGED <<pc, plan, todo, worker, output, trusted, ckptVars>>
        /\ t \notin processedTargets
        /\ pc \notin Draining \cup {"boot"}
    BY DEF DispatchInv
  <2>2. /\ nodeFile \subseteq nodeFile' /\ edgeFile \subseteq edgeFile'
        /\ (nodeIDs \cup edgeKeys)' = nodeIDs \cup edgeKeys \cup {r}
    BY DEF AddNode, AddEdge, nodeIDs, edgeKeys
  <2>3. /\ \A u \in Target : u # t => found'[u] = found[u]
        /\ found'[t] = found[t] \cup {r}
    BY DEF TypeOK
  <2>4. DispatchInv'
    BY <2>1 DEF DispatchInv, ckptVars, managerVars
  <2>5. StoreInv'
    BY <2>1, <2>2, <2>3 DEF StoreInv, Kept, Draining, Lost
  <2>6. ExportInv'
    BY <2>1 DEF ExportInv, Kept, Draining
  <2>7. SaveInv'
    <3>1. saver \in Saving => cp.processed \subseteq processedTargets
      BY DEF SaveInv
    <3>2. ASSUME saver \in Saving, NEW u \in cp.processed
          PROVE  found'[u] = found[u]
      BY <2>1, <2>3, <3>1, <3>2 DEF TypeOK, CkptTypeOK
    <3> QED
      BY <2>1, <2>2, <3>1, <3>2
      DEF SaveInv, Saving, ckptVars, managerVars, fileVars
  <2>8. DiskInv'
    <3>1. ASSUME ckptFile # NoFile, NEW u \in ckptFile.processed
          PROVE  found'[u] = found[u]
      <4>1. u \in processedTargets
        BY <2>1, <3>1 DEF DiskInv, Lost, Draining
      <4> QED
        BY <2>1, <2>3, <4>1 DEF TypeOK, CkptTypeOK
    <3> QED
      BY <2>1, <3>1 DEF DiskInv, ckptVars, managerVars, fileVars
  <2> QED  BY <2>4, <2>5, <2>6, <2>7, <2>8
<1>2. CASE Return(t)
  <2> USE <1>2 DEF Return
  <2>1. UNCHANGED <<pc, plan, todo, found, output, trusted, processedTargets, saver, cp,
                    fileVars, storeVars>>
    BY DEF ckptVars, managerVars
  <2>2. /\ worker[t] = "running" /\ worker'[t] = "returned"
        /\ \A u \in Target : u # t => worker'[u] = worker[u]
    BY DEF TypeOK
  <2>3. DispatchInv'
    BY <2>1, <2>2 DEF DispatchInv
  <2>4. StoreInv' /\ ExportInv'
    BY <2>1 DEF StoreInv, ExportInv, Kept, nodeIDs, edgeKeys, storeVars
  <2>5. SaveInv' /\ DiskInv'
    BY <2>1 DEF SaveInv, DiskInv, fileVars, storeVars
  <2> QED  BY <2>3, <2>4, <2>5
<1>3. CASE Finish(t)
  <2> USE <1>3 DEF Finish
  <2>1. UNCHANGED <<pc, plan, todo, found, output, trusted, processedTargets, saver, cp,
                    fileVars, storeVars>>
    BY DEF ckptVars, managerVars
  <2>2. /\ worker[t] = "marked" /\ worker'[t] = "finished"
        /\ \A u \in Target : u # t => worker'[u] = worker[u]
    BY DEF TypeOK
  <2>3. DispatchInv'
    BY <2>1, <2>2 DEF DispatchInv
  <2>4. StoreInv' /\ ExportInv'
    BY <2>1 DEF StoreInv, ExportInv, Kept, nodeIDs, edgeKeys, storeVars
  <2>5. SaveInv' /\ DiskInv'
    BY <2>1 DEF SaveInv, DiskInv, fileVars, storeVars
  <2> QED  BY <2>3, <2>4, <2>5
<1>4. CASE Mark(t)
  <2> USE <1>4 DEF Mark, MarkTargetProcessed
  <2>1. /\ UNCHANGED <<pc, plan, todo, found, output, trusted, saver, cp, fileVars, storeVars>>
        /\ processedTargets' = processedTargets \cup {t}
    OBVIOUS
  <2>2. /\ worker[t] = "returned" /\ worker'[t] = "marked"
        /\ \A u \in Target : u # t => worker'[u] = worker[u]
    BY DEF TypeOK
  <2>3. DispatchInv' /\ pc \notin Draining \cup {"boot"}
    BY <2>1, <2>2 DEF DispatchInv
  <2>4. StoreInv' /\ ExportInv'
    BY <2>1, <2>3 DEF StoreInv, ExportInv, Kept, Draining, nodeIDs, edgeKeys, storeVars
  <2>5. SaveInv' /\ DiskInv'
    BY <2>1 DEF SaveInv, DiskInv, fileVars, storeVars
  <2> QED  BY <2>3, <2>4, <2>5
<1> QED
  BY <1>1, <1>2, <1>3, <1>4 DEF WorkerStep

LEMMA SignalInv ==
  ASSUME ScanInv, TypeOK', Signal \/ SignalStep \/ UNCHANGED vars
  PROVE  ScanInv'
<1> USE DEF ScanInv
<1>1. UNCHANGED <<pc, plan, todo, worker, found, output, trusted,
                  processedTargets, saver, cp, fileVars, storeVars>>
  BY DEF Signal, SignalStep, SignalTrigger, SignalClose, TriggerSave, vars,
         mainVars, ckptVars, managerVars
<1>2. DispatchInv' /\ StoreInv' /\ ExportInv'
  BY <1>1 DEF DispatchInv, StoreInv, ExportInv, Kept, nodeIDs, edgeKeys, storeVars
<1>3. SaveInv' /\ DiskInv'
  BY <1>1 DEF SaveInv, DiskInv, fileVars, storeVars
<1> QED  BY <1>2, <1>3

\* The death of the process leaves the files and what they are relied on for.
LEMMA CrashInv ==
  ASSUME ScanInv, TypeOK', Crash
  PROVE  ScanInv'
<1> USE DEF ScanInv, Crash
<1>1. DispatchInv'
  BY DEF DispatchInv, Lost, Draining
<1>2. pc' \in Lost /\ pc' \notin {"streaming", "cleanup", "done"} /\ saver' = "off"
  BY DEF Lost
<1>3. StoreInv' /\ ExportInv' /\ SaveInv'
  BY <1>2 DEF StoreInv, ExportInv, Kept, SaveInv, Saving
<1>4. DiskInv'
  BY <1>2 DEF DiskInv, fileVars
<1> QED  BY <1>1, <1>3, <1>4

LEMMA NextInv == ScanInv /\ [Next]_vars => ScanInv'
<1> SUFFICES ASSUME ScanInv, [Next]_vars PROVE ScanInv'
  OBVIOUS
<1>0. TypeOK'
  BY NextTypeOK DEF ScanInv
<1>1. CASE MainStep
  BY <1>0, <1>1, MainInv
<1>2. CASE \E t \in Loaded : WorkerStep(t)
  BY <1>0, <1>2, WorkerInv
<1>3. CASE Saver
  BY <1>0, <1>3, SaverInv
<1>4. CASE Signal \/ SignalStep \/ Terminated \/ UNCHANGED vars
  BY <1>0, <1>4, SignalInv DEF Terminated
<1>5. CASE Crash
  BY <1>0, <1>5, CrashInv
<1> QED
  BY <1>1, <1>2, <1>3, <1>4, <1>5 DEF Next

LEMMA ScanInvariant == Spec => []ScanInv
<1> QED
  BY InitInv, NextInv, PTL DEF Spec

-----------------------------------------------------------------------------
(* The theorems. *)

\* Whatever ran while it was saved, a checkpoint that names a target holds all
\* that target emitted (saveCheckpoint copies the processed set first), unless a
\* read of this save, or of one that the scan was resumed from, has failed.
THEOREM CheckpointIsSound == Spec => []CheckpointSound
<1>1. ScanInv => CheckpointSound
  BY CheckpointAssumption DEF ScanInv, DiskInv, CheckpointSound
<1> QED
  BY ScanInvariant, <1>1, PTL

LEMMA InvExportComplete == ScanInv => ExportComplete
<1> SUFFICES ASSUME ScanInv, pc \in {"cleanup", "done"}
             PROVE  /\ Loaded \subseteq processedTargets
                    /\ \A t \in processedTargets :
                         Kept(t) => found[t] \subseteq Records(output)
  BY DEF ExportComplete, Kept
<1>1. ASSUME NEW t \in Loaded PROVE t \in processedTargets
  BY ScanAssumption DEF ScanInv, DispatchInv, Draining, Lost
<1> QED
  BY <1>1 DEF ScanInv, ExportInv

\* After any number of crashes and resumed runs, the export is of every target
\* of the list and of all that the targets emitted; a failed read of a save costs
\* records only after a resume from it, and only of targets not scanned since.
THEOREM ExportIsComplete == Spec => []ExportComplete
<1> QED
  BY ScanInvariant, InvExportComplete, PTL

\* Once the export is whole, the two counts that decide on the deletion of the
\* checkpoint are equal exactly if the sets are.
LEMMA InvComplete == ScanInv => CompleteIsRecognised
<1> SUFFICES ASSUME ScanInv, pc = "cleanup"
             PROVE  Complete <=> plan = {} \/ processedTargets \subseteq Loaded
  BY DEF CompleteIsRecognised
<1>1. Loaded \subseteq processedTargets
  BY InvExportComplete DEF ExportComplete
<1>2. IsFiniteSet(processedTargets)
  <2>1. processedTargets \in SUBSET Target
    BY DEF ScanInv, TypeOK, CkptTypeOK
  <2> QED
    BY <2>1, ScanAssumption, FS_Subset
<1>3. Cardinality(processedTargets) = Cardinality(Loaded) <=> processedTargets = Loaded
  BY <1>1, <1>2, FS_Subset
<1> QED
  BY <1>1, <1>3 DEF Complete

\* After any number of crashes and resumed runs, the checkpoint of a scan that is over is
\* deleted exactly if it speaks of this list only, or this start had nothing to do.
THEOREM SuccessIsRecognised == Spec => []CompleteIsRecognised
<1> QED
  BY ScanInvariant, InvComplete, PTL

-----------------------------------------------------------------------------
(* What the checkpoint keeps over time, and what the export and the last save hold.    *)
(* That a checkpoint only grows needs more than ScanInv: what the checkpoint on disk   *)
(* holds is also in the store, and at each step of a save in what has been read.       *)

\* The checkpoint on disk came from the store of this process or filled it; a save
\* that has read the whole store has read all of the checkpoint.
KeepInv ==
  /\ pc = "boot" => nodeIDs = {} /\ edgeKeys = {}
  /\ pc \in {"export", "streaming", "cleanup", "done", "exited"} => SaverIdle
  /\ ckptFile # NoFile /\ pc \notin Lost =>
       ckptFile.nodes \subseteq nodeIDs /\ ckptFile.edges \subseteq edgeKeys
  /\ saver \in {"nodesRead", "edgesRead", "writing", "written"} => cp.nodes \subseteq nodeIDs
  /\ saver \in {"edgesRead", "writing", "written"} => cp.edges \subseteq edgeKeys
  /\ ckptFile # NoFile =>
       /\ saver \in Saving => ckptFile.processed \subseteq cp.processed
       /\ saver = "flushed" =>
            ckptFile.nodes \subseteq nodeFile /\ ckptFile.edges \subseteq edgeFile
       /\ saver = "nodesRead" =>
            /\ cp.whole => ckptFile.nodes \subseteq cp.nodes
            /\ ckptFile.edges \subseteq edgeFile
       /\ saver \in {"edgesRead", "writing", "written"} /\ cp.whole => Covers(cp, ckptFile)
  /\ pc \in {"cleanup", "done"} =>
       /\ output = [nodes |-> nodeFile, edges |-> edgeFile]
       /\ nodeBuf = {} /\ edgeBuf = {}

\* A save that stopChan started runs after the last worker has ended, and so reads
\* what there will be at the end.
IsWholeScan(c) ==
  /\ c \in CheckpointRecord
  /\ c.processed = processedTargets
  /\ c.whole => c.nodes = nodeIDs /\ c.edges = edgeKeys

FinalInv ==
  /\ stopping => pc \in Draining
  /\ finalSave => stopping /\ saver \notin {"off", "select"}
  /\ saver = "returned" => finalSave
  /\ pc \notin Lost => saver # "off"
  /\ finalSave /\ pc \notin Lost =>
       /\ saver \in Saving => cp.processed = processedTargets
       /\ saver \in {"flushed", "nodesRead"} => nodeBuf = {} /\ edgeBuf = {}
       /\ saver = "nodesRead" /\ cp.whole => cp.nodes = nodeFile
       /\ saver \in {"edgesRead", "writing", "written"} => IsWholeScan(cp)
       /\ saver = "returned" /\ pc # "done" => IsWholeScan(ckptFile)

\* Where records come from.  What a target has emitted lacks no node of its edges, and
\* before the first crash nor does the store; the targets of an earlier list stay in
\* the checkpoint.
Closed(nodes, edges) == Dangling(nodes, edges) = {}

OriginInv ==
  /\ \A t \in Target : \A e \in found[t] \cap Edge : Ends[e] \subseteq found[t]
  /\ crashes = 0 /\ pc \notin Lost => Closed(nodeIDs, edgeKeys)
  /\ crashes = 0 /\ pc = "boot" /\ ckptFile # NoFile => Closed(ckptFile.nodes, ckptFile.edges)
  /\ \A t \in Earlier :
       /\ pc # "done" => ckptFile # NoFile /\ t \in ckptFile.processed
       /\ pc \notin Lost => t \in processedTargets

-----------------------------------------------------------------------------
(* KeepInv is inductive. *)

LEMMA KeepStarts == Init => KeepInv
  BY DEF Init, ManagerInit, StoreInit, KeepInv, Lost, SaverIdle, Saving, nodeIDs, edgeKeys

\* A save is under way only while the process scans or Stop waits for it.
LEMMA SaverKeep ==
  ASSUME ScanInv, KeepInv, Saver
  PROVE  KeepInv'
<1> USE DEF ScanInv, Saver
<1>0. /\ UNCHANGED <<pc, output, processedTargets>>
      /\ pc \notin Lost \cup {"export", "streaming", "cleanup", "done"}
  BY DEF KeepInv, SaverIdle, mainVars, Alive, Lost, SaverStep, SaveStep, WakeOnStop,
         WakeOnTick, WakeOnTrigger, CopyProcessed, FlushStore, ReadNodes, ReadEdges,
         BeginWrite, EndWrite, RenameTemp, WriteFails, RenameFails, SaveReturns
<1>1. CASE WakeOnStop \/ WakeOnTick \/ WakeOnTrigger
  BY <1>0, <1>1 DEF WakeOnStop, WakeOnTick, WakeOnTrigger, KeepInv, Saving, Lost,
                    SaverIdle, nodeIDs, edgeKeys, storeVars, fileVars
<1>2. CASE CopyProcessed
  BY <1>0, <1>2 DEF CopyProcessed, DiskInv, KeepInv, Saving, Lost, SaverIdle,
                    nodeIDs, edgeKeys, storeVars, fileVars, EmptyRecord
<1>3. CASE FlushStore
  BY <1>0, <1>3 DEF FlushStore, FlushBoth, KeepInv, Saving, Lost, SaverIdle,
                    nodeIDs, edgeKeys, fileVars
<1>4. CASE ReadNodes
  <2>1. /\ cp'.processed = cp.processed /\ cp'.nodes \subseteq nodeFile
        /\ cp'.whole => cp'.nodes = nodeFile
    BY <1>4, ReadFacts DEF TypeOK
  <2> QED
    BY <1>0, <1>4, <2>1 DEF ReadNodes, KeepInv, Saving, Lost, SaverIdle, nodeIDs,
                            edgeKeys, storeVars, fileVars
<1>5. CASE ReadEdges
  <2>1. /\ cp'.processed = cp.processed /\ cp'.nodes = cp.nodes
        /\ cp'.edges \subseteq edgeFile
        /\ cp'.whole => cp.whole /\ cp'.edges = edgeFile
    BY <1>5, ReadFacts DEF TypeOK
  <2> QED
    BY <1>0, <1>5, <2>1 DEF ReadEdges, KeepInv, Saving, Lost, SaverIdle, Covers,
                            nodeIDs, edgeKeys, storeVars, fileVars
<1>6. CASE BeginWrite \/ EndWrite
  BY <1>0, <1>6 DEF BeginWrite, EndWrite, KeepInv, Saving, Lost, SaverIdle, Covers,
                    nodeIDs, edgeKeys, storeVars
<1>7. CASE WriteFails \/ RenameFails
  BY <1>0, <1>7 DEF WriteFails, RenameFails, SaveReturns, KeepInv, Saving, Lost,
                    SaverIdle, nodeIDs, edgeKeys, storeVars, fileVars
<1>8. CASE RenameTemp
  <2>1. ckptFile' = cp
    BY <1>8 DEF RenameTemp, SaveInv
  <2> QED
    BY <1>0, <1>8, <2>1 DEF RenameTemp, SaveReturns, KeepInv, Saving, Lost, SaverIdle,
                            nodeIDs, edgeKeys, storeVars
<1> QED
  BY <1>1, <1>2, <1>3, <1>4, <1>5, <1>6, <1>7, <1>8 DEF SaverStep, SaveStep

LEMMA MainKeep ==
  ASSUME ScanInv, KeepInv, MainStep
  PROVE  KeepInv'
<1> USE DEF ScanInv
<1>1. CASE Resume
  <2>1. pc' = "check" /\ saver' \in {"select", "off"} /\ ckptFile' = ckptFile
    BY <1>1 DEF Resume, fileVars
  <2>2. ckptFile # NoFile => nodeIDs' = ckptFile.nodes /\ edgeKeys' = ckptFile.edges
    BY <1>1 DEF Resume, RestoreNodesAndEdges, nodeIDs, edgeKeys
  <2> QED
    BY <2>1, <2>2 DEF KeepInv, Saving, Lost, SaverIdle
<1>2. CASE LoadFails \/ CheckStop \/ DispatchEnds \/ ManagerStopped \/ ExportFails
  BY <1>2 DEF LoadFails, CheckStop, DispatchEnds, ManagerStopped, ExportFails, DispatchInv,
              KeepInv, Saving, Lost, SaverIdle, Covers, nodeIDs, edgeKeys, ckptVars,
              managerVars, fileVars, storeVars
<1>3. CASE \E t \in Loaded : Spawn(t)
  BY <1>3 DEF Spawn, KeepInv, Saving, Lost, SaverIdle, Covers, nodeIDs, edgeKeys, ckptVars,
              managerVars, fileVars, storeVars
<1>4. CASE StopManager
  BY <1>4 DEF StopManager, CloseStopChan, KeepInv, Saving, Lost, SaverIdle, Covers,
              nodeIDs, edgeKeys, fileVars, storeVars
<1>5. CASE BeginExport
  BY <1>5 DEF BeginExport, FlushBoth, KeepInv, Saving, Lost, SaverIdle, nodeIDs,
              edgeKeys, ckptVars, managerVars, fileVars
<1>6. CASE EndExport
  BY <1>6 DEF EndExport, StoreInv, KeepInv, Saving, Lost, SaverIdle, nodeIDs,
              edgeKeys, ckptVars, managerVars, fileVars, storeVars
<1>7. CASE Cleanup
  BY <1>7 DEF Cleanup, KeepInv, Saving, Lost, SaverIdle, nodeIDs,
              edgeKeys, managerVars, storeVars
<1> QED
  BY <1>1, <1>2, <1>3, <1>4, <1>5, <1>6, <1>7 DEF MainStep

\* A worker only adds to the store, and no worker runs when the export is made.
LEMMA WorkerKeep ==
  ASSUME ScanInv, KeepInv, NEW t \in Loaded, WorkerStep(t)
  PROVE  KeepInv'
<1> USE DEF ScanInv
<1>1. ASSUME NEW r \in Yield[t], Emit(t, r) PROVE KeepInv'
  <2>1. UNCHANGED <<pc, output, saver, cp, ckptFile>> /\ pc \notin Draining \cup Lost
    BY <1>1, ScanAssumption DEF Emit, DispatchInv, Draining, Lost, ckptVars, managerVars,
                                fileVars
  <2>2. /\ nodeFile \subseteq nodeFile' /\ edgeFile \subseteq edgeFile'
        /\ nodeIDs \subseteq nodeIDs' /\ edgeKeys \subseteq edgeKeys'
    BY <1>1 DEF Emit, AddNode, AddEdge, nodeIDs, edgeKeys
  <2> QED
    BY <2>1, <2>2 DEF KeepInv, Draining, Lost, SaverIdle, Covers, Saving
<1>2. CASE Return(t) \/ Mark(t) \/ Finish(t)
  BY <1>2 DEF Return, Mark, MarkTargetProcessed, Finish, KeepInv, Saving, Lost, SaverIdle,
              Covers, nodeIDs, edgeKeys, ckptVars, managerVars, fileVars, storeVars
<1> QED
  BY <1>1, <1>2 DEF WorkerStep

LEMMA KeepInductive == ScanInv /\ KeepInv /\ [Next]_vars => KeepInv'
<1> SUFFICES ASSUME ScanInv, KeepInv, [Next]_vars PROVE KeepInv'
  OBVIOUS
<1>1. CASE Signal \/ SignalStep \/ Terminated \/ UNCHANGED vars
  BY <1>1 DEF Signal, SignalStep, SignalTrigger, SignalClose, TriggerSave, Terminated,
              KeepInv, Saving, Lost, SaverIdle, Covers, nodeIDs, edgeKeys, vars, mainVars,
              ckptVars, managerVars, fileVars, storeVars
<1>2. CASE Crash
  BY <1>2 DEF Crash, KeepInv, Saving, Lost, SaverIdle, nodeIDs, edgeKeys, fileVars
<1> QED
  BY <1>1, <1>2, SaverKeep, MainKeep, WorkerKeep DEF Next

LEMMA KeepInvariant == Spec => []KeepInv
<1> QED
  BY KeepStarts, KeepInductive, ScanInvariant, PTL DEF Spec

-----------------------------------------------------------------------------
(* The checkpoint over time. *)

\* Only a rename and the cleanup touch the checkpoint.
LEMMA OnlyTwoWrite ==
  ASSUME [Next]_vars, ckptFile' # ckptFile
  PROVE  (Saver /\ RenameTemp) \/ Cleanup
<1>1. CASE MainStep
  BY <1>1 DEF MainStep, Resume, LoadFails, CheckStop, Spawn, DispatchEnds, StopManager,
              CloseStopChan, ManagerStopped, BeginExport, EndExport, ExportFails,
              ckptVars, fileVars
<1>2. CASE \E t \in Loaded : WorkerStep(t)
  BY <1>2 DEF WorkerStep, Emit, Return, Mark, MarkTargetProcessed, Finish, ckptVars, fileVars
<1>3. CASE Saver
  BY <1>3 DEF Saver, SaverStep, SaveStep, WakeOnStop, WakeOnTick, WakeOnTrigger,
              CopyProcessed, FlushStore, ReadNodes, ReadEdges, BeginWrite, EndWrite,
              WriteFails, RenameFails, fileVars
<1>4. CASE Signal \/ SignalStep \/ Crash \/ Terminated \/ UNCHANGED vars
  BY <1>4 DEF Signal, SignalStep, SignalTrigger, SignalClose, TriggerSave, Crash,
              Terminated, vars, ckptVars, fileVars
<1> QED
  BY <1>1, <1>2, <1>3, <1>4 DEF Next

Grows ==
  ckptFile \notin {NoFile, ckptFile'} =>
    IF ckptFile' = NoFile
    THEN output # Torn /\ Covers(output, ckptFile)
    ELSE /\ ckptFile'.whole => Covers(ckptFile', ckptFile)
         /\ ckptFile.processed \subseteq ckptFile'.processed

LEMMA StepGrows == ScanInv /\ KeepInv /\ [Next]_vars => Grows
<1> SUFFICES ASSUME ScanInv, KeepInv, [Next]_vars, ckptFile \notin {NoFile, ckptFile'}
             PROVE  IF ckptFile' = NoFile
                    THEN output # Torn /\ Covers(output, ckptFile)
                    ELSE /\ ckptFile'.whole => Covers(ckptFile', ckptFile)
                         /\ ckptFile.processed \subseteq ckptFile'.processed
  BY DEF Grows
<1>1. CASE RenameTemp
  <2>1. ckptFile' = cp /\ cp # NoFile
    BY <1>1, CheckpointAssumption DEF RenameTemp, ScanInv, SaveInv, TypeOK, CkptTypeOK
  <2> QED
    BY <1>1, <2>1 DEF RenameTemp, KeepInv, Saving
<1>2. CASE Cleanup
  <2>1. ckptFile' = NoFile
    BY <1>2 DEF Cleanup
  <2>2. output = [nodes |-> nodeFile, edges |-> edgeFile] /\ nodeBuf = {} /\ edgeBuf = {}
    BY <1>2 DEF Cleanup, KeepInv
  <2>3. ckptFile.nodes \subseteq nodeIDs /\ ckptFile.edges \subseteq edgeKeys
    BY <1>2 DEF Cleanup, KeepInv, Lost
  <2>4. Covers(output, ckptFile)
    BY <2>2, <2>3 DEF Covers, nodeIDs, edgeKeys
  <2>5. output # Torn
    BY <2>2, ScanAssumption DEF OutputRecord, ScanInv, TypeOK, StoreTypeOK
  <2> QED
    BY <2>1, <2>4, <2>5
<1> QED
  BY <1>1, <1>2, OnlyTwoWrite

\* Across saves, crashes and resumed runs the checkpoint loses no target, and no record
\* to a save whose reads went well; it is deleted only when the output holds all that
\* was in it (Manager.Delete after the export).
THEOREM CheckpointGrows == Spec => CheckpointNeverRegresses
<1>1. ScanInv /\ KeepInv /\ [Next]_vars => [Grows]_vars
  BY StepGrows
<1> QED
  BY <1>1, ScanInvariant, KeepInvariant, PTL DEF Spec, CheckpointNeverRegresses, Grows

-----------------------------------------------------------------------------
(* Scan implements DurableScan. *)

\* Every target that a whole checkpoint names is safe, since its records are in the file.
LEMMA SafeIsSaved ==
  ASSUME ScanInv, pc # "done", trusted, DiskWhole
  PROVE  SafeTargets = IF ckptFile = NoFile THEN {} ELSE Loaded \cap ckptFile.processed
  BY CheckpointAssumption DEF SafeTargets, DiskWhole, ScanInv, DiskInv

LEMMA DurableStarts == Init => Durable!Init
<1> SUFFICES ASSUME Init PROVE Durable!Init
  OBVIOUS
<1>1. Loaded \cap Earlier = {} /\ pc # "done" /\ trusted = TRUE
  BY DEF Init, Earlier
<1>2. ckptFile # NoFile => ckptFile.processed = Earlier /\ ckptFile.whole = TRUE
  BY DEF Init
<1>3. DiskWhole = TRUE
  BY <1>2 DEF DiskWhole
<1>4. SafeTargets = {}
  BY <1>1, <1>2, <1>3, InitInv, SafeIsSaved
<1> QED
  BY <1>1, <1>3, <1>4 DEF Durable!Init

LEMMA DoneIsEnd ==
  ASSUME ScanInv, Next, pc = "done"
  PROVE  UNCHANGED vars
<1>1. \A t \in Loaded : worker[t] \in {"none", "finished"}
  BY ScanAssumption DEF ScanInv, DispatchInv, Draining
<1>2. ~ MainStep
  BY DEF MainStep, Resume, LoadFails, CheckStop, Spawn, DispatchEnds, StopManager,
         ManagerStopped, BeginExport, EndExport, ExportFails, Cleanup
<1>3. \A t \in Loaded : ~ WorkerStep(t)
  BY <1>1 DEF WorkerStep, Emit, Return, Mark, Finish
<1>4. ~ Saver /\ ~ Signal /\ ~ SignalStep /\ ~ Crash
  BY DEF Saver, Signal, SignalStep, SignalTrigger, SignalClose, Alive, Crash
<1> QED
  BY <1>2, <1>3, <1>4 DEF Next, Terminated

\* Only Resume changes what is trusted, and only Cleanup ends the scan.
LEMMA OnlyResume ==
  ASSUME Next, pc # "done", ~ Cleanup
  PROVE  pc' # "done" /\ (Resume \/ trusted' = trusted)
<1>1. CASE MainStep
  BY <1>1 DEF MainStep, Resume, LoadFails, CheckStop, Spawn, DispatchEnds,
              StopManager, ManagerStopped, BeginExport, EndExport, ExportFails
<1>2. CASE \E t \in Loaded : WorkerStep(t)
  BY <1>2 DEF WorkerStep, Emit, Return, Mark, Finish
<1>3. CASE Saver \/ Signal \/ SignalStep \/ Crash \/ Terminated
  BY <1>3 DEF Saver, mainVars, Signal, SignalStep, SignalTrigger, SignalClose,
              Crash, Terminated, vars
<1> QED
  BY <1>1, <1>2, <1>3 DEF Next

\* What is safe stays safe as long as the disk is whole: the checkpoint only grows, and
\* Resume forgets only what no checkpoint names.  The scan is done with all of it safe
\* in the export.
LEMMA DurableSteps ==
  ASSUME ScanInv, ScanInv', KeepInv, ExportComplete', [Next]_vars
  PROVE  [Durable!Next]_<<SafeTargets, DiskWhole, trusted, pc = "done">>
<1>0. SafeTargets' \in SUBSET Loaded /\ DiskWhole' \in BOOLEAN
  BY DEF SafeTargets, DiskWhole, ScanInv, DiskInv, CheckpointRecord
<1>1. CASE UNCHANGED vars \/ pc = "done"
  <2>1. UNCHANGED vars
    BY <1>1, DoneIsEnd
  <2> QED
    BY <2>1 DEF vars, mainVars, ckptVars, fileVars, SafeTargets, DiskWhole
<1>2. CASE Cleanup
  <2>1. pc' = "done" /\ trusted' = trusted
    BY <1>2 DEF Cleanup
  <2>2. trusted => SafeTargets' = Loaded
    BY <2>1 DEF ExportComplete, SafeTargets
  <2>3. Durable!Finish
    BY <1>0, <2>1, <2>2 DEF Durable!Finish
  <2> QED
    BY <2>3 DEF Durable!Next
<1>3. CASE Resume
  <2>1. /\ pc # "done" /\ pc' # "done" /\ ckptFile' = ckptFile /\ ckptFile # Torn
        /\ trusted' = (trusted /\ (ckptFile = NoFile \/ ckptFile.whole))
    BY <1>3 DEF Resume, fileVars
  <2>2. DiskWhole' = DiskWhole /\ trusted' = (trusted /\ DiskWhole)
    BY <2>1 DEF DiskWhole
  <2>3. ASSUME ckptFile # NoFile, NEW t \in Loaded \cap ckptFile.processed
        PROVE  found'[t] = found[t]
    BY <1>3, <2>3 DEF Resume, ScanInv, TypeOK, CkptTypeOK, CheckpointRecord
  <2>4. SafeTargets' = SafeTargets
    BY <2>1, <2>3 DEF SafeTargets
  <2>5. Durable!Restart
    BY <2>1, <2>2, <2>4 DEF Durable!Restart
  <2> QED
    BY <2>5 DEF Durable!Next
<1>4. ASSUME Next, pc # "done", ~ Cleanup, ~ Resume
      PROVE  Durable!Save \/ Durable!ShortSave
  <2>1. pc' # "done" /\ trusted' = trusted
    BY <1>4, OnlyResume
  <2>2. CASE ~ DiskWhole' \/ ~ trusted
    BY <1>0, <1>4, <2>1, <2>2 DEF Durable!Save, Durable!ShortSave
  <2>3. CASE DiskWhole' /\ trusted
    <3>1. ckptFile # NoFile =>
            /\ ckptFile' # NoFile
            /\ ckptFile.processed \subseteq ckptFile'.processed
      <4>1. CASE ckptFile' = ckptFile
        BY <4>1
      <4>2. CASE ckptFile' # ckptFile
        <5>1. RenameTemp
          BY <1>4, <4>2, OnlyTwoWrite
        <5>2. ckptFile' # NoFile
          BY <5>1, CheckpointAssumption DEF RenameTemp, ScanInv, SaveInv, TypeOK, CkptTypeOK
        <5> QED
          BY <1>4, <4>2, <5>2, StepGrows DEF Grows
      <4> QED
        BY <4>1, <4>2
    <3>2. SafeTargets \subseteq IF ckptFile = NoFile THEN {} ELSE Loaded \cap ckptFile.processed
      BY <1>4 DEF SafeTargets
    <3>3. SafeTargets' = IF ckptFile' = NoFile THEN {} ELSE Loaded \cap ckptFile'.processed
      BY <2>1, <2>3, CheckpointAssumption DEF SafeTargets, DiskWhole, ScanInv, DiskInv
    <3>4. SafeTargets \subseteq SafeTargets'
      BY <3>1, <3>2, <3>3
    <3> QED
      BY <1>0, <1>4, <2>1, <2>3, <3>4 DEF Durable!Save
  <2> QED
    BY <2>2, <2>3
<1> QED
  BY <1>1, <1>2, <1>3, <1>4 DEF Durable!Next

\* However often the process dies, the scan promises what DurableScan does: what --resume
\* relies on is lost to no save but a short one, the next save makes that good unless the
\* scan is started again from it, and a scan that is complete has all of it.
THEOREM ScanIsDurable == Spec => DurableSpec
<1>1. ScanInv => ExportComplete
  BY InvExportComplete
<1> QED
  BY <1>1, DurableStarts, DurableSteps, ScanInvariant, KeepInvariant, PTL
  DEF Spec, DurableSpec, Durable!Spec, Durable!durableVars

-----------------------------------------------------------------------------
(* The last save. *)

LEMMA FinalStarts == Init => FinalInv
  BY DEF Init, ManagerInit, FinalInv, Lost

LEMMA SaverFinal ==
  ASSUME ScanInv, KeepInv, FinalInv, Saver, "save" \notin Events
  PROVE  FinalInv'
<1> USE DEF ScanInv, Saver
<1>0. UNCHANGED <<pc, processedTargets, stopping>> /\ pc \notin Lost
  BY DEF mainVars, Alive, Lost, SaverStep, SaveStep, WakeOnStop, WakeOnTick,
         WakeOnTrigger, CopyProcessed, FlushStore, ReadNodes, ReadEdges,
         BeginWrite, EndWrite, RenameTemp, WriteFails, RenameFails, SaveReturns
<1>1. CASE WakeOnStop \/ WakeOnTick \/ WakeOnTrigger
  BY <1>0, <1>1 DEF WakeOnStop, WakeOnTick, WakeOnTrigger, FinalInv, Saving
<1>2. CASE CopyProcessed
  BY <1>0, <1>2 DEF CopyProcessed, FinalInv, Saving, EmptyRecord
<1>3. CASE FlushStore
  BY <1>0, <1>3 DEF FlushStore, FlushBoth, FinalInv, Saving
<1>4. CASE ReadNodes
  <2>1. cp'.processed = cp.processed /\ (cp'.whole => cp'.nodes = nodeFile)
    BY <1>4, ReadFacts DEF TypeOK
  <2> QED
    BY <1>0, <1>4, <2>1 DEF ReadNodes, FinalInv, Saving, storeVars
<1>5. CASE ReadEdges
  <2>1. /\ cp' \in CheckpointRecord
        /\ cp'.processed = cp.processed /\ cp'.nodes = cp.nodes
        /\ cp'.whole => cp.whole /\ cp'.edges = edgeFile
    BY <1>5, ReadFacts DEF TypeOK
  <2>2. finalSave => IsWholeScan(cp)'
    BY <1>0, <1>5, <2>1 DEF ReadEdges, FinalInv, Saving, IsWholeScan, nodeIDs, edgeKeys,
                            storeVars
  <2> QED
    BY <1>0, <1>5, <2>1, <2>2 DEF ReadEdges, FinalInv, Saving
<1>6. CASE BeginWrite \/ EndWrite
  BY <1>0, <1>6 DEF BeginWrite, EndWrite, FinalInv, Saving, IsWholeScan, nodeIDs, edgeKeys,
                    storeVars
<1>7. CASE RenameTemp
  <2>1. ckptFile' = cp
    BY <1>7 DEF RenameTemp, SaveInv
  <2> QED
    BY <1>0, <1>7, <2>1 DEF RenameTemp, SaveReturns, FinalInv, Saving, IsWholeScan,
                            nodeIDs, edgeKeys, storeVars
<1> QED
  BY <1>1, <1>2, <1>3, <1>4, <1>5, <1>6, <1>7 DEF SaverStep, SaveStep, WriteFails, RenameFails

\* Stop closes stopChan after wg.Wait, and the export waits for the saver that it ends.
LEMMA MainFinal ==
  ASSUME ScanInv, KeepInv, FinalInv, MainStep, Periodic
  PROVE  FinalInv'
<1>1. CASE Resume
  BY <1>1 DEF Resume, FinalInv, Draining, Lost, Saving
<1>2. CASE LoadFails \/ CheckStop \/ DispatchEnds \/ ManagerStopped \/ ExportFails
  BY <1>2 DEF LoadFails, CheckStop, DispatchEnds, ManagerStopped, ExportFails, FinalInv,
              Draining, Lost, IsWholeScan, nodeIDs, edgeKeys, ckptVars, managerVars, fileVars,
              storeVars
<1>3. CASE \E t \in Loaded : Spawn(t)
  BY <1>3 DEF Spawn, FinalInv, Draining, Lost, ckptVars, managerVars
<1>4. CASE StopManager
  BY <1>4 DEF StopManager, CloseStopChan, FinalInv, Draining, Lost, IsWholeScan, nodeIDs,
              edgeKeys, fileVars, storeVars
<1>5. CASE BeginExport
  <2>1. saver = "returned" /\ UNCHANGED <<ckptVars, nodeIDs, edgeKeys>>
    BY <1>5 DEF BeginExport, FlushBoth, KeepInv, FinalInv, SaverIdle, Lost, nodeIDs, edgeKeys
  <2> QED
    BY <1>5, <2>1 DEF BeginExport, FinalInv, Draining, Lost, Saving, IsWholeScan, ckptVars,
                      managerVars, fileVars
<1>6. CASE EndExport
  BY <1>6 DEF EndExport, FinalInv, Draining, Lost, IsWholeScan, nodeIDs, edgeKeys, ckptVars,
              managerVars, fileVars, storeVars
<1>7. CASE Cleanup
  BY <1>7 DEF Cleanup, KeepInv, SaverIdle, FinalInv, Draining, Lost, Saving, managerVars
<1> QED
  BY <1>1, <1>2, <1>3, <1>4, <1>5, <1>6, <1>7 DEF MainStep

LEMMA FinalInductive ==
  ASSUME ScanInv, KeepInv, FinalInv, [Next]_vars, Periodic, "save" \notin Events
  PROVE  FinalInv'
<1>1. CASE \E t \in Loaded : WorkerStep(t)
  <2>1. PICK t \in Loaded : WorkerStep(t)
    BY <1>1
  <2>2. worker[t] \notin {"none", "finished"}
    BY <2>1 DEF WorkerStep, Emit, Return, Mark, Finish
  <2>3. pc \notin Draining \cup Lost
    BY <2>2, ScanAssumption DEF ScanInv, DispatchInv, Draining, Lost
  <2>4. UNCHANGED <<pc, saver, finalSave, stopping>>
    BY <2>1 DEF WorkerStep, Emit, Return, Mark, MarkTargetProcessed, Finish, ckptVars,
                managerVars
  <2> QED
    BY <2>3, <2>4 DEF FinalInv
<1>2. CASE Signal \/ SignalStep \/ Terminated \/ UNCHANGED vars
  BY <1>2 DEF Signal, SignalStep, SignalTrigger, SignalClose, TriggerSave, Terminated,
              FinalInv, IsWholeScan, nodeIDs, edgeKeys, vars, mainVars, ckptVars, managerVars,
              fileVars, storeVars
<1>3. CASE Crash
  BY <1>3 DEF Crash, FinalInv, Lost
<1> QED
  BY <1>1, <1>2, <1>3, SaverFinal, MainFinal DEF Next

\* With a saver and a disk that takes its files, the checkpoint that Stop leaves behind
\* names every target and, if it could read the store, is the whole scan (checkpoint.go:
\* "Stop stops the checkpoint manager and saves final state"), whatever the signal
\* goroutine and the ticker did before.
THEOREM FinalSaveIsComplete ==
  ASSUME Periodic, "save" \notin Events
  PROVE  Spec => []FinalSaveComplete
<1>1. FinalInv /\ ScanInv /\ KeepInv /\ [Next]_vars => FinalInv'
  BY FinalInductive
<1>2. FinalInv /\ ScanInv /\ KeepInv => FinalSaveComplete
  <2> SUFFICES ASSUME FinalInv, ScanInv, KeepInv, pc \in {"export", "streaming", "cleanup"}
               PROVE  Loaded \subseteq processedTargets /\ IsWholeScan(ckptFile)
    BY CheckpointAssumption DEF FinalSaveComplete, IsWholeScan
  <2>1. ASSUME NEW t \in Loaded PROVE t \in processedTargets
    BY ScanAssumption DEF ScanInv, DispatchInv, Draining, Lost
  <2>2. IsWholeScan(ckptFile)
    BY DEF FinalInv, KeepInv, SaverIdle, Lost
  <2> QED
    BY <2>1, <2>2
<1> QED
  BY <1>1, <1>2, FinalStarts, ScanInvariant, KeepInvariant, PTL DEF Spec

-----------------------------------------------------------------------------
(* The export has the nodes of its edges. *)

\* What a target emits has its nodes with it.
LEMMA YieldIsClosed ==
  ASSUME NEW t \in Target, NEW e \in Yield[t] \cap Edge
  PROVE  Ends[e] \subseteq Yield[t] \cap Node
  BY GraphAssumption, ScanAssumption

LEMMA OriginStarts == Init => OriginInv
<1> SUFFICES ASSUME Init PROVE OriginInv
  OBVIOUS
<1>1. pc = "boot" /\ Earlier \subseteq Target
  BY DEF Init, Earlier
<1>2. ASSUME NEW t \in Target, NEW e \in found[t] \cap Edge PROVE Ends[e] \subseteq found[t]
  <2>1. found[t] = Yield[t]
    BY <1>2 DEF Init
  <2> QED
    BY <1>2, <2>1, YieldIsClosed
<1>3. CASE ckptFile = NoFile
  <2>0. [processed |-> Earlier, nodes |-> EarlierYield \cap Node,
         edges |-> EarlierYield \cap Edge, whole |-> TRUE] \in CheckpointRecord
    BY DEF CheckpointRecord, Earlier
  <2>1. Earlier = {}
    BY <1>3, <2>0, CheckpointAssumption DEF Init
  <2> QED
    BY <1>1, <1>2, <1>3, <2>1 DEF OriginInv, Lost
<1>4. CASE ckptFile # NoFile
  <2>1. ckptFile = [processed |-> Earlier, nodes |-> EarlierYield \cap Node,
                    edges |-> EarlierYield \cap Edge, whole |-> TRUE]
    BY <1>4 DEF Init
  <2>2. ASSUME NEW e \in EarlierYield \cap Edge PROVE Ends[e] \subseteq EarlierYield \cap Node
    <3>1. PICK t \in Earlier : e \in Yield[t]
      BY <2>2 DEF EarlierYield
    <3>2. Ends[e] \subseteq Yield[t] \cap Node
      BY <1>1, <2>2, <3>1, YieldIsClosed
    <3> QED
      BY <3>2 DEF EarlierYield
  <2>3. Closed(ckptFile.nodes, ckptFile.edges)
    BY <2>1, <2>2 DEF Closed, Dangling
  <2>4. ckptFile.processed = Earlier
    BY <2>1
  <2> QED
    BY <1>1, <1>2, <1>4, <2>3, <2>4 DEF OriginInv, Lost
<1> QED
  BY <1>3, <1>4

LEMMA SaverOrigin ==
  ASSUME ScanInv, KeepInv, OriginInv, Saver
  PROVE  OriginInv'
<1> USE DEF ScanInv, Saver
<1>0. UNCHANGED <<pc, processedTargets, found, crashes>> /\ pc \notin Lost
  BY DEF mainVars, Alive, Lost, SaverStep, SaveStep, WakeOnStop, WakeOnTick,
         WakeOnTrigger, CopyProcessed, FlushStore, ReadNodes, ReadEdges,
         BeginWrite, EndWrite, RenameTemp, WriteFails, RenameFails, SaveReturns
<1>1. UNCHANGED <<nodeIDs, edgeKeys>>
  BY DEF SaverStep, SaveStep, WakeOnStop, WakeOnTick, WakeOnTrigger, CopyProcessed,
         FlushStore, FlushBoth, ReadNodes, ReadEdges, BeginWrite, EndWrite, RenameTemp,
         WriteFails, RenameFails, SaveReturns, nodeIDs, edgeKeys, storeVars
<1>2. CASE \/ WakeOnStop \/ WakeOnTick \/ WakeOnTrigger
           \/ CopyProcessed \/ FlushStore \/ ReadNodes
  <2>1. saver' \in {"woken", "copied", "flushed", "nodesRead", "returned"}
        /\ ckptFile' = ckptFile
    BY <1>2 DEF WakeOnStop, WakeOnTick, WakeOnTrigger, CopyProcessed, FlushStore, ReadNodes,
                fileVars
  <2> QED
    BY <1>0, <1>1, <2>1 DEF OriginInv, Lost
<1>3. CASE ReadEdges
  BY <1>0, <1>1, <1>3 DEF ReadEdges, OriginInv, Lost, fileVars
<1>4. CASE BeginWrite \/ EndWrite \/ WriteFails \/ RenameFails
  BY <1>0, <1>1, <1>4 DEF BeginWrite, EndWrite, WriteFails, RenameFails, SaveReturns,
                          OriginInv, Lost, fileVars
<1>5. CASE RenameTemp
  <2>1. ckptFile' = cp /\ cp # NoFile
    BY <1>5, CheckpointAssumption DEF RenameTemp, SaveInv, TypeOK, CkptTypeOK
  <2>2. ckptFile # NoFile => ckptFile.processed \subseteq ckptFile'.processed
    BY <1>5, <2>1 DEF RenameTemp, KeepInv, Saving
  <2> QED
    BY <1>0, <1>1, <1>5, <2>1, <2>2 DEF RenameTemp, SaveReturns, OriginInv, Lost
<1> QED
  BY <1>2, <1>3, <1>4, <1>5 DEF SaverStep, SaveStep

LEMMA MainOrigin ==
  ASSUME ScanInv, KeepInv, OriginInv, MainStep
  PROVE  OriginInv'
<1> USE DEF ScanInv
<1>1. CASE Resume
  <2>1. pc = "boot" /\ pc' = "check" /\ saver' \in {"select", "off"}
        /\ ckptFile' = ckptFile /\ crashes' = crashes
    BY <1>1 DEF Resume, fileVars
  <2>0. \A t \in Target : \A e \in found'[t] \cap Edge : Ends[e] \subseteq found'[t]
    BY <1>1 DEF Resume, OriginInv
  <2>2. CASE ckptFile = NoFile
    <3>1. nodeIDs' = nodeIDs /\ edgeKeys' = edgeKeys /\ Earlier = {}
      BY <1>1, <2>1, <2>2 DEF Resume, nodeIDs, edgeKeys, storeVars, OriginInv
    <3>2. edgeKeys = {}
      BY <2>1 DEF KeepInv
    <3> QED
      BY <2>0, <2>1, <2>2, <3>1, <3>2 DEF OriginInv, Closed, Dangling
  <2>3. CASE ckptFile # NoFile
    <3>1. /\ nodeIDs' = ckptFile.nodes /\ edgeKeys' = ckptFile.edges
          /\ processedTargets' = ckptFile.processed
      BY <1>1, <2>3 DEF Resume, RestoreNodesAndEdges, nodeIDs, edgeKeys
    <3>2. \A t \in Earlier : t \in processedTargets'
      BY <1>1, <2>1, <3>1 DEF Resume, OriginInv, Earlier
    <3> QED
      BY <2>0, <2>1, <2>3, <3>1, <3>2 DEF OriginInv
  <2> QED
    BY <2>2, <2>3
<1>2. CASE LoadFails \/ CheckStop \/ DispatchEnds \/ ManagerStopped \/ ExportFails
  BY <1>2 DEF LoadFails, CheckStop, DispatchEnds, ManagerStopped, ExportFails, OriginInv,
              Lost, nodeIDs, edgeKeys, ckptVars, managerVars, fileVars, storeVars
<1>3. CASE \E t \in Loaded : Spawn(t)
  BY <1>3 DEF Spawn, OriginInv, Lost, nodeIDs, edgeKeys, ckptVars, managerVars, fileVars,
              storeVars
<1>4. CASE StopManager
  BY <1>4 DEF StopManager, CloseStopChan, OriginInv, Lost, nodeIDs, edgeKeys, fileVars,
              storeVars
<1>5. CASE BeginExport
  <2>1. UNCHANGED <<nodeIDs, edgeKeys>>
    BY <1>5 DEF BeginExport, FlushBoth, nodeIDs, edgeKeys
  <2> QED
    BY <1>5, <2>1 DEF BeginExport, OriginInv, Lost, ckptVars, managerVars, fileVars
<1>6. CASE EndExport
  BY <1>6 DEF EndExport, OriginInv, Lost, nodeIDs, edgeKeys, ckptVars, managerVars, fileVars,
              storeVars
<1>7. CASE Cleanup
  BY <1>7 DEF Cleanup, OriginInv, Lost, nodeIDs, edgeKeys, managerVars, storeVars
<1> QED
  BY <1>1, <1>2, <1>3, <1>4, <1>5, <1>6, <1>7 DEF MainStep

\* An edge follows the nodes that it joins, and they are in the store by then.
LEMMA WorkerOrigin ==
  ASSUME ScanInv, KeepInv, OriginInv, NEW t \in Loaded, WorkerStep(t)
  PROVE  OriginInv'
<1> USE DEF ScanInv
<1>1. ASSUME NEW r \in Yield[t], Emit(t, r) PROVE OriginInv'
  <2>1. /\ UNCHANGED <<pc, saver, cp, ckptFile, crashes, processedTargets>>
        /\ t \in plan /\ t \in Target /\ pc \notin Lost
    BY <1>1, ScanAssumption DEF Emit, DispatchInv, Draining, Lost, ckptVars, managerVars, fileVars
  <2>2. found' = [found EXCEPT ![t] = @ \cup {r}]
    BY <1>1 DEF Emit
  <2>3. ASSUME NEW u \in Target, NEW e \in found'[u] \cap Edge PROVE Ends[e] \subseteq found'[u]
    <3>1. \A d \in found[u] \cap Edge : Ends[d] \subseteq found[u]
      BY DEF OriginInv
    <3>2. found[u] \subseteq found'[u] /\ (e \in found[u] \/ (u = t /\ e = r))
      BY <2>2, <2>3 DEF TypeOK
    <3>3. r \in Edge => Ends[r] \subseteq found[t]
      BY <1>1, GraphAssumption DEF Emit
    <3> QED
      BY <2>3, <3>1, <3>2, <3>3
  <2>4. ASSUME Closed(nodeIDs, edgeKeys) PROVE Closed(nodeIDs', edgeKeys')
    <3>1. CASE r \in Node
      BY <1>1, <2>4, <3>1, GraphAssumption DEF Emit, AddNode, AddEdge, nodeIDs, edgeKeys, Closed, Dangling
    <3>2. CASE r \in Edge
      <4>1. Ends[r] \subseteq found[t] /\ nodeIDs' = nodeIDs /\ edgeKeys' = edgeKeys \cup {r}
        BY <1>1, <3>2, GraphAssumption DEF Emit, AddEdge, nodeIDs, edgeKeys
      <4>2. found[t] \subseteq nodeIDs \cup edgeKeys /\ edgeKeys \subseteq Edge
        BY <2>1 DEF StoreInv, Kept, TypeOK, StoreTypeOK, edgeKeys
      <4>3. Ends[r] \subseteq nodeIDs
        BY <3>2, <4>1, <4>2, GraphAssumption
      <4> QED
        BY <2>4, <4>1, <4>3 DEF Closed, Dangling
    <3> QED
      BY <2>1, <3>1, <3>2, ScanAssumption
  <2> QED
    BY <2>1, <2>2, <2>3, <2>4 DEF OriginInv, Lost
<1>2. CASE Return(t) \/ Mark(t) \/ Finish(t)
  BY <1>2 DEF Return, Mark, MarkTargetProcessed, Finish, OriginInv, Lost, nodeIDs, edgeKeys,
              ckptVars, managerVars, fileVars, storeVars
<1> QED
  BY <1>1, <1>2 DEF WorkerStep

LEMMA OriginInductive ==
  ASSUME ScanInv, KeepInv, OriginInv, [Next]_vars
  PROVE  OriginInv'
<1>1. CASE Signal \/ SignalStep \/ Terminated \/ UNCHANGED vars
  BY <1>1 DEF Signal, SignalStep, SignalTrigger, SignalClose, TriggerSave, Terminated,
              OriginInv, Lost, nodeIDs, edgeKeys, vars, mainVars, ckptVars, managerVars,
              fileVars, storeVars
<1>2. CASE Crash
  <2>1. crashes' # 0
    BY <1>2 DEF Crash, ScanInv, TypeOK
  <2>2. pc # "done" /\ pc' = "boot" /\ edgeKeys' = {} /\ saver' = "off"
        /\ UNCHANGED <<found, ckptFile>>
    BY <1>2 DEF Crash, edgeKeys, fileVars
  <2> QED
    BY <2>1, <2>2 DEF OriginInv, Lost
<1> QED
  BY <1>1, <1>2, SaverOrigin, MainOrigin, WorkerOrigin DEF Next

LEMMA OriginInvariant == Spec => []OriginInv
<1> QED
  BY OriginStarts, OriginInductive, ScanInvariant, KeepInvariant, PTL DEF Spec

\* An edge of the export whose node is missing was left by an attempt that was lost in a
\* crash and whose repetition ended before it found the edge again (GetNodesAndEdges reads
\* the node file before the edge file): no last attempt has emitted it.
THEOREM ExportIsClosed == Spec => []ExportClosed
<1>1. ASSUME ScanInv, KeepInv, OriginInv, ExportComplete PROVE ExportClosed
  <2> SUFFICES ASSUME pc \in {"cleanup", "done"},
                      NEW e \in Dangling(output.nodes, output.edges)
               PROVE  crashes > 0 /\ \A t \in Target : Kept(t) => e \notin found[t]
    BY DEF ExportClosed, Kept
  <2> USE <1>1
  <2>1. output = [nodes |-> nodeIDs, edges |-> edgeKeys] /\ output \in OutputRecord
    BY ScanAssumption DEF KeepInv, ScanInv, TypeOK, StoreTypeOK, nodeIDs, edgeKeys, OutputRecord
  <2>2. crashes # 0
    BY <2>1 DEF OriginInv, Closed, Lost
  <2>3. crashes \in Nat
    BY ScanAssumption DEF ScanInv, TypeOK
  <2>4. ASSUME NEW t \in Target, Kept(t), e \in found[t] PROVE FALSE
    <3>1. t \in processedTargets
      BY DEF OriginInv, ExportComplete, Earlier, Lost
    <3>2. found[t] \subseteq Records(output)
      BY <2>4, <3>1 DEF ExportComplete, Kept
    <3>3. e \in Edge /\ ~ Ends[e] \subseteq output.nodes
      BY <2>1 DEF Dangling, OutputRecord
    <3>4. Ends[e] \subseteq found[t] /\ Ends[e] \subseteq Node
      BY <2>4, <3>3, GraphAssumption DEF OriginInv
    <3>5. output.edges \subseteq Edge
      BY <2>1 DEF OutputRecord
    <3> QED
      BY <3>2, <3>3, <3>4, <3>5, GraphAssumption DEF Records
  <2> QED
    BY <2>2, <2>3, <2>4
<1>2. ScanInv => ExportComplete
  BY InvExportComplete
<1> QED
  BY <1>1, <1>2, ScanInvariant, KeepInvariant, OriginInvariant, PTL
=============================================================================
