----------------------------- MODULE Checkpoint ------------------------------
(***************************************************************************)
(* checkpoint.Manager (Go/internal/checkpoint/checkpoint.go): the set of   *)
(* processed targets, the saver goroutine that Start spawns, the two       *)
(* channels that drive it and the two files it writes.                     *)
(*                                                                         *)
(* saveCheckpoint is several steps, because between them the workers go on *)
(* marking targets and adding records: the processed set is copied, the    *)
(* store flushed, the node file read, the edge file read, the temporary    *)
(* file written, and that file renamed over the checkpoint.                *)
(*                                                                         *)
(* The operators prime the variables of this module; those that touch the  *)
(* store say so, the others leave storeVars alone.                         *)
(***************************************************************************)
EXTENDS OpenGraph

CONSTANTS
  Target,    \* every target value a checkpoint may name
  Periodic,  \* Manager.interval > 0: Start spawns the saver only then
  Events,    \* what may befall the process: see Event
  NoFile,    \* a path at which there is no file
  Torn       \* a file whose write has begun and not ended

\* crash: the process is killed.  save: WriteFile or Rename fails.  read: a
\* record file cannot be opened, or not decoded to its end, for a save.  load:
\* the checkpoint cannot be read.
\* export: ExportToFile fails.  delete: Delete fails.  scan: a target ends
\* before it has emitted everything it could (unreachable, timed out).
\* signal: SIGINT or SIGTERM arrives.
Event == {"crash", "save", "read", "load", "export", "delete", "scan", "signal"}

\* whole is history: no read of the save that made it failed.
CheckpointRecord ==
  [processed : SUBSET Target, nodes : SUBSET Node, edges : SUBSET Edge,
   whole : BOOLEAN]

EmptyRecord == [processed |-> {}, nodes |-> {}, edges |-> {}, whole |-> TRUE]

ASSUME CheckpointAssumption ==
  /\ Periodic \in BOOLEAN
  /\ Events \subseteq Event
  /\ NoFile \notin CheckpointRecord /\ Torn \notin CheckpointRecord
  /\ NoFile # Torn

VARIABLES
  processedTargets,  \* Manager.processedTargets
  saver,             \* where the saver goroutine is
  finalSave,         \* it was woken by stopChan and returns after this save
  cp,                \* the Checkpoint under construction, a local of a save
  saveChan,          \* saveChan (capacity 1) holds a token
  stopping,          \* stopChan is closed
  tmpFile,           \* the file filepath + ".tmp"
  ckptFile           \* the file filepath

managerVars == <<processedTargets, saver, finalSave, cp, saveChan, stopping>>
fileVars    == <<tmpFile, ckptFile>>
ckptVars    == <<managerVars, fileVars>>

\* off: not started.  select: waiting.  woken ... written: in saveCheckpoint,
\* named after the last step done.  returned: the goroutine has ended.
SaverState == {"off", "select", "woken", "copied", "flushed", "nodesRead",
               "edgesRead", "writing", "written", "returned"}

CkptTypeOK ==
  /\ processedTargets \in SUBSET Target
  /\ saver \in SaverState
  /\ finalSave \in BOOLEAN
  /\ cp \in CheckpointRecord
  /\ saveChan \in BOOLEAN
  /\ stopping \in BOOLEAN
  /\ tmpFile \in CheckpointRecord \cup {NoFile, Torn}
  /\ ckptFile \in CheckpointRecord \cup {NoFile, Torn}

\* NewManager.
ManagerInit ==
  /\ processedTargets = {}
  /\ saver = "off" /\ finalSave = FALSE /\ cp = EmptyRecord
  /\ saveChan = FALSE /\ stopping = FALSE

-----------------------------------------------------------------------------
(* Called by the scan. *)

MarkTargetProcessed(t) ==
  /\ processedTargets' = processedTargets \cup {t}
  /\ UNCHANGED <<saver, finalSave, cp, saveChan, stopping, fileVars, storeVars>>

\* Mutant: an unbuffered saveChan, whose send is dropped by a busy saver.
TriggerSaveUnbuffered ==
  /\ saveChan' = (saver = "select")
  /\ UNCHANGED <<processedTargets, saver, finalSave, cp, stopping,
                 fileVars, storeVars>>

\* The send is non-blocking: a token that is already there absorbs it.
TriggerSave ==
  /\ saveChan' = TRUE
  /\ UNCHANGED <<processedTargets, saver, finalSave, cp, stopping,
                 fileVars, storeVars>>

\* The first half of Stop; the second is to wait for SaverIdle.
CloseStopChan ==
  /\ stopping' = TRUE
  /\ UNCHANGED <<processedTargets, saver, finalSave, cp, saveChan,
                 fileVars, storeVars>>

SaverIdle == saver \in {"off", "returned"}

-----------------------------------------------------------------------------
(* The saver goroutine: its select, then saveCheckpoint. *)

WakeOnStop ==
  /\ saver = "select" /\ stopping
  /\ saver' = "woken" /\ finalSave' = TRUE
  /\ UNCHANGED <<processedTargets, cp, saveChan, stopping, fileVars, storeVars>>

WakeOnTick ==
  /\ saver = "select"
  /\ saver' = "woken"
  /\ UNCHANGED <<processedTargets, finalSave, cp, saveChan, stopping,
                 fileVars, storeVars>>

WakeOnTrigger ==
  /\ saver = "select" /\ saveChan
  /\ saver' = "woken" /\ saveChan' = FALSE
  /\ UNCHANGED <<processedTargets, finalSave, cp, stopping, fileVars, storeVars>>

CopyProcessed ==
  /\ saver = "woken"
  /\ saver' = "copied"
  /\ cp' = [EmptyRecord EXCEPT !.processed = processedTargets]
  /\ UNCHANGED <<processedTargets, finalSave, saveChan, stopping,
                 fileVars, storeVars>>

\* GetNodesAndEdges: the flush is under the lock, the two reads are not.
FlushStore ==
  /\ saver = "copied"
  /\ saver' = "flushed"
  /\ FlushBoth
  /\ UNCHANGED <<processedTargets, finalSave, cp, saveChan, stopping, fileVars>>

\* What a read of a record file returns.  GetNodesAndEdges has no error to
\* return: a file that does not open is empty, and the first record that does
\* not decode is the end of it.
ReadOf(file) ==
  {file} \cup (IF "read" \in Events THEN SUBSET file ELSE {})

ReadNodes ==
  /\ saver = "flushed"
  /\ saver' = "nodesRead"
  /\ \E nodes \in ReadOf(nodeFile) :
       cp' = [cp EXCEPT !.nodes = nodes, !.whole = (nodes = nodeFile)]
  /\ UNCHANGED <<processedTargets, finalSave, saveChan, stopping,
                 fileVars, storeVars>>

\* Mutant: the processed set is copied after the graph is read.
ReadEdgesThenCopy ==
  /\ saver = "nodesRead"
  /\ saver' = "edgesRead"
  /\ \E edges \in ReadOf(edgeFile) :
       cp' = [cp EXCEPT !.edges = edges, !.whole = @ /\ edges = edgeFile,
                        !.processed = processedTargets]
  /\ UNCHANGED <<processedTargets, finalSave, saveChan, stopping,
                 fileVars, storeVars>>

ReadEdges ==
  /\ saver = "nodesRead"
  /\ saver' = "edgesRead"
  /\ \E edges \in ReadOf(edgeFile) :
       cp' = [cp EXCEPT !.edges = edges, !.whole = @ /\ edges = edgeFile]
  /\ UNCHANGED <<processedTargets, finalSave, saveChan, stopping,
                 fileVars, storeVars>>

\* Mutant: the checkpoint is written in place.
BeginWriteInPlace ==
  /\ saver = "edgesRead"
  /\ saver' = "writing"
  /\ ckptFile' = Torn
  /\ UNCHANGED <<processedTargets, finalSave, cp, saveChan, stopping,
                 tmpFile, storeVars>>

BeginWrite ==
  /\ saver = "edgesRead"
  /\ saver' = "writing"
  /\ tmpFile' = Torn
  /\ UNCHANGED <<processedTargets, finalSave, cp, saveChan, stopping,
                 ckptFile, storeVars>>

EndWrite ==
  /\ saver = "writing"
  /\ saver' = "written"
  /\ tmpFile' = cp
  /\ UNCHANGED <<processedTargets, finalSave, cp, saveChan, stopping,
                 ckptFile, storeVars>>

\* Mutant: the stopChan case lacks its return.
SaveReturnsToSelect ==
  /\ saver' = "select"
  /\ cp' = EmptyRecord
  /\ UNCHANGED <<processedTargets, finalSave, saveChan, stopping, storeVars>>

\* saveCheckpoint returns; its caller ignores the error it may return.
SaveReturns ==
  /\ saver' = IF finalSave THEN "returned" ELSE "select"
  /\ cp' = EmptyRecord
  /\ UNCHANGED <<processedTargets, finalSave, saveChan, stopping, storeVars>>

RenameTemp ==
  /\ saver = "written"
  /\ ckptFile' = tmpFile /\ tmpFile' = NoFile
  /\ SaveReturns

WriteFails ==
  /\ "save" \in Events /\ saver = "writing"
  /\ UNCHANGED fileVars
  /\ SaveReturns

RenameFails ==
  /\ "save" \in Events /\ saver = "written"
  /\ tmpFile' = NoFile /\ UNCHANGED ckptFile
  /\ SaveReturns

\* The steps of a save once the goroutine is awake.
SaveStep ==
  \/ CopyProcessed \/ FlushStore \/ ReadNodes \/ ReadEdges
  \/ BeginWrite \/ EndWrite \/ RenameTemp \/ WriteFails \/ RenameFails

SaverStep == WakeOnStop \/ WakeOnTick \/ WakeOnTrigger \/ SaveStep
=============================================================================
