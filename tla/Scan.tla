-------------------------------- MODULE Scan ---------------------------------
(***************************************************************************)
(* One scan as run() of Go/cmd/sharehound/main.go drives it: resume, the   *)
(* dispatch loop with its semaphore, the worker goroutines, the checkpoint *)
(* saver, the signal goroutine, the final save, the export and the cleanup *)
(* of the checkpoint.  The process may be killed at any point and started  *)
(* again with --resume; the disk and `found' survive, memory does not.     *)
(*                                                                         *)
(* What ProcessTarget does to a host is the subject of HostScan; here a    *)
(* target emits its records in any order in which an edge follows the      *)
(* nodes it joins, and ends.                                               *)
(***************************************************************************)
EXTENDS Checkpoint, Naturals, FiniteSets

CONSTANTS
  Loaded,     \* the targets LoadTargets returns, the same on every start
  Yield,      \* [Target -> SUBSET (Node \cup Edge)]: what a target can emit
  Threads,    \* capacity of the semaphore
  MaxCrashes  \* bound: how often the process dies before it completes

OutputRecord == [nodes : SUBSET Node, edges : SUBSET Edge]

ASSUME ScanAssumption ==
  /\ IsFiniteSet(Target) /\ Loaded \subseteq Target /\ Loaded # {}
  /\ Yield \in [Target -> SUBSET (Node \cup Edge)]
  /\ \A t \in Target : \A e \in Yield[t] \cap Edge : Ends[e] \subseteq Yield[t]
  /\ Threads \in Nat \ {0}
  /\ MaxCrashes \in Nat
  /\ NoFile \notin OutputRecord /\ Torn \notin OutputRecord

VARIABLES
  pc,        \* where the main goroutine is
  plan,      \* targetsToProcess
  todo,      \* the part of plan the dispatch loop has not reached
  worker,    \* per target: its goroutine
  found,     \* history: the records its latest attempt has emitted
  sig,       \* the signal goroutine
  stopSeen,  \* the dispatch loop has logged "Stop signal received"
  output,    \* the output file
  crashes,   \* how often the process has died
  trusted    \* history: no start has resumed from a checkpoint that is not whole

mainVars == <<pc, plan, todo, worker, found, sig, stopSeen, output, crashes, trusted>>
vars == <<mainVars, ckptVars, storeVars>>

MainState == {"boot", "check", "spawn", "waiting", "stopping", "export",
              "streaming", "cleanup", "done", "exited"}

\* returned: ProcessTarget is over.  marked: so is MarkTargetProcessed; the
\* semaphore is still held.  finished: wg.Done.
WorkerState == {"none", "running", "returned", "marked", "finished"}

Running == {t \in Target : worker[t] \in {"running", "returned", "marked"}}

SigState == {"waiting", "received", "triggered", "closed"}

TypeOK ==
  /\ StoreTypeOK /\ CkptTypeOK
  /\ pc \in MainState
  /\ plan \in SUBSET Loaded /\ todo \in SUBSET plan
  /\ worker \in [Target -> WorkerState]
  /\ found \in [Target -> SUBSET (Node \cup Edge)]
  /\ sig \in SigState
  /\ stopSeen \in BOOLEAN
  /\ output \in OutputRecord \cup {NoFile, Torn}
  /\ crashes \in 0..MaxCrashes
  /\ trusted \in BOOLEAN

-----------------------------------------------------------------------------
\* Targets of an earlier list that are not in this one.  A checkpoint on disk
\* before the first start holds exactly them.
Earlier == Target \ Loaded

EarlierYield == UNION {Yield[t] : t \in Earlier}

Init ==
  /\ pc = "boot" /\ plan = {} /\ todo = {}
  /\ worker = [t \in Target |-> "none"]
  /\ sig = "waiting" /\ stopSeen = FALSE
  /\ ManagerInit /\ StoreInit
  /\ found = [t \in Target |-> IF t \in Earlier THEN Yield[t] ELSE {}]
  /\ tmpFile = NoFile
  /\ ckptFile = IF Earlier = {} THEN NoFile
                ELSE [processed |-> Earlier,
                      nodes |-> EarlierYield \cap Node,
                      edges |-> EarlierYield \cap Edge,
                      whole |-> TRUE]
  /\ output = NoFile
  /\ crashes = 0 /\ trusted = TRUE

-----------------------------------------------------------------------------
(* The main goroutine. *)

\* Mutant: the loop ranges over loadedTargets.
ResumeAll ==
  /\ pc = "boot" /\ ckptFile # Torn
  /\ processedTargets' = IF ckptFile = NoFile THEN {} ELSE ckptFile.processed
  /\ IF ckptFile = NoFile
     THEN UNCHANGED storeVars
     ELSE RestoreNodesAndEdges(ckptFile.nodes, ckptFile.edges)
  /\ plan' = {t \in Loaded : t \notin processedTargets'}
  /\ todo' = Loaded
  /\ found' = [t \in Target |-> IF t \in processedTargets' THEN found[t] ELSE {}]
  /\ trusted' = (trusted /\ (ckptFile = NoFile \/ ckptFile.whole))
  /\ saver' = IF Periodic THEN "select" ELSE "off"
  /\ pc' = "check"
  /\ UNCHANGED <<worker, sig, stopSeen, output, crashes,
                 finalSave, cp, saveChan, stopping, fileVars>>

\* Mutant: the manager is restored, the graph is not.
ResumeWithoutGraph ==
  /\ pc = "boot" /\ ckptFile # Torn
  /\ processedTargets' = IF ckptFile = NoFile THEN {} ELSE ckptFile.processed
  /\ UNCHANGED storeVars
  /\ plan' = {t \in Loaded : t \notin processedTargets'}
  /\ todo' = plan'
  /\ found' = [t \in Target |-> IF t \in processedTargets' THEN found[t] ELSE {}]
  /\ trusted' = (trusted /\ (ckptFile = NoFile \/ ckptFile.whole))
  /\ saver' = IF Periodic THEN "select" ELSE "off"
  /\ pc' = "check"
  /\ UNCHANGED <<worker, sig, stopSeen, output, crashes,
                 finalSave, cp, saveChan, stopping, fileVars>>

\* With --checkpoint --resume: load the checkpoint if there is one, restore
\* manager and graph from it, leave out the targets it names, start the saver.
Resume ==
  /\ pc = "boot" /\ ckptFile # Torn
  /\ processedTargets' = IF ckptFile = NoFile THEN {} ELSE ckptFile.processed
  /\ IF ckptFile = NoFile
     THEN UNCHANGED storeVars
     ELSE RestoreNodesAndEdges(ckptFile.nodes, ckptFile.edges)
  /\ plan' = {t \in Loaded : t \notin processedTargets'}
  /\ todo' = plan'
  /\ found' = [t \in Target |-> IF t \in processedTargets' THEN found[t] ELSE {}]
  /\ trusted' = (trusted /\ (ckptFile = NoFile \/ ckptFile.whole))
  /\ saver' = IF Periodic THEN "select" ELSE "off"
  /\ pc' = "check"
  /\ UNCHANGED <<worker, sig, stopSeen, output, crashes,
                 finalSave, cp, saveChan, stopping, fileVars>>

\* Load fails: os.Exit(1).
LoadFails ==
  /\ pc = "boot"
  /\ ckptFile = Torn \/ (ckptFile # NoFile /\ "load" \in Events)
  /\ pc' = "exited"
  /\ UNCHANGED <<plan, todo, worker, found, sig, stopSeen, output, crashes, trusted,
                 ckptVars, storeVars>>

\* The head of the dispatch loop.  `break' leaves the select, not the loop.
CheckStop ==
  /\ pc = "check" /\ todo # {}
  /\ stopSeen' = (stopSeen \/ sig = "closed")
  /\ pc' = "spawn"
  /\ UNCHANGED <<plan, todo, worker, found, sig, output, crashes, trusted,
                 ckptVars, storeVars>>

\* semaphore <- struct{}{} blocks until fewer than Threads goroutines hold it.
Spawn(t) ==
  /\ pc = "spawn" /\ t \in todo /\ Cardinality(Running) < Threads
  /\ worker' = [worker EXCEPT ![t] = "running"]
  /\ todo' = todo \ {t}
  /\ pc' = "check"
  /\ UNCHANGED <<plan, found, sig, stopSeen, output, crashes, trusted,
                 ckptVars, storeVars>>

DispatchEnds ==
  /\ pc = "check" /\ todo = {}
  /\ pc' = "waiting"
  /\ UNCHANGED <<plan, todo, worker, found, sig, stopSeen, output, crashes, trusted,
                 ckptVars, storeVars>>

\* Mutant: wg.Add inside the goroutine, so that Wait may pass before it.
StopManagerEarly ==
  /\ pc = "waiting"
  /\ CloseStopChan
  /\ pc' = "stopping"
  /\ UNCHANGED <<plan, todo, worker, found, sig, stopSeen, output, crashes, trusted>>

\* wg.Wait, then cpManager.Stop closes its channel ...
StopManager ==
  /\ pc = "waiting" /\ \A t \in plan : worker[t] = "finished"
  /\ CloseStopChan
  /\ pc' = "stopping"
  /\ UNCHANGED <<plan, todo, worker, found, sig, stopSeen, output, crashes, trusted>>

\* Mutant: Stop does not wait for the saver.
ManagerStoppedAtOnce ==
  /\ pc = "stopping"
  /\ pc' = "export"
  /\ UNCHANGED <<plan, todo, worker, found, sig, stopSeen, output, crashes, trusted,
                 ckptVars, storeVars>>

\* ... and waits for the saver goroutine.
ManagerStopped ==
  /\ pc = "stopping" /\ SaverIdle
  /\ pc' = "export"
  /\ UNCHANGED <<plan, todo, worker, found, sig, stopSeen, output, crashes, trusted,
                 ckptVars, storeVars>>

\* ExportToFileWithProgress flushes, creates (truncates) the output file ...
BeginExport ==
  /\ pc = "export"
  /\ FlushBoth
  /\ output' = Torn
  /\ pc' = "streaming"
  /\ UNCHANGED <<plan, todo, worker, found, sig, stopSeen, crashes, trusted, ckptVars>>

\* ... and streams both record files into it.
EndExport ==
  /\ pc = "streaming"
  /\ output' = [nodes |-> nodeFile, edges |-> edgeFile]
  /\ pc' = "cleanup"
  /\ UNCHANGED <<plan, todo, worker, found, sig, stopSeen, crashes, trusted,
                 ckptVars, storeVars>>

\* An export error ends the process with os.Exit(1).
ExportFails ==
  /\ pc = "streaming" /\ "export" \in Events
  /\ pc' = "exited"
  /\ UNCHANGED <<plan, todo, worker, found, sig, stopSeen, output, crashes, trusted,
                 ckptVars, storeVars>>

\* Mutant: any count that is high enough will do.
CompleteAtLeast ==
  plan = {} \/ Cardinality(processedTargets) >= Cardinality(Loaded)

\* The condition under which the checkpoint is deleted after the export.
Complete ==
  plan = {} \/ Cardinality(processedTargets) = Cardinality(Loaded)

Cleanup ==
  /\ pc = "cleanup"
  /\ pc' = "done"
  /\ IF Complete
     THEN ckptFile' = NoFile \/ ("delete" \in Events /\ UNCHANGED ckptFile)
     ELSE UNCHANGED ckptFile
  /\ UNCHANGED <<plan, todo, worker, found, sig, stopSeen, output, crashes, trusted,
                 managerVars, tmpFile, storeVars>>

-----------------------------------------------------------------------------
(* The goroutine of a target. *)

\* Mutant: an edge may be added before its nodes.
EmitAnyOrder(t, r) ==
  /\ worker[t] = "running" /\ r \in Yield[t] \ found[t]
  /\ \/ r \in Node /\ AddNode(r)
     \/ r \in Edge /\ AddEdge(r)
  /\ found' = [found EXCEPT ![t] = @ \cup {r}]
  /\ UNCHANGED <<pc, plan, todo, worker, sig, stopSeen, output, crashes, trusted, ckptVars>>

\* ProcessTarget adds a record; an edge comes after the nodes it joins.
Emit(t, r) ==
  /\ worker[t] = "running" /\ r \in Yield[t] \ found[t]
  /\ \/ r \in Node /\ AddNode(r)
     \/ r \in Edge /\ Ends[r] \subseteq found[t] /\ AddEdge(r)
  /\ found' = [found EXCEPT ![t] = @ \cup {r}]
  /\ UNCHANGED <<pc, plan, todo, worker, sig, stopSeen, output, crashes, trusted, ckptVars>>

\* ProcessTarget returns; after an error or a host timeout, early.
Return(t) ==
  /\ worker[t] = "running"
  /\ found[t] = Yield[t] \/ "scan" \in Events
  /\ worker' = [worker EXCEPT ![t] = "returned"]
  /\ UNCHANGED <<pc, plan, todo, found, sig, stopSeen, output, crashes, trusted,
                 ckptVars, storeVars>>

Mark(t) ==
  /\ worker[t] = "returned"
  /\ MarkTargetProcessed(t)
  /\ worker' = [worker EXCEPT ![t] = "marked"]
  /\ UNCHANGED <<pc, plan, todo, found, sig, stopSeen, output, crashes, trusted>>

\* The deferred semaphore release, then wg.Done.
Finish(t) ==
  /\ worker[t] = "marked"
  /\ worker' = [worker EXCEPT ![t] = "finished"]
  /\ UNCHANGED <<pc, plan, todo, found, sig, stopSeen, output, crashes, trusted,
                 ckptVars, storeVars>>

-----------------------------------------------------------------------------
(* The signal goroutine: one signal, a trigger, a close.  Later signals stay *)
(* in sigChan and have no effect.                                            *)

Alive == pc \notin {"boot", "done", "exited"}

Signal ==
  /\ Alive /\ sig = "waiting" /\ "signal" \in Events
  /\ sig' = "received"
  /\ UNCHANGED <<pc, plan, todo, worker, found, stopSeen, output, crashes, trusted,
                 ckptVars, storeVars>>

SignalTrigger ==
  /\ Alive /\ sig = "received"
  /\ TriggerSave
  /\ sig' = "triggered"
  /\ UNCHANGED <<pc, plan, todo, worker, found, stopSeen, output, crashes, trusted>>

SignalClose ==
  /\ Alive /\ sig = "triggered"
  /\ sig' = "closed"
  /\ UNCHANGED <<pc, plan, todo, worker, found, stopSeen, output, crashes, trusted,
                 ckptVars, storeVars>>

-----------------------------------------------------------------------------
\* The process is killed, or has exited with an error, and is started again:
\* what lives in the process is as it was before run().
\* The history `found' of a target whose mark is lost is cleared by Resume.
Crash ==
  /\ pc = "exited" \/ (pc # "done" /\ "crash" \in Events)
  /\ crashes < MaxCrashes
  /\ crashes' = crashes + 1
  /\ pc' = "boot" /\ plan' = {} /\ todo' = {}
  /\ worker' = [t \in Target |-> "none"]
  /\ sig' = "waiting" /\ stopSeen' = FALSE
  /\ processedTargets' = {}
  /\ saver' = "off" /\ finalSave' = FALSE /\ cp' = EmptyRecord
  /\ saveChan' = FALSE /\ stopping' = FALSE
  /\ nodeFile' = {} /\ nodeBuf' = {} /\ edgeFile' = {} /\ edgeBuf' = {}
  /\ UNCHANGED <<found, output, trusted, fileVars>>

\* run() has returned, or the process has died once more than the bound.
Terminated ==
  /\ pc = "done" \/ (pc = "exited" /\ crashes = MaxCrashes)
  /\ UNCHANGED vars

Saver == Alive /\ SaverStep /\ UNCHANGED mainVars

MainStep ==
  \/ Resume \/ LoadFails \/ CheckStop \/ (\E t \in Loaded : Spawn(t))
  \/ DispatchEnds \/ StopManager \/ ManagerStopped
  \/ BeginExport \/ EndExport \/ ExportFails \/ Cleanup

WorkerStep(t) ==
  \/ \E r \in Yield[t] : Emit(t, r)
  \/ Return(t) \/ Mark(t) \/ Finish(t)

SignalStep == SignalTrigger \/ SignalClose

Next ==
  \/ MainStep
  \/ \E t \in Loaded : WorkerStep(t)
  \/ Saver
  \/ Signal \/ SignalStep
  \/ Crash
  \/ Terminated

Spec == Init /\ [][Next]_vars

-----------------------------------------------------------------------------
(* Fairness.  A goroutine that can run does run.  The select of the saver   *)
(* chooses at random among the cases that are ready, so a case that is      *)
(* ready again and again is chosen at last, whatever the ticker does.       *)
(* Crashes, signals and ticks are never promised.                           *)

SaverFairness ==
  /\ WF_vars(Alive /\ SaveStep /\ UNCHANGED mainVars)
  /\ SF_vars(Alive /\ WakeOnStop /\ UNCHANGED mainVars)
  /\ SF_vars(Alive /\ WakeOnTrigger /\ UNCHANGED mainVars)

LiveSpec ==
  /\ Spec
  /\ WF_vars(MainStep)
  /\ \A t \in Loaded : WF_vars(WorkerStep(t))
  /\ SaverFairness

\* No host timeout is configured and any host may hang for ever: only the
\* saver and the signal goroutine are sure to run.
HungSpec == Spec /\ SaverFairness /\ WF_vars(SignalStep)

-----------------------------------------------------------------------------
(* Properties. *)

Records(file) == file.nodes \cup file.edges

\* The file is never a partial one, and a checkpoint that names a target holds
\* everything that target emitted, whatever was running while it was saved:
\* saveCheckpoint copies the processed set before it reads the graph, and writes
\* to a temporary file.  --resume skips the targets it names.  Only a read that
\* failed, in this save or in one that the scan was resumed from, takes that
\* away, and nothing tells the user (opengraph.go:453, 457, 467, 471).
CheckpointSound ==
  ckptFile # NoFile =>
    /\ ckptFile # Torn
    /\ trusted /\ ckptFile.whole =>
         \A t \in ckptFile.processed : found[t] \subseteq Records(ckptFile)

\* No target of the list is left out of a finished export, and it holds
\* everything emitted for each target that this start has scanned, whatever its
\* saves have missed.  Of the targets that were scanned before a crash and only
\* came back from the checkpoint it holds everything too, unless the scan was
\* resumed from a checkpoint that a failed read had left short.
ExportComplete ==
  pc \in {"cleanup", "done"} =>
    /\ Loaded \subseteq processedTargets
    /\ \A t \in processedTargets :
         trusted \/ t \in plan => found[t] \subseteq Records(output)

\* The export may have an edge to a node that it lacks: GetNodesAndEdges is no
\* consistent cut, so a checkpoint may hold an edge whose node was added after the
\* node file was read, and after a crash the attempt that repeats the target may
\* end before it finds the node again.  This is the only way: no such edge without
\* a crash, and none that the last attempt of any target has emitted (the targets
\* that came back from a checkpoint with a failed read excepted).
ExportClosed ==
  pc \in {"cleanup", "done"} =>
    \A e \in Dangling(output.nodes, output.edges) :
      /\ crashes > 0
      /\ \A t \in Target : trusted \/ t \in plan => e \notin found[t]

\* Once wg.Wait and cpManager.Stop have returned, the checkpoint on disk names
\* every target and, if its reads went well, holds the whole scan: no mark and no
\* record came after the last save.
FinalSaveComplete ==
  pc \in {"export", "streaming", "cleanup"} =>
    /\ Loaded \subseteq processedTargets
    /\ ckptFile # NoFile /\ ckptFile.processed = processedTargets
    /\ ckptFile.whole => ckptFile.nodes = nodeIDs /\ ckptFile.edges = edgeKeys

\* However often the scan was interrupted and resumed: when the export is done the
\* checkpoint is deleted exactly if this start found nothing to scan or no target but
\* those of this list was ever marked.  The code compares two counts.  So after a
\* resume from the checkpoint of another list a scan that is over is not recognised:
\* main.go:468 announces the cleanup "on successful completion", and the user is told
\* to resume instead.
CompleteIsRecognised ==
  pc = "cleanup" => (Complete <=> plan = {} \/ processedTargets \subseteq Loaded)

\* Across saves, crashes and resumed runs the checkpoint never forgets a target, and
\* no record either if the reads of the new save went well; it is deleted only when
\* the output file holds all that was in it.
Covers(new, old) == old.nodes \subseteq new.nodes /\ old.edges \subseteq new.edges

CheckpointNeverRegresses ==
  [][ckptFile \notin {NoFile, ckptFile'} =>
       IF ckptFile' = NoFile
       THEN output # Torn /\ Covers(output, ckptFile)
       ELSE /\ ckptFile'.whole => Covers(ckptFile', ckptFile)
            /\ ckptFile.processed \subseteq ckptFile'.processed]_vars

\* If the process does not die for ever, the scan comes to its end: the workers,
\* wg.Wait, the saver and Stop never wait on each other.
ScanCompletes == <>(pc = "done")

\* What is finished when the signal arrives is on disk in the end, even if every
\* other target hangs (unless the process dies first): the trigger is never lost
\* to a saver that is busy.
Saved(t) == ckptFile # NoFile /\ t \in ckptFile.processed

SignalSaves ==
  \A t \in Loaded :
    (sig = "received" /\ t \in processedTargets)
      ~> (Saved(t) \/ pc \in {"boot", "exited", "done"})

\* main.go: "// Check for stop signal" and "Stop signal received, waiting for
\* current tasks to complete...": the loop starts no target after that line.
StopHaltsDispatch ==
  [][stopSeen => todo' = todo]_vars

-----------------------------------------------------------------------------
(* Scan implements DurableScan.  A target is safe when the checkpoint names  *)
(* it and holds its records, or when the process has ended with all of them  *)
(* in the export.                                                            *)

SafeTargets ==
  IF pc = "done"
  THEN {t \in Loaded : found[t] \subseteq Records(output)}
  ELSE IF ckptFile \in {NoFile, Torn} THEN {}
       ELSE {t \in Loaded \cap ckptFile.processed :
               found[t] \subseteq Records(ckptFile)}

\* What is on disk is not the product of a save with a failed read.
DiskWhole == ckptFile \notin {NoFile, Torn} => ckptFile.whole

Durable == INSTANCE DurableScan
  WITH safe <- SafeTargets, whole <- DiskWhole, complete <- (pc = "done")

DurableSpec == Durable!Spec
=============================================================================
