------------------------------ MODULE OpenGraph ------------------------------
(***************************************************************************)
(* The disk-backed graph store of Go/internal/graph/opengraph.go.          *)
(*                                                                         *)
(* A record (node or edge) is appended to a bufio.Writer over a temporary  *)
(* NDJSON file.  The in-memory index of identities (nodeIDs, edgeKeys)     *)
(* deduplicates; the records themselves are in the buffer or in the file.  *)
(* A reader opens the file by name, so it sees the flushed part only.      *)
(*                                                                         *)
(* The module owns its four variables; the operators below prime exactly   *)
(* those four, so that a composing module adds its own UNCHANGED.  Every   *)
(* mutator of the source runs under OpenGraph.mu: one operator, one step.  *)
(***************************************************************************)

CONSTANTS
  Node,      \* identities of nodes (Node.ID)
  Edge,      \* identities of edges (edgeKey: both endpoints and the kind)
  Ends       \* [Edge -> SUBSET Node]: the endpoints that this tool emits itself

ASSUME GraphAssumption ==
  /\ Node \cap Edge = {}
  /\ Ends \in [Edge -> SUBSET Node]

VARIABLES
  nodeFile,  \* records of the node file that have reached the file
  nodeBuf,   \* records still in nodeBuf, the bufio.Writer
  edgeFile,
  edgeBuf

storeVars == <<nodeFile, nodeBuf, edgeFile, edgeBuf>>

nodeIDs  == nodeFile \cup nodeBuf
edgeKeys == edgeFile \cup edgeBuf

StoreTypeOK ==
  /\ nodeFile \in SUBSET Node /\ nodeBuf \in SUBSET Node
  /\ edgeFile \in SUBSET Edge /\ edgeBuf \in SUBSET Edge

StoreInit ==
  nodeFile = {} /\ nodeBuf = {} /\ edgeFile = {} /\ edgeBuf = {}

(***************************************************************************)
(* AddNode / AddEdge.  A known identity is ignored.  A new record goes to  *)
(* the buffer; when the buffer is full, bufio first writes out what it     *)
(* holds (a torn last line is one the reader cannot decode, i.e. a record  *)
(* that is still in the buffer).  A record that ends where the buffer does *)
(* goes out whole, and only its newline waits.                             *)
(***************************************************************************)
AddNode(n) ==
  /\ UNCHANGED <<edgeFile, edgeBuf>>
  /\ \/ n \in nodeIDs /\ UNCHANGED <<nodeFile, nodeBuf>>
     \/ /\ n \notin nodeIDs
        /\ \/ nodeBuf' = nodeBuf \cup {n} /\ UNCHANGED nodeFile
           \/ nodeBuf' = {n} /\ nodeFile' = nodeFile \cup nodeBuf
           \/ nodeBuf' = {} /\ nodeFile' = nodeFile \cup nodeBuf \cup {n}

AddEdge(e) ==
  /\ UNCHANGED <<nodeFile, nodeBuf>>
  /\ \/ e \in edgeKeys /\ UNCHANGED <<edgeFile, edgeBuf>>
     \/ /\ e \notin edgeKeys
        /\ \/ edgeBuf' = edgeBuf \cup {e} /\ UNCHANGED edgeFile
           \/ edgeBuf' = {e} /\ edgeFile' = edgeFile \cup edgeBuf
           \/ edgeBuf' = {} /\ edgeFile' = edgeFile \cup edgeBuf \cup {e}

\* Both writers are flushed under the lock: GetNodesAndEdges and
\* ExportToFileWithProgress begin with this.
FlushBoth ==
  /\ nodeFile' = nodeFile \cup nodeBuf /\ nodeBuf' = {}
  /\ edgeFile' = edgeFile \cup edgeBuf /\ edgeBuf' = {}

\* RestoreNodesAndEdges: both files are truncated, the maps reset, and the
\* checkpoint's records appended again; how many spill is up to their size.
RestoreNodesAndEdges(nodes, edges) ==
  /\ nodeFile' \in SUBSET nodes /\ nodeBuf' = nodes \ nodeFile'
  /\ edgeFile' \in SUBSET edges /\ edgeBuf' = edges \ edgeFile'

\* Edges of a snapshot that point at a node the snapshot does not hold.
Dangling(nodes, edges) == {e \in edges : ~ Ends[e] \subseteq nodes}
=============================================================================
