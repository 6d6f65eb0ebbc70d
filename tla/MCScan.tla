------------------------------- MODULE MCScan --------------------------------
(***************************************************************************)
(* Instances of Scan for TLC.  The node h is common to both targets, so    *)
(* either finds it already in the store, in the buffer or in the file; one *)
(* of them emits an edge that needs it.                                    *)
(***************************************************************************)
EXTENDS Scan, TLC

CONSTANTS t0, t1, t2, h, e0, e1

MCTarget  == {t1, t2}
MCNode    == {h}
MCEdge    == {e1}
MCEnds    == [e \in MCEdge |-> {h}]
MCYield   == t1 :> {h, e1} @@ t2 :> {h}

\* A checkpoint of an earlier target list is on disk when the scan starts.
MCTargetEarlier == {t0, t1, t2}
MCEdgeEarlier   == {e0, e1}
MCEndsEarlier   == [e \in MCEdgeEarlier |-> {h}]
MCYieldEarlier  == t0 :> {h, e0} @@ t1 :> {h, e1} @@ t2 :> {h}

AllEvents   == Event \ {"signal"}
LiveEvents  == {"crash", "save"}
SignalEvents == {"signal", "scan"}
=============================================================================
