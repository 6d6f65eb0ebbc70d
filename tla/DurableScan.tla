----------------------------- MODULE DurableScan -----------------------------
(***************************************************************************)
(* What a resumable scan promises, without goroutines, files or crashes:   *)
(* targets become safe, a safe target stays safe, and the scan is complete *)
(* only with every target safe.                                            *)
(*                                                                         *)
(* The promise has one exception.  A save may be short, and nobody is told.*)
(* A short save is made good by the next that is not, unless the scan is   *)
(* started again from it: from then on nothing is promised.                *)
(***************************************************************************)
CONSTANT Loaded

VARIABLES
  safe,      \* targets whose results would survive the loss of the process
  whole,     \* the last save was not a short one
  trusted,   \* the scan was never started again from a short save
  complete

durableVars == <<safe, whole, trusted, complete>>

Init == safe = {} /\ whole = TRUE /\ trusted = TRUE /\ complete = FALSE

\* A save makes more targets safe, any number at once.
Save ==
  /\ ~complete
  /\ whole' = TRUE
  /\ safe' \in {S \in SUBSET Loaded : trusted => safe \subseteq S}
  /\ UNCHANGED <<trusted, complete>>

ShortSave ==
  /\ ~complete
  /\ whole' = FALSE
  /\ safe' \in SUBSET Loaded
  /\ UNCHANGED <<trusted, complete>>

Restart ==
  /\ ~complete
  /\ trusted' = (trusted /\ whole)
  /\ UNCHANGED <<safe, whole, complete>>

Finish ==
  /\ safe' \in {S \in SUBSET Loaded : trusted => S = Loaded}
  /\ whole' \in BOOLEAN
  /\ complete' = TRUE
  /\ UNCHANGED trusted

Next == Save \/ ShortSave \/ Restart \/ Finish

Spec == Init /\ [][Next]_durableVars
=============================================================================
