------------------------------ MODULE MCHostScan -----------------------------
(***************************************************************************)
(* Instances of HostScan for TLC.  The shares of a host differ in nothing  *)
(* that the model tells apart.                                             *)
(***************************************************************************)
EXTENDS HostScan, TLC

CONSTANTS s1, s2, s3, main

ThreeShares == {s1, s2, s3}
ThreeProcs  == ThreeShares \cup {main}
TwoShares  == {s1, s2}
TwoProcs   == TwoShares \cup {main}

ReadsHang   == {"list", "ping", "work"}
ClosesHang  == {"close"}
=============================================================================
