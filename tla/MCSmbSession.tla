---------------------------- MODULE MCSmbSession -----------------------------
(* Instances of SmbSession for TLC. *)
EXTENDS SmbSession

CONSTANTS s1, s2, nil

Shares      == {s1, s2}
Everywhere  == Fallback
=============================================================================
