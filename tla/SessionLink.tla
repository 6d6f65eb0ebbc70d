----------------------------- MODULE SessionLink -----------------------------
(***************************************************************************)
(* What ConnectionPool takes an smb.SMBSession to be: the life of one TCP  *)
(* connection, which serves requests only while it is up.  SmbSession      *)
(* implements it.                                                          *)
(***************************************************************************)
VARIABLES
  link,    \* as in ConnectionPool, from NewSession on
  served   \* the current call has an answer of the server

vars == <<link, served>>

Init == link = "dialing" /\ served = FALSE

Dialed        == link = "dialing" /\ link' = "auth" /\ UNCHANGED served
Authenticated == link = "auth" /\ link' = "up" /\ UNCHANGED served
Closed        == link \in {"dialing", "auth", "up"} /\ link' = "closed" /\ UNCHANGED served
Serve         == link = "up" /\ served' = TRUE /\ UNCHANGED link
NextCall      == served' = FALSE /\ UNCHANGED link

Next == Dialed \/ Authenticated \/ Closed \/ Serve \/ NextCall

Spec == Init /\ [][Next]_vars
=============================================================================
