--------------------------- MODULE ConnectionPool ----------------------------
(***************************************************************************)
(* worker.ConnectionPool (Go/internal/worker/pool.go) of one host and the  *)
(* life of its smb.SMBSessions (Go/internal/smb/session.go), as far as the *)
(* pool and the host timeout are concerned.                                *)
(*                                                                         *)
(* A goroutine calls GetConnection once and creates at most one session,   *)
(* so a session bears the name of the goroutine that created it.           *)
(*                                                                         *)
(* GetConnection is several steps: it drops p.mu to ping a pooled session, *)
(* to close a dead one and to connect a new one, and the host timeout may  *)
(* close everything in between.  The operators leave to HostScan where     *)
(* each goroutine is; they prime all of poolVars.                          *)
(***************************************************************************)
EXTENDS Naturals, FiniteSets

CONSTANTS
  Proc,                  \* the goroutines of one host
  NoSession,             \* held by a goroutine that has no session
  maxConnectionsPerHost  \* also the number of permits of the host semaphore

ASSUME PoolAssumption ==
  /\ IsFiniteSet(Proc) /\ NoSession \notin Proc
  /\ maxConnectionsPerHost \in Nat \ {0}

VARIABLES
  link,         \* per session: its TCP connection
  connections,  \* the pooled sessions; which of them is reused is left open
  active,       \* activeConnections: those ForceCloseAll knows to be in use
  held          \* per goroutine: the session it was given or is connecting

poolVars == <<link, connections, active, held>>

\* none: not created.  dialing: SMBSession.conn is nil.  auth: conn is set,
\* DialConn is running.  up: connected.  closed: the TCP connection is closed.
LinkState == {"none", "dialing", "auth", "up", "closed"}

PoolTypeOK ==
  /\ link \in [Proc -> LinkState]
  /\ connections \in SUBSET Proc
  /\ active \in SUBSET Proc
  /\ held \in [Proc -> Proc \cup {NoSession}]

PoolInit ==
  /\ link = [s \in Proc |-> "none"]
  /\ connections = {} /\ active = {}
  /\ held = [p \in Proc |-> NoSession]

-----------------------------------------------------------------------------
(* GetConnection. *)

\* Mutant: the reused session stays in the pool.
TakePooledShared(p) ==
  \E s \in connections :
    /\ held' = [held EXCEPT ![p] = s]
    /\ active' = active \cup {s}
    /\ UNCHANGED <<link, connections>>

\* A pooled session is taken out and is active while it is pinged.
TakePooled(p) ==
  \E s \in connections :
    /\ held' = [held EXCEPT ![p] = s]
    /\ active' = active \cup {s}
    /\ connections' = connections \ {s}
    /\ UNCHANGED link

\* It did not answer: no longer active, about to be closed.
ForgetDead(p) ==
  /\ active' = active \ {held[p]}
  /\ UNCHANGED <<link, connections, held>>

\* SMBSession.Close of the session a goroutine holds.
CloseHeld(p) ==
  /\ link' = [link EXCEPT ![held[p]] = "closed"]
  /\ held' = [held EXCEPT ![p] = NoSession]
  /\ UNCHANGED <<connections, active>>

\* NewSMBSession, tracked as active before Connect.
NewSession(p) ==
  /\ link' = [link EXCEPT ![p] = "dialing"]
  /\ held' = [held EXCEPT ![p] = p]
  /\ active' = active \cup {p}
  /\ UNCHANGED connections

\* Connect: the TCP connection is there.
Dialed(p) ==
  /\ link' = [link EXCEPT ![p] = "auth"]
  /\ UNCHANGED <<connections, active, held>>

\* Mutant: Connect makes a session usable again that was closed under it.
AuthenticatedAnew(p) ==
  /\ link' = [link EXCEPT ![p] = "up"]
  /\ UNCHANGED <<connections, active, held>>

\* DialConn returns a session.  One that was closed under it stays closed.
Authenticated(p) ==
  /\ link' = [link EXCEPT ![p] = IF @ = "closed" THEN @ ELSE "up"]
  /\ UNCHANGED <<connections, active, held>>

ConnectFails(p) ==
  /\ link' = [link EXCEPT ![p] = "closed"]
  /\ active' = active \ {p}
  /\ held' = [held EXCEPT ![p] = NoSession]
  /\ UNCHANGED connections

-----------------------------------------------------------------------------
\* The session is pooled, closed or not; a full pool closes it instead.
ReturnConnection(p) ==
  /\ active' = active \ {held[p]}
  /\ held' = [held EXCEPT ![p] = NoSession]
  /\ IF Cardinality(connections) < maxConnectionsPerHost
     THEN connections' = connections \cup {held[p]} /\ UNCHANGED link
     ELSE link' = [link EXCEPT ![held[p]] = "closed"] /\ UNCHANGED connections

\* One session of CloseAll, which holds p.mu until none is left.
CloseOne(s) ==
  /\ link' = [link EXCEPT ![s] = "closed"]
  /\ connections' = connections \ {s}
  /\ UNCHANGED <<active, held>>

\* ForceClose closes SMBSession.conn; a session that is dialing has none yet.
\* Both maps are emptied whatever the state of the sessions in them.
ForceCloseAll ==
  /\ link' = [s \in Proc |->
                IF s \in active \cup connections /\ link[s] \in {"auth", "up"}
                THEN "closed" ELSE link[s]]
  /\ active' = {} /\ connections' = {}
  /\ UNCHANGED held
=============================================================================
