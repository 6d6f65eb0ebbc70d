---------------------------- MODULE HostScanProofs ---------------------------
(***************************************************************************)
(* Theorems about HostScan, for every host, whatever its shares, and every *)
(* limit of connections.                                                   *)
(*                                                                         *)
(* None of the properties is inductive.  That a session in use is within   *)
(* reach of the timeout rests on where its goroutine was when the timeout  *)
(* emptied activeConnections; that nothing stays open rests on every open  *)
(* session being pooled or held.  HostInv says this; the bound on the      *)
(* connections (RoomInv) and the counters (CountInv) build on it.          *)
(***************************************************************************)
EXTENDS HostScan, FiniteSetTheorems, TLAPS

\* The places where a goroutine has created no session, where it holds one
\* that is connected or was, and where it holds the one it is connecting.
Fresh == {"start", "resolve", "resolved", "probe", "probed", "get", "pinging",
          "dropping", "create", "idle", "waiting", "acquired"}
Settled == {"pinging", "dropping", "got", "listing", "working"}
Connecting == {"dialing", "auth"}

\* Main: before the shares are known, before their goroutines, and afterwards.
Before == GetState \cup {"start", "resolve", "resolved", "probe", "probed",
                         "failed", "listing"}
Ended == {"unwind", "stopping", "closing", "returned"}

HostType ==
  /\ PoolTypeOK
  /\ pc \in [Proc -> MainState \cup ShareState \cup GetState]
  /\ pc[Main] \in MainState \cup GetState
  /\ \A s \in Share : pc[s] \in ShareState \cup GetState
  /\ shares \in SUBSET Share
  /\ timer \in TimerState
  /\ timeoutFlag \in BOOLEAN
  /\ watcher \in {"none", "watching", "gone"}
  /\ cancelled \in BOOLEAN

HoldInv ==
  \A p \in Proc : held[p] # NoSession <=> pc[p] \in Settled \cup Connecting

\* The connection of a session, from where the goroutines are.
LinkInv ==
  /\ \A s \in connections : link[s] \in {"up", "closed"}
  /\ \A p \in Proc :
       /\ pc[p] \in Fresh => link[p] = "none"
       /\ pc[p] \in Settled => link[held[p]] \in {"up", "closed"}
       /\ pc[p] \in Connecting => held[p] = p
       /\ pc[p] = "dialing" => link[p] = "dialing"
       /\ pc[p] = "auth" => link[p] \in {"auth", "closed"}

\* Nothing is closed by force before the flag is set.
TimerInv == timer \in {"off", "armed", "stopped"} \/ timeoutFlag

\* A session that is connecting is active, unless the timeout has struck.
ReachInv ==
  \A p \in Proc : pc[p] \in Connecting \cup {"got"} =>
    timeoutFlag \/ held[p] \in active

\* An open session is pooled or held.
OpenInv ==
  \A s \in Proc : link[s] \in {"dialing", "auth", "up"} =>
    s \in connections \/ \E p \in Proc : held[p] = s

\* The goroutines of the shares run only while Main waits for them.
PhaseInv ==
  /\ pc[Main] \in Before => shares = {}
  /\ pc[Main] \in Before \cup {"spawning"} => \A s \in Share : pc[s] = "idle"
  /\ pc[Main] # "join" => \A s \in Share : pc[s] \in {"idle", "done"}
  /\ pc[Main] \in Ended => \A s \in shares : pc[s] = "done"
  /\ pc[Main] \in Ended \cup {"join"} => \A s \in shares : pc[s] # "idle"
  /\ \A s \in Share \ shares : pc[s] = "idle"
  /\ pc[Main] = "returned" => connections = {}

HostInv ==
  /\ HostType /\ HoldInv /\ LinkInv /\ TimerInv /\ ReachInv /\ OpenInv /\ PhaseInv
  /\ SessionsNotShared /\ InUseIsReachable

-----------------------------------------------------------------------------
(* HostInv is inductive. *)

LEMMA InitHostInv == Init => HostInv
<1> SUFFICES ASSUME Init PROVE HostInv
  OBVIOUS
<1> USE HostAssumption, PoolAssumption DEF Init, PoolInit
<1>1. HostType
  BY DEF HostType, PoolTypeOK, LinkState, MainState, ShareState, GetState,
         TimerState
<1>2. HoldInv /\ SessionsNotShared /\ ReachInv /\ InUseIsReachable
  BY DEF HoldInv, SessionsNotShared, ReachInv, InUseIsReachable, Settled,
         Connecting
<1>3. LinkInv /\ OpenInv /\ TimerInv
  BY DEF LinkInv, OpenInv, TimerInv, Fresh, Settled, Connecting
<1>4. PhaseInv
  BY DEF PhaseInv, Before, Ended, GetState
<1> QED
  BY <1>1, <1>2, <1>3, <1>4 DEF HostInv

\* GetConnection, with a timeout or another goroutine between its steps.
LEMMA GetHostInv ==
  ASSUME HostInv, NEW p \in Proc, GetStep(p)
  PROVE  HostInv'
<1> USE HostAssumption, PoolAssumption
    DEF HostInv, HostType, HoldInv, LinkInv, TimerInv, ReachInv, OpenInv,
        PhaseInv, SessionsNotShared, InUseIsReachable, PoolTypeOK, LinkState,
        MainState, ShareState, GetState, Fresh, Settled, Connecting, Before,
        Ended, Goto, poolVars, timerVars, semVars
<1>1. CASE Get(p)
  BY <1>1 DEF Get, TakePooled
<1>2. CASE PingAnswers(p)
  BY <1>2 DEF PingAnswers
<1>3. CASE PingFails(p)
  BY <1>3 DEF PingFails, ForgetDead
<1>4. CASE Drop(p)
  BY <1>4 DEF Drop, CloseHeld
<1>5. CASE Create(p)
  BY <1>5 DEF Create, NewSession
<1>6. CASE Dial(p)
  BY <1>6 DEF Dial, Dialed
<1>7. CASE Authenticate(p)
  BY <1>7 DEF Authenticate, Authenticated
<1>8. CASE GetFails(p)
  BY <1>8 DEF GetFails, ConnectFails
<1>9. CASE UseSession(p)
  BY <1>9 DEF UseSession, ReturnConnection
<1> QED
  BY <1>1, <1>2, <1>3, <1>4, <1>5, <1>6, <1>7, <1>8, <1>9 DEF GetStep

LEMMA MainHostInv ==
  ASSUME HostInv, MainStep
  PROVE  HostInv'
<1> USE HostAssumption, PoolAssumption
    DEF HostInv, HostType, HoldInv, LinkInv, TimerInv, ReachInv, OpenInv,
        PhaseInv, SessionsNotShared, InUseIsReachable, PoolTypeOK, LinkState,
        MainState, ShareState, GetState, TimerState, Fresh, Settled, Connecting,
        Before, Ended, Goto, poolVars, timerVars, semVars
<1>1. CASE Start
  BY <1>1 DEF Start
<1>2. CASE Resolve \/ CheckTimeout
  BY <1>2 DEF Resolve, CheckTimeout
<1>3. CASE CountError
  BY <1>3 DEF CountError
<1>4. CASE ListFails
  BY <1>4 DEF ListFails, ReturnConnection
<1>5. CASE ListShares
  <2>1. PICK found \in SUBSET Share :
          /\ shares' = found
          /\ Goto(Main, IF Cardinality(found) > 0 THEN "spawning" ELSE "unwind")
    BY <1>5 DEF ListShares
  <2>2. found # {} => Cardinality(found) > 0
    BY FS_Subset, FS_EmptySet, FS_CardinalityType, Share \subseteq Proc
  <2> QED
    BY <1>5, <2>1, <2>2 DEF ListShares, ReturnConnection
<1>6. CASE Spawn
  BY <1>6 DEF Spawn
<1>7. CASE Join
  BY <1>7 DEF Join
<1>8. CASE Unwind
  BY <1>8 DEF Unwind
<1>9. CASE StopTimer
  BY <1>9 DEF StopTimer
<1>10. CASE CloseAll
  BY <1>10 DEF CloseAll, CloseOne
<1>11. CASE Return
  BY <1>11 DEF Return
<1>12. CASE GetStep(Main)
  BY <1>12, GetHostInv
<1> QED
  BY <1>1, <1>2, <1>3, <1>4, <1>5, <1>6, <1>7, <1>8, <1>9, <1>10, <1>11, <1>12
     DEF MainStep

LEMMA ShareHostInv ==
  ASSUME HostInv, NEW s \in Share, ShareStep(s)
  PROVE  HostInv'
<1> USE HostAssumption, PoolAssumption
    DEF HostInv, HostType, HoldInv, LinkInv, TimerInv, ReachInv, OpenInv,
        PhaseInv, SessionsNotShared, InUseIsReachable, PoolTypeOK, LinkState,
        MainState, ShareState, GetState, Fresh, Settled, Connecting, Before,
        Ended, Goto, poolVars, timerVars, semVars
<1>1. CASE Acquire(s)
  BY <1>1 DEF Acquire
<1>2. CASE AcquireFails(s)
  BY <1>2 DEF AcquireFails
<1>3. CASE SkipShare(s)
  BY <1>3 DEF SkipShare
<1>4. CASE EnterShare(s)
  BY <1>4 DEF EnterShare
<1>5. CASE Explored(s)
  BY <1>5 DEF Explored, ReturnConnection
<1>6. CASE LeaveShare(s)
  BY <1>6 DEF LeaveShare
<1>7. CASE GetStep(s)
  BY <1>7, GetHostInv
<1> QED
  BY <1>1, <1>2, <1>3, <1>4, <1>5, <1>6, <1>7 DEF ShareStep

\* The timeout closes the sessions under the goroutines that use them.
LEMMA ForceHostInv ==
  ASSUME HostInv, TimerForces \/ Tick
  PROVE  HostInv'
<1> USE DEF HostInv, HostType, PoolTypeOK, poolVars, timerVars, semVars
<1>1. ForceCloseAll /\ timeoutFlag /\ UNCHANGED <<pc, shares, timeoutFlag, semVars>>
  BY DEF TimerForces, Tick, TimerInv
<1> USE <1>1 DEF ForceCloseAll
<1>2. HostType'
  BY DEF TimerForces, Tick, TimerState, LinkState
<1>3. HoldInv' /\ SessionsNotShared'
  BY DEF HoldInv, SessionsNotShared
<1>4. LinkInv'
  BY DEF LinkInv, HoldInv, Fresh, Settled, Connecting
<1>5. TimerInv' /\ ReachInv'
  BY DEF TimerInv, ReachInv
<1>6. OpenInv'
  BY DEF OpenInv, HoldInv, LinkInv
<1>7. InUseIsReachable'
  BY DEF InUseIsReachable, LinkInv, HoldInv, Settled
<1>8. PhaseInv'
  BY DEF PhaseInv
<1> QED
  BY <1>2, <1>3, <1>4, <1>5, <1>6, <1>7, <1>8

LEMMA TimeoutHostInv ==
  ASSUME HostInv, TimerStep \/ Tick \/ Watch
  PROVE  HostInv'
<1>1. CASE TimerForces \/ Tick
  BY <1>1, ForceHostInv
<1>2. CASE TimerFires \/ StartTicker \/ Watch
  <2> USE <1>2 DEF TimerFires, StartTicker, Watch, poolVars, timerVars, semVars
  <2>1. HostType'
    BY DEF HostInv, HostType, PoolTypeOK, TimerState
  <2>2. HoldInv' /\ LinkInv' /\ SessionsNotShared' /\ OpenInv' /\ InUseIsReachable'
    BY DEF HostInv, HoldInv, LinkInv, SessionsNotShared, OpenInv, InUseIsReachable
  <2>3. TimerInv' /\ ReachInv'
    BY DEF HostInv, HostType, TimerInv, ReachInv
  <2>4. PhaseInv'
    BY DEF HostInv, PhaseInv
  <2> QED
    BY <2>1, <2>2, <2>3, <2>4 DEF HostInv
<1> QED
  BY <1>1, <1>2 DEF TimerStep

LEMMA NextHostInv == HostInv /\ [Next]_vars => HostInv'
<1> SUFFICES ASSUME HostInv, [Next]_vars PROVE HostInv'
  OBVIOUS
<1>1. CASE UNCHANGED vars
  BY <1>1
     DEF vars, poolVars, HostInv, HostType, HoldInv, LinkInv, TimerInv, ReachInv,
         OpenInv, PhaseInv, SessionsNotShared, InUseIsReachable, PoolTypeOK
<1> QED
  BY <1>1, MainHostInv, ShareHostInv, TimeoutHostInv DEF Next, Terminated

LEMMA HostInvariant == Spec => []HostInv
  BY InitHostInv, NextHostInv, PTL DEF Spec

-----------------------------------------------------------------------------
(* The sessions of the host are links. *)

\* No step of GetConnection opens what is closed or skips what comes before.
LEMMA GetLinks ==
  ASSUME HostInv, NEW p \in Proc, GetStep(p), NEW s \in Proc
  PROVE  Session(s)!Next \/ UNCHANGED Session(s)!vars
<1> USE PoolAssumption
    DEF HostInv, HostType, HoldInv, LinkInv, PoolTypeOK, LinkState, Fresh, Settled, Connecting,
        poolVars, Session!Next, Session!vars, Session!Dialed, Session!Authenticated,
        Session!Closed
<1>1. CASE Get(p) \/ PingAnswers(p) \/ PingFails(p)
  BY <1>1 DEF Get, TakePooled, PingAnswers, PingFails, ForgetDead
<1>2. CASE Drop(p)
  BY <1>2 DEF Drop, CloseHeld
<1>3. CASE Create(p)
  BY <1>3 DEF Create, NewSession
<1>4. CASE Dial(p)
  BY <1>4 DEF Dial, Dialed
<1>5. CASE Authenticate(p)
  BY <1>5 DEF Authenticate, Authenticated
<1>6. CASE GetFails(p)
  BY <1>6 DEF GetFails, ConnectFails
<1>7. CASE UseSession(p)
  BY <1>7 DEF UseSession, ReturnConnection
<1> QED
  BY <1>1, <1>2, <1>3, <1>4, <1>5, <1>6, <1>7 DEF GetStep

\* All other steps close sessions or leave them alone.
LEMMA StepLinks ==
  ASSUME HostInv, [Next]_vars, NEW s \in Proc
  PROVE  Session(s)!Next \/ UNCHANGED Session(s)!vars
<1> USE PoolAssumption, HostAssumption
    DEF HostInv, HostType, HoldInv, LinkInv, PoolTypeOK, LinkState, Settled, Connecting,
        poolVars, Session!Next, Session!vars, Session!Closed
<1>1. CASE \E p \in Proc : GetStep(p)
  BY <1>1, GetLinks
<1>2. CASE ListFails \/ ListShares
  <2>1. ReturnConnection(Main) /\ pc[Main] = "listing"
    BY <1>2 DEF ListFails, ListShares
  <2>2. Main \in Proc /\ held[Main] \in Proc /\ link[held[Main]] \in {"up", "closed"}
    BY <2>1
  <2>3. link' = link \/ link' = [link EXCEPT ![held[Main]] = "closed"]
    BY <2>1 DEF ReturnConnection
  <2> QED
    BY <2>2, <2>3
<1>3. CASE CloseAll
  BY <1>3 DEF CloseAll, CloseOne
<1>4. CASE \/ Start \/ Resolve \/ CheckTimeout \/ CountError \/ Spawn \/ Join
           \/ Unwind \/ StopTimer \/ Return
  BY <1>4 DEF Start, Resolve, CheckTimeout, CountError, Spawn, Join, Unwind, StopTimer, Return
<1>5. CASE \E t \in Share : Explored(t)
  BY <1>5 DEF Explored, ReturnConnection
<1>6. CASE \E t \in Share : \/ Acquire(t) \/ AcquireFails(t) \/ SkipShare(t)
                             \/ EnterShare(t) \/ LeaveShare(t)
  BY <1>6 DEF Acquire, AcquireFails, SkipShare, EnterShare, LeaveShare
<1>7. CASE TimerForces \/ Tick
  BY <1>7 DEF TimerForces, Tick, ForceCloseAll
<1>8. CASE TimerFires \/ StartTicker \/ Watch \/ Terminated \/ UNCHANGED vars
  BY <1>8 DEF TimerFires, StartTicker, Watch, Terminated, vars
<1> QED
  BY <1>1, <1>2, <1>3, <1>4, <1>5, <1>6, <1>7, <1>8
     DEF Next, MainStep, ShareStep, TimerStep

\* The life of every session of the host: it is dialed, comes up and is closed, each
\* once, whatever GetConnection, ReturnConnection and the timeout do to it meanwhile.
THEOREM SessionsComeUpOnce == Spec => SessionsAreLinks
<1>1. HostInv /\ [Next]_vars
        => [\A s \in Proc : Session(s)!Next \/ UNCHANGED Session(s)!vars]_vars
  BY StepLinks
<1> QED
  BY <1>1, HostInvariant, PTL DEF Spec, SessionsAreLinks

-----------------------------------------------------------------------------
(* The bound on the connections.  A goroutine that found the pool empty is   *)
(* about to connect, so it counts before its session does: what is bounded   *)
(* is the pooled sessions and the goroutines that have or want another.      *)

InFlight == {p \in Proc : pc[p] \in Settled \cup Connecting \cup {"create"}}

RoomInv ==
  /\ Cardinality(connections) + Cardinality(InFlight) <= maxConnectionsPerHost
  /\ Cardinality(PermitHolders) <= maxConnectionsPerHost

LEMMA FiniteSubset ==
  ASSUME NEW S \in SUBSET Proc
  PROVE  IsFiniteSet(S) /\ Cardinality(S) \in Nat
  BY PoolAssumption, FS_Subset, FS_CardinalityType

\* One element moves from one set to the other, at most.
LEMMA SumKept ==
  ASSUME NEW A \in SUBSET Proc, NEW B \in SUBSET Proc,
         NEW C \in SUBSET Proc, NEW D \in SUBSET Proc,
         \/ C \subseteq A /\ D \subseteq B
         \/ \E b \in B, x \in Proc : C \subseteq A \cup {x} /\ D \subseteq B \ {b}
         \/ \E a \in A, x \in Proc : C \subseteq A \ {a} /\ D \subseteq B \cup {x}
  PROVE  Cardinality(C) + Cardinality(D) <= Cardinality(A) + Cardinality(B)
<1>1. \A S, T \in SUBSET Proc : S \subseteq T => Cardinality(S) <= Cardinality(T)
  BY FiniteSubset, FS_Subset
<1>2. \A S \in SUBSET Proc, x \in Proc :
        Cardinality(S \cup {x}) <= Cardinality(S) + 1
  <2> TAKE S \in SUBSET Proc, x \in Proc
  <2>1. IsFiniteSet(S) /\ Cardinality(S) \in Nat
    BY FiniteSubset
  <2>2. Cardinality(S \cup {x}) =
          IF x \in S THEN Cardinality(S) ELSE Cardinality(S) + 1
    BY <2>1, FS_AddElement
  <2> QED
    BY <2>1, <2>2
<1>3. \A S \in SUBSET Proc : \A x \in S :
        Cardinality(S \ {x}) = Cardinality(S) - 1
  BY FiniteSubset, FS_RemoveElement
<1>4. CASE C \subseteq A /\ D \subseteq B
  BY <1>1, <1>4, FiniteSubset
<1>5. ASSUME NEW b \in B, NEW x \in Proc, C \subseteq A \cup {x}, D \subseteq B \ {b}
      PROVE  Cardinality(C) + Cardinality(D) <= Cardinality(A) + Cardinality(B)
  <2>1. Cardinality(C) <= Cardinality(A) + 1
    <3>1. Cardinality(C) <= Cardinality(A \cup {x})
      BY <1>1, <1>5
    <3> QED  BY <3>1, <1>2, FiniteSubset
  <2>2. Cardinality(D) <= Cardinality(B) - 1
    <3>1. Cardinality(D) <= Cardinality(B \ {b})
      BY <1>1, <1>5
    <3> QED  BY <3>1, <1>3
  <2> QED
    BY <2>1, <2>2, FiniteSubset
<1>6. ASSUME NEW b \in A, NEW x \in Proc, C \subseteq A \ {b}, D \subseteq B \cup {x}
      PROVE  Cardinality(C) + Cardinality(D) <= Cardinality(A) + Cardinality(B)
  <2>1. Cardinality(D) <= Cardinality(B) + 1
    <3>1. Cardinality(D) <= Cardinality(B \cup {x})
      BY <1>1, <1>6
    <3> QED  BY <3>1, <1>2, FiniteSubset
  <2>2. Cardinality(C) <= Cardinality(A) - 1
    <3>1. Cardinality(C) <= Cardinality(A \ {b})
      BY <1>1, <1>6
    <3> QED  BY <3>1, <1>3
  <2> QED
    BY <2>1, <2>2, FiniteSubset
<1> QED
  BY <1>4, <1>5, <1>6

LEMMA InitRoomInv == Init => RoomInv
<1> SUFFICES ASSUME Init PROVE RoomInv
  OBVIOUS
<1>1. InFlight = {} /\ PermitHolders = {} /\ connections = {}
  BY HostAssumption
     DEF Init, PoolInit, InFlight, PermitHolders, Settled, Connecting, GetState
<1> QED
  BY <1>1, FS_EmptySet, PoolAssumption DEF RoomInv

\* The permits: only Acquire takes one, and it finds one free.
LEMMA NextPermits ==
  ASSUME HostInv, RoomInv, Next
  PROVE  Cardinality(PermitHolders') <= maxConnectionsPerHost
<1> USE HostAssumption, PoolAssumption DEF HostInv, HostType
<1>1. PermitHolders \in SUBSET Proc /\ PermitHolders' \in SUBSET Proc
  BY DEF PermitHolders
<1>2. ASSUME NEW s \in Share, Acquire(s)
      PROVE  Cardinality(PermitHolders') <= maxConnectionsPerHost
  <2>1. PermitHolders' \subseteq PermitHolders \cup {s}
    BY <1>2 DEF PermitHolders, Acquire, Goto
  <2>2. Cardinality(PermitHolders') + Cardinality({})
          <= Cardinality(PermitHolders) + Cardinality({s})
    BY <1>1, <2>1, SumKept
  <2>3. Cardinality({}) = 0 /\ Cardinality({s}) = 1
    BY FS_EmptySet, FS_Singleton
  <2> QED
    BY <1>1, <1>2, <2>2, <2>3, FiniteSubset DEF Acquire, PermitFree
<1>3. ASSUME PermitHolders' \subseteq PermitHolders
      PROVE  Cardinality(PermitHolders') <= maxConnectionsPerHost
  BY <1>1, <1>3, FS_Subset, FiniteSubset DEF RoomInv
<1>4. ASSUME NEW p \in Proc, GetStep(p)
      PROVE  PermitHolders' \subseteq PermitHolders
  BY <1>4
     DEF PermitHolders, GetState, Goto, GetStep, Get, PingAnswers, PingFails,
         Drop, Create, Dial, Authenticate, GetFails, UseSession
<1>5. CASE MainStep
  <2>1. CASE Spawn
    BY <1>3, <2>1 DEF Spawn, PermitHolders, GetState
  <2>2. CASE GetStep(Main)
    BY <1>3, <1>4, <2>2
  <2>3. CASE ~Spawn /\ ~GetStep(Main)
    <3>1. \A s \in Share : pc'[s] = pc[s]
      BY <1>5, <2>3
         DEF MainStep, Start, Resolve, CheckTimeout, CountError, ListFails,
             ListShares, Join, Unwind, StopTimer, CloseAll, Return, Goto
    <3> QED  BY <1>3, <3>1 DEF PermitHolders
  <2> QED
    BY <2>1, <2>2, <2>3
<1>6. ASSUME NEW s \in Share, ShareStep(s)
      PROVE  Cardinality(PermitHolders') <= maxConnectionsPerHost
  <2>1. CASE AcquireFails(s) \/ SkipShare(s) \/ EnterShare(s) \/ Explored(s)
               \/ LeaveShare(s)
    BY <1>3, <2>1
       DEF PermitHolders, GetState, Goto, AcquireFails, SkipShare, EnterShare,
           Explored, LeaveShare
  <2> QED
    BY <1>2, <1>3, <1>4, <1>6, <2>1 DEF ShareStep
<1>7. CASE TimerStep \/ Tick \/ Watch \/ Terminated
  BY <1>3, <1>7
     DEF PermitHolders, TimerStep, TimerFires, TimerForces, StartTicker, Tick,
         Watch, Terminated, vars
<1> QED
  BY <1>5, <1>6, <1>7 DEF Next

\* Every step of GetConnection but the first that finds the pool empty leaves
\* the sum as it is or makes it smaller.
LEMMA GetRoom ==
  ASSUME HostInv, RoomInv, NEW p \in Proc, GetStep(p)
  PROVE  Cardinality(connections') + Cardinality(InFlight') <= maxConnectionsPerHost
<1> USE HostAssumption, PoolAssumption DEF HostInv, HostType, PoolTypeOK, Goto
<1>1. /\ connections \in SUBSET Proc /\ connections' \in SUBSET Proc
      /\ InFlight \in SUBSET Proc /\ InFlight' \in SUBSET Proc
  BY GetHostInv DEF InFlight
<1>2. ASSUME Cardinality(connections') + Cardinality(InFlight')
               <= Cardinality(connections) + Cardinality(InFlight)
      PROVE  Cardinality(connections') + Cardinality(InFlight') <= maxConnectionsPerHost
  BY <1>1, <1>2, FiniteSubset DEF RoomInv
<1>3. ASSUME connections' \subseteq connections, InFlight' \subseteq InFlight
      PROVE  Cardinality(connections') + Cardinality(InFlight') <= maxConnectionsPerHost
  BY <1>1, <1>2, <1>3, SumKept
<1>4. CASE Get(p) /\ connections # {}
  <2>1. PICK s \in connections : connections' = connections \ {s}
    BY <1>4 DEF Get, TakePooled
  <2>2. InFlight' \subseteq InFlight \cup {p}
    BY <1>4 DEF Get, InFlight
  <2> QED
    BY <1>1, <1>2, <2>1, <2>2, SumKept
<1>5. CASE Get(p) /\ connections = {}
  <2>1. connections' = {} /\ InFlight' \subseteq InFlight \cup {p}
    BY <1>5 DEF Get, InFlight, poolVars
  <2>2. Cardinality(connections') = 0
    BY <2>1, FS_EmptySet
  <2>3. CASE p = Main
    <3>1. InFlight' \subseteq {Main}
      BY <1>5, <2>1, <2>3
         DEF Get, PhaseInv, Before, GetState, InFlight, Settled, Connecting
    <3>2. Cardinality({Main}) = 1
      BY FS_Singleton
    <3>3. Cardinality(InFlight') <= 1
      BY <1>1, <3>1, <3>2, FS_Subset, FiniteSubset
    <3> QED
      BY <1>1, <2>2, <3>3, FiniteSubset
  <2>4. CASE p \in Share
    <3>1. pc[Main] = "join"
      BY <1>5, <2>4 DEF Get, PhaseInv
    <3>2. InFlight' \subseteq PermitHolders'
      BY <1>5, <2>4, <3>1
         DEF Get, InFlight, PermitHolders, GetState, ShareState, Settled, Connecting
    <3>3. PermitHolders' \in SUBSET Proc
      BY DEF PermitHolders
    <3>4. Cardinality(InFlight') <= Cardinality(PermitHolders')
      BY <1>1, <3>2, <3>3, FS_Subset, FiniteSubset
    <3>5. Next
      BY <1>5, <2>4 DEF Next, ShareStep, GetStep
    <3>6. Cardinality(PermitHolders') <= maxConnectionsPerHost
      BY <3>5, NextPermits
    <3> QED
      BY <1>1, <2>2, <3>3, <3>4, <3>6, FiniteSubset
  <2> QED
    BY <2>3, <2>4
<1>6. CASE UseSession(p)
  <2>1. CASE timeoutFlag
    <3>1. /\ connections' \subseteq connections \cup {held[p]}
          /\ p \in InFlight /\ InFlight' \subseteq InFlight \ {p}
          /\ held[p] \in Proc
      BY <1>6, <2>1
         DEF UseSession, ReturnConnection, InFlight, HoldInv, Settled, Connecting
    <3> QED
      BY <1>1, <1>2, <3>1, SumKept
  <2>2. CASE ~timeoutFlag
    BY <1>3, <1>6, <2>2 DEF UseSession, InFlight, Settled, Connecting, poolVars
  <2> QED
    BY <2>1, <2>2
<1>7. CASE PingAnswers(p) \/ PingFails(p) \/ Drop(p) \/ Create(p) \/ Dial(p)
           \/ Authenticate(p) \/ GetFails(p)
  BY <1>3, <1>7
     DEF InFlight, Settled, Connecting, poolVars, PingAnswers, PingFails,
         ForgetDead, Drop, CloseHeld, Create, NewSession, Dial, Dialed,
         Authenticate, Authenticated, GetFails, ConnectFails
<1> QED
  BY <1>4, <1>5, <1>6, <1>7 DEF GetStep

LEMMA NextRoomInv ==
  ASSUME HostInv, RoomInv, [Next]_vars
  PROVE  RoomInv'
<1> USE HostAssumption, PoolAssumption DEF HostInv, HostType, PoolTypeOK, Goto
<1>1. CASE UNCHANGED vars
  BY <1>1 DEF vars, poolVars, RoomInv, InFlight, PermitHolders
<1>2. ASSUME Next
      PROVE  Cardinality(connections') + Cardinality(InFlight') <= maxConnectionsPerHost
  <2>1. /\ connections \in SUBSET Proc /\ connections' \in SUBSET Proc
        /\ InFlight \in SUBSET Proc /\ InFlight' \in SUBSET Proc
    BY <1>2, NextHostInv DEF InFlight
  <2>2. ASSUME connections' \subseteq connections, InFlight' \subseteq InFlight
        PROVE  Cardinality(connections') + Cardinality(InFlight')
                 <= maxConnectionsPerHost
    <3>1. Cardinality(connections') + Cardinality(InFlight')
            <= Cardinality(connections) + Cardinality(InFlight)
      BY <2>1, <2>2, SumKept
    <3> QED
      BY <2>1, <3>1, FiniteSubset DEF RoomInv
  <2>3. ASSUME NEW p \in Proc, pc[p] \in {"listing", "working"}, ReturnConnection(p),
               pc'[p] \in {"failed", "spawning", "unwind", "leave"},
               \A q \in Proc \ {p} : pc'[q] = pc[q]
        PROVE  Cardinality(connections') + Cardinality(InFlight')
                 <= maxConnectionsPerHost
    <3>1. /\ connections' \subseteq connections \cup {held[p]} /\ held[p] \in Proc
          /\ p \in InFlight /\ InFlight' \subseteq InFlight \ {p}
      BY <2>3 DEF ReturnConnection, InFlight, HoldInv, Settled, Connecting
    <3>2. Cardinality(connections') + Cardinality(InFlight')
            <= Cardinality(connections) + Cardinality(InFlight)
      BY <2>1, <3>1, SumKept
    <3> QED
      BY <2>1, <3>2, FiniteSubset DEF RoomInv
  <2>4. CASE MainStep
    <3>1. CASE ListFails \/ ListShares
      BY <2>3, <3>1 DEF ListFails, ListShares
    <3>2. CASE GetStep(Main)
      BY <3>2, GetRoom
    <3>3. CASE Spawn
      BY <2>2, <3>3 DEF Spawn, InFlight, Settled, Connecting, poolVars
    <3>4. CASE CloseAll
      BY <2>2, <3>4 DEF CloseAll, CloseOne, InFlight
    <3>5. CASE Start \/ Resolve \/ CheckTimeout \/ CountError \/ Join \/ Unwind
               \/ StopTimer \/ Return
      BY <2>2, <3>5
         DEF InFlight, Settled, Connecting, poolVars, Start, Resolve, CheckTimeout,
             CountError, Join, Unwind, StopTimer, Return
    <3> QED
      BY <2>4, <3>1, <3>2, <3>3, <3>4, <3>5 DEF MainStep
  <2>5. ASSUME NEW s \in Share, ShareStep(s)
        PROVE  Cardinality(connections') + Cardinality(InFlight')
                 <= maxConnectionsPerHost
    <3>1. CASE Explored(s)
      BY <2>3, <3>1 DEF Explored
    <3>2. CASE GetStep(s)
      BY <3>2, GetRoom
    <3>3. CASE Acquire(s) \/ AcquireFails(s) \/ SkipShare(s) \/ EnterShare(s)
               \/ LeaveShare(s)
      BY <2>2, <3>3
         DEF InFlight, Settled, Connecting, poolVars, Acquire, AcquireFails,
             SkipShare, EnterShare, LeaveShare
    <3> QED
      BY <2>5, <3>1, <3>2, <3>3 DEF ShareStep
  <2>6. CASE TimerStep \/ Tick \/ Watch \/ Terminated
    BY <2>2, <2>6
       DEF InFlight, poolVars, TimerStep, TimerFires, TimerForces, StartTicker,
           Tick, Watch, Terminated, vars, ForceCloseAll
  <2> QED
    BY <1>2, <2>4, <2>5, <2>6 DEF Next
<1> QED
  BY <1>1, <1>2, NextPermits DEF RoomInv

LEMMA RoomInvariant == Spec => []RoomInv
  BY HostInvariant, InitRoomInv, NextRoomInv, PTL DEF Spec

\* A live session is pooled or held by a goroutine in flight.
LEMMA RoomBoundsConnections == HostInv /\ RoomInv => ConnectionsBounded
<1> SUFFICES ASSUME HostInv, RoomInv PROVE ConnectionsBounded
  OBVIOUS
<1> USE PoolAssumption DEF HostInv, HostType, PoolTypeOK
<1> DEFINE Live   == {s \in Proc : link[s] \in {"dialing", "auth", "up"}}
           Holder == {p \in Proc : held[p] # NoSession}
           f      == [p \in Holder |-> held[p]]
           Held   == {held[p] : p \in Holder}
<1>1. /\ connections \in SUBSET Proc /\ Holder \in SUBSET Proc
      /\ InFlight \in SUBSET Proc /\ Held \in SUBSET Proc /\ Live \in SUBSET Proc
  <2>1. \A p \in Holder : held[p] \in Proc
    OBVIOUS
  <2> QED
    BY <2>1 DEF InFlight
<1>2. Live \subseteq connections \cup Held
  BY DEF OpenInv
<1>3. Cardinality(Held) <= Cardinality(Holder)
  <2>1. f \in Surjection(Holder, Held)
    BY DEF Surjection
  <2> QED
    BY <1>1, <2>1, FS_Surjection, FiniteSubset
<1>4. Cardinality(Holder) <= Cardinality(InFlight)
  <2>1. Holder \subseteq InFlight
    BY DEF HoldInv, InFlight
  <2> QED
    BY <1>1, <2>1, FS_Subset, FiniteSubset
<1>5. Cardinality(connections \cup Held) <= Cardinality(connections) + Cardinality(Held)
  <2> HIDE DEF Held
  <2>1. IsFiniteSet(connections) /\ IsFiniteSet(Held)
    BY <1>1, FiniteSubset
  <2>2. Cardinality(connections \cup Held)
          = Cardinality(connections) + Cardinality(Held)
            - Cardinality(connections \cap Held)
    BY <2>1, FS_Union
  <2>3. connections \cap Held \in SUBSET Proc
    BY <1>1
  <2> QED
    BY <1>1, <2>2, <2>3, FiniteSubset
<1>6. Cardinality(Live) <= maxConnectionsPerHost
  <2>1. connections \cup Held \in SUBSET Proc
    BY <1>1
  <2>2. Cardinality(Live) <= Cardinality(connections \cup Held)
    BY <1>1, <1>2, <2>1, FS_Subset, FiniteSubset
  <2> HIDE DEF Live, Holder, Held, f
  <2> QED
    BY <1>1, <1>3, <1>4, <1>5, <2>1, <2>2, FiniteSubset DEF RoomInv
<1>7. ASSUME NEW p \in Proc, pc[p] \in {"listing", "working"}
      PROVE  Cardinality(connections) < maxConnectionsPerHost
  <2>1. p \in InFlight
    BY <1>7 DEF InFlight, Settled
  <2>2. IsFiniteSet(InFlight) /\ Cardinality(InFlight) \in Nat
    BY <1>1, FiniteSubset
  <2>3. Cardinality(InFlight) # 0
    BY <2>1, <2>2, FS_EmptySet
  <2>4. Cardinality(connections) \in Nat
    BY FiniteSubset
  <2> QED
    BY <2>2, <2>3, <2>4 DEF RoomInv
<1> QED
  BY <1>6, <1>7 DEF ConnectionsBounded

-----------------------------------------------------------------------------
(* The counters.  A task is pending for each share whose goroutine has not   *)
(* ended; a share is counted once, when its goroutine ends, or never.        *)

Running == {s \in shares : pc[s] # "done"}

CountInv ==
  /\ results \in Counters /\ counted \in Nat /\ skipped \in Nat
  /\ results.activeHosts = IF pc[Main] \in {"start", "returned"} THEN 0 ELSE 1
  /\ results.success + results.errors <= 1
  /\ results.tasksPending = Cardinality(Running)
  /\ counted + skipped + Cardinality(Running) <= Cardinality(shares)
  /\ results.sharesProcessed + results.sharesSkipped + results.sharesPending
       = Cardinality(shares)
  /\ pc[Main] \notin Ended =>
       /\ results.success = 0 /\ results.errors = 0
       /\ results.sharesProcessed = 0 /\ results.sharesSkipped = 0

LEMMA CountersAreNat ==
  ASSUME NEW r \in Counters
  PROVE  /\ r.success \in Nat /\ r.errors \in Nat /\ r.tasksTotal \in Nat
         /\ r.tasksPending \in Nat /\ r.tasksFinished \in Nat
         /\ r.sharesProcessed \in Nat /\ r.sharesSkipped \in Nat
         /\ r.sharesPending \in Nat /\ r.activeHosts \in Nat
  BY DEF Counters

LEMMA InitCountInv == Init => CountInv
<1> SUFFICES ASSUME Init PROVE CountInv
  OBVIOUS
<1>1. shares = {} /\ Running = {} /\ Cardinality({}) = 0
  BY FS_EmptySet DEF Init, Running
<1> QED
  BY <1>1, HostAssumption DEF Init, CountInv, Counters, Ended

\* Steps that count nothing.
LEMMA CountKept ==
  ASSUME CountInv, UNCHANGED <<shares, counterVars>>,
         Running' = Running,
         pc[Main] \in Ended => pc'[Main] \in Ended,
         pc'[Main] \in {"start", "returned"} <=> pc[Main] \in {"start", "returned"}
  PROVE  CountInv'
  BY DEF CountInv, counterVars

\* The steps that end the goroutine of a share.
LEMMA TaskEnds ==
  ASSUME HostInv, CountInv, NEW s \in Share, pc[s] \notin {"idle", "done"},
         Goto(s, "done"), results' = TaskDone, UNCHANGED shares,
         \/ counted' = counted + 1 /\ UNCHANGED skipped
         \/ skipped' = skipped + 1 /\ UNCHANGED counted
         \/ UNCHANGED <<counted, skipped>>
  PROVE  CountInv'
<1> USE HostAssumption DEF HostInv, HostType, Goto
<1>1. pc'[Main] = pc[Main]
  OBVIOUS
<1>2. s \in Running /\ Running' = Running \ {s}
  BY DEF PhaseInv, Running
<1>3. shares \in SUBSET Proc /\ Running \in SUBSET Proc
  BY DEF Running
<1>4. Cardinality(Running) \in Nat /\ Cardinality(Running') \in Nat
      /\ Cardinality(Running') = Cardinality(Running) - 1
  <2>1. IsFiniteSet(Running) /\ Cardinality(Running) \in Nat
    BY <1>3, FiniteSubset
  <2>2. Cardinality(Running \ {s}) = Cardinality(Running) - 1
    BY <1>2, <2>1, FS_RemoveElement
  <2>3. Running \ {s} \in SUBSET Proc
    BY <1>3
  <2> QED
    BY <1>2, <2>1, <2>2, <2>3, FiniteSubset
<1>5. Cardinality(shares) \in Nat
  BY <1>3, FiniteSubset
<1>6. results' \in Counters
  <2>1. results.tasksPending - 1 \in Nat /\ results.tasksFinished + 1 \in Nat
    BY <1>4, CountersAreNat DEF CountInv
  <2> QED
    BY <2>1 DEF CountInv, TaskDone, Counters
<1>7. /\ results'.tasksPending = results.tasksPending - 1
      /\ results'.success = results.success /\ results'.errors = results.errors
      /\ results'.sharesProcessed = results.sharesProcessed
      /\ results'.sharesSkipped = results.sharesSkipped
      /\ results'.sharesPending = results.sharesPending
      /\ results'.activeHosts = results.activeHosts
  BY DEF CountInv, TaskDone, Counters
<1> QED
  BY <1>1, <1>4, <1>5, <1>6, <1>7 DEF CountInv

LEMMA GetCount ==
  ASSUME HostInv, CountInv, NEW p \in Proc, GetStep(p)
  PROVE  CountInv'
<1> USE HostAssumption DEF HostInv, HostType, Goto
<1>1. UNCHANGED <<shares, counterVars>>
  BY DEF GetStep, Get, PingAnswers, PingFails, Drop, Create, Dial, Authenticate,
         GetFails, UseSession
<1>2. \E to : pc' = [pc EXCEPT ![p] = to] /\ to \notin {"done", "start", "returned"}
  BY DEF GetStep, Get, PingAnswers, PingFails, Drop, Create, Dial, Authenticate,
         GetFails, UseSession
<1>3. pc[p] \in GetState
  BY DEF GetStep, Get, PingAnswers, PingFails, Drop, Create, Dial, Authenticate,
         GetFails, UseSession, GetState
<1>4. Running' = Running
  BY <1>1, <1>2, <1>3 DEF Running, GetState
<1>5. /\ pc[Main] \in Ended => pc'[Main] \in Ended
      /\ pc'[Main] \in {"start", "returned"} <=> pc[Main] \in {"start", "returned"}
  BY <1>2, <1>3 DEF GetState, Ended
<1> QED
  BY <1>1, <1>4, <1>5, CountKept

LEMMA MainCount ==
  ASSUME HostInv, CountInv, MainStep
  PROVE  CountInv'
<1> USE HostAssumption DEF HostInv, HostType, Goto
<1>1. shares \in SUBSET Proc /\ Running \in SUBSET Proc
  BY DEF Running
<1>2. Cardinality(Running) \in Nat /\ Cardinality(shares) \in Nat
  BY <1>1, FiniteSubset
<1>3. ASSUME NEW to, Goto(Main, to), UNCHANGED shares
      PROVE  pc'[Main] = to /\ Running' = Running
  BY <1>3 DEF Running
<1>4. CASE Start
  <2>1. results' \in Counters /\ results' = [results EXCEPT !.activeHosts = 1]
    BY <1>4 DEF Start, CountInv, Counters
  <2>2. pc'[Main] = "resolve" /\ Running' = Running
    BY <1>3, <1>4 DEF Start
  <2> QED
    BY <1>4, <2>1, <2>2 DEF Start, CountInv, Ended, Counters
<1>5. CASE CountError
  <2>1. /\ results.errors + 1 \in Nat /\ results.tasksTotal + 1 \in Nat
        /\ results.tasksFinished + 1 \in Nat
    BY CountersAreNat DEF CountInv
  <2>2. results' \in Counters
    BY <1>5, <2>1 DEF CountError, CountInv, Counters
  <2>3. /\ results'.success = results.success /\ results'.errors = results.errors + 1
        /\ results'.tasksPending = results.tasksPending
        /\ results'.activeHosts = results.activeHosts
        /\ results'.sharesProcessed = results.sharesProcessed
        /\ results'.sharesSkipped = results.sharesSkipped
        /\ results'.sharesPending = results.sharesPending
    BY <1>5 DEF CountError, CountInv, Counters
  <2>4. pc'[Main] = "unwind" /\ Running' = Running
    BY <1>3, <1>5 DEF CountError
  <2> QED
    BY <1>5, <2>2, <2>3, <2>4 DEF CountError, CountInv, Ended
<1>6. CASE Return
  <2>1. results' \in Counters /\ results' = [results EXCEPT !.activeHosts = 0]
    BY <1>6 DEF Return, CountInv, Counters
  <2>2. pc'[Main] = "returned" /\ Running' = Running
    BY <1>3, <1>6 DEF Return
  <2> QED
    BY <1>6, <2>1, <2>2 DEF Return, CountInv, Ended, Counters
<1>7. CASE Join
  <2>1. pc[Main] = "join" /\ pc'[Main] = "unwind" /\ Running' = Running
    BY <1>3, <1>7 DEF Join
  <2>2. /\ results.success = 0 /\ results.errors = 0
        /\ results.sharesProcessed = 0 /\ results.sharesSkipped = 0
        /\ results.sharesPending = Cardinality(shares)
        /\ counted \in Nat /\ skipped \in Nat
        /\ counted + skipped <= Cardinality(shares)
    BY <1>2, <2>1, CountersAreNat DEF CountInv, Ended
  <2>3. /\ results.success + 1 \in Nat /\ results.tasksFinished + 1 \in Nat
        /\ results.sharesProcessed + counted \in Nat
        /\ results.sharesSkipped + skipped \in Nat
        /\ results.sharesPending - (counted + skipped) \in Nat
    BY <1>2, <2>2, CountersAreNat DEF CountInv
  <2>4. results' \in Counters
    BY <1>7, <2>3 DEF Join, CountInv, Counters
  <2>5. /\ results'.success = results.success + 1 /\ results'.errors = results.errors
        /\ results'.tasksPending = results.tasksPending
        /\ results'.activeHosts = results.activeHosts
        /\ results'.sharesProcessed = results.sharesProcessed + counted
        /\ results'.sharesSkipped = results.sharesSkipped + skipped
        /\ results'.sharesPending = results.sharesPending - (counted + skipped)
    BY <1>7 DEF Join, CountInv, Counters
  <2> QED
    BY <1>2, <1>7, <2>1, <2>2, <2>4, <2>5 DEF Join, CountInv, Ended
<1>8. CASE ListShares
  <2>1. PICK found \in SUBSET Share :
          /\ shares' = found
          /\ results' =
               IF Cardinality(found) > 0
               THEN [results EXCEPT !.tasksTotal = @ + Cardinality(found),
                                    !.tasksPending = @ + Cardinality(found),
                                    !.sharesPending = @ + Cardinality(found)]
               ELSE [results EXCEPT !.success = @ + 1, !.tasksTotal = @ + 1,
                                    !.tasksFinished = @ + 1]
          /\ Goto(Main, IF Cardinality(found) > 0 THEN "spawning" ELSE "unwind")
    BY <1>8 DEF ListShares
  <2>2. Cardinality(found) \in Nat
    BY FiniteSubset
  <2>3. shares = {} /\ Running = {} /\ Running' = found
    BY <1>8, <2>1 DEF ListShares, PhaseInv, Before, Running
  <2>4. Cardinality(shares) = 0 /\ Cardinality(Running) = 0
    BY <2>3, FS_EmptySet
  <2>5. counted = 0 /\ skipped = 0 /\ counted' = 0 /\ skipped' = 0
    BY <1>8, <2>4 DEF ListShares, CountInv
  <2>6. pc[Main] = "listing"
        /\ pc'[Main] = IF Cardinality(found) > 0 THEN "spawning" ELSE "unwind"
    BY <1>8, <2>1 DEF ListShares
  <2>7. Cardinality(Running') = Cardinality(found)
        /\ Cardinality(shares') = Cardinality(found)
    BY <2>1, <2>3
  <2>8. /\ results.success = 0 /\ results.errors = 0 /\ results.activeHosts = 1
        /\ results.sharesProcessed = 0 /\ results.sharesSkipped = 0
        /\ results.sharesPending = 0 /\ results.tasksPending = 0
    BY <2>4, <2>6, CountersAreNat DEF CountInv, Ended
  <2>9. CASE Cardinality(found) > 0
    <3>1. /\ results.tasksTotal + Cardinality(found) \in Nat
          /\ results.tasksPending + Cardinality(found) \in Nat
          /\ results.sharesPending + Cardinality(found) \in Nat
      BY <2>2, CountersAreNat DEF CountInv
    <3>2. results' \in Counters
      BY <2>1, <2>9, <3>1 DEF CountInv, Counters
    <3>3. /\ results'.success = 0 /\ results'.errors = 0 /\ results'.activeHosts = 1
          /\ results'.sharesProcessed = 0 /\ results'.sharesSkipped = 0
          /\ results'.sharesPending = Cardinality(found)
          /\ results'.tasksPending = Cardinality(found)
      BY <2>1, <2>2, <2>8, <2>9 DEF CountInv, Counters
    <3> QED
      BY <2>2, <2>5, <2>6, <2>7, <2>9, <3>2, <3>3 DEF CountInv, Ended
  <2>10. CASE ~(Cardinality(found) > 0)
    <3>1. /\ results.success + 1 \in Nat /\ results.tasksTotal + 1 \in Nat
          /\ results.tasksFinished + 1 \in Nat
      BY CountersAreNat DEF CountInv
    <3>2. results' \in Counters
      BY <2>1, <2>10, <3>1 DEF CountInv, Counters
    <3>3. /\ results'.success = 1 /\ results'.errors = 0 /\ results'.activeHosts = 1
          /\ results'.sharesProcessed = 0 /\ results'.sharesSkipped = 0
          /\ results'.sharesPending = 0 /\ results'.tasksPending = 0
      BY <2>1, <2>8, <2>10 DEF CountInv, Counters
    <3> QED
      BY <2>2, <2>5, <2>6, <2>7, <2>10, <3>2, <3>3 DEF CountInv, Ended
  <2> QED
    BY <2>9, <2>10
<1>9. CASE Spawn
  <2>1. Running' = Running /\ pc'[Main] = "join"
    BY <1>9 DEF Spawn, Running, PhaseInv
  <2> QED
    BY <1>9, <2>1, CountKept DEF Spawn, Ended
<1>10. CASE Resolve \/ CheckTimeout \/ ListFails \/ Unwind \/ StopTimer
  <2>1. UNCHANGED <<shares, counterVars>>
    BY <1>10 DEF Resolve, CheckTimeout, ListFails, Unwind, StopTimer
  <2>2. \E to : Goto(Main, to) /\ to \notin {"start", "returned"}
             /\ (pc[Main] \in Ended => to \in Ended)
    BY <1>10 DEF Resolve, CheckTimeout, ListFails, Unwind, StopTimer, Ended
  <2>3. pc[Main] \notin {"start", "returned"}
    BY <1>10 DEF Resolve, CheckTimeout, ListFails, Unwind, StopTimer
  <2> QED
    BY <1>3, <2>1, <2>2, <2>3, CountKept
<1>11. CASE CloseAll
  BY <1>11, CountKept DEF CloseAll, Running
<1>12. CASE GetStep(Main)
  BY <1>12, GetCount
<1> QED
  BY <1>4, <1>5, <1>6, <1>7, <1>8, <1>9, <1>10, <1>11, <1>12 DEF MainStep

LEMMA ShareCount ==
  ASSUME HostInv, CountInv, NEW s \in Share, ShareStep(s)
  PROVE  CountInv'
<1> USE HostAssumption DEF HostInv, HostType
<1>1. CASE AcquireFails(s) \/ SkipShare(s) \/ LeaveShare(s)
  BY <1>1, TaskEnds DEF AcquireFails, SkipShare, LeaveShare
<1>2. CASE Acquire(s) \/ EnterShare(s) \/ Explored(s)
  <2>1. UNCHANGED <<shares, counterVars>> /\ pc[s] # "done" /\ pc'[s] # "done"
        /\ \A p \in Proc \ {s} : pc'[p] = pc[p]
    BY <1>2 DEF Acquire, EnterShare, Explored, Goto
  <2> QED
    BY <2>1, CountKept DEF Running
<1>3. CASE GetStep(s)
  BY <1>3, GetCount
<1> QED
  BY <1>1, <1>2, <1>3 DEF ShareStep

LEMMA NextCountInv ==
  ASSUME HostInv, CountInv, [Next]_vars
  PROVE  CountInv'
<1>1. CASE UNCHANGED vars
  BY <1>1, CountKept DEF vars, counterVars, Running
<1>2. CASE TimerStep \/ Tick \/ Watch
  <2>1. UNCHANGED <<pc, shares, counterVars>>
    BY <1>2 DEF TimerStep, TimerFires, TimerForces, StartTicker, Tick, Watch
  <2> QED
    BY <2>1, CountKept DEF Running
<1> QED
  BY <1>1, <1>2, MainCount, ShareCount DEF Next, Terminated

LEMMA CountInvariant == Spec => []CountInv
  BY HostInvariant, InitCountInv, NextCountInv, PTL DEF Spec

-----------------------------------------------------------------------------
(* Theorems. *)

\* The variables keep their types; in particular no counter of WorkerResults
\* that ProcessTarget decrements ever falls below zero.
THEOREM HostTypeCorrect == Spec => []TypeOK
<1>1. HostInv /\ CountInv => TypeOK
  BY DEF HostInv, HostType, CountInv, TypeOK
<1> QED
  BY <1>1, HostInvariant, CountInvariant, PTL

\* Wherever the timeout strikes, a session in use is one it knows or has closed.
THEOREM TimeoutReaches == Spec => []InUseIsReachable
<1>1. HostInv => InUseIsReachable
  BY DEF HostInv
<1> QED
  BY <1>1, HostInvariant, PTL

\* The pool gives a session to one goroutine at a time.
THEOREM PoolIsExclusive == Spec => []SessionsNotShared
<1>1. HostInv => SessionsNotShared
  BY DEF HostInv
<1> QED
  BY <1>1, HostInvariant, PTL

\* The semaphore of the shares bounds the connections to the host, although the
\* pool itself bounds only those that are returned to it.
THEOREM PermitsBoundConnections == Spec => []ConnectionsBounded
  BY HostInvariant, RoomInvariant, RoomBoundsConnections, PTL

\* On every return of ProcessTarget the connections are closed and the
\* goroutines of the shares have ended.
THEOREM HostCleansUp == Spec => []NothingLeftOpen
<1>1. HostInv => NothingLeftOpen
  <2> SUFFICES ASSUME HostInv, pc[Main] = "returned"
               PROVE  /\ \A s \in Proc : link[s] \in {"none", "closed"}
                      /\ \A s \in Share : pc[s] \in {"idle", "done"}
    BY DEF NothingLeftOpen
  <2> USE HostAssumption DEF HostInv, HostType, PoolTypeOK
  <2>1. connections = {} /\ \A s \in Share : pc[s] \in {"idle", "done"}
    BY DEF PhaseInv
  <2>2. \A p \in Proc : held[p] = NoSession
    BY <2>1 DEF HoldInv, Settled, Connecting
  <2>3. \A s \in Proc : link[s] \in {"none", "closed"}
    BY <2>1, <2>2, PoolAssumption DEF OpenInv, LinkState
  <2> QED
    BY <2>1, <2>3
<1> QED
  BY <1>1, HostInvariant, PTL

\* Every share the host had is accounted for, and no task is left pending.
THEOREM HostIsAccounted == Spec => []Accounting
<1>1. HostInv /\ CountInv => Accounting
  <2> SUFFICES ASSUME HostInv, CountInv PROVE Accounting
    OBVIOUS
  <2>1. ASSUME pc[Main] = "returned"
        PROVE  results.tasksPending = 0
    <3>1. Running = {}
      BY <2>1 DEF HostInv, PhaseInv, Ended, Running
    <3> QED
      BY <3>1, FS_EmptySet DEF CountInv
  <2> QED
    BY <2>1 DEF Accounting, CountInv
<1> QED
  BY <1>1, HostInvariant, CountInvariant, PTL
=============================================================================
