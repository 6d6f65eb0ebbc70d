------------------------------ MODULE HostScan -------------------------------
(***************************************************************************)
(* ProcessTarget (Go/internal/worker/worker.go): the scan of one host.     *)
(* The goroutine Main resolves, probes and connects, lists the shares and  *)
(* starts a goroutine for each of them; these take a permit of a semaphore *)
(* and a session of the pool, and explore their share.  The host timeout   *)
(* sets a flag that everybody polls, closes every connection under them,   *)
(* and has a watcher cancel the wait for the semaphore.                    *)
(*                                                                         *)
(* What exploring a share does to the graph is not modelled here: in Scan  *)
(* it is Emit.                                                             *)
(***************************************************************************)
EXTENDS ConnectionPool

CONSTANTS
  Share,        \* the shares the host may turn out to have
  Main,         \* the goroutine that runs ProcessTarget
  HostTimeout,  \* Options.HostTimeout > 0
  Hangs         \* operations a server may leave unanswered: see Operation

Operation == {"list", "ping", "work", "close"}

ASSUME HostAssumption ==
  /\ Main \notin Share /\ Proc = Share \cup {Main}
  /\ HostTimeout \in BOOLEAN
  /\ Hangs \subseteq Operation

VARIABLES
  pc,           \* per goroutine: where it is
  shares,       \* what ListShares returned
  timer,        \* the AfterFunc of the host timeout and the ticker it starts
  timeoutFlag,
  watcher,      \* the goroutine that cancels semCtx
  cancelled,    \* semCtx is cancelled
  counted,      \* totalShareCount
  skipped,      \* skippedSharesCount
  results       \* the part of WorkerResults that this host adds to

vars == <<poolVars, pc, shares, timer, timeoutFlag, watcher, cancelled,
          counted, skipped, results>>

MainState == {"start", "resolve", "resolved", "probe", "probed", "failed",
              "listing", "spawning", "join", "unwind", "stopping", "closing",
              "returned"}

ShareState == {"idle", "waiting", "acquired", "working", "leave", "done"}

\* Inside GetConnection, and just after it.
GetState == {"get", "pinging", "dropping", "create", "dialing", "auth", "got"}

\* fired: the flag is set.  forced: ForceCloseAll has been called once.
\* lastTick: stopped with a tick still in its channel.  quiet: stopped.
TimerState ==
  {"off", "armed", "stopped", "fired", "forced", "ticking", "lastTick", "quiet"}

Counters == [success : Nat, errors : Nat,
             tasksTotal : Nat, tasksPending : Nat, tasksFinished : Nat,
             sharesProcessed : Nat, sharesSkipped : Nat, sharesPending : Nat,
             activeHosts : Nat]

TypeOK ==
  /\ PoolTypeOK
  /\ pc \in [Proc -> MainState \cup ShareState \cup GetState]
  /\ shares \in SUBSET Share
  /\ timer \in TimerState
  /\ timeoutFlag \in BOOLEAN
  /\ watcher \in {"none", "watching", "gone"}
  /\ cancelled \in BOOLEAN
  /\ counted \in Nat /\ skipped \in Nat
  /\ results \in Counters

Init ==
  /\ PoolInit
  /\ pc = [p \in Proc |-> IF p = Main THEN "start" ELSE "idle"]
  /\ shares = {}
  /\ timer = "off" /\ timeoutFlag = FALSE
  /\ watcher = "none" /\ cancelled = FALSE
  /\ counted = 0 /\ skipped = 0
  /\ results = [success |-> 0, errors |-> 0,
                tasksTotal |-> 0, tasksPending |-> 0, tasksFinished |-> 0,
                sharesProcessed |-> 0, sharesSkipped |-> 0, sharesPending |-> 0,
                activeHosts |-> 0]

Goto(p, to) == pc' = [pc EXCEPT ![p] = to]

timerVars   == <<timer, timeoutFlag>>
semVars     == <<watcher, cancelled>>
counterVars == <<counted, skipped, results>>

-----------------------------------------------------------------------------
(* GetConnection, by Main or by the goroutine of a share. *)

Get(p) ==
  /\ pc[p] = "get"
  /\ \/ connections # {} /\ TakePooled(p) /\ Goto(p, "pinging")
     \/ connections = {} /\ UNCHANGED poolVars /\ Goto(p, "create")
  /\ UNCHANGED <<shares, timerVars, semVars, counterVars>>

PingAnswers(p) ==
  /\ pc[p] = "pinging" /\ link[held[p]] = "up"
  /\ Goto(p, "got")
  /\ UNCHANGED <<poolVars, shares, timerVars, semVars, counterVars>>

PingFails(p) ==
  /\ pc[p] = "pinging"
  /\ ForgetDead(p)
  /\ Goto(p, "dropping")
  /\ UNCHANGED <<shares, timerVars, semVars, counterVars>>

Drop(p) ==
  /\ pc[p] = "dropping"
  /\ CloseHeld(p)
  /\ Goto(p, "create")
  /\ UNCHANGED <<shares, timerVars, semVars, counterVars>>

Create(p) ==
  /\ pc[p] = "create"
  /\ NewSession(p)
  /\ Goto(p, "dialing")
  /\ UNCHANGED <<shares, timerVars, semVars, counterVars>>

Dial(p) ==
  /\ pc[p] = "dialing"
  /\ Dialed(p)
  /\ Goto(p, "auth")
  /\ UNCHANGED <<shares, timerVars, semVars, counterVars>>

Authenticate(p) ==
  /\ pc[p] = "auth"
  /\ Authenticated(p)
  /\ Goto(p, "got")
  /\ UNCHANGED <<shares, timerVars, semVars, counterVars>>

\* The port, the dial, the initiator or the authentication.
GetFails(p) ==
  /\ pc[p] \in {"dialing", "auth"}
  /\ ConnectFails(p)
  /\ Goto(p, IF p = Main THEN "failed" ELSE "leave")
  /\ UNCHANGED <<shares, timerVars, semVars, counterVars>>

\* Mutant: the flag is not checked once the session is there.
UseSessionUnchecked(p) ==
  /\ pc[p] = "got"
  /\ UNCHANGED poolVars /\ Goto(p, IF p = Main THEN "listing" ELSE "working")
  /\ UNCHANGED <<shares, timerVars, semVars, counterVars>>

\* The check of timeoutFlag that follows GetConnection.
UseSession(p) ==
  /\ pc[p] = "got"
  /\ IF timeoutFlag
     THEN ReturnConnection(p) /\ Goto(p, IF p = Main THEN "unwind" ELSE "leave")
     ELSE UNCHANGED poolVars /\ Goto(p, IF p = Main THEN "listing" ELSE "working")
  /\ UNCHANGED <<shares, timerVars, semVars, counterVars>>

GetStep(p) ==
  \/ Get(p) \/ PingAnswers(p) \/ PingFails(p) \/ Drop(p) \/ Create(p)
  \/ Dial(p) \/ Authenticate(p) \/ GetFails(p) \/ UseSession(p)

-----------------------------------------------------------------------------
(* Main. *)

Start ==
  /\ pc[Main] = "start"
  /\ results' = [results EXCEPT !.activeHosts = @ + 1]
  /\ timer' = IF HostTimeout THEN "armed" ELSE "off"
  /\ Goto(Main, "resolve")
  /\ UNCHANGED <<poolVars, shares, timeoutFlag, semVars, counted, skipped>>

\* DNSResolve of an fqdn, then IsPortOpen, with the flag checked after each.
Resolve ==
  /\ pc[Main] \in {"resolve", "probe"}
  /\ \/ Goto(Main, "failed")
     \/ Goto(Main, IF pc[Main] = "resolve" THEN "resolved" ELSE "probed")
  /\ UNCHANGED <<poolVars, shares, timerVars, semVars, counterVars>>

CheckTimeout ==
  /\ pc[Main] \in {"resolved", "probed"}
  /\ Goto(Main, IF timeoutFlag THEN "unwind"
                ELSE IF pc[Main] = "resolved" THEN "probe" ELSE "get")
  /\ UNCHANGED <<poolVars, shares, timerVars, semVars, counterVars>>

\* Mutant: the error paths lack their return.
CountErrorGoesOn ==
  /\ pc[Main] = "failed"
  /\ results' = [results EXCEPT !.errors = @ + 1, !.tasksTotal = @ + 1,
                                !.tasksFinished = @ + 1]
  /\ Goto(Main, "join")
  /\ UNCHANGED <<poolVars, shares, timerVars, semVars, counted, skipped>>

\* Every error before the shares are known is counted and ends the host.
CountError ==
  /\ pc[Main] = "failed"
  /\ results' = [results EXCEPT !.errors = @ + 1, !.tasksTotal = @ + 1,
                                !.tasksFinished = @ + 1]
  /\ Goto(Main, "unwind")
  /\ UNCHANGED <<poolVars, shares, timerVars, semVars, counted, skipped>>

\* Mutant: this path does not give its session back.
ListFailsKeepsSession ==
  /\ pc[Main] = "listing"
  /\ UNCHANGED poolVars
  /\ Goto(Main, "failed")
  /\ UNCHANGED <<shares, timerVars, semVars, counterVars>>

ListFails ==
  /\ pc[Main] = "listing"
  /\ ReturnConnection(Main)
  /\ Goto(Main, "failed")
  /\ UNCHANGED <<shares, timerVars, semVars, counterVars>>

\* The task counters grow by the shares; a host with none has one task.
ListShares ==
  /\ pc[Main] = "listing" /\ link[held[Main]] = "up"
  /\ \E found \in SUBSET Share :
       LET n == Cardinality(found) IN
       /\ shares' = found
       /\ results' =
            IF n > 0
            THEN [results EXCEPT !.tasksTotal = @ + n, !.tasksPending = @ + n,
                                 !.sharesPending = @ + n]
            ELSE [results EXCEPT !.success = @ + 1, !.tasksTotal = @ + 1,
                                 !.tasksFinished = @ + 1]
       /\ Goto(Main, IF n > 0 THEN "spawning" ELSE "unwind")
  /\ ReturnConnection(Main)
  /\ UNCHANGED <<timerVars, semVars, counted, skipped>>

\* One goroutine per share, and the watcher if there is a timeout.
Spawn ==
  /\ pc[Main] = "spawning"
  /\ pc' = [p \in Proc |-> IF p = Main THEN "join"
                           ELSE IF p \in shares THEN "waiting" ELSE pc[p]]
  /\ watcher' = IF HostTimeout THEN "watching" ELSE "none"
  /\ UNCHANGED <<poolVars, shares, timerVars, cancelled, counterVars>>

\* wg.Wait, then the totals.
Join ==
  /\ pc[Main] = "join" /\ \A s \in shares : pc[s] = "done"
  /\ results' = [results EXCEPT
                   !.success = @ + 1, !.tasksFinished = @ + 1,
                   !.sharesProcessed = @ + counted,
                   !.sharesSkipped = @ + skipped,
                   !.sharesPending = @ - (counted + skipped)]
  /\ Goto(Main, "unwind")
  /\ UNCHANGED <<poolVars, shares, timerVars, semVars, counted, skipped>>

\* The deferred calls, last first: close(done) and semCancel ...
Unwind ==
  /\ pc[Main] = "unwind"
  /\ cancelled' = TRUE
  /\ Goto(Main, "stopping")
  /\ UNCHANGED <<poolVars, shares, timerVars, watcher, counterVars>>

\* ... Timer.Stop, and Ticker.Stop if there is a ticker.  Timer.Stop does not
\* wait for a callback that has begun.
StopTimer ==
  /\ pc[Main] = "stopping"
  /\ timer' \in CASE timer = "armed"   -> {"stopped"}
                  [] timer = "ticking" -> {"quiet", "lastTick"}
                  [] OTHER             -> {timer}
  /\ Goto(Main, "closing")
  /\ UNCHANGED <<poolVars, shares, timeoutFlag, semVars, counterVars>>

\* ... CloseAll ...
CloseAll ==
  /\ pc[Main] = "closing"
  /\ \E s \in connections : CloseOne(s)
  /\ UNCHANGED <<pc, shares, timerVars, semVars, counterVars>>

\* ... and ActiveHosts.
Return ==
  /\ pc[Main] = "closing" /\ connections = {}
  /\ results' = [results EXCEPT !.activeHosts = @ - 1]
  /\ Goto(Main, "returned")
  /\ UNCHANGED <<poolVars, shares, timerVars, semVars, counted, skipped>>

MainStep ==
  \/ Start \/ Resolve \/ CheckTimeout \/ CountError \/ ListFails \/ ListShares
  \/ Spawn \/ Join \/ Unwind \/ StopTimer \/ CloseAll \/ Return
  \/ GetStep(Main)

-----------------------------------------------------------------------------
(* The goroutine of a share. *)

PermitHolders ==
  {s \in Share : pc[s] \in GetState \cup {"acquired", "working", "leave"}}

PermitFree == Cardinality(PermitHolders) < maxConnectionsPerHost

\* Mutant: no semaphore.
AcquireAlways(s) ==
  /\ pc[s] = "waiting"
  /\ Goto(s, "acquired")
  /\ UNCHANGED <<poolVars, shares, timerVars, semVars, counterVars>>

Acquire(s) ==
  /\ pc[s] = "waiting" /\ PermitFree
  /\ Goto(s, "acquired")
  /\ UNCHANGED <<poolVars, shares, timerVars, semVars, counterVars>>

TaskDone == [results EXCEPT !.tasksPending = @ - 1, !.tasksFinished = @ + 1]

\* Acquire returns the context's error; one that finds a permit succeeds.
AcquireFails(s) ==
  /\ pc[s] = "waiting" /\ cancelled /\ ~PermitFree
  /\ results' = TaskDone
  /\ Goto(s, "done")
  /\ UNCHANGED <<poolVars, shares, timerVars, semVars, counted, skipped>>

\* Mutant: this path lacks its return.
SkipShareGoesOn(s) ==
  /\ pc[s] = "acquired" /\ timeoutFlag
  /\ results' = TaskDone
  /\ skipped' = skipped + 1
  /\ Goto(s, "leave")
  /\ UNCHANGED <<poolVars, shares, timerVars, semVars, counted>>

\* The first check of the flag.
SkipShare(s) ==
  /\ pc[s] = "acquired" /\ timeoutFlag
  /\ results' = TaskDone
  /\ skipped' = skipped + 1
  /\ Goto(s, "done")
  /\ UNCHANGED <<poolVars, shares, timerVars, semVars, counted>>

\* processShare: the rules or a later check of the flag may end it early.
EnterShare(s) ==
  /\ pc[s] = "acquired" /\ ~timeoutFlag
  /\ Goto(s, "get") \/ Goto(s, "leave")
  /\ UNCHANGED <<poolVars, shares, timerVars, semVars, counterVars>>

\* SetShare, the rights and the traversal end, well or with an error.
Explored(s) ==
  /\ pc[s] = "working"
  /\ ReturnConnection(s)
  /\ Goto(s, "leave")
  /\ UNCHANGED <<shares, timerVars, semVars, counterVars>>

\* processShare has returned: counters, Release, wg.Done.
LeaveShare(s) ==
  /\ pc[s] = "leave"
  /\ counted' = counted + 1
  /\ results' = TaskDone
  /\ Goto(s, "done")
  /\ UNCHANGED <<poolVars, shares, timerVars, semVars, skipped>>

ShareStep(s) ==
  \/ Acquire(s) \/ AcquireFails(s) \/ SkipShare(s) \/ EnterShare(s)
  \/ Explored(s) \/ LeaveShare(s) \/ GetStep(s)

-----------------------------------------------------------------------------
(* The host timeout. *)

\* p.mu is free: only CloseAll keeps it over a blocking call.
PoolUnlocked == pc[Main] # "closing"

TimerFires ==
  /\ timer = "armed"
  /\ timer' = "fired" /\ timeoutFlag' = TRUE
  /\ UNCHANGED <<poolVars, pc, shares, semVars, counterVars>>

\* Mutant: only the pooled sessions are closed.
TimerForcesPooled ==
  /\ timer = "fired" /\ PoolUnlocked
  /\ timer' = "forced"
  /\ link' = [s \in Proc |-> IF s \in connections THEN "closed" ELSE link[s]]
  /\ connections' = {} /\ active' = {}
  /\ UNCHANGED <<held, pc, shares, timeoutFlag, semVars, counterVars>>

TimerForces ==
  /\ timer = "fired" /\ PoolUnlocked
  /\ timer' = "forced"
  /\ ForceCloseAll
  /\ UNCHANGED <<pc, shares, timeoutFlag, semVars, counterVars>>

StartTicker ==
  /\ timer = "forced"
  /\ timer' = "ticking"
  /\ UNCHANGED <<poolVars, pc, shares, timeoutFlag, semVars, counterVars>>

Tick ==
  /\ timer \in {"ticking", "lastTick"} /\ PoolUnlocked
  /\ timer' = IF timer = "ticking" THEN timer ELSE "quiet"
  /\ ForceCloseAll
  /\ UNCHANGED <<pc, shares, timeoutFlag, semVars, counterVars>>

\* The watcher polls the flag, and leaves when done is closed.
Watch ==
  /\ watcher = "watching"
  /\ \/ timeoutFlag /\ cancelled' = TRUE
     \/ pc[Main] \in {"stopping", "closing", "returned"} /\ UNCHANGED cancelled
  /\ watcher' = "gone"
  /\ UNCHANGED <<poolVars, pc, shares, timerVars, counterVars>>

TimerStep == TimerFires \/ TimerForces \/ StartTicker

Terminated == pc[Main] = "returned" /\ UNCHANGED vars

Next ==
  \/ MainStep
  \/ \E s \in Share : ShareStep(s)
  \/ TimerStep \/ Tick \/ Watch
  \/ Terminated

Spec == Init /\ [][Next]_vars

-----------------------------------------------------------------------------
(* Fairness.  Goroutines run, an armed timer fires, a ticker ticks.  A call  *)
(* that waits for the server returns for certain only if its connection is   *)
(* closed, or if the server answers that operation.  Dialing and             *)
(* authenticating have a deadline (--timeout) and always return.             *)

Unanswered(op, s) == op \in Hangs /\ link[s] = "up"

Stuck(p) ==
  \/ pc[p] = "listing"  /\ Unanswered("list", held[p])
  \/ pc[p] = "pinging"  /\ Unanswered("ping", held[p])
  \/ pc[p] = "working"  /\ Unanswered("work", held[p])
  \/ pc[p] = "dropping" /\ Unanswered("close", held[p])
  \/ pc[p] = "closing"  /\ \E s \in connections : Unanswered("close", s)

LiveSpec ==
  /\ Spec
  /\ WF_vars(~Stuck(Main) /\ MainStep)
  /\ \A s \in Share : WF_vars(~Stuck(s) /\ ShareStep(s))
  /\ WF_vars(TimerStep) /\ WF_vars(Tick) /\ WF_vars(Watch)

-----------------------------------------------------------------------------
(* Properties. *)

\* A session in use is one that ForceCloseAll knows or has already closed, so
\* the timeout can interrupt whatever waits on it.  GetConnection hands out
\* sessions that a timeout dropped from activeConnections while they dialed;
\* the check of timeoutFlag after it keeps these from being used.
InUseIsReachable ==
  \A p \in Proc : pc[p] \in {"pinging", "listing", "working"} =>
    held[p] \in active \/ link[held[p]] = "closed"

\* No two goroutines have one session, nor is a session in use pooled: it has a
\* current share, which nothing guards.
SessionsNotShared ==
  \A p, q \in Proc : held[p] # NoSession =>
    /\ held[p] \notin connections
    /\ p # q => held[p] # held[q]

\* The host sees at most maxConnectionsPerHost connections at a time, those of
\* the pool and those that are being opened or closed included; so a session
\* that is returned always finds room in the pool.
ConnectionsBounded ==
  /\ Cardinality({s \in Proc : link[s] \in {"dialing", "auth", "up"}})
       <= maxConnectionsPerHost
  /\ \A p \in Proc : pc[p] \in {"listing", "working"} =>
       Cardinality(connections) < maxConnectionsPerHost

\* A session as SmbSession implements it; before NewSMBSession it has yet to dial.
Session(s) ==
  INSTANCE SessionLink WITH link <- IF link[s] = "none" THEN "dialing" ELSE link[s],
                            served <- FALSE

\* Every session of the host is a SessionLink, whoever acts on it: it is dialed, comes up
\* and is closed, each once and in this order.  One that the timeout closes while its
\* goroutine connects, pings or returns it does not come back.
SessionsAreLinks ==
  [][\A s \in Proc : Session(s)!Next \/ UNCHANGED Session(s)!vars]_vars

\* When ProcessTarget returns every connection it opened is closed and every
\* goroutine of a share has ended, on each of its early returns and whatever
\* the timeout closed meanwhile.
NothingLeftOpen ==
  pc[Main] = "returned" =>
    /\ \A s \in Proc : link[s] \in {"none", "closed"}
    /\ \A s \in Share : pc[s] \in {"idle", "done"}

\* A host adds at most one to Success + Errors (the progress bar repeats a
\* character (25 - done) times), no task is left pending, and each share is
\* processed, skipped, or left in SharesPending because its Acquire failed.
Accounting ==
  /\ results.success + results.errors <= 1
  /\ pc[Main] = "returned" =>
       /\ results.tasksPending = 0 /\ results.activeHosts = 0
       /\ results.sharesProcessed + results.sharesSkipped + results.sharesPending
            = Cardinality(shares)

\* Go/README.md: "Maximum time in minutes per host", "Any blocking SMB
\* operations (ReadDir, Mount, etc.) fail immediately": whatever the server
\* leaves unanswered, ProcessTarget returns.
HostCompletes == <>(pc[Main] = "returned")
=============================================================================
