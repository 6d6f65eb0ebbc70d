--------------------------- MODULE SmbSessionProofs ---------------------------
(***************************************************************************)
(* What one session promises, for every set of shares and every fallback:  *)
(* the safety invariants of the run `session`, and that SmbSession         *)
(* implements SessionLink, the session that ConnectionPool works with.     *)
(*                                                                         *)
(* The invariant says what the fields, and the local variables of the      *)
(* goroutine, are at each point of a method, and how far a ForceClose can  *)
(* have changed the fields behind its back.                                *)
(***************************************************************************)
EXTENDS SmbSession, TLAPS

Connecting == {"dial", "initiator", "auth", "authed", "stored"}
Closing    == {"closeSrvsvc", "closeShare", "logoff", "closeConn"}
Client     == {"mountIpc", "openPipe", "bind", "undoClient"}
Remounting == {"unmount", "mount", "undoMount"}
Root       == {"mountRoot", "queryRoot", "unmountRoot"}
Relocking  == {"relock", "relocked"}
Held       == {"locked", "relocked", "undoMount"} \cup Closing
Working    == {"ask", "read", "query"} \cup Client \cup Remounting \cup Root \cup Relocking

\* The connection, and what is left of it on the server.
LinkInv ==
  /\ tcp = "open" => conn
  /\ conn => tcp # "none"
  /\ tcp = "none" => pc \in {"dial", "failed"}
  /\ pc = "dial" => tcp = "none"
  /\ tcp # "open" => server = {}
  /\ pc \in {"closed", "failed"} => tcp # "open" /\ ~mapped

\* Who holds mu.  ForceClose closes the connection before it cleans, so nobody is at
\* work on one that is open; it may miss the connection that Connect is making.
MuInv ==
  /\ mu = "user" <=> pc \in Held
  /\ mu = "forcer" /\ tcp = "open" =>
       /\ pc \in {"initiator", "auth", "authed", "stored", "idle", "lock", "native"}
       /\ share = Nil /\ ~srvsvc
  /\ pc \in Working => connected \/ tcp = "closed"
  /\ pc = "undoMount" => tcp = "closed"

FieldInv ==
  /\ ~connected /\ mu # "forcer" => share = Nil /\ ~srvsvc
  /\ pc \in Connecting \cup {"failed"} =>
       /\ share = Nil /\ ~srvsvc /\ ~mapped /\ ~native
       /\ task = Nil /\ data = Nil /\ op = "Connect"
  /\ pc \in {"closeShare", "logoff", "closeConn"} => ~srvsvc
  /\ pc \in {"logoff", "closeConn"} => share = Nil
  /\ pc \in Client \/ (pc \in Relocking /\ op # "SetShare") => ~srvsvc
  /\ pc \in Remounting \/ (pc \in Relocking /\ op = "SetShare") => share = Nil

\* What the method has in hand.
HandInv ==
  /\ pc \in (State \ Working) \cup {"ask", "mount", "mountRoot", "mountIpc", "query"} => hand = {}
  /\ pc = "unmount" => hand \subseteq Share
  /\ pc = "undoMount" => hand = {task}
  /\ pc = "openPipe" => hand = {"ipc"}
  /\ pc = "bind" => hand = {"ipc", "pipe"}
  /\ pc = "undoClient" => hand \subseteq {"ipc", "pipe"}
  /\ pc \in {"queryRoot", "unmountRoot"} => hand = {"root"}
  /\ pc \in Relocking => hand = IF op = "SetShare" THEN {task} ELSE {"ipc", "pipe"}
  /\ pc = "read" => hand = {task} /\ (tcp = "open" => share = task)

\* Which method it is.
OpInv ==
  /\ pc \in {"lock", "locked"} => op # "Connect"
  /\ pc = "native" => op \in PoolCall \cup (ShareCall \ {"GetShareSecurityDescriptor"})
  /\ pc = "ask" => op \in PoolCall
  /\ pc = "read" => op \in {"ListContents", "GetFileSecurityDescriptor"}
  /\ pc \in Client \cup {"query"} => op = "GetShareSecurityDescriptor"
  /\ pc \in Root => op = "GetShareRootSecurityDescriptor"
  /\ pc \in Remounting => op = "SetShare"
  /\ pc \in Relocking => op \in {"SetShare", "GetShareSecurityDescriptor"}
  /\ pc \in Closing => op = "Close"

\* The share that the caller has set, and the one that the session has.
TaskInv ==
  /\ op \in ShareCall \/ (op = "SetShare" /\ pc # "idle") => task # Nil
  /\ op = "SetShare" => data = Nil
  /\ task # Nil /\ (op = "SetShare" => pc = "idle") =>
       current = task /\ (~native /\ share # Nil => share = task)
  /\ pc = "native" => native
  /\ pc \in Working \cup {"lock", "locked"} /\ op # "Close" => ~native

\* The fields that are TRUE or FALSE.
Flags ==
  /\ conn \in BOOLEAN /\ session \in BOOLEAN /\ connected \in BOOLEAN
  /\ srvsvc \in BOOLEAN /\ native \in BOOLEAN /\ mapped \in BOOLEAN

SessionInv ==
  /\ TypeOK /\ LinkInv /\ MuInv /\ FieldInv /\ HandInv /\ OpInv /\ TaskInv
  /\ HandlesMatch /\ AnswersAboutTask

-----------------------------------------------------------------------------
(* The invariant is inductive: a lemma for each group of steps.  From here on  *)
(* the sets of states and of methods are expanded everywhere.                  *)

USE SessionAssumption
USE DEF SessionInv, TypeOK, LinkInv, MuInv, FieldInv, HandInv, OpInv, TaskInv,
        HandlesMatch, AnswersAboutTask
USE DEF Connecting, Closing, Client, Remounting, Root, Relocking, Held, Working,
        Op, PoolCall, ShareCall, State, Dialing, Asking, Resource, Fallback
USE DEF linkVars, fieldVars, nativeVars, callVars

\* A new session has nothing.
LEMMA SessionStarts == Init => SessionInv
  BY DEF Init

\* The steps of Connect, which ForceClose may overtake at each.
LEMMA ConnectSteps ==
  ASSUME SessionInv,
         Connect
  PROVE  SessionInv'
<1>1. CASE Dial
  <2>1. Flags'
    BY <1>1, Zenon DEF Dial, Flags
  <2> QED
    BY <1>1, <2>1, SMTT(60) DEF Dial, Flags
<1>2. CASE NewInitiator
  BY <1>2, SMTT(60) DEF NewInitiator, CloseTcp
<1>3. CASE Authenticate
  <2>1. Flags'
    BY <1>3, Zenon DEF Authenticate, CloseTcp, Flags
  <2> QED
    BY <1>3, <2>1, SMTT(60) DEF Authenticate, CloseTcp, Flags
<1>4. CASE StoreSession
  BY <1>4, SMTT(60) DEF StoreSession
<1>5. CASE StoreConnected
  BY <1>5, SMTT(60) DEF StoreConnected
<1> QED
  BY <1>1, <1>2, <1>3, <1>4, <1>5 DEF Connect

\* The beginning of a call, up to the point where mu is dropped.
LEMMA CallSteps ==
  ASSUME SessionInv,
         \/ \E o \in PoolCall \cup ShareCall \cup {"Close"} : Call(o)
         \/ \E s \in Share : CallSetShare(s)
         \/ NativeAnswer \/ Lock \/ Snapshot
  PROVE  SessionInv'
<1>1. ASSUME NEW o \in PoolCall \cup ShareCall \cup {"Close"}, Call(o) PROVE SessionInv'
  BY <1>1 DEF Call
<1>2. ASSUME NEW s \in Share, CallSetShare(s) PROVE SessionInv'
  BY <1>2 DEF CallSetShare
<1>3. CASE NativeAnswer
  BY <1>3, SMTT(60) DEF NativeAnswer
<1>4. CASE Lock
  BY <1>4 DEF Lock
<1>5. CASE Snapshot
  BY <1>5, SMTT(60) DEF Snapshot, Usable, Taken, FirstRequest, ReturnError
<1> QED
  BY <1>1, <1>2, <1>3, <1>4, <1>5

\* The requests, with mu free.
LEMMA RequestSteps ==
  ASSUME SessionInv,
         \/ Fails \/ DescriptorFails \/ Answer
         \/ Unmount \/ Open \/ ClientFails \/ Bind \/ UndoClient
  PROVE  SessionInv'
<1>1. CASE Fails
  <2>1. Flags'
    BY <1>1, Zenon DEF Fails, FallBack, ReturnError, Flags
  <2> QED
    BY <1>1, <2>1, SMTT(60) DEF Fails, FallBack, ReturnError, Flags
<1>2. CASE DescriptorFails
  BY <1>2, SMTT(60) DEF DescriptorFails, ReturnError
<1>3. CASE Answer
  BY <1>3, SMTT(60) DEF Answer
<1>4. CASE Unmount
  BY <1>4, SMTT(60) DEF Unmount
<1>5. CASE Open
  BY <1>5, SMTT(60) DEF Open, Opens
<1>6. CASE ClientFails
  BY <1>6, SMTT(60) DEF ClientFails, ReturnError
<1>7. CASE Bind
  BY <1>7, SMTT(60) DEF Bind
<1>8. CASE UndoClient
  BY <1>8, SMTT(60) DEF UndoClient, ReturnError
<1> QED
  BY <1>1, <1>2, <1>3, <1>4, <1>5, <1>6, <1>7, <1>8

\* What is stored under mu, when the session is still connected.
LEMMA StoreSteps ==
  ASSUME SessionInv,
         StoreShare \/ UndoMount \/ StoreClient
  PROVE  SessionInv'
<1>1. CASE StoreShare
  BY <1>1, SMTT(60) DEF StoreShare
<1>2. CASE UndoMount
  BY <1>2, SMTT(60) DEF UndoMount, ReturnError
<1>3. CASE StoreClient
  <2>1. Flags'
    BY <1>3, Zenon DEF StoreClient, Flags
  <2> QED
    BY <1>3, <2>1, SMTT(60) DEF StoreClient, Flags
<1> QED
  BY <1>1, <1>2, <1>3

\* The steps of Close, which holds mu.
LEMMA CloseSteps ==
  ASSUME SessionInv,
         Close
  PROVE  SessionInv'
<1>1. CASE CloseBegins
  BY <1>1, SMTT(60) DEF CloseBegins
<1>2. CASE CloseSrvsvc
  <2>1. Flags'
    BY <1>2, Zenon DEF CloseSrvsvc, Flags
  <2> QED
    BY <1>2, <2>1, SMTT(60) DEF CloseSrvsvc, Flags
<1>3. CASE CloseShare
  BY <1>3, SMTT(60) DEF CloseShare
<1>4. CASE Logoff
  <2>1. Flags'
    BY <1>4, Zenon DEF Logoff, Flags
  <2> QED
    BY <1>4, <2>1, SMTT(60) DEF Logoff, Flags
<1>5. CASE CloseConn
  <2>1. Flags'
    BY <1>5, Zenon DEF CloseConn, CloseTcp, Flags
  <2> QED
    BY <1>5, <2>1, SMTT(60) DEF CloseConn, CloseTcp, Flags
<1> QED
  BY <1>1, <1>2, <1>3, <1>4, <1>5 DEF Close

\* A ForceClose, wherever the goroutine stands.
LEMMA ForceSteps ==
  ASSUME SessionInv,
         ForceClose
  PROVE  SessionInv'
<1>1. CASE ForceLocked
  <2>1. Flags'
    BY <1>1, Zenon DEF ForceLocked, CloseTcp, Flags
  <2> QED
    BY <1>1, <2>1, SMTT(60) DEF ForceLocked, CloseTcp, Flags
<1>2. CASE ForceClean
  <2>1. Flags'
    BY <1>2, Zenon DEF ForceClean, Flags
  <2> QED
    BY <1>2, <2>1, SMTT(60) DEF ForceClean, Flags
<1>3. CASE ForceTcp
  BY <1>3, SMTT(60) DEF ForceTcp, CloseTcp
<1> QED
  BY <1>1, <1>2, <1>3 DEF ForceClose

LEMMA SessionInductive == SessionInv /\ [Next]_vars => SessionInv'
<1> SUFFICES ASSUME SessionInv, [Next]_vars PROVE SessionInv'
  OBVIOUS
<1>1. CASE UNCHANGED vars
  BY <1>1 DEF vars
<1>2. CASE Done
  BY <1>2 DEF Done, vars
<1> QED
  BY <1>1, <1>2, ConnectSteps, CallSteps, RequestSteps, StoreSteps, CloseSteps, ForceSteps
     DEF Next, CallStep

\* Consequences of the invariant.
LEMMA InvCleaned == SessionInv => CleanedStaysClean
  BY DEF CleanedStaysClean

LEMMA InvUnlocked == SessionInv => UnlockedWhileWaiting
  BY DEF UnlockedWhileWaiting

LEMMA InvNothingKept == SessionInv => NothingKept
  BY DEF NothingKept

-----------------------------------------------------------------------------
(* The refinement, step by step. *)

LEMMA LinkStarts == Init => Abstract!Init
  BY DEF Init, Abstract!Init, Link

\* Whether the goroutine or ForceClose takes it, a step moves the link forward once or
\* leaves it where it is, and an answer comes only while it is up.
LEMMA LinkSteps ==
  ASSUME SessionInv, [Next]_vars
  PROVE  [Abstract!Next]_(Abstract!vars)
<1> USE DEF Abstract!Next, Abstract!vars, Link
<1>1. CASE Connect
  BY <1>1, SMTT(60) DEF Connect, Dial, NewInitiator, Authenticate, StoreSession, StoreConnected,
     CloseTcp, Abstract!Dialed, Abstract!Authenticated, Abstract!Closed
<1>2. CASE \/ \E o \in PoolCall \cup ShareCall \cup {"Close"} : Call(o)
           \/ \E s \in Share : CallSetShare(s)
  BY <1>2, SMTT(60) DEF Call, CallSetShare, Abstract!NextCall
<1>3. CASE NativeAnswer \/ Lock \/ Snapshot
  BY <1>3, SMTT(60) DEF NativeAnswer, Lock, Snapshot, Usable, FirstRequest, ReturnError
<1>4. CASE Fails \/ DescriptorFails
  BY <1>4, SMTT(60) DEF Fails, DescriptorFails, FallBack, ReturnError, Abstract!NextCall
<1>5. CASE Answer
  BY <1>5, SMTT(60) DEF Answer, Abstract!Serve
<1>6. CASE Unmount \/ Open \/ ClientFails \/ Bind \/ UndoClient
  BY <1>6, SMTT(60) DEF Unmount, Open, Opens, ClientFails, Bind, UndoClient, ReturnError
<1>7. CASE StoreShare \/ UndoMount \/ StoreClient
  BY <1>7, SMTT(60) DEF StoreShare, UndoMount, StoreClient, ReturnError
<1>8. CASE Close
  BY <1>8, SMTT(60) DEF Close, CloseBegins, CloseSrvsvc, CloseShare, Logoff, CloseConn,
     CloseTcp, Abstract!Closed
<1>9. CASE ForceClose
  BY <1>9, SMTT(60) DEF ForceClose, ForceLocked, ForceClean, ForceTcp, CloseTcp, Abstract!Closed
<1>10. CASE Done \/ UNCHANGED vars
  BY <1>10 DEF Done, vars
<1> QED
  BY <1>1, <1>2, <1>3, <1>4, <1>5, <1>6, <1>7, <1>8, <1>9, <1>10 DEF Next, CallStep

-----------------------------------------------------------------------------
(* The theorems: the safety invariants of the run, and the refinement. *)

HIDE DEF SessionInv, TypeOK, LinkInv, MuInv, FieldInv, HandInv, OpInv, TaskInv,
         HandlesMatch, AnswersAboutTask
HIDE DEF Connecting, Closing, Client, Remounting, Root, Relocking, Held, Working,
         Op, PoolCall, ShareCall, State, Dialing, Asking, Resource, Fallback
HIDE DEF linkVars, fieldVars, nativeVars, callVars

LEMMA SessionInvariant == Spec => []SessionInv
<1> QED
  BY SessionStarts, SessionInductive, PTL DEF Spec

\* Every field and every local variable of the session keeps its type.
THEOREM SessionTypeCorrect == Spec => []TypeOK
<1>1. SessionInv => TypeOK
  BY DEF SessionInv
<1> QED
  BY <1>1, SessionInvariant, PTL

\* SetShare, the SRVSVC client and the descriptor queries neither forget what they
\* have opened on the server nor keep what is gone.
THEOREM HandlesAreKnown == Spec => []HandlesMatch
<1>1. SessionInv => HandlesMatch
  BY DEF SessionInv
<1> QED
  BY <1>1, SessionInvariant, PTL

\* What SetShare or NewSRVSVCClient has obtained meanwhile is not stored in a session
\* that ForceClose has cleaned.
THEOREM CleanIsKept == Spec => []CleanedStaysClean
<1> QED
  BY InvCleaned, SessionInvariant, PTL

\* mu is free whenever a method other than Close waits for the server.
THEOREM MuIsFree == Spec => []UnlockedWhileWaiting
<1> QED
  BY InvUnlocked, SessionInvariant, PTL

\* What ListContents and the descriptor queries return is of the share that is set.
THEOREM AnswersAreAboutTask == Spec => []AnswersAboutTask
<1>1. SessionInv => AnswersAboutTask
  BY DEF SessionInv
<1> QED
  BY <1>1, SessionInvariant, PTL

\* Connect when it fails, and Close, leave nothing open anywhere.
THEOREM ClosedLeavesNothing == Spec => []NothingKept
<1> QED
  BY InvNothingKept, SessionInvariant, PTL

\* The pool may take a session for a link that comes up once, goes down for good, and
\* answers only in between.
THEOREM SessionIsALink == Spec => ImplementsLink
<1> QED
  BY LinkStarts, LinkSteps, SessionInvariant, PTL DEF Spec, ImplementsLink, Abstract!Spec
=============================================================================
