------------------------------ MODULE SmbSession ------------------------------
(***************************************************************************)
(* One smb.SMBSession (Go/internal/smb/session.go) with its SRVSVC client  *)
(* (srvsvc.go) and its Windows fallback (native_windows.go): the goroutine *)
(* that was given the session calls its methods, as ProcessTarget and the  *)
(* collectors do, while the pool may call ForceClose at any point.         *)
(*                                                                         *)
(* Methods read and write the fields under mu, but drop it for the calls   *)
(* that wait for the server, so that ForceClose can come between.  Connect *)
(* does not take mu at all.                                                *)
(*                                                                         *)
(* server is what the server keeps open on the connection: a tree connect  *)
(* bears the name of its share, or "root" for the one that                 *)
(* GetShareRootSecurityDescriptor makes for itself; "ipc" and "pipe" are   *)
(* the tree connect and the pipe of the SRVSVC client.  All end with the   *)
(* connection.  A server that answers a tree disconnect does disconnect.   *)
(***************************************************************************)
EXTENDS FiniteSets

CONSTANTS
  Share,      \* the shares of the host
  Nil,
  Fallbacks   \* see Fallback

\* none: not Windows, or credentials it cannot use.  mapped: a user name and a
\* password, given to WNetAddConnection2.  logon: the session of the user.
Fallback == {"none", "mapped", "logon"}

ASSUME SessionAssumption ==
  /\ Nil \notin Share
  /\ (Share \cup {Nil}) \cap {"root", "ipc", "pipe", "list"} = {}
  /\ Fallbacks \subseteq Fallback

VARIABLES
  fallback,
  tcp,        \* the TCP connection: none, open, closed
  conn,       \* the field conn is set
  session,    \* the field session is set
  connected,
  share,      \* the field share, or Nil
  srvsvc,     \* the field srvsvcClient is set
  native,     \* nativeWindows
  mapped,     \* nativeConnected
  current,    \* currentShare
  mu,         \* who holds it
  server,
  pc, op,     \* the goroutine: where it is, and in which method
  hand,       \* what its local variables hold of server
  task,       \* the share it explores, once SetShare has been called
  data        \* history: the share that the answer to the current call is about

vars == <<fallback, tcp, conn, session, connected, share, srvsvc, native,
          mapped, current, mu, server, pc, op, hand, task, data>>

Op == {"Connect", "Ping", "ListShares", "SetShare", "ListContents",
       "GetFileSecurityDescriptor", "GetShareSecurityDescriptor",
       "GetShareRootSecurityDescriptor", "Close"}

\* Waiting for the server, with a deadline and without.
Dialing == {"dial", "auth"}
Asking  == {"ask", "unmount", "mount", "undoMount", "read", "mountIpc", "openPipe",
            "bind", "undoClient", "query", "mountRoot", "queryRoot", "unmountRoot",
            "closeSrvsvc", "closeShare", "logoff"}

State == Dialing \cup Asking \cup
         {"initiator", "authed", "stored", "idle", "lock", "locked", "relock",
          "relocked", "native", "closeConn", "closed", "failed"}

Resource == Share \cup {"root", "ipc", "pipe"}

TypeOK ==
  /\ fallback \in Fallbacks
  /\ tcp \in {"none", "open", "closed"}
  /\ conn \in BOOLEAN /\ session \in BOOLEAN /\ connected \in BOOLEAN
  /\ share \in Share \cup {Nil} /\ current \in Share \cup {Nil}
  /\ srvsvc \in BOOLEAN /\ native \in BOOLEAN /\ mapped \in BOOLEAN
  /\ mu \in {"free", "user", "forcer"}
  /\ server \in SUBSET Resource /\ hand \in SUBSET Resource
  /\ pc \in State /\ op \in Op
  /\ task \in Share \cup {Nil} /\ data \in Share \cup {Nil, "list"}

Init ==
  /\ fallback \in Fallbacks
  /\ tcp = "none" /\ conn = FALSE /\ session = FALSE /\ connected = FALSE
  /\ share = Nil /\ srvsvc = FALSE
  /\ native = FALSE /\ mapped = FALSE /\ current = Nil
  /\ mu = "free" /\ server = {}
  /\ pc = "dial" /\ op = "Connect" /\ hand = {} /\ task = Nil /\ data = Nil

linkVars   == <<tcp, conn, server>>
fieldVars  == <<session, connected, share, srvsvc>>
nativeVars == <<native, mapped, current>>
callVars   == <<op, hand, task, data>>

CloseTcp == tcp' = "closed" /\ server' = {}

-----------------------------------------------------------------------------
(* Connect, which never takes mu. *)

Dial ==
  /\ pc = "dial"
  /\ \/ tcp' = "open" /\ conn' = TRUE /\ pc' = "initiator"
     \/ pc' = "failed" /\ UNCHANGED <<tcp, conn>>
  /\ UNCHANGED <<fallback, server, fieldVars, nativeVars, mu, callVars>>

\* Mutant: the error of newInitiator leaves the connection open.
NewInitiatorLeaksTcp ==
  /\ pc = "initiator"
  /\ pc' \in {"auth", "failed"}
  /\ UNCHANGED <<fallback, linkVars, fieldVars, nativeVars, mu, callVars>>

NewInitiator ==
  /\ pc = "initiator"
  /\ \/ pc' = "auth" /\ UNCHANGED <<tcp, server>>
     \/ pc' = "failed" /\ CloseTcp
  /\ UNCHANGED <<fallback, conn, fieldVars, nativeVars, mu, callVars>>

\* DialConn.  Only the session of the Windows user is a way out of its failure.
Authenticate ==
  /\ pc = "auth"
  /\ \/ /\ tcp = "open" /\ pc' = "authed"
        /\ UNCHANGED <<linkVars, connected, nativeVars>>
     \/ /\ CloseTcp /\ conn' = FALSE
        /\ IF fallback = "logon"
           THEN native' = TRUE /\ connected' = TRUE /\ pc' = "idle"
           ELSE pc' = "failed" /\ UNCHANGED <<native, connected>>
        /\ UNCHANGED <<mapped, current>>
  /\ UNCHANGED <<fallback, session, share, srvsvc, mu, callVars>>

StoreSession ==
  /\ pc = "authed"
  /\ session' = TRUE /\ pc' = "stored"
  /\ UNCHANGED <<fallback, linkVars, connected, share, srvsvc, nativeVars, mu, callVars>>

\* connected, and the fallback, which the session of the user enables at once.
StoreConnected ==
  /\ pc = "stored"
  /\ connected' = TRUE /\ native' = (fallback = "logon") /\ pc' = "idle"
  /\ UNCHANGED <<fallback, linkVars, session, share, srvsvc, mapped, current, mu, callVars>>

Connect ==
  Dial \/ NewInitiator \/ Authenticate \/ StoreSession \/ StoreConnected

-----------------------------------------------------------------------------
(* Calls.  A session is pinged or listed when it comes from the pool, and    *)
(* used for one share at a time, whose descriptors and contents are read     *)
(* after a SetShare that succeeded; closing it is the last that is done.     *)

PoolCall  == {"Ping", "ListShares"}
ShareCall == {"ListContents", "GetFileSecurityDescriptor",
              "GetShareSecurityDescriptor", "GetShareRootSecurityDescriptor"}

\* In native mode a method does not touch the connection, and there is no
\* descriptor of a share to be had.
Call(o) ==
  /\ pc = "idle"
  /\ op' = o /\ data' = Nil
  /\ task' = IF o \in ShareCall THEN task ELSE Nil
  /\ o \in ShareCall => task # Nil
  /\ pc' = IF native /\ o # "Close"
           THEN IF o = "GetShareSecurityDescriptor" THEN "idle" ELSE "native"
           ELSE "lock"
  /\ UNCHANGED <<fallback, linkVars, fieldVars, nativeVars, mu, hand>>

CallSetShare(s) ==
  /\ pc = "idle"
  /\ op' = "SetShare" /\ data' = Nil /\ task' = s
  /\ IF native THEN current' = s /\ pc' = "idle" ELSE pc' = "lock" /\ UNCHANGED current
  /\ UNCHANGED <<fallback, linkVars, fieldVars, native, mapped, mu, hand>>

\* An answer of Windows, or an error.
NativeAnswer ==
  /\ pc = "native"
  /\ data' \in {Nil, CASE op \in PoolCall -> "list"
                       [] op = "GetShareRootSecurityDescriptor" -> task
                       [] OTHER -> current}
  /\ pc' = "idle"
  /\ UNCHANGED <<fallback, linkVars, fieldVars, nativeVars, mu, op, hand, task>>

Lock ==
  /\ pc \in {"lock", "relock"} /\ mu = "free"
  /\ mu' = "user" /\ pc' = IF pc = "lock" THEN "locked" ELSE "relocked"
  /\ UNCHANGED <<fallback, linkVars, fieldVars, nativeVars, callVars>>

\* The method returns; a SetShare that failed leaves the caller without a share.
ReturnError ==
  /\ pc' = "idle" /\ hand' = {}
  /\ task' = IF op = "SetShare" THEN Nil ELSE task

\* What the method finds under mu: is the session usable, which share does it
\* take along, and where does it go on.
Usable == connected /\ IF op \in {"ListContents", "GetFileSecurityDescriptor"}
                       THEN share # Nil ELSE session

\* Mutant: a share that is not set is taken along.
TakenUnchecked ==
  IF op \in {"SetShare", "ListContents", "GetFileSecurityDescriptor"} THEN {share} ELSE {}

Taken ==
  IF op \in {"SetShare", "ListContents", "GetFileSecurityDescriptor"}
  THEN {share} \ {Nil} ELSE {}

FirstRequest ==
  CASE op \in PoolCall -> "ask"
    [] op = "SetShare" -> IF share = Nil THEN "mount" ELSE "unmount"
    [] op = "GetShareSecurityDescriptor" -> IF srvsvc THEN "query" ELSE "mountIpc"
    [] op = "GetShareRootSecurityDescriptor" -> "mountRoot"
    [] OTHER -> "read"

\* Mutant: the old share is not marked as gone while it is replaced.
SnapshotKeepsShare ==
  /\ pc = "locked" /\ op # "Close"
  /\ mu' = "free"
  /\ IF Usable THEN hand' = Taken /\ pc' = FirstRequest /\ UNCHANGED task ELSE ReturnError
  /\ UNCHANGED <<fallback, linkVars, fieldVars, nativeVars, op, data>>

\* Mutant: mu is kept over the request.
SnapshotKeepsMu ==
  /\ pc = "locked" /\ op # "Close"
  /\ IF Usable
     THEN /\ share' = IF op = "SetShare" THEN Nil ELSE share
          /\ hand' = Taken /\ pc' = FirstRequest /\ UNCHANGED <<mu, task>>
     ELSE mu' = "free" /\ ReturnError /\ UNCHANGED share
  /\ UNCHANGED <<fallback, linkVars, session, connected, srvsvc, nativeVars, op, data>>

Snapshot ==
  /\ pc = "locked" /\ op # "Close"
  /\ mu' = "free"
  /\ IF Usable
     THEN /\ share' = IF op = "SetShare" THEN Nil ELSE share
          /\ hand' = Taken /\ pc' = FirstRequest /\ UNCHANGED task
     ELSE ReturnError /\ UNCHANGED share
  /\ UNCHANGED <<fallback, linkVars, session, connected, srvsvc, nativeVars, op, data>>

-----------------------------------------------------------------------------
(* Requests.  A server answers while the connection is open; the error of a  *)
(* server and of a closed connection are alike.                              *)

\* Mutant: the fallback of SetShare does not set currentShare.
FallBackKeepsCurrent ==
  /\ fallback # "none"
  /\ native' = TRUE /\ mapped' = (mapped \/ fallback = "mapped")
  /\ hand' = {} /\ UNCHANGED <<task, current>>
  /\ pc' = IF op = "SetShare" THEN "idle" ELSE "native"

\* activateNativeWindowsFallback after an error: the method goes on natively.
FallBack ==
  /\ fallback # "none"
  /\ native' = TRUE /\ mapped' = (mapped \/ fallback = "mapped")
  /\ hand' = {} /\ UNCHANGED task
  /\ IF op = "SetShare" THEN current' = task /\ pc' = "idle"
                        ELSE UNCHANGED current /\ pc' = "native"

\* Mutant: the method dials again and asks once more.
FailsReconnects ==
  /\ pc \in {"ask", "mount", "mountRoot"} \/ (pc = "read" /\ op = "ListContents")
  /\ tcp' = "open"
  /\ UNCHANGED <<fallback, conn, server, pc, fieldVars, nativeVars, mu, callVars>>

\* The requests whose error activates the fallback.
Fails ==
  /\ pc \in {"ask", "mount", "mountRoot"} \/ (pc = "read" /\ op = "ListContents")
  /\ FallBack \/ (ReturnError /\ UNCHANGED nativeVars)
  /\ UNCHANGED <<fallback, linkVars, fieldVars, mu, op, data>>

\* QuerySecurityDescriptorLinked reports no error, so there is no fallback.
DescriptorFails ==
  /\ \/ pc = "read" /\ op = "GetFileSecurityDescriptor" /\ ReturnError
     \/ pc = "query" /\ ReturnError
     \/ pc = "queryRoot" /\ pc' = "unmountRoot" /\ UNCHANGED <<hand, task>>
  /\ UNCHANGED <<fallback, linkVars, fieldVars, nativeVars, mu, op, data>>

\* ListSharenames, ReadDir, SecurityInfoRaw and the request of the SRVSVC client.
Answer ==
  /\ pc \in {"ask", "read", "query", "queryRoot"} /\ tcp = "open"
  /\ data' \in CASE pc = "ask"  -> {"list"}
                 [] pc = "read" -> hand
                 [] OTHER       -> {task}
  /\ IF pc = "queryRoot" THEN pc' = "unmountRoot" /\ UNCHANGED hand
                         ELSE pc' = "idle" /\ hand' = {}
  /\ UNCHANGED <<fallback, linkVars, fieldVars, nativeVars, mu, op, task>>

\* Umount, answered or not.
Unmount ==
  /\ pc \in {"unmount", "unmountRoot"}
  /\ server' = server \ hand /\ hand' = {}
  /\ pc' = IF pc = "unmount" THEN "mount" ELSE "idle"
  /\ UNCHANGED <<fallback, tcp, conn, fieldVars, nativeVars, mu, op, task, data>>

Opens(r, next) ==
  /\ tcp = "open"
  /\ server' = server \cup {r} /\ hand' = hand \cup {r}
  /\ pc' = next

\* Session.Mount, Share.OpenFile.
Open ==
  /\ \/ pc = "mount"     /\ Opens(task, "relock")
     \/ pc = "mountRoot" /\ Opens("root", "queryRoot")
     \/ pc = "mountIpc"  /\ Opens("ipc", "openPipe")
     \/ pc = "openPipe"  /\ Opens("pipe", "bind")
  /\ UNCHANGED <<fallback, tcp, conn, fieldVars, nativeVars, mu, op, task, data>>

\* NewSRVSVCClient undoes what it has done.
ClientFails ==
  /\ pc \in {"mountIpc", "openPipe", "bind"}
  /\ IF hand = {} THEN ReturnError ELSE pc' = "undoClient" /\ UNCHANGED <<hand, task>>
  /\ UNCHANGED <<fallback, linkVars, fieldVars, nativeVars, mu, op, data>>

Bind ==
  /\ pc = "bind" /\ tcp = "open"
  /\ pc' = "relock"
  /\ UNCHANGED <<fallback, linkVars, fieldVars, nativeVars, mu, callVars>>

\* SRVSVCClient.Close of a client that nobody else has, then the error.
UndoClient ==
  /\ pc = "undoClient"
  /\ server' = server \ hand /\ ReturnError
  /\ UNCHANGED <<fallback, tcp, conn, fieldVars, nativeVars, mu, op, data>>

-----------------------------------------------------------------------------
(* Under mu again: has ForceClose come in between? *)

\* Mutant: SetShare does not look.
StoreShareUnchecked ==
  /\ pc = "relocked" /\ op = "SetShare"
  /\ share' = task /\ current' = task
  /\ hand' = {} /\ mu' = "free" /\ pc' = "idle"
  /\ UNCHANGED <<fallback, linkVars, session, connected, srvsvc, native, mapped, op, task, data>>

StoreShare ==
  /\ pc = "relocked" /\ op = "SetShare"
  /\ IF connected
     THEN /\ share' = task /\ current' = task
          /\ hand' = {} /\ mu' = "free" /\ pc' = "idle"
     ELSE pc' = "undoMount" /\ UNCHANGED <<share, current, hand, mu>>
  /\ UNCHANGED <<fallback, linkVars, session, connected, srvsvc, native, mapped, op, task, data>>

\* The deferred Unlock keeps mu over this Umount.
UndoMount ==
  /\ pc = "undoMount"
  /\ server' = server \ hand /\ mu' = "free" /\ ReturnError
  /\ UNCHANGED <<fallback, tcp, conn, fieldVars, nativeVars, op, data>>

StoreClient ==
  /\ pc = "relocked" /\ op = "GetShareSecurityDescriptor"
  /\ mu' = "free"
  /\ IF connected
     THEN srvsvc' = TRUE /\ hand' = {} /\ pc' = "query"
     ELSE pc' = "undoClient" /\ UNCHANGED <<srvsvc, hand>>
  /\ UNCHANGED <<fallback, linkVars, session, connected, share, nativeVars, op, task, data>>

-----------------------------------------------------------------------------
(* Close, which keeps mu throughout. *)

CloseBegins ==
  /\ pc = "locked" /\ op = "Close"
  /\ pc' = "closeSrvsvc"
  /\ UNCHANGED <<fallback, linkVars, fieldVars, nativeVars, mu, callVars>>

CloseSrvsvc ==
  /\ pc = "closeSrvsvc"
  /\ srvsvc' = FALSE /\ server' = server \ {"ipc", "pipe"}
  /\ pc' = "closeShare"
  /\ UNCHANGED <<fallback, tcp, conn, session, connected, share, nativeVars, mu, callVars>>

CloseShare ==
  /\ pc = "closeShare"
  /\ share' = Nil /\ server' = server \ {share}
  /\ pc' = "logoff"
  /\ UNCHANGED <<fallback, tcp, conn, session, connected, srvsvc, nativeVars, mu, callVars>>

Logoff ==
  /\ pc = "logoff"
  /\ session' = FALSE /\ pc' = "closeConn"
  /\ UNCHANGED <<fallback, linkVars, connected, share, srvsvc, nativeVars, mu, callVars>>

\* closeNativeWindowsFallback, which leaves nativeWindows set, and the rest.
CloseConn ==
  /\ pc = "closeConn"
  /\ mapped' = FALSE
  /\ IF conn THEN CloseTcp ELSE UNCHANGED <<tcp, server>>
  /\ conn' = FALSE /\ connected' = FALSE /\ mu' = "free" /\ pc' = "closed"
  /\ UNCHANGED <<fallback, session, share, srvsvc, native, current, callVars>>

Close == CloseBegins \/ CloseSrvsvc \/ CloseShare \/ Logoff \/ CloseConn

\* What follows the beginning of a call.
CallStep ==
  \/ Connect \/ Close
  \/ NativeAnswer \/ Lock \/ Snapshot
  \/ Fails \/ DescriptorFails \/ Answer
  \/ Unmount \/ Open \/ ClientFails \/ Bind \/ UndoClient
  \/ StoreShare \/ UndoMount \/ StoreClient

-----------------------------------------------------------------------------
(* ForceClose, which the pool calls one at a time. *)

\* TryLock succeeds: the connection goes first ...
ForceLocked ==
  /\ mu = "free"
  /\ mu' = "forcer" /\ conn' = FALSE
  /\ IF conn THEN CloseTcp ELSE UNCHANGED <<tcp, server>>
  /\ UNCHANGED <<fallback, fieldVars, nativeVars, pc, callVars>>

\* ... then everything that was made of it.
ForceClean ==
  /\ mu = "forcer"
  /\ mu' = "free"
  /\ srvsvc' = FALSE /\ share' = Nil /\ session' = FALSE /\ connected' = FALSE
  /\ mapped' = FALSE
  /\ UNCHANGED <<fallback, linkVars, native, current, pc, callVars>>

\* TryLock fails: only the TCP connection is closed, under whoever holds mu.
ForceTcp ==
  /\ mu = "user" /\ conn
  /\ CloseTcp
  /\ UNCHANGED <<fallback, conn, fieldVars, nativeVars, mu, pc, callVars>>

ForceClose == ForceLocked \/ ForceClean \/ ForceTcp

Done == pc \in {"closed", "failed"} /\ UNCHANGED vars

Next ==
  \/ \E o \in PoolCall \cup ShareCall \cup {"Close"} : Call(o)
  \/ \E s \in Share : CallSetShare(s)
  \/ CallStep
  \/ ForceClose
  \/ Done

Spec == Init /\ [][Next]_vars

\* A call goes on unless it waits for an answer: to dial and to authenticate have
\* a deadline, a closed connection answers everything with an error, and Windows
\* answers when it likes.  Nobody starves at mu: ForceClose does not queue for it.
Waiting == (pc \in Asking /\ tcp = "open") \/ pc = "native"

LiveSpec ==
  /\ Spec
  /\ WF_vars(~Waiting /\ CallStep) /\ SF_vars(Lock)
  /\ WF_vars(ForceClean)

-----------------------------------------------------------------------------
(* Properties. *)

\* What the server keeps open for this session is what the session knows of: no
\* path out of SetShare, the SRVSVC client or a descriptor query, with or without
\* a ForceClose in between, forgets a tree connect or keeps one that is gone.
HandlesMatch ==
  tcp = "open" =>
    server = hand \cup ({share} \ {Nil}) \cup (IF srvsvc THEN {"ipc", "pipe"} ELSE {})

\* A session that ForceClose has cleaned stays so: what was mounted or bound
\* meanwhile is not stored in it.
CleanedStaysClean ==
  ~connected /\ mu = "free" => share = Nil /\ ~srvsvc

\* session.go: "Does NOT hold s.mu during network operations (Mount/Umount) to
\* allow ForceClose to interrupt blocked I/O": whoever waits for an answer with
\* mu held is in Close, or waits on a connection that is closed.
UnlockedWhileWaiting ==
  mu = "user" /\ pc \in Asking => op = "Close" \/ tcp = "closed"

\* What a call returns is about the share that the caller has set, also when the
\* fallback took over half-way or a ForceClose came between two calls.
AnswersAboutTask == data \in {Nil, "list", task}

\* A session that was closed, or that Connect gave up, leaves nothing behind: no
\* connection, nothing open on the server, no mapping in Windows.
NothingKept ==
  pc \in {"closed", "failed"} => tcp # "open" /\ server = {} /\ ~mapped

\* The assumption of HostScan: a call ends once its connection is closed (unless
\* it has gone on natively).
ForcedCallEnds ==
  (tcp = "closed" /\ pc \notin {"idle", "closed", "failed"})
    ~> (pc \in {"idle", "closed", "failed", "native"})

\* What the pool sees of the session, on which ImplementsLink rests.
Link ==
  CASE tcp = "open"   -> IF pc \in {"initiator", "auth"} THEN "auth" ELSE "up"
    [] tcp = "closed" -> "closed"
    [] tcp = "none"   -> IF pc = "dial" THEN "dialing" ELSE "closed"

Abstract == INSTANCE SessionLink WITH link <- Link, served <- (data # Nil /\ ~native)

\* The session is what ConnectionPool takes it to be: it comes up once, goes down for
\* good, and obtains nothing from the server after that, unless it asks Windows.
ImplementsLink == Abstract!Spec
=============================================================================
