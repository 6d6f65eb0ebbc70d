# ShareHound in TLA+

ShareHound scans SMB hosts and writes a BloodHound OpenGraph of who may reach
which share, directory and file. The repository holds two programs: a Go rewrite
(`src/Go`), which this project models, and the older Python version
(`src/Python`), which the plan reaches last. `src/Go/third_party/go-smb2` is a
vendored fork of an SMB2 client.

## 1. Inventory

### The Go program

| part | state | operations | correct when |
|---|---|---|---|
| `run()` (`cmd/sharehound/main.go`) | target lists, a semaphore of `--threads`, a wait group, the signal goroutine | resume, dispatch, wait, final save, export, cleanup | every target is scanned once, nothing finished is lost, the run ends |
| `checkpoint.Manager` | processed set, saver goroutine, `saveChan`, `stopChan`, `X.tmp` and `X` | Start, Mark, TriggerSave, Stop, saveCheckpoint, Load, Restore, Delete | the file on disk is whole and covers every target it names |
| `graph.OpenGraph` | ID sets, two buffered NDJSON files | AddNode, AddEdge, GetNodesAndEdges, Restore, Export, Close | no duplicate records; an export has all of them |
| `graph.OpenGraphContext` | host, share, path stack, current element, emitted directories | AddPathToGraph, rights edges, push and pop | records in an order in which no edge precedes its nodes |
| `worker.ProcessTarget` | timeout flag, semaphore, watcher, ticker, counters | one goroutine per share, early returns | ends, frees everything, counts each host and task once |
| `worker.ConnectionPool` | pooled sessions, active sessions | Get, Return, CloseAll, ForceCloseAll | private, bounded, interruptible sessions |
| `smb.SMBSession` | TCP connection, session, share, SRVSVC client, `mu` | Connect, Ping, SetShare, ListContents, Close, ForceClose | a forced close wins over whatever else is going on |
| `collector` | recursion, counts | traversal with depth limit, skips, timeout checks | each entry once, counters add up |
| `rules` | rule list, evaluation context | parse, CanExplore, CanProcess | a rule means what its author reads in it; first match decides |
| descriptors, SIDs, masks (`smb/*.go`), rights (`collector/*_rights.go`) | none | parse a list, masks to edges | an edge says what the list grants |
| `targets`, with `ldap` and `utils/network.go` | list of targets | file, command line, computers, servers, subnets | every source that works is used, each host once |
| `status` | last values | print | hosts done at most hosts to do |
| DNS, SID resolution, Kerberos, config, logging | caches, files | I/O | not modelled |

The main goroutine, up to `--threads` target goroutines, the saver, the signal
goroutine and the progress printer share the graph (one mutex), the results (one
mutex) and the manager (one RWMutex). Inside a target there are the goroutine of
`ProcessTarget`, one per share, the timer callback, its ticker and the watcher of
the semaphore context; they share the pool and an atomic flag.

Hard behaviours: a save runs while records and marks go on arriving; the process
may be killed between any two steps and resumes from the file; a signal, a busy
saver and the end of the scan race for two channels; a host timeout closes
sessions under goroutines that are connecting, pinging or returning them.
PROJECT.json lists these hazards by line.

### The Python program

`worker.py` (thread pool, retry with backoff, host timeout by cancelled futures,
pool), `StreamingOpenGraph.py` (the same store, atomic export with byte limits),
`__main__.py` (snapshot thread), collectors and sessions.

## 2. Modules

    OpenGraph       the store                          graph/opengraph.go
      Checkpoint    manager, saver, files              checkpoint/checkpoint.go, GetNodesAndEdges
        Scan        run(), workers, signal, kill       cmd/sharehound/main.go
          DurableScan  what Scan promises (abstract)
          MCScan       instances
          ScanProofs   theorems
    ConnectionPool  sessions of one host               worker/pool.go, smb/session.go
      HostScan      ProcessTarget, host timeout        worker/worker.go
        MCHostScan     instances
        HostScanProofs theorems
    SmbSession      one session, step by step          smb/session.go, srvsvc.go, native_windows.go
      SessionLink      what ConnectionPool takes it for (abstract)
      MCSmbSession     instances
      SmbSessionProofs theorems
    Rules           the first rule decides             rules/evaluator.go, rule.go
    Rights          lists, masks, effective rights     smb/security_descriptor.go, access_mask.go,
                                                       collector/*_rights.go
      Traversal     one share, its records, counters   collector/contents.go, graph/context.go,
        MCTraversal    instances                       processShare
        TraversalProofs theorems
    Comparisons     values of ShareQL                  rules/rule.go
      ShareQL       parser and evaluation              rules/parser.go, rule.go, evaluator.go
        ShareQLStart   from the command line to a decision
          MCShareQL      instances
          ShareQLProofs, ShareQLReadingProofs  theorems
    Targets         the list of targets                targets/loader.go, ldap/client.go,
      MCTargets        instances                       utils/network.go
      TargetsProofs    theorems
    SequenceLemmas  sequences, sets and induction; TraversalProofs, TargetsProofs and
                    ShareQLProofs rest on it

A module's operators prime its own variables; the one that extends it says where
each goroutine stands and conjoins them. Mutants stand before the definition they
replace and are marked "Mutant:"; no specification uses them.

### Scan

*Data.* A record is a model value; `Ends[e]` are the nodes an edge needs in the
graph (endpoints matched by name, such as Computer nodes and principals, are not
among them). `Yield[t]` is what target `t` can emit. `found[t]` is a history
variable, what the latest attempt at `t` has emitted; it is reset when a resume is
about to repeat `t`. `Target \ Loaded` are targets of an earlier list, which the
initial checkpoint names. Two more history variables speak of reads that failed: a
checkpoint is `whole` when none of its save did, and the scan is `trusted` as long as no
start has resumed from one that is not.

*Store.* `nodeFile`/`nodeBuf` split the record file into what is on disk and what
is in its `bufio.Writer`. An add goes to either, since the buffer flushes itself
when it is full, now and then at the end of a record. `FlushBoth` empties both buffers
under the lock.

*Saver.* `WakeOnStop`, `WakeOnTick`, `WakeOnTrigger` are the cases of the select;
after them one action per step of `saveCheckpoint`: `CopyProcessed`, `FlushStore`,
`ReadNodes`, `ReadEdges`, `BeginWrite`, `EndWrite`, `RenameTemp`. `WriteFails` and
`RenameFails` are its error returns, which the caller ignores. The two reads have no error
to return: with the event `read`, what they hand to the save is any part of the file
(`ReadOf`), as after an `os.Open` or a `Decode` that fails, and the save goes on.

*Main.* `Resume`, `LoadFails`; `CheckStop`, `Spawn`, `DispatchEnds` (the loop);
`StopManager`, `ManagerStopped` (`wg.Wait`, the two halves of `Stop`);
`BeginExport`, `EndExport`, `ExportFails`; `Cleanup`. The loop's `break` leaves the
`select` only, so `CheckStop` changes nothing but `stopSeen`.

*Crash* kills the process, or restarts one that exited with an error, always with
`--checkpoint X --resume` and the same target list. Disk writes that returned are
kept in order: a power loss, which may reorder the rename and the data, is not
modelled. `Events` names the failures an instance allows.

### HostScan

A goroutine calls `GetConnection` once, so a session bears the name of the
goroutine that creates it. `link[s]` is the session's TCP connection: `dialing`
(its `conn` is nil), `auth`, `up`, `closed`. A session whose `DialConn` succeeds
after a forced close (`session` and `connected` are set again over a closed
connection) stays `closed`: every call on it fails. `GetConnection` is split where
it drops `p.mu`: `Get`, `PingAnswers`/`PingFails`, `Drop`, `Create`, `Dial`,
`Authenticate`, `GetFails`; `UseSession` is the check of the flag that follows it.
`p.mu` is held over a blocking call only in `CloseAll`, hence `PoolUnlocked`.
`timer` tells the callback of `AfterFunc` and its ticker; the order of
`StartTicker` and `StopTimer` is the outcome of the race on `timeoutTicker`.

What a share's exploration does (SetShare, rights, traversal) is one call that
ends, a goroutine being "working"; all its calls on the connection fail once that is
closed.

### SmbSession

One goroutine has the session and calls its methods in the orders that
`ProcessTarget` and the collectors produce: a ping or a listing when the session comes
from the pool, descriptors and contents of a share after a SetShare that succeeded,
Close at the end. At any point the pool may call `ForceClose`. A method is cut where it
takes and drops `mu`: `Lock`, `Snapshot` (the section in which it looks whether the
session is usable and takes copies along), one action per request, `Lock` again,
`StoreShare` or `StoreClient`. `Connect` never takes `mu`, so `Dial`, `NewInitiator`,
`Authenticate`, `StoreSession` and `StoreConnected` are open to anything in between.
`ForceLocked` closes the connection and `ForceClean` the rest (TryLock succeeded);
`ForceTcp` is the other path. `server` is what the server keeps open for the session;
`hand` is the part of it that only local variables know of; `data` is a history variable,
what the answer of the current call was about.

The Windows fallback is `fallback`: none (not Windows, or hashes and keys), the password
given to WNetAddConnection2, or the session of the Windows user. Its calls do not touch
the connection, and end with an answer or an error when Windows likes. A write that
`Connect` and `ForceClose` make to one field without a common lock happens in one order
or the other.

`SessionLink` is the same session as ConnectionPool sees it: dialing, auth, up,
closed. Two modules meet there: one session implements it (`ImplementsLink`), and to every
session of a host nothing else happens (`SessionsAreLinks`), so that HostScan may take a
session for that.

### Rules, ShareQL and Traversal

`Decide` is `evaluate`, given the rules whose conditions hold. In `Traversal` the
condition is abstracted (`Rules.Evaluate`) to the objects for which it holds, so a rule
about large files is a rule about the files in a set; there what matters is which object
the context holds when a rule is asked. In `ShareQL` the text is kept, since the parser
searches for keywords in it: a text is a sequence of tokens (`Token`, any set with the
reserved words), with blanks, quotes and brackets as tokens of their own, and words cut
behind a keyword that they begin with. `splitAtKeyword` copies bytes as characters, which
changes every token outside ASCII (`Recoded`; the constant `Recode` says into what);
`splitListItems` copies characters. A `Condition` of the code is an interface with one
method; in the model it is the function from contexts to answers that the method computes.
What a function of the parser returns is a condition or rule, an error, or a panic
(`panics`: the value that is one quote). `Comparisons` keeps what `rule.go` does to numbers:
they become the character with that code. The package regexp is two constants, `Compiles`
and `Matches`.

`ShareQLStart` writes down what a user means: lines whose condition is the list of its
parts, each after those it is made of, with or without the brackets that precedence makes
optional; and lines in which something else stands where `IF` should (`Loose`). A command line
(`CommandLines`) has lines in rules files, which may be missing, and lines in options;
`InForce` are the ones that `run()` parses, or the parser's own. The code parses them and is
asked about objects; `Allowed` is what the lines mean, by the grammar of `Go/README.md`.
`IsLine` says what a user may write: comparisons within a kind, strings that can be put in
quotes and whose brackets match, no comparator that the parser looks for before the real
one, nothing outside ASCII where AND or OR cuts, and lines at fault that look like no rule.
What it leaves out is what the parser gets wrong; section 3 lists it. `WritingAssumption` demands
it of all command lines, and TLC evaluates it on those of the runs.

`Traversal` is that "working" goroutine. `stack` holds the activations of
`collectContentsAtDepth`, each with the entries it has still to visit, `dirsToExplore`
and its counts; `pc` says where the innermost one is: `Enter` (the early returns),
`VisitDirectory` and `VisitFile` (one iteration of the loop, in any order, as Go
iterates over a map), `EndEntries`, `Descend` (PushPath and the call), `EndDirs`,
`Leave` (the return, the counters under the lock, PopPath). `Start` is `processShare`
up to the call, `Finish` what `ProcessTarget` adds at the end. `path`,
`hostShareEmitted`, `emittedPathNodes` are those of `OpenGraphContext`; its current
element is the argument of `AddPathToGraph`, since it is set just before and cleared
just after. `context` is the evaluator's, kept for the whole share. `unlisted` and
`outcome`, what the visit of each entry decided, are history variables.

`emitted` is the sequence of records given to the store. Of it Scan takes two things:
an edge comes after its nodes (its `Emit` has that guard), and the records of a target
may stop at any point. Properties of `emitted` hold in every state, hence of every
prefix. That the store drops duplicates (OpenGraph) is not used: `EmittedOnce` holds of
what it is given.

The descriptors of a share and of its entries are lists as they come from the server:
entries that allow, deny or are of another type, entries without a SID, and entries that
are cut and end the parsing. `Rights` says which edges the code draws from them;
`shareList` is whichever list `CollectShareRights` got: that of the share, that of its
root directory, or none.

### Targets

One action per source, in the order of `LoadTargets`: `CheckDC`, `LoadFromFile`,
`LoadFromOptions`, `LoadComputers`, `LoadServers`, `LoadSubnets`, `Classify`. Each may
fail, with what the code does then; `loaded` is a history variable, the sources that were
read. The run ends in a scan, with nothing to scan, or because the domain controller did not
answer (`Ends`). Credentials are the set of options that the user
gave; `bind` is the LDAP bind that follows from them. Addresses are numbers, networks a
number and a prefix length.

## 3. Runs

| run | question | instance | result |
|---|---|---|---|
| `scan_faults` | is finished work ever lost other than by a resume from a save whose reads failed, is the export whole, is `DurableScan` implemented? | 2 targets sharing a node, one with an edge to it, 2 threads, 1 crash, all failures | holds |
| `scan_live` | does a scan end, and is the checkpoint deleted exactly if all of it was this list? | an earlier list's checkpoint on disk, 1 crash, failing saves | holds |
| `scan_signal` | does a signal save what is finished, hosts hung and saver busy; is the file left by `Stop` the whole scan? | signal, scans that end early | holds |
| `scan_stop_dispatch` | does the loop stop at the signal, as it logs? | signal only | violated |
| `host_timeout` | sessions private, bounded, interruptible, all closed, each up once; counters; does the timeout end a host that stops answering? | 3 shares, 2 permits, every failure, timeout anywhere | holds |
| `host_close_hangs` | does it end one that stops answering at logoff? | 2 shares | violated |
| `session` | is nothing forgotten on the server or stored in a closed session, are answers about the right share, does a forced call end, is it the link the pool takes it for? | 2 shares, the three fallbacks, any failure, ForceClose at any step and again | holds |
| `traversal` | are records in order and once; do edges say what the lists grant; is all that the rules allow explored and nothing else; are the counts exact? | 9 entries on 4 levels, 8 lists of rules, depth 3, failures, timeout anywhere | holds |
| `traversal_rules` | is a directory that the rules allow in the graph, under a rule about large files? | the same tree | violated |
| `shareql` | does a rule mean what its author reads in it; does no scan run with a rule in force missing? | every comparator, conditions of up to three comparisons, faulty lines, comments, several rules; files, options, both, neither | holds |
| `shareql_sizes` | the same for sizes above the codes of characters | one rule about an exact size | violated |
| `targets` | are the user's lists used whatever fails but the controller; is no host lost or added at the edges of networks; is none scanned that nobody asked for? | every combination of sources and credentials, every failure | holds |

*Bounds.* Two targets with one common node give every order of two workers, of a
worker and a save, and a record found already present (in file or buffer). One
crash gives every pair of a lost attempt and a resumed one; a second crash finds
the disk in a state the first could have left. Two threads let one target be
finished and another running during a save. A read that fails returns any part of a file, so
that one node and one edge give every loss: the node without the edge, the edge without the
node, both. Three shares on two permits give two
goroutines in `GetConnection`, two uses of one session, and one goroutine waiting.
No counter of the program is bounded other than `MaxCrashes`; the counters of
HostScan are bounded by the number of shares. The tree of MCTraversal has two sibling
directories, so that one is entered after the other has been left early, a path of
three directories none of which need be in the graph before its file is, an entry
below the depth limit, and files whose rights come from the nearest directory, a
farther one or the share. Links that make the tree a graph are not
modelled. Its lists of rights have a principal that is denied, one without a SID, an entry
of another type, a cut entry with a grant behind it, two entries for one principal, and
principals with a right at the share only or in the file system only.

Two shares in SmbSession give a SetShare with an old share to unmount, and answers about
the wrong one; the methods can be called in any number and order, so nothing is bounded
there. Conditions of three comparisons give every nesting of two of NOT, AND and OR; the
strings in them hold blanks, keywords, commas, quotes, comparators and a word outside ASCII,
and the patterns a group and one that does not compile. The small Unicode
of the runs has 13 codes with one capital, two surrogates and the replacement; numbers
are compared on both sides of its end. Addresses of four bits hold networks of one, two,
four and eight addresses, inside each other, next to each other and at the last address.

*Fairness.* Goroutines that can run do (weak fairness of main, of each worker and
of the steps of a save). Go's `select` chooses at random among ready cases, so a
case that is ready again and again is taken: strong fairness of `WakeOnStop` and
`WakeOnTrigger`. Ticks, signals, crashes are never promised. `HungSpec` leaves the
workers unfair: with no host timeout a host may hang for ever, and `SignalSaves`
holds all the same. In HostScan a call that waits for the server is fair only when
its connection is closed or its operation is not in `Hangs`; dialing and
authenticating have deadlines. The armed timer fires, since time passes. In SmbSession a
step is fair unless it waits for the server on an open connection or for Windows; `Lock`
is strongly fair, since ForceClose uses TryLock and holds `mu` briefly.

*Violations.* Each is a sentence of the repository that the code does not keep;
PROJECT.json quotes them under "findings". `shareql_sizes` says that `FILE.SIZE = n` and
`FILE.SIZE <= n` hold for any two sizes above 1 114 111 bytes; `>` and `<` are right
(theorem `OrderIsExact`).

*What the model taught.* An export may have an edge without its node: `GetNodesAndEdges`
drops the lock between flushing and reading, so a checkpoint may hold an edge without its
node; if the process then dies and the repeated attempt at that target ends early, the
export keeps the edge. `ExportClosed` says that this is the only way. A save whose reads
failed is harmless until the process dies: the next save is made of the store again. After a
resume from it the records are gone for good, and their targets are skipped (`trusted`).
`ExploresAll` has the premise `OwnRules`: for rules that look at files, or at directories
when something is processed, what is emitted depends on the order of a map
(`traversal_rules`). `EmittedOnce` leaves the rights edges out: two entries of one list for
one principal add an edge twice, and the store drops the second. `ForcedCallEnds` lets a
call end in Windows, see below.

### Where code and words differ, without a run

* `pool.go:75`: "Track as active BEFORE Connect() so timeout can close it if stuck".
  A session that dials has no connection to close yet, and `ForceCloseAll` then forgets
  it (line 140). It is never used all the same, since the flag is set before and checked
  after (`InUseIsReachable`); only its Connect cannot be cut short.
* `session.go:264-269`: "conn is set once in Connect() and only nil'd under mu" is not so
  (Connect sets and clears it without `mu`), and the "subsequent ForceClose calls" of line
  276 do not come, since the pool has forgotten the session. The properties of SmbSession
  hold without either.
* `Go/README.md:217`: after a timeout "any blocking SMB operations fail immediately".
  On Windows the call that fails enables the native fallback, which goes on asking
  Windows. The other descriptor fallbacks (`session.go:513`, `618`) are dead code, because
  `QuerySecurityDescriptorLinked` reports no error.
* `opengraph.go:439`: "GetNodesAndEdges reads all nodes and edges from disk for checkpointing".
  An error of `os.Open` or `Decode` (lines 453, 457, 467, 471) is swallowed, and the save
  renames a checkpoint that names targets without their records over a better one, without a
  word. `CheckpointSound`, `ExportComplete`, `CheckpointNeverRegresses` and `DurableSpec` say
  what is left of their promises then.
* `main.go:468`: "Clean up checkpoint file on successful completion": `GetProcessedCount`
  counts targets of an earlier list too, so after a resume with another list the file is
  kept and the user told to resume. It is never deleted early, and without such targets it
  is deleted (theorem `SuccessIsRecognised`).
* `checkpoint.go:126`: "Stop stops the checkpoint manager and saves final state": with
  `--checkpoint-interval 0` there is no saver, and neither Stop nor a signal saves. In the
  model this is `Periodic`; the runs have an interval, the theorems hold with and without one,
  except `FinalSaveIsComplete`, which assumes it.
* The files line of the progress display: every level adds its counts and those below
  to FilesProcessed (`contents.go:366`), and `ProcessTarget` once more (`worker.go:294`).
* `Go/README.md:77`'s example `./sharehound --checkpoint scan.checkpoint --resume` names no
  targets, and `run()` exits without any.
* Two rule examples of `Go/README.md` (571-573, 578-580) deny everything in their first rule,
  and the exception that follows never applies. `SHARE.TYPE` (line 560) is not a field that
  `GetFieldValue` knows.
* `parser.go:105`: a condition needs "IF " with a blank; what else follows the scope is
  dropped and the rule holds for everything. No error tells the user; the lines `Careless` and
  `Wordy` of the run `shareql` are such rules.
* Strings that the parser gets wrong, which `MeansWhatItSays` does not speak of.
  `parser.go:185`: a comparator in a string that is earlier in the list than the real one is
  taken for it (`FILE.NAME = 'a IN b'`). Both kinds of quote, or an odd bracket, in a
  string: there is no way to escape them, and `splitAtKeyword` counts brackets inside
  quotes. `parser.go:275-314`: in a condition that is cut at AND or OR each byte of a letter
  outside ASCII becomes a letter of its own, so that the string matches nothing any more;
  bytes that are blanks as characters (85, A0) may even be trimmed off. Letters whose
  capital has another number of bytes move the places at which `upper` is read, which can be
  beyond its end.
* `parser.go:239`: a value that is one quote makes `parseValue` slice past the end: the program
  panics.
* `rule.go:172`: a pattern that does not compile is no error: the comparison is false for every
  object. An attribute that the object does not have is the empty text for `MATCHES`.
* `main.go:207`, `224`: with a rules file the rules given as options are passed over
  silently, and an empty file passes over the default rules too.
* `network.go:68`: "Remove network and broadcast addresses for /31 and larger networks": of a /31
  the code keeps both addresses, as RFC 3021 would have it; `NothingLost` goes by the code.
* `loader.go:77`: a targets file that cannot be read counts as empty: with credentials for the
  domain controller the scan becomes one of the whole domain, and the log says "No target list
  specified". A domain controller that cannot be reached leaves no targets, explicit ones
  included (`loader.go:46-57`); `OthersStillUsed` has it as its exception. `hasLDAPAuth` takes a
  key without Kerberos for a credential, and the simple bind that follows has no password.
  Bare host names are dropped with a debug message.
* `uniqueTargets` compares texts: a host named by its address and by its name, or in other
  capitals, is a target twice, and is scanned twice. No property says otherwise.

## 4. Proofs

### The scan

`ScanProofs` proves every safety property of the passing runs `scan_*`, for
all targets, records, thread counts, failures and numbers of crashes:

* `TypeCorrect`: `Spec => []TypeOK`
* `CheckpointIsSound`: `Spec => []CheckpointSound`
* `ExportIsComplete`: `Spec => []ExportComplete`
* `CheckpointGrows`: `Spec => CheckpointNeverRegresses`, an action property
* `ScanIsDurable`: `Spec => DurableSpec`, the refinement, by initial states and steps;
  `DurableScan` has short saves, which the next one makes good unless the scan is started
  again in between
* `ExportIsClosed`: `Spec => []ExportClosed`
* `SuccessIsRecognised`: `Spec => []CompleteIsRecognised`: when `run()` decides on deleting the
  checkpoint, the lengths that it compares are equal only if the sets are
* `FinalSaveIsComplete`: `Spec => []FinalSaveComplete`, if there is an interval (`Periodic`)
  and the disk takes the checkpoint (`"save" \notin Events`); without either the last save
  may not happen, and the property is false

from `GraphAssumption`, `CheckpointAssumption` and `ScanAssumption`. The invariant is
`ScanInv`, a conjunction of
`DispatchInv` (a target off `todo` has a goroutine, one that is finished is marked),
`StoreInv` (what a target has found is in the store: any target while the scan is trusted,
and at any rate one that this start scans, `Kept`),
`SaveInv` (what a save has copied of the processed set is covered by what it has read of the
store since, as long as its reads went well),
`DiskInv` (the same for the file on disk) and `ExportInv`. `CheckpointSound` is not
inductive: it depends on a save in progress having copied the processed set before it
read the graph (`SaveInv`), which depends on marked targets having their records in
the store (`StoreInv`). There is one lemma per group of actions.

`CheckpointGrows`, `ScanIsDurable`, `ExportIsClosed` and `FinalSaveIsComplete` need three
invariants more, each relative to `ScanInv`:

* `KeepInv`: the checkpoint on disk is part of the store once a resume has read it, and of
  what a save has read of the store at each of its steps, if its reads went well. Without it a
  save could rename a smaller graph over a larger one. `ScanIsDurable` rests on it and on
  `DiskInv`: a target is safe when the file on disk names it and has its records, and only the
  rename and a crash touch that.
* `FinalInv`: a save started by `stopChan` began when all workers had ended, so each of its
  steps reads what there will be at the end. The saves of a tick or a signal that come
  before it may be anything.
* `OriginInv`: what a target has found lacks no node of its edges, nor does the store until
  the first crash, and the targets of an earlier list stay in the checkpoint. After a crash the
  checkpoint may lack nodes (see "What the model taught"). An edge that the last attempt at a
  target has emitted has its nodes in what that attempt has found, and `ExportComplete` puts
  these into the export.

`ScanAssumption` says that the values which stand for no file and a torn file are no record
of an export.

### A host and a session

`HostScanProofs` proves every safety property of the run `host_timeout`, for all sets
of shares, limits of connections and unanswered operations, from `PoolAssumption` and
`HostAssumption`:

* `HostTypeCorrect`: `Spec => []TypeOK`
* `TimeoutReaches`: `Spec => []InUseIsReachable`
* `PoolIsExclusive`: `Spec => []SessionsNotShared`
* `PermitsBoundConnections`: `Spec => []ConnectionsBounded`
* `HostCleansUp`: `Spec => []NothingLeftOpen`
* `HostIsAccounted`: `Spec => []Accounting`
* `SessionsComeUpOnce`: `Spec => SessionsAreLinks`, an action property over the `Next` of
  `SessionLink`, one instance per session

Three invariants, the later ones relative to the earlier:

* `HostInv`: where a goroutine stands determines whether it holds a session and in
  which state its connection is (`HoldInv`, `LinkInv`); a session that is connecting is
  in activeConnections unless the flag is set (`ReachInv`), which is what makes the
  check of the flag after GetConnection enough; an open session is pooled or held
  (`OpenInv`); goroutines of shares run only while Main waits for them (`PhaseInv`).
* `RoomInv`: the pooled sessions and the goroutines in flight together never exceed the
  limit. A goroutine that saw the pool empty counts before it has a session: others may
  fill the pool before it connects, and only its permit keeps the sum in bounds.
* `CountInv`: a pending task per share whose goroutine has not ended, and what each
  total is before and after the join. With it `TypeOK` holds: no difference of counters
  leaves `Nat`.

`SmbSessionProofs` proves every safety property of the run `session`, for all sets of
shares and all fallbacks, from `SessionAssumption`:

* `SessionTypeCorrect`, `HandlesAreKnown`, `CleanIsKept`, `MuIsFree`, `AnswersAreAboutTask`,
  `ClosedLeavesNothing`: the invariants `TypeOK`, `HandlesMatch`, `CleanedStaysClean`,
  `UnlockedWhileWaiting`, `AnswersAboutTask`, `NothingKept`
* `SessionIsALink`: `Spec => ImplementsLink`, the refinement, by initial states and steps

The invariant is `SessionInv`: what the connection is where (`LinkInv`), who holds `mu` and
that ForceClose finds nobody at work on an open connection (`MuInv`), which fields are
empty at which point (`FieldInv`), what the goroutine has in hand (`HandInv`), in which
method it is (`OpInv`), and that the share of the session is the share of the caller
(`TaskInv`). `HandlesMatch` alone is not inductive: a method that was about to store its
share must know that ForceClose clears the connection before the fields, so that what it
has in hand is gone from the server too (`MuInv`, `HandInv`).

### A share

`TraversalProofs` proves every invariant of the run `traversal`, for every tree, every list
of rules, every depth limit and all descriptors, from `PrincipalAssumption` (`NoSid` is no
principal) and `TraversalAssumption`: the tree is finite and acyclic (`Ancestors`), lists
are sequences of entries as `AceType` has them, rules look at fields that there are. The
code justifies the first by the protocol: an entry is met in the directory that lists it,
links are not followed.

* `TraversalTypeCorrect`, `NodesComeFirst`, `NothingTwice`, `RightsOfNearest`,
  `EffectiveOfBoth`, `CountedOnce`, `ExploredCompletely`: the invariants `TypeOK`,
  `EdgesFollowNodes`, `EmittedOnce`, `RightsAreNearest`, `EffectiveIsBoth`,
  `CountsAreExact`, `ExploresAll`

There are three invariants:

* `Inv`: the path is a path of the tree (`PathOK`), each activation has distinct entries of
  its own directory before it (`StackOK`), and the sequence of records is one that may be
  handed to the store (`EmitInv`). `EdgesFollowNodes` and `EmittedOnce` are kept by a call of
  `AddPathToGraph` only because what it is called for has not been emitted, which no state of
  the context says of a file: `FreshOK` says that what is below a directory still to be entered
  or listed is not in the graph, save for directories, which `emittedPathNodes` remembers.
  The sequences themselves are the subject of `Sound(P, s)` (s may follow the nodes of P)
  and `Bears(s)` (the rights in s are those due), which concatenation keeps; the lemmas
  about `ParseACL`, `KindsForMask` and the loop that seeks the nearest list tie `Bears` to
  what the lists grant.
* `CountInv`: each activation has counted a set of entries of its own, all of them past
  (`Past`), the sets are disjoint, every entry that was visited is in one of them, and each of
  the six counts of an activation is the number of those in its set of which `outcome` says
  that (`Tallied`). The sets are found by a quantifier in the invariant, since no variable
  holds them.
* `Exploring`, for rules that look at what they are asked about (`OwnRules`): every
  directory on the way is one that the rules let in (`OnTheWay`), nothing is met below one
  that could not be listed (`FailedBehind`), what is in the graph is wanted (`Justified`) and
  what is wanted and past is in the graph (`Complete`). TLC checked this one before it was
  proved.

### The targets

`TargetsProofs` proves every invariant of the run `targets`, for every width of an address,
every choice of options and every content of file and directory, from `TargetsAssumption`
(the sources are finite sets of words, the entries of a directory are names):

* `TargetsTypeCorrect`, `TargetsAreNamed`, `FailureIsContained`, `NothingUnasked`: the
  invariants `TypeOK`, `NothingLost`, `OthersStillUsed`, `OnlyWhatWasAskedFor`

The invariant `Inv` (theorem `Listing`) says that the raw targets are those of the sources that
were read and that those always asked were not passed by (`Gathered`), which sources may have
been read at all (`Asked`), and that the final list enumerates what they mean (`Ready`).
`NothingLost`
compares two readings of a network, the code's interval from the first address to the
last and the bits that an address shares with it; `InNetwork` is the arithmetic that
makes them one.

### ShareQL

`ShareQLProofs` proves, for all words, characters, objects and documents, from
`RuneAssumption`, `TokenAssumption` and `WritingAssumption`:

* `ParserEnds`: `parseCondition` is a function from all texts to results (a condition, an
  error or a panic) and satisfies its own equation. It calls itself on what is left of a
  text after cuts, trims and brackets, and all of that is shorter (`SplitParts`,
  `ConditionByShorter`).
* `ShareQLTypeCorrect`: `Spec => []TypeOK`. What a user may write is a text (`LineText`), so
  the parser has a result for it, the rules it keeps are whole (`ParsedMade`), and the first
  of them that applies gives an answer (`Decides`).

Of the comparisons of numbers: `OrderIsExact` (`<` and `>` are those of arithmetic),
`PlainIsExact` (so are all numeric comparators if one side is the code of a character without
capitals, as depths are), `LargeSizesAreEqual` (numbers above the codes all are equal).

`ShareQLReadingProofs` rests on it and on the same assumptions, and proves the two other
invariants of the run `shareql`, for documents of any length and conditions of any shape:

* `SplitJoins`: what `splitAtKeyword`, re-encoding included, and `splitListItems` make of two
  joined texts
* `NoRuleIsMissing`: `Spec => []NoRuleMissing`, of the lines in force
* `RulesMeanWhatTheySay`: `Spec => []MeansWhatItSays`, under `PlainNumbers`

*Parsing undoes writing.* `SplitJoins` is about the loop that looks for a keyword outside
quotes and brackets. The first text must close its quotes and brackets and not end in
a word of the keyword; the induction is by the length of it. Texts in ASCII come out of the
cuts as they were, which is where `InASCII` is needed. A value comes back as it was
meant (`ValueReads`), and so does a comparison (`ComparisonReads`). Of a condition that is not
enough, since the same text is cut differently by what stands around it: `Stands(u, r, binding)`
says that `u` is parsed as `r` and is, at the level of `OR` and of `AND` too, in one piece unless
it binds as weakly as that. Comparisons, bracketed conditions and parts at fault stand at every
level, `NOT`, `AND` and `OR` at theirs (`PartStands`), with or without the brackets that
precedence makes optional. By induction over the parts of a condition, what its text is parsed
as is what `AnswersTo` makes of its parts, and it is an error only if a part is at fault
(`ConditionOk`); `LineReads` does the same for lines. The invariant is `RulesAreParsed`: what
`Parse` returned are the lines in force, each as it was read; a line in which other words
stand for the condition is read as a rule without one.

*Answers.* A comparison as the code makes it, on texts and characters, is the comparison as it
is meant (`CompareIsSo`), of the field that the evaluator finds among what it was told
(`FieldFound`); by induction over the parts again, the condition holds when it is meant to
(`HoldsAsMeant`), and the first rule that applies is the same (`DecidesAsMeant`). The invariant
`DecisionStands` says that the last decision was taken from the rules for the context that is
set, which `SetDepth` and the questions before it may not change behind its back.

*The hypothesis.* `PlainNumbers`: numbers of objects and depths are below 2^32 (`Modulus`),
and a number that a rule compares other than by `<` and `>` is in `Plain`, the codes of
characters that are no surrogate, not the replacement character, and have no other case. The
theorem is false without it, which is what `shareql_sizes` finds. The documents of `shareql`
satisfy it, those of `shareql_sizes` do not (TLC evaluated it on both). `FILE.SIZE = n` with
a size of any file on disk does not, in general: the theorem says where the rules can be
trusted and not that they can be. `NoRuleIsMissing` has no such hypothesis.

### Induction

Traversal and Targets use `FlattenSeq`, `FoldSet` and `SetToSeq`, whose values follow by
induction only, and the induction theorems of the library take a predicate as a parameter,
which the provers cannot instantiate. `SequenceLemmas` does without: a set stands for the
predicate (`FromZero`, `FiniteInduction`, by way of the least element of its complement),
and a recursive function is shown to exist as the last of a sequence of functions that agree
with it further and further (`Iterate`). `FlattenToSet` and `FoldLists` say what the
operators compute for every input. The parser of ShareQL, `Split`, the count of quotes and
`Write` are recursive functions on texts: `BySize` is induction by the length of a text
(`Inherits` says what it asks of a set), and `Recursion` says that a function whose values
follow from those of smaller arguments exists (`Descends`), so that its equation, and not
only the CHOOSE that defines it, can be used.

### Model-checked only

Liveness (`HostCompletes`, `ScanCompletes`, `SignalSaves`, `ForcedCallEnds`): the prover has
no fairness. What the runs that expect a violation find is a counterexample and needs no
proof. Every other property of a run is a theorem.

## 5. Not modelled

Statistics in the checkpoint (written, never restored), write errors of the record files
(swallowed by `appendJSON` and by the flushes; errors of reading are modelled), the zip
output, runs without `--checkpoint`, display and logging. Byte layouts: SRVSVC packets,
SIDs, offsets in descriptors are read without state, and what can go wrong there is an error
or an entry that is cut. Regular expressions (`Compiles` and `Matches` stand for the
package). Letters whose capital has another number of bytes, for which `splitAtKeyword`
reads other places than it means. Networks of prefix length 0, for which `ExpandCIDR` would
never end. DNS, SID resolution, Kerberos tickets: requests whose result is shown or handed
on. The go-smb2 fork: SmbSession takes of it that a request is answered, fails, or waits
until its connection is closed. The Python program. PROJECT.json names every component and
its status.

## 6. Plan

1. Done: OpenGraph, Checkpoint, Scan, DurableScan, ConnectionPool, HostScan, Rules,
   Traversal; SmbSession with SessionLink; Rights; Comparisons, ShareQL; Targets; the proofs
   of section 4.
2. `Smb2Conn` (go-smb2 conn.go, credit.go): request table, write results, credits.
3. `SnapshotExport`, then `PyWorker` (Python).
