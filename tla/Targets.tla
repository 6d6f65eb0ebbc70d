------------------------------- MODULE Targets -------------------------------
(***************************************************************************)
(* The list of targets: LoadTargets (Go/internal/targets/loader.go) with   *)
(* the LDAP client that it asks (Go/internal/ldap/client.go) and the       *)
(* addresses of a network (Go/internal/utils/network.go).                  *)
(*                                                                         *)
(* Targets come from a file, from the command line and from the directory, *)
(* whose computers are fetched when there are no others and whose subnets  *)
(* when the user wants them.  Every source may fail, and the failure is    *)
(* logged and passed over.                                                 *)
(*                                                                         *)
(* An address is a number, here of Width bits.  What a user or the         *)
(* directory may name is a record: a network, an address, a domain name,   *)
(* or a word that is none of these.                                        *)
(***************************************************************************)
EXTENDS Naturals, FiniteSetsExt, SequencesExt

CONSTANTS
  Width,         \* 32, or less for TLC
  Options        \* what the user may ask for, see Option

Net(base, length) == [type |-> "cidr", value |-> base, length |-> length]
Target(type, n)   == [type |-> type, value |-> n]
Addresses         == 0..((2 ^ Width) - 1)

\* A network of length 0 is none that ExpandCIDR would ever come to the end of.
Word == [type : {"ipv4", "ipv6", "fqdn", "bare"}, value : Nat]
          \cup [type : {"cidr"}, value : Nat, length : 1..Width]

\* opts: the lines of the file, and if it can be read to its end; the targets of
\* the command line; the credentials, which come with the name of a user and of a
\* domain; what the directory holds.
OptionField == {"hasFile", "file", "fileReadable", "cli", "subnets", "dc", "auth",
                "computers", "servers", "nets"}

ASSUME TargetsAssumption ==
  /\ Width \in Nat \ {0}
  /\ \A o \in Options :
       /\ DOMAIN o = OptionField
       /\ \A words \in {o.file, o.cli, o.nets, o.computers, o.servers} :
            IsFiniteSet(words) /\ \A w \in words : w \in Word
       /\ \A e \in o.computers \cup o.servers : e.type \in {"bare", "fqdn"}

VARIABLES
  opts,
  pc,        \* where LoadTargets, or run() after it, is
  raw,       \* rawTargets, of which uniqueStrings makes a set
  targets,   \* finalTargets
  loaded     \* history: the sources that were read

vars == <<opts, pc, raw, targets, loaded>>

-----------------------------------------------------------------------------
\* hasLDAPAuth: any of these is taken for a credential.
hasLDAPAuth == opts.dc /\ (\/ "windows" \in opts.auth
                           \/ opts.auth \cap {"password", "hashes", "key", "kerberos"} # {})

\* The bind that the client makes of them; without a password it is refused.
bind ==
  CASE "windows" \in opts.auth  -> "gssapi"
    [] "windows" \notin opts.auth /\ "kerberos" \in opts.auth -> "kerberos"
    [] opts.auth \cap {"windows", "kerberos"} = {} /\ "hashes" \in opts.auth -> "ntlm"
    [] OTHER -> IF "password" \in opts.auth THEN "simple" ELSE "refused"

\* The DNS name, or the name with the domain put after it.
hostnameFromEntry(entry) == IF entry.type = "bare" THEN Target("fqdn", entry.value) ELSE entry

\* Mutant: the last address is kept.
ExpandCIDRWithBroadcast(net) ==
  LET size  == 2 ^ (Width - net.length)
      first == (net.value \div size) * size
  IN  IF size > 2 THEN (first + 1)..(first + size - 1) ELSE first..(first + size - 1)

\* Without the address of the network and that of the broadcast, if there are more
\* than two: the code's comment names networks of two addresses (/31) too, of which
\* the code keeps both.
ExpandCIDR(net) ==
  LET size  == 2 ^ (Width - net.length)
      first == (net.value \div size) * size
  IN  IF size > 2 THEN (first + 1)..(first + size - 2) ELSE first..(first + size - 1)

\* The members of a set in some order; the code's order is the alphabet's.
Listed(S) == FoldSet(LAMBDA x, list : Append(list, x), <<>>, S)

\* Mutant: a word of unknown type is taken for a name.
ClassifiedAnyway(t) ==
  IF t.type = "cidr" THEN Listed({Target("ipv4", a) : a \in ExpandCIDR(t)}) ELSE <<t>>

\* What becomes of one raw target; a word of unknown type is dropped.
Classified(t) ==
  CASE t.type = "cidr" -> Listed({Target("ipv4", a) : a \in ExpandCIDR(t)})
    [] t.type \in {"ipv4", "ipv6", "fqdn"} -> <<t>>
    [] OTHER -> <<>>

\* An address may be named by itself and by networks that hold it.
uniqueTargets(list) == Listed(ToSet(list))

-----------------------------------------------------------------------------
\* The ends of the run: no controller, nothing to scan, or a scan.
Ends == {"unreachable", "nothing", "scan"}

TypeOK ==
  /\ opts \in Options /\ DOMAIN opts = OptionField
  /\ pc \in {"start", "file", "cli", "computers", "servers", "subnets", "classify"} \cup Ends
  /\ \A t \in raw : t \in Word
  /\ \A i \in DOMAIN targets :
       targets[i].type \in {"ipv4", "ipv6", "fqdn"} /\ targets[i].value \in Nat
  /\ loaded \subseteq {"file", "cli", "computers", "servers", "nets"}

Init ==
  /\ opts \in Options
  /\ pc = "start" /\ raw = {} /\ targets = <<>> /\ loaded = {}

\* The port of the domain controller is tried first, and without it there are no
\* targets at all.
CheckDC ==
  /\ pc = "start"
  /\ pc' \in (IF hasLDAPAuth THEN {"file", "unreachable"} ELSE {"file"})
  /\ UNCHANGED <<opts, raw, targets, loaded>>

Load(source, words) ==
  raw' = raw \cup words /\ loaded' = loaded \cup {source}

\* Mutant: a file that cannot be read ends it all.
LoadFromFileStops ==
  /\ pc = "file"
  /\ IF opts.hasFile /\ opts.fileReadable
     THEN pc' = "cli" /\ Load("file", opts.file)
     ELSE pc' = (IF opts.hasFile THEN "classify" ELSE "cli") /\ UNCHANGED <<raw, loaded>>
  /\ UNCHANGED <<opts, targets>>

\* A file of which a line is too long is not read at all.
LoadFromFile ==
  /\ pc = "file"
  /\ pc' = "cli"
  /\ IF opts.hasFile /\ opts.fileReadable
     THEN Load("file", opts.file) ELSE UNCHANGED <<raw, loaded>>
  /\ UNCHANGED <<opts, targets>>

\* Mutant: whoever has credentials gets the computers of the domain too.
LoadFromOptionsAndDirectory ==
  /\ pc = "cli"
  /\ Load("cli", opts.cli)
  /\ pc' = IF hasLDAPAuth THEN "computers" ELSE "subnets"
  /\ UNCHANGED <<opts, targets>>

LoadFromOptions ==
  /\ pc = "cli"
  /\ Load("cli", opts.cli)
  /\ pc' = IF raw' = {} /\ hasLDAPAuth THEN "computers" ELSE "subnets"
  /\ UNCHANGED <<opts, targets>>

\* loadFromActiveDirectory: Connect may fail, and so may each search.
LoadComputers ==
  /\ pc = "computers"
  /\ \/ pc' = "subnets" /\ UNCHANGED <<raw, loaded>>
     \/ /\ bind # "refused" /\ pc' = "servers"
        /\ \/ UNCHANGED <<raw, loaded>>
           \/ Load("computers", {hostnameFromEntry(e) : e \in opts.computers})
  /\ UNCHANGED <<opts, targets>>

LoadServers ==
  /\ pc = "servers"
  /\ pc' = "subnets"
  /\ \/ UNCHANGED <<raw, loaded>>
     \/ Load("servers", {hostnameFromEntry(e) : e \in opts.servers})
  /\ UNCHANGED <<opts, targets>>

\* loadSubnetsFromAD, on a connection of its own.
LoadSubnets ==
  /\ pc = "subnets"
  /\ pc' = "classify"
  /\ \/ UNCHANGED <<raw, loaded>>
     \/ /\ opts.subnets /\ hasLDAPAuth /\ bind # "refused"
        /\ Load("nets", opts.nets)
  /\ UNCHANGED <<opts, targets>>

\* What is left of LoadTargets; without targets run() ends.
Classify ==
  /\ pc = "classify"
  /\ targets' = uniqueTargets(FlattenSeq([i \in DOMAIN Listed(raw) |->
                                            Classified(Listed(raw)[i])]))
  /\ pc' = IF targets' = <<>> THEN "nothing" ELSE "scan"
  /\ UNCHANGED <<opts, raw, loaded>>

Ended == pc \in Ends /\ UNCHANGED vars

Next ==
  \/ CheckDC \/ LoadFromFile \/ LoadFromOptions
  \/ LoadComputers \/ LoadServers \/ LoadSubnets \/ Classify \/ Ended

Spec == Init /\ [][Next]_vars

-----------------------------------------------------------------------------
\* What a source that was read names, in the words of the manuals: an address is in
\* a network when it shares its leading bits, and is a host's unless all the other
\* bits are equal (where there are two of them).
Source(s) ==
  CASE s = "file" -> opts.file [] s = "cli" -> opts.cli [] s = "nets" -> opts.nets
    [] OTHER -> {Target("fqdn", e.value) :
                   e \in IF s = "computers" THEN opts.computers ELSE opts.servers}

Named(t, word) ==
  \/ word.type # "bare" /\ t = word
  \/ /\ word.type = "cidr" /\ t.type = "ipv4"
     /\ LET size == 2 ^ (Width - word.length)
        IN  /\ t.value \div size = word.value \div size
            /\ size > 2 => t.value % size \notin {0, size - 1}

\* A target there might be: any address, any name in a set of words, and what is listed.
Candidates(words) ==
  {Target("ipv4", a) : a \in Addresses} \cup ToSet(targets)
    \cup {w \in words : w.type \in {"fqdn", "ipv6"}}

\* When LoadTargets is done its list holds what the sources that it read name and
\* nothing else, whichever of them failed: of a network no address is lost or added at
\* the edges, and where networks overlap none is lost with its other mention.
NothingLost ==
  pc \in Ends =>
    \A t \in Candidates(UNION {Source(s) : s \in loaded}) :
      t \in ToSet(targets) <=> \E s \in loaded : \E w \in Source(s) : Named(t, w)

\* The lists of the user: the command line, and the file if it can be read.
UserWords ==
  opts.cli \cup (IF opts.hasFile /\ opts.fileReadable THEN opts.file ELSE {})

\* What the user lists is scanned whatever becomes of the other sources, the file or
\* the searches of the directory; only a domain controller that does not answer, for
\* a user who gave credentials for it, costs these lists too, and then nothing at all
\* is scanned (loader.go:46-57).
OthersStillUsed ==
  pc \in Ends =>
    \/ \A t \in Candidates(UserWords) :
         (\E w \in UserWords : Named(t, w)) => t \in ToSet(targets)
    \/ pc = "unreachable" /\ hasLDAPAuth /\ targets = <<>>

\* No host is scanned that nobody asked for: besides the lists of the user, the subnets
\* of the directory if they are wanted, and its computers only for one who can log in
\* to it and whose lists are empty.  (A file that cannot be read counts as empty, so
\* a wrong file name widens the scan to the whole domain, loader.go:63 and 77.)
OnlyWhatWasAskedFor ==
  \A t \in ToSet(targets) :
    \/ \E w \in UserWords : Named(t, w)
    \/ opts.subnets /\ hasLDAPAuth /\ \E w \in opts.nets : Named(t, w)
    \/ /\ UserWords = {} /\ hasLDAPAuth
       /\ \E e \in opts.computers \cup opts.servers : t = Target("fqdn", e.value)
=============================================================================
