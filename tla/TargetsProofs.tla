---------------------------- MODULE TargetsProofs -----------------------------
(***************************************************************************)
(* The list of targets is what the sources that were read name, for every  *)
(* width of an address and whatever the user asks for and the directory    *)
(* holds.                                                                  *)
(***************************************************************************)
EXTENDS Targets, SequenceLemmas

TargetType == [type : {"ipv4", "ipv6", "fqdn"}, value : Nat]

-----------------------------------------------------------------------------
(* Networks. *)

LEMMA PowerOfTwo ==
  ASSUME NEW n \in Nat
  PROVE  2 ^ n \in Nat /\ 2 ^ n # 0
<1>1. IsFiniteSet(1..n) /\ Cardinality(1..n) = n
  BY FS_Interval
<1>2. IsFiniteSet(SUBSET (1..n)) /\ Cardinality(SUBSET (1..n)) = 2 ^ n
  BY <1>1, FS_SUBSET
<1>3. SUBSET (1..n) # {}
  OBVIOUS
<1> QED
  BY <1>2, <1>3, FS_CardinalityType, FS_EmptySet

\* The addresses of a network are those with its leading bits, but for the two at its
\* edges where it has more.
LEMMA InNetwork ==
  ASSUME NEW net \in Word, net.type = "cidr"
  PROVE  LET size == 2 ^ (Width - net.length)
         IN  /\ ExpandCIDR(net) \subseteq Nat /\ IsFiniteSet(ExpandCIDR(net))
             /\ \A a \in Nat :
                  a \in ExpandCIDR(net) <=>
                    /\ a \div size = net.value \div size
                    /\ size > 2 => (a % size) \notin {0, size - 1}
<1> DEFINE size == 2 ^ (Width - net.length)
           first == (net.value \div size) * size
<1>1. net.value \in Nat /\ Width - net.length \in Nat
  BY TargetsAssumption DEF Word
<1>2. size \in Nat /\ size # 0
  <2> HIDE DEF size
  <2> SUFFICES 2 ^ (Width - net.length) \in Nat /\ 2 ^ (Width - net.length) # 0
    BY DEF size
  <2> QED
    BY <1>1, PowerOfTwo
<1>3. ExpandCIDR(net) = IF size > 2 THEN (first + 1)..(first + size - 2)
                        ELSE first..(first + size - 1)
  BY DEF ExpandCIDR
<1> HIDE DEF size
\* The numbers with the same quotient are those of an interval, and what is left of
\* each is its distance from the first of them.
<1>4. /\ first \in Nat
      /\ \A a \in Nat : /\ a \div size = net.value \div size <=> a \in first..(first + size - 1)
                        /\ a \div size = net.value \div size => (a % size) = a - first
  <2>1. PICK v \in Nat : v = net.value
    BY <1>1
  <2> DEFINE q == v \div size
             edge == q * size
  <2>2. edge = first /\ q \in Nat /\ edge \in Nat
    BY <1>2, <2>1
  <2> SUFFICES ASSUME NEW a \in Nat
               PROVE  /\ a \div size = q <=> a \in edge..(edge + size - 1)
                      /\ a \div size = q => (a % size) = a - edge
    BY <2>1, <2>2
  <2>3. /\ a \div size \in Nat /\ (a % size) \in 0..(size - 1)
        /\ a = size * (a \div size) + (a % size)
    BY <1>2
  <2>4. ASSUME a \div size = q PROVE a \in edge..(edge + size - 1) /\ (a % size) = a - edge
    <3>1. a = edge + (a % size)
      BY <1>2, <2>2, <2>3, <2>4
    <3> HIDE DEF q, edge
    <3> QED
      BY <1>2, <2>2, <2>3, <3>1
  <2>5. ASSUME a \in edge..(edge + size - 1) PROVE a \div size = q
    BY <1>2, <2>2, <2>5
  <2> QED
    BY <2>4, <2>5
<1> HIDE DEF first
<1>5. ExpandCIDR(net) \subseteq Nat /\ IsFiniteSet(ExpandCIDR(net))
  <2>1. CASE size > 2
    BY <1>2, <1>3, <1>4, <2>1, FS_Interval
  <2>2. CASE ~ (size > 2)
    BY <1>2, <1>3, <1>4, <2>2, FS_Interval
  <2> QED
    BY <2>1, <2>2
<1>6. ASSUME NEW a \in Nat
      PROVE  a \in ExpandCIDR(net) <=>
               /\ a \div size = net.value \div size
               /\ size > 2 => (a % size) \notin {0, size - 1}
  <2>1. CASE a \div size = net.value \div size
    <3>1. (a % size) = a - first /\ a \in first..(first + size - 1)
      BY <1>4, <2>1
    <3> DEFINE rest == a % size
    <3>2. rest = a - first
      BY <3>1
    <3> HIDE DEF rest
    <3>3. a \in ExpandCIDR(net) <=> (size > 2 => rest \notin {0, size - 1})
      <4>1. CASE size > 2
        <5>1. a \in ExpandCIDR(net) <=> a \in (first + 1)..(first + size - 2)
          BY <1>3, <4>1
        <5> QED
          BY <1>2, <1>4, <3>1, <3>2, <4>1, <5>1
      <4>2. CASE ~ (size > 2)
        BY <1>3, <3>1, <4>2
      <4> QED
        BY <4>1, <4>2
    <3> QED
      BY <2>1, <3>3 DEF rest
  <2>2. CASE a \div size # net.value \div size
    <3>1. a \notin first..(first + size - 1)
      BY <1>4, <2>2
    <3>2. a \notin ExpandCIDR(net)
      BY <1>2, <1>3, <1>4, <3>1
    <3> QED
      BY <2>2, <3>2
  <2> QED
    BY <2>1, <2>2
<1> QED
  BY <1>5, <1>6 DEF size

-----------------------------------------------------------------------------
(* What becomes of the words. *)

LEMMA ListedEnumerates ==
  ASSUME NEW S, IsFiniteSet(S)
  PROVE  Enumerates(Listed(S), S)
BY FoldLists DEF Listed

\* A word becomes the targets that it names.
LEMMA ClassifiedNamed ==
  ASSUME NEW w \in Word
  PROVE  /\ Classified(w) \in Seq(TargetType)
         /\ \A t \in TargetType : t \in ToSet(Classified(w)) <=> Named(t, w)
<1>1. CASE w.type = "cidr"
  <2> DEFINE A == ExpandCIDR(w)
             S == {Target("ipv4", a) : a \in A}
             size == 2 ^ (Width - w.length)
  <2>1. /\ A \subseteq Nat /\ IsFiniteSet(A)
        /\ \A a \in Nat : a \in A <=> /\ a \div size = w.value \div size
                                      /\ size > 2 => (a % size) \notin {0, size - 1}
    BY <1>1, InNetwork
  <2>2. Classified(w) = Listed(S)
    BY <1>1 DEF Classified
  <2> HIDE DEF A, size
  <2>3. IsFiniteSet(S) /\ S \subseteq TargetType
    <3> DEFINE f == [a \in A |-> Target("ipv4", a)]
    <3>1. f \in Surjection(A, S)
      BY DEF Surjection
    <3>2. S \subseteq TargetType
      BY <2>1 DEF Target, TargetType
    <3> HIDE DEF f, S
    <3> QED
      BY <2>1, <3>1, <3>2, FS_Surjection
  <2>4. Enumerates(Listed(S), S)
    <3> HIDE DEF S
    <3> QED
      BY <2>3, ListedEnumerates
  <2>5. ASSUME NEW t \in TargetType PROVE t \in S <=> Named(t, w)
    <3>1. t.value \in Nat /\ t.type # "cidr" /\ t # w
      BY <1>1 DEF TargetType
    <3>2. t \in S <=> t.type = "ipv4" /\ t.value \in A
      <4>1. t = [type |-> t.type, value |-> t.value]
        BY DEF TargetType
      <4> QED
        BY <4>1 DEF Target
    <3>3. Named(t, w) <=> /\ t.type = "ipv4"
                          /\ t.value \div size = w.value \div size
                          /\ size > 2 => (t.value % size) \notin {0, size - 1}
      BY <1>1, <3>1 DEF Named, size
    <3> HIDE DEF S
    <3> QED
      BY <2>1, <3>1, <3>2, <3>3
  <2> HIDE DEF S
  <2> QED
    BY <2>2, <2>3, <2>4, <2>5 DEF Enumerates
<1>2. CASE w.type \in {"ipv4", "ipv6", "fqdn"}
  <2>1. Classified(w) = <<w>> /\ w \in TargetType
    BY <1>2 DEF Classified, Word, TargetType
  <2>2. ToSet(<<w>>) = {w}
    BY DEF ToSet
  <2> QED
    BY <1>2, <2>1, <2>2 DEF Named
<1>3. CASE w.type = "bare"
  <2>1. Classified(w) = <<>>
    BY <1>3 DEF Classified
  <2>2. ToSet(<<>>) = {}
    BY DEF ToSet
  <2> QED
    BY <1>3, <2>1, <2>2 DEF Named
<1> QED
  BY <1>1, <1>2, <1>3 DEF Word

-----------------------------------------------------------------------------
(* The sources. *)

SourceName == {"file", "cli", "computers", "servers", "nets"}

\* A source is a finite set of words, and what the code makes of an entry of the
\* directory is the name that the entry stands for.
LEMMA SourceWords ==
  ASSUME opts \in Options, NEW s \in SourceName
  PROVE  /\ IsFiniteSet(Source(s))
         /\ \A w \in Source(s) : w \in Word
<1>1. CASE s \in {"file", "cli", "nets"}
  BY <1>1, TargetsAssumption DEF Source
<1>2. CASE s \in {"computers", "servers"}
  <2> DEFINE E == IF s = "computers" THEN opts.computers ELSE opts.servers
             f == [e \in E |-> Target("fqdn", e.value)]
             T == {Target("fqdn", e.value) : e \in E}
  <2>1. Source(s) = T
    BY <1>2 DEF Source
  <2>2. IsFiniteSet(E) /\ \A e \in E : e \in Word
    BY TargetsAssumption
  <2>3. f \in Surjection(E, T)
    BY DEF Surjection
  <2>4. \A w \in T : w \in Word
    BY <2>2 DEF Target, Word
  <2> HIDE DEF E, f, T
  <2> QED
    BY <2>1, <2>2, <2>3, <2>4, FS_Surjection
<1> QED
  BY <1>1, <1>2 DEF SourceName

LEMMA EntriesNamed ==
  ASSUME opts \in Options
  PROVE  /\ {hostnameFromEntry(e) : e \in opts.computers} = Source("computers")
         /\ {hostnameFromEntry(e) : e \in opts.servers} = Source("servers")
<1>1. ASSUME NEW e \in opts.computers \cup opts.servers
      PROVE  hostnameFromEntry(e) = Target("fqdn", e.value)
  <2>1. e \in Word /\ e.type \in {"bare", "fqdn"}
    BY TargetsAssumption
  <2>2. CASE e.type = "bare"
    BY <2>2 DEF hostnameFromEntry
  <2>3. CASE e.type = "fqdn"
    BY <2>1, <2>3 DEF hostnameFromEntry, Target, Word
  <2> QED
    BY <2>1, <2>2, <2>3
<1> QED
  BY <1>1 DEF Source

\* All that was read, and all that it names.
Read    == UNION {Source(s) : s \in loaded}
Meant(words) == {t \in TargetType : \E w \in words : Named(t, w)}

LEMMA ReadFinite ==
  ASSUME opts \in Options, loaded \subseteq SourceName
  PROVE  IsFiniteSet(Read) /\ \A w \in Read : w \in Word
<1> DEFINE All == {Source(s) : s \in loaded}
           f == [s \in loaded |-> Source(s)]
<1>1. f \in Surjection(loaded, All)
  BY DEF Surjection
<1>2. IsFiniteSet(loaded)
  <2>1. IsFiniteSet(SourceName)
    <3>1. IsFiniteSet({"file"}) /\ IsFiniteSet({"cli"}) /\ IsFiniteSet({"computers"})
          /\ IsFiniteSet({"servers"}) /\ IsFiniteSet({"nets"})
      BY FS_Singleton
    <3>2. IsFiniteSet({"file"} \cup {"cli"}) /\ IsFiniteSet({"computers"} \cup {"servers"})
      BY <3>1, FS_Union
    <3>3. IsFiniteSet(({"file"} \cup {"cli"}) \cup ({"computers"} \cup {"servers"}))
      BY <3>2, FS_Union
    <3>4. IsFiniteSet((({"file"} \cup {"cli"}) \cup ({"computers"} \cup {"servers"})) \cup {"nets"})
      BY <3>1, <3>3, FS_Union
    <3>5. SourceName = (({"file"} \cup {"cli"}) \cup ({"computers"} \cup {"servers"})) \cup {"nets"}
      BY DEF SourceName
    <3> QED
      BY <3>4, <3>5
  <2> QED
    BY <2>1, FS_Subset
<1>3. \A T \in All : IsFiniteSet(T)
  BY SourceWords
<1>4. \A w \in UNION All : w \in Word
  BY SourceWords
<1>5. IsFiniteSet(All)
  <2> HIDE DEF All, f
  <2> QED
    BY <1>1, <1>2, FS_Surjection
<1> QED
  <2> HIDE DEF All
  <2>1. IsFiniteSet(UNION All)
    BY <1>3, <1>5, FS_UNION
  <2> QED
    BY <1>4, <2>1 DEF Read, All

\* The end of LoadTargets lists what the words mean.
LEMMA ListOfTargets ==
  ASSUME NEW W, IsFiniteSet(W), \A w \in W : w \in Word
  PROVE  Enumerates(uniqueTargets(FlattenSeq([i \in DOMAIN Listed(W) |->
                                                Classified(Listed(W)[i])])),
                    Meant(W))
<1> DEFINE l == Listed(W)
           ss == [i \in DOMAIN l |-> Classified(l[i])]
           S == ToSet(FlattenSeq(ss))
<1>1. l \in Seq(W) /\ ToSet(l) = W
  BY ListedEnumerates DEF Enumerates
<1> HIDE DEF l
<1>2. \A i \in DOMAIN l : l[i] \in W
  BY <1>1
<1>3. \A i \in DOMAIN l : Classified(l[i]) \in Seq(TargetType)
  BY <1>2, ClassifiedNamed
<1>4. ss \in Seq(Seq(TargetType)) /\ DOMAIN ss = DOMAIN l
  BY <1>1, <1>3
<1>5. \A i \in DOMAIN l : ss[i] = Classified(l[i])
  OBVIOUS
<1> HIDE DEF ss
<1>6. S = UNION {ToSet(ss[i]) : i \in DOMAIN ss} /\ FlattenSeq(ss) \in Seq(TargetType)
  BY <1>4, FlattenToSet, FlattenInSeq
<1>7. IsFiniteSet(S) /\ S \subseteq TargetType
  BY <1>6, ToSetFinite
<1>8. S = Meant(W)
  <2>1. ASSUME NEW t \in S PROVE t \in Meant(W)
    <3>1. PICK i \in DOMAIN l : t \in ToSet(Classified(l[i]))
      BY <1>4, <1>5, <1>6
    <3>2. t \in TargetType /\ l[i] \in W /\ l[i] \in Word
      BY <1>2, <1>7
    <3>3. Named(t, l[i])
      BY <3>1, <3>2, ClassifiedNamed
    <3> QED
      BY <3>2, <3>3 DEF Meant
  <2>2. ASSUME NEW t \in Meant(W) PROVE t \in S
    <3>1. PICK w \in W : Named(t, w)
      BY DEF Meant
    <3>2. PICK i \in DOMAIN l : l[i] = w
      BY <1>1 DEF ToSet
    <3>3. t \in ToSet(Classified(l[i]))
      BY <3>1, <3>2, ClassifiedNamed DEF Meant
    <3> QED
      BY <1>4, <1>5, <1>6, <3>3
  <2> QED
    BY <2>1, <2>2
<1> HIDE DEF S
<1>9. Enumerates(Listed(S), S)
  BY <1>7, ListedEnumerates
<1> QED
  BY <1>8, <1>9 DEF uniqueTargets, S, ss, l

-----------------------------------------------------------------------------
(* The invariant. *)

\* The words are those of the sources that were read, and none of the sources that
\* are always asked has been passed by.
Gathered ==
  /\ opts \in Options
  /\ pc \in {"start", "file", "cli", "computers", "servers", "subnets", "classify"} \cup Ends
  /\ loaded \subseteq SourceName
  /\ raw = Read
  /\ pc \in {"start", "file", "unreachable"} => loaded = {}
  /\ pc = "unreachable" => hasLDAPAuth
  /\ pc \notin {"start", "file", "unreachable"} =>
       (opts.hasFile /\ opts.fileReadable => "file" \in loaded)
  /\ pc \notin {"start", "file", "cli", "unreachable"} => "cli" \in loaded

\* A source is read only when it was asked for.
Asked ==
  /\ "file" \in loaded => opts.hasFile /\ opts.fileReadable
  /\ "nets" \in loaded => opts.subnets /\ hasLDAPAuth
  /\ {"computers", "servers"} \cap loaded # {} \/ pc \in {"computers", "servers"} =>
       UserWords = {} /\ hasLDAPAuth

\* Until the end there are no targets, and then they list what the words mean.
Ready ==
  /\ pc \notin Ends => targets = <<>>
  /\ pc \in Ends => Enumerates(targets, Meant(raw))

Inv == Gathered /\ Asked /\ Ready

LEMMA InitInv == Init => Inv
<1> SUFFICES ASSUME Init PROVE Inv
  OBVIOUS
<1>1. Gathered
  BY DEF Init, Gathered, Read, Ends
<1>2. Asked /\ Ready
  BY DEF Init, Asked, Ready, Ends
<1> QED
  BY <1>1, <1>2 DEF Inv

LEMMA EmptyEnumerates == Enumerates(<<>>, {})
BY DEF Enumerates, ToSet

LEMMA LoadMore ==
  ASSUME raw = Read, UNCHANGED opts, NEW s \in SourceName, Load(s, Source(s)),
         loaded \subseteq SourceName
  PROVE  raw' = Read' /\ loaded' \subseteq SourceName /\ loaded \subseteq loaded' /\ s \in loaded'
<1>1. \A r \in SourceName : Source(r)' = Source(r)
  BY DEF Source
<1>2. Read' = UNION {Source(r) : r \in loaded'}
  BY <1>1 DEF Load, Read
<1> QED
  BY <1>2 DEF Load, Read

LEMMA NextAsked == Gathered /\ Asked /\ [Next]_vars => Asked'
<1> SUFFICES ASSUME Gathered, Asked, [Next]_vars PROVE Asked'
  OBVIOUS
<1>0. /\ UNCHANGED opts
      /\ (hasLDAPAuth' <=> hasLDAPAuth) /\ UserWords' = UserWords
  <2>1. UNCHANGED opts
    BY DEF Next, vars, CheckDC, LoadFromFile, LoadFromOptions, LoadComputers, LoadServers,
           LoadSubnets, Classify, Ended
  <2> QED
    BY <2>1 DEF hasLDAPAuth, UserWords
<1> USE <1>0 DEF Asked
<1>1. CASE CheckDC
  BY <1>1 DEF CheckDC, Gathered
<1>2. CASE LoadFromFile
  BY <1>2 DEF LoadFromFile, Load
<1>3. CASE LoadFromOptions
  <2>1. CASE pc' = "computers"
    <3>1. raw = {} /\ opts.cli = {} /\ hasLDAPAuth
      BY <1>3, <2>1 DEF LoadFromOptions, Load
    <3>2. opts.hasFile /\ opts.fileReadable => opts.file = {}
      <4> SUFFICES ASSUME opts.hasFile /\ opts.fileReadable PROVE opts.file = {}
        OBVIOUS
      <4>1. "file" \in loaded
        BY <1>3 DEF LoadFromOptions, Gathered
      <4>2. Source("file") \subseteq raw /\ Source("file") = opts.file
        BY <4>1 DEF Gathered, Read, Source
      <4> QED
        BY <3>1, <4>2
    <3>3. UserWords = {}
      BY <3>1, <3>2 DEF UserWords
    <3> QED
      BY <1>3, <2>1, <3>1, <3>3 DEF LoadFromOptions, Load
  <2>2. CASE pc' = "subnets"
    BY <1>3, <2>2 DEF LoadFromOptions, Load
  <2> QED
    BY <1>3, <2>1, <2>2 DEF LoadFromOptions
<1>4. CASE LoadComputers
  BY <1>4 DEF LoadComputers, Load
<1>5. CASE LoadServers
  BY <1>5 DEF LoadServers, Load
<1>6. CASE LoadSubnets
  BY <1>6 DEF LoadSubnets, Load
<1>7. CASE Classify
  BY <1>7 DEF Classify
<1>8. CASE UNCHANGED vars
  BY <1>8 DEF vars
<1> QED
  BY <1>1, <1>2, <1>3, <1>4, <1>5, <1>6, <1>7, <1>8 DEF Next, Ended

LEMMA NextInv == Inv /\ [Next]_vars => Inv'
<1> SUFFICES ASSUME Inv, [Next]_vars PROVE Inv'
  OBVIOUS
<1>a. Gathered /\ Ready /\ Asked'
  BY NextAsked DEF Inv
<1> SUFFICES Gathered' /\ Ready'
  BY <1>a DEF Inv
<1> USE <1>a DEF Ready, Ends
<1>b. UNCHANGED opts => (hasLDAPAuth' <=> hasLDAPAuth)
  BY DEF hasLDAPAuth
<1>0. UNCHANGED <<opts, loaded>> => Read' = Read
  BY DEF Read, Source
<1>1. CASE CheckDC
  <2>1. Gathered'
    BY <1>0, <1>1, <1>b DEF CheckDC, Gathered
  <2>2. CASE pc' = "file"
    BY <1>1, <2>1, <2>2 DEF CheckDC
  <2>3. CASE pc' = "unreachable"
    <3>1. raw = {} /\ targets = <<>>
      BY <1>1 DEF CheckDC, Gathered, Read
    <3>2. Enumerates(targets, Meant(raw))
      BY <3>1, EmptyEnumerates DEF Meant
    <3>3. Meant(raw)' = Meant(raw) /\ targets' = targets
      BY <1>1 DEF CheckDC
    <3> QED
      BY <2>1, <2>3, <3>2, <3>3
  <2> QED
    BY <1>1, <2>1, <2>2, <2>3 DEF CheckDC
<1>2. CASE LoadFromFile
  <2>1. CASE opts.hasFile /\ opts.fileReadable
    <3>1. Load("file", Source("file")) /\ UNCHANGED opts
      BY <1>2, <2>1 DEF LoadFromFile, Source
    <3>2. raw' = Read' /\ loaded' \subseteq SourceName /\ loaded \subseteq loaded' /\ "file" \in loaded'
      BY <3>1, LoadMore DEF Gathered, SourceName
    <3> QED
      BY <1>2, <3>2 DEF LoadFromFile, Gathered
  <2>2. CASE ~ (opts.hasFile /\ opts.fileReadable)
    BY <1>0, <1>2, <2>2 DEF LoadFromFile, Gathered
  <2> QED
    BY <2>1, <2>2
<1>3. CASE LoadFromOptions
  <2>1. Load("cli", Source("cli")) /\ UNCHANGED opts
    BY <1>3 DEF LoadFromOptions, Source
  <2>2. raw' = Read' /\ loaded' \subseteq SourceName /\ loaded \subseteq loaded' /\ "cli" \in loaded'
    BY <2>1, LoadMore DEF Gathered, SourceName
  <2> QED
    BY <1>3, <2>2 DEF LoadFromOptions, Gathered
<1>4. CASE LoadComputers
  <2>1. CASE UNCHANGED <<raw, loaded>>
    BY <1>0, <1>4, <2>1 DEF LoadComputers, Gathered
  <2>2. CASE Load("computers", Source("computers"))
    <3>1. raw' = Read' /\ loaded' \subseteq SourceName /\ loaded \subseteq loaded'
      BY <1>4, <2>2, LoadMore DEF LoadComputers, Gathered, SourceName
    <3> QED
      BY <1>4, <3>1 DEF LoadComputers, Gathered
  <2> QED
    BY <1>4, <2>1, <2>2, EntriesNamed DEF LoadComputers, Gathered
<1>5. CASE LoadServers
  <2>1. CASE UNCHANGED <<raw, loaded>>
    BY <1>0, <1>5, <2>1 DEF LoadServers, Gathered
  <2>2. CASE Load("servers", Source("servers"))
    <3>1. raw' = Read' /\ loaded' \subseteq SourceName /\ loaded \subseteq loaded'
      BY <1>5, <2>2, LoadMore DEF LoadServers, Gathered, SourceName
    <3> QED
      BY <1>5, <3>1 DEF LoadServers, Gathered
  <2> QED
    BY <1>5, <2>1, <2>2, EntriesNamed DEF LoadServers, Gathered
<1>6. CASE LoadSubnets
  <2>1. CASE UNCHANGED <<raw, loaded>>
    BY <1>0, <1>6, <2>1 DEF LoadSubnets, Gathered
  <2>2. CASE Load("nets", opts.nets)
    <3>1. raw' = Read' /\ loaded' \subseteq SourceName /\ loaded \subseteq loaded'
      BY <1>6, <2>2, LoadMore DEF LoadSubnets, Gathered, SourceName, Source
    <3> QED
      BY <1>6, <3>1 DEF LoadSubnets, Gathered
  <2> QED
    BY <1>6, <2>1, <2>2 DEF LoadSubnets
<1>7. CASE Classify
  <2>1. Enumerates(targets', Meant(raw))
    <3>1. IsFiniteSet(raw) /\ \A w \in raw : w \in Word
      BY ReadFinite DEF Gathered
    <3> QED
      BY <1>7, <3>1, ListOfTargets DEF Classify
  <2>2. Gathered'
    BY <1>0, <1>7 DEF Classify, Gathered
  <2>3. Meant(raw)' = Meant(raw)
    BY <1>7 DEF Classify
  <2> QED
    BY <1>7, <2>1, <2>2, <2>3 DEF Classify
<1>8. CASE UNCHANGED vars
  <2>1. Gathered'
    BY <1>0, <1>b, <1>8 DEF vars, Gathered
  <2>2. Meant(raw)' = Meant(raw) /\ targets' = targets /\ pc' = pc
    BY <1>8 DEF vars
  <2> QED
    BY <2>1, <2>2
<1> QED
  BY <1>1, <1>2, <1>3, <1>4, <1>5, <1>6, <1>7, <1>8 DEF Next, Ended

\* The invariant holds throughout.
THEOREM Listing == Spec => []Inv
<1>1. Init => Inv
  BY InitInv
<1>2. Inv /\ [Next]_vars => Inv'
  BY NextInv
<1> QED
  BY <1>1, <1>2, PTL DEF Spec

-----------------------------------------------------------------------------
(* What the runs check. *)

LEMMA InvTypeOK == Inv => TypeOK
<1> SUFFICES ASSUME Inv PROVE TypeOK
  OBVIOUS
<1>1. opts \in Options /\ DOMAIN opts = OptionField
  BY TargetsAssumption DEF Inv, Gathered
<1>2. \A t \in raw : t \in Word
  BY ReadFinite DEF Inv, Gathered
<1>3. \A i \in DOMAIN targets :
        targets[i].type \in {"ipv4", "ipv6", "fqdn"} /\ targets[i].value \in Nat
  <2>1. CASE pc \notin Ends
    BY <2>1 DEF Inv, Ready
  <2>2. CASE pc \in Ends
    <3>1. targets \in Seq(Meant(raw))
      BY <2>2 DEF Inv, Ready, Enumerates
    <3> QED
      BY <3>1 DEF Meant, TargetType
  <2> QED
    BY <2>1, <2>2
<1> QED
  BY <1>1, <1>2, <1>3 DEF TypeOK, Inv, Gathered, SourceName

\* LoadTargets keeps its types: the targets have one of the three types that
\* ClassifyTarget knows.
THEOREM TargetsTypeCorrect == Spec => []TypeOK
BY Listing, InvTypeOK, PTL

\* What the targets are, and of which type.
LEMMA TargetsMeant ==
  ASSUME Inv
  PROVE  /\ pc \in Ends => ToSet(targets) = Meant(raw)
         /\ pc \notin Ends => ToSet(targets) = {}
         /\ raw = UNION {Source(s) : s \in loaded}
<1>1. ToSet(<<>>) = {}
  BY DEF ToSet
<1> QED
  BY <1>1 DEF Inv, Ready, Gathered, Read, Enumerates

LEMMA CandidateType ==
  ASSUME Inv, pc \in Ends, NEW words, \A w \in words : w \in Word
  PROVE  Candidates(words) \subseteq TargetType
<1> SUFFICES ASSUME NEW t \in Candidates(words) PROVE t \in TargetType
  OBVIOUS
<1>1. CASE t \in {Target("ipv4", a) : a \in Addresses}
  <2>1. 2 ^ Width \in Nat /\ 2 ^ Width # 0
    BY TargetsAssumption, PowerOfTwo
  <2> DEFINE power == 2 ^ Width
  <2>2. Addresses = 0..(power - 1) /\ power \in Nat /\ power # 0
    BY <2>1 DEF Addresses
  <2> HIDE DEF power
  <2>3. Addresses \subseteq Nat
    BY <2>2
  <2> QED
    BY <1>1, <2>3 DEF Target, TargetType
<1>2. CASE t \in ToSet(targets)
  BY <1>2, TargetsMeant DEF Meant
<1>3. CASE t \in words /\ t.type \in {"fqdn", "ipv6"}
  BY <1>3 DEF Word, TargetType
<1> QED
  BY <1>1, <1>2, <1>3 DEF Candidates

\* The targets are exactly those that the sources that were read name, whichever of
\* them failed: the addresses of a network, without the two at its edges where there
\* are more, and every address and name as it stands.
THEOREM TargetsAreNamed == Spec => []NothingLost
<1>1. Inv => NothingLost
  <2> DEFINE W == UNION {Source(s) : s \in loaded}
  <2> SUFFICES ASSUME Inv, pc \in Ends, NEW t \in Candidates(W)
               PROVE  t \in ToSet(targets) <=> \E s \in loaded : \E w \in Source(s) : Named(t, w)
    BY DEF NothingLost
  <2>1. t \in TargetType
    <3>1. \A w \in W : w \in Word
      BY SourceWords DEF Inv, Gathered
    <3> HIDE DEF W
    <3> QED
      BY <3>1, CandidateType
  <2>2. ToSet(targets) = Meant(raw) /\ raw = W
    BY TargetsMeant
  <2>3. t \in Meant(raw) <=> \E w \in raw : Named(t, w)
    BY <2>1 DEF Meant
  <2> QED
    BY <2>2, <2>3
<1> QED
  BY <1>1, Listing, PTL

\* Whatever fails of the file and of the directory, all that the user's lists name is
\* in the list of targets; or the domain controller that the user's credentials are for
\* did not answer, and there is nothing in it.
THEOREM FailureIsContained == Spec => []OthersStillUsed
<1>1. Inv => OthersStillUsed
  <2> SUFFICES ASSUME Inv, pc \in Ends PROVE OthersStillUsed
    BY DEF OthersStillUsed
  <2>1. CASE pc = "unreachable"
    <3>1. raw = {} /\ hasLDAPAuth /\ Enumerates(targets, Meant(raw))
      BY <2>1 DEF Inv, Gathered, Read, Ready
    <3>2. targets \in Seq({})
      BY <3>1 DEF Enumerates, Meant
    <3>3. targets = <<>>
      BY <3>2
    <3> QED
      BY <2>1, <3>1, <3>3 DEF OthersStillUsed
  <2>2. CASE pc # "unreachable"
    <3>1. /\ opts.hasFile /\ opts.fileReadable => "file" \in loaded
          /\ "cli" \in loaded
      BY <2>2 DEF Inv, Gathered, Ends
    <3>2. UserWords \subseteq raw
      BY <3>1, TargetsMeant DEF UserWords, Source
    <3>3. \A w \in raw : w \in Word
      BY ReadFinite DEF Inv, Gathered
    <3>4. Candidates(UserWords) \subseteq TargetType
      BY <3>2, <3>3, CandidateType
    <3>5. ToSet(targets) = Meant(raw)
      BY TargetsMeant
    <3> QED
      BY <3>2, <3>4, <3>5 DEF OthersStillUsed, Meant
  <2> QED
    BY <2>1, <2>2
<1> QED
  BY <1>1, Listing, PTL

\* A target is in the list because a list of the user names it, or the subnets that
\* were wanted; or it is a computer of the domain, of which the user has credentials,
\* and the user's lists are empty.
THEOREM NothingUnasked == Spec => []OnlyWhatWasAskedFor
<1>1. Inv => OnlyWhatWasAskedFor
  <2> SUFFICES ASSUME Inv, NEW t \in ToSet(targets)
               PROVE  \/ \E w \in UserWords : Named(t, w)
                      \/ opts.subnets /\ hasLDAPAuth /\ \E w \in opts.nets : Named(t, w)
                      \/ /\ UserWords = {} /\ hasLDAPAuth
                         /\ \E e \in opts.computers \cup opts.servers : t = Target("fqdn", e.value)
    BY DEF OnlyWhatWasAskedFor
  <2>1. PICK w \in raw : Named(t, w)
    BY TargetsMeant DEF Meant
  <2>2. PICK s \in loaded : w \in Source(s)
    BY TargetsMeant
  <2>3. s \in SourceName
    BY DEF Inv, Gathered
  <2>4. CASE s = "file"
    BY <2>1, <2>2, <2>4 DEF Inv, Asked, UserWords, Source
  <2>5. CASE s = "cli"
    BY <2>1, <2>2, <2>5 DEF UserWords, Source
  <2>6. CASE s = "nets"
    BY <2>1, <2>2, <2>6 DEF Inv, Asked, Source
  <2>7. CASE s \in {"computers", "servers"}
    <3>1. PICK e \in opts.computers \cup opts.servers : w = Target("fqdn", e.value)
      BY <2>2, <2>7 DEF Source
    <3>2. t = w
      BY <2>1, <3>1 DEF Named, Target
    <3>3. UserWords = {} /\ hasLDAPAuth
      BY <2>7 DEF Inv, Asked
    <3> QED
      BY <3>1, <3>2, <3>3
  <2> QED
    BY <2>3, <2>4, <2>5, <2>6, <2>7 DEF SourceName
<1> QED
  BY <1>1, Listing, PTL
=============================================================================
