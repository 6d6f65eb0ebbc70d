--------------------------- MODULE TraversalProofs ----------------------------
(***************************************************************************)
(* What Traversal emits, for every tree of entries, every list of rules    *)
(* and every descriptor.                                                   *)
(***************************************************************************)
EXTENDS Traversal, SequenceLemmas, SequenceTheorems

-----------------------------------------------------------------------------
(* Rights. *)

\* A mapping from the kinds of edges to the bits that they stand for.
IsMapping(mapping) == IsFiniteSet(DOMAIN mapping) 

LEMMA PairsFinite ==
  ASSUME NEW K, IsFiniteSet(K), NEW p
  PROVE  IsFiniteSet({<<p, k>> : k \in K})
<1> DEFINE f == [k \in K |-> <<p, k>>]
<1>1. f \in Surjection(K, {<<p, k>> : k \in K})
  BY DEF Surjection
<1> HIDE DEF f
<1> QED
  BY <1>1, FS_Surjection

\* ParseACL keeps the entries before the first that is cut, as far as they are of a
\* type that it knows.
LEMMA ParsedEntries ==
  ASSUME NEW aces \in Seq(AceType)
  PROVE  /\ ParseACL(aces) \in Seq(AceType)
         /\ \A i \in DOMAIN ParseACL(aces) :
              /\ i \in DOMAIN aces /\ \A j \in 1..i : ~ aces[j].cut
              /\ aces[i].type \in BasicTypes => ParseACL(aces)[i] = aces[i]
              /\ ParseACL(aces)[i].type = aces[i].type
         /\ \A i \in DOMAIN aces :
              (\A j \in 1..i : ~ aces[j].cut) => i \in DOMAIN ParseACL(aces)
<1> DEFINE I == {i \in 1..Len(aces) : aces[i].cut}
           cut == SelectInSeq(aces, LAMBDA a : a.cut)
           last == IF cut = 0 THEN Len(aces) ELSE cut - 1
           Parse(a) == IF a.type \in BasicTypes THEN a ELSE [a EXCEPT !.sid = NoSid, !.mask = {}]
<1>1. cut = IF I # {} THEN CHOOSE m \in I : \A j \in I : m <= j ELSE 0
  BY DEF SelectInSeq, Min
<1>2. last \in 0..Len(aces) /\ \A i \in 1..Len(aces) : i <= last <=> \A j \in 1..i : ~ aces[j].cut
  <2>1. CASE I = {}
    BY <1>1, <2>1
  <2>2. CASE I # {}
    <3>1. I \in SUBSET Nat
      OBVIOUS
    <3>2. \E m \in I : \A j \in I : m <= j
      <4> HIDE DEF I
      <4> QED
        BY <2>2, <3>1, LeastNatural
    <3>3. cut \in I /\ \A j \in I : cut <= j
      <4> HIDE DEF cut, I
      <4> QED
        BY <1>1, <2>2, <3>2
    <3> HIDE DEF cut
    <3> QED
      BY <3>3
  <2> QED
    BY <2>1, <2>2
<1>3. ParseACL(aces) = [i \in 1..last |-> Parse(aces[i])]
  BY DEF ParseACL
<1>4. ASSUME NEW a \in AceType
      PROVE  Parse(a) \in AceType /\ Parse(a).type = a.type
  <2>1. CASE a.type \in BasicTypes
    BY <2>1
  <2>2. CASE a.type \notin BasicTypes
    <3>0. {} \in SUBSET Bit
      OBVIOUS
    <3>1. a = [type |-> a.type, sid |-> a.sid, mask |-> a.mask, cut |-> a.cut]
          /\ a.cut \in BOOLEAN
      BY DEF AceType
    <3>2. Parse(a) = [type |-> a.type, sid |-> "none", mask |-> {}, cut |-> a.cut]
      BY <2>2, <3>1 DEF NoSid
    <3> HIDE DEF Parse
    <3>3. Parse(a).type = a.type
      BY <3>2
    <3>4. Parse(a) \in AceType
      BY <3>0, <3>1, <3>2 DEF AceType, NoSid
    <3> QED
      BY <3>3, <3>4
  <2> QED
    BY <2>1, <2>2
<1>5. \A a \in AceType : a.type \in BasicTypes => Parse(a) = a
  OBVIOUS
<1> HIDE DEF cut, last, Parse
<1>6. ParseACL(aces) \in Seq(AceType) /\ DOMAIN ParseACL(aces) = 1..last
  BY <1>2, <1>3, <1>4
<1>7. \A i \in 1..last : ParseACL(aces)[i] = Parse(aces[i]) /\ aces[i] \in AceType
  BY <1>2, <1>3
<1> QED
  BY <1>2, <1>4, <1>5, <1>6, <1>7

LEMMA DescriptorCases ==
  ASSUME NEW d \in DescriptorType
  PROVE  \/ d.present = FALSE /\ d.aces = <<>>
         \/ d.read = TRUE /\ d.present = TRUE /\ d.aces \in Seq(AceType)
<1>1. CASE d \in {Unreadable, NoDacl}
  BY <1>1 DEF Unreadable, NoDacl
<1>2. CASE d \in [read : {TRUE}, present : {TRUE}, aces : Seq(AceType)]
  BY <1>2
<1> QED
  BY <1>1, <1>2 DEF DescriptorType

\* The rights of a descriptor are what the entries of its list that can be read grant.
LEMMA RightsOfList ==
  ASSUME NEW mapping, IsMapping(mapping), NEW d \in DescriptorType
  PROVE  /\ RightsOf(mapping, d) \in Seq(Principal \X DOMAIN mapping)
         /\ ToSet(RightsOf(mapping, d)) =
              {r \in Principal \X DOMAIN mapping :
                 Grants(d, r[1], {mapping[r[2]]})}
<1> DEFINE Given == {r \in Principal \X DOMAIN mapping :
                       Grants(d, r[1], {mapping[r[2]]})}
<1>1. CASE d.present = FALSE /\ d.aces = <<>>
  <2>1. RightsOf(mapping, d) = <<>> /\ d.aces = <<>>
    BY <1>1 DEF RightsOf
  <2>2. Given = {}
    BY <2>1 DEF Grants
  <2>3. ToSet(<<>>) = {} /\ <<>> \in Seq(Principal \X DOMAIN mapping)
    BY DEF ToSet
  <2> QED
    BY <2>1, <2>2, <2>3
<1>2. CASE d.read = TRUE /\ d.present = TRUE /\ d.aces \in Seq(AceType)
  <2> DEFINE Granted(a) == IF a.type = "allowed" /\ a.sid # NoSid
                           THEN SetToSeq({<<a.sid, k>> : k \in KindsForMask(mapping, a.mask)})
                           ELSE <<>>
             aces == ParseACL(d.aces)
             ss == [i \in DOMAIN aces |-> Granted(aces[i])]
             Pairs(a) == {<<a.sid, k>> : k \in KindsForMask(mapping, a.mask)}
  <2>1. RightsOf(mapping, d) = FlattenSeq(ss)
    BY <1>2 DEF RightsOf
  <2>2. d.aces \in Seq(AceType)
    BY <1>2
  <2>3. aces \in Seq(AceType)
    BY <2>2, ParsedEntries
  <2>4. ASSUME NEW a \in AceType
        PROVE  /\ Granted(a) \in Seq(Principal \X DOMAIN mapping)
               /\ ToSet(Granted(a)) = IF a.type = "allowed" /\ a.sid # NoSid THEN Pairs(a) ELSE {}
    <3>1. a.sid # NoSid => Pairs(a) \subseteq Principal \X DOMAIN mapping
      BY DEF AceType, KindsForMask
    <3>2. IsFiniteSet(KindsForMask(mapping, a.mask))
      BY FS_Subset DEF IsMapping, KindsForMask
    <3>3. IsFiniteSet(Pairs(a))
      BY <3>2, PairsFinite
    <3> HIDE DEF Pairs
    <3>4. SetToSeq(Pairs(a)) \in Seq(Pairs(a)) /\ ToSet(SetToSeq(Pairs(a))) = Pairs(a)
      BY <3>3, SetAsSequence
    <3>5. a.sid # NoSid => SetToSeq(Pairs(a)) \in Seq(Principal \X DOMAIN mapping)
      BY <3>1, <3>4
    <3>6. ToSet(<<>>) = {} /\ <<>> \in Seq(Principal \X DOMAIN mapping)
      BY DEF ToSet
    <3>7. Granted(a) = IF a.type = "allowed" /\ a.sid # NoSid THEN SetToSeq(Pairs(a)) ELSE <<>>
      BY DEF Pairs
    <3> HIDE DEF Granted
    <3> QED
      BY <3>4, <3>5, <3>6, <3>7
  <2> HIDE DEF Granted
  <2>5. ss \in Seq(Seq(Principal \X DOMAIN mapping)) /\ DOMAIN ss = DOMAIN aces
    BY <2>3, <2>4
  <2>6. ToSet(FlattenSeq(ss)) = UNION {ToSet(ss[i]) : i \in DOMAIN ss}
        /\ FlattenSeq(ss) \in Seq(Principal \X DOMAIN mapping)
    <3> HIDE DEF ss
    <3> QED
      BY <2>5, FlattenToSet, FlattenInSeq
  <2>7. \A i \in DOMAIN ss : ss[i] = Granted(aces[i]) /\ aces[i] \in AceType
    BY <2>3, <2>5
  <2> HIDE DEF ss
  <2>8. ASSUME NEW r \in ToSet(FlattenSeq(ss)) PROVE r \in Given
    <3>1. PICK i \in DOMAIN ss : r \in ToSet(ss[i])
      BY <2>6
    <3>2. aces[i].type = "allowed" /\ aces[i].sid # NoSid /\ r \in Pairs(aces[i])
      BY <2>4, <2>7, <3>1
    <3>3. /\ i \in DOMAIN d.aces /\ \A j \in 1..i : ~ d.aces[j].cut
          /\ d.aces[i].type \in BasicTypes => aces[i] = d.aces[i]
          /\ aces[i].type = d.aces[i].type
      BY <2>2, <2>5, ParsedEntries
    <3>5. aces[i] = d.aces[i]
      BY <3>2, <3>3 DEF BasicTypes
    <3>4. r \in Principal \X DOMAIN mapping /\ r[1] = aces[i].sid
          /\ mapping[r[2]] \in aces[i].mask
      BY <2>7, <3>2 DEF AceType, KindsForMask
    <3> HIDE DEF aces
    <3> QED
      BY <3>2, <3>3, <3>4, <3>5 DEF Grants
  <2>9. ASSUME NEW r \in Given PROVE r \in ToSet(FlattenSeq(ss))
    <3>1. PICK i \in DOMAIN d.aces :
            /\ d.aces[i].type = "allowed" /\ d.aces[i].sid = r[1]
            /\ mapping[r[2]] \in d.aces[i].mask
            /\ \A j \in 1..i : ~ d.aces[j].cut
      BY DEF Grants
    <3>2. i \in DOMAIN aces /\ aces[i] = d.aces[i]
      BY <2>2, <3>1, ParsedEntries DEF BasicTypes
    <3>3. r \in Pairs(aces[i])
      BY <3>1, <3>2 DEF KindsForMask
    <3>4. r \in ToSet(ss[i])
      <4>1. /\ i \in DOMAIN ss /\ aces[i] \in AceType /\ ss[i] = Granted(aces[i])
        BY <2>5, <2>7, <3>2
      <4>2. aces[i].type = "allowed" /\ aces[i].sid # NoSid
        BY <3>1, <3>2, PrincipalAssumption
      <4>3. ToSet(Granted(aces[i])) = Pairs(aces[i])
        BY <2>4, <4>1, <4>2
      <4> QED
        BY ONLY <3>3, <4>1, <4>3
    <3> QED
      BY <2>5, <2>6, <3>2, <3>4
  <2> QED
    BY <2>1, <2>6, <2>8, <2>9
<1> QED
  BY <1>1, <1>2, DescriptorCases

LEMMA MappingsAreFinite ==
  IsMapping(ShareRightsMapping) /\ IsMapping(NTFSRightsMapping) /\ IsFiniteSet(DOMAIN Needed)
<1> DEFINE s == <<"CanGenericAll", "CanGenericRead", "CanGenericWrite", "CanGenericExecute",
                  "CanDsCreateChild", "CanDsDeleteChild", "CanDsWriteProperty",
                  "CanShareRead", "CanShareWrite", "CanShareExecute", "CanDelete">>
           n == <<"CanNTFSGenericAll", "CanNTFSGenericRead", "CanNTFSGenericWrite",
                  "CanNTFSGenericExecute", "CanNTFSReadData", "CanNTFSWriteData",
                  "CanNTFSExecute", "CanNTFSDelete", "CanNTFSSynchronize">>
           e == <<"CanEffectiveRead", "CanEffectiveWrite", "CanEffectiveExecute">>
<1>1. \A m \in Nat : IsFiniteSet(1..m)
  BY FS_Interval
<1>2. 11 \in Nat /\ 9 \in Nat /\ 3 \in Nat
  OBVIOUS
<1>3. IsFiniteSet(1..11) /\ IsFiniteSet(1..9) /\ IsFiniteSet(1..3)
  BY <1>1, <1>2, Zenon
<1>4. s \in Surjection(1..11, DOMAIN ShareRightsMapping)
  BY DEF Surjection, ShareRightsMapping
<1>5. n \in Surjection(1..9, DOMAIN NTFSRightsMapping)
  BY DEF Surjection, NTFSRightsMapping
<1>6. e \in Surjection(1..3, DOMAIN Needed)
  BY DEF Surjection, Needed
<1> HIDE DEF s, n, e
<1>7. IsFiniteSet(DOMAIN ShareRightsMapping)
  BY <1>3, <1>4, FS_Surjection
<1>8. IsFiniteSet(DOMAIN NTFSRightsMapping)
  BY <1>3, <1>5, FS_Surjection
<1>9. IsFiniteSet(DOMAIN Needed)
  BY <1>3, <1>6, FS_Surjection
<1> QED
  BY <1>7, <1>8, <1>9 DEF IsMapping

\* What the collectors find of a descriptor is typed, and is what its list grants.
LEMMA CollectedRights ==
  /\ \A e \in Entry \cup {Root} :
       /\ Ntfs[e] \in Seq(Right)
       /\ ToSet(Ntfs[e]) = {r \in Principal \X DOMAIN NTFSRightsMapping :
                             Grants(Descriptor[e], r[1], {NTFSRightsMapping[r[2]]})}
  /\ \A l \in Lists \cup {Unreadable} :
       /\ CollectShareRights(l) \in Seq(Right)
       /\ ToSet(CollectShareRights(l)) =
            {r \in Principal \X DOMAIN ShareRightsMapping :
               Grants(l, r[1], {ShareRightsMapping[r[2]]})}
<1>1. /\ Principal \X DOMAIN NTFSRightsMapping \subseteq Right
      /\ Principal \X DOMAIN ShareRightsMapping \subseteq Right
  BY DEF Right
<1>2. ASSUME NEW e \in Entry \cup {Root}
      PROVE  /\ Ntfs[e] \in Seq(Right)
             /\ ToSet(Ntfs[e]) = {r \in Principal \X DOMAIN NTFSRightsMapping :
                                   Grants(Descriptor[e], r[1], {NTFSRightsMapping[r[2]]})}
  <2>1. Ntfs[e] = RightsOf(NTFSRightsMapping, Descriptor[e]) /\ Descriptor[e] \in DescriptorType
    BY TraversalAssumption DEF Ntfs, CollectNTFSRights
  <2>2. /\ Ntfs[e] \in Seq(Principal \X DOMAIN NTFSRightsMapping)
        /\ ToSet(Ntfs[e]) = {r \in Principal \X DOMAIN NTFSRightsMapping :
                              Grants(Descriptor[e], r[1], {NTFSRightsMapping[r[2]]})}
    <3> DEFINE d == Descriptor[e]
    <3> HIDE DEF d
    <3>1. d \in DescriptorType /\ Ntfs[e] = RightsOf(NTFSRightsMapping, d)
          /\ IsMapping(NTFSRightsMapping)
      BY <2>1, MappingsAreFinite DEF d
    <3>2. /\ Ntfs[e] \in Seq(Principal \X DOMAIN NTFSRightsMapping)
          /\ ToSet(Ntfs[e]) = {r \in Principal \X DOMAIN NTFSRightsMapping :
                                Grants(d, r[1], {NTFSRightsMapping[r[2]]})}
      <4>1. /\ RightsOf(NTFSRightsMapping, d) \in Seq(Principal \X DOMAIN NTFSRightsMapping)
            /\ ToSet(RightsOf(NTFSRightsMapping, d)) = 
                {r \in Principal \X DOMAIN NTFSRightsMapping :
                                Grants(d, r[1], {NTFSRightsMapping[r[2]]})}
        BY <3>1, RightsOfList
      <4> QED
        BY <3>1, <4>1
    <3> QED
      BY <3>2 DEF d
  <2> QED
    BY <1>1, <2>2
<1>3. ASSUME NEW l \in Lists \cup {Unreadable}
      PROVE  /\ CollectShareRights(l) \in Seq(Right)
             /\ ToSet(CollectShareRights(l)) =
                  {r \in Principal \X DOMAIN ShareRightsMapping :
                     Grants(l, r[1], {ShareRightsMapping[r[2]]})}
  <2>1. l \in DescriptorType
    <3>1. Unreadable \in DescriptorType
      BY DEF DescriptorType
    <3>2. ASSUME NEW e \in DOMAIN Descriptor PROVE Descriptor[e] \in DescriptorType
      BY TraversalAssumption
    <3> QED
      BY <3>1, <3>2, TraversalAssumption DEF Lists
  <2>2. /\ CollectShareRights(l) \in Seq(Principal \X DOMAIN ShareRightsMapping)
        /\ ToSet(CollectShareRights(l)) =
             {r \in Principal \X DOMAIN ShareRightsMapping :
                Grants(l, r[1], {ShareRightsMapping[r[2]]})}
    BY <2>1, MappingsAreFinite, RightsOfList DEF CollectShareRights
  <2> QED
    BY <1>1, <2>2
<1> QED
  BY <1>2, <1>3

-----------------------------------------------------------------------------
(* Sequences of records that may follow each other. *)

Nodes(s)    == {s[i].to : i \in {j \in DOMAIN s : s[j].kind = "node"}}
Subjects(s) == {s[i].to : i \in DOMAIN s}

\* The nodes that are known at the i-th record, if those of P are before s.
Before(P, s, i) == P \cup {s[j].to : j \in {k \in 1..(i - 1) : s[k].kind = "node"}}

\* Where a node belongs.
Home(n) == IF n = Root THEN Host ELSE Parent[n]

Joined(e, known) ==
  /\ e.to \in known
  /\ e.kind = "contains" => e.from \in known /\ e.from = Home(e.to)

Follows(P, s) == \A i \in DOMAIN s : s[i].kind # "node" => Joined(s[i], Before(P, s, i))

Once(s) == \A i, j \in DOMAIN s : s[i] = s[j] /\ s[i].kind # "right" => i = j

\* s may come after the nodes of P: it is about nodes of its own.
Sound(P, s) ==
  /\ s \in Seq(RecordType)
  /\ Subjects(s) = Nodes(s) /\ Nodes(s) \cap P = {}
  /\ Follows(P, s) /\ Once(s)

LEMMA ConcatAt ==
  ASSUME NEW X, NEW s \in Seq(X), NEW t \in Seq(X)
  PROVE  /\ s \o t \in Seq(X) /\ Len(s \o t) = Len(s) + Len(t)
         /\ \A i \in DOMAIN s : i \in DOMAIN (s \o t) /\ (s \o t)[i] = s[i]
         /\ \A i \in DOMAIN t : Len(s) + i \in DOMAIN (s \o t) /\ (s \o t)[Len(s) + i] = t[i]
         /\ \A i \in DOMAIN (s \o t) :
              i \in DOMAIN s \/ \E j \in DOMAIN t : i = Len(s) + j
<1>1. /\ s \o t \in Seq(X) /\ Len(s \o t) = Len(s) + Len(t)
      /\ Len(s) \in Nat /\ Len(t) \in Nat
      /\ DOMAIN s = 1..Len(s) /\ DOMAIN t = 1..Len(t)
      /\ DOMAIN (s \o t) = 1..(Len(s) + Len(t))
  OBVIOUS
<1>2. ASSUME NEW i \in DOMAIN s PROVE i \in DOMAIN (s \o t) /\ (s \o t)[i] = s[i]
  OBVIOUS
<1>3. ASSUME NEW i \in DOMAIN t
      PROVE  Len(s) + i \in DOMAIN (s \o t) /\ (s \o t)[Len(s) + i] = t[i]
  OBVIOUS
<1>4. ASSUME NEW i \in DOMAIN (s \o t)
      PROVE  i \in DOMAIN s \/ \E j \in DOMAIN t : i = Len(s) + j
  <2>1. CASE i > Len(s)
    <3>1. i - Len(s) \in DOMAIN t /\ i = Len(s) + (i - Len(s))
      BY <1>1, <2>1
    <3> QED
      BY <3>1
  <2> QED
    BY <1>1, <2>1
<1> QED
  BY <1>1, <1>2, <1>3, <1>4

LEMMA ConcatNodes ==
  ASSUME NEW s \in Seq(RecordType), NEW t \in Seq(RecordType)
  PROVE  /\ Nodes(s \o t) = Nodes(s) \cup Nodes(t)
         /\ Subjects(s \o t) = Subjects(s) \cup Subjects(t)
<1> DEFINE u == s \o t
<1>1. /\ \A i \in DOMAIN s : i \in DOMAIN u /\ u[i] = s[i]
      /\ \A i \in DOMAIN t : Len(s) + i \in DOMAIN u /\ u[Len(s) + i] = t[i]
      /\ \A i \in DOMAIN u : i \in DOMAIN s \/ \E j \in DOMAIN t : i = Len(s) + j
  BY ConcatAt
<1> HIDE DEF u
<1>2. Nodes(u) = Nodes(s) \cup Nodes(t)
  <2>1. ASSUME NEW n \in Nodes(u) PROVE n \in Nodes(s) \cup Nodes(t)
    BY <1>1 DEF Nodes
  <2>2. ASSUME NEW n \in Nodes(s) PROVE n \in Nodes(u)
    BY <1>1 DEF Nodes
  <2>3. ASSUME NEW n \in Nodes(t) PROVE n \in Nodes(u)
    BY <1>1 DEF Nodes
  <2> QED
    BY <2>1, <2>2, <2>3
<1>3. Subjects(u) = Subjects(s) \cup Subjects(t)
  <2>1. ASSUME NEW n \in Subjects(u) PROVE n \in Subjects(s) \cup Subjects(t)
    BY <1>1 DEF Subjects
  <2>2. ASSUME NEW n \in Subjects(s) PROVE n \in Subjects(u)
    BY <1>1 DEF Subjects
  <2>3. ASSUME NEW n \in Subjects(t) PROVE n \in Subjects(u)
    BY <1>1 DEF Subjects
  <2> QED
    BY <2>1, <2>2, <2>3
<1> QED
  BY <1>2, <1>3 DEF u

LEMMA OnceConcat ==
  ASSUME NEW s \in Seq(RecordType), NEW t \in Seq(RecordType), Once(s), Once(t),
         \A i \in DOMAIN s : \A j \in DOMAIN t : s[i] # t[j]
  PROVE  Once(s \o t)
<1> DEFINE u == s \o t
<1>1. /\ Len(s) \in Nat
      /\ \A i \in DOMAIN s : i \in DOMAIN u /\ u[i] = s[i]
      /\ \A i \in DOMAIN t : Len(s) + i \in DOMAIN u /\ u[Len(s) + i] = t[i]
      /\ \A i \in DOMAIN u : i \in DOMAIN s \/ \E j \in DOMAIN t : i = Len(s) + j
  BY ConcatAt
<1> HIDE DEF u
<1> SUFFICES ASSUME NEW i \in DOMAIN u, NEW j \in DOMAIN u, u[i] = u[j], u[i].kind # "right"
             PROVE  i = j
  BY DEF Once, u
<1>2. CASE i \in DOMAIN s /\ j \in DOMAIN s
  BY <1>1, <1>2 DEF Once
<1>3. CASE \E k, l \in DOMAIN t : i = Len(s) + k /\ j = Len(s) + l
  <2>1. PICK k \in DOMAIN t, l \in DOMAIN t : i = Len(s) + k /\ j = Len(s) + l
    BY <1>3
  <2>2. t[k] = t[l] /\ t[k].kind # "right"
    BY <1>1, <2>1
  <2> QED
    BY <2>1, <2>2 DEF Once
<1> QED
  BY <1>1, <1>2, <1>3

\* Sound sequences can be joined.
LEMMA SoundConcat ==
  ASSUME NEW P, NEW s, NEW t, Sound(P, s), Sound(P \cup Nodes(s), t)
  PROVE  Sound(P, s \o t) /\ Nodes(s \o t) = Nodes(s) \cup Nodes(t)
<1> DEFINE u == s \o t
<1>0. s \in Seq(RecordType) /\ t \in Seq(RecordType)
  BY DEF Sound
<1>1. /\ u \in Seq(RecordType) /\ Len(s) \in Nat
      /\ \A i \in DOMAIN s : i \in DOMAIN u /\ u[i] = s[i]
      /\ \A i \in DOMAIN t : Len(s) + i \in DOMAIN u /\ u[Len(s) + i] = t[i]
      /\ \A i \in DOMAIN u : i \in DOMAIN s \/ \E j \in DOMAIN t : i = Len(s) + j
  BY <1>0, ConcatAt
<1>2. Nodes(u) = Nodes(s) \cup Nodes(t) /\ Subjects(u) = Subjects(s) \cup Subjects(t)
  BY <1>0, ConcatNodes
<1>3. DOMAIN s = 1..Len(s) /\ DOMAIN t = 1..Len(t) /\ Len(t) \in Nat
  BY <1>0
<1> HIDE DEF u
<1>4. Follows(P, u)
  <2> SUFFICES ASSUME NEW i \in DOMAIN u, u[i].kind # "node"
               PROVE  Joined(u[i], Before(P, u, i))
    BY DEF Follows
  <2>1. CASE i \in DOMAIN s
    <3>1. Joined(s[i], Before(P, s, i)) /\ u[i] = s[i]
      BY <1>1, <2>1 DEF Sound, Follows
    <3>2. Before(P, s, i) \subseteq Before(P, u, i)
      <4>1. \A k \in 1..(i - 1) : u[k] = s[k]
        BY <1>1, <1>3, <2>1
      <4> QED
        BY <4>1 DEF Before
    <3> QED
      BY <3>1, <3>2 DEF Joined
  <2>2. ASSUME NEW j \in DOMAIN t, i = Len(s) + j
        PROVE  Joined(u[i], Before(P, u, i))
    <3>1. Joined(t[j], Before(P \cup Nodes(s), t, j)) /\ u[i] = t[j]
      BY <1>1, <2>2 DEF Sound, Follows
    <3>2. Nodes(s) \subseteq Before(P, u, i)
      <4>1. \A k \in DOMAIN s : k \in 1..(i - 1) /\ u[k] = s[k]
        BY <1>1, <1>3, <2>2
      <4> QED
        BY <4>1 DEF Before, Nodes
    <3>3. ASSUME NEW k \in 1..(j - 1), t[k].kind = "node"
          PROVE  t[k].to \in Before(P, u, i)
      <4>1. k \in DOMAIN t /\ Len(s) + k \in 1..(i - 1)
        BY <1>1, <1>3, <2>2
      <4>2. u[Len(s) + k] = t[k]
        BY <1>1, <4>1
      <4> QED
        BY <3>3, <4>1, <4>2 DEF Before
    <3>4. Before(P \cup Nodes(s), t, j) \subseteq Before(P, u, i)
      BY <3>2, <3>3 DEF Before
    <3> QED
      BY <3>1, <3>4 DEF Joined
  <2> QED
    BY <1>1, <2>1, <2>2
<1>5. Once(u)
  <2>1. Nodes(s) \cap Nodes(t) = {}
    BY DEF Sound
  <2>2. /\ \A i \in DOMAIN s : s[i].to \in Nodes(s)
        /\ \A j \in DOMAIN t : t[j].to \in Nodes(t)
    BY DEF Sound, Subjects
  <2>3. \A i \in DOMAIN s : \A j \in DOMAIN t : s[i] # t[j]
    BY <2>1, <2>2
  <2>4. Once(s) /\ Once(t)
    BY DEF Sound
  <2> QED
    BY <1>0, <2>3, <2>4, OnceConcat DEF u
<1> QED
  BY <1>1, <1>2, <1>4, <1>5 DEF Sound, u

-----------------------------------------------------------------------------
(* The records of one element. *)

\* Records about n, of some kinds, whose parent is p.
Tagged(n, p, K, s) ==
  /\ s \in Seq(RecordType) /\ Once(s)
  /\ \A i \in DOMAIN s :
       s[i].to = n /\ s[i].kind \in K /\ (s[i].kind = "contains" => s[i].from = p)

LEMMA TaggedConcat ==
  ASSUME NEW n, NEW p, NEW K, NEW L, NEW s, NEW t,
         Tagged(n, p, K, s), Tagged(n, p, L, t), K \cap L = {}
  PROVE  Tagged(n, p, K \cup L, s \o t)
<1>1. s \in Seq(RecordType) /\ t \in Seq(RecordType) /\ Once(s) /\ Once(t)
  BY DEF Tagged
<1>2. \A i \in DOMAIN s : \A j \in DOMAIN t : s[i] # t[j]
  BY DEF Tagged
<1>3. Once(s \o t)
  BY <1>1, <1>2, OnceConcat
<1>4. /\ s \o t \in Seq(RecordType)
      /\ \A i \in DOMAIN s : (s \o t)[i] = s[i]
      /\ \A i \in DOMAIN t : (s \o t)[Len(s) + i] = t[i]
      /\ \A i \in DOMAIN (s \o t) :
           i \in DOMAIN s \/ \E j \in DOMAIN t : i = Len(s) + j
  BY <1>1, ConcatAt
<1> DEFINE u == s \o t
<1> HIDE DEF u
<1>5. ASSUME NEW i \in DOMAIN u
      PROVE  u[i].to = n /\ u[i].kind \in K \cup L /\ (u[i].kind = "contains" => u[i].from = p)
  <2>1. CASE i \in DOMAIN s
    BY <1>4, <2>1 DEF Tagged, u
  <2>2. ASSUME NEW j \in DOMAIN t, i = Len(s) + j
        PROVE  u[i].to = n /\ u[i].kind \in K \cup L
               /\ (u[i].kind = "contains" => u[i].from = p)
    BY <1>4, <2>2 DEF Tagged, u
  <2> QED
    BY <1>4, <2>1, <2>2 DEF u
<1> QED
  BY <1>3, <1>4, <1>5 DEF Tagged, u

\* What is known of a node is said after it, and of no other.
LEMMA NewNode ==
  ASSUME NEW P, NEW n \in Entry \cup {Host, Root}, n \notin P, NEW p \in P \cup {Nil},
         NEW K, "node" \notin K,
         "contains" \in K => p \in P /\ p = Home(n),
         NEW t, Tagged(n, p, K, t)
  PROVE  Sound(P, <<NodeRecord(n)>> \o t) /\ Nodes(<<NodeRecord(n)>> \o t) = {n}
<1> DEFINE r == NodeRecord(n)
           u == <<r>> \o t
<1>1. r \in RecordType /\ r.kind = "node" /\ r.to = n
  BY DEF RecordType, NodeRecord, Record
<1>2. t \in Seq(RecordType) /\ Once(t)
  BY DEF Tagged
<1>3. <<r>> \in Seq(RecordType) /\ Len(<<r>>) = 1 /\ DOMAIN <<r>> = {1} /\ <<r>>[1] = r
  BY <1>1
<1>4. Once(<<r>>)
  BY <1>3 DEF Once
<1> HIDE DEF r
<1>5. \A j \in DOMAIN t : r # t[j]
  BY <1>1 DEF Tagged
<1>6. Once(u)
  BY <1>2, <1>3, <1>4, <1>5, OnceConcat
<1>7. /\ u \in Seq(RecordType) /\ Len(u) = Len(<<r>>) + Len(t)
      /\ \A i \in DOMAIN <<r>> : i \in DOMAIN u /\ u[i] = <<r>>[i]
      /\ \A i \in DOMAIN t : Len(<<r>>) + i \in DOMAIN u /\ u[Len(<<r>>) + i] = t[i]
      /\ \A i \in DOMAIN u : i \in DOMAIN <<r>> \/ \E j \in DOMAIN t : i = Len(<<r>>) + j
  BY <1>2, <1>3, ConcatAt
<1> HIDE DEF u
<1>8. 1 \in DOMAIN u /\ u[1].kind = "node" /\ u[1].to = n
  BY <1>1, <1>3, <1>7
<1>9. ASSUME NEW i \in DOMAIN u, i # 1
      PROVE  /\ u[i].to = n /\ u[i].kind \in K /\ 1 \in 1..(i - 1)
             /\ u[i].kind = "contains" => u[i].from = p
  <2>1. PICK j \in DOMAIN t : i = 1 + j
    BY <1>3, <1>7, <1>9
  <2>2. u[i] = t[j] /\ j \in Nat /\ j >= 1
    BY <1>2, <1>3, <1>7, <2>1
  <2> QED
    BY <2>1, <2>2 DEF Tagged
<1>10. Nodes(u) = {n} /\ Subjects(u) = {n}
  BY <1>8, <1>9 DEF Nodes, Subjects
<1>11. Follows(P, u)
  <2> SUFFICES ASSUME NEW i \in DOMAIN u, u[i].kind # "node"
               PROVE  Joined(u[i], Before(P, u, i))
    BY DEF Follows
  <2>1. n \in Before(P, u, i)
    BY <1>8, <1>9 DEF Before
  <2> QED
    BY <1>8, <1>9, <2>1 DEF Joined, Before
<1> QED
  BY <1>6, <1>7, <1>10, <1>11 DEF Sound, u, r

\* What the records of one kind about an element begin at.
From(s, kind, e) == {s[i].from : i \in {j \in DOMAIN s : s[j].kind = kind /\ s[j].to = e}}

LEMMA FromConcat ==
  ASSUME NEW s \in Seq(RecordType), NEW t \in Seq(RecordType), NEW kind, NEW e
  PROVE  From(s \o t, kind, e) = From(s, kind, e) \cup From(t, kind, e)
<1> DEFINE u == s \o t
<1>1. /\ \A i \in DOMAIN s : i \in DOMAIN u /\ u[i] = s[i]
      /\ \A i \in DOMAIN t : Len(s) + i \in DOMAIN u /\ u[Len(s) + i] = t[i]
      /\ \A i \in DOMAIN u : i \in DOMAIN s \/ \E j \in DOMAIN t : i = Len(s) + j
  BY ConcatAt
<1> HIDE DEF u
<1>2. ASSUME NEW x \in From(u, kind, e) PROVE x \in From(s, kind, e) \cup From(t, kind, e)
  BY <1>1 DEF From
<1>3. ASSUME NEW x \in From(s, kind, e) PROVE x \in From(u, kind, e)
  BY <1>1 DEF From
<1>4. ASSUME NEW x \in From(t, kind, e) PROVE x \in From(u, kind, e)
  BY <1>1 DEF From
<1> QED
  BY <1>2, <1>3, <1>4 DEF u

LEMMA RightEdgesTagged ==
  ASSUME NEW rs \in Seq(Right), NEW n \in Entry \cup {Host, Root}, NEW p
  PROVE  /\ Tagged(n, p, {"right"}, RightEdges(rs, n))
         /\ From(RightEdges(rs, n), "right", n) = ToSet(rs)
<1> DEFINE s == RightEdges(rs, n)
<1>1. DOMAIN s = DOMAIN rs /\ \A i \in DOMAIN rs : s[i] = Record("right", rs[i], n)
  BY DEF RightEdges
<1>2. \A i \in DOMAIN rs : s[i].kind = "right" /\ s[i].from = rs[i] /\ s[i].to = n
  BY <1>1 DEF Record
<1>3. s \in Seq(RecordType)
  <2>1. \A i \in 1..Len(rs) : Record("right", rs[i], n) \in RecordType
    BY DEF RecordType, Record
  <2> QED
    BY <2>1 DEF RightEdges
<1> HIDE DEF s
<1>4. Once(s)
  BY <1>1, <1>2 DEF Once
<1>5. From(s, "right", n) = ToSet(rs)
  BY <1>1, <1>2 DEF From, ToSet
<1>6. Tagged(n, p, {"right"}, s)
  BY <1>1, <1>2, <1>3, <1>4 DEF Tagged
<1> QED
  BY <1>5, <1>6 DEF s

LEMMA EffectiveRightsFinite ==
  ASSUME NEW share, NEW ntfs \in Seq(Right)
  PROVE  /\ IsFiniteSet(ComputeEffectiveRights(share, ntfs))
         /\ ComputeEffectiveRights(share, ntfs) \subseteq Right
<1> DEFINE P == {r[1] : r \in ToSet(ntfs)}
           f == [r \in ToSet(ntfs) |-> r[1]]
<1>1. IsFiniteSet(ToSet(ntfs)) /\ ToSet(ntfs) \subseteq Right
  BY ToSetFinite
<1>2. f \in Surjection(ToSet(ntfs), P)
  BY DEF Surjection
<1>3. IsFiniteSet(P) /\ P \subseteq Principal
  <2>1. P \subseteq Principal
    BY <1>1 DEF Right
  <2> HIDE DEF f, P
  <2> QED
    BY <1>1, <1>2, <2>1, FS_Surjection
<1>4. ComputeEffectiveRights(share, ntfs) \subseteq P \X DOMAIN Needed
  BY DEF ComputeEffectiveRights
<1> HIDE DEF P
<1>5. IsFiniteSet(P \X DOMAIN Needed)
  BY <1>3, MappingsAreFinite, FS_Product
<1>6. P \X DOMAIN Needed \subseteq Right
  BY <1>3 DEF Right
<1> QED
  BY <1>4, <1>5, <1>6, FS_Subset

LEMMA EffectiveEdgesTagged ==
  ASSUME NEW rs \in Seq(Right), NEW n \in Entry \cup {Host, Root}, NEW p
  PROVE  /\ Tagged(n, p, {"effective"}, EffectiveEdges(rs, n))
         /\ From(EffectiveEdges(rs, n), "effective", n) =
              ComputeEffectiveRights(shareRights, rs)
<1> DEFINE C == ComputeEffectiveRights(shareRights, rs)
           R == {Record("effective", r, n) : r \in C}
           f == [r \in C |-> Record("effective", r, n)]
           s == SetToSeq(R)
<1>1. IsFiniteSet(C) /\ C \subseteq Right
  BY EffectiveRightsFinite
<1> HIDE DEF C
<1>2. f \in Surjection(C, R)
  BY DEF Surjection
<1>3. IsFiniteSet(R)
  <2> HIDE DEF f, R
  <2> QED
    BY <1>1, <1>2, FS_Surjection
<1>4. R \subseteq RecordType
  BY <1>1 DEF RecordType, Record
<1>5. \A r \in R : r.kind = "effective" /\ r.to = n /\ r.from \in C
  BY DEF Record
<1>6. ASSUME NEW c \in C PROVE \E r \in R : r.from = c
  <2>1. Record("effective", c, n) \in R /\ Record("effective", c, n).from = c
    BY DEF Record
  <2> QED
    BY <2>1
<1> HIDE DEF R
<1>7. /\ s \in Seq(R) /\ ToSet(s) = R
      /\ \A i, j \in DOMAIN s : s[i] = s[j] => i = j
  BY <1>3, SetAsSequence
<1> HIDE DEF s
<1>8. s \in Seq(RecordType) /\ \A i \in DOMAIN s : s[i] \in R
  BY <1>4, <1>7
<1>9. Once(s)
  BY <1>7 DEF Once
<1>10. From(s, "effective", n) = C
  <2>1. ASSUME NEW i \in DOMAIN s PROVE s[i].from \in C
    BY <1>5, <1>8
  <2>2. ASSUME NEW c \in C PROVE c \in From(s, "effective", n)
    <3>1. PICK r \in R : r.from = c
      BY <1>6
    <3>2. PICK i \in DOMAIN s : s[i] = r
      BY <1>7 DEF ToSet
    <3> QED
      BY <1>5, <3>1, <3>2 DEF From
  <2> QED
    BY <2>1, <2>2 DEF From
<1>11. Tagged(n, p, {"effective"}, s)
  BY <1>5, <1>8, <1>9 DEF Tagged
<1>12. s = EffectiveEdges(rs, n)
  BY DEF s, R, C, EffectiveEdges
<1> QED
  BY <1>10, <1>11, <1>12 DEF C

LEMMA OneTagged ==
  ASSUME NEW r \in RecordType, NEW p, r.kind = "contains" => r.from = p
  PROVE  Tagged(r.to, p, {r.kind}, <<r>>)
<1>1. <<r>> \in Seq(RecordType) /\ DOMAIN <<r>> = {1} /\ <<r>>[1] = r
  OBVIOUS
<1>2. Once(<<r>>)
  BY <1>1 DEF Once
<1> QED
  BY <1>1, <1>2 DEF Tagged

LEMMA FromOther ==
  ASSUME NEW n, NEW p, NEW K, NEW s, Tagged(n, p, K, s), NEW kind, kind \notin K, NEW e
  PROVE  From(s, kind, e) = {}
BY DEF Tagged, From

\* An element whose parent is known brings its node, its rights and its edges.
LEMMA ItemRecordsSound ==
  ASSUME NEW P, NEW n \in Entry \ P, Parent[n] \in P, NEW rs \in Seq(Right), NEW s,
         s = ItemRecords(Parent[n], n, rs)
  PROVE  /\ Sound(P, s) /\ Nodes(s) = {n}
         /\ effectiveAccessOnly \/ From(s, "right", n) = ToSet(rs)
         /\ From(s, "effective", n) = ComputeEffectiveRights(shareRights, rs)
<1> DEFINE p == Parent[n]
           N == <<NodeRecord(n)>>
           A == IF effectiveAccessOnly THEN <<>> ELSE RightEdges(rs, n)
           E == EffectiveEdges(rs, n)
           C == <<Record("contains", p, n)>>
           K == ({"right"} \cup {"effective"}) \cup {"contains"}
           t == (A \o E) \o C
           C0 == ComputeEffectiveRights(shareRights, rs)
<1>1. n \in Entry /\ n # Root /\ p \in Entry \cup {Root}
  BY TraversalAssumption
<1>2. s = ItemRecords(p, n, rs) /\ p \in P /\ p = Parent[n]
  OBVIOUS
<1> HIDE DEF p
<1>3. Tagged(n, p, {"right"}, A) /\ (effectiveAccessOnly \/ From(A, "right", n) = ToSet(rs))
  <2>1. CASE effectiveAccessOnly
    BY <2>1 DEF Tagged, Once
  <2>2. CASE ~ effectiveAccessOnly
    BY <1>1, <2>2, RightEdgesTagged
  <2> QED
    BY <2>1, <2>2
<1>4. Tagged(n, p, {"effective"}, E) /\ From(E, "effective", n) = C0
  BY <1>1, EffectiveEdgesTagged
<1>5. Tagged(n, p, {"contains"}, C)
  <2> DEFINE r == Record("contains", p, n)
  <2>1. r \in RecordType /\ r.to = n /\ r.kind = "contains" /\ r.from = p
    BY <1>1 DEF Record, RecordType
  <2> HIDE DEF r
  <2>2. Tagged(r.to, p, {r.kind}, <<r>>)
    BY <2>1, OneTagged
  <2> QED
    BY <2>1, <2>2 DEF r
<1> HIDE DEF A, E, C, C0
<1>6. Tagged(n, p, {"right"} \cup {"effective"}, A \o E)
  BY <1>3, <1>4, TaggedConcat
<1>7. Tagged(n, p, K, t)
  <2> DEFINE ae == A \o E
  <2> HIDE DEF ae
  <2>1. Tagged(n, p, {"right"} \cup {"effective"}, ae)
    BY <1>6 DEF ae
  <2>2. Tagged(n, p, K, ae \o C)
    BY <1>5, <2>1, TaggedConcat
  <2> QED
    BY <2>2 DEF ae
<1>8. /\ A \in Seq(RecordType) /\ E \in Seq(RecordType) /\ C \in Seq(RecordType)
      /\ A \o E \in Seq(RecordType) /\ t \in Seq(RecordType)
  BY <1>3, <1>4, <1>5, <1>6, <1>7 DEF Tagged
<1>9. N \in Seq(RecordType)
  BY <1>1 DEF NodeRecord, Record, RecordType
<1>10. ItemRecords(p, n, rs) = N \o t
  <2>1. ItemRecords(p, n, rs) = ((N \o A) \o E) \o C
    BY DEF ItemRecords, A, E, C
  <2>2. (N \o A) \o E = N \o (A \o E)
    BY <1>8, <1>9, ConcatAssociative
  <2>4. \A ae \in Seq(RecordType) : (N \o ae) \o C = N \o (ae \o C)
    BY ONLY <1>8, <1>9, ConcatAssociative
  <2>3. (N \o (A \o E)) \o C = N \o t
    BY <1>8, <2>4
  <2> QED
    BY <2>1, <2>2, <2>3
<1>11. Sound(P, N \o t) /\ Nodes(N \o t) = {n}
  <2>1. /\ n \in Entry \cup {Host, Root} /\ n \notin P /\ p \in P \cup {Nil} /\ "node" \notin K
        /\ "contains" \in K => p \in P /\ p = Home(n)
    BY <1>1, <1>2 DEF Home
  <2> HIDE DEF K, t
  <2> QED
    BY <1>7, <2>1, NewNode
<1>12. From(N, "right", n) = {} /\ From(N, "effective", n) = {}
  BY DEF From, NodeRecord, Record
<1>13. ASSUME NEW kind
       PROVE  From(N \o t, kind, n) =
                From(N, kind, n) \cup From(A, kind, n) \cup From(E, kind, n) \cup From(C, kind, n)
  <2>1. From(N \o t, kind, n) = From(N, kind, n) \cup From(t, kind, n)
    <3> HIDE DEF N, t
    <3> QED
      BY <1>8, <1>9, FromConcat
  <2>2. From(t, kind, n) = From(A \o E, kind, n) \cup From(C, kind, n)
    <3> DEFINE ae == A \o E
    <3> HIDE DEF ae
    <3>1. ae \in Seq(RecordType) /\ C \in Seq(RecordType)
      BY <1>8 DEF ae
    <3>2. From(ae \o C, kind, n) = From(ae, kind, n) \cup From(C, kind, n)
      BY <3>1, FromConcat
    <3> QED
      BY <3>2 DEF ae
  <2>3. From(A \o E, kind, n) = From(A, kind, n) \cup From(E, kind, n)
    BY <1>8, FromConcat
  <2> QED
    BY <2>1, <2>2, <2>3
<1>14. From(C, "right", n) = {} /\ From(C, "effective", n) = {}
  <2> DEFINE L == {"contains"}
  <2>1. "right" \notin L /\ "effective" \notin L /\ Tagged(n, p, L, C)
    BY <1>5
  <2> HIDE DEF L
  <2> QED
    BY <2>1, FromOther
<1>15. From(E, "right", n) = {} /\ From(A, "effective", n) = {}
  <2> DEFINE L == {"effective"}
             M == {"right"}
  <2>1. "right" \notin L /\ "effective" \notin M /\ Tagged(n, p, L, E) /\ Tagged(n, p, M, A)
    BY <1>3, <1>4
  <2> HIDE DEF L, M
  <2> QED
    BY <2>1, FromOther
<1> HIDE DEF N, t
<1>16. From(N \o t, "right", n) = From(A, "right", n) /\ From(N \o t, "effective", n) = C0
  BY <1>4, <1>12, <1>13, <1>14, <1>15
<1> QED
  BY <1>3, <1>10, <1>11, <1>16, <1>2 DEF C0

LEMMA HostShareRecordsSound ==
  ASSUME shareList \in Lists \cup {Unreadable}
  PROVE  Sound({}, HostShareRecords) /\ Nodes(HostShareRecords) = {Host, Root}
<1> DEFINE H == <<NodeRecord(Host)>>
           O == <<Record("hosts", Nil, Host)>>
           R == <<NodeRecord(Root)>>
           A == RightEdges(shareRights, Root)
           C == <<Record("contains", Host, Root)>>
<1>1. Tagged(Host, Nil, {"hosts"}, O)
  <2> DEFINE r == Record("hosts", Nil, Host)
  <2>1. r \in RecordType /\ r.to = Host /\ r.kind = "hosts"
    BY DEF Record, RecordType
  <2> HIDE DEF r
  <2>2. Tagged(r.to, Nil, {r.kind}, <<r>>)
    BY <2>1, OneTagged
  <2> QED
    BY <2>1, <2>2 DEF r
<1>2. Tagged(Root, Host, {"contains"}, C)
  <2> DEFINE r == Record("contains", Host, Root)
  <2>1. r \in RecordType /\ r.to = Root /\ r.kind = "contains" /\ r.from = Host
    BY DEF Record, RecordType
  <2> HIDE DEF r
  <2>2. Tagged(r.to, Host, {r.kind}, <<r>>)
    BY <2>1, OneTagged
  <2> QED
    BY <2>1, <2>2 DEF r
<1>3. Tagged(Root, Host, {"right"}, A)
  BY CollectedRights, RightEdgesTagged DEF shareRights
<1>4. H \in Seq(RecordType) /\ R \in Seq(RecordType)
  BY DEF NodeRecord, Record, RecordType
<1>5. HostShareRecords = ((H \o O \o R) \o A) \o C
  BY DEF HostShareRecords
<1> HIDE DEF O, A, C
<1>6. Tagged(Root, Host, {"right"} \cup {"contains"}, A \o C)
  BY <1>2, <1>3, TaggedConcat
<1>7. Sound({}, H \o O) /\ Nodes(H \o O) = {Host}
  <2> DEFINE K == {"hosts"}
             P == {}
  <2>1. /\ Host \in Entry \cup {Host, Root} /\ Host \notin P /\ Nil \in P \cup {Nil}
        /\ "node" \notin K
        /\ "contains" \in K => Nil \in P /\ Nil = Home(Host)
    OBVIOUS
  <2>2. Tagged(Host, Nil, K, O)
    BY <1>1
  <2> HIDE DEF K, P
  <2>3. Sound(P, <<NodeRecord(Host)>> \o O) /\ Nodes(<<NodeRecord(Host)>> \o O) = {Host}
    BY <2>1, <2>2, NewNode
  <2> QED
    BY <2>3 DEF P
<1>8. Sound({Host}, R \o (A \o C)) /\ Nodes(R \o (A \o C)) = {Root}
  <2> DEFINE n == Root
             p == Host
             P == {Host}
             K == {"right"} \cup {"contains"}
             t == A \o C
  <2>1. /\ n \in Entry \cup {Host, Root} /\ n \notin P /\ p \in P \cup {Nil}
        /\ "node" \notin K
        /\ "contains" \in K => p \in P /\ p = Home(n)
    BY TraversalAssumption DEF Home
  <2>2. Tagged(n, p, K, t)
    BY <1>6
  <2> HIDE DEF n, p, P, K, t
  <2>3. Sound(P, <<NodeRecord(n)>> \o t) /\ Nodes(<<NodeRecord(n)>> \o t) = {n}
    BY <2>1, <2>2, NewNode
  <2> QED
    BY <2>3 DEF n, P, t
<1>9. O \in Seq(RecordType) /\ A \in Seq(RecordType) /\ C \in Seq(RecordType)
      /\ A \o C \in Seq(RecordType) /\ H \o O \in Seq(RecordType)
      /\ R \o (A \o C) \in Seq(RecordType)
  BY <1>1, <1>2, <1>3, <1>6, <1>7, <1>8 DEF Tagged, Sound
<1> HIDE DEF H, R
<1>10. ((H \o O \o R) \o A) \o C = (H \o O) \o (R \o (A \o C))
  <2> DEFINE ho == H \o O
             ac == A \o C
  <2>1. ho \in Seq(RecordType) /\ ac \in Seq(RecordType)
    BY <1>9
  <2> HIDE DEF ho
  <2>2. (ho \o R) \in Seq(RecordType)
    BY <1>4, <2>1
  <2>3. ((ho \o R) \o A) \o C = (ho \o R) \o ac
    <3> DEFINE hor == ho \o R
    <3>1. hor \in Seq(RecordType)
      BY <2>2
    <3> HIDE DEF hor
    <3>2. A \in Seq(RecordType) /\ C \in Seq(RecordType)
      BY ONLY <1>9
    <3> HIDE DEF A, C, ac
    <3>3. (hor \o A) \o C = hor \o (A \o C)
      BY ONLY <3>1, <3>2, ConcatAssociative
    <3> QED
      BY ONLY <3>3, Zenon DEF hor, ac
  <2> HIDE DEF ac
  <2>4. (ho \o R) \o ac = ho \o (R \o ac)
    BY <1>4, <2>1, ConcatAssociative
  <2> QED
    BY <2>3, <2>4 DEF ho, ac
<1> DEFINE s == H \o O
           t == R \o (A \o C)
<1>11. Sound({}, s) /\ Sound({} \cup Nodes(s), t)
  BY <1>7, <1>8
<1>12. Nodes(s) = {Host} /\ Nodes(t) = {Root}
  BY <1>7, <1>8
<1> HIDE DEF s, t
<1>13. Sound({}, s \o t) /\ Nodes(s \o t) = {Host, Root}
  BY <1>11, <1>12, SoundConcat
<1> QED
  BY <1>5, <1>10, <1>13 DEF s, t

-----------------------------------------------------------------------------
(* The tree. *)

Upward(e, S) ==
  /\ e # Root => Parent[e] \in S
  /\ \A d \in S \ {Root} : Parent[d] \in S

LEMMA AncestorsDef ==
  ASSUME NEW e \in Entry \cup {Root}
  PROVE  Ancestors[e] = {a \in Dir \cup {Root} :
                           \A S \in SUBSET (Dir \cup {Root}) : Upward(e, S) => a \in S}
BY DEF Ancestors, Upward

LEMMA AncestorsClosed ==
  ASSUME NEW e \in Entry \cup {Root}, NEW d \in Ancestors[e] \ {Root}
  PROVE  d \in Dir /\ Parent[d] \in Ancestors[e] /\ Ancestors[d] \subseteq Ancestors[e]
<1>1. d \in Dir /\ d \in Entry
  BY AncestorsDef, TraversalAssumption
<1>2. Parent[d] \in Dir \cup {Root}
  BY <1>1, TraversalAssumption
<1>3. ASSUME NEW S \in SUBSET (Dir \cup {Root}), Upward(e, S) PROVE Upward(d, S) /\ Parent[d] \in S
  BY <1>3, AncestorsDef DEF Upward
<1>4. Parent[d] \in Ancestors[e]
  BY <1>2, <1>3, AncestorsDef
<1>5. Ancestors[d] \subseteq Ancestors[e]
  BY <1>1, <1>3, AncestorsDef
<1> QED
  BY <1>1, <1>4, <1>5

LEMMA AncestorsStep ==
  /\ Ancestors[Root] = {}
  /\ \A e \in Entry : Ancestors[e] = {Parent[e]} \cup Ancestors[Parent[e]]
<1>1. Ancestors[Root] = {}
  <2>1. {} \in SUBSET (Dir \cup {Root}) /\ Upward(Root, {}) /\ Root \in Entry \cup {Root}
    BY DEF Upward
  <2> QED
    BY <2>1, AncestorsDef
<1>2. ASSUME NEW e \in Entry
      PROVE  Ancestors[e] = {Parent[e]} \cup Ancestors[Parent[e]]
  <2> DEFINE T == {Parent[e]} \cup Ancestors[Parent[e]]
  <2>1. Parent[e] \in Dir \cup {Root} /\ Parent[e] \in Entry \cup {Root} /\ e # Root
    BY TraversalAssumption
  <2>2. Parent[e] \in Ancestors[e]
    BY <2>1, AncestorsDef DEF Upward
  <2>3. T \subseteq Ancestors[e]
    BY <1>1, <2>1, <2>2, AncestorsClosed
  <2>4. T \subseteq Dir \cup {Root}
    BY <2>1, AncestorsDef
  <2>5. ASSUME NEW d \in T \ {Root} PROVE Parent[d] \in T
    <3>1. CASE d = Parent[e]
      <4>1. d \in Entry /\ Parent[d] \in Dir \cup {Root}
        BY <2>1, <2>5, <3>1, TraversalAssumption
      <4>2. Parent[d] \in Ancestors[d]
        BY <4>1, <2>5, AncestorsDef DEF Upward
      <4> QED
        BY <3>1, <4>2
    <3>2. CASE d \in Ancestors[Parent[e]]
      BY <2>1, <2>5, <3>2, AncestorsClosed
    <3> QED
      BY <3>1, <3>2
  <2>6. Upward(e, T)
    BY <2>1, <2>5 DEF Upward
  <2>7. Ancestors[e] \subseteq T
    BY <2>4, <2>6, AncestorsDef
  <2> QED
    BY <2>3, <2>7
<1> QED
  BY <1>1, <1>2

\* Every entry is below the root, as the tree has no cycle.
LEMMA RootAbove ==
  ASSUME NEW e \in Entry
  PROVE  Root \in Ancestors[e]
<1> SUFFICES ASSUME Root \notin Ancestors[e] PROVE FALSE
  OBVIOUS
<1> DEFINE Sizes == {Cardinality(Ancestors[a]) : a \in Ancestors[e]}
<1>1. \A a \in Entry : IsFiniteSet(Ancestors[a]) /\ Cardinality(Ancestors[a]) \in Nat
  <2> SUFFICES ASSUME NEW a \in Entry
               PROVE  IsFiniteSet(Ancestors[a]) /\ Cardinality(Ancestors[a]) \in Nat
    OBVIOUS
  <2>1. Ancestors[a] \in SUBSET (Entry \cup {Root})
    BY AncestorsDef, TraversalAssumption
  <2>2. IsFiniteSet(Entry \cup {Root})
    BY TraversalAssumption, FS_AddElement
  <2>3. IsFiniteSet(Ancestors[a])
    BY <2>1, <2>2, FS_Subset
  <2> QED
    BY <2>3, FS_CardinalityType
<1>2. ASSUME NEW a \in Ancestors[e]
      PROVE  /\ a \in Entry /\ Parent[a] \in Ancestors[e] /\ Parent[a] \in Entry
             /\ Cardinality(Ancestors[Parent[a]]) < Cardinality(Ancestors[a])
  <2>1. a \in Entry /\ Parent[a] \in Ancestors[e] /\ Parent[a] \in Entry
    BY AncestorsClosed, TraversalAssumption
  <2>2. Ancestors[a] = {Parent[a]} \cup Ancestors[Parent[a]] /\ Parent[a] \notin Ancestors[Parent[a]]
    BY <2>1, AncestorsStep, TraversalAssumption
  <2>3. Cardinality(Ancestors[a]) = Cardinality(Ancestors[Parent[a]]) + 1
    <3>1. IsFiniteSet(Ancestors[Parent[a]])
      BY <1>1, <2>1
    <3>2. Ancestors[a] = Ancestors[Parent[a]] \cup {Parent[a]}
      BY <2>2
    <3> QED
      BY <2>2, <3>1, <3>2, FS_AddElement
  <2> QED
    BY <1>1, <2>1, <2>3
<1>3. Parent[e] \in Ancestors[e]
  BY AncestorsStep
<1>4. Sizes \in SUBSET Nat /\ Sizes # {}
  BY <1>1, <1>2, <1>3
<1>5. PICK m \in Sizes : \A k \in Sizes : m <= k
  BY <1>4, LeastNatural
<1>6. PICK a \in Ancestors[e] : m = Cardinality(Ancestors[a])
  BY <1>5
<1>7. Cardinality(Ancestors[Parent[a]]) \in Sizes
  BY <1>2
<1> QED
  BY <1>1, <1>2, <1>5, <1>6, <1>7

\* Below a directory, an entry is its child or below one of its children.
LEMMA ChildAbove ==
  ASSUME NEW e \in Entry, NEW d \in Ancestors[e]
  PROVE  \E x \in {e} \cup Ancestors[e] : x \in Children(d)
<1> SUFFICES ASSUME \A x \in {e} \cup Ancestors[e] : x \notin Children(d) PROVE FALSE
  OBVIOUS
<1> DEFINE S == Ancestors[e] \ {d}
<1>1. S \in SUBSET (Dir \cup {Root})
  BY AncestorsDef
<1>2. Parent[e] \in S
  BY AncestorsStep DEF Children
<1>3. ASSUME NEW x \in S \ {Root} PROVE Parent[x] \in S
  <2>1. Parent[x] \in Ancestors[e] /\ x \in Entry
    BY AncestorsClosed, TraversalAssumption
  <2> QED
    BY <2>1 DEF Children
<1>4. Upward(e, S)
  BY <1>2, <1>3 DEF Upward
<1>5. d \in S
  BY <1>1, <1>4, AncestorsDef
<1> QED
  BY <1>5

\* Each directory of the path is in the one above it.
PathOK ==
  \A i \in DOMAIN path :
    Parent[path[i].node] = Above(i) /\ path[i].rights = Ntfs[path[i].node]

LEMMA AboveType ==
  ASSUME path \in Seq(PathEntry)
  PROVE  /\ Above(1) = Root
         /\ \A i \in 1..(Len(path) + 1) : Above(i) \in Dir \cup {Root}
         /\ \A i \in 1..(Len(path) + 1) : Above(i) \in Entry \cup {Root}
         /\ \A i \in 1..Len(path) :
              /\ i + 1 \in 1..(Len(path) + 1) /\ Above(i + 1) = path[i].node
              /\ path[i].node \in Dir /\ path[i].node \in Entry
<1>1. ASSUME NEW i \in 1..Len(path)
      PROVE  /\ i + 1 \in 1..(Len(path) + 1) /\ i + 1 # 1 /\ (i + 1) - 1 = i
             /\ path[i].node \in Dir
  <2>1. path[i] \in PathEntry
    OBVIOUS
  <2>2. path[i].node \in Dir
    BY <2>1 DEF PathEntry
  <2> QED
    BY <2>2
<1>2. \A i \in 1..(Len(path) + 1) : i # 1 => i - 1 \in 1..Len(path)
  OBVIOUS
<1> QED
  BY <1>1, <1>2, TraversalAssumption DEF Above

\* The directories above one of the path are the root and those before it.
LEMMA Lineage ==
  ASSUME path \in Seq(PathEntry), PathOK
  PROVE  \A i \in 1..(Len(path) + 1) : Ancestors[Above(i)] = {Above(j) : j \in 1..(i - 1)}
<1> DEFINE n == Len(path) + 1
           P == {i \in 1..n : Ancestors[Above(i)] = {Above(j) : j \in 1..(i - 1)}}
<1>1. n \in Nat /\ 1 \in Nat /\ 1 \in 1..n
  OBVIOUS
<1>2. 1 \in P
  BY <1>1, AboveType, AncestorsStep
<1>3. ASSUME NEW i \in 1..n, i \in P, i < n PROVE i + 1 \in P
  <2>1. i \in 1..Len(path) /\ (i + 1) - 1 = i
    BY <1>3
  <2>2. /\ Above(i + 1) = path[i].node /\ path[i].node \in Entry
        /\ Parent[path[i].node] = Above(i) /\ i + 1 \in 1..n
    BY <2>1, AboveType DEF PathOK
  <2>3. Ancestors[Above(i + 1)] = {Above(i)} \cup {Above(j) : j \in 1..(i - 1)}
    BY <1>3, <2>2, AncestorsStep
  <2>4. 1..i = 1..(i - 1) \cup {i}
    BY <1>3
  <2>5. Ancestors[Above(i + 1)] = {Above(j) : j \in 1..((i + 1) - 1)}
    BY <2>1, <2>3, <2>4
  <2> QED
    BY <2>2, <2>5
<1>4. 1..n \subseteq P
  <2> HIDE DEF n, P
  <2> QED
    BY <1>1, <1>2, <1>3, UpTo
<1> QED
  BY <1>4

LEMMA AboveOnce ==
  ASSUME path \in Seq(PathEntry), PathOK,
         NEW i \in 1..(Len(path) + 1), NEW j \in 1..(Len(path) + 1), Above(i) = Above(j)
  PROVE  i = j
<1>1. ASSUME NEW k \in 1..(Len(path) + 1), NEW l \in 1..(Len(path) + 1), k < l
      PROVE  Above(k) # Above(l)
  <2>1. l - 1 \in 1..Len(path) /\ l = (l - 1) + 1 /\ k \in 1..(l - 1)
    BY <1>1
  <2>2. Above(l) = path[l - 1].node /\ path[l - 1].node \in Entry
    <3> DEFINE m == l - 1
    <3> HIDE DEF m
    <3>1. m \in 1..Len(path) /\ l = m + 1
      BY <2>1 DEF m
    <3> QED
      BY <3>1, AboveType DEF m
  <2>3. Above(k) \in Ancestors[Above(l)]
    BY <2>1, Lineage
  <2>4. Above(l) \notin Ancestors[Above(l)]
    BY <2>2, TraversalAssumption
  <2> QED
    BY <2>3, <2>4
<1> QED
  BY <1>1

\* The directories on the path are as many as it is long.
LEMMA PathSize ==
  ASSUME path \in Seq(PathEntry), PathOK
  PROVE  /\ Ancestors[Here] \cup {Here} = {Above(j) : j \in 1..(Len(path) + 1)}
         /\ (Ancestors[Here] \cup {Here}) \cap Dir = PathNodes
         /\ Cardinality(PathNodes) = Len(path)
<1> DEFINE n == Len(path)
<1>1. n \in Nat /\ n + 1 \in 1..(n + 1) /\ 1 \in 1..(n + 1)
  BY DEF PathEntry
<1>2. Ancestors[Here] \cup {Here} = {Above(j) : j \in 1..(n + 1)}
  <2>1. Ancestors[Here] = {Above(j) : j \in 1..((n + 1) - 1)} /\ Here = Above(n + 1)
    BY <1>1, Lineage DEF Here
  <2>2. 1..(n + 1) = 1..((n + 1) - 1) \cup {n + 1}
    BY <1>1
  <2> QED
    BY <2>1, <2>2
<1>3. {Above(j) : j \in 1..(n + 1)} \cap Dir = PathNodes
  <2>1. ASSUME NEW j \in 1..(n + 1), Above(j) \in Dir PROVE Above(j) \in PathNodes
    <3>1. j # 1
      BY <2>1, AboveType, TraversalAssumption
    <3>2. j - 1 \in 1..n
      BY <3>1
    <3> QED
      BY <3>1, <3>2 DEF Above, PathNodes
  <2>2. ASSUME NEW i \in 1..n
        PROVE  path[i].node \in Dir /\ \E j \in 1..(n + 1) : path[i].node = Above(j)
    BY AboveType
  <2> QED
    BY <2>1, <2>2 DEF PathNodes
<1>4. Cardinality(PathNodes) = n
  <2> DEFINE f == [i \in 1..n |-> path[i].node]
  <2>1. \A i, j \in 1..n : f[i] = f[j] => i = j
    <3> SUFFICES ASSUME NEW i \in 1..n, NEW j \in 1..n, path[i].node = path[j].node PROVE i = j
      OBVIOUS
    <3>1. Above(i + 1) = Above(j + 1) /\ i + 1 \in 1..(n + 1) /\ j + 1 \in 1..(n + 1)
      BY AboveType
    <3>2. i + 1 = j + 1
      BY <3>1, AboveOnce
    <3> QED
      BY <3>2
  <2>2. f \in [1..n -> PathNodes] /\ \A x \in PathNodes : \E i \in 1..n : f[i] = x
    BY DEF PathNodes
  <2>3. f \in Bijection(1..n, PathNodes)
    BY <2>1, <2>2 DEF Bijection, Injection, Surjection, IsInjective
  <2>4. ExistsBijection(1..n, PathNodes)
    BY <2>3 DEF ExistsBijection
  <2> QED
    BY <1>1, <2>4, FS_CountingElements
<1> QED
  BY <1>2, <1>3, <1>4

-----------------------------------------------------------------------------
(* What AddPathToGraph adds. *)

\* The rights that a sequence of records gives its elements are the ones due.
Bears(s) ==
  \A e \in Nodes(s) \cap Entry :
    /\ effectiveAccessOnly \/ From(s, "right", e) = NearestRights[e]
    /\ From(s, "effective", e) = BothGrant[shareList][e]

Good(P, s) == Sound(P, s) /\ Bears(s)

Due(e, rs) ==
  /\ rs \in Seq(Right) /\ ToSet(rs) = NearestRights[e]
  /\ ComputeEffectiveRights(shareRights, rs) = BothGrant[shareList][e]

LEMMA GoodConcat ==
  ASSUME NEW P, NEW s, NEW t, Good(P, s), Good(P \cup Nodes(s), t)
  PROVE  Good(P, s \o t) /\ Nodes(s \o t) = Nodes(s) \cup Nodes(t)
<1>1. Sound(P, s) /\ Sound(P \cup Nodes(s), t) /\ Bears(s) /\ Bears(t)
  BY DEF Good
<1>2. Sound(P, s \o t) /\ Nodes(s \o t) = Nodes(s) \cup Nodes(t)
  BY <1>1, SoundConcat
<1>3. s \in Seq(RecordType) /\ t \in Seq(RecordType) /\ Nodes(s) \cap Nodes(t) = {}
      /\ Subjects(s) = Nodes(s) /\ Subjects(t) = Nodes(t)
  BY <1>1 DEF Sound
<1> DEFINE u == s \o t
<1> HIDE DEF u
<1>4. \A kind, e : From(u, kind, e) = From(s, kind, e) \cup From(t, kind, e)
  BY <1>3, FromConcat DEF u
<1>5. ASSUME NEW e \in Nodes(u) \cap Entry
      PROVE  /\ effectiveAccessOnly \/ From(u, "right", e) = NearestRights[e]
             /\ From(u, "effective", e) = BothGrant[shareList][e]
  <2>1. CASE e \in Nodes(s)
    <3>1. \A kind : From(t, kind, e) = {}
      BY <1>3, <2>1 DEF From, Subjects
    <3>2. \A kind : From(u, kind, e) = From(s, kind, e)
      BY <1>4, <3>1
    <3> QED
      BY <1>1, <2>1, <3>2 DEF Bears
  <2>2. CASE e \in Nodes(t)
    <3>1. \A kind : From(s, kind, e) = {}
      BY <1>3, <2>2 DEF From, Subjects
    <3>2. \A kind : From(u, kind, e) = From(t, kind, e)
      BY <1>4, <3>1
    <3> QED
      BY <1>1, <2>2, <3>2 DEF Bears
  <2> QED
    BY <1>2, <2>1, <2>2 DEF u
<1> QED
  BY <1>2, <1>5 DEF Good, Bears, u

LEMMA NothingGood ==
  ASSUME NEW P
  PROVE  Good(P, <<>>) /\ Nodes(<<>>) = {}
<1>1. Nodes(<<>>) = {} /\ Subjects(<<>>) = {} /\ <<>> \in Seq(RecordType)
  BY DEF Nodes, Subjects
<1>2. Follows(P, <<>>) /\ Once(<<>>)
  BY DEF Follows, Once
<1>3. Bears(<<>>)
  BY <1>1 DEF Bears
<1> QED
  BY <1>1, <1>2, <1>3 DEF Good, Sound

LEMMA ItemRecordsGood ==
  ASSUME NEW P, NEW n \in Entry \ P, Parent[n] \in P, NEW rs, Due(n, rs)
  PROVE  Good(P, ItemRecords(Parent[n], n, rs)) /\ Nodes(ItemRecords(Parent[n], n, rs)) = {n}
<1> DEFINE s == ItemRecords(Parent[n], n, rs)
<1>1. rs \in Seq(Right) /\ s = ItemRecords(Parent[n], n, rs)
  BY DEF Due
<1> HIDE DEF s
<1>2. /\ Sound(P, s) /\ Nodes(s) = {n}
      /\ effectiveAccessOnly \/ From(s, "right", n) = ToSet(rs)
      /\ From(s, "effective", n) = ComputeEffectiveRights(shareRights, rs)
  <2>1. Sound(P, s)
    BY <1>1, ItemRecordsSound
  <2>2. Nodes(s) = {n}
    BY <1>1, ItemRecordsSound
  <2>3. effectiveAccessOnly \/ From(s, "right", n) = ToSet(rs)
    BY <1>1, ItemRecordsSound
  <2>4. From(s, "effective", n) = ComputeEffectiveRights(shareRights, rs)
    BY <1>1, ItemRecordsSound
  <2> QED
    BY <2>1, <2>2, <2>3, <2>4
<1>3. Bears(s)
  BY <1>2 DEF Bears, Due
<1> QED
  BY <1>2, <1>3 DEF Good, s

LEMMA HostShareRecordsGood ==
  ASSUME shareList \in Lists \cup {Unreadable}
  PROVE  Good({}, HostShareRecords) /\ Nodes(HostShareRecords) = {Host, Root}
<1>1. Sound({}, HostShareRecords) /\ Nodes(HostShareRecords) = {Host, Root}
  BY HostShareRecordsSound
<1>2. Bears(HostShareRecords)
  BY <1>1, TraversalAssumption DEF Bears
<1> QED
  BY <1>1, <1>2 DEF Good

\* The directories of the path that were not emitted are, each after the one above.
LEMMA PathRecordsGood ==
  ASSUME path \in Seq(PathEntry), PathOK,
         \A i \in DOMAIN path : Due(path[i].node, path[i].rights),
         NEW P, Root \in P, P \cap Dir = emittedPathNodes
  PROVE  Good(P, PathRecords) /\ Nodes(PathRecords) = PathNodes \ P
<1> DEFINE Item(i) == ItemRecords(Above(i), path[i].node, path[i].rights)
           ss == [i \in 1..Len(path) |->
                    IF path[i].node \in emittedPathNodes THEN <<>> ELSE Item(i)]
           n == Len(path)
           Up(k) == {path[j].node : j \in 1..k}
<1>1. n \in Nat /\ DOMAIN path = 1..n
  OBVIOUS
<1>2. ASSUME NEW i \in 1..n
      PROVE  /\ path[i].node \in Entry /\ path[i].node \in Dir
             /\ Parent[path[i].node] = Above(i)
             /\ Due(path[i].node, path[i].rights)
             /\ path[i].node # Above(i)
             /\ \A j \in 1..n : path[i].node = path[j].node => i = j
  <2>1. path[i].node \in Entry /\ path[i].node \in Dir /\ Above(i + 1) = path[i].node
    BY AboveType
  <2>2. i \in 1..(n + 1) /\ i + 1 \in 1..(n + 1) /\ i + 1 # i
    BY <1>1
  <2>3. path[i].node # Above(i)
    BY <2>1, <2>2, AboveOnce
  <2>4. ASSUME NEW j \in 1..n, path[i].node = path[j].node PROVE i = j
    <3>1. Above(j + 1) = path[j].node /\ j + 1 \in 1..(n + 1)
      BY AboveType
    <3>2. i + 1 = j + 1
      BY <2>1, <2>2, <2>4, <3>1, AboveOnce
    <3> QED
      BY <3>2
  <2> QED
    BY <1>1, <2>1, <2>3, <2>4 DEF PathOK
<1>3. ASSUME NEW i \in 1..n, NEW Q, Above(i) \in Q, path[i].node \notin Q
      PROVE  Good(Q, Item(i)) /\ Nodes(Item(i)) = {path[i].node}
  <2>1. path[i].node \in Entry \ Q /\ Parent[path[i].node] \in Q
        /\ Due(path[i].node, path[i].rights)
    BY <1>2, <1>3
  <2> QED
    BY <1>2, <2>1, ItemRecordsGood
<1> HIDE DEF Item
<1>4. ASSUME NEW i \in 1..n PROVE Item(i) \in Seq(RecordType)
  BY <1>2, <1>3 DEF Good, Sound
<1>5. ss \in Seq(Seq(RecordType)) /\ Len(ss) = n
      /\ \A i \in 1..n : ss[i] = IF path[i].node \in emittedPathNodes THEN <<>> ELSE Item(i)
  BY <1>1, <1>4
<1>6. PathRecords = FlattenSeq(ss)
  BY DEF PathRecords, Item
<1> HIDE DEF ss
<1>7. PICK f : Joins(f, ss, RecordType) /\ FlattenSeq(ss) = f[Len(ss)]
  BY <1>5, FlattenJoins
<1> DEFINE S == {k \in 0..n : Good(P, f[k]) /\ Nodes(f[k]) = Up(k) \ P}
<1>8. 0 \in S
  <2>1. f[0] = <<>> /\ Up(0) = {} /\ 0 \in 0..n
    BY <1>1, <1>7 DEF Joins
  <2> QED
    BY <2>1, NothingGood
<1>9. ASSUME NEW k \in 0..n, k \in S, k < n PROVE k + 1 \in S
  <2> DEFINE m == k + 1
             Q == P \cup Nodes(f[k])
  <2>1. /\ m \in 1..n /\ f[k] \in Seq(RecordType) /\ ss[m] \in Seq(RecordType)
        /\ f[m] = f[k] \o ss[m]
    <3>1. k \in 0..Len(ss) /\ k < Len(ss) /\ Joins(f, ss, RecordType)
          /\ ss \in Seq(Seq(RecordType)) /\ Len(ss) = n
      BY <1>5, <1>7, <1>9
    <3> HIDE DEF S, n
    <3>2. /\ k + 1 \in 1..Len(ss) /\ f[k] \in Seq(RecordType)
          /\ ss[k + 1] \in Seq(RecordType) /\ f[k + 1] = f[k] \o ss[k + 1]
      BY ONLY <3>1, JoinsStep
    <3> QED
      BY <3>1, <3>2
  <2>2. Up(m) = Up(k) \cup {path[m].node}
    <3>1. 1..m = 1..k \cup {m}
      BY <1>9
    <3> QED
      BY <3>1
  <2>3. Good(P, f[k]) /\ Nodes(f[k]) = Up(k) \ P
    BY <1>9
  <2>4. m \in 0..n
    BY <2>1
  <2>5. Above(m) \in Q
    <3>1. CASE k = 0
      BY <3>1 DEF Above
    <3>2. CASE k # 0
      <4>1. k \in 1..n /\ k \in 1..k
        BY <1>1, <1>9, <3>2
      <4>2. Above(m) = path[k].node
        BY <4>1, AboveType
      <4> QED
        BY <2>3, <4>1, <4>2
    <3> QED
      BY <3>1, <3>2
  <2>6. path[m].node \notin Up(k)
    <3>1. \A j \in 1..k : j \in 1..n /\ j # m
      BY <1>1, <1>9
    <3> QED
      BY <1>2, <2>1, <3>1
  <2> HIDE DEF m, Up
  <2>7. CASE path[m].node \in emittedPathNodes
    <3>1. f[m] = f[k]
      <4>1. f[m] = f[k] \o <<>>
        BY <1>5, <2>1, <2>7
      <4> QED
        BY <2>1, <4>1, ConcatEmptySeq
    <3>2. path[m].node \in P
      BY <2>7
    <3> QED
      BY <2>2, <2>3, <2>4, <3>1, <3>2 DEF m
  <2>8. CASE path[m].node \notin emittedPathNodes
    <3>1. f[m] = f[k] \o Item(m)
      BY <1>5, <2>1, <2>8
    <3>2. path[m].node \notin Q
      BY <1>2, <2>1, <2>3, <2>6, <2>8
    <3>3. Good(Q, Item(m)) /\ Nodes(Item(m)) = {path[m].node}
      BY <1>3, <2>1, <2>5, <3>2
    <3>4. Good(P, f[k] \o Item(m)) /\ Nodes(f[k] \o Item(m)) = Nodes(f[k]) \cup Nodes(Item(m))
      BY <2>3, <3>3, GoodConcat
    <3>5. Nodes(f[m]) = Up(m) \ P
      BY <2>2, <2>3, <3>1, <3>2, <3>3, <3>4
    <3> QED
      BY <2>4, <3>1, <3>4, <3>5 DEF m
  <2> QED
    BY <2>7, <2>8
<1>10. n \in S
  <2> HIDE DEF n, S
  <2> QED
    BY <1>1, <1>8, <1>9, FromZero
<1>11. Up(n) = PathNodes
  BY DEF PathNodes
<1> QED
  BY <1>5, <1>6, <1>7, <1>10, <1>11

-----------------------------------------------------------------------------
(* The rights that are due. *)

\* The bits of a list are those that its edges stand for.
LEMMA BitsAreMapped ==
  /\ \A k \in DOMAIN NTFSRightsMapping : NTFSRightsMapping[k] \in Bit
  /\ \A b \in Bit : \E k \in DOMAIN NTFSRightsMapping : NTFSRightsMapping[k] = b
BY DEF Bit, NTFSRightsMapping

LEMMA GrantsSome ==
  ASSUME NEW l, NEW p, NEW B
  PROVE  Grants(l, p, B) <=> \E b \in B : Grants(l, p, {b})
<1>1. ASSUME Grants(l, p, B) PROVE \E b \in B : Grants(l, p, {b})
  <2>1. PICK i \in DOMAIN l.aces :
          /\ l.aces[i].type = "allowed" /\ l.aces[i].sid = p
          /\ l.aces[i].mask \cap B # {}
          /\ \A j \in 1..i : ~ l.aces[j].cut
    BY <1>1 DEF Grants
  <2>2. PICK b \in B : b \in l.aces[i].mask
    BY <2>1
  <2>3. l.aces[i].mask \cap {b} # {}
    BY <2>2
  <2>4. Grants(l, p, {b})
    BY <2>1, <2>3 DEF Grants
  <2> QED
    BY <2>4
<1>2. ASSUME NEW b \in B, Grants(l, p, {b}) PROVE Grants(l, p, B)
  BY <1>2 DEF Grants
<1> QED
  BY <1>1, <1>2

Granting(x) == \E r \in Right : Grants(Descriptor[x], r[1], Bit)

LEMMA EmptyList ==
  ASSUME NEW X, NEW s \in Seq(X)
  PROVE  s = <<>> <=> ToSet(s) = {}
<1>1. s # <<>> => 1 \in DOMAIN s
  OBVIOUS
<1> QED
  BY <1>1 DEF ToSet

LEMMA NtfsGrants ==
  ASSUME NEW x \in Entry \cup {Root}
  PROVE  Ntfs[x] # <<>> <=> Granting(x)
<1>1. /\ Ntfs[x] \in Seq(Right)
      /\ ToSet(Ntfs[x]) = {r \in Principal \X DOMAIN NTFSRightsMapping :
                            Grants(Descriptor[x], r[1], {NTFSRightsMapping[r[2]]})}
  BY CollectedRights
<1>2. ASSUME NEW r \in ToSet(Ntfs[x]) PROVE Granting(x)
  <2>1. /\ r \in Right /\ NTFSRightsMapping[r[2]] \in Bit
        /\ Grants(Descriptor[x], r[1], {NTFSRightsMapping[r[2]]})
    BY <1>1, BitsAreMapped DEF Right
  <2> QED
    BY <2>1, GrantsSome DEF Granting
<1>3. ASSUME Granting(x) PROVE ToSet(Ntfs[x]) # {}
  <2>1. PICK r \in Right : Grants(Descriptor[x], r[1], Bit)
    BY <1>3 DEF Granting
  <2>2. PICK b \in Bit : Grants(Descriptor[x], r[1], {b})
    BY <2>1, GrantsSome
  <2>3. PICK k \in DOMAIN NTFSRightsMapping : NTFSRightsMapping[k] = b
    BY BitsAreMapped
  <2>4. r[1] \in Principal
    BY DEF Right
  <2> DEFINE q == <<r[1], k>>
  <2>5. q \in Principal \X DOMAIN NTFSRightsMapping /\ q[1] = r[1] /\ q[2] = k
    BY <2>4
  <2> QED
    BY <1>1, <2>2, <2>3, <2>5
<1> QED
  BY <1>1, <1>2, <1>3, EmptyList

\* Whose list may say who has rights on an entry.
Upto(e) == {e} \cup (IF e \in Dir THEN {} ELSE Ancestors[e])

LEMMA UptoType ==
  ASSUME NEW e \in Entry
  PROVE  Upto(e) \subseteq Entry \cup {Root}
BY AncestorsDef, TraversalAssumption DEF Upto

LEMMA NearestOf ==
  ASSUME NEW e \in Entry, NEW x \in Upto(e), Ntfs[x] # <<>>,
         \A y \in Upto(e) : Ntfs[y] # <<>> => y \in {x} \cup Ancestors[x]
  PROVE  NearestRights[e] = ToSet(Ntfs[x])
<1> DEFINE G == {y \in Upto(e) : Granting(y)}
<1>1. \A y \in Upto(e) : y \in Entry \cup {Root} /\ (Ntfs[y] # <<>> <=> Granting(y))
  BY UptoType, NtfsGrants
<1>2. x \in G /\ G \subseteq {x} \cup Ancestors[x]
  BY <1>1
<1>3. ASSUME NEW y \in G, G \subseteq {y} \cup Ancestors[y] PROVE y = x
  <2>1. SUFFICES ASSUME y # x PROVE FALSE
    OBVIOUS
  <2>2. x \in Ancestors[y] /\ y \in Ancestors[x] /\ x \in Entry \cup {Root} /\ y \in Entry \cup {Root}
    BY <1>1, <1>2, <1>3, <2>1
  <2>3. x # Root /\ y # Root
    BY <2>2, AncestorsStep
  <2>4. Ancestors[y] \subseteq Ancestors[x]
    BY <2>2, <2>3, AncestorsClosed
  <2> QED
    BY <2>2, <2>3, <2>4, TraversalAssumption
<1>4. NearestList[e] = IF G = {} THEN Unreadable
                       ELSE Descriptor[CHOOSE y \in G : G \subseteq {y} \cup Ancestors[y]]
  BY DEF NearestList, Upto, Granting
<1> HIDE DEF G
<1>5. (CHOOSE y \in G : G \subseteq {y} \cup Ancestors[y]) = x
  BY <1>2, <1>3
<1>6. NearestList[e] = Descriptor[x]
  BY <1>2, <1>4, <1>5
<1>7. NearestRights[e] = {r \in Right : /\ r[2] \in DOMAIN NTFSRightsMapping
                                        /\ Grants(Descriptor[x], r[1], {NTFSRightsMapping[r[2]]})}
  BY <1>6 DEF NearestRights
<1>8. x \in Entry \cup {Root}
  BY <1>1
<1>9. ToSet(Ntfs[x]) = {r \in Principal \X DOMAIN NTFSRightsMapping :
                         Grants(Descriptor[x], r[1], {NTFSRightsMapping[r[2]]})}
  BY <1>8, CollectedRights
<1>10. \A r : r \in Principal \X DOMAIN NTFSRightsMapping
              <=> r \in Right /\ r[2] \in DOMAIN NTFSRightsMapping
  BY DEF Right
<1> QED
  BY <1>7, <1>9, <1>10

LEMMA NearestNone ==
  ASSUME NEW e \in Entry, \A y \in Upto(e) : Ntfs[y] = <<>>
  PROVE  NearestRights[e] = {}
<1> DEFINE G == {y \in Upto(e) : Granting(y)}
<1>1. G = {}
  BY UptoType, NtfsGrants
<1>2. NearestList[e] = IF G = {} THEN Unreadable
                       ELSE Descriptor[CHOOSE y \in G : G \subseteq {y} \cup Ancestors[y]]
  BY DEF NearestList, Upto, Granting
<1>3. NearestList[e] = Unreadable
  BY <1>1, <1>2
<1>4. \A p, B : ~ Grants(Unreadable, p, B)
  BY DEF Grants, Unreadable
<1> QED
  BY <1>3, <1>4 DEF NearestRights

\* The bits by one of which a right of the file system, or the share, may be used.
BitsFor == [CanEffectiveRead    |-> {"genericAll", "genericRead", "readData"},
            CanEffectiveWrite   |-> {"genericAll", "genericWrite", "writeData"},
            CanEffectiveExecute |-> {"genericAll", "genericExecute", "execute"}]

LEMMA NeededBits ==
  /\ DOMAIN BitsFor = DOMAIN Needed
  /\ \A k \in DOMAIN Needed :
       /\ \A t \in Needed[k].share :
            t \in DOMAIN ShareRightsMapping /\ ShareRightsMapping[t] \in BitsFor[k]
       /\ \A t \in Needed[k].ntfs :
            t \in DOMAIN NTFSRightsMapping /\ NTFSRightsMapping[t] \in BitsFor[k]
       /\ \A b \in BitsFor[k] :
            /\ \E t \in Needed[k].share : ShareRightsMapping[t] = b
            /\ \E t \in Needed[k].ntfs : NTFSRightsMapping[t] = b
BY DEF BitsFor, Needed, ShareRightsMapping, NTFSRightsMapping

LEMMA EffectiveDue ==
  ASSUME shareList \in Lists \cup {Unreadable}, NEW e \in Entry, NEW rs \in Seq(Right),
         ToSet(rs) = NearestRights[e]
  PROVE  Due(e, rs)
<1> DEFINE C == ComputeEffectiveRights(shareRights, rs)
           l == NearestList[e]
           B == {r \in Right : /\ r[2] \in DOMAIN BitsFor
                               /\ Grants(shareList, r[1], BitsFor[r[2]])
                               /\ Grants(l, r[1], BitsFor[r[2]])}
<1>1. BothGrant[shareList][e] = B
  BY DEF BothGrant, BitsFor
<1>2. ToSet(shareRights) = {r \in Principal \X DOMAIN ShareRightsMapping :
                              Grants(shareList, r[1], {ShareRightsMapping[r[2]]})}
  BY CollectedRights DEF shareRights
<1>3. ToSet(rs) = {r \in Right : /\ r[2] \in DOMAIN NTFSRightsMapping
                                 /\ Grants(l, r[1], {NTFSRightsMapping[r[2]]})}
  BY DEF NearestRights
<1>4. \A p, t : <<p, t>> \in ToSet(shareRights) <=>
                  /\ p \in Principal /\ t \in DOMAIN ShareRightsMapping
                  /\ Grants(shareList, p, {ShareRightsMapping[t]})
  BY <1>2
<1>5. \A p, t : <<p, t>> \in ToSet(rs) <=>
                  /\ p \in Principal /\ t \in DOMAIN NTFSRightsMapping
                  /\ Grants(l, p, {NTFSRightsMapping[t]})
  BY <1>3 DEF Right
<1>6. C = {c \in {r[1] : r \in ToSet(rs)} \X DOMAIN Needed :
             /\ \E t \in Needed[c[2]].share : <<c[1], t>> \in ToSet(shareRights)
             /\ \E t \in Needed[c[2]].ntfs  : <<c[1], t>> \in ToSet(rs)}
  BY DEF ComputeEffectiveRights
<1> HIDE DEF l, C
<1>7. ASSUME NEW c \in C PROVE c \in B
  <2>1. PICK t \in Needed[c[2]].share : <<c[1], t>> \in ToSet(shareRights)
    BY <1>6
  <2>2. PICK u \in Needed[c[2]].ntfs : <<c[1], u>> \in ToSet(rs)
    BY <1>6
  <2>3. c = <<c[1], c[2]>> /\ c[2] \in DOMAIN Needed
    BY <1>6
  <2>4. c[1] \in Principal
    BY <1>4, <2>1
  <2>5. c \in Right
    BY <2>3, <2>4 DEF Right
  <2>6. Grants(shareList, c[1], BitsFor[c[2]])
    BY <1>4, <2>1, <2>3, GrantsSome, NeededBits
  <2>7. Grants(l, c[1], BitsFor[c[2]])
    BY <1>5, <2>2, <2>3, GrantsSome, NeededBits
  <2> QED
    BY <2>3, <2>5, <2>6, <2>7, NeededBits
<1>8. ASSUME NEW c \in B PROVE c \in C
  <2>1. c = <<c[1], c[2]>> /\ c[1] \in Principal
    BY DEF Right
  <2>2. c[2] \in DOMAIN Needed
    BY NeededBits
  <2>3. PICK b \in BitsFor[c[2]] : Grants(shareList, c[1], {b})
    BY GrantsSome
  <2>4. PICK a \in BitsFor[c[2]] : Grants(l, c[1], {a})
    BY GrantsSome
  <2>5. PICK t \in Needed[c[2]].share : ShareRightsMapping[t] = b
    BY <2>2, NeededBits
  <2>6. PICK u \in Needed[c[2]].ntfs : NTFSRightsMapping[u] = a
    BY <2>2, NeededBits
  <2>7. <<c[1], t>> \in ToSet(shareRights)
    BY <1>4, <2>1, <2>2, <2>3, <2>5, NeededBits
  <2>8. <<c[1], u>> \in ToSet(rs)
    BY <1>5, <2>1, <2>2, <2>4, <2>6, NeededBits
  <2>9. c[1] \in {r[1] : r \in ToSet(rs)}
    BY <2>8
  <2> QED
    BY <1>6, <2>1, <2>2, <2>7, <2>8, <2>9
<1> QED
  BY <1>1, <1>7, <1>8 DEF Due, C

\* The rights that collectContentsAtDepth hands to AddPathToGraph are those due.
LEMMA DirectoryDue ==
  ASSUME shareList \in Lists \cup {Unreadable}, NEW d \in Dir
  PROVE  Due(d, Ntfs[d])
<1>1. d \in Entry /\ Ntfs[d] \in Seq(Right)
  BY TraversalAssumption, CollectedRights
<1>2. CASE Ntfs[d] = <<>>
  <2>1. NearestRights[d] = {}
    BY <1>1, <1>2, NearestNone DEF Upto
  <2>2. ToSet(Ntfs[d]) = NearestRights[d]
    BY <1>2, <2>1 DEF ToSet
  <2> QED
    BY <1>1, <2>2, EffectiveDue
<1>3. CASE Ntfs[d] # <<>>
  <2>1. Upto(d) = {d}
    BY DEF Upto
  <2>2. NearestRights[d] = ToSet(Ntfs[d])
    BY <1>1, <1>3, <2>1, NearestOf
  <2> QED
    BY <1>1, <2>2, EffectiveDue
<1> QED
  BY <1>2, <1>3

\* The greatest of a bounded set of numbers.
LEMMA GreatestUpTo ==
  ASSUME NEW n \in Nat, NEW S \in SUBSET (1..n), S # {}
  PROVE  \E m \in S : \A k \in S : k <= m
<1> DEFINE T == {n - k : k \in S}
<1>1. T \in SUBSET Nat /\ T # {}
  <2>1. \A k \in S : n - k \in Nat
    OBVIOUS
  <2> QED
    BY <2>1
<1>2. PICK t \in T : \A u \in T : t <= u
  <2> HIDE DEF T
  <2> QED
    BY <1>1, LeastNatural
<1>3. PICK m \in S : t = n - m
  BY <1>2
<1>4. \A k \in S : n - m <= n - k
  BY <1>2, <1>3
<1> QED
  BY <1>3, <1>4

LEMMA FileDue ==
  ASSUME shareList \in Lists \cup {Unreadable}, path \in Seq(PathEntry), PathOK,
         NEW f \in Entry \ Dir, Parent[f] = Here
  PROVE  Due(f, IF Ntfs[f] = <<>> THEN Inherited ELSE Ntfs[f])
<1> DEFINE n == Len(path)
           G == {i \in 1..n : path[i].rights # <<>>}
<1>1. n \in Nat /\ n + 1 \in 1..(n + 1) /\ Here = Above(n + 1)
  BY DEF Here
<1>2. Ancestors[f] = {Above(j) : j \in 1..(n + 1)}
  <2>1. Ancestors[f] = {Here} \cup Ancestors[Here]
    BY AncestorsStep
  <2>2. Ancestors[Above(n + 1)] = {Above(j) : j \in 1..n}
    BY <1>1, Lineage
  <2>3. 1..(n + 1) = 1..n \cup {n + 1}
    BY <1>1
  <2> QED
    BY <1>1, <2>1, <2>2, <2>3
<1>3. ASSUME NEW i \in 1..n
      PROVE  i + 1 \in 1..(n + 1) /\ Above(i + 1) \in Entry /\ path[i].rights = Ntfs[Above(i + 1)]
  <2>1. Above(i + 1) = path[i].node /\ path[i].node \in Entry /\ i + 1 \in 1..(n + 1)
    BY AboveType
  <2> QED
    BY <2>1 DEF PathOK
<1>4. Above(1) = Root /\ 1 \in 1..(n + 1)
  BY <1>1, AboveType
<1>5. Upto(f) = {f} \cup {Above(j) : j \in 1..(n + 1)}
  BY <1>2 DEF Upto
<1>6. \A x \in Entry \cup {Root} : Ntfs[x] \in Seq(Right)
  BY CollectedRights
<1>7. CASE Ntfs[f] # <<>>
  <2>1. NearestRights[f] = ToSet(Ntfs[f])
    BY <1>7, NearestOf DEF Upto
  <2> QED
    BY <1>6, <1>7, <2>1, EffectiveDue
<1>8. CASE Ntfs[f] = <<>> /\ G = {}
  <2>1. Inherited = Ntfs[Root]
    BY <1>8 DEF Inherited
  <2>2. ASSUME NEW y \in Upto(f), Ntfs[y] # <<>> PROVE y = Root
    <3>1. PICK j \in 1..(n + 1) : y = Above(j)
      BY <1>5, <1>8, <2>2
    <3>2. SUFFICES ASSUME j # 1 PROVE FALSE
      BY <1>4, <3>1
    <3>3. j - 1 \in 1..n /\ (j - 1) + 1 = j
      BY <1>1, <3>2
    <3>4. path[j - 1].rights = Ntfs[Above(j)]
      BY <1>3, <3>3
    <3> QED
      BY <1>8, <2>2, <3>1, <3>3, <3>4
  <2>3. NearestRights[f] = ToSet(Ntfs[Root])
    <3>1. CASE Ntfs[Root] = <<>>
      BY <2>2, <3>1, NearestNone DEF ToSet
    <3>2. CASE Ntfs[Root] # <<>>
      BY <1>4, <1>5, <2>2, <3>2, NearestOf
    <3> QED
      BY <3>1, <3>2
  <2> QED
    BY <1>6, <1>8, <2>1, <2>3, EffectiveDue
<1>9. CASE Ntfs[f] = <<>> /\ G # {}
  <2>1. PICK m \in G : \A k \in G : k <= m
    <3>1. G \in SUBSET (1..n)
      OBVIOUS
    <3> HIDE DEF G, n
    <3> QED
      BY <1>1, <1>9, <3>1, GreatestUpTo
  <2>2. Inherited = path[CHOOSE i \in G : \A j \in G : j <= i].rights
    BY <1>9 DEF Inherited
  <2>3. (CHOOSE i \in G : \A j \in G : j <= i) = m
    <3>1. \A i \in G : (\A j \in G : j <= i) => i = m
      BY <2>1
    <3> HIDE DEF G
    <3> QED
      BY <2>1, <3>1
  <2> DEFINE x == Above(m + 1)
  <2>4. /\ Inherited = Ntfs[x] /\ Ntfs[x] # <<>> /\ x \in Entry
        /\ m + 1 \in 1..(n + 1) /\ (m + 1) - 1 = m
    <3>1. m \in 1..n /\ path[m].rights # <<>> /\ Inherited = path[m].rights
      BY <2>1, <2>2, <2>3
    <3>2. m + 1 \in 1..(n + 1) /\ x \in Entry /\ path[m].rights = Ntfs[x]
      BY <1>3, <3>1
    <3>3. (m + 1) - 1 = m
      BY <3>1
    <3> QED
      BY <3>1, <3>2, <3>3
  <2>5. Ancestors[x] = {Above(j) : j \in 1..m}
    BY <2>4, Lineage
  <2>6. ASSUME NEW y \in Upto(f), Ntfs[y] # <<>> PROVE y \in {x} \cup Ancestors[x]
    <3>1. PICK j \in 1..(n + 1) : y = Above(j)
      BY <1>5, <1>9, <2>6
    <3>2. CASE j = 1
      BY <2>1, <2>5, <3>1, <3>2
    <3>3. CASE j # 1
      <4>1. j - 1 \in 1..n /\ (j - 1) + 1 = j
        BY <1>1, <3>3
      <4>2. path[j - 1].rights = Ntfs[Above(j)]
        BY <1>3, <4>1
      <4>3. j - 1 \in G
        BY <2>6, <3>1, <4>1, <4>2
      <4>4. j = m + 1 \/ j \in 1..m
        BY <2>1, <4>1, <4>3
      <4> QED
        BY <2>5, <3>1, <4>4
    <3> QED
      BY <3>2, <3>3
  <2>7. x \in Upto(f)
    BY <1>5, <2>4
  <2> HIDE DEF x
  <2>8. NearestRights[f] = ToSet(Ntfs[x])
    BY <2>4, <2>6, <2>7, NearestOf
  <2>9. Ntfs[x] \in Seq(Right)
    BY <1>6, <2>4
  <2> QED
    BY <1>9, <2>4, <2>8, <2>9, EffectiveDue
<1> QED
  BY <1>7, <1>8, <1>9

-----------------------------------------------------------------------------
(* A call of AddPathToGraph. *)

EmitInv ==
  /\ Good({}, emitted)
  /\ emittedPathNodes = Nodes(emitted) \cap Dir
  /\ IF hostShareEmitted THEN {Host, Root} \subseteq Nodes(emitted) ELSE emitted = <<>>

LEMMA GoodAfter ==
  ASSUME NEW s, NEW t, Good({}, s), Good(Nodes(s), t)
  PROVE  Good({}, s \o t) /\ Nodes(s \o t) = Nodes(s) \cup Nodes(t)
<1> DEFINE P == {}
<1>1. P \cup Nodes(s) = Nodes(s)
  OBVIOUS
<1>2. Good(P, s) /\ Good(P \cup Nodes(s), t)
  BY <1>1
<1> HIDE DEF P
<1>3. Good(P, s \o t)
  BY <1>2, GoodConcat
<1>4. Nodes(s \o t) = Nodes(s) \cup Nodes(t)
  BY <1>2, GoodConcat
<1> QED
  BY <1>3, <1>4 DEF P

LEMMA GoodLater ==
  ASSUME NEW s, Good({}, s), emitted' = s, shareList' = shareList
  PROVE  Good({}, emitted)' /\ Nodes(emitted)' = Nodes(s)
<1>1. Nodes(emitted)' = Nodes(s)
  BY DEF Nodes
<1>2. Sound({}, emitted)'
  BY DEF Good
<1>3. Bears(emitted)'
  BY <1>1 DEF Good, Bears
<1> QED
  BY <1>1, <1>2, <1>3 DEF Good

LEMMA AddElement ==
  ASSUME shareList \in Lists \cup {Unreadable}, path \in Seq(PathEntry), PathOK, EmitInv,
         UNCHANGED shareList, NEW e, NEW rs, AddPathToGraph(e, rs),
         e # Nil => /\ e \in Entry /\ Parent[e] = Here /\ Due(e, rs)
                    /\ e \in Dir \/ e \notin Nodes(emitted)
  PROVE  /\ EmitInv'
         /\ Nodes(emitted)' = Nodes(emitted) \cup {Host, Root} \cup PathNodes \cup ({e} \cap Entry)
<1> DEFINE seen == emittedPathNodes \cup PathNodes
           h == IF hostShareEmitted THEN <<>> ELSE HostShareRecords
           a == emitted \o h
           b == a \o PathRecords
           i == IF e = Nil \/ e \in seen THEN <<>> ELSE ItemRecords(Here, e, rs)
<1>1. /\ emitted' = b \o i
      /\ hostShareEmitted' = TRUE /\ emittedPathNodes' = seen \cup ({e} \cap Dir)
  BY DEF AddPathToGraph
<1>2. Good({}, a) /\ Nodes(a) = Nodes(emitted) \cup {Host, Root}
  <2>1. CASE hostShareEmitted
    <3>1. emitted \in Seq(RecordType)
      BY DEF EmitInv, Good, Sound
    <3>2. a = emitted
      BY <2>1, <3>1, ConcatEmptySeq
    <3> QED
      BY <2>1, <3>2 DEF EmitInv
  <2>2. CASE ~ hostShareEmitted
    <3>1. emitted = <<>> /\ HostShareRecords \in Seq(RecordType)
          /\ Good({}, HostShareRecords) /\ Nodes(HostShareRecords) = {Host, Root}
      BY <2>2, HostShareRecordsGood DEF EmitInv, Good, Sound
    <3>2. a = HostShareRecords
      BY <2>2, <3>1, ConcatEmptySeq
    <3> QED
      BY <3>1, <3>2, NothingGood
  <2> QED
    BY <2>1, <2>2
<1>3. PathNodes \subseteq Dir /\ Dir \subseteq Entry /\ Entry \cap {Host, Root, Nil} = {}
  BY AboveType, TraversalAssumption DEF PathNodes
<1> HIDE DEF a
<1>4. Good(Nodes(a), PathRecords) /\ Nodes(PathRecords) = PathNodes \ Nodes(a)
  <2>1. Root \in Nodes(a) /\ Nodes(a) \cap Dir = emittedPathNodes
    BY <1>2, <1>3 DEF EmitInv
  <2>2. \A j \in DOMAIN path : Due(path[j].node, path[j].rights)
    BY AboveType, DirectoryDue DEF PathOK
  <2> QED
    BY <2>1, <2>2, PathRecordsGood
<1>5. Good({}, b) /\ Nodes(b) = Nodes(a) \cup PathNodes
  <2>1. Good({}, b) /\ Nodes(b) = Nodes(a) \cup Nodes(PathRecords)
    BY <1>2, <1>4, GoodAfter
  <2> QED
    BY <1>4, <2>1
<1> HIDE DEF b
<1>6. Nodes(b) \cap Dir = seen
  BY <1>2, <1>3, <1>5 DEF EmitInv
<1>7. Good({}, b \o i) /\ Nodes(b \o i) = Nodes(b) \cup ({e} \cap Entry)
  <2>1. CASE e = Nil \/ e \in seen
    <3>1. b \in Seq(RecordType)
      BY <1>5 DEF Good, Sound
    <3>2. b \o i = b
      BY <2>1, <3>1, ConcatEmptySeq
    <3>3. {e} \cap Entry \subseteq Nodes(b)
      BY <1>3, <1>6, <2>1
    <3> QED
      BY <1>5, <3>2, <3>3
  <2>2. CASE ~ (e = Nil \/ e \in seen)
    <3>1. /\ e \in Entry /\ Parent[e] = Here /\ Due(e, rs)
          /\ e \in Dir \/ e \notin Nodes(emitted)
      BY <2>2
    <3>2. e \notin Nodes(b)
      BY <1>2, <1>3, <1>5, <1>6, <2>2, <3>1
    <3>3. Here \in Nodes(b)
      <4>1. CASE Len(path) = 0
        BY <1>2, <1>5, <4>1 DEF Here, Above
      <4>2. CASE Len(path) # 0
        <5>1. Len(path) \in 1..Len(path)
          BY <4>2
        <5>2. Here = path[Len(path)].node
          BY <5>1, AboveType DEF Here
        <5> QED
          BY <1>5, <5>1, <5>2 DEF PathNodes
      <4> QED
        BY <4>1, <4>2
    <3>4. i = ItemRecords(Parent[e], e, rs)
      BY <2>2, <3>1
    <3> DEFINE P == Nodes(b)
    <3>5. e \in Entry \ P /\ Parent[e] \in P /\ Due(e, rs) /\ i = ItemRecords(Parent[e], e, rs)
      BY <3>1, <3>2, <3>3, <3>4
    <3> HIDE DEF P, i
    <3>6. Good(P, i)
      BY <3>5, ItemRecordsGood
    <3>7. Nodes(i) = {e}
      BY <3>5, ItemRecordsGood
    <3>8. Good({}, b \o i) /\ Nodes(b \o i) = Nodes(b) \cup Nodes(i)
      BY <1>5, <3>6, GoodAfter DEF P
    <3> QED
      BY <3>1, <3>7, <3>8
  <2> QED
    BY <2>1, <2>2
<1> HIDE DEF i
<1>8. Good({}, emitted)' /\ Nodes(emitted)' = Nodes(b \o i)
  BY <1>1, <1>7, GoodLater
<1>9. Nodes(emitted)' = Nodes(emitted) \cup {Host, Root} \cup PathNodes \cup ({e} \cap Entry)
  BY <1>2, <1>5, <1>7, <1>8
<1>10. emittedPathNodes' = Nodes(emitted)' \cap Dir
  BY <1>1, <1>3, <1>6, <1>7, <1>8
<1> QED
  BY <1>1, <1>8, <1>9, <1>10 DEF EmitInv

-----------------------------------------------------------------------------
(* The invariant: where the exploration is, and what is still before it. *)

NodesIn(dirs) == {dirs[i].node : i \in DOMAIN dirs}
Listing(fr)   == fr.todo \cup NodesIn(fr.dirs)

\* A frame of the directory d has distinct children of d to visit and to enter.
FrameOK(fr, d) ==
  /\ Listing(fr) \subseteq Children(d) /\ NodesIn(fr.dirs) \cap fr.todo = {}
  /\ \A i \in DOMAIN fr.dirs : fr.dirs[i].rights = Ntfs[fr.dirs[i].node]
  /\ \A i, j \in DOMAIN fr.dirs : fr.dirs[i].node = fr.dirs[j].node => i = j

\* The directory that was entered from a frame is not entered from it again; only
\* the innermost frame has entries to visit.
StackOK ==
  \A k \in DOMAIN stack :
    /\ FrameOK(stack[k], Above(k))
    /\ k \in DOMAIN path => path[k].node \notin Listing(stack[k])
    /\ stack[k].todo # {} => pc = "entries" /\ k = Len(stack)
    /\ pc = "enter" /\ k = Len(stack) => Listing(stack[k]) = {}

ShapeOK ==
  /\ pc = "start" => stack = <<>> /\ path = <<>> /\ emitted = <<>>
  /\ pc # "start" => Len(stack) = Len(path) + 1
  /\ pc \in {"finish", "done"} => path = <<>>

ContextOK ==
  /\ context \in [Field -> UNION {Entry, Nat, {Root, Nil}}]
  /\ context["SHARE"] \in {Root, Nil} /\ context["FILE"] \in Entry \cup {Nil}
  /\ context["DIR"] \in Entry \cup {Nil} /\ context["DEPTH"] \in Nat

\* What is below a directory that is still to be entered, or listed, has not been
\* emitted, save for directories, which AddPathToGraph remembers.
Apart(f, X)  == f \notin X /\ Ancestors[f] \cap X = {}
EmittedFiles == Nodes(emitted) \cap (Entry \ Dir)

FreshOK ==
  \A f \in EmittedFiles :
    /\ \A k \in DOMAIN stack : Apart(f, Listing(stack[k]))
    /\ pc = "enter" => Apart(f, {Here})

Inv == TypeOK /\ ContextOK /\ ShapeOK /\ PathOK /\ StackOK /\ EmitInv /\ FreshOK

LEMMA NewFrameOK ==
  ASSUME NEW d
  PROVE  NewFrame \in Frame /\ FrameOK(NewFrame, d) /\ Listing(NewFrame) = {}
<1>1. NoCounts \in [CountField -> Nat]
  BY DEF NoCounts
<1>2. NewFrame \in Frame
  BY <1>1 DEF NewFrame, Frame
<1>3. NewFrame.todo = {} /\ NewFrame.dirs = <<>>
  BY DEF NewFrame
<1> QED
  BY <1>2, <1>3 DEF FrameOK, Listing, NodesIn

\* A child that has been visited is no longer to be visited.
LEMMA FrameLess ==
  ASSUME NEW fr, NEW d, FrameOK(fr, d), NEW g, g.dirs = fr.dirs, g.todo \subseteq fr.todo
  PROVE  FrameOK(g, d) /\ Listing(g) = g.todo \cup NodesIn(fr.dirs)
BY DEF FrameOK, Listing

LEMMA NodesInType ==
  ASSUME NEW dirs \in Seq(PathEntry)
  PROVE  NodesIn(dirs) \subseteq Dir
<1>1. \A i \in DOMAIN dirs : dirs[i] \in PathEntry
  OBVIOUS
<1> QED
  BY <1>1 DEF NodesIn, PathEntry

LEMMA DirectoryEntry ==
  ASSUME NEW d \in Dir
  PROVE  [node |-> d, rights |-> Ntfs[d]] \in PathEntry
<1>1. d \in DOMAIN Descriptor
  BY TraversalAssumption
<1>2. Ntfs[d] \in Range(Ntfs)
  BY <1>1 DEF Ntfs, Range
<1> QED
  BY <1>2 DEF PathEntry

\* A directory that has been visited is among those to enter.
LEMMA FrameMore ==
  ASSUME NEW fr \in Frame, NEW d, FrameOK(fr, d), NEW e \in fr.todo \cap Dir, NEW g,
         g.dirs = Append(fr.dirs, [node |-> e, rights |-> Ntfs[e]]), g.todo = fr.todo \ {e}
  PROVE  /\ FrameOK(g, d) /\ Listing(g) = Listing(fr)
         /\ NodesIn(g.dirs) = NodesIn(fr.dirs) \cup {e}
<1> DEFINE r == [node |-> e, rights |-> Ntfs[e]]
           n == Len(fr.dirs)
<1>1. fr.dirs \in Seq(PathEntry) /\ r \in PathEntry
  BY DirectoryEntry DEF Frame
<1>2. r.node = e /\ r.rights = Ntfs[e]
  OBVIOUS
<1> HIDE DEF r
<1>3. g.dirs = Append(fr.dirs, r)
  BY DEF r
<1>4. /\ DOMAIN g.dirs = DOMAIN fr.dirs \cup {n + 1} /\ n + 1 \notin DOMAIN fr.dirs
      /\ g.dirs[n + 1] = r /\ \A i \in DOMAIN fr.dirs : g.dirs[i] = fr.dirs[i]
  BY <1>1, <1>3
<1> HIDE DEF n
<1>5. NodesIn(g.dirs) = NodesIn(fr.dirs) \cup {e}
  <2>1. ASSUME NEW x \in NodesIn(g.dirs) PROVE x \in NodesIn(fr.dirs) \cup {e}
    BY <1>2, <1>4 DEF NodesIn
  <2>2. ASSUME NEW x \in NodesIn(fr.dirs) \cup {e} PROVE x \in NodesIn(g.dirs)
    BY <1>2, <1>4 DEF NodesIn
  <2> QED
    BY <2>1, <2>2
<1>6. e \notin NodesIn(fr.dirs) /\ e \in fr.todo
  BY DEF FrameOK
<1>7. Listing(g) = Listing(fr) /\ NodesIn(g.dirs) \cap g.todo = {}
  BY <1>5, <1>6 DEF Listing, FrameOK
<1>8. \A i \in DOMAIN g.dirs : g.dirs[i].rights = Ntfs[g.dirs[i].node]
  BY <1>2, <1>4 DEF FrameOK
<1>9. ASSUME NEW i \in DOMAIN g.dirs, NEW j \in DOMAIN g.dirs, g.dirs[i].node = g.dirs[j].node
      PROVE  i = j
  BY <1>2, <1>4, <1>6, <1>9 DEF FrameOK, NodesIn
<1> QED
  BY <1>5, <1>7, <1>8, <1>9 DEF FrameOK

\* The first of them is entered.
LEMMA FrameTail ==
  ASSUME NEW fr \in Frame, NEW d, FrameOK(fr, d), fr.dirs # <<>>, NEW g,
         g.dirs = Tail(fr.dirs), g.todo = fr.todo
  PROVE  /\ FrameOK(g, d) /\ Listing(g) \subseteq Listing(fr)
         /\ Head(fr.dirs) \in PathEntry /\ Head(fr.dirs).node \in Listing(fr)
         /\ Head(fr.dirs).rights = Ntfs[Head(fr.dirs).node]
         /\ Head(fr.dirs).node \notin Listing(g)
         /\ NodesIn(fr.dirs) = NodesIn(g.dirs) \cup {Head(fr.dirs).node}
<1>1. fr.dirs \in Seq(PathEntry)
  BY DEF Frame
<1>2. /\ Head(fr.dirs) = fr.dirs[1] /\ 1 \in DOMAIN fr.dirs /\ fr.dirs[1] \in PathEntry
      /\ \A i \in DOMAIN g.dirs :
           i + 1 \in DOMAIN fr.dirs /\ i + 1 # 1 /\ g.dirs[i] = fr.dirs[i + 1] /\ i \in Nat
  BY <1>1
<1>3. ASSUME NEW x \in NodesIn(g.dirs) PROVE x \in NodesIn(fr.dirs) /\ x # fr.dirs[1].node
  BY <1>2 DEF NodesIn, FrameOK
<1>4. fr.dirs[1].node \in NodesIn(fr.dirs)
  BY <1>2 DEF NodesIn
<1>5. Listing(g) \subseteq Listing(fr) /\ fr.dirs[1].node \in Listing(fr)
  BY <1>3, <1>4 DEF Listing
<1>6. fr.dirs[1].node \notin Listing(g)
  BY <1>3, <1>4 DEF Listing, FrameOK
<1>7. NodesIn(g.dirs) \cap g.todo = {}
  BY <1>3 DEF FrameOK
<1>8. \A i \in DOMAIN g.dirs : g.dirs[i].rights = Ntfs[g.dirs[i].node]
  BY <1>2 DEF FrameOK
<1>9. ASSUME NEW i \in DOMAIN g.dirs, NEW j \in DOMAIN g.dirs, g.dirs[i].node = g.dirs[j].node
      PROVE  i = j
  <2>1. i + 1 = j + 1
    BY <1>2, <1>9 DEF FrameOK
  <2> QED
    BY <1>2, <2>1
<1>10. FrameOK(g, d)
  BY <1>5, <1>7, <1>8, <1>9 DEF FrameOK
<1>11. NodesIn(fr.dirs) = NodesIn(g.dirs) \cup {fr.dirs[1].node}
  <2>1. \A i \in DOMAIN fr.dirs : i # 1 => i - 1 \in DOMAIN g.dirs /\ fr.dirs[i] = g.dirs[i - 1]
    BY <1>1
  <2>2. ASSUME NEW x \in NodesIn(fr.dirs) PROVE x \in NodesIn(g.dirs) \cup {fr.dirs[1].node}
    BY <2>1 DEF NodesIn
  <2> QED
    BY <1>3, <1>4, <2>2
<1> QED
  BY <1>2, <1>5, <1>6, <1>10, <1>11 DEF FrameOK

\* What is on the path is not before it.
LEMMA PathNotBefore ==
  ASSUME path \in Seq(PathEntry), PathOK, StackOK, Len(stack) = Len(path) + 1,
         stack \in Seq(Frame), NEW k \in DOMAIN stack, NEW j \in 1..(Len(path) + 1)
  PROVE  Above(j) \notin Listing(stack[k])
<1>1. SUFFICES ASSUME Above(j) \in Listing(stack[k]) PROVE FALSE
  OBVIOUS
<1>2. Above(j) \in Entry /\ Parent[Above(j)] = Above(k) /\ k \in 1..(Len(path) + 1)
  BY <1>1 DEF StackOK, FrameOK, Children
<1>3. j # 1
  BY <1>2, AboveType, TraversalAssumption
<1> DEFINE i == j - 1
<1>4. i \in 1..Len(path) /\ j = i + 1 /\ i \in 1..(Len(path) + 1)
  BY <1>3
<1> HIDE DEF i
<1>5. Above(j) = path[i].node
  BY <1>4, AboveType
<1>6. Parent[path[i].node] = Above(i)
  BY <1>4 DEF PathOK
<1>7. i = k
  BY <1>2, <1>4, <1>5, <1>6, AboveOnce
<1> QED
  BY <1>1, <1>4, <1>5, <1>7 DEF StackOK

-----------------------------------------------------------------------------
(* The steps. *)

LEMMA ContextSet ==
  ASSUME ContextOK, NEW f \in Field, NEW v, context' = [context EXCEPT ![f] = v],
         f = "SHARE" => v \in {Root, Nil},
         f \in {"FILE", "DIR"} => v \in Entry \cup {Nil},
         f = "DEPTH" => v \in Nat
  PROVE  ContextOK'
<1>1. v \in UNION {Entry, Nat, {Root, Nil}}
  BY DEF Field
<1>2. context' \in [Field -> UNION {Entry, Nat, {Root, Nil}}]
  BY <1>1 DEF ContextOK
<1>3. \A g \in Field : context'[g] = IF g = f THEN v ELSE context[g]
  BY DEF ContextOK
<1>4. {"SHARE", "FILE", "DIR", "DEPTH"} \subseteq Field
  BY DEF Field
<1>5. context'["SHARE"] \in {Root, Nil} /\ context'["DEPTH"] \in Nat
  BY <1>3, <1>4 DEF ContextOK
<1>6. context'["FILE"] \in Entry \cup {Nil} /\ context'["DIR"] \in Entry \cup {Nil}
  BY <1>3, <1>4 DEF ContextOK
<1> QED
  BY <1>2, <1>5, <1>6 DEF ContextOK

\* The innermost frame changes.
LEMMA TopStep ==
  ASSUME stack \in Seq(Frame), path \in Seq(PathEntry), PathOK, StackOK,
         Len(stack) = Len(path) + 1,
         NEW fr \in Frame, FrameOK(fr, Here), stack' = [stack EXCEPT ![Len(stack)] = fr],
         path' = path, pc' # "enter", fr.todo # {} => pc' = "entries"
  PROVE  /\ stack' \in Seq(Frame) /\ Len(stack') = Len(stack) /\ DOMAIN stack' = DOMAIN stack
         /\ Len(stack) \in DOMAIN stack /\ stack'[Len(stack)] = fr
         /\ \A k \in DOMAIN stack : k # Len(stack) => stack'[k] = stack[k]
         /\ PathOK' /\ StackOK'
<1> DEFINE n == Len(stack)
<1>1. n \in DOMAIN stack /\ n \notin DOMAIN path /\ DOMAIN stack = 1..n
  OBVIOUS
<1>2. /\ stack' \in Seq(Frame) /\ Len(stack') = n /\ DOMAIN stack' = DOMAIN stack
      /\ stack'[n] = fr /\ \A k \in DOMAIN stack : k # n => stack'[k] = stack[k]
  BY <1>1
<1>3. \A i : Above(i)' = Above(i)
  BY DEF Above
<1>4. PathOK'
  BY <1>3 DEF PathOK
<1>5. Above(n) = Here
  BY DEF Here
<1>6. ASSUME NEW k \in DOMAIN stack
      PROVE  /\ FrameOK(stack'[k], Above(k))
             /\ k \in DOMAIN path => path[k].node \notin Listing(stack'[k])
             /\ stack'[k].todo # {} => pc' = "entries" /\ k = n
  BY <1>1, <1>2, <1>5 DEF StackOK
<1>7. StackOK'
  BY <1>2, <1>3, <1>6 DEF StackOK
<1> QED
  BY <1>1, <1>2, <1>4, <1>7

\* Less is before it than was.
LEMMA FreshLess ==
  ASSUME FreshOK, UNCHANGED emitted, DOMAIN stack' = DOMAIN stack, pc' # "enter",
         \A k \in DOMAIN stack : Listing(stack'[k]) \subseteq Listing(stack[k])
  PROVE  FreshOK'
<1>1. EmittedFiles' = EmittedFiles
  BY DEF EmittedFiles, Nodes
<1> QED
  BY <1>1 DEF FreshOK, Apart

\* An entry has been visited.
LEMMA VisitStep ==
  ASSUME shareList \in Lists \cup {Unreadable}, stack \in Seq(Frame), path \in Seq(PathEntry),
         PathOK, StackOK, EmitInv, FreshOK, Len(stack) = Len(path) + 1,
         pc = "entries", NEW e \in Top.todo,
         NEW fr \in Frame, FrameOK(fr, Here), fr.todo = Top.todo \ {e},
         Listing(fr) \subseteq Listing(Top), e \in Dir \/ e \notin Listing(fr),
         stack' = [stack EXCEPT ![Len(stack)] = fr], NEW rs,
         UNCHANGED graphVars \/ (Due(e, rs) /\ AddPathToGraph(e, rs)),
         UNCHANGED <<shareList, pc, path>>
  PROVE  stack' \in Seq(Frame) /\ Len(stack') = Len(stack)
         /\ PathOK' /\ StackOK' /\ EmitInv' /\ FreshOK'
<1> DEFINE n == Len(stack)
<1>1. /\ stack' \in Seq(Frame) /\ Len(stack') = n /\ DOMAIN stack' = DOMAIN stack
      /\ n \in DOMAIN stack /\ stack'[n] = fr
      /\ \A k \in DOMAIN stack : k # n => stack'[k] = stack[k]
      /\ PathOK' /\ StackOK'
  BY TopStep
<1>2. e \in Entry /\ Parent[e] = Here
  BY <1>1 DEF Top, StackOK, FrameOK, Listing, Children, Here
<1>3. \A k \in DOMAIN stack : Listing(stack'[k]) \subseteq Listing(stack[k])
  BY <1>1 DEF Top
<1>4. CASE UNCHANGED graphVars
  <2>1. FreshOK'
    BY <1>1, <1>3, <1>4, FreshLess DEF graphVars
  <2>2. EmitInv'
    BY <1>4 DEF EmitInv, Good, Sound, Bears, graphVars
  <2> QED
    BY <1>1, <2>1, <2>2
<1>5. CASE Due(e, rs) /\ AddPathToGraph(e, rs)
  <2>1. e \in Dir \/ e \notin Nodes(emitted)
    <3>1. SUFFICES ASSUME e \notin Dir, e \in Nodes(emitted) PROVE FALSE
      OBVIOUS
    <3>2. e \in EmittedFiles /\ e \in Listing(stack[n])
      BY <1>2, <3>1 DEF EmittedFiles, Listing, Top
    <3> QED
      BY <1>1, <3>2 DEF FreshOK, Apart
  <2>2. /\ EmitInv'
        /\ Nodes(emitted)' = Nodes(emitted) \cup {Host, Root} \cup PathNodes \cup ({e} \cap Entry)
    BY <1>2, <1>5, <2>1, AddElement
  <2>3. PathNodes \subseteq Dir
    BY AboveType DEF PathNodes
  <2>4. EmittedFiles' \subseteq EmittedFiles \cup ({e} \ Dir)
    BY <2>2, <2>3, TraversalAssumption DEF EmittedFiles
  <2>5. ASSUME NEW f \in EmittedFiles', NEW k \in DOMAIN stack
        PROVE  Apart(f, Listing(stack'[k]))
    <3>1. CASE f \in EmittedFiles
      BY <1>3, <3>1 DEF FreshOK, Apart
    <3>2. CASE f = e /\ e \notin Dir
      <4>1. Ancestors[e] = {Above(j) : j \in 1..n}
        <5>1. n \in 1..(Len(path) + 1) /\ Here = Above(n)
          BY DEF Here
        <5>2. Ancestors[e] = {Here} \cup Ancestors[Here]
          BY <1>2, AncestorsStep
        <5>3. Ancestors[Above(n)] = {Above(j) : j \in 1..(n - 1)}
          BY <5>1, Lineage
        <5>4. 1..n = 1..(n - 1) \cup {n}
          BY <5>1
        <5> QED
          BY <5>1, <5>2, <5>3, <5>4
      <4>2. \A j \in 1..n : Above(j) \notin Listing(stack[k])
        BY PathNotBefore
      <4>3. e \notin Listing(stack'[k])
        <5>1. CASE k = n
          BY <1>1, <3>2, <5>1
        <5>2. CASE k # n
          <6>1. SUFFICES ASSUME e \in Listing(stack[k]) PROVE FALSE
            BY <1>1, <5>2
          <6>2. Parent[e] = Above(k)
            BY <6>1 DEF StackOK, FrameOK, Children
          <6>3. Above(k) = Above(n) /\ k \in 1..(Len(path) + 1) /\ n \in 1..(Len(path) + 1)
            BY <1>1, <1>2, <6>2 DEF Here
          <6> QED
            BY <5>2, <6>3, AboveOnce
        <5> QED
          BY <5>1, <5>2
      <4> QED
        BY <1>3, <3>2, <4>1, <4>2, <4>3 DEF Apart
    <3> QED
      BY <2>4, <3>1, <3>2
  <2>6. FreshOK'
    BY <1>1, <2>5 DEF FreshOK
  <2> QED
    BY <1>1, <2>2, <2>6
<1> QED
  BY <1>4, <1>5

LEMMA InitInv == Init => Inv
<1> SUFFICES ASSUME Init PROVE Inv
  OBVIOUS
<1>1. ContextOK
  BY DEF Init, EmptyContext, ContextOK, Field
<1>2. EmitInv
  BY NothingGood DEF Init, EmitInv
<1>3. shareList \in Lists \cup {Unreadable}
  BY TraversalAssumption DEF Init, Lists
<1>4. TypeOK
  <2>1. stack \in Seq(Frame) /\ path \in Seq(PathEntry) /\ emitted \in Seq(RecordType)
    BY DEF Init
  <2>2. results \in [CountField \cup {"pendingDirs"} -> Int]
    BY DEF Init
  <2>3. /\ rules \in RuleLists /\ pc = "start" /\ hostShareEmitted \in BOOLEAN
        /\ emittedPathNodes \in SUBSET Dir /\ timeoutFlag \in BOOLEAN
        /\ unlisted \in SUBSET (Dir \cup {Root}) /\ outcome \in [Entry -> Outcome]
    BY DEF Init, Outcome
  <2> QED
    BY <1>1, <1>3, <2>1, <2>2, <2>3 DEF TypeOK, ContextOK
<1>5. EmittedFiles = {}
  BY NothingGood DEF Init, EmittedFiles
<1> QED
  BY <1>1, <1>2, <1>4, <1>5 DEF Inv, Init, ShapeOK, PathOK, StackOK, FreshOK

LEMMA StartInv == Inv /\ Start => Inv'
<1> SUFFICES ASSUME Inv, Start PROVE Inv'
  OBVIOUS
<1> USE DEF Inv
<1>1. /\ pc = "start" /\ stack = <<>> /\ path = <<>> /\ emitted = <<>>
      /\ context' = [context EXCEPT !["SHARE"] = Root]
      /\ stack' = <<NewFrame>> /\ path' = <<>> /\ pc' \in {"enter", "finish"}
      /\ rules' = rules /\ shareList' = shareList /\ timeoutFlag' = timeoutFlag
      /\ results' = results /\ unlisted' \in {unlisted, {Root}} /\ outcome' = outcome
      /\ UNCHANGED graphVars \/ AddPathToGraph(Nil, <<>>)
  BY DEF Start, ShapeOK
<1>2. ContextOK'
  BY <1>1, ContextSet DEF Field
<1>3. /\ stack' \in Seq(Frame) /\ DOMAIN stack' = {1} /\ Len(stack') = 1 /\ stack'[1] = NewFrame
      /\ path' \in Seq(PathEntry) /\ Len(path') = 0
  BY <1>1, NewFrameOK
<1>4. EmitInv' /\ Nodes(emitted)' \subseteq {Host, Root}
  <2>1. CASE UNCHANGED graphVars
    <3>1. EmitInv'
      BY <1>1, <2>1 DEF EmitInv, Good, Sound, Bears, graphVars
    <3>2. Nodes(emitted)' = {}
      BY <1>1, <2>1, NothingGood DEF graphVars
    <3> QED
      BY <3>1, <3>2
  <2>2. CASE AddPathToGraph(Nil, <<>>)
    <3>1. /\ EmitInv'
          /\ Nodes(emitted)' = Nodes(emitted) \cup {Host, Root} \cup PathNodes \cup ({Nil} \cap Entry)
      BY <1>1, <2>2, AddElement DEF TypeOK
    <3>2. Nodes(emitted) = {} /\ PathNodes = {} /\ Nil \notin Entry
      BY <1>1, NothingGood, TraversalAssumption DEF PathNodes
    <3> QED
      BY <3>1, <3>2
  <2> QED
    BY <1>1, <2>1, <2>2
<1>5. EmittedFiles' = {}
  BY <1>4, TraversalAssumption DEF EmittedFiles
<1>6. PathOK' /\ ShapeOK' /\ FreshOK'
  BY <1>1, <1>3, <1>5 DEF PathOK, ShapeOK, FreshOK
<1>7. StackOK'
  <2>1. NewFrame.todo = {}
    BY DEF NewFrame
  <2> QED
    BY <1>1, <1>3, <2>1, NewFrameOK DEF StackOK
<1>8. TypeOK'
  <2>1. emitted' \in Seq(RecordType) /\ emittedPathNodes' \in SUBSET Dir
    BY <1>4 DEF EmitInv, Good, Sound
  <2>2. hostShareEmitted' \in BOOLEAN
    BY <1>1 DEF TypeOK, AddPathToGraph, graphVars
  <2>3. /\ rules' \in RuleLists /\ shareList' \in Lists \cup {Unreadable}
        /\ timeoutFlag' \in BOOLEAN /\ unlisted' \in SUBSET (Dir \cup {Root})
        /\ outcome' \in [Entry -> Outcome] /\ results' \in [CountField \cup {"pendingDirs"} -> Int]
    BY <1>1 DEF TypeOK
  <2>4. pc' \in {"enter", "entries", "dirs", "leave"} => Len(path') = Len(stack') - 1
    BY <1>3
  <2> QED
    BY <1>1, <1>2, <1>3, <2>1, <2>2, <2>3, <2>4 DEF TypeOK, ContextOK, Depth
<1> QED
  BY <1>2, <1>4, <1>6, <1>7, <1>8

LEMMA EnterInv == Inv /\ Enter => Inv'
<1> SUFFICES ASSUME Inv, Enter PROVE Inv'
  OBVIOUS
<1> USE DEF Inv
<1> DEFINE n == Len(stack)
<1>1. /\ pc = "enter" /\ n = Len(path) + 1
      /\ UNCHANGED <<rules, shareList, path, graphVars, timeoutFlag, outcome, results>>
      /\ \/ pc' = "leave" /\ UNCHANGED stack
         \/ pc' = "entries" /\ stack' = [stack EXCEPT ![Len(stack)].todo = Children(Here)]
      /\ context' = context \/ context' = [context EXCEPT !["DEPTH"] = Depth]
      /\ unlisted' \in {unlisted, unlisted \cup {Here}}
  BY DEF Enter, ShapeOK
<1>2. stack \in Seq(Frame) /\ path \in Seq(PathEntry) /\ n \in DOMAIN stack
  BY <1>1 DEF TypeOK
<1>3. Here \in Dir \cup {Root} /\ Here \in Entry \cup {Root} /\ Here = Above(n)
  BY <1>1, <1>2, AboveType DEF Here
<1>4. ContextOK'
  <2>1. Depth \in Nat /\ "DEPTH" \in Field
    BY <1>1, <1>2 DEF Depth, Field
  <2>2. CASE context' = context
    BY <2>2 DEF ContextOK
  <2>3. CASE context' = [context EXCEPT !["DEPTH"] = Depth]
    BY <2>1, <2>3, ContextSet
  <2> QED
    BY <1>1, <2>2, <2>3
<1>5. EmitInv' /\ EmittedFiles' = EmittedFiles
  BY <1>1 DEF EmitInv, Good, Sound, Bears, EmittedFiles, Nodes, graphVars
<1>6. \E fr \in Frame : /\ FrameOK(fr, Here) /\ stack' = [stack EXCEPT ![Len(stack)] = fr]
                        /\ fr.todo # {} => pc' = "entries"
                        /\ Listing(fr) \subseteq IF pc' = "entries" THEN Children(Here) ELSE {}
  <2>1. stack[n] \in Frame /\ FrameOK(stack[n], Here) /\ Listing(stack[n]) = {}
    BY <1>1, <1>2, <1>3 DEF StackOK
  <2>2. CASE pc' = "leave" /\ UNCHANGED stack
    <3>1. stack' = [stack EXCEPT ![Len(stack)] = stack[n]]
      BY <1>2, <2>2
    <3>2. stack[n].todo = {}
      BY <2>1 DEF Listing
    <3> QED
      BY <2>1, <2>2, <3>1, <3>2
  <2>3. CASE pc' = "entries" /\ stack' = [stack EXCEPT ![Len(stack)].todo = Children(Here)]
    <3> DEFINE fr == [stack[n] EXCEPT !.todo = Children(Here)]
    <3>1. /\ fr \in Frame /\ fr.todo = Children(Here) /\ fr.dirs = stack[n].dirs
          /\ stack' = [stack EXCEPT ![Len(stack)] = fr]
      BY <1>2, <2>1, <2>3 DEF Frame, Children
    <3> HIDE DEF fr
    <3>2. NodesIn(fr.dirs) = {} /\ Listing(fr) = Children(Here)
      BY <2>1, <3>1 DEF Listing
    <3>3. FrameOK(fr, Here)
      BY <2>1, <3>1, <3>2 DEF FrameOK
    <3> QED
      BY <2>3, <3>1, <3>2, <3>3
  <2> QED
    BY <1>1, <2>2, <2>3
<1>7. PICK fr \in Frame : /\ FrameOK(fr, Here) /\ stack' = [stack EXCEPT ![Len(stack)] = fr]
                          /\ fr.todo # {} => pc' = "entries"
                          /\ Listing(fr) \subseteq IF pc' = "entries" THEN Children(Here) ELSE {}
  BY <1>6
<1>8. /\ stack' \in Seq(Frame) /\ Len(stack') = n /\ DOMAIN stack' = DOMAIN stack
      /\ stack'[n] = fr /\ \A k \in DOMAIN stack : k # n => stack'[k] = stack[k]
      /\ PathOK' /\ StackOK'
  <2>1. pc' # "enter" /\ path' = path /\ Len(stack) = Len(path) + 1
    BY <1>1
  <2> QED
    BY <1>2, <1>7, <2>1, TopStep
<1>9. FreshOK'
  <2>1. ASSUME NEW f \in EmittedFiles PROVE Apart(f, Children(Here))
    <3>1. Here \notin Ancestors[f] /\ f \in Entry
      BY <1>1, <2>1 DEF FreshOK, Apart, EmittedFiles
    <3>2. f \notin Children(Here)
      BY <3>1, AncestorsStep DEF Children
    <3>3. ASSUME NEW x \in Ancestors[f] PROVE x \notin Children(Here)
      BY <3>1, <3>3, AncestorsClosed, TraversalAssumption DEF Children
    <3> QED
      BY <3>2, <3>3 DEF Apart
  <2>2. ASSUME NEW f \in EmittedFiles, NEW k \in DOMAIN stack PROVE Apart(f, Listing(stack'[k]))
    BY <1>7, <1>8, <2>1, <2>2 DEF FreshOK, Apart
  <2> QED
    BY <1>1, <1>5, <1>8, <2>2 DEF FreshOK
<1>10. ShapeOK'
  BY <1>1, <1>8 DEF ShapeOK
<1>11. TypeOK'
  BY <1>1, <1>3, <1>4, <1>8 DEF TypeOK, ContextOK, graphVars, Depth
<1> QED
  BY <1>4, <1>5, <1>8, <1>9, <1>10, <1>11

\* Where the exploration is, while it visits.
LEMMA WhileExploring ==
  ASSUME Inv, pc \in {"enter", "entries", "dirs", "leave"}
  PROVE  /\ stack \in Seq(Frame) /\ path \in Seq(PathEntry) /\ PathOK /\ StackOK
         /\ Len(stack) = Len(path) + 1 /\ Len(stack) \in DOMAIN stack
         /\ shareList \in Lists \cup {Unreadable}
         /\ Top \in Frame /\ FrameOK(Top, Here) /\ Top.dirs \in Seq(PathEntry)
         /\ Top.counts \in [CountField -> Nat]
         /\ Here = Above(Len(stack)) /\ Here \in Dir \cup {Root} /\ Here \in Entry \cup {Root}
<1>1. /\ stack \in Seq(Frame) /\ path \in Seq(PathEntry) /\ PathOK /\ StackOK
      /\ Len(stack) = Len(path) + 1 /\ shareList \in Lists \cup {Unreadable}
  BY DEF Inv, ShapeOK, TypeOK
<1>2. Len(stack) \in DOMAIN stack
  BY <1>1
<1>3. Here = Above(Len(stack)) /\ Here \in Dir \cup {Root} /\ Here \in Entry \cup {Root}
  BY <1>1, AboveType DEF Here
<1>4. Top \in Frame /\ FrameOK(Top, Here)
  BY <1>1, <1>2, <1>3 DEF Top, StackOK
<1> QED
  BY <1>1, <1>2, <1>3, <1>4 DEF Frame

LEMMA CountsUp ==
  ASSUME NEW c \in [CountField -> Nat], NEW fields
  PROVE  Bump(c, fields) \in [CountField -> Nat]
BY DEF Bump

LEMMA OutcomeType ==
  ASSUME TypeOK, NEW e, NEW how \in Outcome, Decided(e, how)
  PROVE  outcome' \in [Entry -> Outcome]
BY DEF TypeOK, Decided

LEMMA VisitDirectoryInv ==
  ASSUME Inv, NEW d \in Dir, VisitDirectory(d)
  PROVE  Inv'
<1> USE DEF Inv
<1> DEFINE r == [node |-> d, rights |-> Ntfs[d]]
<1>1. /\ pc = "entries" /\ d \in Top.todo \cap Dir
      /\ context' = [context EXCEPT !["DIR"] = d]
      /\ UNCHANGED <<rules, shareList, pc, path, timeoutFlag, unlisted>>
      /\ UNCHANGED graphVars \/ AddPathToGraph(d, Ntfs[d])
      /\ results' = results \/ results' = [results EXCEPT !["pendingDirs"] = @ + 1]
      /\ \E fields : \/ Visited(d, Bump(Top.counts, fields), Top.dirs)
                     \/ Visited(d, Bump(Top.counts, fields), Append(Top.dirs, r))
      /\ \E how \in Outcome : Decided(d, how)
  BY DEF VisitDirectory, Outcome
<1> DEFINE n == Len(stack)
<1>2. /\ stack \in Seq(Frame) /\ path \in Seq(PathEntry) /\ n = Len(path) + 1 /\ n \in DOMAIN stack
      /\ shareList \in Lists \cup {Unreadable}
      /\ Top \in Frame /\ FrameOK(Top, Here) /\ Top.dirs \in Seq(PathEntry)
      /\ Top.counts \in [CountField -> Nat]
  BY <1>1, WhileExploring
<1>3. \E fr \in Frame : /\ FrameOK(fr, Here) /\ fr.todo = Top.todo \ {d}
                        /\ Listing(fr) \subseteq Listing(Top)
                        /\ stack' = [stack EXCEPT ![Len(stack)] = fr]
  <2>1. PICK fields : \/ Visited(d, Bump(Top.counts, fields), Top.dirs)
                      \/ Visited(d, Bump(Top.counts, fields), Append(Top.dirs, r))
    BY <1>1
  <2> DEFINE c == Bump(Top.counts, fields)
  <2>2. c \in [CountField -> Nat]
    BY <1>2, CountsUp
  <2> HIDE DEF c
  <2>3. CASE Visited(d, c, Top.dirs)
    <3> DEFINE fr == [todo |-> Top.todo \ {d}, dirs |-> Top.dirs, counts |-> c]
    <3>1. stack' = [stack EXCEPT ![Len(stack)] = fr]
      BY <2>3 DEF Visited, Top
    <3>2. fr \in Frame /\ fr.todo = Top.todo \ {d} /\ fr.dirs = Top.dirs
      BY <1>2, <2>2 DEF Frame
    <3> HIDE DEF fr
    <3>3. FrameOK(fr, Here) /\ Listing(fr) = fr.todo \cup NodesIn(Top.dirs)
      BY <1>2, <3>2, FrameLess
    <3> QED
      BY <3>1, <3>2, <3>3 DEF Listing
  <2>4. CASE Visited(d, c, Append(Top.dirs, r))
    <3> DEFINE fr == [todo |-> Top.todo \ {d}, dirs |-> Append(Top.dirs, r), counts |-> c]
    <3>1. stack' = [stack EXCEPT ![Len(stack)] = fr]
      BY <2>4 DEF Visited, Top
    <3>2. fr \in Frame /\ fr.todo = Top.todo \ {d} /\ fr.dirs = Append(Top.dirs, r)
      <4>1. Append(Top.dirs, r) \in Seq(PathEntry)
        BY <1>2, DirectoryEntry
      <4> QED
        BY <1>2, <2>2, <4>1 DEF Frame
    <3> HIDE DEF fr
    <3>3. FrameOK(fr, Here) /\ Listing(fr) = Listing(Top)
      BY <1>1, <1>2, <3>2, FrameMore
    <3> QED
      BY <3>1, <3>2, <3>3
  <2> QED
    BY <2>1, <2>3, <2>4 DEF c
<1>4. UNCHANGED graphVars \/ (Due(d, Ntfs[d]) /\ AddPathToGraph(d, Ntfs[d]))
  BY <1>1, <1>2, DirectoryDue
<1>5. stack' \in Seq(Frame) /\ Len(stack') = n /\ PathOK' /\ StackOK' /\ EmitInv' /\ FreshOK'
  <2>1. PICK fr \in Frame : /\ FrameOK(fr, Here) /\ fr.todo = Top.todo \ {d}
                            /\ Listing(fr) \subseteq Listing(Top)
                            /\ stack' = [stack EXCEPT ![Len(stack)] = fr]
    BY <1>3
  <2>2. d \in Top.todo /\ d \in Dir /\ UNCHANGED <<shareList, pc, path>>
    BY <1>1
  <2> QED
    BY <1>1, <1>2, <1>4, <2>1, <2>2, VisitStep
<1>6. ContextOK'
  <2>1. d \in Entry \cup {Nil} /\ "DIR" \in Field /\ "DIR" # "SHARE" /\ "DIR" # "DEPTH"
    BY TraversalAssumption DEF Field
  <2> QED
    BY <1>1, <2>1, ContextSet
<1>7. ShapeOK'
  BY <1>1, <1>2, <1>5 DEF ShapeOK
<1>8. TypeOK'
  <2>1. /\ emitted' \in Seq(RecordType) /\ emittedPathNodes' \in SUBSET Dir
        /\ hostShareEmitted' \in BOOLEAN
    BY <1>1, <1>5 DEF EmitInv, Good, Sound, TypeOK, AddPathToGraph, graphVars
  <2>2. results' \in [CountField \cup {"pendingDirs"} -> Int]
    BY <1>1 DEF TypeOK
  <2>3. outcome' \in [Entry -> Outcome]
    BY <1>1, OutcomeType
  <2> QED
    BY <1>1, <1>2, <1>5, <1>6, <2>1, <2>2, <2>3 DEF TypeOK, ContextOK, Depth
<1> QED
  BY <1>5, <1>6, <1>7, <1>8

LEMMA VisitFileInv ==
  ASSUME Inv, NEW f \in Entry, VisitFile(f)
  PROVE  Inv'
<1> USE DEF Inv
<1> DEFINE rs == IF Ntfs[f] = <<>> THEN Inherited ELSE Ntfs[f]
           n == Len(stack)
<1>1. /\ pc = "entries" /\ f \in Top.todo \ Dir
      /\ context' = [context EXCEPT !["FILE"] = f]
      /\ UNCHANGED <<rules, shareList, pc, path, timeoutFlag, unlisted, results>>
      /\ UNCHANGED graphVars \/ AddPathToGraph(f, rs)
      /\ \E fields : Visited(f, Bump(Top.counts, fields), Top.dirs)
      /\ \E how \in Outcome : Decided(f, how)
  BY DEF VisitFile, Outcome
<1>2. /\ stack \in Seq(Frame) /\ path \in Seq(PathEntry) /\ n = Len(path) + 1 /\ n \in DOMAIN stack
      /\ shareList \in Lists \cup {Unreadable}
      /\ Top \in Frame /\ FrameOK(Top, Here) /\ Top.dirs \in Seq(PathEntry)
      /\ Top.counts \in [CountField -> Nat]
  BY <1>1, WhileExploring
<1>3. \E fr \in Frame : /\ FrameOK(fr, Here) /\ fr.todo = Top.todo \ {f}
                        /\ Listing(fr) \subseteq Listing(Top) /\ f \notin Listing(fr)
                        /\ stack' = [stack EXCEPT ![Len(stack)] = fr]
  <2>1. PICK fields : Visited(f, Bump(Top.counts, fields), Top.dirs)
    BY <1>1
  <2> DEFINE c == Bump(Top.counts, fields)
             fr == [todo |-> Top.todo \ {f}, dirs |-> Top.dirs, counts |-> c]
  <2>2. c \in [CountField -> Nat]
    BY <1>2, CountsUp
  <2> HIDE DEF c
  <2>3. stack' = [stack EXCEPT ![Len(stack)] = fr]
    BY <2>1 DEF Visited, Top, c
  <2>4. fr \in Frame /\ fr.todo = Top.todo \ {f} /\ fr.dirs = Top.dirs
    BY <1>2, <2>2 DEF Frame
  <2> HIDE DEF fr
  <2>5. FrameOK(fr, Here) /\ Listing(fr) = fr.todo \cup NodesIn(Top.dirs)
    BY <1>2, <2>4, FrameLess
  <2>6. f \notin NodesIn(Top.dirs)
    BY <1>1, <1>2 DEF FrameOK
  <2> QED
    BY <2>3, <2>4, <2>5, <2>6 DEF Listing
<1>4. UNCHANGED graphVars \/ (Due(f, rs) /\ AddPathToGraph(f, rs))
  <2>1. f \in Entry \ Dir /\ Parent[f] = Here
    BY <1>1, <1>2 DEF FrameOK, Listing, Children
  <2> QED
    BY <1>1, <1>2, <2>1, FileDue
<1> HIDE DEF rs
<1>5. stack' \in Seq(Frame) /\ Len(stack') = n /\ PathOK' /\ StackOK' /\ EmitInv' /\ FreshOK'
  <2>1. PICK fr \in Frame : /\ FrameOK(fr, Here) /\ fr.todo = Top.todo \ {f}
                            /\ Listing(fr) \subseteq Listing(Top) /\ f \notin Listing(fr)
                            /\ stack' = [stack EXCEPT ![Len(stack)] = fr]
    BY <1>3
  <2>2. f \in Top.todo /\ UNCHANGED <<shareList, pc, path>>
    BY <1>1
  <2> QED
    BY <1>1, <1>2, <1>4, <2>1, <2>2, VisitStep
<1>6. ContextOK'
  <2>1. f \in Entry \cup {Nil} /\ "FILE" \in Field /\ "FILE" # "SHARE" /\ "FILE" # "DEPTH"
    BY DEF Field
  <2> QED
    BY <1>1, <2>1, ContextSet
<1>7. ShapeOK'
  BY <1>1, <1>2, <1>5 DEF ShapeOK
<1>8. TypeOK'
  <2>1. /\ emitted' \in Seq(RecordType) /\ emittedPathNodes' \in SUBSET Dir
        /\ hostShareEmitted' \in BOOLEAN
    BY <1>1, <1>5 DEF EmitInv, Good, Sound, TypeOK, AddPathToGraph, graphVars
  <2>2. outcome' \in [Entry -> Outcome]
    BY <1>1, OutcomeType
  <2> QED
    BY <1>1, <1>2, <1>5, <1>6, <2>1, <2>2 DEF TypeOK, ContextOK, Depth
<1> QED
  BY <1>5, <1>6, <1>7, <1>8

LEMMA EndEntriesInv == Inv /\ EndEntries => Inv'
<1> SUFFICES ASSUME Inv, EndEntries PROVE Inv'
  OBVIOUS
<1> USE DEF Inv
<1> DEFINE n == Len(stack)
           fr == [Top EXCEPT !.todo = {}]
<1>1. /\ pc = "entries" /\ pc' = "dirs" /\ stack' = [stack EXCEPT ![Len(stack)].todo = {}]
      /\ UNCHANGED <<rules, shareList, path, graphVars, context, timeoutFlag, unlisted, outcome,
                     results>>
  BY DEF EndEntries
<1>2. /\ stack \in Seq(Frame) /\ path \in Seq(PathEntry) /\ n = Len(path) + 1 /\ n \in DOMAIN stack
      /\ Top \in Frame /\ FrameOK(Top, Here)
  BY <1>1, WhileExploring
<1>3. fr \in Frame /\ fr.todo = {} /\ fr.dirs = Top.dirs
  BY <1>2 DEF Frame
<1>4. stack' = [stack EXCEPT ![Len(stack)] = fr]
  BY <1>1, <1>2 DEF Top
<1> HIDE DEF fr
<1>5. FrameOK(fr, Here) /\ Listing(fr) \subseteq Listing(Top)
  BY <1>2, <1>3, FrameLess DEF Listing
<1>6. /\ stack' \in Seq(Frame) /\ Len(stack') = n /\ DOMAIN stack' = DOMAIN stack
      /\ stack'[n] = fr /\ \A k \in DOMAIN stack : k # n => stack'[k] = stack[k]
      /\ PathOK' /\ StackOK'
  <2>1. pc' # "enter" /\ path' = path /\ (fr.todo # {} => pc' = "entries")
    BY <1>1, <1>3
  <2> QED
    BY <1>2, <1>3, <1>4, <1>5, <2>1, TopStep
<1>7. FreshOK'
  <2>1. \A k \in DOMAIN stack : Listing(stack'[k]) \subseteq Listing(stack[k])
    BY <1>5, <1>6 DEF Top
  <2>2. UNCHANGED emitted /\ pc' # "enter"
    BY <1>1 DEF graphVars
  <2> QED
    BY <1>6, <2>1, <2>2, FreshLess
<1>8. EmitInv' /\ ContextOK'
  BY <1>1 DEF EmitInv, Good, Sound, Bears, ContextOK, graphVars
<1>9. ShapeOK' /\ TypeOK'
  BY <1>1, <1>2, <1>6 DEF ShapeOK, TypeOK, graphVars, Depth
<1> QED
  BY <1>6, <1>7, <1>8, <1>9

\* The naturals up to n, its predecessor and its successor.
LEMMA Below ==
  ASSUME NEW n \in Nat, n >= 1
  PROVE  /\ \A i \in 1..n : i # n => i \in 1..(n - 1)
         /\ \A i \in 1..(n + 1) : i = n + 1 \/ i = n \/ i \in 1..(n - 1)
         /\ \A i \in 1..(n - 1) : i \in 1..n /\ i # n
OBVIOUS

LEMMA DescendInv == Inv /\ Descend => Inv'
<1> SUFFICES ASSUME Inv, Descend PROVE Inv'
  OBVIOUS
<1> USE DEF Inv
<1> DEFINE n == Len(stack)
           r == Head(Top.dirs)
           fr == [Top EXCEPT !.dirs = Tail(@)]
           below == [stack EXCEPT ![n] = fr]
<1>1. /\ pc = "dirs" /\ Top.dirs # <<>> /\ pc' = "enter"
      /\ path' = Append(path, r)
      /\ stack' = Append([stack EXCEPT ![Len(stack)].dirs = Tail(@)], NewFrame)
      /\ UNCHANGED <<rules, shareList, graphVars, context, timeoutFlag, unlisted, outcome, results>>
  BY DEF Descend
<1>2. /\ stack \in Seq(Frame) /\ path \in Seq(PathEntry) /\ n = Len(path) + 1 /\ n \in DOMAIN stack
      /\ Top \in Frame /\ FrameOK(Top, Here) /\ Top.dirs \in Seq(PathEntry)
      /\ Here = Above(n) /\ PathOK /\ StackOK
  BY <1>1, WhileExploring
<1>3. fr \in Frame /\ fr.todo = Top.todo /\ fr.dirs = Tail(Top.dirs)
  <2>1. Tail(Top.dirs) \in Seq(PathEntry)
    BY <1>1, <1>2
  <2> QED
    BY <1>2, <2>1 DEF Frame
<1>4. stack' = Append(below, NewFrame)
  BY <1>1, <1>2 DEF Top
<1> HIDE DEF fr
<1>5. /\ FrameOK(fr, Here) /\ Listing(fr) \subseteq Listing(Top)
      /\ r \in PathEntry /\ r.node \in Listing(Top) /\ r.rights = Ntfs[r.node]
      /\ r.node \notin Listing(fr)
  BY <1>1, <1>2, <1>3, FrameTail
<1> HIDE DEF r
<1>6. Parent[r.node] = Here
  BY <1>2, <1>5 DEF FrameOK, Children
<1>7. /\ below \in Seq(Frame) /\ Len(below) = n /\ below[n] = fr
      /\ \A k \in 1..n : k # n => below[k] = stack[k]
  BY <1>2, <1>3
<1> HIDE DEF below
<1>8. /\ stack' \in Seq(Frame) /\ Len(stack') = n + 1 /\ DOMAIN stack' = 1..(n + 1)
      /\ stack'[n + 1] = NewFrame
      /\ \A k \in 1..n : stack'[k] = below[k]
  BY <1>4, <1>7, NewFrameOK
<1>9. /\ path' \in Seq(PathEntry) /\ Len(path') = n /\ DOMAIN path' = 1..n /\ path'[n] = r
      /\ DOMAIN path = 1..(n - 1)
      /\ \A i \in 1..(n - 1) : path'[i] = path[i]
  BY <1>1, <1>2, <1>5
<1>10. n \in Nat /\ n >= 1 /\ DOMAIN stack = 1..n
  BY <1>2
<1>11. \A i \in 1..n : Above(i)' = Above(i)
  <2>1. \A i \in 1..n : i # 1 => i - 1 \in 1..(n - 1)
    BY <1>10
  <2> QED
    BY <1>9, <2>1 DEF Above
<1>12. Here' = r.node
  <2>1. n + 1 # 1 /\ (n + 1) - 1 = n
    BY <1>10
  <2> HIDE DEF n
  <2> QED
    BY <1>9, <1>10, <2>1 DEF Above, Here
<1>13. PathOK'
  <2>1. ASSUME NEW i \in 1..n
        PROVE  Parent[path'[i].node] = Above(i) /\ path'[i].rights = Ntfs[path'[i].node]
    <3>1. CASE i = n
      BY <1>2, <1>5, <1>6, <1>9, <3>1
    <3>2. CASE i # n
      <4>1. i \in 1..(n - 1)
        BY <1>10, <3>2, Below
      <4> QED
        BY <1>2, <1>9, <4>1 DEF PathOK
    <3> QED
      BY <3>1, <3>2
  <2> QED
    BY <1>9, <1>11, <2>1 DEF PathOK
<1>14. \A k \in 1..n : /\ FrameOK(stack'[k], Above(k)) /\ stack'[k].todo = {}
                       /\ Listing(stack'[k]) \subseteq Listing(stack[k])
  <2>1. Top = stack[n] /\ n \in 1..n
    BY <1>10 DEF Top
  <2>2. ASSUME NEW k \in 1..n, k = n
        PROVE  /\ FrameOK(stack'[k], Above(k)) /\ stack'[k].todo = {}
               /\ Listing(stack'[k]) \subseteq Listing(stack[k])
    <3>1. stack'[k] = fr /\ stack[k] = Top /\ Above(k) = Here
      BY <1>2, <1>7, <1>8, <2>1, <2>2
    <3>2. Top.todo = {}
      BY <1>1, <1>2, <1>10, <2>1 DEF StackOK
    <3> QED
      BY <1>3, <1>5, <3>1, <3>2
  <2>3. ASSUME NEW k \in 1..n, k # n
        PROVE  /\ FrameOK(stack'[k], Above(k)) /\ stack'[k].todo = {}
               /\ Listing(stack'[k]) \subseteq Listing(stack[k])
    <3>1. stack'[k] = stack[k]
      BY <1>7, <1>8, <2>3
    <3> HIDE DEF n
    <3> QED
      BY <1>1, <1>2, <1>10, <2>3, <3>1 DEF StackOK
  <2> QED
    BY <2>2, <2>3
<1>15. StackOK'
  <2>1. ASSUME NEW k \in 1..(n + 1)
        PROVE  /\ FrameOK(stack'[k], Above(k)')
               /\ k \in 1..n => path'[k].node \notin Listing(stack'[k])
               /\ stack'[k].todo = {}
               /\ k = n + 1 => Listing(stack'[k]) = {}
    <3>1. CASE k = n + 1
      <4>1. k \notin 1..n /\ NewFrame.todo = {}
        BY <1>10, <3>1 DEF NewFrame
      <4> QED
        BY <1>8, <3>1, <4>1, NewFrameOK
    <3>2. CASE k = n
      BY <1>5, <1>7, <1>8, <1>9, <1>10, <1>11, <1>14, <3>2
    <3>3. CASE k \in 1..(n - 1)
      <4>1. k \in 1..n /\ k # n + 1 /\ k \in DOMAIN stack /\ k \in DOMAIN path
        BY <1>9, <1>10, <3>3
      <4>2. path[k].node \notin Listing(stack[k])
        BY <1>2, <4>1 DEF StackOK
      <4> QED
        BY <1>9, <1>11, <1>14, <3>3, <4>1, <4>2
    <3>4. k = n + 1 \/ k = n \/ k \in 1..(n - 1)
      BY <1>10, Below
    <3> QED
      BY <3>1, <3>2, <3>3, <3>4
  <2> QED
    BY <1>8, <1>9, <2>1 DEF StackOK
<1>16. EmitInv' /\ ContextOK' /\ EmittedFiles' = EmittedFiles
  BY <1>1 DEF EmitInv, Good, Sound, Bears, ContextOK, EmittedFiles, Nodes, graphVars
<1>17. FreshOK'
  <2> SUFFICES ASSUME NEW f \in EmittedFiles
               PROVE  /\ \A k \in 1..(n + 1) : Apart(f, Listing(stack'[k]))
                      /\ Apart(f, {r.node})
    BY <1>8, <1>12, <1>16 DEF FreshOK
  <2>1. \A k \in 1..n : Apart(f, Listing(stack[k]))
    BY <1>10 DEF FreshOK
  <2>2. \A k \in 1..n : Apart(f, Listing(stack'[k]))
    BY <1>14, <2>1 DEF Apart
  <2>3. Apart(f, Listing(stack'[n + 1]))
    BY <1>8, NewFrameOK DEF Apart
  <2>4. Apart(f, {r.node})
    <3>1. Apart(f, Listing(stack[n]))
      BY <1>10, <2>1
    <3> QED
      BY <1>5, <3>1 DEF Apart, Top
  <2>5. \A k \in 1..(n + 1) : k \in 1..n \/ k = n + 1
    BY <1>10
  <2> QED
    BY <2>2, <2>3, <2>4, <2>5
<1>18. ShapeOK' /\ TypeOK'
  BY <1>1, <1>8, <1>9, <1>10 DEF ShapeOK, TypeOK, graphVars, Depth
<1> QED
  BY <1>13, <1>15, <1>16, <1>17, <1>18

\* Nothing that the invariant speaks of changes but the control.
LEMMA SameTree ==
  ASSUME Inv, UNCHANGED <<rules, shareList, stack, path, graphVars, context, unlisted, outcome>>,
         timeoutFlag' \in BOOLEAN, results' \in [CountField \cup {"pendingDirs"} -> Int],
         \/ pc' = pc
         \/ /\ pc' \in {"leave", "finish", "done"} /\ pc \notin {"start", "entries"}
            /\ pc' \in {"finish", "done"} => path = <<>>
  PROVE  Inv'
<1> USE DEF Inv
<1>1. EmitInv' /\ ContextOK' /\ EmittedFiles' = EmittedFiles
  BY DEF EmitInv, Good, Sound, Bears, ContextOK, EmittedFiles, Nodes, graphVars
<1>2. \A i : Above(i)' = Above(i)
  BY DEF Above
<1>3. PathOK' /\ StackOK'
  BY <1>2 DEF PathOK, StackOK
<1>4. Here' = Here
  BY <1>2 DEF Here, Above
<1>5. FreshOK'
  BY <1>1, <1>4 DEF FreshOK
<1>6. ShapeOK'
  BY DEF ShapeOK, graphVars
<1>7. TypeOK'
  <2>1. pc' \in {"enter", "entries", "dirs", "leave"} => Len(path') = Depth'
    BY DEF TypeOK, ShapeOK, Depth
  <2>2. pc' \in {"start", "enter", "entries", "dirs", "leave", "finish", "done"}
    BY DEF TypeOK
  <2> QED
    BY <2>1, <2>2 DEF TypeOK, graphVars
<1> QED
  BY <1>1, <1>3, <1>5, <1>6, <1>7

LEMMA EndDirsInv == Inv /\ EndDirs => Inv'
<1> SUFFICES ASSUME Inv, EndDirs PROVE Inv'
  OBVIOUS
<1>1. /\ UNCHANGED <<rules, shareList, stack, path, graphVars, context, unlisted, outcome>>
      /\ timeoutFlag' = timeoutFlag /\ results' = results /\ pc = "dirs" /\ pc' = "leave"
  BY DEF EndDirs
<1>2. timeoutFlag' \in BOOLEAN /\ results' \in [CountField \cup {"pendingDirs"} -> Int]
  BY <1>1 DEF Inv, TypeOK
<1> QED
  BY <1>1, <1>2, SameTree

LEMMA FinishInv == Inv /\ Finish => Inv'
<1> SUFFICES ASSUME Inv, Finish PROVE Inv'
  OBVIOUS
<1>1. /\ UNCHANGED <<rules, shareList, stack, path, graphVars, context, unlisted, outcome>>
      /\ timeoutFlag' = timeoutFlag /\ pc = "finish" /\ pc' = "done" /\ path = <<>>
  BY DEF Finish, Inv, ShapeOK
<1>2. Top.counts \in [CountField -> Nat]
  <2>1. stack \in Seq(Frame) /\ Len(stack) = 1
    BY <1>1 DEF Inv, TypeOK, ShapeOK
  <2>2. stack[Len(stack)] \in Frame
    BY <2>1
  <2> QED
    BY <2>2 DEF Top, Frame
<1>3. results \in [CountField \cup {"pendingDirs"} -> Int] /\ timeoutFlag' \in BOOLEAN
  BY <1>1 DEF Inv, TypeOK
<1>4. results' \in [CountField \cup {"pendingDirs"} -> Int]
  <2>1. \A f \in CountField : Top.counts[f] \in Nat
    BY <1>2
  <2>2. {"totalFiles", "skippedFiles", "totalDirs", "skippedDirs"} \subseteq CountField
    BY DEF CountField
  <2>3. results' = [f \in DOMAIN results |->
          CASE f = "pendingDirs" -> results[f]
            [] f = "totalFiles"  -> results[f] + Top.counts[f] + Top.counts["skippedFiles"]
            [] f = "totalDirs"   -> results[f] + Top.counts[f] + Top.counts["skippedDirs"]
            [] OTHER             -> results[f] + Top.counts[f]]
    BY DEF Finish
  <2> HIDE DEF CountField
  <2> QED
    BY <1>3, <2>1, <2>2, <2>3
<1> QED
  BY <1>1, <1>3, <1>4, SameTree

LEMMA TimeoutInv == Inv /\ Timeout => Inv'
<1> SUFFICES ASSUME Inv, Timeout PROVE Inv'
  OBVIOUS
<1>1. /\ UNCHANGED <<rules, shareList, stack, path, graphVars, context, unlisted, outcome>>
      /\ timeoutFlag' \in BOOLEAN /\ results' = results /\ pc' = pc
  BY DEF Timeout
<1>2. results' \in [CountField \cup {"pendingDirs"} -> Int]
  BY <1>1 DEF Inv, TypeOK
<1> QED
  BY <1>1, <1>2, SameTree

LEMMA StutterInv == Inv /\ UNCHANGED vars => Inv'
<1> SUFFICES ASSUME Inv, UNCHANGED vars PROVE Inv'
  OBVIOUS
<1>1. /\ UNCHANGED <<rules, shareList, stack, path, graphVars, context, unlisted, outcome>>
      /\ timeoutFlag' = timeoutFlag /\ results' = results /\ pc' = pc
  BY DEF vars, graphVars
<1>2. timeoutFlag' \in BOOLEAN /\ results' \in [CountField \cup {"pendingDirs"} -> Int]
  BY <1>1 DEF Inv, TypeOK
<1> QED
  BY <1>1, <1>2, SameTree

LEMMA LeaveInv == Inv /\ Leave => Inv'
<1> SUFFICES ASSUME Inv, Leave PROVE Inv'
  OBVIOUS
<1> USE DEF Inv
<1> DEFINE n == Len(stack)
           m == n - 1
           kept == SubSeq(stack, 1, m)
           fr == [stack[m] EXCEPT !.counts = Add(@, Top.counts)]
<1>1. /\ stack \in Seq(Frame) /\ path \in Seq(PathEntry) /\ n = Len(path) + 1 /\ n \in Nat
      /\ results \in [CountField \cup {"pendingDirs"} -> Int] /\ timeoutFlag \in BOOLEAN
      /\ pc = "leave"
  BY DEF TypeOK, ShapeOK, Leave
<1>2. CASE Depth = 0
  <2>1. path = <<>>
    BY <1>1, <1>2 DEF Depth
  <2>2. /\ UNCHANGED <<rules, shareList, stack, path, graphVars, context, unlisted, outcome>>
        /\ timeoutFlag' = timeoutFlag /\ results' = results /\ pc' = "finish"
    BY <1>2 DEF Leave
  <2> QED
    BY <1>1, <2>1, <2>2, SameTree
<1>3. CASE Depth # 0
  <2>1. /\ pc' = "dirs" /\ path' = SubSeq(path, 1, Len(path) - 1)
        /\ stack' = [kept EXCEPT ![n - 1].counts = Add(@, Top.counts)]
        /\ results' = [f \in DOMAIN results |->
                         IF f = "pendingDirs" THEN results[f] - 1
                         ELSE results[f] + Top.counts[f]]
        /\ UNCHANGED <<rules, shareList, graphVars, context, timeoutFlag, unlisted, outcome>>
    BY <1>3 DEF Leave
  <2>2. m \in Nat /\ m >= 1 /\ n = m + 1 /\ Len(path) = m /\ n \in DOMAIN stack /\ m \in DOMAIN stack
        /\ DOMAIN stack = 1..n /\ DOMAIN path = 1..m
    BY <1>1, <1>3 DEF Depth
  <2>3. stack[m] \in Frame /\ Top \in Frame
    BY <1>1, <2>2 DEF Top
  <2>4. fr \in Frame /\ fr.todo = stack[m].todo /\ fr.dirs = stack[m].dirs
    <3>1. stack[m].counts \in [CountField -> Nat] /\ Top.counts \in [CountField -> Nat]
      BY <2>3 DEF Frame
    <3>2. Add(stack[m].counts, Top.counts) \in [CountField -> Nat]
      BY <3>1 DEF Add
    <3> QED
      BY <2>3, <3>2 DEF Frame
  <2>5. /\ kept \in Seq(Frame) /\ Len(kept) = m /\ DOMAIN kept = 1..m
        /\ \A k \in 1..m : kept[k] = stack[k]
    BY <1>1, <2>2
  <2>6. stack' = [kept EXCEPT ![m] = fr]
    BY <2>1, <2>2, <2>5
  <2>7. m \in Nat /\ n = m + 1 /\ n = Len(stack)
    BY <2>2
  <2> HIDE DEF kept, fr, n, m
  <2>8. /\ stack' \in Seq(Frame) /\ Len(stack') = m /\ DOMAIN stack' = 1..m /\ stack'[m] = fr
        /\ \A k \in 1..m : k # m => stack'[k] = stack[k]
    <3>1. DOMAIN stack' = 1..m /\ stack'[m] = fr /\ \A k \in 1..m : k # m => stack'[k] = stack[k]
      BY <2>2, <2>4, <2>5, <2>6
    <3>2. stack' \in Seq(Frame)
      BY <2>2, <2>4, <2>5, <2>6
    <3>3. Len(stack') = m
      BY <2>2, <3>1, <3>2
    <3> QED
      BY <3>1, <3>2, <3>3
  <2>9. /\ path' \in Seq(PathEntry) /\ Len(path') = m - 1 /\ DOMAIN path' = 1..(m - 1)
        /\ \A i \in 1..(m - 1) : path'[i] = path[i]
    BY <1>1, <2>1, <2>2
  <2>10. \A k \in 1..m : /\ Listing(stack'[k]) = Listing(stack[k])
                        /\ stack'[k].todo = stack[k].todo /\ stack'[k].dirs = stack[k].dirs
    BY <2>2, <2>4, <2>8 DEF Listing
  <2>11. \A i \in 1..m : Above(i)' = Above(i)
    <3>1. \A i \in 1..m : i # 1 => i - 1 \in 1..(m - 1)
      BY <2>2
    <3> QED
      BY <2>9, <3>1 DEF Above
  <2>12. PathOK'
    <3>1. \A i \in 1..(m - 1) : i \in 1..m
      BY <2>2
    <3> QED
      BY <2>2, <2>9, <2>11, <3>1 DEF PathOK
  <2>13. StackOK'
    <3>1. ASSUME NEW k \in 1..m
          PROVE  /\ FrameOK(stack'[k], Above(k)')
                 /\ k \in 1..(m - 1) => path'[k].node \notin Listing(stack'[k])
                 /\ stack'[k].todo = {}
      <4>1. k \in DOMAIN stack /\ k \in DOMAIN path /\ k # n
        BY <2>2
      <4>2. FrameOK(stack[k], Above(k)) /\ path[k].node \notin Listing(stack[k])
        BY <4>1 DEF StackOK
      <4>3. stack[k].todo = {}
        BY <2>7, <4>1 DEF StackOK
      <4>4. FrameOK(stack'[k], Above(k)')
        BY <2>10, <2>11, <4>2 DEF FrameOK
      <4> QED
        BY <2>9, <2>10, <4>2, <4>3, <4>4
    <3> QED
      BY <2>1, <2>8, <2>9, <3>1 DEF StackOK
  <2>14. EmitInv' /\ ContextOK' /\ EmittedFiles' = EmittedFiles
    BY <2>1 DEF EmitInv, Good, Sound, Bears, ContextOK, EmittedFiles, Nodes, graphVars
  <2>15. FreshOK'
    <3>1. 1..m \subseteq DOMAIN stack
      BY <2>2
    <3> QED
      BY <2>1, <2>8, <2>10, <2>14, <3>1 DEF FreshOK
  <2>16. results' \in [CountField \cup {"pendingDirs"} -> Int]
    <3>1. \A f \in CountField : Top.counts[f] \in Nat
      BY <2>3 DEF Frame
    <3> HIDE DEF CountField
    <3> QED
      BY <1>1, <2>1, <3>1
  <2>17. ShapeOK' /\ TypeOK'
    BY <1>1, <2>1, <2>2, <2>8, <2>9, <2>16 DEF ShapeOK, TypeOK, graphVars, Depth
  <2> QED
    BY <2>12, <2>13, <2>14, <2>15, <2>17
<1> QED
  BY <1>2, <1>3

LEMMA NextInv == Inv /\ [Next]_vars => Inv'
<1> SUFFICES ASSUME Inv, [Next]_vars PROVE Inv'
  OBVIOUS
<1>1. CASE Start
  BY <1>1, StartInv
<1>2. CASE Enter
  BY <1>2, EnterInv
<1>3. ASSUME NEW d \in Dir, VisitDirectory(d) PROVE Inv'
  BY <1>3, VisitDirectoryInv
<1>4. ASSUME NEW f \in Entry, VisitFile(f) PROVE Inv'
  BY <1>4, VisitFileInv
<1>5. CASE EndEntries
  BY <1>5, EndEntriesInv
<1>6. CASE Descend
  BY <1>6, DescendInv
<1>7. CASE EndDirs
  BY <1>7, EndDirsInv
<1>8. CASE Leave
  BY <1>8, LeaveInv
<1>9. CASE Finish
  BY <1>9, FinishInv
<1>10. CASE Timeout
  BY <1>10, TimeoutInv
<1>11. CASE UNCHANGED vars
  BY <1>11, StutterInv
<1> QED
  BY <1>1, <1>2, <1>3, <1>4, <1>5, <1>6, <1>7, <1>8, <1>9, <1>10, <1>11 DEF Next, Terminated

\* The invariant of the exploration of a share, from which what follows is read off.
THEOREM Exploration == Spec => []Inv
<1>1. Init => Inv
  BY InitInv
<1>2. Inv /\ [Next]_vars => Inv'
  BY NextInv
<1> QED
  BY <1>1, <1>2, PTL DEF Spec

\* Every variable keeps its type, and the path has one element for each activation
\* of collectContentsAtDepth below the first, however they were left.
THEOREM TraversalTypeCorrect == Spec => []TypeOK
<1>1. Inv => TypeOK
  BY DEF Inv
<1> QED
  BY <1>1, Exploration, PTL

\* An edge is added after the nodes it joins, between what really is parent and
\* child, whatever the rules leave out: what AddPathToGraph emits first of the path
\* is enough.
THEOREM NodesComeFirst == Spec => []EdgesFollowNodes
<1>1. Inv => EdgesFollowNodes
  <2> SUFFICES ASSUME Inv, NEW i \in DOMAIN emitted, emitted[i].kind # "node"
               PROVE  Joined(emitted[i], Before({}, emitted, i))
    BY DEF EdgesFollowNodes, Joined, Before, Home
  <2> QED
    BY DEF Inv, EmitInv, Good, Sound, Follows
<1> QED
  BY <1>1, Exploration, PTL

\* One context adds no node and no Contains edge twice, although the elements of
\* the path lead to many files and a directory is added when it is found.
THEOREM NothingTwice == Spec => []EmittedOnce
<1>1. Inv => EmittedOnce
  BY DEF Inv, EmitInv, Good, Sound, Once, EmittedOnce
<1> QED
  BY <1>1, Exploration, PTL

LEMMA EmittedAreNodes ==
  /\ EmittedNodes = Nodes(emitted)
  /\ \A kind, e : Edges(kind, e) = From(emitted, kind, e)
BY DEF EmittedNodes, Nodes, Edges, From

\* Every file and directory in the graph bears the rights of the nearest list that
\* grants any, whichever elements of the path were emitted before.
THEOREM RightsOfNearest == Spec => []RightsAreNearest
<1>1. Inv => RightsAreNearest
  BY EmittedAreNodes DEF Inv, EmitInv, Good, Bears, RightsAreNearest
<1> QED
  BY <1>1, Exploration, PTL

\* An effective edge is there exactly if the list of the share and the nearest list
\* of the entry both grant what it says.
THEOREM EffectiveOfBoth == Spec => []EffectiveIsBoth
<1>1. Inv => EffectiveIsBoth
  BY EmittedAreNodes DEF Inv, EmitInv, Good, Bears, EffectiveIsBoth
<1> QED
  BY <1>1, Exploration, PTL

-----------------------------------------------------------------------------
(* What the steps that change the stack do to it. *)

LEMMA LengthIsNatural ==
  ASSUME Inv
  PROVE  Len(stack) \in Nat /\ (Depth # 0 /\ pc = "leave" => Len(stack) - 1 \in Nat)
<1>1. stack \in Seq(Frame) /\ path \in Seq(PathEntry) /\ (pc = "leave" => Len(stack) = Len(path) + 1)
  BY DEF Inv, TypeOK, ShapeOK
<1> QED
  BY <1>1

LEMMA EnterFacts ==
  ASSUME Inv, Enter, NEW n, n = Len(stack)
  PROVE  /\ n \in DOMAIN stack /\ Top = stack[n] /\ Listing(stack[n]) = {} /\ DOMAIN stack' = DOMAIN stack
         /\ \A k \in DOMAIN stack : stack'[k].counts = stack[k].counts
         /\ \A k \in DOMAIN stack : k # n => stack'[k] = stack[k]
         /\ stack'[n].dirs = stack[n].dirs
         /\ \/ pc' = "leave" /\ UNCHANGED stack
            \/ pc' = "entries" /\ stack'[n].todo = Children(Here) /\ Listing(stack'[n]) = Children(Here)
<1>1. /\ pc = "enter"
      /\ \/ pc' = "leave" /\ UNCHANGED stack
         \/ pc' = "entries" /\ stack' = [stack EXCEPT ![Len(stack)].todo = Children(Here)]
  BY DEF Enter
<1>2. stack \in Seq(Frame) /\ n \in DOMAIN stack /\ StackOK
  BY <1>1, WhileExploring
<1>3. Listing(stack[n]) = {} /\ stack[n] \in Frame /\ Top = stack[n]
  BY <1>1, <1>2 DEF StackOK, Top
<1>4. CASE pc' = "leave" /\ UNCHANGED stack
  BY <1>2, <1>3, <1>4
<1>5. CASE pc' = "entries" /\ stack' = [stack EXCEPT ![Len(stack)].todo = Children(Here)]
  <2>1. /\ DOMAIN stack' = DOMAIN stack /\ \A k \in DOMAIN stack : k # n => stack'[k] = stack[k]
        /\ stack'[n].todo = Children(Here) /\ stack'[n].dirs = stack[n].dirs
        /\ stack'[n].counts = stack[n].counts
    BY <1>2, <1>3, <1>5 DEF Frame
  <2>2. Listing(stack'[n]) = Children(Here)
    BY <1>3, <2>1 DEF Listing
  <2>3. \A k \in DOMAIN stack : stack'[k].counts = stack[k].counts
    BY <2>1
  <2> QED
    BY <1>2, <1>3, <1>5, <2>1, <2>2, <2>3
<1> QED
  BY <1>1, <1>4, <1>5

LEMMA VisitedFacts ==
  ASSUME Inv, pc = "entries", NEW n, n = Len(stack),
         NEW e \in Top.todo, NEW counts, NEW dirs, Visited(e, counts, dirs)
  PROVE  /\ n \in DOMAIN stack /\ Top = stack[n] /\ DOMAIN stack' = DOMAIN stack
         /\ \A k \in DOMAIN stack : k # n => stack'[k] = stack[k]
         /\ stack'[n].todo = Top.todo \ {e} /\ stack'[n].dirs = dirs /\ stack'[n].counts = counts
<1>1. stack \in Seq(Frame) /\ n \in DOMAIN stack
  BY WhileExploring
<1> QED
  BY <1>1 DEF Visited, Top

LEMMA EndEntriesFacts ==
  ASSUME Inv, EndEntries, NEW n, n = Len(stack)
  PROVE  /\ n \in DOMAIN stack /\ Top = stack[n] /\ DOMAIN stack' = DOMAIN stack
         /\ \A k \in DOMAIN stack : k # n => stack'[k] = stack[k]
         /\ stack'[n].todo = {} /\ stack'[n].dirs = Top.dirs /\ stack'[n].counts = Top.counts
<1>1. stack' = [stack EXCEPT ![Len(stack)].todo = {}] /\ pc = "entries"
  BY DEF EndEntries
<1>2. stack \in Seq(Frame) /\ n \in DOMAIN stack /\ stack[n] \in Frame
  BY <1>1, WhileExploring
<1> QED
  BY <1>1, <1>2 DEF Frame, Top

LEMMA DescendFacts ==
  ASSUME Inv, Descend, NEW n \in Nat, n = Len(stack), NEW r, r = Head(Top.dirs)
  PROVE  /\ n \in Nat /\ n >= 1 /\ DOMAIN stack = 1..n /\ DOMAIN stack' = 1..(n + 1)
         /\ 1..(n + 1) = 1..n \cup {n + 1} /\ n + 1 \notin 1..n /\ n \in 1..n /\ Top = stack[n]
         /\ r \in PathEntry /\ NodesIn(Top.dirs) = NodesIn(stack'[n].dirs) \cup {r.node}
         /\ stack'[n + 1] = NewFrame /\ \A k \in 1..n : k # n => stack'[k] = stack[k]
         /\ stack'[n].todo = Top.todo /\ stack'[n].counts = Top.counts
         /\ DOMAIN path = 1..(n - 1) /\ DOMAIN path' = 1..n
         /\ path'[n] = r /\ \A i \in 1..(n - 1) : path'[i] = path[i]
         /\ Here' = r.node /\ \A i \in 1..n : Above(i)' = Above(i)
         /\ \A i : i = n + 1 => Above(i)' = r.node
<1> DEFINE fr == [Top EXCEPT !.dirs = Tail(@)]
           below == [stack EXCEPT ![n] = fr]
<1>1. /\ pc = "dirs" /\ Top.dirs # <<>> /\ pc' = "enter" /\ path' = Append(path, r)
      /\ stack' = Append([stack EXCEPT ![Len(stack)].dirs = Tail(@)], NewFrame)
  BY DEF Descend
<1>2. /\ stack \in Seq(Frame) /\ path \in Seq(PathEntry) /\ n = Len(path) + 1 /\ n \in DOMAIN stack
      /\ Top \in Frame /\ FrameOK(Top, Here) /\ Top.dirs \in Seq(PathEntry) /\ Top = stack[n]
  BY <1>1, WhileExploring DEF Top
<1>3. fr \in Frame /\ fr.todo = Top.todo /\ fr.dirs = Tail(Top.dirs) /\ fr.counts = Top.counts
  <2>1. Tail(Top.dirs) \in Seq(PathEntry)
    BY <1>1, <1>2
  <2> QED
    BY <1>2, <2>1 DEF Frame
<1>4. stack' = Append(below, NewFrame)
  BY <1>1, <1>2 DEF Top
<1> HIDE DEF fr
<1>5. r \in PathEntry /\ NodesIn(Top.dirs) = NodesIn(fr.dirs) \cup {r.node}
  BY <1>1, <1>2, <1>3, FrameTail
<1>6. /\ below \in Seq(Frame) /\ Len(below) = n /\ below[n] = fr
      /\ \A k \in 1..n : k # n => below[k] = stack[k]
  <2>1. DOMAIN stack = 1..n
    <3>1. stack \in Seq(Frame)
      BY <1>2
    <3>2. DOMAIN stack = 1..Len(stack)
      BY <3>1
    <3> QED
      BY <3>2
  <2>2. below \in Seq(Frame)
    BY <1>2, <1>3
  <2>3. /\ DOMAIN below = DOMAIN stack /\ below[n] = fr
        /\ \A k \in DOMAIN stack : k # n => below[k] = stack[k]
    BY <1>2, <1>3
  <2> HIDE DEF below
  <2>4. Len(below) = n
    <3>1. DOMAIN below = 1..Len(below) /\ Len(below) \in Nat
      BY <2>2
    <3> QED
      BY <2>1, <2>3, <3>1
  <2> QED
    BY <2>1, <2>2, <2>3, <2>4
<1> HIDE DEF below
<1>7. /\ DOMAIN stack' = 1..(n + 1) /\ stack'[n + 1] = NewFrame
      /\ \A k \in 1..n : stack'[k] = below[k]
  BY <1>4, <1>6, NewFrameOK
<1>8. n \in Nat /\ n >= 1 /\ DOMAIN stack = 1..n /\ n \in 1..n
  <2>1. DOMAIN stack = 1..n
    <3>1. stack \in Seq(Frame)
      BY <1>2
    <3>2. DOMAIN stack = 1..Len(stack)
      BY <3>1
    <3> QED
      BY <3>2
  <2> QED
    BY <1>2, <2>1
<1>9. /\ DOMAIN path = 1..(n - 1) /\ DOMAIN path' = 1..n /\ Len(path') = n /\ path'[n] = r
      /\ \A i \in 1..(n - 1) : path'[i] = path[i]
  BY <1>1, <1>2, <1>5
<1>10. n + 1 # 1 /\ (n + 1) - 1 = n /\ 1..(n + 1) = 1..n \cup {n + 1} /\ n + 1 \notin 1..n
       /\ \A i \in 1..n : i # 1 => i - 1 \in 1..(n - 1)
  BY <1>8
<1>11. \A i : i = n + 1 => Above(i)' = r.node
  BY <1>9, <1>10 DEF Above
<1>12. Here' = r.node
  BY <1>9, <1>10 DEF Here, Above
<1>13. \A i \in 1..n : Above(i)' = Above(i)
  BY <1>9, <1>10 DEF Above
<1>14. /\ stack'[n].todo = Top.todo /\ stack'[n].counts = Top.counts
       /\ NodesIn(Top.dirs) = NodesIn(stack'[n].dirs) \cup {r.node}
       /\ \A k \in 1..n : k # n => stack'[k] = stack[k]
  BY <1>3, <1>5, <1>6, <1>7, <1>8
<1> QED
  BY <1>2, <1>5, <1>7, <1>8, <1>9, <1>10, <1>11, <1>12, <1>13, <1>14

LEMMA LeaveFacts ==
  ASSUME Inv, Leave, Depth # 0, NEW n \in Nat, n = Len(stack), NEW m \in Nat, m = n - 1
  PROVE  /\ m \in Nat /\ m >= 1 /\ DOMAIN stack = 1..n /\ DOMAIN stack' = 1..m
         /\ 1..n = 1..m \cup {n} /\ n \notin 1..m /\ m \in 1..m /\ n # m /\ Top = stack[n]
         /\ \A k \in 1..m : k # m => stack'[k] = stack[k]
         /\ stack'[m].todo = stack[m].todo /\ stack'[m].dirs = stack[m].dirs
         /\ stack'[m].counts = Add(stack[m].counts, Top.counts)
         /\ stack[m].counts \in [CountField -> Nat] /\ Top.counts \in [CountField -> Nat]
         /\ DOMAIN path = 1..m /\ DOMAIN path' = 1..(m - 1)
         /\ \A i \in 1..(m - 1) : path'[i] = path[i]
         /\ \A i \in 1..m : Above(i)' = Above(i)
<1> DEFINE kept == SubSeq(stack, 1, m)
           fr == [stack[m] EXCEPT !.counts = Add(@, Top.counts)]
<1>1. /\ stack' = [SubSeq(stack, 1, Len(stack) - 1) EXCEPT
                     ![Len(stack) - 1].counts = Add(@, Top.counts)]
      /\ path' = SubSeq(path, 1, Len(path) - 1) /\ pc = "leave"
  BY DEF Leave
<1>2. /\ stack \in Seq(Frame) /\ path \in Seq(PathEntry) /\ n \in DOMAIN stack
      /\ n = Len(path) + 1
  BY <1>1, WhileExploring
<1>3. /\ m \in Nat /\ m >= 1 /\ n = m + 1 /\ m \in DOMAIN stack /\ DOMAIN stack = 1..n
      /\ Len(path) = m
  <2>1. stack \in Seq(Frame) /\ path \in Seq(PathEntry)
    BY <1>2
  <2>2. DOMAIN stack = 1..Len(stack) /\ Len(path) \in Nat
    BY <2>1
  <2>3. DOMAIN stack = 1..n /\ n # 1 /\ n = Len(path) + 1
    BY <1>2, <2>2 DEF Depth
  <2>4. m \in Nat /\ m >= 1 /\ n = m + 1 /\ Len(path) = m
    BY <2>2, <2>3
  <2>5. m \in 1..n
    BY <2>4
  <2> QED
    BY <2>3, <2>4, <2>5
<1>4. /\ stack[m] \in Frame /\ Top \in Frame /\ Top = stack[n]
      /\ stack[m].counts \in [CountField -> Nat] /\ Top.counts \in [CountField -> Nat]
  <2>1. Top = stack[n]
    BY DEF Top
  <2>2. stack[m] \in Frame /\ stack[n] \in Frame
    BY <1>2, <1>3
  <2>3. \A fr1 \in Frame : fr1.counts \in [CountField -> Nat]
    BY DEF Frame
  <2> QED
    BY <2>1, <2>2, <2>3
<1>5. /\ fr \in Frame /\ fr.todo = stack[m].todo /\ fr.dirs = stack[m].dirs
      /\ fr.counts = Add(stack[m].counts, Top.counts)
  <2>1. Add(stack[m].counts, Top.counts) \in [CountField -> Nat]
    BY <1>4 DEF Add
  <2> QED
    BY <1>4, <2>1 DEF Frame
<1>6. /\ kept \in Seq(Frame) /\ Len(kept) = m /\ DOMAIN kept = 1..m
      /\ \A k \in 1..m : kept[k] = stack[k]
  BY <1>2, <1>3
<1>7. stack' = [kept EXCEPT ![m] = fr]
  BY <1>1, <1>3, <1>6
<1> HIDE DEF kept, fr
<1>8. /\ DOMAIN stack' = 1..m /\ stack'[m] = fr
      /\ \A k \in 1..m : k # m => stack'[k] = stack[k]
  BY <1>3, <1>5, <1>6, <1>7
<1>9. /\ DOMAIN path = 1..m /\ DOMAIN path' = 1..(m - 1)
      /\ \A i \in 1..(m - 1) : path'[i] = path[i]
  <2>1. path \in Seq(PathEntry) /\ Len(path) = m /\ path' = SubSeq(path, 1, m - 1)
    BY <1>1, <1>2, <1>3
  <2> QED
    BY <1>3, <2>1
<1>10. /\ 1..n = 1..m \cup {n} /\ n \notin 1..m /\ m \in 1..m /\ n # m
       /\ \A i \in 1..m : i # 1 => i - 1 \in 1..(m - 1)
  BY <1>3
<1>11. \A i \in 1..m : Above(i)' = Above(i)
  BY <1>9, <1>10 DEF Above
<1> QED
  BY <1>3, <1>4, <1>5, <1>8, <1>9, <1>10, <1>11

-----------------------------------------------------------------------------
(* What the exploration has left behind. *)

\* e has been visited, in one of the directories that have been listed, or it never
\* will be.
Past(e) ==
  /\ \A l \in DOMAIN stack : e \notin stack[l].todo /\ Ancestors[e] \cap Listing(stack[l]) = {}
  /\ pc = "enter" => Here \notin Ancestors[e]

LEMMA PastFewer ==
  ASSUME DOMAIN stack' \subseteq DOMAIN stack,
         \A k \in DOMAIN stack' : /\ stack'[k].todo \subseteq stack[k].todo
                                  /\ Listing(stack'[k]) \subseteq Listing(stack[k]),
         pc' # "enter" \/ (pc' = pc /\ path' = path)
  PROVE  \A e : Past(e) => Past(e)'
<1>1. pc' = "enter" => pc = "enter" /\ Here' = Here
  BY DEF Here, Above
<1> QED
  BY <1>1 DEF Past

LEMMA EnterPast ==
  ASSUME Inv, Enter
  PROVE  \A e \in Entry : Past(e) => Past(e)'
<1> SUFFICES ASSUME NEW e \in Entry, Past(e) PROVE Past(e)'
  OBVIOUS
<1> DEFINE n == Len(stack)
<1>1. /\ n \in DOMAIN stack /\ DOMAIN stack' = DOMAIN stack
      /\ \A k \in DOMAIN stack : k # n => stack'[k] = stack[k]
      /\ \/ pc' = "leave" /\ UNCHANGED stack
         \/ pc' = "entries" /\ stack'[n].todo = Children(Here) /\ Listing(stack'[n]) = Children(Here)
  BY EnterFacts
<1> HIDE DEF n
<1>2. pc = "enter" /\ path' = path /\ Here \in Entry \cup {Root}
  <2>1. pc = "enter" /\ path' = path
    BY DEF Enter
  <2> QED
    BY <2>1, WhileExploring
<1>3. Here \notin Ancestors[e]
  BY <1>2 DEF Past
<1>4. e \notin Children(Here)
  BY <1>3, AncestorsStep DEF Children
<1>5. ASSUME NEW x \in Ancestors[e] PROVE x \notin Children(Here)
  BY <1>3, <1>5, AncestorsClosed, TraversalAssumption DEF Children
<1> QED
  BY <1>1, <1>4, <1>5 DEF Past

LEMMA DescendPast ==
  ASSUME Inv, Descend
  PROVE  \A e : Past(e) => Past(e)'
<1> SUFFICES ASSUME NEW e, Past(e) PROVE Past(e)'
  OBVIOUS
<1> DEFINE n == Len(stack)
           r == Head(Top.dirs)
<1>1. /\ DOMAIN stack = 1..n /\ DOMAIN stack' = 1..(n + 1) /\ 1..(n + 1) = 1..n \cup {n + 1}
      /\ n \in 1..n /\ Top = stack[n] /\ NodesIn(Top.dirs) = NodesIn(stack'[n].dirs) \cup {r.node}
      /\ stack'[n + 1] = NewFrame /\ \A k \in 1..n : k # n => stack'[k] = stack[k]
      /\ stack'[n].todo = Top.todo /\ Here' = r.node
  BY DescendFacts, LengthIsNatural
<1> HIDE DEF n, r
<1>2. NewFrame.todo = {} /\ Listing(NewFrame) = {}
  BY NewFrameOK DEF NewFrame
<1>3. r.node \in Listing(stack[n])
  BY <1>1 DEF Listing
<1>4. \A k \in 1..n : stack'[k].todo = stack[k].todo /\ Listing(stack'[k]) \subseteq Listing(stack[k])
  BY <1>1 DEF Listing
<1>5. Here' \notin Ancestors[e]
  BY <1>1, <1>3 DEF Past
<1>6. \A l \in 1..(n + 1) : e \notin stack'[l].todo /\ Ancestors[e] \cap Listing(stack'[l]) = {}
  BY <1>1, <1>2, <1>4 DEF Past
<1> QED
  BY <1>1, <1>5, <1>6 DEF Past

\* What is visited is past: it is below the path, and nothing of the path is ahead.
LEMMA VisitedPast ==
  ASSUME Inv, pc = "entries", UNCHANGED <<pc, path>>, NEW e \in Top.todo,
         NEW counts, NEW dirs, Visited(e, counts, dirs), NodesIn(dirs) \subseteq Listing(Top)
  PROVE  /\ \A x : Past(x) => Past(x)'
         /\ Past(e)'
         /\ ~ Past(e)
<1> DEFINE n == Len(stack)
<1>1. /\ n \in DOMAIN stack /\ Top = stack[n] /\ DOMAIN stack' = DOMAIN stack
      /\ \A k \in DOMAIN stack : k # n => stack'[k] = stack[k]
      /\ stack'[n].todo = Top.todo \ {e} /\ stack'[n].dirs = dirs
  BY VisitedFacts
<1>2. /\ stack \in Seq(Frame) /\ path \in Seq(PathEntry) /\ PathOK /\ StackOK
      /\ n = Len(path) + 1 /\ FrameOK(Top, Here)
  BY WhileExploring
<1>3. e \in Entry /\ Parent[e] = Here
  BY <1>2 DEF FrameOK, Listing, Children
<1>4. \A k \in DOMAIN stack : k # n => stack[k].todo = {}
  BY <1>2 DEF StackOK
<1> HIDE DEF n
<1>5. \A k \in DOMAIN stack : /\ stack'[k].todo \subseteq stack[k].todo
                              /\ Listing(stack'[k]) \subseteq Listing(stack[k])
  BY <1>1 DEF Listing
<1>6. \A x : Past(x) => Past(x)'
  BY <1>1, <1>5, PastFewer
<1>7. \A k \in DOMAIN stack : Ancestors[e] \cap Listing(stack[k]) = {}
  <2>1. Ancestors[e] = {Above(j) : j \in 1..(Len(path) + 1)}
    BY <1>2, <1>3, AncestorsStep, PathSize
  <2>2. \A k \in DOMAIN stack : \A j \in 1..(Len(path) + 1) : Above(j) \notin Listing(stack[k])
    BY <1>2, PathNotBefore DEF n
  <2> QED
    BY <2>1, <2>2
<1>8. \A k \in DOMAIN stack : e \notin stack'[k].todo
  BY <1>1, <1>4
<1> QED
  BY <1>1, <1>5, <1>6, <1>7, <1>8 DEF Past

-----------------------------------------------------------------------------
(* The counts.  Each activation has counted a set of entries of its own, and *)
(* what it counted cannot be met again.                                      *)

\* The counts that a visit raises.
CountedIn(e, how) ==
  IF how = "skipped" THEN IF e \in Dir THEN {"skippedDirs"} ELSE {"skippedFiles"}
  ELSE IF how = "explored" THEN IF e \in Dir THEN {"totalDirs"} ELSE {}
  ELSE IF how = "processed"
       THEN IF e \in Dir THEN {"totalDirs", "processedDirs"} ELSE {"totalFiles", "processedFiles"}
  ELSE {}

CountsAre(c, X)   == \A f \in CountField : c[f] = Cardinality(Tallied[f] \cap X)
CountsAfter(c, X) == \A f \in CountField : c[f] = Cardinality(Tallied[f]' \cap X)

Counting(C) ==
  /\ C \in [DOMAIN stack -> SUBSET Entry]
  /\ \A k, l \in DOMAIN stack : k # l => C[k] \cap C[l] = {}
  /\ \A k \in DOMAIN stack : CountsAre(stack[k].counts, C[k]) /\ \A e \in C[k] : Past(e)
  /\ \A e \in Entry : outcome[e] # "unseen" => \E k \in DOMAIN stack : e \in C[k]

\* What was processed is in the graph, and no other file is.
Emitting ==
  /\ EmittedFiles = Tallied["processedFiles"]
  /\ Tallied["processedDirs"] \subseteq Nodes(emitted)

CountInv == Emitting /\ \E C : Counting(C)

LEMMA TalliedIs ==
  ASSUME NEW f \in CountField
  PROVE  /\ Tallied[f] = {e \in Entry : f \in CountedIn(e, outcome[e])}
         /\ Tallied[f]' = {e \in Entry : f \in CountedIn(e, outcome'[e])}
<1> DEFINE P == /\ Tallied[f] = {e \in Entry : f \in CountedIn(e, outcome[e])}
                /\ Tallied[f]' = {e \in Entry : f \in CountedIn(e, outcome'[e])}
<1>1. Dir \subseteq Entry
  BY TraversalAssumption
<1>2. CASE f = "totalFiles"
  BY <1>1, <1>2 DEF Tallied, CountedIn
<1>3. CASE f = "skippedFiles"
  BY <1>1, <1>3 DEF Tallied, CountedIn
<1>4. CASE f = "processedFiles"
  BY <1>1, <1>4 DEF Tallied, CountedIn
<1>5. CASE f = "totalDirs"
  BY <1>1, <1>5 DEF Tallied, CountedIn
<1>6. CASE f = "skippedDirs"
  BY <1>1, <1>6 DEF Tallied, CountedIn
<1>7. CASE f = "processedDirs"
  BY <1>1, <1>7 DEF Tallied, CountedIn
<1> HIDE DEF P
<1> QED
  BY <1>2, <1>3, <1>4, <1>5, <1>6, <1>7 DEF CountField, P

LEMMA TalliedFinite ==
  ASSUME NEW f \in CountField, NEW X
  PROVE  IsFiniteSet(Tallied[f] \cap X) /\ Cardinality(Tallied[f] \cap X) \in Nat
<1>1. Tallied[f] \cap X \in SUBSET Entry
  BY TalliedIs
<1>2. IsFiniteSet(Tallied[f] \cap X)
  BY <1>1, TraversalAssumption, FS_Subset
<1> QED
  BY <1>2, FS_CardinalityType

\* The visit of an entry that was not seen before puts it under its counts.
LEMMA TalliedStep ==
  ASSUME outcome \in [Entry -> Outcome], NEW e \in Entry, outcome[e] = "unseen",
         NEW how, Decided(e, how), NEW f \in CountField
  PROVE  /\ e \notin Tallied[f]
         /\ Tallied[f]' = IF f \in CountedIn(e, how) THEN Tallied[f] \cup {e} ELSE Tallied[f]
<1>1. outcome' = [outcome EXCEPT ![e] = how] /\ outcome'[e] = how
  BY DEF Decided
<1>2. \A x \in Entry : x # e => outcome'[x] = outcome[x]
  BY <1>1
<1>3. /\ Tallied[f] = {x \in Entry : f \in CountedIn(x, outcome[x])}
      /\ Tallied[f]' = {x \in Entry : f \in CountedIn(x, outcome'[x])}
  BY TalliedIs
<1>4. f \notin CountedIn(e, outcome[e])
  BY DEF CountedIn
<1> QED
  BY <1>1, <1>2, <1>3, <1>4

LEMMA NoneCounted == CountsAre(NoCounts, {})
<1>1. \A f \in CountField : Tallied[f] \cap {} = {} /\ NoCounts[f] = 0
  BY DEF NoCounts
<1> QED
  BY <1>1, FS_EmptySet DEF CountsAre

LEMMA CardinalityJoins ==
  ASSUME NEW S, NEW T, IsFiniteSet(S), IsFiniteSet(T), S \cap T = {}
  PROVE  Cardinality(S \cup T) = Cardinality(S) + Cardinality(T)
<1>1. Cardinality(S \cup T) = Cardinality(S) + Cardinality(T) - Cardinality(S \cap T)
  BY FS_Union
<1>2. Cardinality(S \cap T) = 0
  BY FS_EmptySet
<1>3. Cardinality(S) \in Nat /\ Cardinality(T) \in Nat
  BY FS_CardinalityType
<1> QED
  BY <1>1, <1>2, <1>3

\* The counts of two activations are those of what they have counted together.
LEMMA CountsAdd ==
  ASSUME NEW c \in [CountField -> Nat], NEW d \in [CountField -> Nat],
         NEW X, NEW Y, X \cap Y = {}, CountsAre(c, X), CountsAre(d, Y)
  PROVE  CountsAre(Add(c, d), X \cup Y)
<1>1. \A f \in CountField : Add(c, d)[f] = c[f] + d[f]
  BY DEF Add
<1>2. ASSUME NEW f \in CountField
      PROVE  Cardinality(Tallied[f] \cap (X \cup Y))
               = Cardinality(Tallied[f] \cap X) + Cardinality(Tallied[f] \cap Y)
  <2>1. /\ Tallied[f] \cap (X \cup Y) = (Tallied[f] \cap X) \cup (Tallied[f] \cap Y)
        /\ (Tallied[f] \cap X) \cap (Tallied[f] \cap Y) = {}
    OBVIOUS
  <2>2. IsFiniteSet(Tallied[f] \cap X) /\ IsFiniteSet(Tallied[f] \cap Y)
    BY TalliedFinite
  <2> QED
    BY <2>1, <2>2, CardinalityJoins
<1> QED
  BY <1>1, <1>2 DEF CountsAre

\* What has been counted before the visit of e, and with it.
LEMMA CountsBump ==
  ASSUME outcome \in [Entry -> Outcome], NEW e \in Entry, outcome[e] = "unseen",
         NEW how, Decided(e, how), NEW c \in [CountField -> Nat], NEW X, e \notin X,
         CountsAre(c, X)
  PROVE  /\ CountsAfter(c, X)
         /\ CountsAfter(Bump(c, CountedIn(e, how)), X \cup {e})
<1> DEFINE b == Bump(c, CountedIn(e, how))
<1>1. \A f \in CountField : b[f] = IF f \in CountedIn(e, how) THEN c[f] + 1 ELSE c[f]
  BY DEF Bump
<1> HIDE DEF b
<1>2. ASSUME NEW f \in CountField
      PROVE  /\ c[f] = Cardinality(Tallied[f]' \cap X)
             /\ b[f] = Cardinality(Tallied[f]' \cap (X \cup {e}))
  <2>1. /\ e \notin Tallied[f]
        /\ Tallied[f]' = IF f \in CountedIn(e, how) THEN Tallied[f] \cup {e} ELSE Tallied[f]
    BY TalliedStep
  <2>2. c[f] = Cardinality(Tallied[f] \cap X) /\ Tallied[f]' \cap X = Tallied[f] \cap X
    BY <2>1 DEF CountsAre
  <2>3. CASE f \in CountedIn(e, how)
    <3>1. Tallied[f]' \cap (X \cup {e}) = (Tallied[f] \cap X) \cup {e}
      BY <2>1, <2>3
    <3>2. IsFiniteSet(Tallied[f] \cap X) /\ e \notin Tallied[f] \cap X
      BY TalliedFinite
    <3>3. Cardinality((Tallied[f] \cap X) \cup {e}) = Cardinality(Tallied[f] \cap X) + 1
      BY <3>2, FS_AddElement
    <3> QED
      BY <1>1, <2>2, <2>3, <3>1, <3>3
  <2>4. CASE f \notin CountedIn(e, how)
    <3>1. Tallied[f]' \cap (X \cup {e}) = Tallied[f] \cap X
      BY <2>1, <2>4
    <3> QED
      BY <1>1, <2>2, <2>4, <3>1
  <2> QED
    BY <2>3, <2>4
<1>3. CountsAfter(c, X) /\ CountsAfter(b, X \cup {e})
  BY <1>2 DEF CountsAfter
<1> QED
  BY <1>3 DEF b

\* Nothing is counted, and no more is before the exploration than was.
LEMMA CountedLater ==
  ASSUME CountInv, UNCHANGED <<emitted, outcome>>, DOMAIN stack' = DOMAIN stack,
         \A k \in DOMAIN stack : stack'[k].counts = stack[k].counts,
         \A e \in Entry : Past(e) => Past(e)'
  PROVE  CountInv'
<1>1. PICK C : Counting(C)
  BY DEF CountInv
<1>2. Tallied' = Tallied /\ Emitting'
  BY DEF CountInv, Emitting, EmittedFiles, Nodes, Tallied
<1>3. \A k \in DOMAIN stack : \A e \in C[k] : Past(e)'
  BY <1>1 DEF Counting
<1>4. \A k \in DOMAIN stack : CountsAfter(stack'[k].counts, C[k])
  BY <1>1, <1>2 DEF Counting, CountsAre, CountsAfter
<1>5. Counting(C)'
  BY <1>1, <1>3, <1>4 DEF Counting, CountsAre, CountsAfter
<1> QED
  BY <1>2, <1>5 DEF CountInv

\* The element is a new node, and the path has directories only.
LEMMA ElementEmitted ==
  ASSUME Inv, pc = "entries", NEW e \in Top.todo, NEW rs, Due(e, rs), AddPathToGraph(e, rs),
         UNCHANGED shareList
  PROVE  /\ Nodes(emitted) \cup {e} \subseteq Nodes(emitted)'
         /\ EmittedFiles' = EmittedFiles \cup ({e} \ Dir)
<1>1. /\ shareList \in Lists \cup {Unreadable} /\ path \in Seq(PathEntry) /\ PathOK
      /\ Len(stack) \in DOMAIN stack /\ FrameOK(Top, Here)
  BY WhileExploring
<1>2. e \in Entry /\ Parent[e] = Here /\ e # Nil
  BY <1>1, TraversalAssumption DEF FrameOK, Listing, Children
<1>3. e \in Dir \/ e \notin Nodes(emitted)
  <2>1. e \in Listing(stack[Len(stack)])
    BY DEF Listing, Top
  <2> QED
    BY <1>1, <1>2, <2>1 DEF Inv, FreshOK, Apart, EmittedFiles
<1>4. Nodes(emitted)' = Nodes(emitted) \cup {Host, Root} \cup PathNodes \cup ({e} \cap Entry)
  BY <1>1, <1>2, <1>3, AddElement DEF Inv
<1>5. PathNodes \subseteq Dir
  BY <1>1, AboveType DEF PathNodes
<1> QED
  BY <1>2, <1>4, <1>5, TraversalAssumption DEF EmittedFiles

\* An entry has been visited, counted by what was decided of it, and emitted if it
\* is processed.
LEMMA VisitCounted ==
  ASSUME Inv, CountInv, pc = "entries", UNCHANGED <<shareList, pc, path>>, NEW e \in Top.todo,
         NEW how \in Outcome, Decided(e, how), NEW dirs,
         Visited(e, Bump(Top.counts, CountedIn(e, how)), dirs),
         NodesIn(dirs) \subseteq Listing(Top), e \notin Dir => how # "explored",
         NEW rs, Due(e, rs),
         IF how = "processed" THEN AddPathToGraph(e, rs) ELSE UNCHANGED emitted
  PROVE  CountInv'
<1> DEFINE n == Len(stack)
           c == Bump(Top.counts, CountedIn(e, how))
<1>1. /\ n \in DOMAIN stack /\ stack[n] = Top /\ DOMAIN stack' = DOMAIN stack
      /\ \A k \in DOMAIN stack : k # n => stack'[k] = stack[k]
      /\ stack'[n].counts = c
  BY VisitedFacts
<1>2. e \in Entry /\ outcome \in [Entry -> Outcome] /\ Top.counts \in [CountField -> Nat]
  BY WhileExploring DEF FrameOK, Listing, Children, Inv, TypeOK
<1>3. /\ \A x : Past(x) => Past(x)'
      /\ Past(e)' /\ ~ Past(e)
  BY VisitedPast
<1>4. PICK C : Counting(C)
  BY DEF CountInv
<1>5. \A k \in DOMAIN stack : e \notin C[k]
  BY <1>3, <1>4 DEF Counting
<1>6. outcome[e] = "unseen"
  BY <1>2, <1>4, <1>5 DEF Counting
<1> HIDE DEF n, c
<1>7. PICK D : /\ D \in [DOMAIN stack -> SUBSET Entry] /\ D[n] = C[n] \cup {e}
               /\ \A k \in DOMAIN stack : k # n => D[k] = C[k]
  <2> DEFINE G == [C EXCEPT ![n] = @ \cup {e}]
  <2>1. /\ G \in [DOMAIN stack -> SUBSET Entry] /\ G[n] = C[n] \cup {e}
        /\ \A k \in DOMAIN stack : k # n => G[k] = C[k]
    BY <1>1, <1>2, <1>4 DEF Counting
  <2> QED
    BY <2>1
<1>8. \A k, l \in DOMAIN stack : k # l => D[k] \cap D[l] = {}
  BY <1>4, <1>5, <1>7 DEF Counting
<1>9. ASSUME NEW k \in DOMAIN stack
      PROVE  CountsAfter(stack'[k].counts, D[k]) /\ \A x \in D[k] : Past(x)'
  <2>1. stack[k].counts \in [CountField -> Nat] /\ CountsAre(stack[k].counts, C[k])
    <3>1. stack \in Seq(Frame)
      BY DEF Inv, TypeOK
    <3>2. stack[k] \in Frame
      BY <3>1
    <3> QED
      BY <1>4, <3>2 DEF Counting, Frame
  <2>2. CountsAfter(stack[k].counts, C[k]) /\ (k = n => CountsAfter(c, C[k] \cup {e}))
    <3> DEFINE d == stack[k].counts
               X == C[k]
    <3>1. d \in [CountField -> Nat] /\ CountsAre(d, X) /\ e \notin X
      BY <1>5, <2>1
    <3> QED
      BY <1>1, <1>2, <1>6, <3>1, CountsBump DEF c
  <2> QED
    BY <1>1, <1>3, <1>4, <1>7, <2>2 DEF Counting
<1>10. ASSUME NEW x \in Entry, outcome'[x] # "unseen" PROVE \E k \in DOMAIN stack : x \in D[k]
  BY <1>1, <1>2, <1>4, <1>7, <1>10 DEF Counting, Decided
<1>11. Counting(D)'
  BY <1>1, <1>7, <1>8, <1>9, <1>10 DEF Counting, CountsAre, CountsAfter
<1>12. Emitting'
  <2>1. {"processedFiles", "processedDirs"} \subseteq CountField
    BY DEF CountField
  <2>2. \A f \in CountField :
          Tallied[f]' = IF f \in CountedIn(e, how) THEN Tallied[f] \cup {e} ELSE Tallied[f]
    BY <1>2, <1>6, TalliedStep
  <2>3. /\ "processedFiles" \in CountedIn(e, how) <=> how = "processed" /\ e \notin Dir
        /\ "processedDirs" \in CountedIn(e, how) <=> how = "processed" /\ e \in Dir
    BY DEF CountedIn
  <2>4. CASE how = "processed"
    <3>1. /\ Nodes(emitted) \cup {e} \subseteq Nodes(emitted)'
          /\ EmittedFiles' = EmittedFiles \cup ({e} \ Dir)
      BY <2>4, ElementEmitted
    <3> QED
      BY <2>1, <2>2, <2>3, <2>4, <3>1 DEF CountInv, Emitting
  <2>5. CASE how # "processed"
    <3>1. Nodes(emitted)' = Nodes(emitted) /\ EmittedFiles' = EmittedFiles
      BY <2>5 DEF Nodes, EmittedFiles
    <3> QED
      BY <2>1, <2>2, <2>3, <2>5, <3>1 DEF CountInv, Emitting
  <2> QED
    BY <2>4, <2>5
<1> QED
  BY <1>11, <1>12 DEF CountInv

LEMMA VisitDirectoryCount ==
  ASSUME Inv, CountInv, NEW d \in Dir, VisitDirectory(d)
  PROVE  CountInv'
<1> DEFINE more == Append(Top.dirs, [node |-> d, rights |-> Ntfs[d]])
           Counted(how) == Bump(Top.counts, CountedIn(d, how))
<1>1. /\ pc = "entries" /\ d \in Top.todo /\ d \in Dir
      /\ UNCHANGED <<shareList, pc, path>>
      /\ \/ /\ Visited(d, Bump(Top.counts, {"skippedDirs"}), Top.dirs)
            /\ Decided(d, "skipped") /\ UNCHANGED graphVars
         \/ /\ Visited(d, Bump(Top.counts, {"totalDirs"}), more)
            /\ Decided(d, "explored") /\ UNCHANGED graphVars
         \/ /\ Visited(d, Bump(Top.counts, {"totalDirs", "processedDirs"}), more)
            /\ Decided(d, "processed") /\ AddPathToGraph(d, Ntfs[d])
  BY DEF VisitDirectory
<1>2. /\ shareList \in Lists \cup {Unreadable} /\ Top \in Frame /\ FrameOK(Top, Here)
      /\ Top.counts \in [CountField -> Nat]
  BY <1>1, WhileExploring
<1>3. NodesIn(Top.dirs) \subseteq Listing(Top) /\ NodesIn(more) \subseteq Listing(Top)
  <2>1. Top.todo \ {d} \subseteq Top.todo /\ d \in Top.todo \cap Dir
    BY <1>1
  <2> DEFINE g == [todo |-> Top.todo \ {d}, dirs |-> more]
  <2>2. g.todo = Top.todo \ {d} /\ g.dirs = more
    OBVIOUS
  <2> HIDE DEF g
  <2>3. NodesIn(g.dirs) = NodesIn(Top.dirs) \cup {d}
    BY <1>2, <2>1, <2>2, FrameMore
  <2> QED
    BY <2>1, <2>2, <2>3 DEF Listing
<1> HIDE DEF more
<1>4. PICK how \in Outcome, dirs \in {Top.dirs, more} :
        /\ Visited(d, Counted(how), dirs) /\ Decided(d, how)
        /\ IF how = "processed" THEN AddPathToGraph(d, Ntfs[d]) ELSE UNCHANGED emitted
  BY <1>1 DEF CountedIn, Outcome, graphVars
<1>5. NodesIn(dirs) \subseteq Listing(Top) /\ Due(d, Ntfs[d])
  BY <1>1, <1>2, <1>3, <1>4, DirectoryDue
<1> QED
  BY <1>1, <1>4, <1>5, VisitCounted

LEMMA VisitFileCount ==
  ASSUME Inv, CountInv, NEW f \in Entry, VisitFile(f)
  PROVE  CountInv'
<1> DEFINE rs == IF Ntfs[f] = <<>> THEN Inherited ELSE Ntfs[f]
           Counted(how) == Bump(Top.counts, CountedIn(f, how))
<1>1. /\ pc = "entries" /\ f \in Top.todo /\ f \notin Dir
      /\ UNCHANGED <<shareList, pc, path>>
      /\ \/ /\ Visited(f, Bump(Top.counts, {"skippedFiles"}), Top.dirs)
            /\ Decided(f, "skipped") /\ UNCHANGED graphVars
         \/ /\ Visited(f, Bump(Top.counts, {"totalFiles", "processedFiles"}), Top.dirs)
            /\ Decided(f, "processed") /\ AddPathToGraph(f, rs)
  BY DEF VisitFile
<1>2. /\ stack \in Seq(Frame) /\ path \in Seq(PathEntry) /\ shareList \in Lists \cup {Unreadable}
      /\ Top \in Frame /\ FrameOK(Top, Here) /\ PathOK /\ StackOK /\ Len(stack) = Len(path) + 1
  BY <1>1, WhileExploring
<1>3. Due(f, rs)
  <2>1. f \in Entry \ Dir /\ Parent[f] = Here
    BY <1>1, <1>2 DEF FrameOK, Listing, Children
  <2> QED
    BY <1>1, <1>2, <2>1, FileDue
<1> HIDE DEF rs
<1>4. NodesIn(Top.dirs) \subseteq Listing(Top)
  BY DEF Listing
<1>5. PICK how \in Outcome :
        /\ how # "explored" /\ Visited(f, Counted(how), Top.dirs) /\ Decided(f, how)
        /\ IF how = "processed" THEN AddPathToGraph(f, rs) ELSE UNCHANGED emitted
  BY <1>1 DEF CountedIn, Outcome, graphVars
<1> QED
  BY <1>1, <1>3, <1>4, <1>5, VisitCounted

LEMMA InitCount == Init => CountInv
<1> SUFFICES ASSUME Init PROVE CountInv
  OBVIOUS
<1>1. stack = <<>> /\ EmittedFiles = {}
  BY NothingGood DEF Init, EmittedFiles
<1>2. \A e \in Entry : outcome[e] = "unseen"
  BY DEF Init
<1>3. Emitting
  BY <1>1, <1>2, TraversalAssumption DEF Emitting, Tallied
<1>4. Counting([k \in DOMAIN stack |-> {}])
  BY <1>1, <1>2 DEF Counting
<1> QED
  BY <1>3, <1>4 DEF CountInv

LEMMA StartCount == Inv /\ CountInv /\ Start => CountInv'
<1> SUFFICES ASSUME Inv, CountInv, Start PROVE CountInv'
  OBVIOUS
<1> DEFINE C == [k \in {1} |-> {}]
<1>1. /\ pc = "start" /\ stack = <<>> /\ path = <<>> /\ emitted = <<>> /\ shareList' = shareList
      /\ stack' = <<NewFrame>> /\ outcome' = outcome
      /\ UNCHANGED graphVars \/ AddPathToGraph(Nil, <<>>)
  BY DEF Start, Inv, ShapeOK
<1>2. DOMAIN stack' = {1} /\ stack'[1].counts = NoCounts
  BY <1>1 DEF NewFrame
<1>3. Nodes(emitted)' \subseteq {Host, Root}
  <2>1. Nodes(emitted) = {} /\ PathNodes = {} /\ Nil \notin Entry
    BY <1>1, NothingGood, TraversalAssumption DEF PathNodes
  <2>2. CASE UNCHANGED graphVars
    BY <2>1, <2>2 DEF Nodes, graphVars
  <2>3. CASE AddPathToGraph(Nil, <<>>)
    <3>1. Nodes(emitted)' = Nodes(emitted) \cup {Host, Root} \cup PathNodes \cup ({Nil} \cap Entry)
      BY <1>1, <2>3, AddElement DEF Inv, TypeOK
    <3> QED
      BY <2>1, <3>1
  <2> QED
    BY <1>1, <2>2, <2>3
<1>4. EmittedFiles' = {}
  BY <1>3, TraversalAssumption DEF EmittedFiles
<1>5. C \in [{1} -> SUBSET Entry] /\ C[1] = {}
  OBVIOUS
<1> HIDE DEF C
<1>6. \A e \in Entry : outcome'[e] = "unseen"
  BY <1>1 DEF CountInv, Counting
<1>7. Emitting'
  BY <1>4, <1>6, TraversalAssumption DEF Emitting, Tallied
<1>8. CountsAfter(NoCounts, {})
  BY FS_EmptySet DEF CountsAfter, NoCounts
<1>9. Counting(C)'
  BY <1>2, <1>5, <1>6, <1>8 DEF Counting, CountsAre, CountsAfter
<1> QED
  BY <1>7, <1>9 DEF CountInv

LEMMA EnterCount == Inv /\ CountInv /\ Enter => CountInv'
<1> SUFFICES ASSUME Inv, CountInv, Enter PROVE CountInv'
  OBVIOUS
<1>1. UNCHANGED <<emitted, outcome>>
  BY DEF Enter, graphVars
<1>2. DOMAIN stack' = DOMAIN stack /\ \A k \in DOMAIN stack : stack'[k].counts = stack[k].counts
  BY EnterFacts
<1> QED
  BY <1>1, <1>2, EnterPast, CountedLater

LEMMA EndEntriesCount == Inv /\ CountInv /\ EndEntries => CountInv'
<1> SUFFICES ASSUME Inv, CountInv, EndEntries PROVE CountInv'
  OBVIOUS
<1> DEFINE n == Len(stack)
<1>1. /\ n \in DOMAIN stack /\ Top = stack[n] /\ DOMAIN stack' = DOMAIN stack
      /\ \A k \in DOMAIN stack : k # n => stack'[k] = stack[k]
      /\ stack'[n].todo = {} /\ stack'[n].dirs = Top.dirs /\ stack'[n].counts = Top.counts
  BY EndEntriesFacts
<1> HIDE DEF n
<1>2. \A k \in DOMAIN stack : /\ stack'[k].todo \subseteq stack[k].todo
                              /\ Listing(stack'[k]) \subseteq Listing(stack[k])
  BY <1>1 DEF Listing
<1>3. \A k \in DOMAIN stack : stack'[k].counts = stack[k].counts
  BY <1>1
<1>4. UNCHANGED <<emitted, outcome>> /\ pc' # "enter"
  BY DEF EndEntries, graphVars
<1>5. \A e : Past(e) => Past(e)'
  BY <1>1, <1>2, <1>4, PastFewer
<1> QED
  BY <1>1, <1>3, <1>4, <1>5, CountedLater

LEMMA DescendCount == Inv /\ CountInv /\ Descend => CountInv'
<1> SUFFICES ASSUME Inv, CountInv, Descend PROVE CountInv'
  OBVIOUS
<1> DEFINE n == Len(stack)
<1>1. /\ DOMAIN stack = 1..n /\ DOMAIN stack' = 1..(n + 1) /\ 1..(n + 1) = 1..n \cup {n + 1}
      /\ n + 1 \notin 1..n /\ n \in 1..n /\ Top = stack[n]
      /\ stack'[n + 1] = NewFrame /\ \A k \in 1..n : k # n => stack'[k] = stack[k]
      /\ stack'[n].counts = Top.counts
  BY DescendFacts, LengthIsNatural
<1> HIDE DEF n
<1>2. NewFrame.counts = NoCounts
  BY DEF NewFrame
<1>3. \A k \in 1..n : stack'[k].counts = stack[k].counts
  BY <1>1
<1>4. outcome' = outcome /\ Tallied' = Tallied /\ Emitting'
  BY DEF CountInv, Emitting, EmittedFiles, Nodes, Tallied, Descend, graphVars
<1>5. PICK C : Counting(C)
  BY DEF CountInv
<1>6. PICK D : /\ D \in [1..(n + 1) -> SUBSET Entry] /\ D[n + 1] = {}
               /\ \A k \in 1..n : D[k] = C[k]
  <2> DEFINE G == [k \in 1..(n + 1) |-> IF k = n + 1 THEN {} ELSE C[k]]
  <2>1. /\ G \in [1..(n + 1) -> SUBSET Entry] /\ G[n + 1] = {} /\ \A k \in 1..n : G[k] = C[k]
    BY <1>1, <1>5 DEF Counting
  <2> QED
    BY <2>1
<1>7. \A k, l \in 1..(n + 1) : k # l => D[k] \cap D[l] = {}
  BY <1>1, <1>5, <1>6 DEF Counting
<1>8. ASSUME NEW k \in 1..(n + 1)
      PROVE  CountsAfter(stack'[k].counts, D[k]) /\ \A e \in D[k] : Past(e)'
  <2>1. CASE k \in 1..n
    BY <1>1, <1>3, <1>4, <1>5, <1>6, <2>1, DescendPast DEF Counting, CountsAre, CountsAfter
  <2>2. CASE k = n + 1
    BY <1>1, <1>2, <1>4, <1>6, <2>2, NoneCounted DEF CountsAre, CountsAfter
  <2> QED
    BY <1>1, <2>1, <2>2
<1>9. \A e \in Entry : outcome'[e] # "unseen" => \E k \in 1..(n + 1) : e \in D[k]
  BY <1>1, <1>4, <1>5, <1>6 DEF Counting
<1>10. Counting(D)'
  <2>1. D \in [DOMAIN stack' -> SUBSET Entry]
    BY <1>1, <1>6
  <2> QED
    BY <1>1, <1>7, <1>8, <1>9, <2>1 DEF Counting, CountsAre, CountsAfter
<1> QED
  BY <1>4, <1>10 DEF CountInv

LEMMA LeaveCount == Inv /\ CountInv /\ Leave => CountInv'
<1> SUFFICES ASSUME Inv, CountInv, Leave PROVE CountInv'
  OBVIOUS
<1>1. UNCHANGED <<emitted, outcome>> /\ pc' # "enter"
  BY DEF Leave, graphVars
<1>2. CASE Depth = 0
  <2>1. UNCHANGED stack
    BY <1>2 DEF Leave
  <2>2. \A e : Past(e) => Past(e)'
    BY <1>1, <2>1, PastFewer
  <2> QED
    BY <1>1, <2>1, <2>2, CountedLater
<1>3. CASE Depth # 0
  <2> DEFINE n == Len(stack)
             m == n - 1
  <2>0. n \in Nat /\ m \in Nat /\ n = Len(stack) /\ m = n - 1
    BY <1>3, LengthIsNatural DEF Leave
  <2> HIDE DEF n, m
  <2>1. /\ DOMAIN stack = 1..n /\ DOMAIN stack' = 1..m
        /\ 1..n = 1..m \cup {n} /\ n \notin 1..m /\ m \in 1..m /\ n # m /\ Top = stack[n]
        /\ \A k \in 1..m : k # m => stack'[k] = stack[k]
        /\ stack'[m].todo = stack[m].todo /\ stack'[m].dirs = stack[m].dirs
        /\ stack'[m].counts = Add(stack[m].counts, Top.counts)
        /\ stack[m].counts \in [CountField -> Nat] /\ Top.counts \in [CountField -> Nat]
    BY <1>3, <2>0, LeaveFacts
  <2>2. \A e : Past(e) => Past(e)'
    <3>1. \A k \in 1..m : stack'[k].todo = stack[k].todo /\ Listing(stack'[k]) = Listing(stack[k])
      BY <2>1 DEF Listing
    <3> QED
      BY <1>1, <2>1, <3>1, PastFewer
  <2>3. Tallied' = Tallied /\ Emitting'
    BY <1>1 DEF CountInv, Emitting, EmittedFiles, Nodes, Tallied
  <2>4. PICK C : Counting(C)
    BY DEF CountInv
  <2>5. PICK D : /\ D \in [1..m -> SUBSET Entry] /\ D[m] = C[m] \cup C[n]
                 /\ \A k \in 1..m : k # m => D[k] = C[k]
    <3> DEFINE G == [k \in 1..m |-> IF k = m THEN C[m] \cup C[n] ELSE C[k]]
    <3>1. /\ G \in [1..m -> SUBSET Entry] /\ G[m] = C[m] \cup C[n]
          /\ \A k \in 1..m : k # m => G[k] = C[k]
      BY <2>1, <2>4 DEF Counting
    <3> QED
      BY <3>1
  <2>6. \A k, l \in 1..m : k # l => D[k] \cap D[l] = {}
    <3>1. \A k, l \in 1..n : k # l => C[k] \cap C[l] = {}
      BY <2>1, <2>4 DEF Counting
    <3>2. \A l \in 1..m : l # m => l # n /\ l \in 1..n /\ m \in 1..n /\ n \in 1..n
      BY <2>1
    <3>3. \A l \in 1..m : l # m => D[m] \cap D[l] = {}
      BY <2>5, <3>1, <3>2, <2>1
    <3>4. ASSUME NEW k \in 1..m, NEW l \in 1..m, k # m, l # m, k # l
          PROVE  D[k] \cap D[l] = {}
      BY <2>5, <3>1, <3>2, <3>4
    <3> QED
      BY ONLY <3>3, <3>4
  <2>7. ASSUME NEW k \in 1..m
        PROVE  CountsAfter(stack'[k].counts, D[k]) /\ \A e \in D[k] : Past(e)'
    <3>1. CASE k = m
      <4>1. /\ C[m] \in SUBSET Entry /\ C[n] \in SUBSET Entry /\ C[m] \cap C[n] = {}
            /\ CountsAre(stack[m].counts, C[m]) /\ CountsAre(Top.counts, C[n])
        BY <2>1, <2>4 DEF Counting
      <4>2. CountsAre(Add(stack[m].counts, Top.counts), C[m] \cup C[n])
        BY <2>1, <4>1, CountsAdd
      <4>3. \A e \in C[m] \cup C[n] : Past(e)
        BY <2>1, <2>4 DEF Counting
      <4>4. CountsAre(stack'[k].counts, D[k])
        BY <2>1, <2>5, <3>1, <4>2
      <4>5. CountsAfter(stack'[k].counts, D[k])
        BY <2>3, <4>4 DEF CountsAre, CountsAfter
      <4>6. D[k] = C[m] \cup C[n] /\ C[m] \cup C[n] \subseteq Entry
        BY <2>5, <3>1, <4>1
      <4>7. \A e \in D[k] : Past(e)'
        BY ONLY <2>2, <4>3, <4>6
      <4> QED
        BY ONLY <4>5, <4>7
    <3>2. CASE k # m
      <4>1. k \in DOMAIN stack /\ stack'[k] = stack[k] /\ D[k] = C[k]
        BY <2>1, <2>5, <3>2
      <4>2. C[k] \in SUBSET Entry /\ CountsAre(stack[k].counts, C[k]) /\ \A e \in C[k] : Past(e)
        BY <2>4, <4>1 DEF Counting
      <4>3. CountsAfter(stack[k].counts, C[k])
        BY <2>3, <4>2 DEF CountsAre, CountsAfter
      <4>4. \A e \in C[k] : Past(e)'
        BY ONLY <2>2, <4>2
      <4>5. CountsAfter(stack'[k].counts, D[k]) /\ \A e \in D[k] : Past(e)'
        BY ONLY <4>1, <4>3, <4>4
      <4> QED
        BY ONLY <4>5
    <3> QED
      BY <3>1, <3>2
  <2>8. ASSUME NEW e \in Entry, outcome'[e] # "unseen" PROVE \E k \in 1..m : e \in D[k]
    <3>1. PICK k \in 1..n : e \in C[k]
      BY <1>1, <2>1, <2>4, <2>8 DEF Counting
    <3> QED
      BY <2>1, <2>5, <3>1
  <2>9. Counting(D)'
    <3>1. D \in [DOMAIN stack' -> SUBSET Entry]
      BY <2>1, <2>5
    <3> QED
      BY <2>1, <2>6, <2>7, <2>8, <3>1 DEF Counting, CountsAre, CountsAfter
  <2> QED
    BY <2>3, <2>9 DEF CountInv
<1> QED
  BY <1>2, <1>3

LEMMA NextCount == Inv /\ CountInv /\ [Next]_vars => CountInv'
<1> SUFFICES ASSUME Inv, CountInv, [Next]_vars PROVE CountInv'
  OBVIOUS
<1>1. CASE Start
  BY <1>1, StartCount
<1>2. CASE Enter
  BY <1>2, EnterCount
<1>3. ASSUME NEW d \in Dir, VisitDirectory(d) PROVE CountInv'
  BY <1>3, VisitDirectoryCount
<1>4. ASSUME NEW f \in Entry, VisitFile(f) PROVE CountInv'
  BY <1>4, VisitFileCount
<1>5. CASE EndEntries
  BY <1>5, EndEntriesCount
<1>6. CASE Descend
  BY <1>6, DescendCount
<1>7. CASE EndDirs \/ Finish \/ Timeout \/ UNCHANGED vars
  <2>1. UNCHANGED <<stack, path, emitted, outcome>> /\ (pc' # "enter" \/ pc' = pc)
    BY <1>7 DEF EndDirs, Finish, Timeout, vars, graphVars
  <2>2. \A e : Past(e) => Past(e)'
    BY <2>1, PastFewer
  <2> QED
    BY <2>1, <2>2, CountedLater
<1>8. CASE Leave
  BY <1>8, LeaveCount
<1> QED
  BY <1>1, <1>2, <1>3, <1>4, <1>5, <1>6, <1>7, <1>8 DEF Next, Terminated

\* What an exploration returns has each file and directory that was visited once in
\* the counts of what was decided of it, and in no other, although each call adds the
\* counts of the calls it made and any of them may end early.
THEOREM CountedOnce == Spec => []CountsAreExact
<1>1. Inv /\ CountInv => CountsAreExact
  <2> SUFFICES ASSUME Inv, CountInv, pc = "done" PROVE CountsAreExact
    BY DEF CountsAreExact
  <2>1. stack \in Seq(Frame) /\ Len(stack) = 1
    BY DEF Inv, TypeOK, ShapeOK
  <2>2. DOMAIN stack = {1} /\ Top = stack[1]
    BY <2>1 DEF Top
  <2>3. PICK C : Counting(C)
    BY DEF CountInv
  <2>4. CountsAre(Top.counts, C[1]) /\ \A e \in Entry : outcome[e] # "unseen" => e \in C[1]
    BY <2>2, <2>3 DEF Counting
  <2>5. \A f \in CountField : Tallied[f] \cap C[1] = Tallied[f]
    BY <2>4, TalliedIs DEF CountedIn
  <2> QED
    BY <2>4, <2>5, EmittedAreNodes DEF CountsAre, CountsAreExact, CountInv, Emitting, EmittedFiles
<1>2. Init => CountInv
  BY InitCount
<1>3. Inv /\ CountInv /\ [Next]_vars => CountInv'
  BY NextCount
<1> QED
  BY <1>1, <1>2, <1>3, Exploration, PTL DEF Spec

-----------------------------------------------------------------------------
(* What is explored. *)

\* Two contexts in which the rules of a scope that says nothing of files, and of
\* directories only to explore them, hold alike.
LEMMA SameDecision ==
  ASSUME rules \in RuleLists, OwnRules, NEW c, NEW d,
         NEW scope \in {"EXPLORATION", "PROCESSING"},
         c["SHARE"] = d["SHARE"], c["DEPTH"] = d["DEPTH"],
         scope = "EXPLORATION" => c["DIR"] = d["DIR"]
  PROVE  Evaluate(rules, c, scope) = Evaluate(rules, d, scope)
<1> DEFINE H(x) == {i \in DOMAIN rules : Holds(rules[i].condition, x)}
           A(x) == {i \in H(x) : ~ rules[i].isDefault /\ rules[i].scope \in {"", scope}}
<1>1. ASSUME NEW i \in DOMAIN rules, rules[i].scope \in {"", scope}
      PROVE  Holds(rules[i].condition, c) <=> Holds(rules[i].condition, d)
  <2>1. ASSUME NEW k \in rules[i].condition PROVE c[k.field] = d[k.field]
    <3>1. k.field \in {"SHARE", "FILE", "DIR", "DEPTH"} /\ k.field # "FILE"
      BY TraversalAssumption DEF OwnRules, Field
    <3>2. k.field = "DIR" => scope = "EXPLORATION"
      BY <1>1 DEF OwnRules
    <3> QED
      BY <3>1, <3>2
  <2> QED
    BY <2>1 DEF Holds
<1>2. A(c) = A(d)
  BY <1>1
<1> HIDE DEF H
<1>3. \A x : Evaluate(rules, x, scope) =
        LET defaults == {i \in DOMAIN rules : rules[i].isDefault}
        IN  IF A(x) # {} THEN rules[First(A(x))].allow
            ELSE IF defaults # {} THEN rules[First(defaults)].allow ELSE TRUE
  BY DEF Evaluate, Decide, H
<1> QED
  BY <1>2, <1>3

Moving == {"enter", "entries", "dirs", "leave"}
Ended  == {"leave", "finish", "done"}

\* The context is that of where the exploration is, which the rules let it enter.
OnTheWay ==
  /\ pc = "start" => context = EmptyContext
  /\ pc \in Moving => context["SHARE"] = Root /\ ShareExplored
  /\ pc = "entries" => context["DEPTH"] = Depth /\ (maxDepth = 0 \/ Depth < maxDepth)
  /\ \A i \in DOMAIN path : Explored(path[i].node)
  /\ \A k \in DOMAIN stack : \A d \in NodesIn(stack[k].dirs) : Explored(d)

\* A directory that could not be listed is left at once, and nothing below it is met.
FailedBehind ==
  /\ pc = "start" => unlisted = {}
  /\ \A u \in unlisted : /\ \A k \in DOMAIN stack : Apart(u, Listing(stack[k]))
                         /\ pc = "enter" => Apart(u, {Here})
  /\ \A i \in DOMAIN stack : Above(i) \in unlisted => i = Len(stack) /\ pc \in Ended

\* What is in the graph is wanted, or leads to what is, and no later failure can
\* change that.
Justified ==
  \A e \in Nodes(emitted) \cap Entry :
    /\ \E w \in Wanted : Past(w) /\ (e = w \/ e \in Ancestors[w])
    /\ Ancestors[e] \cap Dir \subseteq Nodes(emitted)

\* What is wanted and past is in the graph; an activation that ends has entered all
\* it meant to.
Complete ==
  ~ timeoutFlag =>
    /\ pc # "start" => \A e \in Wanted : Past(e) => e \in Nodes(emitted)
    /\ pc \in Ended => Listing(Top) = {}

Exploring == OnTheWay /\ FailedBehind /\ Justified /\ Complete

LEMMA SameRules ==
  ASSUME rules' = rules
  PROVE  /\ \A e : Explored(e)' = Explored(e) /\ Processed(e)' = Processed(e)
         /\ ShareExplored' = ShareExplored /\ OwnRules' = OwnRules
BY DEF Explored, Processed, ShareExplored, OwnRules, OwnContext

\* The failures only grow, and take from what is wanted what is below them.
LEMMA WantedLater ==
  ASSUME rules' = rules, unlisted \subseteq unlisted'
  PROVE  /\ Wanted' \subseteq Wanted
         /\ \A w \in Wanted : Ancestors[w] \cap unlisted' = {} => w \in Wanted'
         /\ unlisted' = unlisted => Wanted' = Wanted
<1>1. \A e : Explored(e)' = Explored(e) /\ Processed(e)' = Processed(e)
  BY SameRules
<1>2. ShareExplored' = ShareExplored
  BY SameRules
<1> QED
  BY <1>1, <1>2 DEF Wanted, Reached

\* An entry of the directory where the exploration is.
LEMMA OfHere ==
  ASSUME Inv, pc \in Moving, NEW e \in Entry, Parent[e] = Here
  PROVE  /\ Ancestors[e] = {Above(j) : j \in DOMAIN stack}
         /\ Ancestors[e] \cap Dir = PathNodes /\ Level[e] = Depth
<1>1. /\ path \in Seq(PathEntry) /\ PathOK /\ Len(stack) = Len(path) + 1
      /\ stack \in Seq(Frame)
  BY WhileExploring DEF Moving
<1>2. Ancestors[e] = Ancestors[Here] \cup {Here}
  BY AncestorsStep
<1>3. DOMAIN stack = 1..(Len(path) + 1)
  BY <1>1
<1>4. Ancestors[e] \cap Dir = PathNodes /\ Cardinality(PathNodes) = Len(path)
  BY <1>1, <1>2, PathSize
<1>5. Level[e] = Len(path)
  BY <1>4 DEF Level
<1>6. Depth = Len(path)
  BY <1>1 DEF Depth
<1> QED
  BY <1>1, <1>2, <1>3, <1>4, <1>5, <1>6, PathSize

\* What is below that directory is deeper than it.
LEMMA BelowHere ==
  ASSUME Inv, pc \in Moving, NEW e \in Entry, Here \in Ancestors[e]
  PROVE  Level[e] \in Nat /\ Level[e] >= Depth
<1>1. /\ path \in Seq(PathEntry) /\ PathOK /\ Len(stack) = Len(path) + 1 /\ Len(path) \in Nat
      /\ Here \in Dir \cup {Root}
  BY WhileExploring DEF Moving
<1>2. (Ancestors[Here] \cup {Here}) \cap Dir = PathNodes /\ Cardinality(PathNodes) = Len(path)
  BY <1>1, PathSize
<1>3. Ancestors[Here] \subseteq Ancestors[e]
  <2>1. CASE Here = Root
    BY <2>1, AncestorsStep
  <2>2. CASE Here # Root
    BY <2>2, AncestorsClosed
  <2> QED
    BY <2>1, <2>2
<1>4. PathNodes \in SUBSET (Ancestors[e] \cap Dir)
  BY <1>2, <1>3
<1>5. IsFiniteSet(Ancestors[e] \cap Dir)
  BY TraversalAssumption, FS_Subset
<1>6. Cardinality(PathNodes) <= Cardinality(Ancestors[e] \cap Dir)
      /\ Cardinality(Ancestors[e] \cap Dir) \in Nat
  BY <1>4, <1>5, FS_Subset, FS_CardinalityType
<1>7. Level[e] = Cardinality(Ancestors[e] \cap Dir) /\ Depth = Len(path)
  BY <1>1 DEF Level, Depth
<1> QED
  BY <1>2, <1>6, <1>7

\* What becomes past by a visit is what was visited, or is below it and will not be
\* entered.
LEMMA VisitedBack ==
  ASSUME Inv, pc = "entries", UNCHANGED <<pc, path>>, NEW e \in Top.todo,
         NEW counts, NEW dirs, Visited(e, counts, dirs), NodesIn(Top.dirs) \subseteq NodesIn(dirs),
         NEW x, Past(x)'
  PROVE  Past(x) \/ x = e \/ (e \in Ancestors[x] /\ e \notin NodesIn(dirs))
<1> DEFINE n == Len(stack)
<1>1. /\ n \in DOMAIN stack /\ Top = stack[n] /\ DOMAIN stack' = DOMAIN stack
      /\ \A k \in DOMAIN stack : k # n => stack'[k] = stack[k]
      /\ stack'[n].todo = Top.todo \ {e} /\ stack'[n].dirs = dirs
  BY VisitedFacts
<1> HIDE DEF n
<1> SUFFICES ASSUME x # e, e \notin Ancestors[x] \/ e \in NodesIn(dirs) PROVE Past(x)
  OBVIOUS
<1>2. x \notin stack[n].todo /\ Ancestors[x] \cap Listing(stack[n]) = {}
  BY <1>1 DEF Past, Listing
<1>3. ASSUME NEW k \in DOMAIN stack
      PROVE  x \notin stack[k].todo /\ Ancestors[x] \cap Listing(stack[k]) = {}
  BY <1>1, <1>2 DEF Past
<1> QED
  BY <1>3 DEF Past

\* A step that adds nothing to the graph, and leaves behind nothing that is wanted.
LEMMA Onward ==
  ASSUME Justified, Complete, rules' = rules, unlisted' = unlisted, emitted' = emitted,
         \A x \in Entry : Past(x) => Past(x)',
         ~ timeoutFlag' =>
           /\ ~ timeoutFlag
           /\ pc' # "start" => /\ pc # "start"
                               /\ \A x \in Wanted : Past(x)' => Past(x)
           /\ pc' \in Ended => Listing(Top)' = {}
  PROVE  Justified' /\ Complete'
<1>1. Wanted' = Wanted
  BY WantedLater
<1>2. Nodes(emitted)' = Nodes(emitted)
  BY DEF Nodes
<1>3. Justified'
  BY <1>1, <1>2 DEF Justified, Wanted
<1>4. Complete'
  BY <1>1, <1>2 DEF Complete, Ended
<1> QED
  BY <1>3, <1>4

\* A step that stays where it is, with less before it.
LEMMA StillBehind ==
  ASSUME FailedBehind, unlisted' = unlisted, path' = path, DOMAIN stack' = DOMAIN stack,
         Len(stack') = Len(stack),
         \A k \in DOMAIN stack : Listing(stack'[k]) \subseteq Listing(stack[k]),
         pc' = "start" => pc = "start", pc' = "enter" => pc = "enter",
         pc \in Ended => pc' \in Ended
  PROVE  FailedBehind'
<1>1. Here' = Here /\ \A i : Above(i)' = Above(i)
  BY DEF Here, Above
<1> QED
  BY <1>1 DEF FailedBehind, Apart, Ended

LEMMA StillOnTheWay ==
  ASSUME OnTheWay, rules' = rules, context' = context, path' = path,
         DOMAIN stack' = DOMAIN stack,
         \A k \in DOMAIN stack : NodesIn(stack'[k].dirs) \subseteq NodesIn(stack[k].dirs),
         pc' = "start" => pc = "start", pc' \in Moving => pc \in Moving,
         pc' = "entries" => pc = "entries" /\ Len(stack') = Len(stack)
  PROVE  OnTheWay'
<1>1. /\ \A e : Explored(e)' = Explored(e)
      /\ ShareExplored' = ShareExplored
  BY SameRules
<1>2. pc' = "entries" => Depth' = Depth
  BY DEF Depth
<1> QED
  BY <1>1, <1>2 DEF OnTheWay, Moving

LEMMA InitExploring == Init => Exploring
<1> SUFFICES ASSUME Init PROVE Exploring
  OBVIOUS
<1>1. /\ pc = "start" /\ stack = <<>> /\ path = <<>> /\ emitted = <<>> /\ unlisted = {}
      /\ context = EmptyContext
  BY DEF Init
<1>2. Nodes(emitted) = {}
  BY <1>1, NothingGood
<1>3. OnTheWay /\ FailedBehind
  BY <1>1 DEF OnTheWay, FailedBehind, Moving
<1>4. Justified /\ Complete
  BY <1>1, <1>2 DEF Justified, Complete, Ended
<1> QED
  BY <1>3, <1>4 DEF Exploring

LEMMA StartExploring == Inv /\ Exploring /\ Start => Exploring'
<1> SUFFICES ASSUME Inv, Exploring, Start PROVE Exploring'
  OBVIOUS
<1>1. /\ pc = "start" /\ stack = <<>> /\ path = <<>> /\ path' = <<>> /\ emitted = <<>>
      /\ context = EmptyContext /\ unlisted = {}
      /\ context' = [context EXCEPT !["SHARE"] = Root]
      /\ stack' = <<NewFrame>> /\ rules' = rules /\ timeoutFlag' = timeoutFlag
      /\ shareList' = shareList
  BY DEF Start, Inv, ShapeOK, Exploring, OnTheWay, FailedBehind
<1>2. /\ DOMAIN stack' = {1} /\ Len(stack') = 1 /\ stack'[1] = NewFrame /\ Top' = NewFrame
      /\ Here' = Root /\ Listing(NewFrame) = {} /\ NodesIn(NewFrame.dirs) = {}
  BY <1>1, NewFrameOK DEF Top, Here, Above, Listing
<1>3. context'["SHARE"] = Root
        /\ Evaluate(rules, context', "EXPLORATION") = ShareExplored
  BY <1>1 DEF ShareExplored, EmptyContext, Field
<1>4. ShareExplored' = ShareExplored /\ \A e : Explored(e)' = Explored(e)
  BY <1>1, SameRules
<1>5. Nodes(emitted)' \cap Entry = {}
  <2>1. Nodes(emitted) = {} /\ PathNodes = {} /\ Nil \notin Entry
    BY <1>1, NothingGood, TraversalAssumption DEF PathNodes
  <2>2. UNCHANGED graphVars \/ AddPathToGraph(Nil, <<>>)
    BY DEF Start
  <2>3. CASE UNCHANGED graphVars
    BY <2>1, <2>3 DEF Nodes, graphVars
  <2>4. CASE AddPathToGraph(Nil, <<>>)
    <3>1. Nodes(emitted)' = Nodes(emitted) \cup {Host, Root} \cup PathNodes \cup ({Nil} \cap Entry)
      BY <1>1, <2>4, AddElement DEF Inv, TypeOK
    <3> QED
      BY <2>1, <3>1, TraversalAssumption
  <2> QED
    BY <2>2, <2>3, <2>4
<1>6. Justified'
  BY <1>5 DEF Justified
<1>7. CASE pc' = "finish" /\ (~ ShareExplored \/ unlisted' = {Root})
  <2>1. \A e \in Entry : e \notin Wanted'
    BY <1>4, <1>7, RootAbove DEF Wanted, Reached
  <2>2. OnTheWay' /\ Complete'
    BY <1>1, <1>2, <1>7, <2>1 DEF OnTheWay, Complete, Moving, Ended, Wanted
  <2>3. unlisted' \subseteq {Root}
    BY <1>1, <1>7 DEF Start
  <2>4. FailedBehind'
    BY <1>1, <1>2, <1>7, <2>3, AncestorsStep DEF FailedBehind, Apart, Ended
  <2> QED
    BY <1>6, <2>2, <2>4 DEF Exploring
<1>8. CASE pc' = "enter" /\ ShareExplored /\ unlisted' = unlisted
  <2>1. OnTheWay'
    BY <1>1, <1>2, <1>3, <1>4, <1>8 DEF OnTheWay, Moving
  <2>2. FailedBehind'
    BY <1>1, <1>2, <1>8 DEF FailedBehind
  <2>3. Complete'
    BY <1>2, <1>8, RootAbove DEF Complete, Past, Wanted, Ended
  <2> QED
    BY <1>6, <2>1, <2>2, <2>3 DEF Exploring
<1> QED
  BY <1>3, <1>7, <1>8 DEF Start

LEMMA EnterExploring == Inv /\ Exploring /\ Enter => Exploring'
<1> SUFFICES ASSUME Inv, Exploring, Enter PROVE Exploring'
  OBVIOUS
<1> DEFINE n == Len(stack)
<1>1. /\ pc = "enter" /\ rules' = rules /\ path' = path /\ emitted' = emitted
      /\ timeoutFlag' = timeoutFlag /\ context["SHARE"] = Root /\ ShareExplored
      /\ pc' \in {"leave", "entries"}
  BY DEF Enter, graphVars, Exploring, OnTheWay, Moving
<1>2. /\ n \in DOMAIN stack /\ Top = stack[n] /\ Listing(stack[n]) = {}
      /\ DOMAIN stack' = DOMAIN stack
      /\ \A k \in DOMAIN stack : k # n => stack'[k] = stack[k]
      /\ stack'[n].dirs = stack[n].dirs
      /\ \/ pc' = "leave" /\ UNCHANGED stack
         \/ pc' = "entries" /\ stack'[n].todo = Children(Here) /\ Listing(stack'[n]) = Children(Here)
  BY EnterFacts
<1>3. /\ stack \in Seq(Frame) /\ path \in Seq(PathEntry) /\ PathOK /\ StackOK
      /\ n = Len(path) + 1 /\ Here = Above(n) /\ Here \in Entry \cup {Root}
  BY <1>1, WhileExploring
<1>4. Len(stack') = n /\ Depth' = Depth /\ Depth \in Nat
  <2>1. n \in Nat /\ DOMAIN stack = 1..n
    BY <1>3
  <2>2. Len(stack') = n
    <3>1. CASE UNCHANGED stack
      BY <3>1
    <3>2. CASE stack' = [stack EXCEPT ![Len(stack)].todo = Children(Here)]
      BY <1>3, <3>2
    <3> QED
      BY <3>1, <3>2 DEF Enter
  <2>3. Depth \in Nat
    BY <1>3 DEF Depth
  <2> QED
    BY <2>2, <2>3 DEF Depth
<1>5. \A k \in DOMAIN stack : stack'[k].dirs = stack[k].dirs
  BY <1>2
<1>6. /\ \A x \in Entry : Past(x) => Past(x)'
      /\ Here' = Here /\ \A i : Above(i)' = Above(i)
  BY <1>1, EnterPast DEF Here, Above
<1> HIDE DEF n
<1>7. context'["SHARE"] = Root /\ (pc' = "entries" => context'["DEPTH"] = Depth)
  <2>1. ContextOK /\ {"SHARE", "DEPTH"} \subseteq Field
    BY DEF Inv, Field
  <2> QED
    BY <1>1, <2>1 DEF Enter, ContextOK
<1>8. pc' = "entries" => maxDepth = 0 \/ Depth < maxDepth
  <2>1. maxDepth \in Nat /\ Depth \in Nat
    BY <1>4, TraversalAssumption
  <2> QED
    BY <2>1 DEF Enter
<1>9. OnTheWay'
  <2>1. ShareExplored' = ShareExplored /\ \A e : Explored(e)' = Explored(e)
    BY <1>1, SameRules
  <2> QED
    BY <1>1, <1>2, <1>4, <1>5, <1>7, <1>8, <2>1 DEF Exploring, OnTheWay, Moving
<1>10. CASE unlisted' = unlisted /\ pc' = "entries"
  <2>1. ASSUME NEW x \in Entry, Past(x)' PROVE Past(x)
    <3>1. ASSUME NEW k \in DOMAIN stack
          PROVE  x \notin stack[k].todo /\ Ancestors[x] \cap Listing(stack[k]) = {}
      BY <1>2, <2>1 DEF Past, Listing
    <3>2. x \notin Children(Here) /\ Ancestors[x] \cap Children(Here) = {}
      BY <1>2, <1>10, <2>1 DEF Past
    <3>3. Here \notin Ancestors[x]
      BY <3>2, ChildAbove
    <3> QED
      BY <3>1, <3>3 DEF Past
  <2>2. Justified' /\ Complete'
    <3>1. \A x \in Wanted : Past(x)' => Past(x)
      BY <2>1 DEF Wanted
    <3> QED
      BY <1>1, <1>6, <1>10, <3>1, Onward DEF Exploring, Ended
  <2>3. ASSUME NEW u \in unlisted PROVE Apart(u, Children(Here))
    <3>1. u \in Entry \cup {Root}
      BY TraversalAssumption DEF Inv, TypeOK
    <3>2. u # Here /\ Here \notin Ancestors[u]
      BY <1>1 DEF Exploring, FailedBehind, Apart
    <3>3. u \notin Children(Here)
      BY <3>2, AncestorsStep DEF Children
    <3>4. ASSUME NEW x \in Ancestors[u] PROVE x \notin Children(Here)
      BY <3>1, <3>2, <3>4, AncestorsClosed, TraversalAssumption DEF Children
    <3> QED
      BY <3>3, <3>4 DEF Apart
  <2>4. \A u \in unlisted : \A k \in DOMAIN stack : Apart(u, Listing(stack'[k]))
    BY <1>2, <1>10, <2>3 DEF Exploring, FailedBehind
  <2>5. FailedBehind'
    BY <1>1, <1>2, <1>6, <1>10, <2>4 DEF Exploring, FailedBehind, Ended
  <2> QED
    BY <1>9, <2>2, <2>5 DEF Exploring
<1>11. CASE unlisted' = unlisted /\ pc' = "leave" /\ (timeoutFlag \/ (maxDepth > 0 /\ Depth >= maxDepth))
  <2>1. UNCHANGED stack
    BY <1>2, <1>11
  <2>2. FailedBehind'
    BY <1>1, <1>11, <2>1, StillBehind DEF Exploring, Ended
  <2>3. ASSUME ~ timeoutFlag, NEW x \in Wanted, Past(x)' PROVE Past(x)
    <3>1. Here \notin Ancestors[x]
      <4>1. SUFFICES ASSUME Here \in Ancestors[x] PROVE FALSE
        OBVIOUS
      <4>2. x \in Entry /\ (maxDepth = 0 \/ Level[x] < maxDepth)
        BY DEF Wanted, Reached
      <4>3. Level[x] \in Nat /\ Level[x] >= Depth /\ Depth \in Nat /\ maxDepth \in Nat
        BY <1>1, <1>4, <4>1, <4>2, BelowHere, TraversalAssumption DEF Moving
      <4> QED
        BY <1>11, <2>3, <4>2, <4>3
    <3> QED
      BY <2>1, <2>3, <3>1 DEF Past
  <2>4. Listing(Top)' = {}
    BY <1>2, <2>1 DEF Top, Listing
  <2>5. Justified' /\ Complete'
    BY <1>1, <1>6, <1>11, <2>3, <2>4, Onward DEF Exploring
  <2> QED
    BY <1>9, <2>2, <2>5 DEF Exploring
<1>12. CASE unlisted' = unlisted \cup {Here} /\ pc' = "leave"
  <2>1. UNCHANGED stack
    BY <1>2, <1>12
  <2>2. Nodes(emitted)' = Nodes(emitted)
    BY <1>1 DEF Nodes
  <2>3. \A k \in DOMAIN stack : Apart(Here, Listing(stack[k]))
    <3>1. Ancestors[Here] \cup {Here} = {Above(j) : j \in 1..(Len(path) + 1)}
      BY <1>3, PathSize
    <3>2. \A k \in DOMAIN stack : \A j \in 1..(Len(path) + 1) : Above(j) \notin Listing(stack[k])
      BY <1>3, PathNotBefore DEF n
    <3> QED
      BY <3>1, <3>2 DEF Apart
  <2>4. ASSUME NEW i \in DOMAIN stack, Above(i) = Here PROVE i = n
    BY <1>3, <2>4, AboveOnce DEF n
  <2>5. FailedBehind'
    BY <1>1, <1>4, <1>6, <1>12, <2>1, <2>3, <2>4 DEF Exploring, FailedBehind, Ended, n
  <2>6. /\ Wanted' \subseteq Wanted
        /\ \A w \in Wanted : Ancestors[w] \cap unlisted' = {} => w \in Wanted'
    BY <1>1, <1>12, WantedLater
  <2>7. ASSUME NEW w \in Wanted, Past(w) PROVE w \in Wanted' /\ Past(w)'
    <3>1. w \in Entry /\ Ancestors[w] \cap unlisted = {}
      BY DEF Wanted, Reached
    <3>2. Here \notin Ancestors[w]
      BY <1>1, <2>7 DEF Past
    <3> QED
      BY <1>6, <1>12, <2>6, <2>7, <3>1, <3>2
  <2>8. Justified'
    BY <2>2, <2>7 DEF Exploring, Justified
  <2>9. ASSUME NEW x \in Wanted', Past(x)' PROVE x \in Wanted /\ Past(x)
    <3>1. Ancestors[x] \cap unlisted' = {}
      BY DEF Wanted, Reached
    <3> QED
      BY <1>12, <2>1, <2>6, <2>9, <3>1 DEF Past
  <2>10. Complete'
    <3>1. Listing(Top)' = {}
      BY <1>2, <2>1 DEF Top, Listing
    <3> QED
      BY <1>1, <2>2, <2>9, <3>1 DEF Exploring, Complete
  <2> QED
    BY <1>9, <2>5, <2>8, <2>10 DEF Exploring
<1> QED
  BY <1>1, <1>10, <1>11, <1>12 DEF Enter

\* While a directory is visited, the rules judge its entries as they judge them by
\* themselves.
LEMMA JudgedAlone ==
  ASSUME Inv, OnTheWay, OwnRules, pc = "entries", NEW e \in Top.todo,
         context' = [context EXCEPT ![IF e \in Dir THEN "DIR" ELSE "FILE"] = e]
  PROVE  /\ e \in Dir => Evaluate(rules, context', "EXPLORATION") = Explored(e)
         /\ Evaluate(rules, context', "PROCESSING") = Processed(e)
         /\ context'["SHARE"] = Root /\ context'["DEPTH"] = Depth
<1>1. e \in Entry /\ Parent[e] = Here
  BY WhileExploring DEF FrameOK, Listing, Children
<1>2. Level[e] = Depth
  BY <1>1, OfHere DEF Moving
<1>3. context["SHARE"] = Root /\ context["DEPTH"] = Depth
  BY DEF OnTheWay, Moving
<1>4. ContextOK /\ rules \in RuleLists
  BY DEF Inv, TypeOK
<1>5. /\ context'["SHARE"] = Root /\ context'["DEPTH"] = Depth
      /\ e \in Dir => context'["DIR"] = e
  BY <1>3, <1>4 DEF ContextOK, Field
<1> DEFINE o == OwnContext(e)
           c == context'
<1>6. o["SHARE"] = Root /\ o["DEPTH"] = Depth /\ (e \in Dir => o["DIR"] = e)
  BY <1>2 DEF OwnContext
<1>7. c["SHARE"] = Root /\ c["DEPTH"] = Depth /\ (e \in Dir => c["DIR"] = e)
  BY <1>5
<1> HIDE DEF o, c
<1>8. e \in Dir => Evaluate(rules, c, "EXPLORATION") = Evaluate(rules, o, "EXPLORATION")
  BY <1>4, <1>6, <1>7, SameDecision
<1>9. Evaluate(rules, c, "PROCESSING") = Evaluate(rules, o, "PROCESSING")
  BY <1>4, <1>6, <1>7, SameDecision
<1> QED
  BY <1>5, <1>8, <1>9 DEF Explored, Processed, o, c

LEMMA VisitExploring ==
  ASSUME Inv, Exploring, pc = "entries",
         UNCHANGED <<rules, shareList, pc, path, timeoutFlag, unlisted>>,
         NEW e \in Top.todo, NEW counts, NEW dirs, Visited(e, counts, dirs),
         context'["SHARE"] = Root, context'["DEPTH"] = Depth,
         NodesIn(Top.dirs) \subseteq NodesIn(dirs),
         NodesIn(dirs) \subseteq NodesIn(Top.dirs) \cup {e},
         e \in NodesIn(dirs) => Explored(e),
         e \in Dir /\ Explored(e) => e \in NodesIn(dirs),
         NEW rs,
         \/ UNCHANGED graphVars /\ ~ (Processed(e) /\ (e \in Dir => Explored(e)))
         \/ /\ Due(e, rs) /\ AddPathToGraph(e, rs)
            /\ Processed(e) /\ (e \in Dir => Explored(e))
  PROVE  Exploring'
<1> DEFINE n == Len(stack)
<1>1. /\ n \in DOMAIN stack /\ Top = stack[n] /\ DOMAIN stack' = DOMAIN stack
      /\ \A k \in DOMAIN stack : k # n => stack'[k] = stack[k]
      /\ stack'[n].todo = Top.todo \ {e} /\ stack'[n].dirs = dirs
  BY VisitedFacts
<1>2. /\ path \in Seq(PathEntry) /\ PathOK /\ StackOK /\ FrameOK(Top, Here)
      /\ stack \in Seq(Frame) /\ shareList \in Lists \cup {Unreadable}
  BY WhileExploring
<1>3. Len(stack') = n /\ Depth' = Depth
  <2>1. Len(stack') = n
    BY <1>2 DEF Visited
  <2> QED
    BY <2>1 DEF Depth
<1>4. e \in Entry /\ Parent[e] = Here /\ e # Nil
  BY <1>2, TraversalAssumption DEF FrameOK, Listing, Children
<1>5. /\ Ancestors[e] = {Above(j) : j \in DOMAIN stack}
      /\ Ancestors[e] \cap Dir = PathNodes /\ Level[e] = Depth
  BY <1>4, OfHere DEF Moving
<1>6. e \in Wanted <=> Processed(e) /\ (e \in Dir => Explored(e))
  <2>1. ShareExplored /\ (maxDepth = 0 \/ Level[e] < maxDepth)
    BY <1>5 DEF Exploring, OnTheWay, Moving
  <2>2. \A a \in PathNodes : Explored(a)
    BY <1>2 DEF Exploring, OnTheWay, PathNodes
  <2>3. Ancestors[e] \cap unlisted = {}
    BY <1>5 DEF Exploring, FailedBehind, Ended
  <2> QED
    BY <1>4, <1>5, <2>1, <2>2, <2>3 DEF Wanted, Reached
<1>7. Wanted' = Wanted
  BY WantedLater
<1>8. \A k \in DOMAIN stack : /\ Listing(stack'[k]) \subseteq Listing(stack[k])
                              /\ \A d \in NodesIn(stack'[k].dirs) :
                                   d \in NodesIn(stack[k].dirs) \/ Explored(d)
  <2>1. Listing(stack'[n]) \subseteq Listing(stack[n])
    BY <1>1 DEF Listing
  <2>2. \A d \in NodesIn(stack'[n].dirs) : d \in NodesIn(stack[n].dirs) \/ Explored(d)
    BY <1>1
  <2> HIDE DEF n
  <2> QED
    BY <1>1, <2>1, <2>2
<1> HIDE DEF n
<1>9. FailedBehind'
  BY <1>1, <1>3, <1>8, StillBehind DEF Exploring, n
<1>10. OnTheWay'
  <2>1. ShareExplored' = ShareExplored /\ \A a : Explored(a)' = Explored(a)
    BY SameRules
  <2> QED
    BY <1>1, <1>3, <1>8, <2>1 DEF Exploring, OnTheWay, Moving
<1>11. NodesIn(dirs) \subseteq Listing(Top)
  BY DEF Listing
<1>12. (\A x : Past(x) => Past(x)') /\ Past(e)'
  BY <1>11, VisitedPast
<1>13. \/ Nodes(emitted)' = Nodes(emitted) /\ e \notin Wanted
       \/ /\ Nodes(emitted)' = Nodes(emitted) \cup {Host, Root} \cup PathNodes \cup {e}
          /\ e \in Wanted
  <2>1. CASE UNCHANGED graphVars /\ ~ (Processed(e) /\ (e \in Dir => Explored(e)))
    BY <1>6, <2>1 DEF Nodes, graphVars
  <2>2. CASE /\ Due(e, rs) /\ AddPathToGraph(e, rs)
             /\ Processed(e) /\ (e \in Dir => Explored(e))
    <3>1. e \in Dir \/ e \notin Nodes(emitted)
      <4>1. e \in Listing(stack[n])
        BY <1>1 DEF Listing
      <4> QED
        BY <1>1, <1>4, <4>1 DEF Inv, FreshOK, Apart, EmittedFiles
    <3>2. Nodes(emitted)' = Nodes(emitted) \cup {Host, Root} \cup PathNodes \cup ({e} \cap Entry)
      BY <1>2, <1>4, <2>2, <3>1, AddElement DEF Inv
    <3> QED
      BY <1>4, <1>6, <2>2, <3>2
  <2> QED
    BY <2>1, <2>2
<1>14. Justified'
  <2>1. ASSUME NEW x \in Nodes(emitted)' \cap Entry
        PROVE  /\ \E w \in Wanted : Past(w)' /\ (x = w \/ x \in Ancestors[w])
               /\ Ancestors[x] \cap Dir \subseteq Nodes(emitted)'
    <3>1. CASE x \in Nodes(emitted)
      BY <1>12, <1>13, <2>1, <3>1 DEF Exploring, Justified
    <3>2. CASE x \notin Nodes(emitted)
      <4>1. /\ x \in PathNodes \cup {e} /\ e \in Wanted
            /\ PathNodes \subseteq Nodes(emitted)'
        BY <1>13, <2>1, <3>2, TraversalAssumption
      <4>2. x = e \/ x \in Ancestors[e]
        BY <1>5, <4>1
      <4>3. Ancestors[x] \subseteq Ancestors[e]
        BY <1>4, <2>1, <4>2, AncestorsClosed, TraversalAssumption
      <4> QED
        BY <1>5, <1>12, <4>1, <4>2, <4>3
    <3> QED
      BY <3>1, <3>2
  <2> QED
    BY <1>7, <2>1 DEF Justified
<1>15. ASSUME ~ timeoutFlag, NEW x \in Wanted, Past(x)' PROVE x \in Nodes(emitted)'
  <2>1. Past(x) \/ x = e \/ (e \in Ancestors[x] /\ e \notin NodesIn(dirs))
    BY <1>15, VisitedBack
  <2>2. CASE Past(x)
    BY <1>13, <1>15, <2>2 DEF Exploring, Complete
  <2>3. CASE x = e
    BY <1>13, <2>3
  <2>4. CASE e \in Ancestors[x] /\ e \notin NodesIn(dirs)
    <3>1. x \in Entry /\ \A a \in Ancestors[x] \cap Dir : Explored(a)
      BY DEF Wanted, Reached
    <3>2. e \in Dir
      BY <1>4, <2>4, <3>1, AncestorsClosed, TraversalAssumption
    <3> QED
      BY <2>4, <3>1, <3>2
  <2> QED
    BY <2>1, <2>2, <2>3, <2>4
<1>16. Complete'
  BY <1>7, <1>15 DEF Complete, Ended
<1> QED
  BY <1>9, <1>10, <1>14, <1>16 DEF Exploring

LEMMA VisitDirectoryExploring ==
  ASSUME Inv, Exploring, OwnRules, NEW d \in Dir, VisitDirectory(d)
  PROVE  Exploring'
<1> DEFINE more == Append(Top.dirs, [node |-> d, rights |-> Ntfs[d]])
<1>1. /\ pc = "entries" /\ d \in Top.todo /\ d \in Dir
      /\ UNCHANGED <<rules, shareList, pc, path, timeoutFlag, unlisted>>
      /\ context' = [context EXCEPT !["DIR"] = d]
  BY DEF VisitDirectory
<1>2. /\ Evaluate(rules, context', "EXPLORATION") = Explored(d)
      /\ Evaluate(rules, context', "PROCESSING") = Processed(d)
      /\ context'["SHARE"] = Root /\ context'["DEPTH"] = Depth
  BY <1>1, JudgedAlone DEF Exploring
<1>3. /\ shareList \in Lists \cup {Unreadable} /\ Top \in Frame /\ FrameOK(Top, Here)
  BY <1>1, WhileExploring
<1>4. NodesIn(more) = NodesIn(Top.dirs) \cup {d}
  <2> DEFINE g == [todo |-> Top.todo \ {d}, dirs |-> more]
  <2>1. g.todo = Top.todo \ {d} /\ g.dirs = more /\ d \in Top.todo \cap Dir
    BY <1>1
  <2> HIDE DEF g
  <2>2. NodesIn(g.dirs) = NodesIn(Top.dirs) \cup {d}
    BY <1>3, <2>1, FrameMore
  <2> QED
    BY <2>1, <2>2
<1>5. d \notin NodesIn(Top.dirs)
  BY <1>1, <1>3 DEF FrameOK
<1>6. Due(d, Ntfs[d])
  BY <1>1, <1>3, DirectoryDue
<1>7. \/ /\ ~ Explored(d) /\ UNCHANGED graphVars
         /\ \E c : Visited(d, c, Top.dirs)
      \/ /\ Explored(d)
         /\ \E c : Visited(d, c, more)
         /\ IF Processed(d) THEN AddPathToGraph(d, Ntfs[d]) ELSE UNCHANGED graphVars
  BY <1>2 DEF VisitDirectory
<1> HIDE DEF more
<1>8. CASE /\ ~ Explored(d) /\ UNCHANGED graphVars
           /\ \E c : Visited(d, c, Top.dirs)
  <2>1. PICK c : Visited(d, c, Top.dirs)
    BY <1>8
  <2> QED
    BY <1>1, <1>2, <1>5, <1>8, <2>1, VisitExploring
<1>9. CASE /\ Explored(d)
           /\ \E c : Visited(d, c, more)
           /\ IF Processed(d) THEN AddPathToGraph(d, Ntfs[d]) ELSE UNCHANGED graphVars
  <2>1. PICK c : Visited(d, c, more)
    BY <1>9
  <2>2. CASE Processed(d)
    BY <1>1, <1>2, <1>4, <1>6, <1>9, <2>1, <2>2, VisitExploring
  <2>3. CASE ~ Processed(d)
    BY <1>1, <1>2, <1>4, <1>9, <2>1, <2>3, VisitExploring
  <2> QED
    BY <2>2, <2>3
<1> QED
  BY <1>7, <1>8, <1>9

LEMMA VisitFileExploring ==
  ASSUME Inv, Exploring, OwnRules, NEW f \in Entry, VisitFile(f)
  PROVE  Exploring'
<1> DEFINE rs == IF Ntfs[f] = <<>> THEN Inherited ELSE Ntfs[f]
<1>1. /\ pc = "entries" /\ f \in Top.todo /\ f \notin Dir
      /\ UNCHANGED <<rules, shareList, pc, path, timeoutFlag, unlisted>>
      /\ context' = [context EXCEPT !["FILE"] = f]
  BY DEF VisitFile
<1>2. /\ Evaluate(rules, context', "PROCESSING") = Processed(f)
      /\ context'["SHARE"] = Root /\ context'["DEPTH"] = Depth
  BY <1>1, JudgedAlone DEF Exploring
<1>3. /\ stack \in Seq(Frame) /\ path \in Seq(PathEntry) /\ shareList \in Lists \cup {Unreadable}
      /\ FrameOK(Top, Here) /\ PathOK /\ StackOK /\ Len(stack) = Len(path) + 1
  BY <1>1, WhileExploring
<1>4. Due(f, rs)
  <2>1. f \in Entry \ Dir /\ Parent[f] = Here
    BY <1>1, <1>3 DEF FrameOK, Listing, Children
  <2> QED
    BY <1>1, <1>3, <2>1, FileDue
<1>5. \/ ~ Processed(f) /\ UNCHANGED graphVars /\ \E c : Visited(f, c, Top.dirs)
      \/ Processed(f) /\ AddPathToGraph(f, rs) /\ \E c : Visited(f, c, Top.dirs)
  BY <1>2 DEF VisitFile
<1> HIDE DEF rs
<1>6. PICK c : Visited(f, c, Top.dirs)
  BY <1>5
<1>7. f \notin NodesIn(Top.dirs)
  BY <1>1, <1>3 DEF FrameOK
<1> QED
  BY <1>1, <1>2, <1>4, <1>5, <1>6, <1>7, VisitExploring

LEMMA EndEntriesExploring == Inv /\ Exploring /\ EndEntries => Exploring'
<1> SUFFICES ASSUME Inv, Exploring, EndEntries PROVE Exploring'
  OBVIOUS
<1> DEFINE n == Len(stack)
<1>1. /\ n \in DOMAIN stack /\ Top = stack[n] /\ DOMAIN stack' = DOMAIN stack
      /\ \A k \in DOMAIN stack : k # n => stack'[k] = stack[k]
      /\ stack'[n].todo = {} /\ stack'[n].dirs = Top.dirs
  BY EndEntriesFacts
<1>2. /\ pc = "entries" /\ pc' = "dirs" /\ (Top.todo = {} \/ timeoutFlag)
      /\ UNCHANGED <<rules, path, emitted, context, timeoutFlag, unlisted>>
      /\ stack' = [stack EXCEPT ![Len(stack)].todo = {}]
  BY DEF EndEntries, graphVars
<1>3. Len(stack') = n
  BY <1>2, WhileExploring
<1> HIDE DEF n
<1>4. \A k \in DOMAIN stack : /\ stack'[k].todo \subseteq stack[k].todo
                              /\ stack'[k].dirs = stack[k].dirs
                              /\ Listing(stack'[k]) \subseteq Listing(stack[k])
  BY <1>1 DEF Listing
<1>5. \A x : Past(x) => Past(x)'
  BY <1>1, <1>2, <1>4, PastFewer
<1>6. ASSUME ~ timeoutFlag, NEW x, Past(x)' PROVE Past(x)
  <2>1. \A k \in DOMAIN stack : stack'[k].todo = stack[k].todo /\ Listing(stack'[k]) = Listing(stack[k])
    BY <1>1, <1>2, <1>6 DEF Listing
  <2> QED
    BY <1>1, <1>2, <1>6, <2>1 DEF Past
<1>7. Justified' /\ Complete'
  BY <1>2, <1>5, <1>6, Onward DEF Exploring, Ended
<1>8. FailedBehind'
  BY <1>1, <1>2, <1>3, <1>4, StillBehind DEF Exploring, Ended, n
<1>9. OnTheWay'
  BY <1>1, <1>2, <1>4, StillOnTheWay DEF Exploring, Moving
<1> QED
  BY <1>7, <1>8, <1>9 DEF Exploring

LEMMA DescendExploring == Inv /\ Exploring /\ Descend => Exploring'
<1> SUFFICES ASSUME Inv, Exploring, Descend PROVE Exploring'
  OBVIOUS
<1> DEFINE n == Len(stack)
           r == Head(Top.dirs)
<1>1. /\ DOMAIN stack = 1..n /\ DOMAIN stack' = 1..(n + 1) /\ 1..(n + 1) = 1..n \cup {n + 1}
      /\ n + 1 \notin 1..n /\ n \in 1..n /\ Top = stack[n]
      /\ NodesIn(Top.dirs) = NodesIn(stack'[n].dirs) \cup {r.node}
      /\ stack'[n + 1] = NewFrame /\ \A k \in 1..n : k # n => stack'[k] = stack[k]
      /\ stack'[n].todo = Top.todo
      /\ Here' = r.node /\ \A i \in 1..n : Above(i)' = Above(i)
      /\ \A i : i = n + 1 => Above(i)' = r.node
  BY DescendFacts, LengthIsNatural
<1>2. /\ DOMAIN path = 1..(n - 1) /\ DOMAIN path' = 1..n
      /\ path'[n] = r /\ \A i \in 1..(n - 1) : path'[i] = path[i]
      /\ 1..n = 1..(n - 1) \cup {n}
  <2>1. n \in Nat /\ n >= 1
    BY DescendFacts, LengthIsNatural
  <2>2. 1..n = 1..(n - 1) \cup {n}
    BY <2>1
  <2> QED
    BY <2>2, DescendFacts, LengthIsNatural
<1>3. /\ pc = "dirs" /\ pc' = "enter" /\ ~ timeoutFlag
      /\ UNCHANGED <<rules, emitted, context, timeoutFlag, unlisted>>
  BY DEF Descend, graphVars
<1> HIDE DEF n, r
<1>4. NodesIn(NewFrame.dirs) = {} /\ Listing(NewFrame) = {} /\ NewFrame.todo = {}
  BY NewFrameOK DEF Listing
<1>5. \A k \in 1..n : /\ NodesIn(stack'[k].dirs) \subseteq NodesIn(stack[k].dirs)
                      /\ Listing(stack'[k]) \subseteq Listing(stack[k])
                      /\ stack'[k].todo = stack[k].todo
  BY <1>1 DEF Listing
<1>6. r.node \in NodesIn(stack[n].dirs) /\ r.node \in Listing(stack[n])
  BY <1>1 DEF Listing
<1>7. OnTheWay'
  <2>1. ShareExplored' = ShareExplored /\ \A a : Explored(a)' = Explored(a)
    BY <1>3, SameRules
  <2>2. \A i \in DOMAIN path' : Explored(path'[i].node)
    BY <1>1, <1>2, <1>6 DEF Exploring, OnTheWay
  <2>3. \A k \in DOMAIN stack' : \A d \in NodesIn(stack'[k].dirs) : Explored(d)
    BY <1>1, <1>4, <1>5 DEF Exploring, OnTheWay
  <2> QED
    BY <1>3, <2>1, <2>2, <2>3 DEF Exploring, OnTheWay, Moving
<1>8. FailedBehind'
  <2>1. ASSUME NEW u \in unlisted, NEW k \in 1..(n + 1) PROVE Apart(u, Listing(stack'[k]))
    BY <1>1, <1>4, <1>5, <2>1 DEF Exploring, FailedBehind, Apart
  <2>2. ASSUME NEW u \in unlisted PROVE Apart(u, {r.node})
    BY <1>1, <1>6, <2>2 DEF Exploring, FailedBehind, Apart
  <2>3. ASSUME NEW i \in 1..(n + 1) PROVE Above(i)' \notin unlisted
    <3>1. CASE i = n + 1
      BY <1>1, <2>2, <3>1 DEF Apart
    <3>2. CASE i \in 1..n
      BY <1>1, <1>3, <3>2 DEF Exploring, FailedBehind, Ended
    <3> QED
      BY <1>1, <3>1, <3>2
  <2> QED
    BY <1>1, <1>3, <2>1, <2>2, <2>3 DEF FailedBehind
<1>9. \A x : Past(x) => Past(x)'
  BY DescendPast
<1>10. ASSUME NEW x, Past(x)' PROVE Past(x)
  <2>1. r.node \notin Ancestors[x]
    BY <1>1, <1>3, <1>10 DEF Past
  <2>2. Listing(stack[n]) = Listing(stack'[n]) \cup {r.node}
    BY <1>1 DEF Listing
  <2>3. \A k \in 1..n : x \notin stack[k].todo /\ Ancestors[x] \cap Listing(stack[k]) = {}
    BY <1>1, <1>5, <1>10, <2>1, <2>2 DEF Past
  <2> QED
    BY <1>1, <1>3, <2>3 DEF Past
<1>11. Justified' /\ Complete'
  BY <1>3, <1>9, <1>10, Onward DEF Exploring, Ended
<1> QED
  BY <1>7, <1>8, <1>11 DEF Exploring

LEMMA LeaveExploring == Inv /\ Exploring /\ Leave => Exploring'
<1> SUFFICES ASSUME Inv, Exploring, Leave PROVE Exploring'
  OBVIOUS
<1>1. /\ pc = "leave"
      /\ UNCHANGED <<rules, emitted, context, timeoutFlag, unlisted>>
      /\ IF Depth = 0 THEN pc' = "finish" /\ UNCHANGED <<stack, path>> ELSE pc' = "dirs"
  BY DEF Leave, graphVars
<1>2. CASE Depth = 0
  <2>1. pc' = "finish" /\ UNCHANGED <<stack, path>>
    BY <1>1, <1>2
  <2>2. \A x : Past(x)' <=> Past(x)
    BY <1>1, <2>1 DEF Past
  <2>3. Listing(Top)' = Listing(Top)
    BY <2>1 DEF Listing, Top
  <2>4. Justified' /\ Complete'
    BY <1>1, <2>1, <2>2, <2>3, Onward DEF Exploring, Complete, Ended
  <2>5. FailedBehind'
    BY <1>1, <2>1, StillBehind DEF Exploring, Ended
  <2>6. OnTheWay'
    BY <1>1, <2>1, StillOnTheWay DEF Exploring, Moving
  <2> QED
    BY <2>4, <2>5, <2>6 DEF Exploring
<1>3. CASE Depth # 0
  <2> DEFINE n == Len(stack)
             m == n - 1
  <2>0. n \in Nat /\ m \in Nat /\ n = Len(stack) /\ m = n - 1
    BY <1>1, <1>3, LengthIsNatural
  <2> HIDE DEF n, m
  <2>1. /\ DOMAIN stack = 1..n /\ DOMAIN stack' = 1..m
        /\ 1..n = 1..m \cup {n} /\ n \notin 1..m /\ m \in 1..m /\ n # m /\ Top = stack[n]
        /\ \A k \in 1..m : k # m => stack'[k] = stack[k]
        /\ stack'[m].todo = stack[m].todo /\ stack'[m].dirs = stack[m].dirs
        /\ DOMAIN path = 1..m /\ DOMAIN path' = 1..(m - 1)
        /\ \A i \in 1..(m - 1) : path'[i] = path[i]
        /\ \A i \in 1..m : Above(i)' = Above(i)
    BY <1>3, <2>0, LeaveFacts
  <2>2. 1..(m - 1) \subseteq 1..m
    BY <2>0
  <2>3. pc' = "dirs"
    BY <1>1, <1>3
  <2>4. \A k \in 1..m : /\ stack'[k].todo = stack[k].todo /\ stack'[k].dirs = stack[k].dirs
                        /\ Listing(stack'[k]) = Listing(stack[k])
    BY <2>1 DEF Listing
  <2>5. \A x : Past(x) => Past(x)'
    BY <1>1, <2>1, <2>3, <2>4, PastFewer
  <2>6. OnTheWay'
    <3>1. ShareExplored' = ShareExplored /\ \A a : Explored(a)' = Explored(a)
      BY <1>1, SameRules
    <3>2. \A i \in DOMAIN path' : Explored(path'[i].node)
      BY <2>1, <2>2 DEF Exploring, OnTheWay
    <3>3. \A k \in DOMAIN stack' : \A d \in NodesIn(stack'[k].dirs) : Explored(d)
      BY <2>1, <2>4 DEF Exploring, OnTheWay
    <3> QED
      BY <1>1, <2>3, <3>1, <3>2, <3>3 DEF Exploring, OnTheWay, Moving
  <2>7. FailedBehind'
    <3>1. \A u \in unlisted : \A k \in 1..m : Apart(u, Listing(stack'[k]))
      BY <2>1, <2>4 DEF Exploring, FailedBehind
    <3>2. \A i \in 1..m : Above(i) \notin unlisted
      BY <2>0, <2>1 DEF Exploring, FailedBehind
    <3> QED
      BY <1>1, <2>1, <2>3, <3>1, <3>2 DEF FailedBehind
  <2>8. ASSUME ~ timeoutFlag, NEW x, Past(x)' PROVE Past(x)
    <3>1. stack[n].todo = {} /\ Listing(stack[n]) = {}
      BY <1>1, <2>1, <2>8 DEF Exploring, Complete, Ended, Listing
    <3>2. \A k \in 1..m : x \notin stack[k].todo /\ Ancestors[x] \cap Listing(stack[k]) = {}
      BY <2>1, <2>4, <2>8 DEF Past
    <3> QED
      BY <1>1, <2>1, <3>1, <3>2 DEF Past
  <2>9. Justified' /\ Complete'
    BY <1>1, <2>3, <2>5, <2>8, Onward DEF Exploring, Ended
  <2> QED
    BY <2>6, <2>7, <2>9 DEF Exploring
<1> QED
  BY <1>2, <1>3

LEMMA OtherExploring ==
  ASSUME Inv, Exploring, EndDirs \/ Finish \/ Timeout \/ UNCHANGED vars
  PROVE  Exploring'
<1>1. /\ UNCHANGED <<rules, stack, path, emitted, context, unlisted>>
      /\ \/ pc = "dirs" /\ pc' = "leave" /\ timeoutFlag' = timeoutFlag
            /\ (Top.dirs = <<>> \/ timeoutFlag)
         \/ pc = "finish" /\ pc' = "done" /\ timeoutFlag' = timeoutFlag
         \/ pc' = pc /\ timeoutFlag' = TRUE
         \/ pc' = pc /\ timeoutFlag' = timeoutFlag
  BY DEF EndDirs, Finish, Timeout, vars, graphVars
<1>2. OnTheWay'
  BY <1>1, StillOnTheWay DEF Exploring, Moving
<1>3. FailedBehind'
  BY <1>1, StillBehind DEF Exploring, Ended
<1>4. \A x : Past(x)' <=> Past(x)
  BY <1>1 DEF Past, Here, Above
<1>5. Listing(Top)' = Listing(Top)
  BY <1>1 DEF Listing, Top
<1>6. pc = "dirs" /\ Top.dirs = <<>> => Listing(Top) = {}
  <2> SUFFICES ASSUME pc = "dirs", Top.dirs = <<>> PROVE Listing(Top) = {}
    OBVIOUS
  <2>1. Len(stack) \in DOMAIN stack /\ StackOK
    BY WhileExploring
  <2>2. Top.todo = {}
    BY <2>1 DEF StackOK, Top
  <2> QED
    BY <2>2 DEF Listing, NodesIn
<1>7. Justified' /\ Complete'
  <2>1. ASSUME ~ timeoutFlag', pc' \in Ended PROVE Listing(Top)' = {}
    BY <1>1, <1>5, <1>6, <2>1 DEF Exploring, Complete, Ended
  <2> QED
    BY <1>1, <1>4, <2>1, Onward DEF Exploring
<1> QED
  BY <1>2, <1>3, <1>7 DEF Exploring

LEMMA NextExploring ==
  ASSUME Inv, OwnRules => Exploring, [Next]_vars
  PROVE  (OwnRules => Exploring)'
<1>1. rules' = rules
  BY DEF Next, Start, Enter, VisitDirectory, VisitFile, EndEntries, Descend, EndDirs, Leave,
         Finish, Timeout, Terminated, vars
<1>2. OwnRules' = OwnRules
  BY <1>1, SameRules
<1> SUFFICES ASSUME OwnRules PROVE Exploring'
  BY <1>2
<1>3. CASE Start
  BY <1>3, StartExploring
<1>4. CASE Enter
  BY <1>4, EnterExploring
<1>5. ASSUME NEW d \in Dir, VisitDirectory(d) PROVE Exploring'
  BY <1>5, VisitDirectoryExploring
<1>6. ASSUME NEW f \in Entry, VisitFile(f) PROVE Exploring'
  BY <1>6, VisitFileExploring
<1>7. CASE EndEntries
  BY <1>7, EndEntriesExploring
<1>8. CASE Descend
  BY <1>8, DescendExploring
<1>9. CASE EndDirs \/ Finish \/ Timeout \/ UNCHANGED vars
  BY <1>9, OtherExploring
<1>10. CASE Leave
  BY <1>10, LeaveExploring
<1> QED
  BY <1>3, <1>4, <1>5, <1>6, <1>7, <1>8, <1>9, <1>10 DEF Next, Terminated

\* Under rules that look at nothing but the object they decide on and where it is, an
\* exploration adds to the graph what they want and the directories that lead to it,
\* and nothing else; without a timeout, all of that, whatever could not be listed.
THEOREM ExploredCompletely == Spec => []ExploresAll
<1>1. ASSUME Inv, OwnRules => Exploring PROVE ExploresAll
  <2> SUFFICES ASSUME OwnRules
               PROVE  /\ Nodes(emitted) \cap Entry \subseteq Expected
                      /\ pc = "done" /\ ~ timeoutFlag => Expected \subseteq Nodes(emitted) \cap Entry
    BY EmittedAreNodes DEF ExploresAll
  <2>1. Exploring
    BY <1>1
  <2>2. ASSUME NEW e \in Nodes(emitted) \cap Entry PROVE e \in Expected
    <3>1. PICK w \in Wanted : e = w \/ e \in Ancestors[w]
      BY <2>1, <2>2 DEF Exploring, Justified
    <3>2. w \in Entry
      BY DEF Wanted
    <3>3. e \in Ancestors[w] => e \in Dir
      BY <2>2, <3>2, AncestorsClosed, TraversalAssumption
    <3> QED
      BY <3>1, <3>3 DEF Expected
  <2>3. ASSUME pc = "done", ~ timeoutFlag, NEW w \in Wanted
        PROVE  w \in Nodes(emitted) \cap Entry /\ Ancestors[w] \cap Dir \subseteq Nodes(emitted)
    <3>1. stack \in Seq(Frame) /\ Len(stack) = 1
      BY <1>1, <2>3 DEF Inv, TypeOK, ShapeOK
    <3>2. DOMAIN stack = {1} /\ Top = stack[1]
      BY <3>1 DEF Top
    <3>3. Listing(stack[1]) = {}
      BY <2>1, <2>3, <3>2 DEF Exploring, Complete, Ended
    <3>4. Past(w)
      BY <2>3, <3>2, <3>3 DEF Past, Listing
    <3>5. w \in Nodes(emitted) /\ w \in Entry
      BY <2>1, <2>3, <3>4 DEF Exploring, Complete, Wanted
    <3> QED
      BY <2>1, <3>5 DEF Exploring, Justified
  <2>4. Dir \subseteq Entry
    BY TraversalAssumption
  <2> QED
    BY <2>2, <2>3, <2>4 DEF Expected
<1>2. Init => (OwnRules => Exploring)
  BY InitExploring
<1>3. Inv /\ (OwnRules => Exploring) /\ [Next]_vars => (OwnRules => Exploring)'
  BY NextExploring
<1> QED
  BY <1>1, <1>2, <1>3, Exploration, PTL DEF Spec
=============================================================================
