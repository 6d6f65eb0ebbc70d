------------------------------- MODULE Rights -------------------------------
(***************************************************************************)
(* From the access control list of a share, a file or a directory to the   *)
(* edges of the graph: what the parser keeps of the list                   *)
(* (Go/internal/smb/security_descriptor.go), the kinds of edges that a     *)
(* mask stands for and the accesses that two lists grant together          *)
(* (access_mask.go), and the collection of both (collector/share_rights.go *)
(* and ntfs_rights.go).                                                    *)
(*                                                                         *)
(* A mask is a set of bits.  Of the bits that only have edges of their own *)
(* "delete" stands for all, and "synchronize" for those without an edge at *)
(* the share.                                                              *)
(***************************************************************************)
EXTENDS SequencesExt

CONSTANT Principal     \* whom an entry of a list may name by its SID

Bit == {"genericAll", "genericRead", "genericWrite", "genericExecute",
        "readData", "writeData", "execute", "delete", "synchronize"}

\* An entry as it stands in the list; sid is NoSid if it cannot be read, and a
\* cut entry is too short for what it says of itself.
NoSid == "none"

ASSUME PrincipalAssumption == NoSid \notin Principal

Ace(type, sid, mask) == [type |-> type, sid |-> sid, mask |-> mask, cut |-> FALSE]
CutAce               == [type |-> "allowed", sid |-> NoSid, mask |-> {}, cut |-> TRUE]

\* The types whose mask and SID are parsed; of object and callback entries neither is.
BasicTypes == {"allowed", "denied", "audit", "alarm"}

\* A descriptor: not to be had, without a list, or with one.
Unreadable == [read |-> FALSE, present |-> FALSE, aces |-> <<>>]
NoDacl     == [read |-> TRUE, present |-> FALSE, aces |-> <<>>]
Dacl(aces) == [read |-> TRUE, present |-> TRUE, aces |-> aces]

AceType == [type : BasicTypes \cup {"object", "callback"}, sid : Principal \cup {NoSid},
            mask : SUBSET Bit, cut : BOOLEAN]

DescriptorType ==
  {Unreadable, NoDacl} \cup [read : {TRUE}, present : {TRUE}, aces : Seq(AceType)]

\* ParseACL, which ends at the first entry that cannot be parsed.
ParseACL(aces) ==
  LET cut == SelectInSeq(aces, LAMBDA a : a.cut)
      Parse(a) == IF a.type \in BasicTypes THEN a ELSE [a EXCEPT !.sid = NoSid, !.mask = {}]
  IN  [i \in 1..(IF cut = 0 THEN Len(aces) ELSE cut - 1) |-> Parse(aces[i])]

ShareRightsMapping ==
  [CanGenericAll |-> "genericAll", CanGenericRead |-> "genericRead",
   CanGenericWrite |-> "genericWrite", CanGenericExecute |-> "genericExecute",
   CanDsCreateChild |-> "readData", CanDsDeleteChild |-> "writeData",
   CanDsWriteProperty |-> "execute",
   CanShareRead |-> "readData", CanShareWrite |-> "writeData",
   CanShareExecute |-> "execute", CanDelete |-> "delete"]

NTFSRightsMapping ==
  [CanNTFSGenericAll |-> "genericAll", CanNTFSGenericRead |-> "genericRead",
   CanNTFSGenericWrite |-> "genericWrite", CanNTFSGenericExecute |-> "genericExecute",
   CanNTFSReadData |-> "readData", CanNTFSWriteData |-> "writeData",
   CanNTFSExecute |-> "execute", CanNTFSDelete |-> "delete",
   CanNTFSSynchronize |-> "synchronize"]

\* GetShareRightsForMask and GetNTFSRightsForMask.
KindsForMask(mapping, mask) == {k \in DOMAIN mapping : mapping[k] \in mask}

\* ShareRights: each principal with the kinds of its edges, entry by entry, so that
\* two entries for a principal may name a kind twice.
RightsOf(mapping, descriptor) ==
  LET Granted(a) == IF a.type = "allowed" /\ a.sid # NoSid
                    THEN SetToSeq({<<a.sid, k>> : k \in KindsForMask(mapping, a.mask)})
                    ELSE <<>>
      aces == ParseACL(descriptor.aces)
  IN  IF descriptor.read /\ descriptor.present
      THEN FlattenSeq([i \in DOMAIN aces |-> Granted(aces[i])]) ELSE <<>>

CollectNTFSRights(descriptor) == RightsOf(NTFSRightsMapping, descriptor)

CollectShareRights(descriptor) == RightsOf(ShareRightsMapping, descriptor)

-----------------------------------------------------------------------------
\* Mutant: the generic right to everything is forgotten at the share.
NeededWithoutAll ==
  [CanEffectiveRead    |-> [share |-> {"CanGenericRead", "CanShareRead"},
                            ntfs  |-> {"CanNTFSGenericRead", "CanNTFSGenericAll", "CanNTFSReadData"}],
   CanEffectiveWrite   |-> [share |-> {"CanGenericWrite", "CanShareWrite"},
                            ntfs  |-> {"CanNTFSGenericWrite", "CanNTFSGenericAll", "CanNTFSWriteData"}],
   CanEffectiveExecute |-> [share |-> {"CanGenericExecute", "CanShareExecute"},
                            ntfs  |-> {"CanNTFSGenericExecute", "CanNTFSGenericAll", "CanNTFSExecute"}]]

\* The kinds at the share and in the file system one of which each access needs.
Needed ==
  [CanEffectiveRead    |-> [share |-> {"CanGenericRead", "CanGenericAll", "CanShareRead"},
                            ntfs  |-> {"CanNTFSGenericRead", "CanNTFSGenericAll", "CanNTFSReadData"}],
   CanEffectiveWrite   |-> [share |-> {"CanGenericWrite", "CanGenericAll", "CanShareWrite"},
                            ntfs  |-> {"CanNTFSGenericWrite", "CanNTFSGenericAll", "CanNTFSWriteData"}],
   CanEffectiveExecute |-> [share |-> {"CanGenericExecute", "CanGenericAll", "CanShareExecute"},
                            ntfs  |-> {"CanNTFSGenericExecute", "CanNTFSGenericAll", "CanNTFSExecute"}]]

\* For each principal: what the share and the file system both let it do.
ComputeEffectiveRights(share, ntfs) ==
  {e \in {r[1] : r \in ToSet(ntfs)} \X DOMAIN Needed :
     /\ \E t \in Needed[e[2]].share : <<e[1], t>> \in ToSet(share)
     /\ \E t \in Needed[e[2]].ntfs  : <<e[1], t>> \in ToSet(ntfs)}
=============================================================================
