------------------------------ MODULE MCShareQL ------------------------------
(***************************************************************************)
(* Instances of ShareQLStart for TLC.  Unicode ends at 12 here, with 8 and *)
(* 9 for surrogates, 11 for the replacement character and 3 for a capital  *)
(* whose small letter is 5; runes have five bits.                          *)
(***************************************************************************)
EXTENDS ShareQLStart

MCToken    == STRING
MCLower    == 3 :> 5
MCFold(w)  == IF w = "Salt" THEN "salt" ELSE w
MCNumberOf == "1" :> 1 @@ "6" :> 6 @@ "20" :> 20

\* A word in UTF-8, and what two readings of its bytes as characters make of it.
MCRecode == "caf<c3a9>" :> "caf<c383><c2a9>"
              @@ "caf<c383><c2a9>" :> "caf<c383><c283><c382><c2a9>"

\* Of regular expressions: literals, groups, and a repetition of nothing, which is none.
MCCompiles(p)   == p.text = <<>> \/ Head(p.text) # "*"
MCMatches(p, s) ==
  LET sought == SelectSeq(p.text, LAMBDA x : x \notin {"(", ")"})
  IN  \E i \in 1..(Len(s.text) - Len(sought) + 1) :
         SubSeq(s.text, i, i + Len(sought) - 1) = sought

\* A condition with its parts, and two of them made into one.
Shift(c, n) ==
  [i \in DOMAIN c |-> IF c[i].kind \in {"is", "broken"} THEN c[i]
                     ELSE [c[i] EXCEPT !.of = [k \in DOMAIN @ |-> @[k] + n]]]
Not(c)            == Append(c, Joint("not", <<Len(c)>>))
Both(kind, c, d)  == c \o Shift(d, Len(c)) \o <<Joint(kind, <<Len(c), Len(c) + Len(d)>>)>>
And(c, d)         == Both("and", c, d)
Or(c, d)          == Both("or", c, d)
Only(f, k, value) == <<Is(f, k, value)>>

Name(words) == String(words)
Pepper      == <<"salt", " ", "AND", " ", "pepper">>
Hidden      == Only("SHARE.HIDDEN", "=", Bool(TRUE))
AdminShare  == Only("SHARE.NAME", "IN", List(<<Name(<<"c$">>), Name(<<"adm", "IN", "$">>)>>))
Seasoned    == Only("FILE.NAME", "=", Name(Pepper))
NotListed   == Only("FILE.NAME", "NOT IN", List(<<Name(<<"a", ",", "b">>), Name(<<"MA", "IN">>)>>))
Matching(p) == Only("FILE.NAME", "MATCHES", Name(p))
Readable    == Matching(<<"(", "IN", ")">>)
Cafe        == Only("FILE.NAME", "=", Name(<<"caf<c3a9>">>))
NotTheirs   == Only("DIR.NAME", "!=", Name(<<"o", "'", "neill", " ", "(", "=", ")">>))
Deep        == Only("DEPTH", ">", Number(1))
UpTo(n)     == Only("FILE.SIZE", "<=", Number(n))
Exactly(n)  == Only("FILE.SIZE", "=", Number(n))

Simple   == {Hidden, AdminShare, Seasoned, NotListed, Readable, NotTheirs, Deep, UpTo(6)}
Few      == {AdminShare, Seasoned, Deep}
Pairs(S) == {And(c, d) : c \in S, d \in S} \cup {Or(c, d) : c \in S, d \in S}
Conditions ==
  Simple \cup {Not(c) : c \in Simple} \cup Pairs(Simple)
    \cup {Not(c) : c \in Pairs(Few)}
    \cup {And(c, d) : c \in Pairs(Few) \cup {Not(c) : c \in Few}, d \in Few}
    \cup {Or(d, c) : c \in Pairs(Few) \cup {Not(c) : c \in Few}, d \in Few}
    \cup {Cafe, Not(Cafe), Matching(<<"*">>), Matching(<<"caf<c3a9>">>)}

\* One rule; several, with a comment, or with a line that is at fault.
Comment   == Other(<<"#", " ", "DENY">>, FALSE)
Mistakes  == {Other(<<"MAYBE", " ", "EXPLORATION">>, TRUE), DefaultLine("MAYBE"),
              Line(FALSE, "PROCESSING", <<Broken("FILE.SIZE")>>),
              Line(FALSE, "", And(<<Broken("DEPTH")>>, Not(UpTo(6))))}
Several   == <<DefaultLine("ALLOW"), Line(FALSE, "EXPLORATION", AdminShare), Comment,
               Line(FALSE, "PROCESSING", Or(UpTo(6), Deep)),
               Line(TRUE, "PROCESSING", Not(Seasoned)), DefaultLine("DENY")>>
Untold    == <<DefaultLine("ALLOW"), Line(FALSE, "EXPLORATION", AdminShare),
               Line(TRUE, "EXPLORATION", <<>>), Line(FALSE, "", Hidden)>>
Careless  == <<Loose(FALSE, "PROCESSING", <<"IF">>), Line(TRUE, "", <<>>)>>
Wordy     == <<Loose(TRUE, "", <<"FILE.SIZE", " ", ">", " ", "20">>), DefaultLine("DENY")>>
Documents ==
  {<<DefaultLine("DENY"), Line(TRUE, "PROCESSING", c)>> : c \in Conditions}
    \cup {<<Line(FALSE, "EXPLORATION", c)>> : c \in Simple}
    \cup {Several, Untold, Careless, Wordy}
    \cup {<<bad, Line(FALSE, "EXPLORATION", Deep)>> : bad \in Mistakes}

\* Rules given one by one, in files, and in both; and files that are empty or missing.
CommandLine(files, ofFiles, ofOptions) ==
  [files |-> files, ofFiles |-> ofFiles, ofOptions |-> ofOptions]
ByOptions(documents) == {CommandLine("none", <<>>, lines) : lines \in documents}
MCCommandLines ==
  ByOptions(Documents \cup {<<>>})
    \cup {CommandLine(files, lines, Several) :
             files \in {"read", "unreadable"}, lines \in {<<>>, Untold, Careless}}
    \cup {CommandLine("read", <<bad>>, Untold) : bad \in Mistakes}

LargeCommandLines ==
  ByOptions({<<DefaultLine("DENY"), Line(TRUE, "PROCESSING", c)>> :
               c \in {UpTo(6), UpTo(20), Exactly(6), Exactly(20)}})

ShareObject(name, hidden) == "SHARE.NAME" :> name @@ "SHARE.HIDDEN" :> hidden
MCShares == {ShareObject(Name(<<"c$">>), Bool(TRUE))}
File(name, size) == "FILE.NAME" :> name @@ "FILE.SIZE" :> Number(size)
MCFiles  == {File(Name(Pepper), 2), File(Name(<<"MA", "IN">>), 6),
             File(Name(<<"Salt", " ", "AND", " ", "pepper">>), 21), File(Name(<<"caf<c3a9>">>), 1)}
MCDirs   == {"DIR.NAME" :> Name(<<"o", "'", "neill", " ", "(", "=", ")">>)}
MCDepths == {2}
=============================================================================
