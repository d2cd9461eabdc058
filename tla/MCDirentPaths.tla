--------------------------- MODULE MCDirentPaths ---------------------------
EXTENDS DirentPaths

MCLetters == {"a", "b"}

(* Absolute paths below the root, spelt with single '\' and no trailing   *)
(* separator, with and without \\?\: the forms the tests use (part_001,    *)
(* lines 73 and 240).                                                     *)
MCTestForms ==
  LET below == {t \in BoundedSeq(MCLetters \cup {"sep"}, 4) :
                  t # <<>> /\ WellFormed(Root \o t)}
  IN {Root \o t : t \in below} \cup {Prefix \o Root \o t : t \in below}

(* Every spelling of up to four characters: relative, drive-relative and  *)
(* rooted paths, '/' separators, doubled and trailing separators.         *)
MCAnySpelling ==
  BoundedSeq(MCLetters \cup {"sep", "slash", "colon"}, 4)
    \cup {Prefix \o s : s \in BoundedSeq(MCLetters \cup {"sep", "colon"}, 4)}
=============================================================================
