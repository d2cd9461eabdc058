---------------------------- MODULE DirentPaths ----------------------------
(***************************************************************************)
(* The paths dirent.cpp builds (src/windows/src/dirent/dirent.cpp):        *)
(* opendir checks the caller's path with GetFileAttributesW, then adds     *)
(* the extended-length prefix \\?\ (prepare_dir_path) and the wildcard     *)
(* (create_search_path) for FindFirstFileW; readdir joins the stored path  *)
(* and the entry's name for get_file_index.                                *)
(*                                                                         *)
(* A path is a sequence of characters from a small alphabet: the letters   *)
(* of Letters, "sep" for '\', "slash" for '/', "colon" for ':', "q" for    *)
(* '?' and "star" for '*'.  The volume is drive a:, the process's current  *)
(* directory is its root, and every path made of Letters names an existing *)
(* directory that holds an entry named a.                                  *)
(*                                                                         *)
(* The Windows side follows the documented rules (Naming Files, Paths, and *)
(* Namespaces): a path without the \\?\ prefix is made absolute against   *)
(* the current directory, '/' becomes '\' and repeated and trailing        *)
(* separators are dropped; a path with the prefix is passed on verbatim,  *)
(* so it must be absolute, with single '\' separators.                     *)
(***************************************************************************)
EXTENDS Naturals, Sequences, SequencesExt

CONSTANTS
  Letters,   \* characters of entry names; "a" is one of them
  Inputs     \* the paths the caller passes to opendir

ASSUME DirentPathsAssumption ==
  /\ "a" \in Letters
  /\ Letters \cap {"sep", "slash", "colon", "q", "star"} = {}

(* Results that are not paths, as sequences so that TLC compares them    *)
(* with paths.                                                             *)
Invalid == <<"invalid">>   \* the Windows call fails on this path
NoIndex == <<"0">>         \* get_file_index's 0
None == <<"none">>         \* readdir not called yet

Root == <<"a", "colon", "sep">>
Prefix == <<"sep", "sep", "q", "sep">>

(* An absolute path of drive a: as the file system stores it: the root,   *)
(* then names separated by single separators, no trailing separator; the  *)
(* last name may be the wildcard.                                          *)
WellFormed(r) ==
  LET t == SubSeq(r, 4, Len(r)) IN
  /\ IsPrefix(Root, r)
  /\ \A i \in 1..Len(t) : t[i] \in Letters \cup {"sep"} \/ (t[i] = "star" /\ i = Len(t))
  /\ \A i \in 1..Len(t) - 1 : ~(t[i] = "sep" /\ t[i + 1] = "sep")
  /\ t = <<>> \/ (t[1] # "sep" /\ Last(t) # "sep")

(* What a \\?\ path names: the rest of it, taken as it is. *)
Verbatim(s) ==
  LET r == SubSeq(s, 5, Len(s)) IN
  IF IsPrefix(Prefix, s) /\ WellFormed(r) THEN r ELSE Invalid

(* Win32 normalisation of a path without the prefix. *)
Collapse(s) ==
  LET keep == SelectSeq([i \in 1..Len(s) |-> i],
                        LAMBDA i : ~(i > 1 /\ s[i] = "sep" /\ s[i - 1] = "sep"))
  IN [k \in 1..Len(keep) |-> s[keep[k]]]
Absolute(s) ==
  IF IsPrefix(<<"a", "colon">>, s)
    THEN IF Len(s) > 2 /\ s[3] = "sep" THEN s ELSE Root \o SubSeq(s, 3, Len(s))
  ELSE IF s # <<>> /\ s[1] = "sep" THEN <<"a", "colon">> \o s
  ELSE Root \o s
Resolve(p) ==
  LET u == Absolute(Collapse([i \in 1..Len(p) |-> IF p[i] = "slash" THEN "sep" ELSE p[i]]))
      v == IF Len(u) > 3 /\ Last(u) = "sep" THEN Front(u) ELSE u
  IN IF p = <<>> \/ (Len(p) > 1 /\ {p[1], p[2]} \subseteq {"sep", "slash"})
       \/ ~WellFormed(v)
       THEN Invalid ELSE v

(* The directory GetFileAttributesW (line 200) looks at. *)
FullName(p) == IF IsPrefix(Prefix, p) THEN Verbatim(p) ELSE Resolve(p)

(* Name n in directory d, as the file system spells it. *)
Join(d, n) == IF d = Root THEN d \o n ELSE d \o <<"sep">> \o n

-----------------------------------------------------------------------------
(* Variant of prepare_dir_path without the check of line 124: the prefix *)
(* is added again to a path that already has it.                          *)
PrepareDirPathAlways(p) == Prefix \o p

(* prepare_dir_path, lines 121-130: add \\?\ unless the path has it. *)
PrepareDirPath(p) == IF IsPrefix(Prefix, p) THEN p ELSE Prefix \o p

(* create_search_path, lines 132-140: a separator unless the path ends    *)
(* in one, then the wildcard.                                              *)
CreateSearchPath(d) ==
  (IF d # <<>> /\ Last(d) # "sep" THEN Append(d, "sep") ELSE d) \o <<"star">>

(* readdir's fullPath, line 283: path + L"\\" + cFileName. *)
FullPath(d, n) == d \o <<"sep">> \o n

(* get_file_index, lines 91-107: the file's identity (its index, here its *)
(* name on the volume) when CreateFileW opens it, 0 when it fails.  The  *)
(* entry exists, so GetFileInformationByHandle succeeds.                  *)
GetFileIndex(path) == IF Verbatim(path) # Invalid THEN Verbatim(path) ELSE NoIndex

VARIABLES
  arg,         \* opendir's argument
  dirPath,     \* InternalDir::path
  searchPath,  \* InternalDir::search_path
  ino          \* d_ino of the entry a, once readdir returned it

vars == <<arg, dirPath, searchPath, ino>>

(* opendir, lines 186-237, on a path GetFileAttributesW accepts as a       *)
(* directory (lines 199-208); the other returns are modelled in Dirent.   *)
Init ==
  /\ arg \in {p \in Inputs : FullName(p) # Invalid}
  /\ dirPath = PrepareDirPath(arg)
  /\ searchPath = CreateSearchPath(dirPath)
  /\ ino = None

(* readdir returning the entry a (lines 281-286), on a stream whose       *)
(* FindFirstFileW succeeded (line 221).                                    *)
ReadEntry ==
  /\ Verbatim(searchPath) # Invalid
  /\ ino = None
  /\ ino' = GetFileIndex(FullPath(dirPath, <<"a">>))
  /\ UNCHANGED <<arg, dirPath, searchPath>>

Next == ReadEntry

Spec == Init /\ [][Next]_vars

-----------------------------------------------------------------------------
(* opendir enumerates the directory it checked: FindFirstFileW is given   *)
(* the wildcard of the very directory GetFileAttributesW found, for every *)
(* spelling of that directory the caller may use.                          *)
SearchSameDirectory ==
  Verbatim(searchPath) = Join(FullName(arg), <<"star">>)

(* readdir's d_ino is the index of the entry it returns, as the header    *)
(* promises ("d_ino is implemented using Windows file index"), never 0.   *)
(* No run checks it: on the test spellings it only restates line 283, and *)
(* the spellings that end in a separator (the hazard at line 283) violate *)
(* it, which Inputs <- MCAnySpelling shows.                                *)
EntryIndexed ==
  ino # None => ino = Join(FullName(arg), <<"a">>)
=============================================================================
