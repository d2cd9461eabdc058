------------------------------- MODULE Dirent -------------------------------
(***************************************************************************)
(* The POSIX directory-stream emulation for Windows in                    *)
(* src/windows/src/dirent/dirent.cpp: opendir, readdir, closedir,          *)
(* rewinddir, telldir and seekdir over FindFirstFileW / FindNextFileW.     *)
(*                                                                         *)
(* One caller thread owns one DIR stream (the header says a DIR is not     *)
(* thread-safe).  Another process may change or delete the directory       *)
(* between the caller's steps.  A find handle enumerates the directory as  *)
(* it was when FindFirstFileW opened it (snap); rewinddir re-opens it.     *)
(*                                                                         *)
(* The two loops of the code, readdir's "skip . and .." loop and           *)
(* seekdir's replay loop, are taken one iteration per step: pc says which  *)
(* call the caller is inside, and no other call starts before it returns.  *)
(***************************************************************************)
EXTENDS Integers, Sequences, FiniteSets

CONSTANTS
  Names,       \* entry names whose UTF-8 form fits in d_name[FILENAME_MAX]
  LongNames,   \* entry names whose UTF-8 form is FILENAME_MAX bytes or more
  Dot, DotDot, \* the "." and ".." entries the find enumeration returns
  NoDir,       \* the directory does not exist
  NoEntry,     \* readdir's nullptr
  Listings,    \* contents the directory starts with (sequences of entries)
  EnvStates,   \* contents another process may give it (NoDir: deleted)
  MaxHandles,  \* bound on find handles opened by FindFirstFileW
  MaxChanges,  \* bound on changes made by the other process
  MaxLoc       \* largest position the caller passes to seekdir

Entries == Names \cup LongNames \cup {Dot, DotDot}

ASSUME DirentAssumption ==
  /\ Names \cap LongNames = {}
  /\ {Dot, DotDot} \cap (Names \cup LongNames) = {}
  /\ Dot # DotDot
  /\ NoEntry \notin Entries
  /\ Listings # {}
  /\ Listings \subseteq Seq(Entries)
  /\ EnvStates \subseteq Seq(Entries) \cup {NoDir}
  /\ NoDir \notin Seq(Entries)
  /\ MaxHandles \in Nat
  /\ MaxChanges \in Nat
  /\ MaxLoc \in Nat

(* INVALID_HANDLE_VALUE; find handles are numbered 1, 2, ... as opened.   *)
Invalid == 0

(* The path opendir is called with: nullptr, a string that is not UTF-8,  *)
(* a regular file, or the directory this model follows.                   *)
Paths == {"null", "badUtf8", "file", "dir"}

(* utf8_to_wide, lines 110-113: a std::wstring_convert built without error *)
(* strings throws std::range_error on malformed UTF-8, so the conversion   *)
(* never returns the empty string opendir's check at line 194 looks for.  *)
Utf8ToWideThrows(p) == p = "badUtf8"

(* The Windows errors the enumeration calls can fail with here, and       *)
(* translate_windows_error_to_errno restricted to them.                   *)
WinErrors == {"ERROR_FILE_NOT_FOUND", "ERROR_PATH_NOT_FOUND", "ERROR_INVALID_HANDLE"}
(* Variant with the ERROR_PATH_NOT_FOUND case label missing (line 47):    *)
(* the error falls through to the default EIO.                            *)
TranslateErrorNoPath ==
  [w \in WinErrors |-> IF w = "ERROR_INVALID_HANDLE" THEN "EBADF"
                       ELSE IF w = "ERROR_FILE_NOT_FOUND" THEN "ENOENT" ELSE "EIO"]
TranslateError ==
  [w \in WinErrors |-> IF w = "ERROR_INVALID_HANDLE" THEN "EBADF" ELSE "ENOENT"]

Errnos == {"0", "EBADF", "EINVAL", "ENOENT", "ENOTDIR", "ENAMETOOLONG"}

(* What FindFirstFileW does with the directory's current contents.        *)
FindFirstOK(d) == d # NoDir /\ Len(d) > 0
FindFirstError(d) ==
  IF d = NoDir THEN "ERROR_PATH_NOT_FOUND" ELSE "ERROR_FILE_NOT_FOUND"

Seeks == -2..MaxLoc          \* seekdir arguments, -2 standing for any loc < -1

VARIABLES
  disk,     \* the directory's contents on disk, or NoDir
  changes,  \* changes made so far by the other process
  open,     \* the caller holds a DIR* returned by opendir
  dirp,     \* the InternalDir: handle, enumeration, first, end_reached, position
  errno,
  nextH,    \* find handles opened so far
  closes,   \* closes[h]: FindClose calls made on handle h
  pc,       \* the call the caller is inside: "idle", "readdir", "seekdir", "seekend"
  arg,      \* the argument of the seekdir call in progress
  left,     \* readdir calls seekdir still has to make
  told,     \* ghost: values telldir returned since opendir
  done      \* ghost: the last call that returned, [op, arg]; for readdir,
            \* arg is the entry it returned or NoEntry

vars == <<disk, changes, open, dirp, errno, nextH, closes, pc, arg, left,
          told, done>>

DirRec == [handle: 0..MaxHandles, snap: Seq(Entries), cur: Nat,
           first: BOOLEAN, end_reached: BOOLEAN, current_position: Nat]

(* telldir's value for an open stream. *)
Tell(d) == IF d.end_reached THEN -1 ELSE d.current_position

Ops == {"opendir", "readdir", "closedir", "rewinddir", "telldir", "seekdir", "null"}
Results == Int \cup Entries \cup {NoEntry}

TypeOK ==
  /\ disk \in Listings \cup EnvStates
  /\ changes \in 0..MaxChanges
  /\ open \in BOOLEAN
  /\ dirp \in DirRec
  /\ errno \in Errnos
  /\ nextH \in 0..MaxHandles
  /\ closes \in [1..MaxHandles -> Nat]
  /\ pc \in {"idle", "readdir", "seekdir", "seekend"}
  /\ arg \in Seeks
  /\ left \in 0..MaxLoc
  /\ told \subseteq Int
  /\ done \in [op: Ops, arg: Results]

-----------------------------------------------------------------------------
(* A DIR made by make_unique<DIR>(), lines 175-184: its InternalDir has   *)
(* no find handle, first set, not at the end, at position 0.              *)
NewDir == [handle |-> Invalid, snap |-> <<>>, cur |-> 1, first |-> TRUE,
           end_reached |-> FALSE, current_position |-> 0]

Init ==
  /\ disk \in Listings
  /\ changes = 0
  /\ open = FALSE
  /\ dirp = NewDir
  /\ errno = "0"
  /\ nextH = 0
  /\ closes = [h \in 1..MaxHandles |-> 0]
  /\ pc = "idle"
  /\ arg = 0
  /\ left = 0
  /\ told = {}
  /\ done = [op |-> "opendir", arg |-> 0]

(* FindClose on the stream's handle if it holds one. *)
CloseHandle(h) ==
  closes' = IF h # Invalid THEN [closes EXCEPT ![h] = @ + 1] ELSE closes

(* opendir(name), lines 186-237. *)
OpenDir(p) ==
  /\ pc = "idle" /\ ~open
  /\ nextH < MaxHandles
  /\ done' = [op |-> "opendir", arg |-> 0]
  /\ IF p = "null" \/ Utf8ToWideThrows(p) \/ p = "file" \/ ~FindFirstOK(disk)
       THEN \* nullptr (EINVAL), a name that is not UTF-8 (std::range_error
            \* leaves opendir, errno untouched), a path that is not a
            \* directory, a missing directory (GetFileAttributesW) or an empty
            \* enumeration (FindFirstFileW): no DIR is returned
            /\ errno' = IF p = "null" THEN "EINVAL"
                        ELSE IF Utf8ToWideThrows(p) THEN errno
                        ELSE IF p = "file" THEN "ENOTDIR"
                        ELSE TranslateError[FindFirstError(disk)]
            /\ UNCHANGED <<open, dirp, nextH, told>>
       ELSE /\ open' = TRUE
            /\ nextH' = nextH + 1
            \* NewDir with the find handle and its first data filled in
            /\ dirp' = [handle |-> nextH + 1, snap |-> disk, cur |-> 1,
                        first |-> TRUE, end_reached |-> FALSE,
                        current_position |-> 0]
            /\ told' = {}
            /\ UNCHANGED errno
  /\ UNCHANGED <<disk, changes, closes, pc, arg, left>>

(* Variant of Rewind whose new find data keeps the old position.         *)
RewindKeepsPosition ==
  /\ nextH < MaxHandles
  /\ CloseHandle(dirp.handle)
  /\ IF FindFirstOK(disk)
       THEN /\ nextH' = nextH + 1
            /\ dirp' = [handle |-> nextH + 1, snap |-> disk, cur |-> 1, first |-> TRUE,
                        end_reached |-> FALSE,
                        current_position |-> dirp.current_position]
            /\ UNCHANGED errno
       ELSE /\ dirp' = [dirp EXCEPT !.handle = Invalid]
            /\ errno' = TranslateError[FindFirstError(disk)]
            /\ UNCHANGED nextH

(* The body of rewinddir on an open stream, lines 314-325: close the find *)
(* handle, open a new one; on failure the handle is INVALID and first,    *)
(* end_reached and the position are left as they were.                    *)
Rewind ==
  /\ nextH < MaxHandles
  /\ CloseHandle(dirp.handle)
  /\ IF FindFirstOK(disk)
       THEN /\ nextH' = nextH + 1
            /\ dirp' = [handle |-> nextH + 1, snap |-> disk, cur |-> 1, first |-> TRUE,
                        end_reached |-> FALSE, current_position |-> 0]
            /\ UNCHANGED errno
       ELSE /\ dirp' = [dirp EXCEPT !.handle = Invalid]
            /\ errno' = TranslateError[FindFirstError(disk)]
            /\ UNCHANGED nextH

(* rewinddir(dirp), lines 308-326. *)
RewindDir ==
  /\ pc = "idle" /\ open
  /\ Rewind
  /\ done' = [op |-> "rewinddir", arg |-> 0]
  /\ UNCHANGED <<disk, changes, open, pc, arg, left, told>>

(* Variant of CloseDir whose InternalDir destructor forgets FindClose.   *)
CloseDirLeak ==
  /\ pc = "idle" /\ open
  /\ open' = FALSE
  /\ done' = [op |-> "closedir", arg |-> 0]
  /\ UNCHANGED <<disk, changes, dirp, errno, nextH, closes, pc, arg, left, told>>

(* closedir(dirp), lines 295-306: deleting the DIR runs ~InternalDir,     *)
(* which closes a valid find handle.                                       *)
CloseDir ==
  /\ pc = "idle" /\ open
  /\ open' = FALSE
  /\ CloseHandle(dirp.handle)
  /\ done' = [op |-> "closedir", arg |-> 0]
  /\ UNCHANGED <<disk, changes, dirp, errno, nextH, pc, arg, left, told>>

(* telldir(dirp), lines 328-334. *)
TellDir ==
  /\ pc = "idle" /\ open
  /\ told' = told \cup {Tell(dirp)}
  /\ done' = [op |-> "telldir", arg |-> Tell(dirp)]
  /\ UNCHANGED <<disk, changes, open, dirp, errno, nextH, closes, pc, arg, left>>

(* Any of the calls made with a null DIR*: errno = EBADF, lines 240-243,  *)
(* 296-299, 309-312, 329-332, 337-340.                                     *)
NullCall ==
  /\ pc = "idle" /\ ~open
  /\ errno' = "EBADF"
  /\ done' = [op |-> "null", arg |-> 0]
  /\ UNCHANGED <<disk, changes, open, dirp, nextH, closes, pc, arg, left, told>>

(* readdir(dirp) starts; its first check (end_reached) is made by the     *)
(* first iteration.                                                        *)
ReadDir ==
  /\ pc = "idle" /\ open
  /\ pc' = "readdir"
  /\ UNCHANGED <<disk, changes, open, dirp, errno, nextH, closes, arg, left, told, done>>

(* seekdir(dirp, loc), lines 336-361, up to its loop. *)
SeekDir(loc) ==
  /\ pc = "idle" /\ open
  /\ arg' = loc
  /\ CASE loc = 0 ->
            Rewind /\ done' = [op |-> "seekdir", arg |-> 0]
            /\ UNCHANGED <<pc, left>>
       [] loc = -1 ->
            pc' = "seekend" /\ UNCHANGED <<dirp, errno, nextH, closes, left, done>>
       [] loc > 0 ->
            Rewind /\ pc' = "seekdir" /\ left' = loc /\ UNCHANGED done
       [] OTHER ->
            errno' = "EINVAL" /\ done' = [op |-> "seekdir", arg |-> loc]
            /\ UNCHANGED <<dirp, nextH, closes, pc, left>>
  /\ UNCHANGED <<disk, changes, open, told>>

-----------------------------------------------------------------------------
(* Variant of Iterate that sets errno = ENOENT at the end of the         *)
(* directory (line 253), as the header's "@retval ENOENT No more          *)
(* directory entries" (part_004 line 121) documents.                       *)
IterateEndErrno(d, e) ==
  IF d.end_reached
    THEN [d |-> d, again |-> FALSE, ret |-> NoEntry, err |-> e]
  ELSE IF ~d.first /\ d.handle = Invalid
    THEN [d |-> d, again |-> FALSE, ret |-> NoEntry,
          err |-> TranslateError["ERROR_INVALID_HANDLE"]]
  ELSE IF ~d.first /\ d.cur >= Len(d.snap)
    THEN [d |-> [d EXCEPT !.end_reached = TRUE], again |-> FALSE,
          ret |-> NoEntry, err |-> "ENOENT"]
  ELSE LET i  == IF d.first THEN d.cur ELSE d.cur + 1
           d1 == [d EXCEPT !.cur = i, !.first = FALSE]
       IN IF d.snap[i] \in {Dot, DotDot}
            THEN [d |-> d1, again |-> TRUE, ret |-> NoEntry, err |-> e]
          ELSE IF d.snap[i] \in LongNames
            THEN [d |-> d1, again |-> FALSE, ret |-> NoEntry, err |-> "ENAMETOOLONG"]
          ELSE [d |-> [d1 EXCEPT !.current_position = @ + 1], again |-> FALSE,
                ret |-> d.snap[i], err |-> e]

(* One pass of readdir's loop, lines 245-291, on stream d with errno e:   *)
(* the new stream, whether the loop goes round again (a "." or ".."),     *)
(* what readdir returns and the errno it leaves.                           *)
Iterate(d, e) ==
  IF d.end_reached
    THEN [d |-> d, again |-> FALSE, ret |-> NoEntry, err |-> e]
  ELSE IF ~d.first /\ d.handle = Invalid      \* FindNextFileW fails
    THEN [d |-> d, again |-> FALSE, ret |-> NoEntry,
          err |-> TranslateError["ERROR_INVALID_HANDLE"]]
  ELSE IF ~d.first /\ d.cur >= Len(d.snap)    \* ERROR_NO_MORE_FILES
    THEN [d |-> [d EXCEPT !.end_reached = TRUE], again |-> FALSE,
          ret |-> NoEntry, err |-> e]
  ELSE LET i  == IF d.first THEN d.cur ELSE d.cur + 1
           d1 == [d EXCEPT !.cur = i, !.first = FALSE]
       IN IF d.snap[i] \in {Dot, DotDot}
            THEN [d |-> d1, again |-> TRUE, ret |-> NoEntry, err |-> e]
          ELSE IF d.snap[i] \in LongNames
            THEN [d |-> d1, again |-> FALSE, ret |-> NoEntry, err |-> "ENAMETOOLONG"]
          ELSE [d |-> [d1 EXCEPT !.current_position = @ + 1], again |-> FALSE,
                ret |-> d.snap[i], err |-> e]

(* An iteration of a readdir the caller made itself. *)
ReadDirStep ==
  /\ pc = "readdir"
  /\ LET r == Iterate(dirp, errno) IN
       /\ dirp' = r.d
       /\ errno' = r.err
       /\ IF r.again
            THEN UNCHANGED <<pc, done>>
            ELSE /\ pc' = "idle"
                 /\ done' = [op |-> "readdir", arg |-> r.ret]
  /\ UNCHANGED <<disk, changes, open, nextH, closes, arg, left, told>>

(* Variant of SeekDirStep whose loop makes one read too few             *)
(* (i < loc - 1 for i < loc, line 349).                                     *)
SeekDirStepShort ==
  /\ pc = "seekdir"
  /\ LET r == Iterate(dirp, errno) IN
       /\ dirp' = r.d
       /\ IF r.again
            THEN errno' = r.err /\ UNCHANGED <<pc, left, done>>
          ELSE IF r.ret = NoEntry
            THEN /\ errno' = "EINVAL" /\ pc' = "idle"
                 /\ done' = [op |-> "seekdir", arg |-> arg]
                 /\ UNCHANGED left
          ELSE   /\ errno' = r.err
                 /\ left' = left - 1
                 /\ IF left <= 2
                      THEN pc' = "idle" /\ done' = [op |-> "seekdir", arg |-> arg]
                      ELSE UNCHANGED <<pc, done>>
  /\ UNCHANGED <<disk, changes, open, nextH, closes, arg, told>>

(* An iteration of a readdir made by seekdir(loc > 0)'s loop, lines       *)
(* 349-356: a nullptr ends seekdir with EINVAL.                            *)
SeekDirStep ==
  /\ pc = "seekdir"
  /\ LET r == Iterate(dirp, errno) IN
       /\ dirp' = r.d
       /\ IF r.again
            THEN errno' = r.err /\ UNCHANGED <<pc, left, done>>
          ELSE IF r.ret = NoEntry
            THEN /\ errno' = "EINVAL" /\ pc' = "idle"
                 /\ done' = [op |-> "seekdir", arg |-> arg]
                 /\ UNCHANGED left
          ELSE   /\ errno' = r.err
                 /\ left' = left - 1
                 /\ IF left = 1
                      THEN pc' = "idle" /\ done' = [op |-> "seekdir", arg |-> arg]
                      ELSE UNCHANGED <<pc, done>>
  /\ UNCHANGED <<disk, changes, open, nextH, closes, arg, told>>

(* An iteration of a readdir made by seekdir(-1)'s loop, line 346: it     *)
(* reads until readdir returns nullptr.                                    *)
SeekEndStep ==
  /\ pc = "seekend"
  /\ LET r == Iterate(dirp, errno) IN
       /\ dirp' = r.d
       /\ errno' = r.err
       /\ IF ~r.again /\ r.ret = NoEntry
            THEN pc' = "idle" /\ done' = [op |-> "seekdir", arg |-> -1]
            ELSE UNCHANGED <<pc, done>>
  /\ UNCHANGED <<disk, changes, open, nextH, closes, arg, left, told>>

(* Another process creates, removes or deletes entries of the directory. *)
ChangeDisk ==
  /\ changes < MaxChanges
  /\ \E s \in EnvStates \ {disk} : disk' = s
  /\ changes' = changes + 1
  /\ UNCHANGED <<open, dirp, errno, nextH, closes, pc, arg, left, told, done>>

Next ==
  \/ \E p \in Paths : OpenDir(p)
  \/ ReadDir \/ ReadDirStep
  \/ CloseDir \/ RewindDir \/ TellDir \/ NullCall
  \/ \E loc \in Seeks : SeekDir(loc)
  \/ SeekDirStep \/ SeekEndStep
  \/ ChangeDisk

Spec == Init /\ [][Next]_vars

-----------------------------------------------------------------------------
(* Find handles are released exactly once: every handle FindFirstFileW    *)
(* opened has been closed by FindClose once, except the handle of the     *)
(* open stream, which is not closed yet -- across rewinddir and seekdir   *)
(* re-opening the enumeration and a re-open that fails.                    *)
HandleDiscipline ==
  \A h \in 1..nextH :
     /\ closes[h] <= 1
     /\ (closes[h] = 0 <=> open /\ dirp.handle = h)

(* The facts HandleDiscipline and TypeOK rest on: handles above nextH are *)
(* unused, a call in progress is on an open stream, whose find data is an *)
(* entry of its enumeration, and seekdir's loop has a read left to make.  *)
HandleBookkeeping ==
  /\ dirp.handle <= nextH
  /\ \A h \in 1..MaxHandles : h > nextH => closes[h] = 0
  /\ pc # "idle" => open
  /\ open => dirp.cur \in 1..Len(dirp.snap)
  /\ pc = "seekdir" => left >= 1

(* The inductive invariant the theorems of DirentProofs rest on. *)
IInv == TypeOK /\ HandleBookkeeping /\ HandleDiscipline

(* seekdir to a value telldir returned, or to -1, lands there: when       *)
(* seekdir(loc) has returned, telldir() = loc (the header's contract and  *)
(* the TellSeekDir test).                                                  *)
SeekLands ==
  (pc = "idle" /\ open /\ done.op = "seekdir" /\ done.arg \in told \cup {-1})
     => Tell(dirp) = done.arg

(* The entries a stream can still return, for the proof of SeekLands: the *)
(* index the next read looks at, the indices of entries readdir returns   *)
(* (not "." or ".."), and those of them at or after the next index.       *)
NextIndex(d) == IF d.first THEN d.cur ELSE d.cur + 1
Readable(s) == {i \in 1..Len(s) : s[i] \notin {Dot, DotDot}}
Ahead(d) == {i \in Readable(d.snap) : i >= NextIndex(d)}

(* The inductive invariant behind SeekLands when no other process changes *)
(* the directory.  An open stream enumerates the directory through a      *)
(* valid handle;                                                           *)
StreamOnDisk == open => dirp.snap = disk /\ dirp.handle # Invalid
(* its position counts the entries it has returned;                       *)
PositionCounts ==
  open /\ ~dirp.end_reached =>
    dirp.current_position + Cardinality(Ahead(dirp)) = Cardinality(Readable(disk))
(* telldir's values are positions the listing has;                         *)
ToldInListing == told \subseteq {-1} \cup 0..Cardinality(Readable(disk))
(* seekdir's replay has read arg - left entries, and has not run off the  *)
(* end if arg is a value telldir returned.                                 *)
ReplayCounts ==
  pc = "seekdir" => /\ dirp.current_position + left = arg
                   /\ (arg \in told => ~dirp.end_reached)
SeekInv == StreamOnDisk /\ PositionCounts /\ ToldInListing /\ ReplayCounts /\ SeekLands

(* readdir enumerates the directory in order, and telldir numbers what it *)
(* returned: when readdir has returned an entry, that entry is the one    *)
(* whose rank among the directory's entries, "." and ".." not counted,    *)
(* is telldir().  So readdir neither skips nor repeats an entry, across   *)
(* its skip loop, rewinddir and seekdir's replay.                          *)
ReadDirInOrder ==
  (pc = "idle" /\ open /\ done.op = "readdir" /\ done.arg # NoEntry)
     => \E i \in Readable(disk) :
          /\ disk[i] = done.arg
          /\ Cardinality({j \in Readable(disk) : j <= i}) = Tell(dirp)

(* The stream just after readdir returned an entry: the find data holds   *)
(* that entry, it is not "." or "..", and the stream is not at its end.   *)
ReadDirReturned ==
  (pc = "idle" /\ open /\ done.op = "readdir" /\ done.arg # NoEntry)
     => /\ ~dirp.first /\ ~dirp.end_reached
        /\ dirp.cur \in Readable(dirp.snap)
        /\ dirp.snap[dirp.cur] = done.arg

(* readdir leaves errno alone unless it fails: callers set errno to 0 and *)
(* call readdir to tell the end of the directory from an error, as POSIX  *)
(* and the header's "If nullptr is returned and errno is not 0, an error  *)
(* occurred" (part_004 lines 116-117) say.  The same header's "@retval    *)
(* ENOENT No more directory entries" (line 121) says the opposite; the    *)
(* code follows lines 116-117, and this property tells the two apart.     *)
(* A step of a readdir the caller made changes errno only when readdir    *)
(* returns nullptr on an error -- the stream neither at its end nor moved *)
(* on -- over the skipped "." and "..", a FindNextFileW on a handle a     *)
(* failed rewinddir invalidated, and directories changed meanwhile.       *)
ReadDirKeepsErrno ==
  [][pc = "readdir" /\ errno' # errno =>
       /\ pc' = "idle"
       /\ ~dirp'.end_reached
       /\ dirp'.current_position = dirp.current_position]_vars
=============================================================================
